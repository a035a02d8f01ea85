-------------------------- MODULE LeiosNodeProofs ---------------------------
(***************************************************************************)
(* The types of the fields of LeiosState, the elections, the EB-safety     *)
(* gate and what the node forges, for every universe of blocks, every      *)
(* pipeline and committee, and every number of slots and imposed tips.     *)
(***************************************************************************)
EXTENDS LeiosNode, TLAPS

(* The leaves go to Zenon, and to SMT where they name it.                  *)
USE Zenon

(* An election describes the block it is keyed by, and its body flag is    *)
(* earned.                                                                 *)
ElectionOK(h, e) ==
    /\ h \in Hash
    /\ e \in Election
    /\ e.eb = Announced[h]
    /\ e.slot = Slot[h]
    /\ e.body => e.eb \in bodies

ElectionsOK(es) == \A h \in DOMAIN es : ElectionOK(h, es[h])

Rivals(g, h) == g # h /\ Slot[g] = Slot[h] /\ Issuer[g] = Issuer[h]

(* The context knows of every rival of the tip that the node voted for.    *)
TipOK(ctx) ==
    /\ ctx.rb \in DOMAIN seen \cup {None}
    /\ ctx.rb # None =>
        \A g \in Hash : cast[g] > 0 /\ Rivals(g, ctx.rb) => Slot[g] \in ctx.equivocating

TipLive(es, ctx) == Announces(ctx.rb) => ctx.rb \in DOMAIN es

ChainOK ==
    /\ slot \in Nat
    /\ DOMAIN seen \subseteq Hash
    /\ \A h \in DOMAIN seen : Anc[h] \subseteq DOMAIN seen
    /\ adopted \in DOMAIN seen \cup {None}
    /\ pending \cup applied \subseteq DOMAIN seen

CastOK ==
    /\ cast \in [Hash -> Nat]
    /\ \A h \in Hash : cast[h] > 0 => h \in DOMAIN seen
    /\ VotesForValidated
    /\ NoVoteForBoth

(* The inductive invariant.                                                *)
Inv ==
    /\ ChainOK
    /\ CastOK
    /\ ElectionsOK(elections)
    /\ TipOK(tip)
    /\ TipLive(elections, tip)
    /\ DOMAIN validated \subseteq bodies

-----------------------------------------------------------------------------
(* The operators on elections keep them well formed.                       *)
LEMMA PhaseType == ASSUME NEW n PROVE PhaseForElapsed(n) \in Phases
BY DEF PhaseForElapsed, Phases

(* A new election is in order.                                             *)
LEMMA AnnounceOK ==
    ASSUME NEW es, ElectionsOK(es), NEW h \in Hash, Announces(h), slot \in Nat
    PROVE  /\ ElectionsOK(AnnounceFromRb(es, h, slot))
           /\ DOMAIN AnnounceFromRb(es, h, slot) = DOMAIN es \cup {h}
<1> DEFINE new == [eb |-> Announced[h], slot |-> Slot[h],
                   phase |-> PhaseForElapsed(Elapsed(slot, Slot[h])),
                   seen |-> slot, voted |-> FALSE, ballots |-> {},
                   quorum |-> FALSE, body |-> FALSE]
<1>1. Announced[h] \in EB /\ Slot[h] \in Nat
  BY AnnouncedAssumption, SlotAssumption DEF Announces
<1>2. new \in Election
  BY <1>1, PhaseType DEF Election
<1>3. ElectionOK(h, new)
  BY <1>2 DEF ElectionOK
<1>4. CASE h \in DOMAIN es
  BY <1>4 DEF AnnounceFromRb
<1>5. CASE h \notin DOMAIN es
  <2> HIDE DEF new
  <2>1. AnnounceFromRb(es, h, slot) =
            [r \in DOMAIN es \cup {h} |-> IF r \in DOMAIN es THEN es[r] ELSE new]
    BY <1>5 DEF AnnounceFromRb, new
  <2> QED BY <2>1, <1>3, <1>5 DEF ElectionsOK
<1> QED BY <1>4, <1>5

(* Marking a validated body keeps the elections in order.                  *)
LEMMA MarkOK ==
    ASSUME NEW es, ElectionsOK(es), NEW eb, eb \in bodies
    PROVE  /\ ElectionsOK(MarkBodyValidated(es, eb))
           /\ DOMAIN MarkBodyValidated(es, eb) = DOMAIN es
<1>1. DOMAIN MarkBodyValidated(es, eb) = DOMAIN es
  BY DEF MarkBodyValidated
<1>2. ASSUME NEW h \in DOMAIN es
      PROVE  ElectionOK(h, MarkBodyValidated(es, eb)[h])
  <2>1. ElectionOK(h, es[h])
    BY DEF ElectionsOK
  <2>2. MarkBodyValidated(es, eb)[h] = [es[h] EXCEPT !.body = @ \/ es[h].eb = eb]
    BY DEF MarkBodyValidated
  <2> QED BY <2>1, <2>2 DEF ElectionOK, Election
<1> QED BY <1>1, <1>2 DEF ElectionsOK

(* Seeding the election of a tip keeps them in order and creates it.       *)
LEMMA AtTipOK ==
    ASSUME NEW es, ElectionsOK(es), NEW h \in Hash \cup {None}, slot \in Nat,
           DOMAIN validated \subseteq bodies
    PROVE  /\ ElectionsOK(ElectionsAtTip(es, h))
           /\ Announces(h) => h \in DOMAIN ElectionsAtTip(es, h)
<1>1. CASE ~Announces(h)
  BY <1>1 DEF ElectionsAtTip
<1>2. CASE Announces(h)
  <2>1. h \in Hash
    BY <1>2 DEF Announces
  <2>2. ElectionsOK(AnnounceFromRb(es, h, slot)) /\ h \in DOMAIN AnnounceFromRb(es, h, slot)
    BY <2>1, <1>2, AnnounceOK
  <2>3. CASE Announced[h] \in DOMAIN validated
    BY <2>2, <2>3, <1>2, MarkOK DEF ElectionsAtTip
  <2>4. CASE Announced[h] \notin DOMAIN validated
    BY <2>2, <2>4, <1>2 DEF ElectionsAtTip
  <2> QED BY <2>3, <2>4
<1> QED BY <1>1, <1>2

(* So does recording a vote,                                               *)
LEMMA RecordOK ==
    ASSUME NEW es, ElectionsOK(es), NEW h \in DOMAIN es,
           NEW voter \in Voter, NEW tag \in {PV, NPV}
    PROVE  /\ ElectionsOK(RecordVote(es, h, voter, tag))
           /\ DOMAIN RecordVote(es, h, voter, tag) = DOMAIN es
<1>1. CASE WeightFor(voter, tag) = 0
  BY <1>1 DEF RecordVote
<1>2. CASE WeightFor(voter, tag) # 0
  <2> DEFINE ballots == es[h].ballots \cup {<<voter, tag>>}
             full == MapThenSumSet(BallotWeight, ballots) >= Threshold
             after == RecordVote(es, h, voter, tag)
  <2>1. after = [es EXCEPT ![h].ballots = ballots, ![h].quorum = @ \/ full]
    BY <1>2 DEF RecordVote
  <2> HIDE DEF full, after
  <2>2. ElectionOK(h, es[h]) /\ ballots \in SUBSET Ballot
    BY SMTT(30) DEF ElectionsOK, ElectionOK, Election, Ballot
  <2>3. DOMAIN after = DOMAIN es /\ \A r \in DOMAIN es \ {h} : after[r] = es[r]
    BY <2>1
  <2>4. after[h] = [es[h] EXCEPT !.ballots = ballots, !.quorum = @ \/ full]
    BY <2>1, <2>2 DEF ElectionOK, Election
  <2>5. ElectionOK(h, after[h])
    <3> HIDE DEF ballots
    <3> QED BY <2>2, <2>4 DEF ElectionOK, Election
  <2>6. ElectionsOK(after)
    BY <2>3, <2>5 DEF ElectionsOK
  <2> QED BY <2>3, <2>6 DEF after
<1> QED BY <1>1, <1>2

(* and the pass of a slot, which keeps the elections from min on.          *)
LEMMA SlotPassOK ==
    ASSUME NEW es, ElectionsOK(es), NEW ctx, NEW now, NEW min
    PROVE  LET kept == PruneBelowSlot(AfterVoting(es, ctx, now), min)
           IN  /\ ElectionsOK(kept)
               /\ \A h \in DOMAIN es : Slot[h] >= min => h \in DOMAIN kept
<1> DEFINE after == AfterVoting(es, ctx, now)
<1>1. DOMAIN after = DOMAIN es
  BY DEF AfterVoting
<1>2. ASSUME NEW h \in DOMAIN es
      PROVE  ElectionOK(h, after[h])
  <2>1. ElectionOK(h, es[h])
    BY DEF ElectionsOK
  <2> DEFINE phase == PhaseForElapsed(Elapsed(now, es[h].slot))
             settles == Settles(h, es[h], ctx, now)
  <2>2. after[h] = [es[h] EXCEPT !.phase = phase, !.voted = @ \/ settles]
    BY DEF AfterVoting
  <2>3. phase \in Phases
    BY PhaseType
  <2> HIDE DEF phase, settles, after
  <2> QED BY <2>1, <2>2, <2>3 DEF ElectionOK, Election
<1> HIDE DEF after
<1>3. \A h \in DOMAIN es : after[h].slot = Slot[h]
  BY <1>2 DEF ElectionOK
<1>4. ElectionsOK(PruneBelowSlot(after, min))
  BY <1>1, <1>2 DEF ElectionsOK, PruneBelowSlot
<1>5. \A h \in DOMAIN es : Slot[h] >= min => h \in DOMAIN PruneBelowSlot(after, min)
  BY <1>1, <1>3 DEF PruneBelowSlot
<1> QED BY <1>4, <1>5 DEF after

(* A new context on a seen block knows its rivals among the seen blocks.   *)
LEMMA ContextOK ==
    ASSUME ChainOK, CastOK, NEW h \in DOMAIN seen \cup {None}
    PROVE  TipOK(TipContext(h, seen)) /\ TipContext(h, seen).rb = h
<1>1. CASE h = None
  BY <1>1 DEF TipOK, TipContext, NoTip
<1>2. CASE h # None
  <2>1. h \in DOMAIN seen /\ h \in Hash
    BY <1>2 DEF ChainOK
  <2>2. TipContext(h, seen) = [rb |-> h, arrival |-> seen[h],
                               equivocating |-> EquivocatingRbSlots(seen)]
    BY <1>2 DEF TipContext
  <2>3. ASSUME NEW g \in Hash, cast[g] > 0, Rivals(g, h)
        PROVE  Slot[g] \in EquivocatingRbSlots(seen)
    <3>1. g \in DOMAIN seen
      BY <2>3 DEF CastOK
    <3> QED BY <2>1, <2>3, <3>1 DEF EquivocatingRbSlots, Rivals
  <2> QED BY SMTT(30), <2>1, <2>2, <2>3 DEF TipOK
<1> QED BY <1>1, <1>2

(* The slot pass: only the tip is voted for, and its election stays.       *)
LEMMA OnSlotOK ==
    ASSUME ChainOK, CastOK, DOMAIN validated \subseteq bodies, UNCHANGED <<seen, bodies>>,
           NEW es, ElectionsOK(es), NEW ctx, TipOK(ctx), TipLive(es, ctx),
           NEW now, NEW parent, NEW load, OnSlot(es, ctx, now, parent, load)
    PROVE  /\ CastOK'
           /\ ElectionsOK(elections)'
           /\ (TipOK(ctx))'
           /\ TipLive(elections', ctx)
           /\ DOMAIN validated' \subseteq bodies'
<1> DEFINE kept == PruneBelowSlot(AfterVoting(es, ctx, now), MinKeep(ctx))
           Votes(h) == h \in DOMAIN es /\ EmitsVote(h, es[h], ctx, now)
<1>1. elections' = kept /\ validated' = Keep(validated, MinKeep(ctx))
  BY DEF OnSlot, EndOfSlot
<1>2. cast' = [h \in Hash |-> IF Votes(h) THEN cast[h] + 1 ELSE cast[h]]
  BY DEF OnSlot, CountVotes
<1>3. ASSUME NEW h \in Hash, Votes(h)
      PROVE  /\ h = ctx.rb
             /\ h \in DOMAIN seen
             /\ Announced[h] \in bodies
             /\ Slot[h] \notin ctx.equivocating
  <2>1. MayVote(h, es[h], ctx) /\ ElectionOK(h, es[h])
    BY <1>3 DEF EmitsVote, ElectionsOK
  <2>2. h # None
    BY HashAssumption
  <2> QED BY <2>1, <2>2 DEF MayVote, ElectionOK, TipOK
<1> HIDE DEF Votes
<1>4. \A h \in Hash : cast'[h] > 0 => cast[h] > 0 \/ Votes(h)
  BY <1>2 DEF CastOK
<1>5. cast' \in [Hash -> Nat]
  BY SMTT(30), <1>2 DEF CastOK
<1>6. VotesForValidated'
  BY <1>3, <1>4 DEF VotesForValidated, CastOK
<1>7. NoVoteForBoth'
  <2>1. ASSUME NEW g \in Hash, NEW h \in Hash, Votes(g), cast[h] > 0, Rivals(h, g)
        PROVE  FALSE
    <3>1. g = ctx.rb /\ g # None /\ Slot[g] \notin ctx.equivocating
      BY <1>3, <2>1, HashAssumption
    <3>2. Slot[h] \in ctx.equivocating
      BY <2>1, <3>1 DEF TipOK
    <3> QED BY <3>1, <3>2, <2>1 DEF Rivals
  <2>2. \A g, h \in Hash : Votes(g) /\ Votes(h) => g = h
    BY <1>3
  <2> QED BY <2>1, <2>2, <1>4 DEF NoVoteForBoth, CastOK, Rivals
<1>8. CastOK'
  BY <1>3, <1>4, <1>5, <1>6, <1>7 DEF CastOK
<1>9. (TipOK(ctx))'
  BY <1>3, <1>4 DEF TipOK, Rivals
<1>10. ElectionsOK(kept) /\ \A h \in DOMAIN es : Slot[h] >= MinKeep(ctx) => h \in DOMAIN kept
  BY SlotPassOK
<1> HIDE DEF kept
<1>11. ElectionsOK(elections)'
  BY <1>1, <1>10 DEF ElectionsOK, ElectionOK
<1>12. TipLive(elections', ctx)
  <2>1. ASSUME Announces(ctx.rb) PROVE Slot[ctx.rb] >= MinKeep(ctx)
    <3>1. ctx.rb \in Hash /\ ctx.rb # None
      BY <2>1 DEF TipOK, ChainOK, Announces
    <3> QED BY SMTT(30), <3>1, SlotAssumption DEF MinKeep
  <2> QED BY <1>1, <1>10, <2>1 DEF TipLive
<1>13. DOMAIN validated' \subseteq bodies'
  BY <1>1 DEF Keep
<1> QED BY <1>8, <1>9, <1>11, <1>12, <1>13

-----------------------------------------------------------------------------
(* Inv holds initially ...                                                 *)
LEMMA InitInv == Init => Inv
<1> SUFFICES ASSUME Init PROVE Inv
  OBVIOUS
<1>1. ChainOK
  BY DEF Init, ChainOK, Empty
<1>2. CastOK
  BY SMTT(30) DEF Init, CastOK, VotesForValidated, NoVoteForBoth
<1>3. ElectionsOK(elections) /\ DOMAIN validated \subseteq bodies
  BY DEF Init, ElectionsOK, Empty
<1>4. TipOK(tip) /\ TipLive(elections, tip)
  BY DEF Init, TipOK, TipLive, NoTip, Announces
<1> QED BY <1>1, <1>2, <1>3, <1>4 DEF Inv

(* The parts of the invariant that do not depend on the elections.         *)
LEMMA FrameOK ==
    ASSUME Inv, UNCHANGED <<slot, seen, adopted, pending, applied, tip, validated, bodies, cast>>
    PROVE  ChainOK' /\ CastOK' /\ TipOK(tip)' /\ DOMAIN validated' \subseteq bodies'
<1>1. ChainOK'
  BY DEF Inv, ChainOK
<1>2. CastOK'
  BY DEF Inv, CastOK, VotesForValidated, NoVoteForBoth
<1>3. TipOK(tip)'
  BY DEF Inv, TipOK
<1> QED BY <1>1, <1>2, <1>3 DEF Inv

(* A step that leaves the variables of Inv alone preserves it.             *)
LEMMA StutterOK ==
    ASSUME Inv, UNCHANGED <<slot, seen, adopted, pending, applied, tip, elections, validated,
                            bodies, cast>>
    PROVE  Inv'
<1>1. ChainOK' /\ CastOK' /\ TipOK(tip)' /\ DOMAIN validated' \subseteq bodies'
  BY FrameOK
<1>2. ElectionsOK(elections)'
  BY DEF Inv, ElectionsOK, ElectionOK
<1>3. TipLive(elections, tip)'
  BY DEF Inv, TipLive
<1> QED BY <1>1, <1>2, <1>3 DEF Inv

(* ... and every step preserves it.                                        *)
LEMMA NextInv == Inv /\ [Next]_vars => Inv'
<1> SUFFICES ASSUME Inv, [Next]_vars PROVE Inv'
  OBVIOUS
<1>0. ChainOK /\ CastOK /\ ElectionsOK(elections) /\ TipOK(tip) /\ TipLive(elections, tip)
      /\ DOMAIN validated \subseteq bodies
  BY DEF Inv
<1>1. ASSUME NEW h \in Hash, Receive(h)
      PROVE  Inv'
  <2> USE <1>0, <1>1
  <2>1. UNCHANGED <<slot, applied, tip, elections, validated, bodies, cast>>
    BY DEF Receive, ebVars
  <2>2. seen' = Put(seen, h, slot) /\ DOMAIN seen' = DOMAIN seen \cup {h}
    BY DEF Receive, Put
  <2>3. Anc[h] \subseteq DOMAIN seen'
    BY SMTT(30), <2>2, AncAssumption, PrevAssumption DEF Receive, ChainOK
  <2>4. ChainOK'
    BY <2>1, <2>2, <2>3 DEF Receive, ChainOK
  <2>5. CastOK'
    BY <2>1, <2>2 DEF CastOK, VotesForValidated, NoVoteForBoth
  <2>6. ElectionsOK(elections)' /\ TipOK(tip)' /\ TipLive(elections, tip)'
    BY <2>1, <2>2 DEF ElectionsOK, ElectionOK, TipOK, TipLive
  <2> QED BY <2>1, <2>4, <2>5, <2>6 DEF Inv
<1>2. ASSUME NEW h \in Hash, Apply(h)
      PROVE  Inv'
  <2> USE <1>0, <1>2
  <2>1. UNCHANGED <<slot, seen, adopted, validated, bodies, cast>>
    BY DEF Apply
  <2>2. ChainOK'
    BY <2>1 DEF Apply, ChainOK
  <2>3. CastOK'
    BY <2>1 DEF CastOK, VotesForValidated, NoVoteForBoth
  <2>4. adopted \in DOMAIN seen \cup {None} /\ adopted \in Hash \cup {None} /\ slot \in Nat
    BY DEF ChainOK
  <2>5. tip' = TipContext(adopted, seen) /\ elections' = ElectionsAtTip(elections, adopted)
    BY DEF Apply
  <2>6. TipOK(tip') /\ tip'.rb = adopted
    BY <2>4, <2>5, ContextOK
  <2>7. ElectionsOK(elections') /\ (Announces(adopted) => adopted \in DOMAIN elections')
    BY <2>4, <2>5, AtTipOK, SMTT(20)
  <2>8. ElectionsOK(elections)' /\ TipOK(tip)' /\ TipLive(elections, tip)'
    BY <2>1, <2>6, <2>7 DEF ElectionsOK, ElectionOK, TipOK, TipLive
  <2> QED BY <2>1, <2>2, <2>3, <2>8 DEF Inv
<1>3. ASSUME NEW h \in Hash, NEW complete \in BOOLEAN, ReceiveManifest(h, complete)
      PROVE  Inv'
  BY <1>3, StutterOK DEF ReceiveManifest, chainVars
<1>4. ASSUME NEW eb \in EB, TransactionsArrive(eb)
      PROVE  Inv'
  BY <1>4, StutterOK DEF TransactionsArrive, chainVars, ebVars
<1>5. ASSUME NEW h \in Hash, ValidatedEb(h)
      PROVE  Inv'
  <2> USE <1>0, <1>5
  <2> DEFINE eb == Announced[h]
  <2>1. UNCHANGED <<slot, seen, adopted, pending, applied, tip, cast>>
    BY DEF ValidatedEb, chainVars
  <2>2. bodies' = bodies \cup {eb} /\ validated' = Put(validated, eb, Slot[h])
        /\ elections' = MarkBodyValidated(elections, eb)
    BY DEF ValidatedEb
  <2>3. ChainOK'
    BY <2>1 DEF ChainOK
  <2>4. CastOK'
    BY <2>1, <2>2 DEF CastOK, VotesForValidated, NoVoteForBoth
  <2>5. DOMAIN elections' = DOMAIN elections
    BY <2>2 DEF MarkBodyValidated
  <2>6. ASSUME NEW r \in DOMAIN elections PROVE (ElectionOK(r, elections[r]))'
    <3>1. ElectionOK(r, elections[r])
      BY DEF ElectionsOK
    <3>2. elections'[r] = [elections[r] EXCEPT !.body = @ \/ elections[r].eb = eb]
      BY <2>2 DEF MarkBodyValidated
    <3> QED BY <2>2, <3>1, <3>2 DEF ElectionOK, Election
  <2>7. ElectionsOK(elections)'
    BY <2>5, <2>6 DEF ElectionsOK
  <2>8. TipOK(tip)' /\ TipLive(elections, tip)'
    BY <2>1, <2>5 DEF TipOK, TipLive
  <2>9. DOMAIN validated' \subseteq bodies'
    BY <2>2 DEF Put
  <2> QED BY <2>3, <2>4, <2>7, <2>8, <2>9 DEF Inv
<1>6. ASSUME NEW h \in Hash, NEW voter \in Voter, NEW tag \in {PV, NPV},
             ReceiveVote(h, voter, tag)
      PROVE  Inv'
  <2> USE <1>0, <1>6
  <2>1. UNCHANGED <<slot, seen, adopted, pending, applied, tip, validated, bodies, cast>>
    BY DEF ReceiveVote, chainVars, ebVars
  <2>2. ElectionsOK(elections') /\ DOMAIN elections' = DOMAIN elections
    <3>1. h \in DOMAIN elections /\ elections' = RecordVote(elections, h, voter, tag)
      BY DEF ReceiveVote
    <3> QED BY SMTT(30), <3>1, RecordOK
  <2>3. ChainOK' /\ CastOK' /\ TipOK(tip)' /\ DOMAIN validated' \subseteq bodies'
    BY <2>1, FrameOK
  <2>4. ElectionsOK(elections)'
    BY <2>1, <2>2, SMTT(20) DEF ElectionsOK, ElectionOK
  <2>5. TipLive(elections, tip)'
    BY <2>1, <2>2 DEF TipLive
  <2> QED BY <2>3, <2>4, <2>5 DEF Inv
<1>7. ASSUME NEW load, Tick(load)
      PROVE  Inv'
  <2> USE <1>0, <1>7
  <2>1. UNCHANGED <<seen, adopted, pending, applied, tip, bodies>> /\ slot' = slot + 1
    BY DEF Tick, chainVars
  <2>2. OnSlot(elections, tip, slot + 1, adopted, load)
    BY SMTT(20) DEF Tick
  <2>3. CastOK' /\ ElectionsOK(elections)' /\ (TipOK(tip))' /\ TipLive(elections', tip)
        /\ DOMAIN validated' \subseteq bodies'
    <3>1. ASSUME NEW ctx, ctx = tip
          PROVE  CastOK' /\ ElectionsOK(elections)' /\ (TipOK(ctx))'
                 /\ TipLive(elections', ctx) /\ DOMAIN validated' \subseteq bodies'
      BY <2>1, <2>2, <3>1, OnSlotOK
    <3> QED BY <3>1, <2>1 DEF TipOK
  <2>4. ChainOK'
    BY SMTT(30), <2>1 DEF ChainOK
  <2> QED BY <2>1, <2>3, <2>4 DEF TipLive, Inv
<1>8. ASSUME NEW h \in applied, NEW load, TickReorg(h, load)
      PROVE  Inv'
  <2> USE <1>0, <1>8
  <2> DEFINE ctx == TipContext(h, seen)
             es == ElectionsAtTip(elections, h)
  <2>1. UNCHANGED <<seen, pending, applied, bodies>> /\ slot' = slot + 1
        /\ adopted' = h /\ tip' = ctx
    BY DEF TickReorg
  <2>2. OnSlot(es, ctx, slot + 1, h, load)
    BY DEF TickReorg
  <2>3. h \in DOMAIN seen /\ h \in Hash /\ slot \in Nat
    BY DEF ChainOK
  <2>4. TipOK(ctx) /\ ctx.rb = h
    BY <2>3, ContextOK
  <2>5. ElectionsOK(es) /\ TipLive(es, ctx)
    BY <2>3, <2>4, AtTipOK DEF TipLive
  <2> HIDE DEF ctx, es
  <2>6. CastOK' /\ ElectionsOK(elections)' /\ TipLive(elections', ctx)
        /\ DOMAIN validated' \subseteq bodies'
    BY <2>1, <2>2, <2>4, <2>5, OnSlotOK
  <2>7. TipOK(tip)'
    <3>1. ASSUME NEW c, c = ctx PROVE (TipOK(c))'
      BY <2>1, <2>2, <2>4, <2>5, <3>1, OnSlotOK
    <3> QED BY <3>1, <2>1 DEF TipOK
  <2>8. ChainOK'
    BY SMTT(30), <2>1, <2>3 DEF ChainOK
  <2> QED BY <2>1, <2>6, <2>7, <2>8 DEF TipLive, Inv
<1>9. CASE UNCHANGED vars
  BY <1>9, StutterOK DEF vars, chainVars, ebVars
<1> QED BY <1>1, <1>2, <1>3, <1>4, <1>5, <1>6, <1>7, <1>8, <1>9 DEF Next

(* The invariant behind the theorems on `LeiosState`.                      *)
THEOREM LeiosInvariant == Spec => []Inv
<1>1. Init => Inv
  BY InitInv
<1>2. Inv /\ [Next]_vars => Inv'
  BY NextInv
<1> QED BY <1>1, <1>2, PTL DEF Spec

(* The election of the tip is never pruned while it is the tip             *)
(* (`set_chain_tip_context` against `prune_chain_progress`).               *)
THEOREM TipElectionNeverPruned == Spec => []TipElectionLive
<1>1. Inv => TipElectionLive
  BY DEF Inv, TipElectionLive, TipLive, ElectionsOK, ElectionOK
<1> QED BY <1>1, LeiosInvariant, PTL

(* `decide_vote` never lets a vote through for an EB whose body this node  *)
(* has not validated.                                                      *)
THEOREM VotesOnlyForValidated == Spec => []VotesForValidated
<1>1. Inv => VotesForValidated
  BY DEF Inv, CastOK
<1> QED BY <1>1, LeiosInvariant, PTL

(* The node never votes for two blocks of one issuer in one slot, although *)
(* the context in which it votes may be older than its knowledge.          *)
THEOREM NeverVotesForBoth == Spec => []NoVoteForBoth
<1>1. Inv => NoVoteForBoth
  BY DEF Inv, CastOK
<1> QED BY <1>1, LeiosInvariant, PTL

-----------------------------------------------------------------------------
(* What the operators leave of an election.                                *)
Weight(S) == MapThenSumSet(BallotWeight, S)

(* e is d except for the flags that may go up.                             *)
SameBut(e, d) ==
    /\ e.eb = d.eb /\ e.slot = d.slot /\ e.seen = d.seen
    /\ e.ballots = d.ballots /\ e.quorum = d.quorum

IsNew(e) == e.seen = slot /\ ~e.voted /\ e.ballots = {} /\ ~e.quorum

(* `set_chain_tip_context` adds the tip's election, and a validated body is *)
(* remembered.                                                             *)
AtTip(es, h, after) ==
    /\ DOMAIN after = DOMAIN es \cup (IF Announces(h) THEN {h} ELSE {})
    /\ \A r \in DOMAIN es :
          /\ SameBut(after[r], es[r])
          /\ after[r].voted = es[r].voted
          /\ es[r].body => after[r].body
    /\ \A r \in DOMAIN after \ DOMAIN es : IsNew(after[r])
    /\ Announces(h) /\ Announced[h] \in DOMAIN validated => after[h].body

(* Which fields the operators on elections change: a validated body,       *)
LEMMA MarkFields ==
    ASSUME NEW es, ElectionsOK(es), NEW eb
    PROVE  LET after == MarkBodyValidated(es, eb)
           IN  /\ DOMAIN after = DOMAIN es
               /\ \A r \in DOMAIN es :
                    /\ SameBut(after[r], es[r]) /\ after[r].voted = es[r].voted
                    /\ after[r].body = (es[r].body \/ es[r].eb = eb)
<1> DEFINE after == MarkBodyValidated(es, eb)
<1>1. DOMAIN after = DOMAIN es
  BY DEF MarkBodyValidated
<1>2. ASSUME NEW r \in DOMAIN es
      PROVE  /\ SameBut(after[r], es[r]) /\ after[r].voted = es[r].voted
             /\ after[r].body = (es[r].body \/ es[r].eb = eb)
  <2>1. es[r] \in Election
    BY DEF ElectionsOK, ElectionOK
  <2>2. after[r] = [es[r] EXCEPT !.body = @ \/ es[r].eb = eb]
    BY DEF MarkBodyValidated
  <2> HIDE DEF after
  <2> QED BY <2>1, <2>2 DEF Election, SameBut
<1> QED BY <1>1, <1>2

(* an announcement,                                                        *)
LEMMA AnnounceFields ==
    ASSUME NEW es, ElectionsOK(es), NEW h \in Hash, Announces(h)
    PROVE  LET after == AnnounceFromRb(es, h, slot)
           IN  /\ DOMAIN after = DOMAIN es \cup {h}
               /\ \A r \in DOMAIN es : after[r] = es[r]
               /\ h \notin DOMAIN es => IsNew(after[h])
               /\ after[h].eb = Announced[h]
<1> DEFINE new == [eb |-> Announced[h], slot |-> Slot[h],
                   phase |-> PhaseForElapsed(Elapsed(slot, Slot[h])),
                   seen |-> slot, voted |-> FALSE, ballots |-> {},
                   quorum |-> FALSE, body |-> FALSE]
<1>1. CASE h \in DOMAIN es
  BY <1>1 DEF AnnounceFromRb, ElectionsOK, ElectionOK
<1>2. CASE h \notin DOMAIN es
  <2>0. IsNew(new) /\ new.eb = Announced[h]
    BY DEF IsNew
  <2> HIDE DEF new
  <2>1. AnnounceFromRb(es, h, slot) =
            [r \in DOMAIN es \cup {h} |-> IF r \in DOMAIN es THEN es[r] ELSE new]
    BY <1>2 DEF AnnounceFromRb, new
  <2> QED BY <1>2, <2>0, <2>1
<1> QED BY <1>1, <1>2

(* the seeding at a tip,                                                   *)
LEMMA AtTipFields ==
    ASSUME NEW es, ElectionsOK(es), NEW h \in Hash \cup {None}, slot \in Nat
    PROVE  AtTip(es, h, ElectionsAtTip(es, h))
<1>1. CASE ~Announces(h)
  BY <1>1 DEF ElectionsAtTip, AtTip, SameBut
<1>2. CASE Announces(h)
  <2> DEFINE mid == AnnounceFromRb(es, h, slot)
             after == ElectionsAtTip(es, h)
  <2>1. h \in Hash
    BY <1>2 DEF Announces
  <2>2. /\ DOMAIN mid = DOMAIN es \cup {h} /\ \A r \in DOMAIN es : mid[r] = es[r]
        /\ h \notin DOMAIN es => IsNew(mid[h])
        /\ mid[h].eb = Announced[h]
    BY <1>2, <2>1, AnnounceFields
  <2>3. ElectionsOK(mid)
    BY <1>2, <2>1, AnnounceOK
  <2> HIDE DEF mid
  <2>4. CASE Announced[h] \notin DOMAIN validated
    <3>1. after = mid
      BY <1>2, <2>4 DEF ElectionsAtTip, mid
    <3> HIDE DEF after
    <3>2. AtTip(es, h, after)
      BY <1>2, <2>2, <2>4, <3>1 DEF AtTip, SameBut
    <3> QED BY <3>2 DEF after
  <2>5. CASE Announced[h] \in DOMAIN validated
    <3>1. after = MarkBodyValidated(mid, Announced[h])
      BY <1>2, <2>5 DEF ElectionsAtTip, mid
    <3> HIDE DEF after
    <3>2. /\ DOMAIN after = DOMAIN mid
          /\ \A r \in DOMAIN mid :
                /\ SameBut(after[r], mid[r]) /\ after[r].voted = mid[r].voted
                /\ after[r].body = (mid[r].body \/ mid[r].eb = Announced[h])
      BY SMTT(30), <2>3, <3>1, MarkFields
    <3>3. DOMAIN after = DOMAIN es \cup {h} /\ h \in DOMAIN mid
      BY <2>2, <3>2
    <3>4. \A r \in DOMAIN es : SameBut(after[r], es[r]) /\ after[r].voted = es[r].voted
                               /\ (es[r].body => after[r].body)
      BY <2>2, <3>2
    <3>5. \A r \in DOMAIN after \ DOMAIN es : IsNew(after[r])
      BY <2>2, <3>2, <3>3 DEF IsNew, SameBut
    <3>6. after[h].body
      BY <2>2, <3>2, <3>3
    <3>7. AtTip(es, h, after)
      BY <1>2, <3>3, <3>4, <3>5, <3>6 DEF AtTip
    <3> QED BY <3>7 DEF after
  <2> QED BY <2>4, <2>5
<1> QED BY <1>1, <1>2

(* a vote,                                                                 *)
LEMMA RecordFields ==
    ASSUME NEW es, ElectionsOK(es), NEW h \in DOMAIN es,
           NEW voter \in Voter, NEW tag \in {PV, NPV}
    PROVE  LET after == RecordVote(es, h, voter, tag)
           IN  /\ DOMAIN after = DOMAIN es
               /\ \A r \in DOMAIN es :
                    /\ after[r].eb = es[r].eb /\ after[r].slot = es[r].slot
                    /\ after[r].seen = es[r].seen /\ after[r].voted = es[r].voted
                    /\ after[r].body = es[r].body
               /\ \A r \in DOMAIN es \ {h} : after[r] = es[r]
               /\ \/ after = es
                  \/ /\ WeightFor(voter, tag) # 0
                     /\ after[h].ballots = es[h].ballots \cup {<<voter, tag>>}
                     /\ after[h].quorum = (es[h].quorum \/ Weight(after[h].ballots) >= Threshold)
<1>1. CASE WeightFor(voter, tag) = 0
  BY <1>1 DEF RecordVote
<1>2. CASE WeightFor(voter, tag) # 0
  <2> DEFINE ballots == es[h].ballots \cup {<<voter, tag>>}
             full == Weight(ballots) >= Threshold
             after == RecordVote(es, h, voter, tag)
  <2>1. after = [es EXCEPT ![h].ballots = ballots, ![h].quorum = @ \/ full]
    BY <1>2 DEF RecordVote, Weight
  <2> HIDE DEF full, after
  <2>2. es[h] \in Election
    BY DEF ElectionsOK, ElectionOK
  <2>3. DOMAIN after = DOMAIN es /\ \A r \in DOMAIN es \ {h} : after[r] = es[r]
    BY <2>1
  <2>4. after[h] = [es[h] EXCEPT !.ballots = ballots, !.quorum = @ \/ full]
    BY <2>1, <2>2 DEF Election
  <2> HIDE DEF ballots
  <2>5. /\ after[h].eb = es[h].eb /\ after[h].slot = es[h].slot
        /\ after[h].seen = es[h].seen /\ after[h].voted = es[h].voted
        /\ after[h].body = es[h].body
        /\ after[h].ballots = ballots /\ after[h].quorum = (es[h].quorum \/ full)
    BY <2>2, <2>4 DEF Election
  <2> QED BY <1>2, <2>3, <2>5 DEF after, full, ballots
<1> QED BY <1>1, <1>2

(* The slot pass: the phases, the voted flags and the pruning.             *)
Passed(es, ctx, now, after) ==
    /\ DOMAIN after = {r \in DOMAIN es : Slot[r] >= MinKeep(ctx)}
    /\ \A r \in DOMAIN after :
          /\ SameBut(after[r], es[r])
          /\ after[r].body = es[r].body
          /\ after[r].phase = PhaseForElapsed(Elapsed(now, Slot[r]))
          /\ after[r].voted = (es[r].voted \/ Settles(r, es[r], ctx, now))

(* and the pass of a slot.                                                 *)
LEMMA SlotPassFields ==
    ASSUME NEW es, ElectionsOK(es), NEW ctx, NEW now
    PROVE  Passed(es, ctx, now, PruneBelowSlot(AfterVoting(es, ctx, now), MinKeep(ctx)))
<1> DEFINE mid == AfterVoting(es, ctx, now)
           after == PruneBelowSlot(mid, MinKeep(ctx))
<1>1. DOMAIN mid = DOMAIN es
  BY DEF AfterVoting
<1>2. ASSUME NEW r \in DOMAIN es
      PROVE  /\ SameBut(mid[r], es[r])
             /\ mid[r].body = es[r].body
             /\ mid[r].phase = PhaseForElapsed(Elapsed(now, Slot[r]))
             /\ mid[r].voted = (es[r].voted \/ Settles(r, es[r], ctx, now))
             /\ mid[r].slot = Slot[r]
  <2>1. es[r] \in Election /\ es[r].slot = Slot[r]
    BY DEF ElectionsOK, ElectionOK
  <2> DEFINE phase == PhaseForElapsed(Elapsed(now, es[r].slot))
             settles == Settles(r, es[r], ctx, now)
  <2>2. mid[r] = [es[r] EXCEPT !.phase = phase, !.voted = @ \/ settles]
    BY DEF AfterVoting
  <2>3. phase = PhaseForElapsed(Elapsed(now, Slot[r]))
    BY <2>1
  <2> HIDE DEF phase, settles, mid
  <2>4. mid[r].phase = phase /\ mid[r].voted = (es[r].voted \/ settles) /\ mid[r].slot = es[r].slot
        /\ SameBut(mid[r], es[r]) /\ mid[r].body = es[r].body
    BY <2>1, <2>2 DEF Election, SameBut
  <2> QED BY <2>1, <2>3, <2>4 DEF settles
<1> HIDE DEF mid
<1>3. DOMAIN after = {r \in DOMAIN es : Slot[r] >= MinKeep(ctx)}
      /\ \A r \in DOMAIN after : after[r] = mid[r]
  BY <1>1, <1>2 DEF PruneBelowSlot
<1> HIDE DEF after
<1>4. Passed(es, ctx, now, after)
  BY <1>2, <1>3 DEF Passed
<1> QED BY <1>4 DEF after, mid

-----------------------------------------------------------------------------
-----------------------------------------------------------------------------
(* Types.                                                                  *)
LEMMA PartialMaps ==
    ASSUME NEW S, NEW T, NEW f
    PROVE  f \in Partial(S, T) <=>
              /\ f = [x \in DOMAIN f |-> f[x]] /\ DOMAIN f \subseteq S
              /\ \A x \in DOMAIN f : f[x] \in T
<1>1. ASSUME f \in Partial(S, T)
      PROVE  /\ f = [x \in DOMAIN f |-> f[x]] /\ DOMAIN f \subseteq S
             /\ \A x \in DOMAIN f : f[x] \in T
  <2>1. PICK D \in SUBSET S : f \in [D -> T]
    BY <1>1 DEF Partial
  <2> QED BY <2>1
<1>2. ASSUME f = [x \in DOMAIN f |-> f[x]], DOMAIN f \subseteq S, \A x \in DOMAIN f : f[x] \in T
      PROVE  f \in Partial(S, T)
  <2>1. f \in [DOMAIN f -> T]
    BY <1>2
  <2> QED BY <1>2, <2>1 DEF Partial
<1> QED BY <1>1, <1>2

Forget(f, x) == [y \in DOMAIN f \ {x} |-> f[y]]

(* The operators on caches return caches.                                  *)
LEMMA PartialOps ==
    ASSUME NEW S, NEW m \in Nat, NEW f \in Partial(S, 0..m), NEW n \in Nat, m <= n
    PROVE  /\ f \in Partial(S, 0..n)
           /\ \A x \in S, v \in 0..n : Put(f, x, v) \in Partial(S, 0..n)
           /\ \A min : Keep(f, min) \in Partial(S, 0..n)
           /\ \A x : Forget(f, x) \in Partial(S, 0..n)
<1>1. /\ f = [x \in DOMAIN f |-> f[x]] /\ DOMAIN f \subseteq S
      /\ \A x \in DOMAIN f : f[x] \in 0..m
  BY PartialMaps
<1>2. \A v \in 0..m : v \in 0..n
  BY SMTT(30)
<1>3. f \in Partial(S, 0..n)
  BY <1>1, <1>2, PartialMaps
<1>4. ASSUME NEW x \in S, NEW v \in 0..n PROVE Put(f, x, v) \in Partial(S, 0..n)
  <2> DEFINE g == Put(f, x, v)
  <2>1. g = [y \in DOMAIN g |-> g[y]] /\ DOMAIN g \subseteq S /\ \A y \in DOMAIN g : g[y] \in 0..n
    BY <1>1, <1>2 DEF Put
  <2> HIDE DEF g
  <2>2. g \in Partial(S, 0..n)
    BY <2>1, PartialMaps
  <2> QED BY <2>2 DEF g
<1>5. ASSUME NEW min PROVE Keep(f, min) \in Partial(S, 0..n)
  <2> DEFINE g == Keep(f, min)
  <2>1. g = [y \in DOMAIN g |-> g[y]] /\ DOMAIN g \subseteq S /\ \A y \in DOMAIN g : g[y] \in 0..n
    BY <1>1, <1>2 DEF Keep
  <2> HIDE DEF g
  <2>2. g \in Partial(S, 0..n)
    BY <2>1, PartialMaps
  <2> QED BY <2>2 DEF g
<1>6. ASSUME NEW x PROVE Forget(f, x) \in Partial(S, 0..n)
  <2> DEFINE g == Forget(f, x)
  <2>1. g = [y \in DOMAIN g |-> g[y]] /\ DOMAIN g \subseteq S /\ \A y \in DOMAIN g : g[y] \in 0..n
    BY <1>1, <1>2 DEF Forget
  <2> HIDE DEF g
  <2>2. g \in Partial(S, 0..n)
    BY <2>1, PartialMaps
  <2> QED BY <2>2 DEF g
<1> QED BY <1>3, <1>4, <1>5, <1>6

(* Nothing comes from the future.                                          *)
SeenOK ==
    /\ \A h \in DOMAIN seen : seen[h] \in Slot[h]..slot
    /\ pending \cap applied = {}
    /\ tip.rb \in DOMAIN seen \cup {None}
    /\ DOMAIN elections \subseteq DOMAIN seen
    /\ \A h \in DOMAIN elections : elections[h].seen <= slot
    /\ \A h \in Hash : cast[h] <= slot

MapsOK ==
    /\ validated \in Partial(EB, 0..slot)
    /\ endorsed \in Partial(EB, 0..slot)
    /\ manifests \in Partial(EB, 0..slot)
    /\ missing \subseteq EB
    /\ bodies \subseteq EB

ForgedType == [parent : Hash \cup {None}, cert : BOOLEAN, inline : BOOLEAN, announces : BOOLEAN]

RestOK ==
    /\ slot <= MaxSlot
    /\ config \in Configs
    /\ forged \in ForgedType
    /\ reorgs \in 0..MaxReorgs

(* The slot pass lets nothing come from the future,                        *)
LEMMA OnSlotSeen ==
    ASSUME Inv, SeenOK, UNCHANGED <<seen, pending, applied>>, slot' = slot + 1,
           NEW es, ElectionsOK(es), DOMAIN es \subseteq DOMAIN seen, \A h \in DOMAIN es : es[h].seen <= slot,
           NEW ctx, NEW parent, NEW load, OnSlot(es, ctx, slot + 1, parent, load),
           tip'.rb \in DOMAIN seen \cup {None}
    PROVE  SeenOK'
<1>1. Passed(es, ctx, slot + 1, elections')
  BY SlotPassFields DEF OnSlot, EndOfSlot
<1>2. DOMAIN elections' \subseteq DOMAIN seen'
  BY <1>1 DEF Passed
<1>3. slot \in Nat /\ DOMAIN seen \subseteq Hash /\ cast \in [Hash -> Nat]
  BY DEF Inv, ChainOK, CastOK
<1>4. ASSUME NEW h \in DOMAIN elections' PROVE elections'[h].seen <= slot'
  <2>1. h \in DOMAIN es /\ elections'[h].seen = es[h].seen
    BY <1>1, <1>4 DEF Passed, SameBut
  <2>2. es[h].seen \in Nat
    BY <2>1 DEF ElectionsOK, ElectionOK, Election
  <2> QED BY SMTT(30), <1>3, <2>1, <2>2
<1>5. ASSUME NEW h \in DOMAIN seen' PROVE seen'[h] \in Slot[h]..slot'
  <2>1. h \in Hash /\ Slot[h] \in Nat /\ seen[h] \in Slot[h]..slot
    BY <1>3, <1>5, SlotAssumption DEF SeenOK
  <2> QED BY SMTT(30), <1>3, <2>1
<1>6. ASSUME NEW h \in Hash PROVE cast'[h] <= slot'
  <2>1. cast'[h] = cast[h] \/ cast'[h] = cast[h] + 1
    BY DEF OnSlot, CountVotes
  <2>2. cast[h] \in Nat /\ cast[h] <= slot
    BY <1>3 DEF SeenOK
  <2> QED BY SMTT(30), <1>3, <2>1, <2>2
<1> QED BY <1>2, <1>4, <1>5, <1>6 DEF SeenOK

(* nor does the seeding of an election,                                    *)
LEMMA AtTipSeen ==
    ASSUME Inv, SeenOK, NEW h \in DOMAIN seen \cup {None}
    PROVE  LET es == ElectionsAtTip(elections, h)
           IN  /\ ElectionsOK(es)
               /\ DOMAIN es \subseteq DOMAIN seen
               /\ \A r \in DOMAIN es : es[r].seen <= slot
<1> DEFINE es == ElectionsAtTip(elections, h)
<1>0. slot \in Nat /\ h \in Hash \cup {None} /\ ElectionsOK(elections) /\ DOMAIN validated \subseteq bodies
  BY DEF Inv, ChainOK
<1>1. AtTip(elections, h, es) /\ ElectionsOK(es)
  BY <1>0, AtTipFields, AtTipOK
<1> HIDE DEF es
<1>2. DOMAIN es \subseteq DOMAIN seen
  BY <1>1 DEF AtTip, Announces, SeenOK
<1>3. \A r \in DOMAIN es : es[r].seen <= slot
  BY SMTT(30), <1>0, <1>1 DEF AtTip, SameBut, IsNew, SeenOK
<1> QED BY <1>1, <1>2, <1>3 DEF es

(* nor any step.                                                           *)
LEMMA NextSeen == Inv /\ SeenOK /\ [Next]_vars => SeenOK'
<1> SUFFICES ASSUME Inv, SeenOK, [Next]_vars PROVE SeenOK'
  OBVIOUS
<1>0. /\ ElectionsOK(elections) /\ slot \in Nat /\ DOMAIN seen \subseteq Hash
      /\ adopted \in DOMAIN seen \cup {None} /\ pending \cup applied \subseteq DOMAIN seen
      /\ tip.rb \in DOMAIN seen \cup {None}
      /\ \A h \in Hash : Slot[h] \in Nat
  BY SlotAssumption DEF Inv, ChainOK, TipOK
<1>1. ASSUME NEW h \in Hash, Receive(h) PROVE SeenOK'
  <2>1. seen' = Put(seen, h, slot) /\ slot \in Slot[h]..(Slot[h] + MaxDelay) /\ h \notin DOMAIN seen
        /\ UNCHANGED <<slot, applied, tip, elections, cast>>
    BY <1>1 DEF Receive
  <2>2. DOMAIN seen' = DOMAIN seen \cup {h} /\ seen'[h] = slot
        /\ \A x \in DOMAIN seen : seen'[x] = seen[x]
    BY <2>1 DEF Put
  <2>3. \A x \in DOMAIN seen' : seen'[x] \in Slot[x]..slot'
    BY SMTT(30), <1>0, <2>1, <2>2, BoundAssumption DEF SeenOK
  <2>4. pending' \cap applied' = {}
    BY <1>1 DEF Receive, SeenOK
  <2> QED BY <2>1, <2>2, <2>3, <2>4 DEF SeenOK
<1>2. ASSUME NEW h \in Hash, Apply(h) PROVE SeenOK'
  <2>1. /\ UNCHANGED <<slot, seen, cast>> /\ pending' = pending \ {h} /\ applied' = applied \cup {h}
        /\ tip' = TipContext(adopted, seen) /\ elections' = ElectionsAtTip(elections, adopted)
    BY <1>2 DEF Apply
  <2>2. DOMAIN elections' \subseteq DOMAIN seen /\ \A r \in DOMAIN elections' : elections'[r].seen <= slot
    BY <1>0, <2>1, AtTipSeen
  <2>3. tip'.rb = adopted
    BY <2>1 DEF TipContext, NoTip
  <2> QED BY <1>0, <2>1, <2>2, <2>3 DEF SeenOK
<1>3. ASSUME NEW h \in Hash, ValidatedEb(h) PROVE SeenOK'
  <2>1. elections' = MarkBodyValidated(elections, Announced[h])
        /\ UNCHANGED <<slot, seen, pending, applied, tip, cast>>
    BY <1>3 DEF ValidatedEb, chainVars
  <2>2. /\ DOMAIN elections' = DOMAIN elections
        /\ \A r \in DOMAIN elections : SameBut(elections'[r], elections[r])
    BY <1>0, <2>1, MarkFields
  <2> QED BY <2>1, <2>2 DEF SameBut, SeenOK
<1>4. ASSUME NEW h \in Hash, NEW voter \in Voter, NEW tag \in {PV, NPV},
             ReceiveVote(h, voter, tag)
      PROVE  SeenOK'
  <2>1. h \in DOMAIN elections /\ elections' = RecordVote(elections, h, voter, tag)
        /\ UNCHANGED <<slot, seen, pending, applied, tip, cast>>
    BY <1>4 DEF ReceiveVote, chainVars
  <2>2. /\ DOMAIN elections' = DOMAIN elections
        /\ \A r \in DOMAIN elections : elections'[r].seen = elections[r].seen
    BY SMTT(30), <1>0, <2>1, RecordFields
  <2> QED BY <2>1, <2>2 DEF SeenOK
<1>5. ASSUME NEW load, Tick(load) PROVE SeenOK'
  <2>1. OnSlot(elections, tip, slot + 1, adopted, load)
        /\ UNCHANGED <<seen, pending, applied, tip>> /\ slot' = slot + 1
    BY <1>5 DEF Tick, chainVars
  <2>2. DOMAIN elections \subseteq DOMAIN seen /\ \A h \in DOMAIN elections : elections[h].seen <= slot
    BY DEF SeenOK
  <2> QED BY <1>0, <2>1, <2>2, OnSlotSeen
<1>6. ASSUME NEW h \in applied, NEW load, TickReorg(h, load) PROVE SeenOK'
  <2> DEFINE es == ElectionsAtTip(elections, h)
             ctx == TipContext(h, seen)
  <2>1. OnSlot(es, ctx, slot + 1, h, load) /\ UNCHANGED <<seen, pending, applied>>
        /\ slot' = slot + 1 /\ tip' = ctx
    BY <1>6 DEF TickReorg
  <2>2. h \in DOMAIN seen \cup {None}
    BY <1>0
  <2>3. ElectionsOK(es) /\ DOMAIN es \subseteq DOMAIN seen /\ \A r \in DOMAIN es : es[r].seen <= slot
    BY <2>2, AtTipSeen
  <2>4. ctx.rb = h
    BY DEF TipContext, NoTip
  <2> HIDE DEF es, ctx
  <2> QED BY <2>1, <2>2, <2>3, <2>4, OnSlotSeen
<1>7. ASSUME UNCHANGED <<slot, seen, pending, applied, tip, elections, cast>> PROVE SeenOK'
  BY <1>7 DEF SeenOK
<1>8. ASSUME \/ \E h \in Hash, complete \in BOOLEAN : ReceiveManifest(h, complete)
             \/ \E eb \in EB : TransactionsArrive(eb)
             \/ UNCHANGED vars
      PROVE  UNCHANGED <<slot, seen, pending, applied, tip, elections, cast>>
  BY <1>8 DEF ReceiveManifest, TransactionsArrive, chainVars, vars
<1> QED BY <1>1, <1>2, <1>3, <1>4, <1>5, <1>6, <1>7, <1>8 DEF Next

(* A received block, with its parent, is of the past.                      *)
LEMMA ParentSeen ==
    ASSUME Inv, NEW h \in DOMAIN seen
    PROVE  Prev[h] \in DOMAIN seen \cup {None}
<1>1. h \in Hash /\ Anc[h] \subseteq DOMAIN seen /\ Prev[h] \in Hash \cup {None}
  BY PrevAssumption DEF Inv, ChainOK
<1> QED BY SMTT(30), <1>1, AncAssumption

(* The gate stays a cache when an endorsement is noted.                    *)
LEMMA EndorsementType ==
    ASSUME Inv, SeenOK, NEW n \in Nat, slot <= n, NEW en \in Partial(EB, 0..n), NEW es,
           NEW h \in DOMAIN seen \cup {None}, Announces(h)
    PROVE  OnChainEndorsement(en, es, h) \in Partial(EB, 0..n)
<1>1. h \in Hash /\ h \in DOMAIN seen /\ slot \in Nat
  BY DEF Inv, ChainOK, Announces
<1>2. Announced[h] \in EB /\ Slot[h] \in Nat /\ seen[h] \in Slot[h]..slot
  BY <1>1, AnnouncedAssumption, SlotAssumption DEF Announces, SeenOK
<1>3. Slot[h] \in 0..n
  BY SMTT(30), <1>1, <1>2
<1>4. \A x \in EB, v \in 0..n : Put(en, x, v) \in Partial(EB, 0..n)
  BY SMTT(30), PartialOps
<1> QED BY <1>2, <1>3, <1>4 DEF OnChainEndorsement

(* The slot pass keeps the types of the caches and of the forged block.    *)
LEMMA OnSlotMaps ==
    ASSUME Inv, SeenOK, MapsOK, UNCHANGED <<bodies, missing>>, slot' = slot + 1,
           NEW es, NEW ctx, NEW now, NEW parent \in DOMAIN seen \cup {None}, NEW load,
           OnSlot(es, ctx, now, parent, load)
    PROVE  MapsOK' /\ forged' \in ForgedType
<1> DEFINE n == slot + 1
           kept == PruneBelowSlot(AfterVoting(es, ctx, now), MinKeep(ctx))
           leads == now \in LeaderSlots
           gate == Keep(endorsed, MinKeep(ctx))
<1>1. slot \in Nat /\ n \in Nat /\ slot <= n /\ slot' = n
  BY SMTT(30) DEF Inv, ChainOK
<1>2. /\ validated' = Keep(validated, MinKeep(ctx)) /\ manifests' = Keep(manifests, MinKeep(ctx))
      /\ endorsed' = GateAtForge(gate, kept, parent, leads)
      /\ forged' = IF leads THEN Forge(kept, endorsed', parent, load) ELSE NothingForged
  BY DEF OnSlot, EndOfSlot
<1> HIDE DEF n, kept, leads
<1>3. /\ Keep(validated, MinKeep(ctx)) \in Partial(EB, 0..n)
      /\ Keep(manifests, MinKeep(ctx)) \in Partial(EB, 0..n)
      /\ gate \in Partial(EB, 0..n)
  BY <1>1, PartialOps DEF MapsOK
<1> HIDE DEF gate
<1>4. endorsed' \in Partial(EB, 0..n)
  BY <1>1, <1>2, <1>3, EndorsementType DEF GateAtForge, BuildsEndorsement
<1>5. parent \in Hash \cup {None}
  BY DEF Inv, ChainOK
<1>6. forged' \in ForgedType
  <2>1. BuildsEndorsement(kept, parent) \in BOOLEAN
    BY DEF BuildsEndorsement
  <2>2. Forge(kept, endorsed', parent, load) \in ForgedType
    BY <1>5, <2>1 DEF Forge, ForgedType
  <2>3. NothingForged \in ForgedType
    BY DEF NothingForged, ForgedType
  <2> QED BY <1>2, <2>2, <2>3
<1> QED BY <1>1, <1>2, <1>3, <1>4, <1>6 DEF MapsOK

(* Every step keeps the types of the caches,                               *)
LEMMA NextMaps == Inv /\ SeenOK /\ MapsOK /\ [Next]_vars => MapsOK'
<1> SUFFICES ASSUME Inv, SeenOK, MapsOK, [Next]_vars PROVE MapsOK'
  OBVIOUS
<1>0. /\ slot \in Nat /\ adopted \in DOMAIN seen \cup {None} /\ pending \cup applied \subseteq DOMAIN seen
      /\ DOMAIN seen \subseteq Hash
  BY DEF Inv, ChainOK
<1>1. ASSUME NEW h \in Hash, Apply(h) PROVE MapsOK'
  <2>1. /\ UNCHANGED <<slot, validated, manifests, bodies, missing>>
        /\ \/ endorsed' = endorsed
           \/ Announces(Prev[h]) /\ endorsed' = OnChainEndorsement(endorsed, elections, Prev[h])
    BY <1>1 DEF Apply
  <2>2. Prev[h] \in DOMAIN seen \cup {None}
    BY <1>0, <1>1, ParentSeen DEF Apply
  <2>3. endorsed' \in Partial(EB, 0..slot)
    BY SMTT(30), <1>0, <2>1, <2>2, EndorsementType DEF MapsOK
  <2> QED BY <2>1, <2>3 DEF MapsOK
<1>2. ASSUME NEW h \in Hash, ValidatedEb(h) PROVE MapsOK'
  <2>1. /\ UNCHANGED <<slot, manifests, missing>> /\ bodies' = bodies \cup {Announced[h]}
        /\ validated' = Put(validated, Announced[h], Slot[h])
        /\ endorsed' = Forget(endorsed, Announced[h])
        /\ Announced[h] \in EB /\ Slot[h] \in Nat /\ Slot[h] <= slot
    BY <1>2, AnnouncedAssumption, SlotAssumption DEF ValidatedEb, Announces, Forget
  <2>2. Slot[h] \in 0..slot
    BY SMTT(30), <1>0, <2>1
  <2>3. Put(validated, Announced[h], Slot[h]) \in Partial(EB, 0..slot)
    BY SMTT(30), <1>0, <2>1, <2>2, PartialOps DEF MapsOK
  <2>4. Forget(endorsed, Announced[h]) \in Partial(EB, 0..slot)
    BY SMTT(30), <1>0, PartialOps DEF MapsOK
  <2> QED BY <2>1, <2>3, <2>4 DEF MapsOK
<1>3. ASSUME NEW h \in Hash, NEW complete \in BOOLEAN, ReceiveManifest(h, complete) PROVE MapsOK'
  <2>1. /\ UNCHANGED <<slot, validated, endorsed, bodies>>
        /\ manifests' = Put(manifests, Announced[h], Slot[h])
        /\ Announced[h] \in EB /\ Slot[h] \in Nat /\ Slot[h] <= slot
        /\ missing' \subseteq missing \cup {Announced[h]}
    BY <1>3, AnnouncedAssumption, SlotAssumption DEF ReceiveManifest, Announces
  <2>2. Slot[h] \in 0..slot
    BY SMTT(30), <1>0, <2>1
  <2>3. Put(manifests, Announced[h], Slot[h]) \in Partial(EB, 0..slot)
    BY SMTT(30), <1>0, <2>1, <2>2, PartialOps DEF MapsOK
  <2> QED BY <2>1, <2>3 DEF MapsOK
<1>4. ASSUME NEW load, Tick(load) PROVE MapsOK'
  <2>1. OnSlot(elections, tip, slot + 1, adopted, load) /\ UNCHANGED <<bodies, missing>> /\ slot' = slot + 1
    BY <1>4 DEF Tick
  <2> QED BY <1>0, <2>1, OnSlotMaps
<1>5. ASSUME NEW h \in applied, NEW load, TickReorg(h, load) PROVE MapsOK'
  <2> DEFINE es == ElectionsAtTip(elections, h)
             ctx == TipContext(h, seen)
  <2>1. OnSlot(es, ctx, slot + 1, h, load) /\ UNCHANGED <<bodies, missing>> /\ slot' = slot + 1
    BY <1>5 DEF TickReorg
  <2> HIDE DEF es, ctx
  <2> QED BY <1>0, <2>1, OnSlotMaps
<1>6. ASSUME UNCHANGED <<slot, ebVars>>, missing' \subseteq missing PROVE MapsOK'
  BY <1>6 DEF MapsOK, ebVars
<1>7. ASSUME \/ \E h \in Hash : Receive(h)
             \/ \E eb \in EB : TransactionsArrive(eb)
             \/ \E h \in Hash, voter \in Voter, tag \in {PV, NPV} : ReceiveVote(h, voter, tag)
             \/ UNCHANGED vars
      PROVE  UNCHANGED <<slot, ebVars>> /\ missing' \subseteq missing
  BY <1>7 DEF Receive, ReceiveVote, TransactionsArrive, vars, ebVars
<1> QED BY <1>1, <1>2, <1>3, <1>4, <1>5, <1>6, <1>7 DEF Next

(* and those of the other fields.                                          *)
LEMMA NextRest == Inv /\ SeenOK /\ MapsOK /\ RestOK /\ [Next]_vars => RestOK'
<1> SUFFICES ASSUME Inv, SeenOK, MapsOK, RestOK, [Next]_vars PROVE RestOK'
  OBVIOUS
<1>0. /\ slot \in Nat /\ adopted \in DOMAIN seen \cup {None} /\ pending \cup applied \subseteq DOMAIN seen
      /\ reorgs \in Nat
  BY SMTT(30), BoundAssumption DEF Inv, ChainOK, RestOK
<1>1. ASSUME NEW load, Tick(load) PROVE RestOK'
  <2>1. OnSlot(elections, tip, slot + 1, adopted, load) /\ UNCHANGED <<config, bodies, missing, reorgs>>
        /\ slot' = slot + 1 /\ slot < MaxSlot
    BY <1>1 DEF Tick, Running
  <2>2. forged' \in ForgedType
    BY <1>0, <2>1, OnSlotMaps
  <2>3. slot' <= MaxSlot
    BY SMTT(30), <1>0, <2>1, BoundAssumption
  <2> QED BY <2>1, <2>2, <2>3 DEF RestOK
<1>2. ASSUME NEW h \in applied, NEW load, TickReorg(h, load) PROVE RestOK'
  <2> DEFINE es == ElectionsAtTip(elections, h)
             ctx == TipContext(h, seen)
  <2>1. OnSlot(es, ctx, slot + 1, h, load) /\ UNCHANGED <<config, bodies, missing>>
        /\ slot' = slot + 1 /\ slot < MaxSlot /\ reorgs' = reorgs + 1 /\ reorgs < MaxReorgs
    BY <1>2 DEF TickReorg, Running
  <2> HIDE DEF es, ctx
  <2>2. forged' \in ForgedType
    BY <1>0, <2>1, OnSlotMaps
  <2>3. slot' <= MaxSlot /\ reorgs' \in 0..MaxReorgs
    BY SMTT(30), <1>0, <2>1, BoundAssumption
  <2> QED BY <2>1, <2>2, <2>3 DEF RestOK
<1>3. ASSUME UNCHANGED <<slot, config, forged, reorgs>> PROVE RestOK'
  BY <1>3 DEF RestOK
<1>4. ASSUME \/ \E h \in Hash : Receive(h) \/ Apply(h) \/ ValidatedEb(h)
             \/ \E h \in Hash, complete \in BOOLEAN : ReceiveManifest(h, complete)
             \/ \E eb \in EB : TransactionsArrive(eb)
             \/ \E h \in Hash, voter \in Voter, tag \in {PV, NPV} : ReceiveVote(h, voter, tag)
             \/ UNCHANGED vars
      PROVE  UNCHANGED <<slot, config, forged, reorgs>>
  BY <1>4 DEF Receive, Apply, ValidatedEb, ReceiveManifest, ReceiveVote, TransactionsArrive, vars
<1> QED BY <1>1, <1>2, <1>3, <1>4 DEF Next

-----------------------------------------------------------------------------
(* What is forged at the end of a slot.                                    *)
LEMMA ForgedSafely ==
    ASSUME Inv, SeenOK, NEW es, ElectionsOK(es), DOMAIN es \subseteq DOMAIN seen,
           NEW ctx, NEW parent, NEW load, OnSlot(es, ctx, slot + 1, parent, load), slot' = slot + 1
    PROVE  CertifiedSafely'
<1>1. Passed(es, ctx, slot + 1, elections')
  BY SlotPassFields DEF OnSlot, EndOfSlot
<1> SUFFICES ASSUME forged'.cert
             PROVE  slot' >= Slot[forged'.parent] + DiffuseEnd /\ ~forged'.inline
  BY DEF CertifiedSafely
<1>2. forged' = Forge(elections', endorsed', parent, load)
  BY DEF OnSlot, EndOfSlot, NothingForged
<1>3. forged'.parent = parent /\ BuildsEndorsement(elections', parent) /\ ~forged'.inline
  BY <1>2 DEF Forge
<1>4. parent \in DOMAIN elections' /\ elections'[parent].phase = "CertEligible"
  BY <1>3 DEF BuildsEndorsement, Certifiable
<1>5. parent \in DOMAIN seen /\ PhaseForElapsed(Elapsed(slot + 1, Slot[parent])) = "CertEligible"
  BY <1>1, <1>4 DEF Passed
<1>6. parent \in Hash /\ Slot[parent] \in Nat /\ Slot[parent] <= slot /\ slot \in Nat
  BY SMTT(30), <1>5, SlotAssumption DEF Inv, ChainOK, SeenOK
<1>7. Elapsed(slot + 1, Slot[parent]) = slot + 1 - Slot[parent]
  BY SMTT(30), <1>6 DEF Elapsed
<1>8. DiffuseEnd \in Nat
  BY SMTT(30), PipelineAssumption DEF DiffuseEnd, VotingEnd, EquivocationEnd
<1>9. ~(slot + 1 - Slot[parent] < DiffuseEnd)
  BY <1>5, <1>7 DEF PhaseForElapsed
<1>10. slot + 1 >= Slot[parent] + DiffuseEnd
  BY SMTT(30), <1>6, <1>8, <1>9
<1> QED BY <1>3, <1>10

(* Every step keeps CertifiedSafely.                                       *)
LEMMA NextCertified == Inv /\ SeenOK /\ CertifiedSafely /\ [Next]_vars => CertifiedSafely'
<1> SUFFICES ASSUME Inv, SeenOK, CertifiedSafely, [Next]_vars PROVE CertifiedSafely'
  OBVIOUS
<1>0. ElectionsOK(elections) /\ DOMAIN elections \subseteq DOMAIN seen
      /\ pending \cup applied \subseteq DOMAIN seen
  BY DEF Inv, ChainOK, SeenOK
<1>1. ASSUME NEW load, Tick(load) PROVE CertifiedSafely'
  <2>1. OnSlot(elections, tip, slot + 1, adopted, load) /\ slot' = slot + 1
    BY <1>1 DEF Tick
  <2> QED BY <1>0, <2>1, ForgedSafely
<1>2. ASSUME NEW h \in applied, NEW load, TickReorg(h, load) PROVE CertifiedSafely'
  <2> DEFINE es == ElectionsAtTip(elections, h)
             ctx == TipContext(h, seen)
  <2>1. OnSlot(es, ctx, slot + 1, h, load) /\ slot' = slot + 1
    BY <1>2 DEF TickReorg
  <2>2. h \in DOMAIN seen \cup {None}
    BY <1>0
  <2>3. ElectionsOK(es) /\ DOMAIN es \subseteq DOMAIN seen
    BY <2>2, AtTipSeen
  <2> HIDE DEF es, ctx
  <2> QED BY <2>1, <2>3, ForgedSafely
<1>3. ASSUME UNCHANGED <<slot, forged>> PROVE CertifiedSafely'
  BY <1>3 DEF CertifiedSafely
<1>4. ASSUME \/ \E h \in Hash : Receive(h) \/ Apply(h) \/ ValidatedEb(h)
             \/ \E h \in Hash, complete \in BOOLEAN : ReceiveManifest(h, complete)
             \/ \E eb \in EB : TransactionsArrive(eb)
             \/ \E h \in Hash, voter \in Voter, tag \in {PV, NPV} : ReceiveVote(h, voter, tag)
             \/ UNCHANGED vars
      PROVE  UNCHANGED <<slot, forged>>
  BY <1>4 DEF Receive, Apply, ValidatedEb, ReceiveManifest, ReceiveVote, TransactionsArrive, vars
<1> QED BY <1>1, <1>2, <1>3, <1>4 DEF Next

(* A node that certifies what it has not validated closes its gate.        *)
LEMMA ForgedGated ==
    ASSUME Inv, NEW es, ElectionsOK(es), NEW ctx, NEW now, NEW parent, NEW load,
           OnSlot(es, ctx, now, parent, load), UNCHANGED bodies,
           forged'.cert, forged'.announces
    PROVE  Announced[forged'.parent] \in bodies
<1> DEFINE gate == Keep(endorsed, MinKeep(ctx))
           leads == now \in LeaderSlots
<1>1. /\ endorsed' = GateAtForge(gate, elections', parent, leads) /\ leads
      /\ forged' = Forge(elections', endorsed', parent, load)
  BY DEF OnSlot, EndOfSlot, NothingForged
<1> HIDE DEF gate, leads
<1>2. forged'.parent = parent /\ BuildsEndorsement(elections', parent) /\ endorsed' = Empty
  BY <1>1 DEF Forge
<1>3. DOMAIN endorsed' = {}
  BY <1>2 DEF Empty
<1>4. ASSUME Announced[parent] \notin bodies PROVE FALSE
  <2>1. endorsed' = OnChainEndorsement(gate, elections', parent)
    BY <1>1, <1>2, <1>4 DEF GateAtForge
  <2>2. ~EbBodyValidated(elections', Announced[parent])
    <3>1. Passed(es, ctx, now, elections')
      BY SlotPassFields DEF OnSlot, EndOfSlot
    <3>2. \A r \in DOMAIN elections' : elections'[r].body => elections'[r].eb \in bodies
      BY <3>1 DEF Passed, SameBut, ElectionsOK, ElectionOK
    <3> QED BY <1>4, <3>2 DEF EbBodyValidated
  <2>3. Announced[parent] \in DOMAIN endorsed'
    BY <2>1, <2>2 DEF OnChainEndorsement, Put
  <2> QED BY <1>3, <2>3
<1> QED BY <1>2, <1>4

(* A block that certifies and announces has the certified body.            *)
LEMMA NextGated ==
    Inv /\ [Next]_vars =>
        [slot' > slot /\ forged'.cert /\ forged'.announces => Announced[forged'.parent] \in bodies]_vars
<1> SUFFICES ASSUME Inv, [Next]_vars, slot' > slot, forged'.cert, forged'.announces
             PROVE  Announced[forged'.parent] \in bodies
  OBVIOUS
<1>0. ElectionsOK(elections) /\ slot \in Nat /\ applied \subseteq Hash /\ DOMAIN validated \subseteq bodies
  BY DEF Inv, ChainOK
<1>1. ASSUME NEW load, Tick(load) PROVE Announced[forged'.parent] \in bodies
  <2>1. OnSlot(elections, tip, slot + 1, adopted, load) /\ UNCHANGED bodies
    BY <1>1 DEF Tick
  <2> QED BY <1>0, <2>1, ForgedGated
<1>2. ASSUME NEW h \in applied, NEW load, TickReorg(h, load) PROVE Announced[forged'.parent] \in bodies
  <2> DEFINE es == ElectionsAtTip(elections, h)
             ctx == TipContext(h, seen)
  <2>1. OnSlot(es, ctx, slot + 1, h, load) /\ UNCHANGED bodies
    BY <1>2 DEF TickReorg
  <2>2. h \in Hash \cup {None}
    BY <1>0
  <2>3. ElectionsOK(es)
    BY <1>0, <2>2, AtTipOK
  <2> HIDE DEF es, ctx
  <2> QED BY <2>1, <2>3, ForgedGated
<1>3. ASSUME \/ \E h \in Hash : Receive(h) \/ Apply(h) \/ ValidatedEb(h)
             \/ \E h \in Hash, complete \in BOOLEAN : ReceiveManifest(h, complete)
             \/ \E eb \in EB : TransactionsArrive(eb)
             \/ \E h \in Hash, voter \in Voter, tag \in {PV, NPV} : ReceiveVote(h, voter, tag)
             \/ UNCHANGED vars
      PROVE  FALSE
  <2>1. UNCHANGED slot
    BY <1>3 DEF Receive, Apply, ValidatedEb, ReceiveManifest, ReceiveVote, TransactionsArrive, vars
  <2> QED BY SMTT(30), <1>0, <2>1
<1> QED BY <1>1, <1>2, <1>3 DEF Next

-----------------------------------------------------------------------------
(* The types always hold.                                                  *)
LEMMA LeiosHistory == Spec => [](SeenOK /\ MapsOK /\ RestOK)
<1>1. Init => SeenOK
  <2> SUFFICES ASSUME Init PROVE SeenOK
    OBVIOUS
  <2>1. DOMAIN seen = {} /\ DOMAIN elections = {} /\ tip.rb = None
    BY DEF Init, NoTip, Empty
  <2>2. pending \cap applied = {} /\ \A h \in Hash : cast[h] <= slot
    BY SMTT(30) DEF Init
  <2> QED BY <2>1, <2>2 DEF SeenOK
<1>2. Init => MapsOK
  <2> SUFFICES ASSUME Init PROVE MapsOK
    OBVIOUS
  <2>1. Empty \in Partial(EB, 0..0)
    BY PartialMaps DEF Empty
  <2> QED BY <2>1 DEF Init, MapsOK
<1>3. Init => RestOK
  BY SMTT(30), BoundAssumption, ConfigsAssumption DEF Init, RestOK, NothingForged, ForgedType
<1>4. Inv /\ SeenOK /\ [Next]_vars => SeenOK'
  BY NextSeen
<1>5. Inv /\ SeenOK /\ MapsOK /\ [Next]_vars => MapsOK'
  BY NextMaps
<1>6. Inv /\ SeenOK /\ MapsOK /\ RestOK /\ [Next]_vars => RestOK'
  BY NextRest
<1> QED BY <1>1, <1>2, <1>3, <1>4, <1>5, <1>6, LeiosInvariant, PTL DEF Spec

(* The fields of `LeiosState` keep their types through every handler.      *)
THEOREM LeiosTypes == Spec => []TypeOK
<1>1. Inv /\ SeenOK /\ MapsOK /\ RestOK => TypeOK
  <2> SUFFICES ASSUME Inv, SeenOK, MapsOK, RestOK PROVE TypeOK
    OBVIOUS
  <2>1. slot \in 0..MaxSlot
    BY SMTT(30), BoundAssumption DEF Inv, ChainOK, RestOK
  <2>2. cast \in [Hash -> 0..MaxSlot]
    <3>1. cast \in [Hash -> Nat] /\ \A h \in Hash : cast[h] <= slot
      BY DEF Inv, CastOK, SeenOK
    <3>2. ASSUME NEW h \in Hash PROVE cast[h] \in 0..MaxSlot
      <4>1. cast[h] \in Nat /\ cast[h] <= slot
        BY <3>1
      <4> QED BY SMTT(30), <2>1, <4>1, BoundAssumption
    <3> QED BY <3>1, <3>2
  <2>3. \A h \in DOMAIN elections : elections[h] \in Election
    BY DEF Inv, ElectionsOK, ElectionOK
  <2> QED BY <2>1, <2>2, <2>3 DEF Inv, ChainOK, SeenOK, MapsOK, RestOK, ForgedType, TypeOK
<1> QED BY <1>1, LeiosInvariant, LeiosHistory, PTL

(* `try_build_endorsement` certifies the parent's EB only after all of the *)
(* pipeline's windows, for every pipeline.                                 *)
THEOREM AlwaysCertifiedSafely == Spec => []CertifiedSafely
<1>1. Init => CertifiedSafely
  BY SMTT(30) DEF Init, CertifiedSafely, NothingForged
<1>2. Inv /\ SeenOK /\ CertifiedSafely /\ [Next]_vars => CertifiedSafely'
  BY NextCertified
<1> QED BY <1>1, <1>2, LeiosInvariant, LeiosHistory, PTL DEF Spec

(* A block with a certificate for an EB that this node has not validated   *)
(* announces nothing: `try_produce_rb` closes the gate first.              *)
THEOREM OwnCertificatesGate == Spec => OwnCertificateGates
<1>1. Inv /\ [Next]_vars =>
        [slot' > slot /\ forged'.cert /\ forged'.announces => Announced[forged'.parent] \in bodies]_vars
  BY NextGated
<1> QED BY <1>1, LeiosInvariant, PTL DEF Spec, OwnCertificateGates
=============================================================================
