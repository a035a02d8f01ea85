-------------------------- MODULE LeiosVoteProofs ---------------------------
(***************************************************************************)
(* One vote for each block, and no vote lost, for every universe of blocks. *)
(***************************************************************************)
EXTENDS LeiosNodeProofs

(* The leaves go to Zenon, and to SMT where they name it.                  *)
USE Zenon

-----------------------------------------------------------------------------
(* Chain selection, while no tip is imposed.                               *)
Beats(g, h) == IsBetterTip(BlockNo[g], g, BlockNo[h], h)

(* Beats is a strict total order.                                          *)
LEMMA BeatsOrder ==
    ASSUME NEW f \in Hash, NEW g \in Hash, NEW h \in Hash
    PROVE  /\ ~Beats(h, h)
           /\ Beats(f, g) /\ Beats(g, h) => Beats(f, h)
           /\ f = g \/ Beats(f, g) \/ Beats(g, f)
<1>1. f \in Nat /\ g \in Nat /\ h \in Nat
  BY HashAssumption
<1>2. BlockNo[f] \in Nat /\ BlockNo[g] \in Nat /\ BlockNo[h] \in Nat
  BY SMTT(30), BlockNoAssumption
<1> QED BY SMTT(30), <1>1, <1>2 DEF Beats, IsBetterTip

(* The adopted tip is the best of the received blocks.                     *)
BestOK ==
    /\ reorgs \in Nat
    /\ reorgs = 0 => \A h \in DOMAIN seen : adopted # None /\ (h = adopted \/ Beats(adopted, h))

(* The adopted tip stays the best received block.                          *)
LEMMA NextBest == Inv /\ BestOK /\ [Next]_vars => BestOK'
<1> SUFFICES ASSUME Inv, BestOK, [Next]_vars PROVE BestOK'
  OBVIOUS
<1>0. DOMAIN seen \subseteq Hash /\ adopted \in DOMAIN seen \cup {None} /\ reorgs \in Nat
  BY DEF Inv, ChainOK, BestOK
<1>1. ASSUME NEW h \in Hash, Receive(h) PROVE BestOK'
  <2>1. DOMAIN seen' = DOMAIN seen \cup {h} /\ UNCHANGED reorgs
        /\ adopted' = IF Better(h) THEN h ELSE adopted
    BY <1>1 DEF Receive, Put
  <2>2. h # None
    BY HashAssumption
  <2>3. ASSUME reorgs = 0, NEW g \in DOMAIN seen'
        PROVE  adopted' # None /\ (g = adopted' \/ Beats(adopted', g))
    <3>1. g = h \/ (g \in DOMAIN seen /\ adopted # None /\ (g = adopted \/ Beats(adopted, g)))
      BY <2>1, <2>3 DEF BestOK
    <3>2. CASE Better(h)
      <4>1. adopted' = h /\ (adopted = None \/ Beats(h, adopted))
        BY <2>1, <3>2 DEF Better, Beats
      <4> QED BY <1>0, <2>2, <3>1, <4>1, BeatsOrder
    <3>3. CASE ~Better(h)
      <4>1. adopted' = adopted /\ adopted # None /\ ~Beats(h, adopted)
        BY <2>1, <3>3 DEF Better, Beats
      <4>2. adopted \in Hash
        BY <1>0, <4>1
      <4> QED BY <1>0, <3>1, <4>1, <4>2, BeatsOrder
    <3> QED BY <3>2, <3>3
  <2> QED BY <1>0, <2>1, <2>3 DEF BestOK
<1>2. ASSUME NEW h \in applied, NEW load, TickReorg(h, load) PROVE BestOK'
  <2>1. reorgs' = reorgs + 1
    BY <1>2 DEF TickReorg
  <2> QED BY SMTT(30), <1>0, <2>1 DEF BestOK
<1>3. ASSUME UNCHANGED <<seen, adopted, reorgs>> PROVE BestOK'
  BY <1>3 DEF BestOK
<1>4. ASSUME \/ \E h \in Hash : Apply(h) \/ ValidatedEb(h)
             \/ \E h \in Hash, complete \in BOOLEAN : ReceiveManifest(h, complete)
             \/ \E eb \in EB : TransactionsArrive(eb)
             \/ \E h \in Hash, voter \in Voter, tag \in {PV, NPV} : ReceiveVote(h, voter, tag)
             \/ \E load \in Loads : Tick(load)
             \/ UNCHANGED vars
      PROVE  UNCHANGED <<seen, adopted, reorgs>>
  BY <1>4 DEF Apply, ValidatedEb, ReceiveManifest, ReceiveVote, TransactionsArrive, Tick, chainVars, vars
<1> QED BY <1>1, <1>2, <1>3, <1>4 DEF Next

-----------------------------------------------------------------------------
(* A block that was voted on is the tip, whose election remembers the      *)
(* vote, or has been passed for good.                                      *)
OnceFor(h) ==
    /\ cast[h] = 1
    /\ tip.rb # None
    /\ \/ tip.rb = h /\ h \in DOMAIN elections /\ elections[h].voted
       \/ Beats(tip.rb, h)

OnceOK == reorgs = 0 => \A h \in Hash : cast[h] > 0 => OnceFor(h)

(* After a slot, a block with a vote is the marked tip or beaten by it,    *)
LEMMA TickOnce ==
    ASSUME Inv, OnceOK, NEW load, Tick(load)
    PROVE  OnceOK'
<1>0. /\ ElectionsOK(elections) /\ cast \in [Hash -> Nat] /\ tip.rb \in DOMAIN seen \cup {None}
      /\ DOMAIN seen \subseteq Hash
  BY DEF Inv, ChainOK, CastOK, TipOK
<1>1. /\ OnSlot(elections, tip, slot + 1, adopted, load) /\ UNCHANGED <<tip, reorgs>>
      /\ Passed(elections, tip, slot + 1, elections')
  BY <1>0, SlotPassFields DEF Tick, OnSlot, EndOfSlot
<1> SUFFICES ASSUME reorgs = 0, NEW h \in Hash, cast'[h] > 0 PROVE OnceFor(h)'
  BY <1>1 DEF OnceOK
<1>2. cast'[h] = IF h \in DOMAIN elections /\ EmitsVote(h, elections[h], tip, slot + 1)
                 THEN cast[h] + 1 ELSE cast[h]
  BY <1>1 DEF OnSlot, CountVotes
<1>3. cast[h] > 0 => OnceFor(h)
  BY DEF OnceOK
<1>4. cast[h] \in Nat
  BY <1>0
<1>5. ASSUME h \in DOMAIN elections, tip.rb = h PROVE h \in DOMAIN elections'
  <2>1. Slot[h] >= MinKeep(tip)
    BY SMTT(30), <1>5, SlotAssumption, HashAssumption DEF MinKeep
  <2> QED BY <1>1, <1>5, <2>1 DEF Passed
<1>6. CASE h \in DOMAIN elections /\ EmitsVote(h, elections[h], tip, slot + 1)
  <2>1. tip.rb = h /\ ~elections[h].voted
    BY <1>6 DEF EmitsVote, MayVote, EligibleToVote
  <2>2. ~Beats(h, h)
    BY BeatsOrder
  <2>3. cast[h] = 0
    BY SMTT(30), <1>3, <1>4, <2>1, <2>2 DEF OnceFor
  <2>4. cast'[h] = 1
    BY SMTT(30), <1>2, <1>6, <2>3
  <2>5. Settles(h, elections[h], tip, slot + 1)
    BY <1>6 DEF Settles, EmitsVote
  <2>6. h \in DOMAIN elections' /\ elections'[h].voted
    BY <1>1, <1>5, <1>6, <2>1, <2>5 DEF Passed
  <2>7. h # None
    BY HashAssumption
  <2> QED BY <1>1, <2>1, <2>4, <2>6, <2>7 DEF OnceFor
<1>7. CASE ~(h \in DOMAIN elections /\ EmitsVote(h, elections[h], tip, slot + 1))
  <2>1. cast'[h] = cast[h] /\ OnceFor(h)
    BY <1>2, <1>3, <1>7
  <2>2. ASSUME tip.rb = h, h \in DOMAIN elections, elections[h].voted
        PROVE  h \in DOMAIN elections' /\ elections'[h].voted
    BY <1>1, <1>5, <2>2 DEF Passed
  <2> QED BY <1>1, <2>1, <2>2 DEF OnceFor
<1> QED BY <1>6, <1>7

(* and so after every step.                                                *)
LEMMA NextOnce == Inv /\ BestOK /\ OnceOK /\ [Next]_vars => OnceOK'
<1> SUFFICES ASSUME Inv, BestOK, OnceOK, [Next]_vars PROVE OnceOK'
  OBVIOUS
<1>0. /\ DOMAIN seen \subseteq Hash /\ adopted \in DOMAIN seen \cup {None} /\ slot \in Nat
      /\ tip.rb \in DOMAIN seen \cup {None} /\ ElectionsOK(elections) /\ reorgs \in Nat
  BY DEF Inv, ChainOK, TipOK, BestOK
<1>1. ASSUME NEW h \in Hash, Apply(h) PROVE OnceOK'
  <2>1. /\ UNCHANGED <<cast, reorgs>> /\ tip' = TipContext(adopted, seen)
        /\ elections' = ElectionsAtTip(elections, adopted)
    BY <1>1 DEF Apply
  <2>2. tip'.rb = adopted
    BY <2>1 DEF TipContext, NoTip
  <2>3. AtTip(elections, adopted, elections')
    BY <1>0, <2>1, AtTipFields
  <2>4. ASSUME reorgs = 0, NEW g \in Hash, cast[g] > 0 PROVE OnceFor(g)'
    <3>1. OnceFor(g)
      BY <2>4 DEF OnceOK
    <3>2. tip.rb \in Hash /\ tip.rb \in DOMAIN seen
      BY <1>0, <3>1 DEF OnceFor
    <3>3. adopted # None /\ (tip.rb = adopted \/ Beats(adopted, tip.rb)) /\ adopted \in Hash
      BY <1>0, <2>4, <3>2 DEF BestOK
    <3>4. ASSUME g \in DOMAIN elections, elections[g].voted
          PROVE  g \in DOMAIN elections' /\ elections'[g].voted
      BY <2>3, <3>4 DEF AtTip
    <3>5. Beats(tip.rb, g) => Beats(adopted, g)
      BY <3>2, <3>3, BeatsOrder
    <3> QED BY <2>1, <2>2, <3>1, <3>3, <3>4, <3>5 DEF OnceFor
  <2> QED BY <2>1, <2>4 DEF OnceOK
<1>2. ASSUME NEW h \in Hash, ValidatedEb(h) PROVE OnceOK'
  <2>1. elections' = MarkBodyValidated(elections, Announced[h]) /\ UNCHANGED <<tip, cast, reorgs>>
    BY <1>2 DEF ValidatedEb
  <2>2. /\ DOMAIN elections' = DOMAIN elections
        /\ \A r \in DOMAIN elections : elections'[r].voted = elections[r].voted
    <3>1. ElectionsOK(elections)
      BY <1>0
    <3> QED BY SMTT(30), <2>1, <3>1, MarkFields
  <2> QED BY <2>1, <2>2 DEF OnceOK, OnceFor
<1>3. ASSUME NEW h \in Hash, NEW voter \in Voter, NEW tag \in {PV, NPV},
             ReceiveVote(h, voter, tag)
      PROVE  OnceOK'
  <2>1. h \in DOMAIN elections /\ elections' = RecordVote(elections, h, voter, tag)
        /\ UNCHANGED <<tip, cast, reorgs>>
    BY <1>3 DEF ReceiveVote
  <2>2. /\ DOMAIN elections' = DOMAIN elections
        /\ \A r \in DOMAIN elections : elections'[r].voted = elections[r].voted
    BY SMTT(30), <1>0, <2>1, RecordFields
  <2> QED BY <2>1, <2>2 DEF OnceOK, OnceFor
<1>4. ASSUME NEW load, Tick(load) PROVE OnceOK'
  BY <1>4, TickOnce
<1>5. ASSUME NEW h \in applied, NEW load, TickReorg(h, load) PROVE OnceOK'
  <2>1. reorgs' = reorgs + 1
    BY <1>5 DEF TickReorg
  <2> QED BY SMTT(30), <1>0, <2>1 DEF OnceOK
<1>6. ASSUME UNCHANGED <<tip, elections, cast, reorgs>> PROVE OnceOK'
  BY <1>6 DEF OnceOK, OnceFor
<1>7. ASSUME \/ \E h \in Hash : Receive(h)
             \/ \E h \in Hash, complete \in BOOLEAN : ReceiveManifest(h, complete)
             \/ \E eb \in EB : TransactionsArrive(eb)
             \/ UNCHANGED vars
      PROVE  UNCHANGED <<tip, elections, cast, reorgs>>
  BY <1>7 DEF Receive, ReceiveManifest, TransactionsArrive, vars
<1> QED BY <1>1, <1>2, <1>3, <1>4, <1>5, <1>6, <1>7 DEF Next

(* Both parts always hold.                                                 *)
LEMMA LeiosVotes == Spec => [](BestOK /\ OnceOK)
<1>1. Init => BestOK /\ OnceOK
  BY SMTT(30) DEF Init, BestOK, OnceOK, Empty
<1>2. Inv /\ BestOK /\ [Next]_vars => BestOK'
  BY NextBest
<1>3. Inv /\ BestOK /\ OnceOK /\ [Next]_vars => OnceOK'
  BY NextOnce
<1> QED BY <1>1, <1>2, <1>3, LeiosInvariant, PTL DEF Spec

(* This node's votes are safe: for validated bodies only, never for two    *)
(* blocks of an issuer in a slot, and once for each block unless a tip is  *)
(* imposed.  The election that remembers a vote may be pruned, but only    *)
(* when chain selection has passed its block for good.                     *)
THEOREM VotesAlwaysSound == Spec => []VotesSound
<1>1. Inv /\ BestOK /\ OnceOK => VotesSound
  <2> SUFFICES ASSUME Inv, OnceOK PROVE VotesSound
    OBVIOUS
  <2>1. VotesForValidated /\ NoVoteForBoth /\ cast \in [Hash -> Nat]
    BY DEF Inv, CastOK
  <2>2. ASSUME reorgs = 0, NEW h \in Hash PROVE cast[h] <= 1
    <3>1. cast[h] \in Nat /\ (cast[h] > 0 => cast[h] = 1)
      BY <2>1, <2>2 DEF OnceOK, OnceFor
    <3> QED BY SMTT(30), <3>1
  <2> QED BY <2>1, <2>2 DEF VotesSound, VotesOnce
<1> QED BY <1>1, LeiosInvariant, LeiosVotes, PTL

-----------------------------------------------------------------------------
(* The caches agree with the facts: the context with the received blocks,  *)
(* the flags of an election with the votes, and the slot of a verdict with *)
(* the slot of its announcement.                                           *)
ContextFresh(ctx) ==
    ctx.rb # None => /\ ctx.arrival = seen[ctx.rb]
                     /\ ctx.equivocating \subseteq EquivocatingRbSlots(seen)

VotedOK(h, e) ==
    e.voted => \/ ~config.evaluate
               \/ ~config.retry
               \/ config.honest /\ Late(e)
               \/ cast[h] > 0

VotedAll(es) == \A h \in DOMAIN es : VotedOK(h, es[h])

VerdictSlots ==
    \A h \in Hash : Announces(h) /\ Announced[h] \in DOMAIN validated => validated[Announced[h]] = Slot[h]

TipBody(es, ctx) == Announces(ctx.rb) /\ Announced[ctx.rb] \in DOMAIN validated => es[ctx.rb].body

CachesOK ==
    /\ ContextFresh(tip)
    /\ VotedAll(elections)
    /\ VerdictSlots
    /\ TipBody(elections, tip)

InTime(h) == h \in DOMAIN seen => seen[h] = Slot[h]

(* A block that came in its own slot is not below the tip's slot, unless   *)
(* chain selection has passed it.                                          *)
TipSlotOK ==
    reorgs = 0 /\ tip.rb # None =>
        \A h \in DOMAIN seen : InTime(h) => Slot[tip.rb] <= Slot[h] \/ Beats(tip.rb, h)

(* The verdict on its EB is where the vote will look for it.               *)
Remembered(h) ==
    \/ Announced[h] \in DOMAIN validated
    \/ h \in DOMAIN elections /\ elections[h].body
    \/ tip.rb # None /\ Beats(tip.rb, h)
    \/ h \notin DOMAIN seen /\ Slot[h] < slot

VerdictsKept ==
    reorgs = 0 =>
        \A h \in Hash : Announces(h) /\ Announced[h] \in bodies /\ InTime(h) => Remembered(h)

-----------------------------------------------------------------------------
(* A context made from the received blocks is fresh.                       *)
LEMMA FreshContext ==
    ASSUME NEW h \in DOMAIN seen \cup {None}
    PROVE  ContextFresh(TipContext(h, seen)) /\ TipContext(h, seen).rb = h
BY DEF ContextFresh, TipContext, NoTip

(* More blocks have more equivocating slots.                               *)
LEMMA EquivocatingGrows ==
    ASSUME NEW s, NEW t, DOMAIN s \subseteq DOMAIN t
    PROVE  EquivocatingRbSlots(s) \subseteq EquivocatingRbSlots(t)
BY DEF EquivocatingRbSlots

(* The election seeded at a tip knows the verdict on its body.             *)
LEMMA AtTipCaches ==
    ASSUME Inv, VotedAll(elections), NEW h \in DOMAIN seen \cup {None}
    PROVE  LET es == ElectionsAtTip(elections, h)
           IN  /\ VotedAll(es)
               /\ Announces(h) /\ Announced[h] \in DOMAIN validated => es[h].body
<1> DEFINE es == ElectionsAtTip(elections, h)
<1>0. slot \in Nat /\ h \in Hash \cup {None} /\ ElectionsOK(elections)
  BY DEF Inv, ChainOK
<1>1. AtTip(elections, h, es)
  BY <1>0, AtTipFields
<1> HIDE DEF es
<1>2. ASSUME NEW r \in DOMAIN es PROVE VotedOK(r, es[r])
  <2>1. CASE r \in DOMAIN elections
    <3>1. VotedOK(r, elections[r]) /\ SameBut(es[r], elections[r]) /\ es[r].voted = elections[r].voted
      BY <1>1, <2>1 DEF AtTip, VotedAll
    <3> QED BY <3>1 DEF VotedOK, SameBut, Late
  <2>2. CASE r \notin DOMAIN elections
    BY <1>1, <1>2, <2>2 DEF AtTip, IsNew, VotedOK
  <2> QED BY <2>1, <2>2
<1>3. Announces(h) /\ Announced[h] \in DOMAIN validated => es[h].body
  BY <1>1 DEF AtTip
<1> QED BY <1>2, <1>3 DEF VotedAll, es

(* A ballot changes neither the slots nor the flags of an election.        *)
LEMMA RecordKeeps ==
    ASSUME NEW es, NEW after, ElectionsOK(es), NEW h \in DOMAIN es, NEW voter \in Voter,
           NEW tag \in {PV, NPV}, after = RecordVote(es, h, voter, tag)
    PROVE  /\ DOMAIN after = DOMAIN es
           /\ \A r \in DOMAIN es :
                 /\ after[r].slot = es[r].slot /\ after[r].seen = es[r].seen
                 /\ after[r].voted = es[r].voted /\ after[r].body = es[r].body
BY SMTT(30), RecordFields

(* The slot pass keeps the flags of the tip fresh,                         *)
LEMMA OnSlotCaches ==
    ASSUME Inv, UNCHANGED <<seen, config>>, VerdictSlots,
           NEW es, ElectionsOK(es), VotedAll(es), NEW ctx, tip' = ctx, ctx.rb \in DOMAIN seen \cup {None},
           TipLive(es, ctx), ContextFresh(ctx), TipBody(es, ctx),
           NEW now, NEW parent, NEW load, OnSlot(es, ctx, now, parent, load)
    PROVE  CachesOK'
<1>0. cast \in [Hash -> Nat] /\ DOMAIN seen \subseteq Hash
  BY DEF Inv, CastOK, ChainOK
<1>1. /\ Passed(es, ctx, now, elections') /\ cast' = CountVotes(es, ctx, now)
      /\ validated' = Keep(validated, MinKeep(ctx))
  BY SlotPassFields DEF OnSlot, EndOfSlot
<1>2. DOMAIN validated' \subseteq DOMAIN validated /\ \A x \in DOMAIN validated' : validated'[x] = validated[x]
  BY <1>1 DEF Keep
<1>3. VerdictSlots'
  BY <1>2 DEF VerdictSlots
<1>4. ContextFresh(tip)'
  BY DEF ContextFresh
<1>5. TipBody(elections, tip)'
  <2> SUFFICES ASSUME Announces(ctx.rb), Announced[ctx.rb] \in DOMAIN validated'
               PROVE  elections'[ctx.rb].body
    BY DEF TipBody
  <2>1. es[ctx.rb].body /\ ctx.rb \in DOMAIN es
    BY <1>2 DEF TipBody, TipLive
  <2>2. Slot[ctx.rb] >= MinKeep(ctx)
    BY SMTT(30), <1>0, SlotAssumption DEF MinKeep, Announces
  <2> QED BY <1>1, <2>1, <2>2 DEF Passed
<1>6. ASSUME NEW h \in DOMAIN elections' PROVE VotedOK(h, elections[h])'
  <2>1. /\ h \in DOMAIN es /\ SameBut(elections'[h], es[h])
        /\ elections'[h].voted = (es[h].voted \/ Settles(h, es[h], ctx, now))
        /\ h \in Hash
    BY <1>1, <1>6 DEF Passed, ElectionsOK, ElectionOK
  <2>2. cast'[h] = IF EmitsVote(h, es[h], ctx, now) THEN cast[h] + 1 ELSE cast[h]
    BY <1>1, <2>1 DEF CountVotes
  <2>3. cast[h] \in Nat
    BY <1>0, <2>1
  <2>4. (cast[h] > 0 => cast'[h] > 0) /\ (EmitsVote(h, es[h], ctx, now) => cast'[h] > 0)
    BY SMTT(30), <2>2, <2>3
  <2>5. Late(elections'[h]) = Late(es[h])
    BY <2>1 DEF Late, SameBut
  <2>6. VotedOK(h, es[h])
    BY <2>1 DEF VotedAll
  <2> QED BY <2>1, <2>4, <2>5, <2>6 DEF VotedOK, Settles
<1> QED BY <1>3, <1>4, <1>5, <1>6 DEF CachesOK, VotedAll

(* and so does every step.                                                 *)
LEMMA NextCaches == ASSUME Prompt PROVE Inv /\ SeenOK /\ CachesOK /\ [Next]_vars => CachesOK'
<1> SUFFICES ASSUME Inv, SeenOK, CachesOK, [Next]_vars PROVE CachesOK'
  OBVIOUS
<1>0. /\ DOMAIN seen \subseteq Hash /\ adopted \in DOMAIN seen \cup {None} /\ slot \in Nat
      /\ tip.rb \in DOMAIN seen \cup {None} /\ ElectionsOK(elections) /\ applied \subseteq DOMAIN seen
      /\ TipLive(elections, tip) /\ DOMAIN validated \subseteq bodies
      /\ ContextFresh(tip) /\ VotedAll(elections) /\ VerdictSlots /\ TipBody(elections, tip)
  BY DEF Inv, ChainOK, TipOK, CachesOK
<1>1. ASSUME NEW h \in Hash, Receive(h) PROVE CachesOK'
  <2>1. /\ DOMAIN seen' = DOMAIN seen \cup {h} /\ \A x \in DOMAIN seen : seen'[x] = seen[x]
        /\ UNCHANGED <<config, tip, elections, validated, cast>>
    BY <1>1 DEF Receive, Put, ebVars
  <2>2. EquivocatingRbSlots(seen) \subseteq EquivocatingRbSlots(seen')
    BY <2>1, EquivocatingGrows
  <2>3. ContextFresh(tip)'
    BY <1>0, <2>1, <2>2 DEF ContextFresh
  <2>4. VotedAll(elections)' /\ VerdictSlots' /\ TipBody(elections, tip)'
    BY <1>0, <2>1 DEF VotedAll, VotedOK, VerdictSlots, TipBody
  <2> QED BY <2>3, <2>4 DEF CachesOK
<1>2. ASSUME NEW h \in Hash, Apply(h) PROVE CachesOK'
  <2>1. /\ UNCHANGED <<seen, config, cast, validated>> /\ tip' = TipContext(adopted, seen)
        /\ elections' = ElectionsAtTip(elections, adopted)
    BY <1>2 DEF Apply
  <2>2. ContextFresh(tip') /\ tip'.rb = adopted
    BY <1>0, <2>1, FreshContext
  <2>3. VotedAll(elections') /\ (Announces(adopted) /\ Announced[adopted] \in DOMAIN validated
                                  => elections'[adopted].body)
    BY <1>0, <2>1, AtTipCaches
  <2>4. ContextFresh(tip)'
    BY <2>1, <2>2 DEF ContextFresh
  <2>5. VotedAll(elections)' /\ VerdictSlots' /\ TipBody(elections, tip)'
    BY <1>0, <2>1, <2>2, <2>3 DEF VotedAll, VotedOK, VerdictSlots, TipBody
  <2> QED BY <2>4, <2>5 DEF CachesOK
<1>3. ASSUME NEW h \in Hash, ValidatedEb(h) PROVE CachesOK'
  <2>1. /\ elections' = MarkBodyValidated(elections, Announced[h])
        /\ UNCHANGED <<seen, config, tip, cast>>
        /\ validated' = Put(validated, Announced[h], Slot[h]) /\ Announces(h)
    BY <1>3 DEF ValidatedEb, chainVars
  <2>2. /\ DOMAIN elections' = DOMAIN elections
        /\ \A r \in DOMAIN elections :
              /\ SameBut(elections'[r], elections[r]) /\ elections'[r].voted = elections[r].voted
              /\ elections'[r].body = (elections[r].body \/ elections[r].eb = Announced[h])
    <3>1. ElectionsOK(elections)
      BY <1>0
    <3> QED BY SMTT(30), <2>1, <3>1, MarkFields
  <2>3. VotedAll(elections)'
    BY <1>0, <2>1, <2>2 DEF VotedAll, VotedOK, Late, SameBut
  <2>4. DOMAIN validated' = DOMAIN validated \cup {Announced[h]} /\ validated'[Announced[h]] = Slot[h]
        /\ \A x \in DOMAIN validated \ {Announced[h]} : validated'[x] = validated[x]
    BY <2>1 DEF Put
  <2>5. VerdictSlots'
    <3> SUFFICES ASSUME NEW g \in Hash, Announces(g), Announced[g] \in DOMAIN validated'
                 PROVE  validated'[Announced[g]] = Slot[g]
      BY DEF VerdictSlots
    <3>1. CASE Announced[g] = Announced[h]
      BY <2>4, <3>1 DEF Prompt, Announces
    <3>2. CASE Announced[g] # Announced[h]
      BY <1>0, <2>4, <3>2 DEF VerdictSlots
    <3> QED BY <3>1, <3>2
  <2>6. TipBody(elections, tip)'
    <3> SUFFICES ASSUME Announces(tip.rb), Announced[tip.rb] \in DOMAIN validated'
                 PROVE  elections'[tip.rb].body
      BY <2>1 DEF TipBody
    <3>1. tip.rb \in DOMAIN elections /\ elections[tip.rb].eb = Announced[tip.rb]
      BY <1>0 DEF TipLive, ElectionsOK, ElectionOK
    <3>2. Announced[tip.rb] = Announced[h] \/ elections[tip.rb].body
      BY <1>0, <2>4 DEF TipBody
    <3> QED BY <2>2, <3>1, <3>2
  <2>7. ContextFresh(tip)'
    BY <1>0, <2>1 DEF ContextFresh
  <2> QED BY <2>3, <2>5, <2>6, <2>7 DEF CachesOK
<1>4. ASSUME NEW h \in Hash, NEW voter \in Voter, NEW tag \in {PV, NPV},
             ReceiveVote(h, voter, tag)
      PROVE  CachesOK'
  <2>1. h \in DOMAIN elections /\ elections' = RecordVote(elections, h, voter, tag)
        /\ UNCHANGED <<seen, config, tip, cast, validated>>
    BY <1>4 DEF ReceiveVote, chainVars, ebVars
  <2>2. /\ DOMAIN elections' = DOMAIN elections
        /\ \A r \in DOMAIN elections :
              /\ elections'[r].slot = elections[r].slot /\ elections'[r].seen = elections[r].seen
              /\ elections'[r].voted = elections[r].voted /\ elections'[r].body = elections[r].body
    <3>1. ElectionsOK(elections)
      BY <1>0
    <3> QED BY SMTT(30), <2>1, <3>1, RecordKeeps
  <2>3. VotedAll(elections)'
    BY <1>0, <2>1, <2>2 DEF VotedAll, VotedOK, Late
  <2>4. TipBody(elections, tip)'
    BY <1>0, <2>1, <2>2 DEF TipBody, TipLive
  <2>5. ContextFresh(tip)' /\ VerdictSlots'
    BY <1>0, <2>1 DEF ContextFresh, VerdictSlots
  <2> QED BY <2>3, <2>4, <2>5 DEF CachesOK
<1>5. ASSUME NEW load, Tick(load) PROVE CachesOK'
  <2>1. OnSlot(elections, tip, slot + 1, adopted, load) /\ UNCHANGED <<seen, config, tip>>
    BY <1>5 DEF Tick, chainVars
  <2> QED BY <1>0, <2>1, OnSlotCaches
<1>6. ASSUME NEW h \in applied, NEW load, TickReorg(h, load) PROVE CachesOK'
  <2> DEFINE es == ElectionsAtTip(elections, h)
             ctx == TipContext(h, seen)
  <2>1. OnSlot(es, ctx, slot + 1, h, load) /\ UNCHANGED <<seen, config>> /\ tip' = ctx
    BY <1>6 DEF TickReorg
  <2>2. h \in DOMAIN seen \cup {None} /\ h \in Hash \cup {None}
    BY <1>0
  <2>3. ElectionsOK(es) /\ (Announces(h) => h \in DOMAIN es)
    BY <1>0, <2>2, AtTipOK
  <2>4. VotedAll(es) /\ (Announces(h) /\ Announced[h] \in DOMAIN validated => es[h].body)
    BY <1>0, <2>2, AtTipCaches
  <2>5. ContextFresh(ctx) /\ ctx.rb = h
    BY <2>2, FreshContext
  <2> HIDE DEF es, ctx
  <2>6. TipLive(es, ctx) /\ TipBody(es, ctx)
    BY <2>3, <2>4, <2>5 DEF TipLive, TipBody
  <2> QED BY <1>0, <2>1, <2>2, <2>3, <2>4, <2>5, <2>6, OnSlotCaches
<1>7. ASSUME UNCHANGED <<seen, config, tip, elections, validated, cast>> PROVE CachesOK'
  BY <1>0, <1>7 DEF CachesOK, ContextFresh, VotedAll, VotedOK, VerdictSlots, TipBody
<1>8. ASSUME \/ \E h \in Hash, complete \in BOOLEAN : ReceiveManifest(h, complete)
             \/ \E eb \in EB : TransactionsArrive(eb)
             \/ UNCHANGED vars
      PROVE  UNCHANGED <<seen, config, tip, elections, validated, cast>>
  BY <1>8 DEF ReceiveManifest, TransactionsArrive, chainVars, ebVars, vars
<1> QED BY <1>1, <1>2, <1>3, <1>4, <1>5, <1>6, <1>7, <1>8 DEF Next

(* A block that came in its own slot stays at or above the slot of the     *)
(* tip.                                                                    *)
LEMMA NextTipSlot == Inv /\ SeenOK /\ BestOK /\ TipSlotOK /\ [Next]_vars => TipSlotOK'
<1> SUFFICES ASSUME Inv, SeenOK, BestOK, TipSlotOK, [Next]_vars PROVE TipSlotOK'
  OBVIOUS
<1>0. /\ DOMAIN seen \subseteq Hash /\ slot \in Nat /\ tip.rb \in DOMAIN seen \cup {None}
      /\ adopted \in DOMAIN seen \cup {None} /\ reorgs \in Nat
      /\ \A h \in Hash : Slot[h] \in Nat
  BY SlotAssumption DEF Inv, ChainOK, TipOK, BestOK
<1>1. ASSUME NEW h \in Hash, Receive(h) PROVE TipSlotOK'
  <2>1. /\ DOMAIN seen' = DOMAIN seen \cup {h} /\ \A x \in DOMAIN seen : seen'[x] = seen[x]
        /\ seen'[h] = slot /\ UNCHANGED <<tip, reorgs>>
    BY <1>1 DEF Receive, Put
  <2>2. ASSUME reorgs = 0, tip.rb # None, NEW g \in DOMAIN seen', seen'[g] = Slot[g]
        PROVE  Slot[tip.rb] <= Slot[g] \/ Beats(tip.rb, g)
    <3>1. CASE g \in DOMAIN seen
      BY <2>1, <2>2, <3>1 DEF TipSlotOK, InTime
    <3>2. CASE g \notin DOMAIN seen
      <4>1. Slot[g] = slot
        BY <2>1, <2>2, <3>2
      <4>2. Slot[tip.rb] <= slot
        BY SMTT(30), <1>0, <2>2 DEF SeenOK
      <4> QED BY <4>1, <4>2
    <3> QED BY <3>1, <3>2
  <2> QED BY <2>1, <2>2 DEF TipSlotOK, InTime
<1>2. ASSUME NEW h \in Hash, Apply(h) PROVE TipSlotOK'
  <2>1. UNCHANGED <<seen, reorgs>> /\ tip'.rb = adopted
    BY <1>2 DEF Apply, TipContext, NoTip
  <2>2. ASSUME reorgs = 0, NEW g \in DOMAIN seen PROVE Slot[adopted] <= Slot[g] \/ Beats(adopted, g)
    BY SMTT(30), <1>0, <2>2 DEF BestOK
  <2> QED BY <2>1, <2>2 DEF TipSlotOK, InTime
<1>3. ASSUME NEW h \in applied, NEW load, TickReorg(h, load) PROVE TipSlotOK'
  <2>1. reorgs' = reorgs + 1
    BY <1>3 DEF TickReorg
  <2> QED BY SMTT(30), <1>0, <2>1 DEF TipSlotOK
<1>4. ASSUME UNCHANGED <<seen, tip, reorgs>> PROVE TipSlotOK'
  BY <1>4 DEF TipSlotOK, InTime
<1>5. ASSUME \/ \E h \in Hash : ValidatedEb(h)
             \/ \E h \in Hash, complete \in BOOLEAN : ReceiveManifest(h, complete)
             \/ \E eb \in EB : TransactionsArrive(eb)
             \/ \E h \in Hash, voter \in Voter, tag \in {PV, NPV} : ReceiveVote(h, voter, tag)
             \/ \E load \in Loads : Tick(load)
             \/ UNCHANGED vars
      PROVE  UNCHANGED <<seen, tip, reorgs>>
  BY <1>5 DEF ValidatedEb, ReceiveManifest, ReceiveVote, TransactionsArrive, Tick, chainVars, vars
<1> QED BY <1>1, <1>2, <1>3, <1>4, <1>5 DEF Next

(* The pruning of a slot forgets a verdict only for a block that came too  *)
(* late, or that chain selection has passed.                               *)
LEMMA TickVerdicts ==
    ASSUME Inv, SeenOK, CachesOK, TipSlotOK, VerdictsKept, NEW load, Tick(load)
    PROVE  VerdictsKept'
<1>0. /\ DOMAIN seen \subseteq Hash /\ slot \in Nat /\ tip.rb \in DOMAIN seen \cup {None}
      /\ ElectionsOK(elections) /\ DOMAIN elections \subseteq DOMAIN seen
      /\ \A h \in Hash : Slot[h] \in Nat
  BY SlotAssumption DEF Inv, ChainOK, TipOK, SeenOK
<1>1. /\ OnSlot(elections, tip, slot + 1, adopted, load) /\ UNCHANGED <<seen, tip, bodies, reorgs>>
      /\ slot' = slot + 1
  BY DEF Tick, chainVars
<1>2. Passed(elections, tip, slot + 1, elections') /\ validated' = Keep(validated, MinKeep(tip))
  BY <1>0, <1>1, SlotPassFields DEF OnSlot, EndOfSlot
<1> SUFFICES ASSUME reorgs = 0, NEW h \in Hash, Announces(h), Announced[h] \in bodies, InTime(h)
             PROVE  Remembered(h)'
  BY <1>1 DEF VerdictsKept, InTime
<1>3. Remembered(h)
  BY DEF VerdictsKept
<1>4. ASSUME ~(Slot[h] >= MinKeep(tip)) PROVE Remembered(h)'
  <2>1. tip.rb # None /\ Slot[h] < Slot[tip.rb] /\ tip.rb \in DOMAIN seen
    BY SMTT(30), <1>0, <1>4 DEF MinKeep
  <2>2. CASE h \in DOMAIN seen
    <3>1. Slot[tip.rb] <= Slot[h] \/ Beats(tip.rb, h)
      BY <2>1, <2>2 DEF TipSlotOK
    <3>2. Beats(tip.rb, h)
      BY SMTT(30), <1>0, <2>1, <3>1
    <3> QED BY <1>1, <2>1, <3>2 DEF Remembered
  <2>3. CASE h \notin DOMAIN seen
    <3>1. seen[tip.rb] \in Slot[tip.rb]..slot
      BY <2>1 DEF SeenOK
    <3>2. Slot[h] < slot'
      BY SMTT(30), <1>0, <1>1, <2>1, <3>1
    <3> QED BY <1>1, <2>3, <3>2 DEF Remembered
  <2> QED BY <2>2, <2>3
<1>5. ASSUME Slot[h] >= MinKeep(tip) PROVE Remembered(h)'
  <2>1. CASE Announced[h] \in DOMAIN validated
    <3>1. validated[Announced[h]] = Slot[h]
      BY <2>1 DEF CachesOK, VerdictSlots
    <3>2. Announced[h] \in DOMAIN validated'
      BY <1>2, <1>5, <2>1, <3>1 DEF Keep
    <3> QED BY <3>2 DEF Remembered
  <2>2. CASE h \in DOMAIN elections /\ elections[h].body
    <3>1. h \in DOMAIN elections' /\ elections'[h].body
      BY <1>2, <1>5, <2>2 DEF Passed
    <3> QED BY <3>1 DEF Remembered
  <2>3. CASE tip.rb # None /\ Beats(tip.rb, h)
    BY <1>1, <2>3 DEF Remembered
  <2>4. CASE h \notin DOMAIN seen /\ Slot[h] < slot
    <3>1. Slot[h] < slot'
      BY SMTT(30), <1>0, <1>1, <2>4
    <3> QED BY <1>1, <2>4, <3>1 DEF Remembered
  <2> QED BY <1>3, <2>1, <2>2, <2>3, <2>4 DEF Remembered
<1> QED BY <1>4, <1>5

(* No step forgets a verdict that is still needed.                         *)
LEMMA NextVerdicts ==
    Inv /\ SeenOK /\ BestOK /\ CachesOK /\ TipSlotOK /\ VerdictsKept /\ [Next]_vars => VerdictsKept'
<1> SUFFICES ASSUME Inv, SeenOK, BestOK, CachesOK, TipSlotOK, VerdictsKept, [Next]_vars
             PROVE  VerdictsKept'
  OBVIOUS
<1>0. /\ DOMAIN seen \subseteq Hash /\ slot \in Nat /\ tip.rb \in DOMAIN seen \cup {None}
      /\ adopted \in DOMAIN seen \cup {None} /\ reorgs \in Nat /\ ElectionsOK(elections)
      /\ \A h \in Hash : Slot[h] \in Nat
  BY SlotAssumption DEF Inv, ChainOK, TipOK, BestOK
<1>1. ASSUME NEW h \in Hash, Receive(h) PROVE VerdictsKept'
  <2>1. /\ DOMAIN seen' = DOMAIN seen \cup {h} /\ \A x \in DOMAIN seen : seen'[x] = seen[x]
        /\ seen'[h] = slot /\ h \notin DOMAIN seen
        /\ UNCHANGED <<slot, tip, elections, validated, bodies, reorgs>>
    BY <1>1 DEF Receive, Put, ebVars
  <2>2. ASSUME reorgs = 0, NEW g \in Hash, Announces(g), Announced[g] \in bodies, InTime(g)'
        PROVE  Remembered(g)'
    <3>1. InTime(g)
      BY <2>1, <2>2 DEF InTime
    <3>2. Remembered(g)
      BY <2>2, <3>1 DEF VerdictsKept
    <3>3. ASSUME g \notin DOMAIN seen, Slot[g] < slot PROVE g \notin DOMAIN seen'
      <4>1. ASSUME g = h PROVE FALSE
        <5>1. Slot[g] = slot
          BY <2>1, <2>2, <4>1 DEF InTime
        <5> QED BY SMTT(30), <1>0, <3>3, <5>1
      <4> QED BY <2>1, <3>3, <4>1
    <3> QED BY <2>1, <3>2, <3>3 DEF Remembered
  <2> QED BY <2>1, <2>2 DEF VerdictsKept
<1>2. ASSUME NEW h \in Hash, Apply(h) PROVE VerdictsKept'
  <2>1. /\ UNCHANGED <<slot, seen, validated, bodies, reorgs>> /\ tip'.rb = adopted
        /\ elections' = ElectionsAtTip(elections, adopted)
    BY <1>2 DEF Apply, TipContext, NoTip
  <2>2. adopted \in Hash \cup {None}
    BY <1>0
  <2>3. AtTip(elections, adopted, elections')
    BY <1>0, <2>1, <2>2, AtTipFields
  <2>4. ASSUME reorgs = 0, NEW g \in Hash, Announces(g), Announced[g] \in bodies, InTime(g)
        PROVE  Remembered(g)'
    <3>1. Remembered(g)
      BY <2>4 DEF VerdictsKept
    <3>2. ASSUME g \in DOMAIN elections, elections[g].body
          PROVE  g \in DOMAIN elections' /\ elections'[g].body
      BY <2>3, <3>2 DEF AtTip
    <3>3. ASSUME tip.rb # None, Beats(tip.rb, g) PROVE adopted # None /\ Beats(adopted, g)
      <4>1. tip.rb \in DOMAIN seen /\ tip.rb \in Hash
        BY <1>0, <3>3
      <4>2. adopted # None /\ (tip.rb = adopted \/ Beats(adopted, tip.rb))
        BY <2>4, <4>1 DEF BestOK
      <4>3. adopted \in Hash
        BY <2>2, <4>2
      <4> QED BY <3>3, <4>1, <4>2, <4>3, BeatsOrder
    <3> QED BY <2>1, <3>1, <3>2, <3>3 DEF Remembered
  <2> QED BY <2>1, <2>4 DEF VerdictsKept, InTime
<1>3. ASSUME NEW h \in Hash, ValidatedEb(h) PROVE VerdictsKept'
  <2>1. /\ elections' = MarkBodyValidated(elections, Announced[h])
        /\ UNCHANGED <<slot, seen, tip, reorgs>> /\ bodies' = bodies \cup {Announced[h]}
        /\ DOMAIN validated' = DOMAIN validated \cup {Announced[h]}
    BY <1>3 DEF ValidatedEb, chainVars, Put
  <2>2. /\ DOMAIN elections' = DOMAIN elections
        /\ \A r \in DOMAIN elections :
              elections'[r].body = (elections[r].body \/ elections[r].eb = Announced[h])
    <3>1. ElectionsOK(elections)
      BY <1>0
    <3> QED BY SMTT(30), <2>1, <3>1, MarkFields
  <2>3. ASSUME NEW g \in Hash, Remembered(g) PROVE Remembered(g)'
    BY <2>1, <2>2, <2>3 DEF Remembered
  <2>4. ASSUME NEW g \in Hash, Announced[g] = Announced[h] PROVE Remembered(g)'
    BY <2>1, <2>4 DEF Remembered
  <2>5. ASSUME reorgs = 0, NEW g \in Hash, Announces(g), Announced[g] \in bodies', InTime(g)
        PROVE  Remembered(g)'
    BY <2>1, <2>3, <2>4, <2>5 DEF VerdictsKept
  <2> QED BY <2>1, <2>5 DEF VerdictsKept, InTime
<1>4. ASSUME NEW h \in Hash, NEW voter \in Voter, NEW tag \in {PV, NPV},
             ReceiveVote(h, voter, tag)
      PROVE  VerdictsKept'
  <2>1. h \in DOMAIN elections /\ elections' = RecordVote(elections, h, voter, tag)
        /\ UNCHANGED <<slot, seen, tip, validated, bodies, reorgs>>
    BY <1>4 DEF ReceiveVote, chainVars, ebVars
  <2>2. /\ DOMAIN elections' = DOMAIN elections
        /\ \A r \in DOMAIN elections : elections'[r].body = elections[r].body
    <3>1. ElectionsOK(elections)
      BY <1>0
    <3> QED BY <2>1, <3>1, RecordKeeps
  <2> QED BY <2>1, <2>2 DEF VerdictsKept, InTime, Remembered
<1>5. ASSUME NEW load, Tick(load) PROVE VerdictsKept'
  BY <1>5, TickVerdicts
<1>6. ASSUME NEW h \in applied, NEW load, TickReorg(h, load) PROVE VerdictsKept'
  <2>1. reorgs' = reorgs + 1
    BY <1>6 DEF TickReorg
  <2> QED BY SMTT(30), <1>0, <2>1 DEF VerdictsKept
<1>7. ASSUME UNCHANGED <<slot, seen, tip, elections, validated, bodies, reorgs>> PROVE VerdictsKept'
  BY <1>7 DEF VerdictsKept, InTime, Remembered
<1>8. ASSUME \/ \E h \in Hash, complete \in BOOLEAN : ReceiveManifest(h, complete)
             \/ \E eb \in EB : TransactionsArrive(eb)
             \/ UNCHANGED vars
      PROVE  UNCHANGED <<slot, seen, tip, elections, validated, bodies, reorgs>>
  BY <1>8 DEF ReceiveManifest, TransactionsArrive, chainVars, ebVars, vars
<1> QED BY <1>1, <1>2, <1>3, <1>4, <1>5, <1>6, <1>7, <1>8 DEF Next

-----------------------------------------------------------------------------
(* The last slot of the window: an election seen before it is in time, and *)
(* in its voting phase.                                                    *)
LEMMA LastSlot ==
    ASSUME NEW h \in Hash, NEW n \in Nat, NEW m \in Nat, m <= n, Slot[h] <= n,
           n + 1 = Slot[h] + VotingEnd - 1, VoteWindow > 0, DeltaHdr > 0
    PROVE  ~(Elapsed(m, Slot[h]) >= VotingEnd) /\ PhaseForElapsed(Elapsed(n + 1, Slot[h])) = "Voting"
<1>1. DeltaHdr \in Nat /\ VoteWindow \in Nat /\ Slot[h] \in Nat
      /\ EquivocationEnd = 3 * DeltaHdr /\ VotingEnd = EquivocationEnd + VoteWindow
  BY PipelineAssumption, SlotAssumption DEF VotingEnd, EquivocationEnd
<1>2. EquivocationEnd \in Nat /\ EquivocationEnd >= 3
  BY SMTT(30), <1>1
<1> HIDE DEF EquivocationEnd, VotingEnd
<1>3. VotingEnd \in Nat /\ VotingEnd > 3 /\ EquivocationEnd <= VotingEnd - 1
  BY SMTT(30), <1>1, <1>2
<1>4. Elapsed(n + 1, Slot[h]) = VotingEnd - 1
  BY SMTT(30), <1>1, <1>3 DEF Elapsed
<1>5. ~(Elapsed(m, Slot[h]) >= VotingEnd)
  BY SMTT(30), <1>1, <1>3 DEF Elapsed
<1>6. ~(VotingEnd - 1 < EquivocationEnd) /\ VotingEnd - 1 < VotingEnd
  BY SMTT(30), <1>2, <1>3
<1> QED BY <1>4, <1>5, <1>6 DEF PhaseForElapsed

(* In the last slot of the window a block that deserves a vote has one.    *)
LEMMA LastChance ==
    ASSUME Prompt, Inv, SeenOK, NEW h \in DOMAIN seen, Deserves(h),
           NEW es, ElectionsOK(es), VotedAll(es), h \in DOMAIN es, es[h].body, es[h].seen <= slot,
           NEW ctx, ctx.rb = h, ContextFresh(ctx), NEW parent, NEW load,
           OnSlot(es, ctx, slot + 1, parent, load),
           slot + 1 = Slot[h] + VotingEnd - 1,
           config.evaluate, config.honest, config.retry,
           config.pv \/ Announced[h] \in config.npv
    PROVE  cast'[h] > 0
<1>0. /\ h \in Hash /\ h # None /\ slot \in Nat /\ cast[h] \in Nat /\ Slot[h] \in Nat
      /\ Slot[h] <= slot /\ seen[h] \in Nat /\ Slot[h] <= seen[h]
  <2>1. h \in Hash /\ h # None /\ slot \in Nat /\ cast[h] \in Nat
    BY HashAssumption DEF Inv, ChainOK, CastOK
  <2>2. Slot[h] \in Nat /\ seen[h] \in Slot[h]..slot
    BY <2>1, SlotAssumption DEF SeenOK
  <2> QED BY SMTT(30), <2>1, <2>2
<1>1. es[h] \in Election /\ es[h].slot = Slot[h] /\ es[h].eb = Announced[h]
  BY DEF ElectionsOK, ElectionOK
<1>2. VoteWindow > 0 /\ DeltaHdr > 0 /\ seen[h] < Slot[h] + DeltaHdr
  <2>1. seen[h] < Slot[h] + DeltaHdr /\ Slot[h] <= seen[h] /\ DeltaHdr \in Nat
    <3>1. seen[h] < Slot[h] + DeltaHdr
      BY DEF Deserves
    <3> QED BY <1>0, <3>1, PipelineAssumption
  <2>2. ASSUME NEW a \in Nat, NEW b \in Nat, NEW d \in Nat, a < b + d, b <= a PROVE d > 0
    BY SMTT(30), <2>2
  <2> QED BY <1>0, <2>1, <2>2 DEF Prompt
<1>3. es[h].seen \in Nat
  BY <1>1 DEF Election
<1>4. ~(Elapsed(es[h].seen, Slot[h]) >= VotingEnd)
      /\ PhaseForElapsed(Elapsed(slot + 1, Slot[h])) = "Voting"
  BY <1>0, <1>2, <1>3, LastSlot
<1>5. ~Late(es[h])
  BY <1>1, <1>4 DEF Late
<1>7. cast'[h] = IF EmitsVote(h, es[h], ctx, slot + 1) THEN cast[h] + 1 ELSE cast[h]
  BY <1>0 DEF OnSlot, CountVotes
<1>10. cast[h] + 1 > 0
  <2>1. \A n \in Nat : n + 1 > 0
    BY SMTT(30)
  <2> QED BY <1>0, <2>1
<1>8. CASE es[h].voted
  <2>1. cast[h] > 0
    BY <1>5, <1>8 DEF VotedAll, VotedOK
  <2> QED BY <1>7, <1>10, <2>1
<1>9. CASE ~es[h].voted
  <2>1. EligibleToVote(es[h], slot + 1)
    BY <1>1, <1>4, <1>9 DEF EligibleToVote
  <2>2. MayVote(h, es[h], ctx)
    BY <1>0, <1>1, <1>2, <1>5 DEF MayVote, ContextFresh, Deserves
  <2>3. EmitsVote(h, es[h], ctx, slot + 1)
    BY <1>1, <2>1, <2>2 DEF EmitsVote
  <2> QED BY <1>7, <1>10, <2>3
<1> QED BY <1>8, <1>9

NotMissed ==
    /\ Deserves(tip.rb)
    /\ slot' > slot
    /\ slot' = Slot[tip.rb] + VotingEnd - 1
    /\ tip' = tip
    /\ config.evaluate /\ config.honest /\ config.retry
    /\ config.pv \/ Announced[tip.rb] \in config.npv
    /\ reorgs = 0
    => cast'[tip.rb] > 0

(* No step lets the window close without it.                               *)
LEMMA NextNotMissed ==
    ASSUME Prompt
    PROVE  Inv /\ SeenOK /\ CachesOK /\ VerdictsKept /\ [Next]_vars => NotMissed
<1> SUFFICES ASSUME Inv, SeenOK, CachesOK, VerdictsKept, [Next]_vars,
                    Deserves(tip.rb), slot' > slot, slot' = Slot[tip.rb] + VotingEnd - 1, tip' = tip,
                    config.evaluate, config.honest, config.retry,
                    config.pv \/ Announced[tip.rb] \in config.npv, reorgs = 0
             PROVE  cast'[tip.rb] > 0
  BY DEF NotMissed
<1> DEFINE h == tip.rb
<1>0. /\ DOMAIN seen \subseteq Hash /\ slot \in Nat /\ h \in DOMAIN seen \cup {None}
      /\ applied \subseteq DOMAIN seen
      /\ ElectionsOK(elections) /\ TipLive(elections, tip) /\ DOMAIN validated \subseteq bodies
      /\ ContextFresh(tip) /\ VotedAll(elections)
      /\ \A r \in DOMAIN elections : elections[r].seen <= slot
  BY DEF Inv, ChainOK, TipOK, CachesOK, SeenOK
<1>1. Announces(h) /\ h \in DOMAIN seen /\ h \in Hash /\ h \in DOMAIN elections /\ Announced[h] \in bodies
  BY <1>0 DEF Deserves, Announces, TipLive
<1>2. InTime(h)
  <2>1. Slot[h] \in Nat /\ seen[h] \in Slot[h]..slot /\ seen[h] < Slot[h] + DeltaHdr
        /\ DeltaHdr \in Nat /\ DeltaHdr <= 1
    BY <1>1, SlotAssumption, PipelineAssumption DEF SeenOK, Deserves, Prompt
  <2> QED BY SMTT(30), <1>0, <2>1 DEF InTime
<1>3. elections[h].body
  <2>1. Remembered(h)
    BY <1>1, <1>2 DEF VerdictsKept
  <2>2. ~Beats(h, h)
    BY <1>1, BeatsOrder
  <2>3. Announced[h] \in DOMAIN validated => elections[h].body
    BY <1>1 DEF CachesOK, TipBody
  <2> QED BY <1>1, <2>1, <2>2, <2>3 DEF Remembered
<1>4. ASSUME NEW load, Tick(load) PROVE cast'[h] > 0
  <2>1. OnSlot(elections, tip, slot + 1, adopted, load) /\ slot' = slot + 1
    BY <1>4 DEF Tick
  <2> HIDE DEF h
  <2>2. h = tip.rb
    BY DEF h
  <2> QED BY <1>0, <1>1, <1>3, <2>1, <2>2, LastChance
<1>5. ASSUME NEW g \in applied, NEW load, TickReorg(g, load) PROVE cast'[h] > 0
  <2> DEFINE es == ElectionsAtTip(elections, g)
             ctx == TipContext(g, seen)
  <2>1. OnSlot(es, ctx, slot + 1, g, load) /\ slot' = slot + 1 /\ tip = ctx
    BY <1>5 DEF TickReorg
  <2>2. ContextFresh(ctx) /\ ctx.rb = g
    BY <1>0, FreshContext
  <2>3. g = h
    BY <2>1, <2>2
  <2>4. ElectionsOK(es) /\ \A r \in DOMAIN es : es[r].seen <= slot
    BY <1>0, AtTipSeen
  <2>5. VotedAll(es)
    BY <1>0, AtTipCaches
  <2>6. AtTip(elections, g, es)
    BY <1>0, AtTipFields
  <2> HIDE DEF es, ctx
  <2>7. h \in DOMAIN es /\ es[h].body
    BY <1>1, <1>3, <2>6 DEF AtTip
  <2> HIDE DEF h
  <2>8. h = tip.rb
    BY DEF h
  <2> QED BY <1>0, <1>1, <1>3, <2>1, <2>2, <2>3, <2>4, <2>5, <2>7, <2>8, LastChance
<1>6. ASSUME \/ \E x \in Hash : Receive(x) \/ Apply(x) \/ ValidatedEb(x)
             \/ \E x \in Hash, complete \in BOOLEAN : ReceiveManifest(x, complete)
             \/ \E eb \in EB : TransactionsArrive(eb)
             \/ \E x \in Hash, voter \in Voter, tag \in {PV, NPV} : ReceiveVote(x, voter, tag)
             \/ UNCHANGED vars
      PROVE  FALSE
  <2>1. UNCHANGED slot
    BY <1>6 DEF Receive, Apply, ValidatedEb, ReceiveManifest, ReceiveVote, TransactionsArrive, vars
  <2> QED BY SMTT(30), <1>0, <2>1
<1> QED BY <1>4, <1>5, <1>6 DEF Next

(* No vote is lost in a prompt pipeline: the verdict on the body survives  *)
(* in `validated_eb_bodies` or in the election until the block is the tip, *)
(* and the flags of the election never claim a vote that was not cast.     *)
THEOREM VotesNotMissed == ASSUME Prompt PROVE Spec => VoteNotMissed
<1>1. Init => CachesOK /\ TipSlotOK /\ VerdictsKept
  <2> SUFFICES ASSUME Init PROVE CachesOK /\ TipSlotOK /\ VerdictsKept
    OBVIOUS
  <2>1. DOMAIN elections = {} /\ DOMAIN validated = {} /\ tip.rb = None /\ bodies = {}
    BY DEF Init, Empty, NoTip
  <2> QED BY <2>1 DEF CachesOK, ContextFresh, VotedAll, VerdictSlots, TipBody, Announces,
                      TipSlotOK, VerdictsKept
<1>2. Inv /\ SeenOK /\ CachesOK /\ [Next]_vars => CachesOK'
  BY NextCaches
<1>3. Inv /\ SeenOK /\ BestOK /\ TipSlotOK /\ [Next]_vars => TipSlotOK'
  BY NextTipSlot
<1>4. Inv /\ SeenOK /\ BestOK /\ CachesOK /\ TipSlotOK /\ VerdictsKept /\ [Next]_vars => VerdictsKept'
  BY NextVerdicts
<1>5. Inv /\ SeenOK /\ CachesOK /\ VerdictsKept /\ [Next]_vars => [NotMissed]_vars
  BY NextNotMissed
<1>6. VoteNotMissed <=> [][NotMissed]_vars
  BY DEF VoteNotMissed, NotMissed
<1> QED BY <1>1, <1>2, <1>3, <1>4, <1>5, <1>6, LeiosInvariant, LeiosHistory, LeiosVotes, PTL DEF Spec
=============================================================================
