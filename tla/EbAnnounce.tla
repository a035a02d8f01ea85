----------------------------- MODULE EbAnnounce -----------------------------
(* What Praos tells Leios about the headers and bodies it meets             *)
(* (`consensus/src/praos.rs`): which slots have an equivocating header,      *)
(* which elections two certificates contradict, which endorser blocks (EBs)  *)
(* to fetch, and which header bytes a block is served with.                   *)
(*                                                                           *)
(* Chain selection is module `Praos`.  Here it is free: a handler that runs  *)
(* it may adopt any block held that is higher than the adopted one.  The     *)
(* list of certified EBs `on_block_received` returns, opaque headers, and    *)
(* the marks of a validation under way are left out.                         *)
EXTENDS Naturals, Sequences, FiniteSets, FiniteSetsExt

CONSTANTS
    Rbs,          \* the blocks that exist: records, see `RbOf`
    Own,          \* the identifiers of the blocks this node produces
    K,            \* `security_param_k`
    BodyWindow,   \* `block_body_retention_blocks`, clamped to K by the code
    Cap,          \* `CERT_SEEN_CAP`
    MaxTip,       \* the highest tip a peer reports
    MaxSlot       \* the last slot of the clock

VARIABLES
    now,                    \* the current slot
    peers,                  \* whether some peer is connected
    highest,                \* `highest_tip_block_no`
    hashes,                 \* `header_hashes_by_slot_issuer`: <<slot, issuer, id>>
    equivocating,           \* `equivocating_rb_slots`
    cert_seen,              \* the first certificate per slot: <<slot, eb>>
    cert_equivocations,     \* slots reported since the last drain, in order
    authentic,              \* `authentic_headers`: announced, not yet cached
    cache,                  \* `block_cache`: the header kept of every block
    adopted,                \* the adopted tip, or 0
    requested,              \* EBs asked for, as <<slot, eb>>
    observed,               \* history: every header seen, <<slot, issuer, id>>
    certs, drained,         \* every certificate received, every slot drained
    announced,              \* the blocks whose header a peer announced
    got,                    \* <<a, b>>: a was received before b (a = b: received)
    floor                   \* the highest block number and slot pruned to

praos == <<peers, highest, hashes, equivocating, cert_seen, cert_equivocations,
           authentic, cache, adopted, requested>>
history == <<observed, certs, drained, announced, got, floor>>
vars == <<now, praos, history>>

\* A block: its number, slot, parent (0 for none), issuer, the EB its header
\* announces (0 for none), the `certified_eb` bit of the header, the
\* certificate of the body (<<>> or <<slot, eb>>) and the pending placeholder.
RbOf(id) == CHOOSE b \in Rbs : b.id = id
Ids == {b.id : b \in Rbs}
Held == DOMAIN cache

--------------------------------------------------------------------------------
Minus(a, b) == IF a > b THEN a - b ELSE 0
Larger(a, b) == IF a > b THEN a ELSE b

(* Mutant: the tracker is keyed by slot alone, without the issuer. *)
MutNoteHeader(b) ==
    LET known == {t \in hashes : t[1] = b.slot /\ t[3] # b.id}
    IN  /\ hashes' = hashes \cup {<<b.slot, b.issuer, b.id>>}
        /\ equivocating' = IF known # {} THEN equivocating \cup {b.slot} ELSE equivocating

\* A header seen: the second hash of one issuer in one slot flags the slot.
\* A header without an issuer is not tracked.
note_header_for_equivocation(b) ==
    LET key == {t \in hashes : t[1] = b.slot /\ t[2] = b.issuer}
        new == <<b.slot, b.issuer, b.id>> \notin key
    IN  IF b.issuer = "" THEN UNCHANGED <<hashes, equivocating>>
        ELSE /\ hashes' = hashes \cup {<<b.slot, b.issuer, b.id>>}
             /\ equivocating' = IF new /\ key # {} THEN equivocating \cup {b.slot}
                                ELSE equivocating

\* A certificate in a body: the first of an election is kept, one that differs
\* is reported once per drain, and the table forgets its oldest election.
note_cert_for_equivocation(c) ==
    LET prev == {p \in cert_seen : p[1] = c[1]}
        grown == cert_seen \cup {c}
        oldest == CHOOSE p \in grown : \A q \in grown : p[1] <= q[1]
    IN  IF prev = {}
        THEN /\ cert_seen' = IF Cardinality(grown) > Cap THEN grown \ {oldest} ELSE grown
             /\ UNCHANGED cert_equivocations
        ELSE /\ cert_equivocations' =
                  IF c \in prev \/ \E i \in DOMAIN cert_equivocations :
                                       cert_equivocations[i] = c[1]
                  THEN cert_equivocations ELSE Append(cert_equivocations, c[1])
             /\ UNCHANGED cert_seen

\* The wire bytes of an announced header: they correct a cached block in place
\* and wait for the block otherwise.
note_authentic_header(b) ==
    IF b.id \in Held
    THEN cache' = [cache EXCEPT ![b.id] = "wire"] /\ UNCHANGED authentic
    ELSE authentic' = authentic \cup {b.id} /\ UNCHANGED cache

\* The EB a block certifies through its parent; <<>> for none.
parent_announced_eb_for_cert(b, held) ==
    IF (b.bit \/ b.cert # <<>> \/ b.pending) /\ b.prev \in held /\ RbOf(b.prev).eb # 0
    THEN <<RbOf(b.prev).slot, RbOf(b.prev).eb>>
    ELSE <<>>

push_eb_fetch(ebs) == IF peers THEN requested' = requested \cup ebs
                      ELSE UNCHANGED requested

(* Mutant: the announcer that has just become immutable counts as volatile. *)
MutEbsToFetch(b) ==
    LET immutable == Minus(highest, K)
        cert == IF b.cert # <<>> THEN b.cert
                ELSE parent_announced_eb_for_cert(b, Held \cup {b.id})
    IN  (IF b.eb # 0 /\ b.bn > immutable THEN {<<b.slot, b.eb>>} ELSE {})
        \cup (IF cert # <<>> /\ Minus(b.bn, 1) < immutable THEN {cert} ELSE {})

\* A volatile announcement is fetched at once, an immutable one when the next
\* block certifies it.
EbsToFetch(b) ==
    LET immutable == Minus(highest, K)
        cert == IF b.cert # <<>> THEN b.cert
                ELSE parent_announced_eb_for_cert(b, Held \cup {b.id})
    IN  (IF b.eb # 0 /\ b.bn > immutable THEN {<<b.slot, b.eb>>} ELSE {})
        \cup (IF cert # <<>> /\ Minus(b.bn, 1) <= immutable THEN {cert} ELSE {})

\* Chain selection may adopt a block that is held and higher.
Adopts(held) ==
    adopted' \in {adopted} \cup
        {i \in held : adopted = 0 \/ RbOf(i).bn > RbOf(adopted).bn}

--------------------------------------------------------------------------------
Init ==
    /\ now = 0 /\ peers = FALSE /\ highest = 0
    /\ hashes = {} /\ equivocating = {}
    /\ cert_seen = {} /\ cert_equivocations = <<>>
    /\ authentic = {} /\ cache = [i \in {} |-> "wire"]
    /\ adopted = 0 /\ requested = {}
    /\ observed = {} /\ certs = {} /\ drained = {} /\ announced = {} /\ got = {}
    /\ floor = [block |-> 0, slot |-> 0]

Header(b) == <<b.slot, b.issuer, b.id>>

\* A slot begins.
Tick ==
    /\ now < MaxSlot
    /\ now' = now + 1
    /\ UNCHANGED <<praos, history>>

\* A peer announces a header, and how high its own tip is.
on_tip_advanced(b, tip) ==
    /\ b.id \notin Own /\ b.slot <= now /\ tip >= b.bn
    /\ announced' = announced \cup {b.id}
    /\ note_authentic_header(b)
    /\ note_header_for_equivocation(b)
    /\ highest' = Larger(highest, tip)
    /\ peers' = TRUE
    /\ observed' = observed \cup {Header(b)}
    /\ UNCHANGED <<now, cert_seen, cert_equivocations, adopted, requested,
                   certs, drained, got, floor>>

\* A fetched block arrives: an announced one, or the parent of one, since a
\* range is fetched from the last block held.
on_block_received(b) ==
    /\ b.id \notin Held /\ b.id \notin Own
    /\ \E i \in announced : b.id \in {i, RbOf(i).prev}
    /\ note_header_for_equivocation(b)
    /\ cache' = [i \in Held \cup {b.id} |->
                    IF i # b.id THEN cache[i]
                    ELSE IF b.id \in authentic THEN "wire" ELSE "rebuilt"]
    /\ authentic' = authentic \ {b.id}
    /\ IF b.cert # <<>> THEN note_cert_for_equivocation(b.cert)
       ELSE UNCHANGED <<cert_seen, cert_equivocations>>
    /\ certs' = IF b.cert # <<>> THEN certs \cup {b.cert} ELSE certs
    /\ push_eb_fetch(EbsToFetch(b))
    /\ Adopts(Held \cup {b.id})
    /\ observed' = observed \cup {Header(b)}
    /\ got' = IF peers THEN got \cup {<<p[1], b.id>> : p \in got} \cup {<<b.id, b.id>>}
              ELSE got
    /\ UNCHANGED <<now, peers, highest, drained, announced, floor>>

\* This node forges a block in its slot.
register_self_produced(b) ==
    /\ b.id \in Own /\ b.slot = now /\ b.id \notin {t[3] : t \in observed}
    /\ note_header_for_equivocation(b)
    /\ cache' = [i \in Held \cup {b.id} |-> IF i = b.id THEN "wire" ELSE cache[i]]
    /\ Adopts(Held \cup {b.id})
    /\ observed' = observed \cup {Header(b)}
    /\ UNCHANGED <<now, peers, highest, cert_seen, cert_equivocations, authentic,
                   requested, certs, drained, announced, got, floor>>

\* What lies more than K slots behind a block that is applied.
SlotCutoff(b) == Minus(b.slot, K)

\* The validator applied a block: what lies behind the adopted tip is dropped.
on_block_applied(b) ==
    LET bn == IF adopted = 0 THEN 0 ELSE RbOf(adopted).bn
        window == IF BodyWindow < K THEN BodyWindow ELSE K
        kept == {i \in Held : RbOf(i).bn >= Minus(bn, window)}
    IN  /\ b.id \in Held
        /\ authentic' = {i \in authentic : RbOf(i).bn >= Minus(bn, K)}
        /\ cache' = [i \in kept |-> cache[i]]
        /\ hashes' = {t \in hashes : t[1] >= SlotCutoff(b)}
        /\ equivocating' = {s \in equivocating : s >= SlotCutoff(b)}
        /\ Adopts(kept)
        /\ floor' = [block |-> Larger(floor.block, Minus(bn, K)),
                     slot  |-> Larger(floor.slot, Minus(b.slot, K))]
        /\ UNCHANGED <<now, peers, highest, cert_seen, cert_equivocations, requested,
                       observed, certs, drained, announced, got>>

\* The last peer leaves; what it was asked for may still arrive.
on_peer_disconnected ==
    /\ peers
    /\ peers' = FALSE
    /\ UNCHANGED <<now, highest, hashes, equivocating, cert_seen, cert_equivocations,
                   authentic, cache, adopted, requested, history>>

\* The node reports the contradicted elections.
take_cert_equivocations ==
    /\ cert_equivocations # <<>>
    /\ cert_equivocations' = <<>>
    /\ drained' = drained \cup {cert_equivocations[i] : i \in DOMAIN cert_equivocations}
    /\ UNCHANGED <<now, peers, highest, hashes, equivocating, cert_seen, authentic,
                   cache, adopted, requested,
                   observed, certs, announced, got, floor>>

Next ==
    \/ Tick
    \/ \E b \in Rbs, tip \in 0 .. MaxTip : on_tip_advanced(b, tip)
    \/ \E b \in Rbs : on_block_received(b)
    \/ \E b \in Rbs : register_self_produced(b)
    \/ \E b \in Rbs : on_block_applied(b)
    \/ on_peer_disconnected
    \/ take_cert_equivocations

Spec == Init /\ [][Next]_vars

--------------------------------------------------------------------------------
(* What the tables hold and name exists.                                     *)
TypeOK ==
    /\ now \in 0 .. MaxSlot /\ highest \in 0 .. MaxTip /\ peers \in BOOLEAN
    /\ Held \subseteq Ids /\ authentic \subseteq Ids
    /\ adopted \in Ids \cup {0}
    /\ Cardinality(cert_seen) <= Cap

(* A slot is flagged exactly when two headers of one issuer for it were seen, *)
(* on whatever path and in whatever order, from the last slot pruned on; and  *)
(* no slot is ever flagged without such a pair.                               *)
EquivocationExact ==
    LET Twice(s) == \E t, u \in observed : t[1] = s /\ u[1] = s /\ t[2] = u[2]
                                       /\ t[2] # "" /\ t[3] # u[3]
    IN  /\ \A s \in equivocating : Twice(s)
        /\ \A s \in floor.slot .. MaxSlot : Twice(s) => s \in equivocating

(* Two certificates that contradict each other are reported if their election *)
(* is one of the `Cap` latest ones certified so far, and only then is one     *)
(* reported; an election is never twice in what one drain returns.            *)
CertsReported ==
    LET Contradicted(s) == \E c, d \in certs : c[1] = s /\ d[1] = s /\ c # d
        Later(s) == {c[1] : c \in {d \in certs : d[1] > s}}
        reported == drained \cup
                    {cert_equivocations[i] : i \in DOMAIN cert_equivocations}
    IN  /\ \A s \in reported : Contradicted(s)
        /\ \A c \in certs : Contradicted(c[1]) /\ Cardinality(Later(c[1])) < Cap
                                => c[1] \in reported
        /\ \A i, j \in DOMAIN cert_equivocations :
              cert_equivocations[i] = cert_equivocations[j] => i = j

(* Once its header was announced, a held block is served with the bytes of    *)
(* the wire, whether the announcement came before the block or after it.      *)
HeadersAuthentic ==
    \A i \in Held : i \in announced /\ RbOf(i).bn >= floor.block
                        => cache[i] = "wire"

(* An EB whose announcing block arrived before the block that certifies it    *)
(* has been requested by the time both are there, however the network tip     *)
(* moved between the two, if peers were connected.                            *)
CertifiedRequested ==
    \A a, b \in Rbs :
        <<a.id, b.id>> \in got /\ a.eb # 0 /\ b.prev = a.id /\ b.cert = <<a.slot, a.eb>>
            => <<a.slot, a.eb>> \in requested

================================================================================
