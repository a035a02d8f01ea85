------------------------------- MODULE Blocks -------------------------------
(***************************************************************************)
(* The universe of ranking blocks (RBs) that a node can meet: the header   *)
(* fields that the consensus crate reads, as constants.  A block hash is a *)
(* positive number, so that the byte-wise order on 32-byte hashes, which   *)
(* breaks ties between equally high tips, is the order on numbers.  The    *)
(* value 0 stands both for Rust's `None` and for the `[0u8; 32]` sentinel  *)
(* that chain selection uses for genesis.                                  *)
(***************************************************************************)
EXTENDS Integers

CONSTANTS
    Hash,       \* the hashes of the blocks
    Prev,       \* Prev[h]: the `prev_hash` field of h's header
    BlockNo,    \* BlockNo[h]: the `block_number` field of h's header
    Slot,       \* Slot[h]: the slot h was forged in
    MaxBlockNo, \* the largest block number
    Anc         \* Anc[h]: h and all of its ancestors

None == 0

ASSUME HashAssumption == Hash \subseteq Nat \ {None}

ASSUME PrevAssumption == Prev \in [Hash -> Hash \cup {None}]

(* Block numbers are u64: they are bounded.  The child of genesis may have *)
(* number 0 (`next_block_number_after`).                                   *)
ASSUME BlockNoAssumption ==
    /\ MaxBlockNo \in Nat
    /\ BlockNo \in [Hash -> 0..MaxBlockNo]

(* Anc is the reflexive and transitive closure of Prev.                    *)
ASSUME AncAssumption ==
    /\ Anc \in [Hash -> SUBSET Hash]
    /\ \A h \in Hash :
          Anc[h] = {h} \cup (IF Prev[h] = None THEN {} ELSE Anc[Prev[h]])
    /\ \A h \in Hash : \A a \in Anc[h] : Anc[a] \subseteq Anc[h]

(* A block is higher than each of its ancestors: the number of a block is  *)
(* one more than its parent's.                                             *)
ASSUME HeightAssumption ==
    \A h \in Hash :
        /\ Prev[h] # None => BlockNo[Prev[h]] < BlockNo[h]
        /\ \A a \in Anc[h] \ {h} : BlockNo[a] < BlockNo[h]

(* A block is forged in a later slot than its ancestors.                   *)
ASSUME SlotAssumption ==
    /\ Slot \in [Hash -> Nat]
    /\ \A h \in Hash : \A a \in Anc[h] \ {h} : Slot[a] < Slot[h]

-----------------------------------------------------------------------------
(* The blocks of the chain that ends in h, from a up to h.                 *)
Segment(a, h) == {x \in Anc[h] : a \in Anc[x]}

(* `is_better_tip`: higher wins, the lower hash wins among equals.         *)
IsBetterTip(newNo, newHash, oldNo, oldHash) ==
    \/ newNo > oldNo
    \/ newNo = oldNo /\ newHash < oldHash
=============================================================================
