----------------------------- MODULE TrustedTip -----------------------------
(***************************************************************************)
(* What the block chain promises about the tip a restart would find: it is *)
(* empty until the genesis block, then each step takes it to a block of    *)
(* strictly more trust, or, when a start finds blocks it no longer         *)
(* accepts, back to an ancestor.  Module Chain implements it with the      *)
(* record "hashBestChain" of the database as the tip.                      *)
(***************************************************************************)
EXTENDS Integers

CONSTANTS
    Block, Genesis, Null,
    Lineage,        \* Lineage[b]: b and its ancestors
    ChainTrust      \* ChainTrust[b]: the work and stake behind b

VARIABLE best

TipInit == best = Null

Start    == best = Null /\ best' = Genesis
Advance  == best # Null /\ \E b \in Block : ChainTrust[b] > ChainTrust[best] /\ best' = b
Rollback == best # Null /\ \E b \in Lineage[best] : best' = b

TipNext == Start \/ Advance \/ Rollback

TipSpec == TipInit /\ [][TipNext]_best
=============================================================================
