----------------------------- MODULE MCAddrMan -----------------------------
(***************************************************************************)
(* Every source has a new bucket of its own, and all addresses share one   *)
(* tried bucket, so that addresses are interchangeable.                    *)
(***************************************************************************)
EXTENDS AddrMan

BySource  == [a \in Addr |-> [s \in Source |-> s]]
OneBucket == [a \in Addr |-> "k"]
Symmetry  == Permutations(Addr)
=============================================================================
