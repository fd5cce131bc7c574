----------------------------- MODULE MCInstantX -----------------------------
(***************************************************************************)
(* Two transactions that share an input, and two masternodes, both elected *)
(* for height 1 and one of them for height 0 too, so that a lock needs the *)
(* votes of both.                                                          *)
(***************************************************************************)
EXTENDS InstantX

TwoTx   == {"t1", "t2"}
TwoOut  == {"o1", "o2"}
TwoVin  == [t \in TwoTx |-> IF t = "t1" THEN <<"o1", "o2">> ELSE <<"o1">>]
TwoMN   == {"m1", "m2"}
OneHeight  == {1}
ElectedTwo == [h \in {0, 1} |-> IF h = 0 THEN {"m1"} ELSE TwoMN]

\* How far behaviours are followed: with t1 alone, or with both requested, the
\* pool refusing them and the votes being for t2, over less time.
Untouched(t) ==
    /\ job.tx # t /\ t \notin mapTxLockReqRejected /\ t \notin mempool
    /\ t \notin DOMAIN mapTxLocks /\ t \notin DOMAIN mapTxLockReq
    /\ \A m \in Masternode : GetHash(m, t) \notin mapTxLockVote
Alone == Untouched("t2")
Contest ==
    /\ \A m \in Masternode : GetHash(m, "t1") \notin mapTxLockVote
    /\ now <= 2 /\ mempool = {} /\ mapUnknownVotes = <<>>
Explored == Alone \/ Contest
=============================================================================
