---------------------------- MODULE MCChainWallet ----------------------------
(***************************************************************************)
(* Two branches, every block of which connects:                            *)
(*      g - r - k - a1 - a2                                                *)
(*                \- b1 - b2                                               *)
(* p, which spends r:1, is on both; the coin it makes is spent by v on one *)
(* branch, by x on the other.  u on the second branch and y, which comes   *)
(* in no block, conflict on r:0, z spends x:0 within b2, and a1 holds the  *)
(* stake s of k:0.  The wallet owns the outputs of r, k:0, p:0 and s:1.    *)
(***************************************************************************)
EXTENDS MCChain, ChainWallet

NodePrev  == "g" :> "none" @@ "r" :> "g" @@ "k" :> "r" @@ "a1" :> "k" @@ "a2" :> "a1" @@
             "b1" :> "k" @@ "b2" :> "b1"
NodeSpend == "s" :> {<<"k", 0>>} @@ "u" :> {<<"r", 0>>} @@ "p" :> {<<"r", 1>>} @@
             "v" :> {<<"p", 0>>} @@ "x" :> {<<"p", 0>>} @@ "y" :> {<<"r", 0>>}
             @@ "z" :> {<<"x", 0>>}
NodeBody  == "a1" :> <<"s", "p">> @@ "a2" :> <<"v">> @@ "b1" :> <<"u", "p">> @@
             "b2" :> <<"x", "z">>
NodeBlock == Blocks(NodePrev)
NodeTx    == DOMAIN NodePrev \cup DOMAIN NodeSpend
NodeGen   == NodeBlock \cup {"s"}
NodeVtx   == Bodies(NodePrev, NodeBody)
NodeVin   == Inputs(NodePrev, NodeSpend)
NodeVout  == [Outputs(NodePrev, NodeSpend) EXCEPT !["s"] = 2]
NodeTrust == [b \in NodeBlock |-> IF b = "a2" THEN 2 ELSE 1]
NodeTime  == [b \in NodeBlock |-> Height[b]]
NodeStake == [b \in NodeBlock |-> "none"]
NodeMine  == {<<"r", 0>>, <<"r", 1>>, <<"k", 0>>, <<"p", 0>>, <<"s", 1>>}
NodeOrder == <<"z", "y", "x", "v", "u", "s", "p", "b2", "b1", "a2", "a1", "k", "r", "g">>
==============================================================================
