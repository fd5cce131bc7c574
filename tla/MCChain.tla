------------------------------ MODULE MCChain ------------------------------
(***************************************************************************)
(* Block trees for TLC.  The coinbase of a block bears the block's name    *)
(* and has two outputs, every other transaction has one; "none" is Null.   *)
(***************************************************************************)
EXTENDS Chain

\* Lineage, a least closed set, is what a walk along pprev visits.
Walk[b \in Block] == {b} \cup (IF Prev[b] = Null THEN {} ELSE Walk[Prev[b]])
ASSUME LineageIsWalk == Lineage = Walk

Blocks(prev)  == DOMAIN prev
Bodies(prev, body) ==
    [b \in DOMAIN prev |-> <<b>> \o IF b \in DOMAIN body THEN body[b] ELSE <<>>]
Inputs(prev, spend) ==
    [t \in DOMAIN prev \cup DOMAIN spend |-> IF t \in DOMAIN spend THEN spend[t] ELSE {}]
Outputs(prev, spend) ==
    [t \in DOMAIN prev \cup DOMAIN spend |-> IF t \in DOMAIN spend THEN 1 ELSE 2]

\* Blocks that mint nothing, far from the end of an era.
NoClaim     == [b \in Block |-> 0]
FlatSubsidy == [h \in {Height[b] : b \in Block} |-> 0]

\* Two branches on r that spend the same output of its coinbase:
\*      g - r - a1 - a2
\*           \- b1 - b2 - b3
\*                     \- c3
\* a1 spends r:0 with t, a2 spends t:0 with v; b1 spends r:0 with u, b2 spends
\* r:1 with w and, within the block, w:0 with x; b3 repeats t, a double spend
\* of r:0; c3 repeats v, whose input is not on its branch.
ForkPrev  == "g" :> "none" @@ "r" :> "g" @@ "a1" :> "r" @@ "a2" :> "a1" @@
             "b1" :> "r" @@ "b2" :> "b1" @@ "b3" :> "b2" @@ "c3" :> "b2"
ForkSpend == "t" :> {<<"r", 0>>} @@ "u" :> {<<"r", 0>>} @@ "v" :> {<<"t", 0>>}
             @@ "w" :> {<<"r", 1>>} @@ "x" :> {<<"w", 0>>}
ForkBody  == "a1" :> <<"t">> @@ "a2" :> <<"v">> @@ "b1" :> <<"u">> @@
             "b2" :> <<"w", "x">> @@ "b3" :> <<"t">> @@ "c3" :> <<"v">>
ForkBlock == Blocks(ForkPrev)
ForkTx    == DOMAIN ForkPrev \cup DOMAIN ForkSpend
ForkVtx   == Bodies(ForkPrev, ForkBody)
ForkVin   == Inputs(ForkPrev, ForkSpend)
ForkVout  == Outputs(ForkPrev, ForkSpend)
ForkTrust == [b \in ForkBlock |-> IF b = "a2" THEN 2 ELSE 1]
ForkTime  == [b \in ForkBlock |-> Height[b]]

\* The same with a third branch r - d1 - d2 that would beat the others by far,
\* but whose last block spends an output of b2: the reorganisation fails
\* after the old branch was disconnected and d1 connected.
WidePrev  == ForkPrev @@ "d1" :> "r" @@ "d2" :> "d1"
WideBody  == ForkBody @@ "d2" :> <<"x">>
WideBlock == Blocks(WidePrev)
WideTx    == DOMAIN WidePrev \cup DOMAIN ForkSpend
WideVtx   == Bodies(WidePrev, WideBody)
WideVin   == Inputs(WidePrev, ForkSpend)
WideVout  == Outputs(WidePrev, ForkSpend)
WideTrust == [b \in WideBlock |-> CASE b = "a2" -> 2 [] b = "d2" -> 5 [] OTHER -> 1]
WideTime  == [b \in WideBlock |-> Height[b]]
WideStake == [b \in WideBlock |-> "none"]

\* The first blocks of the branches use one kernel.
OneStake  == [b \in ForkBlock |-> IF b \in {"a1", "b1"} THEN "kernel" ELSE "none"]

\* The subsidy ends with the block after r, and b2 still claims it.
ForkClaim   == [b \in ForkBlock |-> IF b = "b2" THEN 1 ELSE 0]
ForkSubsidy == [h \in {Height[b] : b \in ForkBlock} |-> IF h < 2 THEN 1 ELSE 0]

\* InstantX may lock r:0 for t, and r:1 for a transaction that is not its spender.
ForkLocks == {<<<<"r", 0>>, "t">>, <<<<"r", 1>>, "x">>}
=============================================================================
