------------------------ MODULE MCMasternodePayments ------------------------
(***************************************************************************)
(* The payments master and one other node.  The distances of the code are  *)
(* scaled down in proportion: a vote is for the next block but one.        *)
(***************************************************************************)
EXTENDS MasternodePayments

\* Every masternode is the furthest for some block, and no two are equally far.
MCScore(b, m) ==
    CASE m = "m1" -> IF b[2] % 2 = 0 THEN 3 ELSE 1
      [] m = "m2" -> IF b[1] = "a" THEN 4 ELSE 2
      [] m = "m3" -> 0
      [] OTHER -> 5

\* How far behaviours are followed, the list at rest: over few blocks with both
\* nodes talking; over many that come to the other node, to where it cleans; and
\* with the list changing, over many with the payments master alone at work.
AtRest  == list = Masternode /\ down = {}
Talking == /\ AtRest /\ \A n \in Node : top[n] <= FirstTip + 2
           /\ synced = {} \/ (side <= 1 /\ Cardinality(synced) = 1)
Ageing  == AtRest /\ (\A x \in synced : x[1] = Signer) /\ side <= 1 /\ top[Signer] <= FirstTip + 1
Working == /\ side = 0 /\ synced = {} /\ mnw = {}
           /\ \A n \in Node \ {Signer} : tip[n][2] = FirstTip /\ seen[n] = {}
Explored == Talking \/ Ageing \/ Working
=============================================================================
