----------------------------- MODULE MCMemPool -----------------------------
(***************************************************************************)
(* Loose transactions over the three outputs of a coinbase c: t and u      *)
(* conflict on c:0, v needs t, w needs v, x needs outputs of both          *)
(* conflicting ones, y conflicts with v on c:1, s takes c:2 and z joins    *)
(* its output with one of w.                                               *)
(***************************************************************************)
EXTENDS MemPool, TLC

PoolSpends == "c" :> {} @@ "t" :> {<<"c", 0>>} @@ "u" :> {<<"c", 0>>} @@
              "v" :> {<<"t", 0>>, <<"c", 1>>} @@ "w" :> {<<"v", 0>>} @@
              "x" :> {<<"u", 0>>, <<"t", 1>>} @@ "y" :> {<<"c", 1>>} @@
              "s" :> {<<"c", 2>>} @@ "z" :> {<<"s", 0>>, <<"w", 1>>}
PoolTx    == DOMAIN PoolSpends
PoolVout  == [t \in PoolTx |-> IF t = "c" THEN 3 ELSE 2]
PoolPrev  == "g" :> "none"
PoolTrust == "g" :> 1
PoolVtx   == "g" :> <<"c">>
=============================================================================
