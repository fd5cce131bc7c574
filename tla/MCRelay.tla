------------------------------ MODULE MCRelay ------------------------------
(***************************************************************************)
(* A coinbase c with two outputs; t and u conflict on c:0, v needs t, w    *)
(* needs v and c:1, f needs t and pays too little, b needs u and is too    *)
(* big for an orphan.  Both peers announce v and send the others unasked.  *)
(***************************************************************************)
EXTENDS Relay, TLC

RelaySpends == "c" :> {} @@ "t" :> {<<"c", 0>>} @@ "u" :> {<<"c", 0>>} @@
               "v" :> {<<"t", 0>>} @@ "w" :> {<<"v", 0>>, <<"c", 1>>} @@
               "f" :> {<<"t", 1>>} @@ "b" :> {<<"u", 0>>}
RelayTx     == DOMAIN RelaySpends
RelayVout   == [t \in RelayTx |-> 2]
RelayPrev   == "g" :> "none"
RelayTrust  == "g" :> 1
RelayVtx    == "g" :> <<"c">>
RelayHas    == "honest" :> {"v"} @@ "silent" :> {"v"}
RelayOrder  == <<"w", "f", "v", "u", "b", "t">>
=============================================================================
