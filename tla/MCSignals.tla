----------------------------- MODULE MCSignals ------------------------------
(***************************************************************************)
(* A filter of six offsets and seven peers; five alerts, of which one      *)
(* cancels another, one has a wrong form, and one is that of a compromised *)
(* key; three sporks of two ids between two nodes.                         *)
(***************************************************************************)
EXTENDS Signals

Notice(id, cancel, expires, form) ==
    [nID |-> id, nCancel |-> cancel, setCancel |-> {}, nExpiration |-> expires, urgent |-> form]
MCOffsets == {-3, -1, 2}

MCAlerts == {Notice(1, 0, 2, FALSE), Notice(2, 1, 1, FALSE), Notice(9, 8, 99, FALSE),
             Notice(9, 8, 99, TRUE), [Notice(3, 0, 3, FALSE) EXCEPT !.setCancel = {2}]}

MCSporks == {[id |-> 1, nValue |-> 1, nTimeSigned |-> 1], [id |-> 1, nValue |-> 2, nTimeSigned |-> 2],
             [id |-> 2, nValue |-> 1, nTimeSigned |-> 3]}

\* How far behaviours are followed: alerts with four peers' clocks at most, and
\* sporks, which have nothing to do with the rest, with the rest untouched.
\* Peers are numbered in the order they are heard of.
Explored ==
    /\ \/ SporkInit /\ (AlertInit \/ Cardinality(setKnown) <= 4)
       \/ TimeInit /\ AlertInit
    /\ setKnown = 1 .. Cardinality(setKnown)
=============================================================================
