-------------------------- MODULE MCDarksendMaster --------------------------
(* Three clients of a masternode that mixes two coins at a time; one of them
   mixes another denomination and tries once.                                 *)
EXTENDS DarksendMaster

CONSTANTS c1, c2, c3

Denoms   == [c \in Clients |-> IF c = c3 THEN "large" ELSE "small"]
OneDenom == [c \in Clients |-> "small"]
Attempts == [c \in Clients |-> IF c = c3 THEN 1 ELSE 2]
=============================================================================
