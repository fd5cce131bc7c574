------------------------------- MODULE Sporks -------------------------------
(***************************************************************************)
(* Sporks (spork.cpp): signed switches with the time of their signature.   *)
(* They spread by "inv", "getdata" and "spork"; "getsporks" asks a peer    *)
(* for its active ones.                                                    *)
(***************************************************************************)
EXTENDS Integers

CONSTANTS
    SporkNode,      \* nodes
    Spork,          \* the sporks that are signed, [id, nValue, nTimeSigned]
    MaxAsks         \* bound on "getsporks"

\* A spork bears the time of the clock it was signed by.
ASSUME SporkAssumption == \A s \in Spork : s.nTimeSigned \in Nat

VARIABLES
    mapSporks,          \* sporks a node has seen
    mapSporksActive,    \* the active spork of an id, by node
    sporkInv,           \* announcements under way, <<from, to, spork>>
    sporkMsg,           \* sporks under way, <<to, spork>>
    signedSporks,       \* history: what was signed
    asks                \* history: "getsporks" sent

sporkVars == <<mapSporks, mapSporksActive, sporkInv, sporkMsg, signedSporks, asks>>

SporkId == {s.id : s \in Spork}

\* Where no spork is active.
NoSpork == [id |-> 0, nValue |-> 0, nTimeSigned |-> 0]

SporkInit ==
    /\ mapSporks = [n \in SporkNode |-> {}]
    /\ mapSporksActive = [n \in SporkNode |-> [i \in SporkId |-> NoSpork]]
    /\ sporkInv = {} /\ sporkMsg = {} /\ signedSporks = {} /\ asks = 0

RelaySpork(n, s) == {<<n, p, s>> : p \in SporkNode \ {n}}

\* s is stored, made active on n and announced.
Activate(n, s) ==
    /\ mapSporks' = [mapSporks EXCEPT ![n] = @ \cup {s}]
    /\ mapSporksActive' = [mapSporksActive EXCEPT ![n][s.id] = s]
    /\ sporkInv' = sporkInv \cup RelaySpork(n, s)

\* CSporkManager::UpdateSpork, by the holder of the key on any node; what is
\* signed later bears a later time.
UpdateSpork(n, s) ==
    /\ \A r \in signedSporks : r.nTimeSigned < s.nTimeSigned
    /\ signedSporks' = signedSporks \cup {s}
    /\ Activate(n, s)
    /\ UNCHANGED <<sporkMsg, asks>>

\* A slip: announcements are followed only while nothing is active.
WantsFirst(n, s) == mapSporksActive[n][s.id] = NoSpork

\* ~AlreadyHave
Wants(n, s) == s \notin mapSporks[n]

\* "inv" reaches n, which asks; p answers with what it has.
GetSporkData(p, n, s) ==
    /\ <<p, n, s>> \in sporkInv
    /\ sporkInv' = sporkInv \ {<<p, n, s>>}
    /\ sporkMsg' = IF Wants(n, s) /\ s \in mapSporks[p] THEN sporkMsg \cup {<<n, s>>} ELSE sporkMsg
    /\ UNCHANGED <<mapSporks, mapSporksActive, signedSporks, asks>>

\* A slip: what was seen before is taken again.
SeenSporkNever(n, s) == FALSE

\* ProcessSpork returns early: seen before, and not newer than the active one.
SeenSpork(n, s) ==
    /\ s \in mapSporks[n] /\ mapSporksActive[n][s.id] # NoSpork
    /\ mapSporksActive[n][s.id].nTimeSigned >= s.nTimeSigned

\* "spork"
ReceiveSpork(n, s) ==
    /\ <<n, s>> \in sporkMsg
    /\ sporkMsg' = sporkMsg \ {<<n, s>>}
    /\ IF SeenSpork(n, s) THEN UNCHANGED <<mapSporks, mapSporksActive, sporkInv>> ELSE Activate(n, s)
    /\ UNCHANGED <<signedSporks, asks>>

\* "getsporks": n asks p for its active sporks.
GetSporks(p, n) ==
    /\ asks < MaxAsks
    /\ asks' = asks + 1
    /\ sporkMsg' = sporkMsg \cup
         {<<n, mapSporksActive[p][i]>> : i \in {j \in SporkId : mapSporksActive[p][j] # NoSpork}}
    /\ UNCHANGED <<mapSporks, mapSporksActive, sporkInv, signedSporks>>

SporkStep ==
    \/ \E n \in SporkNode, s \in Spork : UpdateSpork(n, s)
    \/ \E x \in sporkInv : GetSporkData(x[1], x[2], x[3])
    \/ \E x \in sporkMsg : ReceiveSpork(x[1], x[2])
    \/ \E p, n \in SporkNode : p # n /\ GetSporks(p, n)

-----------------------------------------------------------------------------
\* An older spork may become active on a node that has not seen it, but one
\* that was superseded there never comes back: not through a peer that still
\* has it active, nor through a message that was long under way.
SupersededStaysOut ==
    [][\A n \in SporkNode, i \in SporkId :
          mapSporksActive'[n][i].nTimeSigned < mapSporksActive[n][i].nTimeSigned
             => mapSporksActive'[n][i] \notin mapSporks[n]]_sporkVars

\* Every signed spork reaches every node, whatever is active there.
SporksSpread == \A s \in Spork : s \in signedSporks ~> \A n \in SporkNode : s \in mapSporks[n]
=============================================================================
