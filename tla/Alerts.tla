------------------------------- MODULE Alerts -------------------------------
(***************************************************************************)
(* Signed alerts (alert.cpp): an alert may cancel others and expires by    *)
(* the network-adjusted time, which may also move back.  An alert is a     *)
(* record of the fields that matter: nID, nCancel, setCancel, nExpiration, *)
(* and whether it has the form required of the one that says that the key  *)
(* is compromised.                                                         *)
(***************************************************************************)
EXTENDS AdjustedTime

CONSTANTS
    Alert,          \* the alerts with a good signature
    MaxId,          \* the nID reserved for a compromised key
    Never,          \* an nExpiration that is never reached
    AlertPeer,      \* connected peers
    MaxClock        \* bound on the node's own clock

\* nID is an int, and the reserved one is the largest.
ASSUME AlertAssumption == MaxId \in Int /\ \A a \in Alert : a.nID \in Int /\ a.nID <= MaxId

VARIABLES
    clock,          \* GetTime
    mapAlerts,
    setKnownAlerts  \* CNode::setKnown, by peer

alertVars == <<clock, mapAlerts, setKnownAlerts>>

AlertInit ==
    /\ clock = 0 /\ mapAlerts = {}
    /\ setKnownAlerts = [p \in AlertPeer |-> {}]

GetAdjustedTime == clock + nTimeOffset

IsInEffect(a) == a.nExpiration = Never \/ GetAdjustedTime < a.nExpiration

Cancels(b, a) == IsInEffect(b) /\ (a.nID <= b.nCancel \/ a.nID \in b.setCancel)

\* What ProcessAlert demands of the reserved nID.
WellFormed(a) ==
    a.nID = MaxId => a.urgent /\ a.nExpiration = Never /\ a.nCancel = MaxId - 1

\* A slip: whether a is cancelled already is not looked at.
AlreadyCancelledNever(kept, a) == FALSE

\* An alert that is kept cancels a.
AlreadyCancelled(kept, a) == \E c \in kept : Cancels(c, a)

\* "alert" from p: ProcessAlert, and RelayTo every peer when it is accepted.
\* What a cancels is gone even if a turns out to be cancelled itself.
ReceiveAlert(p, a) ==
    LET kept == {m \in mapAlerts : ~Cancels(a, m) /\ IsInEffect(m)}
    IN  /\ a \notin setKnownAlerts[p]
        /\ IsInEffect(a) /\ WellFormed(a)
        /\ IF AlreadyCancelled(kept, a)
           THEN mapAlerts' = kept /\ UNCHANGED setKnownAlerts
           ELSE /\ mapAlerts' = kept \cup {a}
                /\ setKnownAlerts' = [q \in AlertPeer |-> setKnownAlerts[q] \cup {a}]
        /\ UNCHANGED clock

\* A peer's connection is made anew.
ReconnectAlertPeer(p) ==
    /\ setKnownAlerts' = [setKnownAlerts EXCEPT ![p] = {}]
    /\ UNCHANGED <<clock, mapAlerts>>

Tick ==
    /\ clock < MaxClock
    /\ clock' = clock + 1
    /\ UNCHANGED <<mapAlerts, setKnownAlerts>>

-----------------------------------------------------------------------------
\* No alert is kept next to another that cancels it, in whatever order they
\* arrive, although an alert may expire, the adjusted time move back, and what
\* has expired leaves the map only when another alert comes.
NoCancelledAlert ==
    \A a, b \in mapAlerts : a # b => ~Cancels(b, a)

\* While the alert of a compromised key is in force, no alert without its form
\* is kept beside it, whichever of them came first and however the clock moved.
CompromiseIsFinal ==
    (\E a \in mapAlerts : a.nID = MaxId /\ a.urgent) =>
        \A a \in mapAlerts : a.nID = MaxId /\ a.urgent

\* What the user is shown is neither cancelled nor overruled.
AlertsSound == NoCancelledAlert /\ CompromiseIsFinal
=============================================================================
