------------------------------ MODULE Signals -------------------------------
(***************************************************************************)
(* What peers tell a node besides blocks and transactions: the time with   *)
(* "version", alerts, which expire by that time, and sporks.               *)
(***************************************************************************)
EXTENDS Alerts, Sporks

signalVars == <<timeVars, alertVars, sporkVars>>

SignalsInit == TimeInit /\ AlertInit /\ SporkInit

\* "version" of a peer with the offset d.
Version(ip, d) == AddTimeData(ip, d) /\ UNCHANGED <<alertVars, sporkVars>>

AlertStep ==
    /\ \/ \E p \in AlertPeer, a \in Alert : ReceiveAlert(p, a)
       \/ \E p \in AlertPeer : ReconnectAlertPeer(p)
       \/ Tick
    /\ UNCHANGED <<timeVars, sporkVars>>

SignalsNext ==
    \/ \E ip \in Ip, d \in Offset : Version(ip, d)
    \/ AlertStep
    \/ SporkStep /\ UNCHANGED <<timeVars, alertVars>>

\* The message thread goes on handling what has arrived.
SignalsFairness ==
    /\ \A p, n \in SporkNode, s \in Spork :
          WF_signalVars(GetSporkData(p, n, s) /\ UNCHANGED <<timeVars, alertVars>>)
    /\ \A n \in SporkNode, s \in Spork :
          WF_signalVars(ReceiveSpork(n, s) /\ UNCHANGED <<timeVars, alertVars>>)

SignalsSpec == SignalsInit /\ [][SignalsNext]_signalVars /\ SignalsFairness
=============================================================================
