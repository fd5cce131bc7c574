------------------------------- MODULE Relay -------------------------------
(***************************************************************************)
(* Loose transactions between peers (main.cpp, net.h): a peer announces a  *)
(* transaction ("inv"), the node asks for what it does not have            *)
(* ("getdata") and the "tx" handler puts the answer into the memory pool,  *)
(* holds it as an orphan when an input is unknown, or drops it.  When a    *)
(* transaction is accepted the orphans that waited for it are tried, and   *)
(* those that waited for them.                                             *)
(*                                                                         *)
(* The chain is only the set of transactions in blocks; blocks arrive by   *)
(* themselves.  Which of two orphans is tried first is the order of their  *)
(* hashes, HashOrder.                                                      *)
(***************************************************************************)
EXTENDS MemPool, SeqFilter

CONSTANTS
    Peer,           \* connected peers
    Has,            \* what a peer announces, [Peer -> SUBSET Tx]
    Honest,         \* the peers that answer "getdata"
    Poor,           \* transactions whose fee is too low to be relayed
    Big,            \* transactions of more than 5000 bytes, never held as orphans
    HashOrder,      \* the loose transactions in the order of their hashes
    MaxOrphans      \* MAX_ORPHAN_TRANSACTIONS

ASSUME HonestAssumption == Honest \subseteq Peer
ASSUME OrphansAssumption == MaxOrphans \in Nat
ASSUME PeersAssumption == Has \in [Peer -> SUBSET (Tx \ Generated)]

\* Each loose transaction has one hash.
ASSUME OrderAssumption ==
    /\ HashOrder \in Seq(Tx) /\ Range(HashOrder) = Tx \ Generated
    /\ \A i, j \in DOMAIN HashOrder : i # j => HashOrder[i] # HashOrder[j]

VARIABLES
    confirmed,      \* transactions in blocks of the best chain
    orphans,        \* mapOrphanTransactions
    byPrev,         \* mapOrphanTransactionsByPrev
    told,           \* announcements received, by peer
    askFor,         \* mapAskFor, by peer
    requested,      \* "getdata" sent and not answered yet, by peer
    seen            \* history: announced transactions the node has had in its hands

relayVars == <<pool, confirmed, orphans, byPrev, told, askFor, requested, seen>>

Loose == Tx \ Generated
Announced == UNION {Has[p] : p \in Peer}

RelayInit ==
    /\ PoolInit
    /\ confirmed = Generated /\ orphans = {} /\ byPrev = EmptyIndex
    /\ told = [p \in Peer |-> {}] /\ askFor = [p \in Peer |-> {}]
    /\ requested = [p \in Peer |-> {}] /\ seen = {}

-----------------------------------------------------------------------------
\* What AcceptToMemoryPool and FetchInputs ask of the pool m and the chain.
Known(m, t) == \A o \in Vin[t] : o[1] \in confirmed \cup m.mapTx
Unspent(t)  == \A c \in confirmed : Vin[c] \cap Vin[t] = {}
New(m, t)   == NoConflict(m, t) /\ t \notin confirmed

\* AcceptToMemoryPool refuses t, and fMissingInputs tells why.
MissingInputs(m, t) == New(m, t) /\ ~Known(m, t)

\* AcceptToMemoryPool adds t.
Acceptable(m, t) == New(m, t) /\ Known(m, t) /\ Unspent(t) /\ t \notin Poor

AlreadyHave(t) == t \in pool.mapTx \cup orphans \cup confirmed

Parents(t) == {o[1] : o \in Vin[t]}

\* EraseOrphanTx: the index by parent without the transactions of S.
IndexWithout(index, S) ==
    LET left == {h \in DOMAIN index : index[h] \ S # {}}
    IN  [h \in left |-> index[h] \ S]

\* AddOrphanTx: the index by parent with t under every parent.
IndexWith(index, t) ==
    [h \in DOMAIN index \cup Parents(t) |->
        (IF h \in DOMAIN index THEN index[h] ELSE {}) \cup
        (IF h \in Parents(t) THEN {t} ELSE {})]

\* One orphan of the work queue is tried: accepted, dropped, or kept waiting.
Try(r, o) ==
    CASE Acceptable(r.pool, o) ->
            [queue |-> Append(r.queue, o), pool |-> addUnchecked(r.pool, o), erase |-> r.erase \cup {o}]
      [] ~Acceptable(r.pool, o) /\ ~MissingInputs(r.pool, o) ->
            [r EXCEPT !.erase = @ \cup {o}]
      [] OTHER -> r

\* One round of the loop over vWorkQueue: the orphans that wait for h are
\* tried, in the order of their hashes.
Round(r, h) ==
    IF h \notin DOMAIN byPrev THEN r
    ELSE FoldLeft(LAMBDA q, o : IF o \in byPrev[h] THEN Try(q, o) ELSE q, r, HashOrder)

\* A slip: only the orphans of the transaction itself are tried.
WorkOnce(r) == Round(r, r.queue[1])

\* The loop over vWorkQueue, which grows on the way.  A transaction enters it
\* once, when the pool takes it, so there are no more rounds than transactions.
Work(r) ==
    LET after[i \in 0 .. Len(HashOrder)] ==
            IF i = 0 THEN r
            ELSE LET was == after[i - 1]
                 IN  IF i > Len(was.queue) THEN was ELSE Round(was, was.queue[i])
    IN  after[Len(HashOrder)]

\* A slip: the transaction that arrived is not taken off the orphans.
AdoptionOfOthers(t) ==
    LET r == Work([queue |-> <<t>>, pool |-> addUnchecked(pool, t), erase |-> {}])
    IN  /\ pool' = r.pool
        /\ orphans' = orphans \ r.erase
        /\ byPrev' = IndexWithout(byPrev, r.erase)

\* t is accepted and what waited for it is tried.
Adoption(t) ==
    LET r == Work([queue |-> <<t>>, pool |-> addUnchecked(pool, t), erase |-> {t}])
    IN  /\ pool' = r.pool
        /\ orphans' = orphans \ r.erase
        /\ byPrev' = IndexWithout(byPrev, r.erase \cap orphans)

\* AddOrphanTx and LimitOrphanTxSize, which evicts at random.
Hold(t) ==
    LET all == orphans \cup {t}
    IN  /\ IF Cardinality(all) <= MaxOrphans
           THEN orphans' = all /\ byPrev' = IndexWith(byPrev, t)
           ELSE \E o \in all :
                  /\ orphans' = all \ {o}
                  /\ byPrev' = IndexWithout(IndexWith(byPrev, t), {o})
        /\ UNCHANGED pool

-----------------------------------------------------------------------------
\* CNode::AskFor
AskFor(p, t) == askFor' = [askFor EXCEPT ![p] = @ \cup {t}]

\* "inv"
Inv(p, t) ==
    /\ t \in Has[p] \ told[p]
    /\ told' = [told EXCEPT ![p] = @ \cup {t}]
    /\ IF AlreadyHave(t) THEN UNCHANGED askFor ELSE AskFor(p, t)
    /\ seen' = IF AlreadyHave(t) THEN seen \cup {t} ELSE seen
    /\ UNCHANGED <<pool, confirmed, orphans, byPrev, requested>>

\* A slip: what another peer was asked for is not asked for again.
SendGetDataOnce(p, t) ==
    /\ t \in askFor[p]
    /\ askFor' = [askFor EXCEPT ![p] = @ \ {t}]
    /\ requested' = IF AlreadyHave(t) \/ (\E q \in Peer : t \in requested[q]) THEN requested
                    ELSE [requested EXCEPT ![p] = @ \cup {t}]
    /\ seen' = IF AlreadyHave(t) THEN seen \cup {t} ELSE seen
    /\ UNCHANGED <<pool, confirmed, orphans, byPrev, told>>

\* SendMessages finds a request of mapAskFor due.  The second peer to announce
\* a transaction is due two minutes after the first.
SendGetData(p, t) ==
    /\ t \in askFor[p]
    /\ askFor' = [askFor EXCEPT ![p] = @ \ {t}]
    /\ requested' = IF AlreadyHave(t) THEN requested ELSE [requested EXCEPT ![p] = @ \cup {t}]
    /\ seen' = IF AlreadyHave(t) THEN seen \cup {t} ELSE seen
    /\ UNCHANGED <<pool, confirmed, orphans, byPrev, told>>

\* "tx", asked for or not.
ReceiveTx(p, t) ==
    /\ requested' = [requested EXCEPT ![p] = @ \ {t}]
    /\ seen' = seen \cup ({t} \cap Announced)
    /\ CASE Acceptable(pool, t) -> Adoption(t)
         [] MissingInputs(pool, t) /\ t \notin orphans \cup Big -> Hold(t)
         [] OTHER -> UNCHANGED <<pool, orphans, byPrev>>
    /\ UNCHANGED <<confirmed, told, askFor>>

\* A block with t is connected: the pool loses t, the orphans are not looked at.
BlockWith(t) ==
    /\ t \notin confirmed /\ Parents(t) \subseteq confirmed /\ Unspent(t)
    /\ confirmed' = confirmed \cup {t}
    /\ pool' = remove(pool, t)
    /\ UNCHANGED <<orphans, byPrev, told, askFor, requested, seen>>

\* A peer's connection ends, and with it what it was asked for.
DisconnectPeer(p) ==
    /\ p \notin Honest
    /\ told' = [told EXCEPT ![p] = {}] /\ askFor' = [askFor EXCEPT ![p] = {}]
    /\ requested' = [requested EXCEPT ![p] = {}]
    /\ UNCHANGED <<pool, confirmed, orphans, byPrev, seen>>

RelayNext ==
    \/ \E p \in Peer, t \in Loose : Inv(p, t) \/ SendGetData(p, t) \/ ReceiveTx(p, t)
    \/ \E t \in Loose : BlockWith(t)
    \/ \E p \in Peer : DisconnectPeer(p)

\* The message thread visits every peer again and again, so due requests are
\* sent; an honest peer answers.
RelayFairness ==
    /\ \A p \in Peer, t \in Loose : WF_relayVars(SendGetData(p, t))
    /\ \A p \in Honest, t \in Loose : WF_relayVars(t \in requested[p] /\ ReceiveTx(p, t))

RelaySpec == RelayInit /\ [][RelayNext]_relayVars /\ RelayFairness

-----------------------------------------------------------------------------
\* The types of the state, and the limit on orphans.
RelayTypeOK ==
    /\ confirmed \subseteq Tx /\ orphans \subseteq Loose /\ seen \subseteq Announced
    /\ Cardinality(orphans) <= MaxOrphans
    /\ DOMAIN byPrev \subseteq Tx
    /\ \A p \in Peer : told[p] \cup askFor[p] \cup requested[p] \subseteq Has[p]

\* The index by parent says exactly which orphans wait for which transaction,
\* through random eviction, adoption and rejection.  Were it to name one that
\* is gone, the "tx" handler would make an empty transaction of it
\* (mapOrphanTransactions[orphanTxHash]).
OrphanIndexExact ==
    /\ \A h \in DOMAIN byPrev : byPrev[h] # {} /\ byPrev[h] = {o \in orphans : h \in Parents(o)}
    /\ \A o \in orphans : Parents(o) \subseteq DOMAIN byPrev

\* A transaction is in the pool or an orphan, never both, although an orphan
\* may be sent again and accepted after a block brought its parents.
OrphanOrPooled == orphans \cap pool.mapTx = {}

\* The orphans are few enough, indexed exactly, and in the pool no longer.
OrphansConsistent == RelayTypeOK /\ OrphanIndexExact /\ OrphanOrPooled

\* Accepting a transaction adopts all that waited for it, over any number of
\* generations: an orphan that is still held and has a parent this step
\* accepted has another input that is missing.
OrphansAdopted ==
    [][\A o \in orphans' :
          Parents(o) \cap (pool'.mapTx \ pool.mapTx) # {} => ~Known(pool', o)]_relayVars

\* A transaction that a peer who answers has announced reaches the node, even
\* if another peer announced it first, was asked and never answered.
AnnouncedArrives == \A p \in Honest, t \in Loose : t \in told[p] ~> t \in seen
=============================================================================
