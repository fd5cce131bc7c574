------------------------------ MODULE MemPool ------------------------------
(***************************************************************************)
(* CTxMemPool: the transactions that wait for a block (mapTx), and for     *)
(* every outpoint the one of them that spends it (mapNextTx, whose CInPoint*)
(* is a pointer into mapTx).  Every method runs under the pool's own lock. *)
(*                                                                         *)
(* nTransactionsUpdated, a counter that only tells the miner that          *)
(* something changed, is left out.                                         *)
(***************************************************************************)
EXTENDS TxIndex

VARIABLE
    pool            \* [mapTx : SUBSET Tx, mapNextTx : outpoint -> spender]

EmptyPool == [mapTx |-> {}, mapNextTx |-> EmptyIndex]

\* AcceptToMemoryPool's own tests of the pool: the transaction is not there
\* and no transaction of the pool spends an input of it.
NoConflict(p, t) ==
    /\ t \notin p.mapTx
    /\ Vin[t] \cap DOMAIN p.mapNextTx = {}

\* CTxMemPool::addUnchecked: mapNextTx is overwritten for every input.
addUnchecked(p, t) ==
    [mapTx     |-> p.mapTx \cup {t},
     mapNextTx |-> [o \in DOMAIN p.mapNextTx \cup Vin[t] |->
                        IF o \in Vin[t] THEN t ELSE p.mapNextTx[o]]]

\* A slip: the spent outpoints are not given back.
EraseKeepsNext(p, S) == [p EXCEPT !.mapTx = @ \ S]

\* The end of CTxMemPool::remove, for each transaction of S: the entries of
\* its inputs are erased, whoever they belong to, then the transaction.
Erase(p, S) ==
    [mapTx     |-> p.mapTx \ S,
     mapNextTx |-> Restrict(p.mapNextTx,
                            DOMAIN p.mapNextTx \ UNION {Vin[t] : t \in S})]

\* The spenders in the pool of the outputs of t: what remove(tx, true) calls
\* itself on before it erases t.
Spenders(p, t) ==
    {p.mapNextTx[o] : o \in {q \in DOMAIN p.mapNextTx : q[1] = t /\ q[2] < Vout[t]}}

\* All that the recursion of remove(tx, true) visits: the least set that holds
\* t and the spenders of its members, as far as they are in mapTx.
Descendants(p, t) ==
    {d \in p.mapTx :
        \A S \in SUBSET p.mapTx :
            t \in S /\ (\A s \in S : Spenders(p, s) \cap p.mapTx \subseteq S) => d \in S}

\* CTxMemPool::remove without and with fRecursive.
remove(p, t) == IF t \in p.mapTx THEN Erase(p, {t}) ELSE p
removeRecursive(p, t) == IF t \in p.mapTx THEN Erase(p, Descendants(p, t)) ELSE p

\* A slip: the conflicting transaction goes, its children stay.
removeConflictsAlone(p, t) ==
    Erase(p, {p.mapNextTx[o] : o \in Vin[t] \cap DOMAIN p.mapNextTx} \ {t})

\* CTxMemPool::removeConflicts: every other transaction of the pool that
\* spends an input of t is removed with its descendants.
removeConflicts(p, t) ==
    Erase(p, UNION {Descendants(p, c) :
                c \in {p.mapNextTx[o] : o \in Vin[t] \cap DOMAIN p.mapNextTx} \ {t}})

-----------------------------------------------------------------------------
(***************************************************************************)
(* The pool on its own: the calls the rest of the program makes, in any    *)
(* order.  What AcceptToMemoryPool checks of the chain is left open here   *)
(* and closed in module ChainMemPool.                                      *)
(***************************************************************************)
PoolInit == pool = EmptyPool

PoolAdd(t)             == t \notin Generated /\ NoConflict(pool, t) /\ pool' = addUnchecked(pool, t)
PoolRemove(t)          == pool' = remove(pool, t)
PoolRemoveRecursive(t) == pool' = removeRecursive(pool, t)
PoolRemoveConflicts(t) == pool' = removeConflicts(pool, t)
PoolClear              == pool' = EmptyPool

PoolNext ==
    \/ \E t \in Tx : PoolAdd(t) \/ PoolRemove(t) \/ PoolRemoveRecursive(t) \/ PoolRemoveConflicts(t)
    \/ PoolClear

PoolSpec == PoolInit /\ [][PoolNext]_pool

-----------------------------------------------------------------------------
\* The type of the pool: the maps hold transactions and outpoints.
PoolTypeOK ==
    /\ pool = [mapTx |-> pool.mapTx, mapNextTx |-> pool.mapNextTx]
    /\ pool.mapTx \subseteq Tx
    /\ DOMAIN pool.mapNextTx \subseteq UNION {Vin[t] : t \in Tx}
    /\ \A o \in DOMAIN pool.mapNextTx : pool.mapNextTx[o] \in Tx

\* mapNextTx is exactly the spending relation of mapTx: each input of a pooled
\* transaction leads to it, and no entry leads to a transaction that has left
\* (which would be a dangling pointer in the code).
NextTxExact ==
    /\ \A t \in pool.mapTx : \A o \in Vin[t] :
          o \in DOMAIN pool.mapNextTx /\ pool.mapNextTx[o] = t
    /\ \A o \in DOMAIN pool.mapNextTx :
          pool.mapNextTx[o] \in pool.mapTx /\ o \in Vin[pool.mapNextTx[o]]

\* No two transactions of the pool spend the same output, so that a block made
\* from the pool never double spends.
NoPooledDoubleSpend ==
    \A t, u \in pool.mapTx : Vin[t] \cap Vin[u] # {} => t = u

\* removeConflicts(tx) is thorough: whatever spends an input of tx goes, and a
\* transaction that stays does not spend an output of one that went.
ConflictsLeaveNoChild ==
    [][\A t \in Tx : PoolRemoveConflicts(t) =>
          /\ \A u \in pool'.mapTx \ {t} : Vin[u] \cap Vin[t] = {}
          /\ \A u \in pool'.mapTx : \A o \in Vin[u] :
                o[2] < Vout[o[1]] => o[1] \notin pool.mapTx \ pool'.mapTx]_pool
=============================================================================
