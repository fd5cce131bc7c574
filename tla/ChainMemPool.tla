---------------------------- MODULE ChainMemPool ----------------------------
(***************************************************************************)
(* The memory pool while the chain moves: AcceptToMemoryPool against the   *)
(* transaction index, and what SetBestChainInner and Reorganize do to the  *)
(* pool when blocks are connected and disconnected.                        *)
(***************************************************************************)
EXTENDS Chain, MemPool, SeqFilter

CONSTANT TotalBlocksEstimate    \* height of the last checkpoint

ASSUME Estimate == TotalBlocksEstimate \in Nat

nodeVars == <<vars, pool>>

-----------------------------------------------------------------------------
\* FetchInputs outside a block: each input is an output of a transaction of
\* the index or else of the pool.  ConnectInputs: it is unspent in the index,
\* and if generated it is mature as seen from pindexBest.
InputAvailable(p, index, tip, o) ==
    /\ o[1] \in DOMAIN index \cup p.mapTx
    /\ o[2] < Vout[o[1]]
    /\ o[1] \in DOMAIN index => /\ index[o[1]].vSpent[o[2]] = Null
                                /\ o[1] \in Generated => ~Immature(index[o[1]].pos, tip)

\* All of AcceptToMemoryPool; fees, scripts and standardness are passed by
\* every transaction of the model.
Acceptable(p, index, tip, t) ==
    /\ t \notin Generated
    /\ NoConflict(p, t)
    /\ t \notin DOMAIN index
    /\ \A o \in Vin[t] : InputAvailable(p, index, tip, o)

AcceptToMemoryPool(t) ==
    /\ pc = "idle"
    /\ Acceptable(pool, dbTxIndex, hashBestChain, t)
    /\ pool' = addUnchecked(pool, t)
    /\ UNCHANGED vars

\* A slip: the coinbase is the only transaction that is removed.
AfterConnectCoinbase(p, b) == remove(p, Head(Vtx[b]))

\* SetBestChainInner: "Delete redundant memory transactions".
AfterConnect(p, b) == FoldLeft(remove, p, Vtx[b])

\* The order Reorganize resurrects in: the lowest disconnected block first.
vResurrect(to) ==
    LET old == PathUp(LastCommon(hashBestChain, to), hashBestChain)
        txs == FlattenSeq([i \in DOMAIN old |->
                  IF Height[old[i]] > TotalBlocksEstimate THEN Vtx[old[i]] ELSE <<>>])
    IN Those(txs, Tx \ Generated)

\* A slip: the pool is cleaned for the new branch, nothing is resurrected.
AfterReorganizeForgets(p, index, to) ==
    FoldLeft(LAMBDA q, t : removeConflicts(remove(q, t), t), p,
             FlattenSeq([i \in DOMAIN vConnect(to) |-> Vtx[vConnect(to)[i]]]))

\* AcceptToMemoryPool for a sequence of transactions in turn.
AcceptEach(p, index, txs) ==
    FoldLeft(LAMBDA q, t : IF Acceptable(q, index, hashBestChain, t)
                           THEN addUnchecked(q, t) ELSE q, p, txs)

\* The end of Reorganize: AcceptToMemoryPool for what was disconnected, with
\* the index already committed but pindexBest still the old tip, then remove
\* and removeConflicts for what was connected.
AfterReorganize(p, index, to) ==
    LET redundant(q, t) == removeConflicts(remove(q, t), t)
    IN FoldLeft(redundant, AcceptEach(p, index, vResurrect(to)),
                FlattenSeq([i \in DOMAIN vConnect(to) |-> Vtx[vConnect(to)[i]]]))

\* A failed step of SetBestChain leaves the pool alone.
Unless(failed, p) == pool' = IF failed THEN pool ELSE p

\* The steps of SetBestChain with what they do to the pool before they return.
ConnectTip ==
    /\ ExtendTip \/ ConnectPostponed
    /\ Unless(dbHashBest' = dbHashBest, AfterConnect(pool, dbHashBest'))

ReorganizeTip ==
    /\ Reorganize
    /\ Unless(dbHashBest' = dbHashBest, AfterReorganize(pool, dbTxIndex', dbHashBest'))

-----------------------------------------------------------------------------
\* A transaction of the best chain is never also in the pool, whichever of
\* the three ways (extension, reorganisation, postponed connect) the block
\* that holds it was connected.
PoolNotConfirmed == pc = "idle" => pool.mapTx \cap DOMAIN dbTxIndex = {}

\* Reorganize loses no payment: a transaction of the old branch that is not on
\* the new one is back in the pool, unless one of its inputs is now spent by
\* another transaction or no longer exists.
NothingLost ==
    [][pc = "SetBestChain" =>
        \A t \in DOMAIN dbTxIndex \ (DOMAIN dbTxIndex' \cup Generated) :
            \/ t \in pool'.mapTx
            \/ \E o \in Vin[t] : \/ o \in DOMAIN pool'.mapNextTx
                                 \/ ~InputAvailable(pool', dbTxIndex', dbHashBest', o)]_nodeVars

\* txmempool.h: "CTxMemPool stores valid-according-to-the-current-best-chain
\* transactions that may be included in the next block".
\* Not kept by the code: README, "Sentences the code does not keep".
PoolValid ==
    pc = "idle" =>
        \A t \in pool.mapTx : \A o \in Vin[t] :
            InputAvailable(pool, dbTxIndex, hashBestChain, o)
=============================================================================
