------------------------------- MODULE Chain -------------------------------
(***************************************************************************)
(* The block chain of a node: ProcessBlock, AcceptBlock, AddToBlockIndex,  *)
(* SetBestChain, Reorganize, the orphan blocks that wait for a parent, and *)
(* CTxDB::LoadBlockIndex, which rebuilds the memory from the database      *)
(* after a stop.                                                           *)
(*                                                                         *)
(* All of this runs under cs_main in one thread at a time.  What can come  *)
(* in between is a crash of the process: a database batch is atomic, but   *)
(* adding a block takes several of them (the block file, the index entry,  *)
(* the reorganisation, each postponed connect), and `pc` stops between     *)
(* them.  InstantX changes mapLockedInputs from its own messages, and the  *)
(* adjusted clock may move, between any two of these steps.                *)
(***************************************************************************)
EXTENDS TxIndex, SequencesExt

CONSTANTS
    BadContext,       \* blocks AcceptBlock rejects: checkpoint, nBits, kernel...
    BadConnect,       \* blocks ConnectBlock rejects: scripts, sigops, timestamps
    Claim,            \* Claim[b]: what the coinbase or coinstake of b mints beyond
                      \* the addend its caller hands to the reward function
    Subsidy,          \* Subsidy[h]: nSubsidy of both reward functions while
                      \* pindexBest->nHeight is h
    WrongPayee,       \* blocks that miss the masternode payment expected of
                      \* a block on top of the tip
    Time,             \* Time[b]: GetBlockTime
    CheckpointSpan,   \* nCheckpointSpan of checkpoints.cpp
    Stake,            \* Stake[b]: GetProofOfStake, Null for proof-of-work
    MaxOrphanBlocks,  \* -maxorphanblocksmib, counted in blocks
    Lockable,         \* pairs <<outpoint, tx>> that InstantX may lock
    Future,           \* blocks that seem too far in the future when the
                      \* clock is set back
    MaxCrashes        \* bound on the number of crashes

ASSUME ChainConstants ==
    /\ BadContext \subseteq Block \ {Genesis}
    /\ BadConnect \subseteq Block
    /\ Claim \in [Block -> Nat]
    /\ Subsidy \in [{Height[b] : b \in Block} -> Nat]
    /\ WrongPayee \subseteq Block
    /\ Time \in [Block -> Nat]
    /\ CheckpointSpan \in Nat
    /\ MaxOrphanBlocks \in Nat
    /\ Future \subseteq Block
    /\ MaxCrashes \in Nat

\* AcceptBlock: "block height mismatch in coinbase".  A coinbase starts with
\* the height of its block, so none is in two blocks of a branch; every other
\* transaction has inputs.
ASSUME Coinbases ==
    \A b \in Block \ BadContext : \A a \in Lineage[b] \ {b} :
        \A t \in TxsOf(a) \cap TxsOf(b) : Vin[t] # {}

\* CheckBlock, before a block is stored at all: "duplicate transaction".
ASSUME UniqueTxs ==
    \A b \in Block : \A i, j \in DOMAIN Vtx[b] : Vtx[b][i] = Vtx[b][j] => i = j

VARIABLES
    \* On disk
    blkFile,            \* blocks appended to the blk*.dat files
    dbBlockIndex,       \* "blockindex" records: hash -> hashNext
    dbTxIndex,          \* "tx" records
    dbHashBest,         \* "hashBestChain"
    \* In memory
    mapBlockIndex,      \* hash -> pnext of its CBlockIndex
    hashBestChain,      \* hashBestChain and pindexBest
    mapOrphanBlocks,    \* also the values of mapOrphanBlocksByPrev
    setStakeSeenOrphan,
    mapLockedInputs,    \* set of <<outpoint, tx>>: the map of instantx.cpp
    tooNew,             \* blocks beyond FutureDrift of the adjusted time
    \* Where the thread that holds cs_main is
    pc, caller, pblock, vpindexSecondary, vWorkQueue,
    nCrashes

disk   == <<blkFile, dbBlockIndex, dbTxIndex, dbHashBest>>
orphan == <<mapOrphanBlocks, setStakeSeenOrphan>>
env    == <<mapLockedInputs, tooNew, nCrashes>>
frame  == <<caller, pblock, vpindexSecondary, vWorkQueue>>
vars   == <<disk, mapBlockIndex, hashBestChain, orphan, env, pc, frame>>

\* nBestChainTrust and the trust of a block; the null tip has none.
TrustOf(b) == IF b = Null THEN 0 ELSE ChainTrust[b]

\* Slips: the longest chain instead of the most trusted one; a tie moves the
\* tip.
BetterIfHigher(b) == hashBestChain = Null \/ Height[b] > Height[hashBestChain]
BetterOnTie(b)    == TrustOf(b) >= TrustOf(hashBestChain)

\* AddToBlockIndex's test for a new best chain.
BetterThanTip(b) == TrustOf(b) > TrustOf(hashBestChain)

\* setStakeSeen: AddToBlockIndex and LoadBlockIndex insert the stake of every
\* block that enters mapBlockIndex, and nothing is ever erased.
setStakeSeen == {Stake[b] : b \in DOMAIN mapBlockIndex} \ {Null}

HasOrphanChild(b) == \E c \in mapOrphanBlocks : Prev[c] = b

-----------------------------------------------------------------------------
(***************************************************************************)
(* CheckBlock.  The checks that depend on the block alone are passed by    *)
(* every member of Block; the three that depend on the node's state are    *)
(* the clock, the InstantX locks, and the masternode payee, which is only  *)
(* looked at when the block's parent is the tip at that very moment.       *)
(***************************************************************************)
CheckBlock(b) ==
    /\ b \notin tooNew
    /\ \A t \in TxsOf(b) : \A o \in Vin[t] :
          \A l \in mapLockedInputs : l[1] = o => l[2] = t
    /\ Prev[b] = hashBestChain => b \notin WrongPayee

\* A slip: the walk back from the tip is left out.
CheckpointAtTip == hashBestChain

\* Checkpoints::AutoSelectSyncCheckpoint walks back from the tip until the
\* block lies CheckpointSpan below it, or is the genesis block.
AutoSelectSyncCheckpoint ==
    CHOOSE a \in Lineage[hashBestChain] :
        Height[a] = IF Height[hashBestChain] < CheckpointSpan THEN 0
                    ELSE Height[hashBestChain] - CheckpointSpan

-----------------------------------------------------------------------------
(***************************************************************************)
(* A database transaction (TxnBegin ... TxnCommit or TxnAbort) is a record *)
(* of the batch being built: the two indexes as reads see them, and        *)
(* whether a step has failed.                                              *)
(***************************************************************************)
TxnBegin == [ok |-> TRUE, txindex |-> dbTxIndex, blockindex |-> dbBlockIndex]

\* ConnectBlock's limit on the reward.  GetProofOfWorkReward and
\* GetProofOfStakeReward take the subsidy from the height of pindexBest, the
\* tip before SetBestChain began, whatever block is being connected.
RewardAllowed(b) == Claim[b] <= Subsidy[Height[hashBestChain]]

\* CBlock::ConnectBlock: CheckBlock once more, the transactions and the reward,
\* then the block's own record (with the pnext memory has) and its parent's.
ConnectBlock(batch, b) ==
    IF /\ batch.ok /\ CheckBlock(b) /\ b \notin BadConnect
       /\ InputsConnect(batch.txindex, b)
       /\ RewardAllowed(b)
    THEN [batch EXCEPT !.txindex    = Connected(@, b),
                       !.blockindex = [@ EXCEPT ![b] = mapBlockIndex[b],
                                                ![Prev[b]] = b]]
    ELSE [batch EXCEPT !.ok = FALSE]

\* CBlock::DisconnectBlock.
DisconnectBlock(batch, b) ==
    IF batch.ok /\ InputsDisconnect(batch.txindex, b)
    THEN [batch EXCEPT !.txindex    = Disconnected(@, b),
                       !.blockindex = [@ EXCEPT ![Prev[b]] = Null]]
    ELSE [batch EXCEPT !.ok = FALSE]

\* A slip: WriteHashBestChain is left out of the batch.
CommitWithoutBest(batch, best) ==
    /\ dbTxIndex' = batch.txindex
    /\ dbBlockIndex' = [b \in DOMAIN dbBlockIndex |-> batch.blockindex[b]]
    /\ UNCHANGED <<blkFile, dbHashBest>>

\* TxnCommit of a batch that ends with WriteHashBestChain(best).  A batch
\* rewrites the records of blocks that are indexed, it never adds one.
Commit(batch, best) ==
    /\ dbTxIndex' = batch.txindex
    /\ dbBlockIndex' = [b \in DOMAIN dbBlockIndex |-> batch.blockindex[b]]
    /\ dbHashBest' = best
    /\ UNCHANGED blkFile

\* SetBestChain's loop over pprev: the blocks whose parent alone already
\* beats the tip are postponed, the one below them (pindexIntermediate, a set
\* of one) is what to reorganise to.
Postponed(b) ==
    {c \in Lineage[b] : Prev[c] # Null /\ \A d \in Lineage[b] \ (Lineage[c] \ {c}) :
        TrustOf(Prev[d]) > TrustOf(hashBestChain)}

pindexIntermediate ==
    {a \in Lineage[pblock] \ Postponed(pblock) :
        \A c \in Lineage[pblock] \ Postponed(pblock) : Height[c] <= Height[a]}

vDisconnect(to) == Reverse(PathUp(LastCommon(hashBestChain, to), hashBestChain))
vConnect(to)    == PathUp(LastCommon(hashBestChain, to), to)

\* The batch Reorganize builds before its TxnCommit.
Reorganized(to) ==
    FoldLeft(ConnectBlock, FoldLeft(DisconnectBlock, TxnBegin, vDisconnect(to)),
             vConnect(to))

\* A slip: the disconnected branch keeps its pnext pointers.
RelinkedUpOnly(to) ==
    [b \in DOMAIN mapBlockIndex |->
        IF \E c \in Range(vConnect(to)) : Prev[c] = b
        THEN CHOOSE c \in Range(vConnect(to)) : Prev[c] = b ELSE mapBlockIndex[b]]

\* Reorganize's changes of pnext once the batch is committed.
Relinked(to) ==
    LET up   == Range(vConnect(to))
        down == {Prev[b] : b \in Range(vDisconnect(to))}
    IN [b \in DOMAIN mapBlockIndex |->
          IF \E c \in up : Prev[c] = b THEN CHOOSE c \in up : Prev[c] = b
          ELSE IF b \in down THEN Null ELSE mapBlockIndex[b]]

-----------------------------------------------------------------------------
Init ==
    /\ blkFile = {} /\ dbBlockIndex = EmptyIndex
    /\ dbTxIndex = EmptyIndex /\ dbHashBest = Null
    /\ mapBlockIndex = EmptyIndex /\ hashBestChain = Null
    /\ mapOrphanBlocks = {} /\ setStakeSeenOrphan = {}
    /\ mapLockedInputs = {} /\ tooNew = {} /\ nCrashes = 0
    /\ pc = "down" /\ caller = "load" /\ pblock = Null
    /\ vpindexSecondary = <<>> /\ vWorkQueue = <<>>

(***************************************************************************)
(* ProcessBlock, from a peer's block message.                              *)
(***************************************************************************)

\* ProcessBlock's tests before it looks for the parent.
Admissible(b) ==
    /\ b \notin DOMAIN mapBlockIndex
    /\ b \notin mapOrphanBlocks
    /\ Stake[b] \in setStakeSeen => HasOrphanChild(b)
    /\ Prev[b] # hashBestChain => Time[b] >= Time[AutoSelectSyncCheckpoint]
    /\ CheckBlock(b)

\* A slip: the limit is never enforced.
PruneNothing == {{}}

\* What PruneOrphanBlocks may remove: nothing while the holding area is
\* within its limit, else one block that no other orphan depends on (every
\* block of the model has size one, so the loop runs at most once).
PruneOrphanBlocks ==
    IF Cardinality(mapOrphanBlocks) > MaxOrphanBlocks
    THEN {{v} : v \in {c \in mapOrphanBlocks : ~HasOrphanChild(c)}}
    ELSE {{}}

\* The parent is unknown: the holding area is pruned, then the block joins it.
HoldOrphan(b) ==
    /\ pc = "idle"
    /\ Admissible(b)
    /\ Prev[b] \notin DOMAIN mapBlockIndex
    /\ Stake[b] \in setStakeSeenOrphan => HasOrphanChild(b)
    /\ \E pruned \in PruneOrphanBlocks :
        /\ mapOrphanBlocks' = (mapOrphanBlocks \ pruned) \cup {b}
        /\ setStakeSeenOrphan' = (setStakeSeenOrphan \ {Stake[v] : v \in pruned})
                                    \cup ({Stake[b]} \ {Null})
    /\ UNCHANGED <<disk, mapBlockIndex, hashBestChain, env, pc, frame>>

\* A slip: the block file is left for later.
WriteToDiskLater(b, from) ==
    /\ pc' = "AddToBlockIndex" /\ pblock' = b /\ caller' = from
    /\ UNCHANGED <<disk, mapBlockIndex, hashBestChain, orphan, env,
                   vpindexSecondary, vWorkQueue>>

\* AcceptBlock passes its own checks and appends the block to the block file.
WriteToDisk(b, from) ==
    /\ blkFile' = blkFile \cup {b}
    /\ pc' = "AddToBlockIndex" /\ pblock' = b /\ caller' = from
    /\ UNCHANGED <<dbBlockIndex, dbTxIndex, dbHashBest, mapBlockIndex,
                   hashBestChain, orphan, env, vpindexSecondary, vWorkQueue>>

AcceptBlock(b) ==
    /\ pc = "idle"
    /\ Admissible(b)
    /\ Prev[b] \in DOMAIN mapBlockIndex
    /\ b \notin BadContext
    /\ WriteToDisk(b, "new")

\* A slip: the mark of the orphan's stake stays.
ReturnKeepsMark(accepted) ==
    /\ pblock' = Null /\ vpindexSecondary' = <<>> /\ caller' = "load"
    /\ pc' = IF caller = "load" \/ (caller = "new" /\ ~accepted) THEN "idle" ELSE "orphans"
    /\ vWorkQueue' = IF accepted /\ caller # "load" THEN Append(vWorkQueue, pblock) ELSE vWorkQueue
    /\ mapOrphanBlocks' = mapOrphanBlocks \ {pblock}
    /\ UNCHANGED setStakeSeenOrphan

\* How a call of AcceptBlock ends, seen from the loop that called it: the
\* orphans of an accepted block are queued, a rejected one only leaves the
\* holding area.  A new block that fails ends ProcessBlock at once.
Return(accepted) ==
    /\ pblock' = Null /\ vpindexSecondary' = <<>>
    /\ CASE caller = "load" ->
              /\ pc' = "idle"
              /\ UNCHANGED <<orphan, vWorkQueue>>
         [] caller = "new" ->
              /\ pc' = IF accepted THEN "orphans" ELSE "idle"
              /\ vWorkQueue' = IF accepted THEN <<pblock>> ELSE <<>>
              /\ UNCHANGED orphan
         [] caller = "orphan" ->
              /\ pc' = "orphans"
              /\ vWorkQueue' = IF accepted THEN Append(vWorkQueue, pblock)
                               ELSE vWorkQueue
              /\ mapOrphanBlocks' = mapOrphanBlocks \ {pblock}
              /\ setStakeSeenOrphan' = setStakeSeenOrphan \ {Stake[pblock]}
    /\ caller' = "load"

\* The index entry is written in a batch of its own.
AddToBlockIndex ==
    /\ pc = "AddToBlockIndex"
    /\ mapBlockIndex' = [c \in DOMAIN mapBlockIndex \cup {pblock} |->
                            IF c = pblock THEN Null ELSE mapBlockIndex[c]]
    /\ dbBlockIndex' = [c \in DOMAIN dbBlockIndex \cup {pblock} |->
                            IF c = pblock THEN Null ELSE dbBlockIndex[c]]
    /\ UNCHANGED <<blkFile, dbTxIndex, dbHashBest, hashBestChain, env>>
    /\ IF BetterThanTip(pblock)
       THEN pc' = "SetBestChain" /\ UNCHANGED <<orphan, frame>>
       ELSE Return(TRUE)

-----------------------------------------------------------------------------
(***************************************************************************)
(* SetBestChain.                                                           *)
(***************************************************************************)

\* A slip: the hash of the genesis block is kept in memory only.
SetGenesisInMemory ==
    /\ pc = "SetBestChain" /\ pblock = Genesis /\ hashBestChain = Null
    /\ hashBestChain' = Genesis
    /\ Return(TRUE)
    /\ UNCHANGED <<disk, mapBlockIndex, env>>

\* The genesis block only becomes the tip, it is not connected.
SetGenesis ==
    /\ pc = "SetBestChain" /\ pblock = Genesis /\ hashBestChain = Null
    /\ dbHashBest' = Genesis /\ hashBestChain' = Genesis
    /\ Return(TRUE)
    /\ UNCHANGED <<blkFile, dbBlockIndex, dbTxIndex, mapBlockIndex, env>>

\* SetBestChainInner for a block on top of the tip.
ExtendTip ==
    /\ pc = "SetBestChain" /\ Prev[pblock] = hashBestChain /\ hashBestChain # Null
    /\ UNCHANGED env
    /\ \E batch \in {ConnectBlock(TxnBegin, pblock)} :
        /\ Return(batch.ok)
        /\ IF batch.ok
           THEN /\ Commit(batch, pblock)
                /\ mapBlockIndex' = [mapBlockIndex EXCEPT ![hashBestChain] = pblock]
                /\ hashBestChain' = pblock
           ELSE UNCHANGED <<disk, mapBlockIndex, hashBestChain>>

\* The last lines of SetBestChain: the tip in memory becomes pindexNew.
NewBest == hashBestChain' = pblock /\ Return(TRUE)

\* Reorganize to pindexIntermediate, in one batch.
Reorganize ==
    /\ pc = "SetBestChain" /\ hashBestChain # Null /\ Prev[pblock] # hashBestChain
    /\ UNCHANGED env
    /\ \E to \in pindexIntermediate : \E batch \in {Reorganized(to)} :
       \/ /\ ~batch.ok
          /\ Return(FALSE)
          /\ UNCHANGED <<disk, mapBlockIndex, hashBestChain>>
       \/ /\ batch.ok
          /\ Commit(batch, to)
          /\ mapBlockIndex' = Relinked(to)
          /\ IF to = pblock
             THEN NewBest
             ELSE /\ pc' = "ConnectPostponed"
                  /\ vpindexSecondary' = PathUp(to, pblock)
                  /\ UNCHANGED <<hashBestChain, orphan, caller, pblock, vWorkQueue>>

\* One round of "Connect further blocks".  A block that fails ends the loop,
\* and SetBestChain goes on to make pindexNew the tip all the same.
ConnectPostponed ==
    /\ pc = "ConnectPostponed"
    /\ UNCHANGED env
    /\ \E b \in {Head(vpindexSecondary)} : \E batch \in {ConnectBlock(TxnBegin, b)} :
        /\ IF batch.ok
           THEN /\ Commit(batch, b)
                /\ mapBlockIndex' = [mapBlockIndex EXCEPT ![Prev[b]] = b]
           ELSE UNCHANGED <<disk, mapBlockIndex>>
        /\ IF batch.ok /\ b # pblock
           THEN /\ vpindexSecondary' = Tail(vpindexSecondary)
                /\ UNCHANGED <<hashBestChain, orphan, pc, caller, pblock, vWorkQueue>>
           ELSE NewBest

(***************************************************************************)
(* ProcessBlock's work queue: the orphans of each accepted block in turn.  *)
(* Orphans with the same parent are taken in any order.                    *)
(***************************************************************************)
AcceptOrphan(b) ==
    /\ pc = "orphans" /\ vWorkQueue # <<>>
    /\ b \in mapOrphanBlocks /\ Prev[b] = Head(vWorkQueue)
    /\ IF b \in BadContext
       THEN /\ mapOrphanBlocks' = mapOrphanBlocks \ {b}
            /\ setStakeSeenOrphan' = setStakeSeenOrphan \ {Stake[b]}
            /\ UNCHANGED <<disk, mapBlockIndex, hashBestChain, env, pc, frame>>
       ELSE WriteToDisk(b, "orphan")

NextInQueue ==
    /\ pc = "orphans"
    /\ \A b \in mapOrphanBlocks : vWorkQueue # <<>> => Prev[b] # Head(vWorkQueue)
    /\ IF vWorkQueue = <<>> THEN pc' = "idle" /\ UNCHANGED vWorkQueue
       ELSE vWorkQueue' = Tail(vWorkQueue) /\ UNCHANGED pc
    /\ UNCHANGED <<disk, mapBlockIndex, hashBestChain, orphan, env,
                   caller, pblock, vpindexSecondary>>

-----------------------------------------------------------------------------
(***************************************************************************)
(* Crash and restart.                                                      *)
(***************************************************************************)

\* The process dies: an open batch is lost, what was committed stays.
Crash ==
    /\ pc \notin {"down", "unbootable"} /\ nCrashes < MaxCrashes
    /\ nCrashes' = nCrashes + 1
    /\ pc' = "down" /\ caller' = "load" /\ pblock' = Null
    /\ vpindexSecondary' = <<>> /\ vWorkQueue' = <<>>
    /\ mapBlockIndex' = EmptyIndex /\ hashBestChain' = Null
    /\ mapOrphanBlocks' = {} /\ setStakeSeenOrphan' = {}
    /\ mapLockedInputs' = {}
    /\ UNCHANGED <<disk, tooNew>>

\* The first start: no index on disk, so the genesis block is written.
LoadEmpty ==
    /\ pc = "down" /\ DOMAIN dbBlockIndex = {}
    /\ WriteToDisk(Genesis, "load")

\* CTxDB::LoadBlockIndex gives up: an index but no hashBestChain.
LoadFails ==
    /\ pc = "down" /\ DOMAIN dbBlockIndex # {} /\ dbHashBest = Null
    /\ pc' = "unbootable"
    /\ UNCHANGED <<disk, mapBlockIndex, hashBestChain, orphan, env, frame>>

\* CTxDB::LoadBlockIndex: memory is rebuilt from the records, the blocks of
\* the best chain are checked again, and SetBestChain moves the tip back below
\* the lowest one that fails.
LoadBlockIndex ==
    LET bad == {b \in Lineage[dbHashBest] : Prev[b] # Null /\ b \in tooNew} IN
    /\ pc = "down" /\ dbHashBest # Null
    /\ mapBlockIndex' = dbBlockIndex
    /\ hashBestChain' = dbHashBest
    /\ IF bad = {}
       THEN pc' = "idle" /\ UNCHANGED pblock
       ELSE /\ pc' = "SetBestChain"
            /\ \E b \in bad : /\ \A c \in bad : Height[b] <= Height[c]
                              /\ pblock' = Prev[b]
    /\ UNCHANGED <<disk, orphan, env, caller, vpindexSecondary, vWorkQueue>>

(***************************************************************************)
(* The rest of the node, as far as CheckBlock sees it.                     *)
(***************************************************************************)

\* instantx.cpp locks an input for a transaction, or cleans the lock up.
LockInput(l) ==
    /\ pc \notin {"down", "unbootable"}
    /\ l \in Lockable
    /\ \A k \in mapLockedInputs : k[1] # l[1]
    /\ mapLockedInputs' = mapLockedInputs \cup {l}
    /\ UNCHANGED <<disk, mapBlockIndex, hashBestChain, orphan, tooNew, nCrashes, pc, frame>>

UnlockInput(l) ==
    /\ l \in mapLockedInputs
    /\ mapLockedInputs' = mapLockedInputs \ {l}
    /\ UNCHANGED <<disk, mapBlockIndex, hashBestChain, orphan, tooNew, nCrashes, pc, frame>>

\* GetAdjustedTime jumps back, or recovers.
ClockChange ==
    /\ Future # {}
    /\ tooNew' = Future \ tooNew
    /\ UNCHANGED <<disk, mapBlockIndex, hashBestChain, orphan, mapLockedInputs,
                   nCrashes, pc, frame>>

SetBestChain == SetGenesis \/ ExtendTip \/ Reorganize \/ ConnectPostponed
ProcessBlock(b) == HoldOrphan(b) \/ AcceptBlock(b)
Load == LoadEmpty \/ LoadFails \/ LoadBlockIndex

Next ==
    \/ \E b \in Block : ProcessBlock(b) \/ AcceptOrphan(b)
    \/ AddToBlockIndex \/ SetBestChain \/ NextInQueue
    \/ Crash \/ Load
    \/ \E l \in Lockable : LockInput(l) \/ UnlockInput(l)
    \/ ClockChange

Spec == Init /\ [][Next]_vars

-----------------------------------------------------------------------------
(***************************************************************************)
(* Properties.                                                             *)
(***************************************************************************)

\* The types of the variables.
TypeOK ==
    /\ blkFile \subseteq Block
    /\ DOMAIN dbBlockIndex \subseteq Block
    /\ IsIndex(dbTxIndex)
    /\ dbHashBest \in Block \cup {Null}
    /\ DOMAIN mapBlockIndex \subseteq Block
    /\ hashBestChain \in DOMAIN mapBlockIndex \cup {Null}
    /\ mapOrphanBlocks \subseteq (Block \ DOMAIN mapBlockIndex) \cup {pblock}
    /\ mapLockedInputs \subseteq Lockable
    /\ tooNew \subseteq Future
    /\ caller \in {"load", "new", "orphan"}
    /\ pc \in {"down", "unbootable", "idle", "AddToBlockIndex", "SetBestChain",
              "ConnectPostponed", "orphans"}

\* The transaction index on disk says exactly what the best chain on disk
\* says: nothing of a disconnected branch is left, every spent mark is there,
\* at every point where the process may die (Reorganize, ConnectBlock,
\* DisconnectInputs).
TxIndexExact == dbHashBest # Null => dbTxIndex = IndexOf(dbHashBest)

\* When no block is being processed the tip in memory is the tip on disk, so
\* that the next block is connected on top of the state it extends.
TipIsOnDisk == pc \in {"idle", "orphans"} => hashBestChain = dbHashBest

\* What a restart would load is what memory holds: the pnext pointers and the
\* hashNext records agree after every step, failed ones included, although
\* Reorganize changes them in two separate passes.
LinksMirrored ==
    pc \notin {"down", "unbootable"} => mapBlockIndex = dbBlockIndex

\* At rest the pnext pointers, which the getblocks and getheaders answers
\* follow, are exactly the links of the best chain.
LinksFollowBestChain ==
    pc = "idle" =>
         \A b \in DOMAIN mapBlockIndex : \A c \in Block :
            mapBlockIndex[b] = c <=> Prev[c] = b /\ c \in Lineage[dbHashBest]

\* A branch that no rule of the ledger speaks against.
Connectable(b) ==
    SoundLedger(b) /\ Lineage[b] \cap (BadConnect \cup BadContext) = {}

\* When the node is at rest, no connectable block it knows has more trust than
\* its tip: a reorganisation that fails half way costs nothing, and neither
\* postponing blocks nor the order of arrival makes it miss the best branch.
TipIsMostTrusted ==
    pc = "idle" =>
        \A b \in DOMAIN mapBlockIndex :
            Connectable(b) => TrustOf(b) <= TrustOf(hashBestChain)

\* Each commit that moves the tip on disk moves it to strictly more trust;
\* only LoadBlockIndex may move it back.
TrustGrows ==
    [][dbHashBest' # dbHashBest /\ caller # "load"
          => TrustOf(dbHashBest') > TrustOf(dbHashBest)]_vars

\* The database as the abstract specifications see it.
Tip  == INSTANCE TrustedTip WITH best <- dbHashBest
Book == INSTANCE ExactLedger WITH best <- dbHashBest, index <- dbTxIndex,
                                  Sound <- SoundLedger, Index <- IndexOf

\* Chain implements TrustedTip, whatever fails and wherever the process dies:
\* SetBestChain only goes to more trust, LoadBlockIndex only back to an
\* ancestor, and nothing else moves the tip on disk.
ImplementsTip == Tip!TipSpec

\* Chain implements ExactLedger where every connect that is tried on top of
\* the tip in memory meets the same tip on disk: a reorganisation of any
\* depth, in several batches, is for the database a sequence of atomic moves
\* between sound ledgers.
ImplementsLedger == Book!LedgerSpec

\* PruneOrphanBlocks runs before the new orphan is added, so the holding area
\* exceeds its limit by at most one block.
OrphanBlocksBounded == Cardinality(mapOrphanBlocks) <= MaxOrphanBlocks + 1

\* A mark of setStakeSeenOrphan never outlives the orphans it was set for: it
\* would turn away, for as long as the node runs, a block that never came.
StakeMarksBacked == setStakeSeenOrphan \subseteq {Stake[b] : b \in mapOrphanBlocks}

\* Every block of the index can be read back from the block files: the file
\* is written before the record.
IndexedBlocksStored == DOMAIN dbBlockIndex \subseteq blkFile

\* A database that cannot be loaded holds the genesis record and nothing else:
\* the one crash LoadBlockIndex does not survive is the one between the two
\* batches of the very first start.
UnbootableOnlyAtGenesis == pc = "unbootable" => DOMAIN dbBlockIndex = {Genesis}

\* main.cpp, of the eras of the subsidy: "93 000, +4.464m", "27 000, +0.648m"...
\* each block of an era mints what the era allows, so no block of the best
\* chain mints more than it could when connected right after its parent.
\* Not kept by the code: README, "Sentences the code does not keep".
MintsBySchedule ==
    dbHashBest # Null => \A b \in Ledger(dbHashBest) : Claim[b] <= Subsidy[Height[Prev[b]]]

\* ProcessBlock: "If we don't already have its previous block, shunt it off to
\* holding area until we get it".
OrphansWaitForParent ==
    pc = "idle" => \A b \in mapOrphanBlocks : Prev[b] \notin DOMAIN mapBlockIndex

\* The holding area stays bounded and holds nothing the node could use,
\* however often it is pruned and in whatever order blocks arrive.
HoldingAreaSound == OrphanBlocksBounded /\ OrphansWaitForParent

-----------------------------------------------------------------------------
(***************************************************************************)
(* Liveness.  The thread that holds cs_main goes on, and peers offer every *)
(* block again until the node has it (getblocks, AskFor).                  *)
(***************************************************************************)
Fairness ==
    /\ WF_vars(AddToBlockIndex \/ SetBestChain \/ NextInQueue \/ Load
                  \/ \E b \in Block : AcceptOrphan(b))
    /\ \A b \in Block \ {Genesis} : WF_vars(ProcessBlock(b))

FairSpec == Spec /\ Fairness

\* The connectable blocks of maximal trust.
MostTrusted ==
    {b \in Block : Connectable(b) /\ \A c \in Block : Connectable(c) => TrustOf(c) <= TrustOf(b)}

\* Whatever the order blocks arrive in, and however often the holding area is
\* pruned, the node ends on a branch of maximal trust.
ReachesBestChain == <>[](pc = "idle" /\ hashBestChain \in MostTrusted)
=============================================================================
