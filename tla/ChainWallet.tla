----------------------------- MODULE ChainWallet -----------------------------
(***************************************************************************)
(* The node with its wallet: chain, memory pool and CWallet's record of    *)
(* its own transactions and spent coins.  SyncWithWallets tells the wallet *)
(* of every transaction of a block while the database transaction is still *)
(* open, and the wallet writes what it is told to wallet.dat at once, so a *)
(* batch that is lost leaves its traces here.                              *)
(*                                                                         *)
(* Keys are abstracted to Mine, the outputs that pay to them.  A write to  *)
(* wallet.dat survives a crash of the process.                             *)
(***************************************************************************)
EXTENDS ChainMemPool

CONSTANTS
    Mine,           \* the outpoints that pay to a key of the wallet
    LocatorEvery,   \* SetBestChain saves a locator at every such height
    Rescan,         \* the node is started with -rescan
    HashOrder,      \* the transactions in the order of their hashes
    BackupAt        \* bound: the heights at which wallet.dat may be copied, once

ASSUME WalletConstants ==
    /\ Mine \subseteq {o \in Tx \X Nat : o[2] < Vout[o[1]]}
    /\ HashOrder \in Seq(Tx) /\ Range(HashOrder) = Tx
    /\ LocatorEvery \in Nat \ {0} /\ Rescan \in BOOLEAN /\ BackupAt \subseteq Nat

VARIABLES
    mapWallet,      \* wallet.dat and CWallet::mapWallet: hashBlock, vfSpent
    locator,        \* wallet.dat: the block of its bestblock record, or Null
    backup,         \* the copy of wallet.dat, if there is one
    stage           \* AppInit2: "off", "registered", "ready" (reaccepted)

walletVars == <<mapWallet, locator, backup, stage>>
allVars    == <<nodeVars, walletVars>>

-----------------------------------------------------------------------------
CoinStake == {t \in Generated : Vin[t] # {}}

\* IsMine(tx), and IsFromMe(tx): some input is an output of ours, as far as
\* the wallet knows the transaction that has it.
PaysMe(t)      == \E o \in Mine : o[1] = t
IsFromMe(w, t) == \E o \in Vin[t] \cap Mine : o[1] \in DOMAIN w

Mark(w, outs)   == [t \in DOMAIN w |-> [w[t] EXCEPT !.vfSpent =
                        @ \cup {o[2] : o \in {q \in outs : q[1] = t}}]]
Unmark(w, outs) == [t \in DOMAIN w |-> [w[t] EXCEPT !.vfSpent =
                        @ \ {o[2] : o \in {q \in outs : q[1] = t}}]]

\* WalletUpdateSpent: the coins t spends are marked.  Once t is in a block its
\* own outputs are unmarked, whoever may spend them.
WalletUpdateSpent(w, t, fBlock) ==
    LET marked == Mark(w, Vin[t] \cap Mine)
    IN IF fBlock THEN Unmark(marked, {o \in Mine : o[1] = t}) ELSE marked

\* A slip: a transaction the wallet has keeps the block it was first seen in.
AddToWalletOnce(w, t, b) ==
    WalletUpdateSpent(
        [u \in DOMAIN w \cup {t} |->
            IF u \in DOMAIN w THEN w[u] ELSE [hashBlock |-> b, vfSpent |-> {}]],
        t, b # Null)

\* AddToWallet: insert, or merge the block; b is Null outside a block.
AddToWallet(w, t, b) ==
    WalletUpdateSpent(
        [u \in DOMAIN w \cup {t} |->
            IF u \notin DOMAIN w THEN [hashBlock |-> b, vfSpent |-> {}]
            ELSE IF u = t /\ b # Null THEN [w[u] EXCEPT !.hashBlock = b] ELSE w[u]],
        t, b # Null)

AddToWalletIfInvolvingMe(w, t, b, fUpdate) ==
    IF t \in DOMAIN w /\ ~fUpdate THEN w
    ELSE IF t \in DOMAIN w \/ PaysMe(t) \/ IsFromMe(w, t) THEN AddToWallet(w, t, b)
    ELSE WalletUpdateSpent(w, t, FALSE)

\* A slip: a disconnected stake is left as it is.
DisableTransactionNever(w, t) == w

\* DisableTransaction: the coins of a disconnected stake are spendable again.
DisableTransaction(w, t) == Unmark(w, Vin[t] \cap Mine)

\* A call of SyncTransaction: the transaction, its block, and fConnect.
SyncTransaction(w, call) ==
    IF call.fConnect THEN AddToWalletIfInvolvingMe(w, call.tx, call.block, TRUE)
    ELSE IF call.tx \in CoinStake /\ IsFromMe(w, call.tx) THEN DisableTransaction(w, call.tx)
    ELSE w

Told(calls) == FoldLeft(SyncTransaction, mapWallet, calls)

-----------------------------------------------------------------------------
(***************************************************************************)
(* What SetBestChain tells the wallet, in order.  ConnectBlock and         *)
(* DisconnectBlock call SyncWithWallets last, so a block that fails is not *)
(* told of, but those before it in the same batch are.                     *)
(***************************************************************************)
Step(b, fConnect) == [block |-> b, fConnect |-> fConnect]

Steps ==
    IF pc = "ConnectPostponed" THEN <<Step(Head(vpindexSecondary), TRUE)>>
    ELSE IF pc # "SetBestChain" \/ hashBestChain = Null THEN <<>>
    ELSE IF Prev[pblock] = hashBestChain THEN <<Step(pblock, TRUE)>>
    ELSE LET to   == CHOOSE a \in pindexIntermediate : TRUE
             down == vDisconnect(to)
             up   == vConnect(to)
         IN [i \in DOMAIN down |-> Step(down[i], FALSE)] \o [i \in DOMAIN up |-> Step(up[i], TRUE)]

Applied(steps) ==
    FoldLeft(LAMBDA batch, s : IF s.fConnect THEN ConnectBlock(batch, s.block)
                               ELSE DisconnectBlock(batch, s.block),
             TxnBegin, steps)

CallsFor(s) ==
    [j \in DOMAIN Vtx[s.block] |->
        [tx |-> Vtx[s.block][j], block |-> s.block, fConnect |-> s.fConnect]]

SyncCalls ==
    LET steps == Steps
        done  == Max({k \in 0..Len(steps) : Applied(SubSeq(steps, 1, k)).ok})
    IN FlattenSeq([i \in 1..done |-> CallsFor(steps[i])])

\* AcceptToMemoryPool's own call, for each transaction it accepts.
PoolCalls(txs) == [i \in DOMAIN txs |-> [tx |-> txs[i], block |-> Null, fConnect |-> TRUE]]

\* The threads that bring blocks and transactions start after RegisterWallet.
Running == stage # "off"

\* "Update best block in wallet", at the end of SetBestChain, if it is registered.
SaveLocator ==
    locator' = IF Running /\ hashBestChain' # hashBestChain /\ Height[hashBestChain'] % LocatorEvery = 0
               THEN hashBestChain' ELSE locator

-----------------------------------------------------------------------------
WalletInit ==
    /\ Init /\ PoolInit
    /\ mapWallet = EmptyIndex /\ locator = Null /\ backup = {} /\ stage = "off"

SyncConnectTip ==
    /\ ConnectTip
    /\ mapWallet' = IF Running THEN Told(SyncCalls) ELSE mapWallet
    /\ SaveLocator
    /\ UNCHANGED <<backup, stage>>

\* The transactions Reorganize puts back into the pool are told of as well.
SyncReorganizeTip ==
    LET back == Those(vResurrect(dbHashBest'),
                      AcceptEach(pool, dbTxIndex', vResurrect(dbHashBest')).mapTx \ pool.mapTx)
    IN /\ ReorganizeTip
       /\ mapWallet' = IF ~Running THEN mapWallet
                       ELSE Told(SyncCalls \o IF dbHashBest' = dbHashBest THEN <<>>
                                              ELSE PoolCalls(back))
       /\ SaveLocator
       /\ UNCHANGED <<backup, stage>>

SyncAccept(t) ==
    /\ Running
    /\ AcceptToMemoryPool(t)
    /\ mapWallet' = Told(PoolCalls(<<t>>))
    /\ UNCHANGED <<locator, backup, stage>>

\* AvailableCoins: a coin of ours in a block of the best chain, mature, unspent.
AvailableCoins ==
    {o \in Mine :
        /\ o[1] \in DOMAIN mapWallet
        /\ mapWallet[o[1]].hashBlock \in Lineage[hashBestChain]
        /\ o[1] \in Generated => ~Immature(mapWallet[o[1]].hashBlock, hashBestChain)
        /\ o[2] \notin mapWallet[o[1]].vfSpent}

\* CommitTransaction of a new transaction: recorded, its coins marked, then
\* offered to the pool.
CommitTransaction(t) ==
    /\ pc = "idle" /\ stage = "ready"
    /\ t \notin Generated /\ Vin[t] # {} /\ Vin[t] \subseteq AvailableCoins
    /\ t \notin DOMAIN mapWallet
    /\ \A b \in blkFile \cup mapOrphanBlocks : t \notin TxsOf(b)
    /\ mapWallet' = Mark(AddToWallet(mapWallet, t, Null), Vin[t])
    /\ pool' = AcceptEach(pool, dbTxIndex, <<t>>)
    /\ UNCHANGED <<vars, locator, backup, stage>>

\* repairwallet: every mark as the index has it.
FixSpentCoins ==
    LET indexed == {o \in Mine : o[1] \in DOMAIN mapWallet \cap DOMAIN dbTxIndex}
        spent   == {o \in indexed : dbTxIndex[o[1]].vSpent[o[2]] # Null}
    IN /\ pc = "idle" /\ stage = "ready"
       /\ mapWallet' = Mark(Unmark(mapWallet, indexed \ spent), spent)
       /\ UNCHANGED <<nodeVars, locator, backup, stage>>

-----------------------------------------------------------------------------
(***************************************************************************)
(* Start and end of the program.                                           *)
(***************************************************************************)

\* ScanForWalletTransactions from a block of the best chain; with a height it
\* stops at the first block below that height.
ScanForWalletTransactions(w, start, height, fUpdate) ==
    LET path == <<start>> \o PathUp(start, hashBestChain)
        txs  == IF Height[start] < height THEN <<>>
                ELSE FlattenSeq([i \in DOMAIN path |->
                        [j \in DOMAIN Vtx[path[i]] |-> <<Vtx[path[i]][j], path[i]>>]])
    IN FoldLeft(LAMBDA v, e : AddToWalletIfInvolvingMe(v, e[1], e[2], fUpdate), w, txs)

\* A slip: the wallet is taken as it is.
pindexRescanAtTip == hashBestChain

\* Where AppInit2 begins to scan: CBlockLocator::GetBlockIndex, or the genesis
\* block with -rescan.
pindexRescan == IF Rescan THEN Genesis ELSE LastCommon(locator, hashBestChain)

\* AppInit2 loads the wallet and scans the blocks it has missed.  The call
\* passes true for the height, so the height is 1 and fUpdate false.
LoadWallet ==
    /\ pc = "idle" /\ stage = "off"
    /\ stage' = "registered"
    /\ IF locator = Null
       THEN locator' = hashBestChain /\ UNCHANGED mapWallet
       ELSE IF Height[hashBestChain] > Height[pindexRescan]
       THEN /\ mapWallet' = ScanForWalletTransactions(mapWallet, pindexRescan, 1, FALSE)
            /\ locator' = hashBestChain
       ELSE UNCHANGED <<mapWallet, locator>>
    /\ UNCHANGED <<nodeVars, backup>>

\* A slip: only what is not in a block is looked at.
SpentElsewhereIgnored(w) == {}

\* The first output of a stake is empty.
FirstPayment(t) == IF t \in CoinStake THEN 1 ELSE 0

\* ReacceptWalletTransactions passes over a coinbase or stake whose first
\* payment is marked.
PassedOver(w, t) == t \in Generated /\ FirstPayment(t) \in w[t].vfSpent

\* ReacceptWalletTransactions: coins the index has as spent and the wallet
\* has not.
SpentElsewhere(w) ==
    {o \in Mine :
        /\ o[1] \in DOMAIN w \cap DOMAIN dbTxIndex
        /\ ~PassedOver(w, o[1])
        /\ dbTxIndex[o[1]].vSpent[o[2]] # Null /\ o[2] \notin w[o[1]].vfSpent}

\* ReacceptWalletTransactions: transactions that are in no block go back to
\* the pool in the order of mapWallet, spent coins are marked,
\* and if there were any the whole chain is scanned for what spent them.
ReacceptWalletTransactions ==
    LET loose == DOMAIN mapWallet \ (DOMAIN dbTxIndex \cup Generated)
        txs   == Those(HashOrder, loose)
        found == SpentElsewhere(mapWallet)
    IN /\ pc = "idle" /\ stage = "registered"
       /\ stage' = "ready"
       /\ pool' = AcceptEach(pool, dbTxIndex, txs)
       /\ \E w \in {FoldLeft(SyncTransaction, Mark(mapWallet, found),
                        PoolCalls(Those(txs, pool'.mapTx \ pool.mapTx)))} :
            mapWallet' = IF found = {} THEN w
                         ELSE ScanForWalletTransactions(w, Genesis, 0, FALSE)
       /\ UNCHANGED <<vars, locator, backup>>

\* backupwallet, and putting the copy back while the node is down.
BackupWallet ==
    /\ pc = "idle" /\ stage = "ready" /\ backup = {}
    /\ Height[hashBestChain] \in BackupAt
    /\ backup' = {<<mapWallet, locator>>}
    /\ UNCHANGED <<nodeVars, mapWallet, locator, stage>>

RestoreWallet ==
    /\ pc = "down"
    /\ \E copy \in backup : mapWallet' = copy[1] /\ locator' = copy[2]
    /\ UNCHANGED <<nodeVars, backup, stage>>

\* Shutdown saves where the chain is.
Shutdown ==
    /\ pc = "idle" /\ stage = "ready"
    /\ Crash
    /\ pool' = EmptyPool /\ stage' = "off" /\ locator' = hashBestChain
    /\ UNCHANGED <<mapWallet, backup>>

\* The process dies after any of the calls of an open batch.
CrashInSync ==
    /\ Crash
    /\ pool' = EmptyPool /\ stage' = "off"
    /\ \E calls \in {IF Running THEN SyncCalls ELSE <<>>} : \E k \in 0..Len(calls) :
        mapWallet' = Told(SubSeq(calls, 1, k))
    /\ UNCHANGED <<locator, backup>>

WalletNext ==
    \/ \E t \in Tx : SyncAccept(t) \/ CommitTransaction(t)
    \/ SyncConnectTip \/ SyncReorganizeTip
    \/ Running /\ (\E b \in Block : ProcessBlock(b) \/ AcceptOrphan(b)) /\ UNCHANGED <<pool, walletVars>>
    \/ (SetGenesis \/ AddToBlockIndex \/ NextInQueue \/ Load) /\ UNCHANGED <<pool, walletVars>>
    \/ FixSpentCoins \/ BackupWallet \/ RestoreWallet
    \/ LoadWallet \/ ReacceptWalletTransactions
    \/ Shutdown \/ CrashInSync

WalletSpec == WalletInit /\ [][WalletNext]_allVars

-----------------------------------------------------------------------------
\* The node is at rest and the wallet has caught up.
Settled == pc = "idle" /\ stage = "ready"

\* Every transaction of the best chain that pays the wallet or spends its
\* coins is in the wallet, whichever crashes and restored copies of wallet.dat
\* came before: it was told in time, or LoadWallet's scan has found it.
WalletKnowsOwn ==
    Settled => \A t \in DOMAIN dbTxIndex :
                  PaysMe(t) \/ Vin[t] \cap Mine # {} => t \in DOMAIN mapWallet

\* No block of the tree is refused once it is indexed, so that a batch is lost
\* by a crash only.  Blocks of a batch that is refused were told of as well: the
\* three properties that follow do not survive one (OffersSpendable).
NeverRefused ==
    /\ BadContext = {} /\ BadConnect = {} /\ WrongPayee = {} /\ Lockable = {} /\ Future = {}
    /\ \A b, c \in Block : SoundLedger(b) /\ Claim[b] <= Subsidy[Height[c]]

\* Where no block is refused, the wallet never offers a coin the best chain has
\* spent: what a batch lost in a crash has unmarked, ReacceptWalletTransactions
\* marks again at the next start.  Of a coinbase or stake that is so only for the
\* first payment, since the others are passed over once that one is marked.
SpentCoinsMarked ==
    Settled /\ NeverRefused => \A o \in Mine :
        o[1] \in DOMAIN dbTxIndex /\ dbTxIndex[o[1]].vSpent[o[2]] # Null =>
            /\ o[1] \in DOMAIN mapWallet
            /\ \/ o[2] \in mapWallet[o[1]].vfSpent
               \/ nCrashes > 0 /\ o[1] \in Generated /\ o[2] # FirstPayment(o[1])

\* Without crashes and refused blocks, the wallet has each of its confirmed
\* transactions in the block that holds it, through any reorganisation.
BlocksFollowed ==
    Settled /\ nCrashes = 0 /\ NeverRefused =>
        \A t \in DOMAIN mapWallet \cap DOMAIN dbTxIndex :
            mapWallet[t].hashBlock = dbTxIndex[t].pos

\* Without crashes and refused blocks, no coin is lost to a stake that left the
\* best chain: a marked coin is spent by a transaction of the wallet that is on
\* the chain or may still get there.
StakesRefunded ==
    Settled /\ nCrashes = 0 /\ NeverRefused =>
        \A o \in Mine : o[1] \in DOMAIN mapWallet /\ o[2] \in mapWallet[o[1]].vfSpent =>
            \E t \in DOMAIN mapWallet :
                o \in Vin[t] /\ (t \in CoinStake => t \in DOMAIN dbTxIndex)

\* AvailableCoins: "Populate vCoins with vector of spendable COutputs": the best
\* chain has spent none of them.  Not kept by the code: Reorganize refunds the
\* coin of a stake it disconnects before it knows whether the new branch
\* connects, and nothing takes the refund back.  README, "Sentences the code
\* does not keep".
OffersSpendable ==
    Settled => \A o \in AvailableCoins :
        o[1] \in DOMAIN dbTxIndex => dbTxIndex[o[1]].vSpent[o[2]] = Null

\* CommitTransaction: "This must not fail. The transaction has already been
\* signed and recorded."
\* Not kept by the code: README, "Sentences the code does not keep".
CommitMustNotFail ==
    [][\A t \in Tx : CommitTransaction(t) => t \in pool'.mapTx]_allVars
==============================================================================
