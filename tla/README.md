# A verification project for Swipp core

TLA+ models of the Swipp node (`src/src/`, C++): the block chain with its
database, the memory pool, the wallet's record of its coins, the relay of
transactions, InstantX, masternode payments, the Darksend pool, the address
manager, and the adjusted time, alerts and sporks. TLC checks each on small
instances; TLAPS proves the main safety properties of each of them for every value
of the constants. Paths below are relative to the repository's
`src/` directory unless they start with `src/`.

## 1. Inventory of the system

| Component | State | Operations | Hard behaviour |
|---|---|---|---|
| Transaction index (`transaction.cpp`, `txdb-leveldb.cpp`) | `tx` records: position and one spent position per output | ConnectInputs, DisconnectInputs, FetchInputs | must equal the best chain after any connect/disconnect history |
| Block chain (`main.cpp`) | block files, block index, `hashBestChain`; in memory `mapBlockIndex`, `pindexBest`, orphan blocks | ProcessBlock, AcceptBlock, AddToBlockIndex, SetBestChain, Reorganize, LoadBlockIndex | several batches per block, crashes, failed reorganisations, orphans, pruning |
| Memory pool (`txmempool.cpp`) | `mapTx`, `mapNextTx` | addUnchecked, remove, removeConflicts, clear, AcceptToMemoryPool | `mapNextTx` holds pointers into `mapTx`; the chain moves under the pool |
| Wallet (`wallet.cpp`, `walletdb.cpp`, `init.cpp`) | `mapWallet` with spent marks, the locator in `wallet.dat`; keys | SyncTransaction, CommitTransaction, rescan, reaccept, repair, backup | told of blocks before they are committed; old copies restored |
| Orphan transactions, inventory (`main.cpp`, `net.h`) | orphans and their index by parent, `mapAskFor` | inv, getdata, tx | children before parents, eviction, peers that never answer |
| InstantX (`instantx.cpp`) | requests, votes, locks, locked inputs | `txlreq`, `txlvote`, DoConsensusVote, CleanTransactionLocksList | votes before requests, conflicts, repeats, expiry |
| Masternodes (`masternode.cpp`, `activemasternode.cpp`) | list, payment votes, cache of block hashes | ping, expiry, ranking, `mnw`, `mnget` | caches against reorganisations, votes that replace votes |
| Darksend (`darksend.cpp`) | session of a mixing pool | queue, entries, signatures, timeouts | several parties and timeouts |
| Addresses (`addrman.cpp`) | tables of new and tried addresses with redundant indexes, `peers.dat` | Add, Good, GetAddr, save, load | full buckets, indexes that must agree, loops that trust them |
| Adjusted time (`timedata.cpp`), alerts (`alert.cpp`), sporks (`spork.cpp`) | samples, alerts, active sporks | `version`, `alert`, `spork`, `getsporks` | boundaries, expiry by a clock that moves back, order of arrival |
| Connections (`net.cpp`) | nodes, sockets | threads | reference counts |
| Staking (`kernel.cpp`), miner (`miner.cpp`) | stake modifier | kernel check, CreateNewBlock | depends on the branch |
| Secure messages (`smessage.cpp`) | buckets of messages | have and want lists | expiry |
| Scripts, keys, hashing, RPC, start-up, Qt, vendored libraries | – | – | not modelled |

How they interact. A block message calls ProcessBlock under `cs_main`. That
writes the block file, then the index record, then connects blocks in database
transactions; while it does, it calls the wallet (SyncWithWallets) and the pool.
CheckBlock consults `mapLockedInputs` of InstantX, the masternode payments and
the adjusted clock. InstantX and the wallet call AcceptToMemoryPool. Alerts
expire by the adjusted clock. `cs_main` serialises the handlers, so interleaving
takes place between whole handlers, between nodes, and, for a crash, between
database batches and between calls of the wallet.

What makes each part correct: the index equals the chain; the tip is the most
trusted connectable block; memory and disk agree whenever control returns to the
message loop; a restart finds a loadable and exact state; the pool's two maps
agree and never hold a double spend; the wallet knows its transactions and never
offers a spent coin; what was announced arrives, and orphans are adopted; a
complete lock is a quorum of different elected masternodes; the furthest
masternode voted for is the one that is paid, and each gets its turn; a mix that
is signed is the mix that was shown; the address tables agree with each other.

## 2. Modules

| Module | What it models |
|---|---|
| `TxIndex` | The block tree, and what connecting and disconnecting a block does to an index; the reference `IndexOf`, `SoundLedger`, stated from the chain alone. No state. |
| `Chain` | The node's chain on disk and in memory. Extends `TxIndex`. |
| `TrustedTip`, `ExactLedger` | Abstract specifications `Chain` implements. |
| `MemPool` | CTxMemPool on its own: its methods in any order. Extends `TxIndex`. |
| `ChainMemPool` | AcceptToMemoryPool against the index, and the pool's part of SetBestChainInner and Reorganize. Extends `Chain` and `MemPool`. |
| `ChainWallet` | Composition: the node with its pool and its wallet. Extends `ChainMemPool`. |
| `Relay` | Announcements, requests, orphans and the pool. Extends `MemPool`. |
| `InstantX` | The messages, the locks and the cleaning thread. |
| `MasternodePayments` | Payment votes between nodes. |
| `DarksendMaster` | The masternode's side of a mix, and its clients. |
| `AddrMan` | CAddrMan. |
| `AdjustedTime`, `Alerts`, `Sporks` | The three small components; `Alerts` extends `AdjustedTime`. |
| `Signals` | Composition of these three. |
| `SeqFilter` | One operator on sequences, for the loops of `ChainMemPool`, `Relay` and `AddrMan` that pass over some elements. |
| `FoldProofs` | Lemmas only: induction over numbers, finite sets and sequences, and what the folds of the community modules compute. Extended by the proof modules below that need them. |
| `ChainProofs` | Theorems about `Chain`: the tip; the algebra of the index and of Reorganize's batch; everything else. |
| `NodeProofs` | Theorems about `MemPool`, `ChainMemPool` and `ChainWallet`. Extends `ChainProofs`. |
| `RelayProofs`, `AddrManProofs`, `DarksendProofs`, `PaymentsProofs` | Theorems about the module of that name. |
| `GossipProofs` | Theorems about `InstantX` and `Signals`. |
| `MCChain`, `MCMemPool`, `MCChainWallet`, `MCRelay`, `MCInstantX`, `MCMasternodePayments`, `MCDarksendMaster`, `MCAddrMan`, `MCSignals` | Instances for TLC. |

### Chain

`blkFile`, `dbBlockIndex`, `dbTxIndex` and `dbHashBest` are the disk;
`mapBlockIndex` (a block's `pnext`), `hashBestChain` (with `pindexBest`),
`mapOrphanBlocks`, `setStakeSeenOrphan` the memory. `pc` says where the thread
that holds `cs_main` is; it stops wherever a batch has just been committed, since
those are the points where a crash makes a difference:

| `pc` | the thread is |
|---|---|
| `down`, `unbootable` | not running, unable to load its database |
| `idle` | between messages |
| `AddToBlockIndex` | in AcceptBlock, the block file written |
| `SetBestChain` | the index record written |
| `ConnectPostponed` | Reorganize committed, further blocks to connect |
| `orphans` | in ProcessBlock's loop over the orphans of accepted blocks |

A database transaction is a record built with folds over the blocks to disconnect
and connect, so that a batch is all or nothing as in the code. A block is its
parent, its trust, its transactions, its time, its stake and membership in the
sets of blocks a check refuses: `BadContext` (AcceptBlock), `BadConnect`
(ConnectBlock), `WrongPayee` (CheckBlock, only on top of the tip). The reward is
compared with the subsidy at the height of `pindexBest`, as the code does.
`Claim` is what a block mints beyond the addend the caller hands to the reward
function.

Abstractions: all block sizes are one, so the limit of the holding area counts
blocks. A position on disk is the block it lies in. LoadBlockIndex checks blocks
of the best chain again; of what it checks, only the clock can change between two
starts. The InstantX and clock actions (`LockInput`, `UnlockInput`,
`ClockChange`) are the environment of CheckBlock, more liberal than
`instantx.cpp`. A block file write and an index write are assumed to succeed;
failures of the disk are not modelled.

`TrustedTip` says of the tip on disk alone that it is empty, then the genesis
block, then moves only to more trust, or back to an ancestor when a start finds
blocks it no longer accepts. `ExactLedger` adds that the index changes in the
same atomic step to what the new branch determines, and that the branch is sound.
The refinement mapping takes `dbHashBest` for the tip and `dbTxIndex` for the
index (`Tip` and `Book` in `Chain`).

### MemPool and ChainMemPool

`pool` is a record of `mapTx` and `mapNextTx`. The recursion of `remove(tx, true)`
is stated as the least closed set of descendants. Fees, priority and standardness
are left out of AcceptToMemoryPool; every transaction of the model passes them.
A step of `Chain` that moves the tip on disk changes the pool in the same step,
as SetBestChainInner and Reorganize do before they return.

### ChainWallet

`mapWallet` gives each transaction its block and its spent marks; it is what
`wallet.dat` holds, since every change is written at once, and a write survives a
crash of the process. `locator` is the file's `bestblock` record, `backup` a copy
of the file, `stage` how far AppInit2 has come: `off`, `registered` (scanned,
told of blocks, saving locators) or `ready` (transactions accepted again). `SyncCalls` is the
sequence of SyncWithWallets calls a step of SetBestChain makes: those of the
blocks disconnected and connected, up to the first block that fails; they are
made although the batch is dropped. `CrashInSync` may stop after any of them.
LoadWallet, ReacceptWalletTransactions and FixSpentCoins are init.cpp's scan, the
repair at start and the command `repairwallet`.

Abstractions: keys are the set `Mine` of outputs that pay to them. The tree is
lower than ten blocks, so a locator names every ancestor. `repairwallet` runs
only between messages, although it is marked threadSafe.
ScanForWalletTransactions skips blocks older than the wallet's birthday; the
wallet is older than the chain.

### Relay

The chain is the set of confirmed transactions, which grows by itself. `askFor`
is `mapAskFor`, without its times: a request that is due may be sent, and that
the second peer's is due two minutes after the first's is an order the model need
not keep. A `tx` may come unasked. Adoption of orphans is the whole loop over
`vWorkQueue`, in the order of hashes; LimitOrphanTxSize evicts any orphan.

### InstantX

Every handler is one action. A transaction is its hash and its inputs; a vote is a
masternode, a transaction and a height. Decisions of other components are inputs
of the action: the height a lock is bound to (0 when the inputs are too young),
whether the list knows this masternode, which masternodes are elected. Three
details of the code matter and are kept: a vote's hash has no height, a vote is
stored before it is checked, and reading `mapTxLockReq[hash]` inserts an empty
transaction. `mapTxLockReq` therefore maps to the inputs of what is stored, the
empty set included.

### MasternodePayments

Each node has a tip, the cache `mapCacheBlockHashes`, its winners and the votes it
has seen. Votes travel as `inv`, `getdata` and `mnw`, in any order, and by `mnget`.
`Score` is CalculateScore. The cache keeps the off-by-one of GetBlockHash (key
`h` holds the hash of height `h - 1`) and its key for height 0. The list of the
payments master changes by an action of the environment (`ListChange`): the
masternode messages and their ages are not modelled.

### DarksendMaster

A client mixes one coin; its attempts have fresh outputs and collaterals. A
signature is the set of outputs it commits to. Time is left out: a timeout may
strike whenever the state it guards lasts. Details of the code that are kept:
SetNull after a failure leaves the session number; a refused entry costs the
session a user, whoever sent it; the branch of CheckTimeout that resets a queue
leaves the entries; ChargeFees charges the first offender whatever its random
number; the ERROR state cannot be entered by a masternode, since UpdateState
refuses it there; a client that joins once entries are taken gets no ready `dsq`;
`completedTransaction` is never set back, which has no effect on the master.
SignatureValid never fails for a signature of a coin in the pool. Left out: the
client's choice of coins and the wallet's locks on them.

### AddrMan

One record holds the tables. Private methods are functions from tables to tables,
or to the set of tables chance allows. An entry is named by its address. Times and
attempts feed only decisions that may go either way, so Attempt, Connected and
Select change nothing. SelectTried keeps a peculiarity of the code: it remembers
the position an entry was taken from, and the entry has been swapped away from it
by then, so that what is evicted need not be the least recently connected entry.

### AdjustedTime, Alerts, Sporks, Signals

`AdjustedTime` is AddTimeData with its filter, whose size, minimum and limits are
scaled down; the sorted copy the filter keeps is stated by rank (`Ranked`).
`Alerts` is ProcessAlert for alerts with a good signature. `Sporks`
is ProcessSpork, UpdateSpork and `getsporks` between nodes. `Signals` composes
them: alerts expire by `clock + nTimeOffset`, which a new peer may move back.

## 3. Runs

| Run | Instance | Shows |
|---|---|---|
| `chain_reorg` | 10 blocks, three branches that spend the same outputs, a double spend, spends from another branch, a branch whose last block fails; holding area of 2; fairness | Chain implements ExactLedger; tip most trusted, links right, trust grows, holding area bounded and free of usable blocks; the node ends on the best branch |
| `chain_transient` | 8 blocks, with locks, a clock that jumps, a wrong payee, invalid blocks, a kernel used twice, holding area of 1, 2 crashes | Chain implements TrustedTip; links in memory and on disk agree after every step, failed ones included; indexed blocks are stored; no stake mark is left behind; the only fatal crash is inside the very first start |
| `mempool` | 9 transactions that conflict and depend on each other | both maps agree, conflicts go with their descendants |
| `node` | 7 blocks on two branches, a stake, a payment that is on both, a crash or shutdown anywhere (in the middle of the wallet's calls too), a copy of `wallet.dat` that may be restored | what is loaded after a crash is exact; no confirmed transaction in the pool, nothing lost in a reorganisation; the wallet knows its transactions and their blocks, offers no spent coin, and gets the coins of a lost stake back |
| `relay` | 7 transactions, orphans of two generations, one peer that never answers, room for 2 orphans; fairness | orphans and their index consistent, adoption complete, what was announced arrives |
| `instantx` | 2 conflicting transactions, 2 masternodes, both required, one of them this node | distinct votes, quorum, no handing over |
| `payments` | the payments master and another node, 2 branches, 2 masternodes of which at most one is away (`MaxAway` 1) | one winner per height, the furthest weighed; a steady masternode is paid at least once in two cycles |
| `darksend_master` | 3 clients, 2 to a mix, one with another denomination, up to 2 attempts; fairness | what is signed is what was entered in this session; signatures are for it; no client holds the pool up |
| `addrman` | 4 addresses, 3 new buckets of one entry, a tried bucket of 2 | all tables agree after any sequence of calls and restarts |
| `signals` | 7 clocks, 5 alerts, 3 sporks between 2 nodes; fairness | a minority does not set the time; no cancelled alert is kept; superseded sporks stay out and new ones spread |

Violation runs, each a disagreement between the code and a sentence in it
(`findings` of PROJECT.json quotes them):

| Run | What happens |
|---|---|
| `payments_agree` | A further vote for a height replaces the first on the payments master, is announced, and is not found when it is asked for: the other node demands another payee. |
| `wallet_rescan` | With `-rescan` the scan ends at the genesis block, because `true` is taken for a height; what a restored wallet lacks is not found, and the locator says it was. |

### Sentences the code does not keep

Properties that the models state and that fail in them, as the code is; each
fails within seconds when it is added to the cfg of the instance named. They are
kept as definitions so that a fix can be checked.

| Definition | Instance | What happens |
|---|---|---|
| `TipIsOnDisk` | `chain_transient` | A postponed block fails after the reorganisation was committed; memory makes it the tip all the same, the disk does not. |
| `OrphansWaitForParent` | `chain_transient` | A block is indexed, fails to connect, and its orphans stay in the holding area. |
| `MintsBySchedule` | `chain_transient` | A reorganisation over the end of a subsidy era pays the subsidy of the old tip's era. |
| `PoolValid` | `node` | A block on the tip leaves the transactions it double spends in the pool. |
| `CommitMustNotFail` | `node` | A transaction that is connected again on another branch has its outputs unmarked, though a pending transaction spends them; the wallet spends them once more and the pool refuses. |
| `OffersSpendable` | `node` with `BadConnect = {"b2"}` and no crashes | Reorganize tells the wallet of the blocks it disconnects and connects before it knows that all connect. When a block fails the batch is dropped and the calls stand: a stake of the chain that stays is refunded in the wallet, and its spent coin offered again. |
| `HeldUntilExpired` | `instantx` | Cleaning one lock releases an input another fresh lock holds. |
| `ConflictsCancel` | `instantx` | Votes before the request: two complete conflicting locks stand. |
| `LockedInputsExpire` | `instantx` | Inputs are locked without a lock, and never released. |
| `OnlyAbusersFined` | `darksend_master` with `Denom <- OneDenom` | A late entry of an earlier session costs the present one a user; the entry of a punctual client is then refused, and the client fined. |

In the wallet, after a crash a confirmed transaction may bear the block of the
batch that was lost, and the coin of a stake that was told of and never connected
stays marked until `repairwallet`; BlocksFollowed and StakesRefunded are
therefore stated without crashes. A reorganisation that is refused leaves the same
traces in a process that goes on, and no start repairs them: these two and
SpentCoinsMarked are stated for trees of which no block is refused
(`NeverRefused`), and OffersSpendable shows the other case. ReacceptWalletTransactions passes over a
coinbase or stake whose first payment is marked, and so may leave another payment
of it unmarked after a crash: SpentCoinsMarked then excepts the payments but the first. A copy of `wallet.dat` whose
locator is the genesis block is scanned no better than with `-rescan`.
In `Relay`, an orphan whose parents come in a block is not adopted then, and since
AlreadyHave counts orphans it is not asked for again either; AnnouncedArrives
says only that it reached the node. In `Sporks` an older spork that is new to the
node replaces a newer one; no text promises otherwise. In `Alerts` an alert whose
nCancel reaches the reserved number removes the alert of a compromised key,
because cancelling comes first; CompromiseIsFinal is about what is kept beside it.

### Bounds, and why they are enough

The trees have the shapes that matter: a branch that overtakes with its last
block, one that overtakes by two so that blocks are postponed, a reorganisation
back, one that fails at its last block, a spend of what only the other branch has,
a spend within a block. Blocks arrive in every order and any number of times.
`MaxCrashes` of 2 in `chain_transient` lets a crash happen during the recovery
from one. With transient failures or invalid blocks a crash leads to the state of
the first line of the table above, so TxIndexExact and TipIsOnDisk are claimed
under crashes only where every block connects (`node`). `MaxOrphanBlocks` of 1 or
2 makes pruning happen with orphans that have children. Maturity is 1, so that an
output is immature at its own height and mature above. In `node` one crash is
enough for every point the wallet may be left at, and `BackupAt` of height 1 makes
a restored copy miss blocks of either branch; every block connects (NeverRefused), so
a batch is lost by a crash and not by a refusal. A locator is saved for every block
(`LocatorEvery` 1), the case that lets the scan skip most.

In `instantx` the clock (`MaxTime` 2 with `Expiration` 1) lets a lock expire and be
made again, and one masternode is elected for height 0 as well, so that votes for
another height occur. In `payments` the distances of the code (576, 10, 10, 20)
are scaled down with their order kept, as PaymentsAssumption says. Its constraint
follows both nodes over few blocks, or the payments master alone over enough
blocks for two payment cycles: NoneStarves is about the master alone. In `signals`
the three components are independent but for the clock, so the constraint follows
alerts with up to four clocks, seven clocks alone (one more than the filter
holds), and sporks alone; a step that leaves the constraint is never one of the
fair actions, so the liveness property is not affected. In `addrman` all buckets
are small enough to be full at once, with one address more than a tried and a new
bucket hold; addresses are a symmetry set, sound because only safety is checked.
In `darksend_master` two attempts of a client make late messages of an earlier
session meet a later one.

Deadlock checking is off where a run ends by its bounds: no more blocks, crashes,
attempts or time. In `chain_*` the state `unbootable` really is an end.

### Fairness

* `chain_reorg`: the thread that holds `cs_main` goes on (it never waits while it
  holds the lock), and a block that ProcessBlock would take is offered again in
  the end. The second is what getblocks on every orphan, the inventory of new peers
  and AskFor with its retries provide as long as some peer has the block. There
  are no crashes in that run, and no block above an invalid one. After a crash
  between the index record and the connect, a better branch stays unconnected until
  a further block of it arrives, so nothing of the kind is claimed with crashes.
* `relay`: the message thread visits every peer again and again, so requests that
  are due are sent; peers of `Honest` answer. Nothing is assumed of the others.
* `darksend_master`: the pool's thread keeps calling CheckTimeout. Nothing is
  assumed of the clients.
* `signals`: the message thread handles what has arrived; between these nodes
  messages are not lost.

### Mutants

Each property of a passing run has a mutant, a definition changed as a plausible
slip would change it (`\* A slip:` in the modules), which makes it fail.

## 4. Proofs

Eight modules hold proofs. What they state is listed under `theorems` of
PROJECT.json; the runs above check the same properties on small instances, and
each inductive invariant below was checked by TLC on the run of its component
before it was proved.

### The chain: `ChainProofs`

For any block tree, any sets of blocks the checks refuse, any locks and clock,
and any number of crashes. Without further condition:

* `TipAlwaysGrows`: TrustGrows, for every commit SetBestChain makes.
* `BlocksAlwaysStored`: IndexedBlocksStored.
* `OnlyFirstStartIsFatal`: UnbootableOnlyAtGenesis.
* `ChainImplementsTip`: the specification implements TrustedTip.
* `ChainTypes`: TypeOK. `MemoryMirrorsDisk`: LinksMirrored.
* `MarksStayBacked`: StakeMarksBacked. `HoldingAreaStaysBounded`.

On a condition that is itself a state predicate, stated in the theorem:

| Theorem | Property | Condition, at all times |
|---|---|---|
| `TipStaysOnDisk` | TipIsOnDisk | `PostponedBlocksConnect`: the next postponed block connects |
| `IndexStaysExact` | TxIndexExact | TipIsOnDisk |
| `LinksStayOnBestChain` | LinksFollowBestChain | TipIsOnDisk |
| `ChainImplementsLedger` | ImplementsLedger | TipIsOnDisk |
| `HoldingAreaStaysSound` | HoldingAreaSound | `ParentsConnect`: no block fails to connect while an orphan waits for it |
| `NoBetterBranchMissed` | TipIsMostTrusted | TipIsOnDisk; `StateChecksPass`: CheckBlock and the reward pass for the blocks of the branch SetBestChain looks at; `NeverCrashed` |

The conditions are those the code needs: without them the properties fail on
`chain_transient` (see "Sentences the code does not keep"), and after a crash a
better branch waits for its next block. They are not vacuous: TLC finds
PostponedBlocksConnect, ParentsConnect, StateChecksPass and TipIsOnDisk true in
every state of `chain_reorg` and of `node`, where reorganisations, postponed
blocks, orphans and, in `node`, crashes all happen.

*ChainInv.* None of the first three properties is inductive.
`ProgramTypes` gives the types of what is needed. `FileFirst` adds to
IndexedBlocksStored that the block AddToBlockIndex is about to index is already
in a file. `GenesisFirst` says that until the genesis block is the tip on disk
nothing else is indexed and the program is still loading; it is what leaves only
the first start to LoadFails. `TrustOrder` relates the two tips: memory is never
behind the disk outside the postponed connects (when a postponed block fails it
may be ahead), a block in SetBestChain beats the tip in memory, and while postponed
blocks are connected the tip on disk is an ancestor of the new block and the
blocks left are the path up from it. Then the block Reorganize goes to beats the
tip because its child was postponed (`IntermediateBeatsTip`), and each postponed
block is the child of the tip on disk (`PathUpStep`). What these need of the tree
is proved from `Lineage`, which is written as a least closed set so that
induction along `pprev` is an instance of its definition (`LineageInduction`).
The contents of a batch do not matter to these. The refinement of TrustedTip adds
one invariant, `LoadGoesBack`: a block LoadBlockIndex is about to go to is an
ancestor of the tip on disk.

*The algebra of the index.* `ConnectExact`: what `Connected`
makes of `IndexOf(Prev[b])` is `IndexOf(b)`, if the inputs connect; `ConnectKeepsSound`:
the ledger then is sound. `DisconnectExact`: `Disconnected` takes it back, and
`InputsDisconnect` cannot fail. They need that a transaction is in one block of a
branch (`OneBlockPerTx`): it spends something, and the ledger spends nothing
twice, or it is a coinbase, and AcceptBlock demands the height in it (the
assumption `Coinbases`). Reorganize's batch is two folds over sequences of blocks.
The library's induction theorems take a predicate, which the provers cannot
instantiate, so induction is done with sets: a set of numbers that holds 0 and is
closed under one step holds all (`NatSetInduction` of `FoldProofs`, from the least element of a
nonempty set). With it the function a fold is defined by is shown to exist
(`SetFold`), a fold is the last of a sequence of batches (`FoldConnect`,
`FoldDisconnect`), and `DisconnectPath`, `ConnectPath` and `ReorganizedIs` follow:
the batch of Reorganize fails, or holds the index and the links of the new branch.
`ReorganizeSucceeds` is the converse: along a connectable branch it does not fail.

*IndexInv, ExactInv and the rest.* `IndexInv` is what the
types need: indexed blocks have indexed parents and were let through by
AcceptBlock, memory mirrors the disk, orphans and the index are apart, queued
blocks are indexed. `ExactInv` says that index and links are those of the tip on
disk, and that a block being added meets the same tip in memory; the second is
where TipIsOnDisk comes in, since a batch is built on the disk for the tip in
memory. `TipInv` extends TipIsOnDisk to the middle of SetBestChain. `QueueInv`
says that an orphan whose parent is indexed is one the work queue will come to.
`BestInv` says that no connectable indexed block beats the tip but the one
SetBestChain is looking at. One lemma for each action states its effect
(`ExtendEffect`, `ReorganizeEffect`, `PostponedEffect`), and the invariants are
proved from those.

### The pool and the node: `NodeProofs`

The class alone, for any transactions:

* `PoolAlwaysExact`: PoolTypeOK and NextTxExact always hold. Their conjunction is
  inductive. `addUnchecked` needs NoConflict, without which it would overwrite
  another transaction's entry; `Erase` removes entries by outpoint, and exactness
  before the step says that each belongs to a transaction being erased.
* `PoolNeverDoubleSpends`: follows from exactness, since `mapNextTx` is a function.
* `ConflictsGoWithChildren`: ConflictsLeaveNoChild. Exactness makes `mapNextTx` find
  every conflict and every spender, and the descendants are closed under spenders
  (`DescendantsClosed`).

The pool in the node, for any block tree, any transactions and any crashes:

* `NodeRunsChain`: WalletSpec implements `Spec` of `Chain`, so that every theorem
  of `ChainProofs` holds in the composition.
* `PoolStaysUnconfirmed`: PoolNotConfirmed. `NodePoolStaysExact`: NextTxExact and
  NoPooledDoubleSpend, with the chain, the wallet and restarts driving the pool.

`NodeInv` says that the pool is well formed and exact and that nothing of it is in
the index, at every step and not only at rest. The hard step is Reorganize: it
accepts the transactions of the old branch against the new index, then removes
those of the new branch. The pool after each is a fold over transactions; what the
folds do is stated by `FoldAccept`, `FoldRedundant` and `FoldRemove`, and together by
`PoolAfterLoops`: nothing is added that the new index holds, and nothing is left
that a connected block holds. The rest is that a step adds to the index only
transactions of the blocks it connects.

The wallet in the node:

* `WalletKnowsItsOwn`: WalletKnowsOwn, while TipIsOnDisk and `ScanReaches` hold. The
  second says that a scan after an older copy of `wallet.dat` was put back does
  not begin at the genesis block; that it is needed is what `wallet_rescan` shows.
* `BlocksAreFollowed`, `StakesAreRefunded`: BlocksFollowed and StakesRefunded,
  without further condition. The properties themselves speak of trees of which no
  block is refused, and of the time until the first crash or shutdown.
* `SpentCoinsAreMarked`: SpentCoinsMarked, for trees of which no block is refused,
  through crashes, restarts and restored copies, while ScanReaches holds (TLC finds
  it true in every state of `node`).

`Remembers` is the invariant: the wallet knows its own transactions up to the block
of its locator, and so does the copy; it knows those of the whole best chain while
it is registered, or as long as no older copy exists. `Started` says what can move
before the wallet is registered: only the first start. A transaction is the
wallet's by an output, or by an input the wallet must already know of. That it is
recognised needs order: SoundLedger puts what a block spends before it, so a wallet
that knows a branch and is told of the blocks above it in their order learns each
of its own (`LearnsBranch`). The calls of a step of SetBestChain are in that order
(`SyncCalls`), and so are those of the scan, from the last block the locator and
the tip have in common. A crash among the calls, or a batch that is refused, does
no harm here, since a call only ever adds to what is known.

For blocks and marks the order of the calls is not enough: a call of one branch may
undo what a call of the other did. Two facts about a step of SetBestChain settle it.
Its connects and disconnects are a `Trip` from the old tip to the new: all the
blocks of the old branch above the common ancestor, tip first, and then those of
the new one (`MovesTrip`). And its calls `Report` the trip: each call that names a
block is for a transaction of a block of the new branch, in order; a disconnected stake is told
of as one taken off; whatever else is told has no block. `Follows` says what one call does to one entry
(`SyncFollows`: its block, and which marks it may set and take away), `HearingFrom`
where a block or mark found after all of them came from. `TripPlaces`, `TripBacks`
and `TripMarks` combine these: a block found afterwards is that of the last call
that named one, which is the right one since a transaction is in one block of a
branch; a mark has a spender that is still in the wallet, and not by a stake that
was taken off; a coin the new branch spends is marked by the call of its spender,
and the calls that reset an entry's marks, those of its own block, all come before
it. `Heard` is the invariant: until the first crash the wallet is exact for
the tip on disk in both respects, and from each start on it has marked what the
branch spends. A crash may leave anything; `SpentElsewhere`, in
ReacceptWalletTransactions, is shown to restore the marks but those of the
transactions it passes over (`ReacceptHears`). That no batch is refused is used where
the calls are made before the batch is known to succeed (`AllConnect`).

### `AddrManProofs`, for any addresses, sources, buckets and random choices

* `TablesStayConsistent`: TablesConsistent.
* `TriedAreKept`: TriedNeverDeleted, an action property.
* `RestartIsExact`: RestartKeepsTables, an action property.

TablesConsistent relates the reference counts, the two counters, the buckets and
`vRandom`. It does not hold in the places where it matters: between the private
methods that Good_ and Add_ are made of. `TablesInv` therefore has a parameter, the
references already counted and not yet placed in a bucket, and each private method
is proved to keep it or to settle what is owed. MakeTried has two middles with
predicates of their own: the entry has left the new buckets (`LeftNew`), and the
evicted entry of the tried bucket is on its way back to one (`Moving`). An eviction
would lose an address in a new bucket without room for it; ShrinkNew makes the
room (`RoomKeeps`, `EvictKeeps`), which is what TriedAreKept rests on. For a restart,
`UnserializeRestores` says that the buckets read back are those written, although
the entries are numbered afresh.

### `RelayProofs`, for any transactions, peers and eviction choices

* `OrphansStayConsistent`: OrphansConsistent.
* `AllGenerationsAdopted`: OrphansAdopted, an action property: after the loop no
  orphan is held of which a parent has just been accepted and no input is missing.

The loop over `vWorkQueue` is a recursive function of the rounds left. `LoopInv`
says of the part of the queue already walked that an orphan with a parent in it
is erased, misses an input, or has another parent further on in the queue, which
will come to it again (`ServedBy`). The last is why one pass is enough, although an orphan with two
parents is tried at the first. That the rounds suffice is by counting: each
transaction enters the queue once, so the queue injects into the orphans.

### `GossipProofs`: InstantX, for any masternodes, elections, quorum size and expiry

* `VotesAlwaysDistinct`: IXTypeOK and VotesDistinct. The second says more than
  that votes differ: each is still in `mapTxLockVote`. That is what makes it
  inductive (a vote that comes again is turned away), and the crux is cleaning:
  votes are forgotten only together with the lock that holds them.
* `CompleteAlwaysQuorum`: votes for the lock's height are mapped to their
  masternodes, one to one by the theorem above, so CountSignatures counts
  masternodes.
* `InputsNeverHandedOver`: an action property, from the types alone.

### `GossipProofs`: the signals, for any alerts, sporks, nodes, samples and filter

* `AlertsStaySound`: AlertsSound. Not inductive: an expired alert cancels nothing,
  and the adjusted time may move back. `AlertInv` says of any two alerts that
  neither names the other as cancelled, in effect or not; that holds because what
  has expired leaves the map before a new alert is weighed.
* `SupersededNeverReturns`: an action property, from `SporkInv` (whatever is seen,
  active or under way was signed, and has its types).
* `TimeStaysSound`: TimeSound. `TimeInv` says that the offset is 0 or the median of
  the samples it was computed from. The median is the value of its rank
  (`Ranked`), which exists (`RankExists`) and which a majority between two bounds
  keeps between them (`MajorityKeepsMedian`), by counting.

### `DarksendProofs`, for any clients, attempts and places in a mix

* `SessionStaysConsistent`: SessionConsistent.
* `SignaturesStayCurrent`: SignaturesAreCurrent.

That signatures are current rests on what is under way, since the pool's own
check of the session number does not tell sessions apart. `PoolInv` is about the
pool: no signature and no final transaction before signing; entries a timeout
left behind stay only while no user is counted. `OrderInv` is about each client:
its attempts reach the pool in order; an entry under way is newer than all that
reached the pool; a signature under way is for a final transaction that holds the
client's newest entry, and no entry is under way before it; an entry is in one
final transaction only. Together they say that a signature that arrives while its
client has an entry in the pool is for the transaction that entry is in.

### `PaymentsProofs`, for any nodes, masternodes, branches, scores and distances

* `WinnersStaySound`: WinnersSound. `NodeSound` says of each node that a winner's
  block is cached (so that later votes for its height are scored with the same
  block, wherever the chain has gone), that no vote weighed for the height is
  further, and that a vote that was weighed has its winner for as long as "mnw"
  would take another vote for its height. The last is needed where a height is
  opened anew: CleanPaymentList has then removed its winner, and the height must
  be out of range, which is what `Behind < KeepPaid` of the constants gives. That
  GetBlockHash always finds a block (`HashFound`) needs the chain to be longer
  than Lag (`ChainAssumption`).
* `NobodyStarves`: NoneStarves, for at most two masternodes missing from the list
  at a time (`MaxAway`) and while every block extends the best chain. LastPayments
  looks back as many winners as the list is long, and one more. `TurnInv` says of
  every steady masternode m and every later winner that m is among the last N + 1
  winners before it, or that this winner is not among the last N - MaxAway + 1 (it
  was chosen because it had not been seen). A window of two cycles without m would
  then hold more different winners than there are other masternodes, which counting
  refutes. The bound on absences is needed: with five masternodes of which three are
  missing at each vote, and not the same three, a masternode that never leaves may
  wait for ever, since those that come back are taken for unpaid. The attempt to
  prove NoneStarves without it found that schedule, and TLC confirmed it.

### Assumptions

The named ASSUMEs of the modules, which TLC evaluates in the runs of the modules
that extend them. `BlockTree`, `Transactions`, `ChainConstants`, `Estimate`,
`WalletConstants`, `AddrManConstants`, `IXConstants`, `AlertAssumption`,
`SporkAssumption`, `TimeAssumption`, `MaxTxAssumption`, `AttemptsAssumption`,
`ScoreAssumption` and the four of `Relay` say what the constants are. `PrevEnds`: following `pprev` ends,
so that `Height` and `ChainTrust` obey the recursion that defines them.
`Coinbases`: AcceptBlock's height in the coinbase (`main.cpp:2201`). `UniqueTxs`:
CheckBlock's "duplicate transaction" (`main.cpp:2092-2102`).
`PaymentsAssumption`: the order of the distances 10, 10, 20, 576 and of what
CleanPaymentList keeps. `ChainAssumption`: the chain the first vote is made on is
longer than Lag; ProcessBlock is called only past the initial block download and
above the last checkpoint (main.cpp:2425).

### Only model-checked

Liveness under fairness (ReachesBestChain, AnnouncedArrives, SporksSpread,
SessionsEnd), which the prover does not do. NothingLost, the action property that
says which transactions of a lost branch the pool takes back: it relates the fold of
Reorganize's AcceptToMemoryPool calls to what each of them finds spendable, on the
pool the ones before it have made.

## 5. Plan

1. Further proofs: NothingLost, from `PoolAfterLoops` of `NodeProofs`.
2. The masternode list (`dsee`, `dseep`, ages) in place of `ListChange`;
   `InstantX` composed with `Chain`, CheckBlock on the real `mapLockedInputs`.
3. CreateNewBlock over pool and index; the stake modifier as a pure algorithm.
4. Secure messages; reference counts of connections; key pool and coin selection.
5. A variant of Crash that loses batches that were not synced.

### Not modelled

Scripts, keys and hashing are data: the models use their verdicts. RPC and Qt are
front ends that parse, call and format. Vendored libraries (LevelDB, secp256k1,
LZ4, xxHash, JSON) are used as the code uses them; a LevelDB batch is atomic.
`qt/locale/*.ts` are the translations of the user interface, tables of texts
without behaviour, although their file type makes them count as most of the lines
of the repository. A power failure that loses unsynced batches, disk errors,
`repairwallet` running beside SetBestChain, and the amounts of rewards (the
reward functions are called with their arguments in another order, hazard at
main.cpp:1425) are outside the models too.
