------------------------------ MODULE InstantX ------------------------------
(***************************************************************************)
(* InstantX (instantx.cpp): requests to lock the inputs of a transaction,  *)
(* the votes of the masternodes on them, the locks they add up to, and     *)
(* mapLockedInputs, which CheckBlock consults to turn a block away.        *)
(*                                                                         *)
(* Two threads change these maps and no lock is common to them: the thread *)
(* of the messages runs "txlreq" and "txlvote" without cs_main, and the    *)
(* cleaning thread runs CleanTransactionLocksList under cs_main.  Each is  *)
(* a program of steps here: `at` is the place of the handler and `cat` that*)
(* of the cleaner, and a step is one access to a map that the other thread *)
(* changes too.  A step that tests an entry for absence and inserts it is  *)
(* one step: only the handler inserts.                                     *)
(*                                                                         *)
(* A message the code drops without a change of state (lite mode, the spork*)
(* off, IsIXTXValid or a script refusing the transaction) is a stuttering  *)
(* step.  A transaction is its hash and its inputs; a vote is a masternode,*)
(* a transaction and a height.  What other components decide is an input   *)
(* of the action: the age of the inputs and so the height of the lock (0:  *)
(* too young), whether the masternode is in the list with a good signature,*)
(* and what else keeps a transaction from the pool.                        *)
(***************************************************************************)
EXTENDS Integers, Sequences, FiniteSets, Functions

CONSTANTS
    Tx, Outpoint,
    NoTx,           \* the hash 0 of a default entry
    Vin,            \* Tx -> the outpoints it spends, in order
    Masternode,
    Me,             \* this node's masternode, or something else if it is none
    Height,         \* the heights a lock may be bound to
    Elected,        \* height -> masternodes of rank <= INSTANTX_SIGNATURES_TOTAL
    Required,       \* INSTANTX_SIGNATURES_REQUIRED
    Expiration,     \* the hour a lock is kept
    VoteWindow,     \* the ten minutes of mapUnknownVotes
    MaxTime         \* bound of the clock

ASSUME IXConstants ==
    /\ NoTx \notin Tx
    /\ Vin \in [Tx -> Seq(Outpoint)]
    /\ Height \subseteq Nat \ {0}
    /\ Elected \in [Height \cup {0} -> SUBSET Masternode]
    /\ IsFiniteSet(Masternode)
    /\ Required \in Nat \ {0}
    /\ Expiration \in Nat /\ VoteWindow \in Nat /\ MaxTime \in Nat

VARIABLES
    now,                    \* GetTime()
    mempool,                \* the transactions of Tx in the memory pool
    mapTxLockReq,           \* hash -> the inputs of the stored transaction, <<>>
                            \* if operator[] made a default one
    mapTxLockReqRejected,   \* hashes
    mapTxLockVote,          \* keys of the votes seen
    mapTxLocks,             \* hash -> CTransactionLock
    mapLockedInputs,        \* outpoint -> hash
    mapUnknownVotes,        \* masternode -> time
    at,                     \* the place of the thread of the messages
    job,                    \* its message
    todo,                   \* the inputs its loop has yet to visit
    cat,                    \* the place of the cleaning thread
    doomed,                 \* the lock it removes
    release,                \* the inputs its loop has yet to release
    next, last              \* the range of votes its loop has yet to forget

maps == <<mempool, mapTxLockReq, mapTxLockReqRejected, mapTxLockVote,
          mapTxLocks, mapLockedInputs, mapUnknownVotes>>
handler == <<at, job, todo>>
cleaner == <<cat, doomed, release, next, last>>
ixVars == <<now, maps, handler, cleaner>>

-----------------------------------------------------------------------------
\* CConsensusVote::GetHash sums the masternode and the transaction: the height
\* is not part of a vote's identity.
GetHash(m, t) == <<m, t>>

\* CTransactionLock, as CreateNewLock and ProcessConsensusVote start one, and
\* as operator[] makes one.
NewLock(t, h) == [txHash |-> t, nBlockHeight |-> h, vecConsensusVotes |-> <<>>,
                  nExpiration |-> now + Expiration]
DefaultLock == [txHash |-> NoTx, nBlockHeight |-> 0, vecConsensusVotes |-> <<>>,
                nExpiration |-> 0]

\* A slip: every vote of the lock counts.
CountAnyHeight(lock) ==
    IF lock.nBlockHeight = 0 THEN -1 ELSE Len(lock.vecConsensusVotes)

\* CTransactionLock::CountSignatures: the votes for the height of the lock.
CountSignatures(lock) ==
    IF lock.nBlockHeight = 0 THEN -1
    ELSE Cardinality({i \in DOMAIN lock.vecConsensusVotes :
                        lock.vecConsensusVotes[i].nBlockHeight = lock.nBlockHeight})

Complete(t) == t \in DOMAIN mapTxLocks /\ CountSignatures(mapTxLocks[t]) >= Required

\* m[k] = v of a std::map, and insert(), which leaves a present key alone.
Assign(m, k, v) == [x \in DOMAIN m \cup {k} |-> IF x = k THEN v ELSE m[x]]
Insert(m, k, v) == IF k \in DOMAIN m THEN m ELSE Assign(m, k, v)

\* erase()
Without(m, k) == Restrict(m, DOMAIN m \ {k})

\* The map of locks for an assignment through operator[]: a lock that has been
\* erased since it was looked up is there again, empty.
WithLock(t) == Insert(mapTxLocks, t, DefaultLock)

NoJob == [tx |-> NoTx, mn |-> Me, height |-> 0, vote |-> FALSE, holder |-> NoTx]

\* The handler goes on to its next place, or returns.
Goes(place) == at' = place /\ UNCHANGED <<job, todo>>
Returns == at' = "idle" /\ job' = NoJob /\ todo' = <<>>

-----------------------------------------------------------------------------
IXInit ==
    /\ now = 0
    /\ mempool = {}
    /\ mapTxLockReq = <<>>
    /\ mapTxLockReqRejected = {}
    /\ mapTxLockVote = {}
    /\ mapTxLocks = <<>>
    /\ mapLockedInputs = <<>>
    /\ mapUnknownVotes = <<>>
    /\ at = "idle" /\ job = NoJob /\ todo = <<>>
    /\ cat = "idle" /\ doomed = NoTx /\ release = <<>> /\ next = 1 /\ last = 0

-----------------------------------------------------------------------------
(* "txlreq".                                                               *)

NewRequest(t) == t \notin DOMAIN mapTxLockReq /\ t \notin mapTxLockReqRejected

\* A request that is new here, and CreateNewLock: nothing for inputs of less
\* than six confirmations, a new lock, or a new height for the lock the votes
\* have already started.
ReceiveRequest(t, h) ==
    /\ at = "idle"
    /\ NewRequest(t)
    /\ job' = [NoJob EXCEPT !.tx = t, !.height = h]
    /\ at' = IF h # 0 /\ t \in DOMAIN mapTxLocks THEN "height" ELSE "pool"
    /\ mapTxLocks' = IF h = 0 THEN mapTxLocks ELSE Insert(mapTxLocks, t, NewLock(t, h))
    /\ UNCHANGED <<now, mempool, mapTxLockReq, mapTxLockReqRejected, mapTxLockVote,
                   mapLockedInputs, mapUnknownVotes, todo, cleaner>>

SetHeight ==
    /\ at = "height"
    /\ mapTxLocks' = [WithLock(job.tx) EXCEPT ![job.tx].nBlockHeight = job.height]
    /\ Goes("pool")
    /\ UNCHANGED <<now, mempool, mapTxLockReq, mapTxLockReqRejected, mapTxLockVote,
                   mapLockedInputs, mapUnknownVotes, cleaner>>

\* DoConsensusVote: an elected masternode records its own vote, which is sent
\* to the peers and never added to its own lock.  The vote is cast for height
\* 0 too, when CreateNewLock refused.
DoConsensusVote(t, h, known) ==
    mapTxLockVote' = IF known /\ Me \in Elected[h]
                     THEN mapTxLockVote \cup {GetHash(Me, t)} ELSE mapTxLockVote

\* AcceptToMemoryPool takes the transaction.
RequestAccepted(known) ==
    /\ at = "pool"
    /\ job.tx \notin mempool
    /\ \A u \in mempool : Range(Vin[u]) \cap Range(Vin[job.tx]) = {}
    /\ mempool' = mempool \cup {job.tx}
    /\ DoConsensusVote(job.tx, job.height, known)
    /\ Goes("store")
    /\ UNCHANGED <<now, mapTxLockReq, mapTxLockReqRejected, mapTxLocks,
                   mapLockedInputs, mapUnknownVotes, cleaner>>

\* The last step of a request: it is stored.
StoreRequest ==
    /\ at = "store"
    /\ mapTxLockReq' = Insert(mapTxLockReq, job.tx, Vin[job.tx])
    /\ Returns
    /\ UNCHANGED <<now, mempool, mapTxLockReqRejected, mapTxLockVote, mapTxLocks,
                   mapLockedInputs, mapUnknownVotes, cleaner>>

\* AcceptToMemoryPool refuses it: the free inputs are locked all the same, and
\* then a lock that the votes have completed is looked for.
RequestRejected ==
    /\ at = "pool"
    /\ mapTxLockReqRejected' = mapTxLockReqRejected \cup {job.tx}
    /\ at' = "seize" /\ todo' = Vin[job.tx]
    /\ UNCHANGED <<now, mempool, mapTxLockReq, mapTxLockVote, mapTxLocks,
                   mapLockedInputs, mapUnknownVotes, job, cleaner>>

-----------------------------------------------------------------------------
(* "txlvote".                                                              *)

\* A slip: a vote is not remembered.
RememberNothing(m, t) == UNCHANGED mapTxLockVote

\* The vote is stored, whatever becomes of it.
RememberVote(m, t) == mapTxLockVote' = mapTxLockVote \cup {GetHash(m, t)}

\* The vote of a masternode that is not in the list, not elected or whose
\* signature fails: ProcessConsensusVote returns false.
VoteRefused(m, t) ==
    /\ at = "idle"
    /\ GetHash(m, t) \notin mapTxLockVote
    /\ RememberVote(m, t)
    /\ UNCHANGED <<now, mempool, mapTxLockReq, mapTxLockReqRejected, mapTxLocks,
                   mapLockedInputs, mapUnknownVotes, handler, cleaner>>

\* A good vote, for which ProcessConsensusVote starts a lock if there is none.
VoteReceived(m, t, h) ==
    /\ at = "idle"
    /\ GetHash(m, t) \notin mapTxLockVote
    /\ m \in Elected[h]
    /\ RememberVote(m, t)
    /\ at' = "start"
    /\ job' = [NoJob EXCEPT !.tx = t, !.mn = m, !.height = h, !.vote = TRUE]
    /\ UNCHANGED <<now, mempool, mapTxLockReq, mapTxLockReqRejected, mapTxLocks,
                   mapLockedInputs, mapUnknownVotes, todo, cleaner>>

StartLock ==
    /\ at = "start"
    /\ mapTxLocks' = Insert(mapTxLocks, job.tx, NewLock(job.tx, 0))
    /\ Goes("find")
    /\ UNCHANGED <<now, mempool, mapTxLockReq, mapTxLockReqRejected, mapTxLockVote,
                   mapLockedInputs, mapUnknownVotes, cleaner>>

\* The iterator of the lock, for a vote to add and for a request to count.
FindLock ==
    /\ at = "find"
    /\ IF job.tx \in DOMAIN mapTxLocks
       THEN Goes(IF job.vote THEN "push" ELSE "count") ELSE Returns
    /\ UNCHANGED <<now, maps, cleaner>>

\* AddSignature.  If the lock has been erased since it was found, the vote goes
\* to freed memory and no map changes.
AddSignature ==
    /\ at = "push"
    /\ mapTxLocks' =
         IF job.tx \notin DOMAIN mapTxLocks THEN mapTxLocks
         ELSE [mapTxLocks EXCEPT ![job.tx].vecConsensusVotes =
                 Append(@, [mn |-> job.mn, nBlockHeight |-> job.height])]
    /\ Goes("count")
    /\ UNCHANGED <<now, mempool, mapTxLockReq, mapTxLockReqRejected, mapTxLockVote,
                   mapLockedInputs, mapUnknownVotes, cleaner>>

\* Is the lock complete?  An erased one may look either way.  A vote reads the
\* request of a complete lock next; a request has its own inputs at hand.
CountVotes ==
    /\ at = "count"
    /\ \E complete \in IF job.tx \in DOMAIN mapTxLocks THEN {Complete(job.tx)} ELSE BOOLEAN :
          IF job.vote THEN Goes(IF complete THEN "request" ELSE "track")
          ELSE IF complete
               THEN at' = "conflict" /\ todo' = Vin[job.tx] /\ UNCHANGED job
               ELSE Returns
    /\ UNCHANGED <<now, maps, cleaner>>

\* mapTxLockReq[hash] inserts an empty transaction if there is no request.
ReadRequest ==
    /\ at = "request"
    /\ mapTxLockReq' = Insert(mapTxLockReq, job.tx, <<>>)
    /\ at' = "conflict" /\ todo' = mapTxLockReq'[job.tx]
    /\ UNCHANGED <<now, mempool, mapTxLockReqRejected, mapTxLockVote, mapTxLocks,
                   mapLockedInputs, mapUnknownVotes, job, cleaner>>

\* GetAverageVoteTime: an integer division.
GetAverageVoteTime(times) ==
    FoldFunction(LAMBDA a, b : a + b, 0, times) \div Cardinality(DOMAIN times)

\* The end of a vote that counted: a masternode that votes on an unknown
\* transaction gets a new window, unless it is far ahead of the others.
TrackUnknown ==
    /\ at = "track"
    /\ LET times == Insert(mapUnknownVotes, job.mn, now + VoteWindow)
           spams == /\ times[job.mn] > now
                    /\ times[job.mn] - GetAverageVoteTime(times) > VoteWindow
       IN mapUnknownVotes' =
            IF ~NewRequest(job.tx) THEN mapUnknownVotes
            ELSE IF spams THEN times ELSE Assign(times, job.mn, now + VoteWindow)
    /\ Returns
    /\ UNCHANGED <<now, mempool, mapTxLockReq, mapTxLockReqRejected, mapTxLockVote,
                   mapTxLocks, mapLockedInputs, cleaner>>

-----------------------------------------------------------------------------
(* CheckForConflictingLocks, for a vote or a request with a complete lock. *)

\* The holder of the input at hand, read through operator[]: 0 is inserted if
\* the input has been released since it was found locked.
Holders == Insert(mapLockedInputs, Head(todo), NoTx)
HoldersRead ==
    /\ mapLockedInputs' = Holders
    /\ UNCHANGED <<now, mempool, mapTxLockReq, mapTxLockReqRejected, mapTxLockVote,
                   mapTxLocks, mapUnknownVotes, cleaner>>

\* It returns true: the vote goes on, the request is dropped.
ConflictEnds == IF job.vote THEN Goes("track") ELSE Returns

IsInputLocked ==
    /\ at = "conflict" /\ todo # <<>>
    /\ IF Head(todo) \in DOMAIN mapLockedInputs THEN Goes("compare")
       ELSE todo' = Tail(todo) /\ UNCHANGED <<at, job>>
    /\ UNCHANGED <<now, maps, cleaner>>

CompareHolder ==
    /\ at = "compare"
    /\ HoldersRead
    /\ IF Holders[Head(todo)] = job.tx
       THEN at' = "conflict" /\ todo' = Tail(todo) /\ UNCHANGED job
       ELSE Goes("mine")

\* Both locks of the conflict expire now, as far as they exist.
FindMine ==
    /\ at = "mine"
    /\ Goes(IF job.tx \in DOMAIN mapTxLocks THEN "expireMine" ELSE "holder")
    /\ UNCHANGED <<now, maps, cleaner>>

Expire(t) ==
    /\ mapTxLocks' = [WithLock(t) EXCEPT ![t].nExpiration = now]
    /\ UNCHANGED <<now, mempool, mapTxLockReq, mapTxLockReqRejected, mapTxLockVote,
                   mapLockedInputs, mapUnknownVotes, cleaner>>

ExpireMine == at = "expireMine" /\ Expire(job.tx) /\ Goes("holder")

\* The holder is read to look its lock up, and again to expire it.
ReadHolder ==
    /\ at \in {"holder", "holderAgain"}
    /\ HoldersRead
    /\ job' = [job EXCEPT !.holder = Holders[Head(todo)]]
    /\ at' = IF at = "holder" THEN "theirs" ELSE "expireTheirs"
    /\ UNCHANGED todo

FindTheirs ==
    /\ at = "theirs"
    /\ IF job.holder \in DOMAIN mapTxLocks THEN Goes("holderAgain") ELSE ConflictEnds
    /\ UNCHANGED <<now, maps, cleaner>>

ExpireTheirs == at = "expireTheirs" /\ Expire(job.holder) /\ ConflictEnds

\* No conflict: the request becomes good; the inputs of the request that the
\* vote completes are locked, if it is still there.
NoConflict ==
    /\ at = "conflict" /\ todo = <<>>
    /\ IF ~job.vote THEN Goes("store")
       ELSE IF job.tx \in DOMAIN mapTxLockReq
            THEN at' = "hold" /\ todo' = mapTxLockReq[job.tx] /\ UNCHANGED job
            ELSE Goes("track")
    /\ UNCHANGED <<now, maps, cleaner>>

\* A slip: the latest transaction takes its inputs over.
LockTakesOver(o, t) == Assign(mapLockedInputs, o, t)

\* An input is locked if it is free.
Locked(o, t) == Insert(mapLockedInputs, o, t)

\* The loops that lock the inputs of a transaction, for a request that the pool
\* refuses and for a vote that completes its lock.
LockInput ==
    /\ at \in {"seize", "hold"} /\ todo # <<>>
    /\ mapLockedInputs' = Locked(Head(todo), job.tx)
    /\ todo' = Tail(todo)
    /\ UNCHANGED <<now, mempool, mapTxLockReq, mapTxLockReqRejected, mapTxLockVote,
                   mapTxLocks, mapUnknownVotes, at, job, cleaner>>

InputsLocked ==
    /\ at \in {"seize", "hold"} /\ todo = <<>>
    /\ Goes(IF at = "seize" THEN "find" ELSE "track")
    /\ UNCHANGED <<now, maps, cleaner>>

ProcessMessageInstantX ==
    \/ \E t \in Tx, h \in Height \cup {0} : ReceiveRequest(t, h)
    \/ SetHeight
    \/ \E known \in BOOLEAN : RequestAccepted(known)
    \/ StoreRequest \/ RequestRejected
    \/ \E m \in Masternode, t \in Tx : VoteRefused(m, t)
    \/ \E m \in Masternode, t \in Tx, h \in Height \cup {0} : VoteReceived(m, t, h)
    \/ StartLock \/ FindLock \/ AddSignature \/ CountVotes \/ ReadRequest \/ TrackUnknown
    \/ IsInputLocked \/ CompareHolder \/ FindMine \/ ExpireMine
    \/ ReadHolder \/ FindTheirs \/ ExpireTheirs \/ NoConflict
    \/ LockInput \/ InputsLocked

-----------------------------------------------------------------------------
(* CleanTransactionLocksList: an expired lock goes; only if there is a     *)
(* request do its inputs, the request and its votes go with it.            *)

Expired == {t \in DOMAIN mapTxLocks : now > mapTxLocks[t].nExpiration}

StartCleaning(t) ==
    /\ cat = "idle"
    /\ t \in Expired
    /\ cat' = "look" /\ doomed' = t
    /\ UNCHANGED <<now, maps, handler, release, next, last>>

LookForRequest ==
    /\ cat = "look"
    /\ IF mapTxLocks[doomed].txHash \in DOMAIN mapTxLockReq
       THEN cat' = "inputs" /\ release' = mapTxLockReq[doomed]
       ELSE cat' = "erase" /\ UNCHANGED release
    /\ UNCHANGED <<now, maps, handler, doomed, next, last>>

ReleaseInput ==
    /\ cat = "inputs" /\ release # <<>>
    /\ mapLockedInputs' = Without(mapLockedInputs, Head(release))
    /\ release' = Tail(release)
    /\ UNCHANGED <<now, mempool, mapTxLockReq, mapTxLockReqRejected, mapTxLockVote,
                   mapTxLocks, mapUnknownVotes, handler, cat, doomed, next, last>>

ForgetRequest ==
    /\ cat = "inputs" /\ release = <<>>
    /\ mapTxLockReq' = Without(mapTxLockReq, doomed)
    /\ cat' = "rejected"
    /\ UNCHANGED <<now, mempool, mapTxLockReqRejected, mapTxLockVote, mapTxLocks,
                   mapLockedInputs, mapUnknownVotes, handler, doomed, release, next, last>>

ForgetRejected ==
    /\ cat = "rejected"
    /\ mapTxLockReqRejected' = mapTxLockReqRejected \ {doomed}
    /\ cat' = "range"
    /\ UNCHANGED <<now, mempool, mapTxLockReq, mapTxLockVote, mapTxLocks,
                   mapLockedInputs, mapUnknownVotes, handler, doomed, release, next, last>>

\* BOOST_FOREACH takes the end of the votes once: what is pushed later stays.
RangeVotes ==
    /\ cat = "range"
    /\ cat' = "votes"
    /\ next' = 1 /\ last' = Len(mapTxLocks[doomed].vecConsensusVotes)
    /\ UNCHANGED <<now, maps, handler, doomed, release>>

ForgetVote ==
    /\ cat = "votes" /\ next <= last
    /\ mapTxLockVote' =
         mapTxLockVote \ {GetHash(mapTxLocks[doomed].vecConsensusVotes[next].mn, doomed)}
    /\ next' = next + 1
    /\ UNCHANGED <<now, mempool, mapTxLockReq, mapTxLockReqRejected, mapTxLocks,
                   mapLockedInputs, mapUnknownVotes, handler, cat, doomed, release, last>>

EraseLock ==
    /\ cat = "erase" \/ (cat = "votes" /\ next > last)
    /\ mapTxLocks' = Without(mapTxLocks, doomed)
    /\ cat' = "idle" /\ doomed' = NoTx /\ next' = 1 /\ last' = 0
    /\ UNCHANGED <<now, mempool, mapTxLockReq, mapTxLockReqRejected, mapTxLockVote,
                   mapLockedInputs, mapUnknownVotes, handler, release>>

CleanTransactionLocksList ==
    \/ \E t \in Tx \cup {NoTx} : StartCleaning(t)
    \/ LookForRequest \/ ReleaseInput \/ ForgetRequest \/ ForgetRejected
    \/ RangeVotes \/ ForgetVote \/ EraseLock

-----------------------------------------------------------------------------
\* An iterator or a reference in use whose entry the other thread has erased,
\* or moved as it grew.  The memory reads as it did, which is what the steps
\* above do, or the process dies and starts again with empty maps.
Dangling ==
    \/ at \in {"push", "count"} /\ job.tx \notin DOMAIN mapTxLocks
    \/ /\ job.vote /\ job.tx \notin DOMAIN mapTxLockReq
       /\ at \in {"conflict", "compare", "mine", "expireMine", "holder", "theirs",
                  "holderAgain", "expireTheirs", "hold"}
    \/ cat = "votes" /\ last < Len(mapTxLocks[doomed].vecConsensusVotes)

Dies ==
    /\ Dangling
    /\ mempool' = {} /\ mapTxLockReq' = <<>> /\ mapTxLockReqRejected' = {}
    /\ mapTxLockVote' = {} /\ mapTxLocks' = <<>>
    /\ mapLockedInputs' = <<>> /\ mapUnknownVotes' = <<>>
    /\ Returns
    /\ cat' = "idle" /\ doomed' = NoTx /\ release' = <<>> /\ next' = 1 /\ last' = 0
    /\ UNCHANGED now

\* The rest of the node: a transaction leaves the pool (a block, a conflict,
\* under cs_main), time passes.
LeavesPool(t) ==
    /\ cat = "idle"
    /\ t \in mempool
    /\ mempool' = mempool \ {t}
    /\ UNCHANGED <<now, mapTxLockReq, mapTxLockReqRejected, mapTxLockVote, mapTxLocks,
                   mapLockedInputs, mapUnknownVotes, handler, cleaner>>

TimePasses ==
    /\ now < MaxTime
    /\ now' = now + 1
    /\ UNCHANGED <<maps, handler, cleaner>>

IXNext ==
    \/ ProcessMessageInstantX
    \/ CleanTransactionLocksList
    \/ Dies
    \/ \E t \in Tx : LeavesPool(t)
    \/ TimePasses

IXSpec == IXInit /\ [][IXNext]_ixVars

-----------------------------------------------------------------------------
Places == {"idle", "height", "pool", "store", "seize", "find", "start", "push", "count",
           "request", "conflict", "compare", "mine", "expireMine", "holder", "theirs",
           "holderAgain", "expireTheirs", "hold", "track"}
CleanerPlaces == {"idle", "look", "inputs", "rejected", "range", "votes", "erase"}

\* Every map holds what the code puts there, and each thread is at a place of
\* its program.
IXTypeOK ==
    /\ now \in Nat
    /\ mempool \subseteq Tx /\ mapTxLockReqRejected \subseteq Tx
    /\ mapTxLockVote \subseteq Masternode \X Tx
    /\ DOMAIN mapTxLockReq \subseteq Tx
    /\ \A t \in DOMAIN mapTxLockReq : mapTxLockReq[t] \in {Vin[t], <<>>}
    /\ DOMAIN mapTxLocks \subseteq Tx \cup {NoTx}
    /\ \A t \in DOMAIN mapTxLocks :
          mapTxLocks[t] \in [txHash : {t, NoTx}, nBlockHeight : Height \cup {0}, nExpiration : Nat,
                             vecConsensusVotes : Seq([mn : Masternode, nBlockHeight : Height \cup {0}])]
    /\ DOMAIN mapLockedInputs \subseteq Outpoint
    /\ \A o \in DOMAIN mapLockedInputs : mapLockedInputs[o] \in Tx \cup {NoTx}
    /\ at \in Places
    /\ job \in [tx : Tx \cup {NoTx}, mn : Masternode \cup {Me}, height : Height \cup {0},
                vote : BOOLEAN, holder : Tx \cup {NoTx}]
    /\ todo \in Seq(Outpoint) /\ release \in Seq(Outpoint)
    /\ cat \in CleanerPlaces
    /\ doomed \in Tx \cup {NoTx}
    /\ next \in Nat /\ last \in Nat

\* The lock whose votes the cleaner is forgetting: until it is erased, a vote
\* that has been forgotten is counted again when it comes again.
Forgetting(t) == cat = "votes" /\ doomed = t

\* The votes of a lock are of different masternodes, each elected for the
\* height it voted for, and each is still known, so that it is turned away
\* when it comes again, however cleaning and voting interleave; the one lock
\* excepted whose votes are being forgotten.
VotesDistinct ==
    \A t \in DOMAIN mapTxLocks :
        LET votes == mapTxLocks[t].vecConsensusVotes
        IN ~Forgetting(t) =>
             /\ \A i, j \in DOMAIN votes : votes[i].mn = votes[j].mn => i = j
             /\ \A i \in DOMAIN votes : /\ votes[i].mn \in Elected[votes[i].nBlockHeight]
                                        /\ GetHash(votes[i].mn, t) \in mapTxLockVote

\* A lock counts as complete only when Required different masternodes elected
\* for its height have voted for it at that height, unless its votes are being
\* forgotten.
CompleteMeansQuorum ==
    \A t \in DOMAIN mapTxLocks :
        Complete(t) /\ ~Forgetting(t) =>
            \E h \in Height : \E Q \in SUBSET Elected[h] :
                /\ h = mapTxLocks[t].nBlockHeight
                /\ Cardinality(Q) >= Required
                /\ \A m \in Q : \E i \in DOMAIN mapTxLocks[t].vecConsensusVotes :
                      mapTxLocks[t].vecConsensusVotes[i] = [mn |-> m, nBlockHeight |-> h]

\* A locked input stays with its transaction until it is released: no request
\* or vote hands it from one transaction to another.
NeverHandedOver ==
    [][\A o \in DOMAIN mapLockedInputs \cap DOMAIN mapLockedInputs' :
          mapLockedInputs'[o] = mapLockedInputs[o]]_ixVars

-----------------------------------------------------------------------------
\* instantx.h: "Keep transaction locks in memory for an hour".  An input is
\* released only when the lock of the transaction that holds it has expired.
\* Not kept by the code: README, "Sentences the code does not keep".
HeldUntilExpired ==
    [][\A o \in DOMAIN mapLockedInputs \ DOMAIN mapLockedInputs' :
          mapLockedInputs[o] \in DOMAIN mapTxLocks => mapLockedInputs[o] \in Expired]_ixVars

\* instantx.cpp: of "2 conflicting transaction locks approved by the network",
\* "they will cancel each other out": at rest, two complete locks with a
\* request that share an input are not both good beyond the present.
\* Not kept by the code: README, "Sentences the code does not keep".
ConflictsCancel ==
    at = "idle" =>
    \A t, u \in DOMAIN mapTxLocks \cap DOMAIN mapTxLockReq :
        /\ t # u
        /\ Range(mapTxLockReq[t]) \cap Range(mapTxLockReq[u]) # {}
        /\ Complete(t) /\ Complete(u)
        => mapTxLocks[t].nExpiration <= now \/ mapTxLocks[u].nExpiration <= now

\* instantx.cpp, CleanTransactionLocksList: "Keep them for an hour".  Whatever
\* holds an input has a lock whose cleaning releases it.
\* Not kept by the code: README, "Sentences the code does not keep".
LockedInputsExpire ==
    \A o \in DOMAIN mapLockedInputs :
        \E t \in DOMAIN mapTxLocks \cap Tx : o \in Range(Vin[t])
=============================================================================
