---------------------------- MODULE GossipProofs ----------------------------
(***************************************************************************)
(* Proofs about what the peers pass on to one another: the votes of        *)
(* InstantX, for any number of transactions, masternodes and heights and   *)
(* any interleaving of the two threads, and the alerts, sporks and time    *)
(* offsets of Signals, for any set of peers.                               *)
(***************************************************************************)
EXTENDS InstantX, Signals, FiniteSetTheorems, WellFoundedInduction, TLAPS

-----------------------------------------------------------------------------
(* InstantX: a complete lock is a quorum of different elected masternodes.  *)
(* CompleteMeansQuorum is not inductive: that the votes of a lock differ    *)
(* depends on every one of them still being known in mapTxLockVote, which   *)
(* is what VotesDistinct adds; and VotesDistinct depends on what is under   *)
(* way in the two threads.                                                  *)

Vote == [mn : Masternode, nBlockHeight : Height \cup {0}]
Lock(t) == [txHash : {t, NoTx}, nBlockHeight : Height \cup {0}, nExpiration : Nat,
            vecConsensusVotes : Seq(Vote)]
Votes(t) == mapTxLocks[t].vecConsensusVotes

\* The type invariant, in parts.
LocksOK(locks) ==
    /\ DOMAIN locks \subseteq Tx \cup {NoTx}
    /\ \A t \in DOMAIN locks : locks[t] \in Lock(t)

MapsOK ==
    /\ now \in Nat
    /\ mempool \subseteq Tx /\ mapTxLockReqRejected \subseteq Tx
    /\ mapTxLockVote \subseteq Masternode \X Tx
    /\ DOMAIN mapTxLockReq \subseteq Tx
    /\ \A t \in DOMAIN mapTxLockReq : mapTxLockReq[t] \in {Vin[t], <<>>}
    /\ DOMAIN mapLockedInputs \subseteq Outpoint
    /\ \A o \in DOMAIN mapLockedInputs : mapLockedInputs[o] \in Tx \cup {NoTx}

Job == [tx : Tx \cup {NoTx}, mn : Masternode \cup {Me}, height : Height \cup {0},
        vote : BOOLEAN, holder : Tx \cup {NoTx}]

\* Each thread has at hand what its place needs.
HandlerOK ==
    /\ at \in Places /\ job \in Job /\ todo \in Seq(Outpoint)
    /\ at # "idle" => job.tx \in Tx
    /\ at \in {"start", "push", "request"} => job.vote
    /\ at \in {"height", "pool", "seize"} => ~job.vote
    /\ at \in {"compare", "mine", "expireMine", "holder", "theirs", "holderAgain",
               "expireTheirs"} => todo # <<>>

CleanerOK ==
    /\ cat \in CleanerPlaces /\ release \in Seq(Outpoint)
    /\ doomed \in Tx \cup {NoTx}
    /\ next \in Nat /\ last \in Nat
    /\ cat # "idle" => doomed \in DOMAIN mapTxLocks
    /\ cat \in {"inputs", "rejected", "range", "votes"} => doomed \in Tx

\* A vote between its memory and its lock.
Voting == job.vote /\ at \in {"start", "find", "push"}

\* The positions of the votes of a lock that are not forgotten yet.
Live(t) == IF Forgetting(t) THEN next..last ELSE DOMAIN Votes(t)

\* The live votes of a lock differ, are of elected masternodes and remembered.
LiveOK ==
    \A t \in DOMAIN mapTxLocks :
        /\ Live(t) \subseteq DOMAIN Votes(t)
        /\ \A i, j \in Live(t) : Votes(t)[i].mn = Votes(t)[j].mn => i = j
        /\ \A i \in Live(t) : /\ Votes(t)[i].mn \in Elected[Votes(t)[i].nBlockHeight]
                              /\ GetHash(Votes(t)[i].mn, t) \in mapTxLockVote

\* The vote on its way is remembered, and is not one of them.
VotingOK ==
    Voting =>
      /\ job.mn \in Elected[job.height]
      /\ GetHash(job.mn, job.tx) \in mapTxLockVote
      /\ job.tx \in DOMAIN mapTxLocks =>
            \A i \in Live(job.tx) : Votes(job.tx)[i].mn # job.mn

TypesOK == MapsOK /\ LocksOK(mapTxLocks) /\ HandlerOK /\ CleanerOK
IXInv == TypesOK /\ LiveOK /\ VotingOK

LEMMA InvImplies == IXInv => IXTypeOK /\ VotesDistinct
  BY DEF IXInv, TypesOK, MapsOK, LocksOK, HandlerOK, CleanerOK, Job, Lock, Vote, IXTypeOK, LiveOK, Live, Votes,
         VotesDistinct

-----------------------------------------------------------------------------
\* Locks: the new ones have no votes, and an assignment to the height or the
\* expiration leaves the votes alone.
KeepsVotes(new) ==
    /\ DOMAIN mapTxLocks \subseteq DOMAIN new
    /\ \A t \in DOMAIN new :
          \/ t \in DOMAIN mapTxLocks /\ new[t].vecConsensusVotes = Votes(t)
          \/ t \notin DOMAIN mapTxLocks /\ new[t].vecConsensusVotes = <<>>

LEMMA InsertLock ==
  ASSUME now \in Nat, LocksOK(mapTxLocks), NEW t \in Tx \cup {NoTx}, NEW l \in Lock(t),
         l.vecConsensusVotes = <<>>
  PROVE  /\ LocksOK(Insert(mapTxLocks, t, l)) /\ KeepsVotes(Insert(mapTxLocks, t, l))
         /\ t \in DOMAIN Insert(mapTxLocks, t, l)
  BY DEF LocksOK, KeepsVotes, Votes, Insert, Assign

LEMMA NewLockOK ==
  ASSUME NEW h \in Height \cup {0}, NEW t, now \in Nat
  PROVE  NewLock(t, h) \in Lock(t) /\ NewLock(t, h).vecConsensusVotes = <<>>
  BY IXConstants DEF NewLock, Lock

LEMMA WithLockOK ==
  ASSUME now \in Nat, LocksOK(mapTxLocks), NEW t \in Tx \cup {NoTx}
  PROVE  LocksOK(WithLock(t)) /\ KeepsVotes(WithLock(t)) /\ t \in DOMAIN WithLock(t)
<1>1. DefaultLock \in Lock(t) /\ DefaultLock.vecConsensusVotes = <<>>
  BY DEF DefaultLock, Lock
<1> QED BY <1>1, InsertLock DEF WithLock

LEMMA AssignHeight ==
  ASSUME now \in Nat, LocksOK(mapTxLocks), NEW t \in Tx \cup {NoTx}, NEW h \in Height \cup {0},
         NEW new, new = [WithLock(t) EXCEPT ![t].nBlockHeight = h]
  PROVE  LocksOK(new) /\ KeepsVotes(new)
<1>1. LocksOK(WithLock(t)) /\ KeepsVotes(WithLock(t)) /\ t \in DOMAIN WithLock(t)
  BY WithLockOK
<1>2. DOMAIN new = DOMAIN WithLock(t) /\ \A u \in DOMAIN WithLock(t) : WithLock(t)[u] \in Lock(u)
  BY <1>1 DEF LocksOK
<1>3. \A u \in DOMAIN new : u # t => new[u] = WithLock(t)[u]
  BY <1>2
<1>4. new[t] = [WithLock(t)[t] EXCEPT !.nBlockHeight = h]
  BY <1>1, <1>2
<1>5. \A u \in DOMAIN new : /\ new[u] \in Lock(u)
                            /\ new[u].vecConsensusVotes = WithLock(t)[u].vecConsensusVotes
  <2>1. new[t] \in Lock(t) /\ new[t].vecConsensusVotes = WithLock(t)[t].vecConsensusVotes
    BY <1>1, <1>2, <1>4 DEF Lock
  <2> QED BY <1>2, <1>3, <2>1
<1> QED BY <1>1, <1>2, <1>5 DEF LocksOK, KeepsVotes

LEMMA AssignExpiration ==
  ASSUME now \in Nat, LocksOK(mapTxLocks), NEW t \in Tx \cup {NoTx},
         NEW new, new = [WithLock(t) EXCEPT ![t].nExpiration = now]
  PROVE  LocksOK(new) /\ KeepsVotes(new)
<1>1. LocksOK(WithLock(t)) /\ KeepsVotes(WithLock(t)) /\ t \in DOMAIN WithLock(t)
  BY WithLockOK
<1>2. DOMAIN new = DOMAIN WithLock(t) /\ \A u \in DOMAIN WithLock(t) : WithLock(t)[u] \in Lock(u)
  BY <1>1 DEF LocksOK
<1>3. \A u \in DOMAIN new : u # t => new[u] = WithLock(t)[u]
  BY <1>2
<1>4. new[t] = [WithLock(t)[t] EXCEPT !.nExpiration = now]
  BY <1>1, <1>2
<1>5. \A u \in DOMAIN new : /\ new[u] \in Lock(u)
                            /\ new[u].vecConsensusVotes = WithLock(t)[u].vecConsensusVotes
  <2>1. new[t] \in Lock(t) /\ new[t].vecConsensusVotes = WithLock(t)[t].vecConsensusVotes
    BY <1>1, <1>2, <1>4 DEF Lock
  <2> QED BY <1>2, <1>3, <2>1
<1> QED BY <1>1, <1>2, <1>5 DEF LocksOK, KeepsVotes

-----------------------------------------------------------------------------
\* A step is quiet if it adds no vote to a lock, forgets none, puts no vote on
\* its way and neither begins nor advances nor ends the forgetting.
Quiet ==
    /\ KeepsVotes(mapTxLocks')
    /\ mapTxLockVote \subseteq mapTxLockVote'
    /\ Voting' => Voting /\ job' = job
    /\ cat = "votes" \/ cat' = "votes" =>
          cat' = cat /\ doomed' = doomed /\ next' = next /\ last' = last

LEMMA QuietKeeps == IXInv /\ Quiet => LiveOK' /\ VotingOK'
<1> SUFFICES ASSUME IXInv, Quiet PROVE LiveOK' /\ VotingOK'
  OBVIOUS
<1> USE DEF IXInv, TypesOK
<1>1. \A t : Forgetting(t)' <=> Forgetting(t)
  BY DEF Quiet, Forgetting
<1>2. \A t \in DOMAIN mapTxLocks : t \in DOMAIN mapTxLocks' /\ Votes(t)' = Votes(t)
  BY DEF Quiet, KeepsVotes, Votes
<1>3. \A t \in DOMAIN mapTxLocks : Live(t)' = Live(t)
  BY <1>1, <1>2 DEF Live, Quiet, Forgetting
<1>4. \A t \in DOMAIN mapTxLocks' : t \notin DOMAIN mapTxLocks => Live(t)' = {}
  <2> SUFFICES ASSUME NEW t \in DOMAIN mapTxLocks', t \notin DOMAIN mapTxLocks
               PROVE  Live(t)' = {}
    OBVIOUS
  <2>1. ~Forgetting(t)'
    BY <1>1 DEF Forgetting, CleanerOK
  <2>2. Votes(t)' = <<>>
    BY DEF Quiet, KeepsVotes, Votes
  <2> QED BY <2>1, <2>2 DEF Live
<1>5. LiveOK'
  <2> SUFFICES ASSUME NEW t \in DOMAIN mapTxLocks'
               PROVE  /\ Live(t)' \subseteq DOMAIN Votes(t)'
                      /\ \A i, j \in Live(t)' : Votes(t)'[i].mn = Votes(t)'[j].mn => i = j
                      /\ \A i \in Live(t)' :
                            /\ Votes(t)'[i].mn \in Elected[Votes(t)'[i].nBlockHeight]
                            /\ GetHash(Votes(t)'[i].mn, t) \in mapTxLockVote'
    BY DEF LiveOK
  <2>1. CASE t \in DOMAIN mapTxLocks
    BY <1>2, <1>3, <2>1 DEF LiveOK, Quiet
  <2>2. CASE t \notin DOMAIN mapTxLocks
    BY <1>4, <2>2
  <2> QED BY <2>1, <2>2
<1>6. VotingOK'
  <2> SUFFICES ASSUME Voting' PROVE VotingOK'
    BY DEF VotingOK
  <2>1. Voting /\ job' = job
    BY DEF Quiet
  <2>2. job.mn \in Elected[job.height] /\ GetHash(job.mn, job.tx) \in mapTxLockVote'
    BY <2>1 DEF VotingOK, Quiet
  <2>3. ASSUME NEW t \in DOMAIN mapTxLocks', t = job.tx
        PROVE  \A i \in Live(t)' : Votes(t)'[i].mn # job.mn
    <3>1. CASE t \in DOMAIN mapTxLocks
      BY <1>2, <1>3, <2>1, <2>3, <3>1 DEF VotingOK
    <3>2. CASE t \notin DOMAIN mapTxLocks
      BY <1>4, <3>2
    <3> QED BY <3>1, <3>2
  <2>4. job'.tx \in DOMAIN mapTxLocks' =>
           \A i \in Live(job.tx)' : Votes(job.tx)'[i].mn # job'.mn
    BY <2>1, <2>3 DEF Live, Votes, Forgetting
  <2> QED BY <2>1, <2>2, <2>4 DEF VotingOK
<1> QED BY <1>5, <1>6

-----------------------------------------------------------------------------
\* What the operator[] of mapLockedInputs inserts.
LEMMA HoldersTyped ==
  ASSUME MapsOK, HandlerOK, todo # <<>>
  PROVE  /\ DOMAIN Holders \subseteq Outpoint
         /\ \A o \in DOMAIN Holders : Holders[o] \in Tx \cup {NoTx}
         /\ Holders[Head(todo)] \in Tx \cup {NoTx}
<1>1. Head(todo) \in Outpoint
  BY DEF HandlerOK
<1> QED BY <1>1 DEF MapsOK, Holders, Insert, Assign

\* What a request holds is a sequence of outpoints.
LEMMA InputsAreSeq ==
  ASSUME NEW t \in Tx, NEW x \in {Vin[t], <<>>}
  PROVE  x \in Seq(Outpoint)
<1>1. CASE x = Vin[t]
  BY <1>1, IXConstants
<1>2. CASE x = <<>>
  BY <1>2
<1> QED BY <1>1, <1>2

\* The handler goes on, or returns.
LEMMA GoesOK ==
  ASSUME HandlerOK, at # "idle", NEW p \in Places, Goes(p),
         p \in {"start", "push", "request"} => job.vote,
         p \in {"height", "pool", "seize"} => ~job.vote,
         p \in {"compare", "mine", "expireMine", "holder", "theirs", "holderAgain",
                "expireTheirs"} => todo # <<>>
  PROVE  HandlerOK' /\ job' = job /\ at' = p
  BY DEF HandlerOK, Goes

LEMMA ReturnsOK == Returns => HandlerOK' /\ ~Voting'
  BY DEF Returns, NoJob, HandlerOK, Job, Places, Voting

\* A step that changes no lock and no vote, and leaves the cleaner alone, keeps
\* the types, and is quiet unless it puts a vote on its way.
LEMMA PlainStep ==
  ASSUME TypesOK, UNCHANGED <<mapTxLocks, cleaner>>, MapsOK', HandlerOK',
         mapTxLockVote \subseteq mapTxLockVote', Voting' => Voting /\ job' = job
  PROVE  TypesOK' /\ Quiet
<1>1. LocksOK(mapTxLocks)' /\ CleanerOK'
  BY DEF TypesOK, LocksOK, CleanerOK, cleaner
<1>2. Quiet
  BY DEF Quiet, KeepsVotes, Votes, cleaner
<1> QED BY <1>1, <1>2 DEF TypesOK

\* Nor is a step that leaves the maps alone.
LEMMA StillStep ==
  ASSUME TypesOK, UNCHANGED <<now, maps, cleaner>>, HandlerOK',
         Voting' => Voting /\ job' = job
  PROVE  TypesOK' /\ Quiet
<1>1. MapsOK' /\ mapTxLocks' = mapTxLocks /\ mapTxLockVote' = mapTxLockVote
  BY DEF TypesOK, MapsOK, maps
<1> QED BY <1>1, PlainStep

\* A step that changes the locks alone, and no vote of them.
LEMMA LockStep ==
  ASSUME TypesOK, UNCHANGED <<now, mempool, mapTxLockReq, mapTxLockReqRejected, mapTxLockVote,
                              mapLockedInputs, cleaner>>,
         LocksOK(mapTxLocks'), KeepsVotes(mapTxLocks'), HandlerOK',
         Voting' => Voting /\ job' = job
  PROVE  TypesOK' /\ Quiet
<1>1. MapsOK' /\ LocksOK(mapTxLocks)'
  BY DEF TypesOK, MapsOK, LocksOK
<1>2. CleanerOK'
  BY DEF TypesOK, CleanerOK, KeepsVotes, cleaner
<1>3. Quiet
  BY DEF Quiet, cleaner
<1> QED BY <1>1, <1>2, <1>3 DEF TypesOK

\* "txlreq" keeps the types and is quiet.
LEMMA RequestsAreQuiet ==
  ASSUME TypesOK,
         \/ \E t \in Tx, h \in Height \cup {0} : ReceiveRequest(t, h)
         \/ SetHeight
         \/ \E known \in BOOLEAN : RequestAccepted(known)
         \/ StoreRequest \/ RequestRejected
  PROVE  TypesOK' /\ Quiet
<1> USE DEF TypesOK
<1>1. ASSUME NEW t \in Tx, NEW h \in Height \cup {0}, ReceiveRequest(t, h)
      PROVE  TypesOK' /\ Quiet
  <2>1. LocksOK(mapTxLocks') /\ KeepsVotes(mapTxLocks')
    <3>1. CASE h = 0
      BY <1>1, <3>1 DEF ReceiveRequest, KeepsVotes, Votes
    <3>2. CASE h # 0
      BY <1>1, <3>2, NewLockOK, InsertLock DEF ReceiveRequest, MapsOK
    <3> QED BY <3>1, <3>2
  <2>2. HandlerOK' /\ ~Voting'
    BY <1>1 DEF ReceiveRequest, HandlerOK, Voting, Job, Places, NoJob
  <2> QED BY <1>1, <2>1, <2>2, LockStep DEF ReceiveRequest
<1>2. ASSUME SetHeight PROVE TypesOK' /\ Quiet
  <2>1. job.tx \in Tx /\ job.height \in Height \cup {0}
    BY <1>2 DEF SetHeight, HandlerOK, Job
  <2>2. LocksOK(mapTxLocks') /\ KeepsVotes(mapTxLocks')
    BY <1>2, <2>1, AssignHeight DEF SetHeight, MapsOK
  <2>3. HandlerOK' /\ ~Voting'
    <3>1. at = "height" /\ Goes("pool") /\ ~job.vote
      BY <1>2 DEF SetHeight, HandlerOK
    <3> QED BY <3>1, GoesOK DEF Places, Voting
  <2> QED BY <1>2, <2>2, <2>3, LockStep DEF SetHeight
<1>3. ASSUME NEW known \in BOOLEAN, RequestAccepted(known) PROVE TypesOK' /\ Quiet
  <2>1. at = "pool" /\ Goes("store") /\ job.tx \in Tx
    BY <1>3 DEF RequestAccepted, HandlerOK
  <2>2. mapTxLockVote \subseteq mapTxLockVote' /\ mapTxLockVote' \subseteq Masternode \X Tx
    <3>1. CASE known /\ Me \in Elected[job.height]
      <4>1. Me \in Masternode
        BY <3>1, IXConstants DEF HandlerOK, Job
      <4> QED BY <1>3, <2>1, <3>1, <4>1 DEF RequestAccepted, DoConsensusVote, GetHash, MapsOK
    <3>2. CASE ~(known /\ Me \in Elected[job.height])
      <4>1. mapTxLockVote' = mapTxLockVote
        BY <1>3, <3>2 DEF RequestAccepted, DoConsensusVote
      <4> QED BY <4>1 DEF MapsOK
    <3> QED BY <3>1, <3>2
  <2>3. MapsOK'
    BY <1>3, <2>1, <2>2 DEF RequestAccepted, MapsOK
  <2>4. HandlerOK' /\ ~Voting'
    BY <2>1, GoesOK DEF Places, Voting
  <2> QED BY <1>3, <2>2, <2>3, <2>4, PlainStep DEF RequestAccepted
<1>4. ASSUME StoreRequest PROVE TypesOK' /\ Quiet
  <2>1. MapsOK'
    BY <1>4 DEF StoreRequest, Insert, Assign, MapsOK, HandlerOK
  <2> QED BY <1>4, <2>1, ReturnsOK, PlainStep DEF StoreRequest
<1>5. ASSUME RequestRejected PROVE TypesOK' /\ Quiet
  <2>1. job.tx \in Tx /\ ~job.vote
    BY <1>5 DEF RequestRejected, HandlerOK
  <2>2. MapsOK'
    BY <1>5, <2>1 DEF RequestRejected, MapsOK
  <2>3. HandlerOK' /\ ~Voting'
    BY <1>5, <2>1, IXConstants DEF RequestRejected, HandlerOK, Places, Voting
  <2> QED BY <1>5, <2>2, <2>3, PlainStep DEF RequestRejected
<1> QED BY <1>1, <1>2, <1>3, <1>4, <1>5

\* So are the steps of "txlvote" but the two that bring a vote under way and
\* to its lock.
LEMMA VoteStepsAreQuiet ==
  ASSUME TypesOK,
         \/ \E m \in Masternode, t \in Tx : VoteRefused(m, t)
         \/ StartLock \/ FindLock \/ CountVotes \/ ReadRequest \/ TrackUnknown
  PROVE  TypesOK' /\ Quiet
<1> USE DEF TypesOK
<1>1. ASSUME NEW m \in Masternode, NEW t \in Tx, VoteRefused(m, t) PROVE TypesOK' /\ Quiet
  <2>1. MapsOK' /\ mapTxLockVote \subseteq mapTxLockVote'
    BY <1>1 DEF VoteRefused, RememberVote, GetHash, MapsOK
  <2>2. HandlerOK' /\ (Voting' => Voting /\ job' = job)
    BY <1>1 DEF VoteRefused, HandlerOK, Voting, handler
  <2> QED BY <1>1, <2>1, <2>2, PlainStep DEF VoteRefused
<1>2. ASSUME StartLock PROVE TypesOK' /\ Quiet
  <2>1. at = "start" /\ Goes("find") /\ job.tx \in Tx
    BY <1>2 DEF StartLock, HandlerOK
  <2>2. LocksOK(mapTxLocks') /\ KeepsVotes(mapTxLocks')
    BY <1>2, <2>1, NewLockOK, InsertLock DEF StartLock, MapsOK
  <2>3. HandlerOK' /\ (Voting' => Voting /\ job' = job)
    BY <2>1, GoesOK DEF Places, Voting
  <2> QED BY <1>2, <2>2, <2>3, LockStep DEF StartLock
<1>3. ASSUME FindLock PROVE TypesOK' /\ Quiet
  <2>1. HandlerOK' /\ (Voting' => Voting /\ job' = job)
    <3>1. at = "find"
      BY <1>3 DEF FindLock
    <3>2. CASE Goes("push") /\ job.vote
      BY <3>1, <3>2, GoesOK DEF Places, Voting
    <3>3. CASE Goes("count") /\ ~job.vote
      BY <3>1, <3>3, GoesOK DEF Places, Voting
    <3>4. CASE Returns
      BY <3>4, ReturnsOK
    <3> QED BY <1>3, <3>2, <3>3, <3>4 DEF FindLock
  <2> QED BY <1>3, <2>1, StillStep DEF FindLock
<1>4. ASSUME CountVotes PROVE TypesOK' /\ Quiet
  <2>1. PICK complete \in BOOLEAN :
          IF job.vote THEN Goes(IF complete THEN "request" ELSE "track")
          ELSE IF complete
               THEN at' = "conflict" /\ todo' = Vin[job.tx] /\ UNCHANGED job
               ELSE Returns
    BY <1>4 DEF CountVotes, Complete
  <2>2. at = "count" /\ job.tx \in Tx
    BY <1>4 DEF CountVotes, HandlerOK
  <2>3. HandlerOK' /\ ~Voting'
    <3>1. CASE Goes("request") /\ job.vote
      BY <2>2, <3>1, GoesOK DEF Places, Voting
    <3>2. CASE Goes("track")
      BY <2>2, <3>2, GoesOK DEF Places, Voting
    <3>3. CASE at' = "conflict" /\ todo' = Vin[job.tx] /\ UNCHANGED job
      BY <2>2, <3>3, IXConstants DEF HandlerOK, Places, Voting
    <3>4. CASE Returns
      BY <3>4, ReturnsOK
    <3> QED BY <2>1, <3>1, <3>2, <3>3, <3>4
  <2> QED BY <1>4, <2>3, StillStep DEF CountVotes
<1>5. ASSUME ReadRequest PROVE TypesOK' /\ Quiet
  <2>1. job.tx \in Tx /\ mapTxLockReq' = Insert(mapTxLockReq, job.tx, <<>>)
    BY <1>5 DEF ReadRequest, HandlerOK
  <2>2. /\ DOMAIN mapTxLockReq' \subseteq Tx /\ job.tx \in DOMAIN mapTxLockReq'
        /\ \A t \in DOMAIN mapTxLockReq' : mapTxLockReq'[t] \in {Vin[t], <<>>}
    BY <2>1 DEF MapsOK, Insert, Assign
  <2>3. mapTxLockReq'[job.tx] \in Seq(Outpoint)
    BY <2>1, <2>2, InputsAreSeq
  <2>4. MapsOK'
    BY <1>5, <2>2 DEF ReadRequest, MapsOK
  <2>5. HandlerOK' /\ ~Voting'
    BY <1>5, <2>1, <2>3 DEF ReadRequest, HandlerOK, Places, Voting
  <2> QED BY <1>5, <2>4, <2>5, PlainStep DEF ReadRequest
<1>6. ASSUME TrackUnknown PROVE TypesOK' /\ Quiet
  <2>1. MapsOK'
    BY <1>6 DEF TrackUnknown, MapsOK
  <2> QED BY <1>6, <2>1, ReturnsOK, PlainStep DEF TrackUnknown
<1> QED BY <1>1, <1>2, <1>3, <1>4, <1>5, <1>6

\* CheckForConflictingLocks and the loops that lock inputs are quiet.
LEMMA ConflictStepsAreQuiet ==
  ASSUME TypesOK,
         \/ IsInputLocked \/ CompareHolder \/ FindMine \/ ExpireMine
         \/ ReadHolder \/ FindTheirs \/ ExpireTheirs \/ NoConflict
         \/ LockInput \/ InputsLocked
  PROVE  TypesOK' /\ Quiet
<1> USE DEF TypesOK
<1>0. ASSUME at # "idle", ConflictEnds PROVE HandlerOK' /\ ~Voting'
  <2>1. CASE Goes("track")
    BY <1>0, <2>1, GoesOK DEF Places, Voting
  <2>2. CASE Returns
    BY <2>2, ReturnsOK
  <2> QED BY <1>0, <2>1, <2>2 DEF ConflictEnds
<1>1. ASSUME IsInputLocked PROVE TypesOK' /\ Quiet
  <2>1. at = "conflict" /\ todo # <<>>
    BY <1>1 DEF IsInputLocked
  <2>2. HandlerOK' /\ ~Voting'
    <3>1. CASE Goes("compare")
      BY <2>1, <3>1, GoesOK DEF Places, Voting
    <3>2. CASE todo' = Tail(todo) /\ UNCHANGED <<at, job>>
      BY <2>1, <3>2 DEF HandlerOK, Voting
    <3> QED BY <1>1, <3>1, <3>2 DEF IsInputLocked
  <2> QED BY <1>1, <2>2, StillStep DEF IsInputLocked
<1>2. ASSUME CompareHolder PROVE TypesOK' /\ Quiet
  <2>1. at = "compare" /\ todo # <<>> /\ mapLockedInputs' = Holders
    BY <1>2 DEF CompareHolder, HoldersRead, HandlerOK
  <2>2. MapsOK'
    BY <1>2, <2>1, HoldersTyped DEF CompareHolder, HoldersRead, MapsOK
  <2>3. HandlerOK' /\ ~Voting'
    <3>1. CASE Goes("mine")
      BY <2>1, <3>1, GoesOK DEF Places, Voting
    <3>2. CASE at' = "conflict" /\ todo' = Tail(todo) /\ UNCHANGED job
      BY <2>1, <3>2 DEF HandlerOK, Voting, Places
    <3> QED BY <1>2, <3>1, <3>2 DEF CompareHolder
  <2> QED BY <1>2, <2>2, <2>3, PlainStep DEF CompareHolder, HoldersRead
<1>3. ASSUME FindMine PROVE TypesOK' /\ Quiet
  <2>1. at = "mine" /\ todo # <<>> /\ (Goes("expireMine") \/ Goes("holder"))
    BY <1>3 DEF FindMine, HandlerOK
  <2>2. HandlerOK' /\ ~Voting'
    BY <2>1, GoesOK DEF Places, Voting
  <2> QED BY <1>3, <2>2, StillStep DEF FindMine
<1>4. ASSUME NEW t \in Tx \cup {NoTx}, Expire(t), HandlerOK', ~Voting'
      PROVE  TypesOK' /\ Quiet
  <2>1. LocksOK(mapTxLocks') /\ KeepsVotes(mapTxLocks')
    BY <1>4, AssignExpiration DEF Expire, MapsOK
  <2> QED BY <1>4, <2>1, LockStep DEF Expire
<1>5. ASSUME ExpireMine PROVE TypesOK' /\ Quiet
  <2>1. at = "expireMine" /\ job.tx \in Tx /\ todo # <<>> /\ Goes("holder")
    BY <1>5 DEF ExpireMine, HandlerOK
  <2>2. HandlerOK' /\ ~Voting'
    BY <2>1, GoesOK DEF Places, Voting
  <2> QED BY <1>4, <1>5, <2>1, <2>2 DEF ExpireMine
<1>6. ASSUME ReadHolder PROVE TypesOK' /\ Quiet
  <2>1. at \in {"holder", "holderAgain"} /\ todo # <<>> /\ mapLockedInputs' = Holders
    BY <1>6 DEF ReadHolder, HoldersRead, HandlerOK
  <2>2. MapsOK'
    BY <1>6, <2>1, HoldersTyped DEF ReadHolder, HoldersRead, MapsOK
  <2>3. HandlerOK' /\ ~Voting'
    <3>1. job' = [job EXCEPT !.holder = Holders[Head(todo)]] /\ todo' = todo
      BY <1>6 DEF ReadHolder
    <3>2. job' \in Job /\ job'.tx = job.tx
      BY <2>1, <3>1, HoldersTyped DEF HandlerOK, Job
    <3>3. at' \in {"theirs", "expireTheirs"}
      BY <1>6 DEF ReadHolder
    <3> QED BY <2>1, <3>1, <3>2, <3>3 DEF HandlerOK, Places, Voting
  <2> QED BY <1>6, <2>2, <2>3, PlainStep DEF ReadHolder, HoldersRead
<1>7. ASSUME FindTheirs PROVE TypesOK' /\ Quiet
  <2>1. at = "theirs" /\ todo # <<>> /\ (Goes("holderAgain") \/ ConflictEnds)
    BY <1>7 DEF FindTheirs, HandlerOK
  <2>2. HandlerOK' /\ ~Voting'
    BY <1>0, <2>1, GoesOK DEF Places, Voting
  <2> QED BY <1>7, <2>2, StillStep DEF FindTheirs
<1>8. ASSUME ExpireTheirs PROVE TypesOK' /\ Quiet
  <2>1. job.holder \in Tx \cup {NoTx} /\ at = "expireTheirs" /\ ConflictEnds
    BY <1>8 DEF ExpireTheirs, HandlerOK, Job
  <2> QED BY <1>0, <1>4, <1>8, <2>1 DEF ExpireTheirs
<1>9. ASSUME NoConflict PROVE TypesOK' /\ Quiet
  <2>1. job.tx \in DOMAIN mapTxLockReq => mapTxLockReq[job.tx] \in Seq(Outpoint)
    BY InputsAreSeq DEF MapsOK
  <2>2. at = "conflict"
    BY <1>9 DEF NoConflict
  <2>3. HandlerOK' /\ ~Voting'
    <3>1. CASE Goes("store") \/ Goes("track")
      BY <2>2, <3>1, GoesOK DEF Places, Voting
    <3>2. CASE /\ job.tx \in DOMAIN mapTxLockReq
               /\ at' = "hold" /\ todo' = mapTxLockReq[job.tx] /\ UNCHANGED job
      BY <2>1, <2>2, <3>2 DEF HandlerOK, Voting, Places
    <3> QED BY <1>9, <3>1, <3>2 DEF NoConflict
  <2> QED BY <1>9, <2>3, StillStep DEF NoConflict
<1>10. ASSUME LockInput PROVE TypesOK' /\ Quiet
  <2>1. /\ Head(todo) \in Outpoint /\ Tail(todo) \in Seq(Outpoint) /\ job.tx \in Tx
        /\ at \in {"seize", "hold"}
    BY <1>10 DEF LockInput, HandlerOK
  <2>2. mapLockedInputs' = Insert(mapLockedInputs, Head(todo), job.tx) /\ todo' = Tail(todo)
    BY <1>10 DEF LockInput, Locked
  <2>3. MapsOK'
    <3>1. /\ DOMAIN mapLockedInputs' \subseteq Outpoint
          /\ \A o \in DOMAIN mapLockedInputs' : mapLockedInputs'[o] \in Tx \cup {NoTx}
      BY <2>1, <2>2 DEF MapsOK, Insert, Assign
    <3> QED BY <1>10, <3>1 DEF LockInput, MapsOK
  <2>4. HandlerOK' /\ ~Voting'
    BY <1>10, <2>1, <2>2 DEF LockInput, HandlerOK, Voting
  <2> QED BY <1>10, <2>3, <2>4, PlainStep DEF LockInput
<1>11. ASSUME InputsLocked PROVE TypesOK' /\ Quiet
  <2>1. HandlerOK' /\ ~Voting'
    <3>1. CASE at = "seize" /\ Goes("find")
      <4>1. ~job.vote
        BY <3>1 DEF HandlerOK
      <4> QED BY <3>1, <4>1, GoesOK DEF Places, Voting
    <3>2. CASE at = "hold" /\ Goes("track")
      BY <3>2, GoesOK DEF Places, Voting
    <3> QED BY <1>11, <3>1, <3>2 DEF InputsLocked
  <2> QED BY <1>11, <2>1, StillStep DEF InputsLocked
<1> QED BY <1>1, <1>2, <1>3, <1>5, <1>6, <1>7, <1>8, <1>9, <1>10, <1>11

-----------------------------------------------------------------------------
\* The two steps that are not quiet: a vote comes under way ...
LEMMA VoteReceivedKeeps ==
  ASSUME IXInv, NEW m \in Masternode, NEW t \in Tx, NEW h \in Height \cup {0},
         VoteReceived(m, t, h)
  PROVE  IXInv'
<1> USE DEF IXInv, TypesOK
<1>1. /\ at' = "start" /\ m \in Elected[h] /\ todo' = todo
      /\ job' = [NoJob EXCEPT !.tx = t, !.mn = m, !.height = h, !.vote = TRUE]
      /\ GetHash(m, t) \notin mapTxLockVote
      /\ mapTxLockVote' = mapTxLockVote \cup {GetHash(m, t)}
      /\ mapTxLocks' = mapTxLocks /\ UNCHANGED cleaner
  BY DEF VoteReceived, RememberVote
<1>2. job' \in Job /\ job'.tx = t /\ job'.mn = m /\ job'.height = h /\ job'.vote
  BY <1>1 DEF NoJob, Job
<1>3. MapsOK' /\ LocksOK(mapTxLocks)'
  BY <1>1 DEF VoteReceived, MapsOK, LocksOK, GetHash
<1>4. HandlerOK' /\ CleanerOK'
  BY <1>1, <1>2 DEF HandlerOK, CleanerOK, Places, cleaner
<1>5. \A u : Votes(u)' = Votes(u) /\ Live(u)' = Live(u)
  BY <1>1 DEF Votes, Live, Forgetting, cleaner
<1>6. LiveOK'
  BY <1>1, <1>5 DEF LiveOK
<1>7. t \in DOMAIN mapTxLocks => \A i \in Live(t) : Votes(t)[i].mn # m
  BY <1>1 DEF LiveOK
<1>8. t \in DOMAIN mapTxLocks' => \A i \in Live(t)' : Votes(t)'[i].mn # m
  BY <1>1, <1>5, <1>7
<1>9. VotingOK'
  <2>1. /\ job'.mn \in Elected[job'.height]
        /\ GetHash(job'.mn, job'.tx) \in mapTxLockVote'
    BY <1>1, <1>2
  <2>2. job'.tx \in DOMAIN mapTxLocks' =>
           \A i \in Live(job.tx)' : Votes(job.tx)'[i].mn # job'.mn
    BY <1>2, <1>8 DEF Live, Votes, Forgetting
  <2> QED BY <2>1, <2>2 DEF VotingOK
<1> QED BY <1>3, <1>4, <1>6, <1>9

\* A lock with one vote more is a lock.
LEMMA AppendVote ==
  ASSUME NEW t, NEW l \in Lock(t), NEW v \in Vote,
         NEW k, k = [l EXCEPT !.vecConsensusVotes = Append(l.vecConsensusVotes, v)]
  PROVE  k \in Lock(t) /\ k.vecConsensusVotes = Append(l.vecConsensusVotes, v)
<1>1. Append(l.vecConsensusVotes, v) \in Seq(Vote)
  BY DEF Lock
<1> QED BY <1>1 DEF Lock

\* ... and reaches its lock.  It differs from the live votes there.
LEMMA AddSignatureKeeps == IXInv /\ AddSignature => IXInv'
<1> SUFFICES ASSUME IXInv, AddSignature PROVE IXInv'
  OBVIOUS
<1> USE DEF IXInv, TypesOK
<1> PICK t : t = job.tx
  OBVIOUS
<1> DEFINE v == [mn |-> job.mn, nBlockHeight |-> job.height]
<1>1. /\ at = "push" /\ Goes("count") /\ t \in Tx /\ Voting
      /\ UNCHANGED <<mapTxLockVote, cleaner>>
  BY DEF AddSignature, HandlerOK, Voting
<1>2. MapsOK' /\ HandlerOK' /\ ~Voting'
  BY <1>1, GoesOK DEF AddSignature, MapsOK, Places, Voting
<1>3. VotingOK'
  BY <1>2 DEF VotingOK
<1>4. CASE t \notin DOMAIN mapTxLocks
  <2>1. mapTxLocks' = mapTxLocks
    BY <1>4 DEF AddSignature
  <2>2. LiveOK' /\ CleanerOK' /\ LocksOK(mapTxLocks)'
    BY <1>1, <2>1 DEF LiveOK, Live, Votes, Forgetting, CleanerOK, LocksOK, cleaner
  <2> QED BY <1>2, <1>3, <2>2
<1>5. CASE t \in DOMAIN mapTxLocks
  <2>1. /\ DOMAIN mapTxLocks' = DOMAIN mapTxLocks
        /\ \A u \in DOMAIN mapTxLocks \ {t} : mapTxLocks'[u] = mapTxLocks[u]
        /\ mapTxLocks'[t] = [mapTxLocks[t] EXCEPT !.vecConsensusVotes = Append(Votes(t), v)]
    <3>1. mapTxLocks' = [mapTxLocks EXCEPT ![t].vecConsensusVotes = Append(@, v)]
      BY <1>5 DEF AddSignature
    <3> HIDE DEF v
    <3> QED BY <1>5, <3>1, Zenon DEF Votes
  <2>2. v \in Vote /\ v.mn = job.mn /\ v.nBlockHeight = job.height
    <3>1. job.mn \in Masternode
      BY <1>1, IXConstants DEF VotingOK, HandlerOK, Job
    <3> QED BY <3>1 DEF Vote, HandlerOK, Job
  <2> HIDE DEF v
  <2>3. mapTxLocks[t] \in Lock(t)
    BY <1>5 DEF LocksOK
  <2>4. mapTxLocks'[t] \in Lock(t) /\ Votes(t)' = Append(Votes(t), v)
    BY <2>1, <2>2, <2>3, AppendVote DEF Votes
  <2>5. LocksOK(mapTxLocks)' /\ CleanerOK'
    BY <1>1, <2>1, <2>4 DEF LocksOK, CleanerOK, cleaner
  <2>6. Votes(t) \in Seq(Vote)
    BY <2>3 DEF Lock, Votes
  <2> DEFINE n == Len(Votes(t))
  <2>7. /\ DOMAIN Append(Votes(t), v) = (DOMAIN Votes(t)) \cup {n + 1}
        /\ \A i \in DOMAIN Votes(t) : Append(Votes(t), v)[i] = Votes(t)[i]
        /\ Append(Votes(t), v)[n + 1] = v
    BY <2>6
  <2> HIDE DEF n
  <2>8. Live(t)' = IF Forgetting(t) THEN Live(t) ELSE Live(t) \cup {n + 1}
    BY <1>1, <2>4, <2>7 DEF Live, Forgetting, cleaner
  <2>9. /\ Live(t) \subseteq DOMAIN Votes(t)
        /\ \A i, j \in Live(t) : Votes(t)[i].mn = Votes(t)[j].mn => i = j
        /\ \A i \in Live(t) : /\ Votes(t)[i].mn \in Elected[Votes(t)[i].nBlockHeight]
                              /\ GetHash(Votes(t)[i].mn, t) \in mapTxLockVote
    BY <1>5 DEF LiveOK
  <2>10. /\ v.mn \in Elected[v.nBlockHeight] /\ GetHash(v.mn, t) \in mapTxLockVote
         /\ \A i \in Live(t) : Votes(t)[i].mn # v.mn
    BY <1>1, <1>5, <2>2 DEF VotingOK
  <2>11. /\ Live(t)' \subseteq DOMAIN Votes(t)'
         /\ \A i, j \in Live(t)' : Votes(t)'[i].mn = Votes(t)'[j].mn => i = j
         /\ \A i \in Live(t)' : /\ Votes(t)'[i].mn \in Elected[Votes(t)'[i].nBlockHeight]
                                /\ GetHash(Votes(t)'[i].mn, t) \in mapTxLockVote'
    BY <1>1, <2>4, <2>7, <2>8, <2>9, <2>10
  <2>12. \A u \in DOMAIN mapTxLocks \ {t} : Votes(u)' = Votes(u) /\ Live(u)' = Live(u)
    BY <1>1, <2>1 DEF Votes, Live, Forgetting, cleaner
  <2>13. LiveOK'
    BY <1>1, <2>1, <2>11, <2>12 DEF LiveOK
  <2> QED BY <1>2, <1>3, <2>5, <2>13
<1> QED BY <1>4, <1>5

-----------------------------------------------------------------------------
\* Cleaning before the votes are walked is quiet.
LEMMA CleaningIsQuiet ==
  ASSUME TypesOK,
         \/ \E t \in Tx \cup {NoTx} : StartCleaning(t)
         \/ LookForRequest \/ ReleaseInput \/ ForgetRequest \/ ForgetRejected
  PROVE  TypesOK' /\ Quiet
<1> USE DEF TypesOK
<1>1. mapTxLocks' = mapTxLocks /\ mapTxLockVote' = mapTxLockVote /\ UNCHANGED handler
  BY DEF StartCleaning, LookForRequest, ReleaseInput, ForgetRequest, ForgetRejected, maps
<1>2. LocksOK(mapTxLocks)' /\ KeepsVotes(mapTxLocks') /\ HandlerOK' /\ (Voting' => Voting /\ job' = job)
  BY <1>1 DEF LocksOK, KeepsVotes, Votes, HandlerOK, Voting, handler
<1>3. cat # "votes" /\ cat' # "votes"
  BY DEF StartCleaning, LookForRequest, ReleaseInput, ForgetRequest, ForgetRejected
<1>4. Quiet
  BY <1>1, <1>2, <1>3 DEF Quiet
<1>5. ASSUME NEW t \in Tx \cup {NoTx}, StartCleaning(t) PROVE MapsOK' /\ CleanerOK'
  BY <1>5 DEF StartCleaning, Expired, MapsOK, CleanerOK, CleanerPlaces, maps
<1>6. ASSUME LookForRequest PROVE MapsOK' /\ CleanerOK'
  <2>1. doomed \in DOMAIN mapTxLocks /\ mapTxLocks[doomed].txHash \in {doomed, NoTx}
    BY <1>6 DEF LookForRequest, CleanerOK, LocksOK, Lock
  <2>2. CASE mapTxLocks[doomed].txHash \in DOMAIN mapTxLockReq
    <3>1. doomed \in Tx /\ doomed \in DOMAIN mapTxLockReq
      BY <2>1, <2>2, IXConstants DEF MapsOK
    <3>2. mapTxLockReq[doomed] \in Seq(Outpoint)
      BY <3>1, InputsAreSeq DEF MapsOK
    <3> QED BY <1>1, <1>6, <2>2, <3>1, <3>2 DEF LookForRequest, MapsOK, CleanerOK, CleanerPlaces, maps
  <2>3. CASE mapTxLocks[doomed].txHash \notin DOMAIN mapTxLockReq
    BY <1>6, <2>3 DEF LookForRequest, MapsOK, CleanerOK, CleanerPlaces, maps
  <2> QED BY <2>2, <2>3
<1>7. ASSUME ReleaseInput PROVE MapsOK' /\ CleanerOK'
  BY <1>7 DEF ReleaseInput, Without, Restrict, MapsOK, CleanerOK
<1>8. ASSUME ForgetRequest PROVE MapsOK' /\ CleanerOK'
  BY <1>8 DEF ForgetRequest, Without, Restrict, MapsOK, CleanerOK, CleanerPlaces
<1>9. ASSUME ForgetRejected PROVE MapsOK' /\ CleanerOK'
  BY <1>9 DEF ForgetRejected, MapsOK, CleanerOK, CleanerPlaces
<1> QED BY <1>2, <1>4, <1>5, <1>6, <1>7, <1>8, <1>9

\* The walk begins: the live votes of the lock are those of the range.
LEMMA RangeVotesKeeps == IXInv /\ RangeVotes => IXInv'
<1> SUFFICES ASSUME IXInv, RangeVotes PROVE IXInv'
  OBVIOUS
<1> USE DEF IXInv, TypesOK
<1>1. /\ cat = "range" /\ cat' = "votes" /\ doomed' = doomed
      /\ next' = 1 /\ last' = Len(Votes(doomed)) /\ UNCHANGED <<now, maps, handler, release>>
  BY DEF RangeVotes, Votes
<1>2. doomed \in Tx /\ doomed \in DOMAIN mapTxLocks /\ Votes(doomed) \in Seq(Vote)
  BY <1>1 DEF CleanerOK, LocksOK, Lock, Votes
<1>3. MapsOK' /\ LocksOK(mapTxLocks)' /\ HandlerOK' /\ CleanerOK'
  BY <1>1, <1>2 DEF MapsOK, LocksOK, HandlerOK, CleanerOK, CleanerPlaces, maps, handler
<1>4. \A t \in DOMAIN mapTxLocks : Votes(t)' = Votes(t) /\ Live(t)' = Live(t)
  <2> SUFFICES ASSUME NEW t \in DOMAIN mapTxLocks PROVE Votes(t)' = Votes(t) /\ Live(t)' = Live(t)
    OBVIOUS
  <2>1. Votes(t)' = Votes(t) /\ ~Forgetting(t)
    BY <1>1 DEF Votes, Forgetting, maps
  <2>2. CASE t = doomed
    <3>1. Live(t)' = 1..Len(Votes(t))
      BY <1>1, <2>2 DEF Live, Forgetting
    <3>2. Live(t) = DOMAIN Votes(t)
      BY <2>1 DEF Live
    <3> QED BY <1>2, <2>1, <2>2, <3>1, <3>2
  <2>3. CASE t # doomed
    BY <1>1, <2>1, <2>3 DEF Live, Forgetting
  <2> QED BY <2>2, <2>3
<1>5. mapTxLocks' = mapTxLocks /\ mapTxLockVote' = mapTxLockVote /\ job' = job /\ at' = at
  BY <1>1 DEF maps, handler
<1>6. LiveOK' /\ VotingOK'
  BY <1>4, <1>5 DEF LiveOK, VotingOK, Voting
<1> QED BY <1>3, <1>6

\* A vote is forgotten, which no live vote is, nor the one on its way.
LEMMA ForgetVoteKeeps == IXInv /\ ForgetVote => IXInv'
<1> SUFFICES ASSUME IXInv, ForgetVote PROVE IXInv'
  OBVIOUS
<1> USE DEF IXInv, TypesOK
<1> DEFINE m == Votes(doomed)[next].mn
<1>1. /\ cat = "votes" /\ next <= last /\ next' = next + 1
      /\ mapTxLockVote' = mapTxLockVote \ {GetHash(m, doomed)}
      /\ UNCHANGED <<now, mapTxLocks, handler, cat, doomed, release, last>>
  BY DEF ForgetVote, Votes
<1> HIDE DEF m
<1>2. MapsOK' /\ LocksOK(mapTxLocks)' /\ HandlerOK' /\ CleanerOK'
  BY <1>1 DEF ForgetVote, MapsOK, LocksOK, HandlerOK, CleanerOK, handler
<1>3. doomed \in DOMAIN mapTxLocks /\ next \in Live(doomed)
  BY <1>1 DEF CleanerOK, Live, Forgetting
<1>4. Live(doomed)' = Live(doomed) \ {next}
  BY <1>1 DEF CleanerOK, Live, Forgetting
<1>5. \A t \in DOMAIN mapTxLocks : Votes(t)' = Votes(t) /\ (t # doomed => Live(t)' = Live(t))
  BY <1>1 DEF Votes, Live, Forgetting
<1>6. \A i \in Live(doomed)' : Votes(doomed)[i].mn # m
  BY <1>3, <1>4 DEF LiveOK, m
<1>7. LiveOK'
  <2> SUFFICES ASSUME NEW t \in DOMAIN mapTxLocks
               PROVE  /\ Live(t)' \subseteq DOMAIN Votes(t)
                      /\ \A i, j \in Live(t)' : Votes(t)[i].mn = Votes(t)[j].mn => i = j
                      /\ \A i \in Live(t)' :
                            /\ Votes(t)[i].mn \in Elected[Votes(t)[i].nBlockHeight]
                            /\ GetHash(Votes(t)[i].mn, t) \in mapTxLockVote'
    BY <1>1, <1>5 DEF LiveOK
  <2>1. CASE t = doomed
    <3>1. Live(t)' = Live(t) \ {next} /\ \A i \in Live(t)' : Votes(t)[i].mn # m
      BY <1>1, <1>4, <1>6, <2>1
    <3> QED BY <1>1, <3>1 DEF LiveOK, GetHash
  <2>2. CASE t # doomed
    BY <1>1, <1>5, <2>2 DEF LiveOK, GetHash
  <2> QED BY <2>1, <2>2
<1>8. VotingOK'
  <2> SUFFICES ASSUME Voting' PROVE VotingOK'
    BY DEF VotingOK
  <2> PICK t : t = job.tx
    OBVIOUS
  <2>1. Voting /\ job' = job
    BY <1>1 DEF Voting, handler
  <2>2. t \in DOMAIN mapTxLocks => \A i \in Live(t) : Votes(t)[i].mn # job.mn
    BY <2>1 DEF VotingOK
  <2>3. GetHash(job.mn, t) # GetHash(m, doomed)
    BY <1>3, <2>2 DEF GetHash, m
  <2>4. /\ job.mn \in Elected[job.height]
        /\ GetHash(job.mn, t) \in mapTxLockVote'
    BY <1>1, <2>1, <2>3 DEF VotingOK
  <2>5. t \in DOMAIN mapTxLocks' => \A i \in Live(t)' : Votes(t)'[i].mn # job.mn
    <3>1. CASE t = doomed
      <4>1. Live(t)' \subseteq Live(t)
        BY <1>1, <1>4, <3>1
      <4> QED BY <1>1, <1>5, <2>2, <4>1
    <3>2. CASE t # doomed
      BY <1>1, <1>5, <2>2, <3>2
    <3> QED BY <3>1, <3>2
  <2>6. job'.tx = t
    BY <2>1
  <2>7. job'.tx \in DOMAIN mapTxLocks' =>
           \A i \in Live(job.tx)' : Votes(job.tx)'[i].mn # job'.mn
    BY <2>1, <2>5, <2>6 DEF Live, Votes, Forgetting
  <2> QED BY <2>1, <2>4, <2>7 DEF VotingOK
<1> QED BY <1>2, <1>7, <1>8

\* A lock goes, with its votes.
LEMMA EraseLockKeeps == IXInv /\ EraseLock => IXInv'
<1> SUFFICES ASSUME IXInv, EraseLock PROVE IXInv'
  OBVIOUS
<1> USE DEF IXInv, TypesOK
<1>1. /\ mapTxLocks' = Without(mapTxLocks, doomed)
      /\ cat \in {"erase", "votes"} /\ cat' = "idle" /\ doomed' = NoTx /\ next' = 1 /\ last' = 0
      /\ UNCHANGED <<now, mempool, mapTxLockReq, mapTxLockReqRejected, mapTxLockVote,
                     mapLockedInputs, handler, release>>
  BY DEF EraseLock
<1>2. /\ DOMAIN mapTxLocks' = DOMAIN mapTxLocks \ {doomed}
      /\ \A t \in DOMAIN mapTxLocks' : mapTxLocks'[t] = mapTxLocks[t]
  BY <1>1 DEF Without, Restrict
<1>3. MapsOK' /\ LocksOK(mapTxLocks)' /\ HandlerOK' /\ CleanerOK'
  BY <1>1, <1>2 DEF MapsOK, LocksOK, HandlerOK, CleanerOK, CleanerPlaces, handler
<1>4. \A t \in DOMAIN mapTxLocks' : Votes(t)' = Votes(t) /\ Live(t)' = Live(t)
  BY <1>1, <1>2 DEF Votes, Live, Forgetting
<1>5. LiveOK'
  BY <1>1, <1>2, <1>4 DEF LiveOK
<1>6. VotingOK'
  <2> PICK t : t = job.tx
    OBVIOUS
  <2>1. job' = job /\ at' = at
    BY <1>1 DEF handler
  <2>2. Voting /\ t \in DOMAIN mapTxLocks' => \A i \in Live(t)' : Votes(t)'[i].mn # job.mn
    BY <1>2, <1>4 DEF VotingOK
  <2>3. Voting /\ job'.tx \in DOMAIN mapTxLocks' =>
           \A i \in Live(job.tx)' : Votes(job.tx)'[i].mn # job'.mn
    BY <2>1, <2>2 DEF Live, Votes, Forgetting
  <2> QED BY <1>1, <2>1, <2>3 DEF VotingOK, Voting
<1> QED BY <1>3, <1>5, <1>6

\* A new process knows nothing.
LEMMA EmptyIsOK ==
  ASSUME now \in Nat, mempool = {}, mapTxLockReq = <<>>, mapTxLockReqRejected = {},
         mapTxLockVote = {}, mapTxLocks = <<>>, mapLockedInputs = <<>>,
         at = "idle", job = NoJob, todo = <<>>,
         cat = "idle", doomed = NoTx, release = <<>>, next = 1, last = 0
  PROVE  IXInv
<1>1. MapsOK /\ LocksOK(mapTxLocks)
  BY DEF MapsOK, LocksOK
<1>2. HandlerOK /\ CleanerOK
  BY DEF HandlerOK, CleanerOK, NoJob, Job, Places, CleanerPlaces
<1>3. LiveOK /\ VotingOK
  BY DEF LiveOK, VotingOK, Voting
<1> QED BY <1>1, <1>2, <1>3 DEF IXInv, TypesOK

LEMMA IXInitOK == IXInit => IXInv
  BY EmptyIsOK DEF IXInit

\* IXInv is inductive.
LEMMA IXInvInductive == IXInv /\ [IXNext]_ixVars => IXInv'
<1> SUFFICES ASSUME IXInv, [IXNext]_ixVars PROVE IXInv'
  OBVIOUS
<1>1. CASE ProcessMessageInstantX
  <2>1. CASE \E m \in Masternode, t \in Tx, h \in Height \cup {0} : VoteReceived(m, t, h)
    BY <2>1, VoteReceivedKeeps
  <2>2. CASE AddSignature
    BY <2>2, AddSignatureKeeps
  <2>3. CASE TypesOK' /\ Quiet
    BY <2>3, QuietKeeps DEF IXInv
  <2> QED BY <1>1, <2>1, <2>2, <2>3, RequestsAreQuiet, VoteStepsAreQuiet, ConflictStepsAreQuiet
          DEF ProcessMessageInstantX, IXInv
<1>2. CASE CleanTransactionLocksList
  <2>1. CASE TypesOK' /\ Quiet
    BY <2>1, QuietKeeps DEF IXInv
  <2> QED BY <1>2, <2>1, CleaningIsQuiet, RangeVotesKeeps, ForgetVoteKeeps, EraseLockKeeps
          DEF CleanTransactionLocksList, IXInv
<1>3. CASE Dies
  <2>1. IXInv'
    <3>1. /\ now' \in Nat /\ mempool' = {} /\ mapTxLockReq' = <<>> /\ mapTxLockReqRejected' = {}
          /\ mapTxLockVote' = {} /\ mapTxLocks' = <<>> /\ mapLockedInputs' = <<>>
          /\ at' = "idle" /\ job' = NoJob /\ todo' = <<>>
          /\ cat' = "idle" /\ doomed' = NoTx /\ release' = <<>> /\ next' = 1 /\ last' = 0
      BY <1>3 DEF Dies, Returns, IXInv, TypesOK, MapsOK
    <3>2. MapsOK' /\ LocksOK(mapTxLocks)'
      BY <3>1 DEF MapsOK, LocksOK
    <3>3. HandlerOK' /\ CleanerOK'
      BY <3>1 DEF HandlerOK, CleanerOK, NoJob, Job, Places, CleanerPlaces
    <3>4. LiveOK' /\ VotingOK'
      BY <3>1 DEF LiveOK, VotingOK, Voting
    <3> QED BY <3>2, <3>3, <3>4 DEF IXInv, TypesOK
  <2> QED BY <2>1
<1>4. CASE \/ \E t \in Tx : LeavesPool(t)
           \/ TimePasses
           \/ UNCHANGED ixVars
  <2>1. /\ UNCHANGED <<mapTxLocks, mapTxLockVote, mapTxLockReq, mapTxLockReqRejected,
                       mapLockedInputs, handler, cleaner>>
        /\ mempool' \subseteq mempool /\ now' \in Nat
    BY <1>4 DEF LeavesPool, TimePasses, ixVars, maps, IXInv, TypesOK, MapsOK
  <2>2. MapsOK' /\ HandlerOK' /\ (Voting' => Voting /\ job' = job)
    BY <2>1 DEF MapsOK, HandlerOK, Voting, handler, IXInv, TypesOK
  <2>3. TypesOK' /\ Quiet
    BY <2>1, <2>2, PlainStep DEF IXInv
  <2> QED BY <2>3, QuietKeeps DEF IXInv
<1> QED BY <1>1, <1>2, <1>3, <1>4 DEF IXNext

\* In every reachable state, whatever the two threads do in between, the votes
\* of a lock whose votes the cleaner is not forgetting are of different, elected
\* and still known masternodes: "txlvote" turns a known vote away by
\* CConsensusVote::GetHash, and CleanTransactionLocksList forgets votes only of
\* a lock it then erases.
THEOREM VotesAlwaysDistinct == IXSpec => [](IXTypeOK /\ VotesDistinct)
<1>1. IXSpec => []IXInv
  BY IXInitOK, IXInvInductive, PTL DEF IXSpec
<1> QED BY <1>1, InvImplies, PTL

\* A vote is its masternode and its height.
LEMMA VoteFields ==
  ASSUME NEW v \in Vote
  PROVE  v = [mn |-> v.mn, nBlockHeight |-> v.nBlockHeight]
  BY DEF Vote

\* The positions of the votes CountSignatures counts are as many as the
\* masternodes that cast them, in a lock whose votes are not being forgotten.
LEMMA CountsMasternodes ==
  ASSUME IXInv, NEW t \in DOMAIN mapTxLocks, mapTxLocks[t].nBlockHeight # 0, ~Forgetting(t)
  PROVE  LET votes == mapTxLocks[t].vecConsensusVotes
             h     == mapTxLocks[t].nBlockHeight
             Q     == {m \in Elected[h] : \E i \in DOMAIN votes :
                                             votes[i] = [mn |-> m, nBlockHeight |-> h]}
         IN CountSignatures(mapTxLocks[t]) <= Cardinality(Q)
<1> DEFINE votes == mapTxLocks[t].vecConsensusVotes
           h     == mapTxLocks[t].nBlockHeight
           I     == {i \in DOMAIN votes : votes[i].nBlockHeight = h}
           Q     == {m \in Elected[h] : \E i \in DOMAIN votes :
                                           votes[i] = [mn |-> m, nBlockHeight |-> h]}
           f     == [i \in I |-> votes[i].mn]
<1>1. /\ votes \in Seq(Vote) /\ h \in Height
      /\ \A i, j \in DOMAIN votes : votes[i].mn = votes[j].mn => i = j
      /\ \A i \in DOMAIN votes : votes[i].mn \in Elected[votes[i].nBlockHeight]
  BY DEF IXInv, TypesOK, LocksOK, Lock, LiveOK, Live, Votes
<1>2. CountSignatures(mapTxLocks[t]) = Cardinality(I)
  BY DEF CountSignatures
<1> HIDE DEF votes, h
<1>3. IsFiniteSet(Q)
  <2>1. Q \subseteq Masternode
    BY <1>1, IXConstants
  <2> QED BY <2>1, FS_Subset, IXConstants
<1>4. f \in Injection(I, Q)
  <2>1. \A i \in I : votes[i] = [mn |-> votes[i].mn, nBlockHeight |-> h]
    <3> TAKE i \in I
    <3>1. votes[i] \in Vote /\ votes[i].nBlockHeight = h
      BY <1>1
    <3> QED BY <3>1, VoteFields
  <2>2. \A i \in I : votes[i].mn \in Q
    BY <1>1, <2>1
  <2>3. \A i, j \in I : f[i] = f[j] => i = j
    BY <1>1
  <2> QED BY <2>2, <2>3 DEF Injection, IsInjective
<1>5. Cardinality(I) <= Cardinality(Q)
  BY <1>3, <1>4, FS_Injection
<1> QED BY <1>2, <1>5 DEF votes, h

\* A complete lock whose votes are not being forgotten is backed by a quorum
\* of different masternodes that are elected for its height and voted for it at
\* that height, however the handlers and the cleaning thread interleave
\* (CTransactionLock::CountSignatures, CleanTransactionLocksList).
THEOREM CompleteAlwaysQuorum == IXSpec => []CompleteMeansQuorum
<1>1. IXInv => CompleteMeansQuorum
  <2> SUFFICES ASSUME IXInv, NEW t \in DOMAIN mapTxLocks, Complete(t), ~Forgetting(t)
               PROVE  \E h \in Height : \E Q \in SUBSET Elected[h] :
                         /\ h = mapTxLocks[t].nBlockHeight
                         /\ Cardinality(Q) >= Required
                         /\ \A m \in Q : \E i \in DOMAIN mapTxLocks[t].vecConsensusVotes :
                               mapTxLocks[t].vecConsensusVotes[i] = [mn |-> m, nBlockHeight |-> h]
    BY DEF CompleteMeansQuorum
  <2> DEFINE votes == mapTxLocks[t].vecConsensusVotes
             h     == mapTxLocks[t].nBlockHeight
             Q     == {m \in Elected[h] : \E i \in DOMAIN votes :
                                             votes[i] = [mn |-> m, nBlockHeight |-> h]}
  <2>1. h # 0
    BY IXConstants DEF Complete, CountSignatures
  <2>2. h \in Height
    BY <2>1 DEF IXInv, TypesOK, LocksOK, Lock
  <2>3. CountSignatures(mapTxLocks[t]) <= Cardinality(Q)
    BY <2>1, CountsMasternodes
  <2>4. IsFiniteSet(Q)
    <3>1. Q \subseteq Masternode
      BY <2>2, IXConstants
    <3> QED BY <3>1, FS_Subset, IXConstants
  <2>5. Cardinality(Q) >= Required
    <3>1. CountSignatures(mapTxLocks[t]) \in Int
      <4> DEFINE I == {i \in DOMAIN votes : votes[i].nBlockHeight = h}
      <4>1. IsFiniteSet(I)
        <5>1. votes \in Seq(Vote)
          BY DEF IXInv, TypesOK, LocksOK, Lock
        <5>2. I \subseteq 1..Len(votes) /\ Len(votes) \in Nat
          BY <5>1
        <5>3. 1 \in Int /\ Len(votes) \in Int
          BY <5>2
        <5>4. IsFiniteSet(1..Len(votes))
          BY ONLY <5>3, FS_Interval
        <5> HIDE DEF I
        <5> QED BY <5>2, <5>4, FS_Subset
      <4>2. CountSignatures(mapTxLocks[t]) = Cardinality(I)
        BY <2>1 DEF CountSignatures
      <4> QED BY <4>1, <4>2, FS_CardinalityType
    <3>2. Cardinality(Q) \in Nat
      BY <2>4, FS_CardinalityType
    <3>3. CountSignatures(mapTxLocks[t]) >= Required
      BY DEF Complete
    <3> HIDE DEF Q
    <3> QED BY <2>3, <3>1, <3>2, <3>3, IXConstants
  <2> HIDE DEF h
  <2>6. \A m \in Q : \E i \in DOMAIN votes : votes[i] = [mn |-> m, nBlockHeight |-> h]
    OBVIOUS
  <2>7. Q \in SUBSET Elected[h]
    OBVIOUS
  <2> QED BY <2>2, <2>5, <2>6, <2>7 DEF h
<1>2. IXSpec => []IXInv
  BY IXInitOK, IXInvInductive, PTL DEF IXSpec
<1> QED BY <1>1, <1>2, PTL

\* No step hands a locked input from one transaction to another, those of the
\* cleaning thread among them (ProcessMessageInstantX, CheckForConflictingLocks).
THEOREM InputsNeverHandedOver == IXSpec => NeverHandedOver
<1> DEFINE Keeps == \A o \in DOMAIN mapLockedInputs \cap DOMAIN mapLockedInputs' :
                       mapLockedInputs'[o] = mapLockedInputs[o]
<1>1. ASSUME mapLockedInputs' = mapLockedInputs PROVE Keeps
  BY <1>1
<1>2. ASSUME NEW o, NEW t, mapLockedInputs' = Insert(mapLockedInputs, o, t) PROVE Keeps
  BY <1>2 DEF Insert, Assign
<1>3. ASSUME NEW o, mapLockedInputs' = Without(mapLockedInputs, o) PROVE Keeps
  BY <1>3 DEF Without, Restrict
<1>4. [IXNext]_ixVars => [Keeps]_ixVars
  <2> SUFFICES ASSUME IXNext PROVE Keeps
    OBVIOUS
  <2>1. CASE ProcessMessageInstantX
    <3>1. CASE CompareHolder \/ ReadHolder
      BY <3>1, <1>2 DEF CompareHolder, ReadHolder, HoldersRead, Holders
    <3>2. CASE LockInput
      BY <3>2, <1>2 DEF LockInput, Locked
    <3>3. CASE \/ \E t \in Tx, h \in Height \cup {0} : ReceiveRequest(t, h)
               \/ SetHeight \/ \E known \in BOOLEAN : RequestAccepted(known)
               \/ StoreRequest \/ RequestRejected
      BY <3>3, <1>1 DEF ReceiveRequest, SetHeight, RequestAccepted, StoreRequest, RequestRejected
    <3>4. CASE \/ \E m \in Masternode, t \in Tx : VoteRefused(m, t)
               \/ \E m \in Masternode, t \in Tx, h \in Height \cup {0} : VoteReceived(m, t, h)
               \/ StartLock \/ FindLock \/ AddSignature \/ CountVotes \/ ReadRequest \/ TrackUnknown
      BY <3>4, <1>1 DEF VoteRefused, VoteReceived, StartLock, FindLock, AddSignature, CountVotes,
                        ReadRequest, TrackUnknown, maps
    <3>5. CASE \/ IsInputLocked \/ FindMine \/ ExpireMine \/ FindTheirs \/ ExpireTheirs
               \/ NoConflict \/ InputsLocked
      BY <3>5, <1>1 DEF IsInputLocked, FindMine, ExpireMine, FindTheirs, ExpireTheirs, Expire,
                        NoConflict, InputsLocked, maps
    <3> QED BY <2>1, <3>1, <3>2, <3>3, <3>4, <3>5 DEF ProcessMessageInstantX
  <2>2. CASE CleanTransactionLocksList
    <3>1. CASE ReleaseInput
      BY <3>1, <1>3 DEF ReleaseInput
    <3>2. CASE ~ReleaseInput
      BY <2>2, <3>2, <1>1 DEF CleanTransactionLocksList, StartCleaning, LookForRequest,
                              ForgetRequest, ForgetRejected, RangeVotes, ForgetVote, EraseLock, maps
    <3> QED BY <3>1, <3>2
  <2>3. CASE Dies
    BY <2>3 DEF Dies
  <2>4. CASE (\E t \in Tx : LeavesPool(t)) \/ TimePasses
    BY <2>4, <1>1 DEF LeavesPool, TimePasses, maps
  <2> QED BY <2>1, <2>2, <2>3, <2>4 DEF IXNext
<1> QED BY <1>4, PTL DEF IXSpec, NeverHandedOver

-----------------------------------------------------------------------------
(* Alerts.                                                                 *)

\* b names a as cancelled, whether or not b is still in effect.
Overrules(b, a) == a.nID <= b.nCancel \/ a.nID \in b.setCancel

\* That no alert kept is cancelled by another one kept is not inductive: an
\* alert that has expired cancels nothing, but the adjusted time may move back
\* and put it in effect again.  What is kept holds for any time.
AlertInv ==
    /\ mapAlerts \subseteq Alert
    /\ \A a \in mapAlerts : WellFormed(a)
    /\ \A a, b \in mapAlerts : a # b => ~Overrules(b, a)

\* An alert that comes leaves the invariant as it is, whatever the time.
LEMMA ReceiveAlertKeeps ==
  ASSUME AlertInv, NEW p, NEW a \in Alert, ReceiveAlert(p, a)
  PROVE  AlertInv'
  <1> DEFINE kept == {m \in mapAlerts : ~Cancels(a, m) /\ IsInEffect(m)}
  <1>1. IsInEffect(a) /\ WellFormed(a)
    BY DEF ReceiveAlert
  <1>2. \A m \in kept : m \in mapAlerts /\ ~Overrules(a, m) /\ IsInEffect(m)
    BY <1>1 DEF Cancels, Overrules
  <1>3. CASE AlreadyCancelled(kept, a)
    <2>1. mapAlerts' = kept
      BY <1>3 DEF ReceiveAlert
    <2> QED
      BY <2>1, <1>2 DEF AlertInv, WellFormed, Overrules
  <1>4. CASE ~AlreadyCancelled(kept, a)
    <2>1. mapAlerts' = kept \cup {a}
      BY <1>4 DEF ReceiveAlert
    <2>2. \A m \in kept : ~Overrules(m, a)
      BY <1>4, <1>2 DEF AlreadyCancelled, Cancels, Overrules
    <2>3. mapAlerts' \subseteq Alert /\ \A m \in mapAlerts' : WellFormed(m)
      BY <2>1, <1>1, <1>2 DEF AlertInv
    <2>4. \A m, n \in mapAlerts' : m # n => ~Overrules(n, m)
      BY <2>1, <2>2, <1>2 DEF AlertInv
    <2> HIDE DEF kept
    <2> QED
      BY <2>3, <2>4 DEF AlertInv, WellFormed, Overrules
  <1> QED
    BY <1>3, <1>4

\* The invariant holds at the start and through every step.
LEMMA AlertInvInductive ==
  /\ SignalsInit => AlertInv
  /\ AlertInv /\ [SignalsNext]_signalVars => AlertInv'
  <1>1. SignalsInit => AlertInv
    BY DEF SignalsInit, AlertInit, AlertInv
  <1>2. ASSUME AlertInv, mapAlerts' = mapAlerts
        PROVE  AlertInv'
    BY <1>2 DEF AlertInv, WellFormed, Overrules
  <1>3. ASSUME AlertInv, [SignalsNext]_signalVars
        PROVE  AlertInv'
    <2>1. CASE \E ip \in Ip, d \in Offset : Version(ip, d)
      BY <2>1, <1>2, <1>3 DEF Version, alertVars
    <2>2. CASE AlertStep
      <3>1. CASE \E p \in AlertPeer, a \in Alert : ReceiveAlert(p, a)
        BY <3>1, <1>3, ReceiveAlertKeeps
      <3>2. CASE \E p \in AlertPeer : ReconnectAlertPeer(p)
        BY <3>2, <1>2, <1>3 DEF ReconnectAlertPeer
      <3>3. CASE Tick
        BY <3>3, <1>2, <1>3 DEF Tick
      <3> QED
        BY <2>2, <3>1, <3>2, <3>3 DEF AlertStep
    <2>3. CASE SporkStep /\ UNCHANGED <<timeVars, alertVars>>
      BY <2>3, <1>2, <1>3 DEF alertVars
    <2>4. CASE UNCHANGED signalVars
      BY <2>4, <1>2, <1>3 DEF signalVars, alertVars
    <2> QED
      BY <1>3, <2>1, <2>2, <2>3, <2>4 DEF SignalsNext
  <1> QED
    BY <1>1, <1>3

\* The alerts kept never cancel one another, and the alert of a compromised
\* key is never kept with one it overrules, in whatever order alerts come and
\* however the adjusted time moves (CAlert::ProcessAlert).
THEOREM AlertsStaySound == SignalsSpec => []AlertsSound
  <1>1. AlertInv => AlertsSound
    <2> SUFFICES ASSUME AlertInv PROVE AlertsSound
      OBVIOUS
    <2>1. NoCancelledAlert
      BY DEF AlertInv, NoCancelledAlert, Cancels, Overrules
    <2>2. CompromiseIsFinal
      <3> SUFFICES ASSUME NEW a \in mapAlerts, a.nID = MaxId, a.urgent,
                          NEW m \in mapAlerts, m # a
                   PROVE  m.nID = MaxId /\ m.urgent
        BY DEF CompromiseIsFinal
      <3>1. a.nCancel = MaxId - 1
        BY DEF AlertInv, WellFormed
      <3>2. ~(m.nID <= MaxId - 1)
        BY <3>1 DEF AlertInv, Overrules
      <3>3. m.nID = MaxId
        BY <3>2, AlertAssumption DEF AlertInv
      <3> QED
        BY <3>3 DEF AlertInv, WellFormed
    <2> QED
      BY <2>1, <2>2 DEF AlertsSound
  <1> QED
    BY <1>1, AlertInvInductive, PTL DEF SignalsSpec

-----------------------------------------------------------------------------
(* Sporks.                                                                 *)

\* The types of the state.
SporkTypeOK ==
    /\ mapSporks \in [SporkNode -> SUBSET Spork]
    /\ mapSporksActive \in [SporkNode -> [SporkId -> Spork \cup {NoSpork}]]
    /\ sporkInv \subseteq SporkNode \X SporkNode \X Spork
    /\ sporkMsg \subseteq SporkNode \X Spork
    /\ signedSporks \subseteq Spork

\* Whatever a node has seen, has active or is sent was signed.
SporksAreSigned ==
    /\ \A n \in SporkNode : mapSporks[n] \subseteq signedSporks
    /\ \A n \in SporkNode, i \in SporkId :
          mapSporksActive[n][i] # NoSpork => mapSporksActive[n][i] \in signedSporks
    /\ \A x \in sporkMsg : x[2] \in signedSporks

SporkInv == SporkTypeOK /\ SporksAreSigned

\* What a node makes active was signed.
LEMMA ActivateKeeps ==
  ASSUME SporkInv, NEW n \in SporkNode, NEW s \in Spork, Activate(n, s),
         signedSporks \subseteq signedSporks', signedSporks' \subseteq Spork, s \in signedSporks',
         sporkMsg' \subseteq sporkMsg
  PROVE  SporkInv'
  <1>1. s.id \in SporkId
    BY DEF SporkId
  <1>2. /\ mapSporks' \in [SporkNode -> SUBSET Spork]
        /\ \A m \in SporkNode : mapSporks'[m] \subseteq mapSporks[m] \cup {s}
    BY DEF Activate, SporkInv, SporkTypeOK
  <1>3. /\ mapSporksActive' \in [SporkNode -> [SporkId -> Spork \cup {NoSpork}]]
        /\ \A m \in SporkNode, i \in SporkId :
              mapSporksActive'[m][i] \in {mapSporksActive[m][i], s}
    BY <1>1 DEF Activate, SporkInv, SporkTypeOK
  <1>4. sporkInv' \subseteq SporkNode \X SporkNode \X Spork
    BY DEF Activate, SporkInv, SporkTypeOK, RelaySpork
  <1>5. SporkTypeOK'
    BY <1>2, <1>3, <1>4 DEF SporkInv, SporkTypeOK, SporkId
  <1>6. SporksAreSigned'
    BY <1>2, <1>3 DEF SporkInv, SporksAreSigned, SporkId, NoSpork
  <1> QED
    BY <1>5, <1>6 DEF SporkInv

\* The invariant holds at the start and through every step.
LEMMA SporkInvInductive ==
  /\ SignalsInit => SporkInv
  /\ SporkInv /\ [SignalsNext]_signalVars => SporkInv'
  <1>1. SignalsInit => SporkInv
    BY DEF SignalsInit, SporkInit, SporkInv, SporkTypeOK, SporksAreSigned
  <1>2. ASSUME SporkInv, UNCHANGED sporkVars
        PROVE  SporkInv'
    BY <1>2 DEF sporkVars, SporkInv, SporkTypeOK, SporksAreSigned, SporkId, NoSpork
  <1>3. ASSUME SporkInv, [SignalsNext]_signalVars
        PROVE  SporkInv'
    <2>1. CASE \E ip \in Ip, d \in Offset : Version(ip, d)
      BY <2>1, <1>2, <1>3 DEF Version
    <2>2. CASE AlertStep
      BY <2>2, <1>2, <1>3 DEF AlertStep
    <2>3. CASE SporkStep
      <3>1. ASSUME NEW n \in SporkNode, NEW s \in Spork, UpdateSpork(n, s)
            PROVE  SporkInv'
        BY <1>3, <3>1, ActivateKeeps DEF UpdateSpork, SporkInv, SporkTypeOK
      <3>2. ASSUME NEW x \in sporkInv, GetSporkData(x[1], x[2], x[3])
            PROVE  SporkInv'
        <4>1. x[2] \in SporkNode /\ x[3] \in Spork /\ x[1] \in SporkNode
          BY <1>3 DEF SporkInv, SporkTypeOK
        <4>2. \A y \in sporkMsg' : y \in sporkMsg \/ (y = <<x[2], x[3]>> /\ x[3] \in mapSporks[x[1]])
          BY <3>2 DEF GetSporkData
        <4>3. \A y \in sporkMsg' : y \in SporkNode \X Spork /\ y[2] \in signedSporks
          BY <4>1, <4>2, <1>3 DEF SporkInv, SporkTypeOK, SporksAreSigned
        <4>4. sporkInv' \subseteq sporkInv /\ UNCHANGED <<mapSporks, mapSporksActive, signedSporks>>
          BY <3>2 DEF GetSporkData
        <4> QED
          BY <4>3, <4>4, <1>3 DEF SporkInv, SporkTypeOK, SporksAreSigned, SporkId, NoSpork
      <3>3. ASSUME NEW x \in sporkMsg, ReceiveSpork(x[1], x[2])
            PROVE  SporkInv'
        <4>1. x[1] \in SporkNode /\ x[2] \in Spork /\ x[2] \in signedSporks
          BY <1>3 DEF SporkInv, SporkTypeOK, SporksAreSigned
        <4>2. sporkMsg' \subseteq sporkMsg /\ signedSporks' = signedSporks
          BY <3>3 DEF ReceiveSpork
        <4>3. CASE SeenSpork(x[1], x[2])
          <5>1. UNCHANGED <<mapSporks, mapSporksActive, sporkInv>>
            BY <3>3, <4>3 DEF ReceiveSpork
          <5> QED
            BY <5>1, <4>2, <1>3 DEF SporkInv, SporkTypeOK, SporksAreSigned, SporkId, NoSpork
        <4>4. CASE ~SeenSpork(x[1], x[2])
          <5>1. Activate(x[1], x[2])
            BY <3>3, <4>4 DEF ReceiveSpork
          <5> QED
            BY <5>1, <4>1, <4>2, <1>3, ActivateKeeps DEF SporkInv, SporkTypeOK
        <4> QED
          BY <4>3, <4>4
      <3>4. ASSUME NEW p \in SporkNode, NEW n \in SporkNode, GetSporks(p, n)
            PROVE  SporkInv'
        <4>1. \A y \in sporkMsg' : \/ y \in sporkMsg
                                   \/ \E i \in SporkId : /\ y = <<n, mapSporksActive[p][i]>>
                                                         /\ mapSporksActive[p][i] # NoSpork
          BY <3>4 DEF GetSporks
        <4>2. \A y \in sporkMsg' : y \in SporkNode \X Spork /\ y[2] \in signedSporks
          BY <4>1, <1>3 DEF SporkInv, SporkTypeOK, SporksAreSigned
        <4>3. UNCHANGED <<mapSporks, mapSporksActive, sporkInv, signedSporks>>
          BY <3>4 DEF GetSporks
        <4> QED
          BY <4>2, <4>3, <1>3 DEF SporkInv, SporkTypeOK, SporksAreSigned, SporkId, NoSpork
      <3> QED
        BY <2>3, <3>1, <3>2, <3>3, <3>4 DEF SporkStep
    <2>4. CASE UNCHANGED signalVars
      BY <2>4, <1>2, <1>3 DEF signalVars
    <2> QED
      BY <1>3, <2>1, <2>2, <2>3, <2>4 DEF SignalsNext
  <1> QED
    BY <1>1, <1>3

\* A spork that is made active and is older than the one before was not seen.
LEMMA ActivateIsNews ==
  ASSUME SporkInv, NEW n \in SporkNode, NEW s \in Spork, Activate(n, s),
         \/ s \notin mapSporks[n]
         \/ mapSporksActive[n][s.id] = NoSpork
         \/ mapSporksActive[n][s.id].nTimeSigned < s.nTimeSigned,
         NEW m \in SporkNode, NEW i \in SporkId,
         mapSporksActive'[m][i].nTimeSigned < mapSporksActive[m][i].nTimeSigned
  PROVE  mapSporksActive'[m][i] \notin mapSporks[m]
  <1>1. s.id \in SporkId
    BY DEF SporkId
  <1>2. /\ mapSporksActive'[n][s.id] = s
        /\ ~(m = n /\ i = s.id) => mapSporksActive'[m][i] = mapSporksActive[m][i]
    BY <1>1 DEF Activate, SporkInv, SporkTypeOK
  <1>3. \A r \in Spork \cup {NoSpork} : r.nTimeSigned \in Nat
    BY SporkAssumption DEF NoSpork
  <1>4. mapSporksActive[m][i] \in Spork \cup {NoSpork} /\ mapSporksActive[n][s.id] \in Spork \cup {NoSpork}
    BY <1>1 DEF SporkInv, SporkTypeOK
  <1>5. NoSpork.nTimeSigned = 0
    BY DEF NoSpork
  <1>6. m = n /\ i = s.id
    <2> SUFFICES ASSUME ~(m = n /\ i = s.id) PROVE FALSE
      OBVIOUS
    <2>1. mapSporksActive[m][i].nTimeSigned < mapSporksActive[m][i].nTimeSigned
      BY <1>2
    <2>2. mapSporksActive[m][i].nTimeSigned \in Nat
      BY <1>3, <1>4
    <2> QED
      BY <2>1, <2>2
  <1>7. s.nTimeSigned < mapSporksActive[n][s.id].nTimeSigned
    BY <1>2, <1>6
  <1>8. s.nTimeSigned \in Nat /\ mapSporksActive[n][s.id].nTimeSigned \in Nat
    BY <1>3, <1>4
  <1>9. s \notin mapSporks[n]
    BY <1>7, <1>8, <1>5
  <1> QED
    BY <1>2, <1>6, <1>9

\* A spork that was superseded on a node never becomes active there again,
\* whichever peer still has it and however long it was under way
\* (ProcessSpork's "seen" check and UpdateSpork).
THEOREM SupersededNeverReturns == SignalsSpec => SupersededStaysOut
  <1> DEFINE Kept == \A n \in SporkNode, i \in SporkId :
                        mapSporksActive'[n][i].nTimeSigned < mapSporksActive[n][i].nTimeSigned
                           => mapSporksActive'[n][i] \notin mapSporks[n]
  <1>1. ASSUME SporkInv, [SignalsNext]_signalVars
        PROVE  [Kept]_sporkVars
    <2> SUFFICES ASSUME ~UNCHANGED sporkVars PROVE Kept
      OBVIOUS
    <2>1. SporkStep
      BY <1>1 DEF SignalsNext, Version, AlertStep, signalVars
    <2>2. ASSUME UNCHANGED mapSporksActive
          PROVE  Kept
      <3>1. \A r \in Spork \cup {NoSpork} : r.nTimeSigned \in Nat
        BY SporkAssumption DEF NoSpork
      <3> SUFFICES ASSUME NEW n \in SporkNode, NEW i \in SporkId
                   PROVE  ~(mapSporksActive[n][i].nTimeSigned < mapSporksActive[n][i].nTimeSigned)
        BY <2>2
      <3>2. mapSporksActive[n][i] \in Spork \cup {NoSpork}
        BY <1>1 DEF SporkInv, SporkTypeOK
      <3>3. mapSporksActive[n][i].nTimeSigned \in Nat
        BY <3>1, <3>2
      <3> QED
        BY <3>3
    <2>3. ASSUME NEW n \in SporkNode, NEW s \in Spork, UpdateSpork(n, s)
          PROVE  Kept
      <3>1. s.id \in SporkId
        BY DEF SporkId
      <3>2. \/ mapSporksActive[n][s.id] = NoSpork
            \/ mapSporksActive[n][s.id].nTimeSigned < s.nTimeSigned
        BY <3>1, <1>1, <2>3 DEF UpdateSpork, SporkInv, SporksAreSigned
      <3>3. Activate(n, s)
        BY <2>3 DEF UpdateSpork
      <3> QED
        BY <3>2, <3>3, <1>1, ActivateIsNews
    <2>4. ASSUME NEW x \in sporkMsg, ReceiveSpork(x[1], x[2])
          PROVE  Kept
      <3>1. x[1] \in SporkNode /\ x[2] \in Spork
        BY <1>1 DEF SporkInv, SporkTypeOK
      <3>2. CASE SeenSpork(x[1], x[2])
        BY <3>2, <2>4, <2>2 DEF ReceiveSpork
      <3>3. CASE ~SeenSpork(x[1], x[2])
        <4> DEFINE n == x[1]
                   s == x[2]
        <4>1. Activate(n, s)
          BY <3>3, <2>4 DEF ReceiveSpork
        <4>2. s.id \in SporkId
          BY <3>1 DEF SporkId
        <4>3. mapSporksActive[n][s.id] \in Spork \cup {NoSpork}
          BY <4>2, <3>1, <1>1 DEF SporkInv, SporkTypeOK
        <4>4. mapSporksActive[n][s.id].nTimeSigned \in Nat /\ s.nTimeSigned \in Nat
          BY <4>3, <3>1, SporkAssumption DEF NoSpork
        <4>5. \/ s \notin mapSporks[n]
              \/ mapSporksActive[n][s.id] = NoSpork
              \/ mapSporksActive[n][s.id].nTimeSigned < s.nTimeSigned
          BY <3>3, <4>4 DEF SeenSpork
        <4> HIDE DEF n, s
        <4>6. n \in SporkNode /\ s \in Spork
          BY <3>1 DEF n, s
        <4> QED
          BY <4>1, <4>5, <4>6, <1>1, ActivateIsNews
      <3> QED
        BY <3>2, <3>3
    <2>5. CASE \E x \in sporkInv : GetSporkData(x[1], x[2], x[3])
      BY <2>5, <2>2 DEF GetSporkData
    <2>6. CASE \E p, n \in SporkNode : p # n /\ GetSporks(p, n)
      BY <2>6, <2>2 DEF GetSporks
    <2> QED
      BY <2>1, <2>3, <2>4, <2>5, <2>6 DEF SporkStep
  <1> QED
    BY <1>1, SporkInvInductive, PTL DEF SignalsSpec, SupersededStaysOut

-----------------------------------------------------------------------------
(* The adjusted time.                                                      *)

\* A nonempty set of numbers has a least one.
LEMMA LeastNat ==
  ASSUME NEW S \in SUBSET Nat, S # {}
  PROVE  \E n \in S : \A m \in S : n <= m
  <1>1. PICK n \in S : \A m \in S : ~(<<m, n>> \in OpToRel(<, Nat))
    BY NatLessThanWellFounded, WFMin
  <1>2. \A m \in S : ~(m < n)
    BY <1>1 DEF OpToRel
  <1> QED
    BY <1>2

\* The positions of s with a value less than v, and with one no greater.
Below(s, v) == {i \in DOMAIN s : s[i] < v}
UpTo(s, v) == {i \in DOMAIN s : s[i] <= v}

\* Positions are finitely many.
LEMMA PositionsFinite ==
  ASSUME NEW s \in Seq(Int), NEW S \in SUBSET DOMAIN s
  PROVE  /\ IsFiniteSet(S) /\ Cardinality(S) \in 0 .. Len(s)
         /\ IsFiniteSet(DOMAIN s) /\ Cardinality(DOMAIN s) = Len(s)
  <1>1. DOMAIN s = 1 .. Len(s) /\ Len(s) \in Nat
    OBVIOUS
  <1>2. IsFiniteSet(1 .. Len(s)) /\ Cardinality(1 .. Len(s)) = Len(s)
    <2>1. PICK n \in Nat : n = Len(s)
      BY <1>1
    <2>2. IsFiniteSet(1 .. n) /\ Cardinality(1 .. n) = IF 1 > n THEN 0 ELSE n - 1 + 1
      BY FS_Interval
    <2> QED
      BY <2>1, <2>2
  <1>3. IsFiniteSet(S) /\ Cardinality(S) <= Cardinality(1 .. Len(s))
    BY <1>1, <1>2, FS_Subset
  <1>4. Cardinality(S) \in Nat
    BY <1>3, FS_CardinalityType
  <1> QED
    BY <1>1, <1>2, <1>3, <1>4

\* Of two sets of positions, one in the other but not the same, the smaller
\* has fewer.
LEMMA FewerPositions ==
  ASSUME NEW s \in Seq(Int), NEW S \in SUBSET DOMAIN s, NEW T \in SUBSET S, T # S
  PROVE  Cardinality(T) < Cardinality(S)
  <1>1. IsFiniteSet(S) /\ Cardinality(S) \in 0 .. Len(s)
    BY PositionsFinite
  <1>2. T \in SUBSET DOMAIN s
    OBVIOUS
  <1>3. Cardinality(T) \in 0 .. Len(s)
    BY <1>2, PositionsFinite
  <1>4. Cardinality(T) <= Cardinality(S) /\ (Cardinality(S) = Cardinality(T) => S = T)
    BY <1>1, FS_Subset
  <1> QED
    BY <1>1, <1>3, <1>4

\* Some value among the positions S of s is the greatest of them.
LEMMA GreatestValue ==
  ASSUME NEW s \in Seq(Int), NEW S \in SUBSET DOMAIN s, S # {}
  PROVE  \E j \in S : \A i \in S : s[i] <= s[j]
  <1> DEFINE Spare(j) == Len(s) - Cardinality(UpTo(s, s[j]))
             N == {Spare(j) : j \in S}
  <1>1. \A j \in S : UpTo(s, s[j]) \in SUBSET DOMAIN s
    BY DEF UpTo
  <1>2. \A j \in S : Cardinality(UpTo(s, s[j])) \in 0 .. Len(s)
    BY <1>1, PositionsFinite
  <1>3. Len(s) \in Nat
    OBVIOUS
  <1>4. N \in SUBSET Nat /\ N # {}
    BY <1>2, <1>3
  <1>5. PICK j \in S : \A i \in S : Spare(j) <= Spare(i)
    <2> HIDE DEF Spare
    <2>1. PICK n \in N : \A m \in N : n <= m
      BY <1>4, LeastNat
    <2> QED
      BY <2>1
  <1>6. ASSUME NEW i \in S, ~(s[i] <= s[j])
        PROVE  FALSE
    <2>1. s[i] \in Int /\ s[j] \in Int /\ s[j] < s[i]
      BY <1>6
    <2>2. UpTo(s, s[j]) \in SUBSET UpTo(s, s[i])
      BY <2>1 DEF UpTo
    <2>3. i \in UpTo(s, s[i]) /\ i \notin UpTo(s, s[j])
      BY <2>1, <1>6 DEF UpTo
    <2>4. Cardinality(UpTo(s, s[j])) < Cardinality(UpTo(s, s[i]))
      BY <2>2, <2>3, <1>1, FewerPositions
    <2>5. Spare(j) <= Spare(i)
      BY <1>5
    <2>6. Cardinality(UpTo(s, s[j])) \in Int /\ Cardinality(UpTo(s, s[i])) \in Int
      BY <1>2
    <2> QED
      BY <2>4, <2>5, <2>6, <1>3
  <1> QED
    BY <1>6

\* There is a k-th value of the sorted sequence.
LEMMA RankExists ==
  ASSUME NEW s \in Seq(Int), NEW k \in 1 .. Len(s)
  PROVE  \E j \in DOMAIN s : Cardinality(Below(s, s[j])) < k /\ Cardinality(UpTo(s, s[j])) >= k
  <1> DEFINE S == {j \in DOMAIN s : Cardinality(UpTo(s, s[j])) >= k}
             N == {Cardinality(UpTo(s, s[j])) : j \in S}
  <1>1. \A j \in DOMAIN s : /\ UpTo(s, s[j]) \in SUBSET DOMAIN s
                            /\ Below(s, s[j]) \in SUBSET DOMAIN s
                            /\ s[j] \in Int
    BY DEF UpTo, Below
  <1>2. \A j \in DOMAIN s : /\ Cardinality(UpTo(s, s[j])) \in Nat
                            /\ Cardinality(Below(s, s[j])) \in Nat
    BY <1>1, PositionsFinite
  <1>3. S # {}
    <2>1. DOMAIN s \in SUBSET DOMAIN s /\ DOMAIN s # {}
      <3>1. DOMAIN s = 1 .. Len(s) /\ Len(s) \in Nat
        OBVIOUS
      <3> QED
        BY <3>1
    <2>2. PICK j \in DOMAIN s : \A i \in DOMAIN s : s[i] <= s[j]
      BY <2>1, GreatestValue
    <2>3. UpTo(s, s[j]) = DOMAIN s
      BY <2>2 DEF UpTo
    <2>4. Cardinality(UpTo(s, s[j])) = Len(s)
      BY <2>1, <2>3, PositionsFinite
    <2> QED
      BY <2>4
  <1>4. N \in SUBSET Nat /\ N # {}
    BY <1>2, <1>3
  <1>5. PICK j \in S : \A i \in S : Cardinality(UpTo(s, s[j])) <= Cardinality(UpTo(s, s[i]))
    <2> HIDE DEF S
    <2>1. PICK n \in N : \A m \in N : n <= m
      BY <1>4, LeastNat
    <2> QED
      BY <2>1
  <1>6. ASSUME Cardinality(Below(s, s[j])) >= k
        PROVE  FALSE
    <2>1. Below(s, s[j]) \in SUBSET DOMAIN s
      BY <1>1
    <2>2. Below(s, s[j]) # {}
      <3>1. Cardinality(Below(s, s[j])) # 0
        BY <1>6, <1>2
      <3> QED
        BY <3>1, FS_EmptySet
    <2>3. PICK w \in Below(s, s[j]) : \A i \in Below(s, s[j]) : s[i] <= s[w]
      BY <2>1, <2>2, GreatestValue
    <2>4. UpTo(s, s[w]) = Below(s, s[j])
      BY <2>3, <1>1 DEF UpTo, Below
    <2>5. w \in S
      BY <2>4, <2>1, <1>6
    <2>6. Below(s, s[j]) \in SUBSET UpTo(s, s[j]) /\ j \in UpTo(s, s[j]) /\ j \notin Below(s, s[j])
      BY <1>1 DEF UpTo, Below
    <2>7. Cardinality(Below(s, s[j])) < Cardinality(UpTo(s, s[j]))
      BY <2>6, <1>1, FewerPositions
    <2>8. Cardinality(UpTo(s, s[j])) <= Cardinality(Below(s, s[j]))
      BY <2>4, <2>5, <1>5
    <2> QED
      BY <2>7, <2>8, <1>2
  <1> QED
    BY <1>6, <1>2

\* What Ranked returns.
LEMMA RankedIs ==
  ASSUME NEW s \in Seq(Int), NEW k \in 1 .. Len(s)
  PROVE  /\ Ranked(s, k) \in {s[i] : i \in DOMAIN s}
         /\ Ranked(s, k) \in Int
         /\ Cardinality(Below(s, Ranked(s, k))) < k
         /\ Cardinality(UpTo(s, Ranked(s, k))) >= k
  <1> DEFINE P(v) == /\ Cardinality({i \in DOMAIN s : s[i] < v}) < k
                     /\ Cardinality({i \in DOMAIN s : s[i] <= v}) >= k
  <1>1. \E v \in {s[i] : i \in DOMAIN s} : P(v)
    BY RankExists DEF Below, UpTo
  <1>2. Ranked(s, k) = CHOOSE v \in {s[i] : i \in DOMAIN s} : P(v)
    BY DEF Ranked
  <1>3. Ranked(s, k) \in {s[i] : i \in DOMAIN s} /\ P(Ranked(s, k))
    <2> HIDE DEF P
    <2> QED
      BY <1>1, <1>2
  <1> QED
    BY <1>3 DEF Below, UpTo

\* More than half of the values keep the median among them.
LEMMA MajorityKeepsMedian ==
  ASSUME NEW s \in Seq(Int), Len(s) % 2 = 1, NEW lo \in Int, NEW hi \in Int,
         2 * Cardinality(Between(s, lo, hi)) > Len(s)
  PROVE  lo <= Median(s) /\ Median(s) <= hi
  <1> DEFINE n == Len(s)
             k == n \div 2 + 1
             m == Median(s)
             B == Between(s, lo, hi)
  <1>1. n \in Nat /\ k \in 1 .. n /\ n = 2 * (k - 1) + 1
    OBVIOUS
  <1>2. m \in Int /\ Cardinality(Below(s, m)) < k /\ Cardinality(UpTo(s, m)) >= k
    BY <1>1, RankedIs DEF Median
  <1>3. /\ B \in SUBSET DOMAIN s /\ Below(s, m) \in SUBSET DOMAIN s /\ UpTo(s, m) \in SUBSET DOMAIN s
        /\ DOMAIN s \in SUBSET DOMAIN s
    BY DEF Between, Below, UpTo
  <1>4. /\ IsFiniteSet(B) /\ Cardinality(B) \in Nat
        /\ IsFiniteSet(Below(s, m)) /\ Cardinality(Below(s, m)) \in Nat
        /\ IsFiniteSet(UpTo(s, m)) /\ Cardinality(UpTo(s, m)) \in Nat
        /\ IsFiniteSet(DOMAIN s) /\ Cardinality(DOMAIN s) = n
    BY <1>3, PositionsFinite
  <1>5. Cardinality(B) >= k
    BY <1>1, <1>4
  <1>6. ASSUME m < lo
        PROVE  FALSE
    <2>1. B \cap UpTo(s, m) = {}
      BY <1>2, <1>6 DEF Between, UpTo
    <2>2. Cardinality(B \cup UpTo(s, m)) = Cardinality(B) + Cardinality(UpTo(s, m)) - Cardinality(B \cap UpTo(s, m))
      BY <1>4, FS_Union
    <2>3. B \cup UpTo(s, m) \in SUBSET DOMAIN s
      BY <1>3
    <2>4. Cardinality(B \cup UpTo(s, m)) <= n
      BY <2>3, <1>4, FS_Subset
    <2>5. Cardinality(B \cap UpTo(s, m)) = 0
      BY <2>1, FS_EmptySet
    <2> QED
      BY <2>2, <2>4, <2>5, <1>1, <1>2, <1>4, <1>5, SMTT(30)
  <1>7. ASSUME hi < m
        PROVE  FALSE
    <2>1. B \in SUBSET Below(s, m)
      BY <1>2, <1>7 DEF Between, Below
    <2>2. Cardinality(B) <= Cardinality(Below(s, m))
      BY <2>1, <1>4, FS_Subset
    <2> QED
      BY <2>2, <1>1, <1>2, <1>4, <1>5
  <1> QED
    BY <1>2, <1>6, <1>7

\* The types of the filter, and where nTimeOffset comes from.
TimeInv ==
    /\ TimeTypeOK
    /\ nTimeOffset \in Int
    /\ basis \in Seq(Int)
    /\ nTimeOffset = 0 \/ (Len(basis) % 2 = 1 /\ nTimeOffset = Median(basis))

\* The filter takes one more value, and lets one go when it is full.
LEMMA InputIs ==
  ASSUME TimeTypeOK, NEW d \in Offset
  PROVE  /\ Input(vTimeOffsets, d) \in Seq(Offset \cup {0})
         /\ Input(vTimeOffsets, d) \in Seq(Int)
         /\ Len(Input(vTimeOffsets, d)) \in 1 .. FilterSize
  <1> DEFINE v == vTimeOffsets
  <1>1. v \in Seq(Offset \cup {0}) /\ Len(v) \in 1 .. FilterSize
    BY DEF TimeTypeOK
  <1>2. Offset \cup {0} \subseteq Int /\ FilterSize \in Nat
    BY TimeAssumption
  <1>3. CASE Len(v) = FilterSize
    <2>1. Input(v, d) = Append(Tail(v), d)
      BY <1>3 DEF Input
    <2>2. Tail(v) \in Seq(Offset \cup {0}) /\ Len(Tail(v)) = Len(v) - 1
      BY <1>1
    <2>3. /\ Append(Tail(v), d) \in Seq(Offset \cup {0})
          /\ Len(Append(Tail(v), d)) = Len(Tail(v)) + 1
      BY <2>2
    <2> QED
      BY <2>1, <2>2, <2>3, <1>1, <1>2
  <1>4. CASE Len(v) # FilterSize
    <2>1. Input(v, d) = Append(v, d)
      BY <1>4 DEF Input
    <2>2. Append(v, d) \in Seq(Offset \cup {0}) /\ Len(Append(v, d)) = Len(v) + 1
      BY <1>1
    <2> QED
      BY <2>1, <2>2, <1>1, <1>2, <1>4
  <1> QED
    BY <1>3, <1>4

\* A sample leaves the invariant as it is.
LEMMA AddTimeDataKeeps ==
  ASSUME TimeInv, NEW ip \in Ip, NEW d \in Offset, AddTimeData(ip, d)
  PROVE  TimeInv'
  <1> DEFINE values == Input(vTimeOffsets, d)
             counted == Len(values) >= MinSamples /\ Len(values) % 2 = 1
             small == abs64(Median(values)) < MaxAdjust
  <1>1. values \in Seq(Offset \cup {0}) /\ values \in Seq(Int) /\ Len(values) \in 1 .. FilterSize
    BY InputIs DEF TimeInv
  <1>2. /\ setKnown' = setKnown \cup {ip} /\ vTimeOffsets' = values
        /\ fDone' \in BOOLEAN
        /\ ~counted => nTimeOffset' = nTimeOffset /\ basis' = basis
        /\ counted => basis' = values
        /\ counted /\ small => nTimeOffset' = Median(values)
        /\ counted /\ ~small => nTimeOffset' = 0
    BY DEF AddTimeData
  <1> HIDE DEF values
  <1>3. counted => Median(values) \in Int
    <2>1. ASSUME counted
          PROVE  Len(values) \div 2 + 1 \in 1 .. Len(values)
      BY <2>1, <1>1
    <2> QED
      BY <2>1, <1>1, RankedIs DEF Median
  <1>4. abs64(0) = 0 /\ 0 < MaxAdjust
    BY TimeAssumption DEF abs64
  <1>5. abs64(nTimeOffset') < MaxAdjust /\ nTimeOffset' \in Int
    BY <1>2, <1>3, <1>4 DEF TimeInv, TimeTypeOK
  <1>6. TimeTypeOK'
    BY <1>1, <1>2, <1>5 DEF TimeInv, TimeTypeOK
  <1>7. basis' \in Seq(Int) /\ (nTimeOffset' = 0 \/ (Len(basis') % 2 = 1 /\ nTimeOffset' = Median(basis')))
    BY <1>1, <1>2 DEF TimeInv
  <1> QED
    BY <1>5, <1>6, <1>7 DEF TimeInv, Median, Ranked

\* The invariant holds at the start and through every step.
LEMMA TimeInvInductive ==
  /\ SignalsInit => TimeInv
  /\ TimeInv /\ [SignalsNext]_signalVars => TimeInv'
  <1>1. ASSUME SignalsInit
        PROVE  TimeInv
    <2>1. setKnown = {} /\ vTimeOffsets = <<0>> /\ nTimeOffset = 0 /\ fDone = FALSE /\ basis = <<>>
      BY <1>1 DEF SignalsInit, TimeInit
    <2>2. <<0>> \in Seq(Offset \cup {0}) /\ Len(<<0>>) = 1 /\ 1 \in 1 .. FilterSize
      BY TimeAssumption
    <2>3. abs64(0) < MaxAdjust
      BY TimeAssumption DEF abs64
    <2>4. basis \in Seq(Int)
      BY <2>1
    <2>5. TimeTypeOK
      BY <2>1, <2>2, <2>3, Zenon DEF TimeTypeOK
    <2> QED
      BY <2>1, <2>4, <2>5 DEF TimeInv
  <1>2. ASSUME TimeInv, UNCHANGED timeVars
        PROVE  TimeInv'
    BY <1>2 DEF timeVars, TimeInv, TimeTypeOK, Median, Ranked
  <1>3. ASSUME TimeInv, [SignalsNext]_signalVars
        PROVE  TimeInv'
    <2>1. CASE \E ip \in Ip, d \in Offset : Version(ip, d)
      BY <2>1, <1>3, AddTimeDataKeeps DEF Version
    <2>2. CASE AlertStep
      BY <2>2, <1>2, <1>3 DEF AlertStep
    <2>3. CASE SporkStep /\ UNCHANGED <<timeVars, alertVars>>
      BY <2>3, <1>2, <1>3
    <2>4. CASE UNCHANGED signalVars
      BY <2>4, <1>2, <1>3 DEF signalVars
    <2> QED
      BY <1>3, <2>1, <2>2, <2>3, <2>4 DEF SignalsNext
  <1> QED
    BY <1>1, <1>3

\* The adjusted time stays within its limit, and as long as more than half of
\* the clocks agree to within some bounds it is theirs or the node's own,
\* whatever the others say and whichever value the full filter lets go
\* (AddTimeData and CMedianFilter).
THEOREM TimeStaysSound == SignalsSpec => []TimeSound
  <1>1. ASSUME TimeInv
        PROVE  TimeSound
    <2>1. ASSUME NEW lo \in Offset \cup {0}, NEW hi \in Offset \cup {0},
                 2 * Cardinality(Between(basis, lo, hi)) > Len(basis), nTimeOffset # 0
          PROVE  lo <= nTimeOffset /\ nTimeOffset <= hi
      <3>1. lo \in Int /\ hi \in Int
        BY TimeAssumption
      <3>2. basis \in Seq(Int) /\ Len(basis) % 2 = 1 /\ nTimeOffset = Median(basis)
        BY <1>1, <2>1 DEF TimeInv
      <3> QED
        BY <2>1, <3>1, <3>2, MajorityKeepsMedian
    <2> QED
      BY <1>1, <2>1 DEF TimeSound, TimeInv, MajorityKeepsTime
  <1> QED
    BY <1>1, TimeInvInductive, PTL DEF SignalsSpec
=============================================================================
