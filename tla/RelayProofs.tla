---------------------------- MODULE RelayProofs ----------------------------
(***************************************************************************)
(* Proofs about loose transactions (Relay), for any transactions, peers,   *)
(* hashes and limit: the index of orphans by parent stays exact, and the   *)
(* loop of the "tx" handler adopts every generation of orphans.            *)
(*                                                                         *)
(* The loop appends to the queue it walks through.  What it keeps is said  *)
(* of the part of the queue it has walked: an orphan with a parent there   *)
(* is done with, or an input of it is missing, or another parent of it is  *)
(* still ahead in the queue.  When the end is reached nothing is ahead.    *)
(***************************************************************************)
EXTENDS Relay, FoldProofs, FunctionTheorems

PoolType == [mapTx : SUBSET Tx, mapNextTx : UNION {[D -> Tx] : D \in SUBSET (Tx \X Nat)}]

\* The state of the loop over vWorkQueue.
LoopType == [queue : Seq(Tx), pool : PoolType, erase : SUBSET Tx]

\* The transactions in the first k places of the queue.
Walked(q, k) == {q[j] : j \in {i \in 1..Len(q) : i <= k}}
Ahead(q, k)  == {q[j] : j \in {i \in 1..Len(q) : i > k}}

-----------------------------------------------------------------------------
(* One orphan is tried.                                                    *)

\* addUnchecked gives a pool.
LEMMA AddType ==
  ASSUME NEW p \in PoolType, NEW t \in Tx
  PROVE  addUnchecked(p, t) \in PoolType /\ addUnchecked(p, t).mapTx = p.mapTx \cup {t}
  <1>1. PICK D \in SUBSET (Tx \X Nat) : p.mapNextTx \in [D -> Tx]
    BY DEF PoolType
  <1> DEFINE E == DOMAIN p.mapNextTx \cup Vin[t]
             q == [o \in E |-> IF o \in Vin[t] THEN t ELSE p.mapNextTx[o]]
  <1>2. E \in SUBSET (Tx \X Nat) /\ q \in [E -> Tx]
    BY <1>1, Transactions
  <1>3. addUnchecked(p, t) = [mapTx |-> p.mapTx \cup {t}, mapNextTx |-> q]
    BY DEF addUnchecked
  <1> HIDE DEF E, q
  <1>4. q \in UNION {[F -> Tx] : F \in SUBSET (Tx \X Nat)}
    BY <1>2
  <1>5. p.mapTx \cup {t} \in SUBSET Tx
    BY DEF PoolType
  <1> QED
    BY <1>3, <1>4, <1>5 DEF PoolType

\* remove gives a pool.
LEMMA RemoveType ==
  ASSUME NEW p \in PoolType, NEW t \in Tx
  PROVE  remove(p, t) \in PoolType /\ remove(p, t).mapTx = p.mapTx \ {t}
  <1>1. CASE t \notin p.mapTx
    BY <1>1 DEF remove, PoolType
  <1>2. CASE t \in p.mapTx
    <2>1. PICK D \in SUBSET (Tx \X Nat) : p.mapNextTx \in [D -> Tx]
      BY DEF PoolType
    <2> DEFINE E == DOMAIN p.mapNextTx \ UNION {Vin[u] : u \in {t}}
               q == Restrict(p.mapNextTx, E)
    <2>2. E \in SUBSET (Tx \X Nat) /\ q \in [E -> Tx]
      BY <2>1 DEF Restrict
    <2>3. remove(p, t) = [mapTx |-> p.mapTx \ {t}, mapNextTx |-> q]
      BY <1>2 DEF remove, Erase
    <2> HIDE DEF E, q
    <2>4. q \in UNION {[F -> Tx] : F \in SUBSET (Tx \X Nat)}
      BY <2>2
    <2>5. p.mapTx \ {t} \in SUBSET Tx
      BY DEF PoolType
    <2> QED
      BY <2>3, <2>4, <2>5 DEF PoolType
  <1> QED
    BY <1>1, <1>2

\* The three things that can become of an orphan.
Accepted(r, o) ==
    /\ o \notin r.pool.mapTx
    /\ Try(r, o).queue = Append(r.queue, o)
    /\ Try(r, o).pool.mapTx = r.pool.mapTx \cup {o}
    /\ Try(r, o).erase = r.erase \cup {o}

Dropped(r, o) ==
    /\ Try(r, o).queue = r.queue /\ Try(r, o).pool = r.pool
    /\ Try(r, o).erase = r.erase \cup {o}

KeptWaiting(r, o) == Try(r, o) = r /\ ~Known(r.pool, o)

LEMMA TryIs ==
  ASSUME NEW r \in LoopType, NEW o \in Tx
  PROVE  /\ Try(r, o) \in LoopType
         /\ Accepted(r, o) \/ Dropped(r, o) \/ KeptWaiting(r, o)
  <1>1. r.queue \in Seq(Tx) /\ r.pool \in PoolType /\ r.erase \in SUBSET Tx
    BY DEF LoopType
  <1>2. r.erase \cup {o} \in SUBSET Tx
    BY <1>1
  <1>3. CASE Acceptable(r.pool, o)
    <2> DEFINE p == addUnchecked(r.pool, o)
    <2>1. p \in PoolType /\ p.mapTx = r.pool.mapTx \cup {o}
      BY <1>1, AddType
    <2>2. Try(r, o) = [queue |-> Append(r.queue, o), pool |-> p, erase |-> r.erase \cup {o}]
      BY <1>3 DEF Try
    <2>3. o \notin r.pool.mapTx
      BY <1>3 DEF Acceptable, New, NoConflict
    <2> HIDE DEF p
    <2>4. Append(r.queue, o) \in Seq(Tx)
      BY <1>1
    <2> QED
      BY <1>2, <2>1, <2>2, <2>3, <2>4 DEF LoopType, Accepted
  <1>4. CASE ~Acceptable(r.pool, o) /\ ~MissingInputs(r.pool, o)
    <2>1. Try(r, o) = [r EXCEPT !.erase = @ \cup {o}]
      BY <1>4 DEF Try
    <2> QED
      BY <1>1, <1>2, <2>1 DEF LoopType, Dropped
  <1>5. CASE ~Acceptable(r.pool, o) /\ MissingInputs(r.pool, o)
    <2>1. Try(r, o) = r
      BY <1>5 DEF Try
    <2> QED
      BY <1>5, <2>1 DEF KeptWaiting, MissingInputs
  <1> QED
    BY <1>3, <1>4, <1>5

-----------------------------------------------------------------------------
(* The loops, one step after the other.                                    *)

\* The step of the inner loop.
TryIf(h, r, o) == IF o \in byPrev[h] THEN Try(r, o) ELSE r

\* The inner loop tries one orphan after the other.
LEMMA RoundRun ==
  ASSUME NEW r \in LoopType, NEW h \in DOMAIN byPrev
  PROVE  \E g : /\ g[0] = r /\ g[Len(HashOrder)] = Round(r, h)
                /\ \A i \in 1..Len(HashOrder) : g[i] = TryIf(h, g[i - 1], HashOrder[i])
  <1> DEFINE seq == HashOrder
             n == Len(seq)
             F == [x \in LoopType \X Tx |-> TryIf(h, x[1], x[2])]
             iter == CHOOSE g : g = [s \in SUBSET (1..n) |->
                        IF s = {} THEN r ELSE TryIf(h, g[s \ {Max(s)}], seq[Max(s)])]
             f == [i \in 0..n |-> iter[1..i]]
  <1>1. n \in Nat /\ seq \in Seq(Tx) /\ DOMAIN seq = 1..n /\ \A i \in 1..n : seq[i] \in Tx
    BY OrderAssumption
  <1>2. F \in [LoopType \X Tx -> LoopType] /\ \A x \in LoopType, t \in Tx : F[<<x, t>>] = TryIf(h, x, t)
    BY TryIs DEF TryIf
  <1>3. iter = [s \in SUBSET (1..n) |->
                   IF s = {} THEN r ELSE TryIf(h, iter[s \ {Max(s)}], seq[Max(s)])]
    <2>1. PICK g : FoldedBy(g, F, r, seq) /\ \A s \in SUBSET (1..n) : g[s] \in LoopType
      <3> HIDE DEF F
      <3> QED
        BY <1>1, <1>2, FoldExists
    <2> HIDE DEF F
    <2>2. ASSUME NEW s \in SUBSET (1..n)
          PROVE  g[s] = IF s = {} THEN r ELSE TryIf(h, g[s \ {Max(s)}], seq[Max(s)])
      <3>1. CASE s = {}
        BY <2>1, <3>1 DEF FoldedBy
      <3>2. CASE s # {}
        <4>1. Max(s) \in 1..n /\ s \ {Max(s)} \in SUBSET (1..n)
          BY <1>1, <3>2, MaxInside
        <4>2. g[s \ {Max(s)}] \in LoopType /\ seq[Max(s)] \in Tx
          BY <1>1, <2>1, <4>1
        <4>3. g[s] = F[<<g[s \ {Max(s)}], seq[Max(s)]>>]
          BY <2>1, <3>2 DEF FoldedBy
        <4> QED
          BY <1>2, <3>2, <4>2, <4>3
      <3> QED
        BY <3>1, <3>2
    <2>3. g = [s \in SUBSET (1..n) |-> g[s]]
      BY <2>1 DEF FoldedBy
    <2>4. g = [s \in SUBSET (1..n) |-> IF s = {} THEN r ELSE TryIf(h, g[s \ {Max(s)}], seq[Max(s)])]
      BY <2>2, <2>3
    <2> QED
      BY <2>4
  <1>4. Round(r, h) = iter[1..n]
    BY <1>1 DEF Round, FoldLeft, MapThenFoldSet, TryIf
  <1> HIDE DEF iter
  <1>5. f[0] = r
    BY <1>1, <1>3
  <1>6. ASSUME NEW i \in 1..n
        PROVE  f[i] = TryIf(h, f[i - 1], seq[i])
    <2>1. f[i] = iter[1..i] /\ f[i - 1] = iter[1..(i - 1)]
      BY <1>1
    <2>2. /\ 1..i \in SUBSET (1..n) /\ 1..i # {} /\ Max(1..i) = i
          /\ (1..i) \ {Max(1..i)} = 1..(i - 1)
      BY <1>1, FoldInOrder
    <2>3. iter[1..i] = TryIf(h, iter[(1..i) \ {Max(1..i)}], seq[Max(1..i)])
      <3> HIDE DEF n
      <3> QED
        BY <1>3, <2>2
    <2> QED
      BY <2>1, <2>2, <2>3
  <1>7. f[n] = iter[1..n]
    BY <1>1
  <1> HIDE DEF f
  <1> QED
    BY <1>4, <1>5, <1>6, <1>7
-----------------------------------------------------------------------------
(* What the loops keep.                                                    *)

\* The transactions of the queue: new to the pool, in it now, and all to be
\* erased from the orphans.
Queued(q) == {q[j] : j \in 1..Len(q)}

LoopInv(r) ==
    /\ r \in LoopType
    /\ r.pool.mapTx = pool.mapTx \cup Queued(r.queue)
    /\ Queued(r.queue) \subseteq r.erase \cap Loose
    /\ Queued(r.queue) \cap pool.mapTx = {}
    /\ \A i, j \in 1..Len(r.queue) : i # j => r.queue[i] # r.queue[j]

\* The first k transactions of the queue have done for o what they can.
ServedBy(r, o, k) ==
    Walked(r.queue, k) \cap Parents(o) # {} =>
        o \in r.erase \/ ~Known(r.pool, o) \/ Ahead(r.queue, k) \cap Parents(o) # {}

\* s is r after some orphans were tried.
Grown(r, s) == Len(s.queue) >= Len(r.queue) /\ \A j \in 1..Len(r.queue) : s.queue[j] = r.queue[j]

LEMMA TryKeeps ==
  ASSUME NEW r, LoopInv(r), NEW o \in Loose, NEW k \in Nat, k <= Len(r.queue)
  PROVE  /\ LoopInv(Try(r, o)) /\ Grown(r, Try(r, o))
         /\ ServedBy(Try(r, o), o, k)
         /\ \A x \in Tx : ServedBy(r, x, k) => ServedBy(Try(r, o), x, k)
  <1> DEFINE s == Try(r, o)
  <1>1. r \in LoopType /\ r.queue \in Seq(Tx) /\ Len(r.queue) \in Nat /\ o \in Tx
    BY DEF LoopInv, LoopType, Loose
  <1>2. s \in LoopType /\ (Accepted(r, o) \/ Dropped(r, o) \/ KeptWaiting(r, o))
    BY <1>1, TryIs
  <1>3. CASE KeptWaiting(r, o)
    <2>1. s = r /\ ~Known(r.pool, o)
      BY <1>3 DEF KeptWaiting
    <2> QED
      BY <1>1, <2>1 DEF Grown, ServedBy
  <1>4. CASE Dropped(r, o)
    <2>1. s.queue = r.queue /\ s.pool = r.pool /\ s.erase = r.erase \cup {o}
      BY <1>4 DEF Dropped
    <2> HIDE DEF s
    <2>2. LoopInv(s)
      BY <1>2, <2>1 DEF LoopInv
    <2> QED
      BY <1>1, <2>1, <2>2 DEF s, Grown, ServedBy
  <1>5. CASE Accepted(r, o)
    <2> DEFINE q == r.queue
    <2>1. /\ o \notin r.pool.mapTx /\ s.queue = Append(q, o)
          /\ s.pool.mapTx = r.pool.mapTx \cup {o} /\ s.erase = r.erase \cup {o}
      BY <1>5 DEF Accepted
    <2> HIDE DEF s
    <2>2. /\ Len(s.queue) = Len(q) + 1 /\ s.queue[Len(q) + 1] = o
          /\ \A j \in 1..Len(q) : s.queue[j] = q[j]
      BY <1>1, <2>1
    <2>3. \A j \in 1..Len(s.queue) : j = Len(q) + 1 \/ j \in 1..Len(q)
      BY <1>1, <2>2
    <2>4. Len(q) + 1 \in 1..Len(s.queue) /\ \A j \in 1..Len(q) : j \in 1..Len(s.queue)
      BY <1>1, <2>2
    <2>5. Queued(s.queue) = Queued(q) \cup {o}
      BY <2>2, <2>3, <2>4 DEF Queued
    <2>6. Walked(s.queue, k) = Walked(q, k) /\ Ahead(s.queue, k) = Ahead(q, k) \cup {o}
      <3>1. {i \in 1..Len(s.queue) : i <= k} = {i \in 1..Len(q) : i <= k}
        BY <1>1, <2>2
      <3>2. {i \in 1..Len(s.queue) : i > k} = {i \in 1..Len(q) : i > k} \cup {Len(q) + 1}
        BY <1>1, <2>2
      <3>3. Walked(s.queue, k) = Walked(q, k)
        BY <2>2, <3>1 DEF Walked
      <3>4. Ahead(s.queue, k) = {s.queue[j] : j \in {i \in 1..Len(q) : i > k}} \cup {s.queue[Len(q) + 1]}
        BY <3>2 DEF Ahead
      <3>5. {s.queue[j] : j \in {i \in 1..Len(q) : i > k}} = Ahead(q, k)
        BY <2>2 DEF Ahead
      <3> QED
        BY <2>2, <3>3, <3>4, <3>5
    <2>7. LoopInv(s)
      <3>1. \A j \in 1..Len(q) : q[j] # o
        BY <2>1 DEF LoopInv, Queued
      <3>2. \A i, j \in 1..Len(s.queue) : i # j => s.queue[i] # s.queue[j]
        BY <2>2, <2>3, <3>1 DEF LoopInv
      <3>3. o \notin pool.mapTx
        BY <2>1 DEF LoopInv
      <3> QED
        BY <1>2, <2>1, <2>5, <3>2, <3>3 DEF LoopInv
    <2>8. Grown(r, s)
      BY <1>1, <2>2 DEF Grown
    <2>9. ASSUME NEW x \in Tx, ServedBy(r, x, k)
          PROVE  ServedBy(s, x, k)
      <3>1. CASE o \in Parents(x)
        BY <2>6, <3>1 DEF ServedBy
      <3>2. CASE o \notin Parents(x)
        <4>1. Known(s.pool, x) => Known(r.pool, x)
          BY <2>1, <3>2 DEF Known, Parents
        <4> QED
          BY <2>1, <2>6, <2>9, <4>1 DEF ServedBy
      <3> QED
        BY <3>1, <3>2
    <2>10. ServedBy(s, o, k)
      BY <2>1 DEF ServedBy
    <2> QED
      BY <2>7, <2>8, <2>9, <2>10 DEF s
  <1> QED
    BY <1>2, <1>3, <1>4, <1>5

\* A round serves the orphans that wait for its transaction, and undoes
\* nothing of what the rounds before it did.
LEMMA RoundKeeps ==
  ASSUME NEW r, LoopInv(r), NEW i \in 1..Len(r.queue), OrphanIndexExact, orphans \subseteq Loose,
         \A o \in orphans : ServedBy(r, o, i - 1)
  PROVE  LET s == Round(r, r.queue[i])
         IN  LoopInv(s) /\ Grown(r, s) /\ \A o \in orphans : ServedBy(s, o, i)
  <1> DEFINE h == r.queue[i]
             n == Len(HashOrder)
  <1>1. r \in LoopType /\ Len(r.queue) \in Nat /\ i \in Nat /\ i <= Len(r.queue) /\ orphans \subseteq Tx
    BY DEF LoopInv, LoopType, Loose
  <1>2. \A j \in 1..n : HashOrder[j] \in Loose
    BY OrderAssumption DEF Range, Loose
  <1>3. ASSUME NEW o \in orphans, h \notin Parents(o)
        PROVE  ServedBy(r, o, i)
    <2>1. Walked(r.queue, i) \subseteq Walked(r.queue, i - 1) \cup {h}
      <3>1. \A j \in 1..Len(r.queue) : j <= i => j <= i - 1 \/ j = i
        BY <1>1
      <3> QED
        BY <3>1 DEF Walked
    <2>2. Ahead(r.queue, i - 1) \subseteq Ahead(r.queue, i) \cup {h}
      <3>1. \A j \in 1..Len(r.queue) : j > i - 1 => j > i \/ j = i
        BY <1>1
      <3> QED
        BY <3>1 DEF Ahead
    <2>3. ServedBy(r, o, i - 1)
      OBVIOUS
    <2> HIDE DEF h
    <2> QED
      BY <1>3, <2>1, <2>2, <2>3 DEF ServedBy
  <1>4. CASE h \notin DOMAIN byPrev
    <2>1. Round(r, h) = r
      BY <1>4 DEF Round
    <2>2. \A o \in orphans : h \notin Parents(o)
      BY <1>4 DEF OrphanIndexExact
    <2> QED
      BY <1>1, <1>3, <2>1, <2>2 DEF Grown
  <1>5. CASE h \in DOMAIN byPrev
    <2>0. \A o \in orphans : h \in Parents(o) => o \in byPrev[h]
      BY <1>5 DEF OrphanIndexExact
    <2>1. PICK g : /\ g[0] = r /\ g[n] = Round(r, h)
                   /\ \A j \in 1..n : g[j] = TryIf(h, g[j - 1], HashOrder[j])
      BY <1>1, <1>5, RoundRun
    <2> HIDE DEF h
    <2> DEFINE Tried(m) == {HashOrder[j] : j \in 1..m}
               Good(m) == /\ LoopInv(g[m]) /\ Grown(r, g[m])
                          /\ \A o \in orphans : h \notin Parents(o) \/ o \in Tried(m) => ServedBy(g[m], o, i)
               S == {m \in 0..n : Good(m)}
    <2>2. n \in Nat
      BY OrderAssumption
    <2>3. 0 \in S
      <3>1. Tried(0) = {}
        OBVIOUS
      <3>2. Good(0)
        BY <1>1, <1>3, <2>1, <3>1 DEF Grown
      <3> HIDE DEF Good
      <3> QED
        BY <2>2, <3>2
    <2>4. ASSUME NEW m \in 1..n, m - 1 \in S
          PROVE  m \in S
      <3> DEFINE a == g[m - 1]
                 b == g[m]
                 t == HashOrder[m]
      <3>1. Good(m - 1) /\ m \in 0..n
        BY <2>2, <2>4
      <3>2. b = TryIf(h, a, t) /\ t \in Loose /\ t \in Tx
        BY <1>2, <2>1 DEF Loose
      <3>3. Tried(m) = Tried(m - 1) \cup {t}
        <4>1. 1..m = (1..(m - 1)) \cup {m}
          BY <2>2
        <4> QED
          BY <4>1
      <3>4. /\ LoopInv(a) /\ Grown(r, a)
            /\ \A o \in orphans : h \notin Parents(o) \/ o \in Tried(m - 1) => ServedBy(a, o, i)
        BY <3>1
      <3>5. i <= Len(a.queue) /\ Len(a.queue) \in Nat
        BY <1>1, <3>4 DEF Grown, LoopInv, LoopType
      <3> HIDE DEF Tried, a, b, t
      <3>6. CASE t \notin byPrev[h]
        <4>1. b = a
          BY <3>2, <3>6 DEF TryIf
        <4>2. t \in orphans => h \notin Parents(t)
          BY <2>0, <3>6
        <4>3. \A o \in orphans : h \notin Parents(o) \/ o \in Tried(m) => ServedBy(b, o, i)
          BY <3>3, <3>4, <4>1, <4>2
        <4>4. Good(m)
          BY <3>4, <4>1, <4>3 DEF b
        <4> HIDE DEF Good
        <4> QED
          BY <3>1, <4>4
      <3>7. CASE t \in byPrev[h]
        <4>1. b = Try(a, t)
          BY <3>2, <3>7 DEF TryIf
        <4>2. /\ LoopInv(b) /\ Grown(a, b) /\ ServedBy(b, t, i)
              /\ \A x \in Tx : ServedBy(a, x, i) => ServedBy(b, x, i)
          BY <1>1, <3>2, <3>4, <3>5, <4>1, TryKeeps
        <4>3. Grown(r, b)
          <5>1. Len(b.queue) \in Nat
            BY <4>2 DEF LoopInv, LoopType
          <5> QED
            BY <1>1, <3>4, <3>5, <4>2, <5>1, SMTT(30) DEF Grown
        <4>4. \A o \in orphans : h \notin Parents(o) \/ o \in Tried(m) => ServedBy(b, o, i)
          BY <1>1, <3>3, <3>4, <4>2
        <4>5. Good(m)
          BY <4>2, <4>3, <4>4 DEF b
        <4> HIDE DEF Good
        <4> QED
          BY <3>1, <4>5
      <3> QED
        BY <3>6, <3>7
    <2>5. n \in S
      <3> HIDE DEF S
      <3>1. \A m \in 0..n : m \in S
        BY <2>2, <2>3, <2>4, StepInduction
      <3> QED
        BY <2>2, <3>1
    <2>6. Good(n)
      BY <2>5
    <2>7. \A o \in orphans : o \in Tried(n)
      BY OrderAssumption DEF Range, Loose
    <2> HIDE DEF Tried
    <2> QED
      BY <2>1, <2>6, <2>7 DEF h
  <1> QED
    BY <1>4, <1>5
-----------------------------------------------------------------------------
(* The whole loop.                                                         *)

NextRound(r, i) == IF i > Len(r.queue) THEN r ELSE Round(r, r.queue[i])

\* No transaction is twice in the queue, so it is not longer than the list of
\* all hashes.
LEMMA QueueBounded ==
  ASSUME NEW r, LoopInv(r)
  PROVE  Len(r.queue) <= Len(HashOrder)
  <1> DEFINE q == r.queue
             n == Len(HashOrder)
             place(x) == CHOOSE i \in 1..n : HashOrder[i] = x
             f == [j \in 1..Len(q) |-> place(q[j])]
  <1>1. q \in Seq(Tx) /\ Len(q) \in Nat /\ n \in Nat
    BY OrderAssumption DEF LoopInv, LoopType
  <1>2. \A j \in 1..Len(q) : place(q[j]) \in 1..n /\ HashOrder[place(q[j])] = q[j]
    <2> SUFFICES ASSUME NEW j \in 1..Len(q)
                 PROVE  \E i \in 1..n : HashOrder[i] = q[j]
      OBVIOUS
    <2>1. q[j] \in Loose
      BY DEF LoopInv, Queued
    <2> QED
      BY <2>1, OrderAssumption DEF Range, Loose
  <1> HIDE DEF place
  <1>3. \A i, j \in 1..Len(q) : i # j => q[i] # q[j]
    BY DEF LoopInv
  <1>4. f \in Injection(1..Len(q), 1..n)
    <2>1. f \in [1..Len(q) -> 1..n]
      BY <1>2
    <2>2. \A i, j \in 1..Len(q) : f[i] = f[j] => i = j
      BY <1>2, <1>3
    <2> HIDE DEF f
    <2> QED
      BY <2>1, <2>2 DEF Injection, IsInjective
  <1> HIDE DEF f, q, n
  <1>5. IsFiniteSet(1..n) /\ Cardinality(1..n) = n /\ Cardinality(1..Len(q)) = Len(q)
    <2>1. ASSUME NEW k \in Nat
          PROVE  IsFiniteSet(1..k) /\ Cardinality(1..k) = k
      <3>1. 1 \in Int /\ k \in Int
        OBVIOUS
      <3>2. IsFiniteSet(1..k) /\ Cardinality(1..k) = IF 1 > k THEN 0 ELSE k - 1 + 1
        BY ONLY <3>1, FS_Interval
      <3> QED
        BY <3>2
    <2> QED
      BY <1>1, <2>1
  <1>6. Cardinality(1..Len(q)) <= Cardinality(1..n)
    BY <1>4, <1>5, FS_Injection
  <1> QED
    BY <1>5, <1>6 DEF q, n

\* What the loop has done when it ends.
LEMMA WorkKeeps ==
  ASSUME NEW r, LoopInv(r), OrphanIndexExact, orphans \subseteq Loose
  PROVE  LET s == Work(r)
         IN  /\ LoopInv(s) /\ Grown(r, s)
             /\ \A o \in orphans \ s.erase : Queued(s.queue) \cap Parents(o) # {} => ~Known(s.pool, o)
  <1> DEFINE n == Len(HashOrder)
             Served(s, i) == \A o \in orphans : ServedBy(s, o, i)
             Good(s, i) == LoopInv(s) /\ Grown(r, s) /\ Served(s, i)
  <1>1. n \in Nat
    BY OrderAssumption
  <1>2. Good(r, 0)
    <2>1. Walked(r.queue, 0) = {}
      BY DEF Walked
    <2>2. Len(r.queue) \in Nat
      BY DEF LoopInv, LoopType
    <2> QED
      BY <2>1, <2>2 DEF ServedBy, Grown
  <1>3. ASSUME NEW i \in 1..n, NEW s, Good(s, i - 1)
        PROVE  Good(NextRound(s, i), i)
    <2>1. Len(s.queue) \in Nat /\ Len(r.queue) \in Nat
      BY <1>3 DEF LoopInv, LoopType
    <2>2. CASE i > Len(s.queue)
      <3>1. NextRound(s, i) = s
        BY <2>2 DEF NextRound
      <3>2. {j \in 1..Len(s.queue) : j <= i} = {j \in 1..Len(s.queue) : j <= i - 1}
        BY <2>1, <2>2
      <3>3. Walked(s.queue, i) = Walked(s.queue, i - 1)
        BY <3>2 DEF Walked
      <3>4. {j \in 1..Len(s.queue) : j > i - 1} = {}
        BY <2>1, <2>2
      <3>5. Ahead(s.queue, i - 1) = {}
        BY <3>4 DEF Ahead
      <3> QED
        BY <1>3, <3>1, <3>3, <3>5 DEF ServedBy
    <2>3. CASE ~(i > Len(s.queue))
      <3> DEFINE u == Round(s, s.queue[i])
      <3>1. NextRound(s, i) = u /\ i \in 1..Len(s.queue)
        BY <2>1, <2>3 DEF NextRound
      <3>2. LoopInv(u) /\ Grown(s, u) /\ \A o \in orphans : ServedBy(u, o, i)
        BY <1>3, <3>1, RoundKeeps
      <3> HIDE DEF u
      <3>3. Grown(r, u)
        <4>1. Len(u.queue) \in Nat
          BY <3>2 DEF LoopInv, LoopType
        <4> QED
          BY <1>3, <2>1, <3>2, <4>1 DEF Grown
      <3> QED
        BY <3>1, <3>2, <3>3
    <2> QED
      BY <2>2, <2>3
  <1> HIDE DEF Good
  <1> DEFINE P == {s \in LoopType : LoopInv(s)}
             F == [x \in (1..n) \X P |-> IF Good(x[2], x[1] - 1) THEN NextRound(x[2], x[1]) ELSE r]
             Body(g) == [i \in 0..n |-> IF i = 0 THEN r ELSE NextRound(g[i - 1], i)]
  <1>4. r \in P /\ \A s, i : Good(s, i) => s \in P
    BY DEF LoopInv, Good
  <1>5. F \in [(1..n) \X P -> P]
    BY <1>3, <1>4
  <1>6. \A i \in 1..n, s \in P : Good(s, i - 1) => F[<<i, s>>] = NextRound(s, i)
    OBVIOUS
  <1> HIDE DEF F
  <1>7. PICK g \in [0..n -> P] : LoopRun(g, n, F, r)
    <2> HIDE DEF P
    <2> QED
      BY <1>1, <1>4, <1>5, StepsExist
  <1>8. \A i \in 0..n : Good(g[i], i)
    <2> DEFINE S == {i \in 0..n : Good(g[i], i)}
    <2>1. 0 \in S
      BY <1>1, <1>2, <1>7 DEF LoopRun
    <2>2. ASSUME NEW i \in 1..n, i - 1 \in S
          PROVE  i \in S
      <3>1. g[i - 1] \in P /\ Good(g[i - 1], i - 1) /\ i \in 0..n
        BY <1>1, <1>7, <2>2
      <3>2. g[i] = NextRound(g[i - 1], i)
        BY <1>6, <1>7, <3>1 DEF LoopRun
      <3> QED
        BY <1>3, <3>1, <3>2
    <2> HIDE DEF S
    <2>3. \A i \in 0..n : i \in S
      BY <1>1, <2>1, <2>2, StepInduction
    <2> QED
      BY <2>3 DEF S
  <1>9. g = Body(g)
    <2>1. \A i \in 0..n : g[i] = IF i = 0 THEN r ELSE NextRound(g[i - 1], i)
      <3> SUFFICES ASSUME NEW i \in 0..n
                   PROVE  g[i] = IF i = 0 THEN r ELSE NextRound(g[i - 1], i)
        OBVIOUS
      <3>1. CASE i = 0
        BY <1>7, <3>1 DEF LoopRun
      <3>2. CASE i # 0
        <4>1. i \in 1..n /\ i - 1 \in 0..n
          BY <1>1, <3>2
        <4>2. Good(g[i - 1], i - 1) /\ g[i - 1] \in P
          BY <1>7, <1>8, <4>1
        <4> QED
          BY <1>6, <1>7, <3>2, <4>1, <4>2 DEF LoopRun
      <3> QED
        BY <3>1, <3>2
    <2>2. g = [i \in 0..n |-> g[i]]
      BY <1>7
    <2> QED
      BY <2>1, <2>2
  <1> DEFINE loop == CHOOSE h : h = Body(h)
  <1>10. loop = Body(loop)
    BY <1>9
  <1>11. Work(r) = loop[n]
    BY DEF Work, NextRound
  <1> HIDE DEF loop
  <1>12. \A i \in 0..n : Good(loop[i], i)
    <2> DEFINE S == {i \in 0..n : Good(loop[i], i)}
    <2>1. 0 \in S
      <3>1. loop[0] = r
        BY <1>1, <1>10
      <3> QED
        BY <1>1, <1>2, <3>1
    <2>2. ASSUME NEW i \in 1..n, i - 1 \in S
          PROVE  i \in S
      <3>1. Good(loop[i - 1], i - 1) /\ i \in 0..n /\ i # 0
        BY <1>1, <2>2
      <3>2. loop[i] = NextRound(loop[i - 1], i)
        BY <1>10, <3>1
      <3> QED
        BY <1>3, <3>1, <3>2
    <2> HIDE DEF S
    <2>3. \A i \in 0..n : i \in S
      BY <1>1, <2>1, <2>2, StepInduction
    <2> QED
      BY <2>3 DEF S
  <1> DEFINE s == Work(r)
  <1>13. Good(s, n)
    BY <1>1, <1>11, <1>12
  <1> HIDE DEF s
  <1>14. LoopInv(s) /\ Grown(r, s) /\ \A o \in orphans : ServedBy(s, o, n)
    BY <1>13 DEF Good
  <1>15. Walked(s.queue, n) = Queued(s.queue) /\ Ahead(s.queue, n) = {}
    <2>1. Len(s.queue) \in Nat /\ Len(s.queue) <= n
      BY <1>14, QueueBounded DEF LoopInv, LoopType
    <2>2. {i \in 1..Len(s.queue) : i <= n} = 1..Len(s.queue) /\ {i \in 1..Len(s.queue) : i > n} = {}
      BY <1>1, <2>1
    <2> QED
      BY <2>2 DEF Walked, Ahead, Queued
  <1>16. \A o \in orphans \ s.erase : Queued(s.queue) \cap Parents(o) # {} => ~Known(s.pool, o)
    BY <1>14, <1>15 DEF ServedBy
  <1> QED
    BY <1>14, <1>16 DEF s
-----------------------------------------------------------------------------
(* The steps of the node.                                                  *)

\* What the announcements and requests of the peers may be.
PeersInv ==
    /\ told \in [Peer -> SUBSET Loose] /\ askFor \in [Peer -> SUBSET Loose]
    /\ requested \in [Peer -> SUBSET Loose]
    /\ \A p \in Peer : told[p] \cup askFor[p] \cup requested[p] \subseteq Has[p]
    /\ seen \subseteq Announced

\* The orphans, their index, and the pool.
OrphanInv ==
    /\ pool \in PoolType /\ confirmed \subseteq Tx
    /\ orphans \subseteq Loose /\ IsFiniteSet(orphans) /\ Cardinality(orphans) <= MaxOrphans
    /\ DOMAIN byPrev \subseteq Tx
    /\ OrphanIndexExact /\ OrphanOrPooled

\* The parents of a transaction are transactions.
LEMMA ParentsType ==
  ASSUME NEW t \in Tx
  PROVE  Parents(t) \subseteq Tx
  BY Transactions DEF Parents

\* index says which of the orphans held wait for which transaction.
ParentIndex(index, held) ==
    /\ DOMAIN index \subseteq Tx
    /\ \A h \in DOMAIN index : index[h] # {} /\ index[h] = {o \in held : h \in Parents(o)}
    /\ \A o \in held : Parents(o) \subseteq DOMAIN index

\* EraseOrphanTx leaves an exact index of the orphans that are left.
LEMMA IndexWithoutExact ==
  ASSUME NEW index, NEW held, NEW S, ParentIndex(index, held)
  PROVE  ParentIndex(IndexWithout(index, S), held \ S)
  <1> DEFINE D == {h \in DOMAIN index : index[h] \ S # {}}
             left == [h \in D |-> index[h] \ S]
  <1>1. IndexWithout(index, S) = left /\ DOMAIN left = D /\ D \subseteq DOMAIN index
    BY DEF IndexWithout
  <1>2. \A h \in DOMAIN index : index[h] \ S = {o \in held \ S : h \in Parents(o)}
    <2> SUFFICES ASSUME NEW h \in DOMAIN index
                 PROVE  index[h] \ S = {o \in held \ S : h \in Parents(o)}
      OBVIOUS
    <2>1. index[h] = {o \in held : h \in Parents(o)}
      BY DEF ParentIndex
    <2> QED
      BY <2>1
  <1>3. \A h \in D : left[h] = index[h] \ S /\ left[h] # {}
    OBVIOUS
  <1>4. ASSUME NEW o \in held \ S, NEW h \in Parents(o)
        PROVE  h \in D
    <2>1. h \in DOMAIN index /\ o \in index[h] \ S
      BY <1>2 DEF ParentIndex
    <2> QED
      BY <2>1
  <1> HIDE DEF left, D
  <1>5. \A h \in D : left[h] # {} /\ left[h] = {o \in held \ S : h \in Parents(o)}
    BY <1>1, <1>2, <1>3
  <1> QED
    BY <1>1, <1>4, <1>5 DEF ParentIndex

\* AddOrphanTx keeps the index exact.
LEMMA IndexWithExact ==
  ASSUME NEW index, NEW held, NEW t \in Tx, ParentIndex(index, held)
  PROVE  ParentIndex(IndexWith(index, t), held \cup {t})
  <1> DEFINE more == IndexWith(index, t)
             D == DOMAIN index \cup Parents(t)
  <1>1. DOMAIN more = D /\ D \subseteq Tx
    BY ParentsType DEF IndexWith, ParentIndex
  <1>2. \A h \in D : more[h] = (IF h \in DOMAIN index THEN index[h] ELSE {}) \cup
                               (IF h \in Parents(t) THEN {t} ELSE {})
    BY DEF IndexWith
  <1> HIDE DEF more
  <1>3. ASSUME NEW h \in D
        PROVE  more[h] # {} /\ more[h] = {o \in held \cup {t} : h \in Parents(o)}
    <2> DEFINE old == IF h \in DOMAIN index THEN index[h] ELSE {}
    <2>1. old = {o \in held : h \in Parents(o)}
      <3>1. CASE h \in DOMAIN index
        BY <3>1 DEF ParentIndex
      <3>2. CASE h \notin DOMAIN index
        BY <3>2 DEF ParentIndex
      <3> QED
        BY <3>1, <3>2
    <2>2. more[h] = old \cup (IF h \in Parents(t) THEN {t} ELSE {})
      BY <1>2
    <2>3. h \in Parents(t) \/ old # {}
      BY DEF ParentIndex
    <2> HIDE DEF old
    <2>4. CASE h \in Parents(t)
      BY <2>1, <2>2, <2>4
    <2>5. CASE h \notin Parents(t)
      BY <2>1, <2>2, <2>3, <2>5
    <2> QED
      BY <2>4, <2>5
  <1>4. \A o \in held \cup {t} : Parents(o) \subseteq D
    BY DEF ParentIndex
  <1> HIDE DEF D
  <1> QED
    BY <1>1, <1>3, <1>4 DEF more, ParentIndex

\* Accepting a transaction: what waited for it is in the pool, gone, or still
\* misses an input.
LEMMA AdoptionKeeps ==
  ASSUME OrphanInv, NEW t \in Loose, Acceptable(pool, t), Adoption(t), UNCHANGED confirmed
  PROVE  /\ OrphanInv'
         /\ \A o \in orphans' :
               Parents(o) \cap (pool'.mapTx \ pool.mapTx) # {} => ~Known(pool', o)
  <1> DEFINE start == [queue |-> <<t>>, pool |-> addUnchecked(pool, t), erase |-> {t}]
             r == Work(start)
  <1>1. t \in Tx /\ t \notin pool.mapTx
    BY DEF Loose, Acceptable, New, NoConflict
  <1>2. LoopInv(start)
    <2>1. addUnchecked(pool, t) \in PoolType /\ addUnchecked(pool, t).mapTx = pool.mapTx \cup {t}
      BY <1>1, AddType DEF OrphanInv
    <2>2. <<t>> \in Seq(Tx) /\ Len(<<t>>) = 1 /\ \A i \in 1..1 : <<t>>[i] = t
      BY <1>1
    <2>3. Queued(<<t>>) = {t}
      BY <2>2 DEF Queued
    <2>4. start \in LoopType
      BY <1>1, <2>1, <2>2 DEF LoopType
    <2> QED
      BY <1>1, <2>1, <2>2, <2>3, <2>4 DEF LoopInv
  <1>3. /\ LoopInv(r)
        /\ \A o \in orphans \ r.erase : Queued(r.queue) \cap Parents(o) # {} => ~Known(r.pool, o)
    <2> HIDE DEF start
    <2> QED
      BY <1>2, WorkKeeps DEF OrphanInv
  <1>4. /\ pool' = r.pool /\ orphans' = orphans \ r.erase
        /\ byPrev' = IndexWithout(byPrev, r.erase \cap orphans)
    BY DEF Adoption
  <1> HIDE DEF r
  <1>5. /\ r.pool \in PoolType /\ r.pool.mapTx = pool.mapTx \cup Queued(r.queue)
        /\ Queued(r.queue) \subseteq r.erase
    BY <1>3 DEF LoopInv, LoopType
  <1>6. ParentIndex(byPrev', orphans')
    <2> DEFINE S == r.erase \cap orphans
    <2>1. orphans' = orphans \ S /\ byPrev' = IndexWithout(byPrev, S)
      BY <1>4
    <2>2. ParentIndex(byPrev, orphans)
      BY DEF OrphanInv, OrphanIndexExact, ParentIndex
    <2> HIDE DEF S
    <2> QED
      BY <2>1, <2>2, IndexWithoutExact
  <1>7. OrphanOrPooled'
    BY <1>4, <1>5 DEF OrphanInv, OrphanOrPooled
  <1>8. IsFiniteSet(orphans') /\ Cardinality(orphans') <= MaxOrphans
    <2>1. orphans' \in SUBSET orphans /\ IsFiniteSet(orphans) /\ Cardinality(orphans) <= MaxOrphans
      BY <1>4 DEF OrphanInv
    <2>2. IsFiniteSet(orphans') /\ Cardinality(orphans') <= Cardinality(orphans)
      BY <2>1, FS_Subset
    <2>3. Cardinality(orphans') \in Nat /\ Cardinality(orphans) \in Nat
      BY <2>1, <2>2, FS_CardinalityType
    <2> QED
      BY <2>1, <2>2, <2>3, OrphansAssumption
  <1>9. OrphanInv'
    BY <1>4, <1>5, <1>6, <1>7, <1>8 DEF OrphanInv, OrphanIndexExact, ParentIndex
  <1>10. \A o \in orphans' :
            Parents(o) \cap (pool'.mapTx \ pool.mapTx) # {} => ~Known(pool', o)
    BY <1>3, <1>4, <1>5
  <1> QED
    BY <1>9, <1>10

\* Holding an orphan.
LEMMA HoldKeeps ==
  ASSUME OrphanInv, NEW t \in Loose, t \notin orphans, MissingInputs(pool, t), Hold(t), UNCHANGED confirmed
  PROVE  OrphanInv'
  <1> DEFINE all == orphans \cup {t}
             more == IndexWith(byPrev, t)
  <1>1. t \in Tx /\ t \notin pool.mapTx /\ pool' = pool
    BY DEF Loose, MissingInputs, New, NoConflict, Hold
  <1>2. ParentIndex(more, all)
    <2>1. ParentIndex(byPrev, orphans)
      BY DEF OrphanInv, OrphanIndexExact, ParentIndex
    <2> QED
      BY <1>1, <2>1, IndexWithExact
  <1>3. /\ IsFiniteSet(all) /\ Cardinality(all) = Cardinality(orphans) + 1
        /\ Cardinality(orphans) \in Nat /\ Cardinality(orphans) <= MaxOrphans
    BY FS_AddElement, FS_CardinalityType DEF OrphanInv
  <1>4. all \subseteq Loose /\ all \cap pool.mapTx = {}
    BY <1>1 DEF OrphanInv, OrphanOrPooled
  <1>5. CASE Cardinality(all) <= MaxOrphans
    <2>1. orphans' = all /\ byPrev' = more
      BY <1>5 DEF Hold
    <2> HIDE DEF all, more
    <2> QED
      BY <1>1, <1>2, <1>3, <1>4, <1>5, <2>1 DEF OrphanInv, OrphanIndexExact, OrphanOrPooled, ParentIndex
  <1>6. CASE ~(Cardinality(all) <= MaxOrphans)
    <2>1. PICK o \in all : orphans' = all \ {o} /\ byPrev' = IndexWithout(more, {o})
      BY <1>6 DEF Hold
    <2> HIDE DEF all, more
    <2>2. ParentIndex(byPrev', orphans')
      BY <1>2, <2>1, IndexWithoutExact
    <2>3. IsFiniteSet(orphans') /\ Cardinality(orphans') = Cardinality(all) - 1
      BY <1>3, <2>1, FS_RemoveElement
    <2>4. Cardinality(orphans') <= MaxOrphans
      BY <1>3, <2>3
    <2> QED
      BY <1>1, <1>4, <2>1, <2>2, <2>3, <2>4 DEF OrphanInv, OrphanIndexExact, OrphanOrPooled, ParentIndex
  <1> QED
    BY <1>5, <1>6

\* The two invariants hold at the start and through every step, and a step
\* adopts what waited for the transactions it accepts.
Adopts ==
    \A o \in orphans' : Parents(o) \cap (pool'.mapTx \ pool.mapTx) # {} => ~Known(pool', o)

LEMMA RelayInvInit == RelayInit => PeersInv /\ OrphanInv
  <1> SUFFICES ASSUME RelayInit PROVE PeersInv /\ OrphanInv
    OBVIOUS
  <1>1. pool \in PoolType /\ pool.mapTx = {}
    <2> DEFINE f == [t \in {} |-> Null]
    <2>1. EmptyIndex \in [{} -> Tx] /\ {} \in SUBSET (Tx \X Nat)
      BY DEF EmptyIndex
    <2>2. EmptyIndex \in UNION {[D -> Tx] : D \in SUBSET (Tx \X Nat)}
      BY <2>1
    <2> QED
      BY <2>2 DEF RelayInit, PoolInit, EmptyPool, PoolType
  <1>2. DOMAIN byPrev = {}
    BY DEF RelayInit, EmptyIndex
  <1>3. IsFiniteSet({}) /\ Cardinality({}) = 0
    BY FS_EmptySet
  <1> QED
    BY <1>1, <1>2, <1>3, Transactions, OrphansAssumption
    DEF RelayInit, PeersInv, OrphanInv, OrphanIndexExact, OrphanOrPooled

LEMMA RelayInvInductive ==
  PeersInv /\ OrphanInv /\ [RelayNext]_relayVars => PeersInv' /\ OrphanInv' /\ Adopts
  <1> SUFFICES ASSUME PeersInv, OrphanInv, [RelayNext]_relayVars
               PROVE  PeersInv' /\ OrphanInv' /\ Adopts
    OBVIOUS
  <1> USE DEF PeersInv
  <1>1. ASSUME UNCHANGED <<pool, confirmed, orphans, byPrev>>
        PROVE  OrphanInv' /\ Adopts
    BY <1>1 DEF OrphanInv, OrphanIndexExact, OrphanOrPooled, Adopts
  <1>2. ASSUME NEW p \in Peer, NEW t \in Loose, Inv(p, t)
        PROVE  PeersInv' /\ OrphanInv' /\ Adopts
    <2>1. t \in Announced
      BY <1>2 DEF Inv, Announced
    <2> QED
      BY <1>1, <1>2, <2>1 DEF Inv, AskFor
  <1>3. ASSUME NEW p \in Peer, NEW t \in Loose, SendGetData(p, t)
        PROVE  PeersInv' /\ OrphanInv' /\ Adopts
    <2>1. t \in Announced
      BY <1>3 DEF SendGetData, Announced
    <2> QED
      BY <1>1, <1>3, <2>1 DEF SendGetData
  <1>4. ASSUME NEW p \in Peer, NEW t \in Loose, ReceiveTx(p, t)
        PROVE  PeersInv' /\ OrphanInv' /\ Adopts
    <2>1. PeersInv'
      BY <1>4 DEF ReceiveTx
    <2>2. UNCHANGED confirmed
      BY <1>4 DEF ReceiveTx
    <2>3. CASE Acceptable(pool, t)
      <3>1. Adoption(t)
        BY <1>4, <2>3 DEF ReceiveTx, Acceptable, MissingInputs
      <3> QED
        BY <2>1, <2>2, <2>3, <3>1, AdoptionKeeps DEF Adopts
    <2>4. CASE MissingInputs(pool, t) /\ t \notin orphans \cup Big
      <3>1. Hold(t)
        BY <1>4, <2>4 DEF ReceiveTx, Acceptable, MissingInputs
      <3>2. pool' = pool
        BY <3>1 DEF Hold
      <3> QED
        BY <2>1, <2>2, <2>4, <3>1, <3>2, HoldKeeps DEF Adopts
    <2>5. CASE ~Acceptable(pool, t) /\ ~(MissingInputs(pool, t) /\ t \notin orphans \cup Big)
      <3>1. UNCHANGED <<pool, orphans, byPrev>>
        BY <1>4, <2>5 DEF ReceiveTx
      <3> QED
        BY <1>1, <2>1, <2>2, <3>1
    <2> QED
      BY <2>3, <2>4, <2>5
  <1>5. ASSUME NEW t \in Loose, BlockWith(t)
        PROVE  PeersInv' /\ OrphanInv' /\ Adopts
    <2>1. t \in Tx /\ pool' = remove(pool, t) /\ confirmed' = confirmed \cup {t}
      BY <1>5 DEF BlockWith, Loose
    <2>2. pool' \in PoolType /\ pool'.mapTx \subseteq pool.mapTx
      BY <2>1, RemoveType DEF OrphanInv
    <2> QED
      BY <1>5, <2>1, <2>2 DEF BlockWith, OrphanInv, OrphanIndexExact, OrphanOrPooled, Adopts
  <1>6. ASSUME NEW p \in Peer, DisconnectPeer(p)
        PROVE  PeersInv' /\ OrphanInv' /\ Adopts
    BY <1>1, <1>6 DEF DisconnectPeer
  <1>7. CASE UNCHANGED relayVars
    BY <1>1, <1>7 DEF relayVars
  <1> QED
    BY <1>2, <1>3, <1>4, <1>5, <1>6, <1>7 DEF RelayNext

\* For any transactions and peers the orphans are few enough, indexed exactly
\* by the transactions they wait for (AddOrphanTx, EraseOrphanTx,
\* LimitOrphanTxSize), and none of them is in the pool.
THEOREM OrphansStayConsistent == RelaySpec => []OrphansConsistent
  <1>1. PeersInv /\ OrphanInv => OrphansConsistent
    BY DEF PeersInv, OrphanInv, OrphansConsistent, RelayTypeOK
  <1> QED
    BY <1>1, RelayInvInit, RelayInvInductive, PTL DEF RelaySpec

\* The work queue of the "tx" handler reaches every generation of orphans,
\* although it grows while it is walked through and an orphan that is tried
\* too early is not looked at again by itself.
THEOREM AllGenerationsAdopted == RelaySpec => OrphansAdopted
  <1>1. PeersInv /\ OrphanInv /\ [RelayNext]_relayVars =>
           [\A o \in orphans' :
               Parents(o) \cap (pool'.mapTx \ pool.mapTx) # {} => ~Known(pool', o)]_relayVars
    BY RelayInvInductive DEF Adopts
  <1> QED
    BY <1>1, RelayInvInit, RelayInvInductive, PTL DEF RelaySpec, OrphansAdopted
=============================================================================
