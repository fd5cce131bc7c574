----------------------------- MODULE NodeProofs -----------------------------
(***************************************************************************)
(* The node around the chain: the memory pool alone, the pool while the    *)
(* chain moves, and the wallet.                                            *)
(***************************************************************************)
EXTENDS ChainWallet, ChainProofs

PoolInv == PoolTypeOK /\ NextTxExact

-----------------------------------------------------------------------------
(* Each method of the class keeps the invariant, whatever pool it is given. *)

\* PoolInv of a pool p that need not be the current one.
PoolInvOf(p) ==
    /\ p = [mapTx |-> p.mapTx, mapNextTx |-> p.mapNextTx]
    /\ p.mapTx \subseteq Tx
    /\ DOMAIN p.mapNextTx \subseteq UNION {Vin[t] : t \in Tx}
    /\ \A o \in DOMAIN p.mapNextTx : p.mapNextTx[o] \in Tx
    /\ \A t \in p.mapTx : \A o \in Vin[t] : o \in DOMAIN p.mapNextTx /\ p.mapNextTx[o] = t
    /\ \A o \in DOMAIN p.mapNextTx : p.mapNextTx[o] \in p.mapTx /\ o \in Vin[p.mapNextTx[o]]

\* The invariant of the specification is that predicate, of the variable.
LEMMA InvIsOfPool == PoolInv <=> PoolInvOf(pool)
  BY DEF PoolInv, PoolTypeOK, NextTxExact, PoolInvOf

\* The pool of a fresh process, and of CTxMemPool::clear.
LEMMA EmptyPoolInv == PoolInvOf(EmptyPool)
  BY DEF PoolInvOf, EmptyPool, EmptyIndex

\* addUnchecked keeps mapNextTx exact when its caller has found no conflict:
\* AcceptToMemoryPool's test is what the method relies on.
LEMMA PoolAddKeepsInv ==
  ASSUME NEW p, PoolInvOf(p), NEW t \in Tx, NoConflict(p, t)
  PROVE  PoolInvOf(addUnchecked(p, t))
  <1> DEFINE q == addUnchecked(p, t)
  <1>1. /\ q = [mapTx |-> q.mapTx, mapNextTx |-> q.mapNextTx]
        /\ q.mapTx = p.mapTx \cup {t}
        /\ DOMAIN q.mapNextTx = DOMAIN p.mapNextTx \cup Vin[t]
        /\ \A o \in DOMAIN q.mapNextTx :
              q.mapNextTx[o] = IF o \in Vin[t] THEN t ELSE p.mapNextTx[o]
    BY DEF addUnchecked
  <1> HIDE DEF q
  <1>2. \A s \in q.mapTx : \A o \in Vin[s] : o \in DOMAIN q.mapNextTx /\ q.mapNextTx[o] = s
    <2> SUFFICES ASSUME NEW s \in q.mapTx, NEW o \in Vin[s]
                 PROVE  o \in DOMAIN q.mapNextTx /\ q.mapNextTx[o] = s
      OBVIOUS
    <2>1. CASE s = t
      BY <2>1, <1>1
    <2>2. CASE s # t
      <3>1. s \in p.mapTx /\ o \in DOMAIN p.mapNextTx /\ p.mapNextTx[o] = s
        BY <2>2, <1>1 DEF PoolInvOf
      <3>2. o \notin Vin[t]
        BY <3>1 DEF NoConflict
      <3> QED
        BY <3>1, <3>2, <1>1
    <2> QED
      BY <2>1, <2>2
  <1>3. \A o \in DOMAIN q.mapNextTx : q.mapNextTx[o] \in q.mapTx /\ o \in Vin[q.mapNextTx[o]]
    BY <1>1 DEF PoolInvOf
  <1>4. /\ q.mapTx \subseteq Tx
        /\ DOMAIN q.mapNextTx \subseteq UNION {Vin[s] : s \in Tx}
        /\ \A o \in DOMAIN q.mapNextTx : q.mapNextTx[o] \in Tx
    BY <1>1 DEF PoolInvOf
  <1> QED
    BY <1>1, <1>2, <1>3, <1>4 DEF PoolInvOf, q

\* Erasing transactions of the pool with the entries of their inputs takes no
\* entry from a transaction that stays: an entry belongs to one transaction.
LEMMA EraseKeepsInv ==
  ASSUME NEW p, PoolInvOf(p), NEW S \in SUBSET p.mapTx
  PROVE  PoolInvOf(Erase(p, S))
  <1> DEFINE q == Erase(p, S)
             gone == UNION {Vin[t] : t \in S}
  <1>1. /\ q = [mapTx |-> q.mapTx, mapNextTx |-> q.mapNextTx]
        /\ q.mapTx = p.mapTx \ S
        /\ DOMAIN q.mapNextTx = DOMAIN p.mapNextTx \ gone
        /\ \A o \in DOMAIN q.mapNextTx : q.mapNextTx[o] = p.mapNextTx[o]
    BY DEF Erase, Restrict
  <1> HIDE DEF q
  <1>2. \A s \in q.mapTx : \A o \in Vin[s] : o \in DOMAIN q.mapNextTx /\ q.mapNextTx[o] = s
    <2> SUFFICES ASSUME NEW s \in q.mapTx, NEW o \in Vin[s]
                 PROVE  o \in DOMAIN q.mapNextTx /\ q.mapNextTx[o] = s
      OBVIOUS
    <2>1. s \in p.mapTx /\ s \notin S /\ o \in DOMAIN p.mapNextTx /\ p.mapNextTx[o] = s
      BY <1>1 DEF PoolInvOf
    <2>2. o \notin gone
      <3> SUFFICES ASSUME NEW t \in S, o \in Vin[t] PROVE FALSE
        OBVIOUS
      <3>1. p.mapNextTx[o] = t
        BY DEF PoolInvOf
      <3> QED
        BY <3>1, <2>1
    <2> QED
      BY <2>1, <2>2, <1>1
  <1>3. \A o \in DOMAIN q.mapNextTx : q.mapNextTx[o] \in q.mapTx /\ o \in Vin[q.mapNextTx[o]]
    <2> SUFFICES ASSUME NEW o \in DOMAIN q.mapNextTx
                 PROVE  q.mapNextTx[o] \in q.mapTx /\ o \in Vin[q.mapNextTx[o]]
      OBVIOUS
    <2>1. p.mapNextTx[o] \in p.mapTx /\ o \in Vin[p.mapNextTx[o]] /\ o \notin gone
      BY <1>1 DEF PoolInvOf
    <2>2. p.mapNextTx[o] \notin S
      BY <2>1
    <2> QED
      BY <2>1, <2>2, <1>1
  <1>4. /\ q.mapTx \subseteq Tx
        /\ DOMAIN q.mapNextTx \subseteq UNION {Vin[s] : s \in Tx}
        /\ \A o \in DOMAIN q.mapNextTx : q.mapNextTx[o] \in Tx
    BY <1>1 DEF PoolInvOf
  <1> QED
    BY <1>1, <1>2, <1>3, <1>4 DEF PoolInvOf, q

\* remove, with and without the recursion, and removeConflicts only ever erase
\* transactions that are in the pool.
LEMMA MethodsKeepInv ==
  ASSUME NEW p, PoolInvOf(p), NEW t \in Tx
  PROVE  /\ PoolInvOf(remove(p, t))
         /\ PoolInvOf(removeRecursive(p, t))
         /\ PoolInvOf(removeConflicts(p, t))
  <1>1. \A s : Descendants(p, s) \in SUBSET p.mapTx
    BY DEF Descendants
  <1>2. PoolInvOf(remove(p, t))
    <2>1. CASE t \in p.mapTx
      <3>1. {t} \in SUBSET p.mapTx
        BY <2>1
      <3> QED
        BY <2>1, <3>1, EraseKeepsInv DEF remove
    <2>2. CASE t \notin p.mapTx
      BY <2>2 DEF remove
    <2> QED
      BY <2>1, <2>2
  <1>3. PoolInvOf(removeRecursive(p, t))
    BY <1>1, EraseKeepsInv DEF removeRecursive
  <1>4. PoolInvOf(removeConflicts(p, t))
    <2> DEFINE C == {p.mapNextTx[o] : o \in Vin[t] \cap DOMAIN p.mapNextTx} \ {t}
               S == UNION {Descendants(p, c) : c \in C}
    <2>1. S \in SUBSET p.mapTx
      BY <1>1
    <2>2. PoolInvOf(Erase(p, S))
      BY <2>1, EraseKeepsInv
    <2> QED
      BY <2>2 DEF removeConflicts
  <1> QED
    BY <1>2, <1>3, <1>4

-----------------------------------------------------------------------------
\* The inductive step: every call of the pool keeps the invariant.
LEMMA PoolInvInductive == PoolInv /\ [PoolNext]_pool => PoolInv'
  <1> SUFFICES ASSUME PoolInvOf(pool), [PoolNext]_pool
               PROVE  PoolInvOf(pool)'
    BY InvIsOfPool DEF PoolInv, PoolTypeOK, NextTxExact, PoolInvOf
  <1>1. ASSUME NEW t \in Tx, PoolAdd(t)
        PROVE  PoolInvOf(pool)'
    <2>1. PoolInvOf(addUnchecked(pool, t))
      BY <1>1, PoolAddKeepsInv DEF PoolAdd
    <2> QED
      BY <1>1, <2>1 DEF PoolAdd, PoolInvOf
  <1>2. ASSUME NEW t \in Tx, PoolRemove(t)
        PROVE  PoolInvOf(pool)'
    BY <1>2, MethodsKeepInv DEF PoolRemove, PoolInvOf
  <1>3. ASSUME NEW t \in Tx, PoolRemoveRecursive(t)
        PROVE  PoolInvOf(pool)'
    BY <1>3, MethodsKeepInv DEF PoolRemoveRecursive, PoolInvOf
  <1>4. ASSUME NEW t \in Tx, PoolRemoveConflicts(t)
        PROVE  PoolInvOf(pool)'
    BY <1>4, MethodsKeepInv DEF PoolRemoveConflicts, PoolInvOf
  <1>5. ASSUME PoolClear
        PROVE  PoolInvOf(pool)'
    BY <1>5, EmptyPoolInv DEF PoolClear, PoolInvOf
  <1>6. ASSUME UNCHANGED pool
        PROVE  PoolInvOf(pool)'
    BY <1>6 DEF PoolInvOf
  <1> QED
    BY <1>1, <1>2, <1>3, <1>4, <1>5, <1>6 DEF PoolNext

\* The type invariant of the pool and the exactness of mapNextTx hold of every
\* behaviour of the pool.
THEOREM PoolAlwaysExact == PoolSpec => [](PoolTypeOK /\ NextTxExact)
  <1>1. PoolInit => PoolInv
    BY EmptyPoolInv, InvIsOfPool DEF PoolInit, PoolInv, PoolTypeOK, NextTxExact, PoolInvOf
  <1> QED
    BY <1>1, PoolInvInductive, PTL DEF PoolSpec, PoolInv

\* The pool never holds a double spend: AcceptToMemoryPool's test of mapNextTx
\* is enough, because mapNextTx is exact.
THEOREM PoolNeverDoubleSpends == PoolSpec => []NoPooledDoubleSpend
  <1>1. NextTxExact => NoPooledDoubleSpend
    BY DEF NextTxExact, NoPooledDoubleSpend
  <1> QED
    BY <1>1, PoolAlwaysExact, PTL

-----------------------------------------------------------------------------
\* The recursion of remove(tx, true) visits tx, and with a transaction every
\* spender of its outputs that is in the pool.
LEMMA DescendantsClosed ==
  ASSUME NEW p, NEW c \in p.mapTx
  PROVE  /\ c \in Descendants(p, c)
         /\ \A s \in Descendants(p, c) : Spenders(p, s) \cap p.mapTx \subseteq Descendants(p, c)
  <1>1. c \in Descendants(p, c)
    BY DEF Descendants
  <1>2. ASSUME NEW s \in Descendants(p, c), NEW d \in Spenders(p, s) \cap p.mapTx
        PROVE  d \in Descendants(p, c)
    <2> SUFFICES ASSUME NEW S \in SUBSET p.mapTx, c \in S,
                        \A x \in S : Spenders(p, x) \cap p.mapTx \subseteq S
                 PROVE  d \in S
      BY <1>2 DEF Descendants
    <2>1. s \in S
      BY DEF Descendants
    <2> QED
      BY <1>2, <2>1
  <1> QED
    BY <1>1, <1>2

\* What removeConflicts removes from an exact pool.
Doomed(p, t) ==
    UNION {Descendants(p, c) : c \in {p.mapNextTx[o] : o \in Vin[t] \cap DOMAIN p.mapNextTx} \ {t}}

\* A transaction that stays neither conflicts with t nor spends an output of one
\* that goes.
LEMMA DoomedThorough ==
  ASSUME NEW p, PoolInvOf(p), NEW t \in Tx, NEW u \in p.mapTx \ Doomed(p, t), NEW o \in Vin[u]
  PROVE  /\ u # t => o \notin Vin[t]
         /\ o[2] < Vout[o[1]] => o[1] \notin Doomed(p, t)
  <1>1. u \in p.mapTx /\ u \notin Doomed(p, t) /\ o \in DOMAIN p.mapNextTx /\ p.mapNextTx[o] = u
    BY DEF PoolInvOf
  <1>2. ASSUME u # t, o \in Vin[t]
        PROVE  FALSE
    <2>1. u \in {p.mapNextTx[q] : q \in Vin[t] \cap DOMAIN p.mapNextTx} \ {t}
      BY <1>1, <1>2
    <2>2. u \in Descendants(p, u)
      BY <1>1, DescendantsClosed
    <2> QED
      BY <1>1, <2>1, <2>2 DEF Doomed
  <1>3. ASSUME o[2] < Vout[o[1]], o[1] \in Doomed(p, t)
        PROVE  FALSE
    <2>1. PICK q \in Vin[t] \cap DOMAIN p.mapNextTx :
            p.mapNextTx[q] # t /\ o[1] \in Descendants(p, p.mapNextTx[q])
      BY <1>3 DEF Doomed
    <2>2. p.mapNextTx[q] \in p.mapTx
      BY DEF PoolInvOf
    <2>3. u \in Spenders(p, o[1])
      BY <1>1, <1>3 DEF Spenders
    <2>4. u \in Descendants(p, p.mapNextTx[q])
      BY <1>1, <2>1, <2>2, <2>3, DescendantsClosed
    <2> QED
      BY <1>1, <2>1, <2>4 DEF Doomed
  <1> QED
    BY <1>2, <1>3

\* removeConflicts(tx), called with what a block has confirmed: afterwards no
\* other transaction of the pool spends an input of tx, and none that stays
\* spends an output of one that went, however deep the chains of unconfirmed
\* transactions the recursion follows.
THEOREM ConflictsGoWithChildren == PoolSpec => ConflictsLeaveNoChild
  <1> DEFINE Thorough ==
               \A t \in Tx : PoolRemoveConflicts(t) =>
                  /\ \A u \in pool'.mapTx \ {t} : Vin[u] \cap Vin[t] = {}
                  /\ \A u \in pool'.mapTx : \A o \in Vin[u] :
                        o[2] < Vout[o[1]] => o[1] \notin pool.mapTx \ pool'.mapTx
  <1>1. PoolInv /\ [PoolNext]_pool => [Thorough]_pool
    <2> SUFFICES ASSUME PoolInvOf(pool), NEW t \in Tx, PoolRemoveConflicts(t)
                 PROVE  /\ \A u \in pool'.mapTx \ {t} : Vin[u] \cap Vin[t] = {}
                        /\ \A u \in pool'.mapTx : \A o \in Vin[u] :
                              o[2] < Vout[o[1]] => o[1] \notin pool.mapTx \ pool'.mapTx
      BY InvIsOfPool
    <2>1. pool'.mapTx = pool.mapTx \ Doomed(pool, t)
      BY DEF PoolRemoveConflicts, removeConflicts, Erase, Doomed
    <2> QED
      BY <2>1, DoomedThorough
  <1>2. PoolSpec => []PoolInv
    BY PoolAlwaysExact, PTL DEF PoolInv
  <1> QED
    BY <1>1, <1>2, PTL DEF PoolSpec, ConflictsLeaveNoChild

-----------------------------------------------------------------------------
(* The pool after a block, and after a reorganisation.                      *)

\* The values of the pool.
PoolType == [mapTx : SUBSET Tx, mapNextTx : UNION {[D -> Tx] : D \in SUBSET (Tx \X Nat)}]

\* Those in which mapNextTx is exact.
Pools == {p \in PoolType : PoolInvOf(p)}

\* What Reorganize does to the pool for a transaction of the new branch.
Redundant(p, t) == removeConflicts(remove(p, t), t)

\* What AcceptToMemoryPool does for a transaction of the old branch.
AcceptOne(index, p, t) ==
    IF Acceptable(p, index, hashBestChain, t) THEN addUnchecked(p, t) ELSE p

\* A pool that has lost transactions.
LEMMA EraseType ==
  ASSUME NEW p \in PoolType, NEW S
  PROVE  Erase(p, S) \in PoolType /\ Erase(p, S).mapTx = p.mapTx \ S
  <1>1. PICK D \in SUBSET (Tx \X Nat) : p.mapNextTx \in [D -> Tx]
    BY DEF PoolType
  <1> DEFINE E == DOMAIN p.mapNextTx \ UNION {Vin[t] : t \in S}
             q == Restrict(p.mapNextTx, E)
  <1>2. E \in SUBSET (Tx \X Nat) /\ q \in [E -> Tx]
    BY <1>1 DEF Restrict
  <1>3. Erase(p, S) = [mapTx |-> p.mapTx \ S, mapNextTx |-> q]
    BY DEF Erase
  <1> HIDE DEF E, q
  <1>4. q \in UNION {[F -> Tx] : F \in SUBSET (Tx \X Nat)}
    BY <1>2
  <1>5. p.mapTx \ S \in SUBSET Tx
    BY DEF PoolType
  <1> QED
    BY <1>3, <1>4, <1>5 DEF PoolType

\* The calls of Reorganize and SetBestChainInner give pools.
LEMMA PoolSteps ==
  ASSUME NEW p \in Pools, NEW t \in Tx, NEW index
  PROVE  /\ remove(p, t) \in Pools
         /\ remove(p, t).mapTx = p.mapTx \ {t}
         /\ Redundant(p, t) \in Pools
         /\ Redundant(p, t).mapTx \subseteq p.mapTx \ {t}
         /\ AcceptOne(index, p, t) \in Pools
         /\ AcceptOne(index, p, t).mapTx \subseteq p.mapTx \cup (Tx \ DOMAIN index)
  <1>0. p \in PoolType /\ PoolInvOf(p)
    BY DEF Pools
  <1>1. remove(p, t) \in Pools /\ remove(p, t).mapTx = p.mapTx \ {t}
    <2>1. remove(p, t) \in PoolType /\ remove(p, t).mapTx = p.mapTx \ {t}
      BY <1>0, EraseType DEF remove
    <2> QED
      BY <1>0, <2>1, MethodsKeepInv DEF Pools
  <1>2. Redundant(p, t) \in Pools /\ Redundant(p, t).mapTx \subseteq p.mapTx \ {t}
    <2> DEFINE r == remove(p, t)
    <2>1. PICK S : removeConflicts(r, t) = Erase(r, S)
      BY DEF removeConflicts
    <2> HIDE DEF r
    <2>2. r \in PoolType /\ PoolInvOf(r) /\ r.mapTx = p.mapTx \ {t}
      BY <1>1 DEF r, Pools
    <2>3. PoolInvOf(removeConflicts(r, t))
      BY <2>2, MethodsKeepInv
    <2>4. Erase(r, S) \in PoolType /\ Erase(r, S).mapTx \subseteq r.mapTx
      BY <2>2, EraseType
    <2> QED
      BY <2>1, <2>2, <2>3, <2>4 DEF Redundant, r, Pools
  <1>3. AcceptOne(index, p, t) \in Pools
    <2>1. CASE Acceptable(p, index, hashBestChain, t)
      <3>1. PICK D \in SUBSET (Tx \X Nat) : p.mapNextTx \in [D -> Tx]
        BY <1>0 DEF PoolType
      <3> DEFINE E == DOMAIN p.mapNextTx \cup Vin[t]
                 q == [o \in E |-> IF o \in Vin[t] THEN t ELSE p.mapNextTx[o]]
      <3>2. E \in SUBSET (Tx \X Nat) /\ q \in [E -> Tx]
        BY <3>1, Transactions
      <3>3. addUnchecked(p, t) = [mapTx |-> p.mapTx \cup {t}, mapNextTx |-> q]
        BY DEF addUnchecked
      <3> HIDE DEF E, q
      <3>4. q \in UNION {[F -> Tx] : F \in SUBSET (Tx \X Nat)}
        BY <3>2
      <3>5. p.mapTx \cup {t} \in SUBSET Tx
        BY <1>0 DEF PoolType
      <3>6. addUnchecked(p, t) \in PoolType
        BY <3>3, <3>4, <3>5 DEF PoolType
      <3>7. PoolInvOf(addUnchecked(p, t))
        BY <1>0, <2>1, PoolAddKeepsInv DEF Acceptable
      <3> QED
        BY <2>1, <3>6, <3>7 DEF Pools, AcceptOne
    <2>2. CASE ~Acceptable(p, index, hashBestChain, t)
      BY <2>2 DEF AcceptOne
    <2> QED
      BY <2>1, <2>2
  <1>4. AcceptOne(index, p, t).mapTx \subseteq p.mapTx \cup (Tx \ DOMAIN index)
    <2>1. CASE Acceptable(p, index, hashBestChain, t)
      <3>1. t \notin DOMAIN index
        BY <2>1 DEF Acceptable
      <3>2. addUnchecked(p, t).mapTx = p.mapTx \cup {t}
        BY DEF addUnchecked
      <3> QED
        BY <2>1, <3>1, <3>2 DEF AcceptOne
    <2>2. CASE ~Acceptable(p, index, hashBestChain, t)
      BY <2>2 DEF AcceptOne
    <2> QED
      BY <2>1, <2>2
  <1> QED
    BY <1>1, <1>2, <1>3, <1>4

\* f is the pool after each of the transactions of seq.
PoolRun(f, way, index, base, seq) ==
    /\ f[0] = base
    /\ \A i \in 1..Len(seq) :
          f[i] = CASE way = "remove"    -> remove(f[i - 1], seq[i])
                   [] way = "redundant" -> Redundant(f[i - 1], seq[i])
                   [] way = "accept"    -> AcceptOne(index, f[i - 1], seq[i])

\* SetBestChainInner's loop.
LEMMA FoldRemove ==
  ASSUME NEW p \in Pools, NEW seq \in Seq(Tx), NEW index
  PROVE  \E f : PoolRun(f, "remove", index, p, seq) /\ f[Len(seq)] = FoldLeft(remove, p, seq)
  <1> DEFINE n == Len(seq)
             F == [x \in Pools \X Tx |-> remove(x[1], x[2])]
             iter == CHOOSE g : g = [s \in SUBSET (1..n) |->
                        IF s = {} THEN p ELSE remove(g[s \ {Max(s)}], seq[Max(s)])]
             f == [i \in 0..n |-> iter[1..i]]
  <1>1. n \in Nat /\ DOMAIN seq = 1..n /\ \A i \in 1..n : seq[i] \in Tx
    OBVIOUS
  <1>2. F \in [Pools \X Tx -> Pools] /\ \A x \in Pools, t \in Tx : F[<<x, t>>] = remove(x, t)
    BY PoolSteps
  <1>3. iter = [s \in SUBSET (1..n) |->
                   IF s = {} THEN p ELSE remove(iter[s \ {Max(s)}], seq[Max(s)])]
    <2>1. PICK g : FoldedBy(g, F, p, seq) /\ \A s \in SUBSET (1..n) : g[s] \in Pools
      <3> HIDE DEF F
      <3> QED
        BY <1>2, FoldExists
    <2> HIDE DEF F
    <2>2. ASSUME NEW s \in SUBSET (1..n)
          PROVE  g[s] = IF s = {} THEN p ELSE remove(g[s \ {Max(s)}], seq[Max(s)])
      <3>1. CASE s = {}
        BY <2>1, <3>1 DEF FoldedBy
      <3>2. CASE s # {}
        <4>1. Max(s) \in 1..n /\ s \ {Max(s)} \in SUBSET (1..n)
          BY <1>1, <3>2, MaxInside
        <4>2. g[s \ {Max(s)}] \in Pools /\ seq[Max(s)] \in Tx
          BY <1>1, <2>1, <4>1
        <4>3. g[s] = F[<<g[s \ {Max(s)}], seq[Max(s)]>>]
          BY <2>1, <3>2 DEF FoldedBy
        <4> QED
          BY <1>2, <3>2, <4>2, <4>3
      <3> QED
        BY <3>1, <3>2
    <2>3. g = [s \in SUBSET (1..n) |-> g[s]]
      BY <2>1 DEF FoldedBy
    <2>4. g = [s \in SUBSET (1..n) |-> IF s = {} THEN p ELSE remove(g[s \ {Max(s)}], seq[Max(s)])]
      BY <2>2, <2>3
    <2> QED
      BY <2>4
  <1>4. FoldLeft(remove, p, seq) = iter[1..n]
    BY <1>1 DEF FoldLeft, MapThenFoldSet
  <1> HIDE DEF iter
  <1>5. f[0] = p
    BY <1>1, <1>3
  <1>6. ASSUME NEW i \in 1..n
        PROVE  f[i] = remove(f[i - 1], seq[i])
    <2>1. f[i] = iter[1..i] /\ f[i - 1] = iter[1..(i - 1)]
      BY <1>1
    <2>2. /\ 1..i \in SUBSET (1..n) /\ 1..i # {} /\ Max(1..i) = i
          /\ (1..i) \ {Max(1..i)} = 1..(i - 1)
      BY <1>1, FoldInOrder
    <2>3. iter[1..i] = remove(iter[(1..i) \ {Max(1..i)}], seq[Max(1..i)])
      <3> HIDE DEF n
      <3> QED
        BY <1>3, <2>2
    <2> QED
      BY <2>1, <2>2, <2>3
  <1>7. f[n] = iter[1..n]
    BY <1>1
  <1> HIDE DEF f
  <1> QED
    BY <1>4, <1>5, <1>6, <1>7 DEF PoolRun

\* Reorganize's loop over the transactions of the new branch.
LEMMA FoldRedundant ==
  ASSUME NEW p \in Pools, NEW seq \in Seq(Tx), NEW index
  PROVE  \E f : PoolRun(f, "redundant", index, p, seq) /\ f[Len(seq)] = FoldLeft(LAMBDA q, t : removeConflicts(remove(q, t), t), p, seq)
  <1> DEFINE n == Len(seq)
             F == [x \in Pools \X Tx |-> Redundant(x[1], x[2])]
             iter == CHOOSE g : g = [s \in SUBSET (1..n) |->
                        IF s = {} THEN p ELSE Redundant(g[s \ {Max(s)}], seq[Max(s)])]
             f == [i \in 0..n |-> iter[1..i]]
  <1>1. n \in Nat /\ DOMAIN seq = 1..n /\ \A i \in 1..n : seq[i] \in Tx
    OBVIOUS
  <1>2. F \in [Pools \X Tx -> Pools] /\ \A x \in Pools, t \in Tx : F[<<x, t>>] = Redundant(x, t)
    BY PoolSteps
  <1>3. iter = [s \in SUBSET (1..n) |->
                   IF s = {} THEN p ELSE Redundant(iter[s \ {Max(s)}], seq[Max(s)])]
    <2>1. PICK g : FoldedBy(g, F, p, seq) /\ \A s \in SUBSET (1..n) : g[s] \in Pools
      <3> HIDE DEF F
      <3> QED
        BY <1>2, FoldExists
    <2> HIDE DEF F
    <2>2. ASSUME NEW s \in SUBSET (1..n)
          PROVE  g[s] = IF s = {} THEN p ELSE Redundant(g[s \ {Max(s)}], seq[Max(s)])
      <3>1. CASE s = {}
        BY <2>1, <3>1 DEF FoldedBy
      <3>2. CASE s # {}
        <4>1. Max(s) \in 1..n /\ s \ {Max(s)} \in SUBSET (1..n)
          BY <1>1, <3>2, MaxInside
        <4>2. g[s \ {Max(s)}] \in Pools /\ seq[Max(s)] \in Tx
          BY <1>1, <2>1, <4>1
        <4>3. g[s] = F[<<g[s \ {Max(s)}], seq[Max(s)]>>]
          BY <2>1, <3>2 DEF FoldedBy
        <4> QED
          BY <1>2, <3>2, <4>2, <4>3
      <3> QED
        BY <3>1, <3>2
    <2>3. g = [s \in SUBSET (1..n) |-> g[s]]
      BY <2>1 DEF FoldedBy
    <2>4. g = [s \in SUBSET (1..n) |-> IF s = {} THEN p ELSE Redundant(g[s \ {Max(s)}], seq[Max(s)])]
      BY <2>2, <2>3
    <2> QED
      BY <2>4
  <1>4. FoldLeft(LAMBDA q, t : removeConflicts(remove(q, t), t), p, seq) = iter[1..n]
    BY <1>1 DEF FoldLeft, MapThenFoldSet, Redundant
  <1> HIDE DEF iter
  <1>5. f[0] = p
    BY <1>1, <1>3
  <1>6. ASSUME NEW i \in 1..n
        PROVE  f[i] = Redundant(f[i - 1], seq[i])
    <2>1. f[i] = iter[1..i] /\ f[i - 1] = iter[1..(i - 1)]
      BY <1>1
    <2>2. /\ 1..i \in SUBSET (1..n) /\ 1..i # {} /\ Max(1..i) = i
          /\ (1..i) \ {Max(1..i)} = 1..(i - 1)
      BY <1>1, FoldInOrder
    <2>3. iter[1..i] = Redundant(iter[(1..i) \ {Max(1..i)}], seq[Max(1..i)])
      <3> HIDE DEF n
      <3> QED
        BY <1>3, <2>2
    <2> QED
      BY <2>1, <2>2, <2>3
  <1>7. f[n] = iter[1..n]
    BY <1>1
  <1> HIDE DEF f
  <1> QED
    BY <1>4, <1>5, <1>6, <1>7 DEF PoolRun

\* Reorganize's loop over the transactions of the old branch.
LEMMA FoldAccept ==
  ASSUME NEW p \in Pools, NEW seq \in Seq(Tx), NEW index
  PROVE  \E f : PoolRun(f, "accept", index, p, seq) /\ f[Len(seq)] = AcceptEach(p, index, seq)
  <1> DEFINE n == Len(seq)
             F == [x \in Pools \X Tx |-> AcceptOne(index, x[1], x[2])]
             iter == CHOOSE g : g = [s \in SUBSET (1..n) |->
                        IF s = {} THEN p ELSE AcceptOne(index, g[s \ {Max(s)}], seq[Max(s)])]
             f == [i \in 0..n |-> iter[1..i]]
  <1>1. n \in Nat /\ DOMAIN seq = 1..n /\ \A i \in 1..n : seq[i] \in Tx
    OBVIOUS
  <1>2. F \in [Pools \X Tx -> Pools] /\ \A x \in Pools, t \in Tx : F[<<x, t>>] = AcceptOne(index, x, t)
    BY PoolSteps
  <1>3. iter = [s \in SUBSET (1..n) |->
                   IF s = {} THEN p ELSE AcceptOne(index, iter[s \ {Max(s)}], seq[Max(s)])]
    <2>1. PICK g : FoldedBy(g, F, p, seq) /\ \A s \in SUBSET (1..n) : g[s] \in Pools
      <3> HIDE DEF F
      <3> QED
        BY <1>2, FoldExists
    <2> HIDE DEF F
    <2>2. ASSUME NEW s \in SUBSET (1..n)
          PROVE  g[s] = IF s = {} THEN p ELSE AcceptOne(index, g[s \ {Max(s)}], seq[Max(s)])
      <3>1. CASE s = {}
        BY <2>1, <3>1 DEF FoldedBy
      <3>2. CASE s # {}
        <4>1. Max(s) \in 1..n /\ s \ {Max(s)} \in SUBSET (1..n)
          BY <1>1, <3>2, MaxInside
        <4>2. g[s \ {Max(s)}] \in Pools /\ seq[Max(s)] \in Tx
          BY <1>1, <2>1, <4>1
        <4>3. g[s] = F[<<g[s \ {Max(s)}], seq[Max(s)]>>]
          BY <2>1, <3>2 DEF FoldedBy
        <4> QED
          BY <1>2, <3>2, <4>2, <4>3
      <3> QED
        BY <3>1, <3>2
    <2>3. g = [s \in SUBSET (1..n) |-> g[s]]
      BY <2>1 DEF FoldedBy
    <2>4. g = [s \in SUBSET (1..n) |-> IF s = {} THEN p ELSE AcceptOne(index, g[s \ {Max(s)}], seq[Max(s)])]
      BY <2>2, <2>3
    <2> QED
      BY <2>4
  <1>4. AcceptEach(p, index, seq) = iter[1..n]
    BY <1>1 DEF FoldLeft, MapThenFoldSet, AcceptEach, AcceptOne
  <1> HIDE DEF iter
  <1>5. f[0] = p
    BY <1>1, <1>3
  <1>6. ASSUME NEW i \in 1..n
        PROVE  f[i] = AcceptOne(index, f[i - 1], seq[i])
    <2>1. f[i] = iter[1..i] /\ f[i - 1] = iter[1..(i - 1)]
      BY <1>1
    <2>2. /\ 1..i \in SUBSET (1..n) /\ 1..i # {} /\ Max(1..i) = i
          /\ (1..i) \ {Max(1..i)} = 1..(i - 1)
      BY <1>1, FoldInOrder
    <2>3. iter[1..i] = AcceptOne(index, iter[(1..i) \ {Max(1..i)}], seq[Max(1..i)])
      <3> HIDE DEF n
      <3> QED
        BY <1>3, <2>2
    <2> QED
      BY <2>1, <2>2, <2>3
  <1>7. f[n] = iter[1..n]
    BY <1>1
  <1> HIDE DEF f
  <1> QED
    BY <1>4, <1>5, <1>6, <1>7 DEF PoolRun

\* What the loops leave in the pool: nothing of the blocks that were connected,
\* and nothing new that is in the index.
LEMMA PoolAfterLoops ==
  ASSUME NEW p \in Pools, NEW seq \in Seq(Tx), NEW index
  PROVE  /\ LET q == FoldLeft(remove, p, seq)
            IN q \in Pools /\ q.mapTx \subseteq p.mapTx /\ \A i \in 1..Len(seq) : seq[i] \notin q.mapTx
         /\ LET q == FoldLeft(LAMBDA r, t : removeConflicts(remove(r, t), t), p, seq)
            IN q \in Pools /\ q.mapTx \subseteq p.mapTx /\ \A i \in 1..Len(seq) : seq[i] \notin q.mapTx
         /\ LET q == AcceptEach(p, index, seq)
            IN q \in Pools /\ q.mapTx \subseteq p.mapTx \cup (Tx \ DOMAIN index)
  <1> DEFINE n == Len(seq)
             Less(q, i) == q \in Pools /\ q.mapTx \subseteq p.mapTx /\ \A j \in 1..i : seq[j] \notin q.mapTx
             More(q) == q \in Pools /\ q.mapTx \subseteq p.mapTx \cup (Tx \ DOMAIN index)
  <1>1. n \in Nat /\ \A i \in 1..n : seq[i] \in Tx
    OBVIOUS
  <1>2. ASSUME NEW way \in {"remove", "redundant"}, NEW f, PoolRun(f, way, index, p, seq)
        PROVE  Less(f[n], n)
    <2> DEFINE S == {i \in Nat : Less(f[i], i)}
    <2>1. 0 \in S
      BY <1>2 DEF PoolRun
    <2>2. ASSUME NEW i \in 1..n, i - 1 \in S
          PROVE  i \in S
      <3>1. f[i - 1] \in Pools /\ f[i - 1].mapTx \subseteq p.mapTx /\ \A j \in 1..(i - 1) : seq[j] \notin f[i - 1].mapTx
        BY <2>2
      <3>2. f[i] \in Pools /\ f[i].mapTx \subseteq f[i - 1].mapTx \ {seq[i]}
        <4>1. f[i] = remove(f[i - 1], seq[i]) \/ f[i] = Redundant(f[i - 1], seq[i])
          BY <1>2 DEF PoolRun
        <4> QED
          BY <1>1, <3>1, <4>1, PoolSteps, SMTT(30)
      <3>3. \A j \in 1..i : j = i \/ j \in 1..(i - 1)
        OBVIOUS
      <3>4. Less(f[i], i)
        BY <3>1, <3>2, <3>3
      <3> QED
        BY <3>4
    <2> HIDE DEF S
    <2>3. \A i \in 0..n : i \in S
      <3> HIDE DEF n
      <3> QED
        BY <1>1, <2>1, <2>2, StepInduction
    <2> QED
      BY <1>1, <2>3 DEF S
  <1>3. ASSUME NEW f, PoolRun(f, "accept", index, p, seq)
        PROVE  More(f[n])
    <2> DEFINE S == {i \in Nat : More(f[i])}
    <2>1. 0 \in S
      BY <1>3 DEF PoolRun
    <2>2. ASSUME NEW i \in 1..n, i - 1 \in S
          PROVE  i \in S
      <3>1. f[i] = AcceptOne(index, f[i - 1], seq[i])
        BY <1>3 DEF PoolRun
      <3>2. More(f[i - 1])
        BY <2>2
      <3>3. More(f[i])
        BY <1>1, <3>1, <3>2, PoolSteps
      <3> QED
        BY <3>3
    <2> HIDE DEF S
    <2>3. \A i \in 0..n : i \in S
      <3> HIDE DEF n
      <3> QED
        BY <1>1, <2>1, <2>2, StepInduction
    <2> QED
      BY <1>1, <2>3 DEF S
  <1>4. Less(FoldLeft(remove, p, seq), n)
    <2>1. PICK f : PoolRun(f, "remove", index, p, seq) /\ f[n] = FoldLeft(remove, p, seq)
      BY FoldRemove
    <2>2. Less(f[n], n)
      BY <1>2, <2>1
    <2> HIDE DEF Less
    <2> QED
      BY <2>1, <2>2, Zenon
  <1>5. Less(FoldLeft(LAMBDA r, t : removeConflicts(remove(r, t), t), p, seq), n)
    <2>1. PICK f : /\ PoolRun(f, "redundant", index, p, seq)
                   /\ f[n] = FoldLeft(LAMBDA r, t : removeConflicts(remove(r, t), t), p, seq)
      BY FoldRedundant
    <2>2. Less(f[n], n)
      BY <1>2, <2>1
    <2> HIDE DEF Less
    <2> QED
      BY <2>1, <2>2, Zenon
  <1>6. More(AcceptEach(p, index, seq))
    <2>1. PICK f : PoolRun(f, "accept", index, p, seq) /\ f[n] = AcceptEach(p, index, seq)
      BY FoldAccept
    <2>2. More(f[n])
      BY <1>3, <2>1
    <2> HIDE DEF More
    <2> QED
      BY <2>1, <2>2, Zenon
  <1> QED
    BY <1>4, <1>5, <1>6

-----------------------------------------------------------------------------
(* The pool and the index of the best chain.                                *)

\* The pool is exact, and nothing of it is on the best chain: at every step,
\* not only when the node is at rest.
NodeInv == pool \in Pools /\ pool.mapTx \cap DOMAIN dbTxIndex = {}

\* The pool of a fresh process.
LEMMA EmptyPoolNode == EmptyPool \in Pools /\ EmptyPool.mapTx = {}
  <1>1. EmptyPool.mapTx = {} /\ EmptyPool = [mapTx |-> {}, mapNextTx |-> EmptyIndex]
    BY DEF EmptyPool
  <1>2. EmptyIndex \in [{} -> Tx]
    BY DEF EmptyIndex
  <1>3. EmptyIndex \in UNION {[D -> Tx] : D \in SUBSET (Tx \X Nat)}
    BY <1>2
  <1>4. EmptyPool \in PoolType
    BY <1>1, <1>3 DEF PoolType
  <1> QED
    BY <1>1, <1>4, EmptyPoolInv DEF Pools

\* AcceptToMemoryPool takes nothing that is in the index it is shown.
LEMMA AcceptKeepsNode ==
  ASSUME NodeInv, NEW txs \in Seq(Tx), pool' = AcceptEach(pool, dbTxIndex, txs), UNCHANGED dbTxIndex
  PROVE  NodeInv'
  <1>1. /\ AcceptEach(pool, dbTxIndex, txs) \in Pools
        /\ AcceptEach(pool, dbTxIndex, txs).mapTx \subseteq pool.mapTx \cup (Tx \ DOMAIN dbTxIndex)
    BY PoolAfterLoops DEF NodeInv
  <1> QED
    BY <1>1 DEF NodeInv

\* One block is connected, and its transactions leave the pool.
LEMMA ConnectKeepsNode ==
  ASSUME NodeInv, NEW b \in Block, ConnectedOne(b), pool' = AfterConnect(pool, b)
  PROVE  NodeInv'
  <1> DEFINE q == FoldLeft(remove, pool, Vtx[b])
  <1>1. Vtx[b] \in Seq(Tx) /\ \A t \in TxsOf(b) : \E i \in DOMAIN Vtx[b] : Vtx[b][i] = t
    BY BlockTxs
  <1>2. q \in Pools /\ q.mapTx \subseteq pool.mapTx /\ \A i \in 1..Len(Vtx[b]) : Vtx[b][i] \notin q.mapTx
    BY <1>1, PoolAfterLoops DEF NodeInv
  <1>3. DOMAIN dbTxIndex' = DOMAIN dbTxIndex \cup TxsOf(b)
    BY DEF ConnectedOne, Connected
  <1>4. pool' = q
    BY DEF AfterConnect
  <1> HIDE DEF q
  <1>5. \A t \in TxsOf(b) : t \notin q.mapTx
    BY <1>1, <1>2
  <1> QED
    BY <1>2, <1>3, <1>4, <1>5 DEF NodeInv

\* What is resurrected is a sequence of transactions.
LEMMA ResurrectType ==
  ASSUME hashBestChain \in Block, NEW to \in Block
  PROVE  /\ vResurrect(to) \in Seq(Tx)
         /\ \A i \in 1..Len(vResurrect(to)) : vResurrect(to)[i] \notin Generated
  <1> DEFINE old == PathUp(LastCommon(hashBestChain, to), hashBestChain)
             ss == [i \in DOMAIN old |-> IF Height[old[i]] > TotalBlocksEstimate THEN Vtx[old[i]] ELSE <<>>]
  <1>1. old \in Seq(Block)
    BY LastCommonFacts, Paths
  <1> HIDE DEF old
  <1>2. \A i \in DOMAIN old : old[i] \in Block /\ Vtx[old[i]] \in Seq(Tx)
    BY <1>1, Transactions
  <1>3. ss \in [1..Len(old) -> Seq(Tx)]
    BY <1>1, <1>2
  <1> HIDE DEF ss
  <1>4. ss \in Seq(Seq(Tx))
    BY <1>1, <1>3
  <1>5. FlattenSeq(ss) \in Seq(Tx)
    BY <1>4, FlattenIs
  <1> DEFINE txs == Those(FlattenSeq(ss), Tx \ Generated)
  <1>6. txs \in Seq(Tx) /\ FilterOf(FlattenSeq(ss), Tx \ Generated, txs)
    BY <1>5, ThoseIs
  <1> HIDE DEF txs
  <1>7. \A i \in 1..Len(txs) : txs[i] \notin Generated
    BY <1>6 DEF FilterOf
  <1>8. vResurrect(to) = txs
    BY DEF vResurrect, old, ss, txs
  <1> QED
    BY <1>6, <1>7, <1>8, Zenon

\* A reorganisation: what comes back is not on the new branch, and what the new
\* branch has leaves.
LEMMA ReorganizeKeepsNode ==
  ASSUME NodeInv, hashBestChain \in Block, NEW to \in Block, ReorganizedTo(to),
         pool' = AfterReorganize(pool, dbTxIndex', to)
  PROVE  NodeInv'
  <1> DEFINE up == vConnect(to)
             ss == [i \in DOMAIN up |-> Vtx[up[i]]]
             txs == FlattenSeq(ss)
             p == AcceptEach(pool, dbTxIndex', vResurrect(to))
             q == FoldLeft(LAMBDA r, t : removeConflicts(remove(r, t), t), p, txs)
  <1>1. p \in Pools /\ p.mapTx \subseteq pool.mapTx \cup (Tx \ DOMAIN dbTxIndex')
    BY ResurrectType, PoolAfterLoops DEF NodeInv
  <1>2. pool' = q
    BY DEF AfterReorganize
  <1> HIDE DEF p
  <1>3. up \in Seq(Block)
    BY LastCommonFacts, Paths DEF vConnect
  <1> HIDE DEF up
  <1>4. \A i \in DOMAIN up : up[i] \in Block /\ Vtx[up[i]] \in Seq(Tx)
    BY <1>3, Transactions
  <1>5. ss \in [1..Len(up) -> Seq(Tx)] /\ DOMAIN up = 1..Len(up)
    BY <1>3, <1>4
  <1>6. ss \in Seq(Seq(Tx)) /\ Len(ss) = Len(up) /\ \A i \in 1..Len(up) : ss[i] = Vtx[up[i]]
    <2>1. \A i \in 1..Len(up) : ss[i] = Vtx[up[i]]
      BY <1>5
    <2> HIDE DEF ss
    <2> QED
      BY <1>3, <1>5, <2>1
  <1> HIDE DEF ss
  <1>7. txs \in Seq(Tx)
    BY <1>6, FlattenIs
  <1>8. q \in Pools /\ q.mapTx \subseteq p.mapTx /\ \A i \in 1..Len(txs) : txs[i] \notin q.mapTx
    <2> HIDE DEF txs
    <2> QED
      BY <1>1, <1>7, PoolAfterLoops
  <1> HIDE DEF q
  <1>9. ASSUME NEW c \in Range(up), NEW t \in TxsOf(c)
        PROVE  t \notin q.mapTx
    <2>1. PICK i \in DOMAIN up : up[i] = c
      BY <1>9 DEF Range
    <2>2. PICK j \in DOMAIN Vtx[c] : Vtx[c][j] = t
      BY <1>4, <1>9, <2>1, BlockTxs
    <2>3. i \in 1..Len(ss) /\ j \in 1..Len(ss[i]) /\ ss[i][j] = t
      BY <1>4, <1>5, <1>6, <2>1, <2>2
    <2>4. \E k \in 1..Len(txs) : txs[k] = t
      BY <1>6, <2>3, FlattenHolds
    <2> QED
      BY <1>8, <2>4
  <1>10. DOMAIN dbTxIndex' \subseteq DOMAIN dbTxIndex \cup UNION {TxsOf(c) : c \in Range(up)}
    BY DEF ReorganizedTo, up
  <1>11. ASSUME NEW t \in q.mapTx, t \in DOMAIN dbTxIndex'
         PROVE  FALSE
    <2>1. t \in pool.mapTx
      BY <1>1, <1>8, <1>11
    <2>2. t \in DOMAIN dbTxIndex
      BY <1>9, <1>10, <1>11
    <2> QED
      BY <2>1, <2>2 DEF NodeInv
  <1> QED
    BY <1>2, <1>8, <1>11 DEF NodeInv

\* A connect that succeeds moves the tip on disk, so that the pool is cleaned.
LEMMA SuccessMovesTip ==
  ASSUME ChainInv, IndexInv, LoadGoesBack
  PROVE  /\ ExtendTip /\ ConnectedOne(pblock) => pblock # dbHashBest
         /\ \A to \in pindexIntermediate : Reorganize => to # dbHashBest
         /\ \A b \in Block : Prev[b] = dbHashBest => b # dbHashBest
  <1>1. \A b \in Block : Prev[b] # b
    BY PrevEnds, BlockTree
  <1>2. ASSUME ExtendTip PROVE pblock # dbHashBest
    <2>1. /\ pc = "SetBestChain" /\ pblock \in Block /\ hashBestChain \in Block
          /\ dbHashBest \in Block /\ Prev[pblock] = hashBestChain /\ hashBestChain # Null
      BY <1>2 DEF ExtendTip, ChainInv, ProgramTypes, GenesisFirst, Alive
    <2>2. CASE caller = "load"
      BY <1>1, <2>1, <2>2, BlockTree DEF LoadGoesBack
    <2>3. CASE caller # "load"
      BY <2>1, <2>3, TrustNat DEF ChainInv, TrustOrder, Alive
    <2> QED
      BY <2>2, <2>3
  <1>3. ASSUME Reorganize, NEW to \in pindexIntermediate
        PROVE  to # dbHashBest
    <2>1. /\ pc = "SetBestChain" /\ pblock \in Block /\ hashBestChain \in Block
          /\ dbHashBest \in Block /\ Prev[pblock] # hashBestChain
      BY <1>3 DEF Reorganize, ChainInv, ProgramTypes, GenesisFirst, Alive
    <2>2. CASE caller = "load"
      <3>1. pblock \in Lineage[dbHashBest] /\ pblock # dbHashBest
        BY <2>1, <2>2, BlockTree DEF LoadGoesBack
      <3>2. to \in Lineage[pblock]
        BY DEF pindexIntermediate
      <3>3. to \in Block /\ Height[to] \in Nat /\ Height[pblock] \in Nat /\ Height[dbHashBest] \in Nat
        BY <2>1, <3>2, LineageClosed, PrevEnds
      <3>4. Height[to] <= Height[pblock] /\ Height[pblock] < Height[dbHashBest]
        BY <2>1, <3>1, <3>2, <3>3, LineageOrder
      <3> QED
        BY <3>3, <3>4
    <2>3. CASE caller # "load"
      <3>1. TrustOf(to) > TrustOf(hashBestChain) /\ TrustOf(hashBestChain) >= TrustOf(dbHashBest)
        BY <2>1, <2>3, IntermediateBeatsTip, TrustNat DEF ChainInv, TrustOrder, Alive
      <3> QED
        BY <2>1, <3>1, TrustNat
    <2> QED
      BY <2>2, <2>3
  <1> QED
    BY <1>1, <1>2, <1>3


\* SetBestChain's steps, with what they do to the pool.
LEMMA TipStepsKeepNode ==
  ASSUME ChainInv, IndexInv, LoadGoesBack, NodeInv, ConnectTip \/ ReorganizeTip
  PROVE  NodeInv'
  <1>0. dbHashBest' = dbHashBest /\ UNCHANGED disk /\ ConnectTip => NodeInv'
    BY DEF ConnectTip, Unless, disk, NodeInv
  <1>1. ASSUME ExtendTip, ConnectTip PROVE NodeInv'
    <2>1. CASE UNCHANGED disk
      BY <1>0, <1>1, <2>1 DEF disk
    <2>2. CASE ConnectedOne(pblock)
      <3>1. pblock \in Block /\ dbHashBest' = pblock /\ pblock # dbHashBest
        BY <1>1, <2>2, ExtendEffect, SuccessMovesTip DEF ConnectedOne
      <3>2. pool' = AfterConnect(pool, pblock)
        BY <1>1, <3>1 DEF ConnectTip, Unless
      <3> QED
        BY <2>2, <3>1, <3>2, ConnectKeepsNode
    <2> QED
      BY <1>1, <2>1, <2>2, ExtendEffect
  <1>2. ASSUME ConnectPostponed, ConnectTip PROVE NodeInv'
    <2>1. CASE UNCHANGED disk
      BY <1>0, <1>2, <2>1 DEF disk
    <2>2. ASSUME NEW b \in Block, Prev[b] = dbHashBest, ConnectedOne(b)
          PROVE  NodeInv'
      <3>1. dbHashBest' = b /\ b # dbHashBest
        BY <2>2, SuccessMovesTip DEF ConnectedOne
      <3>2. pool' = AfterConnect(pool, b)
        BY <1>2, <3>1 DEF ConnectTip, Unless
      <3> QED
        BY <2>2, <3>2, ConnectKeepsNode
    <2> QED
      BY <1>2, <2>1, <2>2, PostponedEffect
  <1>3. ASSUME ReorganizeTip PROVE NodeInv'
    <2>0. Reorganize
      BY <1>3 DEF ReorganizeTip
    <2>1. hashBestChain \in Block /\ pblock \in Block
      BY <2>0, ReorganizeEffect
    <2>2. PICK to \in Lineage[pblock] :
            \/ UNCHANGED disk
            \/ to \in pindexIntermediate /\ ReorganizedTo(to)
      BY <2>0, ReorganizeEffect
    <2>3. CASE UNCHANGED disk
      BY <1>3, <2>3 DEF ReorganizeTip, Unless, disk, NodeInv
    <2>4. CASE to \in pindexIntermediate /\ ReorganizedTo(to)
      <3>1. to \in Block /\ dbHashBest' = to /\ to # dbHashBest
        BY <2>0, <2>1, <2>4, SuccessMovesTip, LineageClosed DEF ReorganizedTo
      <3>2. pool' = AfterReorganize(pool, dbTxIndex', to)
        BY <1>3, <3>1 DEF ReorganizeTip, Unless
      <3> QED
        BY <2>1, <2>4, <3>1, <3>2, ReorganizeKeepsNode
    <2> QED
      BY <2>2, <2>3, <2>4
  <1> QED
    BY <1>1, <1>2, <1>3 DEF ConnectTip

\* A step of the node is a step of the chain, or leaves the chain alone.
LEMMA WalletStepsAreChainSteps ==
  ASSUME [WalletNext]_allVars
  PROVE  [Next]_vars
  <1>1. CASE UNCHANGED allVars
    BY <1>1 DEF allVars, nodeVars
  <1>2. CASE WalletNext
    BY <1>2 DEF WalletNext, SyncAccept, AcceptToMemoryPool, CommitTransaction, SyncConnectTip,
                SyncReorganizeTip, ConnectTip, ReorganizeTip, FixSpentCoins, BackupWallet,
                RestoreWallet, LoadWallet, ReacceptWalletTransactions, Shutdown, CrashInSync,
                nodeVars, Next, SetBestChain
  <1> QED
    BY <1>1, <1>2

\* Every step of the node keeps the pool and the index apart.
LEMMA NodeInvInductive ==
  ASSUME ChainInv, IndexInv, LoadGoesBack, NodeInv, [WalletNext]_allVars
  PROVE  NodeInv'
  <1>1. ASSUME UNCHANGED pool, UNCHANGED dbTxIndex PROVE NodeInv'
    BY <1>1 DEF NodeInv
  <1>2. ASSUME pool' = EmptyPool PROVE NodeInv'
    BY <1>2, EmptyPoolNode DEF NodeInv
  <1>3. CASE UNCHANGED allVars
    BY <1>1, <1>3 DEF allVars, nodeVars, vars, disk
  <1>4. ASSUME NEW t \in Tx, SyncAccept(t)
        PROVE  NodeInv'
    <2>1. pool' = addUnchecked(pool, t) /\ dbTxIndex' = dbTxIndex
          /\ Acceptable(pool, dbTxIndex, hashBestChain, t)
      BY <1>4 DEF SyncAccept, AcceptToMemoryPool, vars, disk
    <2>2. pool' = AcceptOne(dbTxIndex, pool, t)
      BY <2>1 DEF AcceptOne
    <2> QED
      BY <2>1, <2>2, PoolSteps DEF NodeInv
  <1>5. ASSUME NEW t \in Tx, CommitTransaction(t)
        PROVE  NodeInv'
    <2>1. pool' = AcceptEach(pool, dbTxIndex, <<t>>) /\ dbTxIndex' = dbTxIndex /\ <<t>> \in Seq(Tx)
      BY <1>5 DEF CommitTransaction, vars, disk
    <2> QED
      BY <2>1, AcceptKeepsNode
  <1>6. CASE SyncConnectTip \/ SyncReorganizeTip
    BY <1>6, TipStepsKeepNode DEF SyncConnectTip, SyncReorganizeTip
  <1>7. ASSUME NEW b \in Block, ProcessBlock(b) \/ AcceptOrphan(b), UNCHANGED <<pool, walletVars>>
        PROVE  NodeInv'
    <2>1. dbTxIndex' = dbTxIndex
      BY <1>7 DEF ProcessBlock, HoldOrphan, AcceptBlock, AcceptOrphan, WriteToDisk, disk
    <2> QED
      BY <1>1, <1>7, <2>1
  <1>8. CASE (SetGenesis \/ AddToBlockIndex \/ NextInQueue \/ Load) /\ UNCHANGED <<pool, walletVars>>
    <2>1. dbTxIndex' = dbTxIndex
      BY <1>8 DEF SetGenesis, AddToBlockIndex, NextInQueue, Load, LoadEmpty, LoadFails, LoadBlockIndex,
                  WriteToDisk, disk
    <2> QED
      BY <1>1, <1>8, <2>1
  <1>9. CASE FixSpentCoins \/ BackupWallet \/ RestoreWallet \/ LoadWallet
    BY <1>1, <1>9 DEF FixSpentCoins, BackupWallet, RestoreWallet, LoadWallet, nodeVars, vars, disk
  <1>10. CASE ReacceptWalletTransactions
    <2>1. PICK txs \in Seq(Tx) : pool' = AcceptEach(pool, dbTxIndex, txs)
      <3>1. Those(HashOrder, DOMAIN mapWallet \ (DOMAIN dbTxIndex \cup Generated)) \in Seq(Tx)
        BY WalletConstants, ThoseIs
      <3> QED
        BY <1>10, <3>1 DEF ReacceptWalletTransactions
    <2>2. dbTxIndex' = dbTxIndex
      BY <1>10 DEF ReacceptWalletTransactions, vars, disk
    <2> QED
      BY <2>1, <2>2, AcceptKeepsNode
  <1>11. CASE Shutdown \/ CrashInSync
    BY <1>2, <1>11 DEF Shutdown, CrashInSync
  <1> QED
    BY <1>3, <1>4, <1>5, <1>6, <1>7, <1>8, <1>9, <1>10, <1>11 DEF WalletNext

\* The node's behaviours are behaviours of the chain, so that what is proved of
\* the chain holds with pool and wallet beside it.
THEOREM NodeRunsChain == WalletSpec => Spec
  <1>1. WalletInit => Init
    BY DEF WalletInit
  <1> QED
    BY <1>1, WalletStepsAreChainSteps, PTL DEF WalletSpec, Spec

\* What holds at every step of the node.
LEMMA NodeInvHolds == WalletSpec => [](ChainInv /\ IndexInv /\ LoadGoesBack /\ NodeInv)
  <1>1. WalletInit => ChainInv /\ IndexInv /\ LoadGoesBack /\ NodeInv
    <2> SUFFICES ASSUME WalletInit PROVE ChainInv /\ IndexInv /\ LoadGoesBack /\ NodeInv
      OBVIOUS
    <2>1. Init /\ pool = EmptyPool
      BY DEF WalletInit, PoolInit
    <2> QED
      BY <2>1, ChainInvInit, IndexInvInit, EmptyPoolNode DEF Init, LoadGoesBack, NodeInv
  <1>2. ChainInv /\ IndexInv /\ LoadGoesBack /\ NodeInv /\ [WalletNext]_allVars
          => (ChainInv /\ IndexInv /\ LoadGoesBack /\ NodeInv)'
    BY WalletStepsAreChainSteps, ChainInvInductive, IndexInvInductive, LoadGoesBackInductive,
       NodeInvInductive
  <1> QED
    BY <1>1, <1>2, PTL DEF WalletSpec

\* A transaction of the best chain is never also in the pool, whatever the
\* reorganisations, failed connects, crashes and restarts.
THEOREM PoolStaysUnconfirmed == WalletSpec => []PoolNotConfirmed
  <1>1. NodeInv => PoolNotConfirmed
    BY DEF NodeInv, PoolNotConfirmed
  <1> QED
    BY <1>1, NodeInvHolds, PTL

\* The pool of the running node holds no double spend, and its mapNextTx is
\* exact, although Reorganize and SetBestChain add and remove without its tests.
THEOREM NodePoolStaysExact == WalletSpec => [](NextTxExact /\ NoPooledDoubleSpend)
  <1>1. NodeInv => NextTxExact /\ NoPooledDoubleSpend
    BY InvIsOfPool DEF NodeInv, Pools, PoolInv, NextTxExact, NoPooledDoubleSpend
  <1> QED
    BY <1>1, NodeInvHolds, PTL

-----------------------------------------------------------------------------
(* The wallet: what each call makes of the set of transactions it knows.    *)

\* A transaction of the wallet's, by its outputs or by its inputs.
Own(t) == PaysMe(t) \/ Vin[t] \cap Mine # {}

\* w has the wallet's own transactions among S.
KnowsAll(w, S) == \A t \in S : Own(t) => t \in DOMAIN w

\* Marks change neither the transactions nor their blocks.
LEMMA MarksKeepDomain ==
  ASSUME NEW w, NEW outs
  PROVE  DOMAIN Mark(w, outs) = DOMAIN w /\ DOMAIN Unmark(w, outs) = DOMAIN w
  BY DEF Mark, Unmark

\* AddToWallet adds the transaction and forgets none.
LEMMA AddDomain ==
  ASSUME NEW w, NEW t, NEW b
  PROVE  DOMAIN AddToWallet(w, t, b) = DOMAIN w \cup {t}
  <1>1. \A v : DOMAIN WalletUpdateSpent(v, t, b # Null) = DOMAIN v
    BY MarksKeepDomain DEF WalletUpdateSpent
  <1> QED
    BY <1>1 DEF AddToWallet

\* AddToWalletIfInvolvingMe forgets nothing, and adds what pays the wallet or
\* spends an output of a transaction it knows.
LEMMA InvolvingLearns ==
  ASSUME NEW w, NEW t, NEW b, NEW fUpdate \in BOOLEAN
  PROVE  LET v == AddToWalletIfInvolvingMe(w, t, b, fUpdate)
         IN DOMAIN w \subseteq DOMAIN v /\ (PaysMe(t) \/ IsFromMe(w, t) => t \in DOMAIN v)
  <1> DEFINE u == AddToWalletIfInvolvingMe(w, t, b, fUpdate)
             marked == WalletUpdateSpent(w, t, FALSE)
  <1>1. DOMAIN marked = DOMAIN w
    BY MarksKeepDomain DEF WalletUpdateSpent
  <1>2. u = IF t \in DOMAIN w /\ ~fUpdate THEN w
            ELSE IF t \in DOMAIN w \/ PaysMe(t) \/ IsFromMe(w, t) THEN AddToWallet(w, t, b)
            ELSE marked
    BY DEF AddToWalletIfInvolvingMe
  <1> HIDE DEF u, marked
  <1>3. \/ u = w /\ t \in DOMAIN w
        \/ u = AddToWallet(w, t, b)
        \/ u = marked /\ ~PaysMe(t) /\ ~IsFromMe(w, t)
    BY <1>2, Zenon
  <1>4. DOMAIN w \subseteq DOMAIN u /\ (PaysMe(t) \/ IsFromMe(w, t) => t \in DOMAIN u)
    <2>1. DOMAIN AddToWallet(w, t, b) = DOMAIN w \cup {t}
      BY AddDomain
    <2>2. CASE u = AddToWallet(w, t, b)
      BY <2>1, <2>2
    <2>3. CASE u = w /\ t \in DOMAIN w
      BY <2>3
    <2>4. CASE u = marked /\ ~PaysMe(t) /\ ~IsFromMe(w, t)
      BY <1>1, <2>4
    <2> QED
      BY <1>3, <2>2, <2>3, <2>4
  <1> QED
    BY <1>4 DEF u

\* So does SyncTransaction; for a disconnected transaction it forgets nothing.
LEMMA SyncLearns ==
  ASSUME NEW w, NEW call
  PROVE  LET v == SyncTransaction(w, call)
         IN /\ DOMAIN w \subseteq DOMAIN v
            /\ call.fConnect /\ (PaysMe(call.tx) \/ IsFromMe(w, call.tx)) => call.tx \in DOMAIN v
  BY InvolvingLearns, MarksKeepDomain DEF SyncTransaction, DisableTransaction

-----------------------------------------------------------------------------
(* The loops: over the calls of SyncWithWallets, over the transactions of a *)
(* scan, and over the blocks of SetBestChain's batch.                       *)

\* The wallet after a transaction that is scanned, and after all of them.
Scanned(w, e)  == AddToWalletIfInvolvingMe(w, e[1], e[2], FALSE)
ScanAll(w, seq) == FoldLeft(LAMBDA v, e : AddToWalletIfInvolvingMe(v, e[1], e[2], FALSE), w, seq)

\* One step of each.
Does(way, x, e) ==
    IF way = "sync" THEN SyncTransaction(x, e)
    ELSE IF way = "scan" THEN Scanned(x, e)
    ELSE IF e.fConnect THEN ConnectBlock(x, e.block) ELSE DisconnectBlock(x, e.block)

\* The function over sets of positions that the fold is defined by.
Loops(g, way, base, seq, n) ==
    g = [s \in SUBSET (1..n) |->
            IF s = {} THEN base ELSE Does(way, g[s \ {Max(s)}], seq[Max(s)])]

\* It exists.
LEMMA LoopExists ==
  ASSUME NEW way, NEW base, NEW seq, NEW n \in Nat
  PROVE  \E g : Loops(g, way, base, seq, n)
  <1> DEFINE Body(g, s) == IF s = {} THEN base ELSE Does(way, g[s \ {Max(s)}], seq[Max(s)])
             Good(k) == \E g : g = [s \in SUBSET (1..k) |-> Body(g, s)]
             S == {k \in Nat : Good(k)}
  <1>1. Good(0)
    <2> DEFINE g == [s \in SUBSET (1..0) |-> base]
    <2>1. g = [s \in SUBSET (1..0) |-> Body(g, s)]
      OBVIOUS
    <2> QED BY <2>1
  <1>2. ASSUME NEW k \in Nat, Good(k)
        PROVE  Good(k + 1)
    <2>1. PICK g : g = [s \in SUBSET (1..k) |-> Body(g, s)]
      BY <1>2
    <2> DEFINE h == [s \in SUBSET (1..(k + 1)) |->
                        IF k + 1 \in s THEN Does(way, g[s \ {k + 1}], seq[k + 1]) ELSE g[s]]
    <2>2. ASSUME NEW s \in SUBSET (1..(k + 1))
          PROVE  h[s] = Body(h, s)
      <3>1. CASE k + 1 \in s
        <4>1. Max(s) = k + 1
          BY <3>1, MaxOfInterval
        <4>2. s \ {k + 1} \in SUBSET (1..k) /\ s \ {k + 1} \in SUBSET (1..(k + 1)) /\ k + 1 \notin s \ {k + 1}
          OBVIOUS
        <4>3. h[s \ {k + 1}] = g[s \ {k + 1}]
          BY <4>2
        <4> QED
          BY <3>1, <4>1, <4>3
      <3>2. CASE k + 1 \notin s
        <4>1. s \in SUBSET (1..k)
          BY <3>2
        <4>2. h[s] = g[s] /\ g[s] = Body(g, s)
          BY <2>1, <3>2, <4>1
        <4>3. CASE s = {}
          BY <4>2, <4>3
        <4>4. CASE s # {}
          <5>1. Max(s) \in s
            BY <4>1, <4>4, MaxInside
          <5>2. s \ {Max(s)} \in SUBSET (1..(k + 1)) /\ k + 1 \notin s \ {Max(s)}
            BY <3>2
          <5>3. h[s \ {Max(s)}] = g[s \ {Max(s)}]
            BY <5>2
          <5> QED
            BY <4>2, <4>4, <5>3
        <4> QED
          BY <4>3, <4>4
      <3> QED
        BY <3>1, <3>2
    <2> HIDE DEF h, Body
    <2>3. h = [s \in SUBSET (1..(k + 1)) |-> Body(h, s)]
      BY <2>2 DEF h
    <2> QED
      BY <2>3
  <1>3. Nat \subseteq S
    <2> HIDE DEF Good
    <2>1. 0 \in S /\ \A k \in Nat : k \in S => k + 1 \in S
      BY <1>1, <1>2
    <2> HIDE DEF S
    <2> QED
      BY <2>1, NatSetInduction
  <1> QED
    BY <1>3 DEF Loops

\* f goes through the positions in order.
Passes(f, way, base, seq, n) ==
    f[0] = base /\ \A i \in 1..n : f[i] = Does(way, f[i - 1], seq[i])

LEMMA LoopSteps ==
  ASSUME NEW way, NEW base, NEW seq, NEW n \in Nat, NEW g, Loops(g, way, base, seq, n)
  PROVE  \E f : Passes(f, way, base, seq, n) /\ f[n] = g[1..n]
  <1> DEFINE f == [i \in 0..n |-> g[1..i]]
  <1>1. f[0] = base
    <2>1. 0 \in 0..n /\ 1..0 = {} /\ 1..0 \in SUBSET (1..n)
      OBVIOUS
    <2> QED
      BY <2>1 DEF Loops
  <1>2. ASSUME NEW i \in 1..n
        PROVE  f[i] = Does(way, f[i - 1], seq[i])
    <2>1. i \in 0..n /\ i - 1 \in 0..n
      OBVIOUS
    <2>2. 1..i \in SUBSET (1..n) /\ 1..i # {} /\ Max(1..i) = i /\ (1..i) \ {Max(1..i)} = 1..(i - 1)
      BY FoldInOrder
    <2> QED
      BY <2>1, <2>2 DEF Loops
  <1>3. f[n] = g[1..n]
    OBVIOUS
  <1> HIDE DEF f
  <1> QED
    BY <1>1, <1>2, <1>3 DEF Passes

\* The wallet after each call.
LEMMA SyncRun ==
  ASSUME NEW w, NEW E, NEW seq \in Seq(E)
  PROVE  \E f : Passes(f, "sync", w, seq, Len(seq)) /\ f[Len(seq)] = FoldLeft(SyncTransaction, w, seq)
  <1> DEFINE n == Len(seq)
             iter == CHOOSE g : g = [s \in SUBSET (1..n) |->
                        IF s = {} THEN w ELSE SyncTransaction(g[s \ {Max(s)}], seq[Max(s)])]
  <1>1. n \in Nat /\ DOMAIN seq = 1..n
    OBVIOUS
  <1>2. \A x, e : Does("sync", x, e) = SyncTransaction(x, e)
    BY DEF Does
  <1>3. PICK g : Loops(g, "sync", w, seq, n)
    BY <1>1, LoopExists
  <1>4. g = [s \in SUBSET (1..n) |-> IF s = {} THEN w ELSE SyncTransaction(g[s \ {Max(s)}], seq[Max(s)])]
    <2>1. \A s \in SUBSET (1..n) : g[s] = IF s = {} THEN w ELSE SyncTransaction(g[s \ {Max(s)}], seq[Max(s)])
      BY <1>2, <1>3 DEF Loops
    <2>2. g = [s \in SUBSET (1..n) |-> g[s]]
      BY <1>3 DEF Loops
    <2> QED
      BY <2>1, <2>2
  <1>5. iter = [s \in SUBSET (1..n) |-> IF s = {} THEN w ELSE SyncTransaction(iter[s \ {Max(s)}], seq[Max(s)])]
    BY <1>4
  <1>6. FoldLeft(SyncTransaction, w, seq) = iter[1..n]
    BY <1>1 DEF FoldLeft, MapThenFoldSet
  <1> HIDE DEF iter
  <1>7. Loops(iter, "sync", w, seq, n)
    BY <1>2, <1>5 DEF Loops
  <1> QED
    BY <1>1, <1>6, <1>7, LoopSteps

\* The wallet after each transaction that is scanned.
LEMMA ScanRun ==
  ASSUME NEW w, NEW E, NEW seq \in Seq(E)
  PROVE  \E f : Passes(f, "scan", w, seq, Len(seq)) /\ f[Len(seq)] = ScanAll(w, seq)
  <1> DEFINE n == Len(seq)
             iter == CHOOSE g : g = [s \in SUBSET (1..n) |->
                        IF s = {} THEN w ELSE Scanned(g[s \ {Max(s)}], seq[Max(s)])]
  <1>1. n \in Nat /\ DOMAIN seq = 1..n
    OBVIOUS
  <1>2. \A x, e : Does("scan", x, e) = Scanned(x, e)
    BY DEF Does
  <1>3. PICK g : Loops(g, "scan", w, seq, n)
    BY <1>1, LoopExists
  <1>4. g = [s \in SUBSET (1..n) |-> IF s = {} THEN w ELSE Scanned(g[s \ {Max(s)}], seq[Max(s)])]
    <2>1. \A s \in SUBSET (1..n) : g[s] = IF s = {} THEN w ELSE Scanned(g[s \ {Max(s)}], seq[Max(s)])
      BY <1>2, <1>3 DEF Loops
    <2>2. g = [s \in SUBSET (1..n) |-> g[s]]
      BY <1>3 DEF Loops
    <2> QED
      BY <2>1, <2>2
  <1>5. iter = [s \in SUBSET (1..n) |-> IF s = {} THEN w ELSE Scanned(iter[s \ {Max(s)}], seq[Max(s)])]
    BY <1>4
  <1>6. ScanAll(w, seq) = iter[1..n]
    BY <1>1 DEF FoldLeft, MapThenFoldSet, ScanAll, Scanned
  <1> HIDE DEF iter
  <1>7. Loops(iter, "scan", w, seq, n)
    BY <1>2, <1>5 DEF Loops
  <1> QED
    BY <1>1, <1>6, <1>7, LoopSteps

\* The batch after each block of SetBestChain.
LEMMA AppliedRun ==
  ASSUME NEW E, NEW seq \in Seq(E)
  PROVE  \E f : Passes(f, "block", TxnBegin, seq, Len(seq)) /\ f[Len(seq)] = Applied(seq)
  <1> DEFINE n == Len(seq)
             Next1(x, e) == IF e.fConnect THEN ConnectBlock(x, e.block) ELSE DisconnectBlock(x, e.block)
             iter == CHOOSE g : g = [s \in SUBSET (1..n) |-> IF s = {} THEN TxnBegin ELSE
                        IF seq[Max(s)].fConnect THEN ConnectBlock(g[s \ {Max(s)}], seq[Max(s)].block)
                        ELSE DisconnectBlock(g[s \ {Max(s)}], seq[Max(s)].block)]
  <1>1. n \in Nat /\ DOMAIN seq = 1..n
    OBVIOUS
  <1>2. \A x, e : Does("block", x, e) = Next1(x, e)
    BY DEF Does
  <1>3. PICK g : Loops(g, "block", TxnBegin, seq, n)
    BY <1>1, LoopExists
  <1>4. g = [s \in SUBSET (1..n) |-> IF s = {} THEN TxnBegin ELSE
                        IF seq[Max(s)].fConnect THEN ConnectBlock(g[s \ {Max(s)}], seq[Max(s)].block)
                        ELSE DisconnectBlock(g[s \ {Max(s)}], seq[Max(s)].block)]
    <2>1. \A s \in SUBSET (1..n) : g[s] = IF s = {} THEN TxnBegin ELSE Next1(g[s \ {Max(s)}], seq[Max(s)])
      BY <1>2, <1>3 DEF Loops
    <2>2. g = [s \in SUBSET (1..n) |-> g[s]]
      BY <1>3 DEF Loops
    <2> QED
      BY <2>1, <2>2
  <1>5. iter = [s \in SUBSET (1..n) |-> IF s = {} THEN TxnBegin ELSE
                        IF seq[Max(s)].fConnect THEN ConnectBlock(iter[s \ {Max(s)}], seq[Max(s)].block)
                        ELSE DisconnectBlock(iter[s \ {Max(s)}], seq[Max(s)].block)]
    BY <1>4
  <1>6. Applied(seq) = iter[1..n]
    BY <1>1 DEF FoldLeft, MapThenFoldSet, Applied
  <1> HIDE DEF iter
  <1>7. Loops(iter, "block", TxnBegin, seq, n)
    <2>1. \A s \in SUBSET (1..n) :
            iter[s] = IF s = {} THEN TxnBegin ELSE Does("block", iter[s \ {Max(s)}], seq[Max(s)])
      BY <1>2, <1>5
    <2>2. iter = [s \in SUBSET (1..n) |-> iter[s]]
      BY <1>5
    <2> QED
      BY <2>1, <2>2 DEF Loops
  <1> QED
    BY <1>1, <1>6, <1>7, LoopSteps

-----------------------------------------------------------------------------
(* Told of its transactions in an order in which inputs come first, the     *)
(* wallet recognises all of them.                                           *)

\* The wallets f[0..n] never forget, and recognise what they are told of at
\* the positions of told: a payment, or a spend of what they know.
Listens(f, n, told, txs) ==
    \A i \in 1..n :
        /\ DOMAIN f[i - 1] \subseteq DOMAIN f[i]
        /\ i \in told /\ (PaysMe(txs[i]) \/ IsFromMe(f[i - 1], txs[i])) => txs[i] \in DOMAIN f[i]

\* The wallet's inputs are in K, or told of before.
InputsFirst(told, txs, K) ==
    \A i \in told : \A o \in Vin[txs[i]] \cap Mine :
        o[1] \in K \/ \E j \in told : j < i /\ txs[j] = o[1]

LEMMA ListensInOrder ==
  ASSUME NEW n \in Nat, NEW f, NEW told \in SUBSET (1..n), NEW txs, NEW K,
         Listens(f, n, told, txs), KnowsAll(f[0], K), InputsFirst(told, txs, K)
  PROVE  DOMAIN f[0] \subseteq DOMAIN f[n] /\ \A i \in told : Own(txs[i]) => txs[i] \in DOMAIN f[n]
  <1> DEFINE Good(i) == /\ DOMAIN f[0] \subseteq DOMAIN f[i]
                        /\ \A j \in told : j <= i /\ Own(txs[j]) => txs[j] \in DOMAIN f[i]
             S == {i \in 0..n : Good(i)}
  <1>1. 0 \in S
    OBVIOUS
  <1>2. ASSUME NEW i \in 1..n, i - 1 \in S
        PROVE  i \in S
    <2>1. Good(i - 1) /\ i \in 0..n
      BY <1>2
    <2>2. DOMAIN f[i - 1] \subseteq DOMAIN f[i]
      BY DEF Listens
    <2>3. ASSUME i \in told, Own(txs[i]) PROVE txs[i] \in DOMAIN f[i]
      <3>1. CASE PaysMe(txs[i])
        BY <2>3, <3>1 DEF Listens
      <3>2. CASE ~PaysMe(txs[i])
        <4>1. PICK o \in Vin[txs[i]] \cap Mine : TRUE
          BY <2>3, <3>2 DEF Own
        <4>2. Own(o[1])
          BY DEF Own, PaysMe
        <4>3. o[1] \in DOMAIN f[i - 1]
          <5>1. CASE o[1] \in K
            BY <2>1, <4>2, <5>1 DEF KnowsAll
          <5>2. CASE \E j \in told : j < i /\ txs[j] = o[1]
            <6>1. PICK j \in told : j < i /\ txs[j] = o[1]
              BY <5>2
            <6>2. j <= i - 1
              BY <6>1
            <6> QED
              BY <2>1, <4>2, <6>1, <6>2
          <5> QED
            BY <2>3, <4>1, <5>1, <5>2 DEF InputsFirst
        <4>4. IsFromMe(f[i - 1], txs[i])
          BY <4>1, <4>3 DEF IsFromMe
        <4> QED
          BY <2>3, <4>4 DEF Listens
      <3> QED
        BY <3>1, <3>2
    <2>4. ASSUME NEW j \in told, j <= i, Own(txs[j])
          PROVE  txs[j] \in DOMAIN f[i]
      <3>1. CASE j = i
        BY <2>3, <2>4, <3>1
      <3>2. CASE j # i
        <4>1. j \in 1..n /\ j <= i - 1
          <5>1. j \in 1..n
            OBVIOUS
          <5> QED
            BY <2>4, <3>2, <5>1
        <4>2. txs[j] \in DOMAIN f[i - 1]
          BY <2>1, <2>4, <4>1
        <4> QED
          BY <2>2, <4>2
      <3> QED
        BY <3>1, <3>2
    <2>5. Good(i)
      BY <2>1, <2>2, <2>4
    <2> QED
      BY <2>1, <2>5
  <1>3. n \in S
    <2> HIDE DEF S
    <2>1. \A i \in 0..n : i \in S
      BY <1>1, <1>2, StepInduction
    <2> QED
      BY <2>1
  <1> QED
    BY <1>3

\* Blocks of the branch that ends in b are connected, from the one after f up.
Climbs(steps, f, b) ==
    /\ \A i \in DOMAIN steps : steps[i].fConnect => steps[i].block \in Ledger(b)
    /\ \A c \in Ledger(b) : c \in Ledger(f) \/ \E i \in DOMAIN steps : steps[i].fConnect /\ steps[i].block = c
    /\ \A i, j \in DOMAIN steps :
          steps[i].fConnect /\ steps[j].fConnect /\ Height[steps[i].block] < Height[steps[j].block] => i < j

\* ss lists the transactions of the blocks, and heard the entries the wallet
\* takes for connected ones.
Lists(ss, steps, txOf, heard) ==
    /\ Len(ss) = Len(steps)
    /\ \A i \in 1..Len(ss) :
          /\ Len(ss[i]) = Len(Vtx[steps[i].block])
          /\ \A j \in 1..Len(ss[i]) :
                txOf[ss[i][j]] = Vtx[steps[i].block][j] /\ (steps[i].fConnect => ss[i][j] \in heard)

\* Earlier parts of a flattened sequence come earlier.
LEMMA OffsetsGrow ==
  ASSUME NEW E, NEW ss \in Seq(Seq(E)), NEW off, Offsets(off, ss),
         NEW k \in 1..Len(ss), NEW i \in 1..Len(ss), i < k
  PROVE  off[i] <= off[k - 1]
  <1> DEFINE n == Len(ss)
             S == {m \in 0..n : i <= m => off[i] <= off[m]}
  <1>1. n \in Nat /\ \A m \in 1..n : Len(ss[m]) \in Nat
    OBVIOUS
  <1>2. off \in [0..n -> Nat] /\ \A m \in 1..n : off[m] = off[m - 1] + Len(ss[m])
    BY DEF Offsets
  <1>3. 0 \in S
    BY <1>1
  <1>4. ASSUME NEW m \in 1..n, m - 1 \in S
        PROVE  m \in S
    <2>1. m \in 0..n /\ m - 1 \in 0..n /\ off[m] = off[m - 1] + Len(ss[m]) /\ Len(ss[m]) \in Nat
      BY <1>1, <1>2
    <2>2. off[m - 1] \in Nat /\ off[m] \in Nat /\ off[i] \in Nat
      <3>1. i \in 0..n
        BY <1>1
      <3> HIDE DEF n
      <3> QED
        BY <1>2, <2>1, <3>1
    <2>3. m - 1 \in 0..n /\ (i <= m - 1 => off[i] <= off[m - 1])
      BY <1>4, <2>1
    <2>4. i <= m => off[i] <= off[m]
      <3> HIDE DEF n
      <3>1. i \in Nat /\ m \in Nat
        BY <1>1, <2>1
      <3> QED
        BY <2>1, <2>2, <2>3, <3>1, SMTT(30)
    <2> QED
      BY <2>1, <2>4
  <1>5. \A m \in 0..n : m \in S
    <2> HIDE DEF S, n
    <2> QED
      BY <1>1, <1>3, <1>4, StepInduction
  <1> QED
    <2>1. k - 1 \in 0..n /\ i <= k - 1
      BY <1>1
    <2> QED
      BY <1>5, <2>1

\* An input of a sound branch is an output of an earlier transaction of it.
LEMMA InputsOfBranch ==
  ASSUME NEW b, SoundLedger(b), NEW c \in Ledger(b), NEW j \in DOMAIN Vtx[c], NEW o \in Vin[Vtx[c][j]]
  PROVE  \E d \in Ledger(c) : \E m \in DOMAIN Vtx[d] : Vtx[d][m] = o[1] /\ (d = c => m < j)
  <1>1. \E d \in Ledger(c) : \E m \in DOMAIN Vtx[d] :
           /\ Vtx[d][m] = o[1]
           /\ d = c => m < j
           /\ o[1] \in Generated => Height[c] - Height[d] >= Maturity
    BY DEF SoundLedger
  <1> QED
    BY <1>1

\* The wallets g hear the entries of seq one after the other.
Hears(g, seq, txOf, heard) ==
    \A k \in 1..Len(seq) :
        /\ DOMAIN g[k - 1] \subseteq DOMAIN g[k]
        /\ seq[k] \in heard /\ (PaysMe(txOf[seq[k]]) \/ IsFromMe(g[k - 1], txOf[seq[k]]))
              => txOf[seq[k]] \in DOMAIN g[k]

\* Wallets that listen to the transactions of a branch above f, and know their
\* own up to f, know their own on the whole branch.
LEMMA LearnsBranch ==
  ASSUME NEW b \in Block, NEW f, SoundLedger(b), NEW D, NEW steps \in Seq(D),
         NEW E, NEW ss \in Seq(Seq(E)), NEW txOf, NEW heard,
         Climbs(steps, f, b), Lists(ss, steps, txOf, heard),
         NEW g, KnowsAll(g[0], DOMAIN IndexOf(f)), Hears(g, FlattenSeq(ss), txOf, heard)
  PROVE  KnowsAll(g[Len(FlattenSeq(ss))], DOMAIN IndexOf(b))
  <1> DEFINE n == Len(ss)
             flat == FlattenSeq(ss)
             N == Len(flat)
             txs == [k \in 1..N |-> txOf[flat[k]]]
  <1>1. PICK off : Offsets(off, ss)
    BY FlattenIs
  <1>2. flat \in Seq(E) /\ N \in Nat /\ n \in Nat
    BY FlattenIs
  <1>3. /\ off \in [0..n -> Nat] /\ off[n] = N
        /\ \A i \in 1..n : off[i] = off[i - 1] + Len(ss[i]) /\ Len(ss[i]) \in Nat /\ off[i - 1] \in Nat /\ off[i] \in Nat
        /\ \A i \in 1..n : \A j \in 1..Len(ss[i]) : off[i - 1] + j \in 1..N /\ flat[off[i - 1] + j] = ss[i][j]
    <2>1. \A i \in 1..n : Len(ss[i]) \in Nat /\ i - 1 \in 0..n /\ i \in 0..n
      BY <1>2
    <2> QED
      BY <1>1, <1>2, <2>1 DEF Offsets
  <1> DEFINE Place(k, i, j) == /\ i \in 1..n /\ j \in 1..Len(ss[i]) /\ k = off[i - 1] + j
                               /\ steps[i].fConnect
             told == {k \in 1..N : \E i, j : Place(k, i, j)}
  <1>4. n = Len(steps) /\ DOMAIN steps = 1..n
    BY DEF Lists
  <1>5. ASSUME NEW i \in 1..n, NEW j \in 1..Len(ss[i]), steps[i].fConnect
        PROVE  LET c == steps[i].block
                   k == off[i - 1] + j
               IN /\ c \in Ledger(b) /\ c \in Block /\ j \in DOMAIN Vtx[c]
                  /\ k \in told /\ txs[k] = Vtx[c][j] /\ flat[k] \in heard
    <2> DEFINE c == steps[i].block
               k == off[i - 1] + j
    <2>1. c \in Ledger(b)
      BY <1>4, <1>5 DEF Climbs
    <2>2. c \in Block
      BY <2>1, LedgerFacts
    <2>3. Vtx[c] \in Seq(Tx) /\ j \in 1..Len(Vtx[c]) /\ DOMAIN Vtx[c] = 1..Len(Vtx[c])
      BY <2>2, BlockTxs DEF Lists
    <2>4. k \in 1..N /\ flat[k] = ss[i][j]
      BY <1>3
    <2>5. txs[k] = Vtx[c][j] /\ flat[k] \in heard
      BY <1>5, <2>4 DEF Lists
    <2>6. k \in told
      BY <1>5, <2>4
    <2> QED
      BY <2>1, <2>2, <2>3, <2>5, <2>6
  <1>6. ASSUME NEW c \in Ledger(b), c \notin Ledger(f)
        PROVE  \E i \in 1..n : /\ steps[i].fConnect /\ steps[i].block = c
                               /\ \A j \in DOMAIN Vtx[c] : j \in 1..Len(ss[i])
    <2>1. PICK i \in 1..n : steps[i].fConnect /\ steps[i].block = c
      BY <1>4, <1>6 DEF Climbs
    <2>2. c \in Block
      BY LedgerFacts
    <2>3. Vtx[c] \in Seq(Tx) /\ DOMAIN Vtx[c] = 1..Len(Vtx[c])
      BY <2>2, BlockTxs
    <2>4. Len(ss[i]) = Len(Vtx[c])
      BY <2>1 DEF Lists
    <2> QED
      BY <2>1, <2>3, <2>4
  <1> HIDE DEF Place
  <1>7. \A c \in Ledger(f) : \A t \in TxsOf(c) : t \in DOMAIN IndexOf(f)
    BY DEF IndexOf
  <1>8. ASSUME NEW k \in told, NEW o \in Vin[txs[k]] \cap Mine
        PROVE  o[1] \in DOMAIN IndexOf(f) \/ \E l \in told : l < k /\ txs[l] = o[1]
    <2>1. PICK i, j : Place(k, i, j)
      OBVIOUS
    <2> DEFINE c == steps[i].block
    <2>2. i \in 1..n /\ j \in 1..Len(ss[i]) /\ k = off[i - 1] + j /\ steps[i].fConnect
      BY <2>1 DEF Place
    <2>3. c \in Ledger(b) /\ c \in Block /\ j \in DOMAIN Vtx[c] /\ txs[k] = Vtx[c][j]
      BY <1>5, <2>2
    <2> HIDE DEF c, told, txs
    <2>4. PICK d \in Ledger(c) : \E m \in DOMAIN Vtx[d] : Vtx[d][m] = o[1] /\ (d = c => m < j)
      <3>1. o \in Vin[Vtx[c][j]]
        BY <2>3
      <3> QED
        BY <2>3, <3>1, InputsOfBranch
    <2>5. PICK m \in DOMAIN Vtx[d] : Vtx[d][m] = o[1] /\ (d = c => m < j)
      BY <2>4
    <2>6. d \in Ledger(b) /\ d \in Block /\ d \in Lineage[c]
      BY <2>3, <2>4, LedgerFacts DEF Ledger
    <2>7. CASE d = c
      <3>1. m \in 1..Len(ss[i])
        <4>1. Vtx[c] \in Seq(Tx) /\ m \in DOMAIN Vtx[c] /\ m < j
          BY <2>3, <2>5, <2>7, BlockTxs
        <4>2. Len(ss[i]) \in Nat
          BY <1>3, <2>2
        <4> QED
          BY <2>2, <4>1, <4>2
      <3>2. off[i - 1] + m \in told /\ txs[off[i - 1] + m] = Vtx[c][m]
        BY <1>5, <2>2, <3>1 DEF c
      <3>3. off[i - 1] \in Nat /\ m \in Nat /\ j \in Nat /\ m < j
        <4>1. off[i - 1] \in Nat /\ Len(ss[i]) \in Nat
          BY <1>3, <2>2
        <4>2. m < j
          BY <2>5, <2>7
        <4> QED
          BY <2>2, <3>1, <4>1, <4>2
      <3>4. off[i - 1] + m < k
        BY <2>2, <3>3
      <3> QED
        BY <2>5, <2>7, <3>2, <3>4
    <2>8. CASE d \in Ledger(f)
      <3>1. o[1] \in TxsOf(d)
        BY <2>5, <2>6, BlockTxs
      <3> QED
        BY <1>7, <2>8, <3>1
    <2>9. CASE d # c /\ d \notin Ledger(f)
      <3>1. PICK h \in 1..n : /\ steps[h].fConnect /\ steps[h].block = d
                              /\ \A l \in DOMAIN Vtx[d] : l \in 1..Len(ss[h])
        BY <1>6, <2>6, <2>9
      <3>2. Height[d] < Height[c]
        BY <2>3, <2>6, <2>9, LineageOrder
      <3>3. h < i
        BY <1>4, <2>2, <3>1, <3>2 DEF Climbs, c
      <3>4. m \in 1..Len(ss[h])
        BY <2>5, <3>1
      <3>5. off[h - 1] + m \in told /\ txs[off[h - 1] + m] = Vtx[d][m]
        BY <1>5, <3>1, <3>4
      <3>6. off[h] <= off[i - 1]
        BY <1>1, <2>2, <3>3, OffsetsGrow
      <3>7. /\ off[h] = off[h - 1] + Len(ss[h]) /\ Len(ss[h]) \in Nat /\ off[h - 1] \in Nat
            /\ off[h] \in Nat /\ off[i - 1] \in Nat /\ m \in Nat /\ j \in Nat /\ j >= 1
        BY <1>3, <2>2, <3>1, <3>4
      <3>8. off[h - 1] + m < k
        <4>1. m <= Len(ss[h])
          BY <3>4, <3>7
        <4>2. off[h - 1] + m <= off[i - 1]
          BY <3>6, <3>7, <4>1, SMTT(30)
        <4>3. off[h - 1] + m < off[i - 1] + j
          BY <3>7, <4>2, SMTT(30)
        <4> QED
          BY <2>2, <4>3, SMTT(30)
      <3> QED
        BY <2>5, <3>5, <3>8
    <2> QED
      BY <2>7, <2>8, <2>9
  <1>9. ASSUME NEW k \in told PROVE flat[k] \in heard
    <2>1. PICK i, j : Place(k, i, j)
      OBVIOUS
    <2> QED
      BY <1>5, <2>1 DEF Place
  <1>10. Listens(g, N, told, txs)
    BY <1>9 DEF Listens, Hears
  <1>11. told \in SUBSET (1..N)
    OBVIOUS
  <1> HIDE DEF told, txs, N, flat
  <1>12. DOMAIN g[0] \subseteq DOMAIN g[N] /\ \A k \in told : Own(txs[k]) => txs[k] \in DOMAIN g[N]
    <2> DEFINE K == DOMAIN IndexOf(f)
    <2>1. KnowsAll(g[0], K) /\ InputsFirst(told, txs, K)
      BY <1>8 DEF InputsFirst
    <2> HIDE DEF K
    <2>2. N \in Nat
      BY <1>2
    <2> QED
      BY <1>10, <1>11, <2>1, <2>2, ListensInOrder
  <1>13. ASSUME NEW t \in DOMAIN IndexOf(b), Own(t) PROVE t \in DOMAIN g[N]
    <2>1. PICK c \in Ledger(b) : t \in TxsOf(c)
      BY DEF IndexOf
    <2>2. CASE c \in Ledger(f)
      BY <1>7, <1>12, <1>13, <2>1, <2>2 DEF KnowsAll
    <2>3. CASE c \notin Ledger(f)
      <3>1. PICK i \in 1..n : /\ steps[i].fConnect /\ steps[i].block = c
                              /\ \A j \in DOMAIN Vtx[c] : j \in 1..Len(ss[i])
        BY <1>6, <2>3
      <3>0. c \in Block
        BY LedgerFacts
      <3>2. PICK j \in DOMAIN Vtx[c] : Vtx[c][j] = t
        BY <2>1, <3>0, BlockTxs
      <3>3. off[i - 1] + j \in told /\ txs[off[i - 1] + j] = t
        BY <1>5, <3>1, <3>2
      <3> QED
        BY <1>12, <1>13, <3>3
    <2> QED
      BY <2>2, <2>3
  <1> QED
    BY <1>13 DEF KnowsAll, N, flat

-----------------------------------------------------------------------------
(* What SetBestChain tells, and the wallet after it.                        *)

CallSet == [tx : Tx, block : Block \cup {Null}, fConnect : BOOLEAN]
StepSet == [block : Block, fConnect : BOOLEAN]

\* The largest of a set of numbers that holds 0.
LEMMA MaxFromZero ==
  ASSUME NEW n \in Nat, NEW S \in SUBSET (0..n), 0 \in S
  PROVE  Max(S) \in S /\ (n \in S => Max(S) = n)
  <1> DEFINE T == {k \in Nat : \E x \in S : k = n - x}
  <1>1. n \in T
    OBVIOUS
  <1>2. PICK k \in T : \A j \in T : k <= j
    BY <1>1, LeastNat
  <1>3. PICK x \in S : k = n - x
    OBVIOUS
  <1>4. \A y \in S : n - y \in T
    OBVIOUS
  <1>5. \A y \in S : x >= y
    BY <1>2, <1>3, <1>4
  <1>6. Max(S) \in S /\ \A y \in S : Max(S) >= y
    BY <1>5 DEF Max
  <1>7. ASSUME n \in S PROVE Max(S) = n
    <2>1. Max(S) \in 0..n /\ Max(S) >= n
      BY <1>6, <1>7
    <2> QED
      BY <2>1
  <1> QED
    BY <1>6, <1>7

\* The calls for one block.
LEMMA CallsForType ==
  ASSUME NEW s \in StepSet
  PROVE  /\ CallsFor(s) \in Seq(CallSet) /\ Len(CallsFor(s)) = Len(Vtx[s.block])
         /\ \A j \in 1..Len(Vtx[s.block]) :
               CallsFor(s)[j] = [tx |-> Vtx[s.block][j], block |-> s.block, fConnect |-> s.fConnect]
  <1> DEFINE q == [j \in DOMAIN Vtx[s.block] |->
                      [tx |-> Vtx[s.block][j], block |-> s.block, fConnect |-> s.fConnect]]
  <1>1. s.block \in Block /\ s.fConnect \in BOOLEAN
    BY DEF StepSet
  <1>2. Vtx[s.block] \in Seq(Tx)
    BY <1>1, BlockTxs
  <1>3. /\ DOMAIN Vtx[s.block] = 1..Len(Vtx[s.block]) /\ Len(Vtx[s.block]) \in Nat
        /\ \A j \in 1..Len(Vtx[s.block]) : Vtx[s.block][j] \in Tx
    BY <1>2
  <1>4. \A j \in 1..Len(Vtx[s.block]) : q[j] \in CallSet
    BY <1>1, <1>3 DEF CallSet
  <1>5. q \in [1..Len(Vtx[s.block]) -> CallSet]
    BY <1>3, <1>4
  <1> QED
    BY <1>3, <1>5 DEF CallsFor

\* Telling the wallet of anything forgets nothing.
LEMMA ToldGrows ==
  ASSUME NEW w, NEW calls \in Seq(CallSet)
  PROVE  DOMAIN w \subseteq DOMAIN FoldLeft(SyncTransaction, w, calls)
  <1>1. PICK f : Passes(f, "sync", w, calls, Len(calls)) /\ f[Len(calls)] = FoldLeft(SyncTransaction, w, calls)
    BY SyncRun
  <1> DEFINE n == Len(calls)
             S == {i \in 0..n : DOMAIN w \subseteq DOMAIN f[i]}
  <1>2. 0 \in S
    BY <1>1 DEF Passes
  <1>3. ASSUME NEW i \in 1..n, i - 1 \in S PROVE i \in S
    <2>1. f[i] = SyncTransaction(f[i - 1], calls[i])
      BY <1>1 DEF Passes, Does
    <2>2. DOMAIN f[i - 1] \subseteq DOMAIN f[i]
      BY <2>1, SyncLearns
    <2>3. i \in 0..n
      OBVIOUS
    <2> QED
      BY <1>3, <2>2, <2>3
  <1>4. n \in S
    <2> HIDE DEF S
    <2>1. n \in Nat
      OBVIOUS
    <2> HIDE DEF n
    <2>2. \A i \in 0..n : i \in S
      BY <1>2, <1>3, <2>1, StepInduction
    <2> QED
      BY <2>1, <2>2
  <1> QED
    BY <1>1, <1>4

\* Nor does scanning.
LEMMA ScanGrows ==
  ASSUME NEW w, NEW E, NEW seq \in Seq(E)
  PROVE  DOMAIN w \subseteq DOMAIN ScanAll(w, seq)
  <1>1. PICK f : Passes(f, "scan", w, seq, Len(seq)) /\ f[Len(seq)] = ScanAll(w, seq)
    BY ScanRun
  <1> DEFINE n == Len(seq)
             S == {i \in 0..n : DOMAIN w \subseteq DOMAIN f[i]}
  <1>2. 0 \in S
    BY <1>1 DEF Passes
  <1>3. ASSUME NEW i \in 1..n, i - 1 \in S PROVE i \in S
    <2>1. f[i] = AddToWalletIfInvolvingMe(f[i - 1], seq[i][1], seq[i][2], FALSE)
      BY <1>1 DEF Passes, Does, Scanned
    <2>2. DOMAIN f[i - 1] \subseteq DOMAIN f[i]
      BY <2>1, InvolvingLearns
    <2>3. i \in 0..n
      OBVIOUS
    <2> QED
      BY <1>3, <2>2, <2>3
  <1>4. n \in S
    <2> HIDE DEF S
    <2>1. n \in Nat
      OBVIOUS
    <2> HIDE DEF n
    <2>2. \A i \in 0..n : i \in S
      BY <1>2, <1>3, <2>1, StepInduction
    <2> QED
      BY <2>1, <2>2
  <1> QED
    BY <1>1, <1>4

\* Told of the blocks of steps, and then of anything, a wallet that knows its
\* own up to f knows its own on the branch that ends in b.
LEMMA ToldLearns ==
  ASSUME NEW b \in Block, NEW f, SoundLedger(b), NEW steps \in Seq(StepSet), Climbs(steps, f, b),
         NEW w, KnowsAll(w, DOMAIN IndexOf(f)), NEW more \in Seq(CallSet)
  PROVE  LET calls == FlattenSeq([i \in 1..Len(steps) |-> CallsFor(steps[i])])
         IN /\ calls \in Seq(CallSet)
            /\ KnowsAll(FoldLeft(SyncTransaction, w, calls \o more), DOMAIN IndexOf(b))
  <1> DEFINE n == Len(steps)
             ss == [i \in 1..n |-> CallsFor(steps[i])]
             calls == FlattenSeq(ss)
             all == calls \o more
             N == Len(calls)
             M == Len(all)
             txOf == [e \in CallSet |-> e.tx]
             heard == {e \in CallSet : e.fConnect}
  <1>1. n \in Nat /\ \A i \in 1..n : steps[i] \in StepSet
    OBVIOUS
  <1>2. ss \in [1..n -> Seq(CallSet)]
    BY <1>1, CallsForType
  <1>3. ss \in Seq(Seq(CallSet)) /\ Len(ss) = n
    <2> HIDE DEF ss, n
    <2> QED
      BY <1>1, <1>2
  <1>4. Lists(ss, steps, txOf, heard)
    <2>1. ASSUME NEW i \in 1..n
          PROVE  /\ Len(ss[i]) = Len(Vtx[steps[i].block])
                 /\ \A j \in 1..Len(ss[i]) :
                       /\ ss[i][j] \in CallSet
                       /\ ss[i][j] = [tx |-> Vtx[steps[i].block][j], block |-> steps[i].block,
                                      fConnect |-> steps[i].fConnect]
      <3>1. ss[i] = CallsFor(steps[i])
        OBVIOUS
      <3> HIDE DEF ss
      <3> QED
        BY <1>1, <3>1, CallsForType
    <2> HIDE DEF ss
    <2>2. \A i \in 1..n : \A j \in 1..Len(ss[i]) :
             /\ txOf[ss[i][j]] = Vtx[steps[i].block][j]
             /\ steps[i].fConnect => ss[i][j] \in heard
      <3> SUFFICES ASSUME NEW i \in 1..n, NEW j \in 1..Len(ss[i])
                   PROVE  /\ txOf[ss[i][j]] = Vtx[steps[i].block][j]
                          /\ steps[i].fConnect => ss[i][j] \in heard
        OBVIOUS
      <3> DEFINE e == ss[i][j]
      <3>1. e \in CallSet /\ e.tx = Vtx[steps[i].block][j] /\ e.fConnect = steps[i].fConnect
        <4>1. e \in CallSet
          BY <2>1
        <4>2. e = [tx |-> Vtx[steps[i].block][j], block |-> steps[i].block, fConnect |-> steps[i].fConnect]
          BY <2>1
        <4> HIDE DEF e
        <4> QED
          BY <4>1, <4>2, Zenon
      <3> HIDE DEF e
      <3>2. txOf[e] = e.tx /\ (e.fConnect => e \in heard)
        BY <3>1
      <3>3. txOf[e] = Vtx[steps[i].block][j] /\ (steps[i].fConnect => e \in heard)
        BY <3>1, <3>2
      <3> QED
        BY <3>3 DEF e
    <2> HIDE DEF txOf, heard
    <2> QED
      BY <1>3, <2>1, <2>2 DEF Lists
  <1>5. calls \in Seq(CallSet)
    BY <1>3, FlattenIs
  <1>6. all \in Seq(CallSet) /\ N \in Nat /\ M \in Nat /\ N <= M /\ \A k \in 1..N : k \in 1..M /\ all[k] = calls[k]
    <2> HIDE DEF calls
    <2> QED
      BY <1>5
  <1> HIDE DEF all
  <1>7. PICK g : Passes(g, "sync", w, all, M) /\ g[M] = FoldLeft(SyncTransaction, w, all)
    BY <1>6, SyncRun
  <1>8. g[0] = w /\ \A k \in 1..M : g[k] = SyncTransaction(g[k - 1], all[k])
    BY <1>7 DEF Passes, Does
  <1> HIDE DEF calls, M, N
  <1>9. Hears(g, calls, txOf, heard)
    <2> SUFFICES ASSUME NEW k \in 1..N
                 PROVE  /\ DOMAIN g[k - 1] \subseteq DOMAIN g[k]
                        /\ /\ calls[k] \in heard
                           /\ PaysMe(txOf[calls[k]]) \/ IsFromMe(g[k - 1], txOf[calls[k]])
                           => txOf[calls[k]] \in DOMAIN g[k]
      BY DEF Hears, N
    <2>1. g[k] = SyncTransaction(g[k - 1], calls[k])
      BY <1>6, <1>8
    <2>2. calls[k] \in CallSet
      BY <1>5 DEF N
    <2>3. txOf[calls[k]] = calls[k].tx
      BY <2>2
    <2>4. calls[k] \in heard => calls[k].fConnect
      OBVIOUS
    <2> HIDE DEF txOf, heard
    <2>5. /\ DOMAIN g[k - 1] \subseteq DOMAIN g[k]
          /\ calls[k].fConnect /\ (PaysMe(calls[k].tx) \/ IsFromMe(g[k - 1], calls[k].tx)) => calls[k].tx \in DOMAIN g[k]
      BY <2>1, SyncLearns
    <2> QED
      BY <2>3, <2>4, <2>5
  <1>10. KnowsAll(g[N], DOMAIN IndexOf(b))
    <2>1. KnowsAll(g[0], DOMAIN IndexOf(f))
      BY <1>8
    <2> HIDE DEF ss, txOf, heard
    <2> QED
      BY <1>3, <1>4, <1>9, <2>1, LearnsBranch DEF calls, N
  <1>11. DOMAIN g[N] \subseteq DOMAIN g[M]
    <2> DEFINE S == {i \in 0..M : i >= N => DOMAIN g[N] \subseteq DOMAIN g[i]}
    <2>1. 0 \in S
      BY <1>6
    <2>2. ASSUME NEW i \in 1..M, i - 1 \in S PROVE i \in S
      <3>1. DOMAIN g[i - 1] \subseteq DOMAIN g[i]
        BY <1>8, SyncLearns
      <3>2. i \in 0..M /\ (i >= N => i = N \/ i - 1 >= N)
        BY <1>6
      <3> QED
        BY <2>2, <3>1, <3>2
    <2>3. \A i \in 0..M : i \in S
      <3> HIDE DEF S
      <3> QED
        BY <1>6, <2>1, <2>2, StepInduction
    <2> QED
      BY <1>6, <2>3
  <1>12. KnowsAll(FoldLeft(SyncTransaction, w, all), DOMAIN IndexOf(b))
    BY <1>7, <1>10, <1>11 DEF KnowsAll
  <1> QED
    BY <1>5, <1>12 DEF all, calls

\* pindexIntermediate is a set of one.
LEMMA IntermediateOne ==
  ASSUME pblock \in Block
  PROVE  \E to \in Lineage[pblock] : pindexIntermediate = {to}
  <1> DEFINE R == Lineage[pblock] \ Postponed(pblock)
             T == {k \in Nat : \E a \in R : k = Height[pblock] - Height[a]}
  <1>1. \A a \in Lineage[pblock] : /\ a \in Block /\ Height[a] \in Nat /\ Height[pblock] \in Nat
                                   /\ Height[a] <= Height[pblock]
    BY LineageClosed, LineageOrder, PrevEnds
  <1>2. Genesis \in R
    <2>1. Prev[Genesis] = Null /\ Genesis \in Lineage[pblock]
      BY BlockTree, GenesisInLineage
    <2> QED
      BY <2>1 DEF Postponed
  <1>3. \A a \in R : Height[pblock] - Height[a] \in T
    BY <1>1
  <1>4. PICK k \in T : \A j \in T : k <= j
    BY <1>2, <1>3, LeastNat
  <1>5. PICK to \in R : k = Height[pblock] - Height[to]
    BY <1>4
  <1>6. \A c \in R : Height[c] <= Height[to]
    BY <1>1, <1>3, <1>4, <1>5
  <1>7. pindexIntermediate = {a \in R : \A c \in R : Height[c] <= Height[a]}
    BY DEF pindexIntermediate
  <1>8. \A a \in R : (\A c \in R : Height[c] <= Height[a]) => a = to
    <2> SUFFICES ASSUME NEW a \in R, \A c \in R : Height[c] <= Height[a] PROVE a = to
      OBVIOUS
    <2>1. Height[a] = Height[to]
      BY <1>1, <1>6
    <2> QED
      BY <2>1, LineageHeights
  <1> HIDE DEF R
  <1>9. pindexIntermediate = {to}
    BY <1>6, <1>7, <1>8
  <1>10. to \in Lineage[pblock]
    BY DEF R
  <1> QED
    BY <1>9, <1>10

\* A batch of no block.
LEMMA AppliedNone == Applied(<<>>).ok
  <1>1. <<>> \in Seq(StepSet) /\ Len(<<>>) = 0
    OBVIOUS
  <1>2. Applied(<<>>) = TxnBegin
    BY <1>1, AppliedRun DEF Passes
  <1>3. TxnBegin.ok = TRUE
    BY TxnBeginIs, BatchFields
  <1> QED
    BY <1>2, <1>3, Zenon

\* A batch of one block that is connected on top of its parent.
LEMMA OneStep ==
  ASSUME NEW b \in Block, Prev[b] # Null
  PROVE  LET steps == <<Step(b, TRUE)>>
         IN /\ steps \in Seq(StepSet) /\ Climbs(steps, Prev[b], b)
            /\ Applied(steps) = ConnectBlock(TxnBegin, b)
  <1> DEFINE s == Step(b, TRUE)
             steps == <<s>>
  <1>1. s \in StepSet /\ s.block = b /\ s.fConnect = TRUE
    BY DEF Step, StepSet
  <1> HIDE DEF s
  <1>2. steps \in Seq(StepSet) /\ Len(steps) = 1 /\ steps[1] = s /\ DOMAIN steps = {1}
    BY <1>1
  <1> HIDE DEF steps
  <1>3. Ledger(b) = Ledger(Prev[b]) \cup {b}
    BY LedgerFacts
  <1>4. Climbs(steps, Prev[b], b)
    <2>1. \A i \in DOMAIN steps : i = 1 /\ steps[i].block = b /\ steps[i].fConnect = TRUE
      BY <1>1, <1>2
    <2>2. 1 \in DOMAIN steps /\ b \in Ledger(b) /\ ~(Height[b] < Height[b])
      BY <1>2, <1>3, PrevEnds
    <2> QED
      BY <1>3, <2>1, <2>2 DEF Climbs
  <1>5. Applied(steps) = ConnectBlock(TxnBegin, b)
    <2>1. PICK f : Passes(f, "block", TxnBegin, steps, 1) /\ f[1] = Applied(steps)
      BY <1>2, AppliedRun
    <2>2. f[1] = Does("block", TxnBegin, s)
      <3>1. 1 \in 1..1 /\ 1 - 1 = 0
        OBVIOUS
      <3> QED
        BY <1>2, <2>1, <3>1 DEF Passes
    <2>3. Does("block", TxnBegin, s) = ConnectBlock(TxnBegin, b)
      BY <1>1, Zenon DEF Does
    <2> QED
      BY <2>1, <2>2, <2>3
  <1>6. steps \in Seq(StepSet)
    BY <1>2
  <1> QED
    BY <1>4, <1>5, <1>6 DEF steps, s

\* The steps of a reorganisation.
Moves(to) ==
    [i \in DOMAIN vDisconnect(to) |-> Step(vDisconnect(to)[i], FALSE)]
      \o [i \in DOMAIN vConnect(to) |-> Step(vConnect(to)[i], TRUE)]

LEMMA MovesAre ==
  ASSUME hashBestChain \in Block, NEW to \in Block
  PROVE  LET m == Len(vDisconnect(to))
             n == Len(vConnect(to))
         IN /\ m \in Nat /\ n \in Nat /\ vDisconnect(to) \in Seq(Block) /\ vConnect(to) \in Seq(Block)
            /\ Moves(to) \in Seq(StepSet) /\ Len(Moves(to)) = m + n
            /\ \A i \in 1..m : Moves(to)[i] = Step(vDisconnect(to)[i], FALSE)
            /\ \A i \in 1..n : Moves(to)[m + i] = Step(vConnect(to)[i], TRUE)
  <1> DEFINE down == vDisconnect(to)
             up == vConnect(to)
             m == Len(down)
             n == Len(up)
             Dn(x) == Step(x, FALSE)
             Up(x) == Step(x, TRUE)
             p == [i \in DOMAIN down |-> Dn(down[i])]
             q == [i \in DOMAIN up |-> Up(up[i])]
  <1>1. down \in Seq(Block) /\ up \in Seq(Block)
    BY LastCommonFacts, Paths DEF vDisconnect, vConnect
  <1> HIDE DEF down, up
  <1>2. \A x \in Block : Up(x) \in StepSet /\ Dn(x) \in StepSet
    BY DEF Step, StepSet
  <1>6. Moves(to) = p \o q
    BY DEF Moves, down, up
  <1> HIDE DEF Dn, Up
  <1>3. m \in Nat /\ n \in Nat /\ DOMAIN down = 1..m /\ DOMAIN up = 1..n
    BY <1>1
  <1>4. p \in [1..m -> StepSet] /\ q \in [1..n -> StepSet]
    BY <1>1, <1>2, <1>3
  <1>5. /\ \A i \in 1..m : p[i] = Dn(down[i])
        /\ \A i \in 1..n : q[i] = Up(up[i])
    BY <1>3
  <1> HIDE DEF p, q, m, n
  <1>7. p \in Seq(StepSet) /\ Len(p) = m /\ q \in Seq(StepSet) /\ Len(q) = n
    BY <1>3, <1>4
  <1>8. /\ Moves(to) \in Seq(StepSet) /\ Len(Moves(to)) = m + n
        /\ \A i \in 1..m : Moves(to)[i] = p[i]
        /\ \A i \in 1..n : Moves(to)[m + i] = q[i]
    <2>1. p \o q \in Seq(StepSet) /\ Len(p \o q) = m + n
      BY <1>7
    <2>2. \A i \in 1..m : (p \o q)[i] = p[i]
      BY <1>7
    <2>3. \A i \in 1..n : (p \o q)[m + i] = q[i]
      BY <1>3, <1>7
    <2> QED
      BY <1>6, <2>1, <2>2, <2>3
  <1> QED
    BY <1>1, <1>3, <1>5, <1>8 DEF down, up, m, n, Dn, Up

\* They climb from the tip to the block they go to.
LEMMA MovesClimb ==
  ASSUME hashBestChain \in Block, NEW to \in Block
  PROVE  Climbs(Moves(to), hashBestChain, to)
  <1> DEFINE tip == hashBestChain
             f == LastCommon(tip, to)
             up == vConnect(to)
             m == Len(vDisconnect(to))
             n == Len(up)
             steps == Moves(to)
  <1>1. /\ m \in Nat /\ n \in Nat
        /\ steps \in Seq(StepSet) /\ Len(steps) = m + n
        /\ \A i \in 1..m : steps[i] = Step(vDisconnect(to)[i], FALSE)
        /\ \A i \in 1..n : steps[m + i] = Step(up[i], TRUE)
    BY MovesAre
  <1>2. /\ \A i \in 1..m : ~steps[i].fConnect
        /\ \A i \in 1..n : steps[m + i].fConnect /\ steps[m + i].block = up[i]
    <2>1. \A b : /\ Step(b, TRUE).block = b /\ Step(b, TRUE).fConnect = TRUE
                 /\ Step(b, FALSE).fConnect = FALSE
      BY DEF Step
    <2> HIDE DEF steps, m, n, up
    <2> QED
      BY <1>1, <2>1, ZenonT(60)
  <1>3. f \in Lineage[tip] /\ f \in Lineage[to] /\ f \in Block
    BY LastCommonFacts
  <1>4. /\ up = PathUp(f, to) /\ n = Height[to] - Height[f] /\ Height[f] \in Nat /\ Height[to] \in Nat
        /\ \A i \in 1..n : up[i] = At(to, Height[f] + i)
    BY <1>3, Paths DEF vConnect
  <1>5. \A i \in 1..n : up[i] \in Lineage[to] /\ Height[up[i]] = Height[f] + i
    <2> SUFFICES ASSUME NEW i \in 1..n PROVE up[i] \in Lineage[to] /\ Height[up[i]] = Height[f] + i
      OBVIOUS
    <2>1. Height[f] + i \in 0..Height[to]
      BY <1>4
    <2> QED
      BY <1>4, <2>1, AtHeight
  <1> HIDE DEF steps, m, n, up, f
  <1>6. ASSUME NEW i \in DOMAIN steps, steps[i].fConnect
        PROVE  i - m \in 1..n /\ steps[i].block = up[i - m]
    <2>1. i \in 1..(m + n)
      BY <1>1
    <2>2. i \notin 1..m
      BY <1>2, <1>6
    <2>3. i - m \in 1..n /\ m + (i - m) = i
      BY <1>1, <2>1, <2>2
    <2> QED
      BY <1>2, <2>3
  <1>7. ASSUME NEW i \in DOMAIN steps, steps[i].fConnect
        PROVE  steps[i].block \in Ledger(to)
    <2>1. i - m \in 1..n /\ steps[i].block = up[i - m]
      BY <1>6, <1>7
    <2>2. up[i - m] \in Lineage[to] /\ Height[up[i - m]] = Height[f] + (i - m)
      BY <1>5, <2>1
    <2>3. Height[up[i - m]] > 0
      BY <1>4, <2>1, <2>2
    <2>4. Height[Genesis] = 0
      BY BlockTree, PrevEnds
    <2> QED
      BY <2>1, <2>2, <2>3, <2>4 DEF Ledger
  <1>8. ASSUME NEW c \in Ledger(to), c \notin Ledger(tip)
        PROVE  \E i \in DOMAIN steps : steps[i].fConnect /\ steps[i].block = c
    <2>1. c \in Lineage[to] /\ c # Genesis /\ c \in Block /\ c \notin Lineage[tip]
      BY <1>8, LineageClosed DEF Ledger
    <2>2. c \notin Lineage[f]
      BY <1>3, <2>1, LineageTransitive
    <2>3. Height[c] \in Nat /\ Height[c] > Height[f] /\ Height[c] <= Height[to]
      BY <1>3, <1>4, <2>1, <2>2, BelowFork, LineageOrder, PrevEnds
    <2> DEFINE i == Height[c] - Height[f]
    <2>4. i \in 1..n
      BY <1>4, <2>3
    <2>5. up[i] = c
      <3>1. up[i] \in Lineage[to] /\ Height[up[i]] = Height[c]
        BY <1>4, <1>5, <2>3, <2>4
      <3> QED
        BY <2>1, <3>1, LineageHeights
    <2>6. m + i \in DOMAIN steps
      BY <1>1, <2>4
    <2> QED
      BY <1>2, <2>4, <2>5, <2>6
  <1>9. ASSUME NEW i \in DOMAIN steps, NEW j \in DOMAIN steps, steps[i].fConnect, steps[j].fConnect,
               Height[steps[i].block] < Height[steps[j].block]
        PROVE  i < j
    <2>1. i - m \in 1..n /\ steps[i].block = up[i - m] /\ j - m \in 1..n /\ steps[j].block = up[j - m]
      BY <1>6, <1>9
    <2>2. Height[up[i - m]] = Height[f] + (i - m) /\ Height[up[j - m]] = Height[f] + (j - m)
      BY <1>5, <2>1
    <2>3. i \in Nat /\ j \in Nat
      BY <1>1
    <2> QED
      BY <1>1, <1>4, <1>9, <2>1, <2>2, <2>3
  <1>10. Climbs(steps, tip, to)
    BY <1>7, <1>8, <1>9 DEF Climbs
  <1> QED
    BY <1>10 DEF steps

\* The batch they make is Reorganize's.
LEMMA MovesApplied ==
  ASSUME hashBestChain \in Block, NEW to \in Block
  PROVE  Applied(Moves(to)) = Reorganized(to)
  <1> DEFINE down == vDisconnect(to)
             up == vConnect(to)
             m == Len(down)
             n == Len(up)
             steps == Moves(to)
             base == FoldLeft(DisconnectBlock, TxnBegin, down)
  <1>1. /\ m \in Nat /\ n \in Nat /\ down \in Seq(Block) /\ up \in Seq(Block)
        /\ steps \in Seq(StepSet) /\ Len(steps) = m + n
        /\ \A i \in 1..m : steps[i] = Step(down[i], FALSE)
        /\ \A i \in 1..n : steps[m + i] = Step(up[i], TRUE)
    BY MovesAre
  <1>2. Reorganized(to) = FoldLeft(ConnectBlock, base, up)
    BY DEF Reorganized
  <1> HIDE DEF steps, down, up
  <1>3. PICK f : Passes(f, "block", TxnBegin, steps, Len(steps)) /\ f[Len(steps)] = Applied(steps)
    BY <1>1, AppliedRun
  <1>4. PICK g : /\ g[0] = TxnBegin
                 /\ \A i \in 1..Len(down) : g[i] = DisconnectBlock(g[i - 1], down[i])
                 /\ base = g[Len(down)]
    BY <1>1, FoldDisconnect
  <1> HIDE DEF base
  <1>5. PICK h : /\ h[0] = base
                 /\ \A i \in 1..Len(up) : h[i] = ConnectBlock(h[i - 1], up[i])
                 /\ FoldLeft(ConnectBlock, base, up) = h[Len(up)]
    BY <1>1, FoldConnect
  <1>6. \A x, b : /\ Does("block", x, Step(b, FALSE)) = DisconnectBlock(x, b)
                  /\ Does("block", x, Step(b, TRUE)) = ConnectBlock(x, b)
    <2> SUFFICES ASSUME NEW x, NEW b
                 PROVE  /\ Does("block", x, Step(b, FALSE)) = DisconnectBlock(x, b)
                        /\ Does("block", x, Step(b, TRUE)) = ConnectBlock(x, b)
      OBVIOUS
    <2> DEFINE u == Step(b, TRUE)
               d == Step(b, FALSE)
    <2>1. u.block = b /\ u.fConnect = TRUE /\ d.block = b /\ d.fConnect = FALSE
      BY DEF Step
    <2> HIDE DEF u, d
    <2>2. Does("block", x, u) = ConnectBlock(x, b) /\ Does("block", x, d) = DisconnectBlock(x, b)
      BY <2>1, Zenon DEF Does
    <2> QED
      BY <2>2 DEF u, d
  <1>7. \A i \in 1..(m + n) : f[i] = Does("block", f[i - 1], steps[i])
    BY <1>1, <1>3 DEF Passes
  <1> HIDE DEF m, n
  <1>8. \A i \in 1..m : f[i] = DisconnectBlock(f[i - 1], down[i])
    <2> SUFFICES ASSUME NEW i \in 1..m PROVE f[i] = DisconnectBlock(f[i - 1], down[i])
      OBVIOUS
    <2>1. i \in 1..(m + n)
      BY <1>1
    <2>2. steps[i] = Step(down[i], FALSE)
      BY <1>1, Zenon
    <2>3. f[i] = Does("block", f[i - 1], Step(down[i], FALSE))
      BY <1>7, <2>1, <2>2, Zenon
    <2> QED
      BY <1>6, <2>3, Zenon
  <1>9. \A i \in 1..n : f[m + i] = ConnectBlock(f[m + (i - 1)], up[i])
    <2> SUFFICES ASSUME NEW i \in 1..n PROVE f[m + i] = ConnectBlock(f[m + (i - 1)], up[i])
      OBVIOUS
    <2>1. m + i \in 1..(m + n) /\ (m + i) - 1 = m + (i - 1)
      BY <1>1
    <2>2. steps[m + i] = Step(up[i], TRUE)
      BY <1>1, Zenon
    <2>3. f[m + i] = Does("block", f[m + (i - 1)], steps[m + i])
      BY <1>7, <2>1
    <2>4. f[m + i] = Does("block", f[m + (i - 1)], Step(up[i], TRUE))
      BY <2>2, <2>3, Zenon
    <2> QED
      BY <1>6, <2>4, Zenon
  <1>10. f[m] = base
    <2> DEFINE S == {i \in 0..m : f[i] = g[i]}
    <2>1. 0 \in S
      BY <1>1, <1>3, <1>4 DEF Passes
    <2>2. \A i \in 1..m : i - 1 \in S => i \in S
      BY <1>4, <1>8 DEF m
    <2> HIDE DEF S
    <2>3. \A i \in 0..m : i \in S
      BY <1>1, <2>1, <2>2, StepInduction
    <2> QED
      BY <1>1, <1>4, <2>3 DEF S, m
  <1>11. f[m + n] = h[n]
    <2> DEFINE S == {i \in 0..n : f[m + i] = h[i]}
    <2>1. 0 \in S
      <3>1. m + 0 = m
        BY <1>1
      <3> QED
        BY <1>1, <1>5, <1>10, <3>1
    <2>2. \A i \in 1..n : i - 1 \in S => i \in S
      BY <1>5, <1>9 DEF n
    <2> HIDE DEF S
    <2>3. \A i \in 0..n : i \in S
      BY <1>1, <2>1, <2>2, StepInduction
    <2> QED
      BY <1>1, <2>3 DEF S
  <1>12. Applied(steps) = Reorganized(to)
    BY <1>1, <1>2, <1>3, <1>5, <1>11 DEF n
  <1> QED
    BY <1>12 DEF steps

\* The steps SetBestChain is about to take.
LEMMA StepsAre ==
  ASSUME ChainInv
  PROVE  /\ Steps \in Seq(StepSet)
         /\ pc = "ConnectPostponed" => Steps = <<Step(Head(vpindexSecondary), TRUE)>>
         /\ pc = "SetBestChain" /\ hashBestChain # Null /\ Prev[pblock] = hashBestChain =>
               Steps = <<Step(pblock, TRUE)>>
         /\ pc = "SetBestChain" /\ hashBestChain # Null /\ Prev[pblock] # hashBestChain =>
               \A to \in pindexIntermediate : to \in Block /\ Steps = Moves(to)
  <1>0. \A b \in Block : <<Step(b, TRUE)>> \in Seq(StepSet)
    BY DEF Step, StepSet
  <1>1. CASE pc = "ConnectPostponed"
    <2>1. pblock \in Block /\ dbHashBest \in Lineage[pblock] /\ dbHashBest # pblock
          /\ vpindexSecondary = PathUp(dbHashBest, pblock)
      BY <1>1 DEF ChainInv, ProgramTypes, TrustOrder
    <2>2. Head(vpindexSecondary) \in Block
      BY <2>1, PathUpStep, LineageClosed
    <2>3. Steps = <<Step(Head(vpindexSecondary), TRUE)>>
      BY <1>1 DEF Steps
    <2> QED
      BY <1>0, <1>1, <2>2, <2>3
  <1>2. CASE pc # "ConnectPostponed" /\ (pc # "SetBestChain" \/ hashBestChain = Null)
    <2>1. Steps = <<>>
      BY <1>2 DEF Steps
    <2>2. Steps \in Seq(StepSet)
      BY <2>1
    <2> QED
      BY <1>2, <2>2
  <1>3. CASE pc = "SetBestChain" /\ hashBestChain # Null /\ Prev[pblock] = hashBestChain
    <2>1. pblock \in Block
      BY <1>3 DEF ChainInv, ProgramTypes
    <2>2. Steps = <<Step(pblock, TRUE)>>
      BY <1>3 DEF Steps
    <2> QED
      BY <1>0, <1>3, <2>1, <2>2
  <1>4. CASE pc = "SetBestChain" /\ hashBestChain # Null /\ Prev[pblock] # hashBestChain
    <2>1. pblock \in Block /\ hashBestChain \in Block
      BY <1>4 DEF ChainInv, ProgramTypes
    <2>2. PICK to \in Lineage[pblock] : pindexIntermediate = {to}
      BY <2>1, IntermediateOne
    <2>3. to \in Block /\ to = CHOOSE a \in pindexIntermediate : TRUE
      BY <2>1, <2>2, LineageClosed
    <2>4. Steps = Moves(CHOOSE a \in pindexIntermediate : TRUE)
      BY <1>4 DEF Steps, Moves
    <2>5. Steps = Moves(to)
      BY <2>3, <2>4
    <2>6. Moves(to) \in Seq(StepSet)
      BY <2>1, <2>3, MovesAre
    <2>7. \A a \in pindexIntermediate : a \in Block /\ Steps = Moves(a)
      BY <2>2, <2>3, <2>5
    <2> QED
      BY <1>4, <2>5, <2>6, <2>7
  <1> QED
    BY <1>1, <1>2, <1>3, <1>4

\* What it tells: all of it, if the batch comes to its end.
LEMMA SyncCallsAre ==
  ASSUME ChainInv
  PROVE  /\ SyncCalls \in Seq(CallSet)
         /\ Applied(Steps).ok =>
               SyncCalls = FlattenSeq([i \in 1..Len(Steps) |-> CallsFor(Steps[i])])
  <1> DEFINE steps == Steps
             n == Len(steps)
             S == {k \in 0..n : Applied(SubSeq(steps, 1, k)).ok}
             done == Max(S)
             ss == [i \in 1..done |-> CallsFor(steps[i])]
  <1>1. steps \in Seq(StepSet)
    BY StepsAre
  <1>2. SyncCalls = FlattenSeq(ss)
    BY DEF SyncCalls
  <1> HIDE DEF steps
  <1>3. n \in Nat /\ SubSeq(steps, 1, 0) = <<>> /\ SubSeq(steps, 1, n) = steps /\ \A i \in 1..n : steps[i] \in StepSet
    BY <1>1
  <1>4. 0 \in S /\ S \in SUBSET (0..n) /\ (Applied(steps).ok => n \in S)
    <2>1. 0 \in 0..n /\ n \in 0..n
      BY <1>3
    <2> QED
      BY <1>3, <2>1, AppliedNone, Zenon
  <1> HIDE DEF n, S
  <1>5. done \in S /\ (n \in S => done = n)
    BY <1>3, <1>4, MaxFromZero
  <1>6. done \in 0..n
    BY <1>4, <1>5
  <1> HIDE DEF done
  <1>7. ss \in [1..done -> Seq(CallSet)]
    BY <1>3, <1>6, CallsForType
  <1>8. FlattenSeq(ss) \in Seq(CallSet)
    <2>1. ss \in Seq(Seq(CallSet))
      <3> HIDE DEF ss
      <3>1. done \in Nat
        BY <1>3, <1>6
      <3> QED
        BY <1>7, <3>1
    <2> QED
      BY <2>1, FlattenIs
  <1>9. Applied(steps).ok => done = n
    BY <1>4, <1>5
  <1> QED
    BY <1>2, <1>8, <1>9 DEF steps, n

\* The calls for what comes back to the pool.
LEMMA PoolCallsType ==
  ASSUME NEW txs \in Seq(Tx)
  PROVE  PoolCalls(txs) \in Seq(CallSet)
  <1> DEFINE q == [i \in DOMAIN txs |-> [tx |-> txs[i], block |-> Null, fConnect |-> TRUE]]
  <1>1. Len(txs) \in Nat /\ DOMAIN txs = 1..Len(txs) /\ \A i \in 1..Len(txs) : txs[i] \in Tx
    OBVIOUS
  <1>2. q \in [1..Len(txs) -> CallSet]
    BY <1>1 DEF CallSet
  <1> QED
    BY <1>1, <1>2 DEF PoolCalls

\* The calls that accompany a step of SetBestChain.
LEMMA ConnectTipTells ==
  ASSUME ChainInv, IndexInv, ExactInv, ExactInv', LoadGoesBack, Running,
         KnowsAll(mapWallet, DOMAIN dbTxIndex), SyncConnectTip
  PROVE  /\ DOMAIN mapWallet \subseteq DOMAIN mapWallet'
         /\ KnowsAll(mapWallet', DOMAIN dbTxIndex')
  <1>1. mapWallet' = FoldLeft(SyncTransaction, mapWallet, SyncCalls) /\ ConnectTip
    BY DEF SyncConnectTip, Told
  <1>2. SyncCalls \in Seq(CallSet)
    BY SyncCallsAre
  <1>3. DOMAIN mapWallet \subseteq DOMAIN mapWallet'
    BY <1>1, <1>2, ToldGrows
  <1>4. CASE UNCHANGED disk
    BY <1>3, <1>4 DEF KnowsAll, disk
  <1>5. ASSUME NEW b \in Block, Prev[b] = dbHashBest, Prev[b] # Null, ConnectedOne(b),
               Steps = <<Step(b, TRUE)>>, ConnectBlock(TxnBegin, b).ok
        PROVE  KnowsAll(mapWallet', DOMAIN dbTxIndex')
    <2> DEFINE steps == <<Step(b, TRUE)>>
               calls == FlattenSeq([i \in 1..Len(steps) |-> CallsFor(steps[i])])
    <2>1. steps \in Seq(StepSet) /\ Climbs(steps, dbHashBest, b) /\ Applied(steps).ok
      BY <1>5, OneStep
    <2>2. SyncCalls = calls
      BY <1>5, <2>1, SyncCallsAre
    <2>3. dbHashBest' = b /\ b # Null
      BY <1>5, BlockTree DEF ConnectedOne
    <2>4. dbTxIndex' = IndexOf(b) /\ SoundLedger(b)
      BY <2>3 DEF ExactInv, RecordsOf, GoodLedger
    <2>5. KnowsAll(mapWallet, DOMAIN IndexOf(dbHashBest))
      BY <1>5 DEF ExactInv, RecordsOf
    <2> HIDE DEF steps
    <2>6. <<>> \in Seq(CallSet)
      OBVIOUS
    <2>7. calls \in Seq(CallSet) /\ KnowsAll(FoldLeft(SyncTransaction, mapWallet, calls \o <<>>), DOMAIN IndexOf(b))
      BY <2>1, <2>4, <2>5, <2>6, ToldLearns
    <2> HIDE DEF calls
    <2>8. calls \o <<>> = calls
      BY <2>7
    <2> QED
      BY <1>1, <2>2, <2>4, <2>7, <2>8
  <1>6. CASE ExtendTip
    <2>1. CASE ConnectedOne(pblock) /\ ConnectBlock(TxnBegin, pblock).ok
      <3>1. /\ pc = "SetBestChain" /\ pblock \in Block /\ Prev[pblock] = hashBestChain /\ hashBestChain # Null
        BY <1>6, ExtendEffect
      <3>2. hashBestChain = dbHashBest
        BY <3>1 DEF ExactInv
      <3>3. Steps = <<Step(pblock, TRUE)>>
        BY <3>1, StepsAre
      <3>4. PICK b \in Block : b = pblock
        BY <3>1
      <3>5. /\ Prev[b] = dbHashBest /\ Prev[b] # Null /\ ConnectedOne(b) /\ ConnectBlock(TxnBegin, b).ok
            /\ Steps = <<Step(b, TRUE)>>
        BY <2>1, <3>1, <3>2, <3>3, <3>4
      <3> QED
        BY <1>3, <1>5, <3>5
    <2>2. CASE ~ConnectBlock(TxnBegin, pblock).ok
      <3>1. UNCHANGED disk
        BY <1>6, <2>2 DEF ExtendTip
      <3> QED
        BY <1>4, <3>1
    <2>3. UNCHANGED disk \/ ConnectedOne(pblock)
      BY <1>6, ExtendEffect
    <2> QED
      BY <1>4, <2>1, <2>2, <2>3
  <1>7. CASE ConnectPostponed
    <2>1. PICK b \in Block : /\ Prev[b] = dbHashBest /\ Prev[b] # Null /\ b = Head(vpindexSecondary)
                             /\ pc = "ConnectPostponed"
                             /\ UNCHANGED disk \/ ConnectedOne(b)
      BY <1>7, PostponedEffect
    <2>2. Steps = <<Step(b, TRUE)>>
      BY <2>1, StepsAre
    <2>3. CASE ~ConnectBlock(TxnBegin, b).ok
      <3>1. UNCHANGED disk
        BY <1>7, <2>1, <2>3 DEF ConnectPostponed
      <3> QED
        BY <1>4, <3>1
    <2>4. CASE ConnectedOne(b) /\ ConnectBlock(TxnBegin, b).ok
      BY <1>3, <1>5, <2>1, <2>2, <2>4
    <2> QED
      BY <1>4, <2>1, <2>3, <2>4
  <1> QED
    BY <1>1, <1>3, <1>4, <1>6, <1>7 DEF ConnectTip

LEMMA ReorganizeTipTells ==
  ASSUME ChainInv, IndexInv, ExactInv, ExactInv', LoadGoesBack, Running,
         KnowsAll(mapWallet, DOMAIN dbTxIndex), SyncReorganizeTip
  PROVE  /\ DOMAIN mapWallet \subseteq DOMAIN mapWallet'
         /\ KnowsAll(mapWallet', DOMAIN dbTxIndex')
  <1> DEFINE back == Those(vResurrect(dbHashBest'),
                           AcceptEach(pool, dbTxIndex', vResurrect(dbHashBest')).mapTx \ pool.mapTx)
             more == IF dbHashBest' = dbHashBest THEN <<>> ELSE PoolCalls(back)
  <1>1. mapWallet' = FoldLeft(SyncTransaction, mapWallet, SyncCalls \o more) /\ Reorganize
    BY DEF SyncReorganizeTip, Told, ReorganizeTip
  <1>2. SyncCalls \in Seq(CallSet)
    BY SyncCallsAre
  <1>3. /\ pc = "SetBestChain" /\ pblock \in Block /\ hashBestChain \in Block
        /\ hashBestChain # Null /\ Prev[pblock] # hashBestChain
    BY <1>1, ReorganizeEffect DEF Reorganize
  <1>4. PICK to \in Lineage[pblock] :
             \/ UNCHANGED disk
             \/ to \in pindexIntermediate /\ ReorganizedTo(to)
    BY <1>1, ReorganizeEffect
  <1>5. to \in Block
    BY <1>3, LineageClosed
  <1>6. more \in Seq(CallSet)
    <2>1. CASE dbHashBest' = dbHashBest
      BY <2>1
    <2>2. CASE dbHashBest' # dbHashBest
      <3>1. dbHashBest' = to
        BY <1>4, <2>2 DEF ReorganizedTo, disk
      <3>2. vResurrect(to) \in Seq(Tx)
        BY <1>3, <1>5, ResurrectType
      <3>3. back \in Seq(Tx)
        BY <3>1, <3>2, ThoseIs
      <3> HIDE DEF back
      <3>4. PoolCalls(back) \in Seq(CallSet)
        BY <3>3, PoolCallsType
      <3> QED
        BY <2>2, <3>4
    <2> QED
      BY <2>1, <2>2
  <1> HIDE DEF more
  <1>7. DOMAIN mapWallet \subseteq DOMAIN mapWallet'
    <2>1. SyncCalls \o more \in Seq(CallSet)
      BY <1>2, <1>6
    <2> QED
      BY <1>1, <2>1, ToldGrows
  <1>8. CASE UNCHANGED disk
    BY <1>7, <1>8 DEF KnowsAll, disk
  <1>9. CASE to \in pindexIntermediate /\ ReorganizedTo(to)
    <2> DEFINE steps == Moves(to)
               calls == FlattenSeq([i \in 1..Len(steps) |-> CallsFor(steps[i])])
    <2>1. Steps = steps /\ steps \in Seq(StepSet) /\ Climbs(steps, hashBestChain, to)
          /\ Applied(steps) = Reorganized(to)
      BY <1>3, <1>5, <1>9, StepsAre, MovesAre, MovesClimb, MovesApplied
    <2>2. CASE ~Reorganized(to).ok
      <3>1. pindexIntermediate = {to}
        BY <1>3, <1>9, IntermediateOne
      <3>2. UNCHANGED disk
        BY <1>1, <2>2, <3>1 DEF Reorganize
      <3> QED
        BY <1>8, <3>2
    <2>3. CASE Reorganized(to).ok
      <3>1. SyncCalls = calls
        BY <2>1, <2>3, SyncCallsAre
      <3>2. dbHashBest' = to /\ to # Null /\ hashBestChain = dbHashBest
        BY <1>3, <1>5, <1>9, BlockTree DEF ReorganizedTo, ExactInv
      <3>3. dbTxIndex' = IndexOf(to) /\ SoundLedger(to)
        BY <3>2 DEF ExactInv, RecordsOf, GoodLedger
      <3>4. KnowsAll(mapWallet, DOMAIN IndexOf(hashBestChain))
        BY <1>3, <3>2 DEF ExactInv, RecordsOf
      <3> HIDE DEF steps
      <3>5. KnowsAll(FoldLeft(SyncTransaction, mapWallet, calls \o more), DOMAIN IndexOf(to))
        BY <1>5, <1>6, <2>1, <3>3, <3>4, ToldLearns
      <3> QED
        BY <1>1, <1>7, <3>1, <3>3, <3>5
    <2> QED
      BY <2>2, <2>3
  <1> QED
    BY <1>4, <1>8, <1>9

-----------------------------------------------------------------------------
(* The scan at the start.                                                   *)

\* The transactions a scan goes through, with their blocks.
ScanList(start) ==
    LET path == <<start>> \o PathUp(start, hashBestChain)
    IN FlattenSeq([i \in DOMAIN path |-> [j \in DOMAIN Vtx[path[i]] |-> <<Vtx[path[i]][j], path[i]>>]])

\* Scanning from start.
LEMMA ScanIs ==
  ASSUME NEW w, NEW start, NEW height
  PROVE  ScanForWalletTransactions(w, start, height, FALSE) =
            ScanAll(w, IF Height[start] < height THEN <<>> ELSE ScanList(start))
  BY DEF ScanForWalletTransactions, ScanAll, ScanList

\* The blocks of the path, and what the scan sees of each.
LEMMA ScanPath ==
  ASSUME hashBestChain \in Block, NEW start \in Lineage[hashBestChain]
  PROVE  LET path == <<start>> \o PathUp(start, hashBestChain)
             n == Height[hashBestChain] - Height[start] + 1
         IN /\ n \in Nat /\ path \in Seq(Block) /\ Len(path) = n /\ DOMAIN path = 1..n
            /\ \A i \in 1..n : path[i] \in Lineage[hashBestChain] /\ Height[path[i]] = Height[start] + i - 1
  <1> DEFINE tip == hashBestChain
             up == PathUp(start, tip)
             k == Height[tip] - Height[start]
             path == <<start>> \o up
  <1>1. start \in Block /\ Height[start] \in Nat /\ Height[tip] \in Nat /\ k \in Nat
    BY LineageClosed, Paths
  <1>2. /\ up \in Seq(Block) /\ Len(up) = k
        /\ \A i \in 1..k : up[i] \in Lineage[tip] /\ Height[up[i]] = Height[start] + i
    BY PathUpBlocks
  <1> HIDE DEF up, k
  <1>3. path \in Seq(Block) /\ Len(path) = k + 1 /\ DOMAIN path = 1..(k + 1)
    BY <1>1, <1>2
  <1>4. \A i \in 1..(k + 1) : path[i] = IF i = 1 THEN start ELSE up[i - 1]
    BY <1>1, <1>2
  <1>5. ASSUME NEW i \in 1..(k + 1)
        PROVE  path[i] \in Lineage[tip] /\ Height[path[i]] = Height[start] + i - 1
    <2>1. CASE i = 1
      BY <1>1, <1>4, <2>1
    <2>2. CASE i # 1
      <3> HIDE DEF path
      <3>1. i - 1 \in 1..k /\ path[i] = up[i - 1]
        BY <1>1, <1>4, <2>2
      <3>2. up[i - 1] \in Lineage[tip] /\ Height[up[i - 1]] = Height[start] + (i - 1)
        BY <1>2, <3>1
      <3> QED
        BY <1>1, <3>1, <3>2
    <2> QED
      BY <2>1, <2>2
  <1>6. k + 1 \in Nat
    BY <1>1
  <1> HIDE DEF path
  <1> QED
    BY <1>3, <1>5, <1>6 DEF path, k, up

\* The list is a sequence, block by block.
LEMMA ScanLists ==
  ASSUME hashBestChain \in Block, NEW start \in Lineage[hashBestChain]
  PROVE  \E ss \in Seq(Seq(Tx \X Block)), steps \in Seq(StepSet) :
            /\ ScanList(start) = FlattenSeq(ss)
            /\ Lists(ss, steps, [e \in Tx \X Block |-> e[1]], Tx \X Block)
            /\ Len(steps) = Height[hashBestChain] - Height[start] + 1
            /\ \A i \in 1..Len(steps) : /\ steps[i].fConnect
                                        /\ steps[i].block \in Lineage[hashBestChain]
                                        /\ Height[steps[i].block] = Height[start] + i - 1
  <1> DEFINE tip == hashBestChain
             path == <<start>> \o PathUp(start, tip)
             n == Height[tip] - Height[start] + 1
             E == Tx \X Block
             Row(b) == [j \in DOMAIN Vtx[b] |-> <<Vtx[b][j], b>>]
             Up(b) == Step(b, TRUE)
             ss == [i \in 1..n |-> Row(path[i])]
             steps == [i \in 1..n |-> Up(path[i])]
             txOf == [e \in E |-> e[1]]
  <1>1. /\ n \in Nat /\ path \in Seq(Block) /\ Len(path) = n /\ DOMAIN path = 1..n
        /\ \A i \in 1..n : path[i] \in Lineage[tip] /\ Height[path[i]] = Height[start] + i - 1
    BY ScanPath
  <1>2. ScanList(start) = FlattenSeq(ss)
    BY <1>1 DEF ScanList
  <1> HIDE DEF path
  <1>3. \A i \in 1..n : path[i] \in Block
    BY <1>1
  <1>4. ASSUME NEW b \in Block
        PROVE  /\ Row(b) \in Seq(E) /\ Len(Row(b)) = Len(Vtx[b])
               /\ \A j \in 1..Len(Row(b)) : Row(b)[j] \in E /\ txOf[Row(b)[j]] = Vtx[b][j]
    <2>1. /\ Len(Vtx[b]) \in Nat /\ DOMAIN Vtx[b] = 1..Len(Vtx[b])
          /\ \A j \in 1..Len(Vtx[b]) : Vtx[b][j] \in Tx
      BY BlockTxs
    <2>2. \A j \in 1..Len(Vtx[b]) : Row(b)[j] = <<Vtx[b][j], b>> /\ Row(b)[j] \in E
      BY <2>1
    <2>3. Row(b) \in [1..Len(Vtx[b]) -> E]
      BY <2>1
    <2> HIDE DEF Row
    <2>4. Row(b) \in Seq(E) /\ Len(Row(b)) = Len(Vtx[b])
      BY <2>1, <2>3
    <2>5. \A j \in 1..Len(Row(b)) : Row(b)[j] \in E /\ txOf[Row(b)[j]] = Vtx[b][j]
      BY <2>2, <2>4
    <2> QED
      BY <2>4, <2>5
  <1>5. \A b \in Block : Up(b) \in StepSet /\ Up(b).block = b /\ Up(b).fConnect
    BY DEF Step, StepSet
  <1> HIDE DEF Row, Up, E, txOf, n
  <1>6. ss \in [1..n -> Seq(E)] /\ steps \in [1..n -> StepSet]
    BY <1>3, <1>4, <1>5
  <1>7. \A i \in 1..n : ss[i] = Row(path[i]) /\ steps[i] = Up(path[i])
    OBVIOUS
  <1> HIDE DEF ss, steps
  <1>8. ss \in Seq(Seq(E)) /\ steps \in Seq(StepSet) /\ Len(ss) = n /\ Len(steps) = n
    BY <1>1, <1>6
  <1>9. Lists(ss, steps, txOf, E)
    <2>1. ASSUME NEW i \in 1..n
          PROVE  /\ Len(ss[i]) = Len(Vtx[steps[i].block])
                 /\ \A j \in 1..Len(ss[i]) : txOf[ss[i][j]] = Vtx[steps[i].block][j] /\ ss[i][j] \in E
      <3>1. path[i] \in Block /\ ss[i] = Row(path[i]) /\ steps[i] = Up(path[i])
        BY <1>3, <1>7
      <3>2. steps[i].block = path[i]
        BY <1>5, <3>1
      <3> QED
        BY <1>4, <3>1, <3>2
    <2> QED
      BY <1>8, <2>1 DEF Lists
  <1>10. \A i \in 1..Len(steps) : /\ steps[i].fConnect
                                  /\ steps[i].block \in Lineage[tip]
                                  /\ Height[steps[i].block] = Height[start] + i - 1
    BY <1>1, <1>3, <1>5, <1>7, <1>8
  <1>11. ss \in Seq(Seq(Tx \X Block)) /\ steps \in Seq(StepSet)
    BY <1>8 DEF E
  <1>12. Lists(ss, steps, [e \in Tx \X Block |-> e[1]], Tx \X Block)
    BY <1>9 DEF E, txOf
  <1>13. Len(steps) = Height[hashBestChain] - Height[start] + 1
    BY <1>8 DEF n
  <1> HIDE DEF tip
  <1>14. \A i \in 1..Len(steps) : /\ steps[i].fConnect
                                  /\ steps[i].block \in Lineage[hashBestChain]
                                  /\ Height[steps[i].block] = Height[start] + i - 1
    BY <1>10 DEF tip
  <1> QED
    BY <1>2, <1>11, <1>12, <1>13, <1>14, Zenon

\* A scan forgets nothing.
LEMMA ScanKeeps ==
  ASSUME hashBestChain \in Block, NEW start \in Lineage[hashBestChain], NEW w, NEW height
  PROVE  DOMAIN w \subseteq DOMAIN ScanForWalletTransactions(w, start, height, FALSE)
  <1> DEFINE seq == IF Height[start] < height THEN <<>> ELSE ScanList(start)
  <1>1. ScanList(start) \in Seq(Tx \X Block)
    BY ScanLists, FlattenIs
  <1>2. seq \in Seq(Tx \X Block)
    BY <1>1
  <1>3. ScanForWalletTransactions(w, start, height, FALSE) = ScanAll(w, seq)
    BY ScanIs
  <1> HIDE DEF seq
  <1> QED
    BY <1>2, <1>3, ScanGrows

\* From a block above the genesis block, up to which the wallet knows its own,
\* it finds the rest.
LEMMA ScanLearns ==
  ASSUME hashBestChain \in Block, NEW start \in Lineage[hashBestChain], start # Genesis,
         SoundLedger(hashBestChain), NEW w, KnowsAll(w, DOMAIN IndexOf(start))
  PROVE  KnowsAll(ScanForWalletTransactions(w, start, 1, FALSE), DOMAIN IndexOf(hashBestChain))
  <1> DEFINE tip == hashBestChain
             E == Tx \X Block
             seq == ScanList(start)
             n == Height[tip] - Height[start] + 1
             txOf == [e \in E |-> e[1]]
  <1>1. start \in Block /\ Height[start] \in Nat /\ Height[tip] \in Nat /\ Height[start] <= Height[tip] /\ n \in Nat
    BY LineageClosed, LineageOrder, PrevEnds
  <1>2. Height[start] >= 1
    <2>1. Prev[start] # Null
      BY <1>1, BlockTree
    <2> QED
      BY <1>1, <2>1, PrevEnds, BlockTree
  <1>3. ScanForWalletTransactions(w, start, 1, FALSE) = ScanAll(w, seq)
    <2> DEFINE these == IF Height[start] < 1 THEN <<>> ELSE ScanList(start)
    <2>1. ~(Height[start] < 1)
      BY <1>1, <1>2
    <2>2. these = seq
      BY <2>1, Zenon
    <2>3. ScanForWalletTransactions(w, start, 1, FALSE) = ScanAll(w, these)
      BY ScanIs
    <2> QED
      BY <2>2, <2>3, Zenon
  <1>4. PICK ss \in Seq(Seq(E)), steps \in Seq(StepSet) :
            /\ seq = FlattenSeq(ss)
            /\ Lists(ss, steps, txOf, E)
            /\ Len(steps) = n
            /\ \A i \in 1..Len(steps) : /\ steps[i].fConnect
                                        /\ steps[i].block \in Lineage[tip]
                                        /\ Height[steps[i].block] = Height[start] + i - 1
    BY ScanLists
  <1> HIDE DEF seq, n
  <1>5. Climbs(steps, start, tip)
    <2>1. DOMAIN steps = 1..n
      BY <1>4
    <2>2. \A i \in DOMAIN steps : steps[i].block \in Ledger(tip)
      <3> SUFFICES ASSUME NEW i \in 1..n PROVE steps[i].block \in Ledger(tip)
        BY <2>1
      <3>1. steps[i].block \in Lineage[tip] /\ Height[steps[i].block] = Height[start] + i - 1
        BY <1>4
      <3>2. Height[steps[i].block] >= 1
        BY <1>1, <1>2, <3>1
      <3>3. Height[Genesis] = 0
        BY BlockTree, PrevEnds
      <3> QED
        BY <3>1, <3>2, <3>3 DEF Ledger
    <2>3. ASSUME NEW c \in Ledger(tip), c \notin Ledger(start)
          PROVE  \E i \in DOMAIN steps : steps[i].fConnect /\ steps[i].block = c
      <3>1. c \in Lineage[tip] /\ c \in Block /\ c \notin Lineage[start]
        BY <2>3, LineageClosed DEF Ledger
      <3>2. Height[c] \in Nat /\ Height[c] > Height[start] /\ Height[c] <= Height[tip]
        <4>1. Height[c] \in Nat
          BY <3>1, PrevEnds
        <4>2. Height[c] <= Height[start] <=> c \in Lineage[start]
          BY <1>1, <3>1, BelowFork
        <4>3. c = tip \/ Height[c] < Height[tip]
          BY <3>1, LineageOrder
        <4> QED
          BY <1>1, <3>1, <4>1, <4>2, <4>3
      <3> DEFINE i == Height[c] - Height[start] + 1
      <3>3. i \in 1..n /\ Height[start] + i - 1 = Height[c]
        BY <1>1, <3>2 DEF n
      <3> HIDE DEF i
      <3>4. steps[i].fConnect /\ steps[i].block \in Lineage[tip] /\ Height[steps[i].block] = Height[c]
        BY <1>4, <3>3
      <3>5. steps[i].block = c
        BY <3>1, <3>4, LineageHeights
      <3> QED
        BY <2>1, <3>3, <3>4, <3>5
    <2>4. ASSUME NEW i \in DOMAIN steps, NEW j \in DOMAIN steps,
                 Height[steps[i].block] < Height[steps[j].block]
          PROVE  i < j
      <3>1. i \in 1..n /\ j \in 1..n
        BY <2>1
      <3>2. Height[steps[i].block] = Height[start] + i - 1 /\ Height[steps[j].block] = Height[start] + j - 1
        BY <1>4, <3>1
      <3> QED
        BY <1>1, <2>4, <3>1, <3>2
    <2> QED
      BY <2>2, <2>3, <2>4 DEF Climbs
  <1>6. seq \in Seq(E)
    BY <1>4, FlattenIs
  <1>7. PICK g : Passes(g, "scan", w, seq, Len(seq)) /\ g[Len(seq)] = ScanAll(w, seq)
    BY <1>6, ScanRun
  <1>8. g[0] = w /\ \A k \in 1..Len(seq) : g[k] = AddToWalletIfInvolvingMe(g[k - 1], seq[k][1], seq[k][2], FALSE)
    BY <1>7 DEF Passes, Does, Scanned
  <1>9. Hears(g, seq, txOf, E)
    <2> SUFFICES ASSUME NEW k \in 1..Len(seq)
                 PROVE  /\ DOMAIN g[k - 1] \subseteq DOMAIN g[k]
                        /\ PaysMe(txOf[seq[k]]) \/ IsFromMe(g[k - 1], txOf[seq[k]]) => txOf[seq[k]] \in DOMAIN g[k]
      BY DEF Hears
    <2>1. seq[k] \in E
      BY <1>6
    <2>2. txOf[seq[k]] = seq[k][1]
      BY <2>1
    <2>3. g[k] = AddToWalletIfInvolvingMe(g[k - 1], seq[k][1], seq[k][2], FALSE)
      BY <1>8
    <2>4. /\ DOMAIN g[k - 1] \subseteq DOMAIN g[k]
          /\ PaysMe(seq[k][1]) \/ IsFromMe(g[k - 1], seq[k][1]) => seq[k][1] \in DOMAIN g[k]
      BY <2>3, InvolvingLearns
    <2> HIDE DEF txOf
    <2> QED
      BY <2>2, <2>4
  <1> HIDE DEF txOf
  <1>10. KnowsAll(g[0], DOMAIN IndexOf(start)) /\ Hears(g, FlattenSeq(ss), txOf, E) /\ Lists(ss, steps, txOf, E)
    BY <1>4, <1>8, <1>9
  <1> HIDE DEF E
  <1>11. KnowsAll(g[Len(FlattenSeq(ss))], DOMAIN IndexOf(tip))
    BY <1>5, <1>10, LearnsBranch
  <1> QED
    BY <1>3, <1>4, <1>7, <1>11

-----------------------------------------------------------------------------
(* What the wallet knows, through crashes, restarts and restored copies.     *)

\* AppInit2 loads the chain before the wallet: until the wallet is registered
\* nothing moves the tip but the first start.
Started ==
    /\ stage \in {"off", "registered", "ready"} /\ tooNew = {}
    /\ Running => Alive /\ locator # Null
    /\ ~Running => \/ pc \in {"down", "unbootable", "idle"}
                   \/ pc \in {"AddToBlockIndex", "SetBestChain"} /\ dbHashBest = Null

\* The wallet knows its own up to the block of its locator, and so does the
\* copy; while it is registered, or no older copy was put in its place, it
\* knows them all.
Remembers ==
    /\ locator \in Block \cup {Null} /\ (locator = Null => backup = {})
    /\ Running \/ backup = {} => KnowsAll(mapWallet, DOMAIN dbTxIndex)
    /\ locator # Null => KnowsAll(mapWallet, DOMAIN IndexOf(locator))
    /\ \A copy \in backup : copy[2] \in Block /\ KnowsAll(copy[1], DOMAIN IndexOf(copy[2]))

\* What is known of a branch is known of each part of it.
LEMMA KnowsPart ==
  ASSUME NEW b \in Block, NEW a \in Lineage[b], NEW w, KnowsAll(w, DOMAIN IndexOf(b))
  PROVE  KnowsAll(w, DOMAIN IndexOf(a))
  <1>1. Ledger(a) \subseteq Ledger(b)
    BY LineageTransitive DEF Ledger
  <1>2. DOMAIN IndexOf(a) \subseteq DOMAIN IndexOf(b)
    BY <1>1 DEF IndexOf
  <1> QED
    BY <1>2 DEF KnowsAll

\* A wallet that has forgotten nothing knows what it knew.
LEMMA KnowsMore ==
  ASSUME NEW w, NEW v, DOMAIN w \subseteq DOMAIN v
  PROVE  \A S : KnowsAll(w, S) => KnowsAll(v, S)
  BY DEF KnowsAll

\* At rest the index is that of the tip.
LEMMA AtRest ==
  ASSUME ChainInv, ExactInv, TipIsOnDisk, pc \in {"idle", "orphans"}
  PROVE  /\ hashBestChain \in Block /\ hashBestChain = dbHashBest
         /\ dbTxIndex = IndexOf(hashBestChain) /\ SoundLedger(hashBestChain)
  BY DEF ChainInv, ProgramTypes, GenesisFirst, Alive, ExactInv, RecordsOf, GoodLedger, TipIsOnDisk

\* A wallet step that adds to the wallet and leaves chain and locator alone.
LEMMA GrowthKeeps ==
  ASSUME Remembers, DOMAIN mapWallet \subseteq DOMAIN mapWallet',
         UNCHANGED <<dbTxIndex, locator, backup>>, Running' => Running
  PROVE  Remembers'
  <1>1. \A S : KnowsAll(mapWallet, S) => KnowsAll(mapWallet', S)
    BY KnowsMore
  <1>2. /\ locator' = locator /\ backup' = backup /\ dbTxIndex' = dbTxIndex
    OBVIOUS
  <1>3. Running' \/ backup = {} => KnowsAll(mapWallet', DOMAIN dbTxIndex)
    BY <1>1 DEF Remembers
  <1>4. locator # Null => KnowsAll(mapWallet', DOMAIN IndexOf(locator))
    BY <1>1 DEF Remembers
  <1> QED
    BY <1>2, <1>3, <1>4 DEF Remembers

\* SetBestChain's steps move the tip in memory last, when they return.
LEMMA TipMovesLast ==
  ASSUME ChainInv, IndexInv, ConnectTip \/ ReorganizeTip
  PROVE  /\ hashBestChain # Null /\ pc \in {"SetBestChain", "ConnectPostponed"} /\ UNCHANGED env
         /\ pc' \in {"idle", "orphans", "ConnectPostponed"}
         /\ hashBestChain' # hashBestChain => pc' \in {"idle", "orphans"}
  <1>1. \A ok : Return(ok) => pc' \in {"idle", "orphans"}
    BY DEF Return, ChainInv, ProgramTypes
  <1>2. \A b \in Block : b # Null
    BY BlockTree
  <1>3. CASE ExtendTip
    BY <1>1, <1>3, ExtendEffect
  <1>4. CASE ConnectPostponed
    <2>1. hashBestChain # Null
      <3>1. pc = "ConnectPostponed"
        BY <1>4, PostponedEffect
      <3> QED
        BY <3>1 DEF ChainInv, GenesisFirst, Alive
    <2>2. pc = "ConnectPostponed" /\ UNCHANGED env
      BY <1>4, PostponedEffect
    <2>3. (hashBestChain' = pblock /\ Return(TRUE)) \/ (hashBestChain' = hashBestChain /\ pc' = pc)
      BY <1>4, PostponedEffect, Zenon
    <2> QED
      BY <1>1, <2>1, <2>2, <2>3
  <1>5. CASE ReorganizeTip
    <2>1. Reorganize
      BY <1>5 DEF ReorganizeTip
    <2>2. pc = "SetBestChain" /\ hashBestChain \in Block /\ UNCHANGED env
      BY <2>1, ReorganizeEffect
    <2>3. \/ Return(FALSE) /\ hashBestChain' = hashBestChain
          \/ Return(TRUE)
          \/ pc' = "ConnectPostponed" /\ hashBestChain' = hashBestChain
      BY <2>1, ReorganizeEffect, Zenon
    <2> QED
      BY <1>1, <1>2, <2>2, <2>3
  <1> QED
    BY <1>3, <1>4, <1>5 DEF ConnectTip

\* The wallet is told of what SetBestChain's steps connect before it writes
\* down how far the chain has come.
LEMMA TipKeepsWallet ==
  ASSUME ChainInv, IndexInv, LoadGoesBack, ExactInv, Started, Remembers,
         ChainInv', ExactInv', TipIsOnDisk', SyncConnectTip \/ SyncReorganizeTip
  PROVE  Started' /\ Remembers'
  <1>1. /\ hashBestChain # Null /\ pc \in {"SetBestChain", "ConnectPostponed"} /\ UNCHANGED env
        /\ pc' \in {"idle", "orphans", "ConnectPostponed"}
        /\ hashBestChain' # hashBestChain => pc' \in {"idle", "orphans"}
    BY TipMovesLast DEF SyncConnectTip, SyncReorganizeTip
  <1>2. Running
    BY <1>1 DEF Started, ChainInv, GenesisFirst
  <1>3. UNCHANGED <<backup, stage>> /\ SaveLocator
    BY DEF SyncConnectTip, SyncReorganizeTip
  <1>4. KnowsAll(mapWallet, DOMAIN dbTxIndex)
    BY <1>2 DEF Remembers
  <1>5. DOMAIN mapWallet \subseteq DOMAIN mapWallet' /\ KnowsAll(mapWallet', DOMAIN dbTxIndex')
    BY <1>2, <1>4, ConnectTipTells, ReorganizeTipTells
  <1>6. locator \in Block /\ locator # Null /\ KnowsAll(mapWallet', DOMAIN IndexOf(locator))
    BY <1>2, <1>5, KnowsMore DEF Started, Remembers
  <1>7. \/ locator' = locator
        \/ locator' = hashBestChain' /\ hashBestChain' # hashBestChain
    BY <1>3 DEF SaveLocator
  <1>8. ASSUME hashBestChain' # hashBestChain
        PROVE  hashBestChain' \in Block /\ dbTxIndex' = IndexOf(hashBestChain')
    <2>1. pc' \in {"idle", "orphans"}
      BY <1>1, <1>8
    <2> QED
      BY <2>1 DEF ChainInv, ProgramTypes, GenesisFirst, Alive, ExactInv, RecordsOf, TipIsOnDisk
  <1>9. locator' \in Block /\ locator' # Null /\ KnowsAll(mapWallet', DOMAIN IndexOf(locator'))
    BY <1>5, <1>6, <1>7, <1>8, BlockTree
  <1>10. Started'
    BY <1>1, <1>2, <1>3, <1>9 DEF Started, Running, Alive, env
  <1>11. Remembers'
    <2>1. backup' = backup
      BY <1>3
    <2>2. \A copy \in backup' : copy[2] \in Block /\ KnowsAll(copy[1], DOMAIN IndexOf(copy[2]))
      BY <2>1 DEF Remembers
    <2> QED
      BY <1>5, <1>9, <2>2 DEF Remembers
  <1> QED
    BY <1>10, <1>11

\* LoadWallet's scan has a block above the genesis block to start from, if an
\* older copy of wallet.dat may have been put back: it stops at once at a block
\* below height 1, and -rescan starts at the genesis block.
ScanReaches ==
    pc = "idle" /\ stage = "off" /\ backup # {} /\ Height[hashBestChain] > Height[pindexRescan]
        => pindexRescan # Genesis

\* LoadWallet finds what the wallet has missed.
LEMMA LoadKeepsWallet ==
  ASSUME ChainInv, ExactInv, TipIsOnDisk, ScanReaches, Started, Remembers, LoadWallet
  PROVE  Started' /\ Remembers'
  <1> DEFINE tip == hashBestChain
             start == pindexRescan
  <1>1. pc = "idle" /\ stage = "off" /\ stage' = "registered" /\ UNCHANGED <<nodeVars, backup>>
    BY DEF LoadWallet
  <1>2. tip \in Block /\ tip # Null /\ dbTxIndex = IndexOf(tip) /\ SoundLedger(tip)
    BY <1>1, AtRest, BlockTree
  <1>3. /\ pc' = pc /\ tooNew' = tooNew /\ dbTxIndex' = dbTxIndex /\ backup' = backup
    BY <1>1 DEF nodeVars, vars, env, disk
  <1>4. ASSUME locator' \in Block, KnowsAll(mapWallet', DOMAIN IndexOf(tip)),
               KnowsAll(mapWallet', DOMAIN IndexOf(locator'))
        PROVE  Started' /\ Remembers'
    <2>1. locator' # Null
      BY <1>4, BlockTree
    <2>2. Started'
      BY <1>1, <1>3, <2>1 DEF Started, Running, Alive
    <2>3. \A copy \in backup' : copy[2] \in Block /\ KnowsAll(copy[1], DOMAIN IndexOf(copy[2]))
      BY <1>3 DEF Remembers
    <2>4. Remembers'
      BY <1>2, <1>3, <1>4, <2>1, <2>3 DEF Remembers
    <2> QED
      BY <2>2, <2>4
  <1>5. CASE locator = Null
    <2>1. locator' = tip /\ mapWallet' = mapWallet
      BY <1>5 DEF LoadWallet
    <2>2. KnowsAll(mapWallet, DOMAIN IndexOf(tip))
      BY <1>2, <1>5 DEF Remembers
    <2> QED
      BY <1>2, <1>4, <2>1, <2>2
  <1>6. CASE locator # Null
    <2>1. locator \in Block /\ KnowsAll(mapWallet, DOMAIN IndexOf(locator))
      BY <1>6 DEF Remembers
    <2>2. /\ start \in Lineage[tip] /\ start \in Block
          /\ start # Genesis => start \in Lineage[locator]
      BY <1>2, <2>1, LastCommonFacts, GenesisInLineage, BlockTree DEF pindexRescan
    <2>3. start # Genesis => KnowsAll(mapWallet, DOMAIN IndexOf(start))
      BY <2>1, <2>2, KnowsPart
    <2> HIDE DEF start
    <2>4. CASE Height[tip] > Height[start]
      <3>1. locator' = tip /\ mapWallet' = ScanForWalletTransactions(mapWallet, start, 1, FALSE)
        BY <1>6, <2>4 DEF LoadWallet, start
      <3>2. KnowsAll(mapWallet', DOMAIN IndexOf(tip))
        <4>1. CASE start = Genesis
          <5>1. backup = {}
            BY <1>1, <2>4, <4>1 DEF ScanReaches, start
          <5>2. KnowsAll(mapWallet, DOMAIN IndexOf(tip))
            BY <1>2, <5>1 DEF Remembers
          <5>3. DOMAIN mapWallet \subseteq DOMAIN mapWallet'
            BY <1>2, <2>2, <3>1, ScanKeeps
          <5> QED
            BY <5>2, <5>3, KnowsMore
        <4>2. CASE start # Genesis
          <5>1. KnowsAll(mapWallet, DOMAIN IndexOf(start))
            BY <2>3, <4>2
          <5> QED
            BY <1>2, <2>2, <3>1, <4>2, <5>1, ScanLearns
        <4> QED
          BY <4>1, <4>2
      <3> QED
        BY <1>2, <1>4, <3>1, <3>2
    <2>5. CASE ~(Height[tip] > Height[start])
      <3>1. locator' = locator /\ mapWallet' = mapWallet
        BY <1>6, <2>5 DEF LoadWallet, start
      <3>2. start = tip
        BY <1>2, <2>2, <2>5, LineageOrder, PrevEnds
      <3>3. KnowsAll(mapWallet, DOMAIN IndexOf(tip))
        <4>1. CASE start = Genesis
          <5>1. DOMAIN IndexOf(Genesis) = {}
            BY GenesisRecords DEF EmptyIndex
          <5> QED
            BY <3>2, <4>1, <5>1 DEF KnowsAll
        <4>2. CASE start # Genesis
          BY <2>3, <3>2, <4>2
        <4> QED
          BY <4>1, <4>2
      <3> QED
        BY <1>4, <2>1, <3>1, <3>3
    <2> QED
      BY <2>4, <2>5
  <1> QED
    BY <1>5, <1>6

\* ReacceptWalletTransactions forgets nothing.
LEMMA ReacceptKeepsWallet ==
  ASSUME ChainInv, ExactInv, TipIsOnDisk, ReacceptWalletTransactions
  PROVE  DOMAIN mapWallet \subseteq DOMAIN mapWallet'
  <1> DEFINE txs == Those(HashOrder, DOMAIN mapWallet \ (DOMAIN dbTxIndex \cup Generated))
             found == SpentElsewhere(mapWallet)
             calls == PoolCalls(Those(txs, pool'.mapTx \ pool.mapTx))
             w == FoldLeft(SyncTransaction, Mark(mapWallet, found), calls)
  <1>1. txs \in Seq(Tx)
    BY WalletConstants, ThoseIs
  <1>2. calls \in Seq(CallSet)
    <2> HIDE DEF txs
    <2>1. Those(txs, pool'.mapTx \ pool.mapTx) \in Seq(Tx)
      BY <1>1, ThoseIs
    <2> QED
      BY <2>1, PoolCallsType
  <1>3. mapWallet' = IF found = {} THEN w ELSE ScanForWalletTransactions(w, Genesis, 0, FALSE)
    BY DEF ReacceptWalletTransactions
  <1>4. pc = "idle"
    BY DEF ReacceptWalletTransactions
  <1> HIDE DEF calls, found
  <1>5. DOMAIN mapWallet \subseteq DOMAIN w
    <2>1. DOMAIN Mark(mapWallet, found) = DOMAIN mapWallet
      BY MarksKeepDomain
    <2>2. DOMAIN Mark(mapWallet, found) \subseteq DOMAIN w
      BY <1>2, ToldGrows
    <2> QED
      BY <2>1, <2>2
  <1> HIDE DEF w
  <1>6. DOMAIN w \subseteq DOMAIN ScanForWalletTransactions(w, Genesis, 0, FALSE)
    BY <1>4, AtRest, GenesisInLineage, ScanKeeps
  <1> QED
    BY <1>3, <1>5, <1>6

\* Every step of the node leaves the wallet with what it has to know.
LEMMA WalletInvInductive ==
  ASSUME ChainInv, IndexInv, LoadGoesBack, ExactInv, TipIsOnDisk, ScanReaches, Started, Remembers,
         ChainInv', ExactInv', TipIsOnDisk', [WalletNext]_allVars
  PROVE  Started' /\ Remembers'
  <1>1. ASSUME UNCHANGED <<pc, dbHashBest, tooNew, locator>>, stage' = stage
        PROVE  Started'
    BY <1>1 DEF Started, Running, Alive
  <1>2. ASSUME DOMAIN mapWallet \subseteq DOMAIN mapWallet', UNCHANGED <<dbTxIndex, locator, backup>>,
               stage' = stage
        PROVE  Remembers'
    BY <1>2, GrowthKeeps DEF Running
  <1>3. CASE UNCHANGED allVars
    BY <1>1, <1>2, <1>3 DEF allVars, nodeVars, vars, disk, env, walletVars
  <1>4. ASSUME NEW t \in Tx, SyncAccept(t)
        PROVE  Started' /\ Remembers'
    <2>1. UNCHANGED <<pc, dbHashBest, tooNew, dbTxIndex, locator, backup>> /\ stage' = stage
      BY <1>4 DEF SyncAccept, AcceptToMemoryPool, vars, disk, env
    <2>2. mapWallet' = FoldLeft(SyncTransaction, mapWallet, PoolCalls(<<t>>)) /\ <<t>> \in Seq(Tx)
      BY <1>4 DEF SyncAccept, Told
    <2>3. DOMAIN mapWallet \subseteq DOMAIN mapWallet'
      BY <2>2, PoolCallsType, ToldGrows
    <2> QED
      BY <1>1, <1>2, <2>1, <2>3
  <1>5. ASSUME NEW t \in Tx, CommitTransaction(t)
        PROVE  Started' /\ Remembers'
    <2>1. UNCHANGED <<pc, dbHashBest, tooNew, dbTxIndex, locator, backup>> /\ stage' = stage
      BY <1>5 DEF CommitTransaction, vars, disk, env
    <2>2. mapWallet' = Mark(AddToWallet(mapWallet, t, Null), Vin[t])
      BY <1>5 DEF CommitTransaction
    <2>3. DOMAIN mapWallet \subseteq DOMAIN mapWallet'
      <3>1. DOMAIN AddToWallet(mapWallet, t, Null) = DOMAIN mapWallet \cup {t}
        BY AddDomain
      <3>2. DOMAIN Mark(AddToWallet(mapWallet, t, Null), Vin[t]) = DOMAIN AddToWallet(mapWallet, t, Null)
        BY MarksKeepDomain
      <3> QED
        BY <2>2, <3>1, <3>2
    <2> QED
      BY <1>1, <1>2, <2>1, <2>3
  <1>6. CASE SyncConnectTip \/ SyncReorganizeTip
    BY <1>6, TipKeepsWallet
  <1>7. ASSUME NEW b \in Block, Running, ProcessBlock(b) \/ AcceptOrphan(b), UNCHANGED <<pool, walletVars>>
        PROVE  Started' /\ Remembers'
    <2>1. /\ dbTxIndex' = dbTxIndex /\ tooNew' = tooNew /\ pc' \in {"idle", "orphans", "AddToBlockIndex"}
      BY <1>7 DEF ProcessBlock, HoldOrphan, AcceptBlock, AcceptOrphan, WriteToDisk, disk, env
    <2>2. /\ mapWallet' = mapWallet /\ locator' = locator /\ backup' = backup /\ stage' = stage
      BY <1>7 DEF walletVars
    <2>3. Started'
      BY <1>7, <2>1, <2>2 DEF Started, Running, Alive
    <2> QED
      BY <1>2, <2>1, <2>2, <2>3
  <1>8. CASE (SetGenesis \/ AddToBlockIndex \/ NextInQueue \/ Load) /\ UNCHANGED <<pool, walletVars>>
    <2>1. /\ mapWallet' = mapWallet /\ locator' = locator /\ backup' = backup /\ stage' = stage
      BY <1>8 DEF walletVars
    <2>2. dbTxIndex' = dbTxIndex /\ tooNew' = tooNew
      BY <1>8 DEF SetGenesis, AddToBlockIndex, NextInQueue, Load, LoadEmpty, LoadFails, LoadBlockIndex,
                  WriteToDisk, disk, env
    <2>3. \A ok : Return(ok) =>
             pc' \in {"idle", "orphans"} /\ (caller = "load" => pc' = "idle")
      BY DEF Return, ChainInv, ProgramTypes
    <2>4. CASE SetGenesis
      <3>1. pc = "SetBestChain" /\ hashBestChain = Null
        BY <2>4 DEF SetGenesis
      <3>2. caller = "load"
        BY <3>1 DEF ChainInv, GenesisFirst, Alive
      <3>3. pc' = "idle"
        BY <2>3, <2>4, <3>2 DEF SetGenesis
      <3> QED
        BY <1>2, <2>1, <2>2, <3>3 DEF Started, Running, Alive
    <2>5. CASE AddToBlockIndex
      <3>1. pc = "AddToBlockIndex" /\ dbHashBest' = dbHashBest
        BY <2>5 DEF AddToBlockIndex
      <3>2. pc' = "SetBestChain" \/ Return(TRUE)
        BY <2>5 DEF AddToBlockIndex
      <3>3. pc' \in {"SetBestChain", "idle", "orphans"}
        BY <2>3, <3>2
      <3>4. ASSUME ~Running PROVE dbHashBest = Null /\ pc' \in {"SetBestChain", "idle"}
        <4>1. dbHashBest = Null /\ caller = "load"
          BY <3>1, <3>4 DEF Started, ChainInv, GenesisFirst, Alive
        <4> QED
          BY <2>3, <3>2, <4>1
      <3>5. Started'
        BY <2>1, <2>2, <3>1, <3>3, <3>4 DEF Started, Running, Alive
      <3> QED
        BY <1>2, <2>1, <2>2, <3>5
    <2>6. CASE NextInQueue
      <3>1. pc = "orphans" /\ pc' \in {"idle", "orphans"}
        BY <2>6 DEF NextInQueue
      <3>2. Running
        BY <3>1 DEF Started
      <3>3. Started'
        BY <2>1, <2>2, <3>1, <3>2 DEF Started, Running, Alive
      <3> QED
        BY <1>2, <2>1, <2>2, <3>3
    <2>7. CASE Load
      <3>1. pc = "down" /\ ~Running
        BY <2>7 DEF Load, LoadEmpty, LoadFails, LoadBlockIndex, Started, Alive
      <3>2. \/ pc' = "AddToBlockIndex" /\ dbHashBest' = dbHashBest /\ DOMAIN dbBlockIndex = {}
            \/ pc' \in {"unbootable", "idle"}
        BY <2>7 DEF Load, LoadEmpty, LoadFails, LoadBlockIndex, WriteToDisk, Started
      <3>3. DOMAIN dbBlockIndex = {} => dbHashBest = Null
        BY DEF ChainInv, GenesisFirst
      <3>4. Started'
        BY <2>1, <2>2, <3>1, <3>2, <3>3 DEF Started, Running, Alive
      <3> QED
        BY <1>2, <2>1, <2>2, <3>4
    <2> QED
      BY <1>8, <2>4, <2>5, <2>6, <2>7
  <1>9. CASE FixSpentCoins
    <2>1. UNCHANGED <<pc, dbHashBest, tooNew, dbTxIndex, locator, backup>> /\ stage' = stage
      BY <1>9 DEF FixSpentCoins, nodeVars, vars, disk, env
    <2>2. DOMAIN mapWallet' = DOMAIN mapWallet
      BY <1>9, MarksKeepDomain DEF FixSpentCoins
    <2> QED
      BY <1>1, <1>2, <2>1, <2>2
  <1>10. CASE BackupWallet
    <2>1. /\ pc' = pc /\ dbHashBest' = dbHashBest /\ tooNew' = tooNew /\ dbTxIndex' = dbTxIndex
          /\ locator' = locator /\ mapWallet' = mapWallet /\ stage' = stage /\ stage = "ready"
          /\ backup' = {<<mapWallet, locator>>}
      BY <1>10 DEF BackupWallet, nodeVars, vars, disk, env
    <2>2. locator # Null /\ Running
      BY <2>1 DEF Started, Running
    <2>3. Remembers'
      BY <2>1, <2>2 DEF Remembers, Running
    <2> QED
      BY <1>1, <2>1, <2>3
  <1>11. CASE RestoreWallet
    <2>1. /\ pc' = pc /\ dbHashBest' = dbHashBest /\ tooNew' = tooNew /\ dbTxIndex' = dbTxIndex
          /\ backup' = backup /\ stage' = stage /\ pc = "down"
      BY <1>11 DEF RestoreWallet, nodeVars, vars, disk, env
    <2>2. PICK copy \in backup : mapWallet' = copy[1] /\ locator' = copy[2]
      BY <1>11 DEF RestoreWallet
    <2>3. ~Running /\ backup # {} /\ copy[2] \in Block /\ copy[2] # Null
      BY <2>1, <2>2, BlockTree DEF Started, Alive, Remembers
    <2>4. KnowsAll(mapWallet', DOMAIN IndexOf(locator'))
      BY <2>2 DEF Remembers
    <2>5. Remembers'
      BY <2>1, <2>2, <2>3, <2>4 DEF Remembers, Running
    <2>6. Started'
      BY <2>1, <2>2, <2>3 DEF Started, Running, Alive
    <2> QED
      BY <2>5, <2>6
  <1>12. CASE LoadWallet
    BY <1>12, LoadKeepsWallet
  <1>13. CASE ReacceptWalletTransactions
    <2>1. /\ pc' = pc /\ dbHashBest' = dbHashBest /\ tooNew' = tooNew /\ dbTxIndex' = dbTxIndex
          /\ locator' = locator /\ backup' = backup /\ stage = "registered" /\ stage' = "ready"
      BY <1>13 DEF ReacceptWalletTransactions, vars, disk, env
    <2>2. DOMAIN mapWallet \subseteq DOMAIN mapWallet'
      BY <1>13, ReacceptKeepsWallet
    <2>3. Remembers'
      BY <2>1, <2>2, GrowthKeeps DEF Running
    <2>4. Started'
      BY <2>1 DEF Started, Running, Alive
    <2> QED
      BY <2>3, <2>4
  <1>14. CASE Shutdown
    <2>1. /\ pc = "idle" /\ pc' = "down" /\ tooNew' = tooNew /\ dbTxIndex' = dbTxIndex
          /\ locator' = hashBestChain /\ mapWallet' = mapWallet /\ backup' = backup
          /\ stage = "ready" /\ stage' = "off"
      BY <1>14 DEF Shutdown, Crash, disk
    <2>2. hashBestChain \in Block /\ hashBestChain # Null /\ dbTxIndex = IndexOf(hashBestChain)
      BY <2>1, AtRest, BlockTree
    <2>3. KnowsAll(mapWallet, DOMAIN dbTxIndex)
      BY <2>1 DEF Remembers, Running
    <2>4. Remembers'
      BY <2>1, <2>2, <2>3 DEF Remembers
    <2>5. Started'
      BY <2>1 DEF Started, Running, Alive
    <2> QED
      BY <2>4, <2>5
  <1>15. CASE CrashInSync
    <2>1. /\ pc' = "down" /\ tooNew' = tooNew /\ dbTxIndex' = dbTxIndex
          /\ locator' = locator /\ backup' = backup /\ stage' = "off"
      BY <1>15 DEF CrashInSync, Crash, disk
    <2> DEFINE calls == IF Running THEN SyncCalls ELSE <<>>
    <2>2. PICK k \in 0..Len(calls) : mapWallet' = FoldLeft(SyncTransaction, mapWallet, SubSeq(calls, 1, k))
      BY <1>15 DEF CrashInSync, Told
    <2>3. calls \in Seq(CallSet)
      BY SyncCallsAre
    <2> HIDE DEF calls
    <2>4. SubSeq(calls, 1, k) \in Seq(CallSet)
      BY <2>3
    <2>5. DOMAIN mapWallet \subseteq DOMAIN mapWallet'
      BY <2>2, <2>4, ToldGrows
    <2>6. Remembers'
      BY <2>1, <2>5, GrowthKeeps DEF Running
    <2>7. Started'
      BY <2>1 DEF Started, Running, Alive
    <2> QED
      BY <2>6, <2>7
  <1> QED
    BY <1>3, <1>4, <1>5, <1>6, <1>7, <1>8, <1>9, <1>10, <1>11, <1>12, <1>13, <1>14, <1>15 DEF WalletNext

\* Before the first start there is nothing to know.
LEMMA WalletInvInit == WalletInit => Started /\ Remembers
  BY DEF WalletInit, Init, Started, Remembers, Running, Alive, KnowsAll, EmptyIndex

\* Every transaction of the best chain that is the wallet's is in the wallet,
\* through crashes inside a batch, reorganisations, restarts and restored copies
\* of wallet.dat, as long as the tip in memory at rest is the one on disk and a
\* scan after a restored copy does not begin at the genesis block.
THEOREM WalletKnowsItsOwn == WalletSpec /\ []TipIsOnDisk /\ []ScanReaches => []WalletKnowsOwn
  <1>1. WalletInit => ExactInv /\ Started /\ Remembers
    BY ExactInvInit, WalletInvInit DEF WalletInit
  <1>2. ChainInv /\ IndexInv /\ LoadGoesBack /\ NodeInv /\ TipIsOnDisk /\ ScanReaches
        /\ ExactInv /\ Started /\ Remembers /\ (ChainInv /\ IndexInv /\ LoadGoesBack /\ NodeInv)'
        /\ TipIsOnDisk' /\ [WalletNext]_allVars => (ExactInv /\ Started /\ Remembers)'
    <2> SUFFICES ASSUME ChainInv, IndexInv, LoadGoesBack, TipIsOnDisk, ScanReaches, ExactInv, Started,
                        Remembers, ChainInv', TipIsOnDisk', [WalletNext]_allVars
                 PROVE  ExactInv' /\ Started' /\ Remembers'
      OBVIOUS
    <2>1. ExactInv'
      BY WalletStepsAreChainSteps, ExactInvInductive
    <2> QED
      BY <2>1, WalletInvInductive
  <1>3. Started /\ Remembers => WalletKnowsOwn
    BY DEF Started, Remembers, Running, WalletKnowsOwn, Settled, KnowsAll, Own
  <1> QED
    BY <1>1, <1>2, <1>3, NodeInvHolds, PTL DEF WalletSpec

-----------------------------------------------------------------------------
(* The wallet's entries: what each call does to blocks and marks.            *)

\* CWalletTx: the block, and the outputs marked as spent.
IsWallet(w) ==
    \A t \in DOMAIN w : w[t] \in [hashBlock : Block \cup {Null}, vfSpent : SUBSET Nat]

\* Marks: the outputs of outs, and nothing else.
LEMMA MarkIs ==
  ASSUME NEW w, IsWallet(w), NEW outs \in SUBSET (Tx \X Nat), NEW v, v = Mark(w, outs)
  PROVE  /\ IsWallet(v) /\ DOMAIN v = DOMAIN w
         /\ \A t \in DOMAIN w : /\ v[t].hashBlock = w[t].hashBlock
                                /\ \A n : n \in v[t].vfSpent <=> n \in w[t].vfSpent \/ <<t, n>> \in outs
  <1> DEFINE R(t) == {o[2] : o \in {q \in outs : q[1] = t}}
  <1>1. DOMAIN v = DOMAIN w /\ \A t \in DOMAIN w : v[t] = [w[t] EXCEPT !.vfSpent = @ \cup R(t)]
    BY DEF Mark
  <1>2. ASSUME NEW t, NEW n PROVE n \in R(t) <=> <<t, n>> \in outs
    BY <1>2
  <1>3. \A t : R(t) \in SUBSET Nat
    OBVIOUS
  <1> HIDE DEF R
  <1>4. ASSUME NEW t \in DOMAIN w
        PROVE  /\ v[t] \in [hashBlock : Block \cup {Null}, vfSpent : SUBSET Nat]
               /\ v[t].hashBlock = w[t].hashBlock /\ v[t].vfSpent = w[t].vfSpent \cup R(t)
    <2>1. w[t] \in [hashBlock : Block \cup {Null}, vfSpent : SUBSET Nat]
      BY DEF IsWallet
    <2> QED
      BY <1>1, <1>3, <2>1
  <1> QED
    BY <1>1, <1>2, <1>4 DEF IsWallet

\* MarkUnspent, of each of the outputs.
LEMMA UnmarkIs ==
  ASSUME NEW w, IsWallet(w), NEW outs \in SUBSET (Tx \X Nat), NEW v, v = Unmark(w, outs)
  PROVE  /\ IsWallet(v) /\ DOMAIN v = DOMAIN w
         /\ \A t \in DOMAIN w : /\ v[t].hashBlock = w[t].hashBlock
                                /\ \A n : n \in v[t].vfSpent <=> n \in w[t].vfSpent /\ <<t, n>> \notin outs
  <1> DEFINE R(t) == {o[2] : o \in {q \in outs : q[1] = t}}
  <1>1. DOMAIN v = DOMAIN w /\ \A t \in DOMAIN w : v[t] = [w[t] EXCEPT !.vfSpent = @ \ R(t)]
    BY DEF Unmark
  <1>2. ASSUME NEW t, NEW n PROVE n \in R(t) <=> <<t, n>> \in outs
    BY <1>2
  <1> HIDE DEF R
  <1>4. ASSUME NEW t \in DOMAIN w
        PROVE  /\ v[t] \in [hashBlock : Block \cup {Null}, vfSpent : SUBSET Nat]
               /\ v[t].hashBlock = w[t].hashBlock /\ v[t].vfSpent = w[t].vfSpent \ R(t)
    <2>1. w[t] \in [hashBlock : Block \cup {Null}, vfSpent : SUBSET Nat]
      BY DEF IsWallet
    <2> QED
      BY <1>1, <2>1
  <1> QED
    BY <1>1, <1>2, <1>4 DEF IsWallet

\* The wallet's coins are outputs.
LEMMA CoinsAre ==
  /\ Mine \in SUBSET (Tx \X Nat)
  /\ \A t : Vin[t] \cap Mine \in SUBSET (Tx \X Nat) /\ {o \in Mine : o[1] = t} \in SUBSET (Tx \X Nat)
  /\ \A o \in Mine : o = <<o[1], o[2]>> /\ o[1] \in Tx /\ o[2] \in Nat
  BY WalletConstants

\* The marks a transaction of anybody's sets.
LEMMA MarkMine ==
  ASSUME NEW w, IsWallet(w), NEW t \in Tx, NEW v, v = Mark(w, Vin[t] \cap Mine)
  PROVE  /\ IsWallet(v) /\ DOMAIN v = DOMAIN w
         /\ \A u \in DOMAIN w : /\ v[u].hashBlock = w[u].hashBlock
                                /\ \A n : n \in v[u].vfSpent <=>
                                      n \in w[u].vfSpent \/ <<u, n>> \in Vin[t] \cap Mine
  <1>1. Vin[t] \cap Mine \in SUBSET (Tx \X Nat)
    BY CoinsAre
  <1> QED
    BY <1>1, MarkIs

\* v is w after AddToWallet of t, in block b or in none.
Takes(w, t, b, v) ==
    /\ IsWallet(v) /\ DOMAIN v = DOMAIN w \cup {t}
    /\ \A u \in DOMAIN w : u # t \/ b = Null => v[u].hashBlock = w[u].hashBlock
    /\ b # Null \/ t \notin DOMAIN w => v[t].hashBlock = b
    /\ \A u \in DOMAIN v : \A n :
          n \in v[u].vfSpent <=>
             /\ (u \in DOMAIN w /\ n \in w[u].vfSpent) \/ <<u, n>> \in Vin[t] \cap Mine
             /\ b # Null => <<u, n>> \notin {o \in Mine : o[1] = t}

\* AddToWallet is what Takes says.
LEMMA AddTakes ==
  ASSUME NEW w, IsWallet(w), NEW t \in Tx, NEW b \in Block \cup {Null},
         NEW v, v = AddToWallet(w, t, b)
  PROVE  Takes(w, t, b, v)
  <1> DEFINE x == [u \in DOMAIN w \cup {t} |->
                      IF u \notin DOMAIN w THEN [hashBlock |-> b, vfSpent |-> {}]
                      ELSE IF u = t /\ b # Null THEN [w[u] EXCEPT !.hashBlock = b] ELSE w[u]]
             y == Mark(x, Vin[t] \cap Mine)
             z == Unmark(y, {o \in Mine : o[1] = t})
  <1>1. v = IF b # Null THEN z ELSE y
    BY DEF AddToWallet, WalletUpdateSpent
  <1>2. DOMAIN x = DOMAIN w \cup {t}
    OBVIOUS
  <1>3. ASSUME NEW u \in DOMAIN x
        PROVE  /\ x[u] \in [hashBlock : Block \cup {Null}, vfSpent : SUBSET Nat]
               /\ u \notin DOMAIN w => x[u].hashBlock = b /\ x[u].vfSpent = {}
               /\ u \in DOMAIN w => x[u].vfSpent = w[u].vfSpent
               /\ u \in DOMAIN w /\ u = t /\ b # Null => x[u].hashBlock = b
               /\ u \in DOMAIN w /\ (u # t \/ b = Null) => x[u].hashBlock = w[u].hashBlock
    <2>1. CASE u \notin DOMAIN w
      <3>1. x[u] = [hashBlock |-> b, vfSpent |-> {}]
        BY <1>3, <2>1
      <3> HIDE DEF x
      <3> QED
        BY <2>1, <3>1
    <2>2. CASE u \in DOMAIN w
      <3>1. w[u] \in [hashBlock : Block \cup {Null}, vfSpent : SUBSET Nat]
        BY <2>2 DEF IsWallet
      <3>2. x[u] = IF u = t /\ b # Null THEN [w[u] EXCEPT !.hashBlock = b] ELSE w[u]
        BY <1>3, <2>2
      <3> HIDE DEF x
      <3> QED
        BY <2>2, <3>1, <3>2
    <2> QED
      BY <2>1, <2>2
  <1> HIDE DEF x
  <1>4. IsWallet(x)
    BY <1>3 DEF IsWallet
  <1>5. /\ IsWallet(y) /\ DOMAIN y = DOMAIN x
        /\ \A u \in DOMAIN x : /\ y[u].hashBlock = x[u].hashBlock
                               /\ \A n : n \in y[u].vfSpent <=> n \in x[u].vfSpent \/ <<u, n>> \in Vin[t] \cap Mine
    BY <1>4, CoinsAre, MarkIs
  <1> HIDE DEF y
  <1>6. /\ IsWallet(z) /\ DOMAIN z = DOMAIN y
        /\ \A u \in DOMAIN y : /\ z[u].hashBlock = y[u].hashBlock
                               /\ \A n : n \in z[u].vfSpent <=>
                                     n \in y[u].vfSpent /\ <<u, n>> \notin {o \in Mine : o[1] = t}
    BY <1>5, CoinsAre, UnmarkIs
  <1> HIDE DEF z
  <1>7. CASE b # Null
    <2>1. v = z
      BY <1>1, <1>7
    <2>2. IsWallet(v) /\ DOMAIN v = DOMAIN w \cup {t}
      BY <1>2, <1>5, <1>6, <2>1
    <2>3. /\ \A u \in DOMAIN w : u # t \/ b = Null => v[u].hashBlock = w[u].hashBlock
          /\ v[t].hashBlock = b
      BY <1>2, <1>3, <1>5, <1>6, <1>7, <2>1
    <2>4. ASSUME NEW u \in DOMAIN v, NEW n
          PROVE  n \in v[u].vfSpent <=>
                   /\ (u \in DOMAIN w /\ n \in w[u].vfSpent) \/ <<u, n>> \in Vin[t] \cap Mine
                   /\ b # Null => <<u, n>> \notin {o \in Mine : o[1] = t}
      <3>1. u \in DOMAIN x /\ u \in DOMAIN y
        BY <1>2, <1>5, <2>2
      <3>2. n \in x[u].vfSpent <=> u \in DOMAIN w /\ n \in w[u].vfSpent
        BY <1>2, <1>3, <3>1
      <3>3. n \in y[u].vfSpent <=> n \in x[u].vfSpent \/ <<u, n>> \in Vin[t] \cap Mine
        BY <1>5, <3>1
      <3>4. n \in z[u].vfSpent <=> n \in y[u].vfSpent /\ <<u, n>> \notin {o \in Mine : o[1] = t}
        BY <1>6, <3>1
      <3> QED
        BY <1>7, <2>1, <3>2, <3>3, <3>4, Zenon
    <2> QED
      BY <2>2, <2>3, <2>4, Zenon DEF Takes
  <1>8. CASE b = Null
    <2>1. v = y
      BY <1>1, <1>8
    <2>2. IsWallet(v) /\ DOMAIN v = DOMAIN w \cup {t}
      BY <1>2, <1>5, <2>1
    <2>3. /\ \A u \in DOMAIN w : u # t \/ b = Null => v[u].hashBlock = w[u].hashBlock
          /\ b # Null \/ t \notin DOMAIN w => v[t].hashBlock = b
      BY <1>2, <1>3, <1>5, <1>8, <2>1
    <2>4. ASSUME NEW u \in DOMAIN v, NEW n
          PROVE  n \in v[u].vfSpent <=>
                   /\ (u \in DOMAIN w /\ n \in w[u].vfSpent) \/ <<u, n>> \in Vin[t] \cap Mine
                   /\ b # Null => <<u, n>> \notin {o \in Mine : o[1] = t}
      <3>1. u \in DOMAIN x
        BY <1>2, <2>2
      <3>2. n \in x[u].vfSpent <=> u \in DOMAIN w /\ n \in w[u].vfSpent
        BY <1>2, <1>3, <3>1
      <3>3. n \in y[u].vfSpent <=> n \in x[u].vfSpent \/ <<u, n>> \in Vin[t] \cap Mine
        BY <1>5, <3>1
      <3> QED
        BY <1>8, <2>1, <3>2, <3>3, Zenon
    <2> QED
      BY <2>2, <2>3, <2>4, Zenon DEF Takes
  <1> QED
    BY <1>7, <1>8, Zenon

\* The coin o is marked as spent; call refunds it, resets it, spends it.
IsMarked(w, o)    == o[1] \in DOMAIN w /\ o[2] \in w[o[1]].vfSpent
Refunds(call, o)  == ~call.fConnect /\ call.tx \in CoinStake /\ o \in Vin[call.tx]
Resets(call, o)   == call.fConnect /\ call.block # Null /\ o[1] = call.tx
SpendsCoin(call, o) == call.fConnect /\ o \in Vin[call.tx]

\* v is w after the call: where it puts the transaction, which coins it marks.
Follows(w, call, v) ==
    /\ IsWallet(v) /\ DOMAIN w \subseteq DOMAIN v
    /\ call.fConnect /\ PaysMe(call.tx) => call.tx \in DOMAIN v
    /\ \A u \in DOMAIN v : u \notin DOMAIN w => call.fConnect /\ u = call.tx /\ v[u].hashBlock = call.block
    /\ \A u \in DOMAIN w :
          v[u].hashBlock = IF call.fConnect /\ call.block # Null /\ u = call.tx THEN call.block
                           ELSE w[u].hashBlock
    /\ \A o \in Mine :
          /\ IsMarked(v, o) => \/ IsMarked(w, o) /\ ~Refunds(call, o)
                               \/ SpendsCoin(call, o) /\ call.tx \in DOMAIN v
          /\ IsMarked(w, o) /\ ~Refunds(call, o) /\ ~Resets(call, o) => IsMarked(v, o)
          /\ SpendsCoin(call, o) /\ o[1] \in DOMAIN w /\ o[1] # call.tx => IsMarked(v, o)

\* A transaction taken in is a call followed.
LEMMA TakesFollows ==
  ASSUME NEW w, IsWallet(w), NEW call \in CallSet, call.fConnect, NEW v, Takes(w, call.tx, call.block, v)
  PROVE  Follows(w, call, v)
  <1> DEFINE t == call.tx
             b == call.block
  <1>1. /\ IsWallet(v) /\ DOMAIN v = DOMAIN w \cup {t}
        /\ \A u \in DOMAIN w : u # t \/ b = Null => v[u].hashBlock = w[u].hashBlock
        /\ b # Null \/ t \notin DOMAIN w => v[t].hashBlock = b
    BY DEF Takes
  <1>2. \A u \in DOMAIN v : \A n :
          n \in v[u].vfSpent <=>
             /\ (u \in DOMAIN w /\ n \in w[u].vfSpent) \/ <<u, n>> \in Vin[t] \cap Mine
             /\ b # Null => <<u, n>> \notin {o \in Mine : o[1] = t}
    BY DEF Takes
  <1> HIDE DEF t, b
  <1>3. ASSUME NEW o \in Mine
        PROVE  IsMarked(v, o) <=> /\ o[1] \in DOMAIN v
                                  /\ IsMarked(w, o) \/ o \in Vin[t]
                                  /\ b # Null => o[1] # t
    <2>1. o = <<o[1], o[2]>>
      BY CoinsAre
    <2>2. CASE o[1] \in DOMAIN v
      <3>1. o[2] \in v[o[1]].vfSpent <=>
             /\ (o[1] \in DOMAIN w /\ o[2] \in w[o[1]].vfSpent) \/ o \in Vin[t] \cap Mine
             /\ b # Null => o \notin {q \in Mine : q[1] = t}
        BY <1>2, <2>1, <2>2
      <3> QED
        BY <3>1, <2>2 DEF IsMarked
    <2>3. CASE o[1] \notin DOMAIN v
      BY <2>3 DEF IsMarked
    <2> QED
      BY <2>2, <2>3
  <1>4. /\ \A u \in DOMAIN v : u \notin DOMAIN w => call.fConnect /\ u = call.tx /\ v[u].hashBlock = call.block
        /\ \A u \in DOMAIN w :
              v[u].hashBlock = IF call.fConnect /\ call.block # Null /\ u = call.tx THEN call.block
                               ELSE w[u].hashBlock
    BY <1>1 DEF t, b
  <1>5. ASSUME NEW o \in Mine
        PROVE  /\ IsMarked(v, o) => \/ IsMarked(w, o) /\ ~Refunds(call, o)
                                    \/ SpendsCoin(call, o) /\ call.tx \in DOMAIN v
               /\ IsMarked(w, o) /\ ~Refunds(call, o) /\ ~Resets(call, o) => IsMarked(v, o)
               /\ SpendsCoin(call, o) /\ o[1] \in DOMAIN w /\ o[1] # call.tx => IsMarked(v, o)
    <2>1. IsMarked(w, o) => o[1] \in DOMAIN v
      BY <1>1 DEF IsMarked
    <2> QED
      BY <1>1, <1>3, <2>1 DEF Refunds, Resets, SpendsCoin, t, b
  <1>6. call.fConnect /\ PaysMe(call.tx) => call.tx \in DOMAIN v
    BY <1>1 DEF t
  <1> QED
    BY <1>1, <1>4, <1>5, <1>6, Zenon DEF Follows

\* Every call of SyncTransaction is followed, whichever of its branches it takes.
LEMMA SyncFollows ==
  ASSUME NEW w, IsWallet(w), NEW call \in CallSet, NEW v, v = SyncTransaction(w, call)
  PROVE  Follows(w, call, v)
  <1>0. call.tx \in Tx /\ call.block \in Block \cup {Null} /\ call.fConnect \in BOOLEAN
    BY DEF CallSet
  <1>1. CASE call.fConnect /\ (call.tx \in DOMAIN w \/ PaysMe(call.tx) \/ IsFromMe(w, call.tx))
    <2>1. v = AddToWallet(w, call.tx, call.block)
      BY <1>1 DEF SyncTransaction, AddToWalletIfInvolvingMe
    <2> QED
      BY <1>0, <1>1, <2>1, AddTakes, TakesFollows
  <1>2. CASE call.fConnect /\ ~(call.tx \in DOMAIN w \/ PaysMe(call.tx) \/ IsFromMe(w, call.tx))
    <2>1. v = Mark(w, Vin[call.tx] \cap Mine)
      BY <1>2 DEF SyncTransaction, AddToWalletIfInvolvingMe, WalletUpdateSpent
    <2>2. /\ IsWallet(v) /\ DOMAIN v = DOMAIN w
          /\ \A t \in DOMAIN w : /\ v[t].hashBlock = w[t].hashBlock
                                 /\ \A n : n \in v[t].vfSpent <=>
                                       n \in w[t].vfSpent \/ <<t, n>> \in Vin[call.tx] \cap Mine
      BY <2>1, CoinsAre, MarkIs
    <2>3. ASSUME NEW o \in Mine
          PROVE  /\ IsMarked(v, o) <=> IsMarked(w, o)
                 /\ o \in Vin[call.tx] => o[1] \notin DOMAIN w
      <3>1. o = <<o[1], o[2]>>
        BY CoinsAre
      <3>2. o \in Vin[call.tx] => o[1] \notin DOMAIN w
        BY <1>2 DEF IsFromMe
      <3> QED
        BY <2>2, <3>1, <3>2 DEF IsMarked
    <2> QED
      BY <1>2, <2>2, <2>3 DEF Follows, Refunds, Resets, SpendsCoin
  <1>3. CASE ~call.fConnect /\ call.tx \in CoinStake /\ IsFromMe(w, call.tx)
    <2>1. v = Unmark(w, Vin[call.tx] \cap Mine)
      BY <1>3 DEF SyncTransaction, DisableTransaction
    <2>2. /\ IsWallet(v) /\ DOMAIN v = DOMAIN w
          /\ \A t \in DOMAIN w : /\ v[t].hashBlock = w[t].hashBlock
                                 /\ \A n : n \in v[t].vfSpent <=>
                                       n \in w[t].vfSpent /\ <<t, n>> \notin Vin[call.tx] \cap Mine
      BY <2>1, CoinsAre, UnmarkIs
    <2>3. ASSUME NEW o \in Mine
          PROVE  IsMarked(v, o) <=> IsMarked(w, o) /\ o \notin Vin[call.tx]
      <3>1. o = <<o[1], o[2]>>
        BY CoinsAre
      <3> QED
        BY <2>2, <3>1 DEF IsMarked
    <2> QED
      BY <1>3, <2>2, <2>3 DEF Follows, Refunds, Resets, SpendsCoin
  <1>4. CASE ~call.fConnect /\ ~(call.tx \in CoinStake /\ IsFromMe(w, call.tx))
    <2>1. v = w
      BY <1>4 DEF SyncTransaction
    <2>2. ASSUME NEW o \in Mine, IsMarked(w, o)
          PROVE  ~Refunds(call, o)
      BY <1>4, <2>2 DEF Refunds, IsMarked, IsFromMe
    <2> QED
      BY <1>4, <2>1, <2>2 DEF Follows, Refunds, Resets, SpendsCoin
  <1> QED
    BY <1>0, <1>1, <1>2, <1>3, <1>4

\* f is the wallet before and after each of the calls.
Hearing(f, calls) ==
    IsWallet(f[0]) /\ \A i \in 1..Len(calls) : Follows(f[i - 1], calls[i], f[i])

\* A sequence of calls is heard one at a time.
LEMMA SyncHears ==
  ASSUME NEW w, IsWallet(w), NEW calls \in Seq(CallSet)
  PROVE  \E f : /\ f[0] = w /\ f[Len(calls)] = FoldLeft(SyncTransaction, w, calls)
                /\ Hearing(f, calls) /\ IsWallet(f[Len(calls)])
  <1> DEFINE n == Len(calls)
  <1>0. n \in Nat /\ \A i \in 1..n : calls[i] \in CallSet
    OBVIOUS
  <1>1. PICK f : Passes(f, "sync", w, calls, n) /\ f[n] = FoldLeft(SyncTransaction, w, calls)
    BY SyncRun
  <1> HIDE DEF n
  <1>2. f[0] = w /\ \A i \in 1..n : f[i] = SyncTransaction(f[i - 1], calls[i])
    BY <1>1 DEF Passes, Does
  <1> DEFINE S == {i \in 0..n : IsWallet(f[i])}
  <1>3. 0 \in S
    BY <1>0, <1>2
  <1>4. ASSUME NEW i \in 1..n, IsWallet(f[i - 1])
        PROVE  Follows(f[i - 1], calls[i], f[i]) /\ IsWallet(f[i])
    <2>1. Follows(f[i - 1], calls[i], f[i])
      BY <1>0, <1>2, <1>4, SyncFollows
    <2> QED
      BY <2>1 DEF Follows
  <1>5. \A i \in 1..n : i - 1 \in S => i \in S
    BY <1>0, <1>4
  <1>6. \A i \in 0..n : i \in S
    <2> HIDE DEF S
    <2> QED
      BY <1>0, <1>3, <1>5, StepInduction
  <1>7. \A i \in 1..n : IsWallet(f[i - 1])
    BY <1>0, <1>6
  <1>8. Hearing(f, calls) /\ IsWallet(f[n])
    BY <1>0, <1>2, <1>4, <1>6, <1>7 DEF Hearing, n
  <1> QED
    BY <1>1, <1>2, <1>8 DEF n

\* Where the wallet has a transaction: where the last call about it in a block
\* said, or where it was before, unless a call was about it outside a block.
PutAt(call, u) == call.fConnect /\ call.block # Null /\ call.tx = u
Loose(call, u) == call.fConnect /\ call.block = Null /\ call.tx = u

BlockFrom(old, new, calls, k) ==
    \A u \in DOMAIN new :
        \/ \E i \in 1..k : Loose(calls[i], u)
        \/ \E i \in 1..k : PutAt(calls[i], u) /\ new[u].hashBlock = calls[i].block
        \/ /\ \A i \in 1..k : ~PutAt(calls[i], u)
           /\ u \in DOMAIN old /\ new[u].hashBlock = old[u].hashBlock

\* Why a coin is marked: it was, and no call has refunded it, or some call of
\* a transaction the wallet has spends it.
MarkFrom(old, new, calls, k) ==
    \A o \in Mine : IsMarked(new, o) =>
        \/ IsMarked(old, o) /\ \A i \in 1..k : ~Refunds(calls[i], o)
        \/ \E i \in 1..k : SpendsCoin(calls[i], o) /\ calls[i].tx \in DOMAIN new

\* One more call: blocks and marks still come from the calls or from before.
LEMMA FollowsFrom ==
  ASSUME NEW old, NEW w, NEW v, NEW calls, NEW k \in Nat, k > 0, Follows(w, calls[k], v),
         DOMAIN old \subseteq DOMAIN w, BlockFrom(old, w, calls, k - 1), MarkFrom(old, w, calls, k - 1)
  PROVE  DOMAIN old \subseteq DOMAIN v /\ BlockFrom(old, v, calls, k) /\ MarkFrom(old, v, calls, k)
  <1> DEFINE call == calls[k]
  <1>0. k \in 1..k /\ \A i \in 1..k : i = k \/ i \in 1..(k - 1)
    OBVIOUS
  <1>1. /\ DOMAIN w \subseteq DOMAIN v
        /\ \A u \in DOMAIN v : u \notin DOMAIN w => call.fConnect /\ u = call.tx /\ v[u].hashBlock = call.block
        /\ \A u \in DOMAIN w :
              v[u].hashBlock = IF call.fConnect /\ call.block # Null /\ u = call.tx THEN call.block
                               ELSE w[u].hashBlock
        /\ \A o \in Mine :
              IsMarked(v, o) => \/ IsMarked(w, o) /\ ~Refunds(call, o)
                                \/ SpendsCoin(call, o) /\ call.tx \in DOMAIN v
    BY DEF Follows
  <1>2. ASSUME NEW u \in DOMAIN v
        PROVE  \/ \E i \in 1..k : Loose(calls[i], u)
               \/ \E i \in 1..k : PutAt(calls[i], u) /\ v[u].hashBlock = calls[i].block
               \/ /\ \A i \in 1..k : ~PutAt(calls[i], u)
                  /\ u \in DOMAIN old /\ v[u].hashBlock = old[u].hashBlock
    <2>1. CASE PutAt(call, u)
      BY <1>0, <1>1, <2>1 DEF PutAt
    <2>2. CASE ~PutAt(call, u) /\ u \in DOMAIN w
      <3>1. v[u].hashBlock = w[u].hashBlock
        BY <1>1, <2>2 DEF PutAt
      <3>2. CASE \/ \E i \in 1..(k - 1) : Loose(calls[i], u)
                 \/ \E i \in 1..(k - 1) : PutAt(calls[i], u) /\ w[u].hashBlock = calls[i].block
        BY <3>1, <3>2
      <3>3. CASE /\ \A i \in 1..(k - 1) : ~PutAt(calls[i], u)
                 /\ u \in DOMAIN old /\ w[u].hashBlock = old[u].hashBlock
        <4>1. \A i \in 1..k : ~PutAt(calls[i], u)
          BY <1>0, <2>2, <3>3
        <4> QED
          BY <3>1, <3>3, <4>1
      <3> QED
        BY <2>2, <3>2, <3>3 DEF BlockFrom
    <2>3. CASE ~PutAt(call, u) /\ u \notin DOMAIN w
      BY <1>0, <1>1, <2>3 DEF PutAt, Loose
    <2> QED
      BY <2>1, <2>2, <2>3
  <1>3. ASSUME NEW o \in Mine, IsMarked(v, o)
        PROVE  \/ IsMarked(old, o) /\ \A i \in 1..k : ~Refunds(calls[i], o)
               \/ \E i \in 1..k : SpendsCoin(calls[i], o) /\ calls[i].tx \in DOMAIN v
    <2>1. CASE SpendsCoin(call, o) /\ call.tx \in DOMAIN v
      BY <1>0, <2>1
    <2>2. CASE IsMarked(w, o) /\ ~Refunds(call, o)
      <3>1. CASE IsMarked(old, o) /\ \A i \in 1..(k - 1) : ~Refunds(calls[i], o)
        BY <1>0, <2>2, <3>1
      <3>2. CASE \E i \in 1..(k - 1) : SpendsCoin(calls[i], o) /\ calls[i].tx \in DOMAIN w
        BY <1>1, <3>2
      <3> QED
        BY <2>2, <3>1, <3>2 DEF MarkFrom
    <2> QED
      BY <1>1, <1>3, <2>1, <2>2
  <1> QED
    BY <1>1, <1>2, <1>3, Zenon DEF BlockFrom, MarkFrom

\* After all of the calls, blocks and marks come from one of them or from before.
LEMMA HearingFrom ==
  ASSUME NEW calls \in Seq(CallSet), NEW f, Hearing(f, calls)
  PROVE  /\ \A k \in 0..Len(calls) : DOMAIN f[0] \subseteq DOMAIN f[k]
         /\ BlockFrom(f[0], f[Len(calls)], calls, Len(calls))
         /\ MarkFrom(f[0], f[Len(calls)], calls, Len(calls))
  <1> DEFINE n == Len(calls)
             P(k) == /\ DOMAIN f[0] \subseteq DOMAIN f[k]
                     /\ BlockFrom(f[0], f[k], calls, k) /\ MarkFrom(f[0], f[k], calls, k)
             S == {k \in 0..n : P(k)}
  <1>0. n \in Nat
    OBVIOUS
  <1>1. P(0)
    BY DEF BlockFrom, MarkFrom
  <1>2. ASSUME NEW i \in 1..n, P(i - 1)
        PROVE  P(i)
    <2>1. Follows(f[i - 1], calls[i], f[i])
      BY DEF Hearing
    <2>2. i \in Nat /\ i > 0
      BY <1>0
    <2> QED
      BY <1>2, <2>1, <2>2, FollowsFrom
  <1> HIDE DEF P, n
  <1>3. \A i \in 0..n : i \in S
    <2>1. 0 \in S /\ \A i \in 1..n : i - 1 \in S => i \in S
      BY <1>0, <1>1, <1>2
    <2> HIDE DEF S
    <2> QED
      BY <1>0, <2>1, StepInduction
  <1>4. \A k \in 0..n : P(k)
    BY <1>3
  <1> QED
    BY <1>0, <1>4 DEF P, n

\* A mark stays until a call refunds or resets the coin.
LEMMA MarkStays ==
  ASSUME NEW calls \in Seq(CallSet), NEW f, Hearing(f, calls), NEW o \in Mine,
         NEW j \in 0..Len(calls), IsMarked(f[j], o),
         \A i \in 1..Len(calls) : i > j => ~Refunds(calls[i], o) /\ ~Resets(calls[i], o)
  PROVE  IsMarked(f[Len(calls)], o)
  <1> DEFINE n == Len(calls)
             S == {k \in 0..n : k >= j => IsMarked(f[k], o)}
  <1>0. n \in Nat
    OBVIOUS
  <1>1. 0 \in S
    BY <1>0
  <1>2. ASSUME NEW i \in 1..n, i - 1 \in S
        PROVE  i \in S
    <2>1. i \in 0..n /\ (i >= j => i = j \/ (i > j /\ i - 1 >= j))
      BY <1>0
    <2>2. ASSUME i > j, IsMarked(f[i - 1], o) PROVE IsMarked(f[i], o)
      <3>1. Follows(f[i - 1], calls[i], f[i])
        BY DEF Hearing
      <3> QED
        BY <2>2, <3>1 DEF Follows
    <2> QED
      BY <1>2, <2>1, <2>2
  <1>3. \A i \in 0..n : i \in S
    <2> HIDE DEF S, n
    <2> QED
      BY <1>0, <1>1, <1>2, StepInduction
  <1> QED
    BY <1>0, <1>3

\* Each place of a flattened sequence is a place of one of its parts.
Covers(off, ss) ==
    \A k \in 1..Len(FlattenSeq(ss)) : \E i \in 1..Len(ss) : \E j \in 1..Len(ss[i]) : k = off[i - 1] + j

\* FlattenSeq adds no place of its own.
LEMMA OffsetsCover ==
  ASSUME NEW E, NEW ss \in Seq(Seq(E)), NEW off, Offsets(off, ss)
  PROVE  Covers(off, ss)
  <1> SUFFICES ASSUME NEW k \in 1..Len(FlattenSeq(ss))
               PROVE  \E i \in 1..Len(ss) : \E j \in 1..Len(ss[i]) : k = off[i - 1] + j
    BY DEF Covers
  <1> DEFINE n == Len(ss)
             S == {i \in 0..n : k <= off[i]}
  <1>1. n \in Nat /\ \A m \in 1..n : Len(ss[m]) \in Nat
    OBVIOUS
  <1>2. /\ off \in [0..n -> Nat] /\ \A m \in 1..n : off[m] = off[m - 1] + Len(ss[m])
        /\ off[0] = 0 /\ k \in 1..off[n]
    BY DEF Offsets
  <1>3. S \in SUBSET Nat /\ n \in S
    BY <1>1, <1>2
  <1>4. PICK i \in S : \A m \in S : i <= m
    <2> HIDE DEF S
    <2> QED
      BY <1>3, LeastNat
  <1> HIDE DEF n
  <1>5. i \in 0..n /\ k <= off[i] /\ i # 0
    BY <1>1, <1>2, <1>4
  <1>6. i \in 1..n /\ i - 1 \in 0..n /\ i - 1 \notin S
    BY <1>1, <1>4, <1>5
  <1>7. off[i - 1] \in Nat /\ off[i] \in Nat /\ off[i] = off[i - 1] + Len(ss[i]) /\ Len(ss[i]) \in Nat
    BY <1>1, <1>2, <1>6
  <1>8. ~(k <= off[i - 1])
    BY <1>6
  <1> DEFINE j == k - off[i - 1]
  <1>9. j \in 1..Len(ss[i]) /\ k = off[i - 1] + j
    BY <1>2, <1>5, <1>7, <1>8, SMTT(30)
  <1> QED
    BY <1>6, <1>9 DEF n

\* The calls SetBestChain makes for its steps.
CallsOf(steps) == FlattenSeq([i \in 1..Len(steps) |-> CallsFor(steps[i])])

CallOf(s, j) == [tx |-> Vtx[s.block][j], block |-> s.block, fConnect |-> s.fConnect]

\* Where the calls of each step begin.
Laid(off, calls, steps) ==
    /\ off \in [0..Len(steps) -> Nat]
    /\ \A i \in 1..Len(steps) : \A j \in 1..Len(Vtx[steps[i].block]) :
          /\ off[i - 1] + j \in 1..Len(calls) /\ off[i - 1] + j <= off[i]
          /\ calls[off[i - 1] + j] = CallOf(steps[i], j)
    /\ \A k \in 1..Len(calls) : \E i \in 1..Len(steps) : \E j \in 1..Len(Vtx[steps[i].block]) :
          k = off[i - 1] + j
    /\ \A i, k \in 1..Len(steps) : i < k => off[i] <= off[k - 1]

\* The calls of SyncWithWallets are laid out step by step, in the order of vtx.
LEMMA CallsLaid ==
  ASSUME NEW steps \in Seq(StepSet)
  PROVE  CallsOf(steps) \in Seq(CallSet) /\ \E off : Laid(off, CallsOf(steps), steps)
  <1> DEFINE n == Len(steps)
             ss == [i \in 1..n |-> CallsFor(steps[i])]
             calls == FlattenSeq(ss)
  <1>1. n \in Nat /\ \A i \in 1..n : steps[i] \in StepSet
    OBVIOUS
  <1>2. ss \in [1..n -> Seq(CallSet)] /\ \A i \in 1..n : ss[i] = CallsFor(steps[i])
    BY <1>1, CallsForType
  <1>3. CallsOf(steps) = calls
    BY DEF CallsOf
  <1> HIDE DEF ss, n
  <1>4. ss \in Seq(Seq(CallSet)) /\ Len(ss) = n
    BY <1>1, <1>2
  <1>5. ASSUME NEW i \in 1..n
        PROVE  /\ Len(ss[i]) = Len(Vtx[steps[i].block])
               /\ \A j \in 1..Len(ss[i]) : ss[i][j] = CallOf(steps[i], j)
    BY <1>1, <1>2, CallsForType DEF CallOf
  <1>6. PICK off : Offsets(off, ss) /\ calls \in Seq(CallSet)
    BY <1>4, FlattenIs
  <1>7. /\ off \in [0..n -> Nat] /\ Len(calls) = off[n]
        /\ \A i \in 1..n : off[i] = off[i - 1] + Len(ss[i])
        /\ \A i \in 1..n : \A j \in 1..Len(ss[i]) :
              off[i - 1] + j \in 1..Len(calls) /\ calls[off[i - 1] + j] = ss[i][j]
    BY <1>4, <1>6 DEF Offsets
  <1>8. ASSUME NEW i \in 1..n, NEW j \in 1..Len(Vtx[steps[i].block])
        PROVE  /\ off[i - 1] + j \in 1..Len(calls) /\ off[i - 1] + j <= off[i]
               /\ calls[off[i - 1] + j] = CallOf(steps[i], j)
    <2>1. off[i - 1] + j <= off[i]
      <3>1. i - 1 \in 0..n /\ Len(ss[i]) \in Nat /\ off[i - 1] \in Nat
        BY <1>1, <1>4, <1>7
      <3> QED
        BY <1>5, <1>7, <3>1
    <2> QED
      BY <1>5, <1>7, <2>1
  <1>9. ASSUME NEW k \in 1..Len(calls)
        PROVE  \E i \in 1..n : \E j \in 1..Len(Vtx[steps[i].block]) : k = off[i - 1] + j
    <2>1. Covers(off, ss)
      BY <1>4, <1>6, OffsetsCover
    <2>2. PICK i \in 1..Len(ss) : \E j \in 1..Len(ss[i]) : k = off[i - 1] + j
      BY <2>1 DEF Covers
    <2> QED
      BY <1>4, <1>5, <2>2
  <1>10. \A i, k \in 1..n : i < k => off[i] <= off[k - 1]
    BY <1>4, <1>6, OffsetsGrow
  <1> HIDE DEF calls
  <1>11. Laid(off, calls, steps)
    BY <1>7, <1>8, <1>9, <1>10 DEF Laid, n
  <1> QED
    BY <1>3, <1>6, <1>11

-----------------------------------------------------------------------------
(* From one tip to another: what the wallet makes of the calls.              *)

\* The steps lead from old to new: down the branch that is left, then up the
\* one that is new, each of their blocks once.
Trip(steps, old, new) ==
    /\ steps \in Seq(StepSet) /\ Climbs(steps, old, new)
    /\ \A i \in DOMAIN steps : IF steps[i].fConnect THEN steps[i].block \notin Ledger(old)
                               ELSE steps[i].block \in Ledger(old) \ Ledger(new)
    /\ \A c \in Ledger(old) \ Ledger(new) : \E i \in DOMAIN steps : ~steps[i].fConnect /\ steps[i].block = c
    /\ \A i, j \in DOMAIN steps : /\ ~steps[i].fConnect /\ steps[j].fConnect => i < j
                                  /\ steps[i].fConnect /\ steps[j].fConnect /\ steps[i].block = steps[j].block => i = j

\* The calls of the steps, then calls of transactions that are in no block of
\* the new branch.
Reports(calls, steps, new) ==
    \E more \in Seq(CallSet) :
        /\ calls = CallsOf(steps) \o more
        /\ \A k \in 1..Len(more) :
              more[k].fConnect /\ more[k].block = Null /\ more[k].tx \notin DOMAIN IndexOf(new) \cup Generated

\* A call is about a block of one of the branches, and every transaction of the
\* blocks of the steps has its call.
LEMMA ReportsAre ==
  ASSUME NEW old \in Block, NEW new \in Block, NEW steps, Trip(steps, old, new), NEW calls, Reports(calls, steps, new)
  PROVE  /\ calls \in Seq(CallSet)
         /\ \A k \in 1..Len(calls) :
               \/ /\ calls[k].fConnect /\ calls[k].block = Null
                  /\ calls[k].tx \notin DOMAIN IndexOf(new) \cup Generated
               \/ /\ calls[k].fConnect /\ calls[k].block \in Ledger(new) \ Ledger(old)
                  /\ calls[k].tx \in TxsOf(calls[k].block)
               \/ /\ ~calls[k].fConnect /\ calls[k].block \in Ledger(old) \ Ledger(new)
                  /\ calls[k].tx \in TxsOf(calls[k].block)
         /\ \A c \in Ledger(new) \ Ledger(old) : \A t \in TxsOf(c) :
               \E k \in 1..Len(calls) : calls[k] = [tx |-> t, block |-> c, fConnect |-> TRUE]
         /\ \A c \in Ledger(old) \ Ledger(new) : \A t \in TxsOf(c) :
               \E k \in 1..Len(calls) : calls[k] = [tx |-> t, block |-> c, fConnect |-> FALSE]
  <1> DEFINE first == CallsOf(steps)
             N == Len(first)
             n == Len(steps)
  <1>1. PICK more \in Seq(CallSet) :
          /\ calls = first \o more
          /\ \A k \in 1..Len(more) :
                more[k].fConnect /\ more[k].block = Null /\ more[k].tx \notin DOMAIN IndexOf(new) \cup Generated
    BY DEF Reports
  <1>2. steps \in Seq(StepSet)
    BY DEF Trip
  <1>3. first \in Seq(CallSet) /\ \E off : Laid(off, first, steps)
    BY <1>2, CallsLaid
  <1>4. PICK off : Laid(off, first, steps)
    BY <1>3
  <1> DEFINE M == Len(more)
  <1>5. /\ calls \in Seq(CallSet) /\ Len(calls) = N + M /\ N \in Nat /\ M \in Nat
        /\ \A k \in 1..N : calls[k] = first[k] /\ k \in 1..Len(calls)
        /\ \A k \in 1..Len(calls) : k \in 1..N \/ (k - N \in 1..M /\ calls[k] = more[k - N])
    <2> HIDE DEF first
    <2> QED
      BY <1>1, <1>3
  <1>6. n \in Nat /\ DOMAIN steps = 1..n /\ \A i \in 1..n : steps[i] \in StepSet
    BY <1>2
  <1>7. ASSUME NEW i \in 1..n
        PROVE  /\ steps[i].block \in Block /\ steps[i].fConnect \in BOOLEAN
               /\ steps[i].fConnect => steps[i].block \in Ledger(new) \ Ledger(old)
               /\ ~steps[i].fConnect => steps[i].block \in Ledger(old) \ Ledger(new)
    <2>1. steps[i].block \in Block /\ steps[i].fConnect \in BOOLEAN
      BY <1>6 DEF StepSet
    <2> QED
      BY <1>6, <2>1 DEF Trip, Climbs
  <1> HIDE DEF first, N, n, M
  <1>8. ASSUME NEW k \in 1..Len(calls)
        PROVE  \/ /\ calls[k].fConnect /\ calls[k].block = Null
                  /\ calls[k].tx \notin DOMAIN IndexOf(new) \cup Generated
               \/ /\ calls[k].fConnect /\ calls[k].block \in Ledger(new) \ Ledger(old)
                  /\ calls[k].tx \in TxsOf(calls[k].block)
               \/ /\ ~calls[k].fConnect /\ calls[k].block \in Ledger(old) \ Ledger(new)
                  /\ calls[k].tx \in TxsOf(calls[k].block)
    <2>1. CASE k \in 1..N
      <3>0. PICK i \in 1..n : \E j \in 1..Len(Vtx[steps[i].block]) : k = off[i - 1] + j
        BY <1>4, <2>1 DEF Laid, N, n
      <3>1. PICK j \in 1..Len(Vtx[steps[i].block]) : k = off[i - 1] + j
        BY <3>0
      <3>2. calls[k] = CallOf(steps[i], j)
        BY <1>4, <1>5, <2>1, <3>1 DEF Laid, n
      <3>3. Vtx[steps[i].block][j] \in TxsOf(steps[i].block)
        <4>1. j \in DOMAIN Vtx[steps[i].block]
          BY <1>7, <3>1, BlockTxs
        <4> QED
          BY <1>7, <4>1, BlockTxs
      <3>4. calls[k].tx = Vtx[steps[i].block][j] /\ calls[k].block = steps[i].block
            /\ calls[k].fConnect = steps[i].fConnect
        BY <3>2 DEF CallOf
      <3> QED
        BY <1>7, <3>3, <3>4
    <2>2. CASE k \notin 1..N
      BY <1>1, <1>5, <2>2 DEF M
    <2> QED
      BY <2>1, <2>2
  <1>9. ASSUME NEW i \in 1..n, NEW t \in TxsOf(steps[i].block)
        PROVE  \E k \in 1..Len(calls) : calls[k] = [tx |-> t, block |-> steps[i].block, fConnect |-> steps[i].fConnect]
    <2>1. PICK j \in DOMAIN Vtx[steps[i].block] : Vtx[steps[i].block][j] = t
      BY <1>7, BlockTxs
    <2>2. j \in 1..Len(Vtx[steps[i].block])
      BY <1>7, BlockTxs
    <2>3. off[i - 1] + j \in 1..N /\ first[off[i - 1] + j] = CallOf(steps[i], j)
      BY <1>4, <2>2 DEF Laid, N, n
    <2>4. calls[off[i - 1] + j] = CallOf(steps[i], j) /\ off[i - 1] + j \in 1..Len(calls)
      BY <1>5, <2>3
    <2> QED
      BY <2>1, <2>4 DEF CallOf
  <1>10. ASSUME NEW c \in Ledger(new) \ Ledger(old), NEW t \in TxsOf(c)
         PROVE  \E k \in 1..Len(calls) : calls[k] = [tx |-> t, block |-> c, fConnect |-> TRUE]
    <2>1. PICK i \in 1..n : steps[i].fConnect /\ steps[i].block = c
      BY <1>6 DEF Trip, Climbs
    <2>2. steps[i].fConnect = TRUE
      BY <1>7, <2>1
    <2> QED
      BY <1>9, <2>1, <2>2
  <1>11. ASSUME NEW c \in Ledger(old) \ Ledger(new), NEW t \in TxsOf(c)
         PROVE  \E k \in 1..Len(calls) : calls[k] = [tx |-> t, block |-> c, fConnect |-> FALSE]
    <2>1. PICK i \in 1..n : ~steps[i].fConnect /\ steps[i].block = c
      BY <1>6 DEF Trip
    <2>2. steps[i].fConnect = FALSE
      BY <1>7, <2>1
    <2> QED
      BY <1>9, <2>1, <2>2
  <1> QED
    BY <1>5, <1>8, <1>10, <1>11

\* The wallet has the transactions of an index in their blocks; each mark is
\* that of a transaction of the wallet that is no stake outside the index.
Placed(w, index) == \A t \in DOMAIN w \cap DOMAIN index : w[t].hashBlock = index[t].pos
Backed(w, S) ==
    \A o \in Mine : IsMarked(w, o) =>
        \E t \in DOMAIN w : o \in Vin[t] /\ (t \in CoinStake => t \in S)

\* After a trip, each transaction is in the block of the new branch that has it.
LEMMA TripPlaces ==
  ASSUME NEW old \in Block, NEW new \in Block, GoodLedger(old), GoodLedger(new),
         NEW steps, Trip(steps, old, new), NEW calls, Reports(calls, steps, new),
         NEW f, Hearing(f, calls), Placed(f[0], IndexOf(old))
  PROVE  Placed(f[Len(calls)], IndexOf(new))
  <1> DEFINE n == Len(calls)
             w == f[0]
             v == f[n]
  <1>1. /\ calls \in Seq(CallSet)
        /\ \A k \in 1..n :
               \/ calls[k].block = Null /\ calls[k].tx \notin DOMAIN IndexOf(new)
               \/ /\ calls[k].fConnect /\ calls[k].block \in Ledger(new)
                  /\ calls[k].tx \in TxsOf(calls[k].block)
               \/ ~calls[k].fConnect
        /\ \A c \in Ledger(new) \ Ledger(old) : \A t \in TxsOf(c) :
               \E k \in 1..n : calls[k] = [tx |-> t, block |-> c, fConnect |-> TRUE]
    BY ReportsAre
  <1>2. BlockFrom(w, v, calls, n)
    BY <1>1, HearingFrom
  <1> HIDE DEF n, w, v
  <1>3. ASSUME NEW t \in DOMAIN v, t \in DOMAIN IndexOf(new)
        PROVE  v[t].hashBlock = IndexOf(new)[t].pos
    <2>1. PICK c \in Ledger(new) : t \in TxsOf(c)
      BY <1>3, IndexOfDomain
    <2>2. IndexOf(new)[t].pos = c /\ c \in Block /\ c # Null
      BY <2>1, IndexOfPos, LedgerFacts, BlockTree
    <2>3. \A k \in 1..n : ~Loose(calls[k], t)
      <3> SUFFICES ASSUME NEW k \in 1..n, Loose(calls[k], t) PROVE FALSE
        OBVIOUS
      <3>1. calls[k].fConnect /\ calls[k].block = Null /\ calls[k].tx = t
        BY DEF Loose
      <3>2. Null \notin Ledger(new)
        BY LedgerFacts, BlockTree
      <3> QED
        BY <1>1, <1>3, <3>1, <3>2
    <2>4. CASE \E k \in 1..n : PutAt(calls[k], t) /\ v[t].hashBlock = calls[k].block
      <3>1. PICK k \in 1..n : PutAt(calls[k], t) /\ v[t].hashBlock = calls[k].block
        BY <2>4
      <3>2. calls[k].block \in Ledger(new) /\ t \in TxsOf(calls[k].block)
        BY <1>1, <3>1 DEF PutAt
      <3>3. calls[k].block = c
        BY <2>1, <3>2, OneBlockPerTx
      <3> QED
        BY <2>2, <3>1, <3>3
    <2>5. CASE (\A k \in 1..n : ~PutAt(calls[k], t)) /\ t \in DOMAIN w /\ v[t].hashBlock = w[t].hashBlock
      <3>1. c \in Ledger(old)
        <4> SUFFICES ASSUME c \notin Ledger(old) PROVE FALSE
          OBVIOUS
        <4>1. PICK k \in 1..n : calls[k] = [tx |-> t, block |-> c, fConnect |-> TRUE]
          BY <1>1, <2>1
        <4>2. PutAt(calls[k], t)
          BY <2>2, <4>1 DEF PutAt
        <4> QED
          BY <2>5, <4>2
      <3>2. t \in DOMAIN IndexOf(old) /\ IndexOf(old)[t].pos = c
        BY <2>1, <3>1, IndexOfPos
      <3>3. w[t].hashBlock = c
        BY <2>5, <3>2 DEF Placed, w
      <3> QED
        BY <2>2, <2>5, <3>3
    <2> QED
      BY <1>2, <2>3, <2>4, <2>5 DEF BlockFrom
  <1> QED
    BY <1>3 DEF Placed, v, n

\* After a trip, each mark has a spender, and a stake that is one is on the new branch.
LEMMA TripBacks ==
  ASSUME NEW old \in Block, NEW new \in Block,
         NEW steps, Trip(steps, old, new), NEW calls, Reports(calls, steps, new),
         NEW f, Hearing(f, calls), Backed(f[0], DOMAIN IndexOf(old))
  PROVE  Backed(f[Len(calls)], DOMAIN IndexOf(new))
  <1> DEFINE n == Len(calls)
             w == f[0]
             v == f[n]
  <1>1. /\ calls \in Seq(CallSet)
        /\ \A k \in 1..n :
               \/ calls[k].tx \notin Generated
               \/ /\ calls[k].fConnect /\ calls[k].block \in Ledger(new)
                  /\ calls[k].tx \in TxsOf(calls[k].block)
               \/ ~calls[k].fConnect
        /\ \A c \in Ledger(old) \ Ledger(new) : \A t \in TxsOf(c) :
               \E k \in 1..n : calls[k] = [tx |-> t, block |-> c, fConnect |-> FALSE]
    BY ReportsAre
  <1>2. MarkFrom(w, v, calls, n) /\ DOMAIN w \subseteq DOMAIN v
    <2>1. n \in 0..n
      BY <1>1
    <2> QED
      BY <1>1, <2>1, HearingFrom
  <1> HIDE DEF n, w, v
  <1>3. ASSUME NEW o \in Mine, IsMarked(v, o)
        PROVE  \E t \in DOMAIN v : o \in Vin[t] /\ (t \in CoinStake => t \in DOMAIN IndexOf(new))
    <2>1. CASE IsMarked(w, o) /\ \A k \in 1..n : ~Refunds(calls[k], o)
      <3>1. PICK t \in DOMAIN w : o \in Vin[t] /\ (t \in CoinStake => t \in DOMAIN IndexOf(old))
        BY <2>1 DEF Backed, w
      <3>2. ASSUME t \in CoinStake PROVE t \in DOMAIN IndexOf(new)
        <4>1. PICK c \in Ledger(old) : t \in TxsOf(c)
          BY <3>1, <3>2, IndexOfDomain
        <4>2. CASE c \in Ledger(new)
          BY <4>1, <4>2, IndexOfDomain
        <4>3. CASE c \notin Ledger(new)
          <5>1. PICK k \in 1..n : calls[k] = [tx |-> t, block |-> c, fConnect |-> FALSE]
            BY <1>1, <4>1, <4>3
          <5>2. Refunds(calls[k], o)
            BY <3>1, <3>2, <5>1 DEF Refunds
          <5> QED
            BY <2>1, <5>2
        <4> QED
          BY <4>2, <4>3
      <3> QED
        BY <1>2, <3>1, <3>2
    <2>2. CASE \E k \in 1..n : SpendsCoin(calls[k], o) /\ calls[k].tx \in DOMAIN v
      <3>1. PICK k \in 1..n : SpendsCoin(calls[k], o) /\ calls[k].tx \in DOMAIN v
        BY <2>2
      <3>2. calls[k].tx \in CoinStake => calls[k].tx \in DOMAIN IndexOf(new)
        <4>1. calls[k].tx \in CoinStake => calls[k].tx \in Generated
          BY DEF CoinStake
        <4>2. calls[k].fConnect
          BY <3>1 DEF SpendsCoin
        <4> QED
          BY <1>1, <4>1, <4>2, IndexOfDomain
      <3> QED
        BY <3>1, <3>2 DEF SpendsCoin
    <2> QED
      BY <1>2, <1>3, <2>1, <2>2 DEF MarkFrom
  <1> QED
    BY <1>3 DEF Backed, v, n

\* The wallet loses no transaction while it hears.
LEMMA HearingGrows ==
  ASSUME NEW calls \in Seq(CallSet), NEW f, Hearing(f, calls), NEW j \in 0..Len(calls), NEW k \in 0..Len(calls), j <= k
  PROVE  DOMAIN f[j] \subseteq DOMAIN f[k]
  <1> DEFINE n == Len(calls)
             S == {m \in 0..n : m >= j => DOMAIN f[j] \subseteq DOMAIN f[m]}
  <1>0. n \in Nat
    OBVIOUS
  <1>1. 0 \in S
    BY <1>0
  <1>2. ASSUME NEW i \in 1..n, i - 1 \in S
        PROVE  i \in S
    <2>1. i \in 0..n /\ (i >= j => i = j \/ (i > j /\ i - 1 >= j))
      BY <1>0
    <2>2. DOMAIN f[i - 1] \subseteq DOMAIN f[i]
      BY DEF Hearing, Follows
    <2> QED
      BY <1>2, <2>1, <2>2
  <1>3. \A i \in 0..n : i \in S
    <2> HIDE DEF S, n
    <2> QED
      BY <1>0, <1>1, <1>2, StepInduction
  <1> QED
    BY <1>0, <1>3

\* The order of the calls: what is left first, then block by block from the
\* lowest, each block from its first transaction.
LEMMA CallOrder ==
  ASSUME NEW old \in Block, NEW new \in Block, NEW steps, Trip(steps, old, new), NEW calls, Reports(calls, steps, new),
         NEW k \in 1..Len(calls), NEW l \in 1..Len(calls), calls[l].fConnect, calls[l].block # Null
  PROVE  /\ ~calls[k].fConnect => k < l
         /\ calls[k].fConnect /\ calls[k].block # Null =>
               /\ Height[calls[k].block] < Height[calls[l].block] => k < l
               /\ calls[k].block = calls[l].block =>
                     \A m, j \in DOMAIN Vtx[calls[k].block] :
                        Vtx[calls[k].block][m] = calls[k].tx /\ Vtx[calls[k].block][j] = calls[l].tx /\ m < j => k < l
  <1> DEFINE first == CallsOf(steps)
             N == Len(first)
             n == Len(steps)
  <1>1. PICK more \in Seq(CallSet) :
          /\ calls = first \o more
          /\ \A i \in 1..Len(more) : more[i].fConnect /\ more[i].block = Null
    BY DEF Reports
  <1>2. steps \in Seq(StepSet)
    BY DEF Trip
  <1>3. first \in Seq(CallSet) /\ \E off : Laid(off, first, steps)
    BY <1>2, CallsLaid
  <1>4. PICK off : Laid(off, first, steps)
    BY <1>3
  <1> DEFINE M == Len(more)
  <1>5. /\ Len(calls) = N + M /\ N \in Nat /\ M \in Nat
        /\ \A i \in 1..N : calls[i] = first[i]
        /\ \A i \in 1..Len(calls) : i \in 1..N \/ (i - N \in 1..M /\ calls[i] = more[i - N])
    <2> HIDE DEF first
    <2> QED
      BY <1>1, <1>3
  <1>6. n \in Nat /\ DOMAIN steps = 1..n /\ \A i \in 1..n : steps[i].block \in Block
    <2>1. n \in Nat /\ DOMAIN steps = 1..n /\ \A i \in 1..n : steps[i] \in StepSet
      BY <1>2
    <2>2. \A s \in StepSet : s.block \in Block
      BY DEF StepSet
    <2> QED
      BY <2>1, <2>2
  <1> HIDE DEF first, N, n, M
  <1>7. ASSUME NEW x \in 1..Len(calls), ~calls[x].fConnect \/ calls[x].block # Null
        PROVE  \E i \in 1..n : \E j \in DOMAIN Vtx[steps[i].block] :
                  /\ x = off[i - 1] + j /\ x <= off[i] /\ off[i - 1] \in Nat /\ off[i] \in Nat /\ j \in Nat /\ j > 0
                  /\ calls[x].tx = Vtx[steps[i].block][j]
                  /\ calls[x].block = steps[i].block /\ calls[x].fConnect = steps[i].fConnect
    <2>1. x \in 1..N
      BY <1>1, <1>5, <1>7 DEF M
    <2>2. PICK i \in 1..n : \E j \in 1..Len(Vtx[steps[i].block]) : x = off[i - 1] + j
      BY <1>4, <2>1 DEF Laid, N, n
    <2>3. PICK j \in 1..Len(Vtx[steps[i].block]) : x = off[i - 1] + j
      BY <2>2
    <2>4. calls[x] = CallOf(steps[i], j) /\ x <= off[i]
      BY <1>4, <1>5, <2>1, <2>3 DEF Laid, n
    <2>5. j \in DOMAIN Vtx[steps[i].block]
      BY <1>6, <2>3, BlockTxs
    <2>6. off[i - 1] \in Nat /\ off[i] \in Nat
      <3>1. i - 1 \in 0..n /\ i \in 0..n
        BY <1>6
      <3> QED
        BY <1>4, <3>1 DEF Laid, n
    <2> QED
      <3>1. /\ calls[x].tx = Vtx[steps[i].block][j]
            /\ calls[x].block = steps[i].block /\ calls[x].fConnect = steps[i].fConnect
        BY <2>4 DEF CallOf
      <3>2. j \in Nat /\ j > 0
        OBVIOUS
      <3> QED
        BY <2>3, <2>4, <2>5, <2>6, <3>1, <3>2
  <1>8. \A i, j \in 1..n : i < j => off[i] <= off[j - 1]
    BY <1>4 DEF Laid, n
  <1>9. PICK y \in 1..n : \E j \in DOMAIN Vtx[steps[y].block] :
                  /\ l = off[y - 1] + j /\ l <= off[y] /\ off[y - 1] \in Nat /\ off[y] \in Nat /\ j \in Nat /\ j > 0
                  /\ calls[l].tx = Vtx[steps[y].block][j]
                  /\ calls[l].block = steps[y].block /\ calls[l].fConnect = steps[y].fConnect
    BY <1>7
  <1>10. PICK q \in DOMAIN Vtx[steps[y].block] :
                  /\ l = off[y - 1] + q /\ l <= off[y] /\ off[y - 1] \in Nat /\ off[y] \in Nat /\ q \in Nat /\ q > 0
                  /\ calls[l].tx = Vtx[steps[y].block][q]
                  /\ calls[l].block = steps[y].block /\ calls[l].fConnect = steps[y].fConnect
    BY <1>9
  <1>11. SUFFICES ASSUME ~calls[k].fConnect \/ calls[k].block # Null
                  PROVE  /\ ~calls[k].fConnect => k < l
                         /\ calls[k].fConnect /\ calls[k].block # Null =>
                               /\ Height[calls[k].block] < Height[calls[l].block] => k < l
                               /\ calls[k].block = calls[l].block =>
                                     \A m, j \in DOMAIN Vtx[calls[k].block] :
                                        Vtx[calls[k].block][m] = calls[k].tx /\ Vtx[calls[k].block][j] = calls[l].tx
                                           /\ m < j => k < l
    OBVIOUS
  <1>12. PICK x \in 1..n : \E j \in DOMAIN Vtx[steps[x].block] :
                  /\ k = off[x - 1] + j /\ k <= off[x] /\ off[x - 1] \in Nat /\ off[x] \in Nat /\ j \in Nat /\ j > 0
                  /\ calls[k].tx = Vtx[steps[x].block][j]
                  /\ calls[k].block = steps[x].block /\ calls[k].fConnect = steps[x].fConnect
    BY <1>7, <1>11
  <1>13. PICK p \in DOMAIN Vtx[steps[x].block] :
                  /\ k = off[x - 1] + p /\ k <= off[x] /\ off[x - 1] \in Nat /\ off[x] \in Nat /\ p \in Nat /\ p > 0
                  /\ calls[k].tx = Vtx[steps[x].block][p]
                  /\ calls[k].block = steps[x].block /\ calls[k].fConnect = steps[x].fConnect
    BY <1>12
  <1>14. ASSUME x < y PROVE k < l
    <2>1. off[x] <= off[y - 1]
      BY <1>8, <1>14
    <2>2. off[y - 1] \in Nat /\ off[x] \in Nat /\ q \in Nat /\ q > 0 /\ l = off[y - 1] + q /\ k <= off[x]
      BY <1>10, <1>13
    <2> QED
      BY <2>1, <2>2
  <1>15. ~calls[k].fConnect => k < l
    <2>0. \A i, j \in DOMAIN steps : ~steps[i].fConnect /\ steps[j].fConnect => i < j
      BY DEF Trip
    <2>1. \A i, j \in 1..n : ~steps[i].fConnect /\ steps[j].fConnect => i < j
      BY <1>6, <2>0
    <2>2. steps[y].fConnect /\ calls[k].fConnect = steps[x].fConnect
      BY <1>10, <1>13
    <2>3. ~calls[k].fConnect => x < y
      BY <2>1, <2>2
    <2> QED
      BY <1>14, <2>3
  <1>16. ASSUME calls[k].fConnect, Height[calls[k].block] < Height[calls[l].block]
         PROVE  k < l
    <2>1. x < y
      <3>1. x \in DOMAIN steps /\ y \in DOMAIN steps
        BY <1>6
      <3>2. /\ steps[x].fConnect /\ steps[y].fConnect
            /\ Height[steps[x].block] < Height[steps[y].block]
        BY <1>10, <1>13, <1>16
      <3>3. \A s1, s2 \in DOMAIN steps :
              steps[s1].fConnect /\ steps[s2].fConnect /\ Height[steps[s1].block] < Height[steps[s2].block] => s1 < s2
        BY DEF Trip, Climbs
      <3> QED
        BY <3>1, <3>2, <3>3
    <2> QED
      BY <1>14, <2>1
  <1>17. ASSUME calls[k].fConnect, calls[k].block = calls[l].block,
                NEW m \in DOMAIN Vtx[calls[k].block], NEW j \in DOMAIN Vtx[calls[k].block],
                Vtx[calls[k].block][m] = calls[k].tx, Vtx[calls[k].block][j] = calls[l].tx, m < j
         PROVE  k < l
    <2>1. x = y
      <3>1. x \in DOMAIN steps /\ y \in DOMAIN steps
        BY <1>6
      <3>2. steps[x].fConnect /\ steps[y].fConnect /\ steps[x].block = steps[y].block
        BY <1>10, <1>13, <1>17
      <3>3. \A s1, s2 \in DOMAIN steps :
              steps[s1].fConnect /\ steps[s2].fConnect /\ steps[s1].block = steps[s2].block => s1 = s2
        BY DEF Trip
      <3> QED
        BY <3>1, <3>2, <3>3
    <2>2. m = p /\ j = q
      BY <1>6, <1>10, <1>13, <1>17, <2>1, UniqueTxs
    <2> QED
      BY <1>10, <1>13, <1>17, <2>1, <2>2
  <1> QED
    BY <1>15, <1>16, <1>17

\* No coin of E but is marked when a block up to b spends it.
SpentMarked(w, b, E) == \A c \in Ledger(b) : \A o \in Mine \cap Spends(c) : o \notin E => IsMarked(w, o)

\* After a trip, what the new branch spends is marked.
LEMMA TripMarks ==
  ASSUME NEW old \in Block, NEW new \in Block, GoodLedger(old), GoodLedger(new),
         NEW steps, Trip(steps, old, new), NEW calls, Reports(calls, steps, new),
         NEW f, Hearing(f, calls), KnowsAll(f[0], DOMAIN IndexOf(old)), NEW E, SpentMarked(f[0], old, E)
  PROVE  SpentMarked(f[Len(calls)], new, E)
  <1> DEFINE n == Len(calls)
  <1>1. /\ calls \in Seq(CallSet)
        /\ \A k \in 1..n :
               \/ calls[k].fConnect /\ calls[k].block = Null
               \/ /\ calls[k].fConnect /\ calls[k].block \in Ledger(new) \ Ledger(old)
                  /\ calls[k].tx \in TxsOf(calls[k].block)
               \/ /\ ~calls[k].fConnect /\ calls[k].block \in Ledger(old) \ Ledger(new)
                  /\ calls[k].tx \in TxsOf(calls[k].block)
        /\ \A c \in Ledger(new) \ Ledger(old) : \A t \in TxsOf(c) :
               \E k \in 1..n : calls[k] = [tx |-> t, block |-> c, fConnect |-> TRUE]
    BY ReportsAre
  <1>2. n \in Nat
    BY <1>1
  <1>3. SUFFICES ASSUME NEW c \in Ledger(new), NEW o \in Mine, o \in Spends(c), o \notin E
                 PROVE  IsMarked(f[n], o)
    BY DEF SpentMarked
  <1>4. c \in Block /\ c # Null /\ Ledger(c) \subseteq Ledger(new)
    BY LedgerFacts, BlockTree
  <1>5. PICK d \in Ledger(c) : o[1] \in TxsOf(d)
    BY <1>3, SpentIsMarked
  <1>6. d \in Ledger(new) /\ d \in Block /\ d # Null
    BY <1>4, <1>5, LedgerFacts, BlockTree
  <1> HIDE DEF n
  \* The coin's own transaction is reported in its block only.
  <1>7. ASSUME NEW k \in 1..n, Resets(calls[k], o)
        PROVE  calls[k].fConnect /\ calls[k].block = d /\ d \notin Ledger(old) /\ calls[k].tx = o[1]
    <2>1. calls[k].block \in Ledger(new) \ Ledger(old) /\ o[1] \in TxsOf(calls[k].block) /\ calls[k].fConnect
      BY <1>1, <1>7 DEF Resets
    <2>2. calls[k].block = d
      BY <1>5, <1>6, <2>1, OneBlockPerTx
    <2> QED
      BY <1>7, <2>1, <2>2 DEF Resets
  <1>8. CASE c \in Ledger(old)
    <2>1. IsMarked(f[0], o)
      BY <1>3, <1>8 DEF SpentMarked
    <2>2. Ledger(c) \subseteq Ledger(old)
      BY <1>8, LedgerFacts
    <2>3. ASSUME NEW k \in 1..n PROVE ~Refunds(calls[k], o) /\ ~Resets(calls[k], o)
      <3>1. ~Resets(calls[k], o)
        BY <1>5, <1>7, <2>2
      <3>2. ASSUME Refunds(calls[k], o) PROVE FALSE
        <4>1. /\ calls[k].block \in Ledger(old) \ Ledger(new) /\ calls[k].tx \in TxsOf(calls[k].block)
              /\ o \in Vin[calls[k].tx]
          BY <1>1, <3>2 DEF Refunds
        <4>2. calls[k].block \in Block
          BY <4>1, LedgerFacts
        <4>3. o \in Spends(calls[k].block)
          BY <4>1 DEF Spends
        <4>4. IndexOf(old)[o[1]].vSpent[o[2]] = c /\ IndexOf(old)[o[1]].vSpent[o[2]] = calls[k].block
          BY <1>3, <1>8, <4>1, <4>3, SpentIsMarked
        <4> QED
          BY <4>1, <4>4
      <3> QED
        BY <3>1, <3>2
    <2>4. 0 \in 0..n
      BY <1>2
    <2> QED
      BY <1>1, <2>1, <2>3, <2>4, MarkStays DEF n
  <1>9. CASE c \notin Ledger(old)
    <2>1. PICK j \in DOMAIN Vtx[c] : o \in Vin[Vtx[c][j]]
      BY <1>3, <1>4, BlockTxs
    <2> DEFINE t == Vtx[c][j]
    <2>2. t \in TxsOf(c) /\ j \in Nat
      BY <1>4, <2>1, BlockTxs
    <2>3. PICK k \in 1..n : calls[k] = [tx |-> t, block |-> c, fConnect |-> TRUE]
      BY <1>1, <1>9, <2>2
    <2>4. \E e \in Ledger(c) : \E m \in DOMAIN Vtx[e] : Vtx[e][m] = o[1] /\ (e = c => m < j)
      BY <2>1, InputsOfBranch DEF GoodLedger
    <2>5. PICK e \in Ledger(c) : \E m \in DOMAIN Vtx[e] : Vtx[e][m] = o[1] /\ (e = c => m < j)
      BY <2>4
    <2>6. PICK m \in DOMAIN Vtx[e] : Vtx[e][m] = o[1] /\ (e = c => m < j)
      BY <2>5
    <2>7. e = d
      <3>1. e \in Ledger(new) /\ o[1] \in TxsOf(e)
        BY <1>4, <2>5, <2>6, LedgerFacts, BlockTxs
      <3> QED
        BY <1>5, <1>6, <3>1, OneBlockPerTx
    <2>8. d # c => Height[d] < Height[c]
      BY <1>4, <1>5, LineageOrder DEF Ledger
    <2>9. o[1] # t
      <3>1. d = c => o[1] # t
        BY <1>4, <2>1, <2>2, <2>6, <2>7, UniqueTxs, BlockTxs
      <3>2. d # c => o[1] # t
        BY <1>4, <1>5, <1>6, <2>2, OneBlockPerTx
      <3> QED
        BY <3>1, <3>2
    <2> HIDE DEF t
    \* The call that reports o[1], if there is one, comes before.
    <2>10. ASSUME NEW l \in 1..n, calls[l].fConnect, calls[l].block = d, calls[l].tx = o[1]
           PROVE  l < k
      <3>1. calls[k].fConnect /\ calls[k].block = c /\ calls[k].tx = t
        BY <2>3
      <3>2. CASE d # c
        BY <1>4, <1>6, <2>8, <2>10, <3>1, <3>2, CallOrder DEF n
      <3>3. CASE d = c
        <4>1. m \in DOMAIN Vtx[calls[l].block] /\ j \in DOMAIN Vtx[calls[l].block] /\ m < j
          BY <2>1, <2>6, <2>7, <2>10, <3>3
        <4>2. Vtx[calls[l].block][m] = calls[l].tx /\ Vtx[calls[l].block][j] = calls[k].tx
          BY <2>6, <2>7, <2>10, <3>1, <3>3 DEF t
        <4> QED
          BY <1>4, <2>10, <3>1, <3>3, <4>1, <4>2, CallOrder DEF n
      <3> QED
        BY <3>2, <3>3
    <2>11. k - 1 \in 0..n /\ 0 \in 0..n /\ k \in 0..n /\ 0 <= k - 1
      BY <1>2
    <2>12. PaysMe(o[1])
      BY DEF PaysMe
    <2>13. o[1] \in DOMAIN f[k - 1]
      <3>1. CASE d \in Ledger(old)
        <4>1. o[1] \in DOMAIN f[0]
          BY <1>5, <2>12, <3>1, IndexOfDomain DEF KnowsAll, Own
        <4> QED
          BY <1>1, <2>11, <4>1, HearingGrows DEF n
      <3>2. CASE d \notin Ledger(old)
        <4>1. PICK l \in 1..n : calls[l] = [tx |-> o[1], block |-> d, fConnect |-> TRUE]
          BY <1>1, <1>5, <1>6, <3>2
        <4>2. l < k
          BY <2>10, <4>1
        <4>3. o[1] \in DOMAIN f[l]
          BY <2>12, <4>1 DEF Hearing, Follows, n
        <4>4. l \in 0..n /\ l <= k - 1
          BY <1>2, <4>2
        <4> QED
          BY <1>1, <2>11, <4>3, <4>4, HearingGrows DEF n
      <3> QED
        BY <3>1, <3>2
    <2>14. IsMarked(f[k], o)
      <3>1. Follows(f[k - 1], calls[k], f[k])
        BY DEF Hearing, n
      <3>2. SpendsCoin(calls[k], o) /\ o[1] # calls[k].tx
        BY <2>1, <2>3, <2>9 DEF SpendsCoin, t
      <3> QED
        BY <2>13, <3>1, <3>2 DEF Follows
    <2>15. ASSUME NEW l \in 1..n, l > k
           PROVE  ~Refunds(calls[l], o) /\ ~Resets(calls[l], o)
      <3>1. ASSUME Refunds(calls[l], o) PROVE FALSE
        <4>1. ~calls[l].fConnect
          BY <3>1 DEF Refunds
        <4>2. calls[k].fConnect /\ calls[k].block # Null
          BY <1>4, <2>3
        <4>3. l < k
          BY <4>1, <4>2, CallOrder DEF n
        <4> QED
          BY <2>15, <4>3
      <3>2. ASSUME Resets(calls[l], o) PROVE FALSE
        <4>1. l < k
          BY <1>7, <2>10, <3>2
        <4> QED
          BY <2>15, <4>1
      <3> QED
        BY <3>1, <3>2
    <2> QED
      BY <1>1, <2>11, <2>14, <2>15, MarkStays DEF n
  <1> QED
    BY <1>8, <1>9

\* A block connected to its parent is a trip of one step.
LEMMA OneTrip ==
  ASSUME NEW b \in Block, Prev[b] # Null
  PROVE  Trip(<<Step(b, TRUE)>>, Prev[b], b)
  <1> DEFINE s == Step(b, TRUE)
             steps == <<s>>
  <1>1. s.block = b /\ s.fConnect = TRUE
    BY DEF Step
  <1>2. steps \in Seq(StepSet) /\ Climbs(steps, Prev[b], b)
    BY OneStep
  <1> HIDE DEF s
  <1>3. DOMAIN steps = {1} /\ steps[1] = s
    OBVIOUS
  <1> HIDE DEF steps
  <1>4. Ledger(b) = Ledger(Prev[b]) \cup {b} /\ b \notin Ledger(Prev[b])
    BY LedgerFacts
  <1>5. \A i \in DOMAIN steps : i = 1 /\ steps[i].fConnect = TRUE /\ steps[i].block = b
    BY <1>1, <1>3
  <1>6. Trip(steps, Prev[b], b)
    BY <1>2, <1>4, <1>5 DEF Trip
  <1> QED
    BY <1>6 DEF steps, s

\* The disconnects and connects of Reorganize are a trip from one tip to the other.
LEMMA MovesTrip ==
  ASSUME hashBestChain \in Block, NEW to \in Block
  PROVE  Trip(Moves(to), hashBestChain, to)
  <1> DEFINE tip == hashBestChain
             f == LastCommon(tip, to)
             up == vConnect(to)
             down == vDisconnect(to)
             m == Len(down)
             n == Len(up)
             steps == Moves(to)
  <1>1. /\ m \in Nat /\ n \in Nat
        /\ steps \in Seq(StepSet) /\ Len(steps) = m + n
        /\ \A i \in 1..m : steps[i] = Step(down[i], FALSE)
        /\ \A i \in 1..n : steps[m + i] = Step(up[i], TRUE)
    BY MovesAre
  <1>2. /\ \A i \in 1..m : steps[i].fConnect = FALSE /\ steps[i].block = down[i]
        /\ \A i \in 1..n : steps[m + i].fConnect = TRUE /\ steps[m + i].block = up[i]
    <2>1. \A b : /\ Step(b, TRUE).block = b /\ Step(b, TRUE).fConnect = TRUE
                 /\ Step(b, FALSE).fConnect = FALSE /\ Step(b, FALSE).block = b
      BY DEF Step
    <2> HIDE DEF steps, m, n, up, down
    <2>2. \A i \in 1..m : steps[i] = Step(down[i], FALSE)
      BY <1>1
    <2>3. \A i \in 1..n : steps[m + i] = Step(up[i], TRUE)
      BY <1>1
    <2>4. ASSUME NEW i \in 1..m PROVE steps[i].fConnect = FALSE /\ steps[i].block = down[i]
      <3>1. steps[i] = Step(down[i], FALSE)
        BY <2>2
      <3> QED
        BY <2>1, <3>1
    <2>5. ASSUME NEW i \in 1..n PROVE steps[m + i].fConnect = TRUE /\ steps[m + i].block = up[i]
      <3>1. steps[m + i] = Step(up[i], TRUE)
        BY <2>3
      <3> QED
        BY <2>1, <3>1
    <2> QED
      BY <2>4, <2>5
  <1>3. /\ f \in Lineage[tip] /\ f \in Lineage[to] /\ f \in Block
        /\ \A g \in Lineage[tip] \cap Lineage[to] : Height[g] <= Height[f]
    BY LastCommonFacts
  <1>4. /\ n = Height[to] - Height[f] /\ Height[f] \in Nat /\ Height[to] \in Nat
        /\ \A i \in 1..n : up[i] = At(to, Height[f] + i)
        /\ m = Height[tip] - Height[f] /\ Height[tip] \in Nat
        /\ \A i \in 1..m : down[i] = At(tip, Height[tip] - i + 1)
    BY <1>3, Paths DEF vConnect, vDisconnect
  <1>5. \A i \in 1..n : up[i] \in Lineage[to] /\ Height[up[i]] = Height[f] + i
    <2> SUFFICES ASSUME NEW i \in 1..n PROVE up[i] \in Lineage[to] /\ Height[up[i]] = Height[f] + i
      OBVIOUS
    <2>1. Height[f] + i \in 0..Height[to]
      BY <1>4
    <2> QED
      BY <1>4, <2>1, AtHeight
  <1>6. \A i \in 1..m : down[i] \in Lineage[tip] /\ Height[down[i]] = Height[tip] - i + 1
    <2> SUFFICES ASSUME NEW i \in 1..m PROVE down[i] \in Lineage[tip] /\ Height[down[i]] = Height[tip] - i + 1
      OBVIOUS
    <2>1. Height[tip] - i + 1 \in 0..Height[tip]
      BY <1>4
    <2> QED
      BY <1>4, <2>1, AtHeight
  <1>7. Climbs(steps, tip, to)
    BY MovesClimb
  <1> HIDE DEF steps, m, n, up, down, f
  <1>8. ASSUME NEW c \in Block, Height[c] > Height[f]
        PROVE  /\ c \in Lineage[to] => c \notin Ledger(tip)
               /\ c \in Lineage[tip] => c \in Ledger(tip) \ Ledger(to)
    <2>1. c # Genesis
      BY <1>4, <1>8, BlockTree, PrevEnds
    <2>2. Height[c] \in Nat /\ ~(Height[c] <= Height[f])
      BY <1>4, <1>8, PrevEnds
    <2>3. ~(c \in Lineage[to] /\ c \in Lineage[tip])
      BY <1>3, <2>2
    <2> QED
      BY <2>1, <2>3 DEF Ledger
  <1>9. ASSUME NEW i \in DOMAIN steps
        PROVE  \/ i \in 1..m \/ (i - m \in 1..n /\ i = m + (i - m))
    BY <1>1
  <1>10. ASSUME NEW i \in DOMAIN steps
         PROVE  IF steps[i].fConnect THEN steps[i].block \notin Ledger(tip)
                ELSE steps[i].block \in Ledger(tip) \ Ledger(to)
    <2>1. CASE i \in 1..m
      <3>1. down[i] \in Lineage[tip] /\ down[i] \in Block /\ Height[down[i]] > Height[f]
        BY <1>4, <1>6, <2>1, LineageClosed
      <3> QED
        BY <1>2, <1>8, <2>1, <3>1
    <2>2. CASE i - m \in 1..n /\ i = m + (i - m)
      <3>1. up[i - m] \in Lineage[to] /\ up[i - m] \in Block /\ Height[up[i - m]] > Height[f]
        BY <1>4, <1>5, <2>2, LineageClosed
      <3>2. steps[i].fConnect = TRUE /\ steps[i].block = up[i - m]
        BY <1>2, <2>2
      <3> QED
        BY <1>8, <3>1, <3>2
    <2> QED
      BY <1>9, <2>1, <2>2
  <1>11. ASSUME NEW c \in Ledger(tip) \ Ledger(to)
         PROVE  \E i \in DOMAIN steps : ~steps[i].fConnect /\ steps[i].block = c
    <2>1. c \in Lineage[tip] /\ c # Genesis /\ c \in Block /\ c \notin Lineage[to]
      BY <1>11, LineageClosed DEF Ledger
    <2>2. c \notin Lineage[f]
      BY <1>3, <2>1, LineageTransitive
    <2>3. Height[c] \in Nat /\ Height[c] > Height[f] /\ Height[c] <= Height[tip]
      BY <1>3, <1>4, <2>1, <2>2, BelowFork, LineageOrder, PrevEnds
    <2> DEFINE i == Height[tip] - Height[c] + 1
    <2>4. i \in 1..m
      BY <1>4, <2>3
    <2>5. down[i] = c
      <3>1. down[i] \in Lineage[tip] /\ Height[down[i]] = Height[c]
        BY <1>4, <1>6, <2>3, <2>4
      <3> QED
        BY <2>1, <3>1, LineageHeights
    <2>6. i \in DOMAIN steps
      BY <1>1, <2>4
    <2> HIDE DEF i
    <2> QED
      BY <1>2, <2>4, <2>5, <2>6
  <1>12. ASSUME NEW i \in DOMAIN steps, NEW j \in DOMAIN steps, steps[j].fConnect
         PROVE  /\ ~steps[i].fConnect => i < j
                /\ steps[i].fConnect /\ steps[i].block = steps[j].block => i = j
    <2>1. j - m \in 1..n /\ j = m + (j - m) /\ steps[j].block = up[j - m] /\ j \in Nat
      BY <1>1, <1>2, <1>9, <1>12
    <2>2. ASSUME ~steps[i].fConnect PROVE i < j
      <3>1. i \in 1..m
        BY <1>2, <1>9, <2>2
      <3> QED
        BY <1>1, <2>1, <3>1
    <2>3. ASSUME steps[i].fConnect, steps[i].block = steps[j].block PROVE i = j
      <3>1. i - m \in 1..n /\ i = m + (i - m) /\ steps[i].block = up[i - m] /\ i \in Nat
        BY <1>1, <1>2, <1>9, <2>3
      <3>2. Height[f] + (i - m) = Height[f] + (j - m)
        BY <1>5, <2>1, <2>3, <3>1
      <3>3. /\ Height[f] \in Int /\ i - m \in Int /\ j - m \in Int
            /\ i = m + (i - m) /\ j = m + (j - m)
        BY <1>4, <2>1, <3>1
      <3>4. \A a, x, y \in Int : a + x = a + y => x = y
        OBVIOUS
      <3>5. i - m = j - m
        BY <3>2, <3>3, <3>4, Zenon
      <3> QED
        BY <3>3, <3>5
    <2> QED
      BY <2>2, <2>3
  <1>13. Trip(steps, tip, to)
    BY <1>1, <1>7, <1>10, <1>11, <1>12 DEF Trip
  <1> QED
    BY <1>13 DEF steps

-----------------------------------------------------------------------------
(* Where no block is refused, every step of SetBestChain comes to its end.   *)

\* Nothing stands in the way of a block.
LEMMA NothingRefused ==
  ASSUME NeverRefused, IndexInv, tooNew = {}, hashBestChain \in Block, NEW b \in Block
  PROVE  ChecksPass(b) /\ Connectable(b) /\ GoodLedger(b)
  <1>1. mapLockedInputs = {}
    BY DEF NeverRefused, IndexInv, StoreTypes
  <1>2. CheckBlock(b) /\ b \notin BadConnect
    BY <1>1 DEF CheckBlock, NeverRefused
  <1>3. RewardAllowed(b) /\ SoundLedger(b)
    BY DEF RewardAllowed, NeverRefused
  <1>4. Lineage[b] \cap (BadConnect \cup BadContext) = {}
    BY DEF NeverRefused
  <1>5. Lineage[b] \cap BadContext = {}
    BY <1>4
  <1> QED
    BY <1>2, <1>3, <1>4, <1>5 DEF ChecksPass, Connectable, GoodLedger

\* Where no block is refused, neither SetBestChainInner nor Reorganize fails.
LEMMA AllConnect ==
  ASSUME NeverRefused, ChainInv, IndexInv, ExactInv, tooNew = {}
  PROVE  /\ PostponedBlocksConnect
         /\ ExtendTip => ConnectBlock(TxnBegin, pblock).ok
         /\ Reorganize => \A to \in pindexIntermediate : Reorganized(to).ok
  <1>1. pc \in {"SetBestChain", "ConnectPostponed"} /\ hashBestChain # Null => hashBestChain \in Block /\ pblock \in Block
    BY DEF ChainInv, ProgramTypes
  <1>2. pc = "SetBestChain" /\ hashBestChain # Null => StateChecksPass /\ Connectable(pblock)
    <2> SUFFICES ASSUME pc = "SetBestChain", hashBestChain # Null PROVE StateChecksPass /\ Connectable(pblock)
      OBVIOUS
    <2>1. \A b \in Lineage[pblock] : b \in Block
      BY <1>1, LineageClosed
    <2>2. \A b \in Block : CheckBlock(b) /\ RewardAllowed(b)
      BY <1>1, NothingRefused DEF ChecksPass
    <2> QED
      BY <1>1, <2>1, <2>2, NothingRefused DEF StateChecksPass
  <1>3. ASSUME ExtendTip PROVE ConnectBlock(TxnBegin, pblock).ok
    <2>1. pc = "SetBestChain" /\ pblock \in Block /\ Prev[pblock] = hashBestChain /\ hashBestChain # Null
      BY <1>3, ExtendEffect
    <2> QED
      BY <1>2, <2>1, ExtendSucceeds
  <1>4. ASSUME Reorganize, NEW to \in pindexIntermediate PROVE Reorganized(to).ok
    <2>1. pc = "SetBestChain" /\ pblock \in Block /\ hashBestChain \in Block /\ hashBestChain # Null
      BY <1>4, ReorganizeEffect, BlockTree
    <2>2. to \in Lineage[pblock]
      BY <1>4 DEF pindexIntermediate
    <2> QED
      BY <1>2, <2>1, <2>2, ReorganizeToSucceeds
  <1>5. ASSUME pc = "ConnectPostponed" PROVE ConnectBlock(TxnBegin, Head(vpindexSecondary)).ok
    <2> DEFINE b == Head(vpindexSecondary)
    <2>1. /\ pblock \in Block /\ dbHashBest \in Lineage[pblock] /\ dbHashBest # pblock
          /\ vpindexSecondary = PathUp(dbHashBest, pblock)
          /\ hashBestChain \in Block
      BY <1>5 DEF ChainInv, ProgramTypes, TrustOrder, GenesisFirst, Alive
    <2>2. b \in Block /\ Prev[b] = dbHashBest /\ dbHashBest \in Block
      BY <2>1, PathUpStep, LineageClosed
    <2> HIDE DEF b
    <2>3. Prev[b] # Null /\ dbTxIndex = IndexOf(Prev[b])
      BY <2>2, BlockTree DEF ExactInv, RecordsOf
    <2>4. ConnectBlock(TxnBegin, b) = Batch(IndexOf(b), SetLink(dbBlockIndex, b))
      BY <2>1, <2>2, <2>3, TxnBeginIs, ConnectBlockSucceeds, NothingRefused
    <2>5. Batch(IndexOf(b), SetLink(dbBlockIndex, b)).ok = TRUE
      BY BatchFields
    <2>6. ConnectBlock(TxnBegin, b).ok
      BY <2>4, <2>5, Zenon
    <2> QED
      BY <2>6 DEF b
  <1> QED
    BY <1>3, <1>4, <1>5 DEF PostponedBlocksConnect

-----------------------------------------------------------------------------
(* The wallet and the branch it has been told of.                            *)

\* Each transaction in its block, each mark with its spender.
Exact(w, b) == Placed(w, IndexOf(b)) /\ Backed(w, DOMAIN IndexOf(b))

\* A wallet that has heard of the old branch has, after the trip, heard of the new one.
LEMMA TripKeeps ==
  ASSUME NEW old \in Block, NEW new \in Block, GoodLedger(old), GoodLedger(new),
         NEW steps, Trip(steps, old, new), NEW calls, Reports(calls, steps, new),
         NEW w, IsWallet(w), KnowsAll(w, DOMAIN IndexOf(old)),
         NEW v, v = FoldLeft(SyncTransaction, w, calls)
  PROVE  /\ IsWallet(v)
         /\ Exact(w, old) => Exact(v, new)
         /\ \A E : SpentMarked(w, old, E) => SpentMarked(v, new, E)
  <1>1. calls \in Seq(CallSet)
    BY ReportsAre
  <1>2. PICK f : f[0] = w /\ f[Len(calls)] = v /\ Hearing(f, calls) /\ IsWallet(f[Len(calls)])
    BY <1>1, SyncHears
  <1>3. Exact(w, old) => Exact(v, new)
    <2>1. Placed(f[0], IndexOf(old)) => Placed(f[Len(calls)], IndexOf(new))
      BY <1>2, TripPlaces
    <2>2. Backed(f[0], DOMAIN IndexOf(old)) => Backed(f[Len(calls)], DOMAIN IndexOf(new))
      BY <1>2, TripBacks
    <2> QED
      BY <1>2, <2>1, <2>2 DEF Exact
  <1>4. ASSUME NEW E, SpentMarked(f[0], old, E) PROVE SpentMarked(f[Len(calls)], new, E)
    <2>1. KnowsAll(f[0], DOMAIN IndexOf(old))
      BY <1>2
    <2> QED
      BY <1>2, <1>4, <2>1, TripMarks
  <1> QED
    BY <1>2, <1>3, <1>4

\* Nothing is told when the tip stays.
LEMMA NoTrip ==
  ASSUME NEW b \in Block
  PROVE  Trip(<<>>, b, b) /\ \A more \in Seq(CallSet) : CallsOf(<<>>) \o more = more
  <1>1. <<>> \in Seq(StepSet) /\ DOMAIN <<>> = {} /\ Len(<<>>) = 0
    OBVIOUS
  <1>2. Trip(<<>>, b, b)
    BY <1>1 DEF Trip, Climbs
  <1>3. PICK off : CallsOf(<<>>) \in Seq(CallSet) /\ Laid(off, CallsOf(<<>>), <<>>)
    BY <1>1, CallsLaid
  <1> DEFINE c == CallsOf(<<>>)
  <1>4. c \in Seq(CallSet) /\ \A k \in 1..Len(c) : \E i \in 1..0 : TRUE
    BY <1>1, <1>3 DEF Laid
  <1> HIDE DEF c
  <1>5. Len(c) = 0
    BY <1>4
  <1>6. c = <<>>
    BY <1>4, <1>5
  <1>7. \A more \in Seq(CallSet) : c \o more = more
    BY <1>6
  <1> QED
    BY <1>2, <1>7 DEF c

\* Calls for transactions that are in no block of the branch.
LEMMA LooseKeeps ==
  ASSUME NEW b \in Block, GoodLedger(b), NEW calls \in Seq(CallSet),
         \A k \in 1..Len(calls) :
             calls[k].fConnect /\ calls[k].block = Null /\ calls[k].tx \notin DOMAIN IndexOf(b) \cup Generated,
         NEW w, IsWallet(w), KnowsAll(w, DOMAIN IndexOf(b)),
         NEW v, v = FoldLeft(SyncTransaction, w, calls)
  PROVE  /\ IsWallet(v)
         /\ Exact(w, b) => Exact(v, b)
         /\ \A E : SpentMarked(w, b, E) => SpentMarked(v, b, E)
  <1>1. Trip(<<>>, b, b) /\ calls = CallsOf(<<>>) \o calls
    BY NoTrip
  <1>2. Reports(calls, <<>>, b)
    BY <1>1 DEF Reports
  <1> QED
    BY <1>1, <1>2, TripKeeps

\* The calls for transactions that enter the pool.
LEMMA PoolCallsAre ==
  ASSUME NEW txs \in Seq(Tx), NEW S, \A i \in 1..Len(txs) : txs[i] \notin S
  PROVE  /\ PoolCalls(txs) \in Seq(CallSet)
         /\ \A k \in 1..Len(PoolCalls(txs)) : /\ PoolCalls(txs)[k].fConnect /\ PoolCalls(txs)[k].block = Null
                                              /\ PoolCalls(txs)[k].tx \notin S
  <1>1. PoolCalls(txs) \in Seq(CallSet)
    BY PoolCallsType
  <1>2. /\ DOMAIN PoolCalls(txs) = DOMAIN txs
        /\ \A i \in DOMAIN txs : PoolCalls(txs)[i] = [tx |-> txs[i], block |-> Null, fConnect |-> TRUE]
    BY DEF PoolCalls
  <1>3. DOMAIN PoolCalls(txs) = 1..Len(PoolCalls(txs)) /\ DOMAIN txs = 1..Len(txs)
    BY <1>1
  <1>4. ASSUME NEW k \in 1..Len(PoolCalls(txs))
        PROVE  /\ PoolCalls(txs)[k].fConnect /\ PoolCalls(txs)[k].block = Null
               /\ PoolCalls(txs)[k].tx \notin S
    <2>1. k \in 1..Len(txs) /\ PoolCalls(txs)[k] = [tx |-> txs[k], block |-> Null, fConnect |-> TRUE]
      BY <1>2, <1>3
    <2> QED
      BY <2>1
  <1> QED
    BY <1>1, <1>4

\* A scan takes no mark away: it passes over the transactions the wallet has.
LEMMA ScanStepKeeps ==
  ASSUME NEW w, IsWallet(w), NEW t \in Tx, NEW b \in Block,
         NEW v, v = AddToWalletIfInvolvingMe(w, t, b, FALSE)
  PROVE  IsWallet(v) /\ \A o \in Mine : IsMarked(w, o) => IsMarked(v, o)
  <1>1. CASE t \in DOMAIN w
    BY <1>1 DEF AddToWalletIfInvolvingMe
  <1>2. CASE t \notin DOMAIN w /\ (PaysMe(t) \/ IsFromMe(w, t))
    <2> DEFINE call == [tx |-> t, block |-> b, fConnect |-> TRUE]
    <2>1. v = AddToWallet(w, t, b)
      BY <1>2 DEF AddToWalletIfInvolvingMe
    <2>2. Takes(w, t, b, v)
      BY <2>1, AddTakes
    <2>3. call \in CallSet /\ call.tx = t /\ call.block = b /\ call.fConnect
      BY DEF CallSet
    <2> HIDE DEF call
    <2>4. Follows(w, call, v)
      BY <2>2, <2>3, TakesFollows
    <2>5. ASSUME NEW o \in Mine, IsMarked(w, o) PROVE IsMarked(v, o)
      <3>1. ~Refunds(call, o) /\ ~Resets(call, o)
        BY <1>2, <2>3, <2>5 DEF Refunds, Resets, IsMarked
      <3> QED
        BY <2>4, <2>5, <3>1 DEF Follows
    <2> QED
      BY <2>4, <2>5 DEF Follows
  <1>3. CASE t \notin DOMAIN w /\ ~(PaysMe(t) \/ IsFromMe(w, t))
    <2>1. v = Mark(w, Vin[t] \cap Mine)
      BY <1>3 DEF AddToWalletIfInvolvingMe, WalletUpdateSpent
    <2>2. /\ IsWallet(v) /\ DOMAIN v = DOMAIN w
          /\ \A u \in DOMAIN w : /\ v[u].hashBlock = w[u].hashBlock
                                 /\ \A n : n \in v[u].vfSpent <=>
                                       n \in w[u].vfSpent \/ <<u, n>> \in Vin[t] \cap Mine
      BY <2>1, MarkMine
    <2> QED
      BY <2>2 DEF IsMarked
  <1> QED
    BY <1>1, <1>2, <1>3

\* The same, of the step as a function.
LEMMA StepOfScanKeeps ==
  \A w, t, b : IsWallet(w) /\ t \in Tx /\ b \in Block =>
      /\ IsWallet(AddToWalletIfInvolvingMe(w, t, b, FALSE))
      /\ \A o \in Mine : IsMarked(w, o) => IsMarked(AddToWalletIfInvolvingMe(w, t, b, FALSE), o)
  <1> SUFFICES ASSUME NEW w, NEW t, NEW b, IsWallet(w), t \in Tx, b \in Block
               PROVE  /\ IsWallet(AddToWalletIfInvolvingMe(w, t, b, FALSE))
                      /\ \A o \in Mine : IsMarked(w, o) =>
                                          IsMarked(AddToWalletIfInvolvingMe(w, t, b, FALSE), o)
    OBVIOUS
  <1> QED
    BY ScanStepKeeps

\* No scan takes a mark away, whatever its start and the order of its blocks.
LEMMA ScanKeepsMarks ==
  ASSUME hashBestChain \in Block, NEW start \in Lineage[hashBestChain], NEW height,
         NEW w, IsWallet(w), NEW v, v = ScanForWalletTransactions(w, start, height, FALSE)
  PROVE  IsWallet(v) /\ \A o \in Mine : IsMarked(w, o) => IsMarked(v, o)
  <1> DEFINE seq == IF Height[start] < height THEN <<>> ELSE ScanList(start)
             n == Len(seq)
  <1>1. ScanList(start) \in Seq(Tx \X Block)
    BY ScanLists, FlattenIs
  <1>2. seq \in Seq(Tx \X Block)
    BY <1>1
  <1>3. v = ScanAll(w, seq)
    BY ScanIs
  <1> HIDE DEF seq
  <1>4. PICK f : Passes(f, "scan", w, seq, n) /\ f[n] = ScanAll(w, seq)
    BY <1>2, ScanRun
  <1>5. n \in Nat /\ \A i \in 1..n : seq[i] \in Tx \X Block
    BY <1>2
  <1> HIDE DEF n
  <1>6. f[0] = w /\ \A i \in 1..n : f[i] = AddToWalletIfInvolvingMe(f[i - 1], seq[i][1], seq[i][2], FALSE)
    BY <1>4 DEF Passes, Does, Scanned
  <1> DEFINE S == {i \in 0..n : IsWallet(f[i]) /\ \A o \in Mine : IsMarked(w, o) => IsMarked(f[i], o)}
  <1>7. 0 \in S
    BY <1>5, <1>6
  <1>8. ASSUME NEW i \in 1..n, i - 1 \in S PROVE i \in S
    <2>1. seq[i][1] \in Tx /\ seq[i][2] \in Block
      BY <1>5
    <2>2. IsWallet(f[i - 1]) /\ f[i] = AddToWalletIfInvolvingMe(f[i - 1], seq[i][1], seq[i][2], FALSE)
      BY <1>6, <1>8
    <2>3. IsWallet(f[i]) /\ \A o \in Mine : IsMarked(f[i - 1], o) => IsMarked(f[i], o)
      BY <2>1, <2>2, StepOfScanKeeps
    <2> QED
      BY <1>5, <1>8, <2>3
  <1>9. \A i \in 1..n : i - 1 \in S => i \in S
    BY <1>8
  <1>10. \A i \in 0..n : i \in S
    <2> HIDE DEF S
    <2> QED
      BY <1>5, <1>7, <1>9, StepInduction
  <1>11. n \in S
    BY <1>5, <1>10
  <1> QED
    BY <1>3, <1>4, <1>11

-----------------------------------------------------------------------------
(* What the wallet has been told is right.                                   *)

\* After a crash, only the first payment of a coinbase or stake is looked at.
Exempt == IF nCrashes = 0 THEN {} ELSE {o \in Mine : o[1] \in Generated /\ o[2] # FirstPayment(o[1])}

\* Until the first crash the wallet is exact; from each start on it marks what
\* the best chain spends.
Heard ==
    /\ nCrashes \in Nat
    /\ IsWallet(mapWallet) /\ \A copy \in backup : IsWallet(copy[1])
    /\ Running => dbHashBest # Null
    /\ nCrashes = 0 /\ ~Running => /\ dbHashBest \in {Null, Genesis} /\ mapWallet = EmptyIndex
                                   /\ locator = Null /\ backup = {}
    /\ nCrashes = 0 /\ Running => Exact(mapWallet, dbHashBest)
    /\ Running /\ (nCrashes = 0 \/ stage = "ready") => SpentMarked(mapWallet, dbHashBest, Exempt)

\* A step that leaves the tip alone, keeps the wallet's records a wallet's, and
\* takes none of the marks and places away.
LEMMA StaysHeard ==
  ASSUME Heard, IsWallet(mapWallet'), UNCHANGED <<dbHashBest, nCrashes, backup, stage>>, Running,
         Exact(mapWallet, dbHashBest) => Exact(mapWallet', dbHashBest),
         \A E : SpentMarked(mapWallet, dbHashBest, E) => SpentMarked(mapWallet', dbHashBest, E)
  PROVE  Heard'
  <1>1. /\ dbHashBest' = dbHashBest /\ nCrashes' = nCrashes /\ backup' = backup /\ stage' = stage
        /\ (Running)' = Running /\ Exempt' = Exempt
    BY DEF Running, Exempt
  <1>2. nCrashes = 0 => Exact(mapWallet', dbHashBest)
    BY DEF Heard
  <1>3. nCrashes = 0 \/ stage = "ready" => SpentMarked(mapWallet', dbHashBest, Exempt)
    BY DEF Heard
  <1> QED
    BY <1>1, <1>2, <1>3 DEF Heard

\* The wallet hears of all that a step of SetBestChain does to the chain.
LEMMA TipHears ==
  ASSUME NeverRefused, ChainInv, IndexInv, LoadGoesBack, NodeInv, ExactInv, ExactInv', Started, Remembers, Heard,
         SyncConnectTip \/ SyncReorganizeTip
  PROVE  Heard'
  <1>1. /\ hashBestChain # Null /\ pc \in {"SetBestChain", "ConnectPostponed"} /\ UNCHANGED env
    BY TipMovesLast DEF SyncConnectTip, SyncReorganizeTip
  <1>2. Running /\ tooNew = {}
    BY <1>1 DEF Started, ChainInv, GenesisFirst
  <1>3. UNCHANGED <<backup, stage>> /\ nCrashes' = nCrashes
    BY <1>1 DEF SyncConnectTip, SyncReorganizeTip, env
  <1>4. /\ IsWallet(mapWallet) /\ KnowsAll(mapWallet, DOMAIN dbTxIndex)
        /\ nCrashes = 0 => Exact(mapWallet, dbHashBest)
        /\ nCrashes = 0 \/ stage = "ready" => SpentMarked(mapWallet, dbHashBest, Exempt)
    BY <1>2 DEF Heard, Remembers
  <1>5. dbHashBest \in Block /\ dbHashBest # Null /\ dbTxIndex = IndexOf(dbHashBest)
    BY <1>2 DEF Heard, ChainInv, ProgramTypes, ExactInv, RecordsOf
  <1>6. \A b \in Block : GoodLedger(b) /\ b # Null
    <2>1. hashBestChain \in Block
      BY <1>1 DEF ChainInv, ProgramTypes
    <2> QED
      BY <1>2, <2>1, NothingRefused, BlockTree
  <1>7. ASSUME NEW b \in Block, dbHashBest' = b, NEW steps, Trip(steps, dbHashBest, b),
               NEW calls, Reports(calls, steps, b), mapWallet' = FoldLeft(SyncTransaction, mapWallet, calls)
        PROVE  Heard'
    <2>1. /\ IsWallet(mapWallet')
          /\ Exact(mapWallet, dbHashBest) => Exact(mapWallet', b)
          /\ \A E : SpentMarked(mapWallet, dbHashBest, E) => SpentMarked(mapWallet', b, E)
      <3>1. KnowsAll(mapWallet, DOMAIN IndexOf(dbHashBest))
        BY <1>4, <1>5
      <3> QED
        BY <1>4, <1>5, <1>6, <1>7, <3>1, TripKeeps
    <2>2. /\ dbHashBest' = b /\ b # Null /\ nCrashes' = nCrashes /\ backup' = backup /\ stage' = stage
          /\ (Running)' = Running /\ Exempt' = Exempt
      BY <1>3, <1>6, <1>7 DEF Running, Exempt
    <2>3. nCrashes = 0 => Exact(mapWallet', b)
      BY <1>4, <2>1
    <2>4. nCrashes = 0 \/ stage = "ready" => SpentMarked(mapWallet', b, Exempt)
      BY <1>4, <2>1
    <2> QED
      BY <1>2, <2>1, <2>2, <2>3, <2>4 DEF Heard
  <1>8. ASSUME SyncConnectTip, NEW b \in Block, Prev[b] = dbHashBest, ConnectedOne(b),
               Steps = <<Step(b, TRUE)>>, ConnectBlock(TxnBegin, b).ok
        PROVE  Heard'
    <2> DEFINE steps == <<Step(b, TRUE)>>
    <2>1. steps \in Seq(StepSet) /\ Applied(steps).ok
      BY <1>5, <1>8, OneStep
    <2>2. Trip(steps, dbHashBest, b)
      BY <1>5, <1>8, OneTrip
    <2>3. CallsOf(steps) \in Seq(CallSet) /\ SyncCalls = CallsOf(steps)
      BY <1>8, <2>1, SyncCallsAre DEF CallsOf
    <2>4. mapWallet' = FoldLeft(SyncTransaction, mapWallet, CallsOf(steps))
      BY <1>2, <1>8, <2>3 DEF SyncConnectTip, Told
    <2>5. dbHashBest' = b
      BY <1>8 DEF ConnectedOne
    <2> HIDE DEF steps
    <2>6. Reports(CallsOf(steps), steps, b)
      <3>1. <<>> \in Seq(CallSet) /\ Len(<<>>) = 0 /\ CallsOf(steps) = CallsOf(steps) \o <<>>
        BY <2>3
      <3>2. \A k \in 1..Len(<<>>) :
               <<>>[k].fConnect /\ <<>>[k].block = Null /\ <<>>[k].tx \notin DOMAIN IndexOf(b) \cup Generated
        BY <3>1
      <3> QED
        BY <3>1, <3>2 DEF Reports
    <2> QED
      BY <1>7, <2>2, <2>4, <2>5, <2>6
  <1>9. CASE SyncConnectTip /\ ExtendTip
    <2>1. /\ pc = "SetBestChain" /\ pblock \in Block /\ Prev[pblock] = hashBestChain /\ hashBestChain # Null
      BY <1>9, ExtendEffect
    <2>2. ConnectBlock(TxnBegin, pblock).ok
      BY <1>2, <1>9, AllConnect
    <2>3. ConnectedOne(pblock)
      BY <1>9, <2>2, ExtendEffect
    <2>4. hashBestChain = dbHashBest /\ Steps = <<Step(pblock, TRUE)>>
      BY <2>1, StepsAre DEF ExactInv
    <2> QED
      BY <1>8, <1>9, <2>1, <2>2, <2>3, <2>4
  <1>10. CASE SyncConnectTip /\ ConnectPostponed
    <2>1. PICK b \in Block : /\ Prev[b] = dbHashBest /\ b = Head(vpindexSecondary)
                             /\ pc = "ConnectPostponed"
                             /\ ~ConnectBlock(TxnBegin, b).ok \/ ConnectedOne(b)
      BY <1>10, PostponedEffect
    <2>2. ConnectBlock(TxnBegin, b).ok
      BY <1>2, <2>1, AllConnect DEF PostponedBlocksConnect
    <2>3. Steps = <<Step(b, TRUE)>>
      BY <2>1, StepsAre
    <2> QED
      BY <1>8, <1>10, <2>1, <2>2, <2>3
  <1>11. CASE SyncReorganizeTip
    <2>1. Reorganize
      BY <1>11 DEF SyncReorganizeTip, ReorganizeTip
    <2>2. /\ pc = "SetBestChain" /\ pblock \in Block /\ hashBestChain \in Block
          /\ hashBestChain # Null /\ Prev[pblock] # hashBestChain
      BY <2>1, ReorganizeEffect DEF Reorganize
    <2>3. PICK to \in Lineage[pblock] :
             /\ to \in pindexIntermediate
             /\ ~Reorganized(to).ok \/ ReorganizedTo(to)
      BY <2>1, ReorganizeEffect
    <2>4. Reorganized(to).ok /\ ReorganizedTo(to)
      BY <1>2, <2>1, <2>3, AllConnect
    <2>5. to \in Block /\ dbHashBest' = to /\ to # dbHashBest /\ hashBestChain = dbHashBest
      BY <2>1, <2>2, <2>3, <2>4, SuccessMovesTip, LineageClosed DEF ReorganizedTo, ExactInv
    <2>6. dbTxIndex' = IndexOf(to)
      BY <1>6, <2>5 DEF ExactInv, RecordsOf
    <2>7. Steps = Moves(to) /\ Moves(to) \in Seq(StepSet) /\ Applied(Moves(to)).ok
      BY <2>2, <2>3, <2>4, <2>5, StepsAre, MovesAre, MovesApplied
    <2>8. SyncCalls = CallsOf(Moves(to)) /\ Trip(Moves(to), dbHashBest, to)
      BY <2>2, <2>5, <2>7, SyncCallsAre, MovesTrip DEF CallsOf
    <2> DEFINE accepted == AcceptEach(pool, dbTxIndex', vResurrect(to)).mapTx \ pool.mapTx
               back == Those(vResurrect(to), accepted)
    <2>9. mapWallet' = FoldLeft(SyncTransaction, mapWallet, CallsOf(Moves(to)) \o PoolCalls(back))
      BY <1>2, <1>11, <2>5, <2>8 DEF SyncReorganizeTip, Told
    <2>10. /\ vResurrect(to) \in Seq(Tx)
           /\ \A i \in 1..Len(vResurrect(to)) : vResurrect(to)[i] \notin Generated
      BY <2>2, <2>5, ResurrectType
    <2>11. accepted \subseteq Tx \ DOMAIN IndexOf(to)
      BY <2>6, <2>10, PoolAfterLoops DEF NodeInv
    <2> HIDE DEF accepted
    <2>12. back \in Seq(Tx) /\ FilterOf(vResurrect(to), accepted, back)
      BY <2>10, ThoseIs
    <2> HIDE DEF back
    <2>13. \A i \in 1..Len(back) : back[i] \notin DOMAIN IndexOf(to) \cup Generated
      BY <2>10, <2>11, <2>12 DEF FilterOf
    <2>14. /\ PoolCalls(back) \in Seq(CallSet)
           /\ \A k \in 1..Len(PoolCalls(back)) :
                 /\ PoolCalls(back)[k].fConnect /\ PoolCalls(back)[k].block = Null
                 /\ PoolCalls(back)[k].tx \notin DOMAIN IndexOf(to) \cup Generated
      BY <2>12, <2>13, PoolCallsAre
    <2> DEFINE calls == CallsOf(Moves(to)) \o PoolCalls(back)
    <2>15. Reports(calls, Moves(to), to)
      BY <2>14 DEF Reports
    <2>16. mapWallet' = FoldLeft(SyncTransaction, mapWallet, calls)
      BY <2>9 DEF back, accepted
    <2> HIDE DEF calls
    <2> QED
      BY <1>7, <2>5, <2>8, <2>15, <2>16
  <1> QED
    BY <1>9, <1>10, <1>11 DEF SyncConnectTip, ConnectTip

\* The wallet at rest.
LEMMA HeardAtRest ==
  ASSUME NeverRefused, ChainInv, IndexInv, ExactInv, TipIsOnDisk, Started, Remembers, Heard, pc = "idle"
  PROVE  /\ hashBestChain \in Block /\ hashBestChain = dbHashBest /\ dbHashBest \in Block /\ GoodLedger(dbHashBest)
         /\ dbTxIndex = IndexOf(dbHashBest) /\ IsWallet(mapWallet)
         /\ Running => KnowsAll(mapWallet, DOMAIN IndexOf(dbHashBest))
  <1>1. hashBestChain \in Block /\ hashBestChain = dbHashBest /\ dbTxIndex = IndexOf(hashBestChain)
    BY AtRest
  <1>2. GoodLedger(dbHashBest)
    BY <1>1, NothingRefused DEF Started
  <1> QED
    BY <1>1, <1>2 DEF Heard, Remembers

\* A transaction accepted to the pool is news without a block.
LEMMA AcceptHears ==
  ASSUME NeverRefused, ChainInv, IndexInv, ExactInv, TipIsOnDisk, Started, Remembers, Heard,
         NEW t \in Tx, SyncAccept(t)
  PROVE  Heard'
  <1>1. /\ pc = "idle" /\ Running /\ UNCHANGED <<dbHashBest, nCrashes, backup, stage>>
        /\ t \notin DOMAIN dbTxIndex \cup Generated
        /\ mapWallet' = FoldLeft(SyncTransaction, mapWallet, PoolCalls(<<t>>))
    BY DEF SyncAccept, AcceptToMemoryPool, Acceptable, vars, disk, env, Told
  <1>2. /\ dbHashBest \in Block /\ GoodLedger(dbHashBest) /\ dbTxIndex = IndexOf(dbHashBest)
        /\ IsWallet(mapWallet) /\ KnowsAll(mapWallet, DOMAIN IndexOf(dbHashBest))
    BY <1>1, HeardAtRest
  <1> DEFINE S == DOMAIN IndexOf(dbHashBest) \cup Generated
             txs == <<t>>
  <1>3. txs \in Seq(Tx) /\ \A i \in 1..Len(txs) : txs[i] \notin S
    BY <1>1, <1>2
  <1> HIDE DEF txs, S
  <1>4. /\ PoolCalls(txs) \in Seq(CallSet)
        /\ \A k \in 1..Len(PoolCalls(txs)) : /\ PoolCalls(txs)[k].fConnect /\ PoolCalls(txs)[k].block = Null
                                             /\ PoolCalls(txs)[k].tx \notin S
    BY <1>3, PoolCallsAre
  <1>5. /\ IsWallet(mapWallet')
        /\ Exact(mapWallet, dbHashBest) => Exact(mapWallet', dbHashBest)
        /\ \A E : SpentMarked(mapWallet, dbHashBest, E) => SpentMarked(mapWallet', dbHashBest, E)
    BY <1>1, <1>2, <1>4, LooseKeeps DEF txs, S
  <1> QED
    BY <1>1, <1>5, StaysHeard

\* A payment of its own marks coins that nothing on the branch spends.
LEMMA CommitHears ==
  ASSUME NeverRefused, ChainInv, IndexInv, ExactInv, TipIsOnDisk, Started, Remembers, Heard,
         NEW t \in Tx, CommitTransaction(t)
  PROVE  Heard'
  <1>1. /\ pc = "idle" /\ Running /\ UNCHANGED <<dbHashBest, nCrashes, backup, stage>>
        /\ t \notin Generated /\ Vin[t] # {} /\ Vin[t] \subseteq Mine /\ t \notin DOMAIN mapWallet
        /\ mapWallet' = Mark(AddToWallet(mapWallet, t, Null), Vin[t])
    BY DEF CommitTransaction, AvailableCoins, vars, disk, env, Running
  <1>2. /\ dbHashBest \in Block /\ GoodLedger(dbHashBest) /\ dbTxIndex = IndexOf(dbHashBest)
        /\ IsWallet(mapWallet) /\ KnowsAll(mapWallet, DOMAIN IndexOf(dbHashBest))
    BY <1>1, HeardAtRest
  <1>3. t \notin DOMAIN IndexOf(dbHashBest) \cup Generated
    BY <1>1, <1>2 DEF KnowsAll, Own
  <1> DEFINE x == AddToWallet(mapWallet, t, Null)
             call == [tx |-> t, block |-> Null, fConnect |-> TRUE]
             calls == <<call>>
             f == [i \in 0..1 |-> IF i = 0 THEN mapWallet ELSE x]
  <1>4. Takes(mapWallet, t, Null, x)
    BY <1>2, AddTakes
  <1>5. call \in CallSet /\ call.tx = t /\ call.block = Null /\ call.fConnect
    BY DEF CallSet
  <1> HIDE DEF call
  <1>6. Follows(mapWallet, call, x) /\ IsWallet(x) /\ t \in DOMAIN x
    BY <1>2, <1>4, <1>5, TakesFollows DEF Takes
  <1> HIDE DEF x
  <1>7. calls \in Seq(CallSet) /\ Len(calls) = 1 /\ calls[1] = call
    BY <1>5
  <1>8. f[0] = mapWallet /\ f[1] = x
    OBVIOUS
  <1> HIDE DEF calls, f
  <1>9. Hearing(f, calls)
    BY <1>2, <1>6, <1>7, <1>8 DEF Hearing
  <1>10. Reports(calls, <<>>, dbHashBest) /\ Trip(<<>>, dbHashBest, dbHashBest)
    <2>1. calls = CallsOf(<<>>) \o calls /\ Trip(<<>>, dbHashBest, dbHashBest)
      BY <1>2, <1>7, NoTrip
    <2>2. \A k \in 1..Len(calls) : /\ calls[k].fConnect /\ calls[k].block = Null
                                   /\ calls[k].tx \notin DOMAIN IndexOf(dbHashBest) \cup Generated
      BY <1>3, <1>5, <1>7
    <2> QED
      BY <1>7, <2>1, <2>2 DEF Reports
  <1>11. Placed(mapWallet, IndexOf(dbHashBest)) => Placed(x, IndexOf(dbHashBest))
    BY <1>2, <1>7, <1>8, <1>9, <1>10, TripPlaces
  <1>12. Backed(mapWallet, DOMAIN IndexOf(dbHashBest)) => Backed(x, DOMAIN IndexOf(dbHashBest))
    BY <1>2, <1>7, <1>8, <1>9, <1>10, TripBacks
  <1>13. ASSUME NEW E, SpentMarked(mapWallet, dbHashBest, E) PROVE SpentMarked(x, dbHashBest, E)
    <2>1. SpentMarked(f[0], dbHashBest, E) /\ KnowsAll(f[0], DOMAIN IndexOf(dbHashBest))
      BY <1>2, <1>8, <1>13
    <2>2. SpentMarked(f[Len(calls)], dbHashBest, E)
      BY <1>2, <1>9, <1>10, <2>1, TripMarks
    <2> QED
      BY <1>7, <1>8, <2>2
  \* Its coins are marked whatever the wallet knew of them.
  <1>14. /\ IsWallet(mapWallet') /\ DOMAIN mapWallet' = DOMAIN x
         /\ \A u \in DOMAIN x : /\ mapWallet'[u].hashBlock = x[u].hashBlock
                                /\ \A n : n \in mapWallet'[u].vfSpent <=> n \in x[u].vfSpent \/ <<u, n>> \in Vin[t]
    <2>1. Vin[t] \in SUBSET (Tx \X Nat) /\ mapWallet' = Mark(x, Vin[t])
      BY <1>1, CoinsAre DEF x
    <2> QED
      BY <1>6, <2>1, MarkIs
  <1>15. ASSUME NEW o \in Mine
         PROVE  /\ IsMarked(x, o) => IsMarked(mapWallet', o)
                /\ IsMarked(mapWallet', o) => IsMarked(x, o) \/ o \in Vin[t]
    <2>1. o = <<o[1], o[2]>>
      BY CoinsAre
    <2> QED
      BY <1>14, <2>1 DEF IsMarked
  <1>16. Exact(mapWallet, dbHashBest) => Exact(mapWallet', dbHashBest)
    <2>1. Placed(x, IndexOf(dbHashBest)) => Placed(mapWallet', IndexOf(dbHashBest))
      BY <1>14 DEF Placed
    <2>2. ASSUME Backed(x, DOMAIN IndexOf(dbHashBest)) PROVE Backed(mapWallet', DOMAIN IndexOf(dbHashBest))
      BY <1>1, <1>6, <1>14, <1>15, <2>2 DEF Backed, CoinStake
    <2> QED
      BY <1>11, <1>12, <2>1, <2>2 DEF Exact
  <1>17. \A E : SpentMarked(mapWallet, dbHashBest, E) => SpentMarked(mapWallet', dbHashBest, E)
    BY <1>13, <1>15 DEF SpentMarked
  <1> QED
    BY <1>1, <1>14, <1>16, <1>17, StaysHeard

\* What the index has as spent, some block of the branch spends.
LEMMA SpentInIndex ==
  ASSUME NEW b \in Block, GoodLedger(b), NEW o \in Mine
  PROVE  /\ \A c \in Ledger(b) : o \in Spends(c) =>
               o[1] \in DOMAIN IndexOf(b) /\ IndexOf(b)[o[1]].vSpent[o[2]] # Null
         /\ o[1] \in DOMAIN IndexOf(b) /\ IndexOf(b)[o[1]].vSpent[o[2]] # Null =>
               \E c \in Ledger(b) : o \in Spends(c)
  <1>1. o = <<o[1], o[2]>> /\ o[2] \in 0..(Vout[o[1]] - 1)
    <2>1. o \in Tx \X Nat /\ o[2] < Vout[o[1]]
      BY WalletConstants
    <2>2. Vout[o[1]] \in Nat
      BY <2>1, Transactions
    <2> QED
      BY <2>1, <2>2
  <1>2. ASSUME NEW c \in Ledger(b), o \in Spends(c)
        PROVE  o[1] \in DOMAIN IndexOf(b) /\ IndexOf(b)[o[1]].vSpent[o[2]] # Null
    BY <1>2, SpentIsMarked
  <1>3. ASSUME o[1] \in DOMAIN IndexOf(b), \A c \in Ledger(b) : o \notin Spends(c)
        PROVE  IndexOf(b)[o[1]].vSpent[o[2]] = Null
    BY <1>1, <1>3, IndexOfUnspent
  <1> QED
    BY <1>2, <1>3

\* The transaction that spends a coin of the wallet in a block is known to it.
LEMMA SpenderKnown ==
  ASSUME NEW b \in Block, GoodLedger(b), NEW w, KnowsAll(w, DOMAIN IndexOf(b)),
         NEW o \in Mine, NEW c \in Ledger(b), o \in Spends(c)
  PROVE  /\ o[1] \in DOMAIN w
         /\ \E t \in DOMAIN w : o \in Vin[t] /\ t \in DOMAIN IndexOf(b)
  <1>1. c \in Block
    BY LedgerFacts
  <1>2. PICK i \in DOMAIN Vtx[c] : o \in Vin[Vtx[c][i]]
    BY <1>1, BlockTxs
  <1>3. Vtx[c][i] \in TxsOf(c) /\ Vtx[c][i] \in DOMAIN IndexOf(b)
    BY <1>1, <1>2, BlockTxs, IndexOfDomain
  <1>4. Vtx[c][i] \in DOMAIN w
    BY <1>2, <1>3 DEF KnowsAll, Own
  <1>5. o[1] \in DOMAIN IndexOf(b) /\ PaysMe(o[1])
    BY SpentInIndex DEF PaysMe
  <1> QED
    BY <1>2, <1>3, <1>4, <1>5 DEF KnowsAll, Own

\* FixSpentCoins marks what the index has as spent, and nothing else.
LEMMA FixHears ==
  ASSUME NeverRefused, ChainInv, IndexInv, ExactInv, TipIsOnDisk, Started, Remembers, Heard, FixSpentCoins
  PROVE  Heard'
  <1> DEFINE indexed == {o \in Mine : o[1] \in DOMAIN mapWallet \cap DOMAIN dbTxIndex}
             spent   == {o \in indexed : dbTxIndex[o[1]].vSpent[o[2]] # Null}
             x == Unmark(mapWallet, indexed \ spent)
             b == dbHashBest
  <1>1. /\ pc = "idle" /\ Running /\ UNCHANGED <<dbHashBest, nCrashes, backup, stage>>
        /\ mapWallet' = Mark(x, spent)
    BY DEF FixSpentCoins, nodeVars, vars, disk, env, Running
  <1>2. /\ b \in Block /\ GoodLedger(b) /\ dbTxIndex = IndexOf(b)
        /\ IsWallet(mapWallet) /\ KnowsAll(mapWallet, DOMAIN IndexOf(b))
    BY <1>1, HeardAtRest
  <1>3. indexed \ spent \in SUBSET (Tx \X Nat) /\ spent \in SUBSET (Tx \X Nat)
    BY CoinsAre
  <1>4. ASSUME NEW o \in Mine
        PROVE  /\ o \in indexed <=> o[1] \in DOMAIN mapWallet /\ o[1] \in DOMAIN IndexOf(b)
               /\ o \in spent <=> \E c \in Ledger(b) : o \in Spends(c)
    <2>1. o \in indexed <=> o[1] \in DOMAIN mapWallet /\ o[1] \in DOMAIN IndexOf(b)
      BY <1>2
    <2>2. o \in spent <=> o \in indexed /\ IndexOf(b)[o[1]].vSpent[o[2]] # Null
      BY <1>2
    <2> HIDE DEF indexed, spent
    <2>3. (\E c \in Ledger(b) : o \in Spends(c)) => o[1] \in DOMAIN mapWallet
      BY <1>2, SpenderKnown
    <2> QED
      BY <1>2, <2>1, <2>2, <2>3, SpentInIndex
  <1> HIDE DEF indexed, spent, b
  <1>5. /\ IsWallet(x) /\ DOMAIN x = DOMAIN mapWallet
        /\ \A u \in DOMAIN mapWallet :
              /\ x[u].hashBlock = mapWallet[u].hashBlock
              /\ \A n : n \in x[u].vfSpent <=> n \in mapWallet[u].vfSpent /\ <<u, n>> \notin indexed \ spent
    BY <1>2, <1>3, UnmarkIs
  <1> HIDE DEF x
  <1>6. /\ IsWallet(mapWallet') /\ DOMAIN mapWallet' = DOMAIN x
        /\ \A u \in DOMAIN x :
              /\ mapWallet'[u].hashBlock = x[u].hashBlock
              /\ \A n : n \in mapWallet'[u].vfSpent <=> n \in x[u].vfSpent \/ <<u, n>> \in spent
    BY <1>1, <1>3, <1>5, MarkIs
  <1>7. ASSUME NEW o \in Mine
        PROVE  IsMarked(mapWallet', o) <=>
                  o[1] \in DOMAIN mapWallet /\ ((IsMarked(mapWallet, o) /\ o \notin indexed) \/ o \in spent)
    <2>1. o = <<o[1], o[2]>>
      BY CoinsAre
    <2>2. o \in spent => o \in indexed
      BY DEF spent
    <2>3. o \in indexed \ spent /\ IsMarked(mapWallet, o) => ~IsMarked(x, o)
      BY <1>5, <2>1 DEF IsMarked
    <2> QED
      BY <1>5, <1>6, <2>1, <2>2, <2>3 DEF IsMarked
  <1>8. Placed(mapWallet, IndexOf(b)) => Placed(mapWallet', IndexOf(b))
    BY <1>5, <1>6 DEF Placed
  <1>9. ASSUME Backed(mapWallet, DOMAIN IndexOf(b)) PROVE Backed(mapWallet', DOMAIN IndexOf(b))
    <2> SUFFICES ASSUME NEW o \in Mine, IsMarked(mapWallet', o)
                 PROVE  \E t \in DOMAIN mapWallet' : o \in Vin[t] /\ (t \in CoinStake => t \in DOMAIN IndexOf(b))
      BY DEF Backed
    <2>1. DOMAIN mapWallet' = DOMAIN mapWallet
      BY <1>5, <1>6
    <2>2. CASE o \in spent
      BY <1>2, <1>4, <2>1, <2>2, SpenderKnown
    <2>3. CASE o \notin spent
      <3>1. IsMarked(mapWallet, o)
        BY <1>7, <2>3
      <3> QED
        BY <1>9, <2>1, <3>1 DEF Backed
    <2> QED
      BY <2>2, <2>3
  <1>10. ASSUME NEW E PROVE SpentMarked(mapWallet', b, E)
    <2> SUFFICES ASSUME NEW c \in Ledger(b), NEW o \in Mine \cap Spends(c) PROVE IsMarked(mapWallet', o)
      BY DEF SpentMarked
    <2>1. o \in spent /\ o[1] \in DOMAIN mapWallet
      BY <1>2, <1>4, SpenderKnown
    <2> QED
      BY <1>7, <2>1
  <1>11. /\ Exact(mapWallet, dbHashBest) => Exact(mapWallet', dbHashBest)
         /\ \A E : SpentMarked(mapWallet, dbHashBest, E) => SpentMarked(mapWallet', dbHashBest, E)
    BY <1>8, <1>9, <1>10 DEF Exact, b
  <1> QED
    BY <1>1, <1>6, <1>11, StaysHeard

\* At the first start there is nothing to scan for.
LEMMA LoadHears ==
  ASSUME NeverRefused, ChainInv, IndexInv, ExactInv, TipIsOnDisk, Started, Remembers, Heard, LoadWallet
  PROVE  Heard'
  <1>1. /\ pc = "idle" /\ ~Running /\ stage' = "registered" /\ (Running)'
        /\ UNCHANGED <<dbHashBest, nCrashes, backup>>
    BY DEF LoadWallet, nodeVars, vars, disk, env, Running
  <1>2. hashBestChain \in Block /\ hashBestChain = dbHashBest /\ dbHashBest \in Block /\ dbHashBest # Null
    BY <1>1, HeardAtRest, BlockTree
  <1>3. IsWallet(mapWallet')
    <2>1. mapWallet' = mapWallet \/
             (locator # Null /\ mapWallet' = ScanForWalletTransactions(mapWallet, pindexRescan, 1, FALSE))
      BY DEF LoadWallet
    <2>2. locator # Null => pindexRescan \in Lineage[hashBestChain]
      <3>1. locator # Null => locator \in Block
        BY DEF Remembers
      <3> QED
        BY <1>2, <3>1, LastCommonFacts, GenesisInLineage DEF pindexRescan
    <2> QED
      BY <1>2, <2>1, <2>2, ScanKeepsMarks DEF Heard
  <1>4. ASSUME nCrashes = 0
        PROVE  Exact(mapWallet', dbHashBest) /\ \A E : SpentMarked(mapWallet', dbHashBest, E)
    <2>1. mapWallet' = EmptyIndex /\ dbHashBest = Genesis
      BY <1>1, <1>2, <1>4 DEF Heard, LoadWallet
    <2>2. DOMAIN mapWallet' = {}
      BY <2>1 DEF EmptyIndex
    <2>3. Exact(mapWallet', dbHashBest)
      BY <2>2 DEF Exact, Placed, Backed, IsMarked
    <2>4. \A E : SpentMarked(mapWallet', dbHashBest, E)
      BY <1>2, <2>1, LedgerFacts DEF SpentMarked
    <2> QED
      BY <2>3, <2>4
  <1>5. /\ dbHashBest' = dbHashBest /\ nCrashes' = nCrashes /\ backup' = backup /\ stage' # "ready"
    BY <1>1
  <1> QED
    BY <1>1, <1>2, <1>3, <1>4, <1>5 DEF Heard

\* ReacceptWalletTransactions marks what is missing, and takes nothing away.
LEMMA ReacceptHears ==
  ASSUME NeverRefused, ChainInv, IndexInv, ExactInv, TipIsOnDisk, Started, Remembers, Heard,
         ReacceptWalletTransactions
  PROVE  Heard'
  <1> DEFINE b == dbHashBest
             loose == DOMAIN mapWallet \ (DOMAIN dbTxIndex \cup Generated)
             txs == Those(HashOrder, loose)
             found == SpentElsewhere(mapWallet)
             back == Those(txs, pool'.mapTx \ pool.mapTx)
             m == Mark(mapWallet, found)
             w == FoldLeft(SyncTransaction, m, PoolCalls(back))
  <1>1. /\ pc = "idle" /\ Running /\ stage' = "ready" /\ (Running)'
        /\ UNCHANGED <<dbHashBest, nCrashes, backup>>
        /\ mapWallet' = IF found = {} THEN w ELSE ScanForWalletTransactions(w, Genesis, 0, FALSE)
    BY DEF ReacceptWalletTransactions, vars, disk, env, Running
  <1>2. /\ b \in Block /\ GoodLedger(b) /\ dbTxIndex = IndexOf(b) /\ hashBestChain = b
        /\ IsWallet(mapWallet) /\ KnowsAll(mapWallet, DOMAIN IndexOf(b))
    BY <1>1, HeardAtRest
  <1>3. back \in Seq(Tx) /\ \A i \in 1..Len(back) : back[i] \notin DOMAIN IndexOf(b) \cup Generated
    <2>1. txs \in Seq(Tx) /\ FilterOf(HashOrder, loose, txs)
      BY WalletConstants, ThoseIs
    <2>2. \A j \in 1..Len(txs) : txs[j] \notin DOMAIN IndexOf(b) \cup Generated
      <3> HIDE DEF txs, b
      <3> QED
        BY <1>2, <2>1 DEF FilterOf
    <2> HIDE DEF txs
    <2>3. back \in Seq(Tx) /\ FilterOf(txs, pool'.mapTx \ pool.mapTx, back)
      BY <2>1, ThoseIs
    <2> HIDE DEF back, b
    <2> QED
      BY <2>2, <2>3 DEF FilterOf
  <1> HIDE DEF back
  <1>4. /\ PoolCalls(back) \in Seq(CallSet)
        /\ \A k \in 1..Len(PoolCalls(back)) :
              /\ PoolCalls(back)[k].fConnect /\ PoolCalls(back)[k].block = Null
              /\ PoolCalls(back)[k].tx \notin DOMAIN IndexOf(b) \cup Generated
    BY <1>3, PoolCallsAre
  <1>5. ASSUME NEW o \in Mine
        PROVE  o \in found <=> /\ \E c \in Ledger(b) : o \in Spends(c)
                               /\ ~PassedOver(mapWallet, o[1]) /\ ~IsMarked(mapWallet, o)
    <2>1. o \in found <=> /\ o[1] \in DOMAIN mapWallet /\ o[1] \in DOMAIN IndexOf(b)
                          /\ IndexOf(b)[o[1]].vSpent[o[2]] # Null
                          /\ ~PassedOver(mapWallet, o[1]) /\ o[2] \notin mapWallet[o[1]].vfSpent
      BY <1>2 DEF SpentElsewhere
    <2>2. (\E c \in Ledger(b) : o \in Spends(c)) => o[1] \in DOMAIN mapWallet
      BY <1>2, SpenderKnown
    <2> HIDE DEF found, b
    <2> QED
      BY <1>2, <2>1, <2>2, SpentInIndex DEF IsMarked
  <1>6. found \in SUBSET (Tx \X Nat) /\ found \subseteq Mine
    BY CoinsAre DEF SpentElsewhere
  <1> HIDE DEF found
  <1>7. nCrashes = 0 => found = {}
    <2>1. nCrashes = 0 => SpentMarked(mapWallet, b, {})
      BY <1>1 DEF Heard, Exempt
    <2>2. SpentMarked(mapWallet, b, {}) => \A o \in Mine : o \notin found
      BY <1>5 DEF SpentMarked
    <2> QED
      BY <1>6, <2>1, <2>2
  <1>8. /\ IsWallet(m) /\ DOMAIN m = DOMAIN mapWallet
        /\ \A u \in DOMAIN mapWallet :
              /\ m[u].hashBlock = mapWallet[u].hashBlock
              /\ \A n : n \in m[u].vfSpent <=> n \in mapWallet[u].vfSpent \/ <<u, n>> \in found
    BY <1>2, <1>6, MarkIs
  <1> HIDE DEF m
  <1>9. ASSUME NEW o \in Mine
        PROVE  IsMarked(m, o) <=> IsMarked(mapWallet, o) \/ (o \in found /\ o[1] \in DOMAIN mapWallet)
    <2>1. o = <<o[1], o[2]>>
      BY CoinsAre
    <2> QED
      BY <1>8, <2>1 DEF IsMarked
  <1>10. KnowsAll(m, DOMAIN IndexOf(b))
    BY <1>2, <1>8 DEF KnowsAll
  <1>11. nCrashes = 0 => Exact(m, b)
    <2> SUFFICES ASSUME nCrashes = 0 PROVE Exact(m, b)
      OBVIOUS
    <2>1. Exact(mapWallet, b) /\ found = {}
      BY <1>1, <1>7 DEF Heard
    <2>2. Placed(m, IndexOf(b))
      BY <1>8, <2>1 DEF Exact, Placed
    <2>3. Backed(m, DOMAIN IndexOf(b))
      BY <1>8, <1>9, <2>1 DEF Exact, Backed
    <2> QED
      BY <2>2, <2>3 DEF Exact
  <1>12. SpentMarked(m, b, Exempt)
    <2> SUFFICES ASSUME NEW c \in Ledger(b), NEW o \in Mine \cap Spends(c), o \notin Exempt
                 PROVE  IsMarked(m, o)
      BY DEF SpentMarked
    <2>1. o[1] \in DOMAIN mapWallet
      BY <1>2, SpenderKnown
    <2>2. CASE nCrashes = 0
      <3>1. SpentMarked(mapWallet, b, {})
        BY <1>1, <2>2 DEF Heard, Exempt
      <3>2. IsMarked(mapWallet, o)
        BY <3>1 DEF SpentMarked
      <3> QED
        BY <1>9, <3>2
    <2>3. CASE nCrashes # 0
      <3>1. o[1] \in Generated => o[2] = FirstPayment(o[1])
        BY <2>3 DEF Exempt
      <3>2. PassedOver(mapWallet, o[1]) => IsMarked(mapWallet, o)
        BY <2>1, <3>1 DEF PassedOver, IsMarked
      <3> QED
        BY <1>5, <1>9, <2>1, <3>2
    <2> QED
      BY <2>2, <2>3
  <1>13. /\ IsWallet(w) /\ Exact(m, b) => Exact(w, b)
         /\ IsWallet(w) /\ SpentMarked(w, b, Exempt)
    BY <1>2, <1>4, <1>8, <1>10, <1>12, LooseKeeps
  <1> HIDE DEF w
  <1>14. IsWallet(mapWallet') /\ \A o \in Mine : IsMarked(w, o) => IsMarked(mapWallet', o)
    BY <1>1, <1>2, <1>13, GenesisInLineage, ScanKeepsMarks
  <1>15. SpentMarked(mapWallet', b, Exempt)
    BY <1>13, <1>14 DEF SpentMarked
  <1>16. nCrashes = 0 => Exact(mapWallet', b)
    BY <1>1, <1>7, <1>11, <1>13
  <1>17. /\ dbHashBest' = dbHashBest /\ nCrashes' = nCrashes /\ backup' = backup /\ Exempt' = Exempt /\ b # Null
    BY <1>1, <1>2, BlockTree DEF Exempt
  <1> QED
    BY <1>1, <1>14, <1>15, <1>16, <1>17 DEF Heard

\* The process ends: what the wallet wrote stays a wallet.
LEMMA EndHears ==
  ASSUME ChainInv, Heard, Shutdown \/ CrashInSync
  PROVE  Heard'
  <1>1. /\ nCrashes' = nCrashes + 1 /\ dbHashBest' = dbHashBest /\ backup' = backup /\ stage' = "off" /\ ~(Running)'
    BY DEF Shutdown, CrashInSync, Crash, disk, Running
  <1>2. IsWallet(mapWallet')
    <2>1. CASE Shutdown
      BY <2>1 DEF Shutdown, Heard
    <2>2. CASE CrashInSync
      <3> DEFINE calls == IF Running THEN SyncCalls ELSE <<>>
      <3>1. PICK k \in 0..Len(calls) : mapWallet' = FoldLeft(SyncTransaction, mapWallet, SubSeq(calls, 1, k))
        BY <2>2 DEF CrashInSync, Told
      <3>2. calls \in Seq(CallSet)
        BY SyncCallsAre
      <3> HIDE DEF calls
      <3>3. SubSeq(calls, 1, k) \in Seq(CallSet)
        BY <3>2
      <3> QED
        BY <3>1, <3>3, SyncHears DEF Heard
    <2> QED
      BY <2>1, <2>2
  <1>3. nCrashes' \in Nat /\ nCrashes' # 0
    BY <1>1 DEF Heard
  <1> QED
    BY <1>1, <1>2, <1>3 DEF Heard

\* Every step of the node leaves the wallet right.
LEMMA HeardInductive ==
  ASSUME NeverRefused, ChainInv, IndexInv, LoadGoesBack, NodeInv, ExactInv, TipIsOnDisk, Started, Remembers,
         Heard, ExactInv', [WalletNext]_allVars
  PROVE  Heard'
  <1>1. ASSUME UNCHANGED <<mapWallet, locator, backup, stage, nCrashes>>,
               dbHashBest' = dbHashBest \/ (~Running /\ dbHashBest' = Genesis)
        PROVE  Heard'
    <2>1. /\ mapWallet' = mapWallet /\ locator' = locator /\ backup' = backup /\ stage' = stage
          /\ nCrashes' = nCrashes /\ (Running)' = Running /\ Exempt' = Exempt
      BY <1>1 DEF Running, Exempt
    <2>2. Running => dbHashBest' = dbHashBest
      BY <1>1
    <2> QED
      BY <1>1, <2>1, <2>2 DEF Heard
  <1>2. CASE UNCHANGED allVars
    BY <1>1, <1>2 DEF allVars, nodeVars, vars, disk, env, walletVars
  <1>3. ASSUME NEW t \in Tx, SyncAccept(t) PROVE Heard'
    BY <1>3, AcceptHears
  <1>4. ASSUME NEW t \in Tx, CommitTransaction(t) PROVE Heard'
    BY <1>4, CommitHears
  <1>5. CASE SyncConnectTip \/ SyncReorganizeTip
    BY <1>5, TipHears
  <1>6. ASSUME NEW b \in Block, ProcessBlock(b) \/ AcceptOrphan(b), UNCHANGED <<pool, walletVars>>
        PROVE  Heard'
    BY <1>1, <1>6 DEF ProcessBlock, HoldOrphan, AcceptBlock, AcceptOrphan, WriteToDisk, disk, env, walletVars
  <1>7. CASE (SetGenesis \/ AddToBlockIndex \/ NextInQueue \/ Load) /\ UNCHANGED <<pool, walletVars>>
    <2>1. nCrashes' = nCrashes /\ UNCHANGED <<mapWallet, locator, backup, stage>>
      BY <1>7 DEF SetGenesis, AddToBlockIndex, NextInQueue, Load, LoadEmpty, LoadFails, LoadBlockIndex,
                  WriteToDisk, env, walletVars
    <2>2. CASE SetGenesis
      <3>1. pc = "SetBestChain" /\ hashBestChain = Null /\ dbHashBest' = Genesis
        BY <2>2 DEF SetGenesis
      <3>2. dbHashBest = Null
        BY <3>1 DEF ChainInv, GenesisFirst, Alive
      <3>3. ~Running
        BY <3>2 DEF Heard
      <3> QED
        BY <1>1, <2>1, <3>1, <3>3
    <2>3. CASE AddToBlockIndex \/ NextInQueue \/ Load
      <3>1. dbHashBest' = dbHashBest
        BY <2>3 DEF AddToBlockIndex, NextInQueue, Load, LoadEmpty, LoadFails, LoadBlockIndex, WriteToDisk, disk
      <3> QED
        BY <1>1, <2>1, <3>1
    <2> QED
      BY <1>7, <2>2, <2>3
  <1>8. CASE FixSpentCoins
    BY <1>8, FixHears
  <1>9. CASE BackupWallet
    <2>1. /\ dbHashBest' = dbHashBest /\ nCrashes' = nCrashes /\ mapWallet' = mapWallet /\ stage' = stage
          /\ backup' = {<<mapWallet, locator>>} /\ Running /\ (Running)' /\ Exempt' = Exempt
      BY <1>9 DEF BackupWallet, nodeVars, vars, disk, env, Running, Exempt
    <2> QED
      BY <2>1 DEF Heard
  <1>10. CASE RestoreWallet
    <2>1. /\ dbHashBest' = dbHashBest /\ nCrashes' = nCrashes /\ backup' = backup /\ stage' = stage /\ pc = "down"
      BY <1>10 DEF RestoreWallet, nodeVars, vars, disk, env
    <2>2. PICK copy \in backup : mapWallet' = copy[1]
      BY <1>10 DEF RestoreWallet
    <2>3. ~Running /\ ~(Running)' /\ nCrashes # 0
      BY <2>1, <2>2 DEF Started, Alive, Heard, Running
    <2> QED
      BY <2>1, <2>2, <2>3 DEF Heard
  <1>11. CASE LoadWallet
    BY <1>11, LoadHears
  <1>12. CASE ReacceptWalletTransactions
    BY <1>12, ReacceptHears
  <1>13. CASE Shutdown \/ CrashInSync
    BY <1>13, EndHears
  <1> QED
    BY <1>2, <1>3, <1>4, <1>5, <1>6, <1>7, <1>8, <1>9, <1>10, <1>11, <1>12, <1>13 DEF WalletNext

\* What holds of chain and wallet where no block is refused.
WalletRight == ExactInv /\ TipInv /\ Started /\ Remembers /\ Heard

\* Every step keeps that, the tip and the wallet together.
LEMMA WalletRightInductive ==
  ASSUME NeverRefused, ChainInv, IndexInv, LoadGoesBack, NodeInv, ScanReaches, WalletRight,
         ChainInv', [WalletNext]_allVars
  PROVE  WalletRight'
  <1>1. ExactInv /\ TipInv /\ TipIsOnDisk /\ Started /\ Remembers /\ Heard /\ [Next]_vars
    BY WalletStepsAreChainSteps DEF WalletRight, TipInv, TipIsOnDisk
  <1>2. PostponedBlocksConnect
    BY <1>1, AllConnect DEF Started
  <1>3. TipInv' /\ TipIsOnDisk'
    <2>1. TipInv'
      BY <1>1, <1>2, TipInvInductive
    <2> QED
      BY <2>1 DEF TipInv, TipIsOnDisk
  <1>4. ExactInv'
    BY <1>1, ExactInvInductive
  <1>5. Started' /\ Remembers'
    BY <1>1, <1>3, <1>4, WalletInvInductive
  <1>6. Heard'
    BY <1>1, <1>4, HeardInductive
  <1> QED
    BY <1>3, <1>4, <1>5, <1>6 DEF WalletRight

\* It holds before the first start, when no crash has been counted.
LEMMA WalletRightInit == WalletInit => WalletRight /\ nCrashes = 0
  <1> SUFFICES ASSUME WalletInit PROVE WalletRight /\ nCrashes = 0
    OBVIOUS
  <1>1. ExactInv /\ Started /\ Remembers
    BY ExactInvInit, WalletInvInit DEF WalletInit
  <1>2. TipInv /\ nCrashes = 0
    BY DEF WalletInit, Init, TipInv
  <1>3. Heard
    BY DEF WalletInit, Init, Heard, Running, IsWallet, EmptyIndex
  <1> QED
    BY <1>1, <1>2, <1>3 DEF WalletRight

\* Crashes are counted.
LEMMA CrashesCount ==
  ASSUME nCrashes \in Nat, [WalletNext]_allVars
  PROVE  nCrashes' \in Nat /\ (nCrashes' = 0 => nCrashes = 0)
  <1>1. [Next]_vars
    BY WalletStepsAreChainSteps
  <1>2. nCrashes' = nCrashes \/ nCrashes' = nCrashes + 1
    BY <1>1 DEF Next, vars, env, ProcessBlock, HoldOrphan, AcceptBlock, AcceptOrphan, WriteToDisk, AddToBlockIndex,
                SetBestChain, SetGenesis, ExtendTip, Reorganize, ConnectPostponed, NextInQueue, Crash, Load,
                LoadEmpty, LoadFails, LoadBlockIndex, LockInput, UnlockInput, ClockChange
  <1> QED
    BY <1>2

\* Up to the first crash.
RightUntilCrash == nCrashes \in Nat /\ (nCrashes = 0 /\ NeverRefused => WalletRight)

\* Until the first crash the wallet is right whatever the scan reaches.
LEMMA FirstLifeHolds == WalletSpec => [](ChainInv /\ IndexInv /\ RightUntilCrash)
  <1>1. WalletInit => RightUntilCrash
    BY WalletRightInit DEF RightUntilCrash
  <1>2. ChainInv /\ IndexInv /\ LoadGoesBack /\ NodeInv /\ RightUntilCrash
        /\ (ChainInv /\ IndexInv /\ LoadGoesBack /\ NodeInv)' /\ [WalletNext]_allVars => RightUntilCrash'
    <2> SUFFICES ASSUME ChainInv, IndexInv, LoadGoesBack, NodeInv, RightUntilCrash, ChainInv', [WalletNext]_allVars
                 PROVE  RightUntilCrash'
      OBVIOUS
    <2>1. nCrashes' \in Nat /\ (nCrashes' = 0 => nCrashes = 0)
      BY CrashesCount DEF RightUntilCrash
    <2>2. ASSUME nCrashes' = 0, NeverRefused PROVE WalletRight'
      <3>1. WalletRight /\ nCrashes = 0
        BY <2>1, <2>2 DEF RightUntilCrash
      <3>2. ScanReaches
        BY <3>1 DEF WalletRight, Heard, Running, ScanReaches
      <3> QED
        BY <2>2, <3>1, <3>2, WalletRightInductive
    <2>3. NeverRefused' = NeverRefused
      BY DEF NeverRefused
    <2> QED
      BY <2>1, <2>2, <2>3 DEF RightUntilCrash
  <1> QED
    BY <1>1, <1>2, NodeInvHolds, PTL DEF WalletSpec

\* Without crashes and refused blocks, the wallet has each of its confirmed
\* transactions in the block of the best chain that holds it: AddToWallet moves
\* it along with every reorganisation, and neither the pool's own calls nor the
\* wallet's own transactions move it away.
THEOREM BlocksAreFollowed == WalletSpec => []BlocksFollowed
  <1>1. ChainInv /\ IndexInv /\ RightUntilCrash => BlocksFollowed
    <2> SUFFICES ASSUME ChainInv, IndexInv, RightUntilCrash, Settled, nCrashes = 0, NeverRefused
                 PROVE  \A t \in DOMAIN mapWallet \cap DOMAIN dbTxIndex : mapWallet[t].hashBlock = dbTxIndex[t].pos
      BY DEF BlocksFollowed
    <2>1. WalletRight /\ TipIsOnDisk
      BY DEF RightUntilCrash, WalletRight, TipInv, TipIsOnDisk
    <2>2. dbTxIndex = IndexOf(dbHashBest)
      BY <2>1, HeardAtRest DEF WalletRight, Settled
    <2>3. Exact(mapWallet, dbHashBest)
      BY <2>1 DEF WalletRight, Heard, Settled, Running
    <2> QED
      BY <2>2, <2>3 DEF Exact, Placed
  <1> QED
    BY <1>1, FirstLifeHolds, PTL

\* Without crashes and refused blocks, no coin stays marked for a stake that is
\* not on the best chain: DisconnectBlock tells the wallet of every stake it
\* takes off, and DisableTransaction unmarks what it spent.
THEOREM StakesAreRefunded == WalletSpec => []StakesRefunded
  <1>1. ChainInv /\ IndexInv /\ RightUntilCrash => StakesRefunded
    <2> SUFFICES ASSUME ChainInv, IndexInv, RightUntilCrash, Settled, nCrashes = 0, NeverRefused,
                        NEW o \in Mine, o[1] \in DOMAIN mapWallet, o[2] \in mapWallet[o[1]].vfSpent
                 PROVE  \E t \in DOMAIN mapWallet : o \in Vin[t] /\ (t \in CoinStake => t \in DOMAIN dbTxIndex)
      BY DEF StakesRefunded
    <2>1. WalletRight /\ TipIsOnDisk
      BY DEF RightUntilCrash, WalletRight, TipInv, TipIsOnDisk
    <2>2. dbTxIndex = IndexOf(dbHashBest)
      BY <2>1, HeardAtRest DEF WalletRight, Settled
    <2>3. Exact(mapWallet, dbHashBest)
      BY <2>1 DEF WalletRight, Heard, Settled, Running
    <2> QED
      BY <2>2, <2>3 DEF Exact, Backed, IsMarked
  <1> QED
    BY <1>1, FirstLifeHolds, PTL

\* Where no block is refused, the wallet has a spent mark for every coin the best
\* chain spends, through reorganisations, crashes inside a batch, restarts and
\* restored copies: SyncWithWallets tells it in the order of the chain, and
\* ReacceptWalletTransactions makes up for what a crash has cost, but for the
\* further outputs of a coinbase or stake.
THEOREM SpentCoinsAreMarked == WalletSpec /\ []ScanReaches => []SpentCoinsMarked
  <1>1. WalletInit => (NeverRefused => WalletRight)
    BY WalletRightInit
  <1>2. ChainInv /\ IndexInv /\ LoadGoesBack /\ NodeInv /\ ScanReaches /\ (NeverRefused => WalletRight)
        /\ (ChainInv /\ IndexInv /\ LoadGoesBack /\ NodeInv)' /\ [WalletNext]_allVars => (NeverRefused => WalletRight)'
    <2>1. NeverRefused' = NeverRefused
      BY DEF NeverRefused
    <2> QED
      BY <2>1, WalletRightInductive
  <1>3. ChainInv /\ IndexInv /\ (NeverRefused => WalletRight) => SpentCoinsMarked
    <2> SUFFICES ASSUME ChainInv, IndexInv, NeverRefused, WalletRight, Settled,
                        NEW o \in Mine, o[1] \in DOMAIN dbTxIndex, dbTxIndex[o[1]].vSpent[o[2]] # Null
                 PROVE  /\ o[1] \in DOMAIN mapWallet
                        /\ \/ o[2] \in mapWallet[o[1]].vfSpent
                           \/ nCrashes > 0 /\ o[1] \in Generated /\ o[2] # FirstPayment(o[1])
      BY DEF SpentCoinsMarked
    <2>1. TipIsOnDisk /\ Running /\ pc = "idle" /\ stage = "ready"
      BY DEF WalletRight, TipInv, TipIsOnDisk, Settled, Running
    <2>2. /\ dbHashBest \in Block /\ GoodLedger(dbHashBest) /\ dbTxIndex = IndexOf(dbHashBest)
          /\ KnowsAll(mapWallet, DOMAIN IndexOf(dbHashBest))
      BY <2>1, HeardAtRest DEF WalletRight
    <2>3. PICK c \in Ledger(dbHashBest) : o \in Spends(c)
      BY <2>2, SpentInIndex
    <2>4. o[1] \in DOMAIN mapWallet
      BY <2>2, <2>3, SpenderKnown
    <2>5. o \notin Exempt => o[2] \in mapWallet[o[1]].vfSpent
      BY <2>1, <2>3 DEF WalletRight, Heard, SpentMarked, IsMarked
    <2>6. o \in Exempt => nCrashes > 0 /\ o[1] \in Generated /\ o[2] # FirstPayment(o[1])
      BY DEF Exempt, WalletRight, Heard
    <2> QED
      BY <2>4, <2>5, <2>6
  <1> QED
    BY <1>1, <1>2, <1>3, NodeInvHolds, PTL DEF WalletSpec
=============================================================================
