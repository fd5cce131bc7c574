--------------------------- MODULE AddrManProofs ---------------------------
(***************************************************************************)
(* The tables of the address manager stay consistent, for every number of  *)
(* addresses and buckets and all their limits, after any sequence of calls *)
(* and restarts.                                                           *)
(*                                                                         *)
(* TablesConsistent is not inductive: it counts vRandom where the methods  *)
(* need every place of it to lead back to its entry, and it names the      *)
(* tried places of an address where they need that a bucket has no other.  *)
(* TablesInv says both, and of a table in the middle of Add_, where one    *)
(* reference is counted and not yet placed.                                *)
(***************************************************************************)
EXTENDS AddrMan, FoldProofs, SequenceTheorems

-----------------------------------------------------------------------------
(* The inductive invariant, of any state m of the tables.                   *)

EntryType == [source : Source, nLastSuccess : Times \cup {0}, nRefCount : Nat,
              fInTried : BOOLEAN, nRandomPos : Nat]

Infos == UNION {[D -> EntryType] : D \in SUBSET Addr}

TablesType ==
    [mapInfo : Infos, vRandom : Seq(Addr), vvNew : [NewBucket -> SUBSET Addr],
     vvTried : [TriedBucket -> Seq(Addr)], nNew : Int, nTried : Int]

\* Entries and places of vRandom lead to one another.
RandomInv(info, rnd) ==
    /\ \A a \in DOMAIN info : info[a].nRandomPos \in 1..Len(rnd) /\ rnd[info[a].nRandomPos] = a
    /\ \A i \in 1..Len(rnd) : rnd[i] \in DOMAIN info /\ info[rnd[i]].nRandomPos = i

Holders(vvNew, a) == {b \in NewBucket : a \in vvNew[b]}

\* References are counted; those of owed are counted but not yet placed.
NewInv(info, vvNew, owed) ==
    /\ \A b \in NewBucket : \A a \in vvNew[b] : a \in DOMAIN info /\ ~info[a].fInTried
    /\ \A a \in DOMAIN info :
          /\ info[a].nRefCount = Cardinality(Holders(vvNew, a)) + (IF a \in owed THEN 1 ELSE 0)
          /\ info[a].nRefCount <= BucketsPerAddress
          /\ ~info[a].fInTried => a \in owed \/ Holders(vvNew, a) # {}
    /\ \A a \in owed : a \in DOMAIN info /\ ~info[a].fInTried

\* A sequence without repetitions.
Once(s) == \A i, j \in 1..Len(s) : i # j => s[i] # s[j]

TriedInv(info, vvTried) ==
    /\ \A k \in TriedBucket : \A i \in 1..Len(vvTried[k]) :
          /\ vvTried[k][i] \in DOMAIN info /\ info[vvTried[k][i]].fInTried
          /\ GetTriedBucket[vvTried[k][i]] = k
    /\ \A k \in TriedBucket : Once(vvTried[k])
    /\ \A a \in DOMAIN info : info[a].fInTried =>
          /\ info[a].nLastSuccess # 0
          /\ \E i \in 1..Len(vvTried[GetTriedBucket[a]]) : vvTried[GetTriedBucket[a]][i] = a

NewOf(info)   == {a \in DOMAIN info : ~info[a].fInTried}
TriedOf(info) == {a \in DOMAIN info : info[a].fInTried}

CountInv(m) ==
    m.nNew = Cardinality(NewOf(m.mapInfo)) /\ m.nTried = Cardinality(TriedOf(m.mapInfo))

BoundInv(m) ==
    /\ \A b \in NewBucket : Cardinality(m.vvNew[b]) <= NewBucketSize
    /\ \A k \in TriedBucket : Len(m.vvTried[k]) <= TriedBucketSize

TablesInv(m, owed) ==
    /\ m \in TablesType
    /\ RandomInv(m.mapInfo, m.vRandom)
    /\ NewInv(m.mapInfo, m.vvNew, owed)
    /\ TriedInv(m.mapInfo, m.vvTried)
    /\ CountInv(m) /\ BoundInv(m)

-----------------------------------------------------------------------------
(* Types.                                                                   *)

\* The table of entries, and its fields.
LEMMA InfoFields ==
  ASSUME NEW info \in Infos
  PROVE  /\ DOMAIN info \subseteq Addr /\ IsFiniteSet(DOMAIN info)
         /\ info = [a \in DOMAIN info |-> info[a]]
         /\ \A a \in DOMAIN info :
               /\ info[a] \in EntryType
               /\ info[a].source \in Source /\ info[a].nLastSuccess \in Times \cup {0}
               /\ info[a].nRefCount \in Nat /\ info[a].fInTried \in BOOLEAN /\ info[a].nRandomPos \in Nat
  <1>1. PICK D \in SUBSET Addr : info \in [D -> EntryType]
    BY DEF Infos
  <1>2. DOMAIN info = D /\ info = [a \in DOMAIN info |-> info[a]] /\ \A a \in D : info[a] \in EntryType
    BY <1>1
  <1>3. IsFiniteSet(DOMAIN info)
    BY <1>2, FS_Subset, AddrManConstants
  <1> QED
    BY <1>2, <1>3 DEF EntryType

\* A table of entries is known by its values.
LEMMA InfoIs ==
  ASSUME NEW info, NEW D \in SUBSET Addr, info = [a \in D |-> info[a]], \A a \in D : info[a] \in EntryType
  PROVE  info \in Infos
  <1>1. info \in [D -> EntryType]
    OBVIOUS
  <1> QED
    BY <1>1 DEF Infos

\* The sets the counters count are finite.
LEMMA FiniteParts ==
  ASSUME NEW info \in Infos, NEW vvNew \in [NewBucket -> SUBSET Addr]
  PROVE  /\ IsFiniteSet(NewOf(info)) /\ IsFiniteSet(TriedOf(info))
         /\ \A b \in NewBucket : IsFiniteSet(vvNew[b])
         /\ \A a : IsFiniteSet(Holders(vvNew, a))
  <1>1. NewOf(info) \in SUBSET DOMAIN info /\ TriedOf(info) \in SUBSET DOMAIN info
    BY DEF NewOf, TriedOf
  <1>2. \A b \in NewBucket : vvNew[b] \in SUBSET Addr
    OBVIOUS
  <1>3. \A a : Holders(vvNew, a) \in SUBSET NewBucket
    BY DEF Holders
  <1> QED
    BY <1>1, <1>2, <1>3, InfoFields, FS_Subset, AddrManConstants

\* The fields of the tables.
LEMMA TableFields ==
  ASSUME NEW m \in TablesType
  PROVE  /\ m.mapInfo \in Infos /\ m.vRandom \in Seq(Addr)
         /\ m.vvNew \in [NewBucket -> SUBSET Addr] /\ m.vvTried \in [TriedBucket -> Seq(Addr)]
         /\ m.nNew \in Int /\ m.nTried \in Int
  BY DEF TablesType

-----------------------------------------------------------------------------
(* SwapRandom.                                                              *)

\* Tables of entries that differ in the places of vRandom only.
SameEntries(f, g) ==
    /\ DOMAIN f = DOMAIN g
    /\ \A x \in DOMAIN g : /\ f[x].source = g[x].source /\ f[x].nLastSuccess = g[x].nLastSuccess
                           /\ f[x].nRefCount = g[x].nRefCount /\ f[x].fInTried = g[x].fInTried

\* What does not depend on the places.
LEMMA SameKeeps ==
  ASSUME NEW f, NEW g, SameEntries(f, g), NEW vvNew, NEW vvTried, NEW owed
  PROVE  /\ NewInv(g, vvNew, owed) => NewInv(f, vvNew, owed)
         /\ TriedInv(g, vvTried) => TriedInv(f, vvTried)
         /\ NewOf(f) = NewOf(g) /\ TriedOf(f) = TriedOf(g)
  <1>1. NewInv(g, vvNew, owed) => NewInv(f, vvNew, owed)
    BY DEF SameEntries, NewInv
  <1>2. TriedInv(g, vvTried) => TriedInv(f, vvTried)
    BY DEF SameEntries, TriedInv
  <1>3. NewOf(f) = NewOf(g) /\ TriedOf(f) = TriedOf(g)
    BY DEF SameEntries, NewOf, TriedOf
  <1> QED
    BY <1>1, <1>2, <1>3

\* SwapRandom changes two places and the entries that lead to them.
LEMMA SwapIs ==
  ASSUME NEW m \in TablesType, RandomInv(m.mapInfo, m.vRandom),
         NEW i \in 1..Len(m.vRandom), NEW j \in 1..Len(m.vRandom)
  PROVE  LET s == SwapRandom(m, i, j) IN
         /\ s \in TablesType
         /\ s.vvNew = m.vvNew /\ s.vvTried = m.vvTried /\ s.nNew = m.nNew /\ s.nTried = m.nTried
         /\ SameEntries(s.mapInfo, m.mapInfo)
         /\ Len(s.vRandom) = Len(m.vRandom) /\ RandomInv(s.mapInfo, s.vRandom)
         /\ s.mapInfo[m.vRandom[i]].nRandomPos = j
  <1> DEFINE s == SwapRandom(m, i, j)
             r == m.vRandom
             f == m.mapInfo
             a == r[i]
             b == r[j]
             r2 == [r EXCEPT ![i] = b, ![j] = a]
             f2 == [f EXCEPT ![a].nRandomPos = j, ![b].nRandomPos = i]
  <1>1. /\ s.vRandom = r2 /\ s.mapInfo = f2 /\ s.vvNew = m.vvNew /\ s.vvTried = m.vvTried
        /\ s.nNew = m.nNew /\ s.nTried = m.nTried
        /\ s = [mapInfo |-> s.mapInfo, vRandom |-> s.vRandom, vvNew |-> s.vvNew,
                vvTried |-> s.vvTried, nNew |-> s.nNew, nTried |-> s.nTried]
    <2>1. s = [m EXCEPT !.vRandom = r2, !.mapInfo = f2]
      BY DEF SwapRandom
    <2> HIDE DEF s, r2, f2
    <2> QED
      BY <2>1 DEF TablesType
  <1>2. /\ r \in Seq(Addr) /\ f \in Infos /\ Len(r) \in Nat /\ i \in Nat /\ j \in Nat
        /\ i \in 1..Len(r) /\ j \in 1..Len(r)
    BY TableFields
  <1>3. a \in DOMAIN f /\ b \in DOMAIN f /\ f[a].nRandomPos = i /\ f[b].nRandomPos = j
    BY DEF RandomInv
  <1> HIDE DEF s, f, a, b
  <1>4. /\ r2 \in Seq(Addr) /\ Len(r2) = Len(r)
        /\ \A k \in 1..Len(r) : r2[k] = IF k = j THEN a ELSE IF k = i THEN b ELSE r[k]
    <2>1. a \in Addr /\ b \in Addr
      BY <1>2, <1>3, InfoFields
    <2> HIDE DEF r
    <2> QED
      BY <1>2, <2>1
  <1>5. /\ DOMAIN f2 = DOMAIN f /\ f2 = [x \in DOMAIN f |-> f2[x]]
        /\ \A x \in DOMAIN f : f2[x] = IF x = b THEN [f[x] EXCEPT !.nRandomPos = i]
                                       ELSE IF x = a THEN [f[x] EXCEPT !.nRandomPos = j] ELSE f[x]
    <2>1. a = b => i = j
      BY <1>3
    <2>2. \A x \in DOMAIN f : f[x] \in EntryType
      BY <1>2, InfoFields
    <2> QED
      BY <1>3, <2>1, <2>2 DEF EntryType
  <1> HIDE DEF r, r2, f2
  <1>6. /\ f2 \in Infos /\ SameEntries(f2, f)
        /\ \A x \in DOMAIN f : f2[x].nRandomPos = IF x = b THEN i ELSE IF x = a THEN j ELSE f[x].nRandomPos
    <2>1. ASSUME NEW x \in DOMAIN f
          PROVE  /\ f2[x] \in EntryType /\ f2[x].source = f[x].source
                 /\ f2[x].nLastSuccess = f[x].nLastSuccess
                 /\ f2[x].nRefCount = f[x].nRefCount /\ f2[x].fInTried = f[x].fInTried
                 /\ f2[x].nRandomPos = IF x = b THEN i ELSE IF x = a THEN j ELSE f[x].nRandomPos
      <3>1. f[x] \in EntryType
        BY <1>2, InfoFields
      <3> QED
        BY <1>2, <1>5, <3>1 DEF EntryType
    <2>2. DOMAIN f \subseteq Addr
      BY <1>2, InfoFields
    <2>3. f2 \in Infos
      BY <1>5, <2>1, <2>2, InfoIs
    <2> QED
      BY <1>5, <2>1, <2>3 DEF SameEntries
  <1>7. s \in TablesType
    <2>1. /\ s.vRandom \in Seq(Addr) /\ s.mapInfo \in Infos
          /\ s.vvNew \in [NewBucket -> SUBSET Addr] /\ s.vvTried \in [TriedBucket -> Seq(Addr)]
          /\ s.nNew \in Int /\ s.nTried \in Int
      BY <1>1, <1>4, <1>6, TableFields
    <2> QED
      BY <1>1, <2>1 DEF TablesType
  <1>8. RandomInv(f2, r2)
    <2>1. \A x \in DOMAIN f : f[x].nRandomPos \in 1..Len(r) /\ r[f[x].nRandomPos] = x
      BY DEF RandomInv, f, r
    <2>2. \A k \in 1..Len(r) : r[k] \in DOMAIN f /\ f[r[k]].nRandomPos = k
      BY DEF RandomInv, f, r
    <2>3. a = r[i] /\ b = r[j]
      BY DEF a, b
    <2>4. \A x \in DOMAIN f2 : f2[x].nRandomPos \in 1..Len(r2) /\ r2[f2[x].nRandomPos] = x
      BY <1>2, <1>3, <1>4, <1>5, <1>6, <2>1, <2>2, <2>3
    <2>5. \A k \in 1..Len(r2) : r2[k] \in DOMAIN f2 /\ f2[r2[k]].nRandomPos = k
      BY <1>2, <1>3, <1>4, <1>5, <1>6, <2>1, <2>2, <2>3
    <2> QED
      BY <2>4, <2>5 DEF RandomInv
  <1>9. f2[a].nRandomPos = j
    BY <1>3, <1>6
  <1> QED
    BY <1>1, <1>4, <1>6, <1>7, <1>8, <1>9 DEF s, f, r, a

\* GetAddr_ keeps the tables.
LEMMA SwapKeeps ==
  ASSUME NEW m, NEW owed, TablesInv(m, owed), NEW i \in 1..Len(m.vRandom), NEW j \in 1..Len(m.vRandom)
  PROVE  TablesInv(SwapRandom(m, i, j), owed)
  <1> DEFINE s == SwapRandom(m, i, j)
  <1>1. /\ s \in TablesType
        /\ s.vvNew = m.vvNew /\ s.vvTried = m.vvTried /\ s.nNew = m.nNew /\ s.nTried = m.nTried
        /\ SameEntries(s.mapInfo, m.mapInfo) /\ RandomInv(s.mapInfo, s.vRandom)
    BY SwapIs DEF TablesInv
  <1> HIDE DEF s
  <1>2. NewInv(s.mapInfo, s.vvNew, owed) /\ TriedInv(s.mapInfo, s.vvTried) /\ CountInv(s) /\ BoundInv(s)
    BY <1>1, SameKeeps DEF TablesInv, CountInv, BoundInv
  <1>3. TablesInv(s, owed)
    BY <1>1, <1>2 DEF TablesInv
  <1> QED
    BY <1>3 DEF s

-----------------------------------------------------------------------------
(* Add_ and ShrinkNew.                                                      *)

\* A bucket without an address, and with one more; an entry with n references.
TakenOut(vvNew, b, v) == [vvNew EXCEPT ![b] = @ \ {v}]
PutIn(vvNew, b, v)    == [vvNew EXCEPT ![b] = @ \cup {v}]
WithRefs(f, v, n)     == [f EXCEPT ![v].nRefCount = n]

\* A bucket lets an address go.
LEMMA TakenChange ==
  ASSUME NEW vvNew \in [NewBucket -> SUBSET Addr], NEW b \in NewBucket, NEW v \in Addr
  PROVE  /\ TakenOut(vvNew, b, v) \in [NewBucket -> SUBSET Addr]
         /\ TakenOut(vvNew, b, v)[b] = vvNew[b] \ {v}
         /\ \A c \in NewBucket : c # b => TakenOut(vvNew, b, v)[c] = vvNew[c]
         /\ Holders(TakenOut(vvNew, b, v), v) = Holders(vvNew, v) \ {b}
         /\ \A x : x # v => Holders(TakenOut(vvNew, b, v), x) = Holders(vvNew, x)
  <1> DEFINE w == TakenOut(vvNew, b, v)
  <1>1. /\ w \in [NewBucket -> SUBSET Addr]
        /\ \A c \in NewBucket : w[c] = IF c = b THEN vvNew[c] \ {v} ELSE vvNew[c]
    BY DEF TakenOut
  <1> HIDE DEF w
  <1>2. \A x : Holders(w, x) = IF x = v THEN Holders(vvNew, x) \ {b} ELSE Holders(vvNew, x)
    BY <1>1 DEF Holders
  <1> QED
    BY <1>1, <1>2 DEF w

\* A bucket takes an address in.
LEMMA PutChange ==
  ASSUME NEW vvNew \in [NewBucket -> SUBSET Addr], NEW b \in NewBucket, NEW v \in Addr
  PROVE  /\ PutIn(vvNew, b, v) \in [NewBucket -> SUBSET Addr]
         /\ PutIn(vvNew, b, v)[b] = vvNew[b] \cup {v}
         /\ \A c \in NewBucket : c # b => PutIn(vvNew, b, v)[c] = vvNew[c]
         /\ Holders(PutIn(vvNew, b, v), v) = Holders(vvNew, v) \cup {b}
         /\ \A x : x # v => Holders(PutIn(vvNew, b, v), x) = Holders(vvNew, x)
  <1> DEFINE w == PutIn(vvNew, b, v)
  <1>1. /\ w \in [NewBucket -> SUBSET Addr]
        /\ \A c \in NewBucket : w[c] = IF c = b THEN vvNew[c] \cup {v} ELSE vvNew[c]
    BY DEF PutIn
  <1> HIDE DEF w
  <1>2. \A x : Holders(w, x) = IF x = v THEN Holders(vvNew, x) \cup {b} ELSE Holders(vvNew, x)
    BY <1>1 DEF Holders
  <1> QED
    BY <1>1, <1>2 DEF w

\* g is f with n references to v.
RefsAre(f, v, n, g) ==
    /\ g \in Infos /\ DOMAIN g = DOMAIN f /\ g[v].nRefCount = n
    /\ \A x \in DOMAIN f :
          /\ x # v => g[x].nRefCount = f[x].nRefCount
          /\ g[x].fInTried = f[x].fInTried /\ g[x].nRandomPos = f[x].nRandomPos
          /\ g[x].nLastSuccess = f[x].nLastSuccess
    /\ NewOf(g) = NewOf(f) /\ TriedOf(g) = TriedOf(f)
    /\ \A rnd : RandomInv(f, rnd) => RandomInv(g, rnd)
    /\ \A vvTried : TriedInv(f, vvTried) => TriedInv(g, vvTried)

\* One entry's reference count changes.
LEMMA RefChange ==
  ASSUME NEW f \in Infos, NEW v \in DOMAIN f, NEW n \in Nat
  PROVE  RefsAre(f, v, n, WithRefs(f, v, n))
  <1> DEFINE g == WithRefs(f, v, n)
  <1>1. /\ DOMAIN g = DOMAIN f /\ g = [x \in DOMAIN f |-> g[x]]
        /\ \A x \in DOMAIN f : g[x] = IF x = v THEN [f[x] EXCEPT !.nRefCount = n] ELSE f[x]
    BY InfoFields DEF WithRefs
  <1> HIDE DEF g
  <1>2. ASSUME NEW x \in DOMAIN f
        PROVE  /\ g[x] \in EntryType
               /\ g[x].nRefCount = IF x = v THEN n ELSE f[x].nRefCount
               /\ g[x].fInTried = f[x].fInTried /\ g[x].nRandomPos = f[x].nRandomPos
               /\ g[x].nLastSuccess = f[x].nLastSuccess
    <2>1. f[x] \in EntryType
      BY InfoFields
    <2> QED
      BY <1>1, <2>1 DEF EntryType
  <1>3. g \in Infos
    BY <1>1, <1>2, InfoFields, InfoIs
  <1>4. NewOf(g) = NewOf(f) /\ TriedOf(g) = TriedOf(f)
    BY <1>1, <1>2 DEF NewOf, TriedOf
  <1>5. \A rnd : RandomInv(f, rnd) => RandomInv(g, rnd)
    BY <1>1, <1>2 DEF RandomInv
  <1>6. \A vvTried : TriedInv(f, vvTried) => TriedInv(g, vvTried)
    BY <1>1, <1>2 DEF TriedInv
  <1> QED
    BY <1>1, <1>2, <1>3, <1>4, <1>5, <1>6 DEF g, RefsAre

\* Deleting the entry that the last place of vRandom leads to.
LEMMA DropLast ==
  ASSUME NEW f \in Infos, NEW rnd \in Seq(Addr), RandomInv(f, rnd), NEW v \in DOMAIN f,
         f[v].nRandomPos = Len(rnd)
  PROVE  LET g == Restrict(f, DOMAIN f \ {v}) IN
         /\ g \in Infos /\ DOMAIN g = DOMAIN f \ {v} /\ \A x \in DOMAIN g : g[x] = f[x]
         /\ Front(rnd) \in Seq(Addr) /\ RandomInv(g, Front(rnd))
  <1> DEFINE g == Restrict(f, DOMAIN f \ {v})
             n == Len(rnd)
             r == Front(rnd)
  <1>1. DOMAIN g = DOMAIN f \ {v} /\ g = [x \in DOMAIN g |-> g[x]] /\ \A x \in DOMAIN g : g[x] = f[x]
    BY DEF Restrict
  <1>2. n \in Nat /\ n \in 1..n /\ rnd[n] = v
    BY DEF RandomInv
  <1>3. r \in Seq(Addr) /\ Len(r) = n - 1 /\ \A i \in 1..(n - 1) : r[i] = rnd[i]
    <2>1. r = SubSeq(rnd, 1, n - 1)
      BY DEF Front
    <2> HIDE DEF r
    <2>2. 1 \in 1..(Len(rnd) + 1) /\ n - 1 \in (1 - 1)..Len(rnd)
      BY <1>2
    <2> DEFINE k == n - 1
    <2>3. k \in (1 - 1)..Len(rnd) /\ k = n - 1 /\ k \in Nat
      BY <1>2, <2>2
    <2> HIDE DEF k
    <2>4. /\ SubSeq(rnd, 1, k) \in Seq(Addr) /\ Len(SubSeq(rnd, 1, k)) = k - 1 + 1
          /\ \A i \in 1..(k - 1 + 1) : SubSeq(rnd, 1, k)[i] = rnd[1 + i - 1]
      BY <2>2, <2>3, SubSeqProperties
    <2> QED
      BY <2>1, <2>3, <2>4
  <1> HIDE DEF g, r
  <1>4. g \in Infos
    BY <1>1, InfoFields, InfoIs
  <1>5. ASSUME NEW x \in DOMAIN g
        PROVE  g[x].nRandomPos \in 1..Len(r) /\ r[g[x].nRandomPos] = x
    <2>1. x \in DOMAIN f /\ x # v /\ g[x] = f[x]
      BY <1>1
    <2>2. f[x].nRandomPos \in 1..n /\ rnd[f[x].nRandomPos] = x
      BY <2>1 DEF RandomInv
    <2>3. f[x].nRandomPos # n
      BY <1>2, <2>1, <2>2
    <2>4. f[x].nRandomPos \in 1..(n - 1)
      BY <1>2, <2>2, <2>3
    <2> QED
      BY <1>3, <2>1, <2>2, <2>4
  <1>6. ASSUME NEW i \in 1..Len(r)
        PROVE  r[i] \in DOMAIN g /\ g[r[i]].nRandomPos = i
    <2>1. i \in 1..n /\ i # n /\ r[i] = rnd[i]
      BY <1>2, <1>3
    <2>2. rnd[i] \in DOMAIN f /\ f[rnd[i]].nRandomPos = i
      BY <2>1 DEF RandomInv
    <2>3. rnd[i] # v
      BY <2>1, <2>2
    <2> QED
      BY <1>1, <2>1, <2>2, <2>3
  <1>7. RandomInv(g, r)
    BY <1>5, <1>6 DEF RandomInv
  <1> QED
    BY <1>1, <1>3, <1>4, <1>7 DEF g, r

\* Tables by their parts.
LEMMA TablesIs ==
  ASSUME NEW m \in TablesType, NEW owed, NEW f \in Infos, NEW rnd \in Seq(Addr),
         NEW vvNew \in [NewBucket -> SUBSET Addr], NEW vvTried \in [TriedBucket -> Seq(Addr)],
         NEW nNew \in Int, NEW nTried \in Int,
         m.mapInfo = f, m.vRandom = rnd, m.vvNew = vvNew, m.vvTried = vvTried,
         m.nNew = nNew, m.nTried = nTried,
         RandomInv(f, rnd), NewInv(f, vvNew, owed), TriedInv(f, vvTried),
         nNew = Cardinality(NewOf(f)), nTried = Cardinality(TriedOf(f)),
         \A b \in NewBucket : Cardinality(vvNew[b]) <= NewBucketSize,
         \A k \in TriedBucket : Len(vvTried[k]) <= TriedBucketSize
  PROVE  TablesInv(m, owed)
  BY DEF TablesInv, CountInv, BoundInv

\* ShrinkNew keeps the tables when it lets go of an entry that is not the one
\* Add_ is about to place; an entry it deletes is not in a tried bucket.
LEMMA ReleaseKeeps ==
  ASSUME NEW m, NEW owed, TablesInv(m, owed), NEW b \in NewBucket, NEW v \in m.vvNew[b], v \notin owed
  PROVE  LET r == Release(m, v, b) IN
         /\ TablesInv(r, owed)
         /\ r.vvNew[b] = m.vvNew[b] \ {v}
         /\ ~m.mapInfo[v].fInTried /\ DOMAIN m.mapInfo \ {v} \subseteq DOMAIN r.mapInfo
  <1> DEFINE f == m.mapInfo
             H == Holders(m.vvNew, v)
             n == f[v].nRefCount - 1
             nv == TakenOut(m.vvNew, b, v)
             g == WithRefs(f, v, n)
             out == [m EXCEPT !.vvNew = nv, !.mapInfo = g]
             last == SwapRandom(out, out.mapInfo[v].nRandomPos, Len(out.vRandom))
             h == Restrict(last.mapInfo, DOMAIN last.mapInfo \ {v})
             gone == [last EXCEPT !.vRandom = Front(last.vRandom), !.mapInfo = h, !.nNew = @ - 1]
             r == Release(m, v, b)
  <1>1. r = IF out.mapInfo[v].nRefCount # 0 THEN out ELSE gone
    BY DEF Release, TakenOut, WithRefs
  <1> HIDE DEF r
  <1>2. /\ m \in TablesType /\ f \in Infos /\ m.vvNew \in [NewBucket -> SUBSET Addr] /\ v \in Addr
        /\ m.vRandom \in Seq(Addr) /\ m.vvTried \in [TriedBucket -> Seq(Addr)]
        /\ m.nNew \in Int /\ m.nTried \in Int
    BY TableFields DEF TablesInv
  <1>3. v \in DOMAIN f /\ ~f[v].fInTried /\ f[v].nRefCount = Cardinality(H)
    <2>1. NewInv(f, m.vvNew, owed)
      BY DEF TablesInv
    <2> HIDE DEF f, H
    <2>2. v \in DOMAIN f /\ ~f[v].fInTried
      BY <2>1 DEF NewInv
    <2>3. f[v].nRefCount = Cardinality(H) + 0
      BY <2>1, <2>2 DEF NewInv, H
    <2>4. Cardinality(H) \in Nat
      BY <1>2, FiniteParts, FS_CardinalityType DEF H
    <2> QED
      BY <2>2, <2>3, <2>4
  <1>4. /\ n \in Nat /\ IsFiniteSet(H) /\ Cardinality(H \ {b}) = n
        /\ (n = 0 => H \ {b} = {}) /\ (n # 0 => H \ {b} # {})
    <2>1. IsFiniteSet(H) /\ b \in H
      BY <1>2, FiniteParts DEF Holders
    <2>2. Cardinality(H \ {b}) = n /\ IsFiniteSet(H \ {b})
      BY <1>3, <2>1, FS_RemoveElement
    <2> HIDE DEF H, n
    <2> QED
      BY <2>1, <2>2, FS_CardinalityType, FS_EmptySet
  <1>5. /\ nv \in [NewBucket -> SUBSET Addr] /\ nv[b] = m.vvNew[b] \ {v}
        /\ \A c \in NewBucket : nv[c] \subseteq m.vvNew[c]
        /\ \A x : Holders(nv, x) = IF x = v THEN H \ {b} ELSE Holders(m.vvNew, x)
    <2> DEFINE w == m.vvNew
    <2>1. w \in [NewBucket -> SUBSET Addr]
      BY <1>2
    <2> HIDE DEF w
    <2>2. v \in Addr
      BY <1>2
    <2>3. /\ TakenOut(w, b, v) \in [NewBucket -> SUBSET Addr] /\ TakenOut(w, b, v)[b] = w[b] \ {v}
          /\ \A c \in NewBucket : c # b => TakenOut(w, b, v)[c] = w[c]
          /\ Holders(TakenOut(w, b, v), v) = Holders(w, v) \ {b}
          /\ \A x : x # v => Holders(TakenOut(w, b, v), x) = Holders(w, x)
      BY <2>1, <2>2, TakenChange
    <2>4. \A c \in NewBucket : TakenOut(w, b, v)[c] \subseteq w[c]
      BY <2>3
    <2> QED
      BY <2>3, <2>4 DEF w
  <1>6. /\ g \in Infos /\ DOMAIN g = DOMAIN f /\ g[v].nRefCount = n
        /\ \A x \in DOMAIN f :
               /\ x # v => g[x].nRefCount = f[x].nRefCount
               /\ g[x].fInTried = f[x].fInTried /\ g[x].nRandomPos = f[x].nRandomPos
               /\ g[x].nLastSuccess = f[x].nLastSuccess
        /\ NewOf(g) = NewOf(f) /\ TriedOf(g) = TriedOf(f)
        /\ RandomInv(g, m.vRandom) /\ TriedInv(g, m.vvTried)
    <2>1. RandomInv(f, m.vRandom) /\ TriedInv(f, m.vvTried)
      BY DEF TablesInv
    <2> HIDE DEF f, n
    <2>2. RefsAre(f, v, n, g)
      BY <1>2, <1>3, <1>4, RefChange
    <2> HIDE DEF g
    <2> QED
      BY <2>1, <2>2 DEF RefsAre
  <1>7. \A c \in NewBucket : Cardinality(nv[c]) <= NewBucketSize
    <2> TAKE c \in NewBucket
    <2>1. IsFiniteSet(m.vvNew[c]) /\ Cardinality(m.vvNew[c]) <= NewBucketSize /\ nv[c] \subseteq m.vvNew[c]
      BY <1>2, <1>5, FiniteParts DEF TablesInv, BoundInv
    <2>2. Cardinality(nv[c]) <= Cardinality(m.vvNew[c]) /\ IsFiniteSet(nv[c])
      BY <2>1, FS_Subset
    <2> HIDE DEF nv
    <2> QED
      BY <2>1, <2>2, FS_CardinalityType, AddrManConstants
  <1>8. /\ \A c \in NewBucket : \A x \in nv[c] : x \in DOMAIN g /\ ~g[x].fInTried
        /\ \A x \in DOMAIN g :
             /\ g[x].nRefCount = Cardinality(Holders(nv, x)) + (IF x \in owed THEN 1 ELSE 0)
             /\ g[x].nRefCount <= BucketsPerAddress
             /\ ~g[x].fInTried /\ x # v => x \in owed \/ Holders(nv, x) # {}
        /\ \A x \in owed : x \in DOMAIN g /\ ~g[x].fInTried
    <2>1. NewInv(f, m.vvNew, owed)
      BY DEF TablesInv
    <2>2. f[v].nRefCount = n + 1 /\ f[v].nRefCount <= BucketsPerAddress
      <3>1. f[v].nRefCount \in Nat
        BY <1>2, <1>3, InfoFields
      <3> HIDE DEF f
      <3> QED
        BY <1>3, <2>1, <3>1 DEF NewInv
    <2>a. BucketsPerAddress \in Nat
      BY AddrManConstants
    <2> HIDE DEF f, n, H, nv, g
    <2>3. \A c \in NewBucket : \A x \in nv[c] : x \in DOMAIN g /\ ~g[x].fInTried
      BY <1>5, <1>6, <2>1 DEF NewInv
    <2>4. ASSUME NEW x \in DOMAIN g
          PROVE  /\ g[x].nRefCount = Cardinality(Holders(nv, x)) + (IF x \in owed THEN 1 ELSE 0)
                 /\ g[x].nRefCount <= BucketsPerAddress
                 /\ ~g[x].fInTried /\ x # v => x \in owed \/ Holders(nv, x) # {}
      <3>1. CASE x = v
        <4>1. Holders(nv, x) = H \ {b} /\ g[x].nRefCount = n
          BY <3>1, <1>3, <1>5, <1>6
        <4>2. n <= BucketsPerAddress /\ n = n + 0
          BY <1>4, <2>2, <2>a
        <4>3. x \notin owed
          BY <3>1
        <4> QED
          BY <3>1, <1>4, <4>1, <4>2, <4>3
      <3>2. CASE x # v
        BY <3>2, <1>5, <1>6, <2>1 DEF NewInv
      <3> QED
        BY <3>1, <3>2
    <2> QED
      BY <1>6, <2>1, <2>3, <2>4 DEF NewInv
  <1>9. /\ out \in TablesType /\ out.mapInfo = g /\ out.vRandom = m.vRandom /\ out.vvNew = nv
        /\ out.vvTried = m.vvTried /\ out.nNew = m.nNew /\ out.nTried = m.nTried
    <2> HIDE DEF g, nv
    <2> QED
      BY <1>2, <1>5, <1>6 DEF TablesType
  <1> HIDE DEF out, g, nv
  <1>10. /\ m.nNew = Cardinality(NewOf(f)) /\ m.nTried = Cardinality(TriedOf(f))
         /\ \A k \in TriedBucket : Len(m.vvTried[k]) <= TriedBucketSize
    BY DEF TablesInv, CountInv, BoundInv
  <1>11. CASE n # 0
    <2>1. r = out
      BY <1>1, <1>3, <1>6, <1>9, <1>11
    <2>2. NewInv(g, nv, owed)
      <3>1. Holders(nv, v) # {}
        BY <1>4, <1>5, <1>11
      <3> QED
        BY <1>8, <3>1 DEF NewInv
    <2>3. TablesInv(out, owed)
      <3> HIDE DEF f, n, H
      <3> QED
        BY <1>2, <1>5, <1>6, <1>7, <1>9, <1>10, <2>2, TablesIs
    <2>4. out.vvNew[b] = m.vvNew[b] \ {v} /\ DOMAIN out.mapInfo = DOMAIN f
      BY <1>5, <1>6, <1>9
    <2> QED
      BY <1>3, <2>1, <2>3, <2>4 DEF r
  <1>12. CASE n = 0
    <2>1. r = gone
      BY <1>1, <1>3, <1>6, <1>9, <1>12
    <2>2. /\ last \in TablesType
          /\ last.vvNew = nv /\ last.vvTried = m.vvTried /\ last.nNew = m.nNew /\ last.nTried = m.nTried
          /\ SameEntries(last.mapInfo, g) /\ RandomInv(last.mapInfo, last.vRandom)
          /\ Len(last.vRandom) = Len(m.vRandom)
          /\ last.mapInfo[v].nRandomPos = Len(m.vRandom)
      <3>1. /\ g[v].nRandomPos \in 1..Len(m.vRandom) /\ m.vRandom[g[v].nRandomPos] = v
        BY <1>3, <1>6 DEF RandomInv
      <3>2. Len(m.vRandom) \in 1..Len(m.vRandom)
        BY <1>2, <3>1
      <3> QED
        BY <1>6, <1>9, <3>1, <3>2, SwapIs
    <2> HIDE DEF last
    <2>3. /\ last.mapInfo \in Infos /\ last.vRandom \in Seq(Addr)
          /\ v \in DOMAIN last.mapInfo /\ DOMAIN last.mapInfo = DOMAIN f
      BY <1>3, <1>6, <2>2, TableFields DEF SameEntries
    <2>4. /\ h \in Infos /\ DOMAIN h = DOMAIN f \ {v} /\ \A x \in DOMAIN h : h[x] = last.mapInfo[x]
          /\ Front(last.vRandom) \in Seq(Addr) /\ RandomInv(h, Front(last.vRandom))
      BY <2>2, <2>3, DropLast
    <2> HIDE DEF h
    <2>5. \A x \in DOMAIN h : /\ x \in DOMAIN f /\ x # v /\ h[x].nRefCount = g[x].nRefCount
                              /\ h[x].fInTried = f[x].fInTried /\ h[x].nLastSuccess = g[x].nLastSuccess
      BY <1>6, <2>2, <2>4 DEF SameEntries
    <2>6. Holders(nv, v) = {}
      BY <1>4, <1>5, <1>12
    <2>7. NewInv(h, nv, owed)
      <3>1. \A c \in NewBucket : \A x \in nv[c] : x # v
        BY <2>6 DEF Holders
      <3> HIDE DEF f
      <3>2. \A c \in NewBucket : \A x \in nv[c] : x \in DOMAIN h /\ ~h[x].fInTried
        BY <1>6, <1>8, <2>4, <2>5, <3>1
      <3>3. \A x \in DOMAIN h :
             /\ h[x].nRefCount = Cardinality(Holders(nv, x)) + (IF x \in owed THEN 1 ELSE 0)
             /\ h[x].nRefCount <= BucketsPerAddress
             /\ ~h[x].fInTried => x \in owed \/ Holders(nv, x) # {}
        BY <1>6, <1>8, <2>5
      <3>4. \A x \in owed : x \in DOMAIN h /\ ~h[x].fInTried
        BY <1>6, <1>8, <2>4, <2>5
      <3> QED
        BY <3>2, <3>3, <3>4 DEF NewInv
    <2>8. TriedInv(h, m.vvTried)
      <3> HIDE DEF f
      <3>1. \A k \in TriedBucket : \A i \in 1..Len(m.vvTried[k]) : m.vvTried[k][i] # v
        BY <1>3, <1>6 DEF TriedInv
      <3> QED
        BY <1>6, <2>4, <2>5, <3>1 DEF TriedInv
    <2>9. NewOf(h) = NewOf(f) \ {v} /\ TriedOf(h) = TriedOf(f)
      <3> HIDE DEF f
      <3> QED
        BY <1>3, <2>4, <2>5 DEF NewOf, TriedOf
    <2>10. m.nNew - 1 = Cardinality(NewOf(h)) /\ m.nNew - 1 \in Int
      <3>1. v \in NewOf(f) /\ IsFiniteSet(NewOf(f))
        BY <1>2, <1>3, FiniteParts DEF NewOf
      <3>2. Cardinality(NewOf(f) \ {v}) = Cardinality(NewOf(f)) - 1
        BY <3>1, FS_RemoveElement
      <3> QED
        BY <1>2, <1>10, <2>9, <3>2
    <2>11. /\ gone \in TablesType /\ gone.mapInfo = h /\ gone.vRandom = Front(last.vRandom)
           /\ gone.vvNew = nv /\ gone.vvTried = m.vvTried
           /\ gone.nNew = m.nNew - 1 /\ gone.nTried = m.nTried
      <3> DEFINE fr == Front(last.vRandom)
                 nn == last.nNew - 1
      <3>1. gone = [last EXCEPT !.vRandom = fr, !.mapInfo = h, !.nNew = nn]
        OBVIOUS
      <3>2. nn \in Int /\ nn = m.nNew - 1 /\ fr \in Seq(Addr)
        BY <1>2, <2>2, <2>4
      <3> HIDE DEF fr, nn, gone
      <3>3. /\ gone \in TablesType /\ gone.mapInfo = h /\ gone.vRandom = fr /\ gone.vvNew = last.vvNew
            /\ gone.vvTried = last.vvTried /\ gone.nNew = nn /\ gone.nTried = last.nTried
        BY <2>2, <2>4, <3>1, <3>2 DEF TablesType
      <3> QED
        BY <2>2, <3>2, <3>3 DEF fr
    <2> HIDE DEF gone
    <2>12. TablesInv(gone, owed)
      <3>1. m.nTried = Cardinality(TriedOf(h))
        BY <1>10, <2>9
      <3> DEFINE nn == m.nNew - 1
      <3>2. nn \in Int /\ nn = Cardinality(NewOf(h)) /\ gone.nNew = nn
        BY <2>10, <2>11
      <3> HIDE DEF nn, f
      <3> QED
        BY <1>2, <1>5, <1>7, <1>10, <2>4, <2>7, <2>8, <2>11, <3>1, <3>2, TablesIs
    <2>13. gone.vvNew[b] = m.vvNew[b] \ {v} /\ DOMAIN gone.mapInfo = DOMAIN f \ {v}
      BY <1>5, <2>4, <2>11
    <2> QED
      BY <1>3, <2>1, <2>12, <2>13 DEF r
  <1> QED
    BY <1>11, <1>12

\* The table with one more entry.
WithEntry(f, a, e) == [x \in DOMAIN f \cup {a} |-> IF x = a THEN e ELSE f[x]]

\* g and r are f and rnd with the new entry.
EntryAdded(f, rnd, a, e, g, r) ==
    /\ g \in Infos /\ DOMAIN g = DOMAIN f \cup {a}
    /\ g[a] = e /\ \A x \in DOMAIN f : x # a /\ g[x] = f[x]
    /\ r \in Seq(Addr) /\ RandomInv(g, r)
    /\ NewOf(g) = NewOf(f) \cup {a} /\ TriedOf(g) = TriedOf(f)
    /\ \A vvTried : TriedInv(f, vvTried) => TriedInv(g, vvTried)

\* Create puts a new entry at the end of vRandom.
LEMMA EntryChange ==
  ASSUME NEW f \in Infos, NEW a \in Addr, a \notin DOMAIN f, NEW e \in EntryType, ~e.fInTried,
         NEW rnd \in Seq(Addr), RandomInv(f, rnd), e.nRandomPos = Len(rnd) + 1
  PROVE  EntryAdded(f, rnd, a, e, WithEntry(f, a, e), Append(rnd, a))
  <1> DEFINE g == WithEntry(f, a, e)
             r == Append(rnd, a)
  <1>1. /\ DOMAIN g = DOMAIN f \cup {a} /\ g = [x \in DOMAIN g |-> g[x]]
        /\ g[a] = e /\ \A x \in DOMAIN f : x # a /\ g[x] = f[x]
    BY DEF WithEntry
  <1>2. /\ r \in Seq(Addr) /\ Len(r) = Len(rnd) + 1 /\ Len(rnd) \in Nat /\ r[Len(rnd) + 1] = a
        /\ \A i \in 1..Len(rnd) : r[i] = rnd[i]
    OBVIOUS
  <1> HIDE DEF g, r
  <1>3. g \in Infos
    <2>1. \A x \in DOMAIN g : g[x] \in EntryType
      BY <1>1, InfoFields
    <2> QED
      BY <1>1, <2>1, InfoFields, InfoIs
  <1>4. RandomInv(g, r)
    <2>1. \A x \in DOMAIN g : g[x].nRandomPos \in 1..Len(r) /\ r[g[x].nRandomPos] = x
      BY <1>1, <1>2 DEF RandomInv
    <2>2. \A i \in 1..Len(r) : r[i] \in DOMAIN g /\ g[r[i]].nRandomPos = i
      BY <1>1, <1>2 DEF RandomInv
    <2> QED
      BY <2>1, <2>2 DEF RandomInv
  <1>5. NewOf(g) = NewOf(f) \cup {a} /\ TriedOf(g) = TriedOf(f)
    BY <1>1 DEF NewOf, TriedOf
  <1>6. ASSUME NEW vvTried, TriedInv(f, vvTried)
        PROVE  TriedInv(g, vvTried)
    <2>1. \A k \in TriedBucket : \A i \in 1..Len(vvTried[k]) :
             /\ vvTried[k][i] \in DOMAIN g /\ g[vvTried[k][i]].fInTried
             /\ GetTriedBucket[vvTried[k][i]] = k
      BY <1>1, <1>6 DEF TriedInv
    <2>2. \A x \in DOMAIN g : g[x].fInTried => x \in DOMAIN f /\ g[x] = f[x]
      BY <1>1
    <2> QED
      BY <1>6, <2>1, <2>2 DEF TriedInv
  <1> QED
    BY <1>1, <1>2, <1>3, <1>4, <1>5, <1>6 DEF g, r, EntryAdded

\* The tables once Add_ has counted the reference to an address it knew: the
\* reference is owed.
LEMMA CountedKnown ==
  ASSUME NEW m, TablesInv(m, {}), NEW a \in DOMAIN m.mapInfo, ~m.mapInfo[a].fInTried,
         m.mapInfo[a].nRefCount # BucketsPerAddress
  PROVE  LET c == [m EXCEPT !.mapInfo[a].nRefCount = @ + 1] IN
         /\ TablesInv(c, {a}) /\ c.vvNew = m.vvNew /\ DOMAIN c.mapInfo = DOMAIN m.mapInfo
  <1> DEFINE f == m.mapInfo
             n == f[a].nRefCount + 1
             g == WithRefs(f, a, n)
             c == [m EXCEPT !.mapInfo[a].nRefCount = @ + 1]
  <1>1. c = [m EXCEPT !.mapInfo = g]
    BY DEF WithRefs
  <1> HIDE DEF c
  <1>2. /\ m \in TablesType /\ f \in Infos /\ m.vvNew \in [NewBucket -> SUBSET Addr]
        /\ m.vRandom \in Seq(Addr) /\ m.vvTried \in [TriedBucket -> Seq(Addr)]
        /\ m.nNew \in Int /\ m.nTried \in Int
    BY TableFields DEF TablesInv
  <1>3. /\ RandomInv(f, m.vRandom) /\ NewInv(f, m.vvNew, {}) /\ TriedInv(f, m.vvTried)
        /\ m.nNew = Cardinality(NewOf(f)) /\ m.nTried = Cardinality(TriedOf(f))
        /\ \A b \in NewBucket : Cardinality(m.vvNew[b]) <= NewBucketSize
        /\ \A k \in TriedBucket : Len(m.vvTried[k]) <= TriedBucketSize
    BY DEF TablesInv, CountInv, BoundInv
  <1>a. a \in DOMAIN f /\ ~f[a].fInTried /\ f[a].nRefCount # BucketsPerAddress
    OBVIOUS
  <1>4. f[a].nRefCount \in Nat /\ n \in Nat
    BY <1>2, InfoFields
  <1>5. f[a].nRefCount <= BucketsPerAddress /\ BucketsPerAddress \in Nat
    BY <1>3, AddrManConstants DEF NewInv
  <1> HIDE DEF f
  <1>6. n <= BucketsPerAddress
    BY <1>a, <1>4, <1>5
  <1>7. /\ g \in Infos /\ DOMAIN g = DOMAIN f /\ g[a].nRefCount = n
        /\ \A x \in DOMAIN f :
               /\ x # a => g[x].nRefCount = f[x].nRefCount
               /\ g[x].fInTried = f[x].fInTried
        /\ NewOf(g) = NewOf(f) /\ TriedOf(g) = TriedOf(f)
        /\ RandomInv(g, m.vRandom) /\ TriedInv(g, m.vvTried)
    <2> HIDE DEF n
    <2>1. RefsAre(f, a, n, g)
      BY <1>2, <1>a, <1>4, RefChange
    <2> HIDE DEF g
    <2> QED
      BY <1>3, <2>1 DEF RefsAre
  <1>8. NewInv(g, m.vvNew, {a})
    <2>1. \A b \in NewBucket : \A x \in m.vvNew[b] : x \in DOMAIN g /\ ~g[x].fInTried
      BY <1>3, <1>7 DEF NewInv
    <2>2. ASSUME NEW x \in DOMAIN g
          PROVE  /\ g[x].nRefCount = Cardinality(Holders(m.vvNew, x)) + (IF x \in {a} THEN 1 ELSE 0)
                 /\ g[x].nRefCount <= BucketsPerAddress
                 /\ ~g[x].fInTried => x \in {a} \/ Holders(m.vvNew, x) # {}
      <3>1. f[x].nRefCount = Cardinality(Holders(m.vvNew, x)) + 0 /\ f[x].nRefCount <= BucketsPerAddress
        BY <1>3, <1>7 DEF NewInv
      <3>2. Cardinality(Holders(m.vvNew, x)) \in Nat
        BY <1>2, FiniteParts, FS_CardinalityType
      <3>3. ~f[x].fInTried => Holders(m.vvNew, x) # {}
        BY <1>3, <1>7 DEF NewInv
      <3> QED
        BY <1>6, <1>7, <3>1, <3>2, <3>3
    <2> QED
      BY <1>a, <1>7, <2>1, <2>2 DEF NewInv
  <1>9. /\ c \in TablesType /\ c.mapInfo = g /\ c.vRandom = m.vRandom /\ c.vvNew = m.vvNew
        /\ c.vvTried = m.vvTried /\ c.nNew = m.nNew /\ c.nTried = m.nTried
    <2> HIDE DEF g
    <2> QED
      BY <1>1, <1>2, <1>7 DEF TablesType
  <1> HIDE DEF g
  <1>10. TablesInv(c, {a})
    BY <1>2, <1>3, <1>7, <1>8, <1>9, TablesIs
  <1> QED
    BY <1>7, <1>9, <1>10 DEF c, f

\* The same for an address that is new.
LEMMA CountedNew ==
  ASSUME NEW m, TablesInv(m, {}), NEW a \in Addr, a \notin DOMAIN m.mapInfo, NEW s \in Source
  PROVE  LET made == [Create(m, a, s) EXCEPT !.nNew = @ + 1]
             c    == [made EXCEPT !.mapInfo[a].nRefCount = @ + 1]
         IN /\ TablesInv(c, {a}) /\ c.vvNew = m.vvNew /\ made.vvNew = m.vvNew
            /\ DOMAIN c.mapInfo = DOMAIN m.mapInfo \cup {a}
  <1> DEFINE f == m.mapInfo
             e == [source |-> s, nLastSuccess |-> 0, nRefCount |-> 0, fInTried |-> FALSE,
                   nRandomPos |-> Len(m.vRandom) + 1]
             g == WithEntry(f, a, e)
             h == WithRefs(g, a, g[a].nRefCount + 1)
             r == Append(m.vRandom, a)
             made == [Create(m, a, s) EXCEPT !.nNew = @ + 1]
             c == [made EXCEPT !.mapInfo[a].nRefCount = @ + 1]
             nn == m.nNew + 1
  <1>2. /\ m \in TablesType /\ f \in Infos /\ m.vvNew \in [NewBucket -> SUBSET Addr]
        /\ m.vRandom \in Seq(Addr) /\ m.vvTried \in [TriedBucket -> Seq(Addr)]
        /\ m.nNew \in Int /\ m.nTried \in Int
    BY TableFields DEF TablesInv
  <1>3. /\ RandomInv(f, m.vRandom) /\ NewInv(f, m.vvNew, {}) /\ TriedInv(f, m.vvTried)
        /\ m.nNew = Cardinality(NewOf(f)) /\ m.nTried = Cardinality(TriedOf(f))
        /\ \A b \in NewBucket : Cardinality(m.vvNew[b]) <= NewBucketSize
        /\ \A k \in TriedBucket : Len(m.vvTried[k]) <= TriedBucketSize
    BY DEF TablesInv, CountInv, BoundInv
  <1>4. e \in EntryType /\ ~e.fInTried /\ e.nRefCount = 0 /\ e.nRandomPos = Len(m.vRandom) + 1
    BY <1>2 DEF EntryType
  <1>5. a \notin DOMAIN f
    OBVIOUS
  <1>b. made = [[m EXCEPT !.mapInfo = g, !.vRandom = r] EXCEPT !.nNew = @ + 1]
    BY DEF Create, WithEntry
  <1> HIDE DEF e, f, made
  <1>6. /\ g \in Infos /\ DOMAIN g = DOMAIN f \cup {a} /\ g[a] = e
        /\ \A x \in DOMAIN f : x # a /\ g[x] = f[x]
        /\ r \in Seq(Addr) /\ RandomInv(g, r)
        /\ NewOf(g) = NewOf(f) \cup {a} /\ TriedOf(g) = TriedOf(f) /\ TriedInv(g, m.vvTried)
    <2>1. EntryAdded(f, m.vRandom, a, e, g, r)
      BY <1>2, <1>3, <1>4, <1>5, EntryChange
    <2> HIDE DEF g, r
    <2> QED
      BY <1>3, <2>1 DEF EntryAdded
  <1> HIDE DEF g, r
  <1>c. /\ made \in TablesType /\ made.mapInfo = g /\ made.vRandom = r /\ made.vvNew = m.vvNew
        /\ made.vvTried = m.vvTried /\ made.nNew = nn /\ made.nTried = m.nTried
    <2> DEFINE m1 == [m EXCEPT !.mapInfo = g, !.vRandom = r]
    <2>1. /\ m1 \in TablesType /\ m1.mapInfo = g /\ m1.vRandom = r /\ m1.vvNew = m.vvNew
          /\ m1.vvTried = m.vvTried /\ m1.nNew = m.nNew /\ m1.nTried = m.nTried
      BY <1>2, <1>6 DEF TablesType
    <2>2. made = [m1 EXCEPT !.nNew = @ + 1]
      BY <1>b
    <2> HIDE DEF m1
    <2>3. made = [m1 EXCEPT !.nNew = nn] /\ nn \in Int
      BY <1>2, <2>1, <2>2
    <2> HIDE DEF nn
    <2> QED
      BY <2>1, <2>3 DEF TablesType
  <1>d. c = [made EXCEPT !.mapInfo = h]
    BY <1>c DEF WithRefs
  <1>7. /\ h \in Infos /\ DOMAIN h = DOMAIN g /\ h[a].nRefCount = 1
        /\ \A x \in DOMAIN g : /\ x # a => h[x].nRefCount = g[x].nRefCount
                               /\ h[x].fInTried = g[x].fInTried
        /\ NewOf(h) = NewOf(g) /\ TriedOf(h) = TriedOf(g)
        /\ RandomInv(h, r) /\ TriedInv(h, m.vvTried)
    <2> DEFINE n == g[a].nRefCount + 1
    <2>1. n \in Nat /\ n = 1 /\ a \in DOMAIN g
      BY <1>4, <1>6
    <2> HIDE DEF n
    <2>2. h = WithRefs(g, a, n)
      BY DEF n
    <2> HIDE DEF h
    <2>3. RefsAre(g, a, n, h)
      BY <1>6, <2>1, <2>2, RefChange
    <2> QED
      BY <1>6, <2>1, <2>3 DEF RefsAre
  <1> HIDE DEF h, c
  <1>8. /\ c \in TablesType /\ c.mapInfo = h /\ c.vRandom = r /\ c.vvNew = m.vvNew
        /\ c.vvTried = m.vvTried /\ c.nNew = nn /\ c.nTried = m.nTried
    <2>1. /\ c \in TablesType /\ c.mapInfo = h /\ c.vRandom = made.vRandom /\ c.vvNew = made.vvNew
          /\ c.vvTried = made.vvTried /\ c.nNew = made.nNew /\ c.nTried = made.nTried
      BY <1>c, <1>d, <1>7 DEF TablesType
    <2> QED
      BY <2>1, <1>c
  <1>9. NewInv(h, m.vvNew, {a})
    <2>1. \A b \in NewBucket : \A x \in m.vvNew[b] : x \in DOMAIN h /\ ~h[x].fInTried
      BY <1>3, <1>6, <1>7 DEF NewInv
    <2>2. Holders(m.vvNew, a) = {} /\ Cardinality(Holders(m.vvNew, a)) = 0
      <3>1. Holders(m.vvNew, a) = {}
        BY <1>3, <1>5 DEF NewInv, Holders
      <3> QED
        BY <3>1, FS_EmptySet
    <2>3. BucketsPerAddress \in Nat /\ 1 <= BucketsPerAddress
      BY AddrManConstants
    <2>4. ~h[a].fInTried /\ a \in DOMAIN h
      BY <1>4, <1>6, <1>7
    <2>5. ASSUME NEW x \in DOMAIN h, x # a
          PROVE  /\ h[x].nRefCount = Cardinality(Holders(m.vvNew, x)) + 0
                 /\ h[x].nRefCount <= BucketsPerAddress
                 /\ ~h[x].fInTried => Holders(m.vvNew, x) # {}
      <3>1. x \in DOMAIN f /\ h[x].nRefCount = f[x].nRefCount /\ h[x].fInTried = f[x].fInTried
        BY <2>5, <1>6, <1>7
      <3> QED
        BY <1>3, <3>1 DEF NewInv
    <2>6. ASSUME NEW x \in DOMAIN h
          PROVE  /\ h[x].nRefCount = Cardinality(Holders(m.vvNew, x)) + (IF x \in {a} THEN 1 ELSE 0)
                 /\ h[x].nRefCount <= BucketsPerAddress
                 /\ ~h[x].fInTried => x \in {a} \/ Holders(m.vvNew, x) # {}
      <3>1. CASE x = a
        <4>1. h[a].nRefCount = Cardinality(Holders(m.vvNew, a)) + 1 /\ h[a].nRefCount <= BucketsPerAddress
          BY <1>7, <2>2, <2>3
        <4> QED
          BY <3>1, <4>1
      <3>2. CASE x # a
        BY <2>5, <3>2
      <3> QED
        BY <3>1, <3>2
    <2> QED
      BY <2>1, <2>4, <2>6 DEF NewInv
  <1>10. nn \in Int /\ nn = Cardinality(NewOf(h)) /\ m.nTried = Cardinality(TriedOf(h))
    <2>1. IsFiniteSet(NewOf(f)) /\ a \notin NewOf(f)
      BY <1>2, <1>5, FiniteParts DEF NewOf
    <2>2. Cardinality(NewOf(f) \cup {a}) = Cardinality(NewOf(f)) + 1
      BY <2>1, FS_AddElement
    <2> QED
      BY <1>2, <1>3, <1>6, <1>7, <2>2
  <1> HIDE DEF nn
  <1>11. TablesInv(c, {a})
    BY <1>2, <1>3, <1>6, <1>7, <1>8, <1>9, <1>10, TablesIs
  <1>12. c.vvNew = m.vvNew /\ made.vvNew = m.vvNew /\ DOMAIN c.mapInfo = DOMAIN m.mapInfo \cup {a}
    BY <1>6, <1>7, <1>8, <1>c DEF f
  <1> QED
    BY <1>11, <1>12 DEF c, made

\* The owed reference is placed in a bucket with room.
LEMMA PlacingKeeps ==
  ASSUME NEW m, NEW a, TablesInv(m, {a}), NEW b \in NewBucket, a \notin m.vvNew[b],
         Cardinality(m.vvNew[b]) < NewBucketSize
  PROVE  LET p == [m EXCEPT !.vvNew[b] = @ \cup {a}] IN
         TablesInv(p, {}) /\ p.mapInfo = m.mapInfo
  <1> DEFINE f == m.mapInfo
             w == m.vvNew
             nv == PutIn(w, b, a)
             p == [m EXCEPT !.vvNew[b] = @ \cup {a}]
  <1>1. p = [m EXCEPT !.vvNew = nv]
    BY DEF PutIn
  <1> HIDE DEF p
  <1>2. /\ m \in TablesType /\ f \in Infos /\ w \in [NewBucket -> SUBSET Addr]
        /\ m.vRandom \in Seq(Addr) /\ m.vvTried \in [TriedBucket -> Seq(Addr)]
        /\ m.nNew \in Int /\ m.nTried \in Int
    BY TableFields DEF TablesInv
  <1>3. /\ RandomInv(f, m.vRandom) /\ NewInv(f, w, {a}) /\ TriedInv(f, m.vvTried)
        /\ m.nNew = Cardinality(NewOf(f)) /\ m.nTried = Cardinality(TriedOf(f))
        /\ \A c \in NewBucket : Cardinality(w[c]) <= NewBucketSize
        /\ \A k \in TriedBucket : Len(m.vvTried[k]) <= TriedBucketSize
    BY DEF TablesInv, CountInv, BoundInv
  <1>4. a \notin w[b] /\ Cardinality(w[b]) < NewBucketSize
    OBVIOUS
  <1> HIDE DEF f, w
  <1>5. a \in DOMAIN f /\ ~f[a].fInTried /\ a \in Addr
    <2>1. a \in DOMAIN f /\ ~f[a].fInTried
      BY <1>3 DEF NewInv
    <2> QED
      BY <1>2, <2>1, InfoFields
  <1>6. /\ nv \in [NewBucket -> SUBSET Addr] /\ nv[b] = w[b] \cup {a}
        /\ \A c \in NewBucket : c # b => nv[c] = w[c]
        /\ Holders(nv, a) = Holders(w, a) \cup {b}
        /\ \A x : x # a => Holders(nv, x) = Holders(w, x)
    BY <1>2, <1>5, PutChange
  <1> HIDE DEF nv
  <1>7. \A c \in NewBucket : Cardinality(nv[c]) <= NewBucketSize
    <2>1. IsFiniteSet(w[b]) /\ NewBucketSize \in Nat
      BY <1>2, FiniteParts, AddrManConstants
    <2>2. Cardinality(w[b] \cup {a}) = Cardinality(w[b]) + 1 /\ Cardinality(w[b]) \in Nat
      BY <1>4, <2>1, FS_AddElement, FS_CardinalityType
    <2>3. Cardinality(nv[b]) <= NewBucketSize
      BY <1>4, <1>6, <2>1, <2>2
    <2> QED
      BY <1>3, <1>6, <2>3
  <1>8. NewInv(f, nv, {})
    <2>1. \A c \in NewBucket : \A x \in nv[c] : x \in DOMAIN f /\ ~f[x].fInTried
      BY <1>3, <1>5, <1>6 DEF NewInv
    <2>2. f[a].nRefCount = Cardinality(Holders(nv, a)) + 0 /\ Holders(nv, a) # {}
      <3>1. f[a].nRefCount = Cardinality(Holders(w, a)) + 1
        BY <1>3, <1>5 DEF NewInv
      <3>2. IsFiniteSet(Holders(w, a)) /\ b \notin Holders(w, a)
        BY <1>2, <1>4, FiniteParts DEF Holders
      <3>3. Cardinality(Holders(w, a) \cup {b}) = Cardinality(Holders(w, a)) + 1
            /\ Cardinality(Holders(w, a)) \in Nat
        BY <3>2, FS_AddElement, FS_CardinalityType
      <3> QED
        BY <1>6, <3>1, <3>3
    <2>3. ASSUME NEW x \in DOMAIN f, x # a
          PROVE  /\ f[x].nRefCount = Cardinality(Holders(nv, x)) + 0
                 /\ ~f[x].fInTried => Holders(nv, x) # {}
      <3>1. Holders(nv, x) = Holders(w, x)
        BY <1>6, <2>3
      <3> QED
        BY <1>3, <2>3, <3>1 DEF NewInv
    <2>4. \A x \in DOMAIN f : f[x].nRefCount <= BucketsPerAddress
      BY <1>3 DEF NewInv
    <2> QED
      BY <2>1, <2>2, <2>3, <2>4 DEF NewInv
  <1>9. /\ p \in TablesType /\ p.mapInfo = m.mapInfo /\ p.vRandom = m.vRandom /\ p.vvNew = nv
        /\ p.vvTried = m.vvTried /\ p.nNew = m.nNew /\ p.nTried = m.nTried
    BY <1>1, <1>2, <1>6 DEF TablesType
  <1>10. p.mapInfo = f
    BY <1>9 DEF f
  <1>11. TablesInv(p, {})
    BY <1>2, <1>3, <1>6, <1>7, <1>8, <1>9, <1>10, TablesIs
  <1> QED
    BY <1>9, <1>11 DEF p

\* What a step must keep.
StepKeeps(m, n) ==
    /\ TablesInv(n, {})
    /\ \A a \in DOMAIN m.mapInfo : m.mapInfo[a].fInTried => a \in DOMAIN n.mapInfo

\* Add_ keeps the tables.
LEMMA AddKeepsTables ==
  ASSUME TablesInv(addrman, {}), NEW a \in Addr, NEW s \in Source, Add(a, s)
  PROVE  StepKeeps(addrman, addrman')
  <1> DEFINE m == addrman
             made == [Create(m, a, s) EXCEPT !.nNew = @ + 1]
             created == IF a \in DOMAIN m.mapInfo THEN m ELSE made
             b == GetNewBucket[a][s]
             counted == [created EXCEPT !.mapInfo[a].nRefCount = @ + 1]
  <1>1. /\ Updatable(a) /\ a \notin created.vvNew[b]
        /\ \E n \in IF Cardinality(counted.vvNew[b]) = NewBucketSize THEN ShrinkNew(counted, b)
                    ELSE {counted} :
              addrman' = [n EXCEPT !.vvNew[b] = @ \cup {a}]
    BY DEF Add
  <1>2. b \in NewBucket
    BY AddrManConstants
  <1>3. /\ TablesInv(counted, {a}) /\ counted.vvNew = m.vvNew /\ a \notin counted.vvNew[b]
        /\ DOMAIN m.mapInfo \subseteq DOMAIN counted.mapInfo
        /\ a \in DOMAIN m.mapInfo => ~m.mapInfo[a].fInTried
    <2>1. CASE a \in DOMAIN m.mapInfo
      <3>1. created = m /\ ~m.mapInfo[a].fInTried /\ m.mapInfo[a].nRefCount # BucketsPerAddress
        BY <1>1, <2>1 DEF Updatable
      <3>2. LET c == [m EXCEPT !.mapInfo[a].nRefCount = @ + 1] IN
            /\ TablesInv(c, {a}) /\ c.vvNew = m.vvNew /\ DOMAIN c.mapInfo = DOMAIN m.mapInfo
        BY <2>1, <3>1, CountedKnown
      <3> HIDE DEF m, created
      <3> QED
        BY <1>1, <3>1, <3>2
    <2>2. CASE a \notin DOMAIN m.mapInfo
      <3>1. created = made
        BY <2>2
      <3>2. LET c == [made EXCEPT !.mapInfo[a].nRefCount = @ + 1] IN
            /\ TablesInv(c, {a}) /\ c.vvNew = m.vvNew /\ made.vvNew = m.vvNew
            /\ DOMAIN c.mapInfo = DOMAIN m.mapInfo \cup {a}
        BY <2>2, CountedNew
      <3> HIDE DEF m, created, made
      <3> QED
        BY <1>1, <2>2, <3>1, <3>2
    <2> QED
      BY <2>1, <2>2
  <1> HIDE DEF counted, created, made, b
  <1>4. PICK n \in IF Cardinality(counted.vvNew[b]) = NewBucketSize THEN ShrinkNew(counted, b)
                   ELSE {counted} :
              addrman' = [n EXCEPT !.vvNew[b] = @ \cup {a}]
    BY <1>1
  <1>5. /\ TablesInv(n, {a}) /\ a \notin n.vvNew[b] /\ Cardinality(n.vvNew[b]) < NewBucketSize
        /\ \A x \in DOMAIN m.mapInfo : m.mapInfo[x].fInTried => x \in DOMAIN n.mapInfo
    <2>1. /\ IsFiniteSet(counted.vvNew[b]) /\ Cardinality(counted.vvNew[b]) <= NewBucketSize
          /\ NewBucketSize \in Nat /\ Cardinality(counted.vvNew[b]) \in Nat
      <3>1. counted.mapInfo \in Infos /\ counted.vvNew \in [NewBucket -> SUBSET Addr]
        BY <1>3, TableFields DEF TablesInv
      <3> QED
        <4>1. IsFiniteSet(counted.vvNew[b])
          BY <1>2, <3>1, FiniteParts
        <4>2. Cardinality(counted.vvNew[b]) \in Nat /\ NewBucketSize \in Nat
          BY <4>1, FS_CardinalityType, AddrManConstants
        <4>3. Cardinality(counted.vvNew[b]) <= NewBucketSize
          BY <1>2, <1>3 DEF TablesInv, BoundInv
        <4> QED
          BY <4>1, <4>2, <4>3
    <2>2. CASE Cardinality(counted.vvNew[b]) = NewBucketSize
      <3>1. PICK v \in counted.vvNew[b] : n = Release(counted, v, b)
        BY <1>4, <2>2 DEF ShrinkNew
      <3>2. v \notin {a}
        BY <1>3
      <3>3. /\ TablesInv(n, {a}) /\ n.vvNew[b] = counted.vvNew[b] \ {v}
            /\ ~counted.mapInfo[v].fInTried /\ DOMAIN counted.mapInfo \ {v} \subseteq DOMAIN n.mapInfo
        BY <1>2, <1>3, <3>1, <3>2, ReleaseKeeps
      <3>4. Cardinality(n.vvNew[b]) = NewBucketSize - 1
        <4>1. Cardinality(counted.vvNew[b] \ {v}) = Cardinality(counted.vvNew[b]) - 1
          BY <2>1, <3>1, FS_RemoveElement
        <4> QED
          BY <2>2, <3>3, <4>1
      <3>5. v \in DOMAIN m.mapInfo => ~m.mapInfo[v].fInTried
        <4>1. v \in m.vvNew[b]
          BY <1>3
        <4> QED
          BY <1>2, <4>1 DEF TablesInv, NewInv
      <3> QED
        BY <1>3, <2>1, <3>3, <3>4, <3>5
    <2>3. CASE Cardinality(counted.vvNew[b]) # NewBucketSize
      <3>1. n = counted
        BY <1>4, <2>3
      <3> QED
        BY <1>3, <2>1, <2>3, <3>1
    <2> QED
      BY <2>2, <2>3
  <1>6. TablesInv(addrman', {}) /\ addrman'.mapInfo = n.mapInfo
    <2>1. LET p == [n EXCEPT !.vvNew[b] = @ \cup {a}] IN TablesInv(p, {}) /\ p.mapInfo = n.mapInfo
      BY <1>2, <1>5, PlacingKeeps
    <2> QED
      BY <1>4, <2>1
  <1> QED
    BY <1>5, <1>6 DEF StepKeeps

-----------------------------------------------------------------------------
(* SelectTried.                                                             *)

\* s has the elements of t, in any order, each once.
Shuffled(s, t) ==
    /\ Len(s) = Len(t) /\ Once(s)
    /\ \A i \in 1..Len(t) : \E j \in 1..Len(t) : s[j] = t[i]
    /\ \A i \in 1..Len(t) : \E j \in 1..Len(t) : t[j] = s[i]

\* Two elements change places.
LEMMA SwapShuffled ==
  ASSUME NEW t \in Seq(Addr), NEW s \in Seq(Addr), Shuffled(s, t), NEW i \in 1..Len(t), NEW j \in 1..Len(t)
  PROVE  LET u == [s EXCEPT ![j] = s[i], ![i] = s[j]] IN u \in Seq(Addr) /\ Shuffled(u, t)
  <1> DEFINE u == [s EXCEPT ![j] = s[i], ![i] = s[j]]
             n == Len(t)
  <1>1. Len(s) = n /\ n \in Nat /\ \A p \in 1..n : s[p] \in Addr
    <2>1. Len(s) = n
      BY DEF Shuffled
    <2> QED
      BY <2>1
  <1>2. /\ u \in Seq(Addr) /\ Len(u) = n /\ u[i] = s[j] /\ u[j] = s[i]
        /\ \A p \in 1..n : p # i /\ p # j => u[p] = s[p]
    BY <1>1
  <1> HIDE DEF u
  <1>3. Once(u)
    <2>1. \A p, q \in 1..n : p # q => s[p] # s[q]
      BY <1>1 DEF Shuffled, Once
    <2> QED
      BY <1>2, <2>1 DEF Once
  <1>4. \A p \in 1..n : \E q \in 1..n : u[q] = s[p]
    <2> TAKE p \in 1..n
    <2>1. CASE p = i
      BY <1>2, <2>1
    <2>2. CASE p = j
      BY <1>2, <2>2
    <2>3. CASE p # i /\ p # j
      BY <1>2, <2>3
    <2> QED
      BY <2>1, <2>2, <2>3
  <1>5. \A p \in 1..n : \E q \in 1..n : s[q] = u[p]
    <2> TAKE p \in 1..n
    <2>1. CASE p = i
      BY <1>2, <2>1
    <2>2. CASE p = j
      BY <1>2, <2>2
    <2>3. CASE p # i /\ p # j
      BY <1>2, <2>3
    <2> QED
      BY <2>1, <2>2, <2>3
  <1>6. /\ \A p \in 1..n : \E q \in 1..n : s[q] = t[p]
        /\ \A p \in 1..n : \E q \in 1..n : t[q] = s[p]
    BY DEF Shuffled
  <1>7. \A p \in 1..n : \E q \in 1..n : u[q] = t[p]
    BY <1>4, <1>6
  <1>8. \A p \in 1..n : \E q \in 1..n : t[q] = u[p]
    BY <1>5, <1>6
  <1>9. Shuffled(u, t)
    BY <1>2, <1>3, <1>7, <1>8 DEF Shuffled
  <1> QED
    BY <1>2, <1>9 DEF u

\* SelectTried shuffles the bucket and points into it.
LEMMA SelectIs ==
  ASSUME NEW m \in TablesType, NEW k \in TriedBucket, Once(m.vvTried[k]), Len(m.vvTried[k]) # 0,
         NEW sel \in SelectTried(m, k)
  PROVE  /\ sel.vTried \in Seq(Addr) /\ Shuffled(sel.vTried, m.vvTried[k])
         /\ sel.nOldestPos \in 1..Len(m.vvTried[k])
  <1> DEFINE t == m.vvTried[k]
             size == Len(t)
             n == IF size < InspectOnEvict THEN size ELSE InspectOnEvict
             nLastSuccess(a) == m.mapInfo[a].nLastSuccess
             Step(nPos, i, was) ==
               LET nTemp == was.vTried[nPos[i]]
                   older == i = 1 \/ nLastSuccess(nTemp) < nLastSuccess(was.nOldest)
               IN [vTried     |-> [was.vTried EXCEPT ![nPos[i]] = was.vTried[i], ![i] = nTemp],
                   nOldest    |-> IF older THEN nTemp ELSE was.nOldest,
                   nOldestPos |-> IF older THEN nPos[i] ELSE was.nOldestPos]
             base == [vTried |-> t, nOldest |-> 0, nOldestPos |-> 0]
             Runs(nPos, g) == g = [i \in 0..n |-> IF i = 0 THEN base ELSE Step(nPos, i, g[i - 1])]
  <1>1. PICK nPos \in [1..n -> 1..size] : sel = (CHOOSE g : Runs(nPos, g))[n]
    BY DEF SelectTried
  <1>2. t \in Seq(Addr) /\ size \in Nat /\ size # 0
    BY TableFields
  <1>3. n \in Nat /\ n # 0 /\ n <= size
    BY <1>2, AddrManConstants
  <1>4. \A i \in 1..n : nPos[i] \in 1..size /\ i \in 1..size /\ i \in 0..n /\ i - 1 \in 0..n /\ i # 0
    BY <1>2, <1>3
  <1> DEFINE Olds == Addr \cup {0}
             P == [vTried : {s \in Seq(Addr) : Shuffled(s, t)}, nOldest : Olds, nOldestPos : 0..size]
  <1>5. base \in P
    <2>1. Shuffled(t, t)
      BY <1>2 DEF Shuffled
    <2> HIDE DEF t
    <2> QED
      BY <1>2, <2>1
  <1> HIDE DEF n, t, size, base
  <1>6. ASSUME NEW i \in 1..n, NEW was \in P
        PROVE  Step(nPos, i, was) \in P
    <2> DEFINE u == [was.vTried EXCEPT ![nPos[i]] = was.vTried[i], ![i] = was.vTried[nPos[i]]]
               o == IF i = 1 \/ nLastSuccess(was.vTried[nPos[i]]) < nLastSuccess(was.nOldest)
                    THEN was.vTried[nPos[i]] ELSE was.nOldest
               q == IF i = 1 \/ nLastSuccess(was.vTried[nPos[i]]) < nLastSuccess(was.nOldest)
                    THEN nPos[i] ELSE was.nOldestPos
               w == was.vTried
    <2>1. w \in Seq(Addr) /\ Shuffled(w, t) /\ was.nOldest \in Olds /\ was.nOldestPos \in 0..size
      OBVIOUS
    <2>2. i \in 1..Len(t) /\ nPos[i] \in 1..Len(t)
      BY <1>4 DEF size
    <2>3. u \in Seq(Addr) /\ Shuffled(u, t)
      <3> HIDE DEF w
      <3>1. LET x == [w EXCEPT ![nPos[i]] = w[i], ![i] = w[nPos[i]]] IN x \in Seq(Addr) /\ Shuffled(x, t)
        BY <1>2, <2>1, <2>2, SwapShuffled
      <3> QED
        BY <3>1 DEF w
    <2>4. o \in Olds
      <3>1. Len(w) = Len(t)
        BY <2>1 DEF Shuffled
      <3>2. w[nPos[i]] \in Addr
        <4> HIDE DEF w
        <4> QED
          BY <2>1, <2>2, <3>1
      <3> QED
        BY <2>1, <3>2
    <2>5. q \in 0..size
      <3>1. nPos[i] \in 0..size
        BY <1>2, <1>4
      <3> QED
        BY <2>1, <3>1
    <2>6. Step(nPos, i, was) = [vTried |-> u, nOldest |-> o, nOldestPos |-> q]
      OBVIOUS
    <2> HIDE DEF u, o, q, Step
    <2> QED
      BY <2>3, <2>4, <2>5, <2>6
  <1> DEFINE F == [p \in (1..n) \X P |-> Step(nPos, p[1], p[2])]
  <1>7. F \in [(1..n) \X P -> P]
    <2> HIDE DEF Step, P
    <2> QED
      BY <1>6
  <1>8. \E g : Runs(nPos, g)
    <2>1. PICK g \in [0..n -> P] : g[0] = base /\ \A i \in 1..n : g[i] = F[<<i, g[i - 1]>>]
      <3> HIDE DEF F, P
      <3>1. PICK g \in [0..n -> P] : LoopRun(g, n, F, base)
        BY <1>3, <1>5, <1>7, StepsExist
      <3> QED
        BY <3>1 DEF LoopRun
    <2> HIDE DEF P, Step
    <2>2. \A i \in 1..n : g[i] = Step(nPos, i, g[i - 1])
      BY <1>4, <2>1
    <2>3. g = [i \in 0..n |-> IF i = 0 THEN base ELSE Step(nPos, i, g[i - 1])]
      <3>1. \A i \in 0..n : i = 0 \/ i \in 1..n
        BY <1>3
      <3> QED
        BY <2>1, <2>2, <3>1
    <2> QED
      BY <2>3
  <1> DEFINE after == CHOOSE g : Runs(nPos, g)
  <1>9. Runs(nPos, after)
    <2> HIDE DEF Runs
    <2> QED
      BY <1>8, Zenon
  <1>10. sel = after[n]
    BY <1>1
  <1> HIDE DEF after
  <1>11. after[0] = base /\ \A i \in 1..n : after[i] = Step(nPos, i, after[i - 1])
    <2> HIDE DEF Step
    <2> QED
      BY <1>3, <1>4, <1>9
  <1> DEFINE S == {i \in 0..n : after[i] \in P /\ (i # 0 => after[i].nOldestPos \in 1..size)}
  <1>12. 0 \in S
    <2> HIDE DEF P
    <2> QED
      BY <1>3, <1>5, <1>11
  <1>13. ASSUME NEW i \in 1..n, i - 1 \in S
         PROVE  i \in S
    <2>1. after[i - 1] \in P /\ (i # 1 => after[i - 1].nOldestPos \in 1..size)
      BY <1>3, <1>13
    <2>2. after[i] = Step(nPos, i, after[i - 1])
      BY <1>11
    <2>3. after[i] \in P
      <3> HIDE DEF Step, P
      <3> QED
        BY <1>6, <2>1, <2>2
    <2>4. after[i].nOldestPos = nPos[i] \/ (i # 1 /\ after[i].nOldestPos = after[i - 1].nOldestPos)
      <3> DEFINE was == after[i - 1]
                 older == i = 1 \/ nLastSuccess(was.vTried[nPos[i]]) < nLastSuccess(was.nOldest)
      <3>1. Step(nPos, i, was).nOldestPos = IF older THEN nPos[i] ELSE was.nOldestPos
        OBVIOUS
      <3> HIDE DEF Step
      <3>2. after[i].nOldestPos = IF older THEN nPos[i] ELSE was.nOldestPos
        BY <2>2, <3>1
      <3>3. i = 1 => older
        OBVIOUS
      <3> HIDE DEF older
      <3> QED
        BY <3>2, <3>3
    <2> HIDE DEF P
    <2> QED
      BY <1>4, <2>1, <2>3, <2>4
  <1>14. n \in S
    <2> HIDE DEF S
    <2>1. \A i \in 0..n : i \in S
      BY <1>3, <1>12, <1>13, StepInduction
    <2> QED
      BY <1>3, <2>1
  <1>15. sel \in P /\ sel.nOldestPos \in 1..size
    BY <1>3, <1>10, <1>14
  <1> QED
    BY <1>15 DEF t, size

-----------------------------------------------------------------------------
(* Good_ and MakeTried.                                                     *)

\* h has the entries of f at the same places of vRandom.
SamePlaces(f, h) ==
    /\ h \in Infos /\ DOMAIN h = DOMAIN f
    /\ \A x \in DOMAIN f : h[x].nRandomPos = f[x].nRandomPos /\ h[x].nLastSuccess = f[x].nLastSuccess

\* vRandom leads to them as before.
LEMMA SamePlacesKeep ==
  ASSUME NEW f, NEW h, SamePlaces(f, h), NEW rnd, RandomInv(f, rnd)
  PROVE  RandomInv(h, rnd)
  BY DEF SamePlaces, RandomInv

\* Good_ notes the time.
LEMMA SeenKeeps ==
  ASSUME NEW m, TablesInv(m, {}), NEW a \in DOMAIN m.mapInfo, NEW t \in Times
  PROVE  LET s == [m EXCEPT !.mapInfo[a].nLastSuccess = t] IN
         /\ TablesInv(s, {}) /\ s.vvNew = m.vvNew /\ DOMAIN s.mapInfo = DOMAIN m.mapInfo
         /\ s.mapInfo[a].nLastSuccess # 0 /\ s.mapInfo[a].fInTried = m.mapInfo[a].fInTried
  <1> DEFINE f == m.mapInfo
             g == [f EXCEPT ![a].nLastSuccess = t]
             s == [m EXCEPT !.mapInfo[a].nLastSuccess = t]
  <1>1. s = [m EXCEPT !.mapInfo = g]
    OBVIOUS
  <1> HIDE DEF s
  <1>2. /\ m \in TablesType /\ f \in Infos /\ m.vvNew \in [NewBucket -> SUBSET Addr]
        /\ m.vRandom \in Seq(Addr) /\ m.vvTried \in [TriedBucket -> Seq(Addr)]
        /\ m.nNew \in Int /\ m.nTried \in Int
    BY TableFields DEF TablesInv
  <1>3. /\ RandomInv(f, m.vRandom) /\ NewInv(f, m.vvNew, {}) /\ TriedInv(f, m.vvTried)
        /\ m.nNew = Cardinality(NewOf(f)) /\ m.nTried = Cardinality(TriedOf(f))
        /\ \A b \in NewBucket : Cardinality(m.vvNew[b]) <= NewBucketSize
        /\ \A k \in TriedBucket : Len(m.vvTried[k]) <= TriedBucketSize
    BY DEF TablesInv, CountInv, BoundInv
  <1>4. a \in DOMAIN f /\ t # 0
    BY AddrManConstants
  <1> HIDE DEF f
  <1>5. /\ DOMAIN g = DOMAIN f /\ g = [x \in DOMAIN f |-> g[x]]
        /\ g[a] = [f[a] EXCEPT !.nLastSuccess = t] /\ \A x \in DOMAIN f : x # a => g[x] = f[x]
    <2>1. f[a] \in EntryType
      BY <1>2, <1>4, InfoFields
    <2>2. g = [f EXCEPT ![a] = [f[a] EXCEPT !.nLastSuccess = t]] /\ f = [x \in DOMAIN f |-> f[x]]
      BY <1>2, InfoFields
    <2> QED
      BY <1>4, <2>2
  <1> HIDE DEF g
  <1>6. ASSUME NEW x \in DOMAIN f
        PROVE  /\ g[x] \in EntryType /\ g[x].nRefCount = f[x].nRefCount
               /\ g[x].fInTried = f[x].fInTried /\ g[x].nRandomPos = f[x].nRandomPos
               /\ (f[x].nLastSuccess # 0 => g[x].nLastSuccess # 0) /\ (x = a => g[x].nLastSuccess # 0)
    <2>1. f[x] \in EntryType
      BY <1>2, InfoFields
    <2>2. CASE x = a
      BY <1>4, <1>5, <2>1, <2>2 DEF EntryType
    <2>3. CASE x # a
      BY <1>5, <2>1, <2>3
    <2> QED
      BY <2>2, <2>3
  <1>7. g \in Infos
    BY <1>2, <1>5, <1>6, InfoFields, InfoIs
  <1>8. RandomInv(g, m.vRandom)
    BY <1>3, <1>5, <1>6 DEF RandomInv
  <1>9. NewInv(g, m.vvNew, {})
    BY <1>3, <1>5, <1>6 DEF NewInv
  <1>10. TriedInv(g, m.vvTried)
    BY <1>3, <1>5, <1>6 DEF TriedInv
  <1>11. NewOf(g) = NewOf(f) /\ TriedOf(g) = TriedOf(f)
    BY <1>5, <1>6 DEF NewOf, TriedOf
  <1>12. /\ s \in TablesType /\ s.mapInfo = g /\ s.vRandom = m.vRandom /\ s.vvNew = m.vvNew
         /\ s.vvTried = m.vvTried /\ s.nNew = m.nNew /\ s.nTried = m.nTried
    BY <1>1, <1>2, <1>7 DEF TablesType
  <1>13. TablesInv(s, {})
    BY <1>2, <1>3, <1>7, <1>8, <1>9, <1>10, <1>11, <1>12, TablesIs
  <1>14. /\ s.vvNew = m.vvNew /\ DOMAIN s.mapInfo = DOMAIN f
         /\ s.mapInfo[a].nLastSuccess # 0 /\ s.mapInfo[a].fInTried = f[a].fInTried
    BY <1>4, <1>5, <1>6, <1>12
  <1> QED
    BY <1>13, <1>14 DEF s, f

\* The tables while an address moves: it is in no bucket.
LeftNew(m, a, out) ==
    /\ out \in TablesType /\ out.vRandom = m.vRandom /\ out.vvTried = m.vvTried
    /\ out.nNew = m.nNew - 1 /\ out.nTried = m.nTried
    /\ RefsAre(m.mapInfo, a, 0, out.mapInfo)
    /\ Holders(out.vvNew, a) = {}
    /\ \A x : x # a => Holders(out.vvNew, x) = Holders(m.vvNew, x)
    /\ \A b \in NewBucket : out.vvNew[b] = m.vvNew[b] \ {a}

\* MakeTried takes the address out of its new buckets, and no reference is
\* left: what it asserts.
LEMMA LeaveIs ==
  ASSUME NEW m, TablesInv(m, {}), NEW a \in DOMAIN m.mapInfo
  PROVE  LeftNew(m, a, LeaveNew(m, a))
  <1> DEFINE f == m.mapInfo
             w == m.vvNew
             v == [b \in NewBucket |-> w[b] \ {a}]
             out == LeaveNew(m, a)
             g == WithRefs(f, a, f[a].nRefCount - Cardinality(BucketsOf(m, a)))
             nn == m.nNew - 1
  <1>1. out = [m EXCEPT !.vvNew = v, !.mapInfo = g, !.nNew = nn]
    BY DEF LeaveNew, WithRefs
  <1> HIDE DEF out
  <1>2. m \in TablesType /\ f \in Infos /\ w \in [NewBucket -> SUBSET Addr] /\ nn \in Int
    BY TableFields DEF TablesInv
  <1>3. f[a].nRefCount - Cardinality(BucketsOf(m, a)) = 0
    <2>1. f[a].nRefCount = Cardinality(Holders(w, a)) + 0
      BY DEF TablesInv, NewInv
    <2>2. BucketsOf(m, a) = Holders(w, a)
      BY DEF BucketsOf, Holders
    <2>3. Cardinality(Holders(w, a)) \in Nat
      BY <1>2, FiniteParts, FS_CardinalityType
    <2> QED
      BY <2>1, <2>2, <2>3
  <1>4. RefsAre(f, a, 0, g)
    <2>1. g = WithRefs(f, a, 0)
      BY <1>3
    <2> HIDE DEF f, g
    <2>2. a \in DOMAIN f
      BY DEF f
    <2> QED
      BY <1>2, <2>1, <2>2, RefChange
  <1>5. v \in [NewBucket -> SUBSET Addr] /\ \A b \in NewBucket : v[b] = w[b] \ {a}
    BY <1>2
  <1>6. g \in Infos
    BY <1>4 DEF RefsAre
  <1> HIDE DEF g, v, nn
  <1>7. /\ out \in TablesType /\ out.mapInfo = g /\ out.vRandom = m.vRandom /\ out.vvNew = v
        /\ out.vvTried = m.vvTried /\ out.nNew = nn /\ out.nTried = m.nTried
    BY <1>1, <1>2, <1>5, <1>6 DEF TablesType
  <1>8. Holders(v, a) = {} /\ \A x : x # a => Holders(v, x) = Holders(w, x)
    <2> HIDE DEF w
    <2> QED
      BY <1>5 DEF Holders
  <1> QED
    BY <1>4, <1>5, <1>7, <1>8 DEF out, nn, LeftNew

\* The tables with an address that is in no bucket, and bucket o with room.
Moving(out, a, o) ==
    /\ out \in TablesType
    /\ RandomInv(out.mapInfo, out.vRandom) /\ TriedInv(out.mapInfo, out.vvTried)
    /\ a \in DOMAIN out.mapInfo /\ ~out.mapInfo[a].fInTried
    /\ out.mapInfo[a].nLastSuccess # 0 /\ out.mapInfo[a].nRefCount = 0
    /\ Holders(out.vvNew, a) = {}
    /\ \A b \in NewBucket : \A x \in out.vvNew[b] : x \in DOMAIN out.mapInfo /\ ~out.mapInfo[x].fInTried
    /\ \A x \in DOMAIN out.mapInfo :
          /\ out.mapInfo[x].nRefCount = Cardinality(Holders(out.vvNew, x))
          /\ out.mapInfo[x].nRefCount <= BucketsPerAddress
          /\ ~out.mapInfo[x].fInTried /\ x # a => Holders(out.vvNew, x) # {}
    /\ out.nNew = Cardinality(NewOf(out.mapInfo)) - 1 /\ out.nTried = Cardinality(TriedOf(out.mapInfo))
    /\ BoundInv(out)
    /\ o \in NewBucket /\ Cardinality(out.vvNew[o]) < NewBucketSize

\* LeaveNew leads there: the bucket it came from has room.
LEMMA LeaveMoves ==
  ASSUME NEW m, TablesInv(m, {}), NEW a \in DOMAIN m.mapInfo, ~m.mapInfo[a].fInTried,
         m.mapInfo[a].nLastSuccess # 0, NEW o \in BucketsOf(m, a)
  PROVE  Moving(LeaveNew(m, a), a, o) /\ DOMAIN LeaveNew(m, a).mapInfo = DOMAIN m.mapInfo
  <1> DEFINE f == m.mapInfo
             w == m.vvNew
             out == LeaveNew(m, a)
             g == out.mapInfo
             v == out.vvNew
  <1>1. LeftNew(m, a, out)
    BY LeaveIs
  <1> HIDE DEF out
  <1>2. /\ out \in TablesType /\ out.vRandom = m.vRandom /\ out.vvTried = m.vvTried
        /\ out.nNew = m.nNew - 1 /\ out.nTried = m.nTried
        /\ Holders(v, a) = {} /\ \A x : x # a => Holders(v, x) = Holders(w, x)
        /\ \A b \in NewBucket : v[b] = w[b] \ {a}
    BY <1>1 DEF LeftNew
  <1>3. RefsAre(f, a, 0, g)
    BY <1>1 DEF LeftNew
  <1>4. /\ RandomInv(f, m.vRandom) /\ NewInv(f, w, {}) /\ TriedInv(f, m.vvTried)
        /\ m.nNew = Cardinality(NewOf(f)) /\ m.nTried = Cardinality(TriedOf(f))
        /\ \A b \in NewBucket : Cardinality(w[b]) <= NewBucketSize
        /\ \A k \in TriedBucket : Len(m.vvTried[k]) <= TriedBucketSize
    BY DEF TablesInv, CountInv, BoundInv
  <1>a. /\ a \in DOMAIN f /\ ~f[a].fInTried /\ f[a].nLastSuccess # 0 /\ o \in NewBucket /\ a \in w[o]
        /\ f \in Infos /\ w \in [NewBucket -> SUBSET Addr]
    BY TableFields DEF BucketsOf, TablesInv
  <1> HIDE DEF f, w, g, v
  <1>5. /\ g \in Infos /\ DOMAIN g = DOMAIN f /\ g[a].nRefCount = 0
        /\ \A x \in DOMAIN f :
               /\ x # a => g[x].nRefCount = f[x].nRefCount
               /\ g[x].fInTried = f[x].fInTried /\ g[x].nLastSuccess = f[x].nLastSuccess
        /\ NewOf(g) = NewOf(f) /\ TriedOf(g) = TriedOf(f)
        /\ RandomInv(g, m.vRandom) /\ TriedInv(g, m.vvTried)
    BY <1>3, <1>4 DEF RefsAre
  <1>6. a \in DOMAIN g /\ ~g[a].fInTried /\ g[a].nLastSuccess # 0 /\ g[a].nRefCount = 0
    BY <1>a, <1>5
  <1>7. \A b \in NewBucket : \A x \in v[b] : x \in DOMAIN g /\ ~g[x].fInTried
    BY <1>2, <1>4, <1>5 DEF NewInv
  <1>8. ASSUME NEW x \in DOMAIN g
        PROVE  /\ g[x].nRefCount = Cardinality(Holders(v, x)) /\ g[x].nRefCount <= BucketsPerAddress
               /\ ~g[x].fInTried /\ x # a => Holders(v, x) # {}
    <2>1. CASE x = a
      <3>1. BucketsPerAddress \in Nat
        BY AddrManConstants
      <3>2. g[a].nRefCount = 0 /\ Cardinality(Holders(v, a)) = 0 /\ 0 <= BucketsPerAddress
        BY <1>2, <1>5, <3>1, FS_EmptySet
      <3> QED
        BY <2>1, <3>2
    <2>2. CASE x # a
      <3>1. f[x].nRefCount = Cardinality(Holders(w, x)) + 0 /\ f[x].nRefCount <= BucketsPerAddress
        BY <1>4, <1>5 DEF NewInv
      <3>2. Cardinality(Holders(w, x)) \in Nat
        BY <1>a, FiniteParts, FS_CardinalityType
      <3>3. ~f[x].fInTried => Holders(w, x) # {}
        BY <1>4, <1>5 DEF NewInv
      <3>4. Holders(v, x) = Holders(w, x) /\ g[x].nRefCount = f[x].nRefCount /\ g[x].fInTried = f[x].fInTried
        BY <1>2, <1>5, <2>2
      <3> QED
        BY <3>1, <3>2, <3>3, <3>4
    <2> QED
      BY <2>1, <2>2
  <1>9. /\ \A b \in NewBucket : Cardinality(v[b]) <= NewBucketSize
        /\ Cardinality(v[o]) < NewBucketSize
    <2>1. \A b \in NewBucket : IsFiniteSet(w[b]) /\ Cardinality(w[b]) \in Nat
      BY <1>a, FiniteParts, FS_CardinalityType
    <2>2. NewBucketSize \in Nat
      BY AddrManConstants
    <2>3. ASSUME NEW b \in NewBucket
          PROVE  Cardinality(v[b]) <= NewBucketSize /\ (a \in w[b] => Cardinality(v[b]) < NewBucketSize)
      <3>1. Cardinality(w[b] \ {a}) = IF a \in w[b] THEN Cardinality(w[b]) - 1 ELSE Cardinality(w[b])
        BY <2>1, FS_RemoveElement
      <3>2. v[b] = w[b] \ {a} /\ Cardinality(w[b]) <= NewBucketSize /\ Cardinality(w[b]) \in Nat
        BY <1>2, <1>4, <2>1
      <3> QED
        BY <2>2, <3>1, <3>2
    <2> QED
      BY <1>a, <2>3
  <1>10. BoundInv(out)
    BY <1>2, <1>4, <1>9 DEF BoundInv, v
  <1>11. /\ RandomInv(g, out.vRandom) /\ TriedInv(g, out.vvTried)
         /\ out.nNew = Cardinality(NewOf(g)) - 1 /\ out.nTried = Cardinality(TriedOf(g))
    BY <1>2, <1>4, <1>5
  <1>12. Moving(out, a, o)
    BY <1>2, <1>a, <1>6, <1>7, <1>8, <1>9, <1>10, <1>11 DEF Moving, g, v
  <1> QED
    BY <1>5, <1>12 DEF out, f, g

\* The address goes to the end of its tried bucket.
LEMMA RoomKeeps ==
  ASSUME NEW out, NEW a, NEW o, Moving(out, a, o),
         Len(out.vvTried[GetTriedBucket[a]]) < TriedBucketSize
  PROVE  LET r == [out EXCEPT !.vvTried[GetTriedBucket[a]] = Append(@, a), !.nTried = @ + 1,
                              !.mapInfo[a].fInTried = TRUE]
         IN TablesInv(r, {}) /\ DOMAIN r.mapInfo = DOMAIN out.mapInfo
  <1> DEFINE k == GetTriedBucket[a]
             g == out.mapInfo
             v == out.vvNew
             vt == out.vvTried
             t == vt[k]
             h == [g EXCEPT ![a].fInTried = TRUE]
             q == Append(t, a)
             vt2 == [vt EXCEPT ![k] = q]
             nn == out.nTried + 1
             r == [out EXCEPT !.vvTried[k] = Append(@, a), !.nTried = @ + 1, !.mapInfo[a].fInTried = TRUE]
  <1>1. r = [out EXCEPT !.vvTried = vt2, !.nTried = nn, !.mapInfo = h]
    OBVIOUS
  <1> HIDE DEF r
  <1>2. /\ out \in TablesType /\ g \in Infos /\ v \in [NewBucket -> SUBSET Addr]
        /\ out.vRandom \in Seq(Addr) /\ vt \in [TriedBucket -> Seq(Addr)]
        /\ out.nNew \in Int /\ out.nTried \in Int
    BY TableFields DEF Moving
  <1>3. /\ RandomInv(g, out.vRandom) /\ TriedInv(g, vt)
        /\ a \in DOMAIN g /\ ~g[a].fInTried /\ g[a].nLastSuccess # 0 /\ g[a].nRefCount = 0
        /\ Holders(v, a) = {}
        /\ \A b \in NewBucket : \A x \in v[b] : x \in DOMAIN g /\ ~g[x].fInTried
        /\ \A x \in DOMAIN g :
              /\ g[x].nRefCount = Cardinality(Holders(v, x)) /\ g[x].nRefCount <= BucketsPerAddress
              /\ ~g[x].fInTried /\ x # a => Holders(v, x) # {}
        /\ out.nNew = Cardinality(NewOf(g)) - 1 /\ out.nTried = Cardinality(TriedOf(g))
        /\ \A b \in NewBucket : Cardinality(v[b]) <= NewBucketSize
        /\ \A j \in TriedBucket : Len(vt[j]) <= TriedBucketSize
    BY DEF Moving, BoundInv
  <1>4. Len(t) < TriedBucketSize /\ TriedBucketSize \in Nat
    BY AddrManConstants
  <1> HIDE DEF g, v, vt
  <1>5. a \in Addr /\ k \in TriedBucket /\ t \in Seq(Addr) /\ Len(t) \in Nat
    <2>1. a \in Addr
      BY <1>2, <1>3, InfoFields
    <2>2. k \in TriedBucket
      BY <2>1, AddrManConstants
    <2> HIDE DEF k
    <2> QED
      BY <1>2, <2>1, <2>2
  <1>6. /\ DOMAIN h = DOMAIN g /\ h = [x \in DOMAIN g |-> h[x]]
        /\ h[a] = [g[a] EXCEPT !.fInTried = TRUE] /\ \A x \in DOMAIN g : x # a => h[x] = g[x]
    BY <1>2, <1>3, InfoFields
  <1> HIDE DEF h
  <1>7. /\ h[a] \in EntryType /\ h[a].fInTried /\ h[a].nRefCount = 0
        /\ h[a].nRandomPos = g[a].nRandomPos /\ h[a].nLastSuccess = g[a].nLastSuccess
    <2>1. g[a] \in EntryType
      BY <1>2, <1>3, InfoFields
    <2> QED
      BY <1>3, <1>6, <2>1 DEF EntryType
  <1>8. h \in Infos
    <2>1. DOMAIN g \subseteq Addr /\ \A x \in DOMAIN g : h[x] \in EntryType
      BY <1>2, <1>6, <1>7, InfoFields
    <2> QED
      BY <1>6, <2>1, InfoIs
  <1>9. SamePlaces(g, h) /\ RandomInv(h, out.vRandom)
    <2>1. SamePlaces(g, h)
      BY <1>6, <1>7, <1>8 DEF SamePlaces
    <2> QED
      BY <1>3, <2>1, SamePlacesKeep
  <1>10. NewInv(h, v, {})
    <2>1. \A b \in NewBucket : \A x \in v[b] : x \in DOMAIN h /\ ~h[x].fInTried
      <3>1. \A b \in NewBucket : a \notin v[b]
        BY <1>3 DEF Holders
      <3> QED
        BY <1>3, <1>6, <3>1
    <2>2. ASSUME NEW x \in DOMAIN h
          PROVE  /\ h[x].nRefCount = Cardinality(Holders(v, x)) + 0 /\ h[x].nRefCount <= BucketsPerAddress
                 /\ ~h[x].fInTried => Holders(v, x) # {}
      <3>1. h[x].nRefCount = g[x].nRefCount /\ (~h[x].fInTried => x # a /\ ~g[x].fInTried)
        BY <1>3, <1>6, <1>7
      <3>2. Cardinality(Holders(v, x)) \in Nat
        BY <1>2, FiniteParts, FS_CardinalityType
      <3> QED
        BY <1>3, <1>6, <3>1, <3>2
    <2> QED
      BY <2>1, <2>2 DEF NewInv
  <1>11. q \in Seq(Addr) /\ Len(q) = Len(t) + 1 /\ q[Len(t) + 1] = a /\ \A i \in 1..Len(t) : q[i] = t[i]
    <2> HIDE DEF t
    <2> QED
      BY <1>5
  <1> HIDE DEF q, k
  <1>12. /\ vt2 \in [TriedBucket -> Seq(Addr)] /\ vt2[k] = q
         /\ \A j \in TriedBucket : j # k => vt2[j] = vt[j]
    BY <1>2, <1>5, <1>11
  <1> HIDE DEF vt2
  <1>13. TriedInv(h, vt2)
    <2>1. /\ \A j \in TriedBucket : \A i \in 1..Len(vt[j]) :
                vt[j][i] \in DOMAIN g /\ g[vt[j][i]].fInTried /\ GetTriedBucket[vt[j][i]] = j
          /\ \A j \in TriedBucket : Once(vt[j])
          /\ \A x \in DOMAIN g : g[x].fInTried =>
                /\ g[x].nLastSuccess # 0
                /\ \E i \in 1..Len(vt[GetTriedBucket[x]]) : vt[GetTriedBucket[x]][i] = x
      BY <1>3 DEF TriedInv
    <2>2. \A j \in TriedBucket : \A i \in 1..Len(vt[j]) :
             vt[j][i] # a /\ vt[j][i] \in DOMAIN h /\ h[vt[j][i]].fInTried /\ GetTriedBucket[vt[j][i]] = j
      BY <1>3, <1>6, <2>1
    <2>3. \A i \in 1..Len(q) : i = Len(t) + 1 \/ i \in 1..Len(t)
      BY <1>5, <1>11
    <2>4. ASSUME NEW j \in TriedBucket, NEW i \in 1..Len(vt2[j])
          PROVE  vt2[j][i] \in DOMAIN h /\ h[vt2[j][i]].fInTried /\ GetTriedBucket[vt2[j][i]] = j
      <3>1. CASE j # k
        BY <1>12, <2>2, <3>1
      <3>2. CASE j = k
        <4>1. vt2[j] = q
          BY <1>12, <3>2
        <4>2. CASE i = Len(t) + 1
          BY <1>3, <1>6, <1>7, <1>11, <3>2, <4>1, <4>2 DEF k
        <4>3. CASE i \in 1..Len(t)
          BY <1>5, <1>11, <2>2, <3>2, <4>1, <4>3
        <4> QED
          BY <2>3, <4>1, <4>2, <4>3
      <3> QED
        BY <3>1, <3>2
    <2>5. Once(q)
      <3>1. Once(t) /\ \A i \in 1..Len(t) : t[i] # a
        BY <1>5, <2>1, <2>2
      <3> HIDE DEF t
      <3> QED
        BY <1>11, <2>3, <3>1 DEF Once
    <2>6. \A j \in TriedBucket : Once(vt2[j])
      BY <1>12, <2>1, <2>5
    <2>7. ASSUME NEW x \in DOMAIN h, h[x].fInTried
          PROVE  /\ h[x].nLastSuccess # 0
                 /\ \E i \in 1..Len(vt2[GetTriedBucket[x]]) : vt2[GetTriedBucket[x]][i] = x
      <3>1. CASE x = a
        <4>1. GetTriedBucket[x] = k /\ Len(t) + 1 \in 1..Len(q)
          BY <1>5, <1>11, <3>1 DEF k
        <4> QED
          BY <1>3, <1>7, <1>11, <1>12, <3>1, <4>1
      <3>2. CASE x # a
        <4>1. x \in DOMAIN g /\ g[x].fInTried /\ h[x] = g[x] /\ GetTriedBucket[x] \in TriedBucket
          BY <1>2, <1>6, <2>7, <3>2, InfoFields, AddrManConstants
        <4>2. PICK i \in 1..Len(vt[GetTriedBucket[x]]) : vt[GetTriedBucket[x]][i] = x
          BY <2>1, <4>1
        <4>3. CASE GetTriedBucket[x] = k
          <5>1. i \in 1..Len(q) /\ q[i] = x
            BY <1>5, <1>11, <4>2, <4>3
          <5> QED
            BY <1>12, <2>1, <4>1, <4>3, <5>1
        <4>4. CASE GetTriedBucket[x] # k
          BY <1>12, <2>1, <4>1, <4>2, <4>4
        <4> QED
          BY <4>3, <4>4
      <3> QED
        BY <3>1, <3>2
    <2> QED
      BY <2>4, <2>6, <2>7 DEF TriedInv
  <1>14. NewOf(h) = NewOf(g) \ {a} /\ TriedOf(h) = TriedOf(g) \cup {a}
    BY <1>3, <1>6, <1>7 DEF NewOf, TriedOf
  <1>15. out.nNew = Cardinality(NewOf(h)) /\ nn = Cardinality(TriedOf(h)) /\ nn \in Int
    <2>1. IsFiniteSet(NewOf(g)) /\ IsFiniteSet(TriedOf(g)) /\ a \in NewOf(g) /\ a \notin TriedOf(g)
      BY <1>2, <1>3, FiniteParts DEF NewOf, TriedOf
    <2>2. Cardinality(NewOf(g) \ {a}) = Cardinality(NewOf(g)) - 1
      BY <2>1, FS_RemoveElement
    <2>3. Cardinality(TriedOf(g) \cup {a}) = Cardinality(TriedOf(g)) + 1
      BY <2>1, FS_AddElement
    <2> QED
      BY <1>2, <1>3, <1>14, <2>2, <2>3
  <1>16. \A j \in TriedBucket : Len(vt2[j]) <= TriedBucketSize
    <2>1. Len(q) <= TriedBucketSize
      BY <1>4, <1>5, <1>11
    <2> QED
      BY <1>3, <1>12, <2>1
  <1> HIDE DEF nn
  <1>17. /\ r \in TablesType /\ r.mapInfo = h /\ r.vRandom = out.vRandom /\ r.vvNew = v
         /\ r.vvTried = vt2 /\ r.nNew = out.nNew /\ r.nTried = nn
    BY <1>1, <1>2, <1>8, <1>12, <1>15 DEF TablesType, v
  <1>18. TablesInv(r, {})
    <2>1. CountInv(r) /\ BoundInv(r)
      BY <1>3, <1>15, <1>16, <1>17 DEF CountInv, BoundInv
    <2> QED
      BY <1>9, <1>10, <1>13, <1>17, <2>1 DEF TablesInv
  <1> QED
    BY <1>6, <1>17, <1>18 DEF r, k, g

\* The address takes the place of an entry of its tried bucket, which goes
\* back to a new bucket with room.
LEMMA EvictKeeps ==
  ASSUME NEW out, NEW a, NEW o, Moving(out, a, o),
         ~(Len(out.vvTried[GetTriedBucket[a]]) < TriedBucketSize),
         NEW sel \in SelectTried(out, GetTriedBucket[a])
  PROVE  LET r == Evict(out, a, GetTriedBucket[a], sel, o) IN
         TablesInv(r, {}) /\ DOMAIN r.mapInfo = DOMAIN out.mapInfo
  <1> DEFINE k == GetTriedBucket[a]
             g == out.mapInfo
             v == out.vvNew
             vt == out.vvTried
             t == vt[k]
             u == sel.vTried
             pos == sel.nOldestPos
             old == u[pos]
             nU == GetNewBucket[old][g[old].source]
             to == IF Cardinality(v[nU]) < NewBucketSize THEN nU ELSE o
             h == [g EXCEPT ![old].fInTried = FALSE, ![old].nRefCount = 1, ![a].fInTried = TRUE]
             q == [u EXCEPT ![pos] = a]
             vt2 == [vt EXCEPT ![k] = q]
             nv == PutIn(v, to, old)
             nn == out.nNew + 1
             r == Evict(out, a, k, sel, o)
  <1>1. r = [out EXCEPT !.vvTried = vt2, !.vvNew = nv, !.mapInfo = h, !.nNew = nn]
    BY DEF Evict, PutIn
  <1> HIDE DEF r
  <1>2. /\ out \in TablesType /\ g \in Infos /\ v \in [NewBucket -> SUBSET Addr]
        /\ out.vRandom \in Seq(Addr) /\ vt \in [TriedBucket -> Seq(Addr)]
        /\ out.nNew \in Int /\ out.nTried \in Int
    BY TableFields DEF Moving
  <1>3. /\ RandomInv(g, out.vRandom) /\ TriedInv(g, vt)
        /\ a \in DOMAIN g /\ ~g[a].fInTried /\ g[a].nLastSuccess # 0 /\ g[a].nRefCount = 0
        /\ Holders(v, a) = {}
        /\ \A b \in NewBucket : \A x \in v[b] : x \in DOMAIN g /\ ~g[x].fInTried
        /\ \A x \in DOMAIN g :
              /\ g[x].nRefCount = Cardinality(Holders(v, x)) /\ g[x].nRefCount <= BucketsPerAddress
              /\ ~g[x].fInTried /\ x # a => Holders(v, x) # {}
        /\ out.nNew = Cardinality(NewOf(g)) - 1 /\ out.nTried = Cardinality(TriedOf(g))
        /\ \A b \in NewBucket : Cardinality(v[b]) <= NewBucketSize
        /\ \A j \in TriedBucket : Len(vt[j]) <= TriedBucketSize
        /\ o \in NewBucket /\ Cardinality(v[o]) < NewBucketSize
    BY DEF Moving, BoundInv
  <1>4. a \in Addr /\ k \in TriedBucket
    <2>1. a \in Addr
      BY <1>2, <1>3, InfoFields
    <2> QED
      BY <2>1, AddrManConstants
  <1>5. /\ t \in Seq(Addr) /\ Len(t) \in Nat /\ Len(t) # 0 /\ Len(t) <= TriedBucketSize /\ Once(t)
        /\ \A i \in 1..Len(t) : t[i] \in DOMAIN g /\ g[t[i]].fInTried /\ GetTriedBucket[t[i]] = k
    <2>1. TriedBucketSize \in Nat /\ TriedBucketSize # 0
      BY AddrManConstants
    <2>2. t \in Seq(Addr) /\ Len(t) \in Nat /\ ~(Len(t) < TriedBucketSize)
      <3>1. ~(Len(t) < TriedBucketSize)
        OBVIOUS
      <3> HIDE DEF k, vt
      <3> QED
        BY <1>2, <1>4, <3>1
    <2>3. Len(t) # 0
      BY <2>1, <2>2
    <2> HIDE DEF k, vt, g
    <2> QED
      BY <1>3, <1>4, <2>2, <2>3 DEF TriedInv
  <1>6. u \in Seq(Addr) /\ Shuffled(u, t) /\ pos \in 1..Len(t)
    BY <1>2, <1>4, <1>5, SelectIs
  <1> HIDE DEF g, v, vt, t, k, u, pos
  <1>7. /\ Len(u) = Len(t) /\ Once(u)
        /\ \A i \in 1..Len(t) : \E j \in 1..Len(t) : u[j] = t[i]
        /\ \A i \in 1..Len(t) : u[i] \in DOMAIN g /\ g[u[i]].fInTried /\ GetTriedBucket[u[i]] = k /\ u[i] # a
    <2>1. \A i \in 1..Len(t) : \E j \in 1..Len(t) : t[j] = u[i]
      BY <1>6 DEF Shuffled
    <2>2. \A i \in 1..Len(t) : t[i] # a
      BY <1>3, <1>5
    <2>3. ASSUME NEW i \in 1..Len(t)
          PROVE  u[i] \in DOMAIN g /\ g[u[i]].fInTried /\ GetTriedBucket[u[i]] = k /\ u[i] # a
      <3>1. PICK j \in 1..Len(t) : t[j] = u[i]
        BY <2>1
      <3> QED
        BY <1>5, <2>2, <3>1
    <2>4. Len(u) = Len(t) /\ Once(u) /\ \A i \in 1..Len(t) : \E j \in 1..Len(t) : u[j] = t[i]
      BY <1>6 DEF Shuffled
    <2> QED
      BY <2>3, <2>4
  <1>8. /\ old \in DOMAIN g /\ g[old].fInTried /\ GetTriedBucket[old] = k /\ old # a /\ old \in Addr
        /\ \A i \in 1..Len(t) : i # pos => u[i] # old
    <2>1. old \in DOMAIN g /\ g[old].fInTried /\ GetTriedBucket[old] = k /\ old # a
      BY <1>6, <1>7
    <2>2. \A i \in 1..Len(t) : i # pos => u[i] # old
      BY <1>6, <1>7 DEF Once
    <2> QED
      BY <1>2, <2>1, <2>2, InfoFields
  <1> HIDE DEF old
  <1>9. to \in NewBucket /\ Cardinality(v[to]) < NewBucketSize
    <2>1. g[old].source \in Source
      BY <1>2, <1>8, InfoFields
    <2>2. nU \in NewBucket
      BY <1>8, <2>1, AddrManConstants
    <2> HIDE DEF nU
    <2> QED
      BY <1>3, <2>2
  <1> HIDE DEF to
  <1>10. /\ nv \in [NewBucket -> SUBSET Addr] /\ nv[to] = v[to] \cup {old}
         /\ \A c \in NewBucket : c # to => nv[c] = v[c]
         /\ Holders(nv, old) = Holders(v, old) \cup {to}
         /\ \A x : x # old => Holders(nv, x) = Holders(v, x)
    BY <1>2, <1>8, <1>9, PutChange
  <1>11. /\ DOMAIN h = DOMAIN g /\ h = [x \in DOMAIN g |-> h[x]]
         /\ h[old] = [g[old] EXCEPT !.fInTried = FALSE, !.nRefCount = 1]
         /\ h[a] = [g[a] EXCEPT !.fInTried = TRUE]
         /\ \A x \in DOMAIN g : x # a /\ x # old => h[x] = g[x]
    <2>1. g[a] \in EntryType /\ g[old] \in EntryType /\ g = [x \in DOMAIN g |-> g[x]]
      BY <1>2, <1>3, <1>8, InfoFields
    <2> QED
      BY <1>3, <1>8, <2>1 DEF EntryType
  <1> HIDE DEF h, nv
  <1>12. /\ h[a] \in EntryType /\ h[a].fInTried /\ h[a].nRefCount = 0
         /\ h[a].nRandomPos = g[a].nRandomPos /\ h[a].nLastSuccess = g[a].nLastSuccess
    <2>1. g[a] \in EntryType
      BY <1>2, <1>3, InfoFields
    <2> QED
      BY <1>3, <1>11, <2>1 DEF EntryType
  <1>13. /\ h[old] \in EntryType /\ ~h[old].fInTried /\ h[old].nRefCount = 1
         /\ h[old].nRandomPos = g[old].nRandomPos /\ h[old].nLastSuccess = g[old].nLastSuccess
    <2> DEFINE e == g[old]
               e1 == [e EXCEPT !.fInTried = FALSE]
               e2 == [e1 EXCEPT !.nRefCount = 1]
    <2>1. e \in EntryType
      BY <1>2, <1>8, InfoFields
    <2>2. h[old] = e2
      BY <1>11
    <2> HIDE DEF e
    <2>3. /\ e1 \in EntryType /\ ~e1.fInTried
          /\ e1.nRandomPos = e.nRandomPos /\ e1.nLastSuccess = e.nLastSuccess
      BY <2>1 DEF EntryType
    <2> HIDE DEF e1
    <2>4. /\ e2 \in EntryType /\ ~e2.fInTried /\ e2.nRefCount = 1
          /\ e2.nRandomPos = e.nRandomPos /\ e2.nLastSuccess = e.nLastSuccess
      BY <2>3 DEF EntryType
    <2> HIDE DEF e2
    <2> QED
      BY <2>2, <2>4 DEF e
  <1>14. h \in Infos
    <2>1. DOMAIN g \subseteq Addr /\ \A x \in DOMAIN g : h[x] \in EntryType
      BY <1>2, <1>11, <1>12, <1>13, InfoFields
    <2> QED
      BY <1>11, <2>1, InfoIs
  <1>15. RandomInv(h, out.vRandom)
    <2>1. SamePlaces(g, h)
      BY <1>11, <1>12, <1>13, <1>14 DEF SamePlaces
    <2> QED
      BY <1>3, <2>1, SamePlacesKeep
  <1>16. NewInv(h, nv, {})
    <2>1. \A b \in NewBucket : a \notin v[b] /\ old \notin v[b]
      BY <1>3, <1>8 DEF Holders
    <2>2. ASSUME NEW b \in NewBucket, NEW x \in nv[b]
          PROVE  x \in DOMAIN h /\ ~h[x].fInTried
      <3>1. CASE x = old
        BY <1>8, <1>11, <1>13, <3>1
      <3>2. CASE x # old
        <4>1. x \in v[b]
          BY <1>10, <3>2
        <4> QED
          BY <1>3, <1>11, <2>1, <3>2, <4>1
      <3> QED
        BY <3>1, <3>2
    <2>3. BucketsPerAddress \in Nat /\ 1 <= BucketsPerAddress
      BY AddrManConstants
    <2>4. ASSUME NEW x \in DOMAIN h
          PROVE  /\ h[x].nRefCount = Cardinality(Holders(nv, x)) + 0 /\ h[x].nRefCount <= BucketsPerAddress
                 /\ ~h[x].fInTried => Holders(nv, x) # {}
      <3>1. CASE x = old
        <4>1. Holders(v, old) = {}
          BY <2>1 DEF Holders
        <4>2. Holders(nv, old) = {to} /\ Cardinality({to}) = 1
          BY <1>10, <4>1, FS_Singleton
        <4> QED
          BY <1>13, <2>3, <3>1, <4>2
      <3>2. CASE x # old
        <4>1. Holders(nv, x) = Holders(v, x)
          BY <1>10, <3>2
        <4>2. h[x].nRefCount = g[x].nRefCount /\ (~h[x].fInTried => x # a /\ ~g[x].fInTried)
          BY <1>3, <1>11, <1>12, <3>2
        <4>3. Cardinality(Holders(v, x)) \in Nat
          BY <1>2, FiniteParts, FS_CardinalityType
        <4> QED
          BY <1>3, <1>11, <4>1, <4>2, <4>3
      <3> QED
        BY <3>1, <3>2
    <2> QED
      BY <2>2, <2>4 DEF NewInv
  <1>17. q \in Seq(Addr) /\ Len(q) = Len(t) /\ q[pos] = a /\ \A i \in 1..Len(t) : i # pos => q[i] = u[i]
    BY <1>4, <1>6, <1>7
  <1> HIDE DEF q
  <1>18. /\ vt2 \in [TriedBucket -> Seq(Addr)] /\ vt2[k] = q
         /\ \A j \in TriedBucket : j # k => vt2[j] = vt[j]
    BY <1>2, <1>4, <1>17
  <1> HIDE DEF vt2
  <1>19. TriedInv(h, vt2)
    <2>1. /\ \A j \in TriedBucket : \A i \in 1..Len(vt[j]) :
                vt[j][i] \in DOMAIN g /\ g[vt[j][i]].fInTried /\ GetTriedBucket[vt[j][i]] = j
          /\ \A j \in TriedBucket : Once(vt[j])
          /\ \A x \in DOMAIN g : g[x].fInTried =>
                /\ g[x].nLastSuccess # 0
                /\ \E i \in 1..Len(vt[GetTriedBucket[x]]) : vt[GetTriedBucket[x]][i] = x
      BY <1>3 DEF TriedInv
    <2>2. ASSUME NEW j \in TriedBucket, NEW i \in 1..Len(vt2[j])
          PROVE  vt2[j][i] \in DOMAIN h /\ h[vt2[j][i]].fInTried /\ GetTriedBucket[vt2[j][i]] = j
      <3>1. CASE j # k
        <4>1. vt2[j] = vt[j]
          BY <1>18, <3>1
        <4>2. vt[j][i] \in DOMAIN g /\ g[vt[j][i]].fInTried /\ GetTriedBucket[vt[j][i]] = j
          BY <2>1, <4>1
        <4>3. vt[j][i] # a /\ vt[j][i] # old
          BY <1>3, <1>8, <3>1, <4>2
        <4> QED
          BY <1>11, <4>1, <4>2, <4>3
      <3>2. CASE j = k /\ i = pos
        <4>1. vt2[j][i] = a
          BY <1>17, <1>18, <3>2
        <4> QED
          BY <1>3, <1>11, <1>12, <3>2, <4>1 DEF k
      <3>3. CASE j = k /\ i # pos
        <4>1. i \in 1..Len(t) /\ vt2[j][i] = u[i]
          BY <1>17, <1>18, <3>3
        <4>2. u[i] \in DOMAIN g /\ g[u[i]].fInTried /\ GetTriedBucket[u[i]] = k /\ u[i] # a /\ u[i] # old
          BY <1>7, <1>8, <3>3, <4>1
        <4> QED
          BY <1>11, <3>3, <4>1, <4>2
      <3> QED
        BY <3>1, <3>2, <3>3
    <2>3. \A j \in TriedBucket : Once(vt2[j])
      <3>1. Once(q)
        <4>1. \A i, j \in 1..Len(t) : i # j => u[i] # u[j]
          BY <1>7 DEF Once
        <4>2. \A i \in 1..Len(t) : i = pos \/ q[i] = u[i]
          BY <1>17
        <4>3. ASSUME NEW i \in 1..Len(t), NEW j \in 1..Len(t), i # j
              PROVE  q[i] # q[j]
          <5>1. u[i] # a /\ u[j] # a /\ u[i] # u[j]
            BY <1>7, <4>1, <4>3
          <5> QED
            BY <1>17, <4>2, <4>3, <5>1
        <4> QED
          BY <1>17, <4>3 DEF Once
      <3> QED
        BY <1>18, <2>1, <3>1
    <2>4. ASSUME NEW x \in DOMAIN h, h[x].fInTried
          PROVE  /\ h[x].nLastSuccess # 0
                 /\ \E i \in 1..Len(vt2[GetTriedBucket[x]]) : vt2[GetTriedBucket[x]][i] = x
      <3>1. CASE x = a
        <4>1. GetTriedBucket[x] = k /\ pos \in 1..Len(q)
          BY <1>6, <1>17, <3>1 DEF k
        <4> QED
          BY <1>3, <1>12, <1>17, <1>18, <3>1, <4>1
      <3>2. CASE x # a
        <4>1. x \in DOMAIN g /\ g[x].fInTried /\ h[x] = g[x] /\ x # old /\ GetTriedBucket[x] \in TriedBucket
          <5>1. x # old
            BY <1>13, <2>4
          <5> QED
            BY <1>2, <1>11, <2>4, <3>2, <5>1, InfoFields, AddrManConstants
        <4>2. PICK i \in 1..Len(vt[GetTriedBucket[x]]) : vt[GetTriedBucket[x]][i] = x
          BY <2>1, <4>1
        <4>3. CASE GetTriedBucket[x] = k
          <5>1. i \in 1..Len(t) /\ t[i] = x
            BY <4>2, <4>3 DEF t
          <5>2. PICK j \in 1..Len(t) : u[j] = x
            BY <1>7, <5>1
          <5>3. j # pos
            BY <4>1, <5>2 DEF old
          <5>4. j \in 1..Len(q) /\ q[j] = x
            BY <1>17, <5>2, <5>3
          <5> QED
            BY <1>18, <2>1, <4>1, <4>3, <5>4
        <4>4. CASE GetTriedBucket[x] # k
          BY <1>18, <2>1, <4>1, <4>2, <4>4
        <4> QED
          BY <4>3, <4>4
      <3> QED
        BY <3>1, <3>2
    <2> QED
      BY <2>2, <2>3, <2>4 DEF TriedInv
  <1>20. /\ NewOf(h) = (NewOf(g) \ {a}) \cup {old} /\ TriedOf(h) = (TriedOf(g) \ {old}) \cup {a}
         /\ a \in NewOf(g) /\ old \notin NewOf(g) /\ a \notin TriedOf(g) /\ old \in TriedOf(g)
    <2>1. a \in NewOf(g) /\ old \notin NewOf(g) /\ a \notin TriedOf(g) /\ old \in TriedOf(g)
      BY <1>3, <1>8 DEF NewOf, TriedOf
    <2>2. \A x : x \in NewOf(h) <=> x \in (NewOf(g) \ {a}) \cup {old}
      BY <1>3, <1>8, <1>11, <1>12, <1>13 DEF NewOf
    <2>3. \A x : x \in TriedOf(h) <=> x \in (TriedOf(g) \ {old}) \cup {a}
      BY <1>3, <1>8, <1>11, <1>12, <1>13 DEF TriedOf
    <2> QED
      BY <2>1, <2>2, <2>3
  <1>21. nn = Cardinality(NewOf(h)) /\ out.nTried = Cardinality(TriedOf(h)) /\ nn \in Int
    <2> DEFINE N == NewOf(g)
               T == TriedOf(g)
    <2>1. IsFiniteSet(N) /\ IsFiniteSet(T) /\ Cardinality(N) \in Nat /\ Cardinality(T) \in Nat
      BY <1>2, FiniteParts, FS_CardinalityType
    <2>2. a \in N /\ old \notin N /\ a \notin T /\ old \in T
      BY <1>20
    <2> HIDE DEF N, T
    <2>3. IsFiniteSet(N \ {a}) /\ Cardinality(N \ {a}) = Cardinality(N) - 1 /\ old \notin N \ {a}
      BY <2>1, <2>2, FS_RemoveElement
    <2>4. Cardinality((N \ {a}) \cup {old}) = Cardinality(N \ {a}) + 1
      BY <2>3, FS_AddElement
    <2>5. IsFiniteSet(T \ {old}) /\ Cardinality(T \ {old}) = Cardinality(T) - 1 /\ a \notin T \ {old}
      BY <2>1, <2>2, FS_RemoveElement
    <2>6. Cardinality((T \ {old}) \cup {a}) = Cardinality(T \ {old}) + 1
      BY <2>5, FS_AddElement
    <2> QED
      BY <1>2, <1>3, <1>20, <2>1, <2>3, <2>4, <2>5, <2>6 DEF N, T
  <1>22. /\ \A j \in TriedBucket : Len(vt2[j]) <= TriedBucketSize
         /\ \A c \in NewBucket : Cardinality(nv[c]) <= NewBucketSize
    <2>1. Len(q) <= TriedBucketSize
      BY <1>5, <1>17
    <2>2. IsFiniteSet(v[to]) /\ NewBucketSize \in Nat
      BY <1>2, <1>9, FiniteParts, AddrManConstants
    <2>3. Cardinality(v[to]) \in Nat /\ old \notin v[to]
      BY <1>3, <1>8, <1>9, <2>2, FS_CardinalityType
    <2>4. Cardinality(v[to] \cup {old}) = Cardinality(v[to]) + 1
      BY <2>2, <2>3, FS_AddElement
    <2>5. Cardinality(nv[to]) <= NewBucketSize
      BY <1>9, <1>10, <2>2, <2>3, <2>4
    <2> QED
      BY <1>3, <1>10, <1>18, <2>1, <2>5
  <1> HIDE DEF nn
  <1>23. /\ r \in TablesType /\ r.mapInfo = h /\ r.vRandom = out.vRandom /\ r.vvNew = nv
         /\ r.vvTried = vt2 /\ r.nNew = nn /\ r.nTried = out.nTried
    BY <1>1, <1>2, <1>10, <1>14, <1>18, <1>21 DEF TablesType
  <1>24. TablesInv(r, {})
    <2>1. CountInv(r) /\ BoundInv(r)
      BY <1>21, <1>22, <1>23 DEF CountInv, BoundInv
    <2> QED
      BY <1>15, <1>16, <1>19, <1>23, <2>1 DEF TablesInv
  <1> QED
    BY <1>11, <1>23, <1>24 DEF r, k, g

\* Good_ keeps the tables, and every entry.
LEMMA GoodKeepsTables ==
  ASSUME TablesInv(addrman, {}), NEW a \in Addr, NEW t \in Times, Good(a, t)
  PROVE  StepKeeps(addrman, addrman')
  <1> DEFINE m == addrman
             seen == [m EXCEPT !.mapInfo[a].nLastSuccess = t]
  <1>1. /\ a \in DOMAIN m.mapInfo
        /\ IF seen.mapInfo[a].fInTried \/ BucketsOf(seen, a) = {} THEN addrman' = seen
           ELSE \E o \in BucketsOf(seen, a) : addrman' \in MakeTried(seen, a, o)
    BY DEF Good
  <1>2. /\ TablesInv(seen, {}) /\ seen.vvNew = m.vvNew /\ DOMAIN seen.mapInfo = DOMAIN m.mapInfo
        /\ seen.mapInfo[a].nLastSuccess # 0 /\ seen.mapInfo[a].fInTried = m.mapInfo[a].fInTried
    BY <1>1, SeenKeeps
  <1> HIDE DEF seen
  <1>3. TablesInv(addrman', {}) /\ DOMAIN addrman'.mapInfo = DOMAIN m.mapInfo
    <2>1. CASE seen.mapInfo[a].fInTried \/ BucketsOf(seen, a) = {}
      BY <1>1, <1>2, <2>1
    <2>2. CASE ~(seen.mapInfo[a].fInTried \/ BucketsOf(seen, a) = {})
      <3>1. PICK o \in BucketsOf(seen, a) : addrman' \in MakeTried(seen, a, o)
        BY <1>1, <2>2
      <3> DEFINE out == LeaveNew(seen, a)
                 k == GetTriedBucket[a]
      <3>2. Moving(out, a, o) /\ DOMAIN out.mapInfo = DOMAIN seen.mapInfo
        BY <1>1, <1>2, <2>2, LeaveMoves
      <3>3. addrman' \in IF Len(out.vvTried[k]) < TriedBucketSize
                         THEN {[out EXCEPT !.vvTried[k] = Append(@, a), !.nTried = @ + 1,
                                           !.mapInfo[a].fInTried = TRUE]}
                         ELSE {Evict(out, a, k, sel, o) : sel \in SelectTried(out, k)}
        BY <3>1 DEF MakeTried
      <3> HIDE DEF out
      <3>4. CASE Len(out.vvTried[k]) < TriedBucketSize
        <4>1. addrman' = [out EXCEPT !.vvTried[k] = Append(@, a), !.nTried = @ + 1,
                                     !.mapInfo[a].fInTried = TRUE]
          BY <3>3, <3>4
        <4>2. LET r == [out EXCEPT !.vvTried[k] = Append(@, a), !.nTried = @ + 1,
                                   !.mapInfo[a].fInTried = TRUE]
              IN TablesInv(r, {}) /\ DOMAIN r.mapInfo = DOMAIN out.mapInfo
          BY <3>2, <3>4, RoomKeeps
        <4> QED
          BY <1>2, <3>2, <4>1, <4>2
      <3>5. CASE ~(Len(out.vvTried[k]) < TriedBucketSize)
        <4>1. PICK sel \in SelectTried(out, k) : addrman' = Evict(out, a, k, sel, o)
          BY <3>3, <3>5
        <4>2. TablesInv(addrman', {}) /\ DOMAIN addrman'.mapInfo = DOMAIN out.mapInfo
          BY <3>2, <3>5, <4>1, EvictKeeps, SMTT(30)
        <4> QED
          BY <1>2, <3>2, <4>2
      <3> QED
        BY <3>4, <3>5
    <2> QED
      BY <2>1, <2>2
  <1> QED
    BY <1>3 DEF StepKeeps

-----------------------------------------------------------------------------
(* Sequences without repetitions.                                           *)

Holds(s, x) == \E j \in 1..Len(s) : s[j] = x

\* Such a sequence is as long as the set of its elements is large.
LEMMA OnceCounts ==
  ASSUME NEW E, NEW s \in Seq(E), Once(s), NEW S, \A x : x \in S <=> Holds(s, x)
  PROVE  IsFiniteSet(S) /\ Cardinality(S) = Len(s)
  <1> DEFINE n == Len(s)
  <1>1. n \in Nat /\ s \in [1..n -> E] /\ \A i \in 1..n : s[i] \in S
    BY DEF Holds
  <1>2. s \in [1..n -> S]
    BY <1>1
  <1>3. s \in Bijection(1..n, S)
    <2>1. \A i, j \in 1..n : s[i] = s[j] => i = j
      BY DEF Once
    <2>2. \A x \in S : \E i \in 1..n : s[i] = x
      BY DEF Holds
    <2> QED
      BY <1>2, <2>1, <2>2 DEF Bijection, Injection, Surjection, IsInjective
  <1>4. ExistsBijection(1..n, S)
    BY <1>3 DEF ExistsBijection
  <1>5. Cardinality(S) = n
    BY <1>1, <1>4, FS_CountingElements
  <1>6. IsFiniteSet(S)
    BY <1>1, <1>4, FS_NatBijection
  <1> QED
    BY <1>5, <1>6

\* The orders of a set.
LEMMA SetToSeqsAre ==
  ASSUME NEW S, IsFiniteSet(S), NEW s \in SetToSeqs(S)
  PROVE  s \in Seq(S) /\ Len(s) = Cardinality(S) /\ Once(s) /\ \A x : x \in S <=> Holds(s, x)
  <1> DEFINE n == Cardinality(S)
  <1>1. n \in Nat
    BY FS_CardinalityType
  <1> HIDE DEF n
  <1>2. s \in [1..n -> S] /\ \A i, j \in 1..n : i # j => s[i] # s[j]
    BY DEF SetToSeqs, n
  <1>3. s \in Seq(S) /\ Len(s) = n
    BY <1>1, <1>2
  <1>4. s \in Injection(1..n, S)
    BY <1>2 DEF Injection, IsInjective
  <1>5. Cardinality(1..n) = n
    <2>1. Cardinality(1..n) = IF 1 > n THEN 0 ELSE n - 1 + 1
      BY <1>1, FS_Interval
    <2> QED
      BY <1>1, <2>1
  <1>6. s \in Surjection(1..n, S)
    BY <1>4, <1>5, FS_Injection DEF n
  <1>7. \A x \in S : \E i \in 1..n : s[i] = x
    BY <1>6 DEF Surjection
  <1> QED
    BY <1>2, <1>3, <1>7 DEF Once, Holds, n

\* The whole of a sequence as a part of it.
LEMMA WholeSeq ==
  ASSUME NEW E, NEW s \in Seq(E)
  PROVE  /\ SubSeq(s, 1, Len(s)) \in Seq(E) /\ Len(SubSeq(s, 1, Len(s))) = Len(s)
         /\ \A i \in 1..Len(s) : SubSeq(s, 1, Len(s))[i] = s[i]
  OBVIOUS

-----------------------------------------------------------------------------
(* Restarts.                                                                *)

\* The file divides the entries into the tried and the new ones.
LEMMA FileIs ==
  ASSUME NEW m, TablesInv(m, {})
  PROVE  LET file == Serialize(m) IN
         /\ file.new = NewOf(m.mapInfo) /\ file.tried = TriedOf(m.mapInfo) /\ file.vvNew = m.vvNew
         /\ \A a \in DOMAIN m.mapInfo :
               /\ file.entry[a].source = m.mapInfo[a].source
               /\ file.entry[a].nLastSuccess = m.mapInfo[a].nLastSuccess
         /\ \A a \in DOMAIN m.mapInfo :
               m.mapInfo[a].nRefCount = Cardinality({b \in NewBucket : a \in m.vvNew[b]})
  <1> DEFINE f == m.mapInfo
             w == m.vvNew
             file == Serialize(m)
  <1>1. f \in Infos /\ w \in [NewBucket -> SUBSET Addr] /\ NewInv(f, w, {})
    BY TableFields DEF TablesInv
  <1>2. /\ file.new = {a \in DOMAIN f : f[a].nRefCount # 0} /\ file.tried = {a \in DOMAIN f : f[a].fInTried}
        /\ file.vvNew = w
        /\ \A a \in DOMAIN f : file.entry[a].source = f[a].source /\ file.entry[a].nLastSuccess = f[a].nLastSuccess
    BY DEF Serialize
  <1> HIDE DEF f, w, file
  <1>3. ASSUME NEW a \in DOMAIN f
        PROVE  f[a].nRefCount = Cardinality(Holders(w, a)) /\ (f[a].nRefCount # 0 <=> ~f[a].fInTried)
    <2>1. f[a].nRefCount = Cardinality(Holders(w, a)) + 0 /\ (~f[a].fInTried => Holders(w, a) # {})
      BY <1>1 DEF NewInv
    <2>2. IsFiniteSet(Holders(w, a)) /\ Cardinality(Holders(w, a)) \in Nat
      BY <1>1, FiniteParts, FS_CardinalityType
    <2>3. Cardinality(Holders(w, a)) = 0 <=> Holders(w, a) = {}
      BY <2>2, FS_EmptySet
    <2>4. f[a].fInTried => Holders(w, a) = {}
      BY <1>1 DEF NewInv, Holders
    <2> QED
      BY <2>1, <2>2, <2>3, <2>4
  <1>4. file.new = NewOf(f) /\ file.tried = TriedOf(f)
    BY <1>2, <1>3 DEF NewOf, TriedOf
  <1>5. \A a : Holders(w, a) = {b \in NewBucket : a \in w[b]}
    BY DEF Holders
  <1> QED
    BY <1>2, <1>3, <1>4, <1>5 DEF f, w, file

\* The new tables hold what the old ones did.
Restored(m, r) ==
    /\ TablesInv(r, {}) /\ r.vvNew = m.vvNew
    /\ \A k \in TriedBucket : Range(r.vvTried[k]) = Range(m.vvTried[k])
    /\ DOMAIN r.mapInfo = DOMAIN m.mapInfo
    /\ \A a \in DOMAIN m.mapInfo : r.mapInfo[a].nRefCount = m.mapInfo[a].nRefCount

\* Unserialize fills each tried bucket with the entries it had: none is full
\* before they are all there.
LEMMA BucketsRestored ==
  ASSUME NEW m, TablesInv(m, {}), NEW tried \in SetToSeqs(TriedOf(m.mapInfo)), NEW k \in TriedBucket
  PROVE  LET s == Those(tried, InBucket(TriedOf(m.mapInfo), k)) IN
         /\ s \in Seq(Addr) /\ Once(s) /\ Len(s) <= TriedBucketSize
         /\ \A x : Holds(s, x) <=> x \in InBucket(TriedOf(m.mapInfo), k)
         /\ \A x : Holds(s, x) <=> Holds(m.vvTried[k], x)
  <1> DEFINE f == m.mapInfo
             T == TriedOf(f)
             B == InBucket(T, k)
             s == Those(tried, B)
             t == m.vvTried[k]
  <1>1. /\ f \in Infos /\ t \in Seq(Addr) /\ TriedInv(f, m.vvTried) /\ Len(t) <= TriedBucketSize
        /\ IsFiniteSet(T)
    BY TableFields, FiniteParts DEF TablesInv, BoundInv
  <1>2. tried \in Seq(T) /\ Once(tried) /\ \A x : x \in T <=> Holds(tried, x)
    BY <1>1, SetToSeqsAre
  <1>3. T \subseteq Addr
    BY <1>1, InfoFields DEF TriedOf
  <1>4. tried \in Seq(Addr)
    <2> HIDE DEF T
    <2> QED
      BY <1>2, <1>3
  <1> HIDE DEF B, T
  <1>5. s \in Seq(Addr) /\ FilterOf(tried, B, s)
    BY <1>4, ThoseIs
  <1> HIDE DEF s
  <1>6. Once(s)
    BY <1>2, <1>5 DEF Once, FilterOf
  <1>7. \A x : Holds(s, x) <=> x \in B
    <2>1. \A x \in B : Holds(tried, x)
      BY <1>2 DEF B, InBucket
    <2> QED
      BY <1>5, <2>1 DEF Holds, FilterOf
  <1>8. \A x : x \in B <=> Holds(t, x)
    <2>1. ASSUME NEW x \in B
          PROVE  Holds(t, x)
      <3>1. x \in DOMAIN f /\ f[x].fInTried /\ GetTriedBucket[x] = k
        BY DEF B, T, InBucket, TriedOf
      <3> HIDE DEF f
      <3> QED
        BY <1>1, <3>1 DEF TriedInv, Holds
    <2>2. ASSUME NEW x, Holds(t, x)
          PROVE  x \in B
      <3>1. PICK j \in 1..Len(t) : t[j] = x
        BY <2>2 DEF Holds
      <3>2. x \in DOMAIN f /\ f[x].fInTried /\ GetTriedBucket[x] = k
        <4> HIDE DEF f
        <4> QED
          BY <1>1, <3>1 DEF TriedInv
      <3> HIDE DEF f
      <3> QED
        BY <3>2 DEF B, T, InBucket, TriedOf
    <2> QED
      BY <2>1, <2>2
  <1>9. Len(s) = Len(t)
    <2>1. Once(t)
      BY <1>1 DEF TriedInv
    <2> HIDE DEF t
    <2>2. Cardinality(B) = Len(s)
      BY <1>5, <1>6, <1>7, OnceCounts
    <2>3. Cardinality(B) = Len(t)
      BY <1>1, <1>8, <2>1, OnceCounts
    <2> QED
      BY <2>2, <2>3
  <1>10. \A x : Holds(s, x) <=> Holds(t, x)
    BY <1>7, <1>8
  <1> QED
    BY <1>1, <1>5, <1>6, <1>7, <1>9, <1>10 DEF s, B, T, t

\* A start from the file restores the tables.
LEMMA UnserializeRestores ==
  ASSUME NEW m, TablesInv(m, {}), NEW new \in SetToSeqs(NewOf(m.mapInfo)),
         NEW tried \in SetToSeqs(TriedOf(m.mapInfo))
  PROVE  Restored(m, Unserialize(Serialize(m), new, tried))
  <1> DEFINE file == Serialize(m)
             f == m.mapInfo
             w == m.vvNew
             N == NewOf(f)
             T == TriedOf(f)
             bucket(k) == Those(tried, InBucket(T, k))
             vt == [k \in TriedBucket |->
                      SubSeq(bucket(k), 1, IF Len(bucket(k)) < TriedBucketSize THEN Len(bucket(k))
                                           ELSE TriedBucketSize)]
             K == {a \in T : a \in Range(vt[GetTriedBucket[a]])}
             kept == Those(tried, K)
             all == new \o kept
             nRefs(a) == Cardinality({b \in NewBucket : a \in w[b]})
             h == [a \in N \cup Range(kept) |->
                     [source |-> file.entry[a].source, nLastSuccess |-> file.entry[a].nLastSuccess,
                      nRefCount |-> IF nRefs(a) < BucketsPerAddress THEN nRefs(a) ELSE BucketsPerAddress,
                      fInTried |-> a \in Range(kept), nRandomPos |-> CHOOSE i \in DOMAIN all : all[i] = a]]
             r == Unserialize(file, new, tried)
  <1>1. /\ file.new = N /\ file.tried = T /\ file.vvNew = w
        /\ \A a \in DOMAIN f : /\ file.entry[a].source = f[a].source
                               /\ file.entry[a].nLastSuccess = f[a].nLastSuccess
        /\ \A a \in DOMAIN f : f[a].nRefCount = nRefs(a)
    BY FileIs
  <1> HIDE DEF file
  <1>2. r = [mapInfo |-> h, vRandom |-> all, vvNew |-> w, vvTried |-> vt,
             nNew |-> Cardinality(N), nTried |-> Len(kept)]
    BY <1>1 DEF Unserialize
  <1> HIDE DEF r
  <1>3. /\ f \in Infos /\ w \in [NewBucket -> SUBSET Addr] /\ m.vvTried \in [TriedBucket -> Seq(Addr)]
        /\ NewInv(f, w, {}) /\ TriedInv(f, m.vvTried)
        /\ \A b \in NewBucket : Cardinality(w[b]) <= NewBucketSize
    BY TableFields DEF TablesInv, BoundInv
  <1>4. /\ IsFiniteSet(N) /\ IsFiniteSet(T) /\ DOMAIN f \subseteq Addr
        /\ N \cup T = DOMAIN f /\ N \cap T = {}
        /\ \A a \in DOMAIN f : a \in T <=> f[a].fInTried
    <2>1. IsFiniteSet(N) /\ IsFiniteSet(T)
      BY <1>3, FiniteParts
    <2>2. DOMAIN f \subseteq Addr
      BY <1>3, InfoFields
    <2> QED
      BY <2>1, <2>2 DEF NewOf, TriedOf
  <1>5. ASSUME NEW k \in TriedBucket
        PROVE  /\ vt[k] \in Seq(Addr) /\ Once(vt[k]) /\ Len(vt[k]) <= TriedBucketSize
               /\ \A x : Holds(vt[k], x) <=> x \in T /\ GetTriedBucket[x] = k
               /\ \A x : Holds(vt[k], x) <=> Holds(m.vvTried[k], x)
    <2> DEFINE s == bucket(k)
               u == vt[k]
    <2>1. /\ s \in Seq(Addr) /\ Once(s) /\ Len(s) <= TriedBucketSize
          /\ \A x : Holds(s, x) <=> x \in InBucket(T, k)
          /\ \A x : Holds(s, x) <=> Holds(m.vvTried[k], x)
      BY BucketsRestored
    <2>2. u = SubSeq(s, 1, IF Len(s) < TriedBucketSize THEN Len(s) ELSE TriedBucketSize)
      OBVIOUS
    <2> HIDE DEF s, u
    <2>3. u = SubSeq(s, 1, Len(s))
      <3>1. (IF Len(s) < TriedBucketSize THEN Len(s) ELSE TriedBucketSize) = Len(s)
        <4>1. Len(s) \in Nat /\ TriedBucketSize \in Nat
          BY <2>1, AddrManConstants
        <4> QED
          BY <2>1, <4>1
      <3> QED
        BY <2>2, <3>1
    <2>4. u \in Seq(Addr) /\ Len(u) = Len(s) /\ \A i \in 1..Len(s) : u[i] = s[i]
      BY <2>1, <2>3, WholeSeq
    <2>5. Once(u) /\ \A x : Holds(u, x) <=> Holds(s, x)
      BY <2>1, <2>4 DEF Once, Holds
    <2>6. \A x : x \in InBucket(T, k) <=> x \in T /\ GetTriedBucket[x] = k
      BY DEF InBucket
    <2> QED
      BY <2>1, <2>4, <2>5, <2>6 DEF u
  <1>6. vt \in [TriedBucket -> Seq(Addr)]
    <2>1. vt = [k \in TriedBucket |-> vt[k]]
      OBVIOUS
    <2> HIDE DEF vt
    <2> QED
      BY <1>5, <2>1
  <1>7. \A k \in TriedBucket : \A x : x \in Range(vt[k]) <=> Holds(vt[k], x)
    <2> HIDE DEF vt
    <2> QED
      BY <1>6 DEF Range, Holds
  <1> HIDE DEF vt
  <1>8. K = T
    <2>1. \A a \in T : GetTriedBucket[a] \in TriedBucket
      BY <1>4, AddrManConstants
    <2> HIDE DEF T
    <2> QED
      BY <1>5, <1>7, <2>1
  <1>9. kept \in Seq(Addr) /\ Once(kept) /\ \A x : Holds(kept, x) <=> x \in T
    <2>1. tried \in Seq(T) /\ Once(tried) /\ \A x : x \in T <=> Holds(tried, x)
      BY <1>4, SetToSeqsAre
    <2> HIDE DEF K, T
    <2>2. tried \in Seq(Addr)
      BY <1>4, <2>1
    <2>3. kept \in Seq(Addr) /\ FilterOf(tried, K, kept)
      BY <2>2, ThoseIs
    <2> HIDE DEF kept
    <2> QED
      BY <1>8, <2>1, <2>3 DEF Once, Holds, FilterOf
  <1> HIDE DEF K, kept
  <1>10. Range(kept) = T /\ Len(kept) = Cardinality(T)
    <2>1. \A x : x \in Range(kept) <=> Holds(kept, x)
      BY <1>9 DEF Range, Holds
    <2> HIDE DEF T
    <2>2. Cardinality(T) = Len(kept)
      BY <1>9, OnceCounts
    <2> QED
      BY <1>9, <2>1, <2>2
  <1>11. new \in Seq(Addr) /\ Once(new) /\ \A x : Holds(new, x) <=> x \in N
    <2>1. new \in Seq(N) /\ Once(new) /\ \A x : x \in N <=> Holds(new, x)
      BY <1>4, SetToSeqsAre
    <2> HIDE DEF N
    <2> QED
      BY <1>4, <2>1
  <1> HIDE DEF N, T
  <1>12. all \in Seq(Addr) /\ Once(all) /\ \A x : Holds(all, x) <=> x \in DOMAIN f
    <2> DEFINE n == Len(new)
               p == Len(kept)
    <2>1. n \in Nat /\ p \in Nat /\ all \in Seq(Addr) /\ Len(all) = n + p
      BY <1>9, <1>11
    <2>2. \A i \in 1..n : i \in 1..(n + p) /\ all[i] = new[i]
      BY <1>9, <1>11, <2>1
    <2>3. \A i \in 1..p : n + i \in 1..(n + p) /\ all[n + i] = kept[i]
      BY <1>9, <1>11, <2>1
    <2>4. \A i \in 1..(n + p) : i \in 1..n \/ (i - n \in 1..p /\ n + (i - n) = i)
      BY <2>1
    <2> HIDE DEF all, n, p
    <2>5. \A i \in 1..n : new[i] \in N
      BY <1>11 DEF Holds, n
    <2>6. \A i \in 1..p : kept[i] \in T
      BY <1>9 DEF Holds, p
    <2>7. \A i \in 1..(n + p) : (i \in 1..n /\ all[i] \in N) \/ (i - n \in 1..p /\ all[i] = kept[i - n] /\ all[i] \in T)
      BY <2>2, <2>3, <2>4, <2>5, <2>6
    <2>8. Once(all)
      <3>1. ASSUME NEW i \in 1..(n + p), NEW j \in 1..(n + p), all[i] = all[j]
            PROVE  i = j
        <4>1. CASE i \in 1..n /\ j \in 1..n
          BY <1>11, <2>2, <3>1, <4>1 DEF Once, n
        <4>2. CASE i - n \in 1..p /\ j - n \in 1..p /\ all[i] = kept[i - n] /\ all[j] = kept[j - n]
          <5>1. i - n = j - n
            BY <1>9, <3>1, <4>2 DEF Once, p
          <5> QED
            BY <2>1, <5>1
        <4>3. CASE (all[i] \in N /\ all[j] \in T) \/ (all[i] \in T /\ all[j] \in N)
          BY <1>4, <3>1, <4>3
        <4> QED
          BY <2>7, <4>1, <4>2, <4>3
      <3> QED
        BY <2>1, <3>1 DEF Once
    <2>9. ASSUME NEW x
          PROVE  Holds(all, x) <=> x \in DOMAIN f
      <3>1. ASSUME x \in N PROVE Holds(all, x)
        <4>1. PICK i \in 1..n : new[i] = x
          BY <1>11, <3>1 DEF Holds, n
        <4> QED
          BY <2>1, <2>2, <4>1 DEF Holds
      <3>2. ASSUME x \in T PROVE Holds(all, x)
        <4>1. PICK i \in 1..p : kept[i] = x
          BY <1>9, <3>2 DEF Holds, p
        <4> QED
          BY <2>1, <2>3, <4>1 DEF Holds
      <3>3. ASSUME Holds(all, x) PROVE x \in N \cup T
        BY <2>1, <2>7, <3>3 DEF Holds
      <3> QED
        BY <1>4, <3>1, <3>2, <3>3
    <2> QED
      BY <2>1, <2>8, <2>9
  <1> DEFINE pos(a) == CHOOSE i \in DOMAIN all : all[i] = a
  <1>13. \A a \in DOMAIN f : pos(a) \in 1..Len(all) /\ all[pos(a)] = a
    <2>1. DOMAIN all = 1..Len(all)
      BY <1>12
    <2> HIDE DEF all
    <2>2. ASSUME NEW a \in DOMAIN f
          PROVE  \E i \in DOMAIN all : all[i] = a
      BY <1>12, <2>1 DEF Holds
    <2> QED
      BY <2>1, <2>2
  <1> HIDE DEF all
  <1>14. ASSUME NEW a \in DOMAIN f
         PROVE  /\ f[a].nRefCount = IF nRefs(a) < BucketsPerAddress THEN nRefs(a) ELSE BucketsPerAddress
                /\ f[a] \in EntryType
    <2>1. f[a].nRefCount = nRefs(a) /\ f[a].nRefCount <= BucketsPerAddress
      BY <1>1, <1>3 DEF NewInv
    <2>2. f[a].nRefCount \in Nat /\ BucketsPerAddress \in Nat /\ f[a] \in EntryType
      BY <1>3, InfoFields, AddrManConstants
    <2> HIDE DEF nRefs
    <2> QED
      BY <2>1, <2>2
  <1>15. /\ DOMAIN h = DOMAIN f /\ h = [a \in DOMAIN f |-> h[a]]
         /\ \A a \in DOMAIN f :
               /\ h[a].source = f[a].source /\ h[a].nLastSuccess = f[a].nLastSuccess
               /\ h[a].nRefCount = f[a].nRefCount /\ (h[a].fInTried <=> f[a].fInTried)
               /\ h[a].fInTried \in BOOLEAN /\ h[a].nRandomPos = pos(a)
               /\ h[a] = [source |-> h[a].source, nLastSuccess |-> h[a].nLastSuccess,
                          nRefCount |-> h[a].nRefCount, fInTried |-> h[a].fInTried,
                          nRandomPos |-> h[a].nRandomPos]
    <2>1. N \cup Range(kept) = DOMAIN f
      BY <1>4, <1>10
    <2>2. ASSUME NEW a \in DOMAIN f
          PROVE  h[a] = [source |-> f[a].source, nLastSuccess |-> f[a].nLastSuccess,
                         nRefCount |-> f[a].nRefCount, fInTried |-> a \in T, nRandomPos |-> pos(a)]
      <3>1. /\ file.entry[a].source = f[a].source /\ file.entry[a].nLastSuccess = f[a].nLastSuccess
            /\ f[a].nRefCount = IF nRefs(a) < BucketsPerAddress THEN nRefs(a) ELSE BucketsPerAddress
        BY <1>1, <1>14
      <3> QED
        BY <1>10, <2>1, <3>1
    <2>3. DOMAIN h = DOMAIN f /\ h = [a \in DOMAIN f |-> h[a]]
      BY <2>1
    <2> HIDE DEF h, pos, f
    <2>4. ASSUME NEW a \in DOMAIN f
          PROVE  /\ h[a].source = f[a].source /\ h[a].nLastSuccess = f[a].nLastSuccess
                 /\ h[a].nRefCount = f[a].nRefCount /\ (h[a].fInTried <=> f[a].fInTried)
                 /\ h[a].fInTried \in BOOLEAN /\ h[a].nRandomPos = pos(a)
                 /\ h[a] = [source |-> h[a].source, nLastSuccess |-> h[a].nLastSuccess,
                            nRefCount |-> h[a].nRefCount, fInTried |-> h[a].fInTried,
                            nRandomPos |-> h[a].nRandomPos]
      <3>1. a \in T <=> f[a].fInTried
        BY <1>4
      <3> DEFINE q == a \in T
      <3>2. h[a] = [source |-> f[a].source, nLastSuccess |-> f[a].nLastSuccess,
                    nRefCount |-> f[a].nRefCount, fInTried |-> q, nRandomPos |-> pos(a)]
        BY <2>2
      <3>3. q \in BOOLEAN /\ (q <=> f[a].fInTried)
        BY <3>1
      <3> HIDE DEF q
      <3> QED
        BY <3>2, <3>3
    <2> QED
      BY <2>3, <2>4
  <1> HIDE DEF h, pos, f
  <1>16. ASSUME NEW a \in DOMAIN f
         PROVE  h[a] \in EntryType /\ h[a].fInTried = f[a].fInTried
    <2>1. f[a] \in EntryType
      BY <1>14
    <2>2. h[a].nRandomPos \in Nat
      <3>1. pos(a) \in 1..Len(all) /\ h[a].nRandomPos = pos(a)
        BY <1>13, <1>15
      <3> QED
        BY <3>1
    <2>3. h[a].fInTried = f[a].fInTried
      BY <1>15, <2>1 DEF EntryType
    <2>4. /\ h[a].source \in Source /\ h[a].nLastSuccess \in Times \cup {0} /\ h[a].nRefCount \in Nat
          /\ h[a].fInTried \in BOOLEAN
      BY <1>15, <2>1 DEF EntryType
    <2>5. h[a] = [source |-> h[a].source, nLastSuccess |-> h[a].nLastSuccess,
                  nRefCount |-> h[a].nRefCount, fInTried |-> h[a].fInTried,
                  nRandomPos |-> h[a].nRandomPos]
      BY <1>15
    <2> QED
      BY <2>2, <2>3, <2>4, <2>5 DEF EntryType
  <1>17. h \in Infos /\ SameEntries(h, f)
    <2>1. h \in Infos
      BY <1>4, <1>15, <1>16, InfoIs
    <2> QED
      BY <1>15, <1>16, <2>1 DEF SameEntries
  <1>18. RandomInv(h, all)
    <2>1. \A a \in DOMAIN h : h[a].nRandomPos \in 1..Len(all) /\ all[h[a].nRandomPos] = a
      BY <1>13, <1>15
    <2>2. ASSUME NEW i \in 1..Len(all)
          PROVE  all[i] \in DOMAIN h /\ h[all[i]].nRandomPos = i
      <3>1. all[i] \in DOMAIN h
        BY <1>12, <1>15 DEF Holds
      <3>2. h[all[i]].nRandomPos \in 1..Len(all) /\ all[h[all[i]].nRandomPos] = all[i]
        BY <2>1, <3>1
      <3> QED
        BY <1>12, <3>1, <3>2 DEF Once
    <2> QED
      BY <2>1, <2>2 DEF RandomInv
  <1>19. NewInv(h, w, {}) /\ NewOf(h) = N /\ TriedOf(h) = T
    BY <1>3, <1>17, SameKeeps DEF N, T
  <1>20. TriedInv(h, vt)
    <2>1. \A k \in TriedBucket : \A i \in 1..Len(vt[k]) : vt[k][i] \in T /\ GetTriedBucket[vt[k][i]] = k
      BY <1>5 DEF Holds
    <2>2. \A a \in T : a \in DOMAIN h /\ h[a].fInTried
      BY <1>4, <1>15, <1>16
    <2>3. ASSUME NEW a \in DOMAIN h, h[a].fInTried
          PROVE  /\ h[a].nLastSuccess # 0
                 /\ \E i \in 1..Len(vt[GetTriedBucket[a]]) : vt[GetTriedBucket[a]][i] = a
      <3>1. a \in DOMAIN f /\ f[a].fInTried /\ a \in T
        BY <1>4, <1>15, <1>16, <2>3
      <3>2. GetTriedBucket[a] \in TriedBucket
        BY <1>4, <3>1, AddrManConstants
      <3>3. f[a].nLastSuccess # 0
        BY <1>3, <3>1 DEF TriedInv
      <3>4. Holds(vt[GetTriedBucket[a]], a)
        BY <1>5, <3>1, <3>2
      <3> QED
        BY <1>15, <3>1, <3>3, <3>4 DEF Holds
    <2>4. \A k \in TriedBucket : \A i \in 1..Len(vt[k]) :
             vt[k][i] \in DOMAIN h /\ h[vt[k][i]].fInTried /\ GetTriedBucket[vt[k][i]] = k
      BY <2>1, <2>2
    <2> QED
      BY <1>5, <2>3, <2>4 DEF TriedInv
  <1>21. /\ r.mapInfo = h /\ r.vRandom = all /\ r.vvNew = w /\ r.vvTried = vt
         /\ r.nNew = Cardinality(N) /\ r.nTried = Cardinality(T) /\ r \in TablesType
    <2>1. Cardinality(N) \in Int /\ Cardinality(T) \in Int
      BY <1>4, FS_CardinalityType
    <2> HIDE DEF w
    <2> QED
      BY <1>2, <1>3, <1>6, <1>10, <1>12, <1>17, <2>1 DEF TablesType
  <1>22. TablesInv(r, {})
    <2>1. CountInv(r) /\ BoundInv(r)
      BY <1>3, <1>5, <1>19, <1>21 DEF CountInv, BoundInv
    <2> QED
      BY <1>18, <1>19, <1>20, <1>21, <2>1 DEF TablesInv
  <1>23. ASSUME NEW k \in TriedBucket
         PROVE  Range(vt[k]) = Range(m.vvTried[k])
    <2>1. m.vvTried[k] \in Seq(Addr)
      BY <1>3
    <2>2. \A x : x \in Range(m.vvTried[k]) <=> Holds(m.vvTried[k], x)
      BY <2>1 DEF Range, Holds
    <2> QED
      BY <1>5, <1>7, <2>2
  <1>24. Restored(m, r)
    BY <1>15, <1>21, <1>22, <1>23 DEF Restored, f
  <1> QED
    BY <1>24 DEF r, file

-----------------------------------------------------------------------------
(* The theorems.                                                            *)

\* The empty tables.
LEMMA InitKeepsTables ==
  ASSUME AddrInit
  PROVE  TablesInv(addrman, {})
  <1> DEFINE m == addrman
  <1>1. /\ m.mapInfo = [a \in {} |-> 0] /\ m.vRandom = <<>> /\ m.vvNew = [b \in NewBucket |-> {}]
        /\ m.vvTried = [k \in TriedBucket |-> <<>>] /\ m.nNew = 0 /\ m.nTried = 0
        /\ m = [mapInfo |-> m.mapInfo, vRandom |-> m.vRandom, vvNew |-> m.vvNew,
                vvTried |-> m.vvTried, nNew |-> m.nNew, nTried |-> m.nTried]
    BY DEF AddrInit
  <1> HIDE DEF m
  <1>2. DOMAIN m.mapInfo = {} /\ m.mapInfo \in Infos
    <2>1. m.mapInfo \in [{} -> EntryType]
      BY <1>1
    <2> QED
      BY <1>1, <2>1 DEF Infos
  <1>3. m \in TablesType
    <2>1. /\ m.vRandom \in Seq(Addr) /\ m.vvNew \in [NewBucket -> SUBSET Addr]
          /\ m.vvTried \in [TriedBucket -> Seq(Addr)] /\ m.nNew \in Int /\ m.nTried \in Int
      BY <1>1
    <2> QED
      BY <1>1, <1>2, <2>1 DEF TablesType
  <1>4. RandomInv(m.mapInfo, m.vRandom)
    BY <1>1, <1>2 DEF RandomInv
  <1>5. NewInv(m.mapInfo, m.vvNew, {})
    BY <1>1, <1>2 DEF NewInv
  <1>6. TriedInv(m.mapInfo, m.vvTried)
    BY <1>1, <1>2 DEF TriedInv, Once
  <1>7. CountInv(m)
    <2>1. NewOf(m.mapInfo) = {} /\ TriedOf(m.mapInfo) = {}
      BY <1>2 DEF NewOf, TriedOf
    <2> QED
      BY <1>1, <2>1, FS_EmptySet DEF CountInv
  <1>8. BoundInv(m)
    <2>1. NewBucketSize \in Nat /\ TriedBucketSize \in Nat
      BY AddrManConstants
    <2> QED
      BY <1>1, <2>1, FS_EmptySet DEF BoundInv
  <1> QED
    BY <1>3, <1>4, <1>5, <1>6, <1>7, <1>8 DEF TablesInv, m

\* A restart restores the tables.
LEMMA RestartRestores ==
  ASSUME TablesInv(addrman, {}), Restart
  PROVE  Restored(addrman, addrman')
  <1> DEFINE file == Serialize(addrman)
  <1>1. PICK new \in SetToSeqs(file.new), tried \in SetToSeqs(file.tried) :
           addrman' = Unserialize(file, new, tried)
    BY DEF Restart
  <1>2. file.new = NewOf(addrman.mapInfo) /\ file.tried = TriedOf(addrman.mapInfo)
    BY FileIs
  <1> HIDE DEF file
  <1>3. new \in SetToSeqs(NewOf(addrman.mapInfo)) /\ tried \in SetToSeqs(TriedOf(addrman.mapInfo))
    BY <1>1, <1>2
  <1>4. Restored(addrman, Unserialize(Serialize(addrman), new, tried))
    BY <1>3, UnserializeRestores
  <1> QED
    BY <1>1, <1>4 DEF file

\* Every step keeps the tables, and every tried entry.
LEMMA NextKeepsTables ==
  ASSUME TablesInv(addrman, {}), [AddrNext]_addrman
  PROVE  StepKeeps(addrman, addrman')
  <1>1. ASSUME NEW a \in Addr, NEW s \in Source, Add(a, s)
        PROVE  StepKeeps(addrman, addrman')
    BY <1>1, AddKeepsTables
  <1>2. ASSUME NEW a \in Addr, NEW t \in Times, Good(a, t)
        PROVE  StepKeeps(addrman, addrman')
    BY <1>2, GoodKeepsTables
  <1>3. CASE GetAddr
    <2>1. PICK i \in 1..Len(addrman.vRandom), j \in 1..Len(addrman.vRandom) :
             addrman' = SwapRandom(addrman, i, j)
      BY <1>3 DEF GetAddr
    <2>2. TablesInv(addrman', {})
      BY <2>1, SwapKeeps
    <2>3. SameEntries(addrman'.mapInfo, addrman.mapInfo)
      BY <2>1, SwapIs DEF TablesInv
    <2> QED
      BY <2>2, <2>3 DEF StepKeeps, SameEntries
  <1>4. CASE Restart
    BY <1>4, RestartRestores DEF Restored, StepKeeps
  <1>5. CASE addrman' = addrman
    BY <1>5 DEF StepKeeps
  <1> QED
    BY <1>1, <1>2, <1>3, <1>4, <1>5 DEF AddrNext

\* The invariant gives all that Check_ looks at, and the limits.
LEMMA InvIsConsistent ==
  ASSUME TablesInv(addrman, {})
  PROVE  TablesConsistent
  <1> DEFINE m == addrman
             f == m.mapInfo
             w == m.vvNew
             vt == m.vvTried
             rnd == m.vRandom
  <1>1. /\ f \in Infos /\ w \in [NewBucket -> SUBSET Addr] /\ rnd \in Seq(Addr)
        /\ vt \in [TriedBucket -> Seq(Addr)]
    BY TableFields DEF TablesInv
  <1>2. /\ RandomInv(f, rnd) /\ NewInv(f, w, {}) /\ TriedInv(f, vt)
        /\ m.nNew = Cardinality(NewOf(f)) /\ m.nTried = Cardinality(TriedOf(f))
        /\ \A b \in NewBucket : Cardinality(w[b]) <= NewBucketSize
        /\ \A k \in TriedBucket : Len(vt[k]) <= TriedBucketSize
    BY DEF TablesInv, CountInv, BoundInv
  <1> HIDE DEF f, w, vt, rnd
  <1>3. AddrTypeOK
    <2>1. DOMAIN f \subseteq Addr
      BY <1>1, InfoFields
    <2>2. ASSUME NEW a \in DOMAIN f
          PROVE  f[a].nRefCount \in 0..BucketsPerAddress /\ f[a].nLastSuccess \in Times \cup {0}
      <3>1. f[a].nRefCount \in Nat /\ f[a].nLastSuccess \in Times \cup {0} /\ BucketsPerAddress \in Nat
        BY <1>1, InfoFields, AddrManConstants
      <3>2. f[a].nRefCount <= BucketsPerAddress
        BY <1>2 DEF NewInv
      <3> QED
        BY <3>1, <3>2
    <2>3. \A b \in NewBucket : w[b] \subseteq Addr
      BY <1>1
    <2> QED
      BY <2>1, <2>2, <2>3 DEF AddrTypeOK, f, w
  <1>4. RandomExact
    <2>1. Once(rnd) /\ \A x : x \in DOMAIN f <=> Holds(rnd, x)
      BY <1>2 DEF RandomInv, Once, Holds
    <2>2. Cardinality(DOMAIN f) = Len(rnd)
      BY <1>1, <2>1, OnceCounts
    <2>3. DOMAIN rnd = 1..Len(rnd)
      BY <1>1
    <2>4. \A a \in DOMAIN f : f[a].nRandomPos \in DOMAIN rnd /\ rnd[f[a].nRandomPos] = a
      BY <1>2, <2>3 DEF RandomInv
    <2> QED
      BY <2>2, <2>4 DEF RandomExact, f, rnd
  <1>5. ASSUME NEW a \in Addr
        PROVE  LET places == {p \in TriedBucket \X (1..TriedBucketSize) :
                                 p[2] <= Len(vt[p[1]]) /\ vt[p[1]][p[2]] = a}
                   refs   == Cardinality(BucketsOf(m, a))
               IN IF a \notin DOMAIN f
                  THEN places = {} /\ refs = 0
                  ELSE /\ f[a].nRefCount = refs
                       /\ IF f[a].fInTried
                          THEN /\ refs = 0 /\ f[a].nLastSuccess # 0
                               /\ \E i \in 1..TriedBucketSize : places = {<<GetTriedBucket[a], i>>}
                          ELSE refs # 0 /\ places = {}
    <2> DEFINE places == {p \in TriedBucket \X (1..TriedBucketSize) :
                             p[2] <= Len(vt[p[1]]) /\ vt[p[1]][p[2]] = a}
               refs == Cardinality(BucketsOf(m, a))
    <2>1. /\ BucketsOf(m, a) = Holders(w, a) /\ IsFiniteSet(Holders(w, a)) /\ refs \in Nat
          /\ (refs = 0 <=> Holders(w, a) = {})
      <3>1. BucketsOf(m, a) = Holders(w, a)
        BY DEF BucketsOf, Holders, w
      <3>2. IsFiniteSet(Holders(w, a))
        BY <1>1, FiniteParts
      <3> QED
        BY <3>1, <3>2, FS_CardinalityType, FS_EmptySet
    <2>2. ASSUME NEW p \in places
          PROVE  /\ p[1] \in TriedBucket /\ p[2] \in 1..Len(vt[p[1]]) /\ p = <<p[1], p[2]>>
                 /\ a \in DOMAIN f /\ f[a].fInTried /\ p[1] = GetTriedBucket[a] /\ vt[p[1]][p[2]] = a
      <3>1. /\ p[1] \in TriedBucket /\ p[2] \in 1..TriedBucketSize /\ p = <<p[1], p[2]>>
            /\ p[2] <= Len(vt[p[1]]) /\ vt[p[1]][p[2]] = a
        OBVIOUS
      <3>2. Len(vt[p[1]]) \in Nat
        BY <1>1, <3>1
      <3>3. p[2] \in 1..Len(vt[p[1]])
        BY <3>1, <3>2, AddrManConstants
      <3> HIDE DEF places
      <3> QED
        BY <1>2, <3>1, <3>3 DEF TriedInv
    <2> HIDE DEF refs
    <2>3. CASE a \notin DOMAIN f
      <3>1. Holders(w, a) = {}
        BY <1>2, <2>3 DEF NewInv, Holders
      <3> QED
        BY <2>1, <2>2, <2>3, <3>1 DEF refs
    <2>4. CASE a \in DOMAIN f
      <3>1. f[a].nRefCount = refs
        <4>1. f[a].nRefCount = Cardinality(Holders(w, a)) + 0
          BY <1>2, <2>4 DEF NewInv
        <4> QED
          BY <2>1, <4>1 DEF refs
      <3>2. CASE ~f[a].fInTried
        <4>1. Holders(w, a) # {}
          BY <1>2, <2>4, <3>2 DEF NewInv
        <4>2. places = {}
          BY <2>2, <3>2
        <4> HIDE DEF places
        <4> QED
          BY <2>1, <2>4, <3>1, <3>2, <4>1, <4>2 DEF places, refs
      <3>3. CASE f[a].fInTried
        <4> DEFINE k == GetTriedBucket[a]
        <4>1. Holders(w, a) = {}
          BY <1>2, <3>3 DEF NewInv, Holders
        <4>2. f[a].nLastSuccess # 0 /\ \E i \in 1..Len(vt[k]) : vt[k][i] = a
          BY <1>2, <2>4, <3>3 DEF TriedInv
        <4>3. k \in TriedBucket
          BY AddrManConstants
        <4> HIDE DEF k
        <4>4. PICK i \in 1..Len(vt[k]) : vt[k][i] = a
          BY <4>2
        <4>5. /\ i \in 1..TriedBucketSize /\ i <= Len(vt[k])
              /\ \A j \in 1..Len(vt[k]) : vt[k][j] = a => j = i
          <5>1. Len(vt[k]) \in Nat /\ Len(vt[k]) <= TriedBucketSize /\ TriedBucketSize \in Nat /\ Once(vt[k])
            BY <1>1, <1>2, <4>3, AddrManConstants DEF TriedInv
          <5> QED
            BY <4>4, <5>1 DEF Once
        <4>6. <<k, i>> \in places
          BY <4>3, <4>4, <4>5
        <4>7. ASSUME NEW p \in places
              PROVE  p = <<k, i>>
          <5>1. /\ p[2] \in 1..Len(vt[p[1]]) /\ p = <<p[1], p[2]>>
                /\ p[1] = k /\ vt[p[1]][p[2]] = a
            BY <2>2 DEF k
          <5>2. p[2] = i
            BY <4>5, <5>1
          <5> QED
            BY <5>1, <5>2
        <4> HIDE DEF places
        <4>8. places = {<<k, i>>}
          BY <4>6, <4>7
        <4> QED
          BY <2>1, <2>4, <3>1, <3>3, <4>1, <4>2, <4>5, <4>8 DEF places, refs, k
      <3> QED
        BY <3>2, <3>3
    <2> QED
      BY <2>3, <2>4
  <1>6. TablesExact
    BY <1>5 DEF TablesExact, f, vt
  <1>7. CountersExact
    <2>1. UNION {w[b] : b \in NewBucket} = NewOf(f)
      <3>1. \A x \in UNION {w[b] : b \in NewBucket} : x \in NewOf(f)
        BY <1>2 DEF NewInv, NewOf
      <3>2. ASSUME NEW x \in NewOf(f)
            PROVE  x \in UNION {w[b] : b \in NewBucket}
        <4>1. PICK b \in Holders(w, x) : TRUE
          BY <1>2 DEF NewInv, NewOf
        <4> QED
          BY <4>1 DEF Holders
      <3> QED
        BY <3>1, <3>2
    <2>2. TriedOf(f) = {a \in DOMAIN f : f[a].fInTried}
      BY DEF TriedOf
    <2> QED
      BY <1>2, <2>1, <2>2 DEF CountersExact, f, w
  <1>8. BucketsBounded
    BY <1>2 DEF BucketsBounded, w, vt
  <1> QED
    BY <1>3, <1>4, <1>6, <1>7, <1>8 DEF TablesConsistent

\* The invariant holds throughout.
LEMMA TablesInvHolds ==
  AddrSpec => []TablesInv(addrman, {})
  <1>1. AddrInit => TablesInv(addrman, {})
    BY InitKeepsTables
  <1>2. TablesInv(addrman, {}) /\ [AddrNext]_addrman => TablesInv(addrman, {})'
    BY NextKeepsTables DEF StepKeeps
  <1> QED
    BY <1>1, <1>2, PTL DEF AddrSpec

\* All that Check_ looks at, and the limits of the buckets, hold after any
\* sequence of Add_, Good_, GetAddr_ and restarts.
THEOREM TablesStayConsistent ==
  AddrSpec => []TablesConsistent
  <1>1. TablesInv(addrman, {}) => TablesConsistent
    BY InvIsConsistent
  <1> QED
    BY <1>1, TablesInvHolds, PTL

\* addrman.h of ShrinkNew: "They are never deleted while in the tried table,
\* only possibly evicted back to the new table".
THEOREM TriedAreKept ==
  AddrSpec => TriedNeverDeleted
  <1>1. TablesInv(addrman, {}) /\ [AddrNext]_addrman
           => [\A a \in DOMAIN addrman.mapInfo :
                  addrman.mapInfo[a].fInTried => a \in DOMAIN addrman'.mapInfo]_addrman
    BY NextKeepsTables DEF StepKeeps
  <1> QED
    BY <1>1, TablesInvHolds, PTL DEF AddrSpec, TriedNeverDeleted

\* Unserialize gives back the tables that Serialize wrote, although the file
\* holds neither the counts nor the tried buckets.
THEOREM RestartIsExact ==
  AddrSpec => RestartKeepsTables
  <1> DEFINE Kept ==
        Restart =>
          /\ addrman'.vvNew = addrman.vvNew
          /\ \A k \in TriedBucket : Range(addrman'.vvTried[k]) = Range(addrman.vvTried[k])
          /\ \A a \in DOMAIN addrman.mapInfo :
                /\ a \in DOMAIN addrman'.mapInfo
                /\ addrman'.mapInfo[a].nRefCount = addrman.mapInfo[a].nRefCount
  <1>1. TablesInv(addrman, {}) => Kept
    BY RestartRestores DEF Restored
  <1>2. TablesInv(addrman, {}) /\ [AddrNext]_addrman => [Kept]_addrman
    BY <1>1
  <1>3. RestartKeepsTables <=> [][Kept]_addrman
    BY DEF RestartKeepsTables
  <1> HIDE DEF Kept
  <1> QED
    BY <1>2, <1>3, TablesInvHolds, PTL DEF AddrSpec
=============================================================================
