------------------------------ MODULE AddrMan ------------------------------
(***************************************************************************)
(* CAddrMan: the addresses of other nodes, in "new" buckets until a        *)
(* connection has worked and in a "tried" bucket after that, with the      *)
(* redundant indexes that make every method fast: reference counts,        *)
(* counters, and the vector vRandom with each entry's place in it.  Every  *)
(* method holds `cs`; DumpAddresses writes the tables to peers.dat, and a  *)
(* start reads them back.                                                  *)
(*                                                                         *)
(* An entry is named by its network address: mapAddr and mapInfo change    *)
(* together, so the nId between them is left out, and with it the order    *)
(* of the nIds, in which a start rebuilds vRandom (here: any order).       *)
(* nTime, nLastTry, nAttempts and nServices only feed IsTerrible and       *)
(* GetChance, which decide among outcomes that are all possible; so        *)
(* Attempt_, Connected_ and Select_ change nothing here.                   *)
(***************************************************************************)
EXTENDS Integers, SeqFilter

CONSTANTS
    Addr,               \* routable addresses (CNetAddr)
    Source,             \* peers that tell of addresses
    NewBucket, TriedBucket,     \* indexes of vvNew and vvTried
    GetNewBucket,       \* GetNewBucket[a][s]: where a goes when s tells of it
    GetTriedBucket,     \* GetTriedBucket[a]
    NewBucketSize,      \* ADDRMAN_NEW_BUCKET_SIZE
    TriedBucketSize,    \* ADDRMAN_TRIED_BUCKET_SIZE
    BucketsPerAddress,  \* ADDRMAN_NEW_BUCKETS_PER_ADDRESS
    InspectOnEvict,     \* ADDRMAN_TRIED_ENTRIES_INSPECT_ON_EVICT
    Times               \* times Good may be called with; the clock may go back

ASSUME AddrManConstants ==
    /\ GetNewBucket \in [Addr -> [Source -> NewBucket]]
    /\ GetTriedBucket \in [Addr -> TriedBucket]
    /\ {NewBucketSize, TriedBucketSize, BucketsPerAddress, InspectOnEvict} \subseteq Nat \ {0}
    /\ Times \subseteq Nat \ {0}
    /\ IsFiniteSet(Addr) /\ IsFiniteSet(NewBucket)

VARIABLES
    addrman     \* a record of the members of CAddrMan:
                \*   mapInfo : address -> entry
                \*   vRandom : sequence of addresses (positions count from 1)
                \*   vvNew   : bucket -> set of addresses
                \*   vvTried : bucket -> sequence of addresses
                \*   nNew, nTried : counters

Entry == [source : Source, nLastSuccess : Nat, nRefCount : Nat,
          fInTried : BOOLEAN, nRandomPos : Nat]

\* The new buckets that hold an address.
BucketsOf(m, a) == {b \in NewBucket : a \in m.vvNew[b]}

-----------------------------------------------------------------------------
(***************************************************************************)
(* The private methods, as functions from one state of the tables to the   *)
(* next, or to the set of those that chance allows.                        *)
(***************************************************************************)

Create(m, a, s) ==
    LET entry == [source |-> s, nLastSuccess |-> 0, nRefCount |-> 0, fInTried |-> FALSE,
                  nRandomPos |-> Len(m.vRandom) + 1]
    IN [m EXCEPT !.mapInfo = [x \in DOMAIN @ \cup {a} |-> IF x = a THEN entry ELSE @[x]],
                 !.vRandom = Append(@, a)]

SwapRandom(m, i, j) ==
    LET a == m.vRandom[i]
        b == m.vRandom[j]
    IN [m EXCEPT !.vRandom = [@ EXCEPT ![i] = b, ![j] = a],
                 !.mapInfo = [@ EXCEPT ![a].nRandomPos = j, ![b].nRandomPos = i]]

\* A slip: the entry is deleted although other buckets may hold it.
ReleaseAll(m, a, b) ==
    LET last == SwapRandom(m, m.mapInfo[a].nRandomPos, Len(m.vRandom))
    IN [last EXCEPT !.vvNew[b] = @ \ {a}, !.nNew = @ - 1,
                    !.vRandom = Front(last.vRandom),
                    !.mapInfo = Restrict(last.mapInfo, DOMAIN last.mapInfo \ {a})]

\* ShrinkNew lets go of an entry of bucket b; the last reference deletes it.
Release(m, a, b) ==
    LET out  == [m EXCEPT !.vvNew[b] = @ \ {a}, !.mapInfo[a].nRefCount = @ - 1]
        last == SwapRandom(out, out.mapInfo[a].nRandomPos, Len(out.vRandom))
    IN IF out.mapInfo[a].nRefCount # 0 THEN out
       ELSE [last EXCEPT !.vRandom = Front(last.vRandom),
                         !.mapInfo = Restrict(last.mapInfo, DOMAIN last.mapInfo \ {a}),
                         !.nNew = @ - 1]

\* Which entry goes is a matter of ages and chance: the first one that is
\* terrible, else the oldest of four picked at random, possibly all the same.
ShrinkNew(m, b) == {Release(m, a, b) : a \in m.vvNew[b]}

\* SelectTried: a random shuffle of the first entries of a tried bucket, and
\* the position noted while looking for the least recent success.  The
\* position is the one the entry was taken from, not the one it was put at.
SelectTried(m, k) ==
    LET size == Len(m.vvTried[k])
        n    == IF size < InspectOnEvict THEN size ELSE InspectOnEvict
        nLastSuccess(a) == m.mapInfo[a].nLastSuccess
        Shuffle(nPos) ==
            LET after[i \in 0..n] ==
                  IF i = 0 THEN [vTried |-> m.vvTried[k], nOldest |-> 0, nOldestPos |-> 0]
                  ELSE LET was   == after[i - 1]
                           nTemp == was.vTried[nPos[i]]
                           older == i = 1 \/ nLastSuccess(nTemp) < nLastSuccess(was.nOldest)
                       IN [vTried     |-> [was.vTried EXCEPT ![nPos[i]] = was.vTried[i], ![i] = nTemp],
                           nOldest    |-> IF older THEN nTemp ELSE was.nOldest,
                           nOldestPos |-> IF older THEN nPos[i] ELSE was.nOldestPos]
            IN after[n]
    IN {Shuffle(nPos) : nPos \in {p \in [1..n -> 1..size] : \A i \in 1..n : p[i] >= i}}

\* The address leaves all its new buckets.
LeaveNew(m, a) ==
    [m EXCEPT !.vvNew = [b \in NewBucket |-> m.vvNew[b] \ {a}],
              !.mapInfo[a].nRefCount = @ - Cardinality(BucketsOf(m, a)),
              !.nNew = @ - 1]

\* A slip: an evicted entry is dropped.
EvictForGood(m, a, k, sel, nOrigin) ==
    LET old == sel.vTried[sel.nOldestPos]
        out == SwapRandom(m, m.mapInfo[old].nRandomPos, Len(m.vRandom))
    IN [out EXCEPT !.vvTried[k] = [sel.vTried EXCEPT ![sel.nOldestPos] = a],
                   !.vRandom = Front(out.vRandom),
                   !.mapInfo = [x \in DOMAIN out.mapInfo \ {old} |->
                                   [out.mapInfo[x] EXCEPT !.fInTried = @ \/ x = a]]]

\* The entry SelectTried points at makes room for a, and goes back to the new
\* bucket of its source or, if that is full, to the one a came from.
Evict(m, a, k, sel, nOrigin) ==
    LET old     == sel.vTried[sel.nOldestPos]
        nUBucket == GetNewBucket[old][m.mapInfo[old].source]
        to      == IF Cardinality(m.vvNew[nUBucket]) < NewBucketSize THEN nUBucket ELSE nOrigin
    IN [m EXCEPT !.vvTried[k] = [sel.vTried EXCEPT ![sel.nOldestPos] = a],
                 !.vvNew[to] = @ \cup {old},
                 !.mapInfo = [@ EXCEPT ![old].fInTried = FALSE, ![old].nRefCount = 1,
                                       ![a].fInTried = TRUE],
                 !.nNew = @ + 1]

MakeTried(m, a, nOrigin) ==
    LET out == LeaveNew(m, a)
        k   == GetTriedBucket[a]
    IN IF Len(out.vvTried[k]) < TriedBucketSize
       THEN {[out EXCEPT !.vvTried[k] = Append(@, a), !.nTried = @ + 1,
                         !.mapInfo[a].fInTried = TRUE]}
       ELSE {Evict(out, a, k, sel, nOrigin) : sel \in SelectTried(out, k)}

-----------------------------------------------------------------------------
AddrInit ==
    addrman = [mapInfo |-> [a \in {} |-> 0], vRandom |-> <<>>,
               vvNew |-> [b \in NewBucket |-> {}], vvTried |-> [k \in TriedBucket |-> <<>>],
               nNew |-> 0, nTried |-> 0]

\* Add_'s early returns for an address that is known: it must not be in a tried
\* bucket nor in its full number of new ones.  Whether the message has news of
\* it, and the stochastic test, are open.
Updatable(a) ==
    a \in DOMAIN addrman.mapInfo => /\ ~addrman.mapInfo[a].fInTried
                                    /\ addrman.mapInfo[a].nRefCount # BucketsPerAddress

Add(a, s) ==
    LET created == IF a \in DOMAIN addrman.mapInfo THEN addrman
                   ELSE [Create(addrman, a, s) EXCEPT !.nNew = @ + 1]
        b       == GetNewBucket[a][s]
        counted == [created EXCEPT !.mapInfo[a].nRefCount = @ + 1]
    IN /\ Updatable(a)
       /\ a \notin created.vvNew[b]
       /\ \E m \in IF Cardinality(counted.vvNew[b]) = NewBucketSize THEN ShrinkNew(counted, b)
                   ELSE {counted} :
             addrman' = [m EXCEPT !.vvNew[b] = @ \cup {a}]

\* Good_: the connection to a has worked.
Good(a, nTime) ==
    /\ a \in DOMAIN addrman.mapInfo
    /\ LET seen == [addrman EXCEPT !.mapInfo[a].nLastSuccess = nTime]
       IN IF seen.mapInfo[a].fInTried \/ BucketsOf(seen, a) = {}
          THEN addrman' = seen
          ELSE \E nUBucket \in BucketsOf(seen, a) : addrman' \in MakeTried(seen, a, nUBucket)

\* GetAddr_ shuffles the front of vRandom while it gathers addresses; a call
\* is a series of such swaps, of any length.
GetAddr ==
    \E i, j \in 1..Len(addrman.vRandom) : i < j /\ addrman' = SwapRandom(addrman, i, j)

-----------------------------------------------------------------------------
(***************************************************************************)
(* peers.dat.  The file holds the entries without nRefCount, fInTried and  *)
(* nRandomPos, new ones first, and the contents of the new buckets.  A     *)
(* process that dies starts again from an older file, which is the restart *)
(* of an earlier state; so the file needs no variable of its own.          *)
(***************************************************************************)
Serialize(m) ==
    [entry |-> [a \in DOMAIN m.mapInfo |->
                   [source |-> m.mapInfo[a].source, nLastSuccess |-> m.mapInfo[a].nLastSuccess]],
     new   |-> {a \in DOMAIN m.mapInfo : m.mapInfo[a].nRefCount # 0},
     tried |-> {a \in DOMAIN m.mapInfo : m.mapInfo[a].fInTried},
     vvNew |-> m.vvNew]

\* The tried entries of the file that belong to bucket k.
InBucket(tried, k) == {a \in tried : GetTriedBucket[a] = k}

\* A slip: the references are not counted again.
UnserializeOneReference(file, new, tried) ==
    LET all == new \o tried
    IN [mapInfo |-> [a \in file.new \cup file.tried |->
            [source |-> file.entry[a].source, nLastSuccess |-> file.entry[a].nLastSuccess,
             nRefCount |-> IF a \in file.new THEN 1 ELSE 0,
             fInTried |-> a \in file.tried, nRandomPos |-> CHOOSE i \in DOMAIN all : all[i] = a]],
        vRandom |-> all, vvNew |-> file.vvNew,
        vvTried |-> [k \in TriedBucket |-> Those(tried, InBucket(file.tried, k))],
        nNew |-> Cardinality(file.new), nTried |-> Len(tried)]

\* Unserialize, with the orders in which the file lists the entries: the
\* indexes are built anew, references are counted up to the limit, and a
\* tried entry that finds its bucket full is lost.
Unserialize(file, new, tried) ==
    LET bucket(k) == Those(tried, InBucket(file.tried, k))
        vvTried   == [k \in TriedBucket |->
                        SubSeq(bucket(k), 1, IF Len(bucket(k)) < TriedBucketSize
                                             THEN Len(bucket(k)) ELSE TriedBucketSize)]
        kept      == Those(tried, {a \in file.tried : a \in Range(vvTried[GetTriedBucket[a]])})
        all       == new \o kept
        nRefs(a)  == Cardinality({b \in NewBucket : a \in file.vvNew[b]})
    IN [mapInfo |-> [a \in file.new \cup Range(kept) |->
            [source |-> file.entry[a].source, nLastSuccess |-> file.entry[a].nLastSuccess,
             nRefCount |-> IF nRefs(a) < BucketsPerAddress THEN nRefs(a) ELSE BucketsPerAddress,
             fInTried |-> a \in Range(kept), nRandomPos |-> CHOOSE i \in DOMAIN all : all[i] = a]],
        vRandom |-> all, vvNew |-> file.vvNew, vvTried |-> vvTried,
        nNew |-> Cardinality(file.new), nTried |-> Len(kept)]

Restart ==
    LET file == Serialize(addrman) IN
    \E new \in SetToSeqs(file.new), tried \in SetToSeqs(file.tried) :
        addrman' = Unserialize(file, new, tried)

AddrNext ==
    \/ \E a \in Addr : (\E s \in Source : Add(a, s)) \/ (\E t \in Times : Good(a, t))
    \/ GetAddr \/ Restart

AddrSpec == AddrInit /\ [][AddrNext]_addrman

-----------------------------------------------------------------------------
(***************************************************************************)
(* Properties.                                                             *)
(***************************************************************************)

\* The types of the tables.
AddrTypeOK ==
    /\ DOMAIN addrman.mapInfo \subseteq Addr
    /\ \A a \in DOMAIN addrman.mapInfo :
          /\ addrman.mapInfo[a].nRefCount \in 0..BucketsPerAddress
          /\ addrman.mapInfo[a].nLastSuccess \in Times \cup {0}
    /\ \A b \in NewBucket : addrman.vvNew[b] \subseteq Addr

\* vRandom holds every entry once, where the entry says it is: what SwapRandom
\* asserts, and what makes deleting the last element after a swap delete the
\* right one (Check_ -14).
RandomExact ==
    /\ Len(addrman.vRandom) = Cardinality(DOMAIN addrman.mapInfo)
    /\ \A a \in DOMAIN addrman.mapInfo :
          /\ addrman.mapInfo[a].nRandomPos \in DOMAIN addrman.vRandom
          /\ addrman.vRandom[addrman.mapInfo[a].nRandomPos] = a

\* Every entry is either in one place of one tried bucket, its own, or in as
\* many new buckets as its reference count says, at least one (Check_ -1 to
\* -4 and -11 to -15; MakeTried asserts the count).  Without this an address
\* is deleted while a bucket names it, or never can be.
TablesExact ==
    \A a \in Addr :
        LET places == {p \in TriedBucket \X (1..TriedBucketSize) :
                          /\ p[2] <= Len(addrman.vvTried[p[1]])
                          /\ addrman.vvTried[p[1]][p[2]] = a}
            refs   == Cardinality(BucketsOf(addrman, a))
        IN IF a \notin DOMAIN addrman.mapInfo
           THEN places = {} /\ refs = 0
           ELSE /\ addrman.mapInfo[a].nRefCount = refs
                /\ IF addrman.mapInfo[a].fInTried
                   THEN /\ refs = 0 /\ addrman.mapInfo[a].nLastSuccess # 0
                        /\ \E i \in 1..TriedBucketSize : places = {<<GetTriedBucket[a], i>>}
                   ELSE refs # 0 /\ places = {}

\* The counters agree with the buckets (Check_ -7, -9 and -10).  Select_ looks
\* for a nonempty bucket of the kind the counters promise, in a loop that
\* nothing else ends and that holds cs.
CountersExact ==
    /\ addrman.nTried = Cardinality({a \in DOMAIN addrman.mapInfo : addrman.mapInfo[a].fInTried})
    /\ addrman.nNew = Cardinality(UNION {addrman.vvNew[b] : b \in NewBucket})

\* No bucket grows past its limit ("only keep a limited number of addresses
\* around"), although an entry evicted from a tried bucket goes back to a new
\* one.
BucketsBounded ==
    /\ \A b \in NewBucket : Cardinality(addrman.vvNew[b]) <= NewBucketSize
    /\ \A k \in TriedBucket : Len(addrman.vvTried[k]) <= TriedBucketSize

\* All that Check_ looks at, and the limits, after any sequence of calls and
\* restarts.
TablesConsistent == AddrTypeOK /\ RandomExact /\ TablesExact /\ CountersExact /\ BucketsBounded

\* addrman.h of ShrinkNew: "They are never deleted while in the tried table,
\* only possibly evicted back to the new table".
TriedNeverDeleted ==
    [][\A a \in DOMAIN addrman.mapInfo :
          addrman.mapInfo[a].fInTried => a \in DOMAIN addrman'.mapInfo]_addrman

\* A restart is exact: every address is in the buckets it was in, with the
\* same number of references, although neither counts nor tried buckets are in
\* the file.
RestartKeepsTables ==
    [][Restart =>
          /\ addrman'.vvNew = addrman.vvNew
          /\ \A k \in TriedBucket : Range(addrman'.vvTried[k]) = Range(addrman.vvTried[k])
          /\ \A a \in DOMAIN addrman.mapInfo :
                /\ a \in DOMAIN addrman'.mapInfo
                /\ addrman'.mapInfo[a].nRefCount = addrman.mapInfo[a].nRefCount]_addrman
=============================================================================
