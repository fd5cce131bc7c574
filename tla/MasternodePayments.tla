------------------------- MODULE MasternodePayments -------------------------
(***************************************************************************)
(* Who is paid by which block (masternode.cpp).  One node holds the key of *)
(* the payments master: after the blocks it accepts it votes for a         *)
(* masternode to be paid Ahead blocks later.  The votes spread by "inv",   *)
(* "getdata" and "mnw"; each node scores them with the hash of a block Lag *)
(* blocks back and keeps the best one of a height (vWinning), which        *)
(* CheckBlock then demands of the block.                                   *)
(*                                                                         *)
(* Blocks, the vote of the master and the cleaning hold cs_main and come   *)
(* from several threads (messages, staking, RPC, cleaning).  "mnw" holds   *)
(* no lock they know: it is three steps, its place `at`, and they run in   *)
(* between.  One that changes vWinning in the midst of the loop of "mnw"   *)
(* is a data race: the node is torn, and its loops may do any of what      *)
(* Weighings lists.                                                        *)
(*                                                                         *)
(* The chain is a trunk and the branches of Fork; a block is <<branch,     *)
(* height>>.  The master's list of masternodes and what Check says of each *)
(* change by themselves.                                                   *)
(***************************************************************************)
EXTENDS Integers, FiniteSets, SequencesExt

CONSTANTS
    Node, Signer,       \* the nodes and the one that signs votes
    Masternode,         \* the masternodes, by their collateral
    Steady,             \* those that stay in the list and enabled
    NoVin,              \* the empty CTxIn
    Fork, ForkHeight,   \* branches, and the last height they share
    FirstTip,           \* height of the tip at the start, and the lowest of a tip
    MaxHeight,          \* bound on the height of a tip
    MaxDrop,            \* bound on how far the tip is below the highest there was
    MaxSide,            \* bound on accepted blocks that are not on top of the tip
    MaxAway,            \* bound on the masternodes missing from the list at a time
    Lag,                \* 576
    Ahead,              \* 10
    Behind, Beyond,     \* 10 and 20: the heights around the tip "mnw" accepts
    KeepPaid,           \* what CleanPaymentList keeps behind the tip
    Score(_, _)         \* CalculateScore(block, masternode)

ASSUME PaymentsAssumption ==
    /\ Signer \in Node /\ Steady \subseteq Masternode /\ NoVin \notin Masternode
    /\ {FirstTip, MaxHeight, ForkHeight, Lag, Ahead, Behind, Beyond, KeepPaid, MaxAway, MaxDrop} \subseteq Nat
    /\ IsFiniteSet(Masternode)
    /\ Ahead <= Beyond /\ Beyond <= Lag
    /\ Lag # 0 /\ FirstTip <= MaxHeight

\* How far a reorganisation may lower the tip (557 blocks of the code): a height
\* that was cleaned is not accepted again, and the block a vote is scored with
\* is there whenever the vote was accepted.
ASSUME DropAssumption == Behind + MaxDrop <= KeepPaid /\ Beyond + MaxDrop <= Lag + 1

\* The chain is long enough for the first vote to be scored with a block of it.
ASSUME ChainAssumption == FirstTip + Ahead > Lag + 1

VARIABLES
    tip,            \* pindexBest of a node
    top,            \* history: the highest a tip of a node has been
    due,            \* the master has accepted a block and not voted yet
    cache,          \* mapCacheBlockHashes of a node
    vWinning,       \* vWinning of a node
    seen,           \* mapSeenMasternodeVotes of a node
    at, job,        \* the place of a node's "mnw", and its winnerIn
    torn,           \* history: nodes where vWinning was changed in the midst of "mnw"
    list,           \* the master's vecMasternodes
    down,           \* those of the list Check does not find enabled
    inv,            \* announcements under way, <<from, to, vote>>
    mnw,            \* votes under way, <<to, vote>>
    signed,         \* history: the votes that were signed
    synced,         \* <<asked, asking>>: the "mnget" that were sent
    side            \* history: accepted blocks that were not on top of the tip

chainVars == <<tip, top, side>>
listVars == <<list, down>>
payVars == <<chainVars, due, cache, vWinning, seen, at, job, torn, listVars, inv, mnw, signed, synced>>

\* A vote, by what its hash depends on.
VoteFor(h, m) == [height |-> h, vin |-> m]

NoJob == [height |-> 0, vin |-> NoVin, score |-> 0]

\* The blocks of a height, the ancestor of t at height h, and whether a is one.
BlocksAt(h) == (IF h <= ForkHeight THEN {"trunk"} ELSE Fork) \X {h}
AtHeight(t, h) == <<IF h <= ForkHeight THEN "trunk" ELSE t[1], h>>
IsAncestor(a, t) == a[2] <= t[2] /\ AtHeight(t, a[2]) = a

ASSUME ScoreAssumption ==
    \A h \in 1 .. MaxHeight : \A b \in BlocksAt(h), m \in Masternode \cup {NoVin} : Score(b, m) \in Int

PayInit ==
    /\ tip \in [Node -> BlocksAt(FirstTip)]
    /\ top = [n \in Node |-> FirstTip] /\ due = FALSE
    /\ cache = [n \in Node |-> <<>>]
    /\ vWinning = [n \in Node |-> <<>>] /\ seen = [n \in Node |-> {}]
    /\ at = [n \in Node |-> "idle"] /\ job = [n \in Node |-> NoJob] /\ torn = {}
    /\ list = Masternode /\ down = {}
    /\ inv = {} /\ mnw = {} /\ signed = {} /\ synced = {} /\ side = 0

-----------------------------------------------------------------------------
\* GetBlockHash with the tip t: the key of the cache, and the height whose
\* block it stands for.
CacheKey(t, h) == IF h = 0 THEN t[2] ELSE h
HashedHeight(t, k) == IF k > 0 THEN k - 1 ELSE t[2]

\* The block the chain of t has for the key k, or nothing.
ReadChain(t, k) ==
    IF t[2] # 0 /\ k <= t[2] + 1 /\ HashedHeight(t, k) > 0
    THEN {AtHeight(t, HashedHeight(t, k))} ELSE {}

\* GetBlockHash: the block, or nothing.  What is cached is never dropped.
GetBlockHash(n, t, h) ==
    IF CacheKey(t, h) \in DOMAIN cache[n] THEN {cache[n][CacheKey(t, h)]}
    ELSE ReadChain(t, CacheKey(t, h))

\* The block it finds, if it finds one.
TheBlock(n, t, h) == CHOOSE b \in GetBlockHash(n, t, h) : TRUE

\* The entry GetBlockHash makes in the cache of n.  Test and entry are one
\* step: only a reorganisation of more than Lag - Beyond blocks between the two
\* would make another entry.
CacheBlockHash(n, t, h) ==
    cache' = [cache EXCEPT ![n] =
                IF GetBlockHash(n, t, h) = {} THEN @
                ELSE [k \in DOMAIN @ \cup {CacheKey(t, h)} |->
                         IF k \in DOMAIN @ THEN @[k] ELSE TheBlock(n, t, h)]]

\* winnerIn with its score.
Scored(n, t, v) == [height |-> v.height, vin |-> v.vin,
                    score |-> Score(TheBlock(n, t, v.height - Lag), v.vin)]

\* A slip: the latest vote of a height wins.
ReplacesAlways(w, e) == w.height = e.height

\* AddWinningMasternode replaces the winner w by e.
Replaces(w, e) == w.height = e.height /\ w.score < e.score

\* AddWinningMasternode: what becomes of the winners win, whether the entry e
\* opens its height, and whether it was taken.
AddWinningMasternode(win, e) ==
    LET found  == \E i \in DOMAIN win : win[i].height = e.height
        beaten == {i \in DOMAIN win : Replaces(win[i], e)}
        first  == {i \in beaten : \A j \in beaten : i <= j}
    IN  [win |-> IF found THEN [i \in DOMAIN win |-> IF i \in first THEN e ELSE win[i]]
                 ELSE Append(win, e),
         opened |-> ~found,
         taken |-> ~found \/ beaten # {}]

\* What the loop of AddWinningMasternode may do where it has met a change by
\* another thread: its write is lost, the height gets an entry again, or the
\* write falls on an entry that has moved there.
Weighings(win, e, race) ==
    IF ~race THEN {AddWinningMasternode(win, e)}
    ELSE [win : {win, Append(win, e)} \cup {[win EXCEPT ![i].vin = e.vin, ![i].score = e.score] : i \in DOMAIN win},
          opened : {FALSE}, taken : BOOLEAN]

\* CMasternodePayments::Relay.  Every peer is told; for one that has seen the
\* vote already the announcement changes nothing, and is left out.
Relay(n, v) == {<<n, p, v>> : p \in {q \in Node \ {n} : v \notin seen[q]}}

-----------------------------------------------------------------------------
\* A slip: the cycle is read from the oldest winner on.
LastPaymentsOldest(win) == {win[i].vin : i \in {j \in DOMAIN win : j <= Cardinality(list) + 1}}

\* vecLastPayments: the winners of one payment cycle, and one more.
LastPayments(win) == {win[i].vin : i \in {j \in DOMAIN win : j >= Len(win) - Cardinality(list)}}

\* The votes ProcessBlock may choose; it shuffles the list first.
Candidates(h) ==
    LET unpaid == (list \ down) \ LastPayments(vWinning[Signer])
    IN  CASE unpaid # {} -> {VoteFor(h, m) : m \in unpaid}
          [] unpaid = {} /\ list # {} -> {VoteFor(h, m) : m \in list}
          [] OTHER -> {VoteFor(0, NoVin)}

\* A change of vWinning on n by a thread that is not that of "mnw", in the midst
\* of its loop.
Tears(n) == torn' = IF at[n] = "loop" THEN torn \cup {n} ELSE torn

\* CMasternodePayments::ProcessBlock on the payments master, still under the
\* cs_main of the block.  The vote enters mapSeenMasternodeVotes only when it
\* opens its height.
ProcessBlock ==
    /\ due
    /\ due' = FALSE
    /\ Tears(Signer)
    /\ \E v \in LET h == tip[Signer][2] + Ahead IN
                  Candidates(h) \cup (IF Signer \in torn' THEN {VoteFor(h, m) : m \in list} ELSE {}) :
          /\ signed' = signed \cup {v}
          /\ CacheBlockHash(Signer, tip[Signer], v.height - Lag)
          /\ IF GetBlockHash(Signer, tip[Signer], v.height - Lag) = {}
             THEN UNCHANGED <<vWinning, seen, inv>>
             ELSE \E r \in Weighings(vWinning[Signer], Scored(Signer, tip[Signer], v), Signer \in torn') :
                    /\ vWinning' = [vWinning EXCEPT ![Signer] = r.win]
                    /\ seen' = IF r.opened THEN [seen EXCEPT ![Signer] = @ \cup {v}] ELSE seen
                    /\ inv' = IF r.taken THEN inv \cup Relay(Signer, v) ELSE inv
    /\ UNCHANGED <<chainVars, at, job, listVars, mnw, synced>>

\* n accepts a block that becomes the best one, or makes orphans of n the best:
\* on top of the tip, or of another branch, higher or lower.  The master votes
\* when the last orphan is through.
NewTip(n, b) ==
    /\ ~IsAncestor(b, tip[n])
    /\ b[2] >= top[n] - MaxDrop
    /\ side' = IF IsAncestor(tip[n], b) THEN side ELSE side + 1
    /\ side' <= MaxSide
    /\ tip' = [tip EXCEPT ![n] = b]
    /\ top' = [top EXCEPT ![n] = IF b[2] > @ THEN b[2] ELSE @]
    /\ due' = (due \/ n = Signer)
    /\ UNCHANGED <<cache, vWinning, seen, at, job, torn, listVars, inv, mnw, signed, synced>>

\* The payments master accepts a block of a branch that does not become the best.
SideBlock ==
    /\ side < MaxSide
    /\ side' = side + 1
    /\ due' = TRUE
    /\ UNCHANGED <<tip, top, cache, vWinning, seen, at, job, torn, listVars, inv, mnw, signed, synced>>

\* "inv" reaches n, which asks for a vote it has not seen; ProcessGetData of p
\* finds it in mapSeenMasternodeVotes or says nothing.
GetData(p, n, v) ==
    /\ <<p, n, v>> \in inv
    /\ at[p] = "idle" /\ at[n] = "idle"
    /\ inv' = inv \ {<<p, n, v>>}
    /\ mnw' = IF v \in seen[p] \ seen[n] THEN mnw \cup {<<n, v>>} ELSE mnw
    /\ UNCHANGED <<chainVars, due, cache, vWinning, seen, at, job, torn, listVars, signed, synced>>

-----------------------------------------------------------------------------
(* "mnw".                                                                  *)

\* v is ignored: seen before, too far from the tip, or not signed by the master.
Ignored(n, v) ==
    \/ v \in seen[n]
    \/ v.height \notin (tip[n][2] - Behind) .. (tip[n][2] + Beyond)
    \/ v \notin signed

ReceiveVote(n, v) ==
    /\ <<n, v>> \in mnw
    /\ at[n] = "idle"
    /\ mnw' = mnw \ {<<n, v>>}
    /\ IF Ignored(n, v) THEN UNCHANGED <<seen, at, job>>
       ELSE /\ seen' = [seen EXCEPT ![n] = @ \cup {v}]
            /\ at' = [at EXCEPT ![n] = "weigh"]
            /\ job' = [job EXCEPT ![n] = [height |-> v.height, vin |-> v.vin, score |-> 0]]
    /\ UNCHANGED <<chainVars, due, cache, vWinning, torn, listVars, inv, signed, synced>>

\* The vote under way on n.
JobVote(n) == VoteFor(job[n].height, job[n].vin)

Returns(n) == at' = [at EXCEPT ![n] = "idle"] /\ job' = [job EXCEPT ![n] = NoJob]

\* The score, by the hash of a block of the chain as it is now.
WeighVote(n) ==
    /\ at[n] = "weigh"
    /\ CacheBlockHash(n, tip[n], job[n].height - Lag)
    /\ IF GetBlockHash(n, tip[n], job[n].height - Lag) = {} THEN Returns(n)
       ELSE /\ at' = [at EXCEPT ![n] = "loop"]
            /\ job' = [job EXCEPT ![n] = Scored(n, tip[n], JobVote(n))]
    /\ UNCHANGED <<chainVars, due, vWinning, seen, torn, listVars, inv, mnw, signed, synced>>

\* The loop of AddWinningMasternode, and Relay.
AddVote(n) ==
    /\ at[n] = "loop"
    /\ \E r \in Weighings(vWinning[n], job[n], n \in torn) :
          /\ vWinning' = [vWinning EXCEPT ![n] = r.win]
          /\ inv' = IF r.taken THEN inv \cup Relay(n, JobVote(n)) ELSE inv
    /\ Returns(n)
    /\ UNCHANGED <<chainVars, due, cache, seen, torn, listVars, mnw, signed, synced>>

-----------------------------------------------------------------------------
\* "mnget": n asks p, once, for its winners around the tip.
Sync(p, n) ==
    /\ <<p, n>> \notin synced
    /\ at[p] = "idle" /\ at[n] = "idle"
    /\ synced' = synced \cup {<<p, n>>}
    /\ mnw' = mnw \cup {<<n, VoteFor(w.height, w.vin)>> :
                w \in {x \in ToSet(vWinning[p]) :
                          /\ x.height \in (tip[p][2] - Behind) .. (tip[p][2] + Beyond)
                          /\ VoteFor(x.height, x.vin) \notin seen[n]}}
    /\ UNCHANGED <<chainVars, due, cache, vWinning, seen, at, job, torn, listVars, inv, signed>>

\* CleanPaymentList: the first winner that is old is removed.  It waits for the
\* cs_main of a block and its vote, not for "mnw": a vote under way for a height
\* that is removed meanwhile opens it again.
CleanPaymentList(n) ==
    LET win == vWinning[n]
        old == {i \in DOMAIN win : tip[n][2] - win[i].height > KeepPaid}
        first == {i \in old : \A j \in old : i <= j}
        late == at[n] = "weigh" /\ \E i \in first : win[i].height = job[n].height
    IN  /\ old # {}
        /\ n = Signer => ~due
        /\ torn' = IF at[n] = "loop" \/ late THEN torn \cup {n} ELSE torn
        /\ \E i \in IF n \in torn' THEN DOMAIN win ELSE first :
              vWinning' = [vWinning EXCEPT ![n] = RemoveAt(@, i)]
        /\ UNCHANGED <<chainVars, due, cache, seen, at, job, listVars, inv, mnw, signed, synced>>

\* The master's list changes: m leaves or comes back, is found disabled or enabled.
ListChange(m) ==
    /\ m \notin Steady
    /\ \/ /\ m \in list /\ Cardinality(Masternode \ list) < MaxAway
          /\ list' = list \ {m} /\ down' = down \ {m}
       \/ list' = list \cup {m} /\ m \notin list /\ UNCHANGED down
       \/ m \in list \ down /\ down' = down \cup {m} /\ UNCHANGED list
       \/ m \in down /\ down' = down \ {m} /\ UNCHANGED list
    /\ UNCHANGED <<chainVars, due, cache, vWinning, seen, at, job, torn, inv, mnw, signed, synced>>

PayNext ==
    \/ \E n \in Node, b \in UNION {BlocksAt(h) : h \in FirstTip .. MaxHeight} : NewTip(n, b)
    \/ SideBlock
    \/ ProcessBlock
    \/ \E x \in inv : GetData(x[1], x[2], x[3])
    \/ \E x \in mnw : ReceiveVote(x[1], x[2])
    \/ \E n \in Node : WeighVote(n) \/ AddVote(n)
    \/ \E p, n \in Node : p # n /\ Sync(p, n)
    \/ \E n \in Node : CleanPaymentList(n)
    \/ \E m \in Masternode : ListChange(m)

PaySpec == PayInit /\ [][PayNext]_payVars

-----------------------------------------------------------------------------
\* The types of the state; no winner is further ahead than "mnw" allows, of the
\* highest tip there was.
PayTypeOK ==
    /\ \A n \in Node : /\ tip[n] \in BlocksAt(tip[n][2])
                       /\ tip[n][2] \in FirstTip .. top[n] /\ top[n] - tip[n][2] <= MaxDrop
                       /\ at[n] \in {"idle", "weigh", "loop"}
                       /\ \A w \in ToSet(vWinning[n]) :
                             w.vin \in Masternode \cup {NoVin} /\ w.height <= top[n] + Beyond
    /\ due \in BOOLEAN /\ torn \subseteq Node
    /\ down \subseteq list /\ list \subseteq Masternode
    /\ inv \subseteq Node \X Node \X signed

\* The votes node n has weighed.
Weighed(n) == (IF at[n] = "idle" THEN seen[n] ELSE seen[n] \ {JobVote(n)})
              \cup (IF n = Signer THEN signed ELSE {})

\* A node has one winner for a height, and it is the furthest of all votes it
\* has weighed, whatever their order, and although its chain may have been
\* reorganised between them, and between the test of a vote and its loop: the
\* scores compared are of one block.  Not claimed once vWinning was changed in
\* the midst of a loop.
FurthestWins ==
    \A n \in Node \ torn : \A i \in DOMAIN vWinning[n] : LET w == vWinning[n][i] IN
        /\ \A j \in DOMAIN vWinning[n] : vWinning[n][j].height = w.height => i = j
        /\ \A v \in Weighed(n) : v.height = w.height =>
              \A b \in GetBlockHash(n, tip[n], v.height - Lag) : Score(b, v.vin) <= w.score

\* The same, for winners that are masternodes and not too far ahead.
WinnersSound == PayTypeOK /\ FurthestWins

\* While no block is accepted off the best chain and at most two masternodes
\* are missing from the list at a time, nobody waits for more than two payment
\* cycles: any 2N winners in a row name every steady masternode.  LastPayments
\* looks back by the length the list has now, so a list that shrinks further
\* for each vote forgets who was paid, and the others may take turns for ever.
NoneStarves ==
    LET win == vWinning[Signer]
        cycle == 2 * Cardinality(Masternode)
    IN  side = 0 /\ MaxAway <= 2 /\ Signer \notin torn => \A i \in 1 .. (Len(win) - cycle + 1) :
            \A m \in Steady : \E j \in i .. (i + cycle - 1) : win[j].vin = m

\* When every announcement and every vote has arrived, nodes with one tip pay
\* the furthest masternode that was voted for.
FurthestPaidByAll ==
    inv = {} /\ mnw = {} /\ (\A n \in Node : tip[n] = tip[Signer] /\ at[n] = "idle") =>
        \A n \in Node : \A i \in DOMAIN vWinning[n] :
            \A v \in signed : v.height = vWinning[n][i].height =>
                Score(AtHeight(tip[n], HashedHeight(tip[n], v.height - Lag)), v.vin) <= vWinning[n][i].score
=============================================================================
