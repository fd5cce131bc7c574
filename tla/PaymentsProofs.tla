--------------------------- MODULE PaymentsProofs ---------------------------
(***************************************************************************)
(* Proofs about the masternode payments (MasternodePayments), for any      *)
(* number of nodes, masternodes and branches and any score: the winner of  *)
(* a height is the furthest of all votes the node has weighed.             *)
(***************************************************************************)
EXTENDS MasternodePayments, FiniteSetTheorems, FunctionTheorems, WellFoundedInduction, TLAPS

-----------------------------------------------------------------------------
(* The inductive invariant.                                                   *)

Paid == Masternode \cup {NoVin}
Winner == [height : Nat, vin : Paid, score : Int]
Height == FirstTip .. MaxHeight
Block == UNION {BlocksAt(h) : h \in 1 .. MaxHeight}

(* The votes the payments master can sign.                                    *)
Vote == {VoteFor(0, NoVin)} \cup {VoteFor(h, m) : h \in {x \in Nat : x >= FirstTip + Ahead}, m \in Masternode}

(* The tips, each a block of its height and not far below the highest.        *)
TipTypes ==
    /\ tip \in [Node -> Block] /\ top \in [Node -> Nat]
    /\ \A n \in Node : /\ tip[n][2] \in Height /\ tip[n] \in BlocksAt(tip[n][2])
                       /\ tip[n][2] <= top[n] /\ top[n] - tip[n][2] <= MaxDrop

(* What is under way; a torn node may send what nobody signed.                *)
MessageTypes ==
    /\ seen \in [Node -> SUBSET signed] /\ signed \subseteq Vote
    /\ down \subseteq list /\ list \subseteq Masternode
    /\ inv \subseteq Node \X Node \X signed /\ mnw \subseteq Node \X [height : Nat, vin : Paid]
    /\ due \in BOOLEAN /\ torn \subseteq Node

(* mapCacheBlockHashes c of a node.                                           *)
CacheSound(c) == \E D \in SUBSET Int : c \in [D -> Block]

(* The winners win of a node with the cache c, whose tip was at most h high,
   after it has weighed the votes W: one for a height, scored with a block that
   is still cached, and furthest of all votes for that height.  A vote that was
   weighed has its winner until CleanPaymentList may remove it, and by then the
   height is out of the range of "mnw", wherever the tip goes.                *)
WinnerSound(win, c, h, W, i) ==
    /\ \A j \in DOMAIN win : win[j].height = win[i].height => i = j
    /\ win[i].height <= h + Beyond /\ win[i].height # Lag
    /\ win[i].height - Lag \in DOMAIN c
    /\ VoteFor(win[i].height, win[i].vin) \in W
    /\ \A v \in W : v.height = win[i].height => Score(c[v.height - Lag], v.vin) <= win[i].score

Known(win, v) == \E i \in DOMAIN win : win[i].height = v.height
Kept(win, h, v) == Known(win, v) \/ v.height < h - KeepPaid

NodeSound(win, c, h, W) ==
    /\ win \in Seq(Winner) /\ CacheSound(c)
    /\ \A i \in DOMAIN win : WinnerSound(win, c, h, W, i)
    /\ \A v \in W : Kept(win, h, v)

(* v opens its height only if no other vote for it was weighed.               *)
Fresh(win, W, v) == \A u \in W : u.height = v.height => Known(win, v) \/ u = v

(* The winner a vote v would be, scored with the block b.                     *)
Entry(v, b) == [height |-> v.height, vin |-> v.vin, score |-> Score(b, v.vin)]

(* What is so of every node, and of one that is not torn: there the vote that
   is in the midst of "mnw" is fresh, and its score is of the cached block.   *)
Loose(n) ==
    /\ vWinning[n] \in Seq(Winner) /\ CacheSound(cache[n])
    /\ \A i \in DOMAIN vWinning[n] : vWinning[n][i].height <= top[n] + Beyond
    /\ at[n] \in {"idle", "weigh", "loop"} /\ job[n] \in Winner
    /\ at[n] # "idle" => JobVote(n) \in seen[n] /\ job[n].height <= top[n] + Beyond

Strict(n) ==
    /\ NodeSound(vWinning[n], cache[n], top[n], Weighed(n))
    /\ at[n] # "idle" => Fresh(vWinning[n], Weighed(n), JobVote(n))
    /\ at[n] = "loop" => /\ job[n].height - Lag \in DOMAIN cache[n]
                         /\ job[n] = Entry(JobVote(n), cache[n][job[n].height - Lag])

NodeInv(n) == Loose(n) /\ (n \notin torn => Strict(n))

Domains == DOMAIN cache = Node /\ DOMAIN vWinning = Node /\ DOMAIN at = Node /\ DOMAIN job = Node

PayInv == TipTypes /\ MessageTypes /\ Domains /\ \A n \in Node : NodeInv(n)

-----------------------------------------------------------------------------
(* What the assumptions on the constants say, number by number.               *)
LEMMA ConstantFacts ==
    /\ Signer \in Node /\ NoVin \notin Masternode
    /\ FirstTip \in Nat /\ MaxHeight \in Nat /\ ForkHeight \in Nat /\ Lag \in Nat /\ MaxDrop \in Nat
    /\ Ahead \in Nat /\ Behind \in Nat /\ Beyond \in Nat /\ KeepPaid \in Nat
    /\ Ahead <= Beyond /\ Beyond <= Lag /\ Lag > 0
    /\ Behind + MaxDrop <= KeepPaid /\ Beyond + MaxDrop <= Lag + 1
    /\ FirstTip + Ahead > Lag + 1 /\ FirstTip > 1 /\ FirstTip <= MaxHeight
<1>1. /\ FirstTip \in Nat /\ MaxHeight \in Nat /\ ForkHeight \in Nat /\ Lag \in Nat /\ MaxDrop \in Nat
      /\ Ahead \in Nat /\ Behind \in Nat /\ Beyond \in Nat /\ KeepPaid \in Nat
    BY PaymentsAssumption
<1> QED BY <1>1, PaymentsAssumption, DropAssumption, ChainAssumption

(* A vote is for nobody, or for a height whose block of Lag back has a
   predecessor; its key in the cache is never 0.                              *)
LEMMA VoteFacts ==
    ASSUME NEW v \in Vote
    PROVE  /\ v.height \in Nat /\ v.vin \in Paid /\ v = VoteFor(v.height, v.vin)
           /\ v.height - Lag # 0 /\ v.height - Lag \in Int
           /\ v = VoteFor(0, NoVin) \/ (v.height - Lag > 1 /\ v # VoteFor(0, NoVin))
<1>1. CASE v = VoteFor(0, NoVin)
    BY <1>1, ConstantFacts DEF VoteFor, Paid
<1>2. CASE v # VoteFor(0, NoVin)
    <2>1. PICK h \in Nat, m \in Masternode : h >= FirstTip + Ahead /\ v = VoteFor(h, m)
        BY <1>2 DEF Vote
    <2>2. v.height = h /\ v.vin = m
        BY <2>1 DEF VoteFor
    <2> QED BY <1>2, <2>1, <2>2, ConstantFacts DEF Paid
<1> QED BY <1>1, <1>2

(* The score of a block for whom a vote names is a number.                    *)
LEMMA ScoreIsInt ==
    ASSUME NEW b \in Block, NEW m \in Paid
    PROVE  Score(b, m) \in Int
<1>1. PICK h \in 1 .. MaxHeight : b \in BlocksAt(h)
    BY DEF Block
<1> QED BY <1>1, ScoreAssumption DEF Paid

(* An ancestor of a block is a block of its height.                           *)
LEMMA AncestorIsBlock ==
    ASSUME NEW t \in Block, t \in BlocksAt(t[2]), t[2] \in Height, NEW h \in 1 .. t[2]
    PROVE  AtHeight(t, h) \in BlocksAt(h) /\ AtHeight(t, h) \in Block
<1>1. t[2] \in Nat /\ h \in 1 .. MaxHeight
    BY ConstantFacts DEF Height
<1>2. AtHeight(t, h) \in BlocksAt(h)
    BY <1>1, ConstantFacts DEF AtHeight, BlocksAt
<1> QED BY <1>1, <1>2 DEF Block

(* The height of a block.                                                     *)
LEMMA BlockHeight ==
    ASSUME NEW h, NEW b \in BlocksAt(h)
    PROVE  b[2] = h
BY DEF BlocksAt

-----------------------------------------------------------------------------
(* AddWinningMasternode and GetBlockHash on one node, as functions of it.     *)

Cached(c, k, b) == [x \in DOMAIN c \cup {k} |-> IF x \in DOMAIN c THEN c[x] ELSE b]
Put(win, e) == [i \in DOMAIN win |-> IF Replaces(win[i], e) THEN e ELSE win[i]]
Weigh(win, v, b) == IF Known(win, v) THEN Put(win, Entry(v, b)) ELSE Append(win, Entry(v, b))

(* The fields of a winner.                                                    *)
LEMMA WinnerFields ==
    ASSUME NEW win \in Seq(Winner), NEW i \in DOMAIN win
    PROVE  win[i] \in Winner /\ win[i].height \in Nat /\ win[i].vin \in Paid /\ win[i].score \in Int
<1>1. win[i] \in Winner
    OBVIOUS
<1> QED BY <1>1 DEF Winner

(* A block that is found enters the cache.                                    *)
LEMMA CachedSound ==
    ASSUME NEW c, CacheSound(c), NEW k \in Int, NEW b \in Block
    PROVE  CacheSound(Cached(c, k, b))
<1>1. PICK D \in SUBSET Int : c \in [D -> Block]
    BY DEF CacheSound
<1>2. Cached(c, k, b) \in [D \cup {k} -> Block]
    BY <1>1 DEF Cached
<1>3. D \cup {k} \in SUBSET Int
    BY <1>1
<1> QED BY <1>2, <1>3 DEF CacheSound

(* What was cached stays, and so do the winners scored with it.               *)
LEMMA CachedKeeps ==
    ASSUME NEW win, NEW c, NEW h, NEW W, NodeSound(win, c, h, W), NEW k \in Int, NEW b \in Block
    PROVE  NodeSound(win, Cached(c, k, b), h, W)
<1>1. /\ win \in Seq(Winner) /\ CacheSound(Cached(c, k, b))
      /\ \A i \in DOMAIN win : WinnerSound(win, c, h, W, i)
      /\ \A u \in W : Kept(win, h, u)
    BY CachedSound DEF NodeSound
<1>2. \A x \in DOMAIN c : x \in DOMAIN Cached(c, k, b) /\ Cached(c, k, b)[x] = c[x]
    BY DEF Cached
<1>3. ASSUME NEW i \in DOMAIN win
      PROVE  WinnerSound(win, Cached(c, k, b), h, W, i)
    BY <1>1, <1>2 DEF WinnerSound
<1> QED BY <1>1, <1>3 DEF NodeSound

(* The winner a vote would be.                                                *)
LEMMA EntryIsWinner ==
    ASSUME NEW v \in Vote, NEW b \in Block
    PROVE  /\ Entry(v, b) \in Winner
           /\ Entry(v, b).height = v.height /\ Entry(v, b).vin = v.vin
           /\ Entry(v, b).score = Score(b, v.vin) /\ Score(b, v.vin) \in Int
           /\ VoteFor(Entry(v, b).height, Entry(v, b).vin) = v
BY VoteFacts, ScoreIsInt DEF Entry, Winner

(* A vote for a height that has a winner: the further one stays.              *)
LEMMA PutSound ==
    ASSUME NEW win, NEW c, NEW h \in Nat, NEW W \in SUBSET Vote, NodeSound(win, c, h, W),
           NEW v \in Vote, Known(win, v), v.height - Lag \in DOMAIN c
    PROVE  NodeSound(Put(win, Entry(v, c[v.height - Lag])), c, h, W \cup {v})
<1> DEFINE b == c[v.height - Lag]
           e == Entry(v, b)
           w2 == Put(win, e)
<1>1. /\ win \in Seq(Winner) /\ CacheSound(c)
      /\ \A i \in DOMAIN win : WinnerSound(win, c, h, W, i)
      /\ \A u \in W : Kept(win, h, u)
    BY DEF NodeSound
<1>2. /\ e \in Winner /\ e.height = v.height /\ e.vin = v.vin /\ e.score = Score(b, v.vin)
      /\ e.score \in Int /\ VoteFor(e.height, e.vin) = v
    <2>1. b \in Block
        BY <1>1 DEF CacheSound
    <2> QED BY <2>1, EntryIsWinner
<1> HIDE DEF e
<1>3. w2 \in Seq(Winner) /\ DOMAIN w2 = DOMAIN win
    BY <1>1, <1>2 DEF Put
<1>5. ASSUME NEW i \in DOMAIN win
      PROVE  /\ w2[i].height = win[i].height /\ win[i] \in Winner
             /\ w2[i] = win[i] \/ (w2[i] = e /\ e.height = win[i].height)
             /\ win[i].height = v.height => w2[i].score >= e.score
             /\ w2[i].score >= win[i].score
    <2>1. win[i] \in Winner /\ win[i].score \in Int
        BY <1>1, WinnerFields
    <2>2. w2[i] = IF Replaces(win[i], e) THEN e ELSE win[i]
        BY DEF Put
    <2> QED BY <1>2, <2>1, <2>2 DEF Replaces
<1> HIDE DEF w2
<1>7. ASSUME NEW i \in DOMAIN w2
      PROVE  WinnerSound(w2, c, h, W \cup {v}, i)
    <2>1. i \in DOMAIN win /\ WinnerSound(win, c, h, W, i)
        BY <1>1, <1>3
    <2>2. \A j \in DOMAIN w2 : w2[j].height = w2[i].height => i = j
        BY <1>3, <1>5, <2>1 DEF WinnerSound
    <2>3. w2[i].height <= h + Beyond /\ w2[i].height # Lag /\ w2[i].height - Lag \in DOMAIN c
        BY <1>5, <2>1 DEF WinnerSound
    <2>4. VoteFor(w2[i].height, w2[i].vin) \in W \cup {v}
        BY <1>2, <1>5, <2>1 DEF WinnerSound
    <2>5. ASSUME NEW u \in W \cup {v}, u.height = w2[i].height
          PROVE  Score(c[u.height - Lag], u.vin) <= w2[i].score
        <3>1. u.height = win[i].height /\ w2[i].score \in Int /\ win[i].score \in Int
            BY <1>2, <1>5, <2>1, <2>5 DEF Winner
        <3>3. c[u.height - Lag] \in Block
            BY <1>1, <2>1, <3>1 DEF CacheSound, WinnerSound
        <3>4. Score(c[u.height - Lag], u.vin) \in Int
            BY <3>3, ScoreIsInt, VoteFacts
        <3>5. CASE u \in W
            BY <1>5, <2>1, <3>1, <3>4, <3>5 DEF WinnerSound
        <3>6. CASE u = v
            BY <1>2, <1>5, <2>1, <3>1, <3>6
        <3> QED BY <2>5, <3>5, <3>6
    <2> QED BY <2>2, <2>3, <2>4, <2>5 DEF WinnerSound
<1>8. ASSUME NEW u \in W \cup {v}
      PROVE  Kept(w2, h, u)
    BY <1>1, <1>3, <1>5 DEF Kept, Known
<1> QED BY <1>1, <1>3, <1>7, <1>8 DEF NodeSound, w2, e

(* A vote that opens its height: no other was weighed before it.              *)
LEMMA OpenSound ==
    ASSUME NEW win, NEW c, NEW h \in Nat, NEW W \in SUBSET Vote, NodeSound(win, c, h, W),
           NEW v \in Vote, v.height <= h + Beyond, Fresh(win, W, v), ~Known(win, v),
           v.height - Lag \in DOMAIN c
    PROVE  NodeSound(Append(win, Entry(v, c[v.height - Lag])), c, h, W \cup {v})
<1> DEFINE b == c[v.height - Lag]
           e == Entry(v, b)
           w2 == Append(win, e)
<1>1. /\ win \in Seq(Winner) /\ CacheSound(c)
      /\ \A i \in DOMAIN win : WinnerSound(win, c, h, W, i)
      /\ \A u \in W : Kept(win, h, u)
    BY DEF NodeSound
<1>2. /\ e \in Winner /\ e.height = v.height /\ e.vin = v.vin /\ e.score = Score(b, v.vin)
      /\ e.score \in Int /\ VoteFor(e.height, e.vin) = v
    <2>1. b \in Block
        BY <1>1 DEF CacheSound
    <2> QED BY <2>1, EntryIsWinner
<1> HIDE DEF e
<1> PICK last \in Nat : last = Len(win) + 1
    BY <1>1
<1>3. /\ w2 \in Seq(Winner) /\ last \in DOMAIN w2 /\ w2[last] = e /\ last \notin DOMAIN win
      /\ DOMAIN w2 = DOMAIN win \cup {last} /\ \A i \in DOMAIN win : w2[i] = win[i]
    BY <1>1, <1>2
<1> HIDE DEF w2
<1>6. ASSUME NEW u \in W, u.height = v.height
      PROVE  u = v
    BY <1>6 DEF Fresh
<1>7. ASSUME NEW i \in DOMAIN win
      PROVE  WinnerSound(w2, c, h, W \cup {v}, i)
    <2>1. WinnerSound(win, c, h, W, i) /\ win[i].height # v.height /\ w2[i] = win[i]
        BY <1>1, <1>3 DEF Known
    <2>2. \A j \in DOMAIN w2 : w2[j].height = w2[i].height => i = j
        BY <1>2, <1>3, <2>1 DEF WinnerSound
    <2>4. \A u \in W \cup {v} : u.height = w2[i].height => Score(c[u.height - Lag], u.vin) <= w2[i].score
        BY <2>1 DEF WinnerSound
    <2> QED BY <2>1, <2>2, <2>4 DEF WinnerSound
<1>8. WinnerSound(w2, c, h, W \cup {v}, last)
    <2>1. \A j \in DOMAIN w2 : w2[j].height = w2[last].height => last = j
        BY <1>2, <1>3 DEF Known
    <2>2. e.height <= h + Beyond /\ e.height # Lag
        BY <1>2, VoteFacts, ConstantFacts
    <2>3. \A u \in W \cup {v} : u.height = e.height => Score(c[u.height - Lag], u.vin) <= e.score
        BY <1>2, <1>6
    <2> QED BY <1>2, <1>3, <2>1, <2>2, <2>3 DEF WinnerSound
<1>9. ASSUME NEW u \in W \cup {v}
      PROVE  Kept(w2, h, u)
    BY <1>1, <1>2, <1>3 DEF Kept, Known
<1> QED BY <1>1, <1>3, <1>7, <1>8, <1>9 DEF NodeSound, w2, e

(* AddWinningMasternode in both cases.                                        *)
LEMMA WeighSound ==
    ASSUME NEW win, NEW c, NEW h \in Nat, NEW W \in SUBSET Vote, NodeSound(win, c, h, W),
           NEW v \in Vote, v.height <= h + Beyond, Fresh(win, W, v), v.height - Lag \in DOMAIN c
    PROVE  NodeSound(Weigh(win, v, c[v.height - Lag]), c, h, W \cup {v})
BY PutSound, OpenSound DEF Weigh

(* The heights that have a winner then.                                       *)
LEMMA WeighKnows ==
    ASSUME NEW win \in Seq(Winner), NEW v \in Vote, NEW b \in Block
    PROVE  /\ Known(Weigh(win, v, b), v)
           /\ \A u : Known(win, u) => Known(Weigh(win, v, b), u)
<1> DEFINE e == Entry(v, b)
<1>1. e \in Winner /\ e.height = v.height
    BY EntryIsWinner
<1> HIDE DEF e
<1>2. CASE Known(win, v)
    <2>1. /\ DOMAIN Put(win, e) = DOMAIN win
          /\ \A i \in DOMAIN win : Put(win, e)[i].height = win[i].height
        BY DEF Put, Replaces
    <2> QED BY <1>2, <2>1 DEF Weigh, Known, e
<1>3. CASE ~Known(win, v)
    <2>1. /\ \A i \in DOMAIN win : i \in DOMAIN Append(win, e) /\ Append(win, e)[i] = win[i]
          /\ Len(win) + 1 \in DOMAIN Append(win, e) /\ Append(win, e)[Len(win) + 1] = e
        BY <1>1
    <2> QED BY <1>1, <1>3, <2>1 DEF Weigh, Known, e
<1> QED BY <1>2, <1>3

(* The loop of AddWinningMasternode, where a height has one winner.           *)
LEMMA AddIs ==
    ASSUME NEW win \in Seq(Winner), NEW v, NEW b,
           \A i, j \in DOMAIN win : win[i].height = win[j].height => i = j
    PROVE  /\ AddWinningMasternode(win, Entry(v, b)).win = Weigh(win, v, b)
           /\ AddWinningMasternode(win, Entry(v, b)).opened = ~Known(win, v)
<1> DEFINE e == Entry(v, b)
           beaten == {i \in DOMAIN win : Replaces(win[i], e)}
           first == {i \in beaten : \A j \in beaten : i <= j}
<1>1. e.height = v.height
    BY DEF Entry
<1> HIDE DEF e
<1>2. \A i \in DOMAIN win : i \in first <=> Replaces(win[i], e)
    <2>1. ASSUME NEW i \in beaten, NEW j \in beaten
          PROVE  i <= j
        <3>1. i = j
            BY DEF Replaces
        <3>2. i \in Nat
            OBVIOUS
        <3> QED BY <3>1, <3>2
    <2> QED BY <2>1
<1> HIDE DEF first, beaten
<1>3. [i \in DOMAIN win |-> IF i \in first THEN e ELSE win[i]] = Put(win, e)
    BY <1>2 DEF Put
<1>4. (\E i \in DOMAIN win : win[i].height = e.height) <=> Known(win, v)
    BY <1>1 DEF Known
<1> USE DEF first, beaten
<1> QED BY <1>3, <1>4 DEF AddWinningMasternode, Weigh, e

(* What the loop leaves, torn or not, are winners, none further ahead.        *)
LEMMA WeighingsLoose ==
    ASSUME NEW win \in Seq(Winner), NEW e \in Winner, NEW race, NEW g \in Int, e.height <= g,
           \A i \in DOMAIN win : win[i].height <= g, NEW r \in Weighings(win, e, race)
    PROVE  r.win \in Seq(Winner) /\ \A i \in DOMAIN r.win : r.win[i].height <= g
<1> DEFINE Same(w) == w \in Seq(Winner) /\ \A i \in DOMAIN w : w[i].height <= g
<1>1. Same(win)
    OBVIOUS
<1>2. Same(Append(win, e))
    <2>1. Append(win, e) \in Seq(Winner) /\ Len(Append(win, e)) = Len(win) + 1
        OBVIOUS
    <2>2. ASSUME NEW i \in DOMAIN Append(win, e)
          PROVE  Append(win, e)[i].height <= g
        <3>1. CASE i \in DOMAIN win
            BY <3>1
        <3>2. CASE i = Len(win) + 1
            BY <3>2
        <3> QED BY <2>1, <3>1, <3>2
    <2> QED BY <2>1, <2>2
<1>3. ASSUME NEW S
      PROVE  Same([i \in DOMAIN win |-> IF i \in S THEN e ELSE win[i]])
    OBVIOUS
<1>4. ASSUME NEW k \in DOMAIN win
      PROVE  Same([win EXCEPT ![k].vin = e.vin, ![k].score = e.score])
    <2> DEFINE x == [win[k] EXCEPT !.vin = e.vin, !.score = e.score]
               w == [win EXCEPT ![k].vin = e.vin, ![k].score = e.score]
    <2>1. x \in Winner /\ x.height = win[k].height
        BY WinnerFields DEF Winner
    <2>2. w = [win EXCEPT ![k] = x]
        OBVIOUS
    <2> HIDE DEF x, w
    <2>3. Same(w)
        BY <2>1, <2>2
    <2> QED BY <2>3 DEF w
<1>5. CASE race
    <2>1. r.win \in {win, Append(win, e)} \cup {[win EXCEPT ![i].vin = e.vin, ![i].score = e.score] : i \in DOMAIN win}
        BY <1>5 DEF Weighings
    <2> HIDE DEF Same
    <2>2. Same(r.win)
        BY <1>1, <1>2, <1>4, <2>1
    <2> QED BY <2>2 DEF Same
<1>6. CASE ~race
    <2>1. r = AddWinningMasternode(win, e)
        BY <1>6 DEF Weighings
    <2> HIDE DEF Same
    <2>2. Same(r.win)
        BY <1>2, <1>3, <2>1 DEF AddWinningMasternode
    <2> QED BY <2>2 DEF Same
<1> QED BY <1>5, <1>6

(* A tip higher than all before keeps a node sound.                           *)
LEMMA HigherSound ==
    ASSUME NEW win, NEW c, NEW h \in Nat, NEW W \in SUBSET Vote, NodeSound(win, c, h, W),
           NEW g \in Nat, h <= g
    PROVE  NodeSound(win, c, g, W)
<1>1. /\ win \in Seq(Winner) /\ CacheSound(c)
      /\ \A i \in DOMAIN win : WinnerSound(win, c, h, W, i)
      /\ \A u \in W : Kept(win, h, u)
    BY DEF NodeSound
<1>2. ASSUME NEW i \in DOMAIN win
      PROVE  WinnerSound(win, c, g, W, i)
    <2>1. win[i].height \in Nat
        BY <1>1, WinnerFields
    <2>2. win[i].height <= g + Beyond
        BY <1>1, <2>1, ConstantFacts DEF WinnerSound
    <2> QED BY <1>1, <2>2 DEF WinnerSound
<1>3. ASSUME NEW u \in W
      PROVE  Kept(win, g, u)
    BY <1>1, VoteFacts, ConstantFacts DEF Kept
<1> QED BY <1>1, <1>2, <1>3 DEF NodeSound

(* A set of positions that is not empty has a first one.                      *)
LEMMA FirstExists ==
    ASSUME NEW S, S \subseteq Nat, S # {}
    PROVE  \E i \in S : \A j \in S : i <= j
<1>1. PICK n \in S : \A m \in S : ~(<<m, n>> \in OpToRel(<, Nat))
    BY NatLessThanWellFounded, WFMin
<1>2. \A m \in S : ~(m < n)
    BY <1>1 DEF OpToRel
<1> QED BY <1>2

(* What RemoveAt leaves of a sequence.                                        *)
LEMMA RemoveIs ==
    ASSUME NEW S, NEW s \in Seq(S), NEW i \in DOMAIN s
    PROVE  /\ RemoveAt(s, i) \in Seq(S) /\ Len(RemoveAt(s, i)) = Len(s) - 1
           /\ \A j \in 1 .. (Len(s) - 1) : RemoveAt(s, i)[j] = s[IF j < i THEN j ELSE j + 1]
<1> DEFINE x == SubSeq(s, 1, i - 1)
           y == SubSeq(s, i + 1, Len(s))
<1>1. i \in 1 .. Len(s) /\ Len(s) \in Nat
    OBVIOUS
<1>2. x \in Seq(S) /\ Len(x) = i - 1 /\ \A j \in 1 .. (i - 1) : x[j] = s[j]
    BY <1>1
<1>3. y \in Seq(S) /\ Len(y) = Len(s) - i /\ \A j \in 1 .. (Len(s) - i) : y[j] = s[i + j]
    BY <1>1
<1>4. RemoveAt(s, i) = x \o y
    BY DEF RemoveAt
<1> HIDE DEF x, y
<1>5. x \o y \in Seq(S) /\ Len(x \o y) = Len(s) - 1
    BY <1>1, <1>2, <1>3
<1>6. ASSUME NEW j \in 1 .. (Len(s) - 1)
      PROVE  (x \o y)[j] = s[IF j < i THEN j ELSE j + 1]
    <2>1. CASE j < i
        BY <1>1, <1>2, <1>3, <2>1
    <2>2. CASE ~(j < i)
        <3>1. j - (i - 1) \in 1 .. (Len(s) - i) /\ i + (j - (i - 1)) = j + 1
            BY <1>1, <2>2
        <3>2. (x \o y)[j] = y[j - (i - 1)]
            <4>1. x \in Seq(S) /\ y \in Seq(S) /\ Len(x) = i - 1 /\ Len(y) = Len(s) - i
                BY <1>2, <1>3
            <4>2. j \in (Len(x) + 1) .. (Len(x) + Len(y)) /\ j - Len(x) = j - (i - 1)
                BY <1>1, <2>2, <4>1
            <4> QED BY <4>1, <4>2, SMTT(30)
        <3>3. y[j - (i - 1)] = s[i + (j - (i - 1))]
            BY <1>3, <3>1
        <3>4. (x \o y)[j] = s[j + 1]
            BY <3>1, <3>2, <3>3
        <3> QED BY <2>2, <3>4
    <2> QED BY <2>1, <2>2
<1> QED BY <1>4, <1>5, <1>6

(* The other heights keep their winners.                                      *)
LEMMA RemoveKnows ==
    ASSUME NEW win \in Seq(Winner), NEW i \in DOMAIN win, NEW v, win[i].height # v.height, Known(win, v)
    PROVE  Known(RemoveAt(win, i), v)
<1> PICK r : r = RemoveAt(win, i)
    OBVIOUS
<1> PICK len \in Nat : len = Len(win)
    OBVIOUS
<1>1. r \in Seq(Winner) /\ Len(r) = len - 1 /\ \A j \in 1 .. (len - 1) : r[j] = win[IF j < i THEN j ELSE j + 1]
    BY RemoveIs, Zenon
<1>2. DOMAIN r = 1 .. (len - 1) /\ i \in 1 .. len
    BY <1>1
<1>3. PICK k \in 1 .. len : win[k].height = v.height
    BY DEF Known
<1>4. CASE k < i
    <2>1. k \in DOMAIN r /\ r[k] = win[k]
        BY <1>1, <1>2, <1>4
    <2> QED BY <1>3, <2>1 DEF Known
<1>5. CASE i < k
    <2>1. k - 1 \in DOMAIN r /\ ~(k - 1 < i) /\ k - 1 + 1 = k
        BY <1>2, <1>5
    <2>2. r[k - 1] = win[k]
        BY <1>1, <1>2, <2>1
    <2> QED BY <1>3, <2>1, <2>2 DEF Known
<1>6. k # i
    BY <1>3
<1> QED BY <1>2, <1>4, <1>5, <1>6

(* CleanPaymentList removes only what "mnw" would no longer take.             *)
LEMMA RemoveSound ==
    ASSUME NEW win, NEW c, NEW h \in Nat, NEW W \in SUBSET Vote, NodeSound(win, c, h, W),
           NEW i \in DOMAIN win, h - win[i].height > KeepPaid
    PROVE  NodeSound(RemoveAt(win, i), c, h, W)
<1>1. /\ win \in Seq(Winner) /\ CacheSound(c)
      /\ \A k \in DOMAIN win : WinnerSound(win, c, h, W, k)
      /\ \A u \in W : Kept(win, h, u)
    BY DEF NodeSound
<1> PICK r : r = RemoveAt(win, i)
    OBVIOUS
<1>2. /\ r \in Seq(Winner) /\ Len(r) = Len(win) - 1 /\ Len(win) \in Nat
      /\ \A j \in 1 .. (Len(win) - 1) : r[j] = win[IF j < i THEN j ELSE j + 1]
    <2>1. win \in Seq(Winner)
        BY <1>1
    <2> HIDE DEF NodeSound
    <2>2. /\ RemoveAt(win, i) \in Seq(Winner) /\ Len(RemoveAt(win, i)) = Len(win) - 1
          /\ \A j \in 1 .. (Len(win) - 1) : RemoveAt(win, i)[j] = win[IF j < i THEN j ELSE j + 1]
        BY <2>1, RemoveIs, Zenon
    <2>3. Len(win) \in Nat
        BY <2>1
    <2> QED BY <2>2, <2>3
<1> DEFINE pos(j) == IF j < i THEN j ELSE j + 1
<1>3. DOMAIN r = 1 .. (Len(win) - 1) /\ DOMAIN win = 1 .. Len(win)
    BY <1>1, <1>2
<1>4. ASSUME NEW j \in DOMAIN r
      PROVE  pos(j) \in DOMAIN win /\ r[j] = win[pos(j)]
    BY <1>2, <1>3
<1>5. \A j, k \in DOMAIN r : pos(j) = pos(k) => j = k
    BY <1>3
<1>6. ASSUME NEW k \in DOMAIN win, k # i
      PROVE  \E j \in DOMAIN r : pos(j) = k
    <2>1. CASE k < i
        BY <1>2, <1>3, <2>1
    <2>2. CASE k > i
        <3>1. k - 1 \in DOMAIN r /\ pos(k - 1) = k
            BY <1>2, <1>3, <2>2
        <3> QED BY <3>1
    <2> QED BY <1>3, <1>6, <2>1, <2>2
<1> HIDE DEF pos
<1>7. ASSUME NEW j \in DOMAIN r
      PROVE  WinnerSound(r, c, h, W, j)
    <2>1. WinnerSound(win, c, h, W, pos(j)) /\ r[j] = win[pos(j)]
        BY <1>1, <1>4
    <2>2. \A k \in DOMAIN r : r[k].height = r[j].height => j = k
        BY <1>4, <1>5, <2>1 DEF WinnerSound
    <2> QED BY <2>1, <2>2 DEF WinnerSound
<1>8. ASSUME NEW u \in W
      PROVE  Kept(r, h, u)
    <2>1. CASE u.height < h - KeepPaid
        BY <2>1 DEF Kept
    <2>2. CASE ~(u.height < h - KeepPaid)
        <3>1. PICK k \in DOMAIN win : win[k].height = u.height
            BY <1>1, <2>2 DEF Kept, Known
        <3>2. win[i].height \in Nat /\ u.height \in Nat
            BY <1>1, VoteFacts, WinnerFields
        <3>3. k # i
            BY <2>2, <3>1, <3>2, ConstantFacts
        <3>4. PICK j \in DOMAIN r : pos(j) = k
            BY <1>6, <3>3
        <3>5. r[j].height = u.height
            BY <1>4, <3>1, <3>4
        <3> QED BY <3>5 DEF Kept, Known
    <2> QED BY <2>1, <2>2
<1> QED BY <1>1, <1>2, <1>7, <1>8 DEF NodeSound

-----------------------------------------------------------------------------
(* GetBlockHash on a node finds a block for every vote that is near enough:
   the one it has cached, or one of its chain.                                *)
LEMMA HashFound ==
    ASSUME PayInv, NEW n \in Node, NEW v \in Vote, v.height <= top[n] + Beyond
    PROVE  /\ GetBlockHash(n, tip[n], v.height - Lag) = {TheBlock(n, tip[n], v.height - Lag)}
           /\ CacheKey(tip[n], v.height - Lag) = v.height - Lag
           /\ TheBlock(n, tip[n], v.height - Lag) \in Block
           /\ v.height - Lag \in DOMAIN cache[n] =>
                 TheBlock(n, tip[n], v.height - Lag) = cache[n][v.height - Lag]
<1> PICK t \in Block : t = tip[n]
    BY DEF PayInv, TipTypes
<1>t. t[2] \in Height /\ t \in BlocksAt(t[2]) /\ t[2] \in Nat /\ v.height <= t[2] + Lag + 1
    <2>1. t[2] \in Height /\ t \in BlocksAt(t[2]) /\ t[2] \in Nat
        BY ConstantFacts DEF PayInv, TipTypes, Height
    <2>2. top[n] \in Nat /\ top[n] - t[2] <= MaxDrop /\ v.height \in Nat
        BY VoteFacts DEF PayInv, TipTypes
    <2> QED BY <2>1, <2>2, ConstantFacts
<1> PICK k \in Int : k = v.height - Lag
    BY VoteFacts
<1>1. CacheKey(t, k) = k
    BY VoteFacts DEF CacheKey
<1>2. CASE k \in DOMAIN cache[n]
    <2>1. GetBlockHash(n, t, k) = {cache[n][k]}
        BY <1>1, <1>2 DEF GetBlockHash
    <2>2. TheBlock(n, t, k) = cache[n][k]
        BY <2>1 DEF TheBlock
    <2>3. cache[n][k] \in Block
        BY <1>2 DEF PayInv, NodeInv, Loose, CacheSound
    <2> QED BY <1>1, <2>1, <2>2, <2>3
<1>3. CASE k \notin DOMAIN cache[n]
    <2>1. t[2] \in Nat /\ t[2] > 1
        BY <1>t, ConstantFacts DEF Height
    <2>2. k <= t[2] + 1 /\ (k < 0 \/ k > 1)
        BY <1>t, <2>1, VoteFacts, ConstantFacts DEF VoteFor
    <2> PICK g \in 1 .. t[2] : g = HashedHeight(t, k)
        BY <2>1, <2>2 DEF HashedHeight
    <2>3. GetBlockHash(n, t, k) = {AtHeight(t, g)}
        BY <1>1, <1>3, <2>1, <2>2 DEF GetBlockHash, ReadChain
    <2>4. TheBlock(n, t, k) = AtHeight(t, g)
        BY <2>3 DEF TheBlock
    <2>5. AtHeight(t, g) \in Block
        BY <1>t, AncestorIsBlock
    <2> QED BY <1>1, <1>3, <2>3, <2>4, <2>5
<1> QED BY <1>2, <1>3

(* The entry in the cache, and the winner scored with it.                     *)
LEMMA CacheIs ==
    ASSUME PayInv, NEW n \in Node, NEW v \in Vote, v.height <= top[n] + Beyond,
           CacheBlockHash(n, tip[n], v.height - Lag)
    PROVE  \E b \in Block :
              /\ GetBlockHash(n, tip[n], v.height - Lag) # {}
              /\ Scored(n, tip[n], v) = Entry(v, b)
              /\ cache' = [cache EXCEPT ![n] = Cached(cache[n], v.height - Lag, b)]
              /\ v.height - Lag \in DOMAIN Cached(cache[n], v.height - Lag, b)
              /\ Cached(cache[n], v.height - Lag, b)[v.height - Lag] = b
<1> PICK b : b = TheBlock(n, tip[n], v.height - Lag)
    OBVIOUS
<1>1. /\ GetBlockHash(n, tip[n], v.height - Lag) = {b}
      /\ CacheKey(tip[n], v.height - Lag) = v.height - Lag
      /\ b \in Block /\ (v.height - Lag \in DOMAIN cache[n] => b = cache[n][v.height - Lag])
    BY HashFound
<1>2. GetBlockHash(n, tip[n], v.height - Lag) # {}
    BY <1>1
<1>3. Scored(n, tip[n], v) = Entry(v, b)
    BY DEF Scored, Entry
<1>4. cache' = [cache EXCEPT ![n] = Cached(cache[n], v.height - Lag, b)]
    BY <1>1, <1>2 DEF CacheBlockHash, Cached
<1>5. /\ v.height - Lag \in DOMAIN Cached(cache[n], v.height - Lag, b)
      /\ Cached(cache[n], v.height - Lag, b)[v.height - Lag] = b
    BY <1>1 DEF Cached
<1> QED BY <1>1, <1>2, <1>3, <1>4, <1>5

(* The votes a node has weighed were signed.                                  *)
LEMMA WeighedSigned ==
    ASSUME PayInv, NEW n \in Node
    PROVE  Weighed(n) \subseteq signed /\ Weighed(n) \in SUBSET Vote /\ seen[n] \subseteq Vote
BY DEF PayInv, MessageTypes, Weighed

(* The tip of a node.                                                         *)
LEMMA TipHeight ==
    ASSUME PayInv, NEW n \in Node
    PROVE  /\ tip[n][2] \in Nat /\ tip[n][2] \in Height /\ tip[n] \in BlocksAt(tip[n][2]) /\ tip[n] \in Block
           /\ top[n] \in Nat /\ tip[n][2] <= top[n] /\ tip[n][2] >= top[n] - MaxDrop
BY ConstantFacts DEF PayInv, TipTypes, Height

(* A vote for a height that is not cleaned yet is fresh.                      *)
LEMMA NearIsFresh ==
    ASSUME NEW win, NEW c, NEW h \in Nat, NEW W \in SUBSET Vote, NodeSound(win, c, h, W),
           NEW v \in Vote, v = VoteFor(0, NoVin) \/ v.height >= h - KeepPaid
    PROVE  Fresh(win, W, v)
<1> SUFFICES ASSUME NEW u \in W, u.height = v.height, ~Known(win, v)
             PROVE  u = v
    BY DEF Fresh
<1>1. u.height < h - KeepPaid
    BY DEF NodeSound, Kept, Known
<1>2. v = VoteFor(0, NoVin)
    BY <1>1, VoteFacts, ConstantFacts
<1>3. u = VoteFor(0, NoVin)
    BY <1>2, VoteFacts, ConstantFacts DEF VoteFor
<1> QED BY <1>2, <1>3

(* A node whose part of the state does not change.                            *)
Untouched(m) ==
    /\ vWinning'[m] = vWinning[m] /\ cache'[m] = cache[m] /\ seen'[m] = seen[m] /\ at'[m] = at[m]
    /\ job'[m] = job[m] /\ top'[m] = top[m] /\ (m \in torn => m \in torn')
    /\ m = Signer => signed' = signed

LEMMA UntouchedKeeps ==
    ASSUME PayInv, NEW m \in Node, Untouched(m)
    PROVE  NodeInv(m)'
<1>1. NodeInv(m)
    BY DEF PayInv
<1>2. JobVote(m)' = JobVote(m)
    BY DEF JobVote, Untouched
<1>3. Weighed(m)' = Weighed(m)
    BY <1>2 DEF Weighed, Untouched
<1>4. Loose(m)'
    BY <1>1, <1>2 DEF NodeInv, Loose, Untouched
<1>5. Strict(m) => Strict(m)'
    BY <1>2, <1>3 DEF Strict, Untouched
<1> QED BY <1>1, <1>4, <1>5 DEF NodeInv, Untouched

-----------------------------------------------------------------------------
(* Each action keeps the invariant.                                           *)

(* A step that leaves the tips and what every node has weighed.               *)
LEMMA QuietKeeps ==
    ASSUME PayInv, UNCHANGED <<tip, top, cache, vWinning, seen, at, job, torn, signed>>, MessageTypes'
    PROVE  PayInv'
<1>1. \A m \in Node : Untouched(m)
    BY DEF Untouched
<1>2. TipTypes' /\ Domains'
    BY DEF PayInv, TipTypes, Domains
<1> QED BY <1>1, <1>2, UntouchedKeeps DEF PayInv

(* A new tip, lower or higher.                                                *)
LEMMA NewTipKeeps ==
    ASSUME PayInv, NEW n \in Node, NEW b \in UNION {BlocksAt(h) : h \in FirstTip .. MaxHeight}, NewTip(n, b)
    PROVE  PayInv'
<1>1. PICK h \in Height : b \in BlocksAt(h)
    BY DEF Height
<1>2. b[2] = h /\ b \in BlocksAt(b[2]) /\ b[2] \in Height /\ b[2] \in Nat
    BY <1>1, BlockHeight, ConstantFacts DEF Height
<1>3. b \in Block
    <2>1. h \in 1 .. MaxHeight
        BY ConstantFacts DEF Height
    <2> QED BY <1>1, <2>1 DEF Block
<1> PICK g \in Nat : g = IF b[2] > top[n] THEN b[2] ELSE top[n]
    BY <1>2, TipHeight
<1>4. g >= top[n] /\ b[2] <= g /\ g - b[2] <= MaxDrop /\ top[n] \in Nat
    BY <1>2, TipHeight, ConstantFacts DEF NewTip
<1>5. /\ tip' = [tip EXCEPT ![n] = b] /\ top' = [top EXCEPT ![n] = g]
      /\ UNCHANGED <<cache, vWinning, seen, at, job, torn, list, down, inv, mnw, signed>>
    BY DEF NewTip, listVars
<1>6. TipTypes /\ MessageTypes
    BY DEF PayInv
<1>7. TipTypes'
    <2>1. tip' \in [Node -> Block] /\ top' \in [Node -> Nat]
        BY <1>3, <1>5, <1>6 DEF TipTypes
    <2>2. /\ tip'[n] = b /\ top'[n] = g
          /\ \A m \in Node \ {n} : tip'[m] = tip[m] /\ top'[m] = top[m]
        BY <1>5, <1>6 DEF TipTypes
    <2> QED BY <1>2, <1>4, <1>6, <2>1, <2>2 DEF TipTypes
<1>8. MessageTypes'
    <2>1. due' \in BOOLEAN
        BY <1>6 DEF NewTip, MessageTypes
    <2> QED BY <1>5, <1>6, <2>1 DEF MessageTypes
<1>9. ASSUME NEW m \in Node \ {n}
      PROVE  NodeInv(m)'
    BY <1>5, <1>6, UntouchedKeeps DEF Untouched, TipTypes
<1>10. NodeInv(n)'
    <2>1. top'[n] = g
        BY <1>5, <1>6 DEF TipTypes
    <2>2. JobVote(n)' = JobVote(n) /\ Weighed(n)' = Weighed(n)
        BY <1>5 DEF JobVote, Weighed
    <2>3. Loose(n) /\ (n \notin torn => Strict(n))
        BY DEF PayInv, NodeInv
    <2>4. Loose(n)'
        <3>1. \A i \in DOMAIN vWinning[n] : vWinning[n][i].height <= g + Beyond
            <4>1. ASSUME NEW i \in DOMAIN vWinning[n]
                  PROVE  vWinning[n][i].height <= g + Beyond
                <5>1. vWinning[n][i].height \in Nat /\ vWinning[n][i].height <= top[n] + Beyond
                    BY <2>3, WinnerFields DEF Loose
                <5> QED BY <1>4, <5>1, ConstantFacts
            <4> QED BY <4>1
        <3>2. at[n] # "idle" => job[n].height <= g + Beyond
            <4>1. job[n].height \in Nat
                BY <2>3 DEF Loose, Winner
            <4>2. at[n] # "idle" => job[n].height <= top[n] + Beyond
                BY <2>3 DEF Loose
            <4> QED BY <1>4, <4>1, <4>2, ConstantFacts
        <3> QED BY <1>5, <2>1, <2>2, <2>3, <3>1, <3>2 DEF Loose
    <2>5. ASSUME n \notin torn
          PROVE  Strict(n)'
        <3>1. NodeSound(vWinning[n], cache[n], g, Weighed(n))
            BY <1>4, <2>3, <2>5, HigherSound, WeighedSigned DEF Strict
        <3> QED BY <1>5, <2>1, <2>2, <2>3, <2>5, <3>1 DEF Strict
    <2> QED BY <1>5, <2>4, <2>5 DEF NodeInv
<1>11. Domains'
    BY <1>5 DEF PayInv, Domains
<1> QED BY <1>7, <1>8, <1>9, <1>10, <1>11 DEF PayInv

(* A block off the best chain.                                                *)
LEMMA SideBlockKeeps ==
    ASSUME PayInv, SideBlock
    PROVE  PayInv'
<1>1. MessageTypes'
    BY DEF PayInv, MessageTypes, SideBlock, listVars
<1> QED BY <1>1, QuietKeeps DEF SideBlock, chainVars

(* "inv" and "getdata".                                                       *)
LEMMA GetDataKeeps ==
    ASSUME PayInv, NEW x \in inv, GetData(x[1], x[2], x[3])
    PROVE  PayInv'
<1>1. x \in Node \X Node \X signed /\ signed \subseteq Vote
    BY DEF PayInv, MessageTypes
<1>2. x[3] \in [height : Nat, vin : Paid]
    <2>1. x[3] \in Vote
        BY <1>1
    <2>2. x[3] = VoteFor(x[3].height, x[3].vin) /\ x[3].height \in Nat /\ x[3].vin \in Paid
        BY <2>1, VoteFacts
    <2> QED BY <2>2 DEF VoteFor
<1>3. mnw' \subseteq Node \X [height : Nat, vin : Paid]
    BY <1>1, <1>2 DEF GetData, PayInv, MessageTypes
<1>4. MessageTypes'
    BY <1>3 DEF PayInv, MessageTypes, GetData, listVars
<1> QED BY <1>4, QuietKeeps DEF GetData, chainVars

(* "mnget": what a node sends are winners.                                    *)
LEMMA SyncKeeps ==
    ASSUME PayInv, NEW p \in Node, NEW n \in Node, Sync(p, n)
    PROVE  PayInv'
<1>1. ASSUME NEW w \in ToSet(vWinning[p])
      PROVE  VoteFor(w.height, w.vin) \in [height : Nat, vin : Paid]
    <2>1. PICK i \in DOMAIN vWinning[p] : w = vWinning[p][i]
        BY DEF ToSet
    <2>2. w.height \in Nat /\ w.vin \in Paid
        BY <2>1, WinnerFields DEF PayInv, NodeInv, Loose
    <2> QED BY <2>2 DEF VoteFor
<1>2. mnw' \subseteq Node \X [height : Nat, vin : Paid]
    BY <1>1 DEF Sync, PayInv, MessageTypes
<1>3. MessageTypes'
    BY <1>2 DEF PayInv, MessageTypes, Sync, listVars
<1> QED BY <1>3, QuietKeeps DEF Sync, chainVars

(* The list of masternodes changes.                                           *)
LEMMA ListChangeKeeps ==
    ASSUME PayInv, NEW m \in Masternode, ListChange(m)
    PROVE  PayInv'
<1>1. MessageTypes'
    BY DEF PayInv, MessageTypes, ListChange
<1> QED BY <1>1, QuietKeeps DEF ListChange, chainVars

-----------------------------------------------------------------------------
(* What ProcessBlock votes for.                                               *)
LEMMA CandidateIsVote ==
    ASSUME PayInv, NEW h \in Height, NEW v, v \in Candidates(h + Ahead) \cup {VoteFor(h + Ahead, m) : m \in list}
    PROVE  v \in Vote /\ (v = VoteFor(0, NoVin) \/ v.height = h + Ahead)
<1>1. h \in Nat /\ h >= FirstTip /\ list \subseteq Masternode
    BY ConstantFacts DEF Height, PayInv, MessageTypes
<1>2. v = VoteFor(0, NoVin) \/ \E m \in list : v = VoteFor(h + Ahead, m)
    BY DEF Candidates
<1>3. CASE v = VoteFor(0, NoVin)
    BY <1>3 DEF Vote
<1>4. ASSUME NEW m \in list, v = VoteFor(h + Ahead, m)
      PROVE  v \in Vote /\ v.height = h + Ahead
    <2>1. h + Ahead \in Nat /\ h + Ahead >= FirstTip + Ahead /\ m \in Masternode /\ v.height = h + Ahead
        BY <1>1, <1>4, ConstantFacts DEF VoteFor
    <2> QED BY <1>4, <2>1 DEF Vote
<1> QED BY <1>2, <1>3, <1>4

(* ProcessBlock of the payments master, with the vote v and the outcome r of
   the loop.                                                                  *)
Votes(v, r) ==
    /\ v \in Vote
    /\ v = VoteFor(0, NoVin) \/ v.height = tip[Signer][2] + Ahead
    /\ v.height <= top[Signer] + Beyond
    /\ signed' = signed \cup {v}
    /\ CacheBlockHash(Signer, tip[Signer], v.height - Lag)
    /\ r \in Weighings(vWinning[Signer], Scored(Signer, tip[Signer], v), Signer \in torn')
    /\ vWinning' = [vWinning EXCEPT ![Signer] = r.win]
    /\ seen' = IF r.opened THEN [seen EXCEPT ![Signer] = @ \cup {v}] ELSE seen
    /\ inv' = IF r.taken THEN inv \cup Relay(Signer, v) ELSE inv
    /\ torn' = IF at[Signer] = "loop" THEN torn \cup {Signer} ELSE torn
    /\ UNCHANGED <<tip, top, side, at, job, list, down, mnw, synced>> /\ due' = FALSE

LEMMA ProcessBlockVotes ==
    ASSUME PayInv, ProcessBlock
    PROVE  \E v \in Candidates(tip[Signer][2] + Ahead) \cup {VoteFor(tip[Signer][2] + Ahead, m) : m \in list} : \E r :
              Votes(v, r) /\ (Signer \in torn' \/ v \in Candidates(tip[Signer][2] + Ahead))
<1> PICK h \in Height : h = tip[Signer][2]
    BY TipHeight, ConstantFacts
<1>1. PICK v \in Candidates(h + Ahead) \cup (IF Signer \in torn' THEN {VoteFor(h + Ahead, m) : m \in list} ELSE {}) :
        /\ signed' = signed \cup {v}
        /\ CacheBlockHash(Signer, tip[Signer], v.height - Lag)
        /\ IF GetBlockHash(Signer, tip[Signer], v.height - Lag) = {}
           THEN UNCHANGED <<vWinning, seen, inv>>
           ELSE \E r \in Weighings(vWinning[Signer], Scored(Signer, tip[Signer], v), Signer \in torn') :
                    /\ vWinning' = [vWinning EXCEPT ![Signer] = r.win]
                    /\ seen' = IF r.opened THEN [seen EXCEPT ![Signer] = @ \cup {v}] ELSE seen
                    /\ inv' = IF r.taken THEN inv \cup Relay(Signer, v) ELSE inv
    BY Zenon DEF ProcessBlock
<1>2. v \in Candidates(h + Ahead) \cup {VoteFor(h + Ahead, m) : m \in list}
    BY <1>1
<1>3. v \in Vote /\ (v = VoteFor(0, NoVin) \/ v.height = h + Ahead)
    BY <1>2, CandidateIsVote
<1>4. v.height <= top[Signer] + Beyond
    <2>1. top[Signer] \in Nat /\ h <= top[Signer] /\ h \in Nat
        BY TipHeight, ConstantFacts
    <2> QED BY <1>3, <2>1, ConstantFacts DEF VoteFor
<1>5. GetBlockHash(Signer, tip[Signer], v.height - Lag) # {}
    <2>1. GetBlockHash(Signer, tip[Signer], v.height - Lag) = {TheBlock(Signer, tip[Signer], v.height - Lag)}
        BY <1>3, <1>4, HashFound, ConstantFacts
    <2> QED BY <2>1
<1>6. PICK r \in Weighings(vWinning[Signer], Scored(Signer, tip[Signer], v), Signer \in torn') :
        /\ vWinning' = [vWinning EXCEPT ![Signer] = r.win]
        /\ seen' = IF r.opened THEN [seen EXCEPT ![Signer] = @ \cup {v}] ELSE seen
        /\ inv' = IF r.taken THEN inv \cup Relay(Signer, v) ELSE inv
    BY <1>1, <1>5
<1>7. /\ torn' = IF at[Signer] = "loop" THEN torn \cup {Signer} ELSE torn
      /\ UNCHANGED <<tip, top, side, at, job, list, down, mnw, synced>> /\ due' = FALSE
    BY DEF ProcessBlock, Tears, chainVars, listVars
<1>8. Votes(v, r)
    BY <1>1, <1>3, <1>4, <1>6, <1>7 DEF Votes
<1> QED BY <1>1, <1>2, <1>8

(* Where vWinning was not being changed, the vote is weighed as it should be. *)
LEMMA VotesWeigh ==
    ASSUME PayInv, NEW v, NEW r, Votes(v, r)
    PROVE  \E b \in Block :
              /\ Scored(Signer, tip[Signer], v) = Entry(v, b)
              /\ cache' = [cache EXCEPT ![Signer] = Cached(cache[Signer], v.height - Lag, b)]
              /\ v.height - Lag \in DOMAIN Cached(cache[Signer], v.height - Lag, b)
              /\ Cached(cache[Signer], v.height - Lag, b)[v.height - Lag] = b
              /\ Signer \notin torn' => /\ Signer \notin torn /\ at[Signer] # "loop"
                                        /\ r.win = Weigh(vWinning[Signer], v, b)
                                        /\ r.opened = ~Known(vWinning[Signer], v)
<1>1. Signer \in Node
    BY ConstantFacts
<1>2. PICK b \in Block :
        /\ Scored(Signer, tip[Signer], v) = Entry(v, b)
        /\ cache' = [cache EXCEPT ![Signer] = Cached(cache[Signer], v.height - Lag, b)]
        /\ v.height - Lag \in DOMAIN Cached(cache[Signer], v.height - Lag, b)
        /\ Cached(cache[Signer], v.height - Lag, b)[v.height - Lag] = b
    BY <1>1, CacheIs DEF Votes
<1>3. ASSUME Signer \notin torn'
      PROVE  /\ Signer \notin torn /\ at[Signer] # "loop"
             /\ r.win = Weigh(vWinning[Signer], v, b)
             /\ r.opened = ~Known(vWinning[Signer], v)
    <2>1. Signer \notin torn /\ at[Signer] # "loop"
        BY <1>1, <1>3 DEF Votes
    <2>2. NodeSound(vWinning[Signer], cache[Signer], top[Signer], Weighed(Signer))
        BY <1>1, <2>1 DEF PayInv, NodeInv, Strict
    <2>3. r = AddWinningMasternode(vWinning[Signer], Entry(v, b))
        BY <1>2, <1>3 DEF Votes, Weighings
    <2> QED BY <2>1, <2>2, <2>3, AddIs DEF NodeSound, WinnerSound
<1> QED BY <1>2, <1>3

LEMMA ProcessBlockKeeps ==
    ASSUME PayInv, ProcessBlock
    PROVE  PayInv'
<1>1. Signer \in Node /\ MessageTypes /\ Domains
    BY ConstantFacts DEF PayInv
<1> PICK n \in Node : n = Signer
    BY <1>1
<1>2. PICK v, r : Votes(v, r)
    BY ProcessBlockVotes
<1>3. PICK b \in Block :
        /\ Scored(n, tip[n], v) = Entry(v, b)
        /\ cache' = [cache EXCEPT ![n] = Cached(cache[n], v.height - Lag, b)]
        /\ v.height - Lag \in DOMAIN Cached(cache[n], v.height - Lag, b)
        /\ Cached(cache[n], v.height - Lag, b)[v.height - Lag] = b
        /\ n \notin torn' => /\ n \notin torn /\ at[n] # "loop"
                             /\ r.win = Weigh(vWinning[n], v, b)
                             /\ r.opened = ~Known(vWinning[n], v)
    BY <1>2, VotesWeigh
<1> PICK c : c = Cached(cache[n], v.height - Lag, b)
    OBVIOUS
<1>4. v \in Vote /\ v.height - Lag \in Int /\ v.height <= top[n] + Beyond
    BY <1>2, VoteFacts DEF Votes
<1>5. vWinning'[n] = r.win /\ cache'[n] = c
    BY <1>1, <1>2, <1>3 DEF Votes, Domains
<1>6. /\ seen' \in [Node -> SUBSET signed'] /\ seen[n] \subseteq seen'[n] /\ seen'[n] \subseteq seen[n] \cup {v}
      /\ \A m \in Node \ {n} : seen'[m] = seen[m]
    BY <1>1, <1>2 DEF Votes, MessageTypes
<1>7. UNCHANGED <<tip, top, at, job, list, down, mnw>> /\ due' = FALSE
    BY <1>2 DEF Votes
<1>8. MessageTypes'
    <2>1. inv' \subseteq Node \X Node \X signed'
        BY <1>1, <1>2 DEF Votes, MessageTypes, Relay
    <2>2. torn' \subseteq Node /\ signed' \subseteq Vote
        BY <1>1, <1>2, <1>4 DEF Votes, MessageTypes
    <2> QED BY <1>1, <1>6, <1>7, <2>1, <2>2 DEF MessageTypes
<1>9. TipTypes' /\ Domains'
    <2>1. TipTypes'
        BY <1>7 DEF PayInv, TipTypes
    <2> QED BY <1>1, <1>2, <1>3, <1>7, <2>1 DEF Votes, Domains
<1>10. JobVote(n)' = JobVote(n)
    BY <1>7 DEF JobVote
<1>11. Loose(n)'
    <2>1. Loose(n)
        BY DEF PayInv, NodeInv
    <2>2. CacheSound(c)
        BY <1>4, <2>1, CachedSound DEF Loose
    <2>3. r.win \in Seq(Winner) /\ \A i \in DOMAIN r.win : r.win[i].height <= top[n] + Beyond
        <3>1. Entry(v, b) \in Winner /\ Entry(v, b).height <= top[n] + Beyond
            BY <1>4, EntryIsWinner
        <3>2. r \in Weighings(vWinning[n], Entry(v, b), n \in torn')
            BY <1>2, <1>3 DEF Votes
        <3>3. top[n] + Beyond \in Int
            BY TipHeight, ConstantFacts
        <3> QED BY <2>1, <3>1, <3>2, <3>3, WeighingsLoose DEF Loose
    <2> QED BY <1>5, <1>6, <1>7, <1>10, <2>1, <2>2, <2>3 DEF Loose
<1>12. ASSUME n \notin torn'
       PROVE  Strict(n)'
    <2> DEFINE W == Weighed(n)
    <2>1. /\ n \notin torn /\ at[n] # "loop" /\ r.win = Weigh(vWinning[n], v, b)
          /\ r.opened = ~Known(vWinning[n], v)
        BY <1>3, <1>12
    <2>2. /\ NodeSound(vWinning[n], cache[n], top[n], W)
          /\ at[n] # "idle" => Fresh(vWinning[n], W, JobVote(n))
        BY <2>1 DEF PayInv, NodeInv, Strict
    <2>3. W \in SUBSET Vote /\ top[n] \in Nat
        BY WeighedSigned, TipHeight
    <2>4. Fresh(vWinning[n], W, v)
        <3>1. v = VoteFor(0, NoVin) \/ v.height >= top[n] - KeepPaid
            BY <1>2, TipHeight, ConstantFacts DEF Votes
        <3> QED BY <1>4, <2>2, <2>3, <3>1, NearIsFresh
    <2>5. NodeSound(vWinning[n], c, top[n], W)
        BY <1>4, <2>2, CachedKeeps
    <2>6. NodeSound(r.win, c, top[n], W \cup {v})
        BY <1>3, <1>4, <2>1, <2>3, <2>4, <2>5, WeighSound
    <2>7. Weighed(n)' = W \cup {v}
        BY <1>2, <1>6, <1>7, <1>10 DEF Weighed, Votes
    <2>8. ASSUME at[n] # "idle"
          PROVE  Fresh(r.win, W \cup {v}, JobVote(n))
        <3>1. \A u : Known(vWinning[n], u) => Known(r.win, u)
            BY <1>4, <2>1, <2>2, WeighKnows DEF NodeSound
        <3>2. Known(r.win, v)
            BY <1>4, <2>1, <2>2, WeighKnows DEF NodeSound
        <3>3. Fresh(vWinning[n], W, JobVote(n))
            BY <2>2, <2>8
        <3> QED BY <3>1, <3>2, <3>3 DEF Fresh, Known
    <2> QED BY <1>5, <1>7, <1>10, <2>1, <2>6, <2>7, <2>8 DEF Strict
<1>13. NodeInv(n)'
    BY <1>11, <1>12 DEF NodeInv
<1>14. ASSUME NEW m \in Node \ {n}
       PROVE  NodeInv(m)'
    <2>1. Untouched(m)
        BY <1>1, <1>2, <1>3, <1>6, <1>7 DEF Untouched, Votes, Domains
    <2> QED BY <2>1, UntouchedKeeps
<1> QED BY <1>8, <1>9, <1>13, <1>14 DEF PayInv

-----------------------------------------------------------------------------
(* "mnw", step by step.                                                       *)

(* The vote that is under way.                                                *)
LEMMA JobIsVote ==
    ASSUME PayInv, NEW n \in Node, at[n] # "idle"
    PROVE  /\ JobVote(n) \in Vote /\ JobVote(n) \in seen[n]
           /\ JobVote(n).height = job[n].height /\ JobVote(n).vin = job[n].vin
           /\ job[n].height <= top[n] + Beyond
<1>1. JobVote(n) \in seen[n] /\ job[n].height <= top[n] + Beyond
    BY DEF PayInv, NodeInv, Loose
<1>2. JobVote(n) \in Vote
    BY <1>1, WeighedSigned
<1>3. JobVote(n).height = job[n].height /\ JobVote(n).vin = job[n].vin
    BY DEF JobVote, VoteFor
<1> QED BY <1>1, <1>2, <1>3

LEMMA ReceiveVoteKeeps ==
    ASSUME PayInv, NEW n \in Node, NEW v, ReceiveVote(n, v)
    PROVE  PayInv'
<1>1. MessageTypes /\ Domains
    BY DEF PayInv
<1>2. /\ UNCHANGED <<tip, top, cache, vWinning, torn, list, down, signed, inv, due>>
      /\ mnw' = mnw \ {<<n, v>>} /\ at[n] = "idle"
    BY DEF ReceiveVote, chainVars, listVars
<1>3. CASE Ignored(n, v)
    <2>1. UNCHANGED <<seen, at, job>>
        BY <1>3 DEF ReceiveVote
    <2>2. MessageTypes'
        BY <1>1, <1>2, <2>1 DEF MessageTypes
    <2> QED BY <1>2, <2>1, <2>2, QuietKeeps
<1>4. CASE ~Ignored(n, v)
    <2>1. /\ seen' = [seen EXCEPT ![n] = @ \cup {v}] /\ at' = [at EXCEPT ![n] = "weigh"]
          /\ job' = [job EXCEPT ![n] = [height |-> v.height, vin |-> v.vin, score |-> 0]]
        BY <1>4 DEF ReceiveVote
    <2>2. v \in Vote /\ v \in signed /\ v \notin seen[n]
        BY <1>1, <1>4 DEF Ignored, MessageTypes
    <2>3. /\ v.height \in Nat /\ v.vin \in Paid /\ v = VoteFor(v.height, v.vin)
          /\ v.height >= top[n] - KeepPaid /\ v.height <= top[n] + Beyond
        BY <1>4, <2>2, TipHeight, VoteFacts, ConstantFacts DEF Ignored
    <2>4. /\ seen'[n] = seen[n] \cup {v} /\ at'[n] = "weigh"
          /\ job'[n] = [height |-> v.height, vin |-> v.vin, score |-> 0]
        BY <1>1, <2>1 DEF Domains, MessageTypes
    <2>5. JobVote(n)' = v
        BY <2>3, <2>4 DEF JobVote
    <2>6. Weighed(n)' = Weighed(n)
        BY <1>2, <2>2, <2>4, <2>5 DEF Weighed
    <2>7. Loose(n)'
        <3>1. Loose(n)
            BY DEF PayInv, NodeInv
        <3>2. job'[n] \in Winner /\ job'[n].height <= top[n] + Beyond
            BY <2>3, <2>4 DEF Winner
        <3> QED BY <1>2, <2>4, <2>5, <3>1, <3>2 DEF Loose
    <2>8. ASSUME n \notin torn
          PROVE  Strict(n)'
        <3>1. NodeSound(vWinning[n], cache[n], top[n], Weighed(n))
            BY <2>8 DEF PayInv, NodeInv, Strict
        <3>2. Fresh(vWinning[n], Weighed(n), v)
            BY <2>2, <2>3, <3>1, NearIsFresh, WeighedSigned, TipHeight
        <3> QED BY <1>2, <2>4, <2>5, <2>6, <3>1, <3>2 DEF Strict
    <2>9. NodeInv(n)'
        BY <1>2, <2>7, <2>8 DEF NodeInv
    <2>10. ASSUME NEW m \in Node \ {n}
           PROVE  NodeInv(m)'
        <3>1. Untouched(m)
            BY <1>1, <1>2, <2>1 DEF Untouched, Domains, MessageTypes
        <3> QED BY <3>1, UntouchedKeeps
    <2>11. TipTypes' /\ Domains'
        BY <1>1, <1>2, <2>1 DEF PayInv, TipTypes, Domains
    <2>12. MessageTypes'
        <3>1. seen' \in [Node -> SUBSET signed']
            BY <1>1, <1>2, <2>1, <2>2 DEF MessageTypes
        <3> QED BY <1>1, <1>2, <3>1 DEF MessageTypes
    <2> QED BY <2>9, <2>10, <2>11, <2>12 DEF PayInv
<1> QED BY <1>3, <1>4

LEMMA WeighVoteKeeps ==
    ASSUME PayInv, NEW n \in Node, WeighVote(n)
    PROVE  PayInv'
<1>1. MessageTypes /\ Domains /\ at[n] = "weigh"
    BY DEF PayInv, WeighVote
<1> PICK v \in Vote : v = JobVote(n)
    BY <1>1, JobIsVote
<1>2. v \in seen[n] /\ v.height = job[n].height /\ v.height <= top[n] + Beyond
    BY <1>1, JobIsVote
<1>3. PICK b \in Block :
        /\ GetBlockHash(n, tip[n], v.height - Lag) # {}
        /\ Scored(n, tip[n], v) = Entry(v, b)
        /\ cache' = [cache EXCEPT ![n] = Cached(cache[n], v.height - Lag, b)]
        /\ v.height - Lag \in DOMAIN Cached(cache[n], v.height - Lag, b)
        /\ Cached(cache[n], v.height - Lag, b)[v.height - Lag] = b
    <2>1. CacheBlockHash(n, tip[n], v.height - Lag)
        BY <1>2 DEF WeighVote
    <2> QED BY <1>2, <2>1, CacheIs
<1> PICK c : c = Cached(cache[n], v.height - Lag, b)
    OBVIOUS
<1>4. at' = [at EXCEPT ![n] = "loop"] /\ job' = [job EXCEPT ![n] = Entry(v, b)]
    BY <1>2, <1>3 DEF WeighVote
<1>5. UNCHANGED <<tip, top, due, vWinning, seen, torn, list, down, inv, mnw, signed>>
    BY DEF WeighVote, chainVars, listVars
<1>6. cache'[n] = c /\ at'[n] = "loop" /\ job'[n] = Entry(v, b)
    BY <1>1, <1>3, <1>4 DEF Domains
<1>7. /\ Entry(v, b) \in Winner /\ Entry(v, b).height = v.height /\ Entry(v, b).vin = v.vin
      /\ VoteFor(Entry(v, b).height, Entry(v, b).vin) = v
    BY EntryIsWinner
<1>8. JobVote(n)' = v
    BY <1>6, <1>7 DEF JobVote
<1>9. Weighed(n)' = Weighed(n)
    BY <1>1, <1>5, <1>6, <1>8 DEF Weighed
<1>10. Loose(n)'
    <2>1. Loose(n)
        BY DEF PayInv, NodeInv
    <2>2. CacheSound(c)
        BY <2>1, CachedSound, VoteFacts DEF Loose
    <2> QED BY <1>2, <1>5, <1>6, <1>7, <1>8, <2>1, <2>2 DEF Loose
<1>11. ASSUME n \notin torn
       PROVE  Strict(n)'
    <2>1. NodeSound(vWinning[n], cache[n], top[n], Weighed(n)) /\ Fresh(vWinning[n], Weighed(n), v)
        BY <1>1, <1>11 DEF PayInv, NodeInv, Strict
    <2>2. NodeSound(vWinning[n], c, top[n], Weighed(n))
        BY <2>1, CachedKeeps, VoteFacts
    <2> QED BY <1>3, <1>5, <1>6, <1>7, <1>8, <1>9, <2>1, <2>2 DEF Strict
<1>12. NodeInv(n)'
    BY <1>5, <1>10, <1>11 DEF NodeInv
<1>13. ASSUME NEW m \in Node \ {n}
       PROVE  NodeInv(m)'
    <2>1. Untouched(m)
        BY <1>1, <1>3, <1>4, <1>5 DEF Untouched, Domains
    <2> QED BY <2>1, UntouchedKeeps
<1>14. TipTypes' /\ Domains' /\ MessageTypes'
    BY <1>1, <1>3, <1>4, <1>5 DEF PayInv, TipTypes, Domains, MessageTypes
<1> QED BY <1>12, <1>13, <1>14 DEF PayInv

LEMMA AddVoteKeeps ==
    ASSUME PayInv, NEW n \in Node, AddVote(n)
    PROVE  PayInv'
<1>1. MessageTypes /\ Domains /\ at[n] = "loop"
    BY DEF PayInv, AddVote
<1> PICK v \in Vote : v = JobVote(n)
    BY <1>1, JobIsVote
<1>2. v \in seen[n] /\ v.height = job[n].height /\ job[n].height <= top[n] + Beyond
    BY <1>1, JobIsVote
<1>3. PICK r \in Weighings(vWinning[n], job[n], n \in torn) :
        /\ vWinning' = [vWinning EXCEPT ![n] = r.win]
        /\ inv' = IF r.taken THEN inv \cup Relay(n, v) ELSE inv
    BY DEF AddVote
<1>4. at' = [at EXCEPT ![n] = "idle"] /\ job' = [job EXCEPT ![n] = NoJob]
    BY DEF AddVote, Returns
<1>5. UNCHANGED <<tip, top, due, cache, seen, torn, list, down, mnw, signed>>
    BY DEF AddVote, chainVars, listVars
<1>6. vWinning'[n] = r.win /\ at'[n] = "idle" /\ job'[n] = NoJob
    BY <1>1, <1>3, <1>4 DEF Domains
<1>7. Weighed(n)' = Weighed(n) \cup {v}
    BY <1>1, <1>2, <1>5, <1>6 DEF Weighed
<1>8. Loose(n)
    BY DEF PayInv, NodeInv
<1>9. Loose(n)'
    <2>1. top[n] + Beyond \in Int
        BY TipHeight, ConstantFacts
    <2>2. r.win \in Seq(Winner) /\ \A i \in DOMAIN r.win : r.win[i].height <= top[n] + Beyond
        BY <1>2, <1>8, <2>1, WeighingsLoose DEF Loose
    <2>3. NoJob \in Winner
        BY DEF NoJob, Winner, Paid
    <2> QED BY <1>5, <1>6, <1>8, <2>2, <2>3 DEF Loose
<1>10. ASSUME n \notin torn
       PROVE  Strict(n)'
    <2> PICK b : b = cache[n][v.height - Lag]
        OBVIOUS
    <2>1. /\ NodeSound(vWinning[n], cache[n], top[n], Weighed(n)) /\ Fresh(vWinning[n], Weighed(n), v)
          /\ v.height - Lag \in DOMAIN cache[n] /\ job[n] = Entry(v, b)
        BY <1>1, <1>2, <1>10 DEF PayInv, NodeInv, Strict
    <2>2. r.win = Weigh(vWinning[n], v, b)
        <3>1. r = AddWinningMasternode(vWinning[n], Entry(v, b))
            BY <1>10, <2>1 DEF Weighings
        <3> QED BY <2>1, <3>1, AddIs DEF NodeSound, WinnerSound
    <2>3. NodeSound(r.win, cache[n], top[n], Weighed(n) \cup {v})
        <3>1. v.height <= top[n] + Beyond /\ top[n] \in Nat /\ Weighed(n) \in SUBSET Vote
            BY <1>2, WeighedSigned, TipHeight
        <3>2. NodeSound(Weigh(vWinning[n], v, cache[n][v.height - Lag]), cache[n], top[n], Weighed(n) \cup {v})
            BY <2>1, <3>1, WeighSound
        <3> QED BY <2>2, <3>2
    <2> QED BY <1>5, <1>6, <1>7, <2>3 DEF Strict
<1>11. NodeInv(n)'
    BY <1>5, <1>9, <1>10 DEF NodeInv
<1>12. ASSUME NEW m \in Node \ {n}
       PROVE  NodeInv(m)'
    <2>1. Untouched(m)
        BY <1>1, <1>3, <1>4, <1>5 DEF Untouched, Domains
    <2> QED BY <2>1, UntouchedKeeps
<1>13. TipTypes' /\ Domains'
    BY <1>1, <1>3, <1>4, <1>5 DEF PayInv, TipTypes, Domains
<1>14. MessageTypes'
    <2>1. Relay(n, v) \subseteq Node \X Node \X signed
        BY <1>1, <1>2 DEF Relay, MessageTypes
    <2>2. inv' \subseteq Node \X Node \X signed
        BY <1>1, <1>3, <2>1 DEF MessageTypes
    <2> QED BY <1>1, <1>5, <2>2 DEF MessageTypes
<1> QED BY <1>11, <1>12, <1>13, <1>14 DEF PayInv

(* CleanPaymentList.                                                          *)
LEMMA CleanKeeps ==
    ASSUME PayInv, NEW n \in Node, CleanPaymentList(n)
    PROVE  PayInv'
<1>1. MessageTypes /\ Domains /\ Loose(n)
    BY DEF PayInv, NodeInv
<1> PICK win \in Seq(Winner) : win = vWinning[n]
    BY <1>1 DEF Loose
<1>2. PICK i \in DOMAIN win :
        /\ vWinning' = [vWinning EXCEPT ![n] = RemoveAt(win, i)]
        /\ n \notin torn' =>
              /\ at[n] # "loop" /\ tip[n][2] - win[i].height > KeepPaid
              /\ at[n] = "weigh" => win[i].height # job[n].height
    <2> DEFINE old == {k \in DOMAIN win : tip[n][2] - win[k].height > KeepPaid}
               first == {k \in old : \A j \in old : k <= j}
               late == at[n] = "weigh" /\ \E k \in first : win[k].height = job[n].height
    <2>1. PICK i \in IF n \in torn' THEN DOMAIN win ELSE first : vWinning' = [vWinning EXCEPT ![n] = RemoveAt(win, i)]
        BY DEF CleanPaymentList
    <2>2. i \in DOMAIN win /\ (n \notin torn' => i \in first /\ tip[n][2] - win[i].height > KeepPaid)
        BY <2>1
    <2>3. torn' = IF at[n] = "loop" \/ late THEN torn \cup {n} ELSE torn
        BY DEF CleanPaymentList
    <2> HIDE DEF first
    <2>4. n \notin torn' => at[n] # "loop" /\ (at[n] = "weigh" => win[i].height # job[n].height)
        BY <2>2, <2>3
    <2> QED BY <2>1, <2>2, <2>4
<1> PICK r : r = RemoveAt(win, i)
    OBVIOUS
<1>3. UNCHANGED <<tip, top, due, cache, seen, at, job, list, down, inv, mnw, signed>>
    BY DEF CleanPaymentList, chainVars, listVars
<1>4. torn \subseteq torn' /\ torn' \subseteq torn \cup {n}
    BY DEF CleanPaymentList
<1>5. vWinning'[n] = r
    BY <1>1, <1>2 DEF Domains
<1>6. /\ r \in Seq(Winner) /\ Len(r) = Len(win) - 1 /\ Len(win) \in Nat
      /\ \A j \in 1 .. (Len(win) - 1) : r[j] = win[IF j < i THEN j ELSE j + 1]
    <2>1. /\ RemoveAt(win, i) \in Seq(Winner) /\ Len(RemoveAt(win, i)) = Len(win) - 1
          /\ \A j \in 1 .. (Len(win) - 1) : RemoveAt(win, i)[j] = win[IF j < i THEN j ELSE j + 1]
        BY RemoveIs, Zenon
    <2>2. Len(win) \in Nat
        OBVIOUS
    <2> QED BY <2>1, <2>2
<1>7. JobVote(n)' = JobVote(n)
    BY <1>3 DEF JobVote
<1>8. Weighed(n)' = Weighed(n)
    BY <1>3, <1>7 DEF Weighed
<1>9. Loose(n)'
    <2>1. \A j \in DOMAIN r : r[j].height <= top[n] + Beyond
        <3>1. ASSUME NEW j \in DOMAIN r
              PROVE  r[j].height <= top[n] + Beyond
            <4>1. PICK k \in DOMAIN win : r[j] = win[k]
                BY <1>6
            <4> QED BY <1>1, <4>1 DEF Loose
        <3> QED BY <3>1
    <2> QED BY <1>1, <1>3, <1>5, <1>6, <1>7, <2>1 DEF Loose
<1>10. ASSUME n \notin torn'
       PROVE  Strict(n)'
    <2>1. /\ NodeSound(win, cache[n], top[n], Weighed(n))
          /\ at[n] # "idle" => Fresh(win, Weighed(n), JobVote(n))
        BY <1>4, <1>10 DEF PayInv, NodeInv, Strict
    <2>2. at[n] # "loop" /\ tip[n][2] - win[i].height > KeepPaid
        BY <1>2, <1>10
    <2>3. NodeSound(r, cache[n], top[n], Weighed(n))
        <3>1. top[n] - win[i].height > KeepPaid
            BY <2>2, TipHeight, WinnerFields, ConstantFacts
        <3> QED BY <2>1, <3>1, RemoveSound, TipHeight, WeighedSigned
    <2>4. ASSUME at[n] # "idle"
          PROVE  Fresh(r, Weighed(n), JobVote(n))
        <3>1. at[n] = "weigh"
            BY <1>1, <2>2, <2>4 DEF Loose
        <3>2. win[i].height # job[n].height /\ JobVote(n).height = job[n].height
            BY <1>2, <1>10, <3>1 DEF JobVote, VoteFor
        <3>3. Known(win, JobVote(n)) => Known(r, JobVote(n))
            BY <3>2, RemoveKnows
        <3> QED BY <2>1, <2>4, <3>3 DEF Fresh
    <2> QED BY <1>3, <1>5, <1>7, <1>8, <2>2, <2>3, <2>4 DEF Strict
<1>11. NodeInv(n)'
    BY <1>9, <1>10 DEF NodeInv
<1>12. ASSUME NEW m \in Node \ {n}
       PROVE  NodeInv(m)'
    <2>1. Untouched(m)
        BY <1>1, <1>2, <1>3, <1>4 DEF Untouched, Domains
    <2> QED BY <2>1, UntouchedKeeps
<1>13. TipTypes' /\ MessageTypes' /\ Domains'
    BY <1>1, <1>2, <1>3, <1>4 DEF PayInv, TipTypes, MessageTypes, Domains
<1> QED BY <1>11, <1>12, <1>13 DEF PayInv

-----------------------------------------------------------------------------
(* No vote was weighed at the start.                                          *)
LEMMA PayInvInit == PayInit => PayInv
<1> SUFFICES ASSUME PayInit PROVE PayInv
    OBVIOUS
<1>1. FirstTip \in Height /\ FirstTip \in 1 .. MaxHeight /\ FirstTip \in Nat
    BY ConstantFacts DEF Height
<1>2. TipTypes
    BY <1>1, BlockHeight, ConstantFacts DEF PayInit, TipTypes, Block
<1>3. MessageTypes
    BY DEF PayInit, MessageTypes
<1>4. ASSUME NEW n \in Node
      PROVE  NodeInv(n)
    <2>1. /\ vWinning[n] = <<>> /\ cache[n] = <<>> /\ Weighed(n) = {}
          /\ at[n] = "idle" /\ job[n] = NoJob
        BY ConstantFacts DEF PayInit, Weighed
    <2>2. CacheSound(cache[n])
        <3>1. cache[n] \in [{} -> Block] /\ {} \in SUBSET Int
            BY <2>1
        <3> QED BY <3>1 DEF CacheSound
    <2>3. NoJob \in Winner
        BY DEF NoJob, Winner, Paid
    <2> QED BY <2>1, <2>2, <2>3 DEF NodeInv, Loose, Strict, NodeSound
<1>5. Domains
    BY DEF PayInit, Domains
<1> QED BY <1>2, <1>3, <1>4, <1>5 DEF PayInv

(* The inductive step.                                                        *)
LEMMA PayInvNext == PayInv /\ [PayNext]_payVars => PayInv'
<1> SUFFICES ASSUME PayInv, [PayNext]_payVars PROVE PayInv'
    OBVIOUS
<1>1. CASE \E n \in Node, b \in UNION {BlocksAt(h) : h \in FirstTip .. MaxHeight} : NewTip(n, b)
    BY <1>1, NewTipKeeps
<1>2. CASE SideBlock
    BY <1>2, SideBlockKeeps
<1>3. CASE ProcessBlock
    BY <1>3, ProcessBlockKeeps
<1>4. CASE \E x \in inv : GetData(x[1], x[2], x[3])
    BY <1>4, GetDataKeeps
<1>5. ASSUME NEW x \in mnw, ReceiveVote(x[1], x[2])
      PROVE  PayInv'
    <2>1. x[1] \in Node
        BY DEF PayInv, MessageTypes
    <2> QED BY <1>5, <2>1, ReceiveVoteKeeps
<1>6. CASE \E n \in Node : WeighVote(n) \/ AddVote(n)
    BY <1>6, WeighVoteKeeps, AddVoteKeeps
<1>7. CASE \E p, n \in Node : p # n /\ Sync(p, n)
    BY <1>7, SyncKeeps
<1>8. CASE \E n \in Node : CleanPaymentList(n)
    BY <1>8, CleanKeeps
<1>9. CASE \E m \in Masternode : ListChange(m)
    BY <1>9, ListChangeKeeps
<1>10. CASE UNCHANGED payVars
    <2>1. MessageTypes'
        BY <1>10 DEF payVars, chainVars, listVars, PayInv, MessageTypes
    <2> QED BY <1>10, <2>1, QuietKeeps DEF payVars, chainVars, listVars
<1> QED BY <1>1, <1>2, <1>3, <1>4, <1>5, <1>6, <1>7, <1>8, <1>9, <1>10 DEF PayNext

(* The invariant gives the property: the block a score is of today is the one
   it was of when the vote was weighed, for it is cached.                     *)
LEMMA PayInvImplies == PayInv => WinnersSound
<1> SUFFICES ASSUME PayInv PROVE WinnersSound
    OBVIOUS
<1>1. ASSUME NEW n \in Node \ torn, NEW i \in DOMAIN vWinning[n]
      PROVE  WinnerSound(vWinning[n], cache[n], top[n], Weighed(n), i)
    BY <1>1 DEF PayInv, NodeInv, Strict, NodeSound
<1>2. PayTypeOK
    <2>1. ASSUME NEW n \in Node, NEW w \in ToSet(vWinning[n])
          PROVE  w.vin \in Masternode \cup {NoVin} /\ w.height <= top[n] + Beyond
        <3>1. PICK i \in DOMAIN vWinning[n] : w = vWinning[n][i]
            BY DEF ToSet
        <3>2. vWinning[n] \in Seq(Winner) /\ vWinning[n][i].height <= top[n] + Beyond
            BY DEF PayInv, NodeInv, Loose
        <3> QED BY <3>1, <3>2, WinnerFields DEF Paid
    <2>2. ASSUME NEW n \in Node
          PROVE  /\ tip[n] \in BlocksAt(tip[n][2]) /\ at[n] \in {"idle", "weigh", "loop"}
                 /\ tip[n][2] \in FirstTip .. top[n] /\ top[n] - tip[n][2] <= MaxDrop
        <3>1. tip[n][2] \in FirstTip .. MaxHeight /\ top[n] \in Nat /\ tip[n][2] <= top[n]
            BY TipHeight DEF Height
        <3>2. tip[n][2] \in FirstTip .. top[n]
            BY <3>1, ConstantFacts
        <3> QED BY <3>2 DEF PayInv, TipTypes, NodeInv, Loose
    <2> QED BY <2>1, <2>2 DEF PayTypeOK, PayInv, MessageTypes
<1>3. ASSUME NEW n \in Node \ torn, NEW i \in DOMAIN vWinning[n], NEW v \in Weighed(n),
             v.height = vWinning[n][i].height, NEW b \in GetBlockHash(n, tip[n], v.height - Lag)
      PROVE  Score(b, v.vin) <= vWinning[n][i].score
    <2>1. v \in Vote
        BY <1>3, WeighedSigned
    <2>2. v.height - Lag \in DOMAIN cache[n] /\ Score(cache[n][v.height - Lag], v.vin) <= vWinning[n][i].score
        BY <1>1, <1>3 DEF WinnerSound
    <2>3. CacheKey(tip[n], v.height - Lag) = v.height - Lag
        BY <2>1, VoteFacts DEF CacheKey
    <2>4. b = cache[n][v.height - Lag]
        BY <1>3, <2>2, <2>3 DEF GetBlockHash
    <2> QED BY <2>2, <2>4
<1>4. FurthestWins
    BY <1>1, <1>3 DEF FurthestWins, WinnerSound
<1> QED BY <1>2, <1>4 DEF WinnersSound

(* AddWinningMasternode, ProcessBlock, "mnw", CleanPaymentList: whatever order
   the votes arrive in, wherever the tip goes between them and between the
   steps of one, and whenever the list is cleaned, a node has one winner for a
   height and no vote it weighed for that height is further than it.  Not
   claimed of a node whose vWinning was changed in the midst of a loop.       *)
THEOREM WinnersStaySound == PaySpec => []WinnersSound
<1>1. PayInit => PayInv
    BY PayInvInit
<1>2. PayInv /\ [PayNext]_payVars => PayInv'
    BY PayInvNext
<1>3. PayInv => WinnersSound
    BY PayInvImplies
<1> QED BY <1>1, <1>2, <1>3, PTL DEF PaySpec

-----------------------------------------------------------------------------
(* Whom ProcessBlock votes for, turn by turn.                                 *)

(* The list the payments master chooses from: the steady masternodes are always
   eligible, and at most MaxAway are missing.                                 *)
ListInv ==
    /\ side \in Nat /\ Steady \subseteq list /\ Steady \cap down = {}
    /\ Cardinality(Masternode \ list) <= MaxAway

(* The winner p against the winners before it: m is among the last N + 1 of
   them, or the winner of p is not among the last N - MaxAway + 1.            *)
Turn(win, m, p) ==
    \/ \E j \in (p - Cardinality(Masternode) - 1) .. (p - 1) : win[j].vin = m
    \/ \A j \in (p + MaxAway - Cardinality(Masternode) - 1) .. (p - 1) : win[j].vin # win[p].vin

(* The winners of the master, for heights up to h: in the order of their
   heights, so that CleanPaymentList removes them from the front, and each
   chosen by a Turn once the winners go back far enough.                      *)
InTurn(win, h, m) ==
    /\ \A i \in DOMAIN win : win[i].vin \in Masternode /\ win[i].height <= h
    /\ \A i, j \in DOMAIN win : i < j => win[i].height < win[j].height
    /\ \A p \in DOMAIN win : p > Cardinality(Masternode) + 1 => Turn(win, m, p)

(* Without side blocks the master has seen every vote it signed, so that "mnw"
   ignores those that come back, and the height it votes for next is higher
   than all it has voted for.                                                 *)
NextHeight == tip[Signer][2] + Ahead
Reached == IF due THEN NextHeight - 1 ELSE NextHeight

Turns(m) ==
    /\ signed \subseteq seen[Signer] /\ at[Signer] = "idle"
    /\ InTurn(vWinning[Signer], Reached, m)

TurnInv == ListInv /\ (side = 0 /\ Signer \notin torn => \A m \in Steady : Turns(m))

(* The masternodes are counted.                                               *)
LEMMA CountFacts ==
    /\ IsFiniteSet(Masternode) /\ Cardinality(Masternode) \in Nat /\ MaxAway \in Nat
    /\ Steady \subseteq Masternode
BY PaymentsAssumption, FS_CardinalityType

(* The length of the list is that of Masternode but for the missing.          *)
LEMMA ListLength ==
    ASSUME PayInv, ListInv
    PROVE  /\ Cardinality(list) \in Nat /\ Cardinality(list) <= Cardinality(Masternode)
           /\ Cardinality(Masternode) <= Cardinality(list) + MaxAway
<1>1. list \subseteq Masternode
    BY DEF PayInv, MessageTypes
<1>2. IsFiniteSet(list) /\ Cardinality(list) <= Cardinality(Masternode) /\ Cardinality(list) \in Nat
    BY <1>1, CountFacts, FS_Subset, FS_CardinalityType
<1>3. Masternode \cap list = list
    BY <1>1
<1>4. Cardinality(Masternode \ list) = Cardinality(Masternode) - Cardinality(list)
    BY <1>3, CountFacts, FS_Difference
<1> QED BY <1>2, <1>4, CountFacts DEF ListInv

(* The choice of ProcessBlock: m was paid within the cycle, or somebody who was
   not is chosen.                                                             *)
LEMMA ChosenInTurn ==
    ASSUME PayInv, ListInv, NEW m \in Steady, NEW h \in Nat, NEW v \in Candidates(h)
    PROVE  /\ v.height = h /\ v.vin \in Masternode
           /\ m \in LastPayments(vWinning[Signer]) \/ v.vin \notin LastPayments(vWinning[Signer])
<1> DEFINE last == LastPayments(vWinning[Signer])
           unpaid == (list \ down) \ last
<1>1. m \in list \ down /\ list \subseteq Masternode
    BY DEF ListInv, PayInv, MessageTypes
<1>2. CASE unpaid = {}
    <2>1. m \in last
        BY <1>1, <1>2
    <2>2. \E x \in list : v = VoteFor(h, x)
        BY <1>1, <1>2 DEF Candidates
    <2> QED BY <1>1, <2>1, <2>2 DEF VoteFor
<1>3. CASE unpaid # {}
    <2>1. \E x \in unpaid : v = VoteFor(h, x)
        BY <1>3 DEF Candidates
    <2> QED BY <1>1, <2>1 DEF VoteFor
<1> QED BY <1>2, <1>3

(* A vote for a higher height appended to winners in turn.                    *)
LEMMA AppendInTurn ==
    ASSUME PayInv, ListInv, NEW m \in Steady, NEW h \in Int, InTurn(vWinning[Signer], h, m),
           NEW e \in Winner, e.height > h, e.vin \in Masternode,
           m \in LastPayments(vWinning[Signer]) \/ e.vin \notin LastPayments(vWinning[Signer])
    PROVE  InTurn(Append(vWinning[Signer], e), e.height, m)
<1> DEFINE n == Cardinality(Masternode)
           k == Cardinality(list)
<1> PICK win \in Seq(Winner) : win = vWinning[Signer]
    BY ConstantFacts DEF PayInv, NodeInv, Loose
<1> PICK len \in Nat : len = Len(win)
    OBVIOUS
<1> DEFINE w2 == Append(win, e)
           p == len + 1
<1>1. /\ DOMAIN win = 1 .. len /\ DOMAIN w2 = 1 .. p /\ w2[p] = e
      /\ \A i \in 1 .. len : w2[i] = win[i]
    OBVIOUS
<1>2. k \in Nat /\ n \in Nat /\ MaxAway \in Nat /\ k <= n /\ n <= k + MaxAway
    BY ListLength, CountFacts
<1>3. LastPayments(win) = {win[i].vin : i \in {j \in 1 .. len : j >= len - k}}
    BY <1>1 DEF LastPayments
<1>4. /\ \A i \in 1 .. len : win[i].vin \in Masternode /\ win[i].height <= h /\ win[i].height \in Nat
      /\ \A i, j \in 1 .. len : i < j => win[i].height < win[j].height
      /\ \A q \in 1 .. len : q > n + 1 => Turn(win, m, q)
    BY <1>1, WinnerFields DEF InTurn
<1> HIDE DEF w2, n, k
<1>e. e.height \in Nat
    BY DEF Winner
<1>5. ASSUME NEW i \in DOMAIN w2
      PROVE  w2[i].vin \in Masternode /\ w2[i].height <= e.height
    BY <1>1, <1>4, <1>e
<1>6. ASSUME NEW i \in DOMAIN w2, NEW j \in DOMAIN w2, i < j
      PROVE  w2[i].height < w2[j].height
    <2>1. i \in 1 .. len
        BY <1>1, <1>6
    <2>2. CASE j = p
        BY <1>1, <1>4, <1>e, <2>1, <2>2
    <2>3. CASE j \in 1 .. len
        BY <1>1, <1>4, <1>6, <2>1, <2>3
    <2> QED BY <1>1, <2>2, <2>3
<1>7. ASSUME NEW q \in DOMAIN w2, q > n + 1
      PROVE  Turn(w2, m, q)
    <2>1. \A j \in (q - n - 1) .. (q - 1) : j \in 1 .. len /\ w2[j] = win[j]
        BY <1>1, <1>2, <1>7
    <2>2. \A j \in (q + MaxAway - n - 1) .. (q - 1) : j \in (q - n - 1) .. (q - 1)
        BY <1>1, <1>2
    <2>3. CASE q = p
        <3>1. CASE m \in LastPayments(win)
            <4>1. PICK i \in 1 .. len : i >= len - k /\ win[i].vin = m
                BY <1>3, <3>1
            <4>2. i \in (q - n - 1) .. (q - 1)
                BY <1>2, <2>3, <4>1
            <4> QED BY <1>1, <4>1, <4>2 DEF Turn, n
        <3>2. CASE e.vin \notin LastPayments(win)
            <4>1. ASSUME NEW j \in (q + MaxAway - n - 1) .. (q - 1)
                  PROVE  w2[j].vin # w2[q].vin
                <5>1. j \in 1 .. len /\ w2[j] = win[j]
                    BY <2>1, <2>2
                <5>2. j >= len - k
                    BY <1>2, <2>3, <5>1
                <5> QED BY <1>1, <1>3, <2>3, <3>2, <5>1, <5>2
            <4> QED BY <4>1 DEF Turn, n
        <3> QED BY <3>1, <3>2
    <2>4. CASE q \in 1 .. len
        <3>1. Turn(win, m, q) /\ w2[q] = win[q]
            BY <1>1, <1>4, <1>7, <2>4
        <3> QED BY <2>1, <2>2, <3>1 DEF Turn, n
    <2> QED BY <1>1, <2>3, <2>4
<1> QED BY <1>5, <1>6, <1>7 DEF InTurn, w2, n

(* A window of a sequence that has lost its first element, in the numbering of
   the sequence before and after.                                            *)
LEMMA WindowBack ==
    ASSUME NEW p \in Nat, NEW q \in Nat, q = p + 1, NEW n \in Nat, p > n + 1,
           NEW len \in Nat, p <= len - 1, NEW j \in (q - n - 1) .. (q - 1)
    PROVE  j - 1 \in (p - n - 1) .. (p - 1) /\ j - 1 \in 1 .. (len - 1) /\ j - 1 + 1 = j
OBVIOUS

LEMMA WindowOn ==
    ASSUME NEW p \in Nat, NEW q \in Nat, q = p + 1, NEW n \in Nat, p > n + 1, NEW a \in Nat,
           NEW len \in Nat, p <= len - 1, NEW j \in (p + a - n - 1) .. (p - 1)
    PROVE  j \in 1 .. (len - 1) /\ j + 1 \in (q + a - n - 1) .. (q - 1)
OBVIOUS

(* CleanPaymentList takes the oldest winner.                                  *)
LEMMA RestInTurn ==
    ASSUME NEW win \in Seq(Winner), NEW h, NEW m, InTurn(win, h, m), 1 \in DOMAIN win
    PROVE  InTurn(RemoveAt(win, 1), h, m)
<1> PICK n \in Nat : n = Cardinality(Masternode)
    BY CountFacts
<1> PICK len \in Nat : len = Len(win)
    OBVIOUS
<1> PICK r : r = RemoveAt(win, 1)
    OBVIOUS
<1>1. /\ r \in Seq(Winner) /\ Len(r) = len - 1
      /\ \A j \in 1 .. (len - 1) : r[j] = win[IF j < 1 THEN j ELSE j + 1]
    BY RemoveIs, Zenon
<1>2. /\ DOMAIN win = 1 .. len /\ DOMAIN r = 1 .. (len - 1)
      /\ \A j \in DOMAIN r : r[j] = win[j + 1] /\ j + 1 \in DOMAIN win
    BY <1>1
<1>3. MaxAway \in Nat
    BY CountFacts
<1>4. ASSUME NEW i \in DOMAIN r
      PROVE  r[i].vin \in Masternode /\ r[i].height <= h
    BY <1>2 DEF InTurn
<1>5. ASSUME NEW i \in DOMAIN r, NEW j \in DOMAIN r, i < j
      PROVE  r[i].height < r[j].height
    <2>1. r[i] = win[i + 1] /\ r[j] = win[j + 1] /\ i + 1 \in DOMAIN win /\ j + 1 \in DOMAIN win
        BY <1>2
    <2>2. i + 1 < j + 1
        BY <1>2, <1>5
    <2>3. \A x, y \in DOMAIN win : x < y => win[x].height < win[y].height
        BY DEF InTurn
    <2> QED BY <2>1, <2>2, <2>3
<1>6. ASSUME NEW p \in Nat, p \in DOMAIN r, p > n + 1
      PROVE  Turn(r, m, p)
    <2> PICK q \in Nat : q = p + 1
        BY <1>2
    <2>1. q \in DOMAIN win /\ q > n + 1 /\ r[p] = win[q] /\ p \in Nat
        BY <1>2, <1>3, <1>6
    <2>2. Turn(win, m, q)
        BY <2>1 DEF InTurn
    <2>3. CASE \E j \in (q - n - 1) .. (q - 1) : win[j].vin = m
        <3>1. PICK j \in (q - n - 1) .. (q - 1) : win[j].vin = m
            BY <2>3
        <3>2. j - 1 \in (p - n - 1) .. (p - 1) /\ j - 1 \in DOMAIN r /\ j - 1 + 1 = j
            <4>1. p <= len - 1 /\ DOMAIN r = 1 .. (len - 1)
                BY <1>2, <1>6
            <4> QED BY <1>6, <4>1, WindowBack
        <3>3. r[j - 1] = win[j]
            BY <1>2, <3>2
        <3> QED BY <3>1, <3>2, <3>3 DEF Turn
    <2>4. CASE \A j \in (q + MaxAway - n - 1) .. (q - 1) : win[j].vin # win[q].vin
        <3>1. ASSUME NEW j \in (p + MaxAway - n - 1) .. (p - 1)
              PROVE  r[j].vin # r[p].vin
            <4>1. j \in DOMAIN r /\ j + 1 \in (q + MaxAway - n - 1) .. (q - 1)
                <5>1. p \in 1 .. (len - 1) /\ p > n + 1 /\ DOMAIN r = 1 .. (len - 1)
                    BY <1>2, <1>6
                <5>2. p \in Nat /\ p <= len - 1
                    BY <5>1
                <5>3. j \in 1 .. (len - 1) /\ j + 1 \in (q + MaxAway - n - 1) .. (q - 1)
                    BY <1>3, <5>1, <5>2, WindowOn
                <5> QED BY <5>1, <5>3
            <4> QED BY <1>2, <2>1, <2>4, <4>1
        <3> QED BY <3>1 DEF Turn
    <2> QED BY <2>2, <2>3, <2>4 DEF Turn
<1> QED BY <1>2, <1>4, <1>5, <1>6 DEF InTurn

(* What a step may do to the list.                                            *)
LEMMA ListInvNext ==
    ASSUME PayInv, ListInv, [PayNext]_payVars
    PROVE  ListInv'
<1>1. \A n, b : NewTip(n, b) => UNCHANGED <<list, down>> /\ side' \in Nat
    BY DEF NewTip, ListInv, listVars
<1>2. SideBlock => UNCHANGED <<list, down>> /\ side' \in Nat
    BY DEF SideBlock, ListInv, listVars
<1>3. (\E m \in Masternode : ListChange(m)) \/ (UNCHANGED <<list, down>> /\ side' \in Nat)
    BY <1>1, <1>2 DEF PayNext, payVars, chainVars, listVars, ProcessBlock, GetData, ReceiveVote, WeighVote,
                      AddVote, Sync, CleanPaymentList, ListInv
<1>4. ASSUME NEW m \in Masternode, ListChange(m)
      PROVE  ListInv'
    <2>1. IsFiniteSet(Masternode \ list) /\ Cardinality(Masternode \ list) \in Nat
        BY CountFacts, FS_Difference, FS_CardinalityType
    <2>2. side' \in Nat /\ Steady \subseteq list' /\ Steady \cap down' = {}
        BY <1>4 DEF ListChange, ListInv, chainVars
    <2>3. CASE list' = list
        BY <2>2, <2>3 DEF ListInv
    <2>4. CASE list' = list \ {m} /\ Cardinality(Masternode \ list) < MaxAway
        <3>1. Masternode \ list' = (Masternode \ list) \cup {m}
            BY <2>4
        <3>2. Cardinality(Masternode \ list') <= Cardinality(Masternode \ list) + 1
            BY <2>1, <3>1, FS_AddElement
        <3>3. Cardinality(Masternode \ list') \in Nat
            BY CountFacts, FS_Difference, FS_CardinalityType
        <3> QED BY <2>1, <2>2, <2>4, <3>2, <3>3, CountFacts DEF ListInv
    <2>5. CASE list' = list \cup {m}
        <3>1. Masternode \ list' \in SUBSET (Masternode \ list)
            BY <2>5
        <3>2. Cardinality(Masternode \ list') <= Cardinality(Masternode \ list)
            BY <2>1, <3>1, FS_Subset
        <3>3. Cardinality(Masternode \ list') \in Nat
            BY CountFacts, FS_Difference, FS_CardinalityType
        <3> QED BY <2>1, <2>2, <3>2, <3>3, CountFacts DEF ListInv
    <2> QED BY <1>4, <2>3, <2>4, <2>5 DEF ListChange
<1> QED BY <1>3, <1>4 DEF ListInv

(* Without a side block the tip of the master rises.                          *)
LEMMA NewTipInTurn ==
    ASSUME PayInv, ListInv, NEW m \in Steady, Turns(m), side' = side,
           NEW b \in UNION {BlocksAt(h) : h \in FirstTip .. MaxHeight}, NewTip(Signer, b)
    PROVE  Turns(m)'
<1> PICK h \in Nat : h = tip[Signer][2]
    BY ConstantFacts, TipHeight
<1>1. Signer \in Node /\ tip \in [Node -> Block] /\ tip[Signer] \in BlocksAt(h)
    BY ConstantFacts DEF PayInv, TipTypes
<1>2. PICK g \in Nat : b \in BlocksAt(g) /\ b[2] = g
    <2>1. PICK g \in FirstTip .. MaxHeight : b \in BlocksAt(g)
        OBVIOUS
    <2> QED BY <2>1, BlockHeight, ConstantFacts
<1>3. /\ ~IsAncestor(b, tip[Signer]) /\ IsAncestor(tip[Signer], b)
      /\ tip' = [tip EXCEPT ![Signer] = b] /\ due' = TRUE
      /\ UNCHANGED <<vWinning, seen, at, signed>>
    <2>1. IsAncestor(tip[Signer], b)
        BY DEF ListInv, NewTip
    <2>2. due' = TRUE
        BY Zenon DEF NewTip
    <2> QED BY <2>1, <2>2 DEF NewTip
<1>4. h <= g /\ AtHeight(b, h) = tip[Signer]
    BY <1>2, <1>3 DEF IsAncestor
<1>5. g # h
    <2> SUFFICES ASSUME g = h PROVE FALSE
        OBVIOUS
    <2>1. AtHeight(b, h) = b
        BY <1>2 DEF BlocksAt, AtHeight
    <2>2. AtHeight(tip[Signer], h) = tip[Signer]
        BY <1>1 DEF BlocksAt, AtHeight
    <2> QED BY <1>2, <1>3, <1>4, <2>1, <2>2 DEF IsAncestor
<1>6. Reached' = g + Ahead - 1 /\ Reached \in Int /\ Reached <= g + Ahead - 1
    <2>1. tip'[Signer] = b
        BY <1>1, <1>3
    <2>2. Reached' = g + Ahead - 1
        <3>1. tip'[Signer][2] = g /\ due'
            BY <1>2, <1>3, <2>1
        <3> QED BY <3>1, ConstantFacts DEF Reached, NextHeight
    <2> QED BY <1>4, <1>5, <2>2, ConstantFacts DEF Reached, NextHeight
<1>7. InTurn(vWinning[Signer], g + Ahead - 1, m)
    <2>1. ASSUME NEW i \in DOMAIN vWinning[Signer]
          PROVE  vWinning[Signer][i].height <= g + Ahead - 1
        <3>1. vWinning[Signer][i].height \in Nat
            BY <1>1, WinnerFields DEF PayInv, NodeInv, Loose
        <3>2. vWinning[Signer][i].height <= Reached
            BY DEF Turns, InTurn
        <3> QED BY <1>6, <3>1, <3>2, ConstantFacts
    <2> QED BY <2>1 DEF Turns, InTurn
<1> QED BY <1>3, <1>6, <1>7 DEF Turns

(* The vote for it opens a height.                                            *)
LEMMA ProcessInTurn ==
    ASSUME PayInv, ListInv, NEW m \in Steady, Turns(m), ProcessBlock, Signer \notin torn'
    PROVE  Turns(m)'
<1> PICK h \in Nat : h = NextHeight
    BY ConstantFacts, TipHeight DEF NextHeight
<1> PICK win \in Seq(Winner) : win = vWinning[Signer]
    BY ConstantFacts DEF PayInv, NodeInv, Loose
<1>1. due /\ Signer \in Node /\ DOMAIN vWinning = Node /\ DOMAIN seen = Node
    BY ConstantFacts DEF ProcessBlock, PayInv, Domains, MessageTypes
<1>2. PICK v, r : Votes(v, r) /\ v \in Candidates(h)
    <2>1. \E v \in Candidates(tip[Signer][2] + Ahead) \cup {VoteFor(tip[Signer][2] + Ahead, x) : x \in list} : \E r :
              Votes(v, r) /\ (Signer \in torn' \/ v \in Candidates(tip[Signer][2] + Ahead))
        BY ProcessBlockVotes
    <2> QED BY <2>1 DEF NextHeight
<1>3. PICK b \in Block : r.win = Weigh(win, v, b) /\ r.opened = ~Known(win, v)
    BY <1>2, VotesWeigh
<1>4. /\ v \in Vote /\ v.height = h /\ v.vin \in Masternode
      /\ m \in LastPayments(win) \/ v.vin \notin LastPayments(win)
    BY <1>2, ChosenInTurn DEF Votes
<1>5. InTurn(win, h - 1, m)
    BY <1>1 DEF Turns, Reached
<1>6. ~Known(win, v)
    BY <1>4, <1>5, WinnerFields DEF Known, InTurn
<1>7. vWinning'[Signer] = Append(win, Entry(v, b))
    BY <1>1, <1>2, <1>3, <1>6 DEF Votes, Weigh
<1>8. seen'[Signer] = seen[Signer] \cup {v} /\ signed' = signed \cup {v} /\ at' = at
    BY <1>1, <1>2, <1>3, <1>6 DEF Votes
<1>9. Reached' = h
    BY <1>2 DEF Votes, Reached, NextHeight
<1>10. InTurn(Append(win, Entry(v, b)), h, m)
    <2> PICK e \in Winner : e = Entry(v, b) /\ e.height = h /\ e.vin = v.vin
        BY <1>4, EntryIsWinner
    <2> PICK g \in Int : g = h - 1
        OBVIOUS
    <2>1. InTurn(vWinning[Signer], g, m) /\ e.height > g /\ e.vin \in Masternode
        BY <1>4, <1>5
    <2>2. InTurn(Append(vWinning[Signer], e), e.height, m)
        BY <1>4, <2>1, AppendInTurn
    <2> QED BY <2>2
<1> QED BY <1>7, <1>8, <1>9, <1>10 DEF Turns

(* Removing the first old winner removes the first.                           *)
LEMMA CleanInTurn ==
    ASSUME PayInv, NEW m, Turns(m), CleanPaymentList(Signer), Signer \notin torn'
    PROVE  Turns(m)'
<1> PICK h \in Nat : h = tip[Signer][2]
    BY ConstantFacts, TipHeight
<1> PICK win \in Seq(Winner) : win = vWinning[Signer]
    BY ConstantFacts DEF PayInv, NodeInv, Loose
<1> DEFINE old == {i \in DOMAIN win : h - win[i].height > KeepPaid}
           first == {i \in old : \A j \in old : i <= j}
<1>1. /\ old # {} /\ \E i \in first : vWinning' = [vWinning EXCEPT ![Signer] = RemoveAt(win, i)]
      /\ UNCHANGED <<tip, due, seen, at, signed>>
    BY DEF CleanPaymentList, chainVars
<1>2. PICK i \in DOMAIN win : h - win[i].height > KeepPaid
    BY <1>1
<1>3. 1 \in DOMAIN win
    BY <1>2
<1>4. win[1].height \in Nat /\ win[i].height \in Nat /\ win[1].height <= win[i].height
    <2>1. \A a, b \in DOMAIN win : a < b => win[a].height < win[b].height
        BY DEF Turns, InTurn
    <2>2. win[1] \in Winner /\ win[i] \in Winner
        BY <1>2, <1>3
    <2>3. win[1].height \in Nat /\ win[i].height \in Nat
        BY <2>2, WinnerFields
    <2>4. CASE i = 1
        BY <2>3, <2>4
    <2>5. CASE 1 < i
        <3>1. win[1].height < win[i].height
            BY <1>3, <2>1, <2>5
        <3> QED BY <2>3, <3>1
    <2>6. i = 1 \/ 1 < i
        BY <1>3
    <2> QED BY <2>4, <2>5, <2>6
<1>5. 1 \in old
    <2>0. PICK x \in Nat, y \in Nat : x = win[1].height /\ y = win[i].height /\ x <= y
        BY <1>4
    <2>1. h \in Nat /\ x \in Nat /\ y \in Nat /\ x <= y /\ h - y > KeepPaid /\ KeepPaid \in Nat
        BY <1>2, <2>0, ConstantFacts
    <2>2. h - x > KeepPaid
        BY ONLY <2>1
    <2>3. h - win[1].height > KeepPaid
        BY <2>0, <2>2
    <2> QED BY <1>3, <2>3
<1>6. \A j \in old : j \in Nat /\ 1 <= j
    OBVIOUS
<1> HIDE DEF old
<1>7. \A j \in first : j = 1
    BY <1>5, <1>6
<1> HIDE DEF first
<1>8. Signer \in Node /\ DOMAIN vWinning = Node
    BY ConstantFacts DEF PayInv, Domains
<1>9. vWinning'[Signer] = RemoveAt(win, 1)
    BY <1>1, <1>7, <1>8
<1>10. InTurn(RemoveAt(win, 1), Reached, m)
    BY <1>3, RestInTurn DEF Turns
<1>11. Reached' = Reached
    BY <1>1 DEF Reached, NextHeight
<1> QED BY <1>1, <1>9, <1>10, <1>11 DEF Turns

(* The inductive step.                                                        *)
LEMMA TurnInvNext == PayInv /\ TurnInv /\ [PayNext]_payVars => TurnInv'
<1> SUFFICES ASSUME PayInv, TurnInv, [PayNext]_payVars, side' = 0, Signer \notin torn', NEW m \in Steady
             PROVE  Turns(m)'
    BY ListInvNext DEF TurnInv
<1>1. ListInv /\ side \in Nat /\ Signer \in Node /\ MessageTypes /\ Domains /\ TipTypes
    BY ConstantFacts DEF TurnInv, ListInv, PayInv
<1>2. side = 0 /\ Signer \notin torn => Turns(m)
    BY DEF TurnInv
<1>3. ASSUME side = 0, Signer \notin torn, tip'[Signer] = tip[Signer], vWinning'[Signer] = vWinning[Signer],
             due' = due, signed' = signed, at'[Signer] = at[Signer], seen[Signer] \subseteq seen'[Signer]
      PROVE  Turns(m)'
    <2>1. Reached' = Reached
        BY <1>3 DEF Reached, NextHeight
    <2> QED BY <1>2, <1>3, <2>1 DEF Turns
<1>4. ASSUME NEW n \in Node, NEW b \in UNION {BlocksAt(h) : h \in FirstTip .. MaxHeight}, NewTip(n, b)
      PROVE  Turns(m)'
    <2>1. side = 0 /\ side' = side /\ Signer \notin torn
        BY <1>1, <1>4 DEF NewTip
    <2>2. CASE n = Signer
        BY <1>1, <1>2, <1>4, <2>1, <2>2, NewTipInTurn
    <2>3. CASE n # Signer
        <3>1. due' = due
            BY <1>1, <1>4, <2>3 DEF NewTip, MessageTypes
        <3>2. tip'[Signer] = tip[Signer] /\ UNCHANGED <<vWinning, signed, at, seen>>
            BY <1>1, <1>4, <2>3 DEF NewTip, TipTypes
        <3> QED BY <1>3, <2>1, <3>1, <3>2
    <2> QED BY <2>2, <2>3
<1>5. ASSUME SideBlock
      PROVE  FALSE
    BY <1>1, <1>5 DEF SideBlock
<1>6. ASSUME ProcessBlock
      PROVE  Turns(m)'
    <2>1. side = 0 /\ Signer \notin torn
        BY <1>6 DEF ProcessBlock, Tears, chainVars
    <2> QED BY <1>1, <1>2, <1>6, <2>1, ProcessInTurn
<1>7. CASE \E x \in inv : GetData(x[1], x[2], x[3])
    BY <1>3, <1>7 DEF GetData, chainVars
<1>8. ASSUME NEW x \in mnw, ReceiveVote(x[1], x[2])
      PROVE  Turns(m)'
    <2>1. x[1] \in Node /\ seen \in [Node -> SUBSET signed]
        BY <1>1 DEF MessageTypes
    <2>2. side = 0 /\ Signer \notin torn /\ UNCHANGED <<tip, due, vWinning, signed>>
        BY <1>8 DEF ReceiveVote, chainVars
    <2>3. CASE x[1] = Signer
        <3>1. Ignored(x[1], x[2])
            BY <1>2, <2>1, <2>2, <2>3 DEF Ignored, Turns
        <3>2. UNCHANGED <<seen, at>>
            BY <1>8, <3>1 DEF ReceiveVote
        <3> QED BY <1>3, <2>2, <3>2
    <2>4. CASE x[1] # Signer
        <3>1. at'[Signer] = at[Signer] /\ seen'[Signer] = seen[Signer]
            BY <1>1, <1>8, <2>1, <2>4 DEF ReceiveVote, Domains
        <3> QED BY <1>3, <2>2, <3>1
    <2> QED BY <2>3, <2>4
<1>9. ASSUME NEW n \in Node, WeighVote(n) \/ AddVote(n)
      PROVE  Turns(m)'
    <2>1. side = 0 /\ Signer \notin torn /\ UNCHANGED <<tip, due, seen, signed>>
        BY <1>9 DEF WeighVote, AddVote, chainVars
    <2>2. n # Signer
        BY <1>2, <1>9, <2>1 DEF WeighVote, AddVote, Turns
    <2>3. vWinning'[Signer] = vWinning[Signer] /\ at'[Signer] = at[Signer]
        BY <1>1, <1>9, <2>2 DEF WeighVote, AddVote, Returns, Domains
    <2> QED BY <1>3, <2>1, <2>3
<1>10. CASE \E p, n \in Node : p # n /\ Sync(p, n)
    BY <1>3, <1>10 DEF Sync, chainVars
<1>11. ASSUME NEW n \in Node, CleanPaymentList(n)
       PROVE  Turns(m)'
    <2>1. side = 0 /\ Signer \notin torn /\ UNCHANGED <<tip, due, signed, seen, at>>
        BY <1>11 DEF CleanPaymentList, chainVars
    <2>2. CASE n = Signer
        BY <1>2, <1>11, <2>1, <2>2, CleanInTurn
    <2>3. CASE n # Signer
        <3>1. vWinning'[Signer] = vWinning[Signer]
            BY <1>1, <1>11, <2>3 DEF CleanPaymentList, Domains
        <3> QED BY <1>3, <2>1, <3>1
    <2> QED BY <2>2, <2>3
<1>12. CASE \E x \in Masternode : ListChange(x)
    BY <1>3, <1>12 DEF ListChange, chainVars
<1>13. CASE UNCHANGED payVars
    BY <1>3, <1>13 DEF payVars, chainVars
<1> QED BY <1>4, <1>5, <1>6, <1>7, <1>8, <1>9, <1>10, <1>11, <1>12, <1>13 DEF PayNext

(* Nothing was signed at the start.                                           *)
LEMMA TurnInvInit == PayInit => TurnInv
<1> SUFFICES ASSUME PayInit PROVE TurnInv
    OBVIOUS
<1>1. Cardinality(Masternode \ list) = 0
    <2>1. Masternode \ list = {}
        BY DEF PayInit
    <2> QED BY <2>1, FS_EmptySet
<1>2. ListInv
    BY <1>1, CountFacts DEF PayInit, ListInv
<1>3. vWinning[Signer] = <<>> /\ signed = {} /\ at[Signer] = "idle"
    BY ConstantFacts DEF PayInit
<1> QED BY <1>2, <1>3 DEF TurnInv, Turns, InTurn

(* Of two places in the later half of 2N, the one comes within N of the other,
   and all those that come within N + 1 of it are among the 2N.              *)
LEMMA LaterHalf ==
    ASSUME NEW n \in Nat, NEW i \in Nat, NEW a \in Nat, a <= 2,
           NEW p \in (i + n) .. (i + 2 * n - 1), NEW q \in (i + n) .. (i + 2 * n - 1), q < p
    PROVE  /\ q \in (p + a - n - 1) .. (p - 1)
           /\ \A j \in (p - n - 1) .. (p - 1) : j \in i .. (i + 2 * n - 1)
OBVIOUS

(* Of 2N winners in a row without m, the last N were chosen while m was due, so
   no two of them are the same: but only N - 1 others can be named.           *)
LEMMA TurnsReachAll == PayInv /\ TurnInv => NoneStarves
<1> DEFINE n == Cardinality(Masternode)
<1> SUFFICES ASSUME PayInv, TurnInv PROVE NoneStarves
    OBVIOUS
<1> SUFFICES ASSUME side = 0, MaxAway <= 2, Signer \notin torn, NEW win \in Seq(Winner), win = vWinning[Signer],
                    NEW i \in 1 .. (Len(win) - 2 * n + 1), NEW m \in Steady,
                    \A j \in i .. (i + 2 * n - 1) : win[j].vin # m
             PROVE  FALSE
    <2>1. vWinning[Signer] \in Seq(Winner)
        BY ConstantFacts DEF PayInv, NodeInv, Loose
    <2> QED BY <2>1 DEF NoneStarves
<1>1. n \in Nat /\ MaxAway \in Nat /\ i \in Nat /\ i >= 1 /\ IsFiniteSet(Masternode) /\ m \in Masternode
    BY CountFacts
<1>2. n > 0
    BY <1>1, FS_EmptySet
<1>3. Len(win) \in Nat /\ DOMAIN win = 1 .. Len(win) /\ i + 2 * n - 1 <= Len(win)
    BY <1>1
<1>4. InTurn(win, Reached, m)
    BY DEF TurnInv, Turns
<1> PICK lo \in Int : lo = i + n
    BY <1>1
<1> PICK hi \in Int : hi = i + 2 * n - 1
    BY <1>1
<1> PICK later : later = lo .. hi
    OBVIOUS
<1>5. ASSUME NEW p \in later
      PROVE  p \in Int /\ p \in DOMAIN win /\ win[p].vin \in Masternode \ {m}
    <2>1. p \in DOMAIN win /\ p \in i .. (i + 2 * n - 1)
        BY <1>1, <1>3
    <2> QED BY <1>4, <2>1 DEF InTurn
<1>6. ASSUME NEW p \in later, NEW q \in later, q < p
      PROVE  win[q].vin # win[p].vin
    <2>1. p > n + 1
        BY <1>1, <1>6
    <2>2. Turn(win, m, p)
        BY <1>4, <1>5, <2>1 DEF InTurn
    <2>3. i \in Nat /\ n \in Nat /\ MaxAway \in Nat /\ MaxAway <= 2
        BY <1>1
    <2>4. p \in (i + n) .. (i + 2 * n - 1) /\ q \in (i + n) .. (i + 2 * n - 1) /\ q < p
        BY <1>1, <1>6
    <2>5. ASSUME NEW j \in (p - n - 1) .. (p - 1)
          PROVE  j \in i .. (i + 2 * n - 1)
        BY ONLY <2>3, <2>4, <2>5, LaterHalf
    <2>6. q \in (p + MaxAway - n - 1) .. (p - 1)
        BY ONLY <2>3, <2>4, LaterHalf
    <2> QED BY <2>2, <2>5, <2>6 DEF Turn
<1> PICK f : f = [p \in later |-> win[p].vin]
    OBVIOUS
<1>7. f \in Injection(later, Masternode \ {m})
    <2>1. f \in [later -> Masternode \ {m}]
        BY <1>5
    <2>2. \A p, q \in later : p # q => f[p] # f[q]
        BY <1>5, <1>6
    <2>3. DOMAIN f = later
        OBVIOUS
    <2>4. IsInjective(f)
        BY <2>2, <2>3 DEF IsInjective
    <2> QED BY <2>1, <2>4 DEF Injection
<1>8. Cardinality(later) = n
    <2>1. lo \in Int /\ hi \in Int
        OBVIOUS
    <2>2. Cardinality(lo .. hi) = IF lo > hi THEN 0 ELSE hi - lo + 1
        BY ONLY <2>1, FS_Interval
    <2> QED BY <1>1, <1>2, <2>2
<1>9. IsFiniteSet(Masternode \ {m}) /\ Cardinality(Masternode \ {m}) = n - 1
    BY <1>1, FS_RemoveElement
<1>10. Cardinality(later) <= Cardinality(Masternode \ {m})
    BY <1>7, <1>9, FS_Injection
<1> QED BY <1>1, <1>8, <1>9, <1>10

(* ProcessBlock of the payments master: while every block extends the best
   chain and no more than two masternodes are missing from the list at a time,
   any two payment cycles of winners name every masternode that stays enabled,
   whatever the others do and whenever the winners are cleaned.               *)
THEOREM NobodyStarves == PaySpec => []NoneStarves
<1>1. PayInit => PayInv /\ TurnInv
    BY PayInvInit, TurnInvInit
<1>2. PayInv /\ TurnInv /\ [PayNext]_payVars => (PayInv /\ TurnInv)'
    BY PayInvNext, TurnInvNext
<1>3. PayInv /\ TurnInv => NoneStarves
    BY TurnsReachAll
<1> QED BY <1>1, <1>2, <1>3, PTL DEF PaySpec
=============================================================================
