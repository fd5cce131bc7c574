---------------------------- MODULE ChainProofs -----------------------------
(***************************************************************************)
(* The block chain of a node, for every block tree.  Four parts, each with *)
(* an inductive invariant of its own or lemmas for the next:               *)
(*                                                                         *)
(* 1. The tip on disk (ChainInv): trust, the block files, the first start. *)
(*                                                                         *)
(* 2. The ledger: ConnectBlock on the exact index of a sound ledger gives  *)
(* the exact index of the longer one or fails, DisconnectBlock gives that  *)
(* of the shorter one and never fails, and Reorganize's two loops compose  *)
(* them along both branches.                                               *)
(*                                                                         *)
(* 3. The block index in memory and on disk (IndexInv, ExactInv, TipInv).  *)
(*                                                                         *)
(* 4. The holding area of orphan blocks, and the best branch.              *)
(***************************************************************************)
EXTENDS Chain, FoldProofs, SequenceTheorems

-----------------------------------------------------------------------------
(* Ancestors.  Lineage is a least set, so a fact about ancestors is proved  *)
(* by showing that the blocks it holds for form a set closed under pprev.   *)

\* The principle: a set that holds b and the parents of its members holds
\* every ancestor of b.
LEMMA LineageInduction ==
  ASSUME NEW b \in Block, NEW S \in SUBSET Block, b \in S,
         \A s \in S : Prev[s] # Null => Prev[s] \in S
  PROVE  Lineage[b] \subseteq S
  BY DEF Lineage

\* A block is its own ancestor, and the parent of an ancestor is one too.
LEMMA LineageClosed ==
  ASSUME NEW b \in Block
  PROVE  /\ b \in Lineage[b]
         /\ Lineage[b] \subseteq Block
         /\ \A a \in Lineage[b] : Prev[a] # Null => Prev[a] \in Block /\ Prev[a] \in Lineage[b]
  BY BlockTree DEF Lineage

\* Height and trust grow along a branch.
LEMMA LineageOrder ==
  ASSUME NEW b \in Block
  PROVE  \A a \in Lineage[b] :
            /\ ChainTrust[a] <= ChainTrust[b]
            /\ a = b \/ Height[a] < Height[b]
  <1> DEFINE S == {a \in Block : /\ ChainTrust[a] <= ChainTrust[b]
                                 /\ a = b \/ Height[a] < Height[b]}
  <1>1. b \in S
    BY PrevEnds
  <1>2. ASSUME NEW s \in S, Prev[s] # Null
        PROVE  Prev[s] \in S
    <2>1. Prev[s] \in Block /\ BlockTrust[s] \in Nat
      BY <1>2, BlockTree
    <2>2. /\ Height[s] = Height[Prev[s]] + 1
          /\ ChainTrust[s] = BlockTrust[s] + ChainTrust[Prev[s]]
      BY <1>2, PrevEnds
    <2>3. /\ Height[s] \in Nat /\ Height[Prev[s]] \in Nat /\ Height[b] \in Nat
          /\ ChainTrust[s] \in Nat /\ ChainTrust[Prev[s]] \in Nat /\ ChainTrust[b] \in Nat
      BY <2>1, PrevEnds
    <2> QED
      BY <2>1, <2>2, <2>3
  <1>3. Lineage[b] \subseteq S
    <2> HIDE DEF S
    <2>1. S \in SUBSET Block
      BY DEF S
    <2> QED
      BY <1>1, <1>2, <2>1, LineageInduction
  <1> QED
    BY <1>3

\* Every proper ancestor has a child on the branch.
LEMMA LineageChild ==
  ASSUME NEW b \in Block
  PROVE  \A a \in Lineage[b] : a # b => \E c \in Lineage[b] : Prev[c] = a
  <1> DEFINE S == {a \in Lineage[b] : a = b \/ \E c \in Lineage[b] : Prev[c] = a}
  <1>1. S \in SUBSET Block /\ b \in S
    BY LineageClosed
  <1>2. ASSUME NEW s \in S, Prev[s] # Null
        PROVE  Prev[s] \in S
    BY <1>2, LineageClosed
  <1>3. Lineage[b] \subseteq S
    <2> HIDE DEF S
    <2> QED
      BY <1>1, <1>2, LineageInduction
  <1> QED
    BY <1>3

\* A branch has one block of each height.
LEMMA LineageHeights ==
  ASSUME NEW b \in Block
  PROVE  \A a, c \in Lineage[b] : Height[a] = Height[c] => a = c
  <1> DEFINE S == {a \in Lineage[b] : \A c \in Lineage[b] : Height[a] = Height[c] => a = c}
  <1>1. S \in SUBSET Block
    BY LineageClosed
  <1>2. b \in S
    BY LineageClosed, LineageOrder, PrevEnds
  <1>3. ASSUME NEW s \in S, Prev[s] # Null
        PROVE  Prev[s] \in S
    <2>1. s \in Block /\ Prev[s] \in Lineage[b] /\ Prev[s] \in Block
      BY <1>3, LineageClosed
    <2>2. SUFFICES ASSUME NEW c \in Lineage[b], Height[Prev[s]] = Height[c]
                   PROVE  Prev[s] = c
      BY <2>1
    <2>3. Height[s] = Height[c] + 1 /\ Height[s] \in Nat /\ Height[c] \in Nat /\ Height[b] \in Nat
      BY <2>1, <2>2, <1>3, PrevEnds
    <2>4. c # b
      BY <2>3, LineageOrder
    <2>5. PICK d \in Lineage[b] : Prev[d] = c
      BY <2>4, LineageChild
    <2>6. d \in Block /\ c \in Block
      BY LineageClosed
    <2>7. Height[d] = Height[c] + 1
      BY <2>5, <2>6, BlockTree, PrevEnds
    <2> QED
      BY <2>3, <2>5, <2>7
  <1>4. Lineage[b] \subseteq S
    <2> HIDE DEF S
    <2> QED
      BY <1>1, <1>2, <1>3, LineageInduction
  <1> QED
    BY <1>4

\* It has a block of every height from that of an ancestor to its own.
LEMMA LineageComplete ==
  ASSUME NEW b \in Block
  PROVE  \A a \in Lineage[b] : \A h \in Height[a]..Height[b] :
            \E c \in Lineage[b] : Height[c] = h
  <1> DEFINE S == {a \in Lineage[b] : \A h \in Height[a]..Height[b] :
                                        \E c \in Lineage[b] : Height[c] = h}
  <1>1. S \in SUBSET Block
    BY LineageClosed
  <1>2. b \in S
    BY LineageClosed, PrevEnds
  <1>3. ASSUME NEW s \in S, Prev[s] # Null
        PROVE  Prev[s] \in S
    <2>1. s \in Block /\ Prev[s] \in Lineage[b] /\ Prev[s] \in Block
      BY <1>3, LineageClosed
    <2>2. Height[s] = Height[Prev[s]] + 1 /\ Height[Prev[s]] \in Nat /\ Height[b] \in Nat
      BY <2>1, <1>3, PrevEnds
    <2>3. \A h \in Height[Prev[s]]..Height[b] : h = Height[Prev[s]] \/ h \in Height[s]..Height[b]
      BY <2>2
    <2> QED
      BY <2>1, <2>3
  <1>4. Lineage[b] \subseteq S
    <2> HIDE DEF S
    <2> QED
      BY <1>1, <1>2, <1>3, LineageInduction
  <1> QED
    BY <1>4

\* The blocks after f up to b are those of the branch, in order of height.
LEMMA PathUpBlocks ==
  ASSUME NEW b \in Block, NEW f \in Lineage[b]
  PROVE  /\ PathUp(f, b) \in Seq(Block)
         /\ Len(PathUp(f, b)) = Height[b] - Height[f]
         /\ \A i \in 1..(Height[b] - Height[f]) :
               PathUp(f, b)[i] \in Lineage[b] /\ Height[PathUp(f, b)[i]] = Height[f] + i
  <1> DEFINE n == Height[b] - Height[f]
             p == PathUp(f, b)
  <1>1. Height[f] \in Nat /\ Height[b] \in Nat /\ Height[f] <= Height[b]
    BY LineageClosed, LineageOrder, PrevEnds
  <1>2. \A i \in 1..n : \E a \in Lineage[b] : Height[a] = Height[f] + i
    <2> SUFFICES ASSUME NEW i \in 1..n
                 PROVE  \E a \in Lineage[b] : Height[a] = Height[f] + i
      OBVIOUS
    <2>1. Height[f] + i \in Height[f]..Height[b]
      BY <1>1
    <2> QED
      BY <2>1, LineageComplete
  <1>3. \A i \in 1..n : p[i] \in Lineage[b] /\ Height[p[i]] = Height[f] + i
    BY <1>2 DEF PathUp
  <1>4. p \in [1..n -> Block]
    BY <1>3, LineageClosed DEF PathUp
  <1>5. n \in Nat
    BY <1>1
  <1> HIDE DEF n, p
  <1>6. p \in Seq(Block) /\ Len(p) = n
    BY <1>4, <1>5
  <1> QED
    BY <1>3, <1>6 DEF n, p

\* They start with the child of f, and the rest are those after that child.
LEMMA PathUpStep ==
  ASSUME NEW b \in Block, NEW f \in Lineage[b], f # b
  PROVE  /\ Head(PathUp(f, b)) \in Lineage[b]
         /\ Prev[Head(PathUp(f, b))] = f
         /\ Tail(PathUp(f, b)) = PathUp(Head(PathUp(f, b)), b)
  <1> DEFINE n == Height[b] - Height[f]
             p == PathUp(f, b)
             q == PathUp(p[1], b)
  <1>1. f \in Block /\ Height[f] \in Nat /\ Height[b] \in Nat /\ Height[f] < Height[b]
    BY LineageClosed, LineageOrder, PrevEnds
  <1>2. n \in Nat /\ n >= 1
    BY <1>1
  <1>3. /\ p \in Seq(Block) /\ Len(p) = n
        /\ \A i \in 1..n : p[i] \in Lineage[b] /\ Height[p[i]] = Height[f] + i
    BY PathUpBlocks
  <1>4. Head(p) = p[1] /\ p[1] \in Lineage[b] /\ Height[p[1]] = Height[f] + 1 /\ p # <<>>
    BY <1>2, <1>3
  <1>5. Prev[p[1]] = f
    <2>1. PICK c \in Lineage[b] : Prev[c] = f
      BY LineageChild
    <2>2. c \in Block /\ Prev[c] # Null
      BY <2>1, <1>1, LineageClosed, BlockTree
    <2>3. Height[c] = Height[f] + 1
      BY <2>1, <2>2, PrevEnds
    <2> QED
      BY <2>1, <2>3, <1>4, LineageHeights
  <1>6. /\ q \in Seq(Block) /\ Len(q) = n - 1
        /\ \A i \in 1..(n - 1) : q[i] \in Lineage[b] /\ Height[q[i]] = Height[f] + 1 + i
    <2>1. /\ q \in Seq(Block) /\ Len(q) = Height[b] - Height[p[1]]
          /\ \A i \in 1..(Height[b] - Height[p[1]]) :
                q[i] \in Lineage[b] /\ Height[q[i]] = Height[p[1]] + i
      BY <1>4, PathUpBlocks
    <2>2. Height[b] - Height[p[1]] = n - 1
      BY <1>4, <1>1
    <2> QED
      BY <2>1, <2>2, <1>4
  <1> HIDE DEF p, q, n
  <1>7. /\ Tail(p) \in Seq(Block) /\ Len(Tail(p)) = n - 1
        /\ \A i \in 1..(n - 1) : Tail(p)[i] = p[i + 1]
    BY <1>3, <1>4, HeadTailProperties
  <1>8. \A i \in 1..(n - 1) : Tail(p)[i] = q[i]
    <2> SUFFICES ASSUME NEW i \in 1..(n - 1)
                 PROVE  Tail(p)[i] = q[i]
      OBVIOUS
    <2>1. i + 1 \in 1..n /\ Height[f] + 1 + i = Height[f] + (i + 1)
      BY <1>1, <1>2
    <2>2. p[i + 1] \in Lineage[b] /\ Height[p[i + 1]] = Height[q[i]] /\ q[i] \in Lineage[b]
      BY <2>1, <1>3, <1>6
    <2> QED
      BY <2>2, <1>7, LineageHeights
  <1>9. Tail(p) = q
    BY <1>6, <1>7, <1>8, SeqEqual
  <1> QED
    BY <1>4, <1>5, <1>9 DEF p, q

-----------------------------------------------------------------------------
(* The inductive invariant.                                                 *)

Alive == pc \notin {"down", "unbootable"}

ProgramTypes ==
    /\ dbHashBest \in Block \cup {Null} /\ hashBestChain \in Block \cup {Null}
    /\ pc \in {"down", "unbootable", "idle", "AddToBlockIndex", "SetBestChain",
               "ConnectPostponed", "orphans"}
    /\ caller \in {"load", "new", "orphan"}
    /\ pc = "down" => caller = "load"
    /\ pc \in {"AddToBlockIndex", "SetBestChain", "ConnectPostponed"} => pblock \in Block

\* The block file is written before the index record.
FileFirst ==
    /\ DOMAIN dbBlockIndex \subseteq blkFile
    /\ pc = "AddToBlockIndex" => pblock \in blkFile

\* Until the genesis block is the tip on disk, nothing else is stored, and the
\* program is loading; afterwards a running program has a tip.
GenesisFirst ==
    /\ dbHashBest = Null =>
          /\ DOMAIN dbBlockIndex \subseteq {Genesis}
          /\ hashBestChain = Null
          /\ pc \in {"down", "unbootable", "AddToBlockIndex", "SetBestChain"}
          /\ Alive => pblock = Genesis /\ caller = "load"
    /\ dbHashBest # Null /\ Alive => hashBestChain # Null
    /\ pc = "unbootable" => dbHashBest = Null
    /\ (dbHashBest # Null \/ pc \in {"SetBestChain", "unbootable"}) => DOMAIN dbBlockIndex # {}

\* The tip in memory has no less trust than the tip on disk, a block that
\* AddToBlockIndex hands to SetBestChain has more, and while postponed blocks
\* are connected the tip on disk is an ancestor of the block at hand.
TrustOrder ==
    /\ Alive /\ pc # "ConnectPostponed" => TrustOf(dbHashBest) <= TrustOf(hashBestChain)
    /\ pc = "SetBestChain" /\ caller # "load" => TrustOf(pblock) > TrustOf(hashBestChain)
    /\ pc = "ConnectPostponed" =>
          /\ dbHashBest \in Lineage[pblock] /\ dbHashBest # pblock
          /\ vpindexSecondary = PathUp(dbHashBest, pblock)

ChainInv == ProgramTypes /\ FileFirst /\ GenesisFirst /\ TrustOrder

\* Trust is a number, and that of an ancestor is no more.
LEMMA TrustNat ==
  /\ \A b \in Block \cup {Null} : TrustOf(b) \in Nat
  /\ \A b \in Block : TrustOf(b) = ChainTrust[b]
  /\ \A b \in Block : \A a \in Lineage[b] : TrustOf(a) <= TrustOf(b)
  <1>1. \A b \in Block : b # Null
    BY BlockTree
  <1>2. \A b \in Block : TrustOf(b) = ChainTrust[b]
    BY <1>1 DEF TrustOf
  <1>3. \A b \in Block \cup {Null} : TrustOf(b) \in Nat
    BY <1>2, PrevEnds DEF TrustOf
  <1> QED
    BY <1>2, <1>3, LineageOrder, LineageClosed

\* A child has more trust than its parent.
LEMMA ChildHasMore ==
  ASSUME NEW c \in Block, NEW b \in Block, Prev[c] = b
  PROVE  TrustOf(c) > TrustOf(b)
  BY BlockTree, PrevEnds, TrustNat

\* Where a call of AcceptBlock returns to.
LEMMA Returns ==
  ASSUME caller \in {"load", "new", "orphan"}, NEW accepted, Return(accepted)
  PROVE  pc' \in {"idle", "orphans"} /\ caller' = "load"
  BY DEF Return

\* SetBestChain reorganises to an ancestor of the new block, or the block
\* itself, that has more trust than the tip.
LEMMA IntermediateBeatsTip ==
  ASSUME pblock \in Block, TrustOf(pblock) > TrustOf(hashBestChain),
         NEW to \in pindexIntermediate
  PROVE  TrustOf(to) > TrustOf(hashBestChain)
  <1>1. CASE to = pblock
    BY <1>1
  <1>2. CASE to # pblock
    <2>1. to \in Lineage[pblock]
      BY DEF pindexIntermediate
    <2>2. PICK c \in Lineage[pblock] : Prev[c] = to
      BY <1>2, <2>1, LineageChild
    <2>3. c \in Block /\ to \in Block /\ Prev[c] # Null
      BY <2>1, <2>2, LineageClosed, BlockTree
    <2>4. Height[c] = Height[to] + 1 /\ Height[to] \in Nat
      BY <2>2, <2>3, PrevEnds
    <2>5. c \in Postponed(pblock)
      BY <2>4 DEF pindexIntermediate
    <2>6. c \in Lineage[pblock] \ (Lineage[c] \ {c})
      OBVIOUS
    <2> QED
      BY <2>2, <2>5, <2>6 DEF Postponed
  <1> QED
    BY <1>1, <1>2

-----------------------------------------------------------------------------
(* Every step keeps the invariant, and moves the tip on disk upwards.       *)

TrustStep ==
    dbHashBest' # dbHashBest /\ caller # "load" => TrustOf(dbHashBest') > TrustOf(dbHashBest)

\* Steps that leave disk, tip and position alone: a block is held as an orphan,
\* a lock comes or goes, the clock moves.
LEMMA QuietSteps ==
  ASSUME ChainInv, UNCHANGED <<disk, hashBestChain, pc, frame>>
  PROVE  ChainInv' /\ TrustStep
  BY DEF ChainInv, ProgramTypes, FileFirst, GenesisFirst, TrustOrder, Alive, disk, frame, TrustStep

\* AcceptBlock's write to the block file, for a new block, an orphan, or the
\* genesis block of the first start.
LEMMA WriteKeepsInv ==
  ASSUME ChainInv, NEW b \in Block, NEW from \in {"load", "new", "orphan"}, WriteToDisk(b, from),
         \/ pc \in {"idle", "orphans"}
         \/ pc = "down" /\ DOMAIN dbBlockIndex = {} /\ b = Genesis /\ from = "load"
  PROVE  ChainInv' /\ TrustStep
  <1>1. ProgramTypes' /\ FileFirst'
    BY DEF ChainInv, ProgramTypes, FileFirst, WriteToDisk
  <1>2. GenesisFirst'
    BY DEF ChainInv, ProgramTypes, GenesisFirst, WriteToDisk, Alive
  <1>3. TrustOrder'
    <2>1. dbHashBest = Null => hashBestChain = Null
      BY DEF ChainInv, GenesisFirst
    <2>2. CASE pc = "down"
      <3>1. dbHashBest = Null /\ hashBestChain = Null
        BY <2>1, <2>2 DEF ChainInv, GenesisFirst
      <3> QED
        BY <3>1, TrustNat DEF TrustOrder, WriteToDisk, Alive, ChainInv, ProgramTypes
    <2>3. CASE pc \in {"idle", "orphans"}
      BY <2>3 DEF ChainInv, TrustOrder, WriteToDisk, Alive
    <2> QED
      BY <2>2, <2>3
  <1> QED
    BY <1>1, <1>2, <1>3 DEF ChainInv, WriteToDisk, TrustStep

\* The index record, after which a better block goes to SetBestChain.
LEMMA AddKeepsInv ==
  ASSUME ChainInv, AddToBlockIndex
  PROVE  ChainInv' /\ TrustStep
  <1>1. /\ pc = "AddToBlockIndex" /\ pblock \in Block /\ caller \in {"load", "new", "orphan"}
        /\ dbHashBest' = dbHashBest /\ hashBestChain' = hashBestChain /\ blkFile' = blkFile
        /\ DOMAIN dbBlockIndex' = DOMAIN dbBlockIndex \cup {pblock}
    BY DEF ChainInv, ProgramTypes, AddToBlockIndex
  <1>2. CASE BetterThanTip(pblock)
    <2>1. pc' = "SetBestChain" /\ pblock' = pblock /\ caller' = caller
      BY <1>2 DEF AddToBlockIndex, frame
    <2> QED
      BY <1>1, <1>2, <2>1, TrustNat
      DEF ChainInv, ProgramTypes, FileFirst, GenesisFirst, TrustOrder, Alive, BetterThanTip, TrustStep
  <1>3. CASE ~BetterThanTip(pblock)
    <2>1. pc' \in {"idle", "orphans"} /\ caller' = "load"
      BY <1>1, <1>3, Returns DEF AddToBlockIndex
    <2>2. dbHashBest # Null
      <3>1. SUFFICES ASSUME dbHashBest = Null PROVE FALSE
        OBVIOUS
      <3>2. pblock = Genesis /\ hashBestChain = Null
        BY <3>1, <1>1 DEF ChainInv, GenesisFirst, Alive
      <3>3. TrustOf(pblock) >= 1 /\ TrustOf(Null) = 0
        <4>1. Genesis \in Block /\ Prev[Genesis] = Null /\ BlockTrust[Genesis] \in Nat \ {0}
          BY BlockTree
        <4>2. ChainTrust[Genesis] = BlockTrust[Genesis]
          BY <4>1, PrevEnds
        <4>3. TrustOf(Genesis) = ChainTrust[Genesis] /\ TrustOf(Null) = 0
          BY <4>1, TrustNat DEF TrustOf
        <4> QED
          BY <3>2, <4>1, <4>2, <4>3
      <3> QED
        BY <3>2, <3>3, <1>1, <1>3, TrustNat DEF BetterThanTip
    <2> QED
      BY <1>1, <2>1, <2>2
      DEF ChainInv, ProgramTypes, FileFirst, GenesisFirst, TrustOrder, Alive, TrustStep
  <1> QED
    BY <1>2, <1>3

\* The genesis block becomes the tip.
LEMMA GenesisKeepsInv ==
  ASSUME ChainInv, SetGenesis
  PROVE  ChainInv' /\ TrustStep
  <1>1. /\ pc = "SetBestChain" /\ hashBestChain = Null /\ caller \in {"load", "new", "orphan"}
        /\ dbHashBest' = Genesis /\ hashBestChain' = Genesis
        /\ blkFile' = blkFile /\ dbBlockIndex' = dbBlockIndex
    BY DEF ChainInv, ProgramTypes, SetGenesis
  <1>2. pc' \in {"idle", "orphans"} /\ caller' = "load"
    BY <1>1, Returns DEF SetGenesis
  <1>3. dbHashBest = Null /\ caller = "load"
    BY <1>1 DEF ChainInv, GenesisFirst, Alive
  <1>4. Genesis \in Block /\ Genesis # Null /\ TrustOf(Genesis) \in Nat
    BY BlockTree, TrustNat
  <1>5. DOMAIN dbBlockIndex # {}
    BY <1>1 DEF ChainInv, GenesisFirst
  <1> QED
    BY <1>1, <1>2, <1>3, <1>4, <1>5
    DEF ChainInv, ProgramTypes, FileFirst, GenesisFirst, TrustOrder, Alive, TrustStep

\* A commit makes best the tip on disk and adds no index record.
LEMMA Commits ==
  ASSUME NEW batch, NEW best, Commit(batch, best)
  PROVE  /\ dbHashBest' = best /\ blkFile' = blkFile
         /\ DOMAIN dbBlockIndex' = DOMAIN dbBlockIndex
  BY DEF Commit

\* The end of SetBestChain: a tip on disk of no more trust than the new tip in
\* memory, which is a block.
LEMMA ReturnKeepsInv ==
  ASSUME ChainInv, pc \in {"SetBestChain", "ConnectPostponed"}, NEW accepted, Return(accepted),
         dbHashBest' \in Block, hashBestChain' \in Block, blkFile' = blkFile,
         DOMAIN dbBlockIndex' = DOMAIN dbBlockIndex, dbHashBest # Null,
         TrustOf(dbHashBest') <= TrustOf(hashBestChain')
  PROVE  ChainInv'
  <1>1. pc' \in {"idle", "orphans"} /\ caller' = "load"
    BY Returns DEF ChainInv, ProgramTypes
  <1>2. dbHashBest' # Null /\ hashBestChain' # Null
    BY BlockTree
  <1> QED
    BY <1>1, <1>2 DEF ChainInv, ProgramTypes, FileFirst, GenesisFirst, TrustOrder, Alive

\* A block on top of the tip.
LEMMA ExtendKeepsInv ==
  ASSUME ChainInv, ExtendTip
  PROVE  ChainInv' /\ TrustStep
  <1>1. PICK batch \in {ConnectBlock(TxnBegin, pblock)} :
          /\ Return(batch.ok)
          /\ IF batch.ok
             THEN Commit(batch, pblock) /\ hashBestChain' = pblock
             ELSE UNCHANGED <<disk, mapBlockIndex, hashBestChain>>
    BY DEF ExtendTip
  <1>2. /\ pc = "SetBestChain" /\ pblock \in Block /\ hashBestChain \in Block
        /\ dbHashBest \in Block \cup {Null} /\ dbHashBest # Null
        /\ TrustOf(dbHashBest) <= TrustOf(hashBestChain)
    BY DEF ChainInv, ProgramTypes, GenesisFirst, TrustOrder, Alive, ExtendTip
  <1>3. CASE batch.ok
    <2>1. /\ dbHashBest' = pblock /\ hashBestChain' = pblock /\ blkFile' = blkFile
          /\ DOMAIN dbBlockIndex' = DOMAIN dbBlockIndex
      BY <1>1, <1>3, Commits
    <2>2. TrustOf(pblock) > TrustOf(hashBestChain)
      BY <1>2, ChildHasMore DEF ExtendTip
    <2>3. TrustOf(pblock) \in Nat /\ TrustOf(hashBestChain) \in Nat /\ TrustOf(dbHashBest) \in Nat
      BY <1>2, TrustNat
    <2>4. ChainInv'
      BY <1>1, <1>2, <2>1, <2>3, ReturnKeepsInv
    <2> QED
      BY <1>2, <2>1, <2>2, <2>3, <2>4 DEF TrustStep
  <1>4. CASE ~batch.ok
    <2>1. /\ dbHashBest' = dbHashBest /\ hashBestChain' = hashBestChain /\ blkFile' = blkFile
          /\ dbBlockIndex' = dbBlockIndex
      BY <1>1, <1>4 DEF disk
    <2>2. ChainInv'
      BY <1>1, <1>2, <2>1, ReturnKeepsInv
    <2> QED
      BY <2>1, <2>2 DEF TrustStep
  <1> QED
    BY <1>3, <1>4

\* Reorganize, which ends SetBestChain or leaves blocks to connect.
LEMMA ReorganizeKeepsInv ==
  ASSUME ChainInv, Reorganize
  PROVE  ChainInv' /\ TrustStep
  <1>1. /\ pc = "SetBestChain" /\ pblock \in Block /\ hashBestChain \in Block
        /\ dbHashBest \in Block /\ caller \in {"load", "new", "orphan"}
        /\ TrustOf(dbHashBest) <= TrustOf(hashBestChain)
        /\ caller # "load" => TrustOf(pblock) > TrustOf(hashBestChain)
    BY DEF ChainInv, ProgramTypes, GenesisFirst, TrustOrder, Alive, Reorganize
  <1>2. hashBestChain # Null /\ dbHashBest # Null
    BY <1>1, BlockTree
  <1>chosen. PICK to \in pindexIntermediate : \E batch \in {Reorganized(to)} :
          \/ /\ ~batch.ok
             /\ Return(FALSE)
             /\ UNCHANGED <<disk, mapBlockIndex, hashBestChain>>
          \/ /\ batch.ok
             /\ Commit(batch, to)
             /\ IF to = pblock
                THEN NewBest
                ELSE /\ pc' = "ConnectPostponed"
                     /\ vpindexSecondary' = PathUp(to, pblock)
                     /\ UNCHANGED <<hashBestChain, orphan, caller, pblock, vWorkQueue>>
    BY DEF Reorganize
  <1>3. PICK batch \in {Reorganized(to)} :
          \/ /\ ~batch.ok
             /\ Return(FALSE)
             /\ UNCHANGED <<disk, mapBlockIndex, hashBestChain>>
          \/ /\ batch.ok
             /\ Commit(batch, to)
             /\ IF to = pblock
                THEN NewBest
                ELSE /\ pc' = "ConnectPostponed"
                     /\ vpindexSecondary' = PathUp(to, pblock)
                     /\ UNCHANGED <<hashBestChain, orphan, caller, pblock, vWorkQueue>>
    BY <1>chosen
  <1>4. to \in Lineage[pblock] /\ to \in Block
    BY <1>1, LineageClosed DEF pindexIntermediate
  <1>5. TrustOf(to) \in Nat /\ TrustOf(hashBestChain) \in Nat /\ TrustOf(dbHashBest) \in Nat
    BY <1>1, <1>4, TrustNat
  <1>6. caller # "load" => TrustOf(to) > TrustOf(dbHashBest)
    BY <1>1, <1>5, IntermediateBeatsTip
  <1>7. CASE ~batch.ok
    <2>1. /\ dbHashBest' = dbHashBest /\ hashBestChain' = hashBestChain /\ blkFile' = blkFile
          /\ dbBlockIndex' = dbBlockIndex /\ Return(FALSE)
      BY <1>3, <1>7 DEF disk
    <2>2. ChainInv'
      BY <1>1, <1>2, <2>1, ReturnKeepsInv
    <2> QED
      BY <2>1, <2>2 DEF TrustStep
  <1>8. CASE batch.ok /\ to = pblock
    <2>1. /\ dbHashBest' = to /\ hashBestChain' = pblock /\ blkFile' = blkFile
          /\ DOMAIN dbBlockIndex' = DOMAIN dbBlockIndex /\ Return(TRUE)
      BY <1>3, <1>8, Commits DEF NewBest
    <2>2. dbHashBest' \in Block /\ hashBestChain' \in Block /\ dbHashBest' = hashBestChain'
      BY <1>4, <1>8, <2>1
    <2>3. TrustOf(dbHashBest') <= TrustOf(hashBestChain')
      BY <2>2, TrustNat
    <2>4. ChainInv'
      BY <1>1, <1>2, <2>1, <2>2, <2>3, ReturnKeepsInv
    <2> QED
      BY <1>6, <2>1, <2>4 DEF TrustStep
  <1>9. CASE batch.ok /\ to # pblock
    <2>1. /\ dbHashBest' = to /\ hashBestChain' = hashBestChain /\ blkFile' = blkFile
          /\ DOMAIN dbBlockIndex' = DOMAIN dbBlockIndex
          /\ pc' = "ConnectPostponed" /\ caller' = caller /\ pblock' = pblock
          /\ vpindexSecondary' = PathUp(to, pblock)
      BY <1>3, <1>9, Commits
    <2>2. to # Null
      BY <1>4, BlockTree
    <2>3. ProgramTypes' /\ FileFirst'
      BY <1>1, <1>4, <2>1 DEF ChainInv, ProgramTypes, FileFirst
    <2>4. GenesisFirst'
      BY <1>1, <1>2, <2>1, <2>2 DEF ChainInv, GenesisFirst, Alive
    <2>5. TrustOrder'
      BY <1>4, <1>9, <2>1 DEF TrustOrder
    <2> QED
      BY <1>6, <2>1, <2>3, <2>4, <2>5 DEF TrustStep, ChainInv
  <1> QED
    BY <1>7, <1>8, <1>9

\* One postponed block: connected, it becomes the tip on disk; refused, it
\* leaves the tip in memory ahead of it.
LEMMA PostponedKeepsInv ==
  ASSUME ChainInv, ConnectPostponed
  PROVE  ChainInv' /\ TrustStep
  <1>1. /\ pc = "ConnectPostponed" /\ pblock \in Block
        /\ caller \in {"load", "new", "orphan"} /\ hashBestChain \in Block \cup {Null}
        /\ dbHashBest \in Lineage[pblock] /\ dbHashBest # pblock
        /\ vpindexSecondary = PathUp(dbHashBest, pblock)
    BY DEF ChainInv, ProgramTypes, TrustOrder, ConnectPostponed
  <1>2. dbHashBest \in Block /\ dbHashBest # Null
    BY <1>1, LineageClosed, BlockTree
  <1> DEFINE b == Head(vpindexSecondary)
  <1>3. PICK batch \in {ConnectBlock(TxnBegin, b)} :
          /\ IF batch.ok THEN Commit(batch, b) ELSE UNCHANGED <<disk, mapBlockIndex>>
          /\ IF batch.ok /\ b # pblock
             THEN /\ vpindexSecondary' = Tail(vpindexSecondary)
                  /\ UNCHANGED <<hashBestChain, orphan, pc, caller, pblock, vWorkQueue>>
             ELSE NewBest
    BY DEF ConnectPostponed
  <1>4. /\ b \in Lineage[pblock] /\ b \in Block /\ Prev[b] = dbHashBest
        /\ Tail(vpindexSecondary) = PathUp(b, pblock)
    BY <1>1, PathUpStep, LineageClosed
  <1>5. TrustOf(b) > TrustOf(dbHashBest)
    BY <1>2, <1>4, ChildHasMore
  <1>6. CASE batch.ok /\ b # pblock
    <2>1. /\ dbHashBest' = b /\ hashBestChain' = hashBestChain /\ blkFile' = blkFile
          /\ DOMAIN dbBlockIndex' = DOMAIN dbBlockIndex
          /\ pc' = pc /\ caller' = caller /\ pblock' = pblock
          /\ vpindexSecondary' = PathUp(b, pblock)
      BY <1>3, <1>4, <1>6, Commits
    <2>2. b # Null
      BY <1>4, BlockTree
    <2>3. ProgramTypes' /\ FileFirst'
      BY <1>1, <1>4, <2>1 DEF ChainInv, ProgramTypes, FileFirst
    <2>4. GenesisFirst'
      BY <1>1, <1>2, <2>1, <2>2 DEF ChainInv, GenesisFirst, Alive
    <2>5. TrustOrder'
      BY <1>1, <1>4, <1>6, <2>1 DEF TrustOrder
    <2> QED
      BY <1>5, <2>1, <2>3, <2>4, <2>5 DEF TrustStep, ChainInv
  <1>7. CASE ~(batch.ok /\ b # pblock)
    <2>1. /\ hashBestChain' = pblock /\ Return(TRUE)
          /\ blkFile' = blkFile /\ DOMAIN dbBlockIndex' = DOMAIN dbBlockIndex
          /\ dbHashBest' = b \/ dbHashBest' = dbHashBest
      BY <1>3, <1>7, Commits DEF NewBest, disk
    <2>2. dbHashBest' \in Lineage[pblock] /\ dbHashBest' \in Block
      BY <1>1, <1>2, <1>4, <2>1
    <2>3. TrustOf(dbHashBest') <= TrustOf(hashBestChain')
      BY <1>1, <2>1, <2>2, TrustNat
    <2>4. ChainInv'
      BY <1>1, <1>2, <2>1, <2>2, <2>3, ReturnKeepsInv
    <2> QED
      BY <1>5, <2>1, <2>4 DEF TrustStep
  <1> QED
    BY <1>6, <1>7

\* The process dies: what was in memory is gone.
LEMMA CrashKeepsInv ==
  ASSUME ChainInv, Crash
  PROVE  ChainInv' /\ TrustStep
  BY DEF ChainInv, ProgramTypes, FileFirst, GenesisFirst, TrustOrder, Alive, Crash, disk, TrustStep

\* The restart: nothing on disk changes but the first block file.
LEMMA LoadKeepsInv ==
  ASSUME ChainInv, Load
  PROVE  ChainInv' /\ TrustStep
  <1>1. CASE LoadEmpty
    BY <1>1, BlockTree, WriteKeepsInv DEF LoadEmpty
  <1>2. CASE LoadFails
    BY <1>2 DEF ChainInv, ProgramTypes, FileFirst, GenesisFirst, TrustOrder, Alive, LoadFails,
                disk, frame, TrustStep
  <1>3. CASE LoadBlockIndex
    <2> DEFINE bad == {b \in Lineage[dbHashBest] : Prev[b] # Null /\ b \in tooNew}
    <2>1. /\ pc = "down" /\ dbHashBest # Null /\ dbHashBest \in Block /\ caller = "load"
          /\ hashBestChain' = dbHashBest /\ dbHashBest' = dbHashBest
          /\ blkFile' = blkFile /\ dbBlockIndex' = dbBlockIndex /\ caller' = "load"
      BY <1>3 DEF ChainInv, ProgramTypes, LoadBlockIndex, disk
    <2>2. \/ pc' = "idle"
          \/ pc' = "SetBestChain" /\ \E b \in bad : pblock' = Prev[b]
      BY <1>3 DEF LoadBlockIndex
    <2>3. \A b \in bad : Prev[b] \in Block
      BY <2>1, LineageClosed
    <2>4. TrustOf(dbHashBest) \in Nat
      BY <2>1, TrustNat
    <2> QED
      BY <2>1, <2>2, <2>3, <2>4
      DEF ChainInv, ProgramTypes, FileFirst, GenesisFirst, TrustOrder, Alive, TrustStep
  <1> QED
    BY <1>1, <1>2, <1>3 DEF Load

\* The next accepted block's orphans, or the end of ProcessBlock.
LEMMA QueueKeepsInv ==
  ASSUME ChainInv, NextInQueue
  PROVE  ChainInv' /\ TrustStep
  BY DEF ChainInv, ProgramTypes, FileFirst, GenesisFirst, TrustOrder, Alive, NextInQueue,
         disk, TrustStep

\* Every step keeps the invariant and respects the order of trust.
LEMMA ChainInvInductive ==
  ASSUME ChainInv, [Next]_vars
  PROVE  ChainInv' /\ (TrustStep \/ UNCHANGED vars)
  <1>1. CASE UNCHANGED vars
    BY <1>1, QuietSteps DEF vars
  <1>2. ASSUME NEW b \in Block, HoldOrphan(b)
        PROVE  ChainInv' /\ TrustStep
    BY <1>2, QuietSteps DEF HoldOrphan
  <1>3. ASSUME NEW b \in Block, AcceptBlock(b)
        PROVE  ChainInv' /\ TrustStep
    BY <1>3, WriteKeepsInv DEF AcceptBlock
  <1>4. ASSUME NEW b \in Block, AcceptOrphan(b)
        PROVE  ChainInv' /\ TrustStep
    <2>1. CASE b \in BadContext
      BY <1>4, <2>1, QuietSteps DEF AcceptOrphan
    <2>2. CASE b \notin BadContext
      BY <1>4, <2>2, WriteKeepsInv DEF AcceptOrphan
    <2> QED
      BY <2>1, <2>2
  <1>5. CASE AddToBlockIndex
    BY <1>5, AddKeepsInv
  <1>6. CASE SetBestChain
    BY <1>6, GenesisKeepsInv, ExtendKeepsInv, ReorganizeKeepsInv, PostponedKeepsInv
    DEF SetBestChain
  <1>7. CASE NextInQueue
    BY <1>7, QueueKeepsInv
  <1>8. CASE Crash
    BY <1>8, CrashKeepsInv
  <1>9. CASE Load
    BY <1>9, LoadKeepsInv
  <1>10. ASSUME NEW l \in Lockable, LockInput(l) \/ UnlockInput(l)
         PROVE  ChainInv' /\ TrustStep
    BY <1>10, QuietSteps DEF LockInput, UnlockInput
  <1>11. CASE ClockChange
    BY <1>11, QuietSteps DEF ClockChange
  <1> QED
    BY <1>1, <1>2, <1>3, <1>4, <1>5, <1>6, <1>7, <1>8, <1>9, <1>10, <1>11 DEF Next, ProcessBlock

\* The first start satisfies it.
LEMMA ChainInvInit == Init => ChainInv
  BY BlockTree DEF Init, ChainInv, ProgramTypes, FileFirst, GenesisFirst, TrustOrder, Alive, EmptyIndex

-----------------------------------------------------------------------------
\* Every indexed block is in the block files, wherever the process dies
\* between AcceptBlock's WriteToDisk and the batch of AddToBlockIndex.
THEOREM BlocksAlwaysStored == Spec => []IndexedBlocksStored
  <1>1. ChainInv => IndexedBlocksStored
    BY DEF ChainInv, FileFirst, IndexedBlocksStored
  <1> QED
    BY <1>1, ChainInvInit, ChainInvInductive, PTL DEF Spec

\* CTxDB::LoadBlockIndex refuses a database only when its one record is that
\* of the genesis block: no crash after the first start is fatal.
THEOREM OnlyFirstStartIsFatal == Spec => []UnbootableOnlyAtGenesis
  <1>1. ChainInv => UnbootableOnlyAtGenesis
    BY DEF ChainInv, GenesisFirst, UnbootableOnlyAtGenesis
  <1> QED
    BY <1>1, ChainInvInit, ChainInvInductive, PTL DEF Spec

\* Each commit of SetBestChain, Reorganize and "Connect further blocks" moves
\* the tip on disk to strictly more trust, unless LoadBlockIndex asked for it.
THEOREM TipAlwaysGrows == Spec => TrustGrows
  <1>1. ChainInv /\ [Next]_vars =>
          [dbHashBest' # dbHashBest /\ caller # "load"
              => TrustOf(dbHashBest') > TrustOf(dbHashBest)]_vars
    BY ChainInvInductive DEF TrustStep
  <1> QED
    BY <1>1, ChainInvInit, ChainInvInductive, PTL DEF Spec, TrustGrows
-----------------------------------------------------------------------------
(* Chain implements TrustedTip.                                             *)

\* While the program is loading, SetBestChain works on the very first block or
\* goes back from the tip on disk, which memory has just read.
LoadGoesBack ==
    /\ pc = "AddToBlockIndex" /\ caller = "load" => dbHashBest = Null
    /\ pc = "SetBestChain" /\ caller = "load" /\ dbHashBest # Null =>
          hashBestChain = dbHashBest /\ pblock \in Lineage[dbHashBest] /\ pblock # dbHashBest

\* An ancestor of an ancestor is an ancestor.
LEMMA LineageTransitive ==
  ASSUME NEW b \in Block, NEW a \in Lineage[b]
  PROVE  Lineage[a] \subseteq Lineage[b]
  BY LineageClosed, LineageInduction

\* Only SetBestChain moves the tip on disk.
LEMMA OnlySetBestChainMoves ==
  ASSUME [Next]_vars
  PROVE  dbHashBest' = dbHashBest \/ SetBestChain
  <1>1. CASE UNCHANGED vars
    BY <1>1 DEF vars, disk
  <1>2. CASE Next
    BY <1>2 DEF Next, ProcessBlock, HoldOrphan, AcceptBlock, AcceptOrphan, WriteToDisk, AddToBlockIndex,
                NextInQueue, Crash, Load, LoadEmpty, LoadFails, LoadBlockIndex, LockInput, UnlockInput,
                ClockChange, disk
  <1> QED
    BY <1>1, <1>2

\* Every step keeps what is said of the load.
LEMMA LoadGoesBackInductive ==
  ASSUME ChainInv, LoadGoesBack, [Next]_vars
  PROVE  LoadGoesBack'
  <1>1. CASE UNCHANGED vars
    BY <1>1 DEF vars, disk, frame, LoadGoesBack
  <1>2. ASSUME NEW b \in Block, ProcessBlock(b) \/ AcceptOrphan(b)
        PROVE  LoadGoesBack'
    BY <1>2 DEF ProcessBlock, HoldOrphan, AcceptBlock, AcceptOrphan, WriteToDisk, LoadGoesBack, disk, frame
  <1>3. CASE AddToBlockIndex
    <2>1. CASE BetterThanTip(pblock)
      BY <1>3, <2>1 DEF AddToBlockIndex, LoadGoesBack, frame
    <2>2. CASE ~BetterThanTip(pblock)
      BY <1>3, <2>2, Returns DEF AddToBlockIndex, LoadGoesBack, ChainInv, ProgramTypes
    <2> QED
      BY <2>1, <2>2
  <1>4. CASE SetBestChain
    <2>1. pc \in {"SetBestChain", "ConnectPostponed"}
      BY <1>4 DEF SetBestChain, SetGenesis, ExtendTip, Reorganize, ConnectPostponed
    <2>2. pc' \in {"idle", "orphans", "ConnectPostponed"}
      <3>1. caller \in {"load", "new", "orphan"}
        BY DEF ChainInv, ProgramTypes
      <3>2. CASE SetGenesis
        BY <3>1, <3>2, Returns DEF SetGenesis
      <3>3. CASE ExtendTip
        BY <3>1, <3>3, Returns DEF ExtendTip
      <3>4. CASE Reorganize
        <4>1. Return(FALSE) \/ Return(TRUE) \/ pc' = "ConnectPostponed"
          BY <3>4 DEF Reorganize, NewBest
        <4> QED
          BY <3>1, <4>1, Returns
      <3>5. CASE ConnectPostponed
        <4>1. Return(TRUE) \/ pc' = pc
          BY <3>5 DEF ConnectPostponed, NewBest
        <4> QED
          BY <3>1, <3>5, <4>1, Returns DEF ConnectPostponed
      <3> QED
        BY <1>4, <3>2, <3>3, <3>4, <3>5 DEF SetBestChain
    <2> QED
      BY <2>2 DEF LoadGoesBack
  <1>5. CASE NextInQueue
    BY <1>5 DEF NextInQueue, LoadGoesBack, disk
  <1>6. CASE Crash
    BY <1>6 DEF Crash, LoadGoesBack
  <1>7. CASE LoadEmpty
    BY <1>7 DEF LoadEmpty, WriteToDisk, LoadGoesBack, ChainInv, GenesisFirst
  <1>8. CASE LoadFails
    BY <1>8 DEF LoadFails, LoadGoesBack
  <1>9. CASE LoadBlockIndex
    <2> DEFINE bad == {b \in Lineage[dbHashBest] : Prev[b] # Null /\ b \in tooNew}
    <2>1. /\ dbHashBest \in Block /\ hashBestChain' = dbHashBest /\ dbHashBest' = dbHashBest
      BY <1>9 DEF ChainInv, ProgramTypes, LoadBlockIndex, disk
    <2>2. \/ pc' = "idle"
          \/ pc' = "SetBestChain" /\ \E b \in bad : pblock' = Prev[b]
      BY <1>9 DEF LoadBlockIndex
    <2>3. \A b \in bad : Prev[b] \in Lineage[dbHashBest] /\ Prev[b] # dbHashBest
      <3> SUFFICES ASSUME NEW b \in bad
                   PROVE  Prev[b] \in Lineage[dbHashBest] /\ Prev[b] # dbHashBest
        OBVIOUS
      <3>1. b \in Block /\ Prev[b] \in Block /\ Prev[b] \in Lineage[dbHashBest]
        BY <2>1, LineageClosed
      <3>2. Height[b] = Height[Prev[b]] + 1 /\ Height[b] \in Nat /\ Height[Prev[b]] \in Nat
        BY <3>1, PrevEnds
      <3>3. Height[b] <= Height[dbHashBest] /\ Height[dbHashBest] \in Nat
        BY <2>1, <3>2, LineageOrder, PrevEnds
      <3> QED
        BY <3>1, <3>2, <3>3
    <2> QED
      BY <2>1, <2>2, <2>3 DEF LoadGoesBack
  <1>10. ASSUME NEW l \in Lockable, LockInput(l) \/ UnlockInput(l)
         PROVE  LoadGoesBack'
    BY <1>10 DEF LockInput, UnlockInput, LoadGoesBack, disk, frame
  <1>11. CASE ClockChange
    BY <1>11 DEF ClockChange, LoadGoesBack, disk, frame
  <1> QED
    BY <1>1, <1>2, <1>3, <1>4, <1>5, <1>6, <1>7, <1>8, <1>9, <1>10, <1>11 DEF Next, Load

\* During the load the tip starts, goes back to an ancestor or, if it were to
\* connect a postponed block, advances.
LEMMA LoadMovesTip ==
  ASSUME ChainInv, LoadGoesBack, SetBestChain, caller = "load"
  PROVE  dbHashBest' = dbHashBest \/ Tip!TipNext
  <1>1. /\ dbHashBest \in Block \cup {Null} /\ pblock \in Block
        /\ pc \in {"SetBestChain", "ConnectPostponed"}
    BY DEF ChainInv, ProgramTypes, SetBestChain, SetGenesis, ExtendTip, Reorganize, ConnectPostponed
  <1>2. CASE SetGenesis
    <2>1. dbHashBest = Null /\ dbHashBest' = Genesis
      BY <1>2 DEF SetGenesis, ChainInv, GenesisFirst, Alive
    <2> QED
      BY <2>1 DEF Tip!TipNext, Tip!Start
  <1>3. ASSUME ExtendTip \/ Reorganize
        PROVE  dbHashBest # Null /\ pblock \in Lineage[dbHashBest] /\ dbHashBest \in Block
    BY <1>1, <1>3 DEF ExtendTip, Reorganize, ChainInv, GenesisFirst, Alive, LoadGoesBack
  <1>4. CASE ExtendTip
    <2>1. dbHashBest' = dbHashBest \/ dbHashBest' = pblock
      BY <1>4, Commits DEF ExtendTip, disk
    <2> QED
      BY <1>3, <1>4, <2>1 DEF Tip!TipNext, Tip!Rollback
  <1>5. CASE Reorganize
    <2>1. dbHashBest' = dbHashBest \/ dbHashBest' \in pindexIntermediate
      <3>1. PICK to \in pindexIntermediate : \E batch \in {Reorganized(to)} :
              UNCHANGED disk \/ Commit(batch, to)
        BY <1>5 DEF Reorganize
      <3> QED
        BY <3>1, Commits DEF disk
    <2>2. dbHashBest' = dbHashBest \/ dbHashBest' \in Lineage[dbHashBest]
      BY <1>3, <1>5, <2>1, LineageTransitive DEF pindexIntermediate
    <2> QED
      BY <1>3, <1>5, <2>2 DEF Tip!TipNext, Tip!Rollback
  <1>6. CASE ConnectPostponed
    <2> DEFINE b == Head(vpindexSecondary)
    <2>1. /\ dbHashBest \in Lineage[pblock] /\ dbHashBest # pblock
          /\ vpindexSecondary = PathUp(dbHashBest, pblock)
      BY <1>6 DEF ChainInv, TrustOrder, ConnectPostponed
    <2>2. dbHashBest \in Block /\ dbHashBest # Null
      BY <1>1, <2>1, LineageClosed, BlockTree
    <2>3. b \in Block /\ Prev[b] = dbHashBest
      BY <1>1, <2>1, PathUpStep, LineageClosed
    <2>4. ChainTrust[b] > ChainTrust[dbHashBest]
      BY <2>2, <2>3, ChildHasMore, TrustNat
    <2>5. dbHashBest' = dbHashBest \/ dbHashBest' = b
      BY <1>6, Commits DEF ConnectPostponed, disk
    <2> QED
      BY <2>2, <2>3, <2>4, <2>5 DEF Tip!TipNext, Tip!Advance
  <1> QED
    BY <1>2, <1>4, <1>5, <1>6 DEF SetBestChain

\* Every step of the program is a step of the abstract tip, or leaves it.
LEMMA StepsMoveTip ==
  ASSUME ChainInv, LoadGoesBack, [Next]_vars
  PROVE  [Tip!TipNext]_dbHashBest
  <1>1. CASE dbHashBest' = dbHashBest
    BY <1>1
  <1>2. CASE dbHashBest' # dbHashBest
    <2>1. SetBestChain
      BY <1>2, OnlySetBestChainMoves
    <2>2. CASE caller = "load"
      BY <1>2, <2>1, <2>2, LoadMovesTip
    <2>3. CASE caller # "load"
      <3>1. dbHashBest \in Block /\ dbHashBest' \in Block \cup {Null} /\ dbHashBest # Null
        <4>1. Alive
          BY <2>1 DEF SetBestChain, SetGenesis, ExtendTip, Reorganize, ConnectPostponed, Alive
        <4>2. ChainInv'
          BY ChainInvInductive
        <4> QED
          BY <2>3, <4>1, <4>2 DEF ChainInv, ProgramTypes, GenesisFirst
      <3>2. TrustOf(dbHashBest') > TrustOf(dbHashBest)
        BY <1>2, <2>3, ChainInvInductive DEF TrustStep, vars, disk
      <3>3. TrustOf(dbHashBest) \in Nat /\ TrustOf(dbHashBest) = ChainTrust[dbHashBest]
        BY <3>1, TrustNat
      <3>4. dbHashBest' \in Block /\ TrustOf(dbHashBest') = ChainTrust[dbHashBest']
        BY <3>1, <3>2, <3>3, TrustNat DEF TrustOf
      <3> QED
        BY <3>1, <3>2, <3>3, <3>4 DEF Tip!TipNext, Tip!Advance
    <2> QED
      BY <2>2, <2>3
  <1> QED
    BY <1>1, <1>2

\* The record "hashBestChain" behaves as the abstract tip: for every block
\* tree, whatever ConnectBlock refuses and wherever the process dies, a
\* restart finds a tip that only moved to more trust, or back to an ancestor
\* when LoadBlockIndex no longer accepted a block of the chain.
THEOREM ChainImplementsTip == Spec => ImplementsTip
  <1>1. Init => LoadGoesBack /\ Tip!TipInit
    BY DEF Init, LoadGoesBack, Tip!TipInit
  <1>2. ChainInv /\ LoadGoesBack /\ [Next]_vars => LoadGoesBack' /\ [Tip!TipNext]_dbHashBest
    BY LoadGoesBackInductive, StepsMoveTip
  <1> QED
    BY <1>1, <1>2, ChainInvInit, ChainInvInductive, PTL DEF Spec, ImplementsTip, Tip!TipSpec

-----------------------------------------------------------------------------
(* What FoldLeft computes.  Its definition iterates over sets of positions, *)
(* so the iteration is shown to exist, by induction on the length.          *)

\* One step of either fold of Reorganize.
Apply(way, batch, b) == IF way = "up" THEN ConnectBlock(batch, b) ELSE DisconnectBlock(batch, b)

\* The function over sets of positions that the fold is defined by.
Iterates(g, way, base, seq, n) ==
    g = [s \in SUBSET (1..n) |->
            IF s = {} THEN base ELSE Apply(way, g[s \ {Max(s)}], seq[Max(s)])]

\* It exists.
LEMMA SetFold ==
  ASSUME NEW way, NEW base, NEW seq, NEW n \in Nat
  PROVE  \E g : Iterates(g, way, base, seq, n)
  <1> DEFINE Body(g, s) == IF s = {} THEN base ELSE Apply(way, g[s \ {Max(s)}], seq[Max(s)])
             Good(k) == \E g : g = [s \in SUBSET (1..k) |-> Body(g, s)]
  <1>2. Good(0)
    <2> DEFINE g == [s \in SUBSET (1..0) |-> base]
    <2>1. g = [s \in SUBSET (1..0) |-> Body(g, s)]
      OBVIOUS
    <2> QED BY <2>1
  <1>3. ASSUME NEW k \in Nat, Good(k)
        PROVE  Good(k + 1)
    <2>1. PICK g : g = [s \in SUBSET (1..k) |-> Body(g, s)]
      BY <1>3
    <2> DEFINE h == [s \in SUBSET (1..(k + 1)) |->
                        IF k + 1 \in s THEN Apply(way, g[s \ {k + 1}], seq[k + 1]) ELSE g[s]]
    <2>2. ASSUME NEW s \in SUBSET (1..(k + 1))
          PROVE  h[s] = Body(h, s)
      <3>1. CASE k + 1 \in s
        <4>1. Max(s) = k + 1
          BY <3>1, MaxOfInterval
        <4>2. s \ {k + 1} \in SUBSET (1..k) /\ s \ {k + 1} \in SUBSET (1..(k + 1)) /\ k + 1 \notin s \ {k + 1}
          OBVIOUS
        <4>3. h[s \ {k + 1}] = g[s \ {k + 1}]
          BY <4>2
        <4> QED
          BY <3>1, <4>1, <4>3
      <3>2. CASE k + 1 \notin s
        <4>1. s \in SUBSET (1..k)
          BY <3>2
        <4>2. h[s] = g[s] /\ g[s] = Body(g, s)
          BY <2>1, <3>2, <4>1
        <4>3. CASE s = {}
          BY <4>2, <4>3
        <4>4. CASE s # {}
          <5>1. Max(s) \in s
            BY <4>1, <4>4, MaxInside
          <5>2. s \ {Max(s)} \in SUBSET (1..(k + 1)) /\ k + 1 \notin s \ {Max(s)}
            BY <3>2
          <5>3. h[s \ {Max(s)}] = g[s \ {Max(s)}]
            BY <5>2
          <5> QED
            BY <4>2, <4>4, <5>3
        <4> QED
          BY <4>3, <4>4
      <3> QED
        BY <3>1, <3>2
    <2> HIDE DEF h, Body
    <2>3. h = [s \in SUBSET (1..(k + 1)) |-> Body(h, s)]
      BY <2>2 DEF h
    <2> QED
      BY <2>3
  <1>4. Good(n)
    <2> HIDE DEF Good
    <2> DEFINE S == {k \in Nat : Good(k)}
    <2>1. Nat \subseteq S
      <3>1. 0 \in S
        BY <1>2
      <3>2. \A k \in Nat : k \in S => k + 1 \in S
        BY <1>3
      <3> HIDE DEF S
      <3> QED
        BY <3>1, <3>2, NatSetInduction
    <2> QED
      BY <2>1
  <1> QED
    BY <1>4 DEF Iterates

\* The batches one after the other.
Runs(f, way, base, seq, n) ==
    f[0] = base /\ \A i \in 1..n : f[i] = Apply(way, f[i - 1], seq[i])

\* It runs through the positions in order.
LEMMA FoldSteps ==
  ASSUME NEW way, NEW base, NEW seq, NEW n \in Nat, NEW g,
         Iterates(g, way, base, seq, n)
  PROVE  \E f : Runs(f, way, base, seq, n) /\ f[n] = g[1..n]
  <1> DEFINE f == [i \in 0..n |-> g[1..i]]
  <1>1. f[0] = base
    <2>1. 0 \in 0..n /\ 1..0 = {} /\ 1..0 \in SUBSET (1..n)
      OBVIOUS
    <2> QED
      BY <2>1 DEF Iterates
  <1>2. ASSUME NEW i \in 1..n
        PROVE  f[i] = Apply(way, f[i - 1], seq[i])
    <2>1. i \in 0..n /\ i - 1 \in 0..n /\ 1..i \in SUBSET (1..n)
      OBVIOUS
    <2>2. i \in 1..i /\ 1..i # {} /\ (1..i) \ {i} = 1..(i - 1)
      OBVIOUS
    <2>3. Max(1..i) = i
      <3>1. i - 1 \in Nat /\ (i - 1) + 1 = i
        OBVIOUS
      <3> QED BY <2>2, <3>1, MaxOfInterval
    <2> QED
      BY <2>1, <2>2, <2>3 DEF Iterates
  <1>3. f[n] = g[1..n]
    OBVIOUS
  <1> HIDE DEF f
  <1> QED
    BY <1>1, <1>2, <1>3 DEF Runs

\* The batch after each block of a branch is connected.
LEMMA FoldConnect ==
  ASSUME NEW base, NEW seq \in Seq(Block)
  PROVE  \E f : /\ f[0] = base
                /\ \A i \in 1..Len(seq) : f[i] = ConnectBlock(f[i - 1], seq[i])
                /\ FoldLeft(ConnectBlock, base, seq) = f[Len(seq)]
  <1> DEFINE n == Len(seq)
             iter == CHOOSE g : g = [s \in SUBSET (1..n) |->
                        IF s = {} THEN base ELSE ConnectBlock(g[s \ {Max(s)}], seq[Max(s)])]
  <1>1. n \in Nat /\ DOMAIN seq = 1..n
    OBVIOUS
  <1>2. \A x, b : Apply("up", x, b) = ConnectBlock(x, b)
    BY DEF Apply
  <1>3. \E g : g = [s \in SUBSET (1..n) |->
                        IF s = {} THEN base ELSE ConnectBlock(g[s \ {Max(s)}], seq[Max(s)])]
    <2>1. PICK g : Iterates(g, "up", base, seq, n)
      BY <1>1, SetFold
    <2>2. \A s \in SUBSET (1..n) :
            g[s] = IF s = {} THEN base ELSE ConnectBlock(g[s \ {Max(s)}], seq[Max(s)])
      BY <1>2, <2>1 DEF Iterates
    <2>3. g = [s \in SUBSET (1..n) |-> g[s]]
      BY <2>1 DEF Iterates
    <2> QED
      BY <2>2, <2>3
  <1>4. iter = [s \in SUBSET (1..n) |->
                   IF s = {} THEN base ELSE ConnectBlock(iter[s \ {Max(s)}], seq[Max(s)])]
    BY <1>3
  <1>5. FoldLeft(ConnectBlock, base, seq) = iter[1..n]
    BY <1>1 DEF FoldLeft, MapThenFoldSet
  <1> HIDE DEF iter
  <1>6. Iterates(iter, "up", base, seq, n)
    BY <1>2, <1>4 DEF Iterates
  <1>7. PICK f : Runs(f, "up", base, seq, n) /\ f[n] = iter[1..n]
    <2> HIDE DEF n
    <2> QED
      BY <1>1, <1>6, FoldSteps
  <1> QED
    BY <1>2, <1>5, <1>7 DEF Runs

\* The batch after each block of a branch is disconnected.
LEMMA FoldDisconnect ==
  ASSUME NEW base, NEW seq \in Seq(Block)
  PROVE  \E f : /\ f[0] = base
                /\ \A i \in 1..Len(seq) : f[i] = DisconnectBlock(f[i - 1], seq[i])
                /\ FoldLeft(DisconnectBlock, base, seq) = f[Len(seq)]
  <1> DEFINE n == Len(seq)
             iter == CHOOSE g : g = [s \in SUBSET (1..n) |->
                        IF s = {} THEN base ELSE DisconnectBlock(g[s \ {Max(s)}], seq[Max(s)])]
  <1>1. n \in Nat /\ DOMAIN seq = 1..n
    OBVIOUS
  <1>2. \A x, b : Apply("down", x, b) = DisconnectBlock(x, b)
    BY DEF Apply
  <1>3. \E g : g = [s \in SUBSET (1..n) |->
                        IF s = {} THEN base ELSE DisconnectBlock(g[s \ {Max(s)}], seq[Max(s)])]
    <2>1. PICK g : Iterates(g, "down", base, seq, n)
      BY <1>1, SetFold
    <2>2. \A s \in SUBSET (1..n) :
            g[s] = IF s = {} THEN base ELSE DisconnectBlock(g[s \ {Max(s)}], seq[Max(s)])
      BY <1>2, <2>1 DEF Iterates
    <2>3. g = [s \in SUBSET (1..n) |-> g[s]]
      BY <2>1 DEF Iterates
    <2> QED
      BY <2>2, <2>3
  <1>4. iter = [s \in SUBSET (1..n) |->
                   IF s = {} THEN base ELSE DisconnectBlock(iter[s \ {Max(s)}], seq[Max(s)])]
    BY <1>3
  <1>5. FoldLeft(DisconnectBlock, base, seq) = iter[1..n]
    BY <1>1 DEF FoldLeft, MapThenFoldSet
  <1> HIDE DEF iter
  <1>6. Iterates(iter, "down", base, seq, n)
    BY <1>2, <1>4 DEF Iterates
  <1>7. PICK f : Runs(f, "down", base, seq, n) /\ f[n] = iter[1..n]
    <2> HIDE DEF n
    <2> QED
      BY <1>1, <1>6, FoldSteps
  <1> QED
    BY <1>2, <1>5, <1>7 DEF Runs

\* The branch of a block is that of its parent and the block itself.
LEMMA LineageOfChild ==
  ASSUME NEW b \in Block, Prev[b] # Null
  PROVE  /\ Prev[b] \in Block
         /\ Lineage[b] = Lineage[Prev[b]] \cup {b}
         /\ b \notin Lineage[Prev[b]]
  <1>1. Prev[b] \in Block /\ Prev[b] \in Lineage[b] /\ b \in Lineage[b]
    BY LineageClosed
  <1>2. Lineage[b] \subseteq Lineage[Prev[b]] \cup {b}
    <2> DEFINE S == Lineage[Prev[b]] \cup {b}
    <2>1. S \in SUBSET Block /\ b \in S /\ \A s \in S : Prev[s] # Null => Prev[s] \in S
      BY <1>1, LineageClosed
    <2> HIDE DEF S
    <2>2. Lineage[b] \subseteq S
      BY <2>1, LineageInduction
    <2> QED
      BY <2>2 DEF S
  <1>3. Lineage[Prev[b]] \subseteq Lineage[b]
    BY <1>1, LineageTransitive
  <1>4. b \notin Lineage[Prev[b]]
    <2>1. Height[b] = Height[Prev[b]] + 1 /\ Height[Prev[b]] \in Nat
      BY <1>1, PrevEnds
    <2>2. b # Prev[b]
      BY <2>1
    <2> QED
      BY <1>1, <2>1, <2>2, LineageOrder
  <1> QED
    BY <1>1, <1>2, <1>3, <1>4

\* Two blocks of a branch: one is on the branch of the other.
LEMMA LineageTotal ==
  ASSUME NEW b \in Block, NEW a \in Lineage[b], NEW c \in Lineage[b]
  PROVE  a \in Lineage[c] \/ c \in Lineage[a]
  <1> DEFINE S == {x \in Lineage[b] : x \in Lineage[c] \/ c \in Lineage[x]}
  <1>1. S \in SUBSET Block /\ b \in S
    BY LineageClosed
  <1>2. ASSUME NEW s \in S, Prev[s] # Null
        PROVE  Prev[s] \in S
    <2>1. s \in Block /\ c \in Block /\ Prev[s] \in Lineage[b]
      BY <1>2, LineageClosed
    <2>2. Lineage[s] = Lineage[Prev[s]] \cup {s} /\ Prev[s] \in Lineage[s]
      BY <1>2, <2>1, LineageOfChild, LineageClosed
    <2>3. s \in Lineage[c] => Prev[s] \in Lineage[c]
      BY <1>2, <2>1, LineageClosed
    <2> QED
      BY <2>1, <2>2, <2>3
  <1>3. Lineage[b] \subseteq S
    <2> HIDE DEF S
    <2> QED
      BY <1>1, <1>2, LineageInduction
  <1> QED
    BY <1>3

\* Every branch starts at the genesis block.
LEMMA GenesisInLineage ==
  ASSUME NEW b \in Block
  PROVE  Genesis \in Lineage[b]
  <1> DEFINE H == {h \in Nat : \E a \in Lineage[b] : Height[a] = h}
  <1>1. Height[b] \in H
    BY LineageClosed, PrevEnds
  <1>2. PICK h \in H : \A k \in H : h <= k
    BY <1>1, LeastNat
  <1>3. PICK a \in Lineage[b] : Height[a] = h
    OBVIOUS
  <1>4. a \in Block
    BY LineageClosed
  <1>5. Prev[a] = Null
    <2> SUFFICES ASSUME Prev[a] # Null PROVE FALSE
      OBVIOUS
    <2>1. Prev[a] \in Lineage[b] /\ Height[a] = Height[Prev[a]] + 1 /\ Height[Prev[a]] \in Nat
      BY <1>4, LineageClosed, PrevEnds
    <2>2. Height[Prev[a]] \in H
      BY <2>1
    <2> QED
      BY <1>2, <1>3, <2>1, <2>2
  <1> QED
    BY <1>4, <1>5, BlockTree

\* The blocks of a ledger.
LEMMA LedgerFacts ==
  ASSUME NEW b \in Block
  PROVE  /\ Ledger(Genesis) = {}
         /\ \A c \in Ledger(b) : /\ c \in Block /\ Prev[c] # Null /\ c # Genesis
                                 /\ c \in Ledger(c) /\ Ledger(c) \subseteq Ledger(b)
                                 /\ Lineage[c] \subseteq Lineage[b]
         /\ Prev[b] # Null => /\ Prev[b] \in Block
                              /\ Ledger(b) = Ledger(Prev[b]) \cup {b}
                              /\ b \notin Ledger(Prev[b])
  <1>1. Ledger(Genesis) = {}
    <2>1. {Genesis} \in SUBSET Block /\ \A s \in {Genesis} : Prev[s] # Null => Prev[s] \in {Genesis}
      BY BlockTree
    <2>2. Lineage[Genesis] \subseteq {Genesis}
      BY <2>1, BlockTree, LineageInduction
    <2> QED
      BY <2>2 DEF Ledger
  <1>2. ASSUME NEW c \in Ledger(b)
        PROVE  /\ c \in Block /\ Prev[c] # Null /\ c # Genesis
               /\ c \in Ledger(c) /\ Ledger(c) \subseteq Ledger(b)
               /\ Lineage[c] \subseteq Lineage[b]
    BY LineageClosed, LineageTransitive, BlockTree DEF Ledger
  <1>3. ASSUME Prev[b] # Null
        PROVE  /\ Prev[b] \in Block
               /\ Ledger(b) = Ledger(Prev[b]) \cup {b}
               /\ b \notin Ledger(Prev[b])
    <2>1. b # Genesis
      BY <1>3, BlockTree
    <2> QED
      BY <1>3, <2>1, LineageOfChild DEF Ledger
  <1> QED
    BY <1>1, <1>2, <1>3

-----------------------------------------------------------------------------
\* A ledger that ConnectBlock has let through: sound, and of blocks AcceptBlock
\* has let through.
GoodLedger(b) == SoundLedger(b) /\ Lineage[b] \cap BadContext = {}

\* The transactions of a block, and what they spend.
LEMMA BlockTxs ==
  ASSUME NEW b \in Block
  PROVE  /\ Vtx[b] \in Seq(Tx)
         /\ \A t : t \in TxsOf(b) <=> \E i \in DOMAIN Vtx[b] : Vtx[b][i] = t
         /\ \A t \in TxsOf(b) : t \in Tx
         /\ \A o : o \in Spends(b) <=> \E i \in DOMAIN Vtx[b] : o \in Vin[Vtx[b][i]]
         /\ \A i \in DOMAIN Vtx[b] : i \in Nat /\ Vtx[b][i] \in Tx
         /\ \A i \in DOMAIN Vtx[b] : \A o \in Vin[Vtx[b][i]] :
               o = <<o[1], o[2]>> /\ o[1] \in Tx /\ o[2] \in Nat /\ Vout[o[1]] \in Nat
  <1>1. Vtx[b] \in Seq(Tx)
    BY Transactions
  <1>2. \A t : t \in TxsOf(b) <=> \E i \in DOMAIN Vtx[b] : Vtx[b][i] = t
    BY DEF TxsOf, Range
  <1>3. \A i \in DOMAIN Vtx[b] : i \in Nat /\ Vtx[b][i] \in Tx
    BY <1>1
  <1>4. \A o : o \in Spends(b) <=> \E i \in DOMAIN Vtx[b] : o \in Vin[Vtx[b][i]]
    BY <1>2 DEF Spends
  <1>5. \A i \in DOMAIN Vtx[b] : Vin[Vtx[b][i]] \in SUBSET (Tx \X Nat)
    BY <1>3, Transactions
  <1>6. \A i \in DOMAIN Vtx[b] : \A o \in Vin[Vtx[b][i]] :
               o = <<o[1], o[2]>> /\ o[1] \in Tx /\ o[2] \in Nat /\ Vout[o[1]] \in Nat
    BY <1>5, Transactions
  <1> QED
    BY <1>1, <1>2, <1>3, <1>4, <1>6

\* A transaction of a good ledger is in one block of it: spending its inputs
\* twice would not be sound, and a coinbase is not repeated.
LEMMA OneBlockPerTx ==
  ASSUME NEW b \in Block, GoodLedger(b), NEW c \in Ledger(b), NEW d \in Ledger(b),
         NEW t \in TxsOf(c), t \in TxsOf(d)
  PROVE  c = d
  <1>1. c \in Block /\ d \in Block /\ c \in Lineage[b] /\ d \in Lineage[b]
    BY LedgerFacts DEF Ledger
  <1>2. PICK i \in DOMAIN Vtx[c] : Vtx[c][i] = t
    BY <1>1, BlockTxs
  <1>3. PICK j \in DOMAIN Vtx[d] : Vtx[d][j] = t
    BY <1>1, BlockTxs
  <1>4. CASE Vin[t] = {}
    <2>1. c \notin BadContext /\ d \notin BadContext
      BY <1>1 DEF GoodLedger
    <2>2. c \in Lineage[d] \/ d \in Lineage[c]
      BY <1>1, LineageTotal
    <2> QED
      BY <1>1, <1>4, <2>1, <2>2, Coinbases
  <1>5. CASE Vin[t] # {}
    <2>1. PICK o \in Vin[t] : TRUE
      BY <1>5
    <2>2. <<d, j>> = <<c, i>>
      BY <1>2, <1>3, <2>1 DEF GoodLedger, SoundLedger
    <2> QED
      BY <2>2
  <1> QED
    BY <1>4, <1>5

\* What the reference index says of a transaction of a good ledger.
LEMMA IndexOfRecord ==
  ASSUME NEW b \in Block, GoodLedger(b), NEW c \in Ledger(b), NEW t \in TxsOf(c)
  PROVE  /\ t \in DOMAIN IndexOf(b)
         /\ IndexOf(b)[t] = [pos |-> IndexOf(b)[t].pos, vSpent |-> IndexOf(b)[t].vSpent]
         /\ IndexOf(b)[t].pos = c
         /\ DOMAIN IndexOf(b)[t].vSpent = 0..(Vout[t] - 1)
         /\ IndexOf(b)[t].vSpent = [n \in 0..(Vout[t] - 1) |-> IndexOf(b)[t].vSpent[n]]
         /\ \A n \in 0..(Vout[t] - 1) :
               /\ \A d \in Ledger(b) : <<t, n>> \in Spends(d) => IndexOf(b)[t].vSpent[n] = d
               /\ (\A d \in Ledger(b) : <<t, n>> \notin Spends(d)) => IndexOf(b)[t].vSpent[n] = Null
  <1> DEFINE p == CHOOSE x \in Ledger(b) : t \in TxsOf(x)
             s(n) == IF \E x \in Ledger(b) : <<t, n>> \in Spends(x)
                     THEN CHOOSE x \in Ledger(b) : <<t, n>> \in Spends(x)
                     ELSE Null
  <1>1. t \in DOMAIN IndexOf(b)
    BY DEF IndexOf
  <1>2. IndexOf(b)[t] = [pos |-> p, vSpent |-> [n \in 0..(Vout[t] - 1) |-> s(n)]]
    BY <1>1 DEF IndexOf
  <1>3. p = c
    <2>1. p \in Ledger(b) /\ t \in TxsOf(p)
      OBVIOUS
    <2> HIDE DEF p
    <2> QED
      BY <2>1, OneBlockPerTx
  <1>4. ASSUME NEW n \in 0..(Vout[t] - 1), NEW d \in Ledger(b), <<t, n>> \in Spends(d)
        PROVE  s(n) = d
    <2> DEFINE x == CHOOSE x \in Ledger(b) : <<t, n>> \in Spends(x)
    <2>1. x \in Ledger(b) /\ <<t, n>> \in Spends(x) /\ s(n) = x
      BY <1>4
    <2> HIDE DEF x
    <2>2. x \in Block /\ d \in Block
      BY <2>1, LedgerFacts
    <2>3. PICK i \in DOMAIN Vtx[x] : <<t, n>> \in Vin[Vtx[x][i]]
      BY <2>1, <2>2, BlockTxs
    <2>4. PICK j \in DOMAIN Vtx[d] : <<t, n>> \in Vin[Vtx[d][j]]
      BY <1>4, <2>2, BlockTxs
    <2>5. <<d, j>> = <<x, i>>
      BY <2>1, <2>3, <2>4 DEF GoodLedger, SoundLedger
    <2> QED
      BY <2>1, <2>5
  <1>5. ASSUME NEW n \in 0..(Vout[t] - 1), \A d \in Ledger(b) : <<t, n>> \notin Spends(d)
        PROVE  s(n) = Null
    BY <1>5
  <1> HIDE DEF p, s
  <1> QED
    BY <1>1, <1>2, <1>3, <1>4, <1>5

\* The parts of it that are used most.
LEMMA IndexOfPos ==
  ASSUME NEW b \in Block, GoodLedger(b), NEW c \in Ledger(b), NEW t \in TxsOf(c)
  PROVE  t \in DOMAIN IndexOf(b) /\ IndexOf(b)[t].pos = c
  <1> DEFINE p == CHOOSE x \in Ledger(b) : t \in TxsOf(x)
  <1>1. t \in DOMAIN IndexOf(b) /\ IndexOf(b)[t].pos = p
    BY DEF IndexOf
  <1>2. p \in Ledger(b) /\ t \in TxsOf(p)
    OBVIOUS
  <1> HIDE DEF p
  <1> QED
    BY <1>1, <1>2, OneBlockPerTx

\* The spent marks of the reference index, of all outputs of a transaction.
LEMMA IndexOfMarks ==
  ASSUME NEW b \in Block, GoodLedger(b), NEW c \in Ledger(b), NEW t \in TxsOf(c)
  PROVE  \A m \in 0..(Vout[t] - 1) : \A e \in Ledger(b) :
            <<t, m>> \in Spends(e) => IndexOf(b)[t].vSpent[m] = e
  BY IndexOfRecord, ZenonT(60)

\* And of one of them.
LEMMA IndexOfSpent ==
  ASSUME NEW b \in Block, GoodLedger(b), NEW c \in Ledger(b), NEW t \in TxsOf(c),
         NEW n \in 0..(Vout[t] - 1), NEW d \in Ledger(b), <<t, n>> \in Spends(d)
  PROVE  IndexOf(b)[t].vSpent[n] = d
  <1>1. \A m \in 0..(Vout[t] - 1) : \A e \in Ledger(b) :
           <<t, m>> \in Spends(e) => IndexOf(b)[t].vSpent[m] = e
    BY IndexOfMarks
  <1> QED
    BY <1>1

\* An output that a good ledger spends has a record there, marked.
LEMMA SpentIsMarked ==
  ASSUME NEW b \in Block, GoodLedger(b), NEW c \in Ledger(b), NEW o \in Spends(c)
  PROVE  /\ o = <<o[1], o[2]>> /\ o[1] \in DOMAIN IndexOf(b) /\ o[2] \in 0..(Vout[o[1]] - 1)
         /\ \E d \in Ledger(c) : o[1] \in TxsOf(d)
         /\ IndexOf(b)[o[1]].vSpent[o[2]] = c /\ c # Null
  <1>1. c \in Block /\ c # Null /\ Ledger(c) \subseteq Ledger(b)
    BY LedgerFacts, BlockTree
  <1>2. PICK i \in DOMAIN Vtx[c] : o \in Vin[Vtx[c][i]]
    BY <1>1, BlockTxs
  <1>3. o = <<o[1], o[2]>> /\ o[2] \in Nat /\ Vout[o[1]] \in Nat
    BY <1>1, <1>2, BlockTxs
  <1>4. o[2] < Vout[o[1]] /\ \E d \in Ledger(c) : \E j \in DOMAIN Vtx[d] : Vtx[d][j] = o[1]
    BY <1>2 DEF GoodLedger, SoundLedger
  <1>5. PICK d \in Ledger(c) : \E j \in DOMAIN Vtx[d] : Vtx[d][j] = o[1]
    BY <1>4
  <1>6. d \in Ledger(b) /\ d \in Block
    BY <1>1, <1>5, LedgerFacts
  <1>7. o[1] \in TxsOf(d)
    BY <1>5, <1>6, BlockTxs
  <1>8. o[2] \in 0..(Vout[o[1]] - 1)
    BY <1>3, <1>4
  <1>9. o[1] \in DOMAIN IndexOf(b) /\ IndexOf(b)[o[1]].vSpent[o[2]] = c
    <2>1. o[1] \in DOMAIN IndexOf(b)
      BY <1>6, <1>7, IndexOfPos
    <2>2. <<o[1], o[2]>> \in Spends(c)
      BY <1>3
    <2>3. IndexOf(b)[o[1]].vSpent[o[2]] = c
      BY <1>6, <1>7, <1>8, <2>2, IndexOfSpent
    <2> QED
      BY <2>1, <2>3
  <1> QED
    BY <1>1, <1>3, <1>5, <1>7, <1>8, <1>9

\* The transactions of the reference index.
LEMMA IndexOfDomain ==
  ASSUME NEW b \in Block
  PROVE  \A t : t \in DOMAIN IndexOf(b) <=> \E c \in Ledger(b) : t \in TxsOf(c)
  BY DEF IndexOf

\* A block that connects repeats no transaction of the branch: the earliest one
\* would spend what the index says is spent.
LEMMA NothingRepeated ==
  ASSUME NEW b \in Block, Prev[b] # Null, b \notin BadContext, GoodLedger(Prev[b]),
         InputsConnect(IndexOf(Prev[b]), b)
  PROVE  \A t \in TxsOf(b) : t \notin DOMAIN IndexOf(Prev[b])
  <1> DEFINE p == Prev[b]
             K == {i \in DOMAIN Vtx[b] : Vtx[b][i] \in DOMAIN IndexOf(p)}
  <1>1. p \in Block /\ Ledger(b) = Ledger(p) \cup {b} /\ b \notin Ledger(p)
    BY LedgerFacts
  <1>2. ASSUME K # {}
        PROVE  FALSE
    <2>1. K \in SUBSET Nat
      BY BlockTxs
    <2>2. PICK i \in K : \A j \in K : i <= j
      BY <1>2, <2>1, LeastNat
    <2> DEFINE t == Vtx[b][i]
    <2>3. PICK c \in Ledger(p) : t \in TxsOf(c)
      BY <1>1, IndexOfDomain
    <2>4. c \in Block /\ c \in Lineage[b] /\ c # b /\ Ledger(c) \subseteq Ledger(p)
      BY <1>1, <2>3, LedgerFacts DEF Ledger
    <2>5. t \in TxsOf(b)
      BY BlockTxs
    <2>6. Vin[t] # {}
      BY <2>3, <2>4, <2>5, Coinbases
    <2>7. PICK o \in Vin[t] : TRUE
      BY <2>6
    <2>8. o \in Spends(c)
      BY <2>3, <2>4, <2>7, BlockTxs
    <2>9. /\ o[1] \in DOMAIN IndexOf(p) /\ IndexOf(p)[o[1]].vSpent[o[2]] # Null
      BY <1>1, <2>3, <2>8, SpentIsMarked
    <2>10. TxConnects(IndexOf(p), b, i)
      BY DEF InputsConnect
    <2>11. o[1] \in Earlier(b, i)
      BY <2>7, <2>9, <2>10 DEF TxConnects
    <2>12. PICK j \in 1..(i - 1) : o[1] = Vtx[b][j]
      BY <2>11 DEF Earlier
    <2>13. j \in K /\ j < i
      <3>1. i \in Nat /\ i \in 1..Len(Vtx[b]) /\ Len(Vtx[b]) \in Nat /\ DOMAIN Vtx[b] = 1..Len(Vtx[b])
        BY BlockTxs
      <3> QED
        BY <2>9, <2>12, <3>1
    <2> QED
      BY <2>1, <2>2, <2>13
  <1> QED
    BY <1>2, BlockTxs

\* The ledger is still sound with a block that connects.
LEMMA ConnectKeepsSound ==
  ASSUME NEW b \in Block, Prev[b] # Null, b \notin BadContext, GoodLedger(Prev[b]),
         InputsConnect(IndexOf(Prev[b]), b)
  PROVE  GoodLedger(b)
  <1> DEFINE p == Prev[b]
             idx == IndexOf(p)
  <1>1. /\ p \in Block /\ Ledger(b) = Ledger(p) \cup {b} /\ b \notin Ledger(p)
        /\ Lineage[b] = Lineage[p] \cup {b} /\ b \in Ledger(b)
    BY LedgerFacts, LineageOfChild
  <1>2. \A t \in TxsOf(b) : t \notin DOMAIN idx
    BY NothingRepeated
  <1>3. \A i \in DOMAIN Vtx[b] : TxConnects(idx, b, i)
    BY DEF InputsConnect
  <1>4. \A i \in DOMAIN Vtx[b] : \A t \in Earlier(b, i) :
           \E j \in DOMAIN Vtx[b] : j < i /\ Vtx[b][j] = t
    <2> SUFFICES ASSUME NEW i \in DOMAIN Vtx[b], NEW t \in Earlier(b, i)
                 PROVE  \E j \in DOMAIN Vtx[b] : j < i /\ Vtx[b][j] = t
      OBVIOUS
    <2>1. i \in Nat /\ DOMAIN Vtx[b] = 1..Len(Vtx[b]) /\ Len(Vtx[b]) \in Nat
      BY BlockTxs
    <2>2. PICK j \in 1..(i - 1) : t = Vtx[b][j]
      BY DEF Earlier
    <2> QED
      BY <2>1, <2>2
  <1>5. \A i, j \in DOMAIN Vtx[b] : j < i => Vtx[b][j] \in Earlier(b, i)
    <2>1. \A i \in DOMAIN Vtx[b] : i \in Nat /\ i >= 1
      BY BlockTxs
    <2> QED
      BY <2>1 DEF Earlier
  \* What the ledger below spends is not spent again.
  <1>6. ASSUME NEW c \in Ledger(p), NEW o \in Spends(c), NEW j \in DOMAIN Vtx[b], o \in Vin[Vtx[b][j]]
        PROVE  FALSE
    <2>1. o[1] \in DOMAIN idx /\ idx[o[1]].vSpent[o[2]] # Null
      BY <1>1, SpentIsMarked
    <2>2. o[1] \notin Earlier(b, j)
      <3> SUFFICES ASSUME o[1] \in Earlier(b, j) PROVE FALSE
        OBVIOUS
      <3>1. o[1] \in TxsOf(b)
        BY <1>4, BlockTxs
      <3> QED
        BY <1>2, <2>1, <3>1
    <2>3. TxConnects(idx, b, j)
      BY <1>3
    <2> QED
      BY <1>6, <2>1, <2>2, <2>3 DEF TxConnects
  <1>7. SoundLedger(b)
    <2> SUFFICES ASSUME NEW c \in Ledger(b), NEW i \in DOMAIN Vtx[c], NEW o \in Vin[Vtx[c][i]]
                 PROVE  /\ \E d \in Ledger(c) : \E j \in DOMAIN Vtx[d] :
                              /\ Vtx[d][j] = o[1]
                              /\ d = c => j < i
                              /\ o[1] \in Generated => Height[c] - Height[d] >= Maturity
                        /\ o[2] < Vout[o[1]]
                        /\ \A d \in Ledger(b) : \A j \in DOMAIN Vtx[d] :
                              o \in Vin[Vtx[d][j]] => <<d, j>> = <<c, i>>
      BY DEF SoundLedger
    <2>1. CASE c \in Ledger(p)
      <3>1. /\ \E d \in Ledger(c) : \E j \in DOMAIN Vtx[d] :
                  /\ Vtx[d][j] = o[1]
                  /\ d = c => j < i
                  /\ o[1] \in Generated => Height[c] - Height[d] >= Maturity
            /\ o[2] < Vout[o[1]]
            /\ \A d \in Ledger(p) : \A j \in DOMAIN Vtx[d] :
                  o \in Vin[Vtx[d][j]] => <<d, j>> = <<c, i>>
        BY <2>1 DEF GoodLedger, SoundLedger
      <3>2. o \in Spends(c)
        BY <1>1, LedgerFacts, BlockTxs
      <3> QED
        BY <1>1, <1>6, <2>1, <3>1, <3>2
    <2>2. CASE c = b
      <3>1. TxConnects(idx, b, i)
        BY <1>3, <2>2
      <3>2. /\ InputFound(idx, Earlier(b, i), o)
            /\ o[1] \in Generated =>
                  ~Immature(IF o[1] \in Earlier(b, i) THEN b ELSE idx[o[1]].pos, b)
            /\ \A s \in Earlier(b, i) : o \notin Vin[s]
        BY <2>2, <3>1 DEF TxConnects
      <3>3. ASSUME NEW d \in Lineage[b], ~Immature(d, b)
            PROVE  Height[b] - Height[d] >= Maturity
        <4>1. Height[b] \in Nat /\ Height[d] \in Nat /\ Maturity \in Nat
          BY PrevEnds, Transactions, LineageClosed
        <4> QED
          BY <3>3, <4>1 DEF Immature
      <3>4. \E d \in Ledger(c) : \E j \in DOMAIN Vtx[d] :
                  /\ Vtx[d][j] = o[1]
                  /\ d = c => j < i
                  /\ o[1] \in Generated => Height[c] - Height[d] >= Maturity
        <4>1. CASE o[1] \in Earlier(b, i)
          <5>1. PICK j \in DOMAIN Vtx[b] : j < i /\ Vtx[b][j] = o[1]
            BY <1>4, <2>2, <4>1
          <5>2. o[1] \in Generated => Height[b] - Height[b] >= Maturity
            BY <3>2, <3>3, <4>1, LineageClosed
          <5> QED
            BY <1>1, <2>2, <5>1, <5>2
        <4>2. CASE o[1] \notin Earlier(b, i)
          <5>1. o[1] \in DOMAIN idx
            BY <3>2, <4>2 DEF InputFound
          <5>2. PICK d \in Ledger(p) : o[1] \in TxsOf(d)
            BY <1>1, <5>1, IndexOfDomain
          <5>3. idx[o[1]].pos = d
            BY <1>1, <5>2, IndexOfPos
          <5>4. d \in Ledger(b) /\ d # b /\ d \in Block /\ d \in Lineage[b]
            BY <1>1, <5>2, LedgerFacts DEF Ledger
          <5>5. PICK j \in DOMAIN Vtx[d] : Vtx[d][j] = o[1]
            BY <5>2, <5>4, BlockTxs
          <5>6. o[1] \in Generated => Height[b] - Height[d] >= Maturity
            BY <3>2, <3>3, <4>2, <5>3, <5>4
          <5> QED
            BY <2>2, <5>4, <5>5, <5>6
        <4> QED
          BY <4>1, <4>2
      <3>5. o[2] < Vout[o[1]]
        BY <3>2 DEF InputFound
      <3>6. ASSUME NEW d \in Ledger(b), NEW j \in DOMAIN Vtx[d], o \in Vin[Vtx[d][j]]
            PROVE  <<d, j>> = <<c, i>>
        <4>1. CASE d \in Ledger(p)
          <5>1. o \in Spends(d)
            BY <3>6, <4>1, <1>1, LedgerFacts, BlockTxs
          <5> QED
            BY <1>6, <2>2, <4>1, <5>1
        <4>2. CASE d = b
          <5>1. i \in Nat /\ j \in Nat
            BY <2>2, <4>2, BlockTxs
          <5>2. ~(j < i)
            BY <1>5, <2>2, <3>2, <3>6, <4>2
          <5>3. ~(i < j)
            <6>1. TxConnects(idx, b, j)
              BY <1>3, <4>2
            <6>2. \A s \in Earlier(b, j) : o \notin Vin[s]
              BY <3>6, <4>2, <6>1 DEF TxConnects
            <6> QED
              BY <1>5, <2>2, <4>2, <6>2
          <5> QED
            BY <2>2, <4>2, <5>1, <5>2, <5>3
        <4> QED
          BY <1>1, <4>1, <4>2
      <3> QED
        BY <3>4, <3>5, <3>6
    <2> QED
      BY <1>1, <2>1, <2>2
  <1> QED
    BY <1>1, <1>7 DEF GoodLedger

\* An output that no block of the ledger spends is not marked.
LEMMA IndexOfUnspent ==
  ASSUME NEW b \in Block, NEW t \in DOMAIN IndexOf(b), NEW n \in 0..(Vout[t] - 1),
         \A d \in Ledger(b) : <<t, n>> \notin Spends(d)
  PROVE  IndexOf(b)[t].vSpent[n] = Null
  BY DEF IndexOf

\* The shape of the reference index.
LEMMA IndexOfShape ==
  ASSUME NEW b \in Block
  PROVE  /\ IndexOf(b) = [t \in DOMAIN IndexOf(b) |-> IndexOf(b)[t]]
         /\ \A t \in DOMAIN IndexOf(b) :
               /\ IndexOf(b)[t] = [pos |-> IndexOf(b)[t].pos, vSpent |-> IndexOf(b)[t].vSpent]
               /\ IndexOf(b)[t].vSpent = [n \in 0..(Vout[t] - 1) |-> IndexOf(b)[t].vSpent[n]]
               /\ DOMAIN IndexOf(b)[t].vSpent = 0..(Vout[t] - 1)
  BY DEF IndexOf

\* An index with its shape and its contents is the reference index.
SameContents(X, b) ==
    /\ DOMAIN X = DOMAIN IndexOf(b) /\ X = [t \in DOMAIN X |-> X[t]]
    /\ \A t \in DOMAIN X :
          /\ X[t] = [pos |-> IndexOf(b)[t].pos, vSpent |-> X[t].vSpent]
          /\ X[t].vSpent = [n \in 0..(Vout[t] - 1) |-> X[t].vSpent[n]]
          /\ \A n \in 0..(Vout[t] - 1) : X[t].vSpent[n] = IndexOf(b)[t].vSpent[n]

\* An index with the same records as the reference is the reference.
LEMMA SameIndex ==
  ASSUME NEW b \in Block, NEW X, SameContents(X, b)
  PROVE  X = IndexOf(b)
  <1> DEFINE Y == IndexOf(b)
  <1>1. /\ Y = [t \in DOMAIN Y |-> Y[t]]
        /\ \A t \in DOMAIN Y : /\ Y[t] = [pos |-> Y[t].pos, vSpent |-> Y[t].vSpent]
                               /\ Y[t].vSpent = [n \in 0..(Vout[t] - 1) |-> Y[t].vSpent[n]]
    BY IndexOfShape
  <1>2. \A t \in DOMAIN X :
            /\ X[t] = [pos |-> Y[t].pos, vSpent |-> X[t].vSpent]
            /\ X[t].vSpent = [n \in 0..(Vout[t] - 1) |-> X[t].vSpent[n]]
            /\ \A n \in 0..(Vout[t] - 1) : X[t].vSpent[n] = Y[t].vSpent[n]
    BY DEF SameContents
  <1> HIDE DEF Y
  <1>3. ASSUME NEW t \in DOMAIN X
        PROVE  X[t] = Y[t]
    <2>1. t \in DOMAIN Y
      BY DEF Y, SameContents
    <2>2. X[t].vSpent = Y[t].vSpent
      BY <1>1, <1>2, <2>1
    <2> QED
      BY <1>1, <1>2, <2>1, <2>2
  <1>4. X = Y
    BY <1>1, <1>3 DEF Y, SameContents
  <1> QED
    BY <1>4 DEF Y

\* Connecting a block gives the index of the longer branch.
LEMMA ConnectExact ==
  ASSUME NEW b \in Block, Prev[b] # Null, b \notin BadContext, GoodLedger(Prev[b]),
         InputsConnect(IndexOf(Prev[b]), b)
  PROVE  Connected(IndexOf(Prev[b]), b) = IndexOf(b)
  <1> DEFINE p == Prev[b]
             idx == IndexOf(p)
             X == Connected(idx, b)
  <1>1. p \in Block /\ Ledger(b) = Ledger(p) \cup {b} /\ b \notin Ledger(p)
    BY LedgerFacts
  <1>2. \A t \in TxsOf(b) : t \notin DOMAIN idx
    BY NothingRepeated
  <1>3. GoodLedger(b)
    BY ConnectKeepsSound
  <1>4. DOMAIN X = DOMAIN idx \cup TxsOf(b) /\ X = [t \in DOMAIN X |-> X[t]]
    BY DEF Connected
  <1>5. DOMAIN X = DOMAIN IndexOf(b)
    <2>1. \A t : t \in DOMAIN X <=> t \in DOMAIN IndexOf(b)
      BY <1>1, <1>4, IndexOfDomain
    <2> QED
      BY <2>1
  <1>6. \A t \in DOMAIN idx : /\ idx[t] = [pos |-> idx[t].pos, vSpent |-> idx[t].vSpent]
                              /\ DOMAIN idx[t].vSpent = 0..(Vout[t] - 1)
    BY <1>1, IndexOfShape
  <1>7. ASSUME NEW t \in DOMAIN X
        PROVE  /\ X[t] = [pos |-> IndexOf(b)[t].pos, vSpent |-> X[t].vSpent]
               /\ X[t].vSpent = [n \in 0..(Vout[t] - 1) |-> X[t].vSpent[n]]
               /\ \A n \in 0..(Vout[t] - 1) : X[t].vSpent[n] = IndexOf(b)[t].vSpent[n]
    <2>1. CASE t \in TxsOf(b)
      <3>1. X[t] = [pos |-> b, vSpent |-> [n \in 0..(Vout[t] - 1) |->
                                            IF <<t, n>> \in Spends(b) THEN b ELSE Null]]
        <4> DEFINE f == [n \in 0..(Vout[t] - 1) |-> Null]
                   r == [pos |-> b, vSpent |-> f]
        <4>1. X[t] =
                [r EXCEPT !.vSpent = [n \in DOMAIN @ |-> IF <<t, n>> \in Spends(b) THEN b ELSE @[n]]]
          BY <1>4, <2>1 DEF Connected
        <4>2. X[t] =
                [r EXCEPT !.vSpent = [n \in DOMAIN f |-> IF <<t, n>> \in Spends(b) THEN b ELSE f[n]]]
          BY <4>1
        <4> QED
          <5>1. X[t] = [pos |-> b, vSpent |-> [n \in DOMAIN f |-> IF <<t, n>> \in Spends(b) THEN b ELSE f[n]]]
            BY <4>2
          <5>2. DOMAIN f = 0..(Vout[t] - 1) /\ \A n \in 0..(Vout[t] - 1) : f[n] = Null
            OBVIOUS
          <5> HIDE DEF f
          <5> QED
            BY <5>1, <5>2
      <3>2. IndexOf(b)[t].pos = b
        BY <1>1, <1>3, <2>1, IndexOfPos
      <3>3. ASSUME NEW n \in 0..(Vout[t] - 1)
            PROVE  IndexOf(b)[t].vSpent[n] = IF <<t, n>> \in Spends(b) THEN b ELSE Null
        <4>1. CASE <<t, n>> \in Spends(b)
          BY <1>1, <1>3, <2>1, <4>1, IndexOfSpent
        <4>2. CASE <<t, n>> \notin Spends(b)
          <5>1. ASSUME NEW d \in Ledger(p), <<t, n>> \in Spends(d)
                PROVE  FALSE
            BY <1>1, <1>2, <2>1, <5>1, LedgerFacts, SpentIsMarked
          <5> QED
            BY <1>1, <1>5, <4>2, <5>1, IndexOfUnspent
        <4> QED
          BY <4>1, <4>2
      <3> HIDE DEF X
      <3> QED
        BY <3>1, <3>2, <3>3
    <2>2. CASE t \notin TxsOf(b)
      <3>1. t \in DOMAIN idx
        BY <1>4, <2>2
      <3>2. X[t] = [pos |-> idx[t].pos,
                    vSpent |-> [n \in 0..(Vout[t] - 1) |->
                                IF <<t, n>> \in Spends(b) THEN b ELSE idx[t].vSpent[n]]]
        <4>1. PICK q, f : idx[t] = [pos |-> q, vSpent |-> f]
          BY <1>6, <3>1
        <4>2. X[t] =
                [idx[t] EXCEPT !.vSpent = [n \in DOMAIN @ |-> IF <<t, n>> \in Spends(b) THEN b ELSE @[n]]]
          BY <1>4, <2>2 DEF Connected
        <4>3. idx[t].pos = q /\ idx[t].vSpent = f /\ DOMAIN f = 0..(Vout[t] - 1)
          BY <1>6, <3>1, <4>1
        <4> HIDE DEF X, idx
        <4> QED
          BY <4>1, <4>2, <4>3
      <3>3. PICK c \in Ledger(p) : t \in TxsOf(c)
        BY <1>1, <3>1, IndexOfDomain
      <3>4. IndexOf(b)[t].pos = c /\ idx[t].pos = c
        BY <1>1, <1>3, <3>3, IndexOfPos
      <3>5. ASSUME NEW n \in 0..(Vout[t] - 1)
            PROVE  IndexOf(b)[t].vSpent[n] = IF <<t, n>> \in Spends(b) THEN b ELSE idx[t].vSpent[n]
        <4>1. CASE <<t, n>> \in Spends(b)
          BY <1>1, <1>3, <3>3, <4>1, IndexOfSpent
        <4>2. CASE <<t, n>> \notin Spends(b) /\ \E d \in Ledger(p) : <<t, n>> \in Spends(d)
          <5>1. PICK d \in Ledger(p) : <<t, n>> \in Spends(d)
            BY <4>2
          <5>2. IndexOf(b)[t].vSpent[n] = d
            BY <1>1, <1>3, <3>3, <5>1, IndexOfSpent
          <5>3. idx[t].vSpent[n] = d
            BY <1>1, <3>3, <5>1, IndexOfSpent
          <5> QED
            BY <4>2, <5>2, <5>3
        <4>3. CASE <<t, n>> \notin Spends(b) /\ ~\E d \in Ledger(p) : <<t, n>> \in Spends(d)
          <5>1. IndexOf(b)[t].vSpent[n] = Null
            BY <1>1, <1>5, <4>3, IndexOfUnspent
          <5>2. idx[t].vSpent[n] = Null
            BY <1>1, <3>1, <4>3, IndexOfUnspent
          <5> QED
            BY <4>3, <5>1, <5>2
        <4> QED
          BY <4>1, <4>2, <4>3
      <3> HIDE DEF X
      <3> QED
        BY <3>2, <3>4, <3>5
    <2> QED
      BY <2>1, <2>2
  <1> HIDE DEF X
  <1>8. SameContents(X, b)
    BY <1>4, <1>5, <1>7 DEF SameContents
  <1>9. X = IndexOf(b)
    BY <1>1, <1>8, SameIndex
  <1> QED
    BY <1>9 DEF X

\* A part of a good ledger is good, and disconnecting its last block gives the
\* index of that part: marks and records go, and none that it needs.
LEMMA DisconnectExact ==
  ASSUME NEW b \in Block, Prev[b] # Null, GoodLedger(b)
  PROVE  /\ GoodLedger(Prev[b])
         /\ InputsDisconnect(IndexOf(b), b)
         /\ Disconnected(IndexOf(b), b) = IndexOf(Prev[b])
  <1> DEFINE p == Prev[b]
             idx == IndexOf(b)
             X == Disconnected(idx, b)
  <1>1. /\ p \in Block /\ Ledger(b) = Ledger(p) \cup {b} /\ b \notin Ledger(p)
        /\ Lineage[b] = Lineage[p] \cup {b}
    BY LedgerFacts, LineageOfChild
  <1>2. GoodLedger(p)
    BY <1>1 DEF GoodLedger, SoundLedger
  <1>3. InputsDisconnect(idx, b)
    <2>1. ASSUME NEW o \in Spends(b)
          PROVE  o[1] \in DOMAIN idx /\ o[2] \in DOMAIN idx[o[1]].vSpent
      <3>1. o[1] \in DOMAIN idx /\ o[2] \in 0..(Vout[o[1]] - 1)
        BY <1>1, SpentIsMarked
      <3>2. DOMAIN idx[o[1]].vSpent = 0..(Vout[o[1]] - 1)
        BY <3>1, IndexOfShape
      <3> QED
        BY <3>1, <3>2
    <2> QED
      BY <2>1 DEF InputsDisconnect
  <1>4. /\ DOMAIN X = DOMAIN idx \ TxsOf(b) /\ X = [t \in DOMAIN X |-> X[t]]
    BY DEF Disconnected
  <1>5. ASSUME NEW c \in Ledger(p), NEW t \in TxsOf(c)
        PROVE  t \notin TxsOf(b)
    BY <1>1, OneBlockPerTx
  <1>6. DOMAIN X = DOMAIN IndexOf(p)
    <2>1. \A t : t \in DOMAIN X <=> t \in DOMAIN IndexOf(p)
      BY <1>1, <1>4, <1>5, IndexOfDomain
    <2> QED
      BY <2>1
  <1>7. ASSUME NEW t \in DOMAIN X
        PROVE  /\ X[t] = [pos |-> IndexOf(p)[t].pos, vSpent |-> X[t].vSpent]
               /\ X[t].vSpent = [n \in 0..(Vout[t] - 1) |-> X[t].vSpent[n]]
               /\ \A n \in 0..(Vout[t] - 1) : X[t].vSpent[n] = IndexOf(p)[t].vSpent[n]
    <2>1. t \in DOMAIN idx /\ t \in DOMAIN IndexOf(p)
      BY <1>4, <1>6
    <2>2. /\ idx[t] = [pos |-> idx[t].pos, vSpent |-> idx[t].vSpent]
          /\ DOMAIN idx[t].vSpent = 0..(Vout[t] - 1)
      BY <2>1, IndexOfShape
    <2>3. X[t] = [pos |-> idx[t].pos,
                  vSpent |-> [n \in 0..(Vout[t] - 1) |->
                                IF <<t, n>> \in Spends(b) THEN Null ELSE idx[t].vSpent[n]]]
      BY <1>4, <2>2 DEF Disconnected
    <2>4. PICK c \in Ledger(p) : t \in TxsOf(c)
      BY <1>1, <2>1, IndexOfDomain
    <2>5. IndexOf(p)[t].pos = c /\ idx[t].pos = c
      BY <1>1, <1>2, <2>4, IndexOfPos
    <2>6. ASSUME NEW n \in 0..(Vout[t] - 1)
          PROVE  IndexOf(p)[t].vSpent[n] = IF <<t, n>> \in Spends(b) THEN Null ELSE idx[t].vSpent[n]
      <3>1. CASE <<t, n>> \in Spends(b)
        <4>1. idx[t].vSpent[n] = b
          BY <1>1, <2>4, <3>1, IndexOfSpent
        <4>2. ASSUME NEW d \in Ledger(p), <<t, n>> \in Spends(d)
              PROVE  FALSE
          <5>1. idx[t].vSpent[n] = d
            BY <1>1, <2>4, <4>2, IndexOfSpent
          <5> QED
            BY <1>1, <4>1, <5>1
        <4> QED
          BY <1>1, <2>1, <3>1, <4>2, IndexOfUnspent
      <3>2. CASE <<t, n>> \notin Spends(b) /\ \E d \in Ledger(p) : <<t, n>> \in Spends(d)
        <4>1. PICK d \in Ledger(p) : <<t, n>> \in Spends(d)
          BY <3>2
        <4>2. IndexOf(p)[t].vSpent[n] = d
          BY <1>1, <1>2, <2>4, <4>1, IndexOfSpent
        <4>3. idx[t].vSpent[n] = d
          BY <1>1, <2>4, <4>1, IndexOfSpent
        <4> QED
          BY <3>2, <4>2, <4>3
      <3>3. CASE <<t, n>> \notin Spends(b) /\ ~\E d \in Ledger(p) : <<t, n>> \in Spends(d)
        <4>1. IndexOf(p)[t].vSpent[n] = Null
          BY <1>1, <2>1, <3>3, IndexOfUnspent
        <4>2. idx[t].vSpent[n] = Null
          BY <1>1, <2>1, <3>3, IndexOfUnspent
        <4> QED
          BY <3>3, <4>1, <4>2
      <3> QED
        BY <3>1, <3>2, <3>3
    <2> HIDE DEF X
    <2> QED
      BY <2>3, <2>5, <2>6
  <1> HIDE DEF X
  <1>8. SameContents(X, p)
    BY <1>4, <1>6, <1>7 DEF SameContents
  <1>9. X = IndexOf(p)
    BY <1>1, <1>8, SameIndex
  <1> QED
    BY <1>2, <1>3, <1>9 DEF X

-----------------------------------------------------------------------------
(* Reorganize: from the tip down to the fork, and up the new branch.        *)

\* The block of height h on the branch that ends in b.
At(b, h) == CHOOSE a \in Lineage[b] : Height[a] = h

\* It is there for every height up to that of b, and it is what pprev finds.
LEMMA AtHeight ==
  ASSUME NEW b \in Block, NEW h \in 0..Height[b]
  PROVE  /\ At(b, h) \in Lineage[b] /\ At(b, h) \in Block /\ Height[At(b, h)] = h
         /\ \A a \in Lineage[b] : Height[a] = h => a = At(b, h)
         /\ h > 0 => Prev[At(b, h)] = At(b, h - 1) /\ Prev[At(b, h)] # Null
  <1>1. Height[Genesis] = 0 /\ Genesis \in Lineage[b]
    BY BlockTree, PrevEnds, GenesisInLineage
  <1>2. ASSUME NEW k \in 0..Height[b]
        PROVE  At(b, k) \in Lineage[b] /\ At(b, k) \in Block /\ Height[At(b, k)] = k
    <2>1. k \in Height[Genesis]..Height[b]
      BY <1>1
    <2>2. \E a \in Lineage[b] : Height[a] = k
      BY <1>1, <2>1, LineageComplete
    <2> QED
      BY <2>2, LineageClosed DEF At
  <1>3. ASSUME NEW k \in 0..Height[b], NEW a \in Lineage[b], Height[a] = k
        PROVE  a = At(b, k)
    BY <1>2, <1>3, LineageHeights
  <1>4. ASSUME h > 0
        PROVE  Prev[At(b, h)] = At(b, h - 1) /\ Prev[At(b, h)] # Null
    <2>1. Prev[At(b, h)] # Null
      BY <1>2, <1>4, PrevEnds
    <2>2. /\ Prev[At(b, h)] \in Lineage[b] /\ Prev[At(b, h)] \in Block
          /\ h = Height[Prev[At(b, h)]] + 1 /\ Height[Prev[At(b, h)]] \in Nat
      BY <1>2, <2>1, LineageClosed, PrevEnds
    <2>3. h - 1 \in 0..Height[b] /\ Height[Prev[At(b, h)]] = h - 1
      BY <1>4, <2>2, PrevEnds
    <2> QED
      BY <1>3, <2>1, <2>2, <2>3
  <1> QED
    BY <1>2, <1>3, <1>4

\* The last block common to two branches.
LEMMA LastCommonFacts ==
  ASSUME NEW a \in Block, NEW b \in Block
  PROVE  /\ LastCommon(a, b) \in Lineage[a] /\ LastCommon(a, b) \in Lineage[b]
         /\ LastCommon(a, b) \in Block
         /\ \A g \in Lineage[a] \cap Lineage[b] : Height[g] <= Height[LastCommon(a, b)]
  <1> DEFINE C == Lineage[a] \cap Lineage[b]
             H == {h \in Nat : \E g \in C : Height[g] = Height[a] - h}
  <1>1. \A g \in C : g \in Block /\ Height[g] \in Nat /\ Height[a] \in Nat /\ Height[g] <= Height[a]
    BY LineageClosed, LineageOrder, PrevEnds
  <1>2. Genesis \in C
    BY GenesisInLineage
  <1>3. Height[a] - Height[Genesis] \in H
    BY <1>1, <1>2
  <1>4. PICK h \in H : \A k \in H : h <= k
    BY <1>3, LeastNat
  <1>5. PICK f \in C : Height[f] = Height[a] - h
    OBVIOUS
  <1>6. ASSUME NEW g \in C
        PROVE  Height[g] <= Height[f]
    <2>1. Height[a] - Height[g] \in H
      BY <1>1
    <2> QED
      BY <1>1, <1>4, <1>5, <2>1
  <1>7. LastCommon(a, b) \in C /\ \A g \in C : Height[g] <= Height[LastCommon(a, b)]
    BY <1>5, <1>6 DEF LastCommon
  <1> QED
    BY <1>1, <1>7

\* A branch up to a fork is the branch of the fork.
LEMMA BelowFork ==
  ASSUME NEW b \in Block, NEW f \in Lineage[b], NEW a \in Lineage[b]
  PROVE  Height[a] <= Height[f] <=> a \in Lineage[f]
  <1>1. a \in Block /\ f \in Block /\ Height[a] \in Nat /\ Height[f] \in Nat
    BY LineageClosed, PrevEnds
  <1>2. a \in Lineage[f] => Height[a] <= Height[f]
    BY <1>1, LineageOrder
  <1>3. ASSUME f \in Lineage[a], Height[a] <= Height[f]
        PROVE  a \in Lineage[f]
    BY <1>1, <1>3, LineageOrder, LineageClosed
  <1> QED
    BY <1>2, <1>3, LineageTotal

\* The two sequences Reorganize collects.
LEMMA Paths ==
  ASSUME NEW b \in Block, NEW f \in Lineage[b]
  PROVE  LET n == Height[b] - Height[f] IN
         /\ n \in Nat /\ Height[f] \in Nat /\ Height[b] \in Nat
         /\ PathUp(f, b) \in Seq(Block) /\ Len(PathUp(f, b)) = n
         /\ Reverse(PathUp(f, b)) \in Seq(Block) /\ Len(Reverse(PathUp(f, b))) = n
         /\ \A i \in 1..n : /\ PathUp(f, b)[i] = At(b, Height[f] + i)
                            /\ Reverse(PathUp(f, b))[i] = At(b, Height[b] - i + 1)
  <1> DEFINE n == Height[b] - Height[f]
             p == PathUp(f, b)
             r == Reverse(p)
  <1>1. f \in Block /\ n \in Nat /\ Height[f] \in Nat /\ Height[b] \in Nat
    BY LineageClosed, LineageOrder, PrevEnds
  <1>2. p \in Seq(Block) /\ Len(p) = n
    BY PathUpBlocks
  <1>3. \A i \in 1..n : p[i] = At(b, Height[f] + i)
    BY DEF PathUp, At
  <1>4. r = [i \in 1..n |-> p[(n - i) + 1]]
    BY <1>2 DEF Reverse
  <1>5. \A i \in 1..n : (n - i) + 1 \in 1..n /\ Height[f] + ((n - i) + 1) = Height[b] - i + 1
    BY <1>1
  <1> HIDE DEF p, n
  <1>6. r \in Seq(Block) /\ Len(r) = n
    <2>1. r \in [1..n -> Block]
      BY <1>1, <1>2, <1>4, <1>5
    <2> HIDE DEF r
    <2> QED
      BY <1>1, <2>1
  <1>7. \A i \in 1..n : r[i] = At(b, Height[b] - i + 1)
    BY <1>3, <1>4, <1>5
  <1> QED
    BY <1>1, <1>2, <1>3, <1>6, <1>7 DEF p, n

-----------------------------------------------------------------------------
(* Batches.                                                                 *)

Batch(X, Y) == [ok |-> TRUE, txindex |-> X, blockindex |-> Y]
Failed(r) == DOMAIN r = {"ok", "txindex", "blockindex"} /\ r.ok = FALSE

\* A batch in which a step has failed stays so.
LEMMA FailedStays ==
  ASSUME NEW r, Failed(r), NEW b
  PROVE  ~r.ok /\ Failed(ConnectBlock(r, b)) /\ Failed(DisconnectBlock(r, b))
  <1>1. ConnectBlock(r, b) = [r EXCEPT !.ok = FALSE] /\ DisconnectBlock(r, b) = [r EXCEPT !.ok = FALSE]
    BY DEF ConnectBlock, DisconnectBlock, Failed
  <1>2. Failed([r EXCEPT !.ok = FALSE])
    BY DEF Failed
  <1> QED
    BY <1>1, <1>2 DEF Failed

\* What ConnectBlock does to the links.
SetLink(Y, b) == [Y EXCEPT ![b] = mapBlockIndex[b], ![Prev[b]] = b]

\* ConnectBlock fails, or adds its changes to the batch.
LEMMA ConnectStep ==
  ASSUME NEW X, NEW Y, NEW b
  PROVE  \/ Failed(ConnectBlock(Batch(X, Y), b))
         \/ /\ InputsConnect(X, b)
            /\ ConnectBlock(Batch(X, Y), b) = Batch(Connected(X, b), SetLink(Y, b))
  <1> DEFINE ok == /\ CheckBlock(b) /\ b \notin BadConnect
                   /\ InputsConnect(X, b) /\ RewardAllowed(b)
  <1>1. CASE ok
    BY <1>1 DEF ConnectBlock, Batch, SetLink
  <1>2. CASE ~ok
    <2>1. ConnectBlock(Batch(X, Y), b) = [ok |-> FALSE, txindex |-> X, blockindex |-> Y]
      BY <1>2 DEF ConnectBlock, Batch
    <2> QED
      BY <2>1 DEF Failed
  <1> QED
    BY <1>1, <1>2

\* DisconnectBlock too; it fails only when a record is missing.
LEMMA DisconnectStep ==
  ASSUME NEW X, NEW Y, NEW b
  PROVE  IF InputsDisconnect(X, b)
         THEN DisconnectBlock(Batch(X, Y), b) = Batch(Disconnected(X, b), [Y EXCEPT ![Prev[b]] = Null])
         ELSE Failed(DisconnectBlock(Batch(X, Y), b))
  <1>1. CASE InputsDisconnect(X, b)
    BY <1>1 DEF DisconnectBlock, Batch
  <1>2. CASE ~InputsDisconnect(X, b)
    <2>1. DisconnectBlock(Batch(X, Y), b) = [ok |-> FALSE, txindex |-> X, blockindex |-> Y]
      BY <1>2 DEF DisconnectBlock, Batch
    <2> QED
      BY <1>2, <2>1 DEF Failed
  <1> QED
    BY <1>1, <1>2

\* Both keep the shape of the records.
LEMMA IndexConnected ==
  ASSUME NEW b \in Block, NEW X, IsIndex(X)
  PROVE  IsIndex(Connected(X, b))
  <1> DEFINE C == Connected(X, b)
  <1>1. \A t \in TxsOf(b) : t \in Tx
    BY BlockTxs
  <1>2. DOMAIN C = DOMAIN X \cup TxsOf(b) /\ DOMAIN X \subseteq Tx
    BY DEF Connected, IsIndex
  <1>3. ASSUME NEW t \in DOMAIN C
        PROVE  C[t] \in [pos : Block, vSpent : [0..(Vout[t] - 1) -> Block \cup {Null}]]
    <2> DEFINE old == IF t \in TxsOf(b)
                      THEN [pos |-> b, vSpent |-> [n \in 0..(Vout[t] - 1) |-> Null]]
                      ELSE X[t]
    <2>1. old \in [pos : Block, vSpent : [0..(Vout[t] - 1) -> Block \cup {Null}]]
      BY <1>2 DEF IsIndex
    <2>2. C[t] = [old EXCEPT !.vSpent =
                    [n \in DOMAIN @ |-> IF <<t, n>> \in Spends(b) THEN b ELSE @[n]]]
      BY DEF Connected
    <2> HIDE DEF old, C
    <2>3. PICK q \in Block, f \in [0..(Vout[t] - 1) -> Block \cup {Null}] :
            old = [pos |-> q, vSpent |-> f]
      BY <2>1
    <2> DEFINE g == [n \in 0..(Vout[t] - 1) |-> IF <<t, n>> \in Spends(b) THEN b ELSE f[n]]
    <2>4. C[t] = [pos |-> q, vSpent |-> g]
      <3> DEFINE h == [n \in DOMAIN f |-> IF <<t, n>> \in Spends(b) THEN b ELSE f[n]]
      <3>1. old.pos = q /\ old.vSpent = f
        BY <2>3
      <3>2. C[t] = [old EXCEPT !.vSpent = h]
        BY <2>2, <3>1
      <3>3. h = g
        OBVIOUS
      <3> HIDE DEF g, h
      <3> QED
        BY <2>3, <3>2, <3>3
    <2>5. g \in [0..(Vout[t] - 1) -> Block \cup {Null}]
      OBVIOUS
    <2> HIDE DEF g
    <2> QED
      BY <2>4, <2>5
  <1> QED
    BY <1>1, <1>2, <1>3 DEF IsIndex

\* Disconnecting the last block of a good ledger gives the index of its
\* parent.
LEMMA IndexDisconnected ==
  ASSUME NEW b \in Block, NEW X, IsIndex(X)
  PROVE  IsIndex(Disconnected(X, b))
  <1> DEFINE C == Disconnected(X, b)
  <1>2. DOMAIN C = DOMAIN X \ TxsOf(b) /\ DOMAIN X \subseteq Tx
    BY DEF Disconnected, IsIndex
  <1>3. ASSUME NEW t \in DOMAIN C
        PROVE  C[t] \in [pos : Block, vSpent : [0..(Vout[t] - 1) -> Block \cup {Null}]]
    <2> DEFINE old == X[t]
    <2>1. old \in [pos : Block, vSpent : [0..(Vout[t] - 1) -> Block \cup {Null}]]
      BY <1>2 DEF IsIndex
    <2>2. C[t] = [old EXCEPT !.vSpent =
                    [n \in DOMAIN @ |-> IF <<t, n>> \in Spends(b) THEN Null ELSE @[n]]]
      BY <1>2 DEF Disconnected
    <2> HIDE DEF C, old
    <2>3. PICK q \in Block, f \in [0..(Vout[t] - 1) -> Block \cup {Null}] :
            old = [pos |-> q, vSpent |-> f]
      BY <2>1
    <2> DEFINE g == [n \in 0..(Vout[t] - 1) |-> IF <<t, n>> \in Spends(b) THEN Null ELSE f[n]]
    <2>4. C[t] = [pos |-> q, vSpent |-> g]
      <3> DEFINE h == [n \in DOMAIN f |-> IF <<t, n>> \in Spends(b) THEN Null ELSE f[n]]
      <3>1. old.pos = q /\ old.vSpent = f
        BY <2>3
      <3>2. C[t] = [old EXCEPT !.vSpent = h]
        BY <2>2, <3>1
      <3>3. h = g
        OBVIOUS
      <3> HIDE DEF g, h
      <3> QED
        BY <2>3, <3>2, <3>3
    <2>5. g \in [0..(Vout[t] - 1) -> Block \cup {Null}]
      OBVIOUS
    <2> HIDE DEF g
    <2> QED
      BY <2>4, <2>5
  <1> QED
    BY <1>2, <1>3 DEF IsIndex

\* The links Y with those of the branch of tip from height h on cut, and with
\* those of the branch of to from height l up to height h set.
LinksDown(Y, tip, h) ==
    [x \in DOMAIN Y |-> IF x \in Lineage[tip] /\ h <= Height[x] /\ Height[x] < Height[tip]
                        THEN Null ELSE Y[x]]
LinksUp(Y, to, l, h) ==
    [x \in DOMAIN Y |-> IF x \in Lineage[to] /\ l <= Height[x] /\ Height[x] < h
                        THEN At(to, Height[x] + 1) ELSE Y[x]]

\* Disconnecting one more block cuts one more link.
LEMMA LinksDownStep ==
  ASSUME NEW tip \in Block, NEW h \in Nat, h < Height[tip], NEW Y
  PROVE  [LinksDown(Y, tip, h + 1) EXCEPT ![At(tip, h)] = Null] = LinksDown(Y, tip, h)
  <1> DEFINE A == LinksDown(Y, tip, h + 1)
             B == LinksDown(Y, tip, h)
  <1>1. Height[tip] \in Nat /\ h \in 0..Height[tip]
    BY PrevEnds
  <1>2. /\ At(tip, h) \in Lineage[tip] /\ Height[At(tip, h)] = h
        /\ \A a \in Lineage[tip] : Height[a] \in Nat /\ (Height[a] = h => a = At(tip, h))
    BY <1>1, AtHeight, LineageClosed, PrevEnds
  <1>3. DOMAIN A = DOMAIN Y /\ DOMAIN B = DOMAIN Y
    BY DEF LinksDown
  <1>4. ASSUME NEW x \in DOMAIN Y
        PROVE  B[x] = IF x = At(tip, h) THEN Null ELSE A[x]
    BY <1>1, <1>2 DEF LinksDown
  <1>5. B = [x \in DOMAIN Y |-> B[x]]
    BY DEF LinksDown
  <1>6. [A EXCEPT ![At(tip, h)] = Null] = [x \in DOMAIN Y |-> IF x = At(tip, h) THEN Null ELSE A[x]]
    BY <1>3
  <1> QED
    BY <1>4, <1>5, <1>6

\* Connecting one more block sets one more link.
LEMMA LinksUpStep ==
  ASSUME NEW to \in Block, NEW l \in Nat, NEW h \in Nat, l <= h, h < Height[to], NEW Y,
         \A x \in DOMAIN Y : x \in Lineage[to] /\ Height[x] > l => Y[x] = mapBlockIndex[x]
  PROVE  SetLink(LinksUp(Y, to, l, h), At(to, h + 1)) = LinksUp(Y, to, l, h + 1)
  <1> DEFINE A == LinksUp(Y, to, l, h)
             B == LinksUp(Y, to, l, h + 1)
             c == At(to, h + 1)
             d == At(to, h)
  <1>1. Height[to] \in Nat /\ h \in 0..Height[to] /\ h + 1 \in 0..Height[to]
    BY PrevEnds
  <1>2. /\ c \in Lineage[to] /\ Height[c] = h + 1 /\ d \in Lineage[to] /\ Height[d] = h
        /\ \A a \in Lineage[to] : Height[a] \in Nat /\ (Height[a] = h => a = d)
    BY <1>1, AtHeight, LineageClosed, PrevEnds
  <1>prev. Prev[c] = d
    <2>1. (h + 1) - 1 = h /\ h + 1 > 0
      OBVIOUS
    <2> QED
      BY <1>1, <2>1, AtHeight
  <1>3. DOMAIN A = DOMAIN Y /\ DOMAIN B = DOMAIN Y /\ c # d
    BY <1>2 DEF LinksUp
  <1> HIDE DEF c, d
  <1>4. ASSUME NEW x \in DOMAIN Y
        PROVE  B[x] = IF x = d THEN c ELSE IF x = c THEN mapBlockIndex[c] ELSE A[x]
    <2>1. CASE x = d
      BY <1>2, <2>1 DEF LinksUp, c
    <2>2. CASE x = c
      BY <1>2, <1>3, <2>2 DEF LinksUp
    <2>3. CASE x # c /\ x # d
      BY <1>2, <2>3 DEF LinksUp
    <2> QED
      BY <1>3, <2>1, <2>2, <2>3
  <1>5. B = [x \in DOMAIN Y |-> B[x]]
    BY DEF LinksUp
  <1>6. [A EXCEPT ![c] = mapBlockIndex[c], ![d] = c]
          = [x \in DOMAIN Y |-> IF x = d THEN c ELSE IF x = c THEN mapBlockIndex[c] ELSE A[x]]
    <2> HIDE DEF A
    <2> QED
      BY <1>3
  <1>7. [A EXCEPT ![c] = mapBlockIndex[c], ![d] = c] = B
    BY <1>4, <1>5, <1>6
  <1> QED
    BY <1>7, <1>prev DEF c, SetLink

\* Disconnecting the blocks above f.  From the index of a good ledger it never
\* fails, and it ends with the index of the fork.
LEMMA DisconnectPath ==
  ASSUME NEW tip \in Block, NEW f \in Lineage[tip], NEW X, IsIndex(X),
         NEW Y, Y = [x \in DOMAIN Y |-> Y[x]]
  PROVE  LET r == FoldLeft(DisconnectBlock, Batch(X, Y), Reverse(PathUp(f, tip)))
             L == LinksDown(Y, tip, Height[f])
         IN /\ Failed(r) \/ \E Z : r = Batch(Z, L) /\ IsIndex(Z)
            /\ X = IndexOf(tip) /\ GoodLedger(tip) => r = Batch(IndexOf(f), L) /\ GoodLedger(f)
  <1> DEFINE n == Height[tip] - Height[f]
             seq == Reverse(PathUp(f, tip))
             exact == X = IndexOf(tip) /\ GoodLedger(tip)
             c(i) == At(tip, Height[tip] - i)
             L(i) == LinksDown(Y, tip, Height[tip] - i)
             Good(r, i) == /\ Failed(r) \/ \E Z : r = Batch(Z, L(i)) /\ IsIndex(Z)
                           /\ exact => r = Batch(IndexOf(c(i)), L(i)) /\ GoodLedger(c(i))
  <1>1. /\ n \in Nat /\ Height[f] \in Nat /\ Height[tip] \in Nat
        /\ seq \in Seq(Block) /\ Len(seq) = n
        /\ \A i \in 1..n : seq[i] = At(tip, Height[tip] - i + 1)
    BY Paths
  <1>2. PICK g : /\ g[0] = Batch(X, Y)
                 /\ \A i \in 1..n : g[i] = DisconnectBlock(g[i - 1], seq[i])
                 /\ FoldLeft(DisconnectBlock, Batch(X, Y), seq) = g[n]
    <2>1. PICK g : /\ g[0] = Batch(X, Y)
                   /\ \A i \in 1..Len(seq) : g[i] = DisconnectBlock(g[i - 1], seq[i])
                   /\ FoldLeft(DisconnectBlock, Batch(X, Y), seq) = g[Len(seq)]
      <3> HIDE DEF seq
      <3> QED
        BY <1>1, FoldDisconnect
    <2> QED
      BY <1>1, <2>1
  <1>3. Good(g[0], 0)
    <2>1. c(0) = tip
      BY <1>1, AtHeight, LineageClosed
    <2>2. L(0) = Y
      <3>1. \A x \in Lineage[tip] : Height[x] \in Nat
        BY LineageClosed, PrevEnds
      <3>2. \A x \in DOMAIN Y : L(0)[x] = Y[x]
        BY <1>1, <3>1 DEF LinksDown
      <3>3. L(0) = [x \in DOMAIN Y |-> L(0)[x]]
        BY DEF LinksDown
      <3> HIDE DEF L
      <3> QED
        BY <3>2, <3>3
    <2> HIDE DEF L, c
    <2> QED
      BY <1>2, <2>1, <2>2
  <1>4. ASSUME NEW i \in 1..n, Good(g[i - 1], i - 1)
        PROVE  Good(g[i], i)
    <2> DEFINE b == seq[i]
    <2>1. i - 1 \in Nat /\ Height[tip] - i \in Nat /\ Height[tip] - i < Height[tip]
      BY <1>1
    <2>2. Height[tip] - (i - 1) = Height[tip] - i + 1
      BY <1>1
    <2>3. b = c(i - 1) /\ b \in Block /\ Prev[b] = c(i) /\ Prev[b] # Null
      <3>1. b = At(tip, Height[tip] - i + 1) /\ Height[tip] - i + 1 \in 0..Height[tip]
        BY <1>1, <2>1
      <3>2. (Height[tip] - i + 1) - 1 = Height[tip] - i /\ Height[tip] - i + 1 > 0
        BY <1>1, <2>1
      <3> QED
        BY <2>2, <3>1, <3>2, AtHeight
    <2>4. [L(i - 1) EXCEPT ![Prev[b]] = Null] = L(i)
      BY <2>1, <2>2, <2>3, LinksDownStep
    <2>5. g[i] = DisconnectBlock(g[i - 1], b)
      BY <1>2
    <2>6. exact => g[i] = Batch(IndexOf(c(i)), L(i)) /\ GoodLedger(c(i))
      <3> HAVE exact
      <3>1. g[i - 1] = Batch(IndexOf(b), L(i - 1)) /\ GoodLedger(b)
        BY <1>4, <2>3
      <3>2. /\ GoodLedger(c(i)) /\ InputsDisconnect(IndexOf(b), b)
            /\ Disconnected(IndexOf(b), b) = IndexOf(c(i))
        BY <2>3, <3>1, DisconnectExact
      <3> HIDE DEF L, c, b
      <3> QED
        BY <2>4, <2>5, <3>1, <3>2, DisconnectStep
    <2>7. Failed(g[i]) \/ \E Z : g[i] = Batch(Z, L(i)) /\ IsIndex(Z)
      <3>1. CASE Failed(g[i - 1])
        BY <2>5, <3>1, FailedStays
      <3>2. ASSUME NEW Z, g[i - 1] = Batch(Z, L(i - 1)), IsIndex(Z)
            PROVE  Failed(g[i]) \/ \E W : g[i] = Batch(W, L(i)) /\ IsIndex(W)
        <4> HIDE DEF L, c, b
        <4>1. IsIndex(Disconnected(Z, b))
          BY <2>3, <3>2, IndexDisconnected
        <4> QED
          BY <2>4, <2>5, <3>2, <4>1, DisconnectStep
      <3> QED
        BY <1>4, <3>1, <3>2
    <2> QED
      BY <2>6, <2>7
  <1>5. Good(g[n], n)
    <2> HIDE DEF Good
    <2> DEFINE S == {i \in Nat : Good(g[i], i)}
    <2>1. 0 \in S /\ \A i \in 1..n : i - 1 \in S => i \in S
      BY <1>1, <1>3, <1>4
    <2> HIDE DEF S
    <2>2. n \in S
      BY <1>1, <2>1, StepInduction
    <2> QED
      BY <2>2 DEF S
  <1>6. Height[tip] - n = Height[f]
    BY <1>1
  <1>7. c(n) = f
    BY <1>1, <1>6, AtHeight
  <1>8. L(n) = LinksDown(Y, tip, Height[f])
    BY <1>6
  <1> HIDE DEF L, c, n
  <1> QED
    BY <1>2, <1>5, <1>7, <1>8

\* A batch that has failed before stays failed.
LEMMA ConnectFailed ==
  ASSUME NEW r, Failed(r), NEW seq \in Seq(Block)
  PROVE  Failed(FoldLeft(ConnectBlock, r, seq))
  <1>1. PICK g : /\ g[0] = r
                 /\ \A i \in 1..Len(seq) : g[i] = ConnectBlock(g[i - 1], seq[i])
                 /\ FoldLeft(ConnectBlock, r, seq) = g[Len(seq)]
    BY FoldConnect
  <1> DEFINE S == {i \in Nat : Failed(g[i])}
  <1>2. 0 \in S
    BY <1>1
  <1>3. \A i \in 1..Len(seq) : i - 1 \in S => i \in S
    BY <1>1, FailedStays
  <1> HIDE DEF S
  <1>4. Len(seq) \in S
    <2>1. Len(seq) \in Nat
      OBVIOUS
    <2>2. \A i \in 0..Len(seq) : i \in S
      BY <1>2, <1>3, <2>1, StepInduction
    <2> QED
      BY <2>1, <2>2
  <1> QED
    BY <1>1, <1>4 DEF S

\* Connecting the blocks above f up to the block to.
LEMMA ConnectPath ==
  ASSUME NEW to \in Block, NEW f \in Lineage[to], NEW X, NEW Y, Y = [x \in DOMAIN Y |-> Y[x]],
         \A x \in DOMAIN Y : x \in Lineage[to] /\ Height[x] > Height[f] => Y[x] = mapBlockIndex[x]
  PROVE  LET r == FoldLeft(ConnectBlock, Batch(X, Y), PathUp(f, to))
             L == LinksUp(Y, to, Height[f], Height[to])
         IN \/ Failed(r)
            \/ \E Z : /\ r = Batch(Z, L)
                      /\ IsIndex(X) => IsIndex(Z)
                      /\ X = IndexOf(f) /\ GoodLedger(f) /\ Lineage[to] \cap BadContext = {} =>
                            Z = IndexOf(to) /\ GoodLedger(to)
  <1> DEFINE n == Height[to] - Height[f]
             seq == PathUp(f, to)
             exact == X = IndexOf(f) /\ GoodLedger(f) /\ Lineage[to] \cap BadContext = {}
             c(i) == At(to, Height[f] + i)
             L(i) == LinksUp(Y, to, Height[f], Height[f] + i)
             Good(r, i) == \/ Failed(r)
                           \/ \E Z : /\ r = Batch(Z, L(i))
                                     /\ IsIndex(X) => IsIndex(Z)
                                     /\ exact => Z = IndexOf(c(i)) /\ GoodLedger(c(i))
  <1>1. /\ n \in Nat /\ Height[f] \in Nat /\ Height[to] \in Nat
        /\ seq \in Seq(Block) /\ Len(seq) = n
        /\ \A i \in 1..n : seq[i] = c(i)
    BY Paths
  <1>2. PICK g : /\ g[0] = Batch(X, Y)
                 /\ \A i \in 1..n : g[i] = ConnectBlock(g[i - 1], seq[i])
                 /\ FoldLeft(ConnectBlock, Batch(X, Y), seq) = g[n]
    <2>1. PICK g : /\ g[0] = Batch(X, Y)
                   /\ \A i \in 1..Len(seq) : g[i] = ConnectBlock(g[i - 1], seq[i])
                   /\ FoldLeft(ConnectBlock, Batch(X, Y), seq) = g[Len(seq)]
      <3> HIDE DEF seq
      <3> QED
        BY <1>1, FoldConnect
    <2> QED
      BY <1>1, <2>1
  <1>3. Good(g[0], 0)
    <2>1. c(0) = f
      BY <1>1, AtHeight
    <2>2. L(0) = Y
      <3>1. \A x \in Lineage[to] : Height[x] \in Nat
        BY LineageClosed, PrevEnds
      <3>2. \A x \in DOMAIN Y : L(0)[x] = Y[x]
        BY <1>1, <3>1 DEF LinksUp
      <3>3. L(0) = [x \in DOMAIN Y |-> L(0)[x]]
        BY DEF LinksUp
      <3> HIDE DEF L
      <3> QED
        BY <3>2, <3>3
    <2> HIDE DEF L, c
    <2> QED
      BY <1>2, <2>1, <2>2
  <1>4. ASSUME NEW i \in 1..n, Good(g[i - 1], i - 1)
        PROVE  Good(g[i], i)
    <2> DEFINE b == seq[i]
               h == Height[f] + (i - 1)
    <2>1. h \in Nat /\ Height[f] <= h /\ h < Height[to] /\ h + 1 = Height[f] + i /\ h + 1 \in 0..Height[to]
      BY <1>1
    <2>2. b = c(i) /\ b = At(to, h + 1)
      BY <1>1, <2>1
    <2>3. /\ b \in Block /\ b \in Lineage[to] /\ Prev[b] = c(i - 1) /\ Prev[b] = At(to, h) /\ Prev[b] # Null
      <3>1. h + 1 > 0 /\ (h + 1) - 1 = h
        BY <2>1
      <3> QED
        BY <2>1, <2>2, <3>1, AtHeight
    <2>4. SetLink(L(i - 1), b) = L(i)
      <3>1. SetLink(LinksUp(Y, to, Height[f], h), At(to, h + 1)) = LinksUp(Y, to, Height[f], h + 1)
        <4> HIDE DEF h
        <4> QED
          BY <1>1, <2>1, LinksUpStep, ZenonT(60)
      <3>2. L(i - 1) = LinksUp(Y, to, Height[f], h) /\ L(i) = LinksUp(Y, to, Height[f], h + 1)
        BY <2>1
      <3> HIDE DEF L, c, b, h
      <3> QED
        BY <2>2, <3>1, <3>2
    <2>5. g[i] = ConnectBlock(g[i - 1], b)
      BY <1>2
    <2>6. CASE Failed(g[i - 1])
      BY <2>5, <2>6, FailedStays
    <2>7. ASSUME NEW Z, g[i - 1] = Batch(Z, L(i - 1)), IsIndex(X) => IsIndex(Z),
                 exact => Z = IndexOf(c(i - 1)) /\ GoodLedger(c(i - 1)),
                 ~Failed(g[i])
          PROVE  \E W : /\ g[i] = Batch(W, L(i))
                        /\ IsIndex(X) => IsIndex(W)
                        /\ exact => W = IndexOf(c(i)) /\ GoodLedger(c(i))
      <3> HIDE DEF L, c, b
      <3>1. InputsConnect(Z, b) /\ g[i] = Batch(Connected(Z, b), L(i))
        BY <2>4, <2>5, <2>7, ConnectStep
      <3>2. IsIndex(X) => IsIndex(Connected(Z, b))
        BY <2>3, <2>7, IndexConnected
      <3>3. exact => Connected(Z, b) = IndexOf(c(i)) /\ GoodLedger(c(i))
        <4> HAVE exact
        <4>1. Z = IndexOf(Prev[b]) /\ GoodLedger(Prev[b]) /\ b \notin BadContext
          BY <2>3, <2>7
        <4>2. Connected(Z, b) = IndexOf(b) /\ GoodLedger(b)
          BY <2>3, <3>1, <4>1, ConnectExact, ConnectKeepsSound
        <4> QED
          BY <2>2, <4>2
      <3> HIDE DEF exact
      <3> QED
        BY <3>1, <3>2, <3>3
    <2> HIDE DEF L, exact, c
    <2> QED
      BY <1>4, <2>6, <2>7
  <1>5. Good(g[n], n)
    <2> HIDE DEF Good
    <2> DEFINE S == {i \in Nat : Good(g[i], i)}
    <2>1. 0 \in S /\ \A i \in 1..n : i - 1 \in S => i \in S
      BY <1>1, <1>3, <1>4
    <2> HIDE DEF S
    <2>2. n \in S
      BY <1>1, <2>1, StepInduction
    <2> QED
      BY <2>2 DEF S
  <1>6. Height[f] + n = Height[to]
    BY <1>1
  <1>7. c(n) = to
    BY <1>1, <1>6, AtHeight, LineageClosed
  <1>8. L(n) = LinksUp(Y, to, Height[f], Height[to])
    BY <1>6
  <1> HIDE DEF L, c, n
  <1> QED
    BY <1>2, <1>5, <1>7, <1>8

\* Reorganize's second pass, over the pointers in memory, has the effect on
\* them that the batch has on the records.
LEMMA RelinkedIs ==
  ASSUME hashBestChain \in Block, NEW to \in Block
  PROVE  LET h == Height[LastCommon(hashBestChain, to)]
         IN Relinked(to) = LinksUp(LinksDown(mapBlockIndex, hashBestChain, h), to, h, Height[to])
  <1> DEFINE tip == hashBestChain
             f == LastCommon(tip, to)
             h == Height[f]
             up == Range(vConnect(to))
             down == {Prev[b] : b \in Range(vDisconnect(to))}
             D == LinksDown(mapBlockIndex, tip, h)
             U == LinksUp(D, to, h, Height[to])
             above(x) == x \in Lineage[to] /\ h <= Height[x] /\ Height[x] < Height[to]
             cut(x) == x \in Lineage[tip] /\ h <= Height[x] /\ Height[x] < Height[tip]
  <1>1. f \in Lineage[tip] /\ f \in Lineage[to] /\ f \in Block
    BY LastCommonFacts
  <1>2. /\ Height[to] - h \in Nat /\ h \in Nat /\ Height[to] \in Nat
        /\ Len(vConnect(to)) = Height[to] - h /\ vConnect(to) \in Seq(Block)
        /\ \A i \in 1..(Height[to] - h) : vConnect(to)[i] = At(to, h + i)
    BY <1>1, Paths DEF vConnect
  <1>3. /\ Height[tip] - h \in Nat /\ Height[tip] \in Nat
        /\ Len(vDisconnect(to)) = Height[tip] - h /\ vDisconnect(to) \in Seq(Block)
        /\ \A i \in 1..(Height[tip] - h) : vDisconnect(to)[i] = At(tip, Height[tip] - i + 1)
    BY <1>1, Paths DEF vDisconnect
  <1>4. /\ \A c : c \in up <=> \E i \in 1..(Height[to] - h) : c = At(to, h + i)
        /\ \A x : x \in down <=> \E i \in 1..(Height[tip] - h) : x = Prev[At(tip, Height[tip] - i + 1)]
    <2>1. DOMAIN vConnect(to) = 1..(Height[to] - h) /\ DOMAIN vDisconnect(to) = 1..(Height[tip] - h)
      BY <1>2, <1>3
    <2>2. \A c : c \in up <=> \E i \in 1..(Height[to] - h) : c = At(to, h + i)
      BY <1>2, <2>1 DEF Range
    <2>3. \A b : b \in Range(vDisconnect(to)) <=>
                    \E i \in 1..(Height[tip] - h) : b = At(tip, Height[tip] - i + 1)
      BY <1>3, <2>1 DEF Range
    <2> QED
      BY <2>2, <2>3
  <1>5. ASSUME NEW c \in up
        PROVE  /\ Prev[c] \in Lineage[to] /\ h <= Height[Prev[c]] /\ Height[Prev[c]] < Height[to]
               /\ c = At(to, Height[Prev[c]] + 1)
    <2>1. PICK i \in 1..(Height[to] - h) : c = At(to, h + i)
      BY <1>4, <1>5
    <2>2. PICK k \in Nat : k = h + i
      BY <1>2
    <2>3. k \in 0..Height[to] /\ k > 0 /\ k - 1 \in 0..Height[to] /\ h <= k - 1 /\ k - 1 < Height[to]
      BY <1>2, <2>2
    <2>4. Prev[c] = At(to, k - 1)
      BY <2>1, <2>2, <2>3, AtHeight
    <2>5. Height[Prev[c]] = k - 1 /\ Prev[c] \in Lineage[to]
      BY <2>3, <2>4, AtHeight
    <2> QED
      BY <2>1, <2>2, <2>3, <2>5
  <1>6. ASSUME NEW x, above(x)
        PROVE  At(to, Height[x] + 1) \in up /\ Prev[At(to, Height[x] + 1)] = x
    <2>1. Height[x] \in Nat
      BY <1>6, LineageClosed, PrevEnds
    <2>2. /\ Height[x] + 1 \in 0..Height[to] /\ Height[x] + 1 > 0 /\ Height[x] \in 0..Height[to]
          /\ (Height[x] + 1) - h \in 1..(Height[to] - h) /\ h + ((Height[x] + 1) - h) = Height[x] + 1
          /\ (Height[x] + 1) - 1 = Height[x]
      BY <1>2, <1>6, <2>1
    <2>3. Prev[At(to, Height[x] + 1)] = At(to, Height[x]) /\ x = At(to, Height[x])
      BY <1>6, <2>2, AtHeight
    <2>4. At(to, Height[x] + 1) \in up
      BY <1>4, <2>2
    <2> QED
      BY <2>3, <2>4
  <1>7. ASSUME NEW x
        PROVE  x \in down <=> cut(x)
    <2>1. ASSUME x \in down PROVE cut(x)
      <3>1. PICK i \in 1..(Height[tip] - h) : x = Prev[At(tip, Height[tip] - i + 1)]
        BY <1>4, <2>1
      <3>2. /\ Height[tip] - i + 1 \in 0..Height[tip] /\ Height[tip] - i + 1 > 0
            /\ (Height[tip] - i + 1) - 1 = Height[tip] - i /\ Height[tip] - i \in 0..Height[tip]
        BY <1>2, <1>3, SMTT(30)
      <3>3. x = At(tip, Height[tip] - i) /\ Height[x] = Height[tip] - i /\ x \in Lineage[tip]
        BY <3>1, <3>2, AtHeight
      <3> QED
        BY <1>2, <1>3, <3>3
    <2>2. ASSUME cut(x) PROVE x \in down
      <3>1. Height[x] \in Nat
        BY <2>2, LineageClosed, PrevEnds
      <3>2. PICK i \in 1..(Height[tip] - h) : i = Height[tip] - Height[x]
        BY <1>2, <1>3, <2>2, <3>1, SMTT(30)
      <3>3. /\ Height[tip] - i + 1 \in 0..Height[tip] /\ Height[tip] - i + 1 > 0
            /\ (Height[tip] - i + 1) - 1 = Height[x] /\ Height[x] \in 0..Height[tip]
        BY <1>2, <1>3, <3>1, <3>2, SMTT(30)
      <3>4. Prev[At(tip, Height[tip] - i + 1)] = At(tip, Height[x]) /\ x = At(tip, Height[x])
        BY <2>2, <3>3, AtHeight
      <3> QED
        BY <1>4, <3>2, <3>4
    <2> QED
      BY <2>1, <2>2
  <1>8. /\ Relinked(to) = [x \in DOMAIN mapBlockIndex |-> Relinked(to)[x]]
        /\ U = [x \in DOMAIN mapBlockIndex |-> U[x]]
    BY DEF Relinked, LinksUp, LinksDown
  <1>9. ASSUME NEW x \in DOMAIN mapBlockIndex
        PROVE  Relinked(to)[x] = U[x]
    <2>1. Relinked(to)[x] = IF \E c \in up : Prev[c] = x THEN CHOOSE c \in up : Prev[c] = x
                            ELSE IF x \in down THEN Null ELSE mapBlockIndex[x]
      BY DEF Relinked
    <2>2. U[x] = IF above(x) THEN At(to, Height[x] + 1)
                 ELSE IF cut(x) THEN Null ELSE mapBlockIndex[x]
      BY DEF LinksUp, LinksDown
    <2> HIDE DEF up, down, U
    <2>3. CASE above(x)
      <3>1. \E c \in up : Prev[c] = x
        BY <1>6, <2>3
      <3>2. \A c \in up : Prev[c] = x => c = At(to, Height[x] + 1)
        BY <1>5
      <3> QED
        BY <2>1, <2>2, <2>3, <3>1, <3>2
    <2>4. CASE ~above(x)
      <3>1. ~\E c \in up : Prev[c] = x
        BY <1>5, <2>4
      <3> QED
        BY <1>7, <2>1, <2>2, <2>4, <3>1
    <2> QED
      BY <2>3, <2>4
  <1> HIDE DEF U
  <1>10. Relinked(to) = U
    BY <1>8, <1>9
  <1> QED
    BY <1>10 DEF U

\* The whole batch: it fails, or it holds the index of the new branch and the
\* links that memory is about to get.
LEMMA ReorganizedIs ==
  ASSUME hashBestChain \in Block, NEW to \in Block, IsIndex(dbTxIndex),
         dbBlockIndex = [x \in DOMAIN dbBlockIndex |-> dbBlockIndex[x]],
         mapBlockIndex = dbBlockIndex
  PROVE  \/ Failed(Reorganized(to))
         \/ \E Z : /\ Reorganized(to) = Batch(Z, Relinked(to))
                   /\ IsIndex(Z)
                   /\ /\ dbTxIndex = IndexOf(hashBestChain) /\ GoodLedger(hashBestChain)
                      /\ Lineage[to] \cap BadContext = {}
                      => Z = IndexOf(to) /\ GoodLedger(to)
  <1> DEFINE tip == hashBestChain
             f == LastCommon(tip, to)
             r == FoldLeft(DisconnectBlock, Batch(dbTxIndex, dbBlockIndex), Reverse(PathUp(f, tip)))
             Y == LinksDown(dbBlockIndex, tip, Height[f])
             U == LinksUp(Y, to, Height[f], Height[to])
             exact == /\ dbTxIndex = IndexOf(tip) /\ GoodLedger(tip)
                      /\ Lineage[to] \cap BadContext = {}
  <1>1. /\ f \in Lineage[tip] /\ f \in Lineage[to] /\ f \in Block
        /\ \A g \in Lineage[tip] \cap Lineage[to] : Height[g] <= Height[f]
    BY LastCommonFacts
  <1>2. Reorganized(to) = FoldLeft(ConnectBlock, r, PathUp(f, to))
    BY DEF Reorganized, vDisconnect, vConnect, TxnBegin, Batch
  <1>3. Relinked(to) = U
    BY RelinkedIs
  <1>4. /\ Failed(r) \/ \E Z : r = Batch(Z, Y) /\ IsIndex(Z)
        /\ exact => r = Batch(IndexOf(f), Y) /\ GoodLedger(f)
    BY <1>1, DisconnectPath
  <1>5. PathUp(f, to) \in Seq(Block)
    BY <1>1, PathUpBlocks
  <1>6. CASE Failed(r)
    BY <1>2, <1>5, <1>6, ConnectFailed
  <1>7. ASSUME NEW X, r = Batch(X, Y), IsIndex(X)
        PROVE  \/ Failed(Reorganized(to))
               \/ \E Z : /\ Reorganized(to) = Batch(Z, U)
                         /\ IsIndex(Z)
                         /\ exact => Z = IndexOf(to) /\ GoodLedger(to)
    <2>1. Y = [x \in DOMAIN Y |-> Y[x]]
      BY DEF LinksDown
    <2>2. ASSUME NEW x \in DOMAIN Y, x \in Lineage[to], Height[x] > Height[f]
          PROVE  Y[x] = mapBlockIndex[x]
      <3>1. x \in Block /\ Height[x] \in Nat /\ Height[f] \in Nat
        BY <1>1, <2>2, LineageClosed, PrevEnds
      <3>2. x \notin Lineage[tip]
        BY <1>1, <2>2, <3>1
      <3>3. x \in DOMAIN dbBlockIndex
        BY DEF LinksDown
      <3> QED
        BY <3>2, <3>3 DEF LinksDown
    <2>3. exact => X = IndexOf(f) /\ GoodLedger(f) /\ Lineage[to] \cap BadContext = {}
      <3> HAVE exact
      <3>1. Batch(X, Y) = Batch(IndexOf(f), Y) /\ GoodLedger(f)
        BY <1>4, <1>7
      <3>2. Batch(X, Y).txindex = X /\ Batch(IndexOf(f), Y).txindex = IndexOf(f)
        BY DEF Batch
      <3> QED
        BY <3>1, <3>2
    <2> HIDE DEF Y, exact, f
    <2>4. \/ Failed(FoldLeft(ConnectBlock, Batch(X, Y), PathUp(f, to)))
          \/ \E Z : /\ FoldLeft(ConnectBlock, Batch(X, Y), PathUp(f, to)) = Batch(Z, U)
                    /\ IsIndex(X) => IsIndex(Z)
                    /\ X = IndexOf(f) /\ GoodLedger(f) /\ Lineage[to] \cap BadContext = {} =>
                            Z = IndexOf(to) /\ GoodLedger(to)
      BY <1>1, <2>1, <2>2, ConnectPath
    <2>5. Reorganized(to) = FoldLeft(ConnectBlock, Batch(X, Y), PathUp(f, to))
      BY <1>2, <1>7
    <2> HIDE DEF U
    <2> QED
      BY <1>7, <2>3, <2>4, <2>5
  <1> HIDE DEF U, exact, r, Y
  <1> QED
    BY <1>3, <1>4, <1>6, <1>7 DEF exact

\* The batch has records of no other transactions than the index had and the
\* blocks being connected have.
LEMMA ReorganizedDomain ==
  ASSUME hashBestChain \in Block, NEW to \in Block, NEW Z, NEW W, Reorganized(to) = Batch(Z, W)
  PROVE  DOMAIN Z \subseteq DOMAIN dbTxIndex \cup UNION {TxsOf(c) : c \in Range(vConnect(to))}
  <1> DEFINE D == DOMAIN dbTxIndex
             U == D \cup UNION {TxsOf(c) : c \in Range(vConnect(to))}
             Good(r, V) == Failed(r) \/ \E X, Y : r = Batch(X, Y) /\ DOMAIN X \subseteq V
             down == vDisconnect(to)
             up == vConnect(to)
             half == FoldLeft(DisconnectBlock, TxnBegin, down)
  <1>1. down \in Seq(Block) /\ up \in Seq(Block)
    BY LastCommonFacts, Paths DEF vDisconnect, vConnect
  <1>2. Good(half, D)
    <2>1. PICK g : /\ g[0] = TxnBegin
                   /\ \A i \in 1..Len(down) : g[i] = DisconnectBlock(g[i - 1], down[i])
                   /\ half = g[Len(down)]
      BY <1>1, FoldDisconnect
    <2> DEFINE S == {i \in Nat : Good(g[i], D)}
    <2>2. 0 \in S
      BY <2>1 DEF TxnBegin, Batch
    <2>3. ASSUME NEW i \in 1..Len(down), i - 1 \in S
          PROVE  i \in S
      <3>1. CASE Failed(g[i - 1])
        BY <2>1, <3>1, FailedStays
      <3>2. ASSUME NEW X, NEW Y, g[i - 1] = Batch(X, Y), DOMAIN X \subseteq D
            PROVE  i \in S
        <4>1. DOMAIN Disconnected(X, down[i]) \subseteq D
          BY <3>2 DEF Disconnected
        <4>2. \/ Failed(g[i])
              \/ g[i] = Batch(Disconnected(X, down[i]), [Y EXCEPT ![Prev[down[i]]] = Null])
          BY <2>1, <3>2, DisconnectStep
        <4> HIDE DEF D, down
        <4>3. Good(g[i], D)
          BY <4>1, <4>2
        <4> QED
          BY <4>3
      <3> QED
        BY <2>3, <3>1, <3>2
    <2> HIDE DEF S
    <2>4. \A i \in 0..Len(down) : i \in S
      <3>1. Len(down) \in Nat
        BY <1>1
      <3> HIDE DEF down
      <3> QED
        BY <2>2, <2>3, <3>1, StepInduction
    <2>5. Len(down) \in S
      BY <1>1, <2>4
    <2> QED
      BY <2>1, <2>5 DEF S
  <1>3. Reorganized(to) = FoldLeft(ConnectBlock, half, up)
    BY DEF Reorganized
  <1> HIDE DEF half
  <1>4. Good(Reorganized(to), U)
    <2>1. PICK g : /\ g[0] = half
                   /\ \A i \in 1..Len(up) : g[i] = ConnectBlock(g[i - 1], up[i])
                   /\ FoldLeft(ConnectBlock, half, up) = g[Len(up)]
      BY <1>1, FoldConnect
    <2> DEFINE S == {i \in Nat : Good(g[i], U)}
    <2>2. 0 \in S
      <3>1. D \subseteq U
        OBVIOUS
      <3> HIDE DEF D, U
      <3>2. \A X : DOMAIN X \subseteq D => DOMAIN X \subseteq U
        BY <3>1
      <3>3. Good(g[0], U)
        BY <1>2, <2>1, <3>2
      <3> HIDE DEF Good
      <3> QED
        BY <3>3
    <2>3. ASSUME NEW i \in 1..Len(up), i - 1 \in S
          PROVE  i \in S
      <3>1. CASE Failed(g[i - 1])
        BY <2>1, <3>1, FailedStays
      <3>2. ASSUME NEW X, NEW Y, g[i - 1] = Batch(X, Y), DOMAIN X \subseteq U
            PROVE  i \in S
        <4>1. TxsOf(up[i]) \subseteq U
          <5>1. up[i] \in Range(up)
            BY <1>1 DEF Range
          <5> QED
            BY <5>1
        <4>2. DOMAIN Connected(X, up[i]) \subseteq U
          BY <3>2, <4>1 DEF Connected
        <4> HIDE DEF U, up
        <4> QED
          BY <2>1, <3>2, <4>2, ConnectStep
      <3> QED
        BY <2>3, <3>1, <3>2
    <2> HIDE DEF S
    <2>4. \A i \in 0..Len(up) : i \in S
      <3>1. Len(up) \in Nat
        BY <1>1
      <3> HIDE DEF up
      <3> QED
        BY <2>2, <2>3, <3>1, StepInduction
    <2>5. Good(g[Len(up)], U)
      BY <1>1, <2>4 DEF S
    <2> HIDE DEF Good
    <2> QED
      BY <1>3, <2>1, <2>5, Zenon
  <1> HIDE DEF U
  <1>5. ~Failed(Batch(Z, W)) /\ Batch(Z, W).txindex = Z
    BY DEF Failed, Batch
  <1>6. PICK X, Y : Batch(Z, W) = Batch(X, Y) /\ DOMAIN X \subseteq U
    BY <1>4, <1>5
  <1>7. Batch(X, Y).txindex = X
    BY DEF Batch
  <1> QED
    BY <1>5, <1>6, <1>7 DEF U

\* The links of a branch: each block to its child, nothing elsewhere.
LinksOf(b, D) ==
    [x \in D |-> IF x \in Lineage[b] /\ x # b THEN At(b, Height[x] + 1) ELSE Null]

\* A reorganisation takes the links of one branch to those of the other.
LEMMA RelinkedFollows ==
  ASSUME hashBestChain \in Block, NEW to \in Block, NEW D, mapBlockIndex = LinksOf(hashBestChain, D)
  PROVE  Relinked(to) = LinksOf(to, D)
  <1> DEFINE tip == hashBestChain
             f == LastCommon(tip, to)
             h == Height[f]
             U == LinksUp(LinksDown(mapBlockIndex, tip, h), to, h, Height[to])
             V == LinksOf(to, D)
  <1>1. f \in Lineage[tip] /\ f \in Lineage[to] /\ f \in Block
    BY LastCommonFacts
  <1>2. Relinked(to) = U
    BY RelinkedIs
  <1>3. /\ \A x \in Lineage[tip] : x \in Block /\ Height[x] \in Nat /\ (x = tip \/ Height[x] < Height[tip])
        /\ \A x \in Lineage[to] : x \in Block /\ Height[x] \in Nat /\ (x = to \/ Height[x] < Height[to])
        /\ h \in Nat /\ Height[tip] \in Nat /\ Height[to] \in Nat /\ h <= Height[tip] /\ h <= Height[to]
    BY <1>1, LineageClosed, LineageOrder, PrevEnds
  <1>4. ASSUME NEW x \in Lineage[f], x # f
        PROVE  /\ x \in Lineage[tip] /\ x \in Lineage[to] /\ Height[x] < h
               /\ At(tip, Height[x] + 1) = At(to, Height[x] + 1)
    <2>1. x \in Lineage[tip] /\ x \in Lineage[to] /\ Height[x] < h
      BY <1>1, <1>4, LineageOrder, LineageTransitive
    <2>2. Height[x] + 1 \in 0..h /\ Height[x] + 1 \in 0..Height[tip] /\ Height[x] + 1 \in 0..Height[to]
      BY <1>3, <2>1
    <2>3. At(f, Height[x] + 1) \in Lineage[f] /\ Height[At(f, Height[x] + 1)] = Height[x] + 1
      BY <1>1, <2>2, AtHeight
    <2>4. At(f, Height[x] + 1) \in Lineage[tip] /\ At(f, Height[x] + 1) \in Lineage[to]
      BY <1>1, <2>3, LineageTransitive
    <2> QED
      BY <2>1, <2>2, <2>3, <2>4, AtHeight
  <1>5. /\ \A x \in Lineage[tip] : Height[x] <= h <=> x \in Lineage[f]
        /\ \A x \in Lineage[to] : Height[x] <= h <=> x \in Lineage[f]
    BY <1>1, BelowFork
  <1>6. U = [x \in D |-> U[x]] /\ V = [x \in D |-> V[x]]
    BY DEF LinksUp, LinksDown, LinksOf
  <1>7. ASSUME NEW x \in D
        PROVE  U[x] = V[x]
    <2>1. U[x] = IF x \in Lineage[to] /\ h <= Height[x] /\ Height[x] < Height[to]
                 THEN At(to, Height[x] + 1)
                 ELSE IF x \in Lineage[tip] /\ h <= Height[x] /\ Height[x] < Height[tip]
                      THEN Null
                      ELSE IF x \in Lineage[tip] /\ x # tip THEN At(tip, Height[x] + 1) ELSE Null
      BY DEF LinksUp, LinksDown, LinksOf
    <2>2. V[x] = IF x \in Lineage[to] /\ x # to THEN At(to, Height[x] + 1) ELSE Null
      BY DEF LinksOf
    <2> HIDE DEF U, V
    <2>3. CASE x \in Lineage[to] /\ x # to
      <3>1. Height[x] < Height[to] /\ Height[x] \in Nat
        BY <1>3, <2>3
      <3>2. CASE h <= Height[x]
        BY <2>1, <2>2, <2>3, <3>1, <3>2
      <3>3. CASE ~(h <= Height[x])
        <4>1. x \in Lineage[f] /\ x # f
          BY <1>3, <1>5, <2>3, <3>1, <3>3
        <4>2. x \in Lineage[tip] /\ x # tip /\ At(tip, Height[x] + 1) = At(to, Height[x] + 1)
          BY <1>3, <1>4, <3>1, <4>1
        <4> QED
          BY <2>1, <2>2, <2>3, <3>3, <4>2
      <3> QED
        BY <3>2, <3>3
    <2>4. CASE ~(x \in Lineage[to] /\ x # to)
      <3>1. ~(x \in Lineage[to] /\ h <= Height[x] /\ Height[x] < Height[to])
        BY <1>3, <2>4
      <3>2. CASE x \in Lineage[tip] /\ x # tip /\ ~(h <= Height[x])
        <4>1. x \in Lineage[f] /\ x # f
          BY <1>3, <1>5, <3>2
        <4>2. x \in Lineage[to] /\ x # to
          BY <1>3, <1>4, <4>1
        <4> QED
          BY <2>4, <4>2
      <3>3. CASE x \in Lineage[tip] /\ x # tip /\ h <= Height[x]
        BY <1>3, <2>1, <2>2, <2>4, <3>1, <3>3
      <3>4. CASE ~(x \in Lineage[tip] /\ x # tip)
        BY <2>1, <2>2, <2>4, <3>1, <3>4
      <3> QED
        BY <3>2, <3>3, <3>4
    <2> QED
      BY <2>3, <2>4
  <1> HIDE DEF U, V
  <1>8. U = V
    BY <1>6, <1>7
  <1> QED
    BY <1>2, <1>8 DEF V

-----------------------------------------------------------------------------
(* Nothing but the rules of the ledger stands in the way of a block.        *)

\* A branch below a sound one is sound.
LEMMA AncestorsGood ==
  ASSUME NEW b \in Block, GoodLedger(b), NEW a \in Lineage[b]
  PROVE  GoodLedger(a) /\ a \in Block
  <1>1. a \in Block /\ Lineage[a] \subseteq Lineage[b]
    BY LineageClosed, LineageTransitive
  <1>2. Ledger(a) \subseteq Ledger(b)
    BY <1>1 DEF Ledger
  <1>3. SoundLedger(a)
    BY <1>2 DEF GoodLedger, SoundLedger
  <1> QED
    BY <1>1, <1>3 DEF GoodLedger

\* The inputs of the last block of a sound ledger connect.
LEMMA SoundConnects ==
  ASSUME NEW b \in Block, Prev[b] # Null, GoodLedger(b)
  PROVE  InputsConnect(IndexOf(Prev[b]), b)
  <1> DEFINE p == Prev[b]
             idx == IndexOf(p)
  <1>1. /\ p \in Block /\ Ledger(b) = Ledger(p) \cup {b} /\ b \notin Ledger(p) /\ b \in Ledger(b)
        /\ Ledger(p) \subseteq Block
    BY LedgerFacts
  <1>2. GoodLedger(p)
    BY DisconnectExact
  <1>3. \A t \in TxsOf(b) : t \notin DOMAIN idx
    <2> SUFFICES ASSUME NEW t \in TxsOf(b), t \in DOMAIN idx PROVE FALSE
      OBVIOUS
    <2>1. PICK c \in Ledger(p) : t \in TxsOf(c)
      BY <1>1, IndexOfDomain
    <2> QED
      BY <1>1, <2>1, OneBlockPerTx
  <1>4. ASSUME NEW i \in DOMAIN Vtx[b], NEW o \in Vin[Vtx[b][i]]
        PROVE  /\ InputFound(idx, Earlier(b, i), o)
               /\ o[1] \in Generated =>
                     ~Immature(IF o[1] \in Earlier(b, i) THEN b ELSE idx[o[1]].pos, b)
               /\ \A s \in Earlier(b, i) : o \notin Vin[s]
               /\ o[1] \notin Earlier(b, i) => idx[o[1]].vSpent[o[2]] = Null
    <2>1. /\ o = <<o[1], o[2]>> /\ o[2] \in Nat /\ Vout[o[1]] \in Nat /\ i \in Nat
          /\ DOMAIN Vtx[b] = 1..Len(Vtx[b]) /\ Len(Vtx[b]) \in Nat
      BY <1>4, BlockTxs
    <2>2. /\ o[2] < Vout[o[1]]
          /\ \A d \in Ledger(b) : \A j \in DOMAIN Vtx[d] :
                o \in Vin[Vtx[d][j]] => <<d, j>> = <<b, i>>
      BY <1>1, <1>4 DEF GoodLedger, SoundLedger
    <2>3. PICK d \in Ledger(b) : \E j \in DOMAIN Vtx[d] :
             /\ Vtx[d][j] = o[1]
             /\ d = b => j < i
             /\ o[1] \in Generated => Height[b] - Height[d] >= Maturity
      BY <1>1, <1>4 DEF GoodLedger, SoundLedger
    <2>4. PICK j \in DOMAIN Vtx[d] :
             /\ Vtx[d][j] = o[1]
             /\ d = b => j < i
             /\ o[1] \in Generated => Height[b] - Height[d] >= Maturity
      BY <2>3
    <2>5. d \in Block /\ o[1] \in TxsOf(d)
      BY <1>1, <2>4, BlockTxs
    <2>6. o[1] \in Earlier(b, i) <=> d = b
      <3>1. CASE d = b
        <4>1. j \in 1..(i - 1)
          BY <2>1, <2>4, <3>1
        <4> QED
          BY <2>4, <3>1, <4>1 DEF Earlier
      <3>2. CASE d # b
        <4> SUFFICES ASSUME o[1] \in Earlier(b, i) PROVE FALSE
          BY <3>2
        <4>1. PICK k \in 1..(i - 1) : o[1] = Vtx[b][k]
          BY DEF Earlier
        <4>2. o[1] \in TxsOf(b)
          <5>1. k \in DOMAIN Vtx[b]
            BY <2>1
          <5> QED
            BY <4>1, <5>1, BlockTxs
        <4> QED
          BY <1>1, <2>5, <3>2, <4>2, OneBlockPerTx
      <3> QED
        BY <3>1, <3>2
    <2>7. d # b => d \in Ledger(p) /\ o[1] \in DOMAIN idx /\ idx[o[1]].pos = d
      BY <1>1, <1>2, <2>5, IndexOfPos
    <2>8. InputFound(idx, Earlier(b, i), o)
      BY <2>2, <2>6, <2>7 DEF InputFound
    <2>9. o[1] \in Generated => ~Immature(IF o[1] \in Earlier(b, i) THEN b ELSE idx[o[1]].pos, b)
      <3> SUFFICES ASSUME o[1] \in Generated PROVE ~Immature(d, b)
        BY <2>6, <2>7
      <3>1. Height[b] - Height[d] >= Maturity
        BY <2>4
      <3>2. Height[b] \in Nat /\ Height[d] \in Nat /\ Maturity \in Nat
        BY <2>5, PrevEnds, Transactions
      <3> QED
        BY <3>1, <3>2 DEF Immature
    <2>10. \A s \in Earlier(b, i) : o \notin Vin[s]
      <3> SUFFICES ASSUME NEW k \in 1..(i - 1), o \in Vin[Vtx[b][k]] PROVE FALSE
        BY DEF Earlier
      <3>1. k \in DOMAIN Vtx[b] /\ k # i
        BY <2>1
      <3> QED
        BY <1>1, <2>2, <3>1
    <2>11. o[1] \notin Earlier(b, i) => idx[o[1]].vSpent[o[2]] = Null
      <3> HAVE o[1] \notin Earlier(b, i)
      <3>1. o[1] \in DOMAIN idx
        BY <2>6, <2>7
      <3>2. o[2] \in 0..(Vout[o[1]] - 1)
        BY <2>1, <2>2
      <3>3. \A e \in Ledger(p) : <<o[1], o[2]>> \notin Spends(e)
        <4> SUFFICES ASSUME NEW e \in Ledger(p), o \in Spends(e) PROVE FALSE
          BY <2>1
        <4>1. e \in Block /\ e \in Ledger(b) /\ e # b
          BY <1>1
        <4>2. PICK k \in DOMAIN Vtx[e] : o \in Vin[Vtx[e][k]]
          BY <4>1, BlockTxs
        <4> QED
          BY <2>2, <4>1, <4>2
      <3> QED
        BY <1>1, <3>1, <3>2, <3>3, IndexOfUnspent
    <2> QED
      BY <2>8, <2>9, <2>10, <2>11
  <1>5. \A i \in DOMAIN Vtx[b] : ~OverwritesUnspent(idx, Vtx[b][i])
    BY <1>3, BlockTxs DEF OverwritesUnspent
  <1> QED
    BY <1>4, <1>5 DEF InputsConnect, TxConnects

\* Nothing refuses b but, perhaps, its inputs.
ChecksPass(b) == CheckBlock(b) /\ RewardAllowed(b) /\ b \notin BadConnect

\* A block of a sound ledger connects to the index of its parent.
LEMMA ConnectBlockSucceeds ==
  ASSUME NEW b \in Block, Prev[b] # Null, GoodLedger(b), ChecksPass(b), NEW Y
  PROVE  ConnectBlock(Batch(IndexOf(Prev[b]), Y), b) = Batch(IndexOf(b), SetLink(Y, b))
  <1>1. InputsConnect(IndexOf(Prev[b]), b)
    BY SoundConnects
  <1>2. GoodLedger(Prev[b]) /\ b \notin BadContext
    BY DisconnectExact, LineageClosed DEF GoodLedger
  <1>3. Connected(IndexOf(Prev[b]), b) = IndexOf(b)
    BY <1>1, <1>2, ConnectExact
  <1> DEFINE X == IndexOf(Prev[b])
  <1>4. InputsConnect(X, b) /\ Connected(X, b) = IndexOf(b)
    BY <1>1, <1>3
  <1> HIDE DEF X
  <1>5. ConnectBlock(Batch(X, Y), b) = Batch(Connected(X, b), SetLink(Y, b))
    BY <1>4 DEF ConnectBlock, Batch, SetLink, ChecksPass
  <1> QED
    BY <1>4, <1>5 DEF X

\* So does every block of the path to a block with a sound ledger.
LEMMA ConnectPathSucceeds ==
  ASSUME NEW to \in Block, NEW f \in Lineage[to], GoodLedger(to), NEW Y,
         \A a \in Lineage[to] : a \in Lineage[f] \/ ChecksPass(a)
  PROVE  \E L : FoldLeft(ConnectBlock, Batch(IndexOf(f), Y), PathUp(f, to)) = Batch(IndexOf(to), L)
  <1> DEFINE n == Height[to] - Height[f]
             seq == PathUp(f, to)
             X == IndexOf(f)
             c(i) == At(to, Height[f] + i)
             Good(r, i) == \E L : r = Batch(IndexOf(c(i)), L)
  <1>1. /\ n \in Nat /\ Height[f] \in Nat /\ Height[to] \in Nat
        /\ seq \in Seq(Block) /\ Len(seq) = n
        /\ \A i \in 1..n : seq[i] = c(i)
    BY Paths
  <1>2. PICK g : /\ g[0] = Batch(X, Y)
                 /\ \A i \in 1..n : g[i] = ConnectBlock(g[i - 1], seq[i])
                 /\ FoldLeft(ConnectBlock, Batch(X, Y), seq) = g[n]
    <2>1. PICK g : /\ g[0] = Batch(X, Y)
                   /\ \A i \in 1..Len(seq) : g[i] = ConnectBlock(g[i - 1], seq[i])
                   /\ FoldLeft(ConnectBlock, Batch(X, Y), seq) = g[Len(seq)]
      <3> HIDE DEF seq, X
      <3> QED
        BY <1>1, FoldConnect
    <2> QED
      BY <1>1, <2>1
  <1>3. Good(g[0], 0)
    <2>1. c(0) = f
      BY <1>1, AtHeight
    <2> HIDE DEF c
    <2> QED
      BY <1>2, <2>1
  <1>4. ASSUME NEW i \in 1..n, Good(g[i - 1], i - 1)
        PROVE  Good(g[i], i)
    <2> DEFINE b == seq[i]
    <2>1. PICK k \in Nat : k = Height[f] + i
      BY <1>1
    <2>2. k \in 0..Height[to] /\ k > 0 /\ k - 1 = Height[f] + (i - 1)
      BY <1>1, <2>1
    <2>3. b = At(to, k) /\ c(i) = At(to, k) /\ c(i - 1) = At(to, k - 1)
      BY <1>1, <2>1, <2>2
    <2>4. b \in Block /\ b \in Lineage[to] /\ Prev[b] = At(to, k - 1) /\ Prev[b] # Null
      BY <2>2, <2>3, AtHeight
    <2>5. GoodLedger(b) /\ ChecksPass(b)
      <3>1. Height[b] = k /\ ~(Height[b] <= Height[f])
        BY <1>1, <2>1, <2>2, <2>3, AtHeight
      <3>2. b \notin Lineage[f]
        BY <2>4, <3>1, BelowFork
      <3> QED
        BY <2>4, <3>2, AncestorsGood
    <2>6. g[i] = ConnectBlock(g[i - 1], b)
      BY <1>2
    <2>7. PICK L : g[i - 1] = Batch(IndexOf(Prev[b]), L)
      BY <1>4, <2>3, <2>4
    <2> HIDE DEF b, c
    <2>8. g[i] = Batch(IndexOf(b), SetLink(L, b))
      <3>1. ConnectBlock(Batch(IndexOf(Prev[b]), L), b) = Batch(IndexOf(b), SetLink(L, b))
        BY <2>4, <2>5, ConnectBlockSucceeds
      <3> QED
        BY <2>6, <2>7, <3>1
    <2> QED
      BY <2>3, <2>8
  <1>5. Good(g[n], n)
    <2> HIDE DEF Good
    <2> DEFINE S == {i \in Nat : Good(g[i], i)}
    <2>1. 0 \in S /\ \A i \in 1..n : i - 1 \in S => i \in S
      BY <1>1, <1>3, <1>4
    <2> HIDE DEF S
    <2> HIDE DEF n
    <2>2. \A i \in 0..n : i \in S
      BY <1>1, <2>1, StepInduction
    <2>3. n \in S
      BY <1>1, <2>2
    <2> QED
      BY <2>3 DEF S
  <1>6. Height[f] + n = Height[to]
    BY <1>1
  <1>7. c(n) = to
    <2>1. Height[to] \in 0..Height[to]
      BY <1>1
    <2>2. At(to, Height[to]) = to
      BY <2>1, AtHeight, LineageClosed
    <2> QED
      BY <1>6, <2>2
  <1> HIDE DEF c, n
  <1> QED
    BY <1>2, <1>5, <1>7

\* A reorganisation to a sound branch succeeds.
LEMMA ReorganizeSucceeds ==
  ASSUME hashBestChain \in Block, NEW to \in Block, IsIndex(dbTxIndex),
         dbTxIndex = IndexOf(hashBestChain), GoodLedger(hashBestChain),
         dbBlockIndex = [x \in DOMAIN dbBlockIndex |-> dbBlockIndex[x]],
         GoodLedger(to), \A a \in Lineage[to] : a \in Lineage[hashBestChain] \/ ChecksPass(a)
  PROVE  ~Failed(Reorganized(to))
  <1> DEFINE tip == hashBestChain
             f == LastCommon(tip, to)
             Y == LinksDown(dbBlockIndex, tip, Height[f])
             r == FoldLeft(DisconnectBlock, Batch(dbTxIndex, dbBlockIndex), Reverse(PathUp(f, tip)))
  <1>1. f \in Lineage[tip] /\ f \in Lineage[to]
    BY LastCommonFacts
  <1>2. r = Batch(IndexOf(f), Y)
    BY <1>1, DisconnectPath
  <1>3. Reorganized(to) = FoldLeft(ConnectBlock, r, PathUp(f, to))
    BY DEF Reorganized, vDisconnect, vConnect, TxnBegin, Batch
  <1>4. \A a \in Lineage[to] : a \in Lineage[f] \/ ChecksPass(a)
    BY <1>1, LastCommonFacts, BelowFork
  <1> HIDE DEF f, Y, r
  <1>5. \E L : FoldLeft(ConnectBlock, Batch(IndexOf(f), Y), PathUp(f, to)) = Batch(IndexOf(to), L)
    BY <1>1, <1>4, ConnectPathSucceeds
  <1>6. PICK L : Reorganized(to) = Batch(IndexOf(to), L)
    BY <1>2, <1>3, <1>5
  <1> QED
    BY <1>6 DEF Failed, Batch

-----------------------------------------------------------------------------
(* The block index, in memory and on disk.                                  *)

\* The records are of blocks, and a transaction record has its shape.
StoreTypes ==
    /\ blkFile \subseteq Block
    /\ dbBlockIndex = [x \in DOMAIN dbBlockIndex |-> dbBlockIndex[x]]
    /\ DOMAIN dbBlockIndex \subseteq Block
    /\ IsIndex(dbTxIndex)
    /\ mapLockedInputs \subseteq Lockable /\ tooNew \subseteq Future

\* AcceptBlock has let every indexed block through, its parent before it.
IndexClosed ==
    \A b \in DOMAIN dbBlockIndex :
        b \notin BadContext /\ (Prev[b] # Null => Prev[b] \in DOMAIN dbBlockIndex)

TipsIndexed ==
    /\ dbHashBest \in DOMAIN dbBlockIndex \cup {Null}
    /\ hashBestChain \in DOMAIN dbBlockIndex \cup {Null}

\* Memory has what a restart would load.
Mirrored ==
    /\ Alive => mapBlockIndex = dbBlockIndex
    /\ ~Alive => mapBlockIndex = EmptyIndex /\ hashBestChain = Null /\ mapOrphanBlocks = {}

\* The block at hand is not indexed before AddToBlockIndex, and is after it.
AtWork ==
    /\ pc = "AddToBlockIndex" =>
          /\ pblock \notin DOMAIN dbBlockIndex /\ pblock \notin BadContext
          /\ Prev[pblock] # Null => Prev[pblock] \in DOMAIN dbBlockIndex
    /\ pc \in {"SetBestChain", "ConnectPostponed"} => pblock \in DOMAIN dbBlockIndex

\* Orphans are not indexed, but for the one that is just being taken in.
OrphansApart ==
    /\ mapOrphanBlocks \subseteq Block
    /\ \A b \in mapOrphanBlocks : b \in DOMAIN dbBlockIndex =>
          b = pblock /\ pc \in {"SetBestChain", "ConnectPostponed"}
    /\ pc \in {"AddToBlockIndex", "SetBestChain", "ConnectPostponed"} /\ caller # "orphan" =>
          pblock \notin mapOrphanBlocks

\* The queued blocks were accepted.
QueueIndexed ==
    /\ vWorkQueue \in Seq(Block)
    /\ \A i \in 1..Len(vWorkQueue) : vWorkQueue[i] \in DOMAIN dbBlockIndex

IndexInv ==
    /\ StoreTypes /\ IndexClosed /\ TipsIndexed /\ Mirrored /\ AtWork
    /\ OrphansApart /\ QueueIndexed

\* Nothing is indexed before the first start.
LEMMA IndexInvInit == Init => IndexInv
  <1> SUFFICES ASSUME Init PROVE IndexInv
    OBVIOUS
  <1>1. DOMAIN EmptyIndex = {} /\ EmptyIndex = [x \in DOMAIN EmptyIndex |-> EmptyIndex[x]]
    BY DEF EmptyIndex
  <1>2. IsIndex(EmptyIndex)
    BY <1>1 DEF IsIndex
  <1>3. StoreTypes
    BY <1>1, <1>2 DEF Init, StoreTypes
  <1>4. IndexClosed /\ TipsIndexed /\ Mirrored /\ AtWork /\ OrphansApart
    BY <1>1 DEF Init, IndexClosed, TipsIndexed, Mirrored, AtWork, OrphansApart, Alive
  <1>5. QueueIndexed
    BY DEF Init, QueueIndexed
  <1> QED
    BY <1>3, <1>4, <1>5 DEF IndexInv

\* With an indexed block all its ancestors are indexed.
LEMMA LineageIndexed ==
  ASSUME IndexInv, NEW b \in DOMAIN dbBlockIndex
  PROVE  b \in Block /\ Lineage[b] \subseteq DOMAIN dbBlockIndex /\ Lineage[b] \cap BadContext = {}
  <1>1. b \in Block /\ DOMAIN dbBlockIndex \in SUBSET Block
    BY DEF IndexInv, StoreTypes
  <1>2. \A s \in DOMAIN dbBlockIndex : Prev[s] # Null => Prev[s] \in DOMAIN dbBlockIndex
    BY DEF IndexInv, IndexClosed
  <1>3. Lineage[b] \subseteq DOMAIN dbBlockIndex
    BY <1>1, <1>2, LineageInduction
  <1> QED
    BY <1>1, <1>3 DEF IndexInv, IndexClosed

\* Steps that change neither index nor tip nor position.
LEMMA QuietKeepsIndex ==
  ASSUME IndexInv, UNCHANGED <<disk, mapBlockIndex, hashBestChain, pc, frame>>,
         mapLockedInputs' \subseteq Lockable, tooNew' \subseteq Future,
         mapOrphanBlocks' \subseteq Block, ~Alive => mapOrphanBlocks' = {},
         \A b \in mapOrphanBlocks' : b \in mapOrphanBlocks \/ (b \notin DOMAIN dbBlockIndex /\ b # pblock)
  PROVE  IndexInv'
  <1>1. StoreTypes' /\ IndexClosed' /\ TipsIndexed' /\ Mirrored' /\ AtWork'
    BY DEF IndexInv, StoreTypes, IndexClosed, TipsIndexed, Mirrored, AtWork, Alive, disk, frame
  <1>2. OrphansApart'
    BY DEF IndexInv, OrphansApart, disk, frame
  <1>3. QueueIndexed'
    BY DEF IndexInv, QueueIndexed, disk, frame
  <1> QED
    BY <1>1, <1>2, <1>3 DEF IndexInv

\* The end of a call of AcceptBlock, when the block is indexed.
LEMMA ReturnKeepsQueue ==
  ASSUME ChainInv, IndexInv, pc \in {"AddToBlockIndex", "SetBestChain", "ConnectPostponed"},
         NEW accepted, Return(accepted),
         DOMAIN dbBlockIndex' = DOMAIN dbBlockIndex \cup {pblock}
  PROVE  AtWork' /\ OrphansApart' /\ QueueIndexed' /\ pc' \in {"idle", "orphans"} /\ Alive'
  <1>1. caller \in {"load", "new", "orphan"} /\ pblock \in Block
    BY DEF ChainInv, ProgramTypes
  <1>2. pc' \in {"idle", "orphans"}
    BY <1>1, Returns
  <1>3. AtWork' /\ Alive'
    BY <1>2 DEF AtWork, Alive
  <1>4. \/ caller = "orphan" /\ mapOrphanBlocks' = mapOrphanBlocks \ {pblock}
        \/ caller # "orphan" /\ mapOrphanBlocks' = mapOrphanBlocks
    BY <1>1 DEF Return, orphan
  <1>5. OrphansApart'
    <2>1. \A b \in mapOrphanBlocks' : b \in mapOrphanBlocks /\ b # pblock
      BY <1>4 DEF IndexInv, OrphansApart
    <2>2. \A b \in mapOrphanBlocks' : b \notin DOMAIN dbBlockIndex'
      BY <2>1 DEF IndexInv, OrphansApart
    <2> QED
      BY <1>2, <2>1, <2>2 DEF IndexInv, OrphansApart
  <1>6. \/ vWorkQueue' = vWorkQueue
        \/ vWorkQueue' = <<pblock>>
        \/ vWorkQueue' = <<>>
        \/ vWorkQueue' = Append(vWorkQueue, pblock)
    BY <1>1 DEF Return
  <1>7. QueueIndexed'
    <2>1. vWorkQueue \in Seq(Block) /\ \A i \in 1..Len(vWorkQueue) : vWorkQueue[i] \in DOMAIN dbBlockIndex
      BY DEF IndexInv, QueueIndexed
    <2>2. CASE vWorkQueue' = vWorkQueue
      BY <2>1, <2>2 DEF QueueIndexed
    <2>3. CASE vWorkQueue' = <<pblock>>
      BY <1>1, <2>3 DEF QueueIndexed
    <2>4. CASE vWorkQueue' = <<>>
      BY <2>4 DEF QueueIndexed
    <2>5. CASE vWorkQueue' = Append(vWorkQueue, pblock)
      <3>1. Append(vWorkQueue, pblock) \in Seq(Block) /\ Len(Append(vWorkQueue, pblock)) = Len(vWorkQueue) + 1
        BY <1>1, <2>1
      <3>2. \A i \in 1..(Len(vWorkQueue) + 1) :
              Append(vWorkQueue, pblock)[i] = IF i \in 1..Len(vWorkQueue) THEN vWorkQueue[i] ELSE pblock
        BY <1>1, <2>1
      <3> QED
        BY <2>1, <2>5, <3>1, <3>2 DEF QueueIndexed
    <2> QED
      BY <1>6, <2>2, <2>3, <2>4, <2>5
  <1> QED
    BY <1>2, <1>3, <1>5, <1>7

\* AcceptBlock's write to the block file.
LEMMA WriteKeepsIndex ==
  ASSUME IndexInv, ChainInv, NEW b \in Block, NEW from \in {"load", "new", "orphan"}, WriteToDisk(b, from),
         b \notin DOMAIN dbBlockIndex, b \notin BadContext,
         Prev[b] # Null => Prev[b] \in DOMAIN dbBlockIndex,
         from # "orphan" => b \notin mapOrphanBlocks,
         \/ pc \in {"idle", "orphans"}
         \/ pc = "down" /\ DOMAIN dbBlockIndex = {}
  PROVE  IndexInv'
  <1>1. StoreTypes' /\ IndexClosed' /\ TipsIndexed' /\ AtWork'
    BY DEF IndexInv, StoreTypes, IndexClosed, TipsIndexed, AtWork, WriteToDisk, env
  <1>2. mapBlockIndex' = dbBlockIndex'
    <2>1. CASE pc \in {"idle", "orphans"}
      BY <2>1 DEF IndexInv, Mirrored, Alive, WriteToDisk
    <2>2. CASE pc = "down" /\ DOMAIN dbBlockIndex = {}
      <3>1. mapBlockIndex = EmptyIndex
        BY <2>2 DEF IndexInv, Mirrored, Alive
      <3>2. dbBlockIndex = EmptyIndex
        BY <2>2 DEF IndexInv, StoreTypes, EmptyIndex
      <3> QED
        BY <3>1, <3>2 DEF WriteToDisk
    <2> QED
      BY <2>1, <2>2
  <1>3. Mirrored'
    BY <1>2 DEF Mirrored, Alive, WriteToDisk
  <1>4. OrphansApart'
    BY DEF IndexInv, OrphansApart, WriteToDisk, orphan
  <1>5. QueueIndexed'
    BY DEF IndexInv, QueueIndexed, WriteToDisk
  <1> QED
    BY <1>1, <1>3, <1>4, <1>5 DEF IndexInv

\* The batch of AddToBlockIndex.
LEMMA AddKeepsIndex ==
  ASSUME IndexInv, ChainInv, AddToBlockIndex
  PROVE  IndexInv'
  <1>1. /\ pc = "AddToBlockIndex" /\ pblock \in Block /\ mapBlockIndex = dbBlockIndex
        /\ pblock \notin DOMAIN dbBlockIndex
        /\ blkFile' = blkFile /\ dbTxIndex' = dbTxIndex /\ dbHashBest' = dbHashBest
        /\ hashBestChain' = hashBestChain /\ mapLockedInputs' = mapLockedInputs /\ tooNew' = tooNew
        /\ dbBlockIndex' = [c \in DOMAIN dbBlockIndex \cup {pblock} |->
                               IF c = pblock THEN Null ELSE dbBlockIndex[c]]
        /\ mapBlockIndex' = dbBlockIndex'
    BY DEF IndexInv, ChainInv, ProgramTypes, Mirrored, AtWork, Alive, AddToBlockIndex, env
  <1>2. DOMAIN dbBlockIndex' = DOMAIN dbBlockIndex \cup {pblock}
    BY <1>1
  <1>3. StoreTypes'
    BY <1>1 DEF IndexInv, StoreTypes
  <1>4. IndexClosed' /\ TipsIndexed'
    BY <1>1, <1>2 DEF IndexInv, IndexClosed, TipsIndexed, AtWork
  <1>5. CASE BetterThanTip(pblock)
    <2>1. /\ pc' = "SetBestChain" /\ pblock' = pblock /\ caller' = caller /\ vWorkQueue' = vWorkQueue
          /\ mapOrphanBlocks' = mapOrphanBlocks
      BY <1>5 DEF AddToBlockIndex, frame, orphan
    <2>2. Mirrored' /\ AtWork'
      BY <1>1, <1>2, <2>1 DEF Mirrored, AtWork, Alive
    <2>3. OrphansApart' /\ QueueIndexed'
      BY <1>1, <1>2, <2>1 DEF IndexInv, OrphansApart, QueueIndexed
    <2> QED
      BY <1>3, <1>4, <2>2, <2>3 DEF IndexInv
  <1>6. CASE ~BetterThanTip(pblock)
    <2>1. AtWork' /\ OrphansApart' /\ QueueIndexed' /\ Alive'
      BY <1>1, <1>2, <1>6, ReturnKeepsQueue DEF AddToBlockIndex
    <2> QED
      BY <1>1, <1>3, <1>4, <2>1 DEF IndexInv, Mirrored
  <1> QED
    BY <1>5, <1>6

-----------------------------------------------------------------------------
(* What the steps of SetBestChain do, memory being in step with the disk.   *)

\* A batch begins with what is on disk.
LEMMA TxnBeginIs == TxnBegin = Batch(dbTxIndex, dbBlockIndex)
  BY DEF TxnBegin, Batch

\* The fields of a batch.
LEMMA BatchFields ==
  ASSUME NEW X, NEW Y
  PROVE  Batch(X, Y).ok = TRUE /\ Batch(X, Y).txindex = X /\ Batch(X, Y).blockindex = Y
  BY DEF Batch

\* A commit writes the batch.
LEMMA CommitIs ==
  ASSUME NEW Z, NEW L, NEW best, Commit(Batch(Z, L), best), L = [x \in DOMAIN dbBlockIndex |-> L[x]]
  PROVE  dbTxIndex' = Z /\ dbBlockIndex' = L /\ dbHashBest' = best /\ blkFile' = blkFile
  <1>1. /\ dbTxIndex' = Z /\ dbHashBest' = best /\ blkFile' = blkFile
        /\ dbBlockIndex' = [x \in DOMAIN dbBlockIndex |-> L[x]]
    <2>1. Batch(Z, L).txindex = Z /\ Batch(Z, L).blockindex = L
      BY DEF Batch
    <2> QED
      BY <2>1 DEF Commit
  <1> QED
    BY <1>1

\* Connecting one block on top of the tip on disk, in a batch of its own.
ConnectedOne(b) ==
    /\ InputsConnect(dbTxIndex, b)
    /\ dbTxIndex' = Connected(dbTxIndex, b)
    /\ dbBlockIndex' = [dbBlockIndex EXCEPT ![Prev[b]] = b]
    /\ mapBlockIndex' = dbBlockIndex'
    /\ dbHashBest' = b /\ blkFile' = blkFile

\* A batch of one block that is committed.
LEMMA CommitOne ==
  ASSUME IndexInv, mapBlockIndex = dbBlockIndex, NEW b \in DOMAIN dbBlockIndex,
         ConnectBlock(TxnBegin, b).ok, Commit(ConnectBlock(TxnBegin, b), b),
         mapBlockIndex' = [mapBlockIndex EXCEPT ![Prev[b]] = b]
  PROVE  ConnectedOne(b)
  <1> DEFINE L == SetLink(dbBlockIndex, b)
  <1>1. ~Failed(ConnectBlock(TxnBegin, b))
    BY DEF Failed
  <1>2. /\ InputsConnect(dbTxIndex, b)
        /\ ConnectBlock(TxnBegin, b) = Batch(Connected(dbTxIndex, b), L)
    BY <1>1, TxnBeginIs, ConnectStep
  <1>3. dbBlockIndex = [x \in DOMAIN dbBlockIndex |-> dbBlockIndex[x]]
    BY DEF IndexInv, StoreTypes
  <1>4. L = [dbBlockIndex EXCEPT ![Prev[b]] = b]
    BY <1>3 DEF SetLink
  <1>5. L = [x \in DOMAIN dbBlockIndex |-> L[x]]
    BY <1>4
  <1> HIDE DEF L
  <1>6. /\ dbTxIndex' = Connected(dbTxIndex, b) /\ dbBlockIndex' = L /\ dbHashBest' = b
        /\ blkFile' = blkFile
    BY <1>2, <1>5, CommitIs
  <1> QED
    BY <1>2, <1>4, <1>6 DEF ConnectedOne

\* ExtendTip: the block fails and nothing on disk changes, or disk and memory
\* move to it together.
LEMMA ExtendEffect ==
  ASSUME ChainInv, IndexInv, ExtendTip
  PROVE  /\ pc = "SetBestChain" /\ pblock \in DOMAIN dbBlockIndex /\ pblock \in Block
         /\ Prev[pblock] = hashBestChain /\ hashBestChain # Null
         /\ UNCHANGED env
         /\ \/ /\ ~ConnectBlock(TxnBegin, pblock).ok
               /\ Return(FALSE) /\ UNCHANGED <<disk, mapBlockIndex, hashBestChain>>
            \/ Return(TRUE) /\ ConnectedOne(pblock) /\ hashBestChain' = pblock
  <1> DEFINE batch == ConnectBlock(TxnBegin, pblock)
  <1>1. /\ pc = "SetBestChain" /\ Prev[pblock] = hashBestChain /\ hashBestChain # Null
        /\ UNCHANGED env /\ Return(batch.ok)
        /\ IF batch.ok
           THEN /\ Commit(batch, pblock)
                /\ mapBlockIndex' = [mapBlockIndex EXCEPT ![hashBestChain] = pblock]
                /\ hashBestChain' = pblock
           ELSE UNCHANGED <<disk, mapBlockIndex, hashBestChain>>
    BY DEF ExtendTip
  <1>2. pblock \in DOMAIN dbBlockIndex /\ mapBlockIndex = dbBlockIndex /\ pblock \in Block
    BY <1>1 DEF IndexInv, AtWork, Mirrored, Alive, ChainInv, ProgramTypes
  <1>3. batch.ok \in BOOLEAN
    <2>1. CASE Failed(batch)
      BY <2>1 DEF Failed
    <2>2. CASE ~Failed(batch)
      <3>1. PICK X, Y : batch = Batch(X, Y)
        BY <2>2, TxnBeginIs, ConnectStep
      <3>2. Batch(X, Y).ok = TRUE
        BY BatchFields
      <3> HIDE DEF batch
      <3> QED
        BY <3>1, <3>2, Zenon
    <2> QED
      BY <2>1, <2>2
  <1> HIDE DEF batch
  <1>4. CASE batch.ok = FALSE
    BY <1>1, <1>2, <1>4 DEF batch
  <1>5. CASE batch.ok = TRUE
    <2>1. ConnectedOne(pblock)
      BY <1>1, <1>2, <1>5, CommitOne DEF batch
    <2> QED
      BY <1>1, <1>2, <1>5, <2>1
  <1> QED
    BY <1>3, <1>4, <1>5

\* The branch Reorganize goes to.
ReorganizedTo(to) ==
    /\ IsIndex(dbTxIndex')
    /\ dbTxIndex = IndexOf(hashBestChain) /\ GoodLedger(hashBestChain) =>
          dbTxIndex' = IndexOf(to) /\ GoodLedger(to)
    /\ DOMAIN dbTxIndex' \subseteq DOMAIN dbTxIndex \cup UNION {TxsOf(c) : c \in Range(vConnect(to))}
    /\ dbBlockIndex' = Relinked(to)
    /\ mapBlockIndex' = dbBlockIndex'
    /\ dbHashBest' = to /\ blkFile' = blkFile

\* Reorganize: the batch fails and nothing changes, or disk and memory move to
\* the block below the postponed ones.
LEMMA ReorganizeEffect ==
  ASSUME ChainInv, IndexInv, Reorganize
  PROVE  /\ pc = "SetBestChain" /\ pblock \in DOMAIN dbBlockIndex /\ pblock \in Block
         /\ hashBestChain \in Block /\ UNCHANGED env
         /\ \E to \in Lineage[pblock] :
               \/ /\ to \in pindexIntermediate /\ ~Reorganized(to).ok
                  /\ Return(FALSE) /\ UNCHANGED <<disk, mapBlockIndex, hashBestChain>>
               \/ /\ to \in pindexIntermediate /\ ReorganizedTo(to)
                  /\ \/ to = pblock /\ hashBestChain' = pblock /\ Return(TRUE)
                     \/ /\ to # pblock /\ pc' = "ConnectPostponed"
                        /\ UNCHANGED <<hashBestChain, orphan, caller, pblock, vWorkQueue>>
  <1>1. /\ pc = "SetBestChain" /\ hashBestChain \in Block /\ pblock \in Block
        /\ pblock \in DOMAIN dbBlockIndex /\ mapBlockIndex = dbBlockIndex
        /\ UNCHANGED env
    BY DEF IndexInv, AtWork, Mirrored, Alive, ChainInv, ProgramTypes, Reorganize
  <1>2. PICK to \in pindexIntermediate :
             LET batch == Reorganized(to) IN
             \/ /\ ~batch.ok
                /\ Return(FALSE)
                /\ UNCHANGED <<disk, mapBlockIndex, hashBestChain>>
             \/ /\ batch.ok
                /\ Commit(batch, to)
                /\ mapBlockIndex' = Relinked(to)
                /\ IF to = pblock
                   THEN NewBest
                   ELSE /\ pc' = "ConnectPostponed"
                        /\ UNCHANGED <<hashBestChain, orphan, caller, pblock, vWorkQueue>>
    BY DEF Reorganize
  <1>3. to \in Lineage[pblock]
    BY DEF pindexIntermediate
  <1>4. to \in DOMAIN dbBlockIndex /\ to \in Block /\ Lineage[to] \cap BadContext = {}
    BY <1>1, <1>3, LineageIndexed
  <1>5. CASE ~Reorganized(to).ok
    BY <1>1, <1>2, <1>3, <1>5
  <1>6. CASE Reorganized(to).ok
    <2>1. ~Failed(Reorganized(to))
      BY <1>6 DEF Failed
    <2>2. IsIndex(dbTxIndex) /\ dbBlockIndex = [x \in DOMAIN dbBlockIndex |-> dbBlockIndex[x]]
      BY DEF IndexInv, StoreTypes
    <2>3. PICK Z : /\ Reorganized(to) = Batch(Z, Relinked(to))
                   /\ IsIndex(Z)
                   /\ /\ dbTxIndex = IndexOf(hashBestChain) /\ GoodLedger(hashBestChain)
                      /\ Lineage[to] \cap BadContext = {}
                      => Z = IndexOf(to) /\ GoodLedger(to)
      BY <1>1, <1>4, <2>1, <2>2, ReorganizedIs
    <2>4. Relinked(to) = [x \in DOMAIN dbBlockIndex |-> Relinked(to)[x]]
      BY <1>1 DEF Relinked
    <2>5. Commit(Batch(Z, Relinked(to)), to) /\ mapBlockIndex' = Relinked(to)
      BY <1>2, <1>6, <2>3
    <2>6. dbTxIndex' = Z /\ dbBlockIndex' = Relinked(to) /\ dbHashBest' = to /\ blkFile' = blkFile
      BY <2>4, <2>5, CommitIs
    <2>7. DOMAIN Z \subseteq DOMAIN dbTxIndex \cup UNION {TxsOf(c) : c \in Range(vConnect(to))}
      BY <1>1, <1>4, <2>3, ReorganizedDomain
    <2>8. ReorganizedTo(to)
      BY <1>4, <2>3, <2>5, <2>6, <2>7 DEF ReorganizedTo
    <2> QED
      BY <1>1, <1>2, <1>3, <1>6, <2>8 DEF NewBest
  <1> QED
    BY <1>5, <1>6

\* ConnectPostponed: the next postponed block is connected on disk, or fails.
LEMMA PostponedEffect ==
  ASSUME ChainInv, IndexInv, ConnectPostponed
  PROVE  /\ pc = "ConnectPostponed" /\ pblock \in DOMAIN dbBlockIndex /\ pblock \in Block /\ UNCHANGED env
         /\ \E b \in Lineage[pblock] :
               /\ b \in DOMAIN dbBlockIndex /\ b \in Block /\ Prev[b] = dbHashBest /\ Prev[b] # Null
               /\ b = Head(vpindexSecondary)
               /\ \/ /\ ~ConnectBlock(TxnBegin, b).ok
                     /\ UNCHANGED <<disk, mapBlockIndex>> /\ hashBestChain' = pblock /\ Return(TRUE)
                  \/ /\ ConnectedOne(b)
                     /\ \/ b = pblock /\ hashBestChain' = pblock /\ Return(TRUE)
                        \/ b # pblock /\ UNCHANGED <<hashBestChain, orphan, pc, caller, pblock, vWorkQueue>>
  <1> DEFINE b == Head(vpindexSecondary)
  <1>1. /\ pc = "ConnectPostponed" /\ pblock \in Block
        /\ dbHashBest \in Lineage[pblock] /\ dbHashBest # pblock
        /\ vpindexSecondary = PathUp(dbHashBest, pblock)
        /\ pblock \in DOMAIN dbBlockIndex /\ mapBlockIndex = dbBlockIndex
        /\ UNCHANGED env
    BY DEF ChainInv, ProgramTypes, TrustOrder, IndexInv, AtWork, Mirrored, Alive, ConnectPostponed
  <1>2. b \in Lineage[pblock] /\ Prev[b] = dbHashBest
    BY <1>1, PathUpStep
  <1>3. b \in DOMAIN dbBlockIndex /\ b \in Block /\ Prev[b] # Null
    BY <1>1, <1>2, LineageIndexed, LineageClosed, BlockTree
  <1>4. LET batch == ConnectBlock(TxnBegin, b) IN
        /\ IF batch.ok
           THEN Commit(batch, b) /\ mapBlockIndex' = [mapBlockIndex EXCEPT ![Prev[b]] = b]
           ELSE UNCHANGED <<disk, mapBlockIndex>>
        /\ IF batch.ok /\ b # pblock
           THEN UNCHANGED <<hashBestChain, orphan, pc, caller, pblock, vWorkQueue>>
           ELSE NewBest
    BY DEF ConnectPostponed
  <1> HIDE DEF b
  <1>5. CASE ConnectBlock(TxnBegin, b).ok
    <2>1. ConnectedOne(b)
      BY <1>1, <1>3, <1>4, <1>5, CommitOne
    <2> QED
      BY <1>1, <1>2, <1>3, <1>4, <1>5, <2>1 DEF NewBest, b
  <1>6. CASE ~ConnectBlock(TxnBegin, b).ok
    BY <1>1, <1>2, <1>3, <1>4, <1>6 DEF NewBest, b
  <1> QED
    BY <1>5, <1>6

-----------------------------------------------------------------------------
(* They keep the index.                                                     *)

\* A step that writes links and records of blocks that are indexed.
LEMMA BatchKeepsIndex ==
  ASSUME IndexInv, Alive, UNCHANGED env,
         dbBlockIndex' = [x \in DOMAIN dbBlockIndex |-> dbBlockIndex'[x]],
         mapBlockIndex' = dbBlockIndex', blkFile' = blkFile, IsIndex(dbTxIndex'),
         dbHashBest' \in DOMAIN dbBlockIndex \cup {Null},
         hashBestChain' \in DOMAIN dbBlockIndex \cup {Null},
         Alive', AtWork', OrphansApart', QueueIndexed'
  PROVE  IndexInv'
  <1>1. DOMAIN dbBlockIndex' = DOMAIN dbBlockIndex
    BY Zenon
  <1>2. StoreTypes' /\ IndexClosed' /\ TipsIndexed' /\ Mirrored'
    BY <1>1 DEF IndexInv, StoreTypes, IndexClosed, TipsIndexed, Mirrored, env
  <1> QED
    BY <1>2 DEF IndexInv

\* What follows when the block at hand stays where it is.
LEMMA StayKeepsQueue ==
  ASSUME IndexInv, pc \in {"SetBestChain", "ConnectPostponed"}, pc' \in {"SetBestChain", "ConnectPostponed"},
         UNCHANGED <<orphan, caller, pblock, vWorkQueue>>, DOMAIN dbBlockIndex' = DOMAIN dbBlockIndex
  PROVE  Alive' /\ AtWork' /\ OrphansApart' /\ QueueIndexed'
  <1>1. Alive' /\ AtWork' /\ OrphansApart'
    BY DEF IndexInv, AtWork, OrphansApart, Alive, orphan
  <1>2. QueueIndexed'
    BY DEF IndexInv, QueueIndexed
  <1> QED
    BY <1>1, <1>2

\* One block connected.
LEMMA OneKeepsIndex ==
  ASSUME IndexInv, NEW b \in Block, b \in DOMAIN dbBlockIndex, ConnectedOne(b)
  PROVE  /\ DOMAIN dbBlockIndex' = DOMAIN dbBlockIndex
         /\ dbBlockIndex' = [x \in DOMAIN dbBlockIndex |-> dbBlockIndex'[x]]
         /\ IsIndex(dbTxIndex') /\ dbHashBest' \in DOMAIN dbBlockIndex
  <1>1. dbBlockIndex' = [dbBlockIndex EXCEPT ![Prev[b]] = b] /\ dbHashBest' = b
    BY DEF ConnectedOne
  <1>2. IsIndex(dbTxIndex')
    BY IndexConnected DEF ConnectedOne, IndexInv, StoreTypes
  <1> QED
    BY <1>1, <1>2

\* ExtendTip.
LEMMA ExtendKeepsIndex ==
  ASSUME ChainInv, IndexInv, ExtendTip
  PROVE  IndexInv'
  <1>1. /\ pc = "SetBestChain" /\ pblock \in DOMAIN dbBlockIndex /\ pblock \in Block /\ UNCHANGED env
        /\ \/ Return(FALSE) /\ UNCHANGED <<disk, mapBlockIndex, hashBestChain>>
           \/ Return(TRUE) /\ ConnectedOne(pblock) /\ hashBestChain' = pblock
    BY ExtendEffect
  <1>2. Alive
    BY <1>1 DEF Alive
  <1>3. /\ DOMAIN dbBlockIndex' = DOMAIN dbBlockIndex
        /\ dbBlockIndex' = [x \in DOMAIN dbBlockIndex |-> dbBlockIndex'[x]]
        /\ mapBlockIndex' = dbBlockIndex' /\ blkFile' = blkFile /\ IsIndex(dbTxIndex')
        /\ dbHashBest' \in DOMAIN dbBlockIndex \cup {Null}
        /\ hashBestChain' \in DOMAIN dbBlockIndex \cup {Null}
    <2>1. CASE UNCHANGED <<disk, mapBlockIndex, hashBestChain>>
      BY <1>2, <2>1 DEF IndexInv, StoreTypes, TipsIndexed, Mirrored, disk
    <2>2. CASE ConnectedOne(pblock) /\ hashBestChain' = pblock
      BY <1>1, <2>2, OneKeepsIndex DEF ConnectedOne
    <2> QED
      BY <1>1, <2>1, <2>2
  <1>4. Alive' /\ AtWork' /\ OrphansApart' /\ QueueIndexed'
    <2>1. DOMAIN dbBlockIndex' = DOMAIN dbBlockIndex \cup {pblock}
      BY <1>1, <1>3
    <2> QED
      BY <1>1, <2>1, ReturnKeepsQueue
  <1> QED
    BY <1>1, <1>2, <1>3, <1>4, BatchKeepsIndex

\* Reorganize.
LEMMA ReorganizeKeepsIndex ==
  ASSUME ChainInv, IndexInv, Reorganize
  PROVE  IndexInv'
  <1>1. /\ pc = "SetBestChain" /\ pblock \in DOMAIN dbBlockIndex /\ pblock \in Block
        /\ hashBestChain \in Block /\ UNCHANGED env
    BY ReorganizeEffect
  <1>2. PICK to \in Lineage[pblock] :
               \/ Return(FALSE) /\ UNCHANGED <<disk, mapBlockIndex, hashBestChain>>
               \/ /\ ReorganizedTo(to)
                  /\ \/ to = pblock /\ hashBestChain' = pblock /\ Return(TRUE)
                     \/ /\ to # pblock /\ pc' = "ConnectPostponed"
                        /\ UNCHANGED <<hashBestChain, orphan, caller, pblock, vWorkQueue>>
    BY ReorganizeEffect
  <1>3. Alive /\ to \in DOMAIN dbBlockIndex
    BY <1>1, LineageIndexed DEF Alive
  <1>4. /\ dbBlockIndex' = [x \in DOMAIN dbBlockIndex |-> dbBlockIndex'[x]]
        /\ DOMAIN dbBlockIndex' = DOMAIN dbBlockIndex
        /\ mapBlockIndex' = dbBlockIndex' /\ blkFile' = blkFile /\ IsIndex(dbTxIndex')
        /\ dbHashBest' \in DOMAIN dbBlockIndex \cup {Null}
        /\ hashBestChain' \in DOMAIN dbBlockIndex \cup {Null}
    <2>1. CASE UNCHANGED <<disk, mapBlockIndex, hashBestChain>>
      BY <1>3, <2>1 DEF IndexInv, StoreTypes, TipsIndexed, Mirrored, disk
    <2>2. CASE ReorganizedTo(to) /\ (hashBestChain' = pblock \/ hashBestChain' = hashBestChain)
      <3>1. DOMAIN mapBlockIndex = DOMAIN dbBlockIndex
        BY <1>3 DEF IndexInv, Mirrored
      <3>2. dbBlockIndex' = Relinked(to)
        BY <2>2 DEF ReorganizedTo
      <3>3. Relinked(to) = [x \in DOMAIN dbBlockIndex |-> Relinked(to)[x]] /\ DOMAIN Relinked(to) = DOMAIN dbBlockIndex
        BY <3>1 DEF Relinked
      <3>4. dbBlockIndex' = [x \in DOMAIN dbBlockIndex |-> dbBlockIndex'[x]] /\ DOMAIN dbBlockIndex' = DOMAIN dbBlockIndex
        BY <3>2, <3>3
      <3> QED
        BY <1>1, <1>3, <2>2, <3>4 DEF ReorganizedTo, IndexInv, TipsIndexed
    <2> QED
      BY <1>2, <2>1, <2>2
  <1>5. Alive' /\ AtWork' /\ OrphansApart' /\ QueueIndexed'
    <2>1. DOMAIN dbBlockIndex' = DOMAIN dbBlockIndex \cup {pblock}
      BY <1>1, <1>4
    <2>2. ASSUME NEW accepted, Return(accepted)
          PROVE  Alive' /\ AtWork' /\ OrphansApart' /\ QueueIndexed'
      BY <1>1, <2>1, <2>2, ReturnKeepsQueue
    <2>3. CASE pc' = "ConnectPostponed" /\ UNCHANGED <<hashBestChain, orphan, caller, pblock, vWorkQueue>>
      BY <1>1, <1>4, <2>3, StayKeepsQueue
    <2> QED
      BY <1>2, <2>2, <2>3
  <1> QED
    BY <1>1, <1>3, <1>4, <1>5, BatchKeepsIndex

\* ConnectPostponed.
LEMMA PostponedKeepsIndex ==
  ASSUME ChainInv, IndexInv, ConnectPostponed
  PROVE  IndexInv'
  <1>1. pc = "ConnectPostponed" /\ pblock \in DOMAIN dbBlockIndex /\ pblock \in Block /\ UNCHANGED env
    BY PostponedEffect
  <1>2. PICK b \in Lineage[pblock] :
               /\ b \in DOMAIN dbBlockIndex /\ b \in Block
               /\ \/ UNCHANGED <<disk, mapBlockIndex>> /\ hashBestChain' = pblock /\ Return(TRUE)
                  \/ /\ ConnectedOne(b)
                     /\ \/ b = pblock /\ hashBestChain' = pblock /\ Return(TRUE)
                        \/ b # pblock /\ UNCHANGED <<hashBestChain, orphan, pc, caller, pblock, vWorkQueue>>
    BY PostponedEffect
  <1>3. Alive
    BY <1>1 DEF Alive
  <1>4. /\ dbBlockIndex' = [x \in DOMAIN dbBlockIndex |-> dbBlockIndex'[x]]
        /\ DOMAIN dbBlockIndex' = DOMAIN dbBlockIndex
        /\ mapBlockIndex' = dbBlockIndex' /\ blkFile' = blkFile /\ IsIndex(dbTxIndex')
        /\ dbHashBest' \in DOMAIN dbBlockIndex \cup {Null}
    <2>1. CASE UNCHANGED <<disk, mapBlockIndex>>
      BY <1>3, <2>1 DEF IndexInv, StoreTypes, TipsIndexed, Mirrored, disk
    <2>2. CASE ConnectedOne(b)
      BY <1>2, <2>2, OneKeepsIndex DEF ConnectedOne
    <2> QED
      BY <1>2, <2>1, <2>2
  <1>5. hashBestChain' \in DOMAIN dbBlockIndex \cup {Null}
    BY <1>1, <1>2 DEF IndexInv, TipsIndexed
  <1>6. Alive' /\ AtWork' /\ OrphansApart' /\ QueueIndexed'
    <2>1. DOMAIN dbBlockIndex' = DOMAIN dbBlockIndex \cup {pblock}
      BY <1>1, <1>4
    <2>2. CASE Return(TRUE)
      BY <1>1, <2>1, <2>2, ReturnKeepsQueue
    <2>3. CASE UNCHANGED <<hashBestChain, orphan, pc, caller, pblock, vWorkQueue>>
      BY <1>1, <1>4, <2>3, StayKeepsQueue
    <2> QED
      BY <1>2, <2>2, <2>3
  <1> QED
    BY <1>1, <1>3, <1>4, <1>5, <1>6, BatchKeepsIndex

\* SetGenesis.
LEMMA GenesisKeepsIndex ==
  ASSUME ChainInv, IndexInv, SetGenesis
  PROVE  IndexInv'
  <1>1. /\ pc = "SetBestChain" /\ Alive /\ pblock = Genesis /\ pblock \in DOMAIN dbBlockIndex
        /\ dbHashBest' = Genesis /\ hashBestChain' = Genesis /\ UNCHANGED env
        /\ blkFile' = blkFile /\ dbBlockIndex' = dbBlockIndex /\ dbTxIndex' = dbTxIndex
        /\ mapBlockIndex' = mapBlockIndex /\ Return(TRUE)
    BY DEF SetGenesis, IndexInv, AtWork, Alive
  <1>2. /\ dbBlockIndex' = [x \in DOMAIN dbBlockIndex |-> dbBlockIndex'[x]]
        /\ mapBlockIndex' = dbBlockIndex' /\ IsIndex(dbTxIndex')
        /\ DOMAIN dbBlockIndex' = DOMAIN dbBlockIndex \cup {pblock}
    BY <1>1 DEF IndexInv, StoreTypes, Mirrored
  <1>3. Alive' /\ AtWork' /\ OrphansApart' /\ QueueIndexed'
    BY <1>1, <1>2, ReturnKeepsQueue
  <1> QED
    BY <1>1, <1>2, <1>3, BatchKeepsIndex

\* Every step keeps the index.
LEMMA IndexInvInductive ==
  ASSUME ChainInv, IndexInv, [Next]_vars
  PROVE  IndexInv'
  <1> USE DEF Alive
  <1>1. CASE UNCHANGED vars
    BY <1>1, QuietKeepsIndex DEF vars, env, orphan, IndexInv, OrphansApart, StoreTypes, Mirrored
  <1>2. ASSUME NEW b \in Block, HoldOrphan(b)
        PROVE  IndexInv'
    <2>1. /\ pc = "idle" /\ b \notin DOMAIN dbBlockIndex /\ b \notin mapOrphanBlocks
          /\ UNCHANGED <<disk, mapBlockIndex, hashBestChain, pc, frame>>
          /\ mapLockedInputs' \subseteq Lockable /\ tooNew' \subseteq Future
      BY <1>2 DEF HoldOrphan, Admissible, IndexInv, Mirrored, StoreTypes, env
    <2>2. \A c \in mapOrphanBlocks' : c \in mapOrphanBlocks \/ c = b
      BY <1>2 DEF HoldOrphan
    <2>3. mapOrphanBlocks \subseteq Block
      BY DEF IndexInv, OrphansApart
    <2>4. OrphansApart'
      <3>1. pc' = "idle" /\ dbBlockIndex' = dbBlockIndex
        BY <2>1 DEF disk
      <3>2. \A c \in mapOrphanBlocks : c \notin DOMAIN dbBlockIndex
        BY <2>1 DEF IndexInv, OrphansApart
      <3> QED
        BY <2>1, <2>2, <2>3, <3>1, <3>2 DEF OrphansApart
    <2>5. StoreTypes' /\ IndexClosed' /\ TipsIndexed' /\ Mirrored' /\ AtWork'
      BY <2>1 DEF IndexInv, StoreTypes, IndexClosed, TipsIndexed, Mirrored, AtWork, disk, frame
    <2>6. QueueIndexed'
      BY <2>1 DEF IndexInv, QueueIndexed, disk, frame
    <2> QED
      BY <2>4, <2>5, <2>6 DEF IndexInv
  <1>3. ASSUME NEW b \in Block, AcceptBlock(b)
        PROVE  IndexInv'
    <2>1. /\ pc = "idle" /\ b \notin DOMAIN dbBlockIndex /\ b \notin mapOrphanBlocks
          /\ Prev[b] \in DOMAIN dbBlockIndex /\ b \notin BadContext /\ WriteToDisk(b, "new")
      BY <1>3 DEF AcceptBlock, Admissible, IndexInv, Mirrored
    <2> QED
      BY <2>1, WriteKeepsIndex
  <1>4. ASSUME NEW b \in Block, AcceptOrphan(b)
        PROVE  IndexInv'
    <2>1. pc = "orphans" /\ vWorkQueue # <<>> /\ b \in mapOrphanBlocks /\ Prev[b] = Head(vWorkQueue)
      BY <1>4 DEF AcceptOrphan
    <2>2. CASE b \in BadContext
      BY <1>4, <2>1, <2>2, QuietKeepsIndex DEF AcceptOrphan, env, IndexInv, OrphansApart, StoreTypes
    <2>3. CASE b \notin BadContext
      <3>1. Head(vWorkQueue) \in DOMAIN dbBlockIndex
        BY <2>1 DEF IndexInv, QueueIndexed
      <3>2. b \notin DOMAIN dbBlockIndex
        BY <2>1 DEF IndexInv, OrphansApart
      <3> QED
        BY <1>4, <2>1, <2>3, <3>1, <3>2, WriteKeepsIndex DEF AcceptOrphan
    <2> QED
      BY <2>2, <2>3
  <1>5. CASE AddToBlockIndex
    BY <1>5, AddKeepsIndex
  <1>6. CASE SetBestChain
    BY <1>6, GenesisKeepsIndex, ExtendKeepsIndex, ReorganizeKeepsIndex, PostponedKeepsIndex
    DEF SetBestChain
  <1>7. CASE NextInQueue
    <2>1. /\ pc = "orphans" /\ pc' \in {"orphans", "idle"}
          /\ UNCHANGED <<disk, mapBlockIndex, hashBestChain, orphan, env, caller, pblock>>
      BY <1>7 DEF NextInQueue
    <2>2. StoreTypes' /\ IndexClosed' /\ TipsIndexed' /\ Mirrored' /\ AtWork' /\ OrphansApart'
      BY <2>1 DEF IndexInv, StoreTypes, IndexClosed, TipsIndexed, Mirrored, AtWork, OrphansApart,
                  disk, orphan, env
    <2>3. vWorkQueue' = vWorkQueue \/ (vWorkQueue # <<>> /\ vWorkQueue' = Tail(vWorkQueue))
      BY <1>7 DEF NextInQueue
    <2>4. QueueIndexed'
      <3>1. dbBlockIndex' = dbBlockIndex
        BY <2>1 DEF disk
      <3>2. vWorkQueue \in Seq(Block) /\ \A i \in 1..Len(vWorkQueue) : vWorkQueue[i] \in DOMAIN dbBlockIndex
        BY DEF IndexInv, QueueIndexed
      <3>3. CASE vWorkQueue' = vWorkQueue
        BY <3>1, <3>2, <3>3 DEF QueueIndexed
      <3>4. CASE vWorkQueue # <<>> /\ vWorkQueue' = Tail(vWorkQueue)
        <4>1. /\ Tail(vWorkQueue) \in Seq(Block) /\ Len(Tail(vWorkQueue)) = Len(vWorkQueue) - 1
              /\ \A i \in 1..(Len(vWorkQueue) - 1) : Tail(vWorkQueue)[i] = vWorkQueue[i + 1]
          BY <3>2, <3>4, HeadTailProperties
        <4> QED
          BY <3>1, <3>2, <3>4, <4>1 DEF QueueIndexed
      <3> QED
        BY <2>3, <3>3, <3>4
    <2> QED
      BY <2>2, <2>4 DEF IndexInv
  <1>8. CASE Crash
    <2>1. /\ UNCHANGED <<disk, tooNew>> /\ pc' = "down" /\ vWorkQueue' = <<>>
          /\ mapBlockIndex' = EmptyIndex /\ hashBestChain' = Null /\ mapOrphanBlocks' = {}
          /\ mapLockedInputs' = {}
      BY <1>8 DEF Crash
    <2>2. StoreTypes' /\ IndexClosed' /\ TipsIndexed' /\ Mirrored' /\ AtWork' /\ OrphansApart'
      BY <2>1 DEF IndexInv, StoreTypes, IndexClosed, TipsIndexed, Mirrored, AtWork, OrphansApart, disk
    <2>3. QueueIndexed'
      BY <2>1 DEF QueueIndexed
    <2> QED
      BY <2>2, <2>3 DEF IndexInv
  <1>9. CASE LoadEmpty
    <2>1. Genesis \in Block /\ Genesis \notin BadContext /\ Prev[Genesis] = Null
      BY BlockTree, ChainConstants
    <2>2. mapOrphanBlocks = {}
      BY <1>9 DEF LoadEmpty, IndexInv, Mirrored
    <2> QED
      BY <1>9, <2>1, <2>2, WriteKeepsIndex DEF LoadEmpty
  <1>10. CASE LoadFails
    <2>1. /\ pc = "down" /\ pc' = "unbootable"
          /\ UNCHANGED <<disk, mapBlockIndex, hashBestChain, orphan, env, frame>>
      BY <1>10 DEF LoadFails
    <2>2. StoreTypes' /\ IndexClosed' /\ TipsIndexed' /\ Mirrored' /\ AtWork' /\ OrphansApart'
      BY <2>1 DEF IndexInv, StoreTypes, IndexClosed, TipsIndexed, Mirrored, AtWork, OrphansApart,
                  disk, orphan, env, frame
    <2>3. QueueIndexed'
      BY <2>1 DEF IndexInv, QueueIndexed, disk, frame
    <2> QED
      BY <2>2, <2>3 DEF IndexInv
  <1>11. CASE LoadBlockIndex
    <2> DEFINE bad == {b \in Lineage[dbHashBest] : Prev[b] # Null /\ b \in tooNew}
    <2>1. /\ pc = "down" /\ dbHashBest \in DOMAIN dbBlockIndex /\ mapOrphanBlocks = {}
          /\ mapBlockIndex' = dbBlockIndex /\ hashBestChain' = dbHashBest
          /\ UNCHANGED <<disk, orphan, env, caller, vWorkQueue>>
      BY <1>11 DEF LoadBlockIndex, IndexInv, TipsIndexed, Mirrored
    <2>2. \/ pc' = "idle"
          \/ pc' = "SetBestChain" /\ \E b \in bad : pblock' = Prev[b]
      BY <1>11 DEF LoadBlockIndex
    <2>3. \A b \in bad : Prev[b] \in DOMAIN dbBlockIndex
      BY <2>1, LineageIndexed DEF IndexInv, IndexClosed
    <2>4. StoreTypes' /\ IndexClosed' /\ TipsIndexed' /\ Mirrored'
      BY <2>1, <2>2 DEF IndexInv, StoreTypes, IndexClosed, TipsIndexed, Mirrored, disk, orphan, env
    <2>5. AtWork' /\ OrphansApart'
      BY <2>1, <2>2, <2>3 DEF AtWork, OrphansApart, disk, orphan
    <2>6. QueueIndexed'
      BY <2>1 DEF IndexInv, QueueIndexed, disk
    <2> QED
      BY <2>4, <2>5, <2>6 DEF IndexInv
  <1>12. ASSUME NEW l \in Lockable, LockInput(l) \/ UnlockInput(l)
         PROVE  IndexInv'
    BY <1>12, QuietKeepsIndex DEF LockInput, UnlockInput, orphan, IndexInv, OrphansApart, StoreTypes, Mirrored
  <1>13. CASE ClockChange
    BY <1>13, QuietKeepsIndex DEF ClockChange, orphan, IndexInv, OrphansApart, StoreTypes, Mirrored
  <1> QED
    BY <1>1, <1>2, <1>3, <1>4, <1>5, <1>6, <1>7, <1>8, <1>9, <1>10, <1>11, <1>12, <1>13
    DEF Next, ProcessBlock, Load

\* The types of the chain: every step of ProcessBlock, SetBestChain, Reorganize
\* and LoadBlockIndex keeps the records, pointers, queues and the program counter
\* what they are declared to be, for every block tree.
THEOREM ChainTypes == Spec => []TypeOK
  <1>1. ChainInv /\ IndexInv => TypeOK
    <2> SUFFICES ASSUME ChainInv, IndexInv PROVE TypeOK
      OBVIOUS
    <2>1. DOMAIN EmptyIndex = {}
      BY DEF EmptyIndex
    <2>2. DOMAIN mapBlockIndex \subseteq DOMAIN dbBlockIndex /\ hashBestChain \in DOMAIN mapBlockIndex \cup {Null}
      BY <2>1 DEF IndexInv, Mirrored, TipsIndexed
    <2>3. mapOrphanBlocks \subseteq (Block \ DOMAIN mapBlockIndex) \cup {pblock}
      BY <2>2 DEF IndexInv, OrphansApart
    <2> QED
      BY <2>2, <2>3 DEF TypeOK, ChainInv, ProgramTypes, IndexInv, StoreTypes
  <1> QED
    BY <1>1, ChainInvInit, ChainInvInductive, IndexInvInit, IndexInvInductive, PTL DEF Spec

\* The pnext pointers in memory are, after every step, the hashNext records on
\* disk: Reorganize writes the one in a batch and the other in a second pass, and
\* a step that fails changes neither.
THEOREM MemoryMirrorsDisk == Spec => []LinksMirrored
  <1>1. IndexInv => LinksMirrored
    BY DEF IndexInv, Mirrored, LinksMirrored, Alive
  <1> QED
    BY <1>1, ChainInvInit, ChainInvInductive, IndexInvInit, IndexInvInductive, PTL DEF Spec

-----------------------------------------------------------------------------
(* The transaction index and the links say what the best chain says.        *)

\* Nothing is recorded before the genesis block is the tip.
NothingYet ==
    dbTxIndex = EmptyIndex /\ \A x \in DOMAIN dbBlockIndex : dbBlockIndex[x] = Null

\* The records are those the branch that ends in b determines.
RecordsOf(b) ==
    /\ dbTxIndex = IndexOf(b) /\ GoodLedger(b)
    /\ dbBlockIndex = LinksOf(b, DOMAIN dbBlockIndex)

\* A block that is being added meets in memory the tip that is on disk.
ExactInv ==
    /\ dbHashBest = Null => NothingYet
    /\ dbHashBest # Null => RecordsOf(dbHashBest)
    /\ pc \in {"AddToBlockIndex", "SetBestChain"} => hashBestChain = dbHashBest

\* The genesis block is never connected: its index has no record, its ledger
\* is sound.
LEMMA GenesisRecords ==
  /\ IndexOf(Genesis) = EmptyIndex /\ GoodLedger(Genesis)
  /\ \A D : LinksOf(Genesis, D) = [x \in D |-> Null]
  <1>1. Genesis \in Block /\ Genesis \notin BadContext /\ Ledger(Genesis) = {}
    BY BlockTree, ChainConstants, LedgerFacts
  <1>2. Lineage[Genesis] = {Genesis}
    BY <1>1, LineageClosed DEF Ledger
  <1>3. IndexOf(Genesis) = EmptyIndex
    <2>1. UNION {TxsOf(c) : c \in Ledger(Genesis)} = {}
      BY <1>1
    <2>2. DOMAIN IndexOf(Genesis) = {} /\ IndexOf(Genesis) = [t \in DOMAIN IndexOf(Genesis) |-> IndexOf(Genesis)[t]]
      BY <2>1 DEF IndexOf
    <2> QED
      BY <2>2 DEF EmptyIndex
  <1>4. GoodLedger(Genesis)
    BY <1>1, <1>2 DEF GoodLedger, SoundLedger
  <1>5. \A D : LinksOf(Genesis, D) = [x \in D |-> Null]
    BY <1>2 DEF LinksOf
  <1> QED
    BY <1>3, <1>4, <1>5

\* The links of a child are those of its parent and one more.
LEMMA LinksOfChild ==
  ASSUME NEW b \in Block, Prev[b] # Null, NEW D, Prev[b] \in D
  PROVE  [LinksOf(Prev[b], D) EXCEPT ![Prev[b]] = b] = LinksOf(b, D)
  <1> DEFINE p == Prev[b]
             A == LinksOf(p, D)
             B == LinksOf(b, D)
  <1>1. /\ p \in Block /\ Lineage[b] = Lineage[p] \cup {b} /\ b \notin Lineage[p]
        /\ Height[b] = Height[p] + 1 /\ Height[p] \in Nat /\ Height[b] \in Nat
    BY LineageOfChild, PrevEnds
  <1>2. p \in Lineage[p] /\ p # b
    BY <1>1, LineageClosed
  <1>3. DOMAIN A = D /\ DOMAIN B = D /\ B = [x \in D |-> B[x]]
    BY DEF LinksOf
  <1>4. ASSUME NEW x \in D
        PROVE  B[x] = IF x = p THEN b ELSE A[x]
    <2>1. CASE x = p
      <3>1. B[x] = At(b, Height[b])
        BY <1>1, <1>2, <2>1 DEF LinksOf
      <3>2. At(b, Height[b]) = b
        <4>1. Height[b] \in 0..Height[b]
          BY <1>1
        <4> QED
          BY <4>1, AtHeight, LineageClosed
      <3> QED
        BY <2>1, <3>1, <3>2
    <2>2. CASE x # p /\ x \in Lineage[p]
      <3>1. /\ x \in Block /\ Height[x] \in Nat /\ Height[x] < Height[p] /\ x # b /\ x \in Lineage[b]
        BY <1>1, <2>2, LineageClosed, LineageOrder, PrevEnds
      <3>2. PICK k \in Nat : k = Height[x] + 1
        BY <3>1
      <3>3. k \in 0..Height[p] /\ k \in 0..Height[b]
        BY <1>1, <3>1, <3>2
      <3>4. At(p, k) \in Lineage[p] /\ Height[At(p, k)] = k
        BY <1>1, <3>3, AtHeight
      <3>5. At(b, k) = At(p, k)
        BY <1>1, <3>3, <3>4, AtHeight
      <3>6. B[x] = At(b, k) /\ A[x] = At(p, k)
        BY <2>2, <3>1, <3>2 DEF LinksOf
      <3> QED
        BY <2>2, <3>5, <3>6
    <2>3. CASE x \notin Lineage[p]
      <3>1. x = b \/ x \notin Lineage[b]
        BY <1>1, <2>3
      <3> QED
        BY <1>2, <2>3, <3>1 DEF LinksOf
    <2> QED
      BY <2>1, <2>2, <2>3
  <1> HIDE DEF A, B, p
  <1>5. [A EXCEPT ![p] = b] = [x \in D |-> IF x = p THEN b ELSE A[x]]
    BY <1>3 DEF p
  <1>6. [A EXCEPT ![p] = b] = B
    BY <1>3, <1>4, <1>5
  <1> QED
    BY <1>6 DEF A, B, p

\* A block connected on top of the tip on disk.
LEMMA OneKeepsRecords ==
  ASSUME IndexInv, dbHashBest \in Block, RecordsOf(dbHashBest),
         NEW b \in DOMAIN dbBlockIndex, Prev[b] = dbHashBest, ConnectedOne(b)
  PROVE  dbHashBest' = b /\ b # Null /\ RecordsOf(b)'
  <1>1. /\ b \in Block /\ b \notin BadContext /\ Prev[b] # Null /\ Prev[b] \in DOMAIN dbBlockIndex /\ b # Null
    BY BlockTree DEF IndexInv, StoreTypes, IndexClosed
  <1>2. /\ InputsConnect(IndexOf(Prev[b]), b) /\ GoodLedger(Prev[b])
        /\ dbTxIndex' = Connected(IndexOf(Prev[b]), b)
        /\ dbBlockIndex = LinksOf(Prev[b], DOMAIN dbBlockIndex)
        /\ dbBlockIndex' = [dbBlockIndex EXCEPT ![Prev[b]] = b] /\ dbHashBest' = b
    BY DEF ConnectedOne, RecordsOf
  <1>3. dbTxIndex' = IndexOf(b) /\ GoodLedger(b)
    BY <1>1, <1>2, ConnectExact, ConnectKeepsSound
  <1>4. dbBlockIndex' = LinksOf(b, DOMAIN dbBlockIndex)
    <2>1. [LinksOf(Prev[b], DOMAIN dbBlockIndex) EXCEPT ![Prev[b]] = b] = LinksOf(b, DOMAIN dbBlockIndex)
      BY <1>1, LinksOfChild
    <2> QED
      BY <1>2, <2>1
  <1>5. DOMAIN dbBlockIndex' = DOMAIN dbBlockIndex
    BY <1>2
  <1>6. RecordsOf(b)'
    BY <1>3, <1>4, <1>5 DEF RecordsOf
  <1> QED
    BY <1>1, <1>2, <1>6

\* Steps that leave the records of the database alone.
LEMMA SameRecords ==
  ASSUME ExactInv, dbTxIndex' = dbTxIndex, dbBlockIndex' = dbBlockIndex, dbHashBest' = dbHashBest,
         pc' \in {"AddToBlockIndex", "SetBestChain"} => hashBestChain' = dbHashBest
  PROVE  ExactInv'
  BY DEF ExactInv, NothingYet, RecordsOf

\* A commit.
LEMMA NewRecords ==
  ASSUME NEW b, b # Null, dbHashBest' = b, RecordsOf(b)', pc' \in {"idle", "orphans", "ConnectPostponed"}
  PROVE  ExactInv'
  <1>1. RecordsOf(dbHashBest)'
    BY DEF RecordsOf
  <1> QED
    BY <1>1 DEF ExactInv

\* The new record has no link, and no link leads to it.
LEMMA AddKeepsRecords ==
  ASSUME ChainInv, IndexInv, ExactInv, AddToBlockIndex
  PROVE  ExactInv'
  <1>1. /\ pc = "AddToBlockIndex" /\ pblock \notin DOMAIN dbBlockIndex
        /\ dbTxIndex' = dbTxIndex /\ dbHashBest' = dbHashBest /\ hashBestChain' = hashBestChain
        /\ dbBlockIndex' = [c \in DOMAIN dbBlockIndex \cup {pblock} |->
                               IF c = pblock THEN Null ELSE dbBlockIndex[c]]
    BY DEF IndexInv, AtWork, AddToBlockIndex
  <1>2. CASE dbHashBest = Null
    <2>1. NothingYet'
      BY <1>1, <1>2 DEF ExactInv, NothingYet
    <2> QED
      BY <1>1, <1>2, <2>1 DEF ExactInv
  <1>3. CASE dbHashBest # Null
    <2> DEFINE D == DOMAIN dbBlockIndex
               E == DOMAIN dbBlockIndex \cup {pblock}
    <2>1. dbTxIndex = IndexOf(dbHashBest) /\ GoodLedger(dbHashBest) /\ dbBlockIndex = LinksOf(dbHashBest, D)
      BY <1>3 DEF ExactInv, RecordsOf
    <2>2. pblock \notin Lineage[dbHashBest]
      <3>1. dbHashBest \in D
        BY <1>3 DEF IndexInv, TipsIndexed
      <3> QED
        BY <1>1, <3>1, LineageIndexed
    <2>3. DOMAIN dbBlockIndex' = E
      BY <1>1
    <2>4. dbBlockIndex' = LinksOf(dbHashBest, E)
      <3>1. LinksOf(dbHashBest, E) = [c \in E |-> IF c = pblock THEN Null ELSE LinksOf(dbHashBest, D)[c]]
        BY <2>2 DEF LinksOf
      <3> QED
        BY <1>1, <2>1, <3>1
    <2>5. RecordsOf(dbHashBest)'
      BY <1>1, <2>1, <2>3, <2>4 DEF RecordsOf
    <2> QED
      BY <1>1, <1>3, <2>5 DEF ExactInv
  <1> QED
    BY <1>2, <1>3

\* ExtendTip.
LEMMA ExtendKeepsRecords ==
  ASSUME ChainInv, IndexInv, ExactInv, ExtendTip
  PROVE  ExactInv'
  <1>1. /\ pc = "SetBestChain" /\ pblock \in DOMAIN dbBlockIndex /\ Prev[pblock] = hashBestChain
        /\ hashBestChain # Null
        /\ \/ Return(FALSE) /\ UNCHANGED <<disk, mapBlockIndex, hashBestChain>>
           \/ Return(TRUE) /\ ConnectedOne(pblock) /\ hashBestChain' = pblock
    BY ExtendEffect
  <1>2. pc' \in {"idle", "orphans"}
    BY <1>1, Returns DEF ChainInv, ProgramTypes
  <1>3. CASE UNCHANGED <<disk, mapBlockIndex, hashBestChain>>
    BY <1>2, <1>3, SameRecords DEF disk
  <1>4. CASE ConnectedOne(pblock)
    <2>1. hashBestChain = dbHashBest /\ dbHashBest \in Block /\ RecordsOf(dbHashBest)
      BY <1>1 DEF ExactInv, ChainInv, ProgramTypes
    <2>2. PICK b \in DOMAIN dbBlockIndex : b = pblock
      BY <1>1
    <2>3. dbHashBest' = b /\ b # Null /\ RecordsOf(b)'
      BY <1>1, <1>4, <2>1, <2>2, OneKeepsRecords
    <2> QED
      BY <1>2, <2>3, NewRecords
  <1> QED
    BY <1>1, <1>3, <1>4

\* Reorganize.
LEMMA ReorganizeKeepsRecords ==
  ASSUME ChainInv, IndexInv, ExactInv, Reorganize
  PROVE  ExactInv'
  <1>1. pc = "SetBestChain" /\ pblock \in DOMAIN dbBlockIndex /\ hashBestChain \in Block
    BY ReorganizeEffect
  <1>2. PICK to \in Lineage[pblock] :
               \/ Return(FALSE) /\ UNCHANGED <<disk, mapBlockIndex, hashBestChain>>
               \/ /\ ReorganizedTo(to)
                  /\ \/ to = pblock /\ hashBestChain' = pblock /\ Return(TRUE)
                     \/ /\ to # pblock /\ pc' = "ConnectPostponed"
                        /\ UNCHANGED <<hashBestChain, orphan, caller, pblock, vWorkQueue>>
    BY ReorganizeEffect
  <1>3. pc' \in {"idle", "orphans", "ConnectPostponed"}
    BY <1>2, Returns DEF ChainInv, ProgramTypes
  <1>4. CASE UNCHANGED <<disk, mapBlockIndex, hashBestChain>>
    <2>1. pc' \in {"idle", "orphans", "ConnectPostponed"} /\ UNCHANGED disk
      BY <1>3, <1>4
    <2> QED
      BY <2>1, SameRecords DEF disk
  <1>5. CASE ReorganizedTo(to)
    <2>1. hashBestChain = dbHashBest /\ dbHashBest # Null /\ RecordsOf(hashBestChain)
      BY <1>1, BlockTree DEF ExactInv
    <2>2. to \in Block /\ to # Null
      BY <1>1, LineageIndexed, BlockTree
    <2>3. dbTxIndex' = IndexOf(to) /\ GoodLedger(to) /\ dbBlockIndex' = Relinked(to) /\ dbHashBest' = to
      BY <1>5, <2>1 DEF ReorganizedTo, RecordsOf
    <2>4. dbBlockIndex' = LinksOf(to, DOMAIN dbBlockIndex)
      <3>1. mapBlockIndex = LinksOf(hashBestChain, DOMAIN dbBlockIndex)
        BY <1>1, <2>1 DEF RecordsOf, IndexInv, Mirrored, Alive
      <3>2. Relinked(to) = LinksOf(to, DOMAIN dbBlockIndex)
        BY <1>1, <2>2, <3>1, RelinkedFollows
      <3> QED
        BY <2>3, <3>2
    <2>5. DOMAIN dbBlockIndex' = DOMAIN dbBlockIndex
      BY <2>4 DEF LinksOf
    <2>6. RecordsOf(to)'
      BY <2>3, <2>4, <2>5 DEF RecordsOf
    <2> QED
      BY <1>3, <2>2, <2>3, <2>6, NewRecords
  <1> QED
    BY <1>2, <1>4, <1>5

\* ConnectPostponed.
LEMMA PostponedKeepsRecords ==
  ASSUME ChainInv, IndexInv, ExactInv, ConnectPostponed
  PROVE  ExactInv'
  <1>1. pc = "ConnectPostponed"
    BY PostponedEffect
  <1>2. PICK b \in Lineage[pblock] :
               /\ b \in DOMAIN dbBlockIndex /\ b \in Block /\ Prev[b] = dbHashBest /\ Prev[b] # Null
               /\ \/ UNCHANGED <<disk, mapBlockIndex>> /\ hashBestChain' = pblock /\ Return(TRUE)
                  \/ /\ ConnectedOne(b)
                     /\ \/ b = pblock /\ hashBestChain' = pblock /\ Return(TRUE)
                        \/ b # pblock /\ UNCHANGED <<hashBestChain, orphan, pc, caller, pblock, vWorkQueue>>
    BY PostponedEffect
  <1>3. pc' \in {"idle", "orphans", "ConnectPostponed"}
    BY <1>1, <1>2, Returns DEF ChainInv, ProgramTypes
  <1>4. CASE UNCHANGED <<disk, mapBlockIndex>>
    <2>1. pc' \in {"idle", "orphans", "ConnectPostponed"} /\ UNCHANGED disk
      BY <1>3, <1>4
    <2> QED
      BY <2>1, SameRecords DEF disk
  <1>5. CASE ConnectedOne(b)
    <2>1. dbHashBest \in Block /\ RecordsOf(dbHashBest)
      BY <1>2 DEF ExactInv, ChainInv, ProgramTypes
    <2>2. dbHashBest' = b /\ b # Null /\ RecordsOf(b)'
      BY <1>2, <1>5, <2>1, OneKeepsRecords
    <2> QED
      BY <1>3, <2>2, NewRecords
  <1> QED
    BY <1>2, <1>4, <1>5

\* SetGenesis.
LEMMA GenesisKeepsRecords ==
  ASSUME ChainInv, IndexInv, ExactInv, SetGenesis
  PROVE  ExactInv'
  <1>1. /\ pc = "SetBestChain" /\ hashBestChain = Null /\ dbHashBest' = Genesis
        /\ dbBlockIndex' = dbBlockIndex /\ dbTxIndex' = dbTxIndex /\ Return(TRUE)
    BY DEF SetGenesis
  <1>2. pc' \in {"idle", "orphans", "ConnectPostponed"}
    BY <1>1, Returns DEF ChainInv, ProgramTypes
  <1>3. NothingYet
    BY <1>1 DEF ExactInv
  <1>4. dbBlockIndex = LinksOf(Genesis, DOMAIN dbBlockIndex)
    BY <1>3, GenesisRecords DEF NothingYet, IndexInv, StoreTypes
  <1>5. RecordsOf(Genesis)'
    BY <1>1, <1>3, <1>4, GenesisRecords DEF RecordsOf, NothingYet
  <1>6. Genesis # Null
    BY BlockTree
  <1> QED
    BY <1>1, <1>2, <1>5, <1>6, NewRecords

\* Every step keeps the records exact, as long as the tip in memory is the
\* tip on disk whenever a block begins to be added.
LEMMA ExactInvInductive ==
  ASSUME ChainInv, IndexInv, TipIsOnDisk, ExactInv, [Next]_vars
  PROVE  ExactInv'
  <1>1. CASE UNCHANGED vars
    BY <1>1, SameRecords DEF vars, disk, ExactInv
  <1>2. ASSUME NEW b \in Block, HoldOrphan(b)
        PROVE  ExactInv'
    BY <1>2, SameRecords DEF HoldOrphan, disk
  <1>3. ASSUME NEW b, NEW from, WriteToDisk(b, from), pc \in {"idle", "orphans"} \/ dbHashBest = Null
        PROVE  ExactInv'
    <2>1. hashBestChain = dbHashBest
      BY <1>3 DEF TipIsOnDisk, ChainInv, GenesisFirst
    <2> QED
      BY <1>3, <2>1, SameRecords DEF WriteToDisk
  <1>4. ASSUME NEW b \in Block, AcceptBlock(b)
        PROVE  ExactInv'
    BY <1>3, <1>4 DEF AcceptBlock
  <1>5. ASSUME NEW b \in Block, AcceptOrphan(b)
        PROVE  ExactInv'
    <2>1. CASE b \in BadContext
      BY <1>5, <2>1, SameRecords DEF AcceptOrphan, disk
    <2>2. CASE b \notin BadContext
      BY <1>3, <1>5, <2>2 DEF AcceptOrphan
    <2> QED
      BY <2>1, <2>2
  <1>6. CASE AddToBlockIndex
    BY <1>6, AddKeepsRecords
  <1>7. CASE SetBestChain
    BY <1>7, GenesisKeepsRecords, ExtendKeepsRecords, ReorganizeKeepsRecords, PostponedKeepsRecords
    DEF SetBestChain
  <1>8. CASE NextInQueue
    BY <1>8, SameRecords DEF NextInQueue, disk
  <1>9. CASE Crash
    BY <1>9, SameRecords DEF Crash, disk
  <1>10. CASE LoadEmpty
    BY <1>3, <1>10 DEF LoadEmpty, ChainInv, GenesisFirst
  <1>11. CASE LoadFails
    BY <1>11, SameRecords DEF LoadFails, disk
  <1>12. CASE LoadBlockIndex
    BY <1>12, SameRecords DEF LoadBlockIndex, disk
  <1>13. ASSUME NEW l \in Lockable, LockInput(l) \/ UnlockInput(l)
         PROVE  ExactInv'
    BY <1>13, SameRecords DEF LockInput, UnlockInput, disk, ExactInv
  <1>14. CASE ClockChange
    BY <1>14, SameRecords DEF ClockChange, disk, ExactInv
  <1> QED
    BY <1>1, <1>2, <1>4, <1>5, <1>6, <1>7, <1>8, <1>9, <1>10, <1>11, <1>12, <1>13, <1>14
    DEF Next, ProcessBlock, Load

\* An empty database is exact.
LEMMA ExactInvInit == Init => ExactInv
  BY DEF Init, ExactInv, NothingYet, EmptyIndex

\* The links of a branch are those of LinksFollowBestChain.
LEMMA LinksOfFollow ==
  ASSUME NEW tip \in Block, NEW D, NEW x \in D, x \in Block, NEW c \in Block
  PROVE  LinksOf(tip, D)[x] = c <=> Prev[c] = x /\ c \in Lineage[tip]
  <1>1. c # Null /\ Height[c] \in Nat /\ Height[tip] \in Nat
    BY BlockTree, PrevEnds
  <1>2. CASE x \in Lineage[tip] /\ x # tip
    <2>1. x \in Block /\ Height[x] \in Nat /\ Height[x] < Height[tip]
      BY <1>2, LineageClosed, LineageOrder, PrevEnds
    <2>2. PICK k \in Nat : k = Height[x] + 1
      BY <2>1
    <2>3. k \in 0..Height[tip] /\ k - 1 \in 0..Height[tip] /\ k > 0 /\ k - 1 = Height[x]
      BY <1>1, <2>1, <2>2
    <2>4. /\ At(tip, k) \in Lineage[tip] /\ Prev[At(tip, k)] = At(tip, k - 1)
          /\ \A a \in Lineage[tip] : Height[a] = k => a = At(tip, k)
      BY <2>3, AtHeight
    <2>5. At(tip, k - 1) = x
      BY <1>2, <2>3, AtHeight
    <2>6. LinksOf(tip, D)[x] = At(tip, k)
      BY <1>2, <2>2 DEF LinksOf
    <2>7. Prev[c] = x => Height[c] = k
      BY <2>1, <2>2, BlockTree, PrevEnds
    <2> QED
      BY <2>4, <2>5, <2>6, <2>7
  <1>3. CASE ~(x \in Lineage[tip] /\ x # tip)
    <2>1. LinksOf(tip, D)[x] = Null
      BY <1>3 DEF LinksOf
    <2>2. ~(Prev[c] = x /\ c \in Lineage[tip])
      <3> SUFFICES ASSUME Prev[c] = x, c \in Lineage[tip] PROVE FALSE
        OBVIOUS
      <3>1. x \in Lineage[tip] /\ x # Null
        BY BlockTree, LineageClosed
      <3>2. Height[c] = Height[x] + 1 /\ Height[x] \in Nat
        BY <3>1, PrevEnds
      <3>3. x = tip
        BY <1>3, <3>1
      <3> QED
        BY <1>1, <3>2, <3>3, LineageOrder
    <2> QED
      BY <1>1, <2>1, <2>2
  <1> QED
    BY <1>2, <1>3

\* The transaction index on disk is the one the best chain alone determines,
\* after any number of blocks connected and disconnected, in reorganisations
\* of any depth and in several batches, and wherever the process dies: for
\* every block tree, provided that the tip in memory is the tip on disk
\* whenever a block begins to be added (what a failure among the postponed
\* blocks of SetBestChain would break).
THEOREM IndexStaysExact == Spec /\ []TipIsOnDisk => []TxIndexExact
  <1>1. ExactInv => TxIndexExact
    BY DEF ExactInv, RecordsOf, TxIndexExact
  <1> QED
    BY <1>1, ChainInvInit, ChainInvInductive, IndexInvInit, IndexInvInductive,
       ExactInvInit, ExactInvInductive, PTL DEF Spec

\* Under the same condition the pnext pointers are, at rest, the links of the
\* best chain and no others.
THEOREM LinksStayOnBestChain == Spec /\ []TipIsOnDisk => []LinksFollowBestChain
  <1>1. ChainInv /\ IndexInv /\ ExactInv => LinksFollowBestChain
    <2> SUFFICES ASSUME ChainInv, IndexInv, ExactInv, pc = "idle",
                        NEW b \in DOMAIN mapBlockIndex, NEW c \in Block
                 PROVE  mapBlockIndex[b] = c <=> Prev[c] = b /\ c \in Lineage[dbHashBest]
      BY DEF LinksFollowBestChain
    <2>1. dbHashBest \in Block /\ dbHashBest # Null
      BY DEF ChainInv, ProgramTypes, GenesisFirst
    <2>2. mapBlockIndex = LinksOf(dbHashBest, DOMAIN dbBlockIndex) /\ b \in DOMAIN dbBlockIndex /\ b \in Block
      BY <2>1 DEF ExactInv, RecordsOf, IndexInv, Mirrored, Alive, StoreTypes
    <2> QED
      BY <2>1, <2>2, LinksOfFollow
  <1> QED
    BY <1>1, ChainInvInit, ChainInvInductive, IndexInvInit, IndexInvInductive,
       ExactInvInit, ExactInvInductive, PTL DEF Spec

\* Under the same condition the database behaves as ExactLedger says: every
\* commit takes the tip and the index together from one sound branch to
\* another, and nothing else changes either.
THEOREM ChainImplementsLedger == Spec /\ []TipIsOnDisk => ImplementsLedger
  <1>1. Init => LoadGoesBack /\ Book!LedgerInit
    BY GenesisRecords DEF Init, LoadGoesBack, Book!LedgerInit, Book!TipInit
  <1>2. ASSUME ChainInv, IndexInv, TipIsOnDisk, ExactInv, LoadGoesBack, [Next]_vars
        PROVE  LoadGoesBack' /\ [Book!LedgerNext]_<<dbHashBest, dbTxIndex>>
    <2>1. LoadGoesBack' /\ ExactInv' /\ [Tip!TipNext]_dbHashBest
      BY <1>2, LoadGoesBackInductive, ExactInvInductive, StepsMoveTip
    <2>2. CASE dbHashBest' = dbHashBest
      BY <1>2, <2>1, <2>2 DEF ExactInv, NothingYet, RecordsOf
    <2>3. CASE dbHashBest' # dbHashBest
      <3>1. Tip!TipNext
        BY <2>1, <2>3
      <3>2. Book!TipNext /\ dbHashBest' # Null
        <4>1. dbHashBest \in Block \cup {Null}
          BY <1>2 DEF ChainInv, ProgramTypes
        <4> QED
          BY <3>1, <4>1, BlockTree, LineageClosed
          DEF Tip!TipNext, Tip!Start, Tip!Advance, Tip!Rollback,
              Book!TipNext, Book!Start, Book!Advance, Book!Rollback
      <3>3. dbTxIndex' = IndexOf(dbHashBest') /\ GoodLedger(dbHashBest')
        BY <2>1, <3>2 DEF ExactInv, RecordsOf
      <3> QED
        BY <3>2, <3>3, <2>1 DEF Book!LedgerNext, GoodLedger
    <2> QED
      BY <2>2, <2>3
  <1> QED
    BY <1>1, <1>2, ChainInvInit, ChainInvInductive, IndexInvInit, IndexInvInductive,
       ExactInvInit, ExactInvInductive, PTL DEF Spec, ImplementsLedger, Book!LedgerSpec

-----------------------------------------------------------------------------
(* The tip in memory and the tip on disk.                                   *)

\* "Connect further blocks" finds every postponed block in order.  The code
\* does not stop when one fails (README, "Sentences the code does not keep").
PostponedBlocksConnect ==
    pc = "ConnectPostponed" => ConnectBlock(TxnBegin, Head(vpindexSecondary)).ok

TipInv ==
    pc \in {"idle", "orphans", "AddToBlockIndex", "SetBestChain"} => hashBestChain = dbHashBest

\* Every step keeps the two tips together, if no postponed block fails.
LEMMA TipInvInductive ==
  ASSUME ChainInv, IndexInv, PostponedBlocksConnect, TipInv, [Next]_vars
  PROVE  TipInv'
  <1>1. CASE UNCHANGED vars
    BY <1>1 DEF vars, disk, TipInv
  <1>2. ASSUME NEW b \in Block, HoldOrphan(b)
        PROVE  TipInv'
    BY <1>2 DEF HoldOrphan, disk, TipInv
  <1>3. ASSUME NEW b, NEW from, WriteToDisk(b, from), pc \in {"idle", "orphans"} \/ dbHashBest = Null
        PROVE  TipInv'
    BY <1>3 DEF WriteToDisk, TipInv, ChainInv, GenesisFirst
  <1>4. ASSUME NEW b \in Block, AcceptBlock(b)
        PROVE  TipInv'
    BY <1>3, <1>4 DEF AcceptBlock
  <1>5. ASSUME NEW b \in Block, AcceptOrphan(b)
        PROVE  TipInv'
    <2>1. CASE b \in BadContext
      BY <1>5, <2>1 DEF AcceptOrphan, disk, TipInv
    <2>2. CASE b \notin BadContext
      BY <1>3, <1>5, <2>2 DEF AcceptOrphan
    <2> QED
      BY <2>1, <2>2
  <1>6. CASE AddToBlockIndex
    BY <1>6 DEF AddToBlockIndex, TipInv
  <1>7. CASE SetGenesis
    BY <1>7 DEF SetGenesis, TipInv
  <1>8. CASE ExtendTip
    <2>1. /\ pc = "SetBestChain"
          /\ \/ UNCHANGED <<disk, mapBlockIndex, hashBestChain>>
             \/ ConnectedOne(pblock) /\ hashBestChain' = pblock
      BY <1>8, ExtendEffect
    <2> QED
      BY <2>1 DEF ConnectedOne, TipInv, disk
  <1>9. CASE Reorganize
    <2>1. PICK to \in Lineage[pblock] :
               \/ UNCHANGED <<disk, mapBlockIndex, hashBestChain>>
               \/ /\ ReorganizedTo(to)
                  /\ \/ to = pblock /\ hashBestChain' = pblock
                     \/ pc' = "ConnectPostponed"
      BY <1>9, ReorganizeEffect
    <2> QED
      BY <1>9, <2>1 DEF Reorganize, ReorganizedTo, TipInv, disk
  <1>10. CASE ConnectPostponed
    <2>1. pc = "ConnectPostponed"
      BY <1>10, PostponedEffect
    <2>2. PICK b \in Lineage[pblock] :
               /\ b = Head(vpindexSecondary)
               /\ \/ ~ConnectBlock(TxnBegin, b).ok
                  \/ /\ ConnectedOne(b)
                     /\ \/ b = pblock /\ hashBestChain' = pblock /\ Return(TRUE)
                        \/ b # pblock /\ UNCHANGED <<hashBestChain, orphan, pc, caller, pblock, vWorkQueue>>
      BY <1>10, PostponedEffect
    <2>3. ConnectBlock(TxnBegin, b).ok
      BY <2>1, <2>2 DEF PostponedBlocksConnect
    <2> QED
      BY <2>1, <2>2, <2>3 DEF ConnectedOne, TipInv
  <1>11. CASE NextInQueue
    BY <1>11 DEF NextInQueue, disk, TipInv
  <1>12. CASE Crash
    BY <1>12 DEF Crash, TipInv
  <1>13. CASE LoadEmpty
    BY <1>3, <1>13 DEF LoadEmpty, ChainInv, GenesisFirst
  <1>14. CASE LoadFails
    BY <1>14 DEF LoadFails, TipInv
  <1>15. CASE LoadBlockIndex
    BY <1>15 DEF LoadBlockIndex, disk, TipInv
  <1>16. ASSUME NEW l \in Lockable, LockInput(l) \/ UnlockInput(l)
         PROVE  TipInv'
    BY <1>16 DEF LockInput, UnlockInput, disk, TipInv
  <1>17. CASE ClockChange
    BY <1>17 DEF ClockChange, disk, TipInv
  <1> QED
    BY <1>1, <1>2, <1>4, <1>5, <1>6, <1>7, <1>8, <1>9, <1>10, <1>11, <1>12, <1>13, <1>14, <1>15,
       <1>16, <1>17
    DEF Next, ProcessBlock, Load, SetBestChain

\* The one way memory and disk can come to disagree about the tip is a
\* postponed block that fails: neither a failed reorganisation, nor a crash
\* at any point, nor a restart that goes back, does it.
THEOREM TipStaysOnDisk == Spec /\ []PostponedBlocksConnect => []TipIsOnDisk
  <1>1. Init => TipInv
    BY DEF Init, TipInv
  <1>2. TipInv => TipIsOnDisk
    BY DEF TipInv, TipIsOnDisk
  <1> QED
    BY <1>1, <1>2, ChainInvInit, ChainInvInductive, IndexInvInit, IndexInvInductive,
       TipInvInductive, PTL DEF Spec

-----------------------------------------------------------------------------
(* The holding area.                                                        *)

OrphanLeaves(b) ==
    mapOrphanBlocks' = mapOrphanBlocks \ {b} /\ setStakeSeenOrphan' = setStakeSeenOrphan \ {Stake[b]}

\* Orphans come one at a time, after a pruning; they leave one at a time, or
\* all at once with the process.
LEMMA OrphanSteps ==
  ASSUME ChainInv, [Next]_vars
  PROVE  \/ UNCHANGED orphan
         \/ \E b \in Block : HoldOrphan(b)
         \/ \E b \in Block : OrphanLeaves(b)
         \/ mapOrphanBlocks' = {} /\ setStakeSeenOrphan' = {}
  <1>1. ASSUME NEW accepted, Return(accepted), pblock \in Block
        PROVE  UNCHANGED orphan \/ \E b \in Block : OrphanLeaves(b)
    BY <1>1 DEF Return, OrphanLeaves, orphan, ChainInv, ProgramTypes
  <1>2. ASSUME NEW b \in Block, AcceptBlock(b) \/ AcceptOrphan(b)
        PROVE  UNCHANGED orphan \/ OrphanLeaves(b)
    BY <1>2 DEF AcceptBlock, AcceptOrphan, WriteToDisk, OrphanLeaves, orphan
  <1>3. CASE AddToBlockIndex \/ SetBestChain
    <2>1. pblock \in Block
      BY <1>3 DEF AddToBlockIndex, SetBestChain, SetGenesis, ExtendTip, Reorganize, ConnectPostponed,
                  ChainInv, ProgramTypes
    <2>2. UNCHANGED orphan \/ \E accepted : Return(accepted)
      BY <1>3 DEF AddToBlockIndex, SetBestChain, SetGenesis, ExtendTip, Reorganize, ConnectPostponed, NewBest
    <2> QED
      BY <1>1, <2>1, <2>2
  <1>4. CASE Crash
    BY <1>4 DEF Crash
  <1>5. CASE NextInQueue \/ Load \/ ClockChange \/ UNCHANGED vars
    BY <1>5 DEF NextInQueue, Load, LoadEmpty, LoadFails, LoadBlockIndex, WriteToDisk, ClockChange, vars
  <1>6. ASSUME NEW l \in Lockable, LockInput(l) \/ UnlockInput(l)
        PROVE  UNCHANGED orphan
    BY <1>6 DEF LockInput, UnlockInput
  <1> QED
    BY <1>2, <1>3, <1>4, <1>5, <1>6 DEF Next, ProcessBlock

\* A mark of setStakeSeenOrphan never outlives the orphans it was set for,
\* whatever is pruned, adopted, rejected or lost in a crash.
THEOREM MarksStayBacked == Spec => []StakeMarksBacked
  <1>1. Init => StakeMarksBacked
    BY DEF Init, StakeMarksBacked
  <1>2. ASSUME ChainInv, StakeMarksBacked, [Next]_vars
        PROVE  StakeMarksBacked'
    <2>1. CASE UNCHANGED orphan
      BY <1>2, <2>1 DEF StakeMarksBacked, orphan
    <2>2. ASSUME NEW b \in Block, HoldOrphan(b)
          PROVE  StakeMarksBacked'
      <3>1. PICK pruned :
              /\ mapOrphanBlocks' = (mapOrphanBlocks \ pruned) \cup {b}
              /\ setStakeSeenOrphan' = (setStakeSeenOrphan \ {Stake[v] : v \in pruned})
                                          \cup ({Stake[b]} \ {Null})
        BY <2>2 DEF HoldOrphan
      <3> QED
        BY <1>2, <3>1 DEF StakeMarksBacked
    <2>3. ASSUME NEW b \in Block, OrphanLeaves(b)
          PROVE  StakeMarksBacked'
      BY <1>2, <2>3 DEF StakeMarksBacked, OrphanLeaves
    <2>4. CASE mapOrphanBlocks' = {} /\ setStakeSeenOrphan' = {}
      BY <2>4 DEF StakeMarksBacked
    <2> QED
      BY <1>2, <2>1, <2>2, <2>3, <2>4, OrphanSteps
  <1> QED
    BY <1>1, <1>2, ChainInvInit, ChainInvInductive, PTL DEF Spec

\* PruneOrphanBlocks keeps the number of orphans within one of its limit,
\* however many arrive.
AreaInv == IsFiniteSet(mapOrphanBlocks) /\ OrphanBlocksBounded

\* One more block in the holding area.
LEMMA AddOne ==
  ASSUME NEW S, IsFiniteSet(S), NEW x
  PROVE  /\ IsFiniteSet(S \cup {x}) /\ Cardinality(S) \in Nat /\ Cardinality(S \cup {x}) \in Nat
         /\ Cardinality(S \cup {x}) <= Cardinality(S) + 1
  <1>1. IsFiniteSet(S \cup {x})
    BY FS_AddElement
  <1>2. Cardinality(S \cup {x}) = IF x \in S THEN Cardinality(S) ELSE Cardinality(S) + 1
    BY FS_AddElement
  <1>3. Cardinality(S) \in Nat /\ Cardinality(S \cup {x}) \in Nat
    BY <1>1, FS_CardinalityType
  <1> QED
    BY <1>1, <1>2, <1>3

\* PruneOrphanBlocks makes room before HoldOrphan takes it.
LEMMA AreaInvInductive ==
  ASSUME ChainInv, AreaInv, [Next]_vars
  PROVE  AreaInv'
  <1> DEFINE m == mapOrphanBlocks
  <1>1. IsFiniteSet(m) /\ Cardinality(m) \in Nat /\ Cardinality(m) <= MaxOrphanBlocks + 1 /\ MaxOrphanBlocks \in Nat
    BY ChainConstants, FS_CardinalityType DEF AreaInv, OrphanBlocksBounded
  <1>2. ASSUME NEW b, mapOrphanBlocks' = m \ {b}
        PROVE  AreaInv'
    <2>1. IsFiniteSet(m \ {b}) /\ Cardinality(m \ {b}) <= Cardinality(m) /\ Cardinality(m \ {b}) \in Nat
      BY <1>1, FS_RemoveElement, FS_Subset, FS_CardinalityType
    <2> QED
      BY <1>1, <1>2, <2>1 DEF AreaInv, OrphanBlocksBounded
  <1>3. ASSUME NEW b \in Block, HoldOrphan(b)
        PROVE  AreaInv'
    <2>1. PICK pruned \in PruneOrphanBlocks : mapOrphanBlocks' = (m \ pruned) \cup {b}
      BY <1>3 DEF HoldOrphan
    <2>2. CASE Cardinality(m) > MaxOrphanBlocks
      <3>1. PICK v \in m : pruned = {v}
        BY <2>1, <2>2 DEF PruneOrphanBlocks
      <3>2. IsFiniteSet(m \ {v}) /\ Cardinality(m \ {v}) = Cardinality(m) - 1
        BY <1>1, <3>1, FS_RemoveElement
      <3>3. /\ IsFiniteSet((m \ {v}) \cup {b}) /\ Cardinality((m \ {v}) \cup {b}) \in Nat
            /\ Cardinality((m \ {v}) \cup {b}) <= Cardinality(m \ {v}) + 1
        BY <3>2, AddOne
      <3> QED
        BY <1>1, <2>1, <3>1, <3>2, <3>3 DEF AreaInv, OrphanBlocksBounded
    <2>3. CASE ~(Cardinality(m) > MaxOrphanBlocks)
      <3>1. pruned = {}
        BY <2>1, <2>3 DEF PruneOrphanBlocks
      <3>2. IsFiniteSet(m \cup {b}) /\ Cardinality(m \cup {b}) <= Cardinality(m) + 1
        BY <1>1, AddOne
      <3>3. mapOrphanBlocks' = m \cup {b} /\ Cardinality(m) <= MaxOrphanBlocks
        BY <1>1, <2>1, <2>3, <3>1
      <3>4. Cardinality(m \cup {b}) \in Nat
        BY <3>2, FS_CardinalityType
      <3> QED
        BY <1>1, <3>2, <3>3, <3>4 DEF AreaInv, OrphanBlocksBounded
    <2> QED
      BY <2>2, <2>3
  <1>4. CASE mapOrphanBlocks' = {}
    BY <1>1, <1>4, FS_EmptySet DEF AreaInv, OrphanBlocksBounded
  <1>5. CASE UNCHANGED orphan
    BY <1>5 DEF AreaInv, OrphanBlocksBounded, orphan
  <1> QED
    BY <1>2, <1>3, <1>4, <1>5, OrphanSteps DEF OrphanLeaves

\* The holding area is empty at first.
LEMMA AreaInvInit == Init => AreaInv
  BY ChainConstants, FS_EmptySet DEF Init, AreaInv, OrphanBlocksBounded

\* A block that SetBestChain fails to connect has no orphan waiting for it.
\* (ProcessBlock and its work queue leave the orphans of a block that fails
\* where they are, although their parent is indexed by then.)
ParentsConnect ==
    pc = "SetBestChain" /\ HasOrphanChild(pblock) =>
        IF Prev[pblock] = hashBestChain THEN ConnectBlock(TxnBegin, pblock).ok
        ELSE \A to \in pindexIntermediate : Reorganized(to).ok

InQueue(x) == \E i \in 1..Len(vWorkQueue) : vWorkQueue[i] = x
Adding == pc \in {"AddToBlockIndex", "SetBestChain", "ConnectPostponed"}

\* An orphan whose parent is indexed is one the work queue will come to.
QueueInv ==
    /\ pc \in {"idle", "down", "unbootable"} \/ (Adding /\ caller # "orphan") => vWorkQueue = <<>>
    /\ Adding /\ caller = "load" => mapOrphanBlocks = {}
    /\ \A b \in mapOrphanBlocks : Prev[b] \in DOMAIN dbBlockIndex =>
          InQueue(Prev[b]) \/ (pc \in {"SetBestChain", "ConnectPostponed"} /\ Prev[b] = pblock)

\* A call of AcceptBlock ends: the block is queued, or no orphan waits for it.
LEMMA ReturnKeepsQueueInv ==
  ASSUME ChainInv, IndexInv, QueueInv, Adding, NEW accepted \in BOOLEAN, Return(accepted),
         DOMAIN dbBlockIndex' = DOMAIN dbBlockIndex \cup {pblock},
         accepted = TRUE \/ ~HasOrphanChild(pblock)
  PROVE  QueueInv'
  <1>1. caller \in {"load", "new", "orphan"} /\ pblock \in Block /\ vWorkQueue \in Seq(Block)
    BY DEF ChainInv, ProgramTypes, IndexInv, QueueIndexed, Adding
  <1>2. pc' \in {"idle", "orphans"} /\ ~Adding'
    BY <1>1, Returns DEF Adding
  <1>3. ASSUME NEW b \in mapOrphanBlocks, Prev[b] \in DOMAIN dbBlockIndex'
        PROVE  InQueue(Prev[b]) \/ Prev[b] = pblock
    BY <1>3 DEF QueueInv
  <1>4. CASE caller = "load"
    BY <1>2, <1>4 DEF Return, QueueInv, orphan
  <1>5. CASE caller = "new"
    <2>1. vWorkQueue = <<>> /\ mapOrphanBlocks' = mapOrphanBlocks
      BY <1>5 DEF Return, QueueInv, orphan
    <2>2. CASE accepted = TRUE
      <3>1. vWorkQueue' = <<pblock>> /\ pc' = "orphans"
        BY <1>5, <2>2 DEF Return
      <3>2. 1 \in 1..Len(vWorkQueue') /\ vWorkQueue'[1] = pblock
        BY <3>1
      <3>3. \A b \in mapOrphanBlocks : Prev[b] \in DOMAIN dbBlockIndex' => Prev[b] = pblock
        BY <1>3, <2>1 DEF InQueue
      <3> QED
        BY <1>2, <2>1, <3>1, <3>2, <3>3 DEF QueueInv, InQueue
    <2>3. CASE accepted = FALSE
      <3>1. vWorkQueue' = <<>> /\ pc' = "idle"
        BY <1>5, <2>3 DEF Return
      <3>2. \A b \in mapOrphanBlocks : Prev[b] \notin DOMAIN dbBlockIndex'
        BY <1>3, <2>1, <2>3 DEF InQueue, HasOrphanChild
      <3> QED
        BY <1>2, <2>1, <3>1, <3>2 DEF QueueInv
    <2> QED
      BY <2>2, <2>3
  <1>6. CASE caller = "orphan"
    <2>1. mapOrphanBlocks' \subseteq mapOrphanBlocks /\ pc' = "orphans"
      BY <1>6 DEF Return
    <2>2. CASE accepted = TRUE
      <3>1. vWorkQueue' = Append(vWorkQueue, pblock)
        BY <1>6, <2>2 DEF Return
      <3>2. /\ Len(vWorkQueue') = Len(vWorkQueue) + 1 /\ Len(vWorkQueue) \in Nat
            /\ vWorkQueue'[Len(vWorkQueue) + 1] = pblock
            /\ \A i \in 1..Len(vWorkQueue) : vWorkQueue'[i] = vWorkQueue[i]
        BY <1>1, <3>1
      <3>3. ASSUME NEW x, InQueue(x) \/ x = pblock
            PROVE  \E i \in 1..Len(vWorkQueue') : vWorkQueue'[i] = x
        <4>1. CASE InQueue(x)
          <5>1. PICK i \in 1..Len(vWorkQueue) : vWorkQueue[i] = x
            BY <4>1 DEF InQueue
          <5> QED
            BY <3>2, <5>1
        <4>2. CASE x = pblock
          BY <3>2, <4>2
        <4> QED
          BY <3>3, <4>1, <4>2
      <3>4. \A b \in mapOrphanBlocks' : Prev[b] \in DOMAIN dbBlockIndex' =>
               \E i \in 1..Len(vWorkQueue') : vWorkQueue'[i] = Prev[b]
        BY <1>3, <2>1, <3>3
      <3> QED
        BY <1>2, <2>1, <3>4 DEF QueueInv, InQueue
    <2>3. CASE accepted = FALSE
      <3>1. vWorkQueue' = vWorkQueue
        BY <1>6, <2>3 DEF Return
      <3>2. \A b \in mapOrphanBlocks' : Prev[b] \in DOMAIN dbBlockIndex' => InQueue(Prev[b])
        BY <1>3, <2>1, <2>3 DEF HasOrphanChild
      <3> QED
        BY <1>2, <2>1, <3>1, <3>2 DEF QueueInv, InQueue
    <2> QED
      BY <2>2, <2>3
  <1> QED
    BY <1>1, <1>4, <1>5, <1>6

\* Steps at rest, which leave the index and the queue alone.
LEMMA StillKeepsQueueInv ==
  ASSUME QueueInv, dbBlockIndex' = dbBlockIndex, UNCHANGED <<pc, frame>>,
         \A b \in mapOrphanBlocks' : b \in mapOrphanBlocks \/ (~Adding /\ Prev[b] \notin DOMAIN dbBlockIndex)
  PROVE  QueueInv'
  BY DEF QueueInv, Adding, InQueue, frame

\* A block is being connected, the index has the same blocks before and after.
LEMMA StayKeepsQueueInv ==
  ASSUME QueueInv, pc \in {"SetBestChain", "ConnectPostponed"}, pc' \in {"SetBestChain", "ConnectPostponed"},
         UNCHANGED <<orphan, caller, pblock, vWorkQueue>>, DOMAIN dbBlockIndex' = DOMAIN dbBlockIndex
  PROVE  QueueInv'
  BY DEF QueueInv, Adding, InQueue, orphan

\* A block is taken from the network or the holding area.
LEMMA WriteKeepsQueueInv ==
  ASSUME QueueInv, NEW b, NEW from, WriteToDisk(b, from), ~Adding,
         from = "orphan" \/ vWorkQueue = <<>>, from = "load" => mapOrphanBlocks = {}
  PROVE  QueueInv'
  BY DEF QueueInv, Adding, InQueue, WriteToDisk, orphan

\* AddToBlockIndex: the orphans that waited for the block now wait for its turn.
LEMMA AddKeepsQueueInv ==
  ASSUME ChainInv, IndexInv, QueueInv, AddToBlockIndex
  PROVE  QueueInv'
  <1>1. pc = "AddToBlockIndex" /\ Adding
    BY DEF AddToBlockIndex, Adding
  <1>2. DOMAIN dbBlockIndex' = DOMAIN dbBlockIndex \cup {pblock}
    BY DEF AddToBlockIndex
  <1>3. CASE BetterThanTip(pblock)
    <2>1. pc' = "SetBestChain" /\ UNCHANGED <<orphan, frame>>
      BY <1>3 DEF AddToBlockIndex
    <2> QED
      BY <1>1, <1>2, <2>1 DEF QueueInv, Adding, InQueue, orphan, frame
  <1>4. CASE ~BetterThanTip(pblock)
    <2>1. Return(TRUE)
      BY <1>4 DEF AddToBlockIndex
    <2> QED
      BY <1>1, <1>2, <2>1, ReturnKeepsQueueInv
  <1> QED
    BY <1>3, <1>4

\* SetBestChain ends the call or goes on with the postponed blocks.
LEMMA SetBestKeepsQueueInv ==
  ASSUME ChainInv, IndexInv, ParentsConnect, QueueInv, SetBestChain
  PROVE  QueueInv'
  <1>1. Adding /\ pblock \in DOMAIN dbBlockIndex /\ pc \in {"SetBestChain", "ConnectPostponed"}
    BY DEF SetBestChain, SetGenesis, ExtendTip, Reorganize, ConnectPostponed, Adding, IndexInv, AtWork
  <1>2. ASSUME NEW accepted \in BOOLEAN, Return(accepted), DOMAIN dbBlockIndex' = DOMAIN dbBlockIndex,
               accepted = TRUE \/ ~HasOrphanChild(pblock)
        PROVE  QueueInv'
    <2>1. DOMAIN dbBlockIndex' = DOMAIN dbBlockIndex \cup {pblock}
      BY <1>1, <1>2
    <2> QED
      BY <1>1, <1>2, <2>1, ReturnKeepsQueueInv
  <1>3. CASE SetGenesis
    <2>1. Return(TRUE) /\ dbBlockIndex' = dbBlockIndex
      BY <1>3 DEF SetGenesis
    <2> QED
      BY <1>2, <2>1
  <1>4. CASE ExtendTip
    <2>1. /\ pc = "SetBestChain" /\ Prev[pblock] = hashBestChain /\ pblock \in Block
          /\ \/ /\ ~ConnectBlock(TxnBegin, pblock).ok
                /\ Return(FALSE) /\ UNCHANGED <<disk, mapBlockIndex, hashBestChain>>
             \/ Return(TRUE) /\ ConnectedOne(pblock)
      BY <1>4, ExtendEffect
    <2>2. CASE Return(TRUE) /\ ConnectedOne(pblock)
      <3>1. DOMAIN dbBlockIndex' = DOMAIN dbBlockIndex
        BY <1>1, <2>1, <2>2, OneKeepsIndex
      <3> QED
        BY <1>2, <2>2, <3>1
    <2>3. CASE ~ConnectBlock(TxnBegin, pblock).ok /\ Return(FALSE) /\ UNCHANGED disk
      <3>1. ~HasOrphanChild(pblock) /\ dbBlockIndex' = dbBlockIndex
        BY <2>1, <2>3 DEF ParentsConnect, disk
      <3> QED
        BY <1>2, <2>3, <3>1
    <2> QED
      BY <2>1, <2>2, <2>3
  <1>5. CASE Reorganize
    <2>1. pc = "SetBestChain" /\ Prev[pblock] # hashBestChain
      BY <1>5 DEF Reorganize
    <2>2. PICK to \in Lineage[pblock] :
               \/ /\ to \in pindexIntermediate /\ ~Reorganized(to).ok
                  /\ Return(FALSE) /\ UNCHANGED <<disk, mapBlockIndex, hashBestChain>>
               \/ /\ ReorganizedTo(to)
                  /\ \/ to = pblock /\ hashBestChain' = pblock /\ Return(TRUE)
                     \/ /\ to # pblock /\ pc' = "ConnectPostponed"
                        /\ UNCHANGED <<hashBestChain, orphan, caller, pblock, vWorkQueue>>
      BY <1>5, ReorganizeEffect
    <2>3. ReorganizedTo(to) => DOMAIN dbBlockIndex' = DOMAIN dbBlockIndex
      BY <2>1 DEF ReorganizedTo, Relinked, IndexInv, Mirrored, Alive
    <2>4. CASE to \in pindexIntermediate /\ ~Reorganized(to).ok /\ Return(FALSE) /\ UNCHANGED disk
      <3>1. ~HasOrphanChild(pblock) /\ dbBlockIndex' = dbBlockIndex
        BY <2>1, <2>4 DEF ParentsConnect, disk
      <3> QED
        BY <1>2, <2>4, <3>1
    <2>5. CASE ReorganizedTo(to) /\ Return(TRUE)
      BY <1>2, <2>3, <2>5
    <2>6. CASE ReorganizedTo(to) /\ pc' = "ConnectPostponed" /\ UNCHANGED <<orphan, caller, pblock, vWorkQueue>>
      BY <1>1, <2>3, <2>6, StayKeepsQueueInv
    <2> QED
      BY <2>2, <2>4, <2>5, <2>6
  <1>6. CASE ConnectPostponed
    <2>1. PICK b \in Lineage[pblock] :
               /\ b \in DOMAIN dbBlockIndex /\ b \in Block
               /\ \/ UNCHANGED <<disk, mapBlockIndex>> /\ Return(TRUE)
                  \/ /\ ConnectedOne(b)
                     /\ Return(TRUE) \/ UNCHANGED <<hashBestChain, orphan, pc, caller, pblock, vWorkQueue>>
      BY <1>6, PostponedEffect
    <2>2. DOMAIN dbBlockIndex' = DOMAIN dbBlockIndex
      BY <2>1, OneKeepsIndex DEF disk
    <2>3. CASE Return(TRUE)
      BY <1>2, <2>2, <2>3
    <2>4. CASE UNCHANGED <<hashBestChain, orphan, pc, caller, pblock, vWorkQueue>>
      BY <1>1, <2>2, <2>4, StayKeepsQueueInv
    <2> QED
      BY <2>1, <2>3, <2>4
  <1> QED
    BY <1>3, <1>4, <1>5, <1>6 DEF SetBestChain

\* The queue moves on once no orphan waits for its first block.
LEMMA NextKeepsQueueInv ==
  ASSUME IndexInv, QueueInv, NextInQueue
  PROVE  QueueInv'
  <1>1. /\ pc = "orphans" /\ pc' \in {"orphans", "idle"} /\ mapOrphanBlocks' = mapOrphanBlocks
        /\ dbBlockIndex' = dbBlockIndex
        /\ \A b \in mapOrphanBlocks : vWorkQueue # <<>> => Prev[b] # Head(vWorkQueue)
        /\ \/ vWorkQueue = <<>> /\ vWorkQueue' = <<>>
           \/ vWorkQueue # <<>> /\ vWorkQueue' = Tail(vWorkQueue) /\ pc' = "orphans"
    BY DEF NextInQueue, orphan, disk
  <1>2. vWorkQueue \in Seq(Block)
    BY DEF IndexInv, QueueIndexed
  <1>3. ASSUME NEW x, InQueue(x), vWorkQueue # <<>> => x # Head(vWorkQueue)
        PROVE  InQueue(x)'
    <2>1. PICK i \in 1..Len(vWorkQueue) : vWorkQueue[i] = x
      BY <1>3 DEF InQueue
    <2>2. vWorkQueue # <<>> /\ Head(vWorkQueue) = vWorkQueue[1] /\ Len(vWorkQueue) \in Nat
      BY <1>2, <2>1
    <2>3. i # 1
      BY <1>3, <2>1, <2>2
    <2>4. /\ vWorkQueue' = Tail(vWorkQueue) /\ Len(Tail(vWorkQueue)) = Len(vWorkQueue) - 1
          /\ \A j \in 1..(Len(vWorkQueue) - 1) : Tail(vWorkQueue)[j] = vWorkQueue[j + 1]
      BY <1>1, <1>2, <2>2, HeadTailProperties
    <2>5. i - 1 \in 1..(Len(vWorkQueue) - 1) /\ (i - 1) + 1 = i
      BY <2>1, <2>2, <2>3
    <2>6. Tail(vWorkQueue)[i - 1] = x
      BY <2>1, <2>4, <2>5
    <2> QED
      BY <2>4, <2>5, <2>6 DEF InQueue
  <1>4. \A b \in mapOrphanBlocks' : Prev[b] \in DOMAIN dbBlockIndex' => InQueue(Prev[b])'
    BY <1>1, <1>3 DEF QueueInv
  <1>5. pc' = "idle" => vWorkQueue' = <<>>
    BY <1>1
  <1> QED
    BY <1>1, <1>4, <1>5 DEF QueueInv, Adding

\* Every step keeps it, if no block with an orphan child fails to connect.
LEMMA QueueInvInductive ==
  ASSUME ChainInv, IndexInv, ParentsConnect, QueueInv, [Next]_vars
  PROVE  QueueInv'
  <1>1. CASE UNCHANGED vars
    BY <1>1, StillKeepsQueueInv DEF vars, disk, orphan
  <1>2. ASSUME NEW b \in Block, HoldOrphan(b)
        PROVE  QueueInv'
    <2>1. /\ pc = "idle" /\ Prev[b] \notin DOMAIN dbBlockIndex /\ ~Adding
          /\ UNCHANGED <<disk, pc, frame>>
      BY <1>2 DEF HoldOrphan, IndexInv, Mirrored, Alive, Adding
    <2>2. \A c \in mapOrphanBlocks' : c \in mapOrphanBlocks \/ c = b
      BY <1>2 DEF HoldOrphan
    <2> QED
      BY <2>1, <2>2, StillKeepsQueueInv DEF disk
  <1>3. ASSUME NEW b \in Block, AcceptBlock(b)
        PROVE  QueueInv'
    BY <1>3, WriteKeepsQueueInv DEF AcceptBlock, QueueInv, Adding
  <1>4. ASSUME NEW b \in Block, AcceptOrphan(b)
        PROVE  QueueInv'
    <2>1. CASE b \in BadContext
      BY <1>4, <2>1, StillKeepsQueueInv DEF AcceptOrphan, disk
    <2>2. CASE b \notin BadContext
      BY <1>4, <2>2, WriteKeepsQueueInv DEF AcceptOrphan, Adding
    <2> QED
      BY <2>1, <2>2
  <1>5. CASE AddToBlockIndex
    BY <1>5, AddKeepsQueueInv
  <1>6. CASE SetBestChain
    BY <1>6, SetBestKeepsQueueInv
  <1>7. CASE NextInQueue
    BY <1>7, NextKeepsQueueInv
  <1>8. CASE Crash
    BY <1>8 DEF Crash, QueueInv, Adding
  <1>9. CASE LoadEmpty
    BY <1>9, WriteKeepsQueueInv DEF LoadEmpty, QueueInv, Adding, IndexInv, Mirrored, Alive
  <1>10. CASE LoadFails \/ LoadBlockIndex
    <2>1. /\ pc = "down" /\ mapOrphanBlocks' = {} /\ vWorkQueue' = <<>>
      BY <1>10 DEF LoadFails, LoadBlockIndex, QueueInv, IndexInv, Mirrored, Alive, orphan, frame
    <2> QED
      BY <2>1 DEF QueueInv
  <1>11. ASSUME NEW l \in Lockable, LockInput(l) \/ UnlockInput(l)
         PROVE  QueueInv'
    BY <1>11, StillKeepsQueueInv DEF LockInput, UnlockInput, disk, orphan
  <1>12. CASE ClockChange
    BY <1>12, StillKeepsQueueInv DEF ClockChange, disk, orphan
  <1> QED
    BY <1>1, <1>2, <1>3, <1>4, <1>5, <1>6, <1>7, <1>8, <1>9, <1>10, <1>11, <1>12
    DEF Next, ProcessBlock, Load

\* The holding area stays within one block of its limit, and at rest holds
\* only blocks whose parent the node does not have, provided that no block
\* fails to connect while an orphan waits for it.
THEOREM HoldingAreaStaysSound == Spec /\ []ParentsConnect => []HoldingAreaSound
  <1>1. Init => QueueInv
    BY DEF Init, QueueInv, Adding, InQueue
  <1>2. IndexInv /\ QueueInv /\ AreaInv => HoldingAreaSound
    <2> SUFFICES ASSUME IndexInv, QueueInv, AreaInv, pc = "idle", NEW b \in mapOrphanBlocks,
                        Prev[b] \in DOMAIN mapBlockIndex
                 PROVE  FALSE
      BY DEF HoldingAreaSound, OrphansWaitForParent, AreaInv
    <2>1. Prev[b] \in DOMAIN dbBlockIndex /\ vWorkQueue = <<>>
      BY DEF IndexInv, Mirrored, Alive, QueueInv
    <2>2. InQueue(Prev[b])
      BY <2>1 DEF QueueInv
    <2> QED
      BY <2>1, <2>2 DEF InQueue
  <1> QED
    BY <1>1, <1>2, ChainInvInit, ChainInvInductive, IndexInvInit, IndexInvInductive,
       AreaInvInit, AreaInvInductive, QueueInvInductive, PTL DEF Spec

\* Without that condition, the bound alone.
THEOREM HoldingAreaStaysBounded == Spec => []OrphanBlocksBounded
  <1>1. AreaInv => OrphanBlocksBounded
    BY DEF AreaInv
  <1> QED
    BY <1>1, ChainInvInit, ChainInvInductive, AreaInvInit, AreaInvInductive, PTL DEF Spec

-----------------------------------------------------------------------------
(* No better branch is missed.                                              *)

\* The tests of ConnectBlock that look at the node and not at the branch (the
\* clock, the InstantX locks, the payee, the subsidy at pindexBest) pass.
StateChecksPass ==
    pc = "SetBestChain" /\ hashBestChain # Null =>
        \A b \in Lineage[pblock] \ Lineage[hashBestChain] : CheckBlock(b) /\ RewardAllowed(b)

NeverCrashed == nCrashes = 0

Choosing == pc \in {"SetBestChain", "ConnectPostponed"}

\* No indexed block that could be connected beats the tip, but for the one
\* SetBestChain is just looking at.
BestInv ==
    /\ pc # "unbootable" /\ (pc = "down" => DOMAIN dbBlockIndex = {})
    /\ Choosing => TrustOf(pblock) > TrustOf(hashBestChain)
    /\ Alive => \A b \in DOMAIN dbBlockIndex : Connectable(b) =>
          TrustOf(b) <= TrustOf(hashBestChain) \/ (Choosing /\ b = pblock)

\* A connectable branch is a good ledger of blocks ConnectBlock does not reject.
LEMMA ConnectableGood ==
  ASSUME NEW b \in Block, Connectable(b)
  PROVE  GoodLedger(b) /\ Lineage[b] \cap BadConnect = {}
  BY DEF Connectable, GoodLedger

\* SetBestChain does not fail for a connectable block.
LEMMA ExtendSucceeds ==
  ASSUME ChainInv, IndexInv, ExactInv, StateChecksPass, pc = "SetBestChain", pblock \in Block,
         Connectable(pblock), Prev[pblock] = hashBestChain, hashBestChain # Null
  PROVE  ConnectBlock(TxnBegin, pblock).ok
  <1>1. hashBestChain = dbHashBest /\ dbTxIndex = IndexOf(Prev[pblock])
    BY DEF ExactInv, RecordsOf
  <1>2. GoodLedger(pblock) /\ ChecksPass(pblock)
    <2>1. pblock \in Lineage[pblock] \ Lineage[hashBestChain]
      BY LineageOfChild, LineageClosed
    <2> QED
      BY <2>1, ConnectableGood DEF StateChecksPass, ChecksPass
  <1>3. ConnectBlock(TxnBegin, pblock) = Batch(IndexOf(pblock), SetLink(dbBlockIndex, pblock))
    BY <1>1, <1>2, TxnBeginIs, ConnectBlockSucceeds
  <1>4. Batch(IndexOf(pblock), SetLink(dbBlockIndex, pblock)).ok = TRUE
    BY BatchFields
  <1> QED
    BY <1>3, <1>4, Zenon

\* The same for a reorganisation.
LEMMA ReorganizeToSucceeds ==
  ASSUME ChainInv, IndexInv, ExactInv, StateChecksPass, pc = "SetBestChain", pblock \in Block,
         Connectable(pblock), hashBestChain \in Block, NEW to \in Lineage[pblock]
  PROVE  Reorganized(to).ok
  <1>1. dbTxIndex = IndexOf(hashBestChain) /\ GoodLedger(hashBestChain)
    BY BlockTree DEF ExactInv, RecordsOf
  <1>2. IsIndex(dbTxIndex) /\ dbBlockIndex = [x \in DOMAIN dbBlockIndex |-> dbBlockIndex[x]]
        /\ mapBlockIndex = dbBlockIndex
    BY DEF IndexInv, StoreTypes, Mirrored, Alive
  <1>3. GoodLedger(to) /\ to \in Block
    BY ConnectableGood, AncestorsGood
  <1>4. \A a \in Lineage[to] : a \in Lineage[hashBestChain] \/ ChecksPass(a)
    BY BlockTree, LineageTransitive, ConnectableGood DEF StateChecksPass, ChecksPass
  <1>5. ~Failed(Reorganized(to))
    BY <1>1, <1>2, <1>3, <1>4, ReorganizeSucceeds
  <1>6. PICK Z : Reorganized(to) = Batch(Z, Relinked(to))
    BY <1>2, <1>3, <1>5, ReorganizedIs
  <1>7. Batch(Z, Relinked(to)).ok = TRUE
    BY BatchFields
  <1> QED
    BY <1>6, <1>7, Zenon

\* The tip moves to the block at hand, or the block is not connectable.
LEMMA EndKeepsBest ==
  ASSUME ChainInv, IndexInv, BestInv, Choosing, pblock \in Block, NEW accepted, Return(accepted),
         DOMAIN dbBlockIndex' = DOMAIN dbBlockIndex,
         \/ hashBestChain' = pblock
         \/ hashBestChain' = hashBestChain /\ ~Connectable(pblock)
  PROVE  BestInv'
  <1>1. pc' \in {"idle", "orphans"} /\ ~Choosing' /\ Alive
    BY Returns DEF ChainInv, ProgramTypes, Choosing, Alive
  <1>2. \A b \in DOMAIN dbBlockIndex : TrustOf(b) \in Nat
    BY TrustNat DEF IndexInv, StoreTypes
  <1>3. TrustOf(hashBestChain) \in Nat /\ TrustOf(pblock) \in Nat /\ TrustOf(pblock) > TrustOf(hashBestChain)
    BY TrustNat DEF ChainInv, ProgramTypes, BestInv
  <1>4. \A b \in DOMAIN dbBlockIndex' : Connectable(b) => TrustOf(b) <= TrustOf(hashBestChain')
    BY <1>1, <1>2, <1>3 DEF BestInv
  <1> QED
    BY <1>1, <1>4 DEF BestInv, Connectable, TrustOf

\* Every step keeps it, under the three conditions.
LEMMA BestInvInductive ==
  ASSUME ChainInv, IndexInv, ExactInv, StateChecksPass, BestInv, NeverCrashed, NeverCrashed', [Next]_vars
  PROVE  BestInv'
  <1>1. ASSUME dbBlockIndex' = dbBlockIndex, hashBestChain' = hashBestChain, Alive, Alive', ~Choosing, ~Choosing'
        PROVE  BestInv'
    BY <1>1 DEF BestInv, Alive, Connectable, TrustOf
  <1>2. ASSUME dbBlockIndex' = dbBlockIndex, hashBestChain' = hashBestChain, pc' = pc, pblock' = pblock
        PROVE  BestInv'
    BY <1>2 DEF BestInv, Alive, Choosing, Connectable, TrustOf
  <1>3. CASE UNCHANGED vars
    BY <1>2, <1>3 DEF vars, disk, frame
  <1>4. ASSUME NEW b \in Block, HoldOrphan(b)
        PROVE  BestInv'
    BY <1>2, <1>4 DEF HoldOrphan, disk, frame
  <1>5. ASSUME NEW b \in Block, AcceptBlock(b)
        PROVE  BestInv'
    BY <1>1, <1>5 DEF AcceptBlock, WriteToDisk, Alive, Choosing
  <1>6. ASSUME NEW b \in Block, AcceptOrphan(b)
        PROVE  BestInv'
    <2>1. CASE b \in BadContext
      BY <1>2, <1>6, <2>1 DEF AcceptOrphan, disk, frame
    <2>2. CASE b \notin BadContext
      BY <1>1, <1>6, <2>2 DEF AcceptOrphan, WriteToDisk, Alive, Choosing
    <2> QED
      BY <2>1, <2>2
  <1>7. CASE AddToBlockIndex
    <2>1. /\ pc = "AddToBlockIndex" /\ Alive /\ ~Choosing /\ hashBestChain' = hashBestChain
          /\ DOMAIN dbBlockIndex' = DOMAIN dbBlockIndex \cup {pblock} /\ pblock \in Block
      BY <1>7 DEF AddToBlockIndex, Alive, Choosing, ChainInv, ProgramTypes
    <2>2. \A b \in DOMAIN dbBlockIndex : Connectable(b) => TrustOf(b) <= TrustOf(hashBestChain)
      BY <2>1 DEF BestInv
    <2>3. CASE BetterThanTip(pblock)
      <3>1. pc' = "SetBestChain" /\ pblock' = pblock
        BY <1>7, <2>3 DEF AddToBlockIndex, frame
      <3> QED
        BY <2>1, <2>2, <2>3, <3>1 DEF BestInv, Choosing, Alive, BetterThanTip, Connectable, TrustOf
    <2>4. CASE ~BetterThanTip(pblock)
      <3>1. pc' \in {"idle", "orphans"}
        BY <1>7, <2>1, <2>4, Returns DEF AddToBlockIndex, ChainInv, ProgramTypes
      <3>2. TrustOf(pblock) \in Nat /\ TrustOf(hashBestChain) \in Nat
        BY <2>1, TrustNat DEF ChainInv, ProgramTypes
      <3>3. TrustOf(pblock) <= TrustOf(hashBestChain)
        BY <2>4, <3>2 DEF BetterThanTip
      <3>4. \A b \in DOMAIN dbBlockIndex' : Connectable(b) => TrustOf(b) <= TrustOf(hashBestChain)
        BY <2>1, <2>2, <3>3
      <3> QED
        BY <2>1, <3>1, <3>4 DEF BestInv, Choosing, Connectable, TrustOf
    <2> QED
      BY <2>3, <2>4
  <1>8. CASE SetGenesis
    <2>1. Choosing /\ pblock \in Block /\ hashBestChain' = pblock /\ dbBlockIndex' = dbBlockIndex /\ Return(TRUE)
      BY <1>8, BlockTree DEF SetGenesis, Choosing
    <2> QED
      BY <2>1, EndKeepsBest
  <1>9. CASE ExtendTip
    <2>1. /\ pc = "SetBestChain" /\ pblock \in DOMAIN dbBlockIndex /\ pblock \in Block
          /\ Prev[pblock] = hashBestChain /\ hashBestChain # Null
          /\ \/ /\ ~ConnectBlock(TxnBegin, pblock).ok
                /\ Return(FALSE) /\ UNCHANGED <<disk, mapBlockIndex, hashBestChain>>
             \/ Return(TRUE) /\ ConnectedOne(pblock) /\ hashBestChain' = pblock
      BY <1>9, ExtendEffect
    <2>2. Choosing
      BY <2>1 DEF Choosing
    <2>3. DOMAIN dbBlockIndex' = DOMAIN dbBlockIndex
      BY <2>1, OneKeepsIndex DEF disk
    <2>4. hashBestChain' = pblock \/ (hashBestChain' = hashBestChain /\ ~Connectable(pblock))
      BY <2>1, ExtendSucceeds
    <2> QED
      BY <2>1, <2>2, <2>3, <2>4, EndKeepsBest
  <1>10. CASE Reorganize
    <2>1. pc = "SetBestChain" /\ Choosing /\ pblock \in Block /\ hashBestChain \in Block
      BY <1>10, ReorganizeEffect DEF Choosing
    <2>2. PICK to \in Lineage[pblock] :
               \/ /\ ~Reorganized(to).ok
                  /\ Return(FALSE) /\ UNCHANGED <<disk, mapBlockIndex, hashBestChain>>
               \/ /\ ReorganizedTo(to)
                  /\ \/ to = pblock /\ hashBestChain' = pblock /\ Return(TRUE)
                     \/ /\ to # pblock /\ pc' = "ConnectPostponed"
                        /\ UNCHANGED <<hashBestChain, orphan, caller, pblock, vWorkQueue>>
      BY <1>10, ReorganizeEffect
    <2>3. ReorganizedTo(to) => DOMAIN dbBlockIndex' = DOMAIN dbBlockIndex
      BY <2>1 DEF ReorganizedTo, Relinked, IndexInv, Mirrored, Alive
    <2>4. CASE ~Reorganized(to).ok /\ Return(FALSE) /\ UNCHANGED <<disk, mapBlockIndex, hashBestChain>>
      <3>1. ~Connectable(pblock)
        BY <2>1, <2>4, ReorganizeToSucceeds
      <3> QED
        BY <2>1, <2>4, <3>1, EndKeepsBest DEF disk
    <2>5. CASE ReorganizedTo(to) /\ hashBestChain' = pblock /\ Return(TRUE)
      BY <2>1, <2>3, <2>5, EndKeepsBest
    <2>6. CASE ReorganizedTo(to) /\ pc' = "ConnectPostponed" /\ UNCHANGED <<hashBestChain, pblock>>
      BY <2>1, <2>3, <2>6 DEF BestInv, Choosing, Alive, Connectable, TrustOf
    <2> QED
      BY <2>2, <2>4, <2>5, <2>6
  <1>11. CASE ConnectPostponed
    <2>1. pc = "ConnectPostponed" /\ Choosing /\ pblock \in Block
      BY <1>11, PostponedEffect DEF Choosing
    <2>2. PICK b \in Lineage[pblock] :
               /\ b \in DOMAIN dbBlockIndex /\ b \in Block
               /\ UNCHANGED <<disk, mapBlockIndex>> \/ ConnectedOne(b)
               /\ \/ hashBestChain' = pblock /\ Return(TRUE)
                  \/ UNCHANGED <<hashBestChain, orphan, pc, caller, pblock, vWorkQueue>>
      BY <1>11, PostponedEffect
    <2>3. DOMAIN dbBlockIndex' = DOMAIN dbBlockIndex
      BY <2>2, OneKeepsIndex DEF disk
    <2>4. CASE hashBestChain' = pblock /\ Return(TRUE)
      BY <2>1, <2>3, <2>4, EndKeepsBest
    <2>5. CASE UNCHANGED <<hashBestChain, orphan, pc, caller, pblock, vWorkQueue>>
      BY <2>1, <2>3, <2>5 DEF BestInv, Choosing, Alive, Connectable, TrustOf
    <2> QED
      BY <2>2, <2>4, <2>5
  <1>12. CASE NextInQueue
    BY <1>1, <1>12 DEF NextInQueue, Alive, Choosing, disk
  <1>13. CASE Crash
    BY <1>13 DEF Crash, NeverCrashed
  <1>14. CASE LoadEmpty
    <2>1. DOMAIN dbBlockIndex' = {} /\ pc' = "AddToBlockIndex"
      BY <1>14 DEF LoadEmpty, WriteToDisk
    <2> QED
      BY <2>1 DEF BestInv, Choosing
  <1>15. CASE LoadFails \/ LoadBlockIndex
    BY <1>15 DEF LoadFails, LoadBlockIndex, BestInv, ChainInv, GenesisFirst
  <1>16. ASSUME NEW l \in Lockable, LockInput(l) \/ UnlockInput(l)
         PROVE  BestInv'
    BY <1>2, <1>16 DEF LockInput, UnlockInput, disk, frame
  <1>17. CASE ClockChange
    BY <1>2, <1>17 DEF ClockChange, disk, frame
  <1> QED
    BY <1>3, <1>4, <1>5, <1>6, <1>7, <1>8, <1>9, <1>10, <1>11, <1>12, <1>13, <1>14, <1>15, <1>16, <1>17
    DEF Next, ProcessBlock, Load, SetBestChain

\* At rest no connectable block the node knows has more trust than its tip:
\* neither a reorganisation that fails half way, nor postponing, nor the order
\* of arrival makes SetBestChain miss a branch that no rule of the ledger
\* speaks against.  The conditions are those the code needs: the tests on the
\* node's own state pass, memory and disk agree on the tip, and no crash has
\* come between the record of a block and its connection, which a restart
\* would not take up again.
THEOREM NoBetterBranchMissed ==
  Spec /\ []TipIsOnDisk /\ []StateChecksPass /\ []NeverCrashed => []TipIsMostTrusted
  <1>1. Init => BestInv
    BY DEF Init, BestInv, Choosing, Alive, EmptyIndex
  <1>2. IndexInv /\ BestInv => TipIsMostTrusted
    BY DEF IndexInv, Mirrored, BestInv, Choosing, Alive, TipIsMostTrusted
  <1> QED
    BY <1>1, <1>2, ChainInvInit, ChainInvInductive, IndexInvInit, IndexInvInductive,
       ExactInvInit, ExactInvInductive, BestInvInductive, PTL DEF Spec
=============================================================================
