------------------------------ MODULE TxIndex ------------------------------
(***************************************************************************)
(* The transaction index ("tx" records of the LevelDB database): for every *)
(* transaction of the best chain, the block file position that holds it    *)
(* (CTxIndex::pos) and, for every output, the position of the transaction  *)
(* that spends it (CTxIndex::vSpent, null while unspent).  This module has *)
(* no state of its own: it defines what connecting and disconnecting a     *)
(* block does to an index, for the modules that keep one.                  *)
(*                                                                         *)
(* A position on disk is abstracted to the block it lies in.  A block's    *)
(* transactions are distinct (CheckBlock rejects duplicate txids), so the  *)
(* per-transaction loops over vtx are stated by quantifying over indices.  *)
(***************************************************************************)
EXTENDS Integers, Sequences, FiniteSets, Functions

CONSTANTS
    Block,          \* every block that can reach the node
    Genesis,        \* Params().GenesisBlock()
    Prev,           \* Prev[b]: hashPrevBlock, Null for the genesis block
    BlockTrust,     \* BlockTrust[b]: CBlockIndex::GetBlockTrust
    Vtx,            \* Vtx[b]: the sequence of transactions of the block
    Tx,             \* every transaction
    Vin,            \* Vin[t]: the set of outpoints <<tx, n>> it spends
    Vout,           \* Vout[t]: how many outputs it has
    Generated,      \* coinbase and coinstake transactions
    Maturity,       \* nCoinbaseMaturity
    Null            \* the null hash, the null pointer, the null position

ASSUME BlockTree ==
    /\ Null \notin Block \cup Tx
    /\ Genesis \in Block
    /\ Prev \in [Block -> Block \cup {Null}]
    /\ \A b \in Block : Prev[b] = Null <=> b = Genesis
    /\ BlockTrust \in [Block -> Nat \ {0}]

ASSUME Transactions ==
    /\ Vtx \in [Block -> Seq(Tx)]
    /\ Vout \in [Tx -> Nat]
    /\ Vin \in [Tx -> SUBSET (Tx \X Nat)]
    /\ Generated \subseteq Tx
    /\ Maturity \in Nat

-----------------------------------------------------------------------------
(***************************************************************************)
(* The block tree, as CBlockIndex::pprev spans it.                         *)
(***************************************************************************)

\* The block and all its ancestors, what following pprev to the end visits:
\* the least set that holds b and the parents of its members.
Lineage ==
    [b \in Block |->
        {a \in Block : \A S \in SUBSET Block :
            b \in S /\ (\A s \in S : Prev[s] # Null => Prev[s] \in S) => a \in S}]

\* CBlockIndex::nHeight.
Height[b \in Block] == IF Prev[b] = Null THEN 0 ELSE Height[Prev[b]] + 1

\* CBlockIndex::nChainTrust.
ChainTrust[b \in Block] ==
    BlockTrust[b] + (IF Prev[b] = Null THEN 0 ELSE ChainTrust[Prev[b]])

\* Following pprev ends, so the two functions above obey their definitions.
ASSUME PrevEnds ==
    \A b \in Block :
        /\ Height[b] \in Nat /\ ChainTrust[b] \in Nat
        /\ IF Prev[b] = Null
           THEN Height[b] = 0 /\ ChainTrust[b] = BlockTrust[b]
           ELSE /\ Height[b] = Height[Prev[b]] + 1
                /\ ChainTrust[b] = BlockTrust[b] + ChainTrust[Prev[b]]

\* The last block common to the branches that end in a and b.
LastCommon(a, b) ==
    CHOOSE f \in Lineage[a] \cap Lineage[b] :
        \A g \in Lineage[a] \cap Lineage[b] : Height[g] <= Height[f]

\* The blocks after ancestor f up to b, in the order they are connected.
PathUp(f, b) ==
    [i \in 1..(Height[b] - Height[f]) |->
        CHOOSE a \in Lineage[b] : Height[a] = Height[f] + i]

-----------------------------------------------------------------------------
(***************************************************************************)
(* Connecting a block.                                                     *)
(***************************************************************************)

TxsOf(b)     == Range(Vtx[b])
Earlier(b,i) == {Vtx[b][j] : j \in 1..(i - 1)}
Spends(b)    == UNION {Vin[t] : t \in TxsOf(b)}

\* An index that holds no record.
EmptyIndex == [t \in {} |-> Null]

\* CTxIndex: a record has the position of its transaction and one spent
\* position, possibly null, for each of the transaction's outputs.
IsIndex(index) ==
    /\ DOMAIN index \subseteq Tx
    /\ \A t \in DOMAIN index :
        index[t] \in [pos : Block, vSpent : [0..(Vout[t] - 1) -> Block \cup {Null}]]

\* ConnectBlock's BIP30 test: a transaction id that is already indexed may
\* come again only when every output of the old one is spent.
OverwritesUnspent(index, t) ==
    /\ t \in DOMAIN index
    /\ \E n \in DOMAIN index[t].vSpent : index[t].vSpent[n] = Null

\* FetchInputs: the previous transaction is found, among the changes this
\* block has queued or in the index, and has the output.
InputFound(index, queued, o) ==
    /\ o[1] \in queued \cup DOMAIN index
    /\ o[2] < Vout[o[1]]

\* ConnectInputs' maturity loop walks back from the block at hand and
\* compares positions: an output generated fewer than Maturity blocks ago on
\* this very branch may not be spent.
Immature(pos, b) ==
    \E a \in Lineage[b] : Height[b] - Height[a] < Maturity /\ a = pos

\* What ConnectBlock, FetchInputs and ConnectInputs require of the inputs of
\* the i-th transaction of b.
TxConnects(index, b, i) ==
    LET t == Vtx[b][i] IN
    /\ ~OverwritesUnspent(index, t)
    /\ \A o \in Vin[t] :
        /\ InputFound(index, Earlier(b, i), o)
        /\ o[1] \in Generated =>
              ~Immature(IF o[1] \in Earlier(b, i) THEN b ELSE index[o[1]].pos, b)
        /\ \A s \in Earlier(b, i) : o \notin Vin[s]
        /\ o[1] \notin Earlier(b, i) => index[o[1]].vSpent[o[2]] = Null

InputsConnect(index, b) == \A i \in DOMAIN Vtx[b] : TxConnects(index, b, i)

\* A slip: one spent slot too many.
ConnectedOneSlotMore(index, b) ==
    [t \in DOMAIN index \cup TxsOf(b) |->
        IF t \in TxsOf(b) THEN [pos |-> b, vSpent |-> [n \in 0..Vout[t] |-> Null]]
        ELSE index[t]]

\* The index once the queued changes of b are written: a fresh record for
\* every transaction of b, and b noted as the place its inputs are spent.
Connected(index, b) ==
    [t \in DOMAIN index \cup TxsOf(b) |->
        LET old == IF t \in TxsOf(b)
                   THEN [pos |-> b, vSpent |-> [n \in 0..(Vout[t] - 1) |-> Null]]
                   ELSE index[t]
        IN [old EXCEPT !.vSpent =
              [n \in DOMAIN @ |-> IF <<t, n>> \in Spends(b) THEN b ELSE @[n]]]]

-----------------------------------------------------------------------------
(***************************************************************************)
(* Disconnecting a block: CBlock::DisconnectBlock runs DisconnectInputs on *)
(* its transactions from the last to the first.                            *)
(***************************************************************************)

\* DisconnectInputs fails when the record of a spent output is missing.
InputsDisconnect(index, b) ==
    \A o \in Spends(b) : o[1] \in DOMAIN index /\ o[2] \in DOMAIN index[o[1]].vSpent

\* A slip: the marks are cleared, the records of the block's transactions stay.
DisconnectedKeepsRecords(index, b) ==
    [t \in DOMAIN index |->
        [index[t] EXCEPT !.vSpent =
            [n \in DOMAIN @ |-> IF <<t, n>> \in Spends(b) THEN Null ELSE @[n]]]]

\* The spent marks of the block's inputs are cleared, whoever set them, and
\* its own transactions leave the index.
Disconnected(index, b) ==
    [t \in DOMAIN index \ TxsOf(b) |->
        [index[t] EXCEPT !.vSpent =
            [n \in DOMAIN @ |-> IF <<t, n>> \in Spends(b) THEN Null ELSE @[n]]]]

-----------------------------------------------------------------------------
(***************************************************************************)
(* The reference: what the index should say when b ends the best chain,    *)
(* stated from the chain alone.                                            *)
(***************************************************************************)

\* The genesis block is never connected (SetBestChain only records its
\* hash), so its transactions are not part of the ledger.
Ledger(b) == Lineage[b] \ {Genesis}

IndexOf(b) ==
    [t \in UNION {TxsOf(c) : c \in Ledger(b)} |->
        [pos    |-> CHOOSE c \in Ledger(b) : t \in TxsOf(c),
         vSpent |-> [n \in 0..(Vout[t] - 1) |->
                        IF \E c \in Ledger(b) : <<t, n>> \in Spends(c)
                        THEN CHOOSE c \in Ledger(b) : <<t, n>> \in Spends(c)
                        ELSE Null]]]

\* A chain that obeys the ledger rules: every input is an output of an
\* earlier transaction of this chain, generated outputs are mature, and no
\* output is spent twice.
SoundLedger(b) ==
    \A c \in Ledger(b) : \A i \in DOMAIN Vtx[c] : \A o \in Vin[Vtx[c][i]] :
        /\ \E d \in Ledger(c) : \E j \in DOMAIN Vtx[d] :
              /\ Vtx[d][j] = o[1]
              /\ d = c => j < i
              /\ o[1] \in Generated => Height[c] - Height[d] >= Maturity
        /\ o[2] < Vout[o[1]]
        /\ \A d \in Ledger(b) : \A j \in DOMAIN Vtx[d] :
              o \in Vin[Vtx[d][j]] => <<d, j>> = <<c, i>>
=============================================================================
