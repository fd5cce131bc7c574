--------------------------- MODULE DarksendProofs ---------------------------
(* Proofs about the masternode's side of a Darksend mix (DarksendMaster), for
   any number of clients, attempts and coins mixed at a time: the session is
   consistent, and no signature for another transaction is ever taken.        *)
EXTENDS DarksendMaster, TLAPS

-----------------------------------------------------------------------------
(* The inductive invariant.                                                   *)

Entry == [c : Clients, a : Nat, born : Nat, sig : SUBSET Names]
Msg == [kind : {"dsa", "dsi"}, a : Nat] \union [kind : {"dss"}, sig : SUBSET Names]

(* The types of the pool, the elements of sequences included.                 *)
PoolTypes ==
    /\ state \in States /\ users \in 0..MaxTx
    /\ denom \in {{}} \union {{Denom[c]} : c \in Clients}
    /\ collateral \in Seq(Names)
    /\ entries \in Seq(Entry) /\ EntryNames(entries) \subseteq Names
    /\ final \subseteq Names /\ finalSig \in [Clients -> SUBSET Names]
    /\ session \in Nat /\ id \in Nat

HistoryTypes ==
    /\ charged \subseteq Names /\ fined \subseteq charged /\ turnedAway \subseteq Names
    /\ spent \subseteq Clients

(* The types of the clients and of what is under way.                         *)
ClientTypes ==
    /\ phase \in [Clients -> Phases] /\ attempt \in [Clients -> Nat] /\ joined \in [Clients -> Nat]
    /\ \A c \in Clients : attempt[c] <= MaxAttempts[c]
    /\ chan \in [Clients -> Seq(Msg)]
    /\ \A c \in Clients : Len(chan[c]) <= 2
    /\ \A c \in Clients : \A i \in DOMAIN chan[c] :
          chan[c][i].kind # "dss" => 1 <= chan[c][i].a /\ chan[c][i].a <= attempt[c]
    /\ relayed \subseteq [id : Nat, tx : SUBSET Names]

Types == PoolTypes /\ HistoryTypes /\ ClientTypes

(* Entries of one session, all of one denomination.                           *)
OneSession(es) ==
    \A i, j \in DOMAIN es : es[i].born = session /\ Denom[es[i].c] = Denom[es[j].c]

OneEntryEach(es) == \A i, j \in DOMAIN es : es[i].c = es[j].c => i = j

(* The pool: before signing there is no final transaction and no signature;
   entries that a timeout left behind stay only while no user is counted.     *)
PoolInv ==
    /\ state # "finalize" /\ OneEntryEach(entries)
    /\ state # "signing" =>
          /\ final = {} /\ Len(entries) < MaxTx
          /\ \A i \in DOMAIN entries : entries[i].sig = NoSig
          /\ \A c \in Clients : finalSig[c] = NoSig
    /\ state = "accepting" /\ users # 0 => Len(entries) <= users /\ OneSession(entries)
    /\ state = "queue" => users # 0 /\ entries = <<>> /\ denom # {}
    /\ users # 0 => collateral # <<>>
    /\ state = "signing" =>
          /\ users >= MaxTx - 1 /\ Len(entries) = MaxTx
          /\ final = EntryNames(entries) /\ OneSession(entries)

(* The a-th attempt of c has reached the pool, now or for a final transaction. *)
Done(c, a) == <<c, a>> \in EntryNames(entries) \/ \E f \in relayed : <<c, a>> \in f.tx

Submitted(c) == phase[c] \in {"submitted", "signed"}

(* Every attempt is submitted once, and in their order.                       *)
AttemptsInOrder ==
    /\ \A c \in Clients, a \in Nat : Done(c, a) =>
          /\ a <= attempt[c] /\ (a = attempt[c] => Submitted(c))
          /\ \A b \in Nat : <<c, b>> \in EntryNames(entries) => a <= b
    /\ \A c \in Clients : attempt[c] = 0 => phase[c] = "idle"

(* An entry on its way is newer than what has reached the pool and than the
   entries before it.                                                         *)
EntriesUnderWay ==
    \A c \in Clients : \A i \in DOMAIN chan[c] : chan[c][i].kind = "dsi" =>
        /\ chan[c][i].a = attempt[c] => Submitted(c)
        /\ \A a \in Nat : Done(c, a) => a < chan[c][i].a
        /\ \A j \in DOMAIN chan[c] : chan[c][j].kind = "dsi" /\ i < j => chan[c][i].a < chan[c][j].a

(* A signature on its way is for a transaction with the client's newest entry
   that has reached the pool, and no entry is on its way before it.           *)
Newest(c, tx) == \E a \in Nat : <<c, a>> \in tx /\ \A b \in Nat : Done(c, b) => b <= a

SignaturesUnderWay ==
    \A c \in Clients : \A i \in DOMAIN chan[c] : chan[c][i].kind = "dss" =>
        /\ \E f \in relayed : chan[c][i].sig = f.tx
        /\ Newest(c, chan[c][i].sig)
        /\ \A j \in DOMAIN chan[c] : j < i => chan[c][j].kind # "dsi"

(* An entry is in one final transaction, which is the one being signed as long
   as the entry is in the pool.                                               *)
OneTransactionEach ==
    /\ \A n \in EntryNames(entries), f \in relayed : n \in f.tx => state = "signing" /\ f.tx = final
    /\ \A f, g \in relayed, n \in Names : n \in f.tx /\ n \in g.tx => f.tx = g.tx

OrderInv == AttemptsInOrder /\ EntriesUnderWay /\ SignaturesUnderWay /\ OneTransactionEach

(* The signatures taken are those of the transaction being signed.            *)
SigInv ==
    state = "signing" =>
        \A i \in DOMAIN entries :
            entries[i].sig \in {NoSig, final} /\ finalSig[entries[i].c] = entries[i].sig

Inv == Types /\ PoolInv /\ OrderInv /\ SigInv

-----------------------------------------------------------------------------
(* Facts the steps have in common.                                            *)

(* The names of a sequence of entries, one by one.                            *)
LEMMA NamesAre ==
  ASSUME NEW c \in Clients, NEW a \in Nat, 1 <= a, a <= MaxAttempts[c]
  PROVE  <<c, a>> \in Names
  <1>1. MaxAttempts[c] \in Nat
    BY AttemptsAssumption
  <1>2. <<c, a>> \in {c} \X (1..MaxAttempts[c])
    BY <1>1
  <1> QED
    BY <1>2 DEF Names

(* A name is a client and one of its attempts.                                *)
LEMMA NameParts ==
  ASSUME NEW n \in Names
  PROVE  n = <<n[1], n[2]>> /\ n[1] \in Clients /\ n[2] \in Nat
  <1>1. PICK c \in Clients : n \in {c} \X (1..MaxAttempts[c])
    BY DEF Names
  <1>2. MaxAttempts[c] \in Nat
    BY AttemptsAssumption
  <1> QED
    BY <1>1, <1>2

(* What the first message of c says.                                          *)
LEMMA HeadIs ==
  ASSUME ClientTypes, NEW c \in Clients, chan[c] # <<>>
  PROVE  /\ chan[c] \in Seq(Msg) /\ 1 \in DOMAIN chan[c] /\ Head(chan[c]) = chan[c][1] /\ Head(chan[c]) \in Msg
         /\ Head(chan[c]).kind # "dss" =>
               /\ Head(chan[c]).a \in Nat /\ Head(chan[c]).a <= attempt[c]
               /\ <<c, Head(chan[c]).a>> \in Names
         /\ Head(chan[c]).kind = "dss" => Head(chan[c]).sig \in SUBSET Names
  <1>1. chan[c] \in Seq(Msg) /\ attempt[c] \in Nat /\ attempt[c] <= MaxAttempts[c] /\ MaxAttempts[c] \in Nat
    BY AttemptsAssumption DEF ClientTypes
  <1>2. 1 \in DOMAIN chan[c] /\ Head(chan[c]) = chan[c][1] /\ Head(chan[c]) \in Msg
    BY <1>1
  <1>3. Head(chan[c]).kind = "dss" => Head(chan[c]).sig \in SUBSET Names
    BY <1>2 DEF Msg
  <1>4. Head(chan[c]).kind # "dss" => /\ Head(chan[c]).a \in Nat
                                      /\ 1 <= Head(chan[c]).a /\ Head(chan[c]).a <= attempt[c]
    BY <1>2 DEF Msg, ClientTypes
  <1> QED
    BY <1>1, <1>2, <1>3, <1>4, NamesAre

(* The channels lost messages from the front only.                            *)
ChanShrinks ==
    /\ chan' \in [Clients -> Seq(Msg)]
    /\ \A c \in Clients : Len(chan'[c]) <= Len(chan[c])
    /\ \A c \in Clients : \E d \in {0, 1} : \A i \in DOMAIN chan'[c] :
          i + d \in DOMAIN chan[c] /\ chan'[c][i] = chan[c][i + d]

(* Channels that a step leaves alone.                                         *)
LEMMA ChanSame ==
  ASSUME ClientTypes, chan' = chan
  PROVE  ChanShrinks
  <1>1. chan' \in [Clients -> Seq(Msg)]
    BY DEF ClientTypes
  <1>2. ASSUME NEW c \in Clients
        PROVE  Len(chan'[c]) <= Len(chan[c]) /\ \A i \in DOMAIN chan'[c] : i + 0 \in DOMAIN chan[c] /\ chan'[c][i] = chan[c][i + 0]
    BY <1>1
  <1> QED
    BY <1>1, <1>2 DEF ChanShrinks

(* A channel whose first message is taken.                                    *)
LEMMA ChanTaken ==
  ASSUME ClientTypes, NEW c \in Clients, chan[c] # <<>>, Take(c)
  PROVE  ChanShrinks
  <1>1. chan' = [chan EXCEPT ![c] = Tail(chan[c])] /\ chan \in [Clients -> Seq(Msg)]
    BY DEF Take, ClientTypes
  <1>2. chan[c] \in Seq(Msg)
    BY <1>1
  <1>3. /\ Tail(chan[c]) \in Seq(Msg) /\ Len(Tail(chan[c])) <= Len(chan[c])
        /\ \A i \in DOMAIN Tail(chan[c]) : i + 1 \in DOMAIN chan[c] /\ Tail(chan[c])[i] = chan[c][i + 1]
    BY <1>2
  <1>4. chan' \in [Clients -> Seq(Msg)] /\ chan'[c] = Tail(chan[c])
    BY <1>1, <1>3
  <1>5. ASSUME NEW b \in Clients, b # c
        PROVE  chan'[b] = chan[b] /\ chan[b] \in Seq(Msg) /\ Len(chan'[b]) <= Len(chan[b])
               /\ \A i \in DOMAIN chan'[b] : i + 0 \in DOMAIN chan[b] /\ chan'[b][i] = chan[b][i + 0]
    <2>1. chan'[b] = chan[b] /\ chan[b] \in Seq(Msg)
      BY <1>1, <1>5
    <2> QED
      BY <2>1
  <1> QED
    <2>1. \A b \in Clients : Len(chan'[b]) <= Len(chan[b])
      BY <1>3, <1>4, <1>5
    <2>2. \A b \in Clients : b # c => \A i \in DOMAIN chan'[b] :
            i + 0 \in DOMAIN chan[b] /\ chan'[b][i] = chan[b][i + 0]
      BY <1>5
    <2>3. \A i \in DOMAIN chan'[c] : i + 1 \in DOMAIN chan[c] /\ chan'[c][i] = chan[c][i + 1]
      BY <1>3, <1>4
    <2>4. \A b \in Clients : \E d \in {0, 1} : \A i \in DOMAIN chan'[b] :
            i + d \in DOMAIN chan[b] /\ chan'[b][i] = chan[b][i + d]
      BY <2>2, <2>3
    <2> QED
      BY <1>4, <2>1, <2>4 DEF ChanShrinks

(* A channel that is cut.                                                     *)
LEMMA ChanCut ==
  ASSUME ClientTypes, NEW c \in Clients, chan' = [chan EXCEPT ![c] = <<>>]
  PROVE  ChanShrinks
  <1>1. chan \in [Clients -> Seq(Msg)]
    BY DEF ClientTypes
  <1>2. chan' \in [Clients -> Seq(Msg)] /\ chan'[c] = <<>>
    BY <1>1
  <1>3. Len(chan'[c]) <= Len(chan[c]) /\ \A i \in DOMAIN chan'[c] : i + 0 \in DOMAIN chan[c] /\ chan'[c][i] = chan[c][i + 0]
    BY <1>1, <1>2
  <1>4. ASSUME NEW b \in Clients, b # c
        PROVE  Len(chan'[b]) <= Len(chan[b])
               /\ \A i \in DOMAIN chan'[b] : i + 0 \in DOMAIN chan[b] /\ chan'[b][i] = chan[b][i + 0]
    <2>1. chan'[b] = chan[b] /\ chan[b] \in Seq(Msg)
      BY <1>1, <1>4
    <2> QED
      BY <2>1
  <1> QED
    BY <1>2, <1>3, <1>4 DEF ChanShrinks

(* A step that sends nothing keeps the types of the clients.                  *)
LEMMA ClientTypesKept ==
  ASSUME ClientTypes, ChanShrinks, phase' \in [Clients -> Phases], joined' \in [Clients -> Nat],
         attempt' = attempt, relayed' \subseteq [id : Nat, tx : SUBSET Names]
  PROVE  ClientTypes'
  <1>1. \A c \in Clients : Len(chan'[c]) <= 2
    <2> SUFFICES ASSUME NEW c \in Clients PROVE Len(chan'[c]) <= 2
      OBVIOUS
    <2>1. Len(chan'[c]) \in Nat /\ Len(chan[c]) \in Nat
      BY DEF ChanShrinks, ClientTypes
    <2> QED
      BY <2>1 DEF ChanShrinks, ClientTypes
  <1>2. \A c \in Clients : \A i \in DOMAIN chan'[c] :
          chan'[c][i].kind # "dss" => 1 <= chan'[c][i].a /\ chan'[c][i].a <= attempt[c]
    <2> SUFFICES ASSUME NEW c \in Clients, NEW i \in DOMAIN chan'[c], chan'[c][i].kind # "dss"
                 PROVE  1 <= chan'[c][i].a /\ chan'[c][i].a <= attempt[c]
      OBVIOUS
    <2>1. PICK d \in {0, 1} : i + d \in DOMAIN chan[c] /\ chan'[c][i] = chan[c][i + d]
      BY DEF ChanShrinks
    <2> QED
      BY <2>1 DEF ClientTypes
  <1> QED
    BY <1>1, <1>2 DEF ChanShrinks, ClientTypes

(* The pool as SetNull leaves it.                                             *)
LEMMA SetNullIs ==
  ASSUME PoolTypes, NEW e \in BOOLEAN, SetNull(e), session' = session
  PROVE  PoolTypes' /\ PoolInv' /\ EntryNames(entries') = {} /\ state' = "accepting"
  <1>1. /\ state' = "accepting" /\ users' = 0 /\ denom' = {} /\ collateral' = <<>>
        /\ entries' = <<>> /\ final' = {} /\ finalSig' = [c \in Clients |-> NoSig] /\ id' \in Nat
    BY DEF SetNull, PoolTypes
  <1>2. EntryNames(<<>>) = {} /\ DOMAIN <<>> = {} /\ Len(<<>>) = 0
    BY DEF EntryNames
  <1>3. 0 \in 0..MaxTx /\ 0 < MaxTx
    BY MaxTxAssumption
  <1>4. PoolTypes'
    BY <1>1, <1>2, <1>3 DEF PoolTypes, States, NoSig, EntryNames, Name
  <1>5. PoolInv'
    BY <1>1, <1>2, <1>3 DEF PoolInv, OneEntryEach, NoSig
  <1> QED
    BY <1>1, <1>2, <1>4, <1>5

(* Steps that leave the pool alone.                                           *)
LEMMA PoolSame ==
  ASSUME PoolTypes, PoolInv, UNCHANGED <<pool, session>>
  PROVE  PoolTypes' /\ PoolInv'
  <1>1. PoolTypes'
    BY DEF PoolTypes, pool, EntryNames, Name
  <1>2. PoolInv'
    BY DEF PoolInv, pool, OneEntryEach, OneSession, EntryNames, Name
  <1> QED
    BY <1>1, <1>2

(* Those who are charged are names.                                           *)
LEMMA ChargeFeesTypes ==
  ASSUME PoolTypes, HistoryTypes, ChargeFees, UNCHANGED <<spent, turnedAway>>
  PROVE  HistoryTypes'
  <1>1. CASE UNCHANGED fees
    BY <1>1 DEF fees, HistoryTypes
  <1>2. CASE ~UNCHANGED fees
    <2>1. PICK i \in Offenders : /\ charged' = charged \union {CollateralOf(i)}
                                 /\ fined' = fined \union {CollateralOf(i)}
      BY <1>2 DEF ChargeFees
    <2>2. CollateralOf(i) \in Names
      <3>1. CASE state = "accepting"
        BY <3>1 DEF Offenders, CollateralOf, PoolTypes
      <3>2. CASE state # "accepting"
        <4>1. i \in DOMAIN entries
          BY <3>2 DEF Offenders
        <4> QED
          BY <3>2, <4>1 DEF CollateralOf, PoolTypes, EntryNames
      <3> QED
        BY <3>1, <3>2
    <2> QED
      BY <2>1, <2>2 DEF HistoryTypes
  <1> QED
    BY <1>1, <1>2

-----------------------------------------------------------------------------
(* Types and the pool, action by action.                                      *)

Base == Types /\ PoolInv

(* The pool is empty at first.                                                *)
LEMMA InitBase == Init => Base
  <1> SUFFICES ASSUME Init PROVE Base
    OBVIOUS
  <1>1. EntryNames(<<>>) = {} /\ DOMAIN <<>> = {} /\ Len(<<>>) = 0
    BY DEF EntryNames
  <1>2. 0 \in 0..MaxTx /\ 0 < MaxTx
    BY MaxTxAssumption
  <1>3. PoolTypes
    BY <1>1, <1>2 DEF Init, PoolTypes, States, NoSig
  <1>4. HistoryTypes
    BY DEF Init, HistoryTypes
  <1>5. ClientTypes
    <2>1. \A c \in Clients : MaxAttempts[c] \in Nat
      BY AttemptsAssumption
    <2>2. chan \in [Clients -> Seq(Msg)] /\ \A c \in Clients : chan[c] = <<>>
      BY DEF Init
    <2>3. \A c \in Clients : Len(chan[c]) <= 2
      BY <2>2, <1>1
    <2>4. \A c \in Clients : DOMAIN chan[c] = {}
      BY <2>2, <1>1
    <2>5. \A c \in Clients : attempt[c] <= MaxAttempts[c]
      BY <2>1 DEF Init
    <2>6. phase \in [Clients -> Phases] /\ attempt \in [Clients -> Nat] /\ joined \in [Clients -> Nat]
      BY DEF Init, Phases
    <2> QED
      BY <2>2, <2>3, <2>4, <2>5, <2>6 DEF ClientTypes, Init
  <1>6. PoolInv
    BY <1>1, <1>2 DEF Init, PoolInv, OneEntryEach
  <1> QED
    BY <1>3, <1>4, <1>5, <1>6 DEF Base, Types

(* "dsa", taken: types and pool.                                              *)
LEMMA AcceptUserBase ==
  ASSUME Base, NEW c \in Clients, AcceptUser(c)
  PROVE  Base' /\ ChanShrinks
  <1> USE DEF Base, Types
  <1>1. chan[c] # <<>> /\ Head(chan[c]).kind = "dsa" /\ CanJoin(c) /\ Take(c)
    BY DEF AcceptUser, Received
  <1>2. <<c, Head(chan[c]).a>> \in Names
    BY <1>1, HeadIs
  <1>3. ChanShrinks
    BY <1>1, ChanTaken
  <1>4. ClientTypes'
    <2>1. phase' \in [Clients -> Phases] /\ joined' \in [Clients -> Nat]
      BY DEF AcceptUser, ClientTypes, PoolTypes, Phases
    <2>2. attempt' = attempt /\ relayed' \subseteq [id : Nat, tx : SUBSET Names]
      BY DEF AcceptUser, ClientTypes
    <2> QED
      BY <2>1, <2>2, <1>3, ClientTypesKept
  <1>5. HistoryTypes'
    BY DEF AcceptUser, HistoryTypes, fees
  <1>6. /\ collateral' \in Seq(Names) /\ collateral' # <<>>
        /\ users \in Nat /\ users' = users + 1 /\ users' <= MaxTx /\ users' # 0
    <2>1. collateral' = Append(collateral, <<c, Head(chan[c]).a>>) /\ collateral \in Seq(Names)
      BY DEF AcceptUser, PoolTypes
    <2>2. users' = users + 1 /\ (users = 0 \/ users < MaxTx) /\ users \in 0..MaxTx
      BY <1>1 DEF AcceptUser, CanJoin, PoolTypes
    <2>3. MaxTx \in Nat /\ MaxTx > 1
      BY MaxTxAssumption
    <2>4. Append(collateral, <<c, Head(chan[c]).a>>) \in Seq(Names) /\ Append(collateral, <<c, Head(chan[c]).a>>) # <<>>
      BY <2>1, <1>2
    <2> QED
      BY <2>1, <2>2, <2>3, <2>4
  <1>7. CASE users = 0
    <2>1. /\ state' = "queue" /\ denom' = {Denom[c]} /\ entries' = <<>> /\ session' = session + 1
          /\ UNCHANGED <<final, finalSig, id>>
      BY <1>7 DEF AcceptUser
    <2>2. EntryNames(<<>>) = {} /\ DOMAIN <<>> = {} /\ Len(<<>>) = 0 /\ 0 < MaxTx
      BY MaxTxAssumption DEF EntryNames
    <2>3. state # "signing"
      BY <1>7, MaxTxAssumption DEF PoolInv
    <2>4. PoolTypes'
      BY <2>1, <2>2, <1>6 DEF PoolTypes, States, EntryNames, Name
    <2>5. PoolInv'
      BY <2>1, <2>2, <2>3, <1>6 DEF PoolInv, OneEntryEach
    <2> QED
      BY <2>4, <2>5, <1>3, <1>4, <1>5
  <1>8. CASE users # 0
    <2>1. UNCHANGED <<state, denom, entries, session, final, finalSig, id>>
      BY <1>8 DEF AcceptUser
    <2>2. state \in {"accepting", "queue"}
      BY <1>1, <1>8 DEF CanJoin
    <2>3. PoolTypes'
      BY <2>1, <1>6 DEF PoolTypes, EntryNames, Name
    <2>4. Len(entries) \in Nat
      BY DEF PoolTypes
    <2>5. state = "accepting" => Len(entries) <= users' /\ OneSession(entries)
      BY <1>6, <1>8, <2>4 DEF PoolInv
    <2>6. PoolInv'
      BY <2>1, <2>2, <2>5, <1>6, <1>8 DEF PoolInv, OneEntryEach, OneSession
    <2> QED
      BY <2>3, <2>6, <1>3, <1>4, <1>5
  <1> QED
    BY <1>7, <1>8

(* A message that changes nothing but, perhaps, the history.                  *)
LEMMA TakeBase ==
  ASSUME Base, ChanShrinks, UNCHANGED <<pool, session, client, relayed>>,
         charged' \subseteq Names, fined' \subseteq charged', turnedAway' \subseteq Names, spent' \subseteq Clients
  PROVE  Base'
  <1> USE DEF Base, Types
  <1>1. PoolTypes' /\ PoolInv'
    BY PoolSame
  <1>2. HistoryTypes'
    BY DEF HistoryTypes
  <1>3. ClientTypes'
    <2>1. phase' = phase /\ attempt' = attempt /\ joined' = joined /\ relayed' = relayed
      BY DEF client
    <2>2. phase' \in [Clients -> Phases] /\ joined' \in [Clients -> Nat] /\ relayed' \subseteq [id : Nat, tx : SUBSET Names]
      BY <2>1 DEF ClientTypes
    <2> QED
      BY <2>1, <2>2, ClientTypesKept
  <1> QED
    BY <1>1, <1>2, <1>3

(* "dsa", turned away: types and pool.                                        *)
LEMMA RejectUserBase ==
  ASSUME Base, NEW c \in Clients, RejectUser(c)
  PROVE  Base' /\ ChanShrinks
  <1>1. ChanShrinks
    BY ChanTaken DEF RejectUser, Received, Base, Types
  <1> QED
    BY <1>1, TakeBase DEF RejectUser, fees, Base, Types, HistoryTypes

(* "dsi", turned away: types and pool.                                        *)
LEMMA RejectEntryBase ==
  ASSUME Base, NEW c \in Clients, RejectEntry(c)
  PROVE  Base' /\ ChanShrinks
  <1>1. ChanShrinks
    BY ChanTaken DEF RejectEntry, Received, Base, Types
  <1>2. turnedAway' \subseteq Names
    <2>1. turnedAway' \subseteq turnedAway \union Range(collateral)
      BY DEF RejectEntry
    <2>2. Range(collateral) \subseteq Names
      BY DEF Base, Types, PoolTypes, Range
    <2> QED
      BY <2>1, <2>2 DEF Base, Types, HistoryTypes
  <1> QED
    BY <1>1, <1>2, TakeBase DEF RejectEntry, fees, Base, Types, HistoryTypes

(* "dsi", refused by AddEntry: types and pool.                                *)
LEMMA RefuseEntryBase ==
  ASSUME Base, NEW c \in Clients, RefuseEntry(c)
  PROVE  Base' /\ ChanShrinks
  <1> USE DEF Base, Types
  <1>1. ChanShrinks
    BY ChanTaken DEF RefuseEntry, Received
  <1>2. HistoryTypes'
    BY DEF RefuseEntry, fees, HistoryTypes
  <1>3. ClientTypes'
    <2>1. phase' = phase /\ attempt' = attempt /\ joined' = joined /\ relayed' = relayed
      BY DEF RefuseEntry, client
    <2>2. phase' \in [Clients -> Phases] /\ joined' \in [Clients -> Nat] /\ relayed' \subseteq [id : Nat, tx : SUBSET Names]
      BY <2>1 DEF ClientTypes
    <2> QED
      BY <1>1, <2>1, <2>2, ClientTypesKept
  <1>4. /\ users' = users - 1 /\ users = MaxTx /\ MaxTx \in Nat /\ MaxTx > 1
        /\ UNCHANGED <<state, denom, collateral, entries, final, finalSig, id, session>>
    <2>1. users >= MaxTx /\ users \in 0..MaxTx
      BY DEF RefuseEntry, DsiRefused, IsSessionReady, PoolTypes
    <2> QED
      BY <2>1, MaxTxAssumption DEF RefuseEntry
  <1>5. PoolTypes'
    BY <1>4 DEF PoolTypes, EntryNames, Name
  <1>6. Len(entries) \in Nat
    BY DEF PoolTypes
  <1>7. users' # 0 /\ users # 0 /\ users' >= MaxTx - 1
    BY <1>4
  <1>8. state = "accepting" => Len(entries) <= users' /\ OneSession(entries)
    BY <1>4, <1>6 DEF PoolInv
  <1>9. PoolInv'
    BY <1>4, <1>7, <1>8 DEF PoolInv, OneEntryEach, OneSession, EntryNames, Name
  <1> QED
    BY <1>1, <1>2, <1>3, <1>5, <1>9

(* What AddEntry does.                                                        *)
LEMMA AddEntryIs ==
  ASSUME Base, NEW c \in Clients, AddEntry(c)
  PROVE  /\ chan[c] # <<>> /\ Head(chan[c]).kind = "dsi" /\ <<c, Head(chan[c]).a>> \in Names
         /\ Head(chan[c]).a \in Nat /\ Head(chan[c]).a <= attempt[c]
         /\ state = "accepting" /\ users = MaxTx
         /\ \A i \in DOMAIN entries : entries[i].c # c /\ Denom[entries[i].c] = Denom[c]
         /\ entries' \in Seq(Entry) /\ Len(entries') = Len(entries) + 1
         /\ \A i \in DOMAIN entries : i \in DOMAIN entries' /\ entries'[i] = entries[i]
         /\ \A i \in DOMAIN entries' : i \in DOMAIN entries \/ i = Len(entries')
         /\ entries'[Len(entries')] = [c |-> c, a |-> Head(chan[c]).a, born |-> session, sig |-> NoSig]
         /\ EntryNames(entries') = EntryNames(entries) \union {<<c, Head(chan[c]).a>>}
         /\ UNCHANGED <<users, denom, collateral, finalSig, id, fees, spent, session, turnedAway, client>>
         /\ Take(c)
         /\ \/ Len(entries') < MaxTx /\ UNCHANGED <<state, final, relayed>>
            \/ /\ Len(entries') = MaxTx /\ state' = "signing" /\ final' = EntryNames(entries')
               /\ relayed' = relayed \union {[id |-> id, tx |-> EntryNames(entries')]}
  <1> USE DEF Base, Types
  <1> DEFINE e == [c |-> c, a |-> Head(chan[c]).a, born |-> session, sig |-> NoSig]
             es == Append(entries, e)
  <1>1. chan[c] # <<>> /\ Head(chan[c]).kind = "dsi"
    BY DEF AddEntry, Received
  <1>2. /\ <<c, Head(chan[c]).a>> \in Names /\ Head(chan[c]).a \in Nat
        /\ Head(chan[c]).a <= attempt[c]
    BY <1>1, HeadIs
  <1>3. users = MaxTx
    BY MaxTxAssumption DEF AddEntry, DsiRefused, IsSessionReady, PoolTypes
  <1>4. state = "accepting" /\ \A i \in DOMAIN entries : entries[i].c # c /\ Denom[entries[i].c] = Denom[c]
    BY DEF AddEntry, DsiRefused, AddEntryRefuses, IsCompatibleWithEntries
  <1>5. CheckEntries(es) /\ UNCHANGED <<fees, spent, session, turnedAway, client>> /\ Take(c)
    BY DEF AddEntry
  <1>6. e \in Entry /\ entries \in Seq(Entry)
    BY <1>2 DEF Entry, NoSig, PoolTypes
  <1> HIDE DEF e
  <1>7. /\ es \in Seq(Entry) /\ Len(es) = Len(entries) + 1 /\ Len(entries) \in Nat
        /\ \A i \in DOMAIN entries : i \in DOMAIN es /\ es[i] = entries[i]
        /\ \A i \in DOMAIN es : i \in DOMAIN entries \/ i = Len(es)
        /\ es[Len(es)] = e /\ Len(es) \in DOMAIN es
    BY <1>6
  <1>8. entries' = es /\ UNCHANGED <<users, denom, collateral, finalSig, id>>
    BY <1>5 DEF CheckEntries
  <1>9. Name(e) = <<c, Head(chan[c]).a>>
    BY DEF e, Name
  <1>10. EntryNames(es) = EntryNames(entries) \union {<<c, Head(chan[c]).a>>}
    <2> HIDE DEF es
    <2>1. \A i \in DOMAIN es : Name(es[i]) \in EntryNames(entries) \union {Name(e)}
      BY <1>7 DEF EntryNames
    <2>2. \A i \in DOMAIN entries : Name(entries[i]) \in EntryNames(es)
      BY <1>7 DEF EntryNames
    <2>3. Name(e) \in EntryNames(es)
      BY <1>7 DEF EntryNames
    <2> QED
      BY <2>1, <2>2, <2>3, <1>9 DEF EntryNames
  <1>11. final = {} /\ Len(entries) < MaxTx /\ MaxTx \in Nat
    BY <1>4, MaxTxAssumption DEF PoolInv
  <1>12. \/ Len(es) < MaxTx /\ UNCHANGED <<state, final, relayed>>
         \/ /\ Len(es) = MaxTx /\ state' = "signing" /\ final' = EntryNames(es)
            /\ relayed' = relayed \union {[id |-> id, tx |-> EntryNames(es)]}
    <2> HIDE DEF es
    <2>1. CASE Len(es) < MaxTx
      BY <2>1, <1>5 DEF CheckEntries
    <2>2. CASE ~(Len(es) < MaxTx)
      <3>1. Len(es) = MaxTx
        BY <2>2, <1>7, <1>11
      <3> QED
        BY <2>2, <3>1, <1>5, <1>11 DEF CheckEntries
    <2> QED
      BY <2>1, <2>2
  <1> QED
    BY <1>1, <1>2, <1>3, <1>4, <1>5, <1>7, <1>8, <1>10, <1>12 DEF e

(* "dsi", taken: types and pool.                                              *)
LEMMA AddEntryBase ==
  ASSUME Base, NEW c \in Clients, AddEntry(c)
  PROVE  Base' /\ ChanShrinks
  <1> DEFINE a == Head(chan[c]).a
             k == Len(entries')
  <1>1. /\ chan[c] # <<>> /\ <<c, a>> \in Names /\ a \in Nat /\ Take(c)
        /\ state = "accepting" /\ users = MaxTx
        /\ UNCHANGED <<users, denom, collateral, finalSig, id, fees, spent, session, turnedAway, client>>
    BY AddEntryIs
  <1>2. /\ entries' \in Seq(Entry) /\ k = Len(entries) + 1
        /\ \A i \in DOMAIN entries : i \in DOMAIN entries' /\ entries'[i] = entries[i]
        /\ \A i \in DOMAIN entries' : i \in DOMAIN entries \/ i = k
        /\ \A i \in DOMAIN entries : entries[i].c # c /\ Denom[entries[i].c] = Denom[c]
        /\ EntryNames(entries') = EntryNames(entries) \union {<<c, a>>}
    BY AddEntryIs
  <1>3. entries'[k].c = c /\ entries'[k].born = session /\ entries'[k].sig = NoSig
    <2>1. entries'[k] = [c |-> c, a |-> Head(chan[c]).a, born |-> session, sig |-> NoSig]
      BY AddEntryIs
    <2> QED
      BY <2>1
  <1>4. \/ k < MaxTx /\ UNCHANGED <<state, final, relayed>>
        \/ /\ k = MaxTx /\ state' = "signing" /\ final' = EntryNames(entries')
           /\ relayed' = relayed \union {[id |-> id, tx |-> EntryNames(entries')]}
    BY AddEntryIs
  <1> HIDE DEF a, k
  <1> USE DEF Base, Types
  <1>5. ChanShrinks
    BY <1>1, ChanTaken
  <1>6. EntryNames(entries') \subseteq Names
    BY <1>1, <1>2 DEF PoolTypes
  <1>7. PoolTypes'
    <2>1. state' \in States /\ final' \subseteq Names
      BY <1>4, <1>6 DEF PoolTypes, States
    <2>2. EntryNames(entries)' \subseteq Names
      BY <1>6 DEF EntryNames, Name
    <2> QED
      BY <2>1, <2>2, <1>1, <1>2 DEF PoolTypes
  <1>8. HistoryTypes'
    BY <1>1 DEF HistoryTypes, fees
  <1>9. ClientTypes'
    <2>1. phase' = phase /\ attempt' = attempt /\ joined' = joined
      BY <1>1 DEF client
    <2>2. relayed' \subseteq [id : Nat, tx : SUBSET Names]
      BY <1>4, <1>6 DEF ClientTypes, PoolTypes
    <2> QED
      BY <2>1, <2>2, <1>5, ClientTypesKept DEF ClientTypes
  <1>10. OneEntryEach(entries)'
    BY <1>2, <1>3 DEF PoolInv, OneEntryEach
  <1>11. OneSession(entries)'
    <2>1. users # 0
      BY <1>1, MaxTxAssumption
    <2>2. OneSession(entries)
      BY <1>1, <2>1 DEF PoolInv
    <2>3. \A i \in DOMAIN entries' : entries'[i].born = session /\ Denom[entries'[i].c] = Denom[c]
      BY <1>2, <1>3, <2>2 DEF OneSession
    <2> QED
      BY <2>3, <1>1 DEF OneSession
  <1>12. \A i \in DOMAIN entries' : entries'[i].sig = NoSig
    BY <1>1, <1>2, <1>3 DEF PoolInv
  <1>13. users # 0 /\ MaxTx \in Nat /\ k \in Nat /\ MaxTx >= MaxTx - 1
    BY <1>1, <1>2, MaxTxAssumption DEF PoolTypes, k
  <1>14. final = {} /\ \A b \in Clients : finalSig[b] = NoSig
    BY <1>1 DEF PoolInv
  <1>15. PoolInv'
    <2>1. CASE k < MaxTx /\ UNCHANGED <<state, final, relayed>>
      <3>1. k <= users
        BY <2>1, <1>1, <1>13
      <3> QED
        BY <2>1, <3>1, <1>1, <1>10, <1>11, <1>12, <1>13, <1>14 DEF PoolInv, k
    <2>2. CASE /\ k = MaxTx /\ state' = "signing" /\ final' = EntryNames(entries')
      <3>1. final' = EntryNames(entries)'
        BY <2>2 DEF EntryNames, Name
      <3> QED
        BY <2>2, <3>1, <1>1, <1>10, <1>11, <1>13 DEF PoolInv, k
    <2> QED
      BY <1>4, <2>1, <2>2
  <1> QED
    BY <1>5, <1>7, <1>8, <1>9, <1>15

(* The entries after the signature sig of c.                                  *)
Signed(c, sig) ==
    [i \in DOMAIN entries |->
        IF entries[i].c = c /\ entries[i].sig = NoSig
        THEN [entries[i] EXCEPT !.sig = sig] ELSE entries[i]]

(* The entries once a signature is noted.                                     *)
LEMMA SignedIs ==
  ASSUME entries \in Seq(Entry), NEW c \in Clients, NEW sig \in SUBSET Names
  PROVE  /\ Signed(c, sig) \in Seq(Entry) /\ DOMAIN Signed(c, sig) = DOMAIN entries
         /\ Len(Signed(c, sig)) = Len(entries)
         /\ \A i \in DOMAIN entries :
               /\ Signed(c, sig)[i].c = entries[i].c /\ Signed(c, sig)[i].a = entries[i].a
               /\ Signed(c, sig)[i].born = entries[i].born
               /\ Signed(c, sig)[i].sig = IF entries[i].c = c /\ entries[i].sig = NoSig THEN sig
                                          ELSE entries[i].sig
         /\ EntryNames(Signed(c, sig)) = EntryNames(entries)
  <1> DEFINE es == Signed(c, sig)
  <1>1. DOMAIN es = DOMAIN entries /\ DOMAIN entries = 1..Len(entries) /\ Len(entries) \in Nat
    BY DEF Signed
  <1>2. ASSUME NEW i \in DOMAIN entries
        PROVE  /\ es[i] \in Entry
               /\ es[i].c = entries[i].c /\ es[i].a = entries[i].a /\ es[i].born = entries[i].born
               /\ es[i].sig = IF entries[i].c = c /\ entries[i].sig = NoSig THEN sig ELSE entries[i].sig
    <2>1. entries[i] \in Entry
      OBVIOUS
    <2>2. es[i] = IF entries[i].c = c /\ entries[i].sig = NoSig
                  THEN [entries[i] EXCEPT !.sig = sig] ELSE entries[i]
      BY DEF Signed
    <2> QED
      BY <2>1, <2>2 DEF Entry
  <1>3. es \in [1..Len(entries) -> Entry]
    <2>1. es = [i \in 1..Len(entries) |-> es[i]]
      BY <1>1 DEF Signed
    <2> QED
      BY <2>1, <1>1, <1>2
  <1>4. es \in Seq(Entry) /\ Len(es) = Len(entries)
    BY <1>1, <1>3
  <1>5. EntryNames(es) = EntryNames(entries)
    BY <1>1, <1>2 DEF EntryNames, Name
  <1> QED
    BY <1>1, <1>2, <1>4, <1>5

(* An entry is of a client.                                                   *)
LEMMA EntryClient ==
  ASSUME NEW es \in Seq(Entry)
  PROVE  \A i \in DOMAIN es : es[i].c \in Clients
  <1>1. \A i \in DOMAIN es : es[i] \in Entry
    OBVIOUS
  <1> QED
    BY <1>1 DEF Entry

(* What AddScriptSig does: nothing, an end of the session, or a signature.    *)
LEMMA AddScriptSigIs ==
  ASSUME Base, NEW c \in Clients, AddScriptSig(c)
  PROVE  /\ chan[c] # <<>> /\ Head(chan[c]).kind = "dss" /\ Head(chan[c]).sig \in SUBSET Names
         /\ Take(c) /\ UNCHANGED <<fined, session, turnedAway, client, relayed>>
         /\ \/ UNCHANGED <<pool, spent, charged>>
            \/ /\ \E e \in BOOLEAN : SetNull(e)
               /\ spent \subseteq spent' /\ spent' \subseteq Clients
               /\ charged \subseteq charged' /\ charged' \subseteq Names
            \/ /\ state = "signing" /\ \E n \in final : n[1] = c
               /\ entries' = Signed(c, Head(chan[c]).sig)
               /\ finalSig' = [finalSig EXCEPT ![c] = Head(chan[c]).sig]
               /\ UNCHANGED <<state, users, denom, collateral, final, id, spent, charged>>
  <1> USE DEF Base, Types
  <1> DEFINE sig == Head(chan[c]).sig
             mine == {i \in DOMAIN entries : entries[i].c = c /\ entries[i].sig = NoSig}
             sigs == [finalSig EXCEPT ![c] = sig]
             es == [i \in DOMAIN entries |->
                       IF i \in mine THEN [entries[i] EXCEPT !.sig = sig] ELSE entries[i]]
  <1>1. chan[c] # <<>> /\ Head(chan[c]).kind = "dss"
    BY DEF AddScriptSig, Received
  <1>2. sig \in SUBSET Names
    BY <1>1, HeadIs
  <1>3. Take(c) /\ UNCHANGED <<fined, session, turnedAway, client, relayed>>
    BY DEF AddScriptSig
  <1>4. es = Signed(c, sig)
    BY DEF Signed
  <1>5. CASE ~(state = "signing" /\ \E n \in final : n[1] = c)
    <2>1. UNCHANGED <<pool, spent, charged>>
      BY <1>5 DEF AddScriptSig
    <2> QED
      BY <2>1, <1>1, <1>2, <1>3
  <1>6. CASE (state = "signing" /\ \E n \in final : n[1] = c) /\ mine = {}
    <2>1. finalSig' = sigs /\ UNCHANGED <<state, users, denom, collateral, entries, final, id, spent, charged>>
      BY <1>6 DEF AddScriptSig
    <2>2. entries \in Seq(Entry)
      BY DEF PoolTypes
    <2>3. es = entries
      <3>1. es = [i \in DOMAIN entries |-> entries[i]]
        BY <1>6
      <3> QED
        BY <3>1, <2>2
    <2> QED
      BY <2>1, <2>3, <1>1, <1>2, <1>3, <1>4, <1>6
  <1>7. CASE (state = "signing" /\ \E n \in final : n[1] = c) /\ mine # {}
    <2>1. CheckSignatures(es, sigs)
      BY <1>7 DEF AddScriptSig
    <2> HIDE DEF es, sigs, mine
    <2>2. CASE SignaturesComplete(es) /\ FinalValid(final, sigs)
      <3>1. SetNull(TRUE) /\ spent' = spent \union {n[1] : n \in final} /\ ChargeRandomFees
        BY <2>1, <2>2 DEF CheckSignatures
      <3>2. \A n \in final : n[1] \in Clients
        BY NameParts DEF PoolTypes
      <3>3. charged \subseteq charged' /\ charged' \subseteq Names
        BY <3>1 DEF ChargeRandomFees, Range, PoolTypes, HistoryTypes
      <3> QED
        BY <3>1, <3>2, <3>3, <1>1, <1>2, <1>3 DEF HistoryTypes
    <2>3. CASE SignaturesComplete(es) /\ ~FinalValid(final, sigs)
      <3>1. SetNull(FALSE) /\ UNCHANGED <<spent, charged>>
        BY <2>1, <2>3 DEF CheckSignatures
      <3> QED
        BY <3>1, <1>1, <1>2, <1>3 DEF HistoryTypes
    <2>4. CASE ~SignaturesComplete(es)
      <3>1. entries' = es /\ finalSig' = sigs /\ UNCHANGED <<state, users, denom, collateral, final, id, spent, charged>>
        BY <2>1, <2>4 DEF CheckSignatures
      <3> QED
        BY <3>1, <1>1, <1>2, <1>3, <1>4, <1>7 DEF sigs
    <2> QED
      BY <2>2, <2>3, <2>4
  <1> QED
    BY <1>5, <1>6, <1>7

(* "dss": types and pool.                                                     *)
LEMMA AddScriptSigBase ==
  ASSUME Base, NEW c \in Clients, AddScriptSig(c)
  PROVE  Base' /\ ChanShrinks
  <1> USE DEF Base, Types
  <1> DEFINE sig == Head(chan[c]).sig
  <1>1. /\ chan[c] # <<>> /\ sig \in SUBSET Names
        /\ Take(c) /\ UNCHANGED <<fined, session, turnedAway, client, relayed>>
    BY AddScriptSigIs
  <1>2. ChanShrinks
    BY <1>1, ChanTaken
  <1>3. ClientTypes'
    <2>1. phase' = phase /\ attempt' = attempt /\ joined' = joined /\ relayed' = relayed
      BY <1>1 DEF client
    <2> QED
      BY <2>1, <1>2, ClientTypesKept DEF ClientTypes
  <1>4. CASE UNCHANGED <<pool, spent, charged>>
    <2>1. PoolTypes' /\ PoolInv'
      BY <1>1, <1>4, PoolSame
    <2>2. HistoryTypes'
      BY <1>1, <1>4 DEF HistoryTypes
    <2> QED
      BY <2>1, <2>2, <1>2, <1>3
  <1>5. CASE /\ \E e \in BOOLEAN : SetNull(e)
             /\ spent \subseteq spent' /\ spent' \subseteq Clients
             /\ charged \subseteq charged' /\ charged' \subseteq Names
    <2>1. PoolTypes' /\ PoolInv'
      BY <1>1, <1>5, SetNullIs
    <2>2. HistoryTypes'
      BY <1>1, <1>5 DEF HistoryTypes
    <2> QED
      BY <2>1, <2>2, <1>2, <1>3
  <1>6. CASE /\ state = "signing"
             /\ entries' = Signed(c, sig)
             /\ finalSig' = [finalSig EXCEPT ![c] = sig]
             /\ UNCHANGED <<state, users, denom, collateral, final, id, spent, charged>>
    <2>1. HistoryTypes'
      BY <1>1, <1>6 DEF HistoryTypes
    <2>2. entries \in Seq(Entry)
      BY DEF PoolTypes
    <2>3. /\ entries' \in Seq(Entry) /\ DOMAIN entries' = DOMAIN entries /\ Len(entries') = Len(entries)
          /\ \A i \in DOMAIN entries : entries'[i].c = entries[i].c /\ entries'[i].born = entries[i].born
          /\ EntryNames(entries') = EntryNames(entries)
      BY <1>1, <1>6, <2>2, SignedIs
    <2>4. EntryNames(entries)' = EntryNames(entries)
      BY <2>3 DEF EntryNames, Name
    <2>5. PoolTypes'
      BY <1>1, <1>6, <2>3, <2>4 DEF PoolTypes
    <2>6. OneEntryEach(entries)' /\ OneSession(entries)'
      <3>1. OneEntryEach(entries) /\ OneSession(entries) /\ session' = session
        BY <1>1, <1>6 DEF PoolInv
      <3>2. OneEntryEach(entries)'
        BY <2>3, <3>1 DEF OneEntryEach
      <3>3. OneSession(entries)'
        BY <2>3, <3>1 DEF OneSession
      <3> QED
        BY <3>2, <3>3
    <2>7. PoolInv'
      BY <1>1, <1>6, <2>3, <2>4, <2>6 DEF PoolInv
    <2> QED
      BY <2>1, <2>5, <2>7, <1>2, <1>3
  <1> QED
    BY AddScriptSigIs, <1>4, <1>5, <1>6

(* The queue is ready: types and pool.                                        *)
LEMMA OpenForEntriesBase ==
  ASSUME Base, OpenForEntries
  PROVE  Base' /\ ChanShrinks
  <1> USE DEF Base, Types
  <1>1. ChanShrinks
    BY ChanSame DEF OpenForEntries
  <1>2. HistoryTypes'
    BY DEF OpenForEntries, HistoryTypes, fees
  <1>3. ClientTypes'
    <2>1. phase' \in [Clients -> Phases]
      BY DEF OpenForEntries, ClientTypes, Phases
    <2>2. attempt' = attempt /\ joined' = joined /\ relayed' = relayed
      BY DEF OpenForEntries
    <2> QED
      BY <2>1, <2>2, <1>1, ClientTypesKept DEF ClientTypes
  <1>4. /\ state = "queue" /\ state' = "accepting" /\ users = MaxTx
        /\ UNCHANGED <<users, denom, collateral, entries, final, finalSig, id, session>>
    BY DEF OpenForEntries
  <1>5. PoolTypes'
    BY <1>4 DEF PoolTypes, States, EntryNames, Name
  <1>6. entries = <<>> /\ Len(entries) <= users /\ OneSession(entries)
    <2>1. entries = <<>>
      BY <1>4 DEF PoolInv
    <2>2. Len(<<>>) = 0 /\ DOMAIN <<>> = {}
      OBVIOUS
    <2> QED
      BY <2>1, <2>2, <1>4 DEF OneSession, PoolTypes
  <1>7. PoolInv'
    BY <1>4, <1>6 DEF PoolInv, OneEntryEach, OneSession
  <1> QED
    BY <1>1, <1>2, <1>3, <1>5, <1>7

(* An entry expires: types and pool.                                          *)
LEMMA ExpireEntryBase ==
  ASSUME Base, ExpireEntry
  PROVE  Base' /\ ChanShrinks /\ EntryNames(entries)' \subseteq EntryNames(entries) /\ state # "signing"
  <1> USE DEF Base, Types
  <1>1. /\ state \in {"accepting", "queue"} /\ entries # <<>> /\ entries \in Seq(Entry)
        /\ UNCHANGED <<fees, spent, session, turnedAway, client, chan, relayed>>
    BY DEF ExpireEntry, PoolTypes
  <1>2. ChanShrinks
    BY <1>1, ChanSame
  <1>3. HistoryTypes'
    BY <1>1 DEF HistoryTypes, fees
  <1>4. ClientTypes'
    <2>1. phase' = phase /\ attempt' = attempt /\ joined' = joined /\ relayed' = relayed
      BY <1>1 DEF client
    <2> QED
      BY <2>1, <1>2, ClientTypesKept DEF ClientTypes
  <1>5. CASE Len(entries) = 1
    <2>1. SetNull(TRUE)
      BY <1>5 DEF ExpireEntry
    <2>2. PoolTypes' /\ PoolInv' /\ EntryNames(entries') = {}
      BY <2>1, <1>1, SetNullIs
    <2>3. EntryNames(entries)' \subseteq EntryNames(entries)
      BY <2>2 DEF EntryNames, Name
    <2> QED
      BY <2>2, <2>3, <1>1, <1>2, <1>3, <1>4
  <1>6. CASE Len(entries) # 1
    <2>1. entries' = Tail(entries) /\ UNCHANGED <<state, users, denom, collateral, final, finalSig, id>>
      BY <1>6 DEF ExpireEntry
    <2>2. /\ entries' \in Seq(Entry) /\ Len(entries') = Len(entries) - 1 /\ Len(entries) \in Nat
          /\ \A i \in DOMAIN entries' : i + 1 \in DOMAIN entries /\ entries'[i] = entries[i + 1]
      BY <2>1, <1>1
    <2>3. EntryNames(entries)' \subseteq EntryNames(entries)
      BY <2>2 DEF EntryNames, Name
    <2>4. state = "accepting"
      BY <1>1 DEF PoolInv
    <2>5. PoolTypes'
      BY <2>1, <2>2, <2>3, <1>1 DEF PoolTypes
    <2>6. OneEntryEach(entries)'
      <3> SUFFICES ASSUME NEW i \in DOMAIN entries', NEW j \in DOMAIN entries', entries'[i].c = entries'[j].c
                   PROVE  i = j
        BY DEF OneEntryEach
      <3>1. i + 1 = j + 1
        BY <2>2 DEF PoolInv, OneEntryEach
      <3>2. i \in Nat /\ j \in Nat
        BY <2>2
      <3> QED
        BY <3>1, <3>2
    <2>7. \A i \in DOMAIN entries' : entries'[i].sig = NoSig
      BY <2>2, <2>4 DEF PoolInv
    <2>8. OneSession(entries) => OneSession(entries)'
      BY <2>2, <1>1 DEF OneSession
    <2>9. users \in Nat /\ Len(entries') < MaxTx /\ (users # 0 => Len(entries') <= users)
      BY <2>2, <2>4, MaxTxAssumption DEF PoolInv, PoolTypes
    <2>10. PoolInv'
      BY <2>1, <2>4, <2>6, <2>7, <2>8, <2>9 DEF PoolInv
    <2> QED
      BY <2>3, <2>5, <2>10, <1>1, <1>2, <1>3, <1>4
  <1> QED
    BY <1>5, <1>6

(* The queue times out: types and pool.                                       *)
LEMMA QueueTimeoutBase ==
  ASSUME Base, QueueTimeout
  PROVE  Base' /\ ChanShrinks
  <1> USE DEF Base, Types
  <1>1. /\ state \in {"accepting", "queue"} /\ ChargeFees
        /\ users' = 0 /\ denom' = {} /\ collateral' = <<>> /\ state' = "accepting"
        /\ UNCHANGED <<entries, final, finalSig, id, spent, session, turnedAway, client, chan, relayed>>
    BY DEF QueueTimeout
  <1>2. ChanShrinks
    BY <1>1, ChanSame
  <1>3. HistoryTypes'
    BY <1>1, ChargeFeesTypes
  <1>4. ClientTypes'
    <2>1. phase' = phase /\ attempt' = attempt /\ joined' = joined /\ relayed' = relayed
      BY <1>1 DEF client
    <2> QED
      BY <2>1, <1>2, ClientTypesKept DEF ClientTypes
  <1>5. 0 \in 0..MaxTx
    BY MaxTxAssumption
  <1>6. PoolTypes'
    BY <1>1, <1>5 DEF PoolTypes, States, EntryNames, Name
  <1>7. PoolInv'
    BY <1>1 DEF PoolInv, OneEntryEach
  <1> QED
    BY <1>2, <1>3, <1>4, <1>6, <1>7

(* Signing times out: types and pool.                                         *)
LEMMA SigningTimeoutBase ==
  ASSUME Base, SigningTimeout
  PROVE  Base' /\ ChanShrinks /\ EntryNames(entries') = {}
  <1> USE DEF Base, Types
  <1>1. ChargeFees /\ SetNull(FALSE) /\ UNCHANGED <<spent, session, turnedAway, client, chan, relayed>>
    BY DEF SigningTimeout
  <1>2. ChanShrinks
    BY <1>1, ChanSame
  <1>3. HistoryTypes'
    BY <1>1, ChargeFeesTypes
  <1>4. ClientTypes'
    <2>1. phase' = phase /\ attempt' = attempt /\ joined' = joined /\ relayed' = relayed
      BY <1>1 DEF client
    <2> QED
      BY <2>1, <1>2, ClientTypesKept DEF ClientTypes
  <1>5. PoolTypes' /\ PoolInv' /\ EntryNames(entries') = {}
    BY <1>1, SetNullIs
  <1> QED
    BY <1>2, <1>3, <1>4, <1>5

(* A client spends its coins elsewhere: types and pool.                       *)
LEMMA SpendElsewhereBase ==
  ASSUME Base, NEW c \in Clients, SpendElsewhere(c)
  PROVE  Base' /\ ChanShrinks
  <1>1. ChanShrinks
    BY ChanSame DEF SpendElsewhere, Base, Types
  <1> QED
    BY <1>1, TakeBase DEF SpendElsewhere, fees, Base, Types, HistoryTypes

(* A client disconnects: types and pool.                                      *)
LEMMA DisconnectBase ==
  ASSUME Base, NEW c \in Clients, Disconnect(c)
  PROVE  Base' /\ ChanShrinks
  <1>1. ChanShrinks
    BY ChanCut DEF Disconnect, Base, Types
  <1> QED
    BY <1>1, TakeBase DEF Disconnect, fees, Base, Types, HistoryTypes

(* The channels after c has sent msg.                                         *)
LEMMA SendIs ==
  ASSUME ClientTypes, NEW c \in Clients, NEW msg \in Msg, Send(c, msg)
  PROVE  /\ chan' \in [Clients -> Seq(Msg)] /\ \A b \in Clients : Len(chan'[b]) <= 2
         /\ \A b \in Clients : b # c => chan'[b] = chan[b]
         /\ Len(chan[c]) \in Nat /\ DOMAIN chan[c] = 1..Len(chan[c])
         /\ Len(chan'[c]) = Len(chan[c]) + 1 /\ DOMAIN chan'[c] = 1..(Len(chan[c]) + 1)
         /\ chan'[c][Len(chan[c]) + 1] = msg
         /\ \A i \in DOMAIN chan[c] : chan'[c][i] = chan[c][i]
  <1>1. /\ chan \in [Clients -> Seq(Msg)] /\ \A b \in Clients : Len(chan[b]) <= 2
        /\ chan' = [chan EXCEPT ![c] = Append(chan[c], msg)] /\ Len(chan[c]) < 2
    BY DEF Send, ClientTypes
  <1>2. chan[c] \in Seq(Msg)
    BY <1>1
  <1>3. /\ Append(chan[c], msg) \in Seq(Msg) /\ Len(Append(chan[c], msg)) = Len(chan[c]) + 1
        /\ Len(chan[c]) \in Nat /\ DOMAIN chan[c] = 1..Len(chan[c])
        /\ DOMAIN Append(chan[c], msg) = 1..(Len(chan[c]) + 1)
        /\ Append(chan[c], msg)[Len(chan[c]) + 1] = msg
        /\ \A i \in DOMAIN chan[c] : Append(chan[c], msg)[i] = chan[c][i]
    BY <1>2
  <1>4. chan'[c] = Append(chan[c], msg) /\ chan' \in [Clients -> Seq(Msg)]
        /\ \A b \in Clients : b # c => chan'[b] = chan[b]
    BY <1>1, <1>3
  <1> QED
    BY <1>1, <1>3, <1>4

(* A client's step keeps the types, if the message does.                      *)
LEMMA SendTypes ==
  ASSUME Base, NEW c \in Clients, NEW msg \in Msg, Send(c, msg),
         UNCHANGED <<pool, fees, spent, session, turnedAway, joined, relayed>>,
         phase' \in [Clients -> Phases], attempt' \in [Clients -> Nat],
         \A b \in Clients : attempt[b] <= attempt'[b] /\ attempt'[b] <= MaxAttempts[b],
         msg.kind # "dss" => 1 <= msg.a /\ msg.a <= attempt'[c]
  PROVE  Base'
  <1> USE DEF Base, Types
  <1>1. PoolTypes' /\ PoolInv'
    BY PoolSame
  <1>2. HistoryTypes'
    BY DEF HistoryTypes, fees
  <1>3. \A b \in Clients : \A i \in DOMAIN chan'[b] :
          chan'[b][i].kind # "dss" => 1 <= chan'[b][i].a /\ chan'[b][i].a <= attempt'[b]
    <2> SUFFICES ASSUME NEW b \in Clients, NEW i \in DOMAIN chan'[b], chan'[b][i].kind # "dss"
                 PROVE  1 <= chan'[b][i].a /\ chan'[b][i].a <= attempt'[b]
      OBVIOUS
    <2>1. CASE b = c /\ i = Len(chan[c]) + 1
      BY <2>1, SendIs
    <2>2. CASE ~(b = c /\ i = Len(chan[c]) + 1)
      <3>1. i \in DOMAIN chan[b] /\ chan'[b][i] = chan[b][i]
        BY <2>2, SendIs
      <3>2. chan[b] \in Seq(Msg) /\ chan[b][i] \in Msg
        BY <3>1 DEF ClientTypes
      <3>3. chan[b][i].a \in Nat
        BY <3>1, <3>2 DEF Msg
      <3>4. 1 <= chan[b][i].a /\ chan[b][i].a <= attempt[b] /\ attempt[b] \in Nat /\ attempt'[b] \in Nat
        BY <3>1 DEF ClientTypes
      <3> QED
        BY <3>1, <3>3, <3>4
    <2> QED
      BY <2>1, <2>2
  <1>4. ClientTypes'
    <2>1. chan' \in [Clients -> Seq(Msg)] /\ \A b \in Clients : Len(chan'[b]) <= 2
      BY SendIs
    <2> QED
      BY <2>1, <1>3 DEF ClientTypes
  <1> QED
    BY <1>1, <1>2, <1>4

(* A client joins: types and pool.                                            *)
LEMMA ClientJoinBase ==
  ASSUME Base, NEW c \in Clients, ClientJoin(c)
  PROVE  Base'
  <1> DEFINE msg == [kind |-> "dsa", a |-> attempt[c] + 1]
  <1>1. attempt \in [Clients -> Nat] /\ attempt[c] \in Nat /\ MaxAttempts[c] \in Nat
    BY AttemptsAssumption DEF Base, Types, ClientTypes
  <1>2. msg \in Msg /\ msg.kind = "dsa" /\ msg.a = attempt[c] + 1
    BY <1>1 DEF Msg
  <1>3. Send(c, msg) /\ UNCHANGED <<pool, fees, spent, session, turnedAway, joined, relayed>>
    BY DEF ClientJoin
  <1>4. /\ attempt' \in [Clients -> Nat] /\ attempt'[c] = attempt[c] + 1
        /\ \A b \in Clients : attempt[b] <= attempt'[b] /\ attempt'[b] <= MaxAttempts[b]
    <2>1. attempt' = [attempt EXCEPT ![c] = attempt[c] + 1] /\ attempt[c] < MaxAttempts[c]
      BY DEF ClientJoin
    <2>2. \A b \in Clients : attempt[b] <= MaxAttempts[b]
      BY DEF Base, Types, ClientTypes
    <2> QED
      BY <1>1, <2>1, <2>2
  <1>5. phase' \in [Clients -> Phases]
    BY DEF ClientJoin, Base, Types, ClientTypes, Phases
  <1>6. 1 <= msg.a /\ msg.a <= attempt'[c]
    BY <1>1, <1>2, <1>4
  <1> HIDE DEF msg
  <1> QED
    BY <1>2, <1>3, <1>4, <1>5, <1>6, SendTypes

(* A client submits its entry: types and pool.                                *)
LEMMA ClientSubmitBase ==
  ASSUME Base, OrderInv, NEW c \in Clients, ClientSubmit(c)
  PROVE  Base'
  <1> DEFINE msg == [kind |-> "dsi", a |-> attempt[c]]
  <1>1. attempt \in [Clients -> Nat] /\ attempt[c] \in Nat /\ attempt[c] # 0
    BY DEF Base, Types, ClientTypes, OrderInv, AttemptsInOrder, ClientSubmit
  <1>2. msg \in Msg /\ msg.kind = "dsi" /\ msg.a = attempt[c]
    BY <1>1 DEF Msg
  <1>3. Send(c, msg) /\ UNCHANGED <<pool, fees, spent, session, turnedAway, attempt, joined, relayed>>
    BY DEF ClientSubmit
  <1>4. \A b \in Clients : attempt[b] <= attempt[b] /\ attempt[b] <= MaxAttempts[b]
    BY <1>1 DEF Base, Types, ClientTypes
  <1>5. phase' \in [Clients -> Phases]
    BY DEF ClientSubmit, Base, Types, ClientTypes, Phases
  <1>6. 1 <= msg.a /\ msg.a <= attempt[c]
    BY <1>1, <1>2
  <1> HIDE DEF msg
  <1> QED
    BY <1>1, <1>2, <1>3, <1>4, <1>5, <1>6, SendTypes

(* A client signs: types and pool.                                            *)
LEMMA ClientSignBase ==
  ASSUME Base, NEW c \in Clients, ClientSign(c)
  PROVE  Base'
  <1>1. PICK f \in relayed : WillSign(c, f) /\ Send(c, [kind |-> "dss", sig |-> f.tx])
    BY DEF ClientSign
  <1> DEFINE msg == [kind |-> "dss", sig |-> f.tx]
  <1>2. msg \in Msg /\ msg.kind = "dss"
    BY DEF Msg, Base, Types, ClientTypes
  <1>3. Send(c, msg) /\ UNCHANGED <<pool, fees, spent, session, turnedAway, attempt, joined, relayed>>
    BY <1>1 DEF ClientSign
  <1>4. attempt \in [Clients -> Nat] /\ \A b \in Clients : attempt[b] <= attempt[b] /\ attempt[b] <= MaxAttempts[b]
    BY DEF Base, Types, ClientTypes
  <1>5. phase' \in [Clients -> Phases]
    BY DEF ClientSign, Base, Types, ClientTypes, Phases
  <1> HIDE DEF msg
  <1> QED
    BY <1>2, <1>3, <1>4, <1>5, SendTypes

-----------------------------------------------------------------------------
(* The order of attempts, action by action.                                   *)

(* No attempt was made at first.                                              *)
LEMMA InitOrder == Init => OrderInv
  <1> SUFFICES ASSUME Init PROVE OrderInv
    OBVIOUS
  <1>1. EntryNames(<<>>) = {} /\ DOMAIN <<>> = {}
    BY DEF EntryNames
  <1>2. \A c, a : ~Done(c, a)
    BY <1>1 DEF Done, Init
  <1>3. \A c \in Clients : DOMAIN chan[c] = {}
    BY <1>1 DEF Init
  <1>4. AttemptsInOrder
    BY <1>2 DEF AttemptsInOrder, Init
  <1>5. EntriesUnderWay /\ SignaturesUnderWay
    BY <1>3 DEF EntriesUnderWay, SignaturesUnderWay
  <1>6. OneTransactionEach
    BY <1>1 DEF OneTransactionEach, Init
  <1> QED
    BY <1>4, <1>5, <1>6 DEF OrderInv

(* Positions in a channel are numbers.                                        *)
LEMMA ChanPositions ==
  ASSUME ClientTypes, NEW c \in Clients
  PROVE  \A i \in DOMAIN chan[c] : i \in Nat /\ (chan[c][i].kind # "dss" => chan[c][i].a \in Nat)
  <1>1. chan[c] \in Seq(Msg)
    BY DEF ClientTypes
  <1>2. \A i \in DOMAIN chan[c] : i \in Nat /\ chan[c][i] \in Msg
    BY <1>1
  <1> QED
    BY <1>2 DEF Msg

(* A step that takes messages from the front and entries from the pool, and
   sends and builds nothing.                                                  *)
LEMMA OrderKept ==
  ASSUME Base, OrderInv, ChanShrinks, EntryNames(entries)' \subseteq EntryNames(entries),
         relayed' = relayed, attempt' = attempt,
         \A c \in Clients : /\ Submitted(c) => Submitted(c)'
                            /\ phase[c] = "idle" => phase'[c] = "idle",
         state # "signing" \/ EntryNames(entries)' = {} \/ (state' = state /\ final' = final)
  PROVE  OrderInv'
  <1>1. \A c, a : Done(c, a)' => Done(c, a)
    BY DEF Done
  <1>2. AttemptsInOrder'
    <2>1. \A c \in Clients, a \in Nat : Done(c, a)' =>
            /\ a <= attempt'[c] /\ (a = attempt'[c] => Submitted(c)')
            /\ \A b \in Nat : <<c, b>> \in EntryNames(entries)' => a <= b
      BY <1>1 DEF OrderInv, AttemptsInOrder
    <2>2. \A c \in Clients : attempt'[c] = 0 => phase'[c] = "idle"
      BY DEF OrderInv, AttemptsInOrder
    <2> QED
      BY <2>1, <2>2 DEF AttemptsInOrder
  <1>3. ASSUME NEW c \in Clients
        PROVE  /\ \A i \in DOMAIN chan'[c] : chan'[c][i].kind = "dsi" =>
                     /\ chan'[c][i].a = attempt'[c] => Submitted(c)'
                     /\ \A a \in Nat : Done(c, a)' => a < chan'[c][i].a
                     /\ \A j \in DOMAIN chan'[c] : chan'[c][j].kind = "dsi" /\ i < j => chan'[c][i].a < chan'[c][j].a
               /\ \A i \in DOMAIN chan'[c] : chan'[c][i].kind = "dss" =>
                     /\ \E f \in relayed' : chan'[c][i].sig = f.tx
                     /\ \E a \in Nat : <<c, a>> \in chan'[c][i].sig /\ \A b \in Nat : Done(c, b)' => b <= a
                     /\ \A j \in DOMAIN chan'[c] : j < i => chan'[c][j].kind # "dsi"
    <2>1. PICK d \in {0, 1} : \A i \in DOMAIN chan'[c] : i + d \in DOMAIN chan[c] /\ chan'[c][i] = chan[c][i + d]
      BY DEF ChanShrinks
    <2>2. \A i, j \in DOMAIN chan'[c] : i < j => i + d < j + d
      <3>1. chan'[c] \in Seq(Msg)
        BY DEF ChanShrinks
      <3>2. \A i \in DOMAIN chan'[c] : i \in Nat
        BY <3>1
      <3> QED
        BY <3>2
    <2>3. ASSUME NEW i \in DOMAIN chan'[c], chan'[c][i].kind = "dsi"
          PROVE  /\ chan'[c][i].a = attempt'[c] => Submitted(c)'
                 /\ \A a \in Nat : Done(c, a)' => a < chan'[c][i].a
                 /\ \A j \in DOMAIN chan'[c] : chan'[c][j].kind = "dsi" /\ i < j => chan'[c][i].a < chan'[c][j].a
      <3>1. PICK k \in DOMAIN chan[c] : k = i + d /\ chan'[c][i] = chan[c][k]
        BY <2>1
      <3>2. /\ chan[c][k].a = attempt[c] => Submitted(c)
            /\ \A a \in Nat : Done(c, a) => a < chan[c][k].a
            /\ \A j \in DOMAIN chan[c] : chan[c][j].kind = "dsi" /\ k < j => chan[c][k].a < chan[c][j].a
        BY <3>1, <2>3 DEF OrderInv, EntriesUnderWay
      <3>3. \A j \in DOMAIN chan'[c] : chan'[c][j].kind = "dsi" /\ i < j => chan'[c][i].a < chan'[c][j].a
        BY <2>1, <2>2, <3>1, <3>2
      <3> QED
        BY <3>1, <3>2, <3>3, <1>1
    <2>4. ASSUME NEW i \in DOMAIN chan'[c], chan'[c][i].kind = "dss"
          PROVE  /\ \E f \in relayed' : chan'[c][i].sig = f.tx
                 /\ \E a \in Nat : <<c, a>> \in chan'[c][i].sig /\ \A b \in Nat : Done(c, b)' => b <= a
                 /\ \A j \in DOMAIN chan'[c] : j < i => chan'[c][j].kind # "dsi"
      <3>1. PICK k \in DOMAIN chan[c] : k = i + d /\ chan'[c][i] = chan[c][k]
        BY <2>1
      <3>2. /\ \E f \in relayed : chan[c][k].sig = f.tx
            /\ Newest(c, chan[c][k].sig)
            /\ \A j \in DOMAIN chan[c] : j < k => chan[c][j].kind # "dsi"
        BY <3>1, <2>4 DEF OrderInv, SignaturesUnderWay
      <3>3. \A j \in DOMAIN chan'[c] : j < i => chan'[c][j].kind # "dsi"
        BY <2>1, <2>2, <3>1, <3>2
      <3>4. \E a \in Nat : <<c, a>> \in chan'[c][i].sig /\ \A b \in Nat : Done(c, b)' => b <= a
        <4>1. PICK a \in Nat : <<c, a>> \in chan[c][k].sig /\ \A b \in Nat : Done(c, b) => b <= a
          BY <3>2 DEF Newest
        <4>2. <<c, a>> \in chan'[c][i].sig /\ \A b \in Nat : Done(c, b)' => b <= a
          BY <3>1, <4>1, <1>1
        <4> QED
          BY <4>2
      <3> QED
        BY <3>1, <3>2, <3>3, <3>4
    <2> QED
      BY <2>3, <2>4
  <1>4. EntriesUnderWay' /\ SignaturesUnderWay'
    BY <1>3 DEF EntriesUnderWay, SignaturesUnderWay, Newest
  <1>5. OneTransactionEach'
    <2>1. ASSUME NEW n \in EntryNames(entries)', NEW f \in relayed', n \in f.tx
          PROVE  state' = "signing" /\ f.tx = final'
      <3>1. n \in EntryNames(entries) /\ f \in relayed
        BY <2>1
      <3>2. state = "signing" /\ f.tx = final
        BY <3>1, <2>1 DEF OrderInv, OneTransactionEach
      <3> QED
        BY <3>2, <2>1
    <2>2. \A f, g \in relayed', n \in Names : n \in f.tx /\ n \in g.tx => f.tx = g.tx
      BY DEF OrderInv, OneTransactionEach
    <2> QED
      BY <2>1, <2>2 DEF OneTransactionEach, Names
  <1> QED
    BY <1>2, <1>4, <1>5 DEF OrderInv

(* OneTransactionEach is about the pool and the transactions built alone.     *)
LEMMA OneTransactionKept ==
  ASSUME OneTransactionEach, UNCHANGED <<entries, relayed, state, final>>
  PROVE  OneTransactionEach' /\ \A c, a : Done(c, a)' <=> Done(c, a)
  BY DEF OneTransactionEach, Done, EntryNames, Name, Names

(* "dsi", taken: the order of attempts.                                       *)
LEMMA AddEntryOrder ==
  ASSUME Base, OrderInv, NEW c \in Clients, AddEntry(c)
  PROVE  OrderInv'
  <1> DEFINE a0 == Head(chan[c]).a
             names == EntryNames(entries)
  <1>1. /\ chan[c] # <<>> /\ Head(chan[c]).kind = "dsi" /\ <<c, a0>> \in Names
        /\ a0 \in Nat /\ a0 <= attempt[c] /\ Take(c) /\ state = "accepting"
        /\ \A i \in DOMAIN entries : entries[i].c # c
        /\ EntryNames(entries') = names \union {<<c, a0>>}
        /\ UNCHANGED <<client>>
    BY AddEntryIs
  <1>2. \/ Len(entries') < MaxTx /\ UNCHANGED <<state, final, relayed>>
        \/ /\ Len(entries') = MaxTx /\ state' = "signing" /\ final' = EntryNames(entries')
           /\ relayed' = relayed \union {[id |-> id, tx |-> EntryNames(entries')]}
    BY AddEntryIs
  <1>3. EntryNames(entries)' = names \union {<<c, a0>>}
    BY <1>1 DEF EntryNames, Name
  <1>4. /\ 1 \in DOMAIN chan[c] /\ chan[c][1].kind = "dsi" /\ chan[c][1].a = a0 /\ chan[c] \in Seq(Msg)
    BY <1>1, HeadIs DEF Base, Types
  <1>5. ChanShrinks /\ chan'[c] = Tail(chan[c]) /\ Base'
    BY <1>1, AddEntryBase DEF Take, Base, Types, ClientTypes
  <1>6. UNCHANGED <<phase, attempt>>
    BY <1>1 DEF client
  <1>7. \A b \in Nat : <<c, b>> \notin names
    <2> SUFFICES ASSUME NEW b \in Nat, NEW i \in DOMAIN entries, <<c, b>> = Name(entries[i]) PROVE FALSE
      BY DEF EntryNames
    <2> QED
      BY <1>1 DEF Name
  <1>8. \A b, a : Done(b, a)' => Done(b, a) \/ (b = c /\ a = a0)
    <2> SUFFICES ASSUME NEW b, NEW a, Done(b, a)' PROVE Done(b, a) \/ <<b, a>> = <<c, a0>>
      OBVIOUS
    <2>1. <<b, a>> \in EntryNames(entries)' \/ \E f \in relayed' : <<b, a>> \in f.tx
      BY DEF Done
    <2>2. <<b, a>> \in names \union {<<c, a0>>} \/ \E f \in relayed : <<b, a>> \in f.tx
      BY <1>1, <1>2, <1>3, <2>1
    <2> QED
      BY <2>2 DEF Done
  <1>9. /\ a0 = attempt[c] => Submitted(c)
        /\ \A a \in Nat : Done(c, a) => a < a0
        /\ \A j \in DOMAIN chan[c] : chan[c][j].kind = "dsi" /\ 1 < j => a0 < chan[c][j].a
    BY <1>4 DEF OrderInv, EntriesUnderWay
  <1> HIDE DEF a0, names
  <1>10. AttemptsInOrder'
    <2>1. ASSUME NEW b \in Clients, NEW a \in Nat, Done(b, a)'
          PROVE  /\ a <= attempt'[b] /\ (a = attempt'[b] => Submitted(b)')
                 /\ \A k \in Nat : <<b, k>> \in EntryNames(entries)' => a <= k
      <3>1. CASE b = c
        <4>1. \A k \in Nat : <<c, k>> \in EntryNames(entries)' => k = a0
          BY <1>3, <1>7
        <4>2. a = a0 \/ (Done(c, a) /\ a < a0)
          BY <3>1, <2>1, <1>8, <1>9
        <4>3. a <= a0
          BY <4>2, <1>1
        <4>4. a <= attempt[c] /\ (a = attempt[c] => Submitted(c))
          BY <4>2, <1>1, <1>9 DEF OrderInv, AttemptsInOrder
        <4> QED
          BY <3>1, <4>1, <4>3, <4>4, <1>6 DEF Submitted
      <3>2. CASE b # c
        <4>1. Done(b, a) /\ \A k : <<b, k>> \in EntryNames(entries)' => <<b, k>> \in EntryNames(entries)
          BY <3>2, <2>1, <1>8, <1>3 DEF names
        <4> QED
          BY <4>1, <1>6 DEF OrderInv, AttemptsInOrder, Submitted
      <3> QED
        BY <3>1, <3>2
    <2>2. \A b \in Clients : attempt'[b] = 0 => phase'[b] = "idle"
      BY <1>6 DEF OrderInv, AttemptsInOrder
    <2> QED
      BY <2>1, <2>2 DEF AttemptsInOrder
  <1>11. ASSUME NEW b \in Clients, b # c
         PROVE  chan'[b] = chan[b] /\ \A a : Done(b, a)' => Done(b, a)
    BY <1>11, <1>1, <1>8 DEF Take, Base, Types, ClientTypes
  <1>12. \A i \in DOMAIN chan'[c] : /\ i \in Nat /\ i + 1 \in DOMAIN chan[c] /\ chan'[c][i] = chan[c][i + 1]
                                    /\ 1 < i + 1
    BY <1>4, <1>5
  <1>13. EntriesUnderWay'
    <2>1. ASSUME NEW b \in Clients, NEW i \in DOMAIN chan'[b], chan'[b][i].kind = "dsi"
          PROVE  /\ chan'[b][i].a = attempt'[b] => Submitted(b)'
                 /\ \A a \in Nat : Done(b, a)' => a < chan'[b][i].a
                 /\ \A j \in DOMAIN chan'[b] : chan'[b][j].kind = "dsi" /\ i < j => chan'[b][i].a < chan'[b][j].a
      <3>1. CASE b = c
        <4>1. PICK k \in DOMAIN chan[c] : k = i + 1 /\ chan'[c][i] = chan[c][k] /\ 1 < k
          BY <3>1, <2>1, <1>12
        <4>2. /\ chan[c][k].a = attempt[c] => Submitted(c)
              /\ \A a \in Nat : Done(c, a) => a < chan[c][k].a
              /\ \A j \in DOMAIN chan[c] : chan[c][j].kind = "dsi" /\ k < j => chan[c][k].a < chan[c][j].a
          BY <4>1, <3>1, <2>1 DEF OrderInv, EntriesUnderWay
        <4>3. a0 < chan[c][k].a
          BY <4>1, <3>1, <2>1, <1>9
        <4>4. \A a \in Nat : Done(c, a)' => a < chan'[c][i].a
          BY <4>1, <4>2, <4>3, <1>8
        <4>5. \A j \in DOMAIN chan'[c] : chan'[c][j].kind = "dsi" /\ i < j => chan'[c][i].a < chan'[c][j].a
          BY <3>1, <4>1, <4>2, <1>12
        <4> QED
          BY <3>1, <4>1, <4>2, <4>4, <4>5, <1>6 DEF Submitted
      <3>2. CASE b # c
        BY <3>2, <2>1, <1>11, <1>6 DEF OrderInv, EntriesUnderWay, Submitted
      <3> QED
        BY <3>1, <3>2
    <2> QED
      BY <2>1 DEF EntriesUnderWay
  <1>14. SignaturesUnderWay'
    <2>1. ASSUME NEW b \in Clients, NEW i \in DOMAIN chan'[b], chan'[b][i].kind = "dss"
          PROVE  /\ \E f \in relayed' : chan'[b][i].sig = f.tx
                 /\ \E a \in Nat : <<b, a>> \in chan'[b][i].sig /\ \A k \in Nat : Done(b, k)' => k <= a
                 /\ \A j \in DOMAIN chan'[b] : j < i => chan'[b][j].kind # "dsi"
      <3>1. b # c
        <4> SUFFICES ASSUME b = c PROVE FALSE
          OBVIOUS
        <4>1. chan[c][i + 1].kind = "dss" /\ i + 1 \in DOMAIN chan[c] /\ 1 < i + 1
          BY <2>1, <1>12
        <4> QED
          BY <4>1, <1>4 DEF OrderInv, SignaturesUnderWay
      <3>2. chan'[b] = chan[b] /\ i \in DOMAIN chan[b] /\ chan[b][i].kind = "dss"
        BY <3>1, <2>1, <1>11
      <3>3. /\ \E f \in relayed : chan[b][i].sig = f.tx
            /\ \E a \in Nat : <<b, a>> \in chan[b][i].sig /\ \A k \in Nat : Done(b, k) => k <= a
            /\ \A j \in DOMAIN chan[b] : j < i => chan[b][j].kind # "dsi"
        BY <3>2 DEF OrderInv, SignaturesUnderWay, Newest
      <3>4. relayed \subseteq relayed'
        BY <1>2
      <3>5. PICK a \in Nat : <<b, a>> \in chan[b][i].sig /\ \A k \in Nat : Done(b, k) => k <= a
        BY <3>3
      <3>6. <<b, a>> \in chan'[b][i].sig /\ \A k \in Nat : Done(b, k)' => k <= a
        BY <3>1, <3>2, <3>5, <1>11
      <3> QED
        BY <3>2, <3>3, <3>4, <3>6
    <2> QED
      BY <2>1 DEF SignaturesUnderWay, Newest
  <1>15. OneTransactionEach'
    <2>1. ASSUME NEW n \in EntryNames(entries)', NEW f \in relayed, n \in f.tx
          PROVE  FALSE
      <3>1. CASE n \in names
        BY <3>1, <2>1, <1>1 DEF OrderInv, OneTransactionEach, names
      <3>2. CASE n = <<c, a0>>
        <4>1. Done(c, a0)
          BY <3>2, <2>1 DEF Done
        <4> QED
          BY <4>1, <1>1, <1>9
      <3> QED
        BY <3>1, <3>2, <1>3
    <2>2. ASSUME NEW n \in EntryNames(entries)', NEW f \in relayed', n \in f.tx
          PROVE  state' = "signing" /\ f.tx = final'
      BY <2>1, <2>2, <1>2
    <2>3. \A f \in relayed' : f \in relayed \/ f.tx = EntryNames(entries)'
      BY <1>2, <1>1, <1>3
    <2>4. \A f, g \in relayed', n \in Names : n \in f.tx /\ n \in g.tx => f.tx = g.tx
      BY <2>1, <2>3 DEF OrderInv, OneTransactionEach
    <2> QED
      BY <2>2, <2>4 DEF OneTransactionEach, Names
  <1> QED
    BY <1>10, <1>13, <1>14, <1>15 DEF OrderInv

(* A client joins: the order of attempts.                                     *)
LEMMA ClientJoinOrder ==
  ASSUME Base, OrderInv, NEW c \in Clients, ClientJoin(c)
  PROVE  OrderInv'
  <1> DEFINE msg == [kind |-> "dsa", a |-> attempt[c] + 1]
             k == Len(chan[c]) + 1
  <1>1. /\ attempt \in [Clients -> Nat] /\ phase \in [Clients -> Phases] /\ ClientTypes
        /\ attempt' = [attempt EXCEPT ![c] = attempt[c] + 1] /\ phase' = [phase EXCEPT ![c] = "asked"]
        /\ Send(c, msg) /\ UNCHANGED <<entries, relayed, state, final>>
    BY DEF ClientJoin, Base, Types, ClientTypes, pool
  <1>2. msg \in Msg /\ msg.kind = "dsa"
    BY <1>1 DEF Msg
  <1> HIDE DEF msg
  <1>3. /\ \A b \in Clients : b # c => chan'[b] = chan[b]
        /\ DOMAIN chan[c] = 1..Len(chan[c]) /\ DOMAIN chan'[c] = 1..k /\ Len(chan[c]) \in Nat
        /\ chan'[c][k] = msg /\ \A i \in DOMAIN chan[c] : chan'[c][i] = chan[c][i]
    BY <1>1, <1>2, SendIs
  <1>4. OneTransactionEach' /\ \A b, a : Done(b, a)' <=> Done(b, a)
    BY <1>1, OneTransactionKept DEF OrderInv
  <1>5. \A b \in Clients : b # c => attempt'[b] = attempt[b] /\ (Submitted(b)' <=> Submitted(b)) /\ phase'[b] = phase[b]
    BY <1>1 DEF Submitted
  <1>6. attempt'[c] = attempt[c] + 1 /\ attempt[c] \in Nat
    BY <1>1
  <1>7. AttemptsInOrder'
    <2>1. ASSUME NEW b \in Clients, NEW a \in Nat, Done(b, a)
          PROVE  a <= attempt'[b] /\ (a = attempt'[b] => Submitted(b)')
      <3>1. a <= attempt[b] /\ (a = attempt[b] => Submitted(b))
        BY <2>1 DEF OrderInv, AttemptsInOrder
      <3> QED
        BY <3>1, <1>5, <1>6
    <2>2. \A b \in Clients : attempt'[b] = 0 => phase'[b] = "idle"
      BY <1>5, <1>6 DEF OrderInv, AttemptsInOrder
    <2>3. EntryNames(entries)' = EntryNames(entries)
      BY <1>1 DEF EntryNames, Name
    <2>4. \A b \in Clients, a \in Nat : Done(b, a) => \A m \in Nat : <<b, m>> \in EntryNames(entries) => a <= m
      BY DEF OrderInv, AttemptsInOrder
    <2> QED
      BY <2>1, <2>2, <2>3, <2>4, <1>4 DEF AttemptsInOrder
  <1>8. ASSUME NEW b \in Clients, NEW i \in DOMAIN chan'[b], chan'[b][i].kind # "dsa"
        PROVE  i \in DOMAIN chan[b] /\ chan'[b][i] = chan[b][i]
    BY <1>2, <1>3, <1>8
  <1>9. EntriesUnderWay'
    <2>1. ASSUME NEW b \in Clients, NEW i \in DOMAIN chan'[b], chan'[b][i].kind = "dsi"
          PROVE  /\ chan'[b][i].a = attempt'[b] => Submitted(b)'
                 /\ \A a \in Nat : Done(b, a)' => a < chan'[b][i].a
                 /\ \A j \in DOMAIN chan'[b] : chan'[b][j].kind = "dsi" /\ i < j => chan'[b][i].a < chan'[b][j].a
      <3>1. i \in DOMAIN chan[b] /\ chan'[b][i] = chan[b][i] /\ chan[b][i].kind = "dsi"
        BY <2>1, <1>8
      <3>2. chan[b][i].a \in Nat /\ chan[b][i].a <= attempt[b]
        BY <3>1, <1>1, ChanPositions DEF ClientTypes
      <3>3. b = c => chan'[b][i].a # attempt'[b]
        BY <3>1, <3>2, <1>6
      <3> QED
        BY <3>1, <3>3, <1>4, <1>5, <1>8 DEF OrderInv, EntriesUnderWay
    <2> QED
      BY <2>1 DEF EntriesUnderWay
  <1>10. SignaturesUnderWay'
    <2>1. ASSUME NEW b \in Clients, NEW i \in DOMAIN chan'[b], chan'[b][i].kind = "dss"
          PROVE  /\ \E f \in relayed' : chan'[b][i].sig = f.tx
                 /\ \E a \in Nat : <<b, a>> \in chan'[b][i].sig /\ \A m \in Nat : Done(b, m)' => m <= a
                 /\ \A j \in DOMAIN chan'[b] : j < i => chan'[b][j].kind # "dsi"
      <3>1. i \in DOMAIN chan[b] /\ chan'[b][i] = chan[b][i] /\ chan[b][i].kind = "dss"
        BY <2>1, <1>8
      <3> QED
        BY <3>1, <1>1, <1>4, <1>8 DEF OrderInv, SignaturesUnderWay, Newest
    <2> QED
      BY <2>1 DEF SignaturesUnderWay, Newest
  <1> QED
    BY <1>4, <1>7, <1>9, <1>10 DEF OrderInv

(* A client submits its entry: the order of attempts.                         *)
LEMMA ClientSubmitOrder ==
  ASSUME Base, OrderInv, NEW c \in Clients, ClientSubmit(c)
  PROVE  OrderInv'
  <1> DEFINE msg == [kind |-> "dsi", a |-> attempt[c]]
             k == Len(chan[c]) + 1
  <1>1. /\ attempt \in [Clients -> Nat] /\ phase \in [Clients -> Phases] /\ ClientTypes
        /\ attempt' = attempt /\ phase' = [phase EXCEPT ![c] = "submitted"] /\ phase[c] = "ready"
        /\ Send(c, msg) /\ UNCHANGED <<entries, relayed, state, final>>
    BY DEF ClientSubmit, Base, Types, ClientTypes, pool
  <1>2. msg \in Msg /\ msg.kind = "dsi" /\ msg.a = attempt[c] /\ attempt[c] \in Nat
    BY <1>1 DEF Msg
  <1> HIDE DEF msg
  <1>3. /\ \A b \in Clients : b # c => chan'[b] = chan[b]
        /\ DOMAIN chan[c] = 1..Len(chan[c]) /\ DOMAIN chan'[c] = 1..k /\ Len(chan[c]) \in Nat
        /\ chan'[c][k] = msg /\ \A i \in DOMAIN chan[c] : chan'[c][i] = chan[c][i]
    BY <1>1, <1>2, SendIs
  <1>4. OneTransactionEach' /\ \A b, a : Done(b, a)' <=> Done(b, a)
    BY <1>1, OneTransactionKept DEF OrderInv
  <1>5. /\ \A b \in Clients : Submitted(b) => Submitted(b)'
        /\ ~Submitted(c) /\ Submitted(c)'
        /\ \A b \in Clients : b # c => phase'[b] = phase[b]
    BY <1>1 DEF Submitted
  <1>6. AttemptsInOrder'
    <2>1. attempt[c] # 0
      BY <1>1 DEF OrderInv, AttemptsInOrder
    <2>2. \A b \in Clients : attempt'[b] = 0 => phase'[b] = "idle"
      BY <2>1, <1>1, <1>5 DEF OrderInv, AttemptsInOrder
    <2>3. EntryNames(entries)' = EntryNames(entries)
      BY <1>1 DEF EntryNames, Name
    <2>4. \A b \in Clients, a \in Nat : Done(b, a) =>
            /\ a <= attempt[b] /\ (a = attempt[b] => Submitted(b))
            /\ \A m \in Nat : <<b, m>> \in EntryNames(entries) => a <= m
      BY DEF OrderInv, AttemptsInOrder
    <2> QED
      BY <2>2, <2>3, <2>4, <1>1, <1>4, <1>5 DEF AttemptsInOrder
  <1>7. \A a \in Nat : Done(c, a) => a < attempt[c]
    BY <1>2, <1>5 DEF OrderInv, AttemptsInOrder
  <1>8. \A i \in DOMAIN chan[c] : chan[c][i].kind = "dsi" => chan[c][i].a < attempt[c]
    <2> SUFFICES ASSUME NEW i \in DOMAIN chan[c], chan[c][i].kind = "dsi" PROVE chan[c][i].a < attempt[c]
      OBVIOUS
    <2>1. chan[c][i].a \in Nat /\ chan[c][i].a <= attempt[c]
      BY <1>1, ChanPositions DEF ClientTypes
    <2>2. chan[c][i].a # attempt[c]
      BY <1>5 DEF OrderInv, EntriesUnderWay
    <2> QED
      BY <2>1, <2>2, <1>2
  <1>9. ASSUME NEW b \in Clients, NEW i \in DOMAIN chan'[b], ~(b = c /\ i = k)
        PROVE  i \in DOMAIN chan[b] /\ chan'[b][i] = chan[b][i] /\ (b = c => i < k)
    BY <1>3, <1>9
  <1>10. EntriesUnderWay'
    <2>1. ASSUME NEW b \in Clients, NEW i \in DOMAIN chan'[b], chan'[b][i].kind = "dsi"
          PROVE  /\ chan'[b][i].a = attempt'[b] => Submitted(b)'
                 /\ \A a \in Nat : Done(b, a)' => a < chan'[b][i].a
                 /\ \A j \in DOMAIN chan'[b] : chan'[b][j].kind = "dsi" /\ i < j => chan'[b][i].a < chan'[b][j].a
      <3>1. CASE b = c /\ i = k
        <4>1. \A j \in DOMAIN chan'[c] : ~(k < j)
          BY <1>3
        <4> QED
          BY <3>1, <4>1, <1>2, <1>3, <1>4, <1>5, <1>7
      <3>2. CASE ~(b = c /\ i = k)
        <4>1. i \in DOMAIN chan[b] /\ chan'[b][i] = chan[b][i]
          BY <3>2, <1>9
        <4>2. /\ chan[b][i].a = attempt[b] => Submitted(b)
              /\ \A a \in Nat : Done(b, a) => a < chan[b][i].a
              /\ \A j \in DOMAIN chan[b] : chan[b][j].kind = "dsi" /\ i < j => chan[b][i].a < chan[b][j].a
          BY <4>1, <2>1 DEF OrderInv, EntriesUnderWay
        <4>3. ASSUME NEW j \in DOMAIN chan'[b], chan'[b][j].kind = "dsi", i < j
              PROVE  chan'[b][i].a < chan'[b][j].a
          <5>1. CASE b = c /\ j = k
            BY <5>1, <4>1, <2>1, <1>2, <1>3, <1>8
          <5>2. CASE ~(b = c /\ j = k)
            BY <5>2, <4>1, <4>2, <4>3, <1>9
          <5> QED
            BY <5>1, <5>2
        <4> QED
          BY <4>1, <4>2, <4>3, <1>1, <1>4, <1>5
      <3> QED
        BY <3>1, <3>2
    <2> QED
      BY <2>1 DEF EntriesUnderWay
  <1>11. SignaturesUnderWay'
    <2>1. ASSUME NEW b \in Clients, NEW i \in DOMAIN chan'[b], chan'[b][i].kind = "dss"
          PROVE  /\ \E f \in relayed' : chan'[b][i].sig = f.tx
                 /\ \E a \in Nat : <<b, a>> \in chan'[b][i].sig /\ \A m \in Nat : Done(b, m)' => m <= a
                 /\ \A j \in DOMAIN chan'[b] : j < i => chan'[b][j].kind # "dsi"
      <3>1. ~(b = c /\ i = k)
        BY <2>1, <1>2, <1>3
      <3>2. i \in DOMAIN chan[b] /\ chan'[b][i] = chan[b][i] /\ chan[b][i].kind = "dss" /\ (b = c => i < k)
        BY <2>1, <3>1, <1>9
      <3>3. /\ \E f \in relayed : chan[b][i].sig = f.tx
            /\ \E a \in Nat : <<b, a>> \in chan[b][i].sig /\ \A m \in Nat : Done(b, m) => m <= a
            /\ \A j \in DOMAIN chan[b] : j < i => chan[b][j].kind # "dsi"
        BY <3>2 DEF OrderInv, SignaturesUnderWay, Newest
      <3>4. ASSUME NEW j \in DOMAIN chan'[b], j < i
            PROVE  chan'[b][j].kind # "dsi"
        <4>1. ~(b = c /\ j = k)
          <5> SUFFICES ASSUME b = c, j = k PROVE FALSE
            OBVIOUS
          <5>1. i \in Nat /\ k \in Nat /\ i < k
            BY <3>2, <1>3
          <5> QED
            BY <5>1, <3>4
        <4> QED
          BY <4>1, <3>3, <3>4, <1>9
      <3> QED
        BY <3>2, <3>3, <3>4, <1>1, <1>4
    <2> QED
      BY <2>1 DEF SignaturesUnderWay, Newest
  <1> QED
    BY <1>4, <1>6, <1>10, <1>11 DEF OrderInv

(* A client signs: the order of attempts.                                     *)
LEMMA ClientSignOrder ==
  ASSUME Base, OrderInv, NEW c \in Clients, ClientSign(c)
  PROVE  OrderInv'
  <1>1. PICK f \in relayed : WillSign(c, f) /\ Send(c, [kind |-> "dss", sig |-> f.tx])
    BY DEF ClientSign
  <1> DEFINE msg == [kind |-> "dss", sig |-> f.tx]
             k == Len(chan[c]) + 1
  <1>2. /\ attempt \in [Clients -> Nat] /\ phase \in [Clients -> Phases] /\ ClientTypes
        /\ attempt' = attempt /\ phase' = [phase EXCEPT ![c] = "signed"] /\ phase[c] = "submitted"
        /\ Send(c, msg) /\ UNCHANGED <<entries, relayed, state, final>>
    BY <1>1 DEF ClientSign, Base, Types, ClientTypes, pool
  <1>3. msg \in Msg /\ msg.kind = "dss" /\ msg.sig = f.tx /\ attempt[c] \in Nat
    BY <1>2 DEF Msg, ClientTypes
  <1> HIDE DEF msg
  <1>4. /\ \A b \in Clients : b # c => chan'[b] = chan[b]
        /\ DOMAIN chan[c] = 1..Len(chan[c]) /\ DOMAIN chan'[c] = 1..k /\ Len(chan[c]) \in Nat
        /\ chan'[c][k] = msg /\ \A i \in DOMAIN chan[c] : chan'[c][i] = chan[c][i]
    BY <1>2, <1>3, SendIs
  <1>5. OneTransactionEach' /\ \A b, a : Done(b, a)' <=> Done(b, a)
    BY <1>2, OneTransactionKept DEF OrderInv
  <1>6. /\ \A b \in Clients : Submitted(b) => Submitted(b)'
        /\ \A b \in Clients : phase[b] = "idle" => phase'[b] = "idle"
    BY <1>2 DEF Submitted
  <1>7. AttemptsInOrder'
    <2>1. EntryNames(entries)' = EntryNames(entries)
      BY <1>2 DEF EntryNames, Name
    <2>2. \A b \in Clients, a \in Nat : Done(b, a) =>
            /\ a <= attempt[b] /\ (a = attempt[b] => Submitted(b))
            /\ \A m \in Nat : <<b, m>> \in EntryNames(entries) => a <= m
      BY DEF OrderInv, AttemptsInOrder
    <2>3. \A b \in Clients : attempt'[b] = 0 => phase'[b] = "idle"
      BY <1>2, <1>6 DEF OrderInv, AttemptsInOrder
    <2> QED
      BY <2>1, <2>2, <2>3, <1>2, <1>5, <1>6 DEF AttemptsInOrder
  <1>8. <<c, attempt[c]>> \in f.tx /\ Done(c, attempt[c])
    BY <1>1 DEF WillSign, Done
  <1>9. \A i \in DOMAIN chan[c] : chan[c][i].kind # "dsi"
    <2> SUFFICES ASSUME NEW i \in DOMAIN chan[c], chan[c][i].kind = "dsi" PROVE FALSE
      OBVIOUS
    <2>1. attempt[c] < chan[c][i].a
      BY <1>3, <1>8 DEF OrderInv, EntriesUnderWay
    <2>2. chan[c][i].a <= attempt[c] /\ chan[c][i].a \in Nat
      BY <1>2, ChanPositions DEF ClientTypes
    <2> QED
      BY <2>1, <2>2, <1>3
  <1>10. ASSUME NEW b \in Clients, NEW i \in DOMAIN chan'[b], ~(b = c /\ i = k)
         PROVE  i \in DOMAIN chan[b] /\ chan'[b][i] = chan[b][i]
    BY <1>4, <1>10
  <1>11. EntriesUnderWay'
    <2>1. ASSUME NEW b \in Clients, NEW i \in DOMAIN chan'[b], chan'[b][i].kind = "dsi"
          PROVE  /\ chan'[b][i].a = attempt'[b] => Submitted(b)'
                 /\ \A a \in Nat : Done(b, a)' => a < chan'[b][i].a
                 /\ \A j \in DOMAIN chan'[b] : chan'[b][j].kind = "dsi" /\ i < j => chan'[b][i].a < chan'[b][j].a
      <3>1. b # c
        <4> SUFFICES ASSUME b = c PROVE FALSE
          OBVIOUS
        <4> QED
          BY <2>1, <1>3, <1>4, <1>9, <1>10
      <3>2. chan'[b] = chan[b]
        BY <3>1, <1>4
      <3> QED
        BY <3>2, <2>1, <1>2, <1>5, <1>6 DEF OrderInv, EntriesUnderWay
    <2> QED
      BY <2>1 DEF EntriesUnderWay
  <1>12. SignaturesUnderWay'
    <2>1. ASSUME NEW b \in Clients, NEW i \in DOMAIN chan'[b], chan'[b][i].kind = "dss"
          PROVE  /\ \E g \in relayed' : chan'[b][i].sig = g.tx
                 /\ \E a \in Nat : <<b, a>> \in chan'[b][i].sig /\ \A m \in Nat : Done(b, m)' => m <= a
                 /\ \A j \in DOMAIN chan'[b] : j < i => chan'[b][j].kind # "dsi"
      <3>1. CASE b = c
        <4>1. \A j \in DOMAIN chan'[c] : chan'[c][j].kind # "dsi"
          BY <1>3, <1>4, <1>9, <1>10
        <4>2. CASE i = k
          <5>1. chan'[c][k].sig = f.tx /\ f \in relayed'
            BY <1>2, <1>3, <1>4
          <5>2. \A m \in Nat : Done(c, m)' => m <= attempt[c]
            BY <1>5 DEF OrderInv, AttemptsInOrder
          <5>3. <<c, attempt[c]>> \in chan'[c][k].sig
            BY <5>1, <1>8
          <5> QED
            BY <3>1, <4>1, <4>2, <5>1, <5>2, <5>3, <1>3
        <4>3. CASE i # k
          <5>1. i \in DOMAIN chan[c] /\ chan'[c][i] = chan[c][i] /\ chan[c][i].kind = "dss"
            BY <3>1, <4>3, <2>1, <1>10
          <5>2. /\ \E g \in relayed : chan[c][i].sig = g.tx
                /\ \E a \in Nat : <<c, a>> \in chan[c][i].sig /\ \A m \in Nat : Done(c, m) => m <= a
            BY <5>1 DEF OrderInv, SignaturesUnderWay, Newest
          <5> QED
            BY <3>1, <4>1, <5>1, <5>2, <1>2, <1>5
        <4> QED
          BY <4>2, <4>3
      <3>2. CASE b # c
        <4>1. chan'[b] = chan[b]
          BY <3>2, <1>4
        <4> QED
          BY <4>1, <2>1, <1>2, <1>5 DEF OrderInv, SignaturesUnderWay, Newest
      <3> QED
        BY <3>1, <3>2
    <2> QED
      BY <2>1 DEF SignaturesUnderWay, Newest
  <1> QED
    BY <1>5, <1>7, <1>11, <1>12 DEF OrderInv

-----------------------------------------------------------------------------
(* The signatures.                                                            *)

(* A signature that arrives while its coin is being mixed is for the
   transaction being signed.                                                  *)
LEMMA SignatureIsCurrent ==
  ASSUME Base, OrderInv, NEW c \in Clients, chan[c] # <<>>, Head(chan[c]).kind = "dss",
         state = "signing", \E n \in final : n[1] = c
  PROVE  Head(chan[c]).sig = final
  <1> DEFINE sig == Head(chan[c]).sig
  <1>1. 1 \in DOMAIN chan[c] /\ Head(chan[c]) = chan[c][1]
    BY HeadIs DEF Base, Types
  <1>2. (\E f \in relayed : sig = f.tx) /\ Newest(c, sig)
    BY <1>1 DEF OrderInv, SignaturesUnderWay
  <1>3. PICK f \in relayed : sig = f.tx
    BY <1>2
  <1>4. PICK a \in Nat : <<c, a>> \in sig /\ \A b \in Nat : Done(c, b) => b <= a
    BY <1>2 DEF Newest
  <1>5. final = EntryNames(entries) /\ final \subseteq Names
    BY DEF Base, Types, PoolTypes, PoolInv
  <1>6. PICK n \in final : n[1] = c
    OBVIOUS
  <1>7. PICK b \in Nat : n = <<c, b>>
    BY <1>5, <1>6, NameParts
  <1>8. Done(c, b) /\ Done(c, a)
    BY <1>3, <1>4, <1>5, <1>6, <1>7 DEF Done
  <1>9. b <= a /\ a <= b
    BY <1>4, <1>5, <1>6, <1>7, <1>8 DEF OrderInv, AttemptsInOrder
  <1>10. <<c, a>> \in EntryNames(entries)
    BY <1>5, <1>6, <1>7, <1>9
  <1> QED
    BY <1>3, <1>4, <1>10 DEF OrderInv, OneTransactionEach

(* A step in which the pool and its entries stay as they are.                 *)
LEMMA SigSame ==
  ASSUME SigInv, UNCHANGED <<state, entries, final, finalSig>>
  PROVE  SigInv'
  BY DEF SigInv

(* "dss": the signatures noted are for the final transaction of the session.  *)
LEMMA AddScriptSigSig ==
  ASSUME Base, OrderInv, SigInv, NEW c \in Clients, AddScriptSig(c)
  PROVE  SigInv' /\ EntryNames(entries)' \subseteq EntryNames(entries)
         /\ (EntryNames(entries)' = {} \/ (state' = state /\ final' = final))
  <1> DEFINE sig == Head(chan[c]).sig
  <1>1. /\ chan[c] # <<>> /\ Head(chan[c]).kind = "dss" /\ sig \in SUBSET Names
        /\ session' = session
    BY AddScriptSigIs
  <1>2. CASE UNCHANGED <<pool, spent, charged>>
    <2>1. EntryNames(entries)' = EntryNames(entries)
      BY <1>2 DEF pool, EntryNames, Name
    <2> QED
      BY <2>1, <1>2, SigSame DEF pool
  <1>3. CASE \E e \in BOOLEAN : SetNull(e)
    <2>1. EntryNames(entries') = {} /\ state' = "accepting"
      BY <1>1, <1>3, SetNullIs DEF Base, Types
    <2>2. EntryNames(entries)' = {}
      BY <2>1 DEF EntryNames, Name
    <2> QED
      BY <2>1, <2>2 DEF SigInv
  <1>4. CASE /\ state = "signing" /\ \E n \in final : n[1] = c
             /\ entries' = Signed(c, sig)
             /\ finalSig' = [finalSig EXCEPT ![c] = sig]
             /\ UNCHANGED <<state, users, denom, collateral, final, id, spent, charged>>
    <2>1. sig = final
      BY <1>1, <1>4, SignatureIsCurrent
    <2>2. entries \in Seq(Entry) /\ finalSig \in [Clients -> SUBSET Names]
      BY DEF Base, Types, PoolTypes
    <2>3. /\ DOMAIN entries' = DOMAIN entries
          /\ \A i \in DOMAIN entries :
                /\ entries'[i].c = entries[i].c
                /\ entries'[i].sig = IF entries[i].c = c /\ entries[i].sig = NoSig THEN sig ELSE entries[i].sig
          /\ EntryNames(entries') = EntryNames(entries)
      BY <1>1, <1>4, <2>2, SignedIs
    <2>4. EntryNames(entries)' = EntryNames(entries)
      BY <2>3 DEF EntryNames, Name
    <2>5. \A i \in DOMAIN entries : entries[i].c \in Clients
      BY <2>2, EntryClient
    <2>6. finalSig'[c] = sig /\ \A b \in Clients : b # c => finalSig'[b] = finalSig[b]
      BY <1>4, <2>2
    <2>7. ASSUME NEW i \in DOMAIN entries
          PROVE  entries'[i].sig \in {NoSig, final} /\ finalSig'[entries'[i].c] = entries'[i].sig
      <3>1. entries[i].sig \in {NoSig, final} /\ finalSig[entries[i].c] = entries[i].sig
        BY <1>4 DEF SigInv
      <3>2. CASE entries[i].c = c
        BY <3>1, <3>2, <2>1, <2>3, <2>6
      <3>3. CASE entries[i].c # c
        BY <3>1, <3>3, <2>3, <2>5, <2>6
      <3> QED
        BY <3>2, <3>3
    <2>8. SigInv'
      BY <2>3, <2>7, <1>4 DEF SigInv
    <2> QED
      BY <2>4, <2>8, <1>4
  <1> QED
    BY AddScriptSigIs, <1>2, <1>3, <1>4

(* "dsi": the final transaction is made of unsigned entries.                  *)
LEMMA AddEntrySig ==
  ASSUME Base, NEW c \in Clients, AddEntry(c)
  PROVE  SigInv'
  <1>1. /\ state = "accepting" /\ UNCHANGED finalSig
        /\ entries' \in Seq(Entry)
        /\ \A i \in DOMAIN entries : i \in DOMAIN entries' /\ entries'[i] = entries[i]
        /\ \A i \in DOMAIN entries' : i \in DOMAIN entries \/ i = Len(entries')
        /\ entries'[Len(entries')] = [c |-> c, a |-> Head(chan[c]).a, born |-> session, sig |-> NoSig]
    BY AddEntryIs
  <1>2. /\ \A i \in DOMAIN entries : entries[i].sig = NoSig
        /\ \A b \in Clients : finalSig[b] = NoSig
    BY <1>1 DEF Base, PoolInv
  <1>3. \A i \in DOMAIN entries' : entries'[i].sig = NoSig
    BY <1>1, <1>2
  <1>4. \A i \in DOMAIN entries' : entries'[i].c \in Clients
    BY <1>1, EntryClient
  <1> QED
    BY <1>1, <1>2, <1>3, <1>4 DEF SigInv

-----------------------------------------------------------------------------
(* The invariant.                                                             *)

(* The inductive step.                                                        *)
LEMMA InvInductive ==
  /\ Init => Inv
  /\ Inv /\ [Next]_vars => Inv'
  <1>1. Init => Inv
    BY InitBase, InitOrder DEF Inv, Base, SigInv, Init
  <1>2. ASSUME Inv, [Next]_vars
        PROVE  Inv'
    <2>1. Base /\ OrderInv /\ SigInv
      BY <1>2 DEF Inv, Base
    <2> SUFFICES Base' /\ OrderInv' /\ SigInv'
      BY DEF Inv, Base
    <2>2. ASSUME Base', ChanShrinks, UNCHANGED <<state, entries, final, finalSig, phase, attempt, relayed>>
          PROVE  Base' /\ OrderInv' /\ SigInv'
      <3>1. EntryNames(entries)' = EntryNames(entries)
        BY <2>2 DEF EntryNames, Name
      <3>2. \A c \in Clients : (Submitted(c) => Submitted(c)') /\ (phase[c] = "idle" => phase'[c] = "idle")
        BY <2>2 DEF Submitted
      <3> QED
        BY <2>1, <2>2, <3>1, <3>2, OrderKept, SigSame
    <2>3. CASE OpenForEntries
      <3>1. Base' /\ ChanShrinks
        BY <2>1, <2>3, OpenForEntriesBase
      <3>2. /\ state = "queue" /\ state' = "accepting" /\ UNCHANGED <<entries, relayed, attempt>>
            /\ phase' = [c \in Clients |-> IF phase[c] = "accepted" THEN "ready" ELSE phase[c]]
        BY <2>3 DEF OpenForEntries
      <3>3. EntryNames(entries)' = EntryNames(entries)
        BY <3>2 DEF EntryNames, Name
      <3>4. \A c \in Clients : (Submitted(c) => Submitted(c)') /\ (phase[c] = "idle" => phase'[c] = "idle")
        BY <3>2 DEF Submitted
      <3> QED
        BY <2>1, <3>1, <3>2, <3>3, <3>4, OrderKept DEF SigInv
    <2>4. CASE ExpireEntry
      <3>1. Base' /\ ChanShrinks /\ EntryNames(entries)' \subseteq EntryNames(entries) /\ state # "signing"
        BY <2>1, <2>4, ExpireEntryBase
      <3>2. state' = "accepting" \/ state' = state
        BY <2>4 DEF ExpireEntry, SetNull
      <3>3. UNCHANGED <<phase, attempt, relayed>>
        BY <2>4 DEF ExpireEntry, client
      <3>4. \A c \in Clients : (Submitted(c) => Submitted(c)') /\ (phase[c] = "idle" => phase'[c] = "idle")
        BY <3>3 DEF Submitted
      <3> QED
        BY <2>1, <3>1, <3>2, <3>3, <3>4, OrderKept DEF SigInv
    <2>5. CASE QueueTimeout
      <3>1. Base' /\ ChanShrinks
        BY <2>1, <2>5, QueueTimeoutBase
      <3>2. state # "signing" /\ state' = "accepting" /\ UNCHANGED <<entries, phase, attempt, relayed>>
        BY <2>5 DEF QueueTimeout, client
      <3>3. EntryNames(entries)' = EntryNames(entries)
        BY <3>2 DEF EntryNames, Name
      <3>4. \A c \in Clients : (Submitted(c) => Submitted(c)') /\ (phase[c] = "idle" => phase'[c] = "idle")
        BY <3>2 DEF Submitted
      <3> QED
        BY <2>1, <3>1, <3>2, <3>3, <3>4, OrderKept DEF SigInv
    <2>6. CASE SigningTimeout
      <3>1. Base' /\ ChanShrinks /\ EntryNames(entries') = {}
        BY <2>1, <2>6, SigningTimeoutBase
      <3>2. state' = "accepting" /\ UNCHANGED <<phase, attempt, relayed>>
        BY <2>6 DEF SigningTimeout, SetNull, client
      <3>3. EntryNames(entries)' = {}
        BY <3>1 DEF EntryNames, Name
      <3>4. \A c \in Clients : (Submitted(c) => Submitted(c)') /\ (phase[c] = "idle" => phase'[c] = "idle")
        BY <3>2 DEF Submitted
      <3> QED
        BY <2>1, <3>1, <3>2, <3>3, <3>4, OrderKept DEF SigInv
    <2>7. ASSUME NEW c \in Clients, AcceptUser(c)
          PROVE  Base' /\ OrderInv' /\ SigInv'
      <3>1. Base' /\ ChanShrinks
        BY <2>1, <2>7, AcceptUserBase
      <3>2. /\ UNCHANGED <<attempt, relayed, final, finalSig>>
            /\ \/ entries' = <<>> /\ state' = "queue"
               \/ UNCHANGED <<entries, state>>
            /\ phase' = [phase EXCEPT ![c] = IF phase[c] = "asked" THEN "accepted" ELSE phase[c]]
            /\ phase \in [Clients -> Phases]
        BY <2>1, <2>7 DEF AcceptUser, Base, Types, ClientTypes
      <3>3. EntryNames(entries)' = {} \/ (EntryNames(entries)' = EntryNames(entries) /\ state' = state)
        BY <3>2 DEF EntryNames, Name
      <3>4. \A b \in Clients : (Submitted(b) => Submitted(b)') /\ (phase[b] = "idle" => phase'[b] = "idle")
        BY <3>2 DEF Submitted
      <3>5. OrderInv'
        BY <2>1, <3>1, <3>2, <3>3, <3>4, OrderKept
      <3>6. SigInv'
        BY <2>1, <3>2 DEF SigInv
      <3> QED
        BY <3>1, <3>5, <3>6
    <2>8. ASSUME NEW c \in Clients, RejectUser(c) \/ RejectEntry(c) \/ RefuseEntry(c)
                                    \/ SpendElsewhere(c) \/ Disconnect(c)
          PROVE  Base' /\ OrderInv' /\ SigInv'
      <3>1. Base' /\ ChanShrinks
        BY <2>1, <2>8, RejectUserBase, RejectEntryBase, RefuseEntryBase, SpendElsewhereBase, DisconnectBase
      <3>2. UNCHANGED <<state, entries, final, finalSig, phase, attempt, relayed>>
        BY <2>8 DEF RejectUser, RejectEntry, RefuseEntry, SpendElsewhere, Disconnect, pool, client
      <3> QED
        BY <2>2, <3>1, <3>2
    <2>9. ASSUME NEW c \in Clients, AddEntry(c)
          PROVE  Base' /\ OrderInv' /\ SigInv'
      BY <2>1, <2>9, AddEntryBase, AddEntryOrder, AddEntrySig
    <2>10. ASSUME NEW c \in Clients, AddScriptSig(c)
           PROVE  Base' /\ OrderInv' /\ SigInv'
      <3>1. Base' /\ ChanShrinks
        BY <2>1, <2>10, AddScriptSigBase
      <3>2. /\ SigInv' /\ EntryNames(entries)' \subseteq EntryNames(entries)
            /\ (EntryNames(entries)' = {} \/ (state' = state /\ final' = final))
        BY <2>1, <2>10, AddScriptSigSig
      <3>3. UNCHANGED <<phase, attempt, relayed>>
        BY <2>10 DEF AddScriptSig, client
      <3>4. \A b \in Clients : (Submitted(b) => Submitted(b)') /\ (phase[b] = "idle" => phase'[b] = "idle")
        BY <3>3 DEF Submitted
      <3> QED
        BY <2>1, <3>1, <3>2, <3>3, <3>4, OrderKept
    <2>11. ASSUME NEW c \in Clients, ClientJoin(c) \/ ClientSubmit(c) \/ ClientSign(c)
           PROVE  Base' /\ OrderInv' /\ SigInv'
      <3>1. Base' /\ OrderInv'
        BY <2>1, <2>11, ClientJoinBase, ClientSubmitBase, ClientSignBase,
           ClientJoinOrder, ClientSubmitOrder, ClientSignOrder
      <3>2. UNCHANGED <<state, entries, final, finalSig>>
        BY <2>11 DEF ClientJoin, ClientSubmit, ClientSign, pool
      <3> QED
        BY <2>1, <3>1, <3>2, SigSame
    <2>12. CASE UNCHANGED vars
      <3>1. ChanShrinks
        BY <2>1, <2>12, ChanSame DEF vars, Base, Types
      <3>2. Base'
        BY <2>1, <2>12, <3>1, TakeBase DEF vars, fees, Base, Types, HistoryTypes
      <3> QED
        BY <2>2, <2>12, <3>1, <3>2 DEF vars, pool, client
    <2> QED
      BY <1>2, <2>3, <2>4, <2>5, <2>6, <2>7, <2>8, <2>9, <2>10, <2>11, <2>12 DEF Next, CheckTimeout
  <1> QED
    BY <1>1, <1>2

(* Counters, entries and the final transaction agree in every order of
   messages, refusals and timeouts; no entry of an earlier session is ever part
   of a final transaction, and all its entries are of one denomination.       *)
THEOREM SessionStaysConsistent == Spec => []SessionConsistent
  <1>1. ASSUME Inv
        PROVE  SessionConsistent
    <2> USE <1>1 DEF Inv, Types
    <2>1. MasterTypeOK
      <3>1. Range(collateral) \subseteq Names
        BY DEF PoolTypes, Range
      <3>2. Len(entries) <= MaxTx
        BY MaxTxAssumption DEF PoolInv, PoolTypes
      <3>3. \A c \in Clients : attempt[c] \in 0..MaxAttempts[c]
        BY AttemptsAssumption DEF ClientTypes
      <3> QED
        BY <3>1, <3>2, <3>3 DEF MasterTypeOK, PoolTypes, HistoryTypes, ClientTypes
    <2>2. UsersCoverEntries
      BY DEF UsersCoverEntries, PoolInv
    <2>3. FinalMirrorsEntries
      BY DEF FinalMirrorsEntries, PoolInv, OneSession
    <2> QED
      BY <2>1, <2>2, <2>3 DEF SessionConsistent
  <1> QED
    BY <1>1, InvInductive, PTL DEF Spec

(* The masternode never takes a signature for another transaction than the one
   being signed, although a signing that times out leaves the session number as
   it is, so that an old final transaction passes the client's check of it
   (AddScriptSig, SignFinalTransaction).                                      *)
THEOREM SignaturesStayCurrent == Spec => []SignaturesAreCurrent
  <1>1. ASSUME Inv
        PROVE  SignaturesAreCurrent
    BY <1>1 DEF Inv, SigInv, PoolInv, SignaturesAreCurrent
  <1> QED
    BY <1>1, InvInductive, PTL DEF Spec
=============================================================================
