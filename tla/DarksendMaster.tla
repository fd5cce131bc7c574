--------------------------- MODULE DarksendMaster ---------------------------
(* The masternode's side of a Darksend mix (darksend.cpp, darksend.h): clients
   queue with a collateral ("dsa"), submit a coin with the outputs they want
   ("dsi") and sign the joint transaction ("dss"); the pool moves through
   QUEUE, ACCEPTING_ENTRIES and SIGNING and is reset by timeouts.

   A client c mixes one coin; its a-th attempt asks for fresh outputs and has
   its own collateral, so <<c, a>> names an entry's outputs and collateral, and
   a signature (SIGHASH_ALL | ANYONECANPAY) is the set of outputs it commits to.
   Clients are the environment: each follows the protocol over one ordered
   connection, but may stop, start over, lose its connection or spend its coin
   at any time.  Time is not measured: a timeout may strike whenever the state
   it guards lasts.                                                           *)
EXTENDS Naturals, SequencesExt, FiniteSets

CONSTANTS
    Clients,      \* the clients of this masternode
    Denom,        \* the denominations a client mixes, [Clients -> ...]
    MaxTx,        \* POOL_MAX_TRANSACTIONS
    MaxAttempts   \* bound: the attempts of a client, [Clients -> Nat]

ASSUME MaxTxAssumption == MaxTx \in Nat /\ MaxTx > 1
ASSUME AttemptsAssumption == MaxAttempts \in [Clients -> Nat]

VARIABLES
    state,      \* the pool's state
    users,      \* sessionUsers
    denom,      \* sessionDenom, {} when unset
    collateral, \* vecSessionCollateral
    entries,    \* entries, each with the session it entered and its signature
    final,      \* finalTransaction: the outputs, {} when empty
    finalSig,   \* the signatures in finalTransaction, by client
    id,         \* sessionID
    charged,    \* collaterals broadcast, as a fine or as a random fee
    fined,      \* history: collaterals broadcast by ChargeFees
    spent,      \* clients whose coin is spent
    session,    \* history: how many sessions were opened
    turnedAway, \* history: entries refused because the session was not ready
    phase,      \* how far a client is in its attempt
    attempt,    \* the client's attempt
    joined,     \* the session a client was accepted into
    chan,       \* messages of a client on their way to the masternode
    relayed     \* final transactions sent to the clients ("dsf")

pool   == <<state, users, denom, collateral, entries, final, finalSig, id>>
client == <<phase, attempt, joined>>
fees   == <<charged, fined>>
vars   == <<pool, fees, spent, session, turnedAway, client, chan, relayed>>

NoSig == {}
States == {"accepting", "queue", "finalize", "signing"}
Phases == {"idle", "asked", "accepted", "ready", "submitted", "signed"}
Names  == UNION {{c} \X (1..MaxAttempts[c]) : c \in Clients}

Init ==
    /\ state = "accepting" /\ users = 0 /\ denom = {} /\ collateral = <<>>
    /\ entries = <<>> /\ final = {} /\ finalSig = [c \in Clients |-> NoSig] /\ id = 0
    /\ charged = {} /\ fined = {} /\ spent = {} /\ session = 0 /\ turnedAway = {}
    /\ phase = [c \in Clients |-> "idle"] /\ attempt = [c \in Clients |-> 0]
    /\ joined = [c \in Clients |-> 0]
    /\ chan = [c \in Clients |-> <<>>] /\ relayed = {}

-----------------------------------------------------------------------------
(* What the pool is made of.                                                  *)

Name(e) == <<e.c, e.a>>
EntryNames(es) == {Name(es[i]) : i \in DOMAIN es}

IsSessionReady == users >= MaxTx

(* Every entry already in the pool has the denominations of the new one.      *)
IsCompatibleWithEntries(c) == \A i \in DOMAIN entries : Denom[entries[i].c] = Denom[c]

(* The collateral is unspent, so that it could still be charged.              *)
IsCollateralValid(n) == n \notin charged

SignaturesComplete(es) == \A i \in DOMAIN es : es[i].sig # NoSig

(* AcceptToMemoryPool: the coins are unspent and each is signed for exactly
   these outputs.                                                             *)
FinalValid(tx, sigs) ==
    \A n \in tx : n[1] \notin spent /\ sigs[n[1]] = tx

(* SetNull: an empty pool that takes entries; SetNull(true) also draws a new
   session number.                                                            *)
SetNull(everything) ==
    /\ state' = "accepting" /\ users' = 0 /\ denom' = {} /\ collateral' = <<>>
    /\ entries' = <<>> /\ final' = {} /\ finalSig' = [c \in Clients |-> NoSig]
    /\ id' = IF everything THEN id + 1 ELSE id

(* Check after the entries became es: once the pool is full, build the joint
   transaction, sign nothing oneself and send it to the clients.  A second
   final transaction is never built over a first.                             *)
CheckEntries(es) ==
    /\ entries' = es
    /\ UNCHANGED <<users, denom, collateral, finalSig, id>>
    /\ IF Len(es) < MaxTx
       THEN UNCHANGED <<state, final, relayed>>
       ELSE IF final # {}
       THEN state' = "finalize" /\ UNCHANGED <<final, relayed>>
       ELSE /\ state' = "signing"
            /\ final' = EntryNames(es)
            /\ relayed' = relayed \union {[id |-> id, tx |-> EntryNames(es)]}

(* ChargeRandomFees: after a success any of the collaterals may be cashed.     *)
ChargeRandomFees ==
    \E some \in SUBSET Range(collateral) : charged' = charged \union some

(* Check after the signatures became sigs: when every entry is signed the
   transaction goes to the network and the pool starts afresh; if the network
   would refuse it the pool is emptied and keeps its session number.          *)
CheckSignatures(es, sigs) ==
    IF SignaturesComplete(es)
    THEN IF FinalValid(final, sigs)
         THEN /\ SetNull(TRUE)
              /\ spent' = spent \union {n[1] : n \in final}
              /\ ChargeRandomFees
         ELSE SetNull(FALSE) /\ UNCHANGED <<spent, charged>>
    ELSE /\ entries' = es /\ finalSig' = sigs
         /\ UNCHANGED <<state, users, denom, collateral, final, id, spent, charged>>

-----------------------------------------------------------------------------
(* Messages.  Each handler takes the first message of a client's connection.  *)

Received(c, kind) == chan[c] # <<>> /\ Head(chan[c]).kind = kind

Take(c) == chan' = [chan EXCEPT ![c] = Tail(chan[c])]

(* IsCompatibleWithSession lets the client into the session.                  *)
CanJoin(c) ==
    \/ users = 0
    \/ state \in {"accepting", "queue"} /\ users < MaxTx /\ denom = {Denom[c]}

\* A slip: what the last session left in the pool stays there.
AcceptUserKeepingEntries(c) ==
    /\ Received(c, "dsa") /\ IsCollateralValid(<<c, Head(chan[c]).a>>) /\ CanJoin(c)
    /\ users' = users + 1
    /\ collateral' = Append(collateral, <<c, Head(chan[c]).a>>)
    /\ IF users = 0 THEN state' = "queue" /\ denom' = {Denom[c]} /\ session' = session + 1
       ELSE UNCHANGED <<state, denom, session>>
    /\ Take(c)
    /\ phase' = [phase EXCEPT ![c] = IF phase[c] = "asked" THEN "accepted" ELSE phase[c]]
    /\ joined' = [joined EXCEPT ![c] = id]
    /\ UNCHANGED <<entries, final, finalSig, id, fees, spent, turnedAway, attempt, relayed>>

(* "dsa" is answered with MASTERNODE_ACCEPTED: the first user opens a session
   and empties the pool, the others are counted.                              *)
AcceptUser(c) ==
    /\ Received(c, "dsa") /\ IsCollateralValid(<<c, Head(chan[c]).a>>) /\ CanJoin(c)
    /\ users' = users + 1
    /\ collateral' = Append(collateral, <<c, Head(chan[c]).a>>)
    /\ IF users = 0
       THEN /\ state' = "queue" /\ denom' = {Denom[c]} /\ entries' = <<>>
            /\ session' = session + 1
       ELSE UNCHANGED <<state, denom, entries, session>>
    /\ Take(c)
    /\ phase' = [phase EXCEPT ![c] = IF phase[c] = "asked" THEN "accepted" ELSE phase[c]]
    /\ joined' = [joined EXCEPT ![c] = id]
    /\ UNCHANGED <<final, finalSig, id, fees, spent, turnedAway, attempt, relayed>>

(* "dsa" is answered with MASTERNODE_REJECTED, also when this masternode's
   last queue was too recent to open another.                                 *)
RejectUser(c) ==
    /\ Received(c, "dsa")
    /\ users = 0 \/ ~IsCollateralValid(<<c, Head(chan[c]).a>>) \/ ~CanJoin(c)
    /\ Take(c)
    /\ UNCHANGED <<pool, fees, spent, session, turnedAway, client, relayed>>

(* "dsi" refused before AddEntry is called: too early, other denominations, or
   a coin that cannot be spent.                                               *)
DsiRefused(c) == ~IsSessionReady \/ ~IsCompatibleWithEntries(c) \/ c \in spent

RejectEntry(c) ==
    /\ Received(c, "dsi") /\ DsiRefused(c)
    /\ turnedAway' = turnedAway \union
           {n \in Range(collateral) : /\ state = "accepting" /\ ~IsSessionReady
                                      /\ n = <<c, Head(chan[c]).a>>}
    /\ Take(c)
    /\ UNCHANGED <<pool, fees, spent, session, client, relayed>>

(* AddEntry refuses: the collateral is gone, the pool is full, the coin is in
   the pool already, or the pool is not taking entries.                       *)
AddEntryRefuses(c) ==
    \/ ~IsCollateralValid(<<c, Head(chan[c]).a>>)
    \/ Len(entries) >= MaxTx
    \/ \E i \in DOMAIN entries : entries[i].c = c
    \/ state # "accepting"

(* A "dsi" that AddEntry refuses costs the session a user.                    *)
RefuseEntry(c) ==
    /\ Received(c, "dsi") /\ ~DsiRefused(c) /\ AddEntryRefuses(c)
    /\ users' = users - 1
    /\ Take(c)
    /\ UNCHANGED <<state, denom, collateral, entries, final, finalSig, id, fees,
                   spent, session, turnedAway, client, relayed>>

AddEntry(c) ==
    /\ Received(c, "dsi") /\ ~DsiRefused(c) /\ ~AddEntryRefuses(c)
    /\ CheckEntries(Append(entries,
           [c |-> c, a |-> Head(chan[c]).a, born |-> session, sig |-> NoSig]))
    /\ Take(c)
    /\ UNCHANGED <<fees, spent, session, turnedAway, client>>

(* "dss", AddScriptSig: the signature goes into the final transaction and into
   the entry of this coin that has none yet; Check follows when it did.       *)
AddScriptSig(c) ==
    LET sig  == Head(chan[c]).sig
        mine == {i \in DOMAIN entries : entries[i].c = c /\ entries[i].sig = NoSig}
        sigs == [finalSig EXCEPT ![c] = sig]
        es   == [i \in DOMAIN entries |->
                    IF i \in mine THEN [entries[i] EXCEPT !.sig = sig] ELSE entries[i]]
    IN /\ Received(c, "dss")
       /\ IF state = "signing" /\ \E n \in final : n[1] = c
          THEN IF mine # {} THEN CheckSignatures(es, sigs)
               ELSE /\ finalSig' = sigs
                    /\ UNCHANGED <<state, users, denom, collateral, entries, final, id, spent, charged>>
          ELSE UNCHANGED <<pool, spent, charged>>
       /\ Take(c)
       /\ UNCHANGED <<fined, session, turnedAway, client, relayed>>

-----------------------------------------------------------------------------
(* CheckTimeout, called every 2.5 seconds and after every block.              *)

(* Who kept the others waiting, by position: collaterals without an entry while
   entries are taken, unsigned entries while signatures are.                  *)
Offenders ==
    CASE state = "accepting" -> {i \in DOMAIN collateral : collateral[i] \notin EntryNames(entries)}
      [] state = "signing" -> {i \in DOMAIN entries : entries[i].sig = NoSig}
      [] OTHER -> {}

(* The collateral the i-th of them put up.                                   *)
CollateralOf(i) == IF state = "accepting" THEN collateral[i] ELSE Name(entries[i])

(* ChargeFees: by chance nobody, otherwise the first offender, unless everyone
   is one.                                                                    *)
ChargeFees ==
    \/ UNCHANGED fees
    \/ /\ Cardinality(Offenders) < MaxTx
       /\ \E i \in Offenders :
             /\ \A j \in Offenders : i <= j
             /\ charged' = charged \union {CollateralOf(i)}
             /\ fined' = fined \union {CollateralOf(i)}

(* Enough users have queued: tell them to submit ("dsq", ready).              *)
OpenForEntries ==
    /\ state = "queue" /\ users = MaxTx
    /\ state' = "accepting"
    /\ phase' = [c \in Clients |-> IF phase[c] = "accepted" THEN "ready" ELSE phase[c]]
    /\ UNCHANGED <<users, denom, collateral, entries, final, finalSig, id, fees, spent,
                   session, turnedAway, attempt, joined, chan, relayed>>

(* The oldest entry has expired; with the last one the session ends.          *)
ExpireEntry ==
    /\ state \in {"accepting", "queue"} /\ ~(state = "queue" /\ users = MaxTx)
    /\ entries # <<>>
    /\ IF Len(entries) = 1 THEN SetNull(TRUE)
       ELSE /\ entries' = Tail(entries)
            /\ UNCHANGED <<state, users, denom, collateral, final, finalSig, id>>
    /\ UNCHANGED <<fees, spent, session, turnedAway, client, chan, relayed>>

\* A slip: the users of the session that timed out are still counted.
QueueTimeoutKeepsUsers ==
    /\ state \in {"accepting", "queue"} /\ ~(state = "queue" /\ users = MaxTx)
    /\ users # 0 \/ collateral # <<>> \/ denom # {}
    /\ ChargeFees
    /\ denom' = {} /\ collateral' = <<>> /\ state' = "accepting"
    /\ UNCHANGED <<users, entries, final, finalSig, id, spent, session, turnedAway, client,
                   chan, relayed>>

(* The session lasted too long before it was full: charge, forget the users.
   The entries stay.                                                          *)
QueueTimeout ==
    /\ state \in {"accepting", "queue"} /\ ~(state = "queue" /\ users = MaxTx)
    /\ users # 0 \/ collateral # <<>> \/ denom # {}
    /\ ChargeFees
    /\ users' = 0 /\ denom' = {} /\ collateral' = <<>> /\ state' = "accepting"
    /\ UNCHANGED <<entries, final, finalSig, id, spent, session, turnedAway, client,
                   chan, relayed>>

(* Not everyone signed in time: charge and empty the pool.  The masternode
   cannot enter the ERROR state, and the session number stays.                *)
SigningTimeout ==
    /\ state \in {"signing", "finalize"}
    /\ ChargeFees
    /\ SetNull(FALSE)
    /\ UNCHANGED <<spent, session, turnedAway, client, chan, relayed>>

-----------------------------------------------------------------------------
(* The clients and the network.                                               *)

Send(c, msg) == Len(chan[c]) < 2 /\ chan' = [chan EXCEPT ![c] = Append(chan[c], msg)]

(* DoAutomaticDenominating: start, or start over, with new outputs.           *)
ClientJoin(c) ==
    /\ attempt[c] < MaxAttempts[c] /\ c \notin spent
    /\ attempt' = [attempt EXCEPT ![c] = attempt[c] + 1]
    /\ phase' = [phase EXCEPT ![c] = "asked"]
    /\ Send(c, [kind |-> "dsa", a |-> attempt[c] + 1])
    /\ UNCHANGED <<pool, fees, spent, session, turnedAway, joined, relayed>>

(* SendDarksendDenominate, once the queue is ready.                           *)
ClientSubmit(c) ==
    /\ phase[c] = "ready"
    /\ phase' = [phase EXCEPT ![c] = "submitted"]
    /\ Send(c, [kind |-> "dsi", a |-> attempt[c]])
    /\ UNCHANGED <<pool, fees, spent, session, turnedAway, attempt, joined, relayed>>

\* A slip: the client signs for its coin without looking for its outputs.
WillSignBlindly(c, f) == f.id = joined[c] /\ \E n \in f.tx : n[1] = c

(* SignFinalTransaction signs a transaction of this session that spends the
   client's coin only when it pays all of the client's outputs.               *)
WillSign(c, f) == f.id = joined[c] /\ <<c, attempt[c]>> \in f.tx

ClientSign(c) ==
    /\ phase[c] = "submitted"
    /\ \E f \in relayed :
        /\ WillSign(c, f)
        /\ Send(c, [kind |-> "dss", sig |-> f.tx])
    /\ phase' = [phase EXCEPT ![c] = "signed"]
    /\ UNCHANGED <<pool, fees, spent, session, turnedAway, attempt, joined, relayed>>

(* The wallet spends the coin elsewhere, or the connection is lost.           *)
SpendElsewhere(c) ==
    /\ c \notin spent
    /\ spent' = spent \union {c}
    /\ UNCHANGED <<pool, fees, session, turnedAway, client, chan, relayed>>

Disconnect(c) ==
    /\ chan[c] # <<>>
    /\ chan' = [chan EXCEPT ![c] = <<>>]
    /\ UNCHANGED <<pool, fees, spent, session, turnedAway, client, relayed>>

CheckTimeout == OpenForEntries \/ ExpireEntry \/ QueueTimeout \/ SigningTimeout

Next ==
    \/ CheckTimeout
    \/ \E c \in Clients :
        \/ AcceptUser(c) \/ RejectUser(c)
        \/ RejectEntry(c) \/ RefuseEntry(c) \/ AddEntry(c) \/ AddScriptSig(c)
        \/ ClientJoin(c) \/ ClientSubmit(c) \/ ClientSign(c)
        \/ SpendElsewhere(c) \/ Disconnect(c)

(* The pool's thread keeps calling CheckTimeout, so no timeout is put off for
   ever.  Clients and connections owe nothing.                                *)
Fairness == WF_vars(OpenForEntries) /\ WF_vars(ExpireEntry)
            /\ WF_vars(QueueTimeout) /\ WF_vars(SigningTimeout)

Spec == Init /\ [][Next]_vars /\ Fairness

-----------------------------------------------------------------------------
(* The types of the state.                                                    *)
MasterTypeOK ==
    /\ state \in States /\ users \in 0..MaxTx
    /\ denom \in {{}} \union {{Denom[c]} : c \in Clients}
    /\ Range(collateral) \subseteq Names
    /\ Len(entries) <= MaxTx /\ EntryNames(entries) \subseteq Names
    /\ final \subseteq Names
    /\ charged \subseteq Names /\ fined \subseteq charged /\ turnedAway \subseteq Names
    /\ spent \subseteq Clients /\ session \in Nat /\ id \in Nat
    /\ phase \in [Clients -> Phases] /\ \A c \in Clients : attempt[c] \in 0..MaxAttempts[c]
    /\ \A c \in Clients : Len(chan[c]) <= 2

(* While signatures are gathered the pool holds exactly the entries the final
   transaction was built from, all of one denomination and all submitted in
   this session: what an earlier session left behind when it timed out
   (CheckTimeout keeps the entries) never reaches a final transaction.        *)
FinalMirrorsEntries ==
    state = "signing" =>
        /\ Len(entries) = MaxTx /\ final = EntryNames(entries)
        /\ \A i, j \in DOMAIN entries :
              entries[i].born = session /\ Denom[entries[i].c] = Denom[entries[j].c]

(* A signature in the pool is for the transaction being signed, in the entry
   and in the final transaction alike.  The session number does not change
   when signing times out, so an older transaction passes that check; it is
   the client's own check of its outputs that keeps old signatures away.      *)
SignaturesAreCurrent ==
    \A i \in DOMAIN entries :
        /\ entries[i].sig \in {NoSig, final}
        /\ state = "signing" => finalSig[entries[i].c] = entries[i].sig

(* sessionUsers, which refused entries lower and sessions reset, never falls
   below the entries taken, and a queue is never empty or without a user.     *)
UsersCoverEntries ==
    /\ state = "accepting" /\ users # 0 => Len(entries) <= users
    /\ state = "queue" => users # 0 /\ entries = <<>> /\ denom # {}
    /\ users # 0 => collateral # <<>>

(* The session as a whole: counters, entries and the final transaction agree
   in every order of messages, refusals and timeouts.                         *)
SessionConsistent == MasterTypeOK /\ UsersCoverEntries /\ FinalMirrorsEntries

(* No client can hold the pool up, in whatever phase it falls silent: a session
   that has users ends, and what was taken into the pool leaves it.           *)
SessionsEnd == (users # 0 ~> users = 0) /\ (entries # <<>> ~> entries = <<>>)

(* "Charge clients a fee if they're abusive": nobody is fined whose entry was
   sent when asked for and turned away because the session had lost a user.
   Not kept by the code: README, "Sentences the code does not keep".          *)
OnlyAbusersFined == fined \cap turnedAway = {}
=============================================================================
