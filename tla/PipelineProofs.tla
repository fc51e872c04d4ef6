----------------------------- MODULE PipelineProofs -----------------------------
(***************************************************************************)
(* Proofs about Pipeline: the inductive invariants of the relays and of    *)
(* the consumers hold of the two running together, no event falls between  *)
(* them, and together they implement Delivery.                             *)
(*                                                                         *)
(* What OutboxRelayProofs and NotificationServiceProofs show of a step is  *)
(* used through instances of them; what is left to do here is the steps of *)
(* one side as the other side sees them.                                   *)
(***************************************************************************)
EXTENDS Pipeline, FiniteSetTheorems, TLAPS

RP == INSTANCE OutboxRelayProofs
  WITH pc <- relayPc, dlq <- relayDlq, copies <- Copies, MaxAttempts <- RelayAttempts

CP == INSTANCE NotificationServiceProofs
  WITH Garbage <- {}, NotJson <- {}, Rejected <- {}, StartFirst <- TRUE,
       MaxAttempts <- NotifyAttempts, MaxLog <- 0

(* Events of committed tickets that were claimed by a relay.               *)
Relayed == {e \in Events : outbox[e].status # "absent" /\ outbox[e].attempts > 0}

(* Only these get into the partition.                                      *)
LogRelayed == \A i \in DOMAIN log : log[i] \in Relayed

(* The inductive invariant.                                                *)
IInv == RP!IInv /\ CP!IInv /\ LogRelayed

--------------------------------------------------------------------------------
(* The parameters of the whole satisfy what the relays assume of theirs.   *)
LEMMA RelayAssumptions ==
  /\ Events \subseteq Nat
  /\ BatchSize \in Int /\ ProcessingTimeout \in Int /\ RelayAttempts \in Int
  /\ DlqEnabled \in BOOLEAN /\ MaxSkew \in Nat
  /\ MaxCopies \in Nat \ {0} /\ MaxFaults \in Nat
  /\ NoClaim \notin RP!Claims
<1>1. NoClaim \notin RP!Claims
  BY AbsenceAssumption DEF Relay!Claims, RP!Claims
<1> QED BY <1>1, EventsAssumption, ParametersAssumption, BoundsAssumption

(* The same for the consumers.                                             *)
LEMMA ConsumerAssumptions ==
  /\ Events \cap {} = {} /\ {} \subseteq {} /\ {} \subseteq Events /\ ForceFail \subseteq Events
  /\ NotifyAttempts \in Int /\ ReopenAfter \in Nat \ {0}
  /\ TRUE \in BOOLEAN /\ DlqEnabled \in BOOLEAN
  /\ 0 \in Nat /\ MaxFaults \in Nat
  /\ Nobody \notin Consumers
BY EventsAssumption, ParametersAssumption, BoundsAssumption, AbsenceAssumption

--------------------------------------------------------------------------------
(* The two instances of a component are the same.                          *)
LEMMA SameInit == (Relay!Init => RP!Init) /\ (Consumer!Init => CP!Init)
<1>1. Relay!Init => RP!Init
  BY DEF Relay!Init, Relay!NoRow, Relay!Row, Relay!Null, RP!Init, RP!NoRow, RP!Row, RP!Null
<1>2. Consumer!Init => CP!Init
  BY DEF Consumer!Init, Consumer!Row, Consumer!None, Consumer!Messages,
         CP!Init, CP!Row, CP!None, CP!Messages
<1> QED BY <1>1, <1>2

(* The steps of a relay are those the proofs of OutboxRelay are about.     *)
LEMMA SameRelay ==
  ASSUME NEW r \in Relays
  PROVE  /\ Relay!ResetStuck(r) => RP!ResetStuck(r)
         /\ Relay!ClaimPending(r) => RP!ClaimPending(r)
         /\ Relay!Publish(r) => RP!Publish(r)
         /\ Relay!MarkSent(r) => RP!MarkSent(r)
         /\ Relay!MarkFailed(r) => RP!MarkFailed(r)
         /\ Relay!PublishDlq(r) => RP!PublishDlq(r)
         /\ Relay!MarkDead(r) => RP!MarkDead(r)
         /\ Relay!Crash(r) => RP!Crash(r)
<1> USE DEF Relay!Goto, RP!Goto, Relay!Fault, RP!Fault, Relay!Null, RP!Null, Relay!Lease, RP!Lease,
            Relay!Row, RP!Row
<1>1. Relay!ResetStuck(r) => RP!ResetStuck(r)
  BY DEF Relay!ResetStuck, RP!ResetStuck, Relay!AfterReset, RP!AfterReset, Relay!Stuck, RP!Stuck
<1>2. Relay!ClaimPending(r) => RP!ClaimPending(r)
  <2>1. Relay!Due = RP!Due
    <3>1. Relay!Eligible = RP!Eligible /\ Relay!Limit = RP!Limit
      BY DEF Relay!Eligible, RP!Eligible, Relay!Limit, RP!Limit
    <3>2. \A S : Relay!Cardinality(S) = RP!Cardinality(S)
      BY Zenon DEF Relay!Cardinality, RP!Cardinality
    <3> QED BY <3>1, <3>2, Zenon DEF Relay!Due, RP!Due
  <2>2. Relay!AfterClaim = RP!AfterClaim
    BY <2>1 DEF Relay!AfterClaim, RP!AfterClaim
  <2>3. Relay!NewClaims = RP!NewClaims
    BY <2>1, Zenon DEF Relay!NewClaims, RP!NewClaims
  <2> QED BY <2>1, <2>2, <2>3, Zenon DEF Relay!ClaimPending, RP!ClaimPending
<1>3. Relay!Publish(r) => RP!Publish(r)
  BY DEF Relay!Publish, RP!Publish, Relay!PublishOk, RP!PublishOk, Relay!PublishError,
         RP!PublishError, Relay!Exhausted, RP!Exhausted
<1> USE DEF Relay!Settle, RP!Settle, Relay!NextRow, RP!NextRow, Relay!Mark, RP!Mark
<1>4. Relay!MarkSent(r) => RP!MarkSent(r)
  BY DEF Relay!MarkSent, RP!MarkSent
<1>5. Relay!MarkFailed(r) => RP!MarkFailed(r)
  BY DEF Relay!MarkFailed, RP!MarkFailed, Relay!RetryWaits, RP!RetryWaits,
         Relay!backoff, RP!backoff
<1>6. Relay!PublishDlq(r) => RP!PublishDlq(r)
  BY DEF Relay!PublishDlq, RP!PublishDlq
<1>7. Relay!MarkDead(r) => RP!MarkDead(r)
  BY DEF Relay!MarkDead, RP!MarkDead
<1>8. Relay!Crash(r) => RP!Crash(r)
  BY DEF Relay!Crash, RP!Crash
<1> QED BY <1>1, <1>2, <1>3, <1>4, <1>5, <1>6, <1>7, <1>8

(* So are the steps of the outbox table and of time.                       *)
LEMMA SameTable ==
  /\ \A e \in Events : Relay!CreateTicket(e) => RP!CreateTicket(e)
  /\ Relay!Tick => RP!Tick
<1> USE DEF Relay!Null, RP!Null, Relay!Lease, RP!Lease, Relay!Row, RP!Row,
            Relay!relayVars, RP!relayVars
<1>1. \A e \in Events : Relay!CreateTicket(e) => RP!CreateTicket(e)
  BY DEF Relay!CreateTicket, RP!CreateTicket
<1>2. Relay!Tick => RP!Tick
  BY DEF Relay!Tick, RP!Tick
<1> QED BY <1>1, <1>2

(* The steps of a consumer and its reader are those the proofs of          *)
(* NotificationService are about.                                          *)
LEMMA SameGroup ==
  ASSUME NEW c \in Consumers
  PROVE  /\ Consumer!FetchMessage(c) => CP!FetchMessage(c)
         /\ Consumer!FetchTimeout(c) => CP!FetchTimeout(c)
         /\ Consumer!CommitOk(c) => CP!CommitOk(c)
         /\ Consumer!CommitError(c) => CP!CommitError(c)
         /\ Consumer!Assign(c) => CP!Assign(c)
         /\ Consumer!FetchFailed(c) => CP!FetchFailed(c)
         /\ Consumer!Crash(c) => CP!Crash(c)
<1> USE DEF Consumer!Goto, CP!Goto, Consumer!Fault, CP!Fault, Consumer!Release, CP!Release,
            Consumer!NextMessage, CP!NextMessage, Consumer!HasMessage, CP!HasMessage,
            Consumer!Stalled, CP!Stalled, Consumer!None, CP!None,
            Consumer!kafka, CP!kafka, Consumer!local, CP!local, Consumer!tables, CP!tables
<1>1. Consumer!FetchMessage(c) => CP!FetchMessage(c)
  BY DEF Consumer!FetchMessage, CP!FetchMessage
<1>2. Consumer!FetchTimeout(c) => CP!FetchTimeout(c)
  BY DEF Consumer!FetchTimeout, CP!FetchTimeout
<1>3. Consumer!CommitOk(c) => CP!CommitOk(c)
  BY DEF Consumer!CommitOk, CP!CommitOk
<1>4. Consumer!CommitError(c) => CP!CommitError(c)
  BY DEF Consumer!CommitError, CP!CommitError
<1>5. Consumer!Assign(c) => CP!Assign(c)
  BY DEF Consumer!Assign, CP!Assign, Consumer!StartOffset, CP!StartOffset
<1>6. Consumer!FetchFailed(c) => CP!FetchFailed(c)
  BY DEF Consumer!FetchFailed, CP!FetchFailed
<1>7. Consumer!Crash(c) => CP!Crash(c)
  BY DEF Consumer!Crash, CP!Crash
<1> QED BY <1>1, <1>2, <1>3, <1>4, <1>5, <1>6, <1>7

(* So are the steps of handleMessage and of the retry loop around it.      *)
LEMMA SameHandling ==
  ASSUME NEW c \in Consumers
  PROVE  /\ Consumer!Unmarshal(c) => CP!Unmarshal(c)
         /\ Consumer!StartProcessing(c) => CP!StartProcessing(c)
         /\ Consumer!MarkDone(c) => CP!MarkDone(c)
         /\ Consumer!MarkFailed(c) => CP!MarkFailed(c)
         /\ Consumer!PublishDlq(c) => CP!PublishDlq(c)
         /\ Consumer!MarkDead(c) => CP!MarkDead(c)
<1> USE DEF Consumer!Goto, CP!Goto, Consumer!Fault, CP!Fault, Consumer!Value, CP!Value,
            Consumer!Row, CP!Row, Consumer!BestEffort, CP!BestEffort,
            Consumer!AfterError, CP!AfterError, Consumer!Exhausted, CP!Exhausted,
            Consumer!kafka, CP!kafka, Consumer!tables, CP!tables
<1>1. Consumer!Unmarshal(c) => CP!Unmarshal(c)
  BY DEF Consumer!Unmarshal, CP!Unmarshal
<1>2. Consumer!StartProcessing(c) => CP!StartProcessing(c)
  BY DEF Consumer!StartProcessing, CP!StartProcessing, Consumer!StartProcessingOk,
         CP!StartProcessingOk, Consumer!StartProcessingError, CP!StartProcessingError,
         Consumer!Started, CP!Started, Consumer!Final, CP!Final
<1>3. Consumer!MarkDone(c) => CP!MarkDone(c)
  BY DEF Consumer!MarkDone, CP!MarkDone
<1>4. Consumer!MarkFailed(c) => CP!MarkFailed(c)
  BY DEF Consumer!MarkFailed, CP!MarkFailed
<1>5. Consumer!PublishDlq(c) => CP!PublishDlq(c)
  BY DEF Consumer!PublishDlq, CP!PublishDlq
<1>6. Consumer!MarkDead(c) => CP!MarkDead(c)
  BY DEF Consumer!MarkDead, CP!MarkDead
<1> QED BY <1>1, <1>2, <1>3, <1>4, <1>5, <1>6

--------------------------------------------------------------------------------
(* A step of the whole is a step of one side, as the other side sees it.   *)

RelayMove ==
  \/ \E e \in Events : CreateTicket(e)
  \/ \E r \in Relays : RelayStep(r) \/ RelayCrash(r)
  \/ Tick

ConsumerMove ==
  \/ \E c \in Consumers : ConsumerStep(c) \/ Assign(c)
  \/ ConsumerFault

(* The steps of the relays leave the consumers alone.                      *)
LEMMA RelayMoves == RelayMove => RP!Next /\ UNCHANGED consumerSide
<1> SUFFICES ASSUME RelayMove PROVE RP!Next /\ UNCHANGED consumerSide
  OBVIOUS
<1>1. ASSUME NEW e \in Events, CreateTicket(e) PROVE RP!Next /\ UNCHANGED consumerSide
  BY <1>1, SameTable DEF CreateTicket, RP!Next
<1>2. ASSUME NEW r \in Relays, RelayStep(r) PROVE RP!Next /\ UNCHANGED consumerSide
  BY <1>2, SameRelay DEF RelayStep, Publish, RP!Next, RP!RelayStep
<1>3. ASSUME NEW r \in Relays, RelayCrash(r) PROVE RP!Next /\ UNCHANGED consumerSide
  BY <1>3, SameRelay DEF RelayCrash, RP!Next
<1>4. CASE Tick
  BY <1>4, SameTable DEF Tick, RP!Next
<1> QED BY <1>1, <1>2, <1>3, <1>4 DEF RelayMove

(* They only append to the partition, and only what they have claimed.     *)
LEMMA RelayAppends ==
  ASSUME RelayMove
  PROVE  \/ UNCHANGED log
         \/ \E r \in Relays : \E c \in batch[r], n \in 0..MaxCopies :
              log' = log \o [i \in 1..n |-> c.id]
BY DEF RelayMove, CreateTicket, RelayStep, Publish, RelayCrash, Tick

(* The steps of the consumers leave the relays and the partition alone.    *)
LEMMA ConsumerMoves == ConsumerMove => CP!Next /\ UNCHANGED <<relaySide, log>>
<1> SUFFICES ASSUME ConsumerMove PROVE CP!Next /\ UNCHANGED <<relaySide, log>>
  OBVIOUS
<1>1. ASSUME NEW c \in Consumers, ConsumerStep(c) PROVE CP!ConsumerStep(c)
  BY <1>1, SameGroup, SameHandling DEF ConsumerStep, Consumer!ConsumerStep, CP!ConsumerStep
<1>2. ASSUME NEW c \in Consumers, Assign(c) PROVE CP!Assign(c)
  BY <1>2, SameGroup DEF Assign
<1>3. ASSUME ConsumerFault
      PROVE  \/ \E c \in Consumers : CP!FetchFailed(c) \/ CP!Crash(c)
             \/ CP!Rebalance \/ CP!Stall
  <2>1. (Consumer!Rebalance => CP!Rebalance) /\ (Consumer!Stall => CP!Stall)
    BY DEF Consumer!Rebalance, CP!Rebalance, Consumer!Stall, CP!Stall, Consumer!Release, CP!Release,
           Consumer!Fault, CP!Fault, Consumer!Stalled, CP!Stalled,
           Consumer!local, CP!local, Consumer!tables, CP!tables
  <2> QED BY <1>3, <2>1, SameGroup DEF ConsumerFault
<1>4. CP!Next
  BY <1>1, <1>2, <1>3 DEF ConsumerMove, CP!Next
<1>5. UNCHANGED relaySide
  BY DEF ConsumerMove, ConsumerStep, Assign, ConsumerFault
<1>6. UNCHANGED log
  <2>1. ASSUME NEW c \in Consumers, CP!ConsumerStep(c) PROVE UNCHANGED log
    BY <2>1 DEF CP!ConsumerStep, CP!kafka, CP!FetchMessage, CP!FetchTimeout, CP!Release,
                CP!Unmarshal, CP!StartProcessing, CP!MarkDone, CP!MarkFailed, CP!BestEffort,
                CP!PublishDlq, CP!MarkDead, CP!CommitOk, CP!CommitError
  <2>2. ASSUME NEW c \in Consumers, CP!Assign(c) \/ CP!FetchFailed(c) \/ CP!Crash(c)
        PROVE  UNCHANGED log
    BY <2>2 DEF CP!Assign, CP!FetchFailed, CP!Crash, CP!Release
  <2>3. CP!Rebalance \/ CP!Stall => UNCHANGED log
    BY DEF CP!Rebalance, CP!Stall, CP!Release
  <2> QED BY <1>1, <1>2, <1>3, <2>1, <2>2, <2>3 DEF ConsumerMove
<1> QED BY <1>4, <1>5, <1>6

(* There are no other steps.                                               *)
LEMMA Moves == [Next]_vars => RelayMove \/ ConsumerMove \/ UNCHANGED vars
BY DEF Next, RelayMove, ConsumerMove

--------------------------------------------------------------------------------
(* The inductive invariant.                                                *)

(* It holds before the first ticket.                                       *)
LEMMA InitIInv == Init => IInv
<1> SUFFICES ASSUME Init PROVE IInv
  OBVIOUS
<1>1. RP!IInv
  BY RelayAssumptions, SameInit, RP!InitIInv DEF Init
<1>2. CP!IInv
  BY ConsumerAssumptions, SameInit, CP!InitIInv DEF Init
<1>3. LogRelayed
  BY DEF Init, LogRelayed
<1> QED BY <1>1, <1>2, <1>3 DEF IInv

(* A Produce call appends: what was in the partition stays where it is.    *)
LEMMA Appended ==
  ASSUME NEW S, NEW T \in SUBSET S, NEW s \in Seq(S), NEW x \in T, NEW n \in Nat,
         NEW t, t = s \o [i \in 1..n |-> x]
  PROVE  /\ t \in Seq(S) /\ Len(s) <= Len(t) /\ Len(s) \in Nat /\ Len(t) \in Nat
         /\ \A i \in DOMAIN s : i \in DOMAIN t /\ t[i] = s[i]
         /\ \A i \in DOMAIN t : i \in DOMAIN s \/ t[i] = x
<1>1. [i \in 1..n |-> x] \in Seq(S) /\ Len([i \in 1..n |-> x]) = n
  OBVIOUS
<1> QED BY <1>1

(* A step of the relays.                                                   *)
LEMMA RelayMoveIInv == IInv /\ RelayMove => IInv'
<1> SUFFICES ASSUME IInv, RelayMove PROVE IInv'
  OBVIOUS
<1>0. RP!IInv /\ CP!IInv /\ LogRelayed /\ RP!Next /\ UNCHANGED consumerSide
  BY RelayMoves DEF IInv
<1>1. RP!IInv'
  BY <1>0, RelayAssumptions, RP!NextIInv
<1>2. faults' \in 0..MaxFaults
  BY <1>1 DEF RP!IInv, RP!TypeOK
<1>3. log \in Seq(Events)
  BY <1>0 DEF CP!IInv, CP!TypeOK, CP!Messages
<1>4. \A e \in Relayed : e \in Relayed'
  <2>1. ASSUME NEW f \in Events, RP!CreateTicket(f), NEW e \in Relayed PROVE e \in Relayed'
    BY <1>0, <2>1 DEF Relayed, RP!CreateTicket, RP!Row, RP!IInv, RP!TypeOK
  <2>2. ASSUME \A e \in Events : outbox'[e].status = "absent" <=> outbox[e].status = "absent",
               NEW e \in Relayed, outbox'[e].attempts >= outbox[e].attempts
        PROVE  e \in Relayed'
    <3>1. outbox[e].attempts \in Nat /\ outbox'[e].attempts \in Nat
      BY <1>0, <1>1 DEF Relayed, RP!IInv, RP!TypeOK, RP!Rows
    <3> QED BY <2>2, <3>1 DEF Relayed
  <2>3. ASSUME NEW e \in Events,
               outbox' = RP!AfterClaim \/ outbox'[e].attempts = outbox[e].attempts
        PROVE  outbox'[e].attempts >= outbox[e].attempts
    <3>1. outbox[e].attempts \in Nat
      BY <1>0 DEF RP!IInv, RP!TypeOK, RP!Rows
    <3> QED BY <2>3, <3>1 DEF RP!AfterClaim, RP!Row
  <2> QED BY <1>0, <2>1, <2>2, <2>3, RelayAssumptions, RP!RowsStay DEF Relayed
<1>5. ASSUME NEW r \in Relays, NEW c \in batch[r], NEW n \in 0..MaxCopies,
             log' = log \o [i \in 1..n |-> c.id]
      PROVE  log' \in Seq(Events) /\ CP!LogGrows /\ LogRelayed'
  <2>1. c \in RP!Held(r)
    BY DEF RP!Held
  <2>2. c.id \in Relayed
    BY <1>0, <2>1, RelayAssumptions, RP!HeldRow DEF Relayed
  <2>3. PICK S, s, t, x : S = Events /\ s = log /\ t = log' /\ x = c.id
    OBVIOUS
  <2>4. x \in S /\ n \in Nat
    BY <2>2, <2>3, BoundsAssumption DEF Relayed
  <2>5. /\ t \in Seq(S) /\ Len(s) <= Len(t) /\ Len(s) \in Nat /\ Len(t) \in Nat
        /\ \A i \in DOMAIN s : i \in DOMAIN t /\ t[i] = s[i]
        /\ \A i \in DOMAIN t : i \in DOMAIN s \/ t[i] = x
    BY <1>3, <1>5, <2>3, <2>4, Appended
  <2>6. CP!LogGrows
    BY <1>3, <2>3, <2>5 DEF CP!LogGrows
  <2>7. LogRelayed'
    BY <1>0, <1>4, <2>2, <2>3, <2>5 DEF LogRelayed
  <2> QED BY <2>3, <2>5, <2>6, <2>7
<1>6. ASSUME UNCHANGED log PROVE log' \in Seq(Events) /\ CP!LogGrows /\ LogRelayed'
  <2>1. CP!LogGrows
    BY <1>3, <1>6 DEF CP!LogGrows
  <2>2. LogRelayed'
    BY <1>0, <1>4, <1>6 DEF LogRelayed
  <2> QED BY <1>3, <1>6, <2>1, <2>2
<1>7. log' \in Seq(Events) /\ CP!LogGrows /\ LogRelayed'
  BY <1>3, <1>5, <1>6, RelayAppends
<1>8. CP!IInv'
  <2>1. UNCHANGED <<committed, origin, owner, pos, CP!local, CP!tables>>
    BY <1>0 DEF consumerSide, CP!local, CP!tables
  <2>2. log' \in Seq(CP!Messages)
    BY <1>7 DEF CP!Messages
  <2> QED BY <1>0, <1>2, <1>7, <2>1, <2>2, ConsumerAssumptions, CP!PartitionGrows
<1> QED BY <1>1, <1>7, <1>8 DEF IInv

(* A step of the consumers.                                                *)
LEMMA ConsumerMoveIInv == IInv /\ ConsumerMove => IInv'
<1> SUFFICES ASSUME IInv, ConsumerMove PROVE IInv'
  OBVIOUS
<1>0. /\ RP!IInv /\ CP!IInv /\ LogRelayed /\ CP!Next
      /\ UNCHANGED <<outbox, relayPc, batch, cur, relayDlq, log>>
  BY ConsumerMoves DEF IInv, relaySide
<1>1. CP!IInv'
  BY <1>0, ConsumerAssumptions, CP!NextIInv
<1>2. faults' \in 0..MaxFaults
  BY <1>1 DEF CP!IInv, CP!TypeOK
<1>3. UNCHANGED Copies
  BY <1>0 DEF Copies
<1>4. RP!IInv'
  BY <1>0, <1>2, <1>3, RelayAssumptions, RP!FaultsElsewhere
<1>5. LogRelayed'
  BY <1>0 DEF LogRelayed, Relayed
<1> QED BY <1>1, <1>4, <1>5 DEF IInv

(* Every step of the whole keeps it.                                       *)
LEMMA NextIInv == IInv /\ [Next]_vars => IInv'
<1>1. IInv /\ UNCHANGED vars => IInv'
  <2> SUFFICES ASSUME IInv, UNCHANGED vars PROVE IInv'
    OBVIOUS
  <2>1. RP!IInv'
    <3>1. faults' \in 0..MaxFaults /\ UNCHANGED Copies
      BY DEF IInv, RP!IInv, RP!TypeOK, vars, Copies
    <3> QED BY <3>1, RelayAssumptions, RP!FaultsElsewhere DEF IInv, vars
  <2>2. CP!IInv'
    <3>1. UNCHANGED CP!vars
      BY DEF vars, CP!vars
    <3> QED BY <3>1, ConsumerAssumptions, CP!NextIInv DEF IInv
  <2>3. LogRelayed'
    BY DEF IInv, vars, LogRelayed, Relayed
  <2> QED BY <2>1, <2>2, <2>3 DEF IInv
<1> QED BY <1>1, Moves, RelayMoveIInv, ConsumerMoveIInv

(* Relays and consumers keep their own inductive invariants when they run  *)
(* together, and every message in the partition belongs to a committed     *)
(* ticket that a relay has claimed.                                        *)
THEOREM Invariance == Spec => []IInv
BY InitIInv, NextIInv, PTL DEF Spec

(* No event falls between the services, whatever crashes, rebalances and   *)
(* stale commits there are and whether there is a DLQ or not: a row that   *)
(* says 'sent' has its message in the partition, and the committed offset  *)
(* only passes events that were notified.                                  *)
THEOREM NothingIsLostBetween == Spec => []SentIsDeliveredOrAhead
<1>1. IInv => SentIsDeliveredOrAhead
  <2> SUFFICES ASSUME IInv, NEW e \in Events, outbox[e].status = "sent", e \notin Notified
               PROVE  \E i \in DOMAIN log : log[i] = e /\ i > committed
    BY DEF SentIsDeliveredOrAhead
  <2>1. Copies[e] > 0
    BY DEF IInv, RP!IInv, RP!RowInv, RP!SentMeansPublished
  <2>2. {i \in DOMAIN log : log[i] = e} # {}
    BY <2>1, FS_EmptySet DEF Copies
  <2>3. PICK i \in DOMAIN log : log[i] = e
    BY <2>2
  <2>4. i \in Nat \ {0} /\ committed \in Nat \cup {-1}
    BY DEF IInv, CP!IInv, CP!TypeOK, CP!None
  <2>5. ASSUME i <= committed PROVE FALSE
    <3>1. PICK n \in Nat : n = committed /\ n # -1
      BY <2>4, <2>5
    <3>2. CP!Below(n)
      BY <3>1 DEF IInv, CP!IInv, CP!GroupInv, CP!CommittedInv, CP!None
    <3>3. PICK o \in 0..(n - 1) : o + 1 = i
      BY <2>4, <2>5, <3>1
    <3>4. CP!Accounted(e)
      BY <2>3, <3>2, <3>3 DEF CP!Below
    <3> QED BY <3>4 DEF CP!Accounted, Notified
  <2> QED BY <2>3, <2>4, <2>5
<1> QED BY <1>1, Invariance, PTL

--------------------------------------------------------------------------------
(* The refinement, step by step.                                           *)

(* What Delivery sees is a function of these.                              *)
LEMMA Seen ==
  /\ UNCHANGED notified => UNCHANGED Notified
  /\ UNCHANGED relayDlq => UNCHANGED RelayGaveUp
  /\ UNCHANGED dlq => UNCHANGED NotifyGaveUp
  /\ UNCHANGED outbox => UNCHANGED <<Accepted, RelayTries>>
  /\ UNCHANGED processed => UNCHANGED NotifyTries
BY DEF Notified, RelayGaveUp, NotifyGaveUp, Accepted, RelayTries, NotifyTries

(* A step that changes nothing Delivery can see.                           *)
LEMMA Unseen ==
  ASSUME UNCHANGED <<Accepted, RelayTries, RelayGaveUp, NotifyTries, Notified, NotifyGaveUp>>
  PROVE  UNCHANGED DeliverySpec!vars
BY DEF DeliverySpec!vars

(* What Delivery keeps of notification-service, as the relays leave it.    *)
LEMMA NotifySideKept ==
  ASSUME UNCHANGED consumerSide
  PROVE  UNCHANGED DeliverySpec!notifyVars /\ UNCHANGED <<NotifyTries, Notified, NotifyGaveUp>>
<1>1. UNCHANGED <<processed, notified, dlq>>
  BY DEF consumerSide
<1>2. UNCHANGED <<NotifyTries, Notified, NotifyGaveUp>>
  BY <1>1, Seen
<1> QED BY <1>2 DEF DeliverySpec!notifyVars

(* And of the outbox, as the consumers leave it.                           *)
LEMMA RelaySideKept ==
  ASSUME UNCHANGED relaySide
  PROVE  UNCHANGED DeliverySpec!relayVars /\ UNCHANGED <<Accepted, RelayTries, RelayGaveUp>>
<1>1. UNCHANGED <<outbox, relayDlq>>
  BY DEF relaySide
<1>2. UNCHANGED <<Accepted, RelayTries, RelayGaveUp>>
  BY <1>1, Seen
<1> QED BY <1>2 DEF DeliverySpec!relayVars

(* Dead letters of the relays: the claim in hand has used up the attempts, *)
(* and the row has counted it.                                             *)
LEMMA RelayGivesUp ==
  ASSUME IInv, NEW r \in Relays, RP!PublishDlq(r), UNCHANGED consumerSide
  PROVE  \E e \in Events : DeliverySpec!RelayGivesUp(e)
<1>0. RP!IInv /\ relayPc[r] = "dlq" /\ UNCHANGED outbox
  BY DEF IInv, RP!PublishDlq
<1>1. PICK c \in RP!Held(r) : c = cur[r]
  BY <1>0, RelayAssumptions, RP!InHandHeld
<1>2. /\ c.id \in Events /\ c.attempts \in Nat /\ c.attempts <= outbox[c.id].attempts
      /\ outbox[c.id].attempts \in Nat /\ c.id \in Accepted
  BY <1>0, RelayAssumptions, RP!HeldRow DEF Accepted
<1>3. c.attempts >= RelayAttempts
  BY <1>0, <1>1 DEF RP!IInv, RP!Control, RP!At, RP!Exhausted
<1>4. RelayTries[c.id] >= RelayAttempts
  <2>1. RelayTries[c.id] = outbox[c.id].attempts
    BY <1>2 DEF RelayTries
  <2> QED BY <1>2, <1>3, <2>1, ParametersAssumption
<1>5. RelayGaveUp' = RelayGaveUp \cup {c.id}
  <2>1. relayDlq \in [Events -> {"none", "lost", "written"}]
    BY <1>0 DEF RP!IInv, RP!TypeOK
  <2>2. relayDlq'[c.id] # "none" /\ \A e \in Events \ {c.id} : relayDlq'[e] = relayDlq[e]
    BY <1>1, <1>2, <2>1 DEF RP!PublishDlq
  <2> QED BY <1>2, <2>2 DEF RelayGaveUp
<1>6. UNCHANGED <<Accepted, RelayTries>> /\ UNCHANGED DeliverySpec!notifyVars
  BY <1>0, Seen, NotifySideKept
<1> QED BY <1>2, <1>4, <1>5, <1>6 DEF DeliverySpec!RelayGivesUp

(* A step of the relays: Accept, Relay, RelayGivesUp, or nothing Delivery  *)
(* sees.                                                                   *)
LEMMA RelayRefines == IInv /\ RelayMove => DeliverySpec!Next \/ UNCHANGED DeliverySpec!vars
<1> SUFFICES ASSUME IInv, RelayMove PROVE DeliverySpec!Next \/ UNCHANGED DeliverySpec!vars
  OBVIOUS
<1>0. /\ RP!IInv /\ RP!Next /\ UNCHANGED consumerSide /\ outbox \in [Events -> RP!Rows]
  BY RelayMoves DEF IInv, RP!IInv, RP!TypeOK
<1>n. UNCHANGED DeliverySpec!notifyVars /\ UNCHANGED <<NotifyTries, Notified, NotifyGaveUp>>
  BY <1>0, NotifySideKept
<1>1. ASSUME NEW r \in Relays, RP!PublishDlq(r) PROVE DeliverySpec!Next
  BY <1>0, <1>1, RelayGivesUp DEF DeliverySpec!Next
<1>2. ASSUME NEW f \in Events, RP!CreateTicket(f) PROVE DeliverySpec!Next
  <2>1. /\ outbox[f].status = "absent" /\ outbox[f].attempts = 0 /\ UNCHANGED relayDlq
        /\ outbox' = [outbox EXCEPT ![f] = RP!Row("pending", 0, RP!Null, 0)]
    BY <1>0, <1>2 DEF RP!CreateTicket, RP!IInv, RP!RowInv, RP!AbsentUnclaimed
  <2>2. /\ outbox'[f].status = "pending" /\ outbox'[f].attempts = 0
        /\ \A e \in Events \ {f} : outbox'[e] = outbox[e]
    BY <1>0, <2>1 DEF RP!Row
  <2>3. Accepted' = Accepted \cup {f}
    BY <2>1, <2>2 DEF Accepted
  <2>4. UNCHANGED RelayTries
    <3>1. \A e \in Events : outbox'[e].attempts = outbox[e].attempts
      BY <2>1, <2>2
    <3> QED BY <3>1 DEF RelayTries
  <2>5. UNCHANGED DeliverySpec!relayVars
    BY <2>1, <2>4, Seen DEF DeliverySpec!relayVars
  <2> QED BY <1>n, <2>3, <2>5 DEF DeliverySpec!Accept, DeliverySpec!Next
<1>3. ASSUME UNCHANGED relayDlq,
             \A e \in Events : outbox'[e].status = "absent" <=> outbox[e].status = "absent",
             \A e \in Events : outbox'[e].attempts = outbox[e].attempts
      PROVE  UNCHANGED DeliverySpec!vars
  <2>1. UNCHANGED Accepted
    BY <1>3 DEF Accepted
  <2>2. UNCHANGED RelayTries
    BY <1>3 DEF RelayTries
  <2> QED BY <1>n, <1>3, <2>1, <2>2, Seen, Unseen
<1>4. ASSUME UNCHANGED relayDlq, outbox' = RP!AfterClaim,
             \A e \in Events : outbox'[e].status = "absent" <=> outbox[e].status = "absent"
      PROVE  DeliverySpec!Next
  <2>1. RP!Due \subseteq Accepted /\ RP!Due \in SUBSET Events
    BY DEF RP!Due, RP!Eligible, Accepted
  <2>2. \A e \in Events : outbox'[e].attempts =
          IF e \in RP!Due THEN outbox[e].attempts + 1 ELSE outbox[e].attempts
    BY <1>4 DEF RP!AfterClaim, RP!Row
  <2>3. RelayTries' = [e \in Events |-> IF e \in RP!Due THEN RelayTries[e] + 1 ELSE RelayTries[e]]
    BY <2>2 DEF RelayTries
  <2>4. UNCHANGED <<Accepted, RelayGaveUp>>
    <3>1. UNCHANGED Accepted
      BY <1>4 DEF Accepted
    <3> QED BY <1>4, <3>1, Seen
  <2>5. DeliverySpec!Relay(RP!Due)
    BY <1>n, <2>1, <2>3, <2>4 DEF DeliverySpec!Relay
  <2> QED BY <2>1, <2>5 DEF DeliverySpec!Next
<1>5. \/ \E r \in Relays : RP!PublishDlq(r)
      \/ UNCHANGED relayDlq
  BY <1>0 DEF RP!Next, RP!RelayStep, RP!CreateTicket, RP!ResetStuck, RP!ClaimPending, RP!Publish,
              RP!MarkSent, RP!MarkFailed, RP!MarkDead, RP!Settle, RP!Crash, RP!Tick
<1>6. CASE UNCHANGED relayDlq
  BY <1>0, <1>2, <1>3, <1>4, <1>6, RelayAssumptions, RP!RowsStay
<1> QED BY <1>1, <1>5, <1>6

(* The message a consumer has in hand belongs to a committed ticket that a *)
(* relay has claimed, and its row has counted the attempt the consumer was *)
(* told of.                                                                *)
LEMMA HandledRow ==
  ASSUME IInv, NEW c \in Consumers, pc[c] # "fetch"
  PROVE  /\ CP!Value(c) \in Accepted /\ CP!Value(c) \in Events
         /\ RelayTries[CP!Value(c)] > 0
         /\ attempt[c] \in Nat /\ attempt[c] <= processed[CP!Value(c)].attempts
<1>1. /\ off[c] \in Nat /\ log \in Seq(Events) /\ CP!At(c) /\ LogRelayed /\ attempt[c] \in Nat
  BY DEF IInv, CP!IInv, CP!LoopInv, CP!TypeOK, CP!Messages
<1>2. off[c] + 1 \in DOMAIN log
  BY <1>1 DEF CP!At
<1>3. CP!Value(c) \in Relayed
  BY <1>1, <1>2 DEF LogRelayed, CP!Value
<1>4. CP!Value(c) \in Events /\ CP!Value(c) \in Accepted /\ RelayTries[CP!Value(c)] > 0
  BY <1>3 DEF Relayed, Accepted, RelayTries
<1> QED BY <1>1, <1>4 DEF CP!At

(* Dead letters of the consumers: the attempt in hand has used up the      *)
(* attempts, the row has counted it, and it was notified.                  *)
LEMMA ConsumerGivesUp ==
  ASSUME IInv, NEW c \in Consumers, CP!PublishDlq(c), UNCHANGED relaySide
  PROVE  \E e \in Events : DeliverySpec!NotifyGivesUp(e)
<1>0. pc[c] = "dlq" /\ UNCHANGED <<processed, notified>>
  BY DEF CP!PublishDlq
<1>1. PICK e \in Events : e = CP!Value(c)
  BY <1>0, HandledRow
<1>2. /\ attempt[c] \in Nat /\ attempt[c] <= processed[e].attempts
      /\ processed[e].attempts \in Nat
  BY <1>0, <1>1, HandledRow DEF IInv, CP!IInv, CP!TypeOK, CP!Rows
<1>3. NotifyAttempts > 0 /\ attempt[c] >= NotifyAttempts
  BY <1>0, <1>1 DEF IInv, CP!IInv, CP!LoopInv, CP!At, CP!Exhausted
<1>4. NotifyTries[e] >= NotifyAttempts
  <2>1. NotifyTries[e] = processed[e].attempts
    BY DEF NotifyTries
  <2> QED BY <1>2, <1>3, <2>1, ParametersAssumption
<1>5. e \in Notified
  <2>1. attempt[c] > 0
    BY <1>2, <1>3, ParametersAssumption
  <2>2. notified[e] > 0
    BY <1>0, <1>1, <2>1 DEF IInv, CP!IInv, CP!LoopInv, CP!At
  <2> QED BY <2>2 DEF Notified
<1>6. NotifyGaveUp' = NotifyGaveUp \cup {e}
  <2>1. dlq \in [Events -> {"none", "lost", "empty", "written"}]
    BY DEF IInv, CP!IInv, CP!TypeOK, CP!Messages
  <2>2. dlq'[e] # "none" /\ \A f \in Events \ {e} : dlq'[f] = dlq[f]
    BY <1>1, <2>1 DEF CP!PublishDlq
  <2> QED BY <2>2 DEF NotifyGaveUp
<1>7. UNCHANGED <<Accepted, NotifyTries, Notified>> /\ UNCHANGED DeliverySpec!relayVars
  BY <1>0, Seen, RelaySideKept
<1> QED BY <1>4, <1>5, <1>6, <1>7 DEF DeliverySpec!NotifyGivesUp

(* An attempt that reached the row of one event, notified or not.          *)
LEMMA Tried ==
  ASSUME IInv, NEW e \in Accepted, RelayTries[e] > 0, UNCHANGED relaySide, UNCHANGED dlq,
         processed'[e].attempts = processed[e].attempts + 1,
         \A f \in Events \ {e} : processed'[f].attempts = processed[f].attempts,
         UNCHANGED notified \/ notified' = [notified EXCEPT ![e] = @ + 1]
  PROVE  DeliverySpec!Next
<1>0. e \in Events
  BY DEF Accepted
<1>1. UNCHANGED <<Accepted, NotifyGaveUp>> /\ UNCHANGED DeliverySpec!relayVars
  BY Seen, RelaySideKept
<1>2. NotifyTries' = [f \in Events |-> IF f = e THEN NotifyTries[f] + 1 ELSE NotifyTries[f]]
  BY DEF NotifyTries
<1>3. Notified' \in {Notified, Notified \cup {e}}
  <2>1. ASSUME UNCHANGED notified PROVE Notified' = Notified
    BY <2>1, Seen
  <2>2. ASSUME notified' = [notified EXCEPT ![e] = @ + 1] PROVE Notified' = Notified \cup {e}
    <3>1. notified \in [Events -> Nat]
      BY DEF IInv, CP!IInv, CP!TypeOK
    <3>2. notified'[e] > 0 /\ \A f \in Events \ {e} : notified'[f] = notified[f]
      BY <1>0, <2>2, <3>1
    <3> QED BY <1>0, <3>2 DEF Notified
  <2> QED BY <2>1, <2>2
<1>4. DeliverySpec!Notify(e)
  BY <1>1, <1>2, <1>3 DEF DeliverySpec!Notify
<1> QED BY <1>0, <1>4 DEF DeliverySpec!Next

(* StartProcessing is a try, unless the row is final or the statement was  *)
(* not applied.                                                            *)
LEMMA StartIsATry ==
  ASSUME IInv, NEW c \in Consumers, CP!StartProcessing(c), UNCHANGED relaySide
  PROVE  DeliverySpec!Next \/ UNCHANGED DeliverySpec!vars
<1>0. pc[c] = "handle" /\ UNCHANGED dlq
  BY DEF CP!StartProcessing
<1>1. PICK e \in Events : e = CP!Value(c) /\ e \in Accepted /\ RelayTries[e] > 0
  BY <1>0, HandledRow
<1>2. processed \in [Events -> CP!Rows]
  BY DEF IInv, CP!IInv, CP!TypeOK
<1>3. \/ UNCHANGED <<processed, notified>>
      \/ /\ processed' = [processed EXCEPT ![e] = CP!Started(processed[e])]
         /\ processed[e].status \in CP!Final => UNCHANGED notified
         /\ UNCHANGED notified \/ notified' = [notified EXCEPT ![e] = @ + 1]
  BY <1>1 DEF CP!StartProcessing, CP!StartProcessingOk, CP!StartProcessingError
<1>4. ASSUME UNCHANGED <<processed, notified>> PROVE UNCHANGED DeliverySpec!vars
  BY <1>0, <1>4, Seen, RelaySideKept, Unseen
<1>5. ASSUME processed[e].status \in CP!Final,
             processed' = [processed EXCEPT ![e] = CP!Started(processed[e])]
      PROVE  UNCHANGED processed
  BY <1>2, <1>5 DEF CP!Started
<1>6. ASSUME processed[e].status \notin CP!Final,
             processed' = [processed EXCEPT ![e] = CP!Started(processed[e])],
             UNCHANGED notified \/ notified' = [notified EXCEPT ![e] = @ + 1]
      PROVE  DeliverySpec!Next
  <2>1. CP!Started(processed[e]).attempts = processed[e].attempts + 1
    BY <1>6 DEF CP!Started, CP!Row
  <2>2. processed'[e].attempts = processed[e].attempts + 1
    BY <1>2, <1>6, <2>1
  <2>3. \A f \in Events \ {e} : processed'[f].attempts = processed[f].attempts
    BY <1>2, <1>6
  <2> QED BY <1>0, <1>1, <1>6, <2>2, <2>3, Tried
<1> QED BY <1>3, <1>4, <1>5, <1>6

(* The marks change the status of a row, not its attempts.                 *)
LEMMA MarksKeepAttempts ==
  ASSUME IInv, NEW c \in Consumers, CP!MarkDone(c) \/ CP!MarkFailed(c) \/ CP!MarkDead(c)
  PROVE  \A e \in Events : processed'[e].attempts = processed[e].attempts
<1>0. processed \in [Events -> CP!Rows] /\ pc[c] # "fetch"
  BY DEF IInv, CP!IInv, CP!TypeOK, CP!MarkDone, CP!MarkFailed, CP!MarkDead
<1>1. PICK m \in Events : m = CP!Value(c)
  BY <1>0, HandledRow
<1>2. \/ UNCHANGED processed
      \/ processed' = [processed EXCEPT ![m] = CP!Row("done", @.attempts, TRUE)]
      \/ processed' = [processed EXCEPT ![m] = CP!Row("processing", processed[m].attempts,
                                                      processed[m].processedAt)]
      \/ processed' = [processed EXCEPT ![m] = CP!Row("failed", processed[m].attempts,
                                                      processed[m].processedAt)]
  BY <1>1 DEF CP!MarkDone, CP!MarkFailed, CP!MarkDead, CP!BestEffort
<1>3. PICK row : /\ UNCHANGED processed \/ processed' = [processed EXCEPT ![m] = row]
                 /\ row.attempts = processed[m].attempts
  BY <1>2 DEF CP!Row
<1> QED BY <1>0, <1>3

(* A step of the consumers: Notify, NotifyGivesUp, or nothing Delivery     *)
(* sees.                                                                   *)
LEMMA ConsumerRefines ==
  IInv /\ ConsumerMove => DeliverySpec!Next \/ UNCHANGED DeliverySpec!vars
<1> SUFFICES ASSUME IInv, ConsumerMove PROVE DeliverySpec!Next \/ UNCHANGED DeliverySpec!vars
  OBVIOUS
<1>0. CP!Next /\ UNCHANGED relaySide
  BY ConsumerMoves
<1>1. ASSUME NEW c \in Consumers, CP!PublishDlq(c) PROVE DeliverySpec!Next
  BY <1>0, <1>1, ConsumerGivesUp DEF DeliverySpec!Next
<1>2. ASSUME NEW c \in Consumers, CP!StartProcessing(c)
      PROVE  DeliverySpec!Next \/ UNCHANGED DeliverySpec!vars
  BY <1>0, <1>2, StartIsATry
<1>3. ASSUME UNCHANGED <<notified, dlq>>,
             \A e \in Events : processed'[e].attempts = processed[e].attempts
      PROVE  UNCHANGED DeliverySpec!vars
  <2>1. UNCHANGED NotifyTries
    BY <1>3 DEF NotifyTries
  <2> QED BY <1>0, <1>3, <2>1, Seen, RelaySideKept, Unseen
<1>4. ASSUME NEW c \in Consumers, CP!MarkDone(c) \/ CP!MarkFailed(c) \/ CP!MarkDead(c)
      PROVE  UNCHANGED DeliverySpec!vars
  <2>1. UNCHANGED <<notified, dlq>>
    BY <1>4 DEF CP!MarkDone, CP!MarkFailed, CP!MarkDead, CP!BestEffort
  <2> QED BY <1>3, <1>4, <2>1, MarksKeepAttempts
<1>5. ASSUME UNCHANGED CP!tables PROVE UNCHANGED DeliverySpec!vars
  BY <1>3, <1>5 DEF CP!tables
<1>6. ASSUME NEW c \in Consumers,
             \/ CP!FetchMessage(c) \/ CP!FetchTimeout(c) \/ CP!Unmarshal(c) \/ CP!CommitOk(c)
             \/ CP!CommitError(c) \/ CP!Assign(c) \/ CP!FetchFailed(c) \/ CP!Crash(c)
      PROVE  UNCHANGED CP!tables
  BY <1>6 DEF CP!FetchMessage, CP!FetchTimeout, CP!Unmarshal, CP!CommitOk, CP!CommitError,
              CP!Assign, CP!FetchFailed, CP!Crash, CP!tables
<1>7. (\E m \in CP!Messages : CP!AppendMessage(m)) \/ CP!Rebalance \/ CP!Stall
        => UNCHANGED CP!tables
  BY DEF CP!AppendMessage, CP!Rebalance, CP!Stall, CP!tables
<1> QED BY <1>0, <1>1, <1>2, <1>4, <1>5, <1>6, <1>7 DEF CP!Next, CP!ConsumerStep

(* Together the services implement Delivery, for any number of relays and  *)
(* consumers and any faults: only the events of committed tickets are      *)
(* notified, after a relay has claimed them; no relay gives up before      *)
(* OUTBOX_RELAY_MAX_ATTEMPTS and no consumer before NOTIFY_MAX_ATTEMPTS,   *)
(* each counted by its own table, and a consumer only after a notification.*)
THEOREM DeliveryIsImplemented == Spec => ImplementsDelivery
<1>1. Init => DeliverySpec!Init
  <2> SUFFICES ASSUME Init PROVE DeliverySpec!Init
    OBVIOUS
  <2>0. RP!Init /\ CP!Init
    BY SameInit DEF Init
  <2>1. \A e \in Events : outbox[e].status = "absent" /\ outbox[e].attempts = 0 /\ relayDlq[e] = "none"
    BY <2>0 DEF RP!Init, RP!NoRow, RP!Row
  <2>2. \A e \in Events : processed[e].attempts = 0 /\ notified[e] = 0 /\ dlq[e] = "none"
    BY <2>0 DEF CP!Init, CP!Row, CP!Messages
  <2>3. Accepted = {} /\ Notified = {} /\ RelayGaveUp = {} /\ NotifyGaveUp = {}
    BY <2>1, <2>2 DEF Accepted, Notified, RelayGaveUp, NotifyGaveUp
  <2>4. RelayTries = [e \in Events |-> 0] /\ NotifyTries = [e \in Events |-> 0]
    BY <2>1, <2>2 DEF RelayTries, NotifyTries
  <2> QED BY <2>3, <2>4 DEF DeliverySpec!Init
<1>2. UNCHANGED vars => UNCHANGED DeliverySpec!vars
  <2> SUFFICES ASSUME UNCHANGED vars PROVE UNCHANGED DeliverySpec!vars
    OBVIOUS
  <2>1. UNCHANGED <<outbox, relayDlq, processed, notified, dlq>>
    BY DEF vars
  <2> QED BY <2>1, Seen, Unseen
<1>3. IInv /\ [Next]_vars => [DeliverySpec!Next]_(DeliverySpec!vars)
  BY <1>2, Moves, RelayRefines, ConsumerRefines
<1> QED BY <1>1, <1>3, Invariance, PTL DEF Spec, ImplementsDelivery, DeliverySpec!Spec
=================================================================================
