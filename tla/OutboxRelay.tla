------------------------------ MODULE OutboxRelay ------------------------------
(***************************************************************************)
(* The outbox table and the relay processes that drain it into Kafka:      *)
(* cmd/outbox-relay/main.go (the poll loop, tick, maybeDead, backoff) and  *)
(* internal/outbox/store.go (the SQL statements).                          *)
(*                                                                         *)
(* Each SQL statement is one atomic step, and so is each Kafka publish.    *)
(* Between any two steps other relays may run, time may pass and a relay   *)
(* may crash.  A relay keeps no state outside `tick`, so a crash and a     *)
(* SIGTERM (which cancels the context of every later statement) both just  *)
(* lose the batch in hand.                                                 *)
(*                                                                         *)
(* Time is kept relative to now and counted in half seconds: every         *)
(* duration in the relay is a multiple of 500ms.                           *)
(***************************************************************************)
EXTENDS Integers, FiniteSets

CONSTANTS
  Events,            \* outbox rows, numbered in the order of created_at
  Relays,            \* running copies of cmd/outbox-relay
  BatchSize,         \* OUTBOX_RELAY_BATCH_SIZE
  ProcessingTimeout, \* OUTBOX_RELAY_PROCESSING_TIMEOUT, in half seconds
  MaxAttempts,       \* OUTBOX_RELAY_MAX_ATTEMPTS; 0 (or less) is "no limit"
  DlqEnabled,        \* whether KAFKA_DLQ_TOPIC is set
  MaxSkew,           \* how far a relay's clock is off PostgreSQL's, in half seconds
  MaxCopies,         \* bound: copies of a message one Produce call can append
  MaxFaults,         \* bound: crashes and database errors in a behaviour
  NoClaim            \* "no row in hand"

ASSUME EventsAssumption == Events \subseteq Nat
ASSUME ParametersAssumption ==
  /\ BatchSize \in Int /\ ProcessingTimeout \in Int /\ MaxAttempts \in Int
  /\ DlqEnabled \in BOOLEAN /\ MaxSkew \in Nat
ASSUME BoundsAssumption == MaxCopies \in Nat \ {0} /\ MaxFaults \in Nat

Claims == [id : Events, attempts : Nat]

ASSUME NoClaimAssumption == NoClaim \notin Claims

VARIABLES
  outbox,  \* the table: event -> row
  pc,      \* where each relay is in tick
  batch,   \* claimed rows a relay has still to process
  cur,     \* the claimed row a relay is processing
  copies,  \* how many times each event is in the Kafka topic
  dlq,     \* dead-letter topic: "none", "lost" (publish failed), "written"
  faults   \* crashes and database errors so far

relayVars == <<pc, batch, cur>>
vars == <<outbox, pc, batch, cur, copies, dlq, faults>>

--------------------------------------------------------------------------------
(* The row.                                                                *)

Statuses == {"absent", "pending", "processing", "sent", "failed"}
Settled == {"sent", "failed"}

\* processing_started_at IS NULL
Null == -1

\* store.ResetStuck: a timeout that is not positive means 30 seconds.
Lease == IF ProcessingTimeout <= 0 THEN 60 ELSE ProcessingTimeout

\* store.ClaimPending: a batch size that is not positive means 50.
Limit == IF BatchSize <= 0 THEN 50 ELSE BatchSize

\* 500ms for the first attempt, then 2s, 4s ... 32s, and 60s for the rest.
backoff(attempt) ==
  IF attempt <= 1 THEN 1
  ELSE IF attempt <= 6 THEN <<4, 8, 16, 32, 64>>[attempt - 1]
  ELSE 120

\* next_retry_at is set by the relay's clock and compared with PostgreSQL's:
\* how long a row may really have to wait.
RetryWaits(attempt) ==
  LET d == backoff(attempt)
  IN (IF d > MaxSkew THEN d - MaxSkew ELSE 0)..(d + MaxSkew)

\* startedAgo is the age of processing_started_at, kept up to the first age
\* at which the lease has expired; wait is what is left until next_retry_at.
Rows == [status : Statuses, attempts : Nat, startedAgo : Null..(Lease + 1),
         wait : Nat]

Row(status, attempts, startedAgo, wait) ==
  [status |-> status, attempts |-> attempts, startedAgo |-> startedAgo, wait |-> wait]

NoRow == Row("absent", 0, Null, 0)

--------------------------------------------------------------------------------
(* Effects of the SQL statements on the table.                             *)

Stuck(e) == outbox[e].status = "processing" /\ outbox[e].startedAgo > Lease

\* Mutant: the attempts are forgotten with the lease.
AfterResetForgets ==
  [e \in Events |-> IF Stuck(e) THEN Row("pending", 0, Null, 0) ELSE outbox[e]]

\* Mutant: rows left behind by a crash are never freed.
AfterResetNever == outbox

AfterReset ==
  [e \in Events |->
     IF Stuck(e) THEN Row("pending", outbox[e].attempts, Null, 0) ELSE outbox[e]]

\* Mutant: the claim does not look at the status.
EligibleAnyStatus == {e \in Events : outbox[e].status # "absent" /\ outbox[e].wait = 0}

Eligible == {e \in Events : outbox[e].status = "pending" /\ outbox[e].wait = 0}

\* ORDER BY created_at LIMIT: the rows with fewer than Limit older ones.
Due == {e \in Eligible : Cardinality({f \in Eligible : f < e}) < Limit}

\* Mutant: attempts are not counted by the claim.
AfterClaimUncounted ==
  [e \in Events |->
     IF e \in Due THEN Row("processing", outbox[e].attempts, 0, 0) ELSE outbox[e]]

AfterClaim ==
  [e \in Events |->
     IF e \in Due
     THEN Row("processing", outbox[e].attempts + 1, 0, outbox[e].wait)
     ELSE outbox[e]]

\* Mutant: RETURNING gives the attempts of before the UPDATE.
NewClaimsStale == {[id |-> e, attempts |-> outbox[e].attempts] : e \in Due}

\* RETURNING: each claimed row with its attempts after the UPDATE.
NewClaims == {[id |-> e, attempts |-> outbox[e].attempts + 1] : e \in Due}

\* Mutant: processing_started_at is left behind.
MarkKeepsLease(e, status) == outbox' = [outbox EXCEPT ![e].status = status]

\* UPDATE outbox SET status = ..., processing_started_at = NULL WHERE id = e:
\* neither the status nor the attempt the relay claimed is looked at.
Mark(e, status) ==
  outbox' = [outbox EXCEPT ![e] = Row(status, @.attempts, Null, @.wait)]

--------------------------------------------------------------------------------
(* Control of a relay.                                                     *)

Goto(r, label) == pc' = [pc EXCEPT ![r] = label]

Fault == faults < MaxFaults /\ faults' = faults + 1

\* The rows relay r has claimed and not finished with.
Held(r) == batch[r] \cup (IF cur[r] = NoClaim THEN {} ELSE {cur[r]})

\* Mutants: one attempt too few, and one too many.
ExhaustedEarly(c) == MaxAttempts > 0 /\ c.attempts + 1 >= MaxAttempts
ExhaustedLate(c) == MaxAttempts > 0 /\ c.attempts > MaxAttempts

\* maybeDead: the attempt number is the one read when the row was claimed.
Exhausted(c) == MaxAttempts > 0 /\ c.attempts >= MaxAttempts

\* On to the next row of the batch, or the end of tick.
NextRow(r) ==
  /\ Goto(r, IF batch[r] = {} THEN "idle" ELSE "loop")
  /\ cur' = [cur EXCEPT ![r] = NoClaim]
  /\ UNCHANGED batch

\* The end of handling a row with a statement whose error is only logged or
\* dropped: an error that was applied all the same is no different from success.
Settle(r, label, effect) ==
  /\ pc[r] = label
  /\ NextRow(r)
  /\ \/ effect /\ UNCHANGED faults
     \/ Fault /\ UNCHANGED outbox
  /\ UNCHANGED <<copies, dlq>>

--------------------------------------------------------------------------------
Init ==
  /\ outbox = [e \in Events |-> NoRow]
  /\ pc = [r \in Relays |-> "idle"]
  /\ batch = [r \in Relays |-> {}]
  /\ cur = [r \in Relays |-> NoClaim]
  /\ copies = [e \in Events |-> 0]
  /\ dlq = [e \in Events |-> "none"]
  /\ faults = 0

\* The transaction of PostgresStore.Create commits: the row appears, due at
\* once.  created_at is when the transaction began, so rows can appear in
\* another order than that of created_at.
CreateTicket(e) ==
  /\ outbox[e].status = "absent"
  /\ outbox' = [outbox EXCEPT ![e] = Row("pending", 0, Null, 0)]
  /\ UNCHANGED <<relayVars, copies, dlq, faults>>

\* The ticker fires.  On an error, whether or not the statement was applied,
\* tick returns.
ResetStuck(r) ==
  /\ pc[r] = "idle"
  /\ \/ outbox' = AfterReset /\ Goto(r, "claim") /\ UNCHANGED faults
     \/ outbox' \in {outbox, AfterReset} /\ Fault /\ UNCHANGED pc
  /\ UNCHANGED <<batch, cur, copies, dlq>>

\* On an error the rows may be claimed all the same, with nobody to process
\* them until the lease expires.
ClaimPending(r) ==
  /\ pc[r] = "claim"
  /\ \/ /\ outbox' = AfterClaim
        /\ batch' = [batch EXCEPT ![r] = NewClaims]
        /\ Goto(r, IF Due = {} THEN "idle" ELSE "loop")
        /\ UNCHANGED faults
     \/ /\ outbox' \in {outbox, AfterClaim}
        /\ Goto(r, "idle")
        /\ Fault
        /\ UNCHANGED batch
  /\ UNCHANGED <<cur, copies, dlq>>

\* producer.Produce for some row of the batch (RETURNING has no order).  A
\* success may have appended the message more than once, an error at least
\* zero times.  json.Marshal of an envelope fails only for a payload that is not
\* JSON, which a jsonb column does not hold; it would be an error with no copy.
PublishOk(r, c) ==
  \E n \in 1..MaxCopies :
     copies' = [copies EXCEPT ![c.id] = @ + n] /\ Goto(r, "sent")

\* Mutant: no `continue` after the error.
PublishErrorFallsThrough(r, c) == UNCHANGED copies /\ Goto(r, "sent")

\* Mutant: the row is marked and the dead letter forgotten.
PublishErrorNoDlq(r, c) ==
  UNCHANGED copies /\ Goto(r, IF Exhausted(c) THEN "dead" ELSE "retry")

PublishError(r, c) ==
  \E n \in 0..MaxCopies :
     /\ copies' = [copies EXCEPT ![c.id] = @ + n]
     /\ Goto(r, IF ~Exhausted(c) THEN "retry" ELSE IF DlqEnabled THEN "dlq" ELSE "dead")

Publish(r) ==
  /\ pc[r] = "loop"
  /\ \E c \in batch[r] :
       /\ batch' = [batch EXCEPT ![r] = @ \ {c}]
       /\ cur' = [cur EXCEPT ![r] = c]
       /\ PublishOk(r, c) \/ PublishError(r, c)
  /\ UNCHANGED <<outbox, dlq, faults>>

MarkSent(r) == Settle(r, "sent", Mark(cur[r].id, "sent"))

MarkFailed(r) ==
  Settle(r, "retry",
         \E wait \in RetryWaits(cur[r].attempts) :
            outbox' = [outbox EXCEPT ![cur[r].id] = Row("pending", @.attempts, Null, wait)])

\* maybeDead: dead-letter first, best effort, then mark the row.  An error of
\* Produce is dropped.  The json.Marshal before it, whose error would skip it,
\* is of the same payload and cannot fail.
PublishDlq(r) ==
  /\ pc[r] = "dlq"
  /\ \/ dlq' = [dlq EXCEPT ![cur[r].id] = "written"]
     \/ dlq' = [dlq EXCEPT ![cur[r].id] = IF @ = "written" THEN @ ELSE "lost"]
  /\ Goto(r, "dead")
  /\ UNCHANGED <<outbox, batch, cur, copies, faults>>

\* Mutant: a status the table's readers do not know.
MarkDeadMisspelt(r) == Settle(r, "dead", Mark(cur[r].id, "dead"))

MarkDead(r) == Settle(r, "dead", Mark(cur[r].id, "failed"))

\* The process dies, or SIGTERM cancels its context, and it starts again.
Crash(r) ==
  /\ Fault
  /\ pc[r] # "idle"
  /\ Goto(r, "idle")
  /\ batch' = [batch EXCEPT ![r] = {}]
  /\ cur' = [cur EXCEPT ![r] = NoClaim]
  /\ UNCHANGED <<outbox, copies, dlq>>

\* Half a second passes, when a row can tell.
Tick ==
  /\ \E e \in Events : outbox[e].wait > 0 \/ outbox[e].startedAgo \in 0..Lease
  /\ outbox' = [e \in Events |->
       LET row == outbox[e] IN
       Row(row.status, row.attempts,
           IF row.startedAgo \in 0..Lease THEN row.startedAgo + 1 ELSE row.startedAgo,
           IF row.wait > 0 THEN row.wait - 1 ELSE 0)]
  /\ UNCHANGED <<relayVars, copies, dlq, faults>>

RelayStep(r) ==
  \/ ResetStuck(r) \/ ClaimPending(r) \/ Publish(r)
  \/ MarkSent(r) \/ MarkFailed(r) \/ PublishDlq(r) \/ MarkDead(r)

Next ==
  \/ \E e \in Events : CreateTicket(e)
  \/ \E r \in Relays : RelayStep(r) \/ Crash(r)
  \/ Tick

Spec == Init /\ [][Next]_vars

\* A running relay keeps polling and finishes its statements, and time passes.
FairSpec == Spec /\ WF_vars(Tick) /\ \A r \in Relays : WF_vars(RelayStep(r))

--------------------------------------------------------------------------------
(* Properties.                                                             *)

Labels == {"idle", "claim", "loop", "sent", "retry", "dlq", "dead"}

\* The values the variables of the table and of the relays can take.
TypeOK ==
  /\ outbox \in [Events -> Rows]
  /\ pc \in [Relays -> Labels]
  /\ batch \in [Relays -> SUBSET Claims]
  /\ cur \in [Relays -> Claims \cup {NoClaim}]
  /\ copies \in [Events -> Nat]
  /\ dlq \in [Events -> {"none", "lost", "written"}]
  /\ faults \in 0..MaxFaults

\* MarkSent is only reached with the message in the topic: whatever relays do
\* to each other's rows, a row that says 'sent' was really published.
SentMeansPublished ==
  \A e \in Events : outbox[e].status = "sent" => copies[e] > 0

\* A row is given up on ('failed') only when it has used all its attempts, also
\* when the relay that marks it is long overtaken by another one.
DeadMeansExhausted ==
  \A e \in Events :
     outbox[e].status = "failed" => MaxAttempts > 0 /\ outbox[e].attempts >= MaxAttempts

\* maybeDead writes to the DLQ before it marks the row: no crash or overlap
\* leaves a 'failed' row whose dead letter was never even tried.
DeadLettered ==
  \A e \in Events : DlqEnabled /\ outbox[e].status = "failed" => dlq[e] # "none"

\* The cost of at-least-once delivery: every copy in the topic is paid for by
\* an attempt counted in the row, crashes and lost MarkSents included.
BoundedDuplication ==
  \A e \in Events : copies[e] <= MaxCopies * outbox[e].attempts

\* The attempt number ClaimPending returns identifies the claim: two relays
\* never hold the same one, and none is newer than the row.
ClaimsUnique ==
  /\ \A r \in Relays : \A c \in Held(r) :
        c.attempts > 0 /\ c.attempts <= outbox[c.id].attempts
  /\ \A r, s \in Relays : r # s => Held(r) \cap Held(s) = {}

\* A row has a processing_started_at exactly while it is 'processing', so that
\* ResetStuck, which skips rows where it is NULL, can free every such row.
LeaseIffProcessing ==
  \A e \in Events : outbox[e].status = "processing" <=> outbox[e].startedAgo # Null

\* With one relay, the rows it holds are its own: 'processing', and at the
\* attempt it claimed them with.  (A relay resets leases only between batches.)
SoleOwner ==
  \A r \in Relays : \A c \in Held(r) :
     outbox[c.id].status = "processing" /\ outbox[c.id].attempts = c.attempts

\* 'sent' and 'failed' are final.  True of one relay only: the UPDATEs of the
\* Mark functions do not look at the status they replace.
SettledIsFinal ==
  [][\A e \in Events :
       outbox[e].status \in Settled => outbox'[e].status = outbox[e].status]_vars

\* The limit on attempts for one relay: every attempt above it is the price of
\* a crash or a database error.
OverrunPaidByFaults ==
  \A e \in Events : MaxAttempts > 0 => outbox[e].attempts <= MaxAttempts + faults

\* With a limit on attempts, every committed row is settled for good in the
\* end, even if Kafka never comes back, once relays and database stop failing.
EventuallySettled ==
  \A e \in Events :
     outbox[e].status # "absent" ~> [](outbox[e].status \in Settled)

================================================================================
