-------------------------- MODULE NotificationService --------------------------
(***************************************************************************)
(* The consumer side: cmd/notification-service/main.go (the fetch loop,    *)
(* the in-process retry loop and handleMessage), internal/notify/store.go  *)
(* (the processed_events table) and the reader that                        *)
(* internal/shared/kafkax/consumer.go wraps.                               *)
(*                                                                         *)
(* One partition of the topic is modelled, read by a consumer group.  The  *)
(* broker and kafka-go are external: a committed offset, the member that   *)
(* owns the partition and that member's read position.  A member whose     *)
(* partition is taken away goes on with the message in hand and may still  *)
(* commit it.                                                              *)
(*                                                                         *)
(* SQL statements, fetches, publishes and commits are atomic steps.        *)
(***************************************************************************)
EXTENDS Integers, Sequences, FiniteSets

CONSTANTS
  Consumers,    \* running copies of cmd/notification-service
  Events,       \* envelopes, by event_id
  Garbage,      \* message values json.Unmarshal rejects
  NotJson,      \* those of Garbage that are not even JSON
  Rejected,     \* envelopes the INSERT always rejects (event_id not a UUID ...)
  ForceFail,    \* envelopes NOTIFY_FORCE_FAIL matches
  MaxAttempts,  \* NOTIFY_MAX_ATTEMPTS; 0 (or less) is "no limit"
  StartFirst,   \* KAFKA_START_OFFSET is "first"
  DlqEnabled,   \* whether KAFKA_DLQ_TOPIC is set
  ReopenAfter,  \* reopenAfterTimeouts
  MaxLog,       \* bound: messages in the partition
  MaxFaults,    \* bound: crashes, rebalances and errors in a behaviour
  Nobody        \* "no member owns the partition"

Messages == Events \cup Garbage

ASSUME MessagesAssumption ==
  /\ Events \cap Garbage = {} /\ NotJson \subseteq Garbage
  /\ Rejected \subseteq Events /\ ForceFail \subseteq Events
ASSUME ParametersAssumption ==
  /\ MaxAttempts \in Int /\ ReopenAfter \in Nat \ {0}
  /\ StartFirst \in BOOLEAN /\ DlqEnabled \in BOOLEAN
ASSUME BoundsAssumption == MaxLog \in Nat /\ MaxFaults \in Nat
ASSUME NobodyAssumption == Nobody \notin Consumers

VARIABLES
  log,       \* the partition; offset o is log[o + 1]
  committed, \* the group's committed offset, or None
  origin,    \* where the group first started to read, or None
  owner,     \* the member that has the partition
  pos,       \* the owner's next offset to fetch, or Stalled
  pc, off, attempt, timeoutStreak,  \* per consumer: place, message in hand,
                                    \* `attempt`, `timeoutStreak`
  processed, \* processed_events: event -> row
  notified,  \* how many times each event was notified (notify_event)
  dlq,       \* dead letters: "none", "lost", "empty" or "written"
  faults     \* errors, crashes and rebalances so far

kafka == <<log, committed, origin, owner, pos>>
local == <<pc, off, attempt, timeoutStreak>>
tables == <<processed, notified, dlq>>
vars == <<log, committed, origin, owner, pos, pc, off, attempt, timeoutStreak,
          processed, notified, dlq, faults>>

None == -1
Stalled == -1

--------------------------------------------------------------------------------
(* The processed_events row: status, attempts and whether processed_at is  *)
(* set.                                                                    *)
Statuses == {"absent", "processing", "done", "failed"}
Rows == [status : Statuses, attempts : Nat, processedAt : BOOLEAN]
Row(status, attempts, processedAt) ==
  [status |-> status, attempts |-> attempts, processedAt |-> processedAt]

Final == {"done", "failed"}

Value(c) == log[off[c] + 1]

Goto(c, label) == pc' = [pc EXCEPT ![c] = label]

Fault == faults < MaxFaults /\ faults' = faults + 1

\* Mutants: one attempt too few, and one too many.
ExhaustedEarly(n) == MaxAttempts > 0 /\ n + 1 >= MaxAttempts
ExhaustedLate(n) == MaxAttempts > 0 /\ n > MaxAttempts

\* The limit on attempts, with the last attempt number the loop was told.
Exhausted(n) == MaxAttempts > 0 /\ n >= MaxAttempts

\* Mutant: a message that failed is committed.
AfterErrorCommits(n) == "commitDead"

\* After an error other than "unmarshal": give up, or back off and handle the
\* same message again.
AfterError(n) ==
  IF ~Exhausted(n) THEN "handle" ELSE IF DlqEnabled THEN "dlq" ELSE "dead"

\* Back to the fetch loop; `msg` and `attempt` end with the message.
NextMessage(c) ==
  /\ Goto(c, "fetch")
  /\ off' = [off EXCEPT ![c] = 0]
  /\ attempt' = [attempt EXCEPT ![c] = 0]

\* A statement on the row of the message in hand whose error is dropped: an
\* error that was applied all the same is no different from success.
BestEffort(c, row) ==
  /\ \/ processed' = [processed EXCEPT ![Value(c)] = row] /\ UNCHANGED faults
     \/ UNCHANGED processed /\ Fault
  /\ UNCHANGED <<kafka, off, attempt, timeoutStreak, notified, dlq>>

\* The group rebalances: the read position is forgotten.  One reader's
\* reopening does that to all members.
Release == owner' = Nobody /\ pos' = 0 /\ UNCHANGED <<log, committed, origin>>

--------------------------------------------------------------------------------
Init ==
  /\ log = <<>> /\ committed = None /\ origin = None
  /\ owner = Nobody /\ pos = 0
  /\ pc = [c \in Consumers |-> "fetch"]
  /\ off = [c \in Consumers |-> 0]
  /\ attempt = [c \in Consumers |-> 0]
  /\ timeoutStreak = [c \in Consumers |-> 0]
  /\ processed = [e \in Events |-> Row("absent", 0, FALSE)]
  /\ notified = [e \in Events |-> 0]
  /\ dlq = [m \in Messages |-> "none"]
  /\ faults = 0

(* The broker and the group coordinator.                                   *)

AppendMessage(m) ==
  /\ Len(log) < MaxLog
  /\ log' = Append(log, m)
  /\ UNCHANGED <<committed, origin, owner, pos, local, tables, faults>>

\* Mutant: every reader starts at the end of the partition.
StartOffsetLatest == Len(log)

\* Where a new owner starts: newReader's StartOffset only counts while the
\* group has committed nothing.
StartOffset ==
  IF committed # None THEN committed ELSE IF StartFirst THEN 0 ELSE Len(log)

Assign(c) ==
  /\ owner = Nobody
  /\ owner' = c /\ pos' = StartOffset
  /\ origin' = IF origin = None THEN StartOffset ELSE origin
  /\ UNCHANGED <<log, committed, local, tables, faults>>

\* A session times out, or another member joins.
Rebalance ==
  /\ owner # Nobody /\ Release /\ Fault
  /\ UNCHANGED <<local, tables>>

\* The "no messages" state of a reader with stale metadata.
Stall ==
  /\ owner # Nobody /\ pos # Stalled /\ Fault
  /\ pos' = Stalled
  /\ UNCHANGED <<log, committed, origin, owner, local, tables>>

--------------------------------------------------------------------------------
(* The fetch loop.                                                         *)

HasMessage(c) == owner = c /\ pos # Stalled /\ pos < Len(log)

FetchMessage(c) ==
  /\ pc[c] = "fetch" /\ HasMessage(c)
  /\ off' = [off EXCEPT ![c] = pos]
  /\ pos' = pos + 1
  /\ attempt' = [attempt EXCEPT ![c] = 0]
  /\ timeoutStreak' = [timeoutStreak EXCEPT ![c] = 0]
  /\ Goto(c, "handle")
  /\ UNCHANGED <<log, committed, origin, owner, tables, faults>>

\* Mutant: no reopening of an idle reader.
FetchTimeoutWaits(c) ==
  /\ pc[c] = "fetch" /\ ~HasMessage(c)
  /\ UNCHANGED vars

\* Reopen after reopenAfterTimeouts timeouts in a row, also when the partition
\* is with another member.  (The 30s limit on reopening never delays one: a
\* streak takes a minute.)
FetchTimeout(c) ==
  /\ pc[c] = "fetch" /\ ~HasMessage(c)
  /\ IF timeoutStreak[c] + 1 < ReopenAfter
     THEN timeoutStreak' = [timeoutStreak EXCEPT ![c] = @ + 1] /\ UNCHANGED kafka
     ELSE timeoutStreak' = [timeoutStreak EXCEPT ![c] = 0] /\ Release
  /\ UNCHANGED <<pc, off, attempt, tables, faults>>

FetchFailed(c) ==
  /\ pc[c] = "fetch" /\ Fault
  /\ timeoutStreak' = [timeoutStreak EXCEPT ![c] = 0]
  /\ Release
  /\ UNCHANGED <<pc, off, attempt, tables>>

(* handleMessage and the retry loop around it.                             *)

Unmarshal(c) ==
  /\ pc[c] = "handle" /\ Value(c) \in Garbage
  /\ Goto(c, IF DlqEnabled THEN "dlq" ELSE "commitDead")
  /\ UNCHANGED <<kafka, off, attempt, timeoutStreak, tables, faults>>

\* Mutants: the row is recorded as done before the event is handled, and
\* a finished row is started again.
StartedDone(row) == IF row.status \in Final THEN row ELSE Row("done", row.attempts + 1, TRUE)
StartedAgain(row) == Row("processing", row.attempts + 1, row.processedAt)

\* ON CONFLICT DO UPDATE: a done or failed row is left alone.
Started(row) ==
  IF row.status \in Final THEN row
  ELSE Row("processing", row.attempts + 1, row.processedAt)

StartProcessingOk(c, e) ==
  /\ e \notin Rejected
  /\ processed' = [processed EXCEPT ![e] = Started(@)]
  /\ attempt' = [attempt EXCEPT ![c] = Started(processed[e]).attempts]
  /\ IF processed[e].status \in Final
     THEN Goto(c, "commit") /\ UNCHANGED notified
     ELSE /\ notified' = [notified EXCEPT ![e] = @ + 1]
          /\ Goto(c, IF e \in ForceFail THEN "markFailed" ELSE "markDone")
  /\ UNCHANGED faults

\* An error keeps the old `attempt`, so that the limit is not looked at again.
StartProcessingError(c, e) ==
  /\ IF e \in Rejected
     THEN UNCHANGED <<processed, faults>>
     ELSE /\ Fault
          /\ \/ UNCHANGED processed
             \/ processed' = [processed EXCEPT ![e] = Started(@)]
  /\ Goto(c, AfterError(attempt[c]))
  /\ UNCHANGED <<attempt, notified>>

StartProcessing(c) ==
  /\ pc[c] = "handle" /\ Value(c) \in Events
  /\ StartProcessingOk(c, Value(c)) \/ StartProcessingError(c, Value(c))
  /\ UNCHANGED <<kafka, off, timeoutStreak, dlq>>

\* An error of MarkDone may hide that it was applied.
MarkDone(c) ==
  /\ pc[c] = "markDone"
  /\ LET done == [processed EXCEPT ![Value(c)] = Row("done", @.attempts, TRUE)]
     IN \/ processed' = done /\ Goto(c, "commit") /\ UNCHANGED faults
        \/ processed' \in {processed, done} /\ Goto(c, "markFailed") /\ Fault
  /\ UNCHANGED <<kafka, off, attempt, timeoutStreak, notified, dlq>>

\* Not guarded by the status it replaces.
MarkFailed(c) ==
  /\ pc[c] = "markFailed"
  /\ LET row == processed[Value(c)]
     IN BestEffort(c, Row("processing", row.attempts, row.processedAt))
  /\ Goto(c, AfterError(attempt[c]))

\* wrapDLQ embeds the value as raw JSON: json.Marshal fails on one that is
\* not, and the message produced is empty.
PublishDlq(c) ==
  /\ pc[c] = "dlq"
  /\ LET m == Value(c)
         letter == IF m \in NotJson THEN "empty" ELSE "written"
     IN \/ dlq' = [dlq EXCEPT ![m] = letter] /\ UNCHANGED faults
        \/ dlq' = [dlq EXCEPT ![m] = IF @ = "none" THEN "lost" ELSE @] /\ Fault
  /\ Goto(c, IF Value(c) \in Garbage THEN "commitDead" ELSE "dead")
  /\ UNCHANGED <<kafka, off, attempt, timeoutStreak, processed, notified>>

\* Mutant: a status StartProcessing does not know.
MarkDeadMisspelt(c) ==
  /\ pc[c] = "dead"
  /\ BestEffort(c, Row("dead", processed[Value(c)].attempts, FALSE))
  /\ Goto(c, "commitDead")

MarkDead(c) ==
  /\ pc[c] = "dead"
  /\ LET row == processed[Value(c)]
     IN BestEffort(c, Row("failed", row.attempts, row.processedAt))
  /\ Goto(c, "commitDead")

\* A commit of a member that lost the partition may be accepted or refused,
\* and an accepted one may move the offset back.
CommitOk(c) ==
  /\ pc[c] \in {"commit", "commitDead"}
  /\ committed' = off[c] + 1
  /\ NextMessage(c)
  /\ UNCHANGED <<log, origin, owner, pos, timeoutStreak, tables, faults>>

\* Only the path of a handled message reopens the reader; the next commit then
\* covers this one, or the next reopening redelivers it.  A refused commit is
\* counted like any error: each lets two members handle a message once more.
CommitError(c) ==
  /\ pc[c] \in {"commit", "commitDead"}
  /\ Fault
  /\ IF pc[c] = "commit" THEN owner' = Nobody /\ pos' = 0 ELSE UNCHANGED <<owner, pos>>
  /\ committed' \in {committed, off[c] + 1}
  /\ NextMessage(c)
  /\ UNCHANGED <<log, origin, timeoutStreak, tables>>

\* The process dies, or SIGTERM cancels its context, and it starts again.
Crash(c) ==
  /\ Fault /\ Release /\ NextMessage(c)
  /\ timeoutStreak' = [timeoutStreak EXCEPT ![c] = 0]
  /\ UNCHANGED tables

ConsumerStep(c) ==
  \/ FetchMessage(c) \/ FetchTimeout(c) \/ Unmarshal(c) \/ StartProcessing(c)
  \/ MarkDone(c) \/ MarkFailed(c) \/ PublishDlq(c) \/ MarkDead(c)
  \/ CommitOk(c) \/ CommitError(c)

Next ==
  \/ \E m \in Messages : AppendMessage(m)
  \/ \E c \in Consumers : Assign(c) \/ ConsumerStep(c) \/ FetchFailed(c) \/ Crash(c)
  \/ Rebalance \/ Stall

Spec == Init /\ [][Next]_vars

\* Consumers keep running and the coordinator keeps assigning the partition.  A
\* member's fetch is not always cut short by another one's reopening: these are
\* a minute apart, and a message that is there is fetched at once.
FairSpec ==
  /\ Spec
  /\ \A c \in Consumers :
       WF_vars(ConsumerStep(c)) /\ WF_vars(Assign(c)) /\ SF_vars(FetchMessage(c))

--------------------------------------------------------------------------------
(* Properties.                                                             *)

Labels == {"fetch", "handle", "markDone", "markFailed", "dlq", "dead",
           "commit", "commitDead"}

\* The values the variables can take.
TypeOK ==
  /\ log \in Seq(Messages)
  /\ committed \in Nat \cup {None} /\ origin \in Nat \cup {None}
  /\ pos \in Nat \cup {Stalled}
  /\ owner \in Consumers \cup {Nobody}
  /\ pc \in [Consumers -> Labels]
  /\ off \in [Consumers -> Nat]
  /\ attempt \in [Consumers -> Nat]
  /\ timeoutStreak \in [Consumers -> 0..ReopenAfter]
  /\ processed \in [Events -> Rows]
  /\ notified \in [Events -> Nat]
  /\ dlq \in [Messages -> {"none", "lost", "empty", "written"}]
  /\ faults \in 0..MaxFaults

\* What the service owes a message before its offset may be committed: an event
\* is notified, and its handling recorded as done or given up for a reason.  Of
\* a dead letter only the try is owed: an error of publishing it is dropped.
Accounted(m) ==
  /\ m \in Events => notified[m] > 0
  /\ \/ m \in Events /\ processed[m].processedAt
     \/ DlqEnabled /\ dlq[m] # "none"
     \/ ~DlqEnabled /\ m \in Garbage
     \/ ~DlqEnabled /\ m \in Events /\ MaxAttempts > 0 /\ processed[m].attempts >= MaxAttempts

\* The offsets the group has committed, from where it began.
Passed == {o \in 0..(Len(log) - 1) : origin # None /\ o >= origin /\ o < committed}

\* At-least-once processing: every event below the committed offset, from where
\* the group began, was notified, and every message is done or its dead letter
\* (where there is a DLQ) was tried, whatever crashes, rebalances and stale
\* commits did to the offset.
CommittedIsAccounted == \A o \in Passed : Accounted(log[o + 1])

\* Passed events that are neither done nor given up in processed_events.
PassedUnjudged ==
  {e \in Events :
     /\ \E o \in Passed : log[o + 1] = e
     /\ ~processed[e].processedAt /\ processed[e].status # "failed"}

\* An event recorded as processed was notified: MarkDone comes after the
\* effect it records, so that a crash repeats it rather than loses it.
DoneMeansNotified ==
  \A e \in Events : processed[e].processedAt => notified[e] > 0

\* MarkDead is only reached with the attempts used up, also with two
\* consumers counting attempts on the same row.
FailedMeansExhausted ==
  \A e \in Events :
     processed[e].status = "failed" => MaxAttempts > 0 /\ processed[e].attempts >= MaxAttempts

\* Duplicates are skipped: every notification after the first is the price of a
\* crash or an error, never of a message that is in the topic twice.  True of
\* one consumer; two may have the same message in hand.
RepeatsPaidByFaults ==
  \A e \in Events \ ForceFail : notified[e] <= 1 + faults

\* The limit on attempts for one consumer: every attempt above it is the price
\* of a crash or an error.
OverrunPaidByFaults ==
  \A e \in Events : MaxAttempts > 0 => processed[e].attempts <= MaxAttempts + faults

\* The consumer never stays behind: every message is committed in the end, and
\* stays so, once errors stop.  Rests on reopening an idle reader.
EventuallyCommitted ==
  \A o \in 0..(MaxLog - 1) :
     origin # None /\ o >= origin /\ o < Len(log) ~> [](committed > o)

\* After NOTIFY_MAX_ATTEMPTS the row is in 'failed': with one consumer, every
\* event whose offset was committed while its row says neither 'done' nor
\* 'failed' has a fault of its own, the MarkDead that failed or the crash that
\* left its attempts used up.
VerdictsPaidByFaults == Cardinality(PassedUnjudged) <= faults

\* As documented: what cannot be processed is kept in the dead-letter topic.
LettersCarryTheMessage == \A m \in Messages : dlq[m] # "empty"

================================================================================
