----------------------- MODULE NotificationServiceProofs -----------------------
(***************************************************************************)
(* Proofs about NotificationService for any number of consumers, events    *)
(* and messages, any configuration and any number of faults.               *)
(***************************************************************************)
EXTENDS NotificationService, TLAPS

(* Everything the service records only grows.                              *)
TablesGrow ==
  /\ \A e \in Events : /\ processed[e].processedAt => processed'[e].processedAt
                       /\ processed[e].attempts <= processed'[e].attempts
                       /\ notified[e] <= notified'[e]
  /\ \A m \in Messages : dlq[m] # "none" => dlq'[m] # "none"

LogGrows ==
  /\ Len(log) <= Len(log')
  /\ \A o \in 0..(Len(log) - 1) : log'[o + 1] = log[o + 1]

(* A group that starts at the first message has accounted for every        *)
(* message below offset n.                                                 *)
Below(n) == StartFirst => \A o \in 0..(n - 1) : Accounted(log[o + 1])

(* What each place of the loop knows about the message in hand.            *)
At(c) ==
  /\ pc[c] # "fetch" => off[c] < Len(log) /\ Below(off[c])
  /\ pc[c] # "fetch" /\ Value(c) \in Events => attempt[c] <= processed[Value(c)].attempts
  /\ pc[c] \in {"markDone", "markFailed", "dead"} => Value(c) \in Events
  /\ pc[c] # "fetch" /\ Value(c) \in Events /\ (pc[c] = "markDone" \/ attempt[c] > 0) =>
       notified[Value(c)] > 0
  /\ pc[c] \in {"dlq", "dead"} /\ Value(c) \in Events => Exhausted(attempt[c])
  /\ pc[c] = "dlq" => DlqEnabled
  /\ pc[c] = "dead" /\ DlqEnabled => dlq[Value(c)] # "none"
  /\ pc[c] \in {"commit", "commitDead"} => Accounted(Value(c))

LoopInv == \A c \in Consumers : At(c)

(* What a row's status says.                                               *)
RowInv ==
  /\ DoneMeansNotified /\ FailedMeansExhausted
  /\ \A e \in Events :
       /\ processed[e].status = "done" => processed[e].processedAt
       /\ processed[e].status = "failed" => notified[e] > 0
       /\ processed[e].status = "failed" /\ DlqEnabled => dlq[e] # "none"

(* The committed offset, and the owner's position but for the message the  *)
(* owner has in hand, are only past accounted messages.                    *)
CommittedInv == committed # None => committed <= Len(log) /\ Below(committed)

PositionInv ==
  owner # Nobody /\ pos # Stalled =>
    /\ pos <= Len(log)
    /\ StartFirst => \A o \in 0..(pos - 1) :
         Accounted(log[o + 1]) \/ (pc[owner] # "fetch" /\ off[owner] = o)

GroupInv == CommittedInv /\ PositionInv

IInv == TypeOK /\ LoopInv /\ RowInv /\ GroupInv

--------------------------------------------------------------------------------
(* StartProcessing writes a well-formed row.                               *)
LEMMA StartedType == \A row \in Rows : Started(row) \in Rows
BY DEF Started, Rows, Row, Statuses

(* The initial state is well typed.                                        *)
LEMMA InitType == Init => TypeOK
BY ParametersAssumption, BoundsAssumption
   DEF Init, TypeOK, Rows, Row, Statuses, Labels, None, Stalled, Messages

(* Every action of the service, the group and the broker keeps the types.  *)
LEMMA TypeNext == TypeOK /\ [Next]_vars => TypeOK'
<1> SUFFICES ASSUME TypeOK, [Next]_vars PROVE TypeOK'
  OBVIOUS
<1> USE ParametersAssumption, BoundsAssumption
<1> USE DEF TypeOK, kafka, local, tables
<1>f. ASSUME Fault PROVE faults' \in 0..MaxFaults
  BY <1>f DEF Fault
<1>1. ASSUME NEW m \in Messages, AppendMessage(m) PROVE TypeOK'
  BY <1>1 DEF AppendMessage
<1>2. ASSUME NEW c \in Consumers, Assign(c) PROVE TypeOK'
  <2>1. StartOffset \in Nat
    BY DEF StartOffset, None
  <2> QED BY <1>2, <2>1 DEF Assign
<1>3. ASSUME NEW c \in Consumers, FetchMessage(c) PROVE TypeOK'
  <2>1. pos \in Nat
    BY <1>3 DEF FetchMessage, HasMessage
  <2>2. pos' \in Nat /\ off' \in [Consumers -> Nat]
    BY <1>3, <2>1 DEF FetchMessage
  <2>3. pc' \in [Consumers -> Labels]
    BY <1>3 DEF FetchMessage, Goto, Labels
  <2>4. attempt' \in [Consumers -> Nat] /\ timeoutStreak' \in [Consumers -> 0..ReopenAfter]
    BY <1>3 DEF FetchMessage
  <2> QED BY <1>3, <2>2, <2>3, <2>4 DEF FetchMessage
<1>4. ASSUME NEW c \in Consumers, FetchTimeout(c) PROVE TypeOK'
  <2>1. timeoutStreak' \in [Consumers -> 0..ReopenAfter]
    <3>1. timeoutStreak[c] \in 0..ReopenAfter
      OBVIOUS
    <3>2. CASE /\ timeoutStreak[c] + 1 < ReopenAfter
               /\ timeoutStreak' = [timeoutStreak EXCEPT ![c] = @ + 1]
      BY <3>1, <3>2
    <3>3. CASE timeoutStreak' = [timeoutStreak EXCEPT ![c] = 0]
      BY <3>3
    <3> QED BY <1>4, <3>2, <3>3, Zenon DEF FetchTimeout
  <2>2. faults' \in 0..MaxFaults
    BY <1>4 DEF FetchTimeout
  <2>3. /\ UNCHANGED <<log, committed, origin>>
        /\ owner' \in Consumers \cup {Nobody} /\ pos' \in Nat \cup {Stalled}
    BY <1>4 DEF FetchTimeout, Release
  <2>4. UNCHANGED <<pc, off, attempt, tables>>
    BY <1>4 DEF FetchTimeout
  <2> QED BY <2>1, <2>2, <2>3, <2>4
<1>5. ASSUME NEW c \in Consumers, FetchFailed(c) PROVE TypeOK'
  BY <1>5 DEF FetchFailed, Release, Fault
<1>6. ASSUME NEW c \in Consumers, Unmarshal(c) PROVE TypeOK'
  BY <1>6 DEF Unmarshal, Goto, Labels
<1>a. \A n : AfterError(n) \in Labels
  BY DEF AfterError, Labels
<1>7. ASSUME NEW c \in Consumers, StartProcessing(c) PROVE TypeOK'
  <2>1. Value(c) \in Events /\ processed[Value(c)] \in Rows
    BY <1>7 DEF StartProcessing
  <2>2. Started(processed[Value(c)]) \in Rows /\ Started(processed[Value(c)]).attempts \in Nat
    BY <2>1, StartedType DEF Rows
  <2>3. CASE StartProcessingOk(c, Value(c))
    <3>1. processed' \in [Events -> Rows] /\ attempt' \in [Consumers -> Nat]
      BY <2>1, <2>2, <2>3 DEF StartProcessingOk
    <3>2. pc' \in [Consumers -> Labels]
      BY <2>3 DEF StartProcessingOk, Goto, Labels
    <3>3. notified' \in [Events -> Nat]
      <4>1. CASE UNCHANGED notified
        BY <4>1
      <4>2. CASE notified' = [notified EXCEPT ![Value(c)] = @ + 1]
        BY <2>1, <4>2
      <4> QED BY <2>3, <4>1, <4>2 DEF StartProcessingOk
    <3>4. UNCHANGED faults
      BY <2>3 DEF StartProcessingOk
    <3> QED BY <1>7, <3>1, <3>2, <3>3, <3>4 DEF StartProcessing
  <2>4. CASE StartProcessingError(c, Value(c))
    <3>1. processed' \in [Events -> Rows]
      BY <2>1, <2>2, <2>4 DEF StartProcessingError
    <3>2. pc' \in [Consumers -> Labels]
      BY <1>a, <2>4 DEF StartProcessingError, Goto
    <3>3. faults' \in 0..MaxFaults /\ UNCHANGED <<attempt, notified>>
      BY <2>4 DEF StartProcessingError, Fault
    <3> QED BY <1>7, <3>1, <3>2, <3>3 DEF StartProcessing
  <2> QED BY <1>7, <2>3, <2>4 DEF StartProcessing
<1>r. ASSUME NEW v \in Events, NEW status \in Statuses, NEW b \in BOOLEAN
      PROVE  Row(status, processed[v].attempts, b) \in Rows
  BY DEF Row, Rows
<1>8. ASSUME NEW c \in Consumers, MarkDone(c) PROVE TypeOK'
  <2>1. [processed EXCEPT ![Value(c)] = Row("done", @.attempts, TRUE)] \in [Events -> Rows]
    BY <1>r DEF Statuses
  <2>2. faults' \in 0..MaxFaults
    <3>1. UNCHANGED faults \/ Fault
      BY <1>8, Zenon DEF MarkDone
    <3> QED BY <3>1 DEF Fault
  <2>4. pc' \in [Consumers -> Labels]
    <3>1. PICK label \in Labels : pc' = [pc EXCEPT ![c] = label]
      BY <1>8 DEF MarkDone, Goto, Labels
    <3> QED BY <3>1
  <2>3. processed' \in [Events -> Rows]
    BY <1>8, <2>1 DEF MarkDone
  <2>5. UNCHANGED <<kafka, off, attempt, timeoutStreak, notified, dlq>>
    BY <1>8 DEF MarkDone
  <2> QED BY <2>2, <2>3, <2>4, <2>5
<1>b. ASSUME NEW c \in Consumers, NEW row, BestEffort(c, row), pc' \in [Consumers -> Labels],
             [processed EXCEPT ![Value(c)] = row] \in [Events -> Rows]
      PROVE  TypeOK'
  <2>0. \/ processed' = [processed EXCEPT ![Value(c)] = row] /\ UNCHANGED faults
        \/ UNCHANGED processed /\ Fault
    BY <1>b, Zenon DEF BestEffort
  <2>1. processed' \in [Events -> Rows] /\ faults' \in 0..MaxFaults
    <3>1. processed \in [Events -> Rows] /\ faults \in 0..MaxFaults
      OBVIOUS
    <3> QED BY <1>b, <1>f, <2>0, <3>1, Zenon
  <2>2. UNCHANGED <<kafka, off, attempt, timeoutStreak, notified, dlq>>
    BY <1>b DEF BestEffort
  <2> QED BY <1>b, <2>1, <2>2
<1>9. ASSUME NEW c \in Consumers, MarkFailed(c) PROVE TypeOK'
  <2>1. [processed EXCEPT ![Value(c)] =
           Row("processing", processed[Value(c)].attempts, processed[Value(c)].processedAt)]
          \in [Events -> Rows]
    BY <1>r DEF Statuses, Rows
  <2>2. pc' \in [Consumers -> Labels]
    BY <1>9, <1>a DEF MarkFailed, Goto
  <2> QED BY <1>9, <1>b, <2>1, <2>2 DEF MarkFailed
<1>10. ASSUME NEW c \in Consumers, PublishDlq(c) PROVE TypeOK'
  <2>1. pc' \in [Consumers -> Labels] /\ faults' \in 0..MaxFaults
    BY <1>10 DEF PublishDlq, Goto, Fault, Labels
  <2>2. dlq' \in [Messages -> {"none", "lost", "empty", "written"}]
    BY <1>10 DEF PublishDlq
  <2> QED BY <1>10, <2>1, <2>2 DEF PublishDlq
<1>11. ASSUME NEW c \in Consumers, MarkDead(c) PROVE TypeOK'
  <2>1. [processed EXCEPT ![Value(c)] =
           Row("failed", processed[Value(c)].attempts, processed[Value(c)].processedAt)]
          \in [Events -> Rows]
    BY <1>r DEF Statuses, Rows
  <2>2. pc' \in [Consumers -> Labels]
    BY <1>11 DEF MarkDead, Goto, Labels
  <2> QED BY <1>11, <1>b, <2>1, <2>2 DEF MarkDead
<1>n. ASSUME NEW c \in Consumers, NextMessage(c)
      PROVE  pc' \in [Consumers -> Labels] /\ off' \in [Consumers -> Nat] /\ attempt' \in [Consumers -> Nat]
  BY <1>n DEF NextMessage, Goto, Labels
<1>12. ASSUME NEW c \in Consumers, CommitOk(c) PROVE TypeOK'
  <2>1. committed' \in Nat
    BY <1>12 DEF CommitOk
  <2>2. UNCHANGED <<log, origin, owner, pos, timeoutStreak, tables, faults>> /\ NextMessage(c)
    BY <1>12 DEF CommitOk
  <2> QED BY <1>n, <2>1, <2>2
<1>13. ASSUME NEW c \in Consumers, CommitError(c) PROVE TypeOK'
  <2>1. committed' \in Nat \cup {None}
    BY <1>13 DEF CommitError
  <2>2. UNCHANGED <<log, origin, timeoutStreak, tables>> /\ NextMessage(c)
    BY <1>13 DEF CommitError
  <2>3. owner' \in Consumers \cup {Nobody} /\ pos' \in Nat \cup {Stalled}
    BY <1>13 DEF CommitError
  <2>4. faults' \in 0..MaxFaults
    BY <1>f, <1>13 DEF CommitError
  <2> QED BY <1>n, <2>1, <2>2, <2>3, <2>4
<1>14. ASSUME NEW c \in Consumers, Crash(c) PROVE TypeOK'
  <2>1. NextMessage(c) /\ Fault /\ UNCHANGED <<log, committed, origin, tables>>
    BY <1>14 DEF Crash, Release
  <2>2. /\ owner' = Nobody /\ pos' = 0
        /\ timeoutStreak' \in [Consumers -> 0..ReopenAfter]
    BY <1>14 DEF Crash, Release
  <2> QED BY <1>n, <1>f, <2>1, <2>2
<1>15. CASE Rebalance
  BY <1>15 DEF Rebalance, Release, Fault
<1>16. CASE Stall
  BY <1>16 DEF Stall, Fault
<1>17. CASE UNCHANGED vars
  BY <1>17 DEF vars
<1> QED BY <1>1, <1>2, <1>3, <1>4, <1>5, <1>6, <1>7, <1>8, <1>9, <1>10, <1>11,
           <1>12, <1>13, <1>14, <1>15, <1>16, <1>17
        DEF Next, ConsumerStep

--------------------------------------------------------------------------------
(* The partition is append-only: no step rewrites a message in it.         *)
LEMMA LogNext == TypeOK /\ [Next]_vars => LogGrows
<1> SUFFICES ASSUME TypeOK, [Next]_vars PROVE LogGrows
  OBVIOUS
<1>1. CASE UNCHANGED log
  BY <1>1 DEF LogGrows, TypeOK
<1>2. ASSUME NEW m \in Messages, AppendMessage(m) PROVE LogGrows
  BY <1>2 DEF AppendMessage, LogGrows, TypeOK
<1> QED BY <1>1, <1>2
        DEF Next, ConsumerStep, vars, kafka, Assign, FetchMessage, FetchTimeout,
            FetchFailed, Release, Unmarshal, StartProcessing, MarkDone, MarkFailed,
            BestEffort, PublishDlq, MarkDead, CommitOk, CommitError, Crash,
            Rebalance, Stall

(* An UPDATE of one row that neither lowers attempts nor clears            *)
(* processed_at.                                                           *)
LEMMA UpdateGrows ==
  ASSUME TypeOK, UNCHANGED <<notified, dlq>>,
         NEW v \in Events, NEW row \in Rows,
         processed' = [processed EXCEPT ![v] = row],
         row.attempts >= processed[v].attempts,
         processed[v].processedAt => row.processedAt
  PROVE  TablesGrow
BY DEF TypeOK, TablesGrow, Rows

(* No handler takes back an attempt, a processed_at, a notification or a   *)
(* dead letter.                                                            *)
LEMMA TablesNext ==
  ASSUME TypeOK, [Next]_vars, \A c \in Consumers : pc[c] \in {"markDone", "markFailed", "dead"} => Value(c) \in Events
  PROVE  TablesGrow
<1>s. ASSUME UNCHANGED tables PROVE TablesGrow
  BY <1>s DEF tables, TablesGrow, TypeOK, Rows
<1>1. ASSUME NEW c \in Consumers, StartProcessing(c) PROVE TablesGrow
  <2>1. Value(c) \in Events /\ UNCHANGED dlq
    BY <1>1 DEF StartProcessing
  <2>2. Started(processed[Value(c)]) \in Rows
    BY <2>1, StartedType DEF TypeOK
  <2>3. /\ Started(processed[Value(c)]).attempts >= processed[Value(c)].attempts
        /\ processed[Value(c)].processedAt => Started(processed[Value(c)]).processedAt
    BY <2>1 DEF Started, Row, TypeOK, Rows
  <2>4. \/ UNCHANGED processed
        \/ processed' = [processed EXCEPT ![Value(c)] = Started(processed[Value(c)])]
    BY <1>1, Zenon DEF StartProcessing, StartProcessingOk, StartProcessingError
  <2>5. UNCHANGED notified \/ notified' = [notified EXCEPT ![Value(c)] = @ + 1]
    BY <1>1, Zenon DEF StartProcessing, StartProcessingOk, StartProcessingError
  <2>6. \A e \in Events : notified[e] <= notified'[e]
    <3>1. notified \in [Events -> Nat]
      BY DEF TypeOK
    <3> QED BY <2>1, <2>5, <3>1
  <2>7. \A e \in Events : /\ processed[e].processedAt => processed'[e].processedAt
                          /\ processed[e].attempts <= processed'[e].attempts
    <3>1. /\ processed \in [Events -> Rows]
          /\ \A e \in Events : processed[e].attempts \in Nat
      BY DEF TypeOK, Rows
    <3> QED BY <2>1, <2>3, <2>4, <3>1
  <2> QED BY <2>1, <2>6, <2>7 DEF TablesGrow
<1>2. ASSUME NEW c \in Consumers, MarkDone(c) \/ MarkFailed(c) \/ MarkDead(c)
      PROVE  TablesGrow
  <2>1. Value(c) \in Events /\ UNCHANGED <<notified, dlq>>
    BY <1>2 DEF MarkDone, MarkFailed, MarkDead, BestEffort
  <2>2. PICK row : /\ UNCHANGED processed \/ processed' = [processed EXCEPT ![Value(c)] = row]
                   /\ \/ row = Row("done", processed[Value(c)].attempts, TRUE)
                      \/ \E status \in {"processing", "failed"} :
                            row = Row(status, processed[Value(c)].attempts,
                                      processed[Value(c)].processedAt)
    BY <1>2, Zenon DEF MarkDone, MarkFailed, MarkDead, BestEffort
  <2>3. /\ row \in Rows /\ row.attempts >= processed[Value(c)].attempts
        /\ processed[Value(c)].processedAt => row.processedAt
    <3>1. processed[Value(c)] \in Rows
      BY <2>1 DEF TypeOK
    <3>2. CASE row = Row("done", processed[Value(c)].attempts, TRUE)
      BY <3>1, <3>2 DEF Row, Rows, Statuses
    <3>3. ASSUME NEW status \in {"processing", "failed"},
                 row = Row(status, processed[Value(c)].attempts, processed[Value(c)].processedAt)
          PROVE  /\ row \in Rows /\ row.attempts >= processed[Value(c)].attempts
                 /\ processed[Value(c)].processedAt => row.processedAt
      BY <3>1, <3>3 DEF Row, Rows, Statuses
    <3> QED BY <2>2, <3>2, <3>3
  <2>4. CASE UNCHANGED processed
    BY <1>s, <2>1, <2>4 DEF tables
  <2> QED BY <2>1, <2>2, <2>3, <2>4, UpdateGrows
<1>3. ASSUME NEW c \in Consumers, PublishDlq(c) PROVE TablesGrow
  <2>1. UNCHANGED <<processed, notified>>
    BY <1>3 DEF PublishDlq
  <2>2. \A m \in Messages : dlq[m] # "none" => dlq'[m] # "none"
    BY <1>3 DEF PublishDlq, TypeOK
  <2> QED BY <2>1, <2>2 DEF TablesGrow, TypeOK, Rows
<1> QED BY <1>s, <1>1, <1>2, <1>3
        DEF Next, ConsumerStep, vars, tables, AppendMessage, Assign, FetchMessage,
            FetchTimeout, FetchFailed, Unmarshal, CommitOk, CommitError, Crash,
            Rebalance, Stall

--------------------------------------------------------------------------------
(* A message accounted for stays accounted for.                            *)
LEMMA AccountedGrows ==
  ASSUME TypeOK, TypeOK', TablesGrow
  PROVE  \A m \in Messages : Accounted(m) => Accounted(m)'
BY ParametersAssumption DEF TypeOK, TablesGrow, Accounted, Messages, Rows

(* Offsets below the length of the partition hold messages.                *)
LEMMA LogFacts ==
  ASSUME TypeOK
  PROVE  /\ Len(log) \in Nat
         /\ \A o \in Nat : o < Len(log) => log[o + 1] \in Messages
<1>1. log \in Seq(Messages)
  BY DEF TypeOK
<1> QED BY <1>1

(* Accounted offsets stay accounted for as tables and partition grow.      *)
LEMMA BelowGrows ==
  ASSUME TypeOK, TypeOK', TablesGrow, LogGrows,
         NEW n \in Nat, n <= Len(log), Below(n)
  PROVE  Below(n)'
<1>1. ASSUME NEW o \in 0..(n - 1) PROVE log'[o + 1] = log[o + 1] /\ log[o + 1] \in Messages
  <2>1. o \in Nat /\ o < Len(log) /\ o \in 0..(Len(log) - 1)
    BY LogFacts
  <2> QED BY <2>1, LogFacts DEF LogGrows
<1> QED BY <1>1, AccountedGrows DEF Below

(* The message in hand stays the same message, with all before it          *)
(* accounted for.                                                          *)
LEMMA InHand ==
  ASSUME TypeOK, TypeOK', TablesGrow, LogGrows,
         NEW c \in Consumers, At(c), pc[c] # "fetch", off'[c] = off[c]
  PROVE  /\ off[c] \in Nat /\ off[c] < Len(log) /\ Len(log) \in Nat
         /\ off'[c] < Len(log') /\ Below(off[c])'
         /\ Value(c)' = Value(c) /\ Value(c) \in Messages
         /\ Accounted(Value(c)) => Accounted(Value(c))'
<1>1. /\ off[c] \in Nat /\ off[c] < Len(log) /\ Below(off[c])
      /\ Len(log) \in Nat /\ Len(log') \in Nat
  <2>1. off[c] \in Nat /\ log' \in Seq(Messages)
    BY DEF TypeOK
  <2> QED BY <2>1, LogFacts DEF At
<1>2. /\ log'[off[c] + 1] = log[off[c] + 1] /\ log[off[c] + 1] \in Messages
      /\ off'[c] < Len(log')
  BY <1>1, LogFacts DEF LogGrows
<1>3. Value(c)' = Value(c) /\ Value(c) \in Messages
  BY <1>2 DEF Value
<1>4. Below(off[c])'
  <2>1. PICK n \in Nat : n = off[c]
    BY <1>1
  <2>2. Below(n)'
    BY <1>1, <2>1, BelowGrows
  <2> QED BY <2>1, <2>2 DEF Below
<1>5. Accounted(Value(c)) => Accounted(Value(c))'
  <2>1. PICK m \in Messages : m = Value(c)
    BY <1>3
  <2>2. Accounted(m) => Accounted(m)'
    BY AccountedGrows
  <2> QED BY <1>3, <2>1, <2>2
<1> QED BY <1>1, <1>2, <1>3, <1>4, <1>5

(* What a step to `label` with the same message in hand has to show.       *)
LEMMA AtMoved ==
  ASSUME TypeOK, TypeOK', TablesGrow, LogGrows,
         NEW c \in Consumers, At(c), pc[c] # "fetch", off'[c] = off[c],
         NEW m, m = Value(c), NEW label, pc'[c] = label,
         m \in Events => attempt'[c] <= processed'[m].attempts,
         label \in {"markDone", "markFailed", "dead"} => m \in Events,
         m \in Events /\ (label = "markDone" \/ attempt'[c] > 0) => notified'[m] > 0,
         label \in {"dlq", "dead"} /\ m \in Events => Exhausted(attempt'[c]),
         label = "dlq" => DlqEnabled,
         label = "dead" /\ DlqEnabled => dlq'[m] # "none",
         label \in {"commit", "commitDead"} => Accounted(m)'
  PROVE  At(c)'
<1>1. /\ off'[c] < Len(log') /\ Below(off[c])' /\ Value(c)' = m
  BY InHand
<1>2. Accounted(m)' => Accounted(Value(c))'
  BY <1>1
<1> QED BY <1>1, <1>2 DEF At

(* What a consumer knows stays true while others work.                     *)
LEMMA AtStable ==
  ASSUME TypeOK, TypeOK', TablesGrow, LogGrows,
         NEW c \in Consumers, At(c),
         pc'[c] = pc[c], off'[c] = off[c], attempt'[c] = attempt[c]
  PROVE  At(c)'
<1>1. CASE pc[c] = "fetch"
  BY <1>1, Zenon DEF At
<1>2. CASE pc[c] # "fetch"
  <2>1. PICK m \in Messages : m = Value(c)
    BY <1>2, InHand
  <2>2. m \in Events => /\ processed[m].attempts <= processed'[m].attempts
                        /\ notified[m] <= notified'[m]
                        /\ processed[m].attempts \in Nat
                        /\ processed'[m].attempts \in Nat
                        /\ notified[m] \in Nat /\ notified'[m] \in Nat
    BY DEF TablesGrow, TypeOK, Rows
  <2>3. dlq[m] # "none" => dlq'[m] # "none"
    BY DEF TablesGrow
  <2>4. attempt[c] \in Nat
    BY DEF TypeOK
  <2>5. pc[c] \in {"commit", "commitDead"} => Accounted(m)'
    <3>1. Accounted(m) => Accounted(m)'
      BY AccountedGrows
    <3> QED BY <2>1, <3>1 DEF At
  <2>6. m \in Events => attempt'[c] <= processed'[m].attempts
    BY <1>2, <2>1, <2>2, <2>4 DEF At
  <2>7. /\ pc[c] \in {"markDone", "markFailed", "dead"} => m \in Events
        /\ pc[c] = "dlq" => DlqEnabled
        /\ pc[c] \in {"dlq", "dead"} /\ m \in Events => Exhausted(attempt'[c])
        /\ pc[c] = "dead" /\ DlqEnabled => dlq'[m] # "none"
    BY <2>1, <2>3 DEF At
  <2>8. m \in Events /\ (pc[c] = "markDone" \/ attempt'[c] > 0) => notified'[m] > 0
    BY <1>2, <2>1, <2>2 DEF At
  <2> QED BY <1>2, <2>1, <2>5, <2>6, <2>7, <2>8, AtMoved
<1> QED BY <1>1, <1>2

--------------------------------------------------------------------------------
(* Preservation of LoopInv: one step per action that moves a consumer.     *)

(* A fetch hands over a message with all before it accounted for.          *)
LEMMA FetchMessageAt ==
  ASSUME IInv, TypeOK', TablesGrow, LogGrows, NEW c \in Consumers, FetchMessage(c)
  PROVE  At(c)'
<1>1. /\ pos \in Nat /\ pos < Len(log) /\ owner = c /\ owner # Nobody /\ pc[c] = "fetch"
  BY NobodyAssumption DEF IInv, TypeOK, FetchMessage, HasMessage
<1>2. pos # Stalled
  BY <1>1 DEF Stalled
<1>3. Below(pos)
  BY <1>1, <1>2 DEF IInv, GroupInv, PositionInv, Below
<1>4. /\ off'[c] = pos /\ attempt'[c] = 0 /\ pc'[c] = "handle" /\ UNCHANGED <<log, tables>>
  BY DEF IInv, TypeOK, FetchMessage, Goto
<1>5. Below(off[c])'
  <2>1. PICK n \in Nat : n = pos
    BY <1>1
  <2>2. Len(log) \in Nat
    BY LogFacts DEF IInv
  <2>3. Below(n)'
    BY <1>1, <1>3, <2>1, <2>2, BelowGrows DEF IInv
  <2> QED BY <1>4, <2>1, <2>3 DEF Below
<1>6. \A e \in Events : processed'[e].attempts \in Nat
  BY DEF TypeOK, Rows
<1> QED BY <1>1, <1>4, <1>5, <1>6 DEF At

(* A value that is not an envelope goes to the DLQ or, without one, to the *)
(* commit.                                                                 *)
LEMMA UnmarshalAt ==
  ASSUME IInv, TypeOK', TablesGrow, LogGrows, NEW c \in Consumers, Unmarshal(c)
  PROVE  At(c)'
<1>1. PICK m : m = Value(c)
  OBVIOUS
<1>2. m \in Garbage /\ m \notin Events
  BY <1>1, MessagesAssumption DEF Unmarshal
<1>3. PICK label : label = IF DlqEnabled THEN "dlq" ELSE "commitDead"
  OBVIOUS
<1>4. pc'[c] = label /\ pc[c] = "handle" /\ off'[c] = off[c]
  BY <1>3 DEF IInv, TypeOK, Unmarshal, Goto
<1>5. label \in {"commit", "commitDead"} => Accounted(m)'
  BY <1>2, <1>3 DEF Accounted
<1>6. label \in {"dlq", "commitDead"} /\ (label = "dlq" => DlqEnabled)
  BY <1>3
<1>7. At(c) /\ TypeOK
  BY DEF IInv, LoopInv
<1> QED BY <1>1, <1>2, <1>4, <1>5, <1>6, <1>7, AtMoved

(* After an error that leaves `attempt` alone.                             *)
LEMMA AfterErrorAt ==
  ASSUME TypeOK, TypeOK', TablesGrow, LogGrows, NEW c \in Consumers, At(c),
         pc[c] # "fetch", off'[c] = off[c], attempt'[c] = attempt[c],
         Value(c) \in Events, DlqEnabled => pc'[c] # "dead",
         pc'[c] = AfterError(attempt[c])
  PROVE  At(c)'
<1>1. PICK m \in Events : m = Value(c)
  OBVIOUS
<1>2. PICK label : label = AfterError(attempt[c])
  OBVIOUS
<1>3. /\ label \in {"handle", "dlq", "dead"} /\ (label # "handle" => Exhausted(attempt[c]))
      /\ label = "dlq" => DlqEnabled
  BY <1>2 DEF AfterError
<1>4. /\ processed[m].attempts <= processed'[m].attempts
      /\ processed[m].attempts \in Nat /\ processed'[m].attempts \in Nat /\ attempt[c] \in Nat
  BY DEF TablesGrow, TypeOK, Rows
<1>5. m \in Events => attempt'[c] <= processed'[m].attempts
  BY <1>1, <1>4 DEF At
<1>6. pc'[c] = label /\ ~(label = "dead" /\ DlqEnabled)
  BY <1>2
<1>7. attempt'[c] > 0 => notified'[m] > 0
  <2>1. notified[m] \in Nat /\ notified'[m] \in Nat /\ notified[m] <= notified'[m]
    BY DEF TablesGrow, TypeOK
  <2> QED BY <1>1, <2>1 DEF At
<1> QED BY <1>1, <1>3, <1>5, <1>6, <1>7, AtMoved

(* StartProcessing: a finished row is accounted for, a started one was     *)
(* notified.                                                               *)
LEMMA StartProcessingAt ==
  ASSUME IInv, TypeOK', TablesGrow, LogGrows, NEW c \in Consumers, StartProcessing(c)
  PROVE  At(c)'
<1>0. /\ At(c) /\ TypeOK /\ pc[c] = "handle" /\ off'[c] = off[c] /\ Value(c) \in Events
      /\ pc \in [Consumers -> Labels] /\ attempt \in [Consumers -> Nat]
      /\ processed \in [Events -> Rows] /\ notified \in [Events -> Nat]
  BY DEF IInv, LoopInv, TypeOK, StartProcessing
<1>1. PICK m \in Events : m = Value(c)
  BY <1>0
<1>2. CASE StartProcessingError(c, Value(c))
  <2>1. attempt'[c] = attempt[c] /\ pc'[c] = AfterError(attempt[c])
    BY <1>0, <1>2 DEF StartProcessingError, Goto
  <2>2. DlqEnabled => pc'[c] # "dead"
    BY <2>1 DEF AfterError
  <2> QED BY <1>0, <2>1, <2>2, AfterErrorAt
<1>3. CASE StartProcessingOk(c, Value(c))
  <2>1. /\ processed' = [processed EXCEPT ![m] = Started(processed[m])]
        /\ attempt' = [attempt EXCEPT ![c] = Started(processed[m]).attempts]
    BY <1>1, <1>3 DEF StartProcessingOk
  <2>2. Started(processed[m]) \in Rows
    BY <1>0, StartedType
  <2>3. m \in Events => attempt'[c] <= processed'[m].attempts
    BY <1>0, <2>1, <2>2 DEF Rows
  <2>4. CASE processed[m].status \in Final
    <3>1. pc'[c] = "commit" /\ processed'[m] = processed[m]
      BY <1>0, <1>1, <1>3, <2>1, <2>4 DEF StartProcessingOk, Goto, Started
    <3>2. Accounted(m)
      <4>1. CASE processed[m].status = "done"
        BY <4>1 DEF IInv, RowInv, DoneMeansNotified, Accounted
      <4>2. CASE processed[m].status = "failed"
        BY <4>2 DEF IInv, RowInv, FailedMeansExhausted, Accounted
      <4> QED BY <2>4, <4>1, <4>2 DEF Final
    <3>3. Accounted(m)'
      BY <1>0, <3>2, AccountedGrows DEF Messages
    <3>4. PICK label : label = "commit"
      OBVIOUS
    <3>5. notified'[m] > 0
      BY <3>3 DEF Accounted
    <3> QED BY <1>0, <1>1, <2>3, <3>1, <3>3, <3>4, <3>5, AtMoved
  <2>5. CASE processed[m].status \notin Final
    <3>1. /\ notified' = [notified EXCEPT ![m] = @ + 1]
          /\ pc'[c] = IF m \in ForceFail THEN "markFailed" ELSE "markDone"
      BY <1>0, <1>1, <1>3, <2>5 DEF StartProcessingOk, Goto
    <3>2. notified'[m] > 0
      BY <1>0, <3>1
    <3>3. PICK label : label = IF m \in ForceFail THEN "markFailed" ELSE "markDone"
      OBVIOUS
    <3>4. label \in {"markFailed", "markDone"} /\ pc'[c] = label
      BY <3>1, <3>3
    <3> QED BY <1>0, <1>1, <2>3, <3>2, <3>4, AtMoved
  <2> QED BY <2>4, <2>5
<1> QED BY <1>2, <1>3 DEF StartProcessing

(* MarkDone, MarkFailed and MarkDead lead on with what the next place      *)
(* needs.                                                                  *)
LEMMA MarkAt ==
  ASSUME IInv, TypeOK', TablesGrow, LogGrows, NEW c \in Consumers,
         MarkDone(c) \/ MarkFailed(c) \/ MarkDead(c)
  PROVE  At(c)'
<1>0. /\ At(c) /\ TypeOK /\ pc[c] \in {"markDone", "markFailed", "dead"}
      /\ off'[c] = off[c] /\ attempt'[c] = attempt[c]
      /\ pc \in [Consumers -> Labels] /\ processed \in [Events -> Rows]
  BY DEF IInv, LoopInv, TypeOK, MarkDone, MarkFailed, MarkDead, BestEffort
<1>1. PICK m \in Events : m = Value(c)
  BY <1>0 DEF At
<1>2. m \in Events => attempt'[c] <= processed'[m].attempts
  <2>1. /\ processed[m].attempts <= processed'[m].attempts /\ attempt[c] \in Nat
        /\ processed[m].attempts \in Nat /\ processed'[m].attempts \in Nat
    BY <1>0 DEF TablesGrow, TypeOK, Rows
  <2> QED BY <1>0, <1>1, <2>1 DEF At
<1>n. attempt'[c] > 0 \/ pc[c] = "markDone" => notified'[m] > 0
  <2>1. notified[m] \in Nat /\ notified'[m] \in Nat /\ notified[m] <= notified'[m]
    BY <1>0 DEF TablesGrow, TypeOK
  <2> QED BY <1>0, <1>1, <2>1 DEF At
<1>3. CASE MarkDone(c)
  <2>1. \/ pc'[c] = "markFailed"
        \/ pc'[c] = "commit" /\ processed' = [processed EXCEPT ![m] = Row("done", @.attempts, TRUE)]
    BY <1>0, <1>1, <1>3 DEF MarkDone, Goto
  <2>n. pc[c] = "markDone"
    BY <1>3 DEF MarkDone
  <2>2. pc'[c] = "commit" => Accounted(m)'
    BY <1>0, <1>n, <2>1, <2>n DEF Accounted, Row
  <2>3. PICK label \in {"markFailed", "commit"} : label = pc'[c]
    BY <2>1
  <2> QED BY <1>0, <1>1, <1>2, <1>n, <2>2, <2>3, <2>n, AtMoved
<1>4. CASE MarkFailed(c)
  <2>1. pc'[c] = AfterError(attempt[c])
    BY <1>0, <1>4 DEF MarkFailed, Goto
  <2>2. DlqEnabled => pc'[c] # "dead"
    BY <2>1 DEF AfterError
  <2> QED BY <1>0, <1>1, <2>1, <2>2, AfterErrorAt
<1>5. CASE MarkDead(c)
  <2>1. pc[c] = "dead" /\ pc'[c] = "commitDead"
    BY <1>0, <1>5 DEF MarkDead, Goto
  <2>2. Accounted(m)
    <3>1. Exhausted(attempt[c]) /\ attempt[c] <= processed[m].attempts
      BY <1>1, <1>0, <2>1 DEF At
    <3>2. DlqEnabled => dlq[m] # "none"
      BY <1>1, <1>0, <2>1 DEF At
    <3>3. attempt[c] \in Nat /\ processed[m].attempts \in Nat
      BY DEF IInv, TypeOK, Rows
    <3>4. notified[m] > 0
      <4>1. attempt[c] > 0
        BY <3>1, <3>3, ParametersAssumption DEF Exhausted
      <4> QED BY <1>0, <1>1, <2>1, <4>1 DEF At
    <3> QED BY <3>1, <3>2, <3>3, <3>4, ParametersAssumption DEF Exhausted, Accounted
  <2>3. Accounted(m)'
    BY <1>0, <2>2, AccountedGrows DEF Messages
  <2>4. PICK label : label = "commitDead"
    OBVIOUS
  <2> QED BY <1>0, <1>1, <1>2, <1>n, <2>1, <2>3, <2>4, AtMoved
<1> QED BY <1>3, <1>4, <1>5

(* A tried dead letter accounts for the message.                           *)
LEMMA PublishDlqAt ==
  ASSUME IInv, TypeOK', TablesGrow, LogGrows, NEW c \in Consumers, PublishDlq(c)
  PROVE  At(c)'
<1>0. /\ At(c) /\ TypeOK /\ pc[c] = "dlq" /\ off'[c] = off[c] /\ attempt'[c] = attempt[c]
      /\ pc \in [Consumers -> Labels] /\ UNCHANGED processed
  BY DEF IInv, LoopInv, TypeOK, PublishDlq
<1>1. PICK m \in Messages : m = Value(c)
  BY <1>0, InHand
<1>2. dlq'[m] # "none"
  <2>1. \/ dlq' = [dlq EXCEPT ![m] = IF m \in NotJson THEN "empty" ELSE "written"]
        \/ dlq' = [dlq EXCEPT ![m] = IF @ = "none" THEN "lost" ELSE @]
    BY <1>1, Zenon DEF PublishDlq
  <2> QED BY <1>0, <2>1 DEF TypeOK
<1>3. PICK label : label = IF m \in Garbage THEN "commitDead" ELSE "dead"
  OBVIOUS
<1>4. pc'[c] = label
  BY <1>0, <1>1, <1>3 DEF PublishDlq, Goto
<1>5. DlqEnabled /\ (m \in Events => Exhausted(attempt'[c]))
  BY <1>0, <1>1 DEF At
<1>6. m \in Events => attempt'[c] <= processed'[m].attempts
  BY <1>0, <1>1 DEF At
<1>n. m \in Events => notified'[m] > 0
  <2> SUFFICES ASSUME m \in Events PROVE notified'[m] > 0
    OBVIOUS
  <2>1. attempt[c] \in Nat /\ UNCHANGED notified
    BY <1>0 DEF TypeOK, PublishDlq
  <2>2. attempt[c] > 0
    BY <1>0, <1>5, <2>1, ParametersAssumption DEF Exhausted
  <2> QED BY <1>0, <1>1, <2>1, <2>2 DEF At
<1>7. Accounted(m)'
  BY <1>2, <1>5, <1>n DEF Accounted
<1>8. label \in {"commitDead", "dead"} /\ (label = "dead" => m \in Events)
  BY <1>3 DEF Messages
<1> QED BY <1>0, <1>1, <1>2, <1>4, <1>5, <1>6, <1>7, <1>8, <1>n, AtMoved

(* Every step keeps what all the consumers know.                           *)
LEMMA LoopNext ==
  ASSUME IInv, TypeOK', TablesGrow, LogGrows, [Next]_vars
  PROVE  LoopInv'
<1>0. /\ pc \in [Consumers -> Labels] /\ off \in [Consumers -> Nat] /\ attempt \in [Consumers -> Nat]
      /\ TypeOK /\ \A c \in Consumers : At(c)
  BY DEF IInv, TypeOK, LoopInv
<1>1. ASSUME NEW d \in Consumers, UNCHANGED <<pc, off, attempt>> PROVE At(d)'
  BY <1>0, <1>1, AtStable
<1>2. ASSUME NEW c \in Consumers, ConsumerStep(c) \/ FetchFailed(c) \/ Crash(c),
             NEW d \in Consumers, d # c
      PROVE  At(d)'
  <2>1. pc'[d] = pc[d] /\ off'[d] = off[d] /\ attempt'[d] = attempt[d]
    BY <1>0, <1>2
       DEF ConsumerStep, FetchMessage, FetchTimeout, FetchFailed, Unmarshal, StartProcessing,
           StartProcessingOk, StartProcessingError, MarkDone, MarkFailed, BestEffort, PublishDlq,
           MarkDead, CommitOk, CommitError, Crash, NextMessage, Goto
  <2> QED BY <1>0, <2>1, AtStable
<1>3. ASSUME NEW c \in Consumers, CommitOk(c) \/ CommitError(c) \/ Crash(c) PROVE At(c)'
  <2>1. pc'[c] = "fetch"
    BY <1>0, <1>3 DEF CommitOk, CommitError, Crash, NextMessage, Goto
  <2> QED BY <2>1, Zenon DEF At
<1>4. ASSUME NEW c \in Consumers, ConsumerStep(c) \/ FetchFailed(c) \/ Crash(c)
      PROVE  At(c)'
  <2>1. FetchTimeout(c) \/ FetchFailed(c) => UNCHANGED <<pc, off, attempt>>
    BY DEF FetchTimeout, FetchFailed
  <2> QED BY <1>1, <1>3, <1>4, <2>1, FetchMessageAt, UnmarshalAt, StartProcessingAt, MarkAt, PublishDlqAt
          DEF ConsumerStep
<1>5. ASSUME NEW c \in Consumers, ConsumerStep(c) \/ FetchFailed(c) \/ Crash(c) PROVE LoopInv'
  BY <1>2, <1>4, <1>5 DEF LoopInv
<1>6. CASE UNCHANGED <<pc, off, attempt>>
  BY <1>1, <1>6 DEF LoopInv
<1>7. ASSUME NEW c \in Consumers, Assign(c) PROVE UNCHANGED <<pc, off, attempt>>
  BY <1>7 DEF Assign, local
<1>8. ASSUME NEW m \in Messages, AppendMessage(m) PROVE UNCHANGED <<pc, off, attempt>>
  BY <1>8 DEF AppendMessage, local
<1>9. UNCHANGED vars \/ Rebalance \/ Stall => UNCHANGED <<pc, off, attempt>>
  BY DEF vars, Rebalance, Stall, local
<1> QED BY <1>5, <1>6, <1>7, <1>8, <1>9 DEF Next

--------------------------------------------------------------------------------
(* Preservation of RowInv.                                                 *)

(* RowInv for one event.                                                   *)
RowOk(e) ==
  /\ processed[e].processedAt => notified[e] > 0
  /\ processed[e].status = "done" => processed[e].processedAt
  /\ processed[e].status = "failed" =>
       /\ MaxAttempts > 0 /\ processed[e].attempts >= MaxAttempts
       /\ notified[e] > 0
       /\ DlqEnabled => dlq[e] # "none"

(* RowInv, event by event.                                                 *)
LEMMA RowInvIsRowOk == RowInv <=> \A e \in Events : RowOk(e)
BY DEF RowInv, RowOk, DoneMeansNotified, FailedMeansExhausted

(* The same of the next state.                                             *)
LEMMA RowInvIsRowOkNext == RowInv' <=> \A e \in Events : RowOk(e)'
BY DEF RowInv, RowOk, DoneMeansNotified, FailedMeansExhausted

(* A row that is left alone, or put back into processing.                  *)
LEMMA RowKept ==
  ASSUME TypeOK, TypeOK', TablesGrow, NEW e \in Events, RowOk(e),
         processed'[e].processedAt = processed[e].processedAt,
         processed'[e].status \in {processed[e].status, "processing"}
  PROVE  RowOk(e)'
<1>1. /\ processed[e].attempts \in Nat /\ processed'[e].attempts \in Nat
      /\ notified[e] \in Nat /\ notified'[e] \in Nat
      /\ processed[e].attempts <= processed'[e].attempts /\ notified[e] <= notified'[e]
      /\ dlq[e] # "none" => dlq'[e] # "none"
  BY DEF TypeOK, Rows, TablesGrow, Messages
<1> QED BY <1>1, ParametersAssumption DEF RowOk

(* Every step keeps what a row's status says.                              *)
LEMMA RowNext ==
  ASSUME IInv, TypeOK', TablesGrow, [Next]_vars
  PROVE  RowInv'
<1>0. /\ TypeOK /\ processed \in [Events -> Rows]
      /\ \A e \in Events : RowOk(e) /\ processed[e] \in Rows
      /\ \A c \in Consumers : At(c)
  BY RowInvIsRowOk DEF IInv, TypeOK, LoopInv
<1> SUFFICES ASSUME NEW e \in Events PROVE RowOk(e)'
  BY RowInvIsRowOkNext
<1>1. CASE processed'[e] = processed[e]
  BY <1>0, <1>1, RowKept
<1>2. ASSUME NEW c \in Consumers, StartProcessing(c) PROVE RowOk(e)'
  <2>1. \/ UNCHANGED processed
        \/ processed' = [processed EXCEPT ![Value(c)] = Started(@)]
    BY <1>2, Zenon DEF StartProcessing, StartProcessingOk, StartProcessingError
  <2>2. processed'[e] \in {processed[e], Started(processed[e])}
    BY <1>0, <2>1
  <2>3. /\ Started(processed[e]).processedAt = processed[e].processedAt
        /\ Started(processed[e]).status \in {processed[e].status, "processing"}
    BY DEF Started, Row
  <2> QED BY <1>0, <2>2, <2>3, RowKept
<1>3. ASSUME NEW c \in Consumers, MarkFailed(c) PROVE RowOk(e)'
  <2>1. processed'[e] \in {processed[e], Row("processing", processed[e].attempts, processed[e].processedAt)}
    BY <1>0, <1>3 DEF MarkFailed, BestEffort
  <2> QED BY <1>0, <2>1, RowKept DEF Row
<1>4. ASSUME NEW c \in Consumers, MarkDone(c) PROVE RowOk(e)'
  <2>1. /\ processed'[e] = processed[e] \/ e = Value(c)
        /\ processed'[e] \in {processed[e], Row("done", processed[e].attempts, TRUE)}
    BY <1>0, <1>4 DEF MarkDone
  <2>2. UNCHANGED notified /\ (e = Value(c) => notified[e] > 0)
    BY <1>0, <1>4 DEF MarkDone, At
  <2> QED BY <1>1, <2>1, <2>2 DEF RowOk, Row
<1>5. ASSUME NEW c \in Consumers, MarkDead(c) PROVE RowOk(e)'
  <2>1. /\ processed'[e] = processed[e] \/ e = Value(c)
        /\ processed'[e] \in {processed[e], Row("failed", processed[e].attempts, processed[e].processedAt)}
        /\ UNCHANGED <<notified, dlq>>
    BY <1>0, <1>5 DEF MarkDead, BestEffort
  <2>2. ASSUME e = Value(c)
        PROVE  /\ MaxAttempts > 0 /\ processed[e].attempts >= MaxAttempts
               /\ notified[e] > 0
               /\ DlqEnabled => dlq[e] # "none"
    <3>1. /\ Exhausted(attempt[c]) /\ attempt[c] <= processed[e].attempts
          /\ attempt[c] > 0 => notified[e] > 0
          /\ DlqEnabled => dlq[e] # "none"
      BY <1>0, <1>5, <2>2 DEF MarkDead, At
    <3>2. attempt[c] \in Nat /\ processed[e].attempts \in Nat
      BY <1>0 DEF TypeOK, Rows
    <3> QED BY <3>1, <3>2, ParametersAssumption DEF Exhausted
  <2> QED BY <1>0, <1>1, <2>1, <2>2 DEF RowOk, Row
<1>6. UNCHANGED vars \/ Rebalance \/ Stall => UNCHANGED processed
  BY DEF vars, Rebalance, Stall, tables
<1>7. ASSUME NEW c \in Consumers,
             \/ Assign(c) \/ FetchFailed(c) \/ Crash(c) \/ FetchMessage(c) \/ FetchTimeout(c)
             \/ Unmarshal(c) \/ PublishDlq(c) \/ CommitOk(c) \/ CommitError(c)
      PROVE  UNCHANGED processed
  BY <1>7 DEF Assign, FetchFailed, Crash, FetchMessage, FetchTimeout, Unmarshal, PublishDlq,
              CommitOk, CommitError, tables
<1>8. ASSUME NEW m \in Messages, AppendMessage(m) PROVE UNCHANGED processed
  BY <1>8 DEF AppendMessage, tables
<1> QED BY <1>1, <1>2, <1>3, <1>4, <1>5, <1>6, <1>7, <1>8 DEF Next, ConsumerStep

--------------------------------------------------------------------------------
(* Preservation of GroupInv.                                               *)

(* Committing the message in hand accounts for all up to it.               *)
LEMMA CommitBelow ==
  ASSUME IInv, TypeOK', TablesGrow, LogGrows, NEW c \in Consumers, UNCHANGED <<log, tables>>,
         pc[c] \in {"commit", "commitDead"}, committed' = off[c] + 1
  PROVE  CommittedInv'
<1>0. TypeOK /\ At(c) /\ off[c] \in Nat /\ Len(log) \in Nat
  BY LogFacts DEF IInv, LoopInv, TypeOK
<1>1. off[c] < Len(log) /\ Below(off[c]) /\ Accounted(log[off[c] + 1])
  BY <1>0 DEF At, Value
<1>2. PICK n \in Nat : n = off[c]
  BY <1>0
<1>3. Below(n + 1)
  <2>1. ASSUME StartFirst, NEW o \in 0..n PROVE Accounted(log[o + 1])
    <3>1. o = n \/ o \in 0..(n - 1)
      BY <1>2
    <3> QED BY <1>1, <1>2, <2>1, <3>1 DEF Below
  <2> QED BY <2>1 DEF Below
<1>4. n + 1 \in Nat /\ n + 1 <= Len(log)
  BY <1>0, <1>1, <1>2
<1>5. Below(n + 1)'
  BY <1>0, <1>3, <1>4, BelowGrows
<1> QED BY <1>2, <1>4, <1>5 DEF CommittedInv, Below

(* A committed offset that is left alone.                                  *)
LEMMA CommittedKept ==
  ASSUME IInv, TypeOK', TablesGrow, LogGrows, UNCHANGED committed
  PROVE  CommittedInv'
<1>1. CASE committed = None
  BY <1>1 DEF CommittedInv
<1>2. CASE committed # None
  <2>1. PICK n \in Nat : n = committed
    BY <1>2 DEF IInv, TypeOK
  <2>2. n <= Len(log) /\ Below(n) /\ Len(log) \in Nat /\ TypeOK
    BY <1>2, <2>1, LogFacts DEF IInv, GroupInv, CommittedInv
  <2>3. Below(n)'
    BY <2>2, BelowGrows
  <2>4. Len(log') \in Nat /\ Len(log) <= Len(log')
    BY DEF TypeOK, LogGrows
  <2> QED BY <2>1, <2>2, <2>3, <2>4 DEF CommittedInv, Below
<1> QED BY <1>1, <1>2

(* The committed offset only covers accounted messages, stale commits      *)
(* included.                                                               *)
LEMMA CommittedNext ==
  ASSUME IInv, TypeOK', TablesGrow, LogGrows, [Next]_vars
  PROVE  CommittedInv'
<1>1. CASE UNCHANGED committed
  BY <1>1, CommittedKept
<1>2. ASSUME NEW c \in Consumers, CommitOk(c) \/ CommitError(c) PROVE CommittedInv'
  <2>1. /\ pc[c] \in {"commit", "commitDead"} /\ UNCHANGED <<log, tables>>
        /\ committed' \in {committed, off[c] + 1}
    BY <1>2 DEF CommitOk, CommitError
  <2> QED BY <1>1, <2>1, CommitBelow
<1>3. UNCHANGED vars \/ Rebalance \/ Stall => UNCHANGED committed
  BY DEF vars, Rebalance, Stall, Release
<1>4. ASSUME NEW c \in Consumers,
             \/ Assign(c) \/ FetchFailed(c) \/ Crash(c) \/ FetchMessage(c)
             \/ Unmarshal(c) \/ StartProcessing(c) \/ MarkDone(c) \/ MarkFailed(c)
             \/ PublishDlq(c) \/ MarkDead(c)
      PROVE  UNCHANGED committed
  BY <1>4 DEF Assign, FetchFailed, Crash, FetchMessage, Unmarshal, StartProcessing, MarkDone,
              MarkFailed, PublishDlq, MarkDead, BestEffort, Release, kafka
<1>5. ASSUME NEW c \in Consumers, FetchTimeout(c) PROVE UNCHANGED committed
  BY <1>5 DEF FetchTimeout, Release, kafka
<1>6. ASSUME NEW m \in Messages, AppendMessage(m) PROVE UNCHANGED committed
  BY <1>6 DEF AppendMessage
<1> QED BY <1>1, <1>2, <1>3, <1>4, <1>5, <1>6 DEF Next, ConsumerStep

(* The owner keeps its position, and its message in hand unless it is      *)
(* accounted for.                                                          *)
LEMMA PositionKept ==
  ASSUME IInv, TypeOK', TablesGrow, LogGrows, UNCHANGED <<owner, pos>>,
         owner \in Consumers /\ pc[owner] # "fetch" =>
            \/ pc'[owner] # "fetch" /\ off'[owner] = off[owner]
            \/ Accounted(log[off[owner] + 1])
  PROVE  PositionInv'
<1> SUFFICES ASSUME owner # Nobody, pos # Stalled
             PROVE  /\ pos <= Len(log')
                    /\ StartFirst => \A o \in 0..(pos - 1) :
                         Accounted(log[o + 1])' \/ (pc'[owner] # "fetch" /\ off'[owner] = o)
  BY DEF PositionInv
<1>1. /\ owner \in Consumers /\ pos \in Nat /\ pos <= Len(log) /\ TypeOK
      /\ Len(log) \in Nat /\ Len(log') \in Nat /\ Len(log) <= Len(log')
  <2>1. owner \in Consumers /\ pos \in Nat /\ TypeOK
    BY DEF IInv, TypeOK
  <2>2. pos <= Len(log)
    BY DEF IInv, GroupInv, PositionInv
  <2>3. Len(log') \in Nat
    BY DEF TypeOK
  <2> QED BY <2>1, <2>2, <2>3, LogFacts DEF LogGrows
<1>2. ASSUME StartFirst, NEW o \in 0..(pos - 1)
      PROVE  Accounted(log[o + 1])' \/ (pc'[owner] # "fetch" /\ off'[owner] = o)
  <2>1. Accounted(log[o + 1]) \/ (pc[owner] # "fetch" /\ off[owner] = o)
    BY <1>1, <1>2 DEF IInv, GroupInv, PositionInv
  <2>2. Accounted(log[o + 1]) \/ (pc'[owner] # "fetch" /\ off'[owner] = o)
    BY <1>1, <2>1
  <2>3. o \in Nat /\ o < Len(log) /\ o \in 0..(Len(log) - 1)
    BY <1>1
  <2>4. PICK m \in Messages : m = log[o + 1]
    BY <1>1, <2>3, LogFacts
  <2>5. log'[o + 1] = m
    BY <2>3, <2>4 DEF LogGrows
  <2>6. Accounted(m) => Accounted(m)'
    BY <1>1, AccountedGrows
  <2> QED BY <2>2, <2>4, <2>5, <2>6
<1> QED BY <1>1, <1>2

(* The read position only runs past accounted messages and the one in hand.*)
LEMMA PositionNext ==
  ASSUME IInv, TypeOK', TablesGrow, LogGrows, [Next]_vars
  PROVE  PositionInv'
<1>0. /\ pc \in [Consumers -> Labels] /\ off \in [Consumers -> Nat]
      /\ TypeOK /\ \A c \in Consumers : At(c)
  BY DEF IInv, TypeOK, LoopInv
<1>1. CASE owner' = Nobody \/ pos' = Stalled
  BY <1>1 DEF PositionInv
<1>2. CASE UNCHANGED <<owner, pos, pc, off>>
  BY <1>2, PositionKept
<1>3. ASSUME NEW c \in Consumers, Assign(c) PROVE PositionInv'
  <2>1. /\ owner' = c /\ pos' = StartOffset /\ UNCHANGED <<log, tables, pc>>
        /\ Len(log) \in Nat /\ committed \in Nat \cup {None}
    BY <1>0, <1>3, LogFacts DEF Assign, local, TypeOK
  <2>2. ASSUME NEW m PROVE Accounted(m)' <=> Accounted(m)
    BY <2>1 DEF Accounted, tables
  <2>3. StartOffset <= Len(log) /\ Below(StartOffset)
    <3>1. CASE committed # None
      BY <3>1 DEF StartOffset, IInv, GroupInv, CommittedInv
    <3>2. CASE committed = None /\ StartFirst
      <4>1. StartOffset = 0
        BY <3>2 DEF StartOffset
      <4> QED BY <2>1, <4>1 DEF Below
    <3>3. CASE committed = None /\ ~StartFirst
      BY <2>1, <3>3 DEF StartOffset, Below
    <3> QED BY <3>1, <3>2, <3>3
  <2> QED BY <2>1, <2>2, <2>3 DEF PositionInv, Below
<1>4. ASSUME NEW c \in Consumers, FetchMessage(c) PROVE PositionInv'
  <2>1. /\ pos \in Nat /\ pos < Len(log) /\ owner = c /\ owner # Nobody /\ pc[c] = "fetch"
        /\ UNCHANGED <<log, owner, tables>> /\ pos' = pos + 1 /\ Len(log) \in Nat
        /\ pc'[c] = "handle" /\ off'[c] = pos
    BY <1>0, <1>4, NobodyAssumption, LogFacts DEF TypeOK, FetchMessage, HasMessage, Goto
  <2>2. ASSUME NEW m PROVE Accounted(m)' <=> Accounted(m)
    BY <2>1 DEF Accounted, tables
  <2>3. StartFirst => \A o \in 0..(pos - 1) : Accounted(log[o + 1])
    <3>1. pos # Stalled
      BY <2>1 DEF Stalled
    <3> QED BY <2>1, <3>1 DEF IInv, GroupInv, PositionInv
  <2>4. ASSUME StartFirst, NEW o \in 0..pos
        PROVE  Accounted(log[o + 1])' \/ off'[c] = o
    <3>1. o = pos \/ o \in 0..(pos - 1)
      BY <2>1
    <3> QED BY <2>1, <2>2, <2>3, <2>4, <3>1
  <2> QED BY <2>1, <2>4 DEF PositionInv
<1>5. ASSUME NEW c \in Consumers,
             \/ Unmarshal(c) \/ StartProcessing(c) \/ MarkDone(c) \/ MarkFailed(c)
             \/ PublishDlq(c) \/ MarkDead(c)
      PROVE  PositionInv'
  <2>1. UNCHANGED <<owner, pos, off>>
    BY <1>5 DEF Unmarshal, StartProcessing, MarkDone, MarkFailed, PublishDlq, MarkDead,
                BestEffort, kafka
  <2>2. PICK label \in Labels \ {"fetch"} : pc' = [pc EXCEPT ![c] = label]
    <3>1. \A n : AfterError(n) \in Labels \ {"fetch"}
      BY DEF AfterError, Labels
    <3>2. CASE StartProcessing(c)
      <4>1. Goto(c, AfterError(attempt[c])) \/ Goto(c, "commit") \/ Goto(c, "markFailed")
              \/ Goto(c, "markDone")
        BY <3>2 DEF StartProcessing, StartProcessingOk, StartProcessingError
      <4> QED BY <3>1, <4>1 DEF Goto, Labels
    <3>3. CASE MarkDone(c)
      <4>1. Goto(c, "commit") \/ Goto(c, "markFailed")
        BY <3>3 DEF MarkDone
      <4> QED BY <4>1 DEF Goto, Labels
    <3>4. CASE Unmarshal(c) \/ MarkFailed(c) \/ PublishDlq(c) \/ MarkDead(c)
      BY <3>1, <3>4 DEF Unmarshal, MarkFailed, PublishDlq, MarkDead, Goto, Labels
    <3> QED BY <1>5, <3>2, <3>3, <3>4
  <2>3. owner \in Consumers /\ pc[owner] # "fetch" => pc'[owner] # "fetch"
    BY <1>0, <2>2
  <2> QED BY <2>1, <2>3, PositionKept
<1>6. ASSUME NEW c \in Consumers, CommitOk(c) \/ CommitError(c) PROVE PositionInv'
  <2>1. CASE owner' = Nobody
    BY <1>1, <2>1
  <2>2. CASE owner' # Nobody
    <3>1. /\ UNCHANGED <<owner, pos>> /\ pc[c] \in {"commit", "commitDead"}
      BY <1>6, <2>2 DEF CommitOk, CommitError
    <3>2. /\ pc' = [pc EXCEPT ![c] = "fetch"] /\ off' = [off EXCEPT ![c] = 0]
      BY <1>6 DEF CommitOk, CommitError, NextMessage, Goto
    <3>3. Accounted(log[off[c] + 1])
      BY <1>0, <3>1 DEF At, Value
    <3>4. owner \in Consumers /\ pc[owner] # "fetch" =>
            \/ pc'[owner] # "fetch" /\ off'[owner] = off[owner]
            \/ Accounted(log[off[owner] + 1])
      BY <1>0, <3>2, <3>3
    <3> QED BY <3>1, <3>4, PositionKept
  <2> QED BY <2>1, <2>2
<1>7. ASSUME NEW c \in Consumers, FetchFailed(c) \/ Crash(c) \/ FetchTimeout(c) PROVE PositionInv'
  <2>1. FetchFailed(c) \/ Crash(c) => owner' = Nobody
    BY DEF FetchFailed, Crash, Release
  <2>2. FetchTimeout(c) => owner' = Nobody \/ UNCHANGED <<owner, pos, pc, off>>
    BY DEF FetchTimeout, Release, kafka
  <2> QED BY <1>1, <1>2, <1>7, <2>1, <2>2
<1>8. ASSUME NEW m \in Messages, AppendMessage(m) PROVE PositionInv'
  BY <1>2, <1>8 DEF AppendMessage, local
<1>9. CASE UNCHANGED vars \/ Rebalance \/ Stall
  BY <1>1, <1>2, <1>9 DEF vars, Rebalance, Stall, Release
<1> QED BY <1>3, <1>4, <1>5, <1>6, <1>7, <1>8, <1>9 DEF Next, ConsumerStep

--------------------------------------------------------------------------------
(* The inductive invariant holds initially.                                *)
LEMMA InitIInv == Init => IInv
<1> SUFFICES ASSUME Init PROVE IInv
  OBVIOUS
<1>1. TypeOK
  BY InitType
<1>2. LoopInv
  BY DEF Init, LoopInv, At
<1>3. RowInv
  <2>1. \A e \in Events : processed[e] = Row("absent", 0, FALSE)
    BY DEF Init
  <2> QED BY <2>1 DEF RowInv, DoneMeansNotified, FailedMeansExhausted, Row
<1>4. GroupInv
  BY DEF Init, GroupInv, CommittedInv, PositionInv
<1> QED BY <1>1, <1>2, <1>3, <1>4 DEF IInv

(* Every step keeps the inductive invariant.                               *)
LEMMA NextIInv == IInv /\ [Next]_vars => IInv'
<1> SUFFICES ASSUME IInv, [Next]_vars PROVE IInv'
  OBVIOUS
<1>1. TypeOK'
  BY TypeNext DEF IInv
<1>2. LogGrows
  BY LogNext DEF IInv
<1>3. TablesGrow
  <2>1. \A c \in Consumers : pc[c] \in {"markDone", "markFailed", "dead"} => Value(c) \in Events
    BY DEF IInv, LoopInv, At
  <2> QED BY <2>1, TablesNext DEF IInv
<1>4. LoopInv' /\ RowInv' /\ CommittedInv' /\ PositionInv'
  BY <1>1, <1>2, <1>3, LoopNext, RowNext, CommittedNext, PositionNext
<1> QED BY <1>1, <1>4 DEF IInv, GroupInv

(* Other services append to the topic, several messages at a time, and     *)
(* have faults of their own: the group does not mind.                      *)
LEMMA PartitionGrows ==
  ASSUME IInv, LogGrows, log' \in Seq(Messages), faults' \in 0..MaxFaults,
         UNCHANGED <<committed, origin, owner, pos, local, tables>>
  PROVE  IInv'
<1>1. UNCHANGED <<pc, off, attempt, timeoutStreak, processed, notified, dlq>>
  BY DEF local, tables
<1>2. TypeOK /\ TypeOK'
  <2>1. TypeOK
    BY DEF IInv
  <2> QED BY <1>1, <2>1 DEF TypeOK
<1>3. TablesGrow
  BY <1>1, <1>2 DEF TablesGrow, TypeOK, Rows
<1>4. LoopInv'
  BY <1>1, <1>2, <1>3, AtStable DEF IInv, LoopInv
<1>5. RowInv'
  BY <1>1 DEF IInv, RowInv, DoneMeansNotified, FailedMeansExhausted
<1>6. CommittedInv' /\ PositionInv'
  BY <1>1, <1>2, <1>3, CommittedKept, PositionKept
<1> QED BY <1>2, <1>4, <1>5, <1>6 DEF IInv, GroupInv

(* The inductive invariant holds in every reachable state.                 *)
THEOREM Invariance == Spec => []IInv
BY InitIInv, NextIInv, PTL DEF Spec

(* The variables keep their types: in particular MarkDead and the other    *)
(* UPDATEs only write statuses StartProcessing knows.                      *)
THEOREM TypeCorrect == Spec => []TypeOK
<1>1. IInv => TypeOK
  BY DEF IInv
<1> QED BY <1>1, Invariance, PTL

(* A processed_events row with processed_at set belongs to an event that   *)
(* was notified: handleMessage calls MarkDone only after the effect.       *)
THEOREM DoneIsNotified == Spec => []DoneMeansNotified
<1>1. IInv => DoneMeansNotified
  BY DEF IInv, RowInv
<1> QED BY <1>1, Invariance, PTL

(* A failed row has used up NOTIFY_MAX_ATTEMPTS, however many consumers    *)
(* count attempts on it.                                                   *)
THEOREM FailedIsExhausted == Spec => []FailedMeansExhausted
<1>1. IInv => FailedMeansExhausted
  BY DEF IInv, RowInv
<1> QED BY <1>1, Invariance, PTL

(* At-least-once: a group that starts at the first message never commits   *)
(* past an event it has not notified, or a message it has not accounted    *)
(* for, whatever the number of consumers, crashes, rebalances and stale    *)
(* commits.                                                                *)
THEOREM CommittedAreAccounted ==
  ASSUME StartFirst
  PROVE  Spec => []CommittedIsAccounted
<1>1. IInv => CommittedIsAccounted
  <2> SUFFICES ASSUME IInv, NEW o \in 0..(Len(log) - 1), o < committed
               PROVE  Accounted(log[o + 1])
    BY DEF CommittedIsAccounted, Passed
  <2>1. committed \in Nat \cup {None} /\ Len(log) \in Nat
    BY LogFacts DEF IInv, TypeOK
  <2>2. committed \in Nat /\ committed # None /\ o \in 0..(committed - 1)
    BY <2>1 DEF None
  <2> QED BY <2>2 DEF IInv, GroupInv, CommittedInv, Below
<1> QED BY <1>1, Invariance, PTL

================================================================================
