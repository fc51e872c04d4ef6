--------------------- MODULE NotificationServiceBoundProofs ---------------------
(***************************************************************************)
(* Proofs about a group of one consumer in NotificationService: what       *)
(* faults cost: repeated notifications, attempts above the limit, and      *)
(* events committed without a verdict.                                     *)
(***************************************************************************)
EXTENDS NotificationServiceProofs, FiniteSetTheorems

(* There is one consumer in the group.                                     *)
OneConsumer == \A c, d \in Consumers : c = d

(* The places between the start of an event and the end of its handling.   *)
Busy == {"markDone", "markFailed", "dlq", "dead"}

(* The consumer has the event in hand at one of these places.              *)
Has(places, e) == \E c \in Consumers : pc[c] \in places /\ Value(c) = e

(* Starting the event again, now or after MarkFailed, repeats nothing that *)
(* is not paid for.                                                        *)
Owed(e) ==
  \/ processed[e].status \notin Final /\ ~Has({"markDone"}, e)
  \/ Has({"markFailed"}, e)

(* The event will be started again if it is delivered again.               *)
Open(e) == processed[e].status \notin Final /\ ~Has(Busy, e)

RepeatPaid(e) == notified[e] <= 1 + faults /\ (Owed(e) => notified[e] <= faults)

AttemptPaid(e) ==
  MaxAttempts > 0 =>
    /\ processed[e].attempts <= MaxAttempts + faults
    /\ Open(e) => processed[e].attempts < MaxAttempts + faults

Paid(e) == (e \notin ForceFail => RepeatPaid(e)) /\ AttemptPaid(e)

(* The attempt the consumer was told is the one in the row.                *)
InStep ==
  \A c \in Consumers :
     pc[c] \in {"markDone", "markFailed"} => attempt[c] = processed[Value(c)].attempts

PaidInv == InStep /\ \A e \in Events : Paid(e)

--------------------------------------------------------------------------------
(* What every step of the service does to types, tables and partition.     *)
LEMMA StepGrows == IInv /\ [Next]_vars => TypeOK' /\ TablesGrow /\ LogGrows
<1> SUFFICES ASSUME IInv, [Next]_vars PROVE TypeOK' /\ TablesGrow /\ LogGrows
  OBVIOUS
<1>1. TypeOK' /\ LogGrows
  BY TypeNext, LogNext DEF IInv
<1>2. TablesGrow
  BY TablesNext DEF IInv, LoopInv, At
<1> QED BY <1>1, <1>2

(* A fault pays for one notification and one attempt; a step without one   *)
(* may not reopen the event.                                               *)
LEMMA PaidKept ==
  ASSUME TypeOK, TypeOK', NEW e \in Events, Paid(e), notified'[e] = notified[e],
         processed'[e].attempts = processed[e].attempts,
         \/ faults' = faults + 1
         \/ faults' = faults /\ (Owed(e)' => Owed(e)) /\ (Open(e)' => Open(e))
  PROVE  Paid(e)'
<1>1. processed[e].attempts \in Nat /\ notified[e] \in Nat /\ faults \in Nat
  BY BoundsAssumption DEF TypeOK, Rows
<1>2. RepeatPaid(e) => RepeatPaid(e)'
  BY <1>1 DEF RepeatPaid
<1>3. AttemptPaid(e) => AttemptPaid(e)'
  BY <1>1, ParametersAssumption DEF AttemptPaid
<1> QED BY <1>2, <1>3 DEF Paid

(* Where the one consumer is, before and after a step with the same        *)
(* message in hand.                                                        *)
LEMMA OneHand ==
  ASSUME OneConsumer, IInv, TypeOK', TablesGrow, LogGrows,
         NEW c \in Consumers, pc[c] # "fetch", off'[c] = off[c], NEW e, NEW P
  PROVE  /\ Value(c)' = Value(c) /\ Value(c) \in Messages
         /\ Has(P, e) <=> pc[c] \in P /\ Value(c) = e
         /\ Has(P, e)' <=> pc'[c] \in P /\ Value(c) = e
<1>1. Value(c)' = Value(c) /\ Value(c) \in Messages
  BY InHand DEF IInv, LoopInv
<1>2. Has(P, e) <=> pc[c] \in P /\ Value(c) = e
  BY DEF Has, OneConsumer
<1>3. Has(P, e)' <=> pc'[c] \in P /\ Value(c)' = e
  BY DEF Has, OneConsumer
<1> QED BY <1>1, <1>2, <1>3

(* Steps that leave the tables alone and no event busy that was not.       *)
LEMMA QuietStep ==
  ASSUME IInv, PaidInv, TypeOK', TablesGrow, LogGrows,
         UNCHANGED <<processed, notified>>, faults' = faults \/ faults' = faults + 1,
         \A c \in Consumers :
            \/ pc'[c] = pc[c] /\ off'[c] = off[c] /\ attempt'[c] = attempt[c]
            \/ pc[c] \notin Busy /\ pc'[c] \notin Busy
            \/ pc[c] \notin Busy /\ pc'[c] = "dlq" /\ Value(c)' \in Garbage
  PROVE  PaidInv'
<1>1. ASSUME NEW c \in Consumers, pc[c] # "fetch", off'[c] = off[c] PROVE Value(c)' = Value(c)
  BY <1>1, InHand DEF IInv, LoopInv
<1>2. ASSUME NEW e \in Events, NEW P \in SUBSET Busy PROVE Has(P, e)' <=> Has(P, e)
  <2>1. ASSUME NEW c \in Consumers PROVE pc'[c] \in P /\ Value(c)' = e <=> pc[c] \in P /\ Value(c) = e
    BY <1>1, MessagesAssumption DEF Busy
  <2> QED BY <2>1 DEF Has
<1>3. ASSUME NEW e \in Events PROVE Paid(e)'
  <2>1. (Owed(e)' <=> Owed(e)) /\ (Open(e)' <=> Open(e))
    <3>1. /\ Has({"markDone"}, e)' <=> Has({"markDone"}, e)
          /\ Has({"markFailed"}, e)' <=> Has({"markFailed"}, e)
          /\ Has(Busy, e)' <=> Has(Busy, e)
      BY <1>2 DEF Busy
    <3> QED BY <3>1 DEF Owed, Open
  <2> QED BY <2>1, PaidKept DEF IInv, PaidInv
<1>4. InStep'
  <2> SUFFICES ASSUME NEW c \in Consumers, pc'[c] \in {"markDone", "markFailed"}
               PROVE  attempt'[c] = processed'[Value(c)'].attempts
    BY DEF InStep
  <2>1. pc'[c] = pc[c] /\ off'[c] = off[c] /\ attempt'[c] = attempt[c]
    BY DEF Busy
  <2> QED BY <2>1, <1>1 DEF PaidInv, InStep
<1> QED BY <1>3, <1>4 DEF PaidInv

(* StartProcessing: a start that is not paid for by a fault uses up what   *)
(* the event had left.                                                     *)
LEMMA StartPaid ==
  ASSUME OneConsumer, IInv, PaidInv, TypeOK', TablesGrow, LogGrows,
         NEW c \in Consumers, StartProcessing(c)
  PROVE  PaidInv'
<1>0. /\ pc[c] = "handle" /\ off'[c] = off[c] /\ TypeOK
      /\ pc \in [Consumers -> Labels] /\ attempt \in [Consumers -> Nat]
      /\ processed \in [Events -> Rows] /\ notified \in [Events -> Nat] /\ faults \in Nat
  <2>1. pc[c] = "handle" /\ UNCHANGED off /\ TypeOK
    BY DEF IInv, StartProcessing
  <2>2. /\ pc \in [Consumers -> Labels] /\ attempt \in [Consumers -> Nat]
        /\ processed \in [Events -> Rows] /\ notified \in [Events -> Nat]
    BY <2>1 DEF TypeOK
  <2>3. faults \in Nat
    BY <2>1, BoundsAssumption DEF TypeOK
  <2> QED BY <2>1, <2>2, <2>3
<1>1. PICK m \in Events : m = Value(c)
  BY DEF StartProcessing
<1>2. \A e, P : /\ Value(c)' = m
                /\ Has(P, e) <=> pc[c] \in P /\ m = e
                /\ Has(P, e)' <=> pc'[c] \in P /\ m = e
  BY <1>0, <1>1, OneHand
<1>3. \A e \in Events : (Owed(e) <=> processed[e].status \notin Final)
                     /\ (Open(e) <=> processed[e].status \notin Final)
  BY <1>0, <1>2 DEF Owed, Open, Busy
<1>4. \A d \in Consumers : d = c
  BY DEF OneConsumer
<1>5. \A e \in Events : Paid(e)
  BY DEF PaidInv
<1>6. CASE StartProcessingError(c, m)
  <2>1. pc'[c] = AfterError(attempt[c])
    BY <1>0, <1>6 DEF StartProcessingError, Goto
  <2>2. pc'[c] \in {"handle", "dlq", "dead"}
    BY <2>1 DEF AfterError
  <2>3. InStep'
    BY <1>4, <2>2 DEF InStep
  <2>4. UNCHANGED notified
    BY <1>6 DEF StartProcessingError
  <2>5. CASE UNCHANGED processed
    <3>1. ASSUME NEW e \in Events PROVE (Owed(e)' => Owed(e)) /\ (Open(e)' => Open(e))
      BY <1>2, <1>3, <2>2, <2>5 DEF Owed, Open
    <3>2. faults' = faults \/ faults' = faults + 1
      BY <1>6 DEF StartProcessingError, Fault
    <3> QED BY <1>0, <1>5, <2>3, <2>4, <2>5, <3>1, <3>2, PaidKept DEF PaidInv
  <2>6. CASE faults' = faults + 1 /\ processed' = [processed EXCEPT ![m] = Started(@)]
    <3>1. ASSUME NEW e \in Events PROVE Paid(e)'
      <4>1. CASE processed'[e] = processed[e]
        BY <1>0, <1>5, <2>4, <2>6, <4>1, PaidKept
      <4>2. CASE processed'[e] # processed[e]
        <5>1. e = m /\ processed'[e] = Started(processed[e]) /\ processed[e].status \notin Final
          BY <1>0, <2>6, <4>2 DEF Started
        <5>2. processed'[e].attempts = processed[e].attempts + 1
          BY <5>1 DEF Started, Row
        <5>3. processed[e].attempts \in Nat /\ notified[e] \in Nat
          BY <1>0 DEF Rows
        <5>4. RepeatPaid(e) => RepeatPaid(e)'
          BY <1>0, <2>4, <2>6, <5>3 DEF RepeatPaid
        <5>5. AttemptPaid(e) => AttemptPaid(e)'
          BY <1>0, <1>3, <2>6, <5>1, <5>2, <5>3, ParametersAssumption DEF AttemptPaid
        <5> QED BY <1>5, <5>4, <5>5 DEF Paid
      <4> QED BY <4>1, <4>2
    <3> QED BY <2>3, <3>1 DEF PaidInv
  <2> QED BY <1>6, <2>5, <2>6 DEF StartProcessingError, Fault
<1>7. CASE StartProcessingOk(c, m)
  <2>0. UNCHANGED faults /\ processed' = [processed EXCEPT ![m] = Started(@)]
    BY <1>7 DEF StartProcessingOk
  <2>1. CASE processed[m].status \in Final
    <3>1. pc'[c] = "commit" /\ UNCHANGED notified
      BY <1>0, <1>7, <2>1 DEF StartProcessingOk, Goto
    <3>2. \A e \in Events : processed'[e] = processed[e]
      BY <1>0, <2>0, <2>1 DEF Started
    <3>3. InStep'
      BY <1>4, <3>1 DEF InStep
    <3>4. ASSUME NEW e \in Events PROVE (Owed(e)' => Owed(e)) /\ (Open(e)' => Open(e))
      BY <1>2, <1>3, <3>1, <3>2 DEF Owed, Open
    <3> QED BY <1>0, <1>5, <2>0, <3>1, <3>2, <3>3, <3>4, PaidKept DEF PaidInv
  <2>2. CASE processed[m].status \notin Final
    <3>1. /\ notified' = [notified EXCEPT ![m] = @ + 1]
          /\ pc'[c] = IF m \in ForceFail THEN "markFailed" ELSE "markDone"
      BY <1>0, <1>7, <2>2 DEF StartProcessingOk, Goto
    <3>2. /\ processed'[m].status = "processing"
          /\ processed'[m].attempts = processed[m].attempts + 1
          /\ attempt'[c] = processed[m].attempts + 1
      BY <1>0, <1>7, <2>2 DEF StartProcessingOk, Started, Row
    <3>3. InStep'
      BY <1>2, <1>4, <3>2 DEF InStep
    <3>4. processed[m].attempts \in Nat /\ notified[m] \in Nat /\ notified'[m] = notified[m] + 1
      BY <1>0, <3>1 DEF Rows
    <3>5. Paid(m)'
      <4>1. m \notin ForceFail => RepeatPaid(m)'
        <5> SUFFICES ASSUME m \notin ForceFail PROVE RepeatPaid(m)'
          OBVIOUS
        <5>1. notified[m] <= faults
          BY <1>3, <1>5, <2>2 DEF Paid, RepeatPaid
        <5>2. ~Owed(m)'
          BY <1>2, <3>1, <3>2 DEF Owed
        <5> QED BY <1>0, <2>0, <3>4, <5>1, <5>2 DEF RepeatPaid
      <4>2. AttemptPaid(m)'
        <5>1. ~Open(m)'
          BY <1>2, <3>1 DEF Open, Busy
        <5>2. MaxAttempts > 0 => processed[m].attempts < MaxAttempts + faults
          BY <1>3, <1>5, <2>2 DEF Paid, AttemptPaid
        <5> QED BY <1>0, <2>0, <3>2, <3>4, <5>1, <5>2, ParametersAssumption DEF AttemptPaid
      <4> QED BY <4>1, <4>2 DEF Paid
    <3>6. ASSUME NEW e \in Events, e # m PROVE Paid(e)'
      <4>1. processed'[e] = processed[e] /\ notified'[e] = notified[e]
        BY <1>0, <2>0, <3>1, <3>6
      <4>2. (Owed(e)' => Owed(e)) /\ (Open(e)' => Open(e))
        BY <1>2, <1>3, <3>6, <4>1 DEF Owed, Open
      <4> QED BY <1>0, <1>5, <2>0, <4>1, <4>2, PaidKept
    <3> QED BY <3>3, <3>5, <3>6 DEF PaidInv
  <2> QED BY <2>1, <2>2
<1> QED BY <1>1, <1>6, <1>7 DEF StartProcessing

(* MarkDone, MarkFailed, the dead letter and MarkDead.                     *)
LEMMA MarkPaid ==
  ASSUME OneConsumer, IInv, PaidInv, TypeOK', TablesGrow, LogGrows,
         NEW c \in Consumers,
         MarkDone(c) \/ MarkFailed(c) \/ PublishDlq(c) \/ MarkDead(c)
  PROVE  PaidInv'
<1>0. /\ pc[c] \in Busy /\ off'[c] = off[c] /\ attempt'[c] = attempt[c] /\ TypeOK
      /\ pc \in [Consumers -> Labels] /\ attempt \in [Consumers -> Nat]
      /\ processed \in [Events -> Rows] /\ faults \in Nat /\ UNCHANGED notified
      /\ faults' = faults \/ faults' = faults + 1
  <2>1. pc[c] \in Busy /\ UNCHANGED <<off, attempt, notified>> /\ TypeOK
    BY DEF IInv, Busy, MarkDone, MarkFailed, PublishDlq, MarkDead, BestEffort
  <2>2. faults' = faults \/ faults' = faults + 1
    BY Zenon DEF MarkDone, MarkFailed, PublishDlq, MarkDead, BestEffort, Fault
  <2>3. /\ pc \in [Consumers -> Labels] /\ attempt \in [Consumers -> Nat]
        /\ processed \in [Events -> Rows] /\ faults \in Nat
    BY <2>1, BoundsAssumption DEF TypeOK
  <2> QED BY <2>1, <2>2, <2>3
<1>1. PICK m \in Messages : m = Value(c)
  BY <1>0, OneHand DEF Busy
<1>2. \A e, P : /\ Value(c)' = m
                /\ Has(P, e) <=> pc[c] \in P /\ m = e
                /\ Has(P, e)' <=> pc'[c] \in P /\ m = e
  BY <1>0, <1>1, OneHand DEF Busy
<1>3. \A d \in Consumers : d = c
  BY DEF OneConsumer
<1>4. \A e \in Events : Paid(e) /\ processed'[e].attempts = processed[e].attempts
  <2>1. \A e \in Events : processed'[e].attempts = processed[e].attempts
    BY <1>0 DEF MarkDone, MarkFailed, PublishDlq, MarkDead, BestEffort, Row
  <2> QED BY <2>1 DEF PaidInv
<1>5. pc[c] \in {"markDone", "markFailed"} => m \in Events /\ attempt[c] = processed[m].attempts
  BY <1>1 DEF PaidInv, InStep, IInv, LoopInv, At
<1>6. ASSUME pc'[c] \in {"markDone", "markFailed"} => pc[c] = "markDone" PROVE InStep'
  BY <1>0, <1>2, <1>3, <1>4, <1>5, <1>6 DEF InStep
<1>7. ASSUME NEW e \in Events, e # m PROVE Paid(e)'
  <2>1. processed'[e] = processed[e]
    BY <1>0, <1>1, <1>7 DEF MarkDone, MarkFailed, PublishDlq, MarkDead, BestEffort
  <2>2. (Owed(e)' => Owed(e)) /\ (Open(e)' => Open(e))
    BY <1>2, <1>7, <2>1 DEF Owed, Open
  <2> QED BY <1>0, <1>4, <2>2, PaidKept
<1>8. ASSUME m \in Events, faults' = faults + 1 PROVE Paid(m)'
  BY <1>0, <1>4, <1>8, PaidKept
<1>9. ASSUME m \in Events, faults' = faults, Owed(m)' => Owed(m), Open(m)' => Open(m) PROVE Paid(m)'
  BY <1>0, <1>4, <1>9, PaidKept
<1>10. CASE MarkDone(c)
  <2>1. pc[c] = "markDone" /\ InStep'
    BY <1>6, <1>10 DEF MarkDone
  <2>2. CASE faults' = faults
    <3>0. ~Fault
      BY <1>0, <2>2 DEF Fault
    <3>1. /\ processed' = [processed EXCEPT ![Value(c)] = Row("done", @.attempts, TRUE)]
          /\ pc' = [pc EXCEPT ![c] = "commit"]
      BY <1>10, <3>0, Zenon DEF MarkDone, Goto
    <3>2. processed'[m].status \in Final
      BY <1>0, <1>1, <1>5, <2>1, <3>1 DEF Final, Row
    <3>3. pc'[c] = "commit"
      BY <1>0, <3>1
    <3>4. ~Owed(m)' /\ ~Open(m)'
      BY <1>2, <3>2, <3>3 DEF Owed, Open
    <3> QED BY <1>7, <1>9, <2>1, <2>2, <3>4 DEF PaidInv
  <2> QED BY <1>0, <1>7, <1>8, <2>1, <2>2 DEF PaidInv
<1>11. CASE MarkFailed(c)
  <2>1. pc[c] = "markFailed" /\ pc'[c] = AfterError(attempt[c]) /\ m \in Events
    BY <1>0, <1>5, <1>11 DEF MarkFailed, Goto
  <2>2. /\ pc'[c] \in {"handle", "dlq", "dead"} /\ InStep'
        /\ pc'[c] = "handle" => ~Exhausted(attempt[c])
    BY <1>6, <2>1 DEF AfterError
  <2>3. Paid(m)'
    <3>1. Owed(m)
      BY <1>2, <2>1 DEF Owed
    <3>2. RepeatPaid(m) => RepeatPaid(m)'
      <4>1. notified[m] \in Nat
        BY <1>0, <2>1 DEF TypeOK
      <4> QED BY <1>0, <3>1, <4>1 DEF RepeatPaid
    <3>3. Open(m)' => ~Exhausted(attempt[c])
      BY <1>2, <2>2 DEF Open, Busy
    <3>4. AttemptPaid(m) => AttemptPaid(m)'
      <4>1. /\ processed[m].attempts \in Nat /\ processed'[m].attempts = processed[m].attempts
            /\ attempt[c] = processed[m].attempts
        BY <1>0, <1>4, <1>5, <2>1 DEF Rows
      <4>2. Open(m)' /\ MaxAttempts > 0 => processed[m].attempts < MaxAttempts
        BY <3>3, <4>1, ParametersAssumption DEF Exhausted
      <4> QED BY <1>0, <4>1, <4>2, ParametersAssumption DEF AttemptPaid
    <3> QED BY <1>4, <2>1, <3>2, <3>4 DEF Paid
  <2> QED BY <1>7, <2>2, <2>3 DEF PaidInv
<1>12. CASE PublishDlq(c)
  <2>1. pc[c] = "dlq" /\ UNCHANGED processed
    BY <1>12 DEF PublishDlq
  <2>2. pc'[c] = IF m \in Garbage THEN "commitDead" ELSE "dead"
    BY <1>0, <1>1, <1>12 DEF PublishDlq, Goto
  <2>3. InStep'
    BY <1>6, <2>2
  <2>4. m \in Events => (Owed(m)' => Owed(m)) /\ (Open(m)' => Open(m))
    BY <1>2, <2>1, <2>2, MessagesAssumption DEF Owed, Open, Busy
  <2> QED BY <1>0, <1>7, <1>8, <1>9, <2>3, <2>4 DEF PaidInv
<1>13. CASE MarkDead(c)
  <2>1. pc[c] = "dead" /\ pc'[c] = "commitDead" /\ m \in Events
    BY <1>0, <1>1, <1>13 DEF MarkDead, Goto, IInv, LoopInv, At
  <2>2. InStep'
    BY <1>6, <2>1
  <2>3. CASE faults' = faults
    <3>1. processed'[m].status \in Final
      BY <1>0, <1>1, <1>13, <2>1, <2>3 DEF MarkDead, BestEffort, Fault, Final, Row
    <3>2. ~Owed(m)' /\ ~Open(m)'
      BY <1>2, <2>1, <3>1 DEF Owed, Open
    <3> QED BY <1>7, <1>9, <2>1, <2>2, <2>3, <3>2 DEF PaidInv
  <2> QED BY <1>0, <1>7, <1>8, <2>2, <2>3 DEF PaidInv
<1> QED BY <1>10, <1>11, <1>12, <1>13

(* Every step of a group of one consumer pays for what it repeats.         *)
LEMMA PaidNext ==
  ASSUME OneConsumer
  PROVE  IInv /\ PaidInv /\ [Next]_vars => PaidInv'
<1> SUFFICES ASSUME IInv, PaidInv, [Next]_vars PROVE PaidInv'
  OBVIOUS
<1>0. TypeOK' /\ TablesGrow /\ LogGrows
  BY StepGrows
<1>t. pc \in [Consumers -> Labels] /\ off \in [Consumers -> Nat] /\ attempt \in [Consumers -> Nat]
  BY DEF IInv, TypeOK
<1>1. ASSUME NEW m \in Messages, AppendMessage(m) PROVE PaidInv'
  BY <1>0, <1>1, QuietStep DEF AppendMessage, local, tables
<1>2. CASE UNCHANGED vars \/ Rebalance \/ Stall
  BY <1>0, <1>2, QuietStep DEF vars, Rebalance, Stall, Fault, local, tables
<1>3. ASSUME NEW c \in Consumers, Assign(c) \/ FetchTimeout(c) \/ FetchFailed(c) PROVE PaidInv'
  <2>1. UNCHANGED <<pc, off, attempt, processed, notified>>
    BY <1>3 DEF Assign, FetchTimeout, FetchFailed, local, tables
  <2>2. faults' = faults \/ faults' = faults + 1
    BY <1>3 DEF Assign, FetchTimeout, FetchFailed, Fault
  <2> QED BY <1>0, <2>1, <2>2, QuietStep
<1>4. ASSUME NEW c \in Consumers, FetchMessage(c) PROVE PaidInv'
  <2>1. /\ pc[c] \notin Busy /\ pc'[c] \notin Busy /\ \A d \in Consumers : d = c
        /\ UNCHANGED <<processed, notified, faults>>
    BY <1>t, <1>4 DEF FetchMessage, Goto, Busy, tables, OneConsumer
  <2> QED BY <1>0, <2>1, QuietStep
<1>5. ASSUME NEW c \in Consumers, Unmarshal(c) PROVE PaidInv'
  <2>1. /\ pc[c] = "handle" /\ off'[c] = off[c] /\ \A d \in Consumers : d = c
        /\ UNCHANGED <<processed, notified, faults>>
    BY <1>5 DEF Unmarshal, tables, OneConsumer
  <2>2. Value(c)' \in Garbage
    BY <1>0, <1>5, <2>1, OneHand DEF Unmarshal
  <2>3. pc'[c] = "dlq" \/ pc'[c] = "commitDead"
    BY <1>t, <1>5 DEF Unmarshal, Goto
  <2> QED BY <1>0, <2>1, <2>2, <2>3, QuietStep DEF Busy
<1>6. ASSUME NEW c \in Consumers, CommitOk(c) \/ CommitError(c) PROVE PaidInv'
  <2>1. /\ pc[c] \notin Busy /\ pc'[c] \notin Busy /\ \A d \in Consumers : d = c
        /\ UNCHANGED <<processed, notified>>
    BY <1>t, <1>6 DEF CommitOk, CommitError, NextMessage, Goto, Busy, tables, OneConsumer
  <2>2. faults' = faults \/ faults' = faults + 1
    BY <1>6 DEF CommitOk, CommitError, Fault
  <2> QED BY <1>0, <2>1, <2>2, QuietStep
<1>7. ASSUME NEW c \in Consumers, Crash(c) PROVE PaidInv'
  <2>1. pc'[c] = "fetch" /\ faults' = faults + 1 /\ UNCHANGED <<processed, notified>>
    BY <1>t, <1>7 DEF Crash, NextMessage, Goto, Fault, tables
  <2>2. InStep'
    BY <2>1 DEF InStep, OneConsumer
  <2>3. ASSUME NEW e \in Events PROVE Paid(e)'
    BY <1>0, <2>1, PaidKept DEF IInv, PaidInv
  <2> QED BY <2>2, <2>3 DEF PaidInv
<1> QED BY <1>0, <1>1, <1>2, <1>3, <1>4, <1>5, <1>6, <1>7, StartPaid, MarkPaid
        DEF Next, ConsumerStep

(* What is paid for holds from the start.                                  *)
LEMMA InitPaid == Init => PaidInv
<1> SUFFICES ASSUME Init PROVE PaidInv
  OBVIOUS
<1>1. InStep
  BY DEF Init, InStep
<1>2. ASSUME NEW e \in Events PROVE Paid(e)
  <2>1. processed[e].attempts = 0 /\ notified[e] = 0 /\ faults = 0
    BY DEF Init, Row
  <2> QED BY <2>1, ParametersAssumption DEF Paid, RepeatPaid, AttemptPaid
<1> QED BY <1>1, <1>2 DEF PaidInv

(* With one consumer an event is notified again only after a crash or an   *)
(* error, however often it is in the topic and however often the group     *)
(* goes back.                                                              *)
THEOREM RepeatsArePaid ==
  ASSUME OneConsumer
  PROVE  Spec => []RepeatsPaidByFaults
<1>1. PaidInv => RepeatsPaidByFaults
  BY DEF PaidInv, Paid, RepeatPaid, RepeatsPaidByFaults
<1> QED BY <1>1, InitPaid, PaidNext, Invariance, PTL DEF Spec

(* With one consumer NOTIFY_MAX_ATTEMPTS is exceeded only by as many       *)
(* attempts as there were crashes and errors.                              *)
THEOREM OverrunsArePaid ==
  ASSUME OneConsumer
  PROVE  Spec => []OverrunPaidByFaults
<1>1. PaidInv => OverrunPaidByFaults
  BY DEF PaidInv, Paid, AttemptPaid, OverrunPaidByFaults
<1> QED BY <1>1, InitPaid, PaidNext, Invariance, PTL DEF Spec

--------------------------------------------------------------------------------
(* Verdicts: which events the service owes one, and the fault that each of *)
(* them has.                                                               *)

(* The row says what became of the event.                                  *)
Judged(e) == processed[e].processedAt \/ processed[e].status = "failed"

(* NOTIFY_MAX_ATTEMPTS is used up.                                         *)
Spent(e) == MaxAttempts > 0 /\ processed[e].attempts >= MaxAttempts

(* A copy of the event is behind the committed offset.                     *)
Behind(e) == \E o \in 0..(committed - 1) : o < Len(log) /\ log[o + 1] = e

(* The attempts are used up and nobody is about to say so in the row.      *)
Left(e) == Spent(e) /\ ~Has(Busy, e)

(* Events without a verdict that were committed, or may be as they are.    *)
Debt == {e \in Events : ~Judged(e) /\ (Behind(e) \/ Left(e))}

(* Only events with their attempts used up are dead-lettered.              *)
LettersSpent == \A e \in Events : dlq[e] # "none" => Spent(e)

(* MarkDone and MarkFailed do not meet a 'failed' row.                     *)
Unfailed ==
  \A c \in Consumers :
     pc[c] \in {"markDone", "markFailed"} => processed[Value(c)].status # "failed"

VerdictInv ==
  /\ LettersSpent /\ Unfailed
  /\ IsFiniteSet(Debt) /\ Cardinality(Debt) <= faults

(* Every step is a fault or leaves their number alone.                     *)
LEMMA FaultsCounted == [Next]_vars => Fault \/ UNCHANGED faults
<1> SUFFICES ASSUME [Next]_vars PROVE Fault \/ UNCHANGED faults
  OBVIOUS
<1>1. ASSUME NEW m \in Messages, AppendMessage(m) PROVE UNCHANGED faults
  BY <1>1 DEF AppendMessage
<1>2. ASSUME UNCHANGED vars \/ Rebalance \/ Stall PROVE Fault \/ UNCHANGED faults
  BY <1>2, Zenon DEF vars, Rebalance, Stall
<1>3. ASSUME NEW c \in Consumers, Assign(c) \/ FetchFailed(c) \/ Crash(c) \/ FetchMessage(c)
      PROVE  Fault \/ UNCHANGED faults
  BY <1>3, Zenon DEF Assign, FetchFailed, Crash, FetchMessage
<1>4. ASSUME NEW c \in Consumers, FetchTimeout(c) \/ CommitOk(c) \/ CommitError(c) \/ Unmarshal(c)
      PROVE  Fault \/ UNCHANGED faults
  BY <1>4, Zenon DEF FetchTimeout, CommitOk, CommitError, Unmarshal
<1>5. ASSUME NEW c \in Consumers, StartProcessing(c) PROVE Fault \/ UNCHANGED faults
  BY <1>5, Zenon DEF StartProcessing, StartProcessingOk, StartProcessingError
<1>6. ASSUME NEW c \in Consumers, MarkDone(c) \/ MarkFailed(c) \/ PublishDlq(c) \/ MarkDead(c)
      PROVE  Fault \/ UNCHANGED faults
  BY <1>6, Zenon DEF MarkDone, MarkFailed, PublishDlq, MarkDead, BestEffort
<1> QED BY <1>1, <1>2, <1>3, <1>4, <1>5, <1>6 DEF Next, ConsumerStep

(* Attempts that are used up stay so.                                      *)
LEMMA SpentGrows ==
  ASSUME TypeOK, TypeOK', TablesGrow, NEW e \in Events, Spent(e)
  PROVE  Spent(e)'
<1>1. /\ processed[e].attempts \in Nat /\ processed'[e].attempts \in Nat
      /\ processed[e].attempts <= processed'[e].attempts
  BY DEF TypeOK, Rows, TablesGrow
<1> QED BY <1>1, ParametersAssumption DEF Spent

(* A consumer that gives up has been told an attempt at the limit.         *)
LEMMA LettersNext ==
  ASSUME IInv, TypeOK', TablesGrow, LettersSpent, [Next]_vars
  PROVE  LettersSpent'
<1> SUFFICES ASSUME NEW e \in Events, dlq'[e] # "none" PROVE Spent(e)'
  BY DEF LettersSpent
<1>1. CASE dlq[e] # "none"
  BY <1>1, SpentGrows DEF LettersSpent, IInv
<1>2. CASE dlq'[e] # dlq[e]
  <2>1. PICK c \in Consumers : PublishDlq(c)
    <3>1. UNCHANGED dlq \/ \E c \in Consumers : PublishDlq(c)
      BY Zenon
         DEF Next, ConsumerStep, vars, tables, AppendMessage, Assign, FetchMessage,
             FetchTimeout, FetchFailed, Unmarshal, StartProcessing, MarkDone, MarkFailed,
             MarkDead, BestEffort, CommitOk, CommitError, Crash, Rebalance, Stall
    <3> QED BY <1>2, <3>1
  <2>2. e = Value(c)
    <3>1. \E letter : dlq' = [dlq EXCEPT ![Value(c)] = letter]
      BY <2>1, Zenon DEF PublishDlq
    <3>2. dlq \in [Messages -> {"none", "lost", "empty", "written"}] /\ e \in Messages
      BY DEF IInv, TypeOK, Messages
    <3> QED BY <1>2, <3>1, <3>2
  <2>3. Exhausted(attempt[c]) /\ attempt[c] <= processed[e].attempts
    BY <2>1, <2>2 DEF IInv, LoopInv, At, PublishDlq
  <2>4. attempt[c] \in Nat /\ processed[e].attempts \in Nat
    BY DEF IInv, TypeOK, Rows
  <2>5. Spent(e)
    BY <2>3, <2>4, ParametersAssumption DEF Exhausted, Spent
  <2> QED BY <2>5, SpentGrows DEF IInv
<1> QED BY <1>1, <1>2

(* The one consumer marks the row it has started.                          *)
LEMMA UnfailedNext ==
  ASSUME OneConsumer, IInv, TypeOK', TablesGrow, LogGrows, Unfailed, [Next]_vars
  PROVE  Unfailed'
<1> SUFFICES ASSUME NEW c \in Consumers, pc'[c] \in {"markDone", "markFailed"}
             PROVE  processed'[Value(c)'].status # "failed"
  BY DEF Unfailed
<1>0. /\ pc \in [Consumers -> Labels] /\ processed \in [Events -> Rows] /\ TypeOK
      /\ \A d \in Consumers : d = c
  BY DEF IInv, TypeOK, OneConsumer
<1>1. ASSUME pc'[c] = pc[c], UNCHANGED <<off, processed>> PROVE processed'[Value(c)'].status # "failed"
  <2>1. Value(c)' = Value(c)
    BY <1>1, OneHand
  <2> QED BY <1>1, <2>1 DEF Unfailed
<1>2. CASE StartProcessing(c)
  <2>1. pc[c] # "fetch" /\ UNCHANGED off /\ Value(c) \in Events
    BY <1>2 DEF StartProcessing
  <2>2. PICK m \in Events : m = Value(c) /\ Value(c)' = m
    BY <2>1, OneHand
  <2>3. StartProcessingOk(c, m)
    <3>1. ~StartProcessingError(c, m)
      <4>1. AfterError(attempt[c]) \in {"handle", "dlq", "dead"}
        BY DEF AfterError
      <4> QED BY <1>0, <4>1 DEF StartProcessingError, Goto
    <3> QED BY <1>2, <2>2, <3>1 DEF StartProcessing
  <2>4. processed[m].status \notin Final
    BY <1>0, <2>3 DEF StartProcessingOk, Goto
  <2>5. processed' = [processed EXCEPT ![m] = Started(processed[m])]
    BY <2>3 DEF StartProcessingOk
  <2>6. processed'[m].status = "processing"
    BY <1>0, <2>4, <2>5 DEF Started, Row
  <2> QED BY <2>2, <2>6
<1>3. CASE MarkDone(c)
  <2>1. pc[c] = "markDone" /\ UNCHANGED off
    BY <1>3 DEF MarkDone
  <2>2. Value(c)' = Value(c)
    BY <2>1, OneHand
  <2>3. processed'[Value(c)] \in {processed[Value(c)], Row("done", processed[Value(c)].attempts, TRUE)}
    BY <1>0, <1>3 DEF MarkDone
  <2>4. Row("done", processed[Value(c)].attempts, TRUE).status = "done"
    BY DEF Row
  <2> QED BY <2>1, <2>2, <2>3, <2>4 DEF Unfailed
<1>4. CASE MarkFailed(c)
  <2>1. pc'[c] = AfterError(attempt[c])
    BY <1>0, <1>4 DEF MarkFailed, Goto
  <2> QED BY <2>1 DEF AfterError
<1>5. CASE FetchMessage(c) \/ Unmarshal(c) \/ PublishDlq(c) \/ MarkDead(c) \/ CommitOk(c)
           \/ CommitError(c) \/ Crash(c)
  BY <1>0, <1>5 DEF FetchMessage, Unmarshal, PublishDlq, MarkDead, CommitOk, CommitError, Crash,
                    NextMessage, Goto
<1>6. CASE Assign(c) \/ FetchFailed(c) \/ FetchTimeout(c)
  BY <1>1, <1>6 DEF Assign, FetchFailed, FetchTimeout, local, tables
<1>7. CASE UNCHANGED vars \/ Rebalance \/ Stall
  BY <1>1, <1>7 DEF vars, Rebalance, Stall, local, tables
<1>8. ASSUME NEW m \in Messages, AppendMessage(m) PROVE processed'[Value(c)'].status # "failed"
  BY <1>1, <1>8 DEF AppendMessage, local, tables
<1> QED BY <1>0, <1>2, <1>3, <1>4, <1>5, <1>6, <1>7, <1>8 DEF Next, ConsumerStep

(* A verdict stands.                                                       *)
LEMMA JudgedGrows ==
  ASSUME IInv, Unfailed, TablesGrow, [Next]_vars, NEW e \in Events, Judged(e)
  PROVE  Judged(e)'
<1> SUFFICES ASSUME processed[e].status = "failed", ~processed[e].processedAt
             PROVE  processed'[e].processedAt \/ processed'[e].status = "failed"
  BY DEF Judged, TablesGrow
<1>0. processed \in [Events -> Rows]
  BY DEF IInv, TypeOK
<1>1. CASE processed'[e] = processed[e]
  BY <1>1
<1>2. ASSUME NEW c \in Consumers, StartProcessing(c) PROVE processed'[e] = processed[e]
  <2>1. \/ UNCHANGED processed
        \/ processed' = [processed EXCEPT ![Value(c)] = Started(@)]
    BY <1>2, Zenon DEF StartProcessing, StartProcessingOk, StartProcessingError
  <2> QED BY <1>0, <2>1 DEF Started, Final
<1>3. ASSUME NEW c \in Consumers, MarkFailed(c) PROVE processed'[e] = processed[e]
  <2>1. Value(c) # e
    BY <1>3 DEF MarkFailed, Unfailed
  <2> QED BY <1>0, <1>3, <2>1 DEF MarkFailed, BestEffort
<1>4. ASSUME NEW c \in Consumers, MarkDone(c) PROVE processed'[e] = processed[e]
  <2>1. Value(c) # e
    BY <1>4 DEF MarkDone, Unfailed
  <2> QED BY <1>0, <1>4, <2>1 DEF MarkDone
<1>5. ASSUME NEW c \in Consumers, MarkDead(c) PROVE processed'[e].status = "failed"
  <2>1. processed'[e] \in {processed[e], Row("failed", processed[e].attempts, processed[e].processedAt)}
    BY <1>0, <1>5 DEF MarkDead, BestEffort
  <2> QED BY <2>1 DEF Row
<1>6. UNCHANGED vars \/ Rebalance \/ Stall => UNCHANGED processed
  BY DEF vars, Rebalance, Stall, tables
<1>7. ASSUME NEW c \in Consumers,
             \/ Assign(c) \/ FetchFailed(c) \/ Crash(c) \/ FetchMessage(c) \/ FetchTimeout(c)
             \/ Unmarshal(c) \/ PublishDlq(c) \/ CommitOk(c) \/ CommitError(c)
      PROVE  UNCHANGED processed
  BY <1>7 DEF Assign, FetchFailed, Crash, FetchMessage, FetchTimeout, Unmarshal, PublishDlq,
              CommitOk, CommitError, tables
<1>8. ASSUME NEW m \in Messages, AppendMessage(m) PROVE UNCHANGED processed
  BY <1>8 DEF AppendMessage, tables
<1> QED BY <1>1, <1>2, <1>3, <1>4, <1>5, <1>6, <1>7, <1>8 DEF Next, ConsumerStep

(* What is accounted for without a verdict has its attempts used up.       *)
LEMMA AccountedIsSpent ==
  ASSUME LettersSpent, NEW e \in Events, Accounted(e), ~Judged(e)
  PROVE  Spent(e)
BY MessagesAssumption DEF LettersSpent, Accounted, Judged, Spent

(* A commit only passes what has a verdict or was left without one before. *)
LEMMA BehindNext ==
  ASSUME OneConsumer, StartFirst, IInv, TypeOK', LogGrows, LettersSpent, [Next]_vars,
         NEW e \in Events, Behind(e)', ~Judged(e)
  PROVE  Behind(e) \/ Left(e)
<1>0. TypeOK /\ Len(log) \in Nat /\ committed \in Int
  <2>1. TypeOK
    BY DEF IInv
  <2>2. committed \in Int
    BY <2>1 DEF TypeOK, None
  <2> QED BY <2>1, <2>2, LogFacts
<1>1. CASE UNCHANGED committed
  <2>1. PICK o \in 0..(committed - 1) : log'[o + 1] = e
    BY <1>1 DEF Behind
  <2>2. committed \in Nat /\ committed # None
    BY <1>0, <2>1 DEF None
  <2>3. committed <= Len(log)
    BY <2>2 DEF IInv, GroupInv, CommittedInv
  <2>4. o < Len(log) /\ o \in 0..(Len(log) - 1)
    BY <1>0, <2>2, <2>3
  <2>5. log[o + 1] = e
    BY <2>1, <2>4 DEF LogGrows
  <2> QED BY <2>1, <2>4, <2>5 DEF Behind
<1>2. ASSUME NEW c \in Consumers, CommitOk(c) \/ CommitError(c), committed' # committed
      PROVE  Left(e)
  <2>1. pc[c] \in {"commit", "commitDead"} /\ committed' = off[c] + 1 /\ UNCHANGED log
    BY <1>2 DEF CommitOk, CommitError
  <2>2. PICK n \in Nat : n = off[c]
    BY <1>0 DEF TypeOK
  <2>3. Below(n) /\ Accounted(log[n + 1])
    BY <2>1, <2>2 DEF IInv, LoopInv, At, Value
  <2>4. PICK o \in 0..n : log[o + 1] = e
    BY <2>1, <2>2 DEF Behind
  <2>5. Accounted(e)
    <3>1. o = n \/ o \in 0..(n - 1)
      OBVIOUS
    <3> QED BY <2>3, <2>4, <3>1 DEF Below
  <2>6. ~Has(Busy, e)
    BY <2>1 DEF Has, Busy, OneConsumer
  <2> QED BY <2>5, <2>6, AccountedIsSpent DEF Left
<1>3. UNCHANGED committed \/ \E c \in Consumers : CommitOk(c) \/ CommitError(c)
  BY Zenon
     DEF Next, ConsumerStep, vars, AppendMessage, Assign, FetchMessage, FetchTimeout,
         FetchFailed, Unmarshal, StartProcessing, MarkDone, MarkFailed, MarkDead, PublishDlq,
         BestEffort, Crash, Rebalance, Stall, Release, kafka
<1> QED BY <1>1, <1>2, <1>3

(* Events with their attempts used up are left without a verdict only by   *)
(* a fault, and only the one in hand.                                      *)
LEMMA LeftNext ==
  ASSUME OneConsumer, IInv, InStep, TypeOK', TablesGrow, LogGrows, [Next]_vars,
         NEW e \in Events, Left(e)', ~Judged(e)'
  PROVE  Left(e) \/ (Fault /\ \E c \in Consumers : e = Value(c))
<1> DEFINE Goal == Left(e) \/ (Fault /\ \E c \in Consumers : e = Value(c))
<1> SUFFICES Goal
  OBVIOUS
<1>0. /\ pc \in [Consumers -> Labels] /\ processed \in [Events -> Rows] /\ TypeOK
      /\ processed[e] \in Rows
  BY DEF IInv, TypeOK
<1>1. ASSUME processed'[e] = processed[e], Has(Busy, e) => Has(Busy, e)' PROVE Goal
  BY <1>1 DEF Left, Spent
<1>2. ASSUME UNCHANGED <<pc, off, processed>> PROVE Goal
  <2>1. Has(Busy, e) => Has(Busy, e)'
    BY <1>2, OneHand DEF Has, Busy
  <2> QED BY <1>1, <1>2, <2>1
<1>3. ASSUME NEW c \in Consumers, pc[c] \notin Busy, processed'[e] = processed[e] PROVE Goal
  <2>1. ~Has(Busy, e)
    BY <1>3 DEF Has, OneConsumer
  <2> QED BY <1>1, <1>3, <2>1
<1>4. ASSUME NEW c \in Consumers, StartProcessing(c) PROVE Goal
  <2>0. pc[c] = "handle" /\ off'[c] = off[c] /\ Value(c) \in Events
    BY <1>4 DEF StartProcessing
  <2>1. PICK m \in Events : m = Value(c)
    BY <2>0
  <2>2. \/ UNCHANGED processed
        \/ processed' = [processed EXCEPT ![m] = Started(processed[m])]
    BY <1>4, <2>1, Zenon DEF StartProcessing, StartProcessingOk, StartProcessingError
  <2>3. CASE processed'[e] = processed[e]
    BY <1>3, <2>0, <2>3 DEF Busy
  <2>4. CASE processed'[e] # processed[e]
    <3>1. e = m /\ processed[m].status \notin Final
      BY <1>0, <2>2, <2>4 DEF Started
    <3>2. CASE StartProcessingError(c, m)
      <4>1. Fault
        BY <2>4, <3>2, Zenon DEF StartProcessingError
      <4> QED BY <2>1, <3>1, <4>1
    <3>3. CASE StartProcessingOk(c, m)
      <4>1. pc'[c] \in Busy
        BY <1>0, <3>1, <3>3 DEF StartProcessingOk, Goto, Busy
      <4>2. Has(Busy, e)'
        BY <2>0, <2>1, <3>1, <4>1, OneHand
      <4> QED BY <4>2 DEF Left
    <3> QED BY <1>4, <2>1, <3>2, <3>3 DEF StartProcessing
  <2> QED BY <2>3, <2>4
<1>5. ASSUME NEW c \in Consumers, MarkDone(c) \/ MarkFailed(c) \/ PublishDlq(c) \/ MarkDead(c)
      PROVE  Goal
  <2>0. pc[c] \in Busy /\ pc[c] # "fetch" /\ off'[c] = off[c]
    BY <1>5 DEF MarkDone, MarkFailed, PublishDlq, MarkDead, BestEffort, Busy
  <2>1. PICK m : m = Value(c)
    OBVIOUS
  <2>2. /\ Has(Busy, e) <=> m = e
        /\ Has(Busy, e)' <=> pc'[c] \in Busy /\ m = e
    BY <2>0, <2>1, OneHand
  <2>3. CASE m # e
    <3>1. processed'[e] = processed[e]
      BY <1>0, <1>5, <2>1, <2>3 DEF MarkDone, MarkFailed, PublishDlq, MarkDead, BestEffort
    <3> QED BY <1>1, <2>2, <2>3, <3>1
  <2>4. CASE m = e
    <3>0. pc'[c] \notin Busy
      BY <2>2, <2>4 DEF Left
    <3>1. CASE MarkDone(c)
      <4>1. \/ pc' = [pc EXCEPT ![c] = "markFailed"]
            \/ processed' = [processed EXCEPT ![e] = Row("done", @.attempts, TRUE)]
        BY <2>1, <2>4, <3>1, Zenon DEF MarkDone, Goto
      <4>2. processed'[e].processedAt
        BY <1>0, <3>0, <4>1 DEF Busy, Row
      <4> QED BY <4>2 DEF Judged
    <3>2. CASE MarkFailed(c)
      <4>1. pc[c] = "markFailed" /\ pc'[c] = AfterError(attempt[c])
        BY <1>0, <3>2 DEF MarkFailed, Goto
      <4>2. ~Exhausted(attempt[c])
        BY <3>0, <4>1 DEF AfterError, Busy
      <4>3. attempt[c] = processed[e].attempts
        BY <2>1, <2>4, <4>1 DEF InStep
      <4>4. processed'[e].attempts = processed[e].attempts
        BY <1>0, <2>1, <2>4, <3>2 DEF MarkFailed, BestEffort, Row
      <4> QED BY <4>2, <4>3, <4>4 DEF Left, Spent, Exhausted
    <3>3. CASE PublishDlq(c)
      <4>1. e \notin Garbage
        BY MessagesAssumption
      <4> QED BY <1>0, <2>1, <2>4, <3>0, <3>3, <4>1 DEF PublishDlq, Goto, Busy
    <3>4. CASE MarkDead(c)
      <4>1. \/ Fault
            \/ processed' = [processed EXCEPT ![e] =
                               Row("failed", processed[e].attempts, processed[e].processedAt)]
        BY <2>1, <2>4, <3>4, Zenon DEF MarkDead, BestEffort
      <4>2. CASE ~Fault
        <5>1. processed'[e].status = "failed"
          BY <1>0, <4>1, <4>2 DEF Row
        <5> QED BY <5>1 DEF Judged
      <4> QED BY <2>1, <2>4, <4>2
    <3> QED BY <1>5, <3>1, <3>2, <3>3, <3>4
  <2> QED BY <2>3, <2>4
<1>6. ASSUME NEW c \in Consumers, Crash(c) PROVE Goal
  <2>1. Fault /\ UNCHANGED processed
    BY <1>6 DEF Crash, tables
  <2>2. CASE e = Value(c)
    BY <2>1, <2>2
  <2>3. CASE e # Value(c)
    <3>1. ~Has(Busy, e)
      BY <2>3 DEF Has, OneConsumer
    <3> QED BY <1>1, <2>1, <3>1
  <2> QED BY <2>2, <2>3
<1>7. ASSUME NEW c \in Consumers, FetchMessage(c) \/ Unmarshal(c) \/ CommitOk(c) \/ CommitError(c)
      PROVE  Goal
  <2>1. pc[c] \notin Busy /\ UNCHANGED processed
    BY <1>7 DEF FetchMessage, Unmarshal, CommitOk, CommitError, Busy, tables
  <2> QED BY <1>3, <2>1
<1>8. ASSUME NEW c \in Consumers, Assign(c) \/ FetchFailed(c) \/ FetchTimeout(c) PROVE Goal
  BY <1>2, <1>8 DEF Assign, FetchFailed, FetchTimeout, local, tables
<1>9. CASE UNCHANGED vars \/ Rebalance \/ Stall
  BY <1>2, <1>9 DEF vars, Rebalance, Stall, local, tables
<1>10. ASSUME NEW m \in Messages, AppendMessage(m) PROVE Goal
  BY <1>2, <1>10 DEF AppendMessage, local, tables
<1> QED BY <1>4, <1>5, <1>6, <1>7, <1>8, <1>9, <1>10 DEF Next, ConsumerStep

(* The debt grows by one event at most, and only with a fault.             *)
LEMMA DebtNext ==
  ASSUME OneConsumer, StartFirst, IInv, InStep, LettersSpent, Unfailed,
         TypeOK', TablesGrow, LogGrows, [Next]_vars,
         NEW e \in Debt'
  PROVE  e \in Debt \/ (Fault /\ \E c \in Consumers : e = Value(c))
<1>1. e \in Events /\ ~Judged(e)' /\ (Behind(e)' \/ Left(e)')
  BY DEF Debt
<1>2. ~Judged(e)
  BY <1>1, JudgedGrows
<1>3. Behind(e)' => Behind(e) \/ Left(e)
  BY <1>1, <1>2, BehindNext
<1>4. Left(e)' => Left(e) \/ (Fault /\ \E c \in Consumers : e = Value(c))
  BY <1>1, LeftNext
<1> QED BY <1>1, <1>2, <1>3, <1>4 DEF Debt

(* One element more in a set is at most one more in its cardinality.       *)
LEMMA OneMore ==
  ASSUME NEW S, IsFiniteSet(S), NEW x, NEW T, T \subseteq S \cup {x}
  PROVE  IsFiniteSet(T) /\ Cardinality(T) <= Cardinality(S) + 1
<1>1. PICK U : U = S \cup {x}
  OBVIOUS
<1>2. IsFiniteSet(U) /\ Cardinality(U) \in {Cardinality(S), Cardinality(S) + 1}
  BY <1>1, FS_AddElement
<1>3. IsFiniteSet(T) /\ Cardinality(T) <= Cardinality(U)
  BY <1>1, <1>2, FS_Subset
<1>4. Cardinality(S) \in Nat /\ Cardinality(T) \in Nat /\ Cardinality(U) \in Nat
  BY <1>2, <1>3, FS_CardinalityType
<1> QED BY <1>2, <1>3, <1>4

(* Every step pays for the events it leaves without a verdict.             *)
LEMMA VerdictNext ==
  ASSUME OneConsumer, StartFirst
  PROVE  IInv /\ PaidInv /\ VerdictInv /\ [Next]_vars => VerdictInv'
<1> SUFFICES ASSUME IInv, PaidInv, VerdictInv, [Next]_vars PROVE VerdictInv'
  OBVIOUS
<1>0. TypeOK' /\ TablesGrow /\ LogGrows /\ faults \in Nat
  BY StepGrows, BoundsAssumption DEF IInv, TypeOK
<1>1. LettersSpent /\ Unfailed /\ InStep
  BY DEF VerdictInv, PaidInv
<1>2. LettersSpent' /\ Unfailed'
  BY <1>0, <1>1, LettersNext, UnfailedNext
<1>3. PICK D, E : D = Debt /\ E = Debt'
  OBVIOUS
<1>4. IsFiniteSet(D) /\ Cardinality(D) <= faults /\ Cardinality(D) \in Nat
  BY <1>3, FS_CardinalityType DEF VerdictInv
<1>5. \A e \in E : e \in D \/ (Fault /\ \E c \in Consumers : e = Value(c))
  BY <1>0, <1>1, <1>3, DebtNext
<1>6. CASE Fault
  <2>1. faults' = faults + 1
    BY <1>6 DEF Fault
  <2>2. \E x : E \subseteq D \cup {x}
    BY <1>5 DEF OneConsumer
  <2>3. IsFiniteSet(E) /\ Cardinality(E) <= Cardinality(D) + 1
    BY <1>4, <2>2, OneMore
  <2>4. Cardinality(E) \in Nat
    BY <2>3, FS_CardinalityType
  <2>5. Cardinality(E) <= faults'
    BY <1>0, <1>4, <2>1, <2>3, <2>4
  <2> QED BY <1>2, <1>3, <2>3, <2>5 DEF VerdictInv
<1>7. CASE ~Fault
  <2>1. UNCHANGED faults
    BY <1>7, FaultsCounted
  <2>2. E \subseteq D
    BY <1>5, <1>7
  <2>3. IsFiniteSet(E) /\ Cardinality(E) <= Cardinality(D)
    BY <1>4, <2>2, FS_Subset
  <2>4. Cardinality(E) \in Nat
    BY <2>3, FS_CardinalityType
  <2>5. Cardinality(E) <= faults'
    BY <1>0, <1>4, <2>1, <2>3, <2>4
  <2> QED BY <1>2, <1>3, <2>3, <2>5 DEF VerdictInv
<1> QED BY <1>6, <1>7

(* Nothing is owed at the start.                                           *)
LEMMA InitVerdict == Init => VerdictInv
<1> SUFFICES ASSUME Init PROVE VerdictInv
  OBVIOUS
<1>1. LettersSpent /\ Unfailed
  BY DEF Init, LettersSpent, Unfailed, Messages
<1>2. Debt = {}
  <2>1. ASSUME NEW e \in Events PROVE ~Behind(e) /\ ~Spent(e)
    <3>1. processed[e].attempts = 0 /\ committed = -1
      BY DEF Init, Row, None
    <3> QED BY <3>1, ParametersAssumption DEF Behind, Spent
  <2> QED BY <2>1 DEF Debt, Left
<1>3. IsFiniteSet(Debt) /\ Cardinality(Debt) = 0
  BY <1>2, FS_EmptySet
<1> QED BY <1>1, <1>3 DEF Init, VerdictInv

(* A group of one consumer that starts at the first message: every event   *)
(* that is committed while processed_events says neither 'done' nor        *)
(* 'failed' of it has a fault of its own.  Neither duplicates in the topic *)
(* nor rebalances nor faults met by other events add to their number.      *)
THEOREM VerdictsArePaid ==
  ASSUME OneConsumer, StartFirst
  PROVE  Spec => []VerdictsPaidByFaults
<1>1. IInv /\ VerdictInv => VerdictsPaidByFaults
  <2> SUFFICES ASSUME IInv, VerdictInv PROVE Cardinality(PassedUnjudged) <= faults
    BY DEF VerdictsPaidByFaults
  <2>1. PassedUnjudged \subseteq Debt
    <3> SUFFICES ASSUME NEW e \in PassedUnjudged PROVE e \in Debt
      OBVIOUS
    <3>1. e \in Events /\ ~Judged(e) /\ \E o \in Passed : log[o + 1] = e
      BY DEF PassedUnjudged, Judged
    <3>2. PICK o \in 0..(Len(log) - 1) : o < committed /\ log[o + 1] = e
      BY <3>1 DEF Passed
    <3>3. Len(log) \in Nat /\ committed \in Int
      BY LogFacts DEF IInv, TypeOK, None
    <3>4. o \in 0..(committed - 1) /\ o < Len(log)
      BY <3>2, <3>3
    <3>5. Behind(e)
      BY <3>2, <3>4 DEF Behind
    <3> QED BY <3>1, <3>5 DEF Debt
  <2>2. PICK D, P : D = Debt /\ P = PassedUnjudged
    OBVIOUS
  <2>3. IsFiniteSet(D) /\ Cardinality(D) <= faults /\ faults \in Nat
    BY <2>2, BoundsAssumption DEF VerdictInv, IInv, TypeOK
  <2>4. IsFiniteSet(P) /\ Cardinality(P) <= Cardinality(D)
    BY <2>1, <2>2, <2>3, FS_Subset
  <2>5. Cardinality(P) \in Nat /\ Cardinality(D) \in Nat
    BY <2>3, <2>4, FS_CardinalityType
  <2> QED BY <2>2, <2>3, <2>4, <2>5
<1> QED BY <1>1, InitVerdict, InitPaid, PaidNext, VerdictNext, Invariance, PTL DEF Spec
=================================================================================
