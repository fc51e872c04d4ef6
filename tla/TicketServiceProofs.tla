-------------------------- MODULE TicketServiceProofs --------------------------
(***************************************************************************)
(* Proofs about TicketService for any number of clients, tries,            *)
(* connections and faults, and any requests.                               *)
(***************************************************************************)
EXTENDS TicketService, FiniteSetTheorems, TLAPS

(* What is known at each place of a handler: what its transaction has      *)
(* written, and that its ticket is stored only by its last step.           *)
At(r) ==
  /\ pc[r] = "memory" => storage = "memory"
  /\ pc[r] \in {"begin", "insertTicket", "insertOutbox", "commit"} => storage = "postgres"
  /\ pc[r] \in {"unsent", "begin", "insertTicket"} => tx[r] = {}
  /\ pc[r] = "insertOutbox" => tx[r] = {"tickets"}
  /\ pc[r] = "commit" => tx[r] = {"tickets", "outbox"}
  /\ pc[r] = "reply" <=> answer[r] # "none"
  /\ r \in tickets => pc[r] \in {"reply", "done"}
  /\ pc[r] # "done" => heard[r] \in {"none", "lost"}

(* A COMMIT nobody waits for is one of a complete transaction.             *)
Orphan(r) ==
  r \in orphans =>
    /\ storage = "postgres" /\ pc[r] \in {"reply", "done"}
    /\ tx[r] = {"tickets", "outbox"} /\ r \notin tickets

(* What is said of a ticket, or about to be said, is true.                 *)
Truthful(r) ==
  /\ answer[r] = "created" => r \in tickets
  /\ heard[r] = "created" => r \in tickets \/ (storage = "memory" /\ restarted)

Control == \A r \in Requests : At(r) /\ Orphan(r) /\ Truthful(r)

(* The inductive invariant.                                                *)
IInv == TypeOK /\ Control /\ OutboxMatchesTickets

--------------------------------------------------------------------------------
(* The inductive invariant holds at the first start.                       *)
LEMMA InitIInv == Init => IInv
<1> SUFFICES ASSUME Init PROVE IInv
  OBVIOUS
<1> USE DEF Init
<1>1. TypeOK
  <2>1. restarted \in BOOLEAN
    BY Zenon
  <2> QED BY <2>1, BoundsAssumption DEF TypeOK, Labels, Answers
<1>2. Control
  BY DEF Control, At, Orphan, Truthful
<1> QED BY <1>1, <1>2 DEF IInv, OutboxMatchesTickets

(* A request is answered at once or goes on to the store.                  *)
LEMMA DecodeType ==
  ASSUME NEW b
  PROVE  Decode(b) \in {"none", "method_not_allowed", "validation_error"}
BY DEF Decode

(* Type correctness.                                                       *)
LEMMA TypeNext == TypeOK /\ [Next]_vars => TypeOK'
<1> SUFFICES ASSUME TypeOK, [Next]_vars PROVE TypeOK'
  OBVIOUS
<1> USE BoundsAssumption DEF TypeOK, Labels, Answers, process, store
<1>1. ASSUME NEW r \in Requests, CreateTicket(r) PROVE TypeOK'
  BY <1>1, DecodeType DEF CreateTicket, Respond
<1>2. ASSUME NEW r \in Requests, MemoryCreate(r) PROVE TypeOK'
  BY <1>2 DEF MemoryCreate, Respond
<1>3. ASSUME NEW r \in Requests, BeginTx(r) PROVE TypeOK'
  BY <1>3 DEF BeginTx, Proceed
<1>4. ASSUME NEW r \in Requests, InsertTicket(r) PROVE TypeOK'
  BY <1>4 DEF InsertTicket, Proceed
<1>5. ASSUME NEW r \in Requests, InsertOutbox(r) PROVE TypeOK'
  BY <1>5 DEF InsertOutbox, Proceed
<1>6. ASSUME NEW r \in Requests, TxFails(r) PROVE TypeOK'
  BY <1>6 DEF TxFails, Rollback, Respond, CallFails, Fault
<1>7. ASSUME NEW r \in Requests, Commit(r) PROVE TypeOK'
  BY <1>7 DEF Commit, Respond, Apply
<1>8. ASSUME NEW r \in Requests, CommitFails(r) PROVE TypeOK'
  BY <1>8 DEF CommitFails, Rollback, Respond, CallFails, Fault
<1>9. ASSUME NEW r \in Requests, Reply(r) PROVE TypeOK'
  BY <1>9 DEF Reply, Fault
<1>10. ASSUME NEW r \in Requests, OrphanEnds(r) PROVE TypeOK'
  BY <1>10 DEF OrphanEnds, Apply
<1>11. ASSUME NEW r \in Requests, ClientLeaves(r) PROVE TypeOK'
  BY <1>11 DEF ClientLeaves, Fault
<1>12. ASSUME NEW r \in Requests, GetTicket(r) PROVE TypeOK'
  BY <1>12 DEF GetTicket, MemoryGet, PostgresGet, Lookup, Fault
<1>13. CASE Start \/ Sigterm
  BY <1>13 DEF Start, Sigterm
<1>14. CASE Drained
  BY <1>14 DEF Drained, Exit
<1>16. CASE ShutdownTimesOut
  BY <1>16 DEF ShutdownTimesOut, Exit
<1>17. CASE Killed
  BY <1>17 DEF Killed, Exit, Fault
<1>15. CASE UNCHANGED vars
  BY <1>15 DEF vars
<1> QED
  BY <1>1, <1>2, <1>3, <1>4, <1>5, <1>6, <1>7, <1>8, <1>9, <1>10, <1>11, <1>12,
     <1>13, <1>14, <1>15, <1>16, <1>17 DEF Next, HandlerStep

(* Each step leaves what is known of every handler true: a handler writes  *)
(* to its own transaction only, and tickets go only with the memory.       *)
LEMMA ControlNext == TypeOK /\ Control /\ [Next]_vars => Control'
<1> SUFFICES ASSUME TypeOK, Control, [Next]_vars, NEW q \in Requests
             PROVE  (At(q) /\ Orphan(q) /\ Truthful(q))'
  BY DEF Control
<1>t. /\ pc \in [Requests -> Labels]
      /\ answer \in [Requests -> Answers \cup {"none"}]
      /\ heard \in [Requests -> Answers \cup {"none", "lost"}]
      /\ tx \in [Requests -> SUBSET {"tickets", "outbox"}]
      /\ storage \in {"postgres", "memory"} /\ restarted \in BOOLEAN
  BY DEF TypeOK
<1>i. /\ At(q) /\ Orphan(q) /\ Truthful(q)
      /\ \A r \in Requests : At(r) /\ Orphan(r) /\ Truthful(r)
  BY DEF Control
<1> DEFINE Goal == At(q) /\ Orphan(q) /\ Truthful(q)
<1> USE <1>t, <1>i DEF At, Orphan, Truthful, Answers, process, store
<1>1. ASSUME NEW r \in Requests, CreateTicket(r) PROVE Goal'
  BY <1>1, DecodeType DEF CreateTicket, Respond
<1>2. ASSUME NEW r \in Requests, MemoryCreate(r) PROVE Goal'
  BY <1>2 DEF MemoryCreate, Respond
<1>3. ASSUME NEW r \in Requests, BeginTx(r) PROVE Goal'
  BY <1>3 DEF BeginTx, Proceed
<1>4. ASSUME NEW r \in Requests, InsertTicket(r) PROVE Goal'
  BY <1>4 DEF InsertTicket, Proceed
<1>5. ASSUME NEW r \in Requests, InsertOutbox(r) PROVE Goal'
  BY <1>5 DEF InsertOutbox, Proceed
<1>6. ASSUME NEW r \in Requests, TxFails(r) PROVE Goal'
  BY <1>6 DEF TxFails, Rollback, Respond
<1>7. ASSUME NEW r \in Requests, Commit(r) PROVE Goal'
  BY <1>7 DEF Commit, Respond, Apply
<1>8. ASSUME NEW r \in Requests, CommitFails(r) PROVE Goal'
  BY <1>8 DEF CommitFails, Rollback, Respond
<1>9. ASSUME NEW r \in Requests, Reply(r) PROVE Goal'
  BY <1>9 DEF Reply, Gone
<1>10. ASSUME NEW r \in Requests, OrphanEnds(r) PROVE Goal'
  BY <1>10 DEF OrphanEnds, Apply
<1>11. ASSUME NEW r \in Requests, ClientLeaves(r) PROVE Goal'
  BY <1>11 DEF ClientLeaves, Active, Gone
<1>12. ASSUME NEW r \in Requests, GetTicket(r) PROVE Goal'
  BY <1>12 DEF GetTicket
<1>13. CASE Start \/ Sigterm
  BY <1>13 DEF Start, Sigterm
<1>14. CASE Exit
  BY <1>14 DEF Exit, Active
<1>15. CASE UNCHANGED vars
  BY <1>15 DEF vars
<1> QED
  BY <1>1, <1>2, <1>3, <1>4, <1>5, <1>6, <1>7, <1>8, <1>9, <1>10, <1>11, <1>12,
     <1>13, <1>14, <1>15 DEF Next, HandlerStep, Drained, ShutdownTimesOut, Killed

(* Tickets and outbox rows become visible together, as COMMIT is the only  *)
(* step that makes them so and finds both in the transaction.              *)
LEMMA OutboxNext ==
  TypeOK /\ Control /\ OutboxMatchesTickets /\ [Next]_vars => OutboxMatchesTickets'
<1> SUFFICES ASSUME TypeOK, Control, OutboxMatchesTickets, [Next]_vars
             PROVE  OutboxMatchesTickets'
  OBVIOUS
<1>i. \A r \in Requests : At(r) /\ Orphan(r)
  BY DEF Control
<1> USE DEF OutboxMatchesTickets, process, store
<1>1. ASSUME NEW r \in Requests, MemoryCreate(r) PROVE OutboxMatchesTickets'
  BY <1>1, <1>i DEF MemoryCreate, At
<1>2. ASSUME NEW r \in Requests, Commit(r) PROVE OutboxMatchesTickets'
  BY <1>2, <1>i DEF Commit, Apply, At
<1>3. ASSUME NEW r \in Requests, OrphanEnds(r) PROVE OutboxMatchesTickets'
  BY <1>3, <1>i DEF OrphanEnds, Apply, Orphan
<1>4. CASE Exit
  BY <1>4 DEF Exit
<1>5. ASSUME UNCHANGED <<storage, tickets, events>> PROVE OutboxMatchesTickets'
  BY <1>5
<1>6. ASSUME NEW r \in Requests,
             \/ CreateTicket(r) \/ BeginTx(r) \/ InsertTicket(r) \/ InsertOutbox(r)
             \/ TxFails(r) \/ CommitFails(r) \/ Reply(r) \/ ClientLeaves(r) \/ GetTicket(r)
      PROVE  UNCHANGED <<storage, tickets, events>>
  BY <1>6 DEF CreateTicket, BeginTx, InsertTicket, InsertOutbox, Proceed, TxFails,
              CommitFails, Rollback, Reply, ClientLeaves, GetTicket
<1>7. Start \/ Sigterm \/ UNCHANGED vars => UNCHANGED <<storage, tickets, events>>
  BY DEF Start, Sigterm, vars
<1> QED
  BY <1>1, <1>2, <1>3, <1>4, <1>5, <1>6, <1>7 DEF Next, HandlerStep, Drained, ShutdownTimesOut, Killed

(* The inductive invariant holds throughout.                               *)
THEOREM Invariance == Spec => []IInv
<1>1. IInv /\ [Next]_vars => IInv'
  BY TypeNext, ControlNext, OutboxNext DEF IInv
<1> QED BY InitIInv, <1>1, PTL DEF Spec

(* Type correctness.                                                       *)
THEOREM TypeCorrect == Spec => []TypeOK
<1>1. IInv => TypeOK
  BY DEF IInv
<1> QED BY <1>1, Invariance, PTL

(* Create's transaction: with PostgreSQL the tickets are exactly those     *)
(* whose event is in the outbox, whatever fails and whoever dies.          *)
THEOREM TransactionalOutbox == Spec => []OutboxMatchesTickets
<1>1. IInv => OutboxMatchesTickets
  BY DEF IInv
<1> QED BY <1>1, Invariance, PTL

(* 201 is only sent for a ticket that is stored, and PostgreSQL keeps it.  *)
THEOREM CreatedStays == Spec => []CreatedIsStored
<1>1. IInv => CreatedIsStored
  BY DEF IInv, Control, Truthful, CreatedIsStored
<1> QED BY <1>1, Invariance, PTL

--------------------------------------------------------------------------------
(* Every step of ticket-service is one of TicketStore or invisible there.  *)
LEMMA StoreStep ==
  IInv /\ [Next]_vars => [AbstractStore!Next]_(AbstractStore!vars)
<1> SUFFICES ASSUME IInv, [Next]_vars PROVE [AbstractStore!Next]_(AbstractStore!vars)
  OBVIOUS
<1>t. /\ pc \in [Requests -> Labels]
      /\ answer \in [Requests -> Answers \cup {"none"}]
      /\ heard \in [Requests -> Answers \cup {"none", "lost"}]
  BY DEF IInv, TypeOK
<1>i. \A r \in Requests : At(r) /\ Orphan(r) /\ Truthful(r)
  BY DEF IInv, Control
<1> USE DEF process, store
<1>1. ASSUME NEW r \in Requests, MemoryCreate(r) PROVE AbstractStore!Accept(r)
  BY <1>1, <1>i, <1>t DEF MemoryCreate, At, AbstractStore!Accept
<1>2. ASSUME NEW r \in Requests, Commit(r) PROVE AbstractStore!Accept(r)
  BY <1>2, <1>i, <1>t DEF Commit, Apply, At, AbstractStore!Accept
<1>3. ASSUME NEW r \in Requests, OrphanEnds(r)
      PROVE  AbstractStore!Accept(r) \/ UNCHANGED <<storage, tickets, events, heard, found>>
  BY <1>3, <1>i, <1>t DEF OrphanEnds, Apply, Orphan, AbstractStore!Accept
<1>4. ASSUME NEW r \in Requests, Reply(r)
      PROVE  AbstractStore!Tell(r) \/ UNCHANGED <<storage, tickets, events, heard, found>>
  <2>0. UNCHANGED <<storage, tickets, events, found>>
    BY <1>4 DEF Reply
  <2>1. CASE Gone(r)
    BY <2>0, <2>1, <1>4, <1>t DEF Reply, Gone
  <2>2. CASE ~Gone(r)
    <3>1. heard[r] = "none" /\ answer[r] \in Answers
      BY <2>2, <1>4, <1>i, <1>t DEF Reply, At, Gone
    <3>2. answer[r] = "created" => r \in tickets
      BY <1>i DEF Truthful
    <3>3. heard' = [heard EXCEPT ![r] = answer[r]] \/ heard' = [heard EXCEPT ![r] = "lost"]
      BY <2>2, <1>4 DEF Reply
    <3> QED BY <2>0, <3>1, <3>2, <3>3 DEF AbstractStore!Tell
  <2> QED BY <2>1, <2>2
<1>5. ASSUME NEW r \in Requests, ClientLeaves(r) PROVE AbstractStore!Tell(r)
  <2>1. heard[r] = "none"
    BY <1>5, <1>i, <1>t DEF ClientLeaves, Active, Gone, At
  <2> QED BY <2>1, <1>5 DEF ClientLeaves, AbstractStore!Tell
<1>6. CASE Exit
  <2> DEFINE S == {r \in Requests : Active(r) /\ heard[r] = "none"}
  <2>1. S \in SUBSET {r \in Requests : heard[r] = "none"}
    OBVIOUS
  <2>2. \A r \in Requests : Active(r) => heard[r] \in {"none", "lost"}
    BY <1>i DEF At, Active
  <2>3. heard' = [r \in Requests |-> IF r \in S THEN "lost" ELSE heard[r]]
    BY <1>6, <2>2 DEF Exit
  <2>4. tickets' = (IF storage = "postgres" THEN tickets ELSE {}) /\ UNCHANGED <<storage, events, found>>
    BY <1>6 DEF Exit
  <2> QED BY <2>1, <2>3, <2>4 DEF AbstractStore!Next, AbstractStore!End
<1>7. ASSUME NEW r \in Requests,
             \/ CreateTicket(r) \/ BeginTx(r) \/ InsertTicket(r) \/ InsertOutbox(r)
             \/ TxFails(r) \/ CommitFails(r)
      PROVE  UNCHANGED <<storage, tickets, events, heard, found>>
  BY <1>7 DEF CreateTicket, BeginTx, InsertTicket, InsertOutbox, Proceed, TxFails,
              CommitFails, Rollback
<1>9. ASSUME NEW r \in Requests, GetTicket(r) PROVE AbstractStore!Get(r)
  BY <1>9 DEF GetTicket, MemoryGet, PostgresGet, Lookup, AbstractStore!Get
<1>8. Start \/ Sigterm \/ UNCHANGED vars => UNCHANGED <<storage, tickets, events, heard, found>>
  BY DEF Start, Sigterm, vars
<1> QED
  BY <1>1, <1>2, <1>3, <1>4, <1>5, <1>6, <1>7, <1>8, <1>9
     DEF Next, HandlerStep, Drained, ShutdownTimesOut, Killed, AbstractStore!Next, AbstractStore!vars

(* ticket-service implements TicketStore: seen from outside, a ticket and  *)
(* its event appear at once, and only what is stored is promised.          *)
THEOREM StoreRefinement == Spec => ImplementsTicketStore
<1>1. Init => AbstractStore!Init
  BY DEF Init, AbstractStore!Init
<1> QED
  BY <1>1, StoreStep, Invariance, PTL DEF Spec, ImplementsTicketStore, AbstractStore!Spec

--------------------------------------------------------------------------------
(* A try its client has reason to repeat: it was answered with an error,   *)
(* or is about to be, or its answer is lost.                               *)
Failed(r) == heard[r] \in {"lost", "internal_error"} \/ answer[r] = "internal_error"

(* The n-th try comes after n - 1 faults or shutdowns that timed out, and  *)
(* its failure is one more: a client repeats a request only when the last  *)
(* one has failed.                                                         *)
Paid(r) ==
  /\ pc[r] # "unsent" => r[2] <= faults + timeouts + 1
  /\ Failed(r) => r[2] <= faults + timeouts

AllPaid == \A r \in Requests : Paid(r)

(* A request is a client and the number of its try.                        *)
LEMMA RequestType ==
  ASSUME NEW r \in Requests
  PROVE  /\ r[1] \in Clients /\ r[2] \in Nat /\ r[2] > 0 /\ r = <<r[1], r[2]>>
         /\ r[2] > 1 => <<r[1], r[2] - 1>> \in Requests
BY BoundsAssumption DEF Requests

(* Every failure of a try has a fault or a timed-out shutdown of its own.  *)
LEMMA PaidNext == IInv /\ AllPaid /\ [Next]_vars => AllPaid'
<1> SUFFICES ASSUME IInv, AllPaid, [Next]_vars, NEW q \in Requests PROVE Paid(q)'
  BY DEF AllPaid
<1>t. /\ pc \in [Requests -> Labels]
      /\ answer \in [Requests -> Answers \cup {"none"}]
      /\ heard \in [Requests -> Answers \cup {"none", "lost"}]
      /\ faults \in Nat /\ timeouts \in Nat
  BY BoundsAssumption DEF IInv, TypeOK
<1>q. q[2] \in Nat /\ q[2] > 0
  BY RequestType
<1>i. Paid(q)
  BY DEF AllPaid
<1> USE <1>t, <1>q, <1>i DEF Paid, Failed, Answers, process, store
<1>1. ASSUME NEW r \in Requests, CreateTicket(r) PROVE Paid(q)'
  <2>1. r # q => pc'[q] = pc[q] /\ answer'[q] = answer[q]
    BY <1>1 DEF CreateTicket, Respond
  <2>2. UNCHANGED <<heard, faults, timeouts>>
    BY <1>1 DEF CreateTicket
  <2>3. CASE r = q
    <3>1. answer'[q] # "internal_error" \/ answer'[q] = answer[q]
      BY <1>1, <2>3, DecodeType DEF CreateTicket, Respond
    <3>2. q[2] <= faults + timeouts + 1
      <4>1. CASE q[2] > 1
        <5> DEFINE p == <<q[1], q[2] - 1>>
        <5>1. p \in Requests
          BY <4>1, RequestType
        <5>2. heard[p] \in {"lost", "internal_error"}
          BY <1>1, <2>3, <4>1 DEF CreateTicket
        <5>3. p[2] <= faults + timeouts
          BY <5>1, <5>2 DEF AllPaid
        <5> QED BY <5>3
      <4> QED BY <4>1
    <3> QED BY <2>2, <3>1, <3>2
  <2> QED BY <2>1, <2>2, <2>3
<1>2. ASSUME NEW r \in Requests, MemoryCreate(r) \/ Commit(r) PROVE Paid(q)'
  BY <1>2 DEF MemoryCreate, Commit, Respond
<1>3. ASSUME NEW r \in Requests, BeginTx(r) \/ InsertTicket(r) \/ InsertOutbox(r)
      PROVE  Paid(q)'
  BY <1>3 DEF BeginTx, InsertTicket, InsertOutbox, Proceed
<1>4. ASSUME NEW r \in Requests, pc[r] # "unsent", Respond(r, "internal_error"),
             CallFails(r), UNCHANGED <<heard, timeouts>>
      PROVE  Paid(q)'
  BY <1>4 DEF Respond, CallFails, Fault, Gone
<1>5. ASSUME NEW r \in Requests, TxFails(r) \/ CommitFails(r) PROVE Paid(q)'
  BY <1>4, <1>5 DEF TxFails, CommitFails, Rollback
<1>6. ASSUME NEW r \in Requests, Reply(r) PROVE Paid(q)'
  BY <1>6 DEF Reply, Fault, Gone
<1>7. ASSUME NEW r \in Requests, ClientLeaves(r) PROVE Paid(q)'
  BY <1>7 DEF ClientLeaves, Active, Fault
<1>8. ASSUME NEW r \in Requests, OrphanEnds(r) PROVE Paid(q)'
  BY <1>8 DEF OrphanEnds
<1>9. ASSUME NEW r \in Requests, GetTicket(r) PROVE Paid(q)'
  BY <1>9 DEF GetTicket, MemoryGet, PostgresGet, Fault
<1>10. CASE Start \/ Sigterm
  BY <1>10 DEF Start, Sigterm
<1>11. CASE Drained
  BY <1>11 DEF Drained, Exit
<1>12. CASE ShutdownTimesOut
  BY <1>12 DEF ShutdownTimesOut, Exit, Active
<1>14. CASE Killed
  BY <1>14 DEF Killed, Exit, Fault, Active
<1>13. CASE UNCHANGED vars
  BY <1>13 DEF vars
<1> QED
  BY <1>1, <1>2, <1>3, <1>5, <1>6, <1>7, <1>8, <1>9, <1>10, <1>11, <1>12, <1>13, <1>14
     DEF Next, HandlerStep

(* The tickets of a client are some of its first tries, which are paid.    *)
LEMMA FewTickets == IInv /\ AllPaid => DuplicatesPaidByFaults
<1> SUFFICES ASSUME IInv, AllPaid, NEW c \in Clients
             PROVE  Cardinality({r \in tickets : r[1] = c}) <= 1 + faults + timeouts
  BY DEF DuplicatesPaidByFaults
<1> DEFINE T == {r \in tickets : r[1] = c}
           N == 1..(faults + timeouts + 1)
           f == [r \in T |-> r[2]]
<1>1. faults \in Nat /\ timeouts \in Nat /\ tickets \subseteq Requests
  BY BoundsAssumption DEF IInv, TypeOK
<1>2. ASSUME NEW r \in T PROVE r[2] \in N /\ r = <<c, r[2]>>
  <2>1. r \in Requests
    BY <1>1
  <2>2. pc[r] # "unsent"
    BY <2>1 DEF IInv, Control, At
  <2>3. r[2] <= faults + timeouts + 1
    BY <2>1, <2>2 DEF AllPaid, Paid
  <2>4. r[2] \in Nat /\ r[2] > 0
    BY <2>1, RequestType
  <2>5. r = <<r[1], r[2]>> /\ r[1] = c
    BY <2>1, RequestType, Zenon
  <2>6. r = <<c, r[2]>>
    BY <2>5, Zenon
  <2> QED BY <1>1, <2>3, <2>4, <2>6
<1>3. f \in Injection(T, N)
  BY <1>2 DEF Injection, IsInjective
<1>4. IsFiniteSet(N) /\ Cardinality(N) = faults + timeouts + 1
  BY <1>1, FS_Interval
<1>5. Cardinality(T) <= Cardinality(N)
  BY <1>3, <1>4, FS_Injection
<1> HIDE DEF T, N
<1> QED BY <1>1, <1>4, <1>5 DEF T

(* A client gets a second ticket only when something has failed, a third   *)
(* one only when it failed again, however its tries overlap.               *)
THEOREM DuplicatesArePaid == Spec => []DuplicatesPaidByFaults
<1>1. Init => AllPaid
  BY DEF Init, AllPaid, Paid, Failed
<1> QED BY <1>1, PaidNext, FewTickets, Invariance, PTL DEF Spec
================================================================================
