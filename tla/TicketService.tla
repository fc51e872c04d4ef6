----------------------------- MODULE TicketService -----------------------------
(***************************************************************************)
(* ticket-service: cmd/ticket-service/main.go, the handlers and both       *)
(* stores of internal/ticket, and internal/shared/httpx/shutdown.go.       *)
(*                                                                         *)
(* Handlers run concurrently and share the connection pool.  Each SQL      *)
(* statement is one step.  A client that got an error or no answer may     *)
(* send its request again, also while the handler of the earlier one is    *)
(* still running.  The request context is cancelled when its client is     *)
(* gone: from then on every call of the transaction may fail.              *)
(***************************************************************************)
EXTENDS Integers, FiniteSets

CONSTANTS
  Clients,
  Bodies,        \* requests a client may send, see Decode and Validate
  MaxTries,      \* bound: how often a client sends its request
  MaxOpenConns,  \* DB_MAX_OPEN_CONNS
  MaxFaults,     \* bound: errors, lost answers, kills in a behaviour
  MaxTimeouts    \* bound: shutdowns that run out of time in a behaviour

\* The n-th try of a client.  uuid.NewString gives every try its own ticket.
Requests == Clients \X (1..MaxTries)

ASSUME BodiesAssumption ==
  Bodies \subseteq [method : {"POST", "other"}, json : BOOLEAN, title : Nat, description : Nat]
ASSUME BoundsAssumption ==
  /\ MaxTries \in Nat /\ MaxOpenConns \in Int
  /\ MaxFaults \in Nat /\ MaxTimeouts \in Nat

VARIABLES
  storage,   \* "postgres" when DATABASE_URL is set, else "memory"
  server,    \* the process: "down", "up", "draining"
  body,      \* client -> what it sends
  pc,        \* where the handler of each request is
  answer,    \* the answer a handler is about to write
  heard,     \* what the client of a request heard: "none", "lost" or an answer
  tx,        \* request -> the tables its open transaction has written to
  orphans,   \* requests whose COMMIT is on its way with nobody waiting for it
  tickets,   \* tickets (in the table, or in the map of the in-memory store)
  events,    \* outbox rows
  found,     \* the last answer to a GET of a ticket its client was told of
  restarted, \* the process has ended before
  faults,    \* errors, lost answers and kills so far
  timeouts   \* shutdowns that ran out of time so far

process == <<storage, server, body>>
store == <<tx, orphans, tickets, events>>
vars == <<storage, server, body, pc, answer, heard, tx, orphans, tickets, events,
          found, restarted, faults, timeouts>>

Answers == {"created", "validation_error", "method_not_allowed", "internal_error"}

Fault == faults < MaxFaults /\ faults' = faults + 1

--------------------------------------------------------------------------------
(* The request.                                                            *)

\* Lengths are in bytes, of the trimmed text.
Validate(b) == b.title >= 3 /\ b.title <= 200 /\ b.description <= 5000

\* json: the body is one object of at most 1MB with known fields only.
Decode(b) ==
  CASE b.method # "POST"        -> "method_not_allowed"
    [] ~b.json \/ ~Validate(b)  -> "validation_error"
    [] OTHER                    -> "none"

Active(r) == pc[r] \notin {"unsent", "done"}

\* The client has closed its connection.
Gone(r) == heard[r] = "lost"

\* The transaction of a request has a connection of the pool from BeginTx to
\* the end of Commit, or to the deferred Rollback.
Busy == {r \in Requests : pc[r] \in {"insertTicket", "insertOutbox", "commit"}}

\* db.OpenPostgres: 0 means 10; sql.DB takes a negative number as "no limit".
HasConnection ==
  LET limit == IF MaxOpenConns = 0 THEN 10 ELSE MaxOpenConns
  IN limit < 0 \/ Cardinality(Busy) < limit

\* An error of a step: of the database, or because the context is cancelled.
CallFails(r) == IF Gone(r) THEN UNCHANGED faults ELSE Fault

\* The handler has its answer.
Respond(r, a) ==
  /\ pc' = [pc EXCEPT ![r] = "reply"]
  /\ answer' = [answer EXCEPT ![r] = a]

\* Mutant: no WriteErrorR, so that net/http answers 200.
RollbackUnanswered(r) ==
  /\ Respond(r, "ok") /\ CallFails(r)
  /\ tx' = [tx EXCEPT ![r] = {}]
  /\ UNCHANGED <<process, heard, orphans, tickets, events, found, restarted, timeouts>>

\* Rollback, deferred by Create: the writes and the connection are given up.
Rollback(r) ==
  /\ Respond(r, "internal_error")
  /\ CallFails(r)
  /\ tx' = [tx EXCEPT ![r] = {}]
  /\ UNCHANGED <<process, heard, orphans, tickets, events, found, restarted, timeouts>>

Proceed(r, from, to) ==
  /\ pc[r] = from /\ pc' = [pc EXCEPT ![r] = to]
  /\ UNCHANGED <<process, answer, heard, orphans, found, restarted, faults, timeouts>>

--------------------------------------------------------------------------------
Init ==
  /\ storage \in {"postgres", "memory"} /\ server = "up"
  /\ body \in [Clients -> Bodies]
  /\ pc = [r \in Requests |-> "unsent"]
  /\ answer = [r \in Requests |-> "none"]
  /\ heard = [r \in Requests |-> "none"]
  /\ tx = [r \in Requests |-> {}] /\ orphans = {}
  /\ tickets = {} /\ events = {}
  /\ found = "none"
  /\ restarted = FALSE /\ faults = 0 /\ timeouts = 0

\* A client sends its request, or sends it again.  CreateTicket decodes and
\* validates it.
CreateTicket(r) ==
  /\ server = "up" /\ pc[r] = "unsent"
  /\ r[2] > 1 => heard[<<r[1], r[2] - 1>>] \in {"lost", "internal_error"}
  /\ LET verdict == Decode(body[r[1]])
     IN IF verdict = "none"
        THEN /\ pc' = [pc EXCEPT ![r] = IF storage = "postgres" THEN "begin" ELSE "memory"]
             /\ UNCHANGED answer
        ELSE Respond(r, verdict)
  /\ UNCHANGED <<process, heard, store, found, restarted, faults, timeouts>>

\* Mutant: the mutex is locked again by a method called under it.
MemoryCreateLocksTwice(r) == pc[r] = "memory" /\ UNCHANGED vars

\* InMemoryStore.Create, under its mutex.
MemoryCreate(r) ==
  /\ pc[r] = "memory" /\ Respond(r, "created")
  /\ tickets' = tickets \cup {r}
  /\ UNCHANGED <<process, heard, tx, orphans, events, found, restarted, faults, timeouts>>

(* PostgresStore.Create.                                                   *)

\* BeginTx waits for a connection as long as the client does.
BeginTx(r) ==
  /\ HasConnection
  /\ Proceed(r, "begin", "insertTicket")
  /\ UNCHANGED <<tx, tickets, events>>

InsertTicket(r) ==
  /\ Proceed(r, "insertTicket", "insertOutbox")
  /\ tx' = [tx EXCEPT ![r] = @ \cup {"tickets"}]
  /\ UNCHANGED <<tickets, events>>

\* Mutant: the INSERT uses the pool (s.db) and not the transaction.
InsertOutboxOutsideTx(r) ==
  /\ HasConnection
  /\ Proceed(r, "insertOutbox", "commit")
  /\ events' = events \cup {r}
  /\ UNCHANGED <<tx, tickets>>

InsertOutbox(r) ==
  /\ Proceed(r, "insertOutbox", "commit")
  /\ tx' = [tx EXCEPT ![r] = @ \cup {"outbox"}]
  /\ UNCHANGED <<tickets, events>>

TxFails(r) == pc[r] \in {"begin", "insertTicket", "insertOutbox"} /\ Rollback(r)

\* PostgreSQL makes the writes of a transaction visible, all in one step.
Apply(r) ==
  /\ tickets' = IF "tickets" \in tx[r] THEN tickets \cup {r} ELSE tickets
  /\ events' = IF "outbox" \in tx[r] THEN events \cup {r} ELSE events
  /\ tx' = [tx EXCEPT ![r] = {}]

Commit(r) ==
  /\ pc[r] = "commit" /\ Respond(r, "created")
  /\ Apply(r)
  /\ UNCHANGED <<process, heard, orphans, found, restarted, faults, timeouts>>

\* Mutant: the error of Commit is dropped.
CommitFailsUnnoticed(r) ==
  /\ pc[r] = "commit" /\ Respond(r, "created")
  /\ CallFails(r)
  /\ tx' = [tx EXCEPT ![r] = {}]
  /\ UNCHANGED <<process, heard, orphans, tickets, events, found, restarted, timeouts>>

\* Commit returns an error: nothing was applied, or the COMMIT was sent and
\* its answer did not come, and PostgreSQL may still carry it out.
CommitFails(r) ==
  /\ pc[r] = "commit"
  /\ \/ Rollback(r)
     \/ /\ Respond(r, "internal_error") /\ CallFails(r)
        /\ orphans' = orphans \cup {r}
        /\ UNCHANGED <<process, heard, tx, tickets, events, found, restarted, timeouts>>

\* PostgreSQL gets the COMMIT nobody waits for, or sees the connection closed.
OrphanEnds(r) ==
  /\ r \in orphans /\ orphans' = orphans \ {r}
  /\ Apply(r) \/ (tx' = [tx EXCEPT ![r] = {}] /\ UNCHANGED <<tickets, events>>)
  /\ UNCHANGED <<process, pc, answer, heard, found, restarted, faults, timeouts>>

--------------------------------------------------------------------------------
\* The answer is written; it reaches the client unless it is gone or the
\* connection breaks (or WriteTimeout has passed).
Reply(r) ==
  /\ pc[r] = "reply"
  /\ \/ heard' = [heard EXCEPT ![r] = IF Gone(r) THEN @ ELSE answer[r]] /\ UNCHANGED faults
     \/ ~Gone(r) /\ heard' = [heard EXCEPT ![r] = "lost"] /\ Fault
  /\ pc' = [pc EXCEPT ![r] = "done"]
  /\ answer' = [answer EXCEPT ![r] = "none"]
  /\ UNCHANGED <<process, store, found, restarted, timeouts>>

\* The client gives up waiting and closes its connection.
ClientLeaves(r) ==
  /\ Active(r) /\ ~Gone(r) /\ Fault
  /\ heard' = [heard EXCEPT ![r] = "lost"]
  /\ UNCHANGED <<process, pc, answer, store, found, restarted, timeouts>>

\* InMemoryStore.Get and PostgresStore.Get, with the answer GetTicket makes of
\* what they return.  The query has a connection only while it runs.
Lookup(r) == found' = IF r \in tickets THEN "ok" ELSE "not_found"

MemoryGet(r) == storage = "memory" /\ Lookup(r) /\ UNCHANGED faults

PostgresGet(r) ==
  /\ storage = "postgres"
  /\ \/ HasConnection /\ Lookup(r) /\ UNCHANGED faults
     \/ found' = "internal_error" /\ Fault

\* For the id in an answer to CreateTicket.
GetTicket(r) ==
  /\ server = "up" /\ heard[r] = "created"
  /\ MemoryGet(r) \/ PostgresGet(r)
  /\ UNCHANGED <<process, pc, answer, heard, store, restarted, timeouts>>

(* The process.                                                            *)

\* The process ends: handlers, connections and memory are gone, and a COMMIT
\* that was on its way is without anybody to wait for it.
Exit ==
  /\ server' = "down" /\ restarted' = TRUE
  /\ pc' = [r \in Requests |-> IF Active(r) THEN "done" ELSE pc[r]]
  /\ answer' = [r \in Requests |-> "none"]
  /\ heard' = [r \in Requests |-> IF Active(r) THEN "lost" ELSE heard[r]]
  /\ orphans' = orphans \cup {r \in Requests : pc[r] = "commit"}
  /\ tx' = [r \in Requests |-> IF r \in orphans' THEN tx[r] ELSE {}]
  /\ tickets' = IF storage = "postgres" THEN tickets ELSE {}
  /\ UNCHANGED <<storage, body, events, found>>

\* main, after OpenPostgres has reached the database.
Start ==
  /\ server = "down" /\ server' = "up"
  /\ UNCHANGED <<storage, body, pc, answer, heard, store, found, restarted, faults, timeouts>>

\* SIGTERM: Shutdown closes the listener and waits for the handlers.
Sigterm ==
  /\ server = "up" /\ server' = "draining"
  /\ UNCHANGED <<storage, body, pc, answer, heard, store, found, restarted, faults, timeouts>>

\* Mutant: Close in place of Shutdown: nobody is waited for.
DrainedAtOnce == server = "draining" /\ Exit /\ UNCHANGED <<faults, timeouts>>

Drained ==
  /\ server = "draining" /\ \A r \in Requests : ~Active(r)
  /\ Exit /\ UNCHANGED <<faults, timeouts>>

\* The ten seconds of Shutdown are over with handlers still running.  Its error
\* is dropped, main returns, and the deferred Close takes the pool from them.
ShutdownTimesOut ==
  /\ server = "draining" /\ \E r \in Requests : Active(r)
  /\ timeouts < MaxTimeouts /\ timeouts' = timeouts + 1
  /\ Exit /\ UNCHANGED faults

Killed == server # "down" /\ Fault /\ Exit /\ UNCHANGED timeouts

HandlerStep(r) ==
  \/ MemoryCreate(r) \/ BeginTx(r) \/ InsertTicket(r) \/ InsertOutbox(r) \/ TxFails(r)
  \/ Commit(r) \/ CommitFails(r) \/ Reply(r)

Next ==
  \/ \E r \in Requests :
       CreateTicket(r) \/ HandlerStep(r) \/ OrphanEnds(r) \/ ClientLeaves(r) \/ GetTicket(r)
  \/ Start \/ Sigterm \/ Drained \/ ShutdownTimesOut \/ Killed

Spec == Init /\ [][Next]_vars

\* Handlers keep running.
FairSpec == Spec /\ \A r \in Requests : WF_vars(HandlerStep(r))

--------------------------------------------------------------------------------
(* Properties.                                                             *)

Labels == {"unsent", "memory", "begin", "insertTicket", "insertOutbox", "commit",
           "reply", "done"}

\* The values the variables can take.
TypeOK ==
  /\ storage \in {"postgres", "memory"} /\ server \in {"down", "up", "draining"}
  /\ body \in [Clients -> Bodies]
  /\ pc \in [Requests -> Labels]
  /\ answer \in [Requests -> Answers \cup {"none"}]
  /\ heard \in [Requests -> Answers \cup {"none", "lost"}]
  /\ tx \in [Requests -> SUBSET {"tickets", "outbox"}]
  /\ orphans \subseteq Requests /\ tickets \subseteq Requests /\ events \subseteq Requests
  /\ found \in {"none", "ok", "not_found", "internal_error"}
  /\ restarted \in BOOLEAN /\ faults \in 0..MaxFaults /\ timeouts \in 0..MaxTimeouts

\* The transactional outbox: whatever fails in Create, and whoever dies during
\* its commit, a ticket is in the database exactly when its event is.
OutboxMatchesTickets == storage = "postgres" => tickets = events

\* 201 means committed: a ticket whose client was told "created" is there, and
\* with PostgreSQL stays there through kills and restarts.
CreatedIsStored ==
  \A r \in Requests :
     heard[r] = "created" => r \in tickets \/ (storage = "memory" /\ restarted)

\* Creation is not idempotent: a client that sends its request again may get a
\* second ticket.  Every ticket after the first is the price of a fault, or of
\* a shutdown that did not wait for the answer.
DuplicatesPaidByFaults ==
  \A c \in Clients : Cardinality({r \in tickets : r[1] = c}) <= 1 + faults + timeouts

\* Every handler ends, and gives its connection back, however many wait for
\* one: no request needs a second connection while it holds one.
EveryHandlerEnds == \A r \in Requests : Active(r) ~> ~Active(r)

\* The store as a client sees it; the implementation's steps between BeginTx
\* and Commit cannot be told apart from outside.
AbstractStore == INSTANCE TicketStore

\* ticket-service implements TicketStore: a ticket and its event appear in one
\* step, nothing is stored twice, and "created" is only said of what is stored.
ImplementsTicketStore == AbstractStore!Spec
================================================================================
