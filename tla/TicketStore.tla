------------------------------ MODULE TicketStore ------------------------------
(***************************************************************************)
(* What ticket-service promises its clients: a ticket and its event appear *)
(* in one step, "created" is said only of a ticket that is there, and what *)
(* PostgreSQL holds is never lost.  An answer may be lost, and a ticket    *)
(* may appear after its request was answered with an error.                *)
(***************************************************************************)
EXTENDS FiniteSets

CONSTANTS
  Requests,  \* POST /tickets requests; the ticket of a request has its name
  Answers    \* what a client can be told

VARIABLES
  storage,   \* "postgres" or "memory", chosen at start-up
  tickets,   \* stored tickets
  events,    \* outbox events of stored tickets
  heard,     \* request -> what its client heard: "none", "lost" or an answer
  found      \* what the last GET of a promised ticket was answered

vars == <<storage, tickets, events, heard, found>>

Init ==
  /\ storage \in {"postgres", "memory"}
  /\ tickets = {} /\ events = {}
  /\ heard = [r \in Requests |-> "none"]
  /\ found = "none"

\* The in-memory store has no outbox.
Accept(r) ==
  /\ r \notin tickets
  /\ tickets' = tickets \cup {r}
  /\ events' = IF storage = "postgres" THEN events \cup {r} ELSE events
  /\ UNCHANGED <<storage, heard, found>>

Tell(r) ==
  /\ heard[r] = "none"
  /\ \E a \in Answers \cup {"lost"} :
       /\ a = "created" => r \in tickets
       /\ heard' = [heard EXCEPT ![r] = a]
  /\ UNCHANGED <<storage, tickets, events, found>>

\* A GET answers from what is stored, or fails.
Get(r) ==
  /\ heard[r] = "created"
  /\ found' \in {IF r \in tickets THEN "ok" ELSE "not_found", "internal_error"}
  /\ UNCHANGED <<storage, tickets, events, heard>>

\* The process ends: answers in flight are lost, and so is the memory.
End ==
  /\ \E S \in SUBSET {r \in Requests : heard[r] = "none"} :
       heard' = [r \in Requests |-> IF r \in S THEN "lost" ELSE heard[r]]
  /\ tickets' = IF storage = "postgres" THEN tickets ELSE {}
  /\ UNCHANGED <<storage, events, found>>

Next == (\E r \in Requests : Accept(r) \/ Tell(r) \/ Get(r)) \/ End

Spec == Init /\ [][Next]_vars
================================================================================
