----------------------------- MODULE KafkaProducer -----------------------------
(***************************************************************************)
(* internal/shared/kafkax/producer.go: Produce with its second write, the  *)
(* rate-limited reset and Close.  Each service calls its producers from    *)
(* one goroutine.  kafka.Writer and the broker are external: a write that  *)
(* ends with its context leaves its message behind in the writer, which    *)
(* may still send it.                                                      *)
(***************************************************************************)
EXTENDS Integers

CONSTANTS
  MaxCalls,    \* bound: calls of Produce
  ResetPause,  \* the two seconds between resets, in ticks of the clock
  PerWrite,    \* copies one WriteMessages can append (it retries by itself)
  MaxMoves     \* bound: how often the broker's addresses change

ASSUME ConstantsAssumption ==
  /\ MaxCalls \in Nat /\ MaxMoves \in Nat
  /\ ResetPause \in Nat \ {0} /\ PerWrite \in Nat \ {0}

Calls == 1..MaxCalls

VARIABLES
  pc,         \* "idle", or where Produce is: "write", "reset", "rewrite"
  call,       \* the call in progress, or the last one
  result,     \* call -> "none", "ok" or "error"
  copies,     \* call -> how many times its message is in the topic
  pending,    \* calls whose message was left behind in the writer
  stale,      \* the writer's metadata is out of date
  sinceReset, \* time since lastReset, up to ResetPause
  open,       \* p.w # nil
  moves       \* changes of the broker's addresses so far

vars == <<pc, call, result, copies, pending, stale, sinceReset, open, moves>>

Return(res) ==
  /\ pc' = "idle"
  /\ result' = [result EXCEPT ![call] = res]

AddCopies(c, counts) ==
  \E n \in counts : copies' = [copies EXCEPT ![c] = @ + n]

--------------------------------------------------------------------------------
Init ==
  /\ pc = "idle" /\ call = 0
  /\ result = [c \in Calls |-> "none"]
  /\ copies = [c \in Calls |-> 0]
  /\ pending = {} /\ stale = FALSE
  /\ sinceReset = ResetPause  \* the zero time
  /\ open = TRUE /\ moves = 0

\* A closed producer returns context.Canceled, which is no reason to reset.
Produce ==
  /\ pc = "idle" /\ call < MaxCalls
  /\ call' = call + 1
  /\ IF open THEN pc' = "write" /\ UNCHANGED result
             ELSE result' = [result EXCEPT ![call + 1] = "error"] /\ UNCHANGED pc
  /\ UNCHANGED <<copies, pending, stale, sinceReset, open, moves>>

WriteOk ==
  /\ pc \in {"write", "rewrite"} /\ ~stale
  /\ AddCopies(call, 1..PerWrite) /\ Return("ok")
  /\ UNCHANGED <<call, pending, stale, sinceReset, open, moves>>

\* An error of the connection: shouldReset holds.  The message may have
\* reached the broker all the same.
WriteBroken ==
  /\ pc \in {"write", "rewrite"}
  /\ AddCopies(call, 0..PerWrite)
  /\ IF pc = "write" THEN pc' = "reset" /\ UNCHANGED result ELSE Return("error")
  /\ UNCHANGED <<call, pending, stale, sinceReset, open, moves>>

\* Mutant: running out of time is no error.
WriteTimeoutIgnored ==
  /\ pc \in {"write", "rewrite"}
  /\ Return("ok")
  /\ pending' = pending \cup {call}
  /\ UNCHANGED <<call, copies, stale, sinceReset, open, moves>>

\* "context deadline exceeded" (or "context canceled") is none of the suspects
\* of shouldReset.  The other errors it does not know leave nothing behind,
\* like a message that Flush drops.
WriteTimeout ==
  /\ pc \in {"write", "rewrite"}
  /\ Return("error")
  /\ pending' = pending \cup {call}
  /\ UNCHANGED <<call, copies, stale, sinceReset, open, moves>>

\* Mutant: Close, which locks p.mu, is called with p.mu held.
resetOnceLocksTwice == pc = "reset" /\ UNCHANGED vars

\* Mutant: lastReset is set to when the next reset is allowed, now.Add(pause).
resetOnceAhead ==
  /\ pc = "reset" /\ pc' = "rewrite"
  /\ IF sinceReset < ResetPause THEN UNCHANGED <<stale, sinceReset>>
     ELSE pending = {} /\ stale' = FALSE /\ sinceReset' = -ResetPause
  /\ UNCHANGED <<call, result, copies, pending, open, moves>>

\* Closing a writer waits for the messages left in it.
resetOnce ==
  /\ pc = "reset" /\ pc' = "rewrite"
  /\ IF sinceReset < ResetPause THEN UNCHANGED <<stale, sinceReset>>
     ELSE pending = {} /\ stale' = FALSE /\ sinceReset' = 0
  /\ UNCHANGED <<call, result, copies, pending, open, moves>>

Close ==
  /\ pc = "idle" /\ open /\ pending = {}
  /\ open' = FALSE
  /\ UNCHANGED <<pc, call, result, copies, pending, stale, sinceReset, moves>>

--------------------------------------------------------------------------------
(* kafka.Writer, the broker and the clock.                                 *)

\* A message left behind is written in the end, or dropped.
Flush(c) ==
  /\ c \in pending /\ pending' = pending \ {c}
  /\ AddCopies(c, 0..PerWrite)
  /\ UNCHANGED <<pc, call, result, stale, sinceReset, open, moves>>

BrokerMoves ==
  /\ moves < MaxMoves /\ moves' = moves + 1
  /\ stale' = TRUE
  /\ UNCHANGED <<pc, call, result, copies, pending, sinceReset, open>>

\* MetadataTTL is over.
RefreshMetadata ==
  /\ stale /\ stale' = FALSE
  /\ UNCHANGED <<pc, call, result, copies, pending, sinceReset, open, moves>>

Tick ==
  /\ sinceReset < ResetPause /\ sinceReset' = sinceReset + 1
  /\ UNCHANGED <<pc, call, result, copies, pending, stale, open, moves>>

ProduceStep == WriteOk \/ WriteBroken \/ WriteTimeout \/ resetOnce

Next ==
  \/ Produce \/ ProduceStep \/ Close
  \/ (\E c \in Calls : Flush(c)) \/ BrokerMoves \/ RefreshMetadata \/ Tick

Spec == Init /\ [][Next]_vars

\* A call goes on and the writer works off what was left in it.
FairSpec == Spec /\ WF_vars(ProduceStep) /\ \A c \in Calls : WF_vars(Flush(c))

--------------------------------------------------------------------------------
(* Properties.                                                             *)

\* The values the variables can take.
TypeOK ==
  /\ pc \in {"idle", "write", "reset", "rewrite"} /\ call \in 0..MaxCalls
  /\ result \in [Calls -> {"none", "ok", "error"}]
  /\ copies \in [Calls -> Nat] /\ pending \subseteq Calls
  /\ stale \in BOOLEAN /\ open \in BOOLEAN
  /\ sinceReset \in 0..ResetPause /\ moves \in 0..MaxMoves

\* Produce returns nil only with the message in the topic, whichever of its two
\* writes succeeded; it writes at most twice, however resets are rate-limited;
\* and a message left behind by a write never follows a success.
PublisherSpec == INSTANCE Publisher WITH MaxCopies <- 2 * PerWrite
ImplementsPublisher == PublisherSpec!Spec

\* Every call returns, also one that has to wait for the old writer to close.
EveryCallReturns == pc # "idle" ~> pc = "idle"
================================================================================
