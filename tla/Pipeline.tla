-------------------------------- MODULE Pipeline --------------------------------
(***************************************************************************)
(* The whole way of an event: the outbox table, the relays, the Kafka      *)
(* partition and the consumers of notification-service.  The components    *)
(* are those of OutboxRelay and NotificationService; what they share is    *)
(* the partition, which the relays append to and the consumers read, and   *)
(* the budget of faults.  Only relays write to the topic, so every message *)
(* is an envelope with a UUID, and NotificationService's own AppendMessage *)
(* (the only user of MaxLog) is not part of it.                            *)
(***************************************************************************)
EXTENDS Integers, Sequences, FiniteSets

CONSTANTS
  Events,             \* outbox rows, by created_at; also the event_id of each
  Relays, Consumers,  \* running copies of the two services
  BatchSize, ProcessingTimeout, MaxSkew, MaxCopies, ReopenAfter, DlqEnabled,
  RelayAttempts,      \* OUTBOX_RELAY_MAX_ATTEMPTS
  NotifyAttempts,     \* NOTIFY_MAX_ATTEMPTS
  ForceFail,          \* events NOTIFY_FORCE_FAIL matches
  MaxFaults,          \* bound: crashes, errors and takeovers in a behaviour
  NoClaim, Nobody

VARIABLES
  outbox, relayPc, batch, cur, relayDlq,                  \* OutboxRelay
  log,                                                    \* the partition
  committed, origin, owner, pos, pc, off, attempt,
  timeoutStreak, processed, notified, dlq,                \* NotificationService
  faults

relaySide == <<outbox, relayPc, batch, cur, relayDlq>>
consumerSide == <<committed, origin, owner, pos, pc, off, attempt, timeoutStreak,
                  processed, notified, dlq>>
vars == <<outbox, relayPc, batch, cur, relayDlq, log, committed, origin, owner, pos,
          pc, off, attempt, timeoutStreak, processed, notified, dlq, faults>>

\* The relays' count of copies is what the partition holds.
Copies == [e \in Events |-> Cardinality({i \in DOMAIN log : log[i] = e})]

Relay == INSTANCE OutboxRelay
  WITH pc <- relayPc, dlq <- relayDlq, copies <- Copies, MaxAttempts <- RelayAttempts

Consumer == INSTANCE NotificationService
  WITH Garbage <- {}, NotJson <- {}, Rejected <- {}, StartFirst <- TRUE,
       MaxAttempts <- NotifyAttempts, MaxLog <- 0

ASSUME EventsAssumption == Events \subseteq Nat /\ ForceFail \subseteq Events
ASSUME ParametersAssumption ==
  /\ BatchSize \in Int /\ ProcessingTimeout \in Int /\ MaxSkew \in Nat
  /\ RelayAttempts \in Int /\ NotifyAttempts \in Int
  /\ ReopenAfter \in Nat \ {0} /\ DlqEnabled \in BOOLEAN
ASSUME BoundsAssumption == MaxCopies \in Nat \ {0} /\ MaxFaults \in Nat
ASSUME AbsenceAssumption == NoClaim \notin Relay!Claims /\ Nobody \notin Consumers

--------------------------------------------------------------------------------
Init == log = <<>> /\ Relay!Init /\ Consumer!Init

CreateTicket(e) == UNCHANGED <<log, consumerSide>> /\ Relay!CreateTicket(e)

\* The messages of one Produce call go to the end of the partition.
Publish(r) ==
  /\ \E c \in batch[r], n \in 0..MaxCopies : log' = log \o [i \in 1..n |-> c.id]
  /\ UNCHANGED consumerSide
  /\ Relay!Publish(r)

RelayStep(r) ==
  \/ Publish(r)
  \/ /\ UNCHANGED <<log, consumerSide>>
     /\ \/ Relay!ResetStuck(r) \/ Relay!ClaimPending(r) \/ Relay!MarkSent(r)
        \/ Relay!MarkFailed(r) \/ Relay!PublishDlq(r) \/ Relay!MarkDead(r)

RelayCrash(r) == UNCHANGED <<log, consumerSide>> /\ Relay!Crash(r)

Tick == UNCHANGED <<log, consumerSide>> /\ Relay!Tick

ConsumerStep(c) == Consumer!ConsumerStep(c) /\ UNCHANGED relaySide

Assign(c) == Consumer!Assign(c) /\ UNCHANGED relaySide

ConsumerFault ==
  /\ \/ \E c \in Consumers : Consumer!FetchFailed(c) \/ Consumer!Crash(c)
     \/ Consumer!Rebalance \/ Consumer!Stall
  /\ UNCHANGED relaySide

Next ==
  \/ \E e \in Events : CreateTicket(e)
  \/ \E r \in Relays : RelayStep(r) \/ RelayCrash(r)
  \/ Tick
  \/ \E c \in Consumers : ConsumerStep(c) \/ Assign(c)
  \/ ConsumerFault

Spec == Init /\ [][Next]_vars

\* Every process keeps running, time passes, the partition gets assigned, and a
\* member's fetch is not always cut short by another one's reopening.
FairSpec ==
  /\ Spec /\ WF_vars(Tick)
  /\ \A r \in Relays : WF_vars(RelayStep(r))
  /\ \A c \in Consumers :
       /\ WF_vars(ConsumerStep(c)) /\ WF_vars(Assign(c))
       /\ SF_vars(Consumer!FetchMessage(c) /\ UNCHANGED relaySide)

--------------------------------------------------------------------------------
(* Properties.                                                             *)

Accepted == {e \in Events : outbox[e].status # "absent"}
Notified == {e \in Events : notified[e] > 0}

\* No event falls between the services: one whose row says 'sent' is notified,
\* or still in the partition ahead of the committed offset.
SentIsDeliveredOrAhead ==
  \A e \in Events : outbox[e].status = "sent" =>
     e \in Notified \/ \E i \in DOMAIN log : log[i] = e /\ i > committed

\* Nothing is forgotten: the event of a committed ticket is notified in the end,
\* or its row stays 'failed' where an operator finds it.  With Kafka down for
\* ever, when no dead letter can be written either, it is the latter.
EventuallyDelivered ==
  \A e \in Events : e \in Accepted ~> [](e \in Notified \/ outbox[e].status = "failed")

\* Of Delivery's variables: the attempts each table counts, and the events each
\* service has tried to dead-letter (an error of that is dropped).
RelayTries == [e \in Events |-> outbox[e].attempts]
RelayGaveUp == {e \in Events : relayDlq[e] # "none"}
NotifyTries == [e \in Events |-> processed[e].attempts]
NotifyGaveUp == {e \in Events : dlq[e] # "none"}

DeliverySpec == INSTANCE Delivery
  WITH RelayLimit <- RelayAttempts, NotifyLimit <- NotifyAttempts,
       accepted <- Accepted, notified <- Notified,
       relayTries <- RelayTries, relayGaveUp <- RelayGaveUp,
       notifyTries <- NotifyTries, notifyGaveUp <- NotifyGaveUp

\* The services together implement Delivery: only what was committed is relayed,
\* only what was relayed is notified, and neither service gives up before its
\* own limit, notification-service never without a notification.
ImplementsDelivery == DeliverySpec!Spec
=================================================================================
