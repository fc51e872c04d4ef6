-------------------------------- MODULE Delivery --------------------------------
(***************************************************************************)
(* What the two services promise together.  An event whose ticket was      *)
(* committed is first relayed, then notified; nothing else is ever         *)
(* notified.  Each service gives an event up only after its own limit of   *)
(* tries, and notification-service only one that it has notified.          *)
(***************************************************************************)
EXTENDS Naturals

CONSTANTS
  Events,
  RelayLimit,   \* tries before outbox-relay gives up
  NotifyLimit   \* tries before notification-service gives up

VARIABLES
  accepted,      \* events whose ticket is committed
  relayTries,    \* event -> tries to relay it so far
  relayGaveUp,   \* events the relay tried to dead-letter
  notifyTries,   \* event -> tries to notify it so far
  notified,      \* events that were notified
  notifyGaveUp   \* events notification-service tried to dead-letter

relayVars == <<relayTries, relayGaveUp>>
notifyVars == <<notifyTries, notified, notifyGaveUp>>
vars == <<accepted, relayTries, relayGaveUp, notifyTries, notified, notifyGaveUp>>

Init ==
  /\ accepted = {} /\ relayGaveUp = {} /\ notified = {} /\ notifyGaveUp = {}
  /\ relayTries = [e \in Events |-> 0] /\ notifyTries = [e \in Events |-> 0]

Accept(e) ==
  /\ accepted' = accepted \cup {e}
  /\ UNCHANGED <<relayVars, notifyVars>>

\* A relay tries a batch of events.
Relay(S) ==
  /\ S \subseteq accepted
  /\ relayTries' = [e \in Events |-> IF e \in S THEN relayTries[e] + 1 ELSE relayTries[e]]
  /\ UNCHANGED <<accepted, relayGaveUp, notifyVars>>

RelayGivesUp(e) ==
  /\ e \in accepted /\ relayTries[e] >= RelayLimit
  /\ relayGaveUp' = relayGaveUp \cup {e}
  /\ UNCHANGED <<accepted, relayTries, notifyVars>>

\* A try that may not get as far as the notification.
Notify(e) ==
  /\ e \in accepted /\ relayTries[e] > 0
  /\ notifyTries' = [f \in Events |-> IF f = e THEN notifyTries[f] + 1 ELSE notifyTries[f]]
  /\ notified' \in {notified, notified \cup {e}}
  /\ UNCHANGED <<accepted, relayVars, notifyGaveUp>>

NotifyGivesUp(e) ==
  /\ e \in notified /\ notifyTries[e] >= NotifyLimit
  /\ notifyGaveUp' = notifyGaveUp \cup {e}
  /\ UNCHANGED <<accepted, relayVars, notifyTries, notified>>

Next ==
  \/ \E e \in Events : Accept(e) \/ RelayGivesUp(e) \/ Notify(e) \/ NotifyGivesUp(e)
  \/ \E S \in SUBSET Events : Relay(S)

Spec == Init /\ [][Next]_vars
=================================================================================
