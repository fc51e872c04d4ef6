--------------------------- MODULE OutboxRelayProofs ---------------------------
(***************************************************************************)
(* Proofs about OutboxRelay for any number of rows and relays, any         *)
(* configuration and any number of faults.                                 *)
(***************************************************************************)
EXTENDS OutboxRelay, TLAPS

(* What each place in tick knows about the row in hand.                    *)
At(r) ==
  /\ pc[r] \in {"idle", "claim", "loop"} <=> cur[r] = NoClaim
  /\ pc[r] \in {"idle", "claim"} => batch[r] = {}
  /\ cur[r] \notin batch[r]
  /\ pc[r] = "sent" => copies[cur[r].id] > 0
  /\ pc[r] \in {"dlq", "dead"} => Exhausted(cur[r])
  /\ pc[r] = "dead" /\ DlqEnabled => dlq[cur[r].id] # "none"

Control == \A r \in Relays : At(r)

AbsentUnclaimed ==
  \A e \in Events : outbox[e].status = "absent" => outbox[e].attempts = 0

RowInv ==
  /\ SentMeansPublished /\ DeadMeansExhausted /\ DeadLettered
  /\ LeaseIffProcessing /\ AbsentUnclaimed

(* The inductive invariant.                                                *)
IInv == TypeOK /\ Control /\ ClaimsUnique /\ RowInv

--------------------------------------------------------------------------------
(* ResetStuck never works with a lease of zero or less.                    *)
LEMMA LeaseType == Lease \in Nat \ {0}
BY ParametersAssumption DEF Lease

(* However wrong the relay's clock is, a row waits for a finite time.      *)
LEMMA RetryWaitsType == \A n \in Nat : RetryWaits(n) \subseteq Nat
<1>1. \A n \in Nat : backoff(n) \in Nat
  BY DEF backoff
<1> QED BY <1>1, ParametersAssumption DEF RetryWaits

(* The SQL statements write well-formed rows and return well-formed claims.*)
LEMMA StatementTypes ==
  ASSUME outbox \in [Events -> Rows]
  PROVE  /\ AfterReset \in [Events -> Rows]
         /\ AfterClaim \in [Events -> Rows]
         /\ NewClaims \subseteq Claims
<1> USE LeaseType DEF Rows, Row, Statuses, Null
<1>1. AfterReset \in [Events -> Rows]
  BY DEF AfterReset
<1>2. AfterClaim \in [Events -> Rows]
  BY DEF AfterClaim
<1>3. NewClaims \subseteq Claims
  <2>1. ASSUME NEW e \in Due PROVE [id |-> e, attempts |-> outbox[e].attempts + 1] \in Claims
    BY <2>1 DEF Claims, Due, Eligible
  <2> QED BY <2>1, Zenon DEF NewClaims
<1> QED BY <1>1, <1>2, <1>3

(* The inductive invariant holds in the empty table.                       *)
LEMMA InitIInv == Init => IInv
<1> SUFFICES ASSUME Init PROVE IInv
  OBVIOUS
<1> USE DEF Init, NoRow, Row, Null
<1>1. TypeOK
  BY LeaseType, BoundsAssumption
     DEF TypeOK, Rows, Statuses, Labels, Claims
<1>2. Control
  BY NoClaimAssumption DEF Control, At
<1>3. ClaimsUnique
  BY DEF ClaimsUnique, Held
<1>4. RowInv
  BY DEF RowInv, SentMeansPublished, DeadMeansExhausted, DeadLettered,
         LeaseIffProcessing, AbsentUnclaimed
<1> QED BY <1>1, <1>2, <1>3, <1>4 DEF IInv

(* Type correctness.  The row in hand is a claim wherever a statement uses *)
(* it, by Control.                                                         *)
LEMMA TypeNext == TypeOK /\ Control /\ [Next]_vars => TypeOK'
<1> SUFFICES ASSUME TypeOK, Control, [Next]_vars PROVE TypeOK'
  OBVIOUS
<1> USE LeaseType, BoundsAssumption, EventsAssumption
<1> USE DEF TypeOK, Rows, Row, Statuses, Labels, Null
<1>1. ASSUME NEW e \in Events, CreateTicket(e) PROVE TypeOK'
  BY <1>1 DEF CreateTicket, relayVars
<1>2. ASSUME NEW r \in Relays, ResetStuck(r) PROVE TypeOK'
  BY <1>2, StatementTypes DEF ResetStuck, Goto, Fault
<1>3. ASSUME NEW r \in Relays, ClaimPending(r) PROVE TypeOK'
  BY <1>3, StatementTypes DEF ClaimPending, Goto, Fault
<1>4. ASSUME NEW r \in Relays, Publish(r) PROVE TypeOK'
  BY <1>4 DEF Publish, PublishOk, PublishError, Goto, Claims
<1>5. ASSUME NEW r \in Relays, MarkSent(r) PROVE TypeOK'
  BY <1>5 DEF MarkSent, Settle, NextRow, Mark, Goto, Fault
<1>6. ASSUME NEW r \in Relays, MarkFailed(r) PROVE TypeOK'
  <2>1. cur[r] \in Claims
    BY <1>6, NoClaimAssumption DEF MarkFailed, Settle, Control, At
  <2> QED BY <1>6, <2>1, RetryWaitsType DEF MarkFailed, Settle, NextRow, Goto, Fault, Claims
<1>7. ASSUME NEW r \in Relays, PublishDlq(r) PROVE TypeOK'
  BY <1>7 DEF PublishDlq, Goto
<1>8. ASSUME NEW r \in Relays, MarkDead(r) PROVE TypeOK'
  BY <1>8 DEF MarkDead, Settle, NextRow, Mark, Goto, Fault
<1>9. ASSUME NEW r \in Relays, Crash(r) PROVE TypeOK'
  BY <1>9 DEF Crash, Goto, Fault
<1>10. CASE Tick
  BY <1>10 DEF Tick, relayVars
<1>11. CASE UNCHANGED vars
  BY <1>11 DEF vars
<1> QED BY <1>1, <1>2, <1>3, <1>4, <1>5, <1>6, <1>7, <1>8, <1>9, <1>10, <1>11
        DEF Next, RelayStep

--------------------------------------------------------------------------------
(* What the places in tick know is kept by every step of every relay.      *)
LEMMA ControlNext == IInv /\ [Next]_vars => Control'
<1> SUFFICES ASSUME IInv, [Next]_vars PROVE Control'
  OBVIOUS
<1> USE NoClaimAssumption, BoundsAssumption
<1>t. /\ pc \in [Relays -> Labels]
      /\ batch \in [Relays -> SUBSET Claims]
      /\ cur \in [Relays -> Claims \cup {NoClaim}]
      /\ copies \in [Events -> Nat]
      /\ dlq \in [Events -> {"none", "lost", "written"}]
  BY DEF IInv, TypeOK
<1>c. Control
  BY DEF IInv
<1>1. ASSUME NEW e \in Events, CreateTicket(e) PROVE Control'
  BY <1>1, <1>c DEF CreateTicket, relayVars, Control, At
<1>2. ASSUME NEW r \in Relays, ResetStuck(r) PROVE Control'
  BY <1>2, <1>t, <1>c DEF ResetStuck, Goto, Control, At
<1>3. ASSUME NEW r \in Relays, ClaimPending(r) PROVE Control'
  <2>1. NewClaims \subseteq Claims /\ (Due = {} => NewClaims = {})
    BY StatementTypes DEF IInv, TypeOK, NewClaims
  <2> QED BY <1>3, <1>t, <1>c, <2>1 DEF ClaimPending, Goto, Control, At
<1>4. ASSUME NEW r \in Relays, Publish(r) PROVE Control'
  <2>1. PICK c \in batch[r] : /\ batch' = [batch EXCEPT ![r] = @ \ {c}]
                              /\ cur' = [cur EXCEPT ![r] = c]
                              /\ PublishOk(r, c) \/ PublishError(r, c)
    BY <1>4 DEF Publish
  <2>2. c \in Claims /\ c # NoClaim /\ c.id \in Events
    BY <1>t DEF Claims
  <2>3. PICK n \in Nat : copies' = [copies EXCEPT ![c.id] = @ + n]
    BY <2>1 DEF PublishOk, PublishError
  <2>4. \A e \in Events : copies[e] > 0 => copies'[e] > 0
    BY <1>t, <2>2, <2>3
  <2>5. /\ cur'[r] = c /\ c \notin batch'[r] /\ UNCHANGED dlq
        /\ \A s \in Relays \ {r} : cur'[s] = cur[s] /\ batch'[s] = batch[s]
    BY <1>4, <1>t, <2>1 DEF Publish
  <2>6. PICK label \in Labels : pc' = [pc EXCEPT ![r] = label]
    BY <2>1 DEF PublishOk, PublishError, Goto, Labels
  <2>7. /\ label \in {"sent", "retry", "dlq", "dead"}
        /\ label = "sent" => copies'[c.id] > 0
        /\ label \in {"dlq", "dead"} => Exhausted(c)
        /\ label = "dead" => ~DlqEnabled
    <3>1. pc'[r] = label
      BY <1>t, <2>6
    <3>2. CASE PublishOk(r, c)
      BY <3>1, <3>2, <1>t, <2>2 DEF PublishOk, Goto
    <3>3. CASE PublishError(r, c)
      BY <3>1, <3>3, <1>t DEF PublishError, Goto
    <3> QED BY <2>1, <3>2, <3>3
  <2>8. At(r)'
    BY <1>t, <2>2, <2>5, <2>6, <2>7 DEF At
  <2>9. ASSUME NEW s \in Relays, s # r PROVE At(s)'
    <3>1. pc'[s] = pc[s] /\ At(s)
      BY <1>t, <1>c, <2>6, <2>9 DEF Control
    <3>2. cur[s] # NoClaim => cur[s].id \in Events
      BY <1>t DEF Claims
    <3> QED BY <2>4, <2>5, <2>9, <3>1, <3>2 DEF At
  <2> QED BY <2>8, <2>9 DEF Control
<1>5. ASSUME NEW r \in Relays, MarkSent(r) PROVE Control'
  BY <1>5, <1>t, <1>c DEF MarkSent, Settle, NextRow, Goto, Control, At
<1>6. ASSUME NEW r \in Relays, MarkFailed(r) PROVE Control'
  BY <1>6, <1>t, <1>c DEF MarkFailed, Settle, NextRow, Goto, Control, At
<1>7. ASSUME NEW r \in Relays, PublishDlq(r) PROVE Control'
  BY <1>7, <1>t, <1>c DEF PublishDlq, Goto, Control, At, Claims
<1>8. ASSUME NEW r \in Relays, MarkDead(r) PROVE Control'
  BY <1>8, <1>t, <1>c DEF MarkDead, Settle, NextRow, Goto, Control, At
<1>9. ASSUME NEW r \in Relays, Crash(r) PROVE Control'
  BY <1>9, <1>t, <1>c DEF Crash, Goto, Control, At
<1>10. CASE Tick
  BY <1>10, <1>c DEF Tick, relayVars, Control, At
<1>11. CASE UNCHANGED vars
  BY <1>11, <1>c DEF vars, Control, At
<1> QED BY <1>1, <1>2, <1>3, <1>4, <1>5, <1>6, <1>7, <1>8, <1>9, <1>10, <1>11
        DEF Next, RelayStep

--------------------------------------------------------------------------------
(* A step that leaves every row's attempts alone or raises them, and gives *)
(* no relay a claim it did not hold, keeps the claims unique.              *)
LEMMA FewerClaims ==
  ASSUME TypeOK, ClaimsUnique,
         \A r \in Relays : Held(r)' \subseteq Held(r),
         outbox' \in [Events -> Rows],
         \A e \in Events : outbox'[e].attempts >= outbox[e].attempts
  PROVE  ClaimsUnique'
<1>1. ASSUME NEW r \in Relays, NEW c \in Held(r)'
      PROVE  c.attempts > 0 /\ c.attempts <= outbox'[c.id].attempts
  <2>1. c \in Held(r) /\ c \in Claims
    BY <1>1 DEF TypeOK, Held
  <2> QED BY <2>1 DEF ClaimsUnique, Claims, TypeOK, Rows
<1>2. ASSUME NEW r \in Relays, NEW s \in Relays, r # s
      PROVE  Held(r)' \cap Held(s)' = {}
  BY <1>2 DEF ClaimsUnique
<1> QED BY <1>1, <1>2 DEF ClaimsUnique

(* No step hands out a claim twice: ClaimPending counts every claim in the *)
(* row, and attempts never go down.                                        *)
LEMMA ClaimsNext == IInv /\ [Next]_vars => ClaimsUnique'
<1> SUFFICES ASSUME IInv, [Next]_vars PROVE ClaimsUnique'
  OBVIOUS
<1>t. TypeOK /\ TypeOK' /\ ClaimsUnique /\ Control
  BY TypeNext DEF IInv
<1>a. /\ outbox \in [Events -> Rows] /\ outbox' \in [Events -> Rows]
      /\ \A e \in Events : outbox[e].attempts \in Nat
      /\ batch \in [Relays -> SUBSET Claims]
      /\ cur \in [Relays -> Claims \cup {NoClaim}]
  BY <1>t DEF TypeOK, Rows
<1>f. ASSUME \A r \in Relays : Held(r)' \subseteq Held(r),
             \A e \in Events : outbox'[e].attempts = outbox[e].attempts
      PROVE  ClaimsUnique'
  BY <1>t, <1>a, <1>f, FewerClaims
<1>1. ASSUME NEW e \in Events, CreateTicket(e) PROVE ClaimsUnique'
  <2>1. \A r \in Relays : Held(r)' \subseteq Held(r)
    BY <1>1 DEF CreateTicket, relayVars, Held
  <2>2. \A f \in Events : outbox'[f].attempts = outbox[f].attempts
    BY <1>1, <1>a DEF CreateTicket, Row, IInv, RowInv, AbsentUnclaimed
  <2> QED BY <2>1, <2>2, <1>f
<1>2. ASSUME NEW r \in Relays, ResetStuck(r) PROVE ClaimsUnique'
  <2>1. \A s \in Relays : Held(s)' \subseteq Held(s)
    BY <1>2 DEF ResetStuck, Held
  <2>2. \A f \in Events : outbox'[f].attempts = outbox[f].attempts
    BY <1>2, <1>a DEF ResetStuck, AfterReset, Row
  <2> QED BY <2>1, <2>2, <1>f
<1>3. ASSUME NEW r \in Relays, ClaimPending(r) PROVE ClaimsUnique'
  <2>1. \A f \in Events : outbox'[f].attempts >= outbox[f].attempts
    BY <1>3, <1>a DEF ClaimPending, AfterClaim, Row
  <2>2. UNCHANGED cur
    BY <1>3 DEF ClaimPending
  <2>3. CASE UNCHANGED batch
    BY <1>t, <1>a, <2>1, <2>2, <2>3, FewerClaims DEF Held
  <2>4. CASE outbox' = AfterClaim /\ batch' = [batch EXCEPT ![r] = NewClaims]
    <3>1. /\ Held(r)' = NewClaims
          /\ \A s \in Relays \ {r} : Held(s)' = Held(s)
      <4>1. cur[r] = NoClaim
        BY <1>3, <1>t DEF ClaimPending, Control, At
      <4>2. batch'[r] = NewClaims /\ \A s \in Relays \ {r} : batch'[s] = batch[s]
        BY <2>4, <1>a
      <4> QED BY <4>1, <4>2, <2>2 DEF Held
    <3>2. ASSUME NEW c \in NewClaims
          PROVE  c.attempts = outbox[c.id].attempts + 1 /\ c.id \in Due /\ c.id \in Events
      <4>1. PICK e \in Due : c = [id |-> e, attempts |-> outbox[e].attempts + 1]
        BY Zenon DEF NewClaims
      <4> QED BY <4>1 DEF Due, Eligible
    <3>3. ASSUME NEW c \in NewClaims
          PROVE  c.attempts > 0 /\ c.attempts <= outbox'[c.id].attempts
      BY <3>2, <2>4, <1>a DEF AfterClaim, Row
    <3>4. ASSUME NEW s \in Relays, NEW c \in Held(s)
          PROVE  /\ c \notin NewClaims
                 /\ c.attempts > 0 /\ c.attempts <= outbox'[c.id].attempts
      <4>1. c \in Claims
        BY <1>a, NoClaimAssumption DEF Held
      <4>2. c.attempts > 0 /\ c.attempts <= outbox[c.id].attempts /\ c.attempts \in Nat
        BY <1>t, <4>1 DEF ClaimsUnique, Claims
      <4>3. c.id \in Events /\ outbox[c.id].attempts \in Nat /\ outbox'[c.id].attempts \in Nat
        BY <4>1, <1>a DEF Claims, Rows
      <4> QED BY <4>2, <4>3, <2>1, <3>2
    <3>5. ASSUME NEW s \in Relays, NEW c \in Held(s)'
          PROVE  c.attempts > 0 /\ c.attempts <= outbox'[c.id].attempts
      BY <3>1, <3>3, <3>4, <3>5
    <3>6. ASSUME NEW s \in Relays, NEW u \in Relays, s # u
          PROVE  Held(s)' \cap Held(u)' = {}
      BY <3>1, <3>4, <3>6, <1>t DEF ClaimsUnique
    <3> QED BY <3>5, <3>6 DEF ClaimsUnique
  <2> QED BY <1>3, <2>3, <2>4 DEF ClaimPending
<1>4. ASSUME NEW r \in Relays, Publish(r) PROVE ClaimsUnique'
  <2>1. PICK c \in batch[r] : /\ batch' = [batch EXCEPT ![r] = @ \ {c}]
                              /\ cur' = [cur EXCEPT ![r] = c]
    BY <1>4 DEF Publish
  <2>2. ASSUME NEW s \in Relays PROVE Held(s)' \subseteq Held(s)
    BY <1>a, <2>1 DEF Held
  <2> QED BY <1>4, <2>2, <1>f DEF Publish
<1>5. ASSUME NEW r \in Relays, UNCHANGED batch, cur' = [cur EXCEPT ![r] = NoClaim]
      PROVE  \A s \in Relays : Held(s)' \subseteq Held(s)
  BY <1>5, <1>a DEF Held
<1>6. ASSUME NEW r \in Relays, MarkSent(r) PROVE ClaimsUnique'
  <2>1. \A f \in Events : outbox'[f].attempts = outbox[f].attempts
    BY <1>6, <1>a DEF MarkSent, Settle, Mark, Row
  <2> QED BY <1>5, <1>6, <1>f, <2>1 DEF MarkSent, Settle, NextRow
<1>7. ASSUME NEW r \in Relays, MarkFailed(r) PROVE ClaimsUnique'
  <2>1. \A f \in Events : outbox'[f].attempts = outbox[f].attempts
    <3>1. CASE UNCHANGED outbox
      BY <3>1
    <3>2. ASSUME NEW wait,
                 outbox' = [outbox EXCEPT ![cur[r].id] = Row("pending", @.attempts, Null, wait)]
          PROVE  \A f \in Events : outbox'[f].attempts = outbox[f].attempts
      BY <3>2, <1>a DEF Row
    <3> QED BY <1>7, <3>1, <3>2 DEF MarkFailed, Settle
  <2> QED BY <1>5, <1>7, <1>f, <2>1 DEF MarkFailed, Settle, NextRow
<1>8. ASSUME NEW r \in Relays, MarkDead(r) PROVE ClaimsUnique'
  <2>1. \A f \in Events : outbox'[f].attempts = outbox[f].attempts
    BY <1>8, <1>a DEF MarkDead, Settle, Mark, Row
  <2> QED BY <1>5, <1>8, <1>f, <2>1 DEF MarkDead, Settle, NextRow
<1>9. ASSUME NEW r \in Relays, PublishDlq(r) PROVE ClaimsUnique'
  BY <1>9, <1>f DEF PublishDlq, Held
<1>10. ASSUME NEW r \in Relays, Crash(r) PROVE ClaimsUnique'
  <2>1. \A s \in Relays : Held(s)' \subseteq Held(s)
    BY <1>10, <1>a DEF Crash, Held
  <2> QED BY <1>10, <2>1, <1>f DEF Crash
<1>11. CASE Tick
  <2>1. \A f \in Events : outbox'[f].attempts = outbox[f].attempts
    BY <1>11 DEF Tick, Row
  <2> QED BY <1>11, <2>1, <1>f DEF Tick, relayVars, Held
<1>12. CASE UNCHANGED vars
  BY <1>12, <1>f DEF vars, Held
<1> QED BY <1>1, <1>2, <1>3, <1>4, <1>6, <1>7, <1>8, <1>9, <1>10, <1>11, <1>12
        DEF Next, RelayStep

--------------------------------------------------------------------------------
(* Every statement of every relay, stale ones included, keeps what a status*)
(* says.                                                                   *)
LEMMA RowNext == IInv /\ [Next]_vars => RowInv'
<1> SUFFICES ASSUME IInv, [Next]_vars PROVE RowInv'
  OBVIOUS
<1>t. /\ outbox \in [Events -> Rows]
      /\ copies \in [Events -> Nat]
      /\ dlq \in [Events -> {"none", "lost", "written"}]
      /\ cur \in [Relays -> Claims \cup {NoClaim}]
      /\ Control /\ ClaimsUnique
  BY DEF IInv, TypeOK
<1>i. RowInv
  BY DEF IInv
<1> USE LeaseType, ParametersAssumption
<1> USE DEF RowInv, SentMeansPublished, DeadMeansExhausted, DeadLettered,
            LeaseIffProcessing, AbsentUnclaimed, Row, Rows, Null
<1>1. ASSUME NEW e \in Events, CreateTicket(e) PROVE RowInv'
  BY <1>1, <1>t, <1>i DEF CreateTicket, relayVars
<1>2. ASSUME NEW r \in Relays, ResetStuck(r) PROVE RowInv'
  BY <1>2, <1>t, <1>i DEF ResetStuck, AfterReset
<1>3. ASSUME NEW r \in Relays, ClaimPending(r) PROVE RowInv'
  BY <1>3, <1>t, <1>i DEF ClaimPending, AfterClaim
<1>4. ASSUME NEW r \in Relays, Publish(r) PROVE RowInv'
  <2>1. UNCHANGED <<outbox, dlq>>
    BY <1>4 DEF Publish
  <2>2. PICK c \in batch[r], n \in Nat : copies' = [copies EXCEPT ![c.id] = @ + n]
    BY <1>4, BoundsAssumption DEF Publish, PublishOk, PublishError
  <2>3. \A e \in Events : copies[e] > 0 => copies'[e] > 0
    BY <1>t, <2>2
  <2> QED BY <1>i, <2>1, <2>3
<1>h. ASSUME NEW r \in Relays, pc[r] \in {"sent", "retry", "dlq", "dead"}
      PROVE  /\ cur[r] \in Claims /\ cur[r].id \in Events
             /\ cur[r].attempts \in Nat
             /\ cur[r].attempts > 0
             /\ cur[r].attempts <= outbox[cur[r].id].attempts
  BY <1>h, <1>t, NoClaimAssumption DEF Control, At, ClaimsUnique, Held, Claims
<1>5. ASSUME NEW r \in Relays, MarkSent(r) PROVE RowInv'
  <2>1. copies[cur[r].id] > 0
    BY <1>5, <1>t DEF MarkSent, Settle, Control, At
  <2>2. UNCHANGED <<copies, dlq>>
    BY <1>5 DEF MarkSent, Settle
  <2>3. CASE UNCHANGED outbox
    BY <1>i, <2>2, <2>3
  <2>4. CASE Mark(cur[r].id, "sent")
    <3>1. outbox'[cur[r].id] = Row("sent", outbox[cur[r].id].attempts, Null, outbox[cur[r].id].wait)
      BY <1>5, <1>t, <1>h, <2>4 DEF Mark, MarkSent, Settle
    <3>2. \A e \in Events : e # cur[r].id => outbox'[e] = outbox[e]
      BY <1>t, <2>4 DEF Mark
    <3> QED BY <1>i, <2>1, <2>2, <3>1, <3>2
  <2> QED BY <1>5, <2>3, <2>4 DEF MarkSent, Settle
<1>6. ASSUME NEW r \in Relays, MarkFailed(r) PROVE RowInv'
  <2>1. UNCHANGED <<copies, dlq>>
    BY <1>6 DEF MarkFailed, Settle
  <2>2. CASE UNCHANGED outbox
    BY <1>i, <2>1, <2>2
  <2>3. ASSUME NEW wait \in RetryWaits(cur[r].attempts),
               outbox' = [outbox EXCEPT ![cur[r].id] = Row("pending", @.attempts, Null, wait)]
        PROVE  RowInv'
    <3>1. outbox'[cur[r].id] = Row("pending", outbox[cur[r].id].attempts, Null, wait)
      BY <1>6, <1>t, <1>h, <2>3 DEF MarkFailed, Settle
    <3>2. \A e \in Events : e # cur[r].id => outbox'[e] = outbox[e]
      BY <1>t, <2>3
    <3> QED BY <1>i, <2>1, <3>1, <3>2
  <2> QED BY <1>6, <2>2, <2>3 DEF MarkFailed, Settle
<1>7. ASSUME NEW r \in Relays, PublishDlq(r) PROVE RowInv'
  BY <1>7, <1>t, <1>i DEF PublishDlq
<1>8. ASSUME NEW r \in Relays, MarkDead(r) PROVE RowInv'
  <2>1. /\ MaxAttempts > 0 /\ cur[r].attempts >= MaxAttempts
        /\ DlqEnabled => dlq[cur[r].id] # "none"
    BY <1>8, <1>t DEF MarkDead, Settle, Control, At, Exhausted
  <2>2. outbox[cur[r].id].attempts >= MaxAttempts
    BY <1>8, <1>h, <1>t, <2>1 DEF MarkDead, Settle
  <2>3. UNCHANGED <<copies, dlq>>
    BY <1>8 DEF MarkDead, Settle
  <2>4. CASE UNCHANGED outbox
    BY <1>i, <2>3, <2>4
  <2>5. CASE Mark(cur[r].id, "failed")
    <3>1. outbox'[cur[r].id] = Row("failed", outbox[cur[r].id].attempts, Null, outbox[cur[r].id].wait)
      BY <1>8, <1>t, <1>h, <2>5 DEF Mark, MarkDead, Settle
    <3>2. \A e \in Events : e # cur[r].id => outbox'[e] = outbox[e]
      BY <1>t, <2>5 DEF Mark
    <3> QED BY <1>i, <2>1, <2>2, <2>3, <3>1, <3>2
  <2> QED BY <1>8, <2>4, <2>5 DEF MarkDead, Settle
<1>9. ASSUME NEW r \in Relays, Crash(r) PROVE RowInv'
  <2>1. UNCHANGED <<outbox, copies, dlq>>
    BY <1>9 DEF Crash
  <2> QED BY <1>i, <2>1
<1>10. CASE Tick
  BY <1>10, <1>t, <1>i DEF Tick
<1>11. CASE UNCHANGED vars
  BY <1>11, <1>i DEF vars
<1> QED BY <1>1, <1>2, <1>3, <1>4, <1>5, <1>6, <1>7, <1>8, <1>9, <1>10, <1>11
        DEF Next, RelayStep

(* Every step keeps the inductive invariant.                               *)
LEMMA NextIInv == IInv /\ [Next]_vars => IInv'
BY TypeNext, ControlNext, ClaimsNext, RowNext DEF IInv

(* Faults of other services, which share the budget of faults, do not      *)
(* matter to the relays.                                                   *)
LEMMA FaultsElsewhere ==
  ASSUME IInv, UNCHANGED <<outbox, pc, batch, cur, copies, dlq>>, faults' \in 0..MaxFaults
  PROVE  IInv'
<1>1. TypeOK'
  BY DEF IInv, TypeOK
<1>2. Control'
  BY DEF IInv, Control, At
<1>3. ClaimsUnique'
  BY DEF IInv, ClaimsUnique, Held
<1>4. RowInv'
  BY DEF IInv, RowInv, SentMeansPublished, DeadMeansExhausted, DeadLettered,
         LeaseIffProcessing, AbsentUnclaimed
<1> QED BY <1>1, <1>2, <1>3, <1>4 DEF IInv

(* The row of the claim in hand is there, and has counted the claim.       *)
LEMMA HeldRow ==
  ASSUME IInv, NEW r \in Relays, NEW c \in Held(r)
  PROVE  /\ c \in Claims /\ c.id \in Events /\ c.attempts \in Nat /\ c.attempts > 0
         /\ c.attempts <= outbox[c.id].attempts /\ outbox[c.id].attempts \in Nat
         /\ outbox[c.id].status # "absent"
<1>1. c \in Claims
  BY NoClaimAssumption DEF IInv, TypeOK, Held
<1>2. c.id \in Events /\ c.attempts \in Nat /\ outbox[c.id].attempts \in Nat
  BY <1>1 DEF Claims, IInv, TypeOK, Rows
<1>3. c.attempts > 0 /\ c.attempts <= outbox[c.id].attempts
  BY DEF IInv, ClaimsUnique
<1> QED BY <1>1, <1>2, <1>3 DEF IInv, RowInv, AbsentUnclaimed

(* What each place past Publish has in hand.                               *)
LEMMA InHandHeld ==
  ASSUME IInv, NEW r \in Relays, pc[r] \in {"sent", "retry", "dlq", "dead"}
  PROVE  cur[r] \in Held(r)
BY DEF IInv, Control, At, Held

(* Rows come from CreateTicket only and never go away, and attempts are    *)
(* counted by ClaimPending only.                                           *)
LEMMA RowsStay ==
  ASSUME IInv, Next
  PROVE  \/ \E e \in Events : CreateTicket(e)
         \/ /\ \A e \in Events : outbox'[e].status = "absent" <=> outbox[e].status = "absent"
            /\ \/ \A e \in Events : outbox'[e].attempts = outbox[e].attempts
               \/ outbox' = AfterClaim
<1>t. outbox \in [Events -> Rows]
  BY DEF IInv, TypeOK
<1> USE DEF Row
<1>1. ASSUME NEW r \in Relays, NEW e \in Events, pc[r] \in {"sent", "retry", "dlq", "dead"},
             outbox[e].status = "absent"
      PROVE  e # cur[r].id
  BY <1>1, InHandHeld, HeldRow
<1>2. ASSUME NEW r \in Relays, ResetStuck(r)
      PROVE  \A e \in Events : /\ outbox'[e].status = "absent" <=> outbox[e].status = "absent"
                               /\ outbox'[e].attempts = outbox[e].attempts
  BY <1>2, <1>t DEF ResetStuck, AfterReset, Stuck
<1>3. ASSUME NEW r \in Relays, ClaimPending(r)
      PROVE  /\ \A e \in Events : outbox'[e].status = "absent" <=> outbox[e].status = "absent"
             /\ UNCHANGED outbox \/ outbox' = AfterClaim
  <2>1. UNCHANGED outbox \/ outbox' = AfterClaim
    BY <1>3 DEF ClaimPending
  <2>2. \A e \in Due : e \in Events /\ outbox[e].status = "pending"
    BY DEF Due, Eligible
  <2>3. \A e \in Events : AfterClaim[e].status = "absent" <=> outbox[e].status = "absent"
    BY <2>2 DEF AfterClaim
  <2> QED BY <2>1, <2>3
<1>4. ASSUME NEW r \in Relays, MarkSent(r) \/ MarkDead(r)
      PROVE  \A e \in Events : /\ outbox'[e].status = "absent" <=> outbox[e].status = "absent"
                               /\ outbox'[e].attempts = outbox[e].attempts
  <2>1. pc[r] \in {"sent", "dead"}
    BY <1>4 DEF MarkSent, MarkDead, Settle
  <2> QED BY <1>4, <1>1, <1>t, <2>1 DEF MarkSent, MarkDead, Settle, Mark
<1>5. ASSUME NEW r \in Relays, MarkFailed(r)
      PROVE  \A e \in Events : /\ outbox'[e].status = "absent" <=> outbox[e].status = "absent"
                               /\ outbox'[e].attempts = outbox[e].attempts
  <2>1. pc[r] = "retry"
    BY <1>5 DEF MarkFailed, Settle
  <2>2. CASE UNCHANGED outbox
    BY <2>2
  <2>3. ASSUME NEW wait, NEW e \in Events,
               outbox' = [outbox EXCEPT ![cur[r].id] = Row("pending", @.attempts, Null, wait)]
        PROVE  /\ outbox'[e].status = "absent" <=> outbox[e].status = "absent"
               /\ outbox'[e].attempts = outbox[e].attempts
    BY <1>1, <1>t, <2>1, <2>3
  <2> QED BY <1>5, <2>2, <2>3 DEF MarkFailed, Settle
<1>6. ASSUME NEW r \in Relays, Publish(r) \/ PublishDlq(r) \/ Crash(r) PROVE UNCHANGED outbox
  BY <1>6 DEF Publish, PublishDlq, Crash
<1>7. ASSUME Tick
      PROVE  \A e \in Events : /\ outbox'[e].status = "absent" <=> outbox[e].status = "absent"
                               /\ outbox'[e].attempts = outbox[e].attempts
  BY <1>7 DEF Tick
<1> QED BY <1>2, <1>3, <1>4, <1>5, <1>6, <1>7 DEF Next, RelayStep

(* The inductive invariant holds in every reachable state of the relays and*)
(* the table.                                                              *)
THEOREM Invariance == Spec => []IInv
BY InitIInv, NextIInv, PTL DEF Spec

(* The variables always have their types, however many relays and faults.  *)
THEOREM TypeCorrect == Spec => []TypeOK
BY Invariance, PTL DEF IInv

(* A row marked 'sent' was published, whichever relay marked it.           *)
THEOREM SentIsPublished == Spec => []SentMeansPublished
BY Invariance, PTL DEF IInv, RowInv

(* A row marked 'failed' has used up OUTBOX_RELAY_MAX_ATTEMPTS.            *)
THEOREM DeadIsExhausted == Spec => []DeadMeansExhausted
BY Invariance, PTL DEF IInv, RowInv

(* maybeDead never marks a row before it has tried the DLQ.                *)
THEOREM DeadIsLettered == Spec => []DeadLettered
BY Invariance, PTL DEF IInv, RowInv

(* ClaimPending never hands the same attempt of a row to two relays.       *)
THEOREM ClaimsAreUnique == Spec => []ClaimsUnique
BY Invariance, PTL DEF IInv

(* ResetStuck can see the lease of every row in 'processing'.              *)
THEOREM LeaseWhileProcessing == Spec => []LeaseIffProcessing
BY Invariance, PTL DEF IInv, RowInv

--------------------------------------------------------------------------------
(* One relay.  It frees leases only between batches, so nobody touches the *)
(* rows it holds, and the unguarded UPDATEs only ever hit those.           *)
OneRelay == \A r, s \in Relays : r = s

(* One relay: no step takes the rows it holds away from it.                *)
LEMMA SoleOwnerNext ==
  ASSUME OneRelay
  PROVE  IInv /\ SoleOwner /\ [Next]_vars => SoleOwner'
<1> SUFFICES ASSUME IInv, SoleOwner, [Next]_vars PROVE SoleOwner'
  OBVIOUS
<1>t. /\ outbox \in [Events -> Rows]
      /\ batch \in [Relays -> SUBSET Claims]
      /\ cur \in [Relays -> Claims \cup {NoClaim}]
      /\ Control
  BY DEF IInv, TypeOK
<1>h. \A r \in Relays : Held(r) \subseteq Claims
  BY <1>t DEF Held
<1>f. ASSUME \A r \in Relays : Held(r)' \subseteq Held(r),
             \A r \in Relays : \A c \in Held(r)' : outbox'[c.id].status = outbox[c.id].status,
             \A r \in Relays : \A c \in Held(r)' : outbox'[c.id].attempts = outbox[c.id].attempts
      PROVE  SoleOwner'
  BY <1>f DEF SoleOwner
<1>1. ASSUME NEW e \in Events, CreateTicket(e) PROVE SoleOwner'
  <2>1. \A r \in Relays : Held(r)' = Held(r)
    BY <1>1 DEF CreateTicket, relayVars, Held
  <2>2. \A r \in Relays : \A c \in Held(r) : c.id # e
    BY <1>1 DEF CreateTicket, SoleOwner
  <2>3. \A r \in Relays : \A c \in Held(r) : outbox'[c.id] = outbox[c.id]
    BY <1>1, <1>t, <1>h, <2>2 DEF CreateTicket, Claims
  <2> QED BY <2>1, <2>3, <1>f
<1>2. ASSUME NEW r \in Relays, ResetStuck(r) PROVE SoleOwner'
  <2>1. Held(r)' = {}
    BY <1>2, <1>t DEF ResetStuck, Control, At, Held
  <2> QED BY <2>1 DEF SoleOwner, OneRelay
<1>3. ASSUME NEW r \in Relays, ClaimPending(r) PROVE SoleOwner'
  <2>1. cur[r] = NoClaim /\ batch[r] = {} /\ UNCHANGED cur
    BY <1>3, <1>t DEF ClaimPending, Control, At
  <2>2. CASE UNCHANGED batch
    <3>1. Held(r)' = {}
      BY <2>1, <2>2 DEF Held
    <3> QED BY <3>1 DEF SoleOwner, OneRelay
  <2>3. CASE outbox' = AfterClaim /\ batch' = [batch EXCEPT ![r] = NewClaims]
    <3>1. batch'[r] = NewClaims
      BY <2>3, <1>t
    <3>2. Held(r)' = NewClaims
      BY <2>1, <3>1 DEF Held
    <3>3. ASSUME NEW c \in NewClaims
          PROVE  outbox'[c.id].status = "processing" /\ outbox'[c.id].attempts = c.attempts
      <4>1. PICK e \in Due : c = [id |-> e, attempts |-> outbox[e].attempts + 1]
        BY Zenon DEF NewClaims
      <4> QED BY <4>1, <2>3 DEF AfterClaim, Row, Due, Eligible
    <3> QED BY <3>2, <3>3 DEF SoleOwner, OneRelay
  <2> QED BY <1>3, <2>2, <2>3 DEF ClaimPending
<1>4. ASSUME NEW r \in Relays, Publish(r) PROVE SoleOwner'
  <2>1. PICK c \in batch[r] : /\ batch' = [batch EXCEPT ![r] = @ \ {c}]
                              /\ cur' = [cur EXCEPT ![r] = c]
    BY <1>4 DEF Publish
  <2>2. ASSUME NEW s \in Relays PROVE Held(s)' \subseteq Held(s)
    BY <1>t, <2>1 DEF Held
  <2> QED BY <1>4, <2>2, <1>f DEF Publish
<1>5. ASSUME NEW r \in Relays, NextRow(r), pc[r] \in {"sent", "retry", "dead"},
             NEW row,
             UNCHANGED outbox \/ outbox' = [outbox EXCEPT ![cur[r].id] = row]
      PROVE  SoleOwner'
  <2>1. cur'[r] = NoClaim /\ batch'[r] = batch[r]
    BY <1>5, <1>t DEF NextRow
  <2>2. Held(r)' = batch[r] /\ batch[r] \subseteq Held(r)
    BY <2>1 DEF Held
  <2>3. cur[r] \in Claims /\ cur[r] \in Held(r) /\ cur[r] \notin batch[r]
    BY <1>5, <1>t DEF Control, At, Held
  <2>4. ASSUME NEW c \in batch[r] PROVE c.id # cur[r].id
    <3>1. c \in Claims /\ (c.id = cur[r].id => c.attempts = cur[r].attempts)
      BY <2>2, <2>3, <2>4, <1>h DEF SoleOwner
    <3>2. c # cur[r]
      BY <2>3, <2>4
    <3> QED BY <2>3, <3>1, <3>2 DEF Claims
  <2>5. ASSUME NEW c \in batch[r] PROVE outbox'[c.id] = outbox[c.id]
    BY <1>5, <2>2, <2>4, <1>h, <1>t DEF Claims
  <2> QED BY <2>2, <2>5, <1>f DEF OneRelay
<1>6. ASSUME NEW r \in Relays, MarkSent(r) PROVE SoleOwner'
  BY <1>5, <1>6 DEF MarkSent, Settle, Mark
<1>7. ASSUME NEW r \in Relays, MarkFailed(r) PROVE SoleOwner'
  BY <1>5, <1>7 DEF MarkFailed, Settle
<1>8. ASSUME NEW r \in Relays, MarkDead(r) PROVE SoleOwner'
  BY <1>5, <1>8 DEF MarkDead, Settle, Mark
<1>9. ASSUME NEW r \in Relays, PublishDlq(r) PROVE SoleOwner'
  BY <1>9, <1>f DEF PublishDlq, Held
<1>10. ASSUME NEW r \in Relays, Crash(r) PROVE SoleOwner'
  <2>1. \A s \in Relays : Held(s)' \subseteq Held(s)
    BY <1>10, <1>t DEF Crash, Held
  <2> QED BY <1>10, <2>1, <1>f DEF Crash
<1>11. CASE Tick
  <2>1. \A e \in Events : /\ outbox'[e].attempts = outbox[e].attempts
                          /\ outbox'[e].status = outbox[e].status
    BY <1>11 DEF Tick, Row
  <2>2. \A r \in Relays : Held(r)' = Held(r)
    BY <1>11 DEF Tick, relayVars, Held
  <2> QED BY <2>1, <2>2, <1>f, <1>h DEF Claims
<1>12. CASE UNCHANGED vars
  BY <1>12, <1>f DEF vars, Held
<1> QED BY <1>1, <1>2, <1>3, <1>4, <1>6, <1>7, <1>8, <1>9, <1>10, <1>11, <1>12
        DEF Next, RelayStep

(* One relay: no statement reaches a row that is settled.                  *)
LEMMA SettledStep ==
  IInv /\ SoleOwner /\ [Next]_vars =>
    \A e \in Events : outbox[e].status \in Settled => outbox'[e].status = outbox[e].status
<1> SUFFICES ASSUME IInv, SoleOwner, [Next]_vars,
                    NEW e \in Events, outbox[e].status \in Settled
             PROVE  outbox'[e].status = outbox[e].status
  OBVIOUS
<1>t. /\ outbox \in [Events -> Rows]
      /\ cur \in [Relays -> Claims \cup {NoClaim}]
      /\ Control
  BY DEF IInv, TypeOK
<1> USE DEF Settled
<1>1. ASSUME NEW f \in Events, CreateTicket(f) PROVE outbox'[e].status = outbox[e].status
  BY <1>1, <1>t DEF CreateTicket
<1>2. ASSUME NEW r \in Relays, ResetStuck(r) PROVE outbox'[e].status = outbox[e].status
  BY <1>2, <1>t DEF ResetStuck, AfterReset, Stuck
<1>3. ASSUME NEW r \in Relays, ClaimPending(r) PROVE outbox'[e].status = outbox[e].status
  BY <1>3, <1>t DEF ClaimPending, AfterClaim, Due, Eligible
<1>4. ASSUME NEW r \in Relays, pc[r] \in {"sent", "retry", "dead"}, NEW row,
             UNCHANGED outbox \/ outbox' = [outbox EXCEPT ![cur[r].id] = row]
      PROVE  outbox'[e].status = outbox[e].status
  <2>1. cur[r] \in Held(r)
    BY <1>4, <1>t DEF Control, At, Held
  <2>2. cur[r].id # e
    BY <2>1 DEF SoleOwner
  <2> QED BY <1>4, <1>t, <2>2
<1>5. ASSUME NEW r \in Relays, MarkSent(r) \/ MarkFailed(r) \/ MarkDead(r)
      PROVE  outbox'[e].status = outbox[e].status
  BY <1>4, <1>5 DEF MarkSent, MarkFailed, MarkDead, Settle, Mark
<1>6. ASSUME NEW r \in Relays, Publish(r) \/ PublishDlq(r) \/ Crash(r)
      PROVE  outbox'[e].status = outbox[e].status
  BY <1>6 DEF Publish, PublishDlq, Crash
<1>7. CASE Tick
  BY <1>7 DEF Tick, Row
<1>8. CASE UNCHANGED vars
  BY <1>8 DEF vars
<1> QED BY <1>1, <1>2, <1>3, <1>5, <1>6, <1>7, <1>8 DEF Next, RelayStep

(* One relay always works on its own rows, through any crashes, lost       *)
(* statements and expired leases.                                          *)
THEOREM SingleRelayOwns ==
  ASSUME OneRelay
  PROVE  Spec => []SoleOwner
<1>1. Init => SoleOwner
  BY DEF Init, SoleOwner, Held
<1> QED BY <1>1, SoleOwnerNext, Invariance, PTL DEF Spec

(* With one relay 'sent' and 'failed' are final.                           *)
THEOREM SingleRelaySettledIsFinal ==
  ASSUME OneRelay
  PROVE  Spec => SettledIsFinal
<1>1. IInv /\ SoleOwner /\ [Next]_vars =>
        [\A e \in Events :
           outbox[e].status \in Settled => outbox'[e].status = outbox[e].status]_vars
  BY SettledStep
<1> QED BY <1>1, SingleRelayOwns, Invariance, PTL DEF Spec, SettledIsFinal

================================================================================
