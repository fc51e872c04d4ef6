------------------------- MODULE OutboxRelayBoundProofs -------------------------
(***************************************************************************)
(* Proofs about what faults and duplicates cost in OutboxRelay: attempts   *)
(* above the limit, and copies of an event in the topic.                   *)
(***************************************************************************)
EXTENDS OutboxRelayProofs, FiniteSetTheorems

(* Some relay has claimed the row and not finished with it.                *)
InHand(e) == \E r \in Relays : \E c \in Held(r) : c.id = e

(* A row that is neither settled nor in hand can be claimed again: there   *)
(* is an attempt left for that, by the limit or by a fault.                *)
Budget(e) ==
  MaxAttempts > 0 =>
    /\ outbox[e].attempts <= MaxAttempts + faults
    /\ outbox[e].status \notin Settled /\ ~InHand(e) => outbox[e].attempts < MaxAttempts + faults

(* Only a claim that has not used up the attempts is scheduled again.      *)
RetryLeft == \A r \in Relays : pc[r] = "retry" => ~Exhausted(cur[r])

BudgetInv == RetryLeft /\ \A e \in Events : Budget(e)

--------------------------------------------------------------------------------
(* A row keeps its budget when a step leaves its attempts alone, and takes *)
(* it out of a relay's hands only by settling it or with a fault.          *)
LEMMA BudgetKept ==
  ASSUME NEW e \in Events, Budget(e), TypeOK,
         outbox'[e].attempts = outbox[e].attempts,
         faults' = faults \/ faults' = faults + 1,
         \/ outbox'[e].status \in Settled \/ InHand(e)'
         \/ outbox[e].status \notin Settled /\ ~InHand(e)
         \/ faults' = faults + 1
  PROVE  Budget(e)'
<1>1. outbox[e].attempts \in Nat /\ faults \in Nat
  BY BoundsAssumption DEF TypeOK, Rows
<1> QED BY <1>1, ParametersAssumption DEF Budget

(* One relay: attempts above the limit need faults.                        *)
LEMMA BudgetNext ==
  ASSUME OneRelay
  PROVE  IInv /\ SoleOwner /\ BudgetInv /\ [Next]_vars => BudgetInv'
<1> SUFFICES ASSUME IInv, SoleOwner, BudgetInv, [Next]_vars PROVE BudgetInv'
  OBVIOUS
<1>t. /\ TypeOK /\ Control
      /\ outbox \in [Events -> Rows]
      /\ pc \in [Relays -> Labels]
      /\ batch \in [Relays -> SUBSET Claims]
      /\ cur \in [Relays -> Claims \cup {NoClaim}]
      /\ faults \in Nat /\ \A e \in Events : outbox[e].attempts \in Nat
  BY BoundsAssumption DEF IInv, TypeOK, Rows
<1>b. RetryLeft /\ \A e \in Events : Budget(e)
  BY DEF BudgetInv
<1>h. ASSUME NEW r \in Relays, Held(r) = {} PROVE \A e \in Events : ~InHand(e)
  BY <1>h DEF InHand, OneRelay
<1>r. ASSUME \A r \in Relays : pc'[r] = "retry" => pc[r] = "retry" /\ cur'[r] = cur[r]
      PROVE  RetryLeft'
  BY <1>r, <1>b DEF RetryLeft, Exhausted
<1>1. ASSUME NEW f \in Events, CreateTicket(f) PROVE BudgetInv'
  <2>1. RetryLeft'
    BY <1>1, <1>r DEF CreateTicket, relayVars
  <2>2. ASSUME NEW e \in Events PROVE Budget(e)'
    <3>1. InHand(e)' = InHand(e) /\ UNCHANGED faults
      BY <1>1 DEF CreateTicket, relayVars, InHand, Held
    <3>2. CASE e = f
      <4>1. outbox'[e].attempts = 0
        BY <1>1, <1>t, <3>2 DEF CreateTicket, Row
      <4> QED BY <3>1, <4>1, <1>t, ParametersAssumption DEF Budget
    <3>3. CASE e # f
      <4>1. outbox'[e] = outbox[e]
        BY <1>1, <1>t, <3>3 DEF CreateTicket
      <4> QED BY <3>1, <4>1, <1>b, <1>t, BudgetKept
    <3> QED BY <3>2, <3>3
  <2> QED BY <2>1, <2>2 DEF BudgetInv
<1>2. ASSUME NEW r \in Relays, ResetStuck(r) PROVE BudgetInv'
  <2>1. RetryLeft'
    BY <1>2, <1>t, <1>r DEF ResetStuck, Goto
  <2>2. Held(r) = {}
    BY <1>2, <1>t DEF ResetStuck, Control, At, Held
  <2>3. faults' = faults \/ faults' = faults + 1
    BY <1>2 DEF ResetStuck, Fault
  <2>4. ASSUME NEW e \in Events PROVE Budget(e)'
    <3>1. /\ outbox'[e].attempts = outbox[e].attempts
          /\ outbox[e].status \in Settled => outbox'[e].status \in Settled
      BY <1>2, <1>t DEF ResetStuck, AfterReset, Stuck, Row, Settled
    <3>2. ~InHand(e)
      BY <2>2, <1>h
    <3> QED BY <3>1, <3>2, <2>3, <1>b, <1>t, BudgetKept
  <2> QED BY <2>1, <2>4 DEF BudgetInv
<1>3. ASSUME NEW r \in Relays, ClaimPending(r) PROVE BudgetInv'
  <2>1. RetryLeft'
    BY <1>3, <1>t, <1>r DEF ClaimPending, Goto
  <2>2. Held(r) = {} /\ cur[r] = NoClaim
    BY <1>3, <1>t DEF ClaimPending, Control, At, Held
  <2>3. ASSUME NEW e \in Events PROVE Budget(e)'
    <3>1. ~InHand(e)
      BY <2>2, <1>h
    <3>2. CASE outbox'[e] = outbox[e]
      <4>1. faults' = faults \/ faults' = faults + 1
        BY <1>3 DEF ClaimPending, Fault
      <4> QED BY <3>1, <3>2, <4>1, <1>b, <1>t, BudgetKept
    <3>3. CASE outbox'[e] # outbox[e]
      <4>1. outbox' = AfterClaim /\ e \in Due
        BY <3>3, <1>3, <1>t DEF ClaimPending, AfterClaim
      <4>2. outbox'[e].attempts = outbox[e].attempts + 1
        BY <4>1 DEF AfterClaim, Row
      <4>3. MaxAttempts > 0 => outbox[e].attempts < MaxAttempts + faults
        BY <4>1, <3>1, <1>b DEF Due, Eligible, Settled, Budget
      <4>4. CASE faults' = faults + 1
        BY <4>2, <4>3, <4>4, <1>t, ParametersAssumption DEF Budget
      <4>5. CASE batch' = [batch EXCEPT ![r] = NewClaims] /\ UNCHANGED faults
        <5>1. NewClaims \subseteq Held(r)'
          BY <4>5, <1>t DEF Held
        <5>2. [id |-> e, attempts |-> outbox[e].attempts + 1] \in NewClaims
          BY <4>1, Zenon DEF NewClaims
        <5>3. InHand(e)'
          BY <5>1, <5>2 DEF InHand
        <5> QED BY <4>2, <4>3, <4>5, <5>3, <1>t, ParametersAssumption DEF Budget
      <4> QED BY <1>3, <4>4, <4>5 DEF ClaimPending, Fault
    <3> QED BY <3>2, <3>3
  <2> QED BY <2>1, <2>3 DEF BudgetInv
<1>4. ASSUME NEW r \in Relays, Publish(r) PROVE BudgetInv'
  <2>1. PICK c \in batch[r] : /\ batch' = [batch EXCEPT ![r] = @ \ {c}]
                              /\ cur' = [cur EXCEPT ![r] = c]
                              /\ PublishOk(r, c) \/ PublishError(r, c)
    BY <1>4 DEF Publish
  <2>2. cur'[r] = c /\ \A s \in Relays : s = r
    BY <2>1, <1>t DEF OneRelay
  <2>3. pc'[r] = "retry" => ~Exhausted(c)
    BY <2>1, <1>t DEF PublishOk, PublishError, Goto
  <2>4. RetryLeft'
    BY <2>2, <2>3 DEF RetryLeft, Exhausted
  <2>5. Held(r) \subseteq Held(r)'
    <3>1. cur[r] = NoClaim /\ c \in Claims /\ c # NoClaim
      BY <1>4, <1>t, NoClaimAssumption DEF Publish, Control, At
    <3> QED BY <3>1, <2>1, <1>t DEF Held
  <2>6. ASSUME NEW e \in Events PROVE Budget(e)'
    <3>1. InHand(e) => InHand(e)'
      BY <2>2, <2>5 DEF InHand
    <3> QED BY <3>1, <1>4, <1>b, <1>t, BudgetKept DEF Publish
  <2> QED BY <2>4, <2>6 DEF BudgetInv
<1>5. ASSUME NEW r \in Relays, NextRow(r), pc[r] \in {"sent", "retry", "dead"}
      PROVE  /\ RetryLeft'
             /\ cur[r] \in Claims /\ cur[r] \in Held(r)
             /\ \A e \in Events : InHand(e) => e = cur[r].id \/ InHand(e)'
  <2>1. RetryLeft'
    BY <1>5, <1>t, <1>r DEF NextRow, Goto, OneRelay
  <2>2. cur[r] \in Claims /\ cur[r] # NoClaim /\ cur[r] \in Held(r)
    BY <1>5, <1>t, NoClaimAssumption DEF Control, At, Held
  <2>3. Held(r) = batch[r] \cup {cur[r]} /\ batch[r] \subseteq Held(r)'
    BY <1>5, <2>2 DEF NextRow, Held
  <2>4. ASSUME NEW e \in Events, InHand(e) PROVE e = cur[r].id \/ InHand(e)'
    <3>1. PICK c \in Held(r) : c.id = e
      BY <2>4 DEF InHand, OneRelay
    <3> QED BY <3>1, <2>3 DEF InHand
  <2> QED BY <2>1, <2>2, <2>4
<1>6. ASSUME NEW r \in Relays, NextRow(r), pc[r] \in {"sent", "retry", "dead"},
             Fault, UNCHANGED outbox
      PROVE  BudgetInv'
  <2>1. ASSUME NEW e \in Events PROVE Budget(e)'
    BY <1>6, <1>b, <1>t, BudgetKept DEF Fault
  <2> QED BY <1>5, <1>6, <2>1 DEF BudgetInv
<1>7. ASSUME NEW r \in Relays, NextRow(r), pc[r] \in {"sent", "dead"},
             NEW status \in Settled, Mark(cur[r].id, status), UNCHANGED faults
      PROVE  BudgetInv'
  <2>1. ASSUME NEW e \in Events PROVE Budget(e)'
    <3>1. CASE e = cur[r].id
      <4>1. outbox'[e].attempts = outbox[e].attempts /\ outbox'[e].status \in Settled
        BY <1>7, <3>1, <1>t DEF Mark, Row
      <4> QED BY <4>1, <1>7, <1>b, <1>t, BudgetKept
    <3>2. CASE e # cur[r].id
      <4>1. outbox'[e] = outbox[e]
        BY <1>7, <3>2, <1>t DEF Mark
      <4> QED BY <4>1, <3>2, <1>5, <1>7, <1>b, <1>t, BudgetKept
    <3> QED BY <3>1, <3>2
  <2> QED BY <1>5, <1>7, <2>1 DEF BudgetInv
<1>8. ASSUME NEW r \in Relays, MarkSent(r) \/ MarkDead(r) PROVE BudgetInv'
  BY <1>6, <1>7, <1>8 DEF MarkSent, MarkDead, Settle, Settled
<1>9. ASSUME NEW r \in Relays, MarkFailed(r) PROVE BudgetInv'
  <2>1. NextRow(r) /\ pc[r] = "retry"
    BY <1>9 DEF MarkFailed, Settle
  <2>2. ASSUME UNCHANGED faults, NEW wait,
               outbox' = [outbox EXCEPT ![cur[r].id] = Row("pending", @.attempts, Null, wait)]
        PROVE  BudgetInv'
    <3>1. ASSUME NEW e \in Events, e = cur[r].id PROVE Budget(e)'
      <4>1. outbox'[e].attempts = outbox[e].attempts
        BY <2>2, <3>1, <1>t DEF Row
      <4>2. outbox[e].attempts = cur[r].attempts
        BY <2>1, <3>1, <1>5 DEF SoleOwner
      <4>3. ~Exhausted(cur[r])
        BY <2>1, <1>b DEF RetryLeft
      <4> QED
        BY <4>1, <4>2, <4>3, <2>2, <1>t, ParametersAssumption DEF Budget, Exhausted
    <3>2. ASSUME NEW e \in Events, e # cur[r].id PROVE Budget(e)'
      <4>1. outbox'[e] = outbox[e]
        BY <2>2, <3>2, <1>t
      <4> QED BY <4>1, <3>2, <1>5, <2>1, <2>2, <1>b, <1>t, BudgetKept
    <3> QED BY <3>1, <3>2, <1>5, <2>1 DEF BudgetInv
  <2> QED BY <1>6, <1>9, <2>1, <2>2 DEF MarkFailed, Settle
<1>10. ASSUME NEW r \in Relays, PublishDlq(r) PROVE BudgetInv'
  <2>1. RetryLeft'
    BY <1>10, <1>t, <1>r DEF PublishDlq, Goto
  <2>2. ASSUME NEW e \in Events PROVE Budget(e)'
    <3>1. InHand(e)' = InHand(e)
      BY <1>10 DEF PublishDlq, InHand, Held
    <3> QED BY <3>1, <1>10, <1>b, <1>t, BudgetKept DEF PublishDlq
  <2> QED BY <2>1, <2>2 DEF BudgetInv
<1>11. ASSUME NEW r \in Relays, Crash(r) PROVE BudgetInv'
  <2>1. RetryLeft'
    BY <1>11, <1>t, <1>r DEF Crash, Goto, OneRelay
  <2>2. ASSUME NEW e \in Events PROVE Budget(e)'
    BY <1>11, <1>b, <1>t, BudgetKept DEF Crash, Fault
  <2> QED BY <2>1, <2>2 DEF BudgetInv
<1>12. CASE Tick
  <2>1. RetryLeft'
    BY <1>12, <1>r DEF Tick, relayVars
  <2>2. ASSUME NEW e \in Events PROVE Budget(e)'
    <3>1. InHand(e)' = InHand(e) /\ UNCHANGED faults
      BY <1>12 DEF Tick, relayVars, InHand, Held
    <3>2. outbox'[e].attempts = outbox[e].attempts /\ outbox'[e].status = outbox[e].status
      BY <1>12 DEF Tick, Row
    <3> QED BY <3>1, <3>2, <1>b, <1>t, BudgetKept
  <2> QED BY <2>1, <2>2 DEF BudgetInv
<1>13. CASE UNCHANGED vars
  BY <1>13, <1>b DEF vars, BudgetInv, RetryLeft, Budget, InHand, Held, Exhausted
<1> QED BY <1>1, <1>2, <1>3, <1>4, <1>8, <1>9, <1>10, <1>11, <1>12, <1>13
        DEF Next, RelayStep

(* With one relay OUTBOX_RELAY_MAX_ATTEMPTS is exceeded only by as many    *)
(* attempts as there were crashes and database errors.                     *)
THEOREM SingleRelayOverrunIsPaid ==
  ASSUME OneRelay
  PROVE  Spec => []OverrunPaidByFaults
<1>1. Init => BudgetInv
  BY ParametersAssumption
     DEF Init, BudgetInv, RetryLeft, Budget, NoRow, Row
<1>2. IInv /\ BudgetInv => OverrunPaidByFaults
  BY DEF BudgetInv, Budget, OverrunPaidByFaults
<1> QED
  BY <1>1, <1>2, BudgetNext, SingleRelayOwns, Invariance, PTL DEF Spec

--------------------------------------------------------------------------------
(* Claims of a row that some relay has still to publish, by their attempt  *)
(* number.                                                                 *)
Unpublished(e) ==
  {k \in Nat : \E r \in Relays : [id |-> e, attempts |-> k] \in batch[r]}

(* Claims of a row that were published, or that a crash or an error took   *)
(* away before they could be.                                              *)
Spent(e) == outbox[e].attempts - Cardinality(Unpublished(e))

(* Every claim that is spent made MaxCopies copies at most.                *)
CopiesInv == \A e \in Events : copies[e] <= MaxCopies * Spent(e)

(* Multiplication is monotonic.                                            *)
LEMMA Scale ==
  ASSUME NEW m \in Nat, NEW a \in Nat, NEW b \in Nat, a <= b
  PROVE  m * a \in Nat /\ m * a <= m * b /\ m * (a + 1) = m * a + m
<1>1. PICK d \in Nat : b = a + d
  <2>1. b - a \in Nat /\ b = a + (b - a)
    OBVIOUS
  <2> QED BY <2>1
<1>2. m * b = m * a + m * d /\ m * d \in Nat /\ m * a \in Nat
  BY <1>1
<1> QED BY <1>2

(* Claims that are out are among those the row has counted.                *)
LEMMA UnpublishedCounted ==
  ASSUME TypeOK, ClaimsUnique, NEW e \in Events
  PROVE  /\ Unpublished(e) \subseteq 1..outbox[e].attempts
         /\ IsFiniteSet(Unpublished(e)) /\ Cardinality(Unpublished(e)) \in Nat
         /\ Spent(e) \in Nat
<1>1. outbox[e].attempts \in Nat
  BY DEF TypeOK, Rows
<1>2. ASSUME NEW k \in Unpublished(e) PROVE k \in 1..outbox[e].attempts
  <2>1. PICK r \in Relays : [id |-> e, attempts |-> k] \in Held(r)
    BY DEF Unpublished, Held
  <2>2. k > 0 /\ k <= outbox[e].attempts /\ k \in Nat
    BY <2>1 DEF ClaimsUnique, Unpublished
  <2> QED BY <1>1, <2>2
<1>3. Unpublished(e) \in SUBSET (1..outbox[e].attempts)
  BY <1>2
<1>4. PICK n \in Nat, U \in SUBSET Nat :
        n = outbox[e].attempts /\ U = Unpublished(e) /\ U \in SUBSET (1..n)
  BY <1>1, <1>3 DEF Unpublished
<1>5. /\ IsFiniteSet(Unpublished(e))
      /\ Cardinality(Unpublished(e)) <= outbox[e].attempts
  <2>1. IsFiniteSet(1..n) /\ Cardinality(1..n) = IF 1 > n THEN 0 ELSE n - 1 + 1
    BY FS_Interval
  <2>2. Cardinality(1..n) = n
    BY <2>1
  <2> QED BY <1>4, <2>1, <2>2, FS_Subset
<1>6. Cardinality(Unpublished(e)) \in Nat
  BY <1>5, FS_CardinalityType
<1> QED BY <1>1, <1>3, <1>5, <1>6 DEF Spent

(* The same before and after a step.                                       *)
LEMMA SpentType == TypeOK /\ ClaimsUnique => \A e \in Events : Spent(e) \in Nat
BY UnpublishedCounted

(* The same after a step.                                                  *)
LEMMA SpentTypeNext == (TypeOK /\ ClaimsUnique => \A e \in Events : Spent(e) \in Nat)'
BY SpentType, PTL

(* The price of a step: without new copies the claims that are spent must  *)
(* not become fewer; a publish spends one.                                 *)
LEMMA CopiesKept ==
  ASSUME TypeOK, ClaimsUnique, TypeOK', ClaimsUnique', NEW e \in Events,
         copies[e] <= MaxCopies * Spent(e),
         \/ copies'[e] = copies[e] /\ Spent(e)' >= Spent(e)
         \/ copies'[e] <= copies[e] + MaxCopies /\ Spent(e)' >= Spent(e) + 1
  PROVE  copies'[e] <= MaxCopies * Spent(e)'
<1>1. Spent(e) \in Nat /\ Spent(e)' \in Nat
  BY SpentType, SpentTypeNext
<1>2. copies[e] \in Nat /\ copies'[e] \in Nat /\ MaxCopies \in Nat
  BY BoundsAssumption DEF TypeOK
<1>3. PICK a \in Nat, b \in Nat : a = Spent(e) /\ b = Spent(e)'
  BY <1>1
<1>4. CASE a <= b /\ copies'[e] = copies[e]
  BY <1>2, <1>3, <1>4, Scale
<1>5. CASE a + 1 <= b /\ copies'[e] <= copies[e] + MaxCopies
  <2>1. MaxCopies * (a + 1) <= MaxCopies * b /\ MaxCopies * (a + 1) = MaxCopies * a + MaxCopies
    BY <1>2, <1>5, Scale
  <2>2. MaxCopies * a \in Nat /\ MaxCopies * b \in Nat
    BY <1>2, Scale
  <2> QED BY <1>2, <1>3, <1>5, <2>1, <2>2
<1> QED BY <1>3, <1>4, <1>5

(* A claim is spent once and for all: dropping claims only adds to those.  *)
LEMMA SpentGrows ==
  ASSUME TypeOK, ClaimsUnique, TypeOK', ClaimsUnique', NEW e \in Events,
         outbox'[e].attempts >= outbox[e].attempts,
         Unpublished(e)' \subseteq Unpublished(e)
  PROVE  Spent(e)' >= Spent(e)
<1>1. outbox[e].attempts \in Nat /\ outbox'[e].attempts \in Nat
  BY DEF TypeOK, Rows
<1>2. IsFiniteSet(Unpublished(e)) /\ Cardinality(Unpublished(e)) \in Nat
  BY UnpublishedCounted
<1>3. PICK U, V : U = Unpublished(e) /\ V = Unpublished(e)'
  OBVIOUS
<1>4. IsFiniteSet(V) /\ Cardinality(V) <= Cardinality(U) /\ Cardinality(V) \in Nat
  BY <1>2, <1>3, FS_Subset, FS_CardinalityType
<1> QED BY <1>1, <1>2, <1>3, <1>4 DEF Spent

(* Every copy is paid for by a claim that is spent.                        *)
LEMMA CopiesNext == IInv /\ CopiesInv /\ [Next]_vars => CopiesInv'
<1> SUFFICES ASSUME IInv, CopiesInv, [Next]_vars PROVE CopiesInv'
  OBVIOUS
<1>t. TypeOK /\ TypeOK' /\ ClaimsUnique /\ ClaimsUnique' /\ Control
  BY TypeNext, ClaimsNext DEF IInv
<1>a. /\ outbox \in [Events -> Rows] /\ outbox' \in [Events -> Rows]
      /\ \A e \in Events : outbox[e].attempts \in Nat
      /\ batch \in [Relays -> SUBSET Claims]
      /\ cur \in [Relays -> Claims \cup {NoClaim}]
      /\ copies \in [Events -> Nat]
  BY <1>t DEF TypeOK, Rows
<1>s. ASSUME \A r \in Relays : batch'[r] \subseteq batch[r], UNCHANGED copies,
             \A e \in Events : outbox'[e].attempts >= outbox[e].attempts
      PROVE  CopiesInv'
  <2>1. ASSUME NEW e \in Events PROVE copies'[e] <= MaxCopies * Spent(e)'
    <3>1. Unpublished(e)' \subseteq Unpublished(e)
      BY <1>s DEF Unpublished
    <3>2. Spent(e)' >= Spent(e)
      BY <3>1, <1>s, <1>t, SpentGrows
    <3> QED BY <3>2, <1>s, <1>t, CopiesKept DEF CopiesInv
  <2> QED BY <2>1 DEF CopiesInv
<1>1. ASSUME NEW f \in Events, CreateTicket(f) PROVE CopiesInv'
  <2>1. \A e \in Events : outbox'[e].attempts >= outbox[e].attempts
    BY <1>1, <1>a DEF CreateTicket, Row, IInv, RowInv, AbsentUnclaimed
  <2> QED BY <2>1, <1>1, <1>s DEF CreateTicket, relayVars
<1>2. ASSUME NEW r \in Relays, ResetStuck(r) PROVE CopiesInv'
  <2>1. \A e \in Events : outbox'[e].attempts >= outbox[e].attempts
    BY <1>2, <1>a DEF ResetStuck, AfterReset, Row
  <2> QED BY <2>1, <1>2, <1>s DEF ResetStuck
<1>3. ASSUME NEW r \in Relays, ClaimPending(r) PROVE CopiesInv'
  <2>1. \A e \in Events : outbox'[e].attempts >= outbox[e].attempts
    BY <1>3, <1>a DEF ClaimPending, AfterClaim, Row
  <2>2. UNCHANGED copies
    BY <1>3 DEF ClaimPending
  <2>3. CASE UNCHANGED batch
    BY <2>1, <2>2, <2>3, <1>s
  <2>4. CASE outbox' = AfterClaim /\ batch' = [batch EXCEPT ![r] = NewClaims]
    <3>1. batch'[r] = NewClaims /\ \A s \in Relays \ {r} : batch'[s] = batch[s]
      BY <2>4, <1>a
    <3>2. ASSUME NEW e \in Events, NEW k \in Nat, [id |-> e, attempts |-> k] \in NewClaims
          PROVE  e \in Due /\ k = outbox[e].attempts + 1
      <4>1. PICK d \in Due : [id |-> e, attempts |-> k] = [id |-> d, attempts |-> outbox[d].attempts + 1]
        BY <3>2, Zenon DEF NewClaims
      <4> QED BY <4>1
    <3>3. ASSUME NEW e \in Events PROVE copies'[e] <= MaxCopies * Spent(e)'
      <4>1. CASE e \notin Due
        <5>1. Unpublished(e)' \subseteq Unpublished(e)
          BY <3>1, <3>2, <4>1 DEF Unpublished
        <5>2. Spent(e)' >= Spent(e)
          BY <5>1, <2>1, <1>t, SpentGrows
        <5> QED BY <5>2, <2>2, <1>t, CopiesKept DEF CopiesInv
      <4>2. CASE e \in Due
        <5>1. PICK a \in Nat : a = outbox[e].attempts
          BY <1>a
        <5>2. Unpublished(e)' \subseteq Unpublished(e) \cup {a + 1}
          BY <3>1, <3>2, <5>1 DEF Unpublished
        <5>3. PICK U, V : U = Unpublished(e) /\ V = Unpublished(e)'
          OBVIOUS
        <5>4. IsFiniteSet(U) /\ Cardinality(U) \in Nat
          BY <5>3, <1>t, UnpublishedCounted
        <5>5. /\ IsFiniteSet(U \cup {a + 1}) /\ Cardinality(U \cup {a + 1}) \in Nat
              /\ Cardinality(U \cup {a + 1}) <= Cardinality(U) + 1
          BY <5>4, FS_AddElement
        <5>6. Cardinality(V) \in Nat /\ Cardinality(V) <= Cardinality(U) + 1
          BY <5>2, <5>3, <5>4, <5>5, FS_Subset, FS_CardinalityType
        <5>7. outbox'[e].attempts = a + 1
          BY <2>4, <4>2, <5>1 DEF AfterClaim, Row
        <5>8. Spent(e)' >= Spent(e)
          BY <5>1, <5>3, <5>4, <5>6, <5>7 DEF Spent
        <5> QED BY <5>8, <2>2, <1>t, CopiesKept DEF CopiesInv
      <4> QED BY <4>1, <4>2
    <3> QED BY <3>3 DEF CopiesInv
  <2> QED BY <1>3, <2>3, <2>4 DEF ClaimPending
<1>4. ASSUME NEW r \in Relays, Publish(r) PROVE CopiesInv'
  <2>1. PICK c \in batch[r] : /\ batch' = [batch EXCEPT ![r] = @ \ {c}]
                              /\ PublishOk(r, c) \/ PublishError(r, c)
    BY <1>4 DEF Publish
  <2>2. c \in Claims /\ c.id \in Events /\ c.attempts \in Nat
    BY <1>a DEF Claims
  <2>3. PICK n \in 0..MaxCopies : copies' = [copies EXCEPT ![c.id] = @ + n]
    BY <2>1, BoundsAssumption DEF PublishOk, PublishError
  <2>4. batch'[r] = batch[r] \ {c} /\ \A s \in Relays \ {r} : batch'[s] = batch[s]
    BY <2>1, <1>a
  <2>5. \A s \in Relays \ {r} : c \notin batch[s]
    BY <1>t DEF ClaimsUnique, Held
  <2>6. UNCHANGED outbox
    BY <1>4 DEF Publish
  <2>7. ASSUME NEW e \in Events PROVE copies'[e] <= MaxCopies * Spent(e)'
    <3>1. Unpublished(e)' \subseteq Unpublished(e)
      BY <2>4 DEF Unpublished
    <3>2. CASE e # c.id
      <4>1. Spent(e)' >= Spent(e)
        BY <3>1, <2>6, <1>a, <1>t, SpentGrows
      <4> QED BY <3>2, <4>1, <2>3, <1>a, <1>t, CopiesKept DEF CopiesInv
    <3>3. CASE e = c.id
      <4>1. [id |-> e, attempts |-> c.attempts] = c
        BY <2>2, <3>3 DEF Claims
      <4>2. c.attempts \in Unpublished(e)
        BY <2>2, <4>1 DEF Unpublished
      <4>3. c.attempts \notin Unpublished(e)'
        BY <2>4, <2>5, <4>1 DEF Unpublished
      <4>4. PICK U, V, k : U = Unpublished(e) /\ V = Unpublished(e)' /\ k = c.attempts
        OBVIOUS
      <4>5. IsFiniteSet(U) /\ Cardinality(U) \in Nat /\ V \subseteq U \ {k} /\ k \in U
        BY <3>1, <4>2, <4>3, <4>4, <1>t, UnpublishedCounted
      <4>6. IsFiniteSet(U \ {k}) /\ Cardinality(U \ {k}) = Cardinality(U) - 1
        BY <4>5, FS_RemoveElement
      <4>7. Cardinality(V) \in Nat /\ Cardinality(V) <= Cardinality(U) - 1
        BY <4>5, <4>6, FS_Subset, FS_CardinalityType
      <4>8. Spent(e)' >= Spent(e) + 1
        BY <4>4, <4>5, <4>7, <2>6, <1>a DEF Spent
      <4>9. copies'[e] <= copies[e] + MaxCopies
        BY <2>3, <3>3, <1>a, BoundsAssumption
      <4> QED BY <4>8, <4>9, <1>t, CopiesKept DEF CopiesInv
    <3> QED BY <3>2, <3>3
  <2> QED BY <2>7 DEF CopiesInv
<1>5. ASSUME NEW r \in Relays, MarkSent(r) \/ MarkDead(r) PROVE CopiesInv'
  <2>1. \A e \in Events : outbox'[e].attempts >= outbox[e].attempts
    BY <1>5, <1>a DEF MarkSent, MarkDead, Settle, Mark, Row
  <2> QED BY <2>1, <1>5, <1>s DEF MarkSent, MarkDead, Settle, NextRow
<1>6. ASSUME NEW r \in Relays, MarkFailed(r) PROVE CopiesInv'
  <2>1. UNCHANGED <<batch, copies>>
    BY <1>6 DEF MarkFailed, Settle, NextRow
  <2>2. CASE UNCHANGED outbox
    BY <2>1, <2>2, <1>a, <1>s
  <2>3. ASSUME NEW wait,
               outbox' = [outbox EXCEPT ![cur[r].id] = Row("pending", @.attempts, Null, wait)]
        PROVE  CopiesInv'
    <3>1. \A e \in Events : outbox'[e].attempts >= outbox[e].attempts
      BY <2>3, <1>a DEF Row
    <3> QED BY <2>1, <3>1, <1>s
  <2> QED BY <1>6, <2>2, <2>3 DEF MarkFailed, Settle
<1>7. ASSUME NEW r \in Relays, PublishDlq(r) PROVE CopiesInv'
  BY <1>7, <1>a, <1>s DEF PublishDlq
<1>8. ASSUME NEW r \in Relays, Crash(r) PROVE CopiesInv'
  BY <1>8, <1>a, <1>s DEF Crash
<1>9. CASE Tick
  <2>1. \A e \in Events : outbox'[e].attempts >= outbox[e].attempts
    BY <1>9, <1>a DEF Tick, Row
  <2> QED BY <2>1, <1>9, <1>s DEF Tick, relayVars
<1>10. CASE UNCHANGED vars
  BY <1>10, <1>a, <1>s DEF vars
<1> QED BY <1>1, <1>2, <1>3, <1>4, <1>5, <1>6, <1>7, <1>8, <1>9, <1>10 DEF Next, RelayStep

(* However many relays race for the rows, crash or fail to mark them, an   *)
(* event is in the topic MaxCopies times at most for every attempt its row *)
(* counts.                                                                 *)
THEOREM DuplicationIsBounded == Spec => []BoundedDuplication
<1>1. Init => CopiesInv
  <2> SUFFICES ASSUME Init, NEW e \in Events PROVE copies[e] <= MaxCopies * Spent(e)
    BY DEF CopiesInv
  <2>1. Unpublished(e) = {}
    BY DEF Init, Unpublished
  <2>2. Spent(e) = 0
    BY <2>1, FS_EmptySet DEF Init, NoRow, Row, Spent
  <2> QED BY <2>2, BoundsAssumption DEF Init
<1>2. IInv /\ CopiesInv => BoundedDuplication
  <2> SUFFICES ASSUME IInv, CopiesInv, NEW e \in Events
               PROVE  copies[e] <= MaxCopies * outbox[e].attempts
    BY DEF BoundedDuplication
  <2>1. /\ Cardinality(Unpublished(e)) \in Nat /\ Spent(e) \in Nat
        /\ outbox[e].attempts \in Nat /\ copies[e] \in Nat /\ MaxCopies \in Nat
    BY UnpublishedCounted, BoundsAssumption DEF IInv, TypeOK, Rows
  <2>2. PICK a \in Nat, b \in Nat : a = Spent(e) /\ b = outbox[e].attempts
    BY <2>1
  <2>3. a <= b
    BY <2>1, <2>2 DEF Spent
  <2>4. MaxCopies * a <= MaxCopies * b /\ MaxCopies * a \in Nat /\ MaxCopies * b \in Nat
    BY <2>1, <2>2, <2>3, Scale
  <2> QED BY <2>1, <2>2, <2>4 DEF CopiesInv
<1> QED BY <1>1, <1>2, CopiesNext, Invariance, PTL DEF Spec
=================================================================================
