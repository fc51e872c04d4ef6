-------------------------- MODULE KafkaProducerProofs --------------------------
(***************************************************************************)
(* Proofs about KafkaProducer for any number of calls, any pause between   *)
(* resets and any number of copies per write.                              *)
(***************************************************************************)
EXTENDS KafkaProducer, TLAPS

(* How many copies of a message there can be: a call to come has none, the *)
(* one in progress what its first write left, and what is still in the     *)
(* writer is at most one write's.                                          *)
Room(c) ==
  /\ c > call => result[c] = "none" /\ copies[c] = 0
  /\ c \in pending => c <= call /\ result[c] = "error" /\ copies[c] <= PerWrite
  /\ copies[c] <= 2 * PerWrite

(* The call in progress.                                                   *)
InProgress ==
  pc # "idle" =>
    /\ call \in Calls /\ result[call] = "none" /\ call \notin pending
    /\ copies[call] <= IF pc = "write" THEN 0 ELSE PerWrite

(* The inductive invariant.                                                *)
IInv == TypeOK /\ InProgress /\ \A c \in Calls : Room(c)

--------------------------------------------------------------------------------
(* Nothing is written at the start.                                        *)
LEMMA InitIInv == Init => IInv
<1> SUFFICES ASSUME Init PROVE IInv
  OBVIOUS
<1> USE ConstantsAssumption DEF Init
<1>1. stale \in BOOLEAN /\ open \in BOOLEAN
  BY Zenon
<1>2. TypeOK
  BY <1>1 DEF TypeOK
<1> QED BY <1>2 DEF IInv, InProgress, Room

(* Type correctness.  A step of Produce has a call in progress.            *)
LEMMA TypeNext == TypeOK /\ InProgress /\ [Next]_vars => TypeOK'
<1> SUFFICES ASSUME TypeOK, InProgress, [Next]_vars PROVE TypeOK'
  OBVIOUS
<1> USE ConstantsAssumption DEF TypeOK, Calls, Return, AddCopies
<1>1. CASE Produce
  BY <1>1 DEF Produce
<1>2. CASE WriteOk
  BY <1>2 DEF WriteOk, InProgress
<1>3. CASE WriteBroken
  BY <1>3 DEF WriteBroken, InProgress
<1>4. CASE WriteTimeout
  BY <1>4 DEF WriteTimeout, InProgress
<1>5. CASE resetOnce
  <2>1. stale' \in BOOLEAN /\ UNCHANGED open
    BY <1>5, Zenon DEF resetOnce
  <2>2. sinceReset' \in 0..ResetPause
    BY <1>5 DEF resetOnce
  <2> QED BY <1>5, <2>1, <2>2 DEF resetOnce
<1>6. CASE Close
  BY <1>6 DEF Close
<1>7. ASSUME NEW c \in Calls, Flush(c) PROVE TypeOK'
  BY <1>7 DEF Flush
<1>8. CASE BrokerMoves
  BY <1>8 DEF BrokerMoves
<1>9. CASE RefreshMetadata
  <2>1. stale' \in BOOLEAN /\ UNCHANGED <<open, sinceReset>>
    BY <1>9, Zenon DEF RefreshMetadata
  <2> QED BY <1>9, <2>1 DEF RefreshMetadata
<1>10. CASE Tick
  BY <1>10 DEF Tick
<1>11. CASE UNCHANGED vars
  BY <1>11 DEF vars
<1> QED
  BY <1>1, <1>2, <1>3, <1>4, <1>5, <1>6, <1>7, <1>8, <1>9, <1>10, <1>11
     DEF Next, ProduceStep

(* A call writes twice at most, and only its last write is left behind.    *)
LEMMA RoomNext ==
  IInv /\ [Next]_vars => InProgress' /\ \A c \in Calls : Room(c)'
<1> SUFFICES ASSUME IInv, [Next]_vars
             PROVE  InProgress' /\ \A c \in Calls : Room(c)'
  OBVIOUS
<1>t. /\ call \in 0..MaxCalls /\ pc \in {"idle", "write", "reset", "rewrite"}
      /\ result \in [Calls -> {"none", "ok", "error"}]
      /\ copies \in [Calls -> Nat] /\ pending \subseteq Calls
  BY DEF IInv, TypeOK
<1>i. InProgress /\ \A c \in Calls : Room(c)
  BY DEF IInv
<1> DEFINE Goal == InProgress /\ \A q \in Calls : Room(q)
<1> USE ConstantsAssumption, <1>t, <1>i DEF InProgress, Room, Calls, Return, AddCopies
<1>1. CASE Produce
  BY <1>1 DEF Produce
<1>2. CASE WriteOk
  BY <1>2 DEF WriteOk
<1>3. CASE WriteBroken
  BY <1>3 DEF WriteBroken
<1>4. CASE WriteTimeout
  BY <1>4 DEF WriteTimeout
<1>5. CASE resetOnce
  BY <1>5 DEF resetOnce
<1>6. CASE Close
  BY <1>6 DEF Close
<1>7. ASSUME NEW c \in Calls, Flush(c) PROVE Goal'
  BY <1>7 DEF Flush
<1>8. CASE BrokerMoves \/ RefreshMetadata \/ Tick \/ UNCHANGED vars
  BY <1>8 DEF BrokerMoves, RefreshMetadata, Tick, vars
<1> QED
  BY <1>1, <1>2, <1>3, <1>4, <1>5, <1>6, <1>7, <1>8 DEF Next, ProduceStep

(* The inductive invariant holds throughout.                               *)
THEOREM Invariance == Spec => []IInv
<1>1. IInv /\ [Next]_vars => IInv'
  BY TypeNext, RoomNext DEF IInv
<1> QED BY InitIInv, <1>1, PTL DEF Spec

(* Type correctness.                                                       *)
THEOREM TypeCorrect == Spec => []TypeOK
<1>1. IInv => TypeOK
  BY DEF IInv
<1> QED BY <1>1, Invariance, PTL

--------------------------------------------------------------------------------
(* Copies that are added stay within the bound of Publisher.               *)
LEMMA CopiesStep ==
  ASSUME IInv, NEW c \in Calls, NEW n \in 0..PerWrite,
         copies[c] <= PerWrite, copies' = [copies EXCEPT ![c] = @ + n]
  PROVE  PublisherSpec!AppendCopies(c) /\ copies'[c] = copies[c] + n
<1>1. copies \in [Calls -> Nat]
  BY DEF IInv, TypeOK
<1> QED BY <1>1, ConstantsAssumption DEF PublisherSpec!AppendCopies

(* Every step of the producer is one of Publisher or invisible there.      *)
LEMMA PublisherStep ==
  IInv /\ [Next]_vars => [PublisherSpec!Next]_(PublisherSpec!vars)
<1> SUFFICES ASSUME IInv, [Next]_vars PROVE [PublisherSpec!Next]_(PublisherSpec!vars)
  OBVIOUS
<1>t. /\ call \in 0..MaxCalls /\ pc \in {"idle", "write", "reset", "rewrite"}
      /\ result \in [Calls -> {"none", "ok", "error"}]
      /\ copies \in [Calls -> Nat]
  BY DEF IInv, TypeOK
<1>i. InProgress /\ \A c \in Calls : Room(c)
  BY DEF IInv
<1>w. ASSUME pc \in {"write", "rewrite"}
      PROVE  call \in Calls /\ result[call] = "none" /\ copies[call] <= PerWrite
  BY <1>w, <1>i, <1>t, ConstantsAssumption DEF InProgress
<1>1. ASSUME Produce
      PROVE  (\E c \in Calls : PublisherSpec!Return(c)) \/ UNCHANGED <<result, copies>>
  <2>1. CASE open
    BY <1>1, <2>1 DEF Produce
  <2>2. CASE ~open
    <3>1. call + 1 \in Calls /\ result[call + 1] = "none"
      BY <1>1, <1>i, <1>t, ConstantsAssumption DEF Produce, Calls, Room
    <3>2. copies[call + 1] \in copies[call + 1]..(2 * PerWrite)
      BY <3>1, <1>i, <1>t, ConstantsAssumption DEF Room
    <3>3. PublisherSpec!Return(call + 1)
      BY <1>1, <2>2, <3>1, <3>2, <1>t
         DEF Produce, PublisherSpec!Return, PublisherSpec!AppendCopies
    <3> QED BY <3>1, <3>3
  <2> QED BY <2>1, <2>2
<1>2. ASSUME WriteOk PROVE \E c \in Calls : PublisherSpec!Return(c)
  <2>1. PICK n \in 1..PerWrite : copies' = [copies EXCEPT ![call] = @ + n]
    BY <1>2 DEF WriteOk, AddCopies
  <2>2. PublisherSpec!AppendCopies(call) /\ copies'[call] = copies[call] + n
    <3>1. n \in 0..PerWrite
      BY <2>1, ConstantsAssumption
    <3> QED BY <3>1, <2>1, <1>2, <1>w, CopiesStep DEF WriteOk
  <2>3. copies'[call] > 0
    BY <2>1, <2>2, <1>2, <1>w, <1>t, ConstantsAssumption DEF WriteOk
  <2> QED BY <2>2, <2>3, <1>2, <1>w DEF WriteOk, Return, PublisherSpec!Return
<1>3. ASSUME WriteBroken
      PROVE  \E c \in Calls : PublisherSpec!Deliver(c) \/ PublisherSpec!Return(c)
  <2>1. PICK n \in 0..PerWrite : copies' = [copies EXCEPT ![call] = @ + n]
    BY <1>3 DEF WriteBroken, AddCopies
  <2>2. PublisherSpec!AppendCopies(call)
    BY <2>1, <1>3, <1>w, CopiesStep DEF WriteBroken
  <2> QED
    BY <2>2, <1>3, <1>w DEF WriteBroken, Return, PublisherSpec!Return, PublisherSpec!Deliver
<1>4. ASSUME WriteTimeout PROVE \E c \in Calls : PublisherSpec!Return(c)
  <2>1. call \in Calls /\ result[call] = "none"
    BY <1>4, <1>w DEF WriteTimeout
  <2>2. PublisherSpec!AppendCopies(call)
    BY <2>1, <1>4, <1>t, <1>i, ConstantsAssumption
       DEF WriteTimeout, Room, PublisherSpec!AppendCopies
  <2> QED BY <2>1, <2>2, <1>4 DEF WriteTimeout, Return, PublisherSpec!Return
<1>5. ASSUME NEW c \in Calls, Flush(c) PROVE PublisherSpec!Deliver(c)
  <2>1. PICK n \in 0..PerWrite : copies' = [copies EXCEPT ![c] = @ + n]
    BY <1>5 DEF Flush, AddCopies
  <2>2. result[c] = "error" /\ copies[c] <= PerWrite
    BY <1>5, <1>i DEF Flush, Room
  <2>3. PublisherSpec!AppendCopies(c)
    BY <2>1, <2>2, CopiesStep
  <2> QED BY <2>2, <2>3, <1>5 DEF Flush, PublisherSpec!Deliver
<1>6. resetOnce \/ Close \/ BrokerMoves \/ RefreshMetadata \/ Tick \/ UNCHANGED vars
        => UNCHANGED <<result, copies>>
  BY DEF resetOnce, Close, BrokerMoves, RefreshMetadata, Tick, vars
<1> QED
  BY <1>1, <1>2, <1>3, <1>4, <1>5, <1>6
     DEF Next, ProduceStep, PublisherSpec!Next, PublisherSpec!vars

(* Produce keeps the promise its callers rely on: nil means the message is *)
(* in the topic, in at most twice the copies of a write, and that no more  *)
(* of them follow.                                                         *)
THEOREM PublisherRefinement == Spec => ImplementsPublisher
<1>1. Init => PublisherSpec!Init
  BY DEF Init, PublisherSpec!Init
<1> QED
  BY <1>1, PublisherStep, Invariance, PTL DEF Spec, ImplementsPublisher, PublisherSpec!Spec
================================================================================
