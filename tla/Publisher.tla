------------------------------- MODULE Publisher -------------------------------
(***************************************************************************)
(* What a caller of Producer.Produce may rely on: a call that returns nil  *)
(* has put its message into the topic, at most MaxCopies times, and no     *)
(* copy comes after it.  A call that returns an error promises nothing:    *)
(* copies may be there, and may still come.                                *)
(***************************************************************************)
EXTENDS Naturals

CONSTANTS
  Calls,     \* calls of Produce, each with a message of its own
  MaxCopies  \* copies of a message one call can append

VARIABLES
  result,  \* call -> "none", "ok" or "error"
  copies   \* call -> how many times its message is in the topic

vars == <<result, copies>>

Init ==
  /\ result = [c \in Calls |-> "none"]
  /\ copies = [c \in Calls |-> 0]

AppendCopies(c) ==
  /\ copies'[c] \in copies[c]..MaxCopies
  /\ copies' = [copies EXCEPT ![c] = copies'[c]]

Deliver(c) == result[c] # "ok" /\ AppendCopies(c) /\ UNCHANGED result

Return(c) ==
  /\ result[c] = "none" /\ AppendCopies(c)
  /\ \/ result' = [result EXCEPT ![c] = "error"]
     \/ result' = [result EXCEPT ![c] = "ok"] /\ copies'[c] > 0

Next == \E c \in Calls : Deliver(c) \/ Return(c)

Spec == Init /\ [][Next]_vars
================================================================================
