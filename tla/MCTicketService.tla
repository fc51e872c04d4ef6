---------------------------- MODULE MCTicketService ----------------------------
(* Small instances of TicketService for TLC.                               *)
EXTENDS TicketService

Post(json, title, description) ==
  [method |-> "POST", json |-> json, title |-> title, description |-> description]

\* The longest request Validate accepts, one it rejects and one that is no POST.
BodyCases ==
  {Post(TRUE, 200, 5000), Post(TRUE, 2, 0), [Post(TRUE, 3, 0) EXCEPT !.method = "other"]}
================================================================================
