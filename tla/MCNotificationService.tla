------------------------- MODULE MCNotificationService -------------------------
(* Small instances of NotificationService for TLC.                          *)
EXTENDS NotificationService, TLC

ConsumerSymmetry == Permutations(Consumers)
================================================================================
