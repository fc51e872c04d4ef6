---------------------------- MODULE MCOutboxRelay ----------------------------
(* Small instances of OutboxRelay for TLC.                                *)
EXTENDS OutboxRelay, TLC

RelaySymmetry == Permutations(Relays)
==============================================================================
