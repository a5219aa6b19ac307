------------------------------ MODULE MCOutbox ------------------------------
(* Small instances of Outbox.                                              *)
EXTENDS Outbox, TLC

CONSTANTS e1, e2, e3, e4, d1, d2

Interchangeable == Permutations(Events) \cup Permutations(Dispatchers)
=============================================================================
