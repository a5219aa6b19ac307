---------------------------- MODULE MCBscWatcher ----------------------------
(* Small instances of BscWatcher.                                          *)
EXTENDS BscWatcher, TLC

CONSTANTS t1, t2

Interchangeable == Permutations(Transfers)
=============================================================================
