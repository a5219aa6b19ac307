---------------------------- MODULE MCAllocation ----------------------------
(* Small instances of Allocation.                                          *)
EXTENDS Allocation, TLC

CONSTANTS r1, r2, r3, k1

Anything == [r \in Requests |-> (Keys \cup {NoKey}) \X Bases]

(* All three may race for amounts, the one that is refused losing to both  *)
(* others, and two of them for a key, with one order or with two.          *)
Mixed == (r1 :> {<<NoKey, 1>>}) @@ (r2 :> {<<k1, 1>>})
           @@ (r3 :> {<<NoKey, 1>>, <<k1, 1>>, <<k1, 2>>})
=============================================================================
