--------------------------- MODULE MCTronWatcher ---------------------------
(* Small instances of TronWatcher.                                         *)
EXTENDS TronWatcher, TLC

CONSTANTS t1, t2, t3, x1, x2, x3, i1, i2

OneEach == t1 :> x1 @@ t2 :> x2 @@ t3 :> x3
(* t1 and t2 fall into one invoice's window, t3 into another's.            *)
Rivals == t1 :> i1 @@ t2 :> i1 @@ t3 :> i2
OnlyOne == t1 :> x1
PaysFirst == t1 :> i1
PaysRest == t2 :> i1 @@ t3 :> i2
OneForAll == [t \in Transfers |-> x1]
=============================================================================
