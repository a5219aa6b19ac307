----------------------------- MODULE MCMatching -----------------------------
(* Small instances of Matching.                                            *)
EXTENDS Matching, TLC

CONSTANTS t1, t2

MCTransfers == {t1, t2}
(* t1 and t2 both fall in the window of the first amount, 10.              *)
SameWindow == t1 :> 10 @@ t2 :> 14
OneTransfer == t1 :> 10
SecondForeign == t1 :> 20 @@ t2 :> 20

(* How often each may be un-mined.                                         *)
Stable == [t \in Transfers |-> 0]
Once == [t \in Transfers |-> IF t = t1 THEN 1 ELSE 0]
=============================================================================
