--------------------------- MODULE MCEndpointPool ---------------------------
(* Small instances of EndpointPool.                                        *)
EXTENDS EndpointPool, TLC

All == [head |-> "ok", tag |-> "ok", logs |-> "ok"]
NoLogs == [All EXCEPT !.logs = "limit"]
NoTag == [All EXCEPT !.tag = "other"]

\* An endpoint with history beside those that refuse logs, or old ones.
Pair == [n |-> 2, tag |-> TRUE, answers |-> 0 :> NoLogs @@ 1 :> All,
         retained |-> 0 :> MaxBehind @@ 1 :> MaxBehind]
Three == [n |-> 3, tag |-> FALSE, answers |-> 0 :> NoLogs @@ 1 :> NoTag @@ 2 :> All,
          retained |-> 0 :> 1 @@ 1 :> 1 @@ 2 :> MaxBehind]
\* Three calls a tick and three endpoints.
Free == [n |-> 3, tag |-> TRUE, answers |-> 0 :> All @@ 1 :> NoTag @@ 2 :> All,
         retained |-> 0 :> 1 @@ 1 :> 1 @@ 2 :> MaxBehind]
\* One endpoint refuses the tag in words that may end the tick.
Curt == [Free EXCEPT !.answers[0].tag = "rate"]

Deployments == {Pair, Three, Free, Curt}
=============================================================================
