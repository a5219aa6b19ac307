----------------------------- MODULE MCService -----------------------------
EXTENDS Service
CONSTANTS r1, r2, watch

Usdt  == [network |-> "bsc", address |-> "usdt", upper |-> FALSE, step |-> 1]
USDT  == [Usdt EXCEPT !.upper = TRUE, !.step = 2]
Other == [network |-> "tron", address |-> "other", upper |-> TRUE, step |-> 1]

\* The service sets up its database itself or an operator does; a second token
\* is added and the step of the first edited; a duplicate is written.
AllFiles ==
  {[assets |-> <<Usdt>>,        autoCreate |-> TRUE,  autoSchema |-> TRUE],
   [assets |-> <<Other, USDT>>, autoCreate |-> FALSE, autoSchema |-> FALSE],
   [assets |-> <<Usdt, USDT>>,  autoCreate |-> TRUE,  autoSchema |-> TRUE]}
=============================================================================
