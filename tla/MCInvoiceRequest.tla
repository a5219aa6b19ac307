-------------------------- MODULE MCInvoiceRequest --------------------------
(* Small instances of InvoiceRequest.                                      *)
EXTENDS InvoiceRequest

Token(s, c, d, st, n, e) ==
  [network |-> "bsc", symbol |-> s, contract |-> c, decimals |-> d, step |-> st, nonceMax |-> n, enabled |-> e]

\* Scales of none, one and two digits; steps of one and of two units; two tokens
\* of one symbol, one of which may be switched off; and two on TRON whose contracts
\* differ in case alone.
Configured == {
  {Token("U", "a", 2, 2, 3, TRUE)}, {Token("U", "a", 0, 1, 2, TRUE)},
  {Token("U", "a", 1, 1, 3, TRUE), Token("U", "b", 2, 2, 2, TRUE)},
  {Token("U", "a", 1, 2, 2, FALSE), Token("U", "b", 2, 1, 2, TRUE)},
  {[Token("U", "A", 1, 1, 3, TRUE) EXCEPT !.network = "tron"],
   [Token("V", "a", 2, 2, 2, TRUE) EXCEPT !.network = "tron"], Token("U", "a", 2, 2, 2, TRUE)}}

LowerCase == [c \in {"A", "a", "b"} |-> IF c = "A" THEN "a" ELSE c]

\* One unit below the amount asked for to four above.
Nearby == -1..4

Short(S) == {<<>>} \cup [1..1 -> S] \cup [1..2 -> S]
Text(s, i, n, f, j) == [sign |-> s, int |-> i, dots |-> n, frac |-> f, junk |-> j]

Texts ==
  {Text("none", i, 1, f, FALSE) : i \in Short({0, 1, 9}), f \in Short({0, 5}) \cup {<<0, 5, 0>>, <<5, 0, 1>>}}
  \cup {Text(s, i, 0, <<>>, FALSE) : s \in {"none", "+"}, i \in Short({0, 9})}
  \cup {Text("-", <<1>>, 0, <<>>, FALSE), Text("none", <<1>>, 2, <<0>>, FALSE),
        Text("+", <<1>>, 0, <<>>, TRUE)}

Asked ==
  {[network |-> n, symbol |-> "U", contract |-> "none", amount |-> t] :
     n \in {"bsc", "tron"}, t \in Texts}
  \cup {[network |-> n, symbol |-> "none", contract |-> c, amount |-> t] :
          n \in {"bsc", "tron"}, c \in {"A", "a", "b"},
          t \in {Text("none", <<1>>, 1, <<5>>, FALSE), Text("none", <<9>>, 1, <<0, 5>>, FALSE)}}
=============================================================================
