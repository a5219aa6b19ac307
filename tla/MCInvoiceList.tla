---------------------------- MODULE MCInvoiceList ----------------------------
(* Small instances of InvoiceList.                                         *)
EXTENDS InvoiceList

Ask(s, f, t, l) == [status |-> s, from |-> f, to |-> t, limit |-> l]

\* Half seconds: windows that begin or end inside one, and one the wrong way
\* round; the default page, a smaller one and one that is clamped.
Asked == {
  Ask("any", Zero, Zero, 0), Ask("any", Zero, Zero, 1), Ask("pending", Zero, Zero, 9),
  Ask("any", 1, 2, 1), Ask("pending", 1, 3, 1), Ask("any", 2, 1, 1)}
=============================================================================
