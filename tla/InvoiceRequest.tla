--------------------------- MODULE InvoiceRequest ---------------------------
(***************************************************************************)
(* One request for an invoice, from the text of its amount to the amount   *)
(* the customer is told to pay: invoice_create over pkg/cryptoamount and   *)
(* the walk in postgres.CreateInvoice that finds the lowest free nonce.    *)
(* What concurrent requests do to each other is Allocation's.              *)
(*                                                                         *)
(* The text of an amount is a sign, the digits before the first dot, the   *)
(* number of dots and the digits behind it; junk stands for any other      *)
(* character.  The rows of a query are a set read in ascending order:      *)
(* held amounts are unique.                                                *)
(***************************************************************************)
EXTENDS Integers, Sequences, SequencesExt

CONSTANTS
  Requests,     \* network, symbol or contract, and the text of the amount
  Catalogues,   \* sets of assets that may be configured
  Lower,        \* the lower-case spelling of each contract
  Around,       \* offsets at which other invoices may hold amounts
  MaxDecimals,
  NoAsset

ASSUME RequestAssumption ==
  /\ Around \subseteq Int /\ MaxDecimals \in Nat
  /\ \A c \in Catalogues : \A a \in c :
       /\ a.step \in Nat \ {0} /\ a.nonceMax \in Nat \ {0} /\ a.decimals \in 0..MaxDecimals
       /\ a.enabled \in BOOLEAN
  /\ \A r \in Requests : r.amount.int \in Seq(0..9) /\ r.amount.frac \in Seq(0..9)

VARIABLES
  request, catalogue,
  pc,         \* where Execute is
  asset,
  base,       \* BaseAmount, in smallest units
  held,       \* amounts that other invoices hold
  left,       \* rows of the query the walk has not read
  candidate,
  refusal,    \* why the request was refused
  pay, shown  \* the invoice's amount, and what the customer reads

found == <<asset, base>>
walked == <<held, left, candidate>>
given == <<pay, shown>>
vars == <<request, catalogue, pc, found, walked, refusal, given>>

Init ==
  /\ request \in Requests /\ catalogue \in Catalogues
  /\ pc = "resolve" /\ asset = NoAsset /\ base = 0
  /\ held = {} /\ left = {} /\ candidate = 0
  /\ refusal = "none" /\ pay = 0 /\ shown = request.amount

-----------------------------------------------------------------------------
\* Decimal text.

TenTo[n \in Nat] == IF n = 0 THEN 1 ELSE 10 * TenTo[n - 1]

\* The numbers that the first k digits write.
Readings(digits) ==
  LET v[k \in 0..Len(digits)] == IF k = 0 THEN 0 ELSE 10 * v[k - 1] + digits[k] IN v
Value(digits) == Readings(digits)[Len(digits)]

Zeros(n) == [i \in 1..n |-> 0]

\* Without the zeros at its end.
Trimmed(digits) ==
  SubSeq(digits, 1, Max({0} \cup {i \in DOMAIN digits : digits[i] # 0}))

(* Faulty: the token's scale limits what is written, zeros included.       *)
PreciseAsWritten(digits) == digits

Significant(digits) == Trimmed(digits)

\* The fraction at the token's scale.
Padded(digits, d) == SubSeq(digits \o Zeros(d - Min({Len(digits), d})), 1, d)

\* Why Parse rejects a text, or "none".
Flaw(t, d) ==
  CASE t.sign = "-" -> "negative"
    [] t.dots > 1 \/ t.junk \/ t.int \o t.frac = <<>> -> "malformed"
    [] Len(Significant(t.frac)) > d -> "too precise"
    [] t.int \o Padded(t.frac, d) = <<>> -> "malformed"
    [] OTHER -> "none"

Units(t, d) == Value(t.int \o Padded(t.frac, d))

\* Decimal digits, as many as the number has.
Size(n) == CHOOSE k \in 1..n + 1 : n < TenTo[k] /\ (k = 1 \/ n >= TenTo[k - 1])
Digits(n) == [i \in 1..Size(n) |-> (n \div TenTo[Size(n) - i]) % 10]

(* Faulty: the fraction is rendered without the zeros before it.           *)
FractionBare(n, d) == Trimmed(Digits(n % TenTo[d]))

Fraction(n, d) ==
  LET frac == Digits(n % TenTo[d])
  IN Trimmed(Zeros(d - Min({Len(frac), d})) \o frac)

Format(n, d) ==
  LET frac == IF d = 0 THEN <<>> ELSE Fraction(n, d)
  IN [sign |-> "none", int |-> Digits(n \div TenTo[d]), dots |-> IF frac = <<>> THEN 0 ELSE 1,
      frac |-> frac, junk |-> FALSE]

-----------------------------------------------------------------------------
\* Execute.

Refuse(why) ==
  /\ pc' = "done" /\ refusal' = why
  /\ UNCHANGED <<request, catalogue, found, walked, given>>

\* EVM contracts are on record in lower case; case carries meaning in TRON's.
Contract(r) == IF r.network = "bsc" THEN Lower[r.contract] ELSE r.contract

\* Enabled assets of that contract, or of that symbol: a symbol is no key.
Named == {a \in catalogue :
  /\ a.enabled /\ a.network = request.network
  /\ \/ request.contract # "none" /\ a.contract = Contract(request)
     \/ request.contract = "none" /\ a.symbol = request.symbol}

(* Faulty: of assets that share a symbol one is taken.                     *)
FirstNamed(a) == a \in Named

OnlyNamed(a) == Named = {a}

ResolveAsset ==
  /\ pc = "resolve"
  /\ \E a \in Named : OnlyNamed(a) /\ asset' = a
  /\ pc' = "parse"
  /\ UNCHANGED <<request, catalogue, base, walked, refusal, given>>

AssetNotFound == pc = "resolve" /\ Named = {} /\ Refuse("unknown asset")

AmbiguousAsset ==
  /\ pc = "resolve"
  /\ \E a, b \in Named : a # b
  /\ Refuse("ambiguous asset")

RejectAmount ==
  /\ pc = "parse"
  /\ Flaw(request.amount, asset.decimals) # "none"
  /\ Refuse("bad amount")

ZeroAmount ==
  /\ pc = "parse"
  /\ Flaw(request.amount, asset.decimals) = "none" /\ Units(request.amount, asset.decimals) = 0
  /\ Refuse("bad amount")

ParseAmount ==
  /\ pc = "parse"
  /\ Flaw(request.amount, asset.decimals) = "none"
  /\ Units(request.amount, asset.decimals) \in Nat \ {0}
  /\ base' = Units(request.amount, asset.decimals)
  /\ pc' = "list"
  /\ UNCHANGED <<request, catalogue, asset, walked, refusal, given>>

\* The amounts the nonces stand for.
Amount(n) == base + asset.step * n

\* ListHeldPayAmountsInRange: [base, base + nonce_max * step).
ListHeld ==
  /\ pc = "list"
  /\ \E others \in SUBSET Around :
       /\ held' = {base + o : o \in others}
       /\ left' = {h \in held' : h >= base /\ h < Amount(asset.nonceMax)}
  /\ candidate' = 0
  /\ pc' = "walk"
  /\ UNCHANGED <<request, catalogue, found, refusal, given>>

-----------------------------------------------------------------------------
\* lowestFreeNonce.

IsNext(h) == h \in left /\ \A g \in left : h <= g

OffGrid(h) == (h - base) % asset.step # 0
Nonce(h) == (h - base) \div asset.step

\* Off the grid, or passed: the row blocks no nonce.
SkipRow ==
  /\ pc = "walk"
  /\ \E h \in left : /\ IsNext(h)
                     /\ OffGrid(h) \/ Nonce(h) < candidate
                     /\ left' = left \ {h}
  /\ UNCHANGED <<request, catalogue, pc, found, held, candidate, refusal, given>>

Exhausted(n) == n >= asset.nonceMax

\* The candidate is held; the next one is tried while there is one.
TakeRow ==
  /\ pc = "walk"
  /\ \E h \in left : /\ IsNext(h)
                     /\ ~OffGrid(h) /\ Nonce(h) = candidate
                     /\ left' = left \ {h}
  /\ candidate' = candidate + 1
  /\ IF Exhausted(candidate')
     THEN pc' = "done" /\ refusal' = "exhausted"
     ELSE UNCHANGED <<pc, refusal>>
  /\ UNCHANGED <<request, catalogue, found, held, given>>

(* Faulty: a row that is on no grid ends the walk.                         *)
GapAtAnyRow(h) == OffGrid(h) \/ Nonce(h) > candidate

Gap(h) == ~OffGrid(h) /\ Nonce(h) > candidate

\* A gap, or the end of the rows: the candidate is inserted and shown.
Allocate ==
  /\ pc = "walk"
  /\ left = {} \/ \E h \in left : IsNext(h) /\ Gap(h)
  /\ pay' = Amount(candidate)
  /\ shown' = Format(pay', asset.decimals)
  /\ pc' = "done"
  /\ UNCHANGED <<request, catalogue, found, walked, refusal>>

Next ==
  \/ ResolveAsset \/ AssetNotFound \/ AmbiguousAsset
  \/ RejectAmount \/ ZeroAmount \/ ParseAmount
  \/ ListHeld \/ SkipRow \/ TakeRow \/ Allocate

Spec == Init /\ [][Next]_vars

-----------------------------------------------------------------------------
Stages == {"resolve", "parse", "list", "walk", "done"}
Reasons == {"none", "unknown asset", "ambiguous asset", "bad amount", "exhausted"}

TypeOK ==
  /\ request \in Requests /\ catalogue \in Catalogues
  /\ pc \in Stages /\ refusal \in Reasons
  /\ pc \in {"resolve", "done"} \/ asset \in catalogue
  /\ base \in Nat /\ held \subseteq Int /\ left \subseteq held
  /\ candidate \in Nat /\ pay \in Nat

Served == pc = "done" /\ refusal = "none"

\* The nonce is the lowest that is free, whatever is held off the grid
\* (invoice_repo.go:66-77), and a request is refused only if none is.
LowestFree ==
  /\ Served => \E n \in 0..asset.nonceMax - 1 :
       /\ pay = Amount(n) /\ pay \notin held
       /\ \A m \in 0..n - 1 : Amount(m) \in held
  /\ refusal = "exhausted" =>
       \A m \in 0..asset.nonceMax - 1 : Amount(m) \in held

\* The number a text stands for, times ten to its number of decimals.
Scaled(t) == Value(t.int \o t.frac)

\* An invoice is over exactly what was asked for, in the only asset that the
\* request can mean: no digit is rounded away, none of two assets is guessed
\* (cryptoamount.go:41-45, asset.sql:3).
AskedExactly ==
  base # 0 =>
    /\ Named = {asset}
    /\ base * TenTo[Len(request.amount.frac)] = Scaled(request.amount) * TenTo[asset.decimals]

\* An amount is refused only if it is no positive number of smallest units:
\* zeros at its end, a missing digit on one side of the dot or a plus are fine.
RefusedRightly ==
  refusal = "bad amount" =>
    LET t == request.amount IN
    \/ t.sign = "-" \/ t.junk \/ t.dots > 1 \/ Scaled(t) = 0
    \/ (Scaled(t) * TenTo[asset.decimals]) % TenTo[Len(t.frac)] # 0

\* What the customer reads is the amount that will be matched, to the unit.
ReadsBack ==
  Served => Flaw(shown, asset.decimals) = "none" /\ Units(shown, asset.decimals) = pay

-----------------------------------------------------------------------------
\* The inductive invariant: what the request was understood to ask for, and
\* what the walk has found.

Open == pc # "done" => refusal = "none"

\* Nonces below the candidate are held, and the rows left have those above it.
WalkInv ==
  pc = "walk" =>
    /\ candidate < asset.nonceMax
    /\ \A m \in 0..candidate - 1 : Amount(m) \in held
    /\ \A m \in candidate..asset.nonceMax - 1 :
         Amount(m) \in held => Amount(m) \in left

Resolved ==
  \/ pc \in {"parse", "list", "walk"}
  \/ pc = "done" /\ refusal \in {"none", "bad amount", "exhausted"}

\* The asset is the only one named, the base what its scale makes of the text.
Understood ==
  /\ Resolved => asset \in catalogue /\ Named = {asset}
  /\ base # 0 =>
       /\ Resolved
       /\ Flaw(request.amount, asset.decimals) = "none"
       /\ base = Units(request.amount, asset.decimals)
  /\ refusal = "bad amount" =>
       \/ Flaw(request.amount, asset.decimals) # "none"
       \/ Units(request.amount, asset.decimals) = 0
  /\ Served => shown = Format(pay, asset.decimals)

IInv == TypeOK /\ Open /\ WalkInv /\ LowestFree /\ Understood
=============================================================================
