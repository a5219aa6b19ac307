------------------------ MODULE InvoiceRequestProofs ------------------------
(***************************************************************************)
(* The proofs about InvoiceRequest.  For any asset, any amount asked for   *)
(* and any amounts held around it, the walk finds the lowest free nonce,   *)
(* and gives up only when none is free.  For any text, whatever its length *)
(* and the scale of the token: the base is exactly what was asked for, a   *)
(* text is rejected only if it is no positive number of units, and what    *)
(* the customer reads is the amount to pay.                                *)
(*                                                                         *)
(* What a recursive function is takes induction over numbers, which is     *)
(* shown here from the facts about finite sets (Induction), and with it    *)
(* that the functions exist (BoundedRecursion, Recursion).                 *)
(***************************************************************************)
EXTENDS InvoiceRequest, FiniteSetTheorems, TLAPS

-----------------------------------------------------------------------------
\* Numbers: induction and recursion.

\* A set of naturals that has zero and every successor has them all: else the successor
\* would map a finite set into a smaller one, no two numbers to the same.
LEMMA Induction ==
  ASSUME NEW S \in SUBSET Nat, 0 \in S, \A n \in S : n + 1 \in S
  PROVE  S = Nat
<1> SUFFICES ASSUME NEW k \in Nat, k \notin S PROVE FALSE
  OBVIOUS
<1> DEFINE B == {n \in S : n <= k}
           C == B \ {0}
           f == [n \in B |-> n + 1]
<1>1. IsFiniteSet(B) /\ C \in SUBSET B
  BY FS_BoundedSetOfNaturals
<1>2. ASSUME NEW n \in B PROVE n + 1 \in C
  <2>1. n \in S /\ n \in Nat /\ n <= k /\ n # k
    OBVIOUS
  <2>2. n + 1 \in S /\ n + 1 <= k /\ n + 1 # 0
    BY <2>1
  <2> QED
    BY <2>2
<1>3. 0 \in B /\ 0 \notin C /\ B \in SUBSET Nat
  <2>1. 0 <= k
    OBVIOUS
  <2> QED
    BY <2>1
<1> HIDE DEF B, C
<1>4. f \in Injection(B, C)
  BY <1>2, <1>3 DEF Injection, IsInjective
<1>5. IsFiniteSet(C) /\ Cardinality(C) <= Cardinality(B) /\ (Cardinality(B) = Cardinality(C) => B = C)
  BY <1>1, FS_Subset
<1>6. Cardinality(B) <= Cardinality(C)
  BY <1>4, <1>5, FS_Injection
<1>7. Cardinality(B) \in Nat /\ Cardinality(C) \in Nat
  BY <1>1, <1>5, FS_CardinalityType
<1> QED
  BY <1>3, <1>5, <1>6, <1>7

LEMMA HasLeast ==
  ASSUME NEW T \in SUBSET Nat, T # {}
  PROVE  \E n \in T : \A m \in T : n <= m
<1> SUFFICES ASSUME \A n \in T : \E m \in T : m < n PROVE FALSE
  OBVIOUS
<1> DEFINE S == {n \in Nat : \A m \in T : n < m}
<1>1. 0 \in S
  <2>1. \A m \in T : m # 0
    OBVIOUS
  <2> QED
    BY <2>1
<1>2. \A n \in S : n + 1 \in S
  <2> SUFFICES ASSUME NEW n \in S, NEW m \in T PROVE n + 1 < m
    OBVIOUS
  <2>1. PICK l \in T : l < m
    OBVIOUS
  <2>2. n < l
    OBVIOUS
  <2> QED
    BY <2>1, <2>2
<1>3. S \in SUBSET Nat
  OBVIOUS
<1> HIDE DEF S
<1>4. S = Nat
  BY <1>1, <1>2, <1>3, Induction
<1>5. ASSUME NEW m \in T PROVE FALSE
  <2>1. m \in S
    BY <1>4
  <2> QED
    BY <2>1 DEF S
<1> QED
  BY <1>5

\* Recursion over N, which is 1..n or the positive numbers: from first, step by step.
\* (Opaque in the lemmas that cite the next two.)
IsStep(step, N, V) == step \in [N -> [V -> V]]
Recurs(g, N, V, first, step) ==
  g \in [{0} \cup N -> V] /\ g[0] = first /\ \A m \in N : g[m] = step[m][g[m - 1]]

LEMMA BoundedRecursion ==
  ASSUME NEW V, NEW first \in V, NEW n \in Nat, NEW step, IsStep(step, 1..n, V)
  PROVE  \E g : Recurs(g, 1..n, V, first, step)
<1> DEFINE N == {l \in Nat : l <= n => \E g : Recurs(g, 1..l, V, first, step)}
<1>0. \A m \in 1..n : \A v \in V : step[m][v] \in V
  BY DEF IsStep
<1>1. 0 \in N
  <2> DEFINE g == [m \in {0} \cup (1..0) |-> first]
  <2>1. Recurs(g, 1..0, V, first, step)
    BY DEF Recurs
  <2> QED
    BY <2>1
<1>2. \A l \in N : l + 1 \in N
  <2> SUFFICES ASSUME NEW l \in Nat, l + 1 <= n, NEW g, Recurs(g, 1..l, V, first, step)
               PROVE  \E h : Recurs(h, 1..l + 1, V, first, step)
    OBVIOUS
  <2>1. /\ g \in [{0} \cup 1..l -> V] /\ g[0] = first
        /\ \A m \in 1..l : g[m] = step[m][g[m - 1]]
    BY DEF Recurs
  <2> DEFINE h == [m \in {0} \cup 1..l + 1 |-> IF m <= l THEN g[m] ELSE step[l + 1][g[l]]]
  <2>2. step[l + 1][g[l]] \in V
    <3>1. l + 1 \in 1..n /\ g[l] \in V
      BY <2>1
    <3> QED
      BY <1>0, <3>1
  <2>3. h \in [{0} \cup 1..l + 1 -> V] /\ h[0] = first
    BY <2>1, <2>2
  <2>4. ASSUME NEW m \in 1..l + 1 PROVE h[m] = step[m][h[m - 1]]
    <3>1. /\ m - 1 \in {0} \cup 1..l /\ m - 1 \in {0} \cup 1..l + 1 /\ m - 1 <= l
          /\ m \in {0} \cup 1..l + 1
      OBVIOUS
    <3>2. h[m - 1] = g[m - 1]
      BY <3>1
    <3>3. CASE m <= l
      <4>1. h[m] = g[m] /\ m \in 1..l
        BY <3>1, <3>3
      <4> QED
        BY <2>1, <3>2, <4>1
    <3>4. CASE m = l + 1
      <4>1. h[m] = step[l + 1][g[l]] /\ m - 1 = l
        BY <3>1, <3>4
      <4> QED
        BY <3>2, <3>4, <4>1
    <3> QED
      BY <3>3, <3>4
  <2> HIDE DEF h
  <2>5. Recurs(h, 1..l + 1, V, first, step)
    BY <2>3, <2>4 DEF Recurs
  <2> QED
    BY <2>5
<1>3. N \in SUBSET Nat
  OBVIOUS
<1>4. N = Nat
  <2> HIDE DEF N
  <2> QED
    BY <1>1, <1>2, <1>3, Induction
<1> QED
  BY <1>4

\* What is reached up to n is what is reached up to n + 1.
LEMMA Recursion ==
  ASSUME NEW V, NEW first \in V, NEW step, IsStep(step, Nat \ {0}, V)
  PROVE  \E f : Recurs(f, Nat \ {0}, V, first, step)
<1> DEFINE upto == [n \in Nat |-> CHOOSE g : Recurs(g, 1..n, V, first, step)]
           f == [n \in {0} \cup (Nat \ {0}) |-> upto[n][n]]
<1>1. ASSUME NEW n \in Nat PROVE Recurs(upto[n], 1..n, V, first, step)
  <2> DEFINE s == [m \in 1..n |-> step[m]]
  <2>1. IsStep(s, 1..n, V)
    BY DEF IsStep
  <2>2. \A m \in 1..n : s[m] = step[m]
    OBVIOUS
  <2> HIDE DEF s
  <2>3. PICK g : Recurs(g, 1..n, V, first, s)
    BY <2>1, BoundedRecursion
  <2>4. Recurs(g, 1..n, V, first, step)
    BY <2>2, <2>3 DEF Recurs
  <2> QED
    BY <2>4
<1>2. ASSUME NEW n \in Nat, NEW g, NEW h,
             Recurs(g, 1..n, V, first, step), Recurs(h, 1..n + 1, V, first, step)
      PROVE  \A m \in 0..n : g[m] = h[m]
  <2> DEFINE M == {m \in Nat : m <= n => g[m] = h[m]}
  <2>1. 0 \in M
    BY <1>2 DEF Recurs
  <2>2. \A m \in M : m + 1 \in M
    <3> SUFFICES ASSUME NEW m \in M, m + 1 <= n PROVE g[m + 1] = h[m + 1]
      OBVIOUS
    <3>1. /\ m \in Nat /\ m + 1 \in 1..n /\ m + 1 \in 1..n + 1 /\ (m + 1) - 1 = m
          /\ g[m] = h[m]
      OBVIOUS
    <3>2. g[m + 1] = step[m + 1][g[m]] /\ h[m + 1] = step[m + 1][h[m]]
      BY <1>2, <3>1 DEF Recurs
    <3> QED
      BY <3>1, <3>2
  <2>3. M \in SUBSET Nat
    OBVIOUS
  <2> HIDE DEF M
  <2>4. M = Nat
    BY <2>1, <2>2, <2>3, Induction
  <2> QED
    BY <2>4 DEF M
<1>3. f[0] = first
  <2>1. f[0] = upto[0][0]
    OBVIOUS
  <2>2. Recurs(upto[0], 1..0, V, first, step)
    BY <1>1
  <2> HIDE DEF f, upto
  <2> QED
    BY <2>1, <2>2 DEF Recurs
<1>4. ASSUME NEW n \in Nat PROVE f[n] \in V /\ f[n + 1] = step[n + 1][f[n]]
  <2>1. f[n] = upto[n][n] /\ f[n + 1] = upto[n + 1][n + 1]
    OBVIOUS
  <2>2. Recurs(upto[n], 1..n, V, first, step) /\ Recurs(upto[n + 1], 1..n + 1, V, first, step)
    BY <1>1
  <2> HIDE DEF f, upto
  <2>3. \A m \in 0..n : upto[n][m] = upto[n + 1][m]
    BY <1>2, <2>2
  <2>4. upto[n][n] = upto[n + 1][n]
    BY <2>3
  <2>5. upto[n][n] \in V /\ upto[n + 1][n + 1] = step[n + 1][upto[n + 1][n]]
    <3>1. n \in {0} \cup 1..n /\ n + 1 \in 1..n + 1 /\ (n + 1) - 1 = n
      OBVIOUS
    <3> QED
      BY <2>2, <3>1 DEF Recurs
  <2> QED
    BY <2>1, <2>4, <2>5
<1>5. f \in [{0} \cup (Nat \ {0}) -> V]
  <2>1. f = [n \in {0} \cup (Nat \ {0}) |-> f[n]]
    OBVIOUS
  <2> HIDE DEF f
  <2> QED
    BY <1>4, <2>1
<1> HIDE DEF f
<1>6. ASSUME NEW n \in Nat \ {0} PROVE f[n] = step[n][f[n - 1]]
  <2>1. n - 1 \in Nat /\ (n - 1) + 1 = n
    OBVIOUS
  <2> QED
    BY <1>4, <2>1
<1>7. Recurs(f, Nat \ {0}, V, first, step)
  BY <1>3, <1>5, <1>6 DEF Recurs
<1> QED
  BY <1>7

\* The same, up to a bound.
LEMMA UpTo ==
  ASSUME NEW n \in Nat, NEW S \in SUBSET Nat, 0 \in S, \A k \in S : k < n => k + 1 \in S
  PROVE  0..n \subseteq S
<1> DEFINE M == {k \in Nat : k <= n => k \in S}
<1>1. 0 \in M /\ M \in SUBSET Nat
  OBVIOUS
<1>2. \A k \in M : k + 1 \in M
  OBVIOUS
<1>3. M = Nat
  <2> HIDE DEF M
  <2> QED
    BY <1>1, <1>2, Induction
<1> QED
  BY <1>3

-----------------------------------------------------------------------------
\* Powers of ten.

LEMMA TenToIs ==
  /\ TenTo \in [Nat -> Nat \ {0}] /\ TenTo[0] = 1
  /\ \A n \in Nat : TenTo[n + 1] = 10 * TenTo[n]
<1> DEFINE V == Nat \ {0}
           step == [n \in Nat \ {0} |-> [p \in V |-> 10 * p]]
<1>1. IsStep(step, Nat \ {0}, V)
  BY DEF IsStep
<1>2. \A n \in Nat \ {0}, v \in V : step[n][v] = 10 * v
  OBVIOUS
<1> HIDE DEF step
<1>3. PICK f : Recurs(f, Nat \ {0}, V, 1, step)
  <2>1. 1 \in V
    OBVIOUS
  <2> HIDE DEF V
  <2> QED
    BY <1>1, <2>1, Recursion
<1>4. f \in [Nat -> V] /\ \A n \in Nat : f[n] = IF n = 0 THEN 1 ELSE 10 * f[n - 1]
  <2>1. f \in [Nat -> V] /\ f[0] = 1
    <3>1. {0} \cup (Nat \ {0}) = Nat
      OBVIOUS
    <3> QED
      BY <1>3, <3>1 DEF Recurs
  <2>2. ASSUME NEW n \in Nat \ {0} PROVE f[n] = 10 * f[n - 1]
    <3>1. n - 1 \in Nat
      OBVIOUS
    <3>2. f[n] = step[n][f[n - 1]]
      BY <1>3 DEF Recurs
    <3> QED
      BY <1>2, <2>1, <3>1, <3>2
  <2> QED
    BY <2>1, <2>2
<1>5. f = [n \in Nat |-> IF n = 0 THEN 1 ELSE 10 * f[n - 1]]
  BY <1>4
<1>6. TenTo = [n \in Nat |-> IF n = 0 THEN 1 ELSE 10 * TenTo[n - 1]]
  BY <1>5 DEF TenTo
<1>7. \A n \in Nat : TenTo[n] = IF n = 0 THEN 1 ELSE 10 * TenTo[n - 1]
  BY <1>6
<1> DEFINE S == {n \in Nat : TenTo[n] \in V}
<1>8. 0 \in S
  BY <1>7
<1>9. \A n \in S : n + 1 \in S
  <2> SUFFICES ASSUME NEW n \in S PROVE n + 1 \in S
    OBVIOUS
  <2>1. n + 1 \in Nat /\ n + 1 # 0 /\ (n + 1) - 1 = n /\ TenTo[n] \in V
    OBVIOUS
  <2>2. TenTo[n + 1] = 10 * TenTo[n]
    BY <1>7, <2>1
  <2> QED
    BY <2>1, <2>2
<1>10. S \in SUBSET Nat
  OBVIOUS
<1>11. S = Nat
  <2> HIDE DEF S
  <2> QED
    BY <1>8, <1>9, <1>10, Induction
<1>12. \A n \in Nat : TenTo[n] \in V
  BY <1>11
<1>13. ASSUME NEW n \in Nat PROVE TenTo[n + 1] = 10 * TenTo[n]
  <2>1. n + 1 \in Nat /\ n + 1 # 0 /\ (n + 1) - 1 = n
    OBVIOUS
  <2> QED
    BY <1>7, <2>1
<1> QED
  BY <1>6, <1>7, <1>12, <1>13

LEMMA TenToSum == \A a, b \in Nat : TenTo[a + b] = TenTo[a] * TenTo[b]
<1> SUFFICES ASSUME NEW a \in Nat PROVE \A b \in Nat : TenTo[a + b] = TenTo[a] * TenTo[b]
  OBVIOUS
<1> DEFINE S == {b \in Nat : TenTo[a + b] = TenTo[a] * TenTo[b]}
<1>1. 0 \in S
  BY TenToIs
<1>2. \A b \in S : b + 1 \in S
  <2> SUFFICES ASSUME NEW b \in S PROVE TenTo[a + (b + 1)] = TenTo[a] * TenTo[b + 1]
    OBVIOUS
  <2>1. TenTo[b + 1] = 10 * TenTo[b] /\ TenTo[(a + b) + 1] = 10 * TenTo[a + b]
        /\ TenTo[a] \in Nat /\ TenTo[b] \in Nat /\ TenTo[a + b] = TenTo[a] * TenTo[b]
    BY TenToIs
  <2>2. a + (b + 1) = (a + b) + 1
    OBVIOUS
  <2>3. \A x, y \in Nat : 10 * (x * y) = x * (10 * y)
    OBVIOUS
  <2> QED
    BY <2>1, <2>2, <2>3
<1>3. S \in SUBSET Nat
  OBVIOUS
<1>4. S = Nat
  <2> HIDE DEF S
  <2> QED
    BY <1>1, <1>2, <1>3, Induction
<1> QED
  BY <1>4

LEMMA TenToExceeds == \A n \in Nat : TenTo[n] > n
<1> DEFINE S == {n \in Nat : TenTo[n] > n}
<1>1. 0 \in S /\ S \in SUBSET Nat
  BY TenToIs
<1>2. \A n \in S : n + 1 \in S
  <2> SUFFICES ASSUME NEW n \in S PROVE TenTo[n + 1] > n + 1
    OBVIOUS
  <2>1. n \in Nat /\ TenTo[n] > n /\ TenTo[n] \in Nat /\ TenTo[n + 1] = 10 * TenTo[n]
    BY TenToIs
  <2> QED
    BY <2>1
<1>3. S = Nat
  <2> HIDE DEF S
  <2> QED
    BY <1>1, <1>2, Induction
<1> QED
  BY <1>3

LEMMA TenToGrows ==
  ASSUME NEW a \in Nat, NEW b \in Nat, a <= b
  PROVE  TenTo[a] <= TenTo[b]
<1> DEFINE c == b - a
<1>1. c \in Nat /\ b = a + c
  OBVIOUS
<1> HIDE DEF c
<1>2. TenTo[b] = TenTo[a] * TenTo[c] /\ TenTo[a] \in Nat \ {0} /\ TenTo[c] \in Nat \ {0}
  BY <1>1, TenToSum, TenToIs
<1>3. \A x, y \in Nat \ {0} : x <= x * y
  OBVIOUS
<1> QED
  BY <1>2, <1>3

-----------------------------------------------------------------------------
\* What digits write.

Text == Seq(0..9)

LEMMA ReadingsAre ==
  ASSUME NEW s \in Text
  PROVE  /\ Readings(s) \in [0..Len(s) -> Nat] /\ Readings(s)[0] = 0
         /\ \A k \in 1..Len(s) : Readings(s)[k] = 10 * Readings(s)[k - 1] + s[k]
<1> DEFINE n == Len(s)
           step == [k \in 1..n |-> [p \in Nat |-> 10 * p + s[k]]]
<1>0. n \in Nat /\ \A k \in 1..n : s[k] \in 0..9
  BY DEF Text
<1>1. IsStep(step, 1..n, Nat)
  BY <1>0 DEF IsStep
<1>2. \A k \in 1..n, p \in Nat : step[k][p] = 10 * p + s[k]
  OBVIOUS
<1> HIDE DEF step, n
<1>3. PICK v : Recurs(v, 1..n, Nat, 0, step)
  BY <1>0, <1>1, BoundedRecursion
<1>4. v \in [0..n -> Nat] /\ \A k \in 0..n : v[k] = IF k = 0 THEN 0 ELSE 10 * v[k - 1] + s[k]
  <2>1. v \in [0..n -> Nat] /\ v[0] = 0
    <3>1. {0} \cup 1..n = 0..n
      BY <1>0
    <3> QED
      BY <1>3, <3>1 DEF Recurs
  <2>2. ASSUME NEW k \in 1..n PROVE v[k] = 10 * v[k - 1] + s[k]
    <3>1. k - 1 \in 0..n
      BY <1>0
    <3>2. v[k] = step[k][v[k - 1]]
      BY <1>3 DEF Recurs
    <3> QED
      BY <1>2, <2>1, <3>1, <3>2
  <2> QED
    BY <1>0, <2>1, <2>2
<1>5. v = [k \in 0..n |-> IF k = 0 THEN 0 ELSE 10 * v[k - 1] + s[k]]
  BY <1>4
<1> DEFINE w == Readings(s)
<1>6. w = [k \in 0..n |-> IF k = 0 THEN 0 ELSE 10 * w[k - 1] + s[k]]
  BY <1>5 DEF Readings, n
<1> HIDE DEF w
<1>7. w[0] = 0 /\ \A k \in 1..n : w[k] = 10 * w[k - 1] + s[k]
  BY <1>0, <1>6
<1>8. ASSUME NEW k \in 0..n PROVE w[k] \in Nat
  <2> DEFINE S == {j \in Nat : j <= n => w[j] \in Nat}
  <2>1. 0 \in S
    BY <1>7
  <2>2. \A j \in S : j < n => j + 1 \in S
    <3> SUFFICES ASSUME NEW j \in S, j < n PROVE w[j + 1] \in Nat
      OBVIOUS
    <3>1. j \in Nat /\ w[j] \in Nat /\ j + 1 \in 1..n /\ (j + 1) - 1 = j
      BY <1>0
    <3>2. w[j + 1] = 10 * w[(j + 1) - 1] + s[j + 1] /\ s[j + 1] \in Nat
      BY <1>0, <1>7, <3>1
    <3> QED
      BY <3>1, <3>2
  <2>3. S \in SUBSET Nat
    OBVIOUS
  <2> HIDE DEF S
  <2>4. 0..n \subseteq S
    BY <1>0, <2>1, <2>2, <2>3, UpTo
  <2> QED
    BY <2>4 DEF S
<1> QED
  BY <1>6, <1>7, <1>8 DEF n, w

LEMMA ValueType ==
  ASSUME NEW s \in Text
  PROVE  Value(s) \in Nat /\ Len(s) \in Nat /\ \A i \in 1..Len(s) : s[i] \in 0..9
<1>1. Len(s) \in Nat /\ \A i \in 1..Len(s) : s[i] \in 0..9
  BY DEF Text
<1>2. Len(s) \in 0..Len(s)
  BY <1>1
<1> QED
  BY <1>1, <1>2, ReadingsAre DEF Value

LEMMA Concatenated ==
  ASSUME NEW s \in Text, NEW t \in Text
  PROVE  /\ s \o t \in Text /\ Len(s \o t) = Len(s) + Len(t)
         /\ \A i \in 1..Len(s) : (s \o t)[i] = s[i]
         /\ \A j \in 1..Len(t) : (s \o t)[Len(s) + j] = t[j]
BY DEF Text

LEMMA ValueConcat ==
  ASSUME NEW s \in Text, NEW t \in Text
  PROVE  Value(s \o t) = Value(s) * TenTo[Len(t)] + Value(t)
<1> DEFINE w == Readings(s \o t)
           v == Readings(s)
           u == Readings(t)
           n == Len(s)
           m == Len(t)
<1>1. /\ n \in Nat /\ m \in Nat /\ s \o t \in Text /\ Len(s \o t) = n + m
      /\ \A i \in 1..n : (s \o t)[i] = s[i] /\ s[i] \in Nat
      /\ \A j \in 1..m : (s \o t)[n + j] = t[j] /\ t[j] \in Nat
  <2>1. \A d \in 0..9 : d \in Nat
    OBVIOUS
  <2> QED
    BY <2>1, Concatenated, ValueType
<1>2. v \in [0..n -> Nat] /\ v[0] = 0 /\ \A k \in 1..n : v[k] = 10 * v[k - 1] + s[k]
  BY ReadingsAre
<1>3. u \in [0..m -> Nat] /\ u[0] = 0 /\ \A k \in 1..m : u[k] = 10 * u[k - 1] + t[k]
  BY ReadingsAre
<1>4. w \in [0..n + m -> Nat] /\ w[0] = 0 /\ \A k \in 1..n + m : w[k] = 10 * w[k - 1] + (s \o t)[k]
  BY <1>1, ReadingsAre
<1>5. Value(s) = v[n] /\ Value(t) = u[m] /\ Value(s \o t) = w[n + m]
  BY <1>1 DEF Value
<1> HIDE DEF w, v, u, n, m
<1>6. \A k \in 0..n : w[k] = v[k]
  <2> DEFINE S == {k \in Nat : k <= n => w[k] = v[k]}
  <2>1. 0 \in S /\ S \in SUBSET Nat
    BY <1>2, <1>4
  <2>2. \A k \in S : k < n => k + 1 \in S
    <3> SUFFICES ASSUME NEW k \in S, k < n PROVE w[k + 1] = v[k + 1]
      OBVIOUS
    <3>1. k \in Nat /\ k + 1 \in 1..n /\ k + 1 \in 1..n + m /\ (k + 1) - 1 = k /\ w[k] = v[k]
      BY <1>1
    <3>2. v[k + 1] = 10 * v[(k + 1) - 1] + s[k + 1]
      BY <1>2, <3>1
    <3>3. w[k + 1] = 10 * w[(k + 1) - 1] + s[k + 1]
      BY <1>1, <1>4, <3>1
    <3> QED
      BY <3>1, <3>2, <3>3
  <2> HIDE DEF S
  <2>3. 0..n \subseteq S
    BY <1>1, <2>1, <2>2, UpTo
  <2> QED
    BY <2>3 DEF S
<1>7. \A j \in 0..m : w[n + j] = v[n] * TenTo[j] + u[j]
  <2> DEFINE S == {j \in Nat : j <= m => w[n + j] = v[n] * TenTo[j] + u[j]}
  <2>0. v[n] \in Nat /\ n \in 0..n
    BY <1>1, <1>2
  <2>1. 0 \in S /\ S \in SUBSET Nat
    <3>1. w[n + 0] = v[n]
      BY <1>1, <1>6, <2>0
    <3>2. v[n] * TenTo[0] + u[0] = v[n]
      <4>0. \A x \in Nat : x * 1 = x
        OBVIOUS
      <4>1. v[n] * 1 = v[n] /\ TenTo[0] = 1 /\ u[0] = 0
        BY <1>3, <2>0, <4>0, TenToIs
      <4> QED
        BY <2>0, <4>1
    <3> QED
      BY <3>1, <3>2
  <2>2. \A j \in S : j < m => j + 1 \in S
    <3> SUFFICES ASSUME NEW j \in S, j < m
                 PROVE  w[n + (j + 1)] = v[n] * TenTo[j + 1] + u[j + 1]
      OBVIOUS
    <3>1. /\ j \in Nat /\ j + 1 \in 1..m /\ n + (j + 1) \in 1..n + m
          /\ (j + 1) - 1 = j /\ (n + (j + 1)) - 1 = n + j
          /\ w[n + j] = v[n] * TenTo[j] + u[j]
      BY <1>1
    <3>2. w[n + (j + 1)] = 10 * (v[n] * TenTo[j] + u[j]) + t[j + 1]
      BY <1>1, <1>4, <3>1
    <3>3. u[j + 1] = 10 * u[j] + t[j + 1] /\ u[j] \in Nat /\ t[j + 1] \in Nat
      BY <1>1, <1>3, <3>1
    <3>4. TenTo[j + 1] = 10 * TenTo[j] /\ TenTo[j] \in Nat
      BY <3>1, TenToIs
    <3>5. \A a, b, c, d \in Nat : 10 * (a * b + c) + d = a * (10 * b) + (10 * c + d)
      OBVIOUS
    <3>6. 10 * (v[n] * TenTo[j] + u[j]) + t[j + 1] = v[n] * (10 * TenTo[j]) + (10 * u[j] + t[j + 1])
      BY <2>0, <3>3, <3>4, <3>5
    <3> QED
      BY <3>2, <3>3, <3>4, <3>6
  <2> HIDE DEF S
  <2>3. 0..m \subseteq S
    BY <1>1, <2>1, <2>2, UpTo
  <2> QED
    BY <2>3 DEF S
<1>8. m \in 0..m
  BY <1>1
<1> QED
  BY <1>5, <1>7, <1>8 DEF m

LEMMA ZerosAre ==
  ASSUME NEW n \in Nat
  PROVE  Zeros(n) \in Text /\ Len(Zeros(n)) = n /\ \A i \in 1..n : Zeros(n)[i] = 0
BY DEF Zeros, Text

LEMMA ValueZeros ==
  ASSUME NEW n \in Nat
  PROVE  Value(Zeros(n)) = 0
<1> DEFINE z == Zeros(n)
           v == Readings(z)
<1>1. z \in Text /\ Len(z) = n /\ \A i \in 1..n : z[i] = 0
  BY ZerosAre
<1>2. v \in [0..n -> Nat] /\ v[0] = 0 /\ \A k \in 1..n : v[k] = 10 * v[k - 1] + z[k]
  BY <1>1, ReadingsAre
<1>3. Value(Zeros(n)) = v[n]
  BY <1>1 DEF Value
<1> HIDE DEF v, z
<1> DEFINE S == {k \in Nat : k <= n => v[k] = 0}
<1>4. 0 \in S /\ S \in SUBSET Nat
  BY <1>2
<1>5. \A k \in S : k < n => k + 1 \in S
  <2> SUFFICES ASSUME NEW k \in S, k < n PROVE v[k + 1] = 0
    OBVIOUS
  <2>1. k \in Nat /\ k + 1 \in 1..n /\ (k + 1) - 1 = k /\ v[k] = 0
    OBVIOUS
  <2>2. v[k + 1] = 10 * v[(k + 1) - 1] + z[k + 1]
    BY <1>2, <2>1
  <2> QED
    BY <1>1, <2>1, <2>2
<1> HIDE DEF S
<1>6. 0..n \subseteq S
  BY <1>4, <1>5, UpTo
<1>7. n \in 0..n
  OBVIOUS
<1> QED
  BY <1>3, <1>6, <1>7 DEF S

\* Zeros after the digits.
LEMMA Shifted ==
  ASSUME NEW s \in Text, NEW n \in Nat
  PROVE  s \o Zeros(n) \in Text /\ Value(s \o Zeros(n)) = Value(s) * TenTo[n]
<1>1. Zeros(n) \in Text /\ Len(Zeros(n)) = n
  BY ZerosAre
<1>2. Value(s \o Zeros(n)) = Value(s) * TenTo[n] + 0
  BY <1>1, ValueConcat, ValueZeros
<1>3. Value(s) * TenTo[n] \in Nat
  <2>1. \A x, y \in Nat : x * y \in Nat
    OBVIOUS
  <2> QED
    BY <2>1, ValueType, TenToIs
<1> QED
  BY <1>1, <1>2, <1>3, Concatenated

\* Zeros before them.
LEMMA Led ==
  ASSUME NEW s \in Text, NEW n \in Nat
  PROVE  Zeros(n) \o s \in Text /\ Value(Zeros(n) \o s) = Value(s)
<1>1. Zeros(n) \in Text /\ Len(Zeros(n)) = n
  BY ZerosAre
<1>2. Value(Zeros(n) \o s) = 0 * TenTo[Len(s)] + Value(s)
  BY <1>1, ValueConcat, ValueZeros
<1>3. Value(s) \in Nat /\ TenTo[Len(s)] \in Nat
  BY ValueType, TenToIs
<1>4. \A x \in Nat : 0 * x = 0
  OBVIOUS
<1> QED
  BY <1>1, <1>2, <1>3, <1>4, Concatenated

LEMMA Followed ==
  ASSUME NEW s \in Text, NEW n \in Nat
  PROVE  /\ s \o Zeros(n) \in Text /\ Len(s \o Zeros(n)) = Len(s) + n
         /\ \A i \in 1..Len(s) : (s \o Zeros(n))[i] = s[i]
         /\ \A j \in 1..n : (s \o Zeros(n))[Len(s) + j] = 0
<1> DEFINE z == Zeros(n)
<1>1. z \in Text /\ Len(z) = n /\ \A i \in 1..n : z[i] = 0
  BY ZerosAre
<1> HIDE DEF z
<1>2. /\ s \o z \in Text /\ Len(s \o z) = Len(s) + n
      /\ \A i \in 1..Len(s) : (s \o z)[i] = s[i]
      /\ \A j \in 1..Len(z) : (s \o z)[Len(s) + j] = z[j]
  BY <1>1, Concatenated
<1> QED
  BY <1>1, <1>2 DEF z

LEMMA HasGreatest ==
  ASSUME NEW n \in Nat, NEW S \in SUBSET 0..n, S # {}
  PROVE  Max(S) \in S /\ \A k \in S : k <= Max(S)
<1> DEFINE T == {n - k : k \in S}
<1>1. T \in SUBSET Nat /\ T # {}
  OBVIOUS
<1> HIDE DEF T
<1>2. PICK l \in T : \A m \in T : l <= m
  BY <1>1, HasLeast
<1>3. PICK x \in S : l = n - x
  BY DEF T
<1>4. \A k \in S : x >= k
  <2> SUFFICES ASSUME NEW k \in S PROVE x >= k
    OBVIOUS
  <2>1. n - k \in T
    BY DEF T
  <2>2. n - x <= n - k
    BY <1>2, <1>3, <2>1
  <2> QED
    BY <2>2
<1>5. \E y \in S : \A k \in S : y >= k
  BY <1>4
<1>6. Max(S) \in S /\ \A k \in S : Max(S) >= k
  BY <1>5 DEF Max
<1> QED
  BY <1>6

LEMMA TrimmedIs ==
  ASSUME NEW s \in Text
  PROVE  /\ Trimmed(s) \in Text /\ Len(Trimmed(s)) \in 0..Len(s)
         /\ \A i \in 1..Len(Trimmed(s)) : Trimmed(s)[i] = s[i]
         /\ \A i \in 1..Len(s) : i > Len(Trimmed(s)) => s[i] = 0
         /\ Len(Trimmed(s)) > 0 => s[Len(Trimmed(s))] # 0
         /\ s = Trimmed(s) \o Zeros(Len(s) - Len(Trimmed(s)))
<1> DEFINE n == Len(s)
           S == {0} \cup {i \in DOMAIN s : s[i] # 0}
           t == Max(S)
           z == SubSeq(s, 1, t)
<1>1. n \in Nat /\ DOMAIN s = 1..n /\ \A i \in 1..n : s[i] \in 0..9
  BY DEF Text
<1>2. t \in S /\ \A k \in S : k <= t
  <2>1. S \in SUBSET 0..n /\ S # {}
    BY <1>1
  <2> HIDE DEF S
  <2> QED
    BY <1>1, <2>1, HasGreatest
<1> HIDE DEF t
<1>3. t \in 0..n
  BY <1>1, <1>2
<1>4. z \in Text /\ Len(z) = t /\ \A i \in 1..t : z[i] = s[i]
  BY <1>1, <1>3 DEF Text
<1>5. \A i \in 1..n : i > t => s[i] = 0
  BY <1>1, <1>2, <1>3
<1>6. t > 0 => s[t] # 0
  BY <1>1, <1>2, <1>3
<1>7. Trimmed(s) = z
  BY DEF Trimmed, t
<1> HIDE DEF z, S
<1>8. s = z \o Zeros(n - t)
  <2> DEFINE m == n - t
             y == z \o Zeros(m)
  <2>1. m \in Nat
    BY <1>1, <1>3
  <2> HIDE DEF m
  <2>2. /\ y \in Text /\ Len(y) = t + m
        /\ \A i \in 1..t : y[i] = z[i]
        /\ \A j \in 1..m : y[t + j] = 0
    BY <1>4, <2>1, Followed
  <2> HIDE DEF y
  <2>3. ASSUME NEW i \in 1..n PROVE y[i] = s[i]
    <3>1. CASE i <= t
      BY <1>3, <1>4, <2>2, <3>1
    <3>2. CASE i > t
      <4>1. i - t \in 1..m /\ t + (i - t) = i
        BY <1>1, <1>3, <3>2 DEF m
      <4> QED
        BY <1>5, <2>2, <3>2, <4>1
    <3> QED
      BY <1>3, <3>1, <3>2
  <2>4. Len(y) = n
    BY <1>1, <1>3, <2>2 DEF m
  <2>5. y = s
    BY <1>1, <2>2, <2>3, <2>4 DEF Text
  <2> QED
    BY <2>5 DEF y, m
<1> QED
  BY <1>3, <1>4, <1>5, <1>6, <1>7, <1>8

LEMMA MinIs ==
  ASSUME NEW a \in Nat, NEW b \in Nat
  PROVE  Min({a, b}) = IF a <= b THEN a ELSE b
<1>1. CASE a <= b
  BY <1>1 DEF Min
<1>2. CASE ~(a <= b)
  BY <1>2 DEF Min
<1> QED
  BY <1>1, <1>2

LEMMA SameText ==
  ASSUME NEW s \in Text, NEW t \in Text, Len(s) = Len(t), \A i \in 1..Len(s) : s[i] = t[i]
  PROVE  s = t
BY DEF Text

\* What is cut off, or added, are zeros.
LEMMA PaddedIs ==
  ASSUME NEW s \in Text, NEW d \in Nat, Len(Trimmed(s)) <= d
  PROVE  /\ Padded(s, d) = Trimmed(s) \o Zeros(d - Len(Trimmed(s)))
         /\ Padded(s, d) \in Text /\ Len(Padded(s, d)) = d
<1> DEFINE n == Len(s)
           z == Trimmed(s)
           t == Len(z)
           k == d - Min({n, d})
           x == s \o Zeros(k)
           p == SubSeq(x, 1, d)
           m == d - t
           y == z \o Zeros(m)
<1>1. /\ n \in Nat /\ t \in 0..n /\ z \in Text
      /\ \A i \in 1..t : z[i] = s[i]
      /\ \A i \in 1..n : i > t => s[i] = 0
  BY TrimmedIs, ValueType
<1>2. k = (IF n <= d THEN d - n ELSE 0) /\ k \in Nat
  BY <1>1, MinIs
<1> HIDE DEF k
<1>3. /\ x \in Text /\ Len(x) = n + k
      /\ \A i \in 1..n : x[i] = s[i]
      /\ \A j \in 1..k : x[n + j] = 0
  <2>1. s \o Zeros(k) \in Text
    BY <1>2, Followed
  <2> QED
    BY <1>1, <1>2, Followed
<1> HIDE DEF x
<1>4. p \in Text /\ Len(p) = d /\ \A i \in 1..d : p[i] = x[i]
  <2>1. d <= Len(x)
    BY <1>1, <1>2, <1>3
  <2> QED
    BY <1>3, <2>1 DEF Text
<1> HIDE DEF p
<1>5. m \in Nat /\ t + m = d
  BY <1>1
<1> HIDE DEF m
<1>8. /\ y \in Text /\ Len(y) = t + m
      /\ \A i \in 1..t : y[i] = z[i]
      /\ \A j \in 1..m : y[t + j] = 0
  <2> HIDE DEF z
  <2> QED
    BY <1>1, <1>5, Followed
<1> HIDE DEF y, z, t, n
<1>6. ASSUME NEW i \in 1..d PROVE p[i] = y[i]
  <2>1. CASE i <= t
    BY <1>1, <1>3, <1>4, <1>8, <2>1
  <2>2. CASE i > t
    <3>1. i - t \in 1..m /\ t + (i - t) = i
      BY <1>1, <1>5, <2>2
    <3>2. y[i] = 0
      BY <1>8, <3>1
    <3>3. CASE i <= n
      BY <1>1, <1>3, <1>4, <2>2, <3>2, <3>3
    <3>4. CASE i > n
      <4>1. i - n \in 1..k /\ n + (i - n) = i
        BY <1>1, <1>2, <3>4
      <4> QED
        BY <1>3, <1>4, <3>2, <4>1
    <3> QED
      BY <1>1, <3>3, <3>4
  <2> QED
    BY <1>1, <2>1, <2>2
<1>7. p = y
  BY <1>4, <1>5, <1>6, <1>8, SameText
<1> QED
  BY <1>4, <1>7 DEF Padded, p, y, x, k, n, z, t, m

-----------------------------------------------------------------------------
\* The digits of a number.

LEMMA SizeIs ==
  ASSUME NEW n \in Nat
  PROVE  /\ Size(n) \in Nat \ {0} /\ n < TenTo[Size(n)]
         /\ Size(n) = 1 \/ n >= TenTo[Size(n) - 1]
<1> DEFINE S == {k \in Nat \ {0} : n < TenTo[k]}
<1>1. n + 1 \in S
  <2>1. TenTo[n + 1] > n + 1 /\ TenTo[n + 1] \in Nat
    BY TenToExceeds, TenToIs
  <2> QED
    BY <2>1
<1>2. S \in SUBSET Nat /\ S # {}
  BY <1>1
<1>3. PICK k \in S : \A l \in S : k <= l
  <2> HIDE DEF S
  <2> QED
    BY <1>2, HasLeast
<1>4. k \in 1..n + 1
  BY <1>1, <1>3
<1>5. k = 1 \/ n >= TenTo[k - 1]
  <2> SUFFICES ASSUME k # 1 PROVE n >= TenTo[k - 1]
    OBVIOUS
  <2>1. k - 1 \in Nat \ {0} /\ k - 1 \notin S
    BY <1>3, <1>4
  <2>2. TenTo[k - 1] \in Nat
    BY <2>1, TenToIs
  <2> QED
    BY <2>1, <2>2
<1>6. \E l \in 1..n + 1 : n < TenTo[l] /\ (l = 1 \/ n >= TenTo[l - 1])
  BY <1>4, <1>5
<1>7. Size(n) \in 1..n + 1 /\ n < TenTo[Size(n)] /\ (Size(n) = 1 \/ n >= TenTo[Size(n) - 1])
  BY <1>6 DEF Size
<1> QED
  BY <1>7

LEMMA SizeBound ==
  ASSUME NEW n \in Nat, NEW d \in Nat \ {0}, n < TenTo[d]
  PROVE  Size(n) <= d
<1> SUFFICES ASSUME Size(n) > d PROVE FALSE
  BY SizeIs
<1> DEFINE k == Size(n)
<1>1. k \in Nat /\ k # 1 /\ k - 1 \in Nat /\ d <= k - 1
  BY SizeIs
<1>2. n >= TenTo[k - 1]
  BY <1>1, SizeIs
<1> HIDE DEF k
<1>3. TenTo[d] <= TenTo[k - 1] /\ TenTo[d] \in Nat /\ TenTo[k - 1] \in Nat
  BY <1>1, TenToGrows, TenToIs
<1> QED
  BY <1>2, <1>3

LEMMA Divided ==
  ASSUME NEW b \in Nat \ {0}, NEW q \in Nat, NEW r \in 0..b - 1
  PROVE  (q * b + r) \div b = q /\ (q * b + r) % b = r
OBVIOUS

LEMMA Division ==
  ASSUME NEW n \in Nat, NEW b \in Nat \ {0}
  PROVE  n \div b \in Nat /\ n % b \in 0..b - 1 /\ n = (n \div b) * b + (n % b)
OBVIOUS

\* Dividing once more by ten.
LEMMA DividedAgain ==
  ASSUME NEW n \in Nat, NEW a \in Nat \ {0}
  PROVE  (n \div a) \div 10 = n \div (10 * a)
<1> DEFINE q == n \div a
           r == n % a
           u == q \div 10
           w == q % 10
<1>1. q \in Nat /\ r \in 0..a - 1 /\ n = q * a + r
  BY Division
<1> HIDE DEF q, r
<1>2. u \in Nat /\ w \in 0..9 /\ q = u * 10 + w
  BY <1>1
<1> HIDE DEF u, w
<1> DEFINE s == w * a + r
           b == 10 * a
<1>3. b \in Nat \ {0}
  OBVIOUS
<1>4. s \in 0..b - 1
  <2>1. w * a \in Nat /\ w * a <= 9 * a
    BY <1>2
  <2> QED
    BY <1>1, <2>1
<1>5. n = u * b + s
  <2>1. (u * 10 + w) * a = u * (10 * a) + w * a
    <3>1. \A x, y, z \in Nat : (x * 10 + y) * z = x * (10 * z) + y * z
      OBVIOUS
    <3>2. u \in Nat /\ w \in Nat /\ a \in Nat
      BY <1>2
    <3> QED
      BY <3>1, <3>2
  <2>2. u * (10 * a) \in Nat /\ w * a \in Nat
    BY <1>2
  <2> QED
    BY <1>1, <1>2, <2>1, <2>2
<1> HIDE DEF b, s
<1>6. n \div b = u
  BY <1>2, <1>3, <1>4, <1>5, Divided
<1> QED
  BY <1>6 DEF b, u, q

LEMMA DigitsAre ==
  ASSUME NEW n \in Nat
  PROVE  Digits(n) \in Text /\ Len(Digits(n)) = Size(n) /\ Len(Digits(n)) # 0
<1> DEFINE k == Size(n)
<1>1. k \in Nat \ {0}
  BY SizeIs
<1> HIDE DEF k
<1>2. ASSUME NEW i \in 1..k PROVE (n \div TenTo[k - i]) % 10 \in 0..9
  <2>1. TenTo[k - i] \in Nat \ {0}
    <3>1. k - i \in Nat
      BY <1>1
    <3> QED
      BY <3>1, TenToIs
  <2>2. n \div TenTo[k - i] \in Nat
    BY <2>1, Division
  <2> QED
    BY <2>2
<1>3. [i \in 1..k |-> (n \div TenTo[k - i]) % 10] \in [1..k -> 0..9]
  BY <1>2
<1>4. Digits(n) = [i \in 1..k |-> (n \div TenTo[k - i]) % 10]
  BY DEF Digits, k
<1>5. Digits(n) \in [1..k -> 0..9]
  BY <1>3, <1>4
<1> QED
  BY <1>1, <1>5 DEF Text, k

LEMMA ValueDigits ==
  ASSUME NEW n \in Nat
  PROVE  Value(Digits(n)) = n
<1> DEFINE k == Size(n)
           s == Digits(n)
           v == Readings(s)
<1>1. k \in Nat \ {0} /\ n < TenTo[k]
  BY SizeIs
<1>2. s \in Text /\ Len(s) = k
  BY DigitsAre
<1>3. \A i \in 1..k : s[i] = (n \div TenTo[k - i]) % 10
  BY DEF Digits
<1>4. v \in [0..k -> Nat] /\ v[0] = 0 /\ \A i \in 1..k : v[i] = 10 * v[i - 1] + s[i]
  BY <1>2, ReadingsAre
<1>5. Value(s) = v[k]
  BY <1>2 DEF Value
<1> HIDE DEF v, s, k
<1> DEFINE S == {i \in Nat : i <= k => v[i] = n \div TenTo[k - i]}
<1>6. 0 \in S /\ S \in SUBSET Nat
  <2>1. TenTo[k] \in Nat \ {0} /\ n \in 0..TenTo[k] - 1
    BY <1>1, TenToIs
  <2>2. n \div TenTo[k] = 0
    BY <2>1
  <2>3. k - 0 = k
    BY <1>1
  <2> QED
    BY <1>4, <2>2, <2>3
<1>7. \A i \in S : i < k => i + 1 \in S
  <2> SUFFICES ASSUME NEW i \in S, i < k PROVE v[i + 1] = n \div TenTo[k - (i + 1)]
    OBVIOUS
  <2> DEFINE j == k - (i + 1)
             m == n \div TenTo[j]
  <2>1. i + 1 \in 1..k /\ (i + 1) - 1 = i /\ j \in Nat /\ k - i = j + 1 /\ i \in Nat
    BY <1>1
  <2>2. v[i] = n \div TenTo[k - i]
    <3>1. i <= k
      BY <1>1, <2>1
    <3> QED
      BY <3>1
  <2>3. TenTo[j + 1] = 10 * TenTo[j] /\ TenTo[j] \in Nat \ {0}
    BY <2>1, TenToIs
  <2>4. v[i + 1] = 10 * v[(i + 1) - 1] + s[i + 1] /\ s[i + 1] = m % 10
    BY <1>3, <1>4, <2>1
  <2> HIDE DEF j, S
  <2>5. v[i] = m \div 10
    BY <2>1, <2>2, <2>3, DividedAgain
  <2>6. m \in Nat
    BY <2>3, Division
  <2> HIDE DEF m
  <2>7. m = 10 * (m \div 10) + (m % 10)
    BY <2>6
  <2>8. v[i + 1] = m
    BY <2>1, <2>4, <2>5, <2>7
  <2> QED
    BY <2>8 DEF m, j
<1> HIDE DEF S
<1>8. 0..k \subseteq S
  BY <1>1, <1>6, <1>7, UpTo
<1>9. v[k] = n \div TenTo[k - k]
  <2>1. k \in 0..k
    BY <1>1
  <2> QED
    BY <1>1, <1>8, <2>1 DEF S
<1>10. TenTo[k - k] = 1
  <2>1. k - k = 0
    BY <1>1
  <2> QED
    BY <2>1, TenToIs
<1>11. n \div 1 = n
  OBVIOUS
<1> QED
  BY <1>5, <1>9, <1>10, <1>11 DEF s

-----------------------------------------------------------------------------
\* Parse and Format.

LEMMA Associative ==
  ASSUME NEW s \in Text, NEW t \in Text, NEW u \in Text
  PROVE  s \o (t \o u) = (s \o t) \o u
<1> DEFINE x == t \o u
           y == s \o t
           f == s \o x
           g == y \o u
           k == Len(s)
           l == Len(t)
           m == Len(u)
<1>1. k \in Nat /\ l \in Nat /\ m \in Nat
  BY ValueType
<1>2. /\ x \in Text /\ Len(x) = l + m
      /\ \A i \in 1..l : x[i] = t[i]
      /\ \A i \in 1..m : x[l + i] = u[i]
  BY Concatenated
<1>3. /\ y \in Text /\ Len(y) = k + l
      /\ \A i \in 1..k : y[i] = s[i]
      /\ \A i \in 1..l : y[k + i] = t[i]
  BY Concatenated
<1> HIDE DEF x, y
<1>4. /\ f \in Text /\ Len(f) = k + (l + m)
      /\ \A i \in 1..k : f[i] = s[i]
      /\ \A i \in 1..l + m : f[k + i] = x[i]
  <2>1. /\ f \in Text /\ Len(f) = k + Len(x)
        /\ \A i \in 1..k : f[i] = s[i]
        /\ \A i \in 1..Len(x) : f[k + i] = x[i]
    BY <1>2, Concatenated
  <2> QED
    BY <1>2, <2>1
<1>5. /\ g \in Text /\ Len(g) = (k + l) + m
      /\ \A i \in 1..k + l : g[i] = y[i]
      /\ \A i \in 1..m : g[(k + l) + i] = u[i]
  <2>1. /\ g \in Text /\ Len(g) = Len(y) + m
        /\ \A i \in 1..Len(y) : g[i] = y[i]
        /\ \A i \in 1..m : g[Len(y) + i] = u[i]
    BY <1>3, Concatenated
  <2> QED
    BY <1>3, <2>1
<1> HIDE DEF f, g, k, l, m
<1>6. ASSUME NEW i \in 1..k + (l + m) PROVE f[i] = g[i]
  <2>1. CASE i <= k
    BY <1>1, <1>3, <1>4, <1>5, <2>1
  <2>2. CASE i > k /\ i <= k + l
    <3>1. i - k \in 1..l /\ i - k \in 1..l + m /\ k + (i - k) = i /\ i \in 1..k + l
      BY <1>1, <2>2
    <3> QED
      BY <1>2, <1>3, <1>4, <1>5, <3>1
  <2>3. CASE i > k + l
    <3> DEFINE j == i - (k + l)
    <3>1. j \in 1..m /\ l + j \in 1..l + m /\ k + (l + j) = i /\ (k + l) + j = i
      BY <1>1, <2>3
    <3> HIDE DEF j
    <3>2. f[k + (l + j)] = x[l + j] /\ x[l + j] = u[j] /\ g[(k + l) + j] = u[j]
      BY <1>2, <1>4, <1>5, <3>1
    <3> QED
      BY <3>1, <3>2
  <2> QED
    BY <1>1, <2>1, <2>2, <2>3
<1>7. Len(f) = Len(g)
  BY <1>1, <1>4, <1>5
<1>8. f = g
  BY <1>4, <1>5, <1>6, <1>7, SameText
<1> QED
  BY <1>8 DEF f, g, x, y

\* A text is a number of units exactly, if all it says fits the token's scale.
LEMMA UnitsExact ==
  ASSUME NEW t, t.int \in Text, t.frac \in Text, NEW d \in Nat, Len(Trimmed(t.frac)) <= d
  PROVE  /\ Units(t, d) \in Nat /\ Scaled(t) \in Nat
         /\ Units(t, d) * TenTo[Len(t.frac)] = Scaled(t) * TenTo[d]
<1> DEFINE l == Len(t.frac)
           z == Trimmed(t.frac)
           k == Len(z)
           p == Padded(t.frac, d)
           a == t.int \o z
           m == d - k
           r == l - k
<1>1. z \in Text /\ k \in 0..l /\ l \in Nat /\ t.frac = z \o Zeros(r)
  BY TrimmedIs, ValueType
<1>2. p = z \o Zeros(m)
  BY PaddedIs
<1>3. m \in Nat /\ r \in Nat /\ k \in Nat /\ d = k + m /\ l = k + r
  BY <1>1
<1> HIDE DEF p, m, r, l, k, z
<1>4. a \in Text /\ Value(a) \in Nat
  BY <1>1, Concatenated, ValueType
<1>5. ASSUME NEW n \in Nat
      PROVE  t.int \o (z \o Zeros(n)) = a \o Zeros(n)
  <2>1. Zeros(n) \in Text
    BY ZerosAre
  <2> QED
    BY <1>1, <2>1, Associative
<1>6. Units(t, d) = Value(a) * TenTo[m]
  <2>1. Units(t, d) = Value(a \o Zeros(m))
    BY <1>2, <1>3, <1>5 DEF Units, p
  <2> HIDE DEF a
  <2> QED
    BY <1>3, <1>4, <2>1, Shifted
<1>7. Scaled(t) = Value(a) * TenTo[r]
  <2>1. Scaled(t) = Value(a \o Zeros(r))
    BY <1>1, <1>3, <1>5 DEF Scaled
  <2> HIDE DEF a
  <2> QED
    BY <1>3, <1>4, <2>1, Shifted
<1> HIDE DEF a
<1>8. /\ TenTo[l] = TenTo[k] * TenTo[r] /\ TenTo[d] = TenTo[k] * TenTo[m]
      /\ TenTo[k] \in Nat /\ TenTo[r] \in Nat /\ TenTo[m] \in Nat
  BY <1>3, TenToSum, TenToIs
<1>9. \A v, x, y, w \in Nat : (v * x) * (w * y) = (v * y) * (w * x) /\ v * x \in Nat
  OBVIOUS
<1> QED
  BY <1>4, <1>6, <1>7, <1>8, <1>9 DEF l

\* A text with a digit below the token's scale is no number of units.
LEMMA TooPrecise ==
  ASSUME NEW t, t.int \in Text, t.frac \in Text, NEW d \in Nat, Len(Trimmed(t.frac)) > d
  PROVE  (Scaled(t) * TenTo[d]) % TenTo[Len(t.frac)] # 0
<1> DEFINE l == Len(t.frac)
           z == Trimmed(t.frac)
           k == Len(z)
           a == t.int \o z
           r == l - k
           e == k - d
<1>1. /\ z \in Text /\ k \in 0..l /\ l \in Nat /\ t.frac = z \o Zeros(r)
      /\ \A i \in 1..k : z[i] = t.frac[i]
      /\ k > 0 => t.frac[k] # 0
  BY TrimmedIs, ValueType
<1>2. e \in Nat \ {0} /\ r \in Nat /\ k \in Nat \ {0} /\ l = d + r + e /\ z[k] # 0
  BY <1>1
<1> HIDE DEF r, e, l, k, z
<1>3. a \in Text /\ Value(a) \in Nat
  BY <1>1, Concatenated, ValueType
<1>4. Scaled(t) = Value(a) * TenTo[r]
  <2>1. Zeros(r) \in Text
    BY <1>2, ZerosAre
  <2>2. t.int \o (z \o Zeros(r)) = a \o Zeros(r)
    BY <1>1, <2>1, Associative
  <2>3. Scaled(t) = Value(a \o Zeros(r))
    BY <1>1, <2>2 DEF Scaled
  <2> HIDE DEF a
  <2> QED
    BY <1>2, <1>3, <2>3, Shifted
<1>5. Value(a) % 10 # 0
  <2> DEFINE n == Len(a)
             v == Readings(a)
  <2>1. n = Len(t.int) + k /\ Len(t.int) \in Nat /\ a[n] = z[k]
    <3>1. k = Len(z) /\ k \in 1..k
      BY <1>2 DEF k
    <3>2. /\ Len(a) = Len(t.int) + Len(z)
          /\ \A j \in 1..Len(z) : a[Len(t.int) + j] = z[j]
      BY <1>1, Concatenated DEF a
    <3>3. Len(t.int) \in Nat
      BY ValueType
    <3> HIDE DEF a
    <3>4. a[Len(t.int) + k] = z[k]
      BY <3>1, <3>2
    <3> QED
      BY <3>1, <3>2, <3>3, <3>4
  <2>2. v \in [0..n -> Nat] /\ \A i \in 1..n : v[i] = 10 * v[i - 1] + a[i]
    BY <1>3, ReadingsAre
  <2>3. n \in 1..n /\ n - 1 \in 0..n
    BY <1>2, <2>1
  <2>4. Value(a) = v[n] /\ a[n] \in 0..9
    BY <1>3, <2>3, ValueType DEF Value
  <2> HIDE DEF n, v, a
  <2>5. Value(a) = 10 * v[n - 1] + a[n] /\ v[n - 1] \in Nat /\ a[n] \in 1..9
    <3>1. a[n] # 0 /\ n \in 1..n /\ n - 1 \in 0..n
      BY <1>2, <2>1, <2>3
    <3>2. v[n] = 10 * v[n - 1] + a[n]
      BY <2>2, <2>3
    <3>3. v[n - 1] \in Nat
      BY <2>2, <2>3
    <3> QED
      BY <2>4, <3>1, <3>2, <3>3
  <2> QED
    BY <2>5
<1> HIDE DEF a
<1> DEFINE x == TenTo[d + r]
           w == TenTo[e - 1]
           v == Value(a)
<1>6. /\ Scaled(t) * TenTo[d] = v * x
      /\ TenTo[l] = x * (10 * w) /\ x \in Nat \ {0} /\ w \in Nat \ {0}
  <2>1. e - 1 \in Nat /\ (e - 1) + 1 = e
    BY <1>2
  <2>2. w \in Nat \ {0} /\ TenTo[e] = 10 * w
    BY <2>1, TenToIs
  <2>3. x = TenTo[d] * TenTo[r] /\ x \in Nat \ {0} /\ TenTo[d] \in Nat /\ TenTo[r] \in Nat
    <3>1. d \in Nat /\ r \in Nat /\ d + r \in Nat
      BY <1>2
    <3> QED
      BY <3>1, TenToSum, TenToIs
  <2>4. TenTo[l] = x * TenTo[e]
    <3>1. d + r \in Nat /\ e \in Nat /\ l = (d + r) + e
      BY <1>2
    <3>2. TenTo[(d + r) + e] = TenTo[d + r] * TenTo[e]
      BY <3>1, TenToSum
    <3> QED
      BY <3>1, <3>2
  <2>5. \A i, j, h \in Nat : (i * j) * h = i * (h * j)
    OBVIOUS
  <2> QED
    BY <1>3, <1>4, <2>2, <2>3, <2>4, <2>5
<1>7. v \in Nat /\ v % 10 # 0
  BY <1>3, <1>5
<1> HIDE DEF x, w, v
<1>8. ASSUME (v * x) % (x * (10 * w)) = 0 PROVE FALSE
  <2> DEFINE b == x * (10 * w)
             q == (v * x) \div b
  <2>1. b \in Nat \ {0} /\ v * x \in Nat
    <3>1. \A i, j \in Nat \ {0} : i * (10 * j) \in Nat \ {0}
      OBVIOUS
    <3>2. \A i, j \in Nat : i * j \in Nat
      OBVIOUS
    <3> QED
      BY <1>6, <1>7, <3>1, <3>2
  <2>2. q \in Nat /\ v * x = q * b + ((v * x) % b)
    <3> DEFINE y == v * x
    <3> HIDE DEF y, b
    <3> QED
      BY <2>1, Division DEF y
  <2> HIDE DEF q
  <2>3. v * x = (10 * (q * w)) * x
    <3>1. \A i, j, h \in Nat : i * (j * (10 * h)) = (10 * (i * h)) * j
      OBVIOUS
    <3>2. q * b + 0 = (10 * (q * w)) * x
      <4>1. q * b = (10 * (q * w)) * x
        BY <1>6, <2>2, <3>1
      <4>2. q * b \in Nat
        BY <2>1, <2>2
      <4> QED
        BY <4>1, <4>2
    <3> QED
      BY <1>8, <2>2, <3>2
  <2>4. v = 10 * (q * w)
    <3>1. \A i, j \in Nat : \A h \in Nat \ {0} : i * h = j * h => i = j
      OBVIOUS
    <3>2. 10 * (q * w) \in Nat
      BY <1>6, <2>2
    <3> QED
      BY <1>6, <1>7, <2>3, <3>1, <3>2
  <2> DEFINE g == q * w
  <2>5. g \in Nat
    BY <1>6, <2>2
  <2> HIDE DEF g
  <2>6. (10 * g) % 10 = 0
    BY <2>5
  <2> QED
    BY <1>7, <2>4, <2>6 DEF g
<1> QED
  BY <1>6, <1>8 DEF l

\* What is cut off a text that has no zeros at its end is nothing.
LEMMA TrimmedTwice ==
  ASSUME NEW s \in Text
  PROVE  Trimmed(Trimmed(s)) = Trimmed(s)
<1> DEFINE z == Trimmed(s)
           y == Trimmed(z)
<1>1. /\ z \in Text /\ Len(z) \in Nat
      /\ Len(z) > 0 => z[Len(z)] # 0
  <2>1. /\ z \in Text /\ Len(z) \in Nat
        /\ \A i \in 1..Len(z) : z[i] = s[i]
        /\ Len(z) > 0 => s[Len(z)] # 0
    BY TrimmedIs, ValueType
  <2> HIDE DEF z
  <2>2. Len(z) > 0 => Len(z) \in 1..Len(z)
    BY <2>1
  <2> QED
    BY <2>1, <2>2
<1> HIDE DEF z
<1>2. /\ y \in Text /\ Len(y) \in 0..Len(z)
      /\ \A i \in 1..Len(y) : y[i] = z[i]
      /\ \A i \in 1..Len(z) : i > Len(y) => z[i] = 0
  BY <1>1, TrimmedIs
<1> HIDE DEF y
<1>3. Len(y) = Len(z)
  <2> SUFFICES ASSUME Len(y) # Len(z) PROVE FALSE
    OBVIOUS
  <2>1. Len(z) > 0 /\ Len(z) > Len(y) /\ Len(z) \in 1..Len(z)
    BY <1>1, <1>2
  <2> QED
    BY <1>1, <1>2, <2>1
<1>4. y = z
  BY <1>1, <1>2, <1>3, SameText
<1> QED
  BY <1>4 DEF y, z

\* Below the scale of a token the amount has as many digits as the scale.
LEMMA FractionIs ==
  ASSUME NEW n \in Nat, NEW d \in Nat \ {0}
  PROVE  /\ Fraction(n, d) \in Text
         /\ Trimmed(Fraction(n, d)) = Fraction(n, d) /\ Len(Fraction(n, d)) <= d
         /\ Padded(Fraction(n, d), d) \in Text /\ Len(Padded(Fraction(n, d), d)) = d
         /\ Value(Padded(Fraction(n, d), d)) = n % TenTo[d]
<1> DEFINE r == n % TenTo[d]
           f == Digits(r)
           m == d - Min({Len(f), d})
           w == Zeros(m) \o f
           z == Trimmed(w)
<1>1. r \in Nat /\ r < TenTo[d]
  <2>1. TenTo[d] \in Nat \ {0}
    BY TenToIs
  <2> DEFINE b == TenTo[d]
  <2> HIDE DEF b
  <2>2. n % b \in 0..b - 1
    BY <2>1, Division DEF b
  <2> QED
    BY <2>1, <2>2 DEF b
<1>0. Fraction(n, d) = z
  BY DEF Fraction
<1> HIDE DEF r
<1>2. f \in Text /\ Len(f) \in 0..d /\ Value(f) = r
  <2>1. Len(f) = Size(r) /\ f \in Text
    BY <1>1, DigitsAre
  <2>2. Size(r) <= d /\ Size(r) \in Nat
    BY <1>1, SizeBound, SizeIs
  <2>3. Value(f) = r
    BY <1>1, ValueDigits
  <2> QED
    BY <2>1, <2>2, <2>3
<1> HIDE DEF f
<1>3. m \in Nat /\ m + Len(f) = d
  <2>1. Min({Len(f), d}) = Len(f)
    BY <1>2, MinIs
  <2> QED
    BY <1>2, <2>1
<1> HIDE DEF m
<1>4. w \in Text /\ Value(w) = r /\ Len(w) = d
  <2>1. Zeros(m) \in Text /\ Len(Zeros(m)) = m
    BY <1>3, ZerosAre
  <2>2. Len(w) = m + Len(f)
    BY <1>2, <2>1, Concatenated
  <2> QED
    BY <1>2, <1>3, <2>2, Led
<1> HIDE DEF w
<1>5. z \in Text /\ Len(z) \in 0..d /\ w = z \o Zeros(d - Len(z)) /\ Trimmed(z) = z
  BY <1>4, TrimmedIs, TrimmedTwice
<1> HIDE DEF z
<1>6. Len(z) <= d
  BY <1>5
<1>7. Padded(z, d) = w
  BY <1>5, <1>6, PaddedIs
<1> QED
  BY <1>0, <1>4, <1>5, <1>6, <1>7 DEF r

\* An amount is read back as it was written, at any scale.
LEMMA RoundTrip ==
  ASSUME NEW n \in Nat, NEW d \in Nat
  PROVE  Flaw(Format(n, d), d) = "none" /\ Units(Format(n, d), d) = n
<1> DEFINE t == Format(n, d)
           b == TenTo[d]
           q == n \div b
           f == IF d = 0 THEN <<>> ELSE Fraction(n, d)
           i == Digits(q)
<1>1. t.sign = "none" /\ t.dots \in {0, 1} /\ t.junk = FALSE /\ t.int = i /\ t.frac = f
  BY DEF Format
<1> HIDE DEF t
<1>2. b \in Nat \ {0}
  BY TenToIs
<1> HIDE DEF b
<1>3. q \in Nat /\ n % b \in Nat /\ n = q * b + (n % b)
  BY <1>2, Division
<1> HIDE DEF q
<1>4. i \in Text /\ Len(i) \in Nat \ {0} /\ Value(i) = q
  BY <1>3, DigitsAre, ValueDigits, ValueType
<1> HIDE DEF i
<1>5. /\ f \in Text /\ Len(Trimmed(f)) <= d
      /\ Padded(f, d) \in Text /\ Len(Padded(f, d)) = d /\ Value(Padded(f, d)) = n % b
  <2>1. CASE d = 0
    <3>1. f = <<>>
      BY <2>1
    <3>2. f \in Text /\ Len(f) = 0
      <4>1. f = Zeros(0)
        BY <3>1 DEF Zeros
      <4> HIDE DEF f
      <4> QED
        BY <4>1, ZerosAre
    <3>3. Len(Trimmed(f)) \in 0..0
      BY <3>2, TrimmedIs
    <3>4. Padded(f, d) \in Text /\ Len(Padded(f, d)) = d
      BY <2>1, <3>2, <3>3, PaddedIs
    <3>5. Padded(f, d) = Zeros(0)
      <4>1. Zeros(0) \in Text /\ Len(Zeros(0)) = 0
        BY ZerosAre
      <4>2. \A j \in 1..0 : Padded(f, d)[j] = Zeros(0)[j]
        OBVIOUS
      <4> QED
        BY <2>1, <3>4, <4>1, <4>2, SameText
    <3>6. Value(Padded(f, d)) = 0
      BY <3>5, ValueZeros
    <3>7. n % b = 0
      <4>1. b = 1
        BY <2>1, TenToIs DEF b
      <4> QED
        BY <4>1
    <3> QED
      BY <2>1, <3>2, <3>3, <3>4, <3>6, <3>7
  <2>2. CASE d # 0
    <3>1. f = Fraction(n, d) /\ d \in Nat \ {0}
      BY <2>2
    <3> HIDE DEF f
    <3> QED
      BY <3>1, FractionIs DEF b
  <2> QED
    BY <2>1, <2>2
<1> HIDE DEF f
<1> DEFINE p == Padded(f, d)
<1>6. /\ i \o f # <<>> /\ i \o p # <<>>
      /\ Value(i \o p) = n
  <2>1. p \in Text /\ Len(p) = d /\ Value(p) = n % b
    BY <1>5
  <2> HIDE DEF p
  <2>2. Len(i \o p) = Len(i) + Len(p) /\ Len(i \o f) = Len(i) + Len(f) /\ Len(f) \in Nat
    BY <1>4, <1>5, <2>1, Concatenated, ValueType
  <2>3. Len(i \o p) # 0 /\ Len(i \o f) # 0
    BY <1>4, <2>1, <2>2
  <2>4. Value(i \o p) = q * b + (n % b)
    BY <1>4, <2>1, ValueConcat DEF b
  <2> QED
    BY <1>3, <2>3, <2>4
<1>7. Flaw(t, d) = "none"
  BY <1>1, <1>5, <1>6 DEF Flaw, Significant
<1>8. Units(t, d) = n
  BY <1>1, <1>6 DEF Units
<1> QED
  BY <1>7, <1>8 DEF t

\* A text that is rejected is no positive number of units.
LEMMA RejectedRightly ==
  ASSUME NEW t, t.int \in Text, t.frac \in Text, NEW d \in Nat,
         Flaw(t, d) # "none" \/ Units(t, d) = 0
  PROVE  \/ t.sign = "-" \/ t.junk \/ t.dots > 1 \/ Scaled(t) = 0
         \/ (Scaled(t) * TenTo[d]) % TenTo[Len(t.frac)] # 0
<1> SUFFICES ASSUME t.sign # "-", ~t.junk, ~(t.dots > 1), Scaled(t) # 0
             PROVE  (Scaled(t) * TenTo[d]) % TenTo[Len(t.frac)] # 0
  OBVIOUS
<1>1. Value(<<>>) = 0
  <2>1. Zeros(0) = <<>>
    BY DEF Zeros
  <2> QED
    BY <2>1, ValueZeros
<1>2. t.int \o t.frac # <<>>
  BY <1>1 DEF Scaled
<1>3. CASE Len(Significant(t.frac)) > d
  BY <1>3, TooPrecise DEF Significant
<1>4. CASE ~(Len(Significant(t.frac)) > d)
  <2>0. Len(Trimmed(t.frac)) <= d
    <3>1. Len(Trimmed(t.frac)) \in Nat
      BY TrimmedIs, ValueType
    <3> QED
      BY <1>4, <3>1 DEF Significant
  <2>1. Units(t, d) = 0
    <3>1. CASE t.int \o Padded(t.frac, d) = <<>>
      BY <1>1, <3>1 DEF Units
    <3>2. CASE t.int \o Padded(t.frac, d) # <<>>
      BY <1>2, <1>4, <3>2 DEF Flaw
    <3> QED
      BY <3>1, <3>2
  <2>2. /\ Units(t, d) * TenTo[Len(t.frac)] = Scaled(t) * TenTo[d]
        /\ Scaled(t) \in Nat /\ TenTo[d] \in Nat \ {0} /\ TenTo[Len(t.frac)] \in Nat
    BY <2>0, UnitsExact, TenToIs, ValueType
  <2>3. \A x \in Nat, y \in Nat \ {0} : x * y = 0 => x = 0
    OBVIOUS
  <2>4. \A x \in Nat : 0 * x = 0
    OBVIOUS
  <2> QED
    BY <2>1, <2>2, <2>3, <2>4
<1> QED
  BY <1>3, <1>4

-----------------------------------------------------------------------------
\* Points of a grid.

LEMMA Ascending ==
  ASSUME NEW s \in Nat \ {0}, NEW a \in Int, NEW b \in Int, a < b
  PROVE  s * a < s * b
  BY Z3

LEMMA OnTheGrid ==
  ASSUME NEW s \in Nat \ {0}, NEW d \in Int, d % s = 0
  PROVE  d = s * (d \div s) /\ d \div s \in Int
  BY Z3

LEMMA OfTheGrid ==
  ASSUME NEW s \in Nat \ {0}, NEW m \in Int
  PROVE  (s * m) % s = 0 /\ (s * m) \div s = m
  BY Z3

LEMMA AssetFacts ==
  ASSUME TypeOK, pc \notin {"resolve", "done"}
  PROVE  asset.step \in Nat \ {0} /\ asset.nonceMax \in Nat \ {0}
  BY RequestAssumption DEF TypeOK

LEMMA AmountFacts ==
  ASSUME TypeOK, pc \notin {"resolve", "done"}, NEW a \in Int
  PROVE  Amount(a) \in Int /\ Amount(0) = base /\ \A b \in Int : a < b => Amount(a) < Amount(b)
<1> DEFINE s == asset.step
<1>1. s \in Nat \ {0} /\ base \in Int
  BY AssetFacts DEF TypeOK
<1>2. \A b \in Int : a < b => s * a < s * b
  BY <1>1, Ascending
<1>3. \A b : Amount(b) = base + s * b
  BY DEF Amount
<1> HIDE DEF s
<1>4. \A b \in Int : s * b \in Int
  BY <1>1
<1>5. Amount(a) \in Int /\ Amount(0) = base
  BY <1>1, <1>3, <1>4
<1>6. ASSUME NEW b \in Int, a < b PROVE Amount(a) < Amount(b)
  <2>1. s * a < s * b /\ s * a \in Int /\ s * b \in Int
    BY <1>2, <1>4, <1>6
  <2> QED
    BY <1>1, <1>3, <2>1
<1> QED
  BY <1>5, <1>6

-----------------------------------------------------------------------------
\* Every step keeps the invariant.

LEMMA InitInv == Init => IInv
<1> SUFFICES ASSUME Init PROVE IInv
  OBVIOUS
<1>1. TypeOK
  BY DEF Init, TypeOK, Stages, Reasons
<1>2. Understood
  BY DEF Init, Understood, Resolved, Served
<1> QED
  BY <1>1, <1>2 DEF Init, IInv, Open, WalkInv, LowestFree, Served

\* A step that reads the request, the catalogue and the asset changes none.
LEMMA StillUnderstood ==
  ASSUME Understood, UNCHANGED <<request, catalogue, asset, base>>,
         Resolved <=> Resolved',
         refusal' = "bad amount" =>
           \/ refusal = "bad amount"
           \/ Flaw(request.amount, asset.decimals) # "none"
           \/ Units(request.amount, asset.decimals) = 0,
         Served' => shown' = Format(pay', asset.decimals)
  PROVE  Understood'
<1>1. Named' = Named
  BY DEF Named
<1> QED
  BY <1>1 DEF Understood

\* A request refused before the walk.
LEMMA RefuseInv ==
  ASSUME IInv, NEW why \in Reasons \ {"none", "exhausted"}, Refuse(why),
         \/ pc = "resolve" /\ why # "bad amount"
         \/ /\ pc = "parse" /\ why = "bad amount"
            /\ \/ Flaw(request.amount, asset.decimals) # "none"
               \/ Units(request.amount, asset.decimals) = 0
  PROVE  IInv'
<1>1. TypeOK'
  BY DEF IInv, TypeOK, Refuse, Stages, found, walked, given
<1>2. /\ pc' = "done" /\ refusal' = why /\ refusal = "none" /\ pc # "done"
      /\ UNCHANGED <<request, catalogue, asset, base, pay, shown>>
  BY DEF Refuse, found, given, IInv, Open
<1>3. Understood'
  <2>1. why \notin {"none", "exhausted"}
    OBVIOUS
  <2>2. CASE pc = "parse"
    <3>1. Resolved /\ Resolved' /\ ~Served'
      BY <1>2, <2>2 DEF Resolved, Served
    <3> QED
      BY <1>2, <2>2, <3>1, StillUnderstood DEF IInv
  <2>3. CASE pc = "resolve"
    <3>1. ~Resolved /\ ~Resolved' /\ ~Served'
      BY <1>2, <2>1, <2>3 DEF Resolved, Served
    <3> QED
      BY <1>2, <2>3, <3>1, StillUnderstood DEF IInv
  <2> QED
    BY <2>2, <2>3
<1> QED
  BY <1>1, <1>2, <1>3 DEF IInv, Open, WalkInv, LowestFree, Served, Refuse, Reasons

LEMMA ResolveInv == ASSUME IInv, ResolveAsset PROVE IInv'
<1>1. TypeOK'
  BY DEF IInv, TypeOK, ResolveAsset, OnlyNamed, Named, Stages, walked, given
<1>2. /\ pc = "resolve" /\ pc' = "parse" /\ asset' \in Named /\ Named = {asset'} /\ refusal = "none"
      /\ UNCHANGED <<request, catalogue, base, refusal, pay, shown>>
  BY DEF ResolveAsset, OnlyNamed, given, IInv, Open
<1>3. Named' = Named /\ Named \subseteq catalogue
  BY <1>2 DEF Named
<1>4. base = 0 /\ ~Served'
  BY <1>2 DEF IInv, Understood, Resolved, Served
<1>5. Understood'
  BY <1>2, <1>3, <1>4 DEF Understood, Resolved
<1> QED
  BY <1>1, <1>5 DEF IInv, Open, WalkInv, LowestFree, Served, ResolveAsset

LEMMA ParseInv == ASSUME IInv, ParseAmount PROVE IInv'
<1>1. TypeOK'
  BY DEF IInv, TypeOK, ParseAmount, Stages, walked, given
<1>2. /\ pc = "parse" /\ pc' = "list" /\ refusal = "none"
      /\ UNCHANGED <<request, catalogue, asset, refusal, pay, shown>>
      /\ Flaw(request.amount, asset.decimals) = "none"
      /\ base' = Units(request.amount, asset.decimals)
  BY DEF ParseAmount, given, IInv, Open
<1>3. Named' = Named
  BY <1>2 DEF Named
<1>4. Named = {asset} /\ asset \in catalogue /\ Resolved' /\ ~Served'
  BY <1>2 DEF IInv, Understood, Resolved, Served
<1>5. Understood'
  BY <1>2, <1>3, <1>4 DEF Understood
<1> QED
  BY <1>1, <1>5 DEF IInv, Open, WalkInv, LowestFree, Served, ParseAmount

\* Nothing below the first candidate; the query has every point of the grid.
LEMMA ListInv == ASSUME IInv, ListHeld PROVE IInv'
<1>1. TypeOK /\ pc = "list" /\ pc' = "walk" /\ candidate' = 0 /\ base \in Int /\ refusal = "none"
  BY DEF IInv, TypeOK, Open, ListHeld
<1>2. asset' = asset /\ base' = base /\ refusal' = refusal
  BY DEF ListHeld, found
<1>3. /\ held' \subseteq Int
      /\ left' = {h \in held' : h >= base /\ h < Amount(asset.nonceMax)}
  BY <1>1, RequestAssumption DEF ListHeld
<1>4. TypeOK'
  BY <1>1, <1>3 DEF TypeOK, ListHeld, Stages, found, given
<1>5. asset.step \in Nat \ {0} /\ asset.nonceMax \in Nat \ {0}
  BY <1>1, AssetFacts
<1>6. ASSUME NEW m \in 0..asset.nonceMax - 1, Amount(m) \in held'
      PROVE  Amount(m) \in left'
  <2>1. Amount(m) < Amount(asset.nonceMax) /\ Amount(m) \in Int
    BY <1>1, <1>5, AmountFacts
  <2>2. Amount(m) >= base
    <3>1. m = 0 \/ 0 < m
      OBVIOUS
    <3> QED
      BY <1>1, <1>5, <2>1, <3>1, AmountFacts
  <2> QED
    BY <1>3, <1>6, <2>1, <2>2
<1>7. \A n : Amount(n)' = Amount(n)
  BY <1>2 DEF Amount
<1>8. WalkInv'
  BY <1>1, <1>2, <1>5, <1>6, <1>7 DEF WalkInv
<1>9. Understood'
  <2>1. Resolved /\ Resolved' /\ ~Served' /\ UNCHANGED <<request, catalogue>>
    BY <1>1, <1>2 DEF Resolved, Served, ListHeld
  <2> QED
    BY <1>1, <1>2, <2>1, StillUnderstood DEF IInv
<1> QED
  BY <1>1, <1>2, <1>4, <1>8, <1>9 DEF IInv, Open, LowestFree, Served

\* What the walk knows of the row it reads.
LEMMA RowFacts ==
  ASSUME IInv, pc = "walk", NEW h \in left
  PROVE  /\ h \in Int /\ h \in held /\ base \in Int /\ candidate \in Nat
         /\ asset.step \in Nat \ {0} /\ asset.nonceMax \in Nat \ {0}
         /\ ~OffGrid(h) => h = Amount(Nonce(h)) /\ Nonce(h) \in Int
         /\ \A m \in Nat : h = Amount(m) => ~OffGrid(h) /\ Nonce(h) = m
<1>1. /\ h \in Int /\ h \in held /\ base \in Int /\ candidate \in Nat
      /\ asset.step \in Nat \ {0} /\ asset.nonceMax \in Nat \ {0}
  BY AssetFacts DEF IInv, TypeOK
<1>2. ASSUME ~OffGrid(h) PROVE h = Amount(Nonce(h)) /\ Nonce(h) \in Int
  <2> DEFINE d == h - base
  <2>0. d \in Int /\ d % asset.step = 0 /\ Nonce(h) = d \div asset.step
    BY <1>1, <1>2 DEF OffGrid, Nonce
  <2> HIDE DEF d
  <2>1. d = asset.step * Nonce(h) /\ Nonce(h) \in Int
    BY <1>1, <2>0, OnTheGrid
  <2>2. asset.step * Nonce(h) \in Int
    BY <2>0, <2>1
  <2> QED
    BY <1>1, <2>1, <2>2 DEF Amount, d
<1>3. ASSUME NEW m \in Nat, h = Amount(m) PROVE ~OffGrid(h) /\ Nonce(h) = m
  <2>1. h - base = asset.step * m
    <3>1. asset.step * m \in Int
      BY <1>1
    <3> QED
      BY <1>1, <1>3, <3>1 DEF Amount
  <2>2. (asset.step * m) % asset.step = 0 /\ (asset.step * m) \div asset.step = m
    <3> DEFINE s == asset.step
    <3>1. s \in Nat \ {0}
      BY <1>1
    <3> HIDE DEF s
    <3>2. (s * m) % s = 0 /\ (s * m) \div s = m
      BY <1>3, <3>1, OfTheGrid
    <3> QED
      BY <3>2 DEF s
  <2> QED
    BY <2>1, <2>2 DEF OffGrid, Nonce
<1> QED
  BY <1>1, <1>2, <1>3

LEMMA SkipInv == ASSUME IInv, SkipRow PROVE IInv'
<1>1. PICK h \in left : (OffGrid(h) \/ Nonce(h) < candidate) /\ left' = left \ {h}
  BY DEF SkipRow
<1>2. pc = "walk" /\ UNCHANGED <<request, catalogue, pc, asset, base, held, candidate, refusal, pay, shown>>
  BY DEF SkipRow, found, given
<1>3. TypeOK'
  BY <1>1, <1>2 DEF IInv, TypeOK
<1>4. ASSUME NEW m \in candidate..asset.nonceMax - 1, Amount(m) \in held
      PROVE  Amount(m) \in left'
  <2>1. candidate \in Nat /\ asset.nonceMax \in Nat /\ m \in Nat /\ m >= candidate
    BY <1>2, <1>1, RowFacts
  <2>2. Amount(m) \in left
    BY <1>2, <1>4 DEF IInv, WalkInv
  <2>3. Amount(m) # h
    BY <1>1, <1>2, <2>1, RowFacts
  <2> QED
    BY <1>1, <2>2, <2>3
<1>5. \A n : Amount(n)' = Amount(n)
  BY <1>2 DEF Amount
<1>6. WalkInv'
  BY <1>2, <1>4, <1>5 DEF IInv, WalkInv
<1>7. Understood'
  <2>1. Resolved /\ Resolved' /\ ~Served'
    BY <1>2 DEF Resolved, Served
  <2> QED
    BY <1>2, <2>1, StillUnderstood DEF IInv
<1> QED
  BY <1>2, <1>3, <1>6, <1>7 DEF IInv, Open, LowestFree, Served

LEMMA TakeInv == ASSUME IInv, TakeRow PROVE IInv'
<1>1. PICK h \in left : ~OffGrid(h) /\ Nonce(h) = candidate /\ left' = left \ {h}
  BY DEF TakeRow
<1>2. /\ pc = "walk" /\ candidate' = candidate + 1
      /\ UNCHANGED <<request, catalogue, asset, base, held, pay, shown>>
  BY DEF TakeRow, found, given
<1>3. /\ h \in held /\ h = Amount(candidate) /\ candidate \in Nat
      /\ asset.nonceMax \in Nat /\ candidate < asset.nonceMax
  BY <1>1, <1>2, RowFacts DEF IInv, WalkInv
<1>4. ASSUME NEW m \in 0..candidate PROVE Amount(m) \in held
  <2>1. CASE m = candidate
    BY <1>3, <2>1
  <2>2. CASE m # candidate
    <3>1. m \in 0..candidate - 1
      BY <1>3, <2>2
    <3> QED
      BY <1>2, <3>1 DEF IInv, WalkInv
  <2> QED
    BY <2>1, <2>2
<1>5. ASSUME NEW m \in candidate + 1..asset.nonceMax - 1, Amount(m) \in held
      PROVE  Amount(m) \in left'
  <2>1. m \in candidate..asset.nonceMax - 1 /\ m \in Nat /\ m # candidate
    BY <1>3
  <2>2. Amount(m) \in left
    BY <1>2, <1>5, <2>1 DEF IInv, WalkInv
  <2>3. Amount(m) # h
    BY <1>1, <1>2, <2>1, RowFacts
  <2> QED
    BY <1>1, <2>2, <2>3
<1>0. \A n : Amount(n)' = Amount(n)
  BY <1>2 DEF Amount
<1>8. candidate' \in Nat /\ left' \subseteq held
  <2>1. left \subseteq held
    BY DEF IInv, TypeOK
  <2> QED
    BY <1>1, <1>2, <1>3, <2>1
<1>6. CASE Exhausted(candidate')
  <2>1. pc' = "done" /\ refusal' = "exhausted"
    BY <1>6 DEF TakeRow
  <2>2. TypeOK'
    BY <1>8, <1>2, <2>1 DEF IInv, TypeOK, Stages, Reasons
  <2>3. asset.nonceMax = candidate + 1
    BY <1>2, <1>3, <1>6 DEF Exhausted
  <2>4. \A m \in 0..asset.nonceMax - 1 : Amount(m) \in held
    BY <1>3, <1>4, <2>3
  <2>5. Understood'
    <3>1. Resolved /\ Resolved' /\ ~Served' /\ refusal' # "bad amount"
      BY <1>2, <2>1 DEF Resolved, Served
    <3> QED
      BY <1>2, <3>1, StillUnderstood DEF IInv
  <2> QED
    BY <1>0, <1>2, <2>1, <2>2, <2>4, <2>5 DEF IInv, Open, WalkInv, LowestFree, Served
<1>7. CASE ~Exhausted(candidate')
  <2>1. pc' = pc /\ refusal' = refusal
    BY <1>7 DEF TakeRow
  <2>2. TypeOK'
    BY <1>8, <1>2, <2>1 DEF IInv, TypeOK
  <2>3. candidate' < asset.nonceMax /\ candidate' - 1 = candidate
    BY <1>2, <1>3, <1>7 DEF Exhausted
  <2>4. WalkInv'
    BY <1>0, <1>2, <1>4, <1>5, <2>1, <2>3 DEF WalkInv
  <2>5. Understood'
    <3>1. Resolved /\ Resolved' /\ ~Served'
      BY <1>2, <2>1 DEF Resolved, Served
    <3> QED
      BY <1>2, <2>1, <3>1, StillUnderstood DEF IInv
  <2> QED
    BY <1>2, <2>1, <2>2, <2>4, <2>5 DEF IInv, Open, LowestFree, Served
<1> QED
  BY <1>6, <1>7

LEMMA AllocateInv == ASSUME IInv, Allocate PROVE IInv'
<1>1. /\ pc = "walk" /\ pc' = "done" /\ pay' = Amount(candidate)
      /\ UNCHANGED <<request, catalogue, asset, base, held, left, candidate, refusal>>
  BY DEF Allocate, found, walked
<1>2. /\ base \in Nat /\ candidate \in Nat /\ candidate < asset.nonceMax
      /\ asset.step \in Nat \ {0} /\ asset.nonceMax \in Nat \ {0} /\ refusal = "none"
  BY <1>1, AssetFacts DEF IInv, TypeOK, WalkInv, Open
<1>3. TypeOK'
  <2>1. pay' \in Nat
    <3>1. asset.step * candidate \in Nat
      BY <1>2
    <3> QED
      BY <1>1, <1>2, <3>1 DEF Amount
  <2> QED
    BY <1>1, <2>1 DEF IInv, TypeOK, Stages
<1>4. Amount(candidate) \notin left
  <2>1. CASE left = {}
    BY <2>1
  <2>2. CASE \E h \in left : IsNext(h) /\ Gap(h)
    <3>1. PICK h \in left : IsNext(h) /\ ~OffGrid(h) /\ Nonce(h) > candidate
      BY <2>2 DEF Gap
    <3>2. h = Amount(Nonce(h)) /\ Nonce(h) \in Int
      BY <1>1, <3>1, RowFacts
    <3>3. /\ Amount(candidate) < Amount(Nonce(h))
          /\ Amount(candidate) \in Int /\ Amount(Nonce(h)) \in Int
      BY <1>1, <1>2, <3>1, <3>2, AmountFacts DEF IInv
    <3>4. ~(h <= Amount(candidate))
      BY <3>2, <3>3
    <3> QED
      BY <3>1, <3>4 DEF IsNext
  <2> QED
    BY <2>1, <2>2 DEF Allocate
<1>5. Amount(candidate) \notin held
  <2>1. candidate \in candidate..asset.nonceMax - 1
    BY <1>2
  <2> QED
    BY <1>1, <1>4, <2>1 DEF IInv, WalkInv
<1>6. candidate \in 0..asset.nonceMax - 1
  BY <1>2
<1>7. \A m \in 0..candidate - 1 : Amount(m) \in held
  BY <1>1 DEF IInv, WalkInv
<1>8. \A n : Amount(n)' = Amount(n)
  BY <1>1 DEF Amount
<1>9. LowestFree'
  BY <1>1, <1>2, <1>5, <1>6, <1>7, <1>8 DEF LowestFree
<1>10. Understood'
  <2>1. Resolved /\ Resolved' /\ shown' = Format(pay', asset.decimals)
    BY <1>1, <1>2 DEF Resolved, Allocate
  <2> QED
    BY <1>1, <1>2, <2>1, StillUnderstood DEF IInv
<1> QED
  BY <1>1, <1>3, <1>9, <1>10 DEF IInv, Open, WalkInv

-----------------------------------------------------------------------------
\* The results.

LEMMA NextInv == ASSUME IInv, [Next]_vars PROVE IInv'
<1>1. CASE UNCHANGED vars
  <2>1. UNCHANGED <<request, catalogue, pc, asset, base, held, left, candidate, refusal, pay, shown>>
    BY <1>1 DEF vars, found, walked, given
  <2>2. \A n : Amount(n)' = Amount(n)
    BY <2>1 DEF Amount
  <2>3. TypeOK' /\ Open'
    BY <2>1 DEF IInv, TypeOK, Open
  <2>4. WalkInv'
    BY <2>1, <2>2 DEF IInv, WalkInv
  <2>5. LowestFree'
    BY <2>1, <2>2 DEF IInv, LowestFree, Served
  <2>6. Understood'
    <3>1. /\ Resolved <=> Resolved'
          /\ Served' => Served /\ shown' = shown /\ pay' = pay
      BY <2>1 DEF Resolved, Served
    <3>2. Served => shown = Format(pay, asset.decimals)
      BY DEF IInv, Understood
    <3> QED
      BY <2>1, <3>1, <3>2, StillUnderstood DEF IInv
  <2> QED
    BY <2>3, <2>4, <2>5, <2>6 DEF IInv
<1>2. CASE AssetNotFound \/ AmbiguousAsset
  <2>1. pc = "resolve" /\ \E why \in Reasons \ {"none", "exhausted", "bad amount"} : Refuse(why)
    BY <1>2 DEF AssetNotFound, AmbiguousAsset, Reasons
  <2> QED
    BY <2>1, RefuseInv
<1>3. CASE RejectAmount \/ ZeroAmount
  <2>1. /\ pc = "parse" /\ Refuse("bad amount") /\ "bad amount" \in Reasons \ {"none", "exhausted"}
        /\ \/ Flaw(request.amount, asset.decimals) # "none"
           \/ Units(request.amount, asset.decimals) = 0
    BY <1>3 DEF RejectAmount, ZeroAmount, Reasons
  <2> QED
    BY <2>1, RefuseInv
<1> QED
  BY <1>1, <1>2, <1>3, ResolveInv, ParseInv, ListInv, SkipInv, TakeInv, AllocateInv DEF Next

\* What was understood, and the walk and what it has left, in every reachable state.
THEOREM Invariance == Spec => []IInv
<1> QED
  BY InitInv, NextInv, PTL DEF Spec

\* The nonce is the lowest that is free, whatever is held off the grid, and a
\* request is refused only if none is (invoice_repo.go:66-77).
THEOREM LowestNonce == Spec => []LowestFree
<1>1. IInv => LowestFree
  BY DEF IInv
<1> QED
  BY <1>1, Invariance, PTL

\* What the prover has to know of a text and a scale.
LEMMA RequestFacts ==
  ASSUME IInv
  PROVE  /\ request.amount.int \in Text /\ request.amount.frac \in Text
         /\ Resolved => asset.decimals \in Nat
<1>1. request.amount.int \in Text /\ request.amount.frac \in Text
  BY RequestAssumption DEF IInv, TypeOK, Text
<1>2. Resolved => asset \in catalogue /\ catalogue \in Catalogues
  BY DEF IInv, TypeOK, Understood
<1>3. Resolved => asset.decimals \in 0..MaxDecimals /\ MaxDecimals \in Nat
  BY <1>2, RequestAssumption
<1> QED
  BY <1>1, <1>3

\* An invoice is over exactly what was asked for, in the only asset that the
\* request can mean: no digit is rounded away, none of two assets is guessed
\* (cryptoamount.go:41-45, asset.sql:3).
THEOREM AskedIsCharged == Spec => []AskedExactly
<1>1. IInv => AskedExactly
  <2> SUFFICES ASSUME IInv, base # 0
               PROVE  /\ Named = {asset}
                      /\ base * TenTo[Len(request.amount.frac)]
                           = Scaled(request.amount) * TenTo[asset.decimals]
    BY DEF AskedExactly
  <2> DEFINE t == request.amount
             d == asset.decimals
  <2>1. Resolved /\ Named = {asset} /\ Flaw(t, d) = "none" /\ base = Units(t, d)
    BY DEF IInv, Understood
  <2>2. t.int \in Text /\ t.frac \in Text /\ d \in Nat
    BY <2>1, RequestFacts
  <2> HIDE DEF t, d
  <2>3. Len(Trimmed(t.frac)) <= d
    <3>1. Len(Trimmed(t.frac)) \in Nat
      BY <2>2, TrimmedIs, ValueType
    <3>2. ~(Len(Trimmed(t.frac)) > d)
      BY <2>1 DEF Flaw, Significant
    <3> QED
      BY <2>2, <3>1, <3>2
  <2>4. Units(t, d) * TenTo[Len(t.frac)] = Scaled(t) * TenTo[d]
    BY <2>2, <2>3, UnitsExact
  <2> QED
    BY <2>1, <2>4 DEF t, d
<1> QED
  BY <1>1, Invariance, PTL

\* An amount is refused only if it is no positive number of smallest units:
\* zeros at its end, a missing digit on one side of the dot or a plus are fine
\* (cryptoamount.go:69-81).
THEOREM RefusalsAreRight == Spec => []RefusedRightly
<1>1. IInv => RefusedRightly
  <2> SUFFICES ASSUME IInv, refusal = "bad amount" PROVE RefusedRightly
    BY DEF RefusedRightly
  <2> DEFINE t == request.amount
             d == asset.decimals
  <2>1. Resolved /\ (Flaw(t, d) # "none" \/ Units(t, d) = 0)
    BY DEF IInv, Understood, Open, Resolved
  <2>2. t.int \in Text /\ t.frac \in Text /\ d \in Nat
    BY <2>1, RequestFacts
  <2> HIDE DEF t, d
  <2>3. \/ t.sign = "-" \/ t.junk \/ t.dots > 1 \/ Scaled(t) = 0
        \/ (Scaled(t) * TenTo[d]) % TenTo[Len(t.frac)] # 0
    BY <2>1, <2>2, RejectedRightly
  <2> QED
    BY <2>3 DEF RefusedRightly, t, d
<1> QED
  BY <1>1, Invariance, PTL

\* What the customer reads is the amount that will be matched, to the unit
\* (cryptoamount.go:97-101).
THEOREM ShownIsPaid == Spec => []ReadsBack
<1>1. IInv => ReadsBack
  <2> SUFFICES ASSUME IInv, Served
               PROVE  Flaw(shown, asset.decimals) = "none" /\ Units(shown, asset.decimals) = pay
    BY DEF ReadsBack
  <2>1. pay \in Nat /\ Resolved /\ shown = Format(pay, asset.decimals)
    BY DEF IInv, TypeOK, Understood, Served, Resolved
  <2>2. asset.decimals \in Nat
    BY <2>1, RequestFacts
  <2> QED
    BY <2>1, <2>2, RoundTrip
<1> QED
  BY <1>1, Invariance, PTL
=============================================================================
