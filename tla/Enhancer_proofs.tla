--------------------------- MODULE Enhancer_proofs ---------------------------
(***************************************************************************)
(* Enhancer for any requests, texts, delays and budgets.  The first part   *)
(* is about the lengths that Prompt adds up: recursive functions over the  *)
(* sections and messages, whose values are proved by induction over their  *)
(* number.                                                                 *)
(***************************************************************************)
EXTENDS Enhancer, WellFoundedInduction, SequenceTheorems, TLAPS

(* Induction over the naturals for a set of them.                           *)
LEMMA NatInduct ==
  ASSUME NEW S, 0 \in S, \A n \in Nat : n \in S => n + 1 \in S
  PROVE  Nat \subseteq S
<1> DEFINE Missed == Nat \ S
<1>1. SUFFICES ASSUME Missed # {} PROVE FALSE
  OBVIOUS
<1>2. PICK R : IsWellFoundedOn(R, Nat) /\ \A k, n \in Nat : k < n => <<k, n>> \in R
  BY NatLessThanWellFounded DEF OpToRel
<1>3. PICK n \in Missed : \A k \in Missed : ~(<<k, n>> \in R)
  <2>1. IsWellFoundedOn(R, Nat) /\ Missed \subseteq Nat
    BY <1>2
  <2> HIDE DEF Missed
  <2> QED
    BY <1>1, <2>1, WFMin
<1>4. n # 0 /\ n - 1 \in Nat /\ <<n - 1, n>> \in R
  BY <1>2
<1>5. n - 1 \in S /\ (n - 1) + 1 = n
  BY <1>3, <1>4
<1> QED
  BY <1>4, <1>5

\* f starts with base and goes on by step.
Iterates(f, V, base, step) ==
  /\ f \in [Nat -> V] /\ f[0] = base
  /\ \A n \in Nat : f[n + 1] = step[<<f[n], n + 1>>]

LEMMA Recursion ==
  ASSUME NEW V, NEW base \in V, NEW step \in [V \X Nat -> V]
  PROVE  \E f : Iterates(f, V, base, step)
<1> DEFINE Upto(n, g) == /\ g \in [0..n -> V] /\ g[0] = base
                         /\ \A k \in 0..n : k # n => g[k + 1] = step[<<g[k], k + 1>>]
<1>1. \A n \in Nat : \E g : Upto(n, g)
  <2> DEFINE S == {n \in Nat : \E g : Upto(n, g)}
  <2>1. 0 \in S
    <3>1. Upto(0, [k \in 0..0 |-> base])
      OBVIOUS
    <3> HIDE DEF Upto
    <3> QED
      BY <3>1
  <2>2. ASSUME NEW n \in Nat, n \in S PROVE n + 1 \in S
    <3>1. PICK g : Upto(n, g)
      BY <2>2
    <3> DEFINE h == [k \in 0..(n + 1) |-> IF k = n + 1 THEN step[<<g[n], n + 1>>] ELSE g[k]]
    <3>2. Upto(n + 1, h)
      <4>1. h \in [0..(n + 1) -> V] /\ h[0] = base
        BY <3>1
      <4>2. ASSUME NEW k \in 0..(n + 1), k # n + 1
            PROVE  h[k + 1] = step[<<h[k], k + 1>>]
        <5>1. CASE k = n
          BY <3>1, <5>1
        <5>2. CASE k # n
          <6>1. k \in 0..n /\ k + 1 \in 0..n /\ k + 1 # n + 1
            BY <4>2, <5>2
          <6> QED
            BY <3>1, <5>2, <6>1
        <5> QED
          BY <5>1, <5>2
      <4> QED
        BY <4>1, <4>2
    <3> HIDE DEF Upto, h
    <3> QED
      BY <3>2
  <2> HIDE DEF S
  <2>3. Nat \subseteq S
    BY <2>1, <2>2, NatInduct
  <2> QED
    BY <2>3 DEF S
<1>2. ASSUME NEW m \in Nat, NEW n \in Nat, m <= n, NEW g, NEW h, Upto(m, g), Upto(n, h)
      PROVE  \A k \in 0..m : g[k] = h[k]
  <2> DEFINE S == {k \in Nat : k <= m => g[k] = h[k]}
  <2>1. 0 \in S
    BY <1>2
  <2>2. ASSUME NEW k \in Nat, k \in S PROVE k + 1 \in S
    <3>1. SUFFICES ASSUME k + 1 <= m PROVE g[k + 1] = h[k + 1]
      OBVIOUS
    <3>2. k \in 0..m /\ k # m /\ k \in 0..n /\ k # n /\ g[k] = h[k]
      BY <1>2, <2>2, <3>1
    <3> QED
      BY <1>2, <3>2
  <2> HIDE DEF S
  <2>3. Nat \subseteq S
    BY <2>1, <2>2, NatInduct
  <2> QED
    BY <2>3 DEF S
<1> DEFINE At(n) == CHOOSE g : Upto(n, g)
           f == [n \in Nat |-> At(n)[n]]
<1>3. \A n \in Nat : Upto(n, At(n))
  BY <1>1
<1> HIDE DEF At
<1>4. f \in [Nat -> V] /\ f[0] = base
  BY <1>3
<1>5. ASSUME NEW n \in Nat PROVE f[n + 1] = step[<<f[n], n + 1>>]
  <2>1. At(n + 1)[n] = At(n)[n]
    BY <1>2, <1>3
  <2>2. At(n + 1)[n + 1] = step[<<At(n + 1)[n], n + 1>>]
    BY <1>3
  <2> QED
    BY <2>1, <2>2
<1> HIDE DEF f
<1>6. Iterates(f, V, base, step)
  BY <1>4, <1>5 DEF Iterates
<1> QED
  BY <1>6

LEMMA UpTo ==
  ASSUME NEW N \in Nat, NEW S, 0 \in S, \A n \in Nat : n < N /\ n \in S => n + 1 \in S
  PROVE  \A n \in 0..N : n \in S
<1> DEFINE T == {n \in Nat : n <= N => n \in S}
<1>1. 0 \in T
  OBVIOUS
<1>2. \A n \in Nat : n \in T => n + 1 \in T
  OBVIOUS
<1> HIDE DEF T
<1>3. Nat \subseteq T
  BY <1>1, <1>2, NatInduct
<1> QED
  BY <1>3 DEF T

\* f starts with base and goes on by step up to N.
Folds(f, N, V, base, step) ==
  /\ f \in [0..N -> V] /\ f[0] = base
  /\ \A n \in 1..N : f[n] = step[<<f[n - 1], n>>]

LEMMA RecursionUpTo ==
  ASSUME NEW V, NEW base \in V, NEW step \in [V \X Nat -> V], NEW N \in Nat
  PROVE  \E f : Folds(f, N, V, base, step)
<1>1. PICK g : Iterates(g, V, base, step)
  BY Recursion
<1> DEFINE f == [n \in 0..N |-> g[n]]
<1>2. f \in [0..N -> V] /\ f[0] = base
  BY <1>1 DEF Iterates
<1>3. ASSUME NEW n \in 1..N PROVE f[n] = step[<<f[n - 1], n>>]
  <2>1. n - 1 \in Nat /\ n - 1 \in 0..N /\ (n - 1) + 1 = n /\ n \in 0..N
    OBVIOUS
  <2>2. g[n] = step[<<g[n - 1], n>>]
    BY <1>1, <2>1 DEF Iterates
  <2> QED
    BY <2>1, <2>2
<1> HIDE DEF f
<1>4. Folds(f, N, V, base, step)
  BY <1>2, <1>3 DEF Folds
<1> QED
  BY <1>4

-----------------------------------------------------------------------------
(* Total.                                                                   *)

\* f holds the sums of the first lengths.
Sums(l, f) == /\ f \in [0..Len(l) -> Nat] /\ f[0] = 0
              /\ \A n \in 1..Len(l) : f[n] = f[n - 1] + l[n]

LEMMA TotalSums ==
  ASSUME NEW l \in Seq(Nat)
  PROVE  \E f : Sums(l, f) /\ Total(l) = f[Len(l)]
<1>1. Len(l) \in Nat /\ \A n \in 1..Len(l) : l[n] \in Nat
  BY LenProperties, ElementOfSeq
<1>2. PICK N \in Nat : N = Len(l)
  BY <1>1
<1> DEFINE Adds(f) == [n \in 0..N |-> IF n = 0 THEN 0 ELSE f[n - 1] + l[n]]
           upTo == CHOOSE f : f = Adds(f)
<1>3. Total(l) = upTo[N]
  BY <1>2 DEF Total
<1>4. \E f : f = Adds(f)
  <2> DEFINE step == [p \in Nat \X Nat |-> p[1] + (IF p[2] \in 1..N THEN l[p[2]] ELSE 0)]
  <2>1. step \in [Nat \X Nat -> Nat]
    BY <1>1, <1>2
  <2>2. ASSUME NEW x \in Nat, NEW n \in 1..N PROVE step[<<x, n>>] = x + l[n]
    OBVIOUS
  <2> HIDE DEF step
  <2>3. PICK f : Folds(f, N, Nat, 0, step)
    BY <2>1, RecursionUpTo
  <2>4. ASSUME NEW n \in 0..N
        PROVE  f[n] = IF n = 0 THEN 0 ELSE f[n - 1] + l[n]
    <3>1. CASE n = 0
      BY <2>3, <3>1 DEF Folds
    <3>2. CASE n # 0
      <4>1. n - 1 \in 0..N /\ n \in 1..N
        BY <3>2
      <4>2. f[n - 1] \in Nat /\ f[n] = step[<<f[n - 1], n>>]
        BY <2>3, <4>1 DEF Folds
      <4> QED
        BY <2>2, <3>2, <4>1, <4>2
    <3> QED
      BY <3>1, <3>2
  <2>5. f = [n \in 0..N |-> f[n]]
    BY <2>3 DEF Folds
  <2>6. f = Adds(f)
    BY <2>4, <2>5
  <2> QED
    BY <2>6
<1>5. upTo = Adds(upTo)
  BY <1>4
<1> HIDE DEF upTo
<1>6. upTo = [n \in 0..N |-> upTo[n]] /\ upTo[0] = 0
  BY <1>5
<1>7. ASSUME NEW n \in 1..N PROVE upTo[n] = upTo[n - 1] + l[n]
  <2>1. n \in 0..N /\ n # 0
    OBVIOUS
  <2> QED
    BY <1>5, <2>1
<1>8. \A n \in 0..N : upTo[n] \in Nat
  <2> DEFINE S == {n \in 0..N : upTo[n] \in Nat}
  <2>1. 0 \in S
    BY <1>6
  <2>2. ASSUME NEW n \in Nat, n < N, n \in S PROVE n + 1 \in S
    <3>1. n + 1 \in 1..N /\ n + 1 \in 0..N /\ (n + 1) - 1 = n
      BY <2>2
    <3>2. upTo[n + 1] = upTo[n] + l[n + 1]
      BY <1>7, <3>1
    <3>3. l[n + 1] \in Nat
      BY <1>1, <1>2, <3>1
    <3> QED
      BY <2>2, <3>1, <3>2, <3>3
  <2> HIDE DEF S
  <2>3. \A n \in 0..N : n \in S
    BY <2>1, <2>2, UpTo
  <2> QED
    BY <2>3 DEF S
<1>9. upTo \in [0..N -> Nat]
  BY <1>6, <1>8
<1>10. Sums(l, upTo)
  BY <1>2, <1>6, <1>7, <1>9 DEF Sums
<1> QED
  BY <1>2, <1>3, <1>10

\* What a proof takes from the sums.
LEMMA SumsFacts ==
  ASSUME NEW l \in Seq(Nat)
  PROVE  \E f : /\ Total(l) = f[Len(l)] /\ f[0] = 0 /\ Total(l) \in Nat
                /\ \A n \in 0..Len(l) : f[n] \in Nat
                /\ \A n \in 1..Len(l) : f[n] = f[n - 1] + l[n]
<1>1. PICK f : Sums(l, f) /\ Total(l) = f[Len(l)]
  BY TotalSums
<1>2. Len(l) \in 0..Len(l)
  BY LenProperties
<1> QED
  BY <1>1, <1>2 DEF Sums

LEMMA TotalEmpty == Total(<<>>) = 0 /\ <<>> \in Seq(Nat)
<1>1. <<>> \in Seq(Nat) /\ Len(<<>>) = 0
  BY EmptySeq
<1>2. PICK l \in Seq(Nat) : l = <<>>
  BY <1>1
<1>3. PICK f : Total(l) = f[Len(l)] /\ f[0] = 0
  BY SumsFacts
<1> QED
  BY <1>1, <1>2, <1>3

LEMMA TotalSingle ==
  ASSUME NEW x \in Nat
  PROVE  Total(<<x>>) = x /\ <<x>> \in Seq(Nat)
<1>1. <<x>> \in Seq(Nat) /\ Len(<<x>>) = 1 /\ <<x>>[1] = x
  OBVIOUS
<1>2. PICK l \in Seq(Nat) : l = <<x>>
  BY <1>1
<1>3. Len(l) = 1 /\ l[1] = x
  BY <1>1, <1>2
<1>4. PICK f : /\ Total(l) = f[Len(l)] /\ f[0] = 0
               /\ \A n \in 1..Len(l) : f[n] = f[n - 1] + l[n]
  BY SumsFacts
<1>5. 1 \in 1..Len(l) /\ 1 - 1 = 0
  BY <1>3
<1>6. f[1] = f[1 - 1] + l[1]
  BY <1>4, <1>5
<1>7. f[1] = x
  BY <1>3, <1>4, <1>5, <1>6
<1> QED
  BY <1>1, <1>2, <1>3, <1>4, <1>7

LEMMA TotalIsNat ==
  ASSUME NEW l \in Seq(Nat)
  PROVE  Total(l) \in Nat
BY SumsFacts

LEMMA TotalConcat ==
  ASSUME NEW l \in Seq(Nat), NEW m \in Seq(Nat)
  PROVE  Total(l \o m) = Total(l) + Total(m) /\ l \o m \in Seq(Nat)
<1>1. l \o m \in Seq(Nat)
  BY ConcatProperties
<1>2. PICK h \in Seq(Nat) : h = l \o m
  BY <1>1
<1>3. PICK N \in Nat : N = Len(l)
  BY LenProperties
<1>4. PICK M \in Nat : M = Len(m)
  BY LenProperties
<1>5. Len(h) = N + M
  BY <1>2, <1>3, <1>4, ConcatProperties
<1>6. /\ \A n \in 1..N : h[n] = l[n] /\ l[n] \in Nat
      /\ \A n \in 1..M : h[N + n] = m[n] /\ m[n] \in Nat
  <2>1. \A n \in 1..N : h[n] = l[n] /\ l[n] \in Nat
    BY <1>2, <1>3, ConcatProperties, ElementOfSeq
  <2>2. ASSUME NEW n \in 1..M PROVE h[N + n] = m[n] /\ m[n] \in Nat
    <3>1. m[n] \in Nat
      BY <1>4, ElementOfSeq
    <3>2. N + n \in 1..(N + M) /\ N + n > N /\ (N + n) - N = n
      OBVIOUS
    <3>3. h[N + n] = m[(N + n) - N]
      BY <1>2, <1>3, <1>4, <3>2, ConcatProperties
    <3> QED
      BY <3>1, <3>2, <3>3
  <2> QED
    BY <2>1, <2>2
<1>7. PICK f : /\ Total(l) = f[N] /\ f[0] = 0
               /\ \A n \in 0..N : f[n] \in Nat
               /\ \A n \in 1..N : f[n] = f[n - 1] + l[n]
  BY <1>3, SumsFacts
<1>8. PICK g : /\ Total(m) = g[M] /\ g[0] = 0
               /\ \A n \in 0..M : g[n] \in Nat
               /\ \A n \in 1..M : g[n] = g[n - 1] + m[n]
  BY <1>4, SumsFacts
<1>9. PICK s : /\ Total(h) = s[N + M] /\ s[0] = 0
               /\ \A n \in 0..(N + M) : s[n] \in Nat
               /\ \A n \in 1..(N + M) : s[n] = s[n - 1] + h[n]
  BY <1>5, SumsFacts
<1>10. \A n \in 0..N : s[n] = f[n]
  <2> DEFINE S == {n \in 0..N : s[n] = f[n]}
  <2>1. 0 \in S
    BY <1>7, <1>9
  <2>2. ASSUME NEW n \in Nat, n < N, n \in S PROVE n + 1 \in S
    <3>1. n + 1 \in 1..N /\ n + 1 \in 0..N /\ n + 1 \in 1..(N + M) /\ (n + 1) - 1 = n
      BY <2>2
    <3>2. s[n + 1] = s[n] + h[n + 1]
      BY <1>9, <3>1
    <3>3. f[n + 1] = f[n] + l[n + 1]
      BY <1>7, <3>1
    <3> QED
      BY <1>6, <2>2, <3>1, <3>2, <3>3
  <2> HIDE DEF S
  <2>3. \A n \in 0..N : n \in S
    BY <2>1, <2>2, UpTo
  <2> QED
    BY <2>3 DEF S
<1>11. PICK b \in Nat : b = f[N]
  BY <1>7
<1>12. \A n \in 0..M : s[N + n] = b + g[n]
  <2>1. \A x, y \in Nat : (b + x) + y = b + (x + y)
    BY <1>11
  <2> DEFINE S == {n \in 0..M : s[N + n] = b + g[n]}
  <2>2. 0 \in S
    <3>1. N + 0 = N /\ s[N] = b /\ g[0] = 0
      BY <1>8, <1>10, <1>11
    <3> QED
      BY <1>11, <3>1
  <2>3. ASSUME NEW n \in Nat, n < M, n \in S PROVE n + 1 \in S
    <3>1. /\ n + 1 \in 1..M /\ n + 1 \in 0..M /\ n \in 0..M /\ N + (n + 1) \in 1..(N + M)
          /\ (n + 1) - 1 = n /\ (N + (n + 1)) - 1 = N + n
      BY <2>3
    <3>2. s[N + (n + 1)] = s[N + n] + h[N + (n + 1)]
      BY <1>9, <3>1
    <3>3. g[n + 1] = g[n] + m[n + 1] /\ g[n] \in Nat
      BY <1>8, <3>1
    <3>4. h[N + (n + 1)] = m[n + 1] /\ m[n + 1] \in Nat
      BY <1>6, <3>1
    <3>5. s[N + n] = b + g[n]
      BY <2>3
    <3>6. s[N + (n + 1)] = (b + g[n]) + m[n + 1]
      BY <3>2, <3>4, <3>5
    <3>7. s[N + (n + 1)] = b + g[n + 1]
      BY <2>1, <3>3, <3>4, <3>6
    <3> QED
      BY <3>1, <3>7
  <2> HIDE DEF S
  <2>4. \A n \in 0..M : n \in S
    BY <2>2, <2>3, UpTo
  <2> QED
    BY <2>4 DEF S
<1>13. s[N + M] = b + g[M]
  BY <1>12
<1> QED
  BY <1>1, <1>2, <1>7, <1>8, <1>9, <1>11, <1>13

\* Where one list is nowhere longer, its sum is smaller by every difference.
LEMMA TotalGap ==
  ASSUME NEW l \in Seq(Nat), NEW m \in Seq(Nat), Len(l) = Len(m),
         \A n \in 1..Len(l) : l[n] <= m[n]
  PROVE  /\ Total(l) <= Total(m)
         /\ \A k \in 1..Len(l) : Total(l) + (m[k] - l[k]) <= Total(m)
<1>1. PICK f : Sums(l, f) /\ Total(l) = f[Len(l)]
  BY TotalSums
<1>2. PICK g : Sums(m, g) /\ Total(m) = g[Len(m)]
  BY TotalSums
<1>3. Len(l) \in Nat /\ \A n \in 1..Len(l) : l[n] \in Nat /\ m[n] \in Nat
  BY LenProperties, ElementOfSeq
<1>4. \A n \in 1..Len(l) : /\ n - 1 \in 0..Len(l) /\ n \in 0..Len(l)
                            /\ f[n] = f[n - 1] + l[n] /\ g[n] = g[n - 1] + m[n]
  BY <1>1, <1>2, <1>3 DEF Sums
<1>5. f \in [0..Len(l) -> Nat] /\ g \in [0..Len(l) -> Nat] /\ f[0] = 0 /\ g[0] = 0
  BY <1>1, <1>2 DEF Sums
<1>6. \A n \in 0..Len(l) : f[n] <= g[n]
  <2> DEFINE S == {n \in 0..Len(l) : f[n] <= g[n]}
  <2>1. 0 \in S
    BY <1>3, <1>5
  <2>2. ASSUME NEW n \in Nat, n < Len(l), n \in S PROVE n + 1 \in S
    <3>1. n + 1 \in 1..Len(l) /\ (n + 1) - 1 = n
      BY <1>3, <2>2
    <3>2. f[n + 1] = f[n] + l[n + 1] /\ g[n + 1] = g[n] + m[n + 1]
      BY <1>4, <3>1
    <3>3. f[n] \in Nat /\ g[n] \in Nat /\ l[n + 1] \in Nat /\ m[n + 1] \in Nat
      BY <1>3, <1>5, <2>2, <3>1
    <3>4. l[n + 1] <= m[n + 1] /\ f[n] <= g[n]
      BY <2>2, <3>1
    <3>5. n + 1 \in 0..Len(l)
      BY <1>3, <3>1
    <3> QED
      BY <3>2, <3>3, <3>4, <3>5
  <2> HIDE DEF S
  <2> QED
    BY <1>3, <2>1, <2>2, UpTo DEF S
<1>7. ASSUME NEW k \in 1..Len(l)
      PROVE  \A n \in 0..Len(l) : k <= n => f[n] + (m[k] - l[k]) <= g[n]
  <2>1. PICK d \in Int : d = m[k] - l[k]
    BY <1>3
  <2>2. \A a, b, x, y \in Nat : a + d <= b /\ x <= y => (a + x) + d <= b + y
    BY <2>1
  <2> DEFINE S == {n \in 0..Len(l) : k <= n => f[n] + d <= g[n]}
  <2>3. 0 \in S
    BY <1>3
  <2>4. ASSUME NEW n \in Nat, n < Len(l), n \in S PROVE n + 1 \in S
    <3>1. n + 1 \in 1..Len(l) /\ n + 1 \in 0..Len(l) /\ (n + 1) - 1 = n
      BY <1>3, <2>4
    <3>2. f[n + 1] = f[n] + l[n + 1] /\ g[n + 1] = g[n] + m[n + 1]
      BY <1>4, <3>1
    <3>3. f[n] \in Nat /\ g[n] \in Nat /\ l[n + 1] \in Nat /\ m[n + 1] \in Nat
      BY <1>3, <1>5, <2>4, <3>1
    <3>4. l[n + 1] <= m[n + 1] /\ f[n] <= g[n]
      BY <1>6, <2>4, <3>1
    <3>5. CASE k <= n
      <4>1. f[n] + d <= g[n]
        BY <2>4, <3>5
      <4>2. f[n + 1] + d <= g[n + 1]
        BY <2>2, <3>2, <3>3, <3>4, <4>1
      <4> QED
        BY <3>1, <4>2
    <3>6. CASE k = n + 1
      <4>1. f[n + 1] + d <= g[n + 1]
        BY <2>1, <3>2, <3>3, <3>4, <3>6
      <4> QED
        BY <3>1, <4>1
    <3>7. CASE k > n + 1
      BY <3>1, <3>7
    <3> QED
      BY <3>5, <3>6, <3>7
  <2> HIDE DEF S
  <2>5. \A n \in 0..Len(l) : n \in S
    BY <1>3, <2>3, <2>4, UpTo
  <2> QED
    BY <2>1, <2>5 DEF S
<1>8. Len(l) \in 0..Len(l) /\ \A k \in 1..Len(l) : k <= Len(l)
  BY <1>3
<1> QED
  BY <1>1, <1>2, <1>6, <1>7, <1>8

-----------------------------------------------------------------------------
(* Lists of things with a length: sections and messages.                    *)

LEMMA FunctionIsSeq ==
  ASSUME NEW S, NEW n \in Nat, NEW f \in [1..n -> S]
  PROVE  f \in Seq(S) /\ Len(f) = n
<1>1. f \in Seq(S)
  BY SeqDef
<1>2. 1..Len(f) = 1..n /\ Len(f) \in Nat
  BY <1>1, LenProperties
<1>3. \A k \in 1..n : k \in 1..Len(f)
  BY <1>2
<1>4. \A k \in 1..Len(f) : k \in 1..n
  BY <1>2
<1> QED
  BY <1>1, <1>2, <1>3, <1>4

LEMMA LengthsOf ==
  ASSUME NEW R, \A r \in R : r.length \in Nat, NEW s \in Seq(R)
  PROVE  /\ Lengths(s) \in Seq(Nat) /\ Len(Lengths(s)) = Len(s)
         /\ \A n \in 1..Len(s) : Lengths(s)[n] = s[n].length /\ s[n].length \in Nat
<1>1. Len(s) \in Nat /\ DOMAIN s = 1..Len(s)
  BY LenProperties
<1>2. \A n \in 1..Len(s) : s[n].length \in Nat
  BY ElementOfSeq
<1>3. Lengths(s) = [n \in 1..Len(s) |-> s[n].length]
  BY <1>1 DEF Lengths
<1>4. Lengths(s) \in [1..Len(s) -> Nat]
  BY <1>2, <1>3
<1>5. Lengths(s) \in Seq(Nat) /\ Len(Lengths(s)) = Len(s)
  BY <1>1, <1>4, FunctionIsSeq
<1> QED
  BY <1>2, <1>3, <1>5

Weight(s) == Total(Lengths(s))

LEMMA WeightIsNat ==
  ASSUME NEW R, \A r \in R : r.length \in Nat, NEW s \in Seq(R)
  PROVE  Weight(s) \in Nat
BY LengthsOf, TotalIsNat DEF Weight

LEMMA WeightEmpty == Weight(<<>>) = 0
<1>1. Lengths(<<>>) \in [1..0 -> Nat] /\ <<>> \in [1..0 -> Nat]
  BY DEF Lengths
<1>2. Lengths(<<>>) = <<>>
  BY <1>1
<1> QED
  BY <1>2, TotalEmpty DEF Weight

LEMMA WeightSingle ==
  ASSUME NEW r, r.length \in Nat
  PROVE  Weight(<<r>>) = r.length
<1>1. Lengths(<<r>>) = <<r.length>>
  BY DEF Lengths
<1> QED
  BY <1>1, TotalSingle DEF Weight

LEMMA WeightConcat ==
  ASSUME NEW R, \A r \in R : r.length \in Nat, NEW s \in Seq(R), NEW t \in Seq(R)
  PROVE  Weight(s \o t) = Weight(s) + Weight(t) /\ s \o t \in Seq(R)
<1>1. PICK u \in Seq(R) : u = s \o t
  BY ConcatProperties
<1>2. PICK l \in Seq(Nat) : l = Lengths(s)
  BY LengthsOf
<1>3. PICK m \in Seq(Nat) : m = Lengths(t)
  BY LengthsOf
<1>4. PICK k \in Seq(Nat) : k = Lengths(u)
  BY LengthsOf
<1>5. PICK h \in Seq(Nat) : h = l \o m
  BY ConcatProperties
<1>6. PICK N \in Nat : N = Len(s)
  BY LenProperties
<1>7. PICK M \in Nat : M = Len(t)
  BY LenProperties
<1>8. Len(l) = N /\ Len(m) = M /\ Len(u) = N + M /\ Len(k) = N + M /\ Len(h) = N + M
  <2>1. Len(l) = N /\ Len(m) = M
    BY <1>2, <1>3, <1>6, <1>7, LengthsOf
  <2>2. Len(u) = N + M
    BY <1>1, <1>6, <1>7, ConcatProperties
  <2>3. Len(k) = N + M
    BY <1>4, <2>2, LengthsOf
  <2>4. Len(h) = N + M
    BY <1>5, <2>1, ConcatProperties
  <2> QED
    BY <2>1, <2>2, <2>3, <2>4
<1>9. ASSUME NEW n \in 1..(N + M) PROVE k[n] = h[n]
  <2>1. k[n] = u[n].length
    BY <1>4, <1>8, LengthsOf
  <2>2. u[n] = IF n <= N THEN s[n] ELSE t[n - N]
    BY <1>1, <1>6, <1>7, ConcatProperties
  <2>3. h[n] = IF n <= N THEN l[n] ELSE m[n - N]
    BY <1>5, <1>8, ConcatProperties
  <2>4. CASE n <= N
    <3>1. n \in 1..N
      BY <2>4
    <3>2. l[n] = s[n].length
      BY <1>2, <1>6, <3>1, LengthsOf
    <3> QED
      BY <2>1, <2>2, <2>3, <2>4, <3>2
  <2>5. CASE ~(n <= N)
    <3>1. n - N \in 1..M
      BY <2>5
    <3>2. m[n - N] = t[n - N].length
      BY <1>3, <1>7, <3>1, LengthsOf
    <3> QED
      BY <2>1, <2>2, <2>3, <2>5, <3>2
  <2> QED
    BY <2>4, <2>5
<1>10. k = h
  BY <1>8, <1>9, SeqEqual
<1>11. Total(h) = Total(l) + Total(m)
  BY <1>5, TotalConcat
<1> QED
  BY <1>1, <1>2, <1>3, <1>4, <1>10, <1>11 DEF Weight

LEMMA WeightAppend ==
  ASSUME NEW R, \A r \in R : r.length \in Nat, NEW s \in Seq(R), NEW e \in R
  PROVE  Weight(Append(s, e)) = Weight(s) + e.length /\ Append(s, e) \in Seq(R)
<1>1. Append(s, e) = s \o <<e>> /\ Append(s, e) \in Seq(R)
  BY AppendIsConcat, AppendProperties
<1>2. <<e>> \in Seq(R)
  OBVIOUS
<1>3. Weight(s \o <<e>>) = Weight(s) + Weight(<<e>>)
  BY <1>2, WeightConcat
<1> QED
  BY <1>1, <1>3, WeightSingle

-----------------------------------------------------------------------------
(* assemblePrompt.                                                          *)

TaskNames == {"original_prompt", "enhancement_contract", "final_instruction"}
SectionNames ==
  TaskNames \cup {"rules", "guidelines", "history", "context.files", "context.retrieval"}
SectionSet == [name : SectionNames, length : Nat, required : BOOLEAN]

LEMMA SectionAt ==
  ASSUME NEW s \in Seq(SectionSet)
  PROVE  /\ Len(s) \in Nat /\ DOMAIN s = 1..Len(s)
         /\ \A k \in 1..Len(s) : /\ s[k].name \in SectionNames /\ s[k].length \in Nat
                                  /\ s[k].required \in BOOLEAN
<1>1. ASSUME NEW k \in 1..Len(s) PROVE s[k] \in SectionSet
  BY ElementOfSeq
<1> QED
  BY <1>1, LenProperties DEF SectionSet

\* The length of the sections at some of the positions.
Taken(s, at) == Total([k \in DOMAIN s |-> IF k \in at THEN s[k].length ELSE 0])

LEMMA TakenFits ==
  ASSUME NEW s \in Seq(SectionSet), NEW at
  PROVE  /\ Taken(s, at) \in Nat
         /\ \A k \in 1..Len(s) : k \notin at => Taken(s, at) + s[k].length <= Weight(s)
<1>1. Len(s) \in Nat /\ DOMAIN s = 1..Len(s) /\ \A k \in 1..Len(s) : s[k].length \in Nat
  BY SectionAt
<1>2. PICK l : l = [k \in 1..Len(s) |-> IF k \in at THEN s[k].length ELSE 0]
  OBVIOUS
<1>3. l \in [1..Len(s) -> Nat]
  BY <1>1, <1>2
<1>4. l \in Seq(Nat) /\ Len(l) = Len(s)
  BY <1>1, <1>3, FunctionIsSeq
<1>5. PICK m \in Seq(Nat) : m = Lengths(s)
  BY LengthsOf DEF SectionSet
<1>6. Len(m) = Len(s) /\ \A k \in 1..Len(s) : m[k] = s[k].length
  BY <1>5, LengthsOf DEF SectionSet
<1>7. \A k \in 1..Len(s) : l[k] <= m[k]
  BY <1>1, <1>2, <1>6
<1>8. Taken(s, at) = Total(l) /\ Total(l) \in Nat
  BY <1>1, <1>2, <1>4, TotalIsNat DEF Taken
<1>9. ASSUME NEW k \in 1..Len(s), k \notin at PROVE Total(l) + s[k].length <= Weight(s)
  <2>1. Total(l) + (m[k] - l[k]) <= Total(m)
    BY <1>4, <1>6, <1>7, TotalGap
  <2>2. m[k] - l[k] = s[k].length
    BY <1>1, <1>2, <1>6, <1>9
  <2> QED
    BY <1>5, <2>1, <2>2 DEF Weight
<1> QED
  BY <1>8, <1>9

\* What a list of kept lengths says of an assembled text.
AssembledFrom(s, kept, a) ==
  /\ a.length = Total(kept)
  /\ a.parts = {s[k].name : k \in {j \in 1..Len(s) : kept[j] > 0}}
  /\ a.warnings = IF kept # Lengths(s) THEN {"context"} ELSE {}

LEMMA AssembleKeeps ==
  ASSUME NEW s \in Seq(SectionSet), NEW limit \in Int
  PROVE  \E kept \in Seq(Nat) :
           /\ AssembledFrom(s, kept, Assemble(s, limit)) /\ Len(kept) = Len(s)
           /\ \A k \in 1..Len(s) : kept[k] <= s[k].length
           /\ \A k \in 1..Len(s) : s[k].required => kept[k] = s[k].length
           /\ limit < 0 \/ Weight(s) <= limit => kept = Lengths(s)
<1>1. Len(s) \in Nat /\ DOMAIN s = 1..Len(s)
      /\ \A k \in 1..Len(s) : s[k].length \in Nat /\ s[k].required \in BOOLEAN
  BY SectionAt
<1>2. PICK required : required = {k \in 1..Len(s) : s[k].required}
  OBVIOUS
<1> DEFINE Room(k) == limit - Taken(s, required \cup 1..(k - 1))
           Keep(k) == IF limit < 0 \/ k \in required THEN s[k].length
                      ELSE AtLeast(0, AtMost(s[k].length, Room(k)))
<1>3. \A k \in 1..Len(s) : Room(k) \in Int
  BY TakenFits
<1>4. PICK kept : kept = [k \in 1..Len(s) |-> Keep(k)]
  OBVIOUS
<1>5. ASSUME NEW k \in 1..Len(s) PROVE Keep(k) \in Nat /\ Keep(k) <= s[k].length
  <2>1. Room(k) \in Int
    BY <1>3
  <2> HIDE DEF Room
  <2> QED
    BY <1>1, <2>1 DEF AtLeast, AtMost
<1>6. kept \in Seq(Nat) /\ Len(kept) = Len(s)
  <2>1. kept \in [1..Len(s) -> Nat]
    <3> HIDE DEF Keep
    <3> QED
      BY <1>4, <1>5
  <2> QED
    BY <1>1, <2>1, FunctionIsSeq
<1>7. AssembledFrom(s, kept, Assemble(s, limit))
  <2>1. Assemble(s, limit) =
          [length |-> Total(kept), parts |-> {s[k].name : k \in {j \in 1..Len(s) : kept[j] > 0}},
           warnings |-> IF kept # Lengths(s) THEN {"context"} ELSE {}]
    BY <1>1, <1>2, <1>4 DEF Assemble, Taken
  <2> QED
    BY <2>1 DEF AssembledFrom
<1>8. /\ \A k \in 1..Len(s) : kept[k] <= s[k].length
      /\ \A k \in 1..Len(s) : s[k].required => kept[k] = s[k].length
  <2>1. \A k \in 1..Len(s) : k \in required => Keep(k) = s[k].length
    OBVIOUS
  <2> HIDE DEF Keep
  <2> QED
    BY <1>2, <1>4, <1>5, <2>1
<1>9. ASSUME limit < 0 \/ Weight(s) <= limit PROVE kept = Lengths(s)
  <2>1. \A k \in 1..Len(s) : Lengths(s)[k] = s[k].length
    BY LengthsOf DEF SectionSet
  <2>2. Lengths(s) \in Seq(Nat) /\ Len(Lengths(s)) = Len(s)
    BY LengthsOf DEF SectionSet
  <2>3. ASSUME NEW k \in 1..Len(s) PROVE Keep(k) = s[k].length
    <3>1. CASE limit < 0 \/ k \in required
      BY <3>1
    <3>2. CASE ~(limit < 0 \/ k \in required)
      <4>1. k \notin required \cup 1..(k - 1)
        BY <3>2
      <4>2. PICK t \in Nat : t = Taken(s, required \cup 1..(k - 1))
        BY TakenFits
      <4>3. t + s[k].length <= Weight(s)
        BY <4>1, <4>2, TakenFits
      <4>4. PICK w \in Nat : w = Weight(s)
        BY WeightIsNat DEF SectionSet
      <4>5. PICK n \in Nat : n = s[k].length
        BY <1>1
      <4>6. Room(k) = limit - t
        BY <4>2
      <4>7. Room(k) >= n
        BY <1>9, <3>2, <4>2, <4>3, <4>4, <4>5, <4>6
      <4> QED
        BY <1>3, <3>2, <4>5, <4>7 DEF AtLeast, AtMost
    <3> QED
      BY <3>1, <3>2
  <2>4. \A k \in 1..Len(s) : kept[k] = s[k].length
    <3> HIDE DEF Keep
    <3> QED
      BY <1>4, <2>3
  <2> QED
    BY <1>6, <2>1, <2>2, <2>4, SeqEqual
<1>10. limit < 0 \/ Weight(s) <= limit => kept = Lengths(s)
  BY <1>9
<1> HIDE DEF Room, Keep
<1> QED
  BY <1>6, <1>7, <1>8, <1>10

LEMMA AssembleType ==
  ASSUME NEW s \in Seq(SectionSet), NEW limit \in Int
  PROVE  /\ Assemble(s, limit).length \in Nat
         /\ Assemble(s, limit).length <= Weight(s)
         /\ Assemble(s, limit).parts \subseteq {s[k].name : k \in 1..Len(s)}
         /\ Assemble(s, limit).parts \in SUBSET SectionNames
         /\ Assemble(s, limit).warnings \subseteq {"context"}
<1>1. PICK kept \in Seq(Nat) : /\ AssembledFrom(s, kept, Assemble(s, limit))
                              /\ Len(kept) = Len(s)
                              /\ \A k \in 1..Len(s) : kept[k] <= s[k].length
  BY AssembleKeeps
<1>2. Total(kept) \in Nat /\ Total(kept) <= Weight(s)
  <2>1. PICK m \in Seq(Nat) : m = Lengths(s)
    BY LengthsOf DEF SectionSet
  <2>2. Len(m) = Len(s) /\ \A k \in 1..Len(s) : m[k] = s[k].length
    BY <2>1, LengthsOf DEF SectionSet
  <2> QED
    BY <1>1, <2>1, <2>2, TotalIsNat, TotalGap DEF Weight
<1>3. \A k \in 1..Len(s) : s[k].name \in SectionNames
  BY SectionAt
<1> HIDE DEF SectionSet
<1> QED
  BY <1>1, <1>2, <1>3 DEF AssembledFrom

\* A required section is always there.
LEMMA AssembleRequired ==
  ASSUME NEW s \in Seq(SectionSet), NEW limit \in Int, NEW k \in 1..Len(s),
         s[k].required, s[k].length > 0
  PROVE  s[k].name \in Assemble(s, limit).parts
<1>1. PICK kept \in Seq(Nat) :
        /\ AssembledFrom(s, kept, Assemble(s, limit))
        /\ \A n \in 1..Len(s) : s[n].required => kept[n] = s[n].length
  BY AssembleKeeps
<1>2. kept[k] > 0
  BY <1>1
<1> QED
  BY <1>1, <1>2 DEF AssembledFrom

\* Nothing is cut that fits, and a cut leaves a warning.
LEMMA AssembleWhole ==
  ASSUME NEW s \in Seq(SectionSet), NEW limit \in Int
  PROVE  /\ limit < 0 \/ Weight(s) <= limit => Assemble(s, limit).warnings = {}
         /\ Assemble(s, limit).warnings = {} => Assemble(s, limit).length = Weight(s)
<1>1. PICK kept \in Seq(Nat) :
        /\ AssembledFrom(s, kept, Assemble(s, limit))
        /\ limit < 0 \/ Weight(s) <= limit => kept = Lengths(s)
  BY AssembleKeeps
<1>2. limit < 0 \/ Weight(s) <= limit => Assemble(s, limit).warnings = {}
  BY <1>1 DEF AssembledFrom
<1>3. Assemble(s, limit).warnings = {} => kept = Lengths(s)
  BY <1>1 DEF AssembledFrom
<1>4. Assemble(s, limit).length = Total(kept)
  BY <1>1 DEF AssembledFrom
<1> QED
  BY <1>2, <1>3, <1>4 DEF Weight

-----------------------------------------------------------------------------
(* The sections of a request.                                               *)

TurnSet == [role : STRING, length : Nat, repeats : BOOLEAN]

LEMMA HistoryIsText ==
  ASSUME NEW h \in Seq(TurnSet)
  PROVE  FormatHistory(h) \in Nat
<1>1. Len(h) \in Nat /\ DOMAIN h = 1..Len(h)
  BY LenProperties
<1>2. ASSUME NEW n \in 1..Len(h) PROVE h[n].length \in Nat
  <2>1. h[n] \in TurnSet
    BY ElementOfSeq
  <2> QED
    BY <2>1 DEF TurnSet
<1>3. PICK l : l = [n \in DOMAIN h |-> IF h[n].length > 0 THEN 1 + h[n].length ELSE 0]
  OBVIOUS
<1>4. l \in [1..Len(h) -> Nat]
  BY <1>1, <1>2, <1>3
<1>5. Total(l) \in Nat
  BY <1>1, <1>4, FunctionIsSeq, TotalIsNat
<1> QED
  BY <1>3, <1>5 DEF FormatHistory

RequestFields(q) ==
  /\ q.prompt \in Nat /\ q.target \in Nat /\ q.rules \in Nat /\ q.guidelines \in Nat
  /\ q.files \in Nat /\ q.retrieval \in Nat /\ q.history \in Seq(TurnSet)

LEMMA FieldsOfRequest ==
  ASSUME NEW q \in Request
  PROVE  RequestFields(q)
BY DEF Request, RequestFields, TurnSet

LEMMA RequiredSection ==
  ASSUME NEW name \in SectionNames, NEW length \in Nat
  PROVE  \E r \in SectionSet : /\ r = Section(name, length, TRUE)
                               /\ r.name = name /\ r.length = length /\ r.required
<1>1. PICK r : r = [name |-> name, length |-> length, required |-> TRUE]
  OBVIOUS
<1>2. r.name = name /\ r.length = length /\ r.required
  BY <1>1
<1>3. r \in SectionSet
  BY <1>1 DEF SectionSet
<1> QED
  BY <1>1, <1>2, <1>3 DEF Section

LEMMA OptionalSection ==
  ASSUME NEW name \in SectionNames, NEW length \in Nat
  PROVE  \E r \in SectionSet : /\ r = Section(name, length, FALSE)
                               /\ r.name = name
<1>1. PICK r : r = [name |-> name, length |-> length, required |-> FALSE]
  OBVIOUS
<1>2. r.name = name
  BY <1>1
<1>3. r \in SectionSet
  BY <1>1 DEF SectionSet
<1> QED
  BY <1>1, <1>2, <1>3 DEF Section

LEMMA TaskSections ==
  ASSUME NEW q, RequestFields(q)
  PROVE  /\ Task(q) \in Seq(SectionSet) /\ Len(Task(q)) = 2
         /\ Task(q)[1].name = "original_prompt" /\ Task(q)[1].length = q.prompt
         /\ Task(q)[1].required /\ Task(q)[2].name = "enhancement_contract"
<1>1. q.prompt \in Nat /\ q.target \in Nat
  BY DEF RequestFields
<1>2. "original_prompt" \in SectionNames
  BY DEF SectionNames, TaskNames
<1>3. PICK a \in SectionSet :
        /\ a = Section("original_prompt", q.prompt, TRUE)
        /\ a.name = "original_prompt" /\ a.length = q.prompt /\ a.required
  BY <1>1, <1>2, RequiredSection
<1>4. PICK b \in SectionSet :
        /\ b = Section("enhancement_contract", q.target, TRUE)
        /\ b.name = "enhancement_contract"
  BY <1>1, RequiredSection DEF SectionNames, TaskNames
<1>5. Task(q) = <<a, b>>
  BY <1>3, <1>4 DEF Task
<1>6. /\ <<a, b>> \in Seq(SectionSet) /\ Len(<<a, b>>) = 2
      /\ <<a, b>>[1] = a /\ <<a, b>>[2] = b
  OBVIOUS
<1> QED
  BY <1>3, <1>4, <1>5, <1>6

LEMMA InstructionSection ==
  /\ Instruction \in Seq(SectionSet) /\ Len(Instruction) = 1
  /\ Instruction[1].name = "final_instruction" /\ Instruction[1].length = 1
  /\ Instruction[1].required
<1>1. "final_instruction" \in SectionNames /\ 1 \in Nat
  BY DEF SectionNames, TaskNames
<1>2. PICK a \in SectionSet :
        /\ a = Section("final_instruction", 1, TRUE)
        /\ a.name = "final_instruction" /\ a.length = 1 /\ a.required
  BY <1>1, RequiredSection
<1>3. Instruction = <<a>>
  BY <1>2 DEF Instruction
<1>4. <<a>> \in Seq(SectionSet) /\ Len(<<a>>) = 1 /\ <<a>>[1] = a
  OBVIOUS
<1> QED
  BY <1>2, <1>3, <1>4

LEMMA ReferenceSections ==
  ASSUME NEW q, RequestFields(q), NEW h \in Nat
  PROVE  /\ Reference(q, h) \in Seq(SectionSet) /\ Len(Reference(q, h)) = 5
         /\ \A k \in 1..5 : Reference(q, h)[k].name \notin TaskNames
<1>1. q.rules \in Nat /\ q.guidelines \in Nat /\ q.files \in Nat /\ q.retrieval \in Nat
  BY DEF RequestFields
<1>2. PICK a \in SectionSet : a = Section("rules", q.rules, FALSE) /\ a.name = "rules"
  BY <1>1, OptionalSection DEF SectionNames
<1>3. PICK b \in SectionSet :
        b = Section("guidelines", q.guidelines, FALSE) /\ b.name = "guidelines"
  BY <1>1, OptionalSection DEF SectionNames
<1>4. PICK c \in SectionSet : c = Section("history", h, FALSE) /\ c.name = "history"
  BY OptionalSection DEF SectionNames
<1>5. PICK d \in SectionSet :
        d = Section("context.files", q.files, FALSE) /\ d.name = "context.files"
  BY <1>1, OptionalSection DEF SectionNames
<1>6. PICK e \in SectionSet :
        e = Section("context.retrieval", q.retrieval, FALSE) /\ e.name = "context.retrieval"
  BY <1>1, OptionalSection DEF SectionNames
<1>7. Reference(q, h) = <<a, b, c, d, e>>
  BY <1>2, <1>3, <1>4, <1>5, <1>6 DEF Reference
<1>8. <<a, b, c, d, e>> \in Seq(SectionSet) /\ Len(<<a, b, c, d, e>>) = 5
  OBVIOUS
<1>9. PICK s : s = <<a, b, c, d, e>>
  OBVIOUS
<1>10. s[1] = a /\ s[2] = b /\ s[3] = c /\ s[4] = d /\ s[5] = e
  BY <1>9
<1>11. \A k \in 1..5 : k \in {1, 2, 3, 4, 5}
  OBVIOUS
<1>12. \A k \in 1..5 : s[k].name \notin TaskNames
  BY <1>2, <1>3, <1>4, <1>5, <1>6, <1>10, <1>11 DEF TaskNames
<1> QED
  BY <1>7, <1>8, <1>9, <1>12

\* The task is whole in whatever room it is given.
IsTask(a) ==
  /\ a.length \in Nat /\ a.parts \in SUBSET SectionNames /\ a.warnings \subseteq {"context"}
  /\ {"original_prompt", "final_instruction"} \subseteq a.parts

LEMMA TaskIsKept ==
  ASSUME NEW s \in Seq(SectionSet), NEW limit \in Int, Len(s) \in Nat \ {0},
         s[1].name = "original_prompt", s[1].length > 0, s[1].required,
         s[Len(s)].name = "final_instruction", s[Len(s)].length = 1, s[Len(s)].required
  PROVE  IsTask(Assemble(s, limit))
<1>1. PICK a : a = Assemble(s, limit)
  OBVIOUS
<1>2. /\ a.length \in Nat /\ a.parts \in SUBSET SectionNames /\ a.warnings \subseteq {"context"}
  BY <1>1, AssembleType
<1>3. 1 \in 1..Len(s) /\ Len(s) \in 1..Len(s)
  OBVIOUS
<1>4. s[1].name \in a.parts
  BY <1>1, <1>3, AssembleRequired
<1>5. s[Len(s)].length > 0
  OBVIOUS
<1>6. s[Len(s)].name \in a.parts
  BY <1>1, <1>3, <1>5, AssembleRequired
<1> QED
  BY <1>1, <1>2, <1>4, <1>6 DEF IsTask

LEMMA TaskAlone ==
  ASSUME NEW q, RequestFields(q), q.prompt > 0
  PROVE  /\ Task(q) \o Instruction \in Seq(SectionSet)
         /\ \A limit \in Int : /\ IsTask(Assemble(Task(q) \o Instruction, limit))
                               /\ Assemble(Task(q) \o Instruction, limit).parts \subseteq TaskNames
<1>1. PICK t \in Seq(SectionSet) :
        /\ t = Task(q) /\ Len(t) = 2
        /\ t[1].name = "original_prompt" /\ t[1].length = q.prompt
        /\ t[1].required /\ t[2].name = "enhancement_contract"
  BY TaskSections
<1>2. PICK i \in Seq(SectionSet) :
        /\ i = Instruction /\ Len(i) = 1
        /\ i[1].name = "final_instruction" /\ i[1].length = 1 /\ i[1].required
  BY InstructionSection
<1>3. PICK s \in Seq(SectionSet) : s = t \o i
  BY ConcatProperties
<1>4. Len(s) = 3 /\ s[1] = t[1] /\ s[2] = t[2] /\ s[3] = i[1]
  <2>1. /\ Len(s) = Len(t) + Len(i)
        /\ \A k \in 1 .. Len(t) + Len(i) :
             s[k] = IF k <= Len(t) THEN t[k] ELSE i[k - Len(t)]
    BY <1>3, ConcatProperties
  <2> QED
    BY <1>1, <1>2, <2>1
<1>5. \A k \in 1..Len(s) : s[k].name \in TaskNames
  <2>1. \A k \in 1..Len(s) : k \in {1, 2, 3}
    BY <1>4
  <2> QED
    BY <1>1, <1>2, <1>4, <2>1 DEF TaskNames
<1>6. ASSUME NEW limit \in Int
      PROVE  IsTask(Assemble(s, limit)) /\ Assemble(s, limit).parts \subseteq TaskNames
  <2>1. IsTask(Assemble(s, limit))
    BY <1>1, <1>2, <1>4, TaskIsKept
  <2>2. Assemble(s, limit).parts \subseteq {s[k].name : k \in 1..Len(s)}
    BY AssembleType
  <2> QED
    BY <1>5, <2>1, <2>2
<1> QED
  BY <1>1, <1>2, <1>3, <1>6

LEMMA WholePrompt ==
  ASSUME NEW q, RequestFields(q), q.prompt > 0, NEW includeHistory \in BOOLEAN
  PROVE  /\ PromptSections(q, includeHistory) \in Seq(SectionSet)
         /\ \A limit \in Int : IsTask(Assemble(PromptSections(q, includeHistory), limit))
<1>1. PICK t \in Seq(SectionSet) :
        /\ t = Task(q) /\ Len(t) = 2
        /\ t[1].name = "original_prompt" /\ t[1].length = q.prompt /\ t[1].required
  BY TaskSections
<1>2. PICK i \in Seq(SectionSet) :
        /\ i = Instruction /\ Len(i) = 1
        /\ i[1].name = "final_instruction" /\ i[1].length = 1 /\ i[1].required
  BY InstructionSection
<1>3. PICK h : h = IF includeHistory THEN FormatHistory(q.history) ELSE 0
  OBVIOUS
<1>4. h \in Nat
  BY <1>3, HistoryIsText DEF RequestFields
<1>5. PICK r \in Seq(SectionSet) : r = Reference(q, h) /\ Len(r) = 5
  BY <1>4, ReferenceSections
<1>6. PICK u \in Seq(SectionSet) : u = t \o r
  BY ConcatProperties
<1>7. PICK s \in Seq(SectionSet) : s = u \o i
  BY ConcatProperties
<1>8. Len(u) = 7 /\ u[1] = t[1]
  <2>1. /\ Len(u) = Len(t) + Len(r)
        /\ \A k \in 1 .. Len(t) + Len(r) :
             u[k] = IF k <= Len(t) THEN t[k] ELSE r[k - Len(t)]
    BY <1>6, ConcatProperties
  <2> QED
    BY <1>1, <1>5, <2>1
<1>9. Len(s) = 8 /\ s[1] = t[1] /\ s[8] = i[1]
  <2>1. /\ Len(s) = Len(u) + Len(i)
        /\ \A k \in 1 .. Len(u) + Len(i) :
             s[k] = IF k <= Len(u) THEN u[k] ELSE i[k - Len(u)]
    BY <1>7, ConcatProperties
  <2> QED
    BY <1>2, <1>8, <2>1
<1>10. PromptSections(q, includeHistory) = s
  BY <1>1, <1>2, <1>3, <1>5, <1>6, <1>7 DEF PromptSections
<1>11. ASSUME NEW limit \in Int PROVE IsTask(Assemble(s, limit))
  <2>1. Len(s) \in Nat \ {0} /\ s[Len(s)] = i[1]
    BY <1>9
  <2>2. s[1].name = "original_prompt" /\ s[1].length > 0 /\ s[1].required
    BY <1>1, <1>8, <1>9
  <2>3. /\ s[Len(s)].name = "final_instruction" /\ s[Len(s)].length = 1
        /\ s[Len(s)].required
    BY <1>2, <2>1
  <2> QED
    BY <2>1, <2>2, <2>3, TaskIsKept
<1> QED
  BY <1>10, <1>11

-----------------------------------------------------------------------------
(* The turns of the history.                                                *)

MessageSet == [role : {"user", "assistant"}, length : Nat, parts : SUBSET SectionNames]
HistorySet == {m \in MessageSet : m.parts = {"history"}}

LEMMA ChosenFrom ==
  ASSUME NEW S, NEW list \in Seq(S), NEW at
  PROVE  Chosen(list, at) \in Seq({list[n] : n \in 1..Len(list) \cap at})
<1>1. PICK N \in Nat : N = Len(list)
  BY LenProperties
<1> DEFINE V == Seq({list[n] : n \in 1..N \cap at})
           More(f) == [n \in 0..N |-> IF n = 0 THEN <<>> ELSE IF n \in at
                                      THEN Append(f[n - 1], list[n]) ELSE f[n - 1]]
           upTo == CHOOSE f : f = More(f)
<1>2. Chosen(list, at) = upTo[N]
  BY <1>1 DEF Chosen
<1>3. \E f : f = More(f)
  <2> DEFINE step == [p \in V \X Nat |-> IF p[2] \in 1..N /\ p[2] \in at
                                         THEN Append(p[1], list[p[2]]) ELSE p[1]]
  <2>1. ASSUME NEW v \in V, NEW n \in 1..N, n \in at PROVE Append(v, list[n]) \in V
    BY <2>1, AppendProperties
  <2>2. <<>> \in V
    BY EmptySeq
  <2> HIDE DEF V
  <2>3. step \in [V \X Nat -> V]
    BY <2>1
  <2>4. ASSUME NEW v \in V, NEW n \in 1..N
        PROVE  step[<<v, n>>] = IF n \in at THEN Append(v, list[n]) ELSE v
    OBVIOUS
  <2> HIDE DEF step
  <2>5. PICK f : Folds(f, N, V, <<>>, step)
    BY <2>2, <2>3, RecursionUpTo
  <2>6. ASSUME NEW n \in 0..N
        PROVE  f[n] = IF n = 0 THEN <<>> ELSE IF n \in at
                      THEN Append(f[n - 1], list[n]) ELSE f[n - 1]
    <3>1. CASE n = 0
      BY <2>5, <3>1 DEF Folds
    <3>2. CASE n # 0
      <4>1. n - 1 \in 0..N /\ n \in 1..N
        BY <3>2
      <4>2. f[n - 1] \in V /\ f[n] = step[<<f[n - 1], n>>]
        BY <2>5, <4>1 DEF Folds
      <4> QED
        BY <2>4, <3>2, <4>1, <4>2
    <3> QED
      BY <3>1, <3>2
  <2>7. f = [n \in 0..N |-> f[n]]
    BY <2>5 DEF Folds
  <2>8. f = More(f)
    BY <2>6, <2>7
  <2> QED
    BY <2>8
<1>4. upTo = More(upTo)
  BY <1>3
<1> HIDE DEF upTo
<1>5. \A n \in 0..N : upTo[n] \in V
  <2> DEFINE S1 == {n \in 0..N : upTo[n] \in V}
  <2>1. 0 \in S1
    BY <1>4, EmptySeq
  <2>2. ASSUME NEW n \in Nat, n < N, n \in S1 PROVE n + 1 \in S1
    <3>1. n + 1 \in 1..N /\ n + 1 \in 0..N /\ (n + 1) - 1 = n /\ n + 1 # 0
      BY <2>2
    <3>2. upTo[n + 1] = IF n + 1 \in at THEN Append(upTo[n], list[n + 1]) ELSE upTo[n]
      BY <1>4, <3>1
    <3>3. CASE n + 1 \in at
      <4>1. list[n + 1] \in {list[k] : k \in 1..N \cap at}
        BY <3>1, <3>3
      <4>2. Append(upTo[n], list[n + 1]) \in V
        BY <2>2, <4>1, AppendProperties
      <4> QED
        BY <3>1, <3>2, <3>3, <4>2
    <3>4. CASE n + 1 \notin at
      BY <2>2, <3>1, <3>2, <3>4
    <3> QED
      BY <3>3, <3>4
  <2> HIDE DEF S1
  <2>3. \A n \in 0..N : n \in S1
    BY <2>1, <2>2, UpTo
  <2> QED
    BY <2>3 DEF S1
<1> QED
  BY <1>1, <1>2, <1>5

LEMMA Least ==
  ASSUME NEW S, S \subseteq Nat, S # {}
  PROVE  \E k \in S : \A j \in S : k <= j
<1>1. PICK R : IsWellFoundedOn(R, Nat) /\ \A k, n \in Nat : k < n => <<k, n>> \in R
  BY NatLessThanWellFounded DEF OpToRel
<1>2. PICK n \in S : \A k \in S : ~(<<k, n>> \in R)
  <2>1. IsWellFoundedOn(R, Nat) /\ S \subseteq Nat
    BY <1>1
  <2> QED
    BY <2>1, WFMin
<1>3. \A k \in S : ~(k < n)
  BY <1>1, <1>2
<1>4. n \in Nat /\ \A k \in S : k \in Nat
  BY <1>2
<1> QED
  BY <1>2, <1>3, <1>4

LEMMA TurnsOfHistory ==
  ASSUME NEW q, RequestFields(q)
  PROVE  HistoryTurns(q) \in Seq(HistorySet)
<1>1. PICK h \in Seq(TurnSet) : h = q.history
  BY DEF RequestFields
<1>2. PICK at : at = {n \in DOMAIN h : h[n].length > 0 /\ h[n].role \in {"user", "assistant"}}
  OBVIOUS
<1>3. PICK said : said = Chosen(h, at)
  OBVIOUS
<1> DEFINE S == {h[n] : n \in 1..Len(h) \cap at}
<1>4. said \in Seq(S)
  BY <1>3, ChosenFrom
<1>5. ASSUME NEW r \in S PROVE r.role \in {"user", "assistant"} /\ r.length \in Nat
  <2>1. PICK n \in 1..Len(h) : r = h[n] /\ n \in at
    OBVIOUS
  <2>2. h[n] \in TurnSet
    BY ElementOfSeq
  <2>3. h[n].length \in Nat
    BY <2>2 DEF TurnSet
  <2> QED
    BY <1>2, <2>1, <2>3
<1> HIDE DEF S
<1>6. PICK N \in Nat : N = Len(said) /\ DOMAIN said = 1..N
  BY <1>4, LenProperties
<1>7. PICK turns : turns = [n \in DOMAIN said |->
                              Message(said[n].role, AtMost(MaxTurn, said[n].length), {"history"})]
  OBVIOUS
<1>8. ASSUME NEW n \in 1..N PROVE turns[n] \in HistorySet
  <2>1. said[n].role \in {"user", "assistant"} /\ said[n].length \in Nat
    BY <1>4, <1>5, <1>6, ElementOfSeq
  <2>2. PICK length \in Nat : length = AtMost(MaxTurn, said[n].length)
    BY <2>1, PromptAssumption DEF AtMost
  <2>3. PICK role \in {"user", "assistant"} : role = said[n].role
    BY <2>1
  <2>4. turns[n] = [role |-> role, length |-> length, parts |-> {"history"}]
    BY <1>6, <1>7, <2>2, <2>3 DEF Message
  <2>5. {"history"} \in SUBSET SectionNames
    BY DEF SectionNames
  <2> QED
    BY <2>4, <2>5 DEF HistorySet, MessageSet
<1>9. turns \in Seq(HistorySet) /\ Len(turns) = N
  <2>1. turns \in [1..N -> HistorySet]
    BY <1>6, <1>7, <1>8
  <2> QED
    BY <2>1, FunctionIsSeq
<1>10. Front(turns) \in Seq(HistorySet)
  <2>1. \A i \in 1..(N - 1) : turns[i] \in HistorySet
    BY <1>8
  <2>2. SubSeq(turns, 1, N - 1) \in Seq(HistorySet)
    BY <2>1, SubSeqProperties
  <2> QED
    BY <1>9, <2>2 DEF Front
<1>11. HistoryTurns(q) = turns \/ HistoryTurns(q) = Front(turns)
  BY <1>1, <1>2, <1>3, <1>7 DEF HistoryTurns
<1> QED
  BY <1>9, <1>10, <1>11

LEMMA HistoryLengths == \A m \in HistorySet : m.length \in Nat
BY DEF HistorySet, MessageSet

\* The turns that are kept; all of them where they fit.
LEMMA Trimmed ==
  ASSUME NEW turns \in Seq(HistorySet), NEW limit \in Int
  PROVE  /\ TrimTurns(turns, limit) \in Seq(HistorySet)
         /\ limit < 0 \/ Weight(turns) <= limit => TrimTurns(turns, limit) = turns
<1>1. CASE limit < 0
  BY <1>1 DEF TrimTurns
<1>2. CASE ~(limit < 0)
  <2>1. PICK N \in Nat : N = Len(turns)
    BY LenProperties
  <2>2. PICK fitting : fitting = {k \in 0..N : Total(Lengths(SubSeq(turns, k + 1, N))) <= limit}
    OBVIOUS
  <2>3. TrimTurns(turns, limit) =
          SubSeq(turns, (CHOOSE k \in fitting : \A j \in fitting : k <= j) + 1, N)
    BY <1>2, <2>1, <2>2 DEF TrimTurns
  <2>4. N \in fitting
    <3>1. SubSeq(turns, N + 1, N) = <<>>
      BY SubSeqEmpty
    <3>2. Total(Lengths(SubSeq(turns, N + 1, N))) = 0
      BY <3>1, WeightEmpty DEF Weight
    <3>3. 0 <= limit
      BY <1>2
    <3> QED
      BY <2>2, <3>2, <3>3
  <2>5. \E k \in fitting : \A j \in fitting : k <= j
    <3>1. fitting \subseteq Nat
      BY <2>2
    <3> QED
      BY <2>4, <3>1, Least
  <2>6. PICK dropped : dropped = CHOOSE k \in fitting : \A j \in fitting : k <= j
    OBVIOUS
  <2>7. dropped \in fitting /\ \A j \in fitting : dropped <= j
    BY <2>5, <2>6
  <2>8. dropped \in 0..N
    BY <2>2, <2>7
  <2>9. TrimTurns(turns, limit) \in Seq(HistorySet)
    <3>1. \A i \in (dropped + 1)..N : turns[i] \in HistorySet
      BY <2>1, <2>8, ElementOfSeq
    <3>2. dropped + 1 \in Int
      BY <2>8
    <3> QED
      BY <2>3, <2>6, <3>1, <3>2, SubSeqProperties
  <2>10. ASSUME Weight(turns) <= limit PROVE TrimTurns(turns, limit) = turns
    <3>1. SubSeq(turns, 1, N) = turns
      BY <2>1, SubSeqFull
    <3>2. 0 \in fitting
      <4>1. SubSeq(turns, 0 + 1, N) = turns
        BY <3>1
      <4>2. Total(Lengths(SubSeq(turns, 0 + 1, N))) <= limit
        BY <2>10, <4>1 DEF Weight
      <4> QED
        BY <2>2, <4>2
    <3>3. dropped = 0
      BY <2>7, <2>8, <3>2
    <3>4. dropped + 1 = 1
      BY <3>3
    <3> QED
      BY <2>3, <2>6, <3>1, <3>4
  <2> QED
    BY <1>2, <2>9, <2>10
<1> QED
  BY <1>1, <1>2

-----------------------------------------------------------------------------
(* Messages and what is in them.                                            *)

PartsOf(messages) == UNION {m.parts : m \in ToSet(messages)}

LEMMA PartsOfMessages ==
  /\ PartsOf(<<>>) = {}
  /\ \A m \in MessageSet : PartsOf(<<m>>) = m.parts
<1>1. PartsOf(<<>>) = {}
  <2>1. ToSet(<<>>) = {}
    BY DEF ToSet
  <2> QED
    BY <2>1 DEF PartsOf
<1>2. ASSUME NEW m \in MessageSet PROVE PartsOf(<<m>>) = m.parts
  <2>1. ToSet(<<m>>) = {m}
    BY DEF ToSet
  <2> QED
    BY <2>1 DEF PartsOf
<1> QED
  BY <1>1, <1>2

LEMMA PartsOfConcat ==
  ASSUME NEW s \in Seq(MessageSet), NEW t \in Seq(MessageSet)
  PROVE  PartsOf(s \o t) = PartsOf(s) \cup PartsOf(t)
<1>1. PICK N \in Nat : N = Len(s) /\ DOMAIN s = 1..N
  BY LenProperties
<1>2. PICK M \in Nat : M = Len(t) /\ DOMAIN t = 1..M
  BY LenProperties
<1>3. PICK u \in Seq(MessageSet) : u = s \o t
  BY ConcatProperties
<1>4. DOMAIN u = 1..(N + M) /\ \A i \in 1..(N + M) : u[i] = IF i <= N THEN s[i] ELSE t[i - N]
  BY <1>1, <1>2, <1>3, ConcatProperties, LenProperties
<1>5. ToSet(u) = ToSet(s) \cup ToSet(t)
  <2>1. ASSUME NEW i \in 1..(N + M) PROVE u[i] \in ToSet(s) \cup ToSet(t)
    <3>1. CASE i <= N
      <4>1. i \in DOMAIN s /\ u[i] = s[i]
        BY <1>1, <1>4, <3>1
      <4> QED
        BY <4>1 DEF ToSet
    <3>2. CASE ~(i <= N)
      <4>1. i - N \in DOMAIN t /\ u[i] = t[i - N]
        BY <1>2, <1>4, <3>2
      <4> QED
        BY <4>1 DEF ToSet
    <3> QED
      BY <3>1, <3>2
  <2>2. ASSUME NEW i \in 1..N PROVE s[i] \in ToSet(u)
    <3>1. i \in DOMAIN u /\ u[i] = s[i]
      BY <1>4
    <3> QED
      BY <3>1 DEF ToSet
  <2>3. ASSUME NEW i \in 1..M PROVE t[i] \in ToSet(u)
    <3>1. N + i \in DOMAIN u /\ u[N + i] = t[(N + i) - N] /\ (N + i) - N = i
      BY <1>4
    <3> QED
      BY <3>1 DEF ToSet
  <2>4. ToSet(u) = {u[i] : i \in 1..(N + M)}
    BY <1>4 DEF ToSet
  <2>5. ToSet(s) = {s[i] : i \in 1..N} /\ ToSet(t) = {t[i] : i \in 1..M}
    BY <1>1, <1>2 DEF ToSet
  <2>6. ToSet(u) \subseteq ToSet(s) \cup ToSet(t)
    BY <2>1, <2>4
  <2>7. ToSet(s) \cup ToSet(t) \subseteq ToSet(u)
    BY <2>2, <2>3, <2>5
  <2> QED
    BY <2>6, <2>7
<1> QED
  BY <1>3, <1>5 DEF PartsOf

LEMMA HistoryIsMessages ==
  ASSUME NEW kept \in Seq(HistorySet), NEW turns
  PROVE  /\ kept \in Seq(MessageSet)
         /\ PartsOf(kept) = HistoryUsed(turns, kept)
<1>1. kept \in Seq(MessageSet)
  <2>1. HistorySet \subseteq MessageSet
    BY DEF HistorySet
  <2> QED
    BY <2>1, SeqMonotonic
<1>2. Len(kept) \in Nat /\ DOMAIN kept = 1..Len(kept)
  BY LenProperties
<1>3. \A i \in 1..Len(kept) : kept[i].parts = {"history"}
  <2>1. \A i \in 1..Len(kept) : kept[i] \in HistorySet
    BY ElementOfSeq
  <2> QED
    BY <2>1 DEF HistorySet
<1>4. CASE kept = <<>>
  BY <1>4, PartsOfMessages DEF HistoryUsed
<1>5. CASE kept # <<>>
  <2>1. 1 \in 1..Len(kept)
    BY <1>2, <1>5, EmptySeq
  <2>2. {m.parts : m \in ToSet(kept)} = {{"history"}}
    BY <1>2, <1>3, <2>1 DEF ToSet
  <2>3. PartsOf(kept) = {"history"}
    BY <2>2 DEF PartsOf
  <2>4. HistoryUsed(turns, kept) = {"history"}
    BY <1>5 DEF HistoryUsed
  <2> QED
    BY <1>1, <2>3, <2>4
<1> QED
  BY <1>1, <1>4, <1>5

\* A list of messages with the whole task, from the user, at its end.
EndsWithTask(messages) ==
  /\ messages \in Seq(MessageSet) /\ Len(messages) > 0
  /\ messages[Len(messages)].role = "user"
  /\ {"original_prompt", "final_instruction"} \subseteq messages[Len(messages)].parts

LEMMA TaskMessage ==
  ASSUME NEW a, IsTask(a)
  PROVE  \E m \in MessageSet : /\ m = Message("user", a.length, a.parts)
                               /\ m.role = "user" /\ m.length = a.length /\ m.parts = a.parts
<1>1. PICK m : m = [role |-> "user", length |-> a.length, parts |-> a.parts]
  OBVIOUS
<1>2. m.role = "user" /\ m.length = a.length /\ m.parts = a.parts
  BY <1>1
<1>3. m \in MessageSet
  BY <1>1 DEF MessageSet, IsTask
<1> QED
  BY <1>1, <1>2, <1>3 DEF Message

LEMMA MessageLengths == \A m \in MessageSet : m.length \in Nat
BY DEF MessageSet

\* A task after other messages.
LEMMA TaskAtEnd ==
  ASSUME NEW s \in Seq(MessageSet), NEW a, IsTask(a)
  PROVE  LET m == Message("user", a.length, a.parts)
         IN  /\ Append(s, m) = s \o <<m>> /\ EndsWithTask(Append(s, m))
             /\ Weight(Append(s, m)) = Weight(s) + a.length
             /\ PartsOf(Append(s, m)) = PartsOf(s) \cup a.parts
<1>1. PICK m \in MessageSet :
        /\ m = Message("user", a.length, a.parts)
        /\ m.role = "user" /\ m.length = a.length /\ m.parts = a.parts
  BY TaskMessage
<1>2. PICK u \in Seq(MessageSet) : u = Append(s, m)
  BY AppendProperties
<1>3. Len(u) = Len(s) + 1 /\ u[Len(s) + 1] = m /\ Len(s) \in Nat
  BY <1>2, AppendProperties, LenProperties
<1>4. EndsWithTask(u)
  BY <1>1, <1>3 DEF EndsWithTask, IsTask
<1>5. u = s \o <<m>> /\ <<m>> \in Seq(MessageSet)
  BY <1>2, AppendIsConcat
<1>6. PartsOf(u) = PartsOf(s) \cup a.parts
  <2>1. PartsOf(<<m>>) = a.parts
    BY <1>1, PartsOfMessages
  <2>2. PICK t \in Seq(MessageSet) : t = <<m>>
    BY <1>5
  <2>3. PartsOf(s \o t) = PartsOf(s) \cup PartsOf(t)
    BY PartsOfConcat
  <2> QED
    BY <1>5, <2>1, <2>2, <2>3
<1>7. Weight(u) = Weight(s) + a.length
  BY <1>1, <1>2, WeightAppend, MessageLengths
<1> QED
  BY <1>1, <1>2, <1>4, <1>5, <1>6, <1>7

-----------------------------------------------------------------------------
(* The three layouts.                                                       *)

\* What holds of a layout whose whole size would be full: it ends with the task
\* and says what is in it, and a part is cut only without room and with a word.
LaysOut(l, limit, full) ==
  /\ l.system \in Nat /\ EndsWithTask(l.messages)
  /\ l.warnings \subseteq {"context", "history"}
  /\ l.used = UsedContexts(PartsOf(l.messages))
  /\ Size(l) \in Nat
  /\ limit < 0 \/ full <= limit => Size(l) = full
  /\ l.warnings = {} => Size(l) = full

LEMMA LayoutFields ==
  ASSUME NEW system, NEW messages, NEW used, NEW warnings
  PROVE  LET l == Layout(system, messages, used, warnings)
         IN  /\ l.system = system /\ l.messages = messages
             /\ l.used = used /\ l.warnings = warnings
             /\ Size(l) = system + Weight(messages)
BY DEF Layout, Size, Weight

LEMMA RemainingRoom ==
  ASSUME NEW limit \in Int, NEW spent \in Nat
  PROVE  /\ Remaining(limit, spent) \in Int
         /\ \A w \in Nat : limit < 0 \/ spent + w <= limit =>
              Remaining(limit, spent) < 0 \/ w <= Remaining(limit, spent)
BY DEF Remaining, AtLeast, NoLimit

LEMMA UsedOfUnion == \A a, b : UsedContexts(a \cup b) = UsedContexts(a) \cup UsedContexts(b)
BY DEF UsedContexts

LEMMA SystemIsNat ==
  SystemLength \in Nat /\ SystemLength + FramingLength \in Nat /\ HeaderLength \in Nat
BY PromptAssumption

LEMMA FlattenLaysOut ==
  ASSUME NEW q, RequestFields(q), q.prompt > 0, NEW limit \in Int
  PROVE  LaysOut(Flatten(q, limit), limit, SystemLength + Weight(PromptSections(q, TRUE)))
<1>1. PICK s \in Seq(SectionSet) : s = PromptSections(q, TRUE)
  BY WholePrompt
<1>2. PICK w \in Nat : w = Weight(s)
  BY WeightIsNat DEF SectionSet
<1>3. PICK room \in Int : room = Remaining(limit, SystemLength)
  BY RemainingRoom, SystemIsNat
<1>4. PICK a : a = Assemble(s, room)
  OBVIOUS
<1>5. IsTask(a)
  BY <1>1, <1>4, WholePrompt
<1>6. PICK n \in Nat : n = a.length
  BY <1>5 DEF IsTask
<1>7. PICK m : m = Message("user", a.length, a.parts)
  OBVIOUS
<1>8. PICK ms : ms = << m >>
  OBVIOUS
<1>9. EndsWithTask(ms) /\ Weight(ms) = n /\ PartsOf(ms) = a.parts
  <2>1. PICK e \in Seq(MessageSet) : e = <<>>
    BY EmptySeq
  <2>2. /\ EndsWithTask(Append(e, m)) /\ Weight(Append(e, m)) = Weight(e) + a.length
        /\ PartsOf(Append(e, m)) = PartsOf(e) \cup a.parts
    BY <1>5, <1>7, TaskAtEnd
  <2>3. Append(e, m) = ms
    BY <1>8, <2>1
  <2>4. Weight(e) = 0 /\ PartsOf(e) = {}
    BY <2>1, WeightEmpty, PartsOfMessages
  <2> QED
    BY <1>6, <2>2, <2>3, <2>4
<1>10. PICK l : l = Layout(SystemLength, ms, UsedContexts(a.parts), a.warnings)
  OBVIOUS
<1>11. Flatten(q, limit) = l
  BY <1>1, <1>3, <1>4, <1>7, <1>8, <1>10 DEF Flatten
<1>12. /\ l.system = SystemLength /\ l.messages = ms /\ l.used = UsedContexts(a.parts)
       /\ l.warnings = a.warnings /\ Size(l) = SystemLength + n
  BY <1>9, <1>10, LayoutFields
<1>13. /\ room < 0 \/ w <= room => a.warnings = {}
       /\ a.warnings = {} => n = w
  BY <1>2, <1>4, <1>6, AssembleWhole
<1>14. limit < 0 \/ SystemLength + w <= limit => room < 0 \/ w <= room
  BY <1>3, RemainingRoom, SystemIsNat
<1>15. a.warnings \subseteq {"context"}
  BY <1>5 DEF IsTask
<1>16. LaysOut(l, limit, SystemLength + w)
  BY <1>9, <1>12, <1>13, <1>14, <1>15, SystemIsNat DEF LaysOut
<1> QED
  BY <1>1, <1>2, <1>11, <1>16

LEMMA HybridLaysOut ==
  ASSUME NEW q, RequestFields(q), q.prompt > 0, NEW limit \in Int
  PROVE  LaysOut(Hybrid(q, limit), limit, (SystemLength + FramingLength)
                   + (Weight(PromptSections(q, FALSE)) + Weight(HistoryTurns(q))))
<1>1. PICK s \in Seq(SectionSet) : s = PromptSections(q, FALSE)
  BY WholePrompt
<1>2. PICK w \in Nat : w = Weight(s)
  BY WeightIsNat DEF SectionSet
<1>3. PICK turns \in Seq(HistorySet) : turns = HistoryTurns(q)
  BY TurnsOfHistory
<1>4. PICK h \in Nat : h = Weight(turns)
  BY WeightIsNat, HistoryLengths
<1>5. PICK sys \in Nat : sys = SystemLength + FramingLength
  BY SystemIsNat
<1>6. PICK room \in Int : room = Remaining(limit, sys)
  BY RemainingRoom
<1>7. PICK a : a = Assemble(s, room)
  OBVIOUS
<1>8. IsTask(a)
  BY <1>1, <1>7, WholePrompt
<1>9. PICK n \in Nat : n = a.length
  BY <1>8 DEF IsTask
<1>10. PICK rest \in Int : rest = Remaining(room, n)
  BY RemainingRoom
<1>11. PICK kept \in Seq(HistorySet) : kept = TrimTurns(turns, rest)
  BY Trimmed
<1>12. PICK k \in Nat : k = Weight(kept)
  BY WeightIsNat, HistoryLengths
<1>13. PICK m : m = Message("user", a.length, a.parts)
  OBVIOUS
<1>14. PICK ms : ms = Append(kept, m)
  OBVIOUS
<1>15. /\ EndsWithTask(ms) /\ Weight(ms) = k + n
       /\ PartsOf(ms) = HistoryUsed(turns, kept) \cup a.parts
  <2>1. kept \in Seq(MessageSet) /\ PartsOf(kept) = HistoryUsed(turns, kept)
    BY HistoryIsMessages
  <2>2. /\ EndsWithTask(Append(kept, m)) /\ Weight(Append(kept, m)) = Weight(kept) + a.length
        /\ PartsOf(Append(kept, m)) = PartsOf(kept) \cup a.parts
    BY <1>8, <1>13, <2>1, TaskAtEnd
  <2> QED
    BY <1>9, <1>12, <1>14, <2>1, <2>2
<1>16. PICK l : l = Layout(sys, ms, UsedContexts(a.parts) \cup HistoryUsed(turns, kept),
                           a.warnings \cup HistoryCut(turns, kept))
  OBVIOUS
<1>17. Hybrid(q, limit) = l
  BY <1>1, <1>3, <1>5, <1>6, <1>7, <1>9, <1>10, <1>11, <1>13, <1>14, <1>16 DEF Hybrid
<1>18. /\ l.system = sys /\ l.messages = ms
       /\ l.used = UsedContexts(a.parts) \cup HistoryUsed(turns, kept)
       /\ l.warnings = a.warnings \cup HistoryCut(turns, kept) /\ Size(l) = sys + (k + n)
  BY <1>15, <1>16, LayoutFields
<1>19. l.used = UsedContexts(PartsOf(ms))
  <2>1. UsedContexts(HistoryUsed(turns, kept)) = HistoryUsed(turns, kept)
    BY DEF UsedContexts, HistoryUsed
  <2>2. UsedContexts(PartsOf(ms)) =
          UsedContexts(HistoryUsed(turns, kept)) \cup UsedContexts(a.parts)
    BY <1>15, UsedOfUnion
  <2> QED
    BY <1>18, <2>1, <2>2
<1>20. /\ room < 0 \/ w <= room => a.warnings = {}
       /\ a.warnings = {} => n = w
  BY <1>2, <1>7, <1>9, AssembleWhole
<1>21. rest < 0 \/ h <= rest => kept = turns
  BY <1>4, <1>11, Trimmed
<1>22. HistoryCut(turns, kept) = {} <=> kept = turns
  BY DEF HistoryCut
<1>23. ASSUME limit < 0 \/ sys + (w + h) <= limit PROVE l.warnings = {}
  <2>1. room < 0 \/ w + h <= room
    BY <1>6, <1>23, RemainingRoom
  <2>2. a.warnings = {} /\ n = w
    BY <1>20, <2>1
  <2>3. rest < 0 \/ h <= rest
    BY <1>10, <2>1, <2>2, RemainingRoom
  <2> QED
    BY <1>18, <1>21, <1>22, <2>2, <2>3
<1>24. ASSUME l.warnings = {} PROVE Size(l) = sys + (w + h)
  <2>1. a.warnings = {} /\ HistoryCut(turns, kept) = {}
    BY <1>18, <1>24
  <2>2. n = w /\ k = h
    BY <1>4, <1>12, <1>20, <1>22, <2>1
  <2> QED
    BY <1>18, <2>2
<1>25. l.warnings \subseteq {"context", "history"}
  BY <1>8, <1>18 DEF IsTask, HistoryCut
<1>26. LaysOut(l, limit, sys + (w + h))
  <2>1. Size(l) \in Nat
    BY <1>18
  <2>2. l.system \in Nat /\ EndsWithTask(l.messages) /\ l.used = UsedContexts(PartsOf(l.messages))
    BY <1>15, <1>18, <1>19
  <2> QED
    BY <1>23, <1>24, <1>25, <2>1, <2>2 DEF LaysOut
<1> QED
  BY <1>1, <1>2, <1>3, <1>4, <1>5, <1>17, <1>26

\* What the reference block is when it has nothing to cut.
BlockWeight(q) ==
  LET w == Weight(Reference(q, 0)) IN IF w <= 1 THEN 0 ELSE HeaderLength + w

\* The messages of a reference block, and the size they add.
LEMMA ReferenceMessages ==
  ASSUME NEW q, RequestFields(q), NEW task, IsTask(task), NEW room \in Int
  PROVE  LET block == ReferenceBlock(q, task, room)
             shown == IF block.blank THEN <<>> ELSE << Message("user", block.length, block.parts) >>
         IN  /\ shown \in Seq(MessageSet) /\ Weight(shown) \in Nat
             /\ PartsOf(shown) = (IF block.blank THEN {} ELSE block.parts)
             /\ UsedContexts(PartsOf(shown)) = PartsOf(shown)
             /\ block.warnings \subseteq {"context"}
             /\ \A rest \in Nat : room < 0 \/ task.length + (BlockWeight(q) + rest) <= room =>
                  Weight(shown) = BlockWeight(q)
             /\ block.warnings = {} => Weight(shown) = BlockWeight(q)
<1>1. PICK s \in Seq(SectionSet) :
        s = Reference(q, 0) /\ Len(s) = 5 /\ \A k \in 1..5 : s[k].name \notin TaskNames
  BY ReferenceSections
<1>2. PICK w \in Nat : w = Weight(s)
  BY WeightIsNat DEF SectionSet
<1>3. PICK t \in Nat : t = task.length
  BY DEF IsTask
<1>4. PICK head \in Nat : head = HeaderLength
  BY SystemIsNat
<1>5. PICK spent \in Nat : spent = t + head
  OBVIOUS
<1>6. PICK left \in Int : left = Remaining(room, spent)
  BY RemainingRoom
<1>7. PICK body : body = Assemble(s, left)
  OBVIOUS
<1>8. PICK n \in Nat : n = body.length /\ n <= w
  BY <1>2, <1>7, AssembleType
<1>9. PICK parts : parts = body.parts
  OBVIOUS
<1>10. parts \in SUBSET SectionNames /\ UsedContexts(parts) = parts
  <2>1. parts \in SUBSET SectionNames /\ parts \subseteq {s[k].name : k \in 1..Len(s)}
    BY <1>7, <1>9, AssembleType
  <2>2. parts \cap TaskNames = {}
    BY <1>1, <2>1
  <2> QED
    BY <2>1, <2>2 DEF UsedContexts, TaskNames
<1>11. body.warnings \subseteq {"context"}
  BY <1>7, AssembleType
<1>12. PICK block : block = ReferenceBlock(q, task, room)
  OBVIOUS
<1>13. block = [blank |-> body.length <= 1, length |-> HeaderLength + body.length,
                parts |-> body.parts, warnings |-> body.warnings]
  BY <1>1, <1>3, <1>4, <1>5, <1>6, <1>7, <1>12 DEF ReferenceBlock
<1>14. /\ block.length = head + n /\ block.parts = parts /\ block.warnings = body.warnings
       /\ block.blank <=> n <= 1
  BY <1>4, <1>8, <1>9, <1>13
<1>15. PICK m \in MessageSet : m = Message("user", block.length, block.parts)
                               /\ m.length = head + n /\ m.parts = parts
  <2>1. PICK m : m = [role |-> "user", length |-> head + n, parts |-> parts]
    OBVIOUS
  <2>2. m.length = head + n /\ m.parts = parts
    BY <2>1
  <2>3. m \in MessageSet
    BY <1>10, <2>1 DEF MessageSet
  <2> QED
    BY <1>14, <2>1, <2>2, <2>3 DEF Message
<1>16. PICK shown : shown = IF block.blank THEN <<>> ELSE << m >>
  OBVIOUS
<1>17. PICK b \in Nat : b = IF w <= 1 THEN 0 ELSE head + w
  OBVIOUS
<1>18. BlockWeight(q) = b
  BY <1>1, <1>2, <1>4, <1>17 DEF BlockWeight
<1>19. /\ shown \in Seq(MessageSet)
       /\ Weight(shown) = IF n <= 1 THEN 0 ELSE head + n
       /\ PartsOf(shown) = (IF block.blank THEN {} ELSE parts)
  <2>1. CASE block.blank
    <3>1. shown = <<>> /\ n <= 1
      BY <1>14, <1>16, <2>1
    <3>2. shown \in Seq(MessageSet) /\ Weight(shown) = 0 /\ PartsOf(shown) = {}
      BY <3>1, EmptySeq, WeightEmpty, PartsOfMessages
    <3> QED
      BY <2>1, <3>1, <3>2
  <2>2. CASE ~block.blank
    <3>1. shown = <<m>> /\ ~(n <= 1)
      BY <1>14, <1>16, <2>2
    <3>2. <<m>> \in Seq(MessageSet)
      OBVIOUS
    <3>3. Weight(<<m>>) = head + n
      BY <1>15, WeightSingle
    <3>4. PartsOf(<<m>>) = parts
      BY <1>15, PartsOfMessages
    <3> QED
      BY <2>2, <3>1, <3>2, <3>3, <3>4
  <2> QED
    BY <2>1, <2>2
<1>20. Weight(shown) \in Nat
  BY <1>19
<1>21. UsedContexts(PartsOf(shown)) = PartsOf(shown)
  <2>1. UsedContexts({}) = {}
    BY DEF UsedContexts
  <2>2. CASE block.blank
    BY <1>19, <2>1, <2>2
  <2>3. CASE ~block.blank
    BY <1>10, <1>19, <2>3
  <2> QED
    BY <2>2, <2>3
<1>22. /\ left < 0 \/ w <= left => body.warnings = {}
       /\ body.warnings = {} => n = w
  BY <1>2, <1>7, <1>8, AssembleWhole
<1>23. body.warnings = {} => Weight(shown) = b
  BY <1>17, <1>19, <1>22
<1>24. ASSUME NEW rest \in Nat, room < 0 \/ t + (b + rest) <= room
       PROVE  Weight(shown) = b
  <2>1. CASE w <= 1
    BY <1>8, <1>17, <1>19, <2>1
  <2>2. CASE ~(w <= 1)
    <3>1. room < 0 \/ spent + w <= room
      BY <1>5, <1>17, <1>24, <2>2
    <3>2. left < 0 \/ w <= left
      BY <1>6, <3>1, RemainingRoom
    <3> QED
      BY <1>22, <1>23, <3>2
  <2> QED
    BY <2>1, <2>2
<1>25. shown = IF block.blank THEN <<>> ELSE << Message("user", block.length, block.parts) >>
  BY <1>15, <1>16
<1> QED
  BY <1>3, <1>11, <1>12, <1>14, <1>18, <1>19, <1>20, <1>21, <1>23, <1>24, <1>25

LEMMA StructuredLaysOut ==
  ASSUME NEW q, RequestFields(q), q.prompt > 0, NEW limit \in Int
  PROVE  LaysOut(Structured(q, limit), limit, (SystemLength + FramingLength)
                   + (Weight(Task(q) \o Instruction) + (BlockWeight(q) + Weight(HistoryTurns(q)))))
<1>1. PICK s \in Seq(SectionSet) : s = Task(q) \o Instruction
  BY TaskAlone
<1>2. PICK w \in Nat : w = Weight(s)
  BY WeightIsNat DEF SectionSet
<1>3. PICK turns \in Seq(HistorySet) : turns = HistoryTurns(q)
  BY TurnsOfHistory
<1>4. PICK h \in Nat : h = Weight(turns)
  BY WeightIsNat, HistoryLengths
<1>5. PICK sys \in Nat : sys = SystemLength + FramingLength
  BY SystemIsNat
<1>6. PICK room \in Int : room = Remaining(limit, sys)
  BY RemainingRoom
<1>7. PICK a : a = Assemble(s, room)
  OBVIOUS
<1>8. IsTask(a) /\ a.parts \subseteq TaskNames
  BY <1>1, <1>7, TaskAlone
<1>9. PICK n \in Nat : n = a.length
  BY <1>8 DEF IsTask
<1>10. PICK block : block = ReferenceBlock(q, a, room)
  OBVIOUS
<1>11. PICK shown : shown = IF block.blank THEN <<>>
                            ELSE << Message("user", block.length, block.parts) >>
  OBVIOUS
<1>12. PICK b \in Nat : b = BlockWeight(q)
  <2>1. Reference(q, 0) \in Seq(SectionSet)
    BY ReferenceSections
  <2>2. Weight(Reference(q, 0)) \in Nat
    BY <2>1, WeightIsNat DEF SectionSet
  <2>3. BlockWeight(q) \in Nat
    BY <2>2, SystemIsNat DEF BlockWeight
  <2> QED
    BY <2>3
<1>13. /\ shown \in Seq(MessageSet) /\ Weight(shown) \in Nat
       /\ PartsOf(shown) = (IF block.blank THEN {} ELSE block.parts)
       /\ UsedContexts(PartsOf(shown)) = PartsOf(shown)
       /\ block.warnings \subseteq {"context"}
       /\ \A rest \in Nat : room < 0 \/ n + (b + rest) <= room => Weight(shown) = b
       /\ block.warnings = {} => Weight(shown) = b
  BY <1>8, <1>9, <1>10, <1>11, <1>12, ReferenceMessages
<1>14. PICK v \in Nat : v = Weight(shown)
  BY <1>13
<1>15. PICK spent \in Nat : spent = n + v
  OBVIOUS
<1>16. PICK rest \in Int : rest = Remaining(room, spent)
  BY RemainingRoom
<1>17. PICK kept \in Seq(HistorySet) : kept = TrimTurns(turns, rest)
  BY Trimmed
<1>18. PICK k \in Nat : k = Weight(kept)
  BY WeightIsNat, HistoryLengths
<1>19. PICK m : m = Message("user", a.length, a.parts)
  OBVIOUS
<1>20. PICK before \in Seq(MessageSet) : before = shown \o kept
  BY <1>13, HistoryIsMessages, ConcatProperties
<1>21. PICK ms : ms = Append(before, m)
  OBVIOUS
<1>22. /\ EndsWithTask(ms) /\ Weight(ms) = v + k + n /\ ms = shown \o kept \o << m >>
       /\ PartsOf(ms) = (PartsOf(shown) \cup HistoryUsed(turns, kept)) \cup a.parts
  <2>1. kept \in Seq(MessageSet) /\ PartsOf(kept) = HistoryUsed(turns, kept)
    BY HistoryIsMessages
  <2>2. /\ Append(before, m) = before \o <<m>> /\ EndsWithTask(Append(before, m))
        /\ Weight(Append(before, m)) = Weight(before) + a.length
        /\ PartsOf(Append(before, m)) = PartsOf(before) \cup a.parts
    BY <1>8, <1>19, TaskAtEnd
  <2>3. PartsOf(before) = PartsOf(shown) \cup PartsOf(kept)
    BY <1>13, <1>20, <2>1, PartsOfConcat
  <2>4. Weight(before) = Weight(shown) + Weight(kept)
    BY <1>13, <1>20, <2>1, WeightConcat, MessageLengths
  <2>5. Weight(ms) = v + k + n
    BY <1>9, <1>14, <1>18, <1>21, <2>2, <2>4
  <2>6. ms = before \o <<m>> /\ EndsWithTask(ms)
    BY <1>21, <2>2
  <2>7. PartsOf(ms) = (PartsOf(shown) \cup HistoryUsed(turns, kept)) \cup a.parts
    BY <1>21, <2>1, <2>2, <2>3
  <2> QED
    BY <1>20, <2>5, <2>6, <2>7
<1>23. PICK used : used = (IF block.blank THEN {} ELSE block.parts) \cup HistoryUsed(turns, kept)
  OBVIOUS
<1>24. PICK warnings : warnings = a.warnings \cup block.warnings \cup HistoryCut(turns, kept)
  OBVIOUS
<1>25. PICK l : l = Layout(sys, ms, used, warnings)
  OBVIOUS
<1>26. Structured(q, limit) = l
  BY <1>1, <1>3, <1>5, <1>6, <1>7, <1>9, <1>10, <1>11, <1>14, <1>15, <1>16, <1>17, <1>19, <1>22,
     <1>23, <1>24, <1>25 DEF Structured, Weight
<1>27. /\ l.system = sys /\ l.messages = ms /\ l.used = used /\ l.warnings = warnings
       /\ Size(l) = sys + (v + k + n)
  <2>1. /\ l.system = sys /\ l.messages = ms /\ l.used = used /\ l.warnings = warnings
        /\ Size(l) = sys + Weight(ms)
    BY <1>25, LayoutFields
  <2>2. Weight(ms) = v + k + n
    BY <1>22
  <2> QED
    BY <2>1, <2>2
<1>28. used = UsedContexts(PartsOf(ms))
  <2>1. UsedContexts(HistoryUsed(turns, kept)) = HistoryUsed(turns, kept)
    BY DEF UsedContexts, HistoryUsed
  <2>2. UsedContexts(a.parts) = {}
    BY <1>8 DEF UsedContexts, TaskNames
  <2>3. UsedContexts(PartsOf(ms)) =
          (UsedContexts(PartsOf(shown)) \cup UsedContexts(HistoryUsed(turns, kept)))
            \cup UsedContexts(a.parts)
    <3>1. PICK both : both = PartsOf(shown) \cup HistoryUsed(turns, kept)
      OBVIOUS
    <3>2. UsedContexts(PartsOf(ms)) = UsedContexts(both) \cup UsedContexts(a.parts)
      BY <1>22, <3>1, UsedOfUnion
    <3>3. UsedContexts(both) =
            UsedContexts(PartsOf(shown)) \cup UsedContexts(HistoryUsed(turns, kept))
      BY <3>1, UsedOfUnion
    <3> QED
      BY <3>2, <3>3
  <2>4. used = PartsOf(shown) \cup HistoryUsed(turns, kept)
    BY <1>13, <1>23
  <2> QED
    BY <1>13, <2>1, <2>2, <2>3, <2>4
<1>29. /\ room < 0 \/ w <= room => a.warnings = {}
       /\ a.warnings = {} => n = w
  BY <1>2, <1>7, <1>9, AssembleWhole
<1>30. rest < 0 \/ h <= rest => kept = turns
  BY <1>4, <1>17, Trimmed
<1>31. HistoryCut(turns, kept) = {} <=> kept = turns
  BY DEF HistoryCut
<1>32. kept = turns => k = h
  BY <1>4, <1>18
<1>33. ASSUME limit < 0 \/ sys + (w + (b + h)) <= limit PROVE Size(l) = sys + (w + (b + h))
  <2>1. room < 0 \/ w + (b + h) <= room
    BY <1>6, <1>33, RemainingRoom
  <2>2. n = w
    BY <1>29, <2>1
  <2>3. v = b
    BY <1>13, <1>14, <2>1, <2>2
  <2>4. room < 0 \/ spent + h <= room
    BY <1>15, <2>1, <2>2, <2>3
  <2>5. rest < 0 \/ h <= rest
    BY <1>16, <2>4, RemainingRoom
  <2> QED
    BY <1>27, <1>30, <1>32, <2>2, <2>3, <2>5
<1>34. ASSUME l.warnings = {} PROVE Size(l) = sys + (w + (b + h))
  <2>1. a.warnings = {} /\ block.warnings = {} /\ HistoryCut(turns, kept) = {}
    BY <1>24, <1>27, <1>34
  <2> QED
    BY <1>13, <1>14, <1>27, <1>29, <1>31, <1>32, <2>1
<1>35. l.warnings \subseteq {"context", "history"}
  <2>1. HistoryCut(turns, kept) \subseteq {"history"}
    BY DEF HistoryCut
  <2>2. a.warnings \subseteq {"context"}
    BY <1>8 DEF IsTask
  <2> QED
    BY <1>13, <1>24, <1>27, <2>1, <2>2
<1>36. LaysOut(l, limit, sys + (w + (b + h)))
  <2>1. Size(l) \in Nat
    BY <1>27
  <2>2. l.system \in Nat /\ EndsWithTask(l.messages) /\ l.used = UsedContexts(PartsOf(l.messages))
    BY <1>22, <1>27, <1>28
  <2> QED
    BY <1>33, <1>34, <1>35, <2>1, <2>2 DEF LaysOut
<1> QED
  BY <1>1, <1>2, <1>3, <1>4, <1>5, <1>12, <1>26, <1>36

LEMMA LayoutIsGood ==
  ASSUME NEW q, RequestFields(q), q.prompt > 0, NEW style \in Styles, NEW limit \in Int
  PROVE  LaysOut(LayoutOf(q, style, limit), limit, Size(LayoutOf(q, style, NoLimit)))
<1>1. NoLimit \in Int /\ NoLimit < 0
  BY DEF NoLimit
<1>2. CASE style = "flatten"
  <2>1. \A lim \in Int : LayoutOf(q, style, lim) = Flatten(q, lim)
    BY <1>2 DEF LayoutOf
  <2>2. PICK full : full = SystemLength + Weight(PromptSections(q, TRUE))
    OBVIOUS
  <2>3. \A lim \in Int : LaysOut(LayoutOf(q, style, lim), lim, full)
    BY <2>1, <2>2, FlattenLaysOut
  <2>4. Size(LayoutOf(q, style, NoLimit)) = full
    BY <1>1, <2>3 DEF LaysOut
  <2> QED
    BY <2>3, <2>4
<1>3. CASE style = "hybrid"
  <2>1. \A lim \in Int : LayoutOf(q, style, lim) = Hybrid(q, lim)
    BY <1>3 DEF LayoutOf
  <2>2. PICK full : full = (SystemLength + FramingLength)
                      + (Weight(PromptSections(q, FALSE)) + Weight(HistoryTurns(q)))
    OBVIOUS
  <2>3. \A lim \in Int : LaysOut(LayoutOf(q, style, lim), lim, full)
    BY <2>1, <2>2, HybridLaysOut
  <2>4. Size(LayoutOf(q, style, NoLimit)) = full
    BY <1>1, <2>3 DEF LaysOut
  <2> QED
    BY <2>3, <2>4
<1>4. CASE style = "structured"
  <2>1. \A lim \in Int : LayoutOf(q, style, lim) = Structured(q, lim)
    BY <1>4 DEF LayoutOf
  <2>2. PICK full : full = (SystemLength + FramingLength)
          + (Weight(Task(q) \o Instruction) + (BlockWeight(q) + Weight(HistoryTurns(q))))
    OBVIOUS
  <2>3. \A lim \in Int : LaysOut(LayoutOf(q, style, lim), lim, full)
    BY <2>1, <2>2, StructuredLaysOut
  <2>4. Size(LayoutOf(q, style, NoLimit)) = full
    BY <1>1, <2>3 DEF LaysOut
  <2> QED
    BY <2>3, <2>4
<1> QED
  BY <1>2, <1>3, <1>4 DEF Styles

-----------------------------------------------------------------------------
(* The budget in characters.                                                *)

LEMMA BudgetBound ==
  ASSUME NEW tokens \in Nat, tokens > 0
  PROVE  /\ CharLimit(tokens) \in Nat /\ tokens * CharsPerToken \in Nat
         /\ CharLimit(tokens) <= tokens * CharsPerToken
         /\ \A n \in Nat : n <= tokens * CharsPerToken /\ n <= MaxInt => n <= CharLimit(tokens)
<1>1. PICK c \in Nat \ {0} : c = CharsPerToken
  BY PromptAssumption
<1>2. PICK m \in Nat \ {0} : m = MaxInt
  BY PromptAssumption
<1>3. PICK q \in Int : q = m \div c
  OBVIOUS
<1>4. PICK p \in Nat : p = tokens * c
  <2>1. tokens * c \in Nat
    OBVIOUS
  <2> QED
    BY <2>1
<1>5. CASE tokens > q
  <2>1. m < (q + 1) * c
    BY <1>3
  <2>2. q + 1 <= tokens
    BY <1>5
  <2>3. (q + 1) * c <= tokens * c
    BY <2>2
  <2>4. m <= p
    BY <1>4, <2>1, <2>3
  <2>5. CharLimit(tokens) = m
    BY <1>1, <1>2, <1>3, <1>5 DEF CharLimit
  <2> QED
    BY <1>1, <1>2, <1>4, <2>4, <2>5
<1>6. CASE ~(tokens > q)
  <2>1. CharLimit(tokens) = p
    BY <1>1, <1>2, <1>3, <1>4, <1>6 DEF CharLimit
  <2> QED
    BY <1>1, <1>4, <2>1
<1> QED
  BY <1>5, <1>6

LEMMA LimitIsInt ==
  ASSUME NEW tokens \in Int
  PROVE  CharLimit(tokens) \in Int /\ (tokens <= 0 => CharLimit(tokens) < 0)
<1>1. CASE tokens <= 0
  BY <1>1 DEF CharLimit, NoLimit
<1>2. CASE ~(tokens <= 0)
  BY <1>2, BudgetBound
<1> QED
  BY <1>1, <1>2

-----------------------------------------------------------------------------
(* toAnthropicMessages.                                                     *)

\* One turn after those merged so far.
Merged(merged, m) ==
  IF merged # <<>> /\ Last(merged).role = m.role
  THEN Append(Front(merged), Message(m.role, Last(merged).length + 2 + m.length,
                                     Last(merged).parts \cup m.parts))
  ELSE Append(merged, m)

\* The roles take turns and the user is first.
Alternates(messages) ==
  /\ messages \in Seq(MessageSet) /\ Len(messages) > 0
  /\ messages[1].role = "user"
  /\ \A k \in 1..(Len(messages) - 1) : messages[k].role # messages[k + 1].role

Reaches(messages, m) ==
  /\ messages[Len(messages)].role = m.role
  /\ m.parts \subseteq messages[Len(messages)].parts

LEMMA MergeTakesTurns ==
  ASSUME NEW list \in Seq(MessageSet), NEW m \in MessageSet
  PROVE  /\ Merged(list, m) \in Seq(MessageSet)
         /\ list = <<>> /\ m.role = "user" => Alternates(Merged(list, m))
         /\ Alternates(list) => Alternates(Merged(list, m))
         /\ Reaches(Merged(list, m), m)
<1>1. PICK N \in Nat : N = Len(list)
  BY LenProperties
<1>2. PICK r : r = Merged(list, m)
  OBVIOUS
<1>3. CASE list # <<>> /\ Last(list).role = m.role
  <2>1. N > 0 /\ Last(list) = list[N]
    BY <1>1, <1>3, EmptySeq DEF Last
  <2>2. list[N] \in MessageSet
    BY <1>1, <2>1, ElementOfSeq
  <2>3. PICK e \in MessageSet :
          /\ e = Message(m.role, list[N].length + 2 + m.length, list[N].parts \cup m.parts)
          /\ e.role = m.role /\ m.parts \subseteq e.parts
    <3>1. PICK e : e = [role |-> m.role, length |-> list[N].length + 2 + m.length,
                        parts |-> list[N].parts \cup m.parts]
      OBVIOUS
    <3>2. e.role = m.role /\ m.parts \subseteq e.parts
      BY <3>1
    <3>3. list[N].length \in Nat /\ m.length \in Nat
      BY <2>2, MessageLengths
    <3>4. list[N].length + 2 + m.length \in Nat
      BY <3>3
    <3>5. m.role \in {"user", "assistant"}
      BY DEF MessageSet
    <3>6. list[N].parts \cup m.parts \in SUBSET SectionNames
      BY <2>2 DEF MessageSet
    <3>7. e \in MessageSet
      BY <3>1, <3>4, <3>5, <3>6 DEF MessageSet
    <3> QED
      BY <3>1, <3>2, <3>7 DEF Message
  <2>4. PICK front \in Seq(MessageSet) :
          /\ front = Front(list) /\ Len(front) = N - 1
          /\ \A k \in 1..(N - 1) : front[k] = list[k]
    <3>1. \A k \in 1..(N - 1) : list[k] \in MessageSet
      BY <1>1, ElementOfSeq
    <3>2. /\ SubSeq(list, 1, N - 1) \in Seq(MessageSet)
          /\ Len(SubSeq(list, 1, N - 1)) = IF 1 <= N - 1 THEN (N - 1) - 1 + 1 ELSE 0
          /\ \A k \in 1..((N - 1) - 1 + 1) : SubSeq(list, 1, N - 1)[k] = list[1 + k - 1]
      BY <3>1, SubSeqProperties
    <3>3. Len(SubSeq(list, 1, N - 1)) = N - 1
      BY <2>1, <3>2
    <3>4. \A k \in 1..(N - 1) : SubSeq(list, 1, N - 1)[k] = list[k]
      BY <3>2
    <3> QED
      BY <1>1, <3>2, <3>3, <3>4 DEF Front
  <2>5. r = Append(front, e)
    BY <1>2, <1>3, <2>1, <2>3, <2>4 DEF Merged
  <2>6. /\ r \in Seq(MessageSet) /\ Len(r) = N /\ r[N] = e
        /\ \A k \in 1..(N - 1) : r[k] = list[k]
    <3>1. /\ Append(front, e) \in Seq(MessageSet) /\ Len(Append(front, e)) = Len(front) + 1
          /\ \A k \in 1..Len(front) : Append(front, e)[k] = front[k]
          /\ Append(front, e)[Len(front) + 1] = e
      BY AppendProperties
    <3>2. Len(front) + 1 = N
      BY <2>4
    <3> QED
      BY <2>4, <2>5, <3>1, <3>2
  <2>7. \A k \in 1..N : r[k].role = list[k].role
    <3>1. r[N].role = list[N].role
      BY <1>3, <2>1, <2>3, <2>6
    <3> QED
      BY <2>6, <3>1
  <2>8. Alternates(list) => Alternates(r)
    <3>1. 1 \in 1..N /\ \A k \in 1..(N - 1) : k \in 1..N /\ k + 1 \in 1..N
      BY <2>1
    <3> QED
      BY <1>1, <2>1, <2>6, <2>7, <3>1 DEF Alternates
  <2>9. Reaches(r, m)
    BY <2>3, <2>6 DEF Reaches
  <2> QED
    BY <1>2, <1>3, <2>6, <2>8, <2>9
<1>4. CASE ~(list # <<>> /\ Last(list).role = m.role)
  <2>1. r = Append(list, m)
    BY <1>2, <1>4 DEF Merged
  <2>2. /\ r \in Seq(MessageSet) /\ Len(r) = N + 1 /\ r[N + 1] = m
        /\ \A k \in 1..N : r[k] = list[k]
    BY <1>1, <2>1, AppendProperties
  <2>3. Reaches(r, m)
    BY <2>2 DEF Reaches
  <2>4. ASSUME list = <<>>, m.role = "user" PROVE Alternates(r)
    <3>1. N = 0
      BY <1>1, <2>4, EmptySeq
    <3> QED
      BY <2>2, <2>4, <3>1 DEF Alternates
  <2>5. ASSUME Alternates(list) PROVE Alternates(r)
    <3>1. N > 0 /\ list[1].role = "user"
          /\ \A k \in 1..(N - 1) : list[k].role # list[k + 1].role
      BY <1>1, <2>5 DEF Alternates
    <3>2. list # <<>>
      BY <1>1, <3>1, EmptySeq
    <3>3. list[N].role # m.role
      BY <1>1, <1>4, <3>2 DEF Last
    <3>4. r[1].role = "user"
      BY <2>2, <3>1
    <3>5. ASSUME NEW k \in 1..N PROVE r[k].role # r[k + 1].role
      <4>1. CASE k = N
        BY <2>2, <3>3, <4>1
      <4>2. CASE k # N
        <5>1. k \in 1..(N - 1) /\ k + 1 \in 1..N
          BY <4>2
        <5> QED
          BY <2>2, <3>1, <5>1
      <4> QED
        BY <4>1, <4>2
    <3> QED
      BY <2>2, <3>4, <3>5 DEF Alternates
  <2> QED
    BY <1>2, <2>2, <2>3, <2>4, <2>5
<1> QED
  BY <1>3, <1>4

MergeAll(rest) ==
  LET upTo[n \in 0..Len(rest)] == IF n = 0 THEN <<>> ELSE Merged(upTo[n - 1], rest[n])
  IN  upTo[Len(rest)]

\* Anthropic gets roles in turn, the user first, and the whole task last.
LEMMA AnthropicTakesTurns ==
  ASSUME NEW messages, EndsWithTask(messages)
  PROVE  Alternates(AnthropicMessages(messages)) /\ EndsWithTask(AnthropicMessages(messages))
<1>1. PICK M \in Nat \ {0} : M = Len(messages) /\ DOMAIN messages = 1..M
  BY LenProperties DEF EndsWithTask
<1>2. PICK first \in 1..M :
        /\ messages[first].role = "user"
        /\ first = CHOOSE n \in DOMAIN messages :
             messages[n].role = "user" /\ \A k \in 1..(n - 1) : messages[k].role # "user"
  <2>1. PICK S : S = {n \in 1..M : messages[n].role = "user"}
    OBVIOUS
  <2>2. M \in S /\ S \subseteq Nat
    BY <1>1, <2>1 DEF EndsWithTask
  <2>3. PICK n \in S : \A j \in S : n <= j
    BY <2>2, Least
  <2>4. \A k \in 1..(n - 1) : messages[k].role # "user"
    BY <2>1, <2>3
  <2>5. \E k \in 1..M : messages[k].role = "user" /\ \A j \in 1..(k - 1) : messages[j].role # "user"
    BY <2>1, <2>3, <2>4
  <2> QED
    BY <1>1, <2>5
<1>3. PICK N \in Nat \ {0} : N = M - first + 1
  OBVIOUS
<1>4. PICK rest \in Seq(MessageSet) :
        /\ rest = SubSeq(messages, first, Len(messages)) /\ Len(rest) = N
        /\ rest[1] = messages[first] /\ rest[N] = messages[M]
        /\ \A n \in 1..N : rest[n] \in MessageSet
  <2>1. \A i \in first..M : messages[i] \in MessageSet
    BY <1>1, ElementOfSeq DEF EndsWithTask
  <2>2. /\ SubSeq(messages, first, M) \in Seq(MessageSet)
        /\ Len(SubSeq(messages, first, M)) = IF first <= M THEN M - first + 1 ELSE 0
        /\ \A i \in 1..(M - first + 1) : SubSeq(messages, first, M)[i] = messages[first + i - 1]
    BY <2>1, SubSeqProperties
  <2>3. PICK rest \in Seq(MessageSet) : rest = SubSeq(messages, first, M)
    BY <2>2
  <2>4. Len(rest) = N /\ \A i \in 1..N : rest[i] = messages[first + i - 1]
    BY <1>3, <2>2, <2>3
  <2>5. rest[1] = messages[first] /\ rest[N] = messages[M]
    <3>1. 1 \in 1..N /\ N \in 1..N /\ first + 1 - 1 = first /\ first + N - 1 = M
      BY <1>3
    <3> QED
      BY <2>4, <3>1
  <2>6. \A n \in 1..N : rest[n] \in MessageSet
    BY <2>4, ElementOfSeq
  <2> QED
    BY <1>1, <2>3, <2>4, <2>5, <2>6
<1> DEFINE More(f) == [n \in 0..N |-> IF n = 0 THEN <<>> ELSE Merged(f[n - 1], rest[n])]
           upTo == CHOOSE f : f = More(f)
<1>5. AnthropicMessages(messages) = upTo[N]
  <2>1. AnthropicMessages(messages) =
          MergeAll(SubSeq(messages, CHOOSE n \in DOMAIN messages :
                            /\ messages[n].role = "user"
                            /\ \A k \in 1..(n - 1) : messages[k].role # "user",
                          Len(messages)))
    BY DEF AnthropicMessages, MergeAll, Merged
  <2>2. AnthropicMessages(messages) = MergeAll(rest)
    BY <1>2, <1>4, <2>1
  <2> QED
    BY <1>4, <2>2 DEF MergeAll
<1>6. \E f : f = More(f)
  <2> DEFINE V == Seq(MessageSet)
             step == [p \in V \X Nat |-> IF p[2] \in 1..N THEN Merged(p[1], rest[p[2]]) ELSE p[1]]
  <2>1. ASSUME NEW v \in V, NEW n \in 1..N PROVE Merged(v, rest[n]) \in V
    BY <1>4, MergeTakesTurns
  <2>2. <<>> \in V
    BY EmptySeq
  <2> HIDE DEF V
  <2>3. step \in [V \X Nat -> V]
    BY <2>1
  <2>4. ASSUME NEW v \in V, NEW n \in 1..N PROVE step[<<v, n>>] = Merged(v, rest[n])
    OBVIOUS
  <2> HIDE DEF step
  <2>5. PICK f : Folds(f, N, V, <<>>, step)
    BY <2>2, <2>3, RecursionUpTo
  <2>6. ASSUME NEW n \in 0..N
        PROVE  f[n] = IF n = 0 THEN <<>> ELSE Merged(f[n - 1], rest[n])
    <3>1. CASE n = 0
      BY <2>5, <3>1 DEF Folds
    <3>2. CASE n # 0
      <4>1. n - 1 \in 0..N /\ n \in 1..N
        BY <3>2
      <4>2. f[n - 1] \in V /\ f[n] = step[<<f[n - 1], n>>]
        BY <2>5, <4>1 DEF Folds
      <4> QED
        BY <2>4, <3>2, <4>1, <4>2
    <3> QED
      BY <3>1, <3>2
  <2>7. f = [n \in 0..N |-> f[n]]
    BY <2>5 DEF Folds
  <2>8. f = More(f)
    BY <2>6, <2>7
  <2> QED
    BY <2>8
<1>7. upTo = More(upTo)
  BY <1>6
<1> HIDE DEF upTo
<1>8. upTo[0] = <<>> /\ \A n \in 1..N : upTo[n] = Merged(upTo[n - 1], rest[n])
  BY <1>7
<1>9. upTo[1] \in Seq(MessageSet) /\ Alternates(upTo[1]) /\ Reaches(upTo[1], rest[1])
  <2>1. upTo[1] = Merged(<<>>, rest[1])
    BY <1>8
  <2>2. rest[1] \in MessageSet /\ rest[1].role = "user"
    <3>1. 1 \in 1..N
      OBVIOUS
    <3> QED
      BY <1>2, <1>4, <3>1
  <2>3. PICK e \in Seq(MessageSet) : e = <<>>
    BY EmptySeq
  <2> QED
    BY <2>1, <2>2, <2>3, MergeTakesTurns
<1>10. \A n \in 1..N : Alternates(upTo[n]) /\ Reaches(upTo[n], rest[n])
  <2> DEFINE S == {n \in 0..N : n > 0 => Alternates(upTo[n]) /\ Reaches(upTo[n], rest[n])}
  <2>1. 0 \in S
    OBVIOUS
  <2>2. ASSUME NEW n \in Nat, n < N, n \in S PROVE n + 1 \in S
    <3>1. CASE n = 0
      BY <1>9, <3>1
    <3>2. CASE n # 0
      <4>1. n + 1 \in 1..N /\ (n + 1) - 1 = n /\ n + 1 \in 0..N
        BY <2>2
      <4>2. upTo[n + 1] = Merged(upTo[n], rest[n + 1])
        BY <1>8, <4>1
      <4>3. Alternates(upTo[n]) /\ upTo[n] \in Seq(MessageSet)
        BY <2>2, <3>2 DEF Alternates
      <4>4. rest[n + 1] \in MessageSet
        BY <1>4, <4>1
      <4>5. Alternates(upTo[n + 1]) /\ Reaches(upTo[n + 1], rest[n + 1])
        BY <4>2, <4>3, <4>4, MergeTakesTurns
      <4> QED
        BY <4>1, <4>5
    <3> QED
      BY <3>1, <3>2
  <2> HIDE DEF S
  <2>3. \A n \in 0..N : n \in S
    BY <2>1, <2>2, UpTo
  <2> QED
    BY <2>3 DEF S
<1>11. PICK w : w = upTo[N]
  OBVIOUS
<1>12. Alternates(w) /\ Reaches(w, rest[N])
  BY <1>10, <1>11
<1>13. EndsWithTask(w)
  BY <1>1, <1>4, <1>12 DEF EndsWithTask, Alternates, Reaches
<1> QED
  BY <1>5, <1>11, <1>12, <1>13

-----------------------------------------------------------------------------
(* The invariant.                                                           *)

ReferenceNames == {"rules", "guidelines", "history", "context.files", "context.retrieval"}

FirstOf(c) == LayoutOf(c, c.style, Limit(c))
Accepted(c) == c.prompt > 0 /\ c.budget >= 0

\* The request is one the service was given, until it has retrieved.
CaseInv ==
  /\ case \in Request /\ FullSize(case) <= MaxInt
  /\ pc \in {"ready", "post", "sleep"} => case \in Cases
  /\ pc \in {"post", "sleep", "build", "complete", "reanchor"} => Accepted(case)

\* What has been sent is the layout of the request, twice at most.
SentFor(c, s) ==
  \/ s = <<>>
  \/ /\ Accepted(c) /\ (Limit(c) >= 0 => Size(FirstOf(c)) <= Limit(c))
     /\ \/ s = <<FirstOf(c)>>
        \/ \E second : s = <<FirstOf(c), second>> /\ second.messages = FirstOf(c).messages

SentInv ==
  /\ SentFor(case, sent)
  /\ pc \in {"ready", "post", "sleep", "build"} => sent = <<>>
  /\ pc = "complete" => sent = <<FirstOf(case)>>
  /\ pc = "reanchor" => sent # <<>>

\* A first answer is kept only for the guard, which found it in another script.
ReplyInv ==
  /\ reply \in Texts \cup {None}
  /\ pc \in {"ready", "post", "sleep", "build", "complete"} => reply = None
  /\ pc = "reanchor" => reply \in Texts /\ Mismatch(case, reply)

\* What a response says of the layout, the text and the first answer.
Answered(c, s, first, r) ==
  /\ r \in Response /\ r.kind = "ok" /\ r.text \in Texts /\ first \in Texts /\ s # <<>>
  /\ r.used = FirstOf(c).used
  /\ \E w \in {{}, {"language"}} :
       /\ r.warnings = (FirstOf(c).warnings \cup w) \cup ContentWarnings(c, r.text)
       /\ "language" \in w <=> Mismatch(c, r.text)
  /\ r.text # first => ClassifyScript(r.text) = ClassifyScript(c.text)

Failed(c, first, r) ==
  /\ r \in Response /\ r.kind # "ok" /\ first = None
  /\ r.kind = "budget" =>
       Accepted(c) /\ Limit(c) >= 0 /\ Size(FirstOf(c)) > Limit(c)

ResultInv ==
  /\ pc \in {"ready", "post", "sleep", "build", "complete", "reanchor", "done"}
  /\ pc = "done" <=> result # None
  /\ result # None => Answered(case, sent, reply, result) \/ Failed(case, reply, result)

\* The attempts and the delays so far.
RetryInv ==
  /\ alive \in BOOLEAN /\ attempt \in Nat /\ waited \in Nat
  /\ attempt <= case.retries + 1
  /\ MaxDelay > 0 => waited <= case.retries * MaxDelay
  /\ pc \in {"ready", "post", "sleep"} =>
       /\ attempt <= case.retries
       /\ MaxDelay > 0 => waited <= attempt * MaxDelay

EnhancerInv == CaseInv /\ SentInv /\ ReplyInv /\ ResultInv /\ RetryInv

-----------------------------------------------------------------------------
(* Facts about a request.                                                   *)

LEMMA RequestParts ==
  ASSUME NEW c \in Request
  PROVE  /\ RequestFields(c) /\ c.budget \in Int /\ c.style \in Styles
         /\ c.retrieval \in Nat /\ c.found \in Nat /\ c.retries \in Nat
         /\ c.text \in Answer /\ c.prompt \in Nat
BY FieldsOfRequest DEF Request

LEMMA Retrieving ==
  ASSUME NEW c \in Request, NEW n \in Nat
  PROVE  /\ [c EXCEPT !.retrieval = n] \in Request
         /\ [c EXCEPT !.retrieval = n].prompt = c.prompt
         /\ [c EXCEPT !.retrieval = n].budget = c.budget
         /\ [c EXCEPT !.retrieval = n].retries = c.retries
         /\ [c EXCEPT !.retrieval = c.retrieval] = c
BY DEF Request

LEMMA CasesFit ==
  ASSUME NEW c \in Cases
  PROVE  /\ c \in Request /\ FullSize(c) <= MaxInt
         /\ \A n \in {0, c.found} : FullSize([c EXCEPT !.retrieval = n]) <= MaxInt
<1>1. c \in Request
  BY EnhancerAssumption
<1>2. [c EXCEPT !.retrieval = c.retrieval] = c
  BY <1>1, Retrieving, RequestParts
<1>3. FullSize([c EXCEPT !.retrieval = c.retrieval]) <= MaxInt
  BY LengthAssumption
<1>4. \A n \in {0, c.found} : FullSize([c EXCEPT !.retrieval = n]) <= MaxInt
  BY LengthAssumption
<1> QED
  BY <1>1, <1>2, <1>3, <1>4

LEMMA FirstIsGood ==
  ASSUME NEW c \in Request, c.prompt > 0
  PROVE  /\ LaysOut(FirstOf(c), Limit(c), FullSize(c))
         /\ Limit(c) \in Int /\ FullSize(c) \in Nat
         /\ FirstOf(c).warnings \in SUBSET {"context", "history"}
         /\ FirstOf(c).used \in SUBSET ReferenceNames
<1>1. RequestFields(c) /\ c.style \in Styles /\ c.budget \in Int
  BY RequestParts
<1>2. Limit(c) \in Int
  BY <1>1, LimitIsInt DEF Limit
<1>3. LaysOut(FirstOf(c), Limit(c), FullSize(c))
  BY <1>1, <1>2, LayoutIsGood DEF FirstOf, FullSize
<1>4. FullSize(c) \in Nat
  <2>1. LaysOut(LayoutOf(c, c.style, NoLimit), NoLimit, FullSize(c))
    BY <1>1, LayoutIsGood DEF NoLimit, FullSize
  <2> QED
    BY <2>1 DEF LaysOut, FullSize
<1>5. FirstOf(c).used \in SUBSET ReferenceNames
  <2>1. PICK ms \in Seq(MessageSet) : ms = FirstOf(c).messages
    BY <1>3 DEF LaysOut, EndsWithTask
  <2>2. FirstOf(c).used = UsedContexts(PartsOf(ms))
    BY <1>3, <2>1 DEF LaysOut
  <2>3. PartsOf(ms) \subseteq SectionNames
    <3>1. \A m \in ToSet(ms) : m \in MessageSet
      BY LenProperties, ElementOfSeq DEF ToSet
    <3>2. \A m \in MessageSet : m.parts \subseteq SectionNames
      BY DEF MessageSet
    <3> QED
      BY <3>1, <3>2 DEF PartsOf
  <2> QED
    BY <2>2, <2>3 DEF UsedContexts, SectionNames, TaskNames, ReferenceNames
<1>6. FirstOf(c).warnings \in SUBSET {"context", "history"}
  BY <1>3 DEF LaysOut
<1> QED
  BY <1>2, <1>3, <1>4, <1>5, <1>6

LEMMA ContentWarningsSay ==
  ASSUME NEW c, NEW text
  PROVE  /\ ContentWarnings(c, text) \in SUBSET {"numbers", "actions"}
         /\ c.warnings => /\ "numbers" \in ContentWarnings(c, text) <=>
                               FabricatedNumbers(c, text) # {}
                          /\ "actions" \in ContentWarnings(c, text) <=>
                               UndecidedActions(c, text) # {}
BY DEF ContentWarnings

\* A delay is no longer than the longest.
LEMMA DelaysAreBounded ==
  ASSUME NEW asked \in RetryAfters, NEW n \in Nat, NEW d \in RetryDelays(asked, n)
  PROVE  d \in Nat /\ (MaxDelay > 0 => d <= MaxDelay)
<1>1. BaseDelay \in Nat /\ MaxDelay \in Nat /\ Jitter \in Nat /\ asked \in Nat
  BY EnhancerAssumption
<1>2. DelayBase(asked, n) \in Nat
  <2> DEFINE More(f) == [k \in 0..n |-> IF k = 0 THEN BaseDelay ELSE 2 * f[k - 1]]
             doubled == CHOOSE f : f = More(f)
  <2>1. DelayBase(asked, n) =
          IF asked > 0 THEN asked
          ELSE IF MaxDelay > 0 THEN AtMost(MaxDelay, doubled[n]) ELSE doubled[n]
    BY DEF DelayBase
  <2>2. \E f : f = More(f)
    <3> DEFINE step == [p \in Nat \X Nat |-> 2 * p[1]]
    <3>1. step \in [Nat \X Nat -> Nat]
      OBVIOUS
    <3>2. \A x, k \in Nat : step[<<x, k>>] = 2 * x
      OBVIOUS
    <3> HIDE DEF step
    <3>3. PICK f : Folds(f, n, Nat, BaseDelay, step)
      BY <1>1, <3>1, RecursionUpTo
    <3>4. ASSUME NEW k \in 0..n
          PROVE  f[k] = IF k = 0 THEN BaseDelay ELSE 2 * f[k - 1]
      <4>1. CASE k = 0
        BY <3>3, <4>1 DEF Folds
      <4>2. CASE k # 0
        <5>1. k - 1 \in 0..n /\ k \in 1..n /\ k \in Nat
          BY <4>2
        <5>2. f[k - 1] \in Nat /\ f[k] = step[<<f[k - 1], k>>]
          BY <3>3, <5>1 DEF Folds
        <5> QED
          BY <3>2, <4>2, <5>1, <5>2
      <4> QED
        BY <4>1, <4>2
    <3>5. f = [k \in 0..n |-> f[k]]
      BY <3>3 DEF Folds
    <3>6. f = More(f)
      BY <3>4, <3>5
    <3> QED
      BY <3>6
  <2>3. doubled = More(doubled)
    BY <2>2
  <2> HIDE DEF doubled
  <2>4. doubled[0] = BaseDelay /\ \A k \in 1..n : doubled[k] = 2 * doubled[k - 1]
    BY <2>3
  <2>5. \A k \in 0..n : doubled[k] \in Nat
    <3> DEFINE S == {k \in 0..n : doubled[k] \in Nat}
    <3>1. 0 \in S
      BY <1>1, <2>4
    <3>2. ASSUME NEW k \in Nat, k < n, k \in S PROVE k + 1 \in S
      <4>1. k + 1 \in 1..n /\ k + 1 \in 0..n /\ (k + 1) - 1 = k
        BY <3>2
      <4>2. doubled[k + 1] = 2 * doubled[k]
        BY <2>4, <4>1
      <4> QED
        BY <3>2, <4>1, <4>2
    <3> HIDE DEF S
    <3>3. \A k \in 0..n : k \in S
      BY <3>1, <3>2, UpTo
    <3> QED
      BY <3>3 DEF S
  <2>6. doubled[n] \in Nat
    BY <2>5
  <2> QED
    BY <1>1, <2>1, <2>6 DEF AtMost
<1>3. CASE asked = 0 /\ BaseDelay = 0
  BY <1>1, <1>3 DEF RetryDelays
<1>4. CASE ~(asked = 0 /\ BaseDelay = 0)
  <2>1. PICK j \in Nat : d = IF MaxDelay > 0 THEN AtMost(MaxDelay, DelayBase(asked, n) + j)
                             ELSE DelayBase(asked, n) + j
    BY <1>1, <1>4 DEF RetryDelays
  <2>2. PICK t \in Nat : t = DelayBase(asked, n) + j
    BY <1>2
  <2> QED
    BY <1>1, <2>1, <2>2 DEF AtMost
<1> QED
  BY <1>3, <1>4

-----------------------------------------------------------------------------
(* Every step keeps the invariant.                                          *)

\* A response that reports a failure.
FailureOf(kind) == [kind |-> kind, text |-> None, warnings |-> {}, used |-> {}]

LEMMA FailureIsResponse ==
  ASSUME NEW kind \in {"configuration", "validation", "retrieval", "budget", "provider"}
  PROVE  FailureOf(kind) \in Response /\ FailureOf(kind).kind = kind
         /\ FailureOf(kind) # None
<1>1. PICK r : r = FailureOf(kind)
  OBVIOUS
<1>2. r \in Response /\ r.kind = kind
  BY <1>1 DEF FailureOf, Response
<1> QED
  BY <1>1, <1>2, EnhancerAssumption

\* A step that fails with something other than the budget.
LEMMA FailKeeps ==
  ASSUME EnhancerInv, pc \in {"ready", "post", "sleep", "build", "complete"},
         NEW kind \in {"configuration", "validation", "retrieval", "provider"},
         Fail(kind), case' = case, sent' = sent, reply' = reply
  PROVE  CaseInv' /\ SentInv' /\ ReplyInv' /\ ResultInv'
<1>1. pc' = "done" /\ result' = FailureOf(kind)
  BY DEF Fail, FailureOf
<1>2. result' \in Response /\ result'.kind = kind /\ result' # None
  BY <1>1, FailureIsResponse
<1>3. CaseInv'
  BY <1>1 DEF EnhancerInv, CaseInv
<1>4. SentInv'
  BY <1>1 DEF EnhancerInv, SentInv
<1>5. ReplyInv' /\ reply = None
  BY <1>1 DEF EnhancerInv, ReplyInv
<1>6. ResultInv'
  <2>1. Failed(case', reply', result')
    BY <1>2, <1>5 DEF Failed
  <2> QED
    BY <1>1, <1>2, <2>1 DEF ResultInv
<1> QED
  BY <1>3, <1>4, <1>5, <1>6

\* A step that goes on without an answer.
LEMMA GoesOn ==
  ASSUME EnhancerInv, NEW next, next \in {"post", "sleep", "build"}, pc' = next,
         pc \in {"ready", "post", "sleep"}, Accepted(case),
         case' = case, sent' = sent, reply' = reply, result' = result
  PROVE  CaseInv' /\ SentInv' /\ ReplyInv' /\ ResultInv'
<1>1. CaseInv'
  BY DEF EnhancerInv, CaseInv
<1>2. SentInv'
  BY DEF EnhancerInv, SentInv
<1>3. ReplyInv'
  BY DEF EnhancerInv, ReplyInv
<1>4. ResultInv'
  BY DEF EnhancerInv, ResultInv
<1> QED
  BY <1>1, <1>2, <1>3, <1>4

LEMMA InitHolds == Init => EnhancerInv
<1> SUFFICES ASSUME Init PROVE EnhancerInv
  OBVIOUS
<1>1. case \in Cases /\ case \in Request /\ FullSize(case) <= MaxInt
  BY CasesFit DEF Init
<1>2. CaseInv
  BY <1>1 DEF Init, CaseInv
<1>3. SentInv
  BY DEF Init, SentInv, SentFor
<1>4. ReplyInv
  BY DEF Init, ReplyInv
<1>5. ResultInv
  BY DEF Init, ResultInv
<1>6. RetryInv
  <2>1. case.retries \in Nat
    BY <1>1, RequestParts
  <2>2. MaxDelay \in Nat
    BY EnhancerAssumption
  <2>3. 0 <= case.retries * MaxDelay /\ 0 <= 0 * MaxDelay
    BY <2>1, <2>2
  <2> QED
    BY <2>1, <2>2, <2>3 DEF Init, RetryInv
<1> QED
  BY <1>2, <1>3, <1>4, <1>5, <1>6 DEF EnhancerInv

LEMMA StartKeeps ==
  ASSUME EnhancerInv, Start
  PROVE  EnhancerInv'
<1>1. /\ pc = "ready" /\ case' = case /\ alive' = alive /\ attempt' = attempt
      /\ waited' = waited /\ sent' = sent /\ reply' = reply
  BY DEF Start
<1>2. case \in Request
  BY DEF EnhancerInv, CaseInv
<1>3. case.prompt \in Nat /\ case.budget \in Int
  BY <1>2, RequestParts
<1>4. RetryInv'
  BY <1>1 DEF EnhancerInv, RetryInv
<1>5. CASE ~case.configured \/ case.prompt = 0 \/ case.budget < 0
  <2>1. Fail("configuration") \/ Fail("validation")
    BY <1>5 DEF Start
  <2> QED
    BY <1>1, <1>4, <2>1, FailKeeps DEF EnhancerInv
<1>6. CASE ~(~case.configured \/ case.prompt = 0 \/ case.budget < 0)
  <2>1. Accepted(case)
    BY <1>3, <1>6 DEF Accepted
  <2>2. pc' \in {"post", "build"} /\ result' = result
    BY <1>6 DEF Start
  <2> QED
    BY <1>1, <1>4, <2>1, <2>2, GoesOn DEF EnhancerInv
<1> QED
  BY <1>5, <1>6

LEMMA RetrievedKeeps ==
  ASSUME EnhancerInv, Retrieved
  PROVE  EnhancerInv'
<1>1. /\ pc = "post" /\ pc' = "build" /\ attempt' = attempt + 1 /\ alive' = alive
      /\ waited' = waited /\ sent' = sent /\ reply' = reply /\ result' = result
  BY DEF Retrieved
<1>2. case \in Cases /\ case \in Request /\ Accepted(case)
  BY <1>1 DEF EnhancerInv, CaseInv
<1>3. PICK length \in {0, case.found} : case' = [case EXCEPT !.retrieval = length]
  BY DEF Retrieved
<1>4. length \in Nat
  BY <1>2, RequestParts
<1>5. /\ case' \in Request /\ case'.prompt = case.prompt /\ case'.budget = case.budget
      /\ case'.retries = case.retries
  BY <1>2, <1>3, <1>4, Retrieving
<1>6. FullSize(case') <= MaxInt
  BY <1>2, <1>3, CasesFit
<1>7. CaseInv'
  <2>1. Accepted(case') /\ FullSize(case)' = FullSize(case')
    BY <1>2, <1>5 DEF Accepted
  <2> QED
    BY <1>1, <1>5, <1>6, <2>1 DEF CaseInv
<1>8. SentInv'
  BY <1>1 DEF EnhancerInv, SentInv, SentFor
<1>9. ReplyInv'
  BY <1>1 DEF EnhancerInv, ReplyInv
<1>10. ResultInv'
  BY <1>1 DEF EnhancerInv, ResultInv
<1>11. RetryInv'
  <2>1. case.retries \in Nat
    BY <1>2, RequestParts
  <2> QED
    BY <1>1, <1>5, <2>1 DEF EnhancerInv, RetryInv
<1> QED
  BY <1>7, <1>8, <1>9, <1>10, <1>11 DEF EnhancerInv

LEMMA RetrieveFailsKeeps ==
  ASSUME EnhancerInv, RetrieveFails
  PROVE  EnhancerInv'
<1>1. /\ pc = "post" /\ Fail("retrieval") /\ pc' = "done" /\ attempt' = attempt + 1
      /\ case' = case /\ alive' = alive /\ waited' = waited /\ sent' = sent /\ reply' = reply
  BY DEF RetrieveFails, Fail
<1>2. case.retries \in Nat
  BY RequestParts DEF EnhancerInv, CaseInv
<1>3. RetryInv'
  BY <1>1, <1>2 DEF EnhancerInv, RetryInv
<1> QED
  BY <1>1, <1>3, FailKeeps DEF EnhancerInv

LEMMA RetrieveTransientKeeps ==
  ASSUME EnhancerInv, RetrieveTransient
  PROVE  EnhancerInv'
<1>1. /\ pc = "post" /\ attempt' = attempt + 1 /\ case' = case /\ alive' = alive
      /\ sent' = sent /\ reply' = reply
  BY DEF RetrieveTransient
<1>2. PICK r \in Nat : r = case.retries
  BY RequestParts DEF EnhancerInv, CaseInv
<1>3. PICK longest \in Nat : longest = MaxDelay
  BY EnhancerAssumption
<1>4. /\ attempt \in Nat /\ attempt <= r /\ waited \in Nat /\ alive \in BOOLEAN
      /\ longest > 0 => waited <= attempt * longest
      /\ longest > 0 => waited <= r * longest
  BY <1>1, <1>2, <1>3 DEF EnhancerInv, RetryInv
<1>5. CASE attempt = case.retries
  <2>1. Fail("retrieval") /\ waited' = waited /\ pc' = "done"
    BY <1>5 DEF RetrieveTransient, Fail
  <2>2. RetryInv'
    BY <1>1, <1>2, <1>3, <1>4, <2>1 DEF RetryInv
  <2> QED
    BY <1>1, <2>1, <2>2, FailKeeps DEF EnhancerInv
<1>6. CASE attempt # case.retries
  <2>1. pc' = "sleep" /\ result' = result
    BY <1>6 DEF RetrieveTransient
  <2>2. PICK asked \in RetryAfters : \E d \in RetryDelays(asked, attempt) : waited' = waited + d
    BY <1>6 DEF RetrieveTransient
  <2>3. PICK d \in RetryDelays(asked, attempt) : waited' = waited + d
    BY <2>2
  <2>4. d \in Nat /\ (longest > 0 => d <= longest)
    BY <1>3, <1>4, <2>3, DelaysAreBounded
  <2>5. attempt + 1 <= r
    BY <1>2, <1>4, <1>6
  <2>6. ASSUME longest > 0 PROVE waited' <= (attempt + 1) * longest /\ waited' <= r * longest
    <3>1. (attempt + 1) * longest = attempt * longest + longest
      BY <1>4
    <3>2. waited' <= (attempt + 1) * longest
      <4>1. PICK p \in Nat : p = attempt * longest
        <5>1. attempt * longest \in Nat
          BY <1>4
        <5> QED
          BY <5>1
      <4> QED
        BY <1>4, <2>3, <2>4, <2>6, <3>1, <4>1
    <3>3. (attempt + 1) * longest <= r * longest
      BY <1>4, <2>5
    <3>4. (attempt + 1) * longest \in Nat /\ r * longest \in Nat /\ waited' \in Nat
      BY <1>4, <2>3, <2>4
    <3> QED
      BY <3>2, <3>3, <3>4
  <2>7. RetryInv'
    BY <1>1, <1>2, <1>3, <1>4, <2>1, <2>3, <2>4, <2>5, <2>6 DEF RetryInv
  <2>8. Accepted(case)
    BY <1>1 DEF EnhancerInv, CaseInv
  <2> QED
    BY <1>1, <2>1, <2>7, <2>8, GoesOn DEF EnhancerInv
<1> QED
  BY <1>5, <1>6

LEMMA SleepKeeps ==
  ASSUME EnhancerInv, Sleep
  PROVE  EnhancerInv'
<1>1. /\ pc = "sleep" /\ case' = case /\ alive' = alive /\ attempt' = attempt
      /\ waited' = waited /\ sent' = sent /\ reply' = reply /\ Accepted(case)
  BY DEF Sleep, EnhancerInv, CaseInv
<1>2. RetryInv'
  BY <1>1 DEF EnhancerInv, RetryInv
<1>3. CASE alive
  <2>1. pc' = "post" /\ result' = result
    BY <1>3 DEF Sleep
  <2> QED
    BY <1>1, <1>2, <2>1, GoesOn DEF EnhancerInv
<1>4. CASE ~alive
  <2>1. Fail("retrieval")
    BY <1>4 DEF Sleep
  <2> QED
    BY <1>1, <1>2, <2>1, FailKeeps DEF EnhancerInv
<1> QED
  BY <1>3, <1>4

LEMMA BuildKeeps ==
  ASSUME EnhancerInv, Build
  PROVE  EnhancerInv'
<1>1. /\ pc = "build" /\ case' = case /\ alive' = alive /\ attempt' = attempt
      /\ waited' = waited /\ reply' = reply
  BY DEF Build
<1>2. /\ case \in Request /\ Accepted(case) /\ sent = <<>> /\ reply = None
      /\ FullSize(case) <= MaxInt
  BY <1>1 DEF EnhancerInv, CaseInv, SentInv, ReplyInv
<1>3. PICK first : first = FirstOf(case)
  OBVIOUS
<1>4. IF Limit(case) >= 0 /\ Size(first) > Limit(case)
      THEN Fail("budget") /\ sent' = sent
      ELSE sent' = << first >> /\ pc' = "complete" /\ result' = result
  BY <1>3 DEF Build, FirstOf
<1>5. Limit(case) \in Int /\ Size(first) \in Nat
  <2>1. case.prompt > 0
    BY <1>2 DEF Accepted
  <2> QED
    BY <1>2, <1>3, <2>1, FirstIsGood DEF LaysOut
<1>6. RetryInv' /\ CaseInv'
  <2>1. pc' \in {"complete", "done"}
    BY <1>4 DEF Fail
  <2>2. RetryInv'
    BY <1>1, <2>1 DEF EnhancerInv, RetryInv
  <2>3. CaseInv'
    BY <1>1, <1>2, <2>1 DEF CaseInv
  <2> QED
    BY <2>2, <2>3
<1>7. CASE Limit(case) >= 0 /\ Size(first) > Limit(case)
  <2>1. pc' = "done" /\ sent' = sent /\ result' = FailureOf("budget")
    BY <1>4, <1>7 DEF Fail, FailureOf
  <2>2. result' \in Response /\ result'.kind = "budget" /\ result' # None
    BY <2>1, FailureIsResponse
  <2>3. SentInv'
    BY <1>1, <2>1 DEF EnhancerInv, SentInv
  <2>4. ReplyInv'
    BY <1>1, <2>1 DEF EnhancerInv, ReplyInv
  <2>5. Failed(case', reply', result')
    BY <1>1, <1>2, <1>3, <1>7, <2>2 DEF Failed
  <2>6. ResultInv'
    BY <2>1, <2>2, <2>5 DEF ResultInv
  <2> QED
    BY <1>6, <2>3, <2>4, <2>6 DEF EnhancerInv
<1>8. CASE ~(Limit(case) >= 0 /\ Size(first) > Limit(case))
  <2>1. sent' = << first >> /\ pc' = "complete" /\ result' = result
    BY <1>4, <1>8
  <2>2. SentFor(case', sent')
    BY <1>1, <1>2, <1>3, <1>5, <1>8, <2>1 DEF SentFor
  <2>3. SentInv'
    BY <1>1, <1>3, <2>1, <2>2 DEF SentInv
  <2>4. ReplyInv'
    BY <1>1, <2>1 DEF EnhancerInv, ReplyInv
  <2>5. ResultInv'
    BY <1>1, <2>1 DEF EnhancerInv, ResultInv
  <2> QED
    BY <1>6, <2>3, <2>4, <2>5 DEF EnhancerInv
<1> QED
  BY <1>7, <1>8

\* The layout that was sent is the first of the requests.
LEMMA SentFirst ==
  ASSUME NEW c, NEW s, SentFor(c, s), s # <<>>
  PROVE  /\ Accepted(c) /\ (Limit(c) >= 0 => Size(FirstOf(c)) <= Limit(c))
         /\ s[1] = FirstOf(c) /\ Len(s) \in {1, 2}
         /\ Len(s) = 2 => s[2].messages = FirstOf(c).messages
<1>1. CASE s = <<FirstOf(c)>>
  BY <1>1 DEF SentFor
<1>2. CASE \E second : s = <<FirstOf(c), second>> /\ second.messages = FirstOf(c).messages
  BY <1>2 DEF SentFor
<1> QED
  BY <1>1, <1>2 DEF SentFor

\* A response with a text and a true word on its language.
LEMMA ReturnAnswers ==
  ASSUME EnhancerInv, NEW text \in Texts, NEW first \in Texts,
         NEW w \in {{}, {"language"}},
         "language" \in w <=> Mismatch(case, text),
         text # first => ClassifyScript(text) = ClassifyScript(case.text),
         sent # <<>>, sent' = sent, case' = case, Return(text, w), reply' = first
  PROVE  CaseInv' /\ SentInv' /\ ReplyInv' /\ ResultInv'
<1>1. /\ case \in Request /\ Accepted(case) /\ sent[1] = FirstOf(case)
  BY SentFirst DEF EnhancerInv, CaseInv, SentInv
<1>2. PICK all : all = (FirstOf(case).warnings \cup w) \cup ContentWarnings(case, text)
  OBVIOUS
<1>3. PICK used : used = FirstOf(case).used
  OBVIOUS
<1>4. pc' = "done" /\ result' = [kind |-> "ok", text |-> text, used |-> used, warnings |-> all]
  BY <1>1, <1>2, <1>3 DEF Return
<1>5. /\ result'.kind = "ok" /\ result'.text = text /\ result'.used = used
      /\ result'.warnings = all
  BY <1>4
<1>6. all \in SUBSET {"context", "history", "language", "numbers", "actions"}
      /\ used \in SUBSET ReferenceNames
  <2>1. FirstOf(case).warnings \in SUBSET {"context", "history"} /\ used \in SUBSET ReferenceNames
    BY <1>1, <1>3, FirstIsGood DEF Accepted
  <2>2. ContentWarnings(case, text) \in SUBSET {"numbers", "actions"}
    BY ContentWarningsSay
  <2> QED
    BY <1>2, <2>1, <2>2
<1>7. result' \in Response /\ result' # None
  <2>1. result' \in Response
    BY <1>4, <1>6 DEF Response, ReferenceNames
  <2> QED
    BY <2>1, EnhancerAssumption
<1>8. CaseInv'
  BY <1>4 DEF EnhancerInv, CaseInv
<1>9. SentInv'
  BY <1>4 DEF EnhancerInv, SentInv
<1>10. ReplyInv'
  BY <1>4 DEF ReplyInv
<1>11. Answered(case', sent', reply', result')
  BY <1>2, <1>3, <1>5, <1>7 DEF Answered
<1>12. ResultInv'
  BY <1>4, <1>7, <1>11 DEF ResultInv
<1> QED
  BY <1>8, <1>9, <1>10, <1>12

LEMMA RetryUntouched ==
  ASSUME EnhancerInv, pc \in {"complete", "reanchor"}, pc' \in {"reanchor", "done"},
         UNCHANGED <<case, alive, attempt, waited>>
  PROVE  RetryInv'
BY DEF EnhancerInv, RetryInv

LEMMA CompleteKeeps ==
  ASSUME EnhancerInv, Complete
  PROVE  EnhancerInv'
<1>1. /\ pc = "complete" /\ case' = case /\ alive' = alive /\ attempt' = attempt
      /\ waited' = waited
  BY DEF Complete
<1>2. PICK text \in Texts : reply' = text /\ Guard(text)
  BY DEF Complete
<1>3. PICK first : first = FirstOf(case)
  OBVIOUS
<1>4. sent = << first >> /\ sent # <<>> /\ sent[1] = first
  BY <1>1, <1>3 DEF EnhancerInv, SentInv
<1>5. CASE Mismatch(case, text) /\ case.reanchor
  <2>1. PICK second : second = [first EXCEPT !.system = first.system + DirectiveLength]
    OBVIOUS
  <2>2. sent' = Append(sent, second) /\ pc' = "reanchor" /\ result' = result
    <3>1. /\ sent' = Append(sent, [sent[1] EXCEPT !.system = sent[1].system + DirectiveLength])
          /\ pc' = "reanchor" /\ result' = result
      BY <1>2, <1>5 DEF Guard
    <3> QED
      BY <1>4, <2>1, <3>1
  <2>3. sent' = << first, second >> /\ sent' # <<>>
    <3>1. Append(<< first >>, second) = << first, second >> /\ << first, second >> # <<>>
      <4>1. PICK S : S = {first, second}
        OBVIOUS
      <4>2. << first >> \in Seq(S) /\ << first, second >> \in Seq(S) /\ second \in S
        BY <4>1
      <4>3. PICK s \in Seq(S) : s = << first >>
        BY <4>2
      <4>4. PICK t \in Seq(S) : t = << first, second >>
        BY <4>2
      <4>5. Len(s) = 1 /\ s[1] = first /\ Len(t) = 2 /\ t[1] = first /\ t[2] = second
        BY <4>3, <4>4
      <4>6. /\ Append(s, second) \in Seq(S) /\ Len(Append(s, second)) = 2
            /\ Append(s, second)[1] = first /\ Append(s, second)[2] = second
        <5>1. /\ Append(s, second) \in Seq(S) /\ Len(Append(s, second)) = Len(s) + 1
              /\ \A i \in 1..Len(s) : Append(s, second)[i] = s[i]
              /\ Append(s, second)[Len(s) + 1] = second
          BY <4>2, AppendProperties
        <5>2. Len(s) + 1 = 2 /\ 1 \in 1..Len(s)
          BY <4>5
        <5> QED
          BY <4>5, <5>1, <5>2
      <4>7. \A i \in 1..2 : Append(s, second)[i] = t[i]
        BY <4>5, <4>6
      <4>8. Append(s, second) = t
        BY <4>5, <4>6, <4>7, SeqEqual
      <4>9. t # <<>>
        BY <4>5, EmptySeq
      <4> QED
        BY <4>3, <4>4, <4>8, <4>9
    <3> QED
      BY <1>4, <2>2, <3>1
  <2>4. second.messages = first.messages
    BY <2>1
  <2>5. SentFor(case, sent)
    BY DEF EnhancerInv, SentInv
  <2>6. Accepted(case) /\ (Limit(case) >= 0 => Size(FirstOf(case)) <= Limit(case))
    BY <1>4, <2>5, SentFirst
  <2>7. SentFor(case', sent')
    BY <1>1, <1>3, <2>3, <2>4, <2>6 DEF SentFor
  <2>8. SentInv'
    BY <2>2, <2>3, <2>7 DEF SentInv
  <2>9. CaseInv'
    BY <1>1, <2>2 DEF EnhancerInv, CaseInv
  <2>10. ReplyInv'
    BY <1>1, <1>2, <1>5, <2>2 DEF ReplyInv
  <2>11. ResultInv'
    BY <1>1, <2>2 DEF EnhancerInv, ResultInv
  <2>12. RetryInv'
    BY <1>1, <2>2, RetryUntouched
  <2> QED
    BY <2>8, <2>9, <2>10, <2>11, <2>12 DEF EnhancerInv
<1>6. CASE ~(Mismatch(case, text) /\ case.reanchor)
  <2>1. PICK w \in {{}, {"language"}} : w = IF Mismatch(case, text) THEN {"language"} ELSE {}
    OBVIOUS
  <2>2. Return(text, w) /\ sent' = sent
    <3>1. /\ Return(text, IF Mismatch(case, text) THEN {"language"} ELSE {})
          /\ sent' = sent
      BY <1>2, <1>6 DEF Guard
    <3> QED
      BY <2>1, <3>1
  <2>3. "language" \in w <=> Mismatch(case, text)
    BY <2>1
  <2>4. CaseInv' /\ SentInv' /\ ReplyInv' /\ ResultInv'
    BY <1>1, <1>2, <1>4, <2>2, <2>3, ReturnAnswers
  <2>5. pc' = "done"
    BY <2>2 DEF Return
  <2>6. RetryInv'
    BY <1>1, <2>5, RetryUntouched
  <2> QED
    BY <2>4, <2>6 DEF EnhancerInv
<1> QED
  BY <1>5, <1>6

LEMMA CompleteFailsKeeps ==
  ASSUME EnhancerInv, CompleteFails
  PROVE  EnhancerInv'
<1>1. /\ pc = "complete" /\ Fail("provider") /\ pc' = "done" /\ case' = case
      /\ alive' = alive /\ attempt' = attempt /\ waited' = waited /\ sent' = sent /\ reply' = reply
  BY DEF CompleteFails, Fail
<1>2. RetryInv'
  BY <1>1, RetryUntouched
<1> QED
  BY <1>1, <1>2, FailKeeps DEF EnhancerInv

LEMMA ReanchorReturns ==
  ASSUME EnhancerInv, pc = "reanchor", NEW text \in Texts, NEW w \in {{}, {"language"}},
         \/ text = reply /\ w = {"language"}
         \/ w = {} /\ ClassifyScript(text) = ClassifyScript(case.text),
         Return(text, w), UNCHANGED <<case, alive, attempt, waited, sent, reply>>
  PROVE  EnhancerInv'
<1>1. sent # <<>> /\ reply \in Texts /\ Mismatch(case, reply)
  BY DEF EnhancerInv, SentInv, ReplyInv
<1>2. "language" \in w <=> Mismatch(case, text)
  <2>1. CASE text = reply /\ w = {"language"}
    BY <1>1, <2>1
  <2>2. CASE w = {} /\ ClassifyScript(text) = ClassifyScript(case.text)
    BY <2>2 DEF Mismatch
  <2> QED
    BY <2>1, <2>2
<1>3. CaseInv' /\ SentInv' /\ ReplyInv' /\ ResultInv'
  BY <1>1, <1>2, ReturnAnswers
<1>4. pc' = "done"
  BY DEF Return
<1>5. RetryInv'
  BY <1>4, RetryUntouched
<1> QED
  BY <1>3, <1>5 DEF EnhancerInv

LEMMA ReanchorKeeps ==
  ASSUME EnhancerInv, Reanchor
  PROVE  EnhancerInv'
<1>1. pc = "reanchor" /\ UNCHANGED <<case, alive, attempt, waited, sent, reply>>
  BY DEF Reanchor
<1>2. PICK text \in Texts :
        IF ClassifyScript(text) = ClassifyScript(case.text)
        THEN Return(text, {}) ELSE Return(reply, {"language"})
  BY DEF Reanchor
<1>3. reply \in Texts
  BY <1>1 DEF EnhancerInv, ReplyInv
<1>4. {} \in {{}, {"language"}} /\ {"language"} \in {{}, {"language"}}
  OBVIOUS
<1>5. CASE ClassifyScript(text) = ClassifyScript(case.text)
  BY <1>1, <1>2, <1>4, <1>5, ReanchorReturns
<1>6. CASE ClassifyScript(text) # ClassifyScript(case.text)
  BY <1>1, <1>2, <1>3, <1>4, <1>6, ReanchorReturns
<1> QED
  BY <1>5, <1>6

LEMMA ReanchorFailsKeeps ==
  ASSUME EnhancerInv, ReanchorFails
  PROVE  EnhancerInv'
<1>1. /\ pc = "reanchor" /\ UNCHANGED <<case, alive, attempt, waited, sent, reply>>
      /\ Return(reply, {"language"})
  BY DEF ReanchorFails
<1>2. reply \in Texts /\ {"language"} \in {{}, {"language"}}
  BY <1>1 DEF EnhancerInv, ReplyInv
<1> QED
  BY <1>1, <1>2, ReanchorReturns

LEMMA ContextEndsKeeps ==
  ASSUME EnhancerInv, ContextEnds
  PROVE  EnhancerInv'
<1>1. /\ case' = case /\ pc' = pc /\ attempt' = attempt /\ waited' = waited /\ sent' = sent
      /\ reply' = reply /\ result' = result /\ alive' = FALSE
  BY DEF ContextEnds
<1>2. CaseInv' /\ SentInv' /\ ReplyInv'
  BY <1>1 DEF EnhancerInv, CaseInv, SentInv, ReplyInv
<1>3. ResultInv' /\ RetryInv'
  BY <1>1 DEF EnhancerInv, ResultInv, RetryInv
<1> QED
  BY <1>2, <1>3 DEF EnhancerInv

LEMMA StutterKeeps ==
  ASSUME EnhancerInv, UNCHANGED vars
  PROVE  EnhancerInv'
<1>1. CaseInv' /\ SentInv' /\ ReplyInv'
  BY DEF EnhancerInv, CaseInv, SentInv, ReplyInv, vars
<1>2. ResultInv' /\ RetryInv'
  BY DEF EnhancerInv, ResultInv, RetryInv, vars
<1> QED
  BY <1>1, <1>2 DEF EnhancerInv

LEMMA EnhancerInvHolds == Spec => []EnhancerInv
<1>1. EnhancerInv /\ [Next]_vars => EnhancerInv'
  <2> SUFFICES ASSUME EnhancerInv, [Next]_vars PROVE EnhancerInv'
    OBVIOUS
  <2>1. CASE Start
    BY <2>1, StartKeeps
  <2>2. CASE Retrieved
    BY <2>2, RetrievedKeeps
  <2>3. CASE RetrieveFails
    BY <2>3, RetrieveFailsKeeps
  <2>4. CASE RetrieveTransient
    BY <2>4, RetrieveTransientKeeps
  <2>5. CASE Sleep
    BY <2>5, SleepKeeps
  <2>6. CASE Build
    BY <2>6, BuildKeeps
  <2>7. CASE Complete
    BY <2>7, CompleteKeeps
  <2>8. CASE CompleteFails
    BY <2>8, CompleteFailsKeeps
  <2>9. CASE Reanchor
    BY <2>9, ReanchorKeeps
  <2>10. CASE ReanchorFails
    BY <2>10, ReanchorFailsKeeps
  <2>11. CASE ContextEnds
    BY <2>11, ContextEndsKeeps
  <2>12. CASE UNCHANGED vars
    BY <2>12, StutterKeeps
  <2> QED
    BY <2>1, <2>2, <2>3, <2>4, <2>5, <2>6, <2>7, <2>8, <2>9, <2>10, <2>11, <2>12
       DEF Next, Step, Finished
<1> QED
  BY <1>1, InitHolds, PTL DEF Spec

-----------------------------------------------------------------------------
LEMMA InvGivesRequest ==
  ASSUME EnhancerInv
  PROVE  RequestInv
<1>1. case \in Request /\ FullSize(case) <= MaxInt /\ SentFor(case, sent)
  BY DEF EnhancerInv, CaseInv, SentInv
<1>2. case.budget \in Int /\ case.retries \in Nat
  BY <1>1, RequestParts
<1>3. TypeOK
  <2>1. Len(sent) \in 0..2
    <3>1. CASE sent = <<>>
      BY <3>1
    <3>2. CASE sent # <<>>
      BY <1>1, <3>2, SentFirst
    <3> QED
      BY <3>1, <3>2
  <2> QED
    BY <2>1 DEF TypeOK, EnhancerInv, ReplyInv, ResultInv, RetryInv
<1>4. ASSUME sent # <<>>
      PROVE  /\ Accepted(case) /\ sent[1] = FirstOf(case)
             /\ Limit(case) >= 0 => Size(sent[1]) <= Limit(case)
  BY <1>1, <1>4, SentFirst
<1>5. ASSUME Accepted(case)
      PROVE  LaysOut(FirstOf(case), Limit(case), FullSize(case)) /\ FullSize(case) \in Nat
             /\ Size(FirstOf(case)) \in Nat
  BY <1>1, <1>5, FirstIsGood DEF Accepted, LaysOut
<1>6. ASSUME case.budget > 0
      PROVE  /\ Limit(case) \in Nat /\ Exact(case) \in Nat /\ Limit(case) <= Exact(case)
             /\ \A n \in Nat : n <= Exact(case) /\ n <= MaxInt => n <= Limit(case)
  <2>1. case.budget \in Nat
    BY <1>2, <1>6
  <2> QED
    BY <1>6, <2>1, BudgetBound DEF Limit, Exact
<1>7. FirstRequestInBudget
  <2>1. SUFFICES ASSUME case.budget > 0, sent # <<>> PROVE Size(sent[1]) <= Exact(case)
    BY DEF FirstRequestInBudget
  <2> QED
    BY <1>4, <1>5, <1>6, <2>1
<1>8. NothingCutNeedlessly
  <2>1. SUFFICES ASSUME case.budget > 0, FullSize(case) <= Exact(case)
                 PROVE  /\ sent # <<>> => Size(sent[1]) = FullSize(case)
                        /\ result # None => result.kind # "budget"
    BY DEF NothingCutNeedlessly
  <2>2. ASSUME Accepted(case)
        PROVE  Size(FirstOf(case)) = FullSize(case) /\ FullSize(case) <= Limit(case)
    <3>1. FullSize(case) <= Limit(case)
      BY <1>1, <1>5, <1>6, <2>1, <2>2
    <3> QED
      BY <1>5, <2>2, <3>1 DEF LaysOut
  <2>3. sent # <<>> => Size(sent[1]) = FullSize(case)
    BY <1>4, <2>2
  <2>4. ASSUME result # None, result.kind = "budget" PROVE FALSE
    <3>1. Failed(case, reply, result)
      <4>1. ~Answered(case, sent, reply, result)
        BY <2>4 DEF Answered
      <4> QED
        BY <2>4, <4>1 DEF EnhancerInv, ResultInv
    <3>2. Accepted(case) /\ Size(FirstOf(case)) > Limit(case)
      BY <2>4, <3>1 DEF Failed
    <3> QED
      BY <1>5, <1>6, <2>1, <2>2, <3>2
  <2> QED
    BY <2>3, <2>4
<1>9. RetriesBounded
  BY DEF RetriesBounded, EnhancerInv, RetryInv
<1> QED
  BY <1>3, <1>7, <1>8, <1>9 DEF RequestInv

\* What an answer in the state says.
LEMMA AnswerFacts ==
  ASSUME EnhancerInv, result # None, result.kind = "ok"
  PROVE  /\ Answered(case, sent, reply, result) /\ case \in Request /\ case.prompt > 0
         /\ sent # <<>> /\ sent[1] = FirstOf(case)
         /\ LaysOut(FirstOf(case), Limit(case), FullSize(case))
<1>1. Answered(case, sent, reply, result)
  BY DEF EnhancerInv, ResultInv, Failed
<1>2. case \in Request /\ SentFor(case, sent) /\ sent # <<>>
  BY <1>1 DEF EnhancerInv, CaseInv, SentInv, Answered
<1>3. sent[1] = FirstOf(case) /\ case.prompt > 0
  BY <1>2, SentFirst DEF Accepted
<1> QED
  BY <1>1, <1>2, <1>3, FirstIsGood

LEMMA InvGivesReports ==
  ASSUME EnhancerInv
  PROVE  ReportsAreTrue
<1> SUFFICES ASSUME result # None, result.kind = "ok"
             PROVE  ReportsAreTrue
  BY DEF ReportsAreTrue, CutsAreReported, UsedContextIsTrue, WarningsMatchReturnedText
<1>1. /\ Answered(case, sent, reply, result) /\ case \in Request /\ case.prompt > 0
      /\ sent # <<>> /\ sent[1] = FirstOf(case)
      /\ LaysOut(FirstOf(case), Limit(case), FullSize(case))
  BY AnswerFacts
<1>2. PICK first : first = FirstOf(case)
  OBVIOUS
<1>3. /\ first.warnings \in SUBSET {"context", "history"} /\ Size(first) \in Nat
      /\ first.warnings = {} => Size(first) = FullSize(case)
      /\ first.used = UsedContexts(PartsOf(first.messages))
  BY <1>1, <1>2 DEF LaysOut
<1>4. PICK w \in {{}, {"language"}} :
        result.warnings = (first.warnings \cup w) \cup ContentWarnings(case, result.text)
  BY <1>1, <1>2 DEF Answered
<1>5. CutsAreReported
  <2>1. ASSUME Size(first) < FullSize(case) PROVE result.warnings \cap {"context", "history"} # {}
    <3>1. first.warnings # {}
      BY <1>3, <2>1
    <3> QED
      BY <1>3, <1>4, <3>1
  <2> QED
    BY <1>1, <1>2, <2>1 DEF CutsAreReported
<1>6. UsedContextIsTrue
  <2>1. result.used = first.used
    BY <1>1, <1>2 DEF Answered
  <2>2. first.used = UsedContexts(UNION {m.parts : m \in ToSet(sent[1].messages)})
    BY <1>1, <1>2, <1>3 DEF PartsOf
  <2> QED
    BY <2>1, <2>2 DEF UsedContextIsTrue
<1>7. WarningsMatchReturnedText
  <2>1. SUFFICES ASSUME case.warnings
                 PROVE  /\ "actions" \in result.warnings <=>
                             ~(result.text.actions \subseteq case.text.actions)
                        /\ "numbers" \in result.warnings <=>
                             ~(result.text.numbers \subseteq case.numbers \cup {0, 1})
    BY DEF WarningsMatchReturnedText
  <2>2. /\ "numbers" \in result.warnings <=> "numbers" \in ContentWarnings(case, result.text)
        /\ "actions" \in result.warnings <=> "actions" \in ContentWarnings(case, result.text)
    BY <1>3, <1>4
  <2>3. /\ "numbers" \in ContentWarnings(case, result.text) <=>
             FabricatedNumbers(case, result.text) # {}
        /\ "actions" \in ContentWarnings(case, result.text) <=>
             UndecidedActions(case, result.text) # {}
    BY <2>1, ContentWarningsSay
  <2>4. FabricatedNumbers(case, result.text) # {} <=>
          ~(result.text.numbers \subseteq case.numbers \cup {0, 1})
    BY DEF FabricatedNumbers
  <2>5. UndecidedActions(case, result.text) # {} <=>
          ~(result.text.actions \subseteq case.text.actions)
    BY DEF UndecidedActions
  <2> QED
    BY <2>2, <2>3, <2>4, <2>5
<1> QED
  BY <1>5, <1>6, <1>7 DEF ReportsAreTrue

LEMMA InvGivesTask ==
  ASSUME EnhancerInv
  PROVE  TaskReachesProvider
<1>1. SUFFICES ASSUME NEW n \in DOMAIN sent
               PROVE  LET wire == Wire(case.provider, sent[n].messages)
                      IN  /\ Last(wire).role = "user"
                          /\ {"original_prompt", "final_instruction"} \subseteq Last(wire).parts
                          /\ case.provider = "anthropic" =>
                               /\ wire[1].role = "user"
                               /\ \A k \in 1..(Len(wire) - 1) : wire[k].role # wire[k + 1].role
  BY DEF TaskReachesProvider
<1>2. case \in Request /\ SentFor(case, sent) /\ sent # <<>>
  BY <1>1 DEF EnhancerInv, CaseInv, SentInv
<1>3. PICK ms : ms = FirstOf(case).messages
  OBVIOUS
<1>4. EndsWithTask(ms)
  <2>1. case.prompt > 0
    BY <1>2, SentFirst DEF Accepted
  <2> QED
    BY <1>2, <1>3, <2>1, FirstIsGood DEF LaysOut
<1>5. sent[n].messages = ms
  <2>1. CASE sent = <<FirstOf(case)>>
    <3>1. n = 1
      BY <2>1
    <3> QED
      BY <1>3, <2>1, <3>1
  <2>2. CASE \E second : /\ sent = <<FirstOf(case), second>>
                         /\ second.messages = FirstOf(case).messages
    <3>1. PICK second : /\ sent = <<FirstOf(case), second>>
                        /\ second.messages = FirstOf(case).messages
      BY <2>2
    <3>2. n \in {1, 2}
      BY <3>1
    <3> QED
      BY <1>3, <3>1, <3>2
  <2> QED
    BY <1>2, <2>1, <2>2 DEF SentFor
<1>6. PICK wire : wire = Wire(case.provider, ms)
  OBVIOUS
<1>7. EndsWithTask(wire) /\ (case.provider = "anthropic" => Alternates(wire))
  <2>1. CASE case.provider = "anthropic"
    BY <1>4, <1>6, <2>1, AnthropicTakesTurns DEF Wire
  <2>2. CASE case.provider # "anthropic"
    BY <1>4, <1>6, <2>2 DEF Wire, OpenAIMessages
  <2> QED
    BY <2>1, <2>2
<1>8. Last(wire) = wire[Len(wire)]
  BY DEF Last
<1>9. /\ Last(wire).role = "user"
      /\ {"original_prompt", "final_instruction"} \subseteq Last(wire).parts
  BY <1>7, <1>8 DEF EndsWithTask
<1>10. case.provider = "anthropic" =>
         /\ wire[1].role = "user"
         /\ \A k \in 1..(Len(wire) - 1) : wire[k].role # wire[k + 1].role
  BY <1>7 DEF Alternates
<1> QED
  BY <1>5, <1>6, <1>9, <1>10

LEMMA InvGivesLanguage ==
  ASSUME EnhancerInv
  PROVE  LanguageKeptOrReported
<1>1. SUFFICES ASSUME result # None, reply # None
               PROVE  /\ result.kind = "ok"
                      /\ "language" \in result.warnings <=> Mismatch(case, result.text)
                      /\ result.text # reply =>
                           ClassifyScript(result.text) = ClassifyScript(case.text)
  BY DEF LanguageKeptOrReported
<1>2. result.kind = "ok"
  BY <1>1 DEF EnhancerInv, ResultInv, Failed, Answered
<1>3. /\ Answered(case, sent, reply, result)
      /\ LaysOut(FirstOf(case), Limit(case), FullSize(case))
  BY <1>1, <1>2, AnswerFacts
<1>4. PICK w \in {{}, {"language"}} :
        /\ result.warnings = (FirstOf(case).warnings \cup w) \cup ContentWarnings(case, result.text)
        /\ "language" \in w <=> Mismatch(case, result.text)
  BY <1>3 DEF Answered
<1>5. FirstOf(case).warnings \subseteq {"context", "history"}
  BY <1>3 DEF LaysOut
<1>6. ContentWarnings(case, result.text) \subseteq {"numbers", "actions"}
  BY ContentWarningsSay
<1>7. "language" \in result.warnings <=> "language" \in w
  BY <1>4, <1>5, <1>6
<1>8. result.text # reply => ClassifyScript(result.text) = ClassifyScript(case.text)
  BY <1>3 DEF Answered
<1> QED
  BY <1>2, <1>4, <1>7, <1>8

\* The first request is within its budget, nothing that fits is cut or refused,
\* and the retries before it keep their bound (service.go:323, prompt.go:190,
\* openace/client.go:201).
THEOREM RequestHolds == Spec => []RequestInv
<1>1. EnhancerInv => RequestInv
  BY InvGivesRequest
<1> QED
  BY <1>1, EnhancerInvHolds, PTL

\* What is cut is reported, used_context names what was sent, and the warnings
\* are about the text that is returned (service.go:339, content_warnings.go:44).
THEOREM ReportsHold == Spec => []ReportsAreTrue
<1>1. EnhancerInv => ReportsAreTrue
  BY InvGivesReports
<1> QED
  BY <1>1, EnhancerInvHolds, PTL

\* The task reaches the provider whole and last, in every style, the retry
\* included, and Anthropic's roles take turns (anthropic/client.go:153).
THEOREM TaskReachesHolds == Spec => []TaskReachesProvider
<1>1. EnhancerInv => TaskReachesProvider
  BY InvGivesTask
<1> QED
  BY <1>1, EnhancerInvHolds, PTL

\* The text is in the user's script or says that it is not, and a guard never
\* fails a request (language_guard.go:147).
THEOREM LanguageHolds == Spec => []LanguageKeptOrReported
<1>1. EnhancerInv => LanguageKeptOrReported
  BY InvGivesLanguage
<1> QED
  BY <1>1, EnhancerInvHolds, PTL
=============================================================================
