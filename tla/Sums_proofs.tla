----------------------------- MODULE Sums_proofs -----------------------------
(***************************************************************************)
(* Induction on the numbers as a property of sets, and what it says of the *)
(* sum of a sequence: how one more element, or a prefix, changes it.       *)
(***************************************************************************)
EXTENDS Sums, WellFoundedInduction, TLAPS

LEMMA NatLess == IsWellFoundedOn({ss \in Nat \X Nat : ss[1] < ss[2]}, Nat)
  <1>1. OpToRel(<, Nat) = {ss \in Nat \X Nat : ss[1] < ss[2]}
    BY Zenon DEF OpToRel
  <1> QED
    BY <1>1, NatLessThanWellFounded, Zenon

\* Induction, for a set: the numbers at which what is to be shown holds.
LEMMA Induction ==
  ASSUME NEW S, 0 \in S, \A n \in Nat : n \in S => n + 1 \in S
  PROVE  Nat \subseteq S
  <1> SUFFICES ASSUME Nat \ S # {} PROVE FALSE
    OBVIOUS
  <1> DEFINE R == {ss \in Nat \X Nat : ss[1] < ss[2]}
             T == Nat \ S
  <1>1. PICK n \in T : \A m \in T : ~(<<m, n>> \in R)
    <2>1. IsWellFoundedOn(R, Nat) /\ T \subseteq Nat /\ T # {}
      BY NatLess
    <2> HIDE DEF R, T
    <2> QED
      BY <2>1, WFMin, Zenon
  <1>2. n \in Nat /\ n # 0 /\ n \notin S
    BY <1>1
  <1>3. n - 1 \in Nat /\ (n - 1) + 1 = n /\ n - 1 < n
    BY <1>2
  <1>4. n - 1 \in S
    BY <1>1, <1>2, <1>3
  <1> QED
    BY <1>2, <1>3, <1>4

-----------------------------------------------------------------------------
IsSum(f, s) ==
  f = [n \in 0..Len(s) |-> IF n = 0 THEN 0 ELSE f[n - 1] + s[n]]

\* There is a function that adds the elements up one by one.
LEMMA SumExists ==
  ASSUME NEW s \in Seq(Nat)
  PROVE  \E f \in [0..Len(s) -> Nat] : IsSum(f, s)
  <1> DEFINE Upto(k, f) == f[0] = 0 /\ \A n \in 1..k : f[n] = f[n - 1] + s[n]
             S == {k \in Nat : k <= Len(s) =>
                               \E f \in [0..k -> Nat] : Upto(k, f)}
  <1>1. Len(s) \in Nat /\ \A n \in 1..Len(s) : s[n] \in Nat
    OBVIOUS
  <1>2. 0 \in S
    <2>1. [n \in 0..0 |-> 0] \in [0..0 -> Nat] /\ Upto(0, [n \in 0..0 |-> 0])
      OBVIOUS
    <2> QED
      BY <2>1
  <1>3. ASSUME NEW k \in Nat, k \in S
        PROVE  k + 1 \in S
    <2> SUFFICES ASSUME k + 1 <= Len(s)
                 PROVE  \E f \in [0..(k + 1) -> Nat] : Upto(k + 1, f)
      <3> HIDE DEF Upto
      <3>1. k + 1 \in Nat
        OBVIOUS
      <3> QED
        BY <3>1, Zenon
    <2>0. k <= Len(s)
      BY <1>1
    <2>1. PICK f \in [0..k -> Nat] : Upto(k, f)
      <3> HIDE DEF Upto
      <3>1. \E f \in [0..k -> Nat] : Upto(k, f)
        BY <1>3, <2>0, Zenon
      <3> QED
        BY <3>1, Zenon
    <2> DEFINE g == [n \in 0..(k + 1) |->
                       IF n = k + 1 THEN f[k] + s[k + 1] ELSE f[n]]
    <2>2. g \in [0..(k + 1) -> Nat]
      BY <1>1, <2>1
    <2>3. Upto(k + 1, g)
      <3>1. g[0] = 0
        BY <2>1
      <3>2. ASSUME NEW n \in 1..(k + 1)
            PROVE  g[n] = g[n - 1] + s[n]
        BY <2>1
      <3> HIDE DEF g
      <3> QED
        BY <3>1, <3>2
    <2> QED
      BY <2>2, <2>3
  <1> HIDE DEF S
  <1>4. Len(s) \in S
    BY <1>1, <1>2, <1>3, Induction
  <1>5. PICK f \in [0..Len(s) -> Nat] : Upto(Len(s), f)
    BY <1>1, <1>4 DEF S
  <1>6. IsSum(f, s)
    <2>1. \A n \in 0..Len(s) : f[n] = IF n = 0 THEN 0 ELSE f[n - 1] + s[n]
      BY <1>1, <1>5
    <2> QED
      BY <1>5, <2>1 DEF IsSum
  <1> QED
    BY <1>6

Adds(f, s) == f[0] = 0 /\ \A n \in 1..Len(s) : f[n] = f[n - 1] + s[n]

\* SumOf(s) is the last of the sums of s so far, each its predecessor and one
\* element more.
LEMMA SumsSoFar ==
  ASSUME NEW s \in Seq(Nat)
  PROVE  \E f \in [0..Len(s) -> Nat] : Adds(f, s) /\ SumOf(s) = f[Len(s)]
  <1> DEFINE sum == CHOOSE g : IsSum(g, s)
  <1>1. Len(s) \in Nat /\ \A n \in 1..Len(s) : s[n] \in Nat
    OBVIOUS
  <1>2. PICK f \in [0..Len(s) -> Nat] : IsSum(f, s)
    BY SumExists
  <1>3. IsSum(sum, s)
    BY <1>2, Zenon
  <1>4. SumOf(s) = sum[Len(s)]
    BY Zenon DEF SumOf, IsSum
  <1> HIDE DEF sum
  <1>5. /\ DOMAIN sum = 0..Len(s)
        /\ \A n \in 0..Len(s) : sum[n] = IF n = 0 THEN 0 ELSE sum[n - 1] + s[n]
        /\ sum = [n \in 0..Len(s) |-> sum[n]]
    BY <1>3 DEF IsSum
  <1>6. sum[0] = 0 /\ \A n \in 1..Len(s) : sum[n] = sum[n - 1] + s[n]
    <2>1. 0 \in 0..Len(s) /\ \A n \in 1..Len(s) : n \in 0..Len(s) /\ n # 0
      BY <1>1
    <2> QED
      BY <1>5, <2>1, Zenon
  <1> DEFINE S == {k \in Nat : k <= Len(s) => sum[k] \in Nat}
  <1>7. Nat \subseteq S
    <2>1. 0 \in S
      BY <1>6
    <2>2. ASSUME NEW k \in Nat, k \in S
          PROVE  k + 1 \in S
      <3> SUFFICES ASSUME k + 1 <= Len(s) PROVE sum[k + 1] \in Nat
        OBVIOUS
      <3>1. sum[k] \in Nat /\ k + 1 \in 1..Len(s) /\ (k + 1) - 1 = k
        BY <1>1, <2>2
      <3>2. sum[k + 1] = sum[(k + 1) - 1] + s[k + 1]
        BY <1>6, <3>1, Zenon
      <3>3. sum[k + 1] = sum[k] + s[k + 1] /\ s[k + 1] \in Nat
        BY <1>1, <3>1, <3>2
      <3> QED
        BY <3>1, <3>3
    <2> HIDE DEF S
    <2> QED
      BY <2>1, <2>2, Induction
  <1>8. sum \in [0..Len(s) -> Nat]
    <2>1. \A n \in 0..Len(s) : sum[n] \in Nat
      BY <1>1, <1>7
    <2> QED
      BY <1>5, <2>1
  <1> QED
    BY <1>4, <1>6, <1>8 DEF Adds

LEMMA SumIsNat ==
  ASSUME NEW s \in Seq(Nat)
  PROVE  SumOf(s) \in Nat
  <1>1. Len(s) \in 0..Len(s)
    OBVIOUS
  <1> QED
    BY <1>1, SumsSoFar

\* Two sequences that agree up to k have the same sums up to there.
LEMMA SumsAgree ==
  ASSUME NEW s \in Seq(Nat), NEW t \in Seq(Nat), NEW k \in Nat,
         k <= Len(s), k <= Len(t), \A n \in 1..k : s[n] = t[n]
  PROVE  \A f, g : Adds(f, s) /\ Adds(g, t) => f[k] = g[k]
  <1> SUFFICES ASSUME NEW f, NEW g, Adds(f, s), Adds(g, t) PROVE f[k] = g[k]
    OBVIOUS
  <1> DEFINE S == {n \in Nat : n <= k => f[n] = g[n]}
  <1>1. 0 \in S
    BY DEF Adds
  <1>2. ASSUME NEW n \in Nat, n \in S
        PROVE  n + 1 \in S
    <2> SUFFICES ASSUME n + 1 <= k PROVE f[n + 1] = g[n + 1]
      OBVIOUS
    <2>1. f[n] = g[n]
      BY <1>2
    <2>2. /\ n + 1 \in 1..k /\ (n + 1) - 1 = n
          /\ n + 1 \in 1..Len(s) /\ n + 1 \in 1..Len(t)
      OBVIOUS
    <2> QED
      BY <2>1, <2>2 DEF Adds
  <1> HIDE DEF S
  <1>3. k \in S
    BY <1>1, <1>2, Induction
  <1> QED
    BY <1>3 DEF S

LEMMA SumOfEmpty == SumOf(<<>>) = 0
  <1>1. <<>> \in Seq(Nat) /\ Len(<<>>) = 0
    OBVIOUS
  <1> QED
    BY <1>1, SumsSoFar, Zenon DEF Adds

LEMMA SumOfAppend ==
  ASSUME NEW s \in Seq(Nat), NEW x \in Nat
  PROVE  SumOf(Append(s, x)) = SumOf(s) + x
  <1> DEFINE t == Append(s, x)
  <1>1. /\ t \in Seq(Nat) /\ Len(s) \in Nat /\ Len(t) = Len(s) + 1
        /\ t[Len(s) + 1] = x /\ \A n \in 1..Len(s) : s[n] = t[n]
    OBVIOUS
  <1> HIDE DEF t
  <1>2. PICK f \in [0..Len(s) -> Nat] : Adds(f, s) /\ SumOf(s) = f[Len(s)]
    BY SumsSoFar
  <1>3. PICK g \in [0..Len(t) -> Nat] : Adds(g, t) /\ SumOf(t) = g[Len(t)]
    BY <1>1, SumsSoFar
  <1>4. f[Len(s)] = g[Len(s)]
    <2>1. Len(s) <= Len(s) /\ Len(s) <= Len(t)
      BY <1>1
    <2>2. \A h, i : Adds(h, s) /\ Adds(i, t) => h[Len(s)] = i[Len(s)]
      BY <1>1, <2>1, SumsAgree
    <2> QED
      BY <1>2, <1>3, <2>2
  <1>5. Len(t) \in 1..Len(t) /\ Len(t) - 1 = Len(s)
    BY <1>1
  <1> QED
    BY <1>1, <1>2, <1>3, <1>4, <1>5 DEF t, Adds

LEMMA SumOfOne ==
  ASSUME NEW x \in Nat
  PROVE  SumOf(<<x>>) = x
  <1>1. Append(<<>>, x) = <<x>> /\ <<>> \in Seq(Nat)
    OBVIOUS
  <1>2. SumOf(Append(<<>>, x)) = SumOf(<<>>) + x
    BY <1>1, SumOfAppend
  <1> QED
    BY <1>1, <1>2, SumOfEmpty

\* No sum so far is more than a later one, and a smaller one if numbers other
\* than 0 come in between.
LEMMA SumsGrow ==
  ASSUME NEW s \in Seq(Nat \ {0}), NEW f \in [0..Len(s) -> Nat],
         Adds(f, s), NEW k \in 0..Len(s)
  PROVE  \A n \in k..Len(s) : f[k] + (n - k) <= f[n]
  <1>1. Len(s) \in Nat /\ \A n \in 1..Len(s) : s[n] \in Nat /\ s[n] > 0
    OBVIOUS
  <1> DEFINE S == {m \in Nat : k + m <= Len(s) => f[k] + m <= f[k + m]}
  <1>2. 0 \in S
    BY <1>1
  <1>3. ASSUME NEW m \in Nat, m \in S
        PROVE  m + 1 \in S
    <2> SUFFICES ASSUME k + (m + 1) <= Len(s)
                 PROVE  f[k] + (m + 1) <= f[k + (m + 1)]
      OBVIOUS
    <2>1. f[k] + m <= f[k + m]
      BY <1>1, <1>3
    <2>2. k + (m + 1) \in 1..Len(s) /\ (k + (m + 1)) - 1 = k + m
      BY <1>1
    <2>3. f[k + (m + 1)] = f[k + m] + s[k + (m + 1)] /\ s[k + (m + 1)] > 0
      BY <1>1, <2>2 DEF Adds
    <2>4. /\ f[k] \in Nat /\ f[k + m] \in Nat /\ f[k + (m + 1)] \in Nat
          /\ s[k + (m + 1)] \in Nat
      <3>1. k + m \in 0..Len(s) /\ k + (m + 1) \in 0..Len(s)
        BY <1>1
      <3> QED
        BY <1>1, <2>2, <3>1
    <2> QED
      BY <2>1, <2>3, <2>4
  <1> HIDE DEF S
  <1>4. ASSUME NEW n \in k..Len(s)
        PROVE  f[k] + (n - k) <= f[n]
    <2>1. n - k \in Nat /\ k + (n - k) = n
      BY <1>1
    <2>2. n - k \in S
      BY <1>2, <1>3, <2>1, Induction
    <2> QED
      BY <1>1, <2>1, <2>2 DEF S
  <1> QED
    BY <1>4

\* A proper prefix of numbers other than 0 has the smaller sum, and no element
\* is more than the whole.
LEMMA SumOfPrefix ==
  ASSUME NEW s \in Seq(Nat \ {0}), NEW t \in Seq(Nat), Len(t) < Len(s),
         \A n \in 1..Len(t) : t[n] = s[n]
  PROVE  SumOf(t) < SumOf(s)
  <1>1. s \in Seq(Nat) /\ Len(s) \in Nat /\ Len(t) \in Nat
    OBVIOUS
  <1>2. PICK f \in [0..Len(s) -> Nat] : Adds(f, s) /\ SumOf(s) = f[Len(s)]
    BY <1>1, SumsSoFar
  <1>3. PICK g \in [0..Len(t) -> Nat] : Adds(g, t) /\ SumOf(t) = g[Len(t)]
    BY SumsSoFar
  <1>4. f[Len(t)] = g[Len(t)]
    <2>1. /\ Len(t) <= Len(s) /\ Len(t) <= Len(t)
          /\ \A n \in 1..Len(t) : s[n] = t[n]
      BY <1>1
    <2>2. \A h, i : Adds(h, s) /\ Adds(i, t) => h[Len(t)] = i[Len(t)]
      BY <1>1, <2>1, SumsAgree
    <2> QED
      BY <1>2, <1>3, <2>2
  <1>5. f[Len(t)] + (Len(s) - Len(t)) <= f[Len(s)]
    <2>1. Len(t) \in 0..Len(s) /\ Len(s) \in Len(t)..Len(s)
      BY <1>1
    <2>2. \A n \in Len(t)..Len(s) : f[Len(t)] + (n - Len(t)) <= f[n]
      BY <1>2, <2>1, SumsGrow, Zenon
    <2> QED
      BY <2>1, <2>2
  <1>6. f[Len(t)] \in Nat /\ f[Len(s)] \in Nat
    <2>1. Len(t) \in 0..Len(s) /\ Len(s) \in 0..Len(s)
      BY <1>1
    <2> QED
      BY <1>2, <2>1
  <1> QED
    BY <1>1, <1>2, <1>3, <1>4, <1>5, <1>6

LEMMA SumOfPart ==
  ASSUME NEW s \in Seq(Nat \ {0}), NEW i \in DOMAIN s
  PROVE  s[i] <= SumOf(s)
  <1>1. /\ s \in Seq(Nat) /\ Len(s) \in Nat /\ i \in 1..Len(s)
        /\ s[i] \in Nat
    OBVIOUS
  <1>2. PICK f \in [0..Len(s) -> Nat] : Adds(f, s) /\ SumOf(s) = f[Len(s)]
    BY <1>1, SumsSoFar
  <1>3. f[i] + (Len(s) - i) <= f[Len(s)]
    <2>1. i \in 0..Len(s) /\ Len(s) \in i..Len(s)
      BY <1>1
    <2>2. \A n \in i..Len(s) : f[i] + (n - i) <= f[n]
      BY <1>2, <2>1, SumsGrow, Zenon
    <2> QED
      BY <2>1, <2>2
  <1>4. /\ f[i] = f[i - 1] + s[i] /\ f[i] \in Nat /\ f[i - 1] \in Nat
        /\ f[Len(s)] \in Nat
    <2>1. i \in 0..Len(s) /\ i - 1 \in 0..Len(s) /\ Len(s) \in 0..Len(s)
      BY <1>1
    <2> QED
      BY <1>1, <1>2, <2>1 DEF Adds
  <1> QED
    BY <1>1, <1>2, <1>3, <1>4
=============================================================================
