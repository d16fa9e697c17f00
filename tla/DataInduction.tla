---------------------------- MODULE DataInduction ----------------------------
(***************************************************************************)
(* Induction over numbers and sequences in a form the provers can use.     *)
(* The induction theorems of the library have a predicate as a parameter;  *)
(* here a set takes its place.                                             *)
(***************************************************************************)
EXTENDS Lists, Integers, FiniteSetTheorems, WellFoundedInduction, TLAPS

\* A set of naturals that has a member has a least one.
LEMMA LeastNatural ==
    ASSUME NEW T, T \subseteq Nat, T # {}
    PROVE  \E x \in T : \A y \in T : x <= y
<1> DEFINE I == {1 .. n : n \in T}
<1>1. IsWellFoundedOn(StrictSubsetOrdering(Nat), FiniteSubsetsOf(Nat))
  BY FS_StrictSubsetOrderingWellFounded
<1>2. I \subseteq FiniteSubsetsOf(Nat) /\ I # {}
  <2>1. \A n \in T : 1 .. n \in FiniteSubsetsOf(Nat)
    BY FS_Interval DEF FiniteSubsetsOf
  <2> QED
    BY <2>1
<1> HIDE DEF I
<1>3. PICK J \in I : \A K \in I : ~(<<K, J>> \in StrictSubsetOrdering(Nat))
  BY <1>1, <1>2, WFMin
<1> USE DEF I
<1>4. PICK x \in T : J = 1 .. x
  BY <1>3
<1>5. ASSUME NEW y \in T, y < x PROVE FALSE
  <2>1. 1 .. y \subseteq 1 .. x /\ x \in 1 .. x /\ x \notin 1 .. y
    BY <1>5
  <2>2. <<1 .. y, 1 .. x>> \in StrictSubsetOrdering(Nat)
    BY <1>5, <2>1 DEF StrictSubsetOrdering
  <2> QED
    BY <1>3, <1>4, <2>2
<1> QED
  BY <1>5

\* Induction up to a number.
LEMMA InductionUpTo ==
    ASSUME NEW n \in Nat, NEW T, 0 \in T, \A i \in 0 .. n - 1 : i \in T => i + 1 \in T
    PROVE  0 .. n \subseteq T
<1> SUFFICES ASSUME ~(0 .. n \subseteq T) PROVE FALSE
  OBVIOUS
<1> DEFINE R == {i \in 0 .. n : i \notin T}
<1>1. R \subseteq Nat /\ R # {}
  OBVIOUS
<1> HIDE DEF R
<1>2. PICK x \in R : \A y \in R : x <= y
  BY <1>1, LeastNatural
<1> QED
  BY <1>2 DEF R

----------------------------------------------------------------------------
(* Sublists                                                                 *)

\* The recursion of KeptUpTo defines a function.
LEMMA KeptUpToIs ==
    ASSUME NEW S, NEW s \in Seq(S), NEW indices
    PROVE  KeptUpTo(s, indices) =
             [n \in 0 .. Len(s) |->
                IF n = 0 THEN <<>>
                ELSE IF n \in indices THEN Append(KeptUpTo(s, indices)[n - 1], s[n])
                ELSE KeptUpTo(s, indices)[n - 1]]
<1> DEFINE Def(g, n) == IF n = 0 THEN <<>>
                        ELSE IF n \in indices THEN Append(g[n - 1], s[n]) ELSE g[n - 1]
           Defines(g, k) == g = [n \in 0 .. k |-> Def(g, n)]
           T == {k \in 0 .. Len(s) : \E g : Defines(g, k)}
<1>1. 0 \in T
  <2> DEFINE h == [n \in 0 .. 0 |-> <<>>]
  <2>1. Defines(h, 0)
    OBVIOUS
  <2> HIDE DEF h, Defines
  <2> QED
    BY <2>1
<1>2. ASSUME NEW k \in 0 .. Len(s) - 1, k \in T PROVE k + 1 \in T
  <2>1. PICK g : Defines(g, k)
    BY <1>2
  <2> DEFINE h == [n \in 0 .. k + 1 |-> IF n = k + 1 THEN Def(g, n) ELSE g[n]]
  <2>2. ASSUME NEW n \in 0 .. k + 1 PROVE h[n] = Def(h, n)
    <3>1. CASE n = k + 1
      <4>1. n # 0 /\ n - 1 \in 0 .. k /\ h[n - 1] = g[n - 1]
        BY <3>1
      <4> QED
        BY <3>1, <4>1
    <3>2. CASE n \in 0 .. k
      <4>1. g[n] = Def(g, n)
        BY <2>1, <3>2
      <4>2. n # 0 => h[n - 1] = g[n - 1]
        BY <3>2
      <4> QED
        BY <3>2, <4>1, <4>2
    <3> QED
      BY <3>1, <3>2
  <2>3. Defines(h, k + 1)
    <3> HIDE DEF Def
    <3> QED
      BY <2>2
  <2> HIDE DEF h, Defines
  <2> QED
    BY <2>3
<1>3. Len(s) \in T
  <2> HIDE DEF T
  <2>1. Len(s) \in Nat /\ \A k \in 0 .. Len(s) - 1 : k \in T => k + 1 \in T
    BY <1>2
  <2>2. 0 .. Len(s) \subseteq T
    BY <1>1, <2>1, InductionUpTo
  <2> QED
    BY <2>1, <2>2
<1>4. \E g : Defines(g, Len(s))
  BY <1>3
<1>5. KeptUpTo(s, indices) = CHOOSE g : Defines(g, Len(s))
  BY DEF KeptUpTo
<1>6. Defines(KeptUpTo(s, indices), Len(s))
  <2> HIDE DEF Defines
  <2> QED
    BY <1>4, <1>5
<1> QED
  BY <1>6

\* The sequence t lists the elements of s at the chosen indices, each one once and in
\* their order: f says which element of s is the i-th of t.
Enumerates(f, t, s, chosen) ==
    /\ f \in [1 .. Len(t) -> chosen]
    /\ \A i, j \in 1 .. Len(t) : i < j => f[i] < f[j]
    /\ \A k \in chosen : \E i \in 1 .. Len(t) : f[i] = k
    /\ \A i \in 1 .. Len(t) : t[i] = s[f[i]]

\* The first n steps keep the elements at the kept indices up to n, in their order.
LEMMA KeptUpToEnumerates ==
    ASSUME NEW S, NEW s \in Seq(S), NEW indices, NEW n \in 0 .. Len(s)
    PROVE  /\ KeptUpTo(s, indices)[n] \in Seq(S)
           /\ \E f : Enumerates(f, KeptUpTo(s, indices)[n], s, indices \cap (1 .. n))
<1> DEFINE kept == KeptUpTo(s, indices)
           Good(k) == /\ kept[k] \in Seq(S)
                      /\ \E f : Enumerates(f, kept[k], s, indices \cap (1 .. k))
           T == {k \in 0 .. Len(s) : Good(k)}
<1>1. /\ kept[0] = <<>>
      /\ \A k \in 1 .. Len(s) :
           kept[k] = IF k \in indices THEN Append(kept[k - 1], s[k]) ELSE kept[k - 1]
  <2>1. kept = [k \in 0 .. Len(s) |->
                  IF k = 0 THEN <<>>
                  ELSE IF k \in indices THEN Append(kept[k - 1], s[k]) ELSE kept[k - 1]]
    BY KeptUpToIs
  <2> HIDE DEF kept
  <2>2. 0 \in 0 .. Len(s) /\ \A k \in 1 .. Len(s) : k \in 0 .. Len(s) /\ k # 0
    OBVIOUS
  <2> QED
    BY <2>1, <2>2
<1> HIDE DEF kept
<1>2. Good(0)
  <2> DEFINE f == [i \in 1 .. 0 |-> 0]
  <2>1. Enumerates(f, <<>>, s, indices \cap (1 .. 0))
    BY DEF Enumerates
  <2> QED
    BY <1>1, <2>1
<1>3. ASSUME NEW k \in 0 .. Len(s) - 1, Good(k) PROVE Good(k + 1)
  <2>1. PICK f : Enumerates(f, kept[k], s, indices \cap (1 .. k))
    BY <1>3
  <2>2. k + 1 \in 1 .. Len(s) /\ (k + 1) - 1 = k /\ s[k + 1] \in S /\ kept[k] \in Seq(S)
    BY <1>3
  <2>3. CASE k + 1 \notin indices
    <3>1. kept[k + 1] = kept[k] /\ indices \cap (1 .. k + 1) = indices \cap (1 .. k)
      BY <1>1, <2>2, <2>3
    <3> QED
      BY <1>3, <3>1
  <2>4. CASE k + 1 \in indices
    <3> DEFINE m == Len(kept[k])
               g == [i \in 1 .. m + 1 |-> IF i = m + 1 THEN k + 1 ELSE f[i]]
               t == Append(kept[k], s[k + 1])
               chosen == indices \cap (1 .. k + 1)
    <3>1. kept[k + 1] = t
      BY <1>1, <2>2, <2>4
    <3>2. /\ t \in Seq(S) /\ m \in Nat /\ Len(t) = m + 1 /\ t[m + 1] = s[k + 1]
          /\ \A i \in 1 .. m : t[i] = kept[k][i]
      BY <2>2
    <3>3. \A i \in 1 .. m : f[i] \in indices /\ f[i] \in 1 .. k
      BY <2>1 DEF Enumerates
    <3>4. g[m + 1] = k + 1 /\ \A i \in 1 .. m : g[i] = f[i]
      BY <3>2
    <3>5. 1 .. Len(t) = (1 .. m) \cup {m + 1}
      BY <3>2
    <3>6. g \in [1 .. Len(t) -> chosen]
      BY <2>2, <2>4, <3>2, <3>3
    <3> HIDE DEF g, t
    <3>7. ASSUME NEW i \in 1 .. Len(t), NEW j \in 1 .. Len(t), i < j PROVE g[i] < g[j]
      <4>1. i \in 1 .. m
        BY <3>2, <3>7
      <4>2. CASE j = m + 1
        BY <3>3, <3>4, <4>1, <4>2
      <4>3. CASE j \in 1 .. m
        BY <2>1, <3>7, <3>4, <4>1, <4>3 DEF Enumerates
      <4> QED
        BY <3>5, <4>2, <4>3
    <3>8. ASSUME NEW c \in chosen PROVE \E i \in 1 .. Len(t) : g[i] = c
      <4>1. CASE c = k + 1
        BY <3>4, <3>5, <4>1
      <4>2. CASE c # k + 1
        <5>1. c \in indices \cap (1 .. k)
          BY <4>2
        <5>2. PICK i \in 1 .. m : f[i] = c
          BY <2>1, <5>1 DEF Enumerates
        <5> QED
          BY <3>4, <3>5, <5>2
      <4> QED
        BY <4>1, <4>2
    <3>9. \A i \in 1 .. Len(t) : t[i] = s[g[i]]
      BY <2>1, <3>2, <3>4, <3>5 DEF Enumerates
    <3>10. Enumerates(g, t, s, chosen)
      BY <3>6, <3>7, <3>8, <3>9 DEF Enumerates
    <3> QED
      BY <3>1, <3>2, <3>10
  <2> QED
    BY <2>3, <2>4
<1>4. 0 .. Len(s) \subseteq T
  <2> HIDE DEF Good
  <2>1. Len(s) \in Nat /\ 0 \in T /\ \A k \in 0 .. Len(s) - 1 : k \in T => k + 1 \in T
    BY <1>2, <1>3
  <2> HIDE DEF T
  <2> QED
    BY <2>1, InductionUpTo
<1> QED
  BY <1>4 DEF kept

\* A sublist holds the elements at the kept indices, each one once, in their order.
LEMMA SublistEnumerates ==
    ASSUME NEW S, NEW s \in Seq(S), NEW indices, indices \subseteq 1 .. Len(s)
    PROVE  /\ Sublist(s, indices) \in Seq(S)
           /\ \E f : Enumerates(f, Sublist(s, indices), s, indices)
<1>1. Len(s) \in 0 .. Len(s)
  OBVIOUS
<1>2. /\ KeptUpTo(s, indices)[Len(s)] \in Seq(S)
      /\ \E f : Enumerates(f, KeptUpTo(s, indices)[Len(s)], s, indices \cap (1 .. Len(s)))
  BY <1>1, KeptUpToEnumerates
<1>3. indices \cap (1 .. Len(s)) = indices
  OBVIOUS
<1> QED
  BY <1>2, <1>3 DEF Sublist

\* The first n steps depend on the first n elements alone.
LEMMA KeptUpToAgrees ==
    ASSUME NEW S, NEW s \in Seq(S), NEW t \in Seq(S), NEW I, NEW J,
           NEW n \in Nat, n <= Len(s), n <= Len(t),
           \A k \in 1 .. n : s[k] = t[k] /\ (k \in I <=> k \in J)
    PROVE  KeptUpTo(s, I)[n] = KeptUpTo(t, J)[n]
<1> DEFINE a == KeptUpTo(s, I)
           b == KeptUpTo(t, J)
           T == {k \in 0 .. n : a[k] = b[k]}
<1>1. /\ a[0] = <<>> /\ b[0] = <<>>
      /\ \A k \in 1 .. n : /\ a[k] = IF k \in I THEN Append(a[k - 1], s[k]) ELSE a[k - 1]
                           /\ b[k] = IF k \in J THEN Append(b[k - 1], t[k]) ELSE b[k - 1]
  <2>1. /\ a = [k \in 0 .. Len(s) |->
                  IF k = 0 THEN <<>>
                  ELSE IF k \in I THEN Append(a[k - 1], s[k]) ELSE a[k - 1]]
        /\ b = [k \in 0 .. Len(t) |->
                  IF k = 0 THEN <<>>
                  ELSE IF k \in J THEN Append(b[k - 1], t[k]) ELSE b[k - 1]]
    BY KeptUpToIs
  <2> HIDE DEF a, b
  <2>2. /\ 0 \in 0 .. Len(s) /\ 0 \in 0 .. Len(t)
        /\ \A k \in 1 .. n : k \in 0 .. Len(s) /\ k \in 0 .. Len(t) /\ k # 0
    OBVIOUS
  <2> QED
    BY <2>1, <2>2
<1> HIDE DEF a, b
<1>2. 0 \in T
  BY <1>1
<1>3. ASSUME NEW k \in 0 .. n - 1, k \in T PROVE k + 1 \in T
  <2>1. k + 1 \in 1 .. n /\ (k + 1) - 1 = k
    OBVIOUS
  <2>2. a[k] = b[k] /\ s[k + 1] = t[k + 1] /\ (k + 1 \in I <=> k + 1 \in J)
    BY <1>3, <2>1
  <2>3. a[k + 1] = b[k + 1]
    BY <1>1, <2>1, <2>2
  <2> QED
    BY <2>1, <2>3
<1>4. n \in T
  <2> HIDE DEF T
  <2>1. 0 .. n \subseteq T
    BY <1>2, <1>3, InductionUpTo
  <2> QED
    BY <2>1
<1> QED
  BY <1>4 DEF a, b

\* A sublist of a longer sequence gains the new element, if that one is chosen.
LEMMA SublistOfAppend ==
    ASSUME NEW S, NEW s \in Seq(S), NEW x \in S, NEW I, I \subseteq 1 .. Len(s)
    PROVE  /\ Sublist(Append(s, x), I) = Sublist(s, I)
           /\ Sublist(Append(s, x), I \cup {Len(s) + 1}) = Append(Sublist(s, I), x)
<1> DEFINE t == Append(s, x)
           n == Len(s)
           J == I \cup {n + 1}
<1>1. /\ t \in Seq(S) /\ n \in Nat /\ Len(t) = n + 1 /\ t[n + 1] = x
      /\ \A k \in 1 .. n : t[k] = s[k] /\ (k \in J <=> k \in I)
      /\ n + 1 \notin I /\ n + 1 \in J
  OBVIOUS
<1> HIDE DEF t, n, J
<1>2. n <= Len(t) /\ n = Len(s)
  BY <1>1 DEF n
<1>3. KeptUpTo(t, I)[n] = KeptUpTo(s, I)[n] /\ KeptUpTo(t, J)[n] = KeptUpTo(s, I)[n]
  <2>1. ASSUME NEW K, \A k \in 1 .. n : k \in K <=> k \in I
        PROVE  KeptUpTo(t, K)[n] = KeptUpTo(s, I)[n]
    <3>1. n <= Len(t) /\ n <= Len(s)
      BY <1>1, <1>2
    <3>2. \A k \in 1 .. n : t[k] = s[k] /\ (k \in K <=> k \in I)
      BY <1>1, <2>1
    <3> QED
      BY <1>1, <3>1, <3>2, KeptUpToAgrees
  <2> QED
    BY <1>1, <2>1
<1>4. ASSUME NEW K
      PROVE  KeptUpTo(t, K)[n + 1] =
               IF n + 1 \in K THEN Append(KeptUpTo(t, K)[n], x) ELSE KeptUpTo(t, K)[n]
  <2> DEFINE a == KeptUpTo(t, K)
  <2>1. a = [k \in 0 .. Len(t) |->
               IF k = 0 THEN <<>>
               ELSE IF k \in K THEN Append(a[k - 1], t[k]) ELSE a[k - 1]]
    BY <1>1, KeptUpToIs
  <2> HIDE DEF a
  <2>2. n + 1 \in 0 .. Len(t) /\ n + 1 # 0 /\ (n + 1) - 1 = n
    BY <1>1
  <2> QED
    BY <1>1, <2>1, <2>2 DEF a
<1> QED
  BY <1>1, <1>2, <1>3, <1>4 DEF Sublist, t, n, J

\* One fact at a time, as the provers want them.
LEMMA SublistSkips ==
    ASSUME NEW S, NEW s \in Seq(S), NEW x \in S, NEW I, I \subseteq 1 .. Len(s)
    PROVE  Sublist(Append(s, x), I) = Sublist(s, I)
  BY SublistOfAppend, Zenon

LEMMA SublistTakes ==
    ASSUME NEW S, NEW s \in Seq(S), NEW x \in S, NEW I, I \subseteq 1 .. Len(s)
    PROVE  Sublist(Append(s, x), I \cup {Len(s) + 1}) = Append(Sublist(s, I), x)
  BY SublistOfAppend, Zenon

----------------------------------------------------------------------------
(* Sums                                                                     *)

\* The recursion of SumsUpTo defines a function.
LEMMA SumsUpToIs ==
    ASSUME NEW n \in Nat, NEW f
    PROVE  SumsUpTo(f, n) =
             [i \in 0 .. n |-> IF i = 0 THEN 0 ELSE SumsUpTo(f, n)[i - 1] + f[i]]
<1> DEFINE Def(g, i) == IF i = 0 THEN 0 ELSE g[i - 1] + f[i]
           Defines(g, k) == g = [i \in 0 .. k |-> Def(g, i)]
           T == {k \in 0 .. n : \E g : Defines(g, k)}
<1>1. 0 \in T
  <2> DEFINE h == [i \in 0 .. 0 |-> 0]
  <2>1. Defines(h, 0)
    OBVIOUS
  <2> HIDE DEF h, Defines
  <2> QED
    BY <2>1
<1>2. ASSUME NEW k \in 0 .. n - 1, k \in T PROVE k + 1 \in T
  <2>1. PICK g : Defines(g, k)
    BY <1>2
  <2> DEFINE h == [i \in 0 .. k + 1 |-> IF i = k + 1 THEN Def(g, i) ELSE g[i]]
  <2>2. ASSUME NEW i \in 0 .. k + 1 PROVE h[i] = Def(h, i)
    <3>1. CASE i = k + 1
      <4>1. i # 0 /\ i - 1 \in 0 .. k /\ h[i - 1] = g[i - 1]
        BY <3>1
      <4> QED
        BY <3>1, <4>1
    <3>2. CASE i \in 0 .. k
      <4>1. g[i] = Def(g, i)
        BY <2>1, <3>2
      <4>2. i # 0 => h[i - 1] = g[i - 1]
        BY <3>2
      <4> QED
        BY <3>2, <4>1, <4>2
    <3> QED
      BY <3>1, <3>2
  <2>3. Defines(h, k + 1)
    <3> HIDE DEF Def
    <3> QED
      BY <2>2
  <2> HIDE DEF h, Defines
  <2> QED
    BY <2>3
<1>3. n \in T
  <2> HIDE DEF T
  <2>1. 0 .. n \subseteq T
    BY <1>1, <1>2, InductionUpTo
  <2> QED
    BY <2>1
<1>4. \E g : Defines(g, n)
  BY <1>3
<1>5. SumsUpTo(f, n) = CHOOSE g : Defines(g, n)
  BY DEF SumsUpTo
<1>6. Defines(SumsUpTo(f, n), n)
  <2> HIDE DEF Defines
  <2> QED
    BY <1>4, <1>5
<1> QED
  BY <1>6

\* A sum of naturals is one, and it does not grow when its terms do not.
LEMMA SumIsMonotonic ==
    ASSUME NEW n \in Nat, NEW f \in [1 .. n -> Nat], NEW g \in [1 .. n -> Nat],
           \A i \in 1 .. n : f[i] <= g[i]
    PROVE  SumOf(f, n) \in Nat /\ SumOf(g, n) \in Nat /\ SumOf(f, n) <= SumOf(g, n)
<1> DEFINE a == SumsUpTo(f, n)
           b == SumsUpTo(g, n)
           T == {k \in 0 .. n : a[k] \in Nat /\ b[k] \in Nat /\ a[k] <= b[k]}
<1>1. /\ a[0] = 0 /\ b[0] = 0
      /\ \A i \in 1 .. n : a[i] = a[i - 1] + f[i] /\ b[i] = b[i - 1] + g[i]
  <2>1. /\ a = [i \in 0 .. n |-> IF i = 0 THEN 0 ELSE a[i - 1] + f[i]]
        /\ b = [i \in 0 .. n |-> IF i = 0 THEN 0 ELSE b[i - 1] + g[i]]
    BY SumsUpToIs
  <2> HIDE DEF a, b
  <2> QED
    BY <2>1
<1> HIDE DEF a, b
<1>2. 0 \in T
  BY <1>1
<1>3. ASSUME NEW k \in 0 .. n - 1, k \in T PROVE k + 1 \in T
  <2>1. k + 1 \in 1 .. n /\ (k + 1) - 1 = k
    OBVIOUS
  <2>2. /\ a[k + 1] = a[k] + f[k + 1] /\ b[k + 1] = b[k] + g[k + 1]
        /\ f[k + 1] \in Nat /\ g[k + 1] \in Nat /\ f[k + 1] <= g[k + 1]
    BY <1>1, <2>1
  <2> QED
    BY <1>3, <2>1, <2>2
<1>4. n \in T
  <2> HIDE DEF T
  <2>1. 0 .. n \subseteq T
    BY <1>2, <1>3, InductionUpTo
  <2> QED
    BY <2>1
<1> QED
  BY <1>4 DEF SumOf, a, b

==============================================================================
