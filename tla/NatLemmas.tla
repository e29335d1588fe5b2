------------------------------ MODULE NatLemmas ------------------------------
(***************************************************************************)
(* Max and Min of FiniteSetsExt are members of the set they are taken of;  *)
(* induction up to a number, and functions defined by recursion up to it,  *)
(* in forms without an operator parameter.                                 *)
(***************************************************************************)
EXTENDS Sums, FiniteSets, FiniteSetsExt, FiniteSetTheorems, SequenceTheorems,
        WellFoundedInduction, TLAPS

\* A non-empty set of naturals has a smallest element: of the intervals 0..x,
\* one is minimal under strict inclusion.
LEMMA MinOfNaturals ==
  ASSUME NEW S \in SUBSET Nat, S # {}
  PROVE  Min(S) \in S /\ \A y \in S : Min(S) <= y
<1>. DEFINE Intervals == {0..x : x \in S}
<1>1. Intervals \subseteq FiniteSubsetsOf(Nat)
  <2>1. \A x \in S : IsFiniteSet(0..x)
    BY FS_Interval
  <2>. QED BY <2>1 DEF FiniteSubsetsOf
<1>2. PICK I \in Intervals : \A J \in Intervals : ~ (<<J, I>> \in StrictSubsetOrdering(Nat))
  <2>1. Intervals # {}
    OBVIOUS
  <2>. QED BY <1>1, <2>1, FS_StrictSubsetOrderingWellFounded, WFMin
<1>3. PICK x \in S : I = 0..x
  BY <1>2
<1>4. \A y \in S : x <= y
  <2>. SUFFICES ASSUME NEW y \in S, y < x PROVE FALSE
    OBVIOUS
  <2>1. 0..y \in Intervals
    OBVIOUS
  <2>2. 0..y \subseteq 0..x /\ 0..y # 0..x
    <3>1. x \in 0..x /\ x \notin 0..y
      OBVIOUS
    <3>. QED BY <3>1
  <2>3. <<0..y, 0..x>> \in StrictSubsetOrdering(Nat)
    BY <2>2 DEF StrictSubsetOrdering
  <2>. QED BY <1>2, <1>3, <2>1, <2>3
<1>. QED BY <1>4 DEF Min

\* A non-empty set of naturals with an upper bound has a largest element.
LEMMA MaxOfNaturals ==
  ASSUME NEW n \in Nat, NEW S \in SUBSET (0..n), S # {}
  PROVE  Max(S) \in S /\ \A y \in S : y <= Max(S)
<1>. DEFINE Mirror == {n - x : x \in S}
<1>1. Mirror \in SUBSET Nat
  OBVIOUS
<1>2. Mirror # {}
  OBVIOUS
<1>3. Min(Mirror) \in Mirror /\ \A k \in Mirror : Min(Mirror) <= k
  BY <1>1, <1>2, MinOfNaturals
<1>4. PICK x \in S : Min(Mirror) = n - x
  BY <1>3
<1>5. \A y \in S : n - x <= n - y
  BY <1>3, <1>4
<1>6. \A y \in S : x >= y
  BY <1>5
<1>. QED BY <1>6 DEF Max

\* What holds of 0, and of a number when it holds of the one before, holds up to n.
LEMMA UpTo ==
  ASSUME NEW n \in Nat, NEW S, 0 \in S, \A k \in 1..n : k - 1 \in S => k \in S
  PROVE  0..n \subseteq S
<1>. SUFFICES ASSUME (0..n) \ S # {} PROVE FALSE
  OBVIOUS
<1>. DEFINE m == Min((0..n) \ S)
<1>1. m \in (0..n) \ S /\ \A y \in (0..n) \ S : m <= y
  BY MinOfNaturals
<1>. HIDE DEF m
<1>2. m \in 1..n /\ m - 1 \in 0..n
  BY <1>1
<1>3. m - 1 \in S
  BY <1>1, <1>2
<1>. QED BY <1>1, <1>2, <1>3

\* A first value and a step determine values up to n.
Recurs(f, n, first, step) == f[0] = first /\ \A k \in 1..n : f[k] = step[k][f[k - 1]]

LEMMA Recursion ==
  ASSUME NEW n \in Nat, NEW V, NEW first \in V, NEW step \in [1..n -> [V -> V]]
  PROVE  \E f \in [0..n -> V] : Recurs(f, n, first, step)
<1>. USE DEF Recurs
<1>. DEFINE Reaches(m) == \E f \in [0..m -> V] :
                              f[0] = first /\ \A k \in 1..m : f[k] = step[k][f[k - 1]]
            S == {m \in 0..n : Reaches(m)}
<1>1. Reaches(0)
  <2>. DEFINE g == [k \in 0..0 |-> first]
  <2>1. g \in [0..0 -> V] /\ g[0] = first /\ \A k \in 1..0 : g[k] = step[k][g[k - 1]]
    OBVIOUS
  <2>. HIDE DEF g
  <2>. QED BY <2>1
<1>2. ASSUME NEW m \in 1..n, Reaches(m - 1) PROVE Reaches(m)
  <2>1. PICK f \in [0..(m - 1) -> V] :
            f[0] = first /\ \A k \in 1..(m - 1) : f[k] = step[k][f[k - 1]]
    BY <1>2
  <2>. DEFINE g == [k \in 0..m |-> IF k = m THEN step[m][f[m - 1]] ELSE f[k]]
  <2>2. step[m][f[m - 1]] \in V
    <3>1. m - 1 \in 0..(m - 1)
      OBVIOUS
    <3>. QED BY <3>1
  <2>3. \A k \in 0..m : k # m => k \in 0..(m - 1)
    OBVIOUS
  <2>4. g \in [0..m -> V]
    BY <2>2, <2>3
  <2>5. g[0] = first
    BY <2>1
  <2>6. ASSUME NEW k \in 1..m PROVE g[k] = step[k][g[k - 1]]
    <3>1. k \in 0..m /\ k - 1 \in 0..m /\ k - 1 # m
      OBVIOUS
    <3>2. g[k - 1] = f[k - 1]
      BY <3>1
    <3>3. CASE k = m
      BY <3>1, <3>2, <3>3
    <3>4. CASE k # m
      <4>1. k \in 1..(m - 1) /\ g[k] = f[k]
        BY <3>1, <3>4
      <4>. QED BY <2>1, <3>2, <4>1
    <3>. QED BY <3>3, <3>4
  <2>. HIDE DEF g
  <2>. QED BY <2>4, <2>5, <2>6
<1>. HIDE DEF Reaches
<1>3. 0..n \subseteq S
  <2>1. 0 \in S
    BY <1>1
  <2>2. \A k \in 1..n : k - 1 \in S => k \in S
    BY <1>2
  <2>. HIDE DEF S
  <2>. QED BY <2>1, <2>2, UpTo
<1>4. Reaches(n)
  BY <1>3
<1>. QED BY <1>4 DEF Reaches

\* The partial sums of a sequence of integers.
LEMMA PartialSums ==
  ASSUME NEW s \in Seq(Int)
  PROVE  \E f \in [0..Len(s) -> Int] : /\ f[0] = 0 /\ Total(s) = f[Len(s)]
                                       /\ \A k \in 1..Len(s) : f[k] = f[k - 1] + s[k]
<1>. DEFINE n == Len(s)
            Is(f) == f = [k \in 0..n |-> IF k = 0 THEN 0 ELSE f[k - 1] + s[k]]
            step == [k \in 1..n |-> [v \in Int |-> v + s[k]]]
            sum == CHOOSE f : Is(f)
<1>1. n \in Nat /\ \A k \in 1..n : s[k] \in Int
  BY ElementOfSeq, LenProperties
<1>2. step \in [1..n -> [Int -> Int]]
  BY <1>1
<1>3. PICK f \in [0..n -> Int] : f[0] = 0 /\ \A k \in 1..n : f[k] = step[k][f[k - 1]]
  <2>1. 0 \in Int
    OBVIOUS
  <2>. HIDE DEF n, step
  <2>2. \E f \in [0..n -> Int] : Recurs(f, n, 0, step)
    BY <1>1, <1>2, <2>1, Recursion
  <2>. QED BY <2>2 DEF Recurs
<1>4. Is(f)
  <2>1. \A k \in 1..n : k - 1 \in 0..n
    BY <1>1
  <2>2. \A k \in 1..n : f[k] = f[k - 1] + s[k]
    BY <1>3, <2>1
  <2>. QED BY <1>1, <1>3, <2>2
<1>. HIDE DEF Is
<1>5. Is(sum)
  BY <1>4
<1>6. Total(s) = sum[n]
  BY DEF Total, Is
<1>7. sum \in [0..n -> Int] /\ sum[0] = 0 /\ \A k \in 1..n : sum[k] = sum[k - 1] + s[k]
  <2>. HIDE DEF sum
  <2>1. sum = [k \in 0..n |-> IF k = 0 THEN 0 ELSE sum[k - 1] + s[k]]
    BY <1>5 DEF Is
  <2>. HIDE DEF n
  <2>2. sum[0] = 0 /\ \A k \in 1..n : sum[k] = sum[k - 1] + s[k]
    BY <1>1, <2>1
  <2>. DEFINE S == {k \in 0..n : sum[k] \in Int}
  <2>3. ASSUME NEW k \in 1..n, k - 1 \in S PROVE k \in S
    <3>1. sum[k] = sum[k - 1] + s[k] /\ s[k] \in Int /\ sum[k - 1] \in Int
      BY <1>1, <2>2, <2>3
    <3>2. k \in 0..n /\ sum[k] \in Int
      BY <1>1, <3>1
    <3>. QED BY <3>2
  <2>4. 0..n \subseteq S
    <3>1. 0 \in S
      BY <1>1, <2>2
    <3>. HIDE DEF S
    <3>. QED BY <1>1, <2>3, <3>1, UpTo
  <2>. QED BY <2>1, <2>2, <2>4
<1>. QED BY <1>6, <1>7

\* Equal recurrences have equal values, up to the length they share.
LEMMA TotalOfAppend ==
  ASSUME NEW s \in Seq(Int), NEW x \in Int
  PROVE  Total(Append(s, x)) = Total(s) + x /\ Total(s) \in Int /\ Total(Append(s, x)) \in Int
<1>. DEFINE n == Len(s)
            t == Append(s, x)
<1>1. /\ t \in Seq(Int) /\ Len(t) = n + 1 /\ t[n + 1] = x /\ n \in Nat
      /\ \A k \in 1..n : t[k] = s[k] /\ s[k] \in Int
  BY AppendProperties, ElementOfSeq, LenProperties
<1>2. PICK f \in [0..n -> Int] : /\ f[0] = 0 /\ Total(s) = f[n]
                                 /\ \A k \in 1..n : f[k] = f[k - 1] + s[k]
  BY PartialSums
<1>. HIDE DEF t, n
<1>3. PICK g \in [0..(n + 1) -> Int] : /\ g[0] = 0 /\ Total(t) = g[n + 1]
                                       /\ \A k \in 1..(n + 1) : g[k] = g[k - 1] + t[k]
  <2>1. \E g \in [0..Len(t) -> Int] : /\ g[0] = 0 /\ Total(t) = g[Len(t)]
                                      /\ \A k \in 1..Len(t) : g[k] = g[k - 1] + t[k]
    BY <1>1, PartialSums
  <2>. QED BY <1>1, <2>1
<1>4. 0..n \subseteq {k \in 0..n : g[k] = f[k]}
  <2>. DEFINE S == {k \in 0..n : g[k] = f[k]}
  <2>1. 0 \in S
    BY <1>1, <1>2, <1>3
  <2>2. ASSUME NEW k \in 1..n, k - 1 \in S PROVE k \in S
    BY <1>1, <1>2, <1>3, <2>2
  <2>. HIDE DEF S
  <2>3. 0..n \subseteq S
    BY <1>1, <2>1, <2>2, UpTo
  <2>. QED BY <2>3 DEF S
<1>5. g[n] = f[n] /\ n \in 0..n /\ g[n + 1] = g[n] + x
  BY <1>1, <1>3, <1>4
<1>. QED BY <1>1, <1>2, <1>3, <1>5 DEF t

\* A sum over a function on 1..n is the last of its partial sums.
LEMMA SumUp ==
  ASSUME NEW n \in Nat, NEW s \in [1..n -> Int]
  PROVE  /\ Total(s) \in Int
         /\ \E f \in [0..n -> Int] : /\ f[0] = 0 /\ Total(s) = f[n]
                                     /\ \A k \in 1..n : f[k] = f[k - 1] + s[k]
<1>1. s \in Seq(Int) /\ Len(s) = n
  <2>1. s \in Seq(Int)
    BY SeqDef
  <2>. QED BY <2>1, LenProperties
<1>2. PICK f \in [0..n -> Int] : /\ f[0] = 0 /\ Total(s) = f[n]
                                 /\ \A k \in 1..n : f[k] = f[k - 1] + s[k]
  <2>1. \E f \in [0..Len(s) -> Int] : /\ f[0] = 0 /\ Total(s) = f[Len(s)]
                                      /\ \A k \in 1..Len(s) : f[k] = f[k - 1] + s[k]
    BY <1>1, PartialSums
  <2>. QED BY <1>1, <2>1
<1>. QED BY <1>2

\* Term by term, sums add up.
LEMMA SumOfSums ==
  ASSUME NEW n \in Nat, NEW r \in [1..n -> Int], NEW s \in [1..n -> Int],
         NEW t \in [1..n -> Int], \A k \in 1..n : t[k] = r[k] + s[k]
  PROVE  Total(t) = Total(r) + Total(s)
<1>1. PICK f \in [0..n -> Int] : /\ f[0] = 0 /\ Total(r) = f[n]
                                 /\ \A k \in 1..n : f[k] = f[k - 1] + r[k]
  BY SumUp
<1>2. PICK g \in [0..n -> Int] : /\ g[0] = 0 /\ Total(s) = g[n]
                                 /\ \A k \in 1..n : g[k] = g[k - 1] + s[k]
  BY SumUp
<1>3. PICK h \in [0..n -> Int] : /\ h[0] = 0 /\ Total(t) = h[n]
                                 /\ \A k \in 1..n : h[k] = h[k - 1] + t[k]
  BY SumUp
<1>. DEFINE S == {k \in 0..n : h[k] = f[k] + g[k]}
<1>4. 0 \in S
  BY <1>1, <1>2, <1>3
<1>5. ASSUME NEW k \in 1..n, k - 1 \in S PROVE k \in S
  <2>1. k - 1 \in 0..n /\ h[k - 1] = f[k - 1] + g[k - 1]
    BY <1>5
  <2>2. /\ f[k - 1] \in Int /\ g[k - 1] \in Int /\ r[k] \in Int /\ s[k] \in Int
    BY <2>1
  <2>. QED BY <1>1, <1>2, <1>3, <2>1, <2>2
<1>6. 0..n \subseteq S
  <2>. HIDE DEF S
  <2>. QED BY <1>4, <1>5, UpTo
<1>7. n \in S
  BY <1>6
<1>. QED BY <1>1, <1>2, <1>3, <1>7

\* A sum of nothing.
LEMMA SumOfNothing ==
  ASSUME NEW n \in Nat, NEW s \in [1..n -> Int], \A k \in 1..n : s[k] = 0
  PROVE  Total(s) = 0
<1>1. \A k \in 1..n : s[k] = s[k] + s[k]
  OBVIOUS
<1>2. Total(s) = Total(s) + Total(s)
  BY <1>1, SumOfSums
<1>3. Total(s) \in Int
  BY SumUp
<1>. QED BY <1>2, <1>3
=============================================================================
