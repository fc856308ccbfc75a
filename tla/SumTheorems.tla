---------------------------- MODULE SumTheorems ----------------------------
(* Sums of a function over a finite set (SumFunctionOnSet), for the proofs *)
(* about what the code keeps up to date by differences.  The library's     *)
(* induction theorems cannot be instantiated, so an induction here is the  *)
(* search for a least counterexample.  The last part is about counters     *)
(* that wrap around.                                                       *)
EXTENDS Integers, FiniteSetsExt, FiniteSetTheorems, WellFoundedInduction, TLAPS

\* A nonempty set of natural numbers has a least element.
LEMMA LeastNat ==
    ASSUME NEW T \in SUBSET Nat, T # {}
    PROVE  \E n \in T : \A m \in T : n <= m
<1> DEFINE R == OpToRel(<, Nat)
<1>1. \E n \in T : \A m \in T : <<m, n>> \notin R BY WFMin, NatLessThanWellFounded, Zenon
<1>2. \A m, n \in Nat : m < n => <<m, n>> \in R BY DEF OpToRel
<1> HIDE DEF R
<1>3. PICK n \in T : \A m \in T : <<m, n>> \notin R BY <1>1
<1>4. \A m \in T : ~(m < n) BY <1>2, <1>3
<1> QED BY <1>4

\* A nonempty collection of finite sets has a member with fewest elements.
LEMMA SmallestSet ==
    ASSUME NEW C, C # {}, \A s \in C : IsFiniteSet(s)
    PROVE  \E s \in C : \A t \in C : Cardinality(s) <= Cardinality(t)
<1> DEFINE T == {n \in Nat : \E s \in C : Cardinality(s) = n}
<1>1. T \subseteq Nat /\ T # {} BY FS_CardinalityType
<1>2. PICK n \in T : \A m \in T : n <= m
  <2> HIDE DEF T
  <2> QED BY <1>1, LeastNat
<1> QED BY <1>2, FS_CardinalityType

-----------------------------------------------------------------------------
\* The element the fold takes out of a set, and what it leaves.
Pick(s) == CHOOSE x \in s : TRUE
Rest(s) == s \ {Pick(s)}

\* g is the sum of f for every set in D, D being closed under Rest.
IsSumOn(g, f, D) == g = [s \in D |-> IF s = {} THEN 0 ELSE f[Pick(s)] + g[Rest(s)]]
IsSum(g, f, S) == IsSumOn(g, f, SUBSET S)

\* The subsets of S with at most n elements.
Small(S, n) == {s \in SUBSET S : Cardinality(s) <= n}

LEMMA RestSmaller ==
    ASSUME NEW s, IsFiniteSet(s), s # {}
    PROVE  /\ Pick(s) \in s /\ Rest(s) \subseteq s /\ IsFiniteSet(Rest(s))
           /\ Cardinality(s) \in Nat /\ Cardinality(s) > 0 /\ Cardinality(Rest(s)) = Cardinality(s) - 1
<1>1. Pick(s) \in s BY DEF Pick
<1>2. Cardinality(s) \in Nat /\ Cardinality(s) # 0 BY FS_CardinalityType, FS_EmptySet
<1>3. IsFiniteSet(Rest(s)) /\ Cardinality(Rest(s)) = Cardinality(s) - 1
  BY <1>1, FS_RemoveElement DEF Rest
<1> QED BY <1>1, <1>2, <1>3 DEF Rest

\* The fold is well defined: the equation has a solution.
LEMMA SumExists ==
    ASSUME NEW f, NEW S, IsFiniteSet(S)
    PROVE  \E g : IsSum(g, f, S)
<1> DEFINE T == {n \in Nat : ~ \E g : IsSumOn(g, f, Small(S, n))}
<1>1. T = {}
  <2> SUFFICES ASSUME T # {} PROVE FALSE OBVIOUS
  <2>1. PICK n \in T : \A m \in T : n <= m
    <3> HIDE DEF T
    <3>1. T \subseteq Nat BY DEF T
    <3> QED BY <3>1, LeastNat
  <2>2. \A s \in SUBSET S : IsFiniteSet(s) /\ Cardinality(s) \in Nat
    BY FS_Subset, FS_CardinalityType
  <2>3. CASE n = 0
    <3>1. Small(S, 0) = {{}} BY <2>2, FS_EmptySet DEF Small
    <3>2. IsSumOn([s \in {{}} |-> 0], f, {{}}) BY DEF IsSumOn
    <3> QED BY <2>1, <2>3, <3>1, <3>2
  <2>4. CASE n # 0
    <3>1. n - 1 \in Nat /\ n \in Nat /\ n - 1 \notin T BY <2>1, <2>4
    <3>2. PICK g : IsSumOn(g, f, Small(S, n - 1)) BY <3>1
    <3> DEFINE h == [s \in Small(S, n) |-> IF s = {} THEN 0 ELSE f[Pick(s)] + g[Rest(s)]]
    <3>3. \A s \in Small(S, n) : s # {} => Rest(s) \in Small(S, n - 1) /\ Rest(s) \in Small(S, n)
      BY <2>2, <3>1, RestSmaller DEF Small
    <3>4. Small(S, n - 1) \subseteq Small(S, n) BY <2>2, <3>1 DEF Small
    <3>5. \A s \in Small(S, n - 1) : g[s] = IF s = {} THEN 0 ELSE f[Pick(s)] + g[Rest(s)]
      BY <3>2 DEF IsSumOn
    <3>6. \A s \in Small(S, n - 1) : h[s] = g[s] BY <3>4, <3>5
    <3>7. h = [s \in Small(S, n) |-> IF s = {} THEN 0 ELSE f[Pick(s)] + h[Rest(s)]]
      BY <3>3, <3>6
    <3>8. IsSumOn(h, f, Small(S, n)) BY <3>7 DEF IsSumOn
    <3> QED BY <2>1, <3>8
  <2> QED BY <2>3, <2>4
<1>2. Cardinality(S) \in Nat BY FS_CardinalityType
<1>3. Small(S, Cardinality(S)) = SUBSET S BY FS_Subset DEF Small
<1>4. PICK g : IsSumOn(g, f, Small(S, Cardinality(S))) BY <1>1, <1>2
<1>5. IsSum(g, f, S) BY <1>3, <1>4 DEF IsSum, IsSumOn
<1> QED BY <1>5

\* A solution for a set agrees with the solution for one of its subsets.
LEMMA SumUnique ==
    ASSUME NEW f, NEW S, IsFiniteSet(S), NEW S2 \in SUBSET S,
           NEW g, IsSum(g, f, S), NEW h, IsSum(h, f, S2)
    PROVE  g[S2] = h[S2]
<1> DEFINE Bad == {s \in SUBSET S2 : g[s] # h[s]}
<1>1. \A s \in SUBSET S2 : IsFiniteSet(s) /\ Cardinality(s) \in Nat
  BY FS_Subset, FS_CardinalityType
<1>2. SUFFICES ASSUME NEW s0 \in Bad PROVE FALSE OBVIOUS
<1>3. PICK s \in Bad : \A t \in Bad : Cardinality(s) <= Cardinality(t)
  <2>1. Bad # {} /\ \A s \in Bad : IsFiniteSet(s) BY <1>1, <1>2
  <2> HIDE DEF Bad
  <2> QED BY <2>1, SmallestSet
<1>4. /\ g[s] = IF s = {} THEN 0 ELSE f[Pick(s)] + g[Rest(s)]
      /\ h[s] = IF s = {} THEN 0 ELSE f[Pick(s)] + h[Rest(s)]
  BY <1>3 DEF IsSum, IsSumOn
<1>5. s # {} BY <1>3, <1>4
<1>6. Cardinality(Rest(s)) < Cardinality(s) /\ Rest(s) \subseteq s
  BY <1>1, <1>3, <1>5, RestSmaller
<1>7. Rest(s) \notin Bad BY <1>1, <1>3, <1>6
<1> QED BY <1>3, <1>4, <1>5, <1>6, <1>7

\* What SumFunctionOnSet is: the value of a solution.
LEMMA SumValue ==
    ASSUME NEW f, NEW S, IsFiniteSet(S)
    PROVE  \E g : IsSum(g, f, S) /\ SumFunctionOnSet(f, S) = g[S]
<1> DEFINE g == CHOOSE g : IsSum(g, f, S)
<1>1. IsSum(g, f, S) BY SumExists
<1>2. SumFunctionOnSet(f, S) = g[S]
  BY DEF SumFunctionOnSet, FoldFunctionOnSet, MapThenFoldSet, IsSum, IsSumOn, Pick, Rest
<1> QED BY <1>1, <1>2

\* The recursion of the sum.
LEMMA SumPick ==
    ASSUME NEW f, NEW S, IsFiniteSet(S)
    PROVE  SumFunctionOnSet(f, S) = IF S = {} THEN 0 ELSE f[Pick(S)] + SumFunctionOnSet(f, Rest(S))
<1>1. PICK g : IsSum(g, f, S) /\ SumFunctionOnSet(f, S) = g[S] BY SumValue
<1>2. g[S] = IF S = {} THEN 0 ELSE f[Pick(S)] + g[Rest(S)] BY <1>1 DEF IsSum, IsSumOn
<1>3. CASE S # {}
  <2>1. IsFiniteSet(Rest(S)) /\ Rest(S) \subseteq S BY <1>3, RestSmaller
  <2>2. PICK h : IsSum(h, f, Rest(S)) /\ SumFunctionOnSet(f, Rest(S)) = h[Rest(S)]
    BY <2>1, SumValue
  <2>3. g[Rest(S)] = h[Rest(S)]
    <3> DEFINE R == Rest(S)
    <3>1. R \in SUBSET S /\ IsSum(g, f, S) /\ IsSum(h, f, R) BY <1>1, <2>1, <2>2
    <3> HIDE DEF R
    <3>2. g[R] = h[R] BY <3>1, SumUnique
    <3> QED BY <3>2 DEF R
  <2> QED BY <1>1, <1>2, <1>3, <2>2, <2>3
<1> QED BY <1>1, <1>2, <1>3

-----------------------------------------------------------------------------
\* The sum over no element.
LEMMA SumEmpty == \A f : SumFunctionOnSet(f, {}) = 0
BY SumPick, FS_EmptySet

\* A sum of integers is one, of naturals too; equal summands give equal sums.
LEMMA SumType ==
    ASSUME NEW S, IsFiniteSet(S), NEW f, \A x \in S : f[x] \in Int
    PROVE  SumFunctionOnSet(f, S) \in Int
<1> DEFINE Bad == {s \in SUBSET S : SumFunctionOnSet(f, s) \notin Int}
<1>1. \A s \in SUBSET S : IsFiniteSet(s) /\ Cardinality(s) \in Nat
  BY FS_Subset, FS_CardinalityType
<1>2. SUFFICES ASSUME NEW s0 \in Bad PROVE FALSE OBVIOUS
<1>3. PICK s \in Bad : \A t \in Bad : Cardinality(s) <= Cardinality(t)
  <2>1. Bad # {} /\ \A s \in Bad : IsFiniteSet(s) BY <1>1, <1>2
  <2> HIDE DEF Bad
  <2> QED BY <2>1, SmallestSet
<1>5. SumFunctionOnSet(f, s) = IF s = {} THEN 0 ELSE f[Pick(s)] + SumFunctionOnSet(f, Rest(s))
  BY <1>1, <1>3, SumPick
<1>6. s # {} BY <1>3, <1>5
<1>7. Cardinality(Rest(s)) < Cardinality(s) /\ Rest(s) \subseteq s /\ Pick(s) \in s
  BY <1>1, <1>3, <1>6, RestSmaller
<1>8. Rest(s) \notin Bad BY <1>1, <1>3, <1>7
<1> QED BY <1>3, <1>5, <1>6, <1>7, <1>8

LEMMA SumNat ==
    ASSUME NEW S, IsFiniteSet(S), NEW f, \A x \in S : f[x] \in Nat
    PROVE  SumFunctionOnSet(f, S) \in Nat
<1> DEFINE Bad == {s \in SUBSET S : SumFunctionOnSet(f, s) \notin Nat}
<1>1. \A s \in SUBSET S : IsFiniteSet(s) /\ Cardinality(s) \in Nat
  BY FS_Subset, FS_CardinalityType
<1>2. SUFFICES ASSUME NEW s0 \in Bad PROVE FALSE OBVIOUS
<1>3. PICK s \in Bad : \A t \in Bad : Cardinality(s) <= Cardinality(t)
  <2>1. Bad # {} /\ \A s \in Bad : IsFiniteSet(s) BY <1>1, <1>2
  <2> HIDE DEF Bad
  <2> QED BY <2>1, SmallestSet
<1>5. SumFunctionOnSet(f, s) = IF s = {} THEN 0 ELSE f[Pick(s)] + SumFunctionOnSet(f, Rest(s))
  BY <1>1, <1>3, SumPick
<1>6. s # {} BY <1>3, <1>5
<1>7. Cardinality(Rest(s)) < Cardinality(s) /\ Rest(s) \subseteq s /\ Pick(s) \in s
  BY <1>1, <1>3, <1>6, RestSmaller
<1>8. Rest(s) \notin Bad BY <1>1, <1>3, <1>7
<1> QED BY <1>3, <1>5, <1>6, <1>7, <1>8

LEMMA SumSame ==
    ASSUME NEW S, IsFiniteSet(S), NEW f, NEW g, \A x \in S : f[x] = g[x]
    PROVE  SumFunctionOnSet(f, S) = SumFunctionOnSet(g, S)
<1> DEFINE Bad == {s \in SUBSET S : SumFunctionOnSet(f, s) # SumFunctionOnSet(g, s)}
<1>1. \A s \in SUBSET S : IsFiniteSet(s) /\ Cardinality(s) \in Nat
  BY FS_Subset, FS_CardinalityType
<1>2. SUFFICES ASSUME NEW s0 \in Bad PROVE FALSE OBVIOUS
<1>3. PICK s \in Bad : \A t \in Bad : Cardinality(s) <= Cardinality(t)
  <2>1. Bad # {} /\ \A s \in Bad : IsFiniteSet(s) BY <1>1, <1>2
  <2> HIDE DEF Bad
  <2> QED BY <2>1, SmallestSet
<1>5. /\ SumFunctionOnSet(f, s) = IF s = {} THEN 0 ELSE f[Pick(s)] + SumFunctionOnSet(f, Rest(s))
      /\ SumFunctionOnSet(g, s) = IF s = {} THEN 0 ELSE g[Pick(s)] + SumFunctionOnSet(g, Rest(s))
  BY <1>1, <1>3, SumPick
<1>6. s # {} BY <1>3, <1>5
<1>7. Cardinality(Rest(s)) < Cardinality(s) /\ Rest(s) \subseteq s /\ Pick(s) \in s
  BY <1>1, <1>3, <1>6, RestSmaller
<1>8. Rest(s) \notin Bad BY <1>1, <1>3, <1>7
<1> QED BY <1>3, <1>5, <1>6, <1>7, <1>8

\* Any element can be taken out, not only the one the fold takes.
LEMMA SumRemove ==
    ASSUME NEW S, IsFiniteSet(S), NEW f, \A x \in S : f[x] \in Int, NEW x \in S
    PROVE  SumFunctionOnSet(f, S) = f[x] + SumFunctionOnSet(f, S \ {x})
<1> DEFINE Sum(s) == SumFunctionOnSet(f, s)
           Bad == {s \in SUBSET S : \E y \in s : Sum(s) # f[y] + Sum(s \ {y})}
<1>1. \A s \in SUBSET S : IsFiniteSet(s) /\ Cardinality(s) \in Nat /\ Sum(s) \in Int
  <2>1. \A s \in SUBSET S : IsFiniteSet(s) /\ Cardinality(s) \in Nat BY FS_Subset, FS_CardinalityType
  <2> QED BY <2>1, SumType
<1>2. SUFFICES ASSUME NEW s0 \in Bad PROVE FALSE OBVIOUS
<1>3. PICK s \in Bad : \A t \in Bad : Cardinality(s) <= Cardinality(t)
  <2>1. Bad # {} /\ \A s \in Bad : IsFiniteSet(s) BY <1>1, <1>2
  <2> HIDE DEF Bad
  <2> QED BY <2>1, SmallestSet
<1>5. PICK y \in s : Sum(s) # f[y] + Sum(s \ {y}) BY <1>3
<1> DEFINE p == Pick(s)
<1>6. /\ Cardinality(Rest(s)) < Cardinality(s) /\ p \in s /\ Rest(s) = s \ {p}
      /\ Cardinality(s \ {y}) < Cardinality(s)
  <2>1. IsFiniteSet(s) /\ s # {} /\ Cardinality(s) \in Nat BY <1>1, <1>3, <1>5
  <2>2. Cardinality(Rest(s)) < Cardinality(s) /\ p \in s BY <2>1, RestSmaller
  <2>3. Cardinality(s \ {y}) = Cardinality(s) - 1 BY <1>5, <2>1, FS_RemoveElement
  <2>4. Cardinality(s \ {y}) < Cardinality(s) BY <2>1, <2>3
  <2> QED BY <2>2, <2>4 DEF Rest
<1>7. Rest(s) \notin Bad /\ s \ {y} \notin Bad BY <1>1, <1>3, <1>6, SMTT(30)
<1> HIDE DEF p
<1>8. Sum(s) = f[p] + Sum(s \ {p}) BY <1>1, <1>3, <1>5, <1>6, SumPick DEF p
<1>9. y # p BY <1>5, <1>8
<1>10. Sum(s \ {p}) = f[y] + Sum((s \ {p}) \ {y}) BY <1>3, <1>5, <1>6, <1>7, <1>9
<1>11. Sum(s \ {y}) = f[p] + Sum((s \ {y}) \ {p}) BY <1>3, <1>5, <1>6, <1>7, <1>9
<1>12. (s \ {y}) \ {p} = (s \ {p}) \ {y} OBVIOUS
<1>13. Sum((s \ {p}) \ {y}) \in Int /\ f[y] \in Int /\ f[p] \in Int BY <1>1, <1>3, <1>5, <1>6
<1> HIDE DEF Sum
<1> QED BY <1>5, <1>8, <1>10, <1>11, <1>12, <1>13, SMTT(30)

\* An element is added.
LEMMA SumAdd ==
    ASSUME NEW S, IsFiniteSet(S), NEW x, x \notin S, NEW f, \A y \in S \cup {x} : f[y] \in Int
    PROVE  SumFunctionOnSet(f, S \cup {x}) = SumFunctionOnSet(f, S) + f[x]
<1> DEFINE U == S \cup {x}
<1>1. IsFiniteSet(U) /\ x \in U BY FS_AddElement
<1>2. U \ {x} = S OBVIOUS
<1>3. \A y \in U : f[y] \in Int OBVIOUS
<1>4. SumFunctionOnSet(f, S) \in Int BY SumType
<1> HIDE DEF U
<1>5. SumFunctionOnSet(f, U) = f[x] + SumFunctionOnSet(f, U \ {x}) BY <1>1, <1>3, SumRemove
<1>6. SumFunctionOnSet(f, U) = f[x] + SumFunctionOnSet(f, S) BY <1>2, <1>5, Zenon
<1>7. SumFunctionOnSet(f, U) = SumFunctionOnSet(f, S) + f[x] BY <1>1, <1>3, <1>4, <1>6
<1> QED BY <1>7 DEF U

\* One summand changes.
LEMMA SumChange ==
    ASSUME NEW S, IsFiniteSet(S), NEW x \in S, NEW f, NEW g,
           \A y \in S : f[y] \in Int /\ g[y] \in Int, \A y \in S \ {x} : f[y] = g[y]
    PROVE  SumFunctionOnSet(g, S) = SumFunctionOnSet(f, S) - f[x] + g[x]
<1> DEFINE R == S \ {x}
<1>1. IsFiniteSet(R) BY FS_RemoveElement
<1>2. SumFunctionOnSet(f, S) = f[x] + SumFunctionOnSet(f, R) BY SumRemove
<1>3. SumFunctionOnSet(g, S) = g[x] + SumFunctionOnSet(g, R) BY SumRemove
<1>4. \A y \in R : f[y] \in Int /\ f[y] = g[y] OBVIOUS
<1> HIDE DEF R
<1>5. SumFunctionOnSet(f, R) = SumFunctionOnSet(g, R) /\ SumFunctionOnSet(f, R) \in Int
  BY <1>1, <1>4, SumSame, SumType
<1> QED BY <1>2, <1>3, <1>5

\* A natural summand is at most the sum.
LEMMA SumAtLeast ==
    ASSUME NEW S, IsFiniteSet(S), NEW x \in S, NEW f, \A y \in S : f[y] \in Nat
    PROVE  f[x] <= SumFunctionOnSet(f, S)
<1> DEFINE R == S \ {x}
<1>1. IsFiniteSet(R) BY FS_RemoveElement
<1>2. SumFunctionOnSet(f, S) = f[x] + SumFunctionOnSet(f, R) BY SumRemove
<1>3. \A y \in R : f[y] \in Nat OBVIOUS
<1> HIDE DEF R
<1>4. SumFunctionOnSet(f, R) \in Nat BY <1>1, <1>3, SumNat
<1> QED BY <1>2, <1>4

\* A sum of zeros is zero.
LEMMA SumZero ==
    ASSUME NEW S, IsFiniteSet(S), NEW f, \A x \in S : f[x] = 0
    PROVE  SumFunctionOnSet(f, S) = 0
<1> DEFINE Bad == {s \in SUBSET S : SumFunctionOnSet(f, s) # 0}
<1>1. \A s \in SUBSET S : IsFiniteSet(s) /\ Cardinality(s) \in Nat
  BY FS_Subset, FS_CardinalityType
<1>2. SUFFICES ASSUME NEW s0 \in Bad PROVE FALSE OBVIOUS
<1>3. PICK s \in Bad : \A t \in Bad : Cardinality(s) <= Cardinality(t)
  <2>1. Bad # {} /\ \A s \in Bad : IsFiniteSet(s) BY <1>1, <1>2
  <2> HIDE DEF Bad
  <2> QED BY <2>1, SmallestSet
<1>4. s # {} BY SumEmpty
<1>5. PICK x : x \in s BY <1>4
<1> DEFINE r == s \ {x}
<1>6. IsFiniteSet(s) /\ x \in S /\ r \subseteq S BY <1>1, <1>5
<1>7. Cardinality(r) = Cardinality(s) - 1 BY <1>5, <1>6, FS_RemoveElement
<1>8. SumFunctionOnSet(f, s) = f[x] + SumFunctionOnSet(f, r)
  <2>1. \A y \in s : f[y] \in Int OBVIOUS
  <2> QED BY <1>5, <1>6, <2>1, SumRemove
<1> HIDE DEF r
<1>9. SumFunctionOnSet(f, r) = 0 BY <1>1, <1>3, <1>6, <1>7
<1> QED BY <1>3, <1>6, <1>8, <1>9

-----------------------------------------------------------------------------
(* Counters that wrap. *)

\* Quotient and remainder ...
LEMMA DivMod ==
    ASSUME NEW a \in Int, NEW m \in Nat \ {0}
    PROVE  a \div m \in Int /\ a % m \in 0..(m - 1) /\ a = m * (a \div m) + (a % m)
OBVIOUS

\* ... are unique,
LEMMA RemainderUnique ==
    ASSUME NEW m \in Nat \ {0}, NEW q \in Int, NEW r \in 0..(m - 1),
           NEW p \in Int, NEW s \in 0..(m - 1), m * q + r = m * p + s
    PROVE  r = s
<1>1. m * (q - p) = s - r OBVIOUS
<1>2. CASE q - p >= 1
  <2>1. m * (q - p) >= m BY <1>2
  <2> QED BY <1>1, <2>1
<1>3. CASE q - p <= -1
  <2>1. m * (q - p) <= -m BY <1>3
  <2> QED BY <1>1, <2>1
<1>4. CASE q = p BY <1>4
<1> QED BY <1>2, <1>3, <1>4

\* so a counter may be reduced after every addition or once at the end.
LEMMA ModAdd ==
    ASSUME NEW a \in Int, NEW b \in Int, NEW m \in Nat \ {0}
    PROVE  ((a % m) + b) % m = (a + b) % m
<1> DEFINE r == a % m
           x == r + b
           y == a + b
           k == a \div m
           i == x \div m
           j == y \div m
<1>1. k \in Int /\ r \in Int /\ a = m * k + r BY DivMod
<1>2. x \in Int /\ i \in Int /\ x % m \in 0..(m - 1) /\ x = m * i + (x % m)
  <2>1. x \in Int BY <1>1
  <2> HIDE DEF x
  <2> QED BY <2>1, DivMod
<1>3. y \in Int /\ j \in Int /\ y % m \in 0..(m - 1) /\ y = m * j + (y % m)
  <2>1. y \in Int BY <1>1
  <2> HIDE DEF y
  <2> QED BY <2>1, DivMod
<1> HIDE DEF k, r
<1>4. y = m * k + x BY <1>1
<1> HIDE DEF x, y, i, j
<1>5. m * (k + i) = m * k + m * i BY <1>1, <1>2
<1>6. m * (k + i) + (x % m) = m * j + (y % m) BY <1>1, <1>2, <1>3, <1>4, <1>5
<1>7. k + i \in Int BY <1>1, <1>2
<1>8. x % m = y % m BY <1>2, <1>3, <1>6, <1>7, RemainderUnique
<1> QED BY <1>8 DEF x, y, r
=============================================================================
