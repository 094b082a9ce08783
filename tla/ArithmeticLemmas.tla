-------------------------- MODULE ArithmeticLemmas --------------------------
(***************************************************************************)
(* Facts about products, quotients and remainders that the index           *)
(* arithmetic of the components rests on, and about the order of numbers   *)
(* and the number of elements of a set that their numberings rest on.      *)
(***************************************************************************)
EXTENDS Ordered, FiniteSetTheorems, SequenceTheorems, TLAPS

(* Division with remainder. *)
LEMMA DivMod ==
  ASSUME NEW a \in Nat, NEW b \in Nat \ {0}
  PROVE  a \div b \in Nat /\ a % b \in 0..b-1 /\ a = b * (a \div b) + (a % b)
OBVIOUS

(* Products of naturals are naturals and grow with each factor. *)
LEMMA ProductGrows ==
  ASSUME NEW a \in Nat, NEW b \in Nat, NEW c \in Nat, a <= b
  PROVE  a * c \in Nat /\ b * c \in Nat /\ a * c <= b * c /\ c * a = a * c
<1>1. (b - a) * c >= 0 OBVIOUS
<1>2. (b - a) * c = b * c - a * c OBVIOUS
<1> QED BY <1>1, <1>2

(* Rounding down to a multiple does not make a number larger. *)
LEMMA RoundedDown ==
  ASSUME NEW a \in Nat, NEW b \in Nat \ {0}
  PROVE  b * (a \div b) \in Nat /\ b * (a \div b) <= a
<1>1. b * (a \div b) \in Nat
  BY DivMod
<1> QED BY <1>1, DivMod

(* A smaller factor leaves room for one more multiple. *)
LEMMA MultipleGap ==
  ASSUME NEW a \in Nat, NEW b \in Nat, NEW c \in Nat, a < b
  PROVE  c * a + c <= c * b
<1>1. c * (b - a - 1) >= 0 OBVIOUS
<1>2. c * (b - a - 1) = c * b - c * a - c OBVIOUS
<1> QED BY <1>1, <1>2

(* Two digits determine each other: numbers below c in blocks of c. *)
LEMMA DigitsUnique ==
  ASSUME NEW c \in Nat, NEW a1 \in Nat, NEW a2 \in Nat,
         NEW r1 \in 0..c-1, NEW r2 \in 0..c-1, r1 + c * a1 = r2 + c * a2
  PROVE  a1 = a2 /\ r1 = r2
<1>1. ~(a1 < a2)
  <2>1. SUFFICES ASSUME a1 < a2 PROVE FALSE OBVIOUS
  <2>2. c * a1 + c <= c * a2 BY <2>1, MultipleGap
  <2> QED BY <2>2
<1>2. ~(a2 < a1)
  <2>1. SUFFICES ASSUME a2 < a1 PROVE FALSE OBVIOUS
  <2>2. c * a2 + c <= c * a1 BY <2>1, MultipleGap
  <2> QED BY <2>2
<1> QED BY <1>1, <1>2

(* A number below c * n lies in one of n blocks of c. *)
LEMMA DigitBounds ==
  ASSUME NEW c \in Nat, NEW n \in Nat, NEW a \in 0..n-1, NEW r \in 0..c-1
  PROVE  r + c * a \in 0..(c * n - 1)
<1>1. c * a + c <= c * n BY MultipleGap
<1>2. c * a >= 0 OBVIOUS
<1> QED BY <1>1, <1>2

(* Scaling by m / n >= 1 does not make a number smaller. *)
LEMMA ScaledUp ==
  ASSUME NEW s \in Nat, NEW m \in Nat, NEW n \in Nat \ {0}, n <= m
  PROVE  (s * m) \div n \in Nat /\ s <= (s * m) \div n
<1>1. s * n <= s * m OBVIOUS
<1>2. s * m \in Nat OBVIOUS
<1> QED BY <1>1, <1>2

-----------------------------------------------------------------------------
(* Every set of naturals has a least element. *)
LEMMA LeastElement ==
  ASSUME NEW T \in SUBSET Nat, T # {}
  PROVE  \E x \in T : \A y \in T : x <= y
<1> DEFINE R == OpToRel(<, Nat)
<1>0. IsWellFoundedOn(R, Nat)
  BY NatLessThanWellFounded
<1> HIDE DEF R
<1>1. PICK x \in T : \A y \in T : ~(<<y, x>> \in R)
  BY <1>0, WFMin
<1>2. ASSUME NEW y \in T PROVE x <= y
  <2>1. ~(<<y, x>> \in R)
    BY <1>1
  <2>2. ~(y < x)
    BY <2>1 DEF R, OpToRel
  <2> QED BY <2>2
<1> QED BY <1>2

(* Induction: what holds of 0 and goes over to the next number holds of    *)
(* every number.                                                           *)
LEMMA Inductive ==
  ASSUME NEW S, 0 \in S, \A n \in Nat : n \in S => n + 1 \in S
  PROVE  \A n \in Nat : n \in S
<1> SUFFICES ASSUME Nat \ S # {} PROVE FALSE
  OBVIOUS
<1>1. PICK x \in Nat \ S : \A y \in Nat \ S : x <= y
  BY LeastElement
<1>2. x # 0 /\ x - 1 \in Nat
  BY <1>1
<1>3. x - 1 \in S
  BY <1>1, <1>2
<1>4. (x - 1) + 1 \in S
  BY <1>2, <1>3
<1> QED BY <1>1, <1>4

(* Recursive functions on 0..N: the value of n is computed by F[n] from the *)
(* one before it.  When the results stay in a set, such a function exists.  *)
StaysIn(F, N, S) == \A n \in 1..N, q \in S : F[n][q] \in S
IsRecursion(w, a, F, N) == w[0] = a /\ \A n \in 1..N : w[n] = F[n][w[n-1]]

LEMMA RecursionExists ==
  ASSUME NEW N \in Nat, NEW S, NEW a \in S, NEW F, StaysIn(F, N, S)
  PROVE  \E w \in [0..N -> S] : IsRecursion(w, a, F, N)
<1> DEFINE Good(w, m) == w \in [0..m -> S] /\ w[0] = a /\ \A n \in 1..m : w[n] = F[n][w[n-1]]
           T == {m \in Nat : m <= N => \E w : Good(w, m)}
<1> USE DEF StaysIn
<1>1. 0 \in T
  <2>1. Good([m \in 0..0 |-> a], 0) OBVIOUS
  <2> HIDE DEF Good
  <2> QED BY <2>1
<1>2. ASSUME NEW m \in Nat, m \in T PROVE m + 1 \in T
  <2>1. SUFFICES ASSUME m + 1 <= N PROVE \E w : Good(w, m + 1) OBVIOUS
  <2>2. PICK w : Good(w, m)
    <3>1. m <= N BY <2>1
    <3> QED BY <1>2, <3>1
  <2>3. m + 1 \in 1..N /\ m \in 0..m BY <2>1
  <2>4. F[m+1][w[m]] \in S BY <2>2, <2>3
  <2> DEFINE v == [n \in 0..m+1 |-> IF n = m + 1 THEN F[m+1][w[m]] ELSE w[n]]
  <2>5. v \in [0..m+1 -> S]
    <3>1. \A n \in 0..m+1 : n # m + 1 => n \in 0..m OBVIOUS
    <3> QED BY <2>2, <2>4, <3>1
  <2>6. v[0] = a BY <2>2
  <2>7. ASSUME NEW n \in 1..m+1 PROVE v[n] = F[n][v[n-1]]
    <3>1. n - 1 \in 0..m+1 /\ n - 1 # m + 1 /\ n \in 0..m+1 OBVIOUS
    <3>2. v[n-1] = w[n-1] BY <3>1
    <3>3. CASE n = m + 1
      <4>1. n - 1 = m BY <3>3
      <4> QED BY <3>2, <3>3, <4>1
    <3>4. CASE n # m + 1
      <4>1. n \in 1..m BY <3>4
      <4> QED BY <2>2, <3>1, <3>2, <3>4, <4>1
    <3> QED BY <3>3, <3>4
  <2> HIDE DEF v
  <2>8. Good(v, m + 1) BY <2>5, <2>6, <2>7
  <2> QED BY <2>8
<1> HIDE DEF T
<1>3. N \in T BY <1>1, <1>2, Inductive
<1> QED BY <1>3 DEF T, IsRecursion

(* A larger set of numbers has no fewer elements, and more when it has an   *)
(* element besides.                                                        *)
LEMMA MoreElements ==
  ASSUME NEW B, IsFiniteSet(B), NEW A \in SUBSET B
  PROVE  /\ IsFiniteSet(A) /\ Cardinality(A) \in Nat /\ Cardinality(B) \in Nat
         /\ Cardinality(A) <= Cardinality(B)
         /\ \A x \in B \ A : Cardinality(A) < Cardinality(B)
<1>1. /\ IsFiniteSet(A) /\ Cardinality(A) <= Cardinality(B)
      /\ (Cardinality(B) = Cardinality(A) => B = A)
  BY FS_Subset
<1>2. Cardinality(A) \in Nat /\ Cardinality(B) \in Nat
  BY <1>1, FS_CardinalityType
<1> QED BY <1>1, <1>2

(* Keys that differ rank the elements of a finite set: the elements whose   *)
(* keys are not larger count from 1 to the number of all elements.         *)
KeyRank(S, key, x) == Cardinality({y \in S : key[y] <= key[x]})

LEMMA KeyRanks ==
  ASSUME NEW S, IsFiniteSet(S), NEW key \in [S -> Int], \A x, y \in S : key[x] = key[y] => x = y
  PROVE  /\ Cardinality(S) \in Nat
         /\ \A x \in S : KeyRank(S, key, x) \in 1..Cardinality(S)
         /\ \A x, y \in S : key[x] < key[y] => KeyRank(S, key, x) < KeyRank(S, key, y)
         /\ \A n \in 1..Cardinality(S) : \E x \in S : KeyRank(S, key, x) = n
<1>1. Cardinality(S) \in Nat
  BY FS_CardinalityType
<1>2. ASSUME NEW x \in S PROVE KeyRank(S, key, x) \in 1..Cardinality(S)
  <2> DEFINE U == {y \in S : key[y] <= key[x]}
  <2>1. x \in U /\ U \in SUBSET S
    OBVIOUS
  <2> HIDE DEF U
  <2>2. IsFiniteSet(U) /\ Cardinality(U) \in Nat /\ Cardinality(U) <= Cardinality(S)
    BY <2>1, MoreElements
  <2>3. Cardinality(U) # 0
    BY <2>1, <2>2, FS_EmptySet
  <2>4. KeyRank(S, key, x) = Cardinality(U)
    BY DEF KeyRank, U
  <2> QED BY <1>1, <2>2, <2>3, <2>4
<1>3. ASSUME NEW x \in S, NEW y \in S, key[x] < key[y] PROVE KeyRank(S, key, x) < KeyRank(S, key, y)
  <2> DEFINE U == {z \in S : key[z] <= key[x]}
             V == {z \in S : key[z] <= key[y]}
  <2>1. U \in SUBSET V /\ V \in SUBSET S /\ y \in V \ U
    <3>1. \A z \in S : key[z] <= key[x] => key[z] <= key[y]
      BY <1>3
    <3>2. key[y] <= key[y] /\ ~(key[y] <= key[x])
      BY <1>3
    <3> QED BY <3>1, <3>2
  <2> HIDE DEF U, V
  <2>2. IsFiniteSet(V)
    BY <2>1, MoreElements
  <2>3. Cardinality(U) < Cardinality(V)
    BY <2>1, <2>2, MoreElements
  <2> QED BY <2>3 DEF KeyRank, U, V
<1>4. ASSUME NEW n \in 1..Cardinality(S) PROVE \E x \in S : KeyRank(S, key, x) = n
  <2> DEFINE N == 1..Cardinality(S)
             f == [x \in S |-> KeyRank(S, key, x)]
  <2>1. IsFiniteSet(N) /\ Cardinality(N) = Cardinality(S)
    <3>1. IsFiniteSet(N) /\ Cardinality(N) =
             IF 1 > Cardinality(S) THEN 0 ELSE Cardinality(S) - 1 + 1
      BY <1>1, FS_Interval
    <3> QED BY <1>1, <3>1
  <2>2. f \in [S -> N]
    BY <1>2
  <2>3. ASSUME NEW x \in S, NEW y \in S, f[x] = f[y] PROVE x = y
    <3>1. KeyRank(S, key, x) = KeyRank(S, key, y)
      BY <2>3
    <3>2. KeyRank(S, key, x) \in Int /\ KeyRank(S, key, y) \in Int
      BY <1>2
    <3>3. ~(key[x] < key[y]) /\ ~(key[y] < key[x])
      BY <1>3, <3>1, <3>2
    <3>4. key[x] \in Int /\ key[y] \in Int
      OBVIOUS
    <3> QED BY <3>3, <3>4
  <2> HIDE DEF f, N
  <2>4. f \in Injection(S, N)
    BY <2>2, <2>3 DEF Injection, IsInjective
  <2>5. f \in Surjection(S, N)
    BY <2>1, <2>4, FS_Injection
  <2>6. \A m \in N : \E x \in S : f[x] = m
    BY <2>5 DEF Surjection
  <2> QED BY <2>6 DEF f, N
<1> QED BY <1>1, <1>2, <1>3, <1>4

(* In particular the elements of a finite set of numbers. *)
Rank(S, x) == Cardinality({y \in S : y <= x})

LEMMA Ranks ==
  ASSUME NEW S \in SUBSET Int, IsFiniteSet(S)
  PROVE  /\ Cardinality(S) \in Nat
         /\ \A x \in S : Rank(S, x) \in 1..Cardinality(S)
         /\ \A x, y \in S : x < y => Rank(S, x) < Rank(S, y)
         /\ \A n \in 1..Cardinality(S) : \E x \in S : Rank(S, x) = n
<1> DEFINE key == [x \in S |-> x]
<1>1. key \in [S -> Int] /\ \A x \in S : key[x] = x
  OBVIOUS
<1> HIDE DEF key
<1>2. \A x \in S : KeyRank(S, key, x) = Rank(S, x)
  BY <1>1 DEF KeyRank, Rank
<1>3. /\ Cardinality(S) \in Nat
      /\ \A x \in S : KeyRank(S, key, x) \in 1..Cardinality(S)
      /\ \A x, y \in S : key[x] < key[y] => KeyRank(S, key, x) < KeyRank(S, key, y)
      /\ \A n \in 1..Cardinality(S) : \E x \in S : KeyRank(S, key, x) = n
  <2>1. \A x, y \in S : key[x] = key[y] => x = y
    BY <1>1
  <2> QED BY <1>1, <2>1, KeyRanks
<1> QED BY <1>1, <1>2, <1>3

-----------------------------------------------------------------------------
(* Keys that differ put a finite set into a sequence: at each place is the  *)
(* element of that rank.                                                   *)
ByRank(S, key) == [n \in 1..Cardinality(S) |-> CHOOSE x \in S : KeyRank(S, key, x) = n]

LEMMA SortedSequence ==
  ASSUME NEW S, IsFiniteSet(S), NEW key \in [S -> Int], \A x, y \in S : key[x] = key[y] => x = y
  PROVE  /\ ByRank(S, key) \in [1..Cardinality(S) -> S]
         /\ \A m, n \in 1..Cardinality(S) : m < n => key[ByRank(S, key)[m]] < key[ByRank(S, key)[n]]
         /\ \A m, n \in 1..Cardinality(S) : m # n => ByRank(S, key)[m] # ByRank(S, key)[n]
<1> DEFINE N == Cardinality(S)
           o == ByRank(S, key)
<1>1. N \in Nat
  BY FS_CardinalityType
<1>2. /\ \A x \in S : KeyRank(S, key, x) \in 1..N
      /\ \A x, y \in S : key[x] < key[y] => KeyRank(S, key, x) < KeyRank(S, key, y)
      /\ \A n \in 1..N : \E x \in S : KeyRank(S, key, x) = n
  BY KeyRanks
<1>3. \A n \in 1..N : o[n] \in S /\ KeyRank(S, key, o[n]) = n
  BY <1>2 DEF ByRank
<1>4. o \in [1..N -> S]
  BY <1>3 DEF ByRank
<1> HIDE DEF o
<1>5. \A m, n \in 1..N : m # n => o[m] # o[n]
  BY <1>3
<1>6. ASSUME NEW m \in 1..N, NEW n \in 1..N, m < n PROVE key[o[m]] < key[o[n]]
  <2>1. o[m] \in S /\ o[n] \in S /\ o[m] # o[n]
    BY <1>3, <1>5, <1>6
  <2>2. key[o[m]] \in Int /\ key[o[n]] \in Int /\ key[o[m]] # key[o[n]]
    BY <2>1
  <2>3. ~(key[o[n]] < key[o[m]])
    <3>1. KeyRank(S, key, o[m]) = m /\ KeyRank(S, key, o[n]) = n
      BY <1>3
    <3>2. key[o[n]] < key[o[m]] => n < m
      BY <1>2, <2>1, <3>1
    <3> QED BY <1>6, <3>2
  <2> QED BY <2>2, <2>3
<1> QED BY <1>4, <1>5, <1>6 DEF o

(* As many different elements as a finite set has are all of them. *)
LEMMA SequenceOfSet ==
  ASSUME NEW S, IsFiniteSet(S), NEW o \in [1..Cardinality(S) -> S],
         \A m, n \in 1..Cardinality(S) : m # n => o[m] # o[n]
  PROVE  /\ Cardinality(S) \in Nat /\ o \in Seq(S) /\ Len(o) = Cardinality(S)
         /\ \A x \in S : \E n \in 1..Cardinality(S) : o[n] = x
<1> DEFINE N == Cardinality(S)
<1>1. N \in Nat
  BY FS_CardinalityType
<1>2. DOMAIN o = 1..N
  OBVIOUS
<1>3. o \in Seq(S) /\ Len(o) = N
  <2>1. N \in Nat /\ o \in [1..N -> S] => o \in Seq(S)
    OBVIOUS
  <2>2. o \in [1..N -> S]
    OBVIOUS
  <2> HIDE DEF N
  <2>3. o \in Seq(S)
    BY <1>1, <2>1, <2>2
  <2>4. Len(o) \in Nat /\ DOMAIN o = 1..Len(o)
    BY <2>3, LenProperties
  <2> QED BY <1>1, <1>2, <2>3, <2>4
<1>4. \A x \in S : \E n \in 1..N : o[n] = x
  <2>1. IsFiniteSet(1..N) /\ Cardinality(1..N) = N
    <3>1. IsFiniteSet(1..N) /\ Cardinality(1..N) = IF 1 > N THEN 0 ELSE N - 1 + 1
      BY <1>1, FS_Interval
    <3> QED BY <1>1, <3>1
  <2>2. o \in Injection(1..N, S)
    BY DEF Injection, IsInjective
  <2>3. o \in Surjection(1..N, S)
    BY <2>1, <2>2, FS_Injection
  <2> QED BY <2>3 DEF Surjection
<1> QED BY <1>1, <1>3, <1>4

(* Keys that differ put a finite set in order: InOrder is a sequence of its *)
(* elements, each once, and keys increase along it.                        *)
LEMMA InOrderFacts ==
  ASSUME NEW S, IsFiniteSet(S), NEW key \in [S -> Int], \A x, y \in S : key[x] = key[y] => x = y
  PROVE  /\ InOrder(S, key) \in Seq(S) /\ Len(InOrder(S, key)) = Cardinality(S)
         /\ Cardinality(S) \in Nat
         /\ InOrder(S, key) \in [1..Cardinality(S) -> S]
         /\ \A m, n \in 1..Cardinality(S) : m < n => key[InOrder(S, key)[m]] < key[InOrder(S, key)[n]]
         /\ \A x \in S : \E n \in 1..Cardinality(S) : InOrder(S, key)[n] = x
<1> DEFINE N == Cardinality(S)
           o == InOrder(S, key)
<1>1. o = ByRank(S, key)
  BY DEF InOrder, ByRank, KeyRank
<1>2. o \in [1..N -> S] /\ \A m, n \in 1..N : m < n => key[o[m]] < key[o[n]]
  BY <1>1, SortedSequence
<1>3. \A m, n \in 1..N : m # n => o[m] # o[n]
  BY <1>1, SortedSequence
<1> HIDE DEF o
<1>5. /\ N \in Nat /\ o \in Seq(S) /\ Len(o) = N
      /\ \A x \in S : \E n \in 1..N : o[n] = x
  BY <1>2, <1>3, SequenceOfSet
<1> QED BY <1>2, <1>3, <1>5 DEF o

-----------------------------------------------------------------------------
(* The sets that are reached in more and more steps. *)
Walks(U, S, next, n) ==
  {w \in [0..n -> SUBSET U] :
     w[0] = S /\ \A k \in 1..n : w[k] = w[k-1] \cup UNION {next[q] : q \in w[k-1]}}

LEMMA WithinFacts ==
  ASSUME NEW U, NEW S \in SUBSET U, NEW next, \A q \in U : next[q] \subseteq U, NEW n \in Nat
  PROVE  Within(S, next, n) \in Walks(U, S, next, n)
<1> DEFINE More(T) == T \cup UNION {next[q] : q \in T}
           F == [k \in 1..n |-> [T \in SUBSET U |-> More(T)]]
           Walk(f) == [k \in 0..n |-> IF k = 0 THEN S ELSE More(f[k-1])]
<1>1. \A T \in SUBSET U : More(T) \in SUBSET U
  OBVIOUS
<1> HIDE DEF More
<1>2. StaysIn(F, n, SUBSET U)
  BY <1>1 DEF StaysIn
<1>3. PICK w \in [0..n -> SUBSET U] : IsRecursion(w, S, F, n)
  <2> HIDE DEF F
  <2> QED BY <1>2, RecursionExists
<1>4. w[0] = S /\ \A k \in 1..n : w[k] = More(w[k-1])
  <2>1. \A k \in 1..n : k - 1 \in 0..n /\ w[k-1] \in SUBSET U
    OBVIOUS
  <2> QED BY <1>3, <2>1 DEF IsRecursion
<1>5. w = Walk(w)
  <2>1. \A k \in 0..n : w[k] = Walk(w)[k]
    BY <1>4
  <2> QED BY <2>1
<1>6. Within(S, next, n) = CHOOSE f : f = Walk(f)
  BY DEF Within, More
<1> HIDE DEF Walk
<1>7. Within(S, next, n) = Walk(Within(S, next, n))
  BY <1>5, <1>6
<1> DEFINE f == Within(S, next, n)
<1>8. f = Walk(f)
  BY <1>7
<1> HIDE DEF f
<1>9. f[0] = S /\ \A k \in 1..n : f[k] = More(f[k-1])
  <2>1. \A k \in 0..n : f[k] = IF k = 0 THEN S ELSE More(f[k-1])
    BY <1>8 DEF Walk
  <2> QED BY <2>1
<1> DEFINE T == {k \in Nat : k <= n => f[k] \in SUBSET U}
<1>10. 0 \in T
  BY <1>9
<1>11. ASSUME NEW k \in Nat, k \in T PROVE k + 1 \in T
  <2>1. CASE k + 1 <= n
    <3>1. k <= n /\ k + 1 \in 1..n /\ (k + 1) - 1 = k
      BY <2>1
    <3>2. f[k] \in SUBSET U /\ f[k+1] = More(f[k])
      BY <1>9, <1>11, <3>1
    <3>3. f[k+1] \in SUBSET U
      BY <1>1, <3>2
    <3> QED BY <3>3
  <2> QED BY <2>1
<1>12. \A k \in Nat : k \in T
  <2> HIDE DEF T
  <2> QED BY <1>10, <1>11, Inductive
<1>13. DOMAIN f = 0..n /\ f = [k \in 0..n |-> f[k]]
  BY <1>8 DEF Walk
<1>14. \A k \in 0..n : f[k] \in SUBSET U
  BY <1>12
<1>15. f \in [0..n -> SUBSET U]
  BY <1>13, <1>14
<1> QED BY <1>9, <1>15 DEF f, More, Walks

(* A traversal reaches what it starts from, and leads nowhere else. *)
LEMMA WithinIsClosed ==
  ASSUME NEW Node, IsFiniteSet(Node), NEW S \in SUBSET Node, NEW next, \A q \in Node : next[q] \subseteq Node
  PROVE  LET N == Cardinality(Node)
             C == Within(S, next, N)[N]
         IN S \subseteq C /\ C \subseteq Node /\ \A q \in C : next[q] \subseteq C
<1> DEFINE N == Cardinality(Node)
           w == Within(S, next, N)
           More(T) == T \cup UNION {next[q] : q \in T}
           Closed(T) == \A q \in T : next[q] \subseteq T
<1>1. N \in Nat /\ IsFiniteSet(Node)
  BY FS_CardinalityType
<1> HIDE DEF N
<1>2. w \in [0..N -> SUBSET Node] /\ w[0] = S /\ \A k \in 1..N : w[k] = More(w[k-1])
  <2>1. /\ Within(S, next, N) \in [0..N -> SUBSET Node] /\ Within(S, next, N)[0] = S
        /\ \A k \in 1..N : Within(S, next, N)[k] =
             Within(S, next, N)[k-1] \cup UNION {next[q] : q \in Within(S, next, N)[k-1]}
    <3>1. S \in SUBSET Node /\ N \in Nat
      BY <1>1
    <3>2. Within(S, next, N) \in Walks(Node, S, next, N)
      BY <3>1, WithinFacts
    <3> QED BY <3>2 DEF Walks
  <2> QED BY <2>1
<1> HIDE DEF w
<1> DEFINE T == {k \in Nat : k <= N => S \subseteq w[k] /\ (Cardinality(w[k]) >= k \/ Closed(w[k]))}
<1>3. \A k \in 0..N : w[k] \subseteq Node /\ IsFiniteSet(w[k]) /\ Cardinality(w[k]) \in Nat
  BY <1>1, <1>2, MoreElements
<1>4. 0 \in T
  BY <1>1, <1>2, <1>3
<1>5. ASSUME NEW k \in Nat, k \in T PROVE k + 1 \in T
  <2> SUFFICES ASSUME k + 1 <= N
               PROVE  S \subseteq w[k+1] /\ (Cardinality(w[k+1]) >= k + 1 \/ Closed(w[k+1]))
    OBVIOUS
  <2>1. k \in 0..N /\ k + 1 \in 1..N /\ k + 1 \in 0..N /\ (k + 1) - 1 = k
    BY <1>1
  <2>2. w[k+1] = More(w[k])
    BY <1>2, <2>1
  <2>3. S \subseteq w[k] /\ (Cardinality(w[k]) >= k \/ Closed(w[k]))
    BY <1>5, <2>1
  <2>4. CASE Closed(w[k])
    <3>1. w[k+1] = w[k]
      BY <2>2, <2>4
    <3> QED BY <2>3, <2>4, <3>1
  <2>5. CASE ~Closed(w[k])
    <3>1. w[k] \subseteq w[k+1] /\ \E x : x \in w[k+1] \ w[k]
      BY <2>2, <2>5
    <3>2. Cardinality(w[k]) < Cardinality(w[k+1])
      BY <1>3, <2>1, <3>1, MoreElements
    <3>3. Cardinality(w[k]) >= k
      BY <2>3, <2>5
    <3>4. Cardinality(w[k]) \in Nat /\ Cardinality(w[k+1]) \in Nat
      BY <1>3, <2>1
    <3> QED BY <2>3, <3>1, <3>2, <3>3, <3>4
  <2> QED BY <2>4, <2>5
<1>6. N \in T
  <2>1. \A k \in Nat : k \in T
    <3> HIDE DEF T
    <3> QED BY <1>4, <1>5, Inductive
  <2> QED BY <1>1, <2>1
<1>8. S \subseteq w[N] /\ w[N] \subseteq Node
  BY <1>1, <1>3, <1>6
<1>9. Closed(w[N])
  <2>1. CASE Cardinality(w[N]) >= N
    <3>1. IsFiniteSet(Node) /\ w[N] \in SUBSET Node /\ Cardinality(w[N]) \in Nat
      BY <1>1, <1>3, <1>8
    <3>2. Cardinality(w[N]) <= Cardinality(Node) /\ (Cardinality(Node) = Cardinality(w[N]) => Node = w[N])
      BY <3>1, MoreElements
    <3>3. w[N] = Node
      BY <1>1, <2>1, <3>1, <3>2 DEF N
    <3> QED BY <3>3
  <2> QED BY <1>1, <1>6, <2>1
<1> QED BY <1>8, <1>9 DEF w, N

(* What a traversal reaches is the least set with its start that next does  *)
(* not lead out of.                                                        *)
LEMMA ReachedFacts ==
  ASSUME NEW U, IsFiniteSet(U), NEW S \in SUBSET U, NEW next, DOMAIN next = U, \A q \in U : next[q] \subseteq U
  PROVE  /\ S \subseteq Reached(S, next) /\ Reached(S, next) \subseteq U
         /\ \A q \in Reached(S, next) : next[q] \subseteq Reached(S, next)
         /\ \A A \in SUBSET U : S \subseteq A /\ (\A q \in A : next[q] \subseteq A) => Reached(S, next) \subseteq A
<1> DEFINE N == Cardinality(U)
<1>1. Reached(S, next) = Within(S, next, N)[N]
  BY DEF Reached
<1>2. N \in Nat
  BY FS_CardinalityType
<1>3. ASSUME NEW A \in SUBSET U, S \subseteq A, \A q \in A : next[q] \subseteq A
      PROVE  Reached(S, next) \subseteq A
  <2>1. Within(S, next, N) \in Walks(A, S, next, N)
    <3> HIDE DEF N
    <3>1. S \in SUBSET A
      BY <1>3
    <3> QED BY <1>2, <1>3, <3>1, WithinFacts
  <2>2. N \in 0..N
    BY <1>2
  <2> QED BY <1>1, <2>1, <2>2 DEF Walks
<1> QED BY <1>1, <1>3, WithinIsClosed
=============================================================================
