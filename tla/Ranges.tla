------------------------------- MODULE Ranges -------------------------------
(***************************************************************************)
(* Induction and iteration over a range of numbers, the least member of a  *)
(* set of them, and remainders, stated so that the provers can use them.   *)
(***************************************************************************)
EXTENDS Integers, FiniteSets, FiniteSetsExt, FiniteSetTheorems, TLAPS

(* A number of the range of n numbers from o, counted from 1. *)
LEMMA Recounted ==
  ASSUME NEW o \in Nat, NEW n \in Nat, NEW k \in o .. o + n - 1
  PROVE  k - o + 1 \in 1 .. n
  OBVIOUS

(* The proof of RangeInduction: the map that shifts the members of P by one     *)
(* would be an injection of 0..m into 1..m if m were left out of P.        *)

(* A set that holds 0 and, with every k below n, k + 1, holds all of 0..n. *)
LEMMA RangeInduction ==
  ASSUME NEW n \in Nat, NEW P \in SUBSET (0 .. n),
         0 \in P, \A k \in 0 .. n - 1 : k \in P => k + 1 \in P
  PROVE  P = 0 .. n
<1>1. SUFFICES ASSUME NEW m \in 0 .. n, m \notin P PROVE FALSE
  OBVIOUS
<1> DEFINE f == [x \in 0 .. m |-> IF x \in P THEN x + 1 ELSE x]
<1>2. \A x \in 0 .. m : f[x] \in 1 .. m
  <2> TAKE x \in 0 .. m
  <2>1. CASE x \in P
    <3>1. x # m
      BY <1>1, <2>1
    <3>2. QED
      BY <2>1, <3>1
  <2>2. CASE x \notin P
    BY <2>2
  <2>3. QED
    BY <2>1, <2>2
<1>3. f \in [0 .. m -> 1 .. m]
  BY <1>2
<1>4. IsFiniteSet(0 .. m) /\ Cardinality(0 .. m) = m + 1
  BY FS_Interval
<1>5. IsFiniteSet(1 .. m) /\ Cardinality(1 .. m) = m
  BY FS_Interval
<1>6. \E x, y \in 0 .. m : x # y /\ f[x] = f[y]
  <2>1. Cardinality(1 .. m) < Cardinality(0 .. m)
    BY <1>4, <1>5
  <2> HIDE DEF f
  <2>2. QED
    BY <1>3, <1>4, <1>5, <2>1, FS_PigeonHole, Zenon
<1>7. \A x, y \in 0 .. m : f[x] = f[y] => x = y
  <2> TAKE x \in 0 .. m, y \in 0 .. m
  <2>1. ASSUME NEW u \in 0 .. m, NEW v \in 0 .. m, u \in P, v \notin P
        PROVE  f[u] # f[v]
    <3>1. u # m
      BY <1>1, <2>1
    <3>2. u \in 0 .. n - 1 /\ u + 1 \in P
      BY <2>1, <3>1
    <3>3. QED
      BY <2>1, <3>2
  <2>2. QED
    BY <2>1
<1>8. QED
  BY <1>6, <1>7

(* A function that starts in S and does not leave it from one number to the
   next stays in S. *)
LEMMA StaysIn ==
  ASSUME NEW n \in Nat, NEW S, NEW f, f[0] \in S,
         \A k \in 0 .. n - 1 : f[k] \in S => f[k + 1] \in S
  PROVE  \A k \in 0 .. n : f[k] \in S
<1> DEFINE P == {k \in 0 .. n : f[k] \in S}
<1>1. 0 \in P /\ \A k \in 0 .. n - 1 : k \in P => k + 1 \in P
  OBVIOUS
<1>2. P \in SUBSET (0 .. n)
  OBVIOUS
<1>3. P = 0 .. n
  <2> HIDE DEF P
  <2>1. QED
    BY <1>1, <1>2, RangeInduction
<1>4. QED
  BY <1>3

(* A set of naturals that is not empty has a least member, and Min is it. *)
LEMMA MinOfNaturals ==
  ASSUME NEW S \in SUBSET Nat, S # {}
  PROVE  Min(S) \in S /\ \A k \in S : Min(S) <= k
<1>1. PICK n \in S : TRUE
  OBVIOUS
<1> DEFINE P == {k \in 0 .. n : \A j \in 0 .. k : j \notin S}
<1>2. SUFFICES \E m \in S : \A k \in S : m <= k
  BY DEF Min
<1>3. SUFFICES ASSUME \A m \in S : \E k \in S : k < m PROVE FALSE
  OBVIOUS
<1>4. 0 \in P
  BY <1>3
<1>5. \A k \in 0 .. n - 1 : k \in P => k + 1 \in P
  BY <1>3
<1>6. P = 0 .. n
  <2> HIDE DEF P
  <2>1. P \in SUBSET (0 .. n)
    BY DEF P
  <2>2. QED
    BY <1>4, <1>5, <2>1, RangeInduction
<1>7. QED
  BY <1>1, <1>6

(* There are no more than n numbers below n. *)
LEMMA CountBelow ==
  ASSUME NEW n \in Nat, NEW R \in SUBSET (0 .. n - 1)
  PROVE  IsFiniteSet(R) /\ Cardinality(R) \in 0 .. n
<1>1. IsFiniteSet(0 .. n - 1) /\ Cardinality(0 .. n - 1) = n
  <2>1. PICK m \in Int : m = n - 1
    OBVIOUS
  <2>2. IsFiniteSet(0 .. m) /\ Cardinality(0 .. m) = IF 0 > m THEN 0 ELSE m - 0 + 1
    BY FS_Interval
  <2>3. QED
    BY <2>1, <2>2
<1>2. IsFiniteSet(R) /\ Cardinality(R) <= Cardinality(0 .. n - 1)
  BY <1>1, FS_Subset
<1>3. Cardinality(R) \in Nat
  BY <1>2, FS_CardinalityType
<1>4. QED
  BY <1>1, <1>2, <1>3

\* f starts with start, and step[k] makes the k-th of its values of the one before.
IsRecursion(f, n, start, step) ==
  f[0] = start /\ \A k \in 1 .. n : f[k] = step[k][f[k - 1]]

(* A function on a range of numbers may be defined by recursion. *)
LEMMA Recursion ==
  ASSUME NEW n \in Nat, NEW S, NEW start \in S, NEW step \in [1 .. n -> [S -> S]]
  PROVE  \E f \in [0 .. n -> S] : IsRecursion(f, n, start, step)
<1> DEFINE Run(f, m) == IsRecursion(f, m, start, step)
<1> DEFINE P == {m \in 0 .. n : \E f \in [0 .. m -> S] : Run(f, m)}
<1>1. 0 \in P
  <2>1. [k \in 0 .. 0 |-> start] \in [0 .. 0 -> S] /\ Run([k \in 0 .. 0 |-> start], 0)
    BY DEF IsRecursion
  <2>2. 0 \in 0 .. n
    OBVIOUS
  <2> HIDE DEF Run
  <2>3. QED
    BY <2>1, <2>2
<1>2. ASSUME NEW m \in 0 .. n - 1, m \in P PROVE m + 1 \in P
  <2>1. PICK f \in [0 .. m -> S] : Run(f, m)
    BY <1>2
  <2> DEFINE g == [k \in 0 .. m + 1 |-> IF k = m + 1 THEN step[k][f[m]] ELSE f[k]]
  <2>2. g \in [0 .. m + 1 -> S]
    OBVIOUS
  <2>3. Run(g, m + 1)
    <3>1. g[0] = start
      BY <2>1 DEF IsRecursion
    <3>2. ASSUME NEW k \in 1 .. m + 1 PROVE g[k] = step[k][g[k - 1]]
      <4>1. k - 1 \in 0 .. m /\ g[k - 1] = f[k - 1]
        OBVIOUS
      <4>2. CASE k = m + 1
        BY <4>1, <4>2
      <4>3. CASE k # m + 1
        BY <2>1, <4>1, <4>3 DEF IsRecursion
      <4>4. QED
        BY <4>2, <4>3
    <3>3. QED
      BY <3>1, <3>2 DEF IsRecursion
  <2>4. m + 1 \in 0 .. n
    OBVIOUS
  <2> HIDE DEF Run, g
  <2>5. QED
    BY <2>2, <2>3, <2>4
<1>3. P = 0 .. n
  <2>1. P \in SUBSET (0 .. n)
    OBVIOUS
  <2> HIDE DEF P
  <2>2. QED
    BY <1>1, <1>2, <2>1, RangeInduction
<1>4. n \in P
  <2> HIDE DEF P
  <2>1. QED
    BY <1>3
<1>5. QED
  BY <1>4

\* f lists what n applications of step make of start.
IsIteration(f, n, start, step) ==
  f[0] = start /\ \A k \in 1 .. n : f[k] = step[f[k - 1]]

(* A function on S can be applied n times over. *)
LEMMA Iterates ==
  ASSUME NEW n \in Nat, NEW S, NEW start \in S, NEW step \in [S -> S]
  PROVE  \E f \in [0 .. n -> S] : IsIteration(f, n, start, step)
<1> DEFINE steps == [k \in 1 .. n |-> step]
<1>1. steps \in [1 .. n -> [S -> S]]
  OBVIOUS
<1>2. PICK f \in [0 .. n -> S] : IsRecursion(f, n, start, steps)
  <2> HIDE DEF steps
  <2>1. QED
    BY <1>1, Recursion
<1>3. QED
  BY <1>2 DEF IsIteration, IsRecursion

-----------------------------------------------------------------------------
(* Remainders: positions in a ring of h places. *)

LEMMA Multiple ==
  ASSUME NEW h \in Nat \ {0}, NEW q \in Int
  PROVE  (q >= 1 => h * q >= h) /\ (q <= -1 => h * q <= -h)
<1>1. ASSUME q >= 1 PROVE h * q >= h
  BY <1>1
<1>2. ASSUME q <= -1 PROVE h * q <= -h
  BY <1>2
<1>3. QED
  BY <1>1, <1>2

(* Quotient and remainder determine each other. *)
LEMMA OneRemainder ==
  ASSUME NEW h \in Nat \ {0}, NEW q \in Int, NEW p \in Int,
         NEW r \in 0 .. h - 1, NEW s \in 0 .. h - 1, h * q + r = h * p + s
  PROVE  r = s
<1>1. h * (q - p) = s - r
  OBVIOUS
<1>2. ASSUME q - p >= 1 PROVE FALSE
  BY <1>1, <1>2, Multiple
<1>3. ASSUME q - p <= -1 PROVE FALSE
  BY <1>1, <1>3, Multiple
<1>4. QED
  BY <1>1, <1>2, <1>3

LEMMA Remainder ==
  ASSUME NEW h \in Nat \ {0}, NEW a \in Int
  PROVE  /\ a % h \in 0 .. h - 1
         /\ \A q \in Int, r \in 0 .. h - 1 : a = h * q + r => a % h = r
         /\ a \div h \in Int /\ a = h * (a \div h) + (a % h)
<1>1. a % h \in 0 .. h - 1 /\ a \div h \in Int /\ a = h * (a \div h) + (a % h)
  OBVIOUS
<1>2. QED
  BY <1>1, OneRemainder

(* One place on is the place after, and the place of a whole turn on the same. *)
LEMMA RingStep ==
  ASSUME NEW h \in Nat \ {0}, NEW a \in Int
  PROVE  /\ (a + 1) % h = IF a % h = h - 1 THEN 0 ELSE (a % h) + 1
         /\ (a + h) % h = a % h
<1> DEFINE q == a \div h  r == a % h
<1>1. q \in Int /\ r \in 0 .. h - 1 /\ a = h * q + r
  BY Remainder
<1> HIDE DEF q, r
<1>2. (a + h) % h = r
  <2>1. a + h = h * (q + 1) + r
    BY <1>1
  <2>2. QED
    BY <1>1, <2>1, Remainder
<1>3. CASE r = h - 1
  <2>1. a + 1 = h * (q + 1) + 0
    BY <1>1, <1>3
  <2>2. (a + 1) % h = 0
    BY <1>1, <2>1, Remainder
  <2>3. QED
    BY <1>2, <1>3, <2>2 DEF r
<1>4. CASE r # h - 1
  <2> DEFINE next == r + 1
  <2>1. next \in 0 .. h - 1 /\ a + 1 = h * q + next
    BY <1>1, <1>4
  <2> HIDE DEF next
  <2>2. (a + 1) % h = next
    BY <1>1, <2>1, Remainder
  <2>3. QED
    BY <1>2, <1>4, <2>2 DEF r, next
<1>5. QED
  BY <1>3, <1>4

(* Within one turn no place comes twice. *)
LEMMA RingApart ==
  ASSUME NEW h \in Nat \ {0}, NEW a \in Int, NEW d \in 1 .. h - 1
  PROVE  (a + d) % h # a % h
<1>1. SUFFICES ASSUME (a + d) % h = a % h PROVE FALSE
  OBVIOUS
<1> DEFINE q == a \div h  p == (a + d) \div h
<1>2. q \in Int /\ p \in Int /\ h * (p - q) = d
  <2>1. q \in Int /\ a = h * q + (a % h) /\ a % h \in Int
    BY Remainder
  <2>2. p \in Int /\ a + d = h * p + ((a + d) % h)
    <3>1. a + d \in Int
      OBVIOUS
    <3>2. QED
      BY <3>1, Remainder
  <2> HIDE DEF q, p
  <2>3. h * p - h * q = d
    BY <1>1, <2>1, <2>2
  <2>4. QED
    BY <2>1, <2>2, <2>3
<1> HIDE DEF q, p
<1>3. p - q >= 1 \/ p - q <= -1 \/ p - q = 0
  BY <1>2
<1>4. QED
  BY <1>2, <1>3, Multiple

(* From a place one on, and from the place after one back again. *)
LEMMA RingWalk ==
  ASSUME NEW h \in Nat \ {0}, NEW a \in Int
  PROVE  /\ ((a % h) + 1) % h = (a + 1) % h
         /\ (((a + 1) % h) - 1 + h) % h = a % h
<1> DEFINE r == a % h
<1>1. r \in 0 .. h - 1 /\ (a + 1) % h = IF r = h - 1 THEN 0 ELSE r + 1
  BY Remainder, RingStep
<1> HIDE DEF r
<1>2. ASSUME NEW k \in 0 .. h - 1 PROVE k % h = k /\ (k + h) % h = k
  <2>1. k = h * 0 + k
    OBVIOUS
  <2>2. k % h = k
    BY <2>1, Remainder
  <2>3. QED
    BY <2>2, RingStep
<1>3. CASE r = h - 1
  <2>1. (r + 1) % h = 0
    BY <1>2, <1>3
  <2>2. (0 - 1 + h) % h = r
    BY <1>1, <1>2, <1>3
  <2>3. QED
    BY <1>1, <1>3, <2>1, <2>2 DEF r
<1>4. CASE r # h - 1
  <2>1. (r + 1) % h = r + 1
    BY <1>1, <1>2, <1>4
  <2>2. (r + 1) - 1 + h = r + h
    BY <1>1
  <2>3. ((r + 1) - 1 + h) % h = r
    BY <1>1, <1>2, <2>2
  <2>4. QED
    BY <1>1, <1>4, <2>1, <2>3 DEF r
<1>5. QED
  BY <1>3, <1>4
=============================================================================
