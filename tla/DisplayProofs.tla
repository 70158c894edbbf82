---------------------------- MODULE DisplayProofs ----------------------------
(***************************************************************************)
(* Theorems about Display, for every alphabet, every table of keywords,    *)
(* every limit of the arrays and every line and file.                      *)
(***************************************************************************)
EXTENDS Display, Ranges, SequenceTheorems

-----------------------------------------------------------------------------
(* Texts. *)

\* A prefix of a sequence and one element more.
LEMMA OneMore ==
  ASSUME NEW S, NEW s \in Seq(S), NEW k \in 0 .. Len(s) - 1
  PROVE  /\ SubSeq(s, 1, k) \in Seq(S) /\ s[k + 1] \in S
         /\ SubSeq(s, 1, k + 1) = Append(SubSeq(s, 1, k), s[k + 1])
<1>1. Len(s) \in Nat
  BY LenProperties
<1>2. PICK m : m = k + 1 /\ m - 1 = k
  OBVIOUS
<1>3. 1 \in 1 .. Len(s) /\ m \in 1 .. Len(s)
  BY <1>1, <1>2
<1>4. s[m] \in S
  BY <1>3, ElementOfSeq
<1>5. SubSeq(s, 1, k) \in Seq(S)
  <2>1. \A j \in 1 .. k : s[j] \in S
    <3>1. \A j \in 1 .. k : j \in 1 .. Len(s)
      BY <1>1
    <3>2. QED
      BY <3>1, ElementOfSeq
  <2>2. k \in Int /\ 1 \in Int
    OBVIOUS
  <2>3. QED
    BY <2>1, <2>2, SubSeqProperties
<1>6. SubSeq(s, 1, m) = SubSeq(s, 1, m - 1) \o <<s[m]>>
  BY <1>3, SubSeqRecursiveSecond
<1>7. Append(SubSeq(s, 1, k), s[m]) = SubSeq(s, 1, k) \o <<s[m]>>
  BY <1>4, <1>5, AppendIsConcat
<1>8. QED
  BY <1>2, <1>4, <1>5, <1>6, <1>7

\* f[k] is what is left of the first k characters.
IsKept(f, piece, set) ==
  /\ f[0] = <<>> /\ Without(piece, set) = f[Len(piece)]
  /\ \A k \in 1 .. Len(piece) :
       f[k] = IF piece[k] \in set THEN f[k - 1] ELSE Append(f[k - 1], piece[k])

LEMMA KeptSteps ==
  ASSUME NEW S, NEW piece \in Seq(S), NEW set
  PROVE  \E f : IsKept(f, piece, set)
<1> DEFINE n == Len(piece)
<1> DEFINE Keeps(f) ==
      f = [k \in 0 .. n |->
             IF k = 0 THEN <<>>
             ELSE IF piece[k] \in set THEN f[k - 1] ELSE Append(f[k - 1], piece[k])]
<1> DEFINE step == [k \in 1 .. n |->
                      [m \in Seq(S) |-> IF piece[k] \in set THEN m ELSE Append(m, piece[k])]]
<1>1. n \in Nat /\ \A k \in 1 .. n : piece[k] \in S
  BY LenProperties, ElementOfSeq
<1> HIDE DEF n
<1>2. step \in [1 .. n -> [Seq(S) -> Seq(S)]]
  <2>1. \A k \in 1 .. n : \A m \in Seq(S) :
          (IF piece[k] \in set THEN m ELSE Append(m, piece[k])) \in Seq(S)
    BY <1>1, AppendProperties
  <2>2. QED
    BY <2>1
<1>3. \E f : Keeps(f)
  <2>1. PICK f \in [0 .. n -> Seq(S)] : IsRecursion(f, n, <<>>, step)
    <3>1. <<>> \in Seq(S)
      BY EmptySeq
    <3> HIDE DEF step
    <3>2. QED
      BY <1>1, <1>2, <3>1, Recursion
  <2>2. \A k \in 0 .. n :
          f[k] = IF k = 0 THEN <<>>
                 ELSE IF piece[k] \in set THEN f[k - 1] ELSE Append(f[k - 1], piece[k])
    <3> TAKE k \in 0 .. n
    <3>1. CASE k = 0
      BY <2>1, <3>1 DEF IsRecursion
    <3>2. CASE k # 0
      <4>1. k \in 1 .. n /\ f[k - 1] \in Seq(S) /\ f[k] = step[k][f[k - 1]]
        <5>1. k \in 1 .. n /\ k - 1 \in 0 .. n
          BY <1>1, <3>2
        <5> HIDE DEF step
        <5>2. QED
          BY <2>1, <5>1 DEF IsRecursion
      <4>2. QED
        BY <3>2, <4>1
    <3>3. QED
      BY <3>1, <3>2
  <2>3. Keeps(f)
    BY <2>1, <2>2
  <2> HIDE DEF Keeps
  <2>4. QED
    BY <2>3
<1>4. Without(piece, set) = (CHOOSE f : Keeps(f))[n]
  BY DEF Without, n
<1> DEFINE f == CHOOSE f : Keeps(f)
<1>5. Keeps(f)
  <2> HIDE DEF Keeps
  <2>1. QED
    BY <1>3
<1> HIDE DEF f
<1>6. /\ f[0] = <<>>
      /\ \A k \in 1 .. n :
           f[k] = IF piece[k] \in set THEN f[k - 1] ELSE Append(f[k - 1], piece[k])
  <2>1. \A k \in 0 .. n :
          f[k] = IF k = 0 THEN <<>>
                 ELSE IF piece[k] \in set THEN f[k - 1] ELSE Append(f[k - 1], piece[k])
    BY <1>5
  <2>2. 0 \in 0 .. n /\ \A k \in 1 .. n : k \in 0 .. n /\ k # 0
    BY <1>1
  <2>3. QED
    BY <2>1, <2>2
<1>7. IsKept(f, piece, set)
  BY <1>4, <1>6 DEF IsKept, f, n
<1>8. QED
  BY <1>7

LEMMA WithoutNothing ==
  ASSUME NEW set
  PROVE  Without(<<>>, set) = <<>>
<1>1. <<>> \in Seq({}) /\ Len(<<>>) = 0
  BY EmptySeq
<1>2. PICK f : IsKept(f, <<>>, set)
  BY <1>1, KeptSteps
<1>3. QED
  BY <1>1, <1>2 DEF IsKept

\* Everything kept is of the text, and a character more is kept or not.
LEMMA WithoutAppend ==
  ASSUME NEW S, NEW s \in Seq(S), NEW c \in S, NEW set
  PROVE  /\ Without(s, set) \in Seq(S)
         /\ Without(Append(s, c), set) =
              IF c \in set THEN Without(s, set) ELSE Append(Without(s, set), c)
<1>1. PICK n \in Nat : n = Len(s)
  BY LenProperties
<1>2. PICK r : r = Append(s, c)
  OBVIOUS
<1>3. /\ r \in Seq(S) /\ Len(r) = n + 1 /\ r[n + 1] = c
      /\ \A k \in 1 .. n : r[k] = s[k]
  BY <1>1, <1>2, AppendProperties
<1>4. PICK f : IsKept(f, s, set)
  BY KeptSteps
<1>5. PICK g : IsKept(g, r, set)
  BY <1>3, KeptSteps
<1> DEFINE P == {k \in 0 .. n : f[k] \in Seq(S) /\ g[k] = f[k]}
<1>6. 0 \in P
  <2>1. f[0] = <<>> /\ g[0] = <<>> /\ <<>> \in Seq(S)
    BY <1>4, <1>5, EmptySeq DEF IsKept
  <2>2. f[0] \in Seq(S) /\ g[0] = f[0]
    BY <2>1
  <2>3. 0 \in 0 .. n
    BY <1>1
  <2>4. QED
    BY <2>2, <2>3
<1>7. ASSUME NEW k \in 0 .. n - 1, k \in P PROVE k + 1 \in P
  <2>1. k + 1 \in 1 .. n /\ k + 1 \in 1 .. n + 1 /\ (k + 1) - 1 = k /\ k + 1 \in 0 .. n
    BY <1>1
  <2>2. s[k + 1] \in S /\ r[k + 1] = s[k + 1]
    BY <1>1, <1>3, <2>1, ElementOfSeq
  <2>3. f[k + 1] = IF s[k + 1] \in set THEN f[k] ELSE Append(f[k], s[k + 1])
    BY <1>1, <1>4, <2>1 DEF IsKept
  <2>4. g[k + 1] = IF s[k + 1] \in set THEN g[k] ELSE Append(g[k], s[k + 1])
    BY <1>3, <1>5, <2>1, <2>2 DEF IsKept
  <2>5. f[k + 1] \in Seq(S)
    BY <1>7, <2>2, <2>3, AppendProperties
  <2>6. QED
    BY <1>7, <2>1, <2>3, <2>4, <2>5
<1>8. P = 0 .. n
  <2>1. P \in SUBSET (0 .. n)
    OBVIOUS
  <2> HIDE DEF P
  <2>2. QED
    BY <1>1, <1>6, <1>7, <2>1, RangeInduction
<1>9. f[n] \in Seq(S) /\ g[n] = f[n] /\ Without(s, set) = f[n]
  <2>1. n \in P
    BY <1>1, <1>8
  <2>2. QED
    BY <1>1, <1>4, <2>1 DEF IsKept
<1>10. Without(r, set) = g[n + 1]
  BY <1>3, <1>5 DEF IsKept
<1>11. g[n + 1] = IF c \in set THEN g[n] ELSE Append(g[n], c)
  <2>1. n + 1 \in 1 .. Len(r) /\ (n + 1) - 1 = n
    BY <1>1, <1>3
  <2>2. QED
    BY <1>3, <1>5, <2>1 DEF IsKept
<1>12. QED
  BY <1>2, <1>9, <1>10, <1>11

LEMMA WithoutIsText ==
  ASSUME NEW S, NEW s \in Seq(S), NEW set
  PROVE  Without(s, set) \in Seq(S)
<1>1. CASE s = <<>>
  BY <1>1, WithoutNothing, EmptySeq
<1>2. CASE s # <<>>
  <2>1. Len(s) \in Nat \ {0}
    BY <1>2, EmptySeq
  <2>2. s[1] \in S
    <3>1. 1 \in 1 .. Len(s)
      BY <2>1
    <3>2. QED
      BY <3>1, ElementOfSeq
  <2>3. QED
    BY <2>2, WithoutAppend
<1>3. QED
  BY <1>1, <1>2

\* What is kept of two texts, one behind the other.
LEMMA WithoutConcat ==
  ASSUME NEW S, NEW s \in Seq(S), NEW t \in Seq(S), NEW set
  PROVE  Without(s \o t, set) = Without(s, set) \o Without(t, set)
<1>1. PICK n \in Nat : n = Len(t)
  BY LenProperties
<1> DEFINE upto(k) == SubSeq(t, 1, k)
<1> DEFINE P == {k \in 0 .. n :
                   Without(s \o upto(k), set) = Without(s, set) \o Without(upto(k), set)}
<1>2. 0 \in P
  <2>1. upto(0) = <<>>
    BY SubSeqEmpty
  <2>2. s \o <<>> = s /\ Without(s, set) \o <<>> = Without(s, set)
    BY WithoutIsText, ConcatEmptySeq
  <2>3. Without(s \o upto(0), set) = Without(s, set) \o Without(upto(0), set)
    BY <2>1, <2>2, WithoutNothing
  <2>4. QED
    BY <1>1, <2>3
<1>3. ASSUME NEW k \in 0 .. n - 1, k \in P PROVE k + 1 \in P
  <2>1. PICK u : u = upto(k)
    OBVIOUS
  <2>2. PICK c : c = t[k + 1]
    OBVIOUS
  <2>3. u \in Seq(S) /\ c \in S /\ upto(k + 1) = Append(u, c)
    BY <1>1, <2>1, <2>2, OneMore
  <2>4. s \o Append(u, c) = Append(s \o u, c) /\ s \o u \in Seq(S)
    <3>1. Append(u, c) = u \o <<c>> /\ <<c>> \in Seq(S)
      BY <2>3, AppendIsConcat
    <3>2. s \o u \in Seq(S) /\ (s \o u) \o <<c>> = s \o (u \o <<c>>)
      BY <2>3, <3>1, ConcatProperties, ConcatAssociative
    <3>3. QED
      BY <2>3, <3>1, <3>2, AppendIsConcat
  <2>5. PICK w : w = Without(s, set)
    OBVIOUS
  <2>6. PICK v : v = Without(u, set)
    OBVIOUS
  <2>7. w \in Seq(S) /\ v \in Seq(S)
    BY <2>3, <2>5, <2>6, WithoutIsText
  <2>8. Without(s \o u, set) = w \o v
    BY <1>3, <2>1, <2>5, <2>6
  <2>9. Without(Append(s \o u, c), set) = IF c \in set THEN w \o v ELSE Append(w \o v, c)
    <3>1. PICK z : z = s \o u
      OBVIOUS
    <3>2. z \in Seq(S) /\ c \in S
      BY <2>3, <2>4, <3>1
    <3>3. Without(Append(z, c), set) = IF c \in set THEN Without(z, set)
                                       ELSE Append(Without(z, set), c)
      BY <3>2, WithoutAppend
    <3>4. QED
      BY <2>8, <3>1, <3>3
  <2>10. Without(Append(u, c), set) = IF c \in set THEN v ELSE Append(v, c)
    <3>1. Without(Append(u, c), set) = IF c \in set THEN Without(u, set)
                                       ELSE Append(Without(u, set), c)
      BY <2>3, WithoutAppend
    <3>2. QED
      BY <2>6, <3>1
  <2>11. w \o Append(v, c) = Append(w \o v, c)
    <3>1. Append(v, c) = v \o <<c>> /\ <<c>> \in Seq(S)
      BY <2>3, <2>7, AppendIsConcat
    <3>2. w \o v \in Seq(S)
      BY <2>7, ConcatProperties
    <3>3. (w \o v) \o <<c>> = w \o (v \o <<c>>)
      <4>1. PICK q : q = <<c>>
        OBVIOUS
      <4>2. q \in Seq(S)
        BY <3>1, <4>1
      <4>3. (w \o v) \o q = w \o (v \o q)
        BY <2>7, <4>2, ConcatAssociative
      <4>4. QED
        BY <4>1, <4>3
    <3>4. Append(w \o v, c) = (w \o v) \o <<c>>
      BY <2>3, <3>2, AppendIsConcat
    <3>5. QED
      BY <3>1, <3>3, <3>4
  <2>12. Without(s \o Append(u, c), set) = w \o Without(Append(u, c), set)
    BY <2>4, <2>9, <2>10, <2>11
  <2>13. k + 1 \in 0 .. n
    BY <1>1
  <2>14. QED
    BY <2>3, <2>5, <2>12, <2>13
<1>4. P = 0 .. n
  <2>1. P \in SUBSET (0 .. n)
    OBVIOUS
  <2> HIDE DEF P
  <2>2. QED
    BY <1>1, <1>2, <1>3, <2>1, RangeInduction
<1>5. upto(n) = t
  BY <1>1, SubSeqFull
<1>6. QED
  <2>1. n \in P
    BY <1>1, <1>4
  <2>2. QED
    BY <1>5, <2>1

\* What is not in the set is kept, what is in it is not.
LEMMA WithoutForeign ==
  ASSUME NEW S, NEW s \in Seq(S), NEW set
  PROVE  /\ S \cap set = {} => Without(s, set) = s
         /\ S \subseteq set => Without(s, set) = <<>>
<1>1. PICK n \in Nat : n = Len(s)
  BY LenProperties
<1> DEFINE upto(k) == SubSeq(s, 1, k)
<1> DEFINE P == {k \in 0 .. n : /\ S \cap set = {} => Without(upto(k), set) = upto(k)
                                /\ S \subseteq set => Without(upto(k), set) = <<>>}
<1>2. 0 \in P
  <2>1. upto(0) = <<>>
    BY SubSeqEmpty
  <2>2. Without(upto(0), set) = <<>> /\ Without(upto(0), set) = upto(0)
    BY <2>1, WithoutNothing
  <2>3. QED
    BY <1>1, <2>2
<1>3. ASSUME NEW k \in 0 .. n - 1, k \in P PROVE k + 1 \in P
  <2>1. PICK u : u = upto(k)
    OBVIOUS
  <2>2. PICK c : c = s[k + 1]
    OBVIOUS
  <2>3. u \in Seq(S) /\ c \in S /\ upto(k + 1) = Append(u, c)
    BY <1>1, <2>1, <2>2, OneMore
  <2>4. Without(Append(u, c), set) =
          IF c \in set THEN Without(u, set) ELSE Append(Without(u, set), c)
    BY <2>3, WithoutAppend
  <2>5. k + 1 \in 0 .. n
    BY <1>1
  <2>6. ASSUME S \cap set = {} PROVE Without(upto(k + 1), set) = upto(k + 1)
    BY <1>3, <2>1, <2>3, <2>4, <2>6
  <2>7. ASSUME S \subseteq set PROVE Without(upto(k + 1), set) = <<>>
    BY <1>3, <2>1, <2>3, <2>4, <2>7
  <2>8. QED
    BY <2>5, <2>6, <2>7
<1>4. P = 0 .. n
  <2>1. P \in SUBSET (0 .. n)
    OBVIOUS
  <2> HIDE DEF P
  <2>2. QED
    BY <1>1, <1>2, <1>3, <2>1, RangeInduction
<1>5. upto(n) = s
  BY <1>1, SubSeqFull
<1>6. n \in P
  BY <1>1, <1>4
<1>7. QED
  BY <1>5, <1>6

LEMMA WithoutOne ==
  ASSUME NEW c, NEW set
  PROVE  Without(<<c>>, set) = IF c \in set THEN <<>> ELSE <<c>>
<1>1. PICK none : none = <<>>
  OBVIOUS
<1>2. none \in Seq({c}) /\ Append(<<>>, c) = <<c>> /\ c \in {c}
  BY <1>1, EmptySeq
<1>3. Without(Append(none, c), set) =
        IF c \in set THEN Without(none, set) ELSE Append(Without(none, set), c)
  BY <1>2, WithoutAppend
<1>4. Without(none, set) = none
  BY <1>1, WithoutNothing
<1>5. QED
  BY <1>1, <1>2, <1>3, <1>4

\* Of which characters and which marks a text is made.
IsMade(piece, S, M, chars, marks) ==
  piece \in Seq(S \cup M) /\ Without(piece, M) = chars /\ Without(piece, S) = marks

\* A text with markers around it, and with one before it.
LEMMA WithoutMarks ==
  ASSUME NEW S, NEW M, NEW p, NEW m, NEW c,
         S \cap M = {}, p \in Seq(S), m \in M, c \in M
  PROVE  /\ IsMade(<<m>> \o p, S, M, p, <<m>>)
         /\ IsMade(<<m>> \o p \o <<c>>, S, M, p, <<m, c>>)
<1>1. PICK T : T = S \cup M
  OBVIOUS
<1>2. PICK a : a = <<m>>
  OBVIOUS
<1>3. PICK b : b = <<c>>
  OBVIOUS
<1>4. PICK none : none = <<>>
  OBVIOUS
<1>5. p \in Seq(T) /\ a \in Seq(T) /\ b \in Seq(T)
  <2>1. p \in Seq(T)
    BY <1>1, SeqMonotonic
  <2>2. QED
    BY <1>1, <1>2, <1>3, <2>1
<1>6. Without(p, M) = p /\ Without(p, S) = none
  BY <1>4, WithoutForeign
<1>7. m \notin S /\ c \notin S
  OBVIOUS
<1>8. Without(a, M) = none /\ Without(b, M) = none
  BY <1>2, <1>3, <1>4, WithoutOne
<1>9. Without(a, S) = a /\ Without(b, S) = b
  BY <1>2, <1>3, <1>7, WithoutOne
<1>10. /\ none \o p = p /\ p \o none = p
       /\ a \o none = a /\ b \o none = b
  BY <1>4, <1>5, ConcatEmptySeq
<1>11. PICK q : q = a \o p
  OBVIOUS
<1>12. PICK r : r = q \o b
  OBVIOUS
<1>13. q \in Seq(T) /\ r \in Seq(T)
  BY <1>5, <1>11, <1>12, ConcatProperties
<1>14. Without(q, M) = p /\ Without(q, S) = a
  <2>1. /\ Without(q, M) = Without(a, M) \o Without(p, M)
        /\ Without(q, S) = Without(a, S) \o Without(p, S)
    <3>1. \A set : Without(a \o p, set) = Without(a, set) \o Without(p, set)
      BY <1>5, WithoutConcat
    <3>2. QED
      BY <1>11, <3>1
  <2>2. QED
    BY <1>6, <1>8, <1>9, <1>10, <2>1
<1>15. Without(r, M) = p /\ Without(r, S) = a \o b
  <2>1. /\ Without(r, M) = Without(q, M) \o Without(b, M)
        /\ Without(r, S) = Without(q, S) \o Without(b, S)
    <3>1. \A set : Without(q \o b, set) = Without(q, set) \o Without(b, set)
      <4>1. q \in Seq(T) /\ b \in Seq(T)
        BY <1>5, <1>13
      <4>2. QED
        BY <4>1, WithoutConcat
    <3>2. QED
      BY <1>12, <3>1
  <2>2. QED
    BY <1>8, <1>9, <1>10, <1>14, <2>1
<1>16. a \o b = <<m, c>>
  <2>1. PICK y : y = <<m, c>>
    OBVIOUS
  <2>2. y \in Seq(M) /\ Len(y) = 2 /\ y[1] = m /\ y[2] = c
    BY <2>1
  <2>3. a \in Seq(M) /\ b \in Seq(M) /\ Len(a) = 1 /\ Len(b) = 1 /\ a[1] = m /\ b[1] = c
    BY <1>2, <1>3
  <2>4. PICK x : x = a \o b
    OBVIOUS
  <2>5. /\ x \in Seq(M) /\ Len(x) = Len(a) + Len(b)
        /\ \A k \in 1 .. Len(a) + Len(b) : x[k] = IF k <= Len(a) THEN a[k] ELSE b[k - Len(a)]
    BY <2>3, <2>4, ConcatProperties
  <2>6. Len(x) = 2 /\ x[1] = m /\ x[2] = c
    BY <2>3, <2>5
  <2>7. x = y
    <3>1. \A k \in 1 .. Len(x) : x[k] = y[k]
      BY <2>2, <2>6
    <3>2. QED
      BY <2>2, <2>5, <2>6, <3>1, SeqEqual
  <2>8. QED
    BY <2>1, <2>4, <2>7
<1>17. IsMade(q, S, M, p, a)
  BY <1>1, <1>13, <1>14 DEF IsMade
<1>18. IsMade(r, S, M, p, <<m, c>>)
  BY <1>1, <1>13, <1>15, <1>16 DEF IsMade
<1>19. QED
  BY <1>2, <1>3, <1>11, <1>12, <1>17, <1>18

-----------------------------------------------------------------------------
(* The highlighters. *)

LEMMA Sizes ==
  /\ WordLimit \in Nat /\ WordLimit >= 1 /\ ~(0 >= WordLimit)
  /\ NumberLimit \in Nat /\ NumberLimit - 1 \in Nat /\ ~(0 >= NumberLimit)
BY HighlighterAssumption

LEMMA Signs ==
  /\ Letters \cap Digits = {}
  /\ {"/", Quote} \cap Letters = {} /\ {"/", Quote} \cap Digits = {}
  /\ \A l \in Languages : Alphabet[l] \cap Markers = {}
BY HighlighterAssumption

LEMMA MarkersAre ==
  /\ Opening \subseteq Markers /\ \A m \in Opening : Closing(m) \in Markers
  /\ {"[C]", "[S]", "[P]", "[K]", "[N]"} = Opening
BY DEF Markers, Opening

LineOK ==
  /\ language \in Languages
  /\ line \in Seq(Alphabet[language])
  /\ i \in 1 .. Len(line) + 2
  /\ printed \in Seq(Alphabet[language] \cup Markers)

\* Where a run of characters ends.
LEMMA RunEndIs ==
  ASSUME LineOK, NEW k \in 1 .. Len(line) + 1, NEW set, NEW most \in Nat
  PROVE  /\ RunEnd(k, set, most) \in k .. Len(line) + 1
         /\ \A j \in k .. RunEnd(k, set, most) - 1 : line[j] \in set /\ j - k < most
         /\ RunEnd(k, set, most) <= Len(line) =>
              \/ line[RunEnd(k, set, most)] \notin set
              \/ RunEnd(k, set, most) - k >= most
<1>1. PICK n \in Nat : n = Len(line)
  BY LenProperties DEF LineOK
<1> DEFINE E == {j \in k .. n : line[j] \notin set \/ j - k >= most} \cup {n + 1}
<1>2. k \in Nat /\ E \in SUBSET Nat /\ E # {}
  BY <1>1
<1>3. PICK e : e = Min(E)
  OBVIOUS
<1>4. e \in E /\ \A j \in E : e <= j
  <2> HIDE DEF E
  <2>1. QED
    BY <1>2, <1>3, MinOfNaturals
<1>5. e \in k .. n + 1
  BY <1>1, <1>4
<1>6. ASSUME NEW j \in k .. e - 1 PROVE line[j] \in set /\ j - k < most
  <2>1. j \in k .. n /\ ~(e <= j)
    BY <1>1, <1>5
  <2>2. j \notin E
    BY <1>4, <2>1
  <2>3. QED
    BY <2>1, <2>2
<1>7. ASSUME e <= n PROVE line[e] \notin set \/ e - k >= most
  BY <1>1, <1>4, <1>7
<1>8. RunEnd(k, set, most) = e
  BY <1>1, <1>3 DEF RunEnd
<1>9. QED
  BY <1>1, <1>5, <1>6, <1>7, <1>8

\* What a turn of a loop shows: some characters in markers, all of the rest
\* with one marker before it, or some characters as they are.
Closes(m, last) == Show(Marked(m, i, last), last + 1)
Opens(m) == \E next \in {Len(line) + 1, Len(line) + 2} : Show(<<m>> \o Rest, next)
Passes(last) == Show(SubSeq(line, i, last), last + 1)

CommentTurn ==
  \/ \E m \in {"[C]", "[P]"}, last \in i .. Len(line) :
       Closes(m, last) /\ (last = Len(line) \/ line[last] = "/")
  \/ Opens("[C]")
StringTurn ==
  /\ line[i] = Quote
  /\ \/ /\ Min(StringEnds) \in StringEnds /\ Min(StringEnds) \in i .. Len(line)
        /\ Closes("[S]", Min(StringEnds))
     \/ StringEnds = {} /\ Opens("[S]")
WordTurn ==
  /\ line[i] \in Letters /\ WordEnd - 1 \in i .. Len(line)
  /\ Closes("[K]", WordEnd - 1) \/ Passes(WordEnd - 1)
NumberTurn == \E last \in i .. Len(line) : Closes("[N]", last)
PlainTurn == line[i] \notin Letters \cup Digits /\ Passes(i)

LEMMA Turns ==
  ASSUME LineOK, HighlighterNext
  PROVE  /\ i \in 1 .. Len(line)
         /\ CommentTurn \/ StringTurn \/ WordTurn \/ NumberTurn \/ PlainTurn
<1>1. PICK n \in Nat : n = Len(line)
  BY LenProperties DEF LineOK
<1>2. i \in Nat /\ i >= 1 /\ i \in 1 .. n + 2 /\ i + 1 \in Nat
  BY <1>1 DEF LineOK
<1>3. CASE line_comment \/ hash_comment \/ preprocessor
  <2>1. i <= n
    BY <1>1, <1>3 DEF line_comment, hash_comment, preprocessor, Pair, At
  <2>2. n \in i .. n
    BY <1>1, <1>2, <2>1
  <2>3. ShowRest("[C]") \/ ShowRest("[P]")
    BY <1>3 DEF line_comment, hash_comment, preprocessor
  <2>4. Closes("[C]", n) \/ Closes("[P]", n)
    BY <1>1, <2>3 DEF ShowRest, Closes
  <2>5. QED
    BY <1>1, <1>2, <2>1, <2>2, <2>4 DEF CommentTurn
<1>4. CASE block_comment
  <2>1. i <= n
    BY <1>1, <1>4 DEF block_comment, Pair, At
  <2>2. CASE CommentEnds # {} /\ Show(Marked("[C]", i, Min(CommentEnds) + 1), Min(CommentEnds) + 2)
    <3>1. CommentEnds \in SUBSET Nat
      BY <1>1, <1>2 DEF CommentEnds
    <3>2. PICK e : e = Min(CommentEnds)
      OBVIOUS
    <3>3. e \in CommentEnds
      BY <2>2, <3>1, <3>2, MinOfNaturals
    <3>4. e \in i + 2 .. n - 1 /\ line[e + 1] = "/"
      BY <1>1, <3>3 DEF CommentEnds
    <3>5. e + 1 \in i .. n /\ (e + 1) + 1 = e + 2
      BY <1>1, <1>2, <3>4
    <3>6. Closes("[C]", e + 1)
      BY <2>2, <3>2, <3>5 DEF Closes
    <3>7. QED
      BY <1>1, <1>2, <2>1, <3>4, <3>5, <3>6 DEF CommentTurn
  <2>3. CASE CommentEnds = {} /\ Show(<<"[C]">> \o Rest, Len(line) + 1)
    BY <1>1, <1>2, <2>1, <2>3 DEF CommentTurn, Opens
  <2>4. QED
    BY <1>4, <2>2, <2>3 DEF block_comment
<1>5. CASE string_literal
  <2>1. i <= n /\ line[i] = Quote
    BY <1>1, <1>5 DEF string_literal, At
  <2>2. CASE StringEnds # {} /\ Show(Marked("[S]", i, Min(StringEnds)), Min(StringEnds) + 1)
    <3>1. StringEnds \in SUBSET Nat
      <4>1. StringEnds \subseteq i + 1 .. Len(line)
        BY DEF StringEnds
      <4>2. i + 1 .. Len(line) \subseteq Nat
        BY <1>1, <1>2
      <4>3. QED
        BY <4>1, <4>2
    <3>2. Min(StringEnds) \in StringEnds
      BY <2>2, <3>1, MinOfNaturals
    <3>3. Min(StringEnds) \in i + 1 .. n
      BY <1>1, <3>2 DEF StringEnds
    <3>4. Min(StringEnds) \in i .. n
      BY <1>1, <1>2, <3>3
    <3>5. Closes("[S]", Min(StringEnds))
      BY <2>2 DEF Closes
    <3>6. StringTurn
      BY <1>1, <2>1, <3>2, <3>4, <3>5 DEF StringTurn
    <3>7. i \in 1 .. Len(line)
      BY <1>1, <1>2, <2>1
    <3>8. QED
      BY <3>6, <3>7
  <2>3. CASE StringEnds = {} /\ Show(<<"[S]">> \o Rest, Len(line) + 2)
    <3>1. Opens("[S]")
      BY <2>3 DEF Opens
    <3>2. StringTurn
      BY <2>1, <2>3, <3>1 DEF StringTurn
    <3>3. i \in 1 .. Len(line)
      BY <1>1, <1>2, <2>1
    <3>4. QED
      BY <3>2, <3>3
  <2>4. QED
    BY <1>5, <2>2, <2>3 DEF string_literal
<1>6. CASE word
  <2>1. i <= n /\ line[i] \in Letters
    BY <1>1, <1>6 DEF word
  <2>2. PICK e : e = WordEnd
    OBVIOUS
  <2>3. e \in i + 1 .. n + 1
    <3>1. /\ e \in i .. n + 1
          /\ e <= n => line[e] \notin Letters \cup Digits \/ e - i >= WordLimit
      <4>1. i \in 1 .. Len(line) + 1 /\ WordLimit \in Nat
        BY <1>1, <1>2, <2>1, Sizes
      <4>2. e = RunEnd(i, Letters \cup Digits, WordLimit)
        BY <2>2 DEF WordEnd
      <4>3. QED
        BY <1>1, <4>1, <4>2, RunEndIs
    <3>2. e # i
      <4>1. line[i] \in Letters \cup Digits /\ i - i = 0
        BY <1>2, <2>1
      <4>2. QED
        BY <2>1, <3>1, <4>1, Sizes
    <3>3. QED
      BY <1>1, <1>2, <3>1, <3>2
  <2>4. e - 1 \in i .. n /\ (e - 1) + 1 = e
    BY <1>1, <1>2, <2>3
  <2>5. Closes("[K]", e - 1) \/ Passes(e - 1)
    BY <1>6, <2>2, <2>4 DEF word, AfterWord, Closes, Passes
  <2>6. QED
    BY <1>1, <1>2, <2>1, <2>2, <2>4, <2>5 DEF WordTurn
<1>7. CASE number
  <2>1. i <= n /\ NumberStarts
    BY <1>1, <1>7 DEF number
  <2>2. PICK e : e = NumberEnd
    OBVIOUS
  <2>3. e \in i + 1 .. n + 1
    <3>1. CASE At("-")
      <4>1. e = RunEnd(i + 1, NumberChars, NumberLimit - 1)
        BY <2>2, <3>1 DEF NumberEnd
      <4>2. i + 1 \in 1 .. n + 1 /\ NumberLimit - 1 \in Nat
        <5>1. NumberLimit - 1 \in Nat
          BY Sizes
        <5>2. i + 1 \in 1 .. n + 1
          BY <1>1, <1>2, <2>1
        <5>3. QED
          BY <5>1, <5>2
      <4>3. QED
        BY <1>1, <4>1, <4>2, RunEndIs
    <3>2. CASE ~At("-")
      <4>1. e = RunEnd(i, NumberChars, NumberLimit)
        BY <2>2, <3>2 DEF NumberEnd
      <4>2. i \in 1 .. n + 1 /\ line[i] \in NumberChars
        BY <1>1, <1>2, <2>1, <3>2 DEF NumberStarts, NumberChars
      <4>3. /\ e \in i .. n + 1
            /\ e <= n => line[e] \notin NumberChars \/ e - i >= NumberLimit
        BY <1>1, <4>1, <4>2, Sizes, RunEndIs
      <4>4. e # i
        <5>1. i - i = 0
          BY <1>2
        <5>2. QED
          BY <2>1, <4>2, <4>3, <5>1, Sizes
      <4>5. QED
        BY <1>1, <1>2, <4>3, <4>4
    <3>3. QED
      BY <3>1, <3>2
  <2>4. e - 1 \in i .. n /\ (e - 1) + 1 = e
    BY <1>1, <1>2, <2>3
  <2>5. Closes("[N]", e - 1)
    BY <1>7, <2>2, <2>4 DEF number, Closes
  <2>6. QED
    BY <1>1, <1>2, <2>1, <2>4, <2>5 DEF NumberTurn
<1>8. CASE plain
  <2>1. i <= n /\ line[i] \notin Letters \cup Digits
    BY <1>1, <1>8 DEF plain, StartsSomething
  <2>2. SubSeq(line, i, i) = <<line[i]>>
    <3>1. i \in 1 .. Len(line) /\ i \in i .. Len(line) /\ i \in Int /\ i + 1 \in Int /\ i < i + 1
      BY <1>1, <1>2, <2>1
    <3>2. SubSeq(line, i, i) = <<line[i]>> \o SubSeq(line, i + 1, i)
      BY <3>1, SubSeqRecursiveFirst DEF LineOK
    <3>3. SubSeq(line, i + 1, i) = <<>>
      BY <3>1, SubSeqEmpty
    <3>4. PICK a : a = <<line[i]>>
      OBVIOUS
    <3>5. line[i] \in Alphabet[language]
      BY <3>1, ElementOfSeq DEF LineOK
    <3>6. a \o <<>> = a
      BY <3>4, <3>5, ConcatEmptySeq
    <3>7. QED
      BY <3>2, <3>3, <3>4, <3>6
  <2>3. Passes(i)
    BY <1>8, <2>2 DEF plain, Passes
  <2>4. QED
    BY <1>1, <1>2, <2>1, <2>3 DEF PlainTurn
<1>9. QED
  BY <1>3, <1>4, <1>5, <1>6, <1>7, <1>8 DEF HighlighterNext

\* A turn shows the characters up to last, and of markers none, a pair, or one
\* that stays open because the line ends.
IsGrowth(piece, last) ==
  /\ UNCHANGED <<language, line>>
  /\ i \in 1 .. Len(line) /\ last \in i .. Len(line)
  /\ i' = last + 1 \/ (last = Len(line) /\ i' = Len(line) + 2)
  /\ printed' = printed \o piece /\ piece \in Seq(Alphabet[language] \cup Markers)
  /\ Without(piece, Markers) = SubSeq(line, i, last)
  /\ \/ Without(piece, Alphabet[language]) = <<>>
     \/ \E m \in Opening : Without(piece, Alphabet[language]) = <<m, Closing(m)>>
     \/ /\ \E m \in {"[C]", "[S]"} : Without(piece, Alphabet[language]) = <<m>>
        /\ last = Len(line)

\* A part of the line holds no markers.
LEMMA PartOfLine ==
  ASSUME LineOK, i \in 1 .. Len(line), NEW last \in i .. Len(line)
  PROVE  /\ SubSeq(line, i, last) \in Seq(Alphabet[language])
         /\ SubSeq(line, i, last) \in Seq(Alphabet[language] \cup Markers)
         /\ Without(SubSeq(line, i, last), Markers) = SubSeq(line, i, last)
         /\ Without(SubSeq(line, i, last), Alphabet[language]) = <<>>
         /\ Alphabet[language] \cap Markers = {}
<1>1. PICK A : A = Alphabet[language]
  OBVIOUS
<1>2. A \cap Markers = {} /\ line \in Seq(A) /\ Len(line) \in Nat
  BY <1>1, Signs, LenProperties DEF LineOK
<1>3. PICK p : p = SubSeq(line, i, last)
  OBVIOUS
<1>4. p \in Seq(A)
  <2>1. i \in Int /\ last \in Int /\ \A k \in i .. last : k \in 1 .. Len(line)
    BY <1>2
  <2>2. \A k \in i .. last : line[k] \in A
    BY <1>2, <2>1, ElementOfSeq
  <2>3. QED
    BY <1>3, <2>1, <2>2, SubSeqProperties
<1>5. p \in Seq(A \cup Markers)
  <2>1. A \subseteq A \cup Markers
    OBVIOUS
  <2>2. QED
    BY <1>4, <2>1, SeqMonotonic
<1>6. Without(p, Markers) = p /\ Without(p, A) = <<>>
  BY <1>2, <1>4, WithoutForeign
<1>7. QED
  BY <1>1, <1>2, <1>3, <1>4, <1>5, <1>6

LEMMA ClosesGrows ==
  ASSUME LineOK, i \in 1 .. Len(line), NEW m \in Opening, NEW last \in i .. Len(line),
         Closes(m, last)
  PROVE  IsGrowth(Marked(m, i, last), last)
<1>1. PICK p : p = SubSeq(line, i, last)
  OBVIOUS
<1>2. PICK c : c = Closing(m)
  OBVIOUS
<1>3. PICK A : A = Alphabet[language]
  OBVIOUS
<1>4. m \in Markers /\ c \in Markers
  BY <1>2, MarkersAre
<1>5. p \in Seq(A) /\ A \cap Markers = {}
  BY <1>1, <1>3, PartOfLine
<1>6. PICK piece : piece = <<m>> \o p \o <<c>>
  OBVIOUS
<1>7. /\ piece \in Seq(A \cup Markers) /\ Without(piece, Markers) = p
      /\ Without(piece, A) = <<m, c>>
  <2>1. PICK M : M = Markers
    OBVIOUS
  <2>2. m \in M /\ c \in M /\ A \cap M = {}
    BY <1>4, <1>5, <2>1
  <2>3. IsMade(<<m>> \o p \o <<c>>, A, M, p, <<m, c>>)
    BY <1>5, <2>2, WithoutMarks
  <2>4. QED
    BY <1>6, <2>1, <2>3 DEF IsMade
<1>8. piece = Marked(m, i, last)
  BY <1>1, <1>2, <1>6 DEF Marked
<1>9. printed' = printed \o piece /\ i' = last + 1 /\ UNCHANGED <<language, line>>
  BY <1>8 DEF Closes, Show
<1>10. \E o \in Opening : Without(piece, A) = <<o, Closing(o)>>
  BY <1>2, <1>7
<1>11. IsGrowth(piece, last)
  BY <1>1, <1>3, <1>7, <1>9, <1>10 DEF IsGrowth
<1>12. QED
  BY <1>8, <1>11

LEMMA OpensGrows ==
  ASSUME LineOK, i \in 1 .. Len(line), NEW m \in {"[C]", "[S]"}, Opens(m)
  PROVE  IsGrowth(<<m>> \o Rest, Len(line))
<1>1. PICK p : p = Rest
  OBVIOUS
<1>2. PICK A : A = Alphabet[language]
  OBVIOUS
<1>3. m \in Markers
  BY MarkersAre
<1>4. PICK last : last = Len(line)
  OBVIOUS
<1>5. last \in Nat /\ last \in i .. Len(line) /\ p = SubSeq(line, i, last)
  BY <1>1, <1>4, LenProperties DEF LineOK, Rest
<1>6. p \in Seq(A) /\ A \cap Markers = {}
  BY <1>2, <1>5, PartOfLine
<1>7. PICK piece : piece = <<m>> \o p
  OBVIOUS
<1>8. /\ piece \in Seq(A \cup Markers) /\ Without(piece, Markers) = p
      /\ Without(piece, A) = <<m>>
  <2>1. PICK M : M = Markers
    OBVIOUS
  <2>2. m \in M /\ A \cap M = {}
    BY <1>3, <1>6, <2>1
  <2>3. IsMade(<<m>> \o p, A, M, p, <<m>>)
    BY <1>6, <2>2, WithoutMarks
  <2>4. QED
    BY <1>7, <2>1, <2>3 DEF IsMade
<1>9. /\ printed' = printed \o piece /\ UNCHANGED <<language, line>>
      /\ i' = last + 1 \/ i' = last + 2
  BY <1>1, <1>4, <1>7 DEF Opens, Show
<1>10. IsGrowth(piece, last)
  BY <1>2, <1>4, <1>5, <1>8, <1>9 DEF IsGrowth
<1>11. QED
  BY <1>1, <1>4, <1>7, <1>10

LEMMA PassesGrows ==
  ASSUME LineOK, i \in 1 .. Len(line), NEW last \in i .. Len(line), Passes(last)
  PROVE  IsGrowth(SubSeq(line, i, last), last)
BY PartOfLine DEF IsGrowth, Passes, Show

\* Every turn of a highlighter is one.
LEMMA Growth ==
  ASSUME LineOK, HighlighterNext
  PROVE  \E piece, last : IsGrowth(piece, last)
<1>1. CommentTurn \/ StringTurn \/ WordTurn \/ NumberTurn \/ PlainTurn
  BY Turns
<1>2. i \in 1 .. Len(line)
  BY Turns
<1>3. ASSUME NEW m \in Opening, NEW last \in i .. Len(line), Closes(m, last)
      PROVE  \E piece, l : IsGrowth(piece, l)
  BY <1>2, <1>3, ClosesGrows
<1>4. ASSUME NEW m \in {"[C]", "[S]"}, Opens(m)
      PROVE  \E piece, l : IsGrowth(piece, l)
  BY <1>2, <1>4, OpensGrows
<1>5. ASSUME NEW last \in i .. Len(line), Passes(last)
      PROVE  \E piece, l : IsGrowth(piece, l)
  BY <1>2, <1>5, PassesGrows
<1>6. CASE CommentTurn
  BY <1>3, <1>4, <1>6, MarkersAre DEF CommentTurn
<1>7. CASE StringTurn
  BY <1>3, <1>4, <1>7, MarkersAre DEF StringTurn
<1>8. CASE WordTurn
  BY <1>3, <1>5, <1>8, MarkersAre DEF WordTurn
<1>9. CASE NumberTurn
  BY <1>3, <1>9, MarkersAre DEF NumberTurn
<1>10. CASE PlainTurn
  <2>1. i \in i .. Len(line)
    BY <1>2, LenProperties DEF LineOK
  <2>2. QED
    BY <1>5, <1>10, <2>1 DEF PlainTurn
<1>11. QED
  BY <1>6, <1>7, <1>8, <1>9, <1>10, Turns

LEMMA MinOfTwo ==
  ASSUME NEW a \in Nat, NEW b \in Nat
  PROVE  Min({a, b}) = IF a <= b THEN a ELSE b
<1>1. PICK E : E = {a, b}
  OBVIOUS
<1>2. E \in SUBSET Nat /\ E # {} /\ a \in E /\ b \in E
  BY <1>1
<1>3. Min(E) \in E /\ Min(E) <= a /\ Min(E) <= b
  BY <1>2, MinOfNaturals
<1>4. QED
  BY <1>1, <1>3

LEMMA LineStep ==
  ASSUME LineOK, NEW piece, NEW last, IsGrowth(piece, last)
  PROVE  LineOK'
<1>1. PICK n \in Nat : n = Len(line)
  BY LenProperties DEF LineOK
<1>2. i' \in 1 .. n + 2
  BY <1>1 DEF IsGrowth
<1>3. printed \o piece \in Seq(Alphabet[language] \cup Markers)
  BY ConcatProperties DEF LineOK, IsGrowth
<1>4. QED
  BY <1>1, <1>2, <1>3 DEF LineOK, IsGrowth

\* The characters shown are added one part of the line behind the other.
LEMMA ShownStep ==
  ASSUME LineOK, AllShown, NEW piece, NEW last, IsGrowth(piece, last)
  PROVE  AllShown'
<1>1. PICK n \in Nat : n = Len(line)
  BY LenProperties DEF LineOK
<1>2. i \in 1 .. n /\ last \in i .. n /\ line' = line /\ last \in Nat /\ i - 1 \in Nat
  BY <1>1 DEF IsGrowth
<1>3. Min({i - 1, n}) = i - 1
  BY <1>2, MinOfTwo
<1>4. Characters(printed) = SubSeq(line, 1, i - 1)
  BY <1>1, <1>3 DEF AllShown
<1>5. Characters(printed') = SubSeq(line, 1, i - 1) \o SubSeq(line, i, last)
  <2>1. PICK T : T = Alphabet[language] \cup Markers
    OBVIOUS
  <2>2. printed \in Seq(T) /\ piece \in Seq(T) /\ printed' = printed \o piece
    BY <2>1 DEF LineOK, IsGrowth
  <2>3. Without(printed \o piece, Markers) = Without(printed, Markers) \o Without(piece, Markers)
    BY <2>2, WithoutConcat
  <2>4. Without(piece, Markers) = SubSeq(line, i, last)
    BY DEF IsGrowth
  <2>5. QED
    BY <1>4, <2>2, <2>3, <2>4 DEF Characters
<1>6. SubSeq(line, 1, i - 1) \o SubSeq(line, i, last) = SubSeq(line, 1, last)
  <2>1. PICK k : k = i - 1
    OBVIOUS
  <2>2. 1 \in 1 .. Len(line) + 1 /\ k \in 1 - 1 .. Len(line) /\ last \in k .. Len(line) /\ k + 1 = i
    BY <1>1, <1>2, <2>1
  <2>3. SubSeq(line, 1, k) \o SubSeq(line, k + 1, last) = SubSeq(line, 1, last)
    BY <2>2, ConcatAdjacentSubSeq DEF LineOK
  <2>4. QED
    BY <2>1, <2>2, <2>3
<1>7. Min({i' - 1, n}) = last
  <2>1. CASE i' = last + 1
    <3>1. i' - 1 = last /\ last <= n
      BY <1>2, <2>1
    <3>2. QED
      BY <1>2, <3>1, MinOfTwo
  <2>2. CASE last = n /\ i' = n + 2
    <3>1. i' - 1 = n + 1 /\ n + 1 \in Nat /\ ~(n + 1 <= n)
      BY <1>1, <2>2
    <3>2. QED
      BY <2>2, <3>1, MinOfTwo
  <2>3. QED
    BY <1>1, <2>1, <2>2 DEF IsGrowth
<1>8. QED
  BY <1>1, <1>2, <1>5, <1>6, <1>7 DEF AllShown

\* MarkersPair, for any marks.
Paired(marks, over) ==
  \A k \in 1 .. Len(marks) :
    IF k % 2 = 0 THEN marks[k] = Closing(marks[k - 1])
    ELSE marks[k] \in Opening /\ (k = Len(marks) => marks[k] \in {"[C]", "[S]"} /\ over)

\* A mark more, which closes the last one or opens.
LEMMA OneMarkMore ==
  ASSUME NEW S, NEW marks \in Seq(S), NEW over \in BOOLEAN, Paired(marks, over),
         Len(marks) % 2 = 0, NEW r \in Seq(S)
  PROVE  /\ Len(r) = 0 => Paired(marks \o r, over)
         /\ Len(r) = 1 /\ r[1] \in {"[C]", "[S]"} /\ over => Paired(marks \o r, over)
         /\ Len(r) = 2 /\ r[1] \in Opening /\ r[2] = Closing(r[1]) => Paired(marks \o r, over)
<1>1. PICK n \in Nat : n = Len(marks)
  BY LenProperties
<1>2. PICK all : all = marks \o r
  OBVIOUS
<1>3. PICK m \in Nat : m = Len(r)
  BY LenProperties
<1>4. /\ Len(all) = n + m
      /\ \A k \in 1 .. n + m : all[k] = IF k <= n THEN marks[k] ELSE r[k - n]
  BY <1>1, <1>2, <1>3, ConcatProperties
<1>5. ASSUME NEW k \in 1 .. n
      PROVE  IF k % 2 = 0 THEN all[k] = Closing(all[k - 1]) ELSE all[k] \in Opening /\ k # n
  <2>1. k \in 1 .. n + m /\ k <= n /\ all[k] = marks[k]
    BY <1>1, <1>3, <1>4
  <2>2. CASE k % 2 = 0
    <3>1. k - 1 \in 1 .. n + m /\ k - 1 <= n
      BY <1>1, <1>3, <2>2
    <3>2. all[k - 1] = marks[k - 1]
      BY <1>4, <3>1
    <3>3. QED
      BY <1>1, <2>1, <2>2, <3>2 DEF Paired
  <2>3. CASE k % 2 # 0
    BY <1>1, <2>1, <2>3 DEF Paired
  <2>4. QED
    BY <2>2, <2>3
<1>6. (n + 1) % 2 # 0 /\ (n + 2) % 2 = 0
  BY <1>1
<1>7. ASSUME m = 0 PROVE Paired(all, over)
  <2>1. Len(all) = n
    BY <1>1, <1>4, <1>7
  <2>2. QED
    BY <1>5, <2>1 DEF Paired
<1>8. ASSUME m = 1, r[1] \in {"[C]", "[S]"}, over PROVE Paired(all, over)
  <2>1. Len(all) = n + 1 /\ all[n + 1] = r[1]
    <3>1. n + 1 \in 1 .. n + m /\ ~(n + 1 <= n) /\ (n + 1) - n = 1
      BY <1>1, <1>8
    <3>2. QED
      BY <1>4, <1>8, <3>1
  <2>2. ASSUME NEW k \in 1 .. n + 1
        PROVE  IF k % 2 = 0 THEN all[k] = Closing(all[k - 1])
               ELSE all[k] \in Opening /\ (k = n + 1 => all[k] \in {"[C]", "[S]"} /\ over)
    <3>1. CASE k = n + 1
      BY <1>6, <1>8, <2>1, <3>1, MarkersAre
    <3>2. CASE k # n + 1
      <4>1. k \in 1 .. n
        BY <1>1, <3>2
      <4>2. QED
        BY <1>5, <3>2, <4>1
    <3>3. QED
      BY <3>1, <3>2
  <2>3. QED
    BY <2>1, <2>2 DEF Paired
<1>9. ASSUME m = 2, r[1] \in Opening, r[2] = Closing(r[1]) PROVE Paired(all, over)
  <2>1. Len(all) = n + 2 /\ all[n + 1] = r[1] /\ all[n + 2] = r[2] /\ (n + 2) - 1 = n + 1
    <3>1. /\ n + 1 \in 1 .. n + m /\ ~(n + 1 <= n) /\ (n + 1) - n = 1
          /\ n + 2 \in 1 .. n + m /\ ~(n + 2 <= n) /\ (n + 2) - n = 2
      BY <1>1, <1>9
    <3>2. QED
      BY <1>4, <1>9, <3>1
  <2>2. ASSUME NEW k \in 1 .. n + 2
        PROVE  IF k % 2 = 0 THEN all[k] = Closing(all[k - 1])
               ELSE all[k] \in Opening /\ k # n + 2
    <3>1. CASE k = n + 1
      <4>1. k % 2 # 0 /\ k # n + 2
        BY <1>6, <3>1
      <4>2. QED
        BY <1>9, <2>1, <3>1, <4>1
    <3>2. CASE k = n + 2
      <4>1. k % 2 = 0 /\ k - 1 = n + 1
        BY <1>6, <2>1, <3>2
      <4>2. QED
        BY <1>9, <2>1, <3>2, <4>1
    <3>3. CASE k # n + 1 /\ k # n + 2
      <4>1. k \in 1 .. n
        BY <1>1, <3>3
      <4>2. QED
        BY <1>5, <3>3, <4>1
    <3>4. QED
      BY <3>1, <3>2, <3>3
  <2>3. QED
    BY <2>1, <2>2 DEF Paired
<1>10. QED
  BY <1>2, <1>3, <1>7, <1>8, <1>9

LEMMA MarkersStep ==
  ASSUME LineOK, MarkersPair, NEW piece, NEW last, IsGrowth(piece, last)
  PROVE  MarkersPair'
<1>1. PICK A : A = Alphabet[language]
  OBVIOUS
<1>2. PICK T : T = A \cup Markers
  OBVIOUS
<1>3. PICK marks : marks = Without(printed, A)
  OBVIOUS
<1>4. PICK r : r = Without(piece, A)
  OBVIOUS
<1>5. printed \in Seq(T) /\ piece \in Seq(T) /\ printed' = printed \o piece /\ language' = language
  BY <1>1, <1>2 DEF LineOK, IsGrowth
<1>6. marks \in Seq(T) /\ r \in Seq(T) /\ Len(marks) \in Nat
  BY <1>3, <1>4, <1>5, WithoutIsText, LenProperties
<1>7. Without(printed', A) = marks \o r
  <2>1. Without(printed \o piece, A) = Without(printed, A) \o Without(piece, A)
    BY <1>5, WithoutConcat
  <2>2. QED
    BY <1>3, <1>4, <1>5, <2>1
<1>8. Paired(marks, Shown)
  BY <1>1, <1>3 DEF MarkersPair, Paired
<1>9. ~Shown
  <2>1. i \in 1 .. Len(line) /\ Len(line) \in Nat
    BY LenProperties DEF LineOK, IsGrowth
  <2>2. QED
    BY <2>1 DEF Shown
<1>10. Len(marks) % 2 = 0
  <2>1. SUFFICES ASSUME Len(marks) % 2 # 0 PROVE FALSE
    OBVIOUS
  <2>2. Len(marks) \in 1 .. Len(marks)
    BY <1>6, <2>1
  <2>3. QED
    BY <1>8, <1>9, <2>1, <2>2 DEF Paired
<1>11. PICK over \in BOOLEAN : over <=> Shown'
  <2>1. CASE Shown'
    BY <2>1
  <2>2. CASE ~Shown'
    BY <2>2
  <2>3. QED
    BY <2>1, <2>2
<1>12. Paired(marks, over)
  <2>1. \A k \in 1 .. Len(marks) : k % 2 # 0 => k # Len(marks)
    BY <1>10
  <2>2. QED
    BY <1>8, <2>1 DEF Paired
<1>13. \/ Len(r) = 0
       \/ Len(r) = 2 /\ r[1] \in Opening /\ r[2] = Closing(r[1])
       \/ Len(r) = 1 /\ r[1] \in {"[C]", "[S]"} /\ over
  <2>1. CASE r = <<>>
    BY <2>1
  <2>2. ASSUME NEW m \in Opening, r = <<m, Closing(m)>>
        PROVE  Len(r) = 2 /\ r[1] \in Opening /\ r[2] = Closing(r[1])
    <3>1. PICK c : c = Closing(m)
      OBVIOUS
    <3>2. r = <<m, c>>
      BY <2>2, <3>1
    <3>3. Len(r) = 2 /\ r[1] = m /\ r[2] = c
      BY <3>2
    <3>4. QED
      BY <3>1, <3>3
  <2>3. ASSUME NEW m \in {"[C]", "[S]"}, r = <<m>>, last = Len(line)
        PROVE  Len(r) = 1 /\ r[1] \in {"[C]", "[S]"} /\ over
    <3>1. Len(r) = 1 /\ r[1] = m
      BY <2>3
    <3>2. Len(line) \in Nat /\ line' = line
      BY LenProperties DEF LineOK, IsGrowth
    <3>3. i' > Len(line)
      BY <2>3, <3>2 DEF IsGrowth
    <3>4. QED
      BY <1>11, <3>1, <3>2, <3>3 DEF Shown
  <2>4. QED
    BY <1>1, <1>4, <2>1, <2>2, <2>3 DEF IsGrowth
<1>14. Paired(marks \o r, over)
  BY <1>6, <1>10, <1>12, <1>13, OneMarkMore
<1>15. QED
  BY <1>1, <1>5, <1>7, <1>11, <1>14 DEF MarkersPair, Paired

LineInv == LineOK /\ AllShown /\ MarkersPair

LEMMA InitLine == Init => LineInv
<1> SUFFICES ASSUME Init PROVE LineInv
  OBVIOUS
<1>1. /\ language \in Languages /\ line \in Seq(Alphabet[language])
      /\ i = 1 /\ printed = <<>>
  <2>1. CASE HighlighterInit
    <3>1. line \in SeqOf(Alphabet[language], MaxLength)
      BY <2>1 DEF HighlighterInit
    <3>2. PICK m \in 0 .. MaxLength : line \in [1 .. m -> Alphabet[language]]
      BY <3>1 DEF SeqOf
    <3>3. line \in Seq(Alphabet[language])
      <4>1. m \in Nat
        OBVIOUS
      <4>2. QED
        BY <3>2, <4>1, SeqDef
    <3>4. QED
      BY <2>1, <3>3 DEF HighlighterInit
  <2>2. CASE NoHighlighter
    BY <2>2 DEF NoHighlighter, Languages
  <2>3. QED
    BY <2>1, <2>2 DEF Init
<1>2. Len(line) \in Nat
  BY <1>1, LenProperties
<1>3. LineOK
  <2>1. i \in 1 .. Len(line) + 2
    BY <1>1, <1>2
  <2>2. printed \in Seq(Alphabet[language] \cup Markers)
    BY <1>1, EmptySeq
  <2>3. QED
    BY <1>1, <2>1, <2>2 DEF LineOK
<1>4. AllShown
  <2>1. Min({i - 1, Len(line)}) = 0
    <3>1. i - 1 = 0 /\ 0 <= Len(line)
      BY <1>1, <1>2
    <3>2. QED
      BY <1>2, <3>1, MinOfTwo
  <2>2. SubSeq(line, 1, 0) = <<>>
    BY SubSeqEmpty
  <2>3. QED
    BY <1>1, <2>1, <2>2, WithoutNothing DEF AllShown, Characters
<1>5. MarkersPair
  <2>1. PICK marks : marks = Without(printed, Alphabet[language])
    OBVIOUS
  <2>2. marks = <<>>
    BY <1>1, <2>1, WithoutNothing
  <2>3. 1 .. Len(marks) = {}
    BY <2>2
  <2>4. QED
    BY <2>1, <2>3 DEF MarkersPair
<1>6. QED
  BY <1>3, <1>4, <1>5 DEF LineInv

LEMMA LineInvStep == LineInv /\ [Next]_vars => LineInv'
<1> SUFFICES ASSUME LineInv, [Next]_vars PROVE LineInv'
  OBVIOUS
<1>1. LineOK /\ AllShown /\ MarkersPair
  BY DEF LineInv
<1>2. CASE HighlighterNext
  <2>1. PICK piece, last : IsGrowth(piece, last)
    BY <1>1, <1>2, Growth
  <2>2. LineOK' /\ AllShown' /\ MarkersPair'
    BY <1>1, <2>1, LineStep, ShownStep, MarkersStep
  <2>3. QED
    BY <2>2 DEF LineInv
<1>3. CASE UNCHANGED h_vars
  BY <1>3 DEF LineInv, LineOK, AllShown, MarkersPair, Characters, Shown, h_vars
<1>4. QED
  BY <1>2, <1>3 DEF Next, vars, h_vars

\* In the shell commands there is no line, so all of this holds there too.
THEOREM LineInvariant == Spec => []LineInv
<1>1. QED
  BY InitLine, LineInvStep, PTL DEF Spec

(* Whatever the characters, the keywords and the limits: the highlighters show
   the whole line, each character once and in its place. *)
THEOREM WholeLineShown == Spec => []AllShown
<1>1. LineInv => AllShown
  BY DEF LineInv
<1>2. QED
  BY <1>1, LineInvariant, PTL

(* And every marker is closed by its own before the next, but for a comment or
   a string that the line ends in. *)
THEOREM MarkersArePaired == Spec => []MarkersPair
<1>1. LineInv => MarkersPair
  BY DEF LineInv
<1>2. QED
  BY <1>1, LineInvariant, PTL

-----------------------------------------------------------------------------
(* Keywords. *)

LEMMA MinIs ==
  ASSUME NEW E \in SUBSET Nat, NEW e \in E, \A x \in E : e <= x
  PROVE  Min(E) = e
<1>1. Min(E) \in E /\ \A x \in E : Min(E) <= x
  BY MinOfNaturals
<1>2. Min(E) <= e /\ e <= Min(E) /\ Min(E) \in Nat
  BY <1>1
<1>3. QED
  BY <1>2

\* A text in markers, place by place.
IsMarked(piece, m, p, c) ==
  /\ Len(piece) = Len(p) + 2 /\ piece[1] = m /\ piece[Len(p) + 2] = c
  /\ \A j \in 1 .. Len(p) : piece[j + 1] = p[j]

LEMMA MarkedPlaces ==
  ASSUME NEW S, NEW p \in Seq(S), NEW m, NEW c
  PROVE  IsMarked(<<m>> \o p \o <<c>>, m, p, c)
<1>1. PICK T : T = S \cup {m, c}
  OBVIOUS
<1>2. PICK a : a = <<m>>
  OBVIOUS
<1>3. PICK b : b = <<c>>
  OBVIOUS
<1>4. p \in Seq(T)
  <2>1. S \subseteq T
    BY <1>1
  <2>2. QED
    BY <2>1, SeqMonotonic
<1>5. a \in Seq(T) /\ Len(a) = 1 /\ a[1] = m
  BY <1>1, <1>2
<1>6. b \in Seq(T) /\ Len(b) = 1 /\ b[1] = c
  BY <1>1, <1>3
<1>7. PICK n \in Nat : n = Len(p)
  BY LenProperties
<1>8. PICK q : q = a \o p
  OBVIOUS
<1>9. /\ q \in Seq(T) /\ Len(q) = 1 + n
      /\ \A j \in 1 .. 1 + n : q[j] = IF j <= 1 THEN a[j] ELSE p[j - 1]
  <2>1. /\ q \in Seq(T) /\ Len(q) = Len(a) + Len(p)
        /\ \A j \in 1 .. Len(a) + Len(p) : q[j] = IF j <= Len(a) THEN a[j] ELSE p[j - Len(a)]
    BY <1>4, <1>5, <1>8, ConcatProperties
  <2>2. QED
    BY <1>5, <1>7, <2>1
<1>10. PICK r : r = q \o b
  OBVIOUS
<1>11. /\ Len(r) = (1 + n) + 1
       /\ \A j \in 1 .. (1 + n) + 1 : r[j] = IF j <= 1 + n THEN q[j] ELSE b[j - (1 + n)]
  <2>1. /\ Len(r) = Len(q) + Len(b)
        /\ \A j \in 1 .. Len(q) + Len(b) : r[j] = IF j <= Len(q) THEN q[j] ELSE b[j - Len(q)]
    <3>1. q \in Seq(T) /\ b \in Seq(T)
      BY <1>6, <1>9
    <3>2. QED
      BY <1>10, <3>1, ConcatProperties
  <2>2. QED
    BY <1>6, <1>9, <2>1
<1>12. r[1] = m
  BY <1>5, <1>7, <1>9, <1>11
<1>13. r[n + 2] = c
  <2>1. n + 2 \in 1 .. (1 + n) + 1 /\ ~(n + 2 <= 1 + n) /\ (n + 2) - (1 + n) = 1
    BY <1>7
  <2>2. QED
    BY <1>6, <1>11, <2>1
<1>14. ASSUME NEW j \in 1 .. n PROVE r[j + 1] = p[j]
  <2>1. /\ j + 1 \in 1 .. (1 + n) + 1 /\ j + 1 <= 1 + n /\ j + 1 \in 1 .. 1 + n
        /\ ~(j + 1 <= 1) /\ (j + 1) - 1 = j
    BY <1>7
  <2>2. QED
    BY <1>9, <1>11, <2>1
<1>15. Len(r) = n + 2
  BY <1>7, <1>11
<1>16. QED
  BY <1>2, <1>3, <1>7, <1>8, <1>10, <1>12, <1>13, <1>14, <1>15 DEF IsMarked

Alnum == Letters \cup Digits

\* Why a keyword may begin where it does: a word begins there, or the next
\* piece of one that is too long.
FullPieceBefore(first) ==
  /\ first - WordLimit >= 1 /\ line[first - WordLimit] \in Letters
  /\ \A c \in first - WordLimit .. first - 1 : line[c] \in Alnum
BeginsAt(pr, k, first) ==
  \/ first = 1
  \/ line[first - 1] \notin Alnum
  \/ k > 1 /\ pr[k - 1] = "[/N]"
  \/ FullPieceBefore(first)

\* How many letters and digits extract_word takes from a position on.
Taken(first) == Min({RunEnd(first, Alnum, Len(line)) - first, WordLimit})

\* The marker at k stands before the character first, and is closed at end.
KeyAt(pr, k, first, end) ==
  /\ first = Len(Without(SubSeq(pr, 1, k), Markers)) + 1
  /\ end \in k .. Len(pr) /\ pr[end] = "[/K]"
  /\ \A j \in k .. end - 1 : pr[j] # "[/K]"
  /\ end - k - 1 = Taken(first)
  /\ BeginsAt(pr, k, first)

Explained(pr, k) == \E first \in Nat, end \in Nat : KeyAt(pr, k, first, end)
KeysOK(pr) == \A k \in 1 .. Len(pr) : pr[k] = "[K]" => Explained(pr, k)

\* What is shown later changes nothing of it.
LEMMA KeyKept ==
  ASSUME NEW T, NEW pr \in Seq(T), NEW piece \in Seq(T), NEW r, r = pr \o piece,
         NEW k \in 1 .. Len(pr), Explained(pr, k)
  PROVE  Explained(r, k)
<1>1. PICK n \in Nat : n = Len(pr)
  BY LenProperties
<1>2. PICK m \in Nat : m = Len(piece)
  BY LenProperties
<1>3. Len(r) = n + m /\ \A j \in 1 .. n + m : r[j] = IF j <= n THEN pr[j] ELSE piece[j - n]
  BY <1>1, <1>2, ConcatProperties
<1>4. \A j \in 1 .. n : r[j] = pr[j]
  BY <1>1, <1>2, <1>3
<1>5. PICK first \in Nat, end \in Nat : KeyAt(pr, k, first, end)
  BY DEF Explained
<1>6. SubSeq(r, 1, k) = SubSeq(pr, 1, k)
  <2>1. 1 \in 1 .. Len(pr)
    BY <1>1
  <2>2. QED
    BY <2>1, SubSeqOfConcat1
<1>7. end \in k .. n /\ end \in k .. n + m /\ end \in 1 .. n
  BY <1>1, <1>2, <1>5 DEF KeyAt
<1>8. r[end] = "[/K]"
  BY <1>4, <1>5, <1>7 DEF KeyAt
<1>9. ASSUME NEW j \in k .. end - 1 PROVE r[j] # "[/K]"
  <2>1. j \in 1 .. n
    BY <1>1, <1>7
  <2>2. QED
    BY <1>4, <1>5, <2>1 DEF KeyAt
<1>10. BeginsAt(r, k, first)
  <2>1. ASSUME k > 1 PROVE r[k - 1] = pr[k - 1]
    <3>1. k - 1 \in 1 .. n
      BY <1>1, <2>1
    <3>2. QED
      BY <1>4, <3>1
  <2>2. QED
    BY <1>5, <2>1 DEF KeyAt, BeginsAt
<1>11. KeyAt(r, k, first, end)
  BY <1>3, <1>5, <1>6, <1>7, <1>8, <1>9, <1>10 DEF KeyAt
<1>12. QED
  BY <1>11 DEF Explained

\* So only the keywords of the text added are to be explained.
LEMMA KeysOn ==
  ASSUME NEW T, NEW pr \in Seq(T), NEW piece \in Seq(T), NEW r, r = pr \o piece, KeysOK(pr),
         \A j \in 1 .. Len(piece) : piece[j] = "[K]" => Explained(r, Len(pr) + j)
  PROVE  KeysOK(r)
<1>1. PICK n \in Nat : n = Len(pr)
  BY LenProperties
<1>2. PICK m \in Nat : m = Len(piece)
  BY LenProperties
<1>3. Len(r) = n + m /\ \A j \in 1 .. n + m : r[j] = IF j <= n THEN pr[j] ELSE piece[j - n]
  BY <1>1, <1>2, ConcatProperties
<1>4. ASSUME NEW k \in 1 .. n + m, r[k] = "[K]" PROVE Explained(r, k)
  <2>1. CASE k <= n
    <3>1. k \in 1 .. Len(pr) /\ pr[k] = "[K]"
      BY <1>1, <1>3, <1>4, <2>1
    <3>2. Explained(pr, k)
      BY <3>1 DEF KeysOK
    <3>3. QED
      BY <3>1, <3>2, KeyKept
  <2>2. CASE ~(k <= n)
    <3>1. PICK j : j = k - n
      OBVIOUS
    <3>2. j \in 1 .. Len(piece) /\ n + j = k /\ piece[j] = "[K]"
      BY <1>1, <1>2, <1>3, <1>4, <2>2, <3>1
    <3>3. QED
      BY <1>1, <3>2
  <2>3. QED
    BY <2>1, <2>2
<1>5. QED
  BY <1>3, <1>4 DEF KeysOK

Lacks(piece, x) == \A j \in 1 .. Len(piece) : piece[j] # x

LEMMA LacksJoined ==
  ASSUME NEW T, NEW s \in Seq(T), NEW t \in Seq(T), NEW x, Lacks(s, x), Lacks(t, x)
  PROVE  Lacks(s \o t, x)
<1>1. PICK n \in Nat : n = Len(s)
  BY LenProperties
<1>2. PICK m \in Nat : m = Len(t)
  BY LenProperties
<1>3. PICK r : r = s \o t
  OBVIOUS
<1>4. Len(r) = n + m /\ \A j \in 1 .. n + m : r[j] = IF j <= n THEN s[j] ELSE t[j - n]
  BY <1>1, <1>2, <1>3, ConcatProperties
<1>5. ASSUME NEW j \in 1 .. n + m PROVE r[j] # x
  <2>1. CASE j <= n
    BY <1>1, <1>4, <2>1 DEF Lacks
  <2>2. CASE ~(j <= n)
    <3>1. j - n \in 1 .. m
      BY <1>1, <1>2, <2>2
    <3>2. QED
      BY <1>2, <1>4, <2>2, <3>1 DEF Lacks
  <2>3. QED
    BY <2>1, <2>2
<1>6. QED
  BY <1>3, <1>4, <1>5 DEF Lacks

LEMMA ClosingIs ==
  \A m \in Opening : /\ Closing(m) \notin Opening
                      /\ (Closing(m) = "[/K]" <=> m = "[K]")
                      /\ (Closing(m) = "[/S]" <=> m = "[S]")
<1> SUFFICES ASSUME NEW m \in Opening
             PROVE  /\ Closing(m) \notin Opening
                    /\ (Closing(m) = "[/K]" <=> m = "[K]")
                    /\ (Closing(m) = "[/S]" <=> m = "[S]")
  OBVIOUS
<1>1. Closing(m) \in {"[/C]", "[/S]", "[/P]", "[/K]", "[/N]"}
  BY DEF Opening, Closing
<1>2. Closing(m) \notin Opening
  BY <1>1 DEF Opening
<1>3. (Closing(m) = "[/K]" <=> m = "[K]") /\ (Closing(m) = "[/S]" <=> m = "[S]")
  BY DEF Opening, Closing
<1>4. QED
  BY <1>2, <1>3

\* What is shown in markers holds no other opening marker.
LEMMA LacksShown ==
  ASSUME LineOK, i \in 1 .. Len(line), NEW x \in Opening
  PROVE  /\ \A m \in Opening, last \in i .. Len(line) : m # x => Lacks(Marked(m, i, last), x)
         /\ \A m \in {"[C]", "[S]"} : m # x => Lacks(<<m>> \o Rest, x)
         /\ \A last \in i .. Len(line) : Lacks(SubSeq(line, i, last), x)
<1>1. PICK A : A = Alphabet[language]
  OBVIOUS
<1>2. PICK T : T = A \cup Markers
  OBVIOUS
<1>3. x \notin A
  <2>1. A \cap Markers = {}
    BY <1>1, Signs DEF LineOK
  <2>2. QED
    BY <2>1, MarkersAre
<1>4. ASSUME NEW last \in i .. Len(line)
      PROVE  SubSeq(line, i, last) \in Seq(T) /\ Lacks(SubSeq(line, i, last), x)
  <2>1. PICK p : p = SubSeq(line, i, last)
    OBVIOUS
  <2>2. p \in Seq(A) /\ p \in Seq(T)
    BY <1>1, <1>2, <2>1, PartOfLine
  <2>3. \A j \in 1 .. Len(p) : p[j] \in A
    BY <2>2, ElementOfSeq
  <2>4. QED
    BY <1>3, <2>1, <2>2, <2>3 DEF Lacks
<1>5. ASSUME NEW m \in Markers, m # x PROVE <<m>> \in Seq(T) /\ Lacks(<<m>>, x)
  <2>1. PICK a : a = <<m>>
    OBVIOUS
  <2>2. a \in Seq(T) /\ Len(a) = 1 /\ a[1] = m
    BY <1>2, <2>1
  <2>3. Lacks(a, x)
    BY <1>5, <2>2 DEF Lacks
  <2>4. QED
    BY <2>1, <2>2, <2>3
<1>6. ASSUME NEW m \in Markers, m # x, NEW last \in i .. Len(line)
      PROVE  /\ <<m>> \o SubSeq(line, i, last) \in Seq(T)
             /\ Lacks(<<m>> \o SubSeq(line, i, last), x)
  <2>1. PICK p : p = SubSeq(line, i, last)
    OBVIOUS
  <2>2. PICK a : a = <<m>>
    OBVIOUS
  <2>3. p \in Seq(T) /\ a \in Seq(T) /\ Lacks(p, x) /\ Lacks(a, x)
    BY <1>4, <1>5, <1>6, <2>1, <2>2
  <2>4. a \o p \in Seq(T) /\ Lacks(a \o p, x)
    BY <2>3, LacksJoined, ConcatProperties
  <2>5. QED
    BY <2>1, <2>2, <2>4
<1>7. ASSUME NEW m \in Opening, NEW last \in i .. Len(line), m # x
      PROVE  Lacks(Marked(m, i, last), x)
  <2>1. PICK c : c = Closing(m)
    OBVIOUS
  <2>2. m \in Markers /\ c \in Markers /\ c # x
    <3>1. c \notin Opening
      BY <2>1, ClosingIs
    <3>2. QED
      BY <2>1, <3>1, MarkersAre
  <2>3. PICK q : q = <<m>> \o SubSeq(line, i, last)
    OBVIOUS
  <2>4. PICK b : b = <<c>>
    OBVIOUS
  <2>5. q \in Seq(T) /\ Lacks(q, x) /\ b \in Seq(T) /\ Lacks(b, x)
    BY <1>5, <1>6, <1>7, <2>2, <2>3, <2>4
  <2>6. Lacks(q \o b, x)
    BY <2>5, LacksJoined
  <2>7. QED
    BY <2>1, <2>3, <2>4, <2>6 DEF Marked
<1>8. ASSUME NEW m \in {"[C]", "[S]"}, m # x PROVE Lacks(<<m>> \o Rest, x)
  <2>1. PICK n : n = Len(line)
    OBVIOUS
  <2>2. n \in i .. Len(line)
    BY <2>1, LenProperties DEF LineOK
  <2>3. m \in Markers /\ m # x
    BY <1>8, MarkersAre
  <2>4. Lacks(<<m>> \o SubSeq(line, i, n), x)
    BY <1>6, <2>2, <2>3
  <2>5. QED
    BY <2>1, <2>4 DEF Rest
<1>9. QED
  BY <1>4, <1>7, <1>8

\* The keywords explained stay explained when the line stays.
LEMMA SameLineKeys ==
  ASSUME line' = line, NEW r, r = printed', KeysOK(r)
  PROVE  KeysOK(printed)'
<1>1. ASSUME NEW k, NEW first, NEW end, KeyAt(r, k, first, end)
      PROVE  KeyAt(printed, k, first, end)'
  <2>1. Taken(first)' = Taken(first)
    BY DEF Taken, RunEnd
  <2>2. BeginsAt(r, k, first) => BeginsAt(printed, k, first)'
    BY DEF BeginsAt, FullPieceBefore
  <2>3. QED
    BY <1>1, <2>1, <2>2 DEF KeyAt
<1>2. ASSUME NEW k, Explained(r, k) PROVE Explained(printed, k)'
  BY <1>1, <1>2 DEF Explained
<1>3. QED
  BY <1>2 DEF KeysOK

LEMMA QuietKeys ==
  ASSUME LineOK, KeysOK(printed), NEW piece, NEW last, IsGrowth(piece, last),
         Lacks(piece, "[K]")
  PROVE  KeysOK(printed)'
<1>1. PICK T : T = Alphabet[language] \cup Markers
  OBVIOUS
<1>2. printed \in Seq(T) /\ piece \in Seq(T) /\ line' = line
  BY <1>1 DEF LineOK, IsGrowth
<1>3. PICK r : r = printed'
  OBVIOUS
<1>4. r = printed \o piece
  BY <1>3 DEF IsGrowth
<1>5. \A j \in 1 .. Len(piece) : piece[j] = "[K]" => Explained(r, Len(printed) + j)
  BY DEF Lacks
<1>6. KeysOK(r)
  BY <1>2, <1>4, <1>5, KeysOn
<1>7. QED
  BY <1>2, <1>3, <1>6, SameLineKeys

\* Why a letter that comes next does not stand behind a letter or a digit, or
\* why it does.
Before ==
  \/ i > Len(line)
  \/ line[i] \notin Letters
  \/ i = 1
  \/ line[i - 1] \notin Alnum
  \/ Len(printed) >= 1 /\ printed[Len(printed)] = "[/N]"
  \/ FullPieceBefore(i)

\* The end of the word at i: it is that of its letters and digits, or the
\* word is too long.
LEMMA WordEnds ==
  ASSUME LineOK, i \in 1 .. Len(line), NEW e, e = WordEnd
  PROVE  /\ e \in i .. Len(line) + 1 /\ \A c \in i .. e - 1 : line[c] \in Alnum
         /\ e - i = Taken(i)
         /\ \/ e <= Len(line) => line[e] \notin Alnum
            \/ e = i + WordLimit
<1>1. PICK n \in Nat : n = Len(line)
  BY LenProperties DEF LineOK
<1>2. i \in 1 .. Len(line) + 1 /\ WordLimit \in Nat
  BY <1>1, Sizes
<1>3. e = RunEnd(i, Alnum, WordLimit)
  BY DEF WordEnd, Alnum
<1>4. /\ e \in i .. n + 1 /\ \A j \in i .. e - 1 : line[j] \in Alnum /\ j - i < WordLimit
      /\ e <= n => line[e] \notin Alnum \/ e - i >= WordLimit
  BY <1>1, <1>2, <1>3, RunEndIs
<1>5. PICK f : f = RunEnd(i, Alnum, n)
  OBVIOUS
<1>6. /\ f \in i .. n + 1 /\ \A j \in i .. f - 1 : line[j] \in Alnum
      /\ f <= n => line[f] \notin Alnum \/ f - i >= n
  BY <1>1, <1>2, <1>5, RunEndIs
<1>7. /\ e \in Nat /\ f \in Nat /\ i \in Nat
      /\ f - i \in Nat /\ e - i \in Nat /\ WordLimit \in Nat /\ WordLimit >= 1
  BY <1>1, <1>4, <1>6, Sizes
<1>8. ASSUME f < e PROVE FALSE
  <2>1. f \in i .. e - 1 /\ f <= n /\ ~(f - i >= n)
    BY <1>1, <1>4, <1>6, <1>8
  <2>2. QED
    BY <1>4, <1>6, <2>1
<1>9. e - i <= WordLimit
  <2>1. CASE e = i
    BY <1>7, <2>1
  <2>2. CASE e # i
    <3>1. e - 1 \in i .. e - 1
      BY <1>1, <1>4, <1>7, <2>2
    <3>2. (e - 1) - i < WordLimit
      BY <1>4, <3>1
    <3>3. QED
      BY <1>7, <3>2
  <2>3. QED
    BY <2>1, <2>2
<1>10. Taken(i) = IF f - i <= WordLimit THEN f - i ELSE WordLimit
  BY <1>1, <1>5, <1>7, MinOfTwo DEF Taken
<1>11. CASE e <= n /\ line[e] \in Alnum
  <2>1. e = i + WordLimit
    BY <1>4, <1>7, <1>9, <1>11
  <2>2. f - i >= WordLimit
    BY <1>7, <1>8, <2>1
  <2>3. e - i = Taken(i)
    BY <1>7, <1>10, <2>1, <2>2
  <2>4. QED
    BY <1>1, <1>4, <2>1, <2>3
<1>12. CASE ~(e <= n /\ line[e] \in Alnum)
  <2>1. ASSUME e < f PROVE FALSE
    <3>1. e \in i .. f - 1 /\ e <= n
      BY <1>1, <1>4, <1>6, <2>1
    <3>2. QED
      BY <1>6, <1>12, <3>1
  <2>2. f = e
    BY <1>7, <1>8, <2>1
  <2>3. e - i = Taken(i)
    BY <1>7, <1>9, <1>10, <2>2
  <2>4. e <= Len(line) => line[e] \notin Alnum
    BY <1>1, <1>12
  <2>5. QED
    BY <1>1, <1>4, <2>3, <2>4
<1>13. QED
  BY <1>11, <1>12

LEMMA WordKeys ==
  ASSUME LineOK, AllShown, KeysOK(printed), Before, i \in 1 .. Len(line), line[i] \in Letters,
         WordEnd - 1 \in i .. Len(line), Closes("[K]", WordEnd - 1)
  PROVE  KeysOK(printed)'
<1>1. PICK n \in Nat : n = Len(line)
  BY LenProperties DEF LineOK
<1>2. PICK e : e = WordEnd
  OBVIOUS
<1>3. e \in i .. n + 1 /\ e - 1 \in i .. n /\ e \in Nat
  <2>1. e \in i .. n + 1
    BY <1>1, <1>2, WordEnds
  <2>2. QED
    BY <1>1, <1>2, <2>1
<1>4. PICK A : A = Alphabet[language]
  OBVIOUS
<1>5. PICK T : T = A \cup Markers
  OBVIOUS
<1>6. PICK p : p = SubSeq(line, i, e - 1)
  OBVIOUS
<1>7. p \in Seq(A) /\ Len(p) = e - i /\ "[K]" \notin A /\ "[/K]" \notin A
  <2>1. p \in Seq(A) /\ A \cap Markers = {}
    BY <1>1, <1>3, <1>4, <1>6, PartOfLine
  <2>2. "[K]" \in Markers /\ "[/K]" \in Markers
    BY MarkersAre, ClosingIs
  <2>3. Len(p) = e - i
    <3>1. \A j \in i .. e - 1 : j \in 1 .. Len(line)
      BY <1>1, <1>3
    <3>2. \A j \in i .. e - 1 : line[j] \in A
      BY <1>4, <3>1, ElementOfSeq DEF LineOK
    <3>3. i \in Int /\ e - 1 \in Int /\ i <= e - 1 /\ (e - 1) - i + 1 = e - i
      BY <1>1, <1>3
    <3>4. Len(p) = IF i <= e - 1 THEN (e - 1) - i + 1 ELSE 0
      BY <1>6, <3>2, <3>3, SubSeqProperties
    <3>5. QED
      BY <3>3, <3>4
  <2>4. QED
    BY <2>1, <2>2, <2>3
<1>8. PICK piece : piece = <<"[K]">> \o p \o <<"[/K]">>
  OBVIOUS
<1>9. IsMarked(piece, "[K]", p, "[/K]")
  BY <1>7, <1>8, MarkedPlaces
<1>10. piece = Marked("[K]", i, e - 1) /\ Closing("[K]") = "[/K]"
  <2>1. Closing("[K]") = "[/K]"
    BY MarkersAre, ClosingIs
  <2>2. QED
    BY <1>6, <1>8, <2>1 DEF Marked
<1>11. PICK l : l = e - 1
  OBVIOUS
<1>12. IsGrowth(piece, l)
  <2>1. l \in i .. Len(line) /\ "[K]" \in Opening /\ Closes("[K]", l)
    BY <1>1, <1>2, <1>3, <1>11, MarkersAre
  <2>2. IsGrowth(Marked("[K]", i, l), l)
    BY <2>1, ClosesGrows
  <2>3. QED
    BY <1>10, <1>11, <2>2
<1>13. PICK N \in Nat : N = Len(printed)
  BY LenProperties DEF LineOK
<1>14. PICK w \in Nat : w = e - i /\ w >= 1
  BY <1>1, <1>3
<1>15. PICK r : r = printed \o piece
  OBVIOUS
<1>16. printed \in Seq(T) /\ piece \in Seq(T) /\ r = printed' /\ line' = line
  BY <1>4, <1>5, <1>12, <1>15 DEF LineOK, IsGrowth
<1>17. /\ Len(piece) = w + 2 /\ piece[1] = "[K]" /\ piece[w + 2] = "[/K]"
       /\ \A j \in 2 .. w + 1 : piece[j] # "[/K]" /\ piece[j] # "[K]"
  <2>1. Len(p) = w
    BY <1>7, <1>14
  <2>2. Len(piece) = w + 2 /\ piece[1] = "[K]" /\ piece[w + 2] = "[/K]"
    BY <1>9, <2>1 DEF IsMarked
  <2>3. ASSUME NEW j \in 2 .. w + 1 PROVE piece[j] \in A
    <3>1. j - 1 \in 1 .. Len(p) /\ (j - 1) + 1 = j
      BY <1>14, <2>1
    <3>2. piece[j] = p[j - 1]
      BY <1>9, <3>1 DEF IsMarked
    <3>3. QED
      BY <1>7, <3>1, <3>2, ElementOfSeq
  <2>4. QED
    BY <1>7, <2>2, <2>3
<1>18. /\ Len(r) = N + (w + 2)
       /\ \A j \in 1 .. N : r[j] = printed[j]
       /\ \A j \in 1 .. w + 2 : r[N + j] = piece[j]
  <2>1. /\ Len(r) = N + (w + 2)
        /\ \A j \in 1 .. N + (w + 2) : r[j] = IF j <= N THEN printed[j] ELSE piece[j - N]
    <3>1. printed \in Seq(T) /\ piece \in Seq(T)
      BY <1>16
    <3>2. /\ Len(r) = Len(printed) + Len(piece)
          /\ \A j \in 1 .. Len(printed) + Len(piece) :
               r[j] = IF j <= Len(printed) THEN printed[j] ELSE piece[j - Len(printed)]
      BY <1>15, <3>1, ConcatProperties
    <3>3. Len(printed) = N /\ Len(piece) = w + 2
      BY <1>13, <1>17
    <3>4. QED
      BY <3>2, <3>3
  <2>2. \A j \in 1 .. N : j \in 1 .. N + (w + 2) /\ j <= N
    BY <1>13, <1>14
  <2>3. \A j \in 1 .. w + 2 : N + j \in 1 .. N + (w + 2) /\ ~(N + j <= N) /\ (N + j) - N = j
    BY <1>13, <1>14
  <2>4. QED
    BY <2>1, <2>2, <2>3
<1>19. PICK k : k = N + 1
  OBVIOUS
<1>20. PICK end : end = N + (w + 2)
  OBVIOUS
<1>21. /\ k \in Nat /\ end \in Nat /\ end \in k .. Len(r) /\ end - k - 1 = w
       /\ r[end] = "[/K]"
  <2>1. k \in Nat /\ end \in Nat /\ end \in k .. Len(r) /\ end - k - 1 = w
    <3>1. Len(r) = end
      BY <1>18, <1>20
    <3>2. N \in Nat /\ w \in Nat
      OBVIOUS
    <3>3. k \in Nat /\ end \in Nat /\ end \in k .. end /\ end - k - 1 = w
      BY <1>19, <1>20, <3>2
    <3>4. QED
      BY <3>1, <3>3
  <2>2. w + 2 \in 1 .. w + 2
    BY <1>14
  <2>3. QED
    BY <1>17, <1>18, <1>20, <2>1, <2>2
<1>22. ASSUME NEW j \in k .. end - 1 PROVE r[j] # "[/K]"
  <2>1. PICK h : h = j - N
    OBVIOUS
  <2>2. h \in 1 .. w + 1 /\ h \in 1 .. w + 2 /\ N + h = j
    <3>1. j \in N + 1 .. N + (w + 2) - 1
      BY <1>19, <1>20
    <3>2. N \in Nat /\ w \in Nat
      OBVIOUS
    <3>3. QED
      BY <2>1, <3>1, <3>2
  <2>3. piece[h] # "[/K]"
    <3>1. CASE h = 1
      BY <1>17, <3>1
    <3>2. CASE h # 1
      <4>1. h \in 2 .. w + 1
        BY <1>14, <2>2, <3>2
      <4>2. QED
        BY <1>17, <4>1
    <3>3. QED
      BY <3>1, <3>2
  <2>4. QED
    BY <1>18, <2>2, <2>3
<1>23. i = Len(Without(SubSeq(r, 1, k), Markers)) + 1
  <2>1. SubSeq(r, 1, k) = Append(printed, "[K]")
    <3>1. PICK s : s = Append(printed, "[K]")
      OBVIOUS
    <3>2. "[K]" \in T
      BY <1>5, MarkersAre
    <3>3. s \in Seq(T) /\ Len(s) = N + 1 /\ s[N + 1] = "[K]" /\ \A j \in 1 .. N : s[j] = printed[j]
      BY <1>13, <1>16, <3>1, <3>2, AppendProperties
    <3>4. r \in Seq(T) /\ N \in 0 .. Len(r) - 1
      <4>1. printed \in Seq(T) /\ piece \in Seq(T)
        BY <1>16
      <4>2. r \in Seq(T)
        BY <1>15, <4>1, ConcatProperties
      <4>3. N \in 0 .. N + (w + 2) - 1
        OBVIOUS
      <4>4. QED
        BY <1>18, <4>2, <4>3
    <3>5. SubSeq(r, 1, N + 1) = Append(SubSeq(r, 1, N), r[N + 1])
      BY <3>4, OneMore
    <3>6. SubSeq(r, 1, N) = printed
      <4>1. CASE N = 0
        <5>1. SubSeq(r, 1, 0) = <<>>
          BY SubSeqEmpty
        <5>2. printed = <<>>
          BY <1>13, <1>16, <4>1, EmptySeq
        <5>3. QED
          BY <4>1, <5>1, <5>2
      <4>2. CASE N # 0
        <5>1. 1 \in 1 .. Len(printed) /\ N \in 1 .. Len(printed)
          BY <1>13, <4>2
        <5>2. SubSeq(r, 1, N) = SubSeq(printed, 1, N)
          <6>1. printed \in Seq(T) /\ piece \in Seq(T)
            BY <1>16
          <6>2. SubSeq(printed \o piece, 1, N) = SubSeq(printed, 1, N)
            BY <5>1, <6>1, SubSeqOfConcat1
          <6>3. QED
            BY <1>15, <6>2
        <5>3. QED
          BY <1>13, <1>16, <5>2, SubSeqFull
      <4>3. QED
        BY <4>1, <4>2
    <3>7. r[N + 1] = "[K]"
      <4>1. 1 \in 1 .. w + 2
        BY <1>14
      <4>2. QED
        BY <1>17, <1>18, <4>1
    <3>8. QED
      BY <1>19, <3>5, <3>6, <3>7
  <2>2. Without(Append(printed, "[K]"), Markers) = Without(printed, Markers)
    <3>1. "[K]" \in T /\ "[K]" \in Markers
      BY <1>5, MarkersAre
    <3>2. QED
      BY <1>16, <3>1, WithoutAppend
  <2>3. Len(Without(printed, Markers)) = i - 1
    <3>1. i - 1 \in Nat /\ i - 1 <= n /\ i - 1 \in Int
      BY <1>1
    <3>2. Without(printed, Markers) = SubSeq(line, 1, i - 1)
      BY <1>1, <3>1, MinOfTwo DEF AllShown, Characters
    <3>3. \A j \in 1 .. i - 1 : j \in 1 .. Len(line)
      BY <1>1
    <3>4. \A j \in 1 .. i - 1 : line[j] \in A
      BY <1>4, <3>3, ElementOfSeq DEF LineOK
    <3>5. Len(SubSeq(line, 1, i - 1)) = IF 1 <= i - 1 THEN i - 1 - 1 + 1 ELSE 0
      BY <3>1, <3>4, SubSeqProperties
    <3>6. (IF 1 <= i - 1 THEN i - 1 - 1 + 1 ELSE 0) = i - 1
      BY <3>1
    <3>7. QED
      BY <3>2, <3>5, <3>6
  <2>4. PICK x : x = Len(Without(printed, Markers))
    OBVIOUS
  <2>5. i = x + 1
    BY <1>1, <2>3, <2>4
  <2>6. Without(SubSeq(r, 1, k), Markers) = Without(printed, Markers)
    BY <2>1, <2>2
  <2>7. QED
    BY <2>4, <2>5, <2>6
<1>24. end - k - 1 = Taken(i) /\ BeginsAt(r, k, i)
  <2>1. end - k - 1 = Taken(i)
    BY <1>2, <1>14, <1>21, WordEnds
  <2>2. CASE i = 1 \/ line[i - 1] \notin Alnum \/ FullPieceBefore(i)
    BY <2>1, <2>2 DEF BeginsAt
  <2>3. CASE N >= 1 /\ printed[N] = "[/N]"
    <3>1. k > 1 /\ k - 1 = N /\ N \in 1 .. N
      BY <1>13, <1>19, <2>3
    <3>2. r[k - 1] = "[/N]"
      BY <1>18, <2>3, <3>1
    <3>3. QED
      BY <2>1, <3>1, <3>2 DEF BeginsAt
  <2>4. ~(i > Len(line))
    BY <1>1
  <2>5. QED
    BY <1>13, <2>2, <2>3, <2>4 DEF Before
<1>25. Explained(r, k)
  <2>1. KeyAt(r, k, i, end)
    BY <1>21, <1>22, <1>23, <1>24 DEF KeyAt
  <2>2. i \in Nat
    BY <1>1
  <2>3. QED
    BY <1>21, <2>1, <2>2 DEF Explained
<1>26. ASSUME NEW j \in 1 .. Len(piece), piece[j] = "[K]" PROVE Explained(r, Len(printed) + j)
  <2>1. j = 1
    <3>1. SUFFICES ASSUME j # 1 PROVE FALSE
      OBVIOUS
    <3>2. j \in 2 .. w + 1 \/ j = w + 2
      BY <1>14, <1>17, <3>1
    <3>3. QED
      BY <1>17, <1>26, <3>2
  <2>2. QED
    BY <1>13, <1>19, <1>25, <2>1
<1>27. KeysOK(r)
  BY <1>15, <1>16, <1>26, KeysOn
<1>28. QED
  BY <1>16, <1>27, SameLineKeys

\* What a number leaves behind is its closing marker.
LEMMA NumberMark ==
  ASSUME LineOK, i \in 1 .. Len(line), NEW last \in i .. Len(line), Closes("[N]", last)
  PROVE  Len(printed') >= 1 /\ printed'[Len(printed')] = "[/N]"
<1>1. PICK A : A = Alphabet[language]
  OBVIOUS
<1>2. PICK T : T = A \cup Markers
  OBVIOUS
<1>3. PICK p : p = SubSeq(line, i, last)
  OBVIOUS
<1>4. p \in Seq(A)
  BY <1>1, <1>3, PartOfLine
<1>5. Closing("[N]") = "[/N]"
  BY DEF Closing
<1>6. PICK piece : piece = <<"[N]">> \o p \o <<"[/N]">>
  OBVIOUS
<1>7. IsMarked(piece, "[N]", p, "[/N]")
  BY <1>4, <1>6, MarkedPlaces
<1>8. piece = Marked("[N]", i, last)
  BY <1>3, <1>5, <1>6 DEF Marked
<1>9. IsGrowth(piece, last)
  <2>1. "[N]" \in Opening
    BY MarkersAre
  <2>2. QED
    BY <1>8, <2>1, ClosesGrows
<1>10. PICK N \in Nat : N = Len(printed)
  BY LenProperties DEF LineOK
<1>11. PICK w \in Nat : w = Len(p)
  BY <1>4, LenProperties
<1>12. Len(piece) = w + 2 /\ piece[w + 2] = "[/N]"
  BY <1>7, <1>11 DEF IsMarked
<1>13. PICK r : r = printed \o piece
  OBVIOUS
<1>14. printed \in Seq(T) /\ piece \in Seq(T)
  BY <1>1, <1>2, <1>9 DEF LineOK, IsGrowth
<1>15. /\ Len(r) = N + (w + 2)
       /\ \A j \in 1 .. N + (w + 2) : r[j] = IF j <= N THEN printed[j] ELSE piece[j - N]
  <2>1. /\ Len(r) = Len(printed) + Len(piece)
        /\ \A j \in 1 .. Len(printed) + Len(piece) :
             r[j] = IF j <= Len(printed) THEN printed[j] ELSE piece[j - Len(printed)]
    BY <1>13, <1>14, ConcatProperties
  <2>2. QED
    BY <1>10, <1>12, <2>1
<1>16. /\ N + (w + 2) \in 1 .. N + (w + 2) /\ ~(N + (w + 2) <= N)
       /\ (N + (w + 2)) - N = w + 2 /\ N + (w + 2) >= 1
  OBVIOUS
<1>17. Len(r) >= 1 /\ r[Len(r)] = "[/N]"
  BY <1>12, <1>15, <1>16
<1>18. r = printed'
  BY <1>9, <1>13 DEF IsGrowth
<1>19. QED
  BY <1>17, <1>18

LEMMA BeforeStep ==
  ASSUME LineOK, HighlighterNext
  PROVE  Before'
<1>1. PICK n \in Nat : n = Len(line)
  BY LenProperties DEF LineOK
<1>2. i \in 1 .. Len(line) /\ i \in 1 .. n /\ i \in Nat
  BY <1>1, Turns
<1>3. line' = line
  BY Growth DEF IsGrowth
<1>4. ASSUME NEW m, NEW last \in i .. Len(line), Closes(m, last) \/ Passes(last)
      PROVE  i' = last + 1 /\ i' - 1 = last /\ last \in Nat
  BY <1>1, <1>2, <1>4 DEF Closes, Passes, Show
<1>5. ASSUME NEW m, Opens(m) PROVE Before'
  <2>1. i' \in {n + 1, n + 2}
    BY <1>1, <1>5 DEF Opens, Show
  <2>2. i' > Len(line')
    BY <1>1, <1>3, <2>1
  <2>3. QED
    BY <2>2 DEF Before
<1>6. ASSUME NEW m, NEW last \in i .. Len(line), Closes(m, last) \/ Passes(last),
             line[last] \notin Alnum
      PROVE  Before'
  <2>1. i' - 1 = last
    BY <1>4, <1>6
  <2>2. line'[i' - 1] \notin Alnum
    BY <1>3, <1>6, <2>1
  <2>3. QED
    BY <2>2 DEF Before, Alnum
<1>7. CASE CommentTurn
  <2>1. CASE Opens("[C]")
    BY <1>5, <2>1
  <2>2. ASSUME NEW m, NEW last \in i .. Len(line), Closes(m, last),
               last = Len(line) \/ line[last] = "/"
        PROVE  Before'
    <3>1. CASE last = Len(line)
      <4>1. i' = n + 1
        BY <1>1, <1>4, <2>2, <3>1
      <4>2. i' > Len(line')
        BY <1>1, <1>3, <4>1
      <4>3. QED
        BY <4>2 DEF Before
    <3>2. CASE line[last] = "/"
      <4>1. line[last] \notin Alnum
        BY <3>2, Signs DEF Alnum
      <4>2. QED
        BY <1>6, <2>2, <4>1
    <3>3. QED
      BY <2>2, <3>1, <3>2
  <2>3. QED
    BY <1>7, <2>1, <2>2 DEF CommentTurn
<1>8. CASE StringTurn
  <2>1. CASE Opens("[S]")
    BY <1>5, <2>1
  <2>2. ASSUME NEW e, e \in StringEnds, e \in i .. Len(line), Closes("[S]", e)
        PROVE  Before'
    <3>1. line[e] = Quote
      BY <2>2 DEF StringEnds
    <3>2. line[e] \notin Alnum
      BY <3>1, Signs DEF Alnum
    <3>3. QED
      BY <1>6, <2>2, <3>2
  <2>3. QED
    BY <1>8, <2>1, <2>2 DEF StringTurn
<1>9. CASE WordTurn
  <2>1. PICK e : e = WordEnd
    OBVIOUS
  <2>2. /\ e \in i .. Len(line) + 1 /\ \A c \in i .. e - 1 : line[c] \in Alnum
        /\ (e <= Len(line) => line[e] \notin Alnum) \/ e = i + WordLimit
    BY <1>2, <2>1, WordEnds
  <2>3. e \in Nat /\ e \in i .. n + 1
    BY <1>1, <1>2, <2>2
  <2>4. i' = e
    <3>1. i' = (e - 1) + 1
      BY <1>9, <2>1 DEF WordTurn, Closes, Passes, Show
    <3>2. QED
      BY <2>3, <3>1
  <2>5. CASE e <= Len(line) => line[e] \notin Alnum
    <3>1. CASE e <= n
      <4>1. line'[i'] \notin Letters
        BY <1>1, <1>3, <2>4, <2>5, <3>1 DEF Alnum
      <4>2. QED
        BY <4>1 DEF Before
    <3>2. CASE ~(e <= n)
      <4>1. i' > Len(line')
        BY <1>1, <1>3, <2>3, <2>4, <3>2
      <4>2. QED
        BY <4>1 DEF Before
    <3>3. QED
      BY <3>1, <3>2
  <2>6. CASE e = i + WordLimit
    <3>1. WordLimit \in Nat
      BY Sizes
    <3>2. e - WordLimit = i /\ i >= 1
      BY <1>2, <2>6, <3>1
    <3>3. \A c \in e - WordLimit .. e - 1 : line[c] \in Alnum
      BY <2>2, <3>2
    <3>4. /\ i' - WordLimit >= 1 /\ line'[i' - WordLimit] \in Letters
          /\ \A c \in i' - WordLimit .. i' - 1 : line'[c] \in Alnum
      BY <1>3, <1>9, <2>4, <3>2, <3>3 DEF WordTurn
    <3>5. FullPieceBefore(i)'
      BY <3>4 DEF FullPieceBefore, Alnum
    <3>6. QED
      BY <3>5 DEF Before
  <2>7. QED
    BY <2>2, <2>5, <2>6
<1>10. CASE NumberTurn
  <2>1. PICK last \in i .. Len(line) : Closes("[N]", last)
    BY <1>10 DEF NumberTurn
  <2>2. Len(printed') >= 1 /\ printed'[Len(printed')] = "[/N]"
    BY <1>2, <2>1, NumberMark
  <2>3. QED
    BY <2>2 DEF Before
<1>11. CASE PlainTurn
  <2>1. i \in i .. Len(line)
    BY <1>1, <1>2
  <2>2. QED
    BY <1>6, <1>11, <2>1 DEF PlainTurn, Alnum
<1>12. QED
  BY <1>7, <1>8, <1>9, <1>10, <1>11, Turns

\* No turn but that of a word shows a keyword, and none but that of a string a
\* string.
LEMMA QuietTurn ==
  ASSUME LineOK, HighlighterNext, NEW x \in {"[K]", "[S]"}
  PROVE  \/ \E piece, last : IsGrowth(piece, last) /\ Lacks(piece, x)
         \/ x = "[K]" /\ WordTurn /\ Closes("[K]", WordEnd - 1)
         \/ x = "[S]" /\ StringTurn
<1> DEFINE Quiet == \E piece, last : IsGrowth(piece, last) /\ Lacks(piece, x)
<1>1. i \in 1 .. Len(line) /\ Len(line) \in Nat /\ x \in Opening
  BY Turns, LenProperties, MarkersAre DEF LineOK
<1>2. ASSUME NEW m \in Opening, m # x, NEW last \in i .. Len(line), Closes(m, last)
      PROVE  Quiet
  BY <1>1, <1>2, ClosesGrows, LacksShown
<1>3. ASSUME NEW m \in {"[C]", "[S]"}, m # x, Opens(m) PROVE Quiet
  BY <1>1, <1>3, OpensGrows, LacksShown
<1>4. ASSUME NEW last \in i .. Len(line), Passes(last) PROVE Quiet
  BY <1>1, <1>4, PassesGrows, LacksShown
<1> HIDE DEF Quiet
<1>5. CASE CommentTurn
  <2>1. Quiet
    BY <1>2, <1>3, <1>5, MarkersAre DEF CommentTurn
  <2>2. QED
    BY <2>1 DEF Quiet
<1>6. CASE StringTurn
  <2>1. CASE x = "[S]"
    BY <1>6, <2>1
  <2>2. CASE x # "[S]"
    <3>1. Quiet
      BY <1>2, <1>3, <1>6, <2>2, MarkersAre DEF StringTurn
    <3>2. QED
      BY <3>1 DEF Quiet
  <2>3. QED
    BY <2>1, <2>2
<1>7. CASE WordTurn
  <2>1. CASE x = "[K]" /\ Closes("[K]", WordEnd - 1)
    BY <1>7, <2>1
  <2>2. CASE x # "[K]" \/ Passes(WordEnd - 1)
    <3>1. Quiet
      BY <1>2, <1>4, <1>7, <2>2, MarkersAre DEF WordTurn
    <3>2. QED
      BY <3>1 DEF Quiet
  <2>3. QED
    BY <1>7, <2>1, <2>2 DEF WordTurn
<1>8. CASE NumberTurn
  <2>1. Quiet
    BY <1>2, <1>8, MarkersAre DEF NumberTurn
  <2>2. QED
    BY <2>1 DEF Quiet
<1>9. CASE PlainTurn
  <2>1. i \in i .. Len(line)
    BY <1>1
  <2>2. Quiet
    BY <1>4, <1>9, <2>1 DEF PlainTurn
  <2>3. QED
    BY <2>2 DEF Quiet
<1>10. QED
  BY <1>5, <1>6, <1>7, <1>8, <1>9, Turns

LEMMA KeysStep ==
  ASSUME LineOK, AllShown, KeysOK(printed), Before, HighlighterNext
  PROVE  KeysOK(printed)'
<1>1. i \in 1 .. Len(line)
  BY Turns
<1>2. CASE WordTurn /\ Closes("[K]", WordEnd - 1)
  BY <1>1, <1>2, WordKeys DEF WordTurn
<1>3. CASE \E piece, last : IsGrowth(piece, last) /\ Lacks(piece, "[K]")
  BY <1>3, QuietKeys
<1>4. QED
  BY <1>2, <1>3, QuietTurn

\* What the markers explain is what the property says.
LEMMA KeysStandAlone == KeysOK(printed) => KeywordsStandAlone
<1>1. ASSUME KeysOK(printed), NEW k \in 1 .. Len(printed), printed[k] = "[K]",
             NEW first, first = Len(Characters(SubSeq(printed, 1, k))) + 1,
             NEW run, run = RunEnd(first, Letters \cup Digits, Len(line)) - first,
             NEW end, end = Min({j \in k .. Len(printed) : printed[j] = "[/K]"})
      PROVE  /\ end - k - 1 = Min({run, WordLimit})
             /\ \/ first = 1 \/ line[first - 1] \notin Letters \cup Digits
                \/ printed[k - 1] = "[/N]"
                \/ /\ first - WordLimit >= 1 /\ line[first - WordLimit] \in Letters
                   /\ \A c \in first - WordLimit .. first - 1 :
                        line[c] \in Letters \cup Digits
  <2>1. PICK f \in Nat, e \in Nat : KeyAt(printed, k, f, e)
    BY <1>1 DEF KeysOK, Explained
  <2>2. f = first
    BY <1>1, <2>1 DEF KeyAt, Characters
  <2>3. e = end
    <3>1. PICK E : E = {j \in k .. Len(printed) : printed[j] = "[/K]"}
      OBVIOUS
    <3>2. k \in Nat
      OBVIOUS
    <3>3. E \in SUBSET Nat
      BY <3>1, <3>2
    <3>4. e \in E
      BY <2>1, <3>1 DEF KeyAt
    <3>5. ASSUME NEW x \in E PROVE e <= x
      <4>1. x \in k .. Len(printed) /\ printed[x] = "[/K]" /\ x \in Nat
        BY <3>1, <3>3
      <4>2. x \notin k .. e - 1
        BY <2>1, <4>1 DEF KeyAt
      <4>3. QED
        BY <3>2, <4>1, <4>2
    <3>6. Min(E) = e
      BY <3>3, <3>4, <3>5, MinIs
    <3>7. QED
      BY <1>1, <3>1, <3>6
  <2>4. end - k - 1 = Min({run, WordLimit})
    BY <1>1, <2>1, <2>2, <2>3 DEF KeyAt, Taken, Alnum
  <2>5. QED
    BY <1>1, <2>1, <2>2, <2>4 DEF KeyAt, BeginsAt, FullPieceBefore, Alnum
<1>2. QED
  BY <1>1, Zenon DEF KeywordsStandAlone

KeyInv == LineInv /\ KeysOK(printed) /\ Before

LEMMA KeyInvStep == KeyInv /\ [Next]_vars => KeyInv'
<1> SUFFICES ASSUME KeyInv, [Next]_vars PROVE KeyInv'
  OBVIOUS
<1>1. LineInv /\ LineOK /\ AllShown /\ KeysOK(printed) /\ Before
  BY DEF KeyInv, LineInv
<1>2. LineInv'
  BY <1>1, LineInvStep
<1>3. CASE HighlighterNext
  <2>1. KeysOK(printed)' /\ Before'
    BY <1>1, <1>3, KeysStep, BeforeStep
  <2>2. QED
    BY <1>2, <2>1 DEF KeyInv
<1>4. CASE UNCHANGED h_vars
  <2>1. Before'
    BY <1>1, <1>4 DEF Before, FullPieceBefore, Alnum, h_vars
  <2>2. KeysOK(printed)'
    <3>1. PICK r : r = printed'
      OBVIOUS
    <3>2. r = printed /\ line' = line
      BY <1>4, <3>1 DEF h_vars
    <3>3. KeysOK(r)
      BY <1>1, <3>2
    <3>4. QED
      BY <3>1, <3>2, <3>3, SameLineKeys
  <2>3. QED
    BY <1>2, <2>1, <2>2 DEF KeyInv
<1>5. QED
  BY <1>3, <1>4 DEF Next, vars, h_vars

(* Whatever the words and however long: what is marked as a keyword is a whole
   word, or one of the pieces extract_word takes a word that is too long in,
   which begin and end where the one before and the limit say. *)
THEOREM KeywordsAlone == Spec => []KeywordsStandAlone
<1>1. Init => KeyInv
  <2> SUFFICES ASSUME Init PROVE KeyInv
    OBVIOUS
  <2>1. LineInv
    BY InitLine
  <2>2. i = 1 /\ printed = <<>>
    BY DEF Init, HighlighterInit, NoHighlighter
  <2>3. KeysOK(printed)
    <3>1. 1 .. Len(printed) = {}
      BY <2>2
    <3>2. QED
      BY <3>1 DEF KeysOK
  <2>4. QED
    BY <2>1, <2>2, <2>3 DEF KeyInv, Before
<1>2. KeyInv => KeywordsStandAlone
  BY KeysStandAlone DEF KeyInv
<1>3. QED
  BY <1>1, <1>2, KeyInvStep, PTL DEF Spec

-----------------------------------------------------------------------------
(* Strings. *)

LEMMA MaxIs ==
  ASSUME NEW E \in SUBSET Nat, NEW e \in E, \A x \in E : x <= e
  PROVE  Max(E) = e
<1>1. Max(E) \in E /\ \A x \in E : Max(E) >= x
  BY DEF Max
<1>2. Max(E) <= e /\ e <= Max(E) /\ Max(E) \in Nat
  BY <1>1
<1>3. QED
  BY <1>2

\* takes[k] says that the k-th character is a backslash that takes the next one.
IsTaking(takes, piece) ==
  /\ ~takes[0]
  /\ \A k \in 1 .. Len(piece) : takes[k] <=> piece[k] = Backslash /\ ~takes[k - 1]

LEMMA TakingSteps ==
  ASSUME NEW T, NEW piece \in Seq(T)
  PROVE  \E takes : /\ IsTaking(takes, piece)
                    /\ Quotes(piece) = Cardinality({k \in 1 .. Len(piece) :
                                                     piece[k] = Quote /\ ~takes[k - 1]})
<1> DEFINE n == Len(piece)
<1> DEFINE Takes(f) ==
      f = [k \in 0 .. n |-> k > 0 /\ piece[k] = Backslash /\ ~f[k - 1]]
<1> DEFINE step == [k \in 1 .. n |->
                      [m \in {0, 1} |-> IF piece[k] = Backslash /\ m = 0 THEN 1 ELSE 0]]
<1>1. n \in Nat
  BY LenProperties
<1> HIDE DEF n
<1>2. step \in [1 .. n -> [{0, 1} -> {0, 1}]]
  OBVIOUS
<1>3. \E f : Takes(f)
  <2>1. PICK g \in [0 .. n -> {0, 1}] : IsRecursion(g, n, 0, step)
    <3> HIDE DEF step
    <3>1. QED
      BY <1>1, <1>2, Recursion
  <2>2. ASSUME NEW k \in 0 .. n
        PROVE  g[k] = 1 <=> k > 0 /\ piece[k] = Backslash /\ ~(g[k - 1] = 1)
    <3>1. CASE k = 0
      BY <2>1, <3>1 DEF IsRecursion
    <3>2. CASE k # 0
      <4>1. k \in 1 .. n /\ k - 1 \in 0 .. n /\ k > 0
        BY <1>1, <3>2
      <4>2. g[k - 1] \in {0, 1} /\ g[k] = step[k][g[k - 1]]
        <5> HIDE DEF step
        <5>1. QED
          BY <2>1, <4>1 DEF IsRecursion
      <4>3. g[k] = IF piece[k] = Backslash /\ g[k - 1] = 0 THEN 1 ELSE 0
        BY <4>1, <4>2
      <4>4. QED
        BY <4>1, <4>2, <4>3
    <3>3. QED
      BY <3>1, <3>2
  <2> DEFINE f == [k \in 0 .. n |-> g[k] = 1]
  <2>3. \A k \in 0 .. n : f[k] <=> g[k] = 1
    OBVIOUS
  <2>4. ASSUME NEW k \in 0 .. n
        PROVE  (g[k] = 1) <=> (k > 0 /\ piece[k] = Backslash /\ ~f[k - 1])
    <3>1. CASE k = 0
      BY <2>2, <3>1
    <3>2. CASE k # 0
      <4>1. k - 1 \in 0 .. n
        BY <1>1, <3>2
      <4>2. f[k - 1] <=> g[k - 1] = 1
        BY <2>3, <4>1
      <4>3. QED
        BY <2>2, <4>2
    <3>3. QED
      BY <3>1, <3>2
  <2>5. f = [k \in 0 .. n |-> k > 0 /\ piece[k] = Backslash /\ ~f[k - 1]]
    <3> DEFINE h == [k \in 0 .. n |-> k > 0 /\ piece[k] = Backslash /\ ~f[k - 1]]
    <3>1. \A k \in 0 .. n : f[k] = h[k]
      BY <2>4, Zenon
    <3>2. QED
      BY <3>1, Zenon
  <2>6. Takes(f)
    <3> HIDE DEF f
    <3>1. QED
      BY <2>5
  <2> HIDE DEF Takes, f
  <2>7. QED
    BY <2>6
<1> DEFINE f == CHOOSE f : Takes(f)
<1>4. Quotes(piece) = Cardinality({k \in 1 .. n : piece[k] = Quote /\ ~f[k - 1]})
  BY DEF Quotes, n
<1>5. Takes(f)
  <2> HIDE DEF Takes
  <2>1. QED
    BY <1>3
<1> HIDE DEF f
<1>6. ASSUME NEW k \in 0 .. n
      PROVE  f[k] <=> k > 0 /\ piece[k] = Backslash /\ ~f[k - 1]
  BY <1>5, Zenon
<1> HIDE DEF Takes
<1>7. ~f[0]
  <2>1. 0 \in 0 .. n /\ ~(0 > 0)
    BY <1>1
  <2>2. QED
    BY <1>6, <2>1, Zenon
<1>8. ASSUME NEW k \in 1 .. n PROVE f[k] <=> piece[k] = Backslash /\ ~f[k - 1]
  <2>1. k \in 0 .. n /\ k > 0
    BY <1>1
  <2>2. QED
    BY <1>6, <2>1, Zenon
<1>9. IsTaking(f, piece)
  BY <1>7, <1>8, Zenon DEF IsTaking, n
<1>10. QED
  BY <1>4, <1>9 DEF n

\* The last character up to k that is no backslash stands at s.
LastPlain(piece, k, s) ==
  s \in 1 .. k /\ piece[s] # Backslash /\ \A c \in s + 1 .. k : piece[c] = Backslash

\* An odd number of backslashes behind it takes the next character away.
LEMMA TakingIsOdd ==
  ASSUME NEW T, NEW piece \in Seq(T), NEW takes, IsTaking(takes, piece),
         Len(piece) >= 1, piece[1] = Quote
  PROVE  \A k \in 1 .. Len(piece) :
           \E s \in 1 .. k : LastPlain(piece, k, s) /\ (takes[k] <=> (k - s) % 2 = 1)
<1>1. PICK n \in Nat : n = Len(piece)
  BY LenProperties
<1> DEFINE Odd(k) ==
      \E s \in 1 .. k : LastPlain(piece, k, s) /\ (takes[k] <=> (k - s) % 2 = 1)
<1> DEFINE P == {h \in 0 .. n - 1 : Odd(h + 1)}
<1>2. \A k \in 1 .. n : takes[k] <=> piece[k] = Backslash /\ ~takes[k - 1]
  BY <1>1 DEF IsTaking
<1>3. ASSUME NEW k \in 1 .. n, piece[k] # Backslash PROVE Odd(k)
  <2>1. ~takes[k]
    BY <1>2, <1>3
  <2>2. k \in 1 .. k /\ k + 1 .. k = {} /\ (k - k) % 2 = 0
    OBVIOUS
  <2>3. LastPlain(piece, k, k)
    BY <1>3, <2>2 DEF LastPlain
  <2>4. takes[k] <=> (k - k) % 2 = 1
    BY <2>1, <2>2
  <2>5. QED
    BY <2>2, <2>3, <2>4
<1>4. 0 \in P
  <2>1. 1 \in 1 .. n /\ piece[1] # Backslash /\ 0 \in 0 .. n - 1 /\ 0 + 1 = 1
    <3>1. Quote # Backslash
      BY Zenon DEF Quote, Backslash
    <3>2. QED
      BY <1>1, <3>1
  <2>2. Odd(1)
    BY <1>3, <2>1
  <2> HIDE DEF Odd
  <2>3. QED
    BY <2>1, <2>2
<1>5. ASSUME NEW h \in 0 .. n - 1 - 1, h \in P PROVE h + 1 \in P
  <2>1. PICK k : k = h + 1
    OBVIOUS
  <2>2. k \in 1 .. n /\ k + 1 \in 1 .. n /\ (k + 1) - 1 = k /\ h + 1 \in 0 .. n - 1 /\ k \in Nat
    BY <2>1
  <2>3. CASE piece[k + 1] # Backslash
    <3>1. Odd(k + 1)
      BY <1>3, <2>2, <2>3
    <3> HIDE DEF Odd
    <3>2. QED
      BY <2>1, <2>2, <3>1
  <2>4. CASE piece[k + 1] = Backslash
    <3>1. PICK l : l = k + 1
      OBVIOUS
    <3>2. l \in 1 .. n /\ l - 1 = k /\ piece[l] = Backslash
      BY <2>2, <2>4, <3>1
    <3>3. PICK s \in 1 .. k : LastPlain(piece, k, s) /\ (takes[k] <=> (k - s) % 2 = 1)
      BY <1>5, <2>1
    <3>4. takes[l] <=> ~takes[k]
      BY <1>2, <3>2
    <3>5. l - s = (k - s) + 1 /\ k - s \in Nat
      BY <2>2, <3>1
    <3>6. (l - s) % 2 = 1 <=> ~((k - s) % 2 = 1)
      BY <3>5
    <3>7. takes[l] <=> (l - s) % 2 = 1
      BY <3>3, <3>4, <3>6
    <3>8. s \in 1 .. l /\ piece[s] # Backslash
      BY <2>2, <3>1, <3>3 DEF LastPlain
    <3>9. ASSUME NEW c \in s + 1 .. l PROVE piece[c] = Backslash
      <4>1. c = l \/ c \in s + 1 .. k
        BY <2>2, <3>1
      <4>2. QED
        BY <3>2, <3>3, <4>1 DEF LastPlain
    <3>10. LastPlain(piece, l, s)
      BY <3>8, <3>9 DEF LastPlain
    <3>11. Odd(l)
      BY <3>7, <3>8, <3>10, Zenon
    <3> HIDE DEF Odd
    <3>12. QED
      BY <2>1, <2>2, <3>1, <3>11
  <2>5. QED
    BY <2>3, <2>4
<1>6. P = 0 .. n - 1
  <2>1. n - 1 \in Nat /\ P \in SUBSET (0 .. n - 1)
    BY <1>1
  <2> HIDE DEF P
  <2>2. QED
    BY <1>4, <1>5, <2>1, RangeInduction
<1>7. ASSUME NEW k \in 1 .. n PROVE Odd(k)
  <2>1. k - 1 \in 0 .. n - 1 /\ (k - 1) + 1 = k
    OBVIOUS
  <2>2. k - 1 \in P
    BY <1>6, <2>1
  <2>3. Odd((k - 1) + 1)
    <3> HIDE DEF Odd
    <3>1. QED
      BY <2>2
  <2> HIDE DEF Odd
  <2>4. QED
    BY <2>1, <2>3
<1>8. QED
  BY <1>1, <1>7

\* The quote that closes a string is the first that counts.
LEMMA QuotesOfString ==
  ASSUME LineOK, i \in 1 .. Len(line), line[i] = Quote, NEW last \in i .. Len(line),
         \A e \in StringEnds : last <= e
  PROVE  Quotes(SubSeq(line, i, last)) = IF last \in StringEnds THEN 2 ELSE 1
<1>1. PICK n \in Nat : n = Len(line)
  BY LenProperties DEF LineOK
<1>2. i \in Nat /\ last \in Nat /\ i >= 1 /\ i <= last /\ last <= n
  BY <1>1
<1>3. PICK A : A = Alphabet[language]
  OBVIOUS
<1>4. PICK p : p = SubSeq(line, i, last)
  OBVIOUS
<1>5. PICK m \in Nat : m = last - i + 1 /\ m >= 1
  BY <1>2
<1>6. p \in Seq(A) /\ Len(p) = m /\ \A k \in 1 .. m : p[k] = line[i + k - 1]
  <2>1. p \in Seq(A)
    BY <1>3, <1>4, PartOfLine
  <2>2. \A j \in i .. last : j \in 1 .. Len(line)
    BY <1>1, <1>2
  <2>3. \A j \in i .. last : line[j] \in A
    BY <1>3, <2>2, ElementOfSeq DEF LineOK
  <2>4. i \in Int /\ last \in Int
    BY <1>2
  <2>5. /\ Len(p) = IF i <= last THEN last - i + 1 ELSE 0
        /\ \A k \in 1 .. last - i + 1 : p[k] = line[i + k - 1]
    BY <1>4, <2>3, <2>4, SubSeqProperties
  <2>6. QED
    BY <1>2, <1>5, <2>1, <2>5
<1>7. 1 \in 1 .. m /\ p[1] = Quote
  BY <1>2, <1>5, <1>6
<1>8. PICK takes : /\ IsTaking(takes, p)
                   /\ Quotes(p) = Cardinality({k \in 1 .. Len(p) : p[k] = Quote /\ ~takes[k - 1]})
  BY <1>6, TakingSteps
<1>9. ASSUME NEW k \in 2 .. m
      PROVE  p[k] = Quote /\ ~takes[k - 1] <=> i + k - 1 \in StringEnds
  <2>1. PICK h : h = k - 1
    OBVIOUS
  <2>2. PICK j : j = i + k - 1
    OBVIOUS
  <2>3. h \in 1 .. m /\ h \in Nat /\ j \in i + 1 .. n /\ j = i + h /\ j \in Nat /\ j - 1 \in Nat
    BY <1>2, <1>5, <2>1, <2>2
  <2>4. PICK s \in 1 .. h : LastPlain(p, h, s) /\ (takes[h] <=> (h - s) % 2 = 1)
    <3>1. Len(p) >= 1
      BY <1>5, <1>6
    <3>2. QED
      BY <1>6, <1>7, <1>8, <2>3, <3>1, TakingIsOdd
  <2>5. PICK start : start = i + s - 1
    OBVIOUS
  <2>6. Max({c \in i .. j - 1 : line[c] # Backslash}) = start
    <3>1. PICK E : E = {c \in i .. j - 1 : line[c] # Backslash}
      OBVIOUS
    <3>2. E \in SUBSET Nat
      BY <1>2, <2>3, <3>1
    <3>3. start \in E
      <4>1. s \in 1 .. m /\ start \in i .. j - 1
        BY <1>2, <2>3, <2>5
      <4>2. line[start] # Backslash
        BY <1>6, <2>4, <2>5, <4>1 DEF LastPlain
      <4>3. QED
        BY <3>1, <4>1, <4>2
    <3>4. ASSUME NEW c \in E PROVE c <= start
      <4>1. SUFFICES ASSUME ~(c <= start) PROVE FALSE
        OBVIOUS
      <4>2. c \in i .. j - 1 /\ line[c] # Backslash
        BY <3>1
      <4>3. PICK d : d = c - i + 1
        OBVIOUS
      <4>4. d \in s + 1 .. h /\ d \in 1 .. m /\ i + d - 1 = c
        BY <1>2, <2>3, <2>5, <4>1, <4>2, <4>3
      <4>5. p[d] = Backslash
        BY <2>4, <4>4 DEF LastPlain
      <4>6. QED
        BY <1>6, <4>2, <4>4, <4>5
    <3>5. QED
      BY <3>1, <3>2, <3>3, <3>4, MaxIs
  <2>7. Escaped(j) <=> (j - 1 - start) % 2 = 1
    BY <2>6 DEF Escaped
  <2>8. j - 1 - start = h - s
    BY <1>2, <2>3, <2>5
  <2>9. Escaped(j) <=> takes[h]
    BY <2>4, <2>7, <2>8
  <2>10. p[k] = line[j]
    <3>1. k \in 1 .. m
      BY <1>5
    <3>2. QED
      BY <1>6, <2>2, <3>1
  <2>11. j \in StringEnds <=> line[j] = Quote /\ ~Escaped(j)
    BY <1>1, <2>3 DEF StringEnds
  <2>12. p[k] = Quote /\ ~takes[h] <=> j \in StringEnds
    BY <2>9, <2>10, <2>11
  <2>13. QED
    BY <2>1, <2>2, <2>12
<1>10. PICK Q : Q = {k \in 1 .. m : p[k] = Quote /\ ~takes[k - 1]}
  OBVIOUS
<1>11. 1 \in Q
  <2>1. ~takes[1 - 1]
    BY <1>8 DEF IsTaking
  <2>2. QED
    BY <1>7, <1>10, <2>1
<1>12. ASSUME NEW k \in Q, k # 1 PROVE k = m /\ last \in StringEnds
  <2>1. k \in 2 .. m /\ p[k] = Quote /\ ~takes[k - 1]
    <3>1. k \in 1 .. m /\ p[k] = Quote /\ ~takes[k - 1]
      BY <1>10
    <3>2. k \in 2 .. m
      BY <1>12, <3>1
    <3>3. QED
      BY <3>1, <3>2
  <2>2. i + k - 1 \in StringEnds
    BY <1>9, <2>1
  <2>3. last <= i + k - 1
    BY <2>2
  <2>4. k = m
    BY <1>2, <1>5, <2>1, <2>3
  <2>5. i + k - 1 = last
    BY <1>2, <1>5, <2>4
  <2>6. QED
    BY <2>2, <2>4, <2>5
<1>13. ASSUME last \in StringEnds PROVE m \in Q /\ m # 1
  <2>1. last \in i + 1 .. n
    BY <1>1, <1>13 DEF StringEnds
  <2>2. m \in 2 .. m /\ i + m - 1 = last /\ m \in 1 .. m
    BY <1>2, <1>5, <2>1
  <2>3. p[m] = Quote /\ ~takes[m - 1]
    BY <1>9, <1>13, <2>2
  <2>4. QED
    BY <1>10, <2>2, <2>3
<1>14. Quotes(p) = Cardinality(Q)
  BY <1>6, <1>8, <1>10
<1>15. CASE last \in StringEnds
  <2>1. Q = {1} \cup {m} /\ m \notin {1}
    BY <1>11, <1>12, <1>13, <1>15
  <2>2. PICK one : one = {1}
    OBVIOUS
  <2>3. IsFiniteSet(one) /\ Cardinality(one) = 1
    BY <2>2, FS_Singleton
  <2>4. Cardinality(one \cup {m}) = Cardinality(one) + 1
    <3>1. IsFiniteSet(one)
      BY <2>3
    <3>2. m \notin one
      BY <2>1, <2>2
    <3>3. QED
      BY <3>1, <3>2, FS_AddElement
  <2>5. Q = one \cup {m}
    BY <2>1, <2>2
  <2>6. Quotes(p) = 2
    BY <1>14, <2>3, <2>4, <2>5
  <2>7. QED
    BY <1>4, <1>15, <2>6
<1>16. CASE last \notin StringEnds
  <2>1. Q = {1}
    BY <1>11, <1>12, <1>16
  <2>2. Cardinality({1}) = 1
    BY FS_Singleton
  <2>3. QED
    BY <1>4, <1>14, <1>16, <2>1, <2>2
<1>17. QED
  BY <1>15, <1>16

\* The string opened at k is closed at end behind its second quote, or it is
\* the last that is shown.
ClosedAt(pr, k, end) ==
  /\ end \in k .. Len(pr) /\ pr[end] = "[/S]"
  /\ \A j \in k .. end - 1 : pr[j] # "[/S]"
  /\ Quotes(SubSeq(pr, k + 1, end - 1)) = 2
Closed(pr, k) == \E end \in Nat : ClosedAt(pr, k, end)
LeftOpen(pr, k) ==
  /\ \A j \in k .. Len(pr) : pr[j] # "[/S]"
  /\ Quotes(SubSeq(pr, k + 1, Len(pr))) = 1
AllClosed(pr) == \A k \in 1 .. Len(pr) : pr[k] = "[S]" => Closed(pr, k)
StringsOK(pr) == \A k \in 1 .. Len(pr) : pr[k] = "[S]" => Closed(pr, k) \/ LeftOpen(pr, k)

\* A string that is closed stays as it is.
LEMMA ClosedKept ==
  ASSUME NEW T, NEW pr \in Seq(T), NEW added \in Seq(T), NEW r, r = pr \o added,
         NEW k \in 1 .. Len(pr), pr[k] = "[S]", Closed(pr, k)
  PROVE  Closed(r, k)
<1>1. PICK n \in Nat : n = Len(pr)
  BY LenProperties
<1>2. PICK m \in Nat : m = Len(added)
  BY LenProperties
<1>3. Len(r) = n + m /\ \A j \in 1 .. n + m : r[j] = IF j <= n THEN pr[j] ELSE added[j - n]
  BY <1>1, <1>2, ConcatProperties
<1>4. \A j \in 1 .. n : r[j] = pr[j]
  BY <1>1, <1>2, <1>3
<1>5. PICK end \in Nat : ClosedAt(pr, k, end)
  BY DEF Closed
<1>6. end # k
  BY <1>5 DEF ClosedAt
<1>7. /\ k + 1 \in 1 .. Len(pr) /\ end - 1 \in 1 .. Len(pr)
      /\ end \in k .. n + m /\ end \in 1 .. n
  BY <1>1, <1>2, <1>5, <1>6 DEF ClosedAt
<1>8. SubSeq(r, k + 1, end - 1) = SubSeq(pr, k + 1, end - 1)
  BY <1>7, SubSeqOfConcat1
<1>9. r[end] = "[/S]"
  BY <1>4, <1>5, <1>7 DEF ClosedAt
<1>10. ASSUME NEW j \in k .. end - 1 PROVE r[j] # "[/S]"
  <2>1. j \in 1 .. n
    BY <1>1, <1>7
  <2>2. QED
    BY <1>4, <1>5, <2>1 DEF ClosedAt
<1>11. ClosedAt(r, k, end)
  BY <1>3, <1>5, <1>7, <1>8, <1>9, <1>10 DEF ClosedAt
<1>12. QED
  BY <1>11 DEF Closed

LEMMA StringsOn ==
  ASSUME NEW T, NEW pr \in Seq(T), NEW added \in Seq(T), NEW r, r = pr \o added, AllClosed(pr)
  PROVE  /\ (\A j \in 1 .. Len(added) : added[j] = "[S]" => Closed(r, Len(pr) + j))
              => AllClosed(r)
         /\ (\A j \in 1 .. Len(added) : added[j] = "[S]" => LeftOpen(r, Len(pr) + j))
              => StringsOK(r)
<1>1. PICK n \in Nat : n = Len(pr)
  BY LenProperties
<1>2. PICK m \in Nat : m = Len(added)
  BY LenProperties
<1>3. Len(r) = n + m /\ \A j \in 1 .. n + m : r[j] = IF j <= n THEN pr[j] ELSE added[j - n]
  BY <1>1, <1>2, ConcatProperties
<1>4. ASSUME NEW k \in 1 .. n + m, r[k] = "[S]"
      PROVE  Closed(r, k) \/ \E j \in 1 .. Len(added) : added[j] = "[S]" /\ k = Len(pr) + j
  <2>1. CASE k <= n
    <3>1. k \in 1 .. Len(pr) /\ pr[k] = "[S]"
      BY <1>1, <1>3, <1>4, <2>1
    <3>2. Closed(pr, k)
      BY <3>1 DEF AllClosed
    <3>3. QED
      BY <3>1, <3>2, ClosedKept
  <2>2. CASE ~(k <= n)
    <3>1. PICK j : j = k - n
      OBVIOUS
    <3>2. j \in 1 .. Len(added) /\ n + j = k /\ added[j] = "[S]"
      BY <1>1, <1>2, <1>3, <1>4, <2>2, <3>1
    <3>3. QED
      BY <1>1, <3>2
  <2>3. QED
    BY <2>1, <2>2
<1>5. QED
  BY <1>3, <1>4 DEF AllClosed, StringsOK

\* A part p shown behind one marker, and where it stands in the output.
IsBehind(added, p) == Len(added) >= Len(p) + 1 /\ \A j \in 1 .. Len(p) : added[j + 1] = p[j]

LEMMA PartShown ==
  ASSUME NEW T, NEW pr \in Seq(T), NEW added \in Seq(T), NEW p \in Seq(T), Len(p) >= 1,
         NEW r, r = pr \o added, IsBehind(added, p)
  PROVE  SubSeq(r, Len(pr) + 2, Len(pr) + 1 + Len(p)) = p
<1>1. PICK N \in Nat : N = Len(pr)
  BY LenProperties
<1>2. PICK w \in Nat : w = Len(p)
  BY LenProperties
<1>3. PICK l \in Nat : l = Len(added)
  BY LenProperties
<1>4. w >= 1 /\ l >= w + 1
  BY <1>2, <1>3 DEF IsBehind
<1>5. SubSeq(r, N + 2, N + 1 + w) = SubSeq(added, 2, w + 1)
  <2>1. PICK a : a = N + 2
    OBVIOUS
  <2>2. PICK b : b = N + 1 + w
    OBVIOUS
  <2>3. a \in Len(pr) + 1 .. Len(pr) + Len(added) /\ b \in Len(pr) + 1 .. Len(pr) + Len(added)
    BY <1>1, <1>3, <1>4, <2>1, <2>2
  <2>4. SubSeq(r, a, b) = SubSeq(added, a - Len(pr), b - Len(pr))
    BY <2>3, SubSeqOfConcat2
  <2>5. a - Len(pr) = 2 /\ b - Len(pr) = w + 1
    BY <1>1, <2>1, <2>2
  <2>6. QED
    BY <2>1, <2>2, <2>4, <2>5
<1>6. PICK q : q = SubSeq(added, 2, w + 1)
  OBVIOUS
<1>7. PICK e : e = w + 1
  OBVIOUS
<1>8. /\ q \in Seq(T) /\ Len(q) = w /\ \A j \in 1 .. w : q[j] = added[j + 1]
  <2>1. \A j \in 2 .. e : j \in 1 .. Len(added)
    BY <1>3, <1>4, <1>7
  <2>2. \A j \in 2 .. e : added[j] \in T
    BY <2>1, ElementOfSeq
  <2>3. 2 \in Int /\ e \in Int /\ 2 <= e /\ e - 2 + 1 = w
    BY <1>4, <1>7
  <2>4. /\ q \in Seq(T) /\ Len(q) = IF 2 <= e THEN e - 2 + 1 ELSE 0
        /\ \A j \in 1 .. e - 2 + 1 : q[j] = added[2 + j - 1]
    BY <1>6, <1>7, <2>2, <2>3, SubSeqProperties
  <2>5. \A j \in 1 .. w : 2 + j - 1 = j + 1
    OBVIOUS
  <2>6. QED
    BY <2>3, <2>4, <2>5
<1>9. \A j \in 1 .. Len(q) : q[j] = p[j]
  BY <1>2, <1>8 DEF IsBehind
<1>10. q = p
  <2>1. q \in Seq(T) /\ Len(q) = Len(p)
    BY <1>2, <1>8
  <2>2. QED
    BY <1>9, <2>1, SeqEqual
<1>11. QED
  BY <1>1, <1>2, <1>5, <1>6, <1>10

\* What a turn that begins a string adds: the marker, the string, and perhaps
\* the closing marker.
IsString(added, p) ==
  /\ IsBehind(added, p) /\ added[1] = "[S]"
  /\ \/ Len(added) = Len(p) + 2 /\ added[Len(p) + 2] = "[/S]" /\ Quotes(p) = 2
     \/ Len(added) = Len(p) + 1 /\ Quotes(p) = 1 

LEMMA StringAdded ==
  ASSUME NEW A, NEW T, A \subseteq T, "[S]" \notin A, "[/S]" \notin A,
         NEW pr \in Seq(T), NEW added \in Seq(T), NEW p \in Seq(A), Len(p) >= 1,
         NEW r, r = pr \o added, IsString(added, p), AllClosed(pr)
  PROVE  StringsOK(r) /\ (Len(added) = Len(p) + 2 => AllClosed(r))
<1>1. PICK N \in Nat : N = Len(pr)
  BY LenProperties
<1>2. PICK w \in Nat : w = Len(p) /\ w >= 1
  BY LenProperties
<1>3. PICK l \in Nat : l = Len(added)
  BY LenProperties
<1>4. /\ l = w + 1 \/ l = w + 2
      /\ added[1] = "[S]" /\ \A j \in 1 .. w : added[j + 1] = p[j]
  BY <1>2, <1>3 DEF IsString, IsBehind
<1>5. ASSUME NEW j \in 2 .. w + 1 PROVE added[j] # "[/S]" /\ added[j] # "[S]"
  <2>1. PICK h : h = j - 1
    OBVIOUS
  <2>2. h \in 1 .. Len(p) /\ h \in 1 .. w /\ h + 1 = j
    BY <1>2, <2>1
  <2>3. p[h] \in A
    BY <2>2, ElementOfSeq
  <2>4. added[j] \in A
    BY <1>4, <2>2, <2>3
  <2>5. QED
    BY <2>4
<1>6. Len(r) = N + l /\ \A j \in 1 .. N + l : r[j] = IF j <= N THEN pr[j] ELSE added[j - N]
  BY <1>1, <1>3, ConcatProperties
<1>7. ASSUME NEW h \in 1 .. l PROVE r[N + h] = added[h]
  <2>1. N + h \in 1 .. N + l /\ ~(N + h <= N) /\ (N + h) - N = h
    OBVIOUS
  <2>2. QED
    BY <1>6, <2>1
<1>8. PICK k : k = N + 1
  OBVIOUS
<1>9. p \in Seq(T)
  BY SeqMonotonic
<1>10. SubSeq(r, k + 1, N + 1 + w) = p
  <2>1. IsBehind(added, p)
    BY DEF IsString
  <2>2. SubSeq(r, Len(pr) + 2, Len(pr) + 1 + Len(p)) = p
    BY <1>9, <2>1, PartShown
  <2>3. Len(pr) + 2 = k + 1
    BY <1>1, <1>8
  <2>4. QED
    BY <1>1, <1>2, <2>2, <2>3
<1>11. ASSUME NEW j \in k .. N + 1 + w PROVE r[j] # "[/S]"
  <2>1. PICK h : h = j - N
    OBVIOUS
  <2>2. h \in 1 .. w + 1 /\ h \in 1 .. l /\ N + h = j
    BY <1>4, <1>8, <2>1
  <2>3. added[h] # "[/S]"
    <3>1. CASE h = 1
      BY <1>4, <3>1
    <3>2. CASE h # 1
      <4>1. h \in 2 .. w + 1
        BY <2>2, <3>2
      <4>2. QED
        BY <1>5, <4>1
    <3>3. QED
      BY <3>1, <3>2
  <2>4. QED
    BY <1>7, <2>2, <2>3
<1>12. CASE l = w + 2
  <2>1. added[w + 2] = "[/S]" /\ Quotes(p) = 2
    BY <1>2, <1>3, <1>12 DEF IsString
  <2>2. PICK end : end = N + (w + 2)
    OBVIOUS
  <2>3. end \in Nat /\ k \in Nat /\ end - 1 = N + 1 + w /\ end \in k .. N + l /\ w + 2 \in 1 .. l
    BY <1>8, <1>12, <2>2
  <2>4. r[end] = "[/S]"
    BY <1>7, <2>1, <2>2, <2>3
  <2>5. ClosedAt(r, k, end)
    BY <1>6, <1>10, <1>11, <2>1, <2>3, <2>4 DEF ClosedAt
  <2>6. Closed(r, k)
    BY <2>3, <2>5 DEF Closed
  <2>7. ASSUME NEW j \in 1 .. Len(added), added[j] = "[S]" PROVE Closed(r, Len(pr) + j)
    <3>1. j = 1
      <4>1. j \in 1 .. w + 2 /\ j # w + 2
        BY <1>3, <1>12, <2>1, <2>7
      <4>2. j \notin 2 .. w + 1
        BY <1>5, <2>7
      <4>3. QED
        BY <4>1, <4>2
    <3>2. QED
      BY <1>1, <1>8, <2>6, <3>1
  <2>8. AllClosed(r)
    BY <2>7, StringsOn
  <2>9. QED
    BY <2>8 DEF AllClosed, StringsOK
<1>13. CASE l = w + 1
  <2>1. Quotes(p) = 1
    BY <1>2, <1>3, <1>13 DEF IsString
  <2>2. Len(r) = N + 1 + w
    BY <1>6, <1>13
  <2>3. LeftOpen(r, k)
    BY <1>10, <1>11, <2>1, <2>2 DEF LeftOpen
  <2>4. ASSUME NEW j \in 1 .. Len(added), added[j] = "[S]" PROVE LeftOpen(r, Len(pr) + j)
    <3>1. j = 1
      <4>1. j \in 1 .. w + 1
        BY <1>3, <1>13
      <4>2. j \notin 2 .. w + 1
        BY <1>5, <2>4
      <4>3. QED
        BY <4>1, <4>2
    <3>2. QED
      BY <1>1, <1>8, <2>3, <3>1
  <2>5. StringsOK(r)
    BY <2>4, StringsOn
  <2>6. Len(added) # Len(p) + 2
    BY <1>2, <1>3, <1>13
  <2>7. QED
    BY <2>5, <2>6
<1>14. QED
  BY <1>4, <1>12, <1>13

LEMMA StringCloses ==
  ASSUME LineOK, AllClosed(printed), i \in 1 .. Len(line), line[i] = Quote,
         NEW e, e = Min(StringEnds), e \in StringEnds, e \in i .. Len(line), Closes("[S]", e)
  PROVE  StringsOK(printed') /\ AllClosed(printed')
<1>1. PICK A : A = Alphabet[language]
  OBVIOUS
<1>2. PICK T : T = A \cup Markers
  OBVIOUS
<1>3. A \subseteq T /\ "[S]" \notin A /\ "[/S]" \notin A
  <2>1. A \cap Markers = {}
    BY <1>1, PartOfLine
  <2>2. "[S]" \in Markers /\ "[/S]" \in Markers
    BY MarkersAre, ClosingIs
  <2>3. QED
    BY <1>2, <2>1, <2>2
<1>4. PICK p : p = SubSeq(line, i, e)
  OBVIOUS
<1>5. p \in Seq(A)
  BY <1>1, <1>4, PartOfLine
<1>6. Quotes(p) = 2
  <2>1. StringEnds \in SUBSET Nat
    BY LenProperties DEF StringEnds, LineOK
  <2>2. \A x \in StringEnds : e <= x
    BY <2>1, MinOfNaturals
  <2>3. QED
    BY <1>4, <2>2, QuotesOfString
<1>7. PICK added : added = <<"[S]">> \o p \o <<"[/S]">>
  OBVIOUS
<1>8. IsMarked(added, "[S]", p, "[/S]")
  BY <1>5, <1>7, MarkedPlaces
<1>9. added = Marked("[S]", i, e)
  <2>1. Closing("[S]") = "[/S]"
    BY MarkersAre, ClosingIs
  <2>2. QED
    BY <1>4, <1>7, <2>1 DEF Marked
<1>10. IsGrowth(added, e)
  <2>1. "[S]" \in Opening
    BY MarkersAre
  <2>2. QED
    BY <1>9, <2>1, ClosesGrows
<1>11. PICK w \in Nat : w = Len(p)
  BY <1>5, LenProperties
<1>12. Len(p) >= 1
  <2>1. \A j \in i .. e : line[j] \in A
    <3>1. \A j \in i .. e : j \in 1 .. Len(line)
      BY LenProperties DEF LineOK
    <3>2. QED
      BY <1>1, <3>1, ElementOfSeq DEF LineOK
  <2>2. i \in Int /\ e \in Int /\ i <= e
    BY LenProperties DEF LineOK
  <2>3. Len(p) = IF i <= e THEN e - i + 1 ELSE 0
    BY <1>4, <2>1, <2>2, SubSeqProperties
  <2>4. QED
    BY <2>2, <2>3
<1>13. IsString(added, p)
  <2>1. Len(added) = w + 2 /\ added[1] = "[S]" /\ added[w + 2] = "[/S]"
    BY <1>8, <1>11 DEF IsMarked
  <2>2. \A j \in 1 .. w : added[j + 1] = p[j]
    BY <1>8, <1>11 DEF IsMarked
  <2>3. w + 2 >= w + 1
    OBVIOUS
  <2>4. IsBehind(added, p)
    BY <1>11, <2>1, <2>2, <2>3 DEF IsBehind
  <2>5. QED
    BY <1>6, <1>11, <2>1, <2>4 DEF IsString
<1>14. PICK r : r = printed'
  OBVIOUS
<1>15. printed \in Seq(T) /\ added \in Seq(T) /\ r = printed \o added
  BY <1>1, <1>2, <1>10, <1>14 DEF LineOK, IsGrowth
<1>16. StringsOK(r) /\ (Len(added) = Len(p) + 2 => AllClosed(r))
  BY <1>3, <1>5, <1>12, <1>13, <1>15, StringAdded
<1>17. Len(added) = Len(p) + 2
  BY <1>8 DEF IsMarked
<1>18. QED
  BY <1>14, <1>16, <1>17

LEMMA StringOpens ==
  ASSUME LineOK, AllClosed(printed), i \in 1 .. Len(line), line[i] = Quote,
         StringEnds = {}, Opens("[S]")
  PROVE  StringsOK(printed') /\ Shown'
<1>1. PICK A : A = Alphabet[language]
  OBVIOUS
<1>2. PICK T : T = A \cup Markers
  OBVIOUS
<1>3. A \subseteq T /\ "[S]" \notin A /\ "[/S]" \notin A /\ "[S]" \in T
  <2>1. A \cap Markers = {}
    BY <1>1, LenProperties, PartOfLine DEF LineOK
  <2>2. "[S]" \in Markers /\ "[/S]" \in Markers
    BY MarkersAre, ClosingIs
  <2>3. QED
    BY <1>2, <2>1, <2>2
<1>4. PICK n \in Nat : n = Len(line)
  BY LenProperties DEF LineOK
<1>5. PICK p : p = Rest
  OBVIOUS
<1>6. n \in i .. Len(line) /\ p = SubSeq(line, i, n)
  BY <1>4, <1>5 DEF Rest
<1>7. p \in Seq(A) /\ p \in Seq(T)
  BY <1>1, <1>2, <1>6, PartOfLine
<1>8. Quotes(p) = 1
  <2>1. Quotes(SubSeq(line, i, n)) = IF n \in StringEnds THEN 2 ELSE 1
    BY <1>6, QuotesOfString
  <2>2. QED
    BY <1>6, <2>1
<1>9. PICK w \in Nat : w = Len(p)
  BY <1>7, LenProperties
<1>10. w >= 1
  <2>1. \A j \in i .. n : line[j] \in A
    <3>1. \A j \in i .. n : j \in 1 .. Len(line)
      BY <1>4
    <3>2. QED
      BY <1>1, <3>1, ElementOfSeq DEF LineOK
  <2>2. i \in Int /\ n \in Int /\ i <= n
    BY <1>4
  <2>3. Len(p) = IF i <= n THEN n - i + 1 ELSE 0
    BY <1>6, <2>1, <2>2, SubSeqProperties
  <2>4. QED
    BY <1>9, <2>2, <2>3
<1>11. PICK a : a = <<"[S]">>
  OBVIOUS
<1>12. a \in Seq(T) /\ Len(a) = 1 /\ a[1] = "[S]"
  BY <1>3, <1>11
<1>13. PICK added : added = a \o p
  OBVIOUS
<1>14. IsGrowth(added, Len(line))
  BY <1>5, <1>11, <1>13, OpensGrows
<1>15. /\ Len(added) = 1 + w
       /\ \A j \in 1 .. 1 + w : added[j] = IF j <= 1 THEN a[j] ELSE p[j - 1]
  <2>1. a \in Seq(T) /\ p \in Seq(T)
    BY <1>7, <1>12
  <2>2. /\ Len(added) = Len(a) + Len(p)
        /\ \A j \in 1 .. Len(a) + Len(p) : added[j] = IF j <= Len(a) THEN a[j] ELSE p[j - Len(a)]
    BY <1>13, <2>1, ConcatProperties
  <2>3. QED
    BY <1>9, <1>12, <2>2
<1>16. IsString(added, p)
  <2>1. added[1] = "[S]"
    <3>1. 1 \in 1 .. 1 + w
      OBVIOUS
    <3>2. QED
      BY <1>12, <1>15, <3>1
  <2>2. ASSUME NEW j \in 1 .. w PROVE added[j + 1] = p[j]
    <3>1. j + 1 \in 1 .. 1 + w /\ ~(j + 1 <= 1) /\ (j + 1) - 1 = j
      OBVIOUS
    <3>2. QED
      BY <1>15, <3>1
  <2>3. 1 + w >= w + 1 /\ 1 + w = w + 1
    OBVIOUS
  <2>4. IsBehind(added, p)
    BY <1>9, <1>15, <2>2, <2>3 DEF IsBehind
  <2>5. QED
    BY <1>8, <1>9, <1>15, <2>1, <2>3, <2>4 DEF IsString
<1>17. PICK r : r = printed'
  OBVIOUS
<1>18. printed \in Seq(T) /\ added \in Seq(T) /\ r = printed \o added
  BY <1>1, <1>2, <1>14, <1>17 DEF LineOK, IsGrowth
<1>19. StringsOK(r)
  <2>1. Len(p) >= 1
    BY <1>9, <1>10
  <2>2. QED
    BY <1>3, <1>7, <1>16, <1>18, <2>1, StringAdded
<1>20. Shown'
  <2>1. line' = line /\ i' \in {n + 1, n + 2}
    BY <1>4 DEF Opens, Show
  <2>2. QED
    BY <1>4, <2>1 DEF Shown
<1>21. QED
  BY <1>17, <1>19, <1>20

LEMMA StringsStep ==
  ASSUME LineOK, AllClosed(printed), HighlighterNext
  PROVE  StringsOK(printed') /\ (Shown' \/ AllClosed(printed'))
<1>1. i \in 1 .. Len(line)
  BY Turns
<1>2. CASE StringTurn
  <2>1. CASE /\ Min(StringEnds) \in StringEnds /\ Min(StringEnds) \in i .. Len(line)
             /\ Closes("[S]", Min(StringEnds))
    BY <1>1, <1>2, <2>1, StringCloses DEF StringTurn
  <2>2. CASE StringEnds = {} /\ Opens("[S]")
    BY <1>1, <1>2, <2>2, StringOpens DEF StringTurn
  <2>3. QED
    BY <1>2, <2>1, <2>2 DEF StringTurn
<1>3. CASE \E added, last : IsGrowth(added, last) /\ Lacks(added, "[S]")
  <2>1. PICK added, last : IsGrowth(added, last) /\ Lacks(added, "[S]")
    BY <1>3
  <2>2. PICK T : T = Alphabet[language] \cup Markers
    OBVIOUS
  <2>3. PICK r : r = printed'
    OBVIOUS
  <2>4. printed \in Seq(T) /\ added \in Seq(T) /\ r = printed \o added
    BY <2>1, <2>2, <2>3 DEF LineOK, IsGrowth
  <2>5. \A j \in 1 .. Len(added) : added[j] = "[S]" => Closed(r, Len(printed) + j)
    BY <2>1 DEF Lacks
  <2>6. AllClosed(r)
    BY <2>4, <2>5, StringsOn
  <2>7. StringsOK(r)
    BY <2>6 DEF AllClosed, StringsOK
  <2>8. QED
    BY <2>3, <2>6, <2>7
<1>4. QED
  BY <1>2, <1>3, QuietTurn

\* What is kept of the strings is what the property says.
LEMMA StringsRight == StringsOK(printed) => StringsEndRight
<1>1. ASSUME StringsOK(printed), NEW k \in 1 .. Len(printed), printed[k] = "[S]",
             NEW ends, ends = {j \in k .. Len(printed) : printed[j] = "[/S]"}
      PROVE  IF ends = {} THEN Quotes(SubSeq(printed, k + 1, Len(printed))) = 1
             ELSE Quotes(SubSeq(printed, k + 1, Min(ends) - 1)) = 2
  <2>1. CASE LeftOpen(printed, k)
    <3>1. ends = {}
      BY <1>1, <2>1 DEF LeftOpen
    <3>2. QED
      BY <2>1, <3>1 DEF LeftOpen
  <2>2. CASE Closed(printed, k)
    <3>1. PICK e \in Nat : ClosedAt(printed, k, e)
      BY <2>2 DEF Closed
    <3>2. k \in Nat
      OBVIOUS
    <3>3. ends \in SUBSET Nat
      BY <1>1, <3>2
    <3>4. e \in ends
      BY <1>1, <3>1 DEF ClosedAt
    <3>5. ASSUME NEW x \in ends PROVE e <= x
      <4>1. x \in k .. Len(printed) /\ printed[x] = "[/S]" /\ x \in Nat
        BY <1>1, <3>3
      <4>2. x \notin k .. e - 1
        BY <3>1, <4>1 DEF ClosedAt
      <4>3. QED
        BY <3>2, <4>1, <4>2
    <3>6. Min(ends) = e
      BY <3>3, <3>4, <3>5, MinIs
    <3>7. QED
      BY <3>1, <3>4, <3>6 DEF ClosedAt
  <2>3. QED
    BY <1>1, <2>1, <2>2 DEF StringsOK
<1>2. QED
  BY <1>1 DEF StringsEndRight

StringInv == LineInv /\ StringsOK(printed) /\ (Shown \/ AllClosed(printed))

LEMMA StringInvStep == StringInv /\ [Next]_vars => StringInv'
<1> SUFFICES ASSUME StringInv, [Next]_vars PROVE StringInv'
  OBVIOUS
<1>1. LineInv /\ LineOK /\ StringsOK(printed) /\ (Shown \/ AllClosed(printed))
  BY DEF StringInv, LineInv
<1>2. LineInv'
  BY <1>1, LineInvStep
<1>3. CASE HighlighterNext
  <2>1. ~Shown
    <3>1. i \in 1 .. Len(line) /\ Len(line) \in Nat
      BY <1>1, <1>3, Turns, LenProperties DEF LineOK
    <3>2. QED
      BY <3>1 DEF Shown
  <2>2. StringsOK(printed') /\ (Shown' \/ AllClosed(printed'))
    BY <1>1, <1>3, <2>1, StringsStep
  <2>3. QED
    BY <1>2, <2>2 DEF StringInv
<1>4. CASE UNCHANGED h_vars
  <2>1. printed' = printed /\ (Shown' <=> Shown)
    BY <1>4 DEF h_vars, Shown
  <2>2. QED
    BY <1>1, <1>2, <2>1 DEF StringInv
<1>5. QED
  BY <1>3, <1>4 DEF Next, vars, h_vars

(* Whatever is in the line: a string is closed behind its second quote that no
   backslash takes away, and left open only when it has no such quote. *)
THEOREM StringsEnd == Spec => []StringsEndRight
<1>1. Init => StringInv
  <2> SUFFICES ASSUME Init PROVE StringInv
    OBVIOUS
  <2>1. LineInv
    BY InitLine
  <2>2. printed = <<>>
    BY DEF Init, HighlighterInit, NoHighlighter
  <2>3. 1 .. Len(printed) = {}
    BY <2>2
  <2>4. StringsOK(printed) /\ AllClosed(printed)
    BY <2>3 DEF StringsOK, AllClosed
  <2>5. QED
    BY <2>1, <2>4 DEF StringInv
<1>2. StringInv => StringsEndRight
  BY StringsRight DEF StringInv
<1>3. QED
  BY <1>1, <1>2, StringInvStep, PTL DEF Spec

-----------------------------------------------------------------------------
(* The line on the screen. *)

LEMMA ViewerSizes ==
  ShellWord \in Nat /\ ShellWord >= 1 /\ LineLimit \in Nat /\ LineLimit >= 1
BY ViewerAssumption

LEMMA ViewerSigns ==
  /\ NUL \notin Bytes /\ Colour \notin Bytes /\ Reset \notin Bytes
  /\ Newline \in Bytes /\ Newline \notin WordChars /\ Newline # "."
BY ViewerAssumption

Colours == {Colour, Reset}
OnScreen == Bytes \cup Colours

\* What is on the screen is the text t and colours.
IsPlain(s, t) == s \in Seq(OnScreen) /\ t \in Seq(Bytes) /\ Without(s, Colours) = t

LEMMA PlainItself == ASSUME NEW t \in Seq(Bytes) PROVE IsPlain(t, t)
<1>1. t \in Seq(OnScreen)
  <2>1. Bytes \subseteq OnScreen
    BY DEF OnScreen
  <2>2. QED
    BY <2>1, SeqMonotonic
<1>2. Bytes \cap Colours = {}
  BY ViewerSigns DEF Colours
<1>3. Without(t, Colours) = t
  BY <1>2, WithoutForeign
<1>4. QED
  BY <1>1, <1>3 DEF IsPlain

LEMMA PlainColoured == ASSUME NEW t \in Seq(Bytes) PROVE IsPlain(Coloured(t), t)
<1>1. PICK M : M = Colours
  OBVIOUS
<1>2. Bytes \cap M = {} /\ Colour \in M /\ Reset \in M
  BY <1>1, ViewerSigns DEF Colours
<1>3. IsMade(<<Colour>> \o t \o <<Reset>>, Bytes, M, t, <<Colour, Reset>>)
  BY <1>2, WithoutMarks
<1>4. QED
  BY <1>1, <1>3 DEF IsMade, IsPlain, Coloured, OnScreen

LEMMA PlainJoined ==
  ASSUME NEW s, NEW t, NEW u, NEW v, IsPlain(s, t), IsPlain(u, v)
  PROVE  IsPlain(s \o u, t \o v)
<1>1. s \in Seq(OnScreen) /\ u \in Seq(OnScreen)
  BY DEF IsPlain
<1>2. t \in Seq(Bytes) /\ v \in Seq(Bytes)
  BY DEF IsPlain
<1>3. s \o u \in Seq(OnScreen)
  BY <1>1, ConcatProperties
<1>4. t \o v \in Seq(Bytes)
  BY <1>2, ConcatProperties
<1>5. Without(s \o u, Colours) = Without(s, Colours) \o Without(u, Colours)
  BY <1>1, WithoutConcat
<1>6. QED
  BY <1>3, <1>4, <1>5 DEF IsPlain

\* A part of a text, of any length.
LEMMA Part ==
  ASSUME NEW S, NEW s \in Seq(S), NEW a \in 1 .. Len(s) + 1, NEW b \in 0 .. Len(s)
  PROVE  /\ SubSeq(s, a, b) \in Seq(S)
         /\ Len(SubSeq(s, a, b)) = IF a <= b THEN b - a + 1 ELSE 0
         /\ \A k \in 1 .. b - a + 1 : SubSeq(s, a, b)[k] = s[a + k - 1]
<1>1. Len(s) \in Nat
  BY LenProperties
<1>2. \A k \in a .. b : k \in 1 .. Len(s)
  BY <1>1
<1>3. \A k \in a .. b : s[k] \in S
  BY <1>2, ElementOfSeq
<1>4. a \in Int /\ b \in Int
  BY <1>1
<1>5. QED
  BY <1>3, <1>4, SubSeqProperties

LEMMA PlainComment ==
  ASSUME NEW t \in Seq(Bytes), NEW k \in 1 .. Len(t)
  PROVE  IsPlain(WithComment(t, k), t)
<1>1. PICK n \in Nat : n = Len(t)
  BY LenProperties
<1>2. PICK j : j = k - 1
  OBVIOUS
<1>3. j \in 0 .. n /\ j + 1 = k /\ k \in 1 .. n /\ 1 \in 1 .. n + 1 /\ n \in 0 .. n /\ k \in 1 .. n + 1
  BY <1>1, <1>2
<1>4. PICK p : p = SubSeq(t, 1, j)
  OBVIOUS
<1>5. PICK q : q = SubSeq(t, k, n)
  OBVIOUS
<1>6. p \in Seq(Bytes) /\ q \in Seq(Bytes)
  BY <1>1, <1>3, <1>4, <1>5, Part
<1>7. p \o q = t
  <2>1. 1 \in 1 .. Len(t) + 1 /\ j \in 1 - 1 .. Len(t) /\ n \in j .. Len(t)
    BY <1>1, <1>3
  <2>2. SubSeq(t, 1, j) \o SubSeq(t, j + 1, n) = SubSeq(t, 1, n)
    BY <2>1, ConcatAdjacentSubSeq
  <2>3. SubSeq(t, 1, n) = t
    BY <1>1, SubSeqFull
  <2>4. QED
    BY <1>3, <1>4, <1>5, <2>2, <2>3
<1>8. IsPlain(p, p) /\ IsPlain(Coloured(q), q)
  BY <1>6, PlainItself, PlainColoured
<1>9. IsPlain(p \o Coloured(q), p \o q)
  BY <1>8, PlainJoined
<1>10. QED
  BY <1>1, <1>2, <1>4, <1>5, <1>7, <1>9 DEF WithComment

LEMMA PlainWord == ASSUME NEW t \in Seq(Bytes) PROVE IsPlain(highlight_word(t), t)
BY PlainItself, PlainColoured DEF highlight_word

\* What the loop over the words of a line has shown and holds.
Scans == [shown : Seq(OnScreen), word : Seq(Bytes)]
NoScan == [shown |-> <<>>, word |-> <<>>]

LEMMA WordStepIs ==
  ASSUME NEW a \in Scans, NEW c \in Bytes
  PROVE  /\ WordStep(a, c) \in Scans
         /\ InWord(c) =>
              /\ WordStep(a, c).shown = a.shown
              /\ WordStep(a, c).word =
                   IF Len(a.word) < ShellWord THEN Append(a.word, c) ELSE a.word
         /\ ~InWord(c) =>
              /\ WordStep(a, c).shown = a.shown \o highlight_word(a.word) \o <<c>>
              /\ WordStep(a, c).word = <<>>
<1>1. a.word \in Seq(Bytes) /\ a.shown \in Seq(OnScreen) /\ a = [shown |-> a.shown, word |-> a.word]
  BY DEF Scans
<1>2. CASE InWord(c)
  <2>1. PICK w : w = IF Len(a.word) < ShellWord THEN Append(a.word, c) ELSE a.word
    OBVIOUS
  <2>2. w \in Seq(Bytes)
    BY <1>1, <2>1, AppendProperties
  <2>3. WordStep(a, c) = [a EXCEPT !.word = w]
    BY <1>2, <2>1 DEF WordStep
  <2>4. [a EXCEPT !.word = w] = [shown |-> a.shown, word |-> w]
    BY <1>1
  <2>5. QED
    BY <1>1, <1>2, <2>1, <2>2, <2>3, <2>4 DEF Scans
<1>3. CASE ~InWord(c)
  <2>1. PICK h : h = highlight_word(a.word)
    OBVIOUS
  <2>2. PICK b : b = <<c>>
    OBVIOUS
  <2>3. h \in Seq(OnScreen)
    BY <1>1, <2>1, PlainWord DEF IsPlain
  <2>4. b \in Seq(OnScreen)
    BY <2>2 DEF OnScreen
  <2>5. PICK s : s = a.shown
    OBVIOUS
  <2>6. (s \o h) \o b \in Seq(OnScreen)
    <3>1. s \in Seq(OnScreen)
      BY <1>1, <2>5
    <3>2. s \o h \in Seq(OnScreen)
      BY <2>3, <3>1, ConcatProperties
    <3>3. QED
      BY <2>4, <3>2, ConcatProperties
  <2>7. WordStep(a, c) = [shown |-> (s \o h) \o b, word |-> <<>>]
    BY <1>3, <2>1, <2>2, <2>5 DEF WordStep
  <2>8. <<>> \in Seq(Bytes)
    BY EmptySeq
  <2>9. QED
    BY <1>3, <2>1, <2>2, <2>5, <2>6, <2>7, <2>8 DEF Scans
<1>4. QED
  BY <1>2, <1>3

IsScan(f, t) ==
  /\ f[0] = NoScan /\ ScanWords(t) = f[Len(t)]
  /\ \A k \in 0 .. Len(t) : f[k] \in Scans
  /\ \A k \in 1 .. Len(t) : f[k] = WordStep(f[k - 1], t[k])

LEMMA ScanSteps ==
  ASSUME NEW t \in Seq(Bytes)
  PROVE  \E f : IsScan(f, t)
<1> DEFINE n == Len(t)
<1> DEFINE Scanning(f) ==
      f = [k \in 0 .. n |-> IF k = 0 THEN NoScan ELSE WordStep(f[k - 1], t[k])]
<1> DEFINE step == [k \in 1 .. n |-> [a \in Scans |-> WordStep(a, t[k])]]
<1>1. n \in Nat /\ \A k \in 1 .. n : t[k] \in Bytes
  BY LenProperties, ElementOfSeq
<1> HIDE DEF n
<1>2. step \in [1 .. n -> [Scans -> Scans]]
  <2>1. \A k \in 1 .. n : \A a \in Scans : WordStep(a, t[k]) \in Scans
    BY <1>1, WordStepIs
  <2>2. QED
    BY <2>1
<1>3. \E f : Scanning(f)
  <2>1. PICK f \in [0 .. n -> Scans] : IsRecursion(f, n, NoScan, step)
    <3>1. NoScan \in Scans
      <4>1. <<>> \in Seq(OnScreen) /\ <<>> \in Seq(Bytes)
        BY EmptySeq
      <4>2. QED
        BY <4>1 DEF NoScan, Scans
    <3> HIDE DEF step
    <3>2. QED
      BY <1>1, <1>2, <3>1, Recursion
  <2>2. \A k \in 0 .. n : f[k] = IF k = 0 THEN NoScan ELSE WordStep(f[k - 1], t[k])
    <3> TAKE k \in 0 .. n
    <3>1. CASE k = 0
      BY <2>1, <3>1 DEF IsRecursion
    <3>2. CASE k # 0
      <4>1. k \in 1 .. n /\ f[k - 1] \in Scans /\ f[k] = step[k][f[k - 1]]
        <5>1. k \in 1 .. n /\ k - 1 \in 0 .. n
          BY <1>1, <3>2
        <5> HIDE DEF step
        <5>2. QED
          BY <2>1, <5>1 DEF IsRecursion
      <4>2. QED
        BY <3>2, <4>1
    <3>3. QED
      BY <3>1, <3>2
  <2>3. Scanning(f)
    BY <2>1, <2>2
  <2> HIDE DEF Scanning
  <2>4. QED
    BY <2>3
<1>4. ScanWords(t) = (CHOOSE f : Scanning(f))[n]
  BY DEF ScanWords, NoScan, n
<1> DEFINE f == CHOOSE f : Scanning(f)
<1>5. Scanning(f)
  <2> HIDE DEF Scanning
  <2>1. QED
    BY <1>3
<1> HIDE DEF f
<1>6. f[0] = NoScan /\ \A k \in 1 .. n : f[k] = WordStep(f[k - 1], t[k])
  <2>1. \A k \in 0 .. n : f[k] = IF k = 0 THEN NoScan ELSE WordStep(f[k - 1], t[k])
    BY <1>5
  <2>2. 0 \in 0 .. n /\ \A k \in 1 .. n : k \in 0 .. n /\ k # 0
    BY <1>1
  <2>3. QED
    BY <2>1, <2>2
<1>7. \A k \in 0 .. n : f[k] \in Scans
  <2>1. f[0] \in Scans
    <3>1. <<>> \in Seq(OnScreen) /\ <<>> \in Seq(Bytes)
      BY EmptySeq
    <3>2. QED
      BY <1>6, <3>1 DEF NoScan, Scans
  <2>2. \A k \in 0 .. n - 1 : f[k] \in Scans => f[k + 1] \in Scans
    <3> TAKE k \in 0 .. n - 1
    <3>1. k + 1 \in 1 .. n /\ (k + 1) - 1 = k
      BY <1>1
    <3>2. f[k + 1] = WordStep(f[k], t[k + 1]) /\ t[k + 1] \in Bytes
      BY <1>1, <1>6, <3>1
    <3>3. QED
      BY <3>2, WordStepIs
  <2>3. QED
    BY <1>1, <2>1, <2>2, StaysIn
<1>8. IsScan(f, t)
  BY <1>4, <1>6, <1>7 DEF IsScan, f, n
<1>9. QED
  BY <1>8

\* The first k characters are shown, or held and parts of a word.
Scanned(f, t, k) ==
  /\ \E u : IsPlain(f[k].shown, u) /\ u \o f[k].word = SubSeq(t, 1, k)
  /\ Len(f[k].word) <= k
  /\ \A j \in k - Len(f[k].word) + 1 .. k : InWord(t[j])

LEMMA ScannedStep ==
  ASSUME NEW t \in Seq(Bytes), ~LongWord(t), NEW f, IsScan(f, t),
         NEW k \in 0 .. Len(t) - 1, Scanned(f, t, k), Len(f[k].word) <= ShellWord
  PROVE  Scanned(f, t, k + 1) /\ Len(f[k + 1].word) <= ShellWord
<1>1. PICK n \in Nat : n = Len(t)
  BY LenProperties
<1>2. PICK l : l = k + 1
  OBVIOUS
<1>3. l \in 1 .. n /\ l - 1 = k /\ k \in Nat /\ l \in Nat /\ k \in 0 .. n
  BY <1>1, <1>2
<1>4. PICK a : a = f[k]
  OBVIOUS
<1>5. PICK c : c = t[l]
  OBVIOUS
<1>6. a \in Scans /\ c \in Bytes /\ f[l] = WordStep(a, c)
  <2>1. t[l] \in Bytes
    BY <1>1, <1>3, ElementOfSeq
  <2>2. QED
    BY <1>1, <1>3, <1>4, <1>5, <2>1 DEF IsScan
<1>7. PICK held : held = a.word
  OBVIOUS
<1>8. held \in Seq(Bytes)
  BY <1>6, <1>7 DEF Scans
<1>9. PICK w \in Nat : w = Len(held)
  BY <1>8, LenProperties
<1>10. PICK u : IsPlain(a.shown, u) /\ u \o held = SubSeq(t, 1, k)
  BY <1>4, <1>7 DEF Scanned
<1>11. w <= k /\ w <= ShellWord /\ \A j \in k - w + 1 .. k : InWord(t[j])
  BY <1>4, <1>7, <1>9 DEF Scanned
<1>12. SubSeq(t, 1, l) = Append(SubSeq(t, 1, k), c)
  BY <1>2, <1>5, OneMore
<1>13. u \in Seq(Bytes)
  BY <1>10 DEF IsPlain
<1>14. u \o held \in Seq(Bytes)
  BY <1>8, <1>13, ConcatProperties
<1>15. PICK b : b = <<c>>
  OBVIOUS
<1>16. b \in Seq(Bytes)
  BY <1>6, <1>15
<1>17. SubSeq(t, 1, l) = (u \o held) \o b
  <2>1. Append(u \o held, c) = (u \o held) \o <<c>>
    BY <1>6, <1>14, AppendIsConcat
  <2>2. QED
    BY <1>10, <1>12, <1>15, <2>1
<1>18. CASE InWord(c)
  <2>1. w < ShellWord
    <3>1. SUFFICES ASSUME w = ShellWord PROVE FALSE
      BY <1>9, <1>11, ViewerSizes
    <3>2. ShellWord \in Nat
      BY ViewerSizes
    <3>3. PICK d : d = l - ShellWord
      OBVIOUS
    <3>4. d \in 1 .. n - ShellWord /\ d + ShellWord = l
      BY <1>3, <1>11, <3>1, <3>2, <3>3
    <3>5. ASSUME NEW j \in d .. d + ShellWord PROVE InWord(t[j])
      <4>1. CASE j = l
        BY <1>5, <1>18, <4>1
      <4>2. CASE j # l
        <5>1. j \in k - w + 1 .. k
          BY <1>3, <3>1, <3>2, <3>3, <3>4, <4>2
        <5>2. QED
          BY <1>11, <5>1
      <4>3. QED
        BY <4>1, <4>2
    <3>6. LongWord(t)
      BY <1>1, <3>4, <3>5 DEF LongWord
    <3>7. QED
      BY <3>6
  <2>2. PICK next : next = Append(held, c)
    OBVIOUS
  <2>3. f[l].shown = a.shown /\ f[l].word = next
    <3>1. /\ WordStep(a, c).shown = a.shown
          /\ WordStep(a, c).word =
               IF Len(a.word) < ShellWord THEN Append(a.word, c) ELSE a.word
      BY <1>6, <1>18, WordStepIs
    <3>2. QED
      BY <1>6, <1>7, <1>9, <2>1, <2>2, <3>1
  <2>4. next = held \o b /\ Len(next) = w + 1
    BY <1>6, <1>8, <1>9, <1>15, <2>2, AppendIsConcat, AppendProperties
  <2>5. u \o next = SubSeq(t, 1, l)
    <3>1. (u \o held) \o b = u \o (held \o b)
      <4>1. u \in Seq(Bytes) /\ held \in Seq(Bytes) /\ b \in Seq(Bytes)
        BY <1>8, <1>13, <1>16
      <4>2. QED
        BY <4>1, ConcatAssociative
    <3>2. QED
      BY <1>17, <2>4, <3>1
  <2>6. w + 1 <= l /\ w + 1 <= ShellWord /\ l - (w + 1) + 1 = k - w + 1
    BY <1>3, <1>11, <2>1, ViewerSizes
  <2>7. ASSUME NEW j \in k - w + 1 .. l PROVE InWord(t[j])
    <3>1. CASE j = l
      BY <1>5, <1>18, <3>1
    <3>2. CASE j # l
      <4>1. j \in k - w + 1 .. k
        BY <1>3, <3>2
      <4>2. QED
        BY <1>11, <4>1
    <3>3. QED
      BY <3>1, <3>2
  <2>8. Scanned(f, t, l)
    BY <1>10, <2>3, <2>4, <2>5, <2>6, <2>7 DEF Scanned
  <2>9. Len(f[l].word) <= ShellWord
    BY <2>3, <2>4, <2>6
  <2>10. QED
    BY <1>2, <2>8, <2>9
<1>19. CASE ~InWord(c)
  <2>1. PICK h : h = highlight_word(held)
    OBVIOUS
  <2>2. f[l].shown = a.shown \o h \o b /\ f[l].word = <<>>
    <3>1. /\ WordStep(a, c).shown = a.shown \o highlight_word(a.word) \o <<c>>
          /\ WordStep(a, c).word = <<>>
      BY <1>6, <1>19, WordStepIs
    <3>2. QED
      BY <1>6, <1>7, <1>15, <2>1, <3>1
  <2>3. IsPlain(h, held) /\ IsPlain(b, b)
    BY <1>8, <1>16, <2>1, PlainWord, PlainItself
  <2>4. IsPlain(a.shown \o h, u \o held)
    BY <1>10, <2>3, PlainJoined
  <2>5. IsPlain(a.shown \o h \o b, u \o held \o b)
    BY <2>3, <2>4, PlainJoined
  <2>6. PICK v : v = u \o held \o b
    OBVIOUS
  <2>7. v \in Seq(Bytes) /\ v \o <<>> = v
    <3>1. v \in Seq(Bytes)
      BY <2>5, <2>6 DEF IsPlain
    <3>2. QED
      BY <3>1, ConcatEmptySeq
  <2>8. IsPlain(f[l].shown, v) /\ v \o f[l].word = SubSeq(t, 1, l)
    BY <1>17, <2>2, <2>5, <2>6, <2>7
  <2>9. Len(f[l].word) = 0
    BY <2>2
  <2>10. 0 <= l /\ l - 0 + 1 .. l = {} /\ 0 <= ShellWord
    BY <1>3, ViewerSizes
  <2>11. Scanned(f, t, l)
    BY <2>8, <2>9, <2>10 DEF Scanned
  <2>12. QED
    BY <1>2, <2>9, <2>10, <2>11
<1>20. QED
  BY <1>18, <1>19

LEMMA PlainWords ==
  ASSUME NEW t \in Seq(Bytes), ~LongWord(t)
  PROVE  IsPlain(WordByWord(t), t)
<1>1. PICK n \in Nat : n = Len(t)
  BY LenProperties
<1>2. PICK f : IsScan(f, t)
  BY ScanSteps
<1> DEFINE P == {k \in 0 .. n : Scanned(f, t, k) /\ Len(f[k].word) <= ShellWord}
<1>3. 0 \in P
  <2>1. f[0].shown = <<>> /\ f[0].word = <<>>
    BY <1>2 DEF IsScan, NoScan
  <2>2. IsPlain(<<>>, <<>>)
    BY EmptySeq, PlainItself
  <2>3. <<>> \o <<>> = SubSeq(t, 1, 0)
    <3>1. SubSeq(t, 1, 0) = <<>>
      BY SubSeqEmpty
    <3>2. <<>> \in Seq(Bytes)
      BY EmptySeq
    <3>3. <<>> \o <<>> = <<>>
      BY <3>2, ConcatEmptySeq
    <3>4. QED
      BY <3>1, <3>3
  <2>4. Len(f[0].word) = 0
    BY <2>1
  <2>5. 0 - 0 + 1 .. 0 = {} /\ 0 <= 0 /\ 0 <= ShellWord /\ 0 \in 0 .. n
    BY <1>1, ViewerSizes
  <2>6. Scanned(f, t, 0)
    BY <2>1, <2>2, <2>3, <2>4, <2>5 DEF Scanned
  <2>7. QED
    BY <2>4, <2>5, <2>6
<1>4. ASSUME NEW k \in 0 .. n - 1, k \in P PROVE k + 1 \in P
  <2>1. Scanned(f, t, k + 1) /\ Len(f[k + 1].word) <= ShellWord
    BY <1>1, <1>2, <1>4, ScannedStep
  <2>2. k + 1 \in 0 .. n
    OBVIOUS
  <2>3. QED
    BY <2>1, <2>2
<1>5. n \in P
  <2>1. P \in SUBSET (0 .. n)
    OBVIOUS
  <2> HIDE DEF P
  <2>2. P = 0 .. n
    BY <1>3, <1>4, <2>1, RangeInduction
  <2>3. QED
    BY <2>2
<1>6. PICK a : a = ScanWords(t)
  OBVIOUS
<1>7. a = f[n] /\ a \in Scans
  <2>1. n \in 0 .. Len(t)
    BY <1>1
  <2>2. QED
    BY <1>1, <1>2, <1>6, <2>1 DEF IsScan
<1>8. PICK u : IsPlain(a.shown, u) /\ u \o a.word = SubSeq(t, 1, n)
  BY <1>5, <1>7 DEF Scanned
<1>9. SubSeq(t, 1, n) = t
  BY <1>1, SubSeqFull
<1>10. IsPlain(highlight_word(a.word), a.word)
  BY <1>7, PlainWord DEF Scans
<1>11. IsPlain(a.shown \o highlight_word(a.word), u \o a.word)
  BY <1>8, <1>10, PlainJoined
<1>12. QED
  BY <1>6, <1>8, <1>9, <1>11 DEF WordByWord

\* Where a sign that is found begins.
LEMMA Found ==
  ASSUME NEW t \in Seq(Bytes), NEW E, E # {},
         \A k \in E : k \in 1 .. Len(t)
  PROVE  Min(E) \in 1 .. Len(t)
<1>1. E \in SUBSET Nat
  BY LenProperties
<1>2. QED
  BY <1>1, MinOfNaturals

LEMMA FoundIn ==
  ASSUME NEW t \in Seq(Bytes), NEW needle, Len(needle) \in {1, 2}
  PROVE  \A k \in Occurs(needle, t) : k \in 1 .. Len(t)
BY LenProperties DEF Occurs

\* display_line_with_highlighting adds nothing but colours, and drops nothing
\* where no word is too long.
LEMMA LineShown ==
  ASSUME NEW t \in Seq(Bytes), ~LongWord(t)
  PROVE  IsPlain(Displayed(t), t)
<1>1. IsPlain(Coloured(t), t) /\ IsPlain(WordByWord(t), t) /\ IsPlain(t, t)
  BY PlainColoured, PlainWords, PlainItself
<1>2. PICK slashes : slashes = Occurs(<<"/", "/">>, t)
  OBVIOUS
<1>3. PICK signs : signs = AsmComment(t)
  OBVIOUS
<1>4. ASSUME slashes # {} PROVE IsPlain(WithComment(t, Min(slashes)), t)
  <2>1. Len(<<"/", "/">>) = 2
    OBVIOUS
  <2>2. \A k \in slashes : k \in 1 .. Len(t)
    BY <1>2, <2>1, FoundIn
  <2>3. Min(slashes) \in 1 .. Len(t)
    BY <1>4, <2>2, Found
  <2>4. QED
    BY <2>3, PlainComment
<1>5. ASSUME signs # {} PROVE IsPlain(WithComment(t, Min(signs)), t)
  <2>1. \A c : \A k \in Occurs(<<c>>, t) : k \in 1 .. Len(t)
    BY FoundIn
  <2>2. \A k \in signs : k \in 1 .. Len(t)
    <3>1. \A k \in Occurs(<<"#">>, t) : k \in 1 .. Len(t)
      BY <2>1, Zenon
    <3>2. \A k \in Occurs(<<";">>, t) : k \in 1 .. Len(t)
      BY <2>1, Zenon
    <3>3. signs \in {Occurs(<<"#">>, t), Occurs(<<";">>, t)}
      BY <1>3 DEF AsmComment
    <3>4. QED
      BY <3>1, <3>2, <3>3
  <2>3. Min(signs) \in 1 .. Len(t)
    BY <1>5, <2>2, Found
  <2>4. QED
    BY <2>3, PlainComment
<1>6. PICK directive \in BOOLEAN : directive <=> Occurs(<<Directive>>, t) # {}
  OBVIOUS
<1>7. PICK block \in BOOLEAN :
        block <=> \/ ext \in {"c", "v"} /\ HasOne({<<"/", "*">>, <<"*", "/">>}, t)
                  \/ ext = "c" /\ HasOne({<<" ", "*", " ">>, <<Quote>>}, t)
  OBVIOUS
<1>8. Displayed(t) =
        CASE ext = "c" /\ Occurs(<<Directive>>, t) # {} -> Coloured(t)
          [] ext = "c" /\ Occurs(<<Directive>>, t) = {} /\ slashes # {} ->
               WithComment(t, Min(slashes))
          [] ext = "v" /\ slashes # {} -> WithComment(t, Min(slashes))
          [] ext = "s" /\ signs # {} -> WithComment(t, Min(signs))
          [] ext = "" -> t
          [] OTHER -> IF block THEN Coloured(t) ELSE WordByWord(t)
  BY <1>2, <1>3, <1>7 DEF Displayed
<1>9. QED
  BY <1>1, <1>4, <1>5, <1>8

-----------------------------------------------------------------------------
(* The loops over a file. *)

\* A part of a sequence and one element more.
LEMMA NextPart ==
  ASSUME NEW S, NEW s \in Seq(S), NEW a \in 1 .. Len(s), NEW b \in a .. Len(s)
  PROVE  SubSeq(s, a, b) = Append(SubSeq(s, a, b - 1), s[b])
<1>1. Len(s) \in Nat
  BY LenProperties
<1>2. PICK d \in Nat : d = b - 1
  BY <1>1
<1>3. b \in 1 .. Len(s) /\ d \in 0 .. Len(s) /\ a \in 1 .. Len(s) + 1
  BY <1>1, <1>2
<1>4. SubSeq(s, a, b) = SubSeq(s, a, b - 1) \o <<s[b]>>
  BY SubSeqRecursiveSecond
<1>5. SubSeq(s, a, d) \in Seq(S)
  BY <1>3, Part
<1>6. s[b] \in S
  BY <1>3, ElementOfSeq
<1>7. Append(SubSeq(s, a, d), s[b]) = SubSeq(s, a, d) \o <<s[b]>>
  BY <1>5, <1>6, AppendIsConcat
<1>8. QED
  BY <1>2, <1>4, <1>7

\* As far as the array holds the line that began behind byte s.
Held(s) == IF offset - s <= LineLimit THEN offset ELSE s + LineLimit

\* The line that began behind byte s has been read up to offset.
Reading(s) ==
  /\ s \in 0 .. offset /\ offset <= Len(file)
  /\ s = 0 \/ file[s] = Newline
  /\ \A j \in s + 1 .. offset : file[j] # Newline
  /\ text = SubSeq(file, s + 1, Held(s))

ViewOK ==
  /\ command \in {"none", "cat", "edit", "grep", "syntax"}
  /\ file \in Seq(Bytes) /\ offset \in 0 .. Len(file) + 1
  /\ command \in {"cat", "edit"} => offset <= Len(file)

LEMMA ByteIs ==
  ASSUME ViewOK, command # "none", offset < LastByte
  PROVE  /\ offset < Len(file) =>
              /\ file[offset + 1] \in Bytes /\ Byte = file[offset + 1]
              /\ EndsLine <=> file[offset + 1] = Newline
         /\ offset >= Len(file) =>
              offset = Len(file) /\ EndsLine /\ command \notin {"cat", "edit"}
<1>1. Len(file) \in Nat /\ file \in Seq(Bytes)
  BY LenProperties DEF ViewOK
<1>2. offset \in Nat
  BY <1>1 DEF ViewOK
<1>3. ASSUME offset < Len(file)
      PROVE  /\ file[offset + 1] \in Bytes /\ Byte = file[offset + 1]
             /\ EndsLine <=> file[offset + 1] = Newline
  <2>1. offset + 1 \in 1 .. Len(file)
    BY <1>1, <1>2, <1>3
  <2>2. file[offset + 1] \in Bytes
    BY <1>1, <2>1, ElementOfSeq
  <2>3. Byte = file[offset + 1] /\ Byte # NUL
    BY <1>3, <2>2, ViewerSigns DEF Byte
  <2>4. QED
    BY <2>2, <2>3 DEF EndsLine
<1>4. ASSUME offset >= Len(file)
      PROVE  offset = Len(file) /\ EndsLine /\ command \notin {"cat", "edit"}
  <2>1. command \notin {"cat", "edit"} /\ offset = Len(file)
    BY <1>1, <1>2, <1>4 DEF LastByte
  <2>2. Byte = NUL
    BY <1>1, <1>2, <1>4 DEF Byte
  <2>3. QED
    BY <2>1, <2>2 DEF EndsLine
<1>5. QED
  BY <1>3, <1>4

LEMMA HeldText ==
  ASSUME ViewOK, NEW s, Reading(s)
  PROVE  /\ text \in Seq(Bytes) /\ Len(text) = Held(s) - s
         /\ Held(s) \in s .. offset
         /\ \A k \in 1 .. Len(text) : text[k] = file[s + k]
<1>1. Len(file) \in Nat /\ file \in Seq(Bytes) /\ offset \in Nat
  BY LenProperties DEF ViewOK
<1>2. s \in Nat /\ s <= offset /\ offset <= Len(file)
  BY <1>1 DEF Reading
<1>3. PICK h \in Nat : h = Held(s) /\ s <= h /\ h <= offset
  BY <1>1, <1>2, ViewerSizes DEF Held
<1>4. PICK a \in Nat : a = s + 1
  BY <1>2
<1>5. a \in 1 .. Len(file) + 1 /\ h \in 0 .. Len(file)
  BY <1>1, <1>2, <1>3, <1>4
<1>6. text = SubSeq(file, a, h)
  BY <1>3, <1>4 DEF Reading
<1>7. /\ text \in Seq(Bytes)
      /\ Len(text) = IF a <= h THEN h - a + 1 ELSE 0
      /\ \A k \in 1 .. h - a + 1 : text[k] = file[a + k - 1]
  BY <1>1, <1>5, <1>6, Part
<1>8. Len(text) = h - s
  BY <1>2, <1>3, <1>4, <1>7
<1>9. \A k \in 1 .. h - s : text[k] = file[s + k]
  BY <1>2, <1>3, <1>4, <1>7
<1>10. QED
  BY <1>3, <1>7, <1>8, <1>9

\* A byte more is held while there is room for it.
LEMMA TakeReads ==
  ASSUME ViewOK, NEW s, Reading(s), take_byte
  PROVE  Reading(s)'
<1>1. Len(file) \in Nat /\ file \in Seq(Bytes) /\ offset \in Nat
  BY LenProperties DEF ViewOK
<1>2. s \in Nat /\ s <= offset /\ offset <= Len(file)
  BY <1>1 DEF Reading
<1>3. file' = file /\ offset' = offset + 1
  BY DEF take_byte
<1>4. offset < Len(file) /\ Byte = file[offset + 1] /\ file[offset + 1] # Newline
  BY <1>1, ByteIs DEF take_byte
<1>5. \A j \in s + 1 .. offset' : file[j] # Newline
  BY <1>1, <1>2, <1>3, <1>4 DEF Reading
<1>6. text' = SubSeq(file, s + 1, Held(s)')
  <2>1. Len(text) = Held(s) - s
    BY HeldText
  <2>2. CASE offset - s < LineLimit
    <3>1. Held(s) = offset /\ Held(s)' = offset + 1
      BY <1>1, <1>2, <1>3, <2>2, ViewerSizes DEF Held
    <3>2. LineHasRoom
      BY <2>1, <2>2, <3>1 DEF LineHasRoom
    <3>3. text' = Append(text, file[offset + 1])
      BY <1>4, <3>2 DEF take_byte
    <3>4. PICK a, b \in Nat : a = s + 1 /\ b = offset + 1 /\ b - 1 = offset
      BY <1>1, <1>2
    <3>5. a \in 1 .. Len(file) /\ b \in a .. Len(file)
      BY <1>1, <1>2, <1>4, <3>4
    <3>6. SubSeq(file, a, b) = Append(SubSeq(file, a, b - 1), file[b])
      BY <1>1, <3>5, NextPart
    <3>7. text = SubSeq(file, s + 1, offset)
      BY <3>1 DEF Reading
    <3>8. QED
      BY <3>1, <3>3, <3>4, <3>6, <3>7
  <2>3. CASE ~(offset - s < LineLimit)
    <3>1. Held(s) = s + LineLimit /\ Held(s)' = s + LineLimit
      BY <1>1, <1>2, <1>3, <2>3, ViewerSizes DEF Held
    <3>2. ~LineHasRoom
      BY <1>2, <2>1, <3>1, ViewerSizes DEF LineHasRoom
    <3>3. text' = text
      BY <3>2 DEF take_byte
    <3>4. QED
      BY <3>1, <3>3 DEF Reading
  <2>4. QED
    BY <2>2, <2>3
<1>7. s \in 0 .. offset' /\ offset' <= Len(file')
  BY <1>1, <1>2, <1>3, <1>4
<1>8. QED
  BY <1>3, <1>5, <1>6, <1>7 DEF Reading

\* Behind the newline a line begins that holds nothing yet.
LEMMA EndReads ==
  ASSUME ViewOK, end_line, offset < Len(file), NEW c, c = offset + 1
  PROVE  Reading(c)'
<1>1. Len(file) \in Nat /\ offset \in Nat
  BY LenProperties DEF ViewOK
<1>2. file' = file /\ offset' = c /\ text' = <<>>
  BY DEF end_line
<1>3. file[c] = Newline
  BY <1>1, ByteIs DEF end_line
<1>4. c \in Nat /\ c <= Len(file)
  BY <1>1
<1>5. Held(c)' = c
  BY <1>2, <1>4, ViewerSizes DEF Held
<1>6. SubSeq(file, c + 1, c) = <<>>
  BY <1>4, SubSeqEmpty
<1>7. c \in 0 .. offset' /\ \A j \in c + 1 .. offset' : file[j] # Newline
  BY <1>2, <1>4
<1>8. QED
  BY <1>2, <1>3, <1>4, <1>5, <1>6, <1>7 DEF Reading

\* What cat and edit show of the first k bytes.
Kept(k) == Without(SubSeq(Struck, 1, k), {NUL})

LEMMA StruckIs ==
  ASSUME ViewOK
  PROVE  /\ Struck \in Seq(Bytes \cup {NUL}) /\ Len(Struck) = Len(file)
         /\ \A k \in 1 .. Len(file) : Struck[k] = IF LeftOut(k) THEN NUL ELSE file[k]
<1>1. Len(file) \in Nat /\ file \in Seq(Bytes)
  BY LenProperties DEF ViewOK
<1>2. PICK n \in Nat : n = Len(file)
  BY <1>1
<1>3. \A k \in 1 .. n : file[k] \in Bytes
  BY <1>1, <1>2, ElementOfSeq
<1>4. Struck = [k \in 1 .. n |-> IF LeftOut(k) THEN NUL ELSE file[k]]
  BY <1>2 DEF Struck
<1>5. \A k \in 1 .. n : (IF LeftOut(k) THEN NUL ELSE file[k]) \in Bytes \cup {NUL}
  BY <1>3
<1>6. Struck \in Seq(Bytes \cup {NUL})
  <2>1. \A k \in 1 .. n : Struck[k] \in Bytes \cup {NUL}
    BY <1>4, <1>5
  <2>2. Struck \in [1 .. n -> Bytes \cup {NUL}]
    BY <1>4, <1>5
  <2>3. QED
    BY <2>2, SeqDef
<1>7. Len(Struck) = n
  <2>1. DOMAIN Struck = 1 .. n
    BY <1>4
  <2>2. Len(Struck) \in Nat /\ DOMAIN Struck = 1 .. Len(Struck)
    BY <1>6, LenProperties
  <2>3. QED
    BY <2>1, <2>2
<1>8. QED
  BY <1>2, <1>4, <1>6, <1>7

LEMMA KeptStep ==
  ASSUME ViewOK, NEW k \in 0 .. Len(file) - 1, NEW l, l = k + 1
  PROVE  Kept(l) = IF LeftOut(l) THEN Kept(k) ELSE Append(Kept(k), file[l])
<1>1. Len(file) \in Nat /\ file \in Seq(Bytes)
  BY LenProperties DEF ViewOK
<1>2. PICK s : s = Struck
  OBVIOUS
<1>3. PICK S : S = Bytes \cup {NUL}
  OBVIOUS
<1>4. s \in Seq(S) /\ k \in 0 .. Len(s) - 1
  BY <1>2, <1>3, StruckIs
<1>5. /\ SubSeq(s, 1, k) \in Seq(S) /\ s[l] \in S
      /\ SubSeq(s, 1, l) = Append(SubSeq(s, 1, k), s[l])
  BY <1>4, OneMore
<1>6. PICK u : u = SubSeq(s, 1, k)
  OBVIOUS
<1>7. PICK c : c = s[l]
  OBVIOUS
<1>8. u \in Seq(S) /\ c \in S
  BY <1>5, <1>6, <1>7
<1>9. Without(Append(u, c), {NUL}) =
        IF c \in {NUL} THEN Without(u, {NUL}) ELSE Append(Without(u, {NUL}), c)
  BY <1>8, WithoutAppend
<1>10. Kept(k) = Without(u, {NUL}) /\ Kept(l) = Without(Append(u, c), {NUL})
  BY <1>2, <1>5, <1>6, <1>7 DEF Kept
<1>11. l \in 1 .. Len(file) /\ file[l] \in Bytes
  BY <1>1, ElementOfSeq
<1>12. c = IF LeftOut(l) THEN NUL ELSE file[l]
  BY <1>2, <1>7, <1>11, StruckIs
<1>13. QED
  BY <1>9, <1>10, <1>11, <1>12, ViewerSigns

LEMMA KeptBytes == ASSUME ViewOK PROVE \A k \in 0 .. Len(file) : Kept(k) \in Seq(Bytes)
<1>1. Len(file) \in Nat /\ file \in Seq(Bytes)
  BY LenProperties DEF ViewOK
<1>2. PICK n \in Nat : n = Len(file)
  BY <1>1
<1>3. PICK f : f = [k \in 0 .. n |-> Kept(k)]
  OBVIOUS
<1>4. \A k \in 0 .. n : f[k] = Kept(k)
  BY <1>3
<1>5. f[0] \in Seq(Bytes)
  <2>1. SubSeq(Struck, 1, 0) = <<>>
    BY SubSeqEmpty
  <2>2. Kept(0) = <<>>
    BY <2>1, WithoutNothing DEF Kept
  <2>3. <<>> \in Seq(Bytes)
    BY EmptySeq
  <2>4. f[0] = Kept(0)
    BY <1>2, <1>4
  <2>5. QED
    BY <2>2, <2>3, <2>4
<1>6. ASSUME NEW k \in 0 .. n - 1, f[k] \in Seq(Bytes) PROVE f[k + 1] \in Seq(Bytes)
  <2>1. PICK l : l = k + 1
    OBVIOUS
  <2>2. l \in 1 .. n /\ l \in 0 .. n /\ k \in 0 .. n /\ k \in 0 .. Len(file) - 1
    BY <1>2, <2>1
  <2>3. file[l] \in Bytes
    BY <1>1, <1>2, <2>2, ElementOfSeq
  <2>4. Kept(l) = IF LeftOut(l) THEN Kept(k) ELSE Append(Kept(k), file[l])
    BY <2>1, <2>2, KeptStep
  <2>5. Kept(k) \in Seq(Bytes)
    BY <1>4, <1>6, <2>2
  <2>6. Append(Kept(k), file[l]) \in Seq(Bytes)
    BY <2>3, <2>5, AppendProperties
  <2>7. QED
    BY <1>4, <2>1, <2>2, <2>4, <2>5, <2>6
<1>7. \A k \in 0 .. n : f[k] \in Seq(Bytes)
  BY <1>2, <1>5, <1>6, StaysIn
<1>8. QED
  BY <1>2, <1>4, <1>7

LEMMA ColumnIs ==
  ASSUME ViewOK, NEW s \in Nat, NEW k \in Nat, s <= k, k < Len(file),
         s = 0 \/ file[s] = Newline,
         \A j \in s + 1 .. k : file[j] # Newline,
         NEW l, l = k + 1
  PROVE  Column(l) = l - s
<1>1. Len(file) \in Nat
  BY LenProperties DEF ViewOK
<1>2. PICK E : E = {0} \cup {j \in 1 .. l - 1 : file[j] = Newline}
  OBVIOUS
<1>3. s \in E /\ E \in SUBSET Nat
  BY <1>1, <1>2
<1>4. \A j \in E : j <= s
  BY <1>1, <1>2
<1>5. Max(E) = s
  BY <1>3, <1>4, MaxIs
<1>6. QED
  BY <1>2, <1>5 DEF Column

\* Of the bytes of a line, those that are held are the ones that are shown.
LEMMA KeptLine ==
  ASSUME ViewOK, NEW s, Reading(s)
  PROVE  Kept(offset) = Kept(s) \o text
<1>1. Len(file) \in Nat /\ file \in Seq(Bytes) /\ offset \in Nat
  BY LenProperties DEF ViewOK
<1>2. s \in Nat /\ s <= offset /\ offset <= Len(file)
  BY <1>1 DEF Reading
<1>3. PICK n \in Nat : n = offset - s
  BY <1>1, <1>2
<1>4. PICK a \in Nat : a = s + 1
  BY <1>2
<1> DEFINE h(d) == IF d <= LineLimit THEN s + d ELSE s + LineLimit
<1> DEFINE P == {d \in 0 .. n : Kept(s + d) = Kept(s) \o SubSeq(file, a, h(d))}
<1>5. Kept(s) \in Seq(Bytes)
  BY <1>1, <1>2, KeptBytes
<1>6. 0 \in P
  <2>1. h(0) = s /\ s + 0 = s
    BY <1>2, ViewerSizes
  <2>2. SubSeq(file, a, s) = <<>>
    BY <1>2, <1>4, SubSeqEmpty
  <2>3. Kept(s) \o <<>> = Kept(s)
    BY <1>5, ConcatEmptySeq
  <2>4. 0 \in 0 .. n
    BY <1>3
  <2>5. QED
    BY <2>1, <2>2, <2>3, <2>4
<1>7. ASSUME NEW d \in 0 .. n - 1, d \in P PROVE d + 1 \in P
  <2>1. PICK k, l \in Nat : k = s + d /\ l = k + 1
    BY <1>2, <1>3
  <2>2. s <= k /\ k < Len(file) /\ k + 1 <= offset /\ s + (d + 1) = l
    BY <1>1, <1>2, <1>3, <2>1
  <2>3. \A j \in s + 1 .. k : file[j] # Newline
    <3>1. \A j \in s + 1 .. k : j \in s + 1 .. offset
      BY <1>1, <1>2, <2>1, <2>2
    <3>2. QED
      BY <3>1 DEF Reading
  <2>4. file[l] # Newline
    <3>1. l \in s + 1 .. offset
      BY <1>1, <1>2, <2>1, <2>2
    <3>2. QED
      BY <3>1 DEF Reading
  <2>5. Column(l) = l - s
    <3>1. s = 0 \/ file[s] = Newline
      BY DEF Reading
    <3>2. QED
      BY <1>2, <2>1, <2>2, <2>3, <3>1, ColumnIs
  <2>6. l - s = d + 1
    BY <1>2, <1>3, <2>1
  <2>7. LeftOut(l) <=> d + 1 > LineLimit
    BY <2>4, <2>5, <2>6 DEF LeftOut
  <2>8. Kept(l) = IF LeftOut(l) THEN Kept(k) ELSE Append(Kept(k), file[l])
    <3>1. k \in 0 .. Len(file) - 1
      BY <1>1, <2>1, <2>2
    <3>2. QED
      BY <2>1, <3>1, KeptStep
  <2>9. Kept(k) = Kept(s) \o SubSeq(file, a, h(d))
    BY <1>7, <2>1
  <2>10. Kept(l) = Kept(s) \o SubSeq(file, a, h(d + 1))
    <3>1. CASE d + 1 > LineLimit
      <4>1. h(d) = s + LineLimit /\ h(d + 1) = s + LineLimit
        BY <1>3, <3>1, ViewerSizes
      <4>2. QED
        BY <2>7, <2>8, <2>9, <3>1, <4>1
    <3>2. CASE ~(d + 1 > LineLimit)
      <4>1. h(d) = k /\ h(d + 1) = l
        BY <1>2, <1>3, <2>1, <2>2, <3>2, ViewerSizes
      <4>2. a \in 1 .. Len(file) /\ l \in a .. Len(file) /\ l - 1 = k
        BY <1>1, <1>2, <1>4, <2>1, <2>2
      <4>3. SubSeq(file, a, l) = Append(SubSeq(file, a, k), file[l])
        BY <1>1, <4>2, NextPart
      <4>4. PICK p : p = SubSeq(file, a, k)
        OBVIOUS
      <4>5. p \in Seq(Bytes)
        <5>1. a \in 1 .. Len(file) + 1 /\ k \in 0 .. Len(file)
          BY <1>1, <2>1, <2>2, <4>2
        <5>2. QED
          BY <1>1, <4>4, <5>1, Part
      <4>6. file[l] \in Bytes
        <5>1. l \in 1 .. Len(file)
          BY <1>1, <2>1, <4>2
        <5>2. QED
          BY <1>1, <5>1, ElementOfSeq
      <4>7. Append(Kept(s) \o p, file[l]) = Kept(s) \o Append(p, file[l])
        <5>1. PICK w \in Seq(Bytes) : w = Kept(s)
          BY <1>5
        <5>2. PICK c \in Bytes : c = file[l]
          BY <4>6
        <5>3. w \in Seq(Bytes) /\ p \in Seq(Bytes) /\ c \in Bytes
          BY <4>5
        <5>5. Append(w \o p, c) = w \o Append(p, c)
          <6>1. <<c>> \in Seq(Bytes) /\ w \o p \in Seq(Bytes)
            BY <5>3, ConcatProperties
          <6>2. Append(w \o p, c) = (w \o p) \o <<c>> /\ Append(p, c) = p \o <<c>>
            BY <6>1, AppendIsConcat
          <6>3. (w \o p) \o <<c>> = w \o (p \o <<c>>)
            BY <6>1, ConcatAssociative
          <6>4. QED
            BY <6>2, <6>3
        <5>4. QED
          BY <5>1, <5>2, <5>5
      <4>8. Kept(l) = Append(Kept(s) \o p, file[l])
        BY <2>7, <2>8, <2>9, <3>2, <4>1, <4>4
      <4>9. QED
        BY <4>1, <4>3, <4>4, <4>7, <4>8
    <3>3. QED
      BY <3>1, <3>2
  <2>11. d + 1 \in 0 .. n
    BY <1>3
  <2>12. QED
    BY <2>2, <2>10, <2>11
<1>8. P = 0 .. n
  <2>1. P \in SUBSET (0 .. n)
    OBVIOUS
  <2> HIDE DEF P
  <2>2. QED
    BY <1>3, <1>6, <1>7, <2>1, RangeInduction
<1>9. n \in P
  <2> HIDE DEF P
  <2>1. n \in 0 .. n
    BY <1>3
  <2>2. QED
    BY <1>8, <2>1
<1>10. s + n = offset /\ h(n) = Held(s)
  BY <1>1, <1>2, <1>3 DEF Held
<1>11. QED
  BY <1>4, <1>9, <1>10 DEF Reading

LEMMA NoLongWord ==
  ASSUME ViewOK, NEW s, Reading(s), ~LongWord(file)
  PROVE  ~LongWord(text)
<1>1. SUFFICES ASSUME LongWord(text) PROVE FALSE
  OBVIOUS
<1>2. Len(file) \in Nat /\ offset \in Nat
  BY LenProperties DEF ViewOK
<1>3. s \in Nat /\ s <= offset /\ offset <= Len(file)
  BY <1>2 DEF Reading
<1>4. PICK n \in Nat : n = Len(text) /\ s + n <= Len(file)
  BY <1>2, <1>3, HeldText
<1>5. \A j \in 1 .. n : text[j] = file[s + j]
  BY <1>4, HeldText
<1>6. PICK k \in 1 .. n - ShellWord : \A j \in k .. k + ShellWord : InWord(text[j])
  BY <1>1, <1>4 DEF LongWord
<1>7. PICK l : l = s + k
  OBVIOUS
<1>8. l \in 1 .. Len(file) - ShellWord
  BY <1>2, <1>3, <1>4, <1>6, <1>7, ViewerSizes
<1>9. \A j \in l .. l + ShellWord : InWord(file[j])
  <2> TAKE j \in l .. l + ShellWord
  <2>1. PICK m \in Nat : m = j - s /\ s + m = j
    BY <1>3, <1>4, <1>6, <1>7, ViewerSizes
  <2>2. m \in k .. k + ShellWord /\ m \in 1 .. n
    BY <1>3, <1>4, <1>6, <1>7, <2>1, ViewerSizes
  <2>3. text[m] = file[j]
    BY <1>5, <2>1, <2>2
  <2>4. InWord(text[m])
    BY <1>6, <2>2
  <2>5. QED
    BY <2>3, <2>4
<1>10. QED
  BY <1>8, <1>9 DEF LongWord

\* What cat and edit have shown when they are at a line, and when they end
\* behind one that no newline ends.
ShowsLines ==
  \/ \E s \in Nat : Reading(s) /\ (~LongWord(file) => IsPlain(output, Kept(s)))
  \/ /\ offset = Len(file) /\ text = <<>> /\ LastNewline = <<Newline>>
     /\ ~LongWord(file) => IsPlain(output, Kept(offset) \o <<Newline>>)

LEMMA LineOutput ==
  ASSUME ViewOK, NEW s, Reading(s), ~LongWord(file), IsPlain(output, Kept(s))
  PROVE  IsPlain(output \o Displayed(text) \o <<Newline>>, Kept(offset) \o <<Newline>>)
<1>1. text \in Seq(Bytes)
  BY HeldText
<1>2. IsPlain(Displayed(text), text)
  BY <1>1, NoLongWord, LineShown
<1>3. <<Newline>> \in Seq(Bytes)
  BY ViewerSigns
<1>4. IsPlain(<<Newline>>, <<Newline>>)
  BY <1>3, PlainItself
<1>5. IsPlain(output \o Displayed(text), Kept(s) \o text)
  BY <1>2, PlainJoined
<1>6. Kept(s) \o text = Kept(offset)
  BY KeptLine
<1>7. IsPlain(output \o Displayed(text), Kept(offset))
  BY <1>5, <1>6
<1>8. QED
  BY <1>4, <1>7, PlainJoined

\* All of it depends on what stays the same.
LEMMA SameFile ==
  ASSUME command' = command, ext' = ext, file' = file
  PROVE  /\ \A s : Kept(s)' = Kept(s)
         /\ LongWord(file)' = LongWord(file) /\ LastNewline' = LastNewline
<1>1. Struck' = Struck
  BY DEF Struck, LeftOut, Column
<1>2. \A s : Kept(s)' = Kept(s)
  BY <1>1 DEF Kept
<1>3. LongWord(file)' = LongWord(file)
  BY DEF LongWord, InWord
<1>4. LastNewline' = LastNewline
  BY DEF LastNewline
<1>5. QED
  BY <1>2, <1>3, <1>4

LEMMA ShowsTake ==
  ASSUME ViewOK, command \in {"cat", "edit"}, ShowsLines, take_byte
  PROVE  ShowsLines'
<1>1. Len(file) \in Nat /\ offset \in Nat
  BY LenProperties DEF ViewOK
<1>2. offset < Len(file)
  BY DEF take_byte, LastByte
<1>3. PICK s \in Nat : Reading(s) /\ (~LongWord(file) => IsPlain(output, Kept(s)))
  BY <1>1, <1>2 DEF ShowsLines
<1>4. Reading(s)'
  BY <1>3, TakeReads
<1>5. command' = command /\ ext' = ext /\ file' = file /\ output' = output
  BY DEF take_byte
<1>6. Kept(s)' = Kept(s) /\ LongWord(file)' = LongWord(file)
  BY <1>5, SameFile
<1>7. (~LongWord(file) => IsPlain(output, Kept(s)))'
  BY <1>3, <1>5, <1>6 DEF IsPlain
<1>8. QED
  BY <1>4, <1>7 DEF ShowsLines

LEMMA ShowsEnd ==
  ASSUME ViewOK, command \in {"cat", "edit"}, ShowsLines, end_line
  PROVE  ShowsLines'
<1>1. Len(file) \in Nat /\ offset \in Nat
  BY LenProperties DEF ViewOK
<1>2. offset < Len(file)
  BY DEF end_line, LastByte
<1>3. PICK s \in Nat : Reading(s) /\ (~LongWord(file) => IsPlain(output, Kept(s)))
  BY <1>1, <1>2 DEF ShowsLines
<1>4. PICK c \in Nat : c = offset + 1
  BY <1>1
<1>5. Reading(c)'
  BY <1>2, <1>4, EndReads
<1>6. command' = command /\ ext' = ext /\ file' = file /\ output' = WithLine(text)
  BY DEF end_line
<1>7. Kept(c)' = Kept(c) /\ LongWord(file)' = LongWord(file)
  BY <1>6, SameFile
<1>8. file[c] = Newline
  BY <1>1, <1>2, <1>4, ByteIs DEF end_line
<1>9. s <= offset /\ (s = 0 \/ file[s] = Newline) /\ \A j \in s + 1 .. offset : file[j] # Newline
  BY <1>1, <1>3 DEF Reading
<1>10. Column(c) = c - s
  BY <1>1, <1>2, <1>4, <1>9, ColumnIs
<1>11. text = <<>> <=> offset = s
  <2>1. text \in Seq(Bytes) /\ Len(text) = Held(s) - s
    BY <1>3, HeldText
  <2>2. text = <<>> <=> Len(text) = 0
    BY <2>1, EmptySeq
  <2>3. Held(s) - s = 0 <=> offset = s
    BY <1>1, <1>9, ViewerSizes DEF Held
  <2>4. QED
    BY <2>1, <2>2, <2>3
<1>12. LeftOut(c) <=> command = "cat" /\ text = <<>>
  BY <1>1, <1>4, <1>8, <1>10, <1>11 DEF LeftOut
<1>13. Kept(c) = IF LeftOut(c) THEN Kept(offset) ELSE Append(Kept(offset), Newline)
  <2>1. offset \in 0 .. Len(file) - 1
    BY <1>1, <1>2
  <2>2. QED
    BY <1>4, <1>8, <2>1, KeptStep
<1>14. ASSUME ~LongWord(file) PROVE IsPlain(output', Kept(c))
  <2>1. CASE command = "cat" /\ text = <<>>
    <3>1. output' = output
      BY <1>6, <2>1 DEF WithLine, cat_line
    <3>2. offset = s /\ Kept(c) = Kept(offset)
      BY <1>11, <1>12, <1>13, <2>1
    <3>3. QED
      BY <1>3, <1>14, <3>1, <3>2
  <2>2. CASE ~(command = "cat" /\ text = <<>>)
    <3>1. output' = output \o Displayed(text) \o <<Newline>>
      BY <1>6, <2>2 DEF WithLine, cat_line, edit_line
    <3>2. Kept(offset) \in Seq(Bytes)
      <4>1. offset \in 0 .. Len(file)
        BY <1>1, <1>2
      <4>2. QED
        BY <4>1, KeptBytes
    <3>3. Append(Kept(offset), Newline) = Kept(offset) \o <<Newline>>
      BY <3>2, ViewerSigns, AppendIsConcat
    <3>4. IsPlain(output \o Displayed(text) \o <<Newline>>, Kept(offset) \o <<Newline>>)
      BY <1>3, <1>14, LineOutput
    <3>5. QED
      BY <1>12, <1>13, <2>2, <3>1, <3>3, <3>4
  <2>3. QED
    BY <2>1, <2>2
<1>15. (~LongWord(file) => IsPlain(output, Kept(c)))'
  BY <1>7, <1>14 DEF IsPlain
<1>16. QED
  BY <1>5, <1>15 DEF ShowsLines

LEMMA ShowsLast ==
  ASSUME ViewOK, command \in {"cat", "edit"}, ShowsLines, last_line
  PROVE  ShowsLines'
<1>1. Len(file) \in Nat /\ offset \in Nat
  BY LenProperties DEF ViewOK
<1>2. offset = Len(file) /\ text # <<>>
  BY DEF last_line, LastByte
<1>3. PICK s \in Nat : Reading(s) /\ (~LongWord(file) => IsPlain(output, Kept(s)))
  BY <1>2 DEF ShowsLines
<1>4. /\ command' = command /\ ext' = ext /\ file' = file /\ offset' = offset
      /\ text' = <<>> /\ output' = WithLine(text)
  BY DEF last_line
<1>5. /\ Kept(offset)' = Kept(offset)
      /\ LongWord(file)' = LongWord(file) /\ LastNewline' = LastNewline
  <2>1. PICK c : c = offset
    OBVIOUS
  <2>2. Kept(c)' = Kept(c) /\ Kept(offset)' = Kept(c)'
    BY <1>4, <2>1, SameFile DEF Kept
  <2>3. QED
    BY <1>4, <2>1, <2>2, SameFile
<1>6. output' = output \o Displayed(text) \o <<Newline>>
  BY <1>2, <1>4 DEF WithLine, cat_line, edit_line
<1>7. LastNewline = <<Newline>>
  <2>1. Len(text) = Held(s) - s /\ text \in Seq(Bytes)
    BY <1>3, HeldText
  <2>2. Len(text) # 0
    BY <1>2, <2>1, EmptySeq
  <2>3. s < offset
    BY <1>1, <2>1, <2>2, <1>3, ViewerSizes DEF Held, Reading
  <2>4. file # <<>>
    BY <1>1, <1>2, <2>3
  <2>5. offset \in s + 1 .. offset
    BY <1>1, <2>3
  <2>6. file[offset] # Newline
    BY <1>3, <2>5 DEF Reading
  <2>7. QED
    BY <1>2, <2>4, <2>6 DEF LastNewline
<1>8. ASSUME ~LongWord(file) PROVE IsPlain(output', Kept(offset) \o <<Newline>>)
  BY <1>3, <1>6, <1>8, LineOutput
<1>9. (~LongWord(file) => IsPlain(output, Kept(offset) \o <<Newline>>))'
  BY <1>5, <1>8 DEF IsPlain
<1>10. QED
  BY <1>2, <1>4, <1>5, <1>7, <1>9 DEF ShowsLines

LEMMA ShowsFile ==
  ASSUME ViewOK, command \in {"cat", "edit"} => ShowsLines
  PROVE  FileIsShown
<1>1. SUFFICES ASSUME Done, command \in {"cat", "edit"}, ~LongWord(file)
               PROVE  Uncoloured(output) = Without(Struck, {NUL}) \o LastNewline
  BY DEF FileIsShown
<1>2. Len(file) \in Nat /\ offset \in Nat
  BY LenProperties DEF ViewOK
<1>3. offset = Len(file) /\ text = <<>>
  BY <1>1 DEF Done, LastByte
<1>4. Kept(offset) = Without(Struck, {NUL})
  <2>1. SubSeq(Struck, 1, Len(Struck)) = Struck
    BY StruckIs, SubSeqFull
  <2>2. QED
    BY <1>3, <2>1, StruckIs DEF Kept
<1>5. ASSUME NEW s \in Nat, Reading(s), IsPlain(output, Kept(s))
      PROVE  Uncoloured(output) = Kept(offset) \o LastNewline
  <2>1. Len(text) = Held(s) - s /\ Len(text) = 0
    BY <1>3, <1>5, HeldText, EmptySeq
  <2>2. offset = s /\ (s = 0 \/ file[s] = Newline)
    BY <1>2, <1>5, <2>1, ViewerSizes DEF Held, Reading
  <2>3. LastNewline = <<>>
    <3>1. file \in Seq(Bytes)
      BY DEF ViewOK
    <3>2. s = 0 => file = <<>>
      BY <1>3, <2>2, <3>1, EmptySeq
    <3>3. QED
      BY <1>3, <2>2, <3>2 DEF LastNewline
  <2>4. Kept(s) \in Seq(Bytes)
    BY <1>5 DEF IsPlain
  <2>5. Kept(s) \o <<>> = Kept(s)
    BY <2>4, ConcatEmptySeq
  <2>6. Uncoloured(output) = Kept(s)
    BY <1>5 DEF IsPlain, Uncoloured, Colours
  <2>7. QED
    BY <2>2, <2>3, <2>5, <2>6
<1>6. ASSUME LastNewline = <<Newline>>, IsPlain(output, Kept(offset) \o <<Newline>>)
      PROVE  Uncoloured(output) = Kept(offset) \o LastNewline
  BY <1>6 DEF IsPlain, Uncoloured, Colours
<1>7. QED
  BY <1>1, <1>4, <1>5, <1>6 DEF ShowsLines

-----------------------------------------------------------------------------
(* What grep finds. *)

\* The matches in the lines that begin no later than byte b.
MatchesTo(b) ==
  {<<LineNumber(x), Cut(LineFrom(x))>> :
     x \in {y \in LineStarts : y <= b /\ Occurs(Pattern, Cut(LineFrom(y))) # {}}}

Reported(b) ==
  /\ output \in Seq(Nat \X Seq(Bytes))
  /\ {output[k] : k \in 1 .. Len(output)} = MatchesTo(b)
  /\ \A j, k \in 1 .. Len(output) : j < k => output[j][1] < output[k][1]
  /\ \A k \in 1 .. Len(output) : output[k][1] < line_number

FindsLines ==
  \/ \E s \in Nat : Reading(s) /\ line_number = LineNumber(s + 1) /\ Reported(s)
  \/ offset = Len(file) + 1 /\ Reported(offset)

\* A newline behind a line is one line more.
LEMMA NumberIs ==
  ASSUME ViewOK, NEW s \in Nat, Reading(s)
  PROVE  /\ LineNumber(s + 1) \in Nat
         /\ \A c : c = offset + 1 /\ file[c] = Newline =>
              LineNumber(c + 1) = LineNumber(s + 1) + 1
<1>1. Len(file) \in Nat /\ offset \in Nat
  BY LenProperties DEF ViewOK
<1>2. s <= offset
  BY <1>1 DEF Reading
<1>3. PICK A : A = {k \in 1 .. s : file[k] = Newline}
  OBVIOUS
<1>4. IsFiniteSet(A) /\ Cardinality(A) \in Nat
  <2>1. IsFiniteSet(1 .. s) /\ A \in SUBSET (1 .. s)
    BY <1>3, FS_Interval
  <2>2. IsFiniteSet(A)
    BY <2>1, FS_Subset
  <2>3. QED
    BY <2>2, FS_CardinalityType
<1>5. LineNumber(s + 1) = Cardinality(A) + 1
  <2>1. {k \in 1 .. s + 1 - 1 : file[k] = Newline} = A
    BY <1>3
  <2>2. QED
    BY <2>1 DEF LineNumber
<1>6. ASSUME NEW c, c = offset + 1, file[c] = Newline
      PROVE  LineNumber(c + 1) = LineNumber(s + 1) + 1
  <2>1. c \in Nat /\ c \notin A
    BY <1>1, <1>2, <1>3, <1>6
  <2>2. {k \in 1 .. c + 1 - 1 : file[k] = Newline} = A \cup {c}
    <3>1. \A k \in s + 1 .. offset : file[k] # Newline
      BY DEF Reading
    <3>2. \A k \in 1 .. c : k \in 1 .. s \/ k \in s + 1 .. offset \/ k = c
      BY <1>1, <1>2, <1>6
    <3>3. A \subseteq 1 .. c /\ c \in 1 .. c
      BY <1>1, <1>2, <1>3, <1>6
    <3>4. c + 1 - 1 = c
      BY <2>1
    <3>5. QED
      BY <1>3, <1>6, <3>1, <3>2, <3>3, <3>4
  <2>3. Cardinality(A \cup {c}) = Cardinality(A) + 1
    BY <1>4, <2>1, FS_AddElement
  <2>4. QED
    BY <1>4, <1>5, <2>2, <2>3 DEF LineNumber
<1>7. QED
  BY <1>4, <1>5, <1>6

\* Where a line ends, the array holds the part of it that is compared.
LEMMA LineIs ==
  ASSUME ViewOK, NEW s \in Nat, Reading(s),
         NEW c, c = offset + 1, c = Len(file) + 1 \/ file[c] = Newline
  PROVE  Cut(LineFrom(s + 1)) = text
<1>1. Len(file) \in Nat /\ offset \in Nat /\ file \in Seq(Bytes)
  BY LenProperties DEF ViewOK
<1>2. s <= offset /\ offset <= Len(file)
  BY <1>1 DEF Reading
<1>3. PICK a \in Nat : a = s + 1
  OBVIOUS
<1>4. PICK E : E = {k \in a .. Len(file) : file[k] = Newline} \cup {Len(file) + 1}
  OBVIOUS
<1>5. Min(E) = c
  <2>1. E \in SUBSET Nat
    BY <1>1, <1>3, <1>4
  <2>2. c \in E
    <3>1. c \in a .. Len(file) \/ c = Len(file) + 1
      BY <1>1, <1>2, <1>3
    <3>2. QED
      BY <1>4, <3>1
  <2>3. \A x \in E : c <= x
    <3>1. \A x \in s + 1 .. offset : file[x] # Newline
      BY DEF Reading
    <3>2. \A x \in a .. Len(file) : x < c => x \in s + 1 .. offset
      BY <1>1, <1>2, <1>3
    <3>3. \A x \in a .. Len(file) : ~(x < c) => c <= x
      BY <1>1, <1>2, <1>3
    <3>4. c <= Len(file) + 1
      BY <1>1, <1>2
    <3>5. QED
      BY <1>4, <3>1, <3>2, <3>3, <3>4
  <2>4. QED
    BY <2>1, <2>2, <2>3, MinIs
<1>6. PICK t : t = SubSeq(file, a, offset)
  OBVIOUS
<1>7. LineFrom(s + 1) = t
  <2>1. c - 1 = offset
    BY <1>1
  <2>2. QED
    BY <1>3, <1>4, <1>5, <1>6, <2>1 DEF LineFrom
<1>8. a \in 1 .. Len(file) + 1 /\ offset \in 0 .. Len(file)
  BY <1>1, <1>2, <1>3
<1>9. /\ t \in Seq(Bytes)
      /\ Len(t) = IF a <= offset THEN offset - a + 1 ELSE 0
      /\ \A k \in 1 .. offset - a + 1 : t[k] = file[a + k - 1]
  BY <1>1, <1>6, <1>8, Part
<1>10. Len(t) = offset - s
  BY <1>1, <1>2, <1>3, <1>9
<1>11. PICK m \in Nat : m = IF offset - s <= LineLimit THEN offset - s ELSE LineLimit
  <2>1. offset - s \in Nat
    BY <1>1, <1>2
  <2>2. (IF offset - s <= LineLimit THEN offset - s ELSE LineLimit) \in Nat
    BY <2>1, ViewerSizes
  <2>3. QED
    BY <2>2
<1>12. Min({Len(t), LineLimit}) = m
  <2>1. {Len(t), LineLimit} \in SUBSET Nat /\ m \in {Len(t), LineLimit}
    BY <1>1, <1>2, <1>10, <1>11, ViewerSizes
  <2>2. \A x \in {Len(t), LineLimit} : m <= x
    BY <1>1, <1>2, <1>10, <1>11, ViewerSizes
  <2>3. QED
    BY <2>1, <2>2, MinIs
<1>13. PICK u : u = SubSeq(t, 1, m)
  OBVIOUS
<1>14. 1 \in 1 .. Len(t) + 1 /\ m \in 0 .. Len(t)
  BY <1>1, <1>2, <1>10, <1>11, ViewerSizes
<1>15. /\ u \in Seq(Bytes) /\ Len(u) = IF 1 <= m THEN m - 1 + 1 ELSE 0
       /\ \A k \in 1 .. m - 1 + 1 : u[k] = t[1 + k - 1]
  BY <1>9, <1>13, <1>14, Part
<1>16. text \in Seq(Bytes) /\ Len(text) = m /\ \A k \in 1 .. m : text[k] = file[s + k]
  <2>1. Held(s) - s = m
    BY <1>1, <1>2, <1>11, ViewerSizes DEF Held
  <2>2. QED
    BY <2>1, HeldText
<1>17. \A k \in 1 .. m : u[k] = text[k]
  <2> TAKE k \in 1 .. m
  <2>1. k \in 1 .. m - 1 + 1 /\ 1 + k - 1 = k
    BY <1>11
  <2>2. u[k] = t[k]
    BY <1>15, <2>1
  <2>3. k \in 1 .. offset - a + 1 /\ a + k - 1 = s + k
    BY <1>1, <1>2, <1>3, <1>10, <1>14
  <2>4. t[k] = file[s + k]
    BY <1>9, <2>3
  <2>5. QED
    BY <1>16, <2>2, <2>4
<1>18. u = text
  <2>1. Len(u) = m
    BY <1>11, <1>15
  <2>2. QED
    BY <1>15, <1>16, <1>17, <2>1, SeqEqual
<1>19. QED
  BY <1>7, <1>12, <1>13, <1>18 DEF Cut

\* Up to the end of a line, that line is the only one that begins.
LEMMA StartsTo ==
  ASSUME ViewOK, NEW s \in Nat, Reading(s), NEW c, c = offset + 1
  PROVE  /\ s + 1 \in LineStarts
         /\ \A x \in LineStarts : x <= c <=> x <= s \/ x = s + 1
<1>1. Len(file) \in Nat /\ offset \in Nat
  BY LenProperties DEF ViewOK
<1>2. s <= offset /\ offset <= Len(file) /\ (s = 0 \/ file[s] = Newline)
  BY <1>1 DEF Reading
<1>3. s + 1 \in LineStarts
  <2>1. CASE s = 0
    BY <2>1 DEF LineStarts
  <2>2. CASE s # 0
    <3>1. s \in {j \in 1 .. Len(file) : file[j] = Newline}
      BY <1>1, <1>2, <2>2
    <3>2. QED
      BY <3>1 DEF LineStarts
  <2>3. QED
    BY <2>1, <2>2
<1>4. ASSUME NEW x \in LineStarts PROVE x <= c <=> x <= s \/ x = s + 1
  <2>1. CASE x = 1
    BY <1>1, <1>2, <2>1
  <2>2. CASE x # 1
    <3>1. PICK k \in 1 .. Len(file) : file[k] = Newline /\ x = k + 1
      BY <2>2 DEF LineStarts
    <3>2. k \notin s + 1 .. offset
      BY <3>1 DEF Reading
    <3>3. QED
      BY <1>1, <1>2, <3>1, <3>2
  <2>3. QED
    BY <2>1, <2>2
<1>5. QED
  BY <1>3, <1>4

LEMMA MatchesStep ==
  ASSUME ViewOK, NEW s \in Nat, Reading(s),
         NEW c, c = offset + 1, c = Len(file) + 1 \/ file[c] = Newline
  PROVE  MatchesTo(c) =
           MatchesTo(s) \cup
             (IF Occurs(Pattern, text) # {} THEN {<<LineNumber(s + 1), text>>} ELSE {})
<1>1. PICK a : a = s + 1
  OBVIOUS
<1>2. Cut(LineFrom(a)) = text
  BY <1>1, LineIs
<1>3. a \in LineStarts /\ \A x \in LineStarts : x <= c <=> x <= s \/ x = a
  BY <1>1, StartsTo
<1>4. PICK S : S = LineStarts
  OBVIOUS
<1> DEFINE Match(x) == <<LineNumber(x), Cut(LineFrom(x))>>
<1> DEFINE Holds(x) == Occurs(Pattern, Cut(LineFrom(x))) # {}
<1>5. /\ MatchesTo(c) = {Match(x) : x \in {y \in S : y <= c /\ Holds(y)}}
      /\ MatchesTo(s) = {Match(x) : x \in {y \in S : y <= s /\ Holds(y)}}
  BY <1>4 DEF MatchesTo
<1>6. Match(a) = <<LineNumber(a), text>> /\ (Holds(a) <=> Occurs(Pattern, text) # {})
  BY <1>2
<1> HIDE DEF Match, Holds
<1>7. {y \in S : y <= c /\ Holds(y)} =
        {y \in S : y <= s /\ Holds(y)} \cup (IF Holds(a) THEN {a} ELSE {})
  BY <1>3, <1>4
<1>8. QED
  BY <1>1, <1>5, <1>6, <1>7

LEMMA SameLines ==
  ASSUME file' = file
  PROVE  /\ \A s : LineNumber(s)' = LineNumber(s)
         /\ \A b : MatchesTo(b)' = MatchesTo(b)
<1>1. \A s : LineNumber(s)' = LineNumber(s) /\ LineFrom(s)' = LineFrom(s)
  BY DEF LineNumber, LineFrom
<1>2. LineStarts' = LineStarts
  BY DEF LineStarts
<1>3. QED
  BY <1>1, <1>2 DEF MatchesTo

LEMMA FindsTake ==
  ASSUME ViewOK, FindsLines, take_byte, command = "grep"
  PROVE  FindsLines'
<1>1. Len(file) \in Nat /\ offset \in Nat
  BY LenProperties DEF ViewOK
<1>2. offset < Len(file) + 1
  BY DEF take_byte, LastByte
<1>3. PICK s \in Nat : Reading(s) /\ line_number = LineNumber(s + 1) /\ Reported(s)
  BY <1>1, <1>2 DEF FindsLines
<1>4. Reading(s)'
  BY <1>3, TakeReads
<1>5. file' = file /\ line_number' = line_number /\ output' = output
  BY DEF take_byte
<1>6. LineNumber(s + 1)' = LineNumber(s + 1) /\ MatchesTo(s)' = MatchesTo(s)
  BY <1>5, SameLines
<1>7. Reported(s)'
  BY <1>3, <1>5, <1>6 DEF Reported
<1>8. QED
  BY <1>3, <1>4, <1>5, <1>6, <1>7 DEF FindsLines

LEMMA FindsEnd ==
  ASSUME ViewOK, FindsLines, end_line, command = "grep"
  PROVE  FindsLines'
<1>1. Len(file) \in Nat /\ offset \in Nat
  BY LenProperties DEF ViewOK
<1>2. offset < Len(file) + 1
  BY DEF end_line, LastByte
<1>3. PICK s \in Nat : Reading(s) /\ line_number = LineNumber(s + 1) /\ Reported(s)
  BY <1>1, <1>2 DEF FindsLines
<1>4. PICK c \in Nat : c = offset + 1
  BY <1>1
<1>5. c = Len(file) + 1 \/ file[c] = Newline
  BY <1>1, <1>2, <1>4, ByteIs DEF end_line
<1>6. /\ file' = file /\ offset' = c /\ line_number' = line_number + 1
      /\ output' = IF Occurs(Pattern, text) # {} THEN Append(output, <<line_number, text>>)
                   ELSE output
  <2>1. WithLine(text) = grep_line(text)
    BY DEF WithLine
  <2>2. QED
    BY <1>4, <2>1 DEF end_line, grep_line, Counted
<1>7. MatchesTo(c) =
        MatchesTo(s) \cup
          (IF Occurs(Pattern, text) # {} THEN {<<line_number, text>>} ELSE {})
  BY <1>3, <1>4, <1>5, MatchesStep
<1>8. line_number \in Nat /\ text \in Seq(Bytes)
  BY <1>3, NumberIs, HeldText
<1>9. MatchesTo(c)' = MatchesTo(c)
  BY <1>6, SameLines
<1>10. Reported(c)'
  <2>1. CASE Occurs(Pattern, text) = {}
    <3>1. output' = output /\ MatchesTo(c)' = MatchesTo(s)
      BY <1>6, <1>7, <1>9, <2>1
    <3>2. \A k \in 1 .. Len(output) : output[k][1] < line_number'
      <4>1. \A k \in 1 .. Len(output) : output[k] \in Nat \X Seq(Bytes)
        BY <1>3, ElementOfSeq DEF Reported
      <4>2. \A k \in 1 .. Len(output) : output[k][1] \in Nat
        BY <4>1
      <4>3. QED
        BY <1>3, <1>6, <1>8, <4>2 DEF Reported
    <3>3. QED
      BY <1>3, <3>1, <3>2 DEF Reported
  <2>2. CASE Occurs(Pattern, text) # {}
    <3>1. PICK e \in Nat \X Seq(Bytes) : e = <<line_number, text>> /\ e[1] = line_number
      <4>1. <<line_number, text>> \in Nat \X Seq(Bytes)
        BY <1>8
      <4>2. <<line_number, text>>[1] = line_number
        OBVIOUS
      <4>3. QED
        BY <4>1, <4>2
    <3>2. PICK n \in Nat : n = Len(output)
      BY <1>3, LenProperties DEF Reported
    <3>3. output' = Append(output, e) /\ MatchesTo(c)' = MatchesTo(s) \cup {e}
      BY <1>6, <1>7, <1>9, <2>2, <3>1
    <3>4. /\ output' \in Seq(Nat \X Seq(Bytes)) /\ Len(output') = n + 1
          /\ \A k \in 1 .. n : output'[k] = output[k]
          /\ output'[n + 1] = e
      BY <1>3, <3>2, <3>3, AppendProperties DEF Reported
    <3>5. \A k \in 1 .. n : output[k][1] \in Nat /\ output[k][1] < line_number
      <4>1. \A k \in 1 .. n : output[k] \in Nat \X Seq(Bytes)
        BY <1>3, <3>2, ElementOfSeq DEF Reported
      <4>2. QED
        BY <1>3, <3>2, <4>1 DEF Reported
    <3>6. {output'[k] : k \in 1 .. Len(output')} = MatchesTo(s) \cup {e}
      <4>1. {output[k] : k \in 1 .. n} = MatchesTo(s)
        BY <1>3, <3>2 DEF Reported
      <4>2. 1 .. n + 1 = 1 .. n \cup {n + 1}
        OBVIOUS
      <4>3. PICK R, l : R = 1 .. n /\ l = n + 1
        OBVIOUS
      <4>4. {output'[k] : k \in R \cup {l}} = {output'[k] : k \in R} \cup {output'[l]}
        OBVIOUS
      <4>5. {output'[k] : k \in R} = {output[k] : k \in R}
        BY <3>4, <4>3
      <4>6. QED
        BY <3>4, <4>1, <4>2, <4>3, <4>4, <4>5
    <3>7. \A k \in 1 .. n + 1 : output'[k][1] < line_number'
      <4> TAKE k \in 1 .. n + 1
      <4>1. CASE k \in 1 .. n
        <5>1. output'[k] = output[k] /\ output[k][1] \in Nat /\ output[k][1] < line_number
          BY <3>4, <3>5, <4>1
        <5>2. line_number' = line_number + 1
          BY <1>6
        <5>3. PICK x, l \in Nat : x = output[k][1] /\ l = line_number
          BY <1>8, <5>1
        <5>4. x < l + 1
          BY <5>1, <5>3
        <5>5. QED
          BY <5>1, <5>2, <5>3, <5>4
      <4>2. CASE k = n + 1
        BY <1>6, <1>8, <3>1, <3>4, <4>2
      <4>3. QED
        BY <4>1, <4>2
    <3>8. \A j, k \in 1 .. n + 1 : j < k => output'[j][1] < output'[k][1]
      <4> TAKE j, k \in 1 .. n + 1
      <4>1. SUFFICES ASSUME j < k PROVE output'[j][1] < output'[k][1]
        OBVIOUS
      <4>2. j \in 1 .. n
        BY <4>1
      <4>3. CASE k \in 1 .. n
        BY <1>3, <3>2, <3>4, <4>1, <4>2, <4>3 DEF Reported
      <4>4. CASE k = n + 1
        BY <3>1, <3>4, <3>5, <4>2, <4>4
      <4>5. QED
        BY <4>3, <4>4
    <3>9. QED
      <4>1. MatchesTo(c)' = {output'[k] : k \in 1 .. Len(output')}
        BY <3>3, <3>6
      <4>2. QED
        BY <3>4, <3>7, <3>8, <4>1 DEF Reported
  <2>3. QED
    BY <2>1, <2>2
<1>11. CASE c = Len(file) + 1
  <2>1. Reported(offset)'
    BY <1>6, <1>9, <1>10, SameLines DEF Reported
  <2>2. QED
    BY <1>6, <1>11, <2>1 DEF FindsLines
<1>12. CASE c # Len(file) + 1
  <2>1. offset < Len(file) /\ file[c] = Newline
    BY <1>1, <1>2, <1>4, <1>5, <1>12
  <2>2. Reading(c)'
    BY <1>4, <2>1, EndReads
  <2>3. LineNumber(c + 1) = LineNumber(s + 1) + 1
    BY <1>3, <1>4, <2>1, NumberIs
  <2>4. LineNumber(c + 1)' = LineNumber(c + 1)
    BY <1>6, SameLines
  <2>5. line_number' = LineNumber(c + 1)'
    BY <1>3, <1>6, <2>3, <2>4
  <2>6. QED
    BY <1>10, <2>2, <2>5 DEF FindsLines
<1>13. QED
  BY <1>11, <1>12

LEMMA FindsFile ==
  ASSUME ViewOK, command = "grep" => FindsLines
  PROVE  MatchesAreNumbered
<1>1. SUFFICES ASSUME Done, command = "grep"
               PROVE  /\ {output[k] : k \in 1 .. Len(output)} =
                           {<<LineNumber(s), Cut(LineFrom(s))>> :
                              s \in {x \in LineStarts : Occurs(Pattern, Cut(LineFrom(x))) # {}}}
                      /\ \A j, k \in 1 .. Len(output) : j < k => output[j][1] < output[k][1]
  BY DEF MatchesAreNumbered
<1>2. Len(file) \in Nat /\ offset = Len(file) + 1
  BY <1>1, LenProperties DEF ViewOK, Done, LastByte
<1>3. Reported(offset)
  BY <1>1, <1>2 DEF FindsLines, Reading
<1>4. \A x \in LineStarts : x <= offset
  BY <1>2 DEF LineStarts
<1>5. {x \in LineStarts : x <= offset /\ Occurs(Pattern, Cut(LineFrom(x))) # {}} =
        {x \in LineStarts : Occurs(Pattern, Cut(LineFrom(x))) # {}}
  BY <1>4
<1>6. MatchesTo(offset) =
        {<<LineNumber(s), Cut(LineFrom(s))>> :
           s \in {x \in LineStarts : Occurs(Pattern, Cut(LineFrom(x))) # {}}}
  BY <1>5 DEF MatchesTo
<1>7. QED
  BY <1>3, <1>6 DEF Reported

-----------------------------------------------------------------------------
(* All of it for the commands that read a file. *)

ViewInv ==
  /\ ViewOK
  /\ command \in {"cat", "edit"} => ShowsLines
  /\ command = "grep" => FindsLines

LEMMA InitView == Init => ViewInv
<1> SUFFICES ASSUME Init PROVE ViewInv
  OBVIOUS
<1>1. CASE command = "none" /\ NoViewer
  <2>1. file = <<>> /\ offset = 0
    BY <1>1 DEF NoViewer
  <2>2. file \in Seq(Bytes) /\ offset \in 0 .. Len(file) + 1
    BY <2>1, EmptySeq
  <2>3. QED
    BY <1>1, <2>2 DEF ViewInv, ViewOK
<1>2. CASE ViewerInit
  <2>1. /\ command \in {"cat", "edit", "grep", "syntax"} /\ offset = 0 /\ text = <<>>
        /\ line_number = 1 /\ output = <<>>
    BY <1>2 DEF ViewerInit
  <2>2. file \in Seq(Bytes)
    <3>1. PICK e \in Extensions : file \in Files[e]
      BY <1>2 DEF ViewerInit
    <3>2. QED
      BY <3>1, ViewerAssumption
  <2>3. Len(file) \in Nat
    BY <2>2, LenProperties
  <2>4. ViewOK
    BY <2>1, <2>2, <2>3 DEF ViewOK
  <2>5. Reading(0)
    <3>1. Held(0) = 0
      BY <2>1, ViewerSizes DEF Held
    <3>2. SubSeq(file, 0 + 1, 0) = <<>>
      BY SubSeqEmpty
    <3>3. QED
      BY <2>1, <2>3, <3>1, <3>2 DEF Reading
  <2>6. ShowsLines
    <3>1. SubSeq(Struck, 1, 0) = <<>>
      BY SubSeqEmpty
    <3>2. Kept(0) = <<>>
      BY <3>1, WithoutNothing DEF Kept
    <3>3. <<>> \in Seq(Bytes)
      BY EmptySeq
    <3>4. IsPlain(output, Kept(0))
      BY <2>1, <3>2, <3>3, PlainItself
    <3>5. QED
      BY <2>5, <3>4 DEF ShowsLines
  <2>7. FindsLines
    <3>1. LineNumber(0 + 1) = 1
      <4>1. {k \in 1 .. 0 + 1 - 1 : file[k] = Newline} = {}
        OBVIOUS
      <4>2. Cardinality({}) = 0
        BY FS_EmptySet
      <4>3. QED
        BY <4>1, <4>2 DEF LineNumber
    <3>2. \A x \in LineStarts : ~(x <= 0)
      BY <2>3 DEF LineStarts
    <3>3. MatchesTo(0) = {}
      BY <3>2 DEF MatchesTo
    <3>4. output \in Seq(Nat \X Seq(Bytes)) /\ Len(output) = 0
      BY <2>1, EmptySeq
    <3>5. Reported(0)
      BY <3>3, <3>4 DEF Reported
    <3>6. QED
      BY <2>1, <2>5, <3>1, <3>5 DEF FindsLines
  <2>8. QED
    BY <2>4, <2>6, <2>7 DEF ViewInv
<1>3. QED
  BY <1>1, <1>2 DEF Init, NoViewer

\* While the editor is at work the file and what is known of it stay.
LEMMA SameView == ViewInv /\ UNCHANGED v_vars => ViewInv'
<1> SUFFICES ASSUME ViewInv, UNCHANGED v_vars PROVE ViewInv'
  OBVIOUS
<1>1. /\ command' = command /\ ext' = ext /\ file' = file /\ offset' = offset
      /\ text' = text /\ line_number' = line_number /\ output' = output
  BY DEF v_vars
<1>2. ViewOK'
  BY <1>1 DEF ViewInv, ViewOK
<1>3. \A s : Reading(s)' = Reading(s)
  BY <1>1 DEF Reading, Held
<1>4. \A s : (~LongWord(file) => IsPlain(output, Kept(s)))' =
             (~LongWord(file) => IsPlain(output, Kept(s)))
  BY <1>1, SameFile
<1>5. Kept(offset)' = Kept(offset)
  BY <1>1, SameFile DEF Kept
<1>6. ASSUME ShowsLines PROVE ShowsLines'
  BY <1>1, <1>3, <1>4, <1>5, <1>6, SameFile DEF ShowsLines
<1>7. ASSUME FindsLines PROVE FindsLines'
  <2>1. \A b : Reported(b)' = Reported(b)
    BY <1>1, SameLines DEF Reported
  <2>2. Reported(offset)' = Reported(offset)
    BY <1>1, SameLines DEF Reported, MatchesTo
  <2>3. QED
    BY <1>1, <1>3, <1>7, <2>1, <2>2, SameLines DEF FindsLines
<1>8. QED
  BY <1>1, <1>2, <1>6, <1>7 DEF ViewInv

LEMMA ViewOKStep == ViewOK /\ ViewerNext => ViewOK'
<1> SUFFICES ASSUME ViewOK, ViewerNext PROVE ViewOK'
  OBVIOUS
<1>1. Len(file) \in Nat /\ offset \in Nat
  BY LenProperties DEF ViewOK
<1>2. CASE take_byte \/ end_line
  <2>1. /\ command' = command /\ file' = file /\ offset' = offset + 1 /\ offset < LastByte
    BY <1>2 DEF take_byte, end_line
  <2>2. offset' \in 0 .. Len(file) + 1 /\ (command \in {"cat", "edit"} => offset' <= Len(file))
    BY <1>1, <2>1 DEF LastByte
  <2>3. QED
    BY <2>1, <2>2 DEF ViewOK
<1>3. CASE last_line
  BY <1>3 DEF last_line, ViewOK
<1>4. QED
  BY <1>2, <1>3 DEF ViewerNext

LEMMA ViewInvStep == ViewInv /\ [Next]_vars => ViewInv'
<1> SUFFICES ASSUME ViewInv, [Next]_vars PROVE ViewInv'
  OBVIOUS
<1>1. CASE ViewerNext
  <2>1. ViewOK /\ ViewOK' /\ command' = command
    BY <1>1, ViewOKStep DEF ViewInv, ViewerNext, take_byte, end_line, last_line
  <2>2. ASSUME command \in {"cat", "edit"} PROVE ShowsLines'
    BY <1>1, <2>1, <2>2, ShowsTake, ShowsEnd, ShowsLast DEF ViewInv, ViewerNext
  <2>3. ASSUME command = "grep" PROVE FindsLines'
    <3>1. ~last_line
      BY <2>3 DEF last_line
    <3>2. QED
      BY <1>1, <2>1, <2>3, <3>1, FindsTake, FindsEnd DEF ViewInv, ViewerNext
  <2>4. QED
    BY <2>1, <2>2, <2>3 DEF ViewInv
<1>2. CASE UNCHANGED v_vars
  BY <1>2, SameView
<1>3. QED
  BY <1>1, <1>2 DEF Next, vars

(* The array of a line holds its first bytes, cat and edit have shown the lines
   before it, and grep has found and counted them. *)
THEOREM ViewInvariant == Spec => []ViewInv
BY InitView, ViewInvStep, PTL DEF Spec

(* What cat and edit show is the whole file but what is left out on purpose,
   however the highlighter colours it. *)
THEOREM FilesAreShown == Spec => []FileIsShown
<1>1. ViewInv => FileIsShown
  BY ShowsFile DEF ViewInv
<1>2. QED
  BY <1>1, ViewInvariant, PTL

(* grep finds every line that holds the pattern and gives it its own number. *)
THEOREM MatchesNumbered == Spec => []MatchesAreNumbered
<1>1. ViewInv => MatchesAreNumbered
  BY FindsFile DEF ViewInv
<1>2. QED
  BY <1>1, ViewInvariant, PTL
=============================================================================
