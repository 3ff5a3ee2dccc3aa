----------------------------- MODULE TapeProofs -----------------------------
(***************************************************************************)
(* The types of the tape drive, the objects that are kept on the tape,     *)
(* where the drive is among them and what it reads, for image files,       *)
(* blocks and commands of any size.                                        *)
(***************************************************************************)
EXTENDS Tape, TLAPS, FiniteSetTheorems, SequenceTheorems

-----------------------------------------------------------------------------
(* Induction, and functions defined by recursion                           *)

\* What holds for 0, and for the next number up to n, holds up to n: otherwise its numbers up
\* to one that is missing would have an injection into these numbers without 0.
LEMMA Induction ==
    ASSUME NEW n \in Nat, NEW S, 0 \in S, \A m \in 0 .. n - 1 : m \in S => m + 1 \in S
    PROVE  \A m \in 0 .. n : m \in S
<1>. SUFFICES ASSUME NEW c \in 0 .. n, c \notin S
              PROVE  FALSE
    OBVIOUS
<1>. DEFINE T == S \cap (0 .. c)
            next == [m \in T |-> m + 1]
<1>1. ASSUME NEW m \in T
      PROVE  m + 1 \in T \ {0}
  <2>1. m \in 0 .. c /\ m # c /\ m \in S
      OBVIOUS
  <2>2. m \in 0 .. n - 1 /\ m + 1 \in 1 .. c
      BY <2>1
  <2>. QED  BY <2>1, <2>2
<1>2. IsFiniteSet(0 .. c)
    BY FS_Interval
<1>3. IsFiniteSet(T)
    BY <1>2, FS_Subset
<1>4. 0 \in T
    OBVIOUS
<1>5. IsFiniteSet(T \ {0}) /\ Cardinality(T \ {0}) = Cardinality(T) - 1
    BY <1>3, <1>4, FS_RemoveElement
<1>6. next \in Injection(T, T \ {0})
  <2>1. next \in [T -> T \ {0}]
      BY <1>1
  <2>2. \A a, b \in T : a \in Int /\ b \in Int
      OBVIOUS
  <2>3. \A a, b \in T : next[a] = next[b] => a = b
      BY <2>2
  <2>. QED  BY <2>1, <2>3 DEF Injection, IsInjective
<1>7. Cardinality(T) <= Cardinality(T \ {0})
    BY <1>5, <1>6, FS_Injection
<1>8. Cardinality(T) \in Nat
    BY <1>3, FS_CardinalityType
<1>. QED  BY <1>5, <1>7, <1>8

\* From each argument x that is not in stop, a recursive definition goes on with next[x], for
\* which the bounded measure m is smaller.
Descends(D, N, m, stop, next) ==
    /\ m \in [D -> 0 .. N] /\ stop \subseteq D /\ next \in [D \ stop -> D]
    /\ \A x \in D \ stop : m[next[x]] < m[x]

\* What is inherited from next[x] holds for every argument.
LEMMA WalkInduction ==
    ASSUME NEW D, NEW N \in Nat, NEW m, NEW stop, NEW next, Descends(D, N, m, stop, next),
           NEW S, stop \subseteq S, \A x \in D \ stop : next[x] \in S => x \in S
    PROVE  \A x \in D : x \in S
<1>. DEFINE T == {k \in 0 .. N : \A x \in D : m[x] <= k => x \in S}
<1>1. \A x \in D : m[x] \in 0 .. N
    BY DEF Descends
<1>2. \A x \in D \ stop : next[x] \in D /\ m[next[x]] < m[x]
    BY DEF Descends
<1>3. 0 \in T
  <2>. SUFFICES ASSUME NEW x \in D, m[x] <= 0
                PROVE  x \in S
      OBVIOUS
  <2>1. ASSUME x \notin stop
        PROVE  FALSE
    <3>1. m[x] \in 0 .. N /\ m[next[x]] \in 0 .. N /\ m[next[x]] < m[x]
        BY <1>1, <1>2, <2>1
    <3>. QED  BY <3>1
  <2>. QED  BY <2>1
<1>4. ASSUME NEW k \in 0 .. N - 1, k \in T
      PROVE  k + 1 \in T
  <2>1. k + 1 \in 0 .. N
      OBVIOUS
  <2>2. ASSUME NEW x \in D, m[x] <= k + 1, x \notin stop
        PROVE  next[x] \in S
    <3>1. m[x] \in 0 .. N /\ next[x] \in D /\ m[next[x]] \in 0 .. N /\ m[next[x]] < m[x]
        BY <1>1, <1>2, <2>2
    <3>2. m[next[x]] <= k
        BY <3>1, <2>2
    <3>. QED  BY <3>1, <3>2, <1>4
  <2>. QED  BY <2>1, <2>2
<1>5. N \in 0 .. N
    OBVIOUS
<1>. HIDE DEF T
<1>6. N \in T
    BY <1>3, <1>4, <1>5, Induction
<1>7. \A x \in D : m[x] <= N
    BY <1>1
<1>. QED  BY <1>6, <1>7 DEF T

\* The function that is v[x] where the recursion stops, and otherwise g[x] of its value for next[x]
Recursive(f, D, stop, next, v, g) ==
    \A x \in D : f[x] = IF x \in stop THEN v[x] ELSE g[x][f[next[x]]]

\* There is such a function.
LEMMA WalkRecursion ==
    ASSUME NEW D, NEW N \in Nat, NEW m, NEW stop, NEW next, Descends(D, N, m, stop, next),
           NEW R, NEW v \in [D -> R], NEW g \in [D \ stop -> [R -> R]]
    PROVE  \E f \in [D -> R] : Recursive(f, D, stop, next, v, g)
<1>. DEFINE Body(f, x) == IF x \in stop THEN v[x] ELSE g[x][f[next[x]]]
            T == {k \in 0 .. N : \E f \in [D -> R] : \A x \in D : m[x] <= k => f[x] = Body(f, x)}
<1>1. \A x \in D : m[x] \in 0 .. N
    BY DEF Descends
<1>2. \A x \in D \ stop : next[x] \in D /\ m[next[x]] < m[x]
    BY DEF Descends
<1>3. 0 \in T
  <2>1. ASSUME NEW x \in D, m[x] <= 0
        PROVE  v[x] = Body(v, x)
    <3>1. ASSUME x \notin stop
          PROVE  FALSE
      <4>1. m[x] \in 0 .. N /\ m[next[x]] \in 0 .. N /\ m[next[x]] < m[x]
          BY <1>1, <1>2, <3>1
      <4>. QED  BY <4>1, <2>1
    <3>. QED  BY <3>1
  <2>2. 0 \in 0 .. N
      OBVIOUS
  <2>. HIDE DEF Body
  <2>. QED  BY <2>1, <2>2
<1>4. ASSUME NEW k \in 0 .. N - 1, k \in T
      PROVE  k + 1 \in T
  <2>1. PICK f \in [D -> R] : \A x \in D : m[x] <= k => f[x] = Body(f, x)
      BY <1>4
  <2>. DEFINE h == [x \in D |-> Body(f, x)]
  <2>2. h \in [D -> R]
    <3>1. ASSUME NEW x \in D
          PROVE  Body(f, x) \in R
      <4>1. CASE x \in stop
          BY <4>1
      <4>2. CASE x \notin stop
        <5>1. next[x] \in D /\ g[x] \in [R -> R]
            BY <4>2, <1>2
        <5>. QED  BY <5>1, <4>2
      <4>. QED  BY <4>1, <4>2
    <3>. HIDE DEF Body
    <3>. QED  BY <3>1
  <2>3. ASSUME NEW x \in D, m[x] <= k + 1
        PROVE  h[x] = Body(h, x)
    <3>1. CASE x \in stop
        BY <3>1
    <3>2. CASE x \notin stop
      <4>1. m[x] \in 0 .. N /\ next[x] \in D /\ m[next[x]] \in 0 .. N /\ m[next[x]] < m[x]
          BY <1>1, <1>2, <3>2
      <4>2. m[next[x]] <= k
          BY <4>1, <2>3
      <4>3. f[next[x]] = Body(f, next[x])
          BY <4>1, <4>2, <2>1
      <4>4. h[next[x]] = f[next[x]]
          BY <4>1, <4>3
      <4>. QED  BY <3>2, <4>4
    <3>. QED  BY <3>1, <3>2
  <2>4. k + 1 \in 0 .. N
      OBVIOUS
  <2>. HIDE DEF Body, h
  <2>. QED  BY <2>2, <2>3, <2>4
<1>5. N \in 0 .. N
    OBVIOUS
<1>. HIDE DEF T
<1>6. N \in T
    BY <1>3, <1>4, <1>5, Induction
<1>7. PICK f \in [D -> R] : \A x \in D : m[x] <= N => f[x] = Body(f, x)
    BY <1>6 DEF T
<1>8. \A x \in D : m[x] <= N
    BY <1>1
<1>. QED  BY <1>7, <1>8 DEF Recursive
-----------------------------------------------------------------------------
(* Where objects end                                                       *)

Objects == Seq(Seq(Nat))

EvenNumbers == {n \in Nat : n % 2 = 0}

LEMMA Padded ==
    ASSUME NEW n \in Nat
    PROVE  /\ Pad(n) \in EvenNumbers /\ n <= Pad(n) /\ Pad(n) <= n + 1
           /\ n % 2 = 0 => Pad(n) = n
           /\ n % 2 # 0 => n % 2 = 1 /\ Pad(n) = n + 1
<1>1. n % 2 = 0 \/ n % 2 = 1
    OBVIOUS
<1>. QED  BY <1>1 DEF Pad, EvenNumbers

LEMMA Widths ==
    ASSUME NEW b \in Seq(Nat)
    PROVE  /\ Width(b) \in EvenNumbers /\ Width(b) >= 2
           /\ b = <<>> => Width(b) = 2
           /\ b # <<>> => Width(b) = Pad(Len(b)) + 4 /\ Len(b) > 0
<1>1. CASE b = <<>>
    BY <1>1 DEF Width, META_DATA_SIZE, EvenNumbers
<1>2. CASE b # <<>>
  <2>1. Len(b) \in Nat /\ Len(b) > 0
      BY <1>2
  <2>2. Pad(Len(b)) \in EvenNumbers
      BY <2>1, Padded
  <2>3. Width(b) = Pad(Len(b)) + 4
      BY <1>2, <2>2 DEF Width, META_DATA_SIZE, EvenNumbers
  <2>. QED  BY <1>2, <2>1, <2>2, <2>3 DEF EvenNumbers
<1>. QED  BY <1>1, <1>2

LEMMA Offsets ==
    ASSUME NEW o \in Objects
    PROVE  /\ Offset(o) \in [0 .. Len(o) -> EvenNumbers]
           /\ Offset(o)[0] = 0
           /\ \A k \in 1 .. Len(o) : Offset(o)[k] = Offset(o)[k - 1] + Width(o[k])
<1>. DEFINE n == Len(o)
            D == 0 .. n
            Body(f) == [k \in 0 .. n |-> IF k = 0 THEN 0 ELSE f[k - 1] + Width(o[k])]
            next == [k \in D \ {0} |-> k - 1]
            m == [k \in D |-> k]
            v == [k \in D |-> 0]
            g == [k \in D \ {0} |-> [e \in EvenNumbers |-> e + Width(o[k])]]
<1>1. n \in Nat /\ D = 0 .. n
    BY DEF Objects
<1>2. \A k \in D \ {0} : k \in 1 .. n /\ k - 1 \in D /\ k - 1 < k
    BY <1>1
<1>3. \A k \in 1 .. n : o[k] \in Seq(Nat)
    BY DEF Objects
<1>4. \A k \in D \ {0} : Width(o[k]) \in EvenNumbers
    BY <1>2, <1>3, Widths
<1>5. Offset(o) = CHOOSE f : f = Body(f)
    BY DEF Offset
<1>. HIDE DEF n
<1>6. Descends(D, n, m, {0}, next)
    BY <1>1, <1>2 DEF Descends
<1>7. v \in [D -> EvenNumbers]
    BY DEF EvenNumbers
<1>8. \A a, b \in EvenNumbers : a + b \in EvenNumbers
    BY DEF EvenNumbers
<1>9. g \in [D \ {0} -> [EvenNumbers -> EvenNumbers]]
    BY <1>4, <1>8
<1>10. \A k \in D \ {0} : \A e \in EvenNumbers : g[k][e] = e + Width(o[k])
    OBVIOUS
<1>11. \A k \in D : k # 0 => next[k] = k - 1
    OBVIOUS
<1>12. \A k \in D : v[k] = 0
    OBVIOUS
<1>. HIDE DEF D, m, v, g, next
<1>13. PICK f \in [D -> EvenNumbers] : Recursive(f, D, {0}, next, v, g)
    BY <1>1, <1>6, <1>7, <1>9, WalkRecursion
<1>14. ASSUME NEW k \in D
       PROVE  f[k] = IF k = 0 THEN 0 ELSE f[k - 1] + Width(o[k])
  <2>1. CASE k = 0
      BY <2>1, <1>12, <1>13 DEF Recursive
  <2>2. CASE k # 0
    <3>1. k - 1 \in D
        BY <1>2, <2>2
    <3>2. f[k] = g[k][f[next[k]]]
        BY <1>13, <2>2 DEF Recursive
    <3>. QED  BY <2>2, <3>1, <3>2, <1>10, <1>11
  <2>. QED  BY <2>1, <2>2
<1>15. f = Body(f)
    BY <1>14 DEF D
<1>16. Offset(o) = Body(Offset(o))
    BY <1>5, <1>15
<1>17. \A k \in D : Offset(o)[k] = IF k = 0 THEN 0 ELSE Offset(o)[k - 1] + Width(o[k])
    BY <1>16 DEF D
<1>18. DOMAIN Offset(o) = D /\ Offset(o) = [k \in D |-> Offset(o)[k]]
    BY <1>16 DEF D
<1>. DEFINE S == {k \in D : Offset(o)[k] \in EvenNumbers}
<1>19. \A k \in D : k \in S
  <2>1. {0} \subseteq S
      BY <1>1, <1>17 DEF EvenNumbers
  <2>2. \A k \in D \ {0} : next[k] \in S => k \in S
      BY <1>2, <1>4, <1>8, <1>11, <1>17
  <2>. HIDE DEF S
  <2>. QED  BY <1>1, <1>6, <2>1, <2>2, WalkInduction
<1>20. Offset(o) \in [D -> EvenNumbers]
    BY <1>18, <1>19
<1>21. 0 \in D /\ \A k \in 1 .. n : k \in D /\ k # 0
    BY <1>1
<1>. QED  BY <1>17, <1>20, <1>21 DEF D, n

LEMMA OffsetsGrow ==
    ASSUME NEW o \in Objects, NEW j \in 0 .. Len(o), NEW k \in 0 .. Len(o), j < k
    PROVE  Offset(o)[j] + Width(o[j + 1]) <= Offset(o)[k] /\ Offset(o)[j] + 2 <= Offset(o)[k]
<1>. DEFINE n == Len(o)
            e == Offset(o)
            S == {i \in 0 .. n : i > j => e[j + 1] <= e[i]}
<1>1. n \in Nat
    BY DEF Objects
<1>2. e \in [0 .. n -> EvenNumbers] /\ \A i \in 1 .. n : e[i] = e[i - 1] + Width(o[i])
    BY Offsets
<1>3. \A i \in 1 .. n : Width(o[i]) \in Nat /\ Width(o[i]) >= 2
    BY Widths DEF Objects, EvenNumbers
<1>4. j \in 0 .. n /\ k \in 0 .. n
    OBVIOUS
<1>. HIDE DEF n, e
<1>5. \A i \in 0 .. n : e[i] \in Nat
    BY <1>2 DEF EvenNumbers
<1>6. 0 \in S
    BY <1>1, <1>4
<1>7. ASSUME NEW i \in 0 .. n - 1, i \in S
      PROVE  i + 1 \in S
  <2>1. i + 1 \in 1 .. n /\ i + 1 \in 0 .. n /\ i \in 0 .. n /\ (i + 1) - 1 = i
      BY <1>1
  <2>2. e[i + 1] = e[i] + Width(o[i + 1]) /\ Width(o[i + 1]) \in Nat
      BY <2>1, <1>2, <1>3
  <2>3. e[i] <= e[i + 1]
      BY <2>1, <2>2, <1>5
  <2>4. ASSUME i + 1 > j
        PROVE  e[j + 1] <= e[i + 1]
    <3>1. CASE i = j
        BY <3>1, <2>1, <1>5
    <3>2. CASE i # j
      <4>0. i \in Int /\ j \in Int /\ n \in Int /\ i <= n /\ 0 <= j
          BY <2>1, <1>1, <1>4
      <4>1. i > j /\ j + 1 \in 0 .. n
          BY <4>0, <3>2, <2>4
      <4>2. e[j + 1] <= e[i]
          BY <4>1, <1>7
      <4>3. e[j + 1] \in Nat /\ e[i] \in Nat /\ e[i + 1] \in Nat
          BY <4>1, <2>1, <1>5
      <4>. QED  BY <4>2, <4>3, <2>3
    <3>. QED  BY <3>1, <3>2
  <2>. QED  BY <2>1, <2>4
<1>. HIDE DEF S
<1>8. k \in S
    BY <1>1, <1>4, <1>6, <1>7, Induction
<1>9. e[j + 1] <= e[k]
    BY <1>8 DEF S
<1>10. j + 1 \in 1 .. n /\ (j + 1) - 1 = j /\ j + 1 \in 0 .. n
    BY <1>1, <1>4
<1>11. e[j + 1] = e[j] + Width(o[j + 1]) /\ Width(o[j + 1]) \in Nat /\ Width(o[j + 1]) >= 2
    BY <1>2, <1>3, <1>10
<1>12. e[j] \in Nat /\ e[j + 1] \in Nat /\ e[k] \in Nat
    BY <1>4, <1>5, <1>10
<1>. QED  BY <1>9, <1>11, <1>12 DEF e

\* Objects in front of an object decide where it is.
LEMMA OffsetsOfPart ==
    ASSUME NEW o \in Objects, NEW q \in Objects, NEW j \in 0 .. Len(o), j <= Len(q),
           \A k \in 1 .. j : o[k] = q[k]
    PROVE  \A k \in 0 .. j : Offset(o)[k] = Offset(q)[k]
<1>. DEFINE S == {k \in 0 .. j : Offset(o)[k] = Offset(q)[k]}
<1>1. Len(o) \in Nat /\ Len(q) \in Nat /\ j \in Nat
    BY DEF Objects
<1>2. 0 \in S
    BY <1>1, Offsets
<1>3. ASSUME NEW k \in 0 .. j - 1, k \in S
      PROVE  k + 1 \in S
  <2>1. k + 1 \in 1 .. Len(o) /\ k + 1 \in 1 .. Len(q) /\ k + 1 \in 0 .. j /\ (k + 1) - 1 = k /\ k + 1 \in 1 .. j
      BY <1>1
  <2>2. Offset(o)[k + 1] = Offset(o)[k] + Width(o[k + 1])
      BY <2>1, Offsets
  <2>3. Offset(q)[k + 1] = Offset(q)[k] + Width(q[k + 1])
      BY <2>1, Offsets
  <2>. QED  BY <2>1, <2>2, <2>3, <1>3
<1>. HIDE DEF S
<1>4. \A k \in 0 .. j : k \in S
    BY <1>1, <1>2, <1>3, Induction
<1>. QED  BY <1>4 DEF S

\* q are the first c objects of o.
IsPart(q, o, c) ==
    /\ q \in Objects /\ c \in 0 .. Len(o) /\ Len(q) = c
    /\ \A k \in 1 .. c : q[k] = o[k]

\* The objects that are kept in front of p end there or before, the others behind it.
LEMMA KeptObjects ==
    ASSUME NEW p \in Int, objects \in Objects
    PROVE  \E c \in 0 .. Len(objects) :
                /\ IsPart(Kept(p), objects, c)
                /\ \A k \in 1 .. Len(objects) : Offset(objects)[k] <= p <=> k <= c
<1>. DEFINE n == Len(objects)
            e == Offset(objects)
            S == {m \in 0 .. n : \E c \in 0 .. m : \A k \in 1 .. m : e[k] <= p <=> k <= c}
<1>1. n \in Nat
    BY DEF Objects
<1>2. \A k \in 0 .. n : e[k] \in Nat
    BY Offsets DEF EvenNumbers
<1>3. \A j, k \in 0 .. n : j < k => e[j] <= e[k]
  <2>. SUFFICES ASSUME NEW j \in 0 .. n, NEW k \in 0 .. n, j < k
                PROVE  e[j] <= e[k]
      OBVIOUS
  <2>1. e[j] + 2 <= e[k]
      BY OffsetsGrow
  <2>. QED  BY <2>1, <1>2
<1>. HIDE DEF n, e
<1>4. 0 \in S
    BY <1>1
<1>5. ASSUME NEW m \in 0 .. n - 1, m \in S
      PROVE  m + 1 \in S
  <2>1. PICK c \in 0 .. m : \A k \in 1 .. m : e[k] <= p <=> k <= c
      BY <1>5
  <2>2. m + 1 \in 0 .. n /\ m \in Nat /\ \A k \in 1 .. m + 1 : k \in 1 .. m \/ k = m + 1
      BY <1>1
  <2>3. CASE e[m + 1] <= p
    <3>1. ASSUME NEW k \in 1 .. m + 1
          PROVE  e[k] <= p
      <4>1. k \in 0 .. n /\ (k = m + 1 \/ k < m + 1)
          BY <1>1
      <4>2. e[k] <= e[m + 1] \/ k = m + 1
          BY <4>1, <2>2, <1>3
      <4>3. e[k] \in Nat /\ e[m + 1] \in Nat
          BY <4>1, <2>2, <1>2
      <4>. QED  BY <4>2, <4>3, <2>3
    <3>2. \A k \in 1 .. m + 1 : e[k] <= p <=> k <= m + 1
        BY <3>1
    <3>3. m + 1 \in 0 .. m + 1
        BY <2>2
    <3>. QED  BY <3>2, <3>3, <2>2
  <2>4. CASE ~(e[m + 1] <= p)
    <3>1. c \in 0 .. m + 1 /\ ~(m + 1 <= c)
        BY <2>2
    <3>2. \A k \in 1 .. m + 1 : e[k] <= p <=> k <= c
        BY <2>1, <2>2, <2>4, <3>1
    <3>. QED  BY <3>1, <3>2, <2>2
  <2>. QED  BY <2>3, <2>4
<1>6. n \in 0 .. n
    BY <1>1
<1>. HIDE DEF S
<1>7. n \in S
    BY <1>1, <1>4, <1>5, <1>6, Induction
<1>8. PICK c \in 0 .. n : \A k \in 1 .. n : e[k] <= p <=> k <= c
    BY <1>7 DEF S
<1>9. {k \in 1 .. n : e[k] <= p} = 1 .. c
  <2>1. c \in Nat /\ c <= n
      BY <1>1
  <2>. QED  BY <2>1, <1>1, <1>8
<1>10. Cardinality(1 .. c) = c
  <2>1. c \in Int /\ 1 \in Int /\ c >= 0
      BY <1>1
  <2>2. Cardinality(1 .. c) = IF 1 > c THEN 0 ELSE c - 1 + 1
      BY <2>1, FS_Interval
  <2>. QED  BY <2>1, <2>2
<1>11. Kept(p) = SubSeq(objects, 1, c)
    BY <1>9, <1>10 DEF Kept, n, e
<1>12. IsPart(SubSeq(objects, 1, c), objects, c)
    BY <1>1 DEF IsPart, Objects, n
<1>. QED  BY <1>8, <1>11, <1>12 DEF n, e
-----------------------------------------------------------------------------
(* Writing to the file                                                     *)

Bytes == [0 .. Capacity - 1 -> Nat]

Drives == [position : Int, location : Int, record : Nat, start : Int, bytes : Nat,
           remaining : Int, initial : BOOLEAN, fixed : BOOLEAN]

\* The size of the file is within its limits.
SizeOK(n) == n <= Pad(maxSize) \/ n = Capacity \/ \E s \in Files : n = s[1] /\ maxSize = s[2]

\* The file f has n bytes.
FileOK(f, n) ==
    /\ f \in Bytes /\ n \in 0 .. Capacity /\ SizeOK(n)
    /\ \A i \in 0 .. Capacity - 1 : i >= n => f[i] = 0

States == [ok : BOOLEAN, drive : Drives, file : Bytes, size : Nat]

Sound(s) == s \in States /\ FileOK(s.file, s.size)

\* At(p) in the file f with n bytes
Word(f, n, p) ==
    IF p + 2 <= n THEN MetaData(f[p + 1], f[p]) ELSE MetaData(ReservedMarker, EndOfMedium)

\* From s to w the file has only changed at p and behind it.
Extends(s, w, p) ==
    /\ s.size <= w.size
    /\ \A i \in 0 .. Capacity - 1 : i < p => w.file[i] = s.file[i]

\* The bytes have been written at p.
Wrote(w, p, bytes) ==
    /\ p >= 0 /\ p + Len(bytes) <= w.size
    /\ \A i \in 1 .. Len(bytes) : w.file[p + i - 1] = bytes[i]

EndOfData == MetaData(PrivateMarker, EndOfDataMagic)

\* What is assumed about the state when something is written
Configured ==
    /\ TapeAssumption /\ tar \in BOOLEAN
    /\ maxSize \in 0 .. Capacity /\ fileSize \in 0 .. Capacity

LEMMA Sizes ==
    Capacity \in Nat /\ BlockSize \in Nat \ {0} /\ BlockSize % 2 = 0
BY TapeAssumption DEF TapeAssumption

LEMMA ExtendsOn ==
    ASSUME NEW s, Sound(s), NEW v, Sound(v), NEW w, Sound(w), NEW p \in Int, NEW q \in Int, p <= q,
           Extends(s, v, p), Extends(v, w, q)
    PROVE  Extends(s, w, p)
<1>1. s.size \in Nat /\ v.size \in Nat /\ w.size \in Nat
    BY DEF Sound, States
<1>2. ASSUME NEW i \in 0 .. Capacity - 1, i < p
      PROVE  w.file[i] = s.file[i]
  <2>1. i \in Int /\ i < q
      BY <1>2
  <2>. QED  BY <2>1, <1>2 DEF Extends
<1>. QED  BY <1>1, <1>2 DEF Extends

LEMMA ExtendsSelf ==
    ASSUME NEW s, Sound(s), NEW w, Sound(w), w.file = s.file, w.size = s.size, NEW p
    PROVE  Extends(s, w, p)
BY DEF Extends, Sound, States

\* Words and bytes in front of p stay.
LEMMA WordStays ==
    ASSUME NEW s, Sound(s), NEW w, Sound(w), NEW p \in Int, Extends(s, w, p),
           NEW q \in Int, q >= 0, q + 2 <= p, q + 2 <= s.size
    PROVE  Word(w.file, w.size, q) = Word(s.file, s.size, q)
<1>1. s.size \in 0 .. Capacity /\ w.size \in 0 .. Capacity /\ s.size <= w.size
    BY DEF Sound, FileOK, Extends
<1>2. Capacity \in Int
    BY Sizes
<1>3. q \in 0 .. Capacity - 1 /\ q + 1 \in 0 .. Capacity - 1 /\ q < p /\ q + 1 < p /\ q + 2 <= w.size
    BY <1>1, <1>2
<1>4. w.file[q] = s.file[q] /\ w.file[q + 1] = s.file[q + 1]
    BY <1>3 DEF Extends
<1>. QED  BY <1>3, <1>4 DEF Word

LEMMA BytesStay ==
    ASSUME NEW s, Sound(s), NEW w, Sound(w), NEW p \in Int, Extends(s, w, p),
           NEW q \in Int, NEW bytes \in Seq(Nat), Wrote(s, q, bytes), q + Len(bytes) <= p
    PROVE  Wrote(w, q, bytes)
<1>1. s.size \in 0 .. Capacity /\ w.size \in 0 .. Capacity /\ s.size <= w.size
    BY DEF Sound, FileOK, Extends
<1>2. Len(bytes) \in Nat /\ q >= 0 /\ q + Len(bytes) <= s.size /\ Capacity \in Nat
    BY Sizes DEF Wrote
<1>3. ASSUME NEW i \in 1 .. Len(bytes)
      PROVE  w.file[q + i - 1] = bytes[i]
  <2>1. q + i - 1 \in 0 .. Capacity - 1 /\ q + i - 1 < p
      BY <1>1, <1>2
  <2>2. w.file[q + i - 1] = s.file[q + i - 1]
      BY <2>1 DEF Extends
  <2>. QED  BY <2>2 DEF Wrote
<1>4. q + Len(bytes) <= w.size
    BY <1>1, <1>2
<1>. QED  BY <1>2, <1>3, <1>4 DEF Wrote

LEMMA PutWithinEffect ==
    ASSUME Configured, NEW s, Sound(s), NEW bytes \in Seq(Nat),
           SizeOK(s.drive.position + Len(bytes)) \/ s.drive.position + Len(bytes) <= s.size,
           NEW w, w = Put(s, bytes)
    PROVE  /\ Sound(w) /\ w.drive = s.drive
           /\ Extends(s, w, s.drive.position)
           /\ w.ok => s.ok /\ Wrote(w, s.drive.position, bytes)
<1>. DEFINE p == s.drive.position
            e == p + Len(bytes)
<1>1. /\ s.ok \in BOOLEAN /\ s.drive \in Drives /\ s.file \in Bytes /\ s.size \in 0 .. Capacity
      /\ s \in States /\ Capacity \in Nat /\ p \in Int /\ Len(bytes) \in Nat /\ e \in Int /\ e >= p
      /\ SizeOK(s.size) /\ SizeOK(Capacity)
      /\ \A i \in 0 .. Capacity - 1 : i >= s.size => s.file[i] = 0
    BY DEF Sound, FileOK, States, Drives, Configured, TapeAssumption, SizeOK
<1>2. CASE p < 0
  <2>1. w = [s EXCEPT !.ok = FALSE]
      BY <1>2 DEF Put
  <2>2. w \in States /\ w.ok = FALSE /\ w.drive = s.drive /\ w.file = s.file /\ w.size = s.size
      BY <1>1, <2>1 DEF States
  <2>3. Sound(w)
      BY <1>1, <2>2 DEF Sound, FileOK
  <2>. QED  BY <2>2, <2>3, ExtendsSelf
<1>3. CASE p >= 0
  <2>. DEFINE f == [i \in DOMAIN s.file |-> IF i >= p /\ i < e THEN bytes[i - p + 1] ELSE s.file[i]]
              n == IF e > Capacity THEN Capacity ELSE IF e > s.size THEN e ELSE s.size
  <2>1. w = [s EXCEPT !.ok = s.ok /\ e <= Capacity, !.file = f, !.size = n]
      BY <1>1, <1>3 DEF Put
  <2>2. ASSUME NEW i \in 0 .. Capacity - 1, i >= p, i < e
        PROVE  i - p + 1 \in 1 .. Len(bytes) /\ bytes[i - p + 1] \in Nat
    <3>1. i - p + 1 \in 1 .. Len(bytes)
      <4>1. i \in Int /\ p \in Int /\ e = p + Len(bytes) /\ Len(bytes) \in Nat
          BY <1>1
      <4>. HIDE DEF p, e
      <4>. QED  BY <4>1, <2>2
    <3>. QED  BY <3>1
  <2>3. f \in Bytes /\ DOMAIN s.file = 0 .. Capacity - 1
      BY <1>1, <2>2 DEF Bytes
  <2>4. n \in 0 .. Capacity /\ s.size <= n /\ (IF e <= Capacity THEN e <= n ELSE n = Capacity) /\ SizeOK(n) /\ n \in Nat
      BY <1>1, <1>3
  <2>5. \A i \in 0 .. Capacity - 1 : f[i] = IF i >= p /\ i < e THEN bytes[i - p + 1] ELSE s.file[i]
      BY <2>3
  <2>. HIDE DEF f, n
  <2>6. /\ w \in States /\ w.ok = (s.ok /\ e <= Capacity) /\ w.drive = s.drive /\ w.file = f /\ w.size = n
      BY <1>1, <2>1, <2>3, <2>4 DEF States
  <2>7. ASSUME NEW i \in 0 .. Capacity - 1, i >= n
        PROVE  f[i] = 0
    <3>1. ~(i < e) /\ i >= s.size
      <4>1. i < Capacity /\ i \in Int
          BY <1>1
      <4>. QED  BY <1>1, <2>4, <2>7, <4>1
    <3>. QED  BY <3>1, <2>5, <1>1
  <2>8. Sound(w)
      BY <2>3, <2>4, <2>6, <2>7 DEF Sound, FileOK
  <2>9. Extends(s, w, p)
    <3>1. \A i \in 0 .. Capacity - 1 : i < p => ~(i >= p)
        BY <1>1
    <3>. QED  BY <2>4, <2>5, <2>6, <3>1 DEF Extends
  <2>10. ASSUME w.ok
         PROVE  s.ok /\ Wrote(w, p, bytes)
    <3>1. s.ok /\ e <= Capacity
        BY <2>6, <2>10
    <3>2. ASSUME NEW i \in 1 .. Len(bytes)
          PROVE  f[p + i - 1] = bytes[i]
      <4>1. PICK k : k = p + i - 1
          OBVIOUS
      <4>2. k \in 0 .. Capacity - 1 /\ k >= p /\ k < e /\ k - p + 1 = i
        <5>1. /\ Capacity \in Int /\ p \in Int /\ e = p + Len(bytes) /\ Len(bytes) \in Int
              /\ p >= 0 /\ e <= Capacity /\ i \in Int /\ i >= 1 /\ i <= Len(bytes)
            BY <1>1, <1>3, <3>1
        <5>. HIDE DEF p, e
        <5>. QED  BY <5>1, <4>1
      <4>3. f[k] = bytes[k - p + 1]
          BY <4>2, <2>5
      <4>. QED  BY <4>1, <4>2, <4>3
    <3>. QED  BY <1>3, <2>4, <2>6, <3>1, <3>2 DEF Wrote
  <2>. QED  BY <2>6, <2>8, <2>9, <2>10
<1>. QED  BY <1>1, <1>2, <1>3

LEMMA PutEffect ==
    ASSUME Configured, NEW s, Sound(s), NEW bytes \in Seq(Nat),
           SizeOK(s.drive.position + Len(bytes)), NEW w, w = Put(s, bytes)
    PROVE  /\ Sound(w) /\ w.drive = s.drive
           /\ Extends(s, w, s.drive.position)
           /\ w.ok => s.ok /\ Wrote(w, s.drive.position, bytes)
BY PutWithinEffect

LEMMA PutSucceeds ==
    ASSUME NEW s, Sound(s), NEW bytes \in Seq(Nat), s.ok, s.drive.position >= 0,
           s.drive.position + Len(bytes) <= Capacity, NEW w, w = Put(s, bytes)
    PROVE  w.ok
<1>. DEFINE p == s.drive.position
            e == p + Len(bytes)
            f == [i \in DOMAIN s.file |-> IF i >= p /\ i < e THEN bytes[i - p + 1] ELSE s.file[i]]
            n == IF e > Capacity THEN Capacity ELSE IF e > s.size THEN e ELSE s.size
<1>1. p \in Int /\ ~(p < 0) /\ s \in States
    BY DEF Sound, States, Drives
<1>2. w = [s EXCEPT !.ok = s.ok /\ e <= Capacity, !.file = f, !.size = n]
    BY <1>1 DEF Put
<1>. HIDE DEF f, n
<1>3. w.ok = (s.ok /\ e <= Capacity)
    BY <1>1, <1>2 DEF States
<1>. QED  BY <1>3

\* A state and one in which its flag is cleared
LEMMA Fail ==
    ASSUME NEW s, Sound(s), NEW w, w = [s EXCEPT !.ok = FALSE]
    PROVE  Sound(w) /\ ~w.ok /\ w.drive = s.drive /\ w.file = s.file /\ w.size = s.size
BY DEF Sound, States

\* The drive d at the position p
Placed(d, p) == [d EXCEPT !.position = p]

LEMMA PlacedDrive ==
    ASSUME NEW d \in Drives, NEW p \in Int
    PROVE  /\ Placed(d, p) \in Drives /\ Placed(d, p).position = p
           /\ Placed(d, p).location = d.location /\ Placed(d, p).record = d.record
           /\ Placed(d, p).bytes = d.bytes /\ Placed(d, p).remaining = d.remaining
           /\ Placed(d, p).initial = d.initial /\ Placed(d, p).fixed = d.fixed
           /\ \A q \in Int : Placed(Placed(d, q), p) = Placed(d, p)
           /\ Placed(d, d.position) = d
BY DEF Placed, Drives

\* The drive d at the position p after n bytes of data
Filled(d, p, n) == [d EXCEPT !.position = p, !.remaining = @ - n]

\* The drive d at the position p behind a block
Completed(d, p) == [d EXCEPT !.position = p, !.location = @ + 1]

LEMMA Forward ==
    ASSUME NEW s, Sound(s), NEW n \in Int, NEW w, w = Step(s, n)
    PROVE  /\ Sound(w) /\ w.ok = s.ok /\ w.file = s.file /\ w.size = s.size
           /\ w.drive = Placed(s.drive, s.drive.position + n)
BY DEF Sound, States, Step, Drives, Placed

\* A word of meta data
LEMMA PutMetaDataEffect ==
    ASSUME Configured, NEW s, Sound(s), NEW cls \in Nat, NEW value \in Nat,
           NEW p, p = s.drive.position, NEW w, w = PutMetaData(s, cls, value)
    PROVE  /\ Sound(w) /\ w.drive = s.drive /\ Extends(s, w, p)
           /\ w.ok => /\ s.ok /\ p >= 0 /\ p + 2 <= w.size
                      /\ Word(w.file, w.size, p) = MetaData(cls, value)
           /\ ~w.ok => w.file = s.file /\ w.size = s.size
           /\ Overflow(s, p + META_DATA_SIZE) => ~w.ok
<1>1. p \in Int /\ s.ok \in BOOLEAN /\ maxSize \in 0 .. Capacity /\ META_DATA_SIZE = 2
    BY DEF Sound, States, Drives, Configured, META_DATA_SIZE
<1>2. CASE ~s.ok \/ Overflow(s, p + META_DATA_SIZE)
  <2>1. w = [s EXCEPT !.ok = FALSE]
      BY <1>2 DEF PutMetaData
  <2>2. Sound(w) /\ ~w.ok /\ w.drive = s.drive /\ w.file = s.file /\ w.size = s.size
      BY <2>1, Fail
  <2>. QED  BY <2>2, ExtendsSelf
<1>3. CASE ~(~s.ok \/ Overflow(s, p + META_DATA_SIZE))
  <2>. DEFINE bytes == <<value, cls>>
  <2>1. w = Put(s, bytes)
      BY <1>3 DEF PutMetaData
  <2>2. bytes \in Seq(Nat) /\ Len(bytes) = 2 /\ bytes[1] = value /\ bytes[2] = cls
      OBVIOUS
  <2>3. p + (p + 2) <= maxSize
      BY <1>1, <1>3 DEF Overflow
  <2>. HIDE DEF bytes
  <2>4. CASE p < 0
    <3>1. w = [s EXCEPT !.ok = FALSE]
        BY <2>1, <2>4 DEF Put
    <3>2. Sound(w) /\ ~w.ok /\ w.drive = s.drive /\ w.file = s.file /\ w.size = s.size
        BY <3>1, Fail
    <3>. QED  BY <1>3, <3>2, ExtendsSelf
  <2>5. CASE p >= 0
    <3>1. p + 2 <= maxSize
        BY <1>1, <2>3, <2>5
    <3>2. maxSize <= Pad(maxSize) /\ Pad(maxSize) \in Nat
        BY <1>1, Padded DEF EvenNumbers
    <3>3. SizeOK(p + Len(bytes))
        BY <1>1, <2>2, <3>1, <3>2 DEF SizeOK
    <3>4. /\ Sound(w) /\ w.drive = s.drive /\ Extends(s, w, p)
          /\ w.ok => s.ok /\ Wrote(w, p, bytes)
      <4>1. SizeOK(s.drive.position + Len(bytes)) /\ bytes \in Seq(Nat)
          BY <2>2, <3>3
      <4>2. /\ Sound(w) /\ w.drive = s.drive /\ Extends(s, w, s.drive.position)
            /\ w.ok => s.ok /\ Wrote(w, s.drive.position, bytes)
          BY <2>1, <4>1, PutEffect
      <4>. QED  BY <4>2
    <3>6. w.ok
      <4>1. s.drive.position + Len(bytes) <= Capacity /\ s.drive.position >= 0 /\ s.ok
          BY <1>1, <1>3, <2>2, <2>5, <3>1, Sizes
      <4>. QED  BY <2>1, <2>2, <4>1, PutSucceeds
    <3>5. ASSUME w.ok
          PROVE  p + 2 <= w.size /\ Word(w.file, w.size, p) = MetaData(cls, value)
      <4>1. Wrote(w, p, bytes)
          BY <3>4, <3>5
      <4>2. p + 2 <= w.size /\ \A i \in 1 .. 2 : w.file[p + i - 1] = bytes[i]
          BY <4>1, <2>2 DEF Wrote
      <4>3. p + 1 - 1 = p /\ p + 2 - 1 = p + 1 /\ 1 \in 1 .. 2 /\ 2 \in 1 .. 2
          BY <1>1
      <4>4. w.file[p] = value /\ w.file[p + 1] = cls
          BY <4>2, <4>3, <2>2
      <4>. QED  BY <4>2, <4>4 DEF Word
    <3>. QED  BY <1>3, <2>5, <3>4, <3>5, <3>6
  <2>. QED  BY <1>1, <2>4, <2>5
<1>. QED  BY <1>2, <1>3

LEMMA PutEndOfDataEffect ==
    ASSUME Configured, NEW s, Sound(s), NEW p, p = s.drive.position, NEW w, w = PutEndOfData(s)
    PROVE  /\ Sound(w) /\ w.drive = s.drive /\ Extends(s, w, p)
           /\ w.ok => s.ok
           /\ w.ok /\ ~tar /\ p + 2 <= fileSize => Word(w.file, w.size, p) = EndOfData
<1>1. CASE s.ok /\ ~tar /\ EndOfDataFits(s)
  <2>1. w = PutMetaData(s, PrivateMarker, EndOfDataMagic)
      BY <1>1 DEF PutEndOfData
  <2>2. PrivateMarker \in Nat /\ EndOfDataMagic \in Nat
      BY DEF PrivateMarker, EndOfDataMagic
  <2>. QED  BY <2>1, <2>2, PutMetaDataEffect DEF EndOfData
<1>2. CASE ~(s.ok /\ ~tar /\ EndOfDataFits(s))
  <2>1. w = s
      BY <1>2 DEF PutEndOfData
  <2>2. s.drive.position \in Int /\ fileSize \in Int
      BY DEF Sound, States, Drives, Configured
  <2>3. s.ok /\ ~tar => ~(s.drive.position + 2 <= fileSize)
      BY <1>2, <2>2 DEF EndOfDataFits, META_DATA_SIZE
  <2>. QED  BY <2>1, <2>3, ExtendsSelf
<1>. QED  BY <1>1, <1>2
\* The leading length of a block, or a filemark, has been written at p.
Marked(s, w, p, length) ==
    /\ p >= 0 /\ p + 2 <= w.size
    /\ w.drive = Placed(s.drive, p + 2)
    /\ Word(w.file, w.size, p) = MetaData(Good, length)

LEMMA PutObjectEffect ==
    ASSUME Configured, ~tar, NEW s, Sound(s), NEW length \in Nat,
           NEW p, p = s.drive.position, NEW w, w = PutObject(s, length)
    PROVE  /\ Sound(w) /\ Extends(s, w, p)
           /\ (w.drive = s.drive /\ ~w.ok /\ w.file = s.file /\ w.size = s.size) \/ Marked(s, w, p, length)
           /\ w.ok => /\ s.ok /\ Marked(s, w, p, length)
                      /\ p + 4 <= fileSize => Word(w.file, w.size, p + 2) = EndOfData
           /\ Overflow(s, p + META_DATA_SIZE) => ~w.ok /\ w.file = s.file /\ w.size = s.size
<1>. DEFINE v == PutMetaData(s, Good, length)
            x == Step(v, 2)
<1>1. p \in Int /\ Good \in Nat
    BY DEF Sound, States, Drives, Good
<1>2. /\ Sound(v) /\ v.drive = s.drive /\ Extends(s, v, p)
      /\ v.ok => /\ s.ok /\ p >= 0 /\ p + 2 <= v.size
                 /\ Word(v.file, v.size, p) = MetaData(Good, length)
      /\ ~v.ok => v.file = s.file /\ v.size = s.size
      /\ Overflow(s, p + META_DATA_SIZE) => ~v.ok
    BY <1>1, PutMetaDataEffect
<1>3. w = PutEndOfData(IF v.ok THEN x ELSE v)
    BY DEF PutObject, META_DATA_SIZE
<1>. HIDE DEF v
<1>4. CASE ~v.ok
  <2>1. w = v
      BY <1>3, <1>4 DEF PutEndOfData
  <2>. QED  BY <2>1, <1>2, <1>4
<1>5. CASE v.ok
  <2>1. w = PutEndOfData(x)
      BY <1>3, <1>5
  <2>2. /\ Sound(x) /\ x.ok = v.ok /\ x.file = v.file /\ x.size = v.size
        /\ x.drive = Placed(s.drive, p + 2)
    <3>1. 2 \in Int
        OBVIOUS
    <3>. QED  BY <3>1, <1>2, Forward
  <2>3. x.drive.position = p + 2
    <3>1. s.drive \in Drives /\ p + 2 \in Int
        BY <1>1 DEF Sound, States
    <3>. QED  BY <3>1, <2>2, PlacedDrive
  <2>4. p + 2 = x.drive.position
      BY <2>3
  <2>. HIDE DEF x
  <2>5. /\ Sound(w) /\ w.drive = x.drive /\ Extends(x, w, p + 2)
        /\ w.ok => x.ok
        /\ w.ok /\ ~tar /\ (p + 2) + 2 <= fileSize => Word(w.file, w.size, p + 2) = EndOfData
      BY <2>1, <2>2, <2>4, PutEndOfDataEffect
  <2>6. Extends(s, x, p)
      BY <1>2, <2>2 DEF Extends
  <2>7. p + 2 \in Int /\ p <= p + 2 /\ (p + 2) + 2 = p + 4
      BY <1>1
  <2>8. Extends(s, w, p)
      BY <1>1, <2>2, <2>5, <2>6, <2>7, ExtendsOn
  <2>9. Word(w.file, w.size, p) = Word(x.file, x.size, p)
      BY <1>1, <1>2, <1>5, <2>2, <2>5, <2>7, WordStays
  <2>10. p + 2 <= w.size
    <3>1. x.size <= w.size /\ x.size \in Int /\ w.size \in Int
        BY <2>2, <2>5 DEF Extends, Sound, States
    <3>. QED  BY <3>1, <1>1, <1>2, <1>5, <2>2
  <2>11. Marked(s, w, p, length)
      BY <1>2, <1>5, <2>2, <2>5, <2>9, <2>10 DEF Marked
  <2>12. ~Overflow(s, p + META_DATA_SIZE)
      BY <1>2, <1>5
  <2>. QED  BY <1>2, <1>5, <2>5, <2>7, <2>8, <2>11, <2>12
<1>. QED  BY <1>4, <1>5

\* The parts of WriteData()
WithLength(d) == IF AtRecordBoundary(d) THEN PutObject(State([d EXCEPT !.initial = FALSE]), d.record)
                 ELSE State([d EXCEPT !.initial = FALSE])

WithData(s, bytes) ==
    IF ~s.ok \/ Overflow(s, Len(bytes)) THEN [s EXCEPT !.ok = FALSE]
    ELSE [Step(Put(s, bytes), Len(bytes)) EXCEPT !.drive.remaining = @ - Len(bytes)]

WithTail(s) == IF s.ok /\ AtRecordBoundary(s.drive) THEN PutTrailingLength(s) ELSE s

WithEnd(s) == IF s.ok /\ s.drive.remaining = 0 THEN PutEndOfData(s) ELSE s

LEMMA WriteDataParts ==
    ASSUME NEW d, NEW bytes
    PROVE  WriteData(d, bytes) = WithEnd(WithTail(WithData(WithLength(d), bytes)))
BY DEF WriteData, WithEnd, WithTail, WithData, WithLength

LEMMA WithDataEffect ==
    ASSUME Configured, NEW s, Sound(s), NEW bytes \in Seq(Nat),
           NEW p, p = s.drive.position, NEW w, w = WithData(s, bytes)
    PROVE  /\ Sound(w) /\ Extends(s, w, p)
           /\ \/ w.drive = s.drive /\ ~w.ok
              \/ w.drive = Filled(s.drive, p + Len(bytes), Len(bytes))
           /\ w.ok => s.ok /\ Wrote(w, p, bytes) /\ p + Len(bytes) <= maxSize
<1>. DEFINE n == Len(bytes)
<1>1. p \in Int /\ n \in Nat /\ maxSize \in Nat
    BY DEF Sound, States, Drives, Configured
<1>2. CASE ~s.ok \/ Overflow(s, n)
  <2>1. w = [s EXCEPT !.ok = FALSE]
      BY <1>2 DEF WithData
  <2>2. Sound(w) /\ ~w.ok /\ w.drive = s.drive /\ w.file = s.file /\ w.size = s.size
      BY <2>1, Fail
  <2>. QED  BY <2>2, ExtendsSelf
<1>3. CASE s.ok /\ ~Overflow(s, n)
  <2>. DEFINE v == Put(s, bytes)
  <2>1. w = [Step(v, n) EXCEPT !.drive.remaining = @ - n]
      BY <1>3 DEF WithData
  <2>2. p + n <= maxSize
      BY <1>1, <1>3 DEF Overflow
  <2>3. SizeOK(p + n)
    <3>1. maxSize <= Pad(maxSize) /\ Pad(maxSize) \in Nat
        BY <1>1, Padded DEF EvenNumbers
    <3>. QED  BY <1>1, <2>2, <3>1 DEF SizeOK
  <2>4. Sound(v) /\ v.drive = s.drive /\ Extends(s, v, p) /\ (v.ok => s.ok /\ Wrote(v, p, bytes))
      BY <2>3, PutEffect
  <2>. HIDE DEF v
  <2>5. /\ w \in States /\ w.ok = v.ok /\ w.file = v.file /\ w.size = v.size
        /\ w.drive = Filled(s.drive, p + n, n)
    <3>. DEFINE u == Step(v, n)
    <3>1. /\ Sound(u) /\ u.ok = v.ok /\ u.file = v.file /\ u.size = v.size
          /\ u.drive = Placed(s.drive, p + n)
      <4>1. PICK m : m = n
          OBVIOUS
      <4>2. u = Step(v, m) /\ m \in Int /\ Sound(v)
          BY <1>1, <2>4, <4>1
      <4>. HIDE DEF u, n
      <4>3. /\ Sound(u) /\ u.ok = v.ok /\ u.file = v.file /\ u.size = v.size
            /\ u.drive = Placed(v.drive, v.drive.position + m)
          BY <4>2, Forward
      <4>. QED  BY <2>4, <4>1, <4>3
    <3>2. w = [u EXCEPT !.drive.remaining = @ - n]
        BY <2>1
    <3>. HIDE DEF u
    <3>3. s.drive \in Drives /\ p + n \in Int
        BY <1>1 DEF Sound, States
    <3>4. n \in Int
        BY <1>1
    <3>. DEFINE c == [u.drive EXCEPT !.remaining = @ - n]
    <3>. HIDE DEF n
    <3>7. u \in States /\ u.drive \in Drives /\ w = [u EXCEPT !.drive = c]
        BY <3>1, <3>2 DEF Sound, States
    <3>8. c \in Drives
      <4>1. u.drive.remaining - n \in Int
          BY <3>4, <3>7 DEF Drives
      <4>. QED  BY <3>7, <4>1 DEF Drives
    <3>. HIDE DEF c
    <3>5. /\ w \in States /\ w.ok = u.ok /\ w.file = u.file /\ w.size = u.size
          /\ w.drive = c
        BY <3>7, <3>8 DEF States
    <3>. USE DEF c
    <3>6. [u.drive EXCEPT !.remaining = @ - n] = Filled(s.drive, p + n, n)
        BY <3>1, <3>3, <3>4 DEF Placed, Filled, Drives
    <3>. QED  BY <3>1, <3>5, <3>6
  <2>6. Sound(w)
      BY <2>4, <2>5 DEF Sound
  <2>7. Extends(s, w, p) /\ (w.ok => s.ok /\ Wrote(w, p, bytes))
      BY <2>4, <2>5 DEF Extends, Wrote
  <2>. QED  BY <2>2, <2>4, <2>5, <2>6, <2>7
<1>. QED  BY <1>1, <1>2, <1>3 DEF Sound, States

LEMMA PutTrailingLengthEffect ==
    ASSUME Configured, NEW s, Sound(s), NEW p, p = s.drive.position, p \in 0 .. maxSize,
           s.drive.record \in Nat, NEW w, w = PutTrailingLength(s)
    PROVE  /\ Sound(w) /\ Extends(s, w, p) /\ (w.ok => s.ok)
           /\ ~w.ok => w.drive.location = s.drive.location
           /\ w.ok => /\ w.drive = Completed(s.drive, Pad(p) + 2)
                      /\ Pad(p) + 2 <= w.size
                      /\ Word(w.file, w.size, Pad(p)) = MetaData(Good, s.drive.record)
<1>. DEFINE x == IF p % 2 = 1 THEN Step(Put(s, <<0>>), 1) ELSE s
            v == PutMetaData(x, Good, s.drive.record)
            t == Pad(p)
<1>1. p \in Nat /\ maxSize \in Nat /\ Good \in Nat
    BY DEF Configured, Good
<1>2. /\ Sound(x) /\ (x.ok => s.ok) /\ Extends(s, x, p) /\ x.drive.position = t
      /\ x.drive = Placed(s.drive, t)
  <2>1. CASE p % 2 = 1
    <3>. DEFINE y == Put(s, <<0>>)
    <3>1. x = Step(y, 1) /\ 1 \in Int
        BY <2>1
    <3>2. <<0>> \in Seq(Nat) /\ Len(<<0>>) = 1
        OBVIOUS
    <3>3. t = p + 1
        BY <1>1, <2>1, Padded
    <3>4. p + 1 <= Pad(maxSize)
      <4>1. CASE p = maxSize
          BY <4>1, <3>3
      <4>2. CASE p # maxSize
        <5>1. maxSize <= Pad(maxSize) /\ Pad(maxSize) \in Nat
            BY <1>1, Padded DEF EvenNumbers
        <5>. QED  BY <1>1, <4>2, <5>1
      <4>. QED  BY <4>1, <4>2
    <3>5. SizeOK(p + Len(<<0>>))
        BY <3>2, <3>4 DEF SizeOK
    <3>6. Sound(y) /\ y.drive = s.drive /\ Extends(s, y, p) /\ (y.ok => s.ok)
        BY <3>2, <3>5, PutEffect
    <3>. HIDE DEF y, x
    <3>7. Sound(x) /\ x.ok = y.ok /\ x.file = y.file /\ x.size = y.size /\ x.drive = Placed(s.drive, p + 1)
      <4>1. PICK one \in Int : one = 1
          OBVIOUS
      <4>2. x = Step(y, one)
          BY <3>1, <4>1
      <4>5. Sound(y)
          BY <3>6
      <4>3. /\ Sound(x) /\ x.ok = y.ok /\ x.file = y.file /\ x.size = y.size
            /\ x.drive = Placed(y.drive, y.drive.position + one)
          BY <4>2, <4>5, Forward
      <4>4. y.drive = s.drive /\ y.drive.position = p
          BY <3>6
      <4>. QED  BY <4>1, <4>3, <4>4
    <3>8. x.drive.position = p + 1
      <4>1. s.drive \in Drives /\ p + 1 \in Int
          BY <1>1 DEF Sound, States
      <4>. QED  BY <4>1, <3>7, PlacedDrive
    <3>9. Extends(s, x, p)
        BY <3>6, <3>7 DEF Extends
    <3>. QED  BY <3>3, <3>6, <3>7, <3>8, <3>9
  <2>2. CASE p % 2 # 1
    <3>1. x = s
        BY <2>2
    <3>2. t = p
        BY <1>1, <2>2, Padded
    <3>3. s.drive \in Drives /\ p \in Int
        BY <1>1 DEF Sound, States
    <3>4. s.drive = Placed(s.drive, p)
        BY <3>3, PlacedDrive
    <3>. QED  BY <3>1, <3>2, <3>4, ExtendsSelf
  <2>. QED  BY <2>1, <2>2
<1>3. w = IF v.ok THEN [Step(v, 2) EXCEPT !.drive.location = @ + 1] ELSE v
    BY DEF PutTrailingLength, META_DATA_SIZE
<1>4. t \in Nat /\ p <= t
    BY <1>1, Padded DEF EvenNumbers
<1>. HIDE DEF x, t
<1>5. /\ Sound(v) /\ v.drive = x.drive /\ Extends(x, v, t)
      /\ v.ok => /\ x.ok /\ t >= 0 /\ t + 2 <= v.size
                 /\ Word(v.file, v.size, t) = MetaData(Good, s.drive.record)
  <2>1. s.drive.record \in Nat /\ t = x.drive.position
      BY <1>2
  <2>. QED  BY <1>1, <1>2, <2>1, PutMetaDataEffect
<1>. HIDE DEF v
<1>6. Extends(s, v, p)
    BY <1>1, <1>2, <1>4, <1>5, ExtendsOn
<1>7. s.drive \in Drives /\ v.drive = Placed(s.drive, t) /\ v.drive.location = s.drive.location
  <2>1. s.drive \in Drives
      BY DEF Sound, States
  <2>. QED  BY <2>1, <1>2, <1>4, <1>5, PlacedDrive
<1>8. CASE ~v.ok
  <2>1. w = v
      BY <1>3, <1>8
  <2>. QED  BY <2>1, <1>5, <1>6, <1>7, <1>8
<1>9. CASE v.ok
  <2>1. w = [Step(v, 2) EXCEPT !.drive.location = @ + 1]
      BY <1>3, <1>9
  <2>2. /\ w \in States /\ w.ok = v.ok /\ w.file = v.file /\ w.size = v.size
        /\ w.drive = Completed(s.drive, t + 2)
    <3>. DEFINE u == Step(v, 2)
    <3>1. v.drive.position = t /\ 2 \in Int /\ t + 2 \in Int
        BY <1>4, <1>7, PlacedDrive
    <3>2. /\ Sound(u) /\ u.ok = v.ok /\ u.file = v.file /\ u.size = v.size
          /\ u.drive = Placed(v.drive, t + 2)
      <4>1. PICK two \in Int : two = 2
          OBVIOUS
      <4>2. u = Step(v, two)
          BY <4>1
      <4>. HIDE DEF u
      <4>5. Sound(v)
          BY <1>5
      <4>3. /\ Sound(u) /\ u.ok = v.ok /\ u.file = v.file /\ u.size = v.size
            /\ u.drive = Placed(v.drive, v.drive.position + two)
          BY <4>2, <4>5, Forward
      <4>. QED  BY <3>1, <4>1, <4>3
    <3>3. w = [u EXCEPT !.drive.location = @ + 1]
        BY <2>1
    <3>. HIDE DEF u
    <3>4. /\ w \in States /\ w.ok = u.ok /\ w.file = u.file /\ w.size = u.size
          /\ w.drive = [u.drive EXCEPT !.location = @ + 1]
        BY <3>2, <3>3 DEF Sound, States, Drives
    <3>5. u.drive = Placed(s.drive, t + 2)
        BY <3>1, <3>2, <1>4, <1>7, PlacedDrive
    <3>6. [u.drive EXCEPT !.location = @ + 1] = Completed(s.drive, t + 2)
        BY <3>1, <3>5, <1>7 DEF Placed, Completed, Drives
    <3>. QED  BY <3>2, <3>4, <3>6
  <2>3. Sound(w)
      BY <2>2, <1>5 DEF Sound
  <2>5. Extends(s, w, p)
      BY <2>2, <1>6 DEF Extends
  <2>. QED  BY <2>2, <2>3, <2>5, <1>2, <1>5, <1>9 DEF t
<1>. QED  BY <1>8, <1>9
\* The drive d when a transfer has started
Started(d) == [d EXCEPT !.initial = FALSE]

LEMMA StartedDrive ==
    ASSUME NEW d \in Drives
    PROVE  /\ Started(d) \in Drives
           /\ Started(d).location = d.location /\ Started(d).position = d.position
           /\ Started(d).record = d.record /\ Started(d).remaining = d.remaining
           /\ Started(d).bytes = d.bytes /\ Started(d).fixed = d.fixed /\ ~Started(d).initial
BY DEF Started, Drives

LEMMA FilledDrive ==
    ASSUME NEW d \in Drives, NEW p \in Int, NEW n \in Int
    PROVE  /\ Filled(d, p, n) \in Drives /\ Filled(d, p, n).position = p
           /\ Filled(d, p, n).location = d.location
           /\ Filled(d, p, n).record = d.record /\ Filled(d, p, n).remaining = d.remaining - n
           /\ Filled(d, p, n).bytes = d.bytes /\ Filled(d, p, n).fixed = d.fixed
           /\ Filled(d, p, n).initial = d.initial
<1>1. d.remaining - n \in Int
    BY DEF Drives
<1>. QED  BY <1>1 DEF Filled, Drives

LEMMA FilledPlaced ==
    ASSUME NEW d \in Drives, NEW p \in Int, NEW n \in Int, NEW q \in Int
    PROVE  Filled(Placed(d, q), p, n) = Filled(d, p, n)
BY DEF Filled, Placed, Drives

LEMMA CompletedDrive ==
    ASSUME NEW d \in Drives, NEW p \in Int
    PROVE  /\ Completed(d, p) \in Drives /\ Completed(d, p).position = p
           /\ Completed(d, p).location = d.location + 1
           /\ Completed(d, p).record = d.record /\ Completed(d, p).remaining = d.remaining
           /\ Completed(d, p).bytes = d.bytes /\ Completed(d, p).fixed = d.fixed
           /\ Completed(d, p).initial = d.initial
<1>1. d.location + 1 \in Int
    BY DEF Drives
<1>. QED  BY <1>1 DEF Completed, Drives

LEMMA StateSound ==
    ASSUME NEW d \in Drives, FileOK(file, size)
    PROVE  Sound(State(d)) /\ State(d).ok /\ State(d).drive = d /\ State(d).file = file /\ State(d).size = size
<1>1. size \in Nat
    BY Sizes DEF FileOK
<1>. QED  BY <1>1 DEF Sound, State, States, FileOK

\* A leading length has been written at p.
Leads(w, p, length) == p >= 0 /\ p + 2 <= w.size /\ Word(w.file, w.size, p) = MetaData(Good, length)

\* Where the data of the next chunk go
DataPosition(d) == IF AtRecordBoundary(d) THEN d.position + 2 ELSE d.position

LEMMA WithLengthEffect ==
    ASSUME Configured, FileOK(file, size), NEW d \in Drives, NEW s, s = WithLength(d)
    PROVE  /\ Sound(s) /\ Extends(State(d), s, d.position)
           /\ s.drive.position \in Int /\ d.position <= s.drive.position /\ s.drive.location = d.location
           /\ s.ok => /\ s.drive = Placed(Started(d), DataPosition(d))
                      /\ s.drive.position = DataPosition(d)
                      /\ AtRecordBoundary(d) => Leads(s, d.position, d.record)
           /\ AtRecordBoundary(d) /\ Overflow(State(d), d.position + META_DATA_SIZE) =>
                ~s.ok /\ s.file = file /\ s.size = size
<1>. DEFINE p == d.position
            c == Started(d)
            x == State(c)
<1>1. c \in Drives /\ c.location = d.location /\ c.position = p /\ c.record = d.record
    BY StartedDrive
<1>2. Sound(x) /\ x.ok /\ x.drive = c /\ x.file = file /\ x.size = size
    BY <1>1, StateSound
<1>3. p \in Int /\ d.record \in Nat /\ p + 2 \in Int /\ p <= p + 2
    BY DEF Drives
<1>4. Sound(State(d)) /\ State(d).file = file /\ State(d).size = size /\ State(d).drive = d
    BY StateSound
<1>5. s = IF AtRecordBoundary(d) THEN PutObject(x, d.record) ELSE x
    BY DEF WithLength, Started
<1>6. Overflow(State(d), p + META_DATA_SIZE) <=> Overflow(x, p + META_DATA_SIZE)
    BY <1>1, <1>2, <1>4 DEF Overflow
<1>. HIDE DEF c, x
<1>7. CASE ~AtRecordBoundary(d)
  <2>1. s = x /\ DataPosition(d) = p
      BY <1>5, <1>7 DEF DataPosition
  <2>2. c = Placed(c, p)
      BY <1>1, PlacedDrive
  <2>. QED  BY <2>1, <2>2, <1>1, <1>2, <1>3, <1>4, <1>7, ExtendsSelf DEF c
<1>8. CASE AtRecordBoundary(d)
  <2>1. s = PutObject(x, d.record) /\ DataPosition(d) = p + 2 /\ ~tar /\ p = x.drive.position
      BY <1>1, <1>2, <1>5, <1>8 DEF DataPosition, AtRecordBoundary
  <2>2. /\ Sound(s) /\ Extends(x, s, p)
        /\ s.drive = x.drive \/ Marked(x, s, p, d.record)
        /\ s.ok => Marked(x, s, p, d.record)
        /\ Overflow(x, p + META_DATA_SIZE) => ~s.ok /\ s.file = x.file /\ s.size = x.size
      BY <2>1, <1>2, <1>3, PutObjectEffect
  <2>3. Extends(State(d), s, p)
      BY <2>2, <1>2, <1>4 DEF Extends
  <2>4. Placed(c, p + 2).position = p + 2 /\ Placed(c, p + 2).location = d.location
      BY <1>1, <1>3, PlacedDrive
  <2>5. Marked(x, s, p, d.record) => s.drive = Placed(c, p + 2) /\ Leads(s, p, d.record)
      BY <1>2 DEF Marked, Leads
  <2>6. s.drive.position \in {p, p + 2} /\ s.drive.location = d.location
      BY <2>2, <2>4, <2>5, <1>1, <1>2
  <2>. QED  BY <2>1, <2>2, <2>3, <2>4, <2>5, <2>6, <1>2, <1>3, <1>6 DEF c
<1>. QED  BY <1>7, <1>8

LEMMA WithTailEffect ==
    ASSUME Configured, NEW s, Sound(s), NEW p, p = s.drive.position, s.ok => p \in 0 .. maxSize,
           NEW w, w = WithTail(s)
    PROVE  /\ Sound(w) /\ Extends(s, w, p) /\ (w.ok => s.ok)
           /\ \/ w.drive = s.drive /\ (w.ok => ~AtRecordBoundary(s.drive))
              \/ ~w.ok /\ w.drive.location = s.drive.location
              \/ /\ w.ok /\ AtRecordBoundary(s.drive)
                 /\ w.drive = Completed(s.drive, Pad(p) + 2)
                 /\ Leads(w, Pad(p), s.drive.record)
<1>1. CASE s.ok /\ AtRecordBoundary(s.drive)
  <2>1. w = PutTrailingLength(s) /\ s.drive.record \in Nat /\ p \in 0 .. maxSize /\ maxSize \in Nat
      BY <1>1 DEF WithTail, Sound, States, Drives, Configured
  <2>2. /\ Sound(w) /\ Extends(s, w, p) /\ (w.ok => s.ok)
        /\ ~w.ok => w.drive.location = s.drive.location
        /\ w.ok => /\ w.drive = Completed(s.drive, Pad(p) + 2)
                   /\ Pad(p) + 2 <= w.size
                   /\ Word(w.file, w.size, Pad(p)) = MetaData(Good, s.drive.record)
      BY <2>1, PutTrailingLengthEffect
  <2>3. Pad(p) >= 0
      BY <2>1, Padded DEF EvenNumbers
  <2>. QED  BY <2>2, <2>3, <1>1 DEF Leads
<1>2. CASE ~(s.ok /\ AtRecordBoundary(s.drive))
  <2>1. w = s
      BY <1>2 DEF WithTail
  <2>. QED  BY <2>1, <1>2, ExtendsSelf
<1>. QED  BY <1>1, <1>2
\* The drive behind the bytes of a chunk
Filling(d, n) == Filled(Started(d), DataPosition(d) + n, n)

\* The bytes, and in front of them a leading length if they are the first ones of a block, have
\* been written.
ChunkWritten(d, bytes, w) ==
    /\ AtRecordBoundary(d) => Leads(w, d.position, d.record)
    /\ Wrote(w, DataPosition(d), bytes)

\* They are the last ones of a block.
BlockWritten(d, bytes, w) ==
    LET e == Filling(d, Len(bytes))
    IN  /\ AtRecordBoundary(e)
        /\ w.drive = Completed(e, Pad(e.position) + 2)
        /\ ChunkWritten(d, bytes, w)
        /\ Leads(w, Pad(e.position), d.record)

LEMMA LeadsOn ==
    ASSUME NEW s, Sound(s), NEW w, Sound(w), NEW p \in Int, Extends(s, w, p),
           NEW q \in Int, NEW length, Leads(s, q, length), q + 2 <= p
    PROVE  Leads(w, q, length)
<1>1. s.size \in Int /\ w.size \in Int /\ s.size <= w.size /\ q >= 0 /\ q + 2 <= s.size
    BY DEF Sound, States, Extends, Leads
<1>2. Word(w.file, w.size, q) = Word(s.file, s.size, q)
    BY <1>1, WordStays
<1>. QED  BY <1>1, <1>2 DEF Leads

LEMMA ChunkStays ==
    ASSUME NEW s, Sound(s), NEW w, Sound(w), NEW p \in Int, Extends(s, w, p),
           NEW d \in Drives, NEW bytes \in Seq(Nat), ChunkWritten(d, bytes, s),
           DataPosition(d) + Len(bytes) <= p
    PROVE  ChunkWritten(d, bytes, w)
<1>1. d.position \in Int /\ DataPosition(d) \in Int /\ Len(bytes) \in Nat
    BY DEF Drives, DataPosition
<1>2. Wrote(w, DataPosition(d), bytes)
    BY <1>1, BytesStay DEF ChunkWritten
<1>3. ASSUME AtRecordBoundary(d)
      PROVE  Leads(w, d.position, d.record)
  <2>1. d.position + 2 <= p
      BY <1>1, <1>3 DEF DataPosition
  <2>2. Leads(s, d.position, d.record)
      BY <1>3 DEF ChunkWritten
  <2>. QED  BY <1>1, <2>1, <2>2, LeadsOn
<1>. QED  BY <1>2, <1>3 DEF ChunkWritten

\* What WriteData() does to the file and the drive
LEMMA WriteDataEffect ==
    ASSUME Configured, FileOK(file, size), NEW d \in Drives, NEW bytes \in Seq(Nat),
           NEW r, r = WriteData(d, bytes), NEW e, e = Filling(d, Len(bytes))
    PROVE  /\ Sound(r) /\ Extends(State(d), r, d.position)
           /\ r.drive.location = d.location \/ BlockWritten(d, bytes, r)
           /\ r.ok => /\ d.position >= 0 /\ ChunkWritten(d, bytes, r)
                      /\ BlockWritten(d, bytes, r) \/ (~AtRecordBoundary(e) /\ r.drive = e)
           /\ r.ok /\ r.drive.remaining = 0 /\ ~tar /\ r.drive.position + 2 <= fileSize =>
                Word(r.file, r.size, r.drive.position) = EndOfData
           /\ AtRecordBoundary(d) /\ Overflow(State(d), d.position + META_DATA_SIZE) =>
                ~r.ok /\ r.file = file /\ r.size = size /\ r.drive.location = d.location
<1>. DEFINE p == d.position
            n == Len(bytes)
            q == DataPosition(d)
            s1 == WithLength(d)
            s2 == WithData(s1, bytes)
            s3 == WithTail(s2)
<1>1. r = WithEnd(s3)
    BY WriteDataParts
<1>2. p \in Int /\ n \in Nat /\ q \in Int /\ p <= q /\ q + n \in Int /\ q <= q + n
    BY DEF Drives, DataPosition
<1>3. Sound(State(d)) /\ State(d).file = file /\ State(d).size = size /\ State(d).drive = d
    BY StateSound
<1>4. /\ Sound(s1) /\ Extends(State(d), s1, p)
      /\ s1.drive.position \in Int /\ p <= s1.drive.position /\ s1.drive.location = d.location
      /\ s1.ok => /\ s1.drive = Placed(Started(d), q) /\ s1.drive.position = q
                  /\ AtRecordBoundary(d) => Leads(s1, p, d.record)
      /\ AtRecordBoundary(d) /\ Overflow(State(d), p + META_DATA_SIZE) =>
            ~s1.ok /\ s1.file = file /\ s1.size = size
    BY WithLengthEffect
<1>. DEFINE y == s1.drive.position
<1>. HIDE DEF s1
<1>5. /\ Sound(s2) /\ Extends(s1, s2, y)
      /\ (s2.drive = s1.drive /\ ~s2.ok) \/ s2.drive = Filled(s1.drive, y + n, n)
      /\ s2.ok => s1.ok /\ Wrote(s2, y, bytes) /\ y + n <= maxSize
    BY <1>4, WithDataEffect
<1>6. ~s1.ok => s2 = [s1 EXCEPT !.ok = FALSE]
    BY DEF WithData
<1>. HIDE DEF s2
<1>. DEFINE z == s2.drive.position
<1>7. s1.drive \in Drives /\ s2.drive \in Drives /\ z \in Int /\ y <= z /\ s2.drive.location = d.location
  <2>1. s1.drive \in Drives /\ s2.drive \in Drives
      BY <1>4, <1>5 DEF Sound, States
  <2>2. y + n \in Int /\ y <= y + n /\ n \in Int
      BY <1>2, <1>4
  <2>3. Filled(s1.drive, y + n, n).position = y + n /\ Filled(s1.drive, y + n, n).location = s1.drive.location
      BY <2>1, <2>2, FilledDrive
  <2>. QED  BY <2>1, <2>2, <2>3, <1>4, <1>5
<1>8. ASSUME s2.ok
      PROVE  s2.drive = e /\ z = q + n /\ z = e.position /\ z \in 0 .. maxSize /\ p >= 0 /\ ChunkWritten(d, bytes, s2)
             /\ e.record = d.record
  <2>1. s1.ok /\ y = q /\ Wrote(s2, q, bytes) /\ q + n <= maxSize
      BY <1>4, <1>5, <1>8
  <2>2. Started(d) \in Drives /\ n \in Int /\ Started(d).record = d.record
      BY <1>2, StartedDrive
  <2>3. s2.drive = Filled(Placed(Started(d), q), q + n, n)
      BY <2>1, <1>4, <1>5, <1>8
  <2>4. s2.drive = Filled(Started(d), q + n, n)
      BY <2>2, <2>3, <1>2, FilledPlaced
  <2>5. e = Filled(Started(d), q + n, n)
      BY DEF Filling
  <2>6. e.position = q + n /\ e.record = d.record
      BY <2>2, <2>5, <1>2, FilledDrive
  <2>7. q >= 0
      BY <2>1 DEF Wrote
  <2>8. AtRecordBoundary(d) => Leads(s2, p, d.record)
    <3>1. SUFFICES ASSUME AtRecordBoundary(d)
                   PROVE  Leads(s2, p, d.record)
        OBVIOUS
    <3>2. Leads(s1, p, d.record)
        BY <3>1, <2>1, <1>4
    <3>3. p + 2 <= y
        BY <3>1, <2>1, <1>2 DEF DataPosition
    <3>. QED  BY <3>2, <3>3, <1>2, <1>4, <1>5, LeadsOn
  <2>9. p >= 0
    <3>1. CASE AtRecordBoundary(d)
        BY <3>1, <2>1, <1>4 DEF Leads
    <3>2. CASE ~AtRecordBoundary(d)
        BY <3>2, <2>7 DEF DataPosition
    <3>. QED  BY <3>1, <3>2
  <2>10. z \in 0 .. maxSize /\ z = q + n
    <3>1. z = q + n
        BY <2>4, <2>5, <2>6
    <3>2. maxSize \in Int
        BY DEF Configured
    <3>. QED  BY <3>1, <3>2, <2>1, <2>7, <1>2
  <2>. QED  BY <2>1, <2>4, <2>5, <2>6, <2>8, <2>9, <2>10 DEF ChunkWritten
<1>9. /\ Sound(s3) /\ Extends(s2, s3, z) /\ (s3.ok => s2.ok)
      /\ \/ s3.drive = s2.drive /\ (s3.ok => ~AtRecordBoundary(s2.drive))
         \/ ~s3.ok /\ s3.drive.location = s2.drive.location
         \/ /\ s3.ok /\ AtRecordBoundary(s2.drive)
            /\ s3.drive = Completed(s2.drive, Pad(z) + 2)
            /\ Leads(s3, Pad(z), s2.drive.record)
    BY <1>5, <1>8, WithTailEffect
<1>. HIDE DEF s3
<1>. DEFINE x == s3.drive.position
<1>10. s3.drive \in Drives /\ x \in Int
    BY <1>9 DEF Sound, States, Drives
<1>11. Extends(State(d), s3, p) /\ p <= z
  <2>1. Extends(State(d), s2, p)
      BY <1>2, <1>3, <1>4, <1>5, ExtendsOn
  <2>2. p <= z
      BY <1>2, <1>4, <1>7
  <2>. QED  BY <2>1, <2>2, <1>2, <1>3, <1>5, <1>7, <1>9, ExtendsOn
<1>12. ASSUME s3.ok
       PROVE  /\ ChunkWritten(d, bytes, s3)
              /\ \/ BlockWritten(d, bytes, s3) /\ z <= x /\ Pad(z) + 2 <= x
                 \/ ~AtRecordBoundary(e) /\ s3.drive = e /\ x = z
  <2>1. s2.ok
      BY <1>9, <1>12
  <2>2. ChunkWritten(d, bytes, s3)
      BY <2>1, <1>5, <1>7, <1>8, <1>9, ChunkStays
  <2>3. CASE s3.drive = s2.drive /\ ~AtRecordBoundary(s2.drive)
      BY <2>1, <2>2, <2>3, <1>8
  <2>4. CASE ~(s3.drive = s2.drive /\ ~AtRecordBoundary(s2.drive))
    <3>1. /\ AtRecordBoundary(e) /\ s3.drive = Completed(e, Pad(e.position) + 2)
          /\ Leads(s3, Pad(e.position), d.record) /\ z = e.position /\ z \in Nat
        BY <2>1, <2>4, <1>8, <1>9, <1>12
    <3>2. BlockWritten(d, bytes, s3)
        BY <3>1, <2>2 DEF BlockWritten
    <3>3. Pad(z) \in Nat /\ z <= Pad(z)
        BY <3>1, Padded DEF EvenNumbers
    <3>4. e \in Drives /\ Pad(z) + 2 \in Int
        BY <2>1, <3>3, <1>7, <1>8
    <3>5. s3.drive = Completed(e, Pad(z) + 2)
        BY <3>1
    <3>6. x = Pad(z) + 2
      <4>1. PICK a : a = Pad(z) + 2
          OBVIOUS
      <4>2. Completed(e, a).position = a
          BY <3>4, <4>1, CompletedDrive
      <4>3. x = Completed(e, a).position
          BY <3>5, <4>1
      <4>. QED  BY <4>1, <4>2, <4>3
    <3>7. z <= x /\ Pad(z) + 2 <= x
        BY <3>1, <3>3, <3>6
    <3>. QED  BY <2>2, <3>2, <3>7
  <2>. QED  BY <2>3, <2>4
<1>13. ~s3.ok => s3.drive.location = d.location
    BY <1>7, <1>9
<1>14. /\ Sound(r) /\ r.drive = s3.drive /\ Extends(s3, r, x) /\ (r.ok => s3.ok) /\ (~s3.ok => r = s3)
       /\ r.ok /\ r.drive.remaining = 0 /\ ~tar /\ x + 2 <= fileSize => Word(r.file, r.size, x) = EndOfData
  <2>1. CASE s3.ok /\ s3.drive.remaining = 0
    <3>1. r = PutEndOfData(s3)
        BY <1>1, <2>1 DEF WithEnd
    <3>. QED  BY <3>1, <2>1, <1>9, PutEndOfDataEffect
  <2>2. CASE ~(s3.ok /\ s3.drive.remaining = 0)
    <3>1. r = s3
        BY <1>1, <2>2 DEF WithEnd
    <3>. QED  BY <3>1, <2>2, <1>9, ExtendsSelf
  <2>. QED  BY <2>1, <2>2
<1>15. ASSUME s3.ok
       PROVE  /\ ChunkWritten(d, bytes, r) /\ p >= 0
              /\ BlockWritten(d, bytes, r) \/ (~AtRecordBoundary(e) /\ r.drive = e)
  <2>1. s2.ok /\ z = q + n /\ z = e.position /\ z \in 0 .. maxSize /\ p >= 0
      BY <1>8, <1>9, <1>15
  <2>2. z <= x /\ ChunkWritten(d, bytes, s3)
      BY <1>7, <1>12, <1>15
  <2>3. ChunkWritten(d, bytes, r)
      BY <2>1, <2>2, <1>9, <1>10, <1>14, ChunkStays
  <2>4. CASE ~AtRecordBoundary(e) /\ s3.drive = e
      BY <2>1, <2>3, <2>4, <1>14
  <2>5. CASE BlockWritten(d, bytes, s3) /\ Pad(z) + 2 <= x
    <3>1. Leads(s3, Pad(z), d.record) /\ Pad(z) \in Int
      <4>1. z \in Nat
          BY <2>1
      <4>. QED  BY <4>1, <2>1, <2>5, Padded DEF BlockWritten, EvenNumbers
    <3>2. Leads(r, Pad(z), d.record)
        BY <3>1, <2>5, <1>9, <1>10, <1>14, LeadsOn
    <3>3. BlockWritten(d, bytes, r)
        BY <3>2, <2>1, <2>3, <2>5, <1>14 DEF BlockWritten
    <3>. QED  BY <2>1, <2>3, <3>3
  <2>. QED  BY <2>4, <2>5, <1>12, <1>15
<1>16. Extends(State(d), r, p)
  <2>1. CASE s3.ok
    <3>1. p <= x
        BY <2>1, <1>2, <1>7, <1>10, <1>11, <1>12
    <3>. QED  BY <3>1, <1>2, <1>3, <1>9, <1>10, <1>11, <1>14, ExtendsOn
  <2>2. CASE ~s3.ok
      BY <2>2, <1>11, <1>14
  <2>. QED  BY <2>1, <2>2
<1>17. r.drive.location = d.location \/ BlockWritten(d, bytes, r)
  <2>1. e \in Drives /\ e.location = d.location
    <3>1. Started(d) \in Drives /\ n \in Int /\ Started(d).location = d.location
        BY <1>2, StartedDrive
    <3>. QED  BY <3>1, <1>2, FilledDrive DEF Filling
  <2>. QED  BY <2>1, <1>13, <1>14, <1>15
<1>18. ASSUME AtRecordBoundary(d), Overflow(State(d), p + META_DATA_SIZE)
       PROVE  ~r.ok /\ r.file = file /\ r.size = size /\ r.drive.location = d.location
  <2>1. ~s1.ok /\ s1.file = file /\ s1.size = size
      BY <1>4, <1>18
  <2>2. ~s2.ok /\ s2.file = file /\ s2.size = size
      BY <2>1, <1>4, <1>6, Fail
  <2>3. s3 = s2
      BY <2>2 DEF WithTail, s3
  <2>. QED  BY <2>2, <2>3, <1>13, <1>14
<1>. QED  BY <1>14, <1>15, <1>16, <1>17, <1>18
-----------------------------------------------------------------------------
(* Objects in the file                                                     *)

\* The object b is at p in the file f with n bytes.
HoldsObject(f, n, p, b) ==
    /\ Word(f, n, p) = MetaData(Good, Len(b))
    /\ b # <<>> => Word(f, n, p + Width(b) - 2) = MetaData(Good, Len(b))
    /\ \A i \in 1 .. Len(b) : f[p + 2 + i - 1] = b[i]

Holds(f, n, o) == \A k \in 1 .. Len(o) : HoldsObject(f, n, Offset(o)[k - 1], o[k])

LEMMA WordInFile ==
    ASSUME NEW f, NEW n, NEW p, NEW value, Word(f, n, p) = MetaData(Good, value)
    PROVE  p + 2 <= n
<1>1. MetaData(Good, value) # MetaData(ReservedMarker, EndOfMedium)
    BY DEF MetaData, Good, ReservedMarker, EndOfMedium
<1>. QED  BY <1>1 DEF Word

\* An object stays if what is written afterwards is behind it.
LEMMA ObjectStays ==
    ASSUME NEW s, Sound(s), NEW w, Sound(w), NEW p \in Int, Extends(s, w, p),
           NEW b \in Seq(Nat), NEW a \in Nat, a + Width(b) <= p, HoldsObject(s.file, s.size, a, b)
    PROVE  HoldsObject(w.file, w.size, a, b)
<1>1. Width(b) \in Nat /\ Width(b) >= 2 /\ Len(b) \in Nat /\ (b = <<>> => Len(b) = 0)
      /\ (b # <<>> => Width(b) = Pad(Len(b)) + 4 /\ Pad(Len(b)) >= Len(b) /\ Pad(Len(b)) \in Nat)
  <2>1. Len(b) \in Nat /\ (b = <<>> => Len(b) = 0)
      OBVIOUS
  <2>2. Pad(Len(b)) \in Nat /\ Pad(Len(b)) >= Len(b)
      BY <2>1, Padded DEF EvenNumbers
  <2>3. Width(b) \in Nat
      BY Widths DEF EvenNumbers
  <2>. QED  BY <2>1, <2>2, <2>3, Widths
<1>2. s.size \in 0 .. Capacity /\ Capacity \in Nat
    BY Sizes DEF Sound, FileOK
<1>3. a + 2 <= s.size
    BY WordInFile DEF HoldsObject
<1>4. Word(w.file, w.size, a) = MetaData(Good, Len(b))
  <2>1. a \in Int /\ a >= 0 /\ a + 2 <= p
      BY <1>1
  <2>. QED  BY <1>3, <2>1, WordStays DEF HoldsObject
<1>5. ASSUME b # <<>>
      PROVE  /\ a + Width(b) <= s.size
             /\ Word(w.file, w.size, a + Width(b) - 2) = MetaData(Good, Len(b))
  <2>. DEFINE t == a + Width(b) - 2
  <2>1. t \in Int /\ t >= 0 /\ t + 2 <= p /\ t + 2 = a + Width(b)
      BY <1>1
  <2>2. Word(s.file, s.size, t) = MetaData(Good, Len(b))
      BY <1>5 DEF HoldsObject
  <2>3. t + 2 <= s.size
      BY <2>2, WordInFile
  <2>. HIDE DEF t
  <2>4. Word(w.file, w.size, t) = MetaData(Good, Len(b))
      BY <2>1, <2>2, <2>3, WordStays
  <2>. QED  BY <2>1, <2>3, <2>4 DEF t
<1>6. ASSUME NEW i \in 1 .. Len(b)
      PROVE  w.file[a + 2 + i - 1] = b[i]
  <2>1. b # <<>> /\ i \in Nat /\ i >= 1 /\ i <= Len(b)
      BY <1>1
  <2>2. a + Width(b) <= s.size /\ Width(b) >= Len(b) + 4
      BY <2>1, <1>1, <1>5
  <2>3. a + 2 + i - 1 \in 0 .. Capacity - 1 /\ a + 2 + i - 1 < p
      BY <2>1, <2>2, <1>1, <1>2
  <2>. QED  BY <2>3 DEF Extends, HoldsObject
<1>. QED  BY <1>4, <1>5, <1>6 DEF HoldsObject

\* The first c objects stay.
LEMMA PartStays ==
    ASSUME NEW s, Sound(s), NEW w, Sound(w), NEW p \in Int, Extends(s, w, p),
           NEW o \in Objects, Holds(s.file, s.size, o), NEW q, NEW c, IsPart(q, o, c),
           \A k \in 1 .. c : Offset(o)[k] <= p
    PROVE  Holds(w.file, w.size, q)
<1>1. q \in Objects /\ c \in 0 .. Len(o) /\ Len(q) = c /\ Len(o) \in Nat /\ c \in Nat
    BY DEF IsPart, Objects
<1>2. \A k \in 1 .. c : q[k] = o[k]
    BY DEF IsPart
<1>3. \A k \in 0 .. c : Offset(o)[k] = Offset(q)[k]
    BY <1>1, <1>2, OffsetsOfPart
<1>4. ASSUME NEW k \in 1 .. c
      PROVE  HoldsObject(w.file, w.size, Offset(q)[k - 1], q[k])
  <2>1. k \in 1 .. Len(o) /\ k - 1 \in 0 .. c /\ k - 1 \in 0 .. Len(o)
      BY <1>1
  <2>2. o[k] \in Seq(Nat) /\ q[k] = o[k] /\ Offset(q)[k - 1] = Offset(o)[k - 1]
      BY <2>1, <1>2, <1>3 DEF Objects
  <2>3. Offset(o)[k] = Offset(o)[k - 1] + Width(o[k]) /\ Offset(o)[k - 1] \in Nat
      BY <2>1, Offsets DEF EvenNumbers
  <2>4. HoldsObject(s.file, s.size, Offset(o)[k - 1], o[k])
      BY <2>1 DEF Holds
  <2>5. Offset(o)[k - 1] + Width(o[k]) <= p
      BY <2>3
  <2>6. HoldsObject(w.file, w.size, Offset(o)[k - 1], o[k])
      BY <2>2, <2>3, <2>4, <2>5, ObjectStays
  <2>. QED  BY <2>2, <2>6
<1>. QED  BY <1>1, <1>4 DEF Holds

\* Objects are in the file if the first c of them and the other ones are.
LEMMA HoldsMore ==
    ASSUME NEW f, NEW n, NEW o \in Objects, NEW q, NEW c, IsPart(q, o, c), Holds(f, n, q),
           \A k \in c + 1 .. Len(o) : HoldsObject(f, n, Offset(o)[k - 1], o[k])
    PROVE  Holds(f, n, o)
<1>1. q \in Objects /\ c \in 0 .. Len(o) /\ Len(q) = c /\ Len(o) \in Nat /\ c \in Nat
    BY DEF IsPart, Objects
<1>2. \A k \in 1 .. c : q[k] = o[k]
    BY DEF IsPart
<1>3. \A k \in 0 .. c : Offset(o)[k] = Offset(q)[k]
    BY <1>1, <1>2, OffsetsOfPart
<1>4. ASSUME NEW k \in 1 .. Len(o)
      PROVE  HoldsObject(f, n, Offset(o)[k - 1], o[k])
  <2>1. CASE k <= c
    <3>1. k \in 1 .. c /\ k - 1 \in 0 .. c
        BY <2>1, <1>1
    <3>2. HoldsObject(f, n, Offset(q)[k - 1], q[k])
        BY <3>1, <1>1 DEF Holds
    <3>. QED  BY <3>1, <3>2, <1>2, <1>3
  <2>2. CASE ~(k <= c)
    <3>1. k \in c + 1 .. Len(o)
        BY <2>2, <1>1
    <3>. QED  BY <3>1
  <2>. QED  BY <2>1, <2>2
<1>. QED  BY <1>4 DEF Holds

\* Objects with another one
With(q, b) == Append(q, b)

LEMMA WithObject ==
    ASSUME NEW q \in Objects, NEW b \in Seq(Nat), NEW o, o = With(q, b)
    PROVE  /\ o \in Objects /\ Len(o) = Len(q) + 1 /\ IsPart(q, o, Len(q)) /\ o[Len(o)] = b
           /\ Offset(o)[Len(q)] = End(q) /\ End(o) = End(q) + Width(b)
           /\ \A k \in 0 .. Len(q) : Offset(o)[k] = Offset(q)[k]
<1>1. Len(q) \in Nat /\ o \in Objects /\ Len(o) = Len(q) + 1 /\ o[Len(o)] = b
    BY DEF Objects, With
<1>2. \A k \in 1 .. Len(q) : q[k] = o[k]
    BY DEF Objects, With
<1>3. IsPart(q, o, Len(q))
    BY <1>1, <1>2 DEF IsPart
<1>4. \A k \in 0 .. Len(q) : Offset(q)[k] = Offset(o)[k]
  <2>1. Len(q) \in 0 .. Len(q) /\ Len(q) <= Len(o)
      BY <1>1
  <2>. QED  BY <1>1, <1>2, <2>1, OffsetsOfPart
<1>5. Offset(o)[Len(q)] = End(q)
    BY <1>1, <1>4 DEF End
<1>6. Len(o) \in 1 .. Len(o) /\ Len(o) - 1 = Len(q)
    BY <1>1
<1>7. Offset(o)[Len(o)] = Offset(o)[Len(o) - 1] + Width(o[Len(o)])
    BY <1>1, <1>6, Offsets
<1>8. End(o) = End(q) + Width(b)
    BY <1>1, <1>5, <1>6, <1>7 DEF End
<1>. QED  BY <1>1, <1>3, <1>4, <1>5, <1>8

LEMMA Ends ==
    ASSUME NEW o \in Objects
    PROVE  End(o) \in EvenNumbers /\ End(o) \in Nat
<1>1. Len(o) \in 0 .. Len(o)
    BY DEF Objects
<1>. QED  BY <1>1, Offsets DEF End, EvenNumbers
-----------------------------------------------------------------------------
(* The invariant                                                           *)

Transfers == [op : {"none", "read", "write"}, rest : Nat, chunk : Nat, sili : BOOLEAN, sent : Seq(Nat)]

TypesInv ==
    /\ FileOK(file, size) /\ fileSize \in 0 .. size /\ maxSize \in 0 .. Capacity /\ tar \in BOOLEAN
    /\ drive \in Drives /\ transfer \in Transfers
    /\ transfer.op # "none" => transfer.chunk \in 1 .. transfer.rest /\ transfer.chunk <= BlockSize

\* The objects are in the file. Where they end are the end of data or the end of the file if the
\* drive has put an end there.
ObjectsInv ==
    /\ objects \in Objects /\ (tar => objects = <<>> /\ torn)
    /\ Holds(file, size, objects)
    /\ ~torn => Word(file, size, End(objects)) = EndOfData \/ End(objects) + 2 > size

Multiples == {n * BlockSize : n \in Nat}

\* A part of a block of the drive d is behind the objects o in the file of w.
PartWritten(w, o, d, sent) ==
    LET q == d.position - Len(sent)
    IN  /\ Len(sent) = d.bytes - d.remaining
        /\ End(o) <= q - 2
        /\ Leads(w, q - 2, d.record) /\ Wrote(w, q, sent)

\* While blocks are being written the length of the next one, or of the rest of the current one,
\* is known.
WriteInv ==
    transfer.op = "write" =>
        /\ drive.remaining = transfer.rest /\ transfer.rest <= drive.bytes
        /\ drive.fixed => drive.record = BlockSize /\ transfer.rest \in Multiples /\ transfer.chunk = BlockSize
        /\ ~drive.fixed => drive.record = drive.bytes
        /\ ~drive.fixed /\ drive.initial => drive.bytes = transfer.rest
        /\ ~tar /\ ~drive.fixed /\ ~drive.initial =>
                /\ transfer.rest < drive.bytes /\ torn
                /\ PartWritten(State(drive), objects, drive, transfer.sent)

TapeInv == TypesInv /\ ObjectsInv /\ WriteInv

LEMMA InvConfigured ==
    ASSUME TypesInv
    PROVE  /\ Configured /\ Sound(State(drive)) /\ State(drive).ok
           /\ State(drive).file = file /\ State(drive).size = size /\ State(drive).drive = drive
<1>1. fileSize \in 0 .. Capacity
  <2>1. size \in 0 .. Capacity /\ fileSize \in 0 .. size /\ Capacity \in Nat
      BY Sizes DEF TypesInv, FileOK
  <2>. QED  BY <2>1
<1>. QED  BY <1>1, TapeAssumption, StateSound DEF TypesInv, Configured

-----------------------------------------------------------------------------
(* Writing blocks                                                          *)

WriteStarts == AtRecordBoundary(drive) /\ ~Overflow(State(drive), drive.position + META_DATA_SIZE)

\* The objects in front of the block that is written
Base == IF WriteStarts THEN Kept(drive.position) ELSE objects

Chunk(b) == Repeat(Lesser(drive.bytes, transfer.chunk), b)

\* What has been received of the block with this chunk
Sent(bytes) == IF AtRecordBoundary(drive) THEN bytes ELSE transfer.sent \o bytes

\* Where the block begins
BlockStart ==
    IF AtRecordBoundary(drive) THEN drive.position ELSE drive.position - META_DATA_SIZE - Len(transfer.sent)

LEMMA ChunkBytes ==
    ASSUME TypesInv, WriteInv, transfer.op = "write", NEW b \in Data
    PROVE  Chunk(b) \in Seq(Nat) /\ Len(Chunk(b)) = transfer.chunk
<1>1. b \in Nat
    BY TapeAssumption DEF TapeAssumption
<1>2. transfer.chunk \in Nat /\ drive.bytes \in Nat /\ transfer.chunk <= drive.bytes
    BY DEF TypesInv, WriteInv, Transfers, Drives
<1>3. Lesser(drive.bytes, transfer.chunk) = transfer.chunk
    BY <1>2 DEF Lesser
<1>. QED  BY <1>1, <1>2, <1>3 DEF Chunk, Repeat

\* Blocks of fixed length begin and end with a chunk, others with a transfer.
LEMMA Boundaries ==
    ASSUME TypesInv, WriteInv, transfer.op = "write", NEW e, e = Filling(drive, transfer.chunk)
    PROVE  /\ AtRecordBoundary(drive) <=> ~tar /\ (drive.fixed \/ drive.initial)
           /\ AtRecordBoundary(e) <=> ~tar /\ (drive.fixed \/ transfer.rest = transfer.chunk)
           /\ e \in Drives /\ e.position = DataPosition(drive) + transfer.chunk
           /\ e.location = drive.location /\ e.remaining = transfer.rest - transfer.chunk
           /\ e.record = drive.record /\ e.bytes = drive.bytes /\ e.fixed = drive.fixed /\ ~e.initial
<1>1. /\ transfer.chunk \in 1 .. transfer.rest /\ transfer.rest \in Nat /\ drive.remaining = transfer.rest
      /\ drive \in Drives /\ drive.bytes \in Nat /\ transfer.chunk \in Int /\ drive.position \in Int
      /\ drive.fixed \in BOOLEAN /\ drive.initial \in BOOLEAN /\ transfer.rest <= drive.bytes
      /\ ~drive.fixed => drive.record = drive.bytes
    BY DEF TypesInv, WriteInv, Transfers, Drives
<1>2. DataPosition(drive) + transfer.chunk \in Int
    BY <1>1 DEF DataPosition
<1>3. /\ e \in Drives /\ e.position = DataPosition(drive) + transfer.chunk
      /\ e.location = drive.location /\ e.remaining = transfer.rest - transfer.chunk
      /\ e.record = drive.record /\ e.bytes = drive.bytes /\ e.fixed = drive.fixed /\ ~e.initial
  <2>1. /\ Started(drive) \in Drives /\ Started(drive).location = drive.location
        /\ Started(drive).record = drive.record /\ Started(drive).remaining = drive.remaining
        /\ Started(drive).bytes = drive.bytes /\ Started(drive).fixed = drive.fixed /\ ~Started(drive).initial
      BY <1>1, StartedDrive
  <2>2. e = Filled(Started(drive), DataPosition(drive) + transfer.chunk, transfer.chunk)
      BY DEF Filling
  <2>. QED  BY <2>1, <2>2, <1>1, <1>2, FilledDrive
<1>4. AtRecordBoundary(drive) <=> ~tar /\ (drive.fixed \/ drive.initial)
  <2>1. ~drive.fixed => drive.remaining # 0 /\ drive.bytes - drive.remaining # drive.record
      BY <1>1
  <2>. QED  BY <2>1 DEF AtRecordBoundary
<1>5. AtRecordBoundary(e) <=> ~tar /\ (drive.fixed \/ transfer.rest = transfer.chunk)
  <2>1. ~drive.fixed => (e.bytes - e.remaining = e.record <=> transfer.rest = transfer.chunk)
      BY <1>1, <1>3
  <2>2. e.remaining = 0 <=> transfer.rest = transfer.chunk
      BY <1>1, <1>3
  <2>. QED  BY <2>1, <2>2, <1>3 DEF AtRecordBoundary
<1>. QED  BY <1>3, <1>4, <1>5

\* The objects in front of a block are not changed by writing it.
LEMMA BaseStays ==
    ASSUME TapeInv, transfer.op = "write", NEW r, Sound(r), Extends(State(drive), r, drive.position),
           AtRecordBoundary(drive) /\ ~WriteStarts => r.file = file /\ r.size = size
    PROVE  /\ Base \in Objects /\ Holds(r.file, r.size, Base)
           /\ tar => Base = <<>>
           /\ WriteStarts /\ drive.position >= 0 => End(Base) <= drive.position
<1>. DEFINE p == drive.position
<1>1. p \in Int /\ objects \in Objects /\ Holds(file, size, objects) /\ Len(objects) \in Nat
    BY DEF TapeInv, TypesInv, ObjectsInv, Drives, Objects
<1>2. Sound(State(drive)) /\ State(drive).file = file /\ State(drive).size = size
    BY InvConfigured DEF TapeInv
<1>3. CASE WriteStarts
  <2>1. Base = Kept(p) /\ ~tar
      BY <1>3 DEF Base, WriteStarts, AtRecordBoundary
  <2>2. PICK c \in 0 .. Len(objects) :
            /\ IsPart(Kept(p), objects, c)
            /\ \A k \in 1 .. Len(objects) : Offset(objects)[k] <= p <=> k <= c
      BY <1>1, KeptObjects
  <2>3. \A k \in 1 .. c : Offset(objects)[k] <= p
    <3>1. \A k \in 1 .. c : k \in 1 .. Len(objects) /\ k <= c
        BY <1>1
    <3>. QED  BY <2>2, <3>1
  <2>4. Holds(r.file, r.size, Kept(p))
      BY <1>1, <1>2, <2>2, <2>3, PartStays
  <2>5. ASSUME p >= 0
        PROVE  End(Kept(p)) <= p
    <3>1. Kept(p) \in Objects /\ Len(Kept(p)) = c /\ \A k \in 1 .. c : Kept(p)[k] = objects[k]
        BY <2>2 DEF IsPart
    <3>2. \A k \in 0 .. c : Offset(objects)[k] = Offset(Kept(p))[k]
        BY <1>1, <3>1, OffsetsOfPart
    <3>3. End(Kept(p)) = Offset(objects)[c]
        BY <1>1, <3>1, <3>2 DEF End
    <3>4. CASE c = 0
        BY <3>3, <3>4, <1>1, <2>5, Offsets
    <3>5. CASE c # 0
      <4>1. c \in 1 .. c
          BY <3>5, <1>1
      <4>. QED  BY <4>1, <3>3, <2>3
    <3>. QED  BY <3>4, <3>5
  <2>. QED  BY <2>1, <2>2, <2>4, <2>5 DEF IsPart
<1>4. CASE ~WriteStarts
  <2>1. Base = objects /\ (tar => Base = <<>>)
      BY <1>4 DEF Base, TapeInv, ObjectsInv
  <2>2. CASE AtRecordBoundary(drive)
      BY <2>1, <2>2, <1>1, <1>4
  <2>3. CASE tar
    <3>1. Holds(r.file, r.size, <<>>)
        BY DEF Holds
    <3>. QED  BY <2>1, <2>3, <3>1, <1>1, <1>4
  <2>4. CASE ~AtRecordBoundary(drive) /\ ~tar
    <3>1. ~drive.fixed /\ ~drive.initial
        BY <2>4, Boundaries DEF TapeInv
    <3>2. PartWritten(State(drive), objects, drive, transfer.sent) /\ Len(transfer.sent) \in Nat
        BY <2>4, <3>1 DEF TapeInv, TypesInv, WriteInv, Transfers
    <3>3. End(objects) <= p
      <4>1. End(objects) \in Nat
          BY <1>1, Ends
      <4>. QED  BY <3>2, <4>1, <1>1 DEF PartWritten
    <3>4. IsPart(objects, objects, Len(objects))
        BY <1>1 DEF IsPart
    <3>5. ASSUME NEW k \in 1 .. Len(objects)
          PROVE  Offset(objects)[k] <= p
      <4>1. k \in 0 .. Len(objects) /\ Len(objects) \in 0 .. Len(objects) /\ (k = Len(objects) \/ k < Len(objects))
          BY <1>1
      <4>2. Offset(objects)[k] \in Nat /\ Offset(objects)[Len(objects)] \in Nat
          BY <4>1, <1>1, Offsets DEF EvenNumbers
      <4>3. Offset(objects)[k] <= End(objects)
        <5>1. CASE k = Len(objects)
            BY <5>1, <4>2 DEF End
        <5>2. CASE k < Len(objects)
          <6>1. Offset(objects)[k] + 2 <= Offset(objects)[Len(objects)]
              BY <5>2, <4>1, <1>1, OffsetsGrow
          <6>. QED  BY <6>1, <4>2 DEF End
        <5>. QED  BY <4>1, <5>1, <5>2
      <4>. QED  BY <4>2, <4>3, <3>3, <1>1 DEF End
    <3>6. Holds(r.file, r.size, objects)
        BY <1>1, <1>2, <3>4, <3>5, PartStays
    <3>. QED  BY <2>1, <2>4, <3>6, <1>1, <1>4
  <2>. QED  BY <2>2, <2>3, <2>4
<1>. QED  BY <1>3, <1>4
LEMMA PadFrom ==
    ASSUME NEW a \in EvenNumbers, NEW m \in Nat
    PROVE  Pad(a + m) = a + Pad(m)
<1>1. a \in Nat /\ a % 2 = 0
    BY DEF EvenNumbers
<1>2. (a + m) % 2 = m % 2
    BY <1>1
<1>. QED  BY <1>1, <1>2 DEF Pad

Joined(t, bytes) == t \o bytes

\* Bytes that have been written one behind the other
LEMMA WroteBoth ==
    ASSUME NEW w, w.size \in Int, NEW q \in Int, NEW t \in Seq(Nat), NEW bytes \in Seq(Nat),
           NEW p, p = q + Len(t), Wrote(w, q, t), Wrote(w, p, bytes),
           NEW o, o = Joined(t, bytes)
    PROVE  o \in Seq(Nat) /\ Len(o) = Len(t) + Len(bytes) /\ Wrote(w, q, o)
<1>1. /\ o \in Seq(Nat) /\ Len(o) = Len(t) + Len(bytes) /\ Len(t) \in Nat /\ Len(bytes) \in Nat
      /\ \A i \in 1 .. Len(o) : o[i] = IF i <= Len(t) THEN t[i] ELSE bytes[i - Len(t)]
    BY DEF Joined
<1>2. q >= 0 /\ p + Len(bytes) <= w.size
    BY DEF Wrote
<1>3. q + Len(o) <= w.size
    BY <1>1, <1>2
<1>4. ASSUME NEW i \in 1 .. Len(o)
      PROVE  w.file[q + i - 1] = o[i]
  <2>1. CASE i <= Len(t)
    <3>1. i \in 1 .. Len(t) /\ o[i] = t[i]
        BY <2>1, <1>1
    <3>. QED  BY <3>1 DEF Wrote
  <2>2. CASE ~(i <= Len(t))
    <3>1. i - Len(t) \in 1 .. Len(bytes) /\ o[i] = bytes[i - Len(t)]
        BY <2>2, <1>1
    <3>2. q + i - 1 = p + (i - Len(t)) - 1
        BY <1>1
    <3>. QED  BY <3>1, <3>2 DEF Wrote
  <2>. QED  BY <2>1, <2>2
<1>. QED  BY <1>1, <1>2, <1>3, <1>4 DEF Wrote

\* p is behind the part t of a block at a.
Behind(p, a, t) == p = a + 2 + Len(t)

\* The leading length of a block and the part t of its data have been written at a.
Begun(w, a, length, t) == Leads(w, a, length) /\ Wrote(w, a + 2, t)

LEMMA RestWritten ==
    ASSUME NEW s, Sound(s), NEW w, Sound(w), NEW p \in Int, Extends(s, w, p), NEW a \in Nat, NEW length,
           NEW t \in Seq(Nat), NEW bytes \in Seq(Nat), Behind(p, a, t),
           Begun(s, a, length, t), Wrote(w, p, bytes), NEW o, o = Joined(t, bytes)
    PROVE  /\ o \in Seq(Nat) /\ Len(o) = Len(t) + Len(bytes)
           /\ Begun(w, a, length, o) /\ Behind(p + Len(bytes), a, o)
<1>1. Len(t) \in Nat /\ Len(bytes) \in Nat /\ a \in Int /\ a + 2 <= p /\ a + 2 \in Int /\ p = a + 2 + Len(t)
    BY DEF Behind
<1>2. Leads(w, a, length)
    BY <1>1, LeadsOn DEF Begun
<1>3. Wrote(w, a + 2, t)
  <2>. DEFINE q == a + 2
  <2>1. q \in Int /\ q + Len(t) <= p /\ Wrote(s, q, t)
      BY <1>1 DEF Begun
  <2>. HIDE DEF q
  <2>2. Wrote(w, q, t)
      BY <2>1, BytesStay
  <2>. QED  BY <2>2 DEF q
<1>4. o \in Seq(Nat) /\ Len(o) = Len(t) + Len(bytes) /\ Wrote(w, a + 2, o)
  <2>. DEFINE q == a + 2
  <2>1. q \in Int /\ p = q + Len(t) /\ Wrote(w, q, t) /\ w.size \in Int
      BY <1>1, <1>3 DEF Sound, States
  <2>. HIDE DEF q
  <2>2. o \in Seq(Nat) /\ Len(o) = Len(t) + Len(bytes) /\ Wrote(w, q, o)
      BY <2>1, WroteBoth
  <2>. QED  BY <2>2 DEF q
<1>5. p + Len(bytes) = a + 2 + Len(o)
    BY <1>1, <1>4
<1>. QED  BY <1>2, <1>4, <1>5 DEF Begun, Behind

\* A block has been written behind the objects in front of it.
LEMMA BlockOnTape ==
    ASSUME TapeInv, transfer.op = "write", NEW b \in Data, NEW r, Sound(r),
           Extends(State(drive), r, drive.position), Base \in Objects,
           BlockWritten(drive, Chunk(b), r), End(Base) = BlockStart
    PROVE  /\ Sent(Chunk(b)) \in Seq(Nat)
           /\ HoldsObject(r.file, r.size, End(Base), Sent(Chunk(b)))
           /\ r.drive.position = End(Base) + Width(Sent(Chunk(b)))
<1>. DEFINE p == drive.position
            n == transfer.chunk
            bytes == Chunk(b)
            o == Sent(bytes)
            e == Filling(drive, n)
            a == End(Base)
<1>1. bytes \in Seq(Nat) /\ Len(bytes) = n /\ n \in Nat /\ n >= 1 /\ transfer.rest \in Nat
    BY ChunkBytes DEF TapeInv, TypesInv, Transfers
<1>2. /\ AtRecordBoundary(e) /\ r.drive = Completed(e, Pad(e.position) + 2)
      /\ ChunkWritten(drive, bytes, r) /\ Leads(r, Pad(e.position), drive.record)
    BY <1>1 DEF BlockWritten
<1>3. /\ AtRecordBoundary(drive) <=> ~tar /\ (drive.fixed \/ drive.initial)
      /\ AtRecordBoundary(e) <=> ~tar /\ (drive.fixed \/ transfer.rest = n)
      /\ e \in Drives /\ e.position = DataPosition(drive) + n
    BY Boundaries DEF TapeInv
<1>4. /\ drive.remaining = transfer.rest /\ transfer.rest <= drive.bytes
      /\ drive.fixed => drive.record = BlockSize /\ transfer.chunk = BlockSize
      /\ ~drive.fixed => drive.record = drive.bytes
      /\ ~drive.fixed /\ drive.initial => drive.bytes = transfer.rest
      /\ ~tar /\ ~drive.fixed /\ ~drive.initial => PartWritten(State(drive), objects, drive, transfer.sent)
    BY DEF TapeInv, WriteInv
<1>5. ~tar /\ p \in Int /\ drive \in Drives /\ drive.bytes \in Nat /\ drive.record \in Nat /\ transfer.sent \in Seq(Nat)
    BY <1>2, <1>3 DEF TapeInv, TypesInv, Drives, Transfers
<1>6. Sound(State(drive)) /\ State(drive).file = file /\ State(drive).size = size
    BY InvConfigured DEF TapeInv
<1>7. a \in EvenNumbers /\ a \in Nat
    BY Ends
<1>. HIDE DEF bytes, e, a
<1>8. /\ o \in Seq(Nat) /\ Len(o) = drive.record /\ Len(o) > 0
      /\ Leads(r, a, drive.record) /\ Wrote(r, a + 2, o) /\ e.position = a + 2 + Len(o)
  <2>1. CASE AtRecordBoundary(drive)
    <3>1. o = bytes /\ DataPosition(drive) = p + 2 /\ a = p
        BY <2>1 DEF Sent, DataPosition, BlockStart, a
    <3>2. drive.record = n
        BY <2>1, <1>2, <1>3, <1>4
    <3>3. Leads(r, a, drive.record) /\ Wrote(r, a + 2, bytes)
        BY <2>1, <3>1, <1>2 DEF ChunkWritten
    <3>. QED  BY <3>1, <3>2, <3>3, <1>1, <1>3
  <2>2. CASE ~AtRecordBoundary(drive)
    <3>. DEFINE t == transfer.sent
    <3>1. ~drive.fixed /\ ~drive.initial /\ transfer.rest = n
        BY <2>2, <1>2, <1>3, <1>5
    <3>2. o = Joined(t, bytes) /\ DataPosition(drive) = p /\ a = p - 2 - Len(t)
        BY <2>2 DEF Sent, Joined, DataPosition, BlockStart, a, META_DATA_SIZE
    <3>3. /\ Len(t) = drive.bytes - drive.remaining
          /\ Leads(State(drive), (p - Len(t)) - 2, drive.record) /\ Wrote(State(drive), p - Len(t), t)
        BY <3>1, <1>4, <1>5 DEF PartWritten
    <3>4. t \in Seq(Nat) /\ Len(t) \in Nat
        BY <1>5
    <3>. DEFINE l == Len(t)
    <3>5. (p - l) - 2 = a /\ p - l = a + 2 /\ p = a + 2 + l
      <4>1. l \in Int /\ a \in Int /\ p \in Int /\ a = p - 2 - l
          BY <3>2, <3>4, <1>5, <1>7
      <4>. HIDE DEF l, p
      <4>. QED  BY <4>1
    <3>6. Begun(State(drive), a, drive.record, t)
        BY <3>3, <3>5 DEF Begun
    <3>7. Wrote(r, p, bytes)
        BY <3>2, <1>2 DEF ChunkWritten
    <3>. HIDE DEF t, o, p
    <3>8. /\ o \in Seq(Nat) /\ Len(o) = Len(t) + Len(bytes)
          /\ Begun(r, a, drive.record, o) /\ Behind(p + Len(bytes), a, o)
      <4>1. p \in Int /\ a \in Nat /\ bytes \in Seq(Nat) /\ o = Joined(t, bytes) /\ Behind(p, a, t)
          BY <3>2, <3>5, <1>1, <1>5, <1>7 DEF Behind
      <4>2. Extends(State(drive), r, p)
          BY DEF p
      <4>. HIDE DEF l
      <4>. QED  BY <4>1, <4>2, <3>4, <3>6, <3>7, <1>6, RestWritten
    <3>9. Len(o) = drive.record /\ Len(o) > 0
      <4>1. drive.record = drive.bytes /\ drive.remaining = n /\ drive.bytes \in Int
          BY <3>1, <1>4, <1>5
      <4>2. l = drive.bytes - n /\ l \in Nat
          BY <3>3, <3>4, <4>1
      <4>3. Len(o) = l + n /\ n \in Int /\ n >= 1
          BY <3>8, <1>1
      <4>. HIDE DEF l, n
      <4>. QED  BY <4>1, <4>2, <4>3
    <3>10. e.position = a + 2 + Len(o)
        BY <3>2, <3>8, <1>1, <1>3 DEF Behind, p
    <3>. QED  BY <3>8, <3>9, <3>10 DEF Begun
  <2>. QED  BY <2>1, <2>2
<1>. HIDE DEF o
<1>9. Pad(e.position) = a + 2 + Pad(Len(o)) /\ Pad(Len(o)) \in Nat /\ Len(o) \in Nat
  <2>1. a + 2 \in EvenNumbers
      BY <1>7 DEF EvenNumbers
  <2>2. Len(o) \in Nat
      BY <1>8
  <2>3. Pad(Len(o)) \in Nat
      BY <2>2, Padded DEF EvenNumbers
  <2>. QED  BY <2>1, <2>2, <2>3, <1>8, PadFrom
<1>10. o # <<>> /\ Width(o) = Pad(Len(o)) + 4
  <2>1. o # <<>>
      BY <1>8
  <2>. QED  BY <2>1, <1>8, Widths
<1>11. a + Width(o) - 2 = Pad(e.position) /\ Pad(e.position) + 2 = a + Width(o) /\ a + Width(o) \in Int
    BY <1>7, <1>9, <1>10
<1>12. HoldsObject(r.file, r.size, a, o)
  <2>1. Word(r.file, r.size, a) = MetaData(Good, Len(o))
      BY <1>8 DEF Leads
  <2>2. Word(r.file, r.size, a + Width(o) - 2) = MetaData(Good, Len(o))
      BY <1>2, <1>8, <1>11 DEF Leads
  <2>3. \A i \in 1 .. Len(o) : r.file[a + 2 + i - 1] = o[i]
      BY <1>8 DEF Wrote
  <2>. QED  BY <2>1, <2>2, <2>3 DEF HoldsObject
<1>13. r.drive.position = a + Width(o)
    BY <1>2, <1>3, <1>11, CompletedDrive
<1>. QED  BY <1>8, <1>12, <1>13 DEF o, a, bytes

\* The next state after a chunk
LEMMA WriteNextSays ==
    ASSUME TapeInv, NEW b \in Data, WriteNext(b), NEW r, r = WriteData(drive, Chunk(b))
    PROVE  LET last == ~r.ok \/ transfer.rest = transfer.chunk
               complete == r.drive.location > drive.location
               exact == End(Base) = BlockStart
           IN  /\ transfer.op = "write" /\ file' = r.file /\ size' = r.size
               /\ drive' = IF last THEN AtRest(r.drive) ELSE r.drive
               /\ transfer' = IF last THEN NoTransfer
                              ELSE [Advanced(transfer) EXCEPT !.sent = IF complete \/ tar THEN <<>> ELSE Sent(Chunk(b))]
               /\ objects' = IF complete /\ exact THEN Append(Base, Sent(Chunk(b))) ELSE Base
               /\ torn' = IF WriteStarts \/ (~AtRecordBoundary(drive) /\ ~tar)
                          THEN ~(Ended(r) /\ r.drive.remaining = 0 /\ exact) ELSE torn
               /\ lost' = (lost \/ (~r.ok /\ (WriteStarts \/ ~AtRecordBoundary(drive))))
               /\ UNCHANGED <<fileSize, maxSize, tar, uncounted, received>>
<1>1. transfer \in Transfers /\ transfer.op = "write"
    BY DEF TapeInv, TypesInv, WriteNext
<1>2. Advanced(transfer).rest = transfer.rest - transfer.chunk
    BY <1>1 DEF Advanced, Transfers
<1>3. Advanced(transfer).rest = 0 <=> transfer.rest = transfer.chunk
    BY <1>1, <1>2 DEF Transfers
<1>. QED  BY <1>1, <1>3 DEF WriteNext, WriteStarts, Base, Chunk, Sent, BlockStart
\* The part of a block behind the objects in front of it that has been written with a chunk that is
\* not the last one
LEMMA NextPart ==
    ASSUME TapeInv, transfer.op = "write", ~tar, ~drive.fixed, transfer.rest # transfer.chunk,
           NEW b \in Data, NEW r, Sound(r), Extends(State(drive), r, drive.position),
           ChunkWritten(drive, Chunk(b), r), Base \in Objects, drive.position >= 0,
           AtRecordBoundary(drive) => WriteStarts /\ End(Base) <= drive.position
    PROVE  /\ PartWritten(r, Base, Filling(drive, transfer.chunk), Sent(Chunk(b)))
           /\ Sent(Chunk(b)) \in Seq(Nat)
<1>. DEFINE p == drive.position
            n == transfer.chunk
            bytes == Chunk(b)
            o == Sent(bytes)
            e == Filling(drive, n)
<1>1. bytes \in Seq(Nat) /\ Len(bytes) = n /\ n \in Nat /\ n >= 1 /\ transfer.rest \in Nat
    BY ChunkBytes DEF TapeInv, TypesInv, Transfers
<1>2. /\ AtRecordBoundary(drive) <=> drive.initial
      /\ e \in Drives /\ e.position = DataPosition(drive) + n /\ e.remaining = transfer.rest - n
      /\ e.bytes = drive.bytes /\ e.record = drive.record
    BY Boundaries DEF TapeInv
<1>3. /\ drive.remaining = transfer.rest
      /\ drive.initial => drive.bytes = transfer.rest
      /\ ~drive.initial => PartWritten(State(drive), objects, drive, transfer.sent)
    BY DEF TapeInv, WriteInv
<1>4. p \in Int /\ drive \in Drives /\ drive.bytes \in Nat /\ drive.record \in Nat /\ transfer.sent \in Seq(Nat)
    BY DEF TapeInv, TypesInv, Drives, Transfers
<1>5. Sound(State(drive))
    BY InvConfigured DEF TapeInv
<1>6. End(Base) \in Nat
    BY Ends
<1>. HIDE DEF bytes, e
<1>7. CASE drive.initial
  <2>1. o = bytes /\ DataPosition(drive) = p + 2 /\ End(Base) <= p
      BY <1>2, <1>7 DEF Sent, DataPosition
  <2>2. Leads(r, p, drive.record) /\ Wrote(r, p + 2, bytes)
      BY <2>1, <1>2, <1>7 DEF ChunkWritten, bytes
  <2>. HIDE DEF o
  <2>3. e.position - Len(bytes) = p + 2 /\ (p + 2) - 2 = p
    <3>1. p \in Int /\ n \in Int /\ Len(bytes) = n /\ e.position = (p + 2) + n
        BY <2>1, <1>1, <1>2, <1>4
    <3>. HIDE DEF p, n
    <3>. QED  BY <3>1
  <2>4. Len(bytes) = e.bytes - e.remaining
      BY <1>1, <1>2, <1>3, <1>7
  <2>. QED  BY <2>1, <2>2, <2>3, <2>4, <1>1, <1>2 DEF PartWritten, bytes, e, o
<1>8. CASE ~drive.initial
  <2>. DEFINE t == transfer.sent
              l == Len(t)
              a == p - l - 2
  <2>1. Base = objects
      BY <1>2, <1>8 DEF Base, WriteStarts
  <2>2. /\ l = drive.bytes - drive.remaining
        /\ End(Base) <= (p - l) - 2
        /\ Leads(State(drive), (p - l) - 2, drive.record) /\ Wrote(State(drive), p - l, t)
      BY <2>1, <1>3, <1>8 DEF PartWritten
  <2>3. o = Joined(t, bytes) /\ DataPosition(drive) = p
      BY <1>2, <1>8 DEF Sent, Joined, DataPosition, bytes
  <2>4. t \in Seq(Nat) /\ l \in Nat
      BY <1>4
  <2>. HIDE DEF t, o, p
  <2>5. a \in Nat /\ (p - l) - 2 = a /\ p - l = a + 2 /\ p = a + 2 + l
    <3>1. p \in Int /\ l \in Int
        BY <2>4, <1>4
    <3>2. (p - l) - 2 >= 0
        BY <2>2 DEF Leads
    <3>. HIDE DEF l
    <3>. QED  BY <3>1, <3>2
  <2>. HIDE DEF a
  <2>6. Begun(State(drive), a, drive.record, t) /\ Behind(p, a, t)
      BY <2>2, <2>5 DEF Begun, Behind
  <2>7. Wrote(r, p, bytes) /\ Extends(State(drive), r, p)
      BY <2>3 DEF ChunkWritten, bytes, p
  <2>. HIDE DEF l
  <2>8. /\ o \in Seq(Nat) /\ Len(o) = Len(t) + Len(bytes)
        /\ Begun(r, a, drive.record, o) /\ Behind(p + Len(bytes), a, o)
    <3>1. p \in Int /\ a \in Nat /\ bytes \in Seq(Nat) /\ t \in Seq(Nat) /\ o = Joined(t, bytes)
        BY <2>3, <2>4, <2>5, <1>1, <1>4 DEF p
    <3>. QED  BY <3>1, <2>6, <2>7, <1>5, RestWritten
  <2>9. Len(o) \in Nat
      BY <2>8
  <2>10. e.position = a + 2 + Len(o)
      BY <2>3, <2>8, <1>1, <1>2 DEF Behind, p
  <2>11. e.position - Len(o) = a + 2 /\ (a + 2) - 2 = a /\ End(Base) <= a
      BY <2>2, <2>5, <2>9, <2>10
  <2>12. Len(o) = e.bytes - e.remaining
    <3>1. drive.remaining = transfer.rest /\ e.bytes = drive.bytes /\ e.remaining = transfer.rest - n
        BY <1>2, <1>3
    <3>2. l = drive.bytes - transfer.rest /\ l \in Int
        BY <2>2, <2>4, <3>1
    <3>3. Len(o) = l + n /\ n \in Int /\ transfer.rest \in Int /\ drive.bytes \in Int
        BY <2>8, <1>1, <1>4 DEF l
    <3>. HIDE DEF n
    <3>. QED  BY <3>1, <3>2, <3>3
  <2>. QED  BY <2>8, <2>11, <2>12, <1>2 DEF PartWritten, Begun, o, e, bytes
<1>. QED  BY <1>7, <1>8

LEMMA MultiplesLess ==
    ASSUME NEW m \in Multiples, m # 0
    PROVE  m >= BlockSize /\ m - BlockSize \in Multiples
<1>1. BlockSize \in Nat /\ BlockSize > 0
    BY Sizes
<1>2. PICK k \in Nat : m = k * BlockSize
    BY DEF Multiples
<1>3. k # 0
    BY <1>1, <1>2
<1>4. k - 1 \in Nat
    BY <1>3
<1>5. m - BlockSize = (k - 1) * BlockSize
    BY <1>1, <1>2, <1>4
<1>6. (k - 1) * BlockSize \in Nat
    BY <1>1, <1>4
<1>. QED  BY <1>1, <1>4, <1>5, <1>6, <1>2 DEF Multiples

\* The transfer t after a chunk
Continued(t, sent) == [Advanced(t) EXCEPT !.sent = sent]

LEMMA Transferred ==
    ASSUME NEW t \in Transfers, t.op # "none", t.chunk \in 1 .. t.rest, t.chunk <= BlockSize,
           t.rest # t.chunk, NEW sent \in Seq(Nat), NEW a, a = Continued(t, sent)
    PROVE  /\ a \in Transfers /\ a.op = t.op /\ a.rest = t.rest - t.chunk /\ a.sent = sent
           /\ a.chunk = Lesser(t.rest - t.chunk, t.chunk)
           /\ a.chunk \in 1 .. a.rest /\ a.chunk <= BlockSize
<1>1. t.rest \in Nat /\ t.chunk \in Nat /\ BlockSize \in Nat
    BY Sizes DEF Transfers
<1>. DEFINE k == t.rest - t.chunk
            c == Lesser(k, t.chunk)
<1>2. k \in Nat /\ k >= 1
    BY <1>1
<1>3. c \in Nat /\ c \in 1 .. k /\ c <= BlockSize
    BY <1>1, <1>2 DEF Lesser
<1>4. a = [t EXCEPT !.rest = k, !.chunk = c, !.sent = sent]
    BY DEF Advanced, Transfers, Continued
<1>. HIDE DEF k, c
<1>5. a \in Transfers /\ a.op = t.op /\ a.rest = k /\ a.chunk = c /\ a.sent = sent
    BY <1>2, <1>3, <1>4 DEF Transfers
<1>. QED  BY <1>3, <1>5 DEF k, c

LEMMA RestDrive ==
    ASSUME NEW d \in Drives
    PROVE  AtRest(d) \in Drives /\ AtRest(d).position = d.position /\ AtRest(d).location = d.location
           /\ ~AtRest(d).fixed /\ ~AtRest(d).initial
BY DEF AtRest, Drive, Drives

LEMMA NoTransferType ==
    NoTransfer \in Transfers /\ NoTransfer.op = "none"
BY DEF NoTransfer, Transfers

\* What is kept while blocks are written
LEMMA WriteNextKeeps ==
    ASSUME TapeInv, NEW b \in Data, WriteNext(b)
    PROVE  TapeInv'
<1>. DEFINE p == drive.position
            n == transfer.chunk
            bytes == Chunk(b)
            sent == Sent(bytes)
            last(r) == ~r.ok \/ transfer.rest = n
            complete(r) == r.drive.location > drive.location
            exact == End(Base) = BlockStart
            boundary == AtRecordBoundary(drive)
<1>1. PICK r : r = WriteData(drive, bytes)
    OBVIOUS
<1>2. PICK e : e = Filling(drive, n)
    OBVIOUS
<1>3. /\ transfer.op = "write" /\ file' = r.file /\ size' = r.size
      /\ drive' = IF last(r) THEN AtRest(r.drive) ELSE r.drive
      /\ transfer' = IF last(r) THEN NoTransfer
                     ELSE [Advanced(transfer) EXCEPT !.sent = IF complete(r) \/ tar THEN <<>> ELSE sent]
      /\ objects' = IF complete(r) /\ exact THEN Append(Base, sent) ELSE Base
      /\ torn' = IF WriteStarts \/ (~boundary /\ ~tar)
                 THEN ~(Ended(r) /\ r.drive.remaining = 0 /\ exact) ELSE torn
      /\ fileSize' = fileSize /\ maxSize' = maxSize /\ tar' = tar
    BY <1>1, WriteNextSays
<1>4. Configured /\ Sound(State(drive)) /\ State(drive).file = file /\ State(drive).size = size
    BY InvConfigured DEF TapeInv
<1>5. /\ drive \in Drives /\ transfer \in Transfers /\ FileOK(file, size) /\ tar \in BOOLEAN
      /\ n \in 1 .. transfer.rest /\ n <= BlockSize
    BY <1>3 DEF TapeInv, TypesInv
<1>6. bytes \in Seq(Nat) /\ Len(bytes) = n
    BY <1>3, ChunkBytes DEF TapeInv
<1>7. /\ boundary <=> ~tar /\ (drive.fixed \/ drive.initial)
      /\ AtRecordBoundary(e) <=> ~tar /\ (drive.fixed \/ transfer.rest = n)
      /\ e \in Drives /\ e.location = drive.location /\ e.remaining = transfer.rest - n
      /\ e.record = drive.record /\ e.bytes = drive.bytes /\ e.fixed = drive.fixed /\ ~e.initial
    BY <1>2, <1>3, Boundaries DEF TapeInv
<1>8. e = Filling(drive, Len(bytes))
    BY <1>2, <1>6
<1>. HIDE DEF bytes
<1>9. /\ Sound(r) /\ Extends(State(drive), r, p)
      /\ r.drive.location = drive.location \/ BlockWritten(drive, bytes, r)
      /\ r.ok => /\ p >= 0 /\ ChunkWritten(drive, bytes, r)
                 /\ BlockWritten(drive, bytes, r) \/ (~AtRecordBoundary(e) /\ r.drive = e)
      /\ r.ok /\ r.drive.remaining = 0 /\ ~tar /\ r.drive.position + 2 <= fileSize =>
            Word(r.file, r.size, r.drive.position) = EndOfData
      /\ boundary /\ Overflow(State(drive), p + META_DATA_SIZE) =>
            ~r.ok /\ r.file = file /\ r.size = size /\ r.drive.location = drive.location
    BY <1>1, <1>4, <1>5, <1>6, <1>8, WriteDataEffect
<1>10. BlockWritten(drive, bytes, r) =>
          AtRecordBoundary(e) /\ r.drive = Completed(e, Pad(e.position) + 2) /\ Pad(e.position) + 2 \in Int
  <2>1. SUFFICES ASSUME BlockWritten(drive, bytes, r)
                 PROVE  AtRecordBoundary(e) /\ r.drive = Completed(e, Pad(e.position) + 2)
                        /\ Pad(e.position) + 2 \in Int
      OBVIOUS
  <2>2. e.position \in Int
      BY <1>7 DEF Drives
  <2>3. Pad(e.position) \in Int
      BY <2>2 DEF Pad
  <2>. QED  BY <2>1, <2>3, <1>8 DEF BlockWritten
<1>11. /\ r.drive \in Drives /\ r.file \in Bytes /\ r.size \in 0 .. Capacity /\ size <= r.size
       /\ FileOK(r.file, r.size)
    BY <1>4, <1>9 DEF Sound, States, FileOK, Extends
<1>12. BlockWritten(drive, bytes, r) \/ r.drive = e =>
          /\ r.drive.remaining = e.remaining /\ r.drive.record = e.record /\ r.drive.bytes = e.bytes
          /\ r.drive.fixed = e.fixed /\ ~r.drive.initial
    BY <1>7, <1>10, CompletedDrive
<1>13. BlockWritten(drive, bytes, r) => complete(r)
  <2>1. drive.location \in Int
      BY <1>5 DEF Drives
  <2>2. BlockWritten(drive, bytes, r) => r.drive.location = drive.location + 1
      BY <1>7, <1>10, CompletedDrive
  <2>. QED  BY <2>1, <2>2
<1>14. complete(r) => BlockWritten(drive, bytes, r)
  <2>1. drive.location \in Int
      BY <1>5 DEF Drives
  <2>. QED  BY <2>1, <1>9
<1>15. boundary /\ ~WriteStarts => Overflow(State(drive), p + META_DATA_SIZE)
    BY DEF WriteStarts
<1>16. /\ Base \in Objects /\ Holds(r.file, r.size, Base)
       /\ tar => Base = <<>>
       /\ WriteStarts /\ p >= 0 => End(Base) <= p
    BY <1>3, <1>9, <1>15, BaseStays
<1>17. BlockWritten(drive, bytes, r) /\ exact =>
          /\ sent \in Seq(Nat) /\ HoldsObject(r.file, r.size, End(Base), sent)
          /\ r.drive.position = End(Base) + Width(sent)
    BY <1>3, <1>9, <1>16, BlockOnTape DEF bytes
<1>. HIDE DEF sent, exact, boundary, complete
<1>18. ~last(r) => r.ok /\ transfer.rest # n /\ p >= 0
    BY <1>9
<1>19. ASSUME ~last(r), ~tar, ~drive.fixed
       PROVE  PartWritten(r, Base, e, sent) /\ sent \in Seq(Nat)
  <2>1. boundary => WriteStarts /\ End(Base) <= p
      BY <1>9, <1>15, <1>16, <1>18, <1>19
  <2>. QED  BY <2>1, <1>2, <1>3, <1>9, <1>16, <1>18, <1>19, NextPart DEF sent, bytes, boundary
<1>20. ASSUME ~last(r)
       PROVE  \E s \in Seq(Nat) :
                /\ transfer' = Continued(transfer, s)
                /\ ~tar /\ ~drive.fixed => s = sent
  <2>0. <<>> \in Seq(Nat)
      OBVIOUS
  <2>1. CASE tar
    <3>1. transfer' = Continued(transfer, <<>>)
        BY <2>1, <1>3, <1>20 DEF Continued
    <3>. QED  BY <2>0, <2>1, <3>1
  <2>2. CASE ~tar /\ drive.fixed
    <3>1. complete(r)
        BY <2>2, <1>7, <1>9, <1>13, <1>18, <1>20
    <3>2. transfer' = Continued(transfer, <<>>)
        BY <3>1, <1>3, <1>20 DEF Continued
    <3>. QED  BY <2>0, <2>2, <3>2
  <2>3. CASE ~tar /\ ~drive.fixed
    <3>1. ~AtRecordBoundary(e)
        BY <2>3, <1>7, <1>18, <1>20
    <3>2. ~complete(r)
        BY <3>1, <1>10, <1>14
    <3>3. transfer' = Continued(transfer, sent)
        BY <2>3, <3>2, <1>3, <1>20 DEF Continued
    <3>. QED  BY <2>3, <3>3, <1>19, <1>20
  <2>. QED  BY <2>1, <2>2, <2>3, <1>5
<1>21. TypesInv'
  <2>1. FileOK(file, size)'
      BY <1>3, <1>11 DEF FileOK, SizeOK, Bytes
  <2>2. fileSize' \in 0 .. size' /\ maxSize' \in 0 .. Capacity /\ tar' \in BOOLEAN
    <3>1. fileSize \in 0 .. size /\ maxSize \in 0 .. Capacity /\ size \in Int /\ r.size \in Int
        BY <1>5, <1>11, Sizes DEF TapeInv, TypesInv, FileOK
    <3>. QED  BY <3>1, <1>3, <1>5, <1>11
  <2>3. drive' \in Drives
      BY <1>3, <1>11, RestDrive
  <2>4. transfer' \in Transfers /\ (transfer'.op # "none" => transfer'.chunk \in 1 .. transfer'.rest /\ transfer'.chunk <= BlockSize)
    <3>1. CASE last(r)
        BY <3>1, <1>3, NoTransferType
    <3>2. CASE ~last(r)
      <4>1. PICK s \in Seq(Nat) : transfer' = Continued(transfer, s)
          BY <3>2, <1>20
      <4>. QED  BY <4>1, <3>2, <1>3, <1>5, <1>18, Transferred
    <3>. QED  BY <3>1, <3>2
  <2>. QED  BY <2>1, <2>2, <2>3, <2>4 DEF TypesInv
<1>22. ObjectsInv'
  <2>1. CASE complete(r) /\ exact
    <3>. DEFINE o == With(Base, sent)
    <3>1. /\ sent \in Seq(Nat) /\ HoldsObject(r.file, r.size, End(Base), sent)
          /\ r.drive.position = End(Base) + Width(sent) /\ BlockWritten(drive, bytes, r)
        BY <2>1, <1>14, <1>17 DEF exact
    <3>2. objects' = o /\ ~tar
        BY <2>1, <3>1, <1>3, <1>7, <1>10 DEF With
    <3>3. /\ o \in Objects /\ Len(o) = Len(Base) + 1 /\ IsPart(Base, o, Len(Base)) /\ o[Len(o)] = sent
          /\ Offset(o)[Len(Base)] = End(Base) /\ End(o) = End(Base) + Width(sent)
        BY <3>1, <1>16, WithObject
    <3>. HIDE DEF o
    <3>4. Holds(r.file, r.size, o)
      <4>1. \A k \in Len(Base) + 1 .. Len(o) : k = Len(o) /\ k - 1 = Len(Base)
          BY <3>3, <1>16 DEF Objects
      <4>2. \A k \in Len(Base) + 1 .. Len(o) : HoldsObject(r.file, r.size, Offset(o)[k - 1], o[k])
          BY <4>1, <3>1, <3>3
      <4>. QED  BY <4>2, <3>3, <1>16, HoldsMore
    <3>5. ASSUME ~torn'
          PROVE  Word(r.file, r.size, End(o)) = EndOfData \/ End(o) + 2 > r.size
      <4>1. WriteStarts \/ (~boundary /\ ~tar)
        <5>1. SUFFICES ASSUME boundary, ~WriteStarts
                       PROVE  FALSE
            BY <3>2
        <5>2. r.drive.location = drive.location /\ drive.location \in Int
            BY <5>1, <1>5, <1>9, <1>15 DEF Drives
        <5>. QED  BY <5>2, <2>1 DEF complete
      <4>2. Ended(r) /\ r.drive.remaining = 0
          BY <4>1, <3>5, <1>3
      <4>3. r.ok /\ (r.drive.position + 2 <= fileSize \/ r.drive.position + 2 > r.size)
        <5>1. r.drive.position \in Int /\ fileSize \in Int
            BY <1>4, <1>11 DEF Drives, Configured
        <5>. QED  BY <5>1, <4>2 DEF Ended, META_DATA_SIZE
      <4>4. End(o) = r.drive.position
          BY <3>1, <3>3
      <4>. QED  BY <4>2, <4>3, <4>4, <3>2, <1>9
    <3>6. Holds(file, size, objects)'
        BY <3>2, <3>4, <1>3 DEF Holds, HoldsObject
    <3>. QED  BY <3>2, <3>3, <3>5, <3>6, <1>3 DEF ObjectsInv
  <2>2. CASE ~(complete(r) /\ exact)
    <3>1. objects' = Base
        BY <2>2, <1>3
    <3>2. Holds(file, size, objects)'
        BY <3>1, <1>3, <1>16 DEF Holds, HoldsObject
    <3>3. tar => torn'
        BY <1>3, <1>7 DEF WriteStarts, boundary, TapeInv, ObjectsInv
    <3>4. ASSUME ~torn'
          PROVE  Word(r.file, r.size, End(Base)) = EndOfData \/ End(Base) + 2 > r.size
      <4>1. ~(WriteStarts \/ (~boundary /\ ~tar))
        <5>1. SUFFICES ASSUME WriteStarts \/ (~boundary /\ ~tar)
                       PROVE  FALSE
            OBVIOUS
        <5>2. Ended(r) /\ r.drive.remaining = 0 /\ exact
            BY <5>1, <3>4, <1>3
        <5>3. r.ok
            BY <5>2 DEF Ended
        <5>4. ~BlockWritten(drive, bytes, r)
            BY <5>2, <2>2, <1>13
        <5>5. ~AtRecordBoundary(e) /\ r.drive = e
            BY <5>3, <5>4, <1>9
        <5>6. transfer.rest - n = 0
            BY <5>2, <5>5, <1>7
        <5>7. transfer.rest = n
            BY <5>6, <1>5 DEF Transfers
        <5>8. tar
            BY <5>5, <5>7, <1>5, <1>7
        <5>. QED  BY <5>1, <5>8, <1>7 DEF WriteStarts, boundary
      <4>2. ~torn /\ boundary /\ ~WriteStarts
          BY <4>1, <3>3, <3>4, <1>3 DEF TapeInv, ObjectsInv
      <4>3. r.file = file /\ r.size = size /\ Base = objects
          BY <4>2, <1>9, <1>15 DEF Base
      <4>. QED  BY <4>2, <4>3 DEF TapeInv, ObjectsInv
    <3>. QED  BY <3>1, <3>2, <3>3, <3>4, <1>3, <1>16 DEF ObjectsInv
  <2>. QED  BY <2>1, <2>2
<1>23. WriteInv'
  <2>1. CASE last(r)
      BY <2>1, <1>3, NoTransferType DEF WriteInv
  <2>2. CASE ~last(r)
    <3>1. drive' = r.drive
        BY <2>2, <1>3
    <3>2. PICK s \in Seq(Nat) : transfer' = Continued(transfer, s) /\ (~tar /\ ~drive.fixed => s = sent)
        BY <2>2, <1>20
    <3>3. /\ transfer'.op = "write" /\ transfer'.rest = transfer.rest - n /\ transfer'.sent = s
          /\ transfer'.chunk = Lesser(transfer.rest - n, n)
      <4>1. transfer.op = "write" /\ transfer.rest # transfer.chunk
          BY <2>2, <1>3, <1>18
      <4>2. transfer' = Continued(transfer, s)
          BY <3>2
      <4>3. transfer \in Transfers /\ transfer.chunk \in 1 .. transfer.rest /\ transfer.chunk <= BlockSize
          BY <1>5
      <4>. QED  BY <4>1, <4>2, <4>3, Transferred
    <3>4. /\ r.drive.remaining = transfer.rest - n /\ r.drive.record = drive.record /\ r.drive.bytes = drive.bytes
          /\ r.drive.fixed = drive.fixed /\ ~r.drive.initial
        BY <2>2, <1>7, <1>9, <1>12, <1>18
    <3>5. /\ transfer.rest <= drive.bytes
          /\ drive.fixed => drive.record = BlockSize /\ transfer.rest \in Multiples /\ n = BlockSize
          /\ ~drive.fixed => drive.record = drive.bytes
        BY <1>3 DEF TapeInv, WriteInv
    <3>6. transfer.rest \in Nat /\ n \in Nat /\ n >= 1 /\ drive.bytes \in Nat
        BY <1>5 DEF Transfers, Drives
    <3>7. transfer.rest - n <= drive.bytes /\ transfer.rest - n < drive.bytes
        BY <3>5, <3>6
    <3>8. ASSUME drive.fixed
          PROVE  transfer.rest - n \in Multiples /\ Lesser(transfer.rest - n, n) = BlockSize
      <4>1. n = BlockSize /\ transfer.rest \in Multiples /\ transfer.rest # 0
          BY <3>5, <3>6, <3>8, <1>5
      <4>2. transfer.rest - n \in Multiples
          BY <4>1, MultiplesLess
      <4>3. transfer.rest - n # 0
          BY <3>6, <2>2, <1>18
      <4>4. transfer.rest - n >= BlockSize
          BY <4>2, <4>3, MultiplesLess
      <4>5. ~(transfer.rest - n < n) \/ transfer.rest - n = n
          BY <4>1, <4>4, <3>6
      <4>. QED  BY <4>1, <4>2, <4>5 DEF Lesser
    <3>9. ASSUME ~tar, ~drive.fixed
          PROVE  torn' /\ PartWritten(State(drive), objects, drive, transfer.sent)'
      <4>1. ~AtRecordBoundary(e) /\ ~BlockWritten(drive, bytes, r) /\ r.drive = e /\ ~complete(r)
          BY <3>9, <2>2, <1>7, <1>9, <1>10, <1>14, <1>18
      <4>2. objects' = Base /\ s = sent
          BY <4>1, <3>2, <3>9, <1>3
      <4>3. r.drive.remaining # 0
          BY <3>4, <3>6, <2>2, <1>18
      <4>4. WriteStarts \/ (~boundary /\ ~tar)
          BY <3>9, <2>2, <1>9, <1>15, <1>18
      <4>5. torn'
          BY <4>3, <4>4, <1>3
      <4>6. PartWritten(r, Base, e, sent)
          BY <3>9, <2>2, <1>19
      <4>7. State(drive)'.file = r.file /\ State(drive)'.size = r.size
          BY <1>3 DEF State
      <4>8. PartWritten(State(drive)', Base, e, sent)
          BY <4>6, <4>7 DEF PartWritten, Leads, Wrote
      <4>9. PartWritten(State(drive), objects, drive, transfer.sent)'
          BY <4>1, <4>2, <4>8, <3>1, <3>3 DEF PartWritten, Leads, Wrote, Word
      <4>. QED  BY <4>5, <4>9
    <3>. QED  BY <3>1, <3>3, <3>4, <3>5, <3>7, <3>8, <3>9, <1>3 DEF WriteInv
  <2>. QED  BY <2>1, <2>2
<1>. QED  BY <1>21, <1>22, <1>23 DEF TapeInv
-----------------------------------------------------------------------------
(* Looking for objects                                                     *)

\* The function that is v[x] where the recursion stops, and otherwise its value for next[x]
Solves(f, D, stop, next, v) == \A x \in D : f[x] = IF x \in stop THEN v[x] ELSE f[next[x]]

LEMMA TailRecursion ==
    ASSUME NEW D, NEW N \in Nat, NEW m, NEW stop, NEW next, Descends(D, N, m, stop, next),
           NEW R, NEW v \in [D -> R]
    PROVE  \E f \in [D -> R] : Solves(f, D, stop, next, v)
<1>. DEFINE g == [x \in D \ stop |-> [r \in R |-> r]]
<1>1. g \in [D \ stop -> [R -> R]]
    OBVIOUS
<1>2. \A x \in D \ stop : next[x] \in D
    BY DEF Descends
<1>3. \A x \in D \ stop : \A r \in R : g[x][r] = r
    OBVIOUS
<1>. HIDE DEF g
<1>4. PICK f \in [D -> R] : Recursive(f, D, stop, next, v, g)
    BY <1>1, WalkRecursion
<1>5. ASSUME NEW x \in D
      PROVE  f[x] = IF x \in stop THEN v[x] ELSE f[next[x]]
  <2>1. CASE x \in stop
      BY <2>1, <1>4 DEF Recursive
  <2>2. CASE x \notin stop
    <3>1. f[x] = g[x][f[next[x]]] /\ f[next[x]] \in R
        BY <2>2, <1>2, <1>4 DEF Recursive
    <3>. QED  BY <2>2, <3>1, <1>3
  <2>. QED  BY <2>1, <2>2
<1>. QED  BY <1>5 DEF Solves

Metas == [cls : Nat, value : Nat]

Whats == {"error", "object", "end-of-data", "end-of-medium", "begin-of-medium", "found", "filemark", "skip"}

Results == [what : Whats, position : Int, location : Int, meta : Metas]

LEMMA FoundType ==
    ASSUME NEW what \in Whats, NEW p \in Int, NEW l \in Int, NEW m \in Metas
    PROVE  /\ Found(what, p, l, m) \in Results
           /\ Found(what, p, l, m).what = what /\ Found(what, p, l, m).meta = m
           /\ Found(what, p, l, m).position = p /\ Found(what, p, l, m).location = l
BY DEF Found, Results

LEMMA NothingFound ==
    Nothing \in Metas /\ 0 \in Int /\ "begin-of-medium" \in Whats /\ "error" \in Whats
BY DEF Nothing, MetaData, Metas, Good, Whats

LEMMA MetaType ==
    ASSUME FileOK(file, size), NEW p \in Nat
    PROVE  At(p) \in Metas /\ (Meaning(At(p)) = "skip" => p + 2 <= size) /\ Meaning(At(p)) \in Whats
           /\ (Meaning(At(p)) = "object" => p + 2 <= size)
<1>1. At(p) \in Metas
  <2>1. CASE p + META_DATA_SIZE <= size
    <3>1. p \in 0 .. Capacity - 1 /\ p + 1 \in 0 .. Capacity - 1
        BY <2>1, Sizes DEF FileOK, META_DATA_SIZE
    <3>2. file[p] \in Nat /\ file[p + 1] \in Nat
        BY <3>1 DEF FileOK, Bytes
    <3>. QED  BY <2>1, <3>2 DEF At, MetaData, Metas
  <2>2. CASE ~(p + META_DATA_SIZE <= size)
      BY <2>2 DEF At, MetaData, Metas, ReservedMarker, EndOfMedium
  <2>. QED  BY <2>1, <2>2
<1>2. ~(p + 2 <= size) => Meaning(At(p)) = "end-of-medium"
  <2>1. SUFFICES ASSUME ~(p + 2 <= size)
                 PROVE  Meaning(At(p)) = "end-of-medium"
      OBVIOUS
  <2>2. At(p) = MetaData(ReservedMarker, EndOfMedium)
      BY <2>1 DEF At, META_DATA_SIZE
  <2>. QED  BY <2>2 DEF Meaning, MetaData, ReservedMarker, EndOfMedium, Good, Bad, PrivateMarker, EndOfDataMagic
<1>3. Meaning(At(p)) \in Whats
    BY DEF Meaning, Whats
<1>. QED  BY <1>1, <1>2, <1>3

LEMMA TailType ==
    ASSUME NEW m \in Metas
    PROVE  RecordTail(m) \in Nat /\ Counted(m) \in 0 .. 1
<1>1. m.value \in Nat
    BY DEF Metas
<1>2. Pad(m.value) \in Nat
    BY <1>1, Padded DEF EvenNumbers
<1>. QED  BY <1>1, <1>2 DEF RecordTail, Counted, META_DATA_SIZE

Places == Int \X Int

\* Where a search forwards ends, what it finds there, and how it goes on otherwise
NextStop == {x \in Places : x[1] < 0 \/ Meaning(At(x[1])) # "skip"}

NextFound ==
    [x \in Places |->
        IF x[1] < 0 THEN Found("error", x[1], x[2], Nothing)
        ELSE Found(Meaning(At(x[1])), x[1] + 2, x[2] + Counted(At(x[1])), At(x[1]))]

NextStep ==
    [x \in Places \ NextStop |-> <<x[1] + 2 + RecordTail(At(x[1])), x[2] + Counted(At(x[1]))>>]

\* The bytes that are left
Left == [x \in Places |-> IF x[1] \in 0 .. size THEN size - x[1] ELSE 0]

LEMMA NextSteps ==
    ASSUME FileOK(file, size), NEW x \in Places
    PROVE  /\ x[1] \in Int /\ x[2] \in Int
           /\ x \notin NextStop => /\ x[1] >= 0 /\ x[1] + 2 <= size
                                   /\ NextStep[x] \in Places /\ NextStep[x][1] >= x[1] + 2
                                   /\ RecordTail(At(x[1])) \in Nat
                                   /\ NextStep[x][1] = x[1] + 2 + RecordTail(At(x[1]))
                                   /\ NextStep[x][2] = x[2] + Counted(At(x[1]))
<1>1. x[1] \in Int /\ x[2] \in Int
    BY DEF Places
<1>2. ASSUME x \notin NextStop
      PROVE  /\ x[1] >= 0 /\ x[1] + 2 <= size
             /\ NextStep[x] \in Places /\ NextStep[x][1] >= x[1] + 2
             /\ RecordTail(At(x[1])) \in Nat
             /\ NextStep[x][1] = x[1] + 2 + RecordTail(At(x[1]))
             /\ NextStep[x][2] = x[2] + Counted(At(x[1]))
  <2>1. ~(x[1] < 0) /\ Meaning(At(x[1])) = "skip"
      BY <1>2 DEF NextStop
  <2>2. x[1] \in Nat
      BY <1>1, <2>1
  <2>3. x[1] + 2 <= size /\ At(x[1]) \in Metas
      BY <2>1, <2>2, MetaType
  <2>. DEFINE t == RecordTail(At(x[1]))
              c == Counted(At(x[1]))
  <2>4. t \in Nat /\ c \in Int
      BY <2>3, TailType
  <2>. HIDE DEF t, c
  <2>5. NextStep[x] = <<x[1] + 2 + t, x[2] + c>>
      BY <1>2 DEF NextStep, t, c
  <2>6. x[1] + 2 + t \in Int /\ x[2] + c \in Int /\ x[1] + 2 + t >= x[1] + 2
      BY <1>1, <2>4
  <2>. QED  BY <2>2, <2>3, <2>4, <2>5, <2>6 DEF Places, t, c
<1>. QED  BY <1>1, <1>2

LEMMA NextWalk ==
    ASSUME FileOK(file, size)
    PROVE  Descends(Places, size, Left, NextStop, NextStep) /\ size \in Nat
<1>1. size \in Nat
    BY Sizes DEF FileOK
<1>2. Left \in [Places -> 0 .. size]
    BY <1>1 DEF Left, Places
<1>3. NextStop \subseteq Places
    BY DEF NextStop
<1>4. \A x \in Places \ NextStop : NextStep[x] \in Places
    BY NextSteps
<1>5. NextStep \in [Places \ NextStop -> Places]
    BY <1>4 DEF NextStep
<1>6. ASSUME NEW x \in Places \ NextStop
      PROVE  Left[NextStep[x]] < Left[x]
  <2>. DEFINE y == NextStep[x]
  <2>1. x[1] \in Int /\ x[1] >= 0 /\ x[1] + 2 <= size /\ y \in Places /\ y[1] >= x[1] + 2
      BY NextSteps
  <2>. HIDE DEF y
  <2>2. y[1] \in Int
      BY <2>1 DEF Places
  <2>3. Left[x] = size - x[1] /\ Left[x] > 0
      BY <2>1, <1>1 DEF Left
  <2>4. Left[y] = IF y[1] \in 0 .. size THEN size - y[1] ELSE 0
      BY <2>1 DEF Left
  <2>5. Left[y] < Left[x]
      BY <1>1, <2>1, <2>2, <2>3, <2>4
  <2>. QED  BY <2>5 DEF y
<1>. QED  BY <1>1, <1>2, <1>3, <1>5, <1>6 DEF Descends

LEMMA NextFoundType ==
    ASSUME FileOK(file, size)
    PROVE  NextFound \in [Places -> Results]
<1>1. ASSUME NEW x \in Places
      PROVE  NextFound[x] \in Results
  <2>1. x[1] \in Int /\ x[2] \in Int
      BY DEF Places
  <2>2. CASE x[1] < 0
    <3>1. NextFound[x] = Found("error", x[1], x[2], Nothing)
        BY <2>2 DEF NextFound
    <3>. QED  BY <3>1, <2>1 DEF Found, Results, Whats, Nothing, MetaData, Metas, Good
  <2>3. CASE ~(x[1] < 0)
    <3>1. x[1] \in Nat
        BY <2>1, <2>3
    <3>. DEFINE m == At(x[1])
    <3>2. m \in Metas /\ Meaning(m) \in Whats
        BY <3>1, MetaType
    <3>3. Counted(m) \in Int
        BY <3>2, TailType
    <3>4. NextFound[x] = Found(Meaning(m), x[1] + 2, x[2] + Counted(m), m)
        BY <2>3 DEF NextFound
    <3>. HIDE DEF m
    <3>5. x[1] + 2 \in Int /\ x[2] + Counted(m) \in Int
        BY <2>1, <3>3
    <3>. QED  BY <3>2, <3>4, <3>5 DEF Found, Results
  <2>. QED  BY <2>2, <2>3
<1>. QED  BY <1>1 DEF NextFound

LEMMA NextObjectSays ==
    ASSUME FileOK(file, size)
    PROVE  \A x \in Places : NextObject[x] = IF x \in NextStop THEN NextFound[x] ELSE NextObject[NextStep[x]]
<1>. DEFINE Body(f) ==
              [x \in Int \X Int |->
                  LET p == x[1]  m == At(p)  n == x[2] + Counted(m)
                  IN  IF p < 0 THEN Found("error", p, x[2], Nothing)
                      ELSE IF Meaning(m) = "skip" THEN f[<<p + META_DATA_SIZE + RecordTail(m), n>>]
                      ELSE Found(Meaning(m), p + META_DATA_SIZE, n, m)]
<1>1. NextObject = CHOOSE f : f = Body(f)
    BY DEF NextObject
<1>2. PICK f \in [Places -> Results] : Solves(f, Places, NextStop, NextStep, NextFound)
    BY NextWalk, NextFoundType, TailRecursion
<1>3. \A h : \A x \in Places : Body(h)[x] = IF x \in NextStop THEN NextFound[x] ELSE h[NextStep[x]]
  <2>. SUFFICES ASSUME NEW h, NEW x \in Places
                PROVE  Body(h)[x] = IF x \in NextStop THEN NextFound[x] ELSE h[NextStep[x]]
      OBVIOUS
  <2>1. CASE x[1] < 0
      BY <2>1 DEF NextStop, NextFound, Places
  <2>2. CASE ~(x[1] < 0) /\ Meaning(At(x[1])) # "skip"
      BY <2>2 DEF NextStop, NextFound, Places, META_DATA_SIZE
  <2>3. CASE ~(x[1] < 0) /\ Meaning(At(x[1])) = "skip"
    <3>1. x \notin NextStop
        BY <2>3 DEF NextStop
    <3>2. Body(h)[x] = h[<<x[1] + 2 + RecordTail(At(x[1])), x[2] + Counted(At(x[1]))>>]
        BY <2>3 DEF Places, META_DATA_SIZE
    <3>3. NextStep[x] = <<x[1] + 2 + RecordTail(At(x[1])), x[2] + Counted(At(x[1]))>>
        BY <3>1 DEF NextStep
    <3>. QED  BY <3>1, <3>2, <3>3
  <2>. QED  BY <2>1, <2>2, <2>3
<1>4. f = Body(f)
  <2>1. f = [x \in Places |-> f[x]] /\ Body(f) = [x \in Places |-> Body(f)[x]]
      BY DEF Places
  <2>. HIDE DEF Body
  <2>2. \A x \in Places : f[x] = Body(f)[x]
      BY <1>2, <1>3 DEF Solves
  <2>. QED  BY <2>1, <2>2
<1>5. NextObject = Body(NextObject)
    BY <1>1, <1>4
<1>. HIDE DEF Body
<1>. QED  BY <1>3, <1>5

\* What is found forwards is behind the place where the search begins.
LEMMA NextObjectType ==
    ASSUME FileOK(file, size), NEW x \in Places
    PROVE  /\ NextObject[x] \in Results
           /\ NextObject[x].what = "object" =>
                x[1] >= 0 /\ x[1] + 2 <= NextObject[x].position /\ NextObject[x].position <= size
<1>. DEFINE S == {y \in Places :
                    /\ NextObject[y] \in Results
                    /\ NextObject[y].what = "object" =>
                         y[1] >= 0 /\ y[1] + 2 <= NextObject[y].position /\ NextObject[y].position <= size}
<1>1. ASSUME NEW y \in NextStop
      PROVE  y \in S
  <2>1. y \in Places /\ NextObject[y] = NextFound[y] /\ NextFound[y] \in Results /\ y[1] \in Int
      BY NextObjectSays, NextFoundType DEF NextStop, Places
  <2>2. CASE y[1] < 0
      BY <2>1, <2>2 DEF NextFound, Found
  <2>3. CASE ~(y[1] < 0)
    <3>1. y[1] \in Nat
        BY <2>1, <2>3
    <3>2. NextFound[y] = Found(Meaning(At(y[1])), y[1] + 2, y[2] + Counted(At(y[1])), At(y[1]))
        BY <2>1, <2>3 DEF NextFound
    <3>3. Meaning(At(y[1])) = "object" => y[1] + 2 <= size
        BY <3>1, MetaType
    <3>. QED  BY <2>1, <3>1, <3>2, <3>3 DEF Found
  <2>. QED  BY <2>2, <2>3
<1>2. ASSUME NEW y \in Places \ NextStop, NextStep[y] \in S
      PROVE  y \in S
  <2>. DEFINE z == NextStep[y]
  <2>1. NextObject[y] = NextObject[z] /\ y[1] \in Int /\ y[1] >= 0 /\ z \in Places /\ z[1] >= y[1] + 2 /\ z[1] \in Int
      BY NextObjectSays, NextSteps
  <2>2. /\ NextObject[z] \in Results
        /\ NextObject[z].what = "object" =>
              z[1] >= 0 /\ z[1] + 2 <= NextObject[z].position /\ NextObject[z].position <= size
      BY <1>2
  <2>3. NextObject[z].position \in Int
      BY <2>2 DEF Results
  <2>. HIDE DEF z
  <2>4. NextObject[z].what = "object" => y[1] + 2 <= NextObject[z].position
      BY <2>1, <2>2, <2>3
  <2>. QED  BY <2>1, <2>2, <2>4
<1>. HIDE DEF S
<1>3. x \in S
    BY <1>1, <1>2, NextWalk, WalkInduction
<1>. QED  BY <1>3 DEF S

\* The same for a search backwards
PreviousStop == {x \in Places : x[1] - 2 < 0 \/ Meaning(At(x[1] - 2)) # "skip"}

PreviousFound ==
    [x \in Places |->
        IF x[1] - 2 < 0 THEN Found("begin-of-medium", 0, 0, Nothing)
        ELSE Found(Meaning(At(x[1] - 2)), x[1] - 2 - RecordTail(At(x[1] - 2)),
                   x[2] - Counted(At(x[1] - 2)), At(x[1] - 2))]

PreviousStep ==
    [x \in Places \ PreviousStop |-> <<x[1] - 2 - RecordTail(At(x[1] - 2)), x[2] - Counted(At(x[1] - 2))>>]

\* The bytes that are in front of a place
Front == [x \in Places |-> IF x[1] \in 0 .. size THEN x[1] ELSE 0]

LEMMA PreviousSteps ==
    ASSUME FileOK(file, size), NEW x \in Places
    PROVE  /\ x[1] \in Int /\ x[2] \in Int
           /\ x \notin PreviousStop => /\ x[1] - 2 >= 0 /\ x[1] <= size
                                       /\ PreviousStep[x] \in Places /\ PreviousStep[x][1] <= x[1] - 2
                                       /\ RecordTail(At(x[1] - 2)) \in Nat
                                       /\ PreviousStep[x][1] = x[1] - 2 - RecordTail(At(x[1] - 2))
                                       /\ PreviousStep[x][2] = x[2] - Counted(At(x[1] - 2))
<1>1. x[1] \in Int /\ x[2] \in Int
    BY DEF Places
<1>2. ASSUME x \notin PreviousStop
      PROVE  /\ x[1] - 2 >= 0 /\ x[1] <= size
             /\ PreviousStep[x] \in Places /\ PreviousStep[x][1] <= x[1] - 2
             /\ RecordTail(At(x[1] - 2)) \in Nat
             /\ PreviousStep[x][1] = x[1] - 2 - RecordTail(At(x[1] - 2))
             /\ PreviousStep[x][2] = x[2] - Counted(At(x[1] - 2))
  <2>1. ~(x[1] - 2 < 0) /\ Meaning(At(x[1] - 2)) = "skip"
      BY <1>2 DEF PreviousStop
  <2>2. x[1] - 2 \in Nat
      BY <1>1, <2>1
  <2>3. (x[1] - 2) + 2 <= size /\ At(x[1] - 2) \in Metas
      BY <2>1, <2>2, MetaType
  <2>. DEFINE t == RecordTail(At(x[1] - 2))
              c == Counted(At(x[1] - 2))
  <2>4. t \in Nat /\ c \in Int
      BY <2>3, TailType
  <2>. HIDE DEF t, c
  <2>5. PreviousStep[x] = <<x[1] - 2 - t, x[2] - c>>
      BY <1>2 DEF PreviousStep, t, c
  <2>6. x[1] - 2 - t \in Int /\ x[2] - c \in Int /\ x[1] - 2 - t <= x[1] - 2 /\ x[1] <= size
      BY <1>1, <2>3, <2>4
  <2>. QED  BY <2>2, <2>4, <2>5, <2>6 DEF Places, t, c
<1>. QED  BY <1>1, <1>2

LEMMA PreviousWalk ==
    ASSUME FileOK(file, size)
    PROVE  Descends(Places, size, Front, PreviousStop, PreviousStep) /\ size \in Nat
<1>1. size \in Nat
    BY Sizes DEF FileOK
<1>2. Front \in [Places -> 0 .. size]
    BY <1>1 DEF Front, Places
<1>3. PreviousStop \subseteq Places
    BY DEF PreviousStop
<1>4. \A x \in Places \ PreviousStop : PreviousStep[x] \in Places
    BY PreviousSteps
<1>5. PreviousStep \in [Places \ PreviousStop -> Places]
    BY <1>4 DEF PreviousStep
<1>6. ASSUME NEW x \in Places \ PreviousStop
      PROVE  Front[PreviousStep[x]] < Front[x]
  <2>. DEFINE y == PreviousStep[x]
  <2>1. x[1] \in Int /\ x[1] - 2 >= 0 /\ x[1] <= size /\ y \in Places /\ y[1] <= x[1] - 2
      BY PreviousSteps
  <2>. HIDE DEF y
  <2>2. y[1] \in Int
      BY <2>1 DEF Places
  <2>3. Front[x] = x[1] /\ Front[x] > 0
      BY <2>1, <1>1 DEF Front
  <2>4. Front[y] = IF y[1] \in 0 .. size THEN y[1] ELSE 0
      BY <2>1 DEF Front
  <2>5. Front[y] < Front[x]
      BY <1>1, <2>1, <2>2, <2>3, <2>4
  <2>. QED  BY <2>5 DEF y
<1>. QED  BY <1>1, <1>2, <1>3, <1>5, <1>6 DEF Descends

LEMMA PreviousFoundType ==
    ASSUME FileOK(file, size)
    PROVE  PreviousFound \in [Places -> Results]
<1>1. ASSUME NEW x \in Places
      PROVE  PreviousFound[x] \in Results
  <2>1. x[1] \in Int /\ x[2] \in Int
      BY DEF Places
  <2>2. CASE x[1] - 2 < 0
    <3>1. PreviousFound[x] = Found("begin-of-medium", 0, 0, Nothing)
        BY <2>2 DEF PreviousFound
    <3>2. Found("begin-of-medium", 0, 0, Nothing) \in Results
        BY NothingFound DEF Found, Results
    <3>. QED  BY <3>1, <3>2
  <2>3. CASE ~(x[1] - 2 < 0)
    <3>1. x[1] - 2 \in Nat
        BY <2>1, <2>3
    <3>. DEFINE m == At(x[1] - 2)
    <3>2. m \in Metas /\ Meaning(m) \in Whats
        BY <3>1, MetaType
    <3>3. Counted(m) \in Int /\ RecordTail(m) \in Int
        BY <3>2, TailType
    <3>4. PreviousFound[x] = Found(Meaning(m), x[1] - 2 - RecordTail(m), x[2] - Counted(m), m)
        BY <2>3 DEF PreviousFound
    <3>. HIDE DEF m
    <3>5. x[1] - 2 - RecordTail(m) \in Int /\ x[2] - Counted(m) \in Int
        BY <2>1, <3>3
    <3>. QED  BY <3>2, <3>4, <3>5 DEF Found, Results
  <2>. QED  BY <2>2, <2>3
<1>. QED  BY <1>1 DEF PreviousFound

LEMMA PreviousObjectSays ==
    ASSUME FileOK(file, size)
    PROVE  \A x \in Places :
             PreviousObject[x] = IF x \in PreviousStop THEN PreviousFound[x] ELSE PreviousObject[PreviousStep[x]]
<1>. DEFINE Body(f) ==
              [x \in Int \X Int |->
                  LET q == x[1] - META_DATA_SIZE  m == At(q)  n == x[2] - Counted(m)
                  IN  IF q < 0 THEN Found("begin-of-medium", 0, 0, Nothing)
                      ELSE IF Meaning(m) = "skip" THEN f[<<q - RecordTail(m), n>>]
                      ELSE Found(Meaning(m), q - RecordTail(m), n, m)]
<1>1. PreviousObject = CHOOSE f : f = Body(f)
    BY DEF PreviousObject
<1>2. PICK f \in [Places -> Results] : Solves(f, Places, PreviousStop, PreviousStep, PreviousFound)
    BY PreviousWalk, PreviousFoundType, TailRecursion
<1>3. \A h : \A x \in Places : Body(h)[x] = IF x \in PreviousStop THEN PreviousFound[x] ELSE h[PreviousStep[x]]
  <2>. SUFFICES ASSUME NEW h, NEW x \in Places
                PROVE  Body(h)[x] = IF x \in PreviousStop THEN PreviousFound[x] ELSE h[PreviousStep[x]]
      OBVIOUS
  <2>1. CASE x[1] - 2 < 0
      BY <2>1 DEF PreviousStop, PreviousFound, Places, META_DATA_SIZE
  <2>2. CASE ~(x[1] - 2 < 0) /\ Meaning(At(x[1] - 2)) # "skip"
      BY <2>2 DEF PreviousStop, PreviousFound, Places, META_DATA_SIZE
  <2>3. CASE ~(x[1] - 2 < 0) /\ Meaning(At(x[1] - 2)) = "skip"
    <3>1. x \notin PreviousStop
        BY <2>3 DEF PreviousStop
    <3>2. Body(h)[x] = h[<<x[1] - 2 - RecordTail(At(x[1] - 2)), x[2] - Counted(At(x[1] - 2))>>]
        BY <2>3 DEF Places, META_DATA_SIZE
    <3>3. PreviousStep[x] = <<x[1] - 2 - RecordTail(At(x[1] - 2)), x[2] - Counted(At(x[1] - 2))>>
        BY <3>1 DEF PreviousStep
    <3>. QED  BY <3>1, <3>2, <3>3
  <2>. QED  BY <2>1, <2>2, <2>3
<1>4. f = Body(f)
  <2>1. f = [x \in Places |-> f[x]] /\ Body(f) = [x \in Places |-> Body(f)[x]]
      BY DEF Places
  <2>. HIDE DEF Body
  <2>2. \A x \in Places : f[x] = Body(f)[x]
      BY <1>2, <1>3 DEF Solves
  <2>. QED  BY <2>1, <2>2
<1>5. PreviousObject = Body(PreviousObject)
    BY <1>1, <1>4
<1>. HIDE DEF Body
<1>. QED  BY <1>3, <1>5

\* What is found backwards is in front of the place where the search begins.
LEMMA PreviousObjectType ==
    ASSUME FileOK(file, size), NEW x \in Places
    PROVE  /\ PreviousObject[x] \in Results
           /\ PreviousObject[x].what = "object" =>
                x[1] - 2 >= 0 /\ x[1] <= size /\ PreviousObject[x].position <= x[1] - 2
<1>. DEFINE S == {y \in Places :
                    /\ PreviousObject[y] \in Results
                    /\ PreviousObject[y].what = "object" =>
                         y[1] - 2 >= 0 /\ y[1] <= size /\ PreviousObject[y].position <= y[1] - 2}
<1>1. ASSUME NEW y \in PreviousStop
      PROVE  y \in S
  <2>1. /\ y \in Places /\ PreviousObject[y] = PreviousFound[y] /\ PreviousFound[y] \in Results
        /\ y[1] \in Int /\ y[2] \in Int
      BY PreviousObjectSays, PreviousFoundType DEF PreviousStop, Places
  <2>2. CASE y[1] - 2 < 0
    <3>1. PreviousFound[y] = Found("begin-of-medium", 0, 0, Nothing)
        BY <2>1, <2>2 DEF PreviousFound
    <3>2. PreviousObject[y].what = "begin-of-medium"
        BY <2>1, <3>1, NothingFound, FoundType
    <3>. QED  BY <2>1, <3>2
  <2>3. CASE ~(y[1] - 2 < 0)
    <3>. DEFINE m == At(y[1] - 2)
    <3>1. y[1] - 2 \in Nat
        BY <2>1, <2>3
    <3>2. PreviousFound[y] = Found(Meaning(m), y[1] - 2 - RecordTail(m), y[2] - Counted(m), m)
        BY <2>1, <2>3 DEF PreviousFound
    <3>3. (Meaning(m) = "object" => (y[1] - 2) + 2 <= size) /\ m \in Metas
        BY <3>1, MetaType
    <3>4. RecordTail(m) \in Nat
        BY <3>3, TailType
    <3>. HIDE DEF m
    <3>5. y[1] - 2 - RecordTail(m) <= y[1] - 2 /\ (Meaning(m) = "object" => y[1] <= size)
        BY <3>3, <3>4, <2>1
    <3>. QED  BY <2>1, <3>1, <3>2, <3>5 DEF Found
  <2>. QED  BY <2>2, <2>3
<1>2. ASSUME NEW y \in Places \ PreviousStop, PreviousStep[y] \in S
      PROVE  y \in S
  <2>. DEFINE z == PreviousStep[y]
  <2>1. /\ PreviousObject[y] = PreviousObject[z] /\ y[1] \in Int /\ y[1] - 2 >= 0 /\ y[1] <= size
        /\ z \in Places /\ z[1] <= y[1] - 2 /\ z[1] \in Int
      BY PreviousObjectSays, PreviousSteps
  <2>2. /\ PreviousObject[z] \in Results
        /\ PreviousObject[z].what = "object" =>
              z[1] - 2 >= 0 /\ z[1] <= size /\ PreviousObject[z].position <= z[1] - 2
      BY <1>2
  <2>3. PreviousObject[z].position \in Int
      BY <2>2 DEF Results
  <2>. HIDE DEF z
  <2>4. PreviousObject[z].what = "object" => PreviousObject[z].position <= y[1] - 2
      BY <2>1, <2>2, <2>3
  <2>. QED  BY <2>1, <2>2, <2>4
<1>. HIDE DEF S
<1>3. x \in S
    BY <1>1, <1>2, PreviousWalk, WalkInduction
<1>. QED  BY <1>3 DEF S

Searches == Int \X Int \X Int

\* The object that a search comes to next
Ahead(x) == NextObject[<<x[1], x[2]>>]
Before(x) == PreviousObject[<<x[1], x[2]>>]

LEMMA AheadType ==
    ASSUME FileOK(file, size), NEW x \in Searches
    PROVE  /\ x[1] \in Int /\ x[2] \in Int /\ x[3] \in Int /\ <<x[1], x[2]>> \in Places
           /\ Ahead(x) \in Results
           /\ Ahead(x).what = "object" =>
                x[1] >= 0 /\ x[1] + 2 <= Ahead(x).position /\ Ahead(x).position <= size
           /\ Before(x) \in Results
           /\ Before(x).what = "object" => x[1] - 2 >= 0 /\ x[1] <= size /\ Before(x).position <= x[1] - 2
<1>1. x[1] \in Int /\ x[2] \in Int /\ x[3] \in Int
    BY DEF Searches
<1>. DEFINE y == <<x[1], x[2]>>
<1>2. y \in Places /\ y[1] = x[1]
    BY <1>1 DEF Places
<1>. HIDE DEF y
<1>3. /\ NextObject[y] \in Results
      /\ NextObject[y].what = "object" =>
            y[1] >= 0 /\ y[1] + 2 <= NextObject[y].position /\ NextObject[y].position <= size
    BY <1>2, NextObjectType
<1>4. /\ PreviousObject[y] \in Results
      /\ PreviousObject[y].what = "object" =>
            y[1] - 2 >= 0 /\ y[1] <= size /\ PreviousObject[y].position <= y[1] - 2
    BY <1>2, PreviousObjectType
<1>. QED  BY <1>1, <1>2, <1>3, <1>4 DEF Ahead, Before, y

\* Behind the object r
Behind1(r) == r.position + RecordTail(r.meta)

SearchLeft == [x \in Searches |-> IF x[1] \in 0 .. size THEN size - x[1] ELSE 0]
SearchFront == [x \in Searches |-> IF x[1] \in 0 .. size THEN x[1] ELSE 0]

LEMMA SearchesDescend ==
    ASSUME FileOK(file, size), NEW x \in Searches, NEW y \in Searches
    PROVE  /\ Ahead(x).what = "object" /\ y[1] >= Ahead(x).position => SearchLeft[y] < SearchLeft[x]
           /\ Before(x).what = "object" /\ y[1] = Before(x).position => SearchFront[y] < SearchFront[x]
           /\ SearchLeft \in [Searches -> 0 .. size] /\ SearchFront \in [Searches -> 0 .. size] /\ size \in Nat
<1>1. size \in Nat
    BY Sizes DEF FileOK
<1>2. x[1] \in Int /\ y[1] \in Int
    BY DEF Searches
<1>3. SearchLeft \in [Searches -> 0 .. size] /\ SearchFront \in [Searches -> 0 .. size]
  <2>1. \A z \in Searches : z[1] \in Int
      BY DEF Searches
  <2>. QED  BY <1>1, <2>1 DEF SearchLeft, SearchFront
<1>4. ASSUME Ahead(x).what = "object", y[1] >= Ahead(x).position
      PROVE  SearchLeft[y] < SearchLeft[x]
  <2>1. x[1] >= 0 /\ x[1] + 2 <= Ahead(x).position /\ Ahead(x).position <= size /\ Ahead(x).position \in Int
      BY <1>4, AheadType DEF Results
  <2>2. SearchLeft[x] = size - x[1]
      BY <1>1, <1>2, <2>1 DEF SearchLeft
  <2>3. SearchLeft[y] = IF y[1] \in 0 .. size THEN size - y[1] ELSE 0
      BY DEF SearchLeft
  <2>. QED  BY <1>1, <1>2, <1>4, <2>1, <2>2, <2>3
<1>5. ASSUME Before(x).what = "object", y[1] = Before(x).position
      PROVE  SearchFront[y] < SearchFront[x]
  <2>1. x[1] - 2 >= 0 /\ x[1] <= size /\ Before(x).position <= x[1] - 2
      BY <1>5, AheadType
  <2>2. SearchFront[x] = x[1]
      BY <1>1, <1>2, <2>1 DEF SearchFront
  <2>3. SearchFront[y] = IF y[1] \in 0 .. size THEN y[1] ELSE 0
      BY DEF SearchFront
  <2>. QED  BY <1>1, <1>2, <1>5, <2>1, <2>2, <2>3
<1>. QED  BY <1>1, <1>3, <1>4, <1>5

\* FindForward() goes on behind the object r.
Passes(type, read, n, r) ==
    /\ r.what = "object" /\ ~(read /\ r.meta = MetaData(Bad, 0))
    /\ ~(Kind(r) = "filemark" /\ type = "block")
    /\ Kind(r) # type \/ n > 1

\* What it returns otherwise
Stopped(type, read, r) ==
    IF r.what = "object" /\ read /\ r.meta = MetaData(Bad, 0) THEN [r EXCEPT !.what = "found"]
    ELSE IF Kind(r) = "filemark" /\ type = "block" THEN [r EXCEPT !.what = "filemark"]
    ELSE IF r.what = "object" THEN Found("found", Behind1(r), r.location, r.meta)
    ELSE IF r.what # "end-of-data" THEN r
    ELSE IF type = "end-of-data" THEN [r EXCEPT !.what = "found"]
    ELSE [r EXCEPT !.position = @ - 2]

Fewer(type, n, r) == IF Kind(r) # type THEN n ELSE n - 1

ForwardStop(type, read) == {x \in Searches : ~Passes(type, read, x[3], Ahead(x))}
ForwardFound(type, read) == [x \in Searches |-> Stopped(type, read, Ahead(x))]
ForwardStep(type, read) ==
    [x \in Searches \ ForwardStop(type, read) |->
        <<Behind1(Ahead(x)), Ahead(x).location, Fewer(type, x[3], Ahead(x))>>]

LEMMA StoppedType ==
    ASSUME NEW type, NEW read, NEW r \in Results
    PROVE  Stopped(type, read, r) \in Results
<1>1. r.position - 2 \in Int /\ Behind1(r) \in Int /\ r.location \in Int /\ r.meta \in Metas
  <2>1. r.meta \in Metas /\ r.position \in Int /\ r.location \in Int
      BY DEF Results
  <2>2. RecordTail(r.meta) \in Int
      BY <2>1, TailType
  <2>. QED  BY <2>1, <2>2 DEF Behind1
<1>2. "found" \in Whats /\ "filemark" \in Whats
    BY DEF Whats
<1>3. [r EXCEPT !.what = "found"] \in Results /\ [r EXCEPT !.what = "filemark"] \in Results
    BY <1>2 DEF Results
<1>4. [r EXCEPT !.position = @ - 2] \in Results
    BY <1>1 DEF Results
<1>5. Found("found", Behind1(r), r.location, r.meta) \in Results
    BY <1>1, <1>2, FoundType
<1>. QED  BY <1>3, <1>4, <1>5 DEF Stopped

LEMMA ForwardWalk ==
    ASSUME FileOK(file, size), NEW type, NEW read
    PROVE  Descends(Searches, size, SearchLeft, ForwardStop(type, read), ForwardStep(type, read))
<1>. DEFINE stop == ForwardStop(type, read)
            step == ForwardStep(type, read)
<1>1. stop \subseteq Searches
    BY DEF ForwardStop
<1>2. ASSUME NEW x \in Searches \ stop
      PROVE  step[x] \in Searches /\ SearchLeft[step[x]] < SearchLeft[x]
  <2>1. Passes(type, read, x[3], Ahead(x))
      BY DEF ForwardStop
  <2>2. Ahead(x).what = "object"
      BY <2>1 DEF Passes
  <2>. DEFINE r == Ahead(x)
              t == RecordTail(r.meta)
              n == Fewer(type, x[3], r)
  <2>3. r.position \in Int /\ r.location \in Int /\ t \in Nat /\ x[3] \in Int
      BY AheadType, TailType DEF Results
  <2>4. n \in Int
      BY <2>3 DEF Fewer
  <2>5. step[x] = <<r.position + t, r.location, n>>
      BY DEF ForwardStep, Behind1
  <2>. HIDE DEF r, t, n, step
  <2>6. r.position + t \in Int /\ r.position + t >= r.position
      BY <2>3
  <2>7. step[x] \in Searches /\ step[x][1] >= r.position
      BY <2>3, <2>4, <2>5, <2>6 DEF Searches
  <2>8. SearchLeft[step[x]] < SearchLeft[x]
      BY <2>2, <2>7, SearchesDescend DEF r
  <2>. QED  BY <2>7, <2>8
<1>3. step \in [Searches \ stop -> Searches]
    BY <1>2 DEF ForwardStep
<1>4. SearchLeft \in [Searches -> 0 .. size]
  <2>1. <<0, 0, 0>> \in Searches
      BY DEF Searches
  <2>. QED  BY <2>1, SearchesDescend
<1>. HIDE DEF stop, step
<1>5. Descends(Searches, size, SearchLeft, stop, step)
    BY <1>1, <1>2, <1>3, <1>4 DEF Descends
<1>. QED  BY <1>5 DEF stop, step

\* The place where a search begins
From(d, count) == <<d.position, d.location, count>>

LEMMA FindForwardSays ==
    ASSUME FileOK(file, size), NEW d \in Drives, NEW type, NEW count \in Int, NEW read
    PROVE  \E f \in [Searches -> Results] :
             /\ FindForward(d, type, count, read) = f[From(d, count)]
             /\ Solves(f, Searches, ForwardStop(type, read), ForwardStep(type, read), ForwardFound(type, read))
<1>. DEFINE Body(f) ==
              [x \in Int \X Int \X Int |->
                LET r == NextObject[<<x[1], x[2]>>]
                    n == x[3]
                    e == r.position + RecordTail(r.meta)
                IN  IF r.what = "object" /\ read /\ r.meta = MetaData(Bad, 0) THEN [r EXCEPT !.what = "found"]
                    ELSE IF Kind(r) = "filemark" /\ type = "block" THEN [r EXCEPT !.what = "filemark"]
                    ELSE IF r.what = "object" /\ Kind(r) # type THEN f[<<e, r.location, n>>]
                    ELSE IF r.what = "object" /\ n > 1 THEN f[<<e, r.location, n - 1>>]
                    ELSE IF r.what = "object" THEN Found("found", e, r.location, r.meta)
                    ELSE IF r.what # "end-of-data" THEN r
                    ELSE IF type = "end-of-data" THEN [r EXCEPT !.what = "found"]
                    ELSE [r EXCEPT !.position = @ - META_DATA_SIZE]]
            find == CHOOSE f : f = Body(f)
            stop == ForwardStop(type, read)
            found == ForwardFound(type, read)
            step == ForwardStep(type, read)
<1>1. FindForward(d, type, count, read) = find[From(d, count)]
    BY DEF FindForward, From
<1>2. found \in [Searches -> Results]
  <2>1. \A x \in Searches : Stopped(type, read, Ahead(x)) \in Results
      BY AheadType, StoppedType
  <2>. QED  BY <2>1 DEF ForwardFound
<1>3. \A h : \A x \in Searches : Body(h)[x] = IF x \in stop THEN found[x] ELSE h[step[x]]
  <2>. SUFFICES ASSUME NEW h, NEW x \in Searches
                PROVE  Body(h)[x] = IF x \in stop THEN found[x] ELSE h[step[x]]
      OBVIOUS
  <2>. DEFINE r == Ahead(x)
  <2>1. Body(h)[x] =
          IF r.what = "object" /\ read /\ r.meta = MetaData(Bad, 0) THEN [r EXCEPT !.what = "found"]
          ELSE IF Kind(r) = "filemark" /\ type = "block" THEN [r EXCEPT !.what = "filemark"]
          ELSE IF r.what = "object" /\ Kind(r) # type THEN h[<<Behind1(r), r.location, x[3]>>]
          ELSE IF r.what = "object" /\ x[3] > 1 THEN h[<<Behind1(r), r.location, x[3] - 1>>]
          ELSE IF r.what = "object" THEN Found("found", Behind1(r), r.location, r.meta)
          ELSE IF r.what # "end-of-data" THEN r
          ELSE IF type = "end-of-data" THEN [r EXCEPT !.what = "found"]
          ELSE [r EXCEPT !.position = @ - 2]
      BY DEF Searches, Ahead, Behind1, META_DATA_SIZE
  <2>. HIDE DEF r, Body
  <2>2. CASE Passes(type, read, x[3], r)
    <3>1. x \notin stop /\ step[x] = <<Behind1(r), r.location, Fewer(type, x[3], r)>>
        BY <2>2 DEF ForwardStop, ForwardStep, r
    <3>2. Body(h)[x] = h[<<Behind1(r), r.location, Fewer(type, x[3], r)>>]
      <4>1. CASE Kind(r) # type
        <5>1. Body(h)[x] = h[<<Behind1(r), r.location, x[3]>>]
            BY <2>1, <2>2, <4>1 DEF Passes
        <5>. QED  BY <5>1, <4>1 DEF Fewer
      <4>2. CASE Kind(r) = type
        <5>1. Body(h)[x] = h[<<Behind1(r), r.location, x[3] - 1>>]
            BY <2>1, <2>2, <4>2 DEF Passes
        <5>. QED  BY <5>1, <4>2 DEF Fewer
      <4>. QED  BY <4>1, <4>2
    <3>. QED  BY <3>1, <3>2
  <2>3. CASE ~Passes(type, read, x[3], r)
    <3>1. x \in stop /\ found[x] = Stopped(type, read, r)
        BY <2>3 DEF ForwardStop, ForwardFound, r
    <3>2. Body(h)[x] = Stopped(type, read, r)
        BY <2>1, <2>3 DEF Passes, Stopped
    <3>. QED  BY <3>1, <3>2
  <2>. QED  BY <2>2, <2>3
<1>4. Descends(Searches, size, SearchLeft, stop, step) /\ size \in Nat
    BY ForwardWalk, Sizes DEF FileOK
<1>. HIDE DEF stop, found, step, find, Body
<1>5. PICK f \in [Searches -> Results] : Solves(f, Searches, stop, step, found)
    BY <1>2, <1>4, TailRecursion
<1>6. f = Body(f)
  <2>1. f = [x \in Searches |-> f[x]] /\ Body(f) = [x \in Searches |-> Body(f)[x]]
      BY DEF Searches, Body
  <2>2. \A x \in Searches : f[x] = Body(f)[x]
      BY <1>3, <1>5 DEF Solves
  <2>. QED  BY <2>1, <2>2
<1>7. find = Body(find)
    BY <1>6 DEF find
<1>8. \A x \in Searches : find[x] = IF x \in stop THEN found[x] ELSE find[step[x]]
    BY <1>3, <1>7
<1>. DEFINE S == {x \in Searches : find[x] \in Results}
<1>9. stop \subseteq S
    BY <1>2, <1>4, <1>8 DEF Descends
<1>10. \A x \in Searches \ stop : step[x] \in S => x \in S
    BY <1>8
<1>. HIDE DEF S
<1>11. \A x \in Searches : x \in S
    BY <1>4, <1>9, <1>10, WalkInduction
<1>. DEFINE g == [x \in Searches |-> find[x]]
<1>12. g \in [Searches -> Results]
    BY <1>11 DEF S
<1>13. From(d, count) \in Searches
    BY DEF From, Searches, Drives
<1>14. \A x \in Searches : g[x] = find[x] /\ (x \notin stop => step[x] \in Searches)
    BY <1>4 DEF Descends
<1>. HIDE DEF g
<1>15. FindForward(d, type, count, read) = g[From(d, count)]
    BY <1>1, <1>13, <1>14
<1>16. \A x \in Searches : g[x] = IF x \in stop THEN found[x] ELSE g[step[x]]
    BY <1>8, <1>14
<1>17. Solves(g, Searches, stop, step, found)
    BY <1>16 DEF Solves
<1>. QED  BY <1>12, <1>15, <1>17 DEF stop, found, step

\* The same for FindBackward()
PassesBack(type, n, r) ==
    /\ r.what = "object" /\ ~(Kind(r) = "filemark" /\ type = "block")
    /\ Kind(r) # type \/ n > 1

StoppedBack(type, r) ==
    IF Kind(r) = "filemark" /\ type = "block" THEN [r EXCEPT !.what = "filemark"]
    ELSE IF r.what = "object" THEN [r EXCEPT !.what = "found"]
    ELSE IF r.what = "end-of-data" THEN [r EXCEPT !.position = @ - 2] ELSE r

BackStop(type) == {x \in Searches : ~PassesBack(type, x[3], Before(x))}
BackFound(type) == [x \in Searches |-> StoppedBack(type, Before(x))]
BackStep(type) ==
    [x \in Searches \ BackStop(type) |-> <<Before(x).position, Before(x).location, Fewer(type, x[3], Before(x))>>]

LEMMA StoppedBackType ==
    ASSUME NEW type, NEW r \in Results
    PROVE  StoppedBack(type, r) \in Results
<1>1. r.position - 2 \in Int
    BY DEF Results
<1>2. "found" \in Whats /\ "filemark" \in Whats
    BY DEF Whats
<1>3. [r EXCEPT !.what = "found"] \in Results /\ [r EXCEPT !.what = "filemark"] \in Results
    BY <1>2 DEF Results
<1>4. [r EXCEPT !.position = @ - 2] \in Results
    BY <1>1 DEF Results
<1>. QED  BY <1>3, <1>4 DEF StoppedBack

LEMMA BackWalk ==
    ASSUME FileOK(file, size), NEW type
    PROVE  Descends(Searches, size, SearchFront, BackStop(type), BackStep(type))
<1>. DEFINE stop == BackStop(type)
            step == BackStep(type)
<1>1. stop \subseteq Searches
    BY DEF BackStop
<1>2. ASSUME NEW x \in Searches \ stop
      PROVE  step[x] \in Searches /\ SearchFront[step[x]] < SearchFront[x]
  <2>1. PassesBack(type, x[3], Before(x))
      BY DEF BackStop
  <2>2. Before(x).what = "object"
      BY <2>1 DEF PassesBack
  <2>. DEFINE r == Before(x)
              n == Fewer(type, x[3], r)
  <2>3. r.position \in Int /\ r.location \in Int /\ x[3] \in Int
      BY AheadType DEF Results
  <2>4. n \in Int
      BY <2>3 DEF Fewer
  <2>5. step[x] = <<r.position, r.location, n>>
      BY DEF BackStep
  <2>. HIDE DEF r, n, step
  <2>6. step[x] \in Searches /\ step[x][1] = r.position
      BY <2>3, <2>4, <2>5 DEF Searches
  <2>7. SearchFront[step[x]] < SearchFront[x]
      BY <2>2, <2>6, SearchesDescend DEF r
  <2>. QED  BY <2>6, <2>7
<1>3. step \in [Searches \ stop -> Searches]
    BY <1>2 DEF BackStep
<1>4. SearchFront \in [Searches -> 0 .. size]
  <2>1. <<0, 0, 0>> \in Searches
      BY DEF Searches
  <2>. QED  BY <2>1, SearchesDescend
<1>. HIDE DEF stop, step
<1>5. Descends(Searches, size, SearchFront, stop, step)
    BY <1>1, <1>2, <1>3, <1>4 DEF Descends
<1>. QED  BY <1>5 DEF stop, step

\* A solution has the values of v.
LEMMA SolutionType ==
    ASSUME NEW D, NEW N \in Nat, NEW m, NEW stop, NEW next, Descends(D, N, m, stop, next),
           NEW R, NEW v \in [D -> R], NEW f, Solves(f, D, stop, next, v)
    PROVE  \A x \in D : f[x] \in R
<1>. DEFINE S == {x \in D : f[x] \in R}
<1>1. stop \subseteq D
    BY DEF Descends
<1>2. stop \subseteq S
    BY <1>1 DEF Solves
<1>3. \A x \in D \ stop : next[x] \in S => x \in S
    BY DEF Solves
<1>. HIDE DEF S
<1>4. \A x \in D : x \in S
    BY <1>2, <1>3, WalkInduction
<1>. QED  BY <1>4 DEF S

LEMMA FindBackwardSays ==
    ASSUME FileOK(file, size), NEW d \in Drives, NEW type, NEW count \in Int
    PROVE  \E f : /\ FindBackward(d, type, count) = f[From(d, count)]
                  /\ Solves(f, Searches, BackStop(type), BackStep(type), BackFound(type))
                  /\ \A x \in Searches : f[x] \in Results
<1>. DEFINE Body(f) ==
              [x \in Int \X Int \X Int |->
                LET r == PreviousObject[<<x[1], x[2]>>]
                    n == x[3]
                IN  IF Kind(r) = "filemark" /\ type = "block" THEN [r EXCEPT !.what = "filemark"]
                    ELSE IF r.what = "object" /\ Kind(r) # type THEN f[<<r.position, r.location, n>>]
                    ELSE IF r.what = "object" /\ n > 1 THEN f[<<r.position, r.location, n - 1>>]
                    ELSE IF r.what = "object" THEN [r EXCEPT !.what = "found"]
                    ELSE IF r.what = "end-of-data" THEN [r EXCEPT !.position = @ - META_DATA_SIZE]
                    ELSE r]
            find == CHOOSE f : f = Body(f)
            stop == BackStop(type)
            found == BackFound(type)
            step == BackStep(type)
<1>1. FindBackward(d, type, count) = find[From(d, count)]
    BY DEF FindBackward, From
<1>2. found \in [Searches -> Results]
  <2>1. \A x \in Searches : StoppedBack(type, Before(x)) \in Results
      BY AheadType, StoppedBackType
  <2>. QED  BY <2>1 DEF BackFound
<1>3. \A h : \A x \in Searches : Body(h)[x] = IF x \in stop THEN found[x] ELSE h[step[x]]
  <2>. SUFFICES ASSUME NEW h, NEW x \in Searches
                PROVE  Body(h)[x] = IF x \in stop THEN found[x] ELSE h[step[x]]
      OBVIOUS
  <2>. DEFINE r == Before(x)
  <2>1. Body(h)[x] =
          IF Kind(r) = "filemark" /\ type = "block" THEN [r EXCEPT !.what = "filemark"]
          ELSE IF r.what = "object" /\ Kind(r) # type THEN h[<<r.position, r.location, x[3]>>]
          ELSE IF r.what = "object" /\ x[3] > 1 THEN h[<<r.position, r.location, x[3] - 1>>]
          ELSE IF r.what = "object" THEN [r EXCEPT !.what = "found"]
          ELSE IF r.what = "end-of-data" THEN [r EXCEPT !.position = @ - 2]
          ELSE r
      BY DEF Searches, Before, META_DATA_SIZE
  <2>. HIDE DEF r, Body
  <2>2. CASE PassesBack(type, x[3], r)
    <3>1. x \notin stop /\ step[x] = <<r.position, r.location, Fewer(type, x[3], r)>>
        BY <2>2 DEF BackStop, BackStep, r
    <3>2. Body(h)[x] = h[<<r.position, r.location, Fewer(type, x[3], r)>>]
      <4>1. CASE Kind(r) # type
        <5>1. Body(h)[x] = h[<<r.position, r.location, x[3]>>]
            BY <2>1, <2>2, <4>1 DEF PassesBack
        <5>. QED  BY <5>1, <4>1 DEF Fewer
      <4>2. CASE Kind(r) = type
        <5>1. Body(h)[x] = h[<<r.position, r.location, x[3] - 1>>]
            BY <2>1, <2>2, <4>2 DEF PassesBack
        <5>. QED  BY <5>1, <4>2 DEF Fewer
      <4>. QED  BY <4>1, <4>2
    <3>. QED  BY <3>1, <3>2
  <2>3. CASE ~PassesBack(type, x[3], r)
    <3>1. x \in stop /\ found[x] = StoppedBack(type, r)
        BY <2>3 DEF BackStop, BackFound, r
    <3>2. Body(h)[x] = StoppedBack(type, r)
        BY <2>1, <2>3 DEF PassesBack, StoppedBack
    <3>. QED  BY <3>1, <3>2
  <2>. QED  BY <2>2, <2>3
<1>4. Descends(Searches, size, SearchFront, stop, step) /\ size \in Nat
    BY BackWalk, Sizes DEF FileOK
<1>. HIDE DEF stop, found, step, find, Body
<1>5. PICK f \in [Searches -> Results] : Solves(f, Searches, stop, step, found)
    BY <1>2, <1>4, TailRecursion
<1>6. f = Body(f)
  <2>1. f = [x \in Searches |-> f[x]] /\ Body(f) = [x \in Searches |-> Body(f)[x]]
      BY DEF Searches, Body
  <2>2. \A x \in Searches : f[x] = Body(f)[x]
      BY <1>3, <1>5 DEF Solves
  <2>. QED  BY <2>1, <2>2
<1>7. find = Body(find)
    BY <1>6 DEF find
<1>8. Solves(find, Searches, stop, step, found)
    BY <1>3, <1>7 DEF Solves
<1>9. \A x \in Searches : find[x] \in Results
    BY <1>2, <1>4, <1>8, SolutionType
<1>. QED  BY <1>1, <1>8, <1>9 DEF stop, found, step

\* The same for FindObject()
ObjectStop == {x \in Searches : x[3] = 0 \/ Ahead(x).what # "object"}
ObjectFound == [x \in Searches |-> IF x[3] = 0 THEN Found("found", x[1], x[2], At(x[1])) ELSE Ahead(x)]
ObjectStep == [x \in Searches \ ObjectStop |-> <<Behind1(Ahead(x)), Ahead(x).location, x[3] - 1>>]

LEMMA ObjectSteps ==
    ASSUME FileOK(file, size), NEW x \in Searches \ ObjectStop
    PROVE  /\ ObjectStep[x] \in Searches /\ SearchLeft[ObjectStep[x]] < SearchLeft[x]
           /\ x[1] >= 0 /\ x[1] \in Int /\ ObjectStep[x][1] > x[1] /\ ObjectStep[x][1] \in Int
<1>1. Ahead(x).what = "object"
    BY DEF ObjectStop
<1>. DEFINE r == Ahead(x)
            t == RecordTail(r.meta)
<1>2. r.position \in Int /\ r.location \in Int /\ t \in Nat /\ x[3] \in Int /\ x[1] \in Int
    BY AheadType, TailType DEF Results
<1>3. x[1] >= 0 /\ x[1] + 2 <= r.position
    BY <1>1, AheadType
<1>4. ObjectStep[x] = <<r.position + t, r.location, x[3] - 1>>
    BY DEF ObjectStep, Behind1
<1>. HIDE DEF r, t
<1>5. r.position + t \in Int /\ r.position + t >= r.position /\ x[3] - 1 \in Int /\ r.position + t > x[1]
    BY <1>2, <1>3
<1>6. ObjectStep[x] \in Searches /\ ObjectStep[x][1] = r.position + t
    BY <1>2, <1>4, <1>5 DEF Searches
<1>7. SearchLeft[ObjectStep[x]] < SearchLeft[x]
    BY <1>1, <1>5, <1>6, SearchesDescend DEF r
<1>. QED  BY <1>2, <1>3, <1>5, <1>6, <1>7

LEMMA ObjectWalk ==
    ASSUME FileOK(file, size)
    PROVE  Descends(Searches, size, SearchLeft, ObjectStop, ObjectStep)
<1>1. ObjectStop \subseteq Searches
    BY DEF ObjectStop
<1>2. \A x \in Searches \ ObjectStop : ObjectStep[x] \in Searches /\ SearchLeft[ObjectStep[x]] < SearchLeft[x]
    BY ObjectSteps
<1>3. ObjectStep \in [Searches \ ObjectStop -> Searches]
    BY <1>2 DEF ObjectStep
<1>4. SearchLeft \in [Searches -> 0 .. size]
  <2>1. <<0, 0, 0>> \in Searches
      BY DEF Searches
  <2>. QED  BY <2>1, SearchesDescend
<1>. QED  BY <1>1, <1>2, <1>3, <1>4 DEF Descends

LEMMA FindObjectSays ==
    ASSUME FileOK(file, size), NEW identifier \in Int
    PROVE  \E f : /\ FindObject(identifier) = f[<<0, 0, identifier>>]
                  /\ Solves(f, Searches, ObjectStop, ObjectStep, ObjectFound)
                  /\ \A x \in Searches : x[1] >= 0 => f[x] \in Results
<1>. DEFINE Body(f) ==
              [x \in Int \X Int \X Int |->
                LET r == NextObject[<<x[1], x[2]>>]
                    n == x[3]
                IN  IF n = 0 THEN Found("found", x[1], x[2], At(x[1]))
                    ELSE IF r.what = "object" THEN f[<<r.position + RecordTail(r.meta), r.location, n - 1>>]
                    ELSE r]
            find == CHOOSE f : f = Body(f)
            R == {ObjectFound[x] : x \in Searches}
<1>1. FindObject(identifier) = find[<<0, 0, identifier>>]
    BY DEF FindObject
<1>2. ObjectFound \in [Searches -> R]
    BY DEF ObjectFound
<1>3. \A h : \A x \in Searches : Body(h)[x] = IF x \in ObjectStop THEN ObjectFound[x] ELSE h[ObjectStep[x]]
  <2>. SUFFICES ASSUME NEW h, NEW x \in Searches
                PROVE  Body(h)[x] = IF x \in ObjectStop THEN ObjectFound[x] ELSE h[ObjectStep[x]]
      OBVIOUS
  <2>. DEFINE r == Ahead(x)
  <2>1. Body(h)[x] =
          IF x[3] = 0 THEN Found("found", x[1], x[2], At(x[1]))
          ELSE IF r.what = "object" THEN h[<<Behind1(r), r.location, x[3] - 1>>]
          ELSE r
      BY DEF Searches, Ahead, Behind1
  <2>. HIDE DEF r, Body
  <2>2. CASE x \notin ObjectStop
    <3>1. ~(x[3] = 0) /\ r.what = "object" /\ ObjectStep[x] = <<Behind1(r), r.location, x[3] - 1>>
        BY <2>2 DEF ObjectStop, ObjectStep, r
    <3>. QED  BY <2>1, <2>2, <3>1
  <2>3. CASE x \in ObjectStop
    <3>1. x[3] = 0 \/ r.what # "object"
        BY <2>3 DEF ObjectStop, r
    <3>2. ObjectFound[x] = IF x[3] = 0 THEN Found("found", x[1], x[2], At(x[1])) ELSE r
        BY DEF ObjectFound, r
    <3>. QED  BY <2>1, <2>3, <3>1, <3>2
  <2>. QED  BY <2>2, <2>3
<1>4. Descends(Searches, size, SearchLeft, ObjectStop, ObjectStep) /\ size \in Nat
    BY ObjectWalk, Sizes DEF FileOK
<1>. HIDE DEF find, Body, R
<1>5. PICK f \in [Searches -> R] : Solves(f, Searches, ObjectStop, ObjectStep, ObjectFound)
    BY <1>2, <1>4, TailRecursion
<1>6. f = Body(f)
  <2>1. f = [x \in Searches |-> f[x]] /\ Body(f) = [x \in Searches |-> Body(f)[x]]
      BY DEF Searches, Body
  <2>2. \A x \in Searches : f[x] = Body(f)[x]
      BY <1>3, <1>5 DEF Solves
  <2>. QED  BY <2>1, <2>2
<1>7. find = Body(find)
    BY <1>6 DEF find
<1>8. Solves(find, Searches, ObjectStop, ObjectStep, ObjectFound)
    BY <1>3, <1>7 DEF Solves
<1>. DEFINE S == {x \in Searches : x[1] >= 0 => find[x] \in Results}
<1>9. ASSUME NEW x \in ObjectStop
      PROVE  x \in S
  <2>1. x \in Searches /\ find[x] = ObjectFound[x]
      BY <1>8 DEF Solves, ObjectStop
  <2>2. x[1] \in Int /\ x[2] \in Int /\ Ahead(x) \in Results
      BY <2>1, AheadType
  <2>3. ASSUME x[1] >= 0
        PROVE  Found("found", x[1], x[2], At(x[1])) \in Results
    <3>1. x[1] \in Nat
        BY <2>2, <2>3
    <3>2. At(x[1]) \in Metas /\ "found" \in Whats
        BY <3>1, MetaType DEF Whats
    <3>. QED  BY <2>2, <3>2, FoundType
  <2>. QED  BY <2>1, <2>2, <2>3 DEF ObjectFound
<1>10. ASSUME NEW x \in Searches \ ObjectStop, ObjectStep[x] \in S
       PROVE  x \in S
  <2>1. find[x] = find[ObjectStep[x]]
      BY <1>8 DEF Solves
  <2>2. ObjectStep[x][1] >= 0
      BY ObjectSteps
  <2>. QED  BY <1>10, <2>1, <2>2
<1>. HIDE DEF S
<1>11. \A x \in Searches : x \in S
    BY <1>4, <1>9, <1>10, WalkInduction
<1>. QED  BY <1>1, <1>8, <1>11 DEF S

LEMMA FindTypes ==
    ASSUME FileOK(file, size), NEW d \in Drives, NEW type, NEW count \in Int, NEW read
    PROVE  /\ FindForward(d, type, count, read) \in Results
           /\ FindBackward(d, type, count) \in Results
           /\ FindObject(count) \in Results
<1>1. From(d, count) \in Searches
    BY DEF From, Searches, Drives
<1>2. FindForward(d, type, count, read) \in Results
    BY <1>1, FindForwardSays
<1>3. FindBackward(d, type, count) \in Results
    BY <1>1, FindBackwardSays
<1>4. FindObject(count) \in Results
  <2>. DEFINE x == <<0, 0, count>>
  <2>1. x \in Searches /\ x[1] >= 0
      BY DEF Searches
  <2>. HIDE DEF x
  <2>2. PICK f : FindObject(count) = f[x] /\ \A y \in Searches : y[1] >= 0 => f[y] \in Results
      BY FindObjectSays DEF x
  <2>. QED  BY <2>1, <2>2
<1>. QED  BY <1>2, <1>3, <1>4
-----------------------------------------------------------------------------
(* Reading, positioning and the beginning of a transfer                    *)

LEMMA MovedDrive ==
    ASSUME NEW d \in Drives, NEW r \in Results
    PROVE  /\ Moved(d, r) \in Drives
           /\ Moved(d, r).position = r.position /\ Moved(d, r).location = r.location
<1>1. r.position \in Int /\ r.location \in Int
    BY DEF Results
<1>. QED  BY <1>1 DEF Moved, Drives

\* The result r with the position in front of a marker
InFront(r) == [r EXCEPT !.position = @ - META_DATA_SIZE]

LEMMA InFrontResult ==
    ASSUME NEW r \in Results
    PROVE  InFront(r) \in Results /\ InFront(r).position = r.position - 2 /\ InFront(r).location = r.location
BY DEF InFront, Results, META_DATA_SIZE

LEMMA LocatedDrive ==
    ASSUME TypesInv, NEW explicit, NEW identifier \in Nat
    PROVE  Located(explicit, identifier).drive \in Drives /\ Located(TRUE, identifier).drive \in Drives
<1>1. FileOK(file, size) /\ drive \in Drives
    BY DEF TypesInv
<1>. DEFINE r == FindObject(identifier)
            there == [drive EXCEPT !.position = identifier * BlockSize, !.location = identifier]
<1>2. r \in Results
    BY <1>1, FindTypes
<1>. HIDE DEF r
<1>3. there \in Drives
  <2>1. identifier * BlockSize \in Int /\ identifier \in Int
      BY Sizes
  <2>. QED  BY <2>1, <1>1 DEF Drives
<1>. HIDE DEF there
<1>4. Moved(drive, r) \in Drives
    BY <1>1, <1>2, MovedDrive
<1>. QED  BY <1>1, <1>3, <1>4 DEF Located, r, there

\* A transfer that reads
Reads(t) == t \in Transfers /\ t.op = "read" /\ t.chunk \in 1 .. t.rest /\ t.chunk <= BlockSize

\* The result of a part of ReadData()
ReadResult(r) == r.drive \in Drives /\ Reads(r.transfer)

LEMMA TransferType ==
    ASSUME NEW op \in {"read", "write"}, NEW length \in Nat, length # 0, NEW sili \in BOOLEAN,
           NEW t, t = Transfer(op, length, sili)
    PROVE  /\ t \in Transfers /\ t.op = op /\ t.rest = length /\ t.chunk = Lesser(length, BlockSize)
           /\ t.chunk \in 1 .. t.rest /\ t.chunk <= BlockSize
<1>1. BlockSize \in Nat /\ BlockSize >= 1
    BY Sizes
<1>. DEFINE c == Lesser(length, BlockSize)
<1>2. c \in Nat /\ c \in 1 .. length /\ c <= BlockSize
    BY <1>1 DEF Lesser
<1>3. <<>> \in Seq(Nat)
    OBVIOUS
<1>. HIDE DEF c
<1>4. t = [op |-> op, rest |-> length, chunk |-> c, sili |-> sili, sent |-> <<>>]
    BY DEF Transfer, c
<1>. QED  BY <1>2, <1>3, <1>4 DEF Transfers, c

LEMMA ReadChunkType ==
    ASSUME NEW d \in Drives, NEW t, Reads(t), NEW length \in Nat
    PROVE  ReadResult(ReadChunk(d, t, length))
<1>1. PICK e : e = Filled(d, d.position + length, length)
    OBVIOUS
<1>2. d.position + length \in Int /\ length \in Int
    BY DEF Drives
<1>3. e \in Drives
    BY <1>1, <1>2, FilledDrive
<1>4. PICK q : q = TrailingLength(e)
    OBVIOUS
<1>5. q \in Int /\ q + META_DATA_SIZE \in Int
    BY <1>3, <1>4 DEF TrailingLength, Pad, Drives, META_DATA_SIZE
<1>6. Placed(e, q) \in Drives /\ Placed(e, q + META_DATA_SIZE) \in Drives
    BY <1>3, <1>5, PlacedDrive
<1>. DEFINE Done(x) == [ok |-> TRUE, what |-> "done", drive |-> x, transfer |-> t,
                        from |-> d.position, length |-> length]
<1>7. PICK a : a = [Done(e) EXCEPT !.drive.position = q + META_DATA_SIZE]
    OBVIOUS
<1>12. a.drive = [e EXCEPT !.position = q + META_DATA_SIZE] /\ a.transfer = t
    BY <1>7
<1>13. a.drive = Placed(e, q + META_DATA_SIZE)
    BY <1>12 DEF Placed
<1>8. \A x : Done(x).drive = x /\ Done(x).transfer = t
    OBVIOUS
<1>9. \A what, x : Failed(what, x, t).drive = x /\ Failed(what, x, t).transfer = t
    BY DEF Failed
<1>10. ReadChunk(d, t, length) =
          IF d.position + length > size THEN Failed("read-error", d, t)
          ELSE IF ~AtRecordBoundary(e) THEN Done(e)
          ELSE IF q + META_DATA_SIZE > size THEN Failed("read-error", Placed(e, q), t)
          ELSE IF At(q).value # d.record THEN Failed("read-error", Placed(e, q + META_DATA_SIZE), t)
          ELSE a
    BY <1>1, <1>4, <1>7 DEF ReadChunk, Filled, Placed
<1>. HIDE DEF Done
<1>11. ReadChunk(d, t, length) \in
          {Failed("read-error", d, t), Done(e), Failed("read-error", Placed(e, q), t),
           Failed("read-error", Placed(e, q + META_DATA_SIZE), t), a}
    BY <1>10
<1>. QED  BY <1>3, <1>6, <1>8, <1>9, <1>11, <1>12, <1>13 DEF ReadResult

\* The drive d that reads only a bytes, n of which remain
Shortened(d, a, n) == [d EXCEPT !.bytes = a, !.remaining = n]

\* The transfer t with what has been sent
SentBefore(t, sent) == [t EXCEPT !.sent = sent]

LEMMA ShortenedDrive ==
    ASSUME NEW d \in Drives, NEW a \in Nat, NEW n \in Int
    PROVE  Shortened(d, a, n) \in Drives
BY DEF Shortened, Drives

LEMMA SentBeforeType ==
    ASSUME NEW t \in Transfers, NEW sent \in Seq(Nat)
    PROVE  /\ SentBefore(t, sent) \in Transfers /\ SentBefore(t, sent).op = t.op
           /\ SentBefore(t, sent).chunk = t.chunk /\ SentBefore(t, sent).rest = t.rest
BY DEF SentBefore, Transfers

LEMMA ReadBlockType ==
    ASSUME NEW d \in Drives, NEW t, Reads(t), NEW a \in Nat
    PROVE  ReadResult(ReadBlock(d, t, a))
<1>1. t.chunk \in Nat /\ t.sili \in BOOLEAN /\ t.sent \in Seq(Nat)
    BY DEF Reads, Transfers
<1>2. CASE a = 0
  <2>1. ReadBlock(d, t, a) = ReadChunk(d, t, t.chunk)
      BY <1>2 DEF ReadBlock
  <2>. QED  BY <1>1, <2>1, ReadChunkType
<1>3. CASE a # 0
  <2>1. Shortened(d, a, a) \in Drives
    <3>1. a \in Int
        OBVIOUS
    <3>. QED  BY <3>1, ShortenedDrive
  <2>2. PICK u : u = Transfer("read", a, t.sili)
      OBVIOUS
  <2>3. "read" \in {"read", "write"}
      OBVIOUS
  <2>4. u \in Transfers /\ u.op = "read" /\ u.chunk \in 1 .. u.rest /\ u.chunk <= BlockSize
      BY <1>1, <1>3, <2>2, <2>3, TransferType
  <2>5. Lesser(a, t.chunk) \in Nat
      BY <1>1 DEF Lesser
  <2>6. Reads(SentBefore(u, t.sent))
      BY <1>1, <2>4, SentBeforeType DEF Reads
  <2>7. ReadBlock(d, t, a) = ReadChunk(Shortened(d, a, a), SentBefore(u, t.sent), Lesser(a, t.chunk))
      BY <1>3, <2>2 DEF ReadBlock, Shortened, SentBefore
  <2>. QED  BY <2>1, <2>5, <2>6, <2>7, ReadChunkType
<1>. QED  BY <1>2, <1>3

\* The drive d at the data of a block of n bytes
AtData(d, p, l, n) == [d EXCEPT !.record = n, !.start = p, !.position = p, !.location = l]

LEMMA AtDataDrive ==
    ASSUME NEW d \in Drives, NEW p \in Int, NEW l \in Int, NEW n \in Nat
    PROVE  AtData(d, p, l, n) \in Drives
BY DEF AtData, Drives

LEMMA ReadFoundType ==
    ASSUME NEW d \in Drives, NEW t, Reads(t), NEW r \in Results
    PROVE  ReadResult(ReadFound(d, t, r))
<1>1. CASE r.what # "found" \/ r.meta.value = 0
  <2>1. ReadFound(d, t, r) = Failed(r.what, Moved(d, r), t)
      BY <1>1 DEF ReadFound
  <2>2. Moved(d, r) \in Drives
      BY MovedDrive
  <2>3. \A what, x : Failed(what, x, t).drive = x /\ Failed(what, x, t).transfer = t
      BY DEF Failed
  <2>. QED  BY <2>1, <2>2, <2>3 DEF ReadResult
<1>2. CASE ~(r.what # "found" \/ r.meta.value = 0)
  <2>1. r.meta.value \in Nat /\ r.position \in Int /\ r.location \in Int
      BY DEF Results, Metas
  <2>2. PICK b : b = AtBlock(d, r)
      OBVIOUS
  <2>3. b = AtData(d, RecordStart(r.position, r.meta.value), r.location, r.meta.value)
      BY <2>2 DEF AtBlock, AtData
  <2>4. RecordStart(r.position, r.meta.value) \in Int
      BY <2>1 DEF RecordStart, META_DATA_SIZE
  <2>5. b \in Drives
      BY <2>1, <2>3, <2>4, AtDataDrive
  <2>6. IncorrectLength(b, t) \in Nat
    <3>1. b.record \in Nat /\ b.bytes \in Nat
        BY <2>5 DEF Drives
    <3>2. Lesser(b.record, b.bytes) \in Nat
        BY <3>1 DEF Lesser
    <3>. QED  BY <3>2 DEF IncorrectLength
  <2>7. ReadFound(d, t, r) = ReadBlock(b, t, IncorrectLength(b, t))
      BY <1>2, <2>2 DEF ReadFound
  <2>. QED  BY <2>5, <2>6, <2>7, ReadBlockType
<1>. QED  BY <1>1, <1>2

LEMMA ReadDataType ==
    ASSUME FileOK(file, size), NEW d \in Drives, NEW t, Reads(t)
    PROVE  ReadResult(ReadData(d, t))
<1>1. Started(d) \in Drives
    BY StartedDrive
<1>2. FindForward(d, "block", 0, TRUE) \in Results
  <2>1. 0 \in Int
      OBVIOUS
  <2>. QED  BY <2>1, FindTypes
<1>3. t.chunk \in Nat
    BY DEF Reads, Transfers
<1>4. ReadData(d, t) = IF AtRecordBoundary(d) THEN ReadFound(Started(d), t, FindForward(d, "block", 0, TRUE))
                       ELSE ReadChunk(Started(d), t, t.chunk)
    BY DEF ReadData, Started
<1>. QED  BY <1>1, <1>2, <1>3, <1>4, ReadFoundType, ReadChunkType
\* The file and the objects stay.
LEMMA SameTapeKeeps ==
    ASSUME TapeInv, SameTape, drive' \in Drives, transfer' \in Transfers,
           transfer'.op # "none" => transfer'.chunk \in 1 .. transfer'.rest /\ transfer'.chunk <= BlockSize,
           WriteInv'
    PROVE  TapeInv'
<1>1. /\ file' = file /\ size' = size /\ fileSize' = fileSize /\ maxSize' = maxSize /\ tar' = tar
      /\ objects' = objects /\ torn' = torn
    BY DEF SameTape, SameFile
<1>2. TypesInv'
    BY <1>1 DEF TapeInv, TypesInv, FileOK, SizeOK, Bytes
<1>3. ObjectsInv'
    BY <1>1 DEF TapeInv, ObjectsInv, Holds, HoldsObject
<1>. QED  BY <1>2, <1>3 DEF TapeInv

LEMMA IdleKeeps ==
    ASSUME TapeInv, SameTape, drive' \in Drives, transfer' \in Transfers, transfer'.op = "none"
    PROVE  TapeInv'
<1>1. WriteInv'
    BY DEF WriteInv
<1>. QED  BY <1>1, SameTapeKeeps

LEMMA LocateFailsKeeps ==
    ASSUME TapeInv, Idle, NEW l, l.drive \in Drives, LocateFails(l)
    PROVE  TapeInv'
<1>1. drive' = l.drive /\ transfer' = transfer /\ SameTape
    BY DEF LocateFails
<1>2. transfer' \in Transfers /\ transfer'.op = "none"
    BY <1>1 DEF TapeInv, TypesInv, Idle
<1>. QED  BY <1>1, <1>2, IdleKeeps

LEMMA DeliverKeeps ==
    ASSUME TapeInv, NEW r, ReadResult(r), NEW wasLost, Deliver(r, wasLost)
    PROVE  TapeInv'
<1>1. /\ drive' = IF r.ok THEN r.drive ELSE AtRest(r.drive)
      /\ transfer' = IF r.ok THEN r.transfer ELSE NoTransfer
      /\ SameTape
    BY DEF Deliver
<1>2. drive' \in Drives
    BY <1>1, RestDrive DEF ReadResult
<1>3. CASE r.ok
  <2>1. /\ transfer' \in Transfers /\ transfer'.op = "read"
        /\ transfer'.chunk \in 1 .. transfer'.rest /\ transfer'.chunk <= BlockSize
      BY <1>1, <1>3 DEF ReadResult, Reads
  <2>2. WriteInv'
      BY <2>1 DEF WriteInv
  <2>. QED  BY <1>1, <1>2, <2>1, <2>2, SameTapeKeeps
<1>4. CASE ~r.ok
    BY <1>1, <1>2, <1>4, NoTransferType, IdleKeeps
<1>. QED  BY <1>3, <1>4

\* The drive d at the beginning of a transfer
Loaded(d, fixed, bytes, n) ==
    [[d EXCEPT !.fixed = fixed, !.bytes = bytes] EXCEPT !.remaining = n, !.initial = TRUE]

LoadedToWrite(d, fixed, bytes, n, record) ==
    [[d EXCEPT !.fixed = fixed, !.bytes = bytes] EXCEPT !.remaining = n, !.initial = TRUE, !.record = record]

LEMMA LoadedDrive ==
    ASSUME NEW d \in Drives, NEW fixed \in BOOLEAN, NEW bytes \in Nat, NEW n \in Int
    PROVE  Loaded(d, fixed, bytes, n) \in Drives
BY DEF Loaded, Drives

LEMMA LoadedToWriteDrive ==
    ASSUME NEW d \in Drives, NEW fixed \in BOOLEAN, NEW bytes \in Nat, NEW n \in Int, NEW record \in Nat
    PROVE  /\ LoadedToWrite(d, fixed, bytes, n, record) \in Drives
           /\ LoadedToWrite(d, fixed, bytes, n, record).fixed = fixed
           /\ LoadedToWrite(d, fixed, bytes, n, record).bytes = bytes
           /\ LoadedToWrite(d, fixed, bytes, n, record).remaining = n
           /\ LoadedToWrite(d, fixed, bytes, n, record).record = record
           /\ LoadedToWrite(d, fixed, bytes, n, record).initial
BY DEF LoadedToWrite, Drives

LEMMA ResetDrive ==
    ASSUME NEW d \in Drives
    PROVE  Reset(d) \in Drives /\ Reset(d).position = 0 /\ Reset(d).location = 0
<1>1. PICK p \in Int : p = 0
    OBVIOUS
<1>2. Reset(d) = [d EXCEPT !.position = p, !.location = p]
    BY <1>1 DEF Reset
<1>. QED  BY <1>1, <1>2 DEF Drives

\* The number of bytes that are requested
Requested(fixed, n) == IF fixed THEN n * BlockSize ELSE n

LEMMA RequestedType ==
    ASSUME NEW fixed \in BOOLEAN, NEW n \in Nat
    PROVE  Requested(fixed, n) \in Nat /\ Requested(fixed, n) \in Int
           /\ (fixed => Requested(fixed, n) \in Multiples)
<1>1. n * BlockSize \in Nat /\ n * BlockSize \in Multiples
    BY Sizes DEF Multiples
<1>. QED  BY <1>1 DEF Requested

LEMMA ReadKeeps ==
    ASSUME TapeInv, NEW explicit, NEW identifier \in Nat, NEW fixed \in BOOLEAN, NEW sili \in BOOLEAN,
           NEW n \in Nat, Read(explicit, identifier, fixed, sili, n)
    PROVE  TapeInv'
<1>1. PICK l : l = Located(explicit, identifier)
    OBVIOUS
<1>2. PICK bytes : bytes = Requested(fixed, n)
    OBVIOUS
<1>3. l.drive \in Drives
    BY <1>1, LocatedDrive DEF TapeInv
<1>4. bytes \in Nat /\ bytes \in Int
    BY <1>2, RequestedType
<1>5. PICK d : d = [l.drive EXCEPT !.fixed = fixed, !.bytes = bytes]
    OBVIOUS
<1>6. PICK e : e = Loaded(l.drive, fixed, bytes, bytes)
    OBVIOUS
<1>7. e \in Drives
    BY <1>3, <1>4, <1>6, LoadedDrive
<1>8. /\ Idle
      /\ IF ~l.ok THEN LocateFails(l)
         ELSE IF bytes = 0 THEN drive' = l.drive /\ transfer' = transfer /\ SameTape
         ELSE Deliver(ReadData(e, Transfer("read", bytes, sili)), Lost(explicit, d))
    BY <1>1, <1>2, <1>5, <1>6 DEF Read, Requested, Loaded, Ready
<1>9. CASE ~l.ok
    BY <1>3, <1>8, <1>9, LocateFailsKeeps
<1>10. CASE l.ok /\ bytes = 0
  <2>1. transfer' \in Transfers /\ transfer'.op = "none"
      BY <1>8, <1>10 DEF TapeInv, TypesInv, Idle
  <2>. QED  BY <1>3, <1>8, <1>10, <2>1, IdleKeeps
<1>11. CASE l.ok /\ bytes # 0
  <2>1. PICK t : t = Transfer("read", bytes, sili)
      OBVIOUS
  <2>2. Reads(t)
    <3>1. "read" \in {"read", "write"}
        OBVIOUS
    <3>. QED  BY <1>4, <1>11, <2>1, <3>1, TransferType DEF Reads
  <2>3. ReadResult(ReadData(e, t))
      BY <1>7, <2>2, ReadDataType DEF TapeInv, TypesInv
  <2>4. Deliver(ReadData(e, t), Lost(explicit, d))
      BY <1>8, <1>11, <2>1
  <2>. QED  BY <2>3, <2>4, DeliverKeeps
<1>. QED  BY <1>9, <1>10, <1>11

LEMMA ReadNextKeeps ==
    ASSUME TapeInv, ReadNext
    PROVE  TapeInv'
<1>1. /\ transfer \in Transfers /\ transfer.op = "read" /\ drive \in Drives /\ FileOK(file, size)
      /\ transfer.chunk \in 1 .. transfer.rest /\ transfer.chunk <= BlockSize
    BY DEF ReadNext, TapeInv, TypesInv
<1>2. PICK a : a = Advanced(transfer)
    OBVIOUS
<1>3. a = Continued(transfer, transfer.sent) /\ a.rest = transfer.rest - transfer.chunk
    BY <1>1, <1>2 DEF Advanced, Continued, Transfers
<1>4. CASE a.rest = 0
  <2>1. transfer' = NoTransfer /\ drive' = AtRest(drive) /\ SameTape
      BY <1>2, <1>4 DEF ReadNext
  <2>. QED  BY <1>1, <2>1, NoTransferType, RestDrive, IdleKeeps
<1>5. CASE a.rest # 0
  <2>1. transfer.sent \in Seq(Nat) /\ transfer.rest # transfer.chunk
      BY <1>1, <1>3, <1>5 DEF Transfers
  <2>2. Reads(a)
      BY <1>1, <1>3, <2>1, Transferred DEF Reads
  <2>3. ReadResult(ReadData(drive, a))
      BY <1>1, <2>2, ReadDataType
  <2>4. Deliver(ReadData(drive, a), lost)
      BY <1>2, <1>5 DEF ReadNext
  <2>. QED  BY <2>3, <2>4, DeliverKeeps
<1>. QED  BY <1>4, <1>5

LEMMA WriteKeeps ==
    ASSUME TapeInv, NEW explicit, NEW identifier \in Nat, NEW fixed \in BOOLEAN,
           NEW n \in Nat, Write(explicit, identifier, fixed, n)
    PROVE  TapeInv'
<1>1. PICK l : l = Located(explicit, identifier)
    OBVIOUS
<1>2. PICK bytes : bytes = Requested(fixed, n)
    OBVIOUS
<1>3. l.drive \in Drives
    BY <1>1, LocatedDrive DEF TapeInv
<1>4. bytes \in Nat /\ bytes \in Int /\ (fixed => bytes \in Multiples)
    BY <1>2, RequestedType
<1>5. PICK record : record = IF fixed THEN BlockSize ELSE bytes
    OBVIOUS
<1>6. record \in Nat
    BY <1>4, <1>5, Sizes
<1>7. PICK e : e = LoadedToWrite(l.drive, fixed, bytes, bytes, record)
    OBVIOUS
<1>8. /\ e \in Drives /\ e.fixed = fixed /\ e.bytes = bytes /\ e.remaining = bytes /\ e.record = record
      /\ e.initial
    BY <1>3, <1>4, <1>6, <1>7, LoadedToWriteDrive
<1>9. PICK t : t = Transfer("write", bytes, FALSE)
    OBVIOUS
<1>10. /\ Idle
       /\ IF ~l.ok THEN LocateFails(l)
          ELSE /\ drive' = IF bytes = 0 THEN l.drive ELSE e
               /\ transfer' = IF bytes = 0 THEN NoTransfer ELSE t
               /\ SameTape
    BY <1>1, <1>2, <1>5, <1>7, <1>9 DEF Write, Requested, LoadedToWrite
<1>11. CASE ~l.ok
    BY <1>3, <1>10, <1>11, LocateFailsKeeps
<1>12. CASE l.ok /\ bytes = 0
    BY <1>3, <1>10, <1>12, NoTransferType, IdleKeeps
<1>13. CASE l.ok /\ bytes # 0
  <2>1. drive' = e /\ transfer' = t /\ SameTape
      BY <1>10, <1>13
  <2>2. /\ t \in Transfers /\ t.op = "write" /\ t.rest = bytes /\ t.chunk = Lesser(bytes, BlockSize)
        /\ t.chunk \in 1 .. t.rest /\ t.chunk <= BlockSize
    <3>1. "write" \in {"read", "write"} /\ FALSE \in BOOLEAN
        OBVIOUS
    <3>. QED  BY <1>4, <1>9, <1>13, <3>1, TransferType
  <2>3. fixed => t.chunk = BlockSize
    <3>1. fixed => bytes >= BlockSize
        BY <1>4, <1>13, MultiplesLess
    <3>2. BlockSize \in Int
        BY Sizes
    <3>. QED  BY <1>4, <2>2, <3>1, <3>2 DEF Lesser
  <2>4. bytes <= bytes
      BY <1>4
  <2>5. WriteInv'
      BY <1>4, <1>5, <1>8, <2>1, <2>2, <2>3, <2>4 DEF WriteInv
  <2>. QED  BY <1>8, <2>1, <2>2, <2>5, SameTapeKeeps
<1>. QED  BY <1>11, <1>12, <1>13

LEMMA AbortKeeps ==
    ASSUME TapeInv, Abort
    PROVE  TapeInv'
<1>1. transfer' = NoTransfer /\ drive' = AtRest(drive) /\ SameTape
    BY DEF Abort
<1>2. drive \in Drives
    BY DEF TapeInv, TypesInv
<1>. QED  BY <1>1, <1>2, NoTransferType, RestDrive, IdleKeeps

LEMMA PositioningKeeps ==
    ASSUME TapeInv
    PROVE  /\ \A type : \A n \in Int : Space(type, n) => TapeInv'
           /\ \A n \in Nat : Locate(n) => TapeInv'
           /\ Rewind => TapeInv'
<1>1. drive \in Drives /\ FileOK(file, size)
    BY DEF TapeInv, TypesInv
<1>2. ASSUME NEW type, NEW n \in Int, Space(type, n)
      PROVE  TapeInv'
  <2>1. PICK r : r = IF n < 0 THEN FindBackward(drive, type, -n) ELSE FindForward(drive, type, n, FALSE)
      OBVIOUS
  <2>2. FindBackward(drive, type, -n) \in Results
    <3>1. -n \in Int
        OBVIOUS
    <3>. QED  BY <1>1, <3>1, FindTypes
  <2>3. FindForward(drive, type, n, FALSE) \in Results
      BY <1>1, FindTypes
  <2>4. r \in Results
      BY <2>1, <2>2, <2>3
  <2>5. PICK d : d = IF type = "end-of-data" /\ r.what = "found" THEN Moved(drive, InFront(r)) ELSE Moved(drive, r)
      OBVIOUS
  <2>6. d \in Drives
      BY <1>1, <2>4, <2>5, MovedDrive, InFrontResult
  <2>7. transfer.op = "none" /\ drive' = d /\ transfer' = transfer /\ SameTape
      BY <1>2, <2>1, <2>5 DEF Space, InFront, Ready, Idle, Moving
  <2>. QED  BY <2>6, <2>7, IdleKeeps DEF TapeInv, TypesInv
<1>3. ASSUME NEW n \in Nat, Locate(n)
      PROVE  TapeInv'
  <2>1. PICK l : l = Located(TRUE, n)
      OBVIOUS
  <2>2. l.drive \in Drives
      BY <2>1, LocatedDrive DEF TapeInv
  <2>3. transfer.op = "none" /\ drive' = l.drive /\ transfer' = transfer /\ SameTape
      BY <1>3, <2>1 DEF Locate, Ready, Idle, Moving
  <2>. QED  BY <2>2, <2>3, IdleKeeps DEF TapeInv, TypesInv
<1>4. ASSUME Rewind
      PROVE  TapeInv'
  <2>1. Reset(drive) \in Drives
      BY <1>1, ResetDrive
  <2>2. transfer.op = "none" /\ drive' = Reset(drive) /\ transfer' = transfer /\ SameTape
      BY <1>4 DEF Rewind, Idle, Moving
  <2>. QED  BY <2>1, <2>2, IdleKeeps DEF TapeInv, TypesInv
<1>. QED  BY <1>2, <1>3, <1>4

LEMMA OpenKeeps ==
    ASSUME TapeInv, Open
    PROVE  TapeInv'
<1>1. /\ file' = file /\ size' = size /\ fileSize' = size /\ maxSize' = maxSize /\ tar' = tar
      /\ objects' = objects /\ torn' = torn /\ transfer' = transfer /\ drive' = Reset(drive)
      /\ transfer.op = "none"
    BY DEF Open, Idle
<1>2. drive \in Drives /\ size \in Nat
    BY Sizes DEF TapeInv, TypesInv, FileOK
<1>3. Reset(drive) \in Drives
    BY <1>2, ResetDrive
<1>4. size \in 0 .. size
    BY <1>2
<1>5. TypesInv'
    BY <1>1, <1>3, <1>4 DEF TapeInv, TypesInv, FileOK, SizeOK, Bytes
<1>6. ObjectsInv'
    BY <1>1 DEF TapeInv, ObjectsInv, Holds, HoldsObject
<1>7. WriteInv'
    BY <1>1 DEF WriteInv
<1>. QED  BY <1>5, <1>6, <1>7 DEF TapeInv
-----------------------------------------------------------------------------
(* Writing filemarks                                                       *)

SoundStates == {s \in States : Sound(s)}

\* One more filemark
NextMark(w) == IF w.ok THEN PutObject(w, 0) ELSE w

LEMMA NextMarkSound ==
    ASSUME Configured, ~tar, NEW w \in SoundStates
    PROVE  NextMark(w) \in SoundStates
<1>1. Sound(w) /\ 0 \in Nat
    BY DEF SoundStates
<1>2. PICK p : p = w.drive.position
    OBVIOUS
<1>3. PICK v : v = PutObject(w, 0)
    OBVIOUS
<1>4. Sound(v)
    BY <1>1, <1>2, <1>3, PutObjectEffect
<1>. QED  BY <1>1, <1>3, <1>4 DEF NextMark, SoundStates, Sound

\* The states after 0 to n filemarks
Marking(f, s, n) ==
    /\ f \in [0 .. n -> SoundStates] /\ f[0] = s
    /\ \A i \in 1 .. n : f[i] = NextMark(f[i - 1])

LEMMA PutFilemarksSays ==
    ASSUME Configured, ~tar, NEW s, Sound(s), NEW n \in Nat
    PROVE  \E f : Marking(f, s, n) /\ PutFilemarks(s, n) = f[n]
<1>. DEFINE D == 0 .. n
            Body(h) == [i \in D |-> IF i = 0 THEN s ELSE IF h[i - 1].ok THEN PutObject(h[i - 1], 0) ELSE h[i - 1]]
            put == CHOOSE h : h = Body(h)
            m == [i \in D |-> i]
            next == [i \in D \ {0} |-> i - 1]
            v == [i \in D |-> s]
            g == [i \in D \ {0} |-> [w \in SoundStates |-> NextMark(w)]]
<1>1. PutFilemarks(s, n) = put[n]
    BY DEF PutFilemarks
<1>2. \A i \in D \ {0} : i - 1 \in D /\ i \in Int
    OBVIOUS
<1>3. Descends(D, n, m, {0}, next)
    BY <1>2 DEF Descends
<1>4. s \in SoundStates
    BY DEF SoundStates, Sound
<1>5. v \in [D -> SoundStates]
    BY <1>4
<1>6. \A w \in SoundStates : NextMark(w) \in SoundStates
    BY NextMarkSound
<1>7. [w \in SoundStates |-> NextMark(w)] \in [SoundStates -> SoundStates]
    BY <1>6
<1>8. g \in [D \ {0} -> [SoundStates -> SoundStates]]
    BY <1>7
<1>9. \A i \in D \ {0} : next[i] = i - 1
    OBVIOUS
<1>10. \A i \in D \ {0} : \A w \in SoundStates : g[i][w] = NextMark(w)
    OBVIOUS
<1>11. \A i \in D : v[i] = s
    OBVIOUS
<1>12. \A h : \A i \in D : Body(h)[i] = IF i = 0 THEN s ELSE NextMark(h[i - 1])
    BY DEF NextMark
<1>13. \A h : Body(h) = [i \in D |-> Body(h)[i]]
    OBVIOUS
<1>. HIDE DEF m, next, v, g, D
<1>14. PICK f \in [D -> SoundStates] : Recursive(f, D, {0}, next, v, g)
    BY <1>3, <1>5, <1>8, WalkRecursion
<1>. HIDE DEF Body
<1>15. f = Body(f)
  <2>1. ASSUME NEW i \in D
        PROVE  f[i] = Body(f)[i]
    <3>1. CASE i = 0
      <4>1. f[i] = v[i]
          BY <3>1, <1>14 DEF Recursive
      <4>. QED  BY <3>1, <4>1, <1>11, <1>12
    <3>2. CASE i # 0
      <4>1. i - 1 \in D /\ next[i] = i - 1 /\ f[i - 1] \in SoundStates
          BY <3>2, <1>2, <1>9, <1>14
      <4>2. f[i] = g[i][f[next[i]]]
          BY <3>2, <1>14 DEF Recursive
      <4>. QED  BY <3>2, <4>1, <4>2, <1>10, <1>12
    <3>. QED  BY <3>1, <3>2
  <2>2. f = [i \in D |-> f[i]]
      BY <1>14
  <2>. QED  BY <2>1, <2>2, <1>13
<1>16. put = Body(put)
    BY <1>15
<1>. HIDE DEF put
<1>17. \A i \in D : put[i] = Body(put)[i] /\ Body(put)[i] = IF i = 0 THEN s ELSE NextMark(put[i - 1])
    BY <1>12, <1>16
<1>18. put \in [D -> SoundStates]
  <2>. DEFINE S == {i \in D : put[i] \in SoundStates}
  <2>1. 0 \in D /\ 0 \in S
      BY <1>4, <1>17 DEF D
  <2>2. ASSUME NEW i \in 0 .. n - 1, i \in S
        PROVE  i + 1 \in S
    <3>1. i + 1 \in D /\ i + 1 # 0 /\ (i + 1) - 1 = i
        BY DEF D
    <3>2. put[i + 1] = NextMark(put[i])
        BY <3>1, <1>17
    <3>. QED  BY <2>2, <3>1, <3>2, <1>6
  <2>. HIDE DEF S
  <2>3. \A i \in 0 .. n : i \in S
      BY <2>1, <2>2, Induction
  <2>4. \A i \in D : put[i] \in SoundStates
      BY <2>3 DEF S, D
  <2>5. put = [i \in D |-> put[i]]
      BY <1>13, <1>16, <1>17
  <2>. QED  BY <2>4, <2>5
<1>19. 0 \in D /\ \A i \in 1 .. n : i \in D /\ i # 0
    BY DEF D
<1>20. Marking(put, s, n)
    BY <1>17, <1>18, <1>19 DEF Marking, D
<1>. QED  BY <1>1, <1>20

\* Where the filemark k behind p is
MarkAt(p, k) == p + 2 * k

\* From s to w, j filemarks have been written at p.
Marks(s, w, p, j) ==
    /\ Sound(w) /\ Extends(s, w, p) /\ w.drive = Placed(s.drive, MarkAt(p, j))
    /\ j = 0 => w.file = s.file /\ w.size = s.size
    /\ j > 0 => /\ p >= 0
                /\ w.ok /\ MarkAt(p, j) + 2 <= fileSize => Word(w.file, w.size, MarkAt(p, j)) = EndOfData
    /\ \A k \in 0 .. j - 1 : Word(w.file, w.size, MarkAt(p, k)) = MetaData(Good, 0)

LEMMA MoreMarks ==
    ASSUME Configured, ~tar, NEW s, Sound(s), NEW p, p = s.drive.position, NEW j \in Nat,
           NEW v, Marks(s, v, p, j)
    PROVE  Marks(s, NextMark(v), p, j) \/ Marks(s, NextMark(v), p, j + 1)
<1>1. CASE ~v.ok
  <2>1. NextMark(v) = v
      BY <1>1 DEF NextMark
  <2>. QED  BY <2>1
<1>2. CASE v.ok
  <2>1. PICK w : w = PutObject(v, 0)
      OBVIOUS
  <2>2. NextMark(v) = w
      BY <1>2, <2>1 DEF NextMark
  <2>3. Sound(v) /\ Extends(s, v, p) /\ v.drive = Placed(s.drive, MarkAt(p, j)) /\ s.drive \in Drives
      BY DEF Marks, Sound, States
  <2>4. p \in Int /\ MarkAt(p, j) \in Int /\ MarkAt(p, j + 1) = MarkAt(p, j) + 2 /\ MarkAt(p, j) >= p
    <3>1. p \in Int
        BY <2>3 DEF Drives
    <3>. QED  BY <3>1 DEF MarkAt
  <2>5. PICK q : q = MarkAt(p, j)
      OBVIOUS
  <2>6. q = v.drive.position
      BY <2>3, <2>4, <2>5, PlacedDrive
  <2>7. 0 \in Nat
      OBVIOUS
  <2>8. /\ Sound(w) /\ Extends(v, w, q)
        /\ (w.drive = v.drive /\ ~w.ok /\ w.file = v.file /\ w.size = v.size) \/ Marked(v, w, q, 0)
        /\ w.ok => /\ v.ok /\ Marked(v, w, q, 0)
                   /\ q + 4 <= fileSize => Word(w.file, w.size, q + 2) = EndOfData
      BY <2>1, <2>3, <2>6, <2>7, PutObjectEffect
  <2>9. p <= q /\ q \in Int
      BY <2>4, <2>5
  <2>10. Extends(s, w, p)
      BY <2>3, <2>4, <2>8, <2>9, ExtendsOn
  <2>11. CASE w.drive = v.drive /\ ~w.ok /\ w.file = v.file /\ w.size = v.size
    <3>1. Marks(s, w, p, j)
        BY <2>8, <2>10, <2>11 DEF Marks
    <3>. QED  BY <2>2, <3>1
  <2>12. CASE Marked(v, w, q, 0)
    <3>1. /\ q >= 0 /\ q + 2 <= w.size /\ w.drive = Placed(v.drive, q + 2)
          /\ Word(w.file, w.size, q) = MetaData(Good, 0)
        BY <2>12 DEF Marked
    <3>2. w.drive = Placed(s.drive, MarkAt(p, j + 1))
      <4>1. MarkAt(p, j + 1) = q + 2 /\ q + 2 \in Int
          BY <2>4, <2>5
      <4>. QED  BY <2>3, <2>4, <3>1, <4>1, PlacedDrive
    <3>3. p >= 0
      <4>1. CASE j = 0
        <5>1. q = p
            BY <4>1, <2>4, <2>5 DEF MarkAt
        <5>. QED  BY <5>1, <3>1
      <4>2. CASE j # 0
        <5>1. j > 0
            BY <4>2
        <5>. QED  BY <5>1 DEF Marks
      <4>. QED  BY <4>1, <4>2
    <3>4. ASSUME NEW k \in 0 .. (j + 1) - 1
          PROVE  Word(w.file, w.size, MarkAt(p, k)) = MetaData(Good, 0)
      <4>1. k \in Int /\ (k = j \/ k \in 0 .. j - 1)
          OBVIOUS
      <4>2. CASE k = j
          BY <4>2, <2>5, <3>1
      <4>3. CASE k \in 0 .. j - 1
        <5>1. PICK a : a = MarkAt(p, k)
            OBVIOUS
        <5>2. a \in Int /\ a >= 0 /\ a + 2 <= q
            BY <4>3, <2>4, <2>5, <3>3, <5>1 DEF MarkAt
        <5>3. Word(v.file, v.size, a) = MetaData(Good, 0)
            BY <4>3, <5>1 DEF Marks
        <5>4. a + 2 <= v.size
            BY <5>3, WordInFile
        <5>5. Word(w.file, w.size, a) = Word(v.file, v.size, a)
            BY <2>3, <2>8, <2>9, <5>2, <5>4, WordStays
        <5>. QED  BY <5>1, <5>3, <5>5
      <4>. QED  BY <4>1, <4>2, <4>3
    <3>5. ASSUME w.ok, MarkAt(p, j + 1) + 2 <= fileSize
          PROVE  Word(w.file, w.size, MarkAt(p, j + 1)) = EndOfData
      <4>1. MarkAt(p, j + 1) = q + 2 /\ (q + 2) + 2 = q + 4
          BY <2>4, <2>5
      <4>2. q + 4 <= fileSize
          BY <3>5, <4>1
      <4>. QED  BY <2>8, <3>5, <4>1, <4>2
    <3>6. j + 1 # 0
        OBVIOUS
    <3>7. Marks(s, w, p, j + 1)
        BY <2>8, <2>10, <3>2, <3>3, <3>4, <3>5, <3>6 DEF Marks
    <3>. QED  BY <2>2, <3>7
  <2>. QED  BY <2>8, <2>11, <2>12
<1>. QED  BY <1>1, <1>2

\* What WRITE FILEMARKS does to the file
LEMMA PutFilemarksEffect ==
    ASSUME Configured, ~tar, NEW s, Sound(s), NEW p, p = s.drive.position, NEW n \in Nat,
           NEW r, r = PutFilemarks(s, n)
    PROVE  \E j \in Nat : Marks(s, r, p, j)
<1>1. PICK f : Marking(f, s, n) /\ PutFilemarks(s, n) = f[n]
    BY PutFilemarksSays
<1>. DEFINE S == {i \in 0 .. n : \E j \in Nat : Marks(s, f[i], p, j)}
<1>2. 0 \in S
  <2>1. s.drive \in Drives /\ p \in Int
      BY DEF Sound, States, Drives
  <2>2. MarkAt(p, 0) = p
      BY <2>1 DEF MarkAt
  <2>3. s.drive = Placed(s.drive, MarkAt(p, 0))
      BY <2>1, <2>2, PlacedDrive
  <2>4. Extends(s, s, p)
      BY ExtendsSelf
  <2>5. Marks(s, s, p, 0)
      BY <2>3, <2>4 DEF Marks
  <2>6. f[0] = s /\ 0 \in 0 .. n /\ 0 \in Nat
      BY <1>1 DEF Marking
  <2>. QED  BY <2>5, <2>6
<1>3. ASSUME NEW i \in 0 .. n - 1, i \in S
      PROVE  i + 1 \in S
  <2>1. i + 1 \in 1 .. n /\ (i + 1) - 1 = i /\ i + 1 \in 0 .. n
      OBVIOUS
  <2>2. f[i + 1] = NextMark(f[i])
      BY <1>1, <2>1 DEF Marking
  <2>3. PICK j \in Nat : Marks(s, f[i], p, j)
      BY <1>3
  <2>4. Marks(s, f[i + 1], p, j) \/ Marks(s, f[i + 1], p, j + 1)
      BY <2>2, <2>3, MoreMarks
  <2>5. j + 1 \in Nat
      OBVIOUS
  <2>. QED  BY <2>1, <2>4, <2>5
<1>. HIDE DEF S
<1>4. n \in S
  <2>1. \A i \in 0 .. n : i \in S
      BY <1>2, <1>3, Induction
  <2>. QED  BY <2>1
<1>. QED  BY <1>1, <1>4 DEF S
\* The objects q and j filemarks
Blank(j) == Repeat(j, <<>>)
WithMarks(q, j) == q \o Blank(j)

LEMMA WithMarksObjects ==
    ASSUME NEW q \in Objects, NEW j \in Nat, NEW o, o = WithMarks(q, j)
    PROVE  /\ o \in Objects /\ Len(o) = Len(q) + j /\ IsPart(q, o, Len(q))
           /\ \A k \in Len(q) + 1 .. Len(o) : o[k] = <<>>
           /\ \A i \in 0 .. j : Offset(o)[Len(q) + i] = MarkAt(End(q), i)
<1>. DEFINE b == Blank(j)
<1>1. Len(q) \in Nat /\ <<>> \in Seq(Nat)
    BY DEF Objects
<1>2. b \in Objects /\ Len(b) = j /\ \A i \in 1 .. j : b[i] = <<>>
    BY <1>1 DEF Blank, Repeat, Objects
<1>. HIDE DEF b
<1>3. o = q \o b
    BY DEF WithMarks, b
<1>4. /\ o \in Objects /\ Len(o) = Len(q) + j
      /\ \A k \in 1 .. Len(q) : q[k] = o[k]
      /\ \A k \in Len(q) + 1 .. Len(o) : o[k] = b[k - Len(q)]
  <2>1. /\ q \o b \in Objects /\ Len(q \o b) = Len(q) + Len(b)
        /\ \A i \in 1 .. Len(q) + Len(b) : (q \o b)[i] = IF i <= Len(q) THEN q[i] ELSE b[i - Len(q)]
      BY <1>2, ConcatProperties DEF Objects
  <2>2. \A k \in 1 .. Len(q) : k \in 1 .. Len(q) + Len(b) /\ k <= Len(q)
      BY <1>1, <1>2
  <2>3. \A k \in Len(q) + 1 .. Len(q) + Len(b) : k \in 1 .. Len(q) + Len(b) /\ ~(k <= Len(q))
      BY <1>1, <1>2
  <2>. QED  BY <1>2, <1>3, <2>1, <2>2, <2>3
<1>5. \A k \in Len(q) + 1 .. Len(o) : o[k] = <<>>
  <2>1. \A k \in Len(q) + 1 .. Len(o) : k - Len(q) \in 1 .. j
      BY <1>1, <1>4
  <2>. QED  BY <2>1, <1>2, <1>4
<1>6. IsPart(q, o, Len(q))
    BY <1>1, <1>4 DEF IsPart
<1>. HIDE DEF b
<1>. DEFINE S == {i \in 0 .. j : Offset(o)[Len(q) + i] = MarkAt(End(q), i)}
<1>7. End(q) \in Int
    BY Ends DEF EvenNumbers
<1>8. 0 \in S
  <2>1. Len(q) \in 0 .. Len(q) /\ Len(q) <= Len(o) /\ Len(q) + 0 = Len(q)
      BY <1>1, <1>4
  <2>2. Offset(q)[Len(q)] = Offset(o)[Len(q)]
      BY <2>1, <1>4, OffsetsOfPart
  <2>3. MarkAt(End(q), 0) = End(q)
      BY <1>7 DEF MarkAt
  <2>4. Offset(o)[Len(q) + 0] = MarkAt(End(q), 0)
      BY <2>1, <2>2, <2>3 DEF End
  <2>. QED  BY <2>4
<1>9. ASSUME NEW i \in 0 .. j - 1, i \in S
      PROVE  i + 1 \in S
  <2>1. PICK k : k = Len(q) + (i + 1)
      OBVIOUS
  <2>2. k \in 1 .. Len(o) /\ k - 1 = Len(q) + i /\ k \in Len(q) + 1 .. Len(o) /\ i + 1 \in 0 .. j
      BY <2>1, <1>1, <1>4
  <2>3. Offset(o)[k] = Offset(o)[k - 1] + Width(o[k])
      BY <2>2, <1>4, Offsets
  <2>4. Width(o[k]) = 2
      BY <2>2, <1>1, <1>5, Widths
  <2>5. Offset(o)[k - 1] = MarkAt(End(q), i)
      BY <2>2, <1>9
  <2>6. Offset(o)[k] = MarkAt(End(q), i + 1)
      BY <2>3, <2>4, <2>5, <1>7 DEF MarkAt
  <2>. QED  BY <2>1, <2>2, <2>6
<1>. HIDE DEF S
<1>10. \A i \in 0 .. j : i \in S
    BY <1>8, <1>9, Induction
<1>. QED  BY <1>4, <1>5, <1>6, <1>10 DEF S

\* The next state after WRITE FILEMARKS with the drive d at p
FilemarksWritten(d, n, r, p, written) ==
    /\ p = d.position /\ r = PutFilemarks(State(d), n)
    /\ written = (r.drive.position - p) \div 2
    /\ drive' = r.drive /\ file' = r.file /\ size' = r.size
    /\ objects' = IF written = 0 THEN objects
                  ELSE IF End(Kept(p)) = p THEN WithMarks(Kept(p), written) ELSE Kept(p)
    /\ torn' = IF written = 0 THEN torn ELSE ~(Ended(r) /\ End(Kept(p)) = p)
    /\ UNCHANGED <<transfer, fileSize, maxSize, tar>>

LEMMA WriteFilemarksSays ==
    ASSUME TapeInv, NEW identifier \in Nat, NEW n \in Nat, WriteFilemarks(identifier, n)
    PROVE  /\ Idle /\ ~tar
           /\ TapeInv' \/ \E d \in Drives : \E r, p, written : FilemarksWritten(d, n, r, p, written)
<1>1. PICK explicit : explicit = (identifier > 0)
    OBVIOUS
<1>2. PICK l : l = Located(explicit, identifier)
    OBVIOUS
<1>3. PICK p : p = l.drive.position
    OBVIOUS
<1>4. PICK r : r = PutFilemarks(State(l.drive), n)
    OBVIOUS
<1>5. PICK written : written = (r.drive.position - p) \div 2
    OBVIOUS
<1>6. l.drive \in Drives
    BY <1>2, LocatedDrive DEF TapeInv
<1>7. l = Located(identifier > 0, identifier)
    BY <1>1, <1>2
<1>8. Idle /\ ~tar
    BY DEF WriteFilemarks, Ready
<1>9. CASE ~l.ok
  <2>1. LocateFails(l)
      BY <1>7, <1>9 DEF WriteFilemarks
  <2>. QED  BY <2>1, <1>6, <1>8, LocateFailsKeeps
<1>10. CASE l.ok
  <2>1. /\ drive' = r.drive /\ file' = r.file /\ size' = r.size
        /\ objects' = IF written = 0 THEN objects
                      ELSE Kept(p) \o IF End(Kept(p)) = p THEN Repeat(written, <<>>) ELSE <<>>
        /\ torn' = IF written = 0 THEN torn ELSE ~(Ended(r) /\ End(Kept(p)) = p)
        /\ UNCHANGED <<transfer, fileSize, maxSize, tar>>
      BY <1>3, <1>4, <1>5, <1>7, <1>10 DEF WriteFilemarks, META_DATA_SIZE
  <2>2. p \in Int
      BY <1>3, <1>6 DEF Drives
  <2>3. Kept(p) \in Objects
      BY <2>2, KeptObjects DEF IsPart, TapeInv, ObjectsInv
  <2>4. Kept(p) \o <<>> = Kept(p)
      BY <2>3 DEF Objects
  <2>5. objects' = IF written = 0 THEN objects
                   ELSE IF End(Kept(p)) = p THEN WithMarks(Kept(p), written) ELSE Kept(p)
      BY <2>1, <2>4 DEF WithMarks, Blank
  <2>6. FilemarksWritten(l.drive, n, r, p, written)
      BY <1>3, <1>4, <1>5, <2>1, <2>5 DEF FilemarksWritten
  <2>. QED  BY <1>6, <1>8, <2>6
<1>. QED  BY <1>9, <1>10

LEMMA WriteFilemarksKeeps ==
    ASSUME TapeInv, NEW identifier \in Nat, NEW n \in Nat, WriteFilemarks(identifier, n)
    PROVE  TapeInv'
<1>. SUFFICES ASSUME ~TapeInv'
              PROVE  FALSE
    OBVIOUS
<1>14. PICK d \in Drives : \E r, p, written : FilemarksWritten(d, n, r, p, written)
    BY WriteFilemarksSays
<1>15. PICK r, p, written : FilemarksWritten(d, n, r, p, written)
    BY <1>14
<1>1. /\ p = d.position /\ r = PutFilemarks(State(d), n)
      /\ written = (r.drive.position - p) \div 2
      /\ drive' = r.drive /\ file' = r.file /\ size' = r.size
      /\ objects' = IF written = 0 THEN objects
                    ELSE IF End(Kept(p)) = p THEN WithMarks(Kept(p), written) ELSE Kept(p)
      /\ torn' = IF written = 0 THEN torn ELSE ~(Ended(r) /\ End(Kept(p)) = p)
      /\ transfer' = transfer /\ fileSize' = fileSize /\ maxSize' = maxSize /\ tar' = tar
    BY <1>15 DEF FilemarksWritten
<1>2. transfer.op = "none" /\ ~tar
    BY WriteFilemarksSays DEF Idle
<1>3. /\ Configured /\ FileOK(file, size) /\ objects \in Objects /\ Holds(file, size, objects)
      /\ transfer \in Transfers /\ p \in Int
      /\ fileSize \in 0 .. size /\ maxSize \in 0 .. Capacity /\ size \in Nat
    BY <1>1, InvConfigured, Sizes DEF TapeInv, TypesInv, ObjectsInv, Drives, FileOK
<1>4. PICK s : s = State(d)
    OBVIOUS
<1>5. Sound(s) /\ s.drive = d /\ s.file = file /\ s.size = size
    BY <1>3, <1>4, StateSound
<1>6. p = s.drive.position /\ r = PutFilemarks(s, n)
    BY <1>1, <1>4, <1>5
<1>7. PICK j \in Nat : Marks(s, r, p, j)
    BY <1>2, <1>3, <1>5, <1>6, PutFilemarksEffect
<1>8. /\ Sound(r) /\ Extends(s, r, p) /\ r.drive \in Drives /\ r.drive.position = p + 2 * j
      /\ r.size \in 0 .. Capacity /\ size <= r.size /\ FileOK(r.file, r.size)
  <2>1. Sound(r) /\ Extends(s, r, p) /\ r.drive = Placed(d, MarkAt(p, j))
      BY <1>5, <1>7 DEF Marks
  <2>2. MarkAt(p, j) \in Int
      BY <1>3 DEF MarkAt
  <2>3. r.drive.position = MarkAt(p, j)
      BY <2>1, <2>2, PlacedDrive
  <2>. QED  BY <1>5, <2>1, <2>3 DEF MarkAt, Sound, States, FileOK, Extends
<1>9. written = j
  <2>1. (r.drive.position - p) = 2 * j
      BY <1>3, <1>8
  <2>2. (2 * j) \div 2 = j
      OBVIOUS
  <2>. QED  BY <1>1, <2>1, <2>2
<1>10. TypesInv'
  <2>1. FileOK(file, size)'
      BY <1>1, <1>8 DEF FileOK, SizeOK, Bytes
  <2>2. fileSize' \in 0 .. size' /\ maxSize' \in 0 .. Capacity /\ tar' \in BOOLEAN
    <3>1. fileSize \in 0 .. r.size
        BY <1>3, <1>8, Sizes
    <3>2. tar \in BOOLEAN
        BY DEF TapeInv, TypesInv
    <3>. QED  BY <1>1, <1>3, <3>1, <3>2
  <2>. QED  BY <1>1, <1>2, <1>3, <1>8, <2>1, <2>2 DEF TypesInv
<1>11. WriteInv'
    BY <1>1, <1>2 DEF WriteInv
<1>12. CASE j = 0
  <2>1. file' = file /\ size' = size /\ objects' = objects /\ torn' = torn /\ tar' = tar
      BY <1>1, <1>5, <1>7, <1>9, <1>12 DEF Marks
  <2>2. ObjectsInv'
      BY <2>1 DEF TapeInv, ObjectsInv, Holds, HoldsObject
  <2>. QED  BY <1>10, <1>11, <2>2 DEF TapeInv
<1>13. CASE j # 0
  <2>1. PICK q : q = Kept(p)
      OBVIOUS
  <2>2. PICK c \in 0 .. Len(objects) :
            IsPart(q, objects, c) /\ \A k \in 1 .. Len(objects) : Offset(objects)[k] <= p <=> k <= c
      BY <1>3, <2>1, KeptObjects
  <2>3. \A k \in 1 .. c : Offset(objects)[k] <= p
    <3>1. \A k \in 1 .. c : k \in 1 .. Len(objects) /\ k <= c
        BY <1>3 DEF Objects
    <3>. QED  BY <2>2, <3>1
  <2>4. q \in Objects
      BY <2>2 DEF IsPart
  <2>5. Holds(r.file, r.size, q)
      BY <1>3, <1>5, <1>8, <2>2, <2>3, PartStays
  <2>6. /\ objects' = IF End(q) = p THEN WithMarks(q, j) ELSE q
        /\ torn' = ~(Ended(r) /\ End(q) = p)
      BY <1>1, <1>9, <1>13, <2>1
  <2>7. CASE End(q) # p
    <3>1. objects' = q /\ torn'
        BY <2>6, <2>7
    <3>2. Holds(file, size, objects)'
        BY <1>1, <2>5, <3>1 DEF Holds, HoldsObject
    <3>3. ObjectsInv'
        BY <1>1, <1>2, <2>4, <3>1, <3>2 DEF ObjectsInv
    <3>. QED  BY <1>10, <1>11, <3>3 DEF TapeInv
  <2>8. CASE End(q) = p
    <3>1. PICK o : o = WithMarks(q, j)
        OBVIOUS
    <3>2. /\ o \in Objects /\ Len(o) = Len(q) + j /\ IsPart(q, o, Len(q))
          /\ \A k \in Len(q) + 1 .. Len(o) : o[k] = <<>>
          /\ \A i \in 0 .. j : Offset(o)[Len(q) + i] = MarkAt(End(q), i)
        BY <2>4, <3>1, WithMarksObjects
    <3>3. ASSUME NEW k \in Len(q) + 1 .. Len(o)
          PROVE  HoldsObject(r.file, r.size, Offset(o)[k - 1], o[k])
      <4>1. PICK i : i = k - 1 - Len(q)
          OBVIOUS
      <4>2. i \in 0 .. j - 1 /\ k - 1 = Len(q) + i /\ i \in 0 .. j
        <5>1. PICK l : l = Len(q)
            OBVIOUS
        <5>2. l \in Nat /\ Len(o) = l + j
            BY <2>4, <3>2, <5>1 DEF Objects
        <5>3. k \in Int /\ k >= l + 1 /\ k <= l + j /\ i = k - 1 - l
            BY <4>1, <5>1, <5>2
        <5>4. i \in 0 .. j - 1 /\ k - 1 = l + i /\ i \in 0 .. j
            BY <5>2, <5>3
        <5>. QED  BY <5>1, <5>4
      <4>3. Offset(o)[k - 1] = MarkAt(p, i)
          BY <2>8, <3>2, <4>2
      <4>4. Word(r.file, r.size, MarkAt(p, i)) = MetaData(Good, 0)
          BY <1>7, <4>2 DEF Marks
      <4>5. o[k] = <<>> /\ Len(<<>>) = 0
          BY <3>2
      <4>. QED  BY <4>3, <4>4, <4>5 DEF HoldsObject
    <3>4. Holds(r.file, r.size, o)
        BY <2>5, <3>2, <3>3, HoldsMore
    <3>5. objects' = o /\ torn' = ~Ended(r)
        BY <2>6, <2>8, <3>1
    <3>6. Holds(file, size, objects)'
        BY <1>1, <3>4, <3>5 DEF Holds, HoldsObject
    <3>7. ASSUME ~torn'
          PROVE  Word(r.file, r.size, End(o)) = EndOfData \/ End(o) + 2 > r.size
      <4>1. End(o) = MarkAt(p, j)
        <5>1. j \in 0 .. j
            OBVIOUS
        <5>. QED  BY <5>1, <2>8, <3>2 DEF End
      <4>2. MarkAt(p, j) = r.drive.position /\ MarkAt(p, j) \in Int /\ r.drive.position \in Int
          BY <1>3, <1>8 DEF MarkAt
      <4>3. Ended(r)
          BY <3>5, <3>7
      <4>4. r.ok /\ (fileSize >= r.drive.position + 2 \/ r.drive.position + 2 > r.size)
          BY <4>3 DEF Ended, META_DATA_SIZE
      <4>5. MarkAt(p, j) + 2 <= fileSize \/ MarkAt(p, j) + 2 > r.size
        <5>1. fileSize \in Int
            BY <1>3
        <5>. QED  BY <4>2, <4>4, <5>1
      <4>6. j > 0
          BY <1>13
      <4>. QED  BY <4>1, <4>4, <4>5, <4>6, <1>7 DEF Marks
    <3>8. ObjectsInv'
        BY <1>1, <1>2, <3>2, <3>5, <3>6, <3>7 DEF ObjectsInv
    <3>. QED  BY <1>10, <1>11, <3>8 DEF TapeInv
  <2>. QED  BY <2>7, <2>8
<1>. QED  BY <1>12, <1>13
-----------------------------------------------------------------------------
(* Erasing                                                                 *)

\* After an end-of-data object has been written behind the objects o
LEMMA EndKeeps ==
    ASSUME TapeInv, Idle, ~tar, NEW s, Sound(s), size <= s.size, NEW o \in Objects,
           NEW w, w = PutEndOfData(s), Holds(w.file, w.size, o),
           drive' = w.drive, file' = w.file, size' = w.size, objects' = o,
           ~torn' => Ended(w) /\ End(o) = s.drive.position,
           UNCHANGED <<transfer, fileSize, maxSize, tar>>
    PROVE  TapeInv'
<1>1. /\ Configured /\ transfer \in Transfers /\ transfer.op = "none" /\ fileSize \in 0 .. size
      /\ maxSize \in 0 .. Capacity /\ size \in Nat /\ tar \in BOOLEAN
    BY InvConfigured, Sizes DEF TapeInv, TypesInv, FileOK, Idle
<1>2. PICK p : p = s.drive.position
    OBVIOUS
<1>3. /\ Sound(w) /\ w.drive = s.drive /\ Extends(s, w, p)
      /\ w.ok /\ ~tar /\ p + 2 <= fileSize => Word(w.file, w.size, p) = EndOfData
    BY <1>1, <1>2, PutEndOfDataEffect
<1>4. FileOK(w.file, w.size) /\ w.drive \in Drives /\ p \in Int
    BY <1>2, <1>3 DEF Sound, States, Drives
<1>5. size <= w.size /\ w.size \in Int /\ s.size \in Int
    BY <1>1, <1>3 DEF Extends, Sound, States
<1>6. TypesInv'
  <2>1. FileOK(file, size)'
      BY <1>4 DEF FileOK, SizeOK, Bytes
  <2>2. fileSize \in 0 .. w.size
      BY <1>1, <1>5
  <2>. QED  BY <1>1, <1>4, <2>1, <2>2 DEF TypesInv
<1>7. WriteInv'
    BY <1>1 DEF WriteInv
<1>8. Holds(file, size, objects)'
    BY DEF Holds, HoldsObject
<1>9. ASSUME ~torn'
      PROVE  Word(w.file, w.size, End(o)) = EndOfData \/ End(o) + 2 > w.size
  <2>1. Ended(w) /\ End(o) = p
      BY <1>2, <1>9
  <2>2. w.ok /\ (fileSize >= p + 2 \/ p + 2 > w.size)
      BY <1>2, <1>3, <2>1 DEF Ended, META_DATA_SIZE
  <2>3. p + 2 <= fileSize \/ p + 2 > w.size
      BY <1>1, <1>4, <2>2
  <2>. QED  BY <1>3, <2>1, <2>2, <2>3
<1>10. ObjectsInv'
    BY <1>8, <1>9 DEF ObjectsInv
<1>. QED  BY <1>6, <1>7, <1>10 DEF TapeInv

\* The objects in front of p stay when something is written at p or behind it.
LEMMA KeptStay ==
    ASSUME TapeInv, NEW s, Sound(s), s.file = file, s.size = size,
           NEW w, Sound(w), NEW p \in Int, Extends(s, w, p)
    PROVE  Kept(p) \in Objects /\ Holds(w.file, w.size, Kept(p))
<1>1. objects \in Objects /\ Holds(s.file, s.size, objects)
    BY DEF TapeInv, ObjectsInv
<1>2. PICK q : q = Kept(p)
    OBVIOUS
<1>3. PICK c \in 0 .. Len(objects) :
          IsPart(q, objects, c) /\ \A k \in 1 .. Len(objects) : Offset(objects)[k] <= p <=> k <= c
    BY <1>1, <1>2, KeptObjects
<1>4. \A k \in 1 .. c : Offset(objects)[k] <= p
  <2>1. \A k \in 1 .. c : k \in 1 .. Len(objects) /\ k <= c
      BY <1>1 DEF Objects
  <2>. QED  BY <1>3, <2>1
<1>5. Holds(w.file, w.size, q)
    BY <1>1, <1>3, <1>4, PartStays
<1>. QED  BY <1>2, <1>3, <1>5 DEF IsPart

LEMMA EraseRestKeeps ==
    ASSUME TapeInv, EraseRest
    PROVE  TapeInv'
<1>1. PICK s : s = State(drive)
    OBVIOUS
<1>2. PICK w : w = PutEndOfData(s)
    OBVIOUS
<1>3. PICK p : p = drive.position
    OBVIOUS
<1>4. PICK o : o = Kept(p)
    OBVIOUS
<1>5. /\ Configured /\ Sound(s) /\ s.file = file /\ s.size = size /\ s.drive = drive
      /\ p \in Int /\ p = s.drive.position /\ size \in Nat
    BY <1>1, <1>3, InvConfigured, Sizes DEF TapeInv, TypesInv, Drives, FileOK
<1>6. Sound(w) /\ Extends(s, w, p)
    BY <1>2, <1>5, PutEndOfDataEffect
<1>7. o \in Objects /\ Holds(w.file, w.size, o)
    BY <1>4, <1>5, <1>6, KeptStay
<1>8. /\ Idle /\ ~tar
      /\ drive' = w.drive /\ file' = w.file /\ size' = w.size /\ objects' = o
      /\ torn' = ~(Ended(w) /\ End(o) = p)
      /\ UNCHANGED <<transfer, fileSize, maxSize, tar>>
    BY <1>1, <1>2, <1>3, <1>4 DEF EraseRest, Ready, EndOfDataWritten
<1>9. ~torn' => Ended(w) /\ End(o) = s.drive.position
    BY <1>5, <1>8
<1>10. size <= s.size
    BY <1>5
<1>. QED  BY <1>2, <1>5, <1>7, <1>8, <1>9, <1>10, EndKeeps

\* Gaps up to the position e
Gaps(p, e) == [i \in 1 .. e - p |-> IF i % 2 = 1 THEN EraseGap ELSE ReservedMarker]

LEMMA ErasedEffect ==
    ASSUME TapeInv, drive.position <= Capacity, NEW s, s = State(drive),
           NEW p, p = drive.position, NEW w, w = Erased(s)
    PROVE  Sound(w) /\ Extends(s, w, p) /\ size <= w.size
<1>1. /\ Configured /\ Sound(s) /\ s.file = file /\ s.size = size /\ s.drive = drive
      /\ p \in Int /\ p = s.drive.position /\ size \in Nat /\ fileSize \in 0 .. size
      /\ Capacity \in Nat /\ p <= Capacity
    BY InvConfigured, Sizes DEF TapeInv, TypesInv, Drives, FileOK
<1>2. CASE p < 0
  <2>1. w = [s EXCEPT !.ok = FALSE]
      BY <1>1, <1>2 DEF Erased
  <2>2. Sound(w) /\ w.file = s.file /\ w.size = s.size
      BY <1>1, <2>1, Fail
  <2>3. Extends(s, w, p)
      BY <1>1, <2>2, ExtendsSelf
  <2>. QED  BY <1>1, <2>2, <2>3
<1>3. CASE ~(p < 0)
  <2>1. PICK e : e = IF p > fileSize THEN Capacity ELSE IF fileSize - p >= 2 THEN fileSize ELSE p
      OBVIOUS
  <2>2. e \in Nat /\ p <= e /\ (e = Capacity \/ e <= size)
      BY <1>1, <1>3, <2>1
  <2>3. PICK bytes : bytes = Gaps(p, e)
      OBVIOUS
  <2>4. bytes \in Seq(Nat) /\ Len(bytes) = e - p
    <3>1. e - p \in Nat /\ EraseGap \in Nat /\ ReservedMarker \in Nat
        BY <1>1, <2>2 DEF EraseGap, ReservedMarker
    <3>2. \A i \in 1 .. e - p : (IF i % 2 = 1 THEN EraseGap ELSE ReservedMarker) \in Nat
        BY <3>1
    <3>. QED  BY <2>3, <3>1, <3>2 DEF Gaps
  <2>5. SizeOK(s.drive.position + Len(bytes)) \/ s.drive.position + Len(bytes) <= s.size
    <3>1. s.drive.position + Len(bytes) = e
        BY <1>1, <2>2, <2>4
    <3>2. e = Capacity => SizeOK(e)
        BY DEF SizeOK
    <3>. QED  BY <1>1, <2>2, <3>1, <3>2
  <2>6. PICK v : v = Put(s, bytes)
      OBVIOUS
  <2>7. Sound(v) /\ v.drive = s.drive /\ Extends(s, v, p)
      BY <1>1, <2>4, <2>5, <2>6, PutWithinEffect
  <2>8. e - p \in Int
      BY <1>1, <2>2
  <2>9. PICK u : u = Step(v, e - p)
      OBVIOUS
  <2>10. Sound(u) /\ u.file = v.file /\ u.size = v.size
      BY <2>7, <2>8, <2>9, Forward
  <2>15. PICK ok : ok = (p <= fileSize)
      OBVIOUS
  <2>11. ok \in BOOLEAN
      BY <2>15
  <2>12. w = [u EXCEPT !.ok = ok]
      BY <1>1, <1>3, <2>1, <2>3, <2>6, <2>9, <2>15 DEF Erased, Gaps, META_DATA_SIZE
  <2>13. Sound(w) /\ w.file = u.file /\ w.size = u.size
      BY <2>10, <2>11, <2>12 DEF Sound, States
  <2>14. Extends(s, w, p)
      BY <2>7, <2>10, <2>13 DEF Extends
  <2>. QED  BY <1>1, <2>13, <2>14 DEF Extends
<1>. QED  BY <1>2, <1>3

\* The state s with the drive at the beginning of the tape
Rewound(s) == [s EXCEPT !.drive = Reset(@)]

LEMMA RewoundSound ==
    ASSUME NEW s, Sound(s), NEW w, w = Rewound(s)
    PROVE  Sound(w) /\ w.file = s.file /\ w.size = s.size /\ w.drive.position = 0
<1>1. Reset(s.drive) \in Drives /\ Reset(s.drive).position = 0
    BY ResetDrive DEF Sound, States
<1>2. PICK d \in Drives : d = Reset(s.drive)
    BY <1>1
<1>3. w = [s EXCEPT !.drive = d]
    BY <1>2 DEF Rewound
<1>. QED  BY <1>1, <1>2, <1>3 DEF Sound, States

LEMMA NoObjects ==
    ASSUME NEW f, NEW n
    PROVE  <<>> \in Objects /\ Holds(f, n, <<>>) /\ End(<<>>) = 0
<1>1. <<>> \in Objects /\ Len(<<>>) = 0
    BY DEF Objects
<1>2. PICK o : o = <<>>
    OBVIOUS
<1>3. Offset(o)[0] = 0
    BY <1>1, <1>2, Offsets
<1>4. End(o) = 0
    BY <1>1, <1>2, <1>3 DEF End
<1>. QED  BY <1>1, <1>2, <1>4 DEF Holds

LEMMA EraseAllKeeps ==
    ASSUME TapeInv, EraseAll
    PROVE  TapeInv'
<1>1. PICK s : s = State(drive)
    OBVIOUS
<1>2. PICK v : v = Erased(s)
    OBVIOUS
<1>3. PICK p : p = drive.position
    OBVIOUS
<1>4. PICK w : w = PutEndOfData(Rewound(v))
    OBVIOUS
<1>5. /\ Configured /\ Sound(s) /\ s.file = file /\ s.size = size
      /\ p \in Int /\ size \in Nat /\ fileSize \in 0 .. size
      /\ maxSize \in 0 .. Capacity /\ tar \in BOOLEAN /\ transfer \in Transfers
    BY <1>1, <1>3, InvConfigured, Sizes DEF TapeInv, TypesInv, Drives, FileOK
<1>6. Idle /\ ~tar /\ drive.position <= Capacity
    BY DEF EraseAll, Ready
<1>7. Sound(v) /\ Extends(s, v, p) /\ size <= v.size
    BY <1>1, <1>2, <1>3, <1>6, ErasedEffect
<1>8. CASE v.ok
  <2>1. /\ drive' = w.drive /\ file' = w.file /\ size' = w.size /\ objects' = <<>>
        /\ torn' = ~Ended(w)
        /\ UNCHANGED <<transfer, fileSize, maxSize, tar>>
      BY <1>1, <1>2, <1>4, <1>8 DEF EraseAll, EndOfDataWritten, Rewound
  <2>2. PICK u : u = Rewound(v)
      OBVIOUS
  <2>3. Sound(u) /\ u.size = v.size /\ u.drive.position = 0
      BY <1>7, <2>2, RewoundSound
  <2>4. w = PutEndOfData(u) /\ size <= u.size
      BY <1>4, <1>7, <2>2, <2>3
  <2>5. PICK o : o = <<>>
      OBVIOUS
  <2>6. o \in Objects /\ Holds(w.file, w.size, o) /\ End(o) = 0
      BY <2>5, NoObjects
  <2>7. objects' = o
      BY <2>1, <2>5
  <2>8. ~torn' => Ended(w) /\ End(o) = u.drive.position
      BY <2>1, <2>3, <2>6
  <2>. QED  BY <1>6, <2>1, <2>3, <2>4, <2>6, <2>7, <2>8, EndKeeps
<1>9. CASE ~v.ok
  <2>1. /\ drive' = v.drive /\ file' = v.file /\ size' = v.size /\ objects' = Kept(p) /\ torn'
        /\ UNCHANGED <<transfer, fileSize, maxSize, tar>>
      BY <1>1, <1>2, <1>3, <1>9 DEF EraseAll
  <2>2. Kept(p) \in Objects /\ Holds(v.file, v.size, Kept(p))
      BY <1>5, <1>7, KeptStay
  <2>3. FileOK(v.file, v.size) /\ v.drive \in Drives /\ v.size \in Int
      BY <1>7 DEF Sound, States
  <2>4. TypesInv'
    <3>1. FileOK(file, size)'
        BY <2>1, <2>3 DEF FileOK, SizeOK, Bytes
    <3>2. fileSize \in 0 .. v.size
        BY <1>5, <1>7, <2>3
    <3>. QED  BY <1>5, <1>6, <2>1, <2>3, <3>1, <3>2 DEF TypesInv, Idle
  <2>5. WriteInv'
      BY <1>6, <2>1 DEF WriteInv, Idle
  <2>6. Holds(file, size, objects)'
      BY <2>1, <2>2 DEF Holds, HoldsObject
  <2>7. ObjectsInv'
      BY <1>6, <2>1, <2>2, <2>6 DEF ObjectsInv
  <2>. QED  BY <2>4, <2>5, <2>7 DEF TapeInv
<1>. QED  BY <1>8, <1>9
-----------------------------------------------------------------------------
(* The invariant holds                                                     *)

LEMMA InitInv ==
    ASSUME TapeInit
    PROVE  TapeInv
<1>1. PICK s \in Files :
          /\ size = IF s[2] > 0 /\ s[1] < BlockSize THEN BlockSize ELSE s[1]
          /\ fileSize = s[1]
          /\ maxSize = IF s[2] = 0 THEN s[1] ELSE s[2]
          /\ tar = s[3]
    BY DEF TapeInit
<1>2. /\ file = [i \in 0 .. Capacity - 1 |-> 0]
      /\ drive = Drive(0, 0) /\ transfer = NoTransfer /\ objects = <<>> /\ torn = TRUE
    BY DEF TapeInit
<1>3. /\ Capacity \in Nat /\ BlockSize \in Nat /\ BlockSize > 0
      /\ s[3] \in BOOLEAN /\ s[1] \in 0 .. Capacity /\ s[2] \in {0} \cup BlockSize .. Capacity
    BY TapeAssumption, Sizes DEF TapeAssumption
<1>4. s[1] \in Int /\ s[2] \in Int /\ (s[2] = 0 \/ (s[2] >= BlockSize /\ s[2] <= Capacity))
    BY <1>3
<1>5. /\ size \in 0 .. Capacity /\ fileSize \in 0 .. size /\ maxSize \in 0 .. Capacity /\ tar \in BOOLEAN
    BY <1>1, <1>3, <1>4
<1>6. SizeOK(size)
  <2>1. maxSize <= Pad(maxSize) /\ Pad(maxSize) \in Nat
    <3>1. maxSize \in Nat
        BY <1>3, <1>5
    <3>. QED  BY <3>1, Padded DEF EvenNumbers
  <2>2. CASE s[2] > 0 /\ ~(s[1] < BlockSize)
    <3>1. size = s[1] /\ maxSize = s[2]
        BY <2>2, <1>1, <1>4
    <3>. QED  BY <3>1 DEF SizeOK
  <2>3. CASE ~(s[2] > 0 /\ ~(s[1] < BlockSize))
    <3>1. size <= maxSize
        BY <2>3, <1>1, <1>3, <1>4
    <3>2. size <= Pad(maxSize)
        BY <2>1, <3>1, <1>3, <1>5
    <3>. QED  BY <3>2 DEF SizeOK
  <2>. QED  BY <2>2, <2>3
<1>7. FileOK(file, size)
  <2>1. file \in Bytes /\ \A i \in 0 .. Capacity - 1 : file[i] = 0
      BY <1>2 DEF Bytes
  <2>. QED  BY <1>5, <1>6, <2>1 DEF FileOK
<1>8. drive \in Drives
    BY <1>2 DEF Drive, Drives
<1>9. TypesInv
    BY <1>2, <1>5, <1>7, <1>8, NoTransferType DEF TypesInv
<1>10. ObjectsInv
    BY <1>2, NoObjects DEF ObjectsInv
<1>11. WriteInv
    BY <1>2, NoTransferType DEF WriteInv
<1>. QED  BY <1>9, <1>10, <1>11 DEF TapeInv

LEMMA NextInv ==
    ASSUME TapeInv, [TapeNext]_vars
    PROVE  TapeInv'
<1>1. Lengths \subseteq Nat /\ Counts \subseteq Nat
    BY TapeAssumption DEF TapeAssumption
<1>2. ASSUME NEW a \in Identifiers, NEW fixed \in BOOLEAN, NEW n \in Amounts(fixed)
      PROVE  a[2] \in Nat /\ n \in Nat
  <2>1. a[2] \in Nat
    <3>1. CASE a = <<FALSE, 0>>
        BY <3>1
    <3>2. CASE a # <<FALSE, 0>>
      <4>1. PICK i \in Counts : a = <<TRUE, i>>
          BY <1>2, <3>2 DEF Identifiers
      <4>. QED  BY <1>1, <4>1
    <3>. QED  BY <3>1, <3>2
  <2>2. n \in Nat
    <3>1. n \in Counts \/ n \in Lengths
        BY <1>2 DEF Amounts
    <3>. QED  BY <1>1, <3>1
  <2>. QED  BY <2>1, <2>2
<1>3. CASE Reading
  <2>1. CASE \E a \in Identifiers, fixed, sili \in BOOLEAN :
                \E n \in Amounts(fixed) : Read(a[1], a[2], fixed, sili, n)
      BY <1>2, <2>1, ReadKeeps
  <2>2. CASE ReadNext
      BY <2>2, ReadNextKeeps
  <2>. QED  BY <1>3, <2>1, <2>2 DEF Reading
<1>4. CASE Writing
  <2>1. CASE \E a \in Identifiers, fixed \in BOOLEAN : \E n \in Amounts(fixed) : Write(a[1], a[2], fixed, n)
      BY <1>2, <2>1, WriteKeeps
  <2>2. CASE \E b \in Data : WriteNext(b)
      BY <2>2, WriteNextKeeps
  <2>3. CASE \E i, n \in Counts \cup {0} : WriteFilemarks(i, n)
    <3>1. PICK i \in Nat, n \in Nat : WriteFilemarks(i, n)
        BY <1>1, <2>3
    <3>. QED  BY <3>1, WriteFilemarksKeeps
  <2>4. CASE EraseAll
      BY <2>4, EraseAllKeeps
  <2>5. CASE EraseRest
      BY <2>5, EraseRestKeeps
  <2>. QED  BY <1>4, <2>1, <2>2, <2>3, <2>4, <2>5 DEF Writing
<1>5. CASE Positioning
  <2>1. CASE \E n \in Counts : \E t \in {"block", "filemark"} : Space(t, n) \/ Space(t, -n)
    <3>1. PICK n \in Counts, t \in {"block", "filemark"} : Space(t, n) \/ Space(t, -n)
        BY <2>1
    <3>2. n \in Int /\ -n \in Int
        BY <1>1
    <3>. QED  BY <3>1, <3>2, PositioningKeeps
  <2>2. CASE Space("end-of-data", 0)
    <3>1. 0 \in Int
        OBVIOUS
    <3>. QED  BY <2>2, <3>1, PositioningKeeps
  <2>3. CASE \E i \in Counts \cup {0} : Locate(i)
    <3>1. PICK i \in Nat : Locate(i)
        BY <1>1, <2>3
    <3>. QED  BY <3>1, PositioningKeeps
  <2>4. CASE Rewind
      BY <2>4, PositioningKeeps
  <2>. QED  BY <1>5, <2>1, <2>2, <2>3, <2>4 DEF Positioning
<1>6. CASE Abort
    BY <1>6, AbortKeeps
<1>7. CASE Open
    BY <1>7, OpenKeeps
<1>8. CASE UNCHANGED vars
  <2>1. /\ file' = file /\ size' = size /\ fileSize' = fileSize /\ maxSize' = maxSize /\ tar' = tar
        /\ drive' = drive /\ transfer' = transfer /\ objects' = objects /\ torn' = torn
      BY <1>8 DEF vars
  <2>2. State(drive)' = State(drive)
      BY <2>1 DEF State
  <2>3. TypesInv'
      BY <2>1 DEF TapeInv, TypesInv, FileOK, SizeOK, Bytes
  <2>4. ObjectsInv'
      BY <2>1 DEF TapeInv, ObjectsInv, Holds, HoldsObject
  <2>5. WriteInv'
      BY <2>1, <2>2 DEF TapeInv, WriteInv, PartWritten, Leads, Wrote, Word
  <2>. QED  BY <2>3, <2>4, <2>5 DEF TapeInv
<1>. QED  BY <1>3, <1>4, <1>5, <1>6, <1>7, <1>8 DEF TapeNext

\* The invariant holds in all reachable states.
LEMMA InvHolds == TapeSpec => []TapeInv
<1>1. TapeInit => TapeInv
    BY InitInv
<1>2. TapeInv /\ [TapeNext]_vars => TapeInv'
    BY NextInv
<1>. QED  BY <1>1, <1>2, PTL DEF TapeSpec

\* For image files, blocks and commands of any size, the file never grows beyond its maximum size
\* (CheckForOverflow(), tape.cpp:993), except for a long erase behind its original end, nothing
\* follows the end of the file, and the chunks of a transfer are a part of what remains of it.
THEOREM TapeTypesTheorem == TapeSpec => []TapeTypeOK
<1>1. TapeInv => TapeTypeOK
  <2>. SUFFICES ASSUME TapeInv
                PROVE  TapeTypeOK
      OBVIOUS
  <2>1. /\ FileOK(file, size) /\ fileSize \in 0 .. size /\ drive \in Drives /\ transfer \in Transfers
        /\ transfer.op # "none" => transfer.chunk \in 1 .. transfer.rest
      BY DEF TapeInv, TypesInv
  <2>2. \A i \in size .. Capacity - 1 : file[i] = 0
    <3>1. size \in 0 .. Capacity /\ Capacity \in Nat
        BY <2>1, Sizes DEF FileOK
    <3>2. \A i \in size .. Capacity - 1 : i \in 0 .. Capacity - 1 /\ i >= size
        BY <3>1
    <3>. QED  BY <2>1, <3>2 DEF FileOK
  <2>3. file \in [0 .. Capacity - 1 -> Nat] /\ size \in 0 .. Capacity
      BY <2>1 DEF FileOK, Bytes
  <2>4. size <= Pad(maxSize) \/ size = Capacity \/ \E s \in Files : size = s[1] /\ maxSize = s[2]
      BY <2>1 DEF FileOK, SizeOK
  <2>5. drive.position \in Int /\ drive.location \in Int /\ transfer.op \in {"none", "read", "write"}
      BY <2>1 DEF Drives, Transfers
  <2>. QED  BY <2>1, <2>2, <2>3, <2>4, <2>5 DEF TapeTypeOK
<1>. QED  BY <1>1, InvHolds, PTL

\* For image files, blocks and commands of any size, every block and filemark that has been written
\* and has not been overwritten or erased since is in the image file with both of its lengths, and
\* the end of data follows the last one if the file was long enough for it when it was opened
\* (tape.cpp:258, 291, 640, 654).
THEOREM ObjectsKeptTheorem == TapeSpec => []ObjectsKept
<1>1. TapeInv => ObjectsKept
  <2>. SUFFICES ASSUME TapeInv
                PROVE  ObjectsKept
      OBVIOUS
  <2>1. \A p : At(p) = Word(file, size, p)
      BY DEF At, Word, META_DATA_SIZE
  <2>2. objects \in Objects /\ Holds(file, size, objects) /\ size \in Nat /\ fileSize \in 0 .. size
      BY Sizes DEF TapeInv, ObjectsInv, TypesInv, FileOK
  <2>3. ASSUME ~torn, End(objects) + META_DATA_SIZE <= fileSize
        PROVE  At(End(objects)) = MetaData(PrivateMarker, EndOfDataMagic)
    <3>1. End(objects) \in Int
        BY <2>2, Ends DEF EvenNumbers
    <3>2. ~(End(objects) + 2 > size)
        BY <2>2, <2>3, <3>1 DEF META_DATA_SIZE
    <3>. QED  BY <2>1, <2>3, <3>2 DEF TapeInv, ObjectsInv, EndOfData
  <2>4. ASSUME NEW k \in 1 .. Len(objects), NEW o, o = objects[k], NEW p, p = Offset(objects)[k - 1]
        PROVE  /\ At(p) = MetaData(Good, Len(o))
               /\ o # <<>> => At(p + Width(o) - META_DATA_SIZE) = MetaData(Good, Len(o))
               /\ \A i \in 1 .. Len(o) : file[p + META_DATA_SIZE + i - 1] = o[i]
    <3>1. HoldsObject(file, size, p, o)
        BY <2>2, <2>4 DEF Holds
    <3>. QED  BY <2>1, <3>1 DEF HoldsObject, META_DATA_SIZE
  <2>. QED  BY <2>3, <2>4 DEF ObjectsKept
<1>. QED  BY <1>1, InvHolds, PTL

-----------------------------------------------------------------------------
(* Where the searches for objects end                                      *)

\* What the searches rely on
Known == FileOK(file, size) /\ ObjectsInv

\* The position p is where object k ends; l is the number of objects up to there, plus c.
At1(p, l, c, k) == k \in 0 .. Len(objects) /\ p = Offset(objects)[k] /\ l = c + k

AtObject(p, l, c) == \E k \in 0 .. Len(objects) : At1(p, l, c, k)

\* The position p is among what follows the objects.
Outside(p) == torn /\ p > End(objects)

Tracked(p, l, c) == AtObject(p, l, c) \/ Outside(p)

ObjectMeta(k) == MetaData(Good, Len(objects[k]))

\* Object k is between the positions p and q and has n bytes.
ObjectFrom(k, p, q, n) ==
    /\ k \in 1 .. Len(objects) /\ n = Len(objects[k])
    /\ p = Offset(objects)[k - 1] /\ q = Offset(objects)[k]

LEMMA KnownSays ==
    ASSUME Known
    PROVE  /\ FileOK(file, size) /\ objects \in Objects /\ Len(objects) \in Nat
           /\ End(objects) \in Nat /\ End(objects) \in Int
<1>1. FileOK(file, size) /\ objects \in Objects
    BY DEF Known, ObjectsInv
<1>2. Len(objects) \in Nat
    BY <1>1 DEF Objects
<1>3. End(objects) \in Nat
    BY <1>1, Ends
<1>. QED  BY <1>1, <1>2, <1>3

LEMMA RecordEnds ==
    ASSUME NEW p \in Nat, NEW q \in Nat, NEW w \in Nat, NEW x \in Nat, w = x + 4, q = p + w
    PROVE  q = p + x + 4 /\ p + w - 2 = q - 2 /\ q - 2 + 2 = q /\ p + 2 <= q
OBVIOUS

\* Object k in the file
LEMMA ObjectAt ==
    ASSUME Known, NEW k, NEW p, NEW q, NEW n, ObjectFrom(k, p, q, n)
    PROVE  /\ p \in Nat /\ q \in Nat /\ n \in Nat /\ p + 2 <= q /\ q <= size /\ q <= End(objects)
           /\ At(p) = MetaData(Good, n) /\ At(q - 2) = MetaData(Good, n)
           /\ n # 0 => q = p + Pad(n) + 4
           /\ n = 0 => q = p + 2
           /\ k - 1 \in 0 .. Len(objects) /\ k \in 0 .. Len(objects)
<1>. DEFINE o == objects[k]
<1>1. objects \in Objects /\ Len(objects) \in Nat /\ o \in Seq(Nat) /\ HoldsObject(file, size, p, o)
    BY DEF Known, ObjectsInv, Holds, Objects, ObjectFrom
<1>2. /\ k - 1 \in 0 .. Len(objects) /\ k \in 0 .. Len(objects) /\ k \in 1 .. Len(objects)
      /\ Len(objects) \in 0 .. Len(objects)
    BY <1>1 DEF ObjectFrom
<1>3. p \in Nat /\ q \in Nat /\ q = p + Width(o) /\ End(objects) \in Nat
    BY <1>1, <1>2, Offsets, Ends DEF EvenNumbers, ObjectFrom
<1>4. q <= End(objects)
  <2>1. CASE k = Len(objects)
      BY <2>1, <1>3 DEF End, ObjectFrom
  <2>2. CASE k # Len(objects)
    <3>1. k < Len(objects)
        BY <2>2, <1>2
    <3>2. q + 2 <= End(objects)
        BY <3>1, <1>1, <1>2, OffsetsGrow DEF End, ObjectFrom
    <3>. QED  BY <3>2, <1>3
  <2>. QED  BY <2>1, <2>2
<1>5. \A a : At(a) = Word(file, size, a)
    BY DEF At, Word, META_DATA_SIZE
<1>6. n \in Nat /\ n = Len(o) /\ (n = 0 <=> o = <<>>)
    BY <1>1 DEF ObjectFrom
<1>7. At(p) = MetaData(Good, n) /\ p + 2 <= size
  <2>1. Word(file, size, p) = MetaData(Good, n)
      BY <1>1, <1>6 DEF HoldsObject
  <2>. QED  BY <2>1, <1>5, WordInFile
<1>8. CASE n = 0
  <2>1. q = p + 2
      BY <1>1, <1>3, <1>6, <1>8, Widths
  <2>2. q - 2 = p
      BY <2>1, <1>3
  <2>. QED  BY <2>1, <2>2, <1>2, <1>3, <1>4, <1>6, <1>7, <1>8
<1>9. CASE n # 0
  <2>1. Width(o) = Pad(n) + 4 /\ Pad(n) \in Nat
      BY <1>1, <1>6, <1>9, Widths, Padded DEF EvenNumbers
  <2>2. PICK w \in Nat : w = Width(o)
      BY <2>1
  <2>3. PICK x \in Nat : x = Pad(n)
      BY <2>1
  <2>4. w = x + 4 /\ q = p + w
      BY <2>1, <2>2, <2>3, <1>3
  <2>5. q = p + x + 4 /\ p + w - 2 = q - 2 /\ q - 2 + 2 = q /\ p + 2 <= q
      BY <2>2, <2>3, <2>4, <1>3, RecordEnds
  <2>6. Word(file, size, q - 2) = MetaData(Good, n)
    <3>1. Word(file, size, p + Width(o) - 2) = MetaData(Good, n)
        BY <1>1, <1>6, <1>9 DEF HoldsObject
    <3>. QED  BY <3>1, <2>2, <2>5
  <2>7. q - 2 + 2 <= size
      BY <2>6, WordInFile
  <2>8. q <= size
      BY <2>7, <2>5
  <2>9. At(q - 2) = MetaData(Good, n)
      BY <2>6, <1>5
  <2>10. q = p + Pad(n) + 4
      BY <2>5, <2>3
  <2>. QED  BY <2>5, <2>8, <2>9, <2>10, <1>2, <1>3, <1>4, <1>6, <1>7, <1>9
<1>. QED  BY <1>8, <1>9

\* The meta data of an object, and what is behind them
LEMMA ObjectMetaSays ==
    ASSUME NEW n \in Nat, NEW m, m = MetaData(Good, n)
    PROVE  /\ Meaning(m) = "object" /\ Counted(m) = 1 /\ m.value = n /\ m # MetaData(Bad, 0)
           /\ n # 0 => RecordTail(m) = Pad(n) + 2
           /\ n = 0 => RecordTail(m) = 0
           /\ m = MetaData(Good, 0) <=> n = 0
BY DEF Meaning, Counted, MetaData, RecordTail, IsRecord, IsObject, Good, Bad, META_DATA_SIZE

\* What a search forwards from the position p comes to
NextFrom(r, p) ==
    /\ r \in Results /\ r.what \in {"object", "end-of-data", "end-of-medium"}
    /\ r.position >= p + 2
    /\ r.what = "object" => r.meta.cls \in {Good, Bad}

LEMMA MeaningSays ==
    ASSUME NEW m, Meaning(m) # "skip"
    PROVE  /\ Meaning(m) \in {"object", "end-of-data", "end-of-medium"}
           /\ Meaning(m) = "object" => m.cls \in {Good, Bad}
           /\ Meaning(m) = "end-of-data" => m = EndOfData
BY DEF Meaning, EndOfData

LEMMA EndsSay ==
    /\ Meaning(EndOfData) = "end-of-data" /\ Counted(EndOfData) = 0
    /\ Meaning(MetaData(ReservedMarker, EndOfMedium)) = "end-of-medium"
BY DEF Meaning, Counted, EndOfData, MetaData, IsRecord, IsObject, Good, Bad, PrivateMarker, ReservedMarker,
       EndOfDataMagic, EndOfMedium

LEMMA NextObjectFrom ==
    ASSUME FileOK(file, size), NEW x \in Places, x[1] >= 0
    PROVE  NextFrom(NextObject[x], x[1])
<1>. DEFINE S == {y \in Places : y[1] >= 0 => NextFrom(NextObject[y], y[1])}
<1>1. ASSUME NEW y \in NextStop
      PROVE  y \in S
  <2>1. y \in Places /\ NextObject[y] = NextFound[y] /\ NextFound[y] \in Results /\ y[1] \in Int
      BY NextObjectSays, NextFoundType DEF NextStop, Places
  <2>2. ASSUME y[1] >= 0
        PROVE  NextFrom(NextFound[y], y[1])
    <3>1. NextFound[y] = Found(Meaning(At(y[1])), y[1] + 2, y[2] + Counted(At(y[1])), At(y[1]))
        BY <2>1, <2>2 DEF NextFound
    <3>2. Meaning(At(y[1])) # "skip"
        BY <2>1, <2>2 DEF NextStop
    <3>3. PICK m : m = At(y[1])
        OBVIOUS
    <3>4. /\ NextFound[y].what = Meaning(m) /\ NextFound[y].meta = m
          /\ NextFound[y].position = y[1] + 2
        BY <3>1, <3>3 DEF Found
    <3>5. /\ Meaning(m) \in {"object", "end-of-data", "end-of-medium"}
          /\ Meaning(m) = "object" => m.cls \in {Good, Bad}
        BY <3>2, <3>3, MeaningSays
    <3>6. y[1] + 2 >= y[1] + 2
        BY <2>1
    <3>. QED  BY <2>1, <3>4, <3>5, <3>6 DEF NextFrom
  <2>. QED  BY <2>1, <2>2
<1>2. ASSUME NEW y \in Places \ NextStop, NextStep[y] \in S
      PROVE  y \in S
  <2>1. PICK z : z = NextStep[y]
      OBVIOUS
  <2>2. NextObject[y] = NextObject[z] /\ y[1] \in Int /\ y[1] >= 0 /\ z \in Places /\ z[1] >= y[1] + 2 /\ z[1] \in Int
      BY <2>1, NextObjectSays, NextSteps DEF Places
  <2>3. z[1] >= 0
      BY <2>2
  <2>4. NextFrom(NextObject[z], z[1])
      BY <1>2, <2>1, <2>3
  <2>5. PICK r : r = NextObject[z]
      OBVIOUS
  <2>6. NextFrom(r, z[1]) /\ r.position \in Int
      BY <2>4, <2>5 DEF NextFrom, Results
  <2>7. r.position >= y[1] + 2
      BY <2>2, <2>6 DEF NextFrom
  <2>8. NextFrom(r, y[1])
      BY <2>6, <2>7 DEF NextFrom
  <2>. QED  BY <2>2, <2>5, <2>8
<1>. HIDE DEF S
<1>3. x \in S
    BY <1>1, <1>2, NextWalk, WalkInduction
<1>. QED  BY <1>3 DEF S

\* Object k has been found.
IsNext(r, c, k) ==
    /\ k \in 1 .. Len(objects) /\ r.what = "object" /\ r.meta = ObjectMeta(k)
    /\ r.position = Offset(objects)[k - 1] + 2 /\ r.location = c + k

\* There is no further object.
IsEnd(r, c) ==
    /\ r.what \in {"end-of-data", "end-of-medium"}
    /\ r.what = "end-of-data" => r.position = End(objects) + 2 /\ r.location = c + Len(objects)

\* What has been found is behind the objects.
IsBeyond(r) ==
    /\ torn /\ r.what \in {"object", "end-of-data", "end-of-medium"} /\ r.position > End(objects)
    /\ r.what = "object" => r.meta.cls \in {Good, Bad}
    /\ r.what # "object" => r.position - 2 > End(objects)

HasAhead(r, c) == (\E k : IsNext(r, c, k)) \/ IsEnd(r, c) \/ IsBeyond(r)

LEMMA BeyondEnd ==
    ASSUME torn, NEW r, NEW p \in Int, NextFrom(r, p), NEW e \in Int, e = End(objects), p > e
    PROVE  IsBeyond(r)
<1>1. r.position \in Int /\ r.position >= p + 2
    BY DEF NextFrom, Results
<1>2. r.position > e /\ r.position - 2 > e
    BY <1>1
<1>. QED  BY <1>2 DEF NextFrom, IsBeyond

LEMMA FoundAtOnce ==
    ASSUME FileOK(file, size), NEW p \in Nat, NEW l \in Int, NEW m, m = At(p), Meaning(m) # "skip"
    PROVE  NextObject[<<p, l>>] = Found(Meaning(m), p + 2, l + Counted(m), m)
<1>1. <<p, l>> \in Places /\ <<p, l>>[1] = p /\ <<p, l>>[2] = l
    BY DEF Places
<1>2. <<p, l>> \in NextStop
    BY <1>1 DEF NextStop
<1>. QED  BY <1>1, <1>2, NextObjectSays DEF NextFound

LEMMA AheadAtEnd ==
    ASSUME Known, NEW p, p = End(objects), NEW c \in Int, NEW l \in Int, l = c + Len(objects),
           NEW r, r = NextObject[<<p, l>>]
    PROVE  HasAhead(r, c)
<1>1. p \in Nat /\ FileOK(file, size) /\ Len(objects) \in Nat
    BY Ends DEF Known, ObjectsInv, Objects
<1>2. PICK m : m = At(p)
    OBVIOUS
<1>3. CASE Meaning(m) # "skip"
  <2>1. r = Found(Meaning(m), p + 2, l + Counted(m), m)
      BY <1>1, <1>2, <1>3, FoundAtOnce
  <2>2. r.what = Meaning(m) /\ r.meta = m /\ r.position = p + 2 /\ r.location = l + Counted(m)
      BY <2>1 DEF Found
  <2>3. CASE Meaning(m) = "object"
    <3>1. torn
      <4>1. ~torn => m = EndOfData \/ p + 2 > size
          BY <1>2, <1>1 DEF Known, ObjectsInv, At, Word, META_DATA_SIZE
      <4>2. p + 2 > size => m = MetaData(ReservedMarker, EndOfMedium)
        <5>1. size \in Int
            BY <1>1, Sizes DEF FileOK
        <5>. QED  BY <5>1, <1>1, <1>2 DEF At, META_DATA_SIZE
      <4>. QED  BY <4>1, <4>2, <2>3, EndsSay
    <3>2. m.cls \in {Good, Bad}
        BY <1>3, <2>3, MeaningSays
    <3>3. p + 2 > p
        BY <1>1
    <3>4. IsBeyond(r)
        BY <2>2, <2>3, <3>1, <3>2, <3>3 DEF IsBeyond
    <3>. QED  BY <3>4 DEF HasAhead
  <2>4. CASE Meaning(m) # "object"
    <3>1. Meaning(m) \in {"end-of-data", "end-of-medium"} /\ (Meaning(m) = "end-of-data" => m = EndOfData)
        BY <1>3, <2>4, MeaningSays
    <3>2. m = EndOfData => r.location = l
        BY <2>2, EndsSay
    <3>3. IsEnd(r, c)
        BY <2>2, <3>1, <3>2 DEF IsEnd
    <3>. QED  BY <3>3 DEF HasAhead
  <2>. QED  BY <2>3, <2>4
<1>4. CASE Meaning(m) = "skip"
  <2>1. torn
    <3>1. ~torn => m = EndOfData \/ p + 2 > size
        BY <1>2, <1>1 DEF Known, ObjectsInv, At, Word, META_DATA_SIZE
    <3>2. p + 2 > size => m = MetaData(ReservedMarker, EndOfMedium)
      <4>1. size \in Int
          BY <1>1, Sizes DEF FileOK
      <4>. QED  BY <4>1, <1>1, <1>2 DEF At, META_DATA_SIZE
    <3>. QED  BY <3>1, <3>2, <1>4, EndsSay
  <2>2. PICK x : x = <<p, l>>
      OBVIOUS
  <2>3. x \in Places /\ x[1] = p /\ x \notin NextStop
      BY <2>2, <1>1, <1>2, <1>4 DEF Places, NextStop
  <2>4. PICK z : z = NextStep[x]
      OBVIOUS
  <2>5. z \in Places /\ z[1] >= p + 2 /\ z[1] \in Int /\ r = NextObject[z]
      BY <1>1, <2>2, <2>3, <2>4, NextObjectSays, NextSteps DEF Places
  <2>6. z[1] >= 0 /\ z[1] > p
      BY <1>1, <2>5
  <2>7. NextFrom(r, z[1])
      BY <1>1, <2>5, <2>6, NextObjectFrom
  <2>8. p \in Int
      BY <1>1
  <2>9. IsBeyond(r)
      BY <2>1, <2>5, <2>6, <2>7, <2>8, BeyondEnd
  <2>. QED  BY <2>9 DEF HasAhead
<1>. QED  BY <1>3, <1>4

\* From the end of an object a search comes to the next one, to the end of data, or to something
\* behind the objects. From there it does not come back.
LEMMA AheadOf ==
    ASSUME Known, NEW x \in Searches, NEW c \in Int, Tracked(x[1], x[2], c), NEW r, r = Ahead(x)
    PROVE  HasAhead(r, c)
<1>0. FileOK(file, size) /\ Len(objects) \in Nat /\ End(objects) \in Nat /\ objects \in Objects
    BY KnownSays
<1>1. /\ x[1] \in Int /\ x[2] \in Int /\ <<x[1], x[2]>> \in Places /\ FileOK(file, size)
      /\ r = NextObject[<<x[1], x[2]>>] /\ Len(objects) \in Nat /\ End(objects) \in Nat /\ objects \in Objects
    BY <1>0, AheadType DEF Ahead
<1>2. CASE AtObject(x[1], x[2], c)
  <2>1. PICK k : At1(x[1], x[2], c, k)
      BY <1>2 DEF AtObject
  <2>2. k \in 0 .. Len(objects) /\ x[1] = Offset(objects)[k] /\ x[2] = c + k
      BY <2>1 DEF At1
  <2>3. CASE k = Len(objects)
      BY <1>1, <2>2, <2>3, AheadAtEnd DEF End
  <2>4. CASE k # Len(objects)
    <3>1. PICK j : j = k + 1
        OBVIOUS
    <3>2. j \in 1 .. Len(objects) /\ j - 1 = k
        BY <1>1, <2>2, <2>4, <3>1
    <3>3. PICK n : n = Len(objects[j])
        OBVIOUS
    <3>4. PICK q : q = Offset(objects)[j]
        OBVIOUS
    <3>5. ObjectFrom(j, x[1], q, n)
        BY <2>2, <3>2, <3>3, <3>4 DEF ObjectFrom
    <3>6. x[1] \in Nat /\ At(x[1]) = MetaData(Good, n) /\ n \in Nat
        BY <3>5, ObjectAt
    <3>7. PICK m : m = MetaData(Good, n)
        OBVIOUS
    <3>8. Meaning(m) = "object" /\ Counted(m) = 1
        BY <3>6, <3>7, ObjectMetaSays
    <3>9. r = Found("object", x[1] + 2, x[2] + 1, m)
        BY <1>1, <3>6, <3>7, <3>8, FoundAtOnce
    <3>10. x[2] + 1 = c + j
        BY <2>2, <3>1
    <3>11. IsNext(r, c, j)
        BY <2>2, <3>2, <3>3, <3>7, <3>9, <3>10 DEF IsNext, Found, ObjectMeta
    <3>. QED  BY <3>11 DEF HasAhead
  <2>. QED  BY <2>3, <2>4
<1>3. CASE Outside(x[1])
  <2>1. torn /\ x[1] > End(objects) /\ x[1] >= 0
      BY <1>1, <1>3 DEF Outside
  <2>2. PICK y : y = <<x[1], x[2]>>
      OBVIOUS
  <2>3. y \in Places /\ y[1] = x[1]
      BY <1>1, <2>2
  <2>4. NextFrom(r, x[1])
      BY <1>1, <2>1, <2>2, <2>3, NextObjectFrom
  <2>5. IsBeyond(r)
      BY <1>1, <2>1, <2>4, BeyondEnd
  <2>. QED  BY <2>5 DEF HasAhead
<1>. QED  BY <1>2, <1>3 DEF Tracked

\* A block has been found, the one with the number k or one behind the objects.
IsBlock(r, c, k) ==
    /\ k \in 1 .. Len(objects) /\ objects[k] # <<>> /\ r.meta = ObjectMeta(k)
    /\ r.position = Offset(objects)[k] /\ r.location = c + k

BlockBeyond(r) ==
    /\ torn /\ r.position > End(objects)
    /\ r.meta.value # 0 => RecordStart(r.position, r.meta.value) > End(objects)

\* Where the drive is after a search that has ended orderly; it goes back in front of the end
\* of data.
EndsAt(type, r) == IF type = "end-of-data" /\ r.what = "found" THEN r.position - 2 ELSE r.position

Way(type, r, c) ==
    /\ r.what \in Orderly => Tracked(EndsAt(type, r), r.location, c)
    /\ type = "block" /\ r.what = "found" => (\E k : IsBlock(r, c, k)) \/ BlockBeyond(r)

\* Behind an object are the next one, the end of data or what follows.
LEMMA BehindObject ==
    ASSUME Known, NEW c \in Int, NEW r, NEW k, IsNext(r, c, k), NEW n, n = Len(objects[k])
    PROVE  /\ Behind1(r) = Offset(objects)[k] /\ r.location = c + k /\ k \in 1 .. Len(objects)
           /\ n = 0 => r.position = Offset(objects)[k]
           /\ n \in Nat /\ r.meta = MetaData(Good, n) /\ (n = 0 <=> objects[k] = <<>>)
           /\ AtObject(Behind1(r), r.location, c)
<1>1. PICK p : p = Offset(objects)[k - 1]
    OBVIOUS
<1>2. PICK q : q = Offset(objects)[k]
    OBVIOUS
<1>3. ObjectFrom(k, p, q, n) /\ r.position = p + 2 /\ r.meta = MetaData(Good, n) /\ r.location = c + k
    BY <1>1, <1>2 DEF IsNext, ObjectFrom, ObjectMeta
<1>4. /\ p \in Nat /\ q \in Nat /\ n \in Nat /\ k \in 0 .. Len(objects)
      /\ n # 0 => q = p + Pad(n) + 4
      /\ n = 0 => q = p + 2
    BY <1>3, ObjectAt
<1>5. PICK m : m = MetaData(Good, n)
    OBVIOUS
<1>6. (n # 0 => RecordTail(m) = Pad(n) + 2) /\ (n = 0 => RecordTail(m) = 0)
    BY <1>4, <1>5, ObjectMetaSays
<1>7. Pad(n) \in Nat
    BY <1>4, Padded DEF EvenNumbers
<1>8. Behind1(r) = q
  <2>1. CASE n = 0
      BY <2>1, <1>3, <1>4, <1>5, <1>6 DEF Behind1
  <2>2. CASE n # 0
    <3>1. PICK t \in Nat : t = Pad(n)
        BY <1>7
    <3>2. q = p + t + 4 /\ Behind1(r) = p + 2 + (t + 2)
        BY <2>2, <3>1, <1>3, <1>4, <1>5, <1>6 DEF Behind1
    <3>. QED  BY <3>1, <3>2, <1>4
  <2>. QED  BY <2>1, <2>2
<1>9. n = 0 => r.position = q
    BY <1>3, <1>4
<1>10. At1(q, r.location, c, k)
    BY <1>2, <1>3, <1>4 DEF At1
<1>11. objects[k] \in Seq(Nat)
    BY <1>3, KnownSays DEF ObjectFrom, Objects
<1>12. n = 0 <=> objects[k] = <<>>
    BY <1>11
<1>. QED  BY <1>2, <1>3, <1>4, <1>8, <1>9, <1>10, <1>12 DEF AtObject, ObjectFrom

LEMMA BehindBeyond ==
    ASSUME Known, NEW r \in Results, IsBeyond(r)
    PROVE  /\ Behind1(r) > End(objects) /\ r.position > End(objects)
           /\ r.meta.value # 0 /\ r.what = "object" => RecordStart(Behind1(r), r.meta.value) > End(objects)
           /\ r.what # "object" => r.position - 2 > End(objects)
<1>1. PICK e \in Int : e = End(objects)
    BY KnownSays
<1>2. r.position \in Int /\ r.meta \in Metas /\ r.meta.value \in Nat /\ r.position > e
    BY <1>1 DEF Results, Metas, IsBeyond
<1>3. PICK v \in Nat : v = r.meta.value
    BY <1>2
<1>4. PICK t \in Nat : t = RecordTail(r.meta)
    BY <1>2, TailType
<1>5. Behind1(r) = r.position + t
    BY <1>4 DEF Behind1
<1>6. Behind1(r) > e
    BY <1>2, <1>4, <1>5
<1>7. ASSUME v # 0, r.what = "object"
      PROVE  RecordStart(Behind1(r), v) > e
  <2>1. IsRecord(r.meta)
      BY <1>3, <1>7 DEF IsBeyond, IsRecord
  <2>2. PICK x \in Nat : x = Pad(v)
      BY Padded DEF EvenNumbers
  <2>3. t = x + 2 /\ v <= x
      BY <1>3, <1>4, <2>1, <2>2, Padded DEF RecordTail, META_DATA_SIZE
  <2>4. RecordStart(Behind1(r), v) = (r.position + t) - (v + 2)
      BY <1>5 DEF RecordStart, META_DATA_SIZE
  <2>5. PICK a \in Int : a = r.position
      BY <1>2
  <2>6. RecordStart(Behind1(r), v) = (a + t) - (v + 2) /\ a > e
      BY <1>2, <2>4, <2>5
  <2>7. (a + t) - (v + 2) > e
      BY <1>1, <1>3, <1>4, <2>2, <2>3, <2>5, <2>6
  <2>. QED  BY <2>6, <2>7
<1>. QED  BY <1>1, <1>2, <1>3, <1>6, <1>7 DEF IsBeyond

LEMMA PassedTracked ==
    ASSUME Known, NEW c \in Int, NEW r \in Results, HasAhead(r, c), r.what = "object"
    PROVE  Tracked(Behind1(r), r.location, c)
<1>1. CASE \E k : IsNext(r, c, k)
  <2>1. PICK k : IsNext(r, c, k)
      BY <1>1
  <2>2. PICK n : n = Len(objects[k])
      OBVIOUS
  <2>. QED  BY <2>1, <2>2, BehindObject DEF Tracked
<1>2. CASE IsBeyond(r)
    BY <1>2, BehindBeyond DEF IsBeyond, Tracked, Outside
<1>3. ~IsEnd(r, c)
    BY DEF IsEnd
<1>. QED  BY <1>1, <1>2, <1>3 DEF HasAhead

LEMMA StoppedAtNext ==
    ASSUME Known, NEW type, NEW read, NEW n, NEW c \in Int, NEW r \in Results, NEW k, IsNext(r, c, k),
           ~Passes(type, read, n, r), NEW w, w = Stopped(type, read, r)
    PROVE  Way(type, w, c)
<1>1. PICK b : b = Len(objects[k])
    OBVIOUS
<1>2. /\ Behind1(r) = Offset(objects)[k] /\ r.location = c + k /\ k \in 1 .. Len(objects)
      /\ b = 0 => r.position = Offset(objects)[k]
      /\ b \in Nat /\ r.meta = MetaData(Good, b) /\ (b = 0 <=> objects[k] = <<>>)
      /\ AtObject(Behind1(r), r.location, c)
    BY <1>1, BehindObject
<1>3. r.what = "object" /\ r.meta = ObjectMeta(k) /\ r.meta # MetaData(Bad, 0)
    BY <1>2, ObjectMetaSays DEF IsNext
<1>4. (Kind(r) = "filemark" <=> b = 0) /\ Kind(r) \in {"filemark", "block"}
    BY <1>2, <1>3, ObjectMetaSays DEF Kind
<1>5. type # "end-of-data"
    BY <1>3, <1>4 DEF Passes
<1>6. CASE Kind(r) = "filemark" /\ type = "block"
  <2>1. w = [r EXCEPT !.what = "filemark"]
      BY <1>3, <1>6 DEF Stopped
  <2>2. w.what = "filemark" /\ w.position = r.position /\ w.location = r.location
      BY <2>1 DEF Results
  <2>3. AtObject(w.position, w.location, c)
      BY <2>2, <1>2, <1>4, <1>6
  <2>. QED  BY <2>2, <2>3, <1>5 DEF Way, EndsAt, Tracked
<1>7. CASE ~(Kind(r) = "filemark" /\ type = "block")
  <2>1. w = Found("found", Behind1(r), r.location, r.meta)
      BY <1>3, <1>7 DEF Stopped
  <2>2. w.what = "found" /\ w.position = Behind1(r) /\ w.location = r.location /\ w.meta = r.meta
      BY <2>1 DEF Found
  <2>3. type = "block" => IsBlock(w, c, k)
      BY <2>2, <1>2, <1>3, <1>4, <1>7 DEF IsBlock
  <2>. QED  BY <2>2, <2>3, <1>2, <1>5 DEF Way, EndsAt, Tracked
<1>. QED  BY <1>6, <1>7

LEMMA StoppedAtEnd ==
    ASSUME Known, NEW type, NEW read, NEW c \in Int, NEW r \in Results, IsEnd(r, c),
           NEW w, w = Stopped(type, read, r)
    PROVE  Way(type, w, c)
<1>1. r.what \in {"end-of-data", "end-of-medium"} /\ r.what # "object" /\ Kind(r) = r.what
    BY DEF IsEnd, Kind
<1>2. CASE r.what = "end-of-medium"
  <2>1. w = r
      BY <1>1, <1>2 DEF Stopped
  <2>. QED  BY <2>1, <1>2 DEF Way, Orderly
<1>3. CASE r.what = "end-of-data"
  <2>1. PICK e \in Nat : e = End(objects)
      BY KnownSays
  <2>2. r.position = e + 2 /\ r.location = c + Len(objects) /\ r.position - 2 = e
      BY <1>3, <2>1 DEF IsEnd
  <2>3. Tracked(e, r.location, c)
    <3>1. At1(e, r.location, c, Len(objects))
        BY <2>1, <2>2, KnownSays DEF At1, End
    <3>. QED  BY <3>1, KnownSays DEF Tracked, AtObject, At1
  <2>4. CASE type = "end-of-data"
    <3>1. w = [r EXCEPT !.what = "found"]
        BY <1>1, <1>3, <2>4 DEF Stopped
    <3>2. w.what = "found" /\ w.position = r.position /\ w.location = r.location
        BY <3>1 DEF Results
    <3>. QED  BY <3>2, <2>2, <2>3, <2>4 DEF Way, EndsAt
  <2>5. CASE type # "end-of-data"
    <3>1. w = [r EXCEPT !.position = @ - 2]
        BY <1>1, <1>3, <2>5 DEF Stopped
    <3>2. w.what = "end-of-data" /\ w.position = e /\ w.location = r.location
        BY <3>1, <1>3, <2>2 DEF Results
    <3>. QED  BY <3>2, <2>3, <2>5 DEF Way, EndsAt
  <2>. QED  BY <2>4, <2>5
<1>. QED  BY <1>1, <1>2, <1>3

LEMMA StoppedBeyond ==
    ASSUME Known, NEW type, NEW read, read => type = "block", NEW n, NEW c, NEW r \in Results, IsBeyond(r),
           ~Passes(type, read, n, r), NEW w, w = Stopped(type, read, r)
    PROVE  Way(type, w, c)
<1>1. /\ torn /\ Behind1(r) > End(objects) /\ r.position > End(objects)
      /\ r.meta.value # 0 /\ r.what = "object" => RecordStart(Behind1(r), r.meta.value) > End(objects)
      /\ r.what # "object" => r.position - 2 > End(objects)
      /\ r.what \in {"object", "end-of-data", "end-of-medium"}
    BY BehindBeyond DEF IsBeyond
<1>2. CASE r.what = "object" /\ read /\ r.meta = MetaData(Bad, 0)
  <2>1. w = [r EXCEPT !.what = "found"]
      BY <1>2 DEF Stopped
  <2>2. w.what = "found" /\ w.position = r.position /\ w.meta.value = 0 /\ type = "block"
      BY <2>1, <1>2 DEF Results, MetaData
  <2>. QED  BY <2>2, <1>1 DEF Way, EndsAt, Tracked, Outside, BlockBeyond
<1>3. CASE /\ ~(r.what = "object" /\ read /\ r.meta = MetaData(Bad, 0))
           /\ Kind(r) = "filemark" /\ type = "block"
  <2>1. w = [r EXCEPT !.what = "filemark"]
      BY <1>3 DEF Stopped
  <2>2. w.what = "filemark" /\ w.position = r.position
      BY <2>1 DEF Results
  <2>. QED  BY <2>2, <1>1 DEF Way, EndsAt, Tracked, Outside
<1>4. CASE /\ r.what = "object" /\ ~(read /\ r.meta = MetaData(Bad, 0))
           /\ ~(Kind(r) = "filemark" /\ type = "block")
  <2>1. w = Found("found", Behind1(r), r.location, r.meta)
      BY <1>4 DEF Stopped
  <2>2. w.what = "found" /\ w.position = Behind1(r) /\ w.meta = r.meta
      BY <2>1 DEF Found
  <2>3. Kind(r) \in {"filemark", "block"}
      BY <1>4 DEF Kind
  <2>4. type # "end-of-data"
      BY <1>4, <2>3 DEF Passes
  <2>. QED  BY <2>2, <2>4, <1>1, <1>4 DEF Way, EndsAt, Tracked, Outside, BlockBeyond
<1>5. CASE r.what = "end-of-data" /\ type = "end-of-data"
  <2>1. w = [r EXCEPT !.what = "found"]
      BY <1>5 DEF Stopped, Kind
  <2>2. w.what = "found" /\ w.position = r.position
      BY <2>1 DEF Results
  <2>. QED  BY <2>2, <1>1, <1>5 DEF Way, EndsAt, Tracked, Outside
<1>6. CASE r.what = "end-of-data" /\ type # "end-of-data"
  <2>1. w = [r EXCEPT !.position = @ - 2]
      BY <1>6 DEF Stopped, Kind
  <2>2. w.what = "end-of-data" /\ w.position = r.position - 2
      BY <2>1, <1>6 DEF Results
  <2>. QED  BY <2>2, <1>1, <1>6 DEF Way, EndsAt, Tracked, Outside
<1>7. CASE r.what = "end-of-medium"
  <2>1. w = r
      BY <1>7 DEF Stopped, Kind
  <2>. QED  BY <2>1, <1>7 DEF Way, Orderly
<1>8. Kind(r) = "filemark" => r.what = "object"
    BY <1>1 DEF Kind
<1>. QED  BY <1>1, <1>2, <1>3, <1>4, <1>5, <1>6, <1>7, <1>8

LEMMA StoppedWay ==
    ASSUME Known, NEW type, NEW read, read => type = "block", NEW n, NEW c \in Int, NEW r \in Results,
           HasAhead(r, c), ~Passes(type, read, n, r), NEW w, w = Stopped(type, read, r)
    PROVE  Way(type, w, c)
<1>1. CASE \E k : IsNext(r, c, k)
  <2>1. PICK k : IsNext(r, c, k)
      BY <1>1
  <2>. QED  BY <2>1, StoppedAtNext
<1>2. CASE IsEnd(r, c)
    BY <1>2, StoppedAtEnd
<1>3. CASE IsBeyond(r)
    BY <1>3, StoppedBeyond
<1>. QED  BY <1>1, <1>2, <1>3 DEF HasAhead

\* A search forwards that begins in front of an object ends there, too.
LEMMA FoundForward ==
    ASSUME Known, NEW d \in Drives, NEW c \in Int, Tracked(d.position, d.location, c),
           NEW type, NEW count \in Int, NEW read, read => type = "block",
           NEW w, w = FindForward(d, type, count, read)
    PROVE  w \in Results /\ Way(type, w, c)
<1>0. FileOK(file, size)
    BY KnownSays
<1>1. PICK f \in [Searches -> Results] :
          /\ w = f[From(d, count)]
          /\ Solves(f, Searches, ForwardStop(type, read), ForwardStep(type, read), ForwardFound(type, read))
    BY <1>0, FindForwardSays
<1>2. Descends(Searches, size, SearchLeft, ForwardStop(type, read), ForwardStep(type, read)) /\ size \in Nat
    BY <1>0, ForwardWalk, Sizes DEF FileOK
<1>. DEFINE S == {x \in Searches : Tracked(x[1], x[2], c) => Way(type, f[x], c)}
<1>3. ASSUME NEW x \in ForwardStop(type, read)
      PROVE  x \in S
  <2>1. PICK r : r = Ahead(x)
      OBVIOUS
  <2>2. x \in Searches /\ ~Passes(type, read, x[3], r) /\ f[x] = Stopped(type, read, r)
      BY <1>1, <2>1 DEF Solves, ForwardStop, ForwardFound
  <2>3. r \in Results
      BY <1>0, <2>1, <2>2, AheadType
  <2>4. ASSUME Tracked(x[1], x[2], c)
        PROVE  Way(type, f[x], c)
    <3>1. HasAhead(r, c)
        BY <2>1, <2>2, <2>4, AheadOf
    <3>. QED  BY <2>2, <2>3, <3>1, StoppedWay
  <2>. QED  BY <2>2, <2>4
<1>4. ASSUME NEW x \in Searches \ ForwardStop(type, read), ForwardStep(type, read)[x] \in S
      PROVE  x \in S
  <2>1. PICK r : r = Ahead(x)
      OBVIOUS
  <2>2. PICK y : y = <<Behind1(r), r.location, Fewer(type, x[3], r)>>
      OBVIOUS
  <2>3. Passes(type, read, x[3], r) /\ f[x] = f[y] /\ y \in S
      BY <1>1, <1>4, <2>1, <2>2 DEF Solves, ForwardStop, ForwardStep
  <2>4. r \in Results /\ r.what = "object"
      BY <1>0, <2>1, <2>3, AheadType DEF Passes
  <2>5. ASSUME Tracked(x[1], x[2], c)
        PROVE  Way(type, f[x], c)
    <3>1. HasAhead(r, c)
        BY <2>1, <2>5, AheadOf
    <3>2. Tracked(Behind1(r), r.location, c)
        BY <2>4, <3>1, PassedTracked
    <3>3. Tracked(y[1], y[2], c)
        BY <2>2, <3>2
    <3>. QED  BY <2>3, <3>3
  <2>. QED  BY <2>5
<1>5. \A x \in ForwardStop(type, read) : x \in S
    BY <1>3
<1>. HIDE DEF S
<1>6. \A x \in Searches : x \in S
    BY <1>2, <1>4, <1>5, WalkInduction
<1>7. PICK x : x = From(d, count)
    OBVIOUS
<1>8. x \in Searches /\ x[1] = d.position /\ x[2] = d.location
    BY <1>7 DEF From, Searches, Drives
<1>9. x \in S /\ w = f[x]
    BY <1>1, <1>6, <1>7, <1>8
<1>. QED  BY <1>1, <1>8, <1>9 DEF S

\* An object that LOCATE has found is counted from the beginning of the tape.
LEMMA FoundObject ==
    ASSUME Known, NEW identifier \in Nat, NEW w, w = FindObject(identifier), w.what = "found"
    PROVE  Tracked(w.position, w.location, 0)
<1>0. FileOK(file, size) /\ objects \in Objects /\ Len(objects) \in Nat
    BY KnownSays
<1>1. identifier \in Int
    OBVIOUS
<1>2. PICK f : w = f[<<0, 0, identifier>>] /\ Solves(f, Searches, ObjectStop, ObjectStep, ObjectFound)
    BY <1>0, <1>1, FindObjectSays
<1>3. Descends(Searches, size, SearchLeft, ObjectStop, ObjectStep) /\ size \in Nat
    BY <1>0, ObjectWalk, Sizes DEF FileOK
<1>. DEFINE Goal(r) == r.what = "found" => Tracked(r.position, r.location, 0)
            S == {x \in Searches : Tracked(x[1], x[2], 0) => Goal(f[x])}
<1>4. ASSUME NEW x \in ObjectStop
      PROVE  x \in S
  <2>1. PICK r : r = Ahead(x)
      OBVIOUS
  <2>2. /\ x \in Searches /\ (x[3] = 0 \/ r.what # "object")
        /\ f[x] = IF x[3] = 0 THEN Found("found", x[1], x[2], At(x[1])) ELSE r
      BY <1>2, <2>1 DEF Solves, ObjectStop, ObjectFound
  <2>3. ASSUME Tracked(x[1], x[2], 0)
        PROVE  Goal(f[x])
    <3>1. CASE x[3] = 0
        BY <2>2, <2>3, <3>1 DEF Found
    <3>2. CASE x[3] # 0
      <4>1. HasAhead(r, 0)
          BY <2>1, <2>2, <2>3, AheadOf
      <4>2. r.what # "found"
          BY <4>1 DEF HasAhead, IsNext, IsEnd, IsBeyond
      <4>. QED  BY <2>2, <3>2, <4>2
    <3>. QED  BY <3>1, <3>2
  <2>. QED  BY <2>2, <2>3
<1>5. ASSUME NEW x \in Searches \ ObjectStop, ObjectStep[x] \in S
      PROVE  x \in S
  <2>1. PICK r : r = Ahead(x)
      OBVIOUS
  <2>2. PICK y : y = <<Behind1(r), r.location, x[3] - 1>>
      OBVIOUS
  <2>3. r.what = "object" /\ f[x] = f[y] /\ y \in S
      BY <1>2, <1>5, <2>1, <2>2 DEF Solves, ObjectStop, ObjectStep
  <2>4. r \in Results
      BY <1>0, <2>1, AheadType
  <2>5. ASSUME Tracked(x[1], x[2], 0)
        PROVE  Goal(f[x])
    <3>1. HasAhead(r, 0)
        BY <2>1, <2>5, AheadOf
    <3>2. Tracked(Behind1(r), r.location, 0)
        BY <2>3, <2>4, <3>1, PassedTracked
    <3>3. Tracked(y[1], y[2], 0)
        BY <2>2, <3>2
    <3>. QED  BY <2>3, <3>3
  <2>. QED  BY <2>5
<1>6. \A x \in ObjectStop : x \in S
    BY <1>4
<1>. HIDE DEF S
<1>7. \A x \in Searches : x \in S
    BY <1>3, <1>5, <1>6, WalkInduction
<1>8. PICK x : x = <<0, 0, identifier>>
    OBVIOUS
<1>9. x \in Searches /\ x[1] = 0 /\ x[2] = 0
    BY <1>8 DEF Searches
<1>10. Tracked(0, 0, 0)
  <2>1. At1(0, 0, 0, 0) /\ 0 \in 0 .. Len(objects)
      BY <1>0, Offsets DEF At1
  <2>. QED  BY <2>1 DEF Tracked, AtObject
<1>11. x \in S /\ w = f[x]
    BY <1>2, <1>7, <1>8, <1>9
<1>. QED  BY <1>9, <1>10, <1>11 DEF S

-----------------------------------------------------------------------------
(* Searches backwards                                                      *)

\* The result of a search backwards: the beginning of the tape is always known.
Begins(r) == r.what = "begin-of-medium" => r.position = 0 /\ r.location = 0

WayBack(r, c) == r.what \in Orderly /\ r.what # "begin-of-medium" => AtObject(r.position, r.location, c)

LEMMA PreviousBegins ==
    ASSUME FileOK(file, size), NEW x \in Places
    PROVE  Begins(PreviousObject[x])
<1>. DEFINE S == {y \in Places : Begins(PreviousObject[y])}
<1>1. ASSUME NEW y \in PreviousStop
      PROVE  y \in S
  <2>1. y \in Places /\ PreviousObject[y] = PreviousFound[y]
      BY PreviousObjectSays DEF PreviousStop
  <2>2. CASE y[1] - 2 < 0
      BY <2>1, <2>2 DEF PreviousFound, Found, Begins
  <2>3. CASE ~(y[1] - 2 < 0)
    <3>1. PICK m : m = At(y[1] - 2)
        OBVIOUS
    <3>2. Meaning(m) # "skip"
        BY <2>3, <3>1 DEF PreviousStop
    <3>3. PreviousFound[y].what = Meaning(m)
        BY <2>1, <2>3, <3>1 DEF PreviousFound, Found
    <3>. QED  BY <2>1, <3>2, <3>3, MeaningSays DEF Begins
  <2>. QED  BY <2>2, <2>3
<1>2. ASSUME NEW y \in Places \ PreviousStop, PreviousStep[y] \in S
      PROVE  y \in S
    BY <1>2, PreviousObjectSays
<1>3. \A y \in PreviousStop : y \in S
    BY <1>1
<1>. HIDE DEF S
<1>4. x \in S
    BY <1>2, <1>3, PreviousWalk, WalkInduction
<1>. QED  BY <1>4 DEF S

\* Object k has been found.
IsPrevious(r, c, k) ==
    /\ k \in 1 .. Len(objects) /\ r.what = "object" /\ r.meta = ObjectMeta(k)
    /\ At1(r.position, r.location, c, k - 1)

HasBefore(r, c) == (\E k : IsPrevious(r, c, k)) \/ r.what = "begin-of-medium"

LEMMA BeforeObject ==
    ASSUME Known, NEW x \in Searches, NEW c \in Int, AtObject(x[1], x[2], c), NEW r, r = Before(x)
    PROVE  HasBefore(r, c)
<1>0. FileOK(file, size) /\ Len(objects) \in Nat /\ objects \in Objects
    BY KnownSays
<1>1. /\ x[1] \in Int /\ x[2] \in Int /\ <<x[1], x[2]>> \in Places /\ r = PreviousObject[<<x[1], x[2]>>]
    BY <1>0, AheadType DEF Before
<1>2. PICK k : At1(x[1], x[2], c, k)
    BY DEF AtObject
<1>3. k \in 0 .. Len(objects) /\ x[1] = Offset(objects)[k] /\ x[2] = c + k
    BY <1>2 DEF At1
<1>4. PICK y : y = <<x[1], x[2]>>
    OBVIOUS
<1>5. y \in Places /\ y[1] = x[1] /\ y[2] = x[2] /\ r = PreviousObject[y]
    BY <1>1, <1>4
<1>6. CASE k = 0
  <2>1. y[1] = 0
      BY <1>0, <1>3, <1>5, <1>6, Offsets
  <2>2. y \in PreviousStop /\ y[1] - 2 < 0
      BY <1>5, <2>1 DEF PreviousStop
  <2>3. r = Found("begin-of-medium", 0, 0, Nothing)
      BY <1>0, <1>5, <2>2, PreviousObjectSays DEF PreviousFound
  <2>. QED  BY <2>3 DEF HasBefore, Found
<1>7. CASE k # 0
  <2>1. k \in 1 .. Len(objects)
      BY <1>0, <1>3, <1>7
  <2>2. PICK p : p = Offset(objects)[k - 1]
      OBVIOUS
  <2>3. PICK n : n = Len(objects[k])
      OBVIOUS
  <2>4. PICK q : q = x[1]
      OBVIOUS
  <2>5. ObjectFrom(k, p, q, n)
      BY <1>3, <2>1, <2>2, <2>3, <2>4 DEF ObjectFrom
  <2>6. /\ p \in Nat /\ q \in Nat /\ n \in Nat /\ p + 2 <= q
        /\ At(q - 2) = MetaData(Good, n)
        /\ n # 0 => q = p + Pad(n) + 4
        /\ n = 0 => q = p + 2
        /\ k - 1 \in 0 .. Len(objects)
      BY <2>5, ObjectAt
  <2>7. PICK m : m = MetaData(Good, n)
      OBVIOUS
  <2>8. /\ Meaning(m) = "object" /\ Counted(m) = 1
        /\ n # 0 => RecordTail(m) = Pad(n) + 2
        /\ n = 0 => RecordTail(m) = 0
      BY <2>6, <2>7, ObjectMetaSays
  <2>9. ~(y[1] - 2 < 0) /\ y \in PreviousStop
    <3>1. ~(q - 2 < 0)
        BY <2>6
    <3>. QED  BY <3>1, <1>5, <2>4, <2>6, <2>7, <2>8 DEF PreviousStop
  <2>10. r = Found("object", q - 2 - RecordTail(m), x[2] - 1, m)
      BY <1>0, <1>5, <2>4, <2>6, <2>7, <2>8, <2>9, PreviousObjectSays DEF PreviousFound
  <2>11. q - 2 - RecordTail(m) = p
    <3>1. CASE n = 0
      <4>1. q = p + 2 /\ RecordTail(m) = 0
          BY <3>1, <2>6, <2>8
      <4>. QED  BY <4>1, <2>6
    <3>2. CASE n # 0
      <4>1. PICK t \in Nat : t = Pad(n)
          BY <2>6, Padded DEF EvenNumbers
      <4>2. q = p + t + 4 /\ RecordTail(m) = t + 2
          BY <3>2, <4>1, <2>6, <2>8
      <4>5. p \in Nat /\ q \in Nat
          BY <2>6
      <4>3. q - 2 - (t + 2) = p
          BY <4>1, <4>2, <4>5
      <4>. QED  BY <4>2, <4>3
    <3>. QED  BY <3>1, <3>2
  <2>12. x[2] - 1 = c + (k - 1)
      BY <1>3, <2>1
  <2>13. r.what = "object" /\ r.position = p /\ r.location = c + (k - 1) /\ r.meta = m
      BY <2>10, <2>11, <2>12 DEF Found
  <2>14. IsPrevious(r, c, k)
      BY <2>1, <2>2, <2>3, <2>6, <2>7, <2>13 DEF IsPrevious, At1, ObjectMeta
  <2>. QED  BY <2>14 DEF HasBefore
<1>. QED  BY <1>6, <1>7

LEMMA StoppedBackWay ==
    ASSUME NEW type, NEW c, NEW r \in Results, HasBefore(r, c), NEW w, w = StoppedBack(type, r)
    PROVE  WayBack(w, c)
<1>1. CASE r.what = "begin-of-medium"
  <2>1. w = r
      BY <1>1 DEF StoppedBack, Kind
  <2>. QED  BY <1>1, <2>1 DEF WayBack
<1>2. CASE \E k : IsPrevious(r, c, k)
  <2>1. r.what = "object" /\ AtObject(r.position, r.location, c)
      BY <1>2 DEF IsPrevious, AtObject, At1
  <2>2. w.position = r.position /\ w.location = r.location
    <3>1. CASE Kind(r) = "filemark" /\ type = "block"
      <4>1. w = [r EXCEPT !.what = "filemark"]
          BY <3>1 DEF StoppedBack
      <4>. QED  BY <4>1 DEF Results
    <3>2. CASE ~(Kind(r) = "filemark" /\ type = "block")
      <4>1. w = [r EXCEPT !.what = "found"]
          BY <3>2, <2>1 DEF StoppedBack
      <4>. QED  BY <4>1 DEF Results
    <3>. QED  BY <3>1, <3>2
  <2>. QED  BY <2>1, <2>2 DEF WayBack
<1>. QED  BY <1>1, <1>2 DEF HasBefore

LEMMA StoppedBackBegins ==
    ASSUME NEW type, NEW r \in Results, Begins(r), NEW w, w = StoppedBack(type, r)
    PROVE  Begins(w)
<1>1. CASE Kind(r) = "filemark" /\ type = "block"
  <2>1. w = [r EXCEPT !.what = "filemark"]
      BY <1>1 DEF StoppedBack
  <2>2. w.what = "filemark"
      BY <2>1 DEF Results
  <2>. QED  BY <2>2 DEF Begins
<1>2. CASE ~(Kind(r) = "filemark" /\ type = "block") /\ r.what = "object"
  <2>1. w = [r EXCEPT !.what = "found"]
      BY <1>2 DEF StoppedBack
  <2>2. w.what = "found"
      BY <2>1 DEF Results
  <2>. QED  BY <2>2 DEF Begins
<1>3. CASE ~(Kind(r) = "filemark" /\ type = "block") /\ r.what = "end-of-data"
  <2>1. w = [r EXCEPT !.position = @ - 2]
      BY <1>3 DEF StoppedBack
  <2>2. w.what = "end-of-data"
      BY <1>3, <2>1 DEF Results
  <2>. QED  BY <2>2 DEF Begins
<1>4. CASE ~(Kind(r) = "filemark" /\ type = "block") /\ r.what \notin {"object", "end-of-data"}
    BY <1>4 DEF StoppedBack
<1>. QED  BY <1>1, <1>2, <1>3, <1>4

LEMMA FoundBackward ==
    ASSUME Known, NEW d \in Drives, NEW type, NEW count \in Int, NEW w, w = FindBackward(d, type, count)
    PROVE  /\ w \in Results /\ Begins(w)
           /\ \A c \in Int : AtObject(d.position, d.location, c) => WayBack(w, c)
<1>0. FileOK(file, size)
    BY KnownSays
<1>1. PICK f : /\ w = f[From(d, count)]
               /\ Solves(f, Searches, BackStop(type), BackStep(type), BackFound(type))
               /\ \A x \in Searches : f[x] \in Results
    BY <1>0, FindBackwardSays
<1>2. Descends(Searches, size, SearchFront, BackStop(type), BackStep(type)) /\ size \in Nat
    BY <1>0, BackWalk, Sizes DEF FileOK
<1>. DEFINE Goal(x) == Begins(f[x]) /\ \A c \in Int : AtObject(x[1], x[2], c) => WayBack(f[x], c)
            S == {x \in Searches : Goal(x)}
<1>3. ASSUME NEW x \in BackStop(type)
      PROVE  x \in S
  <2>1. PICK r : r = Before(x)
      OBVIOUS
  <2>2. x \in Searches /\ f[x] = StoppedBack(type, r)
      BY <1>1, <2>1 DEF Solves, BackStop, BackFound
  <2>3. r \in Results /\ Begins(r)
    <3>1. r \in Results /\ <<x[1], x[2]>> \in Places
        BY <1>0, <2>1, <2>2, AheadType
    <3>. QED  BY <1>0, <2>1, <3>1, PreviousBegins DEF Before
  <2>4. Begins(f[x])
      BY <2>2, <2>3, StoppedBackBegins
  <2>5. ASSUME NEW c \in Int, AtObject(x[1], x[2], c)
        PROVE  WayBack(f[x], c)
    <3>1. HasBefore(r, c)
        BY <2>1, <2>2, <2>5, BeforeObject
    <3>. QED  BY <2>2, <2>3, <3>1, StoppedBackWay
  <2>. QED  BY <2>2, <2>4, <2>5
<1>4. ASSUME NEW x \in Searches \ BackStop(type), BackStep(type)[x] \in S
      PROVE  x \in S
  <2>1. PICK r : r = Before(x)
      OBVIOUS
  <2>2. PICK y : y = <<r.position, r.location, Fewer(type, x[3], r)>>
      OBVIOUS
  <2>3. PassesBack(type, x[3], r) /\ f[x] = f[y] /\ y \in S
      BY <1>1, <1>4, <2>1, <2>2 DEF Solves, BackStop, BackStep
  <2>4. r.what = "object"
      BY <2>3 DEF PassesBack
  <2>5. ASSUME NEW c \in Int, AtObject(x[1], x[2], c)
        PROVE  WayBack(f[x], c)
    <3>1. HasBefore(r, c)
        BY <2>1, <2>5, BeforeObject
    <3>2. AtObject(r.position, r.location, c)
        BY <2>4, <3>1 DEF HasBefore, IsPrevious, AtObject, At1
    <3>3. AtObject(y[1], y[2], c)
        BY <2>2, <3>2
    <3>. QED  BY <2>3, <2>5, <3>3
  <2>. QED  BY <2>3, <2>5
<1>5. \A x \in BackStop(type) : x \in S
    BY <1>3
<1>. HIDE DEF S
<1>6. \A x \in Searches : x \in S
    BY <1>2, <1>4, <1>5, WalkInduction
<1>7. PICK x : x = From(d, count)
    OBVIOUS
<1>8. x \in Searches /\ x[1] = d.position /\ x[2] = d.location
    BY <1>7 DEF From, Searches, Drives
<1>9. x \in S /\ w = f[x]
    BY <1>1, <1>6, <1>7, <1>8
<1>. QED  BY <1>1, <1>8, <1>9 DEF S

-----------------------------------------------------------------------------
(* Reading a chunk                                                         *)

\* Position p and location l are in front of an object of o or behind all of them; with u the
\* location is not known.
Aligned(o, p, l, u) == \E k \in 0 .. Len(o) : p = Offset(o)[k] /\ (u \/ l = k)

\* The drive d has found block k of o. A block of odd length is taken for one that starts with
\* its padding.
Within(o, d, k, u) ==
    /\ k \in 1 .. Len(o) /\ o[k] # <<>> /\ d.record = Len(o[k])
    /\ d.start = Offset(o)[k] - (d.record + 2) /\ (u \/ d.location = k)

\* Where the drive d is in a block
InPart(d) == d.bytes <= d.record /\ d.remaining <= d.bytes /\ d.position = d.start + (d.bytes - d.remaining)

InBlock(o, d, u) ==
    InPart(d) /\ 0 < d.remaining /\ d.remaining < d.bytes /\ \E k : Within(o, d, k, u)

\* The part of the file is in block k of o.
IsFrom(o, from, length, k) ==
    /\ k \in 1 .. Len(o) /\ from >= Offset(o)[k - 1] + 2
    /\ from + length <= Offset(o)[k - 1] + 2 + Len(o[k])

FromBlock(o, from, length) == \E k : IsFrom(o, from, length, k)

ReadError(w) == ~w.ok /\ w.what = "read-error"

\* The chunk has been read, and behind a block its trailing length.
ChunkRead(w, d, t, n) ==
    LET e == Filled(d, d.position + n, n)
        q == TrailingLength(e)
    IN  /\ w.ok /\ w.what = "done" /\ w.transfer = t /\ w.from = d.position /\ w.length = n
        /\ IF AtRecordBoundary(e)
           THEN q + 2 <= size /\ At(q).value = d.record /\ w.drive = Placed(e, q + 2)
           ELSE w.drive = e

LEMMA ReadChunkSays ==
    ASSUME FileOK(file, size), NEW d \in Drives, NEW t, NEW n \in Nat, NEW w, w = ReadChunk(d, t, n)
    PROVE  ReadError(w) \/ ChunkRead(w, d, t, n)
<1>1. PICK e : e = Filled(d, d.position + n, n)
    OBVIOUS
<1>2. PICK q : q = TrailingLength(e)
    OBVIOUS
<1>3. d.position + n \in Int /\ n \in Int
    BY DEF Drives
<1>4. e \in Drives
    BY <1>1, <1>3, FilledDrive
<1>5. q \in Int
    BY <1>2, <1>4 DEF TrailingLength, Pad, Drives
<1>. DEFINE Done(x) == [ok |-> TRUE, what |-> "done", drive |-> x, transfer |-> t,
                        from |-> d.position, length |-> n]
<1>6. PICK a : a = [Done(e) EXCEPT !.drive.position = q + META_DATA_SIZE]
    OBVIOUS
<1>7. a.ok /\ a.what = "done" /\ a.transfer = t /\ a.from = d.position /\ a.length = n
    BY <1>6
<1>8. a.drive = Placed(e, q + 2)
    BY <1>6 DEF Placed, META_DATA_SIZE
<1>9. w = IF d.position + n > size THEN Failed("read-error", d, t)
          ELSE IF ~AtRecordBoundary(e) THEN Done(e)
          ELSE IF q + META_DATA_SIZE > size THEN Failed("read-error", Placed(e, q), t)
          ELSE IF At(q).value # d.record THEN Failed("read-error", Placed(e, q + META_DATA_SIZE), t)
          ELSE a
    BY <1>1, <1>2, <1>6 DEF ReadChunk, Filled, Placed
<1>10. \A x : ReadError(Failed("read-error", x, t))
    BY DEF ReadError, Failed
<1>11. /\ Done(e).ok /\ Done(e).what = "done" /\ Done(e).transfer = t /\ Done(e).from = d.position
       /\ Done(e).length = n /\ Done(e).drive = e
    OBVIOUS
<1>. HIDE DEF Done
<1>12. CASE d.position + n > size
    BY <1>9, <1>10, <1>12
<1>13. CASE ~(d.position + n > size) /\ ~AtRecordBoundary(e)
    BY <1>1, <1>9, <1>11, <1>13 DEF ChunkRead
<1>14. CASE ~(d.position + n > size) /\ AtRecordBoundary(e)
  <2>1. CASE q + META_DATA_SIZE > size \/ At(q).value # d.record
      BY <1>9, <1>10, <1>14, <2>1
  <2>2. CASE ~(q + META_DATA_SIZE > size \/ At(q).value # d.record)
    <3>1. w = a
        BY <1>9, <1>14, <2>2
    <3>2. size \in Int
        BY Sizes DEF FileOK
    <3>3. q + 2 <= size
        BY <1>5, <2>2, <3>2 DEF META_DATA_SIZE
    <3>. QED  BY <1>1, <1>2, <1>7, <1>8, <1>14, <2>2, <3>1, <3>3 DEF ChunkRead
  <2>. QED  BY <2>1, <2>2
<1>. QED  BY <1>12, <1>13, <1>14

LEMMA FilledPart ==
    ASSUME NEW d \in Drives, NEW p \in Int, NEW n \in Int
    PROVE  /\ Filled(d, p, n).start = d.start
           /\ \A q \in Int : /\ Placed(Filled(d, p, n), q).start = d.start
                             /\ Placed(Filled(d, p, n), q).remaining = d.remaining - n
BY DEF Filled, Placed, Drives

\* What follows a block in the file, and where its data begin
LEMMA BlockInFile ==
    ASSUME Known, NEW d \in Drives, NEW k, NEW u, Within(objects, d, k, u),
           NEW q, q = d.start + Pad(d.record), At(q).value = d.record, q + 2 <= size
    PROVE  d.record % 2 = 0 /\ q + 2 = Offset(objects)[k] /\ k \in 0 .. Len(objects)
<1>1. PICK p : p = Offset(objects)[k - 1]
    OBVIOUS
<1>2. PICK e : e = Offset(objects)[k]
    OBVIOUS
<1>3. PICK n : n = Len(objects[k])
    OBVIOUS
<1>4. ObjectFrom(k, p, e, n)
    BY <1>1, <1>2, <1>3 DEF ObjectFrom, Within
<1>5. /\ p \in Nat /\ e \in Nat /\ n \in Nat /\ e <= size /\ At(e - 2) = MetaData(Good, n)
      /\ n # 0 => e = p + Pad(n) + 4
      /\ k \in 0 .. Len(objects)
    BY <1>4, ObjectAt
<1>6. objects[k] \in Seq(Nat) /\ objects[k] # <<>>
    BY <1>4, KnownSays DEF ObjectFrom, Objects, Within
<1>7. n # 0 /\ n = d.record /\ d.start = e - (n + 2)
    BY <1>2, <1>3, <1>5, <1>6 DEF Within
<1>8. size \in Int
    BY KnownSays, Sizes DEF FileOK
<1>9. n % 2 = 0
  <2>1. SUFFICES ASSUME n % 2 # 0
                 PROVE  FALSE
      OBVIOUS
  <2>2. Pad(n) = n + 1
      BY <1>5, <2>1, Padded
  <2>3. q = e - 1
      BY <1>5, <1>7, <2>2
  <2>4. At(q) = MetaData(file[q + 1], file[q])
      BY <2>3, <1>5 DEF At, META_DATA_SIZE
  <2>5. file[e - 1] = n
      BY <1>7, <2>3, <2>4 DEF MetaData
  <2>6. At(e - 2) = MetaData(file[e - 1], file[e - 2])
    <3>1. e - 2 + 2 <= size /\ e - 2 + 1 = e - 1
        BY <1>5, <1>8
    <3>. QED  BY <3>1 DEF At, META_DATA_SIZE
  <2>7. file[e - 1] = Good
      BY <1>5, <2>6 DEF MetaData
  <2>. QED  BY <1>7, <2>5, <2>7 DEF Good
<1>10. Pad(n) = n
    BY <1>5, <1>9, Padded
<1>11. q + 2 = e
  <2>1. q = d.start + n
      BY <1>7, <1>10
  <2>2. q = (e - (n + 2)) + n
      BY <1>7, <2>1
  <2>. QED  BY <1>5, <2>2
<1>. QED  BY <1>2, <1>5, <1>7, <1>9, <1>11

LEMMA BlockData ==
    ASSUME Known, NEW d \in Drives, NEW k, NEW u, Within(objects, d, k, u), d.record % 2 = 0,
           NEW from \in Int, NEW length \in Nat, from >= d.start, from + length <= d.start + d.record
    PROVE  FromBlock(objects, from, length)
<1>1. PICK p : p = Offset(objects)[k - 1]
    OBVIOUS
<1>2. PICK e : e = Offset(objects)[k]
    OBVIOUS
<1>3. PICK n : n = Len(objects[k])
    OBVIOUS
<1>4. ObjectFrom(k, p, e, n)
    BY <1>1, <1>2, <1>3 DEF ObjectFrom, Within
<1>5. /\ p \in Nat /\ e \in Nat /\ n \in Nat
      /\ n # 0 => e = p + Pad(n) + 4
    BY <1>4, ObjectAt
<1>6. objects[k] \in Seq(Nat) /\ objects[k] # <<>>
    BY <1>4, KnownSays DEF ObjectFrom, Objects, Within
<1>0. n # 0 /\ n = d.record /\ d.start = e - (n + 2)
    BY <1>2, <1>3, <1>5, <1>6 DEF Within
<1>7. n # 0 /\ n = d.record /\ d.start = e - (n + 2) /\ n % 2 = 0
    BY <1>0
<1>8. Pad(n) = n
    BY <1>5, <1>7, Padded
<1>9. e = p + n + 4
    BY <1>5, <1>7, <1>8
<1>10. d.start = p + 2
    BY <1>5, <1>7, <1>9
<1>11. IsFrom(objects, from, length, k)
    BY <1>1, <1>3, <1>4, <1>7, <1>10 DEF IsFrom, ObjectFrom
<1>. QED  BY <1>11 DEF FromBlock

\* The next n bytes are in the block, or in fixed mode the block is read from its beginning.
CanRead(d, n) ==
    /\ ~d.initial
    /\ d.fixed => d.position = d.start /\ n <= BlockSize
    /\ ~d.fixed => InPart(d) /\ 0 < n /\ n <= d.remaining

LEMMA ReadBoundary ==
    ASSUME ~tar, NEW d \in Drives, NEW n \in Nat, CanRead(d, n), NEW e, e = Filled(d, d.position + n, n)
    PROVE  AtRecordBoundary(e) <=> d.fixed \/ d.remaining = n
<1>1. d.position + n \in Int /\ n \in Int
    BY DEF Drives
<1>2. /\ e.fixed = d.fixed /\ ~e.initial /\ e.remaining = d.remaining - n
      /\ e.bytes = d.bytes /\ e.record = d.record
    BY <1>1, FilledDrive DEF CanRead
<1>3. AtRecordBoundary(e) <=> d.fixed \/ d.remaining - n = 0 \/ d.bytes - (d.remaining - n) = d.record
    BY <1>2 DEF AtRecordBoundary
<1>4. CASE d.fixed
    BY <1>3, <1>4
<1>5. CASE ~d.fixed
  <2>1. PICK a \in Nat : a = d.record
      BY DEF Drives
  <2>2. PICK b \in Nat : b = d.bytes
      BY DEF Drives
  <2>3. PICK m \in Int : m = d.remaining
      BY DEF Drives
  <2>4. b <= a /\ m <= b /\ 0 < n /\ n <= m
      BY <1>5, <2>1, <2>2, <2>3 DEF CanRead, InPart
  <2>5. m - n = 0 \/ b - (m - n) = a <=> m = n
      BY <2>4
  <2>. QED  BY <1>3, <1>5, <2>1, <2>2, <2>3, <2>5
<1>. QED  BY <1>4, <1>5

\* Reading in a block goes on in the same block until it is complete. Then the drive is behind it.
LEMMA ChunkInBlock ==
    ASSUME Known, ~tar, NEW d \in Drives, NEW n \in Nat, CanRead(d, n), NEW k, NEW u \in BOOLEAN,
           Within(objects, d, k, u), NEW t, NEW w, ChunkRead(w, d, t, n)
    PROVE  /\ w.drive.fixed = d.fixed /\ w.drive.record = d.record /\ ~w.drive.initial
           /\ w.drive.remaining = d.remaining - n
           /\ d.fixed \/ d.remaining = n => Aligned(objects, w.drive.position, w.drive.location, u)
           /\ ~(d.fixed \/ d.remaining = n) => InBlock(objects, w.drive, u)
           /\ d.record % 2 = 0 /\ (d.fixed => d.record = BlockSize) => FromBlock(objects, w.from, w.length)
<1>1. PICK e : e = Filled(d, d.position + n, n)
    OBVIOUS
<1>2. PICK q : q = TrailingLength(e)
    OBVIOUS
<1>3. d.position + n \in Int /\ n \in Int
    BY DEF Drives
<1>4. /\ e \in Drives /\ e.position = d.position + n /\ e.location = d.location
      /\ e.record = d.record /\ e.remaining = d.remaining - n
      /\ e.bytes = d.bytes /\ e.fixed = d.fixed /\ ~e.initial
      /\ e.start = d.start
    BY <1>1, <1>3, FilledDrive, FilledPart DEF CanRead
<1>5. w.from = d.position /\ w.length = n
    BY DEF ChunkRead
<1>6. q \in Int /\ q = d.start + Pad(d.record) /\ q + 2 \in Int
  <2>1. q = d.start + Pad(d.record)
      BY <1>2, <1>4 DEF TrailingLength
  <2>2. d.start \in Int /\ Pad(d.record) \in Nat
      BY Padded DEF Drives, EvenNumbers
  <2>. QED  BY <2>1, <2>2
<1>7. ASSUME d.record % 2 = 0, d.fixed => d.record = BlockSize
      PROVE  FromBlock(objects, w.from, w.length)
  <2>1. PICK p \in Int : p = d.position
      BY DEF Drives
  <2>2. PICK s \in Int : s = d.start
      BY DEF Drives
  <2>3. PICK a \in Nat : a = d.record
      BY DEF Drives
  <2>4. p >= s /\ p + n <= s + a
    <3>1. CASE d.fixed
      <4>1. p = s /\ n <= a
          BY <1>7, <2>1, <2>2, <2>3, <3>1 DEF CanRead
      <4>. QED  BY <4>1
    <3>2. CASE ~d.fixed
      <4>1. PICK b \in Nat : b = d.bytes
          BY DEF Drives
      <4>2. PICK m \in Int : m = d.remaining
          BY DEF Drives
      <4>3. b <= a /\ m <= b /\ p = s + (b - m) /\ n <= m
          BY <2>1, <2>2, <2>3, <3>2, <4>1, <4>2 DEF CanRead, InPart
      <4>. QED  BY <4>3
    <3>. QED  BY <3>1, <3>2
  <2>5. FromBlock(objects, p, n)
      BY <1>7, <2>1, <2>2, <2>3, <2>4, BlockData
  <2>. QED  BY <1>5, <2>1, <2>5
<1>8. CASE d.fixed \/ d.remaining = n
  <2>1. AtRecordBoundary(e)
      BY <1>1, <1>8, ReadBoundary
  <2>2. q + 2 <= size /\ At(q).value = d.record /\ w.drive = Placed(e, q + 2)
      BY <1>1, <1>2, <2>1 DEF ChunkRead
  <2>3. d.record % 2 = 0 /\ q + 2 = Offset(objects)[k] /\ k \in 0 .. Len(objects)
      BY <1>6, <2>2, BlockInFile
  <2>4. /\ w.drive.position = q + 2 /\ w.drive.location = d.location /\ w.drive.fixed = d.fixed
        /\ w.drive.record = d.record /\ ~w.drive.initial /\ w.drive.remaining = d.remaining - n
      BY <1>4, <1>6, <2>2, PlacedDrive
  <2>5. Aligned(objects, w.drive.position, w.drive.location, u)
      BY <2>3, <2>4 DEF Aligned, Within
  <2>. QED  BY <1>8, <1>7, <2>4, <2>5
<1>9. CASE ~(d.fixed \/ d.remaining = n)
  <2>1. ~AtRecordBoundary(e)
      BY <1>1, <1>9, ReadBoundary
  <2>2. w.drive = e
      BY <1>1, <2>1 DEF ChunkRead
  <2>3. PICK b \in Nat : b = d.bytes
      BY DEF Drives
  <2>4. PICK m \in Int : m = d.remaining
      BY DEF Drives
  <2>5. PICK s \in Int : s = d.start
      BY DEF Drives
  <2>6. b <= d.record /\ m <= b /\ d.position = s + (b - m) /\ 0 < n /\ n <= m /\ m # n
      BY <1>9, <2>3, <2>4, <2>5 DEF CanRead, InPart
  <2>7. m - n <= b /\ 0 < m - n /\ m - n < b /\ d.position + n = s + (b - (m - n))
      BY <2>6
  <2>8. InPart(e) /\ 0 < e.remaining /\ e.remaining < e.bytes
      BY <1>4, <2>3, <2>4, <2>5, <2>6, <2>7 DEF InPart
  <2>9. Within(objects, e, k, u)
      BY <1>4 DEF Within
  <2>10. InBlock(objects, e, u)
      BY <2>8, <2>9 DEF InBlock
  <2>. QED  BY <1>4, <1>9, <1>7, <2>2, <2>10
<1>. QED  BY <1>8, <1>9

\* Behind the objects the drive only gets further away from them.
LEMMA ChunkBeyond ==
    ASSUME NEW d \in Drives, NEW n \in Nat, NEW t, NEW w, ChunkRead(w, d, t, n),
           NEW a \in Int, d.position > a, d.start > a
    PROVE  w.drive.position > a
<1>1. PICK e : e = Filled(d, d.position + n, n)
    OBVIOUS
<1>2. PICK q : q = TrailingLength(e)
    OBVIOUS
<1>3. d.position + n \in Int /\ n \in Int /\ d.position \in Int /\ d.start \in Int
    BY DEF Drives
<1>4. e \in Drives /\ e.position = d.position + n /\ e.record = d.record /\ e.start = d.start
    BY <1>1, <1>3, FilledDrive, FilledPart
<1>5. PICK x \in Nat : x = Pad(d.record)
    BY Padded DEF EvenNumbers, Drives
<1>6. q = d.start + x
    BY <1>2, <1>4, <1>5 DEF TrailingLength
<1>7. CASE AtRecordBoundary(e)
  <2>1. w.drive = Placed(e, q + 2) /\ q + 2 \in Int
      BY <1>1, <1>2, <1>3, <1>6, <1>7 DEF ChunkRead
  <2>2. w.drive.position = q + 2
      BY <1>4, <2>1, PlacedDrive
  <2>. QED  BY <1>3, <1>6, <2>2
<1>8. CASE ~AtRecordBoundary(e)
  <2>1. w.drive = e
      BY <1>1, <1>8 DEF ChunkRead
  <2>. QED  BY <1>3, <1>4, <2>1
<1>. QED  BY <1>7, <1>8

\* At the beginning of a transfer in variable mode, d and t have the same number of bytes left.
Asked(d, t) ==
    /\ ~d.initial
    /\ ~d.fixed => d.remaining = d.bytes /\ t.rest = d.bytes /\ t.chunk = Lesser(d.bytes, BlockSize)

\* The drive v with the transfer s reads n bytes of the block where d is.
Prepared(d, v, s, n) ==
    /\ v \in Drives /\ Reads(s) /\ n \in Nat /\ CanRead(v, n)
    /\ v.position = d.position /\ v.start = d.start /\ v.record = d.record
    /\ v.location = d.location /\ v.fixed = d.fixed
    /\ ~v.fixed => v.remaining = s.rest /\ n = s.chunk

LEMMA LesserSays ==
    ASSUME NEW a \in Nat, NEW b \in Nat
    PROVE  /\ Lesser(a, b) \in Nat /\ Lesser(a, b) <= a /\ Lesser(a, b) <= b
           /\ Lesser(a, b) = a \/ Lesser(a, b) = b
           /\ a # 0 /\ b # 0 => Lesser(a, b) # 0 /\ 0 < Lesser(a, b)
BY DEF Lesser

LEMMA LesserOfLesser ==
    ASSUME NEW a \in Nat, NEW b \in Nat, NEW c \in Nat, a <= b
    PROVE  Lesser(a, Lesser(b, c)) = Lesser(a, c)
BY DEF Lesser

LEMMA ShortenedSays ==
    ASSUME NEW d \in Drives, NEW a \in Nat, NEW n \in Int
    PROVE  LET v == Shortened(d, a, n)
           IN  /\ v.position = d.position /\ v.start = d.start /\ v.record = d.record
               /\ v.location = d.location /\ v.fixed = d.fixed /\ v.initial = d.initial
               /\ v.bytes = a /\ v.remaining = n
BY DEF Shortened, Drives

LEMMA LengthSays ==
    ASSUME NEW d \in Drives, d.record # 0, NEW t, Reads(t), Asked(d, t), NEW a, a = IncorrectLength(d, t)
    PROVE  /\ a \in Nat /\ a <= d.record /\ a <= d.bytes
           /\ a = 0 /\ ~d.fixed => d.bytes <= d.record
<1>1. d.record \in Nat /\ d.bytes \in Nat
    BY DEF Drives
<1>2. PICK b : b = Lesser(d.record, d.bytes)
    OBVIOUS
<1>3. /\ b \in Nat /\ b <= d.record /\ b <= d.bytes
      /\ d.record # 0 /\ d.bytes # 0 => b # 0
    BY <1>1, <1>2, LesserSays
<1>4. CASE /\ ~(d.record = d.bytes) /\ ~(d.fixed /\ d.bytes % d.record = 0)
           /\ ~(~d.fixed /\ t.sili /\ d.bytes < d.record)
  <2>1. a = b
      BY <1>2, <1>4 DEF IncorrectLength
  <2>2. ~d.fixed => d.bytes # 0
      BY DEF Reads, Asked, Transfers
  <2>. QED  BY <1>3, <2>1, <2>2
<1>5. CASE ~(/\ ~(d.record = d.bytes) /\ ~(d.fixed /\ d.bytes % d.record = 0)
             /\ ~(~d.fixed /\ t.sili /\ d.bytes < d.record))
  <2>1. a = 0
      BY <1>5 DEF IncorrectLength
  <2>2. ~d.fixed => d.record = d.bytes \/ d.bytes < d.record
      BY <1>5
  <2>3. ~d.fixed => d.bytes <= d.record
      BY <1>1, <2>2
  <2>4. 0 <= d.record /\ 0 <= d.bytes
      BY <1>1
  <2>. QED  BY <2>1, <2>3, <2>4
<1>. QED  BY <1>4, <1>5

LEMMA BlockPrepared ==
    ASSUME FileOK(file, size), NEW d \in Drives, d.record # 0, d.position = d.start,
           NEW t, Reads(t), Asked(d, t), NEW w, w = ReadBlock(d, t, IncorrectLength(d, t))
    PROVE  ReadError(w) \/ \E v, s, n : Prepared(d, v, s, n) /\ ChunkRead(w, v, s, n)
<1>1. PICK a : a = IncorrectLength(d, t)
    OBVIOUS
<1>2. /\ a \in Nat /\ a <= d.record /\ a <= d.bytes
      /\ a = 0 /\ ~d.fixed => d.bytes <= d.record
    BY <1>1, LengthSays
<1>3. /\ t.chunk \in Nat /\ t.rest \in Nat /\ 0 < t.chunk /\ t.chunk <= t.rest /\ t.chunk <= BlockSize
      /\ t.sili \in BOOLEAN /\ t.sent \in Seq(Nat) /\ BlockSize \in Nat
    BY Sizes DEF Reads, Transfers
<1>4. CASE a = 0
  <2>1. PICK n : n = t.chunk
      OBVIOUS
  <2>2. w = ReadChunk(d, t, n)
      BY <1>1, <1>4, <2>1 DEF ReadBlock
  <2>3. d.start \in Int /\ d.bytes \in Nat
      BY DEF Drives
  <2>4. ~d.fixed => InPart(d) /\ n <= d.remaining
    <3>1. d.start = d.start + (d.bytes - d.bytes) /\ d.bytes <= d.bytes
        BY <2>3
    <3>. QED  BY <1>2, <1>3, <1>4, <2>1, <3>1 DEF Asked, InPart
  <2>5. CanRead(d, n)
      BY <1>3, <2>1, <2>4 DEF CanRead, Asked
  <2>6. Prepared(d, d, t, n)
      BY <1>3, <2>1, <2>5 DEF Prepared, Asked
  <2>. QED  BY <1>3, <2>1, <2>2, <2>6, ReadChunkSays
<1>5. CASE a # 0
  <2>1. PICK v : v = Shortened(d, a, a)
      OBVIOUS
  <2>2. PICK x : x = Transfer("read", a, t.sili)
      OBVIOUS
  <2>3. PICK s : s = SentBefore(x, t.sent)
      OBVIOUS
  <2>4. PICK n : n = Lesser(a, t.chunk)
      OBVIOUS
  <2>5. w = ReadChunk(v, s, n)
      BY <1>1, <1>5, <2>1, <2>2, <2>3, <2>4 DEF ReadBlock, Shortened, SentBefore
  <2>6. a \in Int /\ "read" \in {"read", "write"}
      BY <1>2
  <2>7. /\ v \in Drives /\ v.position = d.position /\ v.start = d.start /\ v.record = d.record
        /\ v.location = d.location /\ v.fixed = d.fixed /\ v.initial = d.initial
        /\ v.bytes = a /\ v.remaining = a
      BY <1>2, <2>1, <2>6, ShortenedDrive, ShortenedSays
  <2>8. /\ x \in Transfers /\ x.op = "read" /\ x.rest = a /\ x.chunk = Lesser(a, BlockSize)
        /\ x.chunk \in 1 .. x.rest /\ x.chunk <= BlockSize
      BY <1>2, <1>3, <1>5, <2>2, <2>6, TransferType
  <2>9. s \in Transfers /\ s.op = x.op /\ s.chunk = x.chunk /\ s.rest = x.rest
      BY <1>3, <2>3, <2>8, SentBeforeType
  <2>10. Reads(s) /\ s.rest = a /\ s.chunk = Lesser(a, BlockSize)
      BY <2>8, <2>9 DEF Reads
  <2>11. n \in Nat /\ 0 < n /\ n <= a /\ n <= t.chunk
    <3>1. PICK b \in Nat : b = t.chunk
        BY <1>3
    <3>2. b # 0
        BY <1>3, <3>1
    <3>3. n \in Nat /\ n <= a /\ n <= b /\ 0 < n
        BY <1>2, <1>5, <2>4, <3>1, <3>2, LesserSays
    <3>. QED  BY <3>1, <3>3
  <2>12. n <= BlockSize
      BY <1>3, <2>11
  <2>13. ~d.fixed => n = s.chunk
    <3>1. ASSUME ~d.fixed
          PROVE  n = s.chunk
      <4>1. t.chunk = Lesser(d.bytes, BlockSize) /\ d.bytes \in Nat
          BY <3>1 DEF Asked, Drives
      <4>2. Lesser(a, Lesser(d.bytes, BlockSize)) = Lesser(a, BlockSize)
          BY <1>2, <1>3, <4>1, LesserOfLesser
      <4>. QED  BY <2>4, <2>10, <4>1, <4>2
    <3>. QED  BY <3>1
  <2>14. InPart(v)
    <3>1. d.start \in Int
        BY DEF Drives
    <3>2. d.start = d.start + (a - a) /\ a <= a
        BY <1>2, <3>1
    <3>3. v.bytes <= v.record /\ v.remaining <= v.bytes
        BY <1>2, <2>7, <3>2
    <3>4. v.position = v.start + (v.bytes - v.remaining)
        BY <2>7, <3>2
    <3>. QED  BY <3>3, <3>4 DEF InPart
  <2>15. CanRead(v, n)
      BY <2>7, <2>11, <2>12, <2>14 DEF CanRead, Asked
  <2>16. Prepared(d, v, s, n)
      BY <2>7, <2>10, <2>11, <2>13, <2>15 DEF Prepared
  <2>. QED  BY <2>5, <2>7, <2>11, <2>16, ReadChunkSays
<1>. QED  BY <1>4, <1>5

\* What has been read is a part of a block, and the drive is in this block or behind it.
DataRead(r, u) ==
    /\ r.drive.fixed => Aligned(objects, r.drive.position, r.drive.location, u)
    /\ ~r.drive.fixed =>
        /\ ~r.drive.initial /\ r.drive.remaining = r.transfer.rest - r.transfer.chunk
        /\ r.drive.remaining = 0 => Aligned(objects, r.drive.position, r.drive.location, u)
        /\ r.drive.remaining # 0 => InBlock(objects, r.drive, u)
    /\ r.drive.record % 2 = 0 /\ (r.drive.fixed => r.drive.record = BlockSize) => FromBlock(objects, r.from, r.length)

\* The result of ReadData(); what has been found behind the objects makes the drive lose its
\* position.
ReadOutcome(r, u) ==
    /\ ~r.ok /\ r.what \in Orderly =>
            Aligned(objects, r.drive.position, r.drive.location, u) \/ Astray(r.drive)
    /\ r.ok => Astray(r.drive) \/ (r.what = "done" /\ DataRead(r, u))

LEMMA ErrorOutcome ==
    ASSUME NEW r, ReadError(r), NEW u
    PROVE  ReadOutcome(r, u)
BY DEF ReadError, ReadOutcome, Orderly

LEMMA ChunkOutcome ==
    ASSUME Known, ~tar, NEW d \in Drives, NEW k, NEW u \in BOOLEAN, Within(objects, d, k, u),
           NEW v, NEW s, NEW n, Prepared(d, v, s, n), NEW w, ChunkRead(w, v, s, n)
    PROVE  ReadOutcome(w, u)
<1>1. /\ v \in Drives /\ n \in Nat /\ CanRead(v, n) /\ Reads(s)
      /\ ~v.fixed => v.remaining = s.rest /\ n = s.chunk
    BY DEF Prepared
<1>2. Within(objects, v, k, u)
    BY DEF Prepared, Within
<1>3. /\ w.drive.fixed = v.fixed /\ w.drive.record = v.record /\ ~w.drive.initial
      /\ w.drive.remaining = v.remaining - n
      /\ v.fixed \/ v.remaining = n => Aligned(objects, w.drive.position, w.drive.location, u)
      /\ ~(v.fixed \/ v.remaining = n) => InBlock(objects, w.drive, u)
      /\ v.record % 2 = 0 /\ (v.fixed => v.record = BlockSize) => FromBlock(objects, w.from, w.length)
    BY <1>1, <1>2, ChunkInBlock
<1>4. w.ok /\ w.what = "done" /\ w.transfer = s
    BY DEF ChunkRead
<1>5. v.remaining \in Int /\ (v.remaining - n = 0 <=> v.remaining = n)
    BY <1>1 DEF Drives
<1>6. DataRead(w, u)
    BY <1>1, <1>3, <1>4, <1>5 DEF DataRead
<1>. QED  BY <1>4, <1>6 DEF ReadOutcome

LEMMA BeyondOutcome ==
    ASSUME Known, torn, NEW d \in Drives, d.position > End(objects), d.start > End(objects), NEW u,
           NEW v, NEW s, NEW n, Prepared(d, v, s, n), NEW w, ChunkRead(w, v, s, n)
    PROVE  ReadOutcome(w, u)
<1>1. v \in Drives /\ n \in Nat /\ v.position = d.position /\ v.start = d.start
    BY DEF Prepared
<1>2. PICK a \in Int : a = End(objects)
    BY KnownSays
<1>3. w.drive.position > a
    BY <1>1, <1>2, ChunkBeyond
<1>4. w.ok /\ Astray(w.drive)
    BY <1>2, <1>3 DEF ChunkRead, Astray
<1>. QED  BY <1>4 DEF ReadOutcome

\* Counting from c instead of 0 is for filemarks that have not been counted.
LEMMA AlignedFrom ==
    ASSUME NEW p, NEW l \in Int, NEW u, Aligned(objects, p, l, u), Len(objects) \in Nat
    PROVE  \E c \in Int : AtObject(p, l, c) /\ (u \/ c = 0)
<1>1. PICK k \in 0 .. Len(objects) : p = Offset(objects)[k] /\ (u \/ l = k)
    BY DEF Aligned
<1>2. PICK c : c = l - k
    OBVIOUS
<1>3. c \in Int /\ l = c + k /\ (l = k => c = 0)
    BY <1>2
<1>4. AtObject(p, l, c)
    BY <1>1, <1>3 DEF AtObject, At1
<1>. QED  BY <1>1, <1>3, <1>4

LEMMA AlignedAt ==
    ASSUME NEW p, NEW l, NEW c \in Int, AtObject(p, l, c), NEW u, u \/ c = 0
    PROVE  Aligned(objects, p, l, u)
<1>1. PICK k \in 0 .. Len(objects) : p = Offset(objects)[k] /\ l = c + k
    BY DEF AtObject, At1
<1>2. c = 0 => l = k
    BY <1>1
<1>. QED  BY <1>1, <1>2 DEF Aligned

LEMMA AtDataSays ==
    ASSUME NEW d \in Drives, NEW p \in Int, NEW l \in Int, NEW n \in Nat
    PROVE  LET b == AtData(d, p, l, n)
           IN  /\ b \in Drives /\ b.position = p /\ b.start = p /\ b.location = l /\ b.record = n
               /\ b.fixed = d.fixed /\ b.initial = d.initial /\ b.bytes = d.bytes /\ b.remaining = d.remaining
BY DEF AtData, Drives

LEMMA FoundOutcome ==
    ASSUME Known, ~tar, NEW d \in Drives, NEW t, Reads(t), Asked(d, t), NEW r \in Results,
           NEW c \in Int, NEW u \in BOOLEAN, u \/ c = 0, Way("block", r, c), NEW w, w = ReadFound(d, t, r)
    PROVE  ReadOutcome(w, u)
<1>0. FileOK(file, size)
    BY KnownSays
<1>1. CASE r.what # "found" \/ r.meta.value = 0
  <2>1. w = Failed(r.what, Moved(d, r), t)
      BY <1>1 DEF ReadFound
  <2>2. PICK m : m = Moved(d, r)
      OBVIOUS
  <2>3. m.position = r.position /\ m.location = r.location
      BY <2>2, MovedDrive
  <2>4. w.ok = FALSE /\ w.what = r.what /\ w.drive = m
      BY <2>1, <2>2 DEF Failed
  <2>5. ASSUME r.what \in Orderly
        PROVE  Aligned(objects, m.position, m.location, u) \/ Astray(m)
    <3>1. Tracked(r.position, r.location, c)
        BY <2>5 DEF Way, EndsAt
    <3>2. CASE AtObject(r.position, r.location, c)
        BY <2>3, <3>2, AlignedAt
    <3>3. CASE Outside(r.position)
        BY <2>3, <3>3 DEF Outside, Astray
    <3>. QED  BY <3>1, <3>2, <3>3 DEF Tracked
  <2>. QED  BY <2>4, <2>5 DEF ReadOutcome
<1>2. CASE ~(r.what # "found" \/ r.meta.value = 0)
  <2>1. r.what = "found" /\ r.meta.value # 0
      BY <1>2
  <2>2. r.meta.value \in Nat /\ r.position \in Int /\ r.location \in Int
      BY DEF Results, Metas
  <2>3. PICK n \in Nat : n = r.meta.value
      BY <2>2
  <2>4. PICK p : p = RecordStart(r.position, n)
      OBVIOUS
  <2>5. p \in Int /\ p = r.position - (n + 2)
      BY <2>2, <2>3, <2>4 DEF RecordStart, META_DATA_SIZE
  <2>6. PICK b : b = AtBlock(d, r)
      OBVIOUS
  <2>7. b = AtData(d, p, r.location, n)
      BY <2>3, <2>4, <2>6 DEF AtBlock, AtData
  <2>8. /\ b \in Drives /\ b.position = p /\ b.start = p /\ b.location = r.location /\ b.record = n
        /\ b.fixed = d.fixed /\ b.initial = d.initial /\ b.bytes = d.bytes /\ b.remaining = d.remaining
      BY <2>2, <2>3, <2>5, <2>7, AtDataSays
  <2>9. Asked(b, t) /\ b.record # 0 /\ b.position = b.start
      BY <2>1, <2>3, <2>8 DEF Asked
  <2>10. w = ReadBlock(b, t, IncorrectLength(b, t))
      BY <1>2, <2>6 DEF ReadFound
  <2>11. ReadError(w) \/ \E v, s, x : Prepared(b, v, s, x) /\ ChunkRead(w, v, s, x)
      BY <1>0, <2>8, <2>9, <2>10, BlockPrepared
  <2>12. (\E k : IsBlock(r, c, k)) \/ BlockBeyond(r)
      BY <2>1 DEF Way
  <2>13. CASE ReadError(w)
      BY <2>13, ErrorOutcome
  <2>14. CASE \E v, s, x : Prepared(b, v, s, x) /\ ChunkRead(w, v, s, x)
    <3>1. PICK v, s, x : Prepared(b, v, s, x) /\ ChunkRead(w, v, s, x)
        BY <2>14
    <3>2. CASE \E k : IsBlock(r, c, k)
      <4>1. PICK k : IsBlock(r, c, k)
          BY <3>2
      <4>2. n = Len(objects[k])
          BY <2>3, <4>1 DEF IsBlock, ObjectMeta, MetaData
      <4>3. c = 0 => r.location = k
          BY <4>1 DEF IsBlock
      <4>4. Within(objects, b, k, u)
          BY <2>5, <2>8, <4>1, <4>2, <4>3 DEF Within, IsBlock
      <4>. QED  BY <2>8, <3>1, <4>4, ChunkOutcome
    <3>3. CASE BlockBeyond(r)
      <4>1. torn /\ b.position > End(objects) /\ b.start > End(objects)
          BY <2>1, <2>3, <2>4, <2>8, <3>3 DEF BlockBeyond
      <4>. QED  BY <2>8, <3>1, <4>1, BeyondOutcome
    <3>. QED  BY <2>12, <3>2, <3>3
  <2>. QED  BY <2>11, <2>13, <2>14
<1>. QED  BY <1>1, <1>2

\* ReadData() at a record boundary
LEMMA ReadDataOutcome ==
    ASSUME Known, ~tar, NEW d \in Drives, NEW t, Reads(t), AtRecordBoundary(d), NEW u \in BOOLEAN,
           Aligned(objects, d.position, d.location, u), Asked(Started(d), t), NEW w, w = ReadData(d, t)
    PROVE  ReadOutcome(w, u)
<1>1. d.location \in Int /\ Len(objects) \in Nat
    BY KnownSays DEF Drives
<1>2. PICK c \in Int : AtObject(d.position, d.location, c) /\ (u \/ c = 0)
    BY <1>1, AlignedFrom
<1>3. PICK r : r = FindForward(d, "block", 0, TRUE)
    OBVIOUS
<1>4. Tracked(d.position, d.location, c) /\ 0 \in Int
    BY <1>2 DEF Tracked
<1>5. r \in Results /\ Way("block", r, c)
    BY <1>3, <1>4, FoundForward
<1>6. PICK v : v = Started(d)
    OBVIOUS
<1>7. v \in Drives
    BY <1>6, StartedDrive
<1>8. w = ReadFound(v, t, FindForward([d EXCEPT !.initial = FALSE], "block", 0, TRUE)) \/ w = ReadFound(v, t, r)
    BY <1>3, <1>6 DEF ReadData, Started
<1>9. FindForward([d EXCEPT !.initial = FALSE], "block", 0, TRUE) = r
  <2>1. v.position = d.position /\ v.location = d.location
      BY <1>6, StartedDrive
  <2>. QED  BY <1>3, <1>6, <2>1 DEF FindForward, Started
<1>10. w = ReadFound(v, t, r)
    BY <1>8, <1>9
<1>. QED  BY <1>2, <1>5, <1>6, <1>7, <1>10, FoundOutcome

\* ReadData() in the middle of a block
LEMMA ReadMoreOutcome ==
    ASSUME Known, ~tar, NEW d \in Drives, ~d.fixed, ~d.initial, NEW t, Reads(t), d.remaining = t.rest,
           NEW u \in BOOLEAN, InBlock(objects, d, u), NEW w, w = ReadData(d, t)
    PROVE  ReadOutcome(w, u)
<1>0. FileOK(file, size)
    BY KnownSays
<1>1. PICK k : Within(objects, d, k, u)
    BY DEF InBlock
<1>2. PICK b \in Nat : b = d.bytes
    BY DEF Drives
<1>3. PICK m \in Int : m = d.remaining
    BY DEF Drives
<1>4. PICK a \in Nat : a = d.record
    BY DEF Drives
<1>5. b <= a /\ 0 < m /\ m < b
    BY <1>2, <1>3, <1>4 DEF InBlock, InPart
<1>6. m # 0 /\ b - m # a
    BY <1>5
<1>7. ~AtRecordBoundary(d)
    BY <1>2, <1>3, <1>4, <1>6 DEF AtRecordBoundary
<1>8. PICK n : n = t.chunk
    OBVIOUS
<1>9. n \in Nat /\ 0 < n /\ n <= t.rest
    BY <1>8 DEF Reads, Transfers
<1>10. PICK v : v = Started(d)
    OBVIOUS
<1>11. w = ReadChunk(v, t, n)
    BY <1>7, <1>8, <1>10 DEF ReadData, Started
<1>12. v = d
    BY <1>10 DEF Started, Drives
<1>13. CanRead(d, n)
    BY <1>9 DEF CanRead, InBlock
<1>14. Prepared(d, d, t, n)
    BY <1>8, <1>9, <1>13 DEF Prepared
<1>15. ReadError(w) \/ ChunkRead(w, d, t, n)
    BY <1>0, <1>9, <1>11, <1>12, ReadChunkSays
<1>. QED  BY <1>1, <1>14, <1>15, ErrorOutcome, ChunkOutcome

-----------------------------------------------------------------------------
(* Where the drive is                                                      *)

\* The place of the drive d with the transfer t: in front of an object of o, in the middle of the
\* block that is being written behind o, or in the middle of a block of o that is being read
Settled(o, d, t, u) ==
    /\ t.op = "none" \/ d.fixed \/ d.initial => Aligned(o, d.position, d.location, u)
    /\ t.op = "write" /\ ~d.fixed /\ ~d.initial =>
        d.position = End(o) + 2 + Len(t.sent) /\ (u \/ d.location = Len(o))
    /\ t.op = "read" /\ ~d.fixed =>
        /\ ~d.initial /\ d.remaining = t.rest - t.chunk
        /\ d.remaining = 0 => Aligned(o, d.position, d.location, u)
        /\ d.remaining # 0 => InBlock(o, d, u)

PlaceInv == ~tar /\ ~lost => Settled(objects, drive, transfer, uncounted)

ReceivedInv ==
    /\ transfer.op = "write" => received = <<>>
    /\ received # <<>> => FromBlock(objects, received[1], received[2])

PositionInv == uncounted \in BOOLEAN /\ PlaceInv /\ ReceivedInv

LEMMA IdleSettled ==
    ASSUME NEW o, NEW d, NEW t, t.op = "none", NEW u, Aligned(o, d.position, d.location, u)
    PROVE  Settled(o, d, t, u)
BY DEF Settled

LEMMA SettledIdle ==
    ASSUME NEW o, NEW d, NEW t, t.op = "none", NEW u, Settled(o, d, t, u)
    PROVE  Aligned(o, d.position, d.location, u)
BY DEF Settled

LEMMA PlacedIdle ==
    ASSUME transfer'.op = "none", uncounted' \in BOOLEAN, received' = <<>>,
           ~tar' /\ ~lost' => Aligned(objects', drive'.position, drive'.location, uncounted')
    PROVE  PositionInv'
<1>1. ~tar' /\ ~lost' => Settled(objects', drive', transfer', uncounted')
    BY IdleSettled
<1>2. PlaceInv'
    BY <1>1 DEF PlaceInv
<1>3. ReceivedInv'
    BY DEF ReceivedInv
<1>. QED  BY <1>2, <1>3 DEF PositionInv

LEMMA LocateFailsPlaced ==
    ASSUME PositionInv, NEW l, LocateFails(l)
    PROVE  PositionInv'
<1>1. lost' /\ UNCHANGED <<transfer, uncounted, received, objects, tar>>
    BY DEF LocateFails, SameTape, SameFile
<1>2. PlaceInv'
    BY <1>1 DEF PlaceInv
<1>3. ReceivedInv'
    BY <1>1 DEF PositionInv, ReceivedInv, FromBlock, IsFrom
<1>. QED  BY <1>1, <1>2, <1>3 DEF PositionInv

\* A command begins where the last one ended, or where it has located an object.
LEMMA LocatedPlace ==
    ASSUME TapeInv, PositionInv, Idle, ~tar, NEW explicit \in BOOLEAN, NEW identifier \in Nat,
           NEW l, l = Located(explicit, identifier), l.ok,
           NEW d, d.position = l.drive.position, ~Lost(explicit, d)
    PROVE  Aligned(objects, l.drive.position, l.drive.location, Uncounted(explicit))
<1>1. drive \in Drives /\ transfer.op = "none" /\ uncounted \in BOOLEAN /\ Known
    BY DEF TapeInv, TypesInv, Idle, PositionInv, Known
<1>2. PICK u : u = Uncounted(explicit)
    OBVIOUS
<1>3. CASE explicit
  <2>1. PICK r : r = FindObject(identifier)
      OBVIOUS
  <2>2. r.what = "found" /\ l.drive = Moved(drive, r)
      BY <1>3, <2>1 DEF Located
  <2>3. identifier \in Int
      OBVIOUS
  <2>4. r \in Results
      BY <1>1, <2>1, <2>3, FindTypes DEF Known
  <2>5. Tracked(r.position, r.location, 0)
      BY <1>1, <2>1, <2>2, FoundObject
  <2>6. l.drive.position = r.position /\ l.drive.location = r.location
      BY <1>1, <2>2, <2>4, MovedDrive
  <2>7. ~Outside(r.position)
      BY <1>3, <2>6 DEF Lost, Astray, Outside
  <2>8. AtObject(r.position, r.location, 0)
      BY <2>5, <2>7 DEF Tracked
  <2>9. Aligned(objects, r.position, r.location, u)
      BY <2>8, AlignedAt, 0 \in Int
  <2>. QED  BY <1>2, <2>6, <2>9
<1>4. CASE ~explicit
  <2>1. l.drive = drive /\ ~lost /\ u = uncounted
      BY <1>1, <1>2, <1>4 DEF Located, Lost, Uncounted
  <2>2. Settled(objects, drive, transfer, uncounted)
      BY <2>1 DEF PositionInv, PlaceInv
  <2>. QED  BY <1>1, <1>2, <2>1, <2>2, SettledIdle
<1>. QED  BY <1>3, <1>4

\* A chunk has been read, or reading has failed.
LEMMA DeliverPlaced ==
    ASSUME TapeInv, NEW r, ReadResult(r), NEW wasLost, Deliver(r, wasLost), uncounted' \in BOOLEAN,
           ~tar /\ ~wasLost => ReadOutcome(r, uncounted')
    PROVE  PositionInv'
<1>1. r.drive \in Drives /\ r.transfer \in Transfers /\ r.transfer.op = "read"
    BY DEF ReadResult, Reads
<1>2. objects' = objects /\ tar' = tar
    BY DEF Deliver, SameTape, SameFile
<1>3. lost' = (wasLost \/ r.what \notin Orderly \/ Astray(r.drive))
    BY DEF Deliver
<1>4. CASE ~r.ok
  <2>1. drive' = AtRest(r.drive) /\ transfer' = NoTransfer /\ received' = <<>>
      BY <1>4 DEF Deliver
  <2>2. transfer'.op = "none" /\ drive'.position = r.drive.position /\ drive'.location = r.drive.location
      BY <1>1, <2>1, RestDrive, NoTransferType
  <2>3. ASSUME ~tar, ~lost'
        PROVE  Aligned(objects, r.drive.position, r.drive.location, uncounted')
      BY <1>3, <1>4, <2>3 DEF ReadOutcome
  <2>. QED  BY <1>2, <2>1, <2>2, <2>3, PlacedIdle
<1>5. CASE r.ok
  <2>1. drive' = r.drive /\ transfer' = r.transfer
      BY <1>5 DEF Deliver
  <2>2. ASSUME ~tar, ~wasLost, ~Astray(r.drive)
        PROVE  DataRead(r, uncounted')
      BY <1>5, <2>2 DEF ReadOutcome
  <2>3. ASSUME DataRead(r, uncounted')
        PROVE  Settled(objects, r.drive, r.transfer, uncounted')
    <3>1. r.transfer.op = "read" /\ (r.drive.initial => r.drive.fixed)
        BY <1>1, <2>3 DEF DataRead
    <3>. QED  BY <2>3, <3>1 DEF Settled, DataRead
  <2>4. PlaceInv'
      BY <1>2, <1>3, <2>1, <2>2, <2>3 DEF PlaceInv
  <2>5. received' # <<>> =>
          /\ ~tar /\ ~wasLost /\ ~torn /\ r.drive.record % 2 = 0 /\ (r.drive.fixed => r.drive.record = BlockSize)
          /\ received' = <<r.from, r.length>>
      BY <1>5 DEF Deliver
  <2>6. ASSUME received' # <<>>
        PROVE  FromBlock(objects, received'[1], received'[2])
    <3>1. DataRead(r, uncounted')
        BY <2>2, <2>5, <2>6 DEF Astray
    <3>2. FromBlock(objects, r.from, r.length)
        BY <2>5, <2>6, <3>1 DEF DataRead
    <3>. QED  BY <2>5, <2>6, <3>2
  <2>7. transfer'.op # "write"
      BY <1>1, <2>1
  <2>8. ReceivedInv'
      BY <1>2, <2>6, <2>7 DEF ReceivedInv
  <2>. QED  BY <2>4, <2>8 DEF PositionInv
<1>. QED  BY <1>4, <1>5

-----------------------------------------------------------------------------
(* Where the drive is after each operation                                 *)

LEMMA LoadedSays ==
    ASSUME NEW d \in Drives, NEW fixed \in BOOLEAN, NEW bytes \in Nat, NEW n \in Int,
           NEW e, e = Loaded(d, fixed, bytes, n)
    PROVE  /\ e \in Drives /\ e.position = d.position /\ e.location = d.location
           /\ e.fixed = fixed /\ e.initial /\ e.bytes = bytes /\ e.remaining = n
BY DEF Loaded, Drives

LEMMA UncountedType ==
    ASSUME PositionInv, NEW explicit \in BOOLEAN
    PROVE  Uncounted(explicit) \in BOOLEAN
BY DEF PositionInv, Uncounted

LEMMA ReadPlaced ==
    ASSUME TapeInv, PositionInv, NEW explicit \in BOOLEAN, NEW identifier \in Nat, NEW fixed \in BOOLEAN,
           NEW sili \in BOOLEAN, NEW n \in Nat, Read(explicit, identifier, fixed, sili, n)
    PROVE  PositionInv'
<1>1. PICK l : l = Located(explicit, identifier)
    OBVIOUS
<1>2. PICK bytes : bytes = Requested(fixed, n)
    OBVIOUS
<1>3. l.drive \in Drives
    BY <1>1, LocatedDrive DEF TapeInv
<1>4. bytes \in Nat /\ bytes \in Int
    BY <1>2, RequestedType
<1>5. PICK d : d = [l.drive EXCEPT !.fixed = fixed, !.bytes = bytes]
    OBVIOUS
<1>6. PICK e : e = Loaded(l.drive, fixed, bytes, bytes)
    OBVIOUS
<1>7. /\ Idle
      /\ IF ~l.ok THEN LocateFails(l)
         ELSE /\ uncounted' = Uncounted(explicit)
              /\ IF bytes = 0 THEN /\ drive' = l.drive /\ lost' = Lost(explicit, d) /\ received' = <<>>
                                   /\ transfer' = transfer /\ SameTape
                 ELSE Deliver(ReadData(e, Transfer("read", bytes, sili)), Lost(explicit, d))
    BY <1>1, <1>2, <1>5, <1>6 DEF Read, Requested, Loaded, Ready
<1>8. d.position = l.drive.position
    BY <1>3, <1>5 DEF Drives
<1>9. ASSUME ~tar, l.ok, ~Lost(explicit, d)
      PROVE  Aligned(objects, l.drive.position, l.drive.location, Uncounted(explicit))
    BY <1>1, <1>7, <1>8, <1>9, LocatedPlace
<1>10. Uncounted(explicit) \in BOOLEAN
    BY UncountedType
<1>11. CASE ~l.ok
    BY <1>7, <1>11, LocateFailsPlaced
<1>12. CASE l.ok /\ bytes = 0
  <2>1. /\ drive' = l.drive /\ lost' = Lost(explicit, d) /\ received' = <<>>
        /\ transfer' = transfer /\ SameTape /\ uncounted' = Uncounted(explicit)
      BY <1>7, <1>12
  <2>2. objects' = objects /\ tar' = tar /\ transfer'.op = "none"
      BY <1>7, <2>1 DEF SameTape, SameFile, Idle
  <2>. QED  BY <1>9, <1>10, <1>12, <2>1, <2>2, PlacedIdle
<1>13. CASE l.ok /\ bytes # 0
  <2>1. PICK t : t = Transfer("read", bytes, sili)
      OBVIOUS
  <2>2. t \in Transfers /\ Reads(t) /\ t.rest = bytes /\ t.chunk = Lesser(bytes, BlockSize)
    <3>1. "read" \in {"read", "write"}
        OBVIOUS
    <3>. QED  BY <1>4, <1>13, <2>1, <3>1, TransferType DEF Reads
  <2>3. PICK w : w = ReadData(e, t)
      OBVIOUS
  <2>4. /\ e \in Drives /\ e.position = l.drive.position /\ e.location = l.drive.location
        /\ e.fixed = fixed /\ e.initial /\ e.bytes = bytes /\ e.remaining = bytes
      BY <1>3, <1>4, <1>6, LoadedSays
  <2>5. ReadResult(w)
      BY <2>2, <2>3, <2>4, ReadDataType DEF TapeInv, TypesInv
  <2>6. Deliver(w, Lost(explicit, d)) /\ uncounted' = Uncounted(explicit)
      BY <1>7, <1>13, <2>1, <2>3
  <2>7. Asked(Started(e), t)
      BY <2>2, <2>4, StartedDrive DEF Asked
  <2>8. ASSUME ~tar, ~Lost(explicit, d)
        PROVE  ReadOutcome(w, uncounted')
    <3>1. Aligned(objects, e.position, e.location, uncounted')
        BY <1>9, <1>13, <2>4, <2>6, <2>8
    <3>2. AtRecordBoundary(e)
        BY <2>4, <2>8 DEF AtRecordBoundary
    <3>3. Known
        BY DEF TapeInv, TypesInv, Known
    <3>4. PICK u \in BOOLEAN : u = uncounted'
        BY <1>10, <2>6
    <3>5. ReadOutcome(w, u)
        BY <2>2, <2>3, <2>4, <2>7, <2>8, <3>1, <3>2, <3>3, <3>4, ReadDataOutcome
    <3>. QED  BY <3>4, <3>5
  <2>. QED  BY <1>10, <2>5, <2>6, <2>8, DeliverPlaced
<1>. QED  BY <1>11, <1>12, <1>13

LEMMA ReadNextPlaced ==
    ASSUME TapeInv, PositionInv, ReadNext
    PROVE  PositionInv'
<1>1. /\ transfer \in Transfers /\ transfer.op = "read" /\ drive \in Drives /\ FileOK(file, size)
      /\ transfer.chunk \in 1 .. transfer.rest /\ transfer.chunk <= BlockSize
      /\ uncounted \in BOOLEAN /\ uncounted' = uncounted /\ Known
    BY DEF ReadNext, TapeInv, TypesInv, PositionInv, Known
<1>2. PICK a : a = Advanced(transfer)
    OBVIOUS
<1>3. a = Continued(transfer, transfer.sent) /\ a.rest = transfer.rest - transfer.chunk
    BY <1>1, <1>2 DEF Advanced, Continued, Transfers
<1>4. ASSUME ~tar, ~lost
      PROVE  /\ drive.fixed \/ drive.remaining = 0 => Aligned(objects, drive.position, drive.location, uncounted)
             /\ ~drive.fixed => /\ ~drive.initial /\ drive.remaining = a.rest
                                /\ drive.remaining # 0 => InBlock(objects, drive, uncounted)
  <2>1. Settled(objects, drive, transfer, uncounted)
      BY <1>4 DEF PositionInv, PlaceInv
  <2>. QED  BY <1>1, <1>3, <2>1 DEF Settled
<1>5. CASE a.rest = 0
  <2>1. transfer' = NoTransfer /\ drive' = AtRest(drive) /\ SameTape /\ received' = <<>> /\ lost' = lost
      BY <1>2, <1>5 DEF ReadNext
  <2>2. transfer'.op = "none" /\ drive'.position = drive.position /\ drive'.location = drive.location
      BY <1>1, <2>1, RestDrive, NoTransferType
  <2>3. objects' = objects /\ tar' = tar
      BY <2>1 DEF SameTape, SameFile
  <2>4. ASSUME ~tar, ~lost
        PROVE  Aligned(objects, drive.position, drive.location, uncounted)
    <3>1. ~drive.fixed => drive.remaining = 0
        BY <1>4, <1>5, <2>4
    <3>. QED  BY <1>4, <2>4, <3>1
  <2>. QED  BY <1>1, <2>1, <2>2, <2>3, <2>4, PlacedIdle
<1>6. CASE a.rest # 0
  <2>1. transfer.sent \in Seq(Nat) /\ transfer.rest # transfer.chunk
      BY <1>1, <1>3, <1>6 DEF Transfers
  <2>2. Reads(a)
      BY <1>1, <1>3, <2>1, Transferred DEF Reads
  <2>3. PICK w : w = ReadData(drive, a)
      OBVIOUS
  <2>4. ReadResult(w)
      BY <1>1, <2>2, <2>3, ReadDataType
  <2>5. Deliver(w, lost)
      BY <1>2, <1>6, <2>3 DEF ReadNext
  <2>6. ASSUME ~tar, ~lost
        PROVE  ReadOutcome(w, uncounted)
    <3>1. CASE drive.fixed
      <4>1. Aligned(objects, drive.position, drive.location, uncounted)
          BY <1>4, <2>6, <3>1
      <4>2. AtRecordBoundary(drive)
          BY <2>6, <3>1 DEF AtRecordBoundary
      <4>3. Asked(Started(drive), a)
          BY <1>1, <3>1, StartedDrive DEF Asked
      <4>. QED  BY <1>1, <2>2, <2>3, <2>6, <4>1, <4>2, <4>3, ReadDataOutcome
    <3>2. CASE ~drive.fixed
      <4>1. ~drive.initial /\ drive.remaining = a.rest /\ InBlock(objects, drive, uncounted)
          BY <1>4, <1>6, <2>6, <3>2
      <4>. QED  BY <1>1, <2>2, <2>3, <2>6, <3>2, <4>1, ReadMoreOutcome
    <3>. QED  BY <3>1, <3>2
  <2>. QED  BY <1>1, <2>4, <2>5, <2>6, DeliverPlaced
<1>. QED  BY <1>5, <1>6

LEMMA AlignedEnd ==
    ASSUME NEW o \in Objects, NEW p, p = End(o), NEW l, NEW u, u \/ l = Len(o)
    PROVE  Aligned(o, p, l, u)
<1>1. Len(o) \in 0 .. Len(o)
    BY DEF Objects
<1>. QED  BY <1>1 DEF Aligned, End

LEMMA AlignedBegin ==
    ASSUME NEW o \in Objects, NEW u
    PROVE  Aligned(o, 0, 0, u)
<1>1. 0 \in 0 .. Len(o)
    BY DEF Objects
<1>2. Offset(o)[0] = 0
    BY Offsets
<1>. QED  BY <1>1, <1>2 DEF Aligned

\* The objects that are kept in front of an object end there.
LEMMA KeptAt ==
    ASSUME objects \in Objects, NEW p \in Int, NEW l, NEW u, Aligned(objects, p, l, u), NEW q, q = Kept(p)
    PROVE  q \in Objects /\ End(q) = p /\ (u \/ l = Len(q))
<1>1. PICK k \in 0 .. Len(objects) : p = Offset(objects)[k] /\ (u \/ l = k)
    BY DEF Aligned
<1>2. Len(objects) \in Nat /\ k \in Nat /\ k <= Len(objects)
    BY DEF Objects
<1>3. PICK c \in 0 .. Len(objects) :
          IsPart(q, objects, c) /\ \A i \in 1 .. Len(objects) : Offset(objects)[i] <= p <=> i <= c
    BY KeptObjects
<1>4. c \in Nat /\ q \in Objects /\ Len(q) = c
    BY <1>2, <1>3 DEF IsPart
<1>5. k <= c
  <2>1. CASE k = 0
      BY <1>4, <2>1
  <2>2. CASE k # 0
    <3>1. k \in 1 .. Len(objects)
        BY <1>2, <2>2
    <3>2. p <= p
        OBVIOUS
    <3>. QED  BY <1>1, <1>3, <3>1, <3>2
  <2>. QED  BY <2>1, <2>2
<1>6. ~(k < c)
  <2>1. ASSUME k < c
        PROVE  FALSE
    <3>1. c \in 1 .. Len(objects) /\ c <= c
        BY <1>2, <1>4, <2>1
    <3>2. PICK x \in Int : x = Offset(objects)[c]
        BY <3>1, <1>2, Offsets DEF EvenNumbers
    <3>3. x <= p
        BY <1>3, <3>1, <3>2
    <3>4. p + 2 <= x
        BY <1>1, <2>1, <3>2, OffsetsGrow
    <3>. QED  BY <3>3, <3>4
  <2>. QED  BY <2>1
<1>7. c = k
    BY <1>2, <1>4, <1>5, <1>6
<1>8. \A i \in 0 .. k : Offset(q)[i] = Offset(objects)[i]
  <2>1. k \in 0 .. Len(q) /\ k <= Len(objects)
      BY <1>2, <1>4, <1>7
  <2>2. \A i \in 1 .. k : q[i] = objects[i]
      BY <1>3, <1>7 DEF IsPart
  <2>. QED  BY <1>4, <2>1, <2>2, OffsetsOfPart
<1>9. End(q) = p
    BY <1>1, <1>2, <1>4, <1>7, <1>8 DEF End
<1>. QED  BY <1>1, <1>4, <1>7, <1>9

LEMMA LoadedToWritePlace ==
    ASSUME NEW d \in Drives, NEW fixed \in BOOLEAN, NEW bytes \in Nat, NEW n \in Int, NEW record \in Nat,
           NEW e, e = LoadedToWrite(d, fixed, bytes, n, record)
    PROVE  e.position = d.position /\ e.location = d.location /\ e.initial
BY DEF LoadedToWrite, Drives

LEMMA WritePlaced ==
    ASSUME TapeInv, PositionInv, NEW explicit \in BOOLEAN, NEW identifier \in Nat, NEW fixed \in BOOLEAN,
           NEW n \in Nat, Write(explicit, identifier, fixed, n)
    PROVE  PositionInv'
<1>1. PICK l : l = Located(explicit, identifier)
    OBVIOUS
<1>2. PICK bytes : bytes = Requested(fixed, n)
    OBVIOUS
<1>3. l.drive \in Drives
    BY <1>1, LocatedDrive DEF TapeInv
<1>4. bytes \in Nat /\ bytes \in Int
    BY <1>2, RequestedType
<1>5. PICK d : d = [l.drive EXCEPT !.fixed = fixed, !.bytes = bytes]
    OBVIOUS
<1>6. PICK record : record = IF fixed THEN BlockSize ELSE bytes
    OBVIOUS
<1>7. record \in Nat
    BY <1>4, <1>6, Sizes
<1>8. PICK e : e = LoadedToWrite(l.drive, fixed, bytes, bytes, record)
    OBVIOUS
<1>9. e.position = l.drive.position /\ e.location = l.drive.location /\ e.initial
    BY <1>3, <1>4, <1>7, <1>8, LoadedToWritePlace
<1>10. PICK t : t = Transfer("write", bytes, FALSE)
    OBVIOUS
<1>11. /\ Idle
       /\ IF ~l.ok THEN LocateFails(l)
          ELSE /\ drive' = IF bytes = 0 THEN l.drive ELSE e
               /\ transfer' = IF bytes = 0 THEN NoTransfer ELSE t
               /\ uncounted' = Uncounted(explicit) /\ lost' = Lost(explicit, d) /\ received' = <<>>
               /\ SameTape
    BY <1>1, <1>2, <1>5, <1>6, <1>8, <1>10 DEF Write, Requested, LoadedToWrite
<1>12. d.position = l.drive.position
    BY <1>3, <1>5 DEF Drives
<1>13. ASSUME ~tar, l.ok, ~Lost(explicit, d)
       PROVE  Aligned(objects, l.drive.position, l.drive.location, Uncounted(explicit))
    BY <1>1, <1>11, <1>12, <1>13, LocatedPlace
<1>14. Uncounted(explicit) \in BOOLEAN
    BY UncountedType
<1>15. CASE ~l.ok
    BY <1>11, <1>15, LocateFailsPlaced
<1>16. CASE l.ok
  <2>1. /\ objects' = objects /\ tar' = tar /\ uncounted' = Uncounted(explicit)
        /\ lost' = Lost(explicit, d) /\ received' = <<>>
      BY <1>11, <1>16 DEF SameTape, SameFile
  <2>2. CASE bytes = 0
    <3>1. drive' = l.drive /\ transfer'.op = "none"
        BY <1>11, <1>16, <2>2, NoTransferType
    <3>. QED  BY <1>13, <1>14, <1>16, <2>1, <3>1, PlacedIdle
  <2>3. CASE bytes # 0
    <3>1. drive' = e /\ transfer' = t
        BY <1>11, <1>16, <2>3
    <3>2. t.op = "write"
        BY <1>10 DEF Transfer
    <3>3. ASSUME ~tar, ~lost'
          PROVE  Settled(objects, e, t, uncounted')
      <4>1. Aligned(objects, e.position, e.location, uncounted')
          BY <1>9, <1>13, <1>16, <2>1, <3>3
      <4>. QED  BY <1>9, <3>2, <4>1 DEF Settled
    <3>4. PlaceInv'
        BY <2>1, <3>1, <3>3 DEF PlaceInv
    <3>5. ReceivedInv'
        BY <2>1 DEF ReceivedInv
    <3>. QED  BY <1>14, <2>1, <3>4, <3>5 DEF PositionInv
  <2>. QED  BY <2>2, <2>3
<1>. QED  BY <1>15, <1>16

LEMMA AbortPlaced ==
    ASSUME TapeInv, PositionInv, Abort
    PROVE  PositionInv'
<1>1. /\ transfer' = NoTransfer /\ drive' = AtRest(drive) /\ received' = <<>> /\ uncounted' = uncounted
      /\ lost' = (lost \/ ~(drive.fixed \/ drive.initial)) /\ objects' = objects /\ tar' = tar
    BY DEF Abort, SameTape, SameFile
<1>2. drive \in Drives /\ uncounted \in BOOLEAN
    BY DEF TapeInv, TypesInv, PositionInv
<1>3. transfer'.op = "none" /\ drive'.position = drive.position /\ drive'.location = drive.location
    BY <1>1, <1>2, RestDrive, NoTransferType
<1>4. ASSUME ~tar, ~lost'
      PROVE  Aligned(objects, drive.position, drive.location, uncounted)
    BY <1>1, <1>4 DEF PositionInv, PlaceInv, Settled
<1>. QED  BY <1>1, <1>2, <1>3, <1>4, PlacedIdle

\* The drive d is at the end of the j filemarks that have been written with r.
LEMMA MarksPlace ==
    ASSUME objects \in Objects, NEW d \in Drives, NEW p, p = d.position, NEW s, s.drive = d,
           NEW r, NEW j \in Nat, Marks(s, r, p, j)
    PROVE  /\ r.drive.position = MarkAt(p, j) /\ r.drive.location = d.location
           /\ r.drive.position = p + 2 * j
           /\ j = 0 => r.drive.position = p
<1>1. p \in Int
    BY DEF Drives
<1>2. MarkAt(p, j) \in Int /\ MarkAt(p, j) = p + 2 * j /\ (j = 0 => MarkAt(p, j) = p)
    BY <1>1 DEF MarkAt
<1>3. r.drive = Placed(d, MarkAt(p, j))
    BY DEF Marks
<1>. QED  BY <1>2, <1>3, PlacedDrive

LEMMA MarksEnd ==
    ASSUME NEW q \in Objects, NEW j \in Nat, NEW o, o = WithMarks(q, j)
    PROVE  o \in Objects /\ End(o) = MarkAt(End(q), j)
<1>1. j \in 0 .. j
    OBVIOUS
<1>. QED  BY <1>1, WithMarksObjects DEF End

LEMMA WriteFilemarksPlaced ==
    ASSUME TapeInv, PositionInv, NEW identifier \in Nat, NEW n \in Nat, WriteFilemarks(identifier, n)
    PROVE  PositionInv'
<1>1. PICK explicit : explicit = (identifier > 0)
    OBVIOUS
<1>0. explicit \in BOOLEAN
    BY <1>1
<1>2. PICK l : l = Located(explicit, identifier)
    OBVIOUS
<1>3. PICK d : d = l.drive
    OBVIOUS
<1>4. PICK p : p = d.position
    OBVIOUS
<1>5. PICK r : r = PutFilemarks(State(d), n)
    OBVIOUS
<1>6. PICK written : written = (r.drive.position - p) \div 2
    OBVIOUS
<1>7. PICK q : q = Kept(p)
    OBVIOUS
<1>8. d \in Drives /\ p \in Int
    BY <1>2, <1>3, <1>4, LocatedDrive DEF TapeInv, Drives
<1>9. l = Located(identifier > 0, identifier)
    BY <1>1, <1>2
<1>10. Idle /\ ~tar /\ transfer.op = "none"
    BY DEF WriteFilemarks, Ready, Idle
<1>11. CASE ~l.ok
  <2>1. LocateFails(l)
      BY <1>9, <1>11 DEF WriteFilemarks
  <2>. QED  BY <2>1, LocateFailsPlaced
<1>12. CASE l.ok
  <2>1. /\ drive' = r.drive
        /\ objects' = IF written = 0 THEN objects
                      ELSE q \o IF End(q) = p THEN Repeat(written, <<>>) ELSE <<>>
        /\ lost' = (Lost(explicit, d) \/ ~r.ok)
        /\ uncounted' = (Uncounted(explicit) \/ written > 0)
        /\ received' = <<>> /\ transfer' = transfer /\ tar' = tar
      BY <1>1, <1>3, <1>4, <1>5, <1>6, <1>7, <1>9, <1>12 DEF WriteFilemarks, META_DATA_SIZE
  <2>2. Uncounted(explicit) \in BOOLEAN
      BY <1>0, UncountedType
  <2>3. uncounted' \in BOOLEAN
      BY <2>1, <2>2
  <2>4. Configured /\ FileOK(file, size) /\ objects \in Objects
      BY InvConfigured DEF TapeInv, TypesInv, ObjectsInv
  <2>5. PICK s : s = State(d)
      OBVIOUS
  <2>6. Sound(s) /\ s.drive = d
      BY <1>8, <2>4, <2>5, StateSound
  <2>7. p = s.drive.position /\ r = PutFilemarks(s, n)
      BY <1>4, <1>5, <2>5, <2>6
  <2>8. PICK j \in Nat : Marks(s, r, p, j)
      BY <1>10, <2>4, <2>6, <2>7, PutFilemarksEffect
  <2>9. /\ r.drive.position = MarkAt(p, j) /\ r.drive.location = d.location
        /\ r.drive.position = p + 2 * j
        /\ j = 0 => r.drive.position = p
      BY <1>4, <1>8, <2>4, <2>6, <2>8, MarksPlace
  <2>10. written = j
    <3>1. (r.drive.position - p) = 2 * j
        BY <1>8, <2>9
    <3>2. (2 * j) \div 2 = j
        OBVIOUS
    <3>. QED  BY <1>6, <3>1, <3>2
  <2>11. ASSUME ~lost'
         PROVE  Aligned(objects, p, d.location, Uncounted(explicit))
    <3>1. ~Lost(explicit, d) /\ d.position = l.drive.position
        BY <1>3, <2>1, <2>11
    <3>2. Aligned(objects, l.drive.position, l.drive.location, Uncounted(explicit))
        BY <1>0, <1>2, <1>10, <1>12, <3>1, LocatedPlace
    <3>. QED  BY <1>3, <1>4, <3>2
  <2>12. ASSUME ~lost'
         PROVE  Aligned(objects', r.drive.position, r.drive.location, uncounted')
    <3>1. CASE j = 0
      <4>1. objects' = objects /\ ~(written > 0)
          BY <2>1, <2>10, <3>1
      <4>2. uncounted' = Uncounted(explicit)
          BY <2>1, <2>2, <4>1
      <4>. QED  BY <2>9, <2>11, <2>12, <3>1, <4>1, <4>2
    <3>2. CASE j # 0
      <4>1. q \in Objects /\ End(q) = p
          BY <1>7, <1>8, <2>4, <2>11, <2>12, KeptAt
      <4>2. written # 0 /\ written > 0
          BY <2>10, <3>2
      <4>3. objects' = WithMarks(q, j)
          BY <2>1, <2>10, <4>1, <4>2 DEF WithMarks, Blank
      <4>4. objects' \in Objects /\ End(objects') = MarkAt(p, j)
          BY <4>1, <4>3, MarksEnd
      <4>5. uncounted'
          BY <2>1, <4>2
      <4>. QED  BY <2>9, <4>4, <4>5, AlignedEnd
    <3>. QED  BY <3>1, <3>2
  <2>13. transfer'.op = "none"
      BY <1>10, <2>1
  <2>. QED  BY <2>1, <2>3, <2>12, <2>13, PlacedIdle
<1>. QED  BY <1>11, <1>12

LEMMA EraseRestPlaced ==
    ASSUME TapeInv, PositionInv, EraseRest
    PROVE  PositionInv'
<1>1. PICK s : s = State(drive)
    OBVIOUS
<1>2. PICK w : w = PutEndOfData(s)
    OBVIOUS
<1>3. PICK p : p = drive.position
    OBVIOUS
<1>4. PICK o : o = Kept(p)
    OBVIOUS
<1>5. /\ Configured /\ Sound(s) /\ s.drive = drive /\ p = s.drive.position
      /\ p \in Int /\ objects \in Objects /\ uncounted \in BOOLEAN
    BY <1>1, <1>3, InvConfigured DEF TapeInv, TypesInv, ObjectsInv, Drives, PositionInv
<1>6. w.drive = drive
    BY <1>2, <1>5, PutEndOfDataEffect
<1>7. /\ ~tar /\ tar' = tar /\ drive' = w.drive /\ objects' = o /\ received' = <<>>
      /\ lost' = lost /\ uncounted' = uncounted /\ transfer.op = "none" /\ transfer' = transfer
    BY <1>1, <1>2, <1>3, <1>4 DEF EraseRest, Ready, Idle, EndOfDataWritten
<1>8. ASSUME ~lost
      PROVE  Aligned(o, drive.position, drive.location, uncounted)
  <2>1. Settled(objects, drive, transfer, uncounted)
      BY <1>7, <1>8 DEF PositionInv, PlaceInv
  <2>2. Aligned(objects, p, drive.location, uncounted)
      BY <1>3, <1>7, <2>1, SettledIdle
  <2>3. o \in Objects /\ End(o) = p /\ (uncounted \/ drive.location = Len(o))
      BY <1>4, <1>5, <2>2, KeptAt
  <2>. QED  BY <1>3, <2>3, AlignedEnd
<1>9. transfer'.op = "none"
    BY <1>7
<1>10. ~tar' /\ ~lost' => Aligned(objects', drive'.position, drive'.location, uncounted')
    BY <1>6, <1>7, <1>8
<1>. QED  BY <1>5, <1>7, <1>9, <1>10, PlacedIdle

LEMMA EraseAllPlaced ==
    ASSUME TapeInv, PositionInv, EraseAll
    PROVE  PositionInv'
<1>1. PICK s : s = State(drive)
    OBVIOUS
<1>2. PICK v : v = Erased(s)
    OBVIOUS
<1>3. PICK x : x = Rewound(v)
    OBVIOUS
<1>4. PICK w : w = PutEndOfData(x)
    OBVIOUS
<1>5. /\ transfer.op = "none" /\ transfer' = transfer /\ tar' = tar /\ received' = <<>>
      /\ IF v.ok THEN drive' = w.drive /\ objects' = <<>> /\ uncounted' = FALSE
         ELSE lost' = TRUE /\ uncounted' = uncounted
      /\ drive.position <= Capacity
    BY <1>1, <1>2, <1>3, <1>4 DEF EraseAll, Ready, Idle, EndOfDataWritten, Rewound
<1>6. uncounted' \in BOOLEAN /\ transfer'.op = "none"
    BY <1>5 DEF PositionInv
<1>7. ASSUME v.ok
      PROVE  Aligned(objects', drive'.position, drive'.location, uncounted')
  <2>1. Sound(v) /\ Configured
      BY <1>1, <1>2, <1>5, ErasedEffect, InvConfigured DEF TapeInv
  <2>2. Sound(x)
      BY <1>3, <2>1, RewoundSound
  <2>3. w.drive = x.drive
      BY <1>4, <2>1, <2>2, PutEndOfDataEffect
  <2>4. v.drive \in Drives
      BY <2>1 DEF Sound, States
  <2>5. x.drive = Reset(v.drive)
      BY <1>3, <2>1 DEF Rewound, Sound, States
  <2>6. x.drive.position = 0 /\ x.drive.location = 0
      BY <2>4, <2>5, ResetDrive
  <2>7. <<>> \in Objects
      BY NoObjects
  <2>. QED  BY <1>5, <1>7, <2>3, <2>6, <2>7, AlignedBegin
<1>8. ~tar' /\ ~lost' => Aligned(objects', drive'.position, drive'.location, uncounted')
    BY <1>5, <1>7
<1>. QED  BY <1>5, <1>6, <1>8, PlacedIdle

\* A search forwards does not come to the beginning of the tape.
LEMMA NextNotBegins ==
    ASSUME FileOK(file, size), NEW x \in Places
    PROVE  NextObject[x].what # "begin-of-medium"
<1>. DEFINE S == {y \in Places : NextObject[y].what # "begin-of-medium"}
<1>1. ASSUME NEW y \in NextStop
      PROVE  y \in S
  <2>1. y \in Places /\ NextObject[y] = NextFound[y]
      BY NextObjectSays DEF NextStop
  <2>2. CASE y[1] < 0
      BY <2>1, <2>2 DEF NextFound, Found
  <2>3. CASE ~(y[1] < 0)
    <3>1. PICK m : m = At(y[1])
        OBVIOUS
    <3>2. NextFound[y].what = Meaning(m)
        BY <2>1, <2>3, <3>1 DEF NextFound, Found
    <3>. QED  BY <2>1, <3>2 DEF Meaning
  <2>. QED  BY <2>2, <2>3
<1>2. ASSUME NEW y \in Places \ NextStop, NextStep[y] \in S
      PROVE  y \in S
    BY <1>2, NextObjectSays
<1>3. \A y \in NextStop : y \in S
    BY <1>1
<1>. HIDE DEF S
<1>4. x \in S
    BY <1>2, <1>3, NextWalk, WalkInduction
<1>. QED  BY <1>4 DEF S

LEMMA ForwardNotBegins ==
    ASSUME FileOK(file, size), NEW d \in Drives, NEW type, NEW count \in Int, NEW read,
           NEW w, w = FindForward(d, type, count, read)
    PROVE  w.what # "begin-of-medium"
<1>1. PICK f \in [Searches -> Results] :
          /\ w = f[From(d, count)]
          /\ Solves(f, Searches, ForwardStop(type, read), ForwardStep(type, read), ForwardFound(type, read))
    BY FindForwardSays
<1>2. Descends(Searches, size, SearchLeft, ForwardStop(type, read), ForwardStep(type, read)) /\ size \in Nat
    BY ForwardWalk, Sizes DEF FileOK
<1>. DEFINE S == {x \in Searches : f[x].what # "begin-of-medium"}
<1>3. ASSUME NEW x \in ForwardStop(type, read)
      PROVE  x \in S
  <2>1. PICK r : r = Ahead(x)
      OBVIOUS
  <2>2. x \in Searches /\ f[x] = Stopped(type, read, r)
      BY <1>1, <2>1 DEF Solves, ForwardStop, ForwardFound
  <2>3. r \in Results /\ r.what # "begin-of-medium"
      BY <2>1, <2>2, AheadType, NextNotBegins DEF Ahead
  <2>4. Stopped(type, read, r).what # "begin-of-medium"
      BY <2>3 DEF Stopped, Found, Results
  <2>. QED  BY <2>2, <2>4
<1>4. ASSUME NEW x \in Searches \ ForwardStop(type, read), ForwardStep(type, read)[x] \in S
      PROVE  x \in S
    BY <1>1, <1>4 DEF Solves
<1>5. \A x \in ForwardStop(type, read) : x \in S
    BY <1>3
<1>. HIDE DEF S
<1>6. \A x \in Searches : x \in S
    BY <1>2, <1>4, <1>5, WalkInduction
<1>7. From(d, count) \in Searches
    BY DEF From, Searches, Drives
<1>. QED  BY <1>1, <1>6, <1>7 DEF S

\* Where a search ends, unless there is only what follows the objects
LEMMA ForwardPlace ==
    ASSUME Known, NEW d \in Drives, NEW u, Aligned(objects, d.position, d.location, u),
           NEW type, NEW n \in Int, NEW r, r = FindForward(d, type, n, FALSE), r.what \in Orderly,
           NEW p, p = EndsAt(type, r), ~Outside(p)
    PROVE  Aligned(objects, p, r.location, u)
<1>1. d.location \in Int /\ Len(objects) \in Nat
    BY KnownSays DEF Drives
<1>2. PICK c \in Int : AtObject(d.position, d.location, c) /\ (u \/ c = 0)
    BY <1>1, AlignedFrom
<1>3. Tracked(d.position, d.location, c)
    BY <1>2 DEF Tracked
<1>4. PICK read : read = FALSE
    OBVIOUS
<1>5. r = FindForward(d, type, n, read) /\ (read => type = "block")
    BY <1>4
<1>6. Way(type, r, c)
    BY <1>3, <1>5, FoundForward
<1>7. AtObject(p, r.location, c)
    BY <1>6 DEF Way, Tracked
<1>. QED  BY <1>2, <1>7, AlignedAt

LEMMA BackwardPlace ==
    ASSUME Known, NEW d \in Drives, NEW u, Aligned(objects, d.position, d.location, u),
           NEW type, NEW n \in Int, NEW r, r = FindBackward(d, type, n), r.what \in Orderly,
           r.what # "begin-of-medium"
    PROVE  Aligned(objects, r.position, r.location, u)
<1>1. d.location \in Int /\ Len(objects) \in Nat
    BY KnownSays DEF Drives
<1>2. PICK c \in Int : AtObject(d.position, d.location, c) /\ (u \/ c = 0)
    BY <1>1, AlignedFrom
<1>3. WayBack(r, c)
    BY <1>2, FoundBackward
<1>4. AtObject(r.position, r.location, c)
    BY <1>3 DEF WayBack
<1>. QED  BY <1>2, <1>4, AlignedAt

LEMMA MovingPlaced ==
    ASSUME TapeInv, PositionInv, Idle, NEW d, NEW what, NEW reset \in BOOLEAN, Moving(d, what, reset),
           ~tar /\ ~(lost /\ ~reset) /\ what \in Orderly /\ ~Astray(d) =>
                Aligned(objects, d.position, d.location, uncounted')
    PROVE  PositionInv'
<1>1. /\ drive' = d /\ lost' = ((lost /\ ~reset) \/ what \notin Orderly \/ Astray(d))
      /\ uncounted' = (uncounted /\ ~reset) /\ received' = <<>> /\ transfer' = transfer
      /\ objects' = objects /\ tar' = tar
    BY DEF Moving, SameTape, SameFile
<1>2. uncounted' \in BOOLEAN
    BY <1>1 DEF PositionInv
<1>3. transfer'.op = "none"
    BY <1>1 DEF Idle
<1>4. ~tar' /\ ~lost' => Aligned(objects', drive'.position, drive'.location, uncounted')
    BY <1>1
<1>. QED  BY <1>1, <1>2, <1>3, <1>4, PlacedIdle

LEMMA SpacePlaced ==
    ASSUME TapeInv, PositionInv, NEW type, NEW n \in Int, Space(type, n)
    PROVE  PositionInv'
<1>1. drive \in Drives /\ FileOK(file, size) /\ Known /\ objects \in Objects /\ uncounted \in BOOLEAN
    BY DEF TapeInv, TypesInv, ObjectsInv, Known, PositionInv
<1>2. PICK r : r = IF n < 0 THEN FindBackward(drive, type, -n) ELSE FindForward(drive, type, n, FALSE)
    OBVIOUS
<1>3. PICK reset \in BOOLEAN : reset = (r.what = "begin-of-medium")
    OBVIOUS
<1>4. PICK d : d = IF type = "end-of-data" /\ r.what = "found" THEN Moved(drive, InFront(r)) ELSE Moved(drive, r)
    OBVIOUS
<1>5. Idle /\ ~tar /\ (type = "end-of-data" <=> n = 0) /\ Moving(d, r.what, reset)
    BY <1>2, <1>3, <1>4 DEF Space, Ready, InFront
<1>6. uncounted' = (uncounted /\ ~reset)
    BY <1>5 DEF Moving
<1>7. ASSUME ~lost
      PROVE  Aligned(objects, drive.position, drive.location, uncounted)
  <2>1. Settled(objects, drive, transfer, uncounted)
      BY <1>5, <1>7 DEF PositionInv, PlaceInv
  <2>. QED  BY <1>5, <2>1, SettledIdle DEF Idle
<1>8. ASSUME ~(lost /\ ~reset), r.what \in Orderly, ~Astray(d)
      PROVE  Aligned(objects, d.position, d.location, uncounted')
  <2>1. CASE n < 0
    <3>1. PICK m \in Int : m = -n
        OBVIOUS
    <3>2. r = FindBackward(drive, type, m)
        BY <1>2, <2>1, <3>1
    <3>3. r \in Results /\ Begins(r)
        BY <1>1, <3>2, FoundBackward
    <3>4. type # "end-of-data"
        BY <1>5, <2>1
    <3>5. d.position = r.position /\ d.location = r.location
        BY <1>1, <1>4, <3>3, <3>4, MovedDrive
    <3>6. CASE r.what = "begin-of-medium"
        BY <1>1, <3>3, <3>5, <3>6, AlignedBegin DEF Begins
    <3>7. CASE r.what # "begin-of-medium"
      <4>1. ~lost /\ uncounted' = uncounted
          BY <1>1, <1>3, <1>6, <1>8, <3>7
      <4>2. Aligned(objects, drive.position, drive.location, uncounted)
          BY <1>7, <4>1
      <4>3. Aligned(objects, r.position, r.location, uncounted)
          BY <1>1, <1>8, <3>1, <3>2, <3>7, <4>2, BackwardPlace
      <4>. QED  BY <3>5, <4>1, <4>3
    <3>. QED  BY <3>6, <3>7
  <2>2. CASE ~(n < 0)
    <3>1. r = FindForward(drive, type, n, FALSE)
        BY <1>2, <2>2
    <3>2. PICK read : read = FALSE
        OBVIOUS
    <3>3. r = FindForward(drive, type, n, read)
        BY <3>1, <3>2
    <3>4. r \in Results /\ r.what # "begin-of-medium"
        BY <1>1, <3>3, FindTypes, ForwardNotBegins
    <3>5. ~lost /\ uncounted' = uncounted
        BY <1>1, <1>3, <1>6, <1>8, <3>4
    <3>6. Aligned(objects, drive.position, drive.location, uncounted)
        BY <1>7, <3>5
    <3>7. PICK p : p = EndsAt(type, r)
        OBVIOUS
    <3>8. d.position = p /\ d.location = r.location
      <4>1. CASE type = "end-of-data" /\ r.what = "found"
        <5>1. d = Moved(drive, InFront(r)) /\ p = r.position - 2
            BY <1>4, <3>7, <4>1 DEF EndsAt
        <5>2. InFront(r) \in Results /\ InFront(r).position = r.position - 2 /\ InFront(r).location = r.location
            BY <3>4, InFrontResult
        <5>. QED  BY <1>1, <5>1, <5>2, MovedDrive
      <4>2. CASE ~(type = "end-of-data" /\ r.what = "found")
        <5>1. d = Moved(drive, r) /\ p = r.position
            BY <1>4, <3>7, <4>2 DEF EndsAt
        <5>. QED  BY <1>1, <3>4, <5>1, MovedDrive
      <4>. QED  BY <4>1, <4>2
    <3>9. ~Outside(p)
        BY <1>8, <3>8 DEF Outside, Astray
    <3>10. Aligned(objects, p, r.location, uncounted)
        BY <1>1, <1>8, <3>1, <3>6, <3>7, <3>9, ForwardPlace
    <3>. QED  BY <3>5, <3>8, <3>10
  <2>. QED  BY <2>1, <2>2
<1>. QED  BY <1>5, <1>8, MovingPlaced

LEMMA LocatePlaced ==
    ASSUME TapeInv, PositionInv, NEW identifier \in Nat, Locate(identifier)
    PROVE  PositionInv'
<1>1. PICK l : l = Located(TRUE, identifier)
    OBVIOUS
<1>2. PICK what : what = IF l.ok THEN "found" ELSE "not-found"
    OBVIOUS
<1>3. PICK yes \in BOOLEAN : yes = TRUE
    OBVIOUS
<1>4. Idle /\ Moving(l.drive, what, yes)
    BY <1>1, <1>2, <1>3 DEF Locate, Ready
<1>5. uncounted' = (uncounted /\ ~yes)
    BY <1>4 DEF Moving
<1>6. Uncounted(yes) = uncounted'
    BY <1>5 DEF Uncounted
<1>7. l = Located(yes, identifier)
    BY <1>1, <1>3
<1>8. ASSUME ~tar, what \in Orderly, ~Astray(l.drive)
      PROVE  Aligned(objects, l.drive.position, l.drive.location, uncounted')
  <2>1. l.ok
      BY <1>2, <1>8 DEF Orderly
  <2>2. PICK d : d = l.drive
      OBVIOUS
  <2>3. ~Lost(yes, d) /\ d.position = l.drive.position
      BY <1>3, <1>8, <2>2 DEF Lost
  <2>4. Aligned(objects, l.drive.position, l.drive.location, Uncounted(yes))
      BY <1>4, <1>7, <1>8, <2>1, <2>3, LocatedPlace
  <2>. QED  BY <1>6, <2>4
<1>. QED  BY <1>3, <1>4, <1>8, MovingPlaced

LEMMA RewindPlaced ==
    ASSUME TapeInv, PositionInv, Rewind
    PROVE  PositionInv'
<1>1. drive \in Drives /\ objects \in Objects
    BY DEF TapeInv, TypesInv, ObjectsInv
<1>2. PICK d : d = Reset(drive)
    OBVIOUS
<1>3. PICK yes \in BOOLEAN : yes = TRUE
    OBVIOUS
<1>4. PICK what : what = "done"
    OBVIOUS
<1>5. Idle /\ Moving(d, what, yes)
    BY <1>2, <1>3, <1>4 DEF Rewind
<1>6. Aligned(objects, d.position, d.location, uncounted')
    BY <1>1, <1>2, ResetDrive, AlignedBegin
<1>. QED  BY <1>3, <1>5, <1>6, MovingPlaced

LEMMA OpenPlaced ==
    ASSUME TapeInv, PositionInv, Open
    PROVE  PositionInv'
<1>1. drive \in Drives /\ objects \in Objects
    BY DEF TapeInv, TypesInv, ObjectsInv
<1>2. /\ drive' = Reset(drive) /\ uncounted' = FALSE /\ received' = <<>> /\ transfer'.op = "none"
      /\ objects' = objects
    BY DEF Open, Idle
<1>3. Aligned(objects', drive'.position, drive'.location, uncounted')
    BY <1>1, <1>2, ResetDrive, AlignedBegin
<1>. QED  BY <1>2, <1>3, PlacedIdle

\* A block that cannot be started leaves the drive where it is.
LEMMA NotStarted ==
    ASSUME FileOK(file, size), ~tar, NEW d \in Drives, AtRecordBoundary(d),
           Overflow(State(d), d.position + META_DATA_SIZE), NEW bytes, NEW r, r = WriteData(d, bytes)
    PROVE  r.drive.position = d.position /\ r.drive.location = d.location
<1>1. PICK c : c = Started(d)
    OBVIOUS
<1>2. c \in Drives /\ c.position = d.position /\ c.location = d.location
    BY <1>1, StartedDrive
<1>3. PICK s : s = State(c)
    OBVIOUS
<1>4. Sound(s) /\ s.drive = c
    BY <1>2, <1>3, StateSound
<1>5. State(d).drive = d
    BY DEF State
<1>6. Overflow(s, s.drive.position + META_DATA_SIZE)
    BY <1>2, <1>4, <1>5 DEF Overflow
<1>7. PICK w : w = [s EXCEPT !.ok = FALSE]
    OBVIOUS
<1>8. Sound(w) /\ ~w.ok /\ w.drive = c
    BY <1>4, <1>7, Fail
<1>9. PutMetaData(s, Good, d.record) = w
    BY <1>6, <1>7 DEF PutMetaData
<1>10. PutObject(s, d.record) = w
    BY <1>8, <1>9 DEF PutObject, PutEndOfData
<1>11. WithLength(d) = w
    BY <1>1, <1>3, <1>10 DEF WithLength, Started
<1>12. PICK v : v = WithData(w, bytes)
    OBVIOUS
<1>13. v = [w EXCEPT !.ok = FALSE]
    BY <1>8, <1>12 DEF WithData
<1>14. ~v.ok /\ v.drive = c
    BY <1>8, <1>13, Fail
<1>15. WithEnd(WithTail(v)) = v
    BY <1>14 DEF WithEnd, WithTail
<1>16. r = v
    BY <1>11, <1>12, <1>15, WriteDataParts
<1>. QED  BY <1>2, <1>14, <1>16

\* The block that is written begins behind the objects q.
BlockKnown(q, u) == q \in Objects /\ End(q) = BlockStart /\ (u \/ drive.location = Len(q))

LEMMA BaseKnown ==
    ASSUME TapeInv, ~tar, transfer.op = "write", NEW u, Settled(objects, drive, transfer, u),
           AtRecordBoundary(drive) => WriteStarts
    PROVE  BlockKnown(Base, u)
<1>1. drive \in Drives /\ objects \in Objects /\ transfer \in Transfers
    BY DEF TapeInv, TypesInv, ObjectsInv
<1>2. AtRecordBoundary(drive) <=> drive.fixed \/ drive.initial
    BY Boundaries DEF TapeInv
<1>3. PICK p \in Int : p = drive.position
    BY <1>1 DEF Drives
<1>4. CASE AtRecordBoundary(drive)
  <2>1. Aligned(objects, p, drive.location, u)
      BY <1>2, <1>3, <1>4 DEF Settled
  <2>2. Base = Kept(p) /\ BlockStart = p
      BY <1>3, <1>4 DEF Base, BlockStart
  <2>. QED  BY <1>1, <2>1, <2>2, KeptAt DEF BlockKnown
<1>5. CASE ~AtRecordBoundary(drive)
  <2>1. p = End(objects) + 2 + Len(transfer.sent) /\ (u \/ drive.location = Len(objects))
      BY <1>2, <1>3, <1>5 DEF Settled
  <2>2. Base = objects
      BY <1>5 DEF Base, WriteStarts
  <2>3. BlockStart = p - 2 - Len(transfer.sent)
      BY <1>3, <1>5 DEF BlockStart, META_DATA_SIZE
  <2>4. PICK m \in Nat : m = Len(transfer.sent)
      BY <1>1 DEF Transfers
  <2>5. PICK a \in Nat : a = End(objects)
      BY <1>1, Ends
  <2>6. BlockStart = a
      BY <2>1, <2>3, <2>4, <2>5
  <2>. QED  BY <1>1, <2>1, <2>2, <2>5, <2>6 DEF BlockKnown
<1>. QED  BY <1>4, <1>5

\* Where the next part of the block goes
LEMMA NextPosition ==
    ASSUME TapeInv, transfer.op = "write", NEW b \in Data, NEW e, e = Filling(drive, transfer.chunk),
           NEW a \in Int, a = BlockStart, NEW s, s = Sent(Chunk(b))
    PROVE  e.position = a + 2 + Len(s)
<1>1. drive \in Drives /\ transfer \in Transfers
    BY DEF TapeInv, TypesInv
<1>2. PICK bytes \in Seq(Nat) : bytes = Chunk(b) /\ Len(bytes) = transfer.chunk
    BY ChunkBytes DEF TapeInv
<1>3. PICK n \in Nat : n = Len(bytes)
    OBVIOUS
<1>4. PICK p \in Int : p = drive.position
    BY <1>1 DEF Drives
<1>5. e.position = DataPosition(drive) + n
    BY <1>2, <1>3, Boundaries DEF TapeInv
<1>6. CASE AtRecordBoundary(drive)
  <2>1. e.position = (p + 2) + n /\ a = p
      BY <1>4, <1>5, <1>6 DEF DataPosition, BlockStart
  <2>2. Len(s) = n
      BY <1>2, <1>3, <1>6 DEF Sent
  <2>. QED  BY <2>1, <2>2
<1>7. CASE ~AtRecordBoundary(drive)
  <2>1. PICK t \in Seq(Nat) : t = transfer.sent
      BY <1>1 DEF Transfers
  <2>2. PICK m \in Nat : m = Len(t)
      OBVIOUS
  <2>3. s = t \o bytes
      BY <1>2, <1>7, <2>1 DEF Sent
  <2>4. Len(s) = m + n
      BY <1>3, <2>2, <2>3
  <2>5. e.position = p + n /\ a = p - 2 - m
      BY <1>4, <1>5, <1>7, <2>1, <2>2 DEF DataPosition, BlockStart, META_DATA_SIZE
  <2>. QED  BY <2>4, <2>5
<1>. QED  BY <1>6, <1>7

\* The drive is behind a block that has been written behind q.
LEMMA BehindBlock ==
    ASSUME NEW q \in Objects, NEW s \in Seq(Nat), NEW o, o = With(q, s), NEW p, p = End(q) + Width(s),
           NEW l \in Int, NEW k, k = l + 1, NEW u, u \/ l = Len(q)
    PROVE  Aligned(o, p, k, u)
<1>1. o \in Objects /\ Len(o) = Len(q) + 1 /\ End(o) = End(q) + Width(s)
    BY WithObject
<1>2. u \/ k = Len(o)
    BY <1>1
<1>. QED  BY <1>1, <1>2, AlignedEnd

LEMMA WriteNextPlaced ==
    ASSUME TapeInv, PositionInv, NEW b \in Data, WriteNext(b)
    PROVE  PositionInv'
<1>. DEFINE p == drive.position
            n == transfer.chunk
            bytes == Chunk(b)
            sent == Sent(bytes)
            last(r) == ~r.ok \/ transfer.rest = n
            complete(r) == r.drive.location > drive.location
            exact == End(Base) = BlockStart
            boundary == AtRecordBoundary(drive)
<1>1. PICK r : r = WriteData(drive, bytes)
    OBVIOUS
<1>2. PICK e : e = Filling(drive, n)
    OBVIOUS
<1>3. /\ transfer.op = "write"
      /\ drive' = IF last(r) THEN AtRest(r.drive) ELSE r.drive
      /\ transfer' = IF last(r) THEN NoTransfer
                     ELSE [Advanced(transfer) EXCEPT !.sent = IF complete(r) \/ tar THEN <<>> ELSE sent]
      /\ objects' = IF complete(r) /\ exact THEN Append(Base, sent) ELSE Base
      /\ lost' = (lost \/ (~r.ok /\ (WriteStarts \/ ~boundary)))
      /\ tar' = tar /\ uncounted' = uncounted /\ received' = received
    BY <1>1, WriteNextSays
<1>4. Configured
    BY InvConfigured DEF TapeInv
<1>5. /\ drive \in Drives /\ transfer \in Transfers /\ FileOK(file, size)
      /\ n \in 1 .. transfer.rest /\ n <= BlockSize /\ uncounted \in BOOLEAN /\ objects \in Objects
    BY <1>3 DEF TapeInv, TypesInv, ObjectsInv, PositionInv
<1>6. bytes \in Seq(Nat) /\ Len(bytes) = n
    BY <1>3, ChunkBytes DEF TapeInv
<1>7. /\ boundary <=> ~tar /\ (drive.fixed \/ drive.initial)
      /\ AtRecordBoundary(e) <=> ~tar /\ (drive.fixed \/ transfer.rest = n)
      /\ e \in Drives /\ e.location = drive.location /\ e.fixed = drive.fixed /\ ~e.initial
    BY <1>2, <1>3, Boundaries DEF TapeInv
<1>8. e = Filling(drive, Len(bytes))
    BY <1>2, <1>6
<1>. HIDE DEF bytes
<1>9. /\ Sound(r) /\ Extends(State(drive), r, p)
      /\ r.drive.location = drive.location \/ BlockWritten(drive, bytes, r)
      /\ r.ok => BlockWritten(drive, bytes, r) \/ (~AtRecordBoundary(e) /\ r.drive = e)
      /\ boundary /\ Overflow(State(drive), p + META_DATA_SIZE) =>
            ~r.ok /\ r.file = file /\ r.size = size /\ r.drive.location = drive.location
    BY <1>1, <1>4, <1>5, <1>6, <1>8, WriteDataEffect
<1>10. r.drive \in Drives /\ drive.location \in Int
    BY <1>5, <1>9 DEF Sound, States, Drives
<1>11. BlockWritten(drive, bytes, r) =>
          /\ AtRecordBoundary(e) /\ r.drive.location = drive.location + 1
          /\ r.drive.fixed = drive.fixed /\ complete(r)
  <2>1. SUFFICES ASSUME BlockWritten(drive, bytes, r)
                 PROVE  /\ AtRecordBoundary(e) /\ r.drive.location = drive.location + 1
                        /\ r.drive.fixed = drive.fixed /\ complete(r)
      OBVIOUS
  <2>2. PICK q \in Int : q = Pad(e.position) + 2
    <3>1. e.position \in Int
        BY <1>7 DEF Drives
    <3>. QED  BY <3>1 DEF Pad
  <2>3. AtRecordBoundary(e) /\ r.drive = Completed(e, q)
      BY <1>8, <2>1, <2>2 DEF BlockWritten
  <2>4. r.drive.location = drive.location + 1 /\ r.drive.fixed = drive.fixed
      BY <1>7, <2>3, CompletedDrive
  <2>. QED  BY <1>10, <2>3, <2>4
<1>12. r.drive = e => ~complete(r)
    BY <1>7, <1>10
<1>13. sent \in Seq(Nat)
  <2>1. transfer.sent \in Seq(Nat)
      BY <1>5 DEF Transfers
  <2>. QED  BY <1>6, <2>1 DEF Sent
<1>14. AtRest(r.drive).position = r.drive.position /\ AtRest(r.drive).location = r.drive.location
    BY <1>10, RestDrive
<1>15. ASSUME ~tar, ~lost
       PROVE  Settled(objects, drive, transfer, uncounted)
    BY <1>15 DEF PositionInv, PlaceInv
<1>16. ReceivedInv'
    BY <1>3 DEF PositionInv, ReceivedInv
<1>. HIDE DEF sent, exact, boundary
<1>17. ASSUME ~tar, ~lost', boundary, ~WriteStarts
       PROVE  Settled(objects', drive', transfer', uncounted')
  <2>1. Overflow(State(drive), p + META_DATA_SIZE)
      BY <1>17 DEF WriteStarts, boundary
  <2>2. ~r.ok /\ ~complete(r)
      BY <1>9, <1>10, <1>17, <2>1
  <2>3. r.drive.position = p /\ r.drive.location = drive.location
      BY <1>1, <1>5, <1>17, <2>1, NotStarted DEF boundary
  <2>4. Base = objects
      BY <1>17 DEF Base
  <2>5. objects' = objects /\ drive' = AtRest(r.drive) /\ transfer' = NoTransfer
      BY <1>3, <2>2, <2>4
  <2>6. Settled(objects, drive, transfer, uncounted)
      BY <1>3, <1>15, <1>17
  <2>7. Aligned(objects, p, drive.location, uncounted)
      BY <1>7, <1>17, <2>6 DEF Settled
  <2>8. Aligned(objects', drive'.position, drive'.location, uncounted')
      BY <1>3, <1>14, <2>3, <2>5, <2>7
  <2>. QED  BY <2>5, <2>8, NoTransferType, IdleSettled
<1>18. ASSUME ~tar, ~lost', boundary => WriteStarts
       PROVE  Settled(objects', drive', transfer', uncounted')
  <2>1. r.ok
      BY <1>3, <1>18
  <2>2. Settled(objects, drive, transfer, uncounted)
      BY <1>3, <1>15, <1>18
  <2>3. BlockKnown(Base, uncounted)
      BY <1>3, <1>18, <2>2, BaseKnown DEF boundary
  <2>4. PICK q \in Objects : q = Base
      BY <2>3 DEF BlockKnown
  <2>5. exact /\ (uncounted \/ drive.location = Len(q))
      BY <2>3, <2>4 DEF BlockKnown, exact
  <2>6. CASE BlockWritten(drive, bytes, r)
    <3>1. r.drive.position = End(q) + Width(sent)
        BY <1>3, <1>9, <2>4, <2>5, <2>6, BlockOnTape DEF bytes, sent, exact
    <3>2. objects' = With(q, sent)
        BY <1>3, <1>11, <2>4, <2>5, <2>6 DEF With
    <3>3. Aligned(objects', r.drive.position, r.drive.location, uncounted)
        BY <1>10, <1>11, <1>13, <2>5, <2>6, <3>1, <3>2, BehindBlock
    <3>4. CASE last(r)
      <4>1. drive' = AtRest(r.drive) /\ transfer' = NoTransfer
          BY <1>3, <3>4
      <4>. QED  BY <1>3, <1>14, <3>3, <4>1, NoTransferType, IdleSettled
    <3>5. CASE ~last(r)
      <4>1. drive' = r.drive /\ drive'.fixed
          BY <1>3, <1>7, <1>11, <2>6, <3>5
      <4>2. transfer' = [Advanced(transfer) EXCEPT !.sent = IF complete(r) \/ tar THEN <<>> ELSE sent]
          BY <1>3, <3>5
      <4>3. transfer'.op = "write"
          BY <1>3, <1>5, <4>2 DEF Advanced, Transfers
      <4>. QED  BY <1>3, <3>3, <4>1, <4>3 DEF Settled
    <3>. QED  BY <3>4, <3>5
  <2>7. CASE ~BlockWritten(drive, bytes, r)
    <3>1. ~AtRecordBoundary(e) /\ r.drive = e /\ ~complete(r)
        BY <1>9, <1>12, <2>1, <2>7
    <3>2. ~drive.fixed /\ ~last(r)
        BY <1>7, <1>18, <2>1, <3>1
    <3>3. drive' = e /\ objects' = q
        BY <1>3, <2>4, <3>1, <3>2
    <3>4. transfer' = Continued(transfer, sent)
        BY <1>3, <1>18, <3>1, <3>2 DEF Continued
    <3>5. transfer'.op = "write" /\ transfer'.sent = sent
        BY <1>3, <1>5, <1>13, <3>2, <3>4, Transferred
    <3>6. PICK a \in Int : a = End(q)
        BY Ends
    <3>7. a = BlockStart
        BY <2>4, <2>5, <3>6 DEF exact
    <3>8. e.position = a + 2 + Len(sent)
        BY <1>2, <1>3, <3>7, NextPosition DEF sent, bytes
    <3>9. ~e.fixed /\ ~e.initial /\ e.location = drive.location
        BY <1>7, <3>2
    <3>. QED  BY <1>3, <2>5, <3>3, <3>5, <3>6, <3>8, <3>9 DEF Settled
  <2>. QED  BY <2>6, <2>7
<1>19. PlaceInv'
    BY <1>3, <1>17, <1>18 DEF PlaceInv
<1>. QED  BY <1>3, <1>5, <1>16, <1>19 DEF PositionInv

-----------------------------------------------------------------------------
(* The place of the drive in all reachable states                          *)

LEMMA InitPlaced ==
    ASSUME TapeInit
    PROVE  PositionInv
<1>1. drive = Drive(0, 0) /\ transfer = NoTransfer /\ objects = <<>> /\ uncounted = FALSE /\ received = <<>>
    BY DEF TapeInit
<1>2. drive.position = 0 /\ drive.location = 0
    BY <1>1 DEF Drive
<1>3. objects \in Objects
    BY <1>1, NoObjects
<1>4. Aligned(objects, drive.position, drive.location, uncounted)
    BY <1>2, <1>3, AlignedBegin
<1>5. Settled(objects, drive, transfer, uncounted)
    BY <1>1, <1>4, NoTransferType, IdleSettled
<1>. QED  BY <1>1, <1>5 DEF PositionInv, PlaceInv, ReceivedInv

LEMMA NextPlaced ==
    ASSUME TapeInv, PositionInv, [TapeNext]_vars
    PROVE  PositionInv'
<1>1. Lengths \subseteq Nat /\ Counts \subseteq Nat
    BY TapeAssumption DEF TapeAssumption
<1>2. ASSUME NEW a \in Identifiers, NEW fixed \in BOOLEAN, NEW n \in Amounts(fixed)
      PROVE  a[1] \in BOOLEAN /\ a[2] \in Nat /\ n \in Nat
  <2>1. a[1] \in BOOLEAN /\ a[2] \in Nat
    <3>1. CASE a = <<FALSE, 0>>
        BY <3>1
    <3>2. CASE a # <<FALSE, 0>>
      <4>1. PICK i \in Counts : a = <<TRUE, i>>
          BY <1>2, <3>2 DEF Identifiers
      <4>. QED  BY <1>1, <4>1
    <3>. QED  BY <3>1, <3>2
  <2>2. n \in Nat
    <3>1. n \in Counts \/ n \in Lengths
        BY <1>2 DEF Amounts
    <3>. QED  BY <1>1, <3>1
  <2>. QED  BY <2>1, <2>2
<1>3. CASE Reading
  <2>1. CASE \E a \in Identifiers, fixed, sili \in BOOLEAN :
                \E n \in Amounts(fixed) : Read(a[1], a[2], fixed, sili, n)
      BY <1>2, <2>1, ReadPlaced
  <2>2. CASE ReadNext
      BY <2>2, ReadNextPlaced
  <2>. QED  BY <1>3, <2>1, <2>2 DEF Reading
<1>4. CASE Writing
  <2>1. CASE \E a \in Identifiers, fixed \in BOOLEAN : \E n \in Amounts(fixed) : Write(a[1], a[2], fixed, n)
      BY <1>2, <2>1, WritePlaced
  <2>2. CASE \E b \in Data : WriteNext(b)
      BY <2>2, WriteNextPlaced
  <2>3. CASE \E i, n \in Counts \cup {0} : WriteFilemarks(i, n)
    <3>1. PICK i \in Nat, n \in Nat : WriteFilemarks(i, n)
        BY <1>1, <2>3
    <3>. QED  BY <3>1, WriteFilemarksPlaced
  <2>4. CASE EraseAll
      BY <2>4, EraseAllPlaced
  <2>5. CASE EraseRest
      BY <2>5, EraseRestPlaced
  <2>. QED  BY <1>4, <2>1, <2>2, <2>3, <2>4, <2>5 DEF Writing
<1>5. CASE Positioning
  <2>1. CASE \E n \in Counts : \E t \in {"block", "filemark"} : Space(t, n) \/ Space(t, -n)
    <3>1. PICK n \in Counts, t \in {"block", "filemark"} : Space(t, n) \/ Space(t, -n)
        BY <2>1
    <3>2. n \in Int /\ -n \in Int
        BY <1>1
    <3>. QED  BY <3>1, <3>2, SpacePlaced
  <2>2. CASE Space("end-of-data", 0)
    <3>1. 0 \in Int
        OBVIOUS
    <3>. QED  BY <2>2, <3>1, SpacePlaced
  <2>3. CASE \E i \in Counts \cup {0} : Locate(i)
    <3>1. PICK i \in Nat : Locate(i)
        BY <1>1, <2>3
    <3>. QED  BY <3>1, LocatePlaced
  <2>4. CASE Rewind
      BY <2>4, RewindPlaced
  <2>. QED  BY <1>5, <2>1, <2>2, <2>3, <2>4 DEF Positioning
<1>6. CASE Abort
    BY <1>6, AbortPlaced
<1>7. CASE Open
    BY <1>7, OpenPlaced
<1>8. CASE UNCHANGED vars
  <2>1. /\ tar' = tar /\ drive' = drive /\ transfer' = transfer /\ objects' = objects
        /\ lost' = lost /\ uncounted' = uncounted /\ received' = received
      BY <1>8 DEF vars
  <2>2. PlaceInv'
      BY <2>1 DEF PositionInv, PlaceInv
  <2>3. ReceivedInv'
      BY <2>1 DEF PositionInv, ReceivedInv
  <2>. QED  BY <2>1, <2>2, <2>3 DEF PositionInv
<1>. QED  BY <1>3, <1>4, <1>5, <1>6, <1>7, <1>8 DEF TapeNext

LEMMA PositionHolds == TapeSpec => []PositionInv
<1>1. TapeInit => PositionInv
    BY InitPlaced
<1>2. TapeInv /\ PositionInv /\ [TapeNext]_vars => PositionInv'
    BY NextPlaced
<1>. QED  BY <1>1, <1>2, InvHolds, PTL DEF TapeSpec

\* The drive is always in front of an object or of the end of data, unless its last command failed
\* or was aborted in the middle of a block, or LOCATE did not find its object, and the object
\* location is the number of the objects before it, unless filemarks have been written
\* (tape.cpp:590, 926), for image files, blocks and commands of any size.
THEOREM PositionTheorem == TapeSpec => []PositionOnObject
<1>1. ASSUME PositionInv, ~tar, Idle, ~lost
      PROVE  /\ OnTape(drive.position)
             /\ ~uncounted => drive.location \in 0 .. Len(objects) /\ Offset(objects)[drive.location] = drive.position
  <2>1. Settled(objects, drive, transfer, uncounted)
      BY <1>1 DEF PositionInv, PlaceInv
  <2>2. Aligned(objects, drive.position, drive.location, uncounted)
      BY <1>1, <2>1, SettledIdle DEF Idle
  <2>. QED  BY <2>2 DEF Aligned, OnTape
<1>2. PositionInv => PositionOnObject
    BY <1>1 DEF PositionOnObject
<1>. QED  BY <1>2, PositionHolds, PTL

\* What is read are the data of one block, never meta data or parts of two blocks (tape.cpp:193),
\* for blocks of an even length and, in fixed mode, of the block size, and image files and commands
\* of any size.
THEOREM ReceivedTheorem == TapeSpec => []ReceivedFromBlock
<1>1. PositionInv => ReceivedFromBlock
    BY DEF PositionInv, ReceivedInv, FromBlock, IsFrom, ReceivedFromBlock, META_DATA_SIZE
<1>. QED  BY <1>1, PositionHolds, PTL
=============================================================================
