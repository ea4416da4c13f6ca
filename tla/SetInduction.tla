----------------------------- MODULE SetInduction ------------------------------
(***************************************************************************)
(* Induction over the naturals, stated with a set in place of a predicate, *)
(* and what follows from it for functions and sequences that are defined   *)
(* by recursion.                                                           *)
(***************************************************************************)
EXTENDS Integers, Sequences, SequencesExt, FiniteSetTheorems, SequenceTheorems, TLAPS

\* A set that has 0 and the successor of each natural number in it has all of them.
\* Otherwise the successors of the numbers in it below a missing one would be as
\* many as those numbers, and yet leave out 0.
LEMMA InductionByCounting ==
    ASSUME NEW S, 0 \in S, \A n \in Nat : n \in S => n + 1 \in S
    PROVE  Nat \subseteq S
<1> SUFFICES ASSUME NEW m \in Nat, m \notin S
             PROVE  FALSE
  OBVIOUS
<1> DEFINE T == {n \in 0..m : n \in S}
           U == T \ {0}
           f == [n \in T |-> n + 1]
<1>1. IsFiniteSet(T) /\ Cardinality(T) \in Nat
  <2>1. IsFiniteSet(0..m)
    BY FS_Interval
  <2>2. T \in SUBSET (0..m)
    OBVIOUS
  <2>3. IsFiniteSet(T)
    BY <2>1, <2>2, FS_Subset, Zenon
  <2> QED BY <2>3, FS_CardinalityType, Zenon
<1>2. 0 \in T
  OBVIOUS
<1>3. IsFiniteSet(U) /\ Cardinality(U) = Cardinality(T) - 1
  <2> HIDE DEF T
  <2> QED BY <1>1, <1>2, FS_RemoveElement
<1>4. f \in Injection(T, U)
  <2>1. \A n \in T : n + 1 \in U
    OBVIOUS
  <2>2. \A a, b \in T : a + 1 = b + 1 => a = b
    OBVIOUS
  <2> HIDE DEF T, U
  <2>3. f \in [T -> U] /\ \A a, b \in T : f[a] = f[b] => a = b
    BY <2>1, <2>2
  <2> QED BY <2>3 DEF Injection, IsInjective
<1>5. Cardinality(T) <= Cardinality(U)
  <2> HIDE DEF T, U, f
  <2> QED BY <1>3, <1>4, FS_Injection
<1> QED BY <1>1, <1>3, <1>5

-----------------------------------------------------------------------------
(* Flattening.                                                             *)

\* FlattenSeq's recursive function exists.
LEMMA FlattenExists ==
    ASSUME NEW parts
    PROVE  \A n \in Nat : \E f : f = [i \in 1..n |-> IF i = 1 THEN parts[i] ELSE f[i - 1] \o parts[i]]
<1> DEFINE P(n) == \E f : f = [i \in 1..n |-> IF i = 1 THEN parts[i] ELSE f[i - 1] \o parts[i]]
           S == {n \in Nat : P(n)}
<1>1. P(0)
  <2> DEFINE e == [i \in 1..0 |-> IF i = 1 THEN parts[i] ELSE <<>>]
  <2>1. e = [i \in 1..0 |-> IF i = 1 THEN parts[i] ELSE e[i - 1] \o parts[i]]
    OBVIOUS
  <2> QED BY <2>1
<1>2. ASSUME NEW n \in Nat, P(n)
      PROVE  P(n + 1)
  <2>1. PICK f : f = [i \in 1..n |-> IF i = 1 THEN parts[i] ELSE f[i - 1] \o parts[i]]
    BY <1>2
  <2> DEFINE g == [i \in 1..(n + 1) |-> IF i <= n THEN f[i] ELSE IF i = 1 THEN parts[i] ELSE f[i - 1] \o parts[i]]
  <2>2. \A i \in 1..(n + 1) : g[i] = IF i = 1 THEN parts[i] ELSE g[i - 1] \o parts[i]
    <3> SUFFICES ASSUME NEW i \in 1..(n + 1)
                 PROVE  g[i] = IF i = 1 THEN parts[i] ELSE g[i - 1] \o parts[i]
      OBVIOUS
    <3>1. i # 1 => g[i - 1] = f[i - 1]
      OBVIOUS
    <3>2. CASE i <= n
      <4>1. g[i] = f[i] /\ i \in 1..n
        BY <3>2
      <4>2. f[i] = IF i = 1 THEN parts[i] ELSE f[i - 1] \o parts[i]
        BY <2>1, <4>1
      <4> HIDE DEF g
      <4> QED BY <3>1, <4>1, <4>2, Zenon
    <3>3. CASE i = n + 1
      <4>1. g[i] = IF i = 1 THEN parts[i] ELSE f[i - 1] \o parts[i]
        BY <3>3
      <4> HIDE DEF g
      <4> QED BY <3>1, <4>1, Zenon
    <3> QED BY <3>2, <3>3
  <2>3. g = [i \in 1..(n + 1) |-> IF i = 1 THEN parts[i] ELSE g[i - 1] \o parts[i]]
    <3> DEFINE h == [i \in 1..(n + 1) |-> IF i = 1 THEN parts[i] ELSE g[i - 1] \o parts[i]]
    <3>1. g = [i \in 1..(n + 1) |-> g[i]]
      OBVIOUS
    <3> HIDE DEF g
    <3> QED BY <2>2, <3>1, Zenon
  <2> HIDE DEF g
  <2> QED BY <2>3, Zenon
<1> HIDE DEF P
<1>3. 0 \in S /\ \A n \in Nat : n \in S => n + 1 \in S
  BY <1>1, <1>2
<1>4. Nat \subseteq S
  <2> HIDE DEF S
  <2> QED BY <1>3, InductionByCounting
<1>5. \A n \in Nat : P(n)
  BY <1>4
<1> QED BY <1>5 DEF P

\* What FlattenSeq returns is the last value of that function.
LEMMA FlattenIs ==
    ASSUME NEW n \in Nat, n # 0, NEW parts, Len(parts) = n
    PROVE  \E f : /\ f = [i \in 1..n |-> IF i = 1 THEN parts[i] ELSE f[i - 1] \o parts[i]]
                  /\ FlattenSeq(parts) = f[n]
<1> DEFINE f == CHOOSE f : f = [i \in 1..Len(parts) |-> IF i = 1 THEN parts[i] ELSE f[i - 1] \o parts[i]]
<1>1. \E g : g = [i \in 1..n |-> IF i = 1 THEN parts[i] ELSE g[i - 1] \o parts[i]]
  BY FlattenExists, Zenon
<1>2. f = [i \in 1..n |-> IF i = 1 THEN parts[i] ELSE f[i - 1] \o parts[i]]
  BY <1>1, Zenon
<1>3. FlattenSeq(parts) = f[n]
  BY Zenon DEF FlattenSeq
<1> HIDE DEF f
<1> QED BY <1>2, <1>3, Zenon

\* The n parts stand in the sequence all one after the other: base[r] elements of it
\* before the one with number r.
Follows(all, parts, n, base) ==
    /\ base \in [1..(n + 1) -> Nat] /\ base[1] = 0 /\ base[n + 1] = Len(all)
    /\ \A r \in 1..n : /\ base[r + 1] = base[r] + Len(parts[r])
                       /\ \A j \in 1..Len(parts[r]) : all[base[r] + j] = parts[r][j]

\* So do those of a flattened sequence.
LEMMA FlattenPlaces ==
    ASSUME NEW T, NEW n \in Nat, NEW parts \in Seq(Seq(T)), Len(parts) = n
    PROVE  FlattenSeq(parts) \in Seq(T) /\ \E base : Follows(FlattenSeq(parts), parts, n, base)
<1>1. CASE n = 0
  <2>1. parts = <<>>
    BY <1>1, EmptySeq
  <2>2. FlattenSeq(parts) = parts
    BY <1>1, Zenon DEF FlattenSeq
  <2>3. FlattenSeq(parts) \in Seq(T) /\ Len(FlattenSeq(parts)) = 0
    <3>1. parts \in Seq(T) /\ Len(parts) = 0
      BY <2>1
    <3> QED BY <2>2, <3>1, Zenon
  <2> DEFINE b == [r \in 1..(n + 1) |-> 0]
  <2>4. b \in [1..(n + 1) -> Nat] /\ b[1] = 0 /\ b[n + 1] = 0 /\ \A r \in 1..n : FALSE
    BY <1>1
  <2> HIDE DEF b
  <2> QED BY <2>3, <2>4, Zenon DEF Follows
<1>2. CASE n # 0
  <2>1. PICK f : /\ f = [i \in 1..n |-> IF i = 1 THEN parts[i] ELSE f[i - 1] \o parts[i]]
                 /\ FlattenSeq(parts) = f[n]
    BY <1>2, FlattenIs
  <2>2. \A i \in 1..n : f[i] = IF i = 1 THEN parts[i] ELSE f[i - 1] \o parts[i]
    BY <2>1
  <2>3. \A i \in 1..n : parts[i] \in Seq(T) /\ Len(parts[i]) \in Nat
    BY ElementOfSeq, LenProperties
  <2> DEFINE start(q) == IF q = 1 THEN 0 ELSE Len(f[q - 1])
             Placed(r) == /\ f[r] \in Seq(T) /\ Len(f[r]) = start(r) + Len(parts[r])
                          /\ \A q \in 1..r : /\ start(q) \in Nat /\ start(q) + Len(parts[q]) <= Len(f[r])
                                             /\ \A j \in 1..Len(parts[q]) : f[r][start(q) + j] = parts[q][j]
             S == {r \in Nat : r + 1 \in 1..n => Placed(r + 1)}
  <2>4. Placed(1)
    <3>1. f[1] = parts[1] /\ 1 \in 1..n
      BY <1>2, <2>2
    <3>2. \A q \in 1..1 : q = 1
      OBVIOUS
    <3>3. parts[1] \in Seq(T) /\ Len(parts[1]) \in Nat
      BY <2>3, <3>1
    <3> QED BY <3>1, <3>2, <3>3
  <2>5. ASSUME NEW r \in 1..n, r + 1 \in 1..n, Placed(r)
        PROVE  Placed(r + 1)
    <3> DEFINE s == f[r]
               t == parts[r + 1]
               u == f[r + 1]
    <3>1. u = s \o t
      <4>1. r + 1 \in 1..n /\ r + 1 # 1 /\ (r + 1) - 1 = r
        BY <2>5
      <4>2. f[r + 1] = f[(r + 1) - 1] \o parts[r + 1]
        BY <2>2, <4>1, Zenon
      <4> QED BY <4>1, <4>2, Zenon
    <3>2. s \in Seq(T) /\ t \in Seq(T) /\ Len(s) \in Nat /\ Len(t) \in Nat
      BY <2>3, <2>5, LenProperties
    <3>3. start(r + 1) = Len(s)
      BY <2>5
    <3>4. \A q \in 1..r : /\ start(q) \in Nat /\ start(q) + Len(parts[q]) <= Len(s)
                          /\ \A j \in 1..Len(parts[q]) : s[start(q) + j] = parts[q][j]
      BY <2>5
    <3>t. t = parts[r + 1]
      OBVIOUS
    <3> HIDE DEF s, t, u, start
    <3>5. /\ u \in Seq(T) /\ Len(u) = Len(s) + Len(t)
          /\ \A i \in 1..(Len(s) + Len(t)) : u[i] = IF i <= Len(s) THEN s[i] ELSE t[i - Len(s)]
      BY <3>1, <3>2, ConcatProperties
    <3>6. ASSUME NEW q \in 1..(r + 1)
          PROVE  /\ start(q) \in Nat /\ start(q) + Len(parts[q]) <= Len(u)
                 /\ \A j \in 1..Len(parts[q]) : u[start(q) + j] = parts[q][j]
      <4>1. CASE q \in 1..r
        <5>1. /\ start(q) \in Nat /\ start(q) + Len(parts[q]) <= Len(s)
              /\ \A j \in 1..Len(parts[q]) : s[start(q) + j] = parts[q][j]
          BY <3>4, <4>1
        <5>2. Len(parts[q]) \in Nat
          BY <2>3, <4>1
        <5> DEFINE a == start(q)
                   b == Len(parts[q])
        <5>3. a \in Nat /\ b \in Nat /\ a + b <= Len(s)
          BY <5>1, <5>2
        <5> HIDE DEF a, b
        <5>4. a + b <= Len(u) /\ \A j \in 1..b : a + j \in 1..(Len(s) + Len(t)) /\ a + j <= Len(s)
          BY <3>2, <3>5, <5>3
        <5>5. \A j \in 1..b : u[a + j] = s[a + j]
          BY <3>5, <5>4, Zenon
        <5> QED BY <5>1, <5>4, <5>5, Zenon DEF a, b
      <4>2. CASE q = r + 1
        <5>1. start(q) = Len(s) /\ parts[q] = t
          BY <3>3, <4>2, <3>t, Zenon
        <5>2. \A j \in 1..Len(t) : u[Len(s) + j] = t[j]
          BY <3>2, <3>5
        <5> QED BY <3>2, <3>5, <5>1, <5>2
      <4> QED BY <4>1, <4>2
    <3>7. Len(u) = start(r + 1) + Len(parts[r + 1])
      BY <3>3, <3>5, <3>t, Zenon
    <3> QED BY <3>5, <3>6, <3>7 DEF u
  <2> HIDE DEF Placed
  <2>6. 0 \in S
    BY <2>4
  <2>7. \A r \in Nat : r \in S => r + 1 \in S
    <3> SUFFICES ASSUME NEW r \in Nat, r \in S, (r + 1) + 1 \in 1..n
                 PROVE  Placed((r + 1) + 1)
      OBVIOUS
    <3>1. r + 1 \in 1..n
      OBVIOUS
    <3>2. Placed(r + 1)
      BY <3>1
    <3> QED BY <2>5, <3>1, <3>2
  <2>8. Nat \subseteq S
    <3> HIDE DEF S
    <3> QED BY <2>6, <2>7, InductionByCounting
  <2>9. \A r \in 1..n : Placed(r)
    <3> SUFFICES ASSUME NEW r \in 1..n
                 PROVE  Placed(r)
      OBVIOUS
    <3>1. r - 1 \in Nat /\ (r - 1) + 1 = r
      OBVIOUS
    <3>2. r - 1 \in S
      BY <2>8, <3>1
    <3> QED BY <3>1, <3>2
  <2> DEFINE b == [r \in 1..(n + 1) |-> start(r)]
  <2>10. \A r \in 1..n : b[r] = start(r) /\ b[r + 1] = Len(f[r]) /\ b[r + 1] = start(r + 1)
    OBVIOUS
  <2>11. b[1] = 0 /\ b[n + 1] = Len(FlattenSeq(parts))
    <3>1. 1 \in 1..(n + 1) /\ n + 1 \in 1..(n + 1) /\ n + 1 # 1 /\ (n + 1) - 1 = n
      BY <1>2
    <3>2. b[1] = 0 /\ b[n + 1] = Len(f[(n + 1) - 1])
      BY <3>1, Zenon
    <3> QED BY <2>1, <3>1, <3>2, Zenon
  <2>12. n \in 1..n
    BY <1>2
  <2>13. \A r \in 1..n : Placed(r) /\ Placed(n)
    BY <2>9, <2>12
  <2>14. b \in [1..(n + 1) -> Nat]
    <3>1. \A r \in 1..n : Len(f[r]) \in Nat
      BY <2>13, LenProperties DEF Placed
    <3>2. \A r \in 1..(n + 1) : start(r) \in Nat
      BY <3>1
    <3> HIDE DEF start
    <3> QED BY <3>2
  <2> HIDE DEF b, start
  <2>15. \A r \in 1..n : /\ b[r + 1] = b[r] + Len(parts[r])
                         /\ \A j \in 1..Len(parts[r]) : FlattenSeq(parts)[b[r] + j] = parts[r][j]
    <3> SUFFICES ASSUME NEW r \in 1..n
                 PROVE  /\ b[r + 1] = b[r] + Len(parts[r])
                        /\ \A j \in 1..Len(parts[r]) : FlattenSeq(parts)[b[r] + j] = parts[r][j]
      OBVIOUS
    <3>1. b[r + 1] = Len(f[r]) /\ b[r] = start(r)
      BY <2>10
    <3>2. Len(f[r]) = start(r) + Len(parts[r])
      BY <2>9 DEF Placed
    <3>3. \A j \in 1..Len(parts[r]) : f[n][start(r) + j] = parts[r][j]
      BY <2>9, <2>12, Zenon DEF Placed
    <3> QED BY <2>1, <3>1, <3>2, <3>3, Zenon
  <2>16. FlattenSeq(parts) \in Seq(T)
    BY <2>1, <2>9, <2>12, Zenon DEF Placed
  <2> DEFINE all == FlattenSeq(parts)
  <2>17. /\ b \in [1..(n + 1) -> Nat] /\ b[1] = 0 /\ b[n + 1] = Len(all)
         /\ \A r \in 1..n : /\ b[r + 1] = b[r] + Len(parts[r])
                            /\ \A j \in 1..Len(parts[r]) : all[b[r] + j] = parts[r][j]
    BY <2>11, <2>14, <2>15
  <2> HIDE DEF all
  <2>18. Follows(all, parts, n, b)
    BY <2>17 DEF Follows
  <2> QED BY <2>16, <2>18, Zenon DEF all
<1> QED BY <1>1, <1>2

-----------------------------------------------------------------------------
(* Folding from the left.                                                  *)

\* The largest element of a set of the first n + 1 numbers that has the last one, and
\* of a set of the first n.
LEMMA LargestOf ==
    ASSUME NEW n \in Nat, NEW T \in SUBSET (1..(n + 1)), n + 1 \in T
    PROVE  Max(T) = n + 1 /\ T \ {n + 1} \in SUBSET (1..n)
<1>1. \A x \in T : x \in Int /\ x <= n + 1
  OBVIOUS
<1>2. \A y \in T : n + 1 >= y
  BY <1>1
<1>3. \A x \in T : (\A y \in T : x >= y) => x = n + 1
  BY <1>1
<1>4. Max(T) = n + 1
  <2>1. Max(T) = CHOOSE x \in T : \A y \in T : x >= y
    BY Zenon DEF Max
  <2>2. \E x \in T : \A y \in T : x >= y
    BY <1>2
  <2>3. Max(T) \in T /\ \A y \in T : Max(T) >= y
    BY <2>1, <2>2, Zenon
  <2> QED BY <1>3, <2>3, Zenon
<1>5. T \ {n + 1} \in SUBSET (1..n)
  OBVIOUS
<1> QED BY <1>4, <1>5

\* The first numbers are such a set.
LEMMA LargestOfFirst ==
    ASSUME NEW k \in Nat
    PROVE  1..(k + 1) # {} /\ Max(1..(k + 1)) = k + 1 /\ (1..(k + 1)) \ {k + 1} = 1..k
<1>1. 1..(k + 1) \in SUBSET (1..(k + 1)) /\ k + 1 \in 1..(k + 1)
  OBVIOUS
<1>2. (1..(k + 1)) \ {k + 1} = 1..k
  OBVIOUS
<1>3. Max(1..(k + 1)) = k + 1
  BY <1>1, LargestOf, Zenon
<1> QED BY <1>1, <1>2, <1>3, Zenon

\* A set of the first n numbers has its largest element.
LEMMA LargestIsOne == \A n \in Nat : \A T \in SUBSET (1..n) : T # {} => Max(T) \in T
<1> DEFINE P(n) == \A T \in SUBSET (1..n) : T # {} => Max(T) \in T
           S == {n \in Nat : P(n)}
<1>1. P(0)
  <2>1. 1..0 = {}
    OBVIOUS
  <2> QED BY <2>1, Zenon
<1>2. ASSUME NEW n \in Nat, P(n)
      PROVE  P(n + 1)
  <2>1. TAKE T \in SUBSET (1..(n + 1))
  <2>2. CASE n + 1 \in T
    BY <2>2, LargestOf
  <2>3. CASE n + 1 \notin T
    <3>1. T \in SUBSET (1..n)
      BY <2>3
    <3> QED BY <1>2, <3>1
  <2> QED BY <2>2, <2>3
<1> HIDE DEF P
<1>3. 0 \in S /\ \A n \in Nat : n \in S => n + 1 \in S
  BY <1>1, <1>2
<1>4. Nat \subseteq S
  <2> HIDE DEF S
  <2> QED BY <1>3, InductionByCounting
<1>5. \A n \in Nat : P(n)
  BY <1>4
<1> QED BY <1>5 DEF P

\* f is the recursive function a fold of n steps, each within V, is made of.
IsFold(f, V, base, n, step) ==
    /\ f \in [SUBSET (1..n) -> V]
    /\ \A T \in SUBSET (1..n) : f[T] = IF T = {} THEN base ELSE step[<<Max(T), f[T \ {Max(T)}]>>]

\* f takes the fold's steps on the first numbers.
TakesSteps(f, V, base, n, step) ==
    /\ f[{}] = base
    /\ \A k \in 0..(n - 1) : f[1..k] \in V => f[1..(k + 1)] = step[<<k + 1, f[1..k]>>]

\* p is the sequence of the fold's partial results, the last one f's on all of them.
Partial(p, f, V, base, n, step) ==
    p \in [0..n -> V] /\ p[0] = base /\ p[n] = f[1..n] /\ \A i \in 1..n : p[i] = step[<<i, p[i - 1]>>]

\* The recursive function a fold is made of exists.
LEMMA FoldExists ==
    ASSUME NEW V, NEW base, base \in V, NEW L \in Nat, NEW step, step \in [(1..L) \X V -> V]
    PROVE  \A n \in 0..L : \E f : IsFold(f, V, base, n, step)
<1> DEFINE Fold(f, n) == \A T \in SUBSET (1..n) :
                           f[T] = IF T = {} THEN base ELSE step[<<Max(T), f[T \ {Max(T)}]>>]
           P(n) == \E f \in [SUBSET (1..n) -> V] : Fold(f, n)
           S == {n \in Nat : n <= L => P(n)}
<1>1. P(0)
  <2> DEFINE f == [T \in SUBSET (1..0) |-> base]
  <2>1. \A T \in SUBSET (1..0) : T = {}
    OBVIOUS
  <2>2. f \in [SUBSET (1..0) -> V] /\ \A T \in SUBSET (1..0) : f[T] = base
    BY Zenon
  <2> HIDE DEF f
  <2> QED BY <2>1, <2>2, Zenon
<1>2. ASSUME NEW n \in Nat, n + 1 <= L, P(n)
      PROVE  P(n + 1)
  <2>1. PICK f \in [SUBSET (1..n) -> V] : Fold(f, n)
    BY <1>2
  <2> DEFINE N == n + 1
             g == [T \in SUBSET (1..N) |-> IF N \in T THEN step[<<N, f[T \ {N}]>>] ELSE f[T]]
  <2>n. N \in 1..L /\ N = n + 1
    BY <1>2
  <2>2. \A T \in SUBSET (1..N) : N \notin T => T \in SUBSET (1..n)
    OBVIOUS
  <2>3. \A T \in SUBSET (1..N) : N \in T => Max(T) = N /\ T \ {N} \in SUBSET (1..n)
    BY LargestOf
  <2>4. \A T \in SUBSET (1..N) : g[T] = IF N \in T THEN step[<<N, f[T \ {N}]>>] ELSE f[T]
    BY Zenon
  <2>g. g = [T \in SUBSET (1..N) |-> g[T]]
    BY Zenon
  <2> HIDE DEF N, g
  <2>s. \A T \in SUBSET (1..n) : T \in SUBSET (1..N) /\ N \notin T
    BY <2>n
  <2>5. \A T \in SUBSET (1..n) : g[T] = f[T]
    BY <2>s, <2>4, Zenon
  <2>6. ASSUME NEW T \in SUBSET (1..N)
        PROVE  g[T] \in V /\ g[T] = IF T = {} THEN base ELSE step[<<Max(T), g[T \ {Max(T)}]>>]
    <3>1. CASE N \in T
      <4>1. Max(T) = N /\ T \ {N} \in SUBSET (1..n)
        BY <2>3, <3>1, Zenon
      <4>2. g[T \ {N}] = f[T \ {N}] /\ f[T \ {N}] \in V
        BY <2>1, <2>5, <4>1, Zenon
      <4>3. g[T] = step[<<N, f[T \ {N}]>>]
        BY <2>4, <3>1, Zenon
      <4>4. <<N, f[T \ {N}]>> \in (1..L) \X V
        BY <2>n, <4>2, Zenon
      <4>5. g[T] \in V
        BY <4>3, <4>4, Zenon
      <4>6. T # {}
        BY <3>1, Zenon
      <4> QED BY <4>1, <4>2, <4>3, <4>5, <4>6, Zenon
    <3>2. CASE N \notin T
      <4>1. T \in SUBSET (1..n) /\ g[T] = f[T]
        BY <2>2, <2>5, <3>2, Zenon
      <4>2. T \ {Max(T)} \in SUBSET (1..n)
        BY <4>1, Zenon
      <4>3. g[T \ {Max(T)}] = f[T \ {Max(T)}]
        BY <2>5, <4>2, Zenon
      <4>4. f[T] = IF T = {} THEN base ELSE step[<<Max(T), f[T \ {Max(T)}]>>]
        BY <2>1, <4>1, Zenon
      <4> QED BY <2>1, <4>1, <4>3, <4>4, Zenon
    <3> QED BY <3>1, <3>2, Zenon
  <2>7. g \in [SUBSET (1..N) -> V]
    BY <2>6, <2>g, Zenon
  <2> QED BY <2>6, <2>7, Zenon DEF N
<1> HIDE DEF P
<1>3. 0 \in S
  BY <1>1
<1>4. \A n \in Nat : n \in S => n + 1 \in S
  BY <1>2
<1>5. Nat \subseteq S
  <2> HIDE DEF S
  <2> QED BY <1>3, <1>4, InductionByCounting
<1>6. \A n \in 0..L : P(n)
  BY <1>5
<1> QED BY <1>6, Zenon DEF P, IsFold

\* A fold's values on the first numbers are those of the sequence of partial results.
LEMMA FoldSteps ==
    ASSUME NEW V, NEW base, base \in V, NEW n \in Nat, NEW step, step \in [(1..n) \X V -> V],
           NEW f, TakesSteps(f, V, base, n, step)
    PROVE  \E p : Partial(p, f, V, base, n, step)
<1> DEFINE S == {k \in Nat : k <= n => f[1..k] \in V}
           p == [k \in 0..n |-> f[1..k]]
<1>1. f[1..0] = base
  <2>1. 1..0 = {}
    OBVIOUS
  <2> QED BY <2>1, Zenon DEF TakesSteps
<1>2. ASSUME NEW k \in Nat, k + 1 <= n, f[1..k] \in V
      PROVE  f[1..(k + 1)] = step[<<k + 1, f[1..k]>>]
  <2>1. k \in 0..(n - 1)
    BY <1>2
  <2> QED BY <1>2, <2>1, Zenon DEF TakesSteps
<1>3. 0 \in S
  BY <1>1
<1>4. ASSUME NEW k \in Nat, k \in S
      PROVE  k + 1 \in S
  <2>1. SUFFICES ASSUME k + 1 <= n PROVE f[1..(k + 1)] \in V
    OBVIOUS
  <2>2. f[1..k] \in V /\ k + 1 \in 1..n
    BY <1>4, <2>1
  <2>3. <<k + 1, f[1..k]>> \in (1..n) \X V
    BY <2>2, Zenon
  <2> QED BY <1>2, <2>1, <2>2, <2>3, Zenon
<1>5. Nat \subseteq S
  <2> HIDE DEF S
  <2> QED BY <1>3, <1>4, InductionByCounting
<1>6. \A k \in 0..n : f[1..k] \in V
  BY <1>5
<1>7. p \in [0..n -> V] /\ \A k \in 0..n : p[k] = f[1..k]
  BY <1>6, Zenon
<1> HIDE DEF p, S
<1>8. ASSUME NEW i \in 1..n PROVE p[i] = step[<<i, p[i - 1]>>]
  <2>1. i - 1 \in Nat /\ (i - 1) + 1 = i /\ (i - 1) + 1 <= n /\ i \in 0..n /\ i - 1 \in 0..n
    OBVIOUS
  <2>2. f[1..((i - 1) + 1)] = step[<<(i - 1) + 1, f[1..(i - 1)]>>]
    BY <1>2, <1>6, <2>1, Zenon
  <2> QED BY <1>7, <2>1, <2>2, Zenon
<1>9. p[0] = base /\ f[1..n] = p[n]
  <2>1. 0 \in 0..n /\ n \in 0..n
    OBVIOUS
  <2> QED BY <1>1, <1>7, <2>1, Zenon
<1> QED BY <1>7, <1>8, <1>9, Zenon DEF Partial
=============================================================================
