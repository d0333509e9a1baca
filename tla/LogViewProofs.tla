----------------------------- MODULE LogViewProofs -----------------------------
(***************************************************************************)
(* Theorems about LogView.tla, for every block size, number of lines,      *)
(* length at which a log is renamed, and bound: what tail_lines returns of *)
(* any log, and that a follower neither skips nor repeats a byte.          *)
(***************************************************************************)
EXTENDS LogView, FiniteSetTheorems, NaturalsInduction, WellFoundedInduction,
        SequenceTheorems, TLAPS

-----------------------------------------------------------------------------
(* Induction, without an operator as parameter *)

\* A set of numbers that has 0 and successors has them all.
LEMMA Counting ==
    ASSUME NEW S, 0 \in S, \A n \in Nat : n \in S => n + 1 \in S
    PROVE  Nat \subseteq S
<1> SUFFICES ASSUME Nat \ S # {} PROVE FALSE
  OBVIOUS
<1>1. PICK x \in Nat \ S : \A y \in Nat \ S : ~ (<<y, x>> \in OpToRel(<, Nat))
  <2>1. Nat \ S \subseteq Nat
    OBVIOUS
  <2> QED
    BY <2>1, WFMin, NatLessThanWellFounded
<1>2. \A y \in Nat \ S : ~(y < x)
  BY <1>1 DEF OpToRel
<1>3. x # 0 /\ (x # 0 => x - 1 \in S)
  BY <1>2
<1> QED
  BY <1>3

\* Strong induction.
LEMMA CountingBelow ==
    ASSUME NEW S, \A n \in Nat : (\A m \in 0..(n - 1) : m \in S) => n \in S
    PROVE  Nat \subseteq S
<1> DEFINE T == {n \in Nat : \A m \in 0..n : m \in S}
<1>1. 0 \in T
  OBVIOUS
<1>2. \A n \in Nat : n \in T => n + 1 \in T
  <2> TAKE n \in Nat
  <2> HAVE n \in T
  <2>1. \A m \in 0..((n + 1) - 1) : m \in S
    OBVIOUS
  <2>2. n + 1 \in S
    BY <2>1
  <2>3. \A m \in 0..(n + 1) : m \in 0..n \/ m = n + 1
    OBVIOUS
  <2> QED
    BY <2>2, <2>3
<1>3. Nat \subseteq T
  <2> HIDE DEF T
  <2> QED
    BY <1>1, <1>2, Counting
<1> QED
  BY <1>3

-----------------------------------------------------------------------------
(* The elements of a set of positions that are larger than one of them *)

LEMMA Positions ==
    ASSUME NEW L \in Nat, NEW N \in SUBSET (1..L)
    PROVE  IsFiniteSet(N) /\ \A M \in SUBSET N : IsFiniteSet(M)
<1>1. IsFiniteSet(1..L)
  BY FS_Interval
<1>2. \A M \in SUBSET (1..L) : IsFiniteSet(M)
  BY <1>1, FS_Subset
<1>3. \A M \in SUBSET N : M \in SUBSET (1..L)
  OBVIOUS
<1> QED
  BY <1>2, <1>3

LEMMA LargerIsNat ==
    ASSUME NEW L \in Nat, NEW N \in SUBSET (1..L), NEW i
    PROVE  Larger(N, i) \in Nat
<1>1. IsFiniteSet({j \in N : j > i})
  BY Positions
<1> QED
  BY <1>1, FS_CardinalityType DEF Larger

\* Going back to an element counts the one that was passed.
LEMMA LargerBack ==
    ASSUME NEW L \in Nat, NEW N \in SUBSET (1..L), NEW i \in Int, NEW k \in N, i < k
    PROVE  Larger(N, i) >= Larger(N, k) + 1
<1> DEFINE A == {j \in N : j > k}
           B == {j \in N : j > i}
<1>1. IsFiniteSet(A) /\ IsFiniteSet(B)
  BY Positions
<1>0. \A j \in N : j \in Int
  OBVIOUS
<1>2. A \union {k} \subseteq B /\ k \notin A
  <2>1. k \in Int /\ k \in B
    BY <1>0
  <2>2. ASSUME NEW j \in A PROVE j \in B
    <3>1. j \in N /\ j > k /\ j \in Int
      BY <1>0
    <3> QED
      BY <2>1, <3>1
  <2>3. k \notin A
    BY <2>1
  <2> HIDE DEF A, B
  <2> QED
    BY <2>1, <2>2, <2>3
<1> HIDE DEF A, B
<1>3. Cardinality(A \union {k}) = Cardinality(A) + 1
  BY <1>1, <1>2, FS_AddElement
<1>4. Cardinality(A \union {k}) <= Cardinality(B)
  BY <1>1, <1>2, FS_Subset
<1>5. Larger(N, k) = Cardinality(A) /\ Larger(N, i) = Cardinality(B)
  BY DEF A, B, Larger
<1>6. Cardinality(A) \in Nat /\ Cardinality(B) \in Nat
  BY <1>1, FS_CardinalityType
<1> QED
  BY <1>3, <1>4, <1>5, <1>6

\* There is one element at most with a given number of larger ones.
LEMMA LargerTells ==
    ASSUME NEW L \in Nat, NEW N \in SUBSET (1..L), NEW i \in N, NEW k \in N,
           Larger(N, i) = Larger(N, k)
    PROVE  i = k
<1>1. Larger(N, i) \in Nat
  BY LargerIsNat
<1>2. ~(i < k) /\ ~(k < i)
  BY <1>1, LargerBack
<1> QED
  BY <1>2

LEMMA HasLargest ==
    ASSUME NEW L \in Nat, NEW N \in SUBSET (1..L), N # {}
    PROVE  \E m \in N : \A j \in N : j <= m
<1> DEFINE T == {n \in Nat : \A M \in SUBSET (1..n) :
                               M # {} => \E m \in M : \A j \in M : j <= m}
<1>1. 0 \in T
  <2>1. 1..0 = {}
    OBVIOUS
  <2> QED
    BY <2>1
<1>2. ASSUME NEW n \in Nat, n \in T PROVE n + 1 \in T
  <2> SUFFICES ASSUME NEW M \in SUBSET (1..(n + 1)), M # {}
               PROVE  \E m \in M : \A j \in M : j <= m
    OBVIOUS
  <2>1. CASE n + 1 \in M
    BY <2>1
  <2>2. CASE n + 1 \notin M
    <3>1. M \in SUBSET (1..n)
      BY <2>2
    <3> QED
      BY <1>2, <3>1
  <2> QED
    BY <2>1, <2>2
<1>3. L \in T
  <2> HIDE DEF T
  <2> QED
    BY <1>1, <1>2, Counting
<1> QED
  BY <1>3

\* Counted from the end, every number below the set's size is that of an element.
LEMMA LargerReaches ==
    ASSUME NEW L \in Nat, NEW N \in SUBSET (1..L), NEW t \in Nat, Cardinality(N) > t
    PROVE  \E i \in N : Larger(N, i) = t
<1> DEFINE T == {n \in Nat : Cardinality(N) > n => \E i \in N : Larger(N, i) = n}
<1>a. IsFiniteSet(N) /\ Cardinality(N) \in Nat
  BY Positions, FS_CardinalityType
<1>b. \A j \in N : j \in Int
  OBVIOUS
<1>1. 0 \in T
  <2> SUFFICES ASSUME Cardinality(N) > 0 PROVE \E i \in N : Larger(N, i) = 0
    OBVIOUS
  <2>1. N # {}
    BY FS_EmptySet
  <2>2. PICK m \in N : \A j \in N : j <= m
    BY <2>1, HasLargest
  <2>3. {j \in N : j > m} = {}
    <3>1. ASSUME NEW j \in N, j > m PROVE FALSE
      <4>1. j <= m /\ j \in Int /\ m \in Int
        BY <1>b, <2>2
      <4> QED
        BY <3>1, <4>1
    <3> QED
      BY <3>1
  <2>4. Larger(N, m) = 0
    BY <2>3, FS_EmptySet, Zenon DEF Larger
  <2> QED
    BY <2>4
<1>2. ASSUME NEW n \in Nat, n \in T PROVE n + 1 \in T
  <2> SUFFICES ASSUME Cardinality(N) > n + 1 PROVE \E i \in N : Larger(N, i) = n + 1
    OBVIOUS
  <2>1. PICK i \in N : Larger(N, i) = n
    BY <1>a, <1>2
  <2> DEFINE A == {j \in N : j > i}
             B == A \union {i}
             M == N \ B
  <2>2. IsFiniteSet(A) /\ i \notin A /\ Cardinality(A) = n
    BY <1>b, <2>1, Positions DEF Larger
  <2>3. Cardinality(B) = n + 1
    <3> HIDE DEF A
    <3> QED
      BY <2>2, FS_AddElement
  <2>4. M # {}
    <3>1. B \subseteq N
      OBVIOUS
    <3> HIDE DEF B
    <3>2. B # N
      BY <1>a, <2>3
    <3> QED
      BY <3>1, <3>2
  <2>5. PICK m \in M : \A j \in M : j <= m
    <3>1. M \in SUBSET (1..L)
      OBVIOUS
    <3> HIDE DEF M
    <3> QED
      BY <2>4, <3>1, HasLargest
  <2>6. {j \in N : j > m} = B
    <3>1. \A j \in N : j > m => j \in B
      BY <1>b, <2>5
    <3>2. \A j \in B : j \in N /\ j > m
      BY <1>b, <2>5
    <3> HIDE DEF B
    <3> QED
      BY <3>1, <3>2
  <2> QED
    BY <2>3, <2>6 DEF Larger
<1>3. t \in T
  <2> HIDE DEF T
  <2> QED
    BY <1>1, <1>2, Counting
<1> QED
  BY <1>3

-----------------------------------------------------------------------------
(* tail_lines *)

LEMMA NewlinesAre ==
    ASSUME NEW s \in Seq(Int)
    PROVE  /\ Newlines(s) \in SUBSET (1..Len(s))
           /\ \A i \in 1..Len(s) : i \in Newlines(s) <=> s[i] < 0
BY DEF Newlines, IsNewline

LEMMA BlockStartBefore ==
    ASSUME NEW pos \in Nat \ {0}
    PROVE  BlockStart(pos) \in 0..(pos - 1)
BY LogAssumption DEF BlockStart

\* What a position leaves out, if those before it leave `rest` out.
Turn(s, threshold, pos, rest) ==
    IF pos = 0 THEN 0
    ELSE IF \E i \in Cuts(s, threshold) : i > BlockStart(pos)
    THEN CHOOSE i \in Cuts(s, threshold) : i > BlockStart(pos)
    ELSE rest

\* The recursion of TailLoop has a solution, position by position.
LEMMA TailLoopDefined ==
    ASSUME NEW s \in Seq(Int), NEW t
    PROVE  TailLoop(s, t) =
             [pos \in 0..Len(s) |->
                IF pos = 0 THEN 0
                ELSE IF \E i \in Cuts(s, t) : i > BlockStart(pos)
                THEN CHOOSE i \in Cuts(s, t) : i > BlockStart(pos)
                ELSE TailLoop(s, t)[BlockStart(pos)]]
<1> DEFINE Is(f, k) == f = [pos \in 0..k |-> Turn(s, t, pos, f[BlockStart(pos)])]
           K == {k \in Nat : \E f : Is(f, k)}
<1>1. 0 \in K
  <2>1. Is([pos \in 0..0 |-> 0], 0)
    BY DEF Turn
  <2> QED
    BY <2>1
<1>2. ASSUME NEW k \in Nat, k \in K PROVE k + 1 \in K
  <2>1. PICK f : Is(f, k)
    BY <1>2
  <2> DEFINE g == [pos \in 0..(k + 1) |->
                     IF pos = k + 1 THEN Turn(s, t, pos, f[BlockStart(pos)]) ELSE f[pos]]
  <2>2. ASSUME NEW pos \in 0..(k + 1)
        PROVE  g[pos] = Turn(s, t, pos, g[BlockStart(pos)])
    <3>1. CASE pos = 0
      <4>1. g[0] = f[0] /\ f[0] = Turn(s, t, 0, f[BlockStart(0)])
        BY <2>1
      <4> QED
        BY <3>1, <4>1 DEF Turn
    <3>2. CASE pos # 0
      <4>1. BlockStart(pos) \in 0..k
        <5>1. BlockStart(pos) \in 0..(pos - 1)
          BY <3>2, BlockStartBefore
        <5> QED
          BY <5>1
      <4>2. g[BlockStart(pos)] = f[BlockStart(pos)]
        BY <4>1
      <4>3. pos # k + 1 => f[pos] = Turn(s, t, pos, f[BlockStart(pos)])
        BY <2>1
      <4> QED
        BY <4>2, <4>3
    <3> QED
      BY <3>1, <3>2
  <2>3. \E h : Is(h, k + 1)
    <3>1. Is(g, k + 1)
      BY <2>2
    <3> QED
      BY <3>1, Zenon
  <2>4. k + 1 \in Nat
    OBVIOUS
  <2> QED
    BY <2>3, <2>4, Zenon
<1>3. Len(s) \in K
  <2> HIDE DEF K
  <2> QED
    BY <1>1, <1>2, Counting
<1>4. PICK f : Is(f, Len(s))
  BY <1>3
<1> QED
  BY <1>4, Zenon DEF TailLoop, Turn

LEMMA TailLoopEach ==
    ASSUME NEW s \in Seq(Int), NEW t
    PROVE  /\ TailLoop(s, t)[0] = 0
           /\ \A pos \in 1..Len(s) :
                TailLoop(s, t)[pos] = Turn(s, t, pos, TailLoop(s, t)[BlockStart(pos)])
<1> DEFINE F == TailLoop(s, t)
<1>1. F = [pos \in 0..Len(s) |-> Turn(s, t, pos, F[BlockStart(pos)])]
  <2>1. TailLoop(s, t) = [pos \in 0..Len(s) |-> Turn(s, t, pos, TailLoop(s, t)[BlockStart(pos)])]
    BY TailLoopDefined, Zenon DEF Turn
  <2> QED
    BY <2>1, Zenon
<1> HIDE DEF F
<1>2. F[0] = 0
  BY <1>1 DEF Turn
<1>3. ASSUME NEW pos \in 1..Len(s) PROVE F[pos] = Turn(s, t, pos, F[BlockStart(pos)])
  <2>1. pos \in 0..Len(s)
    OBVIOUS
  <2> QED
    BY <1>1, <2>1
<1> QED
  BY <1>2, <1>3 DEF F

\* Without a newline to cut at, the loop reaches the beginning.
LEMMA TailWhole ==
    ASSUME NEW s \in Seq(Int), NEW t, Cuts(s, t) = {}
    PROVE  TailFrom(s, t) = 0
<1> DEFINE S == {n \in Nat : n <= Len(s) => TailLoop(s, t)[n] = 0}
<1>1. ASSUME NEW n \in Nat, \A m \in 0..(n - 1) : m \in S PROVE n \in S
  <2> SUFFICES ASSUME n <= Len(s) PROVE TailLoop(s, t)[n] = 0
    OBVIOUS
  <2>1. CASE n = 0
    BY <2>1, TailLoopEach
  <2>2. CASE n # 0
    <3>1. BlockStart(n) \in 0..(n - 1)
      BY <2>2, BlockStartBefore
    <3>2. TailLoop(s, t)[BlockStart(n)] = 0
      BY <1>1, <3>1
    <3>3. TailLoop(s, t)[n] = Turn(s, t, n, TailLoop(s, t)[BlockStart(n)])
      BY <2>2, TailLoopEach
    <3> QED
      BY <2>2, <3>2, <3>3 DEF Turn
  <2> QED
    BY <2>1, <2>2
<1>2. Nat \subseteq S
  <2> HIDE DEF S
  <2> QED
    BY <1>1, CountingBelow
<1> QED
  BY <1>2 DEF TailFrom

\* The loop finds the newline to cut at, in whatever block it lies.
LEMMA TailCut ==
    ASSUME NEW s \in Seq(Int), NEW t, NEW c \in Cuts(s, t)
    PROVE  TailFrom(s, t) = c
<1> DEFINE S == {n \in Nat : n \in 1..Len(s) => TailLoop(s, t)[n] = c}
<1>a. Newlines(s) \in SUBSET (1..Len(s)) /\ c \in 1..Len(s)
  BY NewlinesAre DEF Cuts
<1>b. ASSUME NEW i \in Cuts(s, t) PROVE i = c
  <2>1. /\ i \in Newlines(s) /\ c \in Newlines(s) /\ Len(s) \in Nat
        /\ Larger(Newlines(s), i) = Larger(Newlines(s), c)
    BY DEF Cuts
  <2> QED
    BY <1>a, <2>1, LargerTells
<1>1. ASSUME NEW n \in Nat, \A m \in 0..(n - 1) : m \in S PROVE n \in S
  <2> SUFFICES ASSUME n \in 1..Len(s) PROVE TailLoop(s, t)[n] = c
    OBVIOUS
  <2>1. TailLoop(s, t)[n] = Turn(s, t, n, TailLoop(s, t)[BlockStart(n)])
    BY TailLoopEach
  <2>2. BlockStart(n) \in 0..(n - 1)
    BY BlockStartBefore
  <2>3. CASE c > BlockStart(n)
    BY <1>b, <2>1, <2>3 DEF Turn
  <2>4. CASE ~(c > BlockStart(n))
    <3>1. BlockStart(n) \in 1..Len(s)
      BY <1>a, <2>2, <2>4
    <3>2. TailLoop(s, t)[BlockStart(n)] = c
      BY <1>1, <2>2, <3>1
    <3> QED
      BY <1>b, <2>1, <2>4, <3>2 DEF Turn
  <2> QED
    BY <2>3, <2>4
<1>2. Nat \subseteq S
  <2> HIDE DEF S
  <2> QED
    BY <1>1, CountingBelow
<1> QED
  BY <1>a, <1>2 DEF TailFrom

LEMMA TailInLog ==
    ASSUME NEW s \in Seq(Int), NEW t
    PROVE  TailFrom(s, t) \in 0..Len(s)
<1>1. CASE Cuts(s, t) = {}
  BY <1>1, TailWhole
<1>2. ASSUME NEW c \in Cuts(s, t) PROVE TailFrom(s, t) \in 0..Len(s)
  <2>1. c \in 1..Len(s)
    BY NewlinesAre DEF Cuts
  <2> QED
    BY <2>1, TailCut
<1> QED
  BY <1>1, <1>2

-----------------------------------------------------------------------------
(* What follows a position *)

LEMMA SuffixType ==
    ASSUME NEW S, NEW s \in Seq(S), NEW i \in 0..Len(s)
    PROVE  /\ Suffix(s, i) \in Seq(S)
           /\ Len(Suffix(s, i)) = Len(s) - i
           /\ \A k \in 1..(Len(s) - i) : Suffix(s, i)[k] = s[i + k]
<1>1. \A k \in (i + 1)..Len(s) : s[k] \in S
  OBVIOUS
<1>2. i + 1 \in Int /\ Len(s) \in Int
  OBVIOUS
<1>3. /\ SubSeq(s, i + 1, Len(s)) \in Seq(S)
      /\ Len(SubSeq(s, i + 1, Len(s))) = IF i + 1 <= Len(s) THEN Len(s) - (i + 1) + 1 ELSE 0
      /\ \A k \in 1..(Len(s) - (i + 1) + 1) : SubSeq(s, i + 1, Len(s))[k] = s[(i + 1) + k - 1]
  OBVIOUS
<1> DEFINE u == SubSeq(s, i + 1, Len(s))
<1> HIDE DEF u
<1>4. u \in Seq(S) /\ Len(u) = Len(s) - i
  BY <1>3 DEF u
<1>5. \A k \in 1..(Len(s) - i) : u[k] = s[i + k]
  <2> TAKE k \in 1..(Len(s) - i)
  <2>1. k \in 1..(Len(s) - (i + 1) + 1) /\ (i + 1) + k - 1 = i + k
    OBVIOUS
  <2>2. u[k] = s[(i + 1) + k - 1]
    BY <1>3, <2>1, Zenon DEF u
  <2> QED
    BY <2>1, <2>2
<1>6. Suffix(s, i) = u
  BY DEF Suffix, u
<1> QED
  BY <1>4, <1>5, <1>6

\* The number of lines behind a position.
LEMMA LinesBehind ==
    ASSUME NEW s \in Seq(Int), NEW j \in 0..Len(s)
    PROVE  LineCount(Suffix(s, j)) = Larger(Newlines(s), j)
                + (IF j = Len(s) \/ s[Len(s)] < 0 THEN 0 ELSE 1)
<1> DEFINE u == Suffix(s, j)
           A == Newlines(u)
           B == {k \in Newlines(s) : k > j}
           f == [i \in A |-> i + j]
<1>1. /\ u \in Seq(Int)
      /\ Len(u) = Len(s) - j
      /\ \A k \in 1..(Len(s) - j) : u[k] = s[j + k]
  BY SuffixType
<1>2. A \in SUBSET (1..Len(u)) /\ \A i \in 1..Len(u) : i \in A <=> u[i] < 0
  BY <1>1, NewlinesAre
<1>3. B \in SUBSET (1..Len(s)) /\ \A i \in 1..Len(s) : i \in B <=> s[i] < 0 /\ i > j
  BY NewlinesAre
<1> HIDE DEF u, A, B
<1>4. f \in Bijection(A, B)
  <2>1. ASSUME NEW i \in A PROVE i + j \in B /\ f[i] = i + j
    <3>1. i \in 1..(Len(s) - j) /\ u[i] < 0 /\ u[i] = s[j + i]
      BY <1>1, <1>2
    <3>2. i + j \in 1..Len(s) /\ i + j > j /\ s[i + j] < 0
      BY <3>1
    <3> QED
      BY <1>3, <3>2
  <2>2. ASSUME NEW k \in B PROVE \E i \in A : f[i] = k
    <3>1. k \in 1..Len(s) /\ k > j /\ s[k] < 0
      BY <1>3
    <3>2. k - j \in 1..(Len(s) - j) /\ u[k - j] = s[j + (k - j)] /\ j + (k - j) = k
      BY <1>1, <3>1
    <3>3. k - j \in A
      BY <1>1, <1>2, <3>1, <3>2
    <3>4. f[k - j] = k
      BY <3>1, <3>3
    <3> QED
      BY <3>3, <3>4
  <2>3. ASSUME NEW i \in A, NEW k \in A, f[i] = f[k] PROVE i = k
    <3>1. i \in Int /\ k \in Int /\ i + j = k + j
      BY <1>2, <2>1, <2>3
    <3> QED
      BY <3>1
  <2>4. f \in [A -> B]
    BY <2>1
  <2> HIDE DEF f
  <2> QED
    BY <2>2, <2>3, <2>4, Zenon DEF Bijection, Injection, Surjection, IsInjective
<1>5. Cardinality(A) = Cardinality(B)
  <2>1. IsFiniteSet(A)
    <3>1. Len(u) \in Nat
      BY <1>1
    <3> QED
      BY <1>2, <3>1, Positions
  <2>2. ExistsBijection(A, B)
    BY <1>4, Zenon DEF ExistsBijection
  <2> QED
    BY <2>1, <2>2, FS_Bijection
<1>6. Larger(Newlines(s), j) = Cardinality(B)
  BY DEF Larger, B
<1>7. (u = <<>> \/ IsNewline(Last(u))) <=> (j = Len(s) \/ s[Len(s)] < 0)
  <2>1. CASE j = Len(s)
    BY <1>1, <2>1
  <2>2. CASE j # Len(s)
    <3>1. Len(u) \in 1..(Len(s) - j) /\ j + Len(u) = Len(s)
      BY <1>1, <2>2
    <3>2. Last(u) = s[Len(s)] /\ u # <<>>
      <4>1. u[Len(u)] = s[Len(s)]
        BY <1>1, <3>1
      <4>2. u # <<>>
        BY <3>1
      <4> QED
        BY <4>1, <4>2, Zenon DEF Last
    <3> QED
      BY <2>2, <3>2 DEF IsNewline
  <2> QED
    BY <2>1, <2>2
<1>8. LineCount(u) = Cardinality(A) + (IF u = <<>> \/ IsNewline(Last(u)) THEN 0 ELSE 1)
  BY DEF LineCount, A
<1> QED
  BY <1>5, <1>6, <1>7, <1>8 DEF u

LEMMA CutEnough ==
    ASSUME NEW s \in Seq(Int), s # <<>>, NEW n \in Nat \ {0}, NEW T \in Nat,
           T = IF s[Len(s)] < 0 THEN n ELSE n - 1
    PROVE  /\ TailFrom(s, T) = 0 \/ s[TailFrom(s, T)] < 0
           /\ LineCount(Suffix(s, TailFrom(s, T))) <= n
           /\ \A k \in 0..(TailFrom(s, T) - 1) : LineCount(Suffix(s, k)) > n
<1> DEFINE N == Newlines(s)
<1>1. N \in SUBSET (1..Len(s)) /\ \A i \in 1..Len(s) : i \in N <=> s[i] < 0
  BY NewlinesAre
<1>2. Len(s) \in Nat \ {0}
  OBVIOUS
<1>3. CASE Cuts(s, T) = {}
  <2>1. TailFrom(s, T) = 0
    BY <1>3, TailWhole
  <2>2. ~(Cardinality(N) > T)
    <3> SUFFICES ASSUME Cardinality(N) > T PROVE FALSE
      OBVIOUS
    <3>1. \E i \in N : Larger(N, i) = T
      <4> HIDE DEF N
      <4> QED
        BY <1>1, <1>2, LargerReaches
    <3> QED
      BY <1>3, <3>1 DEF Cuts
  <2>3. Larger(N, 0) = Cardinality(N)
    <3>1. {j \in N : j > 0} = N
      BY <1>1
    <3> QED
      BY <3>1, Zenon DEF Larger
  <2>4. LineCount(Suffix(s, 0)) = Cardinality(N) + (IF s[Len(s)] < 0 THEN 0 ELSE 1)
    BY <1>2, <2>3, LinesBehind
  <2>5. Cardinality(N) \in Nat
    BY <1>1, <1>2, Positions, FS_CardinalityType
  <2>6. LineCount(Suffix(s, 0)) <= n
    BY <2>2, <2>4, <2>5
  <2> QED
    BY <2>1, <2>6
<1>4. ASSUME NEW c \in Cuts(s, T)
      PROVE  /\ TailFrom(s, T) = c
             /\ s[c] < 0
             /\ LineCount(Suffix(s, c)) <= n
             /\ \A k \in 0..(c - 1) : LineCount(Suffix(s, k)) > n
  <2>1. TailFrom(s, T) = c
    BY TailCut
  <2>2. c \in N /\ Larger(N, c) = T
    BY DEF Cuts
  <2>3. c \in 1..Len(s) /\ s[c] < 0
    BY <1>1, <2>2
  <2>4. LineCount(Suffix(s, c)) = T + (IF c = Len(s) \/ s[Len(s)] < 0 THEN 0 ELSE 1)
    BY <2>2, <2>3, LinesBehind
  <2>5. LineCount(Suffix(s, c)) <= n
    BY <2>3, <2>4
  <2>6. ASSUME NEW k \in 0..(c - 1) PROVE LineCount(Suffix(s, k)) > n
    <3>1. Larger(N, k) >= T + 1 /\ Larger(N, k) \in Nat
      <4>1. k < c /\ k \in Int
        BY <2>3
      <4> HIDE DEF N
      <4> QED
        BY <1>1, <1>2, <2>2, <4>1, LargerBack, LargerIsNat
    <3>2. k \in 0..Len(s) /\ k # Len(s)
      BY <2>3
    <3>3. LineCount(Suffix(s, k)) = Larger(N, k) + (IF s[Len(s)] < 0 THEN 0 ELSE 1)
      BY <3>2, LinesBehind
    <3> QED
      BY <3>1, <3>3
  <2> QED
    BY <2>1, <2>3, <2>5, <2>6
<1> QED
  BY <1>3, <1>4

\* The tail begins at the first position with few enough lines behind it.
LEMMA TailSound ==
    ASSUME NEW s \in Seq(Int), NEW n \in Nat \ {0},
           NEW j \in 0..Len(s), j = 0 \/ s[j] < 0, LineCount(Suffix(s, j)) <= n,
           \A k \in 0..Len(s) :
              (k = 0 \/ s[k] < 0) /\ LineCount(Suffix(s, k)) <= n => j <= k
    PROVE  tail_lines(s, n) = Suffix(s, j)
<1>1. CASE s = <<>>
  <2>1. j = 0 /\ SubSeq(s, 1, 0) = <<>>
    BY <1>1
  <2> QED
    BY <1>1, <2>1 DEF tail_lines, Suffix
<1>2. CASE s # <<>>
  <2> DEFINE T == IF s[Len(s)] < 0 THEN n ELSE n - 1
             c == TailFrom(s, T)
  <2>1. T \in Nat /\ c \in 0..Len(s)
    <3>1. T \in Nat
      OBVIOUS
    <3> QED
      BY <3>1, TailInLog
  <2>2. /\ c = 0 \/ s[c] < 0
        /\ LineCount(Suffix(s, c)) <= n
        /\ \A k \in 0..(c - 1) : LineCount(Suffix(s, k)) > n
    <3> HIDE DEF c
    <3>1. T \in Nat /\ T = IF s[Len(s)] < 0 THEN n ELSE n - 1
      OBVIOUS
    <3> HIDE DEF T
    <3> QED
      BY <1>2, <3>1, CutEnough DEF c
  <2>3. tail_lines(s, n) = Suffix(s, c)
    BY <1>2 DEF tail_lines, Suffix, Last, IsNewline
  <2> HIDE DEF c, T
  <2>4. c = j
    <3>1. j <= c
      BY <2>1, <2>2
    <3>2. ~(j < c)
      <4> SUFFICES ASSUME j < c PROVE FALSE
        OBVIOUS
      <4>1. j \in 0..(c - 1)
        BY <2>1
      <4>2. LineCount(Suffix(s, j)) > n
        BY <2>2, <4>1
      <4>3. LineCount(Suffix(s, j)) \in Int
        <5>1. LineCount(Suffix(s, j)) = Larger(Newlines(s), j)
                + (IF j = Len(s) \/ s[Len(s)] < 0 THEN 0 ELSE 1)
          BY LinesBehind
        <5>2. Larger(Newlines(s), j) \in Nat
          <6>1. Len(s) \in Nat /\ Newlines(s) \in SUBSET (1..Len(s))
            BY NewlinesAre
          <6> QED
            BY <6>1, LargerIsNat
        <5> QED
          BY <5>1, <5>2
      <4> QED
        BY <4>2, <4>3
    <3> QED
      BY <2>1, <3>1, <3>2
  <2> QED
    BY <2>3, <2>4
<1> QED
  BY <1>1, <1>2

\* The lines that are complete are a beginning of the text.
LEMMA CompleteInText ==
    ASSUME NEW s \in Seq(Int)
    PROVE  Complete(s) \in 0..Len(s)
<1>1. CASE Newlines(s) = {}
  BY <1>1 DEF Complete
<1>2. CASE Newlines(s) # {}
  <2>1. Len(s) \in Nat /\ Newlines(s) \in SUBSET (1..Len(s))
    BY NewlinesAre
  <2>2. Cardinality(Newlines(s)) \in Nat /\ Cardinality(Newlines(s)) # 0
    BY <1>2, <2>1, Positions, FS_CardinalityType, FS_EmptySet
  <2>3. \E i \in Newlines(s) : Larger(Newlines(s), i) = 0
    <3> DEFINE N == Newlines(s)
    <3> HIDE DEF N
    <3>1. Cardinality(N) > 0 /\ Len(s) \in Nat /\ N \in SUBSET (1..Len(s)) /\ 0 \in Nat
      BY <2>1, <2>2 DEF N
    <3>2. \E i \in N : Larger(N, i) = 0
      BY <3>1, LargerReaches
    <3> QED
      BY <3>2, Zenon DEF N
  <2>4. Complete(s) \in Newlines(s)
    BY <1>2, <2>3, Zenon DEF Complete
  <2> QED
    BY <2>1, <2>4
<1> QED
  BY <1>1, <1>2

\* What is appended to a log is appended to what follows a position. (Named, as the
\* next two, for the lemma to be found where it is cited.)
SuffixGrows(s, b, i) == Suffix(Append(s, b), i) = Append(Suffix(s, i), b)

LEMMA SuffixOfAppend ==
    ASSUME NEW S, NEW s \in Seq(S), NEW b \in S, NEW i \in 0..Len(s)
    PROVE  SuffixGrows(s, b, i)
<1> DEFINE t == Append(s, b)
           u == Suffix(t, i)
           v == Suffix(s, i)
           w == Append(v, b)
<1>1. /\ t \in Seq(S)
      /\ Len(t) = Len(s) + 1
      /\ \A k \in 1..Len(s) : t[k] = s[k]
      /\ t[Len(s) + 1] = b
  OBVIOUS
<1>2. /\ v \in Seq(S)
      /\ Len(v) = Len(s) - i
      /\ \A k \in 1..(Len(s) - i) : v[k] = s[i + k]
  BY SuffixType
<1>3. /\ u \in Seq(S)
      /\ Len(u) = Len(t) - i
      /\ \A k \in 1..(Len(t) - i) : u[k] = t[i + k]
  <2>1. t \in Seq(S) /\ i \in 0..Len(t)
    BY <1>1
  <2> HIDE DEF t
  <2> QED
    BY <2>1, SuffixType
<1> HIDE DEF v
<1>4. /\ w \in Seq(S)
      /\ Len(w) = Len(v) + 1
      /\ \A k \in 1..Len(v) : w[k] = v[k]
      /\ w[Len(v) + 1] = b
  BY <1>2
<1> HIDE DEF t, u, w
<1>5. Len(u) = Len(w)
  BY <1>1, <1>2, <1>3, <1>4
<1>6. ASSUME NEW k \in 1..Len(u) PROVE u[k] = w[k]
  <2>1. CASE k = Len(v) + 1
    <3>1. k \in 1..(Len(t) - i) /\ i + k = Len(s) + 1
      BY <1>1, <1>2, <1>3, <2>1
    <3> QED
      BY <1>1, <1>3, <1>4, <2>1, <3>1
  <2>2. CASE k # Len(v) + 1
    <3>1. k \in 1..Len(v) /\ i + k \in 1..Len(s)
      BY <1>2, <1>4, <1>5, <2>2
    <3> QED
      BY <1>1, <1>2, <1>3, <1>4, <3>1
  <2> QED
    BY <2>1, <2>2
<1>7. u = w
  BY <1>3, <1>4, <1>5, <1>6, SeqEqual
<1> QED
  BY <1>7 DEF SuffixGrows, u, t, w, v

\* (u \o v) \o w, from either side.
Associates(u, v, w) == (u \o v) \o w = u \o (v \o w)

LEMMA Association ==
    ASSUME NEW S, NEW u \in Seq(S), NEW v \in Seq(S), NEW w \in Seq(S)
    PROVE  Associates(u, v, w)
<1>1. (u \o v) \o w = u \o (v \o w)
  BY ConcatAssociative
<1> QED
  BY <1>1, Zenon DEF Associates

\* The parts of a text make it up.
Adjacent(s, m, k, n) == SubSeq(s, m, k) \o SubSeq(s, k + 1, n) = SubSeq(s, m, n)
Joins(s, i, j) == SubSeq(s, i + 1, j) \o Suffix(s, j) = Suffix(s, i)

LEMMA Adjacency ==
    ASSUME NEW S, NEW s \in Seq(S), NEW m \in 1..Len(s) + 1,
           NEW k \in m - 1..Len(s), NEW n \in k..Len(s)
    PROVE  Adjacent(s, m, k, n)
<1>1. SubSeq(s, m, k) \o SubSeq(s, k + 1, n) = SubSeq(s, m, n)
  BY ConcatAdjacentSubSeq
<1> QED
  BY <1>1, Zenon DEF Adjacent

LEMMA SuffixJoins ==
    ASSUME NEW S, NEW s \in Seq(S), NEW i \in 0..Len(s), NEW j \in i..Len(s)
    PROVE  Joins(s, i, j)
<1>1. i + 1 \in 1..(Len(s) + 1) /\ j \in (i + 1 - 1)..Len(s) /\ Len(s) \in j..Len(s)
  OBVIOUS
<1>2. Adjacent(s, i + 1, j, Len(s))
  BY <1>1, Adjacency
<1> QED
  BY <1>2, Zenon DEF Adjacent, Joins, Suffix

\* Reading on moves bytes from the log to what waits and what is shown.
ReadsOn(a, p, s, i, j, n) ==
    LET text == p \o SubSeq(s, i + 1, j)
    IN  (a \o SubSeq(text, 1, n)) \o SubSeq(text, n + 1, Len(text)) \o Suffix(s, j)
          = a \o p \o Suffix(s, i)

LEMMA ReadingOn ==
    ASSUME NEW S, NEW a \in Seq(S), NEW p \in Seq(S), NEW s \in Seq(S),
           NEW i \in 0..Len(s), NEW j \in i..Len(s),
           NEW n \in 0..Len(p \o SubSeq(s, i + 1, j))
    PROVE  ReadsOn(a, p, s, i, j, n)
<1> DEFINE m == SubSeq(s, i + 1, j)
           r == Suffix(s, j)
           text == p \o m
           t == SubSeq(text, 1, n)
           u == SubSeq(text, n + 1, Len(text))
<1>1. m \in Seq(S)
  OBVIOUS
<1>2. r \in Seq(S)
  BY SuffixType
<1>3. m \o r = Suffix(s, i)
  BY SuffixJoins, Zenon DEF Joins
<1> HIDE DEF m, r
<1>4. text \in Seq(S)
  BY <1>1
<1>5. n \in 0..Len(text)
  BY DEF m
<1> HIDE DEF text
<1>6. t \in Seq(S)
  BY <1>4, <1>5
<1>7. u \in Seq(S)
  BY <1>4, <1>5
<1>8. t \o u = text
  <2>1. Len(text) \in Nat
    BY <1>4
  <2>2. 0 \in 0..Len(text) /\ n \in 0..Len(text)
    BY <1>5, <2>1
  <2>3. Joins(text, 0, n)
    BY <1>4, <2>2, SuffixJoins
  <2>4. 0 + 1 = 1
    OBVIOUS
  <2>5. SubSeq(text, 1, n) \o SubSeq(text, n + 1, Len(text)) = SubSeq(text, 1, Len(text))
    BY <2>3, <2>4, Zenon DEF Joins, Suffix
  <2>6. SubSeq(text, 1, Len(text)) = text
    BY <1>4, SubSeqFull, Zenon
  <2> QED
    BY <2>5, <2>6, Zenon
<1> HIDE DEF t, u
<1>9. (a \o t) \o u = a \o text
  <2>1. Associates(a, t, u)
    BY <1>6, <1>7, Association
  <2> QED
    BY <1>8, <2>1, Zenon DEF Associates
<1>10. (a \o text) \o r = a \o (text \o r)
  <2>1. Associates(a, text, r)
    BY <1>2, <1>4, Association
  <2> QED
    BY <2>1, Zenon DEF Associates
<1>11. text \o r = p \o (m \o r)
  <2>1. Associates(p, m, r)
    BY <1>1, <1>2, Association
  <2> QED
    BY <2>1, Zenon DEF Associates, text
<1>12. a \o (p \o Suffix(s, i)) = (a \o p) \o Suffix(s, i)
  <2>1. Suffix(s, i) \in Seq(S)
    BY SuffixType
  <2>2. Associates(a, p, Suffix(s, i))
    BY <2>1, Association
  <2> QED
    BY <2>2, Zenon DEF Associates
<1>13. ((a \o t) \o u) \o r = (a \o p) \o Suffix(s, i)
  BY <1>3, <1>9, <1>10, <1>11, <1>12, Zenon
<1> QED
  BY <1>13, Zenon DEF ReadsOn, t, u, r, text, m

\* What is appended to a concatenation is appended to its second part.
AppendsToLast(u, v, x) == Append(u \o v, x) = u \o Append(v, x)

LEMMA AppendToLast ==
    ASSUME NEW S, NEW u \in Seq(S), NEW v \in Seq(S), NEW x \in S
    PROVE  AppendsToLast(u, v, x)
BY DEF AppendsToLast

-----------------------------------------------------------------------------
(* The inductive invariant *)

Types ==
    /\ kind \in Kinds /\ pc \in Opening \union Attached \union Ended
    /\ data \in [Inode -> Seq(Int)]
    /\ ups \in 0..MaxUps /\ count \in Nat
    /\ path \in 0..(ups + 1) /\ out \in {0, path}
    /\ fd \in 0..(MaxUps + 1) /\ offset \in Nat /\ from \in Nat
    /\ len \in Nat \union {-1} /\ begin \in Nat
    /\ shown \in Seq(Int)
    /\ pending \in Seq(Int)
    /\ cut \in BOOLEAN /\ lost \in BOOLEAN

\* What is in a log was written.
Known == \A i \in Inode : \A k \in 1..Len(data[i]) : Id(data[i][k]) <= count

\* What each stage of the view has, and which of the commands goes through it.
Places ==
    /\ pc \in Opening => fd = 0 /\ pending = <<>>
    /\ pc \in Opening /\ pc # "tailed" => shown = <<>>
    /\ pc \in {"start", "asked", "starting"} => kind = "up"
    /\ pc \in {"tailed", "wait"} => kind # "up"
    /\ pc \in Attached => fd # 0
    /\ pc \in {"tailed"} \union Attached => path # 0
    /\ path = 0 \/ kind # "up" \/ pc \in {"start"} \union Attached => from = 0

\* Until the log is cut, the follower has it open, and nothing it knows of the log
\* lies beyond its end.
Follows ==
    ~cut =>
        /\ pc \in Attached => fd = path /\ offset <= Len(data[path])
        /\ pc = "stat" => len <= Len(data[path])
        /\ path # 0 => from <= Len(data[path])

\* The tail is the end of the log until something is written.
TailIsEnd ==
    pc = "tailed" /\ ~cut /\ ~lost =>
        \E j \in 0..Len(data[path]) : shown = Suffix(data[path], j)

\* The first bytes of a log are older than the up.
Older(s, n) == \A i \in 1..n : Id(s[i]) < begin

SkipsOlder ==
    pc \in {"starting", "find"} /\ kind = "up" /\ ~cut /\ path # 0 => Older(data[path], from)

Gapless ==
    pc \in Attached /\ ~cut /\ ~lost =>
        \E j \in 0..Len(data[path]) :
            /\ shown \o pending \o Suffix(data[path], offset) = Suffix(data[path], j)
            /\ kind = "up" => Older(data[path], j)

IInv == Types /\ Known /\ Places /\ Follows /\ TailIsEnd /\ SkipsOlder /\ Gapless

LEMMA PathIsInode ==
    ASSUME Types, path # 0
    PROVE  path \in Inode /\ data[path] \in Seq(Int)
<1>1. path \in Inode
  BY LogAssumption DEF Types, Inode
<1> QED
  BY <1>1 DEF Types

LEMMA PathIsInodeNext ==
    ASSUME Types', path' # 0
    PROVE  path' \in Inode /\ data'[path'] \in Seq(Int)
<1>1. path' \in Inode
  <2>1. path' \in 0..(ups' + 1) /\ ups' \in 0..MaxUps
    BY DEF Types
  <2>2. MaxUps \in Nat
    BY LogAssumption
  <2>3. \A u \in 0..MaxUps : \A p \in 0..(u + 1) : p # 0 => p \in 1..(MaxUps + 1)
    BY <2>2
  <2> QED
    BY <2>1, <2>3 DEF Inode
<1> QED
  BY <1>1 DEF Types

LEMMA Starting == Init => IInv
<1> SUFFICES ASSUME Init PROVE IInv
  OBVIOUS
<1>1. PICK k \in 0..(LogMax + 1), nl \in BOOLEAN :
        /\ count = k
        /\ data = [i \in Inode |-> IF i # 1 THEN <<>>
                      ELSE [j \in 1..k |-> IF j = k /\ nl THEN -j ELSE j]]
        /\ path = IF k = 0 THEN 0 ELSE 1
  BY DEF Init
<1>0. LogMax \in Nat /\ MaxUps \in Nat /\ Kinds \subseteq {"up", "logs", "process"}
  BY LogAssumption
<1>2. k \in Nat
  BY <1>0
<1> DEFINE s == [j \in 1..k |-> IF j = k /\ nl THEN -j ELSE j]
<1>3. s \in Seq(Int) /\ Len(s) = k /\ \A j \in 1..k : Id(s[j]) <= k
  <2>1. \A j \in 1..k : s[j] \in Int /\ Id(s[j]) <= k
    <3> TAKE j \in 1..k
    <3>1. s[j] = IF j = k /\ nl THEN -j ELSE j
      OBVIOUS
    <3> HIDE DEF s
    <3>2. s[j] = j \/ s[j] = -j
      BY <3>1, Zenon
    <3> QED
      BY <1>2, <3>2 DEF Id
  <2>2. s \in [1..k -> Int]
    BY <2>1
  <2> HIDE DEF s
  <2>3. s \in Seq(Int) /\ Len(s) = k
    BY <1>2, <2>2
  <2> QED
    BY <2>1, <2>3
<1> HIDE DEF s
<1>4. data = [i \in Inode |-> IF i # 1 THEN <<>> ELSE s]
  BY <1>1, Zenon DEF s
<1>5. Types
  <2>1. data \in [Inode -> Seq(Int)]
    BY <1>3, <1>4
  <2>2. pc \in Opening /\ kind \in Kinds
    BY DEF Init, Opening
  <2>3. <<>> \in Seq(Int)
    OBVIOUS
  <2>4. path \in 0..(ups + 1) /\ count \in Nat /\ ups \in 0..MaxUps
    BY <1>0, <1>1, <1>2 DEF Init
  <2>5. /\ out = 0 /\ fd = 0 /\ offset = 0 /\ from = 0 /\ len = -1 /\ begin = 0
        /\ shown = <<>> /\ pending = <<>> /\ cut = FALSE /\ lost = FALSE
    BY DEF Init
  <2>6. fd \in 0..(MaxUps + 1) /\ len \in Nat \union {-1}
    BY <1>0, <2>5
  <2> QED
    BY <2>1, <2>2, <2>3, <2>4, <2>5, <2>6 DEF Types
<1>6. Known
  <2>1. ASSUME NEW i \in Inode PROVE \A j \in 1..Len(data[i]) : Id(data[i][j]) <= count
    <3>1. CASE i = 1
      BY <1>1, <1>3, <1>4, <3>1
    <3>2. CASE i # 1
      <4>1. data[i] = <<>>
        BY <1>4, <3>2
      <4> QED
        BY <4>1
    <3> QED
      BY <3>1, <3>2
  <2> QED
    BY <2>1 DEF Known
<1>7. pc \notin Attached /\ pc # "tailed" /\ pc # "stat"
  BY DEF Init, Attached
<1>8. Places
  BY <1>7 DEF Init, Places
<1>9. Follows
  <2>1. path # 0 => from <= Len(data[path])
    <3> SUFFICES ASSUME path # 0 PROVE 0 <= Len(data[path])
      BY DEF Init
    <3>1. data[path] \in Seq(Int)
      BY <1>5, PathIsInode
    <3> QED
      BY <3>1
  <2> QED
    BY <1>7, <2>1 DEF Follows
<1>10. SkipsOlder
  BY DEF SkipsOlder, Older, Init
<1> QED
  BY <1>5, <1>6, <1>7, <1>8, <1>9, <1>10 DEF IInv, TailIsEnd, Gapless

\* The steps that touch neither the log nor what the view has of it.
Quiet ==
    /\ UNCHANGED <<kind, ups, count, data, path, from, fd, offset, pending, len, shown,
                   begin, cut, lost>>
    /\ out' \in {0, out}
    /\ \/ pc' = pc
       \/ pc' \in Ended
       \/ pc = "starting" /\ pc' = "find"
       \/ pc = "wait" /\ pc' = "find"
       \/ pc = "find" /\ kind # "up" /\ pc' = "wait"

LEMMA QuietSteps ==
    ASSUME \/ Listed \/ Dies \/ Removed \/ UpRefused \/ NoFile \/ FileAppears
           \/ SeesDead \/ ReadFails \/ OnlyOtherLogs \/ Discover \/ Keys
           \/ UNCHANGED vars
    PROVE  Quiet
<1> USE DEF Quiet, project, follower, Ended
<1>1. CASE Listed \/ Dies \/ Removed
  BY <1>1 DEF Listed, Dies, Removed
<1>2. CASE UpRefused \/ FileAppears
  BY <1>2 DEF UpRefused, FileAppears
<1>3. CASE NoFile
  BY <1>3 DEF NoFile
<1>4. CASE SeesDead \/ ReadFails \/ OnlyOtherLogs
  BY <1>4 DEF SeesDead, ReadFails, OnlyOtherLogs
<1>5. CASE Discover
  BY <1>5 DEF Discover
<1>6. CASE Keys
  BY <1>6 DEF Keys
<1>7. CASE UNCHANGED vars
  BY <1>7 DEF vars
<1> QED
  BY <1>1, <1>2, <1>3, <1>4, <1>5, <1>6, <1>7

LEMMA QuietKeeps ==
    ASSUME IInv, Quiet
    PROVE  IInv'
<1>1. Types'
  BY DEF IInv, Types, Quiet, Opening
<1>2. Known'
  BY DEF IInv, Known, Quiet
<1>3. /\ pc' \in Attached => pc' = pc
      /\ pc' \in Opening => pc \in Opening
      /\ pc' = "tailed" => pc = "tailed"
      /\ pc' = "stat" => pc = "stat"
      /\ pc' = "start" => pc = "start"
      /\ pc' \in {"start", "asked", "starting"} => pc' = pc
      /\ pc' = "wait" => pc = "wait" \/ (pc = "find" /\ kind # "up")
      /\ pc' = "find" => pc \in {"find", "starting"} \/ pc = "wait"
      /\ pc' \in Opening /\ pc' # "tailed" => pc # "tailed"
  BY DEF Quiet, Attached, Opening, Ended
<1>4. Places'
  BY <1>3 DEF IInv, Places, Quiet
<1>5. Follows'
  BY <1>3 DEF IInv, Follows, Quiet
<1>6. TailIsEnd'
  BY <1>3 DEF IInv, TailIsEnd, Quiet
<1>7. SkipsOlder'
  BY <1>3 DEF IInv, SkipsOlder, Older, Places, Quiet
<1>8. Gapless'
  BY <1>3 DEF IInv, Gapless, Older, Quiet
<1> QED
  BY <1>1, <1>2, <1>4, <1>5, <1>6, <1>7, <1>8 DEF IInv

-----------------------------------------------------------------------------
(* The project's steps *)

LEMMA StartsStep ==
    ASSUME IInv, Starts,
           \/ UNCHANGED <<pc, begin>>
           \/ pc = "asked" /\ pc' = "starting" /\ begin' = count + 1
    PROVE  IInv'
<1> USE DEF follower
<1>0. MaxUps \in Nat
  BY LogAssumption
<1>1. /\ UNCHANGED <<kind, count, data, from, fd, offset, pending, len, shown, lost>>
      /\ ups' = ups + 1 /\ ups < MaxUps
      /\ \/ path' = path /\ cut' = cut /\ out' \in {0, path}
         \/ path' = ups + 2 /\ out' = path' /\ cut' = (cut \/ (path # 0 /\ Relies))
  BY DEF Starts, OpensLog
<1>2. Types'
  <2>1. ups \in Nat /\ ups + 2 \in 0..(ups' + 1) /\ path \in 0..(ups' + 1)
    BY <1>0, <1>1 DEF IInv, Types
  <2>2. path' \in 0..(ups' + 1) /\ out' \in {0, path'} /\ cut' \in BOOLEAN
    BY <1>1, <2>1 DEF IInv, Types
  <2>3. pc' \in Opening \union Attached \union Ended /\ begin' \in Nat
    BY DEF IInv, Types, Opening
  <2>4. ups' \in 0..MaxUps
    BY <1>0, <1>1, <2>1 DEF IInv, Types
  <2> QED
    BY <1>1, <2>2, <2>3, <2>4 DEF IInv, Types
<1>3. Known'
  BY <1>1 DEF IInv, Known
<1>4. Places'
  <2>1. path' = 0 => path = 0
    BY <1>0, <1>1 DEF IInv, Types
  <2>2. pc' \in {"tailed"} \union Attached => pc' = pc /\ path' # 0
    BY <1>0, <1>1 DEF IInv, Types, Places, Attached
  <2> QED
    BY <1>1, <2>1, <2>2 DEF IInv, Places, Opening, Attached
<1>5. CASE path' = path /\ cut' = cut
  <2>1. pc' = pc \/ (pc' = "starting" /\ pc = "asked")
    OBVIOUS
  <2>2. Follows'
    BY <1>1, <1>5, <2>1 DEF IInv, Follows, Attached
  <2>3. TailIsEnd'
    BY <1>1, <1>5, <2>1 DEF IInv, TailIsEnd
  <2>4. SkipsOlder'
    <3>1. CASE pc' = "starting" /\ pc = "asked" /\ begin' = count + 1
      <4> SUFFICES ASSUME path # 0, ~cut PROVE Older(data[path], from)'
        BY <1>1, <1>5 DEF SkipsOlder
      <4>1. path \in Inode /\ data[path] \in Seq(Int) /\ from <= Len(data[path])
        BY PathIsInode DEF IInv, Follows
      <4>2. \A i \in 1..from : i \in 1..Len(data[path])
        BY <4>1 DEF IInv, Types
      <4>3. \A i \in 1..from : Id(data[path][i]) <= count
        BY <4>1, <4>2 DEF IInv, Known
      <4>4. \A i \in 1..Len(data[path]) : Id(data[path][i]) \in Int
        BY <4>1 DEF Id
      <4> QED
        BY <1>1, <1>5, <3>1, <4>2, <4>3, <4>4 DEF Older, IInv, Types
    <3>2. CASE UNCHANGED <<pc, begin>>
      BY <1>1, <1>5, <3>2 DEF IInv, SkipsOlder, Older
    <3> QED
      BY <3>1, <3>2
  <2>5. Gapless'
    BY <1>1, <1>5, <2>1 DEF IInv, Gapless, Older, Attached
  <2> QED
    BY <1>2, <1>3, <1>4, <2>2, <2>3, <2>4, <2>5 DEF IInv
<1>6. CASE path' = ups + 2 /\ cut' = (cut \/ (path # 0 /\ Relies))
  <2>1. ~cut' => pc' \notin Attached /\ pc' # "tailed" /\ pc' # "stat" /\ from = 0
    <3> SUFFICES ASSUME ~cut' PROVE pc \notin Attached /\ pc # "tailed" /\ from = 0
      BY DEF Attached
    <3>1. path = 0 \/ ~Relies
      BY <1>6
    <3> QED
      BY <3>1 DEF IInv, Places, Relies, Attached
  <2>2. path' # 0 /\ data'[path'] \in Seq(Int)
    <3>1. path' # 0
      BY <1>6 DEF IInv, Types
    <3> QED
      BY <1>2, <3>1, PathIsInodeNext
  <2>3. Follows'
    BY <1>1, <2>1, <2>2 DEF Follows
  <2>4. SkipsOlder'
    BY <1>1, <2>1 DEF SkipsOlder, Older
  <2> QED
    BY <1>2, <1>3, <1>4, <2>1, <2>3, <2>4 DEF IInv, TailIsEnd, Gapless
<1> QED
  BY <1>1, <1>5, <1>6

LEMMA ProcessStartsStep ==
    ASSUME IInv, ProcessStarts
    PROVE  IInv'
<1> USE DEF follower
<1>0. MaxUps \in Nat /\ 1 \in Inode
  BY LogAssumption DEF Inode
<1>1. /\ UNCHANGED <<kind, pc, ups, count, from, fd, offset, pending, len, shown, begin, lost>>
      /\ kind = "process" /\ path' = 1 /\ out' = 1
      /\ data' = [data EXCEPT ![1] = <<>>]
      /\ cut' = (cut \/ Relies)
  BY DEF ProcessStarts
<1>2. Types'
  <2>1. data' \in [Inode -> Seq(Int)]
    BY <1>0, <1>1 DEF IInv, Types
  <2>2. path' \in 0..(ups' + 1)
    BY <1>0, <1>1 DEF IInv, Types
  <2> QED
    BY <1>1, <2>1, <2>2 DEF IInv, Types
<1>3. Known'
  <2>1. ASSUME NEW i \in Inode PROVE \A k \in 1..Len(data'[i]) : Id(data'[i][k]) <= count
    <3>1. CASE i = 1
      <4>1. data'[i] = <<>>
        BY <1>0, <1>1, <3>1 DEF IInv, Types
      <4> QED
        BY <4>1
    <3>2. CASE i # 1
      <4>1. data'[i] = data[i]
        BY <1>0, <1>1, <3>2 DEF IInv, Types
      <4> QED
        BY <4>1 DEF IInv, Known
    <3> QED
      BY <3>1, <3>2
  <2> QED
    BY <1>1, <2>1 DEF Known
<1>4. Places'
  BY <1>1 DEF IInv, Places
<1>5. ~cut' => pc' \notin Attached /\ pc' # "tailed" /\ pc' # "stat" /\ from' = 0
  BY <1>1 DEF IInv, Places, Relies, Attached
<1>6. Follows'
  <2>1. data'[path'] \in Seq(Int)
    BY <1>0, <1>1, <1>2 DEF Types
  <2> QED
    BY <1>5, <2>1 DEF Follows
<1>7. SkipsOlder'
  BY <1>1 DEF SkipsOlder
<1> QED
  BY <1>2, <1>3, <1>4, <1>5, <1>6, <1>7 DEF IInv, TailIsEnd, Gapless

LEMMA WritesStep ==
    ASSUME IInv, NEW newline \in BOOLEAN, Writes(newline)
    PROVE  IInv'
<1> USE DEF follower
<1> DEFINE b == IF newline THEN -(count + 1) ELSE count + 1
           s == data[path]
           t == Append(s, b)
<1>1. /\ UNCHANGED <<kind, pc, ups, out, path, from, fd, offset, pending, len, shown, begin,
                     cut>>
      /\ count' = count + 1 /\ path # 0 /\ out = path
      /\ data' = [data EXCEPT ![path] = t]
      /\ lost' = (lost \/ pc = "tailed")
  BY DEF Writes, IInv, Types
<1>2. path \in Inode /\ s \in Seq(Int) /\ data \in [Inode -> Seq(Int)] /\ count \in Nat
  BY <1>1, PathIsInode DEF IInv, Types
<1>3. b \in Int /\ Id(b) = count + 1
  BY <1>2 DEF Id
<1>s. s \in Seq(Int)
  BY <1>2
<1> HIDE DEF b, s
<1>4. /\ t \in Seq(Int)
      /\ Len(t) = Len(s) + 1
      /\ \A k \in 1..Len(s) : t[k] = s[k]
      /\ t[Len(s) + 1] = b
  BY <1>s, <1>3
<1> HIDE DEF t
<1>5. data'[path] = t /\ \A i \in Inode : i # path => data'[i] = data[i]
  BY <1>1, <1>2
<1>6. Types'
  <2>1. data' \in [Inode -> Seq(Int)]
    BY <1>1, <1>2, <1>4
  <2>2. lost' \in BOOLEAN
    BY <1>1 DEF IInv, Types
  <2> QED
    BY <1>1, <1>2, <2>1, <2>2 DEF IInv, Types
<1>7. Known'
  <2>1. ASSUME NEW i \in Inode, NEW k \in 1..Len(data'[i]) PROVE Id(data'[i][k]) <= count + 1
    <3>1. CASE i # path
      <4>1. data'[i] = data[i] /\ data[i] \in Seq(Int)
        BY <1>2, <1>5, <3>1
      <4>2. k \in 1..Len(data[i])
        BY <4>1
      <4>3. Id(data[i][k]) <= count /\ Id(data[i][k]) \in Int
        BY <4>1, <4>2 DEF IInv, Known, Id
      <4> QED
        BY <1>2, <4>1, <4>3
    <3>2. CASE i = path /\ k \in 1..Len(s)
      <4>1. data'[i][k] = s[k] /\ s[k] \in Int
        BY <1>s, <1>4, <1>5, <3>2
      <4>2. Id(s[k]) <= count /\ Id(s[k]) \in Int
        BY <1>2, <3>2, <4>1 DEF IInv, Known, Id, s
      <4> QED
        BY <1>2, <4>1, <4>2
    <3>3. CASE i = path /\ k = Len(s) + 1
      BY <1>2, <1>3, <1>4, <1>5, <3>3
    <3>4. i = path => k \in 1..Len(s) \/ k = Len(s) + 1
      BY <1>4, <1>5, <1>s
    <3> QED
      BY <3>1, <3>2, <3>3, <3>4
  <2> QED
    BY <1>1, <2>1 DEF Known
<1>8. Places'
  BY <1>1 DEF IInv, Places
<1>9. Follows'
  <2>1. Len(s) \in Nat /\ Len(s) <= Len(t) /\ data'[path'] = t
    BY <1>1, <1>s, <1>4, <1>5
  <2>2. \A x \in Int : x <= Len(s) => x <= Len(t)
    BY <1>s, <1>4
  <2>3. offset \in Int /\ from \in Int /\ len \in Int
    BY DEF IInv, Types
  <2> QED
    BY <1>1, <2>1, <2>2, <2>3 DEF IInv, Follows, s
<1>10. TailIsEnd'
  BY <1>1 DEF TailIsEnd
<1>11. ASSUME NEW n \in Nat, n <= Len(s), Older(s, n) PROVE \A i \in 1..n : Id(t[i]) < begin
  <2> TAKE i \in 1..n
  <2>1. i \in 1..Len(s)
    BY <1>s, <1>11
  <2>2. t[i] = s[i]
    BY <1>4, <2>1
  <2>3. Id(s[i]) < begin
    BY <1>11, Zenon DEF Older
  <2> QED
    BY <2>2, <2>3
<1>12. SkipsOlder'
  <2> SUFFICES ASSUME pc \in {"starting", "find"}, kind = "up", ~cut
               PROVE \A i \in 1..from : Id(t[i]) < begin
    BY <1>1, <1>5 DEF SkipsOlder, Older
  <2>1. Older(s, from) /\ from <= Len(s) /\ from \in Nat
    BY <1>1 DEF IInv, SkipsOlder, Follows, Types, s
  <2> QED
    BY <1>11, <2>1
<1>13. Gapless'
  <2> SUFFICES ASSUME pc \in Attached, ~cut, ~lost
               PROVE \E j \in 0..Len(t) :
                        /\ shown \o pending \o Suffix(t, offset) = Suffix(t, j)
                        /\ kind = "up" => \A i \in 1..j : Id(t[i]) < begin
    BY <1>1, <1>5 DEF Gapless, Suffix, Older
  <2>1. PICK j \in 0..Len(s) : /\ shown \o pending \o Suffix(s, offset) = Suffix(s, j)
                               /\ kind = "up" => Older(s, j)
    BY DEF IInv, Gapless, s
  <2>2. offset \in 0..Len(s)
    BY DEF IInv, Follows, Types, s
  <2>3. Suffix(t, offset) = Append(Suffix(s, offset), b)
    <3>1. SuffixGrows(s, b, offset)
      BY <1>s, <1>3, <2>2, SuffixOfAppend
    <3> QED
      BY <3>1, Zenon DEF SuffixGrows, t
  <2>4. Suffix(t, j) = Append(Suffix(s, j), b)
    <3>1. SuffixGrows(s, b, j)
      BY <1>s, <1>3, SuffixOfAppend
    <3> QED
      BY <3>1, Zenon DEF SuffixGrows, t
  <2>5. Append((shown \o pending) \o Suffix(s, offset), b)
          = (shown \o pending) \o Append(Suffix(s, offset), b)
    <3>1. shown \o pending \in Seq(Int)
      <4>1. shown \in Seq(Int)
        BY DEF IInv, Types
      <4>2. pending \in Seq(Int)
        BY DEF IInv, Types
      <4> QED
        BY <4>1, <4>2
    <3>2. Suffix(s, offset) \in Seq(Int)
      BY <1>s, <2>2, SuffixType
    <3>3. AppendsToLast(shown \o pending, Suffix(s, offset), b)
      BY <1>3, <3>1, <3>2, AppendToLast
    <3> QED
      BY <3>3, Zenon DEF AppendsToLast
  <2>6. (shown \o pending) \o Suffix(t, offset) = Suffix(t, j)
    BY <2>1, <2>3, <2>4, <2>5, Zenon
  <2>7. j \in 0..Len(t) /\ j \in Nat /\ j <= Len(s)
    BY <1>s, <1>4
  <2>8. kind = "up" => \A i \in 1..j : Id(t[i]) < begin
    BY <1>11, <2>1, <2>7
  <2> QED
    BY <2>6, <2>7, <2>8, Zenon
<1> QED
  BY <1>6, <1>7, <1>8, <1>9, <1>10, <1>12, <1>13 DEF IInv

-----------------------------------------------------------------------------
(* The view's steps *)

LEMMA TakeLenStep ==
    ASSUME IInv, TakeLen
    PROVE  IInv'
<1> USE DEF project, follower
<1>1. /\ UNCHANGED <<kind, ups, count, data, path, out, fd, offset, pending, len, shown, begin,
                     cut, lost>>
      /\ pc = "start" /\ pc' = "asked"
      /\ from' = IF path = 0 THEN 0 ELSE Len(data[path])
  BY DEF TakeLen
<1>2. path # 0 => Len(data[path]) \in Nat
  <2>1. path # 0 => data[path] \in Seq(Int)
    BY PathIsInode DEF IInv
  <2> QED
    BY <2>1
<1>3. Types'
  BY <1>1, <1>2 DEF IInv, Types, Opening
<1>4. Known' /\ Places'
  BY <1>1 DEF IInv, Known, Places, Opening, Attached
<1>5. Follows' /\ TailIsEnd' /\ SkipsOlder' /\ Gapless'
  BY <1>1, <1>2 DEF Follows, TailIsEnd, SkipsOlder, Gapless, Attached
<1> QED
  BY <1>3, <1>4, <1>5 DEF IInv

LEMMA OpenFromOffsetStep ==
    ASSUME IInv, OpenFromOffset
    PROVE  IInv'
<1> USE DEF project
<1> DEFINE s == data[path]
<1>1. /\ UNCHANGED <<kind, ups, count, data, path, out, pending, len, shown, begin, cut, lost>>
      /\ pc = "find" /\ pc' = "top" /\ kind = "up" /\ path # 0 /\ fd' = path /\ from' = 0
      /\ offset' = IF from < Len(s) THEN from ELSE Len(s)
  BY DEF OpenFromOffset
<1>2. path \in Inode /\ s \in Seq(Int)
  BY <1>1, PathIsInode DEF IInv
<1>3. offset' \in 0..Len(s) /\ offset' \in Nat /\ \A i \in 1..offset' : i \in 1..from
  <2>1. Len(s) \in Nat /\ from \in Nat
    BY <1>2 DEF IInv, Types
  <2> QED
    BY <1>1, <2>1
<1>4. Types'
  <2>1. fd' \in 0..(MaxUps + 1)
    BY <1>1, <1>2 DEF Inode
  <2>2. pc' \in Attached
    BY <1>1 DEF Attached
  <2> QED
    BY <1>1, <1>3, <2>1, <2>2 DEF IInv, Types
<1>5. Known' /\ Places'
  BY <1>1 DEF IInv, Known, Places, Opening, Attached
<1>6. Follows' /\ TailIsEnd' /\ SkipsOlder'
  <2>1. Len(s) \in Nat
    BY <1>2
  <2> QED
    BY <1>1, <1>3, <2>1 DEF Follows, TailIsEnd, SkipsOlder
<1>7. Gapless'
  <2>1. shown = <<>> /\ pending = <<>>
    BY <1>1 DEF IInv, Places, Opening
  <2>2. Suffix(s, offset') \in Seq(Int)
    BY <1>2, <1>3, SuffixType
  <2>3. <<>> \o <<>> \o Suffix(s, offset') = Suffix(s, offset')
    <3> DEFINE u == Suffix(s, offset')
    <3>1. u \in Seq(Int)
      BY <2>2
    <3> HIDE DEF u
    <3>2. <<>> \o <<>> \o u = u
      BY <3>1
    <3> QED
      BY <3>2, Zenon DEF u
  <2>4. ~cut => \A i \in 1..offset' : Id(s[i]) < begin
    BY <1>1, <1>3 DEF IInv, SkipsOlder, Older
  <2>5. ~cut' => \E j \in 0..Len(s) :
                   /\ shown \o pending \o Suffix(s, offset') = Suffix(s, j)
                   /\ \A i \in 1..j : Id(s[i]) < begin
    BY <1>1, <1>3, <2>1, <2>3, <2>4, Zenon
  <2> QED
    BY <1>1, <2>5 DEF Gapless, Suffix, Older
<1> QED
  BY <1>4, <1>5, <1>6, <1>7 DEF IInv

LEMMA ShowTailStep ==
    ASSUME IInv, ShowTail
    PROVE  IInv'
<1> USE DEF project
<1> DEFINE s == data[path]
<1>1. /\ UNCHANGED <<kind, ups, count, data, path, out, from, fd, offset, pending, len, begin,
                     cut, lost>>
      /\ pc = "find" /\ pc' = "tailed" /\ kind # "up" /\ path # 0
      /\ shown' = tail_lines(s, TailLines)
  BY DEF ShowTail
<1>2. s \in Seq(Int)
  BY <1>1, PathIsInode DEF IInv
<1> HIDE DEF s
<1>3. \E j \in 0..Len(s) : shown' = Suffix(s, j)
  <2>1. CASE TailLines = 0 \/ s = <<>>
    <3>1. Len(s) \in 0..Len(s) /\ Suffix(s, Len(s)) = <<>>
      BY <1>2 DEF Suffix
    <3>2. shown' = <<>>
      BY <1>1, <2>1, Zenon DEF tail_lines
    <3> QED
      BY <3>1, <3>2
  <2>2. CASE ~(TailLines = 0 \/ s = <<>>)
    <3> DEFINE T == IF IsNewline(Last(s)) THEN TailLines ELSE TailLines - 1
    <3>1. shown' = Suffix(s, TailFrom(s, T))
      BY <1>1, <2>2, Zenon DEF tail_lines, Suffix
    <3>2. TailFrom(s, T) \in 0..Len(s)
      BY <1>2, TailInLog
    <3> QED
      BY <3>1, <3>2
  <2> QED
    BY <2>1, <2>2
<1>4. Types'
  <2>1. shown' \in Seq(Int)
    BY <1>2, <1>3, SuffixType
  <2> QED
    BY <1>1, <2>1 DEF IInv, Types, Opening
<1>5. Known' /\ Places'
  BY <1>1 DEF IInv, Known, Places, Opening, Attached
<1>6. Follows' /\ SkipsOlder' /\ Gapless'
  BY <1>1 DEF IInv, Follows, SkipsOlder, Gapless, Attached
<1>7. TailIsEnd'
  BY <1>1, <1>3 DEF TailIsEnd, Suffix, s
<1> QED
  BY <1>4, <1>5, <1>6, <1>7 DEF IInv

LEMMA OpenAtEndStep ==
    ASSUME IInv, OpenAtEnd
    PROVE  IInv'
<1> USE DEF project
<1> DEFINE s == data[path]
<1>1. /\ UNCHANGED <<kind, ups, count, data, path, out, from, pending, len, shown, begin, cut,
                     lost>>
      /\ pc = "tailed" /\ pc' = "top" /\ fd' = path /\ offset' = Len(s)
  BY DEF OpenAtEnd
<1>2. kind # "up" /\ path # 0 /\ pending = <<>>
  BY <1>1 DEF IInv, Places, Opening
<1>3. path \in Inode /\ s \in Seq(Int)
  BY <1>2, PathIsInode DEF IInv
<1>4. Types'
  <2>1. fd' \in 0..(MaxUps + 1) /\ offset' \in Nat
    BY <1>1, <1>3 DEF Inode
  <2> QED
    BY <1>1, <2>1 DEF IInv, Types, Attached
<1>5. Known' /\ Places'
  BY <1>1, <1>2 DEF IInv, Known, Places, Opening, Attached
<1>6. Follows' /\ TailIsEnd' /\ SkipsOlder'
  <2>1. Len(s) \in Nat
    BY <1>3
  <2> QED
    BY <1>1, <2>1 DEF IInv, Follows, TailIsEnd, SkipsOlder
<1>7. Gapless'
  <2>1. Suffix(s, Len(s)) = <<>>
    BY <1>3 DEF Suffix
  <2>2. shown \o <<>> \o <<>> = shown
    <3>1. shown \in Seq(Int)
      BY DEF IInv, Types
    <3> QED
      BY <3>1
  <2>3. ~cut /\ ~lost => \E j \in 0..Len(s) : shown = Suffix(s, j)
    BY <1>1 DEF IInv, TailIsEnd
  <2>4. ~cut' /\ ~lost' => \E j \in 0..Len(s) :
                             shown \o pending \o Suffix(s, Len(s)) = Suffix(s, j)
    BY <1>1, <1>2, <2>1, <2>2, <2>3, Zenon
  <2> QED
    BY <1>1, <1>2, <2>4 DEF Gapless, Suffix
<1> QED
  BY <1>4, <1>5, <1>6, <1>7 DEF IInv

LEMMA PollStatStep ==
    ASSUME IInv, PollStat
    PROVE  IInv'
<1> USE DEF project
<1> DEFINE s == data[path]
           again == Len(s) < offset
<1>1. /\ UNCHANGED <<kind, ups, count, data, path, out, from, shown, begin>>
      /\ pc = "top" /\ pc' = "stat" /\ len' = Len(s)
      /\ \/ again /\ fd' = path /\ offset' = 0 /\ pending' = <<>>
         \/ ~again /\ UNCHANGED <<fd, offset, pending>>
      /\ cut' = (cut /\ ~again)
      /\ lost' = (lost \/ again \/ cut)
  BY DEF PollStat
<1>2. path # 0
  BY <1>1 DEF IInv, Places, Attached
<1>3. path \in Inode /\ s \in Seq(Int)
  BY <1>2, PathIsInode DEF IInv
<1>4. Len(s) \in Nat
  BY <1>3
<1>5. Types'
  <2>1. fd' \in 0..(MaxUps + 1) /\ offset' \in Nat
    BY <1>1, <1>3 DEF IInv, Types, Inode
  <2>2. pending' \in Seq(Int)
    <3>1. pending \in Seq(Int)
      BY DEF IInv, Types
    <3>2. <<>> \in Seq(Int)
      OBVIOUS
    <3>3. pending' = <<>> \/ pending' = pending
      BY <1>1
    <3> QED
      BY <3>1, <3>2, <3>3, Zenon
  <2>3. cut' \in BOOLEAN /\ lost' \in BOOLEAN
    BY <1>1 DEF IInv, Types
  <2> QED
    BY <1>1, <1>4, <2>1, <2>2, <2>3 DEF IInv, Types, Attached
<1>6. Known' /\ Places'
  BY <1>1, <1>2 DEF IInv, Known, Places, Opening, Attached
<1>7. Follows'
  <2>1. offset \in Nat /\ from = 0
    BY <1>1 DEF IInv, Places, Attached, Types
  <2>2. CASE cut /\ again
    BY <1>1, <1>4, <2>1, <2>2 DEF Follows, Attached
  <2>3. CASE ~cut
    <3>1. fd = path
      BY <1>1, <2>3 DEF IInv, Follows, Attached
    <3>2. fd' = path /\ offset' <= Len(s)
      <4> HIDE DEF s
      <4>1. again => fd' = path /\ offset' = 0
        BY <1>1
      <4>2. ~again => fd' = fd /\ offset' = offset /\ offset <= Len(s)
        BY <1>1, <1>4, <2>1
      <4> QED
        BY <1>4, <3>1, <4>1, <4>2
    <3> QED
      BY <1>1, <1>4, <2>1, <3>2 DEF Follows
  <2>4. CASE cut /\ ~again
    BY <1>1, <2>4 DEF Follows
  <2> QED
    BY <2>2, <2>3, <2>4
<1>8. TailIsEnd' /\ SkipsOlder'
  BY <1>1 DEF TailIsEnd, SkipsOlder
<1>9. Gapless'
  BY <1>1 DEF IInv, Gapless, Older, Suffix, Attached
<1> QED
  BY <1>5, <1>6, <1>7, <1>8, <1>9 DEF IInv

LEMMA PollReadStep ==
    ASSUME IInv, PollRead
    PROVE  IInv'
<1> USE DEF project
<1> DEFINE f == data[fd]
           s == data[path]
           text == pending \o SubSeq(f, offset + 1, len)
           n == Complete(text)
           t == SubSeq(text, 1, n)
           u == SubSeq(text, n + 1, Len(text))
<1>1. /\ UNCHANGED <<kind, ups, count, data, path, out, from, fd, begin, cut, lost>>
      /\ pc = "stat" /\ pc' = "top" /\ len' = 0
      /\ Len(f) >= len \/ len <= offset
      /\ \/ len > offset /\ offset' = len /\ shown' = shown \o t /\ pending' = u
         \/ ~(len > offset) /\ UNCHANGED <<offset, shown, pending>>
  BY DEF PollRead
<1>2. fd # 0 /\ path # 0
  BY <1>1 DEF IInv, Places, Attached
<1>3. f \in Seq(Int) /\ s \in Seq(Int)
  <2>1. fd \in Inode
    BY <1>2, LogAssumption DEF IInv, Types, Inode
  <2> QED
    BY <1>2, <2>1, PathIsInode DEF IInv, Types
<1>4. offset \in Nat /\ len \in Int
  BY DEF IInv, Types
<1>p. shown \in Seq(Int)
  BY DEF IInv, Types
<1>q. pending \in Seq(Int)
  BY DEF IInv, Types
<1>5. len > offset => text \in Seq(Int) /\ n \in 0..Len(text)
  <2> SUFFICES ASSUME len > offset PROVE text \in Seq(Int) /\ n \in 0..Len(text)
    OBVIOUS
  <2>1. SubSeq(f, offset + 1, len) \in Seq(Int)
    <3> HIDE DEF f
    <3>1. len <= Len(f)
      BY <1>1, <1>3, <1>4
    <3>2. f \in Seq(Int)
      BY <1>3
    <3> QED
      BY <1>4, <3>1, <3>2
  <2>2. text \in Seq(Int)
    <3> DEFINE m == SubSeq(f, offset + 1, len)
    <3> HIDE DEF m
    <3>1. m \in Seq(Int)
      BY <2>1 DEF m
    <3>2. pending \o m \in Seq(Int)
      BY <1>q, <3>1
    <3> QED
      BY <3>2, Zenon DEF m
  <2> HIDE DEF text
  <2> QED
    BY <2>2, CompleteInText
<1> HIDE DEF text, n
<1>6. len > offset => t \in Seq(Int) /\ u \in Seq(Int)
  <2> SUFFICES ASSUME len > offset PROVE t \in Seq(Int) /\ u \in Seq(Int)
    OBVIOUS
  <2>1. text \in Seq(Int)
    BY <1>5
  <2>2. n \in 0..Len(text)
    BY <1>5
  <2>3. t \in Seq(Int)
    BY <2>1, <2>2
  <2>4. u \in Seq(Int)
    BY <2>1, <2>2
  <2> QED
    BY <2>3, <2>4
<1> HIDE DEF t, u, f, s
<1>7. shown' \in Seq(Int) /\ pending' \in Seq(Int)
  <2>1. CASE len > offset
    <3>1. t \in Seq(Int)
      BY <1>6, <2>1
    <3>2. shown \o t \in Seq(Int)
      BY <1>p, <3>1
    <3> QED
      BY <1>1, <1>4, <1>6, <2>1, <3>2
  <2>2. CASE ~(len > offset)
    BY <1>1, <1>p, <1>q, <2>2
  <2> QED
    BY <2>1, <2>2
<1>8. Types'
  <2>1. offset' \in Nat
    BY <1>1, <1>4
  <2> QED
    BY <1>1, <1>7, <2>1 DEF IInv, Types, Attached
<1>9. Known' /\ Places'
  BY <1>1, <1>2 DEF IInv, Known, Places, Opening, Attached
<1>10. Follows' /\ TailIsEnd' /\ SkipsOlder'
  BY <1>1, <1>4 DEF IInv, Follows, TailIsEnd, SkipsOlder, Attached
<1>11. Gapless'
  <2> SUFFICES ASSUME ~cut, ~lost
               PROVE \E j \in 0..Len(s) :
                        /\ shown' \o pending' \o Suffix(s, offset') = Suffix(s, j)
                        /\ kind = "up" => Older(s, j)
    BY <1>1 DEF Gapless, Suffix, Older, s
  <2>1. PICK j \in 0..Len(s) : /\ shown \o pending \o Suffix(s, offset) = Suffix(s, j)
                               /\ kind = "up" => Older(s, j)
    BY <1>1 DEF IInv, Gapless, Attached, s
  <2>2. fd = path /\ len <= Len(s) /\ offset <= Len(s)
    BY <1>1 DEF IInv, Follows, Attached, s
  <2>3. CASE len > offset
    <3>1. text = pending \o SubSeq(s, offset + 1, len)
      BY <2>2, Zenon DEF text, f, s
    <3>2. offset \in 0..Len(s) /\ len \in offset..Len(s)
      BY <1>3, <1>4, <2>2, <2>3
    <3>3. n \in 0..Len(pending \o SubSeq(s, offset + 1, len))
      BY <1>5, <2>3, <3>1, Zenon
    <3>4. ReadsOn(shown, pending, s, offset, len, n)
      BY <1>3, <1>p, <1>q, <3>2, <3>3, ReadingOn
    <3>5. (shown \o t) \o u \o Suffix(s, len) = shown \o pending \o Suffix(s, offset)
      BY <3>1, <3>4, Zenon DEF ReadsOn, t, u
    <3>6. shown' = shown \o t /\ pending' = u /\ offset' = len
      BY <1>1, <2>3
    <3> QED
      BY <2>1, <3>5, <3>6, Zenon
  <2>4. CASE ~(len > offset)
    <3>1. UNCHANGED <<offset, shown, pending>>
      BY <1>1, <2>4
    <3> QED
      BY <2>1, <3>1, Zenon
  <2> QED
    BY <2>3, <2>4
<1> QED
  BY <1>8, <1>9, <1>10, <1>11 DEF IInv

LEMMA Stepping ==
    ASSUME IInv, [Next]_vars
    PROVE  IInv'
<1>1. CASE StartElsewhere \/ AskUp
  BY <1>1, StartsStep DEF StartElsewhere, AskUp
<1>2. CASE ProcessStarts \/ \E newline \in BOOLEAN : Writes(newline)
  BY <1>2, ProcessStartsStep, WritesStep
<1>3. CASE TakeLen \/ OpenFromOffset \/ ShowTail \/ OpenAtEnd \/ PollStat \/ PollRead
  BY <1>3, TakeLenStep, OpenFromOffsetStep, ShowTailStep, OpenAtEndStep, PollStatStep,
     PollReadStep
<1>4. CASE \/ Listed \/ Dies \/ Removed \/ UpRefused \/ NoFile \/ FileAppears
           \/ SeesDead \/ ReadFails \/ OnlyOtherLogs \/ Discover \/ Keys
           \/ UNCHANGED vars
  BY <1>4, QuietSteps, QuietKeeps
<1> QED
  BY <1>1, <1>2, <1>3, <1>4 DEF Next, Project, View

-----------------------------------------------------------------------------
(* Theorems *)

\* In every behaviour, until the log is cut, the follower has the project's log
\* open, and what it showed and keeps and what it will read are the end of that
\* log (LogFollower).
THEOREM Invariance == Spec => []IInv
<1> QED
  BY Starting, Stepping, PTL DEF Spec

\* Whatever a log holds and however long the blocks are, its tail is its last lines
\* (tail_lines).
THEOREM TailAlwaysLastLines == Spec => []TailIsLastLines
<1>1. IInv => TailIsLastLines
  <2> SUFFICES ASSUME IInv, NEW i \in Inode, NEW n \in 0..2
               PROVE  LET s == data[i]
                          starts == {j \in 0..Len(s) : (j = 0 \/ IsNewline(s[j]))
                                                       /\ LineCount(Suffix(s, j)) <= n}
                          best == {j \in starts : \A k \in starts : j <= k}
                      IN  IF n = 0 THEN tail_lines(s, n) = <<>>
                          ELSE \A j \in best : tail_lines(s, n) = Suffix(s, j)
    BY DEF TailIsLastLines
  <2> DEFINE s == data[i]
             starts == {j \in 0..Len(s) : (j = 0 \/ IsNewline(s[j]))
                                          /\ LineCount(Suffix(s, j)) <= n}
             best == {j \in starts : \A k \in starts : j <= k}
  <2>1. s \in Seq(Int)
    BY DEF IInv, Types
  <2> HIDE DEF s
  <2>2. n = 0 => tail_lines(s, n) = <<>>
    BY DEF tail_lines
  <2>3. ASSUME n # 0, NEW j \in best PROVE tail_lines(s, n) = Suffix(s, j)
    <3>1. j \in 0..Len(s) /\ (j = 0 \/ s[j] < 0) /\ LineCount(Suffix(s, j)) <= n
      BY DEF IsNewline
    <3>2. \A k \in 0..Len(s) :
             (k = 0 \/ s[k] < 0) /\ LineCount(Suffix(s, k)) <= n => j <= k
      BY DEF IsNewline
    <3>3. n \in Nat \ {0}
      BY <2>3
    <3> HIDE DEF best, starts
    <3> QED
      BY <2>1, <3>1, <3>2, <3>3, TailSound
  <2> QED
    BY <2>2, <2>3, Zenon DEF s
<1> QED
  BY <1>1, Invariance, PTL

\* However the project's writes, the renaming of its log and the polls interleave, a
\* view shows the bytes of the log without a gap and without a repetition until the
\* log is replaced (LogFollower).
THEOREM NeverSkips == Spec => []NothingSkipped
<1>1. IInv => NothingSkipped
  <2> SUFFICES ASSUME IInv, pc \in Attached, ~cut, ~lost
               PROVE \E j \in 0..Len(data[fd]) :
                        shown \o pending \o Suffix(data[fd], offset) = Suffix(data[fd], j)
    BY DEF NothingSkipped, Unread
  <2>1. fd = path
    BY DEF IInv, Follows
  <2> QED
    BY <2>1, Zenon DEF IInv, Gapless
<1> QED
  BY <1>1, Invariance, PTL

\* The view that neals up attaches misses nothing of the up it asked for, although it
\* took the log's length before it asked (cmd_up, open_from_offset).
THEOREM UpShowsAll == Spec => []UpShowsItsLines
<1>1. IInv => UpShowsItsLines
  <2> SUFFICES ASSUME IInv, pc \in Attached, kind = "up", ~cut, ~lost,
                      NEW b \in ToSet(data[fd]), Id(b) >= begin
               PROVE b \in ToSet(shown \o pending \o Unread)
    BY DEF UpShowsItsLines
  <2> DEFINE s == data[path]
  <2>1. fd = path /\ path # 0
    BY DEF IInv, Follows, Places
  <2>2. s \in Seq(Int)
    BY <2>1, PathIsInode DEF IInv
  <2>3. PICK j \in 0..Len(s) : /\ shown \o pending \o Suffix(s, offset) = Suffix(s, j)
                               /\ Older(s, j)
    BY DEF IInv, Gapless
  <2>4. PICK i \in 1..Len(s) : b = s[i]
    BY <2>1, <2>2 DEF ToSet
  <2> HIDE DEF s
  <2>5. ~(i <= j)
    <3> SUFFICES ASSUME i <= j PROVE FALSE
      OBVIOUS
    <3>1. i \in 1..j
      OBVIOUS
    <3>2. Id(b) < begin
      BY <2>3, <2>4, <3>1, Zenon DEF Older
    <3>3. begin \in Int
      BY DEF IInv, Types
    <3>4. Id(b) \in Int
      BY <2>2, <2>4 DEF Id
    <3> QED
      BY <3>2, <3>3, <3>4
  <2>6. /\ Suffix(s, j) \in Seq(Int)
        /\ Len(Suffix(s, j)) = Len(s) - j
        /\ \A k \in 1..(Len(s) - j) : Suffix(s, j)[k] = s[j + k]
    BY <2>2, SuffixType
  <2>7. i - j \in 1..(Len(s) - j) /\ j + (i - j) = i
    BY <2>2, <2>5
  <2>8. i - j \in DOMAIN Suffix(s, j) /\ Suffix(s, j)[i - j] = b
    BY <2>4, <2>6, <2>7
  <2>9. b \in ToSet(Suffix(s, j))
    BY <2>8 DEF ToSet
  <2> QED
    BY <2>1, <2>3, <2>9, Zenon DEF Unread, s
<1> QED
  BY <1>1, Invariance, PTL
=============================================================================
