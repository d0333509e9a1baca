--------------------------- MODULE HostsSyncProofs ---------------------------
(***************************************************************************)
(* Theorems about HostsSync.tla, for all entries, all lines of the user    *)
(* and every bound. The loops over a text are recursive functions: that    *)
(* they are defined, and what they keep, goes by induction over its lines. *)
(***************************************************************************)
EXTENDS HostsSync, NaturalsInduction, WellFoundedInduction, SequenceTheorems, TLAPS

Marker == {BEGIN_MARKER, END_MARKER}
Outside == Line \ Marker
Loops == [out : Seq(Outside), skipping : BOOLEAN]

-----------------------------------------------------------------------------
(* Induction, without an operator as parameter *)

\* A set of numbers that has 0 and successors has them all.
LEMMA Counting ==
    ASSUME NEW S, 0 \in S, \A n \in Nat : n \in S => n + 1 \in S
    PROVE  Nat \subseteq S
<1> SUFFICES ASSUME Nat \ S # {} PROVE FALSE
  OBVIOUS
<1>1. PICK x \in Nat \ S : \A y \in Nat \ S : ~ (<<y, x>> \in OpToRel(<, Nat))
  <2>1. Nat \ S \subseteq Nat
    OBVIOUS
  <2> QED
    BY <2>1, WFMin, NatLessThanWellFounded
<1>2. \A y \in Nat \ S : ~(y < x)
  BY <1>1 DEF OpToRel
<1>3. x # 0 /\ (x # 0 => x - 1 \in S)
  BY <1>2
<1> QED
  BY <1>3

\* The same up to a bound.
LEMMA CountingTo ==
    ASSUME NEW N \in Nat, NEW S,
           0 \in S, \A n \in 0..(N - 1) : n \in S => n + 1 \in S
    PROVE  \A n \in 0..N : n \in S
<1> DEFINE T == {n \in Nat : n <= N => n \in S}
<1>1. 0 \in T
  OBVIOUS
<1>2. \A n \in Nat : n \in T => n + 1 \in T
  OBVIOUS
<1>3. Nat \subseteq T
  <2> HIDE DEF T
  <2> QED
    BY <1>1, <1>2, Counting
<1> QED
  BY <1>3

\* What is appended to a concatenation is appended to its second part. (Named, for
\* the lemma to be found where it is cited.)
AppendsToLast(u, v, x) == Append(u \o v, x) = u \o Append(v, x)

LEMMA AppendToLast ==
    ASSUME NEW S, NEW u \in Seq(S), NEW v \in Seq(S), NEW x \in S
    PROVE  AppendsToLast(u, v, x)
BY DEF AppendsToLast

-----------------------------------------------------------------------------
(* strip_neals_block *)

\* The recursion of StripLoop has a solution, line by line.
LEMMA StripLoopDefined ==
    ASSUME NEW t \in Seq(Line)
    PROVE  StripLoop(t) =
             [n \in 0..Len(t) |->
                IF n = 0 THEN [out |-> <<>>, skipping |-> FALSE]
                ELSE strip_line(StripLoop(t)[n - 1], t[n])]
<1> DEFINE Is(f, k) ==
             f = [n \in 0..k |-> IF n = 0 THEN [out |-> <<>>, skipping |-> FALSE]
                                 ELSE strip_line(f[n - 1], t[n])]
           K == {k \in Nat : \E f : Is(f, k)}
<1>1. 0 \in K
  <2>1. Is([n \in 0..0 |-> [out |-> <<>>, skipping |-> FALSE]], 0)
    OBVIOUS
  <2> QED
    BY <2>1
<1>2. ASSUME NEW k \in Nat, k \in K PROVE k + 1 \in K
  <2>1. PICK f : Is(f, k)
    BY <1>2
  <2> DEFINE g == [n \in 0..(k + 1) |-> IF n = k + 1 THEN strip_line(f[k], t[k + 1])
                                         ELSE f[n]]
  <2>2. \A n \in 0..(k + 1) :
          g[n] = IF n = 0 THEN [out |-> <<>>, skipping |-> FALSE]
                 ELSE strip_line(g[n - 1], t[n])
    <3> TAKE n \in 0..(k + 1)
    <3>1. CASE n = k + 1
      BY <3>1
    <3>2. CASE n # k + 1
      <4>1. n \in 0..k /\ (n # 0 => n - 1 \in 0..k)
        BY <3>2
      <4>2. g[n] = f[n] /\ (n # 0 => g[n - 1] = f[n - 1])
        BY <4>1
      <4>3. f[n] = IF n = 0 THEN [out |-> <<>>, skipping |-> FALSE]
                   ELSE strip_line(f[n - 1], t[n])
        BY <2>1, <4>1
      <4> QED
        BY <4>2, <4>3
    <3> QED
      BY <3>1, <3>2
  <2>3. \E h : Is(h, k + 1)
    <3>1. Is(g, k + 1)
      BY <2>2
    <3> QED
      BY <3>1, Zenon
  <2>4. k + 1 \in Nat
    OBVIOUS
  <2> QED
    BY <2>3, <2>4, Zenon
<1>3. Len(t) \in K
  <2> HIDE DEF K
  <2> QED
    BY <1>1, <1>2, Counting
<1>4. PICK f : Is(f, Len(t))
  BY <1>3
<1> QED
  BY <1>4 DEF StripLoop

LEMMA StripLoopEach ==
    ASSUME NEW t \in Seq(Line)
    PROVE  /\ StripLoop(t)[0] = [out |-> <<>>, skipping |-> FALSE]
           /\ \A n \in 1..Len(t) : StripLoop(t)[n] = strip_line(StripLoop(t)[n - 1], t[n])
<1> DEFINE F == StripLoop(t)
<1>1. F = [n \in 0..Len(t) |-> IF n = 0 THEN [out |-> <<>>, skipping |-> FALSE]
                               ELSE strip_line(F[n - 1], t[n])]
  BY StripLoopDefined
<1> HIDE DEF F
<1>2. F[0] = [out |-> <<>>, skipping |-> FALSE]
  BY <1>1
<1>3. ASSUME NEW n \in 1..Len(t) PROVE F[n] = strip_line(F[n - 1], t[n])
  <2>1. n \in 0..Len(t) /\ n # 0
    OBVIOUS
  <2> QED
    BY <1>1, <2>1
<1> QED
  BY <1>2, <1>3 DEF F

\* One turn of the loop keeps no marker.
LEMMA StripLineType ==
    ASSUME NEW b \in Loops, NEW l \in Line
    PROVE  strip_line(b, l) \in Loops
<1>1. \A s \in BOOLEAN : [b EXCEPT !.skipping = s] \in Loops
  BY DEF Loops
<1>2. CASE l \in Marker
  BY <1>1, <1>2 DEF strip_line, Marker
<1>3. CASE l \notin Marker /\ b.skipping
  BY <1>3 DEF strip_line, Marker
<1>4. CASE l \notin Marker /\ ~b.skipping
  <2>1. strip_line(b, l) = Put(b, l)
    BY <1>4 DEF strip_line, Marker
  <2>2. Append(b.out, l) \in Seq(Outside)
    BY <1>4 DEF Loops, Outside
  <2> QED
    BY <2>1, <2>2 DEF Put, Loops
<1> QED
  BY <1>2, <1>3, <1>4

\* What is kept has no marker.
LEMMA StripLoopType ==
    ASSUME NEW t \in Seq(Line)
    PROVE  \A n \in 0..Len(t) : StripLoop(t)[n] \in Loops
<1> DEFINE S == {n \in 0..Len(t) : StripLoop(t)[n] \in Loops}
<1>1. 0 \in S
  <2>1. [out |-> <<>>, skipping |-> FALSE] \in Loops
    BY DEF Loops
  <2> QED
    BY <2>1, StripLoopEach
<1>2. ASSUME NEW n \in 0..(Len(t) - 1), n \in S PROVE n + 1 \in S
  <2> DEFINE b == StripLoop(t)[n]
             l == t[n + 1]
  <2>1. b \in Loops /\ l \in Line
    BY <1>2
  <2>2. StripLoop(t)[n + 1] = strip_line(b, l)
    BY StripLoopEach
  <2> HIDE DEF b, l
  <2>3. strip_line(b, l) \in Loops
    BY <2>1, StripLineType
  <2> QED
    BY <2>2, <2>3
<1> QED
  <2> HIDE DEF S
  <2>1. \A n \in 0..Len(t) : n \in S
    BY <1>1, <1>2, CountingTo
  <2> QED
    BY <2>1 DEF S

LEMMA StripType ==
    ASSUME NEW t \in Seq(Line)
    PROVE  strip_neals_block(t) \in Seq(Outside)
BY StripLoopType DEF strip_neals_block, Loops

\* One turn of the loop.
LEMMA StripLine ==
    ASSUME NEW o, NEW l
    PROVE  /\ \A s \in BOOLEAN :
                /\ l = BEGIN_MARKER => strip_line([out |-> o, skipping |-> s], l)
                                        = [out |-> o, skipping |-> TRUE]
                /\ l = END_MARKER => strip_line([out |-> o, skipping |-> s], l)
                                      = [out |-> o, skipping |-> FALSE]
           /\ l \notin Marker =>
                /\ strip_line([out |-> o, skipping |-> TRUE], l)
                     = [out |-> o, skipping |-> TRUE]
                /\ strip_line([out |-> o, skipping |-> FALSE], l)
                     = [out |-> Append(o, l), skipping |-> FALSE]
<1>1. ASSUME NEW s \in BOOLEAN, l = BEGIN_MARKER
      PROVE  strip_line([out |-> o, skipping |-> s], l) = [out |-> o, skipping |-> TRUE]
  BY <1>1 DEF strip_line
<1>2. ASSUME NEW s \in BOOLEAN, l = END_MARKER
      PROVE  strip_line([out |-> o, skipping |-> s], l) = [out |-> o, skipping |-> FALSE]
  BY <1>2 DEF strip_line, BEGIN_MARKER, END_MARKER
<1>3. ASSUME l \notin Marker
      PROVE  strip_line([out |-> o, skipping |-> TRUE], l) = [out |-> o, skipping |-> TRUE]
  BY <1>3 DEF strip_line, Marker
<1>4. ASSUME l \notin Marker
      PROVE  strip_line([out |-> o, skipping |-> FALSE], l)
               = [out |-> Append(o, l), skipping |-> FALSE]
  BY <1>4 DEF strip_line, Marker, Put
<1> QED
  BY <1>1, <1>2, <1>3, <1>4

(* A run of lines one line longer is the run with that line appended. *)
TakesNext(t, i, j) == SubSeq(t, i, j + 1) = Append(SubSeq(t, i, j), t[j + 1])

LEMMA SubSeqTakesNext ==
    ASSUME NEW t \in Seq(Line),
           NEW i \in 1..Len(t),
           NEW j \in Nat,
           i <= j + 1, j + 1 <= Len(t)
    PROVE  TakesNext(t, i, j)
<1>1. j + 1 \in i..Len(t)
  OBVIOUS
<1>2. SubSeq(t, i, j + 1) = SubSeq(t, i, (j + 1) - 1) \o <<t[j + 1]>>
  BY <1>1, SubSeqRecursiveSecond, Zenon
<1>3. (j + 1) - 1 = j
  OBVIOUS
<1>4. SubSeq(t, i, j + 1) = SubSeq(t, i, j) \o <<t[j + 1]>>
  BY <1>2, <1>3, Zenon
<1>5. SubSeq(t, i, j) \in Seq(Line)
  OBVIOUS
<1>6. t[j + 1] \in Line
  BY <1>1
<1>7. Append(SubSeq(t, i, j), t[j + 1]) = SubSeq(t, i, j) \o <<t[j + 1]>>
  BY <1>5, <1>6, AppendIsConcat, Zenon
<1> QED
  BY <1>4, <1>7, Zenon DEF TakesNext

\* Outside a block, lines without a marker are kept.
LEMMA StripKeepsPlain ==
    ASSUME NEW t \in Seq(Line), NEW m \in Nat, NEW n \in Nat, m <= n, n <= Len(t),
           NEW o \in Seq(Outside),
           StripLoop(t)[m] = [out |-> o, skipping |-> FALSE],
           \A i \in (m + 1)..n : t[i] \in Outside
    PROVE  StripLoop(t)[n] = [out |-> o \o SubSeq(t, m + 1, n), skipping |-> FALSE]
<1> DEFINE Keeps(k) == StripLoop(t)[m + k] =
               [out |-> o \o SubSeq(t, m + 1, m + k), skipping |-> FALSE]
           S == {k \in 0..(n - m) : Keeps(k)}
<1>1. 0 \in S
  <2>1. SubSeq(t, m + 1, m + 0) = <<>> /\ o \o <<>> = o
    OBVIOUS
  <2>2. m + 0 = m /\ 0 \in 0..(n - m)
    OBVIOUS
  <2>3. Keeps(0)
    BY <2>1, <2>2
  <2> QED
    BY <2>2, <2>3
<1>2. ASSUME NEW k \in 0..(n - m - 1), k \in S PROVE k + 1 \in S
  <2> DEFINE l == t[m + k + 1]
             u == SubSeq(t, m + 1, m + k)
  <2>1. StripLoop(t)[m + k + 1] = strip_line(StripLoop(t)[m + k], l)
    <3>1. m + k + 1 \in 1..Len(t) /\ m + k + 1 - 1 = m + k
      OBVIOUS
    <3> QED
      BY <3>1, StripLoopEach
  <2>2. StripLoop(t)[m + k] = [out |-> o \o u, skipping |-> FALSE]
    BY <1>2
  <2>3. l \in Outside
    OBVIOUS
  <2>4. u \in Seq(Line)
    OBVIOUS
  <2>10. o \in Seq(Line)
    BY DEF Outside
  <2>5. SubSeq(t, m + 1, m + k + 1) = Append(u, l)
    <3>1. /\ m + 1 \in 1..Len(t) /\ m + k \in Nat
          /\ m + 1 <= m + k + 1 /\ m + k + 1 <= Len(t)
      OBVIOUS
    <3>2. TakesNext(t, m + 1, m + k)
      BY <3>1, SubSeqTakesNext
    <3> QED
      BY <3>2, Zenon DEF TakesNext
  <2> HIDE DEF u, l
  <2>6. StripLoop(t)[m + k + 1] = [out |-> Append(o \o u, l), skipping |-> FALSE]
    <3>1. l \notin Marker
      BY <2>3 DEF Outside
    <3>2. strip_line([out |-> o \o u, skipping |-> FALSE], l)
            = [out |-> Append(o \o u, l), skipping |-> FALSE]
      BY <3>1, StripLine
    <3> QED
      BY <2>1, <2>2, <3>2
  <2>7. Append(o \o u, l) = o \o Append(u, l)
    <3>1. l \in Line
      BY <2>3 DEF Outside
    <3>2. AppendsToLast(o, u, l)
      BY <2>4, <2>10, <3>1, AppendToLast
    <3> QED
      BY <3>2 DEF AppendsToLast
  <2>8. m + (k + 1) = m + k + 1 /\ k + 1 \in 0..(n - m)
    OBVIOUS
  <2>9. StripLoop(t)[m + (k + 1)]
          = [out |-> o \o SubSeq(t, m + 1, m + (k + 1)), skipping |-> FALSE]
    BY <2>5, <2>6, <2>7, <2>8
  <2> QED
    BY <2>8, <2>9
<1>3. n - m \in Nat /\ m + (n - m) = n
  OBVIOUS
<1>4. \A k \in 0..(n - m) : k \in S
  <2> HIDE DEF S
  <2> QED
    BY <1>1, <1>2, <1>3, CountingTo
<1>5. Keeps(n - m)
  <2>1. n - m \in S
    <3> HIDE DEF S
    <3>1. n - m \in 0..(n - m)
      BY <1>3
    <3> QED
      BY <1>4, <3>1
  <2> QED
    BY <2>1
<1> QED
  BY <1>3, <1>5

\* A text without a marker stays as it is.
LEMMA StripPlain ==
    ASSUME NEW t \in Seq(Outside)
    PROVE  strip_neals_block(t) = t
<1>1. /\ t \in Seq(Line) /\ Len(t) \in Nat /\ \A i \in 1..Len(t) : t[i] \in Outside
      /\ <<>> \in Seq(Outside)
  BY DEF Outside
<1>2. StripLoop(t)[0] = [out |-> <<>>, skipping |-> FALSE]
  BY <1>1, StripLoopEach
<1>3. 0 \in Nat /\ 0 <= Len(t) /\ Len(t) <= Len(t) /\ \A i \in (0 + 1)..Len(t) : t[i] \in Outside
  BY <1>1
<1>4. StripLoop(t)[Len(t)] = [out |-> <<>> \o SubSeq(t, 0 + 1, Len(t)), skipping |-> FALSE]
  BY <1>1, <1>2, <1>3, StripKeepsPlain
<1>5. <<>> \o SubSeq(t, 0 + 1, Len(t)) = t
  BY <1>1
<1> QED
  BY <1>4, <1>5 DEF strip_neals_block

\* Of a text with one block, what is before and behind it is left.
LEMMA StripBlock ==
    ASSUME NEW A \in Seq(Outside), NEW C \in Seq(Outside), NEW e \in Entry
    PROVE  strip_neals_block((A \o <<BEGIN_MARKER, e, END_MARKER>>) \o C) = A \o C
<1> DEFINE t == (A \o <<BEGIN_MARKER, e, END_MARKER>>) \o C
           a == Len(A)
           c == Len(C)
<1>0. e \notin Marker
  BY LineAssumption DEF Marker
<1>1. /\ A \in Seq(Line) /\ C \in Seq(Line) /\ a \in Nat /\ c \in Nat
      /\ <<BEGIN_MARKER, e, END_MARKER>> \in Seq(Line)
  BY DEF Outside, Line
<1>2. t \in Seq(Line) /\ Len(t) = a + 3 + c
  BY <1>1
<1>3. /\ \A i \in 1..a : t[i] = A[i]
      /\ t[a + 1] = BEGIN_MARKER /\ t[a + 2] = e /\ t[a + 3] = END_MARKER
      /\ \A i \in (a + 4)..Len(t) : t[i] = C[i - (a + 3)]
  BY <1>1, <1>2
<1>4. /\ \A i \in (0 + 1)..a : t[i] \in Outside
      /\ \A i \in (a + 3 + 1)..Len(t) : t[i] \in Outside
  BY <1>1, <1>2, <1>3
<1>5. SubSeq(t, 0 + 1, a) = A /\ SubSeq(t, a + 3 + 1, Len(t)) = C
  BY <1>1, <1>2, <1>3
<1> DEFINE F == StripLoop(t)
<1> HIDE DEF t
<1>6. F[a] = [out |-> A, skipping |-> FALSE]
  <2>1. F[0] = [out |-> <<>>, skipping |-> FALSE]
    BY <1>2, StripLoopEach
  <2>2. t \in Seq(Line) /\ 0 \in Nat /\ a \in Nat /\ 0 <= a /\ a <= Len(t)
    BY <1>1, <1>2
  <2>5. <<>> \in Seq(Outside)
    OBVIOUS
  <2>6. \A i \in (0 + 1)..a : t[i] \in Outside
    BY <1>4
  <2>3. F[a] = [out |-> <<>> \o SubSeq(t, 0 + 1, a), skipping |-> FALSE]
    BY <2>1, <2>2, <2>5, <2>6, StripKeepsPlain, Zenon
  <2>4. <<>> \o A = A
    OBVIOUS
  <2> QED
    BY <1>5, <2>3, <2>4
<1>7. \A n \in 1..Len(t) : F[n] = strip_line(F[n - 1], t[n])
  BY <1>2, StripLoopEach
<1>8. F[a + 1] = [out |-> A, skipping |-> TRUE]
  <2>1. F[a + 1] = strip_line(F[a], BEGIN_MARKER)
    <3>1. a + 1 \in 1..Len(t) /\ a + 1 - 1 = a
      BY <1>1, <1>2
    <3>2. F[a + 1] = strip_line(F[a + 1 - 1], t[a + 1])
      BY <1>7, <3>1
    <3> QED
      BY <1>3, <3>1, <3>2
  <2> QED
    BY <1>6, <2>1, StripLine
<1>9. F[a + 2] = [out |-> A, skipping |-> TRUE]
  <2>1. F[a + 2] = strip_line(F[a + 1], e)
    <3>1. a + 2 \in 1..Len(t) /\ a + 2 - 1 = a + 1
      BY <1>1, <1>2
    <3>2. F[a + 2] = strip_line(F[a + 2 - 1], t[a + 2])
      BY <1>7, <3>1
    <3> QED
      BY <1>3, <3>1, <3>2
  <2> QED
    BY <1>0, <1>8, <2>1, StripLine
<1>10. F[a + 3] = [out |-> A, skipping |-> FALSE]
  <2>1. F[a + 3] = strip_line(F[a + 2], END_MARKER)
    <3>1. a + 3 \in 1..Len(t) /\ a + 3 - 1 = a + 2
      BY <1>1, <1>2
    <3>2. F[a + 3] = strip_line(F[a + 3 - 1], t[a + 3])
      BY <1>7, <3>1
    <3> QED
      BY <1>3, <3>1, <3>2
  <2> QED
    BY <1>0, <1>9, <2>1, StripLine
<1>11. F[Len(t)] = [out |-> A \o C, skipping |-> FALSE]
  <2>1. a + 3 \in Nat /\ Len(t) \in Nat /\ a + 3 <= Len(t) /\ Len(t) <= Len(t)
    BY <1>1, <1>2
  <2>2. F[Len(t)] = [out |-> A \o SubSeq(t, a + 3 + 1, Len(t)), skipping |-> FALSE]
    BY <1>2, <1>4, <1>10, <2>1, StripKeepsPlain
  <2> QED
    BY <1>5, <2>2
<1>12. strip_neals_block(t) = A \o C
  BY <1>11 DEF strip_neals_block
<1> QED
  BY <1>12 DEF t

-----------------------------------------------------------------------------
(* Only *)

LEMMA OnlyLoopDefined ==
    ASSUME NEW S, NEW t \in Seq(S), NEW L
    PROVE  OnlyLoop(t, L) =
             [n \in 0..Len(t) |->
                IF n = 0 THEN <<>>
                ELSE IF t[n] \in L THEN Append(OnlyLoop(t, L)[n - 1], t[n])
                ELSE OnlyLoop(t, L)[n - 1]]
<1> DEFINE Is(f, k) ==
             f = [n \in 0..k |-> IF n = 0 THEN <<>>
                                 ELSE IF t[n] \in L THEN Append(f[n - 1], t[n]) ELSE f[n - 1]]
           K == {k \in Nat : \E f : Is(f, k)}
<1>1. 0 \in K
  <2>1. Is([n \in 0..0 |-> <<>>], 0)
    OBVIOUS
  <2> QED
    BY <2>1
<1>2. ASSUME NEW k \in Nat, k \in K PROVE k + 1 \in K
  <2>1. PICK f : Is(f, k)
    BY <1>2
  <2> DEFINE last == IF t[k + 1] \in L THEN Append(f[k], t[k + 1]) ELSE f[k]
             g == [n \in 0..(k + 1) |-> IF n = k + 1 THEN last ELSE f[n]]
  <2>2. \A n \in 0..(k + 1) :
          g[n] = IF n = 0 THEN <<>>
                 ELSE IF t[n] \in L THEN Append(g[n - 1], t[n]) ELSE g[n - 1]
    <3> TAKE n \in 0..(k + 1)
    <3>1. CASE n = k + 1
      BY <3>1
    <3>2. CASE n # k + 1
      <4>1. n \in 0..k /\ (n # 0 => n - 1 \in 0..k)
        BY <3>2
      <4>2. g[n] = f[n] /\ (n # 0 => g[n - 1] = f[n - 1])
        BY <4>1
      <4>3. f[n] = IF n = 0 THEN <<>>
                   ELSE IF t[n] \in L THEN Append(f[n - 1], t[n]) ELSE f[n - 1]
        BY <2>1, <4>1
      <4> QED
        BY <4>2, <4>3
    <3> QED
      BY <3>1, <3>2
  <2>3. \E h : Is(h, k + 1)
    <3>1. Is(g, k + 1)
      BY <2>2
    <3> QED
      BY <3>1, Zenon
  <2>4. k + 1 \in Nat
    OBVIOUS
  <2> QED
    BY <2>3, <2>4, Zenon
<1>3. Len(t) \in K
  <2> HIDE DEF K
  <2> QED
    BY <1>1, <1>2, Counting
<1>4. \E f : Is(f, Len(t))
  BY <1>3, Zenon
<1> QED
  BY <1>4, Zenon DEF OnlyLoop

LEMMA OnlyLoopEach ==
    ASSUME NEW S, NEW t \in Seq(S), NEW L
    PROVE  /\ OnlyLoop(t, L)[0] = <<>>
           /\ \A n \in 0..(Len(t) - 1) :
                OnlyLoop(t, L)[n + 1] =
                  IF t[n + 1] \in L THEN Append(OnlyLoop(t, L)[n], t[n + 1])
                  ELSE OnlyLoop(t, L)[n]
<1> DEFINE F == OnlyLoop(t, L)
<1>1. F = [n \in 0..Len(t) |-> IF n = 0 THEN <<>>
                               ELSE IF t[n] \in L THEN Append(F[n - 1], t[n]) ELSE F[n - 1]]
  BY OnlyLoopDefined
<1> HIDE DEF F
<1>2. F[0] = <<>>
  BY <1>1
<1>3. ASSUME NEW n \in 0..(Len(t) - 1)
      PROVE  F[n + 1] = IF t[n + 1] \in L THEN Append(F[n], t[n + 1]) ELSE F[n]
  <2> DEFINE k == n + 1
  <2>1. k \in 0..Len(t) /\ k # 0 /\ k - 1 = n
    OBVIOUS
  <2> HIDE DEF k
  <2>2. F[k] = IF t[k] \in L THEN Append(F[k - 1], t[k]) ELSE F[k - 1]
    BY <1>1, <2>1
  <2> QED
    BY <2>1, <2>2 DEF k
<1> QED
  BY <1>2, <1>3 DEF F

LEMMA OnlyLoopType ==
    ASSUME NEW S, NEW t \in Seq(S), NEW L
    PROVE  \A n \in 0..Len(t) : OnlyLoop(t, L)[n] \in Seq(S \intersect L)
<1> DEFINE T == {n \in 0..Len(t) : OnlyLoop(t, L)[n] \in Seq(S \intersect L)}
<1>1. 0 \in T
  <2>1. <<>> \in Seq(S \intersect L) /\ 0 \in 0..Len(t)
    OBVIOUS
  <2>2. OnlyLoop(t, L)[0] = <<>>
    BY OnlyLoopEach, Zenon
  <2> QED
    BY <2>1, <2>2
<1>2. ASSUME NEW n \in 0..(Len(t) - 1), n \in T PROVE n + 1 \in T
  <2>1. t[n + 1] \in S /\ n + 1 \in 1..Len(t) /\ n + 1 - 1 = n
    OBVIOUS
  <2>2. OnlyLoop(t, L)[n + 1] = IF t[n + 1] \in L THEN Append(OnlyLoop(t, L)[n], t[n + 1])
                                ELSE OnlyLoop(t, L)[n]
    BY <2>1, OnlyLoopEach
  <2>3. OnlyLoop(t, L)[n + 1] \in Seq(S \intersect L)
    BY <1>2, <2>1, <2>2
  <2> QED
    BY <2>1, <2>3
<1> QED
  <2> HIDE DEF T
  <2>1. \A n \in 0..Len(t) : n \in T
    BY <1>1, <1>2, CountingTo
  <2> QED
    BY <2>1 DEF T

LEMMA OnlyType ==
    ASSUME NEW S, NEW t \in Seq(S), NEW L
    PROVE  Only(t, L) \in Seq(S \intersect L)
<1>1. Len(t) \in 0..Len(t)
  OBVIOUS
<1> QED
  BY <1>1, OnlyLoopType DEF Only

\* What is taken of a text and a line more.
LEMMA OnlyConcatEach ==
    ASSUME NEW S, NEW s \in Seq(S), NEW t \in Seq(S), NEW L
    PROVE  \A k \in 0..Len(t) :
             OnlyLoop(s \o t, L)[Len(s) + k] = Only(s, L) \o OnlyLoop(t, L)[k]
<1> DEFINE r == s \o t
           F == OnlyLoop(r, L)
           G == OnlyLoop(s, L)
           H == OnlyLoop(t, L)
           T == {n \in 0..Len(s) : F[n] = G[n]}
           U == {k \in 0..Len(t) : F[Len(s) + k] = Only(s, L) \o H[k]}
<1>1. /\ r \in Seq(S) /\ Len(r) = Len(s) + Len(t) /\ Len(s) \in Nat /\ Len(t) \in Nat
      /\ \A i \in 1..Len(s) : r[i] = s[i]
      /\ \A i \in 1..Len(t) : r[Len(s) + i] = t[i]
  OBVIOUS
<1> HIDE DEF r
<1>2. /\ F[0] = <<>> /\ G[0] = <<>> /\ H[0] = <<>>
      /\ \A n \in 0..(Len(r) - 1) :
           F[n + 1] = IF r[n + 1] \in L THEN Append(F[n], r[n + 1]) ELSE F[n]
      /\ \A n \in 0..(Len(s) - 1) :
           G[n + 1] = IF s[n + 1] \in L THEN Append(G[n], s[n + 1]) ELSE G[n]
      /\ \A n \in 0..(Len(t) - 1) :
           H[n + 1] = IF t[n + 1] \in L THEN Append(H[n], t[n + 1]) ELSE H[n]
  <2>1. /\ F[0] = <<>>
        /\ \A n \in 0..(Len(r) - 1) :
             F[n + 1] = IF r[n + 1] \in L THEN Append(F[n], r[n + 1]) ELSE F[n]
    <3>1. r \in Seq(S)
      BY <1>1
    <3> QED
      BY <3>1, OnlyLoopEach
  <2>2. /\ G[0] = <<>>
        /\ \A n \in 0..(Len(s) - 1) :
             G[n + 1] = IF s[n + 1] \in L THEN Append(G[n], s[n + 1]) ELSE G[n]
    BY OnlyLoopEach
  <2>3. /\ H[0] = <<>>
        /\ \A n \in 0..(Len(t) - 1) :
             H[n + 1] = IF t[n + 1] \in L THEN Append(H[n], t[n + 1]) ELSE H[n]
    BY OnlyLoopEach
  <2> HIDE DEF F, G, H
  <2> QED
    BY <2>1, <2>2, <2>3
<1>3. \A k \in 0..Len(t) : H[k] \in Seq(S)
  <2>1. \A k \in 0..Len(t) : H[k] \in Seq(S \intersect L)
    BY OnlyLoopType
  <2> QED
    BY <2>1
<1>4. Only(s, L) \in Seq(S)
  <2>1. Only(s, L) \in Seq(S \intersect L)
    BY OnlyType
  <2> QED
    BY <2>1
<1> HIDE DEF F, G, H
<1>5. F[Len(s)] = Only(s, L)
  <2>1. 0 \in T
    BY <1>1, <1>2
  <2>2. ASSUME NEW n \in 0..(Len(s) - 1), n \in T PROVE n + 1 \in T
    <3>1. n + 1 \in 1..Len(s) /\ n \in 0..(Len(r) - 1) /\ n + 1 \in 0..Len(s)
      BY <1>1
    <3>2. F[n] = G[n] /\ r[n + 1] = s[n + 1]
      BY <1>1, <2>2, <3>1
    <3>3. F[n + 1] = G[n + 1]
      BY <1>2, <3>1, <3>2
    <3> QED
      BY <3>1, <3>3
  <2>3. \A n \in 0..Len(s) : n \in T
    <3> HIDE DEF T
    <3> QED
      BY <1>1, <2>1, <2>2, CountingTo
  <2>4. Len(s) \in T
    BY <1>1, <2>3
  <2> QED
    BY <2>4 DEF G, Only
<1>6. 0 \in U
  <2>1. Only(s, L) \o <<>> = Only(s, L) /\ Len(s) + 0 = Len(s) /\ 0 \in 0..Len(t)
    BY <1>1, <1>4
  <2> QED
    BY <1>2, <1>5, <2>1
<1>7. ASSUME NEW k \in 0..(Len(t) - 1), k \in U PROVE k + 1 \in U
  <2>1. /\ Len(s) + k \in 0..(Len(r) - 1) /\ k + 1 \in 1..Len(t) /\ k + 1 \in 0..Len(t)
        /\ Len(s) + (k + 1) = Len(s) + k + 1 /\ k \in 0..Len(t)
    BY <1>1
  <2>2. r[Len(s) + k + 1] = t[k + 1] /\ t[k + 1] \in S
    BY <1>1, <2>1
  <2>3. F[Len(s) + k] = Only(s, L) \o H[k]
    BY <1>7
  <2>4. Append(Only(s, L) \o H[k], t[k + 1]) = Only(s, L) \o Append(H[k], t[k + 1])
    <3>1. Only(s, L) \in Seq(S)
      BY <1>4
    <3>2. H[k] \in Seq(S)
      BY <1>3, <2>1
    <3>3. t[k + 1] \in S
      BY <2>2
    <3>4. AppendsToLast(Only(s, L), H[k], t[k + 1])
      BY <3>1, <3>2, <3>3, AppendToLast
    <3> QED
      BY <3>4 DEF AppendsToLast
  <2>5. F[Len(s) + k + 1] = IF t[k + 1] \in L THEN Append(F[Len(s) + k], t[k + 1])
                            ELSE F[Len(s) + k]
    BY <1>2, <2>1, <2>2
  <2>6. H[k + 1] = IF t[k + 1] \in L THEN Append(H[k], t[k + 1]) ELSE H[k]
    BY <1>2, <2>1
  <2>7. F[Len(s) + k + 1] = Only(s, L) \o H[k + 1]
    BY <2>3, <2>4, <2>5, <2>6
  <2> QED
    BY <2>1, <2>7
<1>8. \A k \in 0..Len(t) : k \in U
  <2> HIDE DEF U
  <2> QED
    BY <1>1, <1>6, <1>7, CountingTo
<1> QED
  BY <1>8 DEF F, H, r

OnlySplits(s, t, L) == Only(s \o t, L) = Only(s, L) \o Only(t, L)

LEMMA OnlyConcat ==
    ASSUME NEW S, NEW s \in Seq(S), NEW t \in Seq(S), NEW L
    PROVE  OnlySplits(s, t, L)
<1>1. Len(t) \in 0..Len(t) /\ Len(s \o t) = Len(s) + Len(t)
  OBVIOUS
<1>2. OnlyLoop(s \o t, L)[Len(s) + Len(t)] = Only(s, L) \o OnlyLoop(t, L)[Len(t)]
  BY <1>1, OnlyConcatEach
<1> QED
  BY <1>1, <1>2 DEF Only, OnlySplits

\* Of a text whose lines are all in the set, everything is taken,
LEMMA OnlyAll ==
    ASSUME NEW L, NEW t \in Seq(L)
    PROVE  Only(t, L) = t
<1> DEFINE F == OnlyLoop(t, L)
           T == {n \in 0..Len(t) : F[n] = SubSeq(t, 1, n)}
<1>1. /\ F[0] = <<>>
      /\ \A n \in 0..(Len(t) - 1) :
           F[n + 1] = IF t[n + 1] \in L THEN Append(F[n], t[n + 1]) ELSE F[n]
  BY OnlyLoopEach
<1> HIDE DEF F
<1>2. 0 \in T
  <2>1. SubSeq(t, 1, 0) = <<>> /\ 0 \in 0..Len(t)
    OBVIOUS
  <2> QED
    BY <1>1, <2>1
<1>3. ASSUME NEW n \in 0..(Len(t) - 1), n \in T PROVE n + 1 \in T
  <2>1. n + 1 \in 1..Len(t) /\ n + 1 - 1 = n /\ n + 1 \in 0..Len(t) /\ t[n + 1] \in L
    OBVIOUS
  <2>2. F[n + 1] = Append(SubSeq(t, 1, n), t[n + 1])
    <3>1. F[n] = SubSeq(t, 1, n)
      BY <1>3
    <3>2. F[n + 1] = IF t[n + 1] \in L THEN Append(F[n], t[n + 1]) ELSE F[n]
      BY <1>1, <2>1
    <3> QED
      BY <2>1, <3>1, <3>2
  <2>3. Append(SubSeq(t, 1, n), t[n + 1]) = SubSeq(t, 1, n + 1)
    OBVIOUS
  <2> QED
    BY <2>1, <2>2, <2>3
<1>4. \A n \in 0..Len(t) : n \in T
  <2> HIDE DEF T
  <2> QED
    BY <1>2, <1>3, CountingTo
<1>5. Len(t) \in T /\ SubSeq(t, 1, Len(t)) = t
  BY <1>4
<1> QED
  BY <1>5 DEF F, Only

\* and of one that has none of them, nothing.
LEMMA OnlyNone ==
    ASSUME NEW S, NEW t \in Seq(S), NEW L, S \intersect L = {}
    PROVE  Only(t, L) = <<>>
<1>1. Only(t, L) \in Seq({})
  BY OnlyType
<1> QED
  BY <1>1

-----------------------------------------------------------------------------
(* TrimEnd *)

Trimmed(t) == t = <<>> \/ t[Len(t)] # Blank

\* There is a last line that is used, or none.
LEMMA UsedExists ==
    ASSUME NEW S, NEW t \in Seq(S)
    PROVE  \E n \in 0..Len(t) : Used(t, n)
<1> SUFFICES ASSUME \A n \in 0..Len(t) : ~Used(t, n) PROVE FALSE
  OBVIOUS
<1> DEFINE BlankAfter(n) == \A i \in (n + 1)..Len(t) : t[i] = Blank
           T == {j \in 0..Len(t) : BlankAfter(Len(t) - j)}
<1>1. 0 \in T
  OBVIOUS
<1>2. ASSUME NEW j \in 0..(Len(t) - 1), j \in T PROVE j + 1 \in T
  <2> DEFINE n == Len(t) - j
  <2>1. n \in 1..Len(t) /\ BlankAfter(n) /\ Len(t) - (j + 1) = n - 1
    BY <1>2
  <2>2. t[n] = Blank
    <3> HIDE DEF n
    <3>1. n \in 0..Len(t) /\ n # 0 /\ \A i \in (n + 1)..Len(t) : t[i] = Blank
      <4>1. \A i \in (n + 1)..Len(t) : t[i] = Blank
        BY <2>1
      <4>2. n \in 1..Len(t)
        BY <2>1
      <4>3. n \in 0..Len(t) /\ n # 0
        BY <4>2
      <4> QED
        BY <4>1, <4>3
    <3>2. ~Used(t, n)
      BY <3>1
    <3> QED
      BY <3>1, <3>2 DEF Used
  <2>3. BlankAfter(n - 1)
    BY <2>1, <2>2
  <2>4. j + 1 \in 0..Len(t)
    OBVIOUS
  <2> QED
    BY <2>1, <2>3, <2>4
<1>3. \A j \in 0..Len(t) : j \in T
  <2>1. Len(t) \in Nat
    OBVIOUS
  <2> HIDE DEF T
  <2> QED
    BY <1>1, <1>2, <2>1, CountingTo
<1>4. BlankAfter(0)
  <2>1. Len(t) \in T /\ Len(t) - Len(t) = 0
    BY <1>3
  <2> QED
    BY <2>1
<1>5. Used(t, 0) /\ 0 \in 0..Len(t)
  BY <1>4 DEF Used
<1> QED
  BY <1>5

\* A text that is trimmed, with blank lines behind it, is trimmed to itself.
LEMMA TrimEndOf ==
    ASSUME NEW S, NEW t \in Seq(S), NEW n \in 0..Len(t), Used(t, n)
    PROVE  TrimEnd(t) = SubSeq(t, 1, n)
<1>1. ASSUME NEW m \in 0..Len(t), Used(t, m) PROVE m = n
  BY <1>1 DEF Used
<1> DEFINE k == CHOOSE m \in 0..Len(t) : Used(t, m)
<1>2. k \in 0..Len(t) /\ Used(t, k)
  OBVIOUS
<1> HIDE DEF k
<1>3. k = n
  BY <1>1, <1>2
<1> QED
  BY <1>3 DEF TrimEnd, k

LEMMA TrimEndSplits ==
    ASSUME NEW S, NEW t \in Seq(S)
    PROVE  /\ TrimEnd(t) \in Seq(S) /\ Trimmed(TrimEnd(t))
           /\ \E r \in Seq({Blank}) : t = TrimEnd(t) \o r
<1>1. PICK n \in 0..Len(t) : Used(t, n)
  BY UsedExists
<1> DEFINE u == SubSeq(t, 1, n)
           r == SubSeq(t, n + 1, Len(t))
<1>2. TrimEnd(t) = u
  BY <1>1, TrimEndOf
<1>3. u \in Seq(S) /\ Len(u) = n /\ (n # 0 => u[n] = t[n])
  OBVIOUS
<1>4. Trimmed(u)
  <2>1. CASE n = 0
    BY <1>3, <2>1 DEF Trimmed
  <2>2. CASE n # 0
    BY <1>1, <1>3, <2>2 DEF Trimmed, Used
  <2> QED
    BY <2>1, <2>2
<1>5. r \in Seq({Blank})
  <2>1. \A i \in (n + 1)..Len(t) : t[i] \in {Blank}
    BY <1>1 DEF Used
  <2>2. n + 1 \in Int /\ Len(t) \in Int
    OBVIOUS
  <2> QED
    BY <2>1, <2>2, SubSeqProperties
<1>6. t = u \o r
  <2>1. 1 \in 1..(Len(t) + 1) /\ n \in (1 - 1)..Len(t) /\ Len(t) \in n..Len(t)
    OBVIOUS
  <2>2. SubSeq(t, 1, n) \o SubSeq(t, n + 1, Len(t)) = SubSeq(t, 1, Len(t))
    BY <2>1, ConcatAdjacentSubSeq
  <2> QED
    BY <2>2, SubSeqFull
<1> HIDE DEF u, r
<1> QED
  BY <1>2, <1>3, <1>4, <1>5, <1>6

LEMMA TrimEndKeeps ==
    ASSUME NEW S, Blank \in S, NEW t \in Seq(S), Trimmed(t), NEW r \in Seq({Blank})
    PROVE  TrimEnd(t \o r) = t
<1> DEFINE u == t \o r
<1>1. r \in Seq(S)
  OBVIOUS
<1>2. /\ u \in Seq(S) /\ Len(u) = Len(t) + Len(r) /\ Len(t) \in Nat /\ Len(r) \in Nat
      /\ \A i \in 1..Len(t) : u[i] = t[i]
      /\ \A i \in (Len(t) + 1)..Len(u) : u[i] = Blank
  BY <1>1
<1>3. SubSeq(u, 1, Len(t)) = t
  BY <1>1
<1> HIDE DEF u
<1>4. Len(t) \in 0..Len(u)
  BY <1>2
<1>5. Len(t) = 0 \/ u[Len(t)] # Blank
  BY <1>2 DEF Trimmed
<1>6. Used(u, Len(t))
  BY <1>2, <1>5 DEF Used
<1>7. TrimEnd(u) = SubSeq(u, 1, Len(t))
  BY <1>2, <1>4, <1>6, TrimEndOf
<1> QED
  BY <1>3, <1>7 DEF u

LEMMA TrimEndTrimmed ==
    ASSUME NEW S, Blank \in S, NEW t \in Seq(S), Trimmed(t)
    PROVE  TrimEnd(t) = t /\ TrimEnd(t \o <<Blank>>) = t
<1>1. <<>> \in Seq({Blank}) /\ <<Blank>> \in Seq({Blank}) /\ t \o <<>> = t
  OBVIOUS
<1>2. TrimEnd(t \o <<>>) = t
  BY <1>1, TrimEndKeeps
<1>3. TrimEnd(t \o <<Blank>>) = t
  BY <1>1, TrimEndKeeps
<1> QED
  BY <1>1, <1>2, <1>3

-----------------------------------------------------------------------------
(* merge_hosts_file *)

Block(e) == <<BEGIN_MARKER, e, END_MARKER>>

LEMMA RenderingsAre ==
    /\ Renderings = {<<>>} \union {Block(e) : e \in Entry}
    /\ Renderings \subseteq Seq(Entry \union Marker)
<1>1. ASSUME NEW e PROVE render_host_block(<<e>>) = Block(e)
  <2> DEFINE S == {BEGIN_MARKER, e, END_MARKER}
             r == render_host_block(<<e>>)
  <2>1. r \in Seq(S) /\ Len(r) = 3
    BY DEF render_host_block
  <2>2. r[1] = BEGIN_MARKER /\ r[2] = e /\ r[3] = END_MARKER
    BY DEF render_host_block
  <2>3. Block(e) \in Seq(S) /\ Len(Block(e)) = 3
    BY DEF Block
  <2>4. \A i \in 1..3 : r[i] = Block(e)[i]
    BY <2>2 DEF Block
  <2> HIDE DEF r, S
  <2>5. r = Block(e)
    BY <2>1, <2>3, <2>4, SeqEqual
  <2> QED
    BY <2>5 DEF r
<1>2. Renderings = {<<>>} \union {Block(e) : e \in Entry}
  BY <1>1 DEF Renderings
<1>3. ASSUME NEW e \in Entry PROVE Block(e) \in Seq(Entry \union Marker)
  <2>1. {BEGIN_MARKER, e, END_MARKER} \subseteq Entry \union Marker
    BY DEF Marker
  <2> QED
    BY <2>1 DEF Block
<1>4. <<>> \in Seq(Entry \union Marker)
  OBVIOUS
<1>5. ASSUME NEW b \in Renderings PROVE b \in Seq(Entry \union Marker)
  BY <1>2, <1>3, <1>4
<1> QED
  BY <1>2, <1>5

LEMMA Lines ==
    /\ \A e \in Entry : e \in Outside /\ e \notin Marker /\ e # Blank
    /\ Blank \in Outside /\ Blank \notin Marker /\ Marker \subseteq Line
    /\ Outside \subseteq Line /\ Outside \intersect Marker = {}
    /\ Entry \subseteq Line
<1>1. ASSUME NEW e \in Entry PROVE e \in Outside /\ e \notin Marker /\ e # Blank
  BY LineAssumption DEF Outside, Marker, Line
<1>2. Blank \notin Marker
  BY DEF Marker, Blank, BEGIN_MARKER, END_MARKER
<1>3. Blank \in Outside /\ Marker \subseteq Line /\ Entry \subseteq Line
  BY <1>2 DEF Outside, Line, Marker
<1>4. Outside \subseteq Line /\ Outside \intersect Marker = {}
  BY DEF Outside
<1> QED
  BY <1>1, <1>2, <1>3, <1>4

LEMMA RenderingLines ==
    ASSUME NEW b \in Renderings
    PROVE  b \in Seq(Line)
<1>1. b \in Seq(Entry \union Marker)
  BY RenderingsAre
<1>2. Entry \union Marker \subseteq Line
  BY Lines
<1> QED
  BY <1>1, <1>2

\* What a merge writes: the text outside the block, trimmed, and the new block.
Behind(b) == IF b = <<>> THEN <<>> ELSE <<Blank>> \o b

LEMMA MergeIs ==
    ASSUME NEW h, NEW b \in Renderings
    PROVE  merge_hosts_file(h, b) = TrimEnd(strip_neals_block(h)) \o Behind(b)
<1>1. CASE b = <<>>
  <2>1. ~Contains(b, BEGIN_MARKER)
    BY <1>1 DEF Contains
  <2> QED
    BY <1>1, <2>1 DEF merge_hosts_file, Behind
<1>2. CASE b # <<>>
  <2>1. PICK e \in Entry : b = Block(e)
    BY <1>2, RenderingsAre
  <2>2. b \in Seq(Line) /\ Len(b) = 3 /\ b[1] = BEGIN_MARKER /\ b[3] = END_MARKER
    BY <2>1, Lines DEF Block, Marker
  <2>3. Contains(b, BEGIN_MARKER)
    BY <2>2 DEF Contains
  <2>4. Trimmed(b)
    BY <2>2 DEF Trimmed, END_MARKER, Blank
  <2>5. Blank \in Line
    BY Lines
  <2>6. TrimEnd(b) = b
    BY <2>2, <2>4, <2>5, TrimEndTrimmed
  <2> QED
    BY <1>2, <2>3, <2>6 DEF merge_hosts_file, Behind
<1> QED
  BY <1>1, <1>2

\* What the next merge finds outside the block.
LEMMA StripOfMerge ==
    ASSUME NEW D \in Seq(Outside), NEW b \in Renderings
    PROVE  strip_neals_block(D \o Behind(b)) = IF b = <<>> THEN D ELSE D \o <<Blank>>
<1>1. CASE b = <<>>
  <2>1. D \o <<>> = D
    OBVIOUS
  <2> QED
    BY <1>1, <2>1, StripPlain DEF Behind
<1>2. CASE b # <<>>
  <2>1. PICK e \in Entry : b = Block(e)
    BY <1>2, RenderingsAre
  <2> DEFINE A == D \o <<Blank>>
  <2>2. <<Blank>> \in Seq(Outside)
    BY Lines
  <2>3. A \in Seq(Outside)
    BY <2>2
  <2>4. <<>> \in Seq(Outside)
    OBVIOUS
  <2> HIDE DEF A
  <2>5. strip_neals_block((A \o Block(e)) \o <<>>) = A \o <<>>
    BY <2>3, <2>4, StripBlock DEF Block
  <2>6. A \o <<>> = A
    BY <2>3
  <2>7. (A \o Block(e)) \o <<>> = D \o (<<Blank>> \o Block(e))
    <3>1. D \in Seq(Line)
      BY Lines
    <3>2. Block(e) \in Seq(Line)
      BY Lines DEF Block, Marker
    <3>3. <<Blank>> \in Seq(Line)
      BY Lines
    <3>4. (D \o <<Blank>>) \o Block(e) = D \o (<<Blank>> \o Block(e))
      BY <3>1, <3>2, <3>3, ConcatAssociative
    <3>5. A \o Block(e) \in Seq(Line)
      <4>1. A \in Seq(Line)
        BY <2>3, Lines
      <4> QED
        BY <3>2, <4>1
    <3>6. (A \o Block(e)) \o <<>> = A \o Block(e)
      BY <3>5, ConcatEmptySeq
    <3> QED
      BY <3>4, <3>6 DEF A
  <2> QED
    BY <1>2, <2>1, <2>5, <2>6, <2>7 DEF Behind, A
<1> QED
  BY <1>1, <1>2

\* MergeIsSound, of any text.
LEMMA MergeSound ==
    ASSUME NEW h \in Seq(Line), NEW b \in Renderings
    PROVE  LET m == merge_hosts_file(h, b) IN
           /\ m \in Seq(Line)
           /\ Markers(m) = Markers(b)
           /\ hosts_file_equivalent(strip_neals_block(m), strip_neals_block(h))
           /\ merge_hosts_file(m, b) = m
<1> DEFINE D == TrimEnd(strip_neals_block(h))
           m == merge_hosts_file(h, b)
<1>1. strip_neals_block(h) \in Seq(Outside)
  BY StripType
<1>2. D \in Seq(Outside) /\ Trimmed(D)
  BY <1>1, TrimEndSplits
<1>3. m = D \o Behind(b)
  BY MergeIs
<1>4. TrimEnd(strip_neals_block(m)) = D
  <2>1. strip_neals_block(m) = IF b = <<>> THEN D ELSE D \o <<Blank>>
    BY <1>2, <1>3, StripOfMerge
  <2>2. TrimEnd(D) = D /\ TrimEnd(D \o <<Blank>>) = D
    <3> HIDE DEF D
    <3> QED
      BY <1>2, Lines, TrimEndTrimmed
  <2> QED
    BY <2>1, <2>2
<1>5. merge_hosts_file(m, b) = D \o Behind(b)
  BY <1>4, MergeIs
<1>6. D \in Seq(Line)
  <2> HIDE DEF D
  <2> QED
    BY <1>2, Lines
<1>7. b \in Seq(Line)
  BY RenderingLines
<1>8. Behind(b) \in Seq(Line)
  BY <1>7, Lines DEF Behind
<1>9. m \in Seq(Line)
  <2> HIDE DEF D, m
  <2> QED
    BY <1>3, <1>6, <1>8
<1>10. Markers(m) = Markers(b)
  <2> HIDE DEF D, m
  <2>1. Only(m, Marker) = Only(D, Marker) \o Only(Behind(b), Marker)
    <3>1. OnlySplits(D, Behind(b), Marker)
      BY <1>3, <1>6, <1>8, OnlyConcat
    <3> QED
      BY <3>1, <1>3 DEF OnlySplits
  <2>2. Only(D, Marker) = <<>>
    BY <1>2, Lines, OnlyNone
  <2>3. Only(b, Marker) \in Seq(Line)
    <3>1. Only(b, Marker) \in Seq(Line \intersect Marker)
      BY <1>7, OnlyType
    <3> QED
      BY <3>1
  <2>4. Only(Behind(b), Marker) = Only(b, Marker)
    <3>1. CASE b = <<>>
      BY <3>1 DEF Behind
    <3>2. CASE b # <<>>
      <4>1. <<Blank>> \in Seq({Blank}) /\ {Blank} \intersect Marker = {}
        BY Lines
      <4>2. <<Blank>> \in Seq(Line)
        <5>1. Blank \in Line
          BY Lines
        <5> QED
          BY <5>1
      <4>3. Only(<<Blank>> \o b, Marker) = Only(<<Blank>>, Marker) \o Only(b, Marker)
        <5>1. OnlySplits(<<Blank>>, b, Marker)
          BY <1>7, <4>2, OnlyConcat
        <5> QED
          BY <5>1 DEF OnlySplits
      <4>4. Only(<<Blank>>, Marker) = <<>>
        BY <4>1, OnlyNone
      <4> QED
        BY <2>3, <3>2, <4>3, <4>4 DEF Behind
    <3> QED
      BY <3>1, <3>2
  <2>5. <<>> \o Only(b, Marker) = Only(b, Marker)
    BY <2>3
  <2> QED
    BY <2>1, <2>2, <2>4, <2>5 DEF Markers, Marker
<1> HIDE DEF D
<1>11. m \in Seq(Line) /\ Markers(m) = Markers(b) /\ merge_hosts_file(m, b) = m
  BY <1>3, <1>5, <1>9, <1>10
<1>12. hosts_file_equivalent(strip_neals_block(m), strip_neals_block(h))
  BY <1>4 DEF hosts_file_equivalent, D
<1> QED
  BY <1>11, <1>12

-----------------------------------------------------------------------------
(* A file that has at most one whole block, and the lines of the user. *)

Yours == UserLine \union {"localhost"}
Plain == Yours \union {Blank}

Holds(text, lines) ==
    \E A, C \in Seq(Plain), b \in Renderings :
        text = (A \o b) \o C /\ Only(A \o C, Yours) = lines

LEMMA PlainLines ==
    /\ Plain \subseteq Outside /\ Plain \subseteq Line
    /\ Plain \intersect (Entry \union Marker) = {}
    /\ Blank \in Plain /\ {Blank} \intersect Yours = {} /\ Yours \subseteq Plain
<1>1. \A l \in UserLine : l \notin Marker /\ l \notin Entry /\ l # Blank
  BY LineAssumption DEF Marker
<1>2. "localhost" \notin Marker /\ "localhost" \notin Entry /\ "localhost" # Blank
  BY LineAssumption DEF Marker, BEGIN_MARKER, END_MARKER, Blank
<1>3. Blank \notin Marker /\ Blank \notin Entry
  BY Lines
<1>4. Plain \subseteq Line
  BY DEF Plain, Yours, Line
<1> QED
  BY <1>1, <1>2, <1>3, <1>4 DEF Plain, Yours, Outside

\* What a block of the system is stripped to.
LEMMA HoldsStrip ==
    ASSUME NEW A \in Seq(Plain), NEW C \in Seq(Plain), NEW b \in Renderings
    PROVE  strip_neals_block((A \o b) \o C) = A \o C
<1>1. A \in Seq(Outside)
  BY PlainLines
<1>2. C \in Seq(Outside)
  BY PlainLines
<1>3. CASE b = <<>>
  <2>1. A \o <<>> = A
    OBVIOUS
  <2>2. A \o C \in Seq(Outside)
    BY <1>1, <1>2
  <2> QED
    BY <1>3, <2>1, <2>2, StripPlain
<1>4. CASE b # <<>>
  <2>1. PICK e \in Entry : b = Block(e)
    BY <1>4, RenderingsAre
  <2> QED
    BY <1>1, <1>2, <2>1, StripBlock DEF Block
<1> QED
  BY <1>3, <1>4

\* The two halves of what the runs check of the file.
LEMMA HoldsShows ==
    ASSUME NEW h, NEW u, Holds(h, u)
    PROVE  /\ UserLines(strip_neals_block(h)) = u
           /\ Only(h, Entry \union Marker) \in Renderings
           /\ h \in Seq(Line) /\ u \in Seq(Yours)
<1> DEFINE W == Entry \union Marker
<1>1. PICK A \in Seq(Plain), C \in Seq(Plain), b \in Renderings :
        h = (A \o b) \o C /\ Only(A \o C, Yours) = u
  BY DEF Holds
<1>2. A \in Seq(Line)
  BY <1>1, PlainLines
<1>3. C \in Seq(Line)
  BY <1>1, PlainLines
<1>4. b \in Seq(W)
  BY <1>1, RenderingsAre
<1>5. b \in Seq(Line)
  BY <1>4, Lines
<1>6. A \o b \in Seq(Line)
  BY <1>2, <1>5
<1>7. (A \o b) \o C \in Seq(Line)
  BY <1>3, <1>6
<1>8. UserLines(strip_neals_block(h)) = u
  <2>1. strip_neals_block(h) = A \o C
    BY <1>1, HoldsStrip
  <2> QED
    BY <1>1, <2>1 DEF UserLines, Yours
<1>9. Only(h, W) = b
  <2> HIDE DEF W
  <2>1. Only((A \o b) \o C, W) = Only(A \o b, W) \o Only(C, W)
    <3>1. OnlySplits(A \o b, C, W)
      BY <1>3, <1>6, OnlyConcat
    <3> QED
      BY <3>1 DEF OnlySplits
  <2>2. Only(A \o b, W) = Only(A, W) \o Only(b, W)
    <3>1. OnlySplits(A, b, W)
      BY <1>2, <1>5, OnlyConcat
    <3> QED
      BY <3>1 DEF OnlySplits
  <2>3. Plain \intersect W = {}
    BY PlainLines DEF W
  <2>4. Only(A, W) = <<>> /\ Only(C, W) = <<>>
    BY <1>1, <2>3, OnlyNone
  <2>5. Only(b, W) = b
    BY <1>4, OnlyAll
  <2>6. <<>> \o b = b /\ b \o <<>> = b
    BY <1>4, ConcatEmptySeq
  <2> QED
    BY <1>1, <2>1, <2>2, <2>4, <2>5, <2>6
<1>10. u \in Seq(Yours)
  <2>1. A \o C \in Seq(Plain)
    BY <1>1
  <2>2. Only(A \o C, Yours) \in Seq(Plain \intersect Yours)
    BY <2>1, OnlyType
  <2>3. Plain \intersect Yours = Yours
    BY PlainLines
  <2> QED
    BY <1>1, <2>2, <2>3
<1> QED
  BY <1>1, <1>7, <1>8, <1>9, <1>10

\* A merge keeps it,
LEMMA HoldsMerge ==
    ASSUME NEW h, NEW u, Holds(h, u), NEW b \in Renderings
    PROVE  Holds(merge_hosts_file(h, b), u)
<1>1. PICK A \in Seq(Plain), C \in Seq(Plain), old \in Renderings :
        h = (A \o old) \o C /\ Only(A \o C, Yours) = u
  BY DEF Holds
<1> DEFINE t == A \o C
           D == TrimEnd(t)
           E == IF b = <<>> THEN D ELSE D \o <<Blank>>
<1>2. strip_neals_block(h) = t
  BY <1>1, HoldsStrip
<1>3. t \in Seq(Plain)
  BY <1>1
<1>4. merge_hosts_file(h, b) = D \o Behind(b)
  BY <1>2, MergeIs
<1>5. Only(t, Yours) = u
  BY <1>1
<1> HIDE DEF t
<1>6. PICK r \in Seq({Blank}) : t = D \o r
  BY <1>3, TrimEndSplits
<1>7. D \in Seq(Plain)
  BY <1>3, TrimEndSplits
<1> HIDE DEF D
<1>8. r \in Seq(Plain)
  BY <1>6, PlainLines
<1>9. Only(D, Yours) \in Seq(Plain)
  <2>1. Only(D, Yours) \in Seq(Plain \intersect Yours)
    BY <1>7, OnlyType
  <2> QED
    BY <2>1
<1>10. \A z \in Seq({Blank}) : Only(z, Yours) = <<>>
  BY PlainLines, OnlyNone
<1>11. Only(D, Yours) = u
  <2>1. OnlySplits(D, r, Yours)
    BY <1>7, <1>8, OnlyConcat
  <2>2. Only(r, Yours) = <<>>
    BY <1>6, <1>10
  <2>3. Only(D, Yours) \o <<>> = Only(D, Yours)
    BY <1>9, ConcatEmptySeq
  <2> QED
    BY <1>5, <1>6, <2>1, <2>2, <2>3 DEF OnlySplits
<1>12. <<Blank>> \in Seq(Plain)
  BY PlainLines
<1>13. Only(D \o <<Blank>>, Yours) = u
  <2>1. OnlySplits(D, <<Blank>>, Yours)
    BY <1>7, <1>12, OnlyConcat
  <2>2. Only(<<Blank>>, Yours) = <<>>
    <3>1. <<Blank>> \in Seq({Blank})
      OBVIOUS
    <3> QED
      BY <1>10, <3>1
  <2>3. Only(D, Yours) \o <<>> = Only(D, Yours)
    BY <1>9, ConcatEmptySeq
  <2> QED
    BY <1>11, <2>1, <2>2, <2>3 DEF OnlySplits
<1>14. E \in Seq(Plain) /\ Only(E, Yours) = u
  BY <1>7, <1>11, <1>12, <1>13
<1>15. D \o Behind(b) = (E \o b) \o <<>>
  <2>1. D \in Seq(Line)
    BY <1>7, PlainLines
  <2>2. b \in Seq(Line)
    BY RenderingLines
  <2>3. <<Blank>> \in Seq(Line)
    BY <1>12, PlainLines
  <2>4. (D \o <<Blank>>) \o b = D \o (<<Blank>> \o b)
    BY <2>1, <2>2, <2>3, ConcatAssociative
  <2>5. E \o b \in Seq(Line)
    BY <2>1, <2>2, <2>3
  <2>6. (E \o b) \o <<>> = E \o b
    <3> HIDE DEF E
    <3> QED
      BY <2>5, ConcatEmptySeq
  <2> QED
    BY <2>4, <2>6 DEF Behind
<1>16. E \o <<>> = E
  <2> HIDE DEF E
  <2>1. E \in Seq(Plain)
    BY <1>14
  <2> QED
    BY <2>1, ConcatEmptySeq
<1>17. <<>> \in Seq(Plain)
  OBVIOUS
<1> HIDE DEF E
<1>18. merge_hosts_file(h, b) = (E \o b) \o <<>> /\ Only(E \o <<>>, Yours) = u
  BY <1>4, <1>14, <1>15, <1>16
<1> QED
  BY <1>14, <1>17, <1>18 DEF Holds

\* and so does a line that the user adds.
LEMMA HoldsAppend ==
    ASSUME NEW h, NEW u, Holds(h, u), NEW l \in UserLine
    PROVE  Holds(Append(h, l), Append(u, l))
<1>1. PICK A \in Seq(Plain), C \in Seq(Plain), b \in Renderings :
        h = (A \o b) \o C /\ Only(A \o C, Yours) = u
  BY DEF Holds
<1> DEFINE B == A \o b
           t == A \o C
           D == Append(C, l)
<1>2. A \in Seq(Line)
  BY <1>1, PlainLines
<1>3. C \in Seq(Line)
  BY <1>1, PlainLines
<1>4. b \in Seq(Line)
  BY RenderingLines
<1>5. B \in Seq(Line)
  BY <1>2, <1>4
<1>6. l \in Plain /\ l \in Yours /\ l \in Line
  BY DEF Plain, Yours, Line
<1>7. D \in Seq(Plain)
  BY <1>1, <1>6
<1>8. Append(h, l) = B \o D
  <2>1. AppendsToLast(B, C, l)
    <3> HIDE DEF B
    <3> QED
      BY <1>3, <1>5, <1>6, AppendToLast
  <2> QED
    BY <1>1, <2>1 DEF AppendsToLast
<1>9. Append(t, l) = A \o D
  <2>1. AppendsToLast(A, C, l)
    BY <1>1, <1>6, AppendToLast
  <2> QED
    BY <2>1 DEF AppendsToLast
<1>10. t \in Seq(Plain)
  BY <1>1
<1>11. u \in Seq(Yours)
  BY HoldsShows
<1>12. Only(t, Yours) = u
  BY <1>1
<1> HIDE DEF t
<1>13. Only(Append(t, l), Yours) = Append(u, l)
  <2>1. <<l>> \in Seq(Plain)
    BY <1>6
  <2>2. OnlySplits(t, <<l>>, Yours)
    BY <1>10, <2>1, OnlyConcat
  <2>3. <<l>> \in Seq(Yours)
    BY <1>6
  <2>4. Only(<<l>>, Yours) = <<l>>
    BY <2>3, OnlyAll
  <2>5. Append(t, l) = t \o <<l>>
    BY <1>6, <1>10, AppendIsConcat
  <2>6. Append(u, l) = u \o <<l>>
    BY <1>6, <1>11, AppendIsConcat
  <2> QED
    BY <1>12, <2>2, <2>4, <2>5, <2>6 DEF OnlySplits
<1> HIDE DEF D
<1>14. Append(h, l) = (A \o b) \o D /\ Only(A \o D, Yours) = Append(u, l)
  BY <1>8, <1>9, <1>13
<1> QED
  BY <1>1, <1>7, <1>14 DEF Holds

-----------------------------------------------------------------------------
(* The inductive invariant *)

Stages == {"idle", "block", "read", "opened"}
Applying == [pc : Stages, block : Renderings, merged : Seq(Line)]

Types ==
    /\ mode \in Modes /\ pc \in {"idle", "fragment", "mirror", "apply", "applying"}
    /\ hosts \in Seq(Line)
    /\ fragment \in Renderings /\ block \in Renderings
    /\ mirror \in Renderings \union {NoFile}
    /\ applier \in [Appliers -> Applying]
    /\ pc = "applying" <=> Busy("nealsd")
    /\ due \in BOOLEAN /\ spoilt \in BOOLEAN /\ disturbed \in BOOLEAN

\* The file, when nobody writes it.
Intact == ~spoilt /\ ~Writing => Holds(hosts, user)

\* The file, while somebody does.
EmptyMeanwhile == ~spoilt /\ Writing => hosts = <<>>

\* What a writer is about to write, unless another one writes, whose end it will
\* notice.
MergedIntact ==
    ~spoilt => \A a \in Appliers :
        /\ applier[a].pc \in {"read", "opened"}
        /\ \A b \in Appliers \ {a} : applier[b].pc # "opened"
        => Holds(applier[a].merged, user)

IInv == Types /\ Intact /\ EmptyMeanwhile /\ MergedIntact

LEMMA Showing ==
    ASSUME IInv
    PROVE  TypeOK /\ MergeIsSound /\ UserLinesKept /\ BlockIsWhole
<1>1. TypeOK
  <2>1. \A s \in Seq(Line) : ToSet(s) \subseteq Line
    BY DEF ToSet
  <2>2. fragment \in Seq(Line) /\ block \in Seq(Line)
    BY RenderingLines DEF IInv, Types
  <2>3. \A a \in Appliers : applier[a].merged \in Seq(Line) /\ applier[a].pc \in Stages
    BY DEF IInv, Types, Applying
  <2>4. \A s \in Texts : ToSet(s) \subseteq Line
    BY <2>1, <2>2, <2>3 DEF Texts, IInv, Types
  <2> QED
    BY <2>3, <2>4 DEF TypeOK, IInv, Types, Stages
<1>2. MergeIsSound
  <2>1. hosts \in Seq(Line)
    BY DEF IInv, Types
  <2> QED
    BY <2>1, MergeSound DEF MergeIsSound
<1>3. UserLinesKept
  BY HoldsShows DEF IInv, Intact, UserLinesKept
<1>4. BlockIsWhole
  BY HoldsShows DEF IInv, Intact, BlockIsWhole, Marker
<1> QED
  BY <1>1, <1>2, <1>3, <1>4

LEMMA IdleApplying == Idle \in Applying
BY RenderingsAre DEF Idle, Applying, Stages

LEMMA Starting == Init => IInv
<1> SUFFICES ASSUME Init PROVE IInv
  OBVIOUS
<1> DEFINE line == <<"localhost">>
<1>1. PICK left \in Renderings :
        hosts = merge_hosts_file(line, left) /\ fragment = left /\ disturbed = (left # <<>>)
  BY DEF Init
<1>2. line \in Seq(Yours)
  BY DEF Yours
<1>3. "localhost" \in Plain
  BY DEF Plain, Yours
<1>4. line \in Seq(Plain)
  BY <1>3
<1>5. Holds(line, line)
  <2>1. <<>> \in Renderings /\ <<>> \in Seq(Plain)
    BY RenderingsAre
  <2>2. line = (line \o <<>>) \o <<>> /\ line \o <<>> = line
    OBVIOUS
  <2>3. Only(line, Yours) = line
    <3> HIDE DEF line
    <3> QED
      BY <1>2, OnlyAll
  <2> HIDE DEF line
  <2>4. line = (line \o <<>>) \o <<>> /\ Only(line \o <<>>, Yours) = line
    BY <2>2, <2>3
  <2> QED
    BY <1>4, <2>1, <2>4 DEF Holds
<1>6. Holds(hosts, user)
  <2>1. user = line
    BY DEF Init
  <2> HIDE DEF line
  <2> QED
    BY <1>1, <1>5, <2>1, HoldsMerge
<1>7. hosts \in Seq(Line)
  BY <1>6, HoldsShows
<1>8. Idle \in Applying
  BY IdleApplying
<1>9. \A a \in Appliers : applier[a] = Idle
  BY DEF Init
<1>10. Types
  <2>1. block \in Renderings /\ fragment \in Renderings
    BY <1>1, RenderingsAre DEF Init
  <2>2. applier \in [Appliers -> Applying]
    BY <1>8 DEF Init
  <2>3. ~Busy("nealsd")
    BY <1>9 DEF Busy, Idle, Appliers
  <2> QED
    BY <1>1, <1>7, <2>1, <2>2, <2>3 DEF Init, Types
<1>11. \A a \in Appliers : applier[a].pc = "idle"
  BY <1>9 DEF Idle
<1>12. ~Writing
  BY <1>11 DEF Writing
<1> QED
  BY <1>6, <1>10, <1>11, <1>12 DEF IInv, Intact, EmptyMeanwhile, MergedIntact

\* Whoever is in the middle of a merge stays where he is, and nobody else comes there.
Midway(a) == applier[a].pc \in {"read", "opened"}
SameMidway == \A a \in Appliers : Midway(a) \/ Midway(a)' => applier'[a] = applier[a]

LEMMA Unmoved ==
    ASSUME IInv, hosts' = hosts, user' = user, spoilt' = spoilt, SameMidway
    PROVE  Intact' /\ EmptyMeanwhile' /\ MergedIntact'
<1>1. \A a \in Appliers : applier'[a].pc = "opened" <=> applier[a].pc = "opened"
  BY DEF SameMidway, Midway
<1>2. Writing' <=> Writing
  BY <1>1 DEF Writing
<1>3. Intact' /\ EmptyMeanwhile'
  BY <1>2 DEF IInv, Intact, EmptyMeanwhile
<1>4. \A a \in Appliers : applier'[a].pc \in {"read", "opened"} => applier'[a] = applier[a]
  BY DEF SameMidway, Midway
<1>5. MergedIntact'
  BY <1>1, <1>4 DEF IInv, MergedIntact
<1> QED
  BY <1>3, <1>5

LEMMA MergeLines ==
    ASSUME NEW h \in Seq(Line), NEW b \in Renderings
    PROVE  merge_hosts_file(h, b) \in Seq(Line)
BY MergeSound

LEMMA BlockRead ==
    ASSUME NEW r \in Applying, NEW b \in Renderings
    PROVE  LET next == [r EXCEPT !.pc = "block", !.block = b] IN
           next \in Applying /\ next.pc = "block"
BY DEF Applying, Stages

LEMMA TypesNealsd ==
    ASSUME IInv, NealsdStep \/ NealsdRestarts \/ ServiceStarts \/ SudoApply
    PROVE  IInv'
<1> USE DEF IInv, Types
<1>0. <<>> \in Renderings
  BY RenderingsAre
<1>1. CASE Sync \/ WriteFragment
  <2>1. Types'
    BY <1>0, <1>1 DEF Sync, WriteFragment, Busy
  <2>2. UNCHANGED <<hosts, user, spoilt, applier>>
    BY <1>1 DEF Sync, WriteFragment
  <2> QED
    BY <2>1, <2>2, Unmoved DEF SameMidway
<1>2. CASE Mirror
  <2>1. UNCHANGED <<hosts, user, spoilt, applier>>
    BY <1>2 DEF Mirror
  <2>2. due' \in BOOLEAN /\ disturbed' \in BOOLEAN
    BY <1>2 DEF Mirror
  <2>3. Types'
    BY <1>2, <2>1, <2>2 DEF Mirror, Busy
  <2> QED
    BY <2>1, <2>3, Unmoved DEF SameMidway
<1>3. CASE NealsdRestarts
  <2>1. UNCHANGED <<hosts, user, spoilt, applier>>
    BY <1>3 DEF NealsdRestarts
  <2>2. Types'
    BY <1>0, <1>3 DEF NealsdRestarts, Busy
  <2> QED
    BY <2>1, <2>2, Unmoved DEF SameMidway
<1>4. CASE Apply
  <2> DEFINE next == [Idle EXCEPT !.pc = "block", !.block = block]
  <2>1. UNCHANGED <<hosts, user, spoilt>>
    BY <1>4 DEF Apply
  <2>3. next \in Applying /\ next.pc = "block"
    BY BlockRead, IdleApplying
  <2> HIDE DEF next
  <2>4. CASE mode = "direct"
    <3>1. applier' = [applier EXCEPT !["nealsd"] = next] /\ pc' = "applying"
      BY <1>4, <2>4 DEF Apply, next
    <3>2. applier' \in [Appliers -> Applying] /\ applier'["nealsd"].pc = "block"
      <4>1. applier \in [Appliers -> Applying]
        OBVIOUS
      <4>2. "nealsd" \in Appliers
        BY DEF Appliers
      <4>3. applier'["nealsd"] = next
        BY <3>1, <4>1, <4>2
      <4>4. applier' \in [Appliers -> Applying]
        BY <2>3, <3>1, <4>1, <4>2
      <4> QED
        BY <2>3, <4>3, <4>4
    <3>3. Types'
      BY <1>4, <2>4, <3>1, <3>2 DEF Apply, Busy
    <3>4. SameMidway
      BY <1>4, <2>3, <3>1 DEF SameMidway, Midway, Appliers, Apply
    <3> QED
      BY <2>1, <3>3, <3>4, Unmoved
  <2>5. CASE mode # "direct"
    <3>1. UNCHANGED applier
      BY <1>4, <2>5 DEF Apply
    <3>2. Types'
      BY <1>4, <2>5, <3>1 DEF Apply, Busy
    <3> QED
      BY <2>1, <3>1, <3>2, Unmoved DEF SameMidway
  <2> QED
    BY <2>4, <2>5
<1>5. ASSUME NEW a \in {"unit", "sudo"}, NEW text \in Renderings \union {NoFile},
             ReadBlock(a, text), UNCHANGED <<mode, hosts, published, user, spoilt>>,
             due' \in BOOLEAN, disturbed' \in BOOLEAN
      PROVE  IInv'
  <2> DEFINE read == IF text = NoFile THEN <<>> ELSE text
             next == [Idle EXCEPT !.pc = "block", !.block = read]
  <2>1. read \in Renderings
    BY <1>0
  <2>2. next \in Applying /\ next.pc = "block"
    <3> HIDE DEF read
    <3> QED
      BY <2>1, BlockRead, IdleApplying
  <2>3. applier' = [applier EXCEPT ![a] = next] /\ ~Busy(a)
    BY <1>5 DEF ReadBlock
  <2> HIDE DEF next
  <2>4. /\ applier' \in [Appliers -> Applying] /\ applier'[a] = next
        /\ \A c \in Appliers : c # a => applier'[c] = applier[c]
    BY <2>2, <2>3 DEF Appliers
  <2>5. Types'
    BY <1>5, <2>4 DEF Busy, Appliers, published
  <2>6. SameMidway
    BY <2>2, <2>3, <2>4 DEF SameMidway, Midway, Busy
  <2> QED
    BY <1>5, <2>5, <2>6, Unmoved
<1>6. CASE ServiceStarts
  <2>1. /\ ReadBlock("unit", mirror) /\ UNCHANGED <<mode, hosts, published, user, spoilt>>
        /\ due' \in BOOLEAN /\ disturbed' \in BOOLEAN
    BY <1>6 DEF ServiceStarts
  <2> QED
    BY <1>5, <2>1
<1>7. CASE SudoApply
  <2>1. /\ ReadBlock("sudo", fragment) /\ UNCHANGED <<mode, hosts, published, user, spoilt>>
        /\ due' \in BOOLEAN /\ disturbed' \in BOOLEAN
    BY <1>7 DEF SudoApply
  <2> QED
    BY <1>5, <2>1
<1> QED
  BY <1>1, <1>2, <1>3, <1>4, <1>6, <1>7 DEF NealsdStep

\* A writer that ends is idle; nealsd's sync ends with its own.
LEMMA TypesDone ==
    ASSUME IInv, NEW a \in Appliers, Busy(a), applier' = [applier EXCEPT ![a] = Idle],
           pc' = (IF a = "nealsd" THEN "idle" ELSE pc),
           UNCHANGED <<mode, fragment, mirror, block, due>>,
           hosts' \in Seq(Line), spoilt' \in BOOLEAN, disturbed' \in BOOLEAN
    PROVE  Types'
<1> USE DEF IInv, Types
<1>1. /\ applier' \in [Appliers -> Applying] /\ applier'[a] = Idle
      /\ \A c \in Appliers : c # a => applier'[c] = applier[c]
  BY IdleApplying
<1>2. CASE a = "nealsd"
  <2>1. ~Busy("nealsd")'
    BY <1>1, <1>2 DEF Busy, Idle
  <2> QED
    BY <1>1, <1>2, <2>1
<1>3. CASE a # "nealsd"
  <2>1. Busy("nealsd")' <=> Busy("nealsd")
    BY <1>1, <1>3 DEF Busy, Appliers
  <2> QED
    BY <1>1, <1>3, <2>1
<1> QED
  BY <1>2, <1>3

LEMMA StepReadExisting ==
    ASSUME IInv, NEW a \in Appliers, ReadExisting(a)
    PROVE  IInv'
<1> DEFINE merged == merge_hosts_file(hosts, applier[a].block)
<1>1. /\ applier[a].pc = "block" /\ UNCHANGED <<hosts, spoilt, disturbed, mode, user>>
      /\ \/ Done(a)
         \/ /\ applier' = [applier EXCEPT ![a].pc = "read", ![a].merged = merged]
            /\ UNCHANGED published /\ UNCHANGED due
  BY DEF ReadExisting, Done
<1>2. applier[a] \in Applying /\ hosts \in Seq(Line)
  BY DEF IInv, Types
<1>3. merged \in Seq(Line)
  BY <1>2, MergeLines DEF Applying
<1>4. CASE Done(a)
  <2>1. applier' = [applier EXCEPT ![a] = Idle]
    BY <1>4 DEF Done
  <2>2. Types'
    BY <1>1, <1>2, <1>4, TypesDone DEF Done, Busy, IInv, Types
  <2>3. SameMidway
    BY <1>1, <2>1 DEF SameMidway, Midway, Idle, IInv, Types
  <2> QED
    BY <1>1, <2>2, <2>3, Unmoved DEF IInv
<1>5. CASE /\ applier' = [applier EXCEPT ![a].pc = "read", ![a].merged = merged]
           /\ UNCHANGED published /\ UNCHANGED due
  <2> HIDE DEF merged
  <2>1. applier'[a].pc = "read" /\ applier'[a].merged = merged /\ applier'[a] \in Applying
    BY <1>2, <1>3, <1>5 DEF IInv, Types, Applying, Stages
  <2>2. \A c \in Appliers : c # a => applier'[c] = applier[c]
    BY <1>5 DEF IInv, Types
  <2>3. applier' \in [Appliers -> Applying]
    BY <1>5, <2>1, <2>2 DEF IInv, Types
  <2>4. Types'
    BY <1>1, <1>5, <2>1, <2>2, <2>3 DEF IInv, Types, Busy, Appliers, published
  <2>5. \A c \in Appliers : applier'[c].pc = "opened" <=> applier[c].pc = "opened"
    BY <1>1, <2>1, <2>2
  <2>6. Writing' <=> Writing
    BY <2>5 DEF Writing
  <2>7. ASSUME ~spoilt, ~Writing PROVE Holds(merged, user)
    BY <1>2, <2>7, HoldsMerge DEF IInv, Intact, merged, Applying
  <2>8. MergedIntact'
    <3> SUFFICES ASSUME ~spoilt, NEW c \in Appliers, applier'[c].pc \in {"read", "opened"},
                        \A b \in Appliers \ {c} : applier'[b].pc # "opened"
                 PROVE  Holds(applier'[c].merged, user)
      BY <1>1 DEF MergedIntact
    <3>1. CASE c = a
      <4>1. ~Writing
        BY <1>1, <2>5, <3>1 DEF Writing
      <4> QED
        BY <2>1, <2>7, <3>1, <4>1
    <3>2. CASE c # a
      BY <2>2, <2>5, <3>2 DEF IInv, MergedIntact
    <3> QED
      BY <3>1, <3>2
  <2> QED
    BY <1>1, <2>4, <2>6, <2>8 DEF IInv, Intact, EmptyMeanwhile
<1> QED
  BY <1>1, <1>4, <1>5

LEMMA StepOpenHosts ==
    ASSUME IInv, NEW a \in Appliers, OpenHosts(a)
    PROVE  IInv'
<1>1. /\ applier[a].pc = "read" /\ applier' = [applier EXCEPT ![a].pc = "opened"]
      /\ hosts' = <<>> /\ UNCHANGED <<mode, published, due, user, spoilt, disturbed>>
  BY DEF OpenHosts
<1>2. /\ applier'[a].pc = "opened" /\ applier'[a].merged = applier[a].merged
      /\ applier' \in [Appliers -> Applying]
      /\ \A c \in Appliers : c # a => applier'[c] = applier[c]
  BY <1>1 DEF IInv, Types, Applying, Stages
<1>3. Types'
  <2>1. hosts' \in Seq(Line)
    BY <1>1
  <2> QED
    BY <1>1, <1>2, <2>1 DEF IInv, Types, Busy, Appliers, published
<1>4. Writing'
  BY <1>2 DEF Writing
<1>5. MergedIntact'
  <2> SUFFICES ASSUME ~spoilt, NEW c \in Appliers, applier'[c].pc \in {"read", "opened"},
                      \A b \in Appliers \ {c} : applier'[b].pc # "opened"
               PROVE  Holds(applier'[c].merged, user)
    BY <1>1 DEF MergedIntact
  <2>1. c = a
    BY <1>2
  <2>2. \A b \in Appliers \ {a} : applier[b].pc # "opened"
    BY <1>2, <2>1
  <2> QED
    BY <1>1, <1>2, <2>1, <2>2 DEF IInv, MergedIntact
<1> QED
  BY <1>1, <1>3, <1>4, <1>5 DEF IInv, Intact, EmptyMeanwhile

LEMMA StepWriteHosts ==
    ASSUME IInv, NEW a \in Appliers, WriteHosts(a)
    PROVE  IInv'
<1> DEFINE text == applier[a].merged
           rest == SubSeq(hosts, Len(text) + 1, Len(hosts))
           Others == \E b \in Appliers \ {a} : applier[b].pc \in {"read", "opened"}
<1>1. /\ applier[a].pc = "opened" /\ hosts' = text \o rest /\ spoilt' = (spoilt \/ Others)
      /\ UNCHANGED <<disturbed, mode, fragment, mirror, block, due, user>>
      /\ applier' = [applier EXCEPT ![a] = Idle]
      /\ pc' = (IF a = "nealsd" THEN "idle" ELSE pc)
  BY DEF WriteHosts, Done
<1>2. text \in Seq(Line)
  BY DEF IInv, Types, Applying
<1>3. hosts \in Seq(Line)
  BY DEF IInv, Types
<1>4. hosts' \in Seq(Line)
  <2>1. rest \in Seq(Line)
    <3> HIDE DEF text
    <3> QED
      BY <1>2, <1>3
  <2> HIDE DEF text, rest
  <2> QED
    BY <1>1, <1>2, <2>1
<1>5. Types'
  <2>1. spoilt' \in BOOLEAN /\ disturbed' \in BOOLEAN /\ Busy(a)
    BY <1>1 DEF IInv, Types, Busy
  <2> QED
    BY <1>1, <1>4, <2>1, TypesDone
<1>6. /\ applier'[a] = Idle
      /\ \A c \in Appliers : c # a => applier'[c] = applier[c]
  BY <1>1 DEF IInv, Types
<1>7. ASSUME ~spoilt'
      PROVE  /\ ~spoilt /\ \A b \in Appliers \ {a} : applier[b].pc \notin {"read", "opened"}
             /\ Holds(text, user) /\ hosts = <<>>
  <2>1. ~spoilt /\ \A b \in Appliers \ {a} : applier[b].pc \notin {"read", "opened"}
    BY <1>1, <1>7 DEF IInv, Types
  <2>2. Writing
    BY <1>1 DEF Writing
  <2>3. Holds(text, user)
    BY <1>1, <2>1 DEF IInv, MergedIntact
  <2> QED
    BY <2>1, <2>2, <2>3 DEF IInv, EmptyMeanwhile
<1>8. ASSUME ~spoilt' PROVE Holds(hosts', user')
  <2>1. rest = <<>>
    <3> HIDE DEF text
    <3> QED
      BY <1>2, <1>7, <1>8
  <2>2. text \o <<>> = text
    <3> HIDE DEF text
    <3> QED
      BY <1>2, ConcatEmptySeq
  <2>3. hosts' = text /\ user' = user
    BY <1>1, <2>1, <2>2
  <2> HIDE DEF text, rest
  <2> QED
    BY <1>7, <1>8, <2>3
<1>9. ASSUME ~spoilt', NEW c \in Appliers PROVE applier'[c].pc \notin {"read", "opened"}
  BY <1>6, <1>7, <1>9 DEF Idle
<1> QED
  BY <1>5, <1>8, <1>9 DEF IInv, Intact, EmptyMeanwhile, MergedIntact, Writing

LEMMA StepDies ==
    ASSUME IInv, NEW a \in Appliers, Dies(a)
    PROVE  IInv'
<1>1. /\ Busy(a) /\ applier' = [applier EXCEPT ![a] = Idle]
      /\ pc' = (IF a = "nealsd" THEN "idle" ELSE pc)
      /\ UNCHANGED <<mode, fragment, mirror, block, due, user>>
      /\ spoilt' = (spoilt \/ applier[a].pc = "opened") /\ disturbed' = TRUE
  BY DEF Dies
<1>2. PICK k \in 0..Len(applier[a].merged) :
        hosts' = IF applier[a].pc = "opened" THEN SubSeq(applier[a].merged, 1, k) ELSE hosts
  BY DEF Dies
<1>3. hosts' \in Seq(Line)
  <2> DEFINE text == applier[a].merged
  <2>1. text \in Seq(Line)
    BY DEF IInv, Types, Applying
  <2>2. hosts \in Seq(Line)
    BY DEF IInv, Types
  <2>3. SubSeq(text, 1, k) \in Seq(Line)
    <3>1. k \in 0..Len(text)
      OBVIOUS
    <3> HIDE DEF text
    <3> QED
      BY <2>1, <3>1
  <2> HIDE DEF text
  <2>4. hosts' = SubSeq(text, 1, k) \/ hosts' = hosts
    BY <1>2 DEF text
  <2> QED
    BY <2>2, <2>3, <2>4
<1>4. Types'
  <2>1. spoilt' \in BOOLEAN /\ disturbed' \in BOOLEAN
    BY <1>1 DEF IInv, Types
  <2> QED
    BY <1>1, <1>3, <2>1, TypesDone
<1>5. CASE applier[a].pc = "opened"
  BY <1>1, <1>4, <1>5 DEF IInv, Intact, EmptyMeanwhile, MergedIntact
<1>6. CASE applier[a].pc # "opened"
  <2>1. hosts' = hosts /\ spoilt' = spoilt
    BY <1>1, <1>2, <1>6 DEF IInv, Types
  <2>2. /\ applier'[a] = Idle
        /\ \A c \in Appliers : c # a => applier'[c] = applier[c]
    BY <1>1 DEF IInv, Types
  <2>3. Writing' <=> Writing
    BY <1>6, <2>2 DEF Writing, Idle
  <2>4. MergedIntact'
    <3> SUFFICES ASSUME ~spoilt, NEW c \in Appliers, applier'[c].pc \in {"read", "opened"},
                        \A b \in Appliers \ {c} : applier'[b].pc # "opened"
                 PROVE  Holds(applier'[c].merged, user)
      BY <1>1, <2>1 DEF MergedIntact
    <3>1. c # a
      BY <2>2 DEF Idle
    <3>2. \A b \in Appliers \ {c} : applier[b].pc # "opened"
      BY <1>6, <2>2
    <3> QED
      BY <2>2, <3>1, <3>2 DEF IInv, MergedIntact
  <2> QED
    BY <1>1, <1>4, <2>1, <2>3, <2>4 DEF IInv, Intact, EmptyMeanwhile
<1> QED
  BY <1>5, <1>6

LEMMA StepUser ==
    ASSUME IInv, UserUnmarks \/ \E line \in UserLine : UserAdds(line)
    PROVE  IInv'
<1>1. CASE UserUnmarks
  <2>1. /\ hosts' = Only(hosts, Line \ {END_MARKER}) /\ spoilt' = TRUE /\ disturbed' = TRUE
        /\ UNCHANGED <<mode, published, applier, due>>
    BY <1>1 DEF UserUnmarks
  <2>2. hosts' \in Seq(Line)
    <3>1. hosts \in Seq(Line)
      BY DEF IInv, Types
    <3>2. hosts' \in Seq(Line \intersect (Line \ {END_MARKER}))
      BY <2>1, <3>1, OnlyType
    <3> QED
      BY <3>2
  <2>3. Types'
    BY <2>1, <2>2 DEF IInv, Types, published, Busy
  <2> QED
    BY <2>1, <2>3 DEF IInv, Intact, EmptyMeanwhile, MergedIntact
<1>2. ASSUME NEW line \in UserLine, UserAdds(line) PROVE IInv'
  <2>1. /\ hosts' = Append(hosts, line) /\ user' = Append(user, line)
        /\ spoilt' = (spoilt \/ \E a \in Appliers : applier[a].pc \in {"read", "opened"})
        /\ UNCHANGED <<mode, published, applier, due, disturbed>>
    BY <1>2 DEF UserAdds, Edit
  <2>2. hosts' \in Seq(Line)
    <3>1. hosts \in Seq(Line)
      BY DEF IInv, Types
    <3>2. line \in Line
      BY DEF Line
    <3> QED
      BY <2>1, <3>1, <3>2
  <2>3. Types'
    BY <2>1, <2>2 DEF IInv, Types, published, Busy
  <2>4. ASSUME ~spoilt'
        PROVE  ~spoilt /\ \A a \in Appliers : applier'[a].pc \notin {"read", "opened"}
    BY <2>1, <2>4 DEF IInv, Types
  <2>5. ASSUME ~spoilt' PROVE Holds(hosts', user')
    <3>1. ~Writing
      BY <2>1, <2>4, <2>5 DEF Writing
    <3>2. Holds(hosts, user)
      BY <2>4, <2>5, <3>1 DEF IInv, Intact
    <3> QED
      BY <2>1, <3>2, HoldsAppend
  <2> QED
    BY <2>3, <2>4, <2>5 DEF IInv, Intact, EmptyMeanwhile, MergedIntact, Writing
<1> QED
  BY <1>1, <1>2

LEMMA Stepping == IInv /\ [Next]_vars => IInv'
<1> SUFFICES ASSUME IInv, [Next]_vars PROVE IInv'
  OBVIOUS
<1>1. CASE NealsdStep \/ NealsdRestarts \/ ServiceStarts \/ SudoApply
  BY <1>1, TypesNealsd
<1>2. ASSUME NEW a \in Appliers, ApplyStep(a) \/ Dies(a) PROVE IInv'
  BY <1>2, StepReadExisting, StepOpenHosts, StepWriteHosts, StepDies DEF ApplyStep
<1>3. CASE UserUnmarks \/ \E line \in UserLine : UserAdds(line)
  BY <1>3, StepUser
<1>4. CASE UNCHANGED vars
  <2>1. Types' /\ UNCHANGED <<hosts, user, spoilt, applier>>
    BY <1>4 DEF vars, published, IInv, Types, Busy
  <2> QED
    BY <2>1, Unmoved DEF SameMidway, IInv
<1> QED
  BY <1>1, <1>2, <1>3, <1>4 DEF Next

-----------------------------------------------------------------------------
(* Theorems *)

\* In every behaviour a text that nobody is in the middle of writing has at most one
\* whole block, and the lines of the user around it; the values are of their types
\* (sync_host_aliases, apply_hosts_file).
THEOREM Invariance == Spec => []IInv
<1> QED
  BY Starting, Stepping, PTL DEF Spec

\* Every value is of its type (hosts.rs).
THEOREM HostsTypeOK == Spec => []TypeOK
<1>1. IInv => TypeOK
  BY Showing
<1> QED
  BY <1>1, Invariance, PTL

\* Whatever state the file is in, a merge leaves one whole block, or none when there
\* is nothing to publish, keeps what is outside, and a second merge changes nothing
\* (merge_hosts_file).
THEOREM MergeAlwaysSound == Spec => []MergeIsSound
<1>1. IInv => MergeIsSound
  BY Showing
<1> QED
  BY <1>1, Invariance, PTL

\* The user's lines stay, in their order and outside the block, unless a writer died
\* or was overlapped, or the user broke the block (apply_hosts_file).
THEOREM UserLinesSafe == Spec => []UserLinesKept
<1>1. IInv => UserLinesKept
  BY Showing
<1> QED
  BY <1>1, Invariance, PTL

\* In a file that is not being written there is at most one block, and it is one that
\* was published, as long as nothing was overlapped (write_in_place).
THEOREM BlockSafe == Spec => []BlockIsWhole
<1>1. IInv => BlockIsWhole
  BY Showing
<1> QED
  BY <1>1, Invariance, PTL
=============================================================================
