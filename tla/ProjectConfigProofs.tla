------------------------- MODULE ProjectConfigProofs -------------------------
(***************************************************************************)
(* Theorems about ProjectConfig.tla, for all names, whatever bindings the  *)
(* user may write, however many they are and however they are nested.      *)
(***************************************************************************)
EXTENDS ProjectConfig, SequenceTheorems, WellFoundedInduction, TLAPS

-----------------------------------------------------------------------------
(* What a walk finds in sequences of bindings *)

Bindings(W) == [path : Path, value : W]
Doubles(b) == IsStatic(b.path) /\ IsSet(b.value) /\ b.value.repeats

\* Two walks find literals with the same path.
Cross(L, M) ==
    \E l \in L, m \in M : l.path = m.path /\ IsLiteral(l.value) /\ IsLiteral(m.value)

LEMMA Fails ==
    ASSUME NEW s
    PROVE  insert_lit_fails(s) <=>
               \/ \E i \in DOMAIN s : Doubles(s[i])
               \/ \E i, j \in DOMAIN s : i # j /\ Cross(Under(s[i]), Under(s[j]))
BY Zenon DEF insert_lit_fails, Doubles, Clash, Cross

LEMMA CrossParts ==
    ASSUME NEW s, NEW t
    PROVE  Cross(Leaves(s), Leaves(t)) <=>
               \E i \in DOMAIN s, j \in DOMAIN t : Cross(Under(s[i]), Under(t[j]))
BY Zenon DEF Cross, Leaves

LEMMA CrossBack ==
    ASSUME NEW L, NEW M
    PROVE  Cross(L, M) <=> Cross(M, L)
BY Zenon DEF Cross

LEMMA LeavesOfBoth ==
    ASSUME NEW S, NEW s \in Seq(S), NEW t \in Seq(S)
    PROVE  Leaves(s \o t) = Leaves(s) \union Leaves(t)
<1> DEFINE u == s \o t
<1>1. /\ u \in Seq(S) /\ Len(u) = Len(s) + Len(t)
      /\ \A i \in 1..(Len(s) + Len(t)) : u[i] = IF i <= Len(s) THEN s[i] ELSE t[i - Len(s)]
  BY ConcatProperties, Zenon
<1> HIDE DEF u
<1>2. DOMAIN u = 1..Len(u) /\ DOMAIN s = 1..Len(s) /\ DOMAIN t = 1..Len(t)
      /\ Len(s) \in Nat /\ Len(t) \in Nat
  BY <1>1, LenProperties
<1>3. \A i \in DOMAIN s : i \in DOMAIN u /\ u[i] = s[i]
  BY <1>1, <1>2
<1>4. \A i \in DOMAIN t : Len(s) + i \in DOMAIN u /\ u[Len(s) + i] = t[i]
  BY <1>1, <1>2
<1>5. \A i \in DOMAIN u : \/ i \in DOMAIN s /\ u[i] = s[i]
                          \/ i - Len(s) \in DOMAIN t /\ u[i] = t[i - Len(s)]
  BY <1>1, <1>2
<1>6. Leaves(u) = Leaves(s) \union Leaves(t)
  BY <1>3, <1>4, <1>5, Zenon DEF Leaves
<1> QED
  BY <1>6 DEF u

LEMMA LeavesOfJoin ==
    ASSUME NEW S, NEW s \in Seq(S), NEW t \in Seq(S)
    PROVE  s \o t \in Seq(S) /\ Leaves(s \o t) = Leaves(s) \union Leaves(t)
<1>1. s \o t \in Seq(S)
  BY ConcatProperties, Zenon
<1>2. Leaves(s \o t) = Leaves(s) \union Leaves(t)
  BY LeavesOfBoth, ZenonT(40)
<1> QED
  BY <1>1, <1>2, Zenon

LEMMA FailsInBoth ==
    ASSUME NEW S, NEW s \in Seq(S), NEW t \in Seq(S)
    PROVE  insert_lit_fails(s \o t) <=>
               insert_lit_fails(s) \/ insert_lit_fails(t) \/ Cross(Leaves(s), Leaves(t))
<1> DEFINE u == s \o t
<1>1. /\ u \in Seq(S) /\ Len(u) = Len(s) + Len(t)
      /\ \A i \in 1..(Len(s) + Len(t)) : u[i] = IF i <= Len(s) THEN s[i] ELSE t[i - Len(s)]
  BY ConcatProperties, Zenon
<1> HIDE DEF u
<1>2. DOMAIN u = 1..Len(u) /\ DOMAIN s = 1..Len(s) /\ DOMAIN t = 1..Len(t)
      /\ Len(s) \in Nat /\ Len(t) \in Nat
  BY <1>1, LenProperties
<1>3. \A i \in DOMAIN s : i \in DOMAIN u /\ u[i] = s[i]
  BY <1>1, <1>2
<1>4. \A i \in DOMAIN t : Len(s) + i \in DOMAIN u /\ u[Len(s) + i] = t[i]
  BY <1>1, <1>2
<1>5. \A i \in DOMAIN u : \/ i \in DOMAIN s /\ u[i] = s[i]
                          \/ i - Len(s) \in DOMAIN t /\ u[i] = t[i - Len(s)]
  BY <1>1, <1>2
<1>6. \A i \in DOMAIN s, j \in DOMAIN t : i # Len(s) + j
  BY <1>2
<1>7. \A i, j \in DOMAIN t : i # j => Len(s) + i # Len(s) + j
  BY <1>2
<1>8. \A i, j \in DOMAIN u : i # j => i - Len(s) # j - Len(s)
  BY <1>1, <1>2
<1> DEFINE X(a, b) == Cross(Under(a), Under(b))
<1> HIDE DEF X
<1>9. \A a, b : X(a, b) => X(b, a)
  BY CrossBack, Zenon DEF X
<1>10. (\E i \in DOMAIN u : Doubles(u[i])) <=>
          (\E i \in DOMAIN s : Doubles(s[i])) \/ (\E i \in DOMAIN t : Doubles(t[i]))
  BY <1>3, <1>4, <1>5, Zenon
<1>11. ASSUME NEW i \in DOMAIN u, NEW j \in DOMAIN u, i # j, X(u[i], u[j])
       PROVE  \/ \E k, l \in DOMAIN s : k # l /\ X(s[k], s[l])
              \/ \E k, l \in DOMAIN t : k # l /\ X(t[k], t[l])
              \/ \E k \in DOMAIN s, l \in DOMAIN t : X(s[k], t[l])
  BY <1>5, <1>8, <1>9, <1>11, Zenon
<1>12. ASSUME NEW i \in DOMAIN s, NEW j \in DOMAIN s, i # j, X(s[i], s[j])
       PROVE  \E k, l \in DOMAIN u : k # l /\ X(u[k], u[l])
  BY <1>3, <1>12, Zenon
<1>13. ASSUME NEW i \in DOMAIN t, NEW j \in DOMAIN t, i # j, X(t[i], t[j])
       PROVE  \E k, l \in DOMAIN u : k # l /\ X(u[k], u[l])
  <2>1. u[Len(s) + i] = t[i] /\ u[Len(s) + j] = t[j] /\ Len(s) + i # Len(s) + j
    BY <1>4, <1>7, <1>13, Zenon
  <2> QED
    BY <2>1, <1>4, <1>13, Zenon
<1>14. ASSUME NEW i \in DOMAIN s, NEW j \in DOMAIN t, X(s[i], t[j])
       PROVE  \E k, l \in DOMAIN u : k # l /\ X(u[k], u[l])
  <2>1. u[i] = s[i] /\ u[Len(s) + j] = t[j] /\ i # Len(s) + j
    BY <1>3, <1>4, <1>6, Zenon
  <2> QED
    BY <2>1, <1>3, <1>4, <1>14, Zenon
<1>15. insert_lit_fails(u) <=>
          insert_lit_fails(s) \/ insert_lit_fails(t) \/ Cross(Leaves(s), Leaves(t))
  BY <1>10, <1>11, <1>12, <1>13, <1>14, Fails, CrossParts, Zenon DEF X
<1> QED
  BY <1>15 DEF u

LEMMA LeavesInPlace ==
    ASSUME NEW S, NEW s \in Seq(S), NEW i \in DOMAIN s, NEW e,
           Under(e) = Under(s[i]), Doubles(e) <=> Doubles(s[i])
    PROVE  /\ Leaves([s EXCEPT ![i] = e]) = Leaves(s)
           /\ insert_lit_fails([s EXCEPT ![i] = e]) <=> insert_lit_fails(s)
<1> DEFINE t == [s EXCEPT ![i] = e]
<1>1. DOMAIN t = DOMAIN s /\ t[i] = e /\ \A j \in DOMAIN s : j # i => t[j] = s[j]
  BY LenProperties
<1> HIDE DEF t
<1>2. \A j \in DOMAIN s : Under(t[j]) = Under(s[j]) /\ (Doubles(t[j]) <=> Doubles(s[j]))
  BY <1>1, Zenon
<1>3. Leaves(t) = Leaves(s)
  BY <1>1, <1>2, Zenon DEF Leaves
<1>4. insert_lit_fails(t) <=> insert_lit_fails(s)
  BY <1>1, <1>2, Fails, Zenon
<1> QED
  BY <1>3, <1>4 DEF t

\* A binding and a later one give way to one that holds what both held.
LEMMA LeavesJoined ==
    ASSUME NEW S, NEW s \in Seq(S), NEW i \in DOMAIN s, NEW j \in DOMAIN s, i < j, NEW e \in S,
           Under(e) = Under(s[i]) \union Under(s[j]),
           Doubles(e) <=> \/ Doubles(s[i]) \/ Doubles(s[j])
                          \/ Cross(Under(s[i]), Under(s[j]))
    PROVE  LET t == RemoveAt([s EXCEPT ![i] = e], j) IN
           /\ t \in Seq(S)
           /\ Leaves(t) = Leaves(s) /\ (insert_lit_fails(t) <=> insert_lit_fails(s))
<1> DEFINE r == [s EXCEPT ![i] = e]
           t == RemoveAt(r, j)
           n == Len(s)
<1>1. /\ n \in Nat /\ DOMAIN s = 1..n /\ i \in 1..n /\ j \in 1..n
      /\ r \in Seq(S) /\ Len(r) = n /\ r[i] = e /\ \A k \in 1..n : k # i => r[k] = s[k]
  BY LenProperties, ExceptSeq
<1> HIDE DEF r
<1>2. /\ SubSeq(r, 1, j - 1) \in Seq(S) /\ Len(SubSeq(r, 1, j - 1)) = j - 1
      /\ \A k \in 1..(j - 1) : SubSeq(r, 1, j - 1)[k] = r[k]
      /\ SubSeq(r, j + 1, n) \in Seq(S) /\ Len(SubSeq(r, j + 1, n)) = n - j
      /\ \A k \in 1..(n - j) : SubSeq(r, j + 1, n)[k] = r[j + k]
  BY <1>1
<1>3. /\ t \in Seq(S) /\ Len(t) = n - 1
      /\ \A k \in 1..(n - 1) : t[k] = IF k < j THEN r[k] ELSE r[k + 1]
  <2> DEFINE p == SubSeq(r, 1, j - 1)
             q == SubSeq(r, j + 1, n)
  <2>1. p \in Seq(S) /\ q \in Seq(S)
    BY <1>2
  <2>2. /\ p \o q \in Seq(S)
        /\ Len(p \o q) = Len(p) + Len(q)
        /\ \A k \in 1..(Len(p) + Len(q)) : (p \o q)[k] = IF k <= Len(p) THEN p[k] ELSE q[k - Len(p)]
    BY <2>1, ConcatProperties, Zenon
  <2>3. t = p \o q
    BY <1>1 DEF RemoveAt
  <2> HIDE DEF p, q, t
  <2>4. /\ Len(p) = j - 1 /\ \A k \in 1..(j - 1) : p[k] = r[k]
        /\ Len(q) = n - j /\ \A k \in 1..(n - j) : q[k] = r[j + k]
    BY <1>2 DEF p, q
  <2>12. /\ t \in Seq(S) /\ Len(t) = Len(p) + Len(q)
        /\ \A k \in 1..(Len(p) + Len(q)) : t[k] = IF k <= Len(p) THEN p[k] ELSE q[k - Len(p)]
    BY <2>2, <2>3, Zenon
  <2>5. Len(t) = n - 1
    BY <2>12, <2>4, <1>1, SMTT(30)
  <2>6. ASSUME NEW k \in 1..(n - 1), k < j PROVE t[k] = r[k]
    BY <2>12, <2>4, <2>6, <1>1, SMTT(30)
  <2>7. ASSUME NEW k \in 1..(n - 1), ~(k < j) PROVE t[k] = r[k + 1]
    <3>1. t[k] = q[k - (j - 1)] /\ k - (j - 1) \in 1..(n - j)
      BY <2>12, <2>4, <2>7, <1>1, SMTT(30)
    <3>2. q[k - (j - 1)] = r[j + (k - (j - 1))] /\ j + (k - (j - 1)) = k + 1
      BY <2>4, <3>1, <1>1
    <3> QED
      BY <3>1, <3>2
  <2> QED
    BY <2>12, <2>5, <2>6, <2>7
<1> HIDE DEF t
<1> DEFINE Rest == DOMAIN s \ {j}
           At(k) == IF k < j THEN k ELSE k - 1
<1>4. DOMAIN t = 1..(n - 1)
  BY <1>3, LenProperties
<1>5. \A k \in Rest : At(k) \in DOMAIN t /\ t[At(k)] = r[k]
  BY <1>1, <1>3, <1>4
<1>6. \A m \in DOMAIN t : \E k \in Rest : At(k) = m
  <2> TAKE m \in DOMAIN t
  <2>1. CASE m < j
    BY <2>1, <1>1, <1>4
  <2>2. CASE ~(m < j)
    <3>1. m + 1 \in Rest /\ At(m + 1) = m
      BY <2>2, <1>1, <1>4
    <3> QED
      BY <3>1
  <2> QED
    BY <2>1, <2>2
<1>7. \A k, l \in Rest : k # l => At(k) # At(l)
  BY <1>1
<1>8. i \in Rest /\ i # j
  BY <1>1
<1> HIDE DEF At, n
<1>9. Leaves(t) = UNION {Under(r[k]) : k \in Rest}
  <2> SUFFICES ASSUME NEW l PROVE l \in Leaves(t) <=> \E k \in Rest : l \in Under(r[k])
    BY Zenon
  <2>1. l \in Leaves(t) <=> \E m \in DOMAIN t : l \in Under(t[m])
    BY Zenon DEF Leaves
  <2> QED
    BY <2>1, <1>5, <1>6, Zenon
<1>10. \A k \in Rest : k # i => r[k] = s[k]
  BY <1>1
<1>11. DOMAIN s = Rest \union {j}
  BY <1>1
<1> HIDE DEF Rest
<1>12. Leaves(t) = Leaves(s)
  <2> SUFFICES ASSUME NEW l PROVE (\E k \in Rest : l \in Under(r[k])) <=> l \in Leaves(s)
    BY <1>9, Zenon
  <2>1. l \in Leaves(s) <=> (\E k \in Rest : l \in Under(s[k])) \/ l \in Under(s[j])
    BY <1>11, Zenon DEF Leaves
  <2>2. l \in Under(r[i]) <=> l \in Under(s[i]) \/ l \in Under(s[j])
    BY <1>1, Zenon
  <2> QED
    BY <2>1, <2>2, <1>8, <1>10, Zenon
<1> DEFINE X(a, b) == Cross(Under(a), Under(b))
<1>13. \A a, b : X(a, b) => X(b, a)
  BY CrossBack, Zenon
<1>14. \A b : X(e, b) <=> X(s[i], b) \/ X(s[j], b)
  BY Zenon DEF Cross
<1> HIDE DEF X
<1>15. insert_lit_fails(t) <=> \/ \E k \in Rest : Doubles(r[k])
                               \/ \E k, l \in Rest : k # l /\ X(r[k], r[l])
  <2>1. insert_lit_fails(t) <=> \/ \E m \in DOMAIN t : Doubles(t[m])
                                \/ \E m, o \in DOMAIN t : m # o /\ X(t[m], t[o])
    BY Fails, Zenon DEF X
  <2>2. ASSUME NEW m \in DOMAIN t, Doubles(t[m]) PROVE \E k \in Rest : Doubles(r[k])
    BY <2>2, <1>5, <1>6, Zenon
  <2>3. ASSUME NEW k \in Rest, Doubles(r[k]) PROVE \E m \in DOMAIN t : Doubles(t[m])
    BY <2>3, <1>5, Zenon
  <2>4. ASSUME NEW m \in DOMAIN t, NEW o \in DOMAIN t, m # o, X(t[m], t[o])
        PROVE  \E k, l \in Rest : k # l /\ X(r[k], r[l])
    <3>1. PICK k \in Rest : At(k) = m
      BY <1>6, Zenon
    <3>2. PICK l \in Rest : At(l) = o
      BY <1>6, Zenon
    <3>3. r[k] = t[m] /\ r[l] = t[o] /\ k # l
      BY <3>1, <3>2, <2>4, <1>5, Zenon
    <3> QED
      BY <3>3, <2>4, Zenon
  <2>5. ASSUME NEW k \in Rest, NEW l \in Rest, k # l, X(r[k], r[l])
        PROVE  \E m, o \in DOMAIN t : m # o /\ X(t[m], t[o])
    BY <2>5, <1>5, <1>7, Zenon
  <2> QED
    BY <2>1, <2>2, <2>3, <2>4, <2>5, Zenon
<1>16. insert_lit_fails(s) <=> \/ \E k \in DOMAIN s : Doubles(s[k])
                               \/ \E k, l \in DOMAIN s : k # l /\ X(s[k], s[l])
  BY Fails, Zenon DEF X
<1>17. (\E k \in Rest : Doubles(r[k])) \/ X(s[i], s[j])
         <=> (\E k \in DOMAIN s : Doubles(s[k])) \/ X(s[i], s[j])
  <2>1. Doubles(r[i]) <=> Doubles(s[i]) \/ Doubles(s[j]) \/ X(s[i], s[j])
    BY <1>1, Zenon DEF X
  <2> QED
    BY <2>1, <1>8, <1>10, <1>11, Zenon
<1>18. X(s[i], s[j]) => \E k \in Rest : Doubles(r[k])
  BY <1>1, <1>8, Zenon DEF X
<1>19. ASSUME NEW k \in Rest, NEW l \in Rest, k # l, X(r[k], r[l])
       PROVE  \E m, o \in DOMAIN s : m # o /\ X(s[m], s[o])
  <2>1. CASE k = i
    <3>1. X(s[i], s[l]) \/ X(s[j], s[l])
      BY <2>1, <1>19, <1>1, <1>10, <1>14, Zenon
    <3>2. i # l /\ j # l
      BY <2>1, <1>19, Zenon DEF Rest
    <3> QED
      BY <3>1, <3>2, <1>11, <1>8, Zenon
  <2>2. CASE l = i
    <3>1. X(s[i], s[k]) \/ X(s[j], s[k])
      BY <2>2, <1>19, <1>1, <1>10, <1>13, <1>14, Zenon
    <3>2. i # k /\ j # k
      BY <2>2, <1>19, Zenon DEF Rest
    <3> QED
      BY <3>1, <3>2, <1>11, <1>8, Zenon
  <2>3. CASE k # i /\ l # i
    BY <2>3, <1>19, <1>10, <1>11, Zenon
  <2> QED
    BY <2>1, <2>2, <2>3, Zenon
<1>20. ASSUME NEW k \in DOMAIN s, NEW l \in DOMAIN s, k # l, X(s[k], s[l])
       PROVE  X(s[i], s[j]) \/ \E m, o \in Rest : m # o /\ X(r[m], r[o])
  <2> DEFINE To(m) == IF m = j THEN i ELSE m
  <2>1. \A m \in DOMAIN s : To(m) \in Rest
    BY <1>8, <1>11, Zenon
  <2>2. \A b : \A m \in DOMAIN s : X(s[m], b) => X(r[To(m)], b)
    BY <1>1, <1>8, <1>10, <1>11, <1>14, Zenon
  <2>3. X(r[To(k)], r[To(l)])
    BY <2>2, <1>13, <1>20, Zenon
  <2>4. To(k) # To(l) \/ X(s[i], s[j])
    BY <1>20, <1>13, Zenon
  <2> QED
    BY <2>1, <2>3, <2>4, Zenon
<1>21. insert_lit_fails(t) <=> insert_lit_fails(s)
  <2>1. ASSUME insert_lit_fails(t) PROVE insert_lit_fails(s)
    BY <2>1, <1>8, <1>11, <1>15, <1>16, <1>17, <1>19, Zenon
  <2>2. ASSUME insert_lit_fails(s) PROVE insert_lit_fails(t)
    BY <2>2, <1>15, <1>16, <1>17, <1>18, <1>20, Zenon
  <2> QED
    BY <2>1, <2>2
<1> QED
  BY <1>3, <1>12, <1>21 DEF t, r

-----------------------------------------------------------------------------
(* Values: what every set among them carries is what is below it *)

Single(L) ==
    \A l, m \in L : l.path = m.path /\ IsLiteral(l.value) /\ IsLiteral(m.value) => l = m

Nested(W) == \A v \in W : IsSet(v) =>
    /\ v.items \in Seq(Bindings(W)) /\ v = AttrSet(v.items)
    /\ v.leaves \subseteq Bindings(W)
    /\ ~v.repeats => Single(v.leaves)

LEMMA BindingIs ==
    ASSUME NEW W, NEW b \in Bindings(W)
    PROVE  b.path \in Path /\ b.value \in W /\ b = Bind(b.path, b.value)
BY DEF Bindings, Bind

LEMMA BindIs ==
    ASSUME NEW W, NEW p \in Path, NEW v \in W
    PROVE  Bind(p, v) \in Bindings(W) /\ Bind(p, v).path = p /\ Bind(p, v).value = v
BY DEF Bindings, Bind

LEMMA BindApart ==
    ASSUME NEW p, NEW q, NEW v, NEW w, Bind(p, v) = Bind(q, w)
    PROVE  p = q /\ v = w
BY DEF Bind

LEMMA AttrSetIs ==
    ASSUME NEW s
    PROVE  /\ IsSet(AttrSet(s)) /\ AttrSet(s).items = s
           /\ AttrSet(s).leaves = Leaves(s) /\ (AttrSet(s).repeats <=> insert_lit_fails(s))
BY DEF AttrSet, IsSet

LEMMA PathsJoin ==
    ASSUME NEW p \in Path, NEW q \in Path
    PROVE  p \o q \in Path /\ (IsStatic(p \o q) <=> IsStatic(p) /\ IsStatic(q))
<1>1. p \in Seq(STRING) /\ q \in Seq(STRING) /\ p # <<>> /\ q # <<>>
  BY DEF Path
<1> DEFINE u == p \o q
<1>2. /\ u \in Seq(STRING) /\ Len(u) = Len(p) + Len(q)
      /\ \A i \in 1..(Len(p) + Len(q)) : u[i] = IF i <= Len(p) THEN p[i] ELSE q[i - Len(p)]
  BY <1>1, ConcatProperties, Zenon
<1> HIDE DEF u
<1>3. u # <<>>
  BY <1>1, <1>2, EmptySeq
<1>4. DOMAIN u = 1..Len(u) /\ DOMAIN p = 1..Len(p) /\ DOMAIN q = 1..Len(q)
      /\ Len(p) \in Nat /\ Len(q) \in Nat
  BY <1>1, <1>2, LenProperties
<1>5. ASSUME IsStatic(u) PROVE IsStatic(p) /\ IsStatic(q)
  <2>1. \A i \in DOMAIN p : i \in DOMAIN u /\ u[i] = p[i]
    BY <1>2, <1>4
  <2>2. \A i \in DOMAIN q : Len(p) + i \in DOMAIN u /\ u[Len(p) + i] = q[i]
    BY <1>2, <1>4
  <2> QED
    BY <2>1, <2>2, <1>5, Zenon DEF IsStatic
<1>6. ASSUME IsStatic(p), IsStatic(q) PROVE IsStatic(u)
  <2>1. \A i \in DOMAIN u : \/ i \in DOMAIN p /\ u[i] = p[i]
                            \/ i - Len(p) \in DOMAIN q /\ u[i] = q[i - Len(p)]
    BY <1>2, <1>4
  <2> QED
    BY <2>1, <1>6, Zenon DEF IsStatic
<1>7. u \in Path
  BY <1>2, <1>3 DEF Path
<1> QED
  BY <1>5, <1>6, <1>7 DEF u

LEMMA PathsCancel ==
    ASSUME NEW p \in Path, NEW q \in Path, NEW r \in Path, p \o q = p \o r
    PROVE  q = r
<1>1. p \in Seq(STRING) /\ q \in Seq(STRING) /\ r \in Seq(STRING)
  BY DEF Path
<1> QED
  BY <1>1, ConcatSimplifications, Zenon

LEMMA PathsRegroup ==
    ASSUME NEW p \in Path, NEW q \in Path, NEW r \in Path
    PROVE  (p \o q) \o r = p \o (q \o r)
<1>1. p \in Seq(STRING) /\ q \in Seq(STRING) /\ r \in Seq(STRING)
  BY DEF Path
<1> QED
  BY <1>1, ConcatAssociative

LEMMA UnderIs ==
    ASSUME NEW W, Nested(W), NEW b \in Bindings(W)
    PROVE  Under(b) \subseteq Bindings(W)
<1>1. b.path \in Path /\ b.value \in W
  BY BindingIs, Zenon
<1>2. CASE IsStatic(b.path) /\ IsSet(b.value)
  <2> SUFFICES ASSUME NEW l \in b.value.leaves
               PROVE  Bind(b.path \o l.path, l.value) \in Bindings(W)
    BY <1>2, Zenon DEF Under
  <2>1. l \in Bindings(W)
    BY <1>1, <1>2, Zenon DEF Nested
  <2>2. l.path \in Path /\ l.value \in W
    BY <2>1, BindingIs, Zenon
  <2>3. b.path \o l.path \in Path
    BY <1>1, <2>2, PathsJoin, Zenon
  <2> QED
    BY <2>2, <2>3, BindIs, Zenon
<1> QED
  BY <1>2, Zenon DEF Under

LEMMA LeavesAre ==
    ASSUME NEW W, Nested(W), NEW s \in Seq(Bindings(W))
    PROVE  /\ Leaves(s) \subseteq Bindings(W)
           /\ ~insert_lit_fails(s) => Single(Leaves(s))
<1>1. \A i \in DOMAIN s : s[i] \in Bindings(W)
  BY LenProperties
<1>2. Leaves(s) \subseteq Bindings(W)
  BY <1>1, UnderIs, Zenon DEF Leaves
<1>3. ASSUME ~insert_lit_fails(s), NEW l \in Leaves(s), NEW m \in Leaves(s),
             l.path = m.path, IsLiteral(l.value), IsLiteral(m.value)
      PROVE  l = m
  <2>1. PICK i \in DOMAIN s : l \in Under(s[i])
    BY Zenon DEF Leaves
  <2>2. PICK j \in DOMAIN s : m \in Under(s[j])
    BY Zenon DEF Leaves
  <2>3. i = j
    BY <1>3, <2>1, <2>2, Fails, Zenon DEF Cross
  <2> DEFINE b == s[i]
  <2>4. l \in Under(b) /\ m \in Under(b) /\ ~Doubles(b) /\ b \in Bindings(W)
    BY <1>1, <1>3, <2>1, <2>2, <2>3, Fails, Zenon
  <2> HIDE DEF b
  <2>5. b.path \in Path /\ b.value \in W
    BY <2>4, BindingIs, Zenon
  <2>6. CASE IsStatic(b.path) /\ IsSet(b.value)
    <3>1. PICK k \in b.value.leaves : l = Bind(b.path \o k.path, k.value)
      BY <2>4, <2>6, Zenon DEF Under
    <3>2. PICK o \in b.value.leaves : m = Bind(b.path \o o.path, o.value)
      BY <2>4, <2>6, Zenon DEF Under
    <3>3. k \in Bindings(W) /\ o \in Bindings(W) /\ Single(b.value.leaves)
      BY <2>4, <2>5, <2>6, Zenon DEF Nested, Doubles
    <3>4. k.path \in Path /\ o.path \in Path
      BY <3>3, BindingIs, Zenon
    <3>5. /\ l.path = b.path \o k.path /\ l.value = k.value
          /\ m.path = b.path \o o.path /\ m.value = o.value
      BY <3>1, <3>2 DEF Bind
    <3>6. k.path = o.path
      BY <1>3, <2>5, <3>4, <3>5, PathsCancel, Zenon
    <3>7. k = o
      BY <1>3, <3>3, <3>5, <3>6, Zenon DEF Single
    <3> QED
      BY <3>1, <3>2, <3>7, Zenon
  <2>7. CASE ~(IsStatic(b.path) /\ IsSet(b.value))
    BY <2>4, <2>7, Zenon DEF Under
  <2> QED
    BY <2>6, <2>7
<1> QED
  BY <1>2, <1>3, Zenon DEF Single

LEMMA Wider ==
    ASSUME NEW W, NEW V, W \subseteq V
    PROVE  Bindings(W) \subseteq Bindings(V) /\ Seq(Bindings(W)) \subseteq Seq(Bindings(V))
<1>1. Bindings(W) \subseteq Bindings(V)
  BY DEF Bindings
<1> QED
  BY <1>1, SeqMonotonic, Zenon

LEMMA Nesting ==
    ASSUME NEW W, Nested(W), NEW s \in Seq(Bindings(W))
    PROVE  Nested(W \union {AttrSet(s)})
<1> DEFINE V == W \union {AttrSet(s)}
<1>1. W \subseteq V /\ \A v \in V : v \in W \/ v = AttrSet(s)
  OBVIOUS
<1> HIDE DEF V
<1>2. Bindings(W) \subseteq Bindings(V) /\ Seq(Bindings(W)) \subseteq Seq(Bindings(V))
  BY <1>1, Wider
<1>3. ASSUME NEW v \in W, IsSet(v)
      PROVE  /\ v.items \in Seq(Bindings(V)) /\ v = AttrSet(v.items)
             /\ v.leaves \subseteq Bindings(V)
             /\ ~v.repeats => Single(v.leaves)
  BY <1>2, <1>3, Zenon DEF Nested
<1>4. LET v == AttrSet(s) IN
         /\ v.items \in Seq(Bindings(V)) /\ v = AttrSet(v.items)
         /\ v.leaves \subseteq Bindings(V)
         /\ ~v.repeats => Single(v.leaves)
  <2> DEFINE v == AttrSet(s)
  <2>1. /\ v.items = s /\ v.leaves = Leaves(s) /\ (v.repeats <=> insert_lit_fails(s))
    BY AttrSetIs, Zenon
  <2>2. v = AttrSet(v.items)
    BY <2>1, Zenon
  <2> HIDE DEF v
  <2>3. Leaves(s) \subseteq Bindings(W) /\ (~insert_lit_fails(s) => Single(Leaves(s)))
    BY LeavesAre, Zenon
  <2>4. /\ v.items \in Seq(Bindings(V)) /\ v.leaves \subseteq Bindings(V)
        /\ ~v.repeats => Single(v.leaves)
    BY <1>2, <2>1, <2>3, Zenon
  <2> QED
    BY <2>2, <2>4, Zenon DEF v
<1>5. Nested(V)
  BY <1>1, <1>3, <1>4, Zenon DEF Nested
<1> QED
  BY <1>5 DEF V

LEMMA OneBinding ==
    ASSUME NEW b
    PROVE  Leaves(<<b>>) = Under(b) /\ (insert_lit_fails(<<b>>) <=> Doubles(b))
<1>1. DOMAIN <<b>> = {1} /\ <<b>>[1] = b
  OBVIOUS
<1> DEFINE s == <<b>>
<1> HIDE DEF s
<1>2. DOMAIN s = {1} /\ s[1] = b
  BY <1>1 DEF s
<1>3. Leaves(s) = Under(b)
  BY <1>2, Zenon DEF Leaves
<1>4. insert_lit_fails(s) <=> Doubles(b)
  BY <1>2, Fails, Zenon
<1> QED
  BY <1>3, <1>4 DEF s

\* a.b = v is a = { b = v; }.
LEMMA Grouping ==
    ASSUME NEW W, Nested(W), NEW p \in Path, NEW q \in Path, NEW v \in W
    PROVE  LET b == Bind(p \o q, v)
               e == Bind(p, AttrSet(<<Bind(q, v)>>))
           IN  Under(b) = Under(e) /\ (Doubles(b) <=> Doubles(e))
<1> DEFINE c == Bind(q, v)
           b == Bind(p \o q, v)
           e == Bind(p, AttrSet(<<c>>))
<1>1. /\ b.path = p \o q /\ b.value = v /\ c.path = q /\ c.value = v
      /\ e.path = p /\ e.value = AttrSet(<<c>>)
  BY DEF Bind
<1>2. /\ IsSet(e.value) /\ e.value.leaves = Under(c)
      /\ e.value.repeats <=> Doubles(c)
  BY <1>1, AttrSetIs, OneBinding, ZenonT(40)
<1>3. IsStatic(p \o q) <=> IsStatic(p) /\ IsStatic(q)
  BY PathsJoin, Zenon
<1> HIDE DEF c, e
<1>4. Doubles(b) <=> Doubles(e)
  BY <1>1, <1>2, <1>3, Zenon DEF Doubles
<1>5. Under(b) = Under(e)
  <2>1. CASE ~IsStatic(p)
    BY <2>1, <1>1, <1>3, Zenon DEF Under
  <2>2. CASE IsStatic(p)
    <3>1. Under(e) = {Bind(p \o l.path, l.value) : l \in Under(c)}
      BY <2>2, <1>1, <1>2, Zenon DEF Under
    <3>2. CASE ~IsStatic(q)
      <4>1. Under(c) = {} /\ Under(b) = {}
        BY <3>2, <1>1, <1>3, Zenon DEF Under
      <4> QED
        BY <3>1, <4>1, Zenon
    <3>3. CASE IsStatic(q) /\ IsSet(v)
      <4>1. Under(c) = {Bind(q \o l.path, l.value) : l \in v.leaves}
        BY <3>3, <1>1, Zenon DEF Under
      <4>2. Under(b) = {Bind((p \o q) \o l.path, l.value) : l \in v.leaves}
        BY <3>3, <2>2, <1>1, <1>3, Zenon DEF Under
      <4>3. \A l \in v.leaves : l.path \in Path
        <5>1. v.leaves \subseteq Bindings(W)
          BY <3>3, Zenon DEF Nested
        <5> QED
          BY <5>1, BindingIs, Zenon
      <4>4. \A l \in v.leaves :
               LET m == Bind(q \o l.path, l.value)
               IN  Bind(p \o m.path, m.value) = Bind((p \o q) \o l.path, l.value)
        <5> TAKE l \in v.leaves
        <5>1. (p \o q) \o l.path = p \o (q \o l.path)
          BY <4>3, PathsRegroup, Zenon
        <5>2. \A x, y : Bind(x, y).path = x /\ Bind(x, y).value = y
          BY DEF Bind
        <5> QED
          BY <5>1, <5>2, Zenon
      <4>5. \A x : x \in Under(e) <=> \E l \in v.leaves : x = Bind((p \o q) \o l.path, l.value)
        <5> TAKE x
        <5> DEFINE M(l) == Bind(q \o l.path, l.value)
                   B(l) == Bind((p \o q) \o l.path, l.value)
                   E(m) == Bind(p \o m.path, m.value)
        <5>1. \A l \in v.leaves : E(M(l)) = B(l)
          BY <4>4, Zenon
        <5>2. Under(e) = {E(m) : m \in Under(c)} /\ Under(c) = {M(l) : l \in v.leaves}
          BY <3>1, <4>1
        <5> HIDE DEF M, B, E
        <5>3. x \in Under(e) <=> \E l \in v.leaves : x = E(M(l))
          BY <5>2, Zenon
        <5>4. x \in Under(e) <=> \E l \in v.leaves : x = B(l)
          BY <5>1, <5>3, Zenon
        <5> QED
          BY <5>4 DEF B
      <4> QED
        BY <4>2, <4>5, Zenon
    <3>4. CASE IsStatic(q) /\ ~IsSet(v)
      <4>1. Under(c) = {c} /\ Under(b) = {b}
        BY <3>4, <2>2, <1>1, <1>3, Zenon DEF Under
      <4>2. {Bind(p \o l.path, l.value) : l \in {c}} = {b}
        BY <1>1, Zenon
      <4> QED
        BY <3>1, <4>1, <4>2, Zenon
    <3> QED
      BY <3>2, <3>3, <3>4
  <2> QED
    BY <2>1, <2>2
<1> QED
  BY <1>4, <1>5 DEF b, c, e

\* a = { x }; a = { y }; is a = { x y };
LEMMA Joining ==
    ASSUME NEW W, Nested(W), NEW a \in Bindings(W), NEW b \in Bindings(W),
           a.path = b.path, IsSet(a.value), IsSet(b.value)
    PROVE  LET e == Bind(a.path, AttrSet(a.value.items \o b.value.items)) IN
           /\ a.value.items \o b.value.items \in Seq(Bindings(W))
           /\ Under(e) = Under(a) \union Under(b)
           /\ Doubles(e) <=> Doubles(a) \/ Doubles(b) \/ Cross(Under(a), Under(b))
<1> DEFINE p == a.path
           s == a.value.items
           t == b.value.items
           L == Leaves(s)
           M == Leaves(t)
           e == Bind(p, AttrSet(s \o t))
           P(l) == Bind(p \o l.path, l.value)
<1>1. /\ s \in Seq(Bindings(W)) /\ t \in Seq(Bindings(W)) /\ p \in Path
      /\ a.value = AttrSet(s) /\ b.value = AttrSet(t)
  <2>1. a.value \in W /\ b.value \in W /\ a.path \in Path
    BY BindingIs, Zenon
  <2> QED
    BY <2>1, Zenon DEF Nested
<1>2. /\ a.value.leaves = L /\ (a.value.repeats <=> insert_lit_fails(s))
      /\ b.value.leaves = M /\ (b.value.repeats <=> insert_lit_fails(t))
  BY <1>1, AttrSetIs, Zenon
<1>3. s \o t \in Seq(Bindings(W))
  BY <1>1, ConcatProperties, Zenon
<1>4. Leaves(s \o t) = L \union M
  BY <1>1, LeavesOfBoth
<1>5. insert_lit_fails(s \o t) <=> insert_lit_fails(s) \/ insert_lit_fails(t) \/ Cross(L, M)
  BY <1>1, FailsInBoth, Zenon
<1>6. /\ e.path = p /\ IsSet(e.value) /\ e.value.leaves = L \union M
      /\ e.value.repeats <=> insert_lit_fails(s) \/ insert_lit_fails(t) \/ Cross(L, M)
  <2>1. e.path = p /\ e.value = AttrSet(s \o t)
    BY DEF Bind
  <2> QED
    BY <2>1, <1>4, <1>5, AttrSetIs, Zenon
<1>7. L \subseteq Bindings(W) /\ M \subseteq Bindings(W)
  BY <1>1, LeavesAre, Zenon
<1> HIDE DEF e, s, t, L, M
<1>8. CASE ~IsStatic(p)
  <2>1. Under(e) = {} /\ Under(a) = {} /\ Under(b) = {}
    BY <1>8, <1>6, Zenon DEF Under
  <2>2. ~Doubles(e) /\ ~Doubles(a) /\ ~Doubles(b) /\ ~Cross({}, {})
    BY <1>8, <1>6, Zenon DEF Doubles, Cross
  <2>3. Under(e) = Under(a) \union Under(b)
    BY <2>1
  <2> QED
    BY <2>1, <2>2, <2>3, <1>3, Zenon DEF e, s, t
<1>9. CASE IsStatic(p)
  <2>1. /\ Under(e) = {P(l) : l \in L \union M}
        /\ Under(a) = {P(l) : l \in L} /\ Under(b) = {P(l) : l \in M}
    BY <1>9, <1>2, <1>6, Zenon DEF Under
  <2>2. \A l \in L, m \in M :
           /\ P(l).path = P(m).path <=> l.path = m.path
           /\ P(l).value = l.value /\ P(m).value = m.value
    <3> TAKE l \in L, m \in M
    <3>1. l.path \in Path /\ m.path \in Path
      BY <1>7, BindingIs, Zenon
    <3>2. /\ P(l).path = p \o l.path /\ P(m).path = p \o m.path
          /\ P(l).value = l.value /\ P(m).value = m.value
      BY DEF Bind
    <3>3. p \o l.path = p \o m.path => l.path = m.path
      BY <1>1, <3>1, PathsCancel, Zenon
    <3> QED
      BY <3>2, <3>3, Zenon
  <2> HIDE DEF P
  <2>3. Under(e) = Under(a) \union Under(b)
    BY <2>1, Zenon
  <2>4. Cross(Under(a), Under(b)) <=> Cross(L, M)
    <3>1. ASSUME NEW x \in Under(a), NEW y \in Under(b),
                 x.path = y.path, IsLiteral(x.value), IsLiteral(y.value)
          PROVE  Cross(L, M)
      <4>1. PICK l \in L : x = P(l)
        BY <2>1, Zenon
      <4>2. PICK m \in M : y = P(m)
        BY <2>1, Zenon
      <4>3. l.path = m.path /\ x.value = l.value /\ y.value = m.value
        BY <4>1, <4>2, <3>1, <2>2, Zenon
      <4> QED
        BY <4>3, <3>1, Zenon DEF Cross
    <3>2. ASSUME NEW l \in L, NEW m \in M,
                 l.path = m.path, IsLiteral(l.value), IsLiteral(m.value)
          PROVE  Cross(Under(a), Under(b))
      <4>1. P(l) \in Under(a) /\ P(m) \in Under(b)
        BY <2>1, Zenon
      <4>2. P(l).path = P(m).path /\ IsLiteral(P(l).value) /\ IsLiteral(P(m).value)
        BY <3>2, <2>2, Zenon
      <4> QED
        BY <4>1, <4>2, Zenon DEF Cross
    <3> QED
      BY <3>1, <3>2, Zenon DEF Cross
  <2>5. Doubles(e) <=> Doubles(a) \/ Doubles(b) \/ Cross(Under(a), Under(b))
    BY <2>4, <1>2, <1>6, <1>9, Zenon DEF Doubles
  <2> QED
    BY <2>3, <2>5, <1>3, Zenon DEF e, s, t
<1> QED
  BY <1>8, <1>9

LEMMA Adding ==
    ASSUME NEW W, Nested(W), NEW v, ~IsSet(v)
    PROVE  Nested(W \union {v})
<1> DEFINE V == W \union {v}
<1>1. W \subseteq V /\ \A w \in V : w \in W \/ w = v
  OBVIOUS
<1> HIDE DEF V
<1>2. Bindings(W) \subseteq Bindings(V) /\ Seq(Bindings(W)) \subseteq Seq(Bindings(V))
  BY <1>1, Wider
<1>3. Nested(V)
  BY <1>1, <1>2, Zenon DEF Nested
<1> QED
  BY <1>3 DEF V

\* What the user and devenv init write.
Flat == {c.value : c \in UNION {ItemsOf(b.value) : b \in Given}}
Values == Flat \union {b.value : b \in Given}

LEMMA GivenIs ==
    /\ Nested(Values) /\ Given \subseteq Bindings(Values)
    /\ Template.items \in Seq(Bindings(Values))
<1>1. \A b \in Given : b = Bind(b.path, b.value) /\ b.path \in Path /\ b.value \in Values
  BY BindingAssumption, Zenon DEF IsBinding, Values
<1>2. Given \subseteq Bindings(Values)
  BY <1>1, BindIs, Zenon
<1>3. Template.items \in Seq(Bindings(Values))
  BY <1>2, BindingAssumption, SeqMonotonic, Zenon
<1>4. Nested(Flat)
  BY BindingAssumption, Zenon DEF Nested, Flat
<1>5. Flat \subseteq Values
  BY Zenon DEF Values
<1>6. Bindings(Flat) \subseteq Bindings(Values) /\ Seq(Bindings(Flat)) \subseteq Seq(Bindings(Values))
  BY <1>5, Wider
<1>7. ASSUME NEW v \in Values, IsSet(v)
      PROVE  /\ v.items \in Seq(Bindings(Values)) /\ v = AttrSet(v.items)
             /\ v.leaves \subseteq Bindings(Values)
             /\ ~v.repeats => Single(v.leaves)
  <2>1. v \notin Flat
    BY <1>7, BindingAssumption, Zenon DEF Flat
  <2>2. PICK b \in Given : v = b.value
    BY <2>1, Zenon DEF Values
  <2>3. v.items \in Seq(ItemsOf(v)) /\ v = AttrSet(v.items)
    BY <2>2, <1>7, BindingAssumption, Zenon
  <2>4. \A c \in ItemsOf(v) : c = Bind(c.path, c.value) /\ c.path \in Path /\ c.value \in Flat
    BY <2>2, BindingAssumption, Zenon DEF IsBinding, Flat
  <2>5. ItemsOf(v) \subseteq Bindings(Flat)
    BY <2>4, BindIs, Zenon
  <2>6. v.items \in Seq(Bindings(Flat))
    BY <2>3, <2>5, SeqMonotonic, Zenon
  <2> DEFINE s == v.items
  <2> HIDE DEF s
  <2>7. s \in Seq(Bindings(Flat)) /\ v = AttrSet(s)
    BY <2>3, <2>6 DEF s
  <2>8. v.leaves = Leaves(s) /\ (v.repeats <=> insert_lit_fails(s))
    BY <2>7, AttrSetIs, Zenon
  <2>9. v.leaves \subseteq Bindings(Flat) /\ (~v.repeats => Single(v.leaves))
    BY <1>4, <2>7, <2>8, LeavesAre, Zenon
  <2> QED
    BY <2>3, <2>6, <2>9, <1>6, Zenon
<1>8. Nested(Values)
  BY <1>7, Zenon DEF Nested
<1> QED
  BY <1>2, <1>3, <1>8

-----------------------------------------------------------------------------
(* The readers *)

LEMMA SameReading ==
    ASSUME NEW f, NEW g, FileLeaves(f) = FileLeaves(g),
           insert_lit_fails(top_level_attrset(f)) <=> insert_lit_fails(top_level_attrset(g))
    PROVE  /\ resolve_project_name(there, f, Folder) = resolve_project_name(there, g, Folder)
           /\ read_neals_services(there, f) = read_neals_services(there, g)
<1>1. \A s : insert_lit_fails(s) \in BOOLEAN
  BY DEF insert_lit_fails
<1>2. insert_lit_fails(top_level_attrset(f)) = insert_lit_fails(top_level_attrset(g))
  BY <1>1
<1>3. collect_neals_literals(f) = collect_neals_literals(g)
  BY <1>2, Zenon DEF collect_neals_literals
<1>4. parse_neals_name(f) = parse_neals_name(g)
  BY <1>3, Zenon DEF parse_neals_name
<1>5. parse_neals_services(f) = parse_neals_services(g)
  BY <1>3, Zenon DEF parse_neals_services
<1>6. resolve_project_name(there, f, Folder) = resolve_project_name(there, g, Folder)
  BY <1>4, Zenon DEF resolve_project_name
<1>7. read_neals_services(there, f) = read_neals_services(there, g)
  BY <1>5, Zenon DEF read_neals_services
<1> QED
  BY <1>6, <1>7

\* Of neals, the file names the project as its folder, or says nothing.
OnlyNamed(L) == \A l \in L : l.path[1] = "neals" => l = Bind(<<"neals", "name">>, NixStr(Folder))

LEMMA NamedReading ==
    ASSUME NEW f, OnlyNamed(FileLeaves(f))
    PROVE  /\ resolve_project_name(there, f, Folder).name = Folder
           /\ read_neals_services(there, f).decls = {}
<1> DEFINE c == collect_neals_literals(f)
           n == Bind(<<"name">>, NixStr(Folder))
<1>1. ASSUME NEW k \in c.lits PROVE k = n
  <2>1. PICK l \in FileLeaves(f) : l.path[1] = "neals" /\ k = Bind(Tail(l.path), l.value)
    BY DEF collect_neals_literals
  <2>2. l = Bind(<<"neals", "name">>, NixStr(Folder))
    BY <2>1, Zenon DEF OnlyNamed
  <2>3. l.path = <<"neals", "name">> /\ l.value = NixStr(Folder)
    BY <2>2 DEF Bind
  <2>4. Tail(<<"neals", "name">>) = <<"name">>
    OBVIOUS
  <2> QED
    BY <2>1, <2>3, <2>4
<1>2. n.path = <<"name">> /\ n.value.str = Folder
  BY DEF Bind, NixStr
<1> HIDE DEF n, c
<1>3. parse_neals_name(f) \in {NoName, Folder}
  <2> DEFINE names == {l.value.str : l \in {m \in c.lits : m.path = <<"name">> /\ m.value.kind = "str"}}
             valid == {x \in names : is_valid_project_name(x)}
  <2>1. parse_neals_name(f) = IF c.ok /\ valid # {} THEN CHOOSE x \in valid : TRUE ELSE NoName
    BY Zenon DEF parse_neals_name, c
  <2>2. \A x \in valid : x = Folder
    BY <1>1, <1>2, Zenon
  <2> HIDE DEF valid
  <2>3. valid # {} => (CHOOSE x \in valid : TRUE) \in valid
    BY Zenon
  <2> QED
    BY <2>1, <2>2, <2>3
<1>4. resolve_project_name(there, f, Folder).name = Folder
  BY <1>3 DEF resolve_project_name
<1>5. ServicePaths(c.lits) = {} /\ RoutePaths(c.lits) = {}
  <2>1. Len(<<"name">>) = 1
    OBVIOUS
  <2> QED
    BY <2>1, <1>1, <1>2 DEF ServicePaths, RoutePaths
<1>6. parse_neals_services(f).decls = {}
  BY <1>5 DEF parse_neals_services, c
<1>7. read_neals_services(there, f).decls = {}
  BY <1>6 DEF read_neals_services
<1> QED
  BY <1>4, <1>7

\* What a file that is not refused yields, in terms of its leaves.
LEMMA Reading ==
    ASSUME NEW W, Nested(W), NEW f, f.items \in Seq(Bindings(W)),
           collect_neals_literals(f).ok
    PROVE  LET F == FileLeaves(f)
               L == collect_neals_literals(f).lits
           IN  /\ \A k \in L : \E l \in F :
                     /\ IsLiteral(l.value) /\ l.path \in Path /\ l.path[1] = "neals"
                     /\ k.path = Tail(l.path) /\ k.value = l.value
               /\ \A l \in F : l.path \in Path /\ ~Unreadable(l)
               /\ \A l \in F : l.path[1] = "neals" /\ IsLiteral(l.value) =>
                     \E k \in L : k.path = Tail(l.path) /\ k.value = l.value
               /\ \A k, m \in L : k.path = m.path => k = m
<1> DEFINE s == top_level_attrset(f)
           F == FileLeaves(f)
           L == collect_neals_literals(f).lits
<1>1. s \in Seq(Bindings(W))
  BY EmptySeq DEF top_level_attrset
<1> HIDE DEF s
<1>2. /\ ~insert_lit_fails(s) /\ \A l \in F : ~Unreadable(l)
      /\ L = {Bind(Tail(l.path), l.value) :
                 l \in {m \in F : IsLiteral(m.value) /\ m.path # <<>> /\ m.path[1] = "neals"}}
  BY DEF collect_neals_literals, s
<1>3. F \subseteq Bindings(W) /\ Single(F)
  BY <1>1, <1>2, LeavesAre, Zenon DEF FileLeaves, s
<1> HIDE DEF F, L
<1>4. \A l \in F : l.path \in Path
  BY <1>3, BindingIs, Zenon
<1>5. \A l : Bind(Tail(l.path), l.value).path = Tail(l.path) /\ Bind(Tail(l.path), l.value).value = l.value
  BY DEF Bind
<1>6. \A k \in L : \E l \in F : /\ IsLiteral(l.value) /\ l.path \in Path /\ l.path[1] = "neals"
                               /\ k.path = Tail(l.path) /\ k.value = l.value
                               /\ k = Bind(Tail(l.path), l.value)
  BY <1>2, <1>4, <1>5, Zenon
<1>7. \A p \in Path : p # <<>>
  BY DEF Path
<1>8. \A l \in F : l.path[1] = "neals" /\ IsLiteral(l.value) =>
         \E k \in L : k.path = Tail(l.path) /\ k.value = l.value
  BY <1>2, <1>4, <1>5, <1>7, Zenon
<1>9. ASSUME NEW k \in L, NEW m \in L, k.path = m.path PROVE k = m
  <2>1. PICK l \in F : /\ IsLiteral(l.value) /\ l.path \in Path /\ l.path[1] = "neals"
                       /\ k.path = Tail(l.path) /\ k = Bind(Tail(l.path), l.value)
    BY <1>6, Zenon
  <2>2. PICK o \in F : /\ IsLiteral(o.value) /\ o.path \in Path /\ o.path[1] = "neals"
                       /\ m.path = Tail(o.path) /\ m = Bind(Tail(o.path), o.value)
    BY <1>6, Zenon
  <2>3. ASSUME NEW p \in Path, NEW q \in Path, p[1] = q[1], Tail(p) = Tail(q) PROVE p = q
    <3>1. /\ p \in Seq(STRING) /\ q \in Seq(STRING) /\ p # <<>> /\ q # <<>>
      BY DEF Path
    <3>2. /\ Len(Tail(p)) = Len(p) - 1 /\ \A i \in 1..Len(Tail(p)) : Tail(p)[i] = p[i + 1]
          /\ Len(Tail(q)) = Len(q) - 1 /\ \A i \in 1..Len(Tail(q)) : Tail(q)[i] = q[i + 1]
          /\ Len(p) \in Nat \ {0} /\ Len(q) \in Nat \ {0}
      BY <3>1, HeadTailProperties, EmptySeq
    <3>3. Len(p) = Len(q)
      <4>1. Len(Tail(p)) = Len(Tail(q))
        BY <2>3, Zenon
      <4> QED
        BY <4>1, <3>2
    <3>4. ASSUME NEW i \in 1..Len(p) PROVE p[i] = q[i]
      <4>1. CASE i = 1
        BY <4>1, <2>3
      <4>2. CASE i # 1
        <5>1. i - 1 \in 1..Len(Tail(p)) /\ i - 1 \in 1..Len(Tail(q)) /\ (i - 1) + 1 = i
          BY <4>2, <3>2, <3>3
        <5>2. Tail(p)[i - 1] = p[i] /\ Tail(q)[i - 1] = q[i]
          BY <5>1, <3>2
        <5> QED
          BY <5>2, <2>3
      <4> QED
        BY <4>1, <4>2
    <3> QED
      BY <3>1, <3>3, <3>4, SeqEqual
  <2>4. l.path = o.path
    BY <1>9, <2>1, <2>2, <2>3, Zenon
  <2>5. l = o
    BY <1>3, <2>1, <2>2, <2>4, Zenon DEF Single
  <2> QED
    BY <2>1, <2>2, <2>5, Zenon
<1> QED
  BY <1>2, <1>4, <1>6, <1>8, <1>9, Zenon DEF F, L

\* Those of some attributes that declare a service.
Declared(A) ==
    {a \in A : /\ Len(a.path) >= 3 /\ a.path[1] = "neals"
               /\ a.path[2] = "services" \/ (a.path[2] = "route" /\ Len(a.path) = 3)}

\* What ServicesFound says of the attributes A.
FoundAre(A) ==
    LET d == Services.decls IN
    /\ {s.service : s \in d} = {a.path[3] : a \in A}
    /\ \A s, t \in d : s.service = t.service => s = t
    /\ \A s \in d : \A a \in A : a.path[3] = s.service => Carries(s, a)
    /\ \A s \in d :
          /\ is_valid_service_name(s.service)
          /\ IF s.kind = "unix" THEN is_valid_socket_file(s.socket) /\ s.proxy
             ELSE s.port \in 1..MaxPort \/ (s.port = 0 /\ s.proxy)

\* Every service the leaves of a file declare is found once.
LEMMA Finding ==
    ASSUME NEW W, Nested(W), file.items \in Seq(Bindings(W)), there, Services.ok
    PROVE  FoundAre(Declared(FileLeaves(file)))
<1> DEFINE c == collect_neals_literals(file)
           F == FileLeaves(file)
           L == c.lits
           S == ServicePaths(L)
           R == RoutePaths(L)
           D == {l.path[2] : l \in S}
           d == Services.decls
<1>1. Services = parse_neals_services(file)
  BY DEF Services, read_neals_services
<1>2. /\ c.ok
      /\ \A l \in S : FieldOk(l)
      /\ \A s \in D : ~into_decl_fails(Fields(L, s))
      /\ \A l \in R : RouteOk(l) /\ l.path[2] \notin D
      /\ d = {into_decl(Fields(L, s), s) : s \in D} \union {RouteDecl(l) : l \in R}
  BY <1>1 DEF parse_neals_services
<1>3. /\ \A k \in L : \E l \in F :
            /\ IsLiteral(l.value) /\ l.path \in Path /\ l.path[1] = "neals"
            /\ k.path = Tail(l.path) /\ k.value = l.value
      /\ \A l \in F : l.path \in Path /\ ~Unreadable(l)
      /\ \A l \in F : l.path[1] = "neals" /\ IsLiteral(l.value) =>
            \E k \in L : k.path = Tail(l.path) /\ k.value = l.value
      /\ \A k, m \in L : k.path = m.path => k = m
  BY <1>2, Reading, Zenon
<1>4. /\ S = {l \in L : Len(l.path) >= 2 /\ l.path[1] = "services"}
      /\ R = {l \in L : Len(l.path) = 2 /\ l.path[1] = "route"}
      /\ \A s : Fields(L, s) = {l \in S : l.path[2] = s}
  BY DEF ServicePaths, RoutePaths, Fields
<1> DEFINE P == Declared(F)
<1>5. \A l : l \in P <=>
          /\ l \in F /\ Len(l.path) >= 3 /\ l.path[1] = "neals"
          /\ l.path[2] = "services" \/ (l.path[2] = "route" /\ Len(l.path) = 3)
  BY Zenon DEF Declared
<1> HIDE DEF c, F, L, S, d, P
<1>6. \A s, f : into_decl(f, s).service = s
  BY DEF into_decl, TcpDecl, UnixDecl
<1>7. \A l : RouteDecl(l).service = l.path[2]
  BY DEF RouteDecl, TcpDecl, UnixDecl
<1> DEFINE Shifted(p) == /\ Len(Tail(p)) = Len(p) - 1
                         /\ Len(p) >= 2 => Tail(p)[1] = p[2]
                         /\ Len(p) >= 3 => Tail(p)[2] = p[3]
                         /\ Len(p) >= 4 => Tail(p)[3] = p[4]
<1>8. \A p \in Path : Shifted(p) /\ Len(p) \in Nat
  <2> TAKE p \in Path
  <2>1. p \in Seq(STRING) /\ p # <<>>
    BY DEF Path
  <2>2. /\ Len(Tail(p)) = Len(p) - 1 /\ \A i \in 1..Len(Tail(p)) : Tail(p)[i] = p[i + 1]
        /\ Len(p) \in Nat
    BY <2>1, HeadTailProperties, LenProperties
  <2> QED
    BY <2>2
<1>9. {s.service : s \in d} = D \union {l.path[2] : l \in R}
  <2> HIDE DEF D, R
  <2>1. ASSUME NEW s \in d PROVE s.service \in D \union {l.path[2] : l \in R}
    <3>1. \/ \E x \in D : s = into_decl(Fields(L, x), x)
          \/ \E l \in R : s = RouteDecl(l)
      BY <1>2, Zenon
    <3> QED
      BY <3>1, <1>6, <1>7
  <2>2. ASSUME NEW x \in D PROVE \E s \in d : s.service = x
    BY <1>2, <1>6, Zenon
  <2>3. ASSUME NEW l \in R PROVE \E s \in d : s.service = l.path[2]
    BY <1>2, <1>7, Zenon
  <2> QED
    BY <2>1, <2>2, <2>3
<1> HIDE DEF R
<1>16. ASSUME NEW l \in P
       PROVE  \E k \in S \union R :
                 /\ k.value = l.value /\ Len(k.path) = Len(l.path) - 1
                 /\ k.path[1] = l.path[2] /\ k.path[2] = l.path[3]
                 /\ Len(l.path) >= 4 => k.path[3] = l.path[4]
  <2>1. /\ l \in F /\ Len(l.path) >= 3 /\ l.path[1] = "neals"
        /\ l.path[2] = "services" \/ (l.path[2] = "route" /\ Len(l.path) = 3)
    BY <1>5, Zenon
  <2>2. requires_literal(l.path)
    BY <2>1 DEF requires_literal
  <2>3. IsLiteral(l.value)
    BY <2>1, <2>2, <1>3, Zenon DEF Unreadable
  <2>4. PICK k \in L : k.path = Tail(l.path) /\ k.value = l.value
    BY <2>1, <2>3, <1>3, Zenon
  <2>5. Shifted(l.path) /\ Len(l.path) \in Nat
    BY <2>1, <1>3, <1>8, Zenon
  <2>6. /\ Len(k.path) = Len(l.path) - 1 /\ k.path[1] = l.path[2] /\ k.path[2] = l.path[3]
        /\ Len(l.path) >= 4 => k.path[3] = l.path[4]
    <3>1. /\ Len(k.path) = Len(Tail(l.path)) /\ k.path[1] = Tail(l.path)[1]
          /\ k.path[2] = Tail(l.path)[2] /\ k.path[3] = Tail(l.path)[3]
      BY <2>4, Zenon
    <3> QED
      BY <3>1, <2>5, <2>1
  <2>7. k \in S \/ k \in R
    <3>1. Len(k.path) >= 2 /\ (k.path[1] = "services" \/ (k.path[1] = "route" /\ Len(k.path) = 2))
      BY <2>1, <2>5, <2>6
    <3> QED
      BY <2>4, <3>1, <1>4, Zenon
  <2> QED
    BY <2>4, <2>6, <2>7
<1>10. {l.path[3] : l \in P} = D \union {l.path[2] : l \in R}
  <2>1. ASSUME NEW l \in P PROVE l.path[3] \in D \union {m.path[2] : m \in R}
    BY <1>16, Zenon
  <2>2. ASSUME NEW k \in S \union R PROVE \E l \in P : k.path[2] = l.path[3]
    <3>1. /\ k \in L /\ Len(k.path) >= 2
          /\ k.path[1] = "services" \/ (k.path[1] = "route" /\ Len(k.path) = 2)
      BY <2>2, <1>4
    <3>2. PICK l \in F : l.path \in Path /\ l.path[1] = "neals" /\ k.path = Tail(l.path)
      BY <3>1, <1>3, Zenon
    <3>3. Shifted(l.path) /\ Len(l.path) \in Nat
      BY <3>2, <1>8, Zenon
    <3>12. /\ Len(k.path) = Len(Tail(l.path)) /\ k.path[1] = Tail(l.path)[1]
          /\ k.path[2] = Tail(l.path)[2]
      BY <3>2, Zenon
    <3>4. Len(l.path) >= 3 /\ Len(k.path) = Len(l.path) - 1
      BY <3>1, <3>3, <3>12
    <3>5. k.path[1] = l.path[2] /\ k.path[2] = l.path[3]
      BY <3>3, <3>4, <3>12
    <3>6. l.path[2] = "services" \/ (l.path[2] = "route" /\ Len(l.path) = 3)
      BY <3>1, <3>3, <3>4, <3>5
    <3>7. l \in P
      BY <3>2, <3>4, <3>6, <1>5, Zenon
    <3> QED
      BY <3>5, <3>7, Zenon
  <2> QED
    BY <2>1, <2>2, Zenon
<1>11. ASSUME NEW l \in R, NEW m \in R, l.path[2] = m.path[2] PROVE l = m
  <2>1. PICK k \in F : k.path \in Path /\ l.path = Tail(k.path)
    BY <1>3, <1>4, Zenon
  <2>2. PICK o \in F : o.path \in Path /\ m.path = Tail(o.path)
    BY <1>3, <1>4, Zenon
  <2>3. \A p \in Path : Tail(p) \in Seq(STRING)
    BY HeadTailProperties DEF Path
  <2>4. l.path \in Seq(STRING) /\ m.path \in Seq(STRING)
    BY <2>1, <2>2, <2>3, Zenon
  <2>5. /\ Len(l.path) = 2 /\ l.path[1] = "route" /\ Len(m.path) = 2 /\ m.path[1] = "route"
        /\ l \in L /\ m \in L
    BY <1>4
  <2>6. \A i \in 1..2 : l.path[i] = m.path[i]
    BY <2>5, <1>11
  <2>7. l.path = m.path
    BY <2>4, <2>5, <2>6, SeqEqual
  <2> QED
    BY <2>5, <2>7, <1>3, Zenon
<1>12. ASSUME NEW s \in d, NEW t \in d, s.service = t.service PROVE s = t
  <2>1. \/ \E x \in D : s = into_decl(Fields(L, x), x)
        \/ \E l \in R : s = RouteDecl(l)
    BY <1>2, Zenon
  <2>2. \/ \E x \in D : t = into_decl(Fields(L, x), x)
        \/ \E l \in R : t = RouteDecl(l)
    BY <1>2, Zenon
  <2>3. \A l \in R : l.path[2] \notin D
    BY <1>2, Zenon
  <2> HIDE DEF D
  <2>4. CASE s.service \in D
    <3>1. s = into_decl(Fields(L, s.service), s.service)
      BY <2>1, <2>3, <2>4, <1>6, <1>7, Zenon
    <3>2. t = into_decl(Fields(L, s.service), s.service)
      BY <2>2, <2>3, <2>4, <1>6, <1>7, <1>12, ZenonT(40)
    <3> QED
      BY <3>1, <3>2, Zenon
  <2>5. CASE s.service \notin D
    <3>1. PICK l \in R : s = RouteDecl(l)
      BY <2>1, <2>5, <1>6, Zenon
    <3>2. PICK m \in R : t = RouteDecl(m)
      BY <2>2, <2>5, <1>6, <1>12, Zenon
    <3>3. l.path[2] = m.path[2]
      BY <3>1, <3>2, <1>7, <1>12, Zenon
    <3> QED
      BY <3>1, <3>2, <3>3, <1>11, Zenon
  <2> QED
    BY <2>4, <2>5
<1>13. ASSUME NEW x \in D
       PROVE  LET s == into_decl(Fields(L, x), x) IN
              /\ is_valid_service_name(s.service)
              /\ IF s.kind = "unix" THEN is_valid_socket_file(s.socket) /\ s.proxy
                 ELSE s.port \in 1..MaxPort \/ (s.port = 0 /\ s.proxy)
  <2> DEFINE f == Fields(L, x)
  <2>1. \A l \in f : FieldOk(l) /\ l.path[2] = x
    <3>1. f = {l \in S : l.path[2] = x}
      BY <1>4, Zenon
    <3> QED
      BY <3>1, <1>2, Zenon
  <2>2. \E l \in f : l.path[2] = x
    BY <1>4, Zenon
  <2>3. is_valid_service_name(x)
    BY <2>1, <2>2, Zenon DEF FieldOk
  <2>4. ~into_decl_fails(f)
    BY <1>2, Zenon
  <2> HIDE DEF f
  <2>5. CASE Has(f, "socket")
    <3>1. PICK l \in f : l.path[3] = "socket" /\ Field(f, "socket") = l.value
      <4>1. \E l \in f : l.path[3] = "socket"
        BY <2>5, Zenon DEF Has
      <4>2. (CHOOSE l \in f : l.path[3] = "socket") \in f
            /\ (CHOOSE l \in f : l.path[3] = "socket").path[3] = "socket"
        BY <4>1, Zenon
      <4> QED
        BY <4>2, Zenon DEF Field
    <3>2. is_valid_socket_file(l.value.str)
      <4>1. FieldOk(l)
        BY <3>1, <2>1, Zenon
      <4> QED
        BY <4>1, <3>1 DEF FieldOk
    <3>3. into_decl(f, x) = UnixDecl(x, l.value.str)
      BY <2>5, <3>1, Zenon DEF into_decl
    <3> QED
      BY <2>3, <3>2, <3>3 DEF UnixDecl, f
  <2>6. CASE ~Has(f, "socket")
    <3>1. Has(f, "port")
      BY <2>4, <2>6 DEF into_decl_fails, Has
    <3>2. PICK l \in f : l.path[3] = "port" /\ Field(f, "port") = l.value
      <4>1. \E l \in f : l.path[3] = "port"
        BY <3>1, Zenon DEF Has
      <4>2. (CHOOSE l \in f : l.path[3] = "port") \in f
            /\ (CHOOSE l \in f : l.path[3] = "port").path[3] = "port"
        BY <4>1, Zenon
      <4> QED
        BY <4>2, Zenon DEF Field
    <3>3. l.value.int \in 1..MaxPort
      <4>1. FieldOk(l)
        BY <3>2, <2>1, Zenon
      <4> QED
        BY <4>1, <3>2 DEF FieldOk, lit_port
    <3> DEFINE given == Has(f, "proxy") /\ Field(f, "proxy").bool
    <3>4. into_decl(f, x) = TcpDecl(x, l.value.int, given)
      BY <2>6, <3>2, Zenon DEF into_decl
    <3> DEFINE s == into_decl(f, x)
    <3> HIDE DEF given
    <3>5. s.service = x /\ s.kind = "tcp" /\ s.port = l.value.int
      <4>1. \A p, n, y : /\ TcpDecl(p, n, y).service = p
                         /\ TcpDecl(p, n, y).kind = "tcp" /\ TcpDecl(p, n, y).port = n
        BY DEF TcpDecl
      <4> QED
        BY <3>4, <4>1
    <3> HIDE DEF s
    <3>6. s.service = x /\ s.kind # "unix" /\ s.port \in 1..MaxPort
      BY <3>3, <3>5
    <3>7. into_decl(Fields(L, x), x) = s
      BY DEF s, f
    <3> QED
      BY <2>3, <3>6, <3>7, Zenon
  <2> QED
    BY <2>5, <2>6
<1>14. ASSUME NEW l \in R
       PROVE  LET s == RouteDecl(l) IN
              /\ is_valid_service_name(s.service)
              /\ IF s.kind = "unix" THEN is_valid_socket_file(s.socket) /\ s.proxy
                 ELSE s.port \in 1..MaxPort \/ (s.port = 0 /\ s.proxy)
  <2>1. RouteOk(l)
    BY <1>2, Zenon
  <2> QED
    BY <2>1 DEF RouteOk, RouteDecl, TcpDecl, UnixDecl
<1>15. ASSUME NEW s \in d
       PROVE  /\ is_valid_service_name(s.service)
              /\ IF s.kind = "unix" THEN is_valid_socket_file(s.socket) /\ s.proxy
                 ELSE s.port \in 1..MaxPort \/ (s.port = 0 /\ s.proxy)
  <2> HIDE DEF D
  <2> QED
    BY <1>2, <1>13, <1>14, Zenon
<1>17. ASSUME NEW k \in S, NEW l \in Fields(L, k.path[2]), l.path[3] = k.path[3] PROVE l = k
  <2>1. PICK m \in F : m.path \in Path /\ k.path = Tail(m.path)
    BY <1>3, <1>4, Zenon
  <2>2. l \in S /\ l.path[2] = k.path[2]
    BY <1>4
  <2>3. PICK o \in F : o.path \in Path /\ l.path = Tail(o.path)
    BY <2>2, <1>3, <1>4, Zenon
  <2>4. \A p \in Path : Tail(p) \in Seq(STRING)
    BY HeadTailProperties DEF Path
  <2>5. l.path \in Seq(STRING) /\ k.path \in Seq(STRING)
    BY <2>1, <2>3, <2>4, Zenon
  <2>6. Len(l.path) = 3 /\ Len(k.path) = 3
    BY <1>2, <2>2 DEF FieldOk
  <2>7. l \in L /\ k \in L /\ l.path[1] = "services" /\ k.path[1] = "services"
    BY <1>4, <2>2
  <2>8. \A i \in 1..3 : l.path[i] = k.path[i]
    BY <2>2, <2>7, <1>17
  <2>9. l.path = k.path
    BY <2>5, <2>6, <2>8, SeqEqual
  <2> QED
    BY <2>7, <2>9, <1>3, Zenon
<1>18. ASSUME NEW k \in S, NEW s, s = into_decl(Fields(L, k.path[2]), k.path[2])
       PROVE  \/ k.path[3] = "port" /\ s.port = k.value.int
              \/ k.path[3] = "socket" /\ s.socket = k.value.str
              \/ k.path[3] = "proxy" /\ (s.proxy <=> k.value.bool)
  <2> DEFINE x == k.path[2]
             f == Fields(L, x)
  <2>1. k \in f /\ x \in D
    BY <1>4
  <2>2. ~into_decl_fails(f)
    BY <2>1, <1>2, Zenon
  <2>3. k.path[3] \in {"port", "proxy", "socket"}
    BY <1>2 DEF FieldOk
  <2>4. Field(f, k.path[3]) = k.value /\ Has(f, k.path[3])
    <3>1. (CHOOSE l \in f : l.path[3] = k.path[3]) = k
      BY <2>1, <1>17, Zenon
    <3> QED
      BY <3>1, <2>1, Zenon DEF Field, Has
  <2>8. s = into_decl(f, x)
    BY <1>18, Zenon
  <2> HIDE DEF f
  <2>5. CASE k.path[3] = "port"
    <3>1. Has(f, "port") /\ Field(f, "port") = k.value
      BY <2>4, <2>5
    <3>2. ~Has(f, "socket")
      BY <2>2, <3>1, Zenon DEF into_decl_fails
    <3> DEFINE g == Has(f, "proxy") /\ Field(f, "proxy").bool
    <3>3. s = TcpDecl(x, k.value.int, g)
      BY <2>8, <3>1, <3>2, Zenon DEF into_decl
    <3> HIDE DEF g
    <3> QED
      BY <3>3, <2>5 DEF TcpDecl
  <2>6. CASE k.path[3] = "socket"
    <3>1. Has(f, "socket") /\ Field(f, "socket") = k.value
      BY <2>4, <2>6
    <3>2. s = UnixDecl(x, k.value.str)
      BY <2>8, <3>1, Zenon DEF into_decl
    <3> QED
      BY <3>2, <2>6 DEF UnixDecl
  <2>7. CASE k.path[3] = "proxy"
    <3>1. Has(f, "proxy") /\ Field(f, "proxy") = k.value
      BY <2>4, <2>7
    <3>2. CASE Has(f, "socket")
      <4>1. k.value.bool
        BY <2>2, <3>1, <3>2, Zenon DEF into_decl_fails
      <4>2. s = UnixDecl(x, Field(f, "socket").str)
        BY <2>8, <3>2, Zenon DEF into_decl
      <4>3. s.proxy = TRUE
        BY <4>2 DEF UnixDecl
      <4> QED
        BY <4>1, <4>3, <2>7, Zenon
    <3>3. CASE ~Has(f, "socket")
      <4> DEFINE g == Has(f, "proxy") /\ Field(f, "proxy").bool
      <4>1. s = TcpDecl(x, Field(f, "port").int, g)
        BY <2>8, <3>3, Zenon DEF into_decl
      <4>2. g <=> k.value.bool
        BY <3>1, Zenon
      <4> HIDE DEF g
      <4>3. s.proxy = g
        BY <4>1 DEF TcpDecl
      <4> QED
        BY <4>2, <4>3, <2>7, Zenon
    <3> QED
      BY <3>2, <3>3
  <2> QED
    BY <2>3, <2>5, <2>6, <2>7, Zenon
<1>19. ASSUME NEW s \in d, NEW a \in P, a.path[3] = s.service PROVE Carries(s, a)
  <2>1. PICK k \in S \union R :
            /\ k.value = a.value /\ Len(k.path) = Len(a.path) - 1
            /\ k.path[1] = a.path[2] /\ k.path[2] = a.path[3]
            /\ Len(a.path) >= 4 => k.path[3] = a.path[4]
    BY <1>16, Zenon
  <2>2. a \in F /\ a.path \in Path /\ Len(a.path) \in Nat
    BY <1>3, <1>5, <1>8, Zenon
  <2>3. CASE k \in R
    <3>1. RouteDecl(k) \in d /\ RouteDecl(k).service = s.service
      BY <2>1, <2>3, <1>2, <1>7, <1>19, Zenon
    <3>2. s = RouteDecl(k)
      BY <3>1, <1>12, Zenon
    <3>3. a.path[2] = "route"
      BY <2>1, <2>3, <1>4
    <3>4. IF k.value.str = Tcp THEN s.kind = "tcp" ELSE s.socket = k.value.str
      BY <3>2 DEF RouteDecl, TcpDecl, UnixDecl
    <3> QED
      BY <2>1, <3>3, <3>4, Zenon DEF Carries
  <2>4. CASE k \in S
    <3> DEFINE x == k.path[2]
               e == into_decl(Fields(L, x), x)
    <3>1. x \in D /\ x = s.service
      BY <2>1, <2>4, <1>19, Zenon
    <3>2. e \in d /\ e.service = s.service
      BY <3>1, <1>2, <1>6, Zenon
    <3>3. s = e
      BY <3>2, <1>12, Zenon
    <3>4. Len(k.path) = 3 /\ k.path[1] = "services"
      BY <2>4, <1>2, <1>4, Zenon DEF FieldOk
    <3>5. a.path[2] = "services" /\ Len(a.path) = 4
      <4> DEFINE n == Len(a.path)
                 m == Len(k.path)
      <4>1. m = n - 1 /\ m = 3 /\ n \in Nat
        BY <3>4, <2>1, <2>2, Zenon
      <4>2. a.path[2] = "services"
        BY <3>4, <2>1, Zenon
      <4> HIDE DEF n, m
      <4>3. n = 4
        BY <4>1
      <4> QED
        BY <4>2, <4>3 DEF n
    <3>6. k.path[3] = a.path[4]
      BY <3>5, <2>1
    <3>7. \/ a.path[4] = "port" /\ s.port = a.value.int
          \/ a.path[4] = "socket" /\ s.socket = a.value.str
          \/ a.path[4] = "proxy" /\ (s.proxy <=> a.value.bool)
      BY <1>18, <2>1, <2>4, <3>3, <3>6, Zenon
    <3> QED
      BY <3>5, <3>7, Zenon DEF Carries
  <2> QED
    BY <2>1, <2>3, <2>4
<1>20. FoundAre(P)
  BY <1>9, <1>10, <1>12, <1>15, <1>19, Zenon DEF d, FoundAre
<1> QED
  BY <1>20 DEF P, F

\* A name that is in the file is found, unless the file is refused.
LEMMA Misnaming ==
    ASSUME NEW W, Nested(W), file.items \in Seq(Bindings(W))
    PROVE  MisnamedCannotStart
<1> SUFFICES ASSUME there, Services.ok,
                    NEW l \in FileLeaves(file),
                    l.path = <<"neals", "name">>, l.value.kind = "str",
                    is_valid_project_name(l.value.str)
             PROVE  ~Resolved.fallback
  BY Zenon DEF MisnamedCannotStart
<1> DEFINE c == collect_neals_literals(file)
           valid == {n \in {k.value.str : k \in {m \in c.lits : m.path = <<"name">> /\ m.value.kind = "str"}} :
                        is_valid_project_name(n)}
<1>1. c.ok
  BY DEF Services, read_neals_services, parse_neals_services
<1>2. IsLiteral(l.value) /\ l.path[1] = "neals" /\ Tail(l.path) = <<"name">>
  BY DEF IsLiteral
<1>3. PICK k \in c.lits : k.path = Tail(l.path) /\ k.value = l.value
  BY <1>1, <1>2, Reading, Zenon
<1>4. l.value.str \in valid
  BY <1>2, <1>3, Zenon
<1>5. parse_neals_name(file) = CHOOSE n \in valid : TRUE
  BY <1>1, <1>4, Zenon DEF parse_neals_name
<1>6. parse_neals_name(file) \in valid
  BY <1>4, <1>5, Zenon
<1>7. parse_neals_name(file) \in ValidName
  BY <1>6, Zenon DEF is_valid_project_name
<1>8. parse_neals_name(file) # NoName
  BY <1>7, KeyAssumption
<1> QED
  BY <1>8 DEF Resolved, resolve_project_name

-----------------------------------------------------------------------------
(* The user's steps *)

IsFile(f) == f = File(f.top, f.items, f.option)

LEMMA ItemsReplaced ==
    ASSUME NEW f, IsFile(f), NEW s
    PROVE  LET g == [f EXCEPT !.items = s] IN
           IsFile(g) /\ g.items = s /\ g.top = f.top
<1>1. [f EXCEPT !.items = s] = File(f.top, s, f.option)
  BY DEF IsFile, File
<1>2. LET g == File(f.top, s, f.option) IN IsFile(g) /\ g.items = s /\ g.top = f.top
  BY DEF IsFile, File
<1> QED
  BY <1>1, <1>2, Zenon

\* The bindings after one was written another way: the values in them, and that they
\* mean the same.
Same(W, s, t) ==
    /\ \E V : W \subseteq V /\ Nested(V) /\ t \in Seq(Bindings(V))
    /\ Leaves(t) = Leaves(s) /\ (insert_lit_fails(t) <=> insert_lit_fails(s))

LEMMA Wrapping ==
    ASSUME NEW W, Nested(W), NEW s \in Seq(Bindings(W)), NEW i \in DOMAIN s, Len(s[i].path) >= 2
    PROVE  Same(W, s, [s EXCEPT ![i] =
               Bind(<<Head(s[i].path)>>, AttrSet(<<Bind(Tail(s[i].path), s[i].value)>>))])
<1> DEFINE b == s[i]
           p == <<Head(b.path)>>
           q == Tail(b.path)
           c == Bind(q, b.value)
           a == AttrSet(<<c>>)
           e == Bind(p, a)
           V == W \union {a}
           t == [s EXCEPT ![i] = e]
<1>1. b \in Bindings(W) /\ b.path \in Path /\ b.value \in W /\ b = Bind(b.path, b.value)
  BY LenProperties, BindingIs
<1>2. p \in Path /\ q \in Path /\ p \o q = b.path
  <2>1. b.path \in Seq(STRING) /\ Len(b.path) >= 2
    BY <1>1 DEF Path
  <2>2. Head(b.path) \in STRING /\ q \in Seq(STRING) /\ Len(q) = Len(b.path) - 1
        /\ \A k \in 1..Len(q) : q[k] = b.path[k + 1]
    <3>1. b.path # <<>>
      BY <2>1
    <3> QED
      BY <2>1, <3>1, HeadTailProperties
  <2>3. p \in Seq(STRING) /\ p # <<>> /\ q # <<>>
    <3> HIDE DEF q
    <3>1. Len(q) # 0
      BY <2>1, <2>2
    <3>2. q # <<>>
      BY <2>2, <3>1, EmptySeq
    <3> QED
      BY <2>2, <3>2
  <2>4. p \o q = b.path
    BY <2>1
  <2> QED
    BY <2>2, <2>3, <2>4 DEF Path
<1>3. c \in Bindings(W)
  BY <1>1, <1>2, BindIs, Zenon
<1>4. <<c>> \in Seq(Bindings(W))
  BY <1>3
<1>5. Nested(V)
  BY <1>4, Nesting, Zenon
<1>6. W \subseteq V /\ a \in V
  OBVIOUS
<1> HIDE DEF V
<1>7. e \in Bindings(V)
  BY <1>2, <1>6, BindIs, Zenon
<1>8. s \in Seq(Bindings(V))
  BY <1>6, Wider, Zenon
<1>9. Under(e) = Under(b) /\ (Doubles(e) <=> Doubles(b))
  <2> DEFINE g == Bind(p \o q, b.value)
  <2>1. Under(g) = Under(e) /\ (Doubles(g) <=> Doubles(e))
    BY <1>1, <1>2, Grouping, Zenon
  <2> HIDE DEF e
  <2>2. b = g
    BY <1>1, <1>2, Zenon
  <2> QED
    BY <2>1, <2>2
<1> HIDE DEF e
<1>10. t \in Seq(Bindings(V))
  <2>1. i \in 1..Len(s)
    BY LenProperties
  <2> QED
    BY <2>1, <1>7, <1>8, ExceptSeq, Zenon
<1>11. Leaves(t) = Leaves(s) /\ (insert_lit_fails(t) <=> insert_lit_fails(s))
  BY <1>9, LeavesInPlace, Zenon
<1>12. Same(W, s, t)
  BY <1>5, <1>6, <1>10, <1>11, Zenon DEF Same
<1> QED
  BY <1>12 DEF e

LEMMA Unwrapping ==
    ASSUME NEW W, Nested(W), NEW s \in Seq(Bindings(W)), NEW i \in DOMAIN s,
           IsSet(s[i].value), Len(s[i].value.items) = 1
    PROVE  LET inner == s[i].value.items IN
           Same(W, s, [s EXCEPT ![i] = Bind(s[i].path \o inner[1].path, inner[1].value)])
<1> DEFINE b == s[i]
           p == b.path
           inner == b.value.items
           q == inner[1].path
           v == inner[1].value
           e == Bind(p \o q, v)
           t == [s EXCEPT ![i] = e]
<1>1. b \in Bindings(W) /\ p \in Path /\ b.value \in W /\ b = Bind(p, b.value)
  BY LenProperties, BindingIs
<1>2. inner \in Seq(Bindings(W)) /\ b.value = AttrSet(inner)
  BY <1>1, Zenon DEF Nested
<1>3. inner[1] \in Bindings(W) /\ inner = <<inner[1]>>
  BY <1>2
<1>4. q \in Path /\ v \in W /\ inner[1] = Bind(q, v)
  BY <1>3, BindingIs, Zenon
<1>5. b = Bind(p, AttrSet(<<Bind(q, v)>>))
  <2>1. AttrSet(inner) = AttrSet(<<Bind(q, v)>>)
    BY <1>3, <1>4, Zenon
  <2> QED
    BY <2>1, <1>1, <1>2, Zenon
<1>6. Under(e) = Under(b) /\ (Doubles(e) <=> Doubles(b))
  <2> DEFINE g == Bind(p, AttrSet(<<Bind(q, v)>>))
  <2>1. Under(e) = Under(g) /\ (Doubles(e) <=> Doubles(g))
    BY <1>1, <1>4, Grouping, Zenon
  <2> HIDE DEF e, g
  <2>2. b = g
    BY <1>5 DEF g
  <2> QED
    BY <2>1, <2>2
<1>7. e \in Bindings(W)
  BY <1>1, <1>4, PathsJoin, BindIs, Zenon
<1> HIDE DEF e
<1>8. t \in Seq(Bindings(W))
  <2>1. i \in 1..Len(s)
    BY LenProperties
  <2> QED
    BY <2>1, <1>7, ExceptSeq, Zenon
<1>9. Leaves(t) = Leaves(s) /\ (insert_lit_fails(t) <=> insert_lit_fails(s))
  BY <1>6, LeavesInPlace, Zenon
<1>10. Same(W, s, t)
  BY <1>8, <1>9, Zenon DEF Same
<1> QED
  BY <1>10 DEF e

LEMMA Merging ==
    ASSUME NEW W, Nested(W), NEW s \in Seq(Bindings(W)),
           NEW i \in DOMAIN s, NEW j \in DOMAIN s, i < j, s[i].path = s[j].path,
           IsSet(s[i].value), IsSet(s[j].value)
    PROVE  Same(W, s, RemoveAt([s EXCEPT ![i] =
               Bind(s[i].path, AttrSet(s[i].value.items \o s[j].value.items))], j))
<1> DEFINE a == s[i]
           b == s[j]
           x == a.value.items \o b.value.items
           e == Bind(a.path, AttrSet(x))
           V == W \union {AttrSet(x)}
           t == RemoveAt([s EXCEPT ![i] = e], j)
<1>1. a \in Bindings(W) /\ b \in Bindings(W) /\ a.path \in Path
  BY LenProperties, BindingIs
<1>2. /\ x \in Seq(Bindings(W)) /\ Under(e) = Under(a) \union Under(b)
      /\ Doubles(e) <=> Doubles(a) \/ Doubles(b) \/ Cross(Under(a), Under(b))
  BY <1>1, Joining
<1>3. Nested(V)
  BY <1>2, Nesting, Zenon
<1>4. W \subseteq V /\ AttrSet(x) \in V
  OBVIOUS
<1> HIDE DEF V
<1>5. e \in Bindings(V)
  BY <1>1, <1>4, BindIs, Zenon
<1>6. s \in Seq(Bindings(V))
  BY <1>4, Wider, Zenon
<1> HIDE DEF e
<1>7. t \in Seq(Bindings(V)) /\ Leaves(t) = Leaves(s) /\ (insert_lit_fails(t) <=> insert_lit_fails(s))
  BY <1>2, <1>5, <1>6, LeavesJoined
<1>8. Same(W, s, t)
  BY <1>3, <1>4, <1>7, Zenon DEF Same
<1> QED
  BY <1>8 DEF e

\* Regrouping changes neither what is below the file nor whether a path repeats.
LEMMA Regrouping ==
    ASSUME NEW W, Nested(W), file.items \in Seq(Bindings(W)), IsFile(file),
           spoilt \in BOOLEAN, Regroup
    PROVE  /\ IsFile(file') /\ file'.top = file.top /\ Same(W, file.items, file'.items)
           /\ there /\ file.top = "attrset" /\ UNCHANGED <<there, pc, new, written>>
           /\ pc = "idle" /\ spoilt' = spoilt
<1> USE DEF Items
<1>1. \A s : /\ IsFile(Items(s)) /\ Items(s).items = s /\ Items(s).top = file.top
  BY ItemsReplaced, Zenon
<1>2. PICK i \in DOMAIN file.items : Wrap(i) \/ Unwrap(i) \/ \E j \in DOMAIN file.items : Merge(i, j)
  BY Zenon DEF Regroup
<1>3. pc = "idle" /\ UNCHANGED written
  BY Zenon DEF Regroup
<1>4. \A f : Save(f) => /\ file' = f /\ there /\ file.top = "attrset"
                        /\ UNCHANGED <<there, pc, new>> /\ spoilt' = (spoilt \/ pc # "idle")
  BY Zenon DEF Save
<1>5. \E s : Save(Items(s)) /\ Same(W, file.items, s)
  <2>1. CASE Wrap(i)
    BY <2>1, Wrapping, Zenon DEF Wrap
  <2>2. CASE Unwrap(i)
    BY <2>2, Unwrapping, Zenon DEF Unwrap, IsSet
  <2>3. ASSUME NEW j \in DOMAIN file.items, Merge(i, j)
        PROVE  \E s : Save(Items(s)) /\ Same(W, file.items, s)
    BY <2>3, Merging, Zenon DEF Merge, IsSet
  <2> QED
    BY <1>2, <2>1, <2>2, <2>3
<1>6. PICK s : Save(Items(s)) /\ Same(W, file.items, s)
  BY <1>5
<1>7. file' = Items(s) /\ there /\ file.top = "attrset" /\ UNCHANGED <<there, pc, new>>
      /\ spoilt' = (spoilt \/ pc # "idle")
  BY <1>4, <1>6, Zenon
<1>8. IsFile(file') /\ file'.top = file.top /\ Same(W, file.items, file'.items)
  BY <1>1, <1>6, <1>7, Zenon
<1>9. spoilt' = spoilt
  BY <1>3, <1>7
<1> QED
  BY <1>3, <1>7, <1>8, <1>9

-----------------------------------------------------------------------------
(* neals init *)

LEMMA NoConfig ==
    ASSUME NEW W, Nested(W), NEW f, f.items \in Seq(Bindings(W)), ~has_neals_config(f)
    PROVE  OnlyNamed(FileLeaves(f))
<1> DEFINE s == top_level_attrset(f)
<1>1. s \in Seq(Bindings(W)) /\ (s = f.items \/ s = <<>>)
  BY EmptySeq DEF top_level_attrset
<1>2. \A i \in DOMAIN s : ~(IsStatic(s[i].path) /\ s[i].path # <<>> /\ s[i].path[1] = "neals")
  <2>1. s = f.items \/ DOMAIN s = {}
    BY <1>1
  <2> QED
    BY <2>1, Zenon DEF has_neals_config
<1> HIDE DEF s
<1>3. ASSUME NEW l \in Leaves(s), l.path[1] = "neals" PROVE FALSE
  <2>1. PICK i \in DOMAIN s : l \in Under(s[i])
    BY Zenon DEF Leaves
  <2> DEFINE b == s[i]
  <2>2. b \in Bindings(W)
    BY <1>1, LenProperties
  <2>3. l \in Under(b) /\ ~(IsStatic(b.path) /\ b.path # <<>> /\ b.path[1] = "neals")
    BY <2>1, <1>2, Zenon
  <2> HIDE DEF b
  <2>4. b.path \in Path /\ b.value \in W
    BY <2>2, BindingIs, Zenon
  <2>5. IsStatic(b.path)
    BY <2>3, Zenon DEF Under
  <2>6. l.path[1] = b.path[1]
    <3>1. CASE IsSet(b.value)
      <4>1. PICK k \in b.value.leaves : l = Bind(b.path \o k.path, k.value)
        BY <2>3, <2>5, <3>1, Zenon DEF Under
      <4>2. k \in Bindings(W)
        BY <2>4, <3>1, Zenon DEF Nested
      <4>3. k.path \in Path
        BY <4>2, BindingIs, Zenon
      <4>4. ASSUME NEW p \in Path, NEW q \in Path PROVE (p \o q)[1] = p[1]
        <5>1. p \in Seq(STRING) /\ q \in Seq(STRING) /\ p # <<>>
          BY DEF Path
        <5>2. Len(p) \in Nat \ {0} /\ Len(q) \in Nat
          BY <5>1, EmptySeq, LenProperties
        <5>3. 1 \in 1..(Len(p) + Len(q)) /\ 1 <= Len(p)
          BY <5>2
        <5>4. \A m \in 1..(Len(p) + Len(q)) : (p \o q)[m] = IF m <= Len(p) THEN p[m] ELSE q[m - Len(p)]
          BY <5>1, ConcatProperties, Zenon
        <5> QED
          BY <5>3, <5>4, Zenon
      <4>5. l.path = b.path \o k.path
        BY <4>1 DEF Bind
      <4>6. (b.path \o k.path)[1] = b.path[1]
        BY <2>4, <4>3, <4>4, Zenon
      <4>7. l.path[1] = (b.path \o k.path)[1]
        BY <4>5
      <4> QED
        BY <4>6, <4>7, Zenon
    <3>2. CASE ~IsSet(b.value)
      BY <2>3, <2>5, <3>2, Zenon DEF Under
    <3> QED
      BY <3>1, <3>2
  <2>7. b.path # <<>>
    BY <2>4 DEF Path
  <2> QED
    BY <1>3, <2>3, <2>5, <2>6, <2>7, Zenon
<1> QED
  BY <1>3, Zenon DEF OnlyNamed, FileLeaves, s

LEMMA LeastOf ==
    ASSUME NEW n \in Nat, NEW I \in SUBSET (1..n), I # {}
    PROVE  \E x \in I : \A y \in I : x <= y
<1>1. I \subseteq Nat
  OBVIOUS
<1>2. PICK x \in I : \A y \in I : ~(<<y, x>> \in OpToRel(<, Nat))
  BY <1>1, WFMin, NatLessThanWellFounded
<1>3. \A y \in I : ~(y < x)
  BY <1>1, <1>2 DEF OpToRel
<1> QED
  BY <1>1, <1>3

LEMMA ImportsPlace ==
    ASSUME NEW S, NEW f, f.top = "attrset", f.items \in Seq(S)
    PROVE  ImportsAt(f) \in 0..Len(f.items)
<1> DEFINE s == f.items
           I == {i \in 1..Len(s) : s[i].path = <<"imports">>}
<1>1. ImportsAt(f) = IF I # {} THEN Min(I) ELSE 0
  BY DEF ImportsAt, top_level_attrset, SelectInSeq
<1>2. I \in SUBSET (1..Len(s)) /\ Len(s) \in Nat
  BY LenProperties
<1> HIDE DEF I
<1>3. I # {} => Min(I) \in I
  <2> SUFFICES ASSUME I # {} PROVE Min(I) \in I
    OBVIOUS
  <2>1. \E x \in I : \A y \in I : x <= y
    BY <1>2, LeastOf, Zenon
  <2> QED
    BY <2>1, Zenon DEF Min
<1>4. CASE I = {}
  BY <1>1, <1>2, <1>4
<1>5. CASE I # {}
  <2>1. ImportsAt(f) \in I
    BY <1>1, <1>3, <1>5
  <2>2. \A i \in 1..Len(s) : i \in 0..Len(s)
    BY <1>2
  <2> QED
    BY <2>1, <2>2, <1>2, Zenon
<1> QED
  BY <1>4, <1>5

LEMMA JoinOfTwo ==
    ASSUME NEW S, NEW a \in S, NEW b \in S
    PROVE  <<a>> \o <<b>> = <<a, b>>
<1> DEFINE u == <<a>> \o <<b>>
           v == <<a, b>>
<1>1. <<a>> \in Seq(S) /\ <<b>> \in Seq(S)
  OBVIOUS
<1>2. Len(<<a>>) = 1 /\ Len(<<b>>) = 1 /\ <<a>>[1] = a /\ <<b>>[1] = b
  OBVIOUS
<1>3. /\ u \in Seq(S) /\ Len(u) = Len(<<a>>) + Len(<<b>>)
      /\ \A i \in 1..(Len(<<a>>) + Len(<<b>>)) :
            u[i] = IF i <= Len(<<a>>) THEN <<a>>[i] ELSE <<b>>[i - Len(<<a>>)]
  BY <1>1, ConcatProperties, Zenon
<1> HIDE DEF u
<1>4. Len(u) = 2 /\ u[1] = a /\ u[2] = b
  <2>1. Len(u) = 2 /\ 1 \in 1..2 /\ 2 \in 1..2 /\ 1 <= 1 /\ ~(2 <= 1) /\ 2 - 1 = 1 /\ 1 + 1 = 2
    BY <1>2, <1>3
  <2> QED
    BY <2>1, <1>2, <1>3
<1>5. v \in Seq(S) /\ Len(v) = 2 /\ v[1] = a /\ v[2] = b
  OBVIOUS
<1> HIDE DEF v
<1>6. \A i \in 1..Len(u) : u[i] = v[i]
  BY <1>4, <1>5
<1>7. u = v
  BY <1>3, <1>4, <1>5, <1>6, SeqEqual
<1> QED
  BY <1>7 DEF u, v

LEMMA KeyPath ==
    ASSUME NEW k \in Keys
    PROVE  <<k>> \in Path /\ IsStatic(<<k>>)
<1>1. ASSUME NEW S, NEW x \in S PROVE <<x>> \in Seq(S) \ {<<>>}
  OBVIOUS
<1>2. <<k>> \in Path
  BY <1>1, KeyAssumption, Zenon DEF Path
<1>3. ASSUME NEW x PROVE DOMAIN <<x>> = {1} /\ <<x>>[1] = x
  OBVIOUS
<1>4. k # Dynamic
  BY KeyAssumption, Zenon
<1>5. IsStatic(<<k>>)
  BY <1>3, <1>4, Zenon DEF IsStatic
<1> QED
  BY <1>2, <1>5

LEMMA Blocks ==
    ASSUME NEW W, Nested(W), NEW name
    PROVE  \E V : /\ W \subseteq V /\ Nested(V)
                  /\ NealsBlock(name) \in Bindings(V) /\ ImportsBlock \in Bindings(V)
                  /\ name = Folder =>
                       OnlyNamed(Under(NealsBlock(name)) \union Under(ImportsBlock))
<1> DEFINE n == NixStr(name)
           none == AttrSet(<<>>)
           x == Bind(<<"name">>, n)
           y == Bind(<<"services">>, none)
           a == AttrSet(<<x, y>>)
           V0 == (W \union {n}) \union {List}
           V1 == V0 \union {none}
           V2 == V1 \union {a}
<1>1. ~IsSet(n) /\ ~IsSet(List)
  BY DEF NixStr, List, IsSet
<1>2. Nested(V0)
  <2>1. Nested(W \union {n})
    BY <1>1, Adding, Zenon
  <2> QED
    BY <2>1, <1>1, Adding, Zenon
<1>3. <<>> \in Seq(Bindings(V0))
  OBVIOUS
<1>4. Nested(V1)
  BY <1>2, <1>3, Nesting, Zenon
<1>5. \A k \in {"neals", "name", "services", "imports"} : <<k>> \in Path /\ IsStatic(<<k>>)
  BY KeyPath, Zenon DEF Keys
<1>6. x \in Bindings(V1) /\ y \in Bindings(V1)
  BY <1>5, BindIs
<1>7. <<x, y>> \in Seq(Bindings(V1))
  BY <1>6
<1>8. Nested(V2)
  BY <1>4, <1>7, Nesting, Zenon
<1>9. W \subseteq V2 /\ a \in V2 /\ List \in V2
  OBVIOUS
<1>10. NealsBlock(name) = Bind(<<"neals">>, a) /\ ImportsBlock = Bind(<<"imports">>, List)
  BY DEF NealsBlock, ImportsBlock
<1> HIDE DEF V2
<1>11. NealsBlock(name) \in Bindings(V2) /\ ImportsBlock \in Bindings(V2)
  BY <1>5, <1>9, <1>10, BindIs
<1>12. /\ x.path = <<"name">> /\ x.value = n /\ y.path = <<"services">> /\ y.value = none
       /\ Bind(<<"neals">>, a).path = <<"neals">> /\ Bind(<<"neals">>, a).value = a
       /\ Bind(<<"imports">>, List).path = <<"imports">> /\ Bind(<<"imports">>, List).value = List
  BY DEF Bind
<1>13. Leaves(<<>>) = {}
  BY DEF Leaves
<1>14. none.leaves = {} /\ a.leaves = Leaves(<<x, y>>) /\ IsSet(none) /\ IsSet(a)
  BY <1>13, AttrSetIs, Zenon
<1>15. DOMAIN <<x, y>> = {1, 2} /\ <<x, y>>[1] = x /\ <<x, y>>[2] = y
  OBVIOUS
<1> HIDE DEF x, y, a, n, none
<1>16. Under(y) = {}
  BY <1>5, <1>12, <1>14, Zenon DEF Under
<1>17. Under(x) = {x}
  BY <1>1, <1>5, <1>12, Zenon DEF Under
<1>18. Leaves(<<x, y>>) = {x}
  BY <1>15, <1>16, <1>17 DEF Leaves
<1>19. Under(NealsBlock(name)) = {Bind(<<"neals", "name">>, n)}
  <2>1. Under(NealsBlock(name)) = {Bind(<<"neals">> \o l.path, l.value) : l \in {x}}
    BY <1>5, <1>10, <1>12, <1>14, <1>18, Zenon DEF Under
  <2>2. <<"neals">> \o <<"name">> = <<"neals", "name">>
    <3>1. "neals" \in {"neals", "name"} /\ "name" \in {"neals", "name"}
      OBVIOUS
    <3> QED
      BY <3>1, JoinOfTwo, Zenon
  <2> QED
    BY <2>1, <2>2, <1>12
<1>20. Under(ImportsBlock) = {Bind(<<"imports">>, List)}
  BY <1>1, <1>5, <1>10, <1>12, Zenon DEF Under
<1>21. Bind(<<"imports">>, List).path[1] # "neals"
  BY <1>12
<1>22. name = Folder => OnlyNamed(Under(NealsBlock(name)) \union Under(ImportsBlock))
  BY <1>19, <1>20, <1>21 DEF OnlyNamed, n
<1> QED
  BY <1>8, <1>9, <1>11, <1>22, Zenon

\* The text that init is about to write has everything that was in the text it read,
\* and nothing of neals but the name.
LEMMA Injecting ==
    ASSUME NEW W, Nested(W), NEW f, f.items \in Seq(Bindings(W)), ~has_neals_config(f),
           NEW name, inject_neals_stanza(f, name).ok
    PROVE  LET g == inject_neals_stanza(f, name).file IN
           /\ IsFile(g)
           /\ \E V : W \subseteq V /\ Nested(V) /\ g.items \in Seq(Bindings(V))
           /\ FileLeaves(f) \subseteq FileLeaves(g)
           /\ name = Folder => OnlyNamed(FileLeaves(g))
<1> DEFINE s == f.items
           at == ImportsAt(f)
           N == NealsBlock(name)
           I == ImportsBlock
           one == <<N>>
           head == IF f.option THEN <<>> ELSE <<I>>
           t == IF at = 0 THEN head \o one \o s ELSE InsertAt(s, at + 1, N)
           g == inject_neals_stanza(f, name).file
<1>1. f.top = "attrset" /\ g = File("attrset", t, TRUE)
  BY DEF inject_neals_stanza
<1> HIDE DEF g
<1>2. IsFile(g) /\ g.items = t /\ g.top = "attrset"
  BY <1>1 DEF IsFile, File
<1>3. PICK V : /\ W \subseteq V /\ Nested(V) /\ N \in Bindings(V) /\ I \in Bindings(V)
               /\ name = Folder => OnlyNamed(Under(N) \union Under(I))
  BY Blocks
<1>4. s \in Seq(Bindings(V))
  BY <1>3, Wider, Zenon
<1>5. at \in 0..Len(s)
  BY <1>1, <1>4, ImportsPlace
<1> HIDE DEF N, I, at
<1>6. one \in Seq(Bindings(V)) /\ head \in Seq(Bindings(V)) /\ Len(s) \in Nat
  BY <1>3, <1>4
<1>7. Leaves(one) = Under(N) /\ Leaves(head) \subseteq Under(I)
  <2>1. Leaves(<<>>) = {}
    BY DEF Leaves
  <2>2. Leaves(<<N>>) = Under(N) /\ Leaves(<<I>>) = Under(I)
    BY OneBinding, Zenon
  <2> QED
    BY <2>1, <2>2
<1> HIDE DEF one, s
<1>8. /\ t \in Seq(Bindings(V))
      /\ \E X \in SUBSET Under(I) : Leaves(t) = (X \union Under(N)) \union Leaves(s)
  <2>1. CASE at = 0
    <3> HIDE DEF head
    <3>1. t = (head \o one) \o s
      BY <2>1
    <3>2. head \o one \in Seq(Bindings(V)) /\ Leaves(head \o one) = Leaves(head) \union Leaves(one)
      BY <1>6, LeavesOfJoin, ZenonT(40)
    <3> DEFINE x == head \o one
    <3> HIDE DEF x
    <3>3. x \in Seq(Bindings(V)) /\ Leaves(x) = Leaves(head) \union Leaves(one)
      BY <3>2, Zenon DEF x
    <3>12. x \in Seq(Bindings(V))
      BY <3>3, Zenon
    <3>4. x \o s \in Seq(Bindings(V)) /\ Leaves(x \o s) = Leaves(x) \union Leaves(s)
      BY <1>4, <3>12, LeavesOfJoin, ZenonT(40)
    <3>5. t = x \o s
      BY <3>1, Zenon DEF x
    <3> HIDE DEF t
    <3>6. t \in Seq(Bindings(V)) /\ Leaves(t) = (Leaves(head) \union Under(N)) \union Leaves(s)
      BY <1>7, <3>3, <3>4, <3>5, Zenon
    <3> QED
      BY <1>7, <3>6, Zenon
  <2>2. CASE at # 0
    <3> DEFINE p == SubSeq(s, 1, at)
               q == SubSeq(s, at + 1, Len(s))
    <3>1. p \in Seq(Bindings(V)) /\ q \in Seq(Bindings(V))
      BY <1>4, <1>5, <2>2
    <3>2. t = (p \o one) \o q
      <4>1. (at + 1) - 1 = at
        BY <1>5
      <4> QED
        BY <2>2, <4>1 DEF InsertAt, one
    <3>3. p \o q = s
      <4>1. /\ 1 \in 1..(Len(s) + 1) /\ at \in (1 - 1)..Len(s) /\ Len(s) \in at..Len(s)
        BY <1>5, <1>6
      <4>2. p \o q = SubSeq(s, 1, Len(s))
        BY <1>4, <4>1, ConcatAdjacentSubSeq
      <4> QED
        BY <1>4, <4>2, SubSeqFull
    <3> HIDE DEF p, q
    <3>4. Leaves(s) = Leaves(p) \union Leaves(q)
      BY <3>1, <3>3, LeavesOfJoin, ZenonT(40)
    <3> DEFINE x == p \o one
    <3> HIDE DEF x
    <3>5. x \in Seq(Bindings(V)) /\ Leaves(x) = Leaves(p) \union Leaves(one)
      BY <1>6, <3>1, LeavesOfJoin, ZenonT(40) DEF x
    <3>12. x \in Seq(Bindings(V)) /\ q \in Seq(Bindings(V))
      BY <3>1, <3>5, Zenon
    <3>6. x \o q \in Seq(Bindings(V)) /\ Leaves(x \o q) = Leaves(x) \union Leaves(q)
      BY <3>12, LeavesOfJoin, ZenonT(40)
    <3>7. t = x \o q
      BY <3>2, Zenon DEF x
    <3> HIDE DEF t
    <3>8. t \in Seq(Bindings(V))
      BY <3>6, <3>7, Zenon
    <3>9. Leaves(t) = ({} \union Under(N)) \union Leaves(s)
      BY <1>7, <3>4, <3>5, <3>6, <3>7
    <3> QED
      BY <3>8, <3>9
  <2> QED
    BY <2>1, <2>2
<1> HIDE DEF t
<1>9. FileLeaves(f) = Leaves(s) /\ FileLeaves(g) = Leaves(t)
  BY <1>1, <1>2 DEF FileLeaves, top_level_attrset, s
<1>10. OnlyNamed(Leaves(s))
  BY <1>9, NoConfig
<1>11. name = Folder => OnlyNamed(Leaves(t))
  BY <1>3, <1>8, <1>10, Zenon DEF OnlyNamed
<1>12. Leaves(s) \subseteq Leaves(t)
  BY <1>8
<1> QED
  BY <1>2, <1>3, <1>8, <1>9, <1>11, <1>12, Zenon DEF g

-----------------------------------------------------------------------------
(* The inductive invariant *)

Shapes ==
    /\ pc \in {"idle", "read", "named", "opened"} /\ there \in BOOLEAN /\ spoilt \in BOOLEAN
    /\ IsFile(file) /\ IsFile(new)
    /\ ~there => written = <<>>

\* All bindings are made of values that carry what is below them.
Known(W) ==
    /\ Nested(W) /\ Values \subseteq W
    /\ file.items \in Seq(Bindings(W)) /\ new.items \in Seq(Bindings(W))
    /\ written \in Seq(Bindings(W))

\* Between its opening and its writing the file is empty.
Emptied == pc = "opened" => file = Truncated

\* What an init has read declares nothing of neals, and is the file's text.
Copied == pc = "read" => ~has_neals_config(new) /\ (~spoilt => new = file)

\* What it will write names the project after its folder, and has everything the
\* user wrote.
Prepared ==
    pc \in {"named", "opened"} /\ ~spoilt =>
        /\ OnlyNamed(FileLeaves(file)) /\ OnlyNamed(FileLeaves(new))
        /\ Leaves(written) \subseteq FileLeaves(new)

\* The file declares no service that was not written.
Recorded ==
    /\ written \in Seq(Given)
    /\ ~spoilt => Declared(FileLeaves(file)) \subseteq Leaves(written)

IInv ==
    /\ Shapes /\ (\E W : Known(W)) /\ Emptied /\ Copied /\ Prepared /\ Recorded
    /\ UserTextKept

LEMMA NamedOnly ==
    ASSUME NEW A, OnlyNamed(A)
    PROVE  Declared(A) = {}
<1>1. Len(<<"neals", "name">>) = 2
  OBVIOUS
<1>2. Bind(<<"neals", "name">>, NixStr(Folder)).path = <<"neals", "name">>
  BY DEF Bind
<1> QED
  BY <1>1, <1>2 DEF Declared, OnlyNamed

LEMMA DeclaredIn == \A A, B : A \subseteq B => Declared(A) \subseteq Declared(B) /\ Declared(A) \subseteq A
BY Zenon DEF Declared

\* The leaves of a binding that is written at once.
LEMMA UnderGiven ==
    ASSUME NEW b \in Given
    PROVE  /\ Under(b) = {a \in Attributes(b) : IsStatic(a.path) /\ ~IsSet(a.value)}
           /\ \A a \in Attributes(b) : a.path \in Path
<1> DEFINE I == ItemsOf(b.value)
           N(c) == Bind(b.path \o c.path, c.value)
<1>1. b.path \in Path
  BY BindingAssumption, Zenon DEF IsBinding
<1>2. \A c \in I : c.path \in Path /\ ~IsSet(c.value) /\ c = Bind(c.path, c.value)
  BY BindingAssumption, Zenon DEF IsBinding
<1>3. \A c : N(c).path = b.path \o c.path /\ N(c).value = c.value
  BY DEF Bind
<1> HIDE DEF N
<1>4. \A c \in I : N(c).path \in Path /\ (IsStatic(N(c).path) <=> IsStatic(b.path) /\ IsStatic(c.path))
  <2> TAKE c \in I
  <2>1. c.path \in Path /\ N(c).path = b.path \o c.path
    BY <1>2, <1>3, Zenon
  <2>2. b.path \o c.path \in Path /\ (IsStatic(b.path \o c.path) <=> IsStatic(b.path) /\ IsStatic(c.path))
    BY <1>1, <2>1, PathsJoin, Zenon
  <2> QED
    BY <2>1, <2>2, Zenon
<1>5. CASE IsSet(b.value)
  <2>1. b.value.leaves = Leaves(b.value.items) /\ I = ToSet(b.value.items)
    <3>1. b.value = AttrSet(b.value.items)
      BY <1>5, BindingAssumption, Zenon
    <3> QED
      BY <3>1, <1>5, AttrSetIs, Zenon DEF ItemsOf
  <2>2. \A c : c \in b.value.leaves <=> c \in I /\ IsStatic(c.path)
    <3>1. \A c : c \in b.value.leaves
                   <=> \E i \in DOMAIN b.value.items : c \in Under(b.value.items[i])
      BY <2>1, Zenon DEF Leaves
    <3>2. \A c : c \in I <=> \E i \in DOMAIN b.value.items : c = b.value.items[i]
      BY <2>1, Zenon DEF ToSet
    <3>3. \A c \in I : \A a : a \in Under(c) <=> a = c /\ IsStatic(c.path)
      BY <1>2, Zenon DEF Under
    <3>4. ASSUME NEW c \in b.value.leaves PROVE c \in I /\ IsStatic(c.path)
      <4>1. PICK i \in DOMAIN b.value.items : c \in Under(b.value.items[i])
        BY <3>1, Zenon
      <4>2. b.value.items[i] \in I
        BY <3>2, Zenon
      <4> QED
        BY <3>3, <4>1, <4>2, Zenon
    <3>5. ASSUME NEW c \in I, IsStatic(c.path) PROVE c \in b.value.leaves
      <4>1. PICK i \in DOMAIN b.value.items : c = b.value.items[i]
        BY <3>2, Zenon
      <4>2. c \in Under(c)
        BY <3>3, <3>5, Zenon
      <4> QED
        BY <3>1, <4>1, <4>2, Zenon
    <3> QED
      BY <3>4, <3>5, Zenon
  <2>3. \A a : a \in Under(b) <=>
            IsStatic(b.path) /\ \E c \in I : IsStatic(c.path) /\ a = N(c)
    BY <1>5, <2>2, Zenon DEF Under, N
  <2>4. CASE I = {}
    BY <1>1, <1>5, <2>3, <2>4, Zenon DEF Attributes
  <2>5. CASE I # {}
    <3>1. \A a : a \in Attributes(b) <=> \E c \in I : a = N(c)
      BY <2>5, Zenon DEF Attributes, N
    <3>2. \A a \in Attributes(b) : a.path \in Path
      BY <3>1, <1>4, Zenon
    <3>3. ASSUME NEW a \in Under(b)
          PROVE  a \in Attributes(b) /\ IsStatic(a.path) /\ ~IsSet(a.value)
      <4>1. PICK c \in I : IsStatic(b.path) /\ IsStatic(c.path) /\ a = N(c)
        BY <2>3, Zenon
      <4>2. IsStatic(a.path) /\ a.value = c.value
        BY <4>1, <1>3, <1>4, Zenon
      <4> QED
        BY <3>1, <4>1, <4>2, <1>2, Zenon
    <3>4. ASSUME NEW a \in Attributes(b), IsStatic(a.path) PROVE a \in Under(b)
      <4>1. PICK c \in I : a = N(c)
        BY <3>1, Zenon
      <4>2. IsStatic(b.path) /\ IsStatic(c.path)
        BY <3>4, <4>1, <1>4, Zenon
      <4> QED
        BY <2>3, <4>1, <4>2, Zenon
    <3> QED
      BY <3>2, <3>3, <3>4, Zenon
  <2> QED
    BY <2>4, <2>5
<1>6. CASE ~IsSet(b.value)
  <2>1. Attributes(b) = {b}
    BY <1>6, Zenon DEF Attributes, ItemsOf
  <2> QED
    BY <1>1, <1>6, <2>1, Zenon DEF Under
<1> QED
  BY <1>5, <1>6

LEMMA NotedAre ==
    ASSUME written \in Seq(Given)
    PROVE  Noted = Declared(Leaves(written))
<1>1. \A i \in DOMAIN written : written[i] \in Given
  BY LenProperties
<1>2. \A a : a \in Leaves(written) <=> a \in Written /\ IsStatic(a.path) /\ ~IsSet(a.value)
  <2>1. \A a : a \in Written <=> \E i \in DOMAIN written : a \in Attributes(written[i])
    BY Zenon DEF Written, ToSet
  <2>2. \A a : a \in Leaves(written) <=> \E i \in DOMAIN written : a \in Under(written[i])
    BY Zenon DEF Leaves
  <2>3. \A i \in DOMAIN written : \A a :
            a \in Under(written[i])
              <=> a \in Attributes(written[i]) /\ IsStatic(a.path) /\ ~IsSet(a.value)
    <3> TAKE i \in DOMAIN written
    <3>1. Under(written[i]) = {a \in Attributes(written[i]) : IsStatic(a.path) /\ ~IsSet(a.value)}
      BY <1>1, UnderGiven, Zenon
    <3> QED
      BY <3>1, Zenon
  <2> QED
    BY <2>1, <2>2, <2>3, Zenon
<1>3. \A a \in Written : a.path \in Path
  BY <1>1, UnderGiven, Zenon DEF Written, ToSet
<1>4. \A p \in Path : Len(p) \in Nat
  BY LenProperties DEF Path
<1>5. \A a \in Written : Len(a.path) \in Nat
  BY <1>3, <1>4, Zenon
<1>6. ASSUME NEW a \in Written
      PROVE  a \in Noted <=> a \in Declared(Leaves(written))
  <2>1. Len(a.path) \in Nat /\ (a \in Leaves(written) <=> IsStatic(a.path) /\ ~IsSet(a.value))
    BY <1>2, <1>5, Zenon
  <2>2. a \in Noted <=> /\ Len(a.path) >= 3 /\ a.path[1] = "neals"
                        /\ a.path[2] \in {"services", "route"}
                        /\ IsStatic(a.path) /\ ~IsSet(a.value)
                        /\ ~(a.path[2] = "route" /\ Len(a.path) > 3)
    BY Zenon DEF Noted, Mentions, Overlooked
  <2>3. a \in Declared(Leaves(written)) <=>
            /\ a \in Leaves(written) /\ Len(a.path) >= 3 /\ a.path[1] = "neals"
            /\ a.path[2] = "services" \/ (a.path[2] = "route" /\ Len(a.path) = 3)
    BY Zenon DEF Declared
  <2> DEFINE n == Len(a.path)
  <2>4. n \in Nat
    BY <2>1
  <2> HIDE DEF n
  <2>5. n >= 3 /\ ~(n > 3) <=> n = 3
    BY <2>4
  <2>6. (n = 3 => n >= 3) /\ "services" # "route"
    BY <2>4
  <2> QED
    BY <2>1, <2>2, <2>3, <2>5, <2>6, Zenon DEF n
<1>7. Noted \subseteq Written /\ Declared(Leaves(written)) \subseteq Written
  BY <1>2, Zenon DEF Noted, Mentions, Declared
<1> QED
  BY <1>6, <1>7, Zenon

LEMMA Empty ==
    /\ Leaves(<<>>) = {} /\ FileLeaves(Truncated) = {} /\ OnlyNamed({})
    /\ IsFile(Truncated) /\ \A W : Truncated.items \in Seq(Bindings(W))
<1>1. Leaves(<<>>) = {}
  BY DEF Leaves
<1>2. Truncated.top = "other" /\ Truncated.items = <<>> /\ IsFile(Truncated)
  BY DEF Truncated, File, IsFile
<1>3. \A S : <<>> \in Seq(S)
  OBVIOUS
<1>4. FileLeaves(Truncated) = {}
  BY <1>1, <1>2 DEF FileLeaves, top_level_attrset
<1>5. OnlyNamed({})
  BY DEF OnlyNamed
<1> QED
  BY <1>1, <1>2, <1>3, <1>4, <1>5

LEMMA FileIsNoted ==
    ASSUME IInv, ~spoilt
    PROVE  Declared(FileLeaves(file)) = Noted
<1> DEFINE P == Leaves(written)
           F == FileLeaves(file)
<1>1. Noted = Declared(P)
  BY NotedAre, Zenon DEF IInv, Recorded
<1>2. Declared(F) \subseteq P
  BY Zenon DEF IInv, Recorded
<1>3. CASE pc # "opened"
  <2>1. P \subseteq F
    BY <1>3, Zenon DEF IInv, UserTextKept
  <2>2. Declared(F) \subseteq Declared(P)
    BY <1>2, Zenon DEF Declared
  <2> QED
    BY <1>1, <2>1, <2>2, DeclaredIn, Zenon
<1>4. CASE pc = "opened"
  <2>1. F = {}
    BY <1>4, Empty, Zenon DEF IInv, Emptied
  <2>2. P \subseteq FileLeaves(new) /\ OnlyNamed(FileLeaves(new))
    BY <1>4 DEF IInv, Prepared
  <2>3. Declared(P) = {}
    BY <2>2, NamedOnly, DeclaredIn, Zenon
  <2> QED
    BY <1>1, <2>1, <2>3, Empty, NamedOnly, Zenon
<1> QED
  BY <1>3, <1>4

LEMMA Appending ==
    ASSUME NEW S, NEW s \in Seq(S), NEW b \in S
    PROVE  Append(s, b) \in Seq(S) /\ Append(s, b) # s
           /\ Leaves(Append(s, b)) = Leaves(s) \union Under(b)
<1> DEFINE one == <<b>>
           t == Append(s, b)
<1>1. t = s \o one /\ one \in Seq(S) /\ t \in Seq(S) /\ t # s
  <2>1. t \in Seq(S) /\ Len(t) = Len(s) + 1 /\ Len(s) \in Nat
    BY AppendProperties
  <2>2. t = s \o one
    BY AppendIsConcat
  <2> QED
    BY <2>1, <2>2
<1>2. Leaves(one) = Under(b)
  BY OneBinding, Zenon
<1> HIDE DEF one, t
<1>3. Leaves(s \o one) = Leaves(s) \union Leaves(one)
  BY <1>1, LeavesOfJoin, ZenonT(40)
<1>4. t \in Seq(S) /\ t # s /\ Leaves(t) = Leaves(s) \union Under(b)
  BY <1>1, <1>2, <1>3
<1> QED
  BY <1>4 DEF t

LEMMA Starting == Init => IInv
<1> SUFFICES ASSUME Init PROVE IInv
  OBVIOUS
<1>1. there \in BOOLEAN /\ pc = "idle" /\ new = Truncated /\ written = <<>> /\ spoilt = FALSE
  BY DEF Init
<1>2. file.items = <<>> /\ IsFile(file)
  <2>1. CASE there
    <3>1. PICK t, o : file = File(t, <<>>, o)
      BY <2>1 DEF Init
    <3> QED
      BY <3>1 DEF File, IsFile
  <2>2. CASE ~there
    BY <2>2 DEF Init, Truncated, File, IsFile
  <2> QED
    BY <2>1, <2>2
<1>3. Known(Values)
  <2>1. \A S : <<>> \in Seq(S)
    OBVIOUS
  <2> QED
    BY <2>1, <1>1, <1>2, GivenIs, Empty, Zenon DEF Known
<1>4. Shapes
  BY <1>1, <1>2, Empty DEF Shapes
<1>5. Emptied /\ Copied /\ Prepared /\ UserTextKept
  BY <1>1, Empty DEF Emptied, Copied, Prepared, UserTextKept
<1>6. Recorded
  <2>1. FileLeaves(file) = {}
    BY <1>2, Empty DEF FileLeaves, top_level_attrset
  <2>2. <<>> \in Seq(Given)
    OBVIOUS
  <2> QED
    BY <1>1, <2>1, <2>2, Empty, NamedOnly DEF Recorded
<1> QED
  BY <1>3, <1>4, <1>5, <1>6, Zenon DEF IInv

LEMMA Adds ==
    ASSUME IInv, NEW b \in UserBindings, UserWrites(b)
    PROVE  IInv' /\ written' # written
<1>1. /\ file' = Items(Append(file.items, b)) /\ written' = Append(written, b)
      /\ there /\ file.top = "attrset" /\ pc # "opened" /\ spoilt' = (spoilt \/ pc # "idle")
      /\ there' = there /\ pc' = pc /\ new' = new
  BY DEF UserWrites, Save
<1>2. PICK W : Known(W)
  BY Zenon DEF IInv
<1>3. b \in Bindings(W)
  <2>1. b \in Bindings(Values)
    BY GivenIs DEF Given
  <2> QED
    BY <2>1, <1>2, Wider, Zenon DEF Known
<1> DEFINE s == file.items
<1>12. s \in Seq(Bindings(W)) /\ written \in Seq(Bindings(W))
  BY <1>2, Zenon DEF Known
<1> HIDE DEF s
<1>13. /\ Append(s, b) \in Seq(Bindings(W)) /\ Leaves(Append(s, b)) = Leaves(s) \union Under(b)
      /\ Append(written, b) \in Seq(Bindings(W)) /\ Append(written, b) # written
      /\ Leaves(Append(written, b)) = Leaves(written) \union Under(b)
  BY <1>12, <1>3, Appending
<1>4. /\ Append(file.items, b) \in Seq(Bindings(W))
      /\ Leaves(Append(file.items, b)) = Leaves(file.items) \union Under(b)
  BY <1>13, Zenon DEF s
<1>5. /\ Append(written, b) \in Seq(Bindings(W)) /\ Append(written, b) # written
      /\ Leaves(Append(written, b)) = Leaves(written) \union Under(b)
  BY <1>13, Zenon
<1>6. IsFile(file') /\ file'.items = Append(file.items, b) /\ file'.top = file.top
  BY <1>1, ItemsReplaced, Zenon DEF Items, IInv, Shapes
<1>7. Known(W)'
  BY <1>1, <1>2, <1>4, <1>5, <1>6, Zenon DEF Known
<1>8. Shapes'
  BY <1>1, <1>6 DEF IInv, Shapes
<1>9. Emptied' /\ Copied' /\ Prepared'
  BY <1>1 DEF IInv, Shapes, Emptied, Copied, Prepared
<1>10. FileLeaves(file) = Leaves(file.items) /\ FileLeaves(file') = Leaves(file'.items)
  BY <1>1, <1>6 DEF FileLeaves, top_level_attrset
<1>11. UserTextKept'
  BY <1>1, <1>4, <1>5, <1>6, <1>10 DEF IInv, UserTextKept
<1>14. Recorded'
  <2>1. Append(written, b) \in Seq(Given)
    BY AppendProperties DEF IInv, Recorded, Given
  <2>2. FileLeaves(file') = FileLeaves(file) \union Under(b)
        /\ Leaves(written') = Leaves(written) \union Under(b)
    BY <1>1, <1>4, <1>5, <1>6, <1>10
  <2>3. Declared(FileLeaves(file')) \subseteq Declared(FileLeaves(file)) \union Under(b)
    BY <2>2, Zenon DEF Declared
  <2>4. ~spoilt' => ~spoilt
    BY <1>1 DEF IInv, Shapes
  <2> QED
    BY <1>1, <2>1, <2>2, <2>3, <2>4 DEF IInv, Recorded
<1> QED
  BY <1>1, <1>5, <1>7, <1>8, <1>9, <1>11, <1>14, Zenon DEF IInv

LEMMA Regroups ==
    ASSUME IInv, Regroup
    PROVE  IInv' /\ UNCHANGED <<there, pc, written>>
           /\ FileLeaves(file') = FileLeaves(file)
           /\ (insert_lit_fails(top_level_attrset(file'))
                  <=> insert_lit_fails(top_level_attrset(file)))
<1>1. PICK W : Known(W)
  BY Zenon DEF IInv
<1>2. Nested(W) /\ file.items \in Seq(Bindings(W)) /\ IsFile(file) /\ spoilt \in BOOLEAN
  BY <1>1, Zenon DEF Known, IInv, Shapes
<1>3. /\ IsFile(file') /\ file'.top = file.top /\ Same(W, file.items, file'.items)
      /\ there /\ file.top = "attrset" /\ UNCHANGED <<there, pc, new, written>>
      /\ pc = "idle" /\ spoilt' = spoilt
  BY <1>2, Regrouping, Zenon
<1>4. PICK V : W \subseteq V /\ Nested(V) /\ file'.items \in Seq(Bindings(V))
  BY <1>3, Zenon DEF Same
<1>5. Seq(Bindings(W)) \subseteq Seq(Bindings(V))
  BY <1>4, Wider, Zenon
<1>6. Known(V)'
  <2>1. Values \subseteq V /\ new.items \in Seq(Bindings(V)) /\ written \in Seq(Bindings(V))
    BY <1>1, <1>4, <1>5, Zenon DEF Known
  <2> QED
    BY <2>1, <1>3, <1>4 DEF Known
<1>7. top_level_attrset(file) = file.items /\ top_level_attrset(file') = file'.items
  BY <1>3 DEF top_level_attrset
<1>8. /\ FileLeaves(file') = FileLeaves(file)
      /\ insert_lit_fails(top_level_attrset(file')) <=> insert_lit_fails(top_level_attrset(file))
  BY <1>3, <1>7, Zenon DEF FileLeaves, Same
<1>9. Shapes' /\ Emptied' /\ Copied' /\ Prepared' /\ Recorded' /\ UserTextKept'
  BY <1>3, <1>8 DEF IInv, Shapes, Emptied, Copied, Prepared, Recorded, UserTextKept
<1> QED
  BY <1>3, <1>6, <1>8, <1>9, Zenon DEF IInv

LEMMA Creates ==
    ASSUME IInv, DevenvInit
    PROVE  IInv' /\ there' # there /\ pc' = pc
<1>1. /\ pc = "idle" /\ there = FALSE /\ there' = TRUE /\ file' = Template
      /\ written' = top_level_attrset(Template) /\ UNCHANGED <<pc, new, spoilt>>
  BY DEF DevenvInit, IInv, Shapes
<1>2. PICK W : Known(W)
  BY Zenon DEF IInv
<1>3. Template.items \in Seq(Bindings(W))
  BY <1>2, GivenIs, Wider, Zenon DEF Known
<1>8. /\ top_level_attrset(Template) \in Seq(Bindings(W))
      /\ top_level_attrset(Template) \in Seq(Given)
  BY <1>3, BindingAssumption, EmptySeq DEF top_level_attrset
<1>4. Known(W)'
  BY <1>1, <1>2, <1>3, <1>8 DEF Known
<1>5. IsFile(Template)
  BY BindingAssumption, Zenon DEF IsFile
<1>6. Leaves(written') = FileLeaves(file')
  BY <1>1, Zenon DEF FileLeaves
<1>7. Shapes' /\ Emptied' /\ Copied' /\ Prepared' /\ UserTextKept'
  BY <1>1, <1>5, <1>6 DEF IInv, Shapes, Emptied, Copied, Prepared, UserTextKept
<1>9. Recorded'
  BY <1>1, <1>6, <1>8, DeclaredIn DEF Recorded
<1> QED
  BY <1>1, <1>4, <1>7, <1>9, Zenon DEF IInv

LEMMA Reads ==
    ASSUME IInv, InitReads
    PROVE  IInv' /\ pc' # pc /\ file' = file
<1>1. /\ pc = "idle" /\ there /\ ~has_neals_config(file)
      /\ pc' = "read" /\ new' = file
      /\ UNCHANGED <<there, file, written, spoilt>>
  BY DEF InitReads
<1>2. PICK W : Known(W)
  BY Zenon DEF IInv
<1>3. Known(W)'
  BY <1>1, <1>2 DEF Known
<1>4. Copied'
  BY <1>1, Zenon DEF Copied
<1>5. Shapes' /\ Emptied' /\ Copied' /\ Prepared' /\ Recorded' /\ UserTextKept'
  BY <1>1 DEF IInv, Shapes, Emptied, Copied, Prepared, Recorded, UserTextKept
<1> QED
  BY <1>1, <1>3, <1>4, <1>5, Zenon DEF IInv

LEMMA Names ==
    ASSUME IInv, InitNames
    PROVE  IInv' /\ pc' # pc /\ file' = file
<1> DEFINE name == Resolved.name
<1>1. /\ pc = "read" /\ inject_neals_stanza(new, name).ok
      /\ pc' = "named" /\ new' = inject_neals_stanza(new, name).file
      /\ UNCHANGED <<there, file, written, spoilt>>
  BY DEF InitNames
<1> HIDE DEF name
<1>2. PICK W : Known(W)
  BY Zenon DEF IInv
<1>3. Nested(W) /\ new.items \in Seq(Bindings(W))
  BY <1>2, Zenon DEF Known
<1>4. ~has_neals_config(new) /\ (~spoilt => new = file)
  BY <1>1 DEF IInv, Copied
<1>5. OnlyNamed(FileLeaves(new))
  BY <1>3, <1>4, NoConfig, Zenon
<1>6. ~spoilt => name = Folder
  BY <1>4, <1>5, NamedReading, Zenon DEF Resolved, name
<1>7. /\ IsFile(new')
      /\ \E V : W \subseteq V /\ Nested(V) /\ new'.items \in Seq(Bindings(V))
      /\ FileLeaves(new) \subseteq FileLeaves(new')
      /\ name = Folder => OnlyNamed(FileLeaves(new'))
  BY <1>1, <1>3, <1>4, Injecting
<1>8. PICK V : W \subseteq V /\ Nested(V) /\ new'.items \in Seq(Bindings(V))
  BY <1>7
<1>9. Seq(Bindings(W)) \subseteq Seq(Bindings(V))
  BY <1>8, Wider, Zenon
<1>10. Known(V)'
  <2>1. Values \subseteq V /\ file.items \in Seq(Bindings(V)) /\ written \in Seq(Bindings(V))
    BY <1>2, <1>8, <1>9, Zenon DEF Known
  <2> QED
    BY <2>1, <1>1, <1>8 DEF Known
<1>11. Shapes' /\ Emptied' /\ Copied' /\ Recorded' /\ UserTextKept'
  BY <1>1, <1>7 DEF IInv, Shapes, Emptied, Copied, Recorded, UserTextKept
<1>12. Prepared'
  <2>1. ~spoilt => Leaves(written) \subseteq FileLeaves(file)
    BY <1>1 DEF IInv, UserTextKept
  <2> QED
    BY <2>1, <1>1, <1>4, <1>5, <1>6, <1>7 DEF Prepared
<1> QED
  BY <1>1, <1>10, <1>11, <1>12, Zenon DEF IInv

LEMMA Opens ==
    ASSUME IInv, InitOpens
    PROVE  IInv' /\ pc' # pc
           /\ (~spoilt' => OnlyNamed(FileLeaves(file)) /\ OnlyNamed(FileLeaves(file')))
<1>1. pc = "named" /\ pc' = "opened" /\ file' = Truncated /\ UNCHANGED <<there, new, written, spoilt>>
  BY DEF InitOpens
<1>2. PICK W : Known(W)
  BY Zenon DEF IInv
<1>3. Known(W)'
  BY <1>1, <1>2, Empty DEF Known
<1>4. Shapes' /\ Emptied' /\ Copied' /\ UserTextKept'
  BY <1>1, Empty DEF IInv, Shapes, Emptied, Copied, UserTextKept
<1>5. OnlyNamed(FileLeaves(file'))
  BY <1>1, Empty
<1>6. ~spoilt => OnlyNamed(FileLeaves(file)) /\ OnlyNamed(FileLeaves(new))
                 /\ Leaves(written) \subseteq FileLeaves(new)
  BY <1>1 DEF IInv, Prepared
<1>7. Prepared'
  BY <1>1, <1>5, <1>6 DEF Prepared
<1>8. Recorded'
  <2>1. Declared(FileLeaves(file')) = {}
    BY <1>5, NamedOnly, Zenon
  <2> QED
    BY <1>1, <2>1 DEF IInv, Recorded
<1> QED
  BY <1>1, <1>3, <1>4, <1>5, <1>6, <1>7, <1>8, Zenon DEF IInv

LEMMA Writes ==
    ASSUME IInv, InitWrites
    PROVE  IInv' /\ pc' # pc
           /\ (~spoilt' => OnlyNamed(FileLeaves(file)) /\ OnlyNamed(FileLeaves(file')))
<1>1. /\ pc = "opened" /\ pc' = "idle" /\ file' = new /\ new' = Truncated
      /\ UNCHANGED <<there, written, spoilt>>
  BY DEF InitWrites
<1>2. PICK W : Known(W)
  BY Zenon DEF IInv
<1>3. Known(W)'
  BY <1>1, <1>2, Empty DEF Known
<1>4. ~spoilt => OnlyNamed(FileLeaves(file)) /\ OnlyNamed(FileLeaves(new))
                 /\ Leaves(written) \subseteq FileLeaves(new)
  BY <1>1 DEF IInv, Prepared
<1>5. Shapes' /\ Emptied' /\ Copied' /\ Prepared' /\ UserTextKept'
  BY <1>1, <1>4, Empty DEF IInv, Shapes, Emptied, Copied, Prepared, UserTextKept
<1>6. Recorded'
  <2>1. ~spoilt => Declared(FileLeaves(new)) = {}
    BY <1>4, NamedOnly, Zenon
  <2> QED
    BY <1>1, <2>1 DEF IInv, Recorded
<1> QED
  BY <1>1, <1>3, <1>4, <1>5, <1>6, Zenon DEF IInv

LEMMA Dies ==
    ASSUME IInv, InitDies
    PROVE  IInv' /\ pc' # pc /\ file' = file
<1>1. /\ pc # "idle" /\ pc' = "idle" /\ new' = Truncated /\ spoilt' = (spoilt \/ pc = "opened")
      /\ UNCHANGED <<there, file, written>>
  BY DEF InitDies
<1>2. PICK W : Known(W)
  BY Zenon DEF IInv
<1>3. Known(W)'
  BY <1>1, <1>2, Empty DEF Known
<1>4. Shapes' /\ Emptied' /\ Copied' /\ Prepared' /\ UserTextKept'
  BY <1>1, Empty DEF IInv, Shapes, Emptied, Copied, Prepared, UserTextKept
<1>5. Recorded'
  BY <1>1 DEF IInv, Shapes, Recorded
<1> QED
  BY <1>1, <1>3, <1>4, <1>5, Zenon DEF IInv

LEMMA Stepping == IInv /\ [Next]_vars => IInv'
<1> SUFFICES ASSUME IInv, [Next]_vars PROVE IInv'
  OBVIOUS
<1>1. CASE UNCHANGED vars
  BY <1>1 DEF vars, IInv, Shapes, Known, Emptied, Copied, Prepared, Recorded, UserTextKept
<1>2. CASE Next
  BY <1>2, Adds, Regroups, Creates, Reads, Names, Opens, Writes, Dies, Zenon DEF Next, InitStep
<1> QED
  BY <1>1, <1>2

\* In every behaviour the bindings are made of values that carry what is below them,
\* and what an init will write has all that the user wrote (init_in).
THEOREM Invariance == Spec => []IInv
<1> QED
  BY Starting, Stepping, PTL DEF Spec

\* The services read from a file that is not refused are those that attributes were
\* written for, each once, well formed and with what was written, however the file
\* was regrouped and whatever init did to it: no other attribute is dropped than
\* those Overlooked names (walk_attrset, parse_neals_services).
THEOREM ServicesAlwaysFound == Spec => []ServicesFound
<1>1. IInv => ServicesFound
  <2> SUFFICES ASSUME IInv, there, ~spoilt, Services.ok PROVE FoundAre(Noted)
    BY Zenon DEF ServicesFound, FoundAre
  <2>1. FoundAre(Declared(FileLeaves(file)))
    BY Finding, Zenon DEF IInv, Known
  <2> QED
    BY <2>1, FileIsNoted, Zenon
<1> QED
  BY <1>1, Invariance, PTL

\* A project that a mistake in its file makes neals call by its folder cannot be
\* started before the mistake is gone (resolve_project_name, read_neals_services).
THEOREM MisnamedNeverStarts == Spec => []MisnamedCannotStart
<1>1. IInv => MisnamedCannotStart
  BY Misnaming, Zenon DEF IInv, Known
<1> QED
  BY <1>1, Invariance, PTL

\* Nothing the user wrote is lost, unless an init died between opening and writing or
\* overwrote what was saved after it had read (inject_neals_stanza, init_in).
THEOREM UserTextSafe == Spec => []UserTextKept
<1>1. IInv => UserTextKept
  BY Zenon DEF IInv
<1> QED
  BY <1>1, Invariance, PTL

\* The same attributes written another way mean the same, however they are nested
\* (walk_attrset).
THEOREM RegroupingAlwaysNeutral == Spec => RegroupingIsNeutral
<1> DEFINE Kept == \A f \in {file'} :
                      /\ resolve_project_name(there, f, Folder) = Resolved
                      /\ read_neals_services(there, f) = Services
<1>1. IInv /\ [Next]_vars => (UNCHANGED <<there, pc, written>> => Kept)
  <2> SUFFICES ASSUME IInv, [Next]_vars, UNCHANGED <<there, pc, written>>
               PROVE  /\ resolve_project_name(there, file', Folder) = Resolved
                      /\ read_neals_services(there, file') = Services
    BY Zenon
  <2>1. CASE Regroup
    BY <2>1, Regroups, SameReading, Zenon DEF Resolved, Services
  <2>2. CASE UNCHANGED vars
    BY <2>2 DEF vars, Resolved, Services
  <2>3. ~(\E b \in UserBindings : UserWrites(b)) /\ ~DevenvInit
    BY Adds, Creates
  <2>4. ~InitStep /\ ~InitDies
    BY Reads, Names, Opens, Writes, Dies DEF InitStep
  <2> QED
    BY <2>1, <2>2, <2>3, <2>4, Zenon DEF Next
<1>2. [][UNCHANGED <<there, pc, written>> => Kept]_vars <=> RegroupingIsNeutral
  BY Zenon DEF RegroupingIsNeutral
<1> QED
  BY <1>1, <1>2, Invariance, PTL DEF Spec

\* No step of neals init changes the name of a project or its services, unless the
\* user's changes were overwritten (init_in).
THEOREM InitAlwaysNeutral == Spec => InitIsNeutral
<1> DEFINE Kept == \A f \in {file'} :
                      /\ resolve_project_name(there, f, Folder).name = Resolved.name
                      /\ read_neals_services(there, f).decls = Services.decls
<1>1. IInv /\ [Next]_vars => (pc' # pc /\ ~spoilt' => Kept)
  <2> SUFFICES ASSUME IInv, [Next]_vars, pc' # pc, ~spoilt'
               PROVE  /\ resolve_project_name(there, file', Folder).name = Resolved.name
                      /\ read_neals_services(there, file').decls = Services.decls
    BY Zenon
  <2>1. CASE InitReads \/ InitNames \/ InitDies
    BY <2>1, Reads, Names, Dies DEF Resolved, Services
  <2>2. CASE InitOpens \/ InitWrites
    BY <2>2, Opens, Writes, NamedReading, Zenon DEF Resolved, Services
  <2>3. ~UNCHANGED vars
    BY DEF vars
  <2>4. ~(\E b \in UserBindings : UserWrites(b)) /\ ~Regroup /\ ~DevenvInit
    BY Regroups, Creates DEF UserWrites, Save
  <2> QED
    BY <2>1, <2>2, <2>3, <2>4, Zenon DEF Next, InitStep
<1>2. [][pc' # pc /\ ~spoilt' => Kept]_vars <=> InitIsNeutral
  BY Zenon DEF InitIsNeutral
<1> QED
  BY <1>1, <1>2, Invariance, PTL DEF Spec
=============================================================================
