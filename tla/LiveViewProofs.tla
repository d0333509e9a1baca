----------------------------- MODULE LiveViewProofs -----------------------------
(***************************************************************************)
(* Proofs about LiveView.tla, for every alphabet of lines and every limit. *)
(* That no line is lost is not inductive: a line may be dropped because    *)
(* the other log waits for its echo, and what pays for it is that every    *)
(* waiting line was shown once more than its log has it read.              *)
(***************************************************************************)
EXTENDS LiveView, SequenceTheorems, TLAPS

\* A line that waits on one side was shown, and not yet read, on the other.
Owed ==
    \A l \in Line :
        /\ shown[l] >= processRead[l] + IF l \in fromMerged.set THEN 1 ELSE 0
        /\ shown[l] >= mergedRead[l] + IF l \in fromProcess.set THEN 1 ELSE 0

IInv == TypeOK /\ RecentsAgree /\ OneSideWaits /\ Owed

\* A state RecentLines can be in.
Sound(recent) == recent \in Recents /\ Len(recent.order) <= Cap /\ Agrees(recent)

-----------------------------------------------------------------------------
\* No element occurs twice.
Distinct(s) == \A i, j \in 1..Len(s) : s[i] = s[j] => i = j

Elements(s) == {s[i] : i \in 1..Len(s)}

(* RemoveAt moves the elements behind the place one forward. *)
LEMMA RemoveAtElements ==
    ASSUME NEW S, NEW s \in Seq(S), NEW k \in 1..Len(s)
    PROVE  /\ RemoveAt(s, k) \in Seq(S)
           /\ Len(RemoveAt(s, k)) = Len(s) - 1
           /\ \A i \in 1..(Len(s) - 1) :
                RemoveAt(s, k)[i] = IF i < k THEN s[i] ELSE s[i + 1]
<1>1. /\ SubSeq(s, 1, k - 1) \in Seq(S)
      /\ Len(SubSeq(s, 1, k - 1)) = k - 1
      /\ \A i \in 1..(k - 1) : SubSeq(s, 1, k - 1)[i] = s[i]
  OBVIOUS
<1>2. /\ SubSeq(s, k + 1, Len(s)) \in Seq(S)
      /\ Len(SubSeq(s, k + 1, Len(s))) = Len(s) - k
      /\ \A i \in 1..(Len(s) - k) : SubSeq(s, k + 1, Len(s))[i] = s[k + i]
  OBVIOUS
<1> DEFINE a == SubSeq(s, 1, k - 1)
           b == SubSeq(s, k + 1, Len(s))
<1>3. /\ a \o b \in Seq(S)
      /\ Len(a \o b) = Len(a) + Len(b)
      /\ \A i \in 1..(Len(a) + Len(b)) :
           (a \o b)[i] = IF i <= Len(a) THEN a[i] ELSE b[i - Len(a)]
  <2> HIDE DEF a, b
  <2> QED BY <1>1, <1>2, ConcatProperties DEF a, b
<1>4. Len(s) \in Nat
  OBVIOUS
<1>5. Len(a) + Len(b) = Len(s) - 1
  <2>1. Len(a) = k - 1 /\ Len(b) = Len(s) - k
    BY <1>1, <1>2
  <2> HIDE DEF a, b
  <2> QED BY <1>4, <2>1
<1>6. ASSUME NEW i \in 1..(Len(s) - 1)
      PROVE (a \o b)[i] = IF i < k THEN s[i] ELSE s[i + 1]
  <2> HIDE DEF a, b
  <2>1. i \in 1..(Len(a) + Len(b))
    BY <1>5
  <2>2. CASE i < k
    <3>1. i <= Len(a) /\ i \in 1..(k - 1)
      BY <1>1, <1>4, <2>2 DEF a
    <3> QED BY <1>1, <1>3, <2>1, <2>2, <3>1 DEF a
  <2>3. CASE ~(i < k)
    <3>1. /\ ~(i <= Len(a)) /\ i - Len(a) \in 1..(Len(s) - k)
          /\ k + (i - Len(a)) = i + 1
      BY <1>1, <1>4, <2>3 DEF a
    <3>2. b[i - Len(a)] = s[k + (i - Len(a))]
      BY <1>2, <3>1 DEF b
    <3> QED BY <1>3, <2>1, <2>3, <3>1, <3>2
  <2> QED BY <2>2, <2>3
<1> QED BY <1>3, <1>5, <1>6 DEF RemoveAt

LEMMA ElementsType ==
    ASSUME NEW S, NEW s \in Seq(S) PROVE Elements(s) \in SUBSET S
BY DEF Elements

(* Without one of its elements a sequence keeps the others, each once. *)
LEMMA RemoveAtDistinct ==
    ASSUME NEW S, NEW s \in Seq(S), Distinct(s), NEW k \in 1..Len(s)
    PROVE  /\ Distinct(RemoveAt(s, k))
           /\ Elements(RemoveAt(s, k)) = Elements(s) \ {s[k]}
<1> SUFFICES ASSUME NEW rest \in Seq(S), rest = RemoveAt(s, k), Len(rest) = Len(s) - 1,
                    \A i \in 1..(Len(s) - 1) :
                      rest[i] = IF i < k THEN s[i] ELSE s[i + 1]
             PROVE  Distinct(rest) /\ Elements(rest) = Elements(s) \ {s[k]}
  BY RemoveAtElements
<1>1. Len(s) \in Nat
  OBVIOUS
<1>2. Distinct(rest)
  BY <1>1 DEF Distinct
<1>3. ASSUME NEW i \in 1..Len(rest) PROVE rest[i] \in Elements(s) /\ rest[i] # s[k]
  BY <1>1 DEF Distinct, Elements
<1>4. ASSUME NEW i \in 1..Len(s), i # k PROVE \E j \in 1..Len(rest) : s[i] = rest[j]
  <2>1. CASE i < k
    <3>1. i \in 1..Len(rest) /\ rest[i] = s[i]
      BY <1>1, <2>1
    <3> QED BY <3>1
  <2>2. CASE i > k
    <3>1. i - 1 \in 1..Len(rest) /\ rest[i - 1] = s[i]
      BY <1>1, <2>2
    <3> QED BY <3>1
  <2> QED BY <1>1, <1>4, <2>1, <2>2
<1>5. ASSUME NEW x PROVE x \in Elements(rest) <=> x \in Elements(s) \ {s[k]}
  <2>1. ASSUME x \in Elements(rest) PROVE x \in Elements(s) /\ x # s[k]
    BY <1>3, <2>1 DEF Elements
  <2>2. ASSUME x \in Elements(s), x # s[k] PROVE x \in Elements(rest)
    <3>1. PICK i \in 1..Len(s) : x = s[i]
      BY <2>2 DEF Elements
    <3> QED BY <1>4, <2>2, <3>1 DEF Elements
  <2> QED BY <2>1, <2>2
<1> QED BY <1>2, <1>5

(* Its tail keeps all but the first. *)
LEMMA TailDistinct ==
    ASSUME NEW S, NEW s \in Seq(S), Distinct(s), s # <<>>
    PROVE  /\ Tail(s) \in Seq(S) /\ Len(Tail(s)) = Len(s) - 1
           /\ Distinct(Tail(s))
           /\ Elements(Tail(s)) = Elements(s) \ {Head(s)}
<1> SUFFICES ASSUME NEW rest \in Seq(S), rest = Tail(s), Len(rest) = Len(s) - 1,
                    Len(s) >= 1, \A i \in 1..(Len(s) - 1) : rest[i] = s[i + 1]
             PROVE  Distinct(rest) /\ Elements(rest) = Elements(s) \ {s[1]}
  <2>1. /\ Tail(s) \in Seq(S) /\ Len(Tail(s)) = Len(s) - 1
        /\ \A i \in 1..(Len(s) - 1) : Tail(s)[i] = s[i + 1]
    BY HeadTailProperties
  <2>2. Len(s) >= 1 /\ Head(s) = s[1]
    OBVIOUS
  <2> QED BY <2>1, <2>2
<1>1. Len(s) \in Nat
  OBVIOUS
<1>2. Distinct(rest)
  BY <1>1 DEF Distinct
<1>3. ASSUME NEW i \in 1..Len(rest) PROVE rest[i] \in Elements(s) /\ rest[i] # s[1]
  BY <1>1 DEF Distinct, Elements
<1>4. ASSUME NEW i \in 1..Len(s), i # 1 PROVE \E j \in 1..Len(rest) : s[i] = rest[j]
  <2>1. i - 1 \in 1..Len(rest) /\ rest[i - 1] = s[i]
    BY <1>1, <1>4
  <2> QED BY <2>1
<1>5. ASSUME NEW x PROVE x \in Elements(rest) <=> x \in Elements(s) \ {s[1]}
  <2>1. ASSUME x \in Elements(rest) PROVE x \in Elements(s) /\ x # s[1]
    BY <1>3, <2>1 DEF Elements
  <2>2. ASSUME x \in Elements(s), x # s[1] PROVE x \in Elements(rest)
    <3>1. PICK i \in 1..Len(s) : x = s[i]
      BY <2>2 DEF Elements
    <3> QED BY <1>4, <2>2, <3>1 DEF Elements
  <2> QED BY <2>1, <2>2
<1> QED BY <1>2, <1>5

(* What Sound says of the fields. *)
LEMMA SoundFields ==
    ASSUME NEW recent
    PROVE  Sound(recent) <=>
             /\ recent \in Recents
             /\ recent.order \in Seq(Line) /\ Len(recent.order) \in Nat
             /\ Len(recent.order) <= Cap
             /\ recent.set = Elements(recent.order)
             /\ Distinct(recent.order)
<1>1. ASSUME recent \in Recents
      PROVE /\ recent.order \in Seq(Line)
            /\ DOMAIN recent.order = 1..Len(recent.order)
            /\ Len(recent.order) \in Nat
  BY <1>1 DEF Recents
<1> QED BY <1>1 DEF Sound, Agrees, Elements, Distinct

(* A queue that respects the limit, with its elements, is sound. *)
LEMMA SoundIf ==
    ASSUME NEW order \in Seq(Line), Len(order) <= Cap, Distinct(order),
           NEW recent, recent = [order |-> order, set |-> Elements(order)]
    PROVE  Sound(recent)
<1>1. recent \in Recents /\ recent.order = order /\ recent.set = Elements(order)
  BY ElementsType DEF Recents
<1>2. Len(order) \in Nat
  OBVIOUS
<1> QED BY <1>1, <1>2, SoundFields

(* insert keeps the queue and the set together and adds nothing but l. *)
LEMMA InsertSound ==
    ASSUME LiveAssumption, NEW recent, Sound(recent), NEW l \in Line
    PROVE  /\ Sound(Insert(recent, l))
           /\ Insert(recent, l).set \subseteq recent.set \union {l}
<1>1. CASE l \in recent.set
  BY <1>1 DEF Insert
<1>2. CASE l \notin recent.set
  <2>1. PICK order \in Seq(Line) : order = Append(recent.order, l)
    BY SoundFields, AppendProperties
  <2>2. /\ Len(order) = Len(recent.order) + 1
        /\ \A i \in 1..Len(recent.order) : order[i] = recent.order[i]
        /\ order[Len(recent.order) + 1] = l
    BY <2>1, SoundFields
  <2>3. /\ recent.order \in Seq(Line) /\ Len(recent.order) \in Nat
        /\ Len(recent.order) <= Cap
        /\ recent.set = Elements(recent.order) /\ Distinct(recent.order)
    BY SoundFields
  <2>4. Elements(order) = recent.set \union {l}
    BY <2>2, <2>3 DEF Elements
  <2>5. Distinct(order)
    BY <1>2, <2>2, <2>3 DEF Distinct, Elements
  <2>6. CASE Len(order) <= Cap
    <3>1. Insert(recent, l) = [order |-> order, set |-> Elements(order)]
      BY <1>2, <2>1, <2>4, <2>6 DEF Insert
    <3>2. Sound(Insert(recent, l))
      BY <2>5, <2>6, <3>1, SoundIf
    <3> QED BY <2>4, <3>1, <3>2
  <2>7. CASE ~(Len(order) <= Cap)
    <3>1. /\ Tail(order) \in Seq(Line) /\ Len(Tail(order)) = Len(recent.order)
          /\ Distinct(Tail(order))
          /\ Elements(Tail(order)) = Elements(order) \ {Head(order)}
      BY <2>2, <2>3, <2>5, TailDistinct
    <3>2. Insert(recent, l) = [order |-> Tail(order), set |-> Elements(Tail(order))]
      BY <1>2, <2>1, <2>4, <2>7, <3>1 DEF Insert
    <3>3. Sound(Insert(recent, l))
      BY <2>3, <3>1, <3>2, SoundIf
    <3>4. Elements(Tail(order)) \subseteq recent.set \union {l}
      BY <2>4, <3>1
    <3> QED BY <3>2, <3>3, <3>4
  <2> QED BY <2>6, <2>7
<1> QED BY <1>1, <1>2

(* remove takes l, and only l, out of both. *)
LEMMA DropSound ==
    ASSUME LiveAssumption, NEW recent, Sound(recent), NEW l \in recent.set
    PROVE  /\ Sound(Drop(recent, l))
           /\ Drop(recent, l).set = recent.set \ {l}
<1>1. /\ recent.order \in Seq(Line) /\ Len(recent.order) \in Nat
      /\ Len(recent.order) <= Cap /\ DOMAIN recent.order = 1..Len(recent.order)
      /\ recent.set = Elements(recent.order) /\ Distinct(recent.order)
  BY SoundFields
<1>2. PICK k \in 1..Len(recent.order) :
        /\ k = CHOOSE i \in DOMAIN recent.order : recent.order[i] = l
        /\ recent.order[k] = l
  BY <1>1 DEF Elements
<1>3. PICK order : order = recent.order
  OBVIOUS
<1>4. /\ RemoveAt(order, k) \in Seq(Line)
      /\ Len(RemoveAt(order, k)) <= Cap
  BY <1>1, <1>2, <1>3, RemoveAtElements DEF LiveAssumption
<1>5. /\ Distinct(RemoveAt(order, k))
      /\ Elements(RemoveAt(order, k)) = Elements(order) \ {order[k]}
  <2>1. order \in Seq(Line) /\ Distinct(order) /\ k \in 1..Len(order)
    BY <1>1, <1>2, <1>3
  <2> QED BY <2>1, RemoveAtDistinct
<1>6. Drop(recent, l) = [order |-> RemoveAt(order, k),
                         set |-> Elements(RemoveAt(order, k))]
  BY <1>1, <1>2, <1>3, <1>5 DEF Drop
<1>7. Sound(Drop(recent, l))
  BY <1>4, <1>5, <1>6, SoundIf
<1> QED BY <1>1, <1>2, <1>3, <1>5, <1>6, <1>7

-----------------------------------------------------------------------------
(* The type invariant and the agreement, from their parts. *)
LEMMA TypesFollow ==
    ASSUME process \in Seq(Line), merged \in Seq(Line),
           Sound(fromProcess), Sound(fromMerged),
           printed \in [Line -> Nat], said \in [Line -> Nat],
           processRead \in [Line -> Nat], mergedRead \in [Line -> Nat],
           shown \in [Line -> Nat], attached \in BOOLEAN, evicted \subseteq Line
    PROVE  TypeOK /\ RecentsAgree
BY DEF TypeOK, RecentsAgree, Sound

LEMMA InitStep == Init => IInv
<1> SUFFICES ASSUME Init PROVE IInv
  OBVIOUS
<1>1. Distinct(<<>>) /\ Elements(<<>>) = {} /\ <<>> \in Seq(Line) /\ Len(<<>>) = 0
  BY DEF Distinct, Elements
<1>2. Sound(NoLines)
  <2>1. NoLines = [order |-> <<>>, set |-> Elements(<<>>)]
    BY <1>1 DEF NoLines
  <2>2. Len(<<>>) <= Cap
    BY <1>1, LiveAssumption DEF LiveAssumption
  <2> QED BY <1>1, <2>1, <2>2, SoundIf
<1>3. TypeOK /\ RecentsAgree
  <2>1. Zero \in [Line -> Nat]
    BY DEF Zero
  <2> QED BY <1>1, <1>2, <2>1, TypesFollow DEF Init
<1>4. OneSideWaits /\ Owed
  BY DEF Init, NoLines, Zero, OneSideWaits, Owed
<1> QED BY <1>3, <1>4 DEF IInv

(* Counting one line up leaves counts of all lines. *)
LEMMA BumpType ==
    ASSUME NEW counts \in [Line -> Nat], NEW l \in Line
    PROVE  /\ Bump(counts, l) \in [Line -> Nat]
           /\ \A m \in Line : Bump(counts, l)[m] = IF m = l THEN counts[m] + 1
                                                   ELSE counts[m]
BY DEF Bump

(* A line is taken from the front of its log. *)
LEMMA HeadIsLine ==
    ASSUME NEW log \in Seq(Line), log # <<>>
    PROVE  Head(log) \in Line /\ Tail(log) \in Seq(Line)
BY HeadTailProperties

(* The counts of IInv, and RecentLines in the form of the lemmas. *)
LEMMA Given ==
    ASSUME IInv
    PROVE  /\ process \in Seq(Line) /\ merged \in Seq(Line)
           /\ Sound(fromProcess) /\ Sound(fromMerged)
           /\ fromProcess.set \subseteq Line /\ fromMerged.set \subseteq Line
           /\ printed \in [Line -> Nat] /\ said \in [Line -> Nat]
           /\ processRead \in [Line -> Nat] /\ mergedRead \in [Line -> Nat]
           /\ shown \in [Line -> Nat]
           /\ attached \in BOOLEAN /\ evicted \subseteq Line
BY DEF IInv, TypeOK, RecentsAgree, Sound, Recents

(* Writing and attaching show nothing. *)
LEMMA SourceStep ==
    ASSUME IInv, Attach \/ \E l \in Line : ProcessPrints(l) \/ DevenvSays(l)
    PROVE  IInv'
<1>1. UNCHANGED <<fromProcess, fromMerged, processRead, mergedRead, shown, evicted>>
  BY DEF Attach, ProcessPrints, DevenvSays
<1>2. /\ process' \in Seq(Line) /\ merged' \in Seq(Line) /\ attached' \in BOOLEAN
      /\ printed' \in [Line -> Nat] /\ said' \in [Line -> Nat]
  <2>1. CASE Attach
    BY <2>1, Given DEF Attach, sourceVars
  <2>2. ASSUME NEW l \in Line, ProcessPrints(l) \/ DevenvSays(l)
        PROVE /\ process' \in Seq(Line) /\ merged' \in Seq(Line) /\ attached' \in BOOLEAN
              /\ printed' \in [Line -> Nat] /\ said' \in [Line -> Nat]
    <3>1. Append(process, l) \in Seq(Line) /\ Append(merged, l) \in Seq(Line)
      BY Given, AppendProperties
    <3>2. Bump(printed, l) \in [Line -> Nat] /\ Bump(said, l) \in [Line -> Nat]
      BY Given, BumpType
    <3> QED BY <2>2, <3>1, <3>2, Given DEF ProcessPrints, DevenvSays
  <2> QED BY <2>1, <2>2
<1>3. TypeOK' /\ RecentsAgree'
  BY <1>1, <1>2 DEF IInv, TypeOK, RecentsAgree
<1> QED BY <1>1, <1>3 DEF IInv, OneSideWaits, Owed

LEMMA TakeProcessStep == ASSUME IInv, TakeProcess PROVE IInv'
<1> DEFINE l == Head(process)
<1>1. /\ l \in Line /\ process' \in Seq(Line)
      /\ processRead' = Bump(processRead, l) /\ UNCHANGED mergedRead
  BY Given, HeadIsLine DEF TakeProcess
<1> HIDE DEF l
<1>2. CASE /\ l \in fromMerged.set
           /\ fromMerged' = Drop(fromMerged, l)
           /\ UNCHANGED <<fromProcess, shown, evicted>>
  <2>1. Sound(fromMerged') /\ fromMerged'.set = fromMerged.set \ {l}
    BY <1>2, Given, DropSound, LiveAssumption
  <2>2. TypeOK' /\ RecentsAgree'
    <3>1. processRead' \in [Line -> Nat]
      BY <1>1, Given, BumpType
    <3>2. UNCHANGED <<attached, merged, printed, said>>
      BY DEF TakeProcess, sourceVars
    <3> QED BY <1>1, <1>2, <2>1, <3>1, <3>2, Given, TypesFollow
           DEF TypeOK, RecentsAgree, Sound
  <2>3. OneSideWaits'
    BY <1>2, <2>1 DEF IInv, OneSideWaits
  <2>4. Owed'
    <3> SUFFICES ASSUME NEW m \in Line
                 PROVE  /\ shown[m] >= processRead'[m] +
                                        IF m \in fromMerged'.set THEN 1 ELSE 0
                        /\ shown[m] >= mergedRead[m] +
                                        IF m \in fromProcess.set THEN 1 ELSE 0
      BY <1>1, <1>2 DEF Owed
    <3>1. processRead'[m] = IF m = l THEN processRead[m] + 1 ELSE processRead[m]
      BY <1>1, Given, BumpType
    <3>2. shown[m] \in Nat /\ processRead[m] \in Nat /\ mergedRead[m] \in Nat
      BY Given
    <3>3. /\ shown[m] >= processRead[m] + IF m \in fromMerged.set THEN 1 ELSE 0
          /\ shown[m] >= mergedRead[m] + IF m \in fromProcess.set THEN 1 ELSE 0
      BY DEF IInv, Owed
    <3>4. m = l => m \in fromMerged.set /\ m \notin fromMerged'.set
      BY <1>2, <2>1
    <3>5. m # l => (m \in fromMerged'.set <=> m \in fromMerged.set)
      BY <2>1
    <3> QED BY <3>1, <3>2, <3>3, <3>4, <3>5
  <2> QED BY <2>2, <2>3, <2>4 DEF IInv
<1>3. CASE /\ l \notin fromMerged.set
           /\ fromProcess' = Insert(fromProcess, l)
           /\ shown' = Bump(shown, l)
           /\ UNCHANGED fromMerged
  <2>1. Sound(fromProcess') /\ fromProcess'.set \subseteq fromProcess.set \union {l}
    BY <1>1, <1>3, Given, InsertSound, LiveAssumption
  <2>2. TypeOK' /\ RecentsAgree'
    <3>1. processRead' \in [Line -> Nat] /\ shown' \in [Line -> Nat]
      BY <1>1, <1>3, Given, BumpType
    <3>2. UNCHANGED <<attached, merged, printed, said>>
      BY DEF TakeProcess, sourceVars
    <3>3. evicted' \subseteq Line
      BY <1>1, Given DEF TakeProcess, l
    <3> QED BY <1>1, <1>3, <2>1, <3>1, <3>2, <3>3, Given
           DEF TypeOK, RecentsAgree, Sound
  <2>3. OneSideWaits'
    BY <1>3, <2>1 DEF IInv, OneSideWaits
  <2>4. Owed'
    <3> SUFFICES ASSUME NEW m \in Line
                 PROVE  /\ shown'[m] >= processRead'[m] +
                                         IF m \in fromMerged.set THEN 1 ELSE 0
                        /\ shown'[m] >= mergedRead[m] +
                                         IF m \in fromProcess'.set THEN 1 ELSE 0
      BY <1>1, <1>3 DEF Owed
    <3>1. /\ processRead'[m] = IF m = l THEN processRead[m] + 1 ELSE processRead[m]
          /\ shown'[m] = IF m = l THEN shown[m] + 1 ELSE shown[m]
      <4>1. processRead \in [Line -> Nat] /\ shown \in [Line -> Nat] /\ l \in Line
        BY <1>1, Given
      <4>2. processRead'[m] = IF m = l THEN processRead[m] + 1 ELSE processRead[m]
        BY <1>1, <4>1, BumpType
      <4>3. shown'[m] = IF m = l THEN shown[m] + 1 ELSE shown[m]
        BY <1>3, <4>1, BumpType
      <4> QED BY <4>2, <4>3
    <3>2. shown[m] \in Nat /\ processRead[m] \in Nat /\ mergedRead[m] \in Nat
      BY Given
    <3>3. /\ shown[m] >= processRead[m] + IF m \in fromMerged.set THEN 1 ELSE 0
          /\ shown[m] >= mergedRead[m] + IF m \in fromProcess.set THEN 1 ELSE 0
      BY DEF IInv, Owed
    <3>4. m = l => m \notin fromMerged.set
      BY <1>3
    <3>5. m # l => (m \in fromProcess'.set => m \in fromProcess.set)
      BY <2>1
    <3> QED BY <3>1, <3>2, <3>3, <3>4, <3>5
  <2> QED BY <2>2, <2>3, <2>4 DEF IInv
<1> QED BY <1>2, <1>3 DEF TakeProcess, l
(* The mirror image. *)
LEMMA TakeMergedStep == ASSUME IInv, TakeMerged PROVE IInv'
<1> DEFINE l == Head(merged)
<1>1. /\ l \in Line /\ merged' \in Seq(Line)
      /\ mergedRead' = Bump(mergedRead, l) /\ UNCHANGED processRead
  BY Given, HeadIsLine DEF TakeMerged
<1> HIDE DEF l
<1>2. CASE /\ l \in fromProcess.set
           /\ fromProcess' = Drop(fromProcess, l)
           /\ UNCHANGED <<fromMerged, shown, evicted>>
  <2>1. Sound(fromProcess') /\ fromProcess'.set = fromProcess.set \ {l}
    BY <1>2, Given, DropSound, LiveAssumption
  <2>2. TypeOK' /\ RecentsAgree'
    <3>1. mergedRead' \in [Line -> Nat]
      BY <1>1, Given, BumpType
    <3>2. UNCHANGED <<attached, process, printed, said>>
      BY DEF TakeMerged, sourceVars
    <3> QED BY <1>1, <1>2, <2>1, <3>1, <3>2, Given, TypesFollow
           DEF TypeOK, RecentsAgree, Sound
  <2>3. OneSideWaits'
    BY <1>2, <2>1 DEF IInv, OneSideWaits
  <2>4. Owed'
    <3> SUFFICES ASSUME NEW m \in Line
                 PROVE  /\ shown[m] >= mergedRead'[m] +
                                        IF m \in fromProcess'.set THEN 1 ELSE 0
                        /\ shown[m] >= processRead[m] +
                                        IF m \in fromMerged.set THEN 1 ELSE 0
      BY <1>1, <1>2 DEF Owed
    <3>1. mergedRead'[m] = IF m = l THEN mergedRead[m] + 1 ELSE mergedRead[m]
      BY <1>1, Given, BumpType
    <3>2. shown[m] \in Nat /\ mergedRead[m] \in Nat /\ processRead[m] \in Nat
      BY Given
    <3>3. /\ shown[m] >= mergedRead[m] + IF m \in fromProcess.set THEN 1 ELSE 0
          /\ shown[m] >= processRead[m] + IF m \in fromMerged.set THEN 1 ELSE 0
      BY DEF IInv, Owed
    <3>4. m = l => m \in fromProcess.set /\ m \notin fromProcess'.set
      BY <1>2, <2>1
    <3>5. m # l => (m \in fromProcess'.set <=> m \in fromProcess.set)
      BY <2>1
    <3> QED BY <3>1, <3>2, <3>3, <3>4, <3>5
  <2> QED BY <2>2, <2>3, <2>4 DEF IInv
<1>3. CASE /\ l \notin fromProcess.set
           /\ fromMerged' = Insert(fromMerged, l)
           /\ shown' = Bump(shown, l)
           /\ UNCHANGED fromProcess
  <2>1. Sound(fromMerged') /\ fromMerged'.set \subseteq fromMerged.set \union {l}
    BY <1>1, <1>3, Given, InsertSound, LiveAssumption
  <2>2. TypeOK' /\ RecentsAgree'
    <3>1. mergedRead' \in [Line -> Nat] /\ shown' \in [Line -> Nat]
      BY <1>1, <1>3, Given, BumpType
    <3>2. UNCHANGED <<attached, process, printed, said>>
      BY DEF TakeMerged, sourceVars
    <3>3. evicted' \subseteq Line
      BY <1>1, Given DEF TakeMerged, l
    <3> QED BY <1>1, <1>3, <2>1, <3>1, <3>2, <3>3, Given
           DEF TypeOK, RecentsAgree, Sound
  <2>3. OneSideWaits'
    BY <1>3, <2>1 DEF IInv, OneSideWaits
  <2>4. Owed'
    <3> SUFFICES ASSUME NEW m \in Line
                 PROVE  /\ shown'[m] >= mergedRead'[m] +
                                         IF m \in fromProcess.set THEN 1 ELSE 0
                        /\ shown'[m] >= processRead[m] +
                                         IF m \in fromMerged'.set THEN 1 ELSE 0
      BY <1>1, <1>3 DEF Owed
    <3>1. /\ mergedRead'[m] = IF m = l THEN mergedRead[m] + 1 ELSE mergedRead[m]
          /\ shown'[m] = IF m = l THEN shown[m] + 1 ELSE shown[m]
      <4>1. mergedRead \in [Line -> Nat] /\ shown \in [Line -> Nat] /\ l \in Line
        BY <1>1, Given
      <4>2. mergedRead'[m] = IF m = l THEN mergedRead[m] + 1 ELSE mergedRead[m]
        BY <1>1, <4>1, BumpType
      <4>3. shown'[m] = IF m = l THEN shown[m] + 1 ELSE shown[m]
        BY <1>3, <4>1, BumpType
      <4> QED BY <4>2, <4>3
    <3>2. shown[m] \in Nat /\ mergedRead[m] \in Nat /\ processRead[m] \in Nat
      BY Given
    <3>3. /\ shown[m] >= mergedRead[m] + IF m \in fromProcess.set THEN 1 ELSE 0
          /\ shown[m] >= processRead[m] + IF m \in fromMerged.set THEN 1 ELSE 0
      BY DEF IInv, Owed
    <3>4. m = l => m \notin fromProcess.set
      BY <1>3
    <3>5. m # l => (m \in fromMerged'.set => m \in fromMerged.set)
      BY <2>1
    <3> QED BY <3>1, <3>2, <3>3, <3>4, <3>5
  <2> QED BY <2>2, <2>3, <2>4 DEF IInv
<1> QED BY <1>2, <1>3 DEF TakeMerged, l
-----------------------------------------------------------------------------
(***************************************************************************)
(* The inductive invariant of the live view.                               *)
(***************************************************************************)
THEOREM LiveInvariance == Spec => []IInv
<1>1. Init => IInv
  BY InitStep
<1>2. IInv /\ [Next]_vars => IInv'
  <2> SUFFICES ASSUME IInv, [Next]_vars PROVE IInv'
    OBVIOUS
  <2>1. CASE UNCHANGED vars
    <3>1. TypeOK' /\ RecentsAgree'
      BY <2>1 DEF vars, sourceVars, IInv, TypeOK, RecentsAgree, Agrees
    <3>2. OneSideWaits'
      BY <2>1 DEF vars, IInv, OneSideWaits
    <3>3. Owed'
      BY <2>1 DEF vars, IInv, Owed
    <3> QED BY <3>1, <3>2, <3>3 DEF IInv
  <2>2. CASE Next
    BY <2>2, SourceStep, TakeProcessStep, TakeMergedStep DEF Next
  <2> QED BY <2>1, <2>2
<1> QED BY <1>1, <1>2, PTL DEF Spec

(***************************************************************************)
(* The queue and the set of RecentLines always hold the same lines.        *)
(***************************************************************************)
THEOREM RecentsSound == Spec => []RecentsAgree
<1>1. IInv => RecentsAgree
  BY DEF IInv
<1> QED BY <1>1, LiveInvariance, PTL

(***************************************************************************)
(* A line that waits for its echo on one side does not on the other, so    *)
(* that its echo is taken for what it is.                                  *)
(***************************************************************************)
THEOREM OnlyOneSide == Spec => []OneSideWaits
<1>1. IInv => OneSideWaits
  BY DEF IInv
<1> QED BY <1>1, LiveInvariance, PTL

(***************************************************************************)
(* The view never swallows a line: each is shown as often as the log that  *)
(* has it more often, for every limit and every order of arrival.          *)
(***************************************************************************)
THEOREM NothingLost == Spec => []NoLineLost
<1>1. IInv => NoLineLost
  <2> SUFFICES ASSUME IInv, NEW l \in Line
               PROVE  shown[l] >= processRead[l] /\ shown[l] >= mergedRead[l]
    BY DEF NoLineLost
  <2>1. shown[l] \in Nat /\ processRead[l] \in Nat /\ mergedRead[l] \in Nat
    BY Given
  <2> QED BY <2>1 DEF IInv, Owed
<1> QED BY <1>1, LiveInvariance, PTL

-----------------------------------------------------------------------------
(* A line that is written once *)

OnceIn(log, m) == \A i, j \in 1..Len(log) : log[i] = m /\ log[j] = m => i = j

Waiting(log, m) == m \in Elements(log)

\* Neither log has been read as far as m.
Untouched(m) ==
    \/ Waiting(process, m) /\ Waiting(merged, m)
    \/ Waiting(merged, m) /\ printed[m] = 0
    \/ printed[m] + said[m] = 0

\* Where a line that was written at most once can be.
Tracked(m) ==
    /\ OnceIn(process, m) /\ OnceIn(merged, m)
    /\ Waiting(process, m) => printed[m] = 1
    /\ Waiting(merged, m) => printed[m] + said[m] = 1
    /\ m \in fromProcess.set => printed[m] = 1
    /\ Untouched(m) => m \notin fromProcess.set /\ m \notin fromMerged.set /\ shown[m] = 0
    /\ Waiting(process, m) /\ ~Waiting(merged, m) => m \in fromMerged.set
    /\ printed[m] = 1 /\ ~Waiting(process, m) /\ Waiting(merged, m) => m \in fromProcess.set
    /\ shown[m] <= 1

Echoes == \A m \in Line \ evicted : printed[m] + said[m] <= 1 => Tracked(m)

\* What a line at the end of a log changes.
LEMMA Appended ==
    ASSUME NEW log \in Seq(Line), NEW l \in Line, NEW m \in Line, NEW longer,
           longer = Append(log, l)
    PROVE  /\ Waiting(longer, m) <=> m = l \/ Waiting(log, m)
           /\ OnceIn(log, m) /\ (m = l => ~Waiting(log, m)) => OnceIn(longer, m)
<1>1. /\ longer \in Seq(Line) /\ Len(longer) = Len(log) + 1 /\ Len(log) \in Nat
      /\ \A i \in 1..Len(log) : longer[i] = log[i]
      /\ longer[Len(log) + 1] = l
  BY AppendProperties
<1>2. Waiting(longer, m) <=> m = l \/ Waiting(log, m)
  <2>1. Waiting(longer, m) => m = l \/ Waiting(log, m)
    <3> SUFFICES ASSUME NEW i \in 1..Len(longer), longer[i] = m, m # l
                 PROVE  \E j \in 1..Len(log) : log[j] = m
      BY DEF Waiting, Elements
    <3>1. i \in 1..Len(log)
      BY <1>1
    <3> QED BY <1>1, <3>1
  <2>2. m = l => Waiting(longer, m)
    <3>1. Len(log) + 1 \in 1..Len(longer)
      BY <1>1
    <3> QED BY <1>1, <3>1 DEF Waiting, Elements
  <2>3. Waiting(log, m) => Waiting(longer, m)
    <3>1. \A i \in 1..Len(log) : i \in 1..Len(longer)
      BY <1>1
    <3> QED BY <1>1, <3>1 DEF Waiting, Elements
  <2> QED BY <2>1, <2>2, <2>3
<1>3. ASSUME OnceIn(log, m), m = l => ~Waiting(log, m)
      PROVE  OnceIn(longer, m)
  <2> SUFFICES ASSUME NEW i \in 1..Len(longer), NEW j \in 1..Len(longer),
                      longer[i] = m, longer[j] = m
               PROVE  i = j
    BY DEF OnceIn
  <2>1. CASE m = l
    <3>1. \A k \in 1..Len(log) : log[k] # m
      BY <1>3, <2>1 DEF Waiting, Elements
    <3>2. \A k \in 1..Len(longer) : longer[k] = m => k = Len(log) + 1
      BY <1>1, <3>1
    <3> QED BY <3>2
  <2>2. CASE m # l
    <3>1. i \in 1..Len(log) /\ j \in 1..Len(log)
      BY <1>1, <2>2
    <3> QED BY <1>1, <1>3, <3>1 DEF OnceIn
  <2> QED BY <2>1, <2>2
<1> QED BY <1>2, <1>3

\* What a line taken from the front of a log changes.
LEMMA Taken ==
    ASSUME NEW log \in Seq(Line), log # <<>>, NEW m \in Line, NEW rest,
           rest = Tail(log), OnceIn(log, m)
    PROVE  /\ Waiting(rest, m) <=> m # Head(log) /\ Waiting(log, m)
           /\ OnceIn(rest, m)
           /\ Waiting(log, Head(log))
<1>1. /\ Len(rest) = Len(log) - 1 /\ Len(log) \in Nat /\ Len(log) >= 1
      /\ \A i \in 1..(Len(log) - 1) : rest[i] = log[i + 1]
      /\ Head(log) = log[1]
  BY HeadTailProperties
<1>2. OnceIn(rest, m)
  <2> SUFFICES ASSUME NEW i \in 1..Len(rest), NEW j \in 1..Len(rest), rest[i] = m, rest[j] = m
               PROVE  i = j
    BY DEF OnceIn
  <2>1. /\ i + 1 \in 1..Len(log) /\ j + 1 \in 1..Len(log)
        /\ log[i + 1] = m /\ log[j + 1] = m
    BY <1>1
  <2>2. i + 1 = j + 1
    BY <2>1 DEF OnceIn
  <2> QED BY <2>2
<1>3. Waiting(rest, m) => m # Head(log) /\ Waiting(log, m)
  <2> SUFFICES ASSUME NEW i \in 1..Len(rest), rest[i] = m
               PROVE  m # log[1] /\ Waiting(log, m)
    BY <1>1 DEF Waiting, Elements
  <2>1. i + 1 \in 1..Len(log) /\ log[i + 1] = m /\ 1 \in 1..Len(log) /\ i + 1 # 1
    BY <1>1
  <2> QED BY <2>1 DEF OnceIn, Waiting, Elements
<1>4. m # Head(log) /\ Waiting(log, m) => Waiting(rest, m)
  <2> SUFFICES ASSUME m # log[1], NEW i \in 1..Len(log), log[i] = m
               PROVE  \E j \in 1..Len(rest) : rest[j] = m
    BY <1>1 DEF Waiting, Elements
  <2>1. i - 1 \in 1..Len(rest) /\ (i - 1) + 1 = i
    BY <1>1
  <2>2. rest[i - 1] = log[i]
    BY <1>1, <2>1
  <2> QED BY <2>1, <2>2
<1>5. Waiting(log, Head(log))
  BY <1>1 DEF Waiting, Elements
<1> QED BY <1>2, <1>3, <1>4, <1>5

LEMMA InitEchoes == Init => Echoes
  BY DEF Init, Echoes, Tracked, OnceIn, Waiting, Elements, NoLines, Zero

LEMMA SourceEchoes ==
    ASSUME IInv, Echoes, NEW l \in Line, ProcessPrints(l) \/ DevenvSays(l)
    PROVE  Echoes'
<1> SUFFICES ASSUME NEW m \in Line \ evicted, printed'[m] + said'[m] <= 1
             PROVE  Tracked(m)'
  BY DEF Echoes, ProcessPrints, DevenvSays
<1>1. /\ UNCHANGED <<fromProcess, fromMerged, shown, evicted>>
      /\ merged' = Append(merged, l)
  BY DEF ProcessPrints, DevenvSays
<1>2. /\ printed[m] \in Nat /\ said[m] \in Nat
      /\ process \in Seq(Line) /\ merged \in Seq(Line)
  BY Given
<1>3. CASE ProcessPrints(l)
  <2>1. /\ printed'[m] = IF m = l THEN printed[m] + 1 ELSE printed[m]
        /\ said'[m] = said[m] /\ process' = Append(process, l)
    BY <1>3, Given, BumpType DEF ProcessPrints
  <2>2. printed[m] + said[m] <= 1
    BY <1>2, <2>1
  <2>3. Tracked(m)
    BY <2>2 DEF Echoes
  <2>4. m = l => printed[m] = 0 /\ said[m] = 0
    BY <1>2, <2>1
  <2>5. m = l => ~Waiting(process, m) /\ ~Waiting(merged, m)
    BY <2>3, <2>4 DEF Tracked
  <2>6. /\ Waiting(process', m) <=> m = l \/ Waiting(process, m)
        /\ Waiting(merged', m) <=> m = l \/ Waiting(merged, m)
        /\ OnceIn(process', m) /\ OnceIn(merged', m)
    BY <1>1, <1>2, <2>1, <2>3, <2>5, Appended DEF Tracked
  <2> QED BY <1>1, <1>2, <2>1, <2>3, <2>4, <2>6 DEF Tracked, Untouched
<1>4. CASE DevenvSays(l)
  <2>1. /\ said'[m] = IF m = l THEN said[m] + 1 ELSE said[m]
        /\ printed'[m] = printed[m] /\ process' = process
    BY <1>4, Given, BumpType DEF DevenvSays
  <2>2. printed[m] + said[m] <= 1
    BY <1>2, <2>1
  <2>3. Tracked(m)
    BY <2>2 DEF Echoes
  <2>4. m = l => printed[m] = 0 /\ said[m] = 0
    BY <1>2, <2>1
  <2>5. m = l => ~Waiting(process, m) /\ ~Waiting(merged, m)
    BY <2>3, <2>4 DEF Tracked
  <2>6. /\ Waiting(merged', m) <=> m = l \/ Waiting(merged, m)
        /\ OnceIn(merged', m)
    BY <1>1, <1>2, <2>3, <2>5, Appended DEF Tracked
  <2> QED BY <1>1, <1>2, <2>1, <2>3, <2>4, <2>5, <2>6 DEF Tracked, Untouched
<1> QED BY <1>3, <1>4

LEMMA ProcessEchoes ==
    ASSUME IInv, Echoes, TakeProcess
    PROVE  Echoes'
<1> SUFFICES ASSUME NEW m \in Line \ evicted', printed[m] + said[m] <= 1
             PROVE  Tracked(m)'
  BY DEF Echoes, TakeProcess, sourceVars
<1> DEFINE l == Head(process)
<1>1. /\ UNCHANGED <<merged, printed, said>> /\ process' = Tail(process)
      /\ process \in Seq(Line) /\ process # <<>> /\ l \in Line
  BY Given, HeadIsLine DEF TakeProcess, sourceVars
<1>2. /\ evicted \subseteq evicted' /\ m \in Line
      /\ printed[m] \in Nat /\ said[m] \in Nat /\ shown[m] \in Nat
  BY Given DEF TakeProcess
<1>3. Tracked(m)
  BY <1>2 DEF Echoes
<1>4. /\ Waiting(process', m) <=> m # l /\ Waiting(process, m)
      /\ OnceIn(process', m) /\ Waiting(process, l)
  BY <1>1, <1>3, Taken DEF Tracked
<1>5. CASE /\ l \in fromMerged.set
           /\ fromMerged' = Drop(fromMerged, l)
           /\ UNCHANGED <<fromProcess, shown, evicted>>
  <2>1. fromMerged'.set = fromMerged.set \ {l}
    BY <1>5 DEF Drop
  <2> HIDE DEF l
  <2> QED BY <1>1, <1>2, <1>3, <1>4, <1>5, <2>1 DEF Tracked, Untouched
<1>6. CASE /\ l \notin fromMerged.set
           /\ fromProcess' = Insert(fromProcess, l)
           /\ shown' = Bump(shown, l)
           /\ evicted' = evicted \union ((fromProcess.set \union {l}) \ fromProcess'.set)
           /\ UNCHANGED fromMerged
  <2>1. fromProcess'.set \subseteq fromProcess.set \union {l}
    BY <1>1, <1>6, Given, InsertSound, LiveAssumption
  <2>2. m \in fromProcess'.set <=> m = l \/ m \in fromProcess.set
    BY <1>6, <2>1
  <2> HIDE DEF l
  <2>3. shown'[m] = IF m = l THEN shown[m] + 1 ELSE shown[m]
    <3>1. shown \in [Line -> Nat] /\ l \in Line /\ shown' = Bump(shown, l)
      BY <1>1, <1>6, Given
    <3> QED BY <1>2, <3>1, BumpType
  <2> QED BY <1>1, <1>2, <1>3, <1>4, <1>6, <2>2, <2>3 DEF Tracked, Untouched
<1> QED BY <1>5, <1>6 DEF TakeProcess

LEMMA MergedEchoes ==
    ASSUME IInv, Echoes, TakeMerged
    PROVE  Echoes'
<1> SUFFICES ASSUME NEW m \in Line \ evicted', printed[m] + said[m] <= 1
             PROVE  Tracked(m)'
  BY DEF Echoes, TakeMerged, sourceVars
<1> DEFINE l == Head(merged)
<1>1. /\ UNCHANGED <<process, printed, said>> /\ merged' = Tail(merged)
      /\ merged \in Seq(Line) /\ merged # <<>> /\ l \in Line
  BY Given, HeadIsLine DEF TakeMerged, sourceVars
<1>2. /\ evicted \subseteq evicted' /\ m \in Line
      /\ printed[m] \in Nat /\ said[m] \in Nat /\ shown[m] \in Nat
  BY Given DEF TakeMerged
<1>3. Tracked(m)
  BY <1>2 DEF Echoes
<1>4. /\ Waiting(merged', m) <=> m # l /\ Waiting(merged, m)
      /\ OnceIn(merged', m) /\ Waiting(merged, l)
  BY <1>1, <1>3, Taken DEF Tracked
<1>5. CASE /\ l \in fromProcess.set
           /\ fromProcess' = Drop(fromProcess, l)
           /\ UNCHANGED <<fromMerged, shown, evicted>>
  <2>1. fromProcess'.set = fromProcess.set \ {l}
    BY <1>5 DEF Drop
  <2> HIDE DEF l
  <2> QED BY <1>1, <1>2, <1>3, <1>4, <1>5, <2>1 DEF Tracked, Untouched
<1>6. CASE /\ l \notin fromProcess.set
           /\ fromMerged' = Insert(fromMerged, l)
           /\ shown' = Bump(shown, l)
           /\ evicted' = evicted \union ((fromMerged.set \union {l}) \ fromMerged'.set)
           /\ UNCHANGED fromProcess
  <2>1. fromMerged'.set \subseteq fromMerged.set \union {l}
    BY <1>1, <1>6, Given, InsertSound, LiveAssumption
  <2>2. m \in fromMerged'.set <=> m = l \/ m \in fromMerged.set
    BY <1>6, <2>1
  <2> HIDE DEF l
  <2>3. shown'[m] = IF m = l THEN shown[m] + 1 ELSE shown[m]
    <3>1. shown \in [Line -> Nat] /\ l \in Line /\ shown' = Bump(shown, l)
      BY <1>1, <1>6, Given
    <3> QED BY <1>2, <3>1, BumpType
  <2> QED BY <1>1, <1>2, <1>3, <1>4, <1>6, <2>2, <2>3 DEF Tracked, Untouched
<1> QED BY <1>5, <1>6 DEF TakeMerged

(***************************************************************************)
(* A line that was written once is shown once, in whatever order the two   *)
(* logs bring it, for every limit of the memory that did not push it out.  *)
(***************************************************************************)
THEOREM EchoShownOnce == Spec => []EchoDropped
<1>1. Init => Echoes
  BY InitEchoes
<1>2. IInv /\ Echoes /\ [Next]_vars => Echoes'
  <2> SUFFICES ASSUME IInv, Echoes, [Next]_vars PROVE Echoes'
    OBVIOUS
  <2>1. CASE Attach \/ UNCHANGED vars
    BY <2>1 DEF Attach, vars, sourceVars, Echoes, Tracked, Untouched
  <2> QED BY <2>1, SourceEchoes, ProcessEchoes, MergedEchoes DEF Next
<1>3. Echoes => EchoDropped
  BY DEF Echoes, Tracked, EchoDropped
<1> QED BY <1>1, <1>2, <1>3, LiveInvariance, PTL DEF Spec
=============================================================================
