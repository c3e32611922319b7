---------------------------- MODULE HexgRingProofs ----------------------------
(***************************************************************************)
(* Proofs about the replay ring, for every set of capacities, every ring a  *)
(* first launch may find and any number of rows, games, deaths and          *)
(* relaunches.                                                              *)
(***************************************************************************)
EXTENDS HexgRing, SequenceTheorems, FiniteSetTheorems, FunctionTheorems,
        WellFoundedInduction, TLAPS

-----------------------------------------------------------------------------
(* Arithmetic and sets *)

\* One wrap is all a position of the ring ever needs: the code's `% capacity`
\* is applied to sums below twice the capacity.
LEMMA ModRange ==
  ASSUME NEW c \in Nat \ {0}, NEW x \in 0 .. 2 * c - 1
  PROVE  x % c = IF x < c THEN x ELSE x - c
<1>1. CASE x < c
  BY <1>1
<1>2. CASE ~(x < c)
  BY <1>2
<1> QED BY <1>1, <1>2

\* A set of naturals has a least element.
LEMMA NatLeast ==
  ASSUME NEW S, S \subseteq Nat, S # {}
  PROVE  \E n \in S : \A m \in S : n <= m
<1> DEFINE R == OpToRel(<, Nat)
<1>1. IsWellFoundedOn(R, Nat)
  BY NatLessThanWellFounded
<1>2. \A m, n \in Nat : <<m, n>> \in R <=> m < n
  BY DEF OpToRel
<1> HIDE DEF R
<1>3. PICK n \in S : \A m \in S : ~ (<<m, n>> \in R)
  BY <1>1, WFMin
<1>4. \A m \in S : m \in Nat /\ n \in Nat /\ ~(m < n)
  BY <1>2, <1>3
<1> QED BY <1>4

\* load_record_rows takes the largest id of the file plus one: above every id
\* of it, a natural number even for a file without a tagged row.
LEMMA FreeIdIsFresh ==
  ASSUME NEW rows \in Seq(Rows)
  PROVE  /\ FirstFreeId(rows) \in Nat
         /\ \A i \in DOMAIN rows : rows[i].gid < FirstFreeId(rows)
<1> DEFINE free == {0} \cup {rows[i].gid + 1 : i \in DOMAIN rows}
           Bounds(n) == {b \in Nat : \A i \in 1 .. n : rows[i].gid + 1 <= b}
           Unbounded == {n \in 0 .. Len(rows) : Bounds(n) = {}}
<1>1. /\ Len(rows) \in Nat /\ DOMAIN rows = 1 .. Len(rows)
      /\ \A i \in 1 .. Len(rows) : rows[i].gid \in Int /\ rows[i].gid + 1 \in Nat
  <2>1. \A i \in 1 .. Len(rows) : rows[i] \in Rows
    BY ElementOfSeq
  <2> QED BY <2>1, LenProperties DEF Rows, Untagged
<1>2. Unbounded = {}
  <2> SUFFICES ASSUME Unbounded # {} PROVE FALSE
    OBVIOUS
  <2>1. PICK n \in Unbounded : \A m \in Unbounded : n <= m
    <3>1. Unbounded \subseteq Nat
      BY <1>1
    <3> HIDE DEF Unbounded
    <3> QED BY <3>1, NatLeast
  <2>2. n # 0
    <3> SUFFICES ASSUME n = 0 PROVE 0 \in Bounds(n)
      OBVIOUS
    <3> QED OBVIOUS
  <2>3. n - 1 \in 0 .. Len(rows) /\ n - 1 \notin Unbounded
    <3>1. n \in 0 .. Len(rows)
      OBVIOUS
    <3>2. n - 1 \in 0 .. Len(rows) /\ ~(n <= n - 1)
      BY ONLY <1>1, <2>2, <3>1
    <3> HIDE DEF Unbounded
    <3> QED BY <3>2, <2>1
  <2>4. PICK b \in Bounds(n - 1) : TRUE
    BY <2>3
  <2>5. \E c \in Nat : c >= b /\ c >= rows[n].gid + 1
    <3>1. b \in Nat /\ rows[n].gid + 1 \in Nat
      BY <1>1, <2>2
    <3>2. \A x, y \in Nat : \E c \in Nat : c >= x /\ c >= y
      <4> TAKE x, y \in Nat
      <4> WITNESS x + y \in Nat
      <4> QED OBVIOUS
    <3> QED BY ONLY <3>1, <3>2
  <2>6. PICK c \in Nat : c >= b /\ c >= rows[n].gid + 1
    BY <2>5
  <2>7. c \in Bounds(n)
    <3> SUFFICES ASSUME NEW i \in 1 .. n PROVE rows[i].gid + 1 <= c
      OBVIOUS
    <3>0. n \in Nat /\ n <= Len(rows) /\ rows[i].gid + 1 \in Nat /\ b \in Nat
      BY <1>1
    <3>1. CASE i = n
      BY <2>6, <3>1, <3>0
    <3>2. CASE i # n
      <4>1. i \in 1 .. (n - 1)
        BY <3>0, <3>2
      <4>2. rows[i].gid + 1 <= b
        BY <4>1, <2>4
      <4> QED BY <4>2, <2>6, <3>0
    <3> QED BY <3>1, <3>2
  <2> QED BY <2>7
<1> DEFINE Above == {b \in Nat : \A m \in free : m <= b}
<1>3. Above # {}
  <2>1. Len(rows) \in 0 .. Len(rows) /\ Len(rows) \notin Unbounded
    BY <1>1, <1>2
  <2>2. PICK b \in Bounds(Len(rows)) : TRUE
    BY <2>1
  <2>3. b \in Above
    BY <2>2, <1>1
  <2> QED BY <2>3
<1>4. PICK b \in Above : \A c \in Above : b <= c
  <2>1. Above \subseteq Nat
    OBVIOUS
  <2> HIDE DEF Above
  <2> QED BY <1>3, <2>1, NatLeast
<1>5. free \subseteq Nat
  BY <1>1
<1>6. b \in free
  <2> SUFFICES ASSUME b \notin free PROVE FALSE
    OBVIOUS
  <2>1. \A m \in free : m <= b - 1
    <3> HIDE DEF free
    <3> QED BY <1>4, <1>5
  <2>2. b - 1 \in Nat
    <3>1. 0 \in free
      OBVIOUS
    <3> HIDE DEF free
    <3> QED BY <3>1, <1>4, <1>5, <2>1
  <2>3. b - 1 \in Above
    BY <2>1, <2>2
  <2> QED BY <2>3, <2>2, <1>4
<1>7. \E n \in free : \A m \in free : m <= n
  BY <1>4, <1>6
<1>8. FirstFreeId(rows) = CHOOSE n \in free : \A m \in free : m <= n
  BY DEF FirstFreeId
<1>9. FirstFreeId(rows) \in free /\ \A m \in free : m <= FirstFreeId(rows)
  <2> HIDE DEF free
  <2> QED BY <1>7, <1>8
<1>10. ASSUME NEW i \in DOMAIN rows PROVE rows[i].gid < FirstFreeId(rows)
  <2>1. rows[i].gid + 1 \in free
    OBVIOUS
  <2>2. rows[i].gid + 1 <= FirstFreeId(rows) /\ FirstFreeId(rows) \in Nat
    BY <2>1, <1>9, <1>5
  <2> QED BY <2>2, <1>1
<1> QED BY <1>9, <1>5, <1>10

-----------------------------------------------------------------------------
(* Types, and where the rows are *)

\* Until the ring is full its rows are the slots below the head.
Shape ==
    /\ TypeOK /\ (size < capacity => head = size)
    /\ finished <= MaxGames

LEMMA Capacity ==
  ASSUME TypeOK
  PROVE  /\ capacity \in Nat \ {0} /\ size \in Nat /\ size <= capacity
         /\ head \in Nat /\ head < capacity
BY CapacityAssumption DEF TypeOK, Slots

LEMMA NoRowIsARow == NoRow \in Rows /\ NoRow.gid = Untagged /\ NoRow.weight \in Buckets
BY DEF NoRow, Rows, Games, Untagged, Buckets

LEMMA InitShape == Init => Shape
<1> SUFFICES ASSUME Init PROVE Shape
  OBVIOUS
<1>1. capacity \in Nat \ {0} /\ 0 \in Slots
  BY CapacityAssumption DEF Init, Slots
<1>2. disk \in Seq(Rows)
  <2>1. <<>> \in Seq(Rows)
    BY EmptySeq
  <2> QED BY <2>1, PreloadAssumption DEF Init
<1>3. batch \in Seq(Int)
  BY EmptySeq DEF Init
<1>4. DOMAIN allocated \subseteq Int /\ allocated \in [DOMAIN allocated -> Nat]
  <2>1. <<>> \in Seq(Nat)
    BY EmptySeq
  <2>2. DOMAIN <<>> = 1 .. Len(<<>>) /\ Len(<<>>) = 0
    BY <2>1, LenProperties, EmptySeq
  <2>3. allocated = <<>>
    BY DEF Init
  <2> QED BY <2>1, <2>2, <2>3, LenProperties
<1>5. slots \in [Slots -> Rows]
  BY NoRowIsARow DEF Init
<1>6. /\ size \in 0 .. capacity /\ head \in Slots /\ head = size
      /\ buckets \in [Buckets -> Int] /\ nextGameId \in Nat
  BY <1>1 DEF Init
<1>7. up \in BOOLEAN /\ launches \in Nat /\ capacity \in Capacities /\ finished \in Nat
      /\ pushed \in Nat /\ finished = 0
  BY DEF Init
<1>8. finished <= MaxGames
  BY <1>7, BoundAssumption
<1> QED BY <1>2, <1>3, <1>4, <1>5, <1>6, <1>7, <1>8 DEF Shape, TypeOK

\* The row at the front of the batch has its id by the time it is pushed.
LEMMA RowIsARow ==
  ASSUME TypeOK, batch # <<>>, ~NeedsId
  PROVE  /\ Head(batch) = Untagged \/ Head(batch) \in DOMAIN allocated
         /\ RowOf(Head(batch)) \in Rows
<1>1. Head(batch) \in Int
  BY HeadTailProperties DEF TypeOK
<1>2. Head(batch) = Untagged \/ Head(batch) \in DOMAIN allocated
  BY DEF NeedsId
<1>3. /\ launches \in Nat /\ pushed \in Nat
      /\ Head(batch) # Untagged => allocated[Head(batch)] \in Nat
  BY <1>2 DEF TypeOK
<1>4. [launch |-> launches, game |-> Head(batch)] \in Games
  BY <1>1, <1>3 DEF Games
<1>5. (IF Head(batch) = Untagged THEN Untagged ELSE allocated[Head(batch)])
        \in Nat \cup {Untagged}
  BY <1>3
<1> QED BY <1>2, <1>3, <1>4, <1>5 DEF RowOf, Rows, Buckets

LEMMA LaunchShape ==
  ASSUME Shape, NEW c \in Capacities, Launch(c)
  PROVE  Shape'
<1>1. c \in Nat \ {0} /\ disk \in Seq(Rows) /\ Len(disk) \in Nat /\ Len(disk) <= c
      /\ DOMAIN disk = 1 .. Len(disk)
  BY CapacityAssumption, LenProperties DEF Shape, TypeOK, Launch
<1>2. head' = (IF Len(disk) < c THEN Len(disk) ELSE 0)
  <2>1. Len(disk) \in 0 .. 2 * c - 1
    BY <1>1
  <2>2. Len(disk) % c = IF Len(disk) < c THEN Len(disk) ELSE Len(disk) - c
    BY <1>1, <2>1, ModRange
  <2> QED BY <2>2, <1>1 DEF Launch, HeadAfter
<1>3. slots' \in [Slots' -> Rows]
  <2>1. \A s \in 0 .. c - 1 : (IF s < Len(disk) THEN disk[s + 1] ELSE NoRow) \in Rows
    <3> SUFFICES ASSUME NEW s \in 0 .. c - 1
                 PROVE  s < Len(disk) => disk[s + 1] \in Rows
      BY NoRowIsARow
    <3> SUFFICES ASSUME s < Len(disk) PROVE disk[s + 1] \in Rows
      OBVIOUS
    <3>1. s + 1 \in 1 .. Len(disk)
      BY <1>1
    <3> QED BY <3>1, <1>1, ElementOfSeq
  <2> QED BY <2>1 DEF Launch, Slots
<1>4. nextGameId' \in Nat
  BY <1>1, FreeIdIsFresh DEF Launch
<1>5. buckets' \in [Buckets -> Int]
  <2>1. ASSUME NEW b \in Buckets
        PROVE  Cardinality({i \in DOMAIN disk : disk[i].weight = b}) \in Int
    <3>1. IsFiniteSet(1 .. Len(disk))
      BY <1>1, FS_Interval
    <3>2. {i \in DOMAIN disk : disk[i].weight = b} \in SUBSET (1 .. Len(disk))
      BY <1>1
    <3> QED BY <3>1, <3>2, FS_Subset, FS_CardinalityType
  <2> QED BY <2>1 DEF Launch
<1>6. size' \in 0 .. capacity' /\ head' \in Slots' /\ (size' < capacity' => head' = size')
  BY <1>1, <1>2 DEF Launch, Slots
<1>7. UNCHANGED <<disk, finished, batch, allocated, pushed>> /\ up' = TRUE
      /\ launches' \in Nat /\ capacity' = c
  BY DEF Launch, feedVars, Shape, TypeOK
<1> QED BY <1>1, <1>3, <1>4, <1>5, <1>6, <1>7 DEF Shape, TypeOK

LEMMA EmptyDict == DOMAIN <<>> = {} /\ <<>> \in [DOMAIN <<>> -> Nat]
<1>1. <<>> \in Seq(Nat) /\ Len(<<>>) = 0
  BY EmptySeq
<1> QED BY <1>1, LenProperties

LEMMA DieShape ==
  ASSUME Shape, Die
  PROVE  Shape'
<1>1. capacity \in Nat \ {0} /\ capacity' = capacity
  BY Capacity DEF Shape, Die
<1>2. slots' \in [Slots' -> Rows]
  BY <1>1, NoRowIsARow DEF Die, Slots
<1>3. batch' \in Seq(Int) /\ finished' \in Nat /\ finished' <= MaxGames
  BY EmptySeq, BoundAssumption DEF Die
<1>4. DOMAIN allocated' \subseteq Int /\ allocated' \in [DOMAIN allocated' -> Nat]
  BY EmptyDict DEF Die
<1>5. size' \in 0 .. capacity' /\ head' \in Slots' /\ head' = size' /\ nextGameId' \in Nat
      /\ buckets' \in [Buckets -> Int]
  BY <1>1 DEF Die, Slots
<1>6. UNCHANGED <<capacity, launches, disk, pushed>> /\ up' = FALSE
  BY DEF Die
<1> QED BY <1>2, <1>3, <1>4, <1>5, <1>6 DEF Shape, TypeOK

\* The rows held, oldest first, as a sequence: until the ring is full the order
\* is the slots', and then it starts at the head.
LEMMA Unrolled ==
  ASSUME NEW c \in Nat \ {0}, NEW n \in 0 .. c, NEW h \in 0 .. c - 1, n < c => h = n,
         NEW sl \in [0 .. c - 1 -> Rows]
  PROVE  LET at(i) == (h + c - n + i - 1) % c
             rows == [i \in 1 .. n |-> sl[at(i)]]
         IN  /\ rows \in Seq(Rows) /\ Len(rows) = n
             /\ \A i \in 1 .. n :
                  at(i) = IF n < c THEN i - 1
                          ELSE IF h + i - 1 < c THEN h + i - 1 ELSE h + i - 1 - c
<1> DEFINE at(i) == (h + c - n + i - 1) % c
           rows == [i \in 1 .. n |-> sl[at(i)]]
<1>1. ASSUME NEW i \in 1 .. n
      PROVE  /\ at(i) \in 0 .. c - 1
             /\ at(i) = IF n < c THEN i - 1
                        ELSE IF h + i - 1 < c THEN h + i - 1 ELSE h + i - 1 - c
  <2> DEFINE x == h + c - n + i - 1
  <2>1. x \in 0 .. 2 * c - 1
    OBVIOUS
  <2>2. x % c = IF x < c THEN x ELSE x - c
    <3> HIDE DEF x
    <3> QED BY <2>1, ModRange
  <2> QED BY <2>2
<1>2. \A i \in 1 .. n : sl[at(i)] \in Rows
  BY <1>1
<1>3. rows \in Seq(Rows)
  <2> HIDE DEF at
  <2> QED BY <1>2, IsASeq
<1>4. Len(rows) = n
  <2> HIDE DEF at
  <2> QED BY <1>3, LenProperties
<1> QED BY <1>1, <1>3, <1>4

LEMMA ContentsSeq ==
  Shape => /\ Contents \in Seq(Rows) /\ Len(Contents) = size
           /\ \A i \in 1 .. size :
                Contents[i] = slots[IF size < capacity THEN i - 1
                                    ELSE IF head + i - 1 < capacity THEN head + i - 1
                                    ELSE head + i - 1 - capacity]
<1> SUFFICES ASSUME Shape
             PROVE  /\ Contents \in Seq(Rows) /\ Len(Contents) = size
                    /\ \A i \in 1 .. size :
                         Contents[i] = slots[IF size < capacity THEN i - 1
                                             ELSE IF head + i - 1 < capacity THEN head + i - 1
                                             ELSE head + i - 1 - capacity]
  OBVIOUS
<1>1. /\ capacity \in Nat \ {0} /\ size \in 0 .. capacity /\ head \in 0 .. capacity - 1
      /\ slots \in [0 .. capacity - 1 -> Rows] /\ (size < capacity => head = size)
  BY CapacityAssumption DEF Shape, TypeOK, Slots
<1> QED BY <1>1, Unrolled DEF Contents, SlotOf

LEMMA ContentsSeqNext ==
  Shape' => /\ Contents' \in Seq(Rows) /\ Len(Contents') = size'
            /\ \A i \in 1 .. size' :
                 Contents'[i] = slots'[IF size' < capacity' THEN i - 1
                                       ELSE IF head' + i - 1 < capacity' THEN head' + i - 1
                                       ELSE head' + i - 1 - capacity']
<1> SUFFICES ASSUME Shape'
             PROVE  /\ Contents' \in Seq(Rows) /\ Len(Contents') = size'
                    /\ \A i \in 1 .. size' :
                         Contents'[i] = slots'[IF size' < capacity' THEN i - 1
                                               ELSE IF head' + i - 1 < capacity'
                                                    THEN head' + i - 1
                                                    ELSE head' + i - 1 - capacity']
  OBVIOUS
<1>1. /\ capacity' \in Nat \ {0} /\ size' \in 0 .. capacity' /\ head' \in 0 .. capacity' - 1
      /\ slots' \in [0 .. capacity' - 1 -> Rows] /\ (size' < capacity' => head' = size')
  BY CapacityAssumption DEF Shape, TypeOK, Slots
<1> QED BY <1>1, Unrolled DEF Contents, SlotOf

LEMMA SaveShape ==
  ASSUME Shape, Save
  PROVE  Shape'
<1>1. disk' \in Seq(Rows)
  BY ContentsSeq DEF Save
<1> QED BY <1>1 DEF Shape, TypeOK, Save, Slots, ringVars, feedVars

\* A drained batch: the untagged mark and the games that just got an id.
LEMMA Drained ==
  ASSUME TypeOK, finished <= MaxGames, Drain
  PROVE  /\ batch' \in Seq(Int) /\ finished' \in Nat
         /\ finished <= finished' /\ finished' <= MaxGames
         /\ \A i \in DOMAIN batch' : batch'[i] # Untagged =>
              batch'[i] >= finished /\ batch'[i] < finished'
<1>1. PICK n \in 1 .. MaxBatch :
             \E b \in [1 .. n -> {Untagged} \cup finished .. MaxGames - 1] :
        LET tagged == {b[i] : i \in 1 .. n} \ {Untagged} IN
        /\ tagged = finished .. finished + Cardinality(tagged) - 1
        /\ batch' = b /\ finished' = finished + Cardinality(tagged)
  BY DEF Drain
<1>0. PICK b \in [1 .. n -> {Untagged} \cup finished .. MaxGames - 1] :
        LET tagged == {b[i] : i \in 1 .. n} \ {Untagged} IN
        /\ tagged = finished .. finished + Cardinality(tagged) - 1
        /\ batch' = b /\ finished' = finished + Cardinality(tagged)
  BY <1>1
<1> DEFINE tagged == {b[i] : i \in 1 .. n} \ {Untagged}
<1>2. finished \in Nat /\ MaxGames \in Nat /\ n \in Nat
  BY BoundAssumption DEF TypeOK
<1>3. tagged \subseteq finished .. MaxGames - 1
  OBVIOUS
<1>4. Cardinality(tagged) \in Nat
  <2>1. IsFiniteSet(finished .. MaxGames - 1)
    BY <1>2, FS_Interval
  <2> HIDE DEF tagged
  <2> QED BY <1>3, <2>1, FS_Subset, FS_CardinalityType
<1>5. /\ tagged = finished .. finished + Cardinality(tagged) - 1
      /\ batch' = b /\ finished' = finished + Cardinality(tagged)
  BY <1>0
<1>6. batch' \in Seq(Int)
  <2>1. \A i \in 1 .. n : b[i] \in Int
    BY <1>2 DEF Untagged
  <2>2. b = [i \in 1 .. n |-> b[i]]
    OBVIOUS
  <2>3. [i \in 1 .. n |-> b[i]] \in Seq(Int)
    BY <2>1, <1>2, IsASeq
  <2> QED BY <2>2, <2>3, <1>5
<1>7. \A i \in DOMAIN batch' : batch'[i] # Untagged => batch'[i] \in tagged
  BY <1>5
<1>8. finished' <= MaxGames
  <2> HIDE DEF tagged
  <2>1. CASE Cardinality(tagged) = 0
    BY <2>1, <1>2, <1>5
  <2>2. CASE Cardinality(tagged) # 0
    <3>1. finished + Cardinality(tagged) - 1 \in tagged
      BY <2>2, <1>2, <1>4, <1>5
    <3> QED BY <3>1, <1>2, <1>3, <1>4, <1>5
  <2> QED BY <2>1, <2>2
<1>9. \A g \in tagged : g >= finished /\ g < finished'
  <2> HIDE DEF tagged
  <2> QED BY <1>2, <1>4, <1>5
<1> HIDE DEF tagged
<1> QED BY <1>2, <1>4, <1>5, <1>6, <1>7, <1>8, <1>9

LEMMA DrainShape ==
  ASSUME Shape, Drain
  PROVE  Shape'
<1>1. batch' \in Seq(Int) /\ finished' \in Nat /\ finished' <= MaxGames
  BY Drained DEF Shape
<1>2. DOMAIN allocated' \subseteq Int /\ allocated' \in [DOMAIN allocated' -> Nat]
  BY EmptyDict DEF Drain
<1> QED BY <1>1, <1>2 DEF Shape, TypeOK, Drain, Slots, ringVars

LEMMA AllocateShape ==
  ASSUME Shape, AllocateId
  PROVE  Shape'
<1>1. Head(batch) \in Int
  BY HeadTailProperties DEF Shape, TypeOK, AllocateId, NeedsId
<1>2. DOMAIN allocated' \subseteq Int /\ allocated' \in [DOMAIN allocated' -> Nat]
  BY <1>1 DEF Shape, TypeOK, AllocateId
<1>3. nextGameId' \in Nat
  BY DEF Shape, TypeOK, AllocateId
<1> QED BY <1>2, <1>3 DEF Shape, TypeOK, AllocateId, Slots

\* What a push does to the ring: one slot written, the head moved on one, the
\* count grown unless the ring was full.
LEMMA PushFacts ==
  ASSUME Shape, PushRow
  PROVE  /\ RowOf(Head(batch)) \in Rows
         /\ slots' = [slots EXCEPT ![head] = RowOf(Head(batch))]
         /\ head' = IF head + 1 < capacity THEN head + 1 ELSE 0
         /\ size' = IF size = capacity THEN size ELSE size + 1
         /\ capacity' = capacity /\ Slots' = Slots
<1>1. head \in Nat /\ capacity \in Nat \ {0} /\ head < capacity
  BY Capacity DEF Shape
<1>2. (head + 1) % capacity = IF head + 1 < capacity THEN head + 1 ELSE 0
  <2> DEFINE x == head + 1
  <2>1. x \in 0 .. 2 * capacity - 1 /\ (~(x < capacity) => x = capacity)
    BY <1>1
  <2>2. x % capacity = IF x < capacity THEN x ELSE x - capacity
    <3> HIDE DEF x
    <3> QED BY <1>1, <2>1, ModRange
  <2> QED BY <1>1, <2>1, <2>2
<1>3. RowOf(Head(batch)) \in Rows
  BY RowIsARow DEF Shape, PushRow
<1> QED BY <1>2, <1>3 DEF PushRow, Slots

LEMMA PushShape ==
  ASSUME Shape, PushRow
  PROVE  Shape'
<1>1. /\ capacity \in Nat \ {0} /\ size \in Nat /\ size <= capacity
      /\ head \in Nat /\ head < capacity /\ (size < capacity => head = size)
  BY Capacity DEF Shape
<1>2. slots' \in [Slots' -> Rows]
  BY PushFacts DEF Shape, TypeOK
<1>3. size' \in 0 .. capacity' /\ head' \in Slots' /\ (size' < capacity' => head' = size')
  BY <1>1, PushFacts DEF Slots
<1>4. batch' \in Seq(Int)
  BY HeadTailProperties DEF Shape, TypeOK, PushRow
<1>5. buckets' \in [Buckets -> Int]
  <2>1. slots[head].weight \in Buckets /\ "full" \in Buckets
    BY DEF Shape, TypeOK, Rows, Buckets
  <2>2. buckets \in [Buckets -> Int] /\ buckets' = Counted(buckets, slots[head].weight, "full")
    BY DEF Shape, TypeOK, PushRow
  <2> QED BY <2>1, <2>2 DEF Counted
<1>6. pushed' \in Nat
  BY DEF PushRow, Shape, TypeOK
<1> QED BY <1>2, <1>3, <1>4, <1>5, <1>6 DEF Shape, TypeOK, PushRow

LEMMA RefuseShape ==
  ASSUME Shape, RefuseRow
  PROVE  Shape'
<1>1. batch' \in Seq(Int) /\ finished' \in Nat /\ finished' <= MaxGames
  BY EmptySeq, BoundAssumption DEF RefuseRow
<1> QED BY <1>1 DEF Shape, TypeOK, RefuseRow, Slots, ringVars

LEMMA NextShape ==
  ASSUME Shape, [Next]_vars
  PROVE  Shape'
<1>1. CASE \E c \in Capacities : Launch(c)
  BY <1>1, LaunchShape
<1>2. CASE Die
  BY <1>2, DieShape
<1>3. CASE Save
  BY <1>3, SaveShape
<1>4. CASE Drain
  BY <1>4, DrainShape
<1>5. CASE AllocateId
  BY <1>5, AllocateShape
<1>6. CASE PushRow
  BY <1>6, PushShape
<1>7. CASE RefuseRow
  BY <1>7, RefuseShape
<1>8. CASE UNCHANGED vars
  BY <1>8 DEF Shape, TypeOK, Slots, vars, ringVars, feedVars
<1> QED BY <1>1, <1>2, <1>3, <1>4, <1>5, <1>6, <1>7, <1>8 DEF Next

\* The ring keeps its types, and its head and count stay within the capacity, for
\* any capacity a relaunch is given and however often push_record_impl wraps.
THEOREM RingTypes == Spec => []TypeOK
<1>1. Shape /\ [Next]_vars => Shape'
  BY NextShape
<1>2. Shape => TypeOK
  BY DEF Shape
<1> QED BY InitShape, <1>1, <1>2, PTL DEF Spec

-----------------------------------------------------------------------------
(* The ring implements the log *)

LEMMA EmptyContents ==
  ASSUME Shape, size = 0
  PROVE  Contents = <<>>
BY ContentsSeq, EmptySeq

LEMMA LaunchReadsTheFile ==
  ASSUME Shape, Shape', NEW c \in Capacities, Launch(c)
  PROVE  Contents' = disk /\ Len(Contents') <= capacity' /\ capacity' > 0
<1>1. disk \in Seq(Rows) /\ Len(disk) \in Nat /\ Len(disk) <= c /\ c \in Nat \ {0}
  BY CapacityAssumption, LenProperties DEF Shape, TypeOK, Launch
<1>2. /\ capacity' = c /\ size' = Len(disk) /\ head' = Len(disk) % c
      /\ slots' = [s \in 0 .. c - 1 |-> IF s < Len(disk) THEN disk[s + 1] ELSE NoRow]
  BY DEF Launch, HeadAfter
<1>3. size' = capacity' => head' = 0
  BY <1>1, <1>2
<1>4. Contents' \in Seq(Rows) /\ Len(Contents') = Len(disk)
  BY ContentsSeqNext, <1>2
<1>5. ASSUME NEW i \in 1 .. Len(disk) PROVE Contents'[i] = disk[i]
  <2>1. Contents'[i] = slots'[i - 1]
    <3>1. (IF size' < capacity' THEN i - 1
           ELSE IF head' + i - 1 < capacity' THEN head' + i - 1
           ELSE head' + i - 1 - capacity') = i - 1
      <4>1. ~(size' < capacity') => head' = 0 /\ i - 1 < capacity'
        BY <1>1, <1>2, <1>3
      <4> QED BY <4>1
    <3> QED BY <3>1, <1>2, ContentsSeqNext
  <2>2. i - 1 \in 0 .. c - 1 /\ i - 1 < Len(disk) /\ (i - 1) + 1 = i
    BY <1>1
  <2>3. slots'[i - 1] = disk[(i - 1) + 1]
    BY <2>2, <1>2
  <2> QED BY <2>1, <2>2, <2>3
<1>6. Contents' = disk
  BY <1>1, <1>4, <1>5, SeqEqual
<1> QED BY <1>1, <1>2, <1>4, <1>6

\* A push onto a ring that is not full appends; onto a full one it also drops the
\* oldest row, whichever slot that was in.
LEMMA PushKeepsNewest ==
  ASSUME Shape, Shape', PushRow
  PROVE  /\ Contents' # <<>> /\ Contents'[Len(Contents')] = RowOf(Head(batch))
         /\ Contents' = Log!Newest(Append(Contents, Contents'[Len(Contents')]), capacity)
<1> DEFINE r == RowOf(Head(batch))
           app == Append(Contents, r)
<1>1. /\ capacity \in Nat \ {0} /\ size \in Nat /\ size <= capacity
      /\ head \in Nat /\ head < capacity /\ (size < capacity => head = size)
  BY Capacity DEF Shape
<1>2. /\ slots \in [0 .. capacity - 1 -> Rows]
      /\ slots' = [slots EXCEPT ![head] = r] /\ r \in Rows
      /\ head' = IF head + 1 < capacity THEN head + 1 ELSE 0
      /\ size' = IF size = capacity THEN size ELSE size + 1
      /\ capacity' = capacity
  BY PushFacts DEF Shape, TypeOK, Slots
<1>3. \A s \in 0 .. capacity - 1 : slots'[s] = IF s = head THEN r ELSE slots[s]
  BY <1>2
<1> HIDE DEF r
<1>4. /\ Contents \in Seq(Rows) /\ Len(Contents) = size
      /\ \A i \in 1 .. size :
           Contents[i] = slots[IF size < capacity THEN i - 1
                               ELSE IF head + i - 1 < capacity THEN head + i - 1
                               ELSE head + i - 1 - capacity]
  BY ContentsSeq
<1>5. /\ Contents' \in Seq(Rows) /\ Len(Contents') = size'
      /\ \A i \in 1 .. size' :
           Contents'[i] = slots'[IF size' < capacity THEN i - 1
                                 ELSE IF head' + i - 1 < capacity THEN head' + i - 1
                                 ELSE head' + i - 1 - capacity]
  BY ContentsSeqNext, <1>2
<1>6. /\ app \in Seq(Rows) /\ Len(app) = size + 1
      /\ \A i \in 1 .. size : app[i] = Contents[i]
      /\ app[size + 1] = r
  BY <1>2, <1>4, AppendProperties
<1> HIDE DEF app
<1>7. Contents'[size'] = r /\ size' >= 1
  <2>1. CASE size < capacity
    <3>1. size' = size + 1 /\ head = size
      BY <2>1, <1>1, <1>2
    <3>2. (IF size' < capacity THEN size' - 1
           ELSE IF head' + size' - 1 < capacity THEN head' + size' - 1
           ELSE head' + size' - 1 - capacity) = head
      BY <3>1, <1>1, <1>2, <2>1
    <3>3. Contents'[size'] = slots'[head]
      BY <3>1, <3>2, <1>1, <1>5
    <3> QED BY <3>1, <3>3, <1>1, <1>3
  <2>2. CASE size = capacity
    <3>1. size' = capacity
      BY <2>2, <1>1, <1>2
    <3>2. (IF size' < capacity THEN size' - 1
           ELSE IF head' + size' - 1 < capacity THEN head' + size' - 1
           ELSE head' + size' - 1 - capacity) = head
      BY <3>1, <1>1, <1>2
    <3>3. Contents'[size'] = slots'[head]
      BY <3>1, <3>2, <1>1, <1>5
    <3> QED BY <3>1, <3>3, <1>1, <1>3
  <2> QED BY <2>1, <2>2, <1>1
<1>8. CASE size < capacity
  <2>1. size' = size + 1 /\ head = size
    BY <1>8, <1>1, <1>2
  <2>2. Log!Newest(app, capacity) = app
    BY <1>8, <1>1, <1>6 DEF Log!Newest
  <2>3. ASSUME NEW i \in 1 .. size PROVE Contents'[i] = app[i]
    <3>1. Contents'[i] = slots'[i - 1] /\ Contents[i] = slots[i - 1]
      BY <1>8, <2>1, <1>1, <1>2, <1>4, <1>5
    <3>2. i - 1 \in 0 .. capacity - 1 /\ i - 1 # head
      BY <1>8, <2>1, <1>1
    <3> QED BY <3>1, <3>2, <1>3, <1>6
  <2>4. \A i \in 1 .. Len(Contents') : Contents'[i] = app[i]
    BY <2>1, <2>3, <1>1, <1>5, <1>6, <1>7
  <2>5. Contents' = app
    BY <2>1, <2>4, <1>5, <1>6, SeqEqual
  <2> QED BY <2>2, <2>5, <1>5, <1>7, EmptySeq DEF app, r
<1>9. CASE size = capacity
  <2>1. size' = capacity
    BY <1>9, <1>1, <1>2
  <2>2. Log!Newest(app, capacity) = SubSeq(app, 2, capacity + 1)
    BY <1>9, <1>1, <1>6 DEF Log!Newest
  <2>3. \A i \in 2 .. capacity + 1 : app[i] \in Rows
    BY <1>9, <1>1, <1>6, ElementOfSeq
  <2>4. /\ SubSeq(app, 2, capacity + 1) \in Seq(Rows)
        /\ Len(SubSeq(app, 2, capacity + 1)) = capacity
        /\ \A i \in 1 .. capacity : SubSeq(app, 2, capacity + 1)[i] = app[i + 1]
    BY <1>1, <2>3, SubSeqProperties
  <2>5. ASSUME NEW i \in 1 .. capacity - 1 PROVE Contents'[i] = app[i + 1]
    <3> DEFINE s == IF head + i < capacity THEN head + i ELSE head + i - capacity
    <3>1. Contents[i + 1] = slots[s]
      BY <1>9, <1>1, <1>4
    <3>2. Contents'[i] = slots'[s]
      <4>1. (IF head' + i - 1 < capacity THEN head' + i - 1 ELSE head' + i - 1 - capacity) = s
        BY <1>1, <1>2
      <4> HIDE DEF s
      <4> QED BY <4>1, <2>1, <1>1, <1>5
    <3>3. s \in 0 .. capacity - 1 /\ s # head
      BY <1>1
    <3>4. i + 1 \in 1 .. size
      BY <1>1, <1>9
    <3> HIDE DEF s
    <3> QED BY <3>1, <3>2, <3>3, <3>4, <1>3, <1>6
  <2>6. \A i \in 1 .. Len(Contents') :
          Contents'[i] = SubSeq(app, 2, capacity + 1)[i]
    BY <1>9, <2>1, <2>4, <2>5, <1>1, <1>5, <1>6, <1>7
  <2>7. Contents' = SubSeq(app, 2, capacity + 1)
    BY <2>1, <2>4, <2>6, <1>5, SeqEqual
  <2> QED BY <2>1, <2>2, <2>7, <1>1, <1>5, <1>7, EmptySeq DEF app, r
<1> QED BY <1>1, <1>8, <1>9

LEMMA LogStep ==
  ASSUME Shape, Shape', [Next]_vars
  PROVE  [Log!LogNext]_(Log!vars)
<1>1. ASSUME NEW c \in Capacities, Launch(c) PROVE Log!Launch
  <2>1. disk' = disk
    BY <1>1 DEF Launch
  <2> QED BY <1>1, <2>1, LaunchReadsTheFile DEF Log!Launch
<1>2. CASE Die
  <2>1. Contents' = <<>>
    <3>1. size' = 0
      BY <1>2 DEF Die
    <3> QED BY <3>1, ContentsSeqNext, EmptySeq
  <2> QED BY <1>2, <2>1 DEF Die, Log!Die, Log!LogNext
<1>3. CASE Save
  <2>1. Contents' = Contents /\ capacity' = capacity
    BY <1>3 DEF Save, ringVars, Contents, SlotOf
  <2> QED BY <1>3, <2>1 DEF Save, Log!Save, Log!LogNext
<1>4. CASE PushRow
  <2>1. capacity' = capacity /\ disk' = disk
    BY <1>4 DEF PushRow
  <2> QED BY <1>4, <2>1, PushKeepsNewest DEF Log!Push, Log!LogNext
<1>5. CASE Drain \/ AllocateId \/ RefuseRow \/ UNCHANGED vars
  <2>1. UNCHANGED <<head, capacity, size, slots, disk>>
    BY <1>5 DEF Drain, AllocateId, RefuseRow, ringVars, vars
  <2>2. Contents' = Contents
    BY <2>1 DEF Contents, SlotOf
  <2> QED BY <2>1, <2>2 DEF Log!vars
<1> QED BY <1>1, <1>2, <1>3, <1>4, <1>5 DEF Next, Log!LogNext

\* The ring implements the log for every capacity and any number of rows: over
\* push_record_impl's wraps, saves, deaths and relaunches into another capacity it
\* holds the newest rows in order.
THEOREM RingImplementsLog == Spec => KeepsNewestInOrder
<1>1. Init => Log!LogInit
  <2> SUFFICES ASSUME Init PROVE Log!LogInit
    OBVIOUS
  <2>1. Shape /\ size = 0
    BY InitShape DEF Init
  <2>2. capacity > 0
    BY <2>1, Capacity DEF Shape
  <2> QED BY <2>1, <2>2, EmptyContents DEF Log!LogInit
<1>2. Shape /\ [Next]_vars => Shape'
  BY NextShape
<1>3. Shape /\ Shape' /\ [Next]_vars => [Log!LogNext]_(Log!vars)
  BY LogStep
<1> QED BY InitShape, <1>1, <1>2, <1>3, PTL DEF Spec, KeepsNewestInOrder, Log!LogSpec

-----------------------------------------------------------------------------
(* Rows of one game share their id *)

\* The ring's id for a game of this launch's runner.
GameOf(g) == [launch |-> launches, game |-> g]

\* What push_graph's dict and next_game_id rely on: a game the feeder still has to
\* give an id has no row in the ring, a game that has one has it on every row,
\* and ids above every row's are free.
Known ==
    \A s \in Slots :
        /\ slots[s].gid < nextGameId /\ slots[s].of.launch <= launches
        /\ slots[s].gid # Untagged /\ slots[s].of.launch = launches =>
             slots[s].of.game < finished
Grouped ==
    \A s, t \in Slots : slots[s].gid # Untagged /\ slots[t].gid # Untagged =>
        (slots[s].gid = slots[t].gid <=> slots[s].of = slots[t].of)
FileGrouped ==
    /\ \A i \in DOMAIN disk : disk[i].of.launch <= launches
    /\ \A i, j \in DOMAIN disk : disk[i].gid # Untagged /\ disk[j].gid # Untagged =>
         (disk[i].gid = disk[j].gid <=> disk[i].of = disk[j].of)
Idle == ~up => finished = 0 /\ batch = <<>> /\ allocated = <<>>
BatchOK ==
    \A i \in DOMAIN batch : batch[i] # Untagged =>
        /\ batch[i] < finished
        /\ batch[i] \notin DOMAIN allocated =>
             \A s \in Slots : slots[s].gid # Untagged => slots[s].of # GameOf(batch[i])
DictOK ==
    \A g \in DOMAIN allocated :
        /\ g # Untagged /\ g < finished /\ allocated[g] < nextGameId
        /\ \A h \in DOMAIN allocated : allocated[g] = allocated[h] => g = h
        /\ \A s \in Slots : slots[s].gid # Untagged =>
             (slots[s].gid = allocated[g] <=> slots[s].of = GameOf(g))

GroupInv == Known /\ Grouped /\ FileGrouped /\ Idle /\ BatchOK /\ DictOK

LEMMA EmptyBatch == DOMAIN <<>> = {}
BY EmptyDict

\* An empty ring has nothing to group.
LEMMA NoRowsGrouped ==
  ASSUME NEW sl, NEW S, sl = [s \in S |-> NoRow]
  PROVE  \A s \in S : sl[s].gid = Untagged /\ sl[s].of.launch = 0
BY DEF NoRow

LEMMA InitGroups == Init => GroupInv
<1> SUFFICES ASSUME Init PROVE GroupInv
  OBVIOUS
<1>1. \A s \in Slots : slots[s].gid = Untagged /\ slots[s].of.launch = 0
  BY NoRowsGrouped DEF Init
<1>2. Known /\ Grouped
  BY <1>1 DEF Known, Grouped, Init, Untagged
<1>3. FileGrouped
  <2>1. CASE disk = <<>>
    BY <2>1, EmptyBatch DEF FileGrouped
  <2>2. CASE disk \in Preloads
    <3>1. disk \in Seq(Rows)
          /\ \A i \in DOMAIN disk : disk[i].of = [launch |-> 0, game |-> disk[i].gid]
      BY <2>2, PreloadAssumption
    <3>2. ASSUME NEW i \in DOMAIN disk
          PROVE  disk[i].of.launch = 0 /\ disk[i].of.game = disk[i].gid
      <4>1. disk[i].of = [launch |-> 0, game |-> disk[i].gid]
        BY <3>1
      <4> QED BY <4>1
    <3>3. ASSUME NEW i \in DOMAIN disk, NEW j \in DOMAIN disk
          PROVE  disk[i].gid = disk[j].gid <=> disk[i].of = disk[j].of
      <4>1. /\ disk[i].of = [launch |-> 0, game |-> disk[i].gid]
            /\ disk[j].of = [launch |-> 0, game |-> disk[j].gid]
        BY <3>1
      <4> QED BY <4>1, <3>2
    <3> QED BY <3>2, <3>3 DEF FileGrouped, Init
  <2> QED BY <2>1, <2>2 DEF Init
<1>4. Idle /\ BatchOK /\ DictOK
  BY EmptyBatch DEF Idle, BatchOK, DictOK, Init
<1> QED BY <1>2, <1>3, <1>4 DEF GroupInv

LEMMA RowTypes ==
  ASSUME Shape
  PROVE  /\ \A s \in Slots : slots[s].gid \in Nat \cup {Untagged} /\ slots[s].of.launch \in Nat
              /\ slots[s].of.game \in Int /\ slots[s].weight \in Buckets
         /\ \A i \in DOMAIN disk :
              /\ disk[i].gid \in Nat \cup {Untagged} /\ disk[i].of.launch \in Nat
              /\ disk[i] \in Rows
         /\ DOMAIN disk = 1 .. Len(disk) /\ Len(disk) \in Nat
         /\ DOMAIN batch = 1 .. Len(batch) /\ Len(batch) \in Nat
         /\ \A i \in DOMAIN batch : batch[i] \in Int
         /\ launches \in Nat /\ nextGameId \in Nat /\ finished \in Nat
         /\ DOMAIN allocated \subseteq Int
         /\ \A g \in DOMAIN allocated : allocated[g] \in Nat
<1>1. \A s \in Slots : slots[s] \in Rows
  BY DEF Shape, TypeOK
<1>2. \A i \in DOMAIN disk : disk[i] \in Rows
  BY ElementOfSeq, LenProperties DEF Shape, TypeOK
<1>3. \A i \in DOMAIN batch : batch[i] \in Int
  BY ElementOfSeq, LenProperties DEF Shape, TypeOK
<1>4. /\ DOMAIN disk = 1 .. Len(disk) /\ Len(disk) \in Nat
      /\ DOMAIN batch = 1 .. Len(batch) /\ Len(batch) \in Nat
  BY LenProperties DEF Shape, TypeOK
<1> QED BY <1>1, <1>2, <1>3, <1>4 DEF Rows, Games, Shape, TypeOK

LEMMA LaunchGroups ==
  ASSUME Shape, GroupInv, NEW c \in Capacities, Launch(c)
  PROVE  GroupInv'
<1>1. /\ slots' = [s \in 0 .. c - 1 |-> IF s < Len(disk) THEN disk[s + 1] ELSE NoRow]
      /\ Slots' = 0 .. c - 1 /\ c \in Nat /\ launches' = launches + 1
      /\ nextGameId' = FirstFreeId(disk)
      /\ UNCHANGED <<disk, finished, batch, allocated>>
  BY CapacityAssumption DEF Launch, Slots, feedVars
<1>2. finished = 0 /\ batch = <<>> /\ allocated = <<>>
  BY DEF Launch, GroupInv, Idle
<1>3. /\ FirstFreeId(disk) \in Nat
      /\ \A i \in DOMAIN disk : disk[i].gid < FirstFreeId(disk)
  BY FreeIdIsFresh DEF Shape, TypeOK
<1>4. ASSUME NEW s \in Slots'
      PROVE  \/ slots'[s] = NoRow
             \/ s + 1 \in DOMAIN disk /\ slots'[s] = disk[s + 1]
  BY <1>1, RowTypes
<1>5. launches \in Nat /\ \A i \in DOMAIN disk : disk[i].of.launch <= launches
                                                 /\ disk[i].of.launch \in Nat
  BY RowTypes DEF GroupInv, FileGrouped
<1>6. Known'
  <2>1. \A s \in Slots' : slots'[s].gid < nextGameId' /\ slots'[s].of.launch < launches'
    <3> SUFFICES ASSUME NEW s \in Slots'
                 PROVE  slots'[s].gid < nextGameId' /\ slots'[s].of.launch < launches'
      OBVIOUS
    <3>1. CASE slots'[s] = NoRow
      BY <3>1, <1>1, <1>3, <1>5 DEF NoRow, Untagged
    <3>2. CASE s + 1 \in DOMAIN disk /\ slots'[s] = disk[s + 1]
      BY <3>2, <1>1, <1>3, <1>5
    <3> QED BY <3>1, <3>2, <1>4
  <2>2. \A s \in Slots' : slots'[s].of.launch \in Nat
    BY <1>4, <1>5 DEF NoRow
  <2> QED BY <2>1, <2>2, <1>1, <1>5 DEF Known
<1>7. Grouped'
  <2> SUFFICES ASSUME NEW s \in Slots', NEW t \in Slots',
                      slots'[s].gid # Untagged, slots'[t].gid # Untagged
               PROVE  slots'[s].gid = slots'[t].gid <=> slots'[s].of = slots'[t].of
    BY DEF Grouped
  <2>1. /\ s + 1 \in DOMAIN disk /\ slots'[s] = disk[s + 1]
        /\ t + 1 \in DOMAIN disk /\ slots'[t] = disk[t + 1]
    BY <1>4 DEF NoRow
  <2> QED BY <2>1 DEF GroupInv, FileGrouped
<1>8. FileGrouped'
  <2>1. \A i \in DOMAIN disk' : disk'[i].of.launch <= launches'
    BY <1>1, <1>5
  <2> QED BY <2>1, <1>1 DEF GroupInv, FileGrouped
<1>9. Idle' /\ BatchOK' /\ DictOK'
  BY <1>1, <1>2, EmptyBatch DEF Idle, BatchOK, DictOK
<1> QED BY <1>6, <1>7, <1>8, <1>9 DEF GroupInv

LEMMA DieGroups ==
  ASSUME Shape, GroupInv, Die
  PROVE  GroupInv'
<1>1. \A s \in Slots' : slots'[s].gid = Untagged /\ slots'[s].of.launch = 0
  BY NoRowsGrouped DEF Die, Slots
<1>2. UNCHANGED <<disk, launches>> /\ launches \in Nat
  BY RowTypes DEF Die
<1>3. Known' /\ Grouped'
  BY <1>1, <1>2 DEF Known, Grouped, Die, Untagged
<1>4. FileGrouped'
  BY <1>2 DEF GroupInv, FileGrouped
<1>5. Idle' /\ BatchOK' /\ DictOK'
  BY EmptyBatch DEF Idle, BatchOK, DictOK, Die
<1> QED BY <1>3, <1>4, <1>5 DEF GroupInv

LEMMA SaveGroups ==
  ASSUME Shape, GroupInv, Save
  PROVE  GroupInv'
<1>1. UNCHANGED <<up, launches, capacity, slots, nextGameId, finished, batch, allocated>>
  BY DEF Save, ringVars, feedVars
<1>2. /\ \A i \in 1 .. size : SlotOf(i) \in Slots /\ Contents[i] = slots[SlotOf(i)]
      /\ DOMAIN Contents = 1 .. size /\ disk' = Contents
  <2>1. /\ capacity \in Nat \ {0} /\ size \in 0 .. capacity /\ head \in 0 .. capacity - 1
    BY CapacityAssumption DEF Shape, TypeOK, Slots
  <2>2. \A i \in 1 .. size : SlotOf(i) \in Slots
    BY <2>1 DEF SlotOf, Slots
  <2> QED BY <2>2 DEF Contents, Save
<1>3. FileGrouped'
  <2> SUFFICES ASSUME NEW i \in 1 .. size, NEW j \in 1 .. size
               PROVE  /\ Contents[i].of.launch <= launches
                      /\ Contents[i].gid # Untagged /\ Contents[j].gid # Untagged =>
                           (Contents[i].gid = Contents[j].gid
                              <=> Contents[i].of = Contents[j].of)
    BY <1>1, <1>2 DEF FileGrouped
  <2> QED BY <1>2 DEF GroupInv, Known, Grouped
<1>4. Known' /\ Grouped' /\ Idle' /\ BatchOK' /\ DictOK'
  BY <1>1 DEF GroupInv, Known, Grouped, Idle, BatchOK, DictOK, Slots, GameOf
<1> QED BY <1>3, <1>4 DEF GroupInv

LEMMA DrainGroups ==
  ASSUME Shape, GroupInv, Drain
  PROVE  GroupInv'
<1>1. /\ UNCHANGED <<up, launches, capacity, slots, nextGameId, disk>>
      /\ allocated' = <<>> /\ up
  BY DEF Drain, ringVars
<1>2. /\ finished \in Nat /\ finished' \in Nat /\ finished <= finished'
      /\ batch' \in Seq(Int)
      /\ \A i \in DOMAIN batch' : batch'[i] # Untagged =>
           batch'[i] >= finished /\ batch'[i] < finished'
  BY Drained, RowTypes DEF Shape
<1>3. Known'
  <2>1. ASSUME NEW s \in Slots, slots[s].gid # Untagged, slots[s].of.launch = launches
        PROVE  slots[s].of.game < finished'
    BY <2>1, <1>2, RowTypes DEF GroupInv, Known
  <2> QED BY <2>1, <1>1 DEF GroupInv, Known, Slots
<1>4. BatchOK'
  <2> SUFFICES ASSUME NEW i \in DOMAIN batch', batch'[i] # Untagged
               PROVE  /\ batch'[i] < finished'
                      /\ \A s \in Slots : slots[s].gid # Untagged =>
                           slots[s].of # [launch |-> launches, game |-> batch'[i]]
    BY <1>1 DEF BatchOK, GameOf, Slots
  <2>1. batch'[i] >= finished /\ batch'[i] < finished' /\ batch'[i] \in Int
    BY <1>2, ElementOfSeq, LenProperties
  <2>2. ASSUME NEW s \in Slots, slots[s].gid # Untagged,
               slots[s].of = [launch |-> launches, game |-> batch'[i]]
        PROVE  FALSE
    <3>1. slots[s].of.launch = launches /\ slots[s].of.game = batch'[i]
      BY <2>2
    <3>2. slots[s].of.game < finished
      BY <3>1, <2>2 DEF GroupInv, Known
    <3> QED BY <3>1, <3>2, <2>1, <1>2
  <2> QED BY <2>1, <2>2
<1>5. Grouped' /\ FileGrouped'
  BY <1>1 DEF GroupInv, Grouped, FileGrouped, Slots
<1>6. Idle' /\ DictOK'
  BY <1>1, EmptyBatch DEF Idle, DictOK
<1> QED BY <1>3, <1>4, <1>5, <1>6 DEF GroupInv

LEMMA AllocateGroups ==
  ASSUME Shape, GroupInv, AllocateId
  PROVE  GroupInv'
<1> DEFINE g == Head(batch)
<1>1. /\ UNCHANGED <<up, launches, capacity, slots, disk, finished, batch>> /\ up
      /\ allocated' = [h \in DOMAIN allocated \cup {g} |->
                         IF h = g THEN nextGameId ELSE allocated[h]]
      /\ nextGameId' = nextGameId + 1 /\ nextGameId \in Nat
  BY RowTypes DEF AllocateId
<1>2. batch # <<>> /\ g # Untagged /\ g \notin DOMAIN allocated
  BY DEF AllocateId, NeedsId
<1>3. 1 \in DOMAIN batch /\ g = batch[1]
  <2>1. batch \in Seq(Int)
    BY DEF Shape, TypeOK
  <2>2. Len(batch) # 0
    BY <2>1, <1>2, EmptySeq
  <2> QED BY <2>2, RowTypes
<1>4. /\ g < finished
      /\ \A s \in Slots : slots[s].gid # Untagged =>
           slots[s].of # [launch |-> launches, game |-> g]
  BY <1>2, <1>3 DEF GroupInv, BatchOK, GameOf
<1> HIDE DEF g
<1>5. Known'
  <2>1. ASSUME NEW s \in Slots PROVE slots[s].gid < nextGameId + 1
    <3>1. slots[s].gid < nextGameId /\ slots[s].gid \in Nat \cup {Untagged}
      BY RowTypes DEF GroupInv, Known
    <3> QED BY <3>1, <1>1 DEF Untagged
  <2> QED BY <2>1, <1>1 DEF GroupInv, Known, Slots
<1>6. BatchOK'
  <2>1. DOMAIN allocated \subseteq DOMAIN allocated'
    BY <1>1
  <2> QED BY <2>1, <1>1 DEF GroupInv, BatchOK, Slots, GameOf
<1>7. DictOK'
  <2> SUFFICES ASSUME NEW k \in DOMAIN allocated \cup {g}
               PROVE  /\ k # Untagged /\ k < finished /\ allocated'[k] < nextGameId + 1
                      /\ \A h \in DOMAIN allocated \cup {g} :
                           allocated'[k] = allocated'[h] => k = h
                      /\ \A s \in Slots : slots[s].gid # Untagged =>
                           (slots[s].gid = allocated'[k] <=>
                              slots[s].of = [launch |-> launches, game |-> k])
    <3>1. DOMAIN allocated' = DOMAIN allocated \cup {g}
      BY <1>1
    <3>2. /\ finished' = finished /\ nextGameId' = nextGameId + 1 /\ launches' = launches
          /\ slots' = slots /\ Slots' = Slots
      BY <1>1 DEF Slots
    <3>3. DictOK' <=>
            \A k \in DOMAIN allocated' :
              /\ k # Untagged /\ k < finished' /\ allocated'[k] < nextGameId'
              /\ \A h \in DOMAIN allocated' : allocated'[k] = allocated'[h] => k = h
              /\ \A s \in Slots' : slots'[s].gid # Untagged =>
                   (slots'[s].gid = allocated'[k] <=>
                      slots'[s].of = [launch |-> launches', game |-> k])
      BY DEF DictOK, GameOf
    <3> QED BY <3>1, <3>2, <3>3
  <2>1. \A h \in DOMAIN allocated : /\ allocated'[h] = allocated[h] /\ h # g
                                    /\ allocated[h] < nextGameId /\ allocated[h] \in Nat
    BY <1>1, <1>2, RowTypes DEF GroupInv, DictOK
  <2>2. allocated'[g] = nextGameId
    BY <1>1
  <2>3. \A s \in Slots : slots[s].gid # nextGameId
    BY RowTypes DEF GroupInv, Known, Untagged
  <2>4. CASE k = g
    BY <2>1, <2>2, <2>3, <2>4, <1>1, <1>2, <1>4
  <2>5. CASE k \in DOMAIN allocated
    <3>1. /\ k # Untagged /\ k < finished
          /\ \A h \in DOMAIN allocated : allocated[k] = allocated[h] => k = h
          /\ \A s \in Slots : slots[s].gid # Untagged =>
               (slots[s].gid = allocated[k] <=>
                  slots[s].of = [launch |-> launches, game |-> k])
      BY <2>5 DEF GroupInv, DictOK, GameOf
    <3>2. allocated'[k] < nextGameId + 1 /\ allocated'[k] # nextGameId
      BY <2>1, <2>5, <1>1
    <3> QED BY <3>1, <3>2, <2>1, <2>2, <2>5
  <2> QED BY <2>4, <2>5
<1>8. Grouped' /\ FileGrouped' /\ Idle'
  BY <1>1 DEF GroupInv, Grouped, FileGrouped, Idle, Slots
<1> QED BY <1>5, <1>6, <1>7, <1>8 DEF GroupInv

LEMMA PushGroups ==
  ASSUME Shape, GroupInv, PushRow
  PROVE  GroupInv'
<1> DEFINE g == Head(batch)
           r == RowOf(Head(batch))
<1>1. /\ UNCHANGED <<up, launches, capacity, nextGameId, disk, finished, allocated>> /\ up
      /\ Slots' = Slots /\ head \in Slots /\ batch' = Tail(batch) /\ batch # <<>>
  BY PushFacts DEF PushRow, Shape, TypeOK
<1>2. \A s \in Slots : slots'[s] = IF s = head THEN r ELSE slots[s]
  BY PushFacts DEF Shape, TypeOK
<1>3. /\ r.of = [launch |-> launches, game |-> g]
      /\ g = Untagged => r.gid = Untagged
      /\ g # Untagged => g \in DOMAIN allocated /\ r.gid = allocated[g]
      /\ r.of.launch = launches /\ r.of.game = g
  BY RowIsARow DEF RowOf, Shape, PushRow
<1>4. /\ r.gid # Untagged => g \in DOMAIN allocated /\ r.gid = allocated[g]
      /\ launches \in Nat /\ nextGameId \in Nat
  BY <1>3, RowTypes
<1>5. /\ \A i \in DOMAIN batch' : i + 1 \in DOMAIN batch /\ batch'[i] = batch[i + 1]
  <2>1. batch \in Seq(Int) /\ batch # <<>>
    BY <1>1 DEF Shape, TypeOK
  <2>2. /\ Tail(batch) \in Seq(Int) /\ Len(Tail(batch)) = Len(batch) - 1
        /\ \A i \in 1 .. Len(Tail(batch)) : Tail(batch)[i] = batch[i + 1]
    BY <2>1, HeadTailProperties
  <2>3. DOMAIN Tail(batch) = 1 .. Len(Tail(batch))
    BY <2>2, LenProperties
  <2> QED BY <2>2, <2>3, <1>1, RowTypes
<1>6. /\ \A k \in DOMAIN allocated :
           /\ k # Untagged /\ k < finished /\ allocated[k] < nextGameId
           /\ \A h \in DOMAIN allocated : allocated[k] = allocated[h] => k = h
           /\ \A s \in Slots : slots[s].gid # Untagged =>
                (slots[s].gid = allocated[k] <=>
                   slots[s].of = [launch |-> launches, game |-> k])
  BY DEF GroupInv, DictOK, GameOf
<1> HIDE DEF g, r
<1>7. Known'
  <2>1. r.gid < nextGameId /\ (r.gid # Untagged => g < finished)
    BY <1>3, <1>4, <1>6 DEF Untagged
  <2> SUFFICES ASSUME NEW s \in Slots
               PROVE  /\ slots'[s].gid < nextGameId /\ slots'[s].of.launch <= launches
                      /\ slots'[s].gid # Untagged /\ slots'[s].of.launch = launches =>
                           slots'[s].of.game < finished
    BY <1>1 DEF Known
  <2>2. CASE s = head
    BY <2>1, <2>2, <1>2, <1>3, <1>4
  <2>3. CASE s # head
    BY <2>3, <1>2 DEF GroupInv, Known
  <2> QED BY <2>2, <2>3
<1>8. Grouped'
  <2>1. \A s \in Slots : slots[s].gid # Untagged /\ r.gid # Untagged =>
          (slots[s].gid = r.gid <=> slots[s].of = r.of)
    BY <1>3, <1>4, <1>6
  <2>2. \A s, t \in Slots : slots[s].gid # Untagged /\ slots[t].gid # Untagged =>
          (slots[s].gid = slots[t].gid <=> slots[s].of = slots[t].of)
    BY DEF GroupInv, Grouped
  <2> SUFFICES ASSUME NEW s \in Slots, NEW t \in Slots,
                      slots'[s].gid # Untagged, slots'[t].gid # Untagged
               PROVE  slots'[s].gid = slots'[t].gid <=> slots'[s].of = slots'[t].of
    BY <1>1 DEF Grouped
  <2>3. CASE s = head /\ t = head
    BY <2>3
  <2>4. CASE s = head /\ t # head
    BY <2>1, <2>4, <1>2
  <2>5. CASE s # head /\ t = head
    BY <2>1, <2>5, <1>2
  <2>6. CASE s # head /\ t # head
    BY <2>2, <2>6, <1>2
  <2> QED BY <2>3, <2>4, <2>5, <2>6
<1>9. BatchOK'
  <2> SUFFICES ASSUME NEW i \in DOMAIN batch', batch'[i] # Untagged
               PROVE  /\ batch'[i] < finished
                      /\ batch'[i] \notin DOMAIN allocated =>
                           \A s \in Slots : slots'[s].gid # Untagged =>
                             slots'[s].of # [launch |-> launches, game |-> batch'[i]]
    BY <1>1 DEF BatchOK, GameOf
  <2>1. /\ batch'[i] < finished
        /\ batch'[i] \notin DOMAIN allocated =>
             \A s \in Slots : slots[s].gid # Untagged =>
               slots[s].of # [launch |-> launches, game |-> batch'[i]]
    BY <1>5 DEF GroupInv, BatchOK, GameOf
  <2>2. ASSUME batch'[i] \notin DOMAIN allocated, r.gid # Untagged
        PROVE  r.of # [launch |-> launches, game |-> batch'[i]]
    <3>1. r.of.game # batch'[i]
      BY <2>2, <1>3, <1>4
    <3> QED BY <3>1
  <2> QED BY <2>1, <2>2, <1>2
<1>10. DictOK'
  <2> SUFFICES ASSUME NEW k \in DOMAIN allocated, NEW s \in Slots, slots'[s].gid # Untagged
               PROVE  slots'[s].gid = allocated[k] <=>
                        slots'[s].of = [launch |-> launches, game |-> k]
    BY <1>1, <1>6 DEF DictOK, GameOf
  <2>1. CASE s = head
    <3>1. slots'[s] = r /\ g \in DOMAIN allocated /\ r.gid = allocated[g]
      BY <2>1, <1>2, <1>4
    <3>2. r.gid = allocated[k] <=> k = g
      BY <3>1, <1>6
    <3>3. r.of = [launch |-> launches, game |-> k] <=> k = g
      BY <1>3
    <3> QED BY <3>1, <3>2, <3>3
  <2>2. CASE s # head
    BY <2>2, <1>2, <1>6
  <2> QED BY <2>1, <2>2
<1>11. FileGrouped' /\ Idle'
  BY <1>1 DEF GroupInv, FileGrouped, Idle
<1> QED BY <1>7, <1>8, <1>9, <1>10, <1>11 DEF GroupInv

LEMMA RefuseGroups ==
  ASSUME Shape, GroupInv, RefuseRow
  PROVE  GroupInv'
<1>1. /\ UNCHANGED <<up, launches, capacity, slots, nextGameId, disk, allocated>> /\ up
      /\ batch' = <<>> /\ finished' = MaxGames
  BY DEF RefuseRow, ringVars
<1>2. /\ finished \in Nat /\ MaxGames \in Nat /\ finished <= MaxGames
      /\ DOMAIN allocated \subseteq Int
  BY BoundAssumption, RowTypes DEF Shape
<1>3. Known'
  <2>1. ASSUME NEW s \in Slots, slots[s].gid # Untagged, slots[s].of.launch = launches
        PROVE  slots[s].of.game < MaxGames
    BY <2>1, <1>2, RowTypes DEF GroupInv, Known
  <2> QED BY <2>1, <1>1 DEF GroupInv, Known, Slots
<1>4. DictOK'
  <2>1. \A g \in DOMAIN allocated : g < MaxGames
    BY <1>2 DEF GroupInv, DictOK
  <2> QED BY <2>1, <1>1 DEF GroupInv, DictOK, GameOf, Slots
<1>5. Grouped' /\ FileGrouped' /\ Idle'
  BY <1>1 DEF GroupInv, Grouped, FileGrouped, Idle, Slots
<1>6. BatchOK'
  BY <1>1, EmptyBatch DEF BatchOK
<1> QED BY <1>3, <1>4, <1>5, <1>6 DEF GroupInv

\* Rows of two games never share an id and one game's rows never have two, for any
\* ring a launch finds, and however saves and deaths fall between the id push_graph
\* allocates and the rows that carry it.
THEOREM AlwaysGroupedByGame == Spec => []RowsGroupByGame
<1>1. Init => Shape /\ GroupInv
  BY InitShape, InitGroups
<1>2. Shape /\ GroupInv /\ [Next]_vars => (Shape /\ GroupInv)'
  <2> SUFFICES ASSUME Shape, GroupInv, [Next]_vars PROVE GroupInv'
    BY NextShape
  <2>1. CASE \E c \in Capacities : Launch(c)
    BY <2>1, LaunchGroups
  <2>2. CASE UNCHANGED vars
    <3>1. UNCHANGED <<up, launches, capacity, slots, nextGameId, disk, finished, batch,
                      allocated>>
      BY <2>2 DEF vars, ringVars, feedVars
    <3>2. Known' /\ Grouped' /\ FileGrouped'
      BY <3>1 DEF GroupInv, Known, Grouped, FileGrouped, Slots
    <3>3. Idle' /\ BatchOK' /\ DictOK'
      BY <3>1 DEF GroupInv, Idle, BatchOK, DictOK, GameOf, Slots
    <3> QED BY <3>2, <3>3 DEF GroupInv
  <2> QED BY <2>1, <2>2, DieGroups, SaveGroups, DrainGroups, AllocateGroups,
             PushGroups, RefuseGroups DEF Next
<1>3. Shape /\ GroupInv => RowsGroupByGame
  <2> SUFFICES ASSUME Shape, GroupInv PROVE RowsGroupByGame
    OBVIOUS
  <2>1. /\ capacity \in Nat \ {0} /\ size \in 0 .. capacity /\ head \in 0 .. capacity - 1
    BY CapacityAssumption DEF Shape, TypeOK, Slots
  <2>2. Live \subseteq Slots
    BY <2>1 DEF Live, SlotOf, Slots
  <2> QED BY <2>2 DEF RowsGroupByGame, GroupInv, Grouped
<1> QED BY <1>1, <1>2, <1>3, PTL DEF Spec

-----------------------------------------------------------------------------
(* The histogram *)

LEMMA SlotOfIs ==
  ASSUME Shape, NEW i \in 1 .. size
  PROVE  SlotOf(i) = IF size < capacity THEN i - 1
                     ELSE IF head + i - 1 < capacity THEN head + i - 1
                     ELSE head + i - 1 - capacity
<1>1. /\ capacity \in Nat \ {0} /\ size \in 0 .. capacity /\ head \in 0 .. capacity - 1
      /\ slots \in [0 .. capacity - 1 -> Rows] /\ (size < capacity => head = size)
  BY CapacityAssumption DEF Shape, TypeOK, Slots
<1> QED BY <1>1, Unrolled DEF SlotOf

\* sample_one draws below size: exactly the slots that hold a row, wrapped or not.
LEMMA LiveIsDrawable ==
  ASSUME Shape
  PROVE  Live = 0 .. size - 1
<1>1. /\ capacity \in Nat \ {0} /\ size \in Nat /\ size <= capacity
      /\ head \in Nat /\ head < capacity /\ (size < capacity => head = size)
  BY Capacity DEF Shape
<1>2. ASSUME NEW i \in 1 .. size PROVE SlotOf(i) \in 0 .. size - 1
  BY <1>1, SlotOfIs
<1>3. ASSUME NEW s \in 0 .. size - 1 PROVE \E i \in 1 .. size : s = SlotOf(i)
  <2> DEFINE i == IF size < capacity THEN s + 1
                  ELSE IF s >= head THEN s - head + 1 ELSE s - head + 1 + capacity
  <2>1. i \in 1 .. size
    BY <1>1
  <2>2. s = IF size < capacity THEN i - 1
            ELSE IF head + i - 1 < capacity THEN head + i - 1
            ELSE head + i - 1 - capacity
    BY <1>1
  <2> HIDE DEF i
  <2> QED BY <2>1, <2>2, SlotOfIs
<1> QED BY <1>2, <1>3 DEF Live

Weighted(b) == {s \in 0 .. size - 1 : slots[s].weight = b}
Hist == \A b \in Buckets : buckets[b] = Cardinality(Weighted(b))

LEMMA WeightedFinite ==
  ASSUME Shape, NEW b
  PROVE  IsFiniteSet(Weighted(b)) /\ Cardinality(Weighted(b)) \in Nat
<1>1. IsFiniteSet(0 .. size - 1)
  BY Capacity, FS_Interval DEF Shape
<1>2. Weighted(b) \in SUBSET (0 .. size - 1)
  BY DEF Weighted
<1> QED BY <1>1, <1>2, FS_Subset, FS_CardinalityType

\* A ring without rows counts nothing.
LEMMA EmptyHist ==
  ASSUME NEW n, n = 0, NEW sl, NEW b
  PROVE  Cardinality({s \in 0 .. n - 1 : sl[s].weight = b}) = 0
<1>1. {s \in 0 .. n - 1 : sl[s].weight = b} = {}
  OBVIOUS
<1> QED BY <1>1, FS_EmptySet

LEMMA LaunchHist ==
  ASSUME Shape, NEW c \in Capacities, Launch(c)
  PROVE  Hist'
<1>1. /\ c \in Nat \ {0} /\ DOMAIN disk = 1 .. Len(disk) /\ Len(disk) \in Nat
      /\ Len(disk) <= c /\ size' = Len(disk)
      /\ slots' = [s \in 0 .. c - 1 |-> IF s < Len(disk) THEN disk[s + 1] ELSE NoRow]
      /\ buckets' = [b \in Buckets |->
                       Cardinality({i \in DOMAIN disk : disk[i].weight = b})]
  BY CapacityAssumption, RowTypes DEF Launch
<1> SUFFICES ASSUME NEW b \in Buckets
             PROVE  Cardinality({s \in 0 .. Len(disk) - 1 : slots'[s].weight = b})
                      = Cardinality({i \in 1 .. Len(disk) : disk[i].weight = b})
  BY <1>1 DEF Hist, Weighted
<1> DEFINE read == {i \in 1 .. Len(disk) : disk[i].weight = b}
           held == {s \in 0 .. Len(disk) - 1 : slots'[s].weight = b}
           at == [i \in read |-> i - 1]
<1>2. \A s \in 0 .. Len(disk) - 1 : slots'[s] = disk[s + 1]
  BY <1>1
<1>3. at \in Bijection(read, held)
  <2>1. \A i \in read : i - 1 \in held
    <3> SUFFICES ASSUME NEW i \in read PROVE i - 1 \in held
      OBVIOUS
    <3>1. i - 1 \in 0 .. Len(disk) - 1 /\ (i - 1) + 1 = i
      BY <1>1
    <3> QED BY <3>1, <1>2
  <2>2. at \in [read -> held]
    BY <2>1
  <2>3. \A i, j \in read : at[i] = at[j] => i = j
    BY <1>1
  <2>4. \A s \in held : \E i \in read : at[i] = s
    <3> SUFFICES ASSUME NEW s \in held PROVE \E i \in read : at[i] = s
      OBVIOUS
    <3>1. s + 1 \in read /\ (s + 1) - 1 = s
      BY <1>1, <1>2
    <3> QED BY <3>1
  <2> HIDE DEF at, read, held
  <2> QED BY <2>2, <2>3, <2>4, Fun_IsBij
<1>4. IsFiniteSet(read)
  <2>1. IsFiniteSet(1 .. Len(disk)) /\ read \in SUBSET (1 .. Len(disk))
    BY <1>1, FS_Interval
  <2> HIDE DEF read
  <2> QED BY <2>1, FS_Subset
<1>5. Cardinality(held) = Cardinality(read)
  <2> HIDE DEF at, read, held
  <2> QED BY <1>3, <1>4, FS_Bijection DEF ExistsBijection
<1> QED BY <1>5

LEMMA PushHist ==
  ASSUME Shape, Hist, PushRow
  PROVE  Hist'
<1> DEFINE r == RowOf(Head(batch))
<1>1. /\ capacity \in Nat \ {0} /\ size \in Nat /\ size <= capacity
      /\ head \in Nat /\ head < capacity /\ (size < capacity => head = size)
  BY Capacity DEF Shape
<1>2. /\ \A s \in 0 .. capacity - 1 : slots'[s] = IF s = head THEN r ELSE slots[s]
      /\ size' = IF size = capacity THEN size ELSE size + 1
  BY PushFacts DEF Shape, TypeOK, Slots
<1>3. r.weight = "full"
  BY DEF RowOf
<1> HIDE DEF r
<1>4. /\ buckets \in [Buckets -> Int] /\ "full" \in Buckets /\ slots[head].weight \in Buckets
      /\ buckets' = Counted(buckets, slots[head].weight, "full")
  BY <1>1, RowTypes DEF Shape, TypeOK, PushRow, Buckets, Slots
<1> SUFFICES ASSUME NEW b \in Buckets
             PROVE  buckets'[b] = Cardinality({s \in 0 .. size' - 1 : slots'[s].weight = b})
  BY DEF Hist, Weighted
<1> DEFINE old == Weighted(b) \ {head}
           new == {s \in 0 .. size' - 1 : slots'[s].weight = b}
<1>5. /\ IsFiniteSet(Weighted(b)) /\ Cardinality(Weighted(b)) \in Nat
      /\ buckets[b] = Cardinality(Weighted(b))
  BY WeightedFinite DEF Hist
<1>6. /\ IsFiniteSet(old)
      /\ Cardinality(old) = IF head \in Weighted(b) THEN Cardinality(Weighted(b)) - 1
                            ELSE Cardinality(Weighted(b))
  BY <1>5, FS_RemoveElement
<1>7. new = IF b = "full" THEN old \cup {head} ELSE old
  <2>1. \A s \in 0 .. capacity - 1 : s \in 0 .. size' - 1 <=> s = head \/ s \in 0 .. size - 1
    BY <1>1, <1>2
  <2>2. 0 .. size' - 1 \subseteq 0 .. capacity - 1 /\ 0 .. size - 1 \subseteq 0 .. capacity - 1
    BY <1>1, <1>2
  <2>3. \A s : s \in new <=> (s = head /\ b = "full") \/ s \in old
    <3> SUFFICES ASSUME NEW s
                 PROVE  s \in new <=> (s = head /\ b = "full") \/ s \in old
      OBVIOUS
    <3>1. CASE s \notin 0 .. capacity - 1
      BY <3>1, <2>2, <1>1 DEF Weighted
    <3>2. CASE s \in 0 .. capacity - 1
      BY <3>2, <2>1, <1>2, <1>3 DEF Weighted
    <3> QED BY <3>1, <3>2
  <2> HIDE DEF new, old
  <2> QED BY <2>3
<1>8. Cardinality(new) = IF b = "full" THEN Cardinality(old) + 1 ELSE Cardinality(old)
  <2>1. head \notin old
    OBVIOUS
  <2> HIDE DEF new, old
  <2> QED BY <2>1, <1>6, <1>7, FS_AddElement
<1>9. head \in Weighted(b) <=> size = capacity /\ slots[head].weight = b
  BY <1>1 DEF Weighted
<1> HIDE DEF new, old
<1>10. buckets'[b] = (IF size = capacity /\ slots[head].weight = b
                     THEN buckets[b] - 1 ELSE buckets[b]) + (IF b = "full" THEN 1 ELSE 0)
  <2>1. CASE size = capacity
    BY <2>1, <1>4, <1>5 DEF Counted
  <2>2. CASE size # capacity
    BY <2>2, <1>4, <1>5 DEF Counted
  <2> QED BY <2>1, <2>2
<1> QED BY <1>5, <1>6, <1>8, <1>9, <1>10 DEF new

\* The weight histogram is the rows', bucket by bucket, whatever was overwritten,
\* reloaded or lost: the decrement of push_record_impl finds the bucket the
\* outgoing row was counted under.
THEOREM HistogramAlwaysExact == Spec => []HistogramExact
<1>1. Init => Shape /\ Hist
  <2> SUFFICES ASSUME Init PROVE Hist
    BY InitShape
  <2>1. size = 0 /\ \A b \in Buckets : buckets[b] = 0
    BY DEF Init
  <2> QED BY <2>1, EmptyHist DEF Hist, Weighted
<1>2. Shape /\ Hist /\ [Next]_vars => (Shape /\ Hist)'
  <2> SUFFICES ASSUME Shape, Hist, [Next]_vars PROVE Hist'
    BY NextShape
  <2>1. CASE \E c \in Capacities : Launch(c)
    BY <2>1, LaunchHist
  <2>2. CASE Die
    <3>1. size' = 0 /\ \A b \in Buckets : buckets'[b] = 0
      BY <2>2 DEF Die
    <3> QED BY <3>1, EmptyHist DEF Hist, Weighted
  <2>3. CASE PushRow
    BY <2>3, PushHist
  <2>4. CASE Save \/ Drain \/ AllocateId \/ RefuseRow \/ UNCHANGED vars
    <3>1. UNCHANGED <<size, slots, buckets>>
      BY <2>4 DEF Save, Drain, AllocateId, RefuseRow, vars, ringVars
    <3> QED BY <3>1 DEF Hist, Weighted
  <2> QED BY <2>1, <2>2, <2>3, <2>4 DEF Next
<1>3. Shape /\ Hist => HistogramExact
  BY LiveIsDrawable DEF HistogramExact, Hist, Weighted
<1> QED BY <1>1, <1>2, <1>3, PTL DEF Spec

-----------------------------------------------------------------------------
(* What the sampler draws and the age it reports *)

\* Rows are held, and saved, in the order they were pushed.
InOrder(rows, last) ==
    /\ \A i \in 1 .. Len(rows) : rows[i].number <= last
    /\ \A i, j \in 1 .. Len(rows) : i < j => rows[i].number < rows[j].number
Ordered == InOrder(Contents, pushed) /\ InOrder(disk, pushed)

LEMMA NumberType ==
  ASSUME NEW rows \in Seq(Rows)
  PROVE  /\ Len(rows) \in Nat /\ \A i \in 1 .. Len(rows) : rows[i].number \in Int
         /\ rows = <<>> => Len(rows) = 0
<1>1. \A i \in 1 .. Len(rows) : rows[i] \in Rows
  BY ElementOfSeq
<1>2. rows = <<>> => Len(rows) = 0
  BY EmptySeq
<1> QED BY <1>1, <1>2, LenProperties DEF Rows

LEMMA NewestInOrder ==
  ASSUME NEW rows \in Seq(Rows), NEW last \in Int, InOrder(rows, last),
         NEW r \in Rows, r.number = last + 1, NEW c \in Nat \ {0}
  PROVE  InOrder(Log!Newest(Append(rows, r), c), last + 1)
<1> DEFINE app == Append(rows, r)
<1>1. /\ app \in Seq(Rows) /\ Len(app) = Len(rows) + 1 /\ Len(rows) \in Nat
      /\ \A i \in 1 .. Len(rows) : app[i] = rows[i]
      /\ app[Len(rows) + 1] = r
  BY AppendProperties, LenProperties
<1> HIDE DEF app
<1>2. InOrder(app, last + 1)
  <2>1. ASSUME NEW i \in 1 .. Len(rows)
        PROVE  app[i].number <= last /\ app[i].number \in Int
    BY <1>1, NumberType DEF InOrder
  <2>2. \A i, j \in 1 .. Len(rows) : i < j => app[i].number < app[j].number
    BY <1>1 DEF InOrder
  <2>3. app[Len(rows) + 1].number = last + 1
    BY <1>1
  <2>4. ASSUME NEW i \in 1 .. Len(rows) + 1 PROVE app[i].number <= last + 1
    <3>1. CASE i = Len(rows) + 1
      BY <3>1, <2>3
    <3>2. CASE i # Len(rows) + 1
      <4>1. i \in 1 .. Len(rows)
        BY <3>2, <1>1
      <4> QED BY <4>1, <2>1
    <3> QED BY <3>1, <3>2
  <2>5. ASSUME NEW i \in 1 .. Len(rows) + 1, NEW j \in 1 .. Len(rows) + 1, i < j
        PROVE  app[i].number < app[j].number
    <3>0. i \in 1 .. Len(rows)
      BY <2>5, <1>1
    <3>1. CASE j = Len(rows) + 1
      BY <3>0, <3>1, <2>1, <2>3
    <3>2. CASE j # Len(rows) + 1
      <4>1. j \in 1 .. Len(rows)
        BY <3>2, <1>1
      <4> QED BY <3>0, <4>1, <2>2, <2>5
    <3> QED BY <3>1, <3>2
  <2> QED BY <1>1, <2>4, <2>5 DEF InOrder
<1>3. CASE Len(app) <= c
  BY <1>2, <1>3 DEF Log!Newest, app
<1>4. CASE ~(Len(app) <= c)
  <2> DEFINE d == Len(app) - c
             tail == SubSeq(app, d + 1, Len(app))
  <2>1. d \in Nat /\ Log!Newest(app, c) = tail
    BY <1>1, <1>4 DEF Log!Newest
  <2>2. \A i \in d + 1 .. Len(app) : app[i] \in Rows
    BY <1>1, <2>1, ElementOfSeq
  <2>3. Len(tail) = c /\ \A i \in 1 .. c : tail[i] = app[d + i]
    <3>1. /\ Len(tail) = IF d + 1 <= Len(app) THEN Len(app) - (d + 1) + 1 ELSE 0
          /\ \A i \in 1 .. Len(app) - (d + 1) + 1 : tail[i] = app[(d + 1) + i - 1]
      <4>1. d + 1 \in Int /\ Len(app) \in Int
        BY <1>1, <2>1
      <4> HIDE DEF d
      <4> QED BY <2>2, <4>1, SubSeqProperties
    <3>2. Len(app) - (d + 1) + 1 = c /\ d + 1 <= Len(app)
      BY <1>1
    <3>3. \A i \in 1 .. c : (d + 1) + i - 1 = d + i
      BY <1>1
    <3> HIDE DEF d, tail
    <3> QED BY <3>1, <3>2, <3>3
  <2>4. \A i \in 1 .. c : d + i \in 1 .. Len(app)
    BY <1>1, <2>1
  <2>5. \A i, j \in 1 .. c : i < j => d + i < d + j
    BY <2>1
  <2> HIDE DEF d, tail
  <2>6. InOrder(tail, last + 1)
    BY <1>2, <2>3, <2>4, <2>5 DEF InOrder
  <2> QED BY <2>1, <2>6 DEF app
<1> QED BY <1>3, <1>4

LEMMA NextOrdered ==
  ASSUME Shape, Shape', Ordered, [Next]_vars
  PROVE  Ordered'
<1>0. InOrder(<<>>, pushed)
  BY EmptySeq DEF InOrder
<1>1. CASE \E c \in Capacities : Launch(c)
  <2>1. Contents' = disk /\ disk' = disk /\ pushed' = pushed
    BY <1>1, LaunchReadsTheFile DEF Launch
  <2> QED BY <2>1 DEF Ordered
<1>2. CASE Die
  <2>1. size' = 0 /\ disk' = disk /\ pushed' = pushed
    BY <1>2 DEF Die
  <2>2. Contents' = <<>>
    BY <2>1, ContentsSeqNext, EmptySeq
  <2> QED BY <2>1, <2>2, <1>0 DEF Ordered
<1>3. CASE Save
  <2>1. Contents' = Contents /\ disk' = Contents /\ pushed' = pushed
    BY <1>3 DEF Save, ringVars, Contents, SlotOf
  <2> QED BY <2>1 DEF Ordered
<1>4. CASE PushRow
  <2> DEFINE r == RowOf(Head(batch))
  <2>1. /\ disk' = disk /\ pushed' = pushed + 1 /\ pushed \in Int
        /\ r \in Rows /\ r.number = pushed + 1
    BY <1>4, PushFacts DEF PushRow, Shape, TypeOK, RowOf
  <2> HIDE DEF r
  <2>2. Contents' = Log!Newest(Append(Contents, r), capacity)
    BY <1>4, PushKeepsNewest DEF r
  <2>3. InOrder(Contents', pushed')
    BY <2>1, <2>2, NewestInOrder, ContentsSeq, Capacity DEF Ordered, Shape
  <2>4. InOrder(disk', pushed')
    <3>1. /\ \A i \in 1 .. Len(disk) : disk[i].number <= pushed /\ disk[i].number \in Int
          /\ \A i, j \in 1 .. Len(disk) : i < j => disk[i].number < disk[j].number
      BY NumberType DEF Ordered, InOrder, Shape, TypeOK
    <3>2. \A i \in 1 .. Len(disk) : disk[i].number <= pushed + 1
      BY <3>1, <2>1
    <3> QED BY <3>1, <3>2, <2>1 DEF InOrder
  <2> QED BY <2>3, <2>4 DEF Ordered
<1>5. CASE Drain \/ AllocateId \/ RefuseRow \/ UNCHANGED vars
  <2>1. UNCHANGED <<head, capacity, size, slots, disk, pushed>>
    BY <1>5 DEF Drain, AllocateId, RefuseRow, ringVars, vars
  <2>2. Contents' = Contents
    BY <2>1 DEF Contents, SlotOf
  <2> QED BY <2>1, <2>2 DEF Ordered
<1> QED BY <1>1, <1>2, <1>3, <1>4, <1>5 DEF Next

\* The i-th oldest of the rows is as many pushes old as there are rows after it.
LEMMA AgeIs ==
  ASSUME Shape, NEW i \in 1 .. size
  PROVE  AgeOf(SlotOf(i)) = size - i
<1>1. /\ capacity \in Nat \ {0} /\ size \in Nat /\ size <= capacity
      /\ head \in Nat /\ head < capacity /\ (size < capacity => head = size)
  BY Capacity DEF Shape
<1> DEFINE x == head + capacity - 1
           newest == x % capacity
           s == SlotOf(i)
           y == newest + capacity - s
<1>2. newest = IF head = 0 THEN capacity - 1 ELSE head - 1
  <2>1. x \in 0 .. 2 * capacity - 1
    BY <1>1
  <2>2. x % capacity = IF x < capacity THEN x ELSE x - capacity
    <3> HIDE DEF x
    <3> QED BY <1>1, <2>1, ModRange
  <2> QED BY <1>1, <2>2
<1>3. s = IF size < capacity THEN i - 1
          ELSE IF head + i - 1 < capacity THEN head + i - 1
          ELSE head + i - 1 - capacity
  BY SlotOfIs
<1> HIDE DEF s, newest
<1>4. y \in 0 .. 2 * capacity - 1 /\ (IF y < capacity THEN y ELSE y - capacity) = size - i
  BY <1>1, <1>2, <1>3
<1>5. y % capacity = IF y < capacity THEN y ELSE y - capacity
  <2> HIDE DEF y
  <2> QED BY <1>1, <1>4, ModRange
<1> QED BY <1>4, <1>5 DEF AgeOf, s, newest

LEMMA SamplerInv ==
  ASSUME Shape, Ordered
  PROVE  SamplerSeesTheRing
<1>1. /\ capacity \in Nat \ {0} /\ size \in Nat /\ size <= capacity
      /\ head \in Nat /\ head < capacity
  BY Capacity DEF Shape
<1>2. Drawable = Live
  BY LiveIsDrawable DEF Drawable
<1>3. ASSUME NEW s \in Drawable
      PROVE  AgeOf(s) = Cardinality({t \in Live : slots[t].number > slots[s].number})
  <2>1. PICK i \in 1 .. size : s = SlotOf(i)
    BY <1>2 DEF Live
  <2> DEFINE newer == {t \in Live : slots[t].number > slots[s].number}
             at == [j \in i + 1 .. size |-> SlotOf(j)]
  <2>2. \A j \in 1 .. size : Contents[j] = slots[SlotOf(j)] /\ SlotOf(j) \in Live
    BY DEF Contents, Live
  <2>3. /\ \A j \in 1 .. size : slots[SlotOf(j)].number \in Int
        /\ \A j, k \in 1 .. size :
             j < k => slots[SlotOf(j)].number < slots[SlotOf(k)].number
    <3>1. Contents \in Seq(Rows) /\ Len(Contents) = size
      BY ContentsSeq
    <3> QED BY <3>1, <2>2, NumberType DEF Ordered, InOrder
  <2>4. at \in Bijection(i + 1 .. size, newer)
    <3>1. \A j \in i + 1 .. size : j \in 1 .. size /\ i < j
      BY <1>1
    <3>2. at \in [i + 1 .. size -> newer]
      BY <3>1, <2>1, <2>2, <2>3
    <3>3. ASSUME NEW j \in i + 1 .. size, NEW k \in i + 1 .. size, at[j] = at[k]
          PROVE  j = k
      <4>1. ~(j < k) /\ ~(k < j)
        BY <3>1, <3>3, <2>3
      <4> QED BY <4>1
    <3>4. ASSUME NEW t \in newer PROVE \E j \in i + 1 .. size : at[j] = t
      <4>1. PICK j \in 1 .. size : t = SlotOf(j)
        BY DEF Live
      <4>2. slots[SlotOf(j)].number > slots[SlotOf(i)].number
        BY <4>1, <2>1
      <4>3. ~(j < i) /\ j # i
        BY <4>2, <2>3
      <4>4. j \in i + 1 .. size
        BY <4>3, <1>1
      <4> QED BY <4>1, <4>4
    <3> HIDE DEF at, newer
    <3> QED BY <3>2, <3>3, <3>4, Fun_IsBij
  <2>5. IsFiniteSet(i + 1 .. size) /\ Cardinality(i + 1 .. size) = size - i
    BY <1>1, FS_Interval
  <2>6. Cardinality(newer) = size - i
    <3> HIDE DEF at, newer
    <3> QED BY <2>4, <2>5, FS_Bijection DEF ExistsBijection
  <2> QED BY <2>1, <2>6, AgeIs
<1> QED BY <1>2, <1>3 DEF SamplerSeesTheRing

\* A draw reaches every row and nothing else, and the age record_batch_composition
\* reports is the number of newer rows, over any wrap and reload.
THEOREM SamplerAlwaysSees == Spec => []SamplerSeesTheRing
<1>1. Init => Shape /\ Ordered
  <2> SUFFICES ASSUME Init PROVE Ordered
    BY InitShape
  <2>1. Contents = <<>> /\ pushed = 0
    BY InitShape, EmptyContents DEF Init
  <2>2. InOrder(<<>>, 0)
    BY EmptySeq DEF InOrder
  <2>3. InOrder(disk, 0)
    <3>1. CASE disk = <<>>
      BY <3>1, <2>2
    <3>2. CASE disk \in Preloads
      <4>1. /\ disk \in Seq(Rows) /\ \A j \in DOMAIN disk : disk[j].number < 0
            /\ \A j, k \in DOMAIN disk : j < k => disk[j].number < disk[k].number
        BY <3>2, PreloadAssumption
      <4>2. DOMAIN disk = 1 .. Len(disk)
        BY <4>1, LenProperties
      <4>3. \A j \in 1 .. Len(disk) : disk[j].number <= 0
        BY <4>1, <4>2, NumberType
      <4> QED BY <4>1, <4>2, <4>3 DEF InOrder
    <3> QED BY <3>1, <3>2 DEF Init
  <2> QED BY <2>1, <2>2, <2>3 DEF Ordered
<1>2. Shape /\ Ordered /\ [Next]_vars => (Shape /\ Ordered)'
  BY NextShape, NextOrdered
<1>3. Shape /\ Ordered => SamplerSeesTheRing
  BY SamplerInv
<1> QED BY <1>1, <1>2, <1>3, PTL DEF Spec

=============================================================================
