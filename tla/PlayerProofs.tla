------------------------------ MODULE PlayerProofs ------------------------------
(***************************************************************************)
(* Theorems about the deploy player and its search tree (DeployPlayer,     *)
(* SearchTree), for any board, lines, priors, net, solver, openings,       *)
(* budgets, batch size and block size.                                     *)
(*                                                                         *)
(* The argument has four layers.  What a pool of nodes is (Shape: parents  *)
(* above children, a node's children one block) gives the paths, and every *)
(* operation is shown to keep it and to do what its name says.  The state  *)
(* keeps its types and its losses (PenaltyInv), then its boards            *)
(* (BoardsInv), then its charges and counts (BudgetInv) and its sums       *)
(* (SumsInv), each resting on the types and the boards.                    *)
(***************************************************************************)
EXTENDS DeployPlayer, SequenceTheorems, FiniteSetTheorems, FunctionTheorems,
        WellFoundedInduction, TLAPS

Nodes == [parent : Nat, cell : Cells, n : Nat, w : Int, vl : Nat, first : Nat, count : Nat,
          mr : {1, 2}, terminal : BOOLEAN, tv : Int]

\* A set of naturals has a least element.
LEMMA NatLeast ==
  ASSUME NEW S, S \subseteq Nat, S # {}
  PROVE  \E n \in S : \A m \in S : n <= m
<1> DEFINE R == OpToRel(<, Nat)
<1>1. IsWellFoundedOn(R, Nat)
  BY NatLessThanWellFounded
<1>2. \A m, n \in Nat : <<m, n>> \in R <=> m < n
  BY DEF OpToRel
<1> HIDE DEF R
<1>3. PICK n \in S : \A m \in S : ~ (<<m, n>> \in R)
  BY <1>1, WFMin
<1>4. \A m \in S : m \in Nat /\ n \in Nat /\ ~(m < n)
  BY <1>2, <1>3
<1> QED BY <1>4

-----------------------------------------------------------------------------
(* Paths *)

\* A parent's slot is below its child's: what makes a path end at the root.
Downward(pool) == \A i \in DOMAIN pool : pool[i].parent \in 0 .. i - 1

LEMMA PathExists ==
  ASSUME NEW pool, NEW N \in Nat, DOMAIN pool = 1 .. N, Downward(pool)
  PROVE  \E f : f = [k \in 0 .. N |-> IF k = 0 THEN <<>> ELSE Append(f[pool[k].parent], k)]
<1> DEFINE Is(f, n) ==
             f = [k \in 0 .. n |-> IF k = 0 THEN <<>> ELSE Append(f[pool[k].parent], k)]
           Bad == {n \in 0 .. N : ~\E f : Is(f, n)}
<1>1. SUFFICES Bad = {}
  <2>1. N \in 0 .. N
    OBVIOUS
  <2> QED BY <2>1, <1>1
<1>2. SUFFICES ASSUME Bad # {} PROVE FALSE
  OBVIOUS
<1>3. PICK n \in Bad : \A m \in Bad : n <= m
  <2>1. Bad \subseteq Nat
    OBVIOUS
  <2> HIDE DEF Bad
  <2> QED BY <2>1, <1>2, NatLeast
<1>4. n # 0
  <2> SUFFICES ASSUME n = 0 PROVE FALSE
    OBVIOUS
  <2>1. Is([k \in 0 .. 0 |-> <<>>], 0)
    OBVIOUS
  <2> QED BY <2>1
<1>5. n - 1 \in 0 .. N /\ n - 1 \notin Bad
  <2>1. n \in 0 .. N
    OBVIOUS
  <2>2. n - 1 \in 0 .. N /\ ~(n <= n - 1)
    BY <2>1, <1>4
  <2> HIDE DEF Bad
  <2> QED BY <2>2, <1>3
<1>6. PICK f : Is(f, n - 1)
  BY <1>5
<1> DEFINE g == [k \in 0 .. n |-> IF k = n THEN Append(f[pool[n].parent], n) ELSE f[k]]
<1>7. Is(g, n)
  <2>1. ASSUME NEW k \in 0 .. n
        PROVE g[k] = IF k = 0 THEN <<>> ELSE Append(g[pool[k].parent], k)
    <3>1. CASE k = 0
      <4>1. 0 \in 0 .. n - 1 /\ 0 \in 0 .. n /\ 0 # n
        BY <1>4
      <4>2. f[0] = <<>>
        BY <4>1, <1>6
      <4>3. g[0] = f[0]
        BY <4>1
      <4> HIDE DEF g
      <4> QED BY <3>1, <4>2, <4>3
    <3>2. CASE k # 0
      <4>1. k \in 1 .. N /\ pool[k].parent \in 0 .. k - 1 /\ n \in 0 .. N
        BY <3>2 DEF Downward
      <4>2. pool[k].parent \in 0 .. n /\ pool[k].parent # n
        BY <4>1
      <4>3. g[pool[k].parent] = f[pool[k].parent]
        BY <4>2
      <4>4. CASE k = n
        BY <4>4, <4>3, <3>2
      <4>5. CASE k # n
        <5>1. k \in 0 .. n - 1
          BY <4>5, <4>1
        <5>2. f[k] = Append(f[pool[k].parent], k)
          BY <5>1, <1>6, <3>2
        <5> QED BY <5>2, <4>3, <4>5, <3>2
      <4> QED BY <4>4, <4>5
    <3> QED BY <3>1, <3>2
  <2> QED BY <2>1
<1> QED BY <1>7, <1>3

LEMMA PathUnfolds ==
  ASSUME NEW pool, NEW N \in Nat, DOMAIN pool = 1 .. N, Len(pool) = N, Downward(pool)
  PROVE  /\ Path(pool, 0) = <<>>
         /\ \A i \in 1 .. N : Path(pool, i) = Append(Path(pool, pool[i].parent), i)
<1> DEFINE down == CHOOSE f :
             f = [k \in 0 .. Len(pool) |-> IF k = 0 THEN <<>> ELSE Append(f[pool[k].parent], k)]
<1>1. down = [k \in 0 .. N |-> IF k = 0 THEN <<>> ELSE Append(down[pool[k].parent], k)]
  BY PathExists
<1>2. \A i : Path(pool, i) = down[i]
  BY DEF Path
<1> HIDE DEF down
<1>3. down[0] = <<>>
  BY <1>1
<1>4. ASSUME NEW i \in 1 .. N PROVE down[i] = Append(down[pool[i].parent], i)
  <2>1. i \in 0 .. N /\ i # 0
    OBVIOUS
  <2> QED BY <2>1, <1>1
<1> QED BY <1>2, <1>3, <1>4

\* Two pools with the same parents up to a slot have the same path to it.
LEMMA PathSeq ==
  ASSUME NEW pool, NEW N \in Nat, DOMAIN pool = 1 .. N, Len(pool) = N, Downward(pool)
  PROVE  \A i \in 0 .. N : Path(pool, i) \in Seq(1 .. i)
<1> DEFINE Bad == {i \in 0 .. N : Path(pool, i) \notin Seq(1 .. i)}
<1> SUFFICES ASSUME Bad # {} PROVE FALSE
  OBVIOUS
<1>1. PICK n \in Bad : \A m \in Bad : n <= m
  <2>1. Bad \subseteq Nat
    OBVIOUS
  <2> HIDE DEF Bad
  <2> QED BY <2>1, NatLeast
<1>2. n # 0
  <2>1. Path(pool, 0) = <<>>
    BY PathUnfolds
  <2>2. <<>> \in Seq(1 .. 0)
    OBVIOUS
  <2> QED BY <2>1, <2>2
<1>3. n \in 1 .. N
  BY <1>2
<1> DEFINE p == pool[n].parent
<1>4. p \in 0 .. N /\ p < n
  BY <1>3 DEF Downward
<1>5. p \notin Bad
  <2> HIDE DEF Bad, p
  <2> QED BY <1>1, <1>3, <1>4
<1>6. Path(pool, p) \in Seq(1 .. p)
  BY <1>4, <1>5
<1>7. Path(pool, p) \in Seq(1 .. n)
  <2>1. 1 .. p \subseteq 1 .. n
    BY <1>3, <1>4
  <2> HIDE DEF p
  <2> QED BY <2>1, <1>6, SeqMonotonic
<1>8. Path(pool, n) = Append(Path(pool, p), n)
  BY <1>3, PathUnfolds
<1>9. Path(pool, n) \in Seq(1 .. n)
  <2> HIDE DEF p
  <2>1. n \in 1 .. n
    BY <1>3
  <2> QED BY <1>7, <1>8, <2>1, AppendProperties
<1> QED BY <1>9

LEMMA PathSame ==
  ASSUME NEW pool, NEW N \in Nat, DOMAIN pool = 1 .. N, Len(pool) = N, Downward(pool),
         NEW other, NEW M \in Nat, DOMAIN other = 1 .. M, Len(other) = M, Downward(other),
         NEW K \in Nat, K <= N, K <= M, \A i \in 1 .. K : pool[i].parent = other[i].parent
  PROVE  \A i \in 0 .. K : Path(pool, i) = Path(other, i)
<1> DEFINE Bad == {i \in 0 .. K : Path(pool, i) # Path(other, i)}
<1> SUFFICES ASSUME Bad # {} PROVE FALSE
  OBVIOUS
<1>1. PICK n \in Bad : \A m \in Bad : n <= m
  <2>1. Bad \subseteq Nat
    OBVIOUS
  <2> HIDE DEF Bad
  <2> QED BY <2>1, NatLeast
<1>2. n # 0
  BY PathUnfolds
<1>3. n \in 1 .. K /\ n \in 1 .. N /\ n \in 1 .. M
  BY <1>2
<1> DEFINE p == pool[n].parent
<1>4. p \in 0 .. K /\ p < n
  BY <1>3 DEF Downward
<1>5. p \notin Bad
  <2> HIDE DEF Bad, p
  <2> QED BY <1>1, <1>3, <1>4
<1>6. Path(pool, p) = Path(other, p)
  BY <1>4, <1>5
<1>7. Path(pool, n) = Append(Path(pool, p), n) /\ Path(other, n) = Append(Path(other, p), n)
  BY <1>3, PathUnfolds
<1> QED BY <1>6, <1>7

\* A slot's own ancestors, itself among them.
Above(pool, i) == ToSet(Path(pool, i))

LEMMA AboveUnfolds ==
  ASSUME NEW pool, NEW N \in Nat, DOMAIN pool = 1 .. N, Len(pool) = N, Downward(pool)
  PROVE  /\ Above(pool, 0) = {}
         /\ \A i \in 1 .. N : /\ Above(pool, i) = Above(pool, pool[i].parent) \cup {i}
                              /\ Above(pool, i) \subseteq 1 .. i
<1>1. Above(pool, 0) = {}
  BY PathUnfolds DEF Above, ToSet
<1>2. ASSUME NEW i \in 1 .. N
      PROVE  /\ Above(pool, i) = Above(pool, pool[i].parent) \cup {i}
             /\ Above(pool, i) \subseteq 1 .. i
  <2> DEFINE s == Path(pool, pool[i].parent)
  <2>1. Path(pool, i) = Append(s, i)
    BY PathUnfolds
  <2>2. s \in Seq(0 .. N)
    <3>1. pool[i].parent \in 0 .. N /\ 1 .. pool[i].parent \subseteq 0 .. N
      BY DEF Downward
    <3> QED BY <3>1, PathSeq, SeqMonotonic
  <2>3. Path(pool, i) \in Seq(1 .. i)
    BY PathSeq
  <2> HIDE DEF s
  <2>4. ToSet(Append(s, i)) = ToSet(s) \cup {i}
    <3>1. /\ DOMAIN s = 1 .. Len(s) /\ Len(s) \in Nat
          /\ DOMAIN Append(s, i) = 1 .. Len(s) + 1
          /\ \A k \in 1 .. Len(s) : Append(s, i)[k] = s[k]
          /\ Append(s, i)[Len(s) + 1] = i
      BY <2>2
    <3> QED BY ONLY <3>1 DEF ToSet
  <2>5. ToSet(Path(pool, i)) \subseteq 1 .. i
    BY <2>3, ElementOfSeq, LenProperties DEF ToSet
  <2> QED BY <2>1, <2>4, <2>5 DEF Above, s
<1> QED BY <1>1, <1>2

-----------------------------------------------------------------------------
(* The pool *)

\* One tree whose links agree both ways, a node's children in one block above it.
Shape(pool) ==
    /\ pool \in Seq(Nodes) /\ Len(pool) >= 1
    /\ \A i \in 1 .. Len(pool) :
        LET node == pool[i]
        IN  /\ node.parent \in 0 .. i - 1 /\ (node.parent = 0 <=> i = 1)
            /\ node.count <= MaxChildren
            /\ node.first = 0 => node.count = 0
            /\ node.first # 0 =>
                /\ node.first > i /\ node.count >= 1 /\ node.first + node.count - 1 <= Len(pool)
            /\ \A c \in node.first .. node.first + node.count - 1 : pool[c].parent = i
            /\ i # 1 =>
                pool[node.parent].first <= i
                    /\ i < pool[node.parent].first + pool[node.parent].count

LEMMA ShapeFacts ==
  ASSUME NEW pool, Shape(pool)
  PROVE  /\ DOMAIN pool = 1 .. Len(pool) /\ Len(pool) \in Nat
         /\ \A i \in 1 .. Len(pool) : pool[i] \in Nodes
         /\ Downward(pool)
<1>1. DOMAIN pool = 1 .. Len(pool) /\ Len(pool) \in Nat
  BY LenProperties DEF Shape
<1>2. \A i \in 1 .. Len(pool) : pool[i] \in Nodes
  BY ElementOfSeq DEF Shape
<1> QED BY <1>1, <1>2 DEF Shape, Downward

-----------------------------------------------------------------------------
(* The breadth-first copy *)

LEMMA BlockSeq ==
  ASSUME NEW pool, Shape(pool), NEW i \in 1 .. Len(pool)
  PROVE  /\ Block(pool, i) \in Seq(1 .. Len(pool))
         /\ Len(Block(pool, i)) = pool[i].count
         /\ \A k \in 1 .. pool[i].count : Block(pool, i)[k] = pool[i].first + k - 1
<1>1. pool[i] \in Nodes /\ Len(pool) \in Nat
  BY ShapeFacts
<1>2. pool[i].count \in Nat /\ pool[i].first \in Nat
  BY <1>1 DEF Nodes
<1>3. ASSUME NEW k \in 1 .. pool[i].count PROVE pool[i].first + k - 1 \in 1 .. Len(pool)
  BY <1>1, <1>2, SMTT(30) DEF Shape
<1>4. Block(pool, i) = [k \in 1 .. pool[i].count |-> pool[i].first + k - 1]
  BY DEF Block
<1>5. \A S : \A c \in Nat : \A f : f \in [1 .. c -> S] => f \in Seq(S) /\ Len(f) = c
  BY IsASeq, LenProperties
<1>6. Block(pool, i) \in [1 .. pool[i].count -> 1 .. Len(pool)]
  BY <1>3, <1>4
<1> QED BY <1>2, <1>4, <1>5, <1>6

\* The loop of BreadthFirst.
Loop(pool, N) ==
    CHOOSE f : f = [left \in 0 .. N |->
        [queue \in Seq(DOMAIN pool) |->
            LET at == N - left + 1
            IN  IF left = 0 \/ at > Len(queue) THEN queue
                ELSE f[left - 1][queue \o Block(pool, queue[at])]]]

LEMMA LoopExists ==
  ASSUME NEW pool, NEW N \in Nat
  PROVE  \E f : f = [left \in 0 .. N |->
        [queue \in Seq(DOMAIN pool) |->
            LET at == N - left + 1
            IN  IF left = 0 \/ at > Len(queue) THEN queue
                ELSE f[left - 1][queue \o Block(pool, queue[at])]]]
<1> DEFINE Body(f, left) ==
             [queue \in Seq(DOMAIN pool) |->
                IF left = 0 \/ N - left + 1 > Len(queue) THEN queue
                ELSE f[left - 1][queue \o Block(pool, queue[N - left + 1])]]
           Is(f, n) == f = [left \in 0 .. n |-> Body(f, left)]
           Bad == {n \in 0 .. N : ~\E f : Is(f, n)}
<1>1. SUFFICES Bad = {}
  <2>1. N \in 0 .. N
    OBVIOUS
  <2> QED BY <2>1, <1>1
<1>2. SUFFICES ASSUME Bad # {} PROVE FALSE
  OBVIOUS
<1>3. PICK n \in Bad : \A m \in Bad : n <= m
  <2>1. Bad \subseteq Nat
    OBVIOUS
  <2> HIDE DEF Bad
  <2> QED BY <2>1, <1>2, NatLeast
<1>4. n # 0
  <2> SUFFICES ASSUME n = 0 PROVE FALSE
    OBVIOUS
  <2>1. Is([left \in 0 .. 0 |-> Body(<<>>, 0)], 0)
    OBVIOUS
  <2> QED BY <2>1
<1>5. n - 1 \in 0 .. N /\ n - 1 \notin Bad
  <2>1. n \in 0 .. N
    OBVIOUS
  <2>2. n - 1 \in 0 .. N /\ ~(n <= n - 1)
    BY <2>1, <1>4
  <2> HIDE DEF Bad
  <2> QED BY <2>2, <1>3
<1>6. PICK f : Is(f, n - 1)
  BY <1>5
<1> DEFINE g == [left \in 0 .. n |-> IF left = n THEN Body(f, n) ELSE f[left]]
<1>7. ASSUME NEW left \in 0 .. n PROVE g[left] = Body(g, left)
  <2>0. n \in 1 .. N
    BY <1>4
  <2>1. CASE left = 0
    <3>1. 0 \in 0 .. n - 1 /\ 0 # n
      BY <2>0
    <3>2. f[0] = Body(f, 0) /\ g[0] = f[0]
      BY <3>1, <1>6
    <3> QED BY <3>2, <2>1
  <2>2. CASE left # 0
    <3>1. left - 1 \in 0 .. n /\ left - 1 # n /\ left - 1 \in 0 .. n - 1
      BY <2>0, <2>2
    <3>2. g[left - 1] = f[left - 1]
      BY <3>1
    <3>3. Body(g, left) = Body(f, left)
      BY <3>2
    <3>4. CASE left = n
      BY <3>3, <3>4
    <3>5. CASE left # n
      <4>1. left \in 0 .. n - 1
        BY <3>5, <2>0
      <4>2. f[left] = Body(f, left) /\ g[left] = f[left]
        BY <4>1, <3>5, <1>6
      <4> QED BY <3>3, <4>2
    <3> QED BY <3>4, <3>5
  <2> QED BY <2>1, <2>2
<1>8. Is(g, n)
  <2>1. [left \in 0 .. n |-> g[left]] = [left \in 0 .. n |-> Body(g, left)]
    <3> HIDE DEF Body
    <3> QED BY <1>7
  <2>2. g = [left \in 0 .. n |-> g[left]]
    <3> HIDE DEF Body
    <3> QED OBVIOUS
  <2> HIDE DEF g, Body
  <2> QED BY <2>1, <2>2
<1> QED BY <1>8, <1>3

LEMMA LoopUnfolds ==
  ASSUME NEW pool, NEW N \in Nat, NEW left \in 0 .. N, NEW queue \in Seq(DOMAIN pool)
  PROVE  Loop(pool, N)[left][queue] =
            IF left = 0 \/ N - left + 1 > Len(queue) THEN queue
            ELSE Loop(pool, N)[left - 1][queue \o Block(pool, queue[N - left + 1])]
<1>1. Loop(pool, N) = [l \in 0 .. N |->
        [q \in Seq(DOMAIN pool) |->
            IF l = 0 \/ N - l + 1 > Len(q) THEN q
            ELSE Loop(pool, N)[l - 1][q \o Block(pool, q[N - l + 1])]]]
  BY LoopExists DEF Loop
<1>2. Loop(pool, N)[left] =
        [q \in Seq(DOMAIN pool) |->
            IF left = 0 \/ N - left + 1 > Len(q) THEN q
            ELSE Loop(pool, N)[left - 1][q \o Block(pool, q[N - left + 1])]]
  BY <1>1
<1> QED BY <1>2

LEMMA BreadthFirstIs ==
  ASSUME NEW pool, NEW child
  PROVE  BreadthFirst(pool, child) = Loop(pool, Len(pool))[Len(pool)][<<child>>]
  BY DEF BreadthFirst, Loop

\* The queue after its first m slots were taken up: nothing twice, nothing but
\* child and the children of slots taken up, and theirs all in order.
Queue(pool, child, queue, m) ==
    /\ queue \in Seq(1 .. Len(pool)) /\ Len(queue) >= 1 /\ queue[1] = child
    /\ \A j, k \in 1 .. Len(queue) : queue[j] = queue[k] => j = k
    /\ \A k \in 1 .. Len(queue) : queue[k] >= child
    /\ \A k \in 2 .. Len(queue) :
        \E j \in 1 .. Len(queue) : j <= m /\ j < k /\ queue[j] = pool[queue[k]].parent
    /\ \A j \in 1 .. Len(queue) :
        j <= m /\ pool[queue[j]].first # 0 =>
            \E o \in j .. Len(queue) :
                /\ o + pool[queue[j]].count <= Len(queue)
                /\ \A d \in 1 .. pool[queue[j]].count : queue[o + d] = pool[queue[j]].first + d - 1

LEMMA QueueStep ==
  ASSUME NEW pool, Shape(pool), NEW child \in 1 .. Len(pool), NEW queue, NEW m \in Nat,
         Queue(pool, child, queue, m), m + 1 <= Len(queue)
  PROVE  Queue(pool, child, queue \o Block(pool, queue[m + 1]), m + 1)
<1> DEFINE N == Len(pool)
           i == queue[m + 1]
           block == Block(pool, i)
           after == queue \o block
           L == Len(queue)
           c == pool[i].count
<1>1. queue \in Seq(1 .. N) /\ L \in Nat /\ L >= 1 /\ N \in Nat /\ m + 1 \in 1 .. L
  BY ShapeFacts, LenProperties DEF Queue
<1>2. i \in 1 .. N
  BY <1>1, ElementOfSeq
<1>3. block \in Seq(1 .. N) /\ Len(block) = c /\ \A d \in 1 .. c : block[d] = pool[i].first + d - 1
  BY <1>2, BlockSeq
<1>4. c \in Nat /\ pool[i].first \in Nat /\ (pool[i].first = 0 => c = 0)
  BY <1>2, ShapeFacts DEF Shape, Nodes
<1>5. pool[i].first # 0 => pool[i].first > i
  BY <1>2 DEF Shape
<1>6. \A d \in 1 .. c : pool[pool[i].first + d - 1].parent = i
  <2> TAKE d \in 1 .. c
  <2>1. pool[i].first + d - 1 \in pool[i].first .. pool[i].first + pool[i].count - 1
    BY <1>4, SMTT(30)
  <2> QED BY <2>1, <1>2 DEF Shape
<1>7. /\ after \in Seq(1 .. N) /\ Len(after) = L + c
      /\ \A k \in 1 .. L : after[k] = queue[k]
      /\ \A k \in L + 1 .. L + c : after[k] = pool[i].first + (k - L) - 1
  <2>1. /\ after \in Seq(1 .. N) /\ Len(after) = L + Len(block)
        /\ \A k \in 1 .. L + Len(block) :
             after[k] = IF k <= L THEN queue[k] ELSE block[k - L]
    BY <1>1, <1>3, ConcatProperties
  <2>2. \A k \in 1 .. L : after[k] = queue[k]
    BY <2>1, <1>1, <1>3, <1>4
  <2>3. ASSUME NEW k \in L + 1 .. L + c PROVE after[k] = pool[i].first + (k - L) - 1
    <3>1. k \in 1 .. L + Len(block) /\ ~(k <= L) /\ k - L \in 1 .. c
      BY <1>1, <1>3, <1>4
    <3> HIDE DEF after, block, c, i
    <3> QED BY <3>1, <2>1, <1>3
  <2> QED BY <2>1, <2>2, <2>3, <1>3
<1>8. \A k \in L + 1 .. L + c : pool[after[k]].parent = i /\ after[k] > i
  <2> TAKE k \in L + 1 .. L + c
  <2>1. k - L \in 1 .. c /\ c # 0
    BY <1>1, <1>4
  <2>2. pool[i].first # 0
    BY <2>1, <1>4
  <2>3. pool[pool[i].first + (k - L) - 1].parent = i
    BY <2>1, <1>6
  <2>4. i \in Int
    BY <1>2
  <2>5. after[k] = pool[i].first + (k - L) - 1
    BY <1>7
  <2> HIDE DEF after, i, c, L
  <2>6. after[k] > i
    BY <2>1, <2>2, <2>4, <2>5, <1>4, <1>5
  <2> QED BY <2>3, <2>5, <2>6
<1>9. i >= child /\ child \in Nat /\ queue[1] = child
  BY <1>1 DEF Queue
<1>10. \A k \in 2 .. L : \E j \in 1 .. L : j <= m /\ j < k /\ queue[j] = pool[queue[k]].parent
  BY DEF Queue
<1>11. \A j, k \in 1 .. L : queue[j] = queue[k] => j = k
  BY DEF Queue
<1>12. \A k \in 1 .. L : queue[k] \in 1 .. N /\ queue[k] >= child
  BY <1>1, ElementOfSeq DEF Queue
<1>13. ASSUME NEW j \in 1 .. L, j <= m, pool[queue[j]].first # 0
       PROVE  \E o \in j .. L :
                /\ o + pool[queue[j]].count <= L
                /\ \A d \in 1 .. pool[queue[j]].count : queue[o + d] = pool[queue[j]].first + d - 1
  BY <1>13 DEF Queue
<1>14. \A j \in 1 .. L : pool[queue[j]].count \in Nat
  BY <1>12, ShapeFacts DEF Nodes
<1> HIDE DEF N, after, block, L, c
<1>15. \A j, k \in 1 .. L + c : after[j] = after[k] => j = k
  <2>1. ASSUME NEW j \in 1 .. L, NEW k \in L + 1 .. L + c, after[j] = after[k] PROVE FALSE
    <3>1. after[j] = queue[j] /\ pool[queue[j]].parent = i /\ queue[j] > i
      BY <2>1, <1>7, <1>8
    <3>2. j \in 2 .. L
      BY <3>1, <1>9, <1>1, <1>2 DEF i
    <3>3. PICK h \in 1 .. L : h <= m /\ queue[h] = i
      BY <3>1, <3>2, <1>10
    <3>4. h = m + 1
      BY <3>3, <1>1, <1>11 DEF i
    <3> QED BY <3>3, <3>4
  <2>2. ASSUME NEW j \in L + 1 .. L + c, NEW k \in L + 1 .. L + c, after[j] = after[k] PROVE j = k
    <3>1. pool[i].first + (j - L) - 1 = pool[i].first + (k - L) - 1
      BY <2>2, <1>7
    <3> HIDE DEF i
    <3> QED BY <3>1, <1>1, <1>4
  <2>3. ASSUME NEW j \in 1 .. L, NEW k \in 1 .. L, after[j] = after[k] PROVE j = k
    BY <2>3, <1>7, <1>11
  <2>4. \A j \in 1 .. L + c : j \in 1 .. L \/ j \in L + 1 .. L + c
    BY <1>1, <1>4
  <2> QED BY <2>1, <2>2, <2>3, <2>4
<1>16. \A k \in 1 .. L + c : after[k] >= child
  <2>1. \A k \in 1 .. L + c : k \in 1 .. L \/ k \in L + 1 .. L + c
    BY <1>1, <1>4
  <2>2. ASSUME NEW k \in L + 1 .. L + c PROVE after[k] >= child
    <3>1. after[k] > i /\ i \in Int /\ after[k] \in Int
      <4>1. after[k] \in 1 .. N
        <5>1. k \in 1 .. Len(after)
          BY <1>7, <1>1
        <5> QED BY <5>1, <1>7, ElementOfSeq
      <4> QED BY <4>1, <1>8, <1>2, <1>1
    <3> HIDE DEF i
    <3> QED BY <3>1, <1>9
  <2> QED BY <2>1, <2>2, <1>7, <1>12
<1>17. \A k \in 2 .. L + c :
         \E j \in 1 .. L + c : j <= m + 1 /\ j < k /\ after[j] = pool[after[k]].parent
  <2> TAKE k \in 2 .. L + c
  <2>1. CASE k \in 2 .. L
    <3>1. PICK j \in 1 .. L : j <= m /\ j < k /\ queue[j] = pool[queue[k]].parent
      BY <2>1, <1>10
    <3>2. j \in 1 .. L + c /\ j <= m + 1 /\ k \in 1 .. L
      BY <3>1, <2>1, <1>1, <1>4
    <3> QED BY <3>1, <3>2, <1>7
  <2>2. CASE k \in L + 1 .. L + c
    <3>1. m + 1 \in 1 .. L + c /\ m + 1 < k
      BY <2>2, <1>1, <1>4
    <3>2. after[m + 1] = i
      BY <1>1, <1>7 DEF i
    <3>3. after[m + 1] = pool[after[k]].parent
      BY <3>2, <2>2, <1>8
    <3> QED BY <3>1, <3>3
  <2>3. k \in 2 .. L \/ k \in L + 1 .. L + c
    BY <1>1, <1>4
  <2> QED BY <2>1, <2>2, <2>3
<1>18. ASSUME NEW j \in 1 .. L + c, j <= m + 1, pool[after[j]].first # 0
       PROVE  \E o \in j .. L + c :
                /\ o + pool[after[j]].count <= L + c
                /\ \A d \in 1 .. pool[after[j]].count : after[o + d] = pool[after[j]].first + d - 1
  <2>1. j \in 1 .. L /\ after[j] = queue[j]
    BY <1>18, <1>1, <1>7, SMTT(30)
  <2>2. CASE j = m + 1
    <3>1. after[j] = i
      BY <2>1, <2>2 DEF i
    <3>2. L \in j .. L + c /\ L + pool[i].count <= L + c
      <4>1. j \in Nat /\ j <= L /\ L \in Nat /\ c \in Nat
        BY <2>1, <1>1, <1>4
      <4>2. L + c <= L + c /\ L \in j .. L + c
        BY <4>1
      <4> QED BY <4>2 DEF c
    <3>3. \A d \in 1 .. c : after[L + d] = pool[i].first + d - 1
      <4> TAKE d \in 1 .. c
      <4>1. L + d \in L + 1 .. L + c /\ (L + d) - L = d
        BY <1>1, <1>4
      <4> QED BY <4>1, <1>7
    <3> QED BY <3>1, <3>2, <3>3 DEF c
  <2>3. CASE j # m + 1
    <3>1. j <= m
      BY <2>3, <1>18, <1>1
    <3>2. PICK o \in j .. L :
                /\ o + pool[queue[j]].count <= L
                /\ \A d \in 1 .. pool[queue[j]].count : queue[o + d] = pool[queue[j]].first + d - 1
      BY <3>1, <2>1, <1>13, <1>18
    <3>3. o \in j .. L + c /\ o + pool[queue[j]].count <= L + c
      <4>1. j \in Nat /\ L \in Nat /\ c \in Nat /\ pool[queue[j]].count \in Nat
        BY <2>1, <1>1, <1>4, <1>14
      <4> HIDE DEF i
      <4> QED BY <3>2, <4>1, SMTT(30)
    <3>4. \A d \in 1 .. pool[queue[j]].count : after[o + d] = queue[o + d]
      <4> TAKE d \in 1 .. pool[queue[j]].count
      <4>1. o + d \in 1 .. L
        <5>1. j \in Nat /\ j >= 1 /\ L \in Nat /\ pool[queue[j]].count \in Nat
          BY <2>1, <1>1, <1>14
        <5> HIDE DEF i
        <5> QED BY <3>2, <5>1, SMTT(30)
      <4> QED BY <4>1, <1>7
    <3> QED BY <2>1, <3>2, <3>3, <3>4
  <2> QED BY <2>2, <2>3
<1>19. Len(after) >= 1 /\ after[1] = child
  BY <1>1, <1>4, <1>7, <1>9
<1>20. Queue(pool, child, after, m + 1)
  BY <1>7, <1>15, <1>16, <1>17, <1>18, <1>19 DEF Queue, N
<1> QED BY <1>20 DEF after, block, i

\* A queue never outgrows the pool: it holds no slot twice.
LEMMA QueueFits ==
  ASSUME NEW pool, Shape(pool), NEW child, NEW queue, NEW m \in Nat, Queue(pool, child, queue, m)
  PROVE  Len(queue) <= Len(pool)
<1>1. queue \in [1 .. Len(queue) -> 1 .. Len(pool)] /\ Len(queue) \in Nat /\ Len(pool) \in Nat
  BY LenProperties, ShapeFacts DEF Queue
<1>2. queue \in Injection(1 .. Len(queue), 1 .. Len(pool))
  BY <1>1 DEF Queue, Injection, IsInjective
<1>3. /\ IsFiniteSet(1 .. Len(pool)) /\ Cardinality(1 .. Len(pool)) = Len(pool)
      /\ Cardinality(1 .. Len(queue)) = Len(queue)
  <2>1. \A n \in Nat : IsFiniteSet(1 .. n) /\ Cardinality(1 .. n) = n
    <3> TAKE n \in Nat
    <3>1. IsFiniteSet(1 .. n) /\ Cardinality(1 .. n) = IF 1 > n THEN 0 ELSE n - 1 + 1
      BY FS_Interval
    <3> QED BY <3>1
  <2> QED BY <1>1, <2>1
<1>4. Cardinality(1 .. Len(queue)) <= Cardinality(1 .. Len(pool))
  BY <1>2, <1>3, FS_Injection
<1> QED BY <1>3, <1>4

LEMMA QueueWhole ==
  ASSUME NEW pool, Shape(pool), NEW child, NEW queue, NEW m \in Nat, Queue(pool, child, queue, m),
         m >= Len(queue)
  PROVE  Queue(pool, child, queue, Len(queue))
<1>1. Len(queue) \in Nat
  BY LenProperties DEF Queue
<1>2. \A j \in 1 .. Len(queue) : j <= m /\ j <= Len(queue)
  BY <1>1
<1> QED BY <1>2 DEF Queue

LEMMA LoopEnds ==
  ASSUME NEW pool, Shape(pool), NEW child \in 1 .. Len(pool), NEW left \in 0 .. Len(pool),
         NEW queue, Queue(pool, child, queue, Len(pool) - left)
  PROVE  LET out == Loop(pool, Len(pool))[left][queue]
         IN  Queue(pool, child, out, Len(out))
<1> DEFINE N == Len(pool)
           Good(q) == Queue(pool, child, q, Len(q))
           Out(l, q) == Loop(pool, N)[l][q]
           Bad == {l \in 0 .. N : ~\A q : Queue(pool, child, q, N - l) => Good(Out(l, q))}
<1>0. N \in Nat /\ DOMAIN pool = 1 .. N
  BY ShapeFacts
<1>1. SUFFICES Bad = {}
  BY <1>1
<1>2. SUFFICES ASSUME Bad # {} PROVE FALSE
  OBVIOUS
<1>3. PICK l \in Bad : \A k \in Bad : l <= k
  <2>1. Bad \subseteq Nat
    BY <1>0
  <2> HIDE DEF Bad
  <2> QED BY <2>1, <1>2, NatLeast
<1>4. l \in 0 .. N /\ N - l \in Nat
  BY <1>0
<1>5. PICK q : Queue(pool, child, q, N - l) /\ ~Good(Out(l, q))
  BY <1>3
<1>6. q \in Seq(1 .. N) /\ Len(q) \in Nat
  BY <1>5, LenProperties DEF Queue
<1>7. Out(l, q) = IF l = 0 \/ N - l + 1 > Len(q) THEN q
                  ELSE Out(l - 1, q \o Block(pool, q[N - l + 1]))
  <2>1. q \in Seq(DOMAIN pool)
    BY <1>0, <1>6
  <2> QED BY <1>0, <1>4, <2>1, LoopUnfolds, SMTT(30)
<1>8. CASE N - l >= Len(q)
  <2>1. Out(l, q) = q
    BY <1>4, <1>6, <1>7, <1>8
  <2>2. Good(q)
    BY <1>4, <1>5, <1>8, QueueWhole
  <2> QED BY <2>1, <2>2, <1>5
<1>9. CASE ~(N - l >= Len(q))
  <2> DEFINE r == q \o Block(pool, q[N - l + 1])
  <2>1. l # 0
    <3>1. Len(q) <= N
      BY <1>4, <1>5, QueueFits
    <3> QED BY <3>1, <1>9, <1>0, <1>6
  <2>2. Out(l, q) = Out(l - 1, r)
    BY <1>4, <1>6, <1>7, <1>9, <2>1
  <2>3. Queue(pool, child, r, N - l + 1)
    <3>1. N - l + 1 <= Len(q)
      BY <1>4, <1>6, <1>9
    <3> QED BY <3>1, <1>4, <1>5, QueueStep
  <2>4. l - 1 \in 0 .. N /\ N - (l - 1) = N - l + 1 /\ ~(l <= l - 1)
    BY <1>0, <1>4, <2>1
  <2>5. l - 1 \notin Bad
    <3> HIDE DEF Bad
    <3> QED BY <1>3, <2>4
  <2>6. Good(Out(l - 1, r))
    <3> HIDE DEF r, Good
    <3> QED BY <2>3, <2>4, <2>5
  <2> QED BY <2>2, <2>6, <1>5
<1> QED BY <1>8, <1>9

LEMMA OrderWhole ==
  ASSUME NEW pool, Shape(pool), NEW child \in 1 .. Len(pool)
  PROVE  Queue(pool, child, BreadthFirst(pool, child), Len(BreadthFirst(pool, child)))
<1>1. Len(pool) \in Nat
  BY ShapeFacts
<1>2. Queue(pool, child, <<child>>, Len(pool) - Len(pool))
  <2>1. /\ <<child>> \in Seq(1 .. Len(pool)) /\ Len(<<child>>) = 1 /\ <<child>>[1] = child
        /\ \A k \in 1 .. 1 : <<child>>[k] = child
    OBVIOUS
  <2>2. child >= child /\ ~(1 <= 0) /\ Len(pool) - Len(pool) = 0
    BY <1>1
  <2> QED BY <2>1, <2>2 DEF Queue
<1>3. Len(pool) \in 0 .. Len(pool)
  BY <1>1
<1> QED BY <1>2, <1>3, LoopEnds, BreadthFirstIs

\* What the copy keeps of the pool: everything but the links, which are the
\* pool's through the order of the copy.
Copies(new, pool, child, order) ==
    /\ order \in Seq(1 .. Len(pool)) /\ Len(order) >= 1 /\ order[1] = child
    /\ \A j, k \in 1 .. Len(order) : order[j] = order[k] => j = k
    /\ new \in Seq(Nodes) /\ Len(new) = Len(order)
    /\ \A k \in 1 .. Len(order) :
        LET was == pool[order[k]]
        IN  /\ new[k] \in Nodes
            /\ new[k].cell = was.cell /\ new[k].n = was.n /\ new[k].w = was.w /\ new[k].vl = was.vl
            /\ new[k].count = was.count /\ new[k].mr = was.mr
            /\ new[k].terminal = was.terminal /\ new[k].tv = was.tv
            /\ k = 1 => new[k].parent = 0
            /\ k # 1 => new[k].parent \in 1 .. k - 1 /\ order[new[k].parent] = was.parent
            /\ was.first = 0 => new[k].first = 0
            /\ was.first # 0 =>
                /\ new[k].first > k /\ new[k].first + was.count - 1 <= Len(order)
                /\ \A d \in 0 .. was.count - 1 : order[new[k].first + d] = was.first + d

LEMMA SubtreeCopies ==
  ASSUME NEW pool, Shape(pool), NEW child \in 1 .. Len(pool)
  PROVE  Copies(Subtree(pool, child), pool, child, BreadthFirst(pool, child))
<1> DEFINE order == BreadthFirst(pool, child)
           L == Len(order)
           new == Subtree(pool, child)
           slot(i) == CHOOSE k \in DOMAIN order : order[k] = i
<1>1. Queue(pool, child, order, L)
  BY OrderWhole
<1>2. order \in Seq(1 .. Len(pool)) /\ L \in Nat /\ L >= 1 /\ DOMAIN order = 1 .. L /\ order[1] = child
  BY <1>1, LenProperties DEF Queue
<1>3. \A j, k \in 1 .. L : order[j] = order[k] => j = k
  BY <1>1 DEF Queue
<1>4. \A k \in 1 .. L : slot(order[k]) = k
  <2> HIDE DEF order, L
  <2> QED BY <1>2, <1>3
<1>5. new = [k \in 1 .. L |->
            [pool[order[k]] EXCEPT
                !.parent = IF k = 1 THEN 0 ELSE slot(@),
                !.first = IF @ = 0 THEN 0 ELSE slot(@)]]
  BY <1>2 DEF Subtree
<1>6. \A k \in 1 .. L : order[k] \in 1 .. Len(pool) /\ pool[order[k]] \in Nodes
  BY <1>2, ElementOfSeq, ShapeFacts
<1>7. \A k \in 2 .. L : \E j \in 1 .. L : j < k /\ order[j] = pool[order[k]].parent
  BY <1>1 DEF Queue
<1>8. ASSUME NEW k \in 1 .. L, pool[order[k]].first # 0
      PROVE  \E o \in k .. L :
                /\ o + pool[order[k]].count <= L
                /\ \A d \in 1 .. pool[order[k]].count : order[o + d] = pool[order[k]].first + d - 1
  <2>1. k <= L
    BY <1>2
  <2> QED BY <2>1, <1>1, <1>8 DEF Queue
<1>9. Len(new) = L /\ DOMAIN new = 1 .. L
  <2> HIDE DEF order, L, new, slot
  <2>1. DOMAIN new = 1 .. L
    BY <1>5, Zenon
  <2>2. new = [k \in 1 .. L |-> new[k]]
    BY <1>5, Zenon
  <2>3. \A n \in Nat : Len([k \in 1 .. n |-> new[k]]) = n
    OBVIOUS
  <2> QED BY <1>2, <2>1, <2>2, <2>3
<1> HIDE DEF order, L, new, slot
<1>10. ASSUME NEW k \in 1 .. L
       PROVE LET was == pool[order[k]]
             IN  /\ new[k] \in Nodes
                 /\ new[k].cell = was.cell /\ new[k].n = was.n /\ new[k].w = was.w
                 /\ new[k].vl = was.vl /\ new[k].count = was.count /\ new[k].mr = was.mr
                 /\ new[k].terminal = was.terminal /\ new[k].tv = was.tv
                 /\ k = 1 => new[k].parent = 0
                 /\ k # 1 => new[k].parent \in 1 .. k - 1 /\ order[new[k].parent] = was.parent
                 /\ was.first = 0 => new[k].first = 0
                 /\ was.first # 0 =>
                     /\ new[k].first > k /\ new[k].first + was.count - 1 <= L
                     /\ \A d \in 0 .. was.count - 1 : order[new[k].first + d] = was.first + d
  <2> DEFINE was == pool[order[k]]
             up == IF k = 1 THEN 0 ELSE slot(was.parent)
             down == IF was.first = 0 THEN 0 ELSE slot(was.first)
  <2>1. was \in Nodes
    BY <1>6
  <2>2. new[k] = [was EXCEPT !.parent = up, !.first = down]
    BY <1>5, <2>1 DEF Nodes
  <2>3. k # 1 => up \in 1 .. k - 1 /\ order[up] = was.parent
    <3> SUFFICES ASSUME k # 1 PROVE up \in 1 .. k - 1 /\ order[up] = was.parent
      OBVIOUS
    <3>1. k \in 2 .. L
      BY <1>2
    <3>2. PICK j \in 1 .. L : j < k /\ order[j] = was.parent
      BY <3>1, <1>7
    <3>3. up = j
      BY <3>2, <1>4
    <3> QED BY <3>2, <3>3
  <2>4. was.first # 0 =>
          /\ down \in Nat /\ down > k /\ down + was.count - 1 <= L
          /\ \A d \in 0 .. was.count - 1 : order[down + d] = was.first + d
    <3> SUFFICES ASSUME was.first # 0
                 PROVE  /\ down \in Nat /\ down > k /\ down + was.count - 1 <= L
                        /\ \A d \in 0 .. was.count - 1 : order[down + d] = was.first + d
      OBVIOUS
    <3>1. PICK o \in k .. L :
                /\ o + was.count <= L
                /\ \A d \in 1 .. was.count : order[o + d] = was.first + d - 1
      BY <1>8
    <3>2. was.count \in Nat /\ was.first \in Nat
      BY <2>1 DEF Nodes
    <3>3. was.count >= 1
      BY <1>6 DEF Shape
    <3> HIDE DEF was
    <3>4. o + 1 \in 1 .. L /\ o \in Nat /\ o >= k /\ L \in Nat
      BY <1>2, <3>1, <3>2, <3>3
    <3>5. order[o + 1] = was.first
      <4>1. 1 \in 1 .. was.count
        BY <3>2, <3>3
      <4>2. order[o + 1] = was.first + 1 - 1
        BY <4>1, <3>1
      <4> QED BY <4>2, <3>2
    <3>6. down = o + 1
      BY <3>4, <3>5, <1>4
    <3>7. ASSUME NEW d \in 0 .. was.count - 1 PROVE order[o + 1 + d] = was.first + d
      <4>1. d + 1 \in 1 .. was.count /\ o + (d + 1) = o + 1 + d
        BY <3>2, <3>4
      <4>2. order[o + (d + 1)] = was.first + (d + 1) - 1
        BY <4>1, <3>1
      <4>3. was.first + (d + 1) - 1 = was.first + d
        BY <3>2
      <4> QED BY <4>1, <4>2, <4>3
    <3>8. down + was.count - 1 <= L
      BY <3>1, <3>2, <3>4, <3>6
    <3> HIDE DEF down
    <3> QED BY <3>4, <3>6, <3>7, <3>8
  <2>5. was.first = 0 => down = 0
    OBVIOUS
  <2>6. up \in Nat /\ down \in Nat
    <3>1. up \in Nat
      BY <2>3
    <3>2. down \in Nat
      BY <2>4
    <3> QED BY <3>1, <3>2
  <2>7. k = 1 => up = 0
    OBVIOUS
  <2> HIDE DEF was, up, down
  <2>8. /\ new[k] \in Nodes
        /\ new[k].cell = was.cell /\ new[k].n = was.n /\ new[k].w = was.w
        /\ new[k].vl = was.vl /\ new[k].count = was.count /\ new[k].mr = was.mr
        /\ new[k].terminal = was.terminal /\ new[k].tv = was.tv
        /\ new[k].parent = up /\ new[k].first = down
    BY <2>1, <2>2, <2>6 DEF Nodes
  <2> QED BY <2>3, <2>4, <2>5, <2>7, <2>8 DEF was
<1>11. new \in Seq(Nodes)
  <2>1. new = [k \in 1 .. L |-> new[k]]
    BY <1>5, Zenon
  <2>2. \A n \in Nat : \A f : f \in [1 .. n -> Nodes] => f \in Seq(Nodes)
    BY IsASeq
  <2> QED BY <1>2, <1>10, <2>1, <2>2
<1> QED BY <1>2, <1>3, <1>9, <1>10, <1>11 DEF Copies, L, order, new

LEMMA SubtreeShape ==
  ASSUME NEW pool, Shape(pool), NEW child, NEW new, NEW order, Copies(new, pool, child, order)
  PROVE  Shape(new)
<1> DEFINE L == Len(order)
<1>1. /\ order \in Seq(1 .. Len(pool)) /\ L >= 1 /\ L \in Nat
      /\ new \in Seq(Nodes) /\ Len(new) = L /\ Len(pool) \in Nat
  BY LenProperties, ShapeFacts DEF Copies
<1>2. \A k \in 1 .. L : order[k] \in 1 .. Len(pool) /\ pool[order[k]] \in Nodes /\ new[k] \in Nodes
  BY <1>1, ElementOfSeq, ShapeFacts DEF Copies
<1>3. \A j, k \in 1 .. L : order[j] = order[k] => j = k
  BY DEF Copies
<1>4. \A k \in 1 .. L : k # 1 =>
        new[k].parent \in 1 .. k - 1 /\ order[new[k].parent] = pool[order[k]].parent
  BY DEF Copies
<1>5. ASSUME NEW k \in 1 .. L, pool[order[k]].first # 0
      PROVE  LET was == pool[order[k]]
             IN  /\ new[k].first > k /\ new[k].first + was.count - 1 <= L
                 /\ \A d \in 0 .. was.count - 1 : order[new[k].first + d] = was.first + d
  BY <1>5 DEF Copies
<1>6. \A k \in 1 .. L : /\ new[k].count = pool[order[k]].count
                        /\ pool[order[k]].first = 0 => new[k].first = 0
                        /\ k = 1 => new[k].parent = 0
  BY DEF Copies
<1>7. \A k \in 1 .. L : LET node == pool[order[k]]
        IN  /\ node.first \in Nat /\ node.count \in Nat /\ new[k].first \in Nat /\ node.parent \in Nat
            /\ node.count <= MaxChildren
            /\ node.first = 0 => node.count = 0
            /\ node.first # 0 => node.count >= 1
            /\ node.parent = 0 <=> order[k] = 1
            /\ \A c \in node.first .. node.first + node.count - 1 : pool[c].parent = order[k]
            /\ order[k] # 1 =>
                 pool[node.parent].first <= order[k]
                   /\ order[k] < pool[node.parent].first + pool[node.parent].count
  BY <1>2 DEF Shape, Nodes
<1> HIDE DEF L
<1>8. ASSUME NEW k \in 1 .. L, NEW c \in new[k].first .. new[k].first + new[k].count - 1
      PROVE  new[c].parent = k
  <2> DEFINE was == pool[order[k]]
             d == c - new[k].first
  <2>1. was.first # 0
    <3> SUFFICES ASSUME was.first = 0 PROVE FALSE
      OBVIOUS
    <3>1. new[k].first = 0 /\ new[k].count = 0
      BY <1>6, <1>7
    <3> QED BY <3>1
  <2>2. /\ new[k].first > k /\ new[k].first + was.count - 1 <= L /\ new[k].first \in Nat
        /\ was.count \in Nat /\ new[k].count = was.count /\ was.first \in Nat
    BY <2>1, <1>5, <1>6, <1>7
  <2>3. d \in 0 .. was.count - 1 /\ c = new[k].first + d /\ c \in 1 .. L /\ c # 1
    <3> HIDE DEF was
    <3> QED BY <2>2, <1>1
  <2>4. order[c] = was.first + d
    BY <2>1, <2>3, <1>5
  <2>5. was.first + d \in was.first .. was.first + was.count - 1
    <3> HIDE DEF was, d
    <3> QED BY <2>2, <2>3
  <2>6. pool[order[c]].parent = order[k]
    BY <2>4, <2>5, <1>7
  <2>7. new[c].parent \in 1 .. L /\ order[new[c].parent] = order[k]
    <3>1. new[c].parent \in 1 .. c - 1 /\ order[new[c].parent] = pool[order[c]].parent
      BY <2>3, <1>4
    <3> QED BY <3>1, <2>3, <2>6, <1>1
  <2> QED BY <2>7, <1>3
<1>9. ASSUME NEW k \in 1 .. L, k # 1
      PROVE  /\ new[new[k].parent].first <= k
             /\ k < new[new[k].parent].first + new[new[k].parent].count
  <2> DEFINE p == new[k].parent
             was == pool[order[p]]
             d == order[k] - was.first
  <2>1. p \in 1 .. L /\ order[p] = pool[order[k]].parent /\ p \in Nat
    <3>1. p \in 1 .. k - 1 /\ order[p] = pool[order[k]].parent
      BY <1>4, <1>9
    <3> QED BY <3>1, <1>1
  <2>2. order[k] # 1
    <3>1. order[p] # 0
      BY <2>1, <1>2
    <3> QED BY <3>1, <2>1, <1>7
  <2>3. was.first <= order[k] /\ order[k] < was.first + was.count
    BY <2>1, <2>2, <1>7
  <2>4. was.first \in Nat /\ was.count \in Nat /\ order[k] \in Nat /\ new[p].first \in Nat
        /\ new[p].count = was.count
    <3>1. order[k] \in Nat
      BY <1>1, <1>2
    <3> QED BY <2>1, <3>1, <1>6, <1>7
  <2>5. was.first # 0
    BY <2>1, <2>3, <2>4, <1>7, SMTT(30)
  <2>6. d \in 0 .. was.count - 1 /\ was.first + d = order[k]
    <3> HIDE DEF was, p
    <3> QED BY <2>3, <2>4
  <2>7. order[new[p].first + d] = was.first + d /\ new[p].first > p /\ new[p].first + was.count - 1 <= L
    <3> HIDE DEF p, d
    <3> QED BY <2>1, <2>5, <2>6, <1>5
  <2>8. new[p].first + d \in 1 .. L
    <3>1. p \in Nat /\ L \in Nat /\ d \in 0 .. was.count - 1 /\ was.count \in Nat /\ new[p].first \in Nat
      BY <2>1, <2>4, <2>6, <1>1
    <3>2. new[p].first > p /\ new[p].first + was.count - 1 <= L
      BY <2>7
    <3> HIDE DEF was, p, d
    <3> QED BY ONLY <3>1, <3>2
  <2>9. new[p].first + d = k
    BY <2>6, <2>7, <2>8, <1>3
  <2> HIDE DEF was, p, d
  <2>10. new[p].first <= k /\ k < new[p].first + new[p].count
    BY <2>4, <2>6, <2>9
  <2> QED BY <2>10 DEF p
<1>10. ASSUME NEW k \in 1 .. L
       PROVE  /\ new[k].parent \in 0 .. k - 1 /\ (new[k].parent = 0 <=> k = 1)
              /\ new[k].count <= MaxChildren
              /\ new[k].first = 0 => new[k].count = 0
              /\ new[k].first # 0 =>
                   new[k].first > k /\ new[k].count >= 1 /\ new[k].first + new[k].count - 1 <= L
  <2>1. new[k].parent \in 0 .. k - 1 /\ (new[k].parent = 0 <=> k = 1)
    BY <1>4, <1>6
  <2>2. CASE pool[order[k]].first = 0
    BY <2>1, <2>2, <1>6, <1>7
  <2>3. CASE pool[order[k]].first # 0
    <3>1. new[k].first > k /\ new[k].first + pool[order[k]].count - 1 <= L
      BY <2>3, <1>5
    <3>2. k >= 1 /\ k \in Nat
      BY <1>1
    <3> QED BY <2>1, <2>3, <3>1, <3>2, <1>6, <1>7
  <2> QED BY <2>2, <2>3
<1> QED BY <1>1, <1>8, <1>9, <1>10 DEF Shape

-----------------------------------------------------------------------------
(* Values and boards *)

LEMMA FunctionSeq ==
  ASSUME NEW S, NEW n \in Nat, NEW f, DOMAIN f = 1 .. n, \A i \in 1 .. n : f[i] \in S,
         f = [i \in 1 .. n |-> f[i]]
  PROVE  f \in Seq(S) /\ Len(f) = n
<1>1. \A g : g \in [1 .. n -> S] => g \in Seq(S)
  BY IsASeq
<1>2. Len([i \in 1 .. n |-> f[i]]) = n
  OBVIOUS
<1>3. f \in [1 .. n -> S]
  OBVIOUS
<1> QED BY <1>1, <1>2, <1>3

LEMMA PositionType ==
  ASSUME NEW b \in Seq(Cells)
  PROVE  Position(b) \in Positions /\ MovesRemaining(b) \in {1, 2} /\ TerminalValueToMove(b) \in Int
<1>1. \A i \in DOMAIN b : b[i] \in Cells
  BY LenProperties, ElementOfSeq
<1>2. \A p : StonesOf(b, p) \subseteq Cells
  BY <1>1 DEF StonesOf
<1> QED BY <1>2 DEF Position, Positions, MovesRemaining, TerminalValueToMove

LEMMA BoardType ==
  ASSUME NEW pool, Shape(pool), NEW b \in Seq(Cells), NEW i \in 1 .. Len(pool)
  PROVE  BoardAt(pool, b, i) \in Seq(Cells)
<1> DEFINE path == Path(pool, i)
           below == Tail(path)
           cells == [k \in DOMAIN below |-> pool[below[k]].cell]
<1>1. path \in Seq(1 .. Len(pool)) /\ path # <<>>
  <2>1. path \in Seq(1 .. i) /\ path = Append(Path(pool, pool[i].parent), i)
    BY ShapeFacts, PathSeq, PathUnfolds
  <2>2. 1 .. i \subseteq 1 .. Len(pool) /\ pool[i].parent \in 0 .. Len(pool)
    BY ShapeFacts DEF Downward
  <2>3. Path(pool, pool[i].parent) \in Seq(1 .. Len(pool))
    <3>1. 1 .. pool[i].parent \subseteq 1 .. Len(pool)
      BY <2>2, ShapeFacts
    <3> QED BY <3>1, <2>2, ShapeFacts, PathSeq, SeqMonotonic
  <2> QED BY <2>1, <2>2, <2>3, SeqMonotonic, AppendProperties
<1>2. below \in Seq(1 .. Len(pool))
  <2> HIDE DEF path
  <2> QED BY <1>1
<1>3. DOMAIN below = 1 .. Len(below) /\ Len(below) \in Nat /\ \A k \in 1 .. Len(below) : below[k] \in 1 .. Len(pool)
  BY <1>2, LenProperties, ElementOfSeq
<1>4. \A k \in 1 .. Len(below) : pool[below[k]].cell \in Cells
  BY <1>3, ShapeFacts DEF Nodes
<1> HIDE DEF below
<1>5. cells \in Seq(Cells)
  BY <1>3, <1>4, FunctionSeq
<1>6. BoardAt(pool, b, i) = b \o cells
  BY DEF BoardAt, below
<1> QED BY <1>5, <1>6, ConcatProperties

LEMMA RootShape ==
  ASSUME NEW b \in Seq(Cells)
  PROVE  Shape(<<Root(b)>>) /\ Root(b) \in Nodes
<1> DEFINE r == Root(b)
<1>1. /\ r \in Nodes /\ r.parent = 0 /\ r.first = 0 /\ r.count = 0
  BY PositionType, CellsAssumption DEF Root, Node, Nodes
<1> HIDE DEF r
<1>2. <<r>> \in Seq(Nodes) /\ Len(<<r>>) = 1 /\ <<r>>[1] = r
  BY <1>1
<1>3. 0 <= MaxChildren
  BY ChildrenAssumption
<1>4. \A i \in 1 .. 1 : i = 1
  OBVIOUS
<1>5. \A c \in 0 .. 0 + 0 - 1 : FALSE
  OBVIOUS
<1> QED BY <1>1, <1>2, <1>3, <1>4, <1>5 DEF Shape, r

LEMMA FiniteCells ==
  ASSUME NEW S, S \subseteq Cells
  PROVE  IsFiniteSet(S) /\ Cardinality(S) \in Nat
  BY CellsAssumption, FS_Subset, FS_CardinalityType

LEMMA LowestPrior ==
  ASSUME NEW S, S \subseteq Cells, S # {}
  PROVE  \E c \in S : \A d \in S : Prior[c] <= Prior[d]
<1> DEFINE V == {Prior[c] : c \in S}
<1>1. V \subseteq Nat /\ V # {}
  BY CellsAssumption
<1>2. PICK n \in V : \A m \in V : n <= m
  <2> HIDE DEF V
  <2> QED BY <1>1, NatLeast
<1> QED BY <1>2

\* The ranks are all taken: what PickTopK's choice is among is never empty.
LEMMA Ranked ==
  ASSUME NEW S, S \subseteq Cells
  PROVE  \A k \in 1 .. Cardinality(S) :
            \E c \in S : Cardinality({d \in S : Prior[d] < Prior[c]}) = k - 1
<1> DEFINE Lower(c) == {d \in S : Prior[d] < Prior[c]}
           Bad == {k \in 1 .. Cardinality(S) : ~\E c \in S : Cardinality(Lower(c)) = k - 1}
<1>1. IsFiniteSet(S) /\ Cardinality(S) \in Nat /\ \A c \in S : Prior[c] \in Nat
  BY FiniteCells, CellsAssumption
<1> SUFFICES ASSUME Bad # {} PROVE FALSE
  OBVIOUS
<1>2. PICK k \in Bad : \A j \in Bad : k <= j
  <2>1. Bad \subseteq Nat
    BY <1>1
  <2> HIDE DEF Bad
  <2> QED BY <2>1, NatLeast
<1>3. k \in 1 .. Cardinality(S) /\ ~\E c \in S : Cardinality(Lower(c)) = k - 1
  OBVIOUS
<1>4. S # {}
  BY <1>1, <1>3, FS_EmptySet
<1>5. CASE k = 1
  <2>1. PICK c \in S : \A d \in S : Prior[c] <= Prior[d]
    BY <1>4, LowestPrior
  <2>2. Lower(c) = {}
    BY <2>1, <1>1
  <2>3. Cardinality(Lower(c)) = 0
    BY <2>2, FS_EmptySet
  <2>4. Cardinality(Lower(c)) = k - 1
    BY <2>3, <1>5
  <2> QED BY <2>4, <1>3
<1>6. CASE k # 1
  <2>1. k - 1 \in 1 .. Cardinality(S) /\ ~(k <= k - 1)
    BY <1>1, <1>3, <1>6
  <2>2. k - 1 \notin Bad
    <3> HIDE DEF Bad
    <3> QED BY <2>1, <1>2
  <2>3. PICK c \in S : Cardinality(Lower(c)) = k - 1 - 1
    BY <2>1, <2>2
  <2> DEFINE Upper == {d \in S : Prior[c] < Prior[d]}
  <2>4. IsFiniteSet(Lower(c)) /\ c \notin Lower(c)
    BY <1>1, FiniteCells
  <2>5. Cardinality(Lower(c) \cup {c}) = k - 1
    <3> HIDE DEF Lower
    <3>1. Cardinality(Lower(c) \cup {c}) = Cardinality(Lower(c)) + 1
      BY <2>4, FS_AddElement
    <3> QED BY <3>1, <2>3, <1>3
  <2>6. Upper # {}
    <3> SUFFICES ASSUME Upper = {} PROVE FALSE
      OBVIOUS
    <3>1. \A d \in S : d = c \/ Prior[d] < Prior[c]
      <4> TAKE d \in S
      <4>1. ~(Prior[c] < Prior[d]) /\ Prior[c] \in Nat /\ Prior[d] \in Nat
        BY <1>1
      <4> QED BY <4>1, CellsAssumption
    <3>2. S = Lower(c) \cup {c}
      BY <3>1
    <3>3. Cardinality(S) = k - 1
      BY <3>2, <2>5
    <3>4. k \in 1 .. Cardinality(S)
      BY <1>3
    <3> QED BY ONLY <3>3, <3>4, <1>1
  <2>7. PICK e \in Upper : \A d \in Upper : Prior[e] <= Prior[d]
    BY <2>6, LowestPrior
  <2>8. Lower(e) = Lower(c) \cup {c}
    <3>1. \A d \in S : Prior[d] < Prior[e] <=> d = c \/ Prior[d] < Prior[c]
      <4> TAKE d \in S
      <4>1. Prior[d] \in Nat /\ Prior[c] \in Nat /\ Prior[e] \in Nat /\ Prior[c] < Prior[e]
        BY <1>1
      <4>2. CASE Prior[c] < Prior[d]
        BY <4>1, <4>2, <2>7
      <4>3. CASE ~(Prior[c] < Prior[d])
        <5>1. d = c \/ Prior[d] < Prior[c]
          BY <4>1, <4>3, CellsAssumption
        <5> QED BY <5>1, <4>1
      <4> QED BY <4>2, <4>3
    <3> QED BY <3>1
  <2>9. Cardinality(Lower(e)) = k - 1 /\ e \in S
    <3> HIDE DEF Lower
    <3> QED BY <2>5, <2>8
  <2> QED BY <2>9, <1>3
<1> QED BY <1>5, <1>6

LEMMA PickTopKIs ==
  ASSUME NEW b \in Seq(Cells)
  PROVE  /\ PickTopK(b) \in Seq(LegalMoves(b)) /\ Len(PickTopK(b)) \in Nat
         /\ Len(PickTopK(b)) <= MaxChildren
         /\ LegalMoves(b) # {} => Len(PickTopK(b)) >= 1
         /\ \A j, k \in 1 .. Len(PickTopK(b)) : PickTopK(b)[j] = PickTopK(b)[k] => j = k
<1> DEFINE legal == LegalMoves(b)
           kept == IF Cardinality(legal) <= MaxChildren THEN Cardinality(legal) ELSE MaxChildren
           cells == PickTopK(b)
           rank(c) == Cardinality({d \in legal : Prior[d] < Prior[c]})
           nth(k) == CHOOSE c \in legal : rank(c) = k - 1
<1>1. legal \subseteq Cells /\ IsFiniteSet(legal) /\ Cardinality(legal) \in Nat
  BY FiniteCells DEF LegalMoves
<1>2. kept \in Nat /\ kept <= Cardinality(legal) /\ kept <= MaxChildren
  BY <1>1, ChildrenAssumption
<1>3. legal # {} => kept >= 1
  <2>1. legal # {} => Cardinality(legal) # 0
    BY <1>1, FS_EmptySet
  <2> QED BY <2>1, <1>1, ChildrenAssumption
<1>4. cells = [k \in 1 .. kept |-> nth(k)]
  BY DEF PickTopK
<1> HIDE DEF kept, cells, legal
<1>5. \A k \in 1 .. kept : cells[k] \in legal /\ rank(cells[k]) = k - 1
  <2> TAKE k \in 1 .. kept
  <2>1. k \in 1 .. Cardinality(legal)
    BY <1>1, <1>2
  <2>2. \E c \in legal : rank(c) = k - 1
    BY <2>1, <1>1, Ranked
  <2> HIDE DEF rank
  <2> QED BY <1>4, <2>2
<1> HIDE DEF rank
<1> HIDE DEF nth
<1>6. cells \in Seq(legal) /\ Len(cells) = kept
  <2>1. DOMAIN cells = 1 .. kept
    BY <1>4, Zenon
  <2>2. cells = [k \in 1 .. kept |-> cells[k]]
    BY <1>4, Zenon
  <2> QED BY <1>2, <1>5, <2>1, <2>2, FunctionSeq
<1>7. \A j, k \in 1 .. kept : cells[j] = cells[k] => j = k
  <2> TAKE j, k \in 1 .. kept
  <2>1. rank(cells[j]) = j - 1 /\ rank(cells[k]) = k - 1 /\ j \in Int /\ k \in Int
    BY <1>5, <1>2
  <2> HIDE DEF rank
  <2> QED BY <2>1
<1> QED BY <1>2, <1>3, <1>6, <1>7 DEF cells, legal

-----------------------------------------------------------------------------
(* What each operation does to a pool *)

\* The tree of `pool`, with other statistics.
SameLinks(new, pool) ==
    /\ new \in Seq(Nodes) /\ Len(new) = Len(pool)
    /\ \A i \in 1 .. Len(pool) :
        /\ new[i].parent = pool[i].parent /\ new[i].cell = pool[i].cell
        /\ new[i].first = pool[i].first /\ new[i].count = pool[i].count /\ new[i].mr = pool[i].mr

LEMMA SameLinksShape ==
  ASSUME NEW pool, Shape(pool), NEW new, SameLinks(new, pool)
  PROVE  /\ Shape(new)
         /\ \A i \in 0 .. Len(pool) : Path(new, i) = Path(pool, i)
<1>1. Shape(new)
  <2>1. Len(pool) \in Nat /\ \A i \in 1 .. Len(pool) : pool[i] \in Nodes
    BY ShapeFacts
  <2>2. \A i \in 1 .. Len(pool) : new[i].parent = pool[i].parent /\ new[i].first = pool[i].first /\ new[i].count = pool[i].count
    BY DEF SameLinks
  <2>3. ASSUME NEW i \in 1 .. Len(pool)
        PROVE  \A c \in new[i].first .. new[i].first + new[i].count - 1 : new[c].parent = i
    <3>1. pool[i].count \in Nat /\ pool[i].first \in Nat
      BY <2>1 DEF Nodes
    <3>2. \A c \in pool[i].first .. pool[i].first + pool[i].count - 1 : c \in 1 .. Len(pool) /\ pool[c].parent = i
      <4> TAKE c \in pool[i].first .. pool[i].first + pool[i].count - 1
      <4>1. pool[i].count # 0
        BY <3>1
      <4>2. pool[i].first > i /\ pool[i].first + pool[i].count - 1 <= Len(pool)
        BY <4>1 DEF Shape
      <4>3. c \in 1 .. Len(pool)
        BY <4>2, <3>1, <2>1
      <4> QED BY <4>3 DEF Shape
    <3> QED BY <2>2, <3>2
  <2>4. ASSUME NEW i \in 1 .. Len(pool)
        PROVE  /\ new[i].parent \in 0 .. i - 1 /\ (new[i].parent = 0 <=> i = 1)
               /\ new[i].count <= MaxChildren
               /\ new[i].first = 0 => new[i].count = 0
               /\ new[i].first # 0 =>
                    new[i].first > i /\ new[i].count >= 1 /\ new[i].first + new[i].count - 1 <= Len(pool)
    BY <2>2 DEF Shape
  <2>5. ASSUME NEW i \in 1 .. Len(pool), i # 1
        PROVE  /\ new[new[i].parent].first <= i
               /\ i < new[new[i].parent].first + new[new[i].parent].count
    <3>1. pool[i].parent \in 1 .. Len(pool)
      BY <2>1, <2>5 DEF Shape
    <3> QED BY <2>2, <2>5, <3>1 DEF Shape
  <2> QED BY <2>3, <2>4, <2>5 DEF Shape, SameLinks
<1>2. \A i \in 0 .. Len(pool) : Path(new, i) = Path(pool, i)
  <2>1. /\ DOMAIN new = 1 .. Len(new) /\ Len(new) = Len(pool) /\ Downward(new)
        /\ DOMAIN pool = 1 .. Len(pool) /\ Len(pool) \in Nat /\ Downward(pool)
        /\ \A i \in 1 .. Len(pool) : new[i].parent = pool[i].parent
    BY <1>1, ShapeFacts DEF SameLinks
  <2> QED BY <2>1, PathSame
<1> QED BY <1>1, <1>2

LEMMA SameAbove ==
  ASSUME NEW pool, Shape(pool), NEW new, SameLinks(new, pool)
  PROVE  \A i \in 1 .. Len(pool) : Above(new, i) = Above(pool, i)
  BY SameLinksShape, ShapeFacts DEF Above

LEMMA ApplyIs ==
  ASSUME NEW pool, Shape(pool), NEW leaf \in 1 .. Len(pool)
  PROVE  LET new == ApplyVirtualLoss(pool, leaf)
         IN  /\ SameLinks(new, pool)
             /\ \A i \in 1 .. Len(pool) :
                 /\ new[i].n = pool[i].n /\ new[i].w = pool[i].w
                 /\ new[i].terminal = pool[i].terminal /\ new[i].tv = pool[i].tv
                 /\ new[i].vl = pool[i].vl + IF i \in Above(pool, leaf) THEN 1 ELSE 0
<1> DEFINE new == ApplyVirtualLoss(pool, leaf)
<1>1. new = [i \in 1 .. Len(pool) |->
               IF i \in Above(pool, leaf) THEN [pool[i] EXCEPT !.vl = @ + 1] ELSE pool[i]]
  BY ShapeFacts DEF ApplyVirtualLoss, Above
<1> HIDE DEF new
<1>2. ASSUME NEW i \in 1 .. Len(pool)
      PROVE  /\ new[i] \in Nodes
             /\ new[i].parent = pool[i].parent /\ new[i].cell = pool[i].cell
             /\ new[i].first = pool[i].first /\ new[i].count = pool[i].count /\ new[i].mr = pool[i].mr
             /\ new[i].n = pool[i].n /\ new[i].w = pool[i].w
             /\ new[i].terminal = pool[i].terminal /\ new[i].tv = pool[i].tv
             /\ new[i].vl = pool[i].vl + IF i \in Above(pool, leaf) THEN 1 ELSE 0
  <2>1. pool[i] \in Nodes
    BY ShapeFacts
  <2>2. CASE i \in Above(pool, leaf)
    BY <1>1, <2>1, <2>2 DEF Nodes
  <2>3. CASE i \notin Above(pool, leaf)
    BY <1>1, <2>1, <2>3 DEF Nodes
  <2> QED BY <2>2, <2>3
<1>3. new \in Seq(Nodes) /\ Len(new) = Len(pool)
  <2>1. DOMAIN new = 1 .. Len(pool) /\ new = [i \in 1 .. Len(pool) |-> new[i]]
    BY <1>1, Zenon
  <2> QED BY <2>1, <1>2, ShapeFacts, FunctionSeq
<1> QED BY <1>2, <1>3 DEF SameLinks, new

LEMMA UndoIs ==
  ASSUME NEW pool, Shape(pool), NEW leaf \in 1 .. Len(pool)
  PROVE  LET new == UndoVirtualLoss(pool, leaf)
         IN  /\ SameLinks(new, pool)
             /\ \A i \in 1 .. Len(pool) :
                 /\ new[i].n = pool[i].n /\ new[i].w = pool[i].w
                 /\ new[i].terminal = pool[i].terminal /\ new[i].tv = pool[i].tv
                 /\ new[i].vl = IF i \in Above(pool, leaf) /\ pool[i].vl > 0 THEN pool[i].vl - 1 ELSE pool[i].vl
<1> DEFINE new == UndoVirtualLoss(pool, leaf)
<1>1. new = [i \in 1 .. Len(pool) |->
               IF i \in Above(pool, leaf) /\ pool[i].vl > 0 THEN [pool[i] EXCEPT !.vl = @ - 1] ELSE pool[i]]
  BY ShapeFacts DEF UndoVirtualLoss, Above
<1> HIDE DEF new
<1>2. ASSUME NEW i \in 1 .. Len(pool)
      PROVE  /\ new[i] \in Nodes
             /\ new[i].parent = pool[i].parent /\ new[i].cell = pool[i].cell
             /\ new[i].first = pool[i].first /\ new[i].count = pool[i].count /\ new[i].mr = pool[i].mr
             /\ new[i].n = pool[i].n /\ new[i].w = pool[i].w
             /\ new[i].terminal = pool[i].terminal /\ new[i].tv = pool[i].tv
             /\ new[i].vl = IF i \in Above(pool, leaf) /\ pool[i].vl > 0 THEN pool[i].vl - 1 ELSE pool[i].vl
  <2>1. pool[i] \in Nodes
    BY ShapeFacts
  <2>2. CASE i \in Above(pool, leaf) /\ pool[i].vl > 0
    <3>1. new[i] = [pool[i] EXCEPT !.vl = @ - 1] /\ pool[i].vl - 1 \in Nat
      BY <1>1, <2>1, <2>2 DEF Nodes
    <3> QED BY <3>1, <2>1, <2>2 DEF Nodes
  <2>3. CASE ~(i \in Above(pool, leaf) /\ pool[i].vl > 0)
    <3>1. new[i] = pool[i]
      BY <1>1, <2>3
    <3> QED BY <3>1, <2>1, <2>3
  <2> QED BY <2>2, <2>3
<1>3. new \in Seq(Nodes) /\ Len(new) = Len(pool)
  <2>1. DOMAIN new = 1 .. Len(pool) /\ new = [i \in 1 .. Len(pool) |-> new[i]]
    BY <1>1, Zenon
  <2> QED BY <2>1, <1>2, ShapeFacts, FunctionSeq
<1> QED BY <1>2, <1>3 DEF SameLinks, new

\* One descent's evaluation backed up: a visit more and a loss less on the path,
\* and perhaps leaf's first children after the last slot.
Backed(new, pool, leaf) ==
    /\ new \in Seq(Nodes) /\ Len(new) >= Len(pool)
    /\ \A i \in 1 .. Len(pool) :
        /\ new[i].parent = pool[i].parent /\ new[i].cell = pool[i].cell /\ new[i].mr = pool[i].mr
        /\ new[i].n = pool[i].n + IF i \in Above(pool, leaf) THEN 1 ELSE 0
        /\ new[i].vl = IF i \in Above(pool, leaf) /\ pool[i].vl > 0 THEN pool[i].vl - 1 ELSE pool[i].vl
        /\ i # leaf \/ Len(new) = Len(pool) =>
            new[i].first = pool[i].first /\ new[i].count = pool[i].count
    /\ Len(new) # Len(pool) =>
        /\ pool[leaf].first = 0
        /\ new[leaf].first = Len(pool) + 1 /\ new[leaf].count = Len(new) - Len(pool)
        /\ new[leaf].count <= MaxChildren
        /\ \A i \in Len(pool) + 1 .. Len(new) :
            /\ new[i].parent = leaf /\ new[i].first = 0 /\ new[i].count = 0
            /\ new[i].n = 0 /\ new[i].vl = 0

LEMMA BackupIs ==
  ASSUME NEW pool, Shape(pool), NEW leaf \in 1 .. Len(pool), NEW value \in Int
  PROVE  LET new == Backup(pool, leaf, value)
         IN  /\ Backed(new, pool, leaf) /\ Len(new) = Len(pool)
             /\ \A i \in 1 .. Len(pool) : new[i].terminal = pool[i].terminal /\ new[i].tv = pool[i].tv
<1> DEFINE new == Backup(pool, leaf, value)
           path == Above(pool, leaf)
           turnsBelow(i) == Cardinality({ j \in path : j > i /\ Turns(pool, j) })
           part(i) == IF turnsBelow(i) % 2 = 0 THEN value ELSE -value
<1>1. new = [i \in 1 .. Len(pool) |->
               IF i \notin path THEN pool[i]
               ELSE [pool[i] EXCEPT !.n = @ + 1, !.w = @ + part(i), !.vl = IF @ > 0 THEN @ - 1 ELSE 0]]
  BY ShapeFacts DEF Backup, Above
<1>p. \A i : part(i) \in Int
  OBVIOUS
<1> HIDE DEF new, part, path
<1>2. ASSUME NEW i \in 1 .. Len(pool)
      PROVE  /\ new[i] \in Nodes
             /\ new[i].parent = pool[i].parent /\ new[i].cell = pool[i].cell
             /\ new[i].first = pool[i].first /\ new[i].count = pool[i].count /\ new[i].mr = pool[i].mr
             /\ new[i].n = pool[i].n + IF i \in path THEN 1 ELSE 0
             /\ new[i].terminal = pool[i].terminal /\ new[i].tv = pool[i].tv
             /\ new[i].vl = IF i \in path /\ pool[i].vl > 0 THEN pool[i].vl - 1 ELSE pool[i].vl
  <2>1. pool[i] \in Nodes
    BY ShapeFacts
  <2>2. CASE i \in path
    <3> DEFINE loss == IF pool[i].vl > 0 THEN pool[i].vl - 1 ELSE 0
    <3>1. pool[i].n \in Nat /\ pool[i].w \in Int /\ pool[i].vl \in Nat
      BY <2>1 DEF Nodes
    <3>2. loss \in Nat /\ loss = (IF pool[i].vl > 0 THEN pool[i].vl - 1 ELSE pool[i].vl)
      BY <3>1
    <3>3. new[i] = [pool[i] EXCEPT !.n = pool[i].n + 1, !.w = pool[i].w + part(i), !.vl = loss]
      BY <1>1, <2>1, <2>2 DEF Nodes
    <3>4. pool[i].n + 1 \in Nat /\ pool[i].w + part(i) \in Int
      BY <3>1, <1>p
    <3> HIDE DEF loss
    <3> QED BY <2>1, <2>2, <3>2, <3>3, <3>4 DEF Nodes
  <2>3. CASE i \notin path
    <3>1. new[i] = pool[i] /\ pool[i].n \in Nat
      BY <1>1, <2>1, <2>3 DEF Nodes
    <3> QED BY <3>1, <2>1, <2>3
  <2> QED BY <2>2, <2>3
<1>3. new \in Seq(Nodes) /\ Len(new) = Len(pool)
  <2>1. DOMAIN new = 1 .. Len(pool) /\ new = [i \in 1 .. Len(pool) |-> new[i]]
    BY <1>1, Zenon
  <2> QED BY <2>1, <1>2, ShapeFacts, FunctionSeq
<1>4. Len(pool) \in Nat
  BY ShapeFacts
<1> QED BY <1>2, <1>3, <1>4 DEF Backed, new, path

LEMMA MarkTerminalIs ==
  ASSUME NEW pool, Shape(pool), NEW leaf \in 1 .. Len(pool), NEW tv \in Int
  PROVE  Backed(MarkTerminal(pool, leaf, tv), pool, leaf) /\ Len(MarkTerminal(pool, leaf, tv)) = Len(pool)
<1> DEFINE old == Backup(pool, leaf, tv)
           new == MarkTerminal(pool, leaf, tv)
           node == [old[leaf] EXCEPT !.terminal = TRUE, !.tv = tv]
<1>1. Backed(old, pool, leaf) /\ Len(old) = Len(pool) /\ old \in Seq(Nodes) /\ Len(pool) \in Nat
  BY BackupIs, ShapeFacts DEF Backed
<1>2. DOMAIN old = 1 .. Len(pool) /\ \A i \in 1 .. Len(pool) : old[i] \in Nodes
  BY <1>1, LenProperties, ElementOfSeq
<1> HIDE DEF old
<1>3. new = [old EXCEPT ![leaf] = node]
  <2>1. old[leaf] \in Nodes
    BY <1>2
  <2>2. new = [old EXCEPT ![leaf].terminal = TRUE, ![leaf].tv = tv]
    BY DEF MarkTerminal, old
  <2> QED BY <1>2, <2>1, <2>2 DEF Nodes
<1>4. /\ node \in Nodes
      /\ node.parent = old[leaf].parent /\ node.cell = old[leaf].cell /\ node.mr = old[leaf].mr
      /\ node.first = old[leaf].first /\ node.count = old[leaf].count
      /\ node.n = old[leaf].n /\ node.vl = old[leaf].vl
  <2>1. old[leaf] \in Nodes
    BY <1>2
  <2> QED BY <2>1 DEF Nodes
<1> HIDE DEF node, new
<1>5. new \in Seq(Nodes) /\ Len(new) = Len(pool) /\ new[leaf] = node
      /\ \A i \in 1 .. Len(pool) : i # leaf => new[i] = old[i]
  BY <1>1, <1>2, <1>3, <1>4, ExceptSeq
<1>6. \A i \in 1 .. Len(pool) :
        /\ new[i].parent = old[i].parent /\ new[i].cell = old[i].cell /\ new[i].mr = old[i].mr
        /\ new[i].first = old[i].first /\ new[i].count = old[i].count
        /\ new[i].n = old[i].n /\ new[i].vl = old[i].vl
  <2> TAKE i \in 1 .. Len(pool)
  <2>1. CASE i = leaf
    BY <2>1, <1>4, <1>5
  <2>2. CASE i # leaf
    BY <2>2, <1>5
  <2> QED BY <2>1, <2>2
<1>7. Backed(new, pool, leaf)
  BY <1>1, <1>5, <1>6 DEF Backed
<1> QED BY <1>5, <1>7 DEF new

LEMMA FinishExpansionIs ==
  ASSUME NEW pool, Shape(pool), NEW leaf \in 1 .. Len(pool), NEW b \in Seq(Cells),
         LegalMoves(b) # {}, pool[leaf].first = 0
  PROVE  LET new == FinishExpansion(pool, leaf, b)
         IN  /\ Backed(new, pool, leaf) /\ Len(new) = Len(pool) + Len(PickTopK(b)) /\ Len(new) > Len(pool)
             /\ \A i \in Len(pool) + 1 .. Len(new) :
                  new[i] = Node(leaf, PickTopK(b)[i - Len(pool)], IF pool[leaf].mr = 1 THEN 2 ELSE 1)
<1> DEFINE N == Len(pool)
           cells == PickTopK(b)
           c == Len(cells)
           mr == IF pool[leaf].mr = 1 THEN 2 ELSE 1
           old == Backup(pool, leaf, Net(Position(b)))
           node == [old[leaf] EXCEPT !.first = N + 1, !.count = c]
           head == [old EXCEPT ![leaf] = node]
           tail == [j \in 1 .. c |-> Node(leaf, cells[j], mr)]
           new == FinishExpansion(pool, leaf, b)
<1>1. Backed(old, pool, leaf) /\ Len(old) = N /\ old \in Seq(Nodes) /\ N \in Nat
  <2>1. Net(Position(b)) \in Int
    BY PositionType, ValuesAssumption
  <2> QED BY <2>1, BackupIs, ShapeFacts DEF Backed
<1>2. DOMAIN old = 1 .. N /\ \A i \in 1 .. N : old[i] \in Nodes
  BY <1>1, LenProperties, ElementOfSeq
<1>3. /\ c \in Nat /\ c >= 1 /\ c <= MaxChildren
      /\ \A j \in 1 .. c : cells[j] \in Cells
  <2>1. cells \in Seq(LegalMoves(b)) /\ c \in Nat /\ c >= 1 /\ c <= MaxChildren
    BY PickTopKIs
  <2>2. \A j \in 1 .. c : cells[j] \in LegalMoves(b)
    BY <2>1, ElementOfSeq
  <2> QED BY <2>1, <2>2 DEF LegalMoves
<1>m. mr \in {1, 2}
  OBVIOUS
<1>4. new = head \o tail
  <2>1. old[leaf] \in Nodes
    BY <1>2
  <2>2. [old EXCEPT ![leaf].first = N + 1, ![leaf].count = c] = head
    <3> HIDE DEF old, c
    <3> QED BY <1>2, <2>1 DEF Nodes
  <2>3. new = [old EXCEPT ![leaf].first = N + 1, ![leaf].count = c] \o tail
    BY DEF FinishExpansion
  <2> HIDE DEF old, head, tail, new
  <2> QED BY <2>2, <2>3
<1> HIDE DEF old, cells, c, mr
<1>5. /\ node \in Nodes
      /\ node.parent = old[leaf].parent /\ node.cell = old[leaf].cell /\ node.mr = old[leaf].mr
      /\ node.first = N + 1 /\ node.count = c
      /\ node.n = old[leaf].n /\ node.vl = old[leaf].vl
  <2>1. old[leaf] \in Nodes
    BY <1>2
  <2>2. N + 1 \in Nat /\ c \in Nat
    BY <1>1, <1>3
  <2> HIDE DEF N
  <2> QED BY ONLY <2>1, <2>2 DEF Nodes, node
<1> HIDE DEF node
<1>6. head \in Seq(Nodes) /\ Len(head) = N /\ head[leaf] = node
      /\ \A i \in 1 .. N : i # leaf => head[i] = old[i]
  BY <1>1, <1>2, <1>5, ExceptSeq
<1>7. \A j \in 1 .. c :
        LET x == Node(leaf, cells[j], mr)
        IN  x \in Nodes /\ x.parent = leaf /\ x.first = 0 /\ x.count = 0 /\ x.n = 0 /\ x.vl = 0
  <2> TAKE j \in 1 .. c
  <2>1. leaf \in Nat /\ cells[j] \in Cells
    BY <1>1, <1>3
  <2> QED BY <2>1, <1>m DEF Node, Nodes
<1>8. tail \in Seq(Nodes) /\ Len(tail) = c /\ \A j \in 1 .. c : tail[j] = Node(leaf, cells[j], mr)
  <2>1. \A j \in 1 .. c : tail[j] = Node(leaf, cells[j], mr)
    OBVIOUS
  <2>2. DOMAIN tail = 1 .. c /\ tail = [j \in 1 .. c |-> tail[j]]
    BY Zenon
  <2> HIDE DEF tail
  <2> QED BY <1>3, <1>7, <2>1, <2>2, FunctionSeq
<1> HIDE DEF head, tail, new
<1>9. /\ new \in Seq(Nodes) /\ Len(new) = N + c
      /\ \A i \in 1 .. N : new[i] = head[i]
      /\ \A i \in N + 1 .. N + c : new[i] = Node(leaf, cells[i - N], mr)
  <2>1. /\ new \in Seq(Nodes) /\ Len(new) = N + c
        /\ \A i \in 1 .. N + c : new[i] = IF i <= N THEN head[i] ELSE tail[i - N]
    <3>1. /\ head \o tail \in Seq(Nodes) /\ Len(head \o tail) = Len(head) + Len(tail)
          /\ \A i \in 1 .. Len(head) + Len(tail) :
               (head \o tail)[i] = IF i <= Len(head) THEN head[i] ELSE tail[i - Len(head)]
      <4>1. head \in Seq(Nodes) /\ tail \in Seq(Nodes)
        BY <1>6, <1>8
      <4> QED BY ONLY <4>1, ConcatProperties
    <3>2. Len(head) = N /\ Len(tail) = c
      BY <1>6, <1>8
    <3> HIDE DEF N
    <3> QED BY ONLY <3>1, <3>2, <1>4
  <2>2. \A i \in 1 .. N : new[i] = head[i]
    BY <2>1, <1>1, <1>3
  <2>3. ASSUME NEW i \in N + 1 .. N + c PROVE new[i] = Node(leaf, cells[i - N], mr)
    <3>1. i \in 1 .. N + c /\ ~(i <= N) /\ i - N \in 1 .. c
      BY <1>1, <1>3
    <3> QED BY <3>1, <2>1, <1>8
  <2> QED BY <2>1, <2>2, <2>3
<1>10. \A i \in N + 1 .. N + c :
        new[i].parent = leaf /\ new[i].first = 0 /\ new[i].count = 0 /\ new[i].n = 0 /\ new[i].vl = 0
  <2> TAKE i \in N + 1 .. N + c
  <2>1. i - N \in 1 .. c
    BY <1>1, <1>3
  <2> QED BY <2>1, <1>7, <1>9
<1>11. \A i \in 1 .. N :
        /\ new[i].parent = old[i].parent /\ new[i].cell = old[i].cell /\ new[i].mr = old[i].mr
        /\ new[i].n = old[i].n /\ new[i].vl = old[i].vl
        /\ i # leaf => new[i].first = old[i].first /\ new[i].count = old[i].count
        /\ i = leaf => new[i].first = N + 1 /\ new[i].count = c
  <2> TAKE i \in 1 .. N
  <2>1. CASE i = leaf
    BY <2>1, <1>5, <1>6, <1>9
  <2>2. CASE i # leaf
    BY <2>2, <1>6, <1>9
  <2> QED BY <2>1, <2>2
<1>12. Len(new) > N /\ Len(new) - N = c /\ Len(new) # N
  BY <1>1, <1>3, <1>9
<1>13. Backed(new, pool, leaf)
  BY <1>1, <1>3, <1>9, <1>10, <1>11, <1>12 DEF Backed
<1> QED BY <1>9, <1>12, <1>13 DEF new, N, c, cells, mr

LEMMA BackedShape ==
  ASSUME NEW pool, Shape(pool), NEW leaf \in 1 .. Len(pool), NEW new, Backed(new, pool, leaf)
  PROVE  /\ Shape(new) /\ Len(new) \in Nat
         /\ \A i \in 0 .. Len(pool) : Path(new, i) = Path(pool, i)
<1> DEFINE N == Len(pool)
           M == Len(new)
<1>1. /\ N \in Nat /\ M \in Nat /\ M >= N /\ new \in Seq(Nodes) /\ N >= 1
      /\ \A i \in 1 .. N : pool[i] \in Nodes
      /\ \A i \in 1 .. M : new[i] \in Nodes
  <2>1. new \in Seq(Nodes) /\ M >= N
    BY DEF Backed
  <2>2. M \in Nat /\ \A i \in 1 .. M : new[i] \in Nodes
    BY <2>1, LenProperties, ElementOfSeq
  <2> QED BY <2>1, <2>2, ShapeFacts DEF Shape
<1>2. \A i \in 1 .. N : new[i].parent = pool[i].parent
  BY DEF Backed
<1>3. \A i \in 1 .. N : i # leaf \/ M = N =>
        new[i].first = pool[i].first /\ new[i].count = pool[i].count
  BY DEF Backed
<1>4. M # N =>
        /\ pool[leaf].first = 0 /\ new[leaf].first = N + 1 /\ new[leaf].count = M - N
        /\ new[leaf].count <= MaxChildren
        /\ \A i \in N + 1 .. M : new[i].parent = leaf /\ new[i].first = 0 /\ new[i].count = 0
  BY DEF Backed
<1>5. \A i \in 1 .. N : LET node == pool[i]
        IN  /\ node.parent \in 0 .. i - 1 /\ (node.parent = 0 <=> i = 1)
            /\ node.count <= MaxChildren /\ node.first \in Nat /\ node.count \in Nat
            /\ node.first = 0 => node.count = 0
            /\ node.first # 0 =>
                /\ node.first > i /\ node.count >= 1 /\ node.first + node.count - 1 <= N
            /\ \A c \in node.first .. node.first + node.count - 1 : pool[c].parent = i
            /\ i # 1 =>
                pool[node.parent].first <= i
                    /\ i < pool[node.parent].first + pool[node.parent].count
  BY <1>1 DEF Shape, Nodes
<1> HIDE DEF N, M
<1>6. leaf \in 1 .. N /\ leaf \in Nat
  BY <1>1 DEF N
<1>7. ASSUME NEW i \in 1 .. N
      PROVE  /\ new[i].parent \in 0 .. i - 1 /\ (new[i].parent = 0 <=> i = 1)
             /\ new[i].count <= MaxChildren
             /\ new[i].first = 0 => new[i].count = 0
             /\ new[i].first # 0 =>
                  /\ new[i].first > i /\ new[i].count >= 1 /\ new[i].first + new[i].count - 1 <= M
             /\ \A c \in new[i].first .. new[i].first + new[i].count - 1 : new[c].parent = i
             /\ i # 1 =>
                  /\ new[new[i].parent].first <= i
                  /\ i < new[new[i].parent].first + new[new[i].parent].count
  <2>1. new[i].parent \in 0 .. i - 1 /\ (new[i].parent = 0 <=> i = 1)
    BY <1>2, <1>5
  <2>2. CASE i # leaf \/ M = N
    <3>1. new[i].first = pool[i].first /\ new[i].count = pool[i].count
      BY <2>2, <1>3
    <3>2. \A c \in pool[i].first .. pool[i].first + pool[i].count - 1 : c \in 1 .. N /\ pool[c].parent = i
      <4> TAKE c \in pool[i].first .. pool[i].first + pool[i].count - 1
      <4>1. pool[i].first \in Nat /\ pool[i].count \in Nat /\ pool[i].count # 0
        BY <1>5
      <4>2. pool[i].first > i /\ pool[i].first + pool[i].count - 1 <= N
        BY <4>1, <1>5
      <4> QED BY <4>1, <4>2, <1>1, <1>5, SMTT(30)
    <3>3. \A c \in new[i].first .. new[i].first + new[i].count - 1 : new[c].parent = i
      BY <3>1, <3>2, <1>2
    <3>4. pool[i].first # 0 => pool[i].first + pool[i].count - 1 <= M
      BY <1>1, <1>5, SMTT(30)
    <3>5. i # 1 =>
            /\ new[new[i].parent].first <= i
            /\ i < new[new[i].parent].first + new[new[i].parent].count
      <4> SUFFICES ASSUME i # 1
                   PROVE  /\ new[new[i].parent].first <= i
                          /\ i < new[new[i].parent].first + new[new[i].parent].count
        OBVIOUS
      <4> DEFINE p == pool[i].parent
      <4>1. p \in 1 .. N /\ new[i].parent = p
        BY <1>1, <1>2, <1>5
      <4>2. pool[p].first <= i /\ i < pool[p].first + pool[p].count
        BY <1>5
      <4>3. pool[p].first # 0
        <5>1. pool[p].first = 0 => pool[p].count = 0
          BY <4>1, <1>5
        <5> HIDE DEF p
        <5> QED BY <4>2, <5>1
      <4>4. p # leaf \/ M = N
        BY <4>3, <1>4
      <4>5. new[p].first = pool[p].first /\ new[p].count = pool[p].count
        BY <4>1, <4>4, <1>3
      <4> QED BY <4>1, <4>2, <4>5
    <3> QED BY <2>1, <3>1, <3>3, <3>4, <3>5, <1>5
  <2>3. CASE ~(i # leaf \/ M = N)
    <3>1. i = leaf /\ M # N /\ new[i].first = N + 1 /\ new[i].count = M - N /\ new[i].count <= MaxChildren
      BY <2>3, <1>4
    <3>2. new[i].first > i /\ new[i].first # 0 /\ new[i].count >= 1 /\ new[i].first + new[i].count - 1 <= M
      BY <3>1, <1>1
    <3>3. \A c \in new[i].first .. new[i].first + new[i].count - 1 : new[c].parent = i
      <4>1. new[i].first + new[i].count - 1 = M
        BY <3>1, <1>1
      <4> QED BY <4>1, <3>1, <1>4
    <3>4. i # 1 =>
            /\ new[new[i].parent].first <= i
            /\ i < new[new[i].parent].first + new[new[i].parent].count
      <4> SUFFICES ASSUME i # 1
                   PROVE  /\ new[new[i].parent].first <= i
                          /\ i < new[new[i].parent].first + new[new[i].parent].count
        OBVIOUS
      <4> DEFINE p == pool[i].parent
      <4>1. p \in 1 .. N /\ new[i].parent = p /\ p # leaf
        BY <3>1, <1>1, <1>2, <1>5
      <4>2. pool[p].first <= i /\ i < pool[p].first + pool[p].count
        BY <1>5
      <4>3. new[p].first = pool[p].first /\ new[p].count = pool[p].count
        BY <4>1, <1>3
      <4> QED BY <4>1, <4>2, <4>3
    <3> QED BY <2>1, <3>1, <3>2, <3>3, <3>4
  <2> QED BY <2>2, <2>3
<1>8. ASSUME NEW i \in N + 1 .. M
      PROVE  /\ new[i].parent \in 0 .. i - 1 /\ (new[i].parent = 0 <=> i = 1)
             /\ new[i].count <= MaxChildren
             /\ new[i].first = 0 => new[i].count = 0
             /\ new[i].first # 0 =>
                  /\ new[i].first > i /\ new[i].count >= 1 /\ new[i].first + new[i].count - 1 <= M
             /\ \A c \in new[i].first .. new[i].first + new[i].count - 1 : new[c].parent = i
             /\ i # 1 =>
                  /\ new[new[i].parent].first <= i
                  /\ i < new[new[i].parent].first + new[new[i].parent].count
  <2>1. M # N /\ i \in Nat /\ i # 1
    BY <1>1
  <2>2. new[i].parent = leaf /\ new[i].first = 0 /\ new[i].count = 0
    BY <2>1, <1>4
  <2>3. new[leaf].first = N + 1 /\ new[leaf].count = M - N
    BY <2>1, <1>4
  <2>4. leaf \in 0 .. i - 1 /\ leaf # 0 /\ 0 <= MaxChildren
    BY <1>1, <1>6, ChildrenAssumption
  <2>5. new[leaf].first <= i /\ i < new[leaf].first + new[leaf].count
    BY <2>3, <1>1
  <2>6. \A c \in 0 .. 0 + 0 - 1 : FALSE
    OBVIOUS
  <2> QED BY <2>1, <2>2, <2>4, <2>5, <2>6
<1>9. \A i \in 1 .. M : i \in 1 .. N \/ i \in N + 1 .. M
  BY <1>1
<1>10. Shape(new)
  <2>1. new \in Seq(Nodes) /\ Len(new) >= 1
    BY <1>1 DEF M
  <2> QED BY <2>1, <1>7, <1>8, <1>9 DEF Shape, M
<1>11. \A i \in 0 .. N : Path(new, i) = Path(pool, i)
  <2>1. /\ DOMAIN new = 1 .. M /\ Len(new) = M /\ Downward(new)
        /\ DOMAIN pool = 1 .. N /\ Len(pool) = N /\ Downward(pool)
        /\ N <= N /\ N <= M /\ \A i \in 1 .. N : new[i].parent = pool[i].parent
    BY <1>1, <1>2, <1>10, ShapeFacts DEF N, M
  <2>2. N \in Nat /\ M \in Nat
    BY <1>1
  <2>3. N <= N /\ N <= M /\ \A i \in 1 .. N : new[i].parent = pool[i].parent
    BY <2>1
  <2>4. DOMAIN new = 1 .. M /\ Len(new) = M /\ Downward(new)
    BY <2>1
  <2>5. DOMAIN pool = 1 .. N /\ Len(pool) = N /\ Downward(pool)
    BY <2>1
  <2> QED BY ONLY <2>2, <2>3, <2>4, <2>5, PathSame
<1> QED BY <1>1, <1>10, <1>11 DEF N, M

LEMMA ExpandLeafIs ==
  ASSUME NEW pool, Shape(pool), NEW leaf \in 1 .. Len(pool), NEW b \in Seq(Cells)
  PROVE  Backed(ExpandLeaf(pool, leaf, b), pool, leaf)
<1> DEFINE node == pool[leaf]
<1>1. node \in Nodes
  BY ShapeFacts
<1>2. node.terminal \in BOOLEAN /\ node.tv \in Int
  BY <1>1 DEF Nodes
<1>3. Net(Position(b)) \in Int /\ TerminalValueToMove(b) \in Int
  BY PositionType, ValuesAssumption
<1> HIDE DEF node
<1>4. CASE node.terminal
  <2>1. ExpandLeaf(pool, leaf, b) = Backup(pool, leaf, node.tv)
    BY <1>4 DEF ExpandLeaf, node
  <2> QED BY <2>1, <1>2, BackupIs
<1>5. CASE ~node.terminal /\ IsExpanded(node)
  <2>1. ExpandLeaf(pool, leaf, b) = Backup(pool, leaf, Net(Position(b)))
    BY <1>5 DEF ExpandLeaf, node
  <2> QED BY <2>1, <1>3, BackupIs
<1>6. CASE ~node.terminal /\ ~IsExpanded(node) /\ CheckWin(b)
  <2>1. ExpandLeaf(pool, leaf, b) = MarkTerminal(pool, leaf, TerminalValueToMove(b))
    BY <1>6 DEF ExpandLeaf, node
  <2> QED BY <2>1, <1>3, MarkTerminalIs
<1>7. CASE ~node.terminal /\ ~IsExpanded(node) /\ ~CheckWin(b) /\ LegalMoves(b) = {}
  <2>1. ExpandLeaf(pool, leaf, b) = MarkTerminal(pool, leaf, 0)
    BY <1>7 DEF ExpandLeaf, node
  <2> QED BY <2>1, MarkTerminalIs
<1>8. CASE ~node.terminal /\ ~IsExpanded(node) /\ ~CheckWin(b) /\ LegalMoves(b) # {}
  <2>1. ExpandLeaf(pool, leaf, b) = FinishExpansion(pool, leaf, b)
    BY <1>8 DEF ExpandLeaf, node
  <2>2. pool[leaf].first = 0
    BY <1>8 DEF IsExpanded, node
  <2> QED BY <2>1, <2>2, <1>8, FinishExpansionIs
<1> QED BY <1>4, <1>5, <1>6, <1>7, <1>8

LEMMA DecidedLeafIs ==
  ASSUME NEW pool, Shape(pool), NEW leaf \in 1 .. Len(pool), NEW b \in Seq(Cells)
  PROVE  Backed(DecidedLeaf(pool, leaf, b), pool, leaf) /\ Len(DecidedLeaf(pool, leaf, b)) = Len(pool)
<1>1. pool[leaf].tv \in Int
  BY ShapeFacts DEF Nodes
<1>2. (IF CheckWin(b) THEN TerminalValueToMove(b) ELSE Verdict(Position(b))) \in Int
  BY PositionType, ValuesAssumption
<1>3. CASE pool[leaf].terminal
  <2>1. DecidedLeaf(pool, leaf, b) = Backup(pool, leaf, pool[leaf].tv)
    BY <1>3 DEF DecidedLeaf
  <2> QED BY <2>1, <1>1, BackupIs
<1>4. CASE ~pool[leaf].terminal
  <2>1. DecidedLeaf(pool, leaf, b) =
          MarkTerminal(pool, leaf, IF CheckWin(b) THEN TerminalValueToMove(b) ELSE Verdict(Position(b)))
    BY <1>4 DEF DecidedLeaf
  <2> QED BY <2>1, <1>2, MarkTerminalIs
<1> QED BY <1>3, <1>4

-----------------------------------------------------------------------------
(* The losses of the pending leaves *)

\* The places in the batch whose leaf is at or below i.
Waiting(pool, pending, i) == {k \in DOMAIN pending : i \in Above(pool, pending[k])}

Penalty(pool, pending) ==
    \A i \in 1 .. Len(pool) : pool[i].vl = Cardinality(Waiting(pool, pending, i))

LEMMA WaitingFinite ==
  ASSUME NEW S, NEW pending \in Seq(S), NEW pool, NEW i
  PROVE  IsFiniteSet(Waiting(pool, pending, i)) /\ Cardinality(Waiting(pool, pending, i)) \in Nat
<1>1. DOMAIN pending = 1 .. Len(pending) /\ Len(pending) \in Nat
  BY LenProperties
<1>2. IsFiniteSet(1 .. Len(pending))
  BY <1>1, FS_Interval
<1>3. Waiting(pool, pending, i) \subseteq 1 .. Len(pending)
  BY <1>1 DEF Waiting
<1> QED BY <1>2, <1>3, FS_Subset, FS_CardinalityType

LEMMA WaitingAppend ==
  ASSUME NEW pool, NEW S, NEW pending \in Seq(S), NEW leaf \in S, NEW i
  PROVE  Cardinality(Waiting(pool, Append(pending, leaf), i)) =
            Cardinality(Waiting(pool, pending, i)) + IF i \in Above(pool, leaf) THEN 1 ELSE 0
<1> DEFINE L == Len(pending)
           after == Append(pending, leaf)
           was == Waiting(pool, pending, i)
<1>1. /\ L \in Nat /\ DOMAIN pending = 1 .. L /\ DOMAIN after = 1 .. L + 1
      /\ \A k \in 1 .. L : after[k] = pending[k]
      /\ after[L + 1] = leaf
  BY LenProperties, AppendProperties
<1>2. IsFiniteSet(was) /\ Cardinality(was) \in Nat
  BY WaitingFinite
<1> HIDE DEF L, after
<1>3. L + 1 \notin was
  BY <1>1 DEF Waiting
<1>4. CASE i \in Above(pool, leaf)
  <2>1. Waiting(pool, after, i) = was \cup {L + 1}
    BY <1>1, <1>4 DEF Waiting
  <2> HIDE DEF was
  <2>2. Cardinality(was \cup {L + 1}) = Cardinality(was) + 1
    BY <1>2, <1>3, FS_AddElement
  <2> QED BY <1>4, <2>1, <2>2 DEF after, was
<1>5. CASE i \notin Above(pool, leaf)
  <2>1. Waiting(pool, after, i) = was
    BY <1>1, <1>5 DEF Waiting
  <2> QED BY <1>2, <1>5, <2>1 DEF after
<1> QED BY <1>4, <1>5

LEMMA WaitingTail ==
  ASSUME NEW pool, NEW S, NEW pending \in Seq(S), pending # <<>>, NEW i
  PROVE  Cardinality(Waiting(pool, Tail(pending), i)) =
            Cardinality(Waiting(pool, pending, i)) - IF i \in Above(pool, Head(pending)) THEN 1 ELSE 0
<1> DEFINE L == Len(pending)
           after == Tail(pending)
           was == Waiting(pool, pending, i)
           now == Waiting(pool, after, i)
           f == [k \in now |-> k + 1]
<1>1. /\ L \in Nat /\ L >= 1 /\ DOMAIN pending = 1 .. L /\ DOMAIN after = 1 .. L - 1
      /\ \A k \in 1 .. L - 1 : after[k] = pending[k + 1]
      /\ Head(pending) = pending[1]
  BY LenProperties
<1>2. IsFiniteSet(was) /\ Cardinality(was) \in Nat
  BY WaitingFinite
<1> HIDE DEF L, after
<1>3. now \subseteq 1 .. L - 1 /\ was \subseteq 1 .. L
  BY <1>1 DEF Waiting
<1>4. \A k \in 1 .. L - 1 : k \in now <=> k + 1 \in was
  <2> TAKE k \in 1 .. L - 1
  <2>1. k + 1 \in 1 .. L
    BY <1>1
  <2> QED BY <2>1, <1>1 DEF Waiting
<1>5. f \in Bijection(now, was \ {1})
  <2> HIDE DEF was, now
  <2>1. \A k \in now : k + 1 \in was \ {1}
    BY <1>1, <1>3, <1>4
  <2>2. \A k \in was \ {1} : k - 1 \in now /\ k - 1 + 1 = k
    <3> TAKE k \in was \ {1}
    <3>1. k - 1 \in 1 .. L - 1 /\ k - 1 + 1 = k
      BY <1>1, <1>3
    <3> QED BY <3>1, <1>4
  <2>3. f \in [now -> was \ {1}]
    BY <2>1
  <2>4. \A a, c \in now : f[a] = f[c] => a = c
    BY <1>1, <1>3
  <2>5. \A k \in was \ {1} : \E a \in now : f[a] = k
    BY <2>2
  <2> QED BY <2>3, <2>4, <2>5 DEF Bijection, Injection, Surjection, IsInjective
<1>6. Cardinality(now) = Cardinality(was \ {1})
  <2> HIDE DEF was, now, f
  <2>1. IsFiniteSet(now)
    <3>1. L - 1 \in Int
      BY <1>1
    <3>2. IsFiniteSet(1 .. L - 1)
      BY <3>1, FS_Interval
    <3> QED BY <3>2, <1>3, FS_Subset
  <2>2. ExistsBijection(now, was \ {1})
    BY <1>5 DEF ExistsBijection
  <2> QED BY <2>1, <2>2, FS_Bijection
<1>7. 1 \in was <=> i \in Above(pool, Head(pending))
  <2>1. 1 \in 1 .. L
    BY <1>1
  <2> QED BY <2>1, <1>1 DEF Waiting
<1>8. Cardinality(was \ {1}) = IF 1 \in was THEN Cardinality(was) - 1 ELSE Cardinality(was)
  <2> HIDE DEF was
  <2> QED BY <1>2, FS_RemoveElement
<1> HIDE DEF was, now
<1>9. Cardinality(now) = Cardinality(was) - IF i \in Above(pool, Head(pending)) THEN 1 ELSE 0
  BY <1>2, <1>6, <1>7, <1>8
<1> QED BY <1>9 DEF was, now, after

LEMMA WaitingSame ==
  ASSUME NEW pool, NEW new, NEW N, NEW pending \in Seq(1 .. N), NEW i,
         \A k \in 1 .. N : Above(new, k) = Above(pool, k)
  PROVE  Waiting(new, pending, i) = Waiting(pool, pending, i)
<1>1. \A k \in DOMAIN pending : pending[k] \in 1 .. N
  BY LenProperties, ElementOfSeq
<1> QED BY <1>1 DEF Waiting

LEMMA PenaltySelect ==
  ASSUME NEW pool, Shape(pool), NEW pending \in Seq(1 .. Len(pool)), Penalty(pool, pending),
         NEW leaf \in 1 .. Len(pool)
  PROVE  Penalty(ApplyVirtualLoss(pool, leaf), Append(pending, leaf))
<1> DEFINE new == ApplyVirtualLoss(pool, leaf)
           after == Append(pending, leaf)
<1>1. /\ SameLinks(new, pool) /\ Len(new) = Len(pool)
      /\ \A i \in 1 .. Len(pool) : new[i].vl = pool[i].vl + IF i \in Above(pool, leaf) THEN 1 ELSE 0
  BY ApplyIs DEF SameLinks
<1>2. after \in Seq(1 .. Len(pool))
  BY AppendProperties
<1> HIDE DEF new
<1>3. ASSUME NEW i \in 1 .. Len(pool) PROVE new[i].vl = Cardinality(Waiting(new, after, i))
  <2>1. Waiting(new, after, i) = Waiting(pool, after, i)
    <3>1. \A k \in 1 .. Len(pool) : Above(new, k) = Above(pool, k)
      BY <1>1, SameAbove
    <3> HIDE DEF after
    <3> QED BY ONLY <3>1, <1>2, WaitingSame
  <2>2. Cardinality(Waiting(pool, after, i)) =
          Cardinality(Waiting(pool, pending, i)) + IF i \in Above(pool, leaf) THEN 1 ELSE 0
    BY WaitingAppend
  <2>3. pool[i].vl = Cardinality(Waiting(pool, pending, i))
    BY DEF Penalty
  <2> QED BY <1>1, <2>1, <2>2, <2>3
<1> QED BY <1>1, <1>3 DEF Penalty, new

\* A slot made by this very evaluation has nothing pending below it.
LEMMA WaitingNone ==
  ASSUME NEW pool, Shape(pool), NEW pending \in Seq(1 .. Len(pool)), NEW i \in Nat, i > Len(pool)
  PROVE  Cardinality(Waiting(pool, pending, i)) = 0
<1>1. \A k \in 1 .. Len(pool) : Above(pool, k) \subseteq 1 .. k /\ k \in Nat /\ Len(pool) \in Nat /\ k <= Len(pool)
  BY ShapeFacts, AboveUnfolds
<1>2. \A k \in DOMAIN pending : pending[k] \in 1 .. Len(pool)
  BY LenProperties, ElementOfSeq
<1>3. \A k \in 1 .. Len(pool) : i \notin Above(pool, k)
  <2> TAKE k \in 1 .. Len(pool)
  <2>1. i \notin 1 .. k
    BY <1>1
  <2> QED BY <2>1, <1>1
<1>4. Waiting(pool, pending, i) = {}
  BY <1>2, <1>3 DEF Waiting
<1> QED BY <1>4, FS_EmptySet

LEMMA BackedAbove ==
  ASSUME NEW pool, Shape(pool), NEW leaf \in 1 .. Len(pool), NEW new, Backed(new, pool, leaf)
  PROVE  \A k \in 1 .. Len(pool) : Above(new, k) = Above(pool, k)
<1>1. \A k \in 0 .. Len(pool) : Path(new, k) = Path(pool, k)
  BY BackedShape
<1>2. Len(pool) \in Nat
  BY ShapeFacts
<1> QED BY <1>1, <1>2 DEF Above

\* A backed-up leaf takes back one loss on each slot of its path.
LEMMA PenaltyExpand ==
  ASSUME NEW pool, Shape(pool), NEW pending \in Seq(1 .. Len(pool)), Penalty(pool, pending),
         pending # <<>>, NEW new, Backed(new, pool, Head(pending))
  PROVE  Penalty(new, Tail(pending))
<1> DEFINE leaf == Head(pending)
           N == Len(pool)
<1>1. leaf \in 1 .. N /\ Tail(pending) \in Seq(1 .. N) /\ N \in Nat
  BY ShapeFacts
<1>2. Backed(new, pool, leaf) /\ Len(new) \in Nat /\ Len(new) >= N
  BY <1>1, BackedShape DEF Backed
<1>3. \A k \in 1 .. N : Above(new, k) = Above(pool, k)
  BY <1>1, <1>2, BackedAbove
<1> HIDE DEF leaf
<1>4. ASSUME NEW i \in 1 .. N PROVE new[i].vl = Cardinality(Waiting(new, Tail(pending), i))
  <2>1. Waiting(new, Tail(pending), i) = Waiting(pool, Tail(pending), i)
    <3> DEFINE after == Tail(pending)
    <3>1. after \in Seq(1 .. N)
      BY <1>1
    <3> HIDE DEF N, after
    <3>2. Waiting(new, after, i) = Waiting(pool, after, i)
      BY ONLY <3>1, <1>3, WaitingSame
    <3> QED BY <3>2 DEF after
  <2>2. Cardinality(Waiting(pool, Tail(pending), i)) =
          Cardinality(Waiting(pool, pending, i)) - IF i \in Above(pool, leaf) THEN 1 ELSE 0
    BY WaitingTail DEF leaf
  <2>3. pool[i].vl = Cardinality(Waiting(pool, pending, i)) /\ pool[i].vl \in Nat
    BY ShapeFacts DEF Penalty, Nodes
  <2>4. i \in Above(pool, leaf) => pool[i].vl # 0
    <3> SUFFICES ASSUME i \in Above(pool, leaf) PROVE Waiting(pool, pending, i) # {}
      BY <2>3, WaitingFinite, FS_EmptySet
    <3>1. 1 \in DOMAIN pending /\ pending[1] = leaf
      BY LenProperties DEF leaf
    <3> QED BY <3>1 DEF Waiting
  <2>5. new[i].vl = IF i \in Above(pool, leaf) /\ pool[i].vl > 0 THEN pool[i].vl - 1 ELSE pool[i].vl
    BY <1>2 DEF Backed
  <2> QED BY <2>1, <2>2, <2>3, <2>4, <2>5
<1>5. ASSUME NEW i \in N + 1 .. Len(new) PROVE new[i].vl = Cardinality(Waiting(new, Tail(pending), i))
  <2>1. Len(new) # N /\ i \in Nat /\ i > N
    BY <1>1, <1>2
  <2>2. new[i].vl = 0
    BY <1>2, <2>1 DEF Backed
  <2>3. Waiting(new, Tail(pending), i) = Waiting(pool, Tail(pending), i)
    <3> DEFINE after == Tail(pending)
    <3>1. after \in Seq(1 .. N)
      BY <1>1
    <3> HIDE DEF N, after
    <3>2. Waiting(new, after, i) = Waiting(pool, after, i)
      BY ONLY <3>1, <1>3, WaitingSame
    <3> QED BY <3>2 DEF after
  <2>4. Cardinality(Waiting(pool, Tail(pending), i)) = 0
    BY <1>1, <2>1, WaitingNone
  <2> QED BY <2>2, <2>3, <2>4
<1>6. \A i \in 1 .. Len(new) : i \in 1 .. N \/ i \in N + 1 .. Len(new)
  BY <1>1, <1>2
<1> QED BY <1>4, <1>5, <1>6 DEF Penalty

\* A descent backed up at once leaves every loss as it was.
LEMMA PenaltyInline ==
  ASSUME NEW pool, Shape(pool), NEW pending \in Seq(1 .. Len(pool)), Penalty(pool, pending),
         NEW leaf \in 1 .. Len(pool),
         NEW new, Backed(new, ApplyVirtualLoss(pool, leaf), leaf)
  PROVE  Penalty(new, pending)
<1> DEFINE N == Len(pool)
           mid == ApplyVirtualLoss(pool, leaf)
<1>1. /\ SameLinks(mid, pool) /\ Len(mid) = N /\ N \in Nat
      /\ \A i \in 1 .. N : mid[i].vl = pool[i].vl + IF i \in Above(pool, leaf) THEN 1 ELSE 0
  BY ApplyIs, ShapeFacts DEF SameLinks
<1> HIDE DEF mid
<1>2. Shape(mid) /\ \A k \in 1 .. N : Above(mid, k) = Above(pool, k)
  BY <1>1, SameLinksShape, SameAbove
<1>3. Backed(new, mid, leaf) /\ leaf \in 1 .. Len(mid)
  BY <1>1 DEF mid
<1>4. Len(new) \in Nat /\ Len(new) >= N
  BY <1>1, <1>2, <1>3, BackedShape DEF Backed
<1>5. \A k \in 1 .. N : Above(new, k) = Above(pool, k)
  BY <1>1, <1>2, <1>3, BackedAbove
<1>6. \A i : Waiting(new, pending, i) = Waiting(pool, pending, i)
  BY <1>5, WaitingSame
<1>7. ASSUME NEW i \in 1 .. N PROVE new[i].vl = Cardinality(Waiting(new, pending, i))
  <2>1. pool[i].vl = Cardinality(Waiting(pool, pending, i)) /\ pool[i].vl \in Nat
    BY ShapeFacts DEF Penalty, Nodes
  <2>2. new[i].vl = IF i \in Above(mid, leaf) /\ mid[i].vl > 0 THEN mid[i].vl - 1 ELSE mid[i].vl
    BY <1>1, <1>3 DEF Backed
  <2>3. new[i].vl = pool[i].vl
    BY <2>1, <2>2, <1>1, <1>2, SMTT(30)
  <2> QED BY <2>1, <2>3, <1>6
<1>8. ASSUME NEW i \in N + 1 .. Len(new) PROVE new[i].vl = Cardinality(Waiting(new, pending, i))
  <2>1. Len(new) # Len(mid) /\ i \in Nat /\ i > N /\ i \in Len(mid) + 1 .. Len(new)
    BY <1>1, <1>4
  <2>2. new[i].vl = 0
    BY <1>3, <2>1 DEF Backed
  <2>3. Cardinality(Waiting(pool, pending, i)) = 0
    BY <2>1, WaitingNone
  <2> QED BY <2>2, <2>3, <1>6
<1>9. \A i \in 1 .. Len(new) : i \in 1 .. N \/ i \in N + 1 .. Len(new)
  BY <1>1, <1>4
<1> QED BY <1>7, <1>8, <1>9 DEF Penalty

LEMMA PenaltyOverlap ==
  ASSUME NEW pool, Shape(pool), NEW pending \in Seq(1 .. Len(pool)), Penalty(pool, pending),
         NEW leaf \in 1 .. Len(pool)
  PROVE  LET new == UndoVirtualLoss(ApplyVirtualLoss(pool, leaf), leaf)
         IN  /\ Penalty(new, pending) /\ SameLinks(new, pool)
             /\ \A i \in 1 .. Len(pool) : new[i].n = pool[i].n
<1> DEFINE N == Len(pool)
           mid == ApplyVirtualLoss(pool, leaf)
           new == UndoVirtualLoss(mid, leaf)
<1>1. /\ SameLinks(mid, pool) /\ Len(mid) = N /\ N \in Nat
      /\ \A i \in 1 .. N :
           /\ mid[i].vl = pool[i].vl + IF i \in Above(pool, leaf) THEN 1 ELSE 0
           /\ mid[i].n = pool[i].n
  BY ApplyIs, ShapeFacts DEF SameLinks
<1> HIDE DEF mid
<1>2. Shape(mid) /\ \A k \in 1 .. N : Above(mid, k) = Above(pool, k)
  BY <1>1, SameLinksShape, SameAbove
<1>3. /\ SameLinks(new, mid)
      /\ \A i \in 1 .. N :
           /\ new[i].n = mid[i].n
           /\ new[i].vl = IF i \in Above(mid, leaf) /\ mid[i].vl > 0 THEN mid[i].vl - 1 ELSE mid[i].vl
  BY <1>1, <1>2, UndoIs
<1> HIDE DEF new
<1>4. SameLinks(new, pool)
  BY <1>1, <1>3 DEF SameLinks
<1>5. \A i : Waiting(new, pending, i) = Waiting(pool, pending, i)
  BY <1>4, SameAbove, WaitingSame
<1>6. ASSUME NEW i \in 1 .. N PROVE new[i].vl = Cardinality(Waiting(new, pending, i))
  <2>1. pool[i].vl = Cardinality(Waiting(pool, pending, i)) /\ pool[i].vl \in Nat
    BY ShapeFacts DEF Penalty, Nodes
  <2>2. new[i].vl = pool[i].vl
    BY <2>1, <1>1, <1>2, <1>3
  <2> QED BY <2>1, <2>2, <1>5
<1>7. Len(new) = N
  BY <1>4 DEF SameLinks
<1>8. Penalty(new, pending)
  BY <1>6, <1>7 DEF Penalty
<1>9. \A i \in 1 .. N : new[i].n = pool[i].n
  BY <1>1, <1>3
<1> QED BY <1>4, <1>8, <1>9 DEF new, mid

LEMMA NoPenalty ==
  ASSUME NEW pool, \A i \in 1 .. Len(pool) : pool[i].vl = 0
  PROVE  Penalty(pool, <<>>)
<1>1. \A i : Waiting(pool, <<>>, i) = {}
  BY DEF Waiting
<1> QED BY <1>1, FS_EmptySet DEF Penalty

LEMMA FreshPool ==
  ASSUME NEW b \in Seq(Cells)
  PROVE  /\ <<Root(b)>> \in Seq(Nodes) /\ Shape(<<Root(b)>>) /\ Len(<<Root(b)>>) = 1
         /\ <<Root(b)>>[1] = Root(b)
         /\ Penalty(<<Root(b)>>, <<>>)
<1> DEFINE r == Root(b)
<1>1. Shape(<<r>>) /\ r.vl = 0 /\ r \in Nodes
  BY RootShape DEF Root, Node
<1> HIDE DEF r
<1>2. Len(<<r>>) = 1 /\ <<r>>[1] = r /\ <<r>> \in Seq(Nodes)
  BY <1>1
<1>3. \A i \in 1 .. Len(<<r>>) : <<r>>[i].vl = 0
  BY <1>1, <1>2
<1>4. Penalty(<<r>>, <<>>)
  BY <1>3, NoPenalty
<1> QED BY <1>1, <1>2, <1>4 DEF r

-----------------------------------------------------------------------------
(* The boards of the tree *)

Distinct(b) == Cardinality(ToSet(b)) = Len(b)

LEMMA CellsOf ==
  ASSUME NEW b \in Seq(Cells)
  PROVE  /\ ToSet(b) \subseteq Cells /\ IsFiniteSet(ToSet(b)) /\ Cardinality(ToSet(b)) \in Nat
         /\ ToSet(b) = Position(b)[1] \cup Position(b)[2]
<1>1. \A i \in DOMAIN b : b[i] \in Cells
  BY LenProperties, ElementOfSeq
<1>2. ToSet(b) \subseteq Cells
  BY <1>1 DEF ToSet
<1>3. \A i : CurrentPlayer(SubSeq(b, 1, i - 1)) \in {"One", "Two"}
  BY DEF CurrentPlayer
<1>4. ToSet(b) = StonesOf(b, "One") \cup StonesOf(b, "Two")
  <2> HIDE DEF CurrentPlayer
  <2> QED BY <1>3 DEF ToSet, StonesOf
<1> QED BY <1>2, <1>4, CellsAssumption, FS_Subset, FS_CardinalityType DEF Position

LEMMA AppendCells ==
  ASSUME NEW b \in Seq(Cells), NEW c \in Cells
  PROVE  LET after == Append(b, c)
         IN  /\ after \in Seq(Cells) /\ Len(after) = Len(b) + 1 /\ ToSet(after) = ToSet(b) \cup {c}
             /\ MovesRemaining(after) = IF MovesRemaining(b) = 1 THEN 2 ELSE 1
             /\ Distinct(b) /\ c \notin ToSet(b) => Distinct(after)
<1> DEFINE after == Append(b, c)
<1>1. /\ after \in Seq(Cells) /\ Len(after) = Len(b) + 1 /\ Len(b) \in Nat
      /\ DOMAIN after = 1 .. Len(b) + 1 /\ DOMAIN b = 1 .. Len(b)
      /\ \A k \in 1 .. Len(b) : after[k] = b[k]
      /\ after[Len(b) + 1] = c
  BY AppendProperties, LenProperties
<1>2. (b = <<>> <=> Len(b) = 0) /\ after # <<>>
  BY <1>1, EmptySeq
<1> HIDE DEF after
<1>3. ToSet(after) = ToSet(b) \cup {c}
  BY <1>1 DEF ToSet
<1>4. MovesRemaining(after) = IF MovesRemaining(b) = 1 THEN 2 ELSE 1
  BY <1>1, <1>2 DEF MovesRemaining
<1>5. ASSUME Distinct(b), c \notin ToSet(b) PROVE Distinct(after)
  <2>1. Cardinality(ToSet(b) \cup {c}) = Cardinality(ToSet(b)) + 1
    BY <1>5, CellsOf, FS_AddElement
  <2> QED BY <1>1, <1>3, <1>5, <2>1 DEF Distinct
<1> QED BY <1>1, <1>3, <1>4, <1>5 DEF after

\* Two boards of one position, no cell twice, are of one length.
LEMMA SamePosition ==
  ASSUME NEW b \in Seq(Cells), NEW d \in Seq(Cells), Position(b) = Position(d), Distinct(b), Distinct(d)
  PROVE  ToSet(b) = ToSet(d) /\ Len(b) = Len(d)
  BY CellsOf DEF Distinct

LEMMA SameLength ==
  ASSUME NEW b \in Seq(Cells), NEW d \in Seq(Cells), Len(b) = Len(d)
  PROVE  /\ MovesRemaining(b) = MovesRemaining(d) /\ CurrentPlayer(b) = CurrentPlayer(d)
         /\ TerminalValueToMove(b) = TerminalValueToMove(d)
<1>1. (b = <<>> <=> Len(b) = 0) /\ (d = <<>> <=> Len(d) = 0)
  BY EmptySeq
<1> QED BY <1>1 DEF MovesRemaining, CurrentPlayer, TerminalValueToMove

\* A stone is its player's, whose turn only the number of stones says.
LEMMA AppendStones ==
  ASSUME NEW b \in Seq(Cells), NEW c \in Cells, NEW p
  PROVE  StonesOf(Append(b, c), p) = StonesOf(b, p) \cup IF CurrentPlayer(b) = p THEN {c} ELSE {}
<1> DEFINE L == Len(b)
           after == Append(b, c)
           At(n) == IF ((n + 1) \div 2) % 2 = 0 THEN "One" ELSE "Two"
<1>1. /\ after \in Seq(Cells) /\ L \in Nat /\ Len(after) = L + 1
      /\ DOMAIN after = 1 .. L + 1 /\ DOMAIN b = 1 .. L
      /\ \A k \in 1 .. L : after[k] = b[k]
      /\ after[L + 1] = c
  BY AppendProperties, LenProperties
<1>2. \A s \in Seq(Cells) : \A k \in 1 .. Len(s) : CurrentPlayer(SubSeq(s, 1, k - 1)) = At(k - 1)
  <2> TAKE s \in Seq(Cells)
  <2> TAKE k \in 1 .. Len(s)
  <2>1. Len(s) \in Nat
    OBVIOUS
  <2>2. Len(SubSeq(s, 1, k - 1)) = k - 1
    BY <2>1
  <2> QED BY <2>2 DEF CurrentPlayer
<1>3. CurrentPlayer(b) = At(L)
  BY DEF CurrentPlayer
<1> HIDE DEF after, At, L
<1>4. \A k \in 1 .. L : CurrentPlayer(SubSeq(b, 1, k - 1)) = At(k - 1)
  BY <1>2 DEF L
<1>5. \A k \in 1 .. L + 1 : CurrentPlayer(SubSeq(after, 1, k - 1)) = At(k - 1)
  BY <1>1, <1>2
<1>6. StonesOf(b, p) = { b[i] : i \in { k \in 1 .. L : At(k - 1) = p } }
  BY <1>1, <1>4 DEF StonesOf
<1>7. StonesOf(after, p) = { after[i] : i \in { k \in 1 .. L + 1 : At(k - 1) = p } }
  BY <1>1, <1>5 DEF StonesOf
<1>8. { k \in 1 .. L + 1 : At(k - 1) = p } =
        { k \in 1 .. L : At(k - 1) = p } \cup IF At(L) = p THEN {L + 1} ELSE {}
  <2>1. \A k \in 1 .. L + 1 : k \in 1 .. L \/ k = L + 1
    BY <1>1
  <2>2. \A k \in 1 .. L : k \in 1 .. L + 1
    BY <1>1
  <2>3. L + 1 \in 1 .. L + 1 /\ (L + 1) - 1 = L
    BY <1>1
  <2> QED BY <2>1, <2>2, <2>3
<1>9. StonesOf(after, p) = StonesOf(b, p) \cup IF At(L) = p THEN {c} ELSE {}
  BY <1>1, <1>6, <1>7, <1>8
<1> QED BY <1>3, <1>9 DEF after

LEMMA AppendPosition ==
  ASSUME NEW b \in Seq(Cells), NEW d \in Seq(Cells), Position(b) = Position(d), Len(b) = Len(d), NEW c \in Cells
  PROVE  Position(Append(b, c)) = Position(Append(d, c))
<1>1. CurrentPlayer(b) = CurrentPlayer(d)
  BY SameLength
<1>2. StonesOf(b, "One") = StonesOf(d, "One") /\ StonesOf(b, "Two") = StonesOf(d, "Two")
  BY DEF Position
<1>3. /\ StonesOf(Append(b, c), "One") = StonesOf(Append(d, c), "One")
      /\ StonesOf(Append(b, c), "Two") = StonesOf(Append(d, c), "Two")
  <2> DEFINE own(x, p) == IF CurrentPlayer(x) = p THEN {c} ELSE {}
  <2>1. \A p : /\ StonesOf(Append(b, c), p) = StonesOf(b, p) \cup own(b, p)
                /\ StonesOf(Append(d, c), p) = StonesOf(d, p) \cup own(d, p)
    BY AppendStones
  <2>2. \A p : own(b, p) = own(d, p)
    BY <1>1
  <2> HIDE DEF own
  <2> QED BY <1>2, <2>1, <2>2
<1> QED BY <1>3 DEF Position

\* A slot's board is its parent's and its own cell.
LEMMA BoardUnfolds ==
  ASSUME NEW pool, Shape(pool), NEW b \in Seq(Cells)
  PROVE  /\ BoardAt(pool, b, 1) = b
         /\ \A i \in 1 .. Len(pool) : i # 1 =>
              BoardAt(pool, b, i) = Append(BoardAt(pool, b, pool[i].parent), pool[i].cell)
<1>1. /\ DOMAIN pool = 1 .. Len(pool) /\ Len(pool) \in Nat /\ Downward(pool)
      /\ 1 \in 1 .. Len(pool)
      /\ \A i \in 1 .. Len(pool) : pool[i].parent \in 0 .. i - 1 /\ (pool[i].parent = 0 <=> i = 1)
  BY ShapeFacts DEF Shape
<1>2. /\ Path(pool, 0) = <<>>
      /\ \A i \in 1 .. Len(pool) : Path(pool, i) = Append(Path(pool, pool[i].parent), i)
  BY <1>1, PathUnfolds
<1> DEFINE Part(s) == [k \in DOMAIN s |-> pool[s[k]].cell]
<1>3. \A i : BoardAt(pool, b, i) = b \o Part(Tail(Path(pool, i)))
  BY DEF BoardAt
<1>4. BoardAt(pool, b, 1) = b
  <2>1. Path(pool, 1) = <<1>>
    <3>1. Path(pool, 1) = Append(Path(pool, pool[1].parent), 1) /\ pool[1].parent = 0
      BY <1>1, <1>2
    <3>2. Append(<<>>, 1) = <<1>>
      OBVIOUS
    <3> QED BY <3>1, <3>2, <1>2
  <2>2. Part(Tail(<<1>>)) = <<>>
    OBVIOUS
  <2> HIDE DEF Part
  <2>3. BoardAt(pool, b, 1) = b \o <<>>
    BY <1>3, <2>1, <2>2
  <2> QED BY <2>3, ConcatEmptySeq
<1>5. ASSUME NEW i \in 1 .. Len(pool), i # 1
      PROVE  BoardAt(pool, b, i) = Append(BoardAt(pool, b, pool[i].parent), pool[i].cell)
  <2> DEFINE p == pool[i].parent
             s == Path(pool, p)
             t == Tail(s)
             u == Append(t, i)
  <2>1. p \in 1 .. Len(pool) /\ p \in 0 .. Len(pool)
    BY <1>1, <1>5
  <2>2. s \in Seq(Nat) /\ s # <<>>
    <3>1. s \in Seq(1 .. p) /\ s = Append(Path(pool, pool[p].parent), p)
      BY <1>1, <1>2, <2>1, PathSeq
    <3>2. 1 .. p \subseteq Nat
      BY <2>1
    <3>3. Path(pool, pool[p].parent) \in Seq(1 .. pool[p].parent)
      <4>1. pool[p].parent \in 0 .. Len(pool)
        BY <1>1, <2>1
      <4> QED BY <4>1, <1>1, PathSeq
    <3> HIDE DEF s, p
    <3> QED BY <3>1, <3>2, <3>3, SeqMonotonic, AppendProperties
  <2>3. Path(pool, i) = Append(s, i)
    BY <1>2
  <2> HIDE DEF p, s
  <2>4. Tail(Append(s, i)) = u /\ t \in Seq(Nat)
    BY <2>2
  <2> HIDE DEF t
  <2>5. /\ DOMAIN t = 1 .. Len(t) /\ Len(t) \in Nat /\ DOMAIN u = 1 .. Len(t) + 1
        /\ \A k \in 1 .. Len(t) : u[k] = t[k]
        /\ u[Len(t) + 1] = i
    BY <2>4, AppendProperties, LenProperties
  <2> HIDE DEF u
  <2> DEFINE n == Len(t)
             f == Part(t)
             g == Part(u)
             c == pool[i].cell
  <2>6. /\ f \in Seq({f[k] : k \in 1 .. n} \cup {c}) /\ Len(f) = n
        /\ g \in Seq({f[k] : k \in 1 .. n} \cup {c}) /\ Len(g) = n + 1
        /\ \A k \in 1 .. n : g[k] = f[k]
        /\ g[n + 1] = c
    <3>1. /\ DOMAIN f = 1 .. n /\ f = [k \in 1 .. n |-> f[k]] /\ DOMAIN g = 1 .. n + 1
          /\ g = [k \in 1 .. n + 1 |-> g[k]]
      BY <2>5
    <3>2. (\A k \in 1 .. n : g[k] = f[k]) /\ g[n + 1] = c /\ n \in Nat /\ n + 1 \in Nat
      BY <2>5
    <3> HIDE DEF f, g, n, c
    <3>3. \A k \in 1 .. n + 1 : g[k] \in {f[j] : j \in 1 .. n} \cup {c}
      <4> TAKE k \in 1 .. n + 1
      <4>1. k \in 1 .. n \/ k = n + 1
        BY <3>2
      <4> QED BY <4>1, <3>2
    <3>4. f \in Seq({f[j] : j \in 1 .. n} \cup {c}) /\ Len(f) = n
      <4>1. \A k \in 1 .. n : f[k] \in {f[j] : j \in 1 .. n} \cup {c}
        OBVIOUS
      <4> DEFINE S == {f[j] : j \in 1 .. n} \cup {c}
      <4>2. \A k \in 1 .. n : f[k] \in S
        BY <4>1
      <4> HIDE DEF S
      <4>3. f \in Seq(S) /\ Len(f) = n
        BY ONLY <4>2, <3>1, <3>2, FunctionSeq
      <4> QED BY <4>3 DEF S
    <3>5. g \in Seq({f[j] : j \in 1 .. n} \cup {c}) /\ Len(g) = n + 1
      <4> DEFINE S == {f[j] : j \in 1 .. n} \cup {c}
      <4>1. \A k \in 1 .. n + 1 : g[k] \in S
        BY <3>3
      <4> HIDE DEF S
      <4>2. g \in Seq(S) /\ Len(g) = n + 1
        BY ONLY <4>1, <3>1, <3>2, FunctionSeq
      <4> QED BY <4>2 DEF S
    <3> QED BY <3>2, <3>4, <3>5
  <2>7. BoardAt(pool, b, i) = b \o g /\ BoardAt(pool, b, p) = b \o f
    BY <1>3, <2>3, <2>4 DEF t, s
  <2> HIDE DEF f, g, n, Part, c
  <2>8. b \o g = Append(b \o f, c)
    <3> DEFINE S == Cells \cup {f[j] : j \in 1 .. n} \cup {c}
    <3>1. b \in Seq(S) /\ f \in Seq(S) /\ g \in Seq(S) /\ c \in S
      <4>1. Cells \subseteq S /\ {f[j] : j \in 1 .. n} \cup {c} \subseteq S
        OBVIOUS
      <4> HIDE DEF S
      <4>2. \A h \in Seq({f[j] : j \in 1 .. n} \cup {c}) : h \in Seq(S)
        BY <4>1, SeqMonotonic
      <4>3. b \in Seq(S)
        BY <4>1, SeqMonotonic
      <4> QED BY <4>1, <4>2, <4>3, <2>6
    <3> HIDE DEF S
    <3>2. n \in Nat
      BY <2>5 DEF n
    <3>3. g = Append(f, c)
      <4>1. Append(f, c) \in Seq(S) /\ Len(Append(f, c)) = n + 1
            /\ (\A k \in 1 .. n : Append(f, c)[k] = f[k]) /\ Append(f, c)[n + 1] = c
        BY <3>1, <3>2, <2>6, AppendProperties
      <4>2. \A k \in 1 .. n + 1 : Append(f, c)[k] = g[k]
        <5> TAKE k \in 1 .. n + 1
        <5>1. k \in 1 .. n \/ k = n + 1
          BY <3>2
        <5> QED BY <5>1, <4>1, <2>6
      <4> QED BY <3>1, <4>1, <4>2, <2>6, SeqEqual
    <3> QED BY <3>1, <3>3
  <2> QED BY <2>7, <2>8 DEF p, c
<1> QED BY <1>4, <1>5

\* Slots with the path and the cells they had stand for the board they did.
LEMMA BoardSame ==
  ASSUME NEW pool, Shape(pool), NEW new, NEW b, NEW i \in 1 .. Len(pool),
         Path(new, i) = Path(pool, i), \A k \in 1 .. Len(pool) : new[k].cell = pool[k].cell
  PROVE  BoardAt(new, b, i) = BoardAt(pool, b, i)
<1> DEFINE below == Tail(Path(pool, i))
<1>1. \A k \in DOMAIN below : below[k] \in 1 .. Len(pool)
  <2>1. Path(pool, i) \in Seq(1 .. i) /\ Path(pool, i) # <<>>
    <3>1. /\ DOMAIN pool = 1 .. Len(pool) /\ Len(pool) \in Nat /\ Downward(pool)
          /\ pool[i].parent \in 0 .. Len(pool)
      BY ShapeFacts DEF Downward
    <3>2. \A k \in 1 .. Len(pool) : Path(pool, k) = Append(Path(pool, pool[k].parent), k)
      BY <3>1, PathUnfolds
    <3>3. \A k \in 0 .. Len(pool) : Path(pool, k) \in Seq(1 .. k)
      BY <3>1, PathSeq
    <3>4. i \in 0 .. Len(pool)
      BY <3>1
    <3> DEFINE s == Path(pool, pool[i].parent)
    <3>5. Path(pool, i) = Append(s, i) /\ s \in Seq(1 .. pool[i].parent) /\ Path(pool, i) \in Seq(1 .. i)
      BY <3>1, <3>2, <3>3, <3>4
    <3> HIDE DEF s
    <3> QED BY <3>5
  <2> DEFINE path == Path(pool, i)
  <2>2. 1 .. i \subseteq 1 .. Len(pool)
    BY ShapeFacts
  <2>3. path \in Seq(1 .. Len(pool)) /\ path # <<>>
    BY <2>1, <2>2, SeqMonotonic
  <2> HIDE DEF path
  <2>4. Tail(path) \in Seq(1 .. Len(pool))
    BY <2>3
  <2> QED BY <2>4, LenProperties, ElementOfSeq DEF path
<1> QED BY <1>1 DEF BoardAt

\* Every slot stands for a board no cell of which is played twice.
OnBoards(pool, root) ==
    \A i \in 1 .. Len(pool) :
        LET b == BoardAt(pool, root, i) IN Distinct(b) /\ pool[i].mr = MovesRemaining(b)

\* The slots an expansion of `leaf`, which stands for b, made.
Grown(new, pool, leaf, b) ==
    \A i \in Len(pool) + 1 .. Len(new) :
        new[i].cell \in LegalMoves(b) /\ new[i].mr = IF pool[leaf].mr = 1 THEN 2 ELSE 1

LEMMA NoneGrown ==
  ASSUME NEW pool, Shape(pool), NEW new, Len(new) = Len(pool), NEW leaf, NEW b
  PROVE  Grown(new, pool, leaf, b)
<1>1. Len(pool) \in Nat
  BY ShapeFacts
<1>2. Len(pool) + 1 .. Len(new) = {}
  BY <1>1
<1> QED BY <1>2 DEF Grown

LEMMA ExpandGrows ==
  ASSUME NEW pool, Shape(pool), NEW leaf \in 1 .. Len(pool), NEW b \in Seq(Cells)
  PROVE  Grown(ExpandLeaf(pool, leaf, b), pool, leaf, b)
<1> DEFINE node == pool[leaf]
<1>1. node \in Nodes
  BY ShapeFacts
<1>2. node.terminal \in BOOLEAN /\ node.tv \in Int
  BY <1>1 DEF Nodes
<1>3. Net(Position(b)) \in Int /\ TerminalValueToMove(b) \in Int
  BY PositionType, ValuesAssumption
<1> HIDE DEF node
<1>4. CASE node.terminal
  <2>1. ExpandLeaf(pool, leaf, b) = Backup(pool, leaf, node.tv)
    BY <1>4 DEF ExpandLeaf, node
  <2>2. Len(Backup(pool, leaf, node.tv)) = Len(pool)
    BY <1>2, BackupIs
  <2> QED BY <2>1, <2>2, NoneGrown
<1>5. CASE ~node.terminal /\ IsExpanded(node)
  <2>1. ExpandLeaf(pool, leaf, b) = Backup(pool, leaf, Net(Position(b)))
    BY <1>5 DEF ExpandLeaf, node
  <2>2. Len(Backup(pool, leaf, Net(Position(b)))) = Len(pool)
    BY <1>3, BackupIs
  <2> QED BY <2>1, <2>2, NoneGrown
<1>6. CASE ~node.terminal /\ ~IsExpanded(node) /\ CheckWin(b)
  <2>1. ExpandLeaf(pool, leaf, b) = MarkTerminal(pool, leaf, TerminalValueToMove(b))
    BY <1>6 DEF ExpandLeaf, node
  <2>2. Len(MarkTerminal(pool, leaf, TerminalValueToMove(b))) = Len(pool)
    BY <1>3, MarkTerminalIs
  <2> QED BY <2>1, <2>2, NoneGrown
<1>7. CASE ~node.terminal /\ ~IsExpanded(node) /\ ~CheckWin(b) /\ LegalMoves(b) = {}
  <2>1. ExpandLeaf(pool, leaf, b) = MarkTerminal(pool, leaf, 0)
    BY <1>7 DEF ExpandLeaf, node
  <2>2. Len(MarkTerminal(pool, leaf, 0)) = Len(pool)
    BY MarkTerminalIs
  <2> QED BY <2>1, <2>2, NoneGrown
<1>8. CASE ~node.terminal /\ ~IsExpanded(node) /\ ~CheckWin(b) /\ LegalMoves(b) # {}
  <2> DEFINE new == FinishExpansion(pool, leaf, b)
             cells == PickTopK(b)
             mr == IF pool[leaf].mr = 1 THEN 2 ELSE 1
  <2>1. ExpandLeaf(pool, leaf, b) = new
    BY <1>8 DEF ExpandLeaf, node
  <2>2. pool[leaf].first = 0
    BY <1>8 DEF IsExpanded, node
  <2>3. /\ Len(new) = Len(pool) + Len(cells)
        /\ \A i \in Len(pool) + 1 .. Len(new) : new[i] = Node(leaf, cells[i - Len(pool)], mr)
    BY <2>2, <1>8, FinishExpansionIs
  <2>4. cells \in Seq(LegalMoves(b)) /\ Len(cells) \in Nat /\ Len(pool) \in Nat
    BY <1>8, PickTopKIs, ShapeFacts
  <2> HIDE DEF new, cells, mr
  <2>5. ASSUME NEW i \in Len(pool) + 1 .. Len(new) PROVE new[i].cell \in LegalMoves(b) /\ new[i].mr = mr
    <3>1. i - Len(pool) \in 1 .. Len(cells)
      BY <2>3, <2>4
    <3>2. cells[i - Len(pool)] \in LegalMoves(b)
      BY <3>1, <2>4, ElementOfSeq
    <3>3. new[i] = Node(leaf, cells[i - Len(pool)], mr)
      BY <2>3
    <3> QED BY ONLY <3>2, <3>3 DEF Node
  <2> QED BY <2>1, <2>5 DEF Grown, mr
<1> QED BY <1>4, <1>5, <1>6, <1>7, <1>8

LEMMA RootBoard ==
  ASSUME NEW b \in Seq(Cells), Distinct(b)
  PROVE  OnBoards(<<Root(b)>>, b)
<1> DEFINE r == Root(b)
<1>1. Shape(<<r>>) /\ Len(<<r>>) = 1 /\ <<r>>[1] = r
  BY FreshPool
<1>2. r.mr = MovesRemaining(b)
  BY DEF Root, Node
<1> HIDE DEF r
<1>3. BoardAt(<<r>>, b, 1) = b
  BY <1>1, BoardUnfolds
<1> QED BY <1>1, <1>2, <1>3 DEF OnBoards, r

LEMMA BoardsSame ==
  ASSUME NEW pool, Shape(pool), NEW b, NEW new, SameLinks(new, pool)
  PROVE  /\ \A i \in 1 .. Len(pool) : BoardAt(new, b, i) = BoardAt(pool, b, i)
         /\ OnBoards(pool, b) => OnBoards(new, b)
<1>1. \A i \in 1 .. Len(pool) : Path(new, i) = Path(pool, i) /\ new[i].cell = pool[i].cell /\ new[i].mr = pool[i].mr
  BY SameLinksShape, ShapeFacts DEF SameLinks
<1>2. \A i \in 1 .. Len(pool) : BoardAt(new, b, i) = BoardAt(pool, b, i)
  BY <1>1, BoardSame
<1> QED BY <1>1, <1>2 DEF OnBoards, SameLinks

LEMMA BoardsGrow ==
  ASSUME NEW pool, Shape(pool), NEW b \in Seq(Cells), NEW leaf \in 1 .. Len(pool), NEW new,
         Backed(new, pool, leaf), Grown(new, pool, leaf, BoardAt(pool, b, leaf)), OnBoards(pool, b)
  PROVE  OnBoards(new, b)
<1> DEFINE N == Len(pool)
           at == BoardAt(pool, b, leaf)
<1>1. Shape(new) /\ Len(new) \in Nat /\ N \in Nat /\ at \in Seq(Cells)
  BY BackedShape, ShapeFacts, BoardType
<1>2. \A i \in 1 .. N : BoardAt(new, b, i) = BoardAt(pool, b, i)
  <2>1. \A i \in 1 .. N : Path(new, i) = Path(pool, i) /\ new[i].cell = pool[i].cell
    <3>1. \A i \in 1 .. N : i \in 0 .. N
      BY <1>1
    <3> QED BY <3>1, BackedShape DEF Backed
  <2> QED BY <2>1, BoardSame
<1>3. \A i \in 1 .. N : new[i].mr = pool[i].mr
  BY DEF Backed
<1> HIDE DEF at
<1>4. ASSUME NEW i \in 1 .. N
      PROVE  Distinct(BoardAt(new, b, i)) /\ new[i].mr = MovesRemaining(BoardAt(new, b, i))
  BY <1>2, <1>3 DEF OnBoards
<1>5. ASSUME NEW i \in N + 1 .. Len(new)
      PROVE  Distinct(BoardAt(new, b, i)) /\ new[i].mr = MovesRemaining(BoardAt(new, b, i))
  <2>1. i \in 1 .. Len(new) /\ i # 1 /\ Len(new) # N
    <3>1. N >= 1
      BY DEF Shape
    <3> QED BY <3>1, <1>1
  <2>2. new[i].parent = leaf
    BY <2>1 DEF Backed
  <2>3. BoardAt(new, b, i) = Append(at, new[i].cell)
    BY <1>1, <1>2, <2>1, <2>2, BoardUnfolds DEF at
  <2>4. new[i].cell \in Cells /\ new[i].cell \notin ToSet(at) /\ new[i].mr = IF pool[leaf].mr = 1 THEN 2 ELSE 1
    BY DEF Grown, LegalMoves, at
  <2>5. Distinct(at) /\ pool[leaf].mr = MovesRemaining(at)
    BY DEF OnBoards, at
  <2> QED BY <1>1, <2>3, <2>4, <2>5, AppendCells
<1>6. \A i \in 1 .. Len(new) : i \in 1 .. N \/ i \in N + 1 .. Len(new)
  BY <1>1
<1> QED BY <1>4, <1>5, <1>6 DEF OnBoards

\* The copy of a child's subtree, under the board the child stands for.
LEMMA BoardsCopied ==
  ASSUME NEW pool, Shape(pool), NEW root \in Seq(Cells), OnBoards(pool, root),
         NEW child \in 1 .. Len(pool), NEW b \in Seq(Cells),
         Position(b) = Position(BoardAt(pool, root, child)), Len(b) = Len(BoardAt(pool, root, child)),
         NEW new, NEW order, Copies(new, pool, child, order)
  PROVE  /\ OnBoards(new, b)
         /\ \A k \in 1 .. Len(new) :
              /\ Position(BoardAt(new, b, k)) = Position(BoardAt(pool, root, order[k]))
              /\ Len(BoardAt(new, b, k)) = Len(BoardAt(pool, root, order[k]))
<1> DEFINE L == Len(new)
           Was(k) == BoardAt(pool, root, order[k])
           Is(k) == BoardAt(new, b, k)
           Same(k) == Position(Is(k)) = Position(Was(k)) /\ Len(Is(k)) = Len(Was(k))
           Bad == {k \in 1 .. L : ~Same(k)}
<1>1. Shape(new) /\ L \in Nat /\ L >= 1 /\ Len(order) = L /\ order[1] = child /\ Len(pool) \in Nat
  <2>1. Shape(new)
    BY SubtreeShape
  <2> QED BY <2>1, ShapeFacts DEF Copies, Shape
<1>2. \A k \in 1 .. L : order[k] \in 1 .. Len(pool)
  BY <1>1, ElementOfSeq DEF Copies
<1>3. \A k \in 1 .. L :
        /\ new[k].cell = pool[order[k]].cell /\ new[k].mr = pool[order[k]].mr
        /\ k # 1 => new[k].parent \in 1 .. k - 1 /\ order[new[k].parent] = pool[order[k]].parent
  BY <1>1 DEF Copies
<1>4. \A k \in 1 .. L : Is(k) \in Seq(Cells) /\ Was(k) \in Seq(Cells)
  BY <1>1, <1>2, BoardType
<1>5. Bad = {}
  <2> SUFFICES ASSUME Bad # {} PROVE FALSE
    OBVIOUS
  <2>1. PICK k \in Bad : \A m \in Bad : k <= m
    <3>1. Bad \subseteq Nat
      OBVIOUS
    <3> HIDE DEF Bad
    <3> QED BY <3>1, NatLeast
  <2>2. k \in 1 .. L
    OBVIOUS
  <2>3. k # 1
    <3>1. Is(1) = b /\ Was(1) = BoardAt(pool, root, child)
      BY <1>1, BoardUnfolds
    <3> HIDE DEF Is, Was
    <3> QED BY <3>1
  <2> DEFINE p == new[k].parent
             c == new[k].cell
  <2>4. p \in 1 .. L /\ p < k
    BY <1>1, <1>3, <2>2, <2>3
  <2>5. Same(p)
    <3>1. p \notin Bad
      <4>1. ~(k <= new[k].parent)
        BY <2>2, <2>4, <1>1
      <4> HIDE DEF Bad
      <4> QED BY <2>1, <4>1
    <3> HIDE DEF p, Same
    <3> QED BY <3>1, <2>4
  <2>6. Is(k) = Append(Is(p), c)
    BY <1>1, <2>2, <2>3, BoardUnfolds
  <2>7. Was(k) = Append(Was(p), c)
    <3>1. order[k] \in 1 .. Len(pool) /\ order[p] = pool[order[k]].parent
      BY <1>2, <1>3, <2>2, <2>3
    <3>2. order[p] # 0
      BY <1>1, <1>2, <2>4
    <3>3. order[k] # 1
      <4>1. pool[order[k]].parent # 0
        BY <3>1, <3>2
      <4> QED BY <3>1, <4>1 DEF Shape
    <3>4. BoardAt(pool, root, order[k]) =
            Append(BoardAt(pool, root, pool[order[k]].parent), pool[order[k]].cell)
      BY <3>1, <3>3, BoardUnfolds
    <3>5. c = pool[order[k]].cell
      BY <1>3, <2>2
    <3> QED BY <3>1, <3>4, <3>5
  <2>8. c \in Cells
    BY <1>1, <2>2, ShapeFacts DEF Nodes
  <2> HIDE DEF c, Is, Was, p
  <2>9. Same(k)
    <3>1. Is(p) \in Seq(Cells) /\ Was(p) \in Seq(Cells)
      BY <1>4, <2>4
    <3>2. /\ Position(Append(Is(p), c)) = Position(Append(Was(p), c))
          /\ Len(Append(Is(p), c)) = Len(Is(p)) + 1 /\ Len(Append(Was(p), c)) = Len(Was(p)) + 1
      BY <3>1, <2>5, <2>8, AppendCells, AppendPosition
    <3> QED BY ONLY <2>5, <2>6, <2>7, <3>2
  <2> QED BY <2>9
<1>6. \A k \in 1 .. L : Same(k)
  <2> HIDE DEF Same
  <2> QED BY <1>5
<1>7. \A k \in 1 .. L : Distinct(Is(k)) /\ new[k].mr = MovesRemaining(Is(k))
  <2> TAKE k \in 1 .. L
  <2>1. Distinct(Was(k)) /\ pool[order[k]].mr = MovesRemaining(Was(k))
    BY <1>2 DEF OnBoards
  <2> HIDE DEF Is, Was
  <2>2. MovesRemaining(Is(k)) = MovesRemaining(Was(k))
    BY <1>4, <1>6, SameLength
  <2>3. ToSet(Is(k)) = ToSet(Was(k))
    BY <1>4, <1>6, CellsOf
  <2> QED BY <2>1, <2>2, <2>3, <1>3, <1>6 DEF Distinct
<1> QED BY <1>6, <1>7 DEF OnBoards

-----------------------------------------------------------------------------
(* The state *)

TurnRecords == [phase : {"none", "start", "drive", "done"}, start : Seq(Cells), sims : Nat, left : Int,
                done : Nat, inherited : Nat]

CallRecords == [at : {"none", "select", "out", "expand"}, network : Nat, descents : Nat, spent : Nat,
                served : Nat, unserved : Nat, overlap : BOOLEAN, pending : Seq(Nat)]

Proofs == [position : Positions \cup {<<>>}, stone : Cells]

Trees == [pool : Seq(Nodes), root : Seq(Cells), table : SUBSET Positions, proof : Proofs]

PlayerTypes ==
    /\ armed \in BOOLEAN /\ engine \in {"host", "running", "submitting"}
    /\ board \in Seq(Cells) /\ slots \in Nat
    /\ tree \in Trees /\ Shape(tree.pool)
    /\ turn \in TurnRecords /\ call \in CallRecords
    /\ call.pending \in Seq(1 .. Len(tree.pool))

\* The losses, with what makes them inductive: a batch belongs to a driven stone.
PenaltyInv ==
    /\ PlayerTypes
    /\ Penalty(tree.pool, call.pending)
    /\ call.at # "none" => turn.phase = "drive"
    /\ call.at = "none" => call.pending = <<>>

LEMMA FreshTreeIs ==
  ASSUME tree \in Trees, NEW b \in Seq(Cells)
  PROVE  LET new == FreshTree(b)
         IN  /\ new \in Trees /\ new.pool = <<Root(b)>> /\ new.root = b /\ new.table = {}
             /\ new.proof = tree.proof
<1> DEFINE pool == <<Root(b)>>
<1>1. pool \in Seq(Nodes)
  BY FreshPool
<1> HIDE DEF pool
<1> QED BY <1>1 DEF FreshTree, Trees, pool

\* The pool a search starts on: a fresh root, or a copy of the child reached.
LEMMA RerootedIs ==
  ASSUME tree \in Trees, Shape(tree.pool), NEW b \in Seq(Cells)
  PROVE  /\ Rerooted(b) \in Trees /\ Rerooted(b).root = b /\ Rerooted(b).table = {}
         /\ Rerooted(b).proof = tree.proof
         /\ \/ /\ Reaching(tree.pool, tree.root, b) = {}
               /\ Rerooted(b).pool = <<Root(b)>>
            \/ \E child \in Reaching(tree.pool, tree.root, b) :
                /\ child \in 1 .. Len(tree.pool)
                /\ Rerooted(b).pool = Subtree(tree.pool, child)
                /\ Copies(Rerooted(b).pool, tree.pool, child, BreadthFirst(tree.pool, child))
<1> DEFINE kept == Reaching(tree.pool, tree.root, b)
           child == CHOOSE i \in kept : \A j \in kept : i <= j
           fresh == FreshTree(b)
<1>1. /\ fresh \in Trees /\ fresh.pool = <<Root(b)>> /\ fresh.root = b /\ fresh.table = {}
      /\ fresh.proof = tree.proof
  BY FreshTreeIs
<1>2. kept \subseteq 1 .. Len(tree.pool)
  BY ShapeFacts DEF Reaching, Children
<1> HIDE DEF fresh, kept
<1>3. CASE kept = {}
  <2>1. Rerooted(b) = fresh
    BY <1>3 DEF Rerooted, kept, fresh
  <2> QED BY <2>1, <1>1, <1>3 DEF kept
<1>4. CASE kept # {}
  <2>1. child \in kept
    <3>1. kept \subseteq Nat
      BY <1>2, ShapeFacts
    <3>2. \E i \in kept : \A j \in kept : i <= j
      BY <3>1, <1>4, NatLeast
    <3> QED BY <3>2
  <2>2. Rerooted(b) = [fresh EXCEPT !.pool = Subtree(tree.pool, child)]
    BY <1>4 DEF Rerooted, kept, fresh
  <2> DEFINE pool == Subtree(tree.pool, child)
  <2>3. child \in 1 .. Len(tree.pool)
    BY <2>1, <1>2
  <2> HIDE DEF child
  <2>4. Copies(pool, tree.pool, child, BreadthFirst(tree.pool, child))
    BY <2>3, SubtreeCopies
  <2>5. pool \in Seq(Nodes)
    BY <2>4 DEF Copies
  <2> HIDE DEF pool
  <2>6. /\ Rerooted(b) \in Trees /\ Rerooted(b).root = b /\ Rerooted(b).table = {}
        /\ Rerooted(b).proof = tree.proof /\ Rerooted(b).pool = pool
    BY <2>2, <2>5, <1>1 DEF Trees, pool
  <2> QED BY <2>1, <2>3, <2>4, <2>6 DEF pool, kept
<1> QED BY <1>3, <1>4

LEMMA RerootedPenalty ==
  ASSUME tree \in Trees, Shape(tree.pool), NEW b \in Seq(Cells), Penalty(tree.pool, <<>>)
  PROVE  Shape(Rerooted(b).pool) /\ Penalty(Rerooted(b).pool, <<>>)
<1>1. CASE Rerooted(b).pool = <<Root(b)>>
  BY <1>1, FreshPool
<1>2. ASSUME NEW child \in 1 .. Len(tree.pool),
             Copies(Rerooted(b).pool, tree.pool, child, BreadthFirst(tree.pool, child))
      PROVE  Shape(Rerooted(b).pool) /\ Penalty(Rerooted(b).pool, <<>>)
  <2> DEFINE new == Rerooted(b).pool
             order == BreadthFirst(tree.pool, child)
  <2>1. Shape(new)
    BY <1>2, SubtreeShape
  <2>2. ASSUME NEW k \in 1 .. Len(new) PROVE new[k].vl = 0
    <3>1. k \in 1 .. Len(order) /\ order[k] \in 1 .. Len(tree.pool) /\ new[k].vl = tree.pool[order[k]].vl
      <4>1. /\ order \in Seq(1 .. Len(tree.pool)) /\ Len(new) = Len(order)
            /\ \A j \in 1 .. Len(order) : new[j].vl = tree.pool[order[j]].vl
        BY <1>2 DEF Copies
      <4> QED BY <4>1, ElementOfSeq
    <3>2. \A i : Waiting(tree.pool, <<>>, i) = {}
      BY DEF Waiting
    <3> QED BY <3>1, <3>2, FS_EmptySet DEF Penalty
  <2> HIDE DEF new
  <2>3. Penalty(new, <<>>)
    BY <2>2, NoPenalty
  <2> QED BY <2>1, <2>3 DEF new
<1> QED BY <1>1, <1>2, RerootedIs

-----------------------------------------------------------------------------
(* The losses are the pending leaves': one lemma per kind of action *)

LEMMA RecordTypes ==
  ASSUME PlayerTypes
  PROVE  /\ NoTurn \in TurnRecords /\ NoCall \in CallRecords /\ NoProof \in Proofs
         /\ NoCall.pending = <<>> /\ NoCall.at = "none" /\ NoTurn.phase = "none"
         /\ <<>> \in Seq(Nat)
  BY CellsAssumption DEF NoTurn, NoCall, NoProof, TurnRecords, CallRecords, Proofs

LEMMA InitPenalty == Init => PenaltyInv
<1> SUFFICES ASSUME Init PROVE PenaltyInv
  OBVIOUS
<1>1. /\ NoTurn \in TurnRecords /\ NoCall \in CallRecords /\ NoProof \in Proofs
      /\ NoCall.pending = <<>> /\ NoCall.at = "none"
  BY CellsAssumption DEF NoTurn, NoCall, NoProof, TurnRecords, CallRecords, Proofs
<1>2. <<>> \in Seq(Cells)
  OBVIOUS
<1> DEFINE pool == <<Root(<<>>)>>
<1>3. pool \in Seq(Nodes) /\ Shape(pool) /\ Penalty(pool, <<>>)
  BY <1>2, FreshPool
<1> HIDE DEF pool
<1>4. tree = [pool |-> pool, root |-> <<>>, table |-> {}, proof |-> NoProof]
  BY DEF Init, pool
<1>5. tree \in Trees /\ tree.pool = pool
  BY <1>1, <1>2, <1>3, <1>4 DEF Trees
<1>6. slots \in Nat
  <2>1. PICK s \in GameSims : slots = Margin * MaxChildren * s
    BY DEF Init
  <2> QED BY <2>1, BudgetsAssumption, MarginAssumption, ChildrenAssumption
<1> QED BY <1>1, <1>3, <1>5, <1>6 DEF Init, PenaltyInv, PlayerTypes

\* Only the board, the turn, the engine or the slots change.
LEMMA PenaltyStays ==
  ASSUME PenaltyInv, UNCHANGED <<tree, call>>,
         armed' \in BOOLEAN, engine' \in {"host", "running", "submitting"}, board' \in Seq(Cells), slots' \in Nat,
         turn' \in TurnRecords, call.at # "none" => turn'.phase = "drive"
  PROVE  PenaltyInv'
  BY DEF PenaltyInv, PlayerTypes

\* The batch is dropped with its tree.
LEMMA PenaltyReset ==
  ASSUME PenaltyInv, call' = NoCall, tree' \in Trees, Shape(tree'.pool), Penalty(tree'.pool, <<>>),
         armed' \in BOOLEAN, engine' \in {"host", "running", "submitting"}, board' \in Seq(Cells), slots' \in Nat,
         turn' \in TurnRecords
  PROVE  PenaltyInv'
<1>1. NoCall \in CallRecords /\ NoCall.pending = <<>> /\ NoCall.at = "none"
  BY RecordTypes DEF PenaltyInv
<1>2. <<>> \in Seq(1 .. Len(tree'.pool))
  OBVIOUS
<1> QED BY <1>1, <1>2 DEF PenaltyInv, PlayerTypes

LEMMA RollBackPenalty == PenaltyInv /\ RollBack => PenaltyInv'
<1> SUFFICES ASSUME PenaltyInv, RollBack PROVE PenaltyInv'
  OBVIOUS
<1>1. turn.start \in Seq(Cells) /\ tree \in Trees /\ NoTurn \in TurnRecords
  BY RecordTypes DEF PenaltyInv, PlayerTypes, TurnRecords
<1>2. tree' \in Trees /\ Shape(tree'.pool) /\ Penalty(tree'.pool, <<>>)
  <2>1. tree' = FreshTree(turn.start)
    BY DEF RollBack
  <2>2. tree' \in Trees /\ tree'.pool = <<Root(turn.start)>>
    BY <1>1, <2>1, FreshTreeIs
  <2> QED BY <1>1, <2>2, FreshPool
<1> QED BY <1>1, <1>2, PenaltyReset DEF RollBack, PenaltyInv, PlayerTypes

LEMMA NewGamePenalty == PenaltyInv /\ NewGame => PenaltyInv'
<1> SUFFICES ASSUME PenaltyInv, NewGame PROVE PenaltyInv'
  OBVIOUS
<1>1. call.pending = <<>> /\ NoProof \in Proofs /\ <<>> \in Seq(Cells)
  BY RecordTypes DEF PenaltyInv, NewGame
<1> DEFINE pool == <<Root(<<>>)>>
<1>2. pool \in Seq(Nodes) /\ Shape(pool) /\ Penalty(pool, <<>>)
  BY <1>1, FreshPool
<1> HIDE DEF pool
<1>3. tree' = [pool |-> pool, root |-> <<>>, table |-> {}, proof |-> NoProof]
  BY DEF NewGame, pool
<1>4. tree' \in Trees /\ tree'.pool = pool
  BY <1>1, <1>2, <1>3 DEF Trees
<1>5. board' \in Seq(Cells) /\ slots' \in Nat
  <2>1. PICK moves \in Openings, s \in GameSims : board' = moves /\ slots' = Margin * MaxChildren * s
    BY DEF NewGame
  <2> QED BY <2>1, OpeningsAssumption, BudgetsAssumption, MarginAssumption, ChildrenAssumption
<1>6. <<>> \in Seq(1 .. Len(tree'.pool))
  OBVIOUS
<1> QED BY <1>1, <1>2, <1>4, <1>5, <1>6 DEF NewGame, PenaltyInv, PlayerTypes

LEMMA HostPenalty ==
  PenaltyInv /\ (Play \/ BeginTurn \/ NextBatch \/ Abort \/ RefuseOutputs \/ Close) => PenaltyInv'
<1> SUFFICES ASSUME PenaltyInv, Play \/ BeginTurn \/ NextBatch \/ Abort \/ RefuseOutputs \/ Close
             PROVE  PenaltyInv'
  OBVIOUS
<1>1. /\ armed \in BOOLEAN /\ board \in Seq(Cells) /\ slots \in Nat /\ turn \in TurnRecords
      /\ engine \in {"host", "running", "submitting"} /\ NoTurn \in TurnRecords
      /\ call.at # "none" => turn.phase = "drive"
  BY RecordTypes DEF PenaltyInv, PlayerTypes
<1>2. CASE Play
  <2>1. board' \in Seq(Cells)
    <3>1. PICK a \in LegalMoves(board) :
            board' = Append(board, a) \/ \E b \in LegalMoves(board) \ {a} : board' = board \o <<a, b>>
      BY <1>2 DEF Play
    <3>2. a \in Cells
      BY DEF LegalMoves
    <3>3. CASE board' = Append(board, a)
      BY <1>1, <3>2, <3>3, AppendProperties
    <3>4. ASSUME NEW b \in LegalMoves(board) \ {a}, board' = board \o <<a, b>> PROVE board' \in Seq(Cells)
      <4>1. <<a, b>> \in Seq(Cells)
        BY <3>2 DEF LegalMoves
      <4> QED BY <1>1, <3>4, <4>1, ConcatProperties
    <3> QED BY <3>1, <3>3, <3>4
  <2> QED BY <1>1, <1>2, <2>1, PenaltyStays DEF Play
<1>3. CASE BeginTurn
  <2>1. PICK n \in TurnSims :
          turn' = [NoTurn EXCEPT !.phase = "start", !.start = board, !.sims = n, !.left = MovesRemaining(board)]
    BY <1>3 DEF BeginTurn
  <2>2. n \in Nat /\ MovesRemaining(board) \in Nat /\ MovesRemaining(board) \in Int
    BY <1>1, BudgetsAssumption, PositionType
  <2>3. turn' \in TurnRecords
    BY <1>1, <2>1, <2>2 DEF TurnRecords
  <2>4. call.at = "none"
    BY <1>1, <1>3 DEF BeginTurn
  <2> QED BY <1>1, <1>3, <2>3, <2>4, PenaltyStays DEF BeginTurn
<1>4. CASE NextBatch
  BY <1>1, <1>4, PenaltyStays DEF NextBatch
<1>5. CASE Close
  <2>1. call.at = "none"
    BY <1>1, <1>5 DEF Close
  <2> QED BY <1>1, <1>5, <2>1, PenaltyStays DEF Close
<1>6. CASE Abort
  BY <1>6, RollBackPenalty DEF Abort
<1>7. CASE RefuseOutputs
  BY <1>7, RollBackPenalty DEF RefuseOutputs
<1> QED BY <1>2, <1>3, <1>4, <1>5, <1>6, <1>7

\* A stone of the board is a cell, and its turn goes on or is done.
LEMMA PlaceIs ==
  ASSUME PlayerTypes, NEW c \in Cells, Place(c)
  PROVE  /\ board' = Append(board, c) /\ board' \in Seq(Cells) /\ turn' \in TurnRecords
         /\ turn'.phase = IF CheckWin(board') \/ turn.left = 1 THEN "done" ELSE "start"
         /\ turn'.left = turn.left - 1 /\ turn'.start = turn.start /\ turn'.sims = turn.sims
         /\ turn'.done = 0 /\ turn'.inherited = 0
<1>1. board' = Append(board, c) /\ board' \in Seq(Cells)
  BY AppendProperties DEF Place, PlayerTypes
<1>2. turn \in TurnRecords /\ turn.left - 1 \in Int
  BY DEF PlayerTypes, TurnRecords
<1> DEFINE phase == IF CheckWin(board') \/ turn.left = 1 THEN "done" ELSE "start"
<1>3. phase \in {"start", "done"}
  OBVIOUS
<1>4. turn' = [turn EXCEPT !.phase = phase, !.left = turn.left - 1, !.done = 0, !.inherited = 0]
  BY <1>2 DEF Place, TurnRecords
<1> HIDE DEF phase
<1>5. /\ turn' \in TurnRecords /\ turn'.phase = phase
      /\ turn'.left = turn.left - 1 /\ turn'.start = turn.start /\ turn'.sims = turn.sims
      /\ turn'.done = 0 /\ turn'.inherited = 0
  BY <1>2, <1>3, <1>4 DEF TurnRecords
<1> QED BY <1>1, <1>5 DEF phase

LEMMA ProofsType ==
  ASSUME tree \in Trees, board \in Seq(Cells)
  PROVE  /\ ProofAfter \in Proofs /\ tree.proof.stone \in Cells
         /\ Proof(Position(board)) # <<>> => Head(Proof(Position(board))) \in Cells
<1> DEFINE proof == Proof(Position(board))
           p == Position(board)
<1>1. p \in Positions
  BY PositionType
<1>2. proof \in Seq(Cells)
  <2>1. proof \in Seq(Cells \ (p[1] \cup p[2]))
    BY <1>1, ProofAssumption
  <2>2. Cells \ (p[1] \cup p[2]) \subseteq Cells
    OBVIOUS
  <2> HIDE DEF proof, p
  <2> QED BY <2>1, <2>2, SeqMonotonic
<1>3. tree.proof \in Proofs /\ tree.proof.stone \in Cells /\ NoProof \in Proofs
  BY CellsAssumption DEF Trees, Proofs, NoProof
<1>4. proof # <<>> => Head(proof) \in Cells
  <2> HIDE DEF proof
  <2> QED BY <1>2
<1>5. ProofAfter \in Proofs
  <2>1. CASE ~Stored /\ MovesRemaining(board) = 2 /\ Len(proof) = 2
    <3>1. proof[1] \in Cells /\ proof[2] \in Cells
      <4>1. 1 \in 1 .. Len(proof) /\ 2 \in 1 .. Len(proof)
        BY <2>1
      <4> HIDE DEF proof
      <4> QED BY <1>2, <4>1, ElementOfSeq
    <3>2. Append(board, proof[1]) \in Seq(Cells)
      BY <3>1, AppendProperties
    <3>3. Position(Append(board, proof[1])) \in Positions
      BY <3>2, PositionType
    <3>4. ProofAfter = [position |-> Position(Append(board, proof[1])), stone |-> proof[2]]
      BY <2>1 DEF ProofAfter
    <3> QED BY <3>1, <3>3, <3>4 DEF Proofs
  <2>2. CASE ~(~Stored /\ MovesRemaining(board) = 2 /\ Len(proof) = 2)
    <3>1. ProofAfter = NoProof
      BY <2>2 DEF ProofAfter
    <3> QED BY <3>1, <1>3
  <2> QED BY <2>1, <2>2
<1> QED BY <1>3, <1>4, <1>5

\* A placed stone with the tree as it was, or re-rooted at its board.
LEMMA PlacePenalty ==
  ASSUME PenaltyInv, call.at = "none", NEW c \in Cells, Place(c),
         UNCHANGED <<armed, slots, call, engine>>,
         tree' = tree \/ \E proof \in Proofs : tree' = [Rerooted(board) EXCEPT !.proof = proof]
  PROVE  PenaltyInv'
<1>1. /\ PlayerTypes /\ board' \in Seq(Cells) /\ turn' \in TurnRecords
      /\ board \in Seq(Cells) /\ call \in CallRecords /\ call.pending = <<>>
      /\ tree \in Trees /\ Shape(tree.pool) /\ Penalty(tree.pool, <<>>)
      /\ armed \in BOOLEAN /\ slots \in Nat /\ engine \in {"host", "running", "submitting"}
  BY PlaceIs DEF PenaltyInv, PlayerTypes
<1>2. CASE tree' = tree
  BY <1>1, <1>2, PenaltyStays
<1>3. ASSUME NEW proof \in Proofs, tree' = [Rerooted(board) EXCEPT !.proof = proof] PROVE PenaltyInv'
  <2>1. tree' \in Trees /\ tree'.pool = Rerooted(board).pool
    BY <1>1, <1>3, RerootedIs DEF Trees
  <2>2. Shape(tree'.pool) /\ Penalty(tree'.pool, <<>>)
    BY <1>1, <2>1, RerootedPenalty
  <2>3. <<>> \in Seq(1 .. Len(tree'.pool))
    OBVIOUS
  <2> QED BY <1>1, <2>1, <2>2, <2>3 DEF PenaltyInv, PlayerTypes
<1> QED BY <1>2, <1>3

LEMMA StonePenalty ==
  PenaltyInv /\ (PlaceOrigin \/ OffenceStone \/ FinishSearched) => PenaltyInv'
<1> SUFFICES ASSUME PenaltyInv, PlaceOrigin \/ OffenceStone \/ FinishSearched PROVE PenaltyInv'
  OBVIOUS
<1>1. /\ tree \in Trees /\ Shape(tree.pool) /\ board \in Seq(Cells)
      /\ call.at # "none" => turn.phase = "drive"
  BY DEF PenaltyInv, PlayerTypes
<1>2. CASE PlaceOrigin
  <2>1. call.at = "none" /\ Place(Origin) /\ UNCHANGED <<armed, slots, call, engine>> /\ tree' = tree
    BY <1>1, <1>2 DEF PlaceOrigin
  <2> QED BY <2>1, CellsAssumption, PlacePenalty
<1>3. CASE OffenceStone
  <2>1. PICK c \in Cells : Place(c)
    BY <1>1, <1>3, ProofsType DEF OffenceStone
  <2>2. ProofAfter \in Proofs
    BY <1>1, ProofsType
  <2>3. /\ call.at = "none" /\ UNCHANGED <<armed, slots, call, engine>>
        /\ tree' = [Rerooted(board) EXCEPT !.proof = ProofAfter]
    BY <1>3 DEF OffenceStone
  <2> QED BY <2>1, <2>2, <2>3, PlacePenalty
<1>4. CASE FinishSearched
  <2>1. PICK i \in Children(tree.pool, 1) : Place(tree.pool[i].cell)
    BY <1>4 DEF FinishSearched, Leaders
  <2>2. tree.pool[i].cell \in Cells
    <3>1. i \in 1 .. Len(tree.pool)
      BY <1>1, ShapeFacts DEF Children
    <3> QED BY <1>1, <3>1, ShapeFacts DEF Nodes
  <2>3. call.at = "none" /\ UNCHANGED <<armed, slots, tree, call, engine>>
    BY <1>4 DEF FinishSearched
  <2> QED BY <2>1, <2>2, <2>3, PlacePenalty
<1> QED BY <1>2, <1>3, <1>4

LEMMA SelectIs ==
  ASSUME NEW network \in Nat, NEW descents \in Nat, Select(network, descents)
  PROVE  /\ call' \in CallRecords /\ call'.at = "select" /\ call'.pending = <<>>
         /\ call'.spent = 0 /\ call'.served = 0 /\ call'.unserved = 0 /\ call'.descents = descents
<1>1. <<>> \in Seq(Nat)
  OBVIOUS
<1>2. call' = [at |-> "select", network |-> network, descents |-> descents, spent |-> 0, served |-> 0,
               unserved |-> 0, overlap |-> FALSE, pending |-> <<>>]
  BY DEF Select, NoCall
<1> QED BY <1>1, <1>2 DEF CallRecords

LEMMA SelectPenalty == PenaltyInv /\ (RootStep \/ Drive) => PenaltyInv'
<1> SUFFICES ASSUME PenaltyInv, RootStep \/ Drive PROVE PenaltyInv'
  OBVIOUS
<1>1. /\ tree \in Trees /\ Shape(tree.pool) /\ board \in Seq(Cells) /\ turn \in TurnRecords
      /\ armed \in BOOLEAN /\ slots \in Nat /\ engine \in {"host", "running", "submitting"}
      /\ call.at = "none" => Penalty(tree.pool, <<>>)
  BY DEF PenaltyInv, PlayerTypes
<1>2. NoProof \in Proofs /\ tree.proof \in Proofs
  BY <1>1, CellsAssumption DEF NoProof, Proofs, Trees
<1>3. CASE RootStep
  <2>1. Select(1, 1) /\ call.at = "none"
    BY <1>3 DEF RootStep
  <2>2. call' \in CallRecords /\ call'.at = "select" /\ call'.pending = <<>>
    BY <2>1, SelectIs
  <2> DEFINE proof == IF armed THEN NoProof ELSE Rerooted(board).proof
  <2>3. Rerooted(board) \in Trees /\ Rerooted(board).proof = tree.proof
    BY <1>1, RerootedIs
  <2>4. proof \in Proofs
    BY <1>2, <2>3
  <2>5. tree' = [Rerooted(board) EXCEPT !.proof = proof]
    BY <1>3, <2>3 DEF RootStep, Trees
  <2> HIDE DEF proof
  <2>6. tree' \in Trees /\ tree'.pool = Rerooted(board).pool
    BY <2>3, <2>4, <2>5 DEF Trees
  <2>7. Shape(tree'.pool) /\ Penalty(tree'.pool, <<>>)
    BY <1>1, <2>1, <2>6, RerootedPenalty
  <2>8. turn' \in TurnRecords /\ turn'.phase = "drive"
    <3>1. Inherited(tree') \in Nat
      <4>1. 1 \in 1 .. Len(tree'.pool)
        BY <2>7, ShapeFacts DEF Shape
      <4> QED BY <2>7, <4>1, ShapeFacts DEF Inherited, Nodes
    <3>2. turn' = [turn EXCEPT !.phase = "drive", !.done = 0, !.inherited = Inherited(tree')]
      BY <1>3 DEF RootStep
    <3> HIDE DEF Inherited
    <3> QED BY <1>1, <3>1, <3>2 DEF TurnRecords
  <2>9. <<>> \in Seq(1 .. Len(tree'.pool))
    OBVIOUS
  <2>10. UNCHANGED <<armed, board, slots, engine>>
    BY <1>3 DEF RootStep
  <2> QED BY <1>1, <2>2, <2>6, <2>7, <2>8, <2>9, <2>10 DEF PenaltyInv, PlayerTypes
<1>4. CASE Drive
  <2>1. Left \in Nat /\ LeafBatch \in Nat
    BY <1>1, <1>4, BudgetsAssumption DEF Drive, Left, TurnRecords
  <2>2. Select(LeafBatch, Left) /\ call.at = "none" /\ turn.phase = "drive"
    BY <1>4 DEF Drive
  <2>3. call' \in CallRecords /\ call'.at = "select" /\ call'.pending = <<>>
    BY <2>1, <2>2, SelectIs
  <2>4. <<>> \in Seq(1 .. Len(tree.pool))
    OBVIOUS
  <2>5. UNCHANGED <<armed, board, slots, tree, turn, engine>>
    BY <1>4 DEF Drive
  <2> QED BY <1>1, <2>2, <2>3, <2>4, <2>5 DEF PenaltyInv, PlayerTypes
<1> QED BY <1>3, <1>4

\* The descent's own effect: an overlap, a value backed up at once, or a wait.
LEMMA DescendIs ==
  ASSUME PenaltyInv, Descend
  PROVE  \E leaf \in 1 .. Len(tree.pool) :
            LET mid == ApplyVirtualLoss(tree.pool, leaf)
            IN  \/ Overlap(leaf)
                \/ \E new :
                    /\ Backed(new, mid, leaf) /\ Grown(new, mid, leaf, BoardAt(tree.pool, tree.root, leaf))
                    /\ Inline(new)
                \/ /\ tree' = [tree EXCEPT !.pool = mid]
                   /\ call' = [call EXCEPT !.spent = @ + 1, !.pending = Append(@, leaf)]
<1> DEFINE Mid(leaf) == ApplyVirtualLoss(tree.pool, leaf)
           B(leaf) == BoardAt(tree.pool, tree.root, leaf)
<1>1. PICK leaf \in Leaves :
        \/ Overlap(leaf)
        \/ Inline(DecidedLeaf(Mid(leaf), leaf, B(leaf)))
        \/ Inline(ExpandLeaf(Mid(leaf), leaf, B(leaf)))
        \/ /\ tree' = [tree EXCEPT !.pool = Mid(leaf)]
           /\ call' = [call EXCEPT !.spent = @ + 1, !.pending = Append(@, leaf)]
  BY DEF Descend
<1>2. Shape(tree.pool) /\ tree.root \in Seq(Cells)
  BY DEF PenaltyInv, PlayerTypes, Trees
<1>3. leaf \in 1 .. Len(tree.pool)
  BY <1>2, ShapeFacts DEF Leaves
<1>4. B(leaf) \in Seq(Cells)
  BY <1>2, <1>3, BoardType
<1>5. Shape(Mid(leaf)) /\ leaf \in 1 .. Len(Mid(leaf))
  <2>1. SameLinks(Mid(leaf), tree.pool)
    BY <1>2, <1>3, ApplyIs
  <2> HIDE DEF Mid
  <2> QED BY <2>1, <1>2, <1>3, SameLinksShape DEF SameLinks
<1> HIDE DEF B, Mid
<1>6. /\ Backed(DecidedLeaf(Mid(leaf), leaf, B(leaf)), Mid(leaf), leaf)
      /\ Grown(DecidedLeaf(Mid(leaf), leaf, B(leaf)), Mid(leaf), leaf, B(leaf))
      /\ Backed(ExpandLeaf(Mid(leaf), leaf, B(leaf)), Mid(leaf), leaf)
      /\ Grown(ExpandLeaf(Mid(leaf), leaf, B(leaf)), Mid(leaf), leaf, B(leaf))
  BY <1>4, <1>5, DecidedLeafIs, NoneGrown, ExpandLeafIs, ExpandGrows
<1> QED BY <1>1, <1>3, <1>6 DEF Mid, B

\* A select call's descent keeps the records' types and the batch in the pool.
LEMMA DescendPenalty == PenaltyInv /\ Descend => PenaltyInv'
<1> SUFFICES ASSUME PenaltyInv, Descend PROVE PenaltyInv'
  OBVIOUS
<1>1. /\ PlayerTypes /\ tree \in Trees /\ Shape(tree.pool) /\ call \in CallRecords
      /\ call.pending \in Seq(1 .. Len(tree.pool)) /\ Penalty(tree.pool, call.pending)
      /\ turn.phase = "drive" /\ call.at = "select"
      /\ UNCHANGED <<armed, board, slots, turn, engine>>
  BY DEF PenaltyInv, PlayerTypes, Descend, Selecting
<1>2. PICK leaf \in 1 .. Len(tree.pool) :
        \/ Overlap(leaf)
        \/ \E new : Backed(new, ApplyVirtualLoss(tree.pool, leaf), leaf) /\ Inline(new)
        \/ /\ tree' = [tree EXCEPT !.pool = ApplyVirtualLoss(tree.pool, leaf)]
           /\ call' = [call EXCEPT !.spent = @ + 1, !.pending = Append(@, leaf)]
  BY DescendIs
<1>3. SUFFICES ASSUME NEW pool, tree' = [tree EXCEPT !.pool = pool], Shape(pool),
                      call' \in CallRecords, call'.at = "select",
                      call'.pending \in Seq(1 .. Len(pool)), Penalty(pool, call'.pending)
               PROVE  PenaltyInv'
  <2> DEFINE mid == ApplyVirtualLoss(tree.pool, leaf)
  <2>1. CASE Overlap(leaf)
    <3> DEFINE new == UndoVirtualLoss(mid, leaf)
    <3>1. Penalty(new, call.pending) /\ SameLinks(new, tree.pool)
      BY <1>1, PenaltyOverlap
    <3>2. tree' = [tree EXCEPT !.pool = new] /\ call' = [call EXCEPT !.overlap = TRUE]
      BY <1>1, <2>1 DEF Overlap, Trees
    <3> HIDE DEF new
    <3>3. Shape(new) /\ Len(new) = Len(tree.pool)
      BY <3>1, <1>1, SameLinksShape DEF SameLinks
    <3>4. call' \in CallRecords /\ call'.at = "select" /\ call'.pending = call.pending
      BY <1>1, <3>2 DEF CallRecords
    <3> QED BY <1>1, <1>3, <3>1, <3>2, <3>3, <3>4
  <2>2. ASSUME NEW new, Backed(new, mid, leaf), Inline(new) PROVE PenaltyInv'
    <3>1. Penalty(new, call.pending)
      BY <1>1, <2>2, PenaltyInline
    <3>2. Shape(mid) /\ Len(mid) = Len(tree.pool)
      <4>1. SameLinks(mid, tree.pool)
        BY <1>1, ApplyIs
      <4> HIDE DEF mid
      <4> QED BY <4>1, <1>1, SameLinksShape DEF SameLinks
    <3> HIDE DEF mid
    <3>3. Shape(new) /\ Len(new) \in Nat /\ Len(new) >= Len(tree.pool)
      <4>1. leaf \in 1 .. Len(mid)
        BY <3>2
      <4> QED BY <2>2, <3>2, <4>1, BackedShape DEF Backed
    <3>4. tree' = [tree EXCEPT !.pool = new]
          /\ call' = [call EXCEPT !.spent = @ + 1, !.unserved = @ + 1]
      BY <2>2 DEF Inline
    <3>5. call' \in CallRecords /\ call'.at = "select" /\ call'.pending = call.pending
      <4> DEFINE s == call.spent + 1
                 u == call.unserved + 1
      <4>1. s \in Nat /\ u \in Nat
        BY <1>1 DEF CallRecords
      <4>2. call' = [call EXCEPT !.spent = s, !.unserved = u]
        BY <1>1, <3>4 DEF CallRecords
      <4> HIDE DEF s, u
      <4> QED BY ONLY <1>1, <4>1, <4>2 DEF CallRecords
    <3>6. call'.pending \in Seq(1 .. Len(new))
      <4>1. 1 .. Len(tree.pool) \subseteq 1 .. Len(new)
        BY <3>3, <1>1, ShapeFacts
      <4>2. call.pending \in Seq(1 .. Len(tree.pool))
        BY <1>1
      <4> QED BY <4>1, <4>2, <3>5, SeqMonotonic
    <3> QED BY <1>3, <3>1, <3>3, <3>4, <3>5, <3>6
  <2>3. CASE /\ tree' = [tree EXCEPT !.pool = mid]
             /\ call' = [call EXCEPT !.spent = @ + 1, !.pending = Append(@, leaf)]
    <3> DEFINE after == Append(call.pending, leaf)
    <3>1. Penalty(mid, after)
      BY <1>1, PenaltySelect
    <3>2. Shape(mid) /\ Len(mid) = Len(tree.pool)
      <4>1. SameLinks(mid, tree.pool)
        BY <1>1, ApplyIs
      <4> HIDE DEF mid
      <4> QED BY <4>1, <1>1, SameLinksShape DEF SameLinks
    <3>3. after \in Seq(1 .. Len(tree.pool)) /\ after \in Seq(Nat)
      <4>1. leaf \in Nat /\ call.pending \in Seq(Nat)
        BY <1>1, ShapeFacts DEF CallRecords
      <4> QED BY <1>1, <4>1, AppendProperties
    <3> HIDE DEF mid, after
    <3>4. call' = [call EXCEPT !.spent = @ + 1, !.pending = after]
      BY <2>3 DEF after
    <3>5. call' \in CallRecords /\ call'.at = "select" /\ call'.pending = after
      <4> DEFINE s == call.spent + 1
      <4>1. s \in Nat
        BY <1>1 DEF CallRecords
      <4>2. call' = [call EXCEPT !.spent = s, !.pending = after]
        BY <1>1, <3>4 DEF CallRecords
      <4> HIDE DEF s
      <4> QED BY ONLY <1>1, <3>3, <4>1, <4>2 DEF CallRecords
    <3> QED BY <1>3, <2>3, <3>1, <3>2, <3>3, <3>5
  <2> QED BY <1>2, <2>1, <2>2, <2>3
<1>4. pool \in Seq(Nodes) /\ tree' \in Trees /\ tree'.pool = pool
  BY <1>1, <1>3 DEF Trees, Shape
<1> QED BY <1>1, <1>3, <1>4 DEF PenaltyInv, PlayerTypes

LEMMA ServePenalty == PenaltyInv /\ (Serve \/ Submit) => PenaltyInv'
<1> SUFFICES ASSUME PenaltyInv, Serve \/ Submit PROVE PenaltyInv'
  OBVIOUS
<1>1. /\ call \in CallRecords /\ call.at # "none" /\ turn.phase = "drive"
      /\ UNCHANGED <<armed, board, slots, tree, turn>>
  BY DEF PenaltyInv, PlayerTypes, Serve, Submit
<1>2. engine' \in {"host", "running", "submitting"}
  BY DEF PenaltyInv, PlayerTypes, Serve, Submit
<1>3. call' \in CallRecords /\ call'.at # "none" /\ call'.pending = call.pending
  <2>1. call' = [call EXCEPT !.at = "expand"] \/ call' = [call EXCEPT !.at = "out"]
    BY DEF Serve, Submit
  <2> QED BY <1>1, <2>1 DEF CallRecords
<1> QED BY <1>1, <1>2, <1>3 DEF PenaltyInv, PlayerTypes

LEMMA ExpandNextIs ==
  ASSUME PenaltyInv, ExpandNext
  PROVE  \E new :
            /\ Backed(new, tree.pool, Head(call.pending)) /\ Head(call.pending) \in 1 .. Len(tree.pool)
            /\ Grown(new, tree.pool, Head(call.pending), BoardAt(tree.pool, tree.root, Head(call.pending)))
            /\ tree' \in Trees /\ tree'.pool = new /\ tree'.root = tree.root /\ tree'.proof = tree.proof
            /\ call' \in CallRecords /\ call'.at = "expand" /\ call'.pending = Tail(call.pending)
            /\ call'.spent = call.spent /\ call'.served = call.served + 1
            /\ call'.unserved = call.unserved
<1> DEFINE pending == call.pending
           leaf == Head(pending)
           b == BoardAt(tree.pool, tree.root, leaf)
           new == ExpandLeaf(tree.pool, leaf, b)
           after == Tail(pending)
           entered == tree.table \union {Position(b)}
<1>1. /\ Shape(tree.pool) /\ tree \in Trees /\ call \in CallRecords
      /\ pending \in Seq(1 .. Len(tree.pool)) /\ pending # <<>> /\ pending \in Seq(Nat)
  BY DEF PenaltyInv, PlayerTypes, ExpandNext, CallRecords
<1>2. leaf \in 1 .. Len(tree.pool) /\ after \in Seq(Nat)
  <2> HIDE DEF pending
  <2> QED BY <1>1
<1> HIDE DEF leaf
<1>3. b \in Seq(Cells)
  BY <1>1, <1>2, BoardType DEF Trees
<1> HIDE DEF b
<1>4. Backed(new, tree.pool, leaf) /\ Grown(new, tree.pool, leaf, b) /\ Position(b) \in Positions
  BY <1>1, <1>2, <1>3, ExpandLeafIs, ExpandGrows, PositionType
<1>5. new \in Seq(Nodes) /\ entered \in SUBSET Positions
  BY <1>1, <1>4 DEF Backed, Trees
<1>6. tree' = [tree EXCEPT !.pool = new, !.table = entered]
  BY <1>1 DEF ExpandNext, Trees, leaf, b
<1>7. call' = [call EXCEPT !.pending = after, !.served = @ + 1] /\ call.at = "expand"
  BY DEF ExpandNext
<1> HIDE DEF new, entered
<1>8. tree' \in Trees /\ tree'.pool = new /\ tree'.root = tree.root /\ tree'.proof = tree.proof
  BY <1>1, <1>5, <1>6 DEF Trees
<1>9. /\ call' \in CallRecords /\ call'.at = "expand" /\ call'.pending = after
      /\ call'.spent = call.spent /\ call'.served = call.served + 1
      /\ call'.unserved = call.unserved
  <2> DEFINE s == call.served + 1
  <2>1. s \in Nat
    BY <1>1 DEF CallRecords
  <2>2. call' = [call EXCEPT !.pending = after, !.served = s]
    BY <1>1, <1>7 DEF CallRecords
  <2> HIDE DEF s, after
  <2>3. /\ call' \in CallRecords /\ call'.at = "expand" /\ call'.pending = after
        /\ call'.spent = call.spent /\ call'.served = s /\ call'.unserved = call.unserved
    BY ONLY <1>1, <1>2, <1>7, <2>1, <2>2 DEF CallRecords
  <2> QED BY <2>3 DEF s
<1> QED BY <1>2, <1>4, <1>8, <1>9 DEF leaf, b

LEMMA ExpandPenalty == PenaltyInv /\ ExpandNext => PenaltyInv'
<1> SUFFICES ASSUME PenaltyInv, ExpandNext PROVE PenaltyInv'
  OBVIOUS
<1> DEFINE pending == call.pending
           after == Tail(pending)
<1>1. /\ Shape(tree.pool) /\ call \in CallRecords /\ pending # <<>> /\ turn.phase = "drive"
      /\ pending \in Seq(1 .. Len(tree.pool)) /\ Penalty(tree.pool, pending)
      /\ UNCHANGED <<armed, board, slots, turn, engine>>
  BY DEF PenaltyInv, PlayerTypes, ExpandNext
<1>2. PICK new :
        /\ Backed(new, tree.pool, Head(pending)) /\ Head(pending) \in 1 .. Len(tree.pool)
        /\ tree' \in Trees /\ tree'.pool = new
        /\ call' \in CallRecords /\ call'.at = "expand" /\ call'.pending = after
  BY ExpandNextIs
<1>3. Shape(new) /\ Len(new) \in Nat /\ Len(new) >= Len(tree.pool)
  <2>1. Shape(new) /\ Len(new) \in Nat
    BY <1>1, <1>2, BackedShape
  <2>2. Len(new) >= Len(tree.pool)
    BY <1>2 DEF Backed
  <2> QED BY <2>1, <2>2
<1>4. Penalty(new, after)
  BY <1>1, <1>2, PenaltyExpand
<1>5. after \in Seq(1 .. Len(new))
  <2>1. after \in Seq(1 .. Len(tree.pool))
    <3> HIDE DEF pending
    <3> QED BY <1>1
  <2>2. 1 .. Len(tree.pool) \subseteq 1 .. Len(new)
    BY <1>1, <1>3, ShapeFacts
  <2> HIDE DEF after
  <2> QED BY <2>1, <2>2, SeqMonotonic
<1> HIDE DEF after
<1> QED BY <1>1, <1>2, <1>3, <1>4, <1>5 DEF PenaltyInv, PlayerTypes

LEMMA ChargePenalty == PenaltyInv /\ Charge => PenaltyInv'
<1> SUFFICES ASSUME PenaltyInv, Charge PROVE PenaltyInv'
  OBVIOUS
<1>1. /\ call \in CallRecords /\ call.pending = <<>> /\ turn \in TurnRecords
      /\ Penalty(tree.pool, <<>>) /\ tree \in Trees /\ Shape(tree.pool)
      /\ call' = NoCall /\ UNCHANGED <<armed, board, slots, tree>>
  BY DEF PenaltyInv, PlayerTypes, Charge
<1>2. engine' \in {"host", "running", "submitting"}
  BY DEF PenaltyInv, PlayerTypes, Charge
<1>3. turn' \in TurnRecords
  <2> DEFINE d == turn.done + call.served + call.unserved
  <2>1. d \in Nat
    BY <1>1 DEF TurnRecords, CallRecords
  <2>2. turn' = [turn EXCEPT !.done = d]
    BY <1>1 DEF Charge, TurnRecords
  <2> HIDE DEF d
  <2> QED BY <1>1, <2>1, <2>2 DEF TurnRecords
<1> QED BY <1>1, <1>2, <1>3, PenaltyReset DEF PenaltyInv, PlayerTypes

LEMMA NextPenalty == PenaltyInv /\ [Next]_vars => PenaltyInv'
<1> SUFFICES ASSUME PenaltyInv, [Next]_vars PROVE PenaltyInv'
  OBVIOUS
<1>1. ASSUME UNCHANGED vars PROVE PenaltyInv'
  BY <1>1 DEF vars, PenaltyInv, PlayerTypes
<1>2. CASE NoRootChildren
  BY <1>2, RollBackPenalty DEF NoRootChildren
<1> QED
  BY <1>1, <1>2, NewGamePenalty, HostPenalty, StonePenalty, SelectPenalty, DescendPenalty, ServePenalty,
     ExpandPenalty, ChargePenalty DEF Next

LEMMA PlayerInv == Spec => []PenaltyInv
  BY InitPenalty, NextPenalty, PTL DEF Spec

\* A node carries one virtual loss for each pending leaf below it and no other,
\* through table hits, decided leaves, overlaps, refused batches, aborts and
\* re-roots (select_one_leaf, backup, undo_virtual_loss, roll_back).
THEOREM LossesArePending == Spec => []PenaltyIsPending
<1>1. PenaltyInv => PenaltyIsPending
  <2> SUFFICES ASSUME PenaltyInv PROVE PenaltyIsPending
    OBVIOUS
  <2>1. Shape(tree.pool) /\ Penalty(tree.pool, call.pending)
    BY DEF PenaltyInv, PlayerTypes
  <2> QED BY <2>1, ShapeFacts DEF PenaltyIsPending, Penalty, Waiting, Above
<1> QED BY <1>1, PlayerInv, PTL

\* The engine, the turn and the call keep their types, and a pending leaf is a
\* slot of the pool the engine searches (Player::next_batch, Player::submit).
THEOREM PlayerTypeOK == Spec => []TypeOK
<1>1. PenaltyInv => TypeOK
  <2> SUFFICES ASSUME PenaltyInv PROVE TypeOK
    OBVIOUS
  <2>1. PlayerTypes
    BY DEF PenaltyInv
  <2>2. \A k \in DOMAIN call.pending : call.pending[k] \in DOMAIN tree.pool
    BY <2>1, ShapeFacts, LenProperties, ElementOfSeq DEF PlayerTypes
  <2> QED BY <2>1, <2>2 DEF TypeOK, PlayerTypes, Trees, TurnRecords, CallRecords
<1> QED BY <1>1, PlayerInv, PTL

-----------------------------------------------------------------------------
(* A turn ends whole or not at all *)

\* The stones of the turn in play, on top of the board it started from.
TurnStones ==
    turn.phase # "none" =>
        /\ Len(turn.start) <= Len(board)
        /\ \A i \in 1 .. Len(turn.start) : board[i] = turn.start[i]
        /\ Len(board) = Len(turn.start) + MovesRemaining(turn.start) - turn.left
        /\ turn.phase # "done" => turn.left >= 1
        /\ turn.phase = "done" => turn.left = 0 \/ CheckWin(board)

LEMMA PlaceStones ==
  ASSUME PlayerTypes, TurnStones, NEW c \in Cells, Place(c), turn.phase \in {"start", "drive"}
  PROVE  TurnStones'
<1>1. /\ board' = Append(board, c) /\ turn'.start = turn.start /\ turn'.left = turn.left - 1
      /\ turn'.phase = IF CheckWin(board') \/ turn.left = 1 THEN "done" ELSE "start"
  BY PlaceIs
<1> DEFINE L == Len(board)
           S == Len(turn.start)
           M == MovesRemaining(turn.start)
<1>2. /\ L \in Nat /\ S \in Nat /\ M \in {1, 2} /\ turn.left \in Int
      /\ L + 1 = Len(board') /\ \A i \in 1 .. L : board'[i] = board[i]
  <2>1. board \in Seq(Cells) /\ turn.start \in Seq(Cells) /\ turn.left \in Int
    BY DEF PlayerTypes, TurnRecords
  <2> QED BY <2>1, <1>1, PositionType, AppendProperties, LenProperties
<1>3. /\ S <= L /\ \A i \in 1 .. S : board[i] = turn.start[i]
      /\ L = S + M - turn.left /\ turn.left >= 1
  BY DEF TurnStones
<1> HIDE DEF L, S, M
<1>4. S <= L + 1 /\ L + 1 = S + M - (turn.left - 1)
  BY <1>2, <1>3
<1>5. \A i \in 1 .. S : board'[i] = turn.start[i]
  <2>1. \A i \in 1 .. S : i \in 1 .. L
    BY <1>2, <1>3
  <2> QED BY <2>1, <1>2, <1>3
<1>6. turn'.phase # "done" => turn.left - 1 >= 1
  BY <1>1, <1>2, <1>3
<1>7. turn'.phase = "done" => turn.left - 1 = 0 \/ CheckWin(board')
  BY <1>1, <1>2, <1>3
<1>8. /\ S <= Len(board') /\ Len(board') = S + M - turn'.left
      /\ turn'.phase # "done" => turn'.left >= 1
      /\ turn'.phase = "done" => turn'.left = 0 \/ CheckWin(board')
  BY <1>1, <1>2, <1>4, <1>6, <1>7
<1> HIDE DEF CheckWin
<1>9. CheckWin(board') = CheckWin(board)'
  BY DEF CheckWin, CurrentPlayer, StonesOf, Front, Last
<1> QED BY <1>1, <1>5, <1>8, <1>9 DEF TurnStones, S, M, MovesRemaining

LEMMA InitStones == Init => TurnStones
  BY DEF Init, NoTurn, TurnStones

LEMMA NextStones == PenaltyInv /\ TurnStones /\ [Next]_vars => TurnStones'
<1> SUFFICES ASSUME PenaltyInv, TurnStones, [Next]_vars PROVE TurnStones'
  OBVIOUS
<1>1. /\ PlayerTypes /\ board \in Seq(Cells) /\ turn \in TurnRecords /\ NoTurn.phase = "none"
      /\ tree \in Trees /\ Shape(tree.pool)
  BY RecordTypes DEF PenaltyInv, PlayerTypes
<1>2. CASE turn'.phase = "none"
  BY <1>2 DEF TurnStones
<1>3. CASE UNCHANGED <<board, turn>>
  BY <1>3 DEF TurnStones, CheckWin, MovesRemaining
<1>4. CASE BeginTurn
  <2>1. PICK n \in TurnSims :
          turn' = [NoTurn EXCEPT !.phase = "start", !.start = board, !.sims = n, !.left = MovesRemaining(board)]
    BY <1>4 DEF BeginTurn
  <2>2. turn'.phase = "start" /\ turn'.start = board /\ turn'.left = MovesRemaining(board) /\ board' = board
    BY <2>1, <1>4 DEF NoTurn, BeginTurn
  <2>3. MovesRemaining(board) \in {1, 2} /\ Len(board) \in Nat
    BY <1>1, PositionType, LenProperties
  <2> DEFINE M == MovesRemaining(board)
  <2>4. MovesRemaining(turn'.start) = M
    BY <2>2
  <2> HIDE DEF M
  <2>5. Len(board) = Len(board) + M - M /\ M >= 1
    BY <2>3 DEF M
  <2> QED BY <2>2, <2>4, <2>5 DEF TurnStones, M, MovesRemaining
<1>5. ASSUME NEW c \in Cells, Place(c), turn.phase \in {"start", "drive"} PROVE TurnStones'
  BY <1>1, <1>5, PlaceStones
<1>6. CASE PlaceOrigin
  BY <1>5, <1>6, CellsAssumption DEF PlaceOrigin
<1>7. CASE OffenceStone
  <2>1. PICK c \in Cells : Place(c)
    BY <1>1, <1>7, ProofsType DEF OffenceStone
  <2> QED BY <2>1, <1>5, <1>7 DEF OffenceStone
<1>8. CASE FinishSearched
  <2>1. PICK i \in Children(tree.pool, 1) : Place(tree.pool[i].cell)
    BY <1>8 DEF FinishSearched, Leaders
  <2>2. tree.pool[i].cell \in Cells
    <3>1. i \in 1 .. Len(tree.pool)
      BY <1>1, ShapeFacts DEF Children
    <3> QED BY <1>1, <3>1, ShapeFacts DEF Nodes
  <2> QED BY <2>1, <2>2, <1>5, <1>8 DEF FinishSearched
<1>9. CASE NewGame \/ Play
  BY <1>9, <1>2 DEF NewGame, Play
<1>10. CASE NoRootChildren \/ RefuseOutputs \/ Abort \/ Close
  BY <1>1, <1>10, <1>2 DEF NoRootChildren, RefuseOutputs, Abort, RollBack, Close
<1>11. ASSUME board' = board, turn' = [turn EXCEPT !.phase = "drive", !.done = 0, !.inherited = Inherited(tree')]
              \/ turn' = [turn EXCEPT !.done = @ + call.served + call.unserved],
              turn.phase \in {"start", "drive"}
       PROVE  TurnStones'
  <2>1. turn'.phase \in {"start", "drive"} /\ turn'.start = turn.start /\ turn'.left = turn.left
    BY <1>1, <1>11 DEF TurnRecords
  <2> QED BY <2>1, <1>11 DEF TurnStones, MovesRemaining
<1>12. CASE RootStep
  BY <1>11, <1>12 DEF RootStep
<1>13. CASE Charge
  <2>1. turn.phase = "drive"
    BY <1>13 DEF Charge, PenaltyInv
  <2> QED BY <2>1, <1>11, <1>13 DEF Charge
<1>14. CASE NextBatch \/ Descend \/ Serve \/ ExpandNext \/ Drive \/ Submit \/ UNCHANGED vars
  BY <1>14, <1>3 DEF NextBatch, Descend, Serve, ExpandNext, Drive, Submit, vars
<1> QED
  BY <1>4, <1>6, <1>7, <1>8, <1>9, <1>10, <1>12, <1>13, <1>14 DEF Next

LEMMA StepWhole == PenaltyInv /\ TurnStones /\ [Next]_vars => [WholeOrNothing]_vars
<1> SUFFICES ASSUME PenaltyInv, TurnStones, Next, turn.phase # "none", turn'.phase = "none"
             PROVE  \/ board' = turn.start
                    \/ /\ IsPrefix(turn.start, board')
                       /\ \/ Len(board') = Len(turn.start) + MovesRemaining(turn.start)
                          \/ CheckWin(board')
  BY DEF WholeOrNothing
<1>1. /\ PlayerTypes /\ turn \in TurnRecords /\ board \in Seq(Cells) /\ turn.start \in Seq(Cells)
  BY DEF PenaltyInv, PlayerTypes, TurnRecords
<1>2. CASE NoRootChildren \/ RefuseOutputs \/ Abort
  BY <1>2 DEF NoRootChildren, RefuseOutputs, Abort, RollBack
<1>3. CASE Close
  <2>1. turn.phase = "done" /\ board' = board
    BY <1>3 DEF Close
  <2>2. /\ Len(turn.start) <= Len(board)
        /\ \A i \in 1 .. Len(turn.start) : board[i] = turn.start[i]
        /\ Len(board) = Len(turn.start) + MovesRemaining(turn.start) - turn.left
        /\ turn.left = 0 \/ CheckWin(board)
    BY <2>1 DEF TurnStones
  <2>3. IsPrefix(turn.start, board)
    <3> DEFINE S == Len(turn.start)
    <3>1. /\ S \in Nat /\ Len(board) \in Nat /\ S <= Len(board)
          /\ \A i \in 1 .. S : board[i] = turn.start[i]
      BY <1>1, <2>2, LenProperties
    <3>2. SubSeq(turn.start, 1, S) = SubSeq(board, 1, S)
      <4> HIDE DEF S
      <4>1. /\ SubSeq(turn.start, 1, S) = [i \in 1 .. S |-> turn.start[i]]
            /\ SubSeq(board, 1, S) = [i \in 1 .. S |-> board[i]]
        BY <3>1, <1>1
      <4> QED BY <3>1, <4>1
    <3> QED BY <3>1, <3>2 DEF IsPrefix
  <2>4. Len(turn.start) \in Nat /\ MovesRemaining(turn.start) \in {1, 2}
    BY <1>1, LenProperties, PositionType
  <2>5. turn.left = 0 => Len(board) = Len(turn.start) + MovesRemaining(turn.start)
    <3> DEFINE M == MovesRemaining(turn.start)
    <3> HIDE DEF M
    <3> QED BY <2>2, <2>4 DEF M
  <2> QED BY <2>1, <2>2, <2>3, <2>5
<1>4. \/ NoRootChildren \/ RefuseOutputs \/ Abort \/ Close
  <2>1. ASSUME NEW c \in Cells, Place(c) PROVE FALSE
    BY <1>1, <2>1, PlaceIs
  <2>2. ~(PlaceOrigin)
    BY <2>1, CellsAssumption DEF PlaceOrigin
  <2>3. ~OffenceStone
    <3>1. tree \in Trees
      BY <1>1 DEF PlayerTypes
    <3> QED BY <1>1, <3>1, <2>1, ProofsType DEF OffenceStone
  <2>4. ~FinishSearched
    <3> SUFFICES ASSUME FinishSearched PROVE FALSE
      OBVIOUS
    <3>1. PICK i \in Children(tree.pool, 1) : Place(tree.pool[i].cell)
      BY DEF FinishSearched, Leaders
    <3>2. tree.pool[i].cell \in Cells
      <4>1. i \in 1 .. Len(tree.pool) /\ Shape(tree.pool)
        BY <1>1, ShapeFacts DEF Children, PlayerTypes
      <4> QED BY <4>1, ShapeFacts DEF Nodes
    <3> QED BY <2>1, <3>1, <3>2
  <2>5. ~RootStep /\ ~Charge
    BY <1>1 DEF RootStep, Charge, TurnRecords
  <2>6. ~(NewGame \/ Play \/ BeginTurn)
    BY DEF NewGame, Play, BeginTurn
  <2>7. ~(NextBatch \/ Descend \/ Serve \/ ExpandNext \/ Drive \/ Submit)
    BY DEF NextBatch, Descend, Serve, ExpandNext, Drive, Submit
  <2> QED BY <2>2, <2>3, <2>4, <2>5, <2>6, <2>7 DEF Next
<1> QED BY <1>2, <1>3, <1>4

\* A turn ends with all its stones, with the stone that won, or with the board it
\* began on (Player::place, Player::roll_back).
THEOREM TurnWholeOrNothing == Spec => TurnAllOrNothing
<1>1. Spec => [](PenaltyInv /\ TurnStones)
  <2>1. PenaltyInv /\ [Next]_vars => PenaltyInv'
    BY NextPenalty
  <2> QED BY InitPenalty, InitStones, NextPenalty, NextStones, PTL DEF Spec
<1> QED BY <1>1, StepWhole, PTL DEF Spec, TurnAllOrNothing

-----------------------------------------------------------------------------
(* The tree is of the board searched *)

LEMMA ChildIs ==
  ASSUME NEW pool, Shape(pool), NEW i \in 1 .. Len(pool), NEW c \in Children(pool, i)
  PROVE  c \in 1 .. Len(pool) /\ c # 1 /\ pool[c].parent = i
<1>1. c \in 1 .. Len(pool) /\ pool[i] \in Nodes /\ pool[i].first <= c /\ c < pool[i].first + pool[i].count
  BY ShapeFacts DEF Children
<1>2. c \in pool[i].first .. pool[i].first + pool[i].count - 1
  BY <1>1 DEF Nodes
<1>3. pool[c].parent = i
  BY <1>2 DEF Shape
<1>4. c # 1
  <2>1. pool[c].parent # 0
    BY <1>3
  <2> QED BY <2>1, <1>1 DEF Shape
<1> QED BY <1>1, <1>3, <1>4

\* A child of the root plays a cell its board has empty.
LEMMA ChildCell ==
  ASSUME NEW pool, Shape(pool), NEW root \in Seq(Cells), OnBoards(pool, root), NEW c \in Children(pool, 1)
  PROVE  /\ BoardAt(pool, root, c) = Append(root, pool[c].cell)
         /\ pool[c].cell \in Cells /\ pool[c].cell \notin ToSet(root)
         /\ Distinct(root) /\ Distinct(Append(root, pool[c].cell))
<1>1. 1 \in 1 .. Len(pool) /\ BoardAt(pool, root, 1) = root
  BY BoardUnfolds, ShapeFacts, SMTT(30) DEF Shape
<1>2. c \in 1 .. Len(pool) /\ c # 1 /\ pool[c].parent = 1
  BY <1>1, ChildIs
<1>3. BoardAt(pool, root, c) = Append(root, pool[c].cell)
  BY <1>1, <1>2, BoardUnfolds
<1>4. Distinct(root) /\ Distinct(Append(root, pool[c].cell))
  BY <1>1, <1>2, <1>3 DEF OnBoards
<1>5. pool[c].cell \in Cells
  BY <1>2, ShapeFacts DEF Nodes
<1>6. ASSUME pool[c].cell \in ToSet(root) PROVE FALSE
  <2> DEFINE d == pool[c].cell
  <2>1. ToSet(Append(root, d)) = ToSet(root) \cup {d} /\ Len(Append(root, d)) = Len(root) + 1
    BY <1>5, AppendCells
  <2>2. ToSet(root) \cup {d} = ToSet(root)
    BY <1>6
  <2>3. Len(root) \in Nat
    BY LenProperties
  <2>4. /\ Cardinality(ToSet(Append(root, d))) = Len(Append(root, d))
        /\ Cardinality(ToSet(root)) = Len(root)
    BY <1>4 DEF Distinct
  <2> HIDE DEF d
  <2>5. Len(root) = Len(root) + 1
    BY <2>1, <2>2, <2>4
  <2> QED BY ONLY <2>3, <2>5
<1> QED BY <1>3, <1>4, <1>5, <1>6

LEMMA RerootedBoards ==
  ASSUME tree \in Trees, Shape(tree.pool), OnBoards(tree.pool, tree.root), NEW b \in Seq(Cells), Distinct(b)
  PROVE  /\ OnBoards(Rerooted(b).pool, b)
         /\ \/ Rerooted(b).pool = <<Root(b)>>
            \/ /\ MovesRemaining(tree.root) = 2 /\ MovesRemaining(b) = 1
               /\ \E child \in Children(tree.pool, 1) :
                    Copies(Rerooted(b).pool, tree.pool, child, BreadthFirst(tree.pool, child))
<1>1. CASE Rerooted(b).pool = <<Root(b)>>
  BY <1>1, RootBoard
<1>2. CASE Rerooted(b).pool # <<Root(b)>>
  <2>1. PICK child \in Reaching(tree.pool, tree.root, b) :
          /\ child \in 1 .. Len(tree.pool)
          /\ Copies(Rerooted(b).pool, tree.pool, child, BreadthFirst(tree.pool, child))
    BY <1>2, RerootedIs
  <2> DEFINE on == Append(tree.root, tree.pool[child].cell)
  <2>2. child \in Children(tree.pool, 1) /\ MovesRemaining(tree.root) = 2 /\ Position(on) = Position(b)
    BY <2>1 DEF Reaching
  <2>3. tree.root \in Seq(Cells)
    BY DEF Trees
  <2>4. BoardAt(tree.pool, tree.root, child) = on /\ tree.pool[child].cell \in Cells /\ Distinct(on)
    BY <2>2, <2>3, ChildCell
  <2>5. on \in Seq(Cells) /\ MovesRemaining(on) = 1
    BY <2>2, <2>3, <2>4, AppendCells
  <2> HIDE DEF on
  <2>6. Position(b) = Position(on) /\ Len(b) = Len(on)
    BY <2>2, <2>4, <2>5, SamePosition
  <2>7. MovesRemaining(b) = 1
    BY <2>5, <2>6, SameLength
  <2>8. OnBoards(Rerooted(b).pool, b)
    BY <2>1, <2>3, <2>4, <2>6, BoardsCopied
  <2> QED BY <2>1, <2>2, <2>7, <2>8
<1> QED BY <1>1, <1>2

\* The second stone of a proof is free on the board its first stone makes.
FreeStone(proof) ==
    proof.position # <<>> => proof.stone \notin proof.position[1] \cup proof.position[2]

\* The boards, with what makes them inductive: no cell is played twice, a driven
\* stone's root is the board, and a stored stone is free where it is meant for.
BoardsInv ==
    /\ Distinct(board) /\ Distinct(turn.start)
    /\ turn.phase = "drive" => tree.root = board
    /\ OnBoards(tree.pool, tree.root)
    /\ FreeStone(tree.proof)

LEMMA EmptyDistinct == Distinct(<<>>)
<1>1. ToSet(<<>>) = {}
  BY DEF ToSet
<1> QED BY <1>1, FS_EmptySet DEF Distinct

LEMMA InitBoards == Init => BoardsInv
<1> SUFFICES ASSUME Init PROVE BoardsInv
  OBVIOUS
<1> DEFINE pool == <<Root(<<>>)>>
<1>1. <<>> \in Seq(Cells) /\ Distinct(<<>>)
  BY EmptyDistinct
<1>2. OnBoards(pool, <<>>)
  BY <1>1, RootBoard
<1> HIDE DEF pool
<1>3. tree = [pool |-> pool, root |-> <<>>, table |-> {}, proof |-> NoProof] /\ turn = NoTurn /\ board = <<>>
  BY DEF Init, pool
<1> QED BY <1>1, <1>2, <1>3 DEF BoardsInv, NoTurn, NoProof, FreeStone

\* Nothing the boards depend on changes.
LEMMA BoardsStay ==
  ASSUME BoardsInv, UNCHANGED <<board, tree>>, turn'.start = turn.start,
         turn'.phase = "drive" => turn.phase = "drive"
  PROVE  BoardsInv'
  BY DEF BoardsInv, OnBoards, FreeStone, Distinct, BoardAt, MovesRemaining

LEMMA RollBackBoards == PenaltyInv /\ BoardsInv /\ RollBack => BoardsInv'
<1> SUFFICES ASSUME PenaltyInv, BoardsInv, RollBack PROVE BoardsInv'
  OBVIOUS
<1> DEFINE pool == <<Root(turn.start)>>
<1>1. turn.start \in Seq(Cells) /\ Distinct(turn.start) /\ tree \in Trees /\ FreeStone(tree.proof)
  BY DEF PenaltyInv, PlayerTypes, TurnRecords, BoardsInv
<1>2. OnBoards(pool, turn.start)
  BY <1>1, RootBoard
<1>3. tree'.pool = pool /\ tree'.root = turn.start /\ tree'.proof = tree.proof
  BY <1>1, FreshTreeIs DEF RollBack
<1>4. board' = turn.start /\ turn'.phase = "none" /\ turn'.start = <<>>
  BY DEF RollBack, NoTurn
<1> HIDE DEF pool
<1> QED BY <1>1, <1>2, <1>3, <1>4, EmptyDistinct
       DEF BoardsInv, OnBoards, FreeStone, Distinct, BoardAt, MovesRemaining

LEMMA ProofsFree ==
  ASSUME tree \in Trees, board \in Seq(Cells), FreeStone(tree.proof)
  PROVE  /\ FreeStone(ProofAfter)
         /\ Stored => tree.proof.stone \notin ToSet(board)
         /\ Proof(Position(board)) # <<>> => Head(Proof(Position(board))) \notin ToSet(board)
<1> DEFINE p == Position(board)
           proof == Proof(p)
<1>1. p \in Positions /\ ToSet(board) = p[1] \cup p[2] /\ p # <<>>
  <2>1. p \in Positions /\ ToSet(board) = p[1] \cup p[2]
    BY PositionType, CellsOf
  <2>2. p # <<>>
    BY DEF Position
  <2> QED BY <2>1, <2>2
<1> HIDE DEF p
<1>2. /\ proof \in Seq(Cells \ ToSet(board))
      /\ \A i, j \in DOMAIN proof : proof[i] = proof[j] => i = j
  BY <1>1, ProofAssumption
<1> HIDE DEF proof
<1>3. Stored => tree.proof.stone \notin ToSet(board)
  BY <1>1 DEF Stored, FreeStone, p
<1>4. proof # <<>> => Head(proof) \notin ToSet(board)
  BY <1>2
<1>5. FreeStone(ProofAfter)
  <2>1. CASE ~Stored /\ MovesRemaining(board) = 2 /\ Len(proof) = 2
    <3> DEFINE after == Append(board, proof[1])
    <3>1. /\ proof[1] \in Cells /\ proof[2] \in Cells /\ proof[2] \notin ToSet(board)
          /\ proof[1] # proof[2]
      <4>1. 1 \in 1 .. Len(proof) /\ 2 \in 1 .. Len(proof) /\ DOMAIN proof = 1 .. Len(proof)
        BY <2>1, <1>2, LenProperties
      <4>2. proof[1] \in Cells \ ToSet(board) /\ proof[2] \in Cells \ ToSet(board)
        BY <1>2, <4>1, ElementOfSeq
      <4>3. proof[1] = proof[2] => 1 = 2
        BY <1>2, <4>1
      <4> QED BY <4>2, <4>3
    <3>2. after \in Seq(Cells) /\ ToSet(after) = ToSet(board) \cup {proof[1]}
      BY <3>1, AppendCells
    <3>3. ToSet(after) = Position(after)[1] \cup Position(after)[2]
      BY <3>2, CellsOf
    <3>4. ProofAfter = [position |-> Position(after), stone |-> proof[2]]
      BY <2>1 DEF ProofAfter, proof, p
    <3> HIDE DEF after
    <3> QED BY <3>1, <3>2, <3>3, <3>4 DEF FreeStone
  <2>2. CASE ~(~Stored /\ MovesRemaining(board) = 2 /\ Len(proof) = 2)
    <3>1. ProofAfter = NoProof
      BY <2>2 DEF ProofAfter, proof, p
    <3> QED BY <3>1 DEF FreeStone, NoProof
  <2> QED BY <2>1, <2>2
<1> QED BY <1>3, <1>4, <1>5 DEF proof, p

\* A stone on an empty cell, with the tree as it was or re-rooted.
LEMMA PlaceBoards ==
  ASSUME PenaltyInv, BoardsInv, NEW c \in Cells, c \notin ToSet(board), Place(c),
         tree' = tree \/ (tree' = [Rerooted(board) EXCEPT !.proof = ProofAfter])
  PROVE  BoardsInv'
<1>1. /\ PlayerTypes /\ board \in Seq(Cells) /\ tree \in Trees /\ Shape(tree.pool)
      /\ Distinct(board) /\ OnBoards(tree.pool, tree.root) /\ FreeStone(tree.proof)
  BY DEF PenaltyInv, PlayerTypes, BoardsInv
<1>2. /\ board' = Append(board, c) /\ turn'.start = turn.start /\ turn'.phase # "drive"
  BY <1>1, PlaceIs
<1>3. Distinct(board')
  BY <1>1, <1>2, AppendCells
<1>4. OnBoards(tree'.pool, tree'.root) /\ FreeStone(tree'.proof)
  <2>1. CASE tree' = tree
    BY <1>1, <2>1
  <2>2. CASE tree' = [Rerooted(board) EXCEPT !.proof = ProofAfter]
    <3>1. Rerooted(board) \in Trees /\ Rerooted(board).root = board
      BY <1>1, RerootedIs
    <3>2. tree'.pool = Rerooted(board).pool /\ tree'.root = board /\ tree'.proof = ProofAfter
      BY <2>2, <3>1 DEF Trees
    <3>3. OnBoards(Rerooted(board).pool, board)
      BY <1>1, RerootedBoards
    <3> QED BY <1>1, <3>2, <3>3, ProofsFree
  <2> QED BY <2>1, <2>2
<1>5. OnBoards(tree.pool, tree.root)' = OnBoards(tree'.pool, tree'.root) /\ FreeStone(tree.proof)' = FreeStone(tree'.proof)
      /\ Distinct(board)' = Distinct(board') /\ Distinct(turn.start)' = Distinct(turn'.start)
  BY DEF OnBoards, BoardAt, Distinct, MovesRemaining, FreeStone
<1> QED BY <1>2, <1>3, <1>4, <1>5 DEF BoardsInv

LEMMA StoneBoards == PenaltyInv /\ BoardsInv /\ (PlaceOrigin \/ OffenceStone \/ FinishSearched) => BoardsInv'
<1> SUFFICES ASSUME PenaltyInv, BoardsInv, PlaceOrigin \/ OffenceStone \/ FinishSearched PROVE BoardsInv'
  OBVIOUS
<1>1. /\ tree \in Trees /\ Shape(tree.pool) /\ board \in Seq(Cells) /\ tree.root \in Seq(Cells)
      /\ OnBoards(tree.pool, tree.root) /\ FreeStone(tree.proof)
  BY DEF PenaltyInv, PlayerTypes, BoardsInv, Trees
<1>2. CASE PlaceOrigin
  <2>1. Place(Origin) /\ tree' = tree /\ board = <<>>
    BY <1>2 DEF PlaceOrigin
  <2>2. Origin \notin ToSet(board)
    BY <2>1 DEF ToSet
  <2> QED BY <2>1, <2>2, CellsAssumption, PlaceBoards
<1>3. CASE OffenceStone
  <2>1. PICK c \in Cells : Place(c) /\ c \notin ToSet(board)
    BY <1>1, <1>3, ProofsType, ProofsFree DEF OffenceStone
  <2>2. tree' = [Rerooted(board) EXCEPT !.proof = ProofAfter]
    BY <1>3 DEF OffenceStone
  <2> QED BY <2>1, <2>2, PlaceBoards
<1>4. CASE FinishSearched
  <2>1. PICK i \in Children(tree.pool, 1) : Place(tree.pool[i].cell)
    BY <1>4 DEF FinishSearched, Leaders
  <2>2. tree.root = board /\ tree' = tree
    BY <1>4 DEF FinishSearched, BoardsInv
  <2>3. tree.pool[i].cell \in Cells /\ tree.pool[i].cell \notin ToSet(board)
    BY <1>1, <2>1, <2>2, ChildCell
  <2> QED BY <2>1, <2>2, <2>3, PlaceBoards
<1> QED BY <1>2, <1>3, <1>4

LEMMA HostBoards ==
  PenaltyInv /\ BoardsInv /\ (NewGame \/ Play \/ BeginTurn \/ NextBatch \/ Abort \/ RefuseOutputs \/ Close)
    => BoardsInv'
<1> SUFFICES ASSUME PenaltyInv, BoardsInv,
                    NewGame \/ Play \/ BeginTurn \/ NextBatch \/ Abort \/ RefuseOutputs \/ Close
             PROVE  BoardsInv'
  OBVIOUS
<1>1. board \in Seq(Cells) /\ Distinct(board) /\ turn \in TurnRecords
  BY DEF PenaltyInv, PlayerTypes, BoardsInv
<1>2. CASE NewGame
  <2> DEFINE pool == <<Root(<<>>)>>
  <2>1. OnBoards(pool, <<>>)
    <3>1. <<>> \in Seq(Cells)
      OBVIOUS
    <3> QED BY <3>1, EmptyDistinct, RootBoard
  <2> HIDE DEF pool
  <2>2. tree' = [pool |-> pool, root |-> <<>>, table |-> {}, proof |-> NoProof]
        /\ turn' = turn /\ turn.phase = "none" /\ board' \in Openings
    BY <1>2 DEF NewGame, pool
  <2>3. Distinct(board')
    BY <2>2, OpeningsAssumption DEF Distinct
  <2>4. /\ tree'.pool = pool /\ tree'.root = <<>> /\ tree'.proof.position = <<>>
        /\ turn'.phase = "none" /\ turn'.start = turn.start
    BY <2>2 DEF NoProof
  <2> QED BY <2>1, <2>3, <2>4 DEF BoardsInv, OnBoards, FreeStone, Distinct, BoardAt, MovesRemaining
<1>3. CASE Play
  <2>1. PICK a \in LegalMoves(board) :
          board' = Append(board, a) \/ \E b \in LegalMoves(board) \ {a} : board' = board \o <<a, b>>
    BY <1>3 DEF Play
  <2>2. a \in Cells /\ a \notin ToSet(board)
    BY DEF LegalMoves
  <2>3. /\ Append(board, a) \in Seq(Cells) /\ Distinct(Append(board, a))
        /\ ToSet(Append(board, a)) = ToSet(board) \cup {a}
    BY <1>1, <2>2, AppendCells
  <2>4. ASSUME NEW b \in LegalMoves(board) \ {a} PROVE Distinct(board \o <<a, b>>)
    <3>1. b \in Cells /\ b \notin ToSet(Append(board, a))
      BY <2>3 DEF LegalMoves
    <3>2. Distinct(Append(Append(board, a), b))
      BY <2>3, <3>1, AppendCells
    <3>3. board \o <<a, b>> = Append(Append(board, a), b)
      BY <1>1, <2>2, <3>1
    <3> QED BY <3>2, <3>3
  <2>5. Distinct(board')
    BY <2>1, <2>3, <2>4
  <2>6. tree' = tree /\ turn' = turn /\ turn.phase = "none"
    BY <1>3 DEF Play
  <2> QED BY <2>5, <2>6 DEF BoardsInv, OnBoards, FreeStone, Distinct, BoardAt, MovesRemaining
<1>4. CASE BeginTurn
  <2>1. tree' = tree /\ board' = board /\ turn'.start = board /\ turn'.phase = "start"
    BY <1>4 DEF BeginTurn, NoTurn
  <2> QED BY <1>1, <2>1 DEF BoardsInv, OnBoards, FreeStone, Distinct, BoardAt, MovesRemaining
<1>5. CASE NextBatch
  BY <1>5, BoardsStay DEF NextBatch
<1>6. CASE Close
  <2>1. tree' = tree /\ board' = board /\ turn'.start = <<>> /\ turn'.phase = "none"
    BY <1>6 DEF Close, NoTurn
  <2> QED BY <2>1, EmptyDistinct DEF BoardsInv, OnBoards, FreeStone, Distinct, BoardAt, MovesRemaining
<1>7. CASE Abort \/ RefuseOutputs
  BY <1>7, RollBackBoards DEF Abort, RefuseOutputs
<1> QED BY <1>2, <1>3, <1>4, <1>5, <1>6, <1>7

\* The pool's operations, on the boards: a select call, its expansions, its charge.
LEMMA PoolBoards ==
  ASSUME BoardsInv, NEW pool, OnBoards(pool, tree.root), tree'.pool = pool, tree'.root = tree.root,
         tree'.proof = tree.proof, board' = board, turn'.start = turn.start,
         turn'.phase = "drive" => turn.phase = "drive"
  PROVE  BoardsInv'
  BY DEF BoardsInv, OnBoards, FreeStone, Distinct, BoardAt, MovesRemaining

LEMMA CallBoards ==
  PenaltyInv /\ BoardsInv /\ (RootStep \/ Descend \/ Serve \/ Submit \/ ExpandNext \/ Charge \/ Drive) => BoardsInv'
<1> SUFFICES ASSUME PenaltyInv, BoardsInv, RootStep \/ Descend \/ Serve \/ Submit \/ ExpandNext \/ Charge \/ Drive
             PROVE  BoardsInv'
  OBVIOUS
<1>1. /\ tree \in Trees /\ Shape(tree.pool) /\ board \in Seq(Cells) /\ tree.root \in Seq(Cells)
      /\ OnBoards(tree.pool, tree.root) /\ FreeStone(tree.proof) /\ Distinct(board)
      /\ turn \in TurnRecords
  BY DEF PenaltyInv, PlayerTypes, BoardsInv, Trees
<1>2. CASE RootStep
  <2> DEFINE new == Rerooted(board)
  <2>1. new \in Trees /\ new.root = board /\ new.proof = tree.proof /\ OnBoards(new.pool, board)
    BY <1>1, RerootedIs, RerootedBoards
  <2>2. tree' = [new EXCEPT !.proof = IF armed THEN NoProof ELSE @]
    BY <1>2 DEF RootStep
  <2> HIDE DEF new
  <2>3. tree'.pool = new.pool /\ tree'.root = board /\ tree'.proof \in {NoProof, tree.proof}
    BY <2>1, <2>2 DEF Trees
  <2>4. FreeStone(tree'.proof)
    BY <1>1, <2>3 DEF FreeStone, NoProof
  <2>5. board' = board /\ turn'.start = turn.start
    BY <1>1, <1>2 DEF RootStep, TurnRecords
  <2> QED BY <2>1, <2>3, <2>4, <2>5 DEF BoardsInv, OnBoards, FreeStone, Distinct, BoardAt, MovesRemaining
<1>3. CASE Descend
  <2>1. PICK leaf \in 1 .. Len(tree.pool) :
          LET mid == ApplyVirtualLoss(tree.pool, leaf)
          IN  \/ Overlap(leaf)
              \/ \E new :
                  /\ Backed(new, mid, leaf) /\ Grown(new, mid, leaf, BoardAt(tree.pool, tree.root, leaf))
                  /\ Inline(new)
              \/ tree' = [tree EXCEPT !.pool = mid]
    BY <1>3, DescendIs
  <2> DEFINE mid == ApplyVirtualLoss(tree.pool, leaf)
             undone == UndoVirtualLoss(mid, leaf)
  <2>2. SameLinks(mid, tree.pool) /\ OnBoards(mid, tree.root)
        /\ BoardAt(mid, tree.root, leaf) = BoardAt(tree.pool, tree.root, leaf)
    <3>1. SameLinks(mid, tree.pool)
      BY <1>1, ApplyIs
    <3> HIDE DEF mid
    <3> QED BY <1>1, <3>1, BoardsSame
  <2>3. OnBoards(undone, tree.root)
    <3>1. Shape(mid) /\ leaf \in 1 .. Len(mid)
      <4> HIDE DEF mid
      <4> QED BY <1>1, <2>2, SameLinksShape DEF SameLinks
    <3>2. SameLinks(undone, mid)
      BY <3>1, UndoIs
    <3> HIDE DEF mid, undone
    <3> QED BY <3>1, <3>2, <2>2, BoardsSame
  <2>4. UNCHANGED <<board, turn>>
    BY <1>3 DEF Descend
  <2>5. \E pool : OnBoards(pool, tree.root) /\ tree' = [tree EXCEPT !.pool = pool]
    <3>1. CASE Overlap(leaf)
      <4>1. tree' = [tree EXCEPT !.pool = undone]
        BY <1>1, <3>1 DEF Overlap, Trees
      <4> HIDE DEF undone
      <4> QED BY <2>3, <4>1
    <3>2. ASSUME NEW new, Backed(new, mid, leaf), Grown(new, mid, leaf, BoardAt(tree.pool, tree.root, leaf)),
                 Inline(new)
          PROVE  \E pool : OnBoards(pool, tree.root) /\ tree' = [tree EXCEPT !.pool = pool]
      <4> HIDE DEF mid
      <4>1. Shape(mid) /\ leaf \in 1 .. Len(mid)
        BY <1>1, <2>2, SameLinksShape DEF SameLinks
      <4>2. OnBoards(new, tree.root)
        BY <1>1, <2>2, <3>2, <4>1, BoardsGrow
      <4> QED BY <3>2, <4>2 DEF Inline
    <3>3. CASE tree' = [tree EXCEPT !.pool = mid]
      <4> HIDE DEF mid
      <4> QED BY <2>2, <3>3
    <3> QED BY <2>1, <3>1, <3>2, <3>3
  <2>6. PICK pool : OnBoards(pool, tree.root) /\ tree' = [tree EXCEPT !.pool = pool]
    BY <2>5
  <2>7. tree'.pool = pool /\ tree'.root = tree.root /\ tree'.proof = tree.proof
    BY <1>1, <2>6 DEF Trees
  <2> QED BY <2>4, <2>6, <2>7, PoolBoards
<1>4. CASE ExpandNext
  <2>1. PICK new :
          /\ Backed(new, tree.pool, Head(call.pending)) /\ Head(call.pending) \in 1 .. Len(tree.pool)
          /\ Grown(new, tree.pool, Head(call.pending), BoardAt(tree.pool, tree.root, Head(call.pending)))
          /\ tree'.pool = new /\ tree'.root = tree.root /\ tree'.proof = tree.proof
    BY <1>4, ExpandNextIs
  <2>2. OnBoards(new, tree.root)
    BY <1>1, <2>1, BoardsGrow
  <2>3. UNCHANGED <<board, turn>>
    BY <1>4 DEF ExpandNext
  <2> QED BY <2>1, <2>2, <2>3, PoolBoards
<1>5. CASE Serve \/ Submit \/ Drive
  BY <1>5, BoardsStay DEF Serve, Submit, Drive
<1>6. CASE Charge
  <2>1. turn'.start = turn.start /\ turn'.phase = turn.phase /\ UNCHANGED <<board, tree>>
    BY <1>1, <1>6 DEF Charge, TurnRecords
  <2> QED BY <2>1, BoardsStay
<1> QED BY <1>2, <1>3, <1>4, <1>5, <1>6

LEMMA NextBoards == PenaltyInv /\ BoardsInv /\ [Next]_vars => BoardsInv'
<1> SUFFICES ASSUME PenaltyInv, BoardsInv, [Next]_vars PROVE BoardsInv'
  OBVIOUS
<1>1. CASE UNCHANGED vars
  BY <1>1, BoardsStay DEF vars
<1>2. CASE NoRootChildren
  BY <1>2, RollBackBoards DEF NoRootChildren
<1> QED BY <1>1, <1>2, StoneBoards, HostBoards, CallBoards DEF Next

-----------------------------------------------------------------------------
(* The pool's size and the root's visits *)

LEMMA AboveRoot ==
  ASSUME NEW pool, Shape(pool)
  PROVE  /\ \A i \in 1 .. Len(pool) : 1 \in Above(pool, i) /\ Above(pool, i) \subseteq 1 .. i
         /\ \A i \in 1 .. Len(pool) : \A k \in Above(pool, i) : k # 1 => pool[k].parent \in Above(pool, i)
<1> DEFINE N == Len(pool)
           Good(i) == /\ 1 \in Above(pool, i)
                      /\ \A k \in Above(pool, i) : k # 1 => pool[k].parent \in Above(pool, i)
           Bad == {i \in 1 .. N : ~Good(i)}
<1>1. /\ N \in Nat /\ \A i \in 1 .. N : pool[i].parent \in 0 .. i - 1 /\ (pool[i].parent = 0 <=> i = 1)
      /\ Above(pool, 0) = {}
      /\ \A i \in 1 .. N : Above(pool, i) = Above(pool, pool[i].parent) \cup {i} /\ Above(pool, i) \subseteq 1 .. i
  BY ShapeFacts, AboveUnfolds DEF Shape
<1>2. Bad = {}
  <2> SUFFICES ASSUME Bad # {} PROVE FALSE
    OBVIOUS
  <2>1. PICK i \in Bad : \A m \in Bad : i <= m
    <3>1. Bad \subseteq Nat
      OBVIOUS
    <3> HIDE DEF Bad
    <3> QED BY <3>1, NatLeast
  <2>2. i \in 1 .. N
    OBVIOUS
  <2>3. CASE i = 1
    <3>1. Above(pool, i) = {1}
      BY <1>1, <2>2, <2>3
    <3>2. Good(i)
      BY <3>1
    <3> QED BY <3>2
  <2>4. CASE i # 1
    <3> DEFINE p == pool[i].parent
    <3>1. p \in 1 .. N /\ p < i
      BY <1>1, <2>2, <2>4
    <3>2. Good(p)
      <4>1. ~(i <= p)
        BY <1>1, <2>2, <3>1
      <4>2. p \notin Bad
        <5> HIDE DEF Bad, p
        <5> QED BY <2>1, <4>1
      <4> HIDE DEF p, Good
      <4> QED BY <3>1, <4>2
    <3>3. p \in Above(pool, p) /\ Above(pool, i) = Above(pool, p) \cup {i}
      BY <1>1, <2>2, <3>1
    <3>4. Good(i)
      BY <3>2, <3>3
    <3> QED BY <3>4
  <2> QED BY <2>3, <2>4
<1>3. \A i \in 1 .. N : Good(i)
  <2> HIDE DEF Good
  <2> QED BY <1>2
<1> QED BY <1>1, <1>3

\* The slots at or below i that an evaluation gave children.
Grew(pool, i) == {j \in 1 .. Len(pool) : pool[j].first # 0 /\ i \in Above(pool, j)}

\* Every expansion below a slot was a visit to it, and every visit to a slot was
\* one to its parent.
PoolCounts(pool) ==
    \A i \in 1 .. Len(pool) :
        /\ Cardinality(Grew(pool, i)) <= pool[i].n
        /\ i # 1 => pool[i].n <= pool[pool[i].parent].n

LEMMA GrewFinite ==
  ASSUME NEW pool, Shape(pool), NEW i
  PROVE  IsFiniteSet(Grew(pool, i)) /\ Cardinality(Grew(pool, i)) \in Nat
<1>1. Len(pool) \in Int
  BY ShapeFacts
<1>2. IsFiniteSet(1 .. Len(pool))
  BY <1>1, FS_Interval
<1>3. Grew(pool, i) \subseteq 1 .. Len(pool)
  BY DEF Grew
<1> QED BY <1>2, <1>3, FS_Subset, FS_CardinalityType

LEMMA FreshCounts ==
  ASSUME NEW b \in Seq(Cells)
  PROVE  PoolCounts(<<Root(b)>>) /\ <<Root(b)>>[1].n = 0
<1> DEFINE r == Root(b)
           pool == <<r>>
<1>1. r.n = 0 /\ r.first = 0
  BY DEF Root, Node
<1>2. Len(pool) = 1 /\ pool[1] = r
  BY FreshPool
<1> HIDE DEF r, pool
<1>3. Grew(pool, 1) = {}
  BY <1>1, <1>2 DEF Grew
<1>4. Cardinality(Grew(pool, 1)) = 0
  BY <1>3, FS_EmptySet
<1> QED BY <1>1, <1>2, <1>4 DEF PoolCounts, r, pool

LEMMA CountsSame ==
  ASSUME NEW pool, Shape(pool), PoolCounts(pool), NEW new, SameLinks(new, pool),
         \A i \in 1 .. Len(pool) : new[i].n = pool[i].n
  PROVE  PoolCounts(new)
<1>1. \A i \in 1 .. Len(pool) : Above(new, i) = Above(pool, i)
  BY SameAbove
<1>2. Len(new) = Len(pool)
      /\ \A i \in 1 .. Len(pool) : new[i].first = pool[i].first /\ new[i].parent = pool[i].parent
  BY DEF SameLinks
<1>3. \A i : Grew(new, i) = Grew(pool, i)
  BY <1>1, <1>2 DEF Grew
<1>4. \A i \in 1 .. Len(pool) : i # 1 => pool[i].parent \in 1 .. Len(pool)
  BY ShapeFacts DEF Shape
<1> QED BY <1>2, <1>3, <1>4 DEF PoolCounts

LEMMA CountsBacked ==
  ASSUME NEW pool, Shape(pool), PoolCounts(pool), NEW leaf \in 1 .. Len(pool), NEW new, Backed(new, pool, leaf)
  PROVE  PoolCounts(new) /\ new[1].n = pool[1].n + 1
<1> DEFINE N == Len(pool)
           M == Len(new)
           up(i) == IF i \in Above(pool, leaf) THEN 1 ELSE 0
<1>1. /\ N \in Nat /\ N >= 1 /\ M \in Nat /\ M >= N /\ Shape(new)
      /\ \A i \in 1 .. N : pool[i] \in Nodes /\ pool[i].n \in Nat
  <2>1. Shape(new) /\ M \in Nat
    BY BackedShape
  <2> QED BY <2>1, ShapeFacts DEF Backed, Nodes, Shape
<1>2. \A k \in 1 .. N : Above(new, k) = Above(pool, k)
  BY BackedAbove
<1>3. \A i \in 1 .. N : new[i].n = pool[i].n + up(i) /\ new[i].parent = pool[i].parent
  BY DEF Backed
<1>4. \A i \in 1 .. N : i # leaf => new[i].first = pool[i].first
  BY DEF Backed
<1>5. M # N => pool[leaf].first = 0
  BY DEF Backed
<1>6. \A i \in N + 1 .. M : new[i].parent = leaf /\ new[i].first = 0 /\ new[i].n = 0
  BY <1>1 DEF Backed
<1>7. M = N => new[leaf].first = pool[leaf].first
  BY DEF Backed
<1>8. \A i \in 1 .. M : i \in 1 .. N \/ i \in N + 1 .. M
  BY <1>1
<1> HIDE DEF N, M
<1>9. leaf \in 1 .. N
  BY DEF N
<1>10. ASSUME NEW i \in 1 .. N
       PROVE  Grew(new, i) \subseteq Grew(pool, i) \cup (IF i \in Above(pool, leaf) THEN {leaf} ELSE {})
  <2> SUFFICES ASSUME NEW j \in Grew(new, i)
               PROVE  j \in Grew(pool, i) \cup (IF i \in Above(pool, leaf) THEN {leaf} ELSE {})
    OBVIOUS
  <2>1. j \in 1 .. M /\ new[j].first # 0 /\ i \in Above(new, j)
    BY DEF Grew, M
  <2>2. j \in 1 .. N
    BY <2>1, <1>6, <1>8
  <2>3. i \in Above(pool, j)
    BY <2>1, <2>2, <1>2
  <2>4. CASE j = leaf
    BY <2>3, <2>4
  <2>5. CASE j # leaf
    BY <2>1, <2>2, <2>3, <2>5, <1>4 DEF Grew, N
  <2> QED BY <2>4, <2>5
<1>11. ASSUME NEW i \in 1 .. N PROVE Cardinality(Grew(new, i)) <= new[i].n
  <2>1. /\ IsFiniteSet(Grew(pool, i)) /\ Cardinality(Grew(pool, i)) \in Nat
        /\ IsFiniteSet(Grew(new, i)) /\ Cardinality(Grew(new, i)) \in Nat
    BY <1>1, GrewFinite
  <2>2. Cardinality(Grew(pool, i)) <= pool[i].n
    BY DEF PoolCounts, N
  <2>3. CASE i \in Above(pool, leaf)
    <3>1. Grew(new, i) \subseteq Grew(pool, i) \cup {leaf}
      BY <1>10, <2>3
    <3>2. IsFiniteSet(Grew(pool, i) \cup {leaf})
          /\ Cardinality(Grew(pool, i) \cup {leaf}) <= Cardinality(Grew(pool, i)) + 1
          /\ Cardinality(Grew(pool, i) \cup {leaf}) \in Nat
      <4>1. IsFiniteSet(Grew(pool, i) \cup {leaf})
        BY <2>1, FS_AddElement
      <4>2. Cardinality(Grew(pool, i) \cup {leaf}) \in
              {Cardinality(Grew(pool, i)), Cardinality(Grew(pool, i)) + 1}
        BY <2>1, FS_AddElement
      <4> QED BY <2>1, <4>1, <4>2
    <3>3. Cardinality(Grew(new, i)) <= Cardinality(Grew(pool, i) \cup {leaf})
      BY <3>1, <3>2, FS_Subset
    <3>4. new[i].n = pool[i].n + 1
      BY <1>3, <2>3
    <3> QED BY <1>1, <2>1, <2>2, <3>2, <3>3, <3>4
  <2>4. CASE i \notin Above(pool, leaf)
    <3>1. Grew(new, i) \subseteq Grew(pool, i)
      BY <1>10, <2>4
    <3>2. Cardinality(Grew(new, i)) <= Cardinality(Grew(pool, i))
      BY <2>1, <3>1, FS_Subset
    <3>3. new[i].n = pool[i].n
      BY <1>1, <1>3, <2>4
    <3> QED BY <1>1, <2>1, <2>2, <3>2, <3>3
  <2> QED BY <2>3, <2>4
<1>12. ASSUME NEW i \in 1 .. N, i # 1 PROVE new[i].n <= new[new[i].parent].n
  <2> DEFINE p == pool[i].parent
  <2>1. p \in 1 .. N /\ new[i].parent = p
    <3>1. p \in 0 .. i - 1 /\ p # 0
      BY <1>12 DEF Shape, N
    <3>2. new[i].parent = p
      BY <1>3
    <3> HIDE DEF p
    <3> QED BY <3>1, <3>2, <1>1
  <2>2. pool[i].n <= pool[p].n
    BY <1>12 DEF PoolCounts, N
  <2>3. i \in Above(pool, leaf) => p \in Above(pool, leaf)
    BY <1>12, AboveRoot
  <2> HIDE DEF p
  <2>4. new[i].n = pool[i].n + up(i) /\ new[p].n = pool[p].n + up(p)
    BY <1>3, <2>1
  <2>5. pool[i].n \in Nat /\ pool[p].n \in Nat
    BY <1>1, <2>1
  <2>6. up(i) <= up(p) /\ up(i) \in Nat /\ up(p) \in Nat
    BY <2>3
  <2> HIDE DEF up
  <2> QED BY <2>1, <2>2, <2>4, <2>5, <2>6, SMTT(30)
<1>13. ASSUME NEW i \in N + 1 .. M PROVE Cardinality(Grew(new, i)) <= new[i].n /\ new[i].n <= new[new[i].parent].n
  <2>1. new[i].n = 0 /\ new[i].parent = leaf
    BY <1>6
  <2>2. Grew(new, i) = {}
    <3> SUFFICES ASSUME NEW j \in Grew(new, i) PROVE FALSE
      OBVIOUS
    <3>1. j \in 1 .. M /\ new[j].first # 0 /\ i \in Above(new, j)
      BY DEF Grew, M
    <3>2. j \in 1 .. N
      BY <3>1, <1>6, <1>8
    <3>3. Above(new, j) \subseteq 1 .. j
      <4>1. Above(pool, j) \subseteq 1 .. j
        BY <3>2, AboveRoot DEF N
      <4> QED BY <4>1, <3>2, <1>2
    <3> QED BY <3>1, <3>2, <3>3, <1>1
  <2>3. new[leaf].n \in Nat
    <3>1. new[leaf] \in Nodes
      BY <1>1, <1>9, ShapeFacts DEF M
    <3> QED BY <3>1 DEF Nodes
  <2> QED BY <2>1, <2>2, <2>3, FS_EmptySet
<1>14. new[1].n = pool[1].n + 1
  <2>1. 1 \in 1 .. N /\ 1 \in Above(pool, leaf)
    BY <1>1, AboveRoot
  <2> QED BY <2>1, <1>3
<1> QED BY <1>8, <1>11, <1>12, <1>13, <1>14 DEF PoolCounts, N, M

LEMMA CountsCopied ==
  ASSUME NEW pool, Shape(pool), PoolCounts(pool), NEW child, NEW new, NEW order, Copies(new, pool, child, order)
  PROVE  PoolCounts(new) /\ new[1].n = pool[child].n
<1> DEFINE L == Len(new)
           Good(m) == \A k \in Above(new, m) : order[k] \in Above(pool, order[m])
           Bad == {m \in 1 .. L : ~Good(m)}
<1>1. Shape(new) /\ L \in Nat /\ L >= 1 /\ Len(order) = L /\ order[1] = child
  <2>1. Shape(new)
    BY SubtreeShape
  <2> QED BY <2>1, ShapeFacts DEF Copies, Shape
<1>2. \A k \in 1 .. L : order[k] \in 1 .. Len(pool)
  BY <1>1, ElementOfSeq DEF Copies
<1>3. /\ \A j, k \in 1 .. L : order[j] = order[k] => j = k
      /\ \A k \in 1 .. L :
          /\ new[k].n = pool[order[k]].n
          /\ pool[order[k]].first = 0 => new[k].first = 0
          /\ k # 1 => new[k].parent \in 1 .. k - 1 /\ order[new[k].parent] = pool[order[k]].parent
  BY <1>1 DEF Copies
<1>4. /\ \A m \in 1 .. L : Above(new, m) = Above(new, new[m].parent) \cup {m} /\ Above(new, m) \subseteq 1 .. m
      /\ \A i \in 1 .. Len(pool) : Above(pool, i) = Above(pool, pool[i].parent) \cup {i}
      /\ Above(new, 0) = {} /\ new[1].parent = 0
  <2>1. /\ \A m \in 1 .. L : Above(new, m) = Above(new, new[m].parent) \cup {m} /\ Above(new, m) \subseteq 1 .. m
        /\ Above(new, 0) = {}
    BY <1>1, ShapeFacts, AboveUnfolds
  <2>2. \A i \in 1 .. Len(pool) : Above(pool, i) = Above(pool, pool[i].parent) \cup {i}
    BY ShapeFacts, AboveUnfolds
  <2> QED BY <1>1, <2>1, <2>2 DEF Shape
<1> HIDE DEF L
<1>5. Bad = {}
  <2> SUFFICES ASSUME Bad # {} PROVE FALSE
    OBVIOUS
  <2>1. PICK m \in Bad : \A k \in Bad : m <= k
    <3>1. Bad \subseteq Nat
      BY <1>1
    <3> HIDE DEF Bad
    <3> QED BY <3>1, NatLeast
  <2>2. m \in 1 .. L /\ ~Good(m)
    OBVIOUS
  <2>3. order[m] \in Above(pool, order[m])
    BY <1>2, <1>4, <2>2
  <2>4. CASE m = 1
    <3>1. Above(new, m) = {m}
      BY <1>4, <2>2, <2>4
    <3> QED BY <2>2, <2>3, <3>1
  <2>5. CASE m # 1
    <3> DEFINE p == new[m].parent
    <3>1. p \in 1 .. L /\ p < m /\ order[p] = pool[order[m]].parent
      BY <1>1, <1>3, <2>2, <2>5
    <3>2. Good(p)
      <4>1. ~(m <= p)
        BY <1>1, <2>2, <3>1
      <4>2. p \notin Bad
        <5> HIDE DEF Bad, p
        <5> QED BY <2>1, <4>1
      <4> HIDE DEF p, Good
      <4> QED BY <3>1, <4>2
    <3>3. Above(pool, order[m]) = Above(pool, order[p]) \cup {order[m]} /\ Above(new, m) = Above(new, p) \cup {m}
      BY <1>2, <1>4, <2>2, <3>1
    <3>4. Good(m)
      BY <3>2, <3>3
    <3> QED BY <2>2, <3>4
  <2> QED BY <2>4, <2>5
<1>6. \A m \in 1 .. L : Good(m)
  <2> HIDE DEF Good
  <2> QED BY <1>5
<1>7. ASSUME NEW i \in 1 .. L PROVE Cardinality(Grew(new, i)) <= new[i].n
  <2> DEFINE f == [j \in Grew(new, i) |-> order[j]]
  <2>1. \A j \in Grew(new, i) : j \in 1 .. L /\ order[j] \in Grew(pool, order[i])
    <3> TAKE j \in Grew(new, i)
    <3>1. j \in 1 .. L /\ new[j].first # 0 /\ i \in Above(new, j)
      BY DEF Grew, L
    <3>2. order[j] \in 1 .. Len(pool) /\ pool[order[j]].first # 0 /\ order[i] \in Above(pool, order[j])
      BY <3>1, <1>2, <1>3, <1>6
    <3> QED BY <3>1, <3>2 DEF Grew
  <2>2. f \in Injection(Grew(new, i), Grew(pool, order[i]))
    <3>1. f \in [Grew(new, i) -> Grew(pool, order[i])]
      BY <2>1
    <3>2. \A a, c \in Grew(new, i) : f[a] = f[c] => a = c
      BY <2>1, <1>3
    <3> HIDE DEF f
    <3> QED BY <3>1, <3>2 DEF Injection, IsInjective
  <2>3. IsFiniteSet(Grew(pool, order[i])) /\ Cardinality(Grew(pool, order[i])) \in Nat
        /\ Cardinality(Grew(new, i)) \in Nat
    BY <1>1, GrewFinite
  <2>4. Cardinality(Grew(new, i)) <= Cardinality(Grew(pool, order[i]))
    <3> HIDE DEF f
    <3> QED BY <2>2, <2>3, FS_Injection
  <2>5. Cardinality(Grew(pool, order[i])) <= pool[order[i]].n /\ pool[order[i]].n \in Nat
    BY <1>2, ShapeFacts DEF PoolCounts, Nodes
  <2>6. new[i].n = pool[order[i]].n
    BY <1>3
  <2> QED BY <2>3, <2>4, <2>5, <2>6
<1>8. ASSUME NEW i \in 1 .. L, i # 1 PROVE new[i].n <= new[new[i].parent].n
  <2>1. new[i].parent \in 1 .. L /\ order[new[i].parent] = pool[order[i]].parent
    BY <1>1, <1>3, <1>8
  <2>2. new[i].n = pool[order[i]].n /\ new[new[i].parent].n = pool[pool[order[i]].parent].n
    BY <1>3, <2>1
  <2>3. order[i] # 1
    <3>1. order[new[i].parent] \in 1 .. Len(pool)
      BY <1>2, <2>1
    <3>2. pool[order[i]].parent # 0
      BY <2>1, <3>1
    <3> QED BY <3>2, <1>2 DEF Shape
  <2> QED BY <1>2, <2>2, <2>3 DEF PoolCounts
<1>9. new[1].n = pool[child].n
  BY <1>1, <1>3
<1> QED BY <1>7, <1>8, <1>9 DEF PoolCounts, L

\* A pool is its root and a block for every slot that grew.
LEMMA PoolSize ==
  ASSUME NEW pool, Shape(pool), PoolCounts(pool)
  PROVE  Len(pool) <= 1 + MaxChildren * pool[1].n
<1> DEFINE N == Len(pool)
           grew == Grew(pool, 1)
           slot(i) == <<pool[i].parent, i - pool[pool[i].parent].first + 1>>
           f == [i \in 2 .. N |-> slot(i)]
           Pairs == grew \X (1 .. MaxChildren)
<1>1. /\ N \in Nat /\ N >= 1 /\ MaxChildren \in Nat
      /\ \A i \in 1 .. N : pool[i] \in Nodes
  BY ShapeFacts, ChildrenAssumption DEF Shape
<1>2. IsFiniteSet(grew) /\ Cardinality(grew) \in Nat /\ Cardinality(grew) <= pool[1].n /\ pool[1].n \in Nat
  BY <1>1, GrewFinite DEF PoolCounts, Nodes
<1>3. IsFiniteSet(1 .. MaxChildren) /\ Cardinality(1 .. MaxChildren) = MaxChildren
  BY <1>1, FS_Interval
<1>4. IsFiniteSet(Pairs) /\ Cardinality(Pairs) = Cardinality(grew) * MaxChildren
  <2> HIDE DEF grew
  <2> QED BY <1>2, <1>3, FS_Product
<1>5. ASSUME NEW i \in 2 .. N PROVE slot(i) \in Pairs
  <2> DEFINE p == pool[i].parent
  <2>1. /\ i \in 1 .. N /\ i # 1 /\ p \in 1 .. N
        /\ pool[p].first <= i /\ i < pool[p].first + pool[p].count
        /\ pool[p].count <= MaxChildren /\ (pool[p].first = 0 => pool[p].count = 0)
    <3>1. i \in 1 .. N /\ i # 1
      BY <1>1
    <3>2. p \in 1 .. N
      BY <3>1, <1>1 DEF Shape
    <3> QED BY <3>1, <3>2 DEF Shape
  <2>2. pool[p].first \in Nat /\ pool[p].count \in Nat /\ i \in Nat
    BY <1>1, <2>1 DEF Nodes
  <2>3. p \in grew
    <3>1. pool[p].first # 0
      <4> HIDE DEF p
      <4> QED BY <2>1, <2>2
    <3>2. 1 \in Above(pool, p)
      BY <2>1, AboveRoot
    <3> QED BY <2>1, <3>1, <3>2 DEF Grew
  <2>4. i - pool[p].first + 1 \in 1 .. MaxChildren
    <3> HIDE DEF p
    <3> QED BY <2>1, <2>2, <1>1
  <2> QED BY <2>3, <2>4
<1>6. ASSUME NEW i \in 2 .. N, NEW j \in 2 .. N, slot(i) = slot(j) PROVE i = j
  <2>1. pool[i].parent = pool[j].parent
        /\ i - pool[pool[i].parent].first + 1 = j - pool[pool[j].parent].first + 1
    BY <1>6
  <2>2. pool[pool[i].parent].first \in Nat /\ i \in Nat /\ j \in Nat
    <3>1. i \in 1 .. N /\ i # 1
      BY <1>1
    <3>2. pool[i].parent \in 1 .. N
      BY <3>1, <1>1 DEF Shape
    <3> QED BY <3>2, <1>1 DEF Nodes
  <2> QED BY <2>1, <2>2
<1>7. f \in Injection(2 .. N, Pairs)
  <2> HIDE DEF slot, Pairs, grew
  <2>1. f \in [2 .. N -> Pairs]
    BY <1>5
  <2>2. \A a, c \in 2 .. N : f[a] = f[c] => a = c
    BY <1>6
  <2> HIDE DEF f
  <2> QED BY <2>1, <2>2 DEF Injection, IsInjective
<1>8. Cardinality(2 .. N) = N - 1 /\ IsFiniteSet(2 .. N)
  BY <1>1, FS_Interval
<1> HIDE DEF f, Pairs, grew, N
<1>9. Cardinality(2 .. N) <= Cardinality(Pairs)
  BY <1>4, <1>7, FS_Injection
<1>10. /\ Cardinality(grew) * MaxChildren <= pool[1].n * MaxChildren
       /\ Cardinality(grew) * MaxChildren \in Nat /\ pool[1].n * MaxChildren \in Nat
  <2> DEFINE g == Cardinality(grew)
             n == pool[1].n
  <2>1. g \in Nat /\ n \in Nat /\ g <= n /\ MaxChildren \in Nat
    BY <1>1, <1>2
  <2> HIDE DEF g, n
  <2>2. g * MaxChildren <= n * MaxChildren /\ g * MaxChildren \in Nat /\ n * MaxChildren \in Nat
    BY ONLY <2>1
  <2> QED BY <2>2 DEF g, n
<1>11. N - 1 <= pool[1].n * MaxChildren
  <2> DEFINE a == Cardinality(grew) * MaxChildren
             c == pool[1].n * MaxChildren
  <2>1. N - 1 <= a
    BY <1>4, <1>8, <1>9
  <2>2. a \in Nat /\ c \in Nat /\ a <= c
    BY <1>10
  <2> HIDE DEF a, c
  <2>3. N - 1 <= c
    BY ONLY <2>1, <2>2, <1>1
  <2> QED BY <2>3 DEF c
<1>12. pool[1].n * MaxChildren = MaxChildren * pool[1].n /\ MaxChildren * pool[1].n \in Nat
  BY <1>1, <1>2
<1> DEFINE c == MaxChildren * pool[1].n
<1>13. N - 1 <= c /\ c \in Nat
  BY <1>11, <1>12
<1> HIDE DEF c
<1>14. N <= 1 + c
  BY <1>1, <1>13
<1> QED BY <1>14 DEF N, c

-----------------------------------------------------------------------------
(* What a stone is charged, and what a turn's pool holds *)

LEMMA ArmedIs ==
  ASSUME slots \in Nat
  PROVE  ArmedSims(slots) \in Nat /\ Margin * (MaxChildren * ArmedSims(slots)) <= slots
<1> DEFINE K == Margin * MaxChildren
           q == slots \div K
<1>1. K \in Nat /\ K >= 1 /\ MaxChildren \in Nat /\ Margin \in Nat
  BY MarginAssumption, ChildrenAssumption
<1>2. ArmedSims(slots) = q
  BY DEF ArmedSims
<1> HIDE DEF K
<1>3. q \in Nat /\ K * q <= slots
  BY <1>1
<1> HIDE DEF q
<1>4. Margin * (MaxChildren * q) = K * q
  BY <1>1, <1>3 DEF K
<1> QED BY <1>2, <1>3, <1>4

\* What the stones of a turn may inherit, and what its root may count.
MayInherit(root, sims) == IF MovesRemaining(root) = 2 THEN 0 ELSE sims
MayCount(root, sims) == IF MovesRemaining(root) = 2 THEN sims ELSE 2 * sims

\* The charges, with what makes them inductive: a select call's own count, the
\* expansions below every slot, and the size a game's pool has.
BudgetInv ==
    /\ PoolCounts(tree.pool)
    /\ \E s \in GameSims : slots = Margin * MaxChildren * s
    /\ tree.pool[1].n <= MayCount(tree.root, ArmedSims(slots))
    /\ turn.phase # "none" => turn.sims >= 1 /\ turn.sims <= ArmedSims(slots)
    /\ turn.phase = "drive" =>
        /\ turn.inherited <= MayInherit(tree.root, ArmedSims(slots))
        /\ turn.done <= turn.sims
        /\ tree.pool[1].n + Len(call.pending) = turn.inherited + turn.done + call.spent
    /\ call.spent = call.served + call.unserved + Len(call.pending)
    /\ call.at = "none" => call.spent = 0
    /\ call.at # "none" => call.spent <= call.descents /\ turn.done + call.descents <= turn.sims

LEMMA InitBudget == Init => BudgetInv
<1> SUFFICES ASSUME Init PROVE BudgetInv
  OBVIOUS
<1> DEFINE pool == <<Root(<<>>)>>
<1>1. PoolCounts(pool) /\ pool[1].n = 0
  <2>1. <<>> \in Seq(Cells)
    OBVIOUS
  <2> QED BY <2>1, FreshCounts
<1> HIDE DEF pool
<1>2. tree.pool = pool /\ turn = NoTurn /\ call = NoCall /\ \E s \in GameSims : slots = Margin * MaxChildren * s
  BY DEF Init, pool
<1>3. slots \in Nat
  BY <1>2, BudgetsAssumption, MarginAssumption, ChildrenAssumption
<1>4. ArmedSims(slots) \in Nat
  BY <1>3, ArmedIs
<1>5. Len(<<>>) = 0
  OBVIOUS
<1>6. NoTurn.phase = "none" /\ NoCall.spent = 0 /\ NoCall.served = 0 /\ NoCall.unserved = 0
      /\ Len(NoCall.pending) = 0 /\ NoCall.at = "none"
  BY <1>5 DEF NoTurn, NoCall
<1> HIDE DEF NoTurn, NoCall
<1>7. tree.pool[1].n <= MayCount(tree.root, ArmedSims(slots))
  BY <1>1, <1>2, <1>4 DEF MayCount
<1> QED BY <1>1, <1>2, <1>6, <1>7 DEF BudgetInv

\* A driven stone's books after a step, given its charges.
LEMMA DriveBudget ==
  ASSUME PenaltyInv, PenaltyInv', BudgetInv, PoolCounts(tree'.pool), tree'.root = tree.root, slots' = slots,
         turn.phase = "drive", turn'.phase = "drive", turn'.sims = turn.sims, turn'.inherited = turn.inherited,
         tree'.pool[1].n + Len(call'.pending) = turn.inherited + turn'.done + call'.spent,
         call'.spent = call'.served + call'.unserved + Len(call'.pending),
         turn'.done + call'.spent <= turn.sims,
         call'.at = "none" => call'.spent = 0,
         call'.at # "none" => call'.spent <= call'.descents /\ turn'.done + call'.descents <= turn.sims
  PROVE  BudgetInv'
<1>1. /\ turn.sims \in Nat /\ turn.inherited \in Nat /\ turn'.done \in Nat /\ call'.spent \in Nat /\ slots \in Nat
      /\ Len(call'.pending) \in Nat /\ tree'.pool[1].n \in Nat
  <2>1. turn \in TurnRecords /\ turn' \in TurnRecords /\ call' \in CallRecords /\ slots \in Nat /\ Shape(tree'.pool)
    BY DEF PenaltyInv, PlayerTypes
  <2>2. 1 \in 1 .. Len(tree'.pool)
    BY <2>1, ShapeFacts DEF Shape
  <2>3. tree'.pool[1] \in Nodes
    BY <2>1, <2>2, ShapeFacts
  <2>4. call'.pending \in Seq(Nat)
    BY <2>1 DEF CallRecords
  <2> QED BY <2>1, <2>3, <2>4, LenProperties DEF TurnRecords, CallRecords, Nodes
<1>2. ArmedSims(slots) \in Nat
  BY <1>1, ArmedIs
<1>3. turn.sims >= 1 /\ turn.sims <= ArmedSims(slots) /\ turn.inherited <= MayInherit(tree.root, ArmedSims(slots))
  BY DEF BudgetInv
<1>4. tree'.pool[1].n <= MayCount(tree.root, ArmedSims(slots))
  <2> DEFINE n == tree'.pool[1].n
             p == Len(call'.pending)
             most == ArmedSims(slots)
  <2>1. n \in Nat /\ p \in Nat /\ most \in Nat
    BY <1>1, <1>2
  <2>2. n + p = turn.inherited + turn'.done + call'.spent /\ turn.sims <= most
        /\ turn.inherited <= MayInherit(tree.root, most)
    BY <1>3
  <2> HIDE DEF n, p, most
  <2>3. CASE MovesRemaining(tree.root) = 2
    <3>1. turn.inherited <= 0
      BY <2>2, <2>3 DEF MayInherit
    <3>2. n <= most
      BY <1>1, <2>1, <2>2, <3>1
    <3> QED BY <2>3, <3>2 DEF MayCount, n, most
  <2>4. CASE MovesRemaining(tree.root) # 2
    <3>1. turn.inherited <= most
      BY <2>2, <2>4 DEF MayInherit
    <3>2. n <= 2 * most
      BY <1>1, <2>1, <2>2, <3>1
    <3> QED BY <2>4, <3>2 DEF MayCount, n, most
  <2> QED BY <2>3, <2>4
<1>5. turn'.done <= turn.sims
  BY <1>1
<1>6. /\ PoolCounts(tree.pool)' = PoolCounts(tree'.pool)
      /\ MayCount(tree.root, ArmedSims(slots))' = MayCount(tree'.root, ArmedSims(slots'))
      /\ MayInherit(tree.root, ArmedSims(slots))' = MayInherit(tree'.root, ArmedSims(slots'))
  BY DEF PoolCounts, Grew, Above, Path, MayCount, MayInherit, ArmedSims, MovesRemaining
<1>7. \E s \in GameSims : slots = Margin * MaxChildren * s
  BY DEF BudgetInv
<1> QED BY <1>3, <1>4, <1>5, <1>6, <1>7 DEF BudgetInv

LEMMA DescendBudget == PenaltyInv /\ PenaltyInv' /\ BudgetInv /\ Descend => BudgetInv'
<1> SUFFICES ASSUME PenaltyInv, PenaltyInv', BudgetInv, Descend PROVE BudgetInv'
  OBVIOUS
<1> DEFINE pool == tree.pool
<1>1. /\ tree \in Trees /\ Shape(pool) /\ PoolCounts(pool) /\ call \in CallRecords
      /\ turn.phase = "drive" /\ turn \in TurnRecords
      /\ turn' = turn /\ slots' = slots /\ call.at = "select" /\ call.spent < call.descents
      /\ call.pending \in Seq(Nat)
  BY DEF PenaltyInv, PlayerTypes, BudgetInv, Descend, Selecting, CallRecords
<1>2. /\ pool[1].n + Len(call.pending) = turn.inherited + turn.done + call.spent
      /\ call.spent = call.served + call.unserved + Len(call.pending)
      /\ turn.done + call.descents <= turn.sims
  BY <1>1 DEF BudgetInv
<1>3. /\ pool[1].n \in Nat /\ turn.inherited \in Nat /\ turn.done \in Nat /\ turn.sims \in Nat
      /\ call.spent \in Nat /\ call.served \in Nat /\ call.unserved \in Nat /\ call.descents \in Nat
      /\ Len(call.pending) \in Nat
  <2>1. pool[1] \in Nodes
    <3>1. 1 \in 1 .. Len(pool)
      BY <1>1, ShapeFacts DEF Shape
    <3> QED BY <1>1, <3>1, ShapeFacts
  <2> QED BY <1>1, <2>1, LenProperties DEF Nodes, TurnRecords, CallRecords
<1>4. PICK leaf \in 1 .. Len(pool) :
        LET mid == ApplyVirtualLoss(pool, leaf)
        IN  \/ Overlap(leaf)
            \/ \E new :
                /\ Backed(new, mid, leaf) /\ Grown(new, mid, leaf, BoardAt(tree.pool, tree.root, leaf))
                /\ Inline(new)
            \/ /\ tree' = [tree EXCEPT !.pool = mid]
               /\ call' = [call EXCEPT !.spent = @ + 1, !.pending = Append(@, leaf)]
  BY DescendIs
<1> DEFINE mid == ApplyVirtualLoss(pool, leaf)
           undone == UndoVirtualLoss(mid, leaf)
<1>5. /\ SameLinks(mid, pool) /\ \A i \in 1 .. Len(pool) : mid[i].n = pool[i].n
  BY <1>1, ApplyIs
<1>6. 1 \in 1 .. Len(pool) /\ Shape(mid) /\ Len(mid) = Len(pool) /\ PoolCounts(mid) /\ mid[1].n = pool[1].n
  <2> HIDE DEF mid
  <2>1. 1 \in 1 .. Len(pool)
    BY <1>1, ShapeFacts DEF Shape
  <2> QED BY <1>1, <1>5, <2>1, CountsSame, SameLinksShape DEF SameLinks
<1>7. /\ PoolCounts(undone) /\ undone[1].n = pool[1].n
  <2>1. /\ SameLinks(undone, mid) /\ \A i \in 1 .. Len(mid) : undone[i].n = mid[i].n
    <3> HIDE DEF mid
    <3> QED BY <1>6, UndoIs
  <2> HIDE DEF mid, undone
  <2> QED BY <1>6, <2>1, CountsSame
<1> HIDE DEF mid, undone
<1>8. CASE Overlap(leaf)
  <2>1. tree' = [tree EXCEPT !.pool = undone] /\ call' = [call EXCEPT !.overlap = TRUE]
    BY <1>1, <1>8 DEF Overlap, Trees, undone, mid
  <2>2. tree'.pool = undone /\ tree'.root = tree.root
    BY <1>1, <2>1 DEF Trees
  <2>3. /\ call'.spent = call.spent /\ call'.served = call.served /\ call'.unserved = call.unserved
        /\ call'.descents = call.descents /\ call'.at = "select" /\ call'.pending = call.pending
    BY <1>1, <2>1 DEF CallRecords
  <2>4. turn.done + call.spent <= turn.sims
    BY <1>1, <1>2, <1>3
  <2>5. tree'.pool[1].n + Len(call'.pending) = turn.inherited + turn'.done + call'.spent
    BY <1>1, <1>2, <1>7, <2>2, <2>3
  <2>6. call.spent <= call.descents
    BY <1>1, <1>3
  <2> QED BY <1>1, <1>2, <1>7, <2>2, <2>3, <2>4, <2>5, <2>6, DriveBudget
<1>9. ASSUME NEW new, Backed(new, mid, leaf), Inline(new) PROVE BudgetInv'
  <2>1. PoolCounts(new) /\ new[1].n = pool[1].n + 1
    <3>1. leaf \in 1 .. Len(mid)
      BY <1>6
    <3> QED BY <1>6, <1>9, <3>1, CountsBacked
  <2>2. tree'.pool = new /\ tree'.root = tree.root
    BY <1>1, <1>9 DEF Trees, Inline
  <2>3. /\ call'.spent = call.spent + 1 /\ call'.served = call.served /\ call'.unserved = call.unserved + 1
        /\ call'.descents = call.descents /\ call'.at = "select" /\ call'.pending = call.pending
    BY <1>1, <1>9 DEF Inline, CallRecords
  <2>4. /\ turn.done + (call.spent + 1) <= turn.sims /\ call.spent + 1 <= call.descents
        /\ pool[1].n + 1 + Len(call.pending) = turn.inherited + turn.done + (call.spent + 1)
        /\ call.spent + 1 = call.served + (call.unserved + 1) + Len(call.pending)
    <3> DEFINE p == Len(call.pending)
                 r == pool[1].n
                 h == turn.inherited
                 d == turn.done
                 a == turn.sims
                 s == call.spent
                 v == call.served
                 u == call.unserved
                 e == call.descents
    <3>1. p \in Nat /\ r \in Nat /\ h \in Nat /\ d \in Nat /\ a \in Nat /\ s \in Nat /\ v \in Nat /\ u \in Nat /\ e \in Nat
      BY <1>3
    <3>2. r + p = h + d + s /\ s = v + u + p /\ d + e <= a /\ s < e
      BY <1>2, <1>1
    <3> HIDE DEF p, r, h, d, a, s, v, u, e
    <3>3. d + (s + 1) <= a /\ s + 1 <= e /\ r + 1 + p = h + d + (s + 1) /\ s + 1 = v + (u + 1) + p
      BY ONLY <3>1, <3>2
    <3> QED BY <3>3 DEF p, r, h, d, a, s, v, u, e
  <2> QED BY <1>1, <1>2, <2>1, <2>2, <2>3, <2>4, DriveBudget
<1>10. CASE /\ tree' = [tree EXCEPT !.pool = mid]
            /\ call' = [call EXCEPT !.spent = @ + 1, !.pending = Append(@, leaf)]
  <2>1. tree'.pool = mid /\ tree'.root = tree.root
    BY <1>1, <1>10 DEF Trees
  <2> DEFINE after == Append(call.pending, leaf)
  <2>2. Len(after) = Len(call.pending) + 1
    <3>1. leaf \in Nat
      BY <1>1, ShapeFacts
    <3> QED BY <1>1, <3>1, AppendProperties
  <2>3. call' = [call EXCEPT !.spent = @ + 1, !.pending = after]
    BY <1>10
  <2> HIDE DEF after
  <2>4. /\ call'.spent = call.spent + 1 /\ call'.served = call.served /\ call'.unserved = call.unserved
        /\ call'.descents = call.descents /\ call'.at = "select" /\ call'.pending = after
    BY <1>1, <2>3 DEF CallRecords
  <2>5. /\ turn.done + (call.spent + 1) <= turn.sims /\ call.spent + 1 <= call.descents
        /\ pool[1].n + (Len(call.pending) + 1) = turn.inherited + turn.done + (call.spent + 1)
        /\ call.spent + 1 = call.served + call.unserved + (Len(call.pending) + 1)
    <3> DEFINE p == Len(call.pending)
                 r == pool[1].n
                 h == turn.inherited
                 d == turn.done
                 a == turn.sims
                 s == call.spent
                 v == call.served
                 u == call.unserved
                 e == call.descents
    <3>1. p \in Nat /\ r \in Nat /\ h \in Nat /\ d \in Nat /\ a \in Nat /\ s \in Nat /\ v \in Nat /\ u \in Nat /\ e \in Nat
      BY <1>3
    <3>2. r + p = h + d + s /\ s = v + u + p /\ d + e <= a /\ s < e
      BY <1>2, <1>1
    <3> HIDE DEF p, r, h, d, a, s, v, u, e
    <3>3. d + (s + 1) <= a /\ s + 1 <= e /\ r + (p + 1) = h + d + (s + 1) /\ s + 1 = v + u + (p + 1)
      BY ONLY <3>1, <3>2
    <3> QED BY <3>3 DEF p, r, h, d, a, s, v, u, e
  <2> QED BY <1>1, <1>2, <1>6, <2>1, <2>2, <2>4, <2>5, DriveBudget
<1> QED BY <1>4, <1>8, <1>9, <1>10 DEF mid

LEMMA ExpandBudget == PenaltyInv /\ PenaltyInv' /\ BudgetInv /\ ExpandNext => BudgetInv'
<1> SUFFICES ASSUME PenaltyInv, PenaltyInv', BudgetInv, ExpandNext PROVE BudgetInv'
  OBVIOUS
<1> DEFINE pool == tree.pool
           after == Tail(call.pending)
<1>1. /\ Shape(pool) /\ PoolCounts(pool) /\ call \in CallRecords /\ turn \in TurnRecords
      /\ turn.phase = "drive" /\ turn' = turn /\ slots' = slots /\ call.at = "expand"
      /\ call.pending \in Seq(Nat) /\ call.pending # <<>>
  BY DEF PenaltyInv, PlayerTypes, BudgetInv, ExpandNext, CallRecords
<1>2. /\ pool[1].n + Len(call.pending) = turn.inherited + turn.done + call.spent
      /\ call.spent = call.served + call.unserved + Len(call.pending)
      /\ turn.done + call.descents <= turn.sims /\ call.spent <= call.descents
  BY <1>1 DEF BudgetInv
<1>3. /\ pool[1].n \in Nat /\ turn.inherited \in Nat /\ turn.done \in Nat /\ turn.sims \in Nat
      /\ call.spent \in Nat /\ call.served \in Nat /\ call.unserved \in Nat /\ call.descents \in Nat
      /\ Len(call.pending) \in Nat /\ Len(after) = Len(call.pending) - 1
  <2>1. pool[1] \in Nodes
    <3>1. 1 \in 1 .. Len(pool)
      BY <1>1, ShapeFacts DEF Shape
    <3> QED BY <1>1, <3>1, ShapeFacts
  <2>2. Len(after) = Len(call.pending) - 1 /\ Len(call.pending) \in Nat
    <3> DEFINE s == call.pending
    <3> HIDE DEF s
    <3>1. Len(Tail(s)) = Len(s) - 1 /\ Len(s) \in Nat
      BY <1>1, LenProperties, HeadTailProperties DEF s
    <3> QED BY <3>1 DEF s
  <2> QED BY <1>1, <2>1, <2>2 DEF Nodes, TurnRecords, CallRecords
<1>4. PICK new :
        /\ Backed(new, pool, Head(call.pending)) /\ Head(call.pending) \in 1 .. Len(pool)
        /\ tree'.pool = new /\ tree'.root = tree.root
        /\ call'.at = "expand" /\ call'.pending = after /\ call'.spent = call.spent
        /\ call'.served = call.served + 1 /\ call'.unserved = call.unserved
  BY ExpandNextIs
<1>5. call'.descents = call.descents
  BY <1>1 DEF ExpandNext, CallRecords
<1>6. PoolCounts(new) /\ new[1].n = pool[1].n + 1
  BY <1>1, <1>4, CountsBacked
<1> HIDE DEF after
<1>7. /\ turn.done + call.spent <= turn.sims
      /\ pool[1].n + 1 + (Len(call.pending) - 1) = turn.inherited + turn.done + call.spent
      /\ call.spent = (call.served + 1) + call.unserved + (Len(call.pending) - 1)
  <2> DEFINE p == Len(call.pending)
               r == pool[1].n
               h == turn.inherited
               d == turn.done
               a == turn.sims
               s == call.spent
               v == call.served
               u == call.unserved
               e == call.descents
  <2>1. p \in Nat /\ r \in Nat /\ h \in Nat /\ d \in Nat /\ a \in Nat /\ s \in Nat /\ v \in Nat /\ u \in Nat /\ e \in Nat
    BY <1>3
  <2>2. r + p = h + d + s /\ s = v + u + p /\ d + e <= a /\ s <= e
    BY <1>2, <1>2
  <2> HIDE DEF p, r, h, d, a, s, v, u, e
  <2>3. d + s <= a /\ r + 1 + (p - 1) = h + d + s /\ s = (v + 1) + u + (p - 1)
    BY ONLY <2>1, <2>2
  <2> QED BY <2>3 DEF p, r, h, d, a, s, v, u, e
<1> QED BY <1>1, <1>2, <1>3, <1>4, <1>5, <1>6, <1>7, DriveBudget

LEMMA CallBudget == PenaltyInv /\ PenaltyInv' /\ BudgetInv /\ (Serve \/ Submit \/ Charge \/ Drive) => BudgetInv'
<1> SUFFICES ASSUME PenaltyInv, PenaltyInv', BudgetInv, Serve \/ Submit \/ Charge \/ Drive PROVE BudgetInv'
  OBVIOUS
<1>1. /\ PoolCounts(tree.pool) /\ call \in CallRecords /\ turn \in TurnRecords
      /\ turn.phase = "drive" /\ slots' = slots /\ tree' = tree
      /\ call.pending \in Seq(Nat)
  BY DEF PenaltyInv, PlayerTypes, BudgetInv, Serve, Submit, Charge, Drive, CallRecords
<1>2. /\ tree.pool[1].n + Len(call.pending) = turn.inherited + turn.done + call.spent
      /\ call.spent = call.served + call.unserved + Len(call.pending)
      /\ call.at # "none" => turn.done + call.descents <= turn.sims /\ call.spent <= call.descents
      /\ call.at = "none" => call.spent = 0
      /\ turn.done <= turn.sims
  BY <1>1 DEF BudgetInv
<1>3. /\ turn.inherited \in Nat /\ turn.done \in Nat /\ turn.sims \in Nat
      /\ call.spent \in Nat /\ call.served \in Nat /\ call.unserved \in Nat /\ call.descents \in Nat
      /\ Len(call.pending) \in Nat /\ tree.pool[1].n \in Nat
  <2>1. tree.pool[1] \in Nodes
    <3>1. Shape(tree.pool)
      BY DEF PenaltyInv, PlayerTypes
    <3>2. 1 \in 1 .. Len(tree.pool)
      BY <3>1, ShapeFacts DEF Shape
    <3> QED BY <3>1, <3>2, ShapeFacts
  <2> QED BY <1>1, <2>1, LenProperties DEF TurnRecords, CallRecords, Nodes
<1>4. CASE Serve \/ Submit
  <2>1. call' = [call EXCEPT !.at = "expand"] \/ call' = [call EXCEPT !.at = "out"]
    BY <1>4 DEF Serve, Submit
  <2>2. /\ call'.at # "none" /\ call'.spent = call.spent /\ call'.served = call.served
        /\ call'.unserved = call.unserved /\ call'.descents = call.descents /\ call'.pending = call.pending
    BY <1>1, <2>1 DEF CallRecords
  <2>3. turn' = turn /\ call.at # "none"
    BY <1>4 DEF Serve, Submit
  <2>4. turn.done + call.spent <= turn.sims
    BY <1>2, <1>3, <2>3
  <2> QED BY <1>1, <1>2, <2>2, <2>3, <2>4, DriveBudget
<1>5. CASE Charge
  <2>1. call' = NoCall /\ call.pending = <<>> /\ call.at = "expand"
    BY <1>5 DEF Charge
  <2>2. /\ call'.at = "none" /\ call'.spent = 0 /\ call'.served = 0 /\ call'.unserved = 0
        /\ call'.pending = <<>>
    BY <2>1 DEF NoCall
  <2>3. Len(<<>>) = 0
    OBVIOUS
  <2>4. /\ turn'.phase = "drive" /\ turn'.sims = turn.sims /\ turn'.inherited = turn.inherited
        /\ turn'.done = turn.done + call.served + call.unserved
    BY <1>1, <1>5 DEF Charge, TurnRecords
  <2>5. call.spent = call.served + call.unserved /\ turn'.done = turn.done + call.spent
    BY <1>2, <1>3, <2>1, <2>3, <2>4
  <2>6. turn.done + call.spent <= turn.sims
        /\ tree.pool[1].n = turn.inherited + turn.done + call.spent
    BY <1>2, <1>3, <2>1, <2>3
  <2>7. /\ tree.pool[1].n + 0 = turn.inherited + turn'.done + 0
        /\ turn'.done + 0 <= turn.sims /\ 0 = 0 + 0 + 0
    BY <1>3, <2>5, <2>6
  <2> QED BY <1>1, <2>2, <2>3, <2>4, <2>7, DriveBudget
<1>6. CASE Drive
  <2>1. Left \in Nat /\ LeafBatch \in Nat /\ turn.done + Left = turn.sims
    BY <1>1, <1>3, <1>6, BudgetsAssumption DEF Drive, Left
  <2>2. Select(LeafBatch, Left) /\ call.at = "none" /\ turn' = turn
    BY <1>6 DEF Drive
  <2>3. /\ call'.at = "select" /\ call'.pending = <<>> /\ call'.descents = Left
        /\ call'.spent = 0 /\ call'.served = 0 /\ call'.unserved = 0
    BY <2>1, <2>2, SelectIs
  <2>4. Len(<<>>) = 0 /\ call.pending = <<>>
    BY <2>2 DEF PenaltyInv
  <2>5. /\ tree.pool[1].n + 0 = turn.inherited + turn.done + 0
        /\ turn.done + 0 <= turn.sims /\ 0 = 0 + 0 + 0 /\ 0 <= Left /\ turn.done + Left <= turn.sims
    BY <1>2, <1>3, <2>1, <2>2, <2>4
  <2> QED BY <1>1, <2>2, <2>3, <2>4, <2>5, DriveBudget
<1> QED BY <1>4, <1>5, <1>6

\* Between searched stones only the root's count and the turn's sims are at stake.
LEMMA IdleBudget ==
  ASSUME NEW sims, ArmedSims(slots') = sims,
         PoolCounts(tree'.pool), tree'.pool[1].n <= MayCount(tree'.root, sims),
         \E s \in GameSims : slots' = Margin * MaxChildren * s,
         turn'.phase # "none" => turn'.sims >= 1 /\ turn'.sims <= sims,
         turn'.phase # "drive", call'.at = "none", call'.spent = 0,
         call'.spent = call'.served + call'.unserved + Len(call'.pending)
  PROVE  BudgetInv'
<1>1. /\ PoolCounts(tree.pool)' = PoolCounts(tree'.pool)
      /\ MayCount(tree.root, ArmedSims(slots))' = MayCount(tree'.root, sims)
      /\ ArmedSims(slots)' = sims
  BY DEF PoolCounts, Grew, Above, Path, MayCount, ArmedSims, MovesRemaining
<1> QED BY <1>1 DEF BudgetInv

\* The pool a search starts on counts no more than one stone's sims, and those
\* only under a turn's second stone.
LEMMA RerootedCounts ==
  ASSUME PenaltyInv, BoardsInv, BudgetInv
  PROVE  /\ PoolCounts(Rerooted(board).pool) /\ Rerooted(board).root = board
         /\ Rerooted(board).pool[1].n <= MayInherit(board, ArmedSims(slots))
         /\ Rerooted(board).pool[1].n <= MayCount(board, ArmedSims(slots))
         /\ ArmedSims(slots) \in Nat
<1> DEFINE pool == tree.pool
           new == Rerooted(board).pool
           sims == ArmedSims(slots)
<1>1. /\ tree \in Trees /\ Shape(pool) /\ board \in Seq(Cells) /\ OnBoards(pool, tree.root) /\ Distinct(board)
      /\ PoolCounts(pool) /\ slots \in Nat
  BY DEF PenaltyInv, PlayerTypes, BoardsInv, BudgetInv
<1>2. sims \in Nat /\ pool[1].n <= MayCount(tree.root, sims)
  BY <1>1, ArmedIs DEF BudgetInv
<1>3. Rerooted(board).root = board
  BY <1>1, RerootedIs
<1>4. \/ new = <<Root(board)>>
      \/ /\ MovesRemaining(tree.root) = 2 /\ MovesRemaining(board) = 1
         /\ \E child \in Children(pool, 1) : Copies(new, pool, child, BreadthFirst(pool, child))
  BY <1>1, RerootedBoards
<1> HIDE DEF sims, new
<1>5. CASE new = <<Root(board)>>
  <2>1. PoolCounts(new) /\ new[1].n = 0
    BY <1>1, <1>5, FreshCounts
  <2>2. 0 <= MayInherit(board, sims) /\ 0 <= MayCount(board, sims)
    BY <1>2 DEF MayInherit, MayCount
  <2> QED BY <1>2, <1>3, <2>1, <2>2 DEF new, sims
<1>6. CASE /\ MovesRemaining(tree.root) = 2 /\ MovesRemaining(board) = 1
           /\ \E child \in Children(pool, 1) : Copies(new, pool, child, BreadthFirst(pool, child))
  <2>1. PICK child \in Children(pool, 1) : Copies(new, pool, child, BreadthFirst(pool, child))
    BY <1>6
  <2>2. PoolCounts(new) /\ new[1].n = pool[child].n
    BY <1>1, <2>1, CountsCopied
  <2>3. 1 \in 1 .. Len(pool)
    BY <1>1, ShapeFacts DEF Shape
  <2>4. child \in 1 .. Len(pool) /\ child # 1 /\ pool[child].parent = 1
    BY <1>1, <2>1, <2>3, ChildIs
  <2>5. pool[child].n <= pool[1].n
    BY <1>1, <2>4 DEF PoolCounts
  <2>6. pool[child].n \in Nat /\ pool[1].n \in Nat
    BY <1>1, <2>3, <2>4, ShapeFacts DEF Nodes
  <2>7. pool[1].n <= sims /\ MayInherit(board, sims) = sims /\ MayCount(board, sims) = 2 * sims
    BY <1>2, <1>6 DEF MayInherit, MayCount
  <2>8. new[1].n <= sims /\ new[1].n <= 2 * sims
    <3> DEFINE a == pool[child].n
               b == pool[1].n
    <3>1. a \in Nat /\ b \in Nat /\ a <= b /\ b <= sims /\ new[1].n = a
      BY <2>2, <2>5, <2>6, <2>7
    <3> HIDE DEF a, b
    <3> QED BY <1>2, <3>1
  <2> QED BY <1>2, <1>3, <2>2, <2>7, <2>8 DEF new, sims
<1> QED BY <1>4, <1>5, <1>6

\* A stone is played: its books close, the turn's sims stay.
LEMMA PlaceBudget ==
  ASSUME PenaltyInv, BoardsInv, BudgetInv, call.at = "none", turn.phase # "none", NEW c \in Cells, Place(c),
         slots' = slots, call' = call,
         tree' = tree \/ \E proof \in Proofs : tree' = [Rerooted(board) EXCEPT !.proof = proof]
  PROVE  BudgetInv'
<1> DEFINE sims == ArmedSims(slots)
<1>1. PlayerTypes /\ tree \in Trees /\ Shape(tree.pool) /\ board \in Seq(Cells)
  BY DEF PenaltyInv, PlayerTypes
<1>2. turn'.phase \in {"start", "done"} /\ turn'.sims = turn.sims
  BY <1>1, PlaceIs
<1>3. /\ call.spent = 0 /\ call.spent = call.served + call.unserved + Len(call.pending)
      /\ turn.sims >= 1 /\ turn.sims <= sims
      /\ PoolCounts(tree.pool) /\ tree.pool[1].n <= MayCount(tree.root, sims)
      /\ \E s \in GameSims : slots = Margin * MaxChildren * s
  BY DEF BudgetInv
<1>4. PoolCounts(tree'.pool) /\ tree'.pool[1].n <= MayCount(tree'.root, sims)
  <2>1. CASE tree' = tree
    BY <1>3, <2>1
  <2>2. ASSUME NEW proof \in Proofs, tree' = [Rerooted(board) EXCEPT !.proof = proof]
        PROVE  PoolCounts(tree'.pool) /\ tree'.pool[1].n <= MayCount(tree'.root, sims)
    <3>1. Rerooted(board) \in Trees
      BY <1>1, RerootedIs
    <3>2. tree'.pool = Rerooted(board).pool /\ tree'.root = Rerooted(board).root
      BY <2>2, <3>1 DEF Trees
    <3> QED BY <3>2, RerootedCounts
  <2> QED BY <2>1, <2>2
<1>5. ArmedSims(slots') = sims
  OBVIOUS
<1> HIDE DEF sims
<1> QED BY <1>2, <1>3, <1>4, <1>5, IdleBudget

LEMMA StoneBudget ==
  PenaltyInv /\ BoardsInv /\ BudgetInv /\ (PlaceOrigin \/ OffenceStone \/ FinishSearched) => BudgetInv'
<1> SUFFICES ASSUME PenaltyInv, BoardsInv, BudgetInv, PlaceOrigin \/ OffenceStone \/ FinishSearched
             PROVE  BudgetInv'
  OBVIOUS
<1>1. /\ tree \in Trees /\ Shape(tree.pool) /\ board \in Seq(Cells)
      /\ call.at # "none" => turn.phase = "drive"
  BY DEF PenaltyInv, PlayerTypes
<1>2. CASE PlaceOrigin
  <2>1. call.at = "none" /\ turn.phase # "none" /\ Place(Origin) /\ slots' = slots /\ call' = call /\ tree' = tree
    BY <1>1, <1>2 DEF PlaceOrigin
  <2> QED BY <2>1, CellsAssumption, PlaceBudget
<1>3. CASE OffenceStone
  <2>1. PICK c \in Cells : Place(c)
    BY <1>1, <1>3, ProofsType DEF OffenceStone
  <2>2. ProofAfter \in Proofs
    BY <1>1, ProofsType
  <2>3. /\ call.at = "none" /\ turn.phase # "none" /\ slots' = slots /\ call' = call
        /\ tree' = [Rerooted(board) EXCEPT !.proof = ProofAfter]
    BY <1>3 DEF OffenceStone
  <2> QED BY <2>1, <2>2, <2>3, PlaceBudget
<1>4. CASE FinishSearched
  <2>1. PICK i \in Children(tree.pool, 1) : Place(tree.pool[i].cell)
    BY <1>4 DEF FinishSearched, Leaders
  <2>2. tree.pool[i].cell \in Cells
    <3>1. i \in 1 .. Len(tree.pool)
      BY <1>1, ShapeFacts DEF Children
    <3> QED BY <1>1, <3>1, ShapeFacts DEF Nodes
  <2>3. call.at = "none" /\ turn.phase # "none" /\ slots' = slots /\ call' = call /\ tree' = tree
    BY <1>4 DEF FinishSearched
  <2> QED BY <2>1, <2>2, <2>3, PlaceBudget
<1> QED BY <1>2, <1>3, <1>4

\* A search starts on the root's count, which nothing of this stone is in yet.
LEMMA RootBudget == PenaltyInv /\ PenaltyInv' /\ BoardsInv /\ BudgetInv /\ RootStep => BudgetInv'
<1> SUFFICES ASSUME PenaltyInv, PenaltyInv', BoardsInv, BudgetInv, RootStep PROVE BudgetInv'
  OBVIOUS
<1> DEFINE sims == ArmedSims(slots)
           n == tree'.pool[1].n
<1>1. tree \in Trees /\ Shape(tree.pool) /\ board \in Seq(Cells) /\ turn \in TurnRecords /\ tree' \in Trees
      /\ Shape(tree'.pool)
  BY DEF PenaltyInv, PlayerTypes
<1>2. Rerooted(board) \in Trees
  BY <1>1, RerootedIs
<1>3. tree'.pool = Rerooted(board).pool /\ tree'.root = Rerooted(board).root
  BY <1>2 DEF RootStep, Trees
<1>4. /\ PoolCounts(tree'.pool) /\ n <= MayInherit(tree'.root, sims) /\ n <= MayCount(tree'.root, sims)
      /\ sims \in Nat
  BY <1>3, RerootedCounts
<1>5. n \in Nat
  <2>1. 1 \in 1 .. Len(tree'.pool)
    BY <1>1, ShapeFacts DEF Shape
  <2> QED BY <1>1, <2>1, ShapeFacts DEF Nodes
<1>6. turn'.phase = "drive" /\ turn'.done = 0 /\ turn'.inherited = n /\ turn'.sims = turn.sims /\ slots' = slots
  BY <1>1 DEF RootStep, TurnRecords, Inherited
<1>7. /\ call'.at = "select" /\ call'.pending = <<>>
      /\ call'.spent = 0 /\ call'.served = 0 /\ call'.unserved = 0 /\ call'.descents = 1
  BY SelectIs DEF RootStep
<1>8. Len(<<>>) = 0
  OBVIOUS
<1>9. turn.sims \in Nat /\ turn.sims >= 1 /\ turn.sims <= sims /\ \E s \in GameSims : slots = Margin * MaxChildren * s
  BY <1>1 DEF BudgetInv, RootStep, TurnRecords
<1>10. /\ PoolCounts(tree.pool)' = PoolCounts(tree'.pool)
       /\ MayCount(tree.root, ArmedSims(slots))' = MayCount(tree'.root, sims)
       /\ MayInherit(tree.root, ArmedSims(slots))' = MayInherit(tree'.root, sims)
       /\ ArmedSims(slots)' = sims
  BY <1>6 DEF PoolCounts, Grew, Above, Path, MayCount, MayInherit, ArmedSims, MovesRemaining
<1>11. n + 0 = n + 0 + 0 /\ 0 = 0 + 0 + 0 /\ 0 <= turn.sims /\ 0 + 1 <= turn.sims /\ 0 <= 1
  BY <1>5, <1>9
<1>12. (tree.pool[1].n)' = n
  OBVIOUS
<1> HIDE DEF n, sims
<1> QED BY <1>4, <1>6, <1>7, <1>8, <1>9, <1>10, <1>11, <1>12 DEF BudgetInv

\* A turn that is dropped, and a new game, leave a fresh tree.
LEMMA FreshBudget ==
  ASSUME PenaltyInv', NEW b \in Seq(Cells), tree'.pool = <<Root(b)>>,
         \E s \in GameSims : slots' = Margin * MaxChildren * s,
         turn'.phase = "none", call'.at = "none", call'.spent = 0,
         call'.spent = call'.served + call'.unserved + Len(call'.pending)
  PROVE  BudgetInv'
<1> DEFINE sims == ArmedSims(slots')
           pool == <<Root(b)>>
<1>1. PoolCounts(pool) /\ pool[1].n = 0
  BY FreshCounts
<1>2. sims \in Nat
  <2>1. slots' \in Nat
    BY BudgetsAssumption, MarginAssumption, ChildrenAssumption
  <2> DEFINE room == slots'
             K == Margin * MaxChildren
  <2>2. K \in Nat /\ K >= 1 /\ room \in Nat
    BY <2>1, MarginAssumption, ChildrenAssumption
  <2>3. sims = room \div K
    BY DEF ArmedSims
  <2> HIDE DEF K, room, sims
  <2> QED BY <2>2, <2>3
<1> HIDE DEF pool, sims
<1>3. tree'.pool = pool
  BY DEF pool
<1>4. 0 <= MayCount(tree'.root, sims)
  BY <1>2 DEF MayCount
<1>5. ArmedSims(slots') = sims
  BY DEF sims
<1>6. turn'.phase # "drive"
  OBVIOUS
<1>7. PoolCounts(tree'.pool) /\ tree'.pool[1].n <= MayCount(tree'.root, sims)
  BY <1>1, <1>3, <1>4
<1> QED BY <1>5, <1>6, <1>7, IdleBudget

LEMMA ResetBudget ==
  PenaltyInv /\ PenaltyInv' /\ BudgetInv /\ (NewGame \/ NoRootChildren \/ Abort \/ RefuseOutputs) => BudgetInv'
<1> SUFFICES ASSUME PenaltyInv, PenaltyInv', BudgetInv, NewGame \/ RollBack PROVE BudgetInv'
  BY DEF NoRootChildren, Abort, RefuseOutputs
<1>1. /\ tree \in Trees /\ turn \in TurnRecords /\ call \in CallRecords
      /\ \E s \in GameSims : slots = Margin * MaxChildren * s
  BY DEF PenaltyInv, PlayerTypes, BudgetInv
<1>2. CASE NewGame
  <2>1. tree'.pool = <<Root(<<>>)>> /\ turn' = turn /\ turn.phase = "none" /\ call' = call
    BY <1>2 DEF NewGame
  <2>2. \E s \in GameSims : slots' = Margin * MaxChildren * s
    BY <1>2 DEF NewGame
  <2>3. /\ call.at = "none" /\ call.spent = 0 /\ call.spent = call.served + call.unserved + Len(call.pending)
    BY <2>1 DEF BudgetInv, PenaltyInv
  <2>4. <<>> \in Seq(Cells)
    OBVIOUS
  <2> QED BY <2>1, <2>2, <2>3, <2>4, FreshBudget
<1>3. CASE RollBack
  <2>1. turn.start \in Seq(Cells)
    BY <1>1 DEF TurnRecords
  <2>2. tree' = FreshTree(turn.start) /\ turn' = NoTurn /\ call' = NoCall /\ slots' = slots
    BY <1>3 DEF RollBack
  <2>3. tree'.pool = <<Root(turn.start)>>
    BY <1>1, <2>1, <2>2, FreshTreeIs
  <2>4. turn'.phase = "none"
    BY <2>2 DEF NoTurn
  <2>5. \E s \in GameSims : slots' = Margin * MaxChildren * s
    BY <1>1, <2>2
  <2>6. /\ call'.at = "none" /\ call'.spent = 0
        /\ call'.spent = call'.served + call'.unserved + Len(call'.pending)
    <3>1. Len(<<>>) = 0
      OBVIOUS
    <3> QED BY <2>2, <3>1 DEF NoCall
  <2> QED BY <2>1, <2>3, <2>4, <2>5, <2>6, FreshBudget
<1> QED BY <1>2, <1>3

LEMMA BudgetStays ==
  ASSUME BudgetInv, UNCHANGED <<tree, call, slots, turn>>
  PROVE  BudgetInv'
<1>1. /\ PoolCounts(tree.pool)' = PoolCounts(tree.pool)
      /\ MayCount(tree.root, ArmedSims(slots))' = MayCount(tree.root, ArmedSims(slots))
      /\ MayInherit(tree.root, ArmedSims(slots))' = MayInherit(tree.root, ArmedSims(slots))
      /\ ArmedSims(slots)' = ArmedSims(slots)
  BY DEF PoolCounts, Grew, Above, Path, MayCount, MayInherit, ArmedSims, MovesRemaining
<1> QED BY <1>1 DEF BudgetInv

LEMMA HostBudget ==
  PenaltyInv /\ PenaltyInv' /\ BudgetInv /\ (Play \/ BeginTurn \/ NextBatch \/ Close) => BudgetInv'
<1> SUFFICES ASSUME PenaltyInv, PenaltyInv', BudgetInv, Play \/ BeginTurn \/ NextBatch \/ Close PROVE BudgetInv'
  OBVIOUS
<1>1. CASE Play
  BY <1>1, BudgetStays DEF Play
<1>2. CASE NextBatch
  BY <1>2, BudgetStays DEF NextBatch
<1>3. CASE BeginTurn \/ Close
  <2> DEFINE sims == ArmedSims(slots)
  <2>1. tree' = tree /\ slots' = slots /\ call' = call /\ call.at = "none"
    BY <1>3 DEF BeginTurn, Close, PenaltyInv
  <2>2. turn'.phase # "drive" /\ (turn'.phase # "none" => turn'.sims >= 1 /\ turn'.sims <= sims)
    <3>1. CASE BeginTurn
      <4>1. PICK n \in TurnSims :
              /\ n <= ArmedSims(slots)
              /\ turn' = [NoTurn EXCEPT !.phase = "start", !.start = board, !.sims = n,
                                        !.left = MovesRemaining(board)]
        BY <3>1 DEF BeginTurn
      <4>2. n >= 1 /\ turn'.phase = "start" /\ turn'.sims = n
        BY <4>1, BudgetsAssumption DEF NoTurn
      <4> QED BY <4>1, <4>2
    <3>2. CASE Close
      BY <3>2 DEF Close, NoTurn
    <3> QED BY <1>3, <3>1, <3>2
  <2>3. /\ call.spent = 0 /\ call.spent = call.served + call.unserved + Len(call.pending)
        /\ PoolCounts(tree.pool) /\ tree.pool[1].n <= MayCount(tree.root, sims)
        /\ \E s \in GameSims : slots = Margin * MaxChildren * s
    BY <2>1 DEF BudgetInv
  <2>4. ArmedSims(slots') = sims
    BY <2>1
  <2> HIDE DEF sims
  <2> QED BY <2>1, <2>2, <2>3, <2>4, IdleBudget
<1> QED BY <1>1, <1>2, <1>3

LEMMA NextBudget == PenaltyInv /\ PenaltyInv' /\ BoardsInv /\ BudgetInv /\ [Next]_vars => BudgetInv'
<1> SUFFICES ASSUME PenaltyInv, PenaltyInv', BoardsInv, BudgetInv, [Next]_vars PROVE BudgetInv'
  OBVIOUS
<1>1. CASE UNCHANGED vars
  BY <1>1, BudgetStays DEF vars
<1>2. CASE Next
  BY <1>2, ResetBudget, HostBudget, StoneBudget, RootBudget, DescendBudget, ExpandBudget, CallBudget DEF Next
<1> QED BY <1>1, <1>2

\* What was charged fits the stone, and the pool has a slot for each of its nodes.
LEMMA BudgetIsHeld == PenaltyInv /\ BudgetInv => BudgetHolds
<1> SUFFICES ASSUME PenaltyInv, BudgetInv PROVE BudgetHolds
  OBVIOUS
<1>1. /\ Shape(tree.pool) /\ slots \in Nat /\ turn \in TurnRecords /\ call \in CallRecords /\ PoolCounts(tree.pool)
  BY DEF PenaltyInv, PlayerTypes, BudgetInv
<1>2. DescentsCharged
  <2> SUFFICES ASSUME turn.phase = "drive"
               PROVE  /\ turn.done + call.spent <= turn.sims
                      /\ tree.pool[1].n + Len(call.pending) = turn.inherited + turn.done + call.spent
    BY DEF DescentsCharged
  <2> DEFINE d == turn.done
             a == turn.sims
             s == call.spent
             e == call.descents
  <2>1. d \in Nat /\ a \in Nat /\ s \in Nat /\ e \in Nat
    BY <1>1 DEF TurnRecords, CallRecords
  <2>2. d <= a /\ (s = 0 \/ (s <= e /\ d + e <= a))
    BY DEF BudgetInv
  <2> HIDE DEF d, a, s, e
  <2>3. d + s <= a
    BY ONLY <2>1, <2>2
  <2> QED BY <2>3 DEF BudgetInv, d, a, s
<1>3. PoolSuffices
  <2> DEFINE n == tree.pool[1].n
             size == Len(tree.pool)
             sims == ArmedSims(slots)
             block == MaxChildren * sims
  <2>1. n \in Nat /\ size \in Nat
    <3>1. 1 \in 1 .. Len(tree.pool)
      BY <1>1, ShapeFacts DEF Shape
    <3> QED BY <1>1, <3>1, ShapeFacts DEF Nodes
  <2>2. size <= 1 + MaxChildren * n
    BY <1>1, PoolSize
  <2>3. sims \in Nat /\ Margin * block <= slots
    BY <1>1, ArmedIs
  <2>4. n <= 2 * sims
    <3>1. n <= MayCount(tree.root, sims)
      BY DEF BudgetInv
    <3> HIDE DEF n, sims
    <3> QED BY <2>1, <2>3, <3>1 DEF MayCount
  <2>5. MaxChildren \in Nat /\ MaxChildren >= 1 /\ Margin \in Nat /\ Margin >= 3 /\ block \in Nat
    BY <2>3, ChildrenAssumption, MarginAssumption
  <2>6. slots >= 1
    <3>1. PICK g \in GameSims : slots = Margin * MaxChildren * g
      BY DEF BudgetInv
    <3>2. g \in Nat /\ g >= 1
      BY BudgetsAssumption
    <3> DEFINE K == Margin * MaxChildren
    <3>3. K \in Nat /\ K >= 1
      BY <2>5
    <3> HIDE DEF K
    <3>4. K * g >= 1
      BY <3>2, <3>3
    <3> QED BY <3>1, <3>4 DEF K
  <2> HIDE DEF n, size, sims
  <2>7. MaxChildren * n <= 2 * block
    <3>1. MaxChildren * n <= MaxChildren * (2 * sims)
      BY <2>1, <2>3, <2>4, <2>5
    <3>2. MaxChildren * (2 * sims) = 2 * block
      BY <2>3, <2>5
    <3> QED BY <3>1, <3>2
  <2>8. Margin * block >= 3 * block
    <3> HIDE DEF block
    <3> QED BY <2>5
  <2>9. CASE sims = 0
    <3>1. n = 0
      BY <2>1, <2>4, <2>9
    <3>2. MaxChildren * n = 0
      BY <2>5, <3>1
    <3>3. size <= 1
      BY <2>2, <3>2
    <3>4. size <= slots
      BY <1>1, <2>1, <2>6, <3>3
    <3> QED BY <3>4 DEF PoolSuffices, size
  <2>10. CASE sims >= 1
    <3>1. block >= 1
      BY <2>3, <2>5, <2>10
    <3> DEFINE room == Margin * block
               took == MaxChildren * n
    <3>2. /\ room >= 3 * block /\ room <= slots /\ took <= 2 * block /\ size <= 1 + took
          /\ took \in Nat /\ room \in Nat
      BY <2>1, <2>2, <2>3, <2>5, <2>7, <2>8
    <3> HIDE DEF room, took, block
    <3>3. size <= slots
      BY <1>1, <2>1, <2>5, <3>1, <3>2
    <3> QED BY <3>3 DEF PoolSuffices, size
  <2> QED BY <2>3, <2>9, <2>10
<1> QED BY <1>2, <1>3 DEF BudgetHolds

\* A stone is charged the visits it added to its root and no more than its sims,
\* and what a turn's stones spend fits the pool, the subtree the second inherits
\* included (charge_descents, armed_sims_for).
THEOREM BudgetKept == Spec => []BudgetHolds
<1>1. Spec => [](PenaltyInv /\ BoardsInv /\ BudgetInv)
  BY InitPenalty, NextPenalty, InitBoards, NextBoards, InitBudget, NextBudget, PTL DEF Spec
<1> QED BY <1>1, BudgetIsHeld, PTL

\* The pool is one tree of the board searched, and every descent in it plays
\* empty cells (child_reaching, subtree, select_one_leaf).
LEMMA BoardsAreTree == PenaltyInv /\ BoardsInv => PoolIsATree
<1> SUFFICES ASSUME PenaltyInv, BoardsInv PROVE PoolIsATree
  OBVIOUS
<1> DEFINE pool == tree.pool
<1>1. Shape(pool) /\ OnBoards(pool, tree.root) /\ (turn.phase = "drive" => tree.root = board)
  BY DEF PenaltyInv, PlayerTypes, BoardsInv
<1>2. DOMAIN pool = 1 .. Len(pool)
  BY <1>1, ShapeFacts
<1>3. ASSUME NEW i \in 1 .. Len(pool)
      PROVE  /\ LET b == BoardAt(pool, tree.root, i)
                IN  Cardinality(ToSet(b)) = Len(b) /\ pool[i].mr = MovesRemaining(b)
             /\ (i = 1) = (pool[i].parent = 0)
             /\ i # 1 => i \in Children(pool, pool[i].parent)
             /\ \A c \in Children(pool, i) : pool[c].parent = i
  <2>1. \A c \in Children(pool, i) : pool[c].parent = i
    BY <1>1, ChildIs
  <2>2. (i = 1) = (pool[i].parent = 0)
    BY <1>1 DEF Shape
  <2>3. i # 1 => i \in Children(pool, pool[i].parent)
    BY <1>1, <1>2 DEF Shape, Children
  <2>4. LET b == BoardAt(pool, tree.root, i)
        IN  Cardinality(ToSet(b)) = Len(b) /\ pool[i].mr = MovesRemaining(b)
    BY <1>1 DEF OnBoards, Distinct
  <2> QED BY <2>1, <2>2, <2>3, <2>4
<1> HIDE DEF pool
<1>4. \A i \in DOMAIN pool :
        LET b == BoardAt(pool, tree.root, i)
        IN  /\ Cardinality(ToSet(b)) = Len(b)
            /\ pool[i].mr = MovesRemaining(b)
            /\ (i = 1) = (pool[i].parent = 0)
            /\ i # 1 => i \in Children(pool, pool[i].parent)
            /\ \A c \in Children(pool, i) : pool[c].parent = i
  BY <1>2, <1>3
<1> QED BY <1>1, <1>4 DEF PoolIsATree, pool
-----------------------------------------------------------------------------
(* Sums over the slots of a block *)

\* The fold of the community modules over a function of integers, and the
\* recursion it stands for.
Total(f, S) == MapThenSumSet(LAMBDA k : f[k], S)
Chosen(s) == CHOOSE x \in s : TRUE
Sums(f, S, g) ==
    g = [s \in SUBSET S |-> IF s = {} THEN 0 ELSE f[Chosen(s)] + g[s \ {Chosen(s)}]]

\* A finite set on which f is integer.
Counted(f, S) == IsFiniteSet(S) /\ \A k \in S : f[k] \in Int

LEMMA TotalIs ==
  ASSUME NEW f, NEW S
  PROVE  Total(f, S) = (CHOOSE g : Sums(f, S, g))[S]
BY DEF Total, MapThenSumSet, MapThenFoldSet, Sums, Chosen

\* Without its chosen element a finite set is one smaller.
LEMMA OneLess ==
  ASSUME NEW s, IsFiniteSet(s), s # {}
  PROVE  /\ Chosen(s) \in s /\ Cardinality(s) \in Nat /\ Cardinality(s) > 0
         /\ \A x \in s : /\ IsFiniteSet(s \ {x})
                         /\ Cardinality(s \ {x}) = Cardinality(s) - 1
                         /\ Cardinality(s \ {x}) \in Nat
<1>1. Chosen(s) \in s
  BY DEF Chosen
<1>2. Cardinality(s) \in Nat /\ Cardinality(s) > 0
  BY FS_CardinalityType, FS_EmptySet
<1>3. ASSUME NEW x \in s
      PROVE  IsFiniteSet(s \ {x}) /\ Cardinality(s \ {x}) = Cardinality(s) - 1
  BY FS_RemoveElement
<1> QED BY <1>1, <1>2, <1>3

LEMMA SumExists ==
  ASSUME NEW f, NEW S, Counted(f, S)
  PROVE  \E g \in [SUBSET S -> Int] : Sums(f, S, g)
<1> DEFINE Step(s, g) == IF s = {} THEN 0 ELSE f[Chosen(s)] + g[s \ {Chosen(s)}]
           Upto(n, g) == \A s \in SUBSET S : Cardinality(s) <= n => g[s] = Step(s, g)
           Bad == {n \in Nat : ~ \E g \in [SUBSET S -> Int] : Upto(n, g)}
<1>1. \A s \in SUBSET S : IsFiniteSet(s) /\ Cardinality(s) \in Nat /\ Cardinality(s) <= Cardinality(S)
  BY FS_Subset, FS_CardinalityType DEF Counted
<1>2. ASSUME NEW g \in [SUBSET S -> Int], NEW s \in SUBSET S
      PROVE  Step(s, g) \in Int
  <2>1. CASE s = {}
    BY <2>1
  <2>2. CASE s # {}
    <3>1. Chosen(s) \in S /\ s \ {Chosen(s)} \in SUBSET S
      BY <1>1, <2>2, OneLess
    <3>2. f[Chosen(s)] \in Int /\ g[s \ {Chosen(s)}] \in Int
      BY <3>1 DEF Counted
    <3> QED BY <2>2, <3>2
  <2> QED BY <2>1, <2>2
<1>3. Bad = {}
  <2> SUFFICES ASSUME Bad # {} PROVE FALSE
    OBVIOUS
  <2>1. PICK n \in Bad : \A i \in Bad : n <= i
    <3>1. Bad \subseteq Nat
      OBVIOUS
    <3> HIDE DEF Bad
    <3> QED BY <3>1, NatLeast
  <2>2. CASE n = 0
    <3> DEFINE g == [s \in SUBSET S |-> 0]
    <3>1. ASSUME NEW s \in SUBSET S, Cardinality(s) <= n PROVE g[s] = Step(s, g)
      <4>1. s = {}
        BY <2>2, <3>1, <1>1, FS_EmptySet
      <4> QED BY <4>1
    <3>2. g \in [SUBSET S -> Int]
      OBVIOUS
    <3> HIDE DEF g, Step
    <3>3. Upto(n, g)
      BY <3>1
    <3> QED BY <3>2, <3>3, <2>1
  <2>3. CASE n > 0
    <3>1. n \in Nat /\ n - 1 \in Nat
      BY <2>1, <2>3
    <3>2. n - 1 \notin Bad
      <4> HIDE DEF Bad
      <4> QED BY <2>1, <3>1
    <3>3. PICK h \in [SUBSET S -> Int] : Upto(n - 1, h)
      BY <3>1, <3>2
    <3> DEFINE g == [s \in SUBSET S |-> Step(s, h)]
    <3>4. g \in [SUBSET S -> Int]
      BY <1>2
    <3>5. ASSUME NEW s \in SUBSET S, Cardinality(s) <= n PROVE g[s] = Step(s, g)
      <4>1. CASE s = {}
        BY <4>1
      <4>2. CASE s # {}
        <5> DEFINE r == s \ {Chosen(s)}
        <5>1. r \in SUBSET S /\ Cardinality(r) <= n - 1
          BY <4>2, <3>5, <1>1, OneLess, <2>1
        <5>2. h[r] = Step(r, h)
          BY <5>1, <3>3
        <5>3. g[r] = Step(r, h)
          BY <5>1
        <5>4. g[r] = h[r]
          BY <5>2, <5>3
        <5> HIDE DEF r, g
        <5>5. g[s] = f[Chosen(s)] + h[r]
          BY <4>2 DEF g, r
        <5>6. Step(s, g) = f[Chosen(s)] + g[r]
          BY <4>2 DEF r
        <5> QED BY <5>4, <5>5, <5>6
      <4> QED BY <4>1, <4>2
    <3> HIDE DEF g, Step
    <3>6. Upto(n, g)
      BY <3>5
    <3> QED BY <3>4, <3>6, <2>1
  <2> QED BY <2>1, <2>2, <2>3
<1>4. PICK g \in [SUBSET S -> Int] : Upto(Cardinality(S), g)
  BY <1>1, <1>3
<1>5. \A s \in SUBSET S : g[s] = Step(s, g)
  BY <1>1, <1>4
<1>6. g = [s \in SUBSET S |-> Step(s, g)]
  <2>1. g = [s \in SUBSET S |-> g[s]]
    OBVIOUS
  <2> HIDE DEF Step
  <2> QED BY <2>1, <1>5
<1> QED BY <1>6 DEF Sums

\* The recursion has one value on a set, whatever larger set it is taken over.
LEMMA SumUnique ==
  ASSUME NEW e, NEW S, NEW g, Sums(e, S, g), NEW f, NEW T, NEW h, Sums(f, T, h),
         NEW U, U \subseteq S, U \subseteq T, IsFiniteSet(U), \A k \in U : e[k] = f[k]
  PROVE  g[U] = h[U]
<1> DEFINE Bad == {i \in Nat : \E u \in SUBSET U : Cardinality(u) = i /\ g[u] # h[u]}
<1> SUFFICES ASSUME g[U] # h[U] PROVE FALSE
  OBVIOUS
<1>1. \A u \in SUBSET U : IsFiniteSet(u) /\ Cardinality(u) \in Nat
  BY FS_Subset, FS_CardinalityType
<1>2. PICK i \in Bad : \A j \in Bad : i <= j
  <2>1. Bad \subseteq Nat /\ Cardinality(U) \in Bad
    BY <1>1
  <2> HIDE DEF Bad
  <2> QED BY <2>1, NatLeast
<1>3. PICK u \in SUBSET U : Cardinality(u) = i /\ g[u] # h[u]
  BY <1>2
<1>4. /\ g[u] = IF u = {} THEN 0 ELSE e[Chosen(u)] + g[u \ {Chosen(u)}]
      /\ h[u] = IF u = {} THEN 0 ELSE f[Chosen(u)] + h[u \ {Chosen(u)}]
  <2>1. u \in SUBSET S /\ u \in SUBSET T
    OBVIOUS
  <2> QED BY <2>1 DEF Sums
<1>5. u # {}
  BY <1>3, <1>4
<1> DEFINE r == u \ {Chosen(u)}
<1>6. r \in SUBSET U /\ Cardinality(r) \in Nat /\ Cardinality(r) < i /\ Chosen(u) \in U
  BY <1>1, <1>3, <1>5, OneLess
<1>7. g[r] = h[r]
  BY <1>2, <1>6
<1> QED BY <1>3, <1>4, <1>5, <1>6, <1>7

LEMMA TotalSums ==
  ASSUME NEW f, NEW S, Counted(f, S)
  PROVE  \E g \in [SUBSET S -> Int] : Sums(f, S, g) /\ g[S] = Total(f, S)
<1> DEFINE h == CHOOSE g : Sums(f, S, g)
<1>1. PICK g \in [SUBSET S -> Int] : Sums(f, S, g)
  BY SumExists
<1>2. Sums(f, S, h)
  BY <1>1
<1>3. Total(f, S) = h[S]
  BY TotalIs
<1> HIDE DEF h
<1>4. g[S] = h[S]
  BY <1>1, <1>2, SumUnique DEF Counted
<1> QED BY <1>1, <1>3, <1>4

\* Only the set's own values count.
LEMMA TotalAgrees ==
  ASSUME NEW f, NEW g, NEW S, Counted(f, S), \A k \in S : g[k] = f[k]
  PROVE  Total(f, S) = Total(g, S)
<1>1. Counted(g, S)
  BY DEF Counted
<1>2. PICK x \in [SUBSET S -> Int] : Sums(f, S, x) /\ x[S] = Total(f, S)
  BY TotalSums
<1>3. PICK y \in [SUBSET S -> Int] : Sums(g, S, y) /\ y[S] = Total(g, S)
  BY <1>1, TotalSums
<1> QED BY <1>2, <1>3, SumUnique DEF Counted

LEMMA TotalBy ==
  ASSUME NEW f, NEW S, Counted(f, S)
  PROVE  /\ Total(f, S) \in Int
         /\ S = {} => Total(f, S) = 0
         /\ S # {} => Total(f, S) = f[Chosen(S)] + Total(f, S \ {Chosen(S)})
<1>1. PICK g \in [SUBSET S -> Int] : Sums(f, S, g) /\ g[S] = Total(f, S)
  BY TotalSums
<1>2. g[S] = IF S = {} THEN 0 ELSE f[Chosen(S)] + g[S \ {Chosen(S)}]
  BY <1>1 DEF Sums
<1>3. CASE S # {}
  <2> DEFINE r == S \ {Chosen(S)}
  <2>1. Counted(f, r) /\ r \subseteq S
    BY <1>3, OneLess DEF Counted
  <2>2. PICK h \in [SUBSET r -> Int] : Sums(f, r, h) /\ h[r] = Total(f, r)
    BY <2>1, TotalSums
  <2>3. g[r] = h[r]
    BY <1>1, <2>1, <2>2, SumUnique DEF Counted
  <2> QED BY <1>1, <1>2, <1>3, <2>2, <2>3
<1> QED BY <1>1, <1>2, <1>3

\* Any element may be taken out first, not only the chosen one.
LEMMA TotalRemove ==
  ASSUME NEW f, NEW S, Counted(f, S), NEW x \in S
  PROVE  Total(f, S) = f[x] + Total(f, S \ {x})
<1> DEFINE Wrong(s) == \E y \in s : Total(f, s) # f[y] + Total(f, s \ {y})
           Bad == {i \in Nat : \E s \in SUBSET S : Cardinality(s) = i /\ Wrong(s)}
<1> SUFFICES ASSUME Wrong(S) PROVE FALSE
  OBVIOUS
<1>1. \A s \in SUBSET S : IsFiniteSet(s) /\ Cardinality(s) \in Nat /\ Counted(f, s)
  BY FS_Subset, FS_CardinalityType DEF Counted
<1>2. PICK i \in Bad : \A j \in Bad : i <= j
  <2>1. Bad \subseteq Nat /\ Cardinality(S) \in Bad
    BY <1>1
  <2> HIDE DEF Bad
  <2> QED BY <2>1, NatLeast
<1>3. PICK s \in SUBSET S : Cardinality(s) = i /\ Wrong(s)
  BY <1>2
<1>4. PICK y \in s : Total(f, s) # f[y] + Total(f, s \ {y})
  BY <1>3
<1> DEFINE c == Chosen(s)
<1>5. IsFiniteSet(s) /\ Cardinality(s) \in Nat /\ Counted(f, s) /\ s # {}
  BY <1>1, <1>4
<1>6. /\ c \in s /\ c # y /\ Total(f, s) = f[c] + Total(f, s \ {c})
  <2>1. c \in s
    BY <1>5, OneLess
  <2>2. Total(f, s) = f[c] + Total(f, s \ {c})
    BY <1>5, TotalBy
  <2> HIDE DEF c
  <2> QED BY <1>4, <2>1, <2>2
<1>7. ASSUME NEW a \in s, NEW b \in s, a # b
      PROVE  Total(f, s \ {a}) = f[b] + Total(f, (s \ {a}) \ {b})
  <2>1. s \ {a} \in SUBSET S /\ Cardinality(s \ {a}) \in Nat /\ Cardinality(s \ {a}) < i
    <3>1. /\ IsFiniteSet(s \ {a}) /\ Cardinality(s \ {a}) = Cardinality(s) - 1
          /\ Cardinality(s \ {a}) \in Nat
      BY <1>5, OneLess
    <3> QED BY <1>3, <1>5, <3>1
  <2>2. Cardinality(s \ {a}) \notin Bad
    <3> HIDE DEF Bad
    <3>1. i \in Nat
      BY <1>3, <1>5
    <3> QED BY <1>2, <2>1, <3>1
  <2>3. ~Wrong(s \ {a})
    BY <2>1, <2>2
  <2> QED BY <1>7, <2>3
<1>8. (s \ {c}) \ {y} = (s \ {y}) \ {c}
  OBVIOUS
<1> DEFINE both == Total(f, (s \ {c}) \ {y})
<1>9. f[c] \in Int /\ f[y] \in Int /\ both \in Int
  <2>1. c \in S /\ y \in S /\ (s \ {c}) \ {y} \in SUBSET S
    BY <1>6
  <2> QED BY <1>1, <2>1, TotalBy DEF Counted
<1>10. Total(f, s \ {c}) = f[y] + both /\ Total(f, s \ {y}) = f[c] + both
  BY <1>4, <1>6, <1>7, <1>8
<1> HIDE DEF c, both
<1> QED BY <1>4, <1>6, <1>9, <1>10

\* One value changes by d, the sum changes by d.
LEMMA TotalMoves ==
  ASSUME NEW f, NEW g, NEW S, Counted(f, S), NEW x \in S, NEW d \in Int,
         \A k \in S \ {x} : g[k] = f[k], g[x] = f[x] + d
  PROVE  Total(g, S) = Total(f, S) + d
<1> DEFINE r == S \ {x}
           rest == Total(f, r)
<1>1. Counted(f, r) /\ Counted(g, S) /\ f[x] \in Int /\ \A k \in r : g[k] = f[k]
  <2>1. IsFiniteSet(r)
    BY FS_RemoveElement DEF Counted
  <2>2. \A k \in S : k # x => g[k] = f[k]
    OBVIOUS
  <2>3. f[x] + d \in Int
    BY DEF Counted
  <2> QED BY <2>1, <2>2, <2>3 DEF Counted
<1> HIDE DEF r
<1>2. Total(f, S) = f[x] + rest /\ Total(g, S) = g[x] + Total(g, r)
  BY <1>1, TotalRemove DEF r
<1>3. Total(g, r) = rest
  BY <1>1, TotalAgrees
<1>4. rest \in Int
  BY <1>1, TotalBy
<1> HIDE DEF rest
<1> QED BY <1>1, <1>2, <1>3, <1>4

\* The sum over the n slots from a; g's values from b are f's from a.
OverBlock(f, a, n) == Total(f, a .. a + n - 1)
SameBlock(f, a, g, b, n) == \A k \in 0 .. n - 1 : f[a + k] \in Int /\ g[b + k] = f[a + k]

\* Blocks with the same values in order have the same sum; zeros sum to zero.
LEMMA TotalBlock ==
  ASSUME NEW f, NEW g, NEW a \in Nat, NEW b \in Nat, NEW n \in Nat,
         SameBlock(f, a, g, b, n)
  PROVE  OverBlock(f, a, n) = OverBlock(g, b, n)
<1>0. \A k \in 0 .. n - 1 : f[a + k] \in Int /\ g[b + k] = f[a + k]
  BY DEF SameBlock
<1> DEFINE Same(m) == Total(f, a .. a + m - 1) = Total(g, b .. b + m - 1)
           Bad == {m \in 0 .. n : ~Same(m)}
<1>1. Bad = {}
  <2> SUFFICES ASSUME Bad # {} PROVE FALSE
    OBVIOUS
  <2>1. PICK m \in Bad : \A i \in Bad : m <= i
    <3>1. Bad \subseteq Nat
      OBVIOUS
    <3> HIDE DEF Bad
    <3> QED BY <3>1, NatLeast
  <2>2. m \in 0 .. n /\ ~Same(m)
    OBVIOUS
  <2>3. \A i \in 0 .. n : Counted(f, a .. a + i - 1) /\ Counted(g, b .. b + i - 1)
    <3> TAKE i \in 0 .. n
    <3>1. \A k \in a .. a + i - 1 : f[k] \in Int
      <4> TAKE k \in a .. a + i - 1
      <4>1. k - a \in 0 .. n - 1 /\ a + (k - a) = k
        OBVIOUS
      <4> QED BY <4>1, <1>0
    <3>2. \A k \in b .. b + i - 1 : g[k] \in Int
      <4> TAKE k \in b .. b + i - 1
      <4>1. k - b \in 0 .. n - 1 /\ b + (k - b) = k
        OBVIOUS
      <4> QED BY <4>1, <1>0
    <3>3. IsFiniteSet(a .. a + i - 1) /\ IsFiniteSet(b .. b + i - 1)
      <4>1. a \in Int /\ b \in Int /\ a + i - 1 \in Int /\ b + i - 1 \in Int
        OBVIOUS
      <4> QED BY <4>1, FS_Interval
    <3> QED BY <3>1, <3>2, <3>3 DEF Counted
  <2>4. CASE m = 0
    <3>1. a .. a + m - 1 = {} /\ b .. b + m - 1 = {}
      BY <2>4
    <3>2. Same(m)
      BY <2>2, <2>3, <3>1, TotalBy
    <3> QED BY <2>2, <3>2
  <2>5. CASE m # 0
    <3> DEFINE p == m - 1
    <3>1. p \in 0 .. n - 1 /\ p \in 0 .. n /\ p \in Nat
      BY <2>2, <2>5
    <3>2. /\ a + p \in a .. a + m - 1 /\ (a .. a + m - 1) \ {a + p} = a .. a + p - 1
          /\ b + p \in b .. b + m - 1 /\ (b .. b + m - 1) \ {b + p} = b .. b + p - 1
      BY <3>1
    <3>3. /\ Total(f, a .. a + m - 1) = f[a + p] + Total(f, a .. a + p - 1)
          /\ Total(g, b .. b + m - 1) = g[b + p] + Total(g, b .. b + p - 1)
      <4>1. Counted(f, a .. a + m - 1) /\ Counted(g, b .. b + m - 1)
        BY <2>2, <2>3
      <4> DEFINE F == a .. a + m - 1
                 G == b .. b + m - 1
      <4> HIDE DEF p, F, G
      <4>2. /\ Total(f, F) = f[a + p] + Total(f, F \ {a + p})
            /\ Total(g, G) = g[b + p] + Total(g, G \ {b + p})
        <5>1. Counted(f, F) /\ Counted(g, G) /\ a + p \in F /\ b + p \in G
          BY <4>1, <3>2 DEF F, G
        <5> DEFINE x == a + p
                   y == b + p
        <5> HIDE DEF x, y
        <5>2. x \in F /\ y \in G
          BY <5>1 DEF x, y
        <5>3. Total(f, F) = f[x] + Total(f, F \ {x})
          BY <5>1, <5>2, TotalRemove
        <5>4. Total(g, G) = g[y] + Total(g, G \ {y})
          BY <5>1, <5>2, TotalRemove
        <5> QED BY <5>3, <5>4 DEF x, y
      <4> QED BY <4>2, <3>2 DEF F, G
    <3>4. Same(p)
      <4>1. ~(m <= p)
        BY <2>2, <3>1
      <4>2. p \notin Bad
        <5> HIDE DEF Bad, p
        <5> QED BY <2>1, <4>1
      <4> HIDE DEF p, Same
      <4> QED BY <3>1, <4>2
    <3>5. g[b + p] = f[a + p]
      BY <3>1, <1>0
    <3> HIDE DEF p
    <3> QED BY <2>2, <3>3, <3>4, <3>5
  <2> QED BY <2>4, <2>5
<1>2. n \in 0 .. n
  OBVIOUS
<1>3. Same(n)
  <2> HIDE DEF Same
  <2> QED BY <1>1, <1>2
<1> QED BY <1>3 DEF OverBlock

LEMMA TotalZero ==
  ASSUME NEW f, NEW S, IsFiniteSet(S), \A k \in S : f[k] = 0
  PROVE  Total(f, S) = 0
<1> DEFINE g == [s \in SUBSET S |-> 0]
<1>1. Sums(f, S, g)
  <2>1. ASSUME NEW s \in SUBSET S
        PROVE  0 = IF s = {} THEN 0 ELSE f[Chosen(s)] + g[s \ {Chosen(s)}]
    <3>1. CASE s # {}
      <4>1. Chosen(s) \in s
        BY <3>1 DEF Chosen
      <4> QED BY <4>1
    <3> QED BY <3>1
  <2> QED BY <2>1 DEF Sums
<1>2. PICK h \in [SUBSET S -> Int] : Sums(f, S, h) /\ h[S] = Total(f, S)
  <2>1. Counted(f, S)
    BY DEF Counted
  <2> QED BY <2>1, TotalSums
<1>3. g[S] = h[S]
  BY <1>1, <1>2, SumUnique
<1> QED BY <1>2, <1>3

-----------------------------------------------------------------------------
(* A value on its way up *)

\* A node's children are the slots of its block, the ones whose parent it is.
LEMMA ChildrenAre ==
  ASSUME NEW pool, Shape(pool), NEW i \in 1 .. Len(pool)
  PROVE  /\ Children(pool, i) = pool[i].first .. pool[i].first + pool[i].count - 1
         /\ pool[i].first = 0 => Children(pool, i) = {}
         /\ IsFiniteSet(Children(pool, i)) /\ Children(pool, i) \subseteq 1 .. Len(pool)
         /\ \A c \in 1 .. Len(pool) : c \in Children(pool, i) <=> c # 1 /\ pool[c].parent = i
<1> DEFINE a == pool[i].first
           n == pool[i].count
           N == Len(pool)
<1>1. /\ a \in Nat /\ n \in Nat /\ N \in Nat /\ DOMAIN pool = 1 .. N
      /\ a = 0 => n = 0
      /\ a # 0 => a > i /\ a + n - 1 <= N
  BY ShapeFacts DEF Shape, Nodes
<1>2. Children(pool, i) = {c \in 1 .. N : a <= c /\ c < a + n}
  BY <1>1 DEF Children
<1> HIDE DEF a, n, N
<1>3. Children(pool, i) = a .. a + n - 1
  <2>1. \A c \in 1 .. N : (a <= c /\ c < a + n) <=> c \in a .. a + n - 1
    BY <1>1
  <2>2. \A c \in a .. a + n - 1 : c \in 1 .. N
    <3> TAKE c \in a .. a + n - 1
    <3>1. a # 0
      BY <1>1
    <3> QED BY <3>1, <1>1 DEF N
  <2> QED BY <1>2, <2>1, <2>2
<1>4. a = 0 => Children(pool, i) = {}
  BY <1>1, <1>3
<1>5. IsFiniteSet(Children(pool, i))
  <2>1. a \in Int /\ a + n - 1 \in Int
    BY <1>1
  <2> QED BY <2>1, <1>3, FS_Interval
<1>6. ASSUME NEW c \in 1 .. N
      PROVE  c \in Children(pool, i) <=> c # 1 /\ pool[c].parent = i
  <2>1. c \in Children(pool, i) => c # 1 /\ pool[c].parent = i
    BY ChildIs
  <2>2. c # 1 /\ pool[c].parent = i => a <= c /\ c < a + n
    BY DEF Shape, a, n, N
  <2> QED BY <1>2, <2>1, <2>2
<1> QED BY <1>2, <1>3, <1>4, <1>5, <1>6 DEF a, n, N

\* A path goes from each of its slots but the last to one child, and skips none.
LEMMA PathChain ==
  ASSUME NEW pool, Shape(pool), NEW leaf \in 1 .. Len(pool)
  PROVE  /\ leaf \in Above(pool, leaf)
         /\ \A i \in Above(pool, leaf) : i # leaf => \E c \in Above(pool, leaf) : c # 1 /\ pool[c].parent = i
         /\ \A c, j \in Above(pool, leaf) : c # 1 /\ j > pool[c].parent => j >= c
<1> DEFINE N == Len(pool)
           Up(l) == Above(pool, l)
           Good(l) == /\ l \in Up(l)
                      /\ \A i \in Up(l) : i # l => \E c \in Up(l) : c # 1 /\ pool[c].parent = i
                      /\ \A c, j \in Up(l) : c # 1 /\ j > pool[c].parent => j >= c
           Bad == {l \in 1 .. N : ~Good(l)}
<1>1. /\ N \in Nat /\ \A i \in 1 .. N : pool[i].parent \in 0 .. i - 1 /\ (pool[i].parent = 0 <=> i = 1)
      /\ Up(0) = {}
      /\ \A i \in 1 .. N : Up(i) = Up(pool[i].parent) \cup {i} /\ Up(i) \subseteq 1 .. i
  BY ShapeFacts, AboveUnfolds DEF Shape
<1> HIDE DEF Up
<1>2. Bad = {}
  <2> SUFFICES ASSUME Bad # {} PROVE FALSE
    OBVIOUS
  <2>1. PICK l \in Bad : \A m \in Bad : l <= m
    <3>1. Bad \subseteq Nat
      OBVIOUS
    <3> HIDE DEF Bad
    <3> QED BY <3>1, NatLeast
  <2>2. l \in 1 .. N /\ ~Good(l)
    OBVIOUS
  <2>3. CASE l = 1
    <3>1. Up(l) = {1}
      BY <1>1, <2>2, <2>3
    <3>2. Good(l)
      BY <2>3, <3>1
    <3> QED BY <2>2, <3>2
  <2>4. CASE l # 1
    <3> DEFINE p == pool[l].parent
    <3>1. p \in 1 .. N /\ p < l /\ Up(l) = Up(p) \cup {l} /\ Up(p) \subseteq 1 .. p
      BY <1>1, <2>2, <2>4, SMTT(30)
    <3>2. Good(p)
      <4>1. ~(l <= p)
        BY <1>1, <2>2, <3>1
      <4>2. p \notin Bad
        <5> HIDE DEF Bad, p
        <5> QED BY <2>1, <4>1
      <4> HIDE DEF p, Good
      <4> QED BY <3>1, <4>2
    <3>3. ASSUME NEW i \in Up(l), i # l PROVE \E c \in Up(l) : c # 1 /\ pool[c].parent = i
      <4>1. CASE i = p
        <5>1. l \in Up(l) /\ l # 1 /\ pool[l].parent = i
          BY <3>1, <2>4, <4>1
        <5> QED BY <5>1
      <4>2. CASE i # p
        <5>1. PICK c \in Up(p) : c # 1 /\ pool[c].parent = i
          BY <3>1, <3>2, <3>3, <4>2
        <5> QED BY <3>1, <5>1
      <4> QED BY <4>1, <4>2
    <3>4. ASSUME NEW c \in Up(l), NEW j \in Up(l), c # 1, j > pool[c].parent PROVE j >= c
      <4>1. CASE c = l
        <5>1. j \notin Up(p)
          BY <3>1, <3>4, <4>1
        <5> QED BY <3>1, <4>1, <5>1, <2>2
      <4>2. CASE c \in Up(p) /\ j = l
        <5>1. c \in 1 .. p
          BY <3>1, <4>2
        <5> QED BY <3>1, <4>2, <5>1, <1>1, <2>2
      <4>3. CASE c \in Up(p) /\ j \in Up(p)
        BY <3>2, <3>4, <4>3
      <4> QED BY <3>1, <4>1, <4>2, <4>3
    <3>5. l \in Up(l)
      BY <3>1
    <3>6. Good(l)
      BY <3>3, <3>4, <3>5
    <3> HIDE DEF Good
    <3> QED BY <2>2, <3>6
  <2> QED BY <2>3, <2>4
<1>3. Good(leaf)
  <2>1. leaf \notin Bad
    BY <1>2
  <2> HIDE DEF Good
  <2> QED BY <2>1
<1> QED BY <1>3 DEF Up

\* What an evaluation adds to the slots: its value at the leaf, turned where a
\* parent had the last stone of its turn.
Carried(pool, leaf, value, d) ==
    /\ d \in [1 .. Len(pool) -> Int] /\ d[leaf] = value
    /\ \A i \in 1 .. Len(pool) : i \notin Above(pool, leaf) => d[i] = 0
    /\ \A c \in Above(pool, leaf) : c # 1 =>
        d[pool[c].parent] = IF pool[pool[c].parent].mr = 2 THEN d[c] ELSE -d[c]

LEMMA BackupCarries ==
  ASSUME NEW pool, Shape(pool), NEW leaf \in 1 .. Len(pool), NEW value \in Int
  PROVE  \E d : /\ Carried(pool, leaf, value, d)
                /\ \A i \in 1 .. Len(pool) : Backup(pool, leaf, value)[i].w = pool[i].w + d[i]
<1> DEFINE N == Len(pool)
           path == Above(pool, leaf)
           turned(i) == { j \in path : j > i /\ Turns(pool, j) }
           part(i) == IF Cardinality(turned(i)) % 2 = 0 THEN value ELSE -value
           d == [i \in 1 .. N |-> IF i \in path THEN part(i) ELSE 0]
           new == Backup(pool, leaf, value)
<1>1. /\ N \in Nat /\ \A i \in 1 .. N : pool[i] \in Nodes
      /\ path \subseteq 1 .. leaf /\ path \subseteq 1 .. N /\ leaf \in path
      /\ \A k \in path : k # 1 => pool[k].parent \in path
      /\ \A c, j \in path : c # 1 /\ j > pool[c].parent => j >= c
  <2>1. path \subseteq 1 .. leaf /\ \A k \in path : k # 1 => pool[k].parent \in path
    BY AboveRoot
  <2>2. N \in Nat /\ \A i \in 1 .. N : pool[i] \in Nodes
    BY ShapeFacts
  <2>3. 1 .. leaf \subseteq 1 .. N
    BY <2>2
  <2> HIDE DEF N
  <2> QED BY <2>1, <2>2, <2>3, PathChain
<1>2. \A i \in 1 .. N : pool[i].mr \in {1, 2} /\ pool[i].w \in Int /\ pool[i].parent \in 0 .. i - 1
                        /\ (pool[i].parent = 0 <=> i = 1)
  BY <1>1 DEF Nodes, Shape
<1>3. \A i : turned(i) \subseteq path /\ IsFiniteSet(turned(i)) /\ Cardinality(turned(i)) \in Nat
  <2>1. leaf \in Int /\ 1 \in Int
    BY <1>1
  <2>2. IsFiniteSet(1 .. leaf)
    BY <2>1, FS_Interval
  <2> QED BY <2>2, <1>1, FS_Subset, FS_CardinalityType
<1>4. \A i \in 1 .. N : new[i].w = pool[i].w + d[i]
  <2> TAKE i \in 1 .. N
  <2>1. new[i] = IF i \notin path THEN pool[i]
                 ELSE [pool[i] EXCEPT !.n = @ + 1, !.w = @ + part(i), !.vl = IF @ > 0 THEN @ - 1 ELSE 0]
    BY ShapeFacts DEF Backup, Above
  <2>2. d[i] = IF i \in path THEN part(i) ELSE 0
    OBVIOUS
  <2>3. pool[i] \in Nodes /\ pool[i].w \in Int
    BY <1>1, <1>2
  <2> HIDE DEF part, path, d, new
  <2> QED BY <2>1, <2>2, <2>3 DEF Nodes
<1>5. \A i : part(i) \in Int
  OBVIOUS
<1>6. d \in [1 .. N -> Int] /\ \A i \in 1 .. N : d[i] = IF i \in path THEN part(i) ELSE 0
  <2> HIDE DEF part, path
  <2> QED BY <1>5
<1>7. d[leaf] = value
  <2>1. turned(leaf) = {}
    BY <1>1
  <2>2. part(leaf) = value
    BY <2>1, FS_EmptySet
  <2> HIDE DEF d, part
  <2> QED BY <1>1, <1>6, <2>2
<1>8. ASSUME NEW c \in path, c # 1
      PROVE  d[pool[c].parent] = IF pool[pool[c].parent].mr = 2 THEN d[c] ELSE -d[c]
  <2> DEFINE p == pool[c].parent
  <2>1. p \in path /\ p < c /\ p \in 1 .. N /\ c \in 1 .. N /\ p # 0
    BY <1>1, <1>2, <1>8
  <2>2. Turns(pool, c) <=> pool[p].mr = 1
    BY <2>1 DEF Turns
  <2>3. {j \in path : j > p} = {j \in path : j > c} \cup {c}
    <3>1. \A j \in path : j > p => j >= c
      BY <1>1, <1>8
    <3>2. \A j \in path : j \in Int
      BY <1>1
    <3> HIDE DEF path
    <3> QED BY <2>1, <3>1, <3>2
  <2>4. turned(p) = IF pool[p].mr = 1 THEN turned(c) \cup {c} ELSE turned(c)
    <3> HIDE DEF p
    <3> QED BY <2>2, <2>3
  <2>5. c \notin turned(c)
    BY <2>1
  <2> DEFINE k == Cardinality(turned(c))
  <2>6. k \in Nat /\ Cardinality(turned(p)) = IF pool[p].mr = 1 THEN k + 1 ELSE k
    <3>1. k \in Nat /\ IsFiniteSet(turned(c))
      BY <1>3
    <3> HIDE DEF turned, p
    <3> QED BY <2>4, <2>5, <3>1, FS_AddElement
  <2>7. d[p] = part(p) /\ d[c] = part(c)
    BY <1>6, <2>1
  <2>8. pool[p].mr \in {1, 2}
    BY <1>2, <2>1
  <2>9. part(p) = (IF Cardinality(turned(p)) % 2 = 0 THEN value ELSE -value)
        /\ part(c) = (IF k % 2 = 0 THEN value ELSE -value)
    OBVIOUS
  <2> HIDE DEF k, part, d, turned, p
  <2>10. (k + 1) % 2 = 0 <=> k % 2 # 0
    BY <2>6
  <2>11. d[p] = IF pool[p].mr = 2 THEN d[c] ELSE -d[c]
    BY <2>6, <2>7, <2>8, <2>9, <2>10
  <2> QED BY <2>11 DEF p
<1> HIDE DEF d, part, turned
<1>9. Carried(pool, leaf, value, d)
  BY <1>6, <1>7, <1>8 DEF Carried
<1> QED BY <1>4, <1>9 DEF new

\* One evaluation made in pool: value carried up, d[i] the share of node i, and the
\* leaf decided, or opened with children not yet visited on the value v.
EvaluatedBy(new, pool, leaf, v, value, d) ==
    /\ Carried(pool, leaf, value, d)
    /\ \A i \in 1 .. Len(pool) :
        /\ new[i].w = pool[i].w + d[i]
        /\ i # leaf => new[i].terminal = pool[i].terminal /\ new[i].tv = pool[i].tv
    /\ \/ /\ Len(new) = Len(pool) /\ new[leaf].terminal /\ new[leaf].tv = value
          /\ pool[leaf].terminal => pool[leaf].tv = value
       \/ /\ Len(new) > Len(pool) /\ value = v
          /\ ~pool[leaf].terminal /\ ~new[leaf].terminal
          /\ \A i \in Len(pool) + 1 .. Len(new) : new[i].w = 0 /\ ~new[i].terminal

Evaluated(new, pool, leaf, v) ==
    \E value \in Int : \E d : EvaluatedBy(new, pool, leaf, v, value, d)

LEMMA TerminalEvaluates ==
  ASSUME NEW pool, Shape(pool), NEW leaf \in 1 .. Len(pool), NEW v, pool[leaf].terminal
  PROVE  Evaluated(Backup(pool, leaf, pool[leaf].tv), pool, leaf, v)
<1> DEFINE value == pool[leaf].tv
           new == Backup(pool, leaf, value)
<1>1. value \in Int
  BY ShapeFacts DEF Nodes
<1> HIDE DEF value
<1>2. PICK d : Carried(pool, leaf, value, d) /\ \A i \in 1 .. Len(pool) : new[i].w = pool[i].w + d[i]
  BY <1>1, BackupCarries
<1>3. /\ Len(new) = Len(pool)
      /\ \A i \in 1 .. Len(pool) : new[i].terminal = pool[i].terminal /\ new[i].tv = pool[i].tv
  BY <1>1, BackupIs
<1> HIDE DEF new
<1>4. new[leaf].terminal /\ new[leaf].tv = value /\ pool[leaf].tv = value
  BY <1>3 DEF value
<1> QED BY <1>1, <1>2, <1>3, <1>4 DEF Evaluated, EvaluatedBy, new, value

LEMMA MarkEvaluates ==
  ASSUME NEW pool, Shape(pool), NEW leaf \in 1 .. Len(pool), NEW v, ~pool[leaf].terminal, NEW tv \in Int
  PROVE  Evaluated(MarkTerminal(pool, leaf, tv), pool, leaf, v)
<1> DEFINE old == Backup(pool, leaf, tv)
           new == MarkTerminal(pool, leaf, tv)
<1>1. PICK d : Carried(pool, leaf, tv, d) /\ \A i \in 1 .. Len(pool) : old[i].w = pool[i].w + d[i]
  BY BackupCarries
<1>2. /\ Len(old) = Len(pool) /\ old \in Seq(Nodes)
      /\ \A i \in 1 .. Len(pool) : old[i].terminal = pool[i].terminal /\ old[i].tv = pool[i].tv
  BY BackupIs DEF Backed
<1>3. DOMAIN old = 1 .. Len(pool) /\ \A i \in 1 .. Len(pool) : old[i] \in Nodes
  BY <1>2, LenProperties, ElementOfSeq
<1>4. new = [old EXCEPT ![leaf].terminal = TRUE, ![leaf].tv = tv]
  BY DEF MarkTerminal
<1>5. Len(new) = Len(pool)
  BY MarkTerminalIs
<1> HIDE DEF old, new
<1>6. new[leaf].terminal = TRUE /\ new[leaf].tv = tv /\ new[leaf].w = old[leaf].w
  BY <1>3, <1>4 DEF Nodes
<1>7. \A i \in 1 .. Len(pool) : i # leaf => new[i] = old[i]
  BY <1>3, <1>4
<1>8. \A i \in 1 .. Len(pool) :
        /\ new[i].w = pool[i].w + d[i]
        /\ i # leaf => new[i].terminal = pool[i].terminal /\ new[i].tv = pool[i].tv
  BY <1>1, <1>2, <1>6, <1>7
<1> QED BY <1>1, <1>5, <1>6, <1>8 DEF Evaluated, EvaluatedBy, new

LEMMA ExpansionEvaluates ==
  ASSUME NEW pool, Shape(pool), NEW leaf \in 1 .. Len(pool), ~pool[leaf].terminal, pool[leaf].first = 0,
         NEW b \in Seq(Cells), LegalMoves(b) # {}
  PROVE  Evaluated(FinishExpansion(pool, leaf, b), pool, leaf, Net(Position(b)))
<1> DEFINE N == Len(pool)
           value == Net(Position(b))
           cells == PickTopK(b)
           mr == IF pool[leaf].mr = 1 THEN 2 ELSE 1
           old == Backup(pool, leaf, value)
           head == [old EXCEPT ![leaf].first = N + 1, ![leaf].count = Len(cells)]
           tail == [j \in 1 .. Len(cells) |-> Node(leaf, cells[j], mr)]
           new == FinishExpansion(pool, leaf, b)
<1>1. value \in Int
  BY PositionType, ValuesAssumption
<1>2. /\ Len(new) = N + Len(cells) /\ Len(new) > N
      /\ \A i \in N + 1 .. Len(new) : new[i] = Node(leaf, cells[i - N], mr)
  BY FinishExpansionIs
<1>3. new = head \o tail
  BY DEF FinishExpansion
<1> HIDE DEF value
<1>4. PICK d : Carried(pool, leaf, value, d) /\ \A i \in 1 .. N : old[i].w = pool[i].w + d[i]
  BY <1>1, BackupCarries
<1>5. /\ Len(old) = N /\ old \in Seq(Nodes)
      /\ \A i \in 1 .. N : old[i].terminal = pool[i].terminal /\ old[i].tv = pool[i].tv
  BY <1>1, BackupIs DEF Backed
<1>6. N \in Nat /\ DOMAIN old = 1 .. N /\ \A i \in 1 .. N : old[i] \in Nodes
  BY <1>5, LenProperties, ElementOfSeq, ShapeFacts
<1> HIDE DEF old, new, cells, mr
<1>7. \A i \in 1 .. N : head[i].w = old[i].w /\ head[i].terminal = old[i].terminal /\ head[i].tv = old[i].tv
  <2> TAKE i \in 1 .. N
  <2>1. old[i] \in Nodes
    BY <1>6
  <2>2. head[i] = IF i = leaf THEN [old[leaf] EXCEPT !.first = N + 1, !.count = Len(cells)] ELSE old[i]
    BY <1>6
  <2> HIDE DEF head
  <2> QED BY <2>1, <2>2 DEF Nodes
<1>8. \A i \in 1 .. N : new[i] = head[i]
  <2>1. DOMAIN head = 1 .. N /\ Len(head) = N
    BY <1>5, <1>6
  <2>2. ASSUME NEW i \in 1 .. N PROVE (head \o tail)[i] = head[i]
    BY <2>1
  <2> HIDE DEF head, tail
  <2> QED BY <1>3, <2>2
<1>9. \A i \in 1 .. N :
        /\ new[i].w = pool[i].w + d[i]
        /\ i # leaf => new[i].terminal = pool[i].terminal /\ new[i].tv = pool[i].tv
  BY <1>4, <1>5, <1>7, <1>8
<1>10. ~new[leaf].terminal
  BY <1>5, <1>7, <1>8
<1>11. \A i \in N + 1 .. Len(new) : new[i].w = 0 /\ ~new[i].terminal
  <2> TAKE i \in N + 1 .. Len(new)
  <2>1. new[i] = Node(leaf, cells[i - N], mr)
    BY <1>2
  <2> QED BY ONLY <2>1 DEF Node
<1> QED BY <1>1, <1>2, <1>4, <1>9, <1>10, <1>11 DEF Evaluated, EvaluatedBy, new, value

LEMMA ExpandEvaluates ==
  ASSUME NEW pool, Shape(pool), NEW leaf \in 1 .. Len(pool), pool[leaf].first = 0, NEW b \in Seq(Cells)
  PROVE  Evaluated(ExpandLeaf(pool, leaf, b), pool, leaf, Net(Position(b)))
<1> DEFINE node == pool[leaf]
<1>1. node.terminal \in BOOLEAN /\ ~IsExpanded(node)
  BY ShapeFacts DEF Nodes, IsExpanded
<1>2. TerminalValueToMove(b) \in Int
  BY PositionType
<1> HIDE DEF node
<1>3. CASE node.terminal
  <2>1. ExpandLeaf(pool, leaf, b) = Backup(pool, leaf, node.tv)
    BY <1>3 DEF ExpandLeaf, node
  <2> QED BY <2>1, <1>3, TerminalEvaluates DEF node
<1>4. CASE ~node.terminal /\ CheckWin(b)
  <2>1. ExpandLeaf(pool, leaf, b) = MarkTerminal(pool, leaf, TerminalValueToMove(b))
    BY <1>1, <1>4 DEF ExpandLeaf, node
  <2> QED BY <2>1, <1>2, <1>4, MarkEvaluates DEF node
<1>5. CASE ~node.terminal /\ ~CheckWin(b) /\ LegalMoves(b) = {}
  <2>1. ExpandLeaf(pool, leaf, b) = MarkTerminal(pool, leaf, 0)
    BY <1>1, <1>5 DEF ExpandLeaf, node
  <2> QED BY <2>1, <1>5, MarkEvaluates DEF node
<1>6. CASE ~node.terminal /\ ~CheckWin(b) /\ LegalMoves(b) # {}
  <2>1. ExpandLeaf(pool, leaf, b) = FinishExpansion(pool, leaf, b)
    BY <1>1, <1>6 DEF ExpandLeaf, node
  <2> QED BY <2>1, <1>6, ExpansionEvaluates DEF node
<1> QED BY <1>1, <1>3, <1>4, <1>5, <1>6

LEMMA DecidedEvaluates ==
  ASSUME NEW pool, Shape(pool), NEW leaf \in 1 .. Len(pool), NEW b \in Seq(Cells), NEW v
  PROVE  Evaluated(DecidedLeaf(pool, leaf, b), pool, leaf, v)
<1> DEFINE tv == IF CheckWin(b) THEN TerminalValueToMove(b) ELSE Verdict(Position(b))
<1>1. tv \in Int /\ pool[leaf].terminal \in BOOLEAN
  BY PositionType, ValuesAssumption, ShapeFacts DEF Nodes
<1>2. DecidedLeaf(pool, leaf, b) = IF pool[leaf].terminal THEN Backup(pool, leaf, pool[leaf].tv)
                                   ELSE MarkTerminal(pool, leaf, tv)
  BY DEF DecidedLeaf
<1> HIDE DEF tv
<1> QED BY <1>1, <1>2, TerminalEvaluates, MarkEvaluates

-----------------------------------------------------------------------------
(* The sums of the tree *)

VisitsOf(pool) == [c \in 1 .. Len(pool) |-> pool[c].n]

\* The values of a node's children, seen from the node.
SeenOf(pool, i) == [c \in 1 .. Len(pool) |-> IF pool[i].mr = 2 THEN pool[c].w ELSE -pool[c].w]

\* TreeAddsUp at one slot, where the net says v.
NodeAdds(pool, i, v) ==
    LET node == pool[i]
        below == Children(pool, i)
    IN  IF node.terminal THEN node.first = 0 /\ node.n > 0 /\ node.w = node.n * node.tv
        ELSE IF node.first = 0 THEN node.n = 0 /\ node.w = 0
        ELSE /\ node.n = 1 + Total(VisitsOf(pool), below)
             /\ node.w = v + Total(SeenOf(pool, i), below)

LEMMA OfTypes ==
  ASSUME NEW pool, Shape(pool), NEW i \in 1 .. Len(pool)
  PROVE  /\ Counted(VisitsOf(pool), Children(pool, i)) /\ Counted(SeenOf(pool, i), Children(pool, i))
         /\ Total(VisitsOf(pool), Children(pool, i)) \in Int /\ Total(SeenOf(pool, i), Children(pool, i)) \in Int
<1>1. \A c \in 1 .. Len(pool) : pool[c].n \in Int /\ pool[c].w \in Int
  BY ShapeFacts DEF Nodes
<1>2. IsFiniteSet(Children(pool, i)) /\ Children(pool, i) \subseteq 1 .. Len(pool)
  BY ChildrenAre
<1>3. Counted(VisitsOf(pool), Children(pool, i))
  BY <1>1, <1>2 DEF Counted, VisitsOf
<1>4. Counted(SeenOf(pool, i), Children(pool, i))
  <2>1. \A c \in 1 .. Len(pool) : (IF pool[i].mr = 2 THEN pool[c].w ELSE -pool[c].w) \in Int
    BY <1>1
  <2> QED BY <2>1, <1>2 DEF Counted, SeenOf
<1> QED BY <1>3, <1>4, TotalBy

\* Off the path nothing moves.
LEMMA AddsOff ==
  ASSUME NEW pool, Shape(pool), NEW new, Shape(new), Len(new) >= Len(pool), NEW i \in 1 .. Len(pool), NEW v,
         new[i].first = pool[i].first, new[i].count = pool[i].count, new[i].mr = pool[i].mr,
         new[i].n = pool[i].n, new[i].w = pool[i].w,
         new[i].terminal = pool[i].terminal, new[i].tv = pool[i].tv,
         \A c \in Children(pool, i) : new[c].n = pool[c].n /\ new[c].w = pool[c].w,
         NodeAdds(pool, i, v)
  PROVE  NodeAdds(new, i, v)
<1> DEFINE below == Children(pool, i)
<1>1. Len(pool) \in Nat /\ Len(new) \in Nat /\ i \in 1 .. Len(new)
  BY ShapeFacts
<1>2. Children(new, i) = below /\ below \subseteq 1 .. Len(pool)
  BY <1>1, ChildrenAre
<1>3. \A c \in below : c \in 1 .. Len(pool) /\ c \in 1 .. Len(new)
  BY <1>1, <1>2
<1> HIDE DEF below
<1>4. \A c \in below : VisitsOf(new)[c] = VisitsOf(pool)[c] /\ SeenOf(new, i)[c] = SeenOf(pool, i)[c]
  BY <1>3 DEF VisitsOf, SeenOf, below
<1>5. Counted(VisitsOf(pool), below) /\ Counted(SeenOf(pool, i), below)
  BY OfTypes DEF below
<1>6. Total(VisitsOf(new), below) = Total(VisitsOf(pool), below)
      /\ Total(SeenOf(new, i), below) = Total(SeenOf(pool, i), below)
  BY <1>4, <1>5, TotalAgrees
<1> QED BY <1>2, <1>6 DEF NodeAdds, below

\* On the path, one child moves by what its parent does.
Visited(new, pool, i, c, d, e) ==
    /\ new[i].first = pool[i].first /\ new[i].count = pool[i].count /\ new[i].mr = pool[i].mr
    /\ new[i].terminal = pool[i].terminal /\ new[i].tv = pool[i].tv
    /\ new[c].n = pool[c].n + 1 /\ new[c].w = pool[c].w + d
    /\ new[i].n = pool[i].n + 1 /\ new[i].w = pool[i].w + e
    /\ e = IF pool[i].mr = 2 THEN d ELSE -d
    /\ \A k \in Children(pool, i) : k # c => new[k].n = pool[k].n /\ new[k].w = pool[k].w

LEMMA AddsOn ==
  ASSUME NEW pool, Shape(pool), NEW new, Shape(new), Len(new) >= Len(pool), NEW i \in 1 .. Len(pool), NEW v \in Int,
         NEW c \in Children(pool, i), NEW d \in Int, NEW e \in Int, Visited(new, pool, i, c, d, e),
         NodeAdds(pool, i, v)
  PROVE  NodeAdds(new, i, v)
<1> DEFINE below == Children(pool, i)
<1>0. /\ new[i].first = pool[i].first /\ new[i].count = pool[i].count /\ new[i].mr = pool[i].mr
      /\ new[i].terminal = pool[i].terminal /\ new[i].tv = pool[i].tv
      /\ new[c].n = pool[c].n + 1 /\ new[c].w = pool[c].w + d
      /\ new[i].n = pool[i].n + 1 /\ new[i].w = pool[i].w + e
      /\ e = IF pool[i].mr = 2 THEN d ELSE -d
      /\ \A k \in Children(pool, i) : k # c => new[k].n = pool[k].n /\ new[k].w = pool[k].w
  BY DEF Visited
<1>1. Len(pool) \in Nat /\ Len(new) \in Nat /\ i \in 1 .. Len(new)
  BY ShapeFacts
<1>2. Children(new, i) = below /\ below \subseteq 1 .. Len(pool) /\ pool[i].first # 0
  BY <1>0, <1>1, ChildrenAre
<1>3. \A k \in below : k \in 1 .. Len(pool) /\ k \in 1 .. Len(new)
  BY <1>1, <1>2
<1>4. pool[c].n \in Int /\ pool[c].w \in Int /\ pool[i].n \in Int /\ pool[i].w \in Int
  BY <1>3, ShapeFacts, SMTT(30) DEF Nodes
<1> HIDE DEF below
<1>5. c \in below /\ \A k \in below \ {c} : new[k].n = pool[k].n /\ new[k].w = pool[k].w
  BY <1>0 DEF below
<1>6. \A k \in below \ {c} : VisitsOf(new)[k] = VisitsOf(pool)[k] /\ SeenOf(new, i)[k] = SeenOf(pool, i)[k]
  BY <1>0, <1>3, <1>5 DEF VisitsOf, SeenOf
<1>7. VisitsOf(new)[c] = VisitsOf(pool)[c] + 1
  BY <1>0, <1>3, <1>5 DEF VisitsOf
<1>8. SeenOf(new, i)[c] = SeenOf(pool, i)[c] + e
  <2>1. SeenOf(new, i)[c] = IF pool[i].mr = 2 THEN pool[c].w + d ELSE -(pool[c].w + d)
    BY <1>0, <1>3, <1>5 DEF SeenOf
  <2>2. SeenOf(pool, i)[c] = IF pool[i].mr = 2 THEN pool[c].w ELSE -pool[c].w
    BY <1>3, <1>5 DEF SeenOf
  <2> DEFINE x == pool[c].w
  <2>3. x \in Int
    BY <1>4
  <2> HIDE DEF x
  <2>4. -(x + d) = -x + (-d)
    BY <2>3
  <2> QED BY <1>0, <2>1, <2>2, <2>4 DEF x
<1>9. Counted(VisitsOf(pool), below) /\ Counted(SeenOf(pool, i), below)
      /\ Total(VisitsOf(pool), below) \in Int /\ Total(SeenOf(pool, i), below) \in Int
  BY OfTypes DEF below
<1>10. Total(VisitsOf(new), below) = Total(VisitsOf(pool), below) + 1
  BY <1>5, <1>6, <1>7, <1>9, TotalMoves
<1>11. Total(SeenOf(new, i), below) = Total(SeenOf(pool, i), below) + e
  BY <1>5, <1>6, <1>8, <1>9, TotalMoves
<1>12. ~pool[i].terminal /\ pool[i].n = 1 + Total(VisitsOf(pool), below)
       /\ pool[i].w = v + Total(SeenOf(pool, i), below)
  BY <1>2 DEF NodeAdds, below
<1>13. new[i].n = 1 + Total(VisitsOf(new), below) /\ new[i].w = v + Total(SeenOf(new, i), below)
  <2> DEFINE tn == Total(VisitsOf(pool), below)
             ts == Total(SeenOf(pool, i), below)
             n == pool[i].n
             w == pool[i].w
  <2>1. tn \in Int /\ ts \in Int /\ n \in Int /\ w \in Int /\ n = 1 + tn /\ w = v + ts
    BY <1>4, <1>9, <1>12
  <2>2. new[i].n = n + 1 /\ new[i].w = w + e
    BY <1>0
  <2>3. Total(VisitsOf(new), below) = tn + 1 /\ Total(SeenOf(new, i), below) = ts + e
    BY <1>10, <1>11
  <2> HIDE DEF tn, ts, n, w
  <2>4. n + 1 = 1 + (tn + 1) /\ w + e = v + (ts + e)
    BY <2>1
  <2> QED BY ONLY <2>2, <2>3, <2>4
<1> QED BY <1>0, <1>2, <1>12, <1>13 DEF NodeAdds

\* Every slot adds up where the net says V of it.
AddsBy(pool, V) == \A i \in 1 .. Len(pool) : V[i] \in Int /\ NodeAdds(pool, i, V[i])

LEMMA EvaluatedAdds ==
  ASSUME NEW pool, Shape(pool), NEW leaf \in 1 .. Len(pool), pool[leaf].first = 0, NEW V, AddsBy(pool, V),
         NEW new, Backed(new, pool, leaf), Evaluated(new, pool, leaf, V[leaf])
  PROVE  /\ \A i \in 1 .. Len(pool) : NodeAdds(new, i, V[i])
         /\ \A i \in Len(pool) + 1 .. Len(new) : \A v : NodeAdds(new, i, v)
<1> DEFINE N == Len(pool)
           path == Above(pool, leaf)
<1>1. Shape(new) /\ Len(new) \in Nat /\ N \in Nat /\ Len(new) >= N
  BY BackedShape, ShapeFacts DEF Backed
<1>0. PICK value \in Int : \E d : EvaluatedBy(new, pool, leaf, V[leaf], value, d)
  BY DEF Evaluated
<1>2. PICK d :
        /\ Carried(pool, leaf, value, d)
        /\ \A i \in 1 .. N :
            /\ new[i].w = pool[i].w + d[i]
            /\ i # leaf => new[i].terminal = pool[i].terminal /\ new[i].tv = pool[i].tv
        /\ \/ /\ Len(new) = N /\ new[leaf].terminal /\ new[leaf].tv = value
              /\ pool[leaf].terminal => pool[leaf].tv = value
           \/ /\ Len(new) > N /\ value = V[leaf]
              /\ ~pool[leaf].terminal /\ ~new[leaf].terminal
              /\ \A i \in N + 1 .. Len(new) : new[i].w = 0 /\ ~new[i].terminal
  BY <1>0 DEF EvaluatedBy
<1>3. \A i \in 1 .. N :
        /\ new[i].mr = pool[i].mr
        /\ new[i].n = pool[i].n + IF i \in path THEN 1 ELSE 0
        /\ i # leaf => new[i].first = pool[i].first /\ new[i].count = pool[i].count
  BY DEF Backed
<1>4. \A i \in 1 .. N : pool[i].n \in Nat /\ pool[i].w \in Int /\ d[i] \in Int /\ pool[i].tv \in Int
  BY <1>2, ShapeFacts DEF Nodes, Carried
<1>5. /\ path \subseteq 1 .. N /\ leaf \in path
      /\ \A i \in path : i # leaf => \E c \in path : c # 1 /\ pool[c].parent = i
      /\ \A c, j \in path : c # 1 /\ j > pool[c].parent => j >= c
      /\ \A k \in path : k # 1 => pool[k].parent \in path
  <2>1. path \subseteq 1 .. leaf /\ \A k \in path : k # 1 => pool[k].parent \in path
    BY AboveRoot
  <2>2. 1 .. leaf \subseteq 1 .. N
    BY <1>1
  <2> QED BY <2>1, <2>2, PathChain
<1>6. /\ d[leaf] = value /\ \A i \in 1 .. N : i \notin path => d[i] = 0
      /\ \A c \in path : c # 1 => d[pool[c].parent] = IF pool[pool[c].parent].mr = 2 THEN d[c] ELSE -d[c]
  BY <1>2 DEF Carried
<1> HIDE DEF path
<1>7. ASSUME NEW i \in 1 .. N, i \notin path PROVE NodeAdds(new, i, V[i])
  <2>1. i # leaf /\ new[i].n = pool[i].n /\ new[i].w = pool[i].w
    BY <1>2, <1>3, <1>4, <1>5, <1>6, <1>7
  <2>2. ASSUME NEW c \in Children(pool, i) PROVE new[c].n = pool[c].n /\ new[c].w = pool[c].w
    <3>1. c \in 1 .. N /\ c # 1 /\ pool[c].parent = i
      BY ChildIs
    <3>2. c \notin path
      BY <3>1, <1>5, <1>7
    <3> QED BY <3>1, <3>2, <1>2, <1>3, <1>4, <1>6
  <2>3. NodeAdds(pool, i, V[i])
    BY DEF AddsBy
  <2>4. /\ new[i].first = pool[i].first /\ new[i].count = pool[i].count /\ new[i].mr = pool[i].mr
        /\ new[i].terminal = pool[i].terminal /\ new[i].tv = pool[i].tv
    BY <1>2, <1>3, <2>1
  <2> QED BY <1>1, <2>1, <2>2, <2>3, <2>4, AddsOff
<1>8. ASSUME NEW i \in path, i # leaf PROVE NodeAdds(new, i, V[i])
  <2>1. PICK c \in path : c # 1 /\ pool[c].parent = i
    BY <1>5, <1>8
  <2>2. i \in 1 .. N /\ c \in 1 .. N /\ c \in Children(pool, i) /\ pool[c].parent < c
    <3>1. i \in 1 .. N /\ c \in 1 .. N
      BY <1>5
    <3>2. c \in Children(pool, i) /\ pool[c].parent \in 0 .. c - 1
      BY <3>1, <2>1, ChildrenAre, SMTT(30) DEF Shape
    <3> QED BY <3>1, <3>2
  <2>3. ASSUME NEW k \in Children(pool, i), k # c PROVE new[k].n = pool[k].n /\ new[k].w = pool[k].w
    <3>1. k \in 1 .. N /\ k # 1 /\ pool[k].parent = i /\ k > i
      <4>1. k \in 1 .. N /\ k # 1 /\ pool[k].parent = i
        <5>1. i \in 1 .. Len(pool) /\ k \in Children(pool, i)
          BY <2>2, <2>3
        <5>2. k \in 1 .. Len(pool) /\ k # 1 /\ pool[k].parent = i
          BY ONLY Shape(pool), <5>1, ChildIs
        <5> QED BY <5>2
      <4>2. pool[k].parent \in 0 .. k - 1
        BY <4>1 DEF Shape
      <4> QED BY <4>1, <4>2, <2>2, <1>1
    <3>2. k \notin path
      <4> SUFFICES ASSUME k \in path PROVE FALSE
        OBVIOUS
      <4>1. k >= c /\ c >= k
        BY <3>1, <2>1, <2>2, <1>5
      <4> QED BY <4>1, <2>2, <2>3, <3>1
    <3> QED BY <3>1, <3>2, <1>2, <1>3, <1>4, <1>6
  <2> DEFINE dc == d[c]
             di == d[i]
  <2>4. dc \in Int /\ di \in Int /\ di = IF pool[i].mr = 2 THEN dc ELSE -dc
    BY <1>4, <1>6, <2>1, <2>2
  <2>5. /\ new[c].n = pool[c].n + 1 /\ new[c].w = pool[c].w + dc
        /\ new[i].n = pool[i].n + 1 /\ new[i].w = pool[i].w + di
    BY <1>2, <1>3, <2>2
  <2>6. /\ new[i].first = pool[i].first /\ new[i].count = pool[i].count /\ new[i].mr = pool[i].mr
        /\ new[i].terminal = pool[i].terminal /\ new[i].tv = pool[i].tv
    BY <1>2, <1>3, <1>8, <2>2
  <2>7. V[i] \in Int /\ NodeAdds(pool, i, V[i])
    BY <2>2 DEF AddsBy
  <2>8. \A k \in Children(pool, i) : k # c => new[k].n = pool[k].n /\ new[k].w = pool[k].w
    BY <2>3
  <2> DEFINE v == V[i]
  <2>9. v \in Int /\ NodeAdds(pool, i, v) /\ i \in 1 .. Len(pool) /\ c \in Children(pool, i)
    BY <2>2, <2>7
  <2> HIDE DEF dc, di, v
  <2>10. Visited(new, pool, i, c, dc, di)
    BY <2>4, <2>5, <2>6, <2>8 DEF Visited
  <2>11. NodeAdds(new, i, v)
    BY <1>1, <2>4, <2>9, <2>10, AddsOn
  <2> QED BY <2>11 DEF v
<1>9. NodeAdds(new, leaf, V[leaf])
  <2>1. /\ new[leaf].n = pool[leaf].n + 1 /\ new[leaf].w = pool[leaf].w + value
        /\ NodeAdds(pool, leaf, V[leaf]) /\ V[leaf] \in Int
    BY <1>2, <1>3, <1>5, <1>6 DEF AddsBy
  <2> DEFINE n == pool[leaf].n
             w == pool[leaf].w
             tv == pool[leaf].tv
  <2>2. n \in Nat /\ w \in Int /\ tv \in Int
    BY <1>4
  <2>3. ~pool[leaf].terminal => n = 0 /\ w = 0
    BY <2>1 DEF NodeAdds
  <2>4. CASE /\ Len(new) = N /\ new[leaf].terminal /\ new[leaf].tv = value
             /\ pool[leaf].terminal => pool[leaf].tv = value
    <3>1. new[leaf].first = 0
      BY <2>4 DEF Backed
    <3>2. pool[leaf].terminal => w = n * value
      BY <2>1, <2>4 DEF NodeAdds
    <3>3. w = n * value
      <4>1. ~pool[leaf].terminal => w = n * value
        BY <2>3
      <4> QED BY <3>2, <4>1
    <3>4. (n + 1) * value = n * value + value
      BY <2>2
    <3>5. new[leaf].n > 0 /\ new[leaf].w = new[leaf].n * new[leaf].tv
      BY <2>1, <2>2, <2>4, <3>3, <3>4
    <3> QED BY <2>4, <3>1, <3>5 DEF NodeAdds
  <2>5. CASE /\ Len(new) > N /\ value = V[leaf]
             /\ ~pool[leaf].terminal /\ ~new[leaf].terminal
             /\ \A i \in N + 1 .. Len(new) : new[i].w = 0 /\ ~new[i].terminal
    <3>1. new[leaf].first = N + 1 /\ new[leaf].count = Len(new) - N
      BY <1>1, <2>5 DEF Backed
    <3>2. leaf \in 1 .. Len(new)
      BY <1>1
    <3>3. Children(new, leaf) = N + 1 .. Len(new)
      <4>1. Children(new, leaf) = new[leaf].first .. new[leaf].first + new[leaf].count - 1
        BY <1>1, <3>2, ChildrenAre
      <4>2. N + 1 + (Len(new) - N) - 1 = Len(new)
        BY <1>1
      <4> QED BY <4>1, <4>2, <3>1
    <3>4. \A c \in N + 1 .. Len(new) : new[c].n = 0 /\ new[c].w = 0 /\ c \in 1 .. Len(new)
      BY <1>1, <2>5 DEF Backed
    <3>5. /\ \A c \in N + 1 .. Len(new) : VisitsOf(new)[c] = 0
          /\ \A c \in N + 1 .. Len(new) : SeenOf(new, leaf)[c] = 0
      BY <3>4 DEF VisitsOf, SeenOf
    <3>6. IsFiniteSet(N + 1 .. Len(new))
      BY <1>1, FS_Interval
    <3>7. Total(VisitsOf(new), N + 1 .. Len(new)) = 0 /\ Total(SeenOf(new, leaf), N + 1 .. Len(new)) = 0
      BY <3>5, <3>6, TotalZero
    <3>8. new[leaf].n = 1 + 0 /\ new[leaf].w = V[leaf] + 0
      BY <2>1, <2>2, <2>3, <2>5
    <3>9. new[leaf].first # 0
      BY <3>1, <1>1
    <3> QED BY <2>5, <3>3, <3>7, <3>8, <3>9 DEF NodeAdds
  <2> QED BY <1>2, <2>4, <2>5
<1>10. ASSUME NEW i \in N + 1 .. Len(new), NEW v PROVE NodeAdds(new, i, v)
  <2>1. Len(new) > N
    BY <1>1
  <2>2. new[i].first = 0 /\ new[i].n = 0
    BY <2>1, <1>1 DEF Backed
  <2>3. new[i].w = 0 /\ ~new[i].terminal
    BY <2>1, <1>1, <1>2
  <2> QED BY <2>2, <2>3 DEF NodeAdds
<1> QED BY <1>7, <1>8, <1>9, <1>10

\* What the net says of a slot's board, and TreeAddsUp at every slot.
NetAt(pool, root, i) == Net(Position(BoardAt(pool, root, i)))
Adds(pool, root) == \A i \in 1 .. Len(pool) : NodeAdds(pool, i, NetAt(pool, root, i))

LEMMA NetType ==
  ASSUME NEW pool, Shape(pool), NEW root \in Seq(Cells), NEW i \in 1 .. Len(pool)
  PROVE  NetAt(pool, root, i) \in Int
  BY BoardType, PositionType, ValuesAssumption DEF NetAt

LEMMA FreshAdds ==
  ASSUME NEW b \in Seq(Cells)
  PROVE  Adds(<<Root(b)>>, b)
<1> DEFINE r == Root(b)
<1>1. ~r.terminal /\ r.first = 0 /\ r.n = 0 /\ r.w = 0
  BY DEF Root, Node
<1> HIDE DEF r
<1>2. Len(<<r>>) = 1 /\ <<r>>[1] = r
  OBVIOUS
<1> QED BY <1>1, <1>2 DEF Adds, NodeAdds, r

LEMMA SameAdds ==
  ASSUME NEW pool, Shape(pool), NEW root \in Seq(Cells), NEW new, SameLinks(new, pool), Adds(pool, root),
         \A i \in 1 .. Len(pool) : /\ new[i].n = pool[i].n /\ new[i].w = pool[i].w
                                   /\ new[i].terminal = pool[i].terminal /\ new[i].tv = pool[i].tv
  PROVE  Adds(new, root)
<1>1. Shape(new) /\ Len(new) = Len(pool) /\ Len(pool) \in Nat
  BY SameLinksShape, ShapeFacts DEF SameLinks
<1>2. ASSUME NEW i \in 1 .. Len(pool) PROVE NodeAdds(new, i, NetAt(new, root, i))
  <2>1. NetAt(new, root, i) = NetAt(pool, root, i)
    <3>1. \A j \in 1 .. Len(pool) : BoardAt(new, root, j) = BoardAt(pool, root, j)
      BY BoardsSame
    <3> QED BY <3>1 DEF NetAt
  <2>2. \A c \in Children(pool, i) : new[c].n = pool[c].n /\ new[c].w = pool[c].w
    BY ChildIs
  <2>3. new[i].first = pool[i].first /\ new[i].count = pool[i].count /\ new[i].mr = pool[i].mr
    BY DEF SameLinks
  <2>4. NodeAdds(pool, i, NetAt(pool, root, i))
    BY DEF Adds
  <2>5. Len(new) >= Len(pool)
    BY <1>1
  <2> QED BY <1>1, <2>1, <2>2, <2>3, <2>4, <2>5, AddsOff
<1> QED BY <1>1, <1>2 DEF Adds

LEMMA BackedAdds ==
  ASSUME NEW pool, Shape(pool), NEW root \in Seq(Cells), NEW leaf \in 1 .. Len(pool), pool[leaf].first = 0, Adds(pool, root),
         NEW new, Backed(new, pool, leaf), Evaluated(new, pool, leaf, NetAt(pool, root, leaf))
  PROVE  Adds(new, root)
<1> DEFINE N == Len(pool)
           V == [i \in 1 .. N |-> NetAt(pool, root, i)]
<1>1. N \in Nat /\ Len(new) \in Nat
  BY BackedShape, ShapeFacts
<1>2. \A i \in 1 .. N : NetAt(new, root, i) = NetAt(pool, root, i)
  <2>1. \A i \in 1 .. N : Path(new, i) = Path(pool, i) /\ new[i].cell = pool[i].cell
    <3>1. \A i \in 1 .. N : i \in 0 .. N
      BY <1>1
    <3>2. \A i \in 0 .. N : Path(new, i) = Path(pool, i)
      BY BackedShape
    <3>3. \A i \in 1 .. N : new[i].cell = pool[i].cell
      BY DEF Backed
    <3> QED BY <3>1, <3>2, <3>3
  <2> QED BY <2>1, BoardSame DEF NetAt
<1>3. \A i \in 1 .. N : V[i] = NetAt(pool, root, i)
  OBVIOUS
<1>4. \A i \in 1 .. N : V[i] \in Int /\ NodeAdds(pool, i, V[i])
  BY <1>3, NetType DEF Adds
<1> HIDE DEF V
<1>5. /\ \A i \in 1 .. N : NodeAdds(new, i, V[i])
      /\ \A i \in N + 1 .. Len(new) : \A v : NodeAdds(new, i, v)
  <2>1. Evaluated(new, pool, leaf, V[leaf])
    BY <1>3
  <2> HIDE DEF N
  <2>2. AddsBy(pool, V)
    BY <1>4 DEF N, AddsBy
  <2>3. /\ \A i \in 1 .. Len(pool) : NodeAdds(new, i, V[i])
        /\ \A i \in Len(pool) + 1 .. Len(new) : \A v : NodeAdds(new, i, v)
    BY <2>1, <2>2, EvaluatedAdds
  <2> QED BY <2>3 DEF N
<1>6. \A i \in 1 .. Len(new) : i \in 1 .. N \/ i \in N + 1 .. Len(new)
  BY <1>1
<1> QED BY <1>2, <1>3, <1>5, <1>6 DEF Adds

\* A copied subtree has the sums it had: its blocks are the ones it had, elsewhere.
LEMMA CopiedAdds ==
  ASSUME NEW pool, Shape(pool), NEW root \in Seq(Cells), Adds(pool, root), NEW b, NEW child,
         NEW new, NEW order, Copies(new, pool, child, order),
         \A k \in 1 .. Len(new) : NetAt(new, b, k) = NetAt(pool, root, order[k])
  PROVE  Adds(new, b)
<1> DEFINE L == Len(new)
<1>1. /\ Shape(new) /\ L \in Nat /\ Len(order) = L /\ Len(pool) \in Nat
      /\ \A k \in 1 .. L : order[k] \in 1 .. Len(pool)
  <2>1. Shape(new)
    BY SubtreeShape
  <2>2. order \in Seq(1 .. Len(pool)) /\ Len(order) = L
    BY DEF Copies
  <2> QED BY <2>1, <2>2, ShapeFacts, ElementOfSeq
<1>2. \A k \in 1 .. L : LET was == pool[order[k]]
        IN  /\ new[k].n = was.n /\ new[k].w = was.w /\ new[k].count = was.count /\ new[k].mr = was.mr
            /\ new[k].terminal = was.terminal /\ new[k].tv = was.tv
            /\ was.first = 0 => new[k].first = 0
            /\ was.first # 0 =>
                /\ new[k].first > k /\ new[k].first + was.count - 1 <= L
                /\ \A d \in 0 .. was.count - 1 : order[new[k].first + d] = was.first + d
  BY <1>1 DEF Copies
<1>3. ASSUME NEW k \in 1 .. L PROVE NodeAdds(new, k, NetAt(new, b, k))
  <2> DEFINE i == order[k]
             v == NetAt(pool, root, i)
             a == pool[i].first
             e == new[k].first
             n == pool[i].count
  <2>1. i \in 1 .. Len(pool)
    BY <1>1
  <2>2. NodeAdds(pool, i, v)
    BY <2>1 DEF Adds
  <2>3. a \in Nat /\ n \in Nat /\ e \in Nat
    BY <1>1, <2>1, ShapeFacts DEF Nodes
  <2>4. Children(pool, i) = a .. a + n - 1 /\ Children(new, k) = e .. e + n - 1
    BY <1>1, <1>2, <2>1, ChildrenAre
  <2>5. /\ new[k].n = pool[i].n /\ new[k].w = pool[i].w /\ new[k].mr = pool[i].mr
        /\ new[k].terminal = pool[i].terminal /\ new[k].tv = pool[i].tv
        /\ a = 0 => e = 0
        /\ a # 0 => /\ e > k /\ e + n - 1 <= L
                    /\ \A d \in 0 .. n - 1 : order[e + d] = a + d
    BY <1>2
  <2>6. CASE a = 0
    BY <2>2, <2>5, <2>6 DEF NodeAdds
  <2>7. CASE a # 0
    <3> HIDE DEF a, e, n, i, v
    <3>1. \A d \in 0 .. n - 1 : /\ e + d \in 1 .. L /\ order[e + d] = a + d /\ a + d \in 1 .. Len(pool)
      <4> TAKE d \in 0 .. n - 1
      <4>1. e + d \in 1 .. L
        BY <1>1, <2>3, <2>5, <2>7
      <4>2. order[e + d] = a + d
        BY <2>5, <2>7
      <4> QED BY <1>1, <4>1, <4>2
    <3>2. \A d \in 0 .. n - 1 : /\ new[e + d].n = pool[a + d].n /\ new[e + d].w = pool[a + d].w
                                /\ pool[a + d].n \in Int /\ pool[a + d].w \in Int
      <4> TAKE d \in 0 .. n - 1
      <4>1. e + d \in 1 .. L /\ order[e + d] = a + d /\ a + d \in 1 .. Len(pool)
        BY <3>1
      <4>2. new[e + d].n = pool[a + d].n /\ new[e + d].w = pool[a + d].w
        BY <1>2, <4>1
      <4>3. pool[a + d] \in Nodes
        BY <4>1, ShapeFacts
      <4> QED BY <4>2, <4>3 DEF Nodes
    <3>3. \A d \in 0 .. n - 1 : /\ VisitsOf(pool)[a + d] \in Int
                                /\ VisitsOf(new)[e + d] = VisitsOf(pool)[a + d]
      BY <3>1, <3>2 DEF VisitsOf
    <3>4. \A d \in 0 .. n - 1 : /\ SeenOf(pool, i)[a + d] \in Int
                                /\ SeenOf(new, k)[e + d] = SeenOf(pool, i)[a + d]
      <4> TAKE d \in 0 .. n - 1
      <4> DEFINE x == pool[a + d].w
      <4>1. x \in Int /\ new[e + d].w = x /\ -x \in Int
        BY <3>2
      <4>2. /\ SeenOf(pool, i)[a + d] = (IF pool[i].mr = 2 THEN x ELSE -x)
            /\ SeenOf(new, k)[e + d] = (IF new[k].mr = 2 THEN new[e + d].w ELSE -new[e + d].w)
        BY <3>1 DEF SeenOf
      <4> HIDE DEF x
      <4> QED BY <2>5, <4>1, <4>2
    <3>5. Total(VisitsOf(pool), a .. a + n - 1) = Total(VisitsOf(new), e .. e + n - 1)
      <4> DEFINE f == VisitsOf(pool)
                 g == VisitsOf(new)
      <4>1. SameBlock(f, a, g, e, n)
        BY <3>3 DEF SameBlock
      <4> HIDE DEF f, g
      <4>2. OverBlock(f, a, n) = OverBlock(g, e, n)
        BY ONLY <2>3, <4>1, TotalBlock
      <4> QED BY <4>2 DEF f, g, OverBlock
    <3>6. Total(SeenOf(pool, i), a .. a + n - 1) = Total(SeenOf(new, k), e .. e + n - 1)
      <4> DEFINE f == SeenOf(pool, i)
                 g == SeenOf(new, k)
      <4>1. SameBlock(f, a, g, e, n)
        BY <3>4 DEF SameBlock
      <4> HIDE DEF f, g
      <4>2. OverBlock(f, a, n) = OverBlock(g, e, n)
        BY ONLY <2>3, <4>1, TotalBlock
      <4> QED BY <4>2 DEF f, g, OverBlock
    <3>7. ~pool[i].terminal /\ e # 0
      <4>1. pool[i].terminal => a = 0
        BY <2>2 DEF NodeAdds, a
      <4> QED BY <1>1, <2>3, <2>5, <2>7, <4>1
    <3>8. pool[i].n = 1 + Total(VisitsOf(pool), a .. a + n - 1)
          /\ pool[i].w = v + Total(SeenOf(pool, i), a .. a + n - 1)
      BY <2>2, <2>4, <2>7, <3>7 DEF NodeAdds, a
    <3>9. NetAt(new, b, k) = v
      BY DEF v, i
    <3> QED BY <2>4, <2>5, <3>5, <3>6, <3>7, <3>8, <3>9 DEF NodeAdds, e
  <2> QED BY <2>6, <2>7
<1> QED BY <1>3 DEF Adds

-----------------------------------------------------------------------------
(* The sums, in the state *)

LEMMA RerootedAdds ==
  ASSUME tree \in Trees, Shape(tree.pool), OnBoards(tree.pool, tree.root), Adds(tree.pool, tree.root),
         NEW b \in Seq(Cells), Distinct(b)
  PROVE  Adds(Rerooted(b).pool, b)
<1>1. CASE Rerooted(b).pool = <<Root(b)>>
  BY <1>1, FreshAdds
<1>2. CASE Rerooted(b).pool # <<Root(b)>>
  <2>1. PICK child \in Reaching(tree.pool, tree.root, b) :
          /\ child \in 1 .. Len(tree.pool)
          /\ Copies(Rerooted(b).pool, tree.pool, child, BreadthFirst(tree.pool, child))
    BY <1>2, RerootedIs
  <2> DEFINE on == Append(tree.root, tree.pool[child].cell)
             new == Rerooted(b).pool
             order == BreadthFirst(tree.pool, child)
  <2>2. child \in Children(tree.pool, 1) /\ Position(on) = Position(b)
    BY <2>1 DEF Reaching
  <2>3. tree.root \in Seq(Cells)
    BY DEF Trees
  <2>4. BoardAt(tree.pool, tree.root, child) = on /\ tree.pool[child].cell \in Cells /\ Distinct(on)
    BY <2>2, <2>3, ChildCell
  <2>5. on \in Seq(Cells)
    BY <2>3, <2>4, AppendCells
  <2> HIDE DEF on
  <2>6. Position(b) = Position(on) /\ Len(b) = Len(on)
    BY <2>2, <2>4, <2>5, SamePosition
  <2> HIDE DEF new, order
  <2>7. Copies(new, tree.pool, child, order)
    BY <2>1 DEF new, order
  <2>8. \A k \in 1 .. Len(new) :
          Position(BoardAt(new, b, k)) = Position(BoardAt(tree.pool, tree.root, order[k]))
    BY <2>1, <2>3, <2>4, <2>6, <2>7, BoardsCopied
  <2>9. \A k \in 1 .. Len(new) : NetAt(new, b, k) = NetAt(tree.pool, tree.root, order[k])
    BY <2>8 DEF NetAt
  <2>10. Adds(new, b)
    BY <2>3, <2>7, <2>9, CopiedAdds
  <2> QED BY <2>10 DEF new
<1> QED BY <1>1, <1>2

\* A pending leaf is not opened yet, and no leaf is pending twice.
Unopened(pool, pending) ==
    \A k \in DOMAIN pending :
        /\ pool[pending[k]].first = 0
        /\ \A j \in DOMAIN pending : pending[j] = pending[k] => j = k

\* The sums, with what makes them inductive: an evaluation opens a new leaf.
SumsInv == Adds(tree.pool, tree.root) /\ Unopened(tree.pool, call.pending)

LEMMA NoneUnopened ==
  ASSUME NEW pool
  PROVE  Unopened(pool, <<>>)
  BY DEF Unopened

LEMMA SumsAfter ==
  ASSUME NEW pool, NEW root, NEW pending, Adds(pool, root), Unopened(pool, pending),
         tree'.pool = pool, tree'.root = root, call'.pending = pending
  PROVE  SumsInv'
  BY DEF SumsInv

LEMMA SumsStay ==
  ASSUME SumsInv, tree'.pool = tree.pool, tree'.root = tree.root, call'.pending = call.pending
  PROVE  SumsInv'
  BY DEF SumsInv

LEMMA UnopenedSame ==
  ASSUME NEW pool, NEW pending \in Seq(1 .. Len(pool)), Unopened(pool, pending),
         NEW new, SameLinks(new, pool)
  PROVE  Unopened(new, pending)
<1>1. \A k \in DOMAIN pending : pending[k] \in 1 .. Len(pool)
  BY LenProperties, ElementOfSeq
<1> QED BY <1>1 DEF Unopened, SameLinks

\* An evaluation opens its own leaf and no other.
LEMMA UnopenedBacked ==
  ASSUME NEW pool, NEW pending \in Seq(1 .. Len(pool)), Unopened(pool, pending),
         NEW leaf, leaf \notin ToSet(pending), NEW new, Backed(new, pool, leaf)
  PROVE  Unopened(new, pending)
<1>1. \A k \in DOMAIN pending : pending[k] \in 1 .. Len(pool) /\ pending[k] # leaf
  BY LenProperties, ElementOfSeq DEF ToSet
<1>2. \A i \in 1 .. Len(pool) : i # leaf => new[i].first = pool[i].first
  BY DEF Backed
<1> QED BY <1>1, <1>2 DEF Unopened

LEMMA UnopenedAppend ==
  ASSUME NEW pool, NEW pending \in Seq(1 .. Len(pool)), Unopened(pool, pending),
         NEW leaf \in 1 .. Len(pool), leaf \notin ToSet(pending), pool[leaf].first = 0
  PROVE  Unopened(pool, Append(pending, leaf))
<1> DEFINE after == Append(pending, leaf)
           n == Len(pending)
<1>1. /\ n \in Nat /\ DOMAIN pending = 1 .. n /\ DOMAIN after = 1 .. n + 1
      /\ after[n + 1] = leaf /\ \A k \in 1 .. n : after[k] = pending[k]
  BY LenProperties, AppendProperties
<1>2. \A k \in 1 .. n : pending[k] # leaf
  BY <1>1 DEF ToSet
<1> HIDE DEF after, n
<1>3. \A k \in 1 .. n + 1 : k \in 1 .. n \/ k = n + 1
  BY <1>1
<1>4. \A k \in 1 .. n : pool[pending[k]].first = 0 /\ \A j \in 1 .. n : pending[j] = pending[k] => j = k
  BY <1>1 DEF Unopened
<1>5. \A k \in 1 .. n + 1 :
        /\ pool[after[k]].first = 0
        /\ \A j \in 1 .. n + 1 : after[j] = after[k] => j = k
  BY <1>1, <1>2, <1>3, <1>4
<1>6. Unopened(pool, after)
  BY <1>1, <1>5 DEF Unopened
<1> QED BY <1>6 DEF after

\* The leaf expanded is gone from the batch, and the others wait unopened.
LEMMA UnopenedTail ==
  ASSUME NEW pool, NEW pending \in Seq(1 .. Len(pool)), pending # <<>>, Unopened(pool, pending)
  PROVE  /\ pool[Head(pending)].first = 0 /\ Head(pending) \in 1 .. Len(pool)
         /\ Tail(pending) \in Seq(1 .. Len(pool)) /\ Head(pending) \notin ToSet(Tail(pending))
         /\ Unopened(pool, Tail(pending))
<1> DEFINE rest == Tail(pending)
           n == Len(pending)
<1>1. /\ n \in Nat /\ n >= 1 /\ DOMAIN pending = 1 .. n /\ Head(pending) = pending[1]
      /\ rest \in Seq(1 .. Len(pool)) /\ DOMAIN rest = 1 .. n - 1
      /\ \A k \in 1 .. n - 1 : rest[k] = pending[k + 1]
  OBVIOUS
<1>2. Head(pending) \in 1 .. Len(pool)
  BY <1>1, ElementOfSeq
<1> HIDE DEF rest, n
<1>3. \A k \in 1 .. n : pool[pending[k]].first = 0 /\ \A j \in 1 .. n : pending[j] = pending[k] => j = k
  BY <1>1 DEF Unopened
<1>4. 1 \in 1 .. n /\ \A k \in 1 .. n - 1 : k + 1 \in 1 .. n /\ k + 1 # 1
  BY <1>1
<1>5. \A k \in 1 .. n - 1 : rest[k] # pending[1]
  BY <1>1, <1>3, <1>4
<1>6. pending[1] \notin ToSet(rest)
  BY <1>1, <1>5 DEF ToSet
<1>7. Unopened(pool, rest)
  <2>1. \A k \in 1 .. n - 1 : pool[rest[k]].first = 0
    BY <1>1, <1>3, <1>4
  <2>2. ASSUME NEW k \in 1 .. n - 1, NEW j \in 1 .. n - 1, rest[j] = rest[k] PROVE j = k
    <3>1. pending[j + 1] = pending[k + 1] /\ j + 1 \in 1 .. n /\ k + 1 \in 1 .. n
      BY <1>1, <1>4, <2>2
    <3>2. j + 1 = k + 1
      BY <1>3, <3>1
    <3> QED BY <3>2
  <2> QED BY <1>1, <2>1, <2>2 DEF Unopened
<1> QED BY <1>1, <1>2, <1>3, <1>4, <1>6, <1>7 DEF rest

\* Virtual loss moves no sum.
LEMMA AppliedAdds ==
  ASSUME NEW pool, Shape(pool), NEW root \in Seq(Cells), Adds(pool, root), NEW leaf \in 1 .. Len(pool)
  PROVE  LET mid == ApplyVirtualLoss(pool, leaf)
         IN  /\ SameLinks(mid, pool) /\ Shape(mid) /\ leaf \in 1 .. Len(mid) /\ Adds(mid, root)
             /\ BoardAt(mid, root, leaf) = BoardAt(pool, root, leaf)
<1> DEFINE mid == ApplyVirtualLoss(pool, leaf)
<1>1. /\ SameLinks(mid, pool)
      /\ \A i \in 1 .. Len(pool) : /\ mid[i].n = pool[i].n /\ mid[i].w = pool[i].w
                                   /\ mid[i].terminal = pool[i].terminal /\ mid[i].tv = pool[i].tv
  BY ApplyIs
<1> HIDE DEF mid
<1>2. Shape(mid) /\ leaf \in 1 .. Len(mid)
  BY <1>1, SameLinksShape DEF SameLinks
<1>3. BoardAt(mid, root, leaf) = BoardAt(pool, root, leaf)
  <2>1. \A i \in 1 .. Len(pool) : BoardAt(mid, root, i) = BoardAt(pool, root, i)
    BY <1>1, BoardsSame
  <2> QED BY <2>1
<1>4. Adds(mid, root)
  BY <1>1, SameAdds
<1> QED BY <1>1, <1>2, <1>3, <1>4 DEF mid

LEMMA OverlapAdds ==
  ASSUME NEW pool, Shape(pool), NEW root \in Seq(Cells), Adds(pool, root), NEW leaf \in 1 .. Len(pool),
         NEW pending \in Seq(1 .. Len(pool)), Unopened(pool, pending)
  PROVE  LET new == UndoVirtualLoss(ApplyVirtualLoss(pool, leaf), leaf)
         IN  Adds(new, root) /\ Unopened(new, pending)
<1> DEFINE mid == ApplyVirtualLoss(pool, leaf)
           new == UndoVirtualLoss(mid, leaf)
<1>1. SameLinks(mid, pool) /\ Shape(mid) /\ leaf \in 1 .. Len(mid) /\ Adds(mid, root)
  BY AppliedAdds
<1> HIDE DEF mid
<1>2. /\ SameLinks(new, mid)
      /\ \A i \in 1 .. Len(mid) : /\ new[i].n = mid[i].n /\ new[i].w = mid[i].w
                                  /\ new[i].terminal = mid[i].terminal /\ new[i].tv = mid[i].tv
  BY <1>1, UndoIs
<1> HIDE DEF new
<1>3. Adds(new, root)
  BY <1>1, <1>2, SameAdds
<1>4. SameLinks(new, pool)
  BY <1>1, <1>2 DEF SameLinks
<1> QED BY <1>3, <1>4, UnopenedSame DEF new, mid

LEMMA InlineAdds ==
  ASSUME NEW pool, Shape(pool), NEW root \in Seq(Cells), Adds(pool, root), NEW leaf \in 1 .. Len(pool),
         pool[leaf].first = 0, NEW pending \in Seq(1 .. Len(pool)), Unopened(pool, pending),
         leaf \notin ToSet(pending), NEW new,
         LET mid == ApplyVirtualLoss(pool, leaf)
             b == BoardAt(pool, root, leaf)
         IN  new = DecidedLeaf(mid, leaf, b) \/ new = ExpandLeaf(mid, leaf, b)
  PROVE  Adds(new, root) /\ Unopened(new, pending)
<1> DEFINE mid == ApplyVirtualLoss(pool, leaf)
           b == BoardAt(pool, root, leaf)
<1>1. /\ SameLinks(mid, pool) /\ Shape(mid) /\ leaf \in 1 .. Len(mid) /\ Adds(mid, root)
      /\ BoardAt(mid, root, leaf) = b
  BY AppliedAdds
<1>2. b \in Seq(Cells)
  BY BoardType
<1>3. new = DecidedLeaf(mid, leaf, b) \/ new = ExpandLeaf(mid, leaf, b)
  OBVIOUS
<1> HIDE DEF mid, b
<1>4. mid[leaf].first = 0
  BY <1>1 DEF SameLinks
<1>5. NetAt(mid, root, leaf) = Net(Position(b))
  BY <1>1 DEF NetAt
<1>6. Backed(new, mid, leaf) /\ Evaluated(new, mid, leaf, NetAt(mid, root, leaf))
  <2>1. CASE new = DecidedLeaf(mid, leaf, b)
    BY <1>1, <1>2, <2>1, DecidedLeafIs, DecidedEvaluates
  <2>2. CASE new = ExpandLeaf(mid, leaf, b)
    BY <1>1, <1>2, <1>4, <1>5, <2>2, ExpandLeafIs, ExpandEvaluates
  <2> QED BY <1>3, <2>1, <2>2
<1>7. Adds(new, root)
  BY <1>1, <1>4, <1>6, BackedAdds
<1>8. Unopened(mid, pending) /\ pending \in Seq(1 .. Len(mid))
  BY <1>1, UnopenedSame DEF SameLinks
<1>9. Unopened(new, pending)
  BY <1>6, <1>8, UnopenedBacked
<1> QED BY <1>7, <1>9

LEMMA WaitAdds ==
  ASSUME NEW pool, Shape(pool), NEW root \in Seq(Cells), Adds(pool, root), NEW leaf \in 1 .. Len(pool),
         pool[leaf].first = 0, NEW pending \in Seq(1 .. Len(pool)), Unopened(pool, pending),
         leaf \notin ToSet(pending)
  PROVE  LET mid == ApplyVirtualLoss(pool, leaf)
         IN  Adds(mid, root) /\ Unopened(mid, Append(pending, leaf))
<1> DEFINE mid == ApplyVirtualLoss(pool, leaf)
<1>1. SameLinks(mid, pool) /\ leaf \in 1 .. Len(mid) /\ Adds(mid, root)
  BY AppliedAdds
<1> HIDE DEF mid
<1>2. Unopened(mid, pending) /\ pending \in Seq(1 .. Len(mid)) /\ mid[leaf].first = 0
  BY <1>1, UnopenedSame DEF SameLinks
<1>3. Unopened(mid, Append(pending, leaf))
  BY <1>1, <1>2, UnopenedAppend
<1> QED BY <1>1, <1>3 DEF mid

LEMMA LeafUnopened ==
  ASSUME Shape(tree.pool), NEW root, Adds(tree.pool, root), NEW leaf \in Leaves
  PROVE  leaf \in 1 .. Len(tree.pool) /\ tree.pool[leaf].first = 0
<1>1. leaf \in 1 .. Len(tree.pool)
  BY ShapeFacts DEF Leaves
<1>2. NodeAdds(tree.pool, leaf, NetAt(tree.pool, root, leaf))
  BY <1>1 DEF Adds
<1> QED BY <1>1, <1>2 DEF Leaves, IsExpanded, NodeAdds

LEMMA DescendSums == PenaltyInv /\ SumsInv /\ Descend => SumsInv'
<1> SUFFICES ASSUME PenaltyInv, SumsInv, Descend PROVE SumsInv'
  OBVIOUS
<1>1. /\ tree \in Trees /\ Shape(tree.pool) /\ tree.root \in Seq(Cells) /\ call \in CallRecords
      /\ call.pending \in Seq(1 .. Len(tree.pool))
      /\ Adds(tree.pool, tree.root) /\ Unopened(tree.pool, call.pending)
  BY DEF PenaltyInv, PlayerTypes, Trees, SumsInv
<1> DEFINE Mid(leaf) == ApplyVirtualLoss(tree.pool, leaf)
           B(leaf) == BoardAt(tree.pool, tree.root, leaf)
<1>2. PICK leaf \in Leaves :
        \/ Overlap(leaf)
        \/ leaf \notin ToSet(call.pending) /\ Inline(DecidedLeaf(Mid(leaf), leaf, B(leaf)))
        \/ leaf \notin ToSet(call.pending) /\ Inline(ExpandLeaf(Mid(leaf), leaf, B(leaf)))
        \/ /\ leaf \notin ToSet(call.pending)
           /\ tree' = [tree EXCEPT !.pool = Mid(leaf)]
           /\ call' = [call EXCEPT !.spent = @ + 1, !.pending = Append(@, leaf)]
  BY DEF Descend
<1>3. leaf \in 1 .. Len(tree.pool) /\ tree.pool[leaf].first = 0
  BY <1>1, LeafUnopened
<1>4. ASSUME NEW pool, NEW pending, tree' = [tree EXCEPT !.pool = pool], call'.pending = pending,
             Adds(pool, tree.root), Unopened(pool, pending)
      PROVE  SumsInv'
  <2>1. tree'.pool = pool /\ tree'.root = tree.root
    BY <1>1, <1>4 DEF Trees
  <2> QED BY <1>4, <2>1, SumsAfter
<1>5. CASE Overlap(leaf)
  <2> DEFINE new == UndoVirtualLoss(Mid(leaf), leaf)
  <2>1. Adds(new, tree.root) /\ Unopened(new, call.pending)
    BY <1>1, <1>3, OverlapAdds
  <2>2. tree' = [tree EXCEPT !.pool = new] /\ call' = [call EXCEPT !.overlap = TRUE]
    BY <1>1, <1>5 DEF Overlap, Trees
  <2> HIDE DEF new
  <2>3. call'.pending = call.pending
    BY <1>1, <2>2 DEF CallRecords
  <2> QED BY <1>4, <2>1, <2>2, <2>3
<1>6. ASSUME NEW new, Inline(new), leaf \notin ToSet(call.pending),
             new = DecidedLeaf(Mid(leaf), leaf, B(leaf)) \/ new = ExpandLeaf(Mid(leaf), leaf, B(leaf))
      PROVE  SumsInv'
  <2>1. Adds(new, tree.root) /\ Unopened(new, call.pending)
    BY <1>1, <1>3, <1>6, InlineAdds
  <2>2. tree' = [tree EXCEPT !.pool = new] /\ call' = [call EXCEPT !.spent = @ + 1, !.unserved = @ + 1]
    BY <1>6 DEF Inline
  <2>3. call'.pending = call.pending
    BY <1>1, <2>2 DEF CallRecords
  <2> QED BY <1>4, <2>1, <2>2, <2>3
<1>7. CASE /\ leaf \notin ToSet(call.pending)
           /\ tree' = [tree EXCEPT !.pool = Mid(leaf)]
           /\ call' = [call EXCEPT !.spent = @ + 1, !.pending = Append(@, leaf)]
  <2> DEFINE after == Append(call.pending, leaf)
  <2>1. Adds(Mid(leaf), tree.root) /\ Unopened(Mid(leaf), after)
    BY <1>1, <1>3, <1>7, WaitAdds
  <2>2. call'.pending = after
    BY <1>1, <1>7 DEF CallRecords
  <2> HIDE DEF Mid, after
  <2> QED BY <1>4, <1>7, <2>1, <2>2
<1> HIDE DEF Mid, B
<1> QED BY <1>2, <1>5, <1>6, <1>7

LEMMA ExpandSums == PenaltyInv /\ SumsInv /\ ExpandNext => SumsInv'
<1> SUFFICES ASSUME PenaltyInv, SumsInv, ExpandNext PROVE SumsInv'
  OBVIOUS
<1> DEFINE pool == tree.pool
           pending == call.pending
           leaf == Head(pending)
           b == BoardAt(pool, tree.root, leaf)
           new == ExpandLeaf(pool, leaf, b)
<1>1. /\ tree \in Trees /\ Shape(pool) /\ tree.root \in Seq(Cells) /\ call \in CallRecords
      /\ pending \in Seq(1 .. Len(pool)) /\ pending # <<>>
      /\ Adds(pool, tree.root) /\ Unopened(pool, pending)
  BY DEF PenaltyInv, PlayerTypes, Trees, SumsInv, ExpandNext
<1>2. tree' = [tree EXCEPT !.pool = new, !.table = @ \union {Position(b)}]
      /\ call' = [call EXCEPT !.pending = Tail(@), !.served = @ + 1]
  BY <1>1 DEF ExpandNext, Trees
<1> HIDE DEF new
<1>3. tree'.pool = new /\ tree'.root = tree.root /\ call'.pending = Tail(pending)
  BY <1>1, <1>2 DEF Trees, CallRecords
<1> HIDE DEF pool, pending
<1>4. /\ pool[leaf].first = 0 /\ leaf \in 1 .. Len(pool)
      /\ Tail(pending) \in Seq(1 .. Len(pool)) /\ leaf \notin ToSet(Tail(pending))
      /\ Unopened(pool, Tail(pending))
  BY <1>1, UnopenedTail
<1> HIDE DEF leaf
<1>5. b \in Seq(Cells)
  BY <1>1, <1>4, BoardType
<1>6. Backed(new, pool, leaf) /\ Evaluated(new, pool, leaf, NetAt(pool, tree.root, leaf))
  BY <1>1, <1>4, <1>5, ExpandLeafIs, ExpandEvaluates DEF NetAt, new
<1>7. Adds(new, tree.root)
  BY <1>1, <1>4, <1>6, BackedAdds
<1>8. Unopened(new, Tail(pending))
  BY <1>4, <1>6, UnopenedBacked
<1> QED BY <1>3, <1>7, <1>8, SumsAfter

\* A dropped turn and a new game start on a fresh root, with nothing pending.
LEMMA ResetSums ==
  PenaltyInv /\ SumsInv /\ (NewGame \/ NoRootChildren \/ Abort \/ RefuseOutputs) => SumsInv'
<1> SUFFICES ASSUME PenaltyInv, SumsInv, NewGame \/ RollBack PROVE SumsInv'
  BY DEF NoRootChildren, Abort, RefuseOutputs
<1>1. tree \in Trees /\ turn.start \in Seq(Cells) /\ call.at = "none" => call.pending = <<>>
  BY DEF PenaltyInv, PlayerTypes, TurnRecords
<1>2. ASSUME NEW b \in Seq(Cells), tree'.pool = <<Root(b)>>, tree'.root = b, call'.pending = <<>>
      PROVE  SumsInv'
  BY <1>2, FreshAdds, NoneUnopened, SumsAfter
<1>3. CASE NewGame
  <2> DEFINE pool == <<Root(<<>>)>>
  <2>1. tree' = [pool |-> pool, root |-> <<>>, table |-> {}, proof |-> NoProof]
        /\ call' = call /\ turn.phase = "none" /\ <<>> \in Seq(Cells)
    BY <1>3 DEF NewGame
  <2>2. call'.pending = <<>>
    BY <2>1 DEF PenaltyInv
  <2> HIDE DEF pool
  <2>3. tree'.pool = pool /\ tree'.root = <<>>
    BY <2>1
  <2> QED BY <1>2, <2>1, <2>2, <2>3 DEF pool
<1>4. CASE RollBack
  <2>1. tree' = FreshTree(turn.start) /\ call' = NoCall /\ turn.start \in Seq(Cells)
    BY <1>4 DEF RollBack, PenaltyInv, PlayerTypes, TurnRecords
  <2>2. tree'.pool = <<Root(turn.start)>> /\ tree'.root = turn.start
    BY <1>1, <2>1, FreshTreeIs DEF PenaltyInv, PlayerTypes
  <2> QED BY <1>2, <2>1, <2>2 DEF NoCall
<1> QED BY <1>3, <1>4

\* A stone's search starts on the sums kept from the stone before, or on none.
LEMMA RerootSums == PenaltyInv /\ BoardsInv /\ SumsInv /\ (OffenceStone \/ RootStep) => SumsInv'
<1> SUFFICES ASSUME PenaltyInv, BoardsInv, SumsInv, OffenceStone \/ RootStep PROVE SumsInv'
  OBVIOUS
<1> DEFINE kept == Rerooted(board)
<1>1. /\ tree \in Trees /\ Shape(tree.pool) /\ board \in Seq(Cells) /\ Distinct(board)
      /\ OnBoards(tree.pool, tree.root) /\ Adds(tree.pool, tree.root)
      /\ call.at = "none" /\ call.pending = <<>>
  BY DEF PenaltyInv, PlayerTypes, BoardsInv, SumsInv, OffenceStone, RootStep
<1>2. kept \in Trees /\ kept.root = board
  BY <1>1, RerootedIs
<1>3. Adds(kept.pool, board)
  BY <1>1, RerootedAdds
<1>4. \E proof : tree' = [kept EXCEPT !.proof = proof]
  <2>1. CASE OffenceStone
    BY <2>1 DEF OffenceStone
  <2>2. CASE RootStep
    <3>1. tree' = [kept EXCEPT !.proof = IF armed THEN NoProof ELSE kept.proof]
      BY <1>2, <2>2 DEF RootStep, Trees
    <3> QED BY <3>1
  <2> QED BY <2>1, <2>2
<1>5. call'.pending = <<>>
  <2>1. CASE OffenceStone
    BY <1>1, <2>1 DEF OffenceStone
  <2>2. CASE RootStep
    BY <2>2, SelectIs DEF RootStep
  <2> QED BY <2>1, <2>2
<1> HIDE DEF kept
<1>6. tree'.pool = kept.pool /\ tree'.root = board
  BY <1>2, <1>4 DEF Trees
<1> QED BY <1>3, <1>5, <1>6, NoneUnopened, SumsAfter

LEMMA OtherSums ==
  PenaltyInv /\ SumsInv
    /\ (Play \/ BeginTurn \/ NextBatch \/ PlaceOrigin \/ FinishSearched \/ Close \/ Serve \/ Submit \/ Charge \/ Drive)
    => SumsInv'
<1> SUFFICES ASSUME PenaltyInv, SumsInv,
                    \/ Play \/ BeginTurn \/ NextBatch \/ PlaceOrigin \/ FinishSearched \/ Close
                    \/ Serve \/ Submit \/ Charge \/ Drive
             PROVE  SumsInv'
  OBVIOUS
<1>1. call \in CallRecords /\ turn \in TurnRecords /\ (call.at = "none" => call.pending = <<>>)
  BY DEF PenaltyInv, PlayerTypes
<1>2. CASE Play \/ BeginTurn \/ NextBatch \/ PlaceOrigin \/ FinishSearched \/ Close
  <2>1. tree' = tree /\ call' = call
    BY <1>2 DEF Play, BeginTurn, NextBatch, PlaceOrigin, FinishSearched, Close
  <2> QED BY <2>1, SumsStay
<1>3. CASE Serve \/ Submit
  <2>1. tree' = tree /\ (call' = [call EXCEPT !.at = "expand"] \/ call' = [call EXCEPT !.at = "out"])
    BY <1>3 DEF Serve, Submit
  <2>2. call'.pending = call.pending
    BY <1>1, <2>1 DEF CallRecords
  <2> QED BY <2>1, <2>2, SumsStay
<1>4. CASE Charge
  <2>1. tree' = tree /\ call' = NoCall /\ call.pending = <<>>
    BY <1>4 DEF Charge
  <2> QED BY <2>1, SumsStay DEF NoCall
<1>5. CASE Drive
  <2>1. tree' = tree /\ Select(LeafBatch, Left) /\ call.pending = <<>>
    BY <1>1, <1>5 DEF Drive
  <2>2. call'.pending = <<>>
    BY <2>1 DEF Select, NoCall
  <2> QED BY <2>1, <2>2, SumsStay
<1> QED BY <1>2, <1>3, <1>4, <1>5

LEMMA InitSums == Init => SumsInv
<1> SUFFICES ASSUME Init PROVE SumsInv
  OBVIOUS
<1> DEFINE pool == <<Root(<<>>)>>
<1>1. <<>> \in Seq(Cells)
  OBVIOUS
<1>2. Adds(pool, <<>>)
  BY <1>1, FreshAdds
<1>3. tree = [pool |-> pool, root |-> <<>>, table |-> {}, proof |-> NoProof] /\ call = NoCall
  BY DEF Init
<1> HIDE DEF pool
<1>4. tree.pool = pool /\ tree.root = <<>> /\ call.pending = <<>>
  BY <1>3 DEF NoCall
<1> QED BY <1>2, <1>4, NoneUnopened DEF SumsInv

LEMMA NextSums == PenaltyInv /\ BoardsInv /\ SumsInv /\ [Next]_vars => SumsInv'
<1> SUFFICES ASSUME PenaltyInv, BoardsInv, SumsInv, [Next]_vars PROVE SumsInv'
  OBVIOUS
<1>1. CASE UNCHANGED vars
  BY <1>1, SumsStay DEF vars
<1>2. CASE Next
  BY <1>2, DescendSums, ExpandSums, ResetSums, RerootSums, OtherSums DEF Next
<1> QED BY <1>1, <1>2

-----------------------------------------------------------------------------
(* The sums are the tree's *)

\* The same side plays on after a turn's first stone, and only after it.
LEMMA AppendMover ==
  ASSUME NEW b \in Seq(Cells), NEW c \in Cells
  PROVE  CurrentPlayer(Append(b, c)) = CurrentPlayer(b) <=> MovesRemaining(b) = 2
<1> DEFINE L == Len(b)
           q == L \div 4
           r == L % 4
<1>1. L \in Nat /\ Len(Append(b, c)) = L + 1 /\ (b = <<>> <=> L = 0)
  BY AppendProperties, EmptySeq
<1>2. q \in Nat /\ r \in 0 .. 3 /\ L = 4 * q + r
  BY <1>1
<1>3. CurrentPlayer(b) = (IF ((L + 1) \div 2) % 2 = 0 THEN "One" ELSE "Two")
      /\ CurrentPlayer(Append(b, c)) = (IF ((L + 1 + 1) \div 2) % 2 = 0 THEN "One" ELSE "Two")
      /\ MovesRemaining(b) = IF L % 2 = 0 THEN 1 ELSE 2
  BY <1>1 DEF CurrentPlayer, MovesRemaining
<1> HIDE DEF L, q, r
<1>4. \A k \in Nat : (4 * k) % 2 = 0 /\ (4 * k + 1) % 2 = 1 /\ (4 * k + 2) % 2 = 0 /\ (4 * k + 3) % 2 = 1
  OBVIOUS
<1>5. \A k \in Nat : (4 * k + 1) \div 2 = 2 * k /\ (4 * k + 2) \div 2 = 2 * k + 1 /\ (4 * k + 3) \div 2 = 2 * k + 1
                     /\ (4 * k + 4) \div 2 = 2 * k + 2 /\ (4 * k + 5) \div 2 = 2 * k + 2
  OBVIOUS
<1>6. \A k \in Nat : (2 * k) % 2 = 0 /\ (2 * k + 1) % 2 = 1 /\ (2 * k + 2) % 2 = 0
  OBVIOUS
<1>7. L % 2 = 1 <=> r \in {1, 3}
  BY <1>2, <1>4
<1>8. ((L + 1) \div 2) % 2 = ((L + 1 + 1) \div 2) % 2 <=> r \in {1, 3}
  <2>1. CASE r = 0
    <3>1. L + 1 = 4 * q + 1 /\ L + 1 + 1 = 4 * q + 2
      BY <1>2, <2>1
    <3> QED BY <1>2, <1>5, <1>6, <2>1, <3>1
  <2>2. CASE r = 1
    <3>1. L + 1 = 4 * q + 2 /\ L + 1 + 1 = 4 * q + 3
      BY <1>2, <2>2
    <3> QED BY <1>2, <1>5, <1>6, <2>2, <3>1
  <2>3. CASE r = 2
    <3>1. L + 1 = 4 * q + 3 /\ L + 1 + 1 = 4 * q + 4
      BY <1>2, <2>3
    <3> QED BY <1>2, <1>5, <1>6, <2>3, <3>1
  <2>4. CASE r = 3
    <3>1. L + 1 = 4 * q + 4 /\ L + 1 + 1 = 4 * q + 5
      BY <1>2, <2>4
    <3> QED BY <1>2, <1>5, <1>6, <2>4, <3>1
  <2> QED BY <1>2, <2>1, <2>2, <2>3, <2>4
<1>9. L % 2 \in {0, 1} /\ ((L + 1) \div 2) % 2 \in {0, 1} /\ ((L + 1 + 1) \div 2) % 2 \in {0, 1}
  BY <1>1
<1> QED BY <1>3, <1>7, <1>8, <1>9

\* Whose move a slot's board is, and the fold TreeAddsUp sums a node's children by.
MoverAt(j) == CurrentPlayer(BoardAt(tree.pool, tree.root, j))
SeenFrom(i, c) == IF MoverAt(c) = MoverAt(i) THEN tree.pool[c].w ELSE -tree.pool[c].w

\* The folds of TreeAddsUp are the sums of the two functions.
LEMMA VisitsSum ==
  ASSUME NEW f, NEW S, Counted(f, S), \A c \in S : f[c] = Visits(c)
  PROVE  MapThenSumSet(Visits, S) = Total(f, S)
<1> DEFINE Is(g) == g = [s \in SUBSET S |-> IF s = {} THEN 0 ELSE Visits(Chosen(s)) + g[s \ {Chosen(s)}]]
           h == CHOOSE g : Is(g)
<1>1. ASSUME NEW g PROVE Is(g) <=> Sums(f, S, g)
  <2>1. \A s \in SUBSET S : s # {} => f[Chosen(s)] = Visits(Chosen(s))
    <3> TAKE s \in SUBSET S
    <3> HAVE s # {}
    <3>1. Chosen(s) \in s
      BY DEF Chosen
    <3> QED BY <3>1
  <2>2. [s \in SUBSET S |-> IF s = {} THEN 0 ELSE Visits(Chosen(s)) + g[s \ {Chosen(s)}]]
          = [s \in SUBSET S |-> IF s = {} THEN 0 ELSE f[Chosen(s)] + g[s \ {Chosen(s)}]]
    BY <2>1
  <2> QED BY <2>2, Zenon DEF Sums
<1>2. PICK g \in [SUBSET S -> Int] : Sums(f, S, g) /\ g[S] = Total(f, S)
  BY TotalSums
<1>3. Sums(f, S, h)
  BY <1>1, <1>2
<1>4. MapThenSumSet(Visits, S) = h[S]
  BY DEF MapThenSumSet, MapThenFoldSet, Chosen
<1> HIDE DEF h
<1> QED BY <1>2, <1>3, <1>4, SumUnique DEF Counted

LEMMA SeenSum ==
  ASSUME NEW i, NEW f, NEW S, Counted(f, S), \A c \in S : f[c] = SeenFrom(i, c)
  PROVE  MapThenSumSet(LAMBDA c : SeenFrom(i, c), S) = Total(f, S)
<1> DEFINE Is(g) == g = [s \in SUBSET S |-> IF s = {} THEN 0 ELSE SeenFrom(i, Chosen(s)) + g[s \ {Chosen(s)}]]
           h == CHOOSE g : Is(g)
<1>1. ASSUME NEW g PROVE Is(g) <=> Sums(f, S, g)
  <2>1. \A s \in SUBSET S : s # {} => f[Chosen(s)] = SeenFrom(i, Chosen(s))
    <3> TAKE s \in SUBSET S
    <3> HAVE s # {}
    <3>1. Chosen(s) \in s
      BY DEF Chosen
    <3> QED BY <3>1
  <2>2. [s \in SUBSET S |-> IF s = {} THEN 0 ELSE SeenFrom(i, Chosen(s)) + g[s \ {Chosen(s)}]]
          = [s \in SUBSET S |-> IF s = {} THEN 0 ELSE f[Chosen(s)] + g[s \ {Chosen(s)}]]
    BY <2>1
  <2> QED BY <2>2, Zenon DEF Sums
<1>2. PICK g \in [SUBSET S -> Int] : Sums(f, S, g) /\ g[S] = Total(f, S)
  BY TotalSums
<1>3. Sums(f, S, h)
  BY <1>1, <1>2
<1>4. MapThenSumSet(LAMBDA c : SeenFrom(i, c), S) = h[S]
  BY DEF MapThenSumSet, MapThenFoldSet, Chosen
<1> HIDE DEF h
<1> QED BY <1>2, <1>3, <1>4, SumUnique DEF Counted

\* A slot's children are seen from it as the board says, by its own stones left.
LEMMA SeenIs ==
  ASSUME Shape(tree.pool), tree.root \in Seq(Cells), OnBoards(tree.pool, tree.root),
         NEW i \in 1 .. Len(tree.pool), NEW c \in Children(tree.pool, i)
  PROVE  SeenOf(tree.pool, i)[c] = SeenFrom(i, c) /\ VisitsOf(tree.pool)[c] = Visits(c)
<1> DEFINE b == BoardAt(tree.pool, tree.root, i)
<1>1. c \in 1 .. Len(tree.pool) /\ c # 1 /\ tree.pool[c].parent = i
  BY ChildIs
<1>2. BoardAt(tree.pool, tree.root, c) = Append(b, tree.pool[c].cell)
  BY <1>1, BoardUnfolds
<1>3. b \in Seq(Cells) /\ tree.pool[c].cell \in Cells
  BY <1>1, BoardType, ShapeFacts DEF Nodes
<1>4. tree.pool[i].mr = MovesRemaining(b)
  BY DEF OnBoards
<1> HIDE DEF b
<1>5. MoverAt(c) = MoverAt(i) <=> tree.pool[i].mr = 2
  BY <1>2, <1>3, <1>4, AppendMover DEF MoverAt, b
<1> QED BY <1>1, <1>5 DEF SeenOf, SeenFrom, VisitsOf, Visits

LEMMA SlotAddsUp ==
  ASSUME Shape(tree.pool), tree.root \in Seq(Cells), OnBoards(tree.pool, tree.root), Adds(tree.pool, tree.root),
         NEW i \in 1 .. Len(tree.pool)
  PROVE  LET node == tree.pool[i]
             below == Children(tree.pool, i)
         IN  IF node.terminal THEN below = {} /\ node.n > 0 /\ node.w = node.n * node.tv
             ELSE IF ~IsExpanded(node) THEN node.n = 0 /\ node.w = 0
             ELSE /\ node.n = 1 + MapThenSumSet(Visits, below)
                  /\ node.w = Net(Position(BoardAt(tree.pool, tree.root, i)))
                               + MapThenSumSet(LAMBDA c : SeenFrom(i, c), below)
<1> DEFINE below == Children(tree.pool, i)
           vf == VisitsOf(tree.pool)
           sf == SeenOf(tree.pool, i)
<1>1. NodeAdds(tree.pool, i, NetAt(tree.pool, tree.root, i))
  BY DEF Adds
<1>2. Counted(vf, below) /\ Counted(sf, below)
  BY OfTypes
<1>3. \A c \in below : vf[c] = Visits(c) /\ sf[c] = SeenFrom(i, c)
  BY SeenIs
<1>4. tree.pool[i].first = 0 => below = {}
  BY ChildrenAre
<1> HIDE DEF vf, sf, below
<1>5. MapThenSumSet(Visits, below) = Total(vf, below)
  BY <1>2, <1>3, VisitsSum
<1>6. MapThenSumSet(LAMBDA c : SeenFrom(i, c), below) = Total(sf, below)
  BY <1>2, <1>3, SeenSum
<1>7. CASE tree.pool[i].terminal
  BY <1>1, <1>4, <1>7 DEF NodeAdds, below
<1>8. CASE ~tree.pool[i].terminal /\ tree.pool[i].first = 0
  BY <1>1, <1>8 DEF NodeAdds, IsExpanded
<1>9. CASE ~tree.pool[i].terminal /\ tree.pool[i].first # 0
  <2>1. /\ tree.pool[i].n = 1 + Total(vf, below)
        /\ tree.pool[i].w = Net(Position(BoardAt(tree.pool, tree.root, i))) + Total(sf, below)
    BY <1>1, <1>9 DEF NodeAdds, NetAt, vf, sf, below
  <2> QED BY <1>5, <1>6, <1>9, <2>1 DEF IsExpanded, below
<1> QED BY <1>7, <1>8, <1>9

LEMMA SumsAreTree == PenaltyInv /\ BoardsInv /\ SumsInv => TreeAddsUp
<1> SUFFICES ASSUME PenaltyInv, BoardsInv, SumsInv PROVE TreeAddsUp
  OBVIOUS
<1>1. /\ Shape(tree.pool) /\ tree.root \in Seq(Cells) /\ OnBoards(tree.pool, tree.root)
      /\ Adds(tree.pool, tree.root) /\ DOMAIN tree.pool = 1 .. Len(tree.pool)
  BY ShapeFacts DEF PenaltyInv, PlayerTypes, Trees, BoardsInv, SumsInv
<1>2. \A i \in 1 .. Len(tree.pool) :
         LET node == tree.pool[i]
             below == Children(tree.pool, i)
         IN  IF node.terminal THEN below = {} /\ node.n > 0 /\ node.w = node.n * node.tv
             ELSE IF ~IsExpanded(node) THEN node.n = 0 /\ node.w = 0
             ELSE /\ node.n = 1 + MapThenSumSet(Visits, below)
                  /\ node.w = Net(Position(BoardAt(tree.pool, tree.root, i)))
                               + MapThenSumSet(LAMBDA c : SeenFrom(i, c), below)
  BY <1>1, SlotAddsUp
<1> QED BY <1>1, <1>2, Zenon DEF TreeAddsUp, MapThenSumSet, MapThenFoldSet, SeenFrom, MoverAt

\* Whatever drops, re-roots and aborted turns went before, the search's pool is
\* one tree of the board searched, its links agree both ways, every descent plays
\* empty cells, and each node's visits and value are the sums of the evaluations
\* made below it (child_reaching, subtree, backup, finish_expansion).
THEOREM TreeAlwaysWhole == Spec => []TreeIsWhole
<1>1. PenaltyInv /\ BoardsInv /\ SumsInv => TreeIsWhole
  BY BoardsAreTree, SumsAreTree DEF TreeIsWhole
<1>2. Spec => [](PenaltyInv /\ BoardsInv /\ SumsInv)
  BY InitPenalty, NextPenalty, InitBoards, NextBoards, InitSums, NextSums, PTL DEF Spec
<1> QED BY <1>1, <1>2, PTL
=============================================================================
