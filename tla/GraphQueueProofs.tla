-------------------------- MODULE GraphQueueProofs --------------------------
(***************************************************************************)
(* Type correctness of the graph queue, its two no-loss invariants, one    *)
(* answer per request and the exact submitter wake, for any sets of        *)
(* workers and producers and any batch sizes and bounds.                   *)
(***************************************************************************)
EXTENDS GraphQueue, FiniteSetTheorems, TLAPS

\* A worker past its submission stands on one of its own requests.
OnBatch ==
    \A w \in Workers : pc[w] # "idle" => at[w] \in 1..Len(batch[w])

\* Every id anywhere was handed out, so the next ones are fresh.
HandedOut ==
    /\ \A w \in Workers : \A j \in 1..Len(batch[w]) : batch[w][j] < next_id
    /\ \A i \in 1..Len(queue) : queue[i].id < next_id
    /\ \A p \in Producers : \A i \in ids[p] : i < next_id

\* No id belongs to two submissions, or twice to one.
DistinctIds ==
    \A v, w \in Workers : \A i \in 1..Len(batch[v]), j \in 1..Len(batch[w]) :
        batch[v][i] = batch[w][j] => v = w /\ i = j

\* Until its batch is enqueued no producer can have met its ids, and from
\* registration on the map holds all of them.
Unsent ==
    \A w \in Workers : pc[w] \in {"register", "enqueue"} =>
        \A j \in 1..Len(batch[w]) :
            /\ \A i \in 1..Len(queue) : queue[i].id # batch[w][j]
            /\ \A p \in Producers : batch[w][j] \notin ids[p]
            /\ pc[w] = "enqueue" => batch[w][j] \in waiters

\* A delivery pass stays inside its pop, and is over when the next pop starts.
InsidePop ==
    \A p \in Producers : /\ todo[p] \subseteq ids[p]
                         /\ mode[p] \in {"idle", "collecting"} => todo[p] = {}

\* The lock a parking worker holds keeps its result empty.
ParkedEmpty ==
    \A w \in Workers : pc[w] \in {"parking", "asleep"} =>
        result[Current(w)] = "none"

IInv ==
    /\ TypeOK /\ OnBatch /\ HandedOut /\ DistinctIds /\ Unsent /\ InsidePop
    /\ NoOrphan /\ ParkedEmpty

-----------------------------------------------------------------------------
(* Facts about the two sequence updates of the queue.                      *)

Request == [id : Id, ends_batch : BOOLEAN]

\* push_batch appends exactly the batch's requests.
LEMMA PushFacts ==
    ASSUME NEW q \in Seq(Request), NEW b \in Seq(Id)
    PROVE  LET r == q \o [j \in 1..Len(b) |->
                            [id |-> b[j], ends_batch |-> j = Len(b)]]
           IN /\ r \in Seq(Request)
              /\ Len(r) = Len(q) + Len(b)
              /\ \A i \in 1..Len(q) : r[i] = q[i]
              /\ \A j \in 1..Len(b) : /\ r[Len(q) + j].id = b[j]
                                      /\ (r[Len(q) + j].ends_batch <=> j = Len(b))
<1> DEFINE t == [j \in 1..Len(b) |-> [id |-> b[j], ends_batch |-> j = Len(b)]]
<1>1. \A j \in 1..Len(b) : t[j] \in Request
  BY DEF Request
<1>2. t \in Seq(Request) /\ Len(t) = Len(b)
  BY <1>1
<1>3. /\ q \o t \in Seq(Request)
      /\ Len(q \o t) = Len(q) + Len(t)
      /\ \A i \in 1..Len(q) : (q \o t)[i] = q[i]
      /\ \A j \in 1..Len(t) : (q \o t)[Len(q) + j] = t[j]
  BY <1>2
<1>4. \A j \in 1..Len(b) : t[j].id = b[j] /\ (t[j].ends_batch <=> j = Len(b))
  OBVIOUS
<1> QED  BY <1>2, <1>3, <1>4

\* A pop keeps the rest of the queue in order.
LEMMA PopFacts ==
    ASSUME NEW q \in Seq(Request), NEW k \in 0..Len(q)
    PROVE  LET r == SubSeq(q, k + 1, Len(q))
           IN /\ r \in Seq(Request)
              /\ Len(r) = Len(q) - k
              /\ \A i \in 1..Len(r) : r[i] = q[k + i]
<1> QED OBVIOUS

LEMMA EndedIsNat ==
    ASSUME NEW k \in Nat
    PROVE  EndedBatches(k) \in Nat
<1> DEFINE S == {i \in 1..k : queue[i].ends_batch}
<1>1. IsFiniteSet(1..k)
  BY FS_Interval
<1>2. IsFiniteSet(S)
  BY <1>1, FS_Subset
<1>3. Cardinality(S) \in Nat
  BY <1>2, FS_CardinalityType
<1> QED  BY <1>3 DEF EndedBatches

LEMMA QueueIds ==
    ASSUME TypeOK
    PROVE  \A i \in 1..Len(queue) : queue[i].id \in Id
<1> TAKE i \in 1..Len(queue)
<1>1. queue \in Seq(Request)
  BY DEF TypeOK, Request
<1>2. queue[i] \in Request
  BY <1>1
<1> QED  BY <1>2 DEF Request

-----------------------------------------------------------------------------
\* The parts of IInv hold initially: nothing was submitted.
LEMMA InitIInv == Init => IInv
<1> SUFFICES ASSUME Init PROVE IInv
  OBVIOUS
<1> USE QueueAssumption DEF FirstId
<1>1. TypeOK
  <2>1. queue \in Seq([id : Id, ends_batch : BOOLEAN])
        /\ batch \in [Workers -> Seq(Id)]
    BY DEF Init
  <2>2. next_id \in 1..(MaxId + 1) /\ queued_batches \in Nat /\ closes \in 0..MaxCloses
    BY DEF Init
  <2>3. result \in [Id -> {"none", "ok", "err"}]
        /\ pc \in [Workers -> {"idle", "register", "enqueue"} \union Waiting]
        /\ at \in [Workers -> Nat \ {0}]
    BY DEF Init
  <2>4. /\ mode \in [Producers -> {"idle", "collecting", "results", "fail"}]
        /\ expired \in [Producers -> BOOLEAN]
        /\ ids \in [Producers -> SUBSET Id]
        /\ todo \in [Producers -> SUBSET Id]
        /\ held \in [Producers -> Id \union {NoId}]
    BY DEF Init
  <2> QED  BY <2>1, <2>2, <2>3, <2>4 DEF Init, TypeOK
<1>2. OnBatch /\ HandedOut /\ DistinctIds /\ Unsent /\ InsidePop
  BY DEF Init, OnBatch, HandedOut, DistinctIds, Unsent, InsidePop
<1>3. NoOrphan /\ ParkedEmpty
  BY DEF Init, NoOrphan, ParkedEmpty, Waiting
<1> QED  BY <1>1, <1>2, <1>3 DEF IInv

-----------------------------------------------------------------------------
\* Each action keeps the types.
LEMMA TypeStep == IInv /\ [Next]_vars => TypeOK'
<1> SUFFICES ASSUME IInv, [Next]_vars PROVE TypeOK'
  OBVIOUS
<1> USE QueueAssumption
<1>a. TypeOK /\ OnBatch
  BY DEF IInv
<1>1. ASSUME NEW w \in Workers, NEW n \in 1..LeafBatch, Submit(w, n) PROVE TypeOK'
  <2>1. [j \in 1..n |-> next_id + j - 1] \in Seq(Id)
    BY <1>a, <1>1 DEF Submit, TypeOK, Id
  <2> QED  BY <1>a, <1>1, <2>1 DEF Submit, TypeOK, queueVars, closeVars, producerVars
<1>2. ASSUME NEW w \in Workers, Register(w) PROVE TypeOK'
  <2>1. Ids(w) \subseteq Id
    BY <1>a DEF TypeOK, Ids
  <2> QED  BY <1>a, <1>2, <2>1 DEF Register, TypeOK, queueVars, closeVars, producerVars
<1>3. ASSUME NEW w \in Workers, Enqueue(w) PROVE TypeOK'
  <2>1. queue \in Seq(Request) /\ batch[w] \in Seq(Id)
    BY <1>a DEF TypeOK, Request
  <2>2. queue' \in Seq(Request)
    BY <1>3, <2>1, PushFacts DEF Enqueue, PushBatch
  <2> QED  BY <1>a, <1>3, <2>2 DEF Enqueue, TypeOK, Request, Waiting, closeVars, producerVars
<1>4. ASSUME NEW w \in Workers, Collects(w) \/ SpuriousWake(w) PROVE TypeOK'
  <2>1. Current(w) \in Id \/ pc[w] = "idle"
    BY <1>a DEF TypeOK, OnBatch, Current
  <2>a. ASSUME Collect(w)
        PROVE  /\ pc' \in [Workers -> {"idle", "register", "enqueue"} \union Waiting]
               /\ at' \in [Workers -> Nat \ {0}]
    <3>1. CASE at[w] = Len(batch[w])
      BY <1>a, <2>a, <3>1 DEF Collect, TypeOK, Waiting
    <3>2. CASE at[w] # Len(batch[w])
      <4>1. at[w] + 1 \in Nat \ {0}
        BY <1>a DEF TypeOK
      <4>2. at' = [at EXCEPT ![w] = at[w] + 1] /\ pc' = [pc EXCEPT ![w] = "waiting"]
        BY <2>a, <3>2 DEF Collect
      <4> QED  BY <1>a, <4>1, <4>2 DEF TypeOK, Waiting
    <3> QED  BY <3>1, <3>2
  <2>2. CASE TakeResult(w)
    BY <1>a, <2>1, <2>2, <2>a DEF TakeResult, TypeOK, queueVars, closeVars, producerVars
  <2>3. CASE LeaveClosed(w)
    BY <1>a, <2>3, <2>a DEF LeaveClosed, TypeOK, queueVars, closeVars, producerVars
  <2>4. CASE Decide(w) \/ Park(w) \/ SpuriousWake(w)
    BY <1>a, <2>4 DEF Decide, Park, SpuriousWake, TypeOK, Waiting, queueVars, closeVars, producerVars
  <2> QED  BY <1>4, <2>2, <2>3, <2>4 DEF Collects
<1>5. ASSUME NEW p \in Producers, StartPop(p) \/ Deadline(p) \/ EmptyPop(p) PROVE TypeOK'
  BY <1>a, <1>5 DEF StartPop, Deadline, EmptyPop, TypeOK, queueVars, closeVars, workerVars
<1>6. ASSUME NEW p \in Producers, Pop(p) PROVE TypeOK'
  <2> DEFINE k == Min2(BatchSize, Len(queue))
  <2>1. queue \in Seq(Request) /\ k \in 0..Len(queue)
    BY <1>a DEF TypeOK, Request, Min2
  <2>2. queue' \in Seq(Request)
    BY <1>6, <2>1, PopFacts DEF Pop
  <2>3. EndedBatches(k) \in Nat
    BY <2>1, EndedIsNat
  <2>4. queued_batches' \in Nat
    BY <1>a, <1>6, <2>3 DEF Pop, TypeOK
  <2>5. \A i \in 1..k : queue[i].id \in Id
    <3> TAKE i \in 1..k
    <3>1. i \in 1..Len(queue)
      BY <2>1
    <3>2. queue[i] \in Request
      BY <2>1, <3>1
    <3> QED  BY <3>2 DEF Request
  <2> QED  BY <1>a, <1>6, <2>2, <2>4, <2>5 DEF Pop, TypeOK, Request, closeVars, workerVars
<1>7. ASSUME NEW p \in Producers, Delivers(p) PROVE TypeOK'
  <2> PICK id \in Id : RemoveWaiter(p, id) \/ SkipId(p, id) \/ SetResult(p, id)
    BY <1>7 DEF Delivers
  <2>1. CASE RemoveWaiter(p, id)
    BY <1>a, <2>1 DEF RemoveWaiter, TypeOK, queueVars, closeVars, workerVars
  <2>2. CASE SkipId(p, id)
    BY <1>a, <2>2 DEF SkipId, TypeOK, queueVars, closeVars, workerVars
  <2>3. CASE SetResult(p, id)
    <3>1. Answer(p, id) \in {"none", "ok", "err"}
      BY <1>a DEF Answer, TypeOK
    <3>2. WakeHeld(id) \in [Workers -> {"idle", "register", "enqueue"} \union Waiting]
      BY <1>a DEF WakeHeld, WakeSleepersOf, TypeOK, Waiting
    <3> QED  BY <1>a, <2>3, <3>1, <3>2 DEF SetResult, TypeOK, queueVars, closeVars
  <2> QED  BY <2>1, <2>2, <2>3
<1>8. ASSUME NEW p \in Producers, Fail(p) \/ FinishPop(p) PROVE TypeOK'
  BY <1>a, <1>8 DEF Fail, FailPass, FinishPop, TypeOK, queueVars, closeVars, workerVars
<1>9. ASSUME CloseStore PROVE TypeOK'
  BY <1>a, <1>9 DEF CloseStore, TypeOK, queueVars, workerVars, producerVars
<1>10. ASSUME CloseNotify PROVE TypeOK'
  <2>1. WakeSleepersOf(waiters) \in [Workers -> {"idle", "register", "enqueue"} \union Waiting]
    BY <1>a DEF WakeSleepersOf, TypeOK, Waiting
  <2> QED  BY <1>a, <1>10, <2>1 DEF CloseNotify, TypeOK, queueVars, producerVars
<1>11. ASSUME UNCHANGED vars PROVE TypeOK'
  BY <1>a, <1>11 DEF vars, TypeOK
<1> QED
  BY <1>1, <1>2, <1>3, <1>4, <1>5, <1>6, <1>7, <1>8, <1>9, <1>10, <1>11
     DEF Next, WorkerStep, ProducerStep

-----------------------------------------------------------------------------
(* The other parts, one lemma per action that can disturb them.            *)

Links == OnBatch /\ HandedOut /\ DistinctIds /\ Unsent /\ InsidePop

LEMMA SubmitKeeps ==
    ASSUME IInv, NEW w \in Workers, NEW n \in 1..LeafBatch, Submit(w, n)
    PROVE  Links' /\ NoOrphan' /\ ParkedEmpty'
<1> USE QueueAssumption
<1> DEFINE fresh == [j \in 1..n |-> next_id + j - 1]
<1>1. /\ pc' = [pc EXCEPT ![w] = "register"] /\ at' = [at EXCEPT ![w] = 1]
      /\ batch' = [batch EXCEPT ![w] = fresh] /\ next_id' = next_id + n
      /\ queue' = queue /\ waiters' = waiters /\ result' = result
      /\ ids' = ids /\ todo' = todo /\ held' = held /\ mode' = mode
  BY DEF Submit, queueVars, producerVars
<1>2. /\ next_id \in Nat \ {0} /\ n \in Nat \ {0} /\ TypeOK
  BY DEF IInv, TypeOK
<1>3. /\ batch'[w] = fresh /\ Len(fresh) = n
      /\ \A j \in 1..n : fresh[j] = next_id + j - 1
  BY <1>1, <1>2 DEF TypeOK
<1>4. \A v \in Workers \ {w} : /\ batch'[v] = batch[v] /\ pc'[v] = pc[v]
                              /\ at'[v] = at[v]
  BY <1>1, <1>2 DEF TypeOK
<1>5. /\ pc'[w] = "register" /\ at'[w] = 1
  BY <1>1, <1>2 DEF TypeOK
<1>6. OnBatch'
  BY <1>2, <1>3, <1>4, <1>5 DEF IInv, OnBatch
<1>7. HandedOut'
  <2>1. \A v \in Workers : \A j \in 1..Len(batch'[v]) : batch'[v][j] < next_id'
    <3> TAKE v \in Workers
    <3>1. CASE v = w
      BY <1>1, <1>2, <1>3, <3>1
    <3>2. CASE v # w
      <4>1. \A j \in 1..Len(batch[v]) : batch[v][j] < next_id /\ batch[v][j] \in Nat
        BY <1>2 DEF IInv, HandedOut, TypeOK, Id
      <4> QED  BY <1>1, <1>2, <1>4, <3>2, <4>1
    <3> QED  BY <3>1, <3>2
  <2>2. \A i \in 1..Len(queue) : queue[i].id < next_id'
    BY <1>1, <1>2, QueueIds DEF IInv, HandedOut, Id
  <2>3. \A p \in Producers : \A i \in ids[p] : i < next_id'
    BY <1>1, <1>2 DEF IInv, HandedOut, TypeOK, Id
  <2> QED  BY <1>1, <2>1, <2>2, <2>3 DEF HandedOut
<1>8. \A v \in Workers \ {w} : \A i \in 1..Len(batch[v]), j \in 1..n : batch[v][i] # fresh[j]
  <2> TAKE v \in Workers \ {w}
  <2> TAKE i \in 1..Len(batch[v]), j \in 1..n
  <2>1. batch[v][i] < next_id /\ batch[v][i] \in Nat
    BY <1>2 DEF IInv, HandedOut, TypeOK, Id
  <2> QED  BY <1>2, <1>3, <2>1
<1>9. DistinctIds'
  <2> SUFFICES ASSUME NEW u \in Workers, NEW v \in Workers,
                      NEW i \in 1..Len(batch'[u]), NEW j \in 1..Len(batch'[v]),
                      batch'[u][i] = batch'[v][j]
               PROVE  u = v /\ i = j
    BY DEF DistinctIds
  <2>1. CASE u = w /\ v = w
    BY <1>2, <1>3, <2>1
  <2>2. CASE u = w /\ v # w
    <3>1. batch'[u][i] = fresh[i] /\ batch'[v][j] = batch[v][j] /\ i \in 1..n
          /\ j \in 1..Len(batch[v])
      BY <1>3, <1>4, <2>2
    <3>2. batch[v][j] # fresh[i]
      BY <1>8, <2>2, <3>1
    <3> QED  BY <3>1, <3>2
  <2>3. CASE u # w /\ v = w
    <3>1. batch'[v][j] = fresh[j] /\ batch'[u][i] = batch[u][i] /\ j \in 1..n
          /\ i \in 1..Len(batch[u])
      BY <1>3, <1>4, <2>3
    <3>2. batch[u][i] # fresh[j]
      BY <1>8, <2>3, <3>1
    <3> QED  BY <3>1, <3>2
  <2>4. CASE u # w /\ v # w
    BY <1>4, <2>4 DEF IInv, DistinctIds
  <2> QED  BY <2>1, <2>2, <2>3, <2>4
<1>10. Unsent'
  <2> SUFFICES ASSUME NEW v \in Workers, pc'[v] \in {"register", "enqueue"},
                      NEW j \in 1..Len(batch'[v])
               PROVE  /\ \A i \in 1..Len(queue) : queue[i].id # batch'[v][j]
                      /\ \A p \in Producers : batch'[v][j] \notin ids[p]
                      /\ pc'[v] = "enqueue" => batch'[v][j] \in waiters
    BY <1>1 DEF Unsent
  <2>1. CASE v = w
    <3>1. batch'[v][j] = next_id + j - 1
      BY <1>3, <2>1
    <3>2. \A i \in 1..Len(queue) : queue[i].id < next_id /\ queue[i].id \in Nat
      BY <1>2, QueueIds DEF IInv, HandedOut, Id
    <3>3. \A p \in Producers : \A i \in ids[p] : i < next_id /\ i \in Nat
      BY <1>2 DEF IInv, HandedOut, TypeOK, Id
    <3>4. j \in Nat \ {0}
      BY <1>2, <1>3, <2>1
    <3> QED  BY <1>2, <1>5, <2>1, <3>1, <3>2, <3>3, <3>4
  <2>2. CASE v # w
    BY <1>4, <2>2 DEF IInv, Unsent
  <2> QED  BY <2>1, <2>2
<1>11. InsidePop'
  BY <1>1 DEF IInv, InsidePop
<1>12. NoOrphan'
  <2> SUFFICES ASSUME NEW v \in Workers, pc'[v] \in Waiting',
                      NEW j \in at'[v]..Len(batch'[v])
               PROVE  (Pending(batch[v][j]) \/ result[batch[v][j]] # "none")'
    BY DEF NoOrphan
  <2>1. v # w
    BY <1>5 DEF Waiting
  <2>2. Pending(batch[v][j]) \/ result[batch[v][j]] # "none"
    BY <1>4, <2>1 DEF IInv, NoOrphan
  <2> QED  BY <1>1, <1>4, <2>1, <2>2 DEF Pending, QueuedIds
<1>13. ParkedEmpty'
  BY <1>1, <1>4, <1>5 DEF IInv, ParkedEmpty, Current
<1> QED  BY <1>6, <1>7, <1>9, <1>10, <1>11, <1>12, <1>13 DEF Links

LEMMA RegisterKeeps ==
    ASSUME IInv, NEW w \in Workers, Register(w)
    PROVE  Links' /\ NoOrphan' /\ ParkedEmpty'
<1>1. /\ pc' = [pc EXCEPT ![w] = "enqueue"] /\ at' = at /\ batch' = batch
      /\ next_id' = next_id /\ queue' = queue /\ waiters' = waiters \union Ids(w)
      /\ result' = result /\ ids' = ids /\ todo' = todo /\ held' = held /\ mode' = mode
      /\ pc[w] = "register" /\ TypeOK
  BY DEF Register, queueVars, producerVars, IInv
<1>2. /\ pc'[w] = "enqueue"
      /\ \A v \in Workers \ {w} : pc'[v] = pc[v]
  BY <1>1 DEF TypeOK
<1>3. OnBatch' /\ HandedOut' /\ DistinctIds' /\ InsidePop'
  BY <1>1, <1>2 DEF IInv, OnBatch, HandedOut, DistinctIds, InsidePop
<1>4. Unsent'
  <2>1. \A j \in 1..Len(batch[w]) : batch[w][j] \in waiters'
    BY <1>1 DEF Ids
  <2> QED  BY <1>1, <1>2, <2>1 DEF IInv, Unsent
<1>5. NoOrphan'
  <2> SUFFICES ASSUME NEW v \in Workers, pc'[v] \in Waiting',
                      NEW j \in at'[v]..Len(batch'[v])
               PROVE  (Pending(batch[v][j]) \/ result[batch[v][j]] # "none")'
    BY DEF NoOrphan
  <2>1. v # w
    BY <1>2 DEF Waiting
  <2>2. Pending(batch[v][j]) \/ result[batch[v][j]] # "none"
    BY <1>1, <1>2, <2>1 DEF IInv, NoOrphan
  <2> QED  BY <1>1, <2>2 DEF Pending, QueuedIds
<1>6. ParkedEmpty'
  BY <1>1, <1>2 DEF IInv, ParkedEmpty, Current
<1> QED  BY <1>3, <1>4, <1>5, <1>6 DEF Links

LEMMA EnqueueKeeps ==
    ASSUME IInv, NEW w \in Workers, Enqueue(w)
    PROVE  Links' /\ NoOrphan' /\ ParkedEmpty'
<1>1. /\ pc' = [pc EXCEPT ![w] = "waiting"] /\ at' = at /\ batch' = batch
      /\ next_id' = next_id /\ queue' = PushBatch(batch[w]) /\ waiters' = waiters
      /\ result' = result /\ ids' = ids /\ todo' = todo /\ held' = held /\ mode' = mode
      /\ pc[w] = "enqueue" /\ TypeOK
  BY DEF Enqueue, producerVars, IInv
<1>2. /\ pc'[w] = "waiting"
      /\ \A v \in Workers \ {w} : pc'[v] = pc[v]
  BY <1>1 DEF TypeOK
<1>3. queue \in Seq(Request) /\ batch[w] \in Seq(Id)
  BY <1>1 DEF TypeOK, Request
<1>4. /\ Len(queue') = Len(queue) + Len(batch[w])
      /\ \A i \in 1..Len(queue) : queue'[i] = queue[i]
      /\ \A j \in 1..Len(batch[w]) : queue'[Len(queue) + j].id = batch[w][j]
  BY <1>1, <1>3, PushFacts DEF PushBatch
<1>5. \A i \in 1..Len(queue') : \/ i \in 1..Len(queue) /\ queue'[i] = queue[i]
                               \/ \E j \in 1..Len(batch[w]) : queue'[i].id = batch[w][j]
  <2> TAKE i \in 1..Len(queue')
  <2>1. CASE i <= Len(queue)
    BY <1>3, <1>4, <2>1
  <2>2. CASE i > Len(queue)
    <3>1. i - Len(queue) \in 1..Len(batch[w]) /\ i = Len(queue) + (i - Len(queue))
      BY <1>3, <1>4, <2>2
    <3> QED  BY <1>4, <3>1
  <2> QED  BY <1>3, <2>1, <2>2
<1>6. OnBatch' /\ DistinctIds' /\ InsidePop'
  BY <1>1, <1>2 DEF IInv, OnBatch, DistinctIds, InsidePop
<1>7. HandedOut'
  <2>1. \A i \in 1..Len(queue') : queue'[i].id < next_id
    BY <1>5 DEF IInv, HandedOut
  <2> QED  BY <1>1, <2>1 DEF IInv, HandedOut
<1>8. Unsent'
  <2> SUFFICES ASSUME NEW v \in Workers, pc'[v] \in {"register", "enqueue"},
                      NEW j \in 1..Len(batch[v])
               PROVE  /\ \A i \in 1..Len(queue') : queue'[i].id # batch[v][j]
                      /\ \A p \in Producers : batch[v][j] \notin ids[p]
                      /\ pc'[v] = "enqueue" => batch[v][j] \in waiters
    BY <1>1 DEF Unsent
  <2>1. v # w /\ pc[v] \in {"register", "enqueue"} /\ pc'[v] = pc[v]
    BY <1>2
  <2>2. \A i \in 1..Len(queue) : queue[i].id # batch[v][j]
    BY <2>1 DEF IInv, Unsent
  <2>3. \A k \in 1..Len(batch[w]) : batch[w][k] # batch[v][j]
    BY <2>1 DEF IInv, DistinctIds
  <2>4. \A i \in 1..Len(queue') : queue'[i].id # batch[v][j]
    BY <1>5, <2>2, <2>3
  <2> QED  BY <2>1, <2>4 DEF IInv, Unsent
<1>9. \A id \in QueuedIds : id \in QueuedIds'
  <2>1. \A i \in 1..Len(queue) : i \in 1..Len(queue') /\ queue'[i].id = queue[i].id
    BY <1>3, <1>4
  <2> QED  BY <2>1 DEF QueuedIds
<1>10. NoOrphan'
  <2> SUFFICES ASSUME NEW v \in Workers, pc'[v] \in Waiting',
                      NEW j \in at'[v]..Len(batch'[v])
               PROVE  (Pending(batch[v][j]) \/ result[batch[v][j]] # "none")'
    BY DEF NoOrphan
  <2>1. CASE v = w
    <3>1. j \in 1..Len(batch[w])
      BY <1>1, <2>1 DEF IInv, OnBatch
    <3>2. batch[w][j] \in waiters
      BY <1>1, <3>1 DEF IInv, Unsent
    <3>3. Len(queue) + j \in 1..Len(queue') /\ queue'[Len(queue) + j].id = batch[w][j]
      BY <1>3, <1>4, <3>1
    <3>4. batch[w][j] \in QueuedIds'
      BY <3>3 DEF QueuedIds
    <3> QED  BY <1>1, <2>1, <3>2, <3>4 DEF Pending
  <2>2. CASE v # w
    <3>1. Pending(batch[v][j]) \/ result[batch[v][j]] # "none"
      BY <1>1, <1>2, <2>2 DEF IInv, NoOrphan, Waiting
    <3> QED  BY <1>1, <1>9, <3>1 DEF Pending
  <2> QED  BY <2>1, <2>2
<1>11. ParkedEmpty'
  BY <1>1, <1>2 DEF IInv, ParkedEmpty, Current
<1> QED  BY <1>6, <1>7, <1>8, <1>10, <1>11 DEF Links

\* Collecting one outcome moves only this worker, forwards or out.
LEMMA CollectFacts ==
    ASSUME IInv, NEW w \in Workers, pc[w] = "waiting", Collect(w)
    PROVE  /\ \A v \in Workers \ {w} : pc'[v] = pc[v] /\ at'[v] = at[v]
           /\ \/ pc'[w] = "idle"
              \/ /\ pc'[w] = "waiting" /\ at'[w] = at[w] + 1
                 /\ at'[w] \in 1..Len(batch[w])
<1>1. TypeOK /\ at[w] \in 1..Len(batch[w]) /\ batch[w] \in Seq(Id)
  BY DEF IInv, OnBatch, TypeOK
<1>2. CASE at[w] = Len(batch[w])
  BY <1>1, <1>2 DEF Collect, TypeOK
<1>3. CASE at[w] # Len(batch[w])
  <2>1. at' = [at EXCEPT ![w] = at[w] + 1] /\ pc' = [pc EXCEPT ![w] = "waiting"]
    BY <1>3 DEF Collect
  <2>2. at[w] + 1 \in 1..Len(batch[w])
    BY <1>1, <1>3
  <2> QED  BY <1>1, <2>1, <2>2 DEF TypeOK
<1> QED  BY <1>2, <1>3

\* TakeResult and LeaveClosed: what a worker takes is its own, so nobody else
\* loses an answer.
LEMMA CollectKeeps ==
    ASSUME IInv, NEW w \in Workers, TakeResult(w) \/ LeaveClosed(w)
    PROVE  Links' /\ NoOrphan' /\ ParkedEmpty'
<1>1. /\ batch' = batch /\ next_id' = next_id /\ queue' = queue
      /\ waiters' = waiters /\ ids' = ids /\ todo' = todo /\ held' = held /\ mode' = mode
      /\ pc[w] = "waiting" /\ TypeOK /\ Collect(w)
  BY DEF TakeResult, LeaveClosed, queueVars, producerVars, IInv
<1>2. /\ \A v \in Workers \ {w} : pc'[v] = pc[v] /\ at'[v] = at[v]
      /\ \/ pc'[w] = "idle"
         \/ /\ pc'[w] = "waiting" /\ at'[w] = at[w] + 1
            /\ at'[w] \in 1..Len(batch[w])
  BY <1>1, CollectFacts
<1>3. \A i \in Id : i # Current(w) => result'[i] = result[i]
  BY <1>1 DEF TakeResult, LeaveClosed, TypeOK
<1>4. at[w] \in 1..Len(batch[w])
  BY <1>1 DEF IInv, OnBatch
<1>5. OnBatch' /\ HandedOut' /\ DistinctIds' /\ InsidePop'
  BY <1>1, <1>2 DEF IInv, OnBatch, HandedOut, DistinctIds, InsidePop
<1>6. Unsent'
  BY <1>1, <1>2 DEF IInv, Unsent
<1>7. NoOrphan'
  <2> SUFFICES ASSUME NEW v \in Workers, pc'[v] \in Waiting',
                      NEW j \in at'[v]..Len(batch'[v])
               PROVE  (Pending(batch[v][j]) \/ result[batch[v][j]] # "none")'
    BY DEF NoOrphan
  <2>0. at[v] \in 1..Len(batch[v]) /\ batch[v] \in Seq(Id) /\ pc[v] \in Waiting
    BY <1>1, <1>2 DEF IInv, OnBatch, TypeOK, Waiting
  <2>1. j \in at[v]..Len(batch[v]) /\ j \in 1..Len(batch[v]) /\ (v = w => j # at[w])
    BY <1>1, <1>2, <1>4, <2>0 DEF Waiting
  <2>2. batch[v][j] # Current(w) /\ batch[v][j] \in Id
    BY <1>4, <2>0, <2>1 DEF IInv, DistinctIds, Current
  <2>3. Pending(batch[v][j]) \/ result[batch[v][j]] # "none"
    BY <2>0, <2>1 DEF IInv, NoOrphan
  <2> QED  BY <1>1, <1>3, <2>2, <2>3 DEF Pending, QueuedIds
<1>8. ParkedEmpty'
  <2> SUFFICES ASSUME NEW v \in Workers, pc'[v] \in {"parking", "asleep"}
               PROVE  result'[batch'[v][at'[v]]] = "none"
    BY DEF ParkedEmpty, Current
  <2>1. v # w /\ pc[v] \in {"parking", "asleep"} /\ at'[v] = at[v]
    BY <1>2
  <2>2. at[v] \in 1..Len(batch[v]) /\ batch[v] \in Seq(Id)
    BY <1>1, <2>1 DEF IInv, OnBatch, TypeOK
  <2>3. batch[v][at[v]] # Current(w) /\ batch[v][at[v]] \in Id
    BY <1>4, <2>1, <2>2 DEF IInv, DistinctIds, Current
  <2> QED  BY <1>1, <1>3, <2>1, <2>3 DEF IInv, ParkedEmpty, Current
<1> QED  BY <1>5, <1>6, <1>7, <1>8 DEF Links

\* Moving between waiting, parking and asleep loses nothing, as long as a
\* worker goes to sleep only on an empty result.
LEMMA SleepKeeps ==
    ASSUME IInv, NEW w \in Workers, Decide(w) \/ Park(w) \/ SpuriousWake(w)
    PROVE  Links' /\ NoOrphan' /\ ParkedEmpty'
<1>1. /\ batch' = batch /\ next_id' = next_id /\ queue' = queue /\ at' = at
      /\ waiters' = waiters /\ ids' = ids /\ todo' = todo /\ held' = held /\ mode' = mode
      /\ result' = result /\ pc[w] \in Waiting /\ TypeOK
  BY DEF Decide, Park, SpuriousWake, queueVars, producerVars, Waiting, IInv
<1>2. /\ \A v \in Workers \ {w} : pc'[v] = pc[v]
      /\ pc'[w] \in Waiting
      /\ pc'[w] \in {"parking", "asleep"} => result[Current(w)] = "none"
  <2>1. CASE Decide(w)
    BY <1>1, <2>1 DEF Decide, TypeOK, Waiting
  <2>2. CASE Park(w)
    BY <1>1, <2>2 DEF Park, TypeOK, Waiting, IInv, ParkedEmpty
  <2>3. CASE SpuriousWake(w)
    BY <1>1, <2>3 DEF SpuriousWake, TypeOK, Waiting
  <2> QED  BY <2>1, <2>2, <2>3
<1>3. OnBatch' /\ HandedOut' /\ DistinctIds' /\ InsidePop' /\ Unsent'
  BY <1>1, <1>2 DEF IInv, OnBatch, HandedOut, DistinctIds, InsidePop, Unsent, Waiting
<1>4. NoOrphan'
  <2> SUFFICES ASSUME NEW v \in Workers, pc'[v] \in Waiting',
                      NEW j \in at'[v]..Len(batch'[v])
               PROVE  (Pending(batch[v][j]) \/ result[batch[v][j]] # "none")'
    BY DEF NoOrphan
  <2>1. pc[v] \in Waiting
    BY <1>1, <1>2
  <2>2. Pending(batch[v][j]) \/ result[batch[v][j]] # "none"
    BY <1>1, <2>1 DEF IInv, NoOrphan
  <2> QED  BY <1>1, <2>2 DEF Pending, QueuedIds
<1>5. ParkedEmpty'
  BY <1>1, <1>2 DEF IInv, ParkedEmpty, Current
<1> QED  BY <1>3, <1>4, <1>5 DEF Links

LEMMA PopKeeps ==
    ASSUME IInv, NEW p \in Producers, Pop(p)
    PROVE  Links' /\ NoOrphan' /\ ParkedEmpty'
<1> USE QueueAssumption
<1> DEFINE k == Min2(BatchSize, Len(queue))
           popped == {queue[i].id : i \in 1..k}
<1>1. /\ batch' = batch /\ next_id' = next_id /\ at' = at /\ pc' = pc
      /\ waiters' = waiters /\ held' = held /\ result' = result
      /\ queue' = SubSeq(queue, k + 1, Len(queue))
      /\ ids' = [ids EXCEPT ![p] = popped] /\ todo' = [todo EXCEPT ![p] = popped]
      /\ mode' = [mode EXCEPT ![p] = "results"] /\ TypeOK
  BY DEF Pop, workerVars, IInv
<1>2. queue \in Seq(Request) /\ k \in 0..Len(queue)
  BY <1>1 DEF TypeOK, Request, Min2
<1> HIDE DEF k
<1>3. /\ Len(queue') = Len(queue) - k
      /\ \A i \in 1..Len(queue') : queue'[i] = queue[k + i]
  BY <1>1, <1>2, PopFacts
<1>4. \A i \in 1..Len(queue') : k + i \in 1..Len(queue)
  BY <1>2, <1>3
<1>5. /\ ids'[p] = popped /\ todo'[p] = popped /\ mode'[p] = "results"
      /\ \A q \in Producers \ {p} : /\ ids'[q] = ids[q] /\ todo'[q] = todo[q]
                                    /\ mode'[q] = mode[q]
  BY <1>1 DEF TypeOK
<1>6. \A id \in popped : \E i \in 1..Len(queue) : id = queue[i].id
  BY <1>2
<1>7. OnBatch' /\ DistinctIds' /\ InsidePop' /\ ParkedEmpty'
  BY <1>1, <1>5 DEF IInv, OnBatch, DistinctIds, InsidePop, ParkedEmpty, Current
<1>8. HandedOut'
  <2>1. \A i \in 1..Len(queue') : queue'[i].id < next_id
    BY <1>3, <1>4 DEF IInv, HandedOut
  <2>2. \A q \in Producers : \A i \in ids'[q] : i < next_id
    BY <1>5, <1>6 DEF IInv, HandedOut
  <2> QED  BY <1>1, <2>1, <2>2 DEF IInv, HandedOut
<1>9. Unsent'
  <2> SUFFICES ASSUME NEW v \in Workers, pc[v] \in {"register", "enqueue"},
                      NEW j \in 1..Len(batch[v])
               PROVE  /\ \A i \in 1..Len(queue') : queue'[i].id # batch[v][j]
                      /\ \A q \in Producers : batch[v][j] \notin ids'[q]
                      /\ pc[v] = "enqueue" => batch[v][j] \in waiters
    BY <1>1 DEF Unsent
  <2>1. /\ \A i \in 1..Len(queue) : queue[i].id # batch[v][j]
        /\ \A q \in Producers : batch[v][j] \notin ids[q]
        /\ pc[v] = "enqueue" => batch[v][j] \in waiters
    BY DEF IInv, Unsent
  <2> QED  BY <1>3, <1>4, <1>5, <1>6, <2>1
<1>10. \A id \in QueuedIds : id \in popped \/ id \in QueuedIds'
  <2> SUFFICES ASSUME NEW i \in 1..Len(queue)
               PROVE  queue[i].id \in popped \/ queue[i].id \in QueuedIds'
    BY DEF QueuedIds
  <2>1. CASE i <= k
    BY <1>2, <2>1
  <2>2. CASE i > k
    <3>1. i - k \in 1..Len(queue') /\ k + (i - k) = i
      BY <1>2, <1>3, <2>2
    <3>2. queue'[i - k] = queue[i]
      BY <1>3, <3>1
    <3> QED  BY <3>1, <3>2 DEF QueuedIds
  <2> QED  BY <1>2, <2>1, <2>2
<1>11. todo[p] = {}
  BY DEF IInv, InsidePop, Pop
<1>12. NoOrphan'
  <2> SUFFICES ASSUME NEW v \in Workers, pc'[v] \in Waiting',
                      NEW j \in at'[v]..Len(batch'[v])
               PROVE  (Pending(batch[v][j]) \/ result[batch[v][j]] # "none")'
    BY DEF NoOrphan
  <2>1. Pending(batch[v][j]) \/ result[batch[v][j]] # "none"
    BY <1>1 DEF IInv, NoOrphan
  <2> QED  BY <1>1, <1>5, <1>10, <1>11, <2>1 DEF Pending
<1> QED  BY <1>7, <1>8, <1>9, <1>12 DEF Links

\* StartPop, Deadline and EmptyPop touch nothing a worker depends on.
LEMMA IdlePopKeeps ==
    ASSUME IInv, NEW p \in Producers, StartPop(p) \/ Deadline(p) \/ EmptyPop(p)
    PROVE  Links' /\ NoOrphan' /\ ParkedEmpty'
<1>1. /\ batch' = batch /\ next_id' = next_id /\ at' = at /\ pc' = pc
      /\ waiters' = waiters /\ held' = held /\ result' = result
      /\ queue' = queue /\ ids' = ids /\ todo' = todo /\ TypeOK
  BY DEF StartPop, Deadline, EmptyPop, queueVars, workerVars, IInv
<1>2. OnBatch' /\ HandedOut' /\ DistinctIds' /\ Unsent' /\ ParkedEmpty'
  BY <1>1 DEF IInv, OnBatch, HandedOut, DistinctIds, Unsent, ParkedEmpty, Current
<1>3. \A q \in Producers : mode'[q] \in {"idle", "collecting"} =>
                              mode[q] \in {"idle", "collecting"}
  BY <1>1 DEF StartPop, Deadline, EmptyPop, TypeOK
<1>4. InsidePop'
  BY <1>1, <1>3 DEF IInv, InsidePop
<1>5. NoOrphan'
  BY <1>1 DEF IInv, NoOrphan, Pending, QueuedIds
<1> QED  BY <1>2, <1>4, <1>5 DEF Links

\* An id leaves the map only into its producer's hands.
LEMMA RemoveKeeps ==
    ASSUME IInv, NEW p \in Producers, NEW id \in Id, RemoveWaiter(p, id)
    PROVE  Links' /\ NoOrphan' /\ ParkedEmpty'
<1>1. /\ batch' = batch /\ next_id' = next_id /\ at' = at /\ pc' = pc
      /\ waiters' = waiters \ {id} /\ held' = [held EXCEPT ![p] = id]
      /\ result' = result /\ queue' = queue /\ ids' = ids /\ todo' = todo
      /\ mode' = mode /\ id \in todo[p] /\ held[p] = NoId /\ TypeOK
  BY DEF RemoveWaiter, queueVars, workerVars, IInv
<1>2. held'[p] = id /\ \A q \in Producers \ {p} : held'[q] = held[q]
  BY <1>1 DEF TypeOK
<1>3. OnBatch' /\ HandedOut' /\ DistinctIds' /\ InsidePop' /\ ParkedEmpty'
  BY <1>1 DEF IInv, OnBatch, HandedOut, DistinctIds, InsidePop, ParkedEmpty, Current
<1>4. Unsent'
  <2>1. id \in ids[p]
    BY <1>1 DEF IInv, InsidePop
  <2> QED  BY <1>1, <2>1 DEF IInv, Unsent
<1>5. NoOrphan'
  <2> SUFFICES ASSUME NEW v \in Workers, pc'[v] \in Waiting',
                      NEW j \in at'[v]..Len(batch'[v])
               PROVE  (Pending(batch[v][j]) \/ result[batch[v][j]] # "none")'
    BY DEF NoOrphan
  <2>1. Pending(batch[v][j]) \/ result[batch[v][j]] # "none"
    BY <1>1 DEF IInv, NoOrphan
  <2>2. CASE batch[v][j] = id
    BY <1>1, <1>2, <2>2 DEF Pending
  <2>3. CASE batch[v][j] # id
    <3>1. at[v] \in 1..Len(batch[v]) /\ batch[v] \in Seq(Id)
      BY <1>1 DEF IInv, OnBatch, TypeOK, Waiting
    <3>2. batch[v][j] \in Id
      BY <1>1, <3>1
    <3>3. \A q \in Producers : held[q] = batch[v][j] => held'[q] = batch[v][j]
      BY <1>1, <1>2, <3>2, QueueAssumption DEF Id
    <3> QED  BY <1>1, <2>1, <2>3, <3>3 DEF Pending, QueuedIds
  <2> QED  BY <2>2, <2>3
<1> QED  BY <1>3, <1>4, <1>5 DEF Links

\* Skipping is safe: a pending id that is not in the map is in someone's hands.
LEMMA SkipKeeps ==
    ASSUME IInv, NEW p \in Producers, NEW id \in Id, SkipId(p, id)
    PROVE  Links' /\ NoOrphan' /\ ParkedEmpty'
<1>1. /\ batch' = batch /\ next_id' = next_id /\ at' = at /\ pc' = pc
      /\ waiters' = waiters /\ held' = held /\ result' = result
      /\ queue' = queue /\ ids' = ids /\ mode' = mode
      /\ todo' = [todo EXCEPT ![p] = @ \ {id}] /\ id \notin waiters /\ TypeOK
  BY DEF SkipId, queueVars, workerVars, IInv
<1>2. /\ todo'[p] = todo[p] \ {id}
      /\ \A q \in Producers \ {p} : todo'[q] = todo[q]
  BY <1>1 DEF TypeOK
<1>3. OnBatch' /\ HandedOut' /\ DistinctIds' /\ Unsent' /\ ParkedEmpty'
  BY <1>1 DEF IInv, OnBatch, HandedOut, DistinctIds, Unsent, ParkedEmpty, Current
<1>4. InsidePop'
  BY <1>1, <1>2 DEF IInv, InsidePop
<1>5. NoOrphan'
  <2> SUFFICES ASSUME NEW v \in Workers, pc'[v] \in Waiting',
                      NEW j \in at'[v]..Len(batch'[v])
               PROVE  (Pending(batch[v][j]) \/ result[batch[v][j]] # "none")'
    BY DEF NoOrphan
  <2>1. Pending(batch[v][j]) \/ result[batch[v][j]] # "none"
    BY <1>1 DEF IInv, NoOrphan
  <2> QED  BY <1>1, <1>2, <2>1 DEF Pending, QueuedIds
<1> QED  BY <1>3, <1>4, <1>5 DEF Links

\* Setting a result wakes the worker that sleeps on it.
LEMMA SetResultKeeps ==
    ASSUME IInv, NEW p \in Producers, NEW id \in Id, SetResult(p, id)
    PROVE  Links' /\ NoOrphan' /\ ParkedEmpty'
<1>1. /\ batch' = batch /\ next_id' = next_id /\ at' = at
      /\ pc' = WakeSleepersOf({id}) /\ waiters' = waiters
      /\ held' = [held EXCEPT ![p] = NoId] /\ held[p] = id
      /\ result' = [result EXCEPT ![id] = Answer(p, id)]
      /\ queue' = queue /\ ids' = ids /\ mode' = mode
      /\ todo' = [todo EXCEPT ![p] = @ \ {id}] /\ TypeOK
      /\ \A v \in Workers : ~(pc[v] = "parking" /\ Current(v) = id)
  BY DEF SetResult, WakeHeld, queueVars, IInv
<1>2. /\ todo'[p] = todo[p] \ {id}
      /\ \A q \in Producers \ {p} : todo'[q] = todo[q]
  BY <1>1 DEF TypeOK
<1>3. /\ result'[id] # "none"
      /\ \A i \in Id \ {id} : result'[i] = result[i]
  BY <1>1 DEF TypeOK, Answer
<1>4. \A v \in Workers : /\ pc'[v] = pc[v] \/ (pc[v] = "asleep" /\ pc'[v] = "waiting")
                         /\ pc[v] = "asleep" /\ Current(v) = id => pc'[v] = "waiting"
  BY <1>1 DEF WakeSleepersOf, Current
<1>5. OnBatch' /\ HandedOut' /\ DistinctIds'
  <2>1. \A v \in Workers : pc'[v] # "idle" => pc[v] # "idle"
    BY <1>4
  <2>2. OnBatch'
    BY <1>1, <2>1 DEF IInv, OnBatch
  <2> QED  BY <1>1, <2>2 DEF IInv, HandedOut, DistinctIds
<1>6. Unsent'
  <2>1. \A v \in Workers : pc'[v] \in {"register", "enqueue"} => pc'[v] = pc[v]
    BY <1>4
  <2> QED  BY <1>1, <2>1 DEF IInv, Unsent
<1>7. InsidePop'
  BY <1>1, <1>2 DEF IInv, InsidePop
<1>8. NoOrphan'
  <2> SUFFICES ASSUME NEW v \in Workers, pc'[v] \in Waiting',
                      NEW j \in at'[v]..Len(batch'[v])
               PROVE  (Pending(batch[v][j]) \/ result[batch[v][j]] # "none")'
    BY DEF NoOrphan
  <2>1. pc[v] \in Waiting
    BY <1>4 DEF Waiting
  <2>2. Pending(batch[v][j]) \/ result[batch[v][j]] # "none"
    BY <1>1, <2>1 DEF IInv, NoOrphan
  <2>3. CASE batch[v][j] = id
    BY <1>1, <1>3, <2>3
  <2>4. CASE batch[v][j] # id
    <3>1. at[v] \in 1..Len(batch[v]) /\ batch[v] \in Seq(Id)
      BY <1>1, <2>1 DEF IInv, OnBatch, TypeOK, Waiting
    <3>2. batch[v][j] \in Id
      BY <1>1, <3>1
    <3>3. \A q \in Producers : held[q] = batch[v][j] => held'[q] = batch[v][j]
      BY <1>1, <2>4 DEF TypeOK
    <3>4. result'[batch[v][j]] = result[batch[v][j]]
      BY <1>3, <2>4, <3>2
    <3>5. \A q \in Producers : batch[v][j] \in todo[q] => batch[v][j] \in todo'[q]
      BY <1>2, <2>4
    <3> QED  BY <1>1, <2>2, <3>3, <3>4, <3>5 DEF Pending, QueuedIds
  <2> QED  BY <2>3, <2>4
<1>9. ParkedEmpty'
  <2> SUFFICES ASSUME NEW v \in Workers, pc'[v] \in {"parking", "asleep"}
               PROVE  result'[batch[v][at[v]]] = "none"
    BY <1>1 DEF ParkedEmpty, Current
  <2>1. pc[v] = pc'[v] /\ batch[v][at[v]] # id
    BY <1>1, <1>4 DEF Current
  <2>2. at[v] \in 1..Len(batch[v]) /\ batch[v] \in Seq(Id)
    BY <1>1, <2>1 DEF IInv, OnBatch, TypeOK
  <2>3. batch[v][at[v]] \in Id
    BY <2>2
  <2> QED  BY <1>3, <2>1, <2>3 DEF IInv, ParkedEmpty, Current
<1> QED  BY <1>5, <1>6, <1>7, <1>8, <1>9 DEF Links

\* A failure pass starts over on the whole pop; a finished pop has none left.
LEMMA FailKeeps ==
    ASSUME IInv, NEW p \in Producers, Fail(p) \/ FinishPop(p)
    PROVE  Links' /\ NoOrphan' /\ ParkedEmpty'
<1>1. /\ batch' = batch /\ next_id' = next_id /\ at' = at /\ pc' = pc
      /\ waiters' = waiters /\ held' = held /\ result' = result
      /\ queue' = queue /\ TypeOK
  BY DEF Fail, FinishPop, queueVars, workerVars, IInv
<1>2. /\ \A q \in Producers \ {p} : todo'[q] = todo[q] /\ ids'[q] = ids[q]
                                   /\ mode'[q] = mode[q]
      /\ todo[p] \subseteq todo'[p] /\ todo'[p] \subseteq ids'[p]
      /\ ids'[p] \subseteq ids[p]
      /\ mode'[p] \in {"idle", "collecting"} => todo'[p] = {}
  <2>1. CASE Fail(p)
    BY <1>1, <2>1 DEF Fail, FailPass, TypeOK, IInv, InsidePop
  <2>2. CASE FinishPop(p)
    BY <1>1, <2>2 DEF FinishPop, TypeOK
  <2> QED  BY <2>1, <2>2
<1>3. OnBatch' /\ DistinctIds' /\ ParkedEmpty'
  BY <1>1 DEF IInv, OnBatch, DistinctIds, ParkedEmpty, Current
<1>4. \A q \in Producers : ids'[q] \subseteq ids[q] /\ todo[q] \subseteq todo'[q]
  BY <1>2
<1>5. HandedOut' /\ Unsent'
  BY <1>1, <1>4 DEF IInv, HandedOut, Unsent
<1>6. InsidePop'
  BY <1>2 DEF IInv, InsidePop
<1>7. NoOrphan'
  <2> SUFFICES ASSUME NEW v \in Workers, pc'[v] \in Waiting',
                      NEW j \in at'[v]..Len(batch'[v])
               PROVE  (Pending(batch[v][j]) \/ result[batch[v][j]] # "none")'
    BY DEF NoOrphan
  <2>1. Pending(batch[v][j]) \/ result[batch[v][j]] # "none"
    BY <1>1 DEF IInv, NoOrphan
  <2> QED  BY <1>1, <1>4, <2>1 DEF Pending, QueuedIds
<1> QED  BY <1>3, <1>5, <1>6, <1>7 DEF Links

\* close() only moves workers from asleep to waiting.
LEMMA CloseKeeps ==
    ASSUME IInv, CloseStore \/ CloseNotify
    PROVE  Links' /\ NoOrphan' /\ ParkedEmpty'
<1>1. /\ batch' = batch /\ next_id' = next_id /\ at' = at /\ queue' = queue
      /\ waiters' = waiters /\ held' = held /\ result' = result /\ mode' = mode
      /\ ids' = ids /\ todo' = todo /\ TypeOK
  BY DEF CloseStore, CloseNotify, queueVars, workerVars, producerVars, IInv
<1>2. \A v \in Workers : pc'[v] = pc[v] \/ (pc[v] = "asleep" /\ pc'[v] = "waiting")
  BY DEF CloseStore, CloseNotify, WakeSleepersOf, Current, workerVars
<1>3. \A v \in Workers : /\ pc'[v] \in {"register", "enqueue", "parking", "asleep"}
                              => pc'[v] = pc[v]
                         /\ pc'[v] \in Waiting => pc[v] \in Waiting
                         /\ pc'[v] # "idle" => pc[v] # "idle"
  BY <1>2 DEF Waiting
<1>4. OnBatch' /\ HandedOut' /\ DistinctIds' /\ Unsent' /\ InsidePop'
  BY <1>1, <1>3 DEF IInv, OnBatch, HandedOut, DistinctIds, Unsent, InsidePop
<1>5. ParkedEmpty'
  BY <1>1, <1>3 DEF IInv, ParkedEmpty, Current
<1>6. NoOrphan'
  <2> SUFFICES ASSUME NEW v \in Workers, pc'[v] \in Waiting',
                      NEW j \in at'[v]..Len(batch'[v])
               PROVE  (Pending(batch[v][j]) \/ result[batch[v][j]] # "none")'
    BY DEF NoOrphan
  <2>1. Pending(batch[v][j]) \/ result[batch[v][j]] # "none"
    BY <1>1, <1>3 DEF IInv, NoOrphan, Waiting
  <2> QED  BY <1>1, <2>1 DEF Pending, QueuedIds
<1> QED  BY <1>4, <1>5, <1>6 DEF Links

-----------------------------------------------------------------------------
LEMMA NextIInv == IInv /\ [Next]_vars => IInv'
<1> SUFFICES ASSUME IInv, [Next]_vars PROVE IInv'
  OBVIOUS
<1>1. TypeOK'
  BY TypeStep
<1>2. Links' /\ NoOrphan' /\ ParkedEmpty'
  <2>1. CASE UNCHANGED vars
    BY <2>1 DEF vars, IInv, Links, OnBatch, HandedOut, DistinctIds, Unsent,
                InsidePop, NoOrphan, ParkedEmpty, Pending, QueuedIds, Current
  <2>2. ASSUME NEW w \in Workers, WorkerStep(w) PROVE Links' /\ NoOrphan' /\ ParkedEmpty'
    BY <2>2, SubmitKeeps, RegisterKeeps, EnqueueKeeps, CollectKeeps, SleepKeeps
       DEF WorkerStep, Collects
  <2>3. ASSUME NEW p \in Producers, ProducerStep(p) PROVE Links' /\ NoOrphan' /\ ParkedEmpty'
    BY <2>3, IdlePopKeeps, PopKeeps, RemoveKeeps, SkipKeeps, SetResultKeeps, FailKeeps
       DEF ProducerStep, Delivers
  <2>4. CASE CloseStore \/ CloseNotify
    BY <2>4, CloseKeeps
  <2> QED  BY <2>1, <2>2, <2>3, <2>4 DEF Next
<1> QED  BY <1>1, <1>2 DEF IInv, Links

\* The graph queue's state keeps its types under every interleaving of
\* submissions, pops, deliveries, failures and closes.
THEOREM TypeCorrect == Spec => []TypeOK
<1>1. IInv => TypeOK
  BY DEF IInv
<1> QED  BY InitIInv, NextIInv, <1>1, PTL DEF Spec

\* submit_graphs_and_wait never blocks on a request nobody will answer: what a
\* blocked worker has still to collect is queued or popped with its waiter in the
\* map, in a producer's hands, or answered.
THEOREM NeverOrphaned == Spec => []NoOrphan
<1>1. IInv => NoOrphan
  BY DEF IInv
<1> QED  BY InitIInv, NextIInv, <1>1, PTL DEF Spec

\* wait_for never sleeps on a waiter whose result is set.
THEOREM NeverSleepsOnAnswer == Spec => []NoSleepOnAnswer
<1>1. IInv => NoSleepOnAnswer
  BY DEF IInv, ParkedEmpty, NoSleepOnAnswer
<1> QED  BY InitIInv, NextIInv, <1>1, PTL DEF Spec

-----------------------------------------------------------------------------
(* One answer per request                                                  *)

\* Someone may still answer this id: it is in the map, or in a producer's hands.
Live(i) == i \in waiters \/ \E p \in Producers : held[p] = i

\* The worker has sent this id, or is about to, and has not collected it.
Awaits(w, i) ==
    /\ pc[w] \in {"enqueue"} \union Waiting
    /\ \E j \in at[w]..Len(batch[w]) : batch[w][j] = i

\* A result is set on an id handed out, never on one of a batch still unsent.
NoEarlyAnswer ==
    /\ \A i \in Id : result[i] # "none" => i < next_id
    /\ \A w \in Workers : pc[w] \in {"register", "enqueue"} =>
         at[w] = 1 /\ \A j \in 1..Len(batch[w]) : result[batch[w][j]] = "none"

\* An id that may still be answered has no answer yet.
LiveEmpty == \A i \in Id : Live(i) => result[i] = "none"

\* An id is in one pair of hands at a time, and out of the map while it is.
OneHolder ==
    \A p \in Producers : held[p] # NoId =>
        /\ held[p] \in todo[p] /\ held[p] \notin waiters
        /\ \A q \in Producers : held[q] = held[p] => q = p

\* With the queue open, nobody walks away from an id that may still be answered.
LiveAwaited == ~closed => \A i \in Id : Live(i) => \E w \in Workers : Awaits(w, i)

AnswerInv == NoEarlyAnswer /\ LiveEmpty /\ OneHolder /\ LiveAwaited

LEMMA InitAnswer == Init => AnswerInv
<1> SUFFICES ASSUME Init PROVE AnswerInv
  OBVIOUS
<1>1. \A i \in Id : ~Live(i) /\ result[i] = "none"
  BY QueueAssumption DEF Init, Live, Id
<1> QED BY <1>1 DEF Init, AnswerInv, NoEarlyAnswer, LiveEmpty, OneHolder, LiveAwaited

\* Steps that touch neither the map, a hand, a result nor what is still to be
\* collected.
LEMMA AnswerFrame ==
    ASSUME AnswerInv, UNCHANGED <<result, waiters, held, next_id, batch, at>>, closed => closed',
           \A v \in Workers : \/ pc'[v] = pc[v]
                              \/ pc[v] \in Waiting \union {"enqueue"} /\ pc'[v] \in Waiting,
           \A p \in Producers : held[p] # NoId => todo'[p] = todo[p]
    PROVE  AnswerInv'
<1>1. NoEarlyAnswer'
  <2>1. \A v \in Workers : pc'[v] \in {"register", "enqueue"} => pc[v] = pc'[v]
    BY DEF Waiting
  <2> QED BY <2>1 DEF AnswerInv, NoEarlyAnswer
<1>2. LiveEmpty' /\ OneHolder'
  BY DEF AnswerInv, LiveEmpty, OneHolder, Live
<1>3. LiveAwaited'
  BY DEF AnswerInv, LiveAwaited, Live, Awaits
<1> QED BY <1>1, <1>2, <1>3 DEF AnswerInv

LEMMA AnswerSubmit ==
    ASSUME IInv, AnswerInv, NEW w \in Workers, NEW n \in 1..LeafBatch, Submit(w, n)
    PROVE  AnswerInv'
<1> USE QueueAssumption
<1>1. /\ pc[w] = "idle" /\ pc' = [pc EXCEPT ![w] = "register"] /\ at' = [at EXCEPT ![w] = 1]
      /\ batch' = [batch EXCEPT ![w] = [j \in 1..n |-> next_id + j - 1]] /\ next_id' = next_id + n
      /\ next_id + n <= MaxId + 1
      /\ UNCHANGED <<waiters, result, held, todo, closed>> /\ TypeOK
  BY DEF Submit, producerVars, closeVars, IInv
<1>2. /\ pc'[w] = "register" /\ at'[w] = 1 /\ batch'[w] = [j \in 1..n |-> next_id + j - 1]
      /\ \A v \in Workers \ {w} : pc'[v] = pc[v] /\ at'[v] = at[v] /\ batch'[v] = batch[v]
      /\ next_id \in Nat \ {0} /\ n \in Nat \ {0} /\ MaxId \in Nat
  BY <1>1 DEF TypeOK
<1>3. \A j \in 1..n : result[next_id + j - 1] = "none"
  <2> TAKE j \in 1..n
  <2>1. next_id + j - 1 \in Id /\ ~(next_id + j - 1 < next_id)
    BY <1>1, <1>2 DEF Id
  <2> QED BY <2>1 DEF AnswerInv, NoEarlyAnswer
<1>4. NoEarlyAnswer'
  <2>1. \A i \in Id : result[i] # "none" => i < next_id'
    BY <1>1, <1>2 DEF AnswerInv, NoEarlyAnswer, Id
  <2>2. ASSUME NEW v \in Workers, pc'[v] \in {"register", "enqueue"}
        PROVE  at'[v] = 1 /\ \A j \in 1..Len(batch'[v]) : result[batch'[v][j]] = "none"
    <3>1. CASE v = w
      <4>1. Len(batch'[w]) = n /\ \A j \in 1..n : batch'[w][j] = next_id + j - 1
        BY <1>2
      <4>2. \A j \in 1..Len(batch'[w]) : result[batch'[w][j]] = "none"
        BY <1>3, <4>1
      <4>3. at'[w] = 1
        BY <1>2
      <4> QED BY <3>1, <4>2, <4>3
    <3>2. CASE v # w
      <4>1. pc'[v] = pc[v] /\ at'[v] = at[v] /\ batch'[v] = batch[v]
        BY <1>2, <3>2
      <4>2. at[v] = 1 /\ \A j \in 1..Len(batch[v]) : result[batch[v][j]] = "none"
        BY <2>2, <4>1 DEF AnswerInv, NoEarlyAnswer
      <4> QED BY <4>1, <4>2
    <3> QED BY <3>1, <3>2
  <2> QED BY <1>1, <2>1, <2>2 DEF NoEarlyAnswer
<1>5. LiveEmpty' /\ OneHolder'
  BY <1>1 DEF AnswerInv, LiveEmpty, OneHolder, Live
<1>6. LiveAwaited'
  <2>1. ASSUME NEW v \in Workers, NEW i, Awaits(v, i) PROVE Awaits(v, i)'
    <3>1. v # w
      BY <1>1, <2>1 DEF Awaits, Waiting
    <3> QED BY <1>2, <2>1, <3>1 DEF Awaits
  <2> QED BY <1>1, <2>1 DEF AnswerInv, LiveAwaited, Live
<1> QED BY <1>4, <1>5, <1>6 DEF AnswerInv

LEMMA AnswerRegister ==
    ASSUME IInv, AnswerInv, NEW w \in Workers, Register(w)
    PROVE  AnswerInv'
<1>1. /\ pc[w] = "register" /\ pc' = [pc EXCEPT ![w] = "enqueue"]
      /\ waiters' = waiters \union Ids(w)
      /\ UNCHANGED <<batch, at, next_id, result, held, todo, closed>> /\ TypeOK
  BY DEF Register, producerVars, closeVars, IInv
<1>2. pc'[w] = "enqueue" /\ \A v \in Workers \ {w} : pc'[v] = pc[v]
  BY <1>1 DEF TypeOK
<1>3. /\ at[w] = 1 /\ at[w] \in 1..Len(batch[w])
      /\ \A j \in 1..Len(batch[w]) : /\ result[batch[w][j]] = "none"
                                     /\ \A p \in Producers : batch[w][j] \notin ids[p]
  BY <1>1 DEF AnswerInv, NoEarlyAnswer, IInv, OnBatch, Unsent
<1>4. NoEarlyAnswer'
  <2>1. \A v \in Workers : pc'[v] \in {"register", "enqueue"} => pc[v] \in {"register", "enqueue"}
    BY <1>1, <1>2
  <2> QED BY <1>1, <2>1 DEF AnswerInv, NoEarlyAnswer
<1>5. LiveEmpty'
  BY <1>1, <1>3 DEF AnswerInv, LiveEmpty, Live, Ids
<1>6. OneHolder'
  <2>1. \A p \in Producers : held[p] # NoId => held[p] \in ids[p]
    BY DEF AnswerInv, OneHolder, IInv, InsidePop
  <2> QED BY <1>1, <1>3, <2>1 DEF AnswerInv, OneHolder, Ids
<1>7. LiveAwaited'
  <2> SUFFICES ASSUME ~closed, NEW i \in Id, Live(i)' PROVE \E v \in Workers : Awaits(v, i)'
    BY <1>1 DEF LiveAwaited
  <2>1. CASE i \in Ids(w)
    BY <1>1, <1>2, <1>3, <2>1 DEF Awaits, Ids
  <2>2. CASE i \notin Ids(w)
    <3>1. PICK v \in Workers : Awaits(v, i)
      BY <1>1, <2>2 DEF AnswerInv, LiveAwaited, Live
    <3>2. v # w
      BY <1>1, <3>1 DEF Awaits, Waiting
    <3> QED BY <1>1, <1>2, <3>1, <3>2 DEF Awaits
  <2> QED BY <2>1, <2>2
<1> QED BY <1>4, <1>5, <1>6, <1>7 DEF AnswerInv

\* With the queue open a worker moves past an id only with its answer in hand,
\* so past none that may still be answered.
LEMMA AnswerCollect ==
    ASSUME IInv, AnswerInv, NEW w \in Workers, TakeResult(w) \/ LeaveClosed(w)
    PROVE  AnswerInv'
<1>1. /\ pc[w] = "waiting" /\ Collect(w)
      /\ UNCHANGED <<batch, next_id, waiters, held, todo, closed>> /\ TypeOK
  BY DEF TakeResult, LeaveClosed, producerVars, closeVars, IInv
<1>2. /\ \A v \in Workers \ {w} : pc'[v] = pc[v] /\ at'[v] = at[v]
      /\ \/ pc'[w] = "idle"
         \/ /\ pc'[w] = "waiting" /\ at'[w] = at[w] + 1
            /\ at'[w] \in 1..Len(batch[w])
  BY <1>1, CollectFacts
<1>3. \A i \in Id : result'[i] = result[i] \/ result'[i] = "none"
  BY <1>1 DEF TakeResult, LeaveClosed, TypeOK
<1>4. \A v \in Workers : batch[v] \in Seq(Id)
  BY <1>1 DEF TypeOK
<1>5. NoEarlyAnswer'
  <2>1. \A i \in Id : result'[i] # "none" => i < next_id
    BY <1>3 DEF AnswerInv, NoEarlyAnswer
  <2>2. ASSUME NEW v \in Workers, pc'[v] \in {"register", "enqueue"}
        PROVE  at'[v] = 1 /\ \A j \in 1..Len(batch[v]) : result'[batch[v][j]] = "none"
    <3>1. v # w /\ pc[v] = pc'[v] /\ at'[v] = at[v]
      BY <1>2, <2>2
    <3>2. \A j \in 1..Len(batch[v]) : batch[v][j] \in Id /\ result[batch[v][j]] = "none"
      BY <1>4, <2>2, <3>1 DEF AnswerInv, NoEarlyAnswer
    <3>3. at[v] = 1
      BY <2>2, <3>1 DEF AnswerInv, NoEarlyAnswer
    <3> QED BY <1>3, <3>1, <3>2, <3>3
  <2> QED BY <1>1, <2>1, <2>2 DEF NoEarlyAnswer
<1>6. LiveEmpty' /\ OneHolder'
  BY <1>1, <1>3 DEF AnswerInv, LiveEmpty, OneHolder, Live
<1>7. LiveAwaited'
  <2> SUFFICES ASSUME ~closed, NEW i \in Id, Live(i) PROVE \E v \in Workers : Awaits(v, i)'
    BY <1>1 DEF LiveAwaited, Live
  <2>1. PICK v \in Workers : Awaits(v, i)
    BY DEF AnswerInv, LiveAwaited
  <2>2. CASE v # w
    BY <1>1, <1>2, <2>1, <2>2 DEF Awaits
  <2>3. CASE v = w
    <3>1. result[i] = "none" /\ result[Current(w)] # "none"
      BY DEF AnswerInv, LiveEmpty, TakeResult, LeaveClosed
    <3>2. PICK j \in at[w]..Len(batch[w]) : batch[w][j] = i
      BY <2>1, <2>3 DEF Awaits
    <3>3. at[w] \in Nat \ {0} /\ Len(batch[w]) \in Nat /\ j # at[w]
      BY <1>1, <1>4, <3>1, <3>2 DEF TypeOK, Current
    <3>4. at[w] # Len(batch[w])
      BY <3>2, <3>3
    <3>5. pc'[w] = "waiting" /\ at'[w] = at[w] + 1
      BY <1>1, <3>4 DEF Collect, TypeOK
    <3>6. j \in at'[w]..Len(batch[w])
      BY <3>2, <3>3, <3>5
    <3> QED BY <1>1, <2>3, <3>2, <3>5, <3>6 DEF Awaits, Waiting
  <2> QED BY <2>2, <2>3
<1> QED BY <1>5, <1>6, <1>7 DEF AnswerInv

LEMMA AnswerRemove ==
    ASSUME IInv, AnswerInv, NEW p \in Producers, NEW id \in Id, RemoveWaiter(p, id)
    PROVE  AnswerInv'
<1>1. /\ id \in todo[p] /\ held[p] = NoId /\ id \in waiters
      /\ waiters' = waiters \ {id} /\ held' = [held EXCEPT ![p] = id]
      /\ UNCHANGED <<pc, at, batch, next_id, result, todo, closed>> /\ TypeOK
  BY DEF RemoveWaiter, workerVars, closeVars, IInv
<1>2. held'[p] = id /\ \A q \in Producers \ {p} : held'[q] = held[q]
  BY <1>1 DEF TypeOK
<1>3. \A i \in Id : Live(i)' => Live(i)
  BY <1>1, <1>2 DEF Live
<1>4. \A q \in Producers : held[q] # id
  <2>1. id # NoId
    BY QueueAssumption DEF Id
  <2> QED BY <1>1, <2>1 DEF AnswerInv, OneHolder
<1>5. NoEarlyAnswer' /\ LiveEmpty' /\ LiveAwaited'
  BY <1>1, <1>3 DEF AnswerInv, NoEarlyAnswer, LiveEmpty, LiveAwaited, Awaits
<1>6. OneHolder'
  <2> SUFFICES ASSUME NEW q \in Producers, held'[q] # NoId
               PROVE  /\ held'[q] \in todo[q] /\ held'[q] \notin waiters'
                      /\ \A r \in Producers : held'[r] = held'[q] => r = q
    BY <1>1 DEF OneHolder
  <2>1. CASE q = p
    BY <1>1, <1>2, <1>4, <2>1
  <2>2. CASE q # p
    BY <1>1, <1>2, <1>4, <2>2 DEF AnswerInv, OneHolder
  <2> QED BY <2>1, <2>2
<1> QED BY <1>5, <1>6 DEF AnswerInv

LEMMA AnswerSet ==
    ASSUME IInv, AnswerInv, NEW p \in Producers, NEW id \in Id, SetResult(p, id)
    PROVE  AnswerInv'
<1>1. /\ held[p] = id /\ held' = [held EXCEPT ![p] = NoId]
      /\ result' = [result EXCEPT ![id] = Answer(p, id)]
      /\ todo' = [todo EXCEPT ![p] = @ \ {id}] /\ pc' = WakeSleepersOf({id})
      /\ UNCHANGED <<waiters, at, batch, next_id, closed>> /\ TypeOK
  BY DEF SetResult, WakeHeld, closeVars, IInv
<1>2. /\ held'[p] = NoId /\ \A q \in Producers \ {p} : held'[q] = held[q] /\ todo'[q] = todo[q]
      /\ \A i \in Id \ {id} : result'[i] = result[i]
  BY <1>1 DEF TypeOK
<1>3. id # NoId /\ id \in ids[p] /\ id \notin waiters /\ \A q \in Producers : held[q] = id => q = p
  BY <1>1, QueueAssumption DEF Id, AnswerInv, OneHolder, IInv, InsidePop
<1>4. \A v \in Workers : pc'[v] = pc[v] \/ (pc[v] = "asleep" /\ pc'[v] = "waiting")
  BY <1>1 DEF WakeSleepersOf
<1>5. \A i \in Id : Live(i)' => Live(i) /\ i # id
  BY <1>1, <1>2, <1>3, QueueAssumption DEF Live, Id
<1>6. NoEarlyAnswer'
  <2>1. id < next_id
    BY <1>3 DEF IInv, HandedOut
  <2>2. ASSUME NEW v \in Workers, pc'[v] \in {"register", "enqueue"}
        PROVE  at[v] = 1 /\ \A j \in 1..Len(batch[v]) : result'[batch[v][j]] = "none"
    <3>1. pc[v] = pc'[v] /\ batch[v] \in Seq(Id)
      BY <1>1, <1>4, <2>2 DEF TypeOK
    <3>2. \A j \in 1..Len(batch[v]) : batch[v][j] # id /\ batch[v][j] \in Id
      BY <1>3, <2>2, <3>1 DEF IInv, Unsent
    <3> QED BY <1>2, <2>2, <3>1, <3>2 DEF AnswerInv, NoEarlyAnswer
  <2>3. \A i \in Id : result'[i] # "none" => i < next_id'
    <3> TAKE i \in Id
    <3>1. CASE i = id
      BY <1>1, <2>1, <3>1
    <3>2. CASE i # id
      BY <1>1, <1>2, <3>2 DEF AnswerInv, NoEarlyAnswer
    <3> QED BY <3>1, <3>2
  <2> QED BY <1>1, <2>2, <2>3 DEF NoEarlyAnswer
<1>7. LiveEmpty'
  BY <1>2, <1>5 DEF AnswerInv, LiveEmpty
<1>8. OneHolder'
  BY <1>1, <1>2 DEF AnswerInv, OneHolder
<1>9. LiveAwaited'
  <2>1. ASSUME NEW v \in Workers, NEW i, Awaits(v, i) PROVE Awaits(v, i)'
    BY <1>1, <1>4, <2>1 DEF Awaits, Waiting
  <2> QED BY <1>1, <1>5, <2>1 DEF AnswerInv, LiveAwaited
<1> QED BY <1>6, <1>7, <1>8, <1>9 DEF AnswerInv

\* Every other step of the queue.
Elsewhere ==
    \/ UNCHANGED vars \/ CloseStore \/ CloseNotify
    \/ \E w \in Workers : Enqueue(w) \/ Decide(w) \/ Park(w) \/ SpuriousWake(w)
    \/ \E p \in Producers : \/ StartPop(p) \/ Deadline(p) \/ EmptyPop(p) \/ Pop(p)
                            \/ \E id \in Id : SkipId(p, id)
                            \/ Fail(p) \/ FinishPop(p)

LEMMA AnswerElsewhere ==
    ASSUME IInv, AnswerInv, Elsewhere
    PROVE  AnswerInv'
<1>1. UNCHANGED <<result, waiters, held, next_id, batch, at>> /\ (closed => closed')
  BY DEF Elsewhere, vars, CloseStore, CloseNotify, Enqueue, Decide, Park, SpuriousWake, StartPop, Deadline,
         EmptyPop, Pop, SkipId, Fail, FinishPop, workerVars, producerVars, closeVars
<1>2. \A v \in Workers : \/ pc'[v] = pc[v]
                         \/ pc[v] \in Waiting \union {"enqueue"} /\ pc'[v] \in Waiting
  <2>1. ASSUME NEW w \in Workers, Enqueue(w) \/ Decide(w) \/ Park(w) \/ SpuriousWake(w)
        PROVE  <1>2
    <3>1. /\ pc[w] \in Waiting \union {"enqueue"}
          /\ \E x \in Waiting : pc' = [pc EXCEPT ![w] = x]
      BY <2>1 DEF Enqueue, Decide, Park, SpuriousWake, Waiting
    <3> QED BY <3>1 DEF IInv, TypeOK
  <2>2. CASE CloseNotify
    BY <2>2 DEF CloseNotify, WakeSleepersOf, Waiting
  <2>3. CASE pc' = pc
    BY <2>3
  <2>4. \/ pc' = pc \/ CloseNotify
        \/ \E w \in Workers : Enqueue(w) \/ Decide(w) \/ Park(w) \/ SpuriousWake(w)
    BY DEF Elsewhere, vars, CloseStore, StartPop, Deadline, EmptyPop, Pop, SkipId, Fail, FinishPop,
           workerVars
  <2> QED BY <2>1, <2>2, <2>3, <2>4
<1>3. \A p \in Producers : held[p] # NoId => todo'[p] = todo[p]
  <2>1. ASSUME NEW p \in Producers, NEW S,
               held[p] = NoId, todo' = [todo EXCEPT ![p] = S]
        PROVE  <1>3
    BY <2>1 DEF IInv, TypeOK
  <2>2. ASSUME NEW p \in Producers, Pop(p) PROVE <1>3
    <3>1. todo[p] = {}
      BY <2>2 DEF Pop, IInv, InsidePop
    <3>2. held[p] = NoId
      BY <3>1 DEF AnswerInv, OneHolder
    <3> QED BY <2>1, <2>2, <3>2 DEF Pop
  <2>3. ASSUME NEW p \in Producers, NEW id \in Id, SkipId(p, id) PROVE <1>3
    BY <2>1, <2>3 DEF SkipId
  <2>4. ASSUME NEW p \in Producers, Fail(p) PROVE <1>3
    BY <2>1, <2>4 DEF Fail
  <2>5. CASE todo' = todo
    BY <2>5
  <2>6. \/ todo' = todo
        \/ \E p \in Producers : Pop(p) \/ Fail(p) \/ \E id \in Id : SkipId(p, id)
    BY DEF Elsewhere, vars, CloseStore, CloseNotify, Enqueue, Decide, Park, SpuriousWake, StartPop,
           Deadline, EmptyPop, FinishPop, producerVars
  <2> QED BY <2>2, <2>3, <2>4, <2>5, <2>6
<1> QED BY <1>1, <1>2, <1>3, AnswerFrame

\* The steps that matter to an answer, and the others.
LEMMA NextSplits ==
    ASSUME [Next]_vars
    PROVE  \/ Elsewhere
           \/ \E w \in Workers : \/ \E n \in 1..LeafBatch : Submit(w, n)
                                 \/ Register(w) \/ TakeResult(w) \/ LeaveClosed(w)
           \/ \E p \in Producers, id \in Id : RemoveWaiter(p, id) \/ SetResult(p, id)
<1>1. CASE \E w \in Workers : WorkerStep(w)
  BY <1>1 DEF Elsewhere, WorkerStep, Collects
<1>2. CASE \E p \in Producers : ProducerStep(p)
  BY <1>2 DEF Elsewhere, ProducerStep, Delivers
<1> QED BY <1>1, <1>2 DEF Next, Elsewhere

LEMMA NextAnswer == IInv /\ AnswerInv /\ [Next]_vars => AnswerInv'
BY NextSplits, AnswerElsewhere, AnswerSubmit, AnswerRegister, AnswerCollect, AnswerRemove, AnswerSet

\* The step of the property.
AnswerStep ==
    \A i \in Id : (result[i] = "none" /\ result'[i] # "none" /\ ~closed)
        => \E w \in Workers : /\ pc[w] \in Waiting
                              /\ \E j \in at[w]..Len(batch[w]) : batch[w][j] = i

LEMMA AnswersOnlyAwaited == IInv /\ AnswerInv /\ [Next]_vars => AnswerStep
<1> SUFFICES ASSUME IInv, AnswerInv, [Next]_vars, NEW i \in Id, result[i] = "none", result'[i] # "none",
                    ~closed
             PROVE  \E w \in Workers : /\ pc[w] \in Waiting
                                       /\ \E j \in at[w]..Len(batch[w]) : batch[w][j] = i
  BY DEF AnswerStep
<1>1. PICK p \in Producers, id \in Id : SetResult(p, id)
  <2>1. CASE Elsewhere
    BY <2>1 DEF Elsewhere, vars, CloseStore, CloseNotify, Enqueue, Decide, Park, SpuriousWake, StartPop,
       Deadline, EmptyPop, Pop, SkipId, Fail, FinishPop
  <2>2. ASSUME NEW w \in Workers, NEW n \in 1..LeafBatch, Submit(w, n) PROVE FALSE
    BY <2>2 DEF Submit
  <2>3. ASSUME NEW w \in Workers, Register(w) \/ TakeResult(w) \/ LeaveClosed(w) PROVE FALSE
    BY <2>3 DEF Register, TakeResult, LeaveClosed, IInv, TypeOK
  <2>4. ASSUME NEW q \in Producers, NEW id \in Id, RemoveWaiter(q, id) PROVE FALSE
    BY <2>4 DEF RemoveWaiter
  <2> QED BY <2>1, <2>2, <2>3, <2>4, NextSplits
<1>2. i = id
  BY <1>1 DEF SetResult, IInv, TypeOK
<1>3. held[p] = i /\ i \in ids[p]
  BY <1>1, <1>2, QueueAssumption DEF SetResult, AnswerInv, OneHolder, IInv, InsidePop, Id
<1>4. PICK w \in Workers : Awaits(w, i)
  BY <1>3 DEF AnswerInv, LiveAwaited, Live
<1>5. PICK j \in at[w]..Len(batch[w]) : batch[w][j] = i
  BY <1>4 DEF Awaits
<1>6. pc[w] # "enqueue"
  <2> SUFFICES ASSUME pc[w] = "enqueue" PROVE FALSE
    OBVIOUS
  <2>1. j \in 1..Len(batch[w])
    BY <1>5 DEF IInv, OnBatch
  <2> QED BY <1>3, <1>5, <2>1 DEF IInv, Unsent
<1> QED BY <1>4, <1>5, <1>6 DEF Awaits

\* submit_graph_results, fail_remaining: with the queue open an answer only ever
\* lands on a request its worker has still to collect, whatever failure passes
\* run over the pop; none is given twice or to nobody.
THEOREM NeverAnsweredTwice == Spec => AnsweredOnce
<1>1. IInv /\ AnswerInv /\ [Next]_vars => [AnswerStep]_vars
  BY AnswersOnlyAwaited
<1> QED BY InitIInv, NextIInv, InitAnswer, NextAnswer, <1>1, PTL DEF Spec, AnsweredOnce, AnswerStep

-----------------------------------------------------------------------------
(* The submitter wake                                                      *)

Ends(q) == {i \in 1..Len(q) : q[i].ends_batch}

LastId(w) == batch[w][Len(batch[w])]

\* A queued request is in no pop and has no answer, and no id is queued twice.
QueuedOnce ==
    /\ \A i, j \in 1..Len(queue) : queue[i].id = queue[j].id => i = j
    /\ \A i \in 1..Len(queue) : /\ result[queue[i].id] = "none"
                                /\ \A p \in Producers : queue[i].id \notin ids[p]

\* With the queue open a queued end of batch has its submitter blocked on it.
EndsOwned ==
    ~closed => \A i \in Ends(queue) :
        \E w \in Workers : pc[w] \in Waiting /\ LastId(w) = queue[i].id

\* The last id of a blocked worker's batch is queued as an end of batch.
LastEnds ==
    \A w \in Workers : pc[w] \in Waiting =>
        \A i \in 1..Len(queue) : queue[i].id = LastId(w) => queue[i].ends_batch

\* The counter counts the ends that are queued.
Counted == queued_batches = Cardinality(Ends(queue))

WakeInv == QueuedOnce /\ EndsOwned /\ LastEnds /\ Counted

LEMMA EndsFinite ==
    ASSUME NEW q \in Seq(Request)
    PROVE  IsFiniteSet(Ends(q)) /\ Cardinality(Ends(q)) \in Nat
<1>1. IsFiniteSet(1..Len(q))
  BY FS_Interval
<1> QED BY <1>1, FS_Subset, FS_CardinalityType DEF Ends

\* push_batch adds one end, whatever the size of the batch.
LEMMA EndsPushed ==
    ASSUME NEW q \in Seq(Request), NEW b \in Seq(Id), Len(b) # 0,
           NEW r, Len(r) = Len(q) + Len(b), \A i \in 1..Len(q) : r[i] = q[i],
           \A j \in 1..Len(b) : (r[Len(q) + j].ends_batch <=> j = Len(b))
    PROVE  /\ Ends(r) = Ends(q) \union {Len(r)}
           /\ Cardinality(Ends(r)) = Cardinality(Ends(q)) + 1
<1>1. Len(q) \in Nat /\ Len(b) \in Nat \ {0}
  OBVIOUS
<1>2. \A i \in 1..Len(r) : i > Len(q) => (r[i].ends_batch <=> i = Len(r))
  <2> SUFFICES ASSUME NEW i \in 1..Len(r), i > Len(q)
               PROVE  r[i].ends_batch <=> i = Len(r)
    OBVIOUS
  <2>1. i - Len(q) \in 1..Len(b) /\ Len(q) + (i - Len(q)) = i
    BY <1>1
  <2>2. r[i].ends_batch <=> i - Len(q) = Len(b)
    BY <2>1
  <2>3. i - Len(q) = Len(b) <=> i = Len(r)
    BY <1>1
  <2> QED BY <2>2, <2>3
<1>3. Ends(r) = Ends(q) \union {Len(r)}
  <2>1. ASSUME NEW i \in Ends(r) PROVE i \in Ends(q) \/ i = Len(r)
    BY <1>1, <1>2, <2>1 DEF Ends
  <2>2. ASSUME NEW i \in Ends(q) PROVE i \in Ends(r)
    BY <1>1, <2>2 DEF Ends
  <2>3. Len(r) \in 1..Len(r) /\ Len(r) > Len(q)
    BY <1>1
  <2>4. Len(r) \in Ends(r)
    BY <1>2, <2>3 DEF Ends
  <2> QED BY <2>1, <2>2, <2>4
<1>4. Len(r) \notin Ends(q)
  BY <1>1 DEF Ends
<1> QED BY <1>3, <1>4, EndsFinite, FS_AddElement

\* A pop takes the ends among the first k and keeps the others.
LEMMA EndsPopped ==
    ASSUME NEW q \in Seq(Request), NEW k \in 0..Len(q),
           NEW r, Len(r) = Len(q) - k, \A i \in 1..Len(r) : r[i] = q[k + i]
    PROVE  Cardinality(Ends(q)) =
             Cardinality({i \in 1..k : q[i].ends_batch}) + Cardinality(Ends(r))
<1> DEFINE taken == {i \in 1..k : q[i].ends_batch}
           kept == Ends(q) \ taken
           back == [j \in kept |-> j - k]
<1>1. Len(q) \in Nat /\ k \in Nat
  OBVIOUS
<1>2. /\ IsFiniteSet(Ends(q)) /\ taken \subseteq Ends(q) /\ IsFiniteSet(taken)
      /\ IsFiniteSet(kept) /\ Cardinality(taken) \in Nat /\ Cardinality(kept) \in Nat
  <2>1. taken \subseteq Ends(q)
    BY <1>1 DEF Ends
  <2> QED BY <2>1, EndsFinite, FS_Subset, FS_CardinalityType
<1>3. Cardinality(Ends(q)) = Cardinality(taken) + Cardinality(kept)
  <2>1. taken \union kept = Ends(q) /\ taken \intersect kept = {}
    BY <1>2
  <2>2. Cardinality(taken \union kept)
          = Cardinality(taken) + Cardinality(kept) - Cardinality(taken \intersect kept)
    BY <1>2, FS_Union
  <2>3. Cardinality(taken \intersect kept) = 0
    BY <2>1, FS_EmptySet
  <2>4. Cardinality(Ends(q)) = Cardinality(taken \union kept)
    BY <2>1
  <2> HIDE DEF taken, kept
  <2> QED BY <1>2, <2>2, <2>3, <2>4
<1>4. \A j \in kept : j \in Nat /\ j > k /\ j <= Len(q) /\ q[j].ends_batch
  BY <1>1 DEF Ends
<1>5. back \in Bijection(kept, Ends(r))
  <2>1. \A j \in kept : j - k \in Ends(r)
    <3> TAKE j \in kept
    <3>1. j - k \in 1..Len(r) /\ k + (j - k) = j
      BY <1>1, <1>4
    <3>2. r[j - k] = q[j]
      BY <3>1
    <3> QED BY <1>4, <3>1, <3>2 DEF Ends
  <2>2. \A i \in Ends(r) : k + i \in kept /\ (k + i) - k = i
    <3> TAKE i \in Ends(r)
    <3>1. i \in 1..Len(r) /\ q[k + i].ends_batch
      BY DEF Ends
    <3>2. k + i \in 1..Len(q) /\ k + i \notin 1..k /\ (k + i) - k = i
      BY <1>1, <3>1
    <3> QED BY <3>1, <3>2 DEF Ends
  <2>3. \A i, j \in kept : i - k = j - k => i = j
    BY <1>1, <1>4
  <2>4. back \in [kept -> Ends(r)]
    BY <2>1
  <2>5. \A i \in Ends(r) : \E j \in kept : back[j] = i
    BY <2>2
  <2> QED BY <2>3, <2>4, <2>5 DEF Bijection, Injection, Surjection, IsInjective
<1>6. Cardinality(Ends(r)) = Cardinality(kept)
  BY <1>2, <1>5, FS_Bijection DEF ExistsBijection
<1> QED BY <1>3, <1>6

LEMMA InitWake == Init => WakeInv
<1> SUFFICES ASSUME Init PROVE WakeInv
  OBVIOUS
<1>1. Ends(queue) = {}
  BY DEF Init, Ends
<1>2. queue = <<>> /\ Len(queue) = 0
  BY DEF Init
<1>3. QueuedOnce /\ LastEnds
  BY <1>2 DEF QueuedOnce, LastEnds
<1>4. EndsOwned /\ Counted
  BY <1>1, FS_EmptySet DEF Init, EndsOwned, Counted
<1> QED BY <1>3, <1>4 DEF WakeInv

\* Steps that leave the queue alone, answer nothing queued, and let nobody but
\* its collector past an end of batch.
LEMMA WakeFrame ==
    ASSUME WakeInv, UNCHANGED queueVars, closed => closed',
           \A p \in Producers : ids'[p] \subseteq ids[p],
           \A i \in 1..Len(queue) : result'[queue[i].id] = "none",
           \A v \in Workers : pc[v] \in Waiting \/ pc'[v] \in Waiting =>
               /\ pc[v] \in Waiting /\ batch'[v] = batch[v]
               /\ \/ closed \/ pc'[v] \in Waiting
                  \/ \A i \in 1..Len(queue) : queue[i].id # LastId(v)
    PROVE  WakeInv'
<1>1. queue' = queue /\ queued_batches' = queued_batches
  BY DEF queueVars
<1>2. QueuedOnce' /\ Counted'
  BY <1>1 DEF WakeInv, QueuedOnce, Counted
<1>3. EndsOwned'
  <2> SUFFICES ASSUME ~closed, NEW i \in Ends(queue)
               PROVE  \E w \in Workers : pc'[w] \in Waiting /\ LastId(w)' = queue[i].id
    BY <1>1 DEF EndsOwned, Waiting
  <2>1. PICK w \in Workers : pc[w] \in Waiting /\ LastId(w) = queue[i].id
    BY DEF WakeInv, EndsOwned
  <2>2. pc'[w] \in Waiting /\ batch'[w] = batch[w]
    BY <2>1 DEF Ends
  <2> QED BY <2>1, <2>2 DEF LastId
<1>4. LastEnds'
  <2> SUFFICES ASSUME NEW w \in Workers, pc'[w] \in Waiting,
                      NEW i \in 1..Len(queue), queue[i].id = LastId(w)'
               PROVE  queue[i].ends_batch
    BY <1>1 DEF LastEnds, Waiting
  <2>1. pc[w] \in Waiting /\ batch'[w] = batch[w]
    OBVIOUS
  <2> QED BY <2>1 DEF WakeInv, LastEnds, LastId
<1> QED BY <1>2, <1>3, <1>4 DEF WakeInv

LEMMA WakeEnqueue ==
    ASSUME IInv, AnswerInv, WakeInv, NEW w \in Workers, Enqueue(w)
    PROVE  WakeInv'
<1>1. /\ pc[w] = "enqueue" /\ pc' = [pc EXCEPT ![w] = "waiting"]
      /\ queue' = PushBatch(batch[w]) /\ queued_batches' = queued_batches + 1
      /\ UNCHANGED <<result, closed, batch, ids>> /\ TypeOK
  BY DEF Enqueue, producerVars, closeVars, IInv
<1>2. pc'[w] = "waiting" /\ \A v \in Workers \ {w} : pc'[v] = pc[v]
  BY <1>1 DEF TypeOK
<1>3. queue \in Seq(Request) /\ batch[w] \in Seq(Id) /\ Len(batch[w]) \in Nat \ {0} /\ Len(queue) \in Nat
  <2>1. at[w] \in 1..Len(batch[w])
    BY <1>1 DEF IInv, OnBatch
  <2> QED BY <1>1, <2>1 DEF TypeOK, Request
<1>4. /\ Len(queue') = Len(queue) + Len(batch[w])
      /\ \A i \in 1..Len(queue) : queue'[i] = queue[i]
      /\ \A j \in 1..Len(batch[w]) : /\ queue'[Len(queue) + j].id = batch[w][j]
                                     /\ (queue'[Len(queue) + j].ends_batch <=> j = Len(batch[w]))
  <2> DEFINE b == batch[w]
  <2> HIDE DEF b
  <2>1. queue' = queue \o [j \in 1..Len(b) |-> [id |-> b[j], ends_batch |-> j = Len(b)]]
    BY <1>1 DEF PushBatch, b
  <2>2. /\ Len(queue') = Len(queue) + Len(b)
        /\ \A i \in 1..Len(queue) : queue'[i] = queue[i]
        /\ \A j \in 1..Len(b) : /\ queue'[Len(queue) + j].id = b[j]
                                 /\ (queue'[Len(queue) + j].ends_batch <=> j = Len(b))
    <3>1. b \in Seq(Id)
      BY <1>3 DEF b
    <3> QED BY <1>3, <2>1, <3>1, PushFacts
  <2> QED BY <2>2 DEF b
<1>5. \A i \in 1..Len(queue') : \/ i \in 1..Len(queue) /\ queue'[i] = queue[i]
                               \/ \E j \in 1..Len(batch[w]) : i = Len(queue) + j /\ queue'[i].id = batch[w][j]
  <2> TAKE i \in 1..Len(queue')
  <2>1. CASE i <= Len(queue)
    BY <1>3, <1>4, <2>1
  <2>2. CASE i > Len(queue)
    <3>1. i - Len(queue) \in 1..Len(batch[w]) /\ i = Len(queue) + (i - Len(queue))
      BY <1>3, <1>4, <2>2
    <3> QED  BY <1>4, <3>1
  <2> QED  BY <1>3, <2>1, <2>2
<1>6. \A j \in 1..Len(batch[w]) : /\ \A i \in 1..Len(queue) : queue[i].id # batch[w][j]
                                  /\ \A p \in Producers : batch[w][j] \notin ids[p]
                                  /\ result[batch[w][j]] = "none"
  BY <1>1 DEF IInv, Unsent, AnswerInv, NoEarlyAnswer
<1>7. QueuedOnce'
  <2>1. ASSUME NEW i \in 1..Len(queue'), NEW j \in 1..Len(queue'), queue'[i].id = queue'[j].id
        PROVE  i = j
    <3>1. CASE i \in 1..Len(queue) /\ queue'[i] = queue[i] /\ j \in 1..Len(queue) /\ queue'[j] = queue[j]
      BY <2>1, <3>1 DEF WakeInv, QueuedOnce
    <3>2. ASSUME NEW a \in 1..Len(batch[w]), NEW b \in 1..Len(batch[w]),
                 i = Len(queue) + a, queue'[i].id = batch[w][a], j = Len(queue) + b, queue'[j].id = batch[w][b]
          PROVE  i = j
      BY <2>1, <3>2 DEF IInv, DistinctIds
    <3>3. ASSUME NEW m \in 1..Len(queue), NEW x \in 1..Len(queue'), NEW a \in 1..Len(batch[w]),
                 queue'[m] = queue[m], queue'[x].id = batch[w][a]
          PROVE  queue'[m].id # queue'[x].id
      BY <1>6, <3>3
    <3> QED BY <1>5, <2>1, <3>1, <3>2, <3>3
  <2>2. ASSUME NEW i \in 1..Len(queue')
        PROVE  result[queue'[i].id] = "none" /\ \A p \in Producers : queue'[i].id \notin ids[p]
    BY <1>5, <1>6 DEF WakeInv, QueuedOnce
  <2> QED BY <1>1, <2>1, <2>2 DEF QueuedOnce
<1>8. /\ Ends(queue') = Ends(queue) \union {Len(queue')}
      /\ Cardinality(Ends(queue')) = Cardinality(Ends(queue)) + 1
  <2>1. \A j \in 1..Len(batch[w]) : queue'[Len(queue) + j].ends_batch <=> j = Len(batch[w])
    BY <1>4
  <2>2. Len(queue') = Len(queue) + Len(batch[w]) /\ \A i \in 1..Len(queue) : queue'[i] = queue[i]
    BY <1>4
  <2>3. queue \in Seq(Request) /\ batch[w] \in Seq(Id) /\ Len(batch[w]) # 0
    BY <1>3
  <2> HIDE DEF Request
  <2> QED BY ONLY <2>1, <2>2, <2>3, EndsPushed
<1>9. Counted'
  BY <1>1, <1>8 DEF WakeInv, Counted, Ends
<1>10. queue'[Len(queue')].id = LastId(w)
  <2>1. Len(batch[w]) \in 1..Len(batch[w])
    BY <1>3
  <2> QED BY <1>4, <2>1 DEF LastId
<1>11. EndsOwned'
  <2> SUFFICES ASSUME ~closed, NEW i \in Ends(queue')
               PROVE  \E v \in Workers : pc'[v] \in Waiting /\ LastId(v) = queue'[i].id
    BY <1>1 DEF EndsOwned, Waiting, Ends, LastId
  <2>1. CASE i = Len(queue')
    BY <1>2, <1>10, <2>1 DEF Waiting
  <2>2. CASE i \in Ends(queue)
    <3>1. PICK v \in Workers : pc[v] \in Waiting /\ LastId(v) = queue[i].id
      BY <2>2 DEF WakeInv, EndsOwned
    <3>2. v # w /\ i \in 1..Len(queue)
      BY <1>1, <2>2, <3>1 DEF Waiting, Ends
    <3> QED BY <1>2, <1>4, <3>1, <3>2
  <2> QED BY <1>8, <2>1, <2>2
<1>12. LastEnds'
  <2> SUFFICES ASSUME NEW v \in Workers, pc'[v] \in Waiting,
                      NEW i \in 1..Len(queue'), queue'[i].id = LastId(v)
               PROVE  queue'[i].ends_batch
    BY <1>1 DEF LastEnds, Waiting, LastId
  <2>0. v # w => pc[v] \in Waiting
    BY <1>2
  <2>1. Len(batch[v]) \in 1..Len(batch[v])
    <3>1. v # w => at[v] \in 1..Len(batch[v]) /\ batch[v] \in Seq(Id)
      BY <1>1, <2>0 DEF IInv, OnBatch, Waiting, TypeOK
    <3>2. v # w => Len(batch[v]) \in Nat /\ Len(batch[v]) # 0
      BY <3>1
    <3> QED BY <1>3, <3>2
  <2>2. CASE i \in 1..Len(queue) /\ queue'[i] = queue[i]
    <3>1. v # w
      BY <1>6, <2>1, <2>2 DEF LastId
    <3> QED BY <2>0, <2>2, <3>1 DEF WakeInv, LastEnds
  <2>3. ASSUME NEW j \in 1..Len(batch[w]), i = Len(queue) + j, queue'[i].id = batch[w][j]
        PROVE  queue'[i].ends_batch
    <3>1. v = w /\ j = Len(batch[w])
      BY <2>1, <2>3 DEF IInv, DistinctIds, LastId
    <3> QED BY <1>4, <2>3, <3>1
  <2> QED BY <1>5, <2>2, <2>3
<1> QED BY <1>7, <1>9, <1>11, <1>12 DEF WakeInv

LEMMA WakePop ==
    ASSUME IInv, AnswerInv, WakeInv, NEW p \in Producers, Pop(p)
    PROVE  WakeInv'
<1> DEFINE k == Min2(BatchSize, Len(queue))
           popped == {queue[i].id : i \in 1..k}
<1>1. /\ queue' = SubSeq(queue, k + 1, Len(queue))
      /\ ids' = [ids EXCEPT ![p] = popped]
      /\ queued_batches' = IF EndedBatches(k) > queued_batches THEN 0
                           ELSE queued_batches - EndedBatches(k)
      /\ UNCHANGED <<result, closed, batch, pc>> /\ TypeOK
  BY DEF Pop, workerVars, closeVars, IInv
<1>2. queue \in Seq(Request) /\ k \in 0..Len(queue)
  BY <1>1, QueueAssumption DEF TypeOK, Request, Min2
<1> HIDE DEF k
<1>3. /\ Len(queue') = Len(queue) - k /\ queue' \in Seq(Request)
      /\ \A i \in 1..Len(queue') : queue'[i] = queue[k + i]
  BY <1>1, <1>2, PopFacts
<1>4. \A i \in 1..Len(queue') : k + i \in 1..Len(queue) /\ k + i \notin 1..k /\ i \in Nat
  BY <1>2, <1>3
<1>5. k \in Nat /\ \A i \in 1..k : i \in 1..Len(queue)
  BY <1>2
<1>6. QueuedOnce'
  <2>1. \A i, j \in 1..Len(queue') : queue'[i].id = queue'[j].id => i = j
    <3> SUFFICES ASSUME NEW i \in 1..Len(queue'), NEW j \in 1..Len(queue'), queue'[i].id = queue'[j].id
                 PROVE  i = j
      OBVIOUS
    <3>1. k + i = k + j
      BY <1>3, <1>4 DEF WakeInv, QueuedOnce
    <3> QED BY <1>4, <1>5, <3>1
  <2>2. \A i \in 1..Len(queue') : queue'[i].id \notin popped
    BY <1>3, <1>4, <1>5 DEF WakeInv, QueuedOnce
  <2>3. \A q \in Producers : ids'[q] = ids[q] \/ ids'[q] = popped
    BY <1>1 DEF TypeOK
  <2>4. ASSUME NEW i \in 1..Len(queue')
        PROVE  result[queue'[i].id] = "none" /\ \A q \in Producers : queue'[i].id \notin ids'[q]
    <3>1. result[queue[k + i].id] = "none" /\ \A q \in Producers : queue[k + i].id \notin ids[q]
      BY <1>4 DEF WakeInv, QueuedOnce
    <3>2. queue'[i] = queue[k + i]
      BY <1>3
    <3> HIDE DEF popped
    <3> QED BY <2>2, <2>3, <3>1, <3>2
  <2> QED BY <1>1, <2>1, <2>4 DEF QueuedOnce
<1>7. Cardinality(Ends(queue)) = EndedBatches(k) + Cardinality(Ends(queue'))
  BY <1>2, <1>3, EndsPopped DEF EndedBatches
<1>8. /\ Cardinality(Ends(queue')) \in Nat /\ EndedBatches(k) \in Nat
      /\ queued_batches = Cardinality(Ends(queue))
  BY <1>3, <1>5, EndsFinite, EndedIsNat DEF WakeInv, Counted
<1>9. Counted'
  <2>1. queued_batches' = Cardinality(Ends(queue'))
    BY <1>1, <1>7, <1>8
  <2> QED BY <2>1 DEF Counted, Ends
<1>10. \A i \in Ends(queue') : k + i \in Ends(queue) /\ queue'[i] = queue[k + i]
  BY <1>3, <1>4 DEF Ends
<1>11. EndsOwned'
  <2> SUFFICES ASSUME ~closed, NEW i \in Ends(queue')
               PROVE  \E v \in Workers : pc[v] \in Waiting /\ LastId(v) = queue'[i].id
    BY <1>1 DEF EndsOwned, Waiting, Ends, LastId
  <2> QED BY <1>10 DEF WakeInv, EndsOwned
<1>12. LastEnds'
  BY <1>1, <1>3, <1>4 DEF WakeInv, LastEnds, LastId, Waiting
<1> QED BY <1>6, <1>9, <1>11, <1>12 DEF WakeInv

\* A worker leaves its batch with the queue open only by taking the last result,
\* which a queued id does not have.
LEMMA WakeCollect ==
    ASSUME IInv, WakeInv, NEW w \in Workers, TakeResult(w) \/ LeaveClosed(w)
    PROVE  WakeInv'
<1>1. /\ pc[w] = "waiting" /\ Collect(w)
      /\ UNCHANGED <<queue, queued_batches, batch, ids, closed>> /\ TypeOK
  BY DEF TakeResult, LeaveClosed, queueVars, producerVars, closeVars, IInv
<1>2. \A v \in Workers \ {w} : pc'[v] = pc[v]
  BY <1>1, CollectFacts
<1>3. pc'[w] \in Waiting \/ at[w] = Len(batch[w])
  BY <1>1 DEF Collect, TypeOK, Waiting
<1>4. \A i \in 1..Len(queue) : result'[queue[i].id] = "none"
  <2>1. \A i \in Id : result'[i] = result[i] \/ result'[i] = "none"
    BY <1>1 DEF TakeResult, LeaveClosed, TypeOK
  <2>2. \A i \in 1..Len(queue) : queue[i].id \in Id /\ result[queue[i].id] = "none"
    BY <1>1, QueueIds DEF WakeInv, QueuedOnce
  <2> QED BY <2>1, <2>2
<1>5. \/ closed \/ pc'[w] \in Waiting
      \/ \A i \in 1..Len(queue) : queue[i].id # LastId(w)
  <2>1. CASE TakeResult(w) /\ at[w] = Len(batch[w])
    BY <2>1 DEF TakeResult, WakeInv, QueuedOnce, LastId, Current
  <2>2. CASE LeaveClosed(w)
    BY <2>2 DEF LeaveClosed
  <2> QED BY <1>3, <2>1, <2>2
<1> QED BY <1>1, <1>2, <1>4, <1>5, WakeFrame DEF queueVars, Waiting

\* The id in a producer's hands is in its pop, so it is not queued.
LEMMA WakeSet ==
    ASSUME IInv, AnswerInv, WakeInv, NEW p \in Producers, NEW id \in Id, SetResult(p, id)
    PROVE  WakeInv'
<1>1. /\ held[p] = id /\ result' = [result EXCEPT ![id] = Answer(p, id)] /\ pc' = WakeSleepersOf({id})
      /\ UNCHANGED <<queue, queued_batches, batch, ids, closed>> /\ TypeOK
  BY DEF SetResult, WakeHeld, queueVars, closeVars, IInv
<1>2. id \in ids[p]
  BY <1>1, QueueAssumption DEF Id, AnswerInv, OneHolder, IInv, InsidePop
<1>3. \A i \in 1..Len(queue) : queue[i].id # id /\ queue[i].id \in Id /\ result[queue[i].id] = "none"
  BY <1>1, <1>2, QueueIds DEF WakeInv, QueuedOnce
<1>4. \A i \in 1..Len(queue) : result'[queue[i].id] = "none"
  BY <1>1, <1>3 DEF TypeOK
<1>5. \A v \in Workers : pc'[v] = pc[v] \/ (pc[v] \in Waiting /\ pc'[v] \in Waiting)
  BY <1>1 DEF WakeSleepersOf, Waiting
<1> QED BY <1>1, <1>4, <1>5, WakeFrame DEF queueVars

LEMMA WakeSubmit ==
    ASSUME IInv, WakeInv, NEW w \in Workers, NEW n \in 1..LeafBatch, Submit(w, n)
    PROVE  WakeInv'
<1>1. /\ pc[w] = "idle" /\ pc' = [pc EXCEPT ![w] = "register"]
      /\ \E b : batch' = [batch EXCEPT ![w] = b]
      /\ UNCHANGED <<queue, queued_batches, result, ids, closed>> /\ TypeOK
  BY DEF Submit, queueVars, producerVars, closeVars, IInv
<1>2. /\ pc'[w] = "register"
      /\ \A v \in Workers \ {w} : pc'[v] = pc[v] /\ batch'[v] = batch[v]
  BY <1>1 DEF TypeOK
<1>3. \A v \in Workers : pc[v] \in Waiting \/ pc'[v] \in Waiting =>
          pc[v] \in Waiting /\ batch'[v] = batch[v] /\ pc'[v] \in Waiting
  BY <1>1, <1>2 DEF Waiting
<1>4. \A i \in 1..Len(queue) : result'[queue[i].id] = "none"
  BY <1>1 DEF WakeInv, QueuedOnce
<1> QED BY <1>1, <1>3, <1>4, WakeFrame DEF queueVars

\* Every other step leaves the queue, the answers and the blocked workers alone.
LEMMA WakeElsewhere ==
    ASSUME IInv, WakeInv,
           \/ UNCHANGED vars \/ CloseStore \/ CloseNotify
           \/ \E w \in Workers : Register(w) \/ Decide(w) \/ Park(w) \/ SpuriousWake(w)
           \/ \E p \in Producers : \/ StartPop(p) \/ Deadline(p) \/ EmptyPop(p)
                                   \/ \E id \in Id : RemoveWaiter(p, id) \/ SkipId(p, id)
                                   \/ Fail(p) \/ FinishPop(p)
    PROVE  WakeInv'
<1>1. UNCHANGED <<queue, queued_batches, result, batch>> /\ (closed => closed') /\ TypeOK
  BY DEF vars, CloseStore, CloseNotify, Register, Decide, Park, SpuriousWake, StartPop, Deadline, EmptyPop,
         RemoveWaiter, SkipId, Fail, FinishPop, queueVars, workerVars, closeVars, IInv
<1>2. \A q \in Producers : ids'[q] \subseteq ids[q]
  <2>1. ids' = ids \/ \E p \in Producers : ids' = [ids EXCEPT ![p] = {}]
    BY DEF vars, CloseStore, CloseNotify, Register, Decide, Park, SpuriousWake, StartPop, Deadline, EmptyPop,
           RemoveWaiter, SkipId, Fail, FinishPop, producerVars
  <2> QED BY <1>1, <2>1 DEF TypeOK
<1>3. \A v \in Workers : pc[v] \in Waiting <=> pc'[v] \in Waiting
  <2>1. ASSUME NEW w \in Workers, Register(w) PROVE <1>3
    BY <1>1, <2>1 DEF Register, TypeOK, Waiting
  <2>2. ASSUME NEW w \in Workers, Decide(w) \/ Park(w) \/ SpuriousWake(w) PROVE <1>3
    BY <1>1, <2>2 DEF Decide, Park, SpuriousWake, TypeOK, Waiting
  <2>3. CASE CloseNotify
    BY <2>3 DEF CloseNotify, WakeSleepersOf, Waiting
  <2>4. CASE pc' = pc
    BY <2>4
  <2>5. \/ pc' = pc \/ CloseNotify
        \/ \E w \in Workers : Register(w) \/ Decide(w) \/ Park(w) \/ SpuriousWake(w)
    BY DEF vars, CloseStore, StartPop, Deadline, EmptyPop, RemoveWaiter, SkipId, Fail, FinishPop, workerVars
  <2> QED BY <2>1, <2>2, <2>3, <2>4, <2>5
<1>4. \A i \in 1..Len(queue) : result'[queue[i].id] = "none"
  BY <1>1 DEF WakeInv, QueuedOnce
<1> QED BY <1>1, <1>2, <1>3, <1>4, WakeFrame DEF queueVars

LEMMA NextWake == IInv /\ AnswerInv /\ WakeInv /\ [Next]_vars => WakeInv'
<1> SUFFICES ASSUME IInv, AnswerInv, WakeInv, [Next]_vars PROVE WakeInv'
  OBVIOUS
<1>1. ASSUME NEW w \in Workers, WorkerStep(w) PROVE WakeInv'
  BY <1>1, WakeSubmit, WakeEnqueue, WakeCollect, WakeElsewhere DEF WorkerStep, Collects
<1>2. ASSUME NEW p \in Producers, ProducerStep(p) PROVE WakeInv'
  BY <1>2, WakePop, WakeSet, WakeElsewhere DEF ProducerStep, Delivers
<1>3. CASE CloseStore \/ CloseNotify \/ UNCHANGED vars
  BY <1>3, WakeElsewhere
<1> QED BY <1>1, <1>2, <1>3 DEF Next

\* One queued end of batch for each worker blocked in the queue.
LEMMA EndsAreBlocked ==
    ASSUME IInv, WakeInv, ~closed
    PROVE  ExistsBijection(Ends(queue), {w \in Workers : BlockedInQueue(w)})
<1> DEFINE Blocked == {w \in Workers : BlockedInQueue(w)}
           owner == [i \in Ends(queue) |-> CHOOSE w \in Workers : pc[w] \in Waiting /\ LastId(w) = queue[i].id]
<1>1. \A i \in Ends(queue) : /\ i \in 1..Len(queue) /\ owner[i] \in Workers /\ pc[owner[i]] \in Waiting
                             /\ LastId(owner[i]) = queue[i].id
  BY DEF WakeInv, EndsOwned, Ends
<1> HIDE DEF owner
<1>2. owner \in [Ends(queue) -> Blocked]
  <2>1. \A i \in Ends(queue) : owner[i] \in Blocked
    BY <1>1 DEF BlockedInQueue, LastId, QueuedIds
  <2>2. DOMAIN owner = Ends(queue) /\ owner = [i \in Ends(queue) |-> owner[i]]
    BY DEF owner
  <2> QED BY <2>1, <2>2
<1>3. \A i, j \in Ends(queue) : owner[i] = owner[j] => i = j
  BY <1>1 DEF WakeInv, QueuedOnce
<1>4. \A w \in Blocked : \E i \in Ends(queue) : owner[i] = w
  <2> SUFFICES ASSUME NEW w \in Workers, BlockedInQueue(w) PROVE \E i \in Ends(queue) : owner[i] = w
    OBVIOUS
  <2>1. PICK i \in 1..Len(queue) : queue[i].id = LastId(w)
    BY DEF BlockedInQueue, LastId, QueuedIds
  <2>2. i \in Ends(queue)
    BY <2>1 DEF WakeInv, LastEnds, BlockedInQueue, Ends
  <2>3. /\ \A v \in Workers : pc[v] \in Waiting => Len(batch[v]) \in 1..Len(batch[v])
        /\ pc[w] \in Waiting
    <3> SUFFICES ASSUME NEW v \in Workers, pc[v] \in Waiting PROVE Len(batch[v]) \in 1..Len(batch[v])
      BY DEF BlockedInQueue
    <3>1. at[v] \in 1..Len(batch[v]) /\ batch[v] \in Seq(Id)
      BY DEF IInv, OnBatch, TypeOK, Waiting
    <3>2. Len(batch[v]) \in Nat /\ Len(batch[v]) # 0
      BY <3>1
    <3> QED BY <3>2
  <2>4. owner[i] = w
    BY <1>1, <2>1, <2>2, <2>3 DEF IInv, DistinctIds, LastId
  <2> QED BY <2>2, <2>4
<1>5. owner \in Bijection(Ends(queue), Blocked)
  BY <1>2, <1>3, <1>4 DEF Bijection, Injection, Surjection, IsInjective
<1> QED BY <1>5 DEF ExistsBijection

LEMMA WakeIsExact ==
    ASSUME IInv, WakeInv, Submitters = 0 \/ (IsFiniteSet(Workers) /\ Submitters = Cardinality(Workers))
    PROVE  SubmitterWakeExact
<1> SUFFICES ASSUME Submitters > 0, ~closed
             PROVE  AllSubmitted <=> \A w \in Workers : BlockedInQueue(w)
  BY DEF SubmitterWakeExact
<1> DEFINE Blocked == {w \in Workers : BlockedInQueue(w)}
<1>1. IsFiniteSet(Workers) /\ Submitters = Cardinality(Workers)
  BY QueueAssumption
<1>2. IsFiniteSet(Ends(queue)) /\ ExistsBijection(Ends(queue), Blocked)
  BY EndsFinite, EndsAreBlocked DEF IInv, TypeOK, Request
<1>3. queued_batches = Cardinality(Blocked)
  BY <1>2, FS_Bijection DEF WakeInv, Counted
<1>4. /\ Cardinality(Blocked) \in Nat /\ Cardinality(Blocked) <= Cardinality(Workers)
      /\ Cardinality(Workers) = Cardinality(Blocked) => Workers = Blocked
  BY <1>1, FS_Subset, FS_CardinalityType
<1>5. AllSubmitted <=> Workers = Blocked
  <2> HIDE DEF Blocked
  <2> QED BY <1>1, <1>3, <1>4, QueueAssumption DEF AllSubmitted
<1> QED BY <1>5

\* all_submitted (graph.rs): with every worker declared a submitter, the pop is
\* woken early exactly when each of them is blocked on a batch whose end is still
\* queued; a wake is neither missed nor early, whatever pops cut batches in two.
THEOREM SubmitterWakeIsExact ==
    ASSUME Submitters = 0 \/ (IsFiniteSet(Workers) /\ Submitters = Cardinality(Workers))
    PROVE  Spec => []SubmitterWakeExact
<1>1. IInv /\ WakeInv => SubmitterWakeExact
  BY WakeIsExact
<1> QED BY InitIInv, NextIInv, InitAnswer, NextAnswer, InitWake, NextWake, <1>1, PTL DEF Spec

=============================================================================
