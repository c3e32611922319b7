----------------------------- MODULE GraphQueue -----------------------------
(***************************************************************************)
(* The blocking graph-inference queue between the self-play workers (which *)
(* submit leaf batches and sleep) and the inference server's threads       *)
(* (which pop batches and deliver one answer per request).                 *)
(*   source: crates/mantis-selfplay/src/queues/graph.rs, and the delivery  *)
(*   loop over it in crates/mantis-bridge/src/inference.rs.                *)
(*                                                                         *)
(* One step is one critical section: registering under the map lock,       *)
(* enqueueing under the queue lock, looking at a result under that         *)
(* waiter's lock.  A worker that found neither a result nor a closed queue *)
(* still holds its waiter's lock until Condvar::wait releases it; that     *)
(* window is the state "parking".  Graph payloads, reason strings and the  *)
(* wake counters are left out; an answer is "ok" or "err".                 *)
(***************************************************************************)
EXTENDS Integers, Sequences, FiniteSets

CONSTANTS
    Workers,      \* threads that each block on one whole batch
    Producers,    \* server threads that pop and answer
    LeafBatch,    \* the most graphs one submission carries
    BatchSize,    \* the pop's batch_size
    MaxInFlight,  \* declared supply, 0 = undeclared
    Submitters,   \* declared submitters, 0 = undeclared
    MaxId,        \* bound: request ids handed out in one behaviour
    MaxCloses,    \* bound: calls of close()
    NoId          \* "holds no waiter"

ASSUME QueueAssumption ==
    /\ LeafBatch \in Nat \ {0} /\ BatchSize \in Nat \ {0}
    /\ MaxInFlight \in Nat /\ Submitters \in Nat
    /\ MaxId \in Nat /\ MaxCloses \in Nat
    /\ NoId \notin Nat

VARIABLES
    queue,           \* VecDeque<PendingGraphRequest>: <<[id, ends_batch], ...>>
    queued_batches,  \* GraphQueueState.queued_batches
    waiters,         \* keys of the waiter map
    result,          \* GraphWaiter.result, by id
    next_id,         \* AtomicU64
    closed,          \* AtomicBool
    closing,         \* where the closing thread is: "no" or "notify"
    closes,          \* close() calls begun
    pc,              \* where each worker is in submit_graphs_and_wait
    batch,           \* ids of the worker's submission, in submission order
    at,              \* the waiter it is collecting
    mode,            \* what each producer is doing with its pop
    expired,         \* the producer's pop deadline has passed
    ids,             \* ids of its pop
    todo,            \* ids the current delivery pass has not reached
    held             \* waiter removed from the map, its result not yet set

workerVars == <<pc, batch, at>>
producerVars == <<mode, expired, ids, todo, held>>
queueVars == <<queue, queued_batches>>
closeVars == <<closed, closing, closes>>
vars == <<queue, queued_batches, waiters, result, next_id, closed, closing,
          closes, pc, batch, at, mode, expired, ids, todo, held>>

Id == 1..MaxId
Waiting == {"waiting", "parking", "asleep"}
QueuedIds == {queue[i].id : i \in 1..Len(queue)}
Current(w) == batch[w][at[w]]
Ids(w) == {batch[w][j] : j \in 1..Len(batch[w])}

FirstId == 1

Init ==
    /\ queue = <<>> /\ queued_batches = 0
    /\ waiters = {} /\ result = [i \in Id |-> "none"] /\ next_id = FirstId
    /\ closed = FALSE /\ closing = "no" /\ closes = 0
    /\ pc = [w \in Workers |-> "idle"]
    /\ batch = [w \in Workers |-> <<>>]
    /\ at = [w \in Workers |-> 1]
    /\ mode = [p \in Producers |-> "idle"]
    /\ expired = [p \in Producers |-> FALSE]
    /\ ids = [p \in Producers |-> {}]
    /\ todo = [p \in Producers |-> {}]
    /\ held = [p \in Producers |-> NoId]

-----------------------------------------------------------------------------
(* The worker: submit_graphs_and_wait (submit_graph_and_wait is n = 1).    *)

\* handshake_reject_reason over the whole batch.  A batch it refuses (closed
\* queue, other contract version, non-native builder tag) is refused whole,
\* before any id is allocated, and changes nothing.

Handshake == ~closed

\* The pre-pass admits the batch and allocates its ids.  Two workers' fetch_adds
\* may interleave; ids are only ever compared, so consecutive ones stand for any.
Submit(w, n) ==
    /\ pc[w] = "idle"
    /\ Handshake
    /\ next_id + n <= MaxId + 1
    /\ next_id' = next_id + n
    /\ batch' = [batch EXCEPT ![w] = [j \in 1..n |-> next_id + j - 1]]
    /\ pc' = [pc EXCEPT ![w] = "register"]
    /\ at' = [at EXCEPT ![w] = 1]
    /\ UNCHANGED <<queueVars, waiters, result, closeVars, producerVars>>

\* Every waiter enters the map before any request enters the queue.
Register_OnlyFirst(w) ==
    /\ pc[w] = "register"
    /\ waiters' = waiters \union {batch[w][1]}
    /\ pc' = [pc EXCEPT ![w] = "enqueue"]
    /\ UNCHANGED <<queueVars, result, next_id, closeVars, batch, at,
                   producerVars>>

Register(w) ==
    /\ pc[w] = "register"
    /\ waiters' = waiters \union Ids(w)
    /\ pc' = [pc EXCEPT ![w] = "enqueue"]
    /\ UNCHANGED <<queueVars, result, next_id, closeVars, batch, at,
                   producerVars>>

\* push_batch: only the last request of the batch ends it.
PushBatch(b) ==
    queue \o [j \in 1..Len(b) |-> [id |-> b[j], ends_batch |-> j = Len(b)]]

Enqueue(w) ==
    /\ pc[w] = "enqueue"
    /\ queue' = PushBatch(batch[w])
    /\ queued_batches' = queued_batches + 1
    /\ pc' = [pc EXCEPT ![w] = "waiting"]
    /\ UNCHANGED <<waiters, result, next_id, closeVars, batch, at,
                   producerVars>>

\* One outcome is in hand: collect the next waiter, or return.
Collect(w) ==
    IF at[w] = Len(batch[w])
    THEN /\ pc' = [pc EXCEPT ![w] = "idle"]
         /\ at' = at
    ELSE /\ pc' = [pc EXCEPT ![w] = "waiting"]
         /\ at' = [at EXCEPT ![w] = @ + 1]

\* wait_for, top of the loop: guard.take() found a result.
TakeResult(w) ==
    /\ pc[w] = "waiting"
    /\ result[Current(w)] # "none"
    /\ result' = [result EXCEPT ![Current(w)] = "none"]
    /\ Collect(w)
    /\ UNCHANGED <<queueVars, waiters, next_id, closeVars, batch, producerVars>>

\* wait_for: no result and the queue is closed.
LeaveClosed(w) ==
    /\ pc[w] = "waiting"
    /\ result[Current(w)] = "none" /\ closed
    /\ Collect(w)
    /\ UNCHANGED <<queueVars, waiters, result, next_id, closeVars, batch,
                   producerVars>>

\* wait_for: no result, queue open.  The waiter's lock is kept until Park.
Decide(w) ==
    /\ pc[w] = "waiting"
    /\ result[Current(w)] = "none" /\ ~closed
    /\ pc' = [pc EXCEPT ![w] = "parking"]
    /\ UNCHANGED <<queueVars, waiters, result, next_id, closeVars, batch, at,
                   producerVars>>

\* Condvar::wait releases the lock and sleeps.
Park(w) ==
    /\ pc[w] = "parking"
    /\ pc' = [pc EXCEPT ![w] = "asleep"]
    /\ UNCHANGED <<queueVars, waiters, result, next_id, closeVars, batch, at,
                   producerVars>>

\* A Condvar may wake without a notification.
SpuriousWake(w) ==
    /\ pc[w] = "asleep"
    /\ pc' = [pc EXCEPT ![w] = "waiting"]
    /\ UNCHANGED <<queueVars, waiters, result, next_id, closeVars, batch, at,
                   producerVars>>

-----------------------------------------------------------------------------
(* The producer: pop_graph_batch_blocking, then the delivery loops.        *)

Min2(a, b) == IF a < b THEN a ELSE b

SaturationThreshold(bs, supply) ==
    IF supply = 0 THEN bs \div 2 ELSE Min2(bs \div 2, supply)

AllSubmitted_OffByOne == Submitters > 0 /\ queued_batches > Submitters

AllSubmitted == Submitters > 0 /\ queued_batches >= Submitters

\* The pop need not wait for its deadline.
WakesEarly ==
    \/ closed
    \/ Len(queue) >= SaturationThreshold(BatchSize, MaxInFlight)
    \/ AllSubmitted

StartPop(p) ==
    /\ mode[p] = "idle"
    /\ mode' = [mode EXCEPT ![p] = "collecting"]
    /\ expired' = [expired EXCEPT ![p] = FALSE]
    /\ UNCHANGED <<queueVars, waiters, result, next_id, closeVars, workerVars,
                   ids, todo, held>>

\* The pop's max_wait_ms runs out.
Deadline(p) ==
    /\ mode[p] = "collecting" /\ ~expired[p]
    /\ expired' = [expired EXCEPT ![p] = TRUE]
    /\ UNCHANGED <<queueVars, waiters, result, next_id, closeVars, workerVars,
                   mode, ids, todo, held>>

EmptyPop(p) ==
    /\ mode[p] = "collecting"
    /\ WakesEarly \/ expired[p]
    /\ queue = <<>>
    /\ mode' = [mode EXCEPT ![p] = "idle"]
    /\ UNCHANGED <<queueVars, waiters, result, next_id, closeVars, workerVars,
                   expired, ids, todo, held>>

\* Batches whose last request is among the first k.
EndedBatches(k) == Cardinality({i \in 1..k : queue[i].ends_batch})

Pop(p) ==
    /\ mode[p] = "collecting"
    /\ WakesEarly \/ expired[p]
    /\ queue # <<>>
    /\ LET take == Min2(BatchSize, Len(queue)) IN
       /\ ids' = [ids EXCEPT ![p] = {queue[i].id : i \in 1..take}]
       /\ todo' = [todo EXCEPT ![p] = {queue[i].id : i \in 1..take}]
       /\ queue' = SubSeq(queue, take + 1, Len(queue))
       /\ queued_batches' =
            IF EndedBatches(take) > queued_batches THEN 0
            ELSE queued_batches - EndedBatches(take)
    /\ mode' = [mode EXCEPT ![p] = "results"]
    /\ UNCHANGED <<waiters, result, next_id, closeVars, workerVars, expired,
                   held>>

RemoveWaiter_Get(p, id) ==
    /\ id \in todo[p] /\ held[p] = NoId
    /\ id \in waiters
    /\ held' = [held EXCEPT ![p] = id]
    /\ UNCHANGED <<queueVars, waiters, result, next_id, closeVars, workerVars,
                   mode, expired, ids, todo>>

\* submit_graph_results / fail_remaining, first half: the id leaves the map.
RemoveWaiter(p, id) ==
    /\ id \in todo[p] /\ held[p] = NoId
    /\ id \in waiters
    /\ waiters' = waiters \ {id}
    /\ held' = [held EXCEPT ![p] = id]
    /\ UNCHANGED <<queueVars, result, next_id, closeVars, workerVars, mode,
                   expired, ids, todo>>

\* An id without a waiter is tolerantly skipped.
SkipId(p, id) ==
    /\ id \in todo[p] /\ held[p] = NoId
    /\ id \notin waiters
    /\ todo' = [todo EXCEPT ![p] = @ \ {id}]
    /\ UNCHANGED <<queueVars, waiters, result, next_id, closeVars, workerVars,
                   mode, expired, ids, held>>

WakeSleepersOf(S) ==
    [w \in Workers |-> IF pc[w] = "asleep" /\ Current(w) \in S
                       THEN "waiting" ELSE pc[w]]

WakeHeld_Forgotten(id) == pc

\* waiter.cv.notify_all()
WakeHeld(id) == WakeSleepersOf({id})

Answer(p, id) ==
    IF mode[p] = "results" THEN "ok"
    ELSE IF result[id] = "none" THEN "err" ELSE result[id]

\* Second half: set the result under the waiter's lock and notify.  A parking
\* worker still holds that lock.
SetResult(p, id) ==
    /\ held[p] = id
    /\ \A w \in Workers : ~(pc[w] = "parking" /\ Current(w) = id)
    /\ result' = [result EXCEPT ![id] = Answer(p, id)]
    /\ pc' = WakeHeld(id)
    /\ todo' = [todo EXCEPT ![p] = @ \ {id}]
    /\ held' = [held EXCEPT ![p] = NoId]
    /\ UNCHANGED <<queueVars, waiters, next_id, closeVars, batch, at,
                   mode, expired, ids>>

FailPass_SkipsCurrent(p, id) == todo[p] \ {id}

\* The bridge's fail_remaining covers the ids not reached; the server's
\* _fail_pop then covers the whole pop again, answered ids included.
FailPass(p, id) == ids[p]

\* A forward, a contract check or an assembly raised: every id of the pop is
\* failed, from whatever point the delivery had reached.
Fail(p) ==
    /\ mode[p] = "results" /\ held[p] = NoId
    /\ mode' = [mode EXCEPT ![p] = "fail"]
    /\ \E id \in ids[p] : todo' = [todo EXCEPT ![p] = FailPass(p, id)]
    /\ UNCHANGED <<queueVars, waiters, result, next_id, closeVars, workerVars,
                   expired, ids, held>>

FinishPop(p) ==
    /\ mode[p] \in {"results", "fail"}
    /\ todo[p] = {} /\ held[p] = NoId
    /\ mode' = [mode EXCEPT ![p] = "idle"]
    /\ ids' = [ids EXCEPT ![p] = {}]
    /\ UNCHANGED <<queueVars, waiters, result, next_id, closeVars, workerVars,
                   expired, todo, held>>

-----------------------------------------------------------------------------
(* close(): the flag, then one notification per waiter still in the map.   *)

CloseStore ==
    /\ closing = "no" /\ closes < MaxCloses
    /\ closed' = TRUE
    /\ closing' = "notify"
    /\ closes' = closes + 1
    /\ UNCHANGED <<queueVars, waiters, result, next_id, workerVars,
                   producerVars>>

CloseNotify ==
    /\ closing = "notify"
    /\ closing' = "no"
    /\ pc' = WakeSleepersOf(waiters)
    /\ UNCHANGED <<queueVars, waiters, result, next_id, closed, closes, batch,
                   at, producerVars>>

-----------------------------------------------------------------------------
Collects(w) == TakeResult(w) \/ LeaveClosed(w) \/ Decide(w) \/ Park(w)

WorkerStep(w) ==
    \/ \E n \in 1..LeafBatch : Submit(w, n)
    \/ Register(w)
    \/ Enqueue(w)
    \/ Collects(w)
    \/ SpuriousWake(w)

Delivers(p) == \E id \in Id : \/ RemoveWaiter(p, id)
                              \/ SkipId(p, id)
                              \/ SetResult(p, id)

ProducerStep(p) ==
    \/ StartPop(p)
    \/ Deadline(p)
    \/ EmptyPop(p)
    \/ Pop(p)
    \/ Delivers(p)
    \/ Fail(p)
    \/ FinishPop(p)

Next ==
    \/ \E w \in Workers : WorkerStep(w)
    \/ \E p \in Producers : ProducerStep(p)
    \/ CloseStore
    \/ CloseNotify

Spec == Init /\ [][Next]_vars

\* Threads that are past their submission keep running; a worker is free not to
\* submit again, and a Condvar need not wake spuriously.
WorkerFairness ==
    \A w \in Workers : WF_vars(Register(w) \/ Enqueue(w) \/ Collects(w))

\* A popped batch is answered to the end: the retirer drains what was launched
\* before its thread ends.  A mutex that keeps being released is acquired.
DeliveryFairness ==
    \A p \in Producers : /\ WF_vars(Delivers(p) \/ FinishPop(p))
                         /\ SF_vars(\E id \in Id : SetResult(p, id))

\* The server loop keeps popping and its deadline passes.
PopFairness ==
    \A p \in Producers :
        WF_vars(StartPop(p) \/ Deadline(p) \/ EmptyPop(p) \/ Pop(p))

ServedSpec == Spec /\ WorkerFairness /\ DeliveryFairness /\ PopFairness

\* The server's pop loop is gone, what it popped is answered, close() returns.
OrphanedSpec == Spec /\ WorkerFairness /\ DeliveryFairness /\ WF_vars(CloseNotify)

-----------------------------------------------------------------------------
(* Properties.                                                             *)

\* Every variable keeps its shape; in particular ids stay below next_id.
TypeOK ==
    /\ queue \in Seq([id : Id, ends_batch : BOOLEAN])
    /\ queued_batches \in Nat
    /\ waiters \subseteq Id
    /\ result \in [Id -> {"none", "ok", "err"}]
    /\ next_id \in 1..(MaxId + 1)
    /\ closed \in BOOLEAN /\ closing \in {"no", "notify"}
    /\ closes \in 0..MaxCloses
    /\ pc \in [Workers -> {"idle", "register", "enqueue"} \union Waiting]
    /\ batch \in [Workers -> Seq(Id)]
    /\ at \in [Workers -> Nat \ {0}]
    /\ mode \in [Producers -> {"idle", "collecting", "results", "fail"}]
    /\ expired \in [Producers -> BOOLEAN]
    /\ ids \in [Producers -> SUBSET Id]
    /\ todo \in [Producers -> SUBSET Id]
    /\ held \in [Producers -> Id \union {NoId}]

\* Some producer still has to answer this id, or will find it in the queue.
Pending(id) ==
    \/ /\ id \in waiters
       /\ \/ id \in QueuedIds
          \/ \E p \in Producers : id \in todo[p]
    \/ \E p \in Producers : held[p] = id

\* No orphan (submit_graphs_and_wait's ordering, fail_remaining's doc): every
\* request a blocked worker has still to collect is pending or answered.
NoOrphan ==
    \A w \in Workers : pc[w] \in Waiting =>
        \A j \in at[w]..Len(batch[w]) :
            Pending(batch[w][j]) \/ result[batch[w][j]] # "none"

\* No lost answer (wait_for, submit_graph_results): a worker never sleeps on a
\* waiter whose result is already set.
NoSleepOnAnswer ==
    \A w \in Workers : pc[w] = "asleep" => result[Current(w)] = "none"

\* The submitter wake is sound and complete: with the queue open it fires exactly
\* when every submitter is blocked on a batch whose end is still queued.
BlockedInQueue(w) ==
    /\ pc[w] \in Waiting
    /\ batch[w][Len(batch[w])] \in QueuedIds

SubmitterWakeExact ==
    Submitters > 0 /\ ~closed =>
        (AllSubmitted <=> \A w \in Workers : BlockedInQueue(w))

\* A request is answered at most once (the id leaves the map before its result
\* is set): with the queue open, an answer only ever lands on a request that its
\* worker has still to collect, however many failure passes run over the pop.
AnsweredOnce ==
    [][\A i \in Id : (result[i] = "none" /\ result'[i] # "none" /\ ~closed)
            => \E w \in Workers : /\ pc[w] \in Waiting
                                  /\ \E j \in at[w]..Len(batch[w]) : batch[w][j] = i]_vars

\* Under a live server every blocked worker returns.
BlockedReturns ==
    \A w \in Workers : pc[w] \in Waiting ~> pc[w] = "idle"

\* close() wakes all blocked waiters, with no server left to answer them.  The
\* code does not keep this under OrphanedSpec, and no run checks it (README,
\* Observations): graph.rs:467 notifies without the waiter's lock.
CloseWakesAll ==
    \A w \in Workers : (closed /\ pc[w] \in Waiting) ~> pc[w] = "idle"
=============================================================================
