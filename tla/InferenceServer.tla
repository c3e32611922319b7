--------------------------- MODULE InferenceServer ---------------------------
(***************************************************************************)
(* The inference server's pipeline: the loop thread pops and launches, the *)
(* retirer dispatches launched pops in order, the checker runs the edge-   *)
(* geometry check of each served part afterwards, and stop() may run on    *)
(* another thread at any time.                                             *)
(*   source: src/mantis/selfplay/inference_server.py                       *)
(*                                                                         *)
(* A pop is a number; which graphs it carries and how each of its ids is   *)
(* answered is GraphQueue's business.  Tensors, timing and counters are    *)
(* left out.  A collate, a forward, a finiteness gate or a check may fail. *)
(***************************************************************************)
EXTENDS Integers, Sequences, FiniteSets

CONSTANTS
    MaxPops,        \* bound: non-empty pops in one behaviour
    PartsPerPop,    \* parts (hence captured checks) of one pop
    PipelineDepth,  \* _PIPELINE_DEPTH
    CheckDepth,     \* _EDGE_GEOMETRY_QUEUE_DEPTH
    End,            \* the None that ends a thread
    Idle            \* the checker waits on its queue

ASSUME ServerAssumption ==
    /\ MaxPops \in Nat /\ PartsPerPop \in Nat \ {0}
    /\ PipelineDepth \in Nat \ {0} /\ CheckDepth \in Nat \ {0}

\* The sentinels are no pop and no check.
ASSUME SentinelAssumption ==
    /\ End # Idle
    /\ \A k \in 1..MaxPops : k # End
    /\ \A k \in 1..MaxPops, i \in 1..PartsPerPop : <<k, i>> \notin {End, Idle}

VARIABLES
    stop_event, closed,
    loop,      \* the loop thread: where it is in _run_graph_loop
    popped,    \* non-empty pops so far; the last one is the loop's own
    answer,    \* what each pop's waiters were given
    slots,     \* _PopRetirer.slots
    retireQ,   \* _PopRetirer._queue
    retirer,   \* the retire thread: where it is in _retire
    rpop,      \* the pop it dispatches
    rchecks,   \* captured checks it has still to hand over
    checkQ,    \* _EdgeGeometryChecker._queue
    checker,   \* the check it runs, End once its thread ended, or Idle
    ran,       \* checks that were run
    failure,   \* _deferred_contract_failure is set
    stopper,   \* the thread in stop()
    late       \* pops served after the failure was latched

loopVars == <<stop_event, closed, loop, popped>>
retireVars == <<slots, retireQ, retirer, rpop, rchecks>>
checkVars == <<checkQ, checker, ran, failure>>
vars == <<stop_event, closed, loop, popped, answer, slots, retireQ, retirer,
          rpop, rchecks, checkQ, checker, ran, failure, stopper, late>>

Pops == 1..MaxPops
Check == Pops \X (1..PartsPerPop)

Init ==
    /\ stop_event = FALSE /\ closed = FALSE
    /\ loop = "top" /\ popped = 0
    /\ answer = [k \in Pops |-> "none"]
    /\ slots = PipelineDepth /\ retireQ = <<>>
    /\ retirer = "idle" /\ rpop = 0 /\ rchecks = <<>>
    /\ checkQ = <<>> /\ checker = Idle /\ ran = {} /\ failure = FALSE
    /\ stopper = "no" /\ late = {}

-----------------------------------------------------------------------------
(* The loop thread.                                                        *)

\* next_graph_batch returned requests; an empty poll changes nothing.
NextBatch ==
    /\ loop = "top" /\ ~stop_event
    /\ popped < MaxPops
    /\ popped' = popped + 1
    /\ loop' = "slot"
    /\ UNCHANGED <<stop_event, closed, answer, retireVars, checkVars, stopper,
                   late>>

AcquireSlot ==
    /\ loop = "slot" /\ slots > 0
    /\ slots' = slots - 1
    /\ loop' = "launch"
    /\ UNCHANGED <<stop_event, closed, popped, answer, retireQ, retirer, rpop,
                   rchecks, checkVars, stopper, late>>

\* _fail_pop: a waiter already answered keeps its answer.
FailPop(k) == answer' = [answer EXCEPT ![k] = IF @ = "none" THEN "err" ELSE @]

\* The latched failure is raised before the launch: the slot goes back and the
\* pop's waiters take the error.

RefuseLaunch ==
    /\ loop = "launch" /\ failure
    /\ slots' = slots + 1
    /\ FailPop(popped)
    /\ loop' = "top"
    /\ UNCHANGED <<stop_event, closed, popped, retireQ, retirer, rpop, rchecks,
                   checkVars, stopper, late>>

\* The latch was clear: _launch_pop begins, and may still raise.
PassLatch ==
    /\ loop = "launch" /\ ~failure
    /\ loop' = "launching"
    /\ UNCHANGED <<stop_event, closed, popped, answer, retireVars, checkVars,
                   stopper, late>>

Launch ==
    /\ loop = "launching"
    /\ \/ /\ retireQ' = Append(retireQ, popped)
          /\ UNCHANGED <<slots, answer>>
       \/ /\ slots' = slots + 1
          /\ FailPop(popped)
          /\ UNCHANGED retireQ
    /\ loop' = "top"
    /\ UNCHANGED <<stop_event, closed, popped, retirer, rpop, rchecks,
                   checkVars, stopper, late>>

\* The finally block: end the retirer, join it, close the batcher.
LeaveLoop_NoDrain ==
    /\ loop = "top" /\ stop_event
    /\ loop' = "join"
    /\ UNCHANGED <<stop_event, closed, popped, answer, retireVars, checkVars,
                   stopper, late>>

LeaveLoop ==
    /\ loop = "top" /\ stop_event
    /\ retireQ' = Append(retireQ, End)
    /\ loop' = "join"
    /\ UNCHANGED <<stop_event, closed, popped, answer, slots, retirer, rpop,
                   rchecks, checkVars, stopper, late>>

CloseBatcher ==
    /\ loop = "join" /\ retirer = "dead"
    /\ closed' = TRUE
    /\ loop' = "done"
    /\ UNCHANGED <<stop_event, popped, answer, retireVars, checkVars, stopper,
                   late>>

-----------------------------------------------------------------------------
(* The retire thread.                                                      *)

Retire ==
    /\ retirer = "idle" /\ retireQ # <<>>
    /\ retireQ' = Tail(retireQ)
    /\ IF Head(retireQ) = End
       THEN retirer' = "dead" /\ rpop' = rpop
       ELSE retirer' = "synced" /\ rpop' = Head(retireQ)
    /\ UNCHANGED <<loopVars, answer, slots, rchecks, checkVars, stopper, late>>

\* After the device event: the latch is read again.
RetireGate_NoLatch ==
    /\ retirer = "synced"
    /\ retirer' = "submit"
    /\ UNCHANGED <<loopVars, answer, slots, retireQ, rpop, rchecks, checkVars,
                   stopper, late>>

RetireGate ==
    /\ retirer = "synced" /\ ~failure
    /\ retirer' = "submit"
    /\ UNCHANGED <<loopVars, answer, slots, retireQ, rpop, rchecks, checkVars,
                   stopper, late>>

\* The latch was set, the output was not finite, or the submit raised.
RetireFails ==
    /\ \/ retirer = "synced" /\ failure
       \/ retirer = "submit"
    /\ FailPop(rpop)
    /\ retirer' = "idle"
    /\ slots' = slots + 1
    /\ UNCHANGED <<loopVars, retireQ, rpop, rchecks, checkVars, stopper, late>>

\* One submit per pop; its captured checks follow.
SubmitResults ==
    /\ retirer = "submit"
    /\ answer' = [answer EXCEPT ![rpop] = "ok"]
    /\ late' = IF failure THEN late \union {rpop} ELSE late
    /\ rchecks' = [i \in 1..PartsPerPop |-> <<rpop, i>>]
    /\ retirer' = "checks"
    /\ UNCHANGED <<loopVars, slots, retireQ, rpop, checkVars, stopper>>

\* _run_one: a bad part latches the failure; the first one wins.
RunCheck(c) ==
    /\ ran' = ran \union {c}
    /\ failure' \in {failure, TRUE}

HandOverCheck_DropsOnFull ==
    /\ retirer = "checks" /\ rchecks # <<>>
    /\ rchecks' = Tail(rchecks)
    /\ checkQ' = IF Len(checkQ) < CheckDepth THEN Append(checkQ, Head(rchecks))
                 ELSE checkQ
    /\ UNCHANGED <<loopVars, answer, slots, retireQ, retirer, rpop, checker,
                   ran, failure, stopper, late>>

\* put_nowait, or the check inline when the queue is full.
HandOverCheck ==
    /\ retirer = "checks" /\ rchecks # <<>>
    /\ rchecks' = Tail(rchecks)
    /\ IF Len(checkQ) < CheckDepth
       THEN /\ checkQ' = Append(checkQ, Head(rchecks))
            /\ UNCHANGED <<ran, failure>>
       ELSE /\ RunCheck(Head(rchecks))
            /\ UNCHANGED checkQ
    /\ UNCHANGED <<loopVars, answer, slots, retireQ, retirer, rpop, checker,
                   stopper, late>>

ReleaseSlot ==
    /\ retirer = "checks" /\ rchecks = <<>>
    /\ retirer' = "idle"
    /\ slots' = slots + 1
    /\ UNCHANGED <<loopVars, answer, retireQ, rpop, rchecks, checkVars,
                   stopper, late>>

-----------------------------------------------------------------------------
(* The checker thread.                                                     *)

TakeCheck ==
    /\ checker = Idle /\ checkQ # <<>>
    /\ checker' = Head(checkQ)
    /\ checkQ' = Tail(checkQ)
    /\ UNCHANGED <<loopVars, answer, retireVars, ran, failure, stopper, late>>

FinishCheck ==
    /\ checker \notin {Idle, End}
    /\ RunCheck(checker)
    /\ checker' = Idle
    /\ UNCHANGED <<loopVars, answer, retireVars, checkQ, stopper, late>>

-----------------------------------------------------------------------------
(* stop(), on the pool's thread.                                           *)

StopSet ==
    /\ stopper = "no"
    /\ stop_event' = TRUE
    /\ stopper' = "close"
    /\ UNCHANGED <<closed, loop, popped, answer, retireVars, checkVars, late>>

StopClose ==
    /\ stopper = "close"
    /\ closed' = TRUE
    /\ stopper' = "retirer"
    /\ UNCHANGED <<stop_event, loop, popped, answer, retireVars, checkVars, late>>

\* Only a loop that already returned has its retirer drained from here, where
\* its thread has ended too and nothing reads the queue any more.
StopRetirer ==
    /\ stopper = "retirer"
    /\ retireQ' = IF loop = "done" THEN Append(retireQ, End) ELSE retireQ
    /\ stopper' = "drain"
    /\ UNCHANGED <<loopVars, answer, slots, retirer, rpop, rchecks, checkVars,
                   late>>

StopDrainOne ==
    /\ stopper = "drain" /\ checkQ # <<>>
    /\ checkQ' = Tail(checkQ)
    /\ IF Head(checkQ) = End THEN UNCHANGED <<ran, failure>>
       ELSE RunCheck(Head(checkQ))
    /\ UNCHANGED <<loopVars, answer, retireVars, checker, stopper, late>>

StopDrained ==
    /\ stopper = "drain" /\ checkQ = <<>>
    /\ stopper' = "put"
    /\ UNCHANGED <<loopVars, answer, retireVars, checkVars, late>>

StopPut ==
    /\ stopper = "put" /\ Len(checkQ) < CheckDepth
    /\ checkQ' = Append(checkQ, End)
    /\ stopper' = "done"
    /\ UNCHANGED <<loopVars, answer, retireVars, checker, ran, failure, late>>

-----------------------------------------------------------------------------
LoopStep == NextBatch \/ AcquireSlot \/ RefuseLaunch \/ PassLatch \/ Launch
            \/ LeaveLoop \/ CloseBatcher
RetirerStep == Retire \/ RetireGate \/ RetireFails \/ SubmitResults
               \/ HandOverCheck \/ ReleaseSlot
CheckerStep == TakeCheck \/ FinishCheck
StopStep == StopSet \/ StopClose \/ StopRetirer \/ StopDrainOne \/ StopDrained
            \/ StopPut

Next == LoopStep \/ RetirerStep \/ CheckerStep \/ StopStep

Spec == Init /\ [][Next]_vars

\* Every thread that can run eventually does; nobody has to call stop(), and
\* the queue need not offer another batch.
Fairness ==
    /\ WF_vars(AcquireSlot \/ RefuseLaunch \/ PassLatch \/ Launch \/ LeaveLoop
               \/ CloseBatcher)
    /\ WF_vars(RetirerStep)
    /\ WF_vars(CheckerStep)
    /\ WF_vars(StopClose \/ StopRetirer \/ StopDrainOne \/ StopDrained \/ StopPut)

FairSpec == Spec /\ Fairness

-----------------------------------------------------------------------------
(* Properties.                                                             *)

TypeOK ==
    /\ stop_event \in BOOLEAN /\ closed \in BOOLEAN
    /\ loop \in {"top", "slot", "launch", "launching", "join", "done"}
    /\ popped \in 0..MaxPops
    /\ answer \in [Pops -> {"none", "ok", "err"}]
    /\ slots \in 0..PipelineDepth
    /\ retireQ \in Seq(Pops \union {End})
    /\ retirer \in {"idle", "synced", "submit", "checks", "dead"}
    /\ rpop \in 0..MaxPops
    /\ rchecks \in Seq(Check)
    /\ checkQ \in Seq(Check \union {End}) /\ Len(checkQ) <= CheckDepth
    /\ checker \in Check \union {Idle, End}
    /\ ran \subseteq Check /\ failure \in BOOLEAN
    /\ stopper \in {"no", "close", "retirer", "drain", "put", "done"}
    /\ late \subseteq Pops

InRetireQ == {i \in 1..Len(retireQ) : retireQ[i] # End}
Launching == IF loop \in {"launch", "launching"} THEN 1 ELSE 0
Retiring == IF retirer \in {"synced", "submit", "checks"} THEN 1 ELSE 0

\* The semaphore is exactly the pops between acquire and release, so at most
\* PipelineDepth un-dispatched pops hold their inputs on the device.
SlotsAccounted ==
    slots + Cardinality(InRetireQ) + Launching + Retiring = PipelineDepth

\* "Everything launched is dispatched before the queues close under the
\* waiters": once the loop's own close ran, every pop was answered.
AnsweredBeforeLoopCloses ==
    loop = "done" => \A k \in 1..popped : answer[k] # "none"

\* "At most the pops already launched when the finding landed are served":
\* only the one pop already past the retire gate can still be, never two.
AtMostOneServedAfterFinding == Cardinality(late) <= 1

\* A check of a served pop is never lost before stop(): it ran, runs, waits in
\* the queue, or is still in the retirer's hands.
CheckAccounted ==
    stopper = "no" =>
    \A k \in Pops : answer[k] = "ok" => \A i \in 1..PartsPerPop :
        \/ <<k, i>> \in ran
        \/ checker = <<k, i>>
        \/ \E j \in 1..Len(checkQ) : checkQ[j] = <<k, i>>
        \/ \E j \in 1..Len(rchecks) : rchecks[j] = <<k, i>>

\* Every pop the loop took is answered, through refusals, failures and stop().
EveryPopAnswered == \A k \in Pops : popped >= k ~> answer[k] # "none"

\* stop() ends the loop, and ends itself.
StopEndsServer == stop_event ~> (loop = "done" /\ stopper = "done")

\* The loop, its retirer and its checker never wait on each other for good.
ServerSettles == EveryPopAnswered /\ StopEndsServer

=============================================================================
