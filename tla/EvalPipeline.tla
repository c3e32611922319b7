---------------------------- MODULE EvalPipeline ----------------------------
(***************************************************************************)
(* Evaluation rounds, from the kick to the deploy anchor.                  *)
(*                                                                         *)
(* The trainer thread kicks a round: a child process that plays the        *)
(* candidate, persists its gate verdict the moment it exists, and writes   *)
(* its result when the round is over.  A poller thread finalises the round *)
(* when the child is gone or its time is up.  A stop and a close-out       *)
(* finalise it too, from the trainer thread, so both may reach the same    *)
(* round.  A finalised round goes through the mailbox to the trainer       *)
(* thread, which applies a passed gate to best_model.pt in three renames.  *)
(* The process may die at any step; the child dies with it                 *)
(* (PR_SET_PDEATHSIG), the files stay, and the next launch takes its round *)
(* counter from the last bundle and so may give a round an id whose files  *)
(* are already there.                                                      *)
(*                                                                         *)
(* A candidate is numbered by its spawn, which no relaunch repeats: round  *)
(* ids name files, candidates name weights.                                *)
(***************************************************************************)
EXTENDS Integers, Sequences

CONSTANTS
    MaxSpawns,    \* bound on eval children ever spawned
    MaxLaunches,  \* bound on launches
    MaxFailures   \* bound on promotions whose save raises

ASSUME PipelineAssumption ==
    MaxSpawns \in Nat \ {0} /\ MaxLaunches \in Nat \ {0} /\ MaxFailures \in Nat

Rounds == 1 .. MaxSpawns
NoRound == 0
Threads == {"main", "poller"}

\* No anchor file; candidate 0 is the fresh initialisation.
Absent == -1

VARIABLES
    counter,   \* _round_counter
    saved,     \* the round counter of the last resume bundle
    spawns,    \* history: children spawned so far
    child,     \* round -> its worker process: candidate and what it is doing
    partial,   \* round -> the verdict in its partial gate sidecar
    result,    \* round -> the verdict in its result file
    inflight,  \* _inflight: a round id, or NoRound
    latched,   \* rounds whose inflight record has _finalized set
    done,      \* rounds whose _done event is set
    mailbox,   \* _mailbox
    pc,        \* where each thread is
    tr,        \* the round each thread works on
    esc,       \* was that round cut short (its escalated_reason)
    res,       \* the result each thread has built
    leg,       \* what the trainer thread finalises for
    todo,      \* results the trainer thread has taken and not yet routed
    resumable, \* resumable_stop
    best,      \* best_model.pt: the candidate whose weights it holds
    bak,       \* best_model.pt.bak
    tmp,       \* best_model.pt.tmp
    live,      \* AnchorState.best_model, in memory
    applied,   \* history: candidates whose rename into best_model.pt is done
    routed,    \* history: candidates whose result was routed, in order
    passed,    \* history: candidates whose child persisted a passing verdict
    owed,      \* history: those of them that passed under this process
    late,      \* history: a finaliser gave up waiting for the other
    failures,  \* promotions whose save raised
    failed,    \* history: one of them in this process
    launches   \* launches so far

roundVars == <<counter, saved, spawns, child, partial, result>>
sharedVars == <<inflight, latched, done, mailbox>>
threadVars == <<pc, tr, esc, res, leg, todo, resumable>>
anchorVars == <<best, bak, tmp, live>>
historyVars == <<applied, routed, passed, owed, late, failures, failed, launches>>
vars == <<roundVars, sharedVars, threadVars, anchorVars, historyVars>>

\* A worker runs, or has ended: cleanly, with a nonzero code, by a signal.
Alive(r) == child[r].state \in {"playing", "judged", "written"}
NoChild == [cand |-> 0, state |-> "none"]
NoResult == [cand |-> 0, promoted |-> FALSE]

At(t, label) == pc[t] = label
Goto(t, label) == pc' = [pc EXCEPT ![t] = label]

Init ==
    /\ counter = 0 /\ saved = 0 /\ spawns = 0
    /\ child = [r \in Rounds |-> NoChild]
    /\ partial = [r \in Rounds |-> "none"] /\ result = [r \in Rounds |-> "none"]
    /\ inflight = NoRound /\ latched = {} /\ done = {} /\ mailbox = <<>>
    /\ pc = [main |-> "down", poller |-> "down"]
    /\ tr = [t \in Threads |-> NoRound] /\ esc = [t \in Threads |-> FALSE]
    /\ res = [t \in Threads |-> NoResult]
    /\ leg = "run" /\ todo = <<>> /\ resumable = FALSE
    /\ best = Absent /\ bak = Absent /\ tmp = Absent /\ live = Absent
    /\ applied = <<>> /\ routed = <<>> /\ passed = {} /\ owed = {} /\ late = FALSE
    /\ failures = 0 /\ failed = FALSE /\ launches = 0

-----------------------------------------------------------------------------
(* The worker process *)

\* The gate block ends: its verdict is persisted at once.
Judge(r) ==
    /\ child[r].state = "playing"
    /\ \E v \in {"pass", "refuse"} :
         /\ partial' = [partial EXCEPT ![r] = v]
         /\ passed' = IF v = "pass" THEN passed \cup {child[r].cand} ELSE passed
         /\ owed' = IF v = "pass" THEN owed \cup {child[r].cand} ELSE owed
    /\ child' = [child EXCEPT ![r].state = "judged"]
    /\ UNCHANGED <<counter, saved, spawns, result, sharedVars, threadVars,
                   anchorVars, applied, routed, late, failures, failed, launches>>

\* The round is over (without a verdict if it had no gate to play, or the
\* strength floor refused it): the result file replaces its temporary one.
WriteResult(r) ==
    /\ child[r].state \in {"playing", "judged"}
    /\ result' = [result EXCEPT ![r] = partial[r]]
    /\ child' = [child EXCEPT ![r].state = "written"]
    /\ UNCHANGED <<counter, saved, spawns, partial, sharedVars, threadVars,
                   anchorVars, historyVars>>

\* It exits: cleanly once its result is written, otherwise by an exception.
ChildExit(r) ==
    /\ Alive(r)
    /\ child' = [child EXCEPT
         ![r].state = IF @ = "written" THEN "clean" ELSE "nonzero"]
    /\ UNCHANGED <<counter, saved, spawns, partial, result, sharedVars,
                   threadVars, anchorVars, historyVars>>

-----------------------------------------------------------------------------
(* Kicking a round *)

\* _spawn_worker removes what an earlier process left at this round's path.
ClearPartial(r) == partial' = [partial EXCEPT ![r] = "none"]

\* The next round's id, its files, its snapshot and its process.
Spawn(r) ==
    /\ r = counter + 1 /\ r \in Rounds /\ spawns < MaxSpawns
    /\ counter' = r /\ spawns' = spawns + 1
    /\ ClearPartial(r)
    /\ child' = [child EXCEPT ![r] = [cand |-> spawns + 1, state |-> "playing"]]
    /\ UNCHANGED <<saved, result>>

\* run_evaluation; a round in flight makes it a busy skip.
Kick ==
    /\ At("main", "train") /\ inflight = NoRound
    /\ \E r \in Rounds : Spawn(r) /\ inflight' = r
    /\ UNCHANGED <<latched, done, mailbox, threadVars, anchorVars, historyVars>>

\* A periodic bundle records the round counter.
SaveBundle ==
    /\ At("main", "train") /\ saved' = counter
    /\ UNCHANGED <<counter, spawns, child, partial, result, sharedVars,
                   threadVars, anchorVars, historyVars>>

-----------------------------------------------------------------------------
(* Ending a round: the steps either thread may take *)

\* terminate, the grace, kill.
Kill(t) ==
    /\ At(t, "kill")
    /\ child' = [child EXCEPT ![tr[t]].state = IF Alive(tr[t]) THEN "signal" ELSE @]
    /\ esc' = [esc EXCEPT ![t] = TRUE]
    /\ Goto(t, "latch")
    /\ UNCHANGED <<counter, saved, spawns, partial, result, sharedVars, tr,
                   res, leg, todo, resumable, anchorVars, historyVars>>

\* Mutant: every finaliser believes it is the first.
Latch_Always(t) ==
    /\ At(t, "latch")
    /\ latched' = latched \cup {tr[t]} /\ Goto(t, "read")
    /\ UNCHANGED <<roundVars, inflight, done, mailbox, tr, esc, res, leg, todo,
                   resumable, anchorVars, historyVars>>

\* _finalize_round is entered: the first caller latches the round, a second
\* one waits for the first.
Latch(t) ==
    /\ At(t, "latch")
    /\ IF tr[t] \in latched
         THEN Goto(t, "wait") /\ UNCHANGED latched
         ELSE Goto(t, "read") /\ latched' = latched \cup {tr[t]}
    /\ UNCHANGED <<roundVars, inflight, done, mailbox, tr, esc, res, leg, todo,
                   resumable, anchorVars, historyVars>>

\* Mutant: a broken round never promotes.
VerdictOf_CleanOnly(t) ==
    IF ~esc[t] /\ child[tr[t]].state = "clean" THEN result[tr[t]] ELSE "none"

\* Mutant: whatever result file is at the round's path is believed.
VerdictOf_AnyResult(t) ==
    IF result[tr[t]] # "none" THEN result[tr[t]] ELSE partial[tr[t]]

\* A clean round's verdict is its result's; a broken one keeps the verdict its
\* child persisted before the break.
VerdictOf(t) ==
    IF ~esc[t] /\ child[tr[t]].state = "clean" THEN result[tr[t]] ELSE partial[tr[t]]

\* The body builds the round's result from the files.
Read(t) ==
    /\ At(t, "read")
    /\ res' = [res EXCEPT ![t] =
         [cand |-> child[tr[t]].cand, promoted |-> VerdictOf(t) = "pass"]]
    /\ Goto(t, "publish")
    /\ UNCHANGED <<roundVars, sharedVars, tr, esc, leg, todo, resumable,
                   anchorVars, historyVars>>

\* Where a thread goes once the round is final.
AfterRound(t) ==
    Goto(t, IF t = "poller" THEN "idle" ELSE IF leg = "terminal" THEN "own" ELSE "take")

\* The partial file is gone, the round no longer in flight, its result in the
\* mailbox; the waiter is released.
Publish(t) ==
    /\ At(t, "publish")
    /\ partial' = [partial EXCEPT ![tr[t]] = "none"]
    /\ inflight' = NoRound /\ mailbox' = Append(mailbox, res[t])
    /\ done' = done \cup {tr[t]}
    /\ AfterRound(t)
    /\ UNCHANGED <<counter, saved, spawns, child, result, latched, tr, esc, res,
                   leg, todo, resumable, anchorVars, historyVars>>

\* The second finaliser waits the first one out, for a bounded time.
Wait(t) ==
    /\ At(t, "wait")
    /\ \/ tr[t] \in done /\ UNCHANGED late
       \/ tr[t] \notin done /\ late' = (late \/ t = "main")
    /\ AfterRound(t)
    /\ UNCHANGED <<roundVars, sharedVars, tr, esc, res, leg, todo, resumable,
                   anchorVars, applied, routed, passed, owed, failures, failed, launches>>

Finalise(t) == Kill(t) \/ Latch(t) \/ Read(t) \/ Publish(t) \/ Wait(t)

-----------------------------------------------------------------------------
(* The poller thread *)

\* Mutant: a round has no time limit.
Poll_NoTimeout ==
    /\ At("poller", "idle") /\ inflight # NoRound /\ ~Alive(inflight)
    /\ tr' = [tr EXCEPT !["poller"] = inflight]
    /\ esc' = [esc EXCEPT !["poller"] = FALSE]
    /\ Goto("poller", "latch")
    /\ UNCHANGED <<roundVars, sharedVars, res, leg, todo, resumable, anchorVars,
                   historyVars>>

\* One tick: the child is gone, or round_timeout_sec has passed.
Poll ==
    /\ At("poller", "idle") /\ inflight # NoRound
    /\ tr' = [tr EXCEPT !["poller"] = inflight]
    /\ esc' = [esc EXCEPT !["poller"] = FALSE]
    /\ Goto("poller", IF Alive(inflight) THEN "kill" ELSE "latch")
    /\ UNCHANGED <<roundVars, sharedVars, res, leg, todo, resumable, anchorVars,
                   historyVars>>

\* The poller leaves its loop once stop() has set the event.
PollerEnds ==
    /\ At("poller", "idle") /\ At("main", "join")
    /\ Goto("poller", "ended")
    /\ UNCHANGED <<roundVars, sharedVars, tr, esc, res, leg, todo, resumable,
                   anchorVars, historyVars>>

-----------------------------------------------------------------------------
(* The trainer thread: taking results *)

\* poll_completed, once per step: the oldest unpolled result, if any.
PollCompleted ==
    /\ At("main", "train") /\ mailbox # <<>>
    /\ todo' = <<Head(mailbox)>> /\ mailbox' = Tail(mailbox)
    /\ leg' = "run" /\ Goto("main", "route")
    /\ UNCHANGED <<roundVars, inflight, latched, done, tr, esc, res, resumable,
                   anchorVars, historyVars>>

\* A resumable stop settles the round in flight before its bundle is saved.
SettleForStop ==
    /\ At("main", "train")
    /\ leg' = "settle" /\ resumable' = TRUE /\ Goto("main", "capture")
    /\ UNCHANGED <<roundVars, sharedVars, tr, esc, res, todo, anchorVars, historyVars>>

\* A clean completion, an abort or an exception goes straight to close_out.
EndRun ==
    /\ At("main", "train")
    /\ leg' = "close" /\ resumable' = FALSE /\ Goto("main", "capture")
    /\ UNCHANGED <<roundVars, sharedVars, tr, esc, res, todo, anchorVars, historyVars>>

\* The stop's own bundle; the disk guard may still turn the stop into an abort.
SaveStop ==
    /\ At("main", "save")
    /\ saved' = counter
    /\ leg' = "close" /\ resumable' \in BOOLEAN /\ Goto("main", "capture")
    /\ UNCHANGED <<counter, spawns, child, partial, result, sharedVars, tr, esc,
                   res, todo, anchorVars, historyVars>>

\* abandon_pending terminates a live round, drain_pending first waits for it.
Capture ==
    /\ At("main", "capture")
    /\ IF inflight = NoRound
         THEN Goto("main", "take") /\ UNCHANGED <<tr, esc>>
         ELSE /\ tr' = [tr EXCEPT !["main"] = inflight]
              /\ esc' = [esc EXCEPT !["main"] = FALSE]
              /\ Goto("main", IF ~Alive(inflight) THEN "latch"
                              ELSE IF resumable THEN "kill" ELSE "await")
    /\ UNCHANGED <<roundVars, sharedVars, res, leg, todo, resumable, anchorVars,
                   historyVars>>

\* The bounded join of drain_or_kill: the child is gone, or the budget is.
Await ==
    /\ At("main", "await")
    /\ Goto("main", IF Alive(tr["main"]) THEN "kill" ELSE "latch")
    /\ UNCHANGED <<roundVars, sharedVars, tr, esc, res, leg, todo, resumable,
                   anchorVars, historyVars>>

\* _take_mailbox: every unpolled result at once.
TakeMailbox ==
    /\ At("main", "take")
    /\ todo' = mailbox /\ mailbox' = <<>>
    /\ Goto("main", "route")
    /\ UNCHANGED <<roundVars, inflight, latched, done, tr, esc, res, leg,
                   resumable, anchorVars, historyVars>>

\* What follows a leg that has routed all it took: a resumable stop skips the
\* terminal round, every other close-out runs it.
NextLabel ==
    CASE leg = "run" -> "train"
      [] leg = "settle" -> "save"
      [] leg = "close" /\ ~resumable -> "terminal"
      [] OTHER -> "stop"

\* _route_eval_result, one result at a time: a promoted one is applied.
Route ==
    /\ At("main", "route")
    /\ IF todo = <<>>
         THEN Goto("main", NextLabel) /\ UNCHANGED <<todo, routed>>
         ELSE /\ routed' = Append(routed, Head(todo).cand)
              /\ IF Head(todo).promoted
                   THEN Goto("main", "write") /\ UNCHANGED todo
                   ELSE todo' = Tail(todo) /\ UNCHANGED pc
    /\ UNCHANGED <<roundVars, sharedVars, tr, esc, res, leg, resumable, anchorVars,
                   applied, passed, owed, late, failures, failed, launches>>

-----------------------------------------------------------------------------
(* The trainer thread: the terminal round *)

\* The round is local to the call: inflight is never set to it.
KickTerminal ==
    /\ At("main", "terminal")
    /\ \E r \in Rounds : Spawn(r) /\ tr' = [tr EXCEPT !["main"] = r]
    /\ esc' = [esc EXCEPT !["main"] = FALSE]
    /\ leg' = "terminal" /\ Goto("main", "await")
    /\ UNCHANGED <<sharedVars, res, todo, resumable, anchorVars, historyVars>>

\* terminal_eval_enabled is off.
SkipTerminal ==
    /\ At("main", "terminal") /\ Goto("main", "stop")
    /\ UNCHANGED <<roundVars, sharedVars, tr, esc, res, leg, todo, resumable,
                   anchorVars, historyVars>>

\* Its result is the call's return value; the copy in the mailbox stays there.
TakeOwn ==
    /\ At("main", "own")
    /\ todo' = <<res["main"]>> /\ Goto("main", "route")
    /\ UNCHANGED <<roundVars, sharedVars, tr, esc, res, leg, resumable, anchorVars,
                   historyVars>>

-----------------------------------------------------------------------------
(* The trainer thread: applying a promotion *)

\* The candidate's snapshot is loaded into the anchor's module and written to
\* the temporary file.
WriteAnchor ==
    /\ At("main", "write")
    /\ live' = Head(todo).cand /\ tmp' = Head(todo).cand
    /\ Goto("main", IF best # Absent THEN "rotate" ELSE "rename")
    /\ UNCHANGED <<roundVars, sharedVars, tr, esc, res, leg, todo, resumable, best,
                   bak, historyVars>>

Rotate ==
    /\ At("main", "rotate")
    /\ bak' = best /\ best' = Absent
    /\ Goto("main", "rename")
    /\ UNCHANGED <<roundVars, sharedVars, tr, esc, res, leg, todo, resumable, tmp,
                   live, historyVars>>

RenameAnchor ==
    /\ At("main", "rename")
    /\ best' = tmp /\ tmp' = Absent
    /\ applied' = Append(applied, Head(todo).cand)
    /\ todo' = Tail(todo) /\ Goto("main", "route")
    /\ UNCHANGED <<roundVars, sharedVars, tr, esc, res, leg, resumable, bak, live,
                   routed, passed, owed, late, failures, failed, launches>>

\* The save raises (a full disk) once the module holds the new weights.  A
\* running loop and a settling stop then go to close_out, a close-out ends.
SaveFails ==
    /\ At("main", "write") /\ failures < MaxFailures
    /\ failures' = failures + 1 /\ failed' = TRUE
    /\ live' = Head(todo).cand /\ todo' = <<>>
    /\ IF leg \in {"run", "settle"}
         THEN leg' = "close" /\ Goto("main", "capture")
         ELSE UNCHANGED leg /\ Goto("main", "stop")
    /\ UNCHANGED <<roundVars, sharedVars, tr, esc, res, resumable, best, bak, tmp,
                   applied, routed, passed, owed, late, launches>>

-----------------------------------------------------------------------------
(* The end of a process, and the next one *)

\* EvalPipeline.stop() sets the event; a close-out that raised may leave it a
\* round in flight, which it kills without finalising it.
Stop ==
    /\ At("main", "stop")
    /\ Goto("main", "join")
    /\ UNCHANGED <<roundVars, sharedVars, tr, esc, res, leg, todo, resumable,
                   anchorVars, historyVars>>

\* The join of the poller is bounded, so it may still be in a round's end.
StopEnds ==
    /\ At("main", "join")
    /\ IF inflight = NoRound
         THEN UNCHANGED <<child, partial>>
         ELSE /\ child' = [child EXCEPT
                   ![inflight].state = IF Alive(inflight) THEN "signal" ELSE @]
              /\ partial' = [partial EXCEPT ![inflight] = "none"]
    /\ Goto("main", "exited")
    /\ UNCHANGED <<counter, saved, spawns, result, sharedVars, tr, esc, res, leg,
                   todo, resumable, anchorVars, historyVars>>

\* The process is gone, by itself or killed at any step; its children with it.
Die ==
    /\ ~At("main", "down")
    /\ pc' = [t \in Threads |-> "down"]
    /\ child' = [r \in Rounds |-> NoChild]
    /\ inflight' = NoRound /\ latched' = {} /\ done' = {} /\ mailbox' = <<>>
    /\ tr' = [t \in Threads |-> NoRound] /\ esc' = [t \in Threads |-> FALSE]
    /\ res' = [t \in Threads |-> NoResult]
    /\ leg' = "run" /\ todo' = <<>> /\ resumable' = FALSE
    /\ live' = Absent /\ owed' = {} /\ late' = FALSE /\ failed' = FALSE
    /\ UNCHANGED <<counter, saved, spawns, partial, result, best, bak, tmp, applied,
                   routed, passed, failures, launches>>

\* Mutant: the backup is not tried.
Incumbent_NoBak == best

\* load_best_model_resilient: best_model.pt, else its backup.
Incumbent == IF best # Absent THEN best ELSE bak

\* The constructor sweeps the partial verdicts a dead process left, the round
\* counter comes from the bundle resumed from, and a recovered backup (or,
\* with no anchor at all, the trainer's fresh net) becomes best_model.pt.
Launch ==
    /\ At("main", "down") /\ launches < MaxLaunches
    /\ launches' = launches + 1
    /\ pc' = [main |-> "train", poller |-> "idle"]
    /\ counter' = saved
    /\ partial' = [r \in Rounds |-> "none"]
    /\ live' = IF Incumbent = Absent THEN 0 ELSE Incumbent
    /\ best' = live'
    /\ applied' = IF Incumbent = Absent THEN Append(applied, 0) ELSE applied
    /\ UNCHANGED <<saved, spawns, child, result, sharedVars, tr, esc, res, leg, todo,
                   resumable, bak, tmp, routed, passed, owed, late, failures, failed>>

Next ==
    \/ \E r \in Rounds : Judge(r) \/ WriteResult(r) \/ ChildExit(r)
    \/ \E t \in Threads : Finalise(t)
    \/ Poll \/ PollerEnds
    \/ Kick \/ SaveBundle \/ PollCompleted \/ SettleForStop \/ EndRun \/ SaveStop
    \/ Capture \/ Await \/ TakeMailbox \/ Route
    \/ KickTerminal \/ SkipTerminal \/ TakeOwn
    \/ WriteAnchor \/ Rotate \/ RenameAnchor \/ SaveFails
    \/ Stop \/ StopEnds \/ Die \/ Launch

Spec == Init /\ [][Next]_vars

\* The poller ticks until it is told to stop, and the trainer thread goes on
\* with what it has begun; kicks, stops and children are not forced.
FairSpec ==
    /\ Spec
    /\ WF_vars(Poll) /\ \A t \in Threads : WF_vars(Finalise(t))
    /\ WF_vars(Capture \/ Await \/ TakeMailbox \/ Route \/ TakeOwn \/ SaveStop)
    /\ WF_vars(WriteAnchor \/ Rotate \/ RenameAnchor \/ KickTerminal \/ SkipTerminal)

-----------------------------------------------------------------------------
(* Properties *)

\* _take_mailbox: "whichever thread finalised a round, a drain routes it exactly
\* once".  No candidate's result reaches the promotion decision twice, however
\* the poller, a stop and a close-out meet.
RoutedOnce ==
    \A i, j \in DOMAIN routed : routed[i] = routed[j] => i = j

\* best_model.pt only ever receives weights whose own child persisted a passing
\* gate: no round, broken, abandoned or re-using a dead process' id, promotes on
\* another round's verdict.
NoUnjudgedPromotion ==
    \A i \in DOMAIN applied : applied[i] = 0 \/ applied[i] \in passed

\* A verdict outlives its round: when a process ends by itself, every candidate
\* that passed its gate has been promoted, whether its round finished, timed
\* out, broke or was abandoned; only a wait given up or a failed save excuse it.
VerdictKept ==
    At("main", "exited") /\ ~late /\ ~failed =>
        \A c \in owed : \E i \in DOMAIN applied : applied[i] = c

\* What a launch would load is always the last promotion that finished, with a
\* death between the rotation and the rename included.
IncumbentIsLastApplied ==
    launches > 0 => Incumbent = applied[Len(applied)]

\* A kicked round ends: its child cannot keep it in flight, nor can two
\* finalisers that wait for each other.
RoundSettles == inflight # NoRound ~> inflight = NoRound

=============================================================================
