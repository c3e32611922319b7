---------------------------- MODULE Supervision ----------------------------
(***************************************************************************)
(* The two levels that keep a run alive or stop it: the supervisor process *)
(* (mantis.monitor.supervise) and, inside the child it spawns, the main    *)
(* thread, the heartbeat watchdog thread and the disk guard thread, with   *)
(* the signals between them.                                               *)
(*                                                                         *)
(* Time is not counted.  Whether an age has passed its deadline is a choice *)
(* made where the code asks, so every relation between the configured      *)
(* deadlines is covered.  SIGKILL takes effect at once, except on a thread *)
(* in an uninterruptible call, which runs no more code anyway.  SIGTERM    *)
(* stays pending until the main thread next runs Python code, and two      *)
(* pending SIGTERMs are one, as in the kernel.                             *)
(*                                                                         *)
(* A launch is direct (supervisor -> run) or wrapped (supervisor ->        *)
(* wrapper -> run, as with a launcher that forks).  A wrapper forwards     *)
(* signals and exit codes.                                                 *)
(***************************************************************************)
EXTENDS Integers

CONSTANTS
    Launchers,      \* the launch shapes to cover, among {"direct", "wrapped"}
    MaxRelaunches,  \* --max-relaunches
    MaxSeq          \* bound on the heartbeat counter of one child

ASSUME LaunchersAssumption == Launchers \subseteq {"direct", "wrapped"}
ASSUME BoundsAssumption == MaxRelaunches \in Nat /\ MaxSeq \in Nat

\* Exit codes.  NoCode is poll() returning None.
Stall == 42
PersistFatal == 43
BudgetSpent == 44
ActorLag == 45
Collapse == 46
DiskFull == 47
TerminalBroken == 48
ParentVanished == 71
BySigterm == -15
BySigkill == -9
NoCode == 1000

VARIABLES
    launcher,    \* the shape of this launch
    sup,         \* where the supervisor's main thread is; "gone" when it exited
    rc,          \* its exit code
    self,        \* what it holds: relaunches; handle, the pid in self.child or 0;
                 \* tracker, the LivenessTracker (seq 0 is None); in the stop
                 \* ladder, why it runs and the presses so far
    spawned,     \* children forked so far; the latest one's pid
    file,        \* the heartbeat file: [pid, seq]; pid 0 when absent
    overlap,     \* history: a child was forked while the last one lived

    phase,       \* where the child's main thread is; "dead" when it exited
    code,        \* the child's exit code
    ppid,        \* the parent the arming saw before its prctl: "-", "own", "init"
    armedTrampoline,  \* whose death kills the process the trampoline armed
    armedRun,    \* whose death kills the run
    wrapper,     \* is the wrapper alive
    wedge,       \* "no", "stage" (a pipeline thread), "main", or "gil"
    pending,     \* SIGTERM raised and not yet handled
    stopCount,   \* ShutdownState.stop_count
    critical,    \* DiskGuard._critical_fired

    wd,          \* where the watchdog thread is
    fire,        \* the code it is firing, or NoCode
    stalenessArmed,
    closeOutStarted,
    over,        \* the close-out budget has run out
    inFlight,    \* history: a poll had passed the armed check at the disarm
    beat         \* the seq this child's watchdog last wrote

supVars == <<launcher, sup, rc, self, overlap>>
armVars == <<ppid, armedTrampoline, armedRun, wrapper>>
mainVars == <<wedge, pending, stopCount, critical>>
wdVars == <<wd, fire, stalenessArmed, closeOutStarted, over, inFlight, beat>>
childVars == <<phase, code, armVars, mainVars, wdVars>>
supervisionVars == <<supVars, spawned, file, childVars>>

Trampoline == {"capture", "prctl", "recheck"}
Gate == {"gate", "gateCapture", "gatePrctl", "gateRecheck"}
Unhandled == Trampoline \cup Gate \cup {"boot"}  \* before install_signal_handlers
Watched == {"train", "disarm", "disarmed", "epilogue"}
Running == {"boot", "compose"} \cup Watched
Alive == phase \notin {"none", "dead"}
Loop == {"spawn", "note", "poll", "grace", "claim"}

\* LivenessTracker.reset
Rebased == [pid |-> 0, seq |-> 0, seen |-> {}]
Boot == [relaunches |-> 0, handle |-> 0, tracker |-> Rebased, why |-> "none", presses |-> 0]

SupervisionInit ==
    /\ launcher \in Launchers
    /\ sup = "spawn" /\ rc = NoCode /\ self = Boot
    /\ spawned = 0 /\ file = [pid |-> 0, seq |-> 0] /\ overlap = FALSE
    /\ phase = "none" /\ code = NoCode
    /\ ppid = "-" /\ armedTrampoline = "-" /\ armedRun = "-" /\ wrapper = FALSE
    /\ wedge = "no" /\ pending = FALSE /\ stopCount = 0
    /\ critical = FALSE
    /\ wd = "off" /\ fire = NoCode /\ stalenessArmed = TRUE /\ closeOutStarted = FALSE
    /\ over = FALSE /\ inFlight = FALSE /\ beat = 0

-----------------------------------------------------------------------------
(* Death and signals *)

\* What a process holds in memory is as in a new one.
Blank ==
    /\ ppid' = "-" /\ armedTrampoline' = "-" /\ armedRun' = "-" /\ wrapper' = FALSE
    /\ wedge' = "no" /\ pending' = FALSE /\ stopCount' = 0
    /\ critical' = FALSE
    /\ wd' = "off" /\ fire' = NoCode /\ stalenessArmed' = TRUE /\ closeOutStarted' = FALSE
    /\ over' = FALSE /\ inFlight' = FALSE /\ beat' = 0

\* The child's processes end with exit code c.
Exit(c) == phase' = "dead" /\ code' = c /\ Blank

\* SIGTERM reaches the child: its default action before the handlers exist.
ReceiveSigterm ==
    \/ phase \in Unhandled /\ Exit(BySigterm)
    \/ /\ Alive /\ phase \notin Unhandled
       /\ pending' = TRUE
       /\ UNCHANGED <<phase, code, armVars, wedge, stopCount, critical, wdVars>>
    \/ ~Alive /\ UNCHANGED childVars

\* SIGKILL ends the supervisor's child: the wrapper, if there is one, and the
\* run behind it only when the run has armed itself against that.
Orphaned == wrapper /\ armedRun # "own"
ReceiveSigkill ==
    \/ /\ Alive /\ Orphaned /\ wrapper' = FALSE
       /\ UNCHANGED <<phase, code, ppid, armedTrampoline, armedRun, mainVars, wdVars>>
    \/ Alive /\ ~Orphaned /\ Exit(BySigkill)
    \/ ~Alive /\ UNCHANGED childVars

\* The supervisor ends; the kernel kills the child that armed itself against it.
Gone(c) ==
    /\ sup' = "gone" /\ rc' = c /\ self' = Boot
    /\ IF armedTrampoline = "own" THEN ReceiveSigkill ELSE UNCHANGED childVars

-----------------------------------------------------------------------------
(* The supervisor's loop *)

supFrame == <<launcher, rc, spawned, file, overlap>>

\* Popen: the child exists, self.child does not name it yet.
Fork ==
    /\ sup = "spawn" /\ sup' = "note"
    /\ spawned' = spawned + 1 /\ overlap' = (overlap \/ Alive)
    /\ phase' = "capture" /\ code' = NoCode /\ Blank
    /\ UNCHANGED <<launcher, rc, self, file>>

Note ==
    /\ sup = "note" /\ sup' = "poll"
    /\ self' = [self EXCEPT !.handle = spawned, !.tracker = Rebased]
    /\ UNCHANGED <<supFrame, childVars>>

\* _claim_relaunch
Claim ==
    \/ /\ self.relaunches < MaxRelaunches /\ sup' = "spawn"
       /\ self' = [self EXCEPT !.relaunches = @ + 1] /\ UNCHANGED <<rc, childVars>>
    \/ self.relaunches >= MaxRelaunches /\ Gone(BudgetSpent)

\* _on_child_exit: only a stall is transient.
OnChildExit ==
    /\ sup = "poll" /\ phase = "dead"
    /\ \/ code = Stall /\ Claim
       \/ code # Stall /\ Gone(code)
    /\ UNCHANGED <<launcher, spawned, file, overlap>>

\* LivenessTracker.observe
Progressed ==
    LET t == self.tracker IN
    file.pid # 0 /\ (t.seq = 0 \/ file.pid \notin t.seen \/ (file.pid = t.pid /\ file.seq > t.seq))

Observe ==
    self' = IF file.pid = 0 THEN self
            ELSE [self EXCEPT !.tracker = [pid |-> file.pid, seq |-> file.seq,
                                           seen |-> @.seen \cup {file.pid}]]

Watch == sup = "poll" /\ Alive /\ Observe /\ UNCHANGED <<sup, supFrame, childVars>>

\* Stale, so _kill: SIGTERM, the grace, then SIGKILL if poll() still returns
\* None.  The arming gate is the child's first statement: it is over well
\* within stale_after_sec.
WatchStale ==
    /\ sup = "poll" /\ Alive /\ Observe /\ ~Progressed /\ phase \notin Trampoline \cup Gate
    /\ sup' = "grace" /\ ReceiveSigterm
    /\ UNCHANGED supFrame

\* Mutant: the grace alone, as if SIGTERM always worked.
GraceOver_NoKill ==
    sup = "grace" /\ sup' = "claim" /\ UNCHANGED <<self, supFrame, childVars>>

GraceOver == sup = "grace" /\ sup' = "claim" /\ ReceiveSigkill /\ UNCHANGED <<self, supFrame>>

AfterKill == sup = "claim" /\ Claim /\ UNCHANGED <<launcher, spawned, file, overlap>>

-----------------------------------------------------------------------------
(* The stop ladder *)

\* The loop is left for good: only the child it names still matters.
Ladder(reason) ==
    /\ sup' = "send"
    /\ self' = [Boot EXCEPT !.handle = self.handle, !.why = reason, !.presses = 1]

\* What the process exits with once the child's code c is known: a positive one
\* outranks the gesture, and a raise ends as it would have.
StopCode(c) ==
    CASE self.why = "raise" -> 1
      [] self.why = "press" /\ c # NoCode /\ c > 0 -> c
      [] OTHER -> BySigterm

\* _on_stop_signal raises wherever the main thread is.  In the loop it starts
\* the ladder; in the ladder's wait it is the second or third press; anywhere
\* else in the ladder nothing catches it.
Press ==
    /\ \/ sup \in Loop /\ Ladder("press") /\ UNCHANGED <<rc, childVars>>
       \/ /\ sup = "wait" /\ self.presses = 1 /\ ReceiveSigterm
          /\ self' = [self EXCEPT !.presses = 2] /\ UNCHANGED <<sup, rc>>
       \/ sup = "wait" /\ self.presses = 2 /\ sup' = "force" /\ UNCHANGED <<self, rc, childVars>>
       \/ sup \in {"send", "force"} /\ Gone(1)
       \/ sup = "reap" /\ Gone(StopCode(NoCode))
    /\ UNCHANGED <<launcher, spawned, file, overlap>>

\* An exception escapes the loop, a broken stderr pipe most likely.
Raise == sup \in Loop /\ Ladder("raise") /\ UNCHANGED <<supFrame, childVars>>

\* self.child may be absent, or an earlier child, dead of whatever code.
Send ==
    /\ sup = "send"
    /\ \/ self.handle = 0 /\ Gone(StopCode(NoCode))
       \/ /\ self.handle \notin {0, spawned}
          /\ \E c \in {Stall, BySigkill} : Gone(StopCode(c))
       \/ self.handle = spawned /\ spawned # 0 /\ sup' = "wait" /\ ReceiveSigterm /\ UNCHANGED <<rc, self>>
    /\ UNCHANGED <<launcher, spawned, file, overlap>>

Stopped ==
    /\ sup \in {"wait", "reap"} /\ phase = "dead" /\ Gone(StopCode(code))
    /\ UNCHANGED <<launcher, spawned, file, overlap>>

\* child.wait(timeout=grace) gives up.
WaitTimeout ==
    /\ sup = "wait" /\ Alive /\ sup' = "force"
    /\ UNCHANGED <<self, supFrame, childVars>>

\* SIGKILL waits for a thread in an uninterruptible call to come out of it.
ForceKill ==
    /\ sup = "force" /\ sup' = "reap"
    /\ \/ ReceiveSigkill
       \/ Alive /\ wedge = "gil" /\ UNCHANGED childVars
    /\ UNCHANGED <<self, supFrame>>

\* The child does not die within the second wait.
Unreaped ==
    /\ sup = "reap" /\ Alive /\ Gone(StopCode(NoCode))
    /\ UNCHANGED <<launcher, spawned, file, overlap>>

\* The supervisor is killed outright.
Crash == sup # "gone" /\ Gone(BySigkill) /\ UNCHANGED <<launcher, spawned, file, overlap>>

Supervisor == Fork \/ Note \/ OnChildExit \/ Watch \/ GraceOver
              \/ AfterKill \/ Send \/ Stopped \/ WaitTimeout \/ ForceKill \/ Unreaped

-----------------------------------------------------------------------------
(* The child comes up *)

outside == <<supVars, spawned, file>>

\* getppid(): the parent the process started with, or init.
Parent == IF (IF phase \in Gate /\ launcher = "wrapped" THEN wrapper ELSE sup # "gone")
          THEN "own" ELSE "init"

\* Mutant: the child is spawned without the trampoline's prctl.
TrampolineArms_Not == "-"

TrampolineArms == Parent

\* arm_parent_death_signal in the trampoline, which then execs the child: the
\* run itself, or a wrapper that forks it unarmed.
ArmTrampoline ==
    /\ \/ /\ phase = "capture" /\ phase' = "prctl" /\ ppid' = Parent
          /\ UNCHANGED <<code, armedTrampoline, armedRun, wrapper, mainVars, wdVars>>
       \/ /\ phase = "prctl" /\ phase' = "recheck" /\ armedTrampoline' = TrampolineArms
          /\ UNCHANGED <<code, ppid, armedRun, wrapper, mainVars, wdVars>>
       \/ phase = "recheck" /\ ppid # Parent /\ Exit(ParentVanished)
       \/ /\ phase = "recheck" /\ ppid = Parent /\ phase' = "gate" /\ ppid' = "-"
          /\ wrapper' = (launcher = "wrapped")
          /\ armedRun' = IF launcher = "wrapped" THEN "-" ELSE armedTrampoline
          /\ UNCHANGED <<code, armedTrampoline, mainVars, wdVars>>
    /\ UNCHANGED outside

\* arm_parent_death_if_supervised.  A stamp that is not our parent is a dead
\* supervisor, or one two hops up; a wrapper that died leaves it unreadable.
ArmRun ==
    /\ \/ /\ phase = "gate" /\ Parent = "own" /\ phase' = "gateCapture"
          /\ UNCHANGED <<code, armVars, mainVars, wdVars>>
       \/ phase = "gate" /\ Parent = "init" /\ sup = "gone" /\ Exit(ParentVanished)
       \/ /\ phase = "gate" /\ Parent = "init" /\ sup # "gone" /\ phase' = "boot"
          /\ UNCHANGED <<code, armVars, mainVars, wdVars>>
       \/ /\ phase = "gateCapture" /\ phase' = "gatePrctl" /\ ppid' = Parent
          /\ UNCHANGED <<code, armedTrampoline, armedRun, wrapper, mainVars, wdVars>>
       \/ /\ phase = "gatePrctl" /\ phase' = "gateRecheck" /\ armedRun' = Parent
          /\ armedTrampoline' = IF launcher = "wrapped" THEN armedTrampoline ELSE Parent
          /\ UNCHANGED <<code, ppid, wrapper, mainVars, wdVars>>
       \/ phase = "gateRecheck" /\ ppid # Parent /\ Exit(ParentVanished)
       \/ /\ phase = "gateRecheck" /\ ppid = Parent /\ phase' = "boot" /\ ppid' = "-"
          /\ UNCHANGED <<code, armedTrampoline, armedRun, wrapper, mainVars, wdVars>>
    /\ UNCHANGED outside

-----------------------------------------------------------------------------
(* The child's main thread *)

\* The main thread is running Python code.
MainRuns == Alive /\ wedge \notin {"main", "gil"}

\* compose_run installs the handlers; the watchdog starts after the pool.
Compose ==
    /\ wedge = "no"
    /\ \/ phase = "boot" /\ phase' = "compose" /\ UNCHANGED wd
       \/ phase = "compose" /\ phase' = "train" /\ wd' = "idle"
    /\ UNCHANGED <<outside, code, armVars, mainVars, fire, stalenessArmed,
                   closeOutStarted, over, inFlight, beat>>

\* Mutant: close_out drains first and never disarms.
CloseOut_NoDisarm == "epilogue"

\* close_out's first act is the disarm.
CloseOut == "disarm"

\* The loop ends, at its stop step, on an abort rule, or because running is
\* False, and saves; close_out follows in a finally.
LoopEnds ==
    /\ phase = "train" /\ MainRuns /\ phase' = CloseOut
    /\ UNCHANGED <<outside, code, armVars, mainVars, wdVars>>

\* disarm_staleness: two assignments, no lock.
Disarm ==
    /\ \/ /\ phase = "disarm" /\ phase' = "disarmed" /\ stalenessArmed' = FALSE
          /\ inFlight' = (wd \in {"ages", "fire", "hung"}) /\ UNCHANGED closeOutStarted
       \/ /\ phase = "disarmed" /\ phase' = "epilogue" /\ closeOutStarted' = TRUE
          /\ UNCHANGED <<stalenessArmed, inFlight>>
    /\ UNCHANGED <<outside, code, armVars, mainVars, wd, fire, over, beat>>

\* The eval drained, the pool stopped and the terminal eval played, which waits
\* on every thread; then main's exit code: a rule the loop recorded first, then
\* the disk guard's latch, then a broken terminal eval.
Verdicts == {Collapse} \cup (IF critical THEN {DiskFull} ELSE {0, TerminalBroken})
Finish ==
    /\ phase = "epilogue" /\ wedge = "no" /\ UNCHANGED outside
    /\ \E c \in Verdicts : Exit(c)

\* An exception leaves main.
Traceback == phase \in Running /\ MainRuns /\ UNCHANGED outside /\ Exit(1)

\* install_signal_handlers._stop: the second press tears down the registered
\* children and forces the process out, unless it interrupted the main thread
\* inside register_child: the lock is not reentrant and the handler waits on it.
HandleSigterm ==
    /\ pending /\ phase \in Running /\ MainRuns /\ UNCHANGED outside
    /\ \/ stopCount >= 1 /\ Exit(1)
       \/ /\ stopCount >= 1 /\ wedge' = "main" /\ pending' = FALSE
          /\ UNCHANGED <<phase, code, armVars, stopCount, critical, wdVars>>
       \/ /\ stopCount = 0 /\ stopCount' = 1 /\ pending' = FALSE
          /\ UNCHANGED <<phase, code, armVars, wedge, critical, wdVars>>

\* A thread stops for ever.  The two statements of the disarm are not a place
\* to wait.
Wedge ==
    /\ wedge = "no" /\ phase \in (Running \ {"disarm", "disarmed"})
    /\ wedge' \in {"stage", "main", "gil"}
    /\ UNCHANGED <<outside, phase, code, armVars, pending, stopCount,
                   critical, wdVars>>

\* check_once signals on its first critical reading only.
Signals == ~critical

GuardFires ==
    /\ phase \in Watched /\ wedge # "gil"
    /\ critical' = TRUE /\ pending' = (pending \/ Signals)
    /\ UNCHANGED <<outside, phase, code, armVars, wedge, stopCount, wdVars>>

-----------------------------------------------------------------------------
(* The watchdog thread *)

wdFrame == <<supVars, spawned, phase, code, armVars, mainVars,
             stalenessArmed, closeOutStarted, over, inFlight>>
WdRuns == phase \in Watched /\ wedge # "gil"
Firing(c) == wd' = "fire" /\ fire' = c

\* poll_once up to the armed check.  errors: counters_fn() > 0.
WdPoll ==
    /\ WdRuns /\ wd = "idle"
    /\ \E errors \in BOOLEAN :
         \/ errors /\ Firing(PersistFatal)
         \/ ~errors /\ wd' = (IF stalenessArmed THEN "ages" ELSE "budget") /\ UNCHANGED fire
    /\ UNCHANGED <<wdFrame, beat, file>>

\* _check_actor_lag, then _check_source_staleness: has a source gone without a
\* beat for its deadline?
WdFires(c) ==
    /\ WdRuns /\ wd = "ages" /\ Firing(c)
    /\ UNCHANGED <<wdFrame, beat, file>>
WdLag == WdFires(ActorLag)
WdStale == WdFires(Stall)
WdFresh == WdRuns /\ wd = "ages" /\ wd' = "mirror" /\ UNCHANGED <<wdFrame, fire, beat, file>>

\* Mutant: close-out switches the watchdog off.
Overrun_Never == FALSE

\* _check_close_out_overrun; nothing to measure from between the two writes.
Overrun == closeOutStarted /\ over

WdBudget ==
    /\ WdRuns /\ wd = "budget"
    /\ \/ Overrun /\ Firing(Stall)
       \/ ~Overrun /\ wd' = "mirror" /\ UNCHANGED fire
    /\ UNCHANGED <<wdFrame, beat, file>>

\* _mirror_file: the counter advances even when the write fails.
WdMirror ==
    /\ WdRuns /\ wd = "mirror" /\ wd' = "idle"
    /\ beat' = IF beat < MaxSeq THEN beat + 1 ELSE beat
    /\ file' \in {file, [pid |-> spawned, seq |-> beat']}
    /\ UNCHANGED <<wdFrame, fire>>

\* _fire ends the process from this thread.
WdFire == WdRuns /\ wd = "fire" /\ UNCHANGED outside /\ Exit(fire)

\* Its first act is an emit nothing bounds: a stuck sink holds it there.
StickSink ==
    /\ WdRuns /\ wd = "fire" /\ wd' = "hung"
    /\ UNCHANGED <<wdFrame, fire, beat, file>>

WatchdogThread == WdPoll \/ WdLag \/ WdStale \/ WdFresh \/ WdBudget \/ WdMirror \/ WdFire

\* Time passes.
timeFrame == <<outside, phase, code, armVars, mainVars, wd, fire,
               stalenessArmed, closeOutStarted, inFlight, beat>>
RunOver == closeOutStarted /\ ~over /\ over' = TRUE /\ UNCHANGED <<timeFrame>>

-----------------------------------------------------------------------------
Main == Compose \/ LoopEnds \/ Disarm \/ Finish \/ Traceback \/ HandleSigterm
Environment == Press \/ Raise \/ Crash \/ Wedge \/ GuardFires \/ StickSink \/ RunOver

SupervisionNext == Supervisor \/ WatchStale \/ ArmTrampoline \/ ArmRun \/ Main \/ WatchdogThread \/ Environment

SupervisionSpec == SupervisionInit /\ [][SupervisionNext]_supervisionVars

\* Nothing will ever write the heartbeat file again.
Silent == wedge = "gil" \/ wd = "hung" \/ (wd = "off" /\ wedge # "no")

(***************************************************************************)
(* Both processes and the watchdog thread are scheduled; the clock passes  *)
(* a stage's deadline once the stage is stuck, the close-out budget, and   *)
(* the supervisor's own bound once the file is silent.  Nothing is assumed *)
(* of a main thread that is wedged, of operators or of faults.             *)
(***************************************************************************)
SupervisionFairness ==
    /\ WF_supervisionVars(Supervisor)
    /\ SF_supervisionVars(Silent /\ WatchStale)
    /\ WF_supervisionVars(ArmTrampoline \/ ArmRun)
    /\ WF_supervisionVars(Disarm)
    /\ WF_supervisionVars(WatchdogThread)
    /\ SF_supervisionVars(wedge # "no" /\ WdStale)
    /\ WF_supervisionVars(RunOver)

SupervisionFairSpec == SupervisionSpec /\ SupervisionFairness

-----------------------------------------------------------------------------
(* Properties *)

\* One run at a time holds the device and the run directory: the supervisor
\* never forks a child while the last one lives, whatever path led to the
\* relaunch (a stall exit, or a stale heartbeat and _kill).
OneChild == ~overlap

\* A finish that is merely long is not relaunched: a stall exit once close-out
\* has begun means the close-out budget ran out, or a poll that had read the
\* armed flag before the disarm was still under way.
CleanFinishNotRelaunched ==
    fire = Stall /\ phase = "epilogue" => over \/ inFlight

\* A child with a wedged thread does not stay: the watchdog fires, or, when it
\* cannot run or cannot finish its fire, the supervisor kills.
WedgeEnds == (wedge # "no" /\ sup \in Loop) ~> (phase = "dead" \/ sup \notin Loop)

\* A stop gesture, or a failure of the supervisor's own loop, ends with the
\* supervisor gone.
StopEnds == (sup = "send") ~> (sup = "gone")

\* Neither a wedged run nor a stopped supervision hangs.
NothingHangs == WedgeEnds /\ StopEnds

\* A persistence fault is never relaunched: the exit-code table stops on it
\* (_on_child_exit).  The code does not keep this when the supervisor was about
\* to kill the child anyway, and no run checks it (README, Observations).
PersistFaultStops == [][spawned' # spawned => code # PersistFatal]_supervisionVars

\* A run launched directly does not outlive its supervisor, however early in
\* its boot the supervisor dies: the trampoline's arming and the run's own gate
\* each close the window the other leaves.
DirectRunDiesToo == launcher = "direct" /\ sup = "gone" => phase \notin Running

\* A run does not outlive its supervisor.  True of a direct run, whose property
\* is the one above; a wrapped one does outlive it, and no run checks this
\* (README, Observations).
NoOrphanRun == sup = "gone" => phase \notin Running
=============================================================================
