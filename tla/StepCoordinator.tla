---------------------------- MODULE StepCoordinator ----------------------------
(***************************************************************************)
(* The trainer's outer loop and the end of its process: when the loop      *)
(* warms up, waits, trains a burst, kicks an evaluation round, fires an    *)
(* armed abort or saves; what close_out and the composition root make of   *)
(* the way it ended; and what a resume takes back from the bundle.         *)
(*                                                                         *)
(* The trainer thread runs beside the self-play pool, which completes      *)
(* games, the disk guard's thread, which latches and then signals, and the *)
(* operator, whose presses the handler turns into flags or, the second     *)
(* time, into the process' end.  The flags are read at a few places of the *)
(* loop only, so everything is about what may happen between them.         *)
(*                                                                         *)
(* A bundle is one value here, written and read whole: ResumeBundle models *)
(* its files, retention and crashes inside a save, EvalPipeline the rounds *)
(* kicked from here, Supervision what watches this process.                *)
(***************************************************************************)
EXTENDS Integers, Sequences

CONSTANTS
    StopStep,      \* train.stop_step
    Interval,      \* train.checkpoint_interval, 0 for none
    EvalInterval,  \* eval.interval
    GateInterval,  \* monitor.gate_interval
    Consec,        \* draw_rate_abort.consec
    MinStep,       \* min_step of the armed aborts
    RatioNum,      \* train.training_steps_per_game, as a fraction
    RatioDen,
    Ramps,         \* values of train.training_steps_fill_ramp to consider
    MaxBurst,      \* train.max_train_burst
    MinBuf,        \* train.min_buf_size
    Capacity,      \* train.capacity: rows in the ring
    MaxGames,      \* bound on games of one launch
    MaxRefused,    \* bound on steps refused for a non-finite gradient
    MaxLaunches    \* bound on launches

ASSUME IntervalsAssumption ==
    /\ {StopStep, EvalInterval, GateInterval, Consec, MaxBurst, Capacity} \subseteq Nat \ {0}
    /\ Interval \in Nat

ASSUME RatioAssumption ==
    RatioDen \in Nat \ {0} /\ RatioNum \in Nat /\ RatioNum >= RatioDen

ASSUME BoundsAssumption ==
    /\ {MinStep, MinBuf, MaxGames, MaxRefused, MaxLaunches} \subseteq Nat
    /\ Ramps \subseteq BOOLEAN

NoStep == -1

VARIABLES
    pc,        \* where the trainer thread is; "down" when there is no process
    running,   \* shutdown.running
    stop,      \* shutdown.shutdown_save
    rule,      \* shutdown.abort_rule
    critical,  \* disk_guard.critical_fired
    signalled, \* has the guard's SIGTERM been handled
    raised,    \* is an exception on its way out
    finalDone, \* coordinator.final_save_done
    resumable, \* compose_run's resumable_stop
    terminal,  \* outcome of the terminal evaluation
    code,      \* exit code of the process that ended last
    games,     \* pool.games_completed
    rows,      \* buffer.size
    ticked,    \* games at the stall watchdog's last progress
    trained,   \* last_train_game_count
    carry,     \* _steps_budget_carry, in units of 1/Unit
    budget,    \* steps left in the burst
    step,      \* trainer.step
    window,    \* _draw_rate_history: was each observation above the threshold
    evalLast,  \* _eval_round_last_step
    ramp,      \* train.training_steps_fill_ramp
    refused,   \* refused steps so far
    launches,  \* launches so far
    bundle,    \* the newest bundle, or NoBundle
    ckpt,      \* step of the newest checkpoint
    kicks,     \* history: round index -> kicks in this lineage
    observed,  \* history: this lineage's draw-rate observations, with their steps
    due        \* history: steps granted by this launch, or dropped by the ceiling

flagVars == <<running, stop, rule, critical, signalled>>
endVars == <<raised, finalDone, resumable, terminal, code>>
poolVars == <<games, rows>>
budgetVars == <<ticked, trained, carry, budget, due>>
lineVars == <<step, window, evalLast, kicks, observed>>
diskVars == <<bundle, ckpt>>
runVars == <<ramp, refused, launches>>
vars == <<pc, flagVars, endVars, poolVars, budgetVars, lineVars, diskVars, runVars>>

Rounds == 1 .. StopStep \div EvalInterval

\* What the sidecar records, and with it the two histories of the lineage.
Snapshot(s) == [step |-> s, rows |-> rows, window |-> window, evalLast |-> evalLast,
                kicks |-> kicks, observed |-> observed]

\* The state of a run before its first step.
NoBundle == [step |-> 0, rows |-> 0, window |-> <<>>, evalLast |-> NoStep,
             kicks |-> [i \in Rounds |-> 0], observed |-> <<>>]

Init ==
    /\ pc = "down" /\ running = FALSE /\ stop = FALSE /\ rule = "none"
    /\ critical = FALSE /\ signalled = FALSE
    /\ raised = FALSE /\ finalDone = FALSE /\ resumable = FALSE
    /\ terminal = "none" /\ code = "none"
    /\ games = 0 /\ rows = 0
    /\ ticked = 0 /\ trained = 0 /\ carry = 0 /\ budget = 0 /\ due = 0
    /\ step = 0 /\ window = <<>> /\ evalLast = NoStep
    /\ kicks = NoBundle.kicks /\ observed = <<>>
    /\ bundle = NoBundle /\ ckpt = NoStep
    /\ ramp \in Ramps /\ refused = 0 /\ launches = 0

-----------------------------------------------------------------------------
(* Launching *)

\* Mutant: the kick record is not taken back.
Restore_NoKickRecord(b) ==
    /\ step' = b.step /\ rows' = b.rows /\ window' = b.window
    /\ evalLast' = NoStep
    /\ kicks' = b.kicks /\ observed' = b.observed

\* Mutant: the abort windows restart empty.
Restore_NoGuards(b) ==
    /\ step' = b.step /\ rows' = b.rows /\ window' = <<>>
    /\ evalLast' = b.evalLast
    /\ kicks' = b.kicks /\ observed' = b.observed

\* restore_eval_round_state and restore_guard_state, after the trainer's and
\* the ring's own.
Restore(b) ==
    /\ step' = b.step /\ rows' = b.rows /\ window' = b.window
    /\ evalLast' = b.evalLast
    /\ kicks' = b.kicks /\ observed' = b.observed

\* compose_run: a fresh run, or the newest bundle's; counters held in memory
\* only start again.
Launch ==
    /\ pc = "down" /\ launches < MaxLaunches
    /\ Restore(bundle)
    /\ pc' = "loop" /\ running' = TRUE /\ stop' = FALSE /\ rule' = "none"
    /\ critical' = FALSE /\ signalled' = FALSE
    /\ raised' = FALSE /\ finalDone' = FALSE /\ resumable' = FALSE
    /\ terminal' = "none" /\ code' = "none"
    /\ games' = 0
    /\ ticked' = 0 /\ trained' = 0 /\ carry' = 0 /\ budget' = 0 /\ due' = 0
    /\ launches' = launches + 1
    /\ UNCHANGED <<diskVars, ramp, refused>>

-----------------------------------------------------------------------------
(* Beside the trainer thread *)

\* The process is over with exit code c.
Ends(c) ==
    /\ pc' = "down" /\ code' = c
    /\ UNCHANGED <<flagVars, raised, finalDone, resumable, terminal, poolVars,
                   budgetVars, lineVars, runVars>>

\* The pool completes a game until close_out stops it.
GameDone ==
    /\ pc \notin {"down", "terminal", "record", "exit"} /\ games < MaxGames
    /\ games' = games + 1
    /\ rows' = IF rows < Capacity THEN rows + 1 ELSE rows
    /\ UNCHANGED <<pc, flagVars, endVars, budgetVars, lineVars, diskVars, runVars>>

\* The signal handler: the first press asks, the second ends the process.
Handle(sent) ==
    IF stop
      THEN Ends("killed") /\ UNCHANGED diskVars
      ELSE /\ stop' = TRUE /\ running' = FALSE /\ signalled' = sent
           /\ UNCHANGED <<pc, rule, critical, endVars, poolVars, budgetVars,
                          lineVars, diskVars, runVars>>

Press == pc # "down" /\ Handle(signalled)

\* check_once latches before it signals; compose_run joins the guard's thread.
DiskCritical ==
    /\ pc \notin {"down", "exit"} /\ ~critical
    /\ critical' = TRUE
    /\ UNCHANGED <<pc, running, stop, rule, signalled, endVars, poolVars,
                   budgetVars, lineVars, diskVars, runVars>>

GuardSignal == pc # "down" /\ critical /\ ~signalled /\ Handle(TRUE)

\* The process dies with no word: SIGKILL, the watchdogs, a power loss.
Die == pc # "down" /\ Ends("killed") /\ UNCHANGED diskVars

-----------------------------------------------------------------------------
(* Saving *)

Aborted == rule # "none" \/ critical

\* persist_resume_state declines on an abort.
Persist(s) ==
    /\ bundle' = IF Aborted THEN bundle ELSE Snapshot(s)
    /\ ckpt' = s

\* An exception out of the loop still runs close_out, one out of close_out
\* still records the aborts; the process exits 1.
Raise ==
    /\ pc \in {"top", "burst", "ply", "gate", "kick", "after", "close", "terminal"}
    /\ raised' = TRUE
    /\ pc' = IF pc \in {"close", "terminal"} THEN "record" ELSE "close"
    /\ UNCHANGED <<flagVars, finalDone, resumable, terminal, code, poolVars,
                   budgetVars, lineVars, diskVars, runVars>>

-----------------------------------------------------------------------------
(* One outer iteration *)

\* while shutdown_state.running
LoopTest ==
    /\ pc = "loop"
    /\ pc' = IF running THEN "top" ELSE "after"
    /\ UNCHANGED <<flagVars, endVars, poolVars, budgetVars, lineVars, diskVars, runVars>>

\* O2: the clean completion saves a checkpoint and no bundle.
CleanStop ==
    /\ pc = "top" /\ step >= StopStep
    /\ ckpt' = step /\ finalDone' = TRUE /\ running' = FALSE
    /\ pc' = "loop"
    /\ UNCHANGED <<stop, rule, critical, signalled, raised, resumable, terminal,
                   code, poolVars, budgetVars, lineVars, bundle, runVars>>

\* O3: the shutdown save.
ShutdownSave ==
    /\ pc = "top" /\ step < StopStep /\ stop
    /\ Persist(step)
    /\ finalDone' = TRUE /\ running' = FALSE
    /\ pc' = "loop"
    /\ UNCHANGED <<stop, rule, critical, signalled, raised, resumable, terminal,
                   code, poolVars, budgetVars, lineVars, runVars>>

Trains == pc = "top" /\ step < StopStep /\ ~stop

\* StallWatchdog: no game for the timeout; it saves weights, not a bundle.
Stall ==
    /\ Trains /\ games = ticked
    /\ ckpt' = step /\ UNCHANGED bundle
    /\ Ends("stalled")

\* O4 and O5: below the training floor, or no game since the last burst.
Wait ==
    /\ Trains /\ (rows < MinBuf \/ games = trained)
    /\ ticked' = games /\ pc' = "loop"
    /\ UNCHANGED <<flagVars, endVars, poolVars, trained, carry, budget, due,
                   lineVars, diskVars, runVars>>

\* One step is Unit: the fill ramp scales the ratio by rows/Capacity.
Unit == RatioDen * Capacity
PerGame == RatioNum * (IF ramp THEN rows ELSE Capacity)
AtLeast(a, b) == IF a < b THEN b ELSE a
AtMost(a, b) == IF a > b THEN b ELSE a

\* Mutant: every burst floors its own fraction away.
Remainder_Dropped(total) == 0

\* The fraction floored off, carried to the next burst.
Remainder(total) == total % Unit

\* O6: _steps_budget; what exceeds the ceiling is dropped, not owed.
Budget ==
    /\ Trains /\ rows >= MinBuf /\ games > trained
    /\ LET total == carry + (games - trained) * PerGame
           want == total \div Unit
           asked == IF ramp THEN want ELSE AtLeast(want, 1)
       IN /\ budget' = AtMost(asked, MaxBurst)
          /\ carry' = Remainder(total)
          /\ due' = due + asked
    /\ ticked' = games /\ trained' = games
    /\ pc' = "burst"
    /\ UNCHANGED <<flagVars, endVars, poolVars, lineVars, diskVars, runVars>>

-----------------------------------------------------------------------------
(* One step of the burst *)

\* The budget is spent, or the run is complete.
BurstEnds ==
    /\ pc = "burst" /\ (budget = 0 \/ step >= StopStep)
    /\ pc' = "loop" /\ budget' = 0
    /\ UNCHANGED <<flagVars, endVars, poolVars, ticked, trained, carry, due,
                   lineVars, diskVars, runVars>>

Steps ==
    /\ pc = "burst" /\ budget > 0 /\ step < StopStep
    /\ budget' = budget - 1 /\ pc' = "ply"
    /\ UNCHANGED <<flagVars, endVars, poolVars, ticked, trained, carry, due,
                   window, evalLast, kicks, observed, ramp, launches>>

\* A step taken; the periodic checkpoint's bundle is published inside it.
TrainStep ==
    /\ Steps
    /\ step' = step + 1 /\ UNCHANGED refused
    /\ IF Interval > 0 /\ step' % Interval = 0 THEN Persist(step') ELSE UNCHANGED diskVars

\* A step refused for a non-finite loss or gradient: trainer.step stays.
RefuseStep ==
    /\ Steps /\ refused < MaxRefused
    /\ refused' = refused + 1
    /\ UNCHANGED <<step, diskVars>>

\* _fire_hard_abort: nothing is recorded on a run that already stopped.
Fires(name, yes) ==
    IF yes /\ running THEN running' = FALSE /\ rule' = name ELSE UNCHANGED <<running, rule>>

\* The ply-cap halt, on whatever the pool's window says.
PlyGate ==
    /\ pc = "ply" /\ pc' = "gate"
    /\ \E above \in BOOLEAN : Fires("ply", above /\ step >= MinStep)
    /\ UNCHANGED <<stop, critical, signalled, endVars, poolVars, budgetVars,
                   lineVars, diskVars, runVars>>

\* The newest n entries of w.
Newest(w, n) == IF Len(w) <= n THEN w ELSE SubSeq(w, Len(w) - n + 1, Len(w))

\* check_draw_rate_collapse
Collapsed(w) ==
    /\ Len(w) >= Consec /\ step >= MinStep
    /\ \A i \in 1 .. Len(w) : w[i]

\* The draw-rate gate at its interval: an observation, or too few games for one.
DrawGate ==
    /\ pc = "gate" /\ pc' = "kick"
    /\ \/ UNCHANGED <<running, rule, window, observed>>
       \/ \E above \in BOOLEAN :
            /\ step % GateInterval = 0
            /\ window' = Newest(Append(window, above), Consec)
            /\ observed' = Append(observed, <<step, above>>)
            /\ Fires("draw", Collapsed(window'))
    /\ UNCHANGED <<stop, critical, signalled, endVars, poolVars, budgetVars,
                   step, evalLast, kicks, diskVars, runVars>>

\* The round index of a step; none has been kicked before the first.
RoundOf(s) == IF s = NoStep THEN NoStep ELSE s \div EvalInterval

\* _maybe_kick_eval: the round index advancing is the kick.
Kick ==
    /\ pc = "kick" /\ pc' = "burst"
    /\ LET i == RoundOf(step)
       IN IF i > 0 /\ i > RoundOf(evalLast)
            THEN /\ evalLast' = step
                 /\ kicks' = [kicks EXCEPT ![i] = @ + 1]
            ELSE UNCHANGED <<evalLast, kicks>>
    /\ UNCHANGED <<flagVars, endVars, poolVars, budgetVars, step, window,
                   observed, diskVars, runVars>>

-----------------------------------------------------------------------------
(* The end of the process *)

\* Mutant: only a save leg inside step() makes a stop resumable.
FinalSave_Never ==
    /\ pc = "after" /\ pc' = "close"
    /\ UNCHANGED <<flagVars, endVars, poolVars, budgetVars, lineVars, diskVars, runVars>>

\* After the loop: a stop no save leg has served yet.
FinalSave ==
    /\ pc = "after" /\ pc' = "close"
    /\ IF stop /\ ~finalDone THEN Persist(step) ELSE UNCHANGED diskVars
    /\ UNCHANGED <<flagVars, endVars, poolVars, budgetVars, lineVars, runVars>>

\* compose_run decides what the end was; close_out drains and stops the pool.
CloseOut ==
    /\ pc = "close" /\ pc' = "terminal"
    /\ resumable' = (stop /\ ~Aborted)
    /\ UNCHANGED <<flagVars, raised, finalDone, terminal, code, poolVars,
                   budgetVars, lineVars, diskVars, runVars>>

\* A resumable stop skips the terminal battery.
TerminalEval ==
    /\ pc = "terminal" /\ pc' = "record"
    /\ IF resumable THEN terminal' = "skipped" ELSE terminal' \in {"ok", "broken"}
    /\ UNCHANGED <<flagVars, raised, finalDone, resumable, code, poolVars,
                   budgetVars, lineVars, diskVars, runVars>>

\* record_abort is set once: the disk's rule goes before the terminal round's.
RecordAborts ==
    /\ pc = "record" /\ pc' = "exit"
    /\ rule' = CASE rule # "none" -> rule
                 [] rule = "none" /\ critical -> "disk"
                 [] rule = "none" /\ ~critical ->
                      IF terminal = "broken" THEN "terminal" ELSE "none"
    /\ UNCHANGED <<running, stop, critical, signalled, endVars, poolVars,
                   budgetVars, lineVars, diskVars, runVars>>

\* main: an exception is rc 1, a fired rule its authored code.
Exit ==
    /\ pc = "exit"
    /\ Ends(IF raised THEN "raised" ELSE IF rule = "none" THEN "clean" ELSE rule)
    /\ UNCHANGED diskVars

Next ==
    \/ Launch \/ GameDone \/ Press \/ DiskCritical \/ GuardSignal \/ Die
    \/ Raise \/ LoopTest \/ CleanStop \/ ShutdownSave \/ Stall \/ Wait \/ Budget
    \/ BurstEnds \/ TrainStep \/ RefuseStep \/ PlyGate \/ DrawGate \/ Kick
    \/ FinalSave \/ CloseOut \/ TerminalEval \/ RecordAborts \/ Exit

Spec == Init /\ [][Next]_vars

-----------------------------------------------------------------------------
(* Properties *)

\* Type invariant, of the process and of what a resume takes back.
Observation == Nat \X BOOLEAN
Bundles == [step : 0 .. StopStep, rows : 0 .. Capacity, window : Seq(BOOLEAN),
            evalLast : Nat \cup {NoStep}, kicks : [Rounds -> Nat],
            observed : Seq(Observation)]

ControlTypes ==
    /\ pc \in {"down", "loop", "top", "burst", "ply", "gate", "kick", "after",
               "close", "terminal", "record", "exit"}
    /\ running \in BOOLEAN /\ stop \in BOOLEAN /\ critical \in BOOLEAN
    /\ signalled \in BOOLEAN /\ raised \in BOOLEAN /\ finalDone \in BOOLEAN
    /\ resumable \in BOOLEAN /\ ramp \in BOOLEAN
    /\ rule \in {"none", "ply", "draw", "disk", "terminal"}
    /\ terminal \in {"none", "ok", "broken", "skipped"}

DataTypes ==
    /\ games \in Nat /\ ticked \in Nat /\ trained \in 0 .. games /\ rows \in 0 .. Capacity
    /\ carry \in 0 .. Unit - 1 /\ budget \in 0 .. MaxBurst /\ due \in Nat
    /\ step \in 0 .. StopStep /\ evalLast \in Nat \cup {NoStep}
    /\ window \in Seq(BOOLEAN) /\ observed \in Seq(Observation)
    /\ kicks \in [Rounds -> Nat]
    /\ bundle \in Bundles /\ ckpt \in 0 .. StopStep \cup {NoStep}

TypeOK == ControlTypes /\ DataTypes

\* The bundle on disk resumes exactly the state the process held.
BundleIsLive ==
    /\ bundle.step = step
    /\ bundle.window = window
    /\ bundle.evalLast = evalLast

\* Exit code 0 says "done" to whoever relaunches: the run has its final
\* checkpoint, or the stop left a bundle of the very state it stopped in.  A
\* critical disk never exits 0, and never hides behind a broken terminal round.
ExitTruthful ==
    pc = "down" =>
      /\ code = "clean" => ckpt = step /\ (step >= StopStep \/ BundleIsLive)
      /\ code \in {"clean", "terminal"} => ~critical

\* Over stops, deaths and resumes, each evaluation round of the lineage is
\* kicked once: none twice, and none of a step passed by is missing.
RoundsOnce ==
    \A i \in Rounds :
      /\ kicks[i] <= 1
      /\ pc \in {"loop", "top", "burst"} /\ i * EvalInterval < step => kicks[i] = 1

\* The lineage's n-th observation completes a run of Consec above the threshold.
CollapsedAt(n) ==
    observed[n][1] >= MinStep /\ \A i \in n - Consec + 1 .. n : observed[i][2]

\* The draw-rate window is the lineage's last observations whatever restarts
\* lie between them, and only Consec of them in a row, all above, fire the rule.
AbortWindow ==
    /\ window = [i \in 1 .. Len(window) |->
                   observed[Len(observed) - Len(window) + i][2]]
    /\ Len(window) = AtMost(Len(observed), Consec)
    /\ rule = "draw" => \E n \in Consec .. Len(observed) : CollapsedAt(n)

\* However the games clump into bursts, a fixed ratio grants what it says, to
\* the fraction of a step; a ramped one never grants more.
RatioHolds ==
    IF ramp THEN due * RatioDen <= trained * RatioNum
            ELSE due = (trained * RatioNum) \div RatioDen

\* step.py: "consec * gate_interval bounds a fire's span from below".  The code
\* does not keep this, and no run checks it (README, Observations): a refused
\* step leaves the step at the gate's boundary, and the next one observes again.
SpanBounded ==
    rule = "draw" =>
      \E n \in Consec .. Len(observed) :
        /\ CollapsedAt(n)
        /\ observed[n][1] - observed[n - Consec + 1][1] >= (Consec - 1) * GateInterval

\* drain.py: "the terminal battery runs when the run ENDS".  The code does not
\* keep this, and no run checks it (README, Observations): a signal after the
\* clean completion's save makes a complete run's end a resumable stop.
TerminalRuns == pc = "down" /\ code = "clean" /\ step >= StopStep => terminal = "ok"

=============================================================================
