------------------------ MODULE StepCoordinatorProofs ------------------------
(***************************************************************************)
(* Theorems about the trainer's loop, for every cadence, budget ratio,     *)
(* ring capacity and any number of games, refused steps and launches.      *)
(***************************************************************************)
EXTENDS StepCoordinator, SequenceTheorems, TLAPS

\* Where the trainer thread is past its loop, and where a step is under way.
Closing == {"close", "terminal", "record", "exit"}
InStep == {"ply", "gate", "kick"}

-----------------------------------------------------------------------------
(* Types *)

LEMMA ConstantTypes ==
  /\ StopStep \in Nat /\ EvalInterval \in Nat /\ EvalInterval > 0 /\ Interval \in Nat
  /\ GateInterval \in Nat /\ GateInterval > 0
  /\ Consec \in Nat /\ Consec > 0 /\ MaxBurst \in Nat /\ Capacity \in Nat /\ Capacity > 0
  /\ RatioDen \in Nat /\ RatioDen > 0 /\ RatioNum \in Nat /\ RatioNum >= RatioDen
  /\ MinStep \in Nat /\ MaxLaunches \in Nat /\ Ramps \subseteq BOOLEAN
BY IntervalsAssumption, RatioAssumption, BoundsAssumption

\* A product of naturals is one, and is positive when both are.
LEMMA Products ==
  ASSUME NEW a \in Nat, NEW b \in Nat
  PROVE  a * b \in Nat /\ (a > 0 /\ b > 0 => a * b > 0)
OBVIOUS

LEMMA Remainders ==
  ASSUME NEW t \in Nat, NEW u \in Nat, u > 0
  PROVE  /\ t \div u \in Nat /\ t % u \in 0 .. u - 1
         /\ t = (t \div u) * u + (t % u)
OBVIOUS

LEMMA Distributes ==
  ASSUME NEW a \in Nat, NEW b \in Nat, NEW c \in Nat
  PROVE  (a + b) * c = a * c + b * c /\ a * (b * c) = (a * b) * c
OBVIOUS

LEMMA Monotone ==
  ASSUME NEW a \in Nat, NEW b \in Nat, NEW c \in Nat
  PROVE  /\ a <= b => a * c <= b * c /\ c * a <= c * b
         /\ a < b /\ c > 0 => a * c < b * c
         /\ a < b => a * c + c <= b * c
<1>1. ASSUME NEW d \in Nat, b = a + d
      PROVE  b * c = a * c + d * c /\ c * b = c * a + c * d /\ d * c \in Nat /\ c * d \in Nat
  BY <1>1
<1>2. ASSUME NEW d \in Nat, d > 0 PROVE d * c >= c
  <2>1. d * c = (d - 1) * c + c /\ (d - 1) * c \in Nat
    BY <1>2
  <2> QED BY <2>1
<1>3. CASE a <= b
  <2>1. b - a \in Nat /\ b = a + (b - a) /\ a * c \in Nat /\ c * a \in Nat
    BY <1>3
  <2> DEFINE d == b - a
  <2>2. b * c = a * c + d * c /\ c * b = c * a + c * d /\ d * c \in Nat /\ c * d \in Nat
    BY <1>1, <2>1
  <2>3. a < b => d > 0
    BY <2>1
  <2>4. d > 0 => d * c >= c
    BY <1>2, <2>1
  <2> HIDE DEF d
  <2> QED BY <1>3, <2>1, <2>2, <2>3, <2>4
<1>4. CASE ~(a <= b)
  BY <1>4
<1> QED BY <1>3, <1>4

\* Division with remainder is unique.
LEMMA Quotients ==
  ASSUME NEW a \in Nat, NEW b \in Nat, NEW u \in Nat, NEW c \in 0 .. u - 1, NEW d \in 0 .. u - 1,
         a * u + c = b * u + d
  PROVE  a = b
<1>1. a * u \in Nat /\ b * u \in Nat
  BY Products
<1>2. ~(a < b)
  BY <1>1, Monotone
<1>3. ~(b < a)
  BY <1>1, Monotone
<1> QED BY <1>2, <1>3

LEMMA UnitType == Unit \in Nat /\ Unit > 0
BY ConstantTypes, Products DEF Unit

LEMMA NewestType ==
  ASSUME NEW S, NEW w \in Seq(S), NEW n \in Nat, n > 0
  PROVE  /\ Newest(w, n) \in Seq(S)
         /\ Len(Newest(w, n)) = AtMost(Len(w), n)
         /\ \A i \in 1 .. Len(Newest(w, n)) :
              Newest(w, n)[i] = w[Len(w) - Len(Newest(w, n)) + i]
<1>1. CASE Len(w) <= n
  BY <1>1 DEF Newest, AtMost
<1>2. CASE ~(Len(w) <= n)
  <2>1. /\ Newest(w, n) = SubSeq(w, Len(w) - n + 1, Len(w))
        /\ Len(w) - n + 1 \in 1 .. Len(w) /\ Len(w) \in Nat
    BY <1>2 DEF Newest
  <2> QED BY <1>2, <2>1 DEF AtMost
<1> QED BY <1>1, <1>2

\* A save writes a bundle, or leaves the one there.
LEMMA PersistTypes ==
  ASSUME DataTypes, NEW s \in 0 .. StopStep, Persist(s)
  PROVE  bundle' \in Bundles /\ ckpt' \in 0 .. StopStep \cup {NoStep}
BY DEF DataTypes, Persist, Snapshot, Bundles

LEMMA InitTypes == Init => TypeOK
<1> SUFFICES ASSUME Init PROVE TypeOK
  OBVIOUS
<1>1. NoBundle \in Bundles
  <2>1. <<>> \in Seq(BOOLEAN) /\ <<>> \in Seq(Observation)
    BY EmptySeq
  <2> QED BY <2>1, ConstantTypes DEF NoBundle, Bundles
<1>2. NoBundle.kicks \in [Rounds -> Nat] /\ <<>> \in Seq(BOOLEAN) /\ <<>> \in Seq(Observation)
  BY <1>1, EmptySeq DEF Bundles
<1>3. 0 \in 0 .. Unit - 1 /\ 0 \in 0 .. MaxBurst /\ 0 \in 0 .. StopStep /\ 0 \in 0 .. Capacity
  BY ConstantTypes, UnitType
<1>4. ramp \in BOOLEAN
  BY ConstantTypes DEF Init
<1>5. 0 \in 0 .. 0 /\ 0 \in Nat
  OBVIOUS
<1> QED BY <1>1, <1>2, <1>3, <1>4, <1>5, Zenon DEF Init, TypeOK, ControlTypes, DataTypes

\* What a save and a step of the loop read and write stays beside the loop.
LoopState == <<ticked, trained, carry, budget, due, step, window, evalLast, kicks, observed,
               bundle, ramp>>

\* The pool, signals, the disk guard, the ways to die.
Beside == GameDone \/ Press \/ DiskCritical \/ GuardSignal \/ Die \/ Raise \/ Stall

LEMMA BesideKeeps ==
  Beside => UNCHANGED LoopState
BY DEF Beside, GameDone, Press, DiskCritical, GuardSignal, Die, Raise, Stall, Handle, Ends,
       budgetVars, lineVars, diskVars, runVars, LoopState

LEMMA TypesBeside ==
  ASSUME TypeOK, Beside
  PROVE  TypeOK'
<1>1. UNCHANGED LoopState
  BY BesideKeeps
<1>2. games' \in Nat /\ games' >= games /\ rows' \in 0 .. Capacity
  BY ConstantTypes
     DEF TypeOK, DataTypes, Beside, GameDone, Press, DiskCritical, GuardSignal, Die, Raise, Stall,
         Handle, Ends, poolVars
<1>3. ckpt' \in 0 .. StopStep \cup {NoStep}
  BY DEF TypeOK, DataTypes, Beside, GameDone, Press, DiskCritical, GuardSignal, Die, Raise, Stall,
         Handle, diskVars
<1>4. trained \in 0 .. games' /\ carry \in 0 .. Unit - 1
  BY <1>2 DEF TypeOK, DataTypes
<1>5. DataTypes'
  BY <1>1, <1>2, <1>3, <1>4 DEF TypeOK, DataTypes, LoopState, Unit
<1>6. ControlTypes'
  <2> USE DEF TypeOK, ControlTypes
  <2>1. CASE GameDone
    BY <2>1, SMT DEF GameDone, flagVars, endVars, runVars
  <2>2. ASSUME NEW c \in BOOLEAN, Handle(c) PROVE ControlTypes'
    <3>1. CASE stop
      <4>1. pc' = "down" /\ UNCHANGED <<flagVars, raised, finalDone, resumable, terminal, runVars>>
        BY <2>2, <3>1, Zenon DEF Handle, Ends
      <4> QED BY <4>1 DEF flagVars, runVars
    <3>2. CASE ~stop
      <4>1. /\ stop' = TRUE /\ running' = FALSE /\ signalled' = c
            /\ UNCHANGED <<pc, rule, critical, endVars, runVars>>
        BY <2>2, <3>2, Zenon DEF Handle
      <4>2. UNCHANGED <<raised, finalDone, resumable, terminal, ramp>>
        BY <4>1 DEF endVars, runVars
      <4>3. signalled' \in BOOLEAN
        BY <2>2, <4>1, Zenon
      <4> QED BY <4>1, <4>2, <4>3, Zenon
    <3> QED BY <3>1, <3>2
  <2>3. CASE Press
    <3>1. signalled \in BOOLEAN /\ Handle(signalled)
      BY <2>3, Zenon DEF Press
    <3> QED BY <3>1, <2>2, Zenon
  <2>4. CASE GuardSignal
    BY <2>4, <2>2, Zenon DEF GuardSignal
  <2>5. CASE DiskCritical
    BY <2>5 DEF DiskCritical, endVars, runVars
  <2>6. CASE Die
    BY <2>6 DEF Die, Ends, flagVars, runVars
  <2>7. CASE Stall
    BY <2>7 DEF Stall, Ends, flagVars, runVars
  <2>8. CASE Raise
    BY <2>8, SMT DEF Raise, flagVars, runVars
  <2> QED BY <2>1, <2>3, <2>4, <2>5, <2>6, <2>8, <2>7, Zenon DEF Beside
<1> QED BY <1>5, <1>6 DEF TypeOK

\* The loop's steps that train nothing, and the end of the process.
Turns == LoopTest \/ CleanStop \/ ShutdownSave \/ Wait \/ BurstEnds \/ PlyGate
Leaves == FinalSave \/ CloseOut \/ TerminalEval \/ RecordAborts \/ Exit

LEMMA TypesTurns ==
  ASSUME TypeOK, Turns
  PROVE  TypeOK'
<1> USE DEF TypeOK
<1>1. /\ UNCHANGED <<games, rows, trained, carry, due, step, window, evalLast, kicks, observed, ramp>>
      /\ ticked' \in Nat /\ budget' \in 0 .. MaxBurst
  BY ConstantTypes DEF Turns, LoopTest, CleanStop, ShutdownSave, Wait, BurstEnds, PlyGate, DataTypes,
         poolVars, budgetVars, lineVars, runVars
<1>2. bundle' \in Bundles /\ ckpt' \in 0 .. StopStep \cup {NoStep}
  <2>1. CASE ShutdownSave
    BY <2>1, PersistTypes DEF ShutdownSave, DataTypes
  <2>2. CASE ~ShutdownSave
    BY <2>2 DEF Turns, LoopTest, CleanStop, Wait, BurstEnds, PlyGate, DataTypes, diskVars
  <2> QED BY <2>1, <2>2
<1>3. DataTypes'
  BY <1>1, <1>2 DEF DataTypes, Unit
<1>4. ControlTypes'
  <2> USE DEF ControlTypes
  <2>1. CASE LoopTest
    BY <2>1 DEF LoopTest, flagVars, endVars, runVars
  <2>2. CASE CleanStop
    BY <2>2 DEF CleanStop, runVars
  <2>3. CASE ShutdownSave
    BY <2>3 DEF ShutdownSave, runVars
  <2>4. CASE Wait
    BY <2>4 DEF Wait, flagVars, endVars, runVars
  <2>5. CASE BurstEnds
    BY <2>5 DEF BurstEnds, flagVars, endVars, runVars
  <2>6. CASE PlyGate
    BY <2>6 DEF PlyGate, Fires, endVars, runVars
  <2> QED BY <2>1, <2>2, <2>3, <2>4, <2>5, <2>6 DEF Turns
<1> QED BY <1>3, <1>4

LEMMA TypesLeaves ==
  ASSUME TypeOK, Leaves
  PROVE  TypeOK'
<1> USE DEF TypeOK
<1>1. UNCHANGED <<games, rows, ticked, trained, carry, budget, due, step, window, evalLast, kicks,
                  observed, ramp>>
  BY DEF Leaves, FinalSave, CloseOut, TerminalEval, RecordAborts, Exit, Ends,
         poolVars, budgetVars, lineVars, runVars
<1>2. bundle' \in Bundles /\ ckpt' \in 0 .. StopStep \cup {NoStep}
  <2>1. CASE FinalSave
    BY <2>1, PersistTypes DEF FinalSave, DataTypes, diskVars
  <2>2. CASE ~FinalSave
    BY <2>2 DEF Leaves, CloseOut, TerminalEval, RecordAborts, Exit, DataTypes, diskVars
  <2> QED BY <2>1, <2>2
<1>3. DataTypes'
  BY <1>1, <1>2 DEF DataTypes, Unit
<1>4. ControlTypes'
  <2> USE DEF ControlTypes
  <2>1. CASE FinalSave
    BY <2>1 DEF FinalSave, flagVars, endVars, runVars
  <2>2. CASE CloseOut
    BY <2>2 DEF CloseOut, Aborted, flagVars, runVars
  <2>3. CASE TerminalEval
    BY <2>3 DEF TerminalEval, flagVars, runVars
  <2>4. CASE RecordAborts
    BY <2>4 DEF RecordAborts, endVars, runVars
  <2>5. CASE Exit
    BY <2>5 DEF Exit, Ends, flagVars, runVars
  <2> QED BY <2>1, <2>2, <2>3, <2>4, <2>5 DEF Leaves
<1> QED BY <1>3, <1>4

\* The budget of a burst, and what is carried to the next one.
LEMMA TypesBudget ==
  ASSUME TypeOK, Budget
  PROVE  TypeOK'
<1> USE DEF TypeOK
<1> DEFINE total == carry + (games - trained) * PerGame
           want == total \div Unit
           asked == IF ramp THEN want ELSE AtLeast(want, 1)
<1>1. total \in Nat
  <2>1. PerGame \in Nat
    BY ConstantTypes, Products DEF PerGame, DataTypes
  <2>2. games - trained \in Nat /\ carry \in Nat
    BY DEF DataTypes
  <2>3. (games - trained) * PerGame \in Nat
    BY <2>1, <2>2, Products
  <2> QED BY <2>2, <2>3
<1>2. want \in Nat /\ Remainder(total) \in 0 .. Unit - 1
  BY <1>1, UnitType, Remainders DEF Remainder
<1> HIDE DEF total, want
<1>3. asked \in Nat /\ AtMost(asked, MaxBurst) \in 0 .. MaxBurst
  BY <1>2, ConstantTypes DEF AtLeast, AtMost
<1> HIDE DEF asked
<1>4. /\ budget' = AtMost(asked, MaxBurst) /\ carry' = Remainder(total) /\ due' = due + asked
      /\ ticked' = games /\ trained' = games
      /\ UNCHANGED <<games, rows, step, window, evalLast, kicks, observed, bundle, ckpt>>
  BY DEF Budget, total, want, asked, poolVars, lineVars, diskVars
<1>5. DataTypes'
  BY <1>2, <1>3, <1>4 DEF DataTypes, Unit
<1>6. ControlTypes'
  BY DEF Budget, ControlTypes, flagVars, endVars, runVars
<1> QED BY <1>5, <1>6

\* One step of a burst, and what follows it.
LEMMA TypesStep ==
  ASSUME TypeOK, TrainStep \/ RefuseStep
  PROVE  TypeOK'
<1> USE DEF TypeOK
<1>1. /\ pc = "burst" /\ budget > 0 /\ step < StopStep /\ budget' = budget - 1 /\ pc' = "ply"
      /\ UNCHANGED <<running, stop, rule, critical, signalled, raised, finalDone, resumable, terminal,
                     games, rows, ticked, trained, carry, due, window, evalLast, kicks, observed, ramp>>
  BY DEF TrainStep, RefuseStep, Steps, flagVars, endVars, poolVars
<1>2. /\ step' \in 0 .. StopStep /\ bundle' \in Bundles
      /\ ckpt' \in 0 .. StopStep \cup {NoStep}
  <2>1. CASE TrainStep
    <3>1. step' \in 0 .. StopStep
      BY <1>1, <2>1, ConstantTypes DEF TrainStep, DataTypes
    <3> QED BY <2>1, <3>1, PersistTypes DEF TrainStep, DataTypes, diskVars
  <2>2. CASE RefuseStep
    BY <2>2 DEF RefuseStep, DataTypes, diskVars
  <2> QED BY <2>1, <2>2
<1>3. budget' \in 0 .. MaxBurst
  BY <1>1, ConstantTypes DEF DataTypes
<1>4. DataTypes'
  BY <1>1, <1>2, <1>3 DEF DataTypes, Unit
<1>5. ControlTypes'
  BY <1>1 DEF ControlTypes
<1> QED BY <1>4, <1>5

LEMMA TypesDrawGate ==
  ASSUME TypeOK, DrawGate
  PROVE  TypeOK'
<1> USE DEF TypeOK
<1>1. window' \in Seq(BOOLEAN) /\ observed' \in Seq(Observation)
  <2>1. CASE UNCHANGED <<window, observed>>
    BY <2>1 DEF DataTypes
  <2>2. ASSUME NEW above \in BOOLEAN, window' = Newest(Append(window, above), Consec),
               observed' = Append(observed, <<step, above>>)
        PROVE  window' \in Seq(BOOLEAN) /\ observed' \in Seq(Observation)
    <3>1. Append(window, above) \in Seq(BOOLEAN)
      BY <2>2, AppendProperties DEF DataTypes
    <3>2. <<step, above>> \in Observation
      BY DEF Observation, DataTypes
    <3>3. observed' \in Seq(Observation)
      BY <2>2, <3>2, AppendProperties DEF DataTypes
    <3> QED BY <2>2, <3>1, <3>3, NewestType, ConstantTypes
  <2> QED BY <2>1, <2>2 DEF DrawGate
<1>2. UNCHANGED <<games, rows, ticked, trained, carry, budget, due, step, evalLast, kicks, bundle,
                  ckpt, ramp>>
  BY DEF DrawGate, poolVars, budgetVars, diskVars, runVars
<1>3. DataTypes'
  BY <1>1, <1>2 DEF DataTypes, Unit
<1>4. ControlTypes'
  <2>1. \/ UNCHANGED <<running, rule>>
        \/ \E yes : Fires("draw", yes)
    BY DEF DrawGate
  <2>2. running' \in {running, FALSE} /\ rule' \in {rule, "draw"}
    BY <2>1 DEF Fires
  <2>3. /\ pc' = "kick"
        /\ UNCHANGED <<stop, critical, signalled, raised, finalDone, resumable, terminal, ramp>>
    BY DEF DrawGate, endVars, runVars
  <2> QED BY <2>2, <2>3 DEF ControlTypes
<1> QED BY <1>3, <1>4

LEMMA TypesKick ==
  ASSUME TypeOK, Kick
  PROVE  TypeOK'
<1> USE DEF TypeOK
<1>1. evalLast' \in Nat \cup {NoStep} /\ kicks' \in [Rounds -> Nat]
  BY DEF Kick, DataTypes
<1>2. UNCHANGED <<games, rows, ticked, trained, carry, budget, due, step, window, observed, bundle,
                  ckpt>>
  BY DEF Kick, poolVars, budgetVars, diskVars
<1>3. DataTypes'
  BY <1>1, <1>2 DEF DataTypes, Unit
<1>4. ControlTypes'
  BY DEF Kick, ControlTypes, flagVars, endVars, runVars
<1> QED BY <1>3, <1>4

LEMMA TypesLaunch ==
  ASSUME TypeOK, Launch
  PROVE  TypeOK'
<1> USE DEF TypeOK
<1>1. /\ step' \in 0 .. StopStep /\ rows' \in 0 .. Capacity /\ window' \in Seq(BOOLEAN)
      /\ evalLast' \in Nat \cup {NoStep} /\ kicks' \in [Rounds -> Nat]
      /\ observed' \in Seq(Observation)
  BY DEF Launch, Restore, DataTypes, Bundles
<1>2. 0 \in 0 .. Unit - 1 /\ 0 \in 0 .. MaxBurst /\ 0 \in 0 .. 0 /\ 0 \in Nat
  BY ConstantTypes, UnitType
<1>3. /\ games' = 0 /\ ticked' = 0 /\ trained' = 0 /\ carry' = 0 /\ budget' = 0 /\ due' = 0
      /\ bundle' = bundle /\ ckpt' = ckpt
  BY DEF Launch, diskVars
<1>4. DataTypes'
  BY <1>1, <1>2, <1>3 DEF DataTypes, Unit
<1>5. ControlTypes'
  BY DEF Launch, ControlTypes
<1> QED BY <1>4, <1>5

LEMMA NextTypes == TypeOK /\ [Next]_vars => TypeOK'
<1> SUFFICES ASSUME TypeOK, [Next]_vars PROVE TypeOK'
  OBVIOUS
<1>1. CASE UNCHANGED vars
  BY <1>1 DEF vars, flagVars, endVars, poolVars, budgetVars, lineVars, diskVars, runVars,
              TypeOK, ControlTypes, DataTypes, Unit
<1>2. CASE Next
  BY <1>2, TypesBeside, TypesTurns, TypesLeaves, TypesBudget, TypesStep, TypesDrawGate, TypesKick,
     TypesLaunch DEF Next, Beside, Turns, Leaves
<1> QED BY <1>1, <1>2

\* Every variable keeps its type, in the process and in its bundle: a resume
\* finds a window, a kick record and a step it can take back.
THEOREM CoordinatorTypes == Spec => []TypeOK
BY InitTypes, NextTypes, PTL DEF Spec

-----------------------------------------------------------------------------
(* The exit code *)

\* What a save leg leaves: the final checkpoint, or a bundle of this state,
\* unless the run is aborted and so cannot exit 0.
Served == ckpt = step /\ (step >= StopStep \/ Aborted \/ BundleIsLive)

ExitInv ==
    /\ pc = "after" => ~running
    /\ ~running /\ pc # "down" => stop \/ rule # "none" \/ finalDone
    /\ finalDone => ~running /\ pc \in {"loop", "after", "down"} \cup Closing
    /\ finalDone => Served
    /\ pc \in Closing /\ ~raised => Served \/ Aborted
    /\ pc = "exit" /\ rule = "none" => ~critical
    /\ rule = "terminal" => pc \in {"exit", "down"} /\ ~critical
    /\ ExitTruthful

LEMMA InitExit == Init => ExitInv
BY DEF Init, ExitInv, Closing, ExitTruthful

\* Nothing here is saved or trained: a state served stays so.
LEMMA ServedStays ==
  ASSUME UNCHANGED <<step, window, evalLast, bundle, ckpt>>, Aborted => Aborted'
  PROVE  (Served => Served') /\ (BundleIsLive => BundleIsLive')
BY DEF Served, BundleIsLive

\* A save leg serves the state it runs in.
LEMMA PersistServes ==
  ASSUME Persist(step), UNCHANGED <<step, window, evalLast, rule, critical>>
  PROVE  Served'
BY DEF Persist, Served, Snapshot, BundleIsLive, Aborted

LEMMA ExitBeside ==
  ASSUME TypeOK, ExitInv, Beside
  PROVE  ExitInv'
<1> USE DEF TypeOK, ControlTypes, Closing
<1>1. UNCHANGED <<step, window, evalLast, bundle, rule, finalDone>>
  BY BesideKeeps DEF LoopState, Beside, GameDone, Press, DiskCritical, GuardSignal, Die, Raise, Stall,
     Handle, Ends, flagVars, endVars
<1>2. CASE GameDone
  <2>1. UNCHANGED <<pc, running, stop, rule, critical, raised, finalDone, code, ckpt>>
    BY <1>2 DEF GameDone, flagVars, endVars, diskVars
  <2> QED BY <1>1, <2>1, ServedStays DEF ExitInv, ExitTruthful, Aborted
<1>3. ASSUME NEW c \in BOOLEAN, pc # "down", Handle(c) PROVE ExitInv'
  <2>1. CASE stop
    BY <1>1, <1>3, <2>1, ServedStays
       DEF Handle, Ends, flagVars, diskVars, ExitInv, ExitTruthful, Aborted
  <2>2. CASE ~stop
    <3>1. /\ stop' = TRUE /\ running' = FALSE
          /\ UNCHANGED <<pc, rule, critical, raised, finalDone, code, ckpt>>
      BY <1>3, <2>2 DEF Handle, endVars, diskVars
    <3> QED BY <1>1, <1>3, <3>1, ServedStays DEF ExitInv, ExitTruthful, Aborted
  <2> QED BY <2>1, <2>2
<1>4. CASE Press
  BY <1>3, <1>4 DEF Press
<1>5. CASE GuardSignal
  BY <1>3, <1>5 DEF GuardSignal
<1>6. CASE DiskCritical
  <2>1. /\ pc \notin {"down", "exit"} /\ critical' = TRUE
        /\ UNCHANGED <<pc, running, stop, rule, raised, finalDone, code, ckpt>>
    BY <1>6 DEF DiskCritical, endVars, diskVars
  <2> QED BY <1>1, <2>1, ServedStays DEF ExitInv, ExitTruthful, Aborted
<1>7. CASE Die
  BY <1>1, <1>7, ServedStays DEF Die, Ends, flagVars, diskVars, ExitInv, ExitTruthful, Aborted
<1>8. CASE Stall
  <2>1. pc = "top" /\ pc' = "down" /\ code' = "stalled" /\ UNCHANGED <<running, rule, critical, raised>>
    BY <1>8 DEF Stall, Trains, Ends, flagVars
  <2>2. ~finalDone
    BY <2>1 DEF ExitInv
  <2> QED BY <1>1, <2>1, <2>2 DEF ExitInv, ExitTruthful
<1>9. CASE Raise
  <2>1. /\ raised' = TRUE /\ pc' \in {"close", "record"} /\ pc \notin {"down", "exit"}
        /\ UNCHANGED <<running, stop, rule, critical, finalDone, ckpt>>
    BY <1>9 DEF Raise, flagVars, diskVars
  <2>2. Served => Served'
    BY <1>1, <2>1, ServedStays DEF Aborted
  <2>3. rule # "terminal"
    BY <2>1 DEF ExitInv
  <2>4. /\ ~running => stop \/ rule # "none" \/ finalDone
        /\ finalDone => ~running /\ Served
    BY <2>1 DEF ExitInv
  <2> HIDE DEF TypeOK, ControlTypes
  <2> QED BY <1>1, <2>1, <2>2, <2>3, <2>4 DEF ExitInv, ExitTruthful
<1> QED BY <1>2, <1>4, <1>5, <1>6, <1>7, <1>8, <1>9 DEF Beside

LEMMA ExitTurns ==
  ASSUME TypeOK, ExitInv, Turns
  PROVE  ExitInv'
<1> USE DEF TypeOK, ControlTypes, Closing
<1>1. CASE LoopTest
  <2>1. /\ pc = "loop" /\ pc' = (IF running THEN "top" ELSE "after")
        /\ UNCHANGED <<running, stop, rule, critical, raised, finalDone, step, window, evalLast, bundle,
                       ckpt>>
    BY <1>1 DEF LoopTest, flagVars, endVars, lineVars, diskVars
  <2> QED BY <2>1, ServedStays DEF ExitInv, ExitTruthful, Aborted
<1>2. CASE CleanStop
  BY <1>2 DEF CleanStop, lineVars, ExitInv, ExitTruthful, Served
<1>3. CASE ShutdownSave
  <2>1. Served'
    BY <1>3, PersistServes DEF ShutdownSave, lineVars
  <2> QED BY <1>3, <2>1 DEF ShutdownSave, ExitInv, ExitTruthful
<1>4. CASE Wait \/ BurstEnds
  <2>1. /\ pc \in {"top", "burst"} /\ pc' = "loop"
        /\ UNCHANGED <<running, stop, rule, critical, raised, finalDone>>
    BY <1>4 DEF Wait, Trains, BurstEnds, flagVars, endVars
  <2> QED BY <2>1 DEF ExitInv, ExitTruthful
<1>5. CASE PlyGate
  <2>1. /\ pc = "ply" /\ pc' = "gate" /\ UNCHANGED <<stop, critical, raised, finalDone>>
        /\ \/ UNCHANGED <<running, rule>>
           \/ rule' = "ply"
    BY <1>5 DEF PlyGate, Fires, endVars
  <2> QED BY <2>1 DEF ExitInv, ExitTruthful
<1> QED BY <1>1, <1>2, <1>3, <1>4, <1>5 DEF Turns

LEMMA ExitLeaves ==
  ASSUME TypeOK, ExitInv, Leaves
  PROVE  ExitInv'
<1> USE DEF TypeOK, ControlTypes, Closing
<1>1. UNCHANGED <<step, window, evalLast, finalDone, running, stop, critical>>
  BY DEF Leaves, FinalSave, CloseOut, TerminalEval, RecordAborts, Exit, Ends, flagVars, endVars, lineVars
<1>2. CASE FinalSave
  <2>1. pc = "after" /\ pc' = "close" /\ UNCHANGED <<rule, raised>>
    BY <1>2 DEF FinalSave, flagVars, endVars
  <2>2. CASE stop /\ ~finalDone
    <3>1. Served'
      BY <1>1, <1>2, <2>1, <2>2, PersistServes DEF FinalSave
    <3> QED BY <1>1, <2>1, <3>1 DEF ExitInv, ExitTruthful
  <2>3. CASE ~(stop /\ ~finalDone)
    <3>1. UNCHANGED <<bundle, ckpt>>
      BY <1>2, <2>3 DEF FinalSave, diskVars
    <3>2. finalDone \/ rule # "none"
      BY <2>1, <2>3 DEF ExitInv
    <3> QED BY <1>1, <2>1, <3>1, <3>2, ServedStays DEF ExitInv, ExitTruthful, Aborted
  <2> QED BY <2>2, <2>3
<1>3. CASE CloseOut \/ TerminalEval
  <2>1. /\ pc \in {"close", "terminal"} /\ pc' \in {"terminal", "record"}
        /\ UNCHANGED <<rule, raised, bundle, ckpt>>
    BY <1>3 DEF CloseOut, TerminalEval, flagVars, diskVars
  <2> QED BY <1>1, <2>1, ServedStays DEF ExitInv, ExitTruthful, Aborted
<1>4. CASE RecordAborts
  <2>1. pc = "record" /\ pc' = "exit" /\ UNCHANGED <<raised, bundle, ckpt>>
    BY <1>4 DEF RecordAborts, endVars, diskVars
  <2>2. /\ rule' # "none" \/ (rule = "none" /\ ~critical)
        /\ rule # "none" => rule' = rule
        /\ rule' = "terminal" => rule = "terminal" \/ ~critical
    BY <1>4 DEF RecordAborts
  <2>3. Aborted => Aborted'
    BY <1>1, <2>2 DEF Aborted
  <2> QED BY <1>1, <2>1, <2>2, <2>3, ServedStays DEF ExitInv, ExitTruthful
<1>5. CASE Exit
  <2>1. /\ pc = "exit" /\ pc' = "down" /\ UNCHANGED <<rule, raised, bundle, ckpt>>
        /\ code' = (IF raised THEN "raised" ELSE IF rule = "none" THEN "clean" ELSE rule)
    BY <1>5 DEF Exit, Ends, flagVars, diskVars
  <2>2. code' = "clean" => Served /\ ~Aborted
    BY <2>1 DEF ExitInv, Aborted
  <2>3. code' = "terminal" => ~critical
    BY <2>1 DEF ExitInv
  <2>4. ExitTruthful'
    BY <1>1, <2>1, <2>2, <2>3, ServedStays DEF ExitTruthful, Served, Aborted
  <2> QED BY <1>1, <2>1, <2>4, ServedStays DEF ExitInv, Aborted
<1> QED BY <1>2, <1>3, <1>4, <1>5 DEF Leaves

\* While a step is under way no leg of this launch has served anything yet.
LEMMA ExitSteps ==
  ASSUME TypeOK, ExitInv, Budget \/ TrainStep \/ RefuseStep \/ DrawGate \/ Kick
  PROVE  ExitInv'
<1> USE DEF TypeOK, ControlTypes, Closing
<1>1. /\ pc \in {"top", "burst"} \cup InStep /\ pc' \in {"burst"} \cup InStep
      /\ UNCHANGED <<stop, critical, raised, finalDone>>
  BY DEF Budget, Trains, TrainStep, RefuseStep, Steps, DrawGate, Kick, InStep, flagVars, endVars
<1>2. UNCHANGED <<running, rule>> \/ rule' = "draw"
  BY DEF Budget, TrainStep, RefuseStep, Steps, DrawGate, Fires, Kick, flagVars
<1> QED BY <1>1, <1>2 DEF InStep, ExitInv, ExitTruthful

LEMMA NextExit == TypeOK /\ ExitInv /\ [Next]_vars => ExitInv'
<1> SUFFICES ASSUME TypeOK, ExitInv, [Next]_vars PROVE ExitInv'
  OBVIOUS
<1>1. CASE UNCHANGED vars
  BY <1>1, ServedStays DEF vars, flagVars, endVars, lineVars, diskVars, ExitInv, ExitTruthful, Aborted
<1>2. CASE Launch
  BY <1>2 DEF Launch, ExitInv, ExitTruthful, Closing
<1> QED BY <1>1, <1>2, ExitBeside, ExitTurns, ExitLeaves, ExitSteps DEF Next, Beside, Turns, Leaves

\* Exit code 0 is the truth: the final checkpoint of a complete run, or a bundle
\* of the very state a stop left, whatever signals, aborts and a critical disk
\* came between the reads of the flags (run_training_loop, step, compose_run).
THEOREM ExitAlwaysTruthful == Spec => []ExitTruthful
<1>1. ExitInv => ExitTruthful
  BY DEF ExitInv
<1> QED BY CoordinatorTypes, InitExit, NextExit, <1>1, PTL DEF Spec

-----------------------------------------------------------------------------
(* The evaluation rounds *)

\* The last round kicked, 0 when none was.
LastRound(last) == IF last = NoStep THEN 0 ELSE last \div EvalInterval

\* Rounds are kicked in their order, each once.
KickedUpTo(last, k) == k = [i \in Rounds |-> IF i <= LastRound(last) THEN 1 ELSE 0]

\* Where the loop stands between two steps.
Rests == {"loop", "top", "burst", "after"}

\* Between two steps the next round's boundary is not reached, but by a bundle
\* published inside the step that reached it, and by who resumes that bundle.
Boundary(last) == (LastRound(last) + 1) * EvalInterval
Held(last, s) == s <= Boundary(last) /\ (s = Boundary(last) => Interval > 0 /\ s % Interval = 0)

RoundInv ==
    /\ KickedUpTo(evalLast, kicks) /\ KickedUpTo(bundle.evalLast, bundle.kicks)
    /\ Held(bundle.evalLast, bundle.step)
    /\ pc \in Rests => Held(evalLast, step)
    /\ pc \in InStep => step <= Boundary(evalLast) + 1

LEMMA BoundaryType ==
  ASSUME NEW last \in Nat \cup {NoStep}
  PROVE  LastRound(last) \in Nat /\ Boundary(last) \in Nat /\ Boundary(last) > 0
<1>1. LastRound(last) \in Nat
  BY ConstantTypes, Remainders DEF LastRound
<1> QED BY <1>1, ConstantTypes, Products DEF Boundary

\* At most one step past a boundary, the step's round is the boundary's.
LEMMA RoundAtBoundary ==
  ASSUME NEW s \in Nat, NEW l \in Nat, NEW e \in Nat, e > 1, s <= (l + 1) * e + 1
  PROVE  /\ s >= (l + 1) * e => s \div e = l + 1
         /\ s < (l + 1) * e => s \div e <= l
         /\ (l + 1 + 1) * e > (l + 1) * e + 1
<1> DEFINE q == s \div e
           r == s % e
           m == l + 1
<1>1. q \in Nat /\ r \in 0 .. e - 1 /\ s = q * e + r
  BY Remainders
<1>2. m \in Nat /\ m * e \in Nat /\ q * e \in Nat /\ (m + 1) * e = m * e + e
  <2>1. (m + 1) * e = m * e + 1 * e
    BY Distributes
  <2> QED BY <1>1, <2>1, Products
<1> HIDE DEF q, r
<1>3. ~(m < q)
  <2>1. m < q => m * e + e <= q * e
    BY <1>1, Monotone
  <2> HIDE DEF m
  <2> QED BY <1>1, <1>2, <2>1 DEF m
<1>4. q < m => q * e + e <= m * e
  BY <1>1, Monotone
<1>5. q = m => s >= m * e
  BY <1>1, <1>2
<1> QED BY <1>1, <1>2, <1>3, <1>4, <1>5 DEF q

LEMMA RoundsType == \A i \in Rounds : i \in Nat /\ i > 0
<1>1. StopStep \div EvalInterval \in Nat
  BY ConstantTypes, Remainders
<1> QED BY <1>1 DEF Rounds

\* Two steps in a row are not both multiples of an interval above 1.
LEMMA NotBoth ==
  ASSUME NEW s \in Nat, NEW u \in Nat, u > 1, s % u = 0
  PROVE  (s + 1) % u # 0
<1>1. /\ s \div u \in Nat /\ s = (s \div u) * u + (s % u)
      /\ (s + 1) \div u \in Nat /\ s + 1 = ((s + 1) \div u) * u + ((s + 1) % u)
  BY Remainders
<1> DEFINE q == s \div u
           p == (s + 1) \div u
<1>2. q \in Nat /\ p \in Nat /\ s = q * u
  BY <1>1
<1> SUFFICES ASSUME (s + 1) % u = 0 PROVE FALSE
  OBVIOUS
<1>3. q * u + 1 = p * u + 0
  BY <1>1, <1>2
<1> HIDE DEF q, p
<1>4. q = p
  BY <1>2, <1>3, Quotients
<1> QED BY <1>2, <1>3, <1>4, Products

LEMMA InitRounds == Init => RoundInv
<1> SUFFICES ASSUME Init PROVE RoundInv
  OBVIOUS
<1>1. /\ evalLast = NoStep /\ bundle.evalLast = NoStep /\ bundle.step = 0 /\ pc = "down"
      /\ kicks = [i \in Rounds |-> 0] /\ bundle.kicks = [i \in Rounds |-> 0]
  BY DEF Init, NoBundle
<1>2. KickedUpTo(NoStep, [i \in Rounds |-> 0])
  <2>1. \A i \in Rounds : i \in Nat /\ ~(i <= 0)
    BY RoundsType
  <2>2. [i \in Rounds |-> 0] = [i \in Rounds |-> IF i <= 0 THEN 1 ELSE 0]
    BY <2>1
  <2> QED BY <2>2 DEF KickedUpTo, LastRound
<1>3. Held(NoStep, 0)
  <2>1. Boundary(NoStep) \in Nat /\ Boundary(NoStep) > 0
    BY BoundaryType
  <2> QED BY <2>1 DEF Held
<1> QED BY <1>1, <1>2, <1>3 DEF RoundInv, Rests, InStep

\* The kick after a step is of the one round that is due, or there is none.
LEMMA RoundsKick ==
  ASSUME TypeOK, RoundInv, Kick, EvalInterval > 1
  PROVE  RoundInv'
<1> USE DEF TypeOK, DataTypes
<1> DEFINE l == LastRound(evalLast)
           i == step \div EvalInterval
<1>1. step \in Nat /\ step <= StopStep /\ l \in Nat /\ Boundary(evalLast) = (l + 1) * EvalInterval
  <2>1. evalLast \in Nat \cup {NoStep}
    OBVIOUS
  <2>2. l \in Nat
    BY <2>1, BoundaryType
  <2> QED BY <2>2, ConstantTypes DEF Boundary
<1>2. step <= (l + 1) * EvalInterval + 1
  <2>1. step <= Boundary(evalLast) + 1
    BY DEF RoundInv, Kick, InStep
  <2> QED BY <1>1, <2>1
<1>3. /\ pc' = "burst" /\ UNCHANGED <<step, bundle>>
  BY DEF Kick, diskVars
<1>4. /\ step >= (l + 1) * EvalInterval => i = l + 1
      /\ step < (l + 1) * EvalInterval => i <= l
      /\ (l + 1 + 1) * EvalInterval > (l + 1) * EvalInterval + 1
  BY <1>1, <1>2, ConstantTypes, RoundAtBoundary
<1>5. i \in Nat /\ (i > 0 => i \in Rounds)
  <2>1. i \in Nat /\ step = i * EvalInterval + (step % EvalInterval) /\ step % EvalInterval \in Nat
    BY <1>1, ConstantTypes, Remainders
  <2> DEFINE q == StopStep \div EvalInterval
  <2>2. q \in Nat /\ StopStep = q * EvalInterval + (StopStep % EvalInterval)
        /\ StopStep % EvalInterval \in 0 .. EvalInterval - 1
    BY ConstantTypes, Remainders
  <2> HIDE DEF q, i
  <2>3. q < i => q * EvalInterval + EvalInterval <= i * EvalInterval
    BY <2>1, <2>2, ConstantTypes, Monotone
  <2>4. q * EvalInterval \in Nat /\ i * EvalInterval \in Nat
    BY <2>1, <2>2, ConstantTypes, Products
  <2>5. ~(q < i)
    <3> DEFINE qe == q * EvalInterval
               ie == i * EvalInterval
    <3>1. step >= ie /\ StopStep < qe + EvalInterval /\ qe \in Nat /\ ie \in Nat
      BY <1>1, <2>1, <2>2, <2>4, ConstantTypes
    <3>2. q < i => qe + EvalInterval <= ie
      BY <2>3
    <3> HIDE DEF qe, ie
    <3> QED BY <1>1, <3>1, <3>2, ConstantTypes
  <2>6. Rounds = 1 .. q
    BY DEF Rounds, q
  <2> QED BY <2>1, <2>2, <2>5, <2>6
<1>6. i > 0 /\ i > RoundOf(evalLast) <=> i > l
  BY <1>1, <1>5 DEF RoundOf, LastRound, NoStep
<1>7. CASE i > l
  <2>1. /\ evalLast' = step /\ kicks' = [kicks EXCEPT ![i] = @ + 1]
    BY <1>6, <1>7 DEF Kick, RoundOf, NoStep
  <2>2. i = l + 1 /\ LastRound(step) = l + 1 /\ i \in Rounds
    <3>1. LastRound(step) = i
      BY <1>1 DEF LastRound, NoStep
    <3> DEFINE b == (l + 1) * EvalInterval
    <3>2. (step >= b => i = l + 1) /\ (step < b => i <= l) /\ b \in Nat
      BY <1>1, <1>4, ConstantTypes, Products
    <3> HIDE DEF b, i, l
    <3> QED BY <1>1, <1>5, <1>7, <3>1, <3>2
  <2> HIDE DEF i, l
  <2>3. KickedUpTo(evalLast', kicks')
    <3>1. kicks = [j \in Rounds |-> IF j <= l THEN 1 ELSE 0]
      BY DEF RoundInv, KickedUpTo, l
    <3>2. kicks' = [j \in Rounds |-> IF j = i THEN kicks[j] + 1 ELSE kicks[j]]
      BY <2>1, <3>1
    <3>3. kicks' = [j \in Rounds |-> IF j <= l + 1 THEN 1 ELSE 0]
      BY <1>1, <2>2, <3>1, <3>2, RoundsType
    <3>4. LastRound(evalLast') = l + 1
      BY <2>1, <2>2
    <3> QED BY <3>3, <3>4 DEF KickedUpTo
  <2>4. Held(evalLast', step')
    <3>1. Boundary(step) = (l + 1 + 1) * EvalInterval /\ Boundary(step) \in Nat
      BY <1>1, <2>2, BoundaryType DEF Boundary
    <3>2. (l + 1) * EvalInterval \in Nat
      BY <1>1, ConstantTypes, Products
    <3> QED BY <1>1, <1>2, <1>3, <1>4, <2>1, <3>1, <3>2 DEF Held
  <2> QED BY <1>3, <2>3, <2>4 DEF RoundInv, KickedUpTo, Held, Boundary, LastRound, InStep
<1>8. CASE ~(i > l)
  <2>1. UNCHANGED <<evalLast, kicks>>
    BY <1>6, <1>8 DEF Kick, RoundOf, NoStep
  <2>2. step < Boundary(evalLast)
    BY <1>1, <1>4, <1>5, <1>8, ConstantTypes, Products
  <2>3. Held(evalLast, step)
    <3>1. Boundary(evalLast) \in Nat
      BY <1>1, ConstantTypes, Products
    <3> QED BY <1>1, <2>2, <3>1 DEF Held
  <2> QED BY <1>3, <2>1, <2>3 DEF RoundInv, KickedUpTo, Held, Boundary, LastRound, InStep
<1> QED BY <1>7, <1>8

\* The bundle published inside a step may be at the boundary, never past it.
LEMMA RoundsStep ==
  ASSUME TypeOK, RoundInv, TrainStep \/ RefuseStep, Interval # 1
  PROVE  RoundInv'
<1> USE DEF TypeOK, DataTypes
<1>1. /\ pc = "burst" /\ pc' = "ply" /\ UNCHANGED <<evalLast, kicks>>
      /\ step' \in {step, step + 1} /\ step \in Nat
  BY ConstantTypes DEF TrainStep, RefuseStep, Steps
<1>2. Held(evalLast, step) /\ Boundary(evalLast) \in Nat
  <2>1. evalLast \in Nat \cup {NoStep}
    OBVIOUS
  <2> QED BY <1>1, <2>1, BoundaryType DEF RoundInv, Rests
<1>3. step' <= Boundary(evalLast) + 1
  BY <1>1, <1>2 DEF Held
<1>4. KickedUpTo(bundle'.evalLast, bundle'.kicks) /\ Held(bundle'.evalLast, bundle'.step)
  <2>1. CASE bundle' = bundle
    BY <2>1 DEF RoundInv
  <2>2. CASE bundle' # bundle
    <3>1. /\ step' = step + 1 /\ Interval > 0 /\ step' % Interval = 0
          /\ bundle'.evalLast = evalLast /\ bundle'.kicks = kicks /\ bundle'.step = step'
      BY <2>2 DEF TrainStep, RefuseStep, Persist, Snapshot, diskVars
    <3>2. step # Boundary(evalLast)
      <4> SUFFICES ASSUME step = Boundary(evalLast) PROVE FALSE
        OBVIOUS
      <4>1. step % Interval = 0
        BY <1>2 DEF Held
      <4>2. (step + 1) % Interval # 0
        BY <1>1, <3>1, <4>1, ConstantTypes, NotBoth
      <4> QED BY <3>1, <4>2
    <3>3. Held(evalLast, step')
      BY <1>1, <1>2, <3>1, <3>2 DEF Held
    <3> QED BY <3>1, <3>3 DEF RoundInv
  <2> QED BY <2>1, <2>2
<1> QED BY <1>1, <1>3, <1>4 DEF RoundInv, KickedUpTo, Held, Boundary, LastRound, Rests, InStep

\* A save between two steps takes the state as it stands.
LEMMA RoundsSave ==
  ASSUME RoundInv, pc \in Rests, bundle' = bundle \/ Persist(step)
  PROVE  KickedUpTo(bundle'.evalLast, bundle'.kicks) /\ Held(bundle'.evalLast, bundle'.step)
BY DEF RoundInv, Persist, Snapshot

LEMMA NextRounds ==
  ASSUME EvalInterval > 1, Interval # 1
  PROVE  TypeOK /\ RoundInv /\ [Next]_vars => RoundInv'
<1> SUFFICES ASSUME TypeOK, RoundInv, [Next]_vars PROVE RoundInv'
  OBVIOUS
<1> USE DEF KickedUpTo, Held, Boundary, LastRound
<1>1. CASE UNCHANGED vars
  BY <1>1 DEF vars, lineVars, diskVars, RoundInv
<1>2. CASE Beside
  <2>1. UNCHANGED <<step, evalLast, kicks, bundle>>
    BY <1>2, BesideKeeps DEF LoopState
  <2>2. pc' = pc \/ pc' \notin Rests \cup InStep
    BY <1>2 DEF Beside, GameDone, Press, DiskCritical, GuardSignal, Die, Raise, Stall, Handle, Ends,
       Rests, InStep
  <2> QED BY <2>1, <2>2 DEF RoundInv
<1>3. CASE Turns
  <2>1. UNCHANGED <<step, evalLast, kicks>>
    BY <1>3 DEF Turns, LoopTest, CleanStop, ShutdownSave, Wait, BurstEnds, PlyGate, lineVars
  <2>2. /\ (pc \in Rests /\ pc' \in Rests) \/ (pc \in InStep /\ pc' \in InStep)
        /\ bundle' = bundle \/ (pc \in Rests /\ Persist(step))
    BY <1>3 DEF Turns, LoopTest, CleanStop, ShutdownSave, Wait, Trains, BurstEnds, PlyGate, Rests, InStep,
       diskVars
  <2>3. KickedUpTo(bundle'.evalLast, bundle'.kicks) /\ Held(bundle'.evalLast, bundle'.step)
    <3> HIDE DEF KickedUpTo, Held
    <3> QED BY <2>2, RoundsSave DEF RoundInv
  <2>4. Rests \cap InStep = {}
    BY DEF Rests, InStep
  <2> QED BY <2>1, <2>2, <2>3, <2>4 DEF RoundInv
<1>4. CASE Leaves
  <2>1. UNCHANGED <<step, evalLast, kicks>> /\ pc' \notin Rests \cup InStep
    BY <1>4 DEF Leaves, FinalSave, CloseOut, TerminalEval, RecordAborts, Exit, Ends, lineVars, Rests,
       InStep
  <2>2. bundle' = bundle \/ (pc \in Rests /\ Persist(step))
    BY <1>4 DEF Leaves, FinalSave, CloseOut, TerminalEval, RecordAborts, Exit, diskVars, Rests
  <2>3. KickedUpTo(bundle'.evalLast, bundle'.kicks) /\ Held(bundle'.evalLast, bundle'.step)
    <3> HIDE DEF KickedUpTo, Held
    <3> QED BY <2>2, RoundsSave DEF RoundInv
  <2> QED BY <2>1, <2>3 DEF RoundInv
<1>5. CASE Budget \/ DrawGate
  <2>1. /\ UNCHANGED <<step, evalLast, kicks, bundle>>
        /\ (pc \in Rests /\ pc' \in Rests) \/ (pc \in InStep /\ pc' \in InStep)
        /\ Rests \cap InStep = {}
    BY <1>5 DEF Budget, Trains, DrawGate, lineVars, diskVars, Rests, InStep
  <2> QED BY <2>1 DEF RoundInv
<1>6. CASE TrainStep \/ RefuseStep
  BY <1>6, RoundsStep
<1>7. CASE Kick
  BY <1>7, RoundsKick
<1>8. CASE Launch
  <2>1. /\ step' = bundle.step /\ evalLast' = bundle.evalLast /\ kicks' = bundle.kicks
        /\ bundle' = bundle /\ pc' = "loop"
    BY <1>8 DEF Launch, Restore, diskVars
  <2> QED BY <2>1 DEF RoundInv, InStep
<1> QED BY <1>1, <1>2, <1>3, <1>4, <1>5, <1>6, <1>7, <1>8 DEF Next, Beside, Turns, Leaves

LEMMA RoundsFollow == TypeOK /\ RoundInv => RoundsOnce
<1> SUFFICES ASSUME TypeOK, RoundInv, NEW i \in Rounds
             PROVE  /\ kicks[i] <= 1
                    /\ pc \in {"loop", "top", "burst"} /\ i * EvalInterval < step => kicks[i] = 1
  BY DEF RoundsOnce
<1> DEFINE l == LastRound(evalLast)
<1>1. kicks = [j \in Rounds |-> IF j <= l THEN 1 ELSE 0]
  BY DEF RoundInv, KickedUpTo
<1>2. i \in Nat /\ l \in Nat /\ step \in Nat
  <2>1. evalLast \in Nat \cup {NoStep} /\ step \in Nat
    BY ConstantTypes DEF TypeOK, DataTypes
  <2> QED BY <2>1, RoundsType, BoundaryType
<1>3. ASSUME pc \in Rests, i * EvalInterval < step PROVE i <= l
  <2>1. step <= (l + 1) * EvalInterval
    BY <1>3 DEF RoundInv, Held, Boundary
  <2> HIDE DEF l
  <2>2. l + 1 <= i => (l + 1) * EvalInterval <= i * EvalInterval
    BY <1>2, ConstantTypes, Monotone
  <2>3. i * EvalInterval \in Nat /\ (l + 1) * EvalInterval \in Nat
    BY <1>2, ConstantTypes, Products
  <2> QED BY <1>2, <1>3, <2>1, <2>2, <2>3
<1> HIDE DEF l
<1> QED BY <1>1, <1>3 DEF Rests

\* Over stops, deaths and resumes each evaluation round is kicked once, none
\* twice and none missed, when a round is more than one step and bundles are not
\* published at every step: the bundle is published inside its step, before the
\* kick (_maybe_kick_eval), so with either interval 1 it can lose one.
THEOREM RoundsKickedOnce ==
  ASSUME EvalInterval > 1, Interval # 1
  PROVE  Spec => []RoundsOnce
<1>1. TypeOK /\ RoundInv /\ [Next]_vars => RoundInv'
  BY NextRounds
<1> QED BY CoordinatorTypes, InitRounds, <1>1, RoundsFollow, PTL DEF Spec

-----------------------------------------------------------------------------
(* The draw-rate window *)

\* The window is the newest observations.
IsWindow(w, o) ==
    /\ w = [i \in 1 .. Len(w) |-> o[Len(o) - Len(w) + i][2]]
    /\ Len(w) = AtMost(Len(o), Consec)

WindowInv ==
    /\ AbortWindow
    /\ IsWindow(bundle.window, bundle.observed)

LEMMA InitWindow == Init => WindowInv
<1> SUFFICES ASSUME Init PROVE WindowInv
  OBVIOUS
<1>1. window = <<>> /\ observed = <<>> /\ bundle.window = <<>> /\ bundle.observed = <<>> /\ rule = "none"
  BY DEF Init, NoBundle
<1>2. IsWindow(<<>>, <<>>)
  BY ConstantTypes DEF IsWindow, AtMost
<1> QED BY <1>1, <1>2 DEF WindowInv, AbortWindow, IsWindow

\* An observation more: the oldest leaves a full window.
LEMMA WindowGrows ==
  ASSUME NEW w \in Seq(BOOLEAN), NEW o \in Seq(Observation), IsWindow(w, o),
         NEW above \in BOOLEAN, NEW s \in Nat
  PROVE  IsWindow(Newest(Append(w, above), Consec), Append(o, <<s, above>>))
<1> DEFINE v == Append(w, above)
           p == Append(o, <<s, above>>)
           nw == Newest(v, Consec)
<1>1. /\ v \in Seq(BOOLEAN) /\ Len(v) = Len(w) + 1 /\ v[Len(w) + 1] = above
      /\ \A i \in 1 .. Len(w) : v[i] = w[i]
  BY AppendProperties
<1>2. /\ Len(p) = Len(o) + 1 /\ p[Len(o) + 1] = <<s, above>>
      /\ \A i \in 1 .. Len(o) : p[i] = o[i]
  <2>1. <<s, above>> \in Observation
    BY DEF Observation
  <2> QED BY <2>1, AppendProperties
<1> HIDE DEF v, p
<1>3. /\ nw \in Seq(BOOLEAN) /\ Len(nw) = AtMost(Len(v), Consec)
      /\ \A i \in 1 .. Len(nw) : nw[i] = v[Len(v) - Len(nw) + i]
  BY <1>1, NewestType, ConstantTypes
<1>4. /\ Len(w) \in Nat /\ Len(o) \in Nat /\ Len(w) = AtMost(Len(o), Consec)
      /\ \A i \in 1 .. Len(w) : w[i] = o[Len(o) - Len(w) + i][2]
  BY DEF IsWindow
<1>5. Len(nw) = AtMost(Len(p), Consec) /\ Len(nw) \in Nat /\ Len(nw) <= Len(v)
  BY <1>1, <1>2, <1>3, <1>4, ConstantTypes DEF AtMost
<1> HIDE DEF nw
<1>6. ASSUME NEW i \in 1 .. Len(nw)
      PROVE  nw[i] = p[Len(p) - Len(nw) + i][2]
  <2>1. nw[i] = v[Len(v) - Len(nw) + i]
    BY <1>3
  <2>2. CASE Len(v) - Len(nw) + i = Len(w) + 1
    BY <2>1, <2>2, <1>1, <1>2, <1>4, <1>5
  <2>3. CASE Len(v) - Len(nw) + i # Len(w) + 1
    <3> DEFINE j == Len(v) - Len(nw) + i
    <3>1. j \in 1 .. Len(w)
      BY <2>3, <1>1, <1>4, <1>5
    <3>2. Len(o) - Len(w) + j = Len(p) - Len(nw) + i
      BY <1>1, <1>2, <1>4, <1>5
    <3>3. nw[i] = v[j]
      BY <2>1
    <3> HIDE DEF j
    <3>4. Len(o) - Len(w) + j \in 1 .. Len(o)
      BY <3>1, <1>4, ConstantTypes DEF AtMost
    <3>5. v[j] = w[j] /\ w[j] = o[Len(o) - Len(w) + j][2]
      BY <3>1, <1>1, <1>4
    <3>6. p[Len(o) - Len(w) + j] = o[Len(o) - Len(w) + j]
      BY <3>4, <1>2
    <3> QED BY <3>2, <3>5, <3>6, <3>3
  <2> QED BY <2>2, <2>3
<1>7. nw = [i \in 1 .. Len(nw) |-> p[Len(p) - Len(nw) + i][2]]
  <2>1. nw = [i \in 1 .. Len(nw) |-> nw[i]]
    BY <1>3
  <2> QED BY <2>1, <1>6
<1> QED BY <1>5, <1>7 DEF IsWindow, v, p, nw

\* What fired before still stands among the observations.
LEMMA CollapseStays ==
  ASSUME NEW o \in Seq(Observation), NEW e \in Observation, NEW n \in Consec .. Len(o),
         observed = o, observed' = Append(o, e), CollapsedAt(n)
  PROVE  n \in Consec .. Len(observed') /\ CollapsedAt(n)'
<1>1. /\ Len(observed') = Len(o) + 1 /\ Len(o) \in Nat
      /\ \A i \in 1 .. Len(o) : observed'[i] = o[i]
  BY AppendProperties
<1>2. n \in 1 .. Len(o) /\ n - Consec + 1 .. n \subseteq 1 .. Len(o)
  BY <1>1, ConstantTypes
<1>3. \A i \in n - Consec + 1 .. n : observed'[i] = observed[i]
  BY <1>1, <1>2
<1>4. observed'[n] = observed[n]
  BY <1>1, <1>2
<1> QED BY <1>1, <1>2, <1>3, <1>4, ConstantTypes DEF CollapsedAt

LEMMA WindowDrawGate ==
  ASSUME TypeOK, WindowInv, DrawGate
  PROVE  WindowInv'
<1> USE DEF TypeOK
<1>1. bundle' = bundle
  BY DEF DrawGate, diskVars
<1>2. CASE UNCHANGED <<running, rule, window, observed>>
  BY <1>1, <1>2 DEF WindowInv, AbortWindow, CollapsedAt
<1>3. ASSUME NEW above \in BOOLEAN, window' = Newest(Append(window, above), Consec),
             observed' = Append(observed, <<step, above>>), Fires("draw", Collapsed(window'))
      PROVE  WindowInv'
  <2>1. /\ window \in Seq(BOOLEAN) /\ observed \in Seq(Observation)
        /\ <<step, above>> \in Observation /\ step \in Nat
    BY DEF DataTypes, Observation
  <2>2. IsWindow(window, observed)
    BY DEF WindowInv, AbortWindow, IsWindow
  <2>3. IsWindow(window', observed')
    BY <1>3, <2>1, <2>2, WindowGrows
  <2>4. ASSUME rule' = "draw"
        PROVE  \E n \in Consec .. Len(observed') : CollapsedAt(n)'
    <3>1. CASE rule = "draw"
      <4>1. PICK n \in Consec .. Len(observed) : CollapsedAt(n)
        BY <3>1 DEF WindowInv, AbortWindow
      <4> QED BY <4>1, <2>1, <1>3, CollapseStays
    <3>2. CASE rule # "draw"
      <4>1. Collapsed(window')
        BY <1>3, <2>4, <3>2 DEF Fires
      <4>2. /\ Len(window') >= Consec /\ step >= MinStep
            /\ \A i \in 1 .. Len(window') : window'[i]
        BY <4>1 DEF Collapsed
      <4>3. /\ Len(observed') = Len(observed) + 1 /\ Len(observed) \in Nat
            /\ observed'[Len(observed')] = <<step, above>>
        BY <1>3, <2>1, AppendProperties
      <4>4. /\ Len(window') = AtMost(Len(observed'), Consec) /\ Len(window') \in Nat
            /\ \A i \in 1 .. Len(window') :
                 window'[i] = observed'[Len(observed') - Len(window') + i][2]
        <5>1. window' = [i \in 1 .. Len(window') |-> observed'[Len(observed') - Len(window') + i][2]]
          BY <2>3 DEF IsWindow
        <5>2. \A i \in 1 .. Len(window') :
                window'[i] = observed'[Len(observed') - Len(window') + i][2]
          BY <5>1, Zenon
        <5>3. Len(window') = AtMost(Len(observed'), Consec)
          BY <2>3 DEF IsWindow
        <5>4. Len(window') \in Nat
          BY <5>3, <4>3, ConstantTypes DEF AtMost
        <5> QED BY <5>2, <5>3, <5>4
      <4>5. Len(window') = Consec /\ Len(observed') >= Consec
        BY <4>2, <4>3, <4>4, ConstantTypes DEF AtMost
      <4> DEFINE n == Len(observed) + 1
      <4>6. ASSUME NEW i \in n - Consec + 1 .. n PROVE observed'[i][2]
        <5>1. i - (n - Consec) \in 1 .. Len(window') /\ n - Consec + (i - (n - Consec)) = i
          BY <4>3, <4>5, ConstantTypes
        <5> QED BY <5>1, <4>2, <4>3, <4>4, <4>5
      <4>7. observed'[n][1] >= MinStep
        BY <4>2, <4>3
      <4>8. n \in Consec .. Len(observed')
        BY <4>3, <4>5, ConstantTypes
      <4> HIDE DEF n
      <4> QED BY <4>6, <4>7, <4>8 DEF CollapsedAt
    <3> QED BY <3>1, <3>2
  <2> QED BY <1>1, <2>2, <2>3, <2>4 DEF WindowInv, AbortWindow, IsWindow
<1> QED BY <1>2, <1>3 DEF DrawGate

\* A save copies the window with the observations it is of.
LEMMA PersistWindow ==
  ASSUME NEW s, Persist(s), WindowInv
  PROVE  IsWindow(bundle.window, bundle.observed)'
<1>1. IsWindow(window, observed)
  BY DEF WindowInv, AbortWindow, IsWindow
<1>2. IsWindow(bundle'.window, bundle'.observed)
  BY <1>1 DEF Persist, Snapshot, WindowInv
<1> QED BY <1>2 DEF IsWindow

LEMMA NextWindow == TypeOK /\ WindowInv /\ [Next]_vars => WindowInv'
<1> SUFFICES ASSUME TypeOK, WindowInv, [Next]_vars PROVE WindowInv'
  OBVIOUS
<1>1. CASE DrawGate
  BY <1>1, WindowDrawGate
<1>2. CASE Launch
  <2>1. window' = bundle.window /\ observed' = bundle.observed /\ bundle' = bundle /\ rule' = "none"
    BY <1>2 DEF Launch, Restore, diskVars
  <2> QED BY <2>1 DEF WindowInv, AbortWindow, IsWindow
<1>3. CASE ~DrawGate /\ ~Launch
  <2>1. UNCHANGED <<window, observed>> /\ (rule' = "draw" => rule = "draw")
    <3>1. CASE UNCHANGED vars
      BY <3>1 DEF vars, flagVars, lineVars
    <3>2. CASE Beside
      BY <3>2, BesideKeeps DEF LoopState, Beside, GameDone, Press, DiskCritical, GuardSignal, Die, Raise,
         Stall, Handle, Ends, flagVars
    <3>3. CASE Turns
      BY <3>3 DEF Turns, LoopTest, CleanStop, ShutdownSave, Wait, BurstEnds, PlyGate, Fires, flagVars,
         lineVars
    <3>4. CASE Leaves
      BY <3>4 DEF Leaves, FinalSave, CloseOut, TerminalEval, RecordAborts, Exit, Ends, flagVars, lineVars
    <3>5. CASE Budget \/ TrainStep \/ RefuseStep \/ Kick
      BY <3>5 DEF Budget, TrainStep, RefuseStep, Steps, Kick, flagVars, lineVars
    <3> QED BY <1>3, <3>1, <3>2, <3>3, <3>4, <3>5 DEF Next, Beside, Turns, Leaves
  <2>2. bundle' = bundle \/ \E s : Persist(s)
    <3>1. CASE UNCHANGED vars
      BY <3>1 DEF vars, diskVars
    <3>2. CASE Beside
      BY <3>2, BesideKeeps DEF LoopState
    <3>3. CASE Turns
      BY <3>3 DEF Turns, LoopTest, CleanStop, ShutdownSave, Wait, BurstEnds, PlyGate, diskVars
    <3>4. CASE Leaves
      BY <3>4 DEF Leaves, FinalSave, CloseOut, TerminalEval, RecordAborts, Exit, diskVars
    <3>5. CASE Budget \/ RefuseStep \/ Kick
      BY <3>5 DEF Budget, RefuseStep, Kick, diskVars
    <3>6. CASE TrainStep
      BY <3>6 DEF TrainStep, diskVars
    <3> QED BY <1>3, <3>1, <3>2, <3>3, <3>4, <3>5, <3>6 DEF Next, Beside, Turns, Leaves
  <2>3. IsWindow(bundle.window, bundle.observed)'
    BY <2>2, PersistWindow DEF WindowInv, IsWindow
  <2> QED BY <2>1, <2>3 DEF WindowInv, AbortWindow, CollapsedAt
<1> QED BY <1>1, <1>2, <1>3

\* The draw-rate abort reads the lineage's last observations, whatever stops,
\* deaths and resumes lie between them, and fires only on Consec of them in a row
\* above the threshold (restore_guard_state, check_draw_rate_collapse).
THEOREM WindowIsLineages == Spec => []AbortWindow
<1>1. WindowInv => AbortWindow
  BY DEF WindowInv
<1> QED BY CoordinatorTypes, InitWindow, NextWindow, <1>1, PTL DEF Spec

-----------------------------------------------------------------------------
(* The step budget *)

\* In units: what was granted and what is carried is what the games are worth.
RatioInv ==
    IF ramp THEN due * Unit + carry <= trained * (RatioNum * Capacity)
            ELSE due * Unit + carry = trained * (RatioNum * Capacity)

LEMMA RatioBudget ==
  ASSUME TypeOK, RatioInv, Budget
  PROVE  RatioInv'
<1> USE DEF TypeOK, DataTypes
<1> DEFINE grown == games - trained
           total == carry + grown * PerGame
           want == total \div Unit
           full == RatioNum * Capacity
<1>1. /\ grown \in Nat /\ grown >= 1 /\ carry \in Nat /\ trained \in Nat /\ due \in Nat
      /\ trained + grown = games /\ rows \in Nat /\ rows <= Capacity
  BY ConstantTypes DEF Budget
<1>2. full \in Nat /\ PerGame \in Nat /\ PerGame <= full /\ (~ramp => PerGame = full)
  <2>1. RatioNum * rows <= RatioNum * Capacity /\ RatioNum * rows \in Nat /\ full \in Nat
    BY <1>1, ConstantTypes, Monotone, Products
  <2> QED BY <2>1 DEF PerGame
<1>3. /\ games' = games /\ trained' = games /\ carry' = total % Unit /\ ramp' = ramp
      /\ due' = due + (IF ramp THEN want ELSE AtLeast(want, 1))
  BY DEF Budget, Remainder, poolVars, runVars
<1> HIDE DEF full, grown, PerGame
<1>4. /\ grown * PerGame \in Nat /\ grown * PerGame <= grown * full /\ grown * full \in Nat
      /\ games * full = trained * full + grown * full /\ trained * full \in Nat
      /\ games * full \in Nat
  BY <1>1, <1>2, Monotone, Products, Distributes
<1>5. total \in Nat
  BY <1>1, <1>4
<1> HIDE DEF total
<1>6. ~ramp => want >= 1
  <2> SUFFICES ASSUME ~ramp PROVE want >= 1
    OBVIOUS
  <2>1. full >= Unit
    BY ConstantTypes, Monotone DEF full, Unit
  <2>2. grown * full >= full
    <3>1. grown - 1 \in Nat /\ (grown - 1) * full \in Nat
      BY <1>1, <1>2, Products
    <3>2. grown * full = (grown - 1) * full + 1 * full
      BY <1>1, <1>2, <3>1, Distributes
    <3> QED BY <1>2, <3>1, <3>2
  <2>3. total >= Unit
    BY <1>1, <1>2, <1>4, <2>1, <2>2, UnitType DEF total
  <2>4. total = want * Unit + (total % Unit) /\ want \in Nat /\ total % Unit \in 0 .. Unit - 1
    BY <1>5, UnitType, Remainders
  <2> HIDE DEF want
  <2>5. want = 0 => want * Unit = 0
    BY UnitType
  <2> QED BY <2>3, <2>4, <2>5, UnitType
<1>7. total = want * Unit + (total % Unit) /\ want \in Nat /\ total % Unit \in Nat
  BY <1>5, UnitType, Remainders
<1> HIDE DEF want
<1>8. due' = due + want
  BY <1>3, <1>6, <1>7 DEF AtLeast
<1>9. due' * Unit = due * Unit + want * Unit /\ due * Unit \in Nat /\ want * Unit \in Nat
  BY <1>1, <1>7, <1>8, UnitType, Distributes, Products
<1> DEFINE paid == due * Unit
           pays == want * Unit
           owed == grown * PerGame
           worth == grown * full
           past == trained * full
<1>10. due' * Unit = paid + pays /\ carry' = total % Unit /\ total = carry + owed
  BY <1>3, <1>9 DEF total
<1>11. /\ ramp => paid + carry <= past
       /\ ~ramp => paid + carry = past
  BY DEF RatioInv, full
<1>12. paid \in Nat /\ pays \in Nat /\ owed \in Nat /\ worth \in Nat /\ past \in Nat
  BY <1>4, <1>9
<1>13. /\ total = pays + (total % Unit) /\ owed <= worth /\ (~ramp => owed = worth)
       /\ games * full = past + worth
  BY <1>2, <1>4, <1>7
<1> HIDE DEF paid, pays, owed, worth, past
<1> DEFINE left == total % Unit
<1>14. left \in Nat /\ carry \in Nat /\ total = pays + left /\ carry' = left
  BY <1>1, <1>7, <1>10, <1>13
<1> HIDE DEF left, TypeOK, DataTypes
<1>15. /\ ramp => paid + pays + left <= past + worth
       /\ ~ramp => paid + pays + left = past + worth
  BY <1>10, <1>11, <1>12, <1>13, <1>14
<1>16. /\ ramp => due' * Unit + carry' <= games * full
       /\ ~ramp => due' * Unit + carry' = games * full
  BY <1>10, <1>13, <1>14, <1>15
<1> QED BY <1>3, <1>16 DEF RatioInv, full, Unit

LEMMA InitRatio == Init => RatioInv
<1> SUFFICES ASSUME Init PROVE RatioInv
  OBVIOUS
<1>1. due = 0 /\ carry = 0 /\ trained = 0
  BY DEF Init
<1>2. due * Unit + carry = 0 /\ trained * (RatioNum * Capacity) = 0
  BY <1>1, UnitType, ConstantTypes, Products
<1> QED BY <1>2 DEF RatioInv

LEMMA NextRatio == TypeOK /\ RatioInv /\ [Next]_vars => RatioInv'
<1> SUFFICES ASSUME TypeOK, RatioInv, [Next]_vars PROVE RatioInv'
  OBVIOUS
<1>1. CASE Budget
  BY <1>1, RatioBudget
<1>2. CASE Launch
  <2>1. due' = 0 /\ carry' = 0 /\ trained' = 0 /\ ramp' = ramp
    BY <1>2 DEF Launch
  <2>2. due' * Unit + carry' = 0 /\ trained' * (RatioNum * Capacity) = 0
    BY <2>1, UnitType, ConstantTypes, Products
  <2> QED BY <2>1, <2>2 DEF RatioInv, Unit
<1>3. CASE ~Budget /\ ~Launch
  <2>1. UNCHANGED <<due, carry, trained, ramp>>
    <3>1. CASE UNCHANGED vars
      BY <3>1 DEF vars, budgetVars, runVars
    <3>2. CASE Beside
      BY <3>2, BesideKeeps DEF LoopState
    <3>3. CASE Turns
      BY <3>3 DEF Turns, LoopTest, CleanStop, ShutdownSave, Wait, BurstEnds, PlyGate, budgetVars, runVars
    <3>4. CASE Leaves
      BY <3>4 DEF Leaves, FinalSave, CloseOut, TerminalEval, RecordAborts, Exit, Ends, budgetVars, runVars
    <3>5. CASE TrainStep \/ RefuseStep \/ DrawGate \/ Kick
      BY <3>5 DEF TrainStep, RefuseStep, Steps, DrawGate, Kick, budgetVars, runVars
    <3> QED BY <1>3, <3>1, <3>2, <3>3, <3>4, <3>5 DEF Next, Beside, Turns, Leaves
  <2> QED BY <2>1 DEF RatioInv, Unit
<1> QED BY <1>1, <1>2, <1>3

\* What the units say in steps.
LEMMA RatioInSteps ==
  ASSUME TypeOK, RatioInv
  PROVE  RatioHolds
<1> DEFINE worth == trained * RatioNum
           paid == due * RatioDen
<1>1. /\ due \in Nat /\ carry \in Nat /\ trained \in Nat /\ carry \in 0 .. Unit - 1
      /\ worth \in Nat /\ paid \in Nat
  <2>1. due \in Nat /\ carry \in 0 .. Unit - 1 /\ trained \in Nat
    BY DEF TypeOK, DataTypes
  <2> QED BY <2>1, ConstantTypes, Products, UnitType
<1>2. due * Unit = paid * Capacity /\ trained * (RatioNum * Capacity) = worth * Capacity
  BY <1>1, ConstantTypes, Distributes DEF Unit
<1> HIDE DEF worth, paid
<1>3. CASE ramp
  <2>1. paid * Capacity <= worth * Capacity
    <3>1. paid * Capacity \in Nat /\ worth * Capacity \in Nat
      BY <1>1, ConstantTypes, Products
    <3> QED BY <1>1, <1>2, <1>3, <3>1 DEF RatioInv
  <2>2. ~(worth < paid)
    <3>1. paid * Capacity \in Nat /\ worth * Capacity \in Nat
      BY <1>1, ConstantTypes, Products
    <3> QED BY <1>1, <2>1, <3>1, ConstantTypes, Monotone
  <2> QED BY <1>1, <1>3, <2>2 DEF RatioHolds, worth, paid
<1>4. CASE ~ramp
  <2> DEFINE q == worth \div RatioDen
             r == worth % RatioDen
  <2>1. q \in Nat /\ r \in 0 .. RatioDen - 1 /\ worth = q * RatioDen + r
    BY <1>1, ConstantTypes, Remainders
  <2> HIDE DEF q, r
  <2>2. q * RatioDen \in Nat /\ worth * Capacity = (q * RatioDen) * Capacity + r * Capacity
    BY <2>1, ConstantTypes, Products, Distributes
  <2>3. (q * RatioDen) * Capacity = q * Unit
    BY <2>1, ConstantTypes, Distributes DEF Unit
  <2>4. r * Capacity \in 0 .. Unit - 1
    <3>1. r * Capacity < RatioDen * Capacity /\ r * Capacity \in Nat
      BY <2>1, ConstantTypes, Monotone, Products
    <3> QED BY <3>1, UnitType DEF Unit
  <2>5. due * Unit + carry = q * Unit + r * Capacity
    BY <1>2, <1>4, <2>2, <2>3 DEF RatioInv
  <2>6. due = q
    BY <1>1, <2>1, <2>4, <2>5, UnitType, Quotients
  <2> QED BY <1>4, <2>6 DEF RatioHolds, q, worth
<1> QED BY <1>3, <1>4

\* However games clump into bursts, a launch is granted the configured steps per
\* game to the fraction, for every ratio and ring size; a ramped ratio never
\* more (_steps_budget, _steps_budget_carry).
THEOREM RatioKept == Spec => []RatioHolds
BY CoordinatorTypes, InitRatio, NextRatio, RatioInSteps, PTL DEF Spec

=============================================================================
