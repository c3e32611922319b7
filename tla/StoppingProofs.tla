----------------------------- MODULE StoppingProofs -----------------------------
(***************************************************************************)
(* Theorems about the two components that stop work: the self-play pool    *)
(* (SelfPlayRunner), for any workers, caps, faults and bounds, and the     *)
(* supervised run (Supervision), for every relaunch budget, heartbeat      *)
(* bound and set of launch shapes.                                         *)
(*                                                                         *)
(* In the pool everything rests on the kill switch going from TRUE to      *)
(* FALSE once: a worker that saw it down, or was cut by it, can never find *)
(* it up again.                                                            *)
(***************************************************************************)
EXTENDS SelfPlayRunner, Supervision, SequenceTheorems, TLAPS


PC == {"off", "top", "move", "submit", "wait", "loop", "failed", "check", "latch",
       "count", "halt", "over", "finalize", "rows", "meta", "panicked",
       "dying", "exit"}
Kinds == {"seam", "defect"}

\* The shapes the argument needs; the data queues play no part in it.
Shapes ==
    /\ running \in BOOLEAN /\ closed \in BOOLEAN /\ fault \in BOOLEAN
    /\ fatal \in Kinds \union {"none"}
    /\ fires \in [Kinds -> Nat] /\ panics \in Nat
    /\ pc \in [Workers -> PC]
    /\ cut \in [Workers -> BOOLEAN] /\ kind \in [Workers -> Kinds]
    /\ stopper \in {"no", "flag", "close", "join", "done"}

\* Before start() nothing runs and the queue is open.
NotStarted ==
    feeder = "off" => /\ ~running /\ ~closed /\ stopper = "no"
                      /\ \A w \in Workers : pc[w] = "off"

\* stop() clears the switch before it closes the queue.
StopOrder == stopper \in {"close", "join", "done"} => ~running

\* While the switch is up only a fault closes the queue.
ClosedByFault == closed /\ running => fault

\* A worker on its way to the latch saw the switch up.
SeamPath ==
    \A w \in Workers :
        /\ pc[w] = "failed" => fault \/ ~running
        /\ pc[w] \in {"latch", "count"} /\ kind[w] = "seam" => fault

Attributed == panics > 0 \/ (fatal # "none" /\ fires["seam"] + fires["defect"] > 0)

\* Who is about to halt the run has already said why.
HaltPath ==
    \A w \in Workers :
        /\ pc[w] = "count" => fatal # "none"
        /\ pc[w] = "halt" => Attributed
        /\ pc[w] = "dying" => panics > 0

\* A cut game is one the stopped switch cut.
CutByStop ==
    \A w \in Workers :
        cut[w] /\ pc[w] \notin {"off", "top", "panicked", "dying", "exit"} => ~running

RInv ==
    /\ Shapes /\ NotStarted /\ StopOrder /\ ClosedByFault
    /\ SeamPath /\ CleanStopNotLatched
    /\ HaltPath /\ HaltAttributed
    /\ CutByStop /\ NoCutGameExported

LEMMA InitRInv == Init => RInv
<1> SUFFICES ASSUME Init PROVE RInv
  OBVIOUS
<1>1. Shapes
  <2>1. [k \in {"seam", "defect"} |-> 0] \in [Kinds -> Nat]
    BY DEF Kinds
  <2>2. [w \in Workers |-> "off"] \in [Workers -> PC]
    BY DEF PC
  <2>3. [w \in Workers |-> "seam"] \in [Workers -> Kinds]
    BY DEF Kinds
  <2> QED  BY <2>1, <2>2, <2>3, Zenon DEF Init, Shapes
<1>2. NotStarted /\ StopOrder /\ ClosedByFault /\ SeamPath /\ HaltPath
  BY DEF Init, NotStarted, StopOrder, ClosedByFault, SeamPath, HaltPath
<1>3. CleanStopNotLatched /\ HaltAttributed
  BY DEF Init, CleanStopNotLatched, HaltAttributed
<1>4. CutByStop /\ NoCutGameExported
  BY DEF Init, CutByStop, NoCutGameExported
<1> QED  BY <1>1, <1>2, <1>3, <1>4 DEF RInv

\* A worker's step touches its own program counter and, on the halting path, the
\* latch, the counters and the switch, in that order.
LEMMA WorkerKeeps ==
    ASSUME RInv, NEW w \in Workers, WorkerStep(w) \/ Panic(w)
    PROVE  RInv'
<1> USE DEF RInv, Shapes, NotStarted, StopOrder, ClosedByFault, SeamPath,
          CleanStopNotLatched, HaltPath, HaltAttributed, Attributed, CutByStop,
          NoCutGameExported, PC, Kinds, Goto
<1>1. CASE NextGame(w)
  BY <1>1 DEF NextGame, haltVars, latchVars, searchVars, feedVars, trainVars
<1>2. CASE LeaveGame(w)
  BY <1>2 DEF LeaveGame, haltVars, latchVars, searchVars, feedVars, trainVars
<1>3. CASE Search(w)
  BY <1>3 DEF Search, haltVars, latchVars, searchVars, feedVars, trainVars
<1>4. CASE PlayUnsearched(w)
  BY <1>4 DEF PlayUnsearched, haltVars, latchVars, searchVars, feedVars, trainVars
<1>5. CASE Submit(w)
  BY <1>5 DEF Submit, haltVars, latchVars, searchVars, feedVars, trainVars
<1>6. CASE Answered(w)
  BY <1>6 DEF Answered, haltVars, latchVars, searchVars, feedVars, trainVars
<1>7. CASE NotAnswered(w)
  BY <1>7 DEF NotAnswered, haltVars, latchVars, searchVars, feedVars, trainVars
<1>8. CASE SearchLoop(w)
  BY <1>8 DEF SearchLoop, haltVars, latchVars, searchVars, feedVars, trainVars
<1>9. CASE SeamOrShutdown(w)
  <2>1. CASE running
    BY <1>9, <2>1 DEF SeamOrShutdown, haltVars, latchVars, gameVars, feedVars, trainVars
  <2>2. CASE ~running
    BY <1>9, <2>2 DEF SeamOrShutdown, haltVars, latchVars, gameVars, feedVars, trainVars
  <2> QED  BY <2>1, <2>2
<1>10. CASE Record(w)
  BY <1>10 DEF Record, haltVars, latchVars, searchVars, feedVars, trainVars
<1>11. CASE StoreFatal(w)
  BY <1>11 DEF StoreFatal, haltVars, latchVars, searchVars, feedVars, trainVars
<1>12. CASE CountFatal(w)
  BY <1>12 DEF CountFatal, haltVars, latchVars, searchVars, feedVars, trainVars
<1>13. CASE Halt(w)
  BY <1>13 DEF Halt, haltVars, latchVars, searchVars, feedVars, trainVars
<1>14. CASE CountPanic(w)
  BY <1>14 DEF CountPanic, haltVars, latchVars, searchVars, feedVars, trainVars
<1>15. CASE GameOver(w)
  BY <1>15 DEF GameOver, haltVars, latchVars, searchVars, feedVars, trainVars
<1>16. CASE TakeLock(w)
  BY <1>16 DEF TakeLock, haltVars, latchVars, searchVars, feedVars, trainVars
<1>17. CASE PushRow(w)
  BY <1>17 DEF PushRow, haltVars, latchVars, searchVars, feedVars, trainVars
<1>18. CASE CountGame(w)
  BY <1>18 DEF CountGame, haltVars, latchVars, searchVars, feedVars, trainVars
<1>19. CASE CloseGame(w)
  BY <1>19 DEF CloseGame, haltVars, latchVars, searchVars, feedVars, trainVars
<1>20. CASE Panic(w)
  BY <1>20 DEF Panic, haltVars, latchVars, searchVars, feedVars, trainVars
<1> QED
  BY <1>1, <1>2, <1>3, <1>4, <1>5, <1>6, <1>7, <1>8, <1>9, <1>10, <1>11,
     <1>12, <1>13, <1>14, <1>15, <1>16, <1>17, <1>18, <1>19, <1>20
     DEF WorkerStep, PlayStep, HaltStep, EndStep

\* The feeder, the server's death, the health check and stop(): only stop() and
\* the start move the switch.
LEMMA PoolKeeps ==
    ASSUME RInv, Start \/ FeederStep \/ ServerDies \/ CheckHealth \/ StopPool \/ StopStep
    PROVE  RInv'
<1> USE DEF RInv, Shapes, NotStarted, StopOrder, ClosedByFault, SeamPath,
          CleanStopNotLatched, HaltPath, HaltAttributed, Attributed, CutByStop,
          NoCutGameExported, PC, Kinds
<1>1. CASE Start
  BY <1>1 DEF Start, haltVars, latchVars, searchVars, feedVars, trainVars
<1>2. CASE CheckFatal
  BY <1>2 DEF CheckFatal, Dies, haltVars, latchVars, searchVars, feedVars, trainVars
<1>3. CASE DrainRows
  BY <1>3 DEF DrainRows, Dies, haltVars, latchVars, searchVars, feedVars, trainVars
<1>4. CASE Push
  BY <1>4 DEF Push, haltVars, latchVars, searchVars, feedVars, trainVars
<1>5. CASE PushRefused
  BY <1>5 DEF PushRefused, Dies, haltVars, latchVars, searchVars, feedVars, trainVars
<1>6. CASE ReadGames
  BY <1>6 DEF ReadGames, haltVars, latchVars, searchVars, feedVars, trainVars
<1>7. CASE DrainResults
  BY <1>7 DEF DrainResults, haltVars, latchVars, searchVars, feedVars, trainVars
<1>8. CASE ServerDies
  BY <1>8 DEF ServerDies, haltVars, latchVars, searchVars, feedVars, trainVars
<1>9. CASE CheckHealth
  BY <1>9 DEF CheckHealth, haltVars, latchVars, searchVars, feedVars, trainVars
<1>10. CASE StopPool
  BY <1>10 DEF StopPool, haltVars, latchVars, searchVars, feedVars, trainVars
<1>11. CASE StopFlag
  BY <1>11 DEF StopFlag, haltVars, latchVars, searchVars, feedVars, trainVars
<1>12. CASE StopClose
  BY <1>12 DEF StopClose, haltVars, latchVars, searchVars, feedVars, trainVars
<1>13. CASE StopServer
  BY <1>13 DEF StopServer, haltVars, latchVars, searchVars, feedVars, trainVars
<1> QED
  BY <1>1, <1>2, <1>3, <1>4, <1>5, <1>6, <1>7, <1>8, <1>9,
     <1>10, <1>11, <1>12, <1>13
     DEF FeederStep, StopStep

LEMMA StutterKeeps ==
    ASSUME RInv, UNCHANGED vars
    PROVE  RInv'
  BY DEF vars, haltVars, latchVars, searchVars, feedVars, trainVars,
         RInv, Shapes, NotStarted, StopOrder, ClosedByFault, SeamPath,
          CleanStopNotLatched, HaltPath, HaltAttributed, Attributed, CutByStop,
          NoCutGameExported, PC, Kinds

\* The inductive invariant holds throughout.
THEOREM RunnerInvariant == Spec => []RInv
<1>1. RInv /\ [Next]_vars => RInv'
  <2> SUFFICES ASSUME RInv, [Next]_vars PROVE RInv'
    OBVIOUS
  <2>1. CASE UNCHANGED vars
    BY <2>1, StutterKeeps
  <2>2. CASE \E w \in Workers : WorkerStep(w) \/ Panic(w)
    BY <2>2, WorkerKeeps
  <2>3. CASE Start \/ FeederStep \/ ServerDies \/ CheckHealth \/ StopPool \/ StopStep
    BY <2>3, PoolKeeps
  <2> QED  BY <2>1, <2>2, <2>3 DEF Next
<1> QED  BY InitRInv, <1>1, PTL DEF Spec

\* For any workers and faults, a halt nobody asked for can be attributed the
\* moment `running` reads false (guard_worker, FatalDefectLatch::store_counted).
THEOREM HaltAlwaysAttributed == Spec => []HaltAttributed
<1>1. RInv => HaltAttributed
  BY DEF RInv
<1> QED  BY RunnerInvariant, <1>1, PTL

\* stop() is never mistaken for a failed inference (seam_or_shutdown,
\* SelfPlayRunner::stop).
THEOREM CleanStopNeverLatched == Spec => []CleanStopNotLatched
<1>1. RInv => CleanStopNotLatched
  BY DEF RInv
<1> QED  BY RunnerInvariant, <1>1, PTL

\* No interrupted game is exported (run_one_game's drain-shutdown skip).
THEOREM CutGameNeverExported == Spec => []NoCutGameExported
<1>1. RInv => NoCutGameExported
  BY DEF RInv
<1> QED  BY RunnerInvariant, <1>1, PTL

-----------------------------------------------------------------------------
(* What reaches the ring *)

RowShapes ==
    /\ results \in Seq(Nat) /\ batch \in Seq(Nat)
    /\ game \in [Workers -> Nat] /\ seq \in Nat
    /\ \E S : ring \in Seq(S)

\* The results lock is held exactly while a game's rows and metadata go in.
LockHeld == \A w \in Workers : pc[w] \in {"rows", "meta"} <=> lock = w

\* An unpoisoned queue holds finished games, and the one the lock's holder is in.
QueueWhole ==
    ~poisoned => \A i \in 1 .. Len(results) :
                   \/ results[i] \in done
                   \/ \E w \in Workers : lock = w /\ results[i] = game[w]

BatchWhole == \A i \in 1 .. Len(batch) : batch[i] \in done

TornInv == RowShapes /\ LockHeld /\ QueueWhole /\ BatchWhole /\ NoTornGameTrains

LEMMA InitTornInv == Init => TornInv
<1> SUFFICES ASSUME Init PROVE TornInv
  OBVIOUS
<1>1. <<>> \in Seq(Nat) /\ Len(<<>>) = 0
  BY EmptySeq
<1>2. RowShapes
  BY <1>1 DEF RowShapes, Init
<1>3. LockHeld
  BY RunnerAssumption DEF LockHeld, Init
<1> QED BY <1>1, <1>2, <1>3 DEF TornInv, QueueWhole, BatchWhole, NoTornGameTrains, Init

\* Everything but finalize, the drain and the push leaves the rows alone, and
\* enters or leaves the lock with nobody.
LEMMA RowsUntouched ==
  ASSUME TornInv, UNCHANGED <<results, batch, ring, done, poisoned, lock, game, seq>>,
         \A w \in Workers : pc'[w] \in {"rows", "meta"} <=> pc[w] \in {"rows", "meta"}
  PROVE  TornInv'
BY DEF TornInv, RowShapes, LockHeld, QueueWhole, BatchWhole, NoTornGameTrains

LEMMA WorkerKeepsRows ==
  ASSUME RInv, TornInv, NEW w \in Workers, WorkerStep(w) \/ Panic(w)
  PROVE  TornInv'
<1> USE DEF Goto
<1>0. pc \in [Workers -> PC]
  BY DEF RInv, Shapes
<1>1. CASE NextGame(w)
  <2>1. UNCHANGED <<results, batch, ring, done, poisoned, lock, game, seq>>
    BY <1>1 DEF NextGame, queueVars, feedVars
  <2>2. pc'[w] \in {"move", "exit"} /\ pc[w] = "top"
        /\ \A v \in Workers : v # w => pc'[v] = pc[v]
    BY <1>0, <1>1 DEF NextGame
  <2> QED BY <2>1, <2>2, RowsUntouched
<1>2. CASE LeaveGame(w) \/ Search(w) \/ PlayUnsearched(w) \/ Submit(w) \/ Answered(w)
           \/ NotAnswered(w) \/ SearchLoop(w)
  <2>1. UNCHANGED <<results, batch, ring, done, poisoned, lock, game, seq>>
    BY <1>2 DEF LeaveGame, Search, PlayUnsearched, Submit, Answered, NotAnswered, SearchLoop,
                queueVars, countVars, gameVars, feedVars
  <2>2. /\ pc'[w] \notin {"rows", "meta"} /\ pc[w] \notin {"rows", "meta"}
        /\ \A v \in Workers : v # w => pc'[v] = pc[v]
    BY <1>0, <1>2 DEF LeaveGame, Search, PlayUnsearched, Submit, Answered, NotAnswered,
                      SearchLoop
  <2> QED BY <2>1, <2>2, RowsUntouched
<1>3. CASE SeamOrShutdown(w) \/ Record(w)
  <2>1. UNCHANGED <<results, batch, ring, done, poisoned, lock, game, seq>>
    BY <1>3 DEF SeamOrShutdown, Record, queueVars, countVars, gameVars, feedVars
  <2>2. /\ pc'[w] \notin {"rows", "meta"} /\ pc[w] \notin {"rows", "meta"}
        /\ \A v \in Workers : v # w => pc'[v] = pc[v]
    BY <1>0, <1>3 DEF SeamOrShutdown, Record
  <2> QED BY <2>1, <2>2, RowsUntouched
<1>4. CASE HaltStep(w)
  <2>1. UNCHANGED <<results, batch, ring, done, poisoned, lock, game, seq>>
    BY <1>4 DEF HaltStep, StoreFatal, CountFatal, Halt, CountPanic,
                queueVars, countVars, gameVars, feedVars
  <2>2. /\ pc'[w] \notin {"rows", "meta"} /\ pc[w] \notin {"rows", "meta"}
        /\ \A v \in Workers : v # w => pc'[v] = pc[v]
    BY <1>0, <1>4 DEF HaltStep, StoreFatal, CountFatal, Halt, CountPanic
  <2> QED BY <2>1, <2>2, RowsUntouched
<1>5. CASE GameOver(w)
  <2>1. /\ UNCHANGED <<results, batch, ring, done, poisoned, lock>>
        /\ pc[w] = "over" /\ pc'[w] \in {"finalize", "top"}
        /\ \A v \in Workers : v # w => pc'[v] = pc[v] /\ game'[v] = game[v]
        /\ game' \in [Workers -> Nat] /\ seq' \in Nat
    BY <1>0, <1>5 DEF GameOver, queueVars, feedVars, TornInv, RowShapes
  <2>2. lock # w
    BY <2>1 DEF TornInv, LockHeld
  <2>3. RowShapes' /\ LockHeld'
    BY <2>1 DEF TornInv, RowShapes, LockHeld
  <2>4. QueueWhole'
    BY <2>1, <2>2 DEF TornInv, QueueWhole
  <2> QED BY <2>1, <2>3, <2>4 DEF TornInv, BatchWhole, NoTornGameTrains
<1>6. CASE TakeLock(w)
  <2>1. /\ UNCHANGED <<results, batch, ring, done, poisoned, game, seq>>
        /\ lock = Free /\ lock' = w /\ pc'[w] = "rows"
        /\ \A v \in Workers : v # w => pc'[v] = pc[v]
    BY <1>0, <1>6 DEF TakeLock, gameVars, countVars, feedVars
  <2>2. \A v \in Workers : v # Free
    BY RunnerAssumption
  <2>3. RowShapes' /\ LockHeld'
    BY <2>1, <2>2 DEF TornInv, RowShapes, LockHeld
  <2>4. QueueWhole'
    BY <2>1, <2>2 DEF TornInv, QueueWhole
  <2> QED BY <2>1, <2>3, <2>4 DEF TornInv, BatchWhole, NoTornGameTrains
<1>7. CASE PushRow(w)
  <2>1. /\ UNCHANGED <<pc, batch, ring, done, poisoned, lock, game, seq>>
        /\ results' = Append(results, game[w]) /\ lock = w
    BY <1>7 DEF PushRow, countVars, feedVars, TornInv, LockHeld
  <2>2. results \in Seq(Nat) /\ game[w] \in Nat
    BY DEF TornInv, RowShapes
  <2>3. /\ results' \in Seq(Nat) /\ Len(results') = Len(results) + 1 /\ Len(results) \in Nat
        /\ \A i \in 1 .. Len(results) : results'[i] = results[i]
        /\ results'[Len(results) + 1] = game[w]
    BY <2>1, <2>2, AppendProperties, LenProperties
  <2>4. RowShapes' /\ LockHeld'
    BY <2>1, <2>3 DEF TornInv, RowShapes, LockHeld
  <2>5. QueueWhole'
    <3> SUFFICES ASSUME ~poisoned, NEW i \in 1 .. Len(results) + 1
                 PROVE  \/ results'[i] \in done
                        \/ \E v \in Workers : lock = v /\ results'[i] = game[v]
      BY <2>1, <2>3 DEF QueueWhole
    <3>1. CASE i = Len(results) + 1
      BY <3>1, <2>1, <2>3
    <3>2. CASE i # Len(results) + 1
      <4>1. i \in 1 .. Len(results)
        BY <3>2, <2>3
      <4> QED BY <4>1, <2>3 DEF TornInv, QueueWhole
    <3> QED BY <3>1, <3>2
  <2> QED BY <2>1, <2>4, <2>5 DEF TornInv, BatchWhole, NoTornGameTrains
<1>8. CASE CountGame(w)
  <2>1. UNCHANGED <<results, batch, ring, done, poisoned, lock, game, seq>>
    BY <1>8 DEF CountGame, queueVars, gameVars, feedVars
  <2>2. /\ pc'[w] = "meta" /\ pc[w] = "rows"
        /\ \A v \in Workers : v # w => pc'[v] = pc[v]
    BY <1>0, <1>8 DEF CountGame
  <2> QED BY <2>1, <2>2, RowsUntouched
<1>9. CASE CloseGame(w)
  <2>1. /\ UNCHANGED <<batch, ring, poisoned, game, seq>>
        /\ results' = SubSeq(results, Overflow + 1, Len(results))
        /\ lock' = Free /\ done' = done \union {game[w]}
        /\ pc[w] = "meta" /\ pc'[w] = "top"
        /\ \A v \in Workers : v # w => pc'[v] = pc[v]
    BY <1>0, <1>9 DEF CloseGame, gameVars, feedVars
  <2>2. lock = w /\ \A v \in Workers : v # Free
    BY <2>1, RunnerAssumption DEF TornInv, LockHeld
  <2>3. /\ results \in Seq(Nat) /\ Len(results) \in Nat /\ Overflow \in Nat
        /\ \A i \in 1 .. Len(results) : results[i] \in Nat
    BY LenProperties, ElementOfSeq, RunnerAssumption DEF TornInv, RowShapes, Overflow
  <2>4. /\ results' \in Seq(Nat)
        /\ Len(results') = (IF Overflow + 1 <= Len(results)
                            THEN Len(results) - (Overflow + 1) + 1 ELSE 0)
        /\ \A i \in 1 .. Len(results) - (Overflow + 1) + 1 :
             results'[i] = results[(Overflow + 1) + i - 1]
    <3>1. \A i \in Overflow + 1 .. Len(results) : results[i] \in Nat
      BY <2>3
    <3>2. Overflow + 1 \in Int /\ Len(results) \in Int
      BY <2>3
    <3> QED BY <2>1, <3>1, <3>2, SubSeqProperties
  <2>5. ASSUME ~poisoned, NEW i \in 1 .. Len(results') PROVE results'[i] \in done'
    <3>1. /\ (Overflow + 1) + i - 1 \in 1 .. Len(results)
          /\ results'[i] = results[(Overflow + 1) + i - 1]
      BY <2>3, <2>4
    <3>2. \A k \in 1 .. Len(results) : results[k] \in done \/ results[k] = game[w]
      BY <2>2, <2>5 DEF TornInv, QueueWhole
    <3> QED BY <3>1, <3>2, <2>1
  <2>6. RowShapes' /\ LockHeld'
    BY <2>1, <2>2, <2>4 DEF TornInv, RowShapes, LockHeld
  <2>7. QueueWhole'
    BY <2>1, <2>5 DEF QueueWhole
  <2> QED BY <2>1, <2>6, <2>7 DEF TornInv, BatchWhole, NoTornGameTrains
<1>10. CASE Panic(w)
  <2>1. /\ UNCHANGED <<results, batch, ring, done, game, seq>>
        /\ poisoned' = (poisoned \/ lock = w)
        /\ lock' = IF lock = w THEN Free ELSE lock
        /\ pc'[w] = "panicked" /\ \A v \in Workers : v # w => pc'[v] = pc[v]
    BY <1>0, <1>10 DEF Panic, gameVars, countVars, feedVars
  <2>2. \A v \in Workers : v # Free
    BY RunnerAssumption
  <2>3. RowShapes' /\ LockHeld'
    BY <2>1, <2>2 DEF TornInv, RowShapes, LockHeld
  <2>4. QueueWhole'
    BY <2>1, <2>2 DEF TornInv, QueueWhole
  <2> QED BY <2>1, <2>3, <2>4 DEF TornInv, BatchWhole, NoTornGameTrains
<1> QED BY <1>1, <1>2, <1>3, <1>4, <1>5, <1>6, <1>7, <1>8, <1>9, <1>10
           DEF WorkerStep, PlayStep, EndStep

\* push_graph appends the batch's rows, all of them or the ones before a refusal.
LEMMA RowsAppended ==
  ASSUME TornInv, NEW n \in 0 .. Len(batch), ring' = ring \o Translated(n),
         done' = done
  PROVE  NoTornGameTrains' /\ \E S : ring' \in Seq(S)
<1> DEFINE t == Translated(n)
<1>1. n \in Nat /\ \A i \in 1 .. n : batch[i] \in done
  BY LenProperties DEF TornInv, RowShapes, BatchWhole
<1>2. PICK S : ring \in Seq(S)
  BY DEF TornInv, RowShapes
<1> DEFINE T == S \cup {t[i] : i \in 1 .. n}
<1>3. t \in Seq(T) /\ Len(t) = n /\ \A i \in 1 .. n : t[i].game = batch[i]
  <2>1. t = [i \in 1 .. n |-> t[i]] /\ DOMAIN t = 1 .. n
    BY DEF Translated
  <2>2. \A i \in 1 .. n : t[i].game = batch[i]
    BY DEF Translated
  <2> HIDE DEF t
  <2>3. [i \in 1 .. n |-> t[i]] \in Seq(T)
    BY <1>1, IsASeq
  <2> QED BY <1>1, <2>1, <2>2, <2>3, LenProperties
<1>4. ring \in Seq(T)
  <2>1. S \subseteq T
    OBVIOUS
  <2> HIDE DEF T
  <2> QED BY <1>2, <2>1, SeqMonotonic
<1> HIDE DEF t, T
<1>5. /\ ring' \in Seq(T) /\ Len(ring') = Len(ring) + n
      /\ \A i \in 1 .. Len(ring) + n :
           ring'[i] = IF i <= Len(ring) THEN ring[i] ELSE t[i - Len(ring)]
  <2>1. ring' = ring \o t
    BY DEF t
  <2>2. /\ ring \o t \in Seq(T) /\ Len(ring \o t) = Len(ring) + Len(t)
        /\ \A i \in 1 .. Len(ring) + Len(t) :
             (ring \o t)[i] = IF i <= Len(ring) THEN ring[i] ELSE t[i - Len(ring)]
    BY <1>3, <1>4, ConcatProperties
  <2> QED BY <1>3, <2>1, <2>2
<1>6. ASSUME NEW i \in 1 .. Len(ring') PROVE ring'[i].game \in done
  <2>0. Len(ring) \in Nat
    BY <1>4, LenProperties
  <2>1. CASE i <= Len(ring)
    BY <2>0, <2>1, <1>5 DEF TornInv, NoTornGameTrains
  <2>2. CASE ~(i <= Len(ring))
    <3>1. i - Len(ring) \in 1 .. n
      BY <2>0, <2>2, <1>1, <1>5
    <3> QED BY <3>1, <2>2, <1>1, <1>3, <1>5
  <2> QED BY <2>1, <2>2
<1> QED BY <1>5, <1>6 DEF NoTornGameTrains

LEMMA FeederKeepsRows ==
  ASSUME TornInv, FeederStep
  PROVE  TornInv'
<1>1. CASE CheckFatal \/ ReadGames \/ DrainResults
  <2>1. UNCHANGED <<results, batch, ring, done, poisoned, lock, game, seq, pc>>
    BY <1>1 DEF CheckFatal, ReadGames, DrainResults, Dies, queueVars, countVars, gameVars
  <2> QED BY <2>1, RowsUntouched
<1>2. CASE DrainRows
  <2>1. UNCHANGED <<ring, done, poisoned, lock, game, seq, pc>> /\ lock = Free
    BY <1>2 DEF DrainRows, countVars, gameVars
  <2>2. CASE poisoned
    <3>1. UNCHANGED <<batch, results>>
      BY <1>2, <2>2 DEF DrainRows
    <3> QED BY <2>1, <3>1, RowsUntouched
  <2>3. CASE ~poisoned
    <3>1. batch' = results /\ results' = <<>>
      BY <1>2, <2>3 DEF DrainRows
    <3>2. BatchWhole'
      BY <2>1, <2>3, <3>1, RunnerAssumption DEF TornInv, QueueWhole, BatchWhole
    <3>3. RowShapes' /\ LockHeld'
      BY <2>1, <3>1, EmptySeq DEF TornInv, RowShapes, LockHeld
    <3>4. QueueWhole'
      BY <3>1, EmptySeq DEF QueueWhole
    <3> QED BY <2>1, <3>2, <3>3, <3>4 DEF TornInv, NoTornGameTrains
  <2> QED BY <2>2, <2>3
<1>3. CASE Push
  <2>1. /\ UNCHANGED <<results, done, poisoned, lock, game, seq, pc>> /\ batch' = <<>>
        /\ ring' = ring \o Translated(Len(batch))
    BY <1>3 DEF Push, queueVars, countVars, gameVars
  <2>2. Len(batch) \in 0 .. Len(batch)
    BY LenProperties DEF TornInv, RowShapes
  <2>3. NoTornGameTrains' /\ \E S : ring' \in Seq(S)
    BY <2>1, <2>2, RowsAppended
  <2>4. RowShapes' /\ LockHeld' /\ QueueWhole'
    <3>1. batch' \in Seq(Nat)
      BY <2>1, EmptySeq
    <3> QED BY <2>1, <2>3, <3>1 DEF TornInv, RowShapes, LockHeld, QueueWhole
  <2>5. BatchWhole'
    BY <2>1, EmptySeq DEF BatchWhole
  <2> QED BY <2>3, <2>4, <2>5 DEF TornInv
<1>4. CASE PushRefused
  <2>1. UNCHANGED <<results, done, poisoned, lock, game, seq, pc>>
    BY <1>4 DEF PushRefused, queueVars, countVars, gameVars
  <2>2. PICK n \in 1 .. Len(batch) : /\ ring' = ring \o Translated(n - 1)
                                     /\ batch' = SubSeq(batch, n, Len(batch))
    BY <1>4 DEF PushRefused
  <2>3. batch \in Seq(Nat) /\ Len(batch) \in Nat
        /\ \A i \in 1 .. Len(batch) : batch[i] \in Nat
    BY LenProperties, ElementOfSeq DEF TornInv, RowShapes
  <2>4. n - 1 \in 0 .. Len(batch)
    BY <2>3
  <2>5. NoTornGameTrains' /\ \E S : ring' \in Seq(S)
    BY <2>1, <2>2, <2>4, RowsAppended
  <2>6. /\ batch' \in Seq(Nat) /\ Len(batch') = Len(batch) - n + 1
        /\ \A i \in 1 .. Len(batch) - n + 1 : batch'[i] = batch[n + i - 1]
    <3>1. n \in Int /\ Len(batch) \in Int /\ n <= Len(batch)
          /\ \A i \in n .. Len(batch) : batch[i] \in Nat
      BY <2>3
    <3> QED BY <2>2, <3>1, SubSeqProperties
  <2>7. BatchWhole'
    <3>1. \A i \in 1 .. Len(batch) - n + 1 : n + i - 1 \in 1 .. Len(batch)
      BY <2>3
    <3> QED BY <2>1, <2>6, <3>1 DEF TornInv, BatchWhole
  <2>8. RowShapes' /\ LockHeld' /\ QueueWhole'
    BY <2>1, <2>5, <2>6 DEF TornInv, RowShapes, LockHeld, QueueWhole
  <2> QED BY <2>5, <2>7, <2>8 DEF TornInv
<1> QED BY <1>1, <1>2, <1>3, <1>4 DEF FeederStep

LEMMA TrainerKeepsRows ==
  ASSUME RInv, TornInv, Start \/ ServerDies \/ CheckHealth \/ StopPool \/ StopStep
  PROVE  TornInv'
<1>1. UNCHANGED <<results, batch, ring, done, poisoned, lock, game, seq>>
  BY DEF Start, ServerDies, CheckHealth, StopPool, StopStep, StopFlag, StopClose, StopServer,
         queueVars, countVars, gameVars, feedVars
<1>2. CASE Start
  <2>1. \A w \in Workers : pc[w] = "off" /\ pc'[w] = "top"
    BY <1>2 DEF Start, RInv, NotStarted
  <2> QED BY <1>1, <2>1, RowsUntouched
<1>3. CASE ServerDies \/ CheckHealth \/ StopPool \/ StopStep
  <2>1. pc' = pc
    BY <1>3 DEF ServerDies, CheckHealth, StopPool, StopStep, StopFlag, StopClose, StopServer
  <2> QED BY <1>1, <2>1, RowsUntouched
<1> QED BY <1>2, <1>3

\* A game whose finalize panicked under the lock never reaches the replay ring:
\* drain_graph_records refuses a poisoned queue, and until one is poisoned the queue
\* holds whole games only.
THEOREM TornGameNeverTrains == Spec => []NoTornGameTrains
<1>1. RInv /\ TornInv /\ [Next]_vars => TornInv'
  <2> SUFFICES ASSUME RInv, TornInv, [Next]_vars PROVE TornInv'
    OBVIOUS
  <2>1. CASE UNCHANGED vars
    <3>1. UNCHANGED <<results, batch, ring, done, poisoned, lock, game, seq, pc>>
      BY <2>1 DEF vars, queueVars, countVars, gameVars, feedVars
    <3> QED BY <3>1, RowsUntouched
  <2> QED BY <2>1, WorkerKeepsRows, FeederKeepsRows, TrainerKeepsRows DEF Next
<1>2. TornInv => NoTornGameTrains
  BY DEF TornInv
<1> QED BY RunnerInvariant, InitTornInv, <1>1, <1>2, PTL DEF Spec

-----------------------------------------------------------------------------
(* The supervised run                                                      *)


\* The phases in which the run has passed its own prctl, or never needs it.
PastPrctl == {"gateRecheck", "none", "dead"} \cup Running

-----------------------------------------------------------------------------
(* One child at a time *)

\* The supervisor only forks over a dead child.  What makes its SIGKILL final
\* is that a wrapped run which is past its gate is armed against its wrapper,
\* and that the supervisor never kills a child still in the gate.
OneChildInv ==
    /\ ~overlap
    /\ sup \in {"spawn", "claim"} => ~Alive
    /\ sup = "grace" => phase \notin Trampoline \cup Gate
    /\ wrapper => launcher = "wrapped"
    /\ wrapper /\ phase \in PastPrctl => armedRun = "own"
    /\ phase \in Trampoline \cup Gate \cup PastPrctl

\* The definitions every step of this section opens.
LEMMA OneChildInit == SupervisionInit => OneChildInv
  BY DEF SupervisionInit, OneChildInv, Alive, Trampoline, Gate, PastPrctl, Running, Watched

\* SIGTERM and SIGKILL: the child dies, or stays where it was, and a SIGKILL of
\* a child past its gate is its death.
LEMMA SignalsKeep ==
  ASSUME OneChildInv, ReceiveSigterm \/ ReceiveSigkill, UNCHANGED launcher
  PROVE  /\ phase' \in {phase, "dead"}
         /\ wrapper' => launcher' = "wrapped"
         /\ wrapper' /\ phase' \in PastPrctl => armedRun' = "own"
         /\ ReceiveSigkill /\ phase \notin Trampoline \cup Gate => phase' \in {"none", "dead"}
  BY DEF OneChildInv, ReceiveSigterm, ReceiveSigkill, Exit, Blank, Orphaned, Alive, PastPrctl,
         Trampoline, Gate, Running, Watched, childVars, armVars, mainVars, wdVars

LEMMA OneChildSupervisor ==
  ASSUME OneChildInv, Supervisor \/ WatchStale
  PROVE  OneChildInv'
<1> USE DEF OneChildInv, Alive, PastPrctl, Trampoline, Gate, Running, Watched,
            childVars, armVars, supFrame
<1>1. CASE Fork
  BY <1>1 DEF Fork, Blank
<1>2. CASE Note \/ Watch \/ WaitTimeout
  BY <1>2 DEF Note, Watch, WaitTimeout
<1>3. CASE OnChildExit \/ AfterKill \/ Send \/ Stopped \/ Unreaped
  <2>1. CASE \E c : Gone(c) /\ UNCHANGED <<launcher, spawned, file, overlap>>
    <3>1. sup' = "gone" /\ UNCHANGED <<launcher, overlap>>
      BY <2>1 DEF Gone
    <3>2. CASE ReceiveSigkill
      BY <3>1, <3>2, SignalsKeep
    <3>3. CASE UNCHANGED childVars
      BY <3>1, <3>3
    <3> QED
      BY <2>1, <3>2, <3>3 DEF Gone
  <2>2. CASE sup' = "spawn" /\ UNCHANGED <<launcher, overlap, childVars>> /\ ~Alive
    BY <2>2
  <2>3. CASE sup' = "wait" /\ ReceiveSigterm /\ UNCHANGED <<launcher, overlap>>
    BY <2>3, SignalsKeep
  <2> QED
    BY <1>3, <2>1, <2>2, <2>3 DEF OnChildExit, AfterKill, Send, Stopped, Unreaped, Claim
<1>4. CASE GraceOver \/ ForceKill
  <2>1. CASE GraceOver
    <3>1. ReceiveSigkill /\ sup = "grace" /\ sup' = "claim" /\ UNCHANGED <<launcher, overlap>>
      BY <2>1 DEF GraceOver
    <3>2. phase' \in {"none", "dead"}
      BY <3>1, SignalsKeep
    <3> QED
      BY <3>1, <3>2, SignalsKeep
  <2>2. CASE ForceKill
    <3>1. sup' = "reap" /\ UNCHANGED <<launcher, overlap>>
      BY <2>2 DEF ForceKill
    <3>2. CASE ReceiveSigkill
      BY <3>1, <3>2, SignalsKeep
    <3>3. CASE UNCHANGED childVars
      BY <3>1, <3>3
    <3> QED
      BY <2>2, <3>2, <3>3 DEF ForceKill
  <2> QED
    BY <1>4, <2>1, <2>2
<1>5. CASE WatchStale
  <2>1. ReceiveSigterm /\ sup' = "grace" /\ phase \notin Trampoline \cup Gate
        /\ UNCHANGED <<launcher, overlap>>
    BY <1>5 DEF WatchStale
  <2> QED
    BY <2>1, SignalsKeep
<1> QED
  BY <1>1, <1>2, <1>3, <1>4, <1>5 DEF Supervisor

LEMMA OneChildArming ==
  ASSUME OneChildInv, ArmTrampoline \/ ArmRun
  PROVE  OneChildInv'
<1> USE DEF OneChildInv, Alive, PastPrctl, Trampoline, Gate, Running, Watched,
            outside, supVars, armVars
<1>1. CASE ArmTrampoline
  <2>1. CASE phase \in {"capture", "prctl"}
    BY <1>1, <2>1 DEF ArmTrampoline
  <2>2. CASE phase = "recheck" /\ ppid # Parent
    BY <1>1, <2>2 DEF ArmTrampoline, Exit, Blank
  <2>3. CASE phase = "recheck" /\ ppid = Parent
    <3>1. phase' = "gate" /\ wrapper' = (launcher = "wrapped")
          /\ UNCHANGED <<launcher, sup, overlap>>
      BY <1>1, <2>3 DEF ArmTrampoline
    <3> QED
      BY <2>3, <3>1
  <2> QED
    BY <1>1, <2>1, <2>2, <2>3 DEF ArmTrampoline
<1>2. CASE ArmRun
  BY <1>2 DEF ArmRun, Exit, Blank, Parent
<1> QED
  BY <1>1, <1>2

LEMMA OneChildMain ==
  ASSUME OneChildInv, Main \/ WatchdogThread
  PROVE  OneChildInv'
<1> USE DEF OneChildInv, Alive, PastPrctl, Trampoline, Gate, Running, Watched,
            outside, supVars, armVars, Exit, Blank
<1>1. CASE Main
  BY <1>1 DEF Main, Compose, LoopEnds, CloseOut, Disarm, Finish, Traceback, HandleSigterm, MainRuns
<1>2. CASE WdFire
  BY <1>2 DEF WdFire, WdRuns
<1>3. CASE WdPoll \/ WdLag \/ WdStale \/ WdFresh \/ WdBudget \/ WdMirror
  BY <1>3 DEF WdPoll, WdLag, WdStale, WdFires, WdFresh, WdBudget, WdMirror, wdFrame
<1> QED
  BY <1>1, <1>2, <1>3 DEF WatchdogThread

LEMMA OneChildEnvironment ==
  ASSUME OneChildInv, Environment
  PROVE  OneChildInv'
<1> USE DEF OneChildInv, Alive, PastPrctl, Trampoline, Gate, Running, Watched,
            outside, supVars, armVars, childVars
<1>1. CASE Press
  <2>1. UNCHANGED <<launcher, overlap>> /\ sup' \in {"send", "wait", "force", "gone"}
    BY <1>1 DEF Press, Ladder, Gone, supFrame
  <2>2. CASE ReceiveSigterm \/ ReceiveSigkill
    BY <2>1, <2>2, SignalsKeep
  <2>3. CASE UNCHANGED childVars
    BY <2>1, <2>3
  <2> QED
    BY <1>1, <2>2, <2>3 DEF Press, Gone
<1>2. CASE Raise
  BY <1>2 DEF Raise, Ladder, supFrame
<1>3. CASE Crash
  <2>1. sup' = "gone" /\ UNCHANGED <<launcher, overlap>>
    BY <1>3 DEF Crash, Gone
  <2>2. CASE ReceiveSigkill
    BY <2>1, <2>2, SignalsKeep
  <2>3. CASE UNCHANGED childVars
    BY <2>1, <2>3
  <2> QED
    BY <1>3, <2>2, <2>3 DEF Crash, Gone
<1>4. CASE Wedge \/ GuardFires \/ StickSink \/ RunOver
  BY <1>4 DEF Wedge, GuardFires, StickSink, RunOver, wdFrame, timeFrame
<1> QED
  BY <1>1, <1>2, <1>3, <1>4 DEF Environment

LEMMA OneChildStep == OneChildInv /\ [SupervisionNext]_supervisionVars => OneChildInv'
<1> SUFFICES ASSUME OneChildInv, [SupervisionNext]_supervisionVars PROVE OneChildInv'
  OBVIOUS
<1>1. CASE SupervisionNext
  BY <1>1, OneChildSupervisor, OneChildArming, OneChildMain, OneChildEnvironment DEF SupervisionNext
<1>2. CASE UNCHANGED supervisionVars
  BY <1>2 DEF supervisionVars, supVars, childVars, armVars, OneChildInv, Alive
<1> QED
  BY <1>1, <1>2

\* The supervisor never forks a run while the last one lives (supervise.py,
\* _watch and _kill), with any launcher: two runs would share the device and
\* the run directory.
THEOREM OneChildAlways == SupervisionSpec => []OneChild
<1>1. OneChildInv => OneChild
  BY DEF OneChildInv, OneChild
<1> QED
  BY <1>1, OneChildInit, OneChildStep, PTL DEF SupervisionSpec

-----------------------------------------------------------------------------
(* No direct run without its supervisor *)

\* The two armings meet: from the trampoline's recheck on, the child of a live
\* supervisor is armed against it, and what outlives a supervisor in the
\* trampoline stops at the run's gate.
DirectInv ==
    launcher = "direct" =>
        /\ wrapper = FALSE
        /\ sup = "gone" => phase \notin Running \cup (Gate \ {"gate"})
        /\ sup # "gone" /\ phase \in {"recheck"} \cup Gate \cup Running =>
               armedTrampoline = "own"

\* What a step of the supervisor, or a signal, may do to its child.
DeadOrSame ==
    \/ phase' = "dead" /\ wrapper' = FALSE
    \/ UNCHANGED <<phase, wrapper, armedTrampoline>>

LEMMA SignalsDirect ==
  ASSUME DirectInv, launcher = "direct", ReceiveSigterm \/ ReceiveSigkill
  PROVE  DeadOrSame /\ (ReceiveSigkill => phase' \in {"none", "dead"})
  BY DEF DirectInv, DeadOrSame, ReceiveSigterm, ReceiveSigkill, Exit, Blank, Orphaned, Alive,
         childVars, armVars

\* The supervisor goes: the child it had armed goes with it.
LEMMA GoneDirect ==
  ASSUME DirectInv, launcher = "direct", UNCHANGED launcher, sup # "gone", NEW c, Gone(c)
  PROVE  DirectInv'
<1>1. sup' = "gone"
  BY DEF Gone
<1>2. CASE armedTrampoline = "own"
  BY <1>1, <1>2, SignalsDirect DEF Gone, DirectInv, DeadOrSame, Running, Watched, Gate
<1>3. CASE armedTrampoline # "own"
  BY <1>1, <1>3 DEF Gone, DirectInv, childVars, armVars, Gate, Running, Watched
<1> QED
  BY <1>2, <1>3

LEMMA DirectSupervisor ==
  ASSUME DirectInv, launcher = "direct",
         Supervisor \/ WatchStale \/ Press \/ Raise \/ Crash
  PROVE  DirectInv'
<1>1. sup # "gone" /\ UNCHANGED launcher
  BY DEF Supervisor, WatchStale, Press, Raise, Crash, Fork, Note, OnChildExit, Watch, GraceOver,
         AfterKill, Send, Stopped, WaitTimeout, ForceKill, Unreaped, supFrame, Loop
<1>2. CASE \E c : Gone(c)
  BY <1>1, <1>2, GoneDirect
<1>3. CASE Fork
  BY <1>1, <1>3 DEF Fork, Blank, DirectInv, Gate, Running, Watched
<1>4. CASE sup' # "gone" /\ (DeadOrSame \/ UNCHANGED childVars)
  BY <1>1, <1>4 DEF DeadOrSame, DirectInv, childVars, armVars, Gate, Running, Watched
<1>5. CASE ~Fork /\ ~\E c : Gone(c)
  <2>1. sup' # "gone" /\ (ReceiveSigterm \/ ReceiveSigkill \/ UNCHANGED childVars)
    BY <1>1, <1>5 DEF Supervisor, WatchStale, Press, Raise, Crash, Note, OnChildExit, Watch,
         GraceOver, AfterKill, Send, Stopped, WaitTimeout, ForceKill, Unreaped, supFrame, Loop,
         Ladder, Claim
  <2> QED
    BY <2>1, <1>4, SignalsDirect
<1> QED
  BY <1>2, <1>3, <1>5

LEMMA DirectChild ==
  ASSUME DirectInv, launcher = "direct",
         ArmTrampoline \/ ArmRun \/ Main \/ WatchdogThread
             \/ Wedge \/ GuardFires \/ StickSink \/ RunOver
  PROVE  DirectInv'
<1> USE DEF DirectInv, Gate, Running, Watched, outside, supVars, armVars, Exit, Blank
<1>1. CASE ArmTrampoline
  <2>1. CASE phase \in {"capture", "prctl"}
    BY <1>1, <2>1 DEF ArmTrampoline, TrampolineArms, Parent
  <2>2. CASE phase = "recheck"
    BY <1>1, <2>2 DEF ArmTrampoline, Parent
  <2> QED
    BY <1>1, <2>1, <2>2 DEF ArmTrampoline
<1>2. CASE ArmRun
  BY <1>2 DEF ArmRun, Parent
<1>3. CASE Main
  BY <1>3 DEF Main, Compose, LoopEnds, CloseOut, Disarm, Finish, Traceback, HandleSigterm, MainRuns, Alive
<1>4. CASE WatchdogThread
  BY <1>4 DEF WatchdogThread, WdPoll, WdLag, WdStale, WdFires, WdFresh, WdBudget, WdMirror, WdFire,
              WdRuns, wdFrame
<1>5. CASE Wedge \/ GuardFires \/ StickSink \/ RunOver
  BY <1>5 DEF Wedge, GuardFires, StickSink, RunOver, wdFrame, timeFrame
<1> QED
  BY <1>1, <1>2, <1>3, <1>4, <1>5

LEMMA LauncherFixed == [SupervisionNext]_supervisionVars => UNCHANGED launcher
  BY DEF SupervisionNext, supervisionVars, supVars, Supervisor, WatchStale, ArmTrampoline, ArmRun, Main, WatchdogThread,
         Environment, Fork, Note, OnChildExit, Watch, GraceOver, AfterKill, Send, Stopped,
         WaitTimeout, ForceKill, Unreaped, Press, Raise, Crash, Compose, LoopEnds, Disarm, Finish,
         Traceback, HandleSigterm, WdPoll, WdLag, WdStale, WdFires, WdFresh, WdBudget, WdMirror,
         WdFire, Wedge, GuardFires, StickSink, RunOver, supFrame, outside, wdFrame, timeFrame

LEMMA DirectStep == DirectInv /\ [SupervisionNext]_supervisionVars => DirectInv'
<1> SUFFICES ASSUME DirectInv, [SupervisionNext]_supervisionVars, launcher = "direct" PROVE DirectInv'
  BY LauncherFixed DEF DirectInv
<1>1. CASE SupervisionNext
  BY <1>1, DirectSupervisor, DirectChild DEF SupervisionNext, Environment
<1>2. CASE UNCHANGED supervisionVars
  BY <1>2 DEF supervisionVars, supVars, childVars, armVars, DirectInv
<1> QED
  BY <1>1, <1>2

\* A run the supervisor launched directly never trains on without it
\* (signals.py, arm_parent_death_signal and arm_parent_death_if_supervised),
\* wherever in its boot the supervisor dies.
THEOREM DirectRunAlwaysDies == SupervisionSpec => []DirectRunDiesToo
<1>1. SupervisionInit => DirectInv
  BY DEF SupervisionInit, DirectInv, Gate, Running, Watched
<1>2. DirectInv => DirectRunDiesToo
  BY DEF DirectInv, DirectRunDiesToo
<1> QED
  BY <1>1, <1>2, DirectStep, PTL DEF SupervisionSpec

-----------------------------------------------------------------------------
(* A long close-out is no stall *)

\* Once the staleness check is disarmed only a poll caught between its check
\* and its verdict, or the close-out budget, can still bring a stall exit.
CloseOutInv ==
    /\ fire # NoCode => wd \in {"fire", "hung"} /\ phase \in Watched
    /\ phase \in {"disarmed", "epilogue"} =>
           /\ stalenessArmed = FALSE
           /\ wd = "ages" => inFlight
           /\ fire = Stall => over \/ inFlight

LEMMA CloseOutOthers ==
  ASSUME CloseOutInv, Supervisor \/ WatchStale \/ ArmTrampoline \/ ArmRun \/ Environment
  PROVE  CloseOutInv'
<1> USE DEF CloseOutInv, Watched, childVars, armVars, mainVars, wdVars, outside, supVars, supFrame
<1>1. CASE UNCHANGED wdVars /\ (UNCHANGED phase \/ {phase, phase'} \cap Watched = {})
  BY <1>1
<1>2. CASE phase' \in {"capture", "dead"} /\ Blank
  BY <1>2 DEF Blank
<1>3. CASE StickSink \/ RunOver
  BY <1>3 DEF StickSink, RunOver, wdFrame, timeFrame
<1>4. CASE ReceiveSigterm \/ ReceiveSigkill
  BY <1>1, <1>2, <1>4 DEF ReceiveSigterm, ReceiveSigkill, Exit
<1>5. CASE \E c : Gone(c)
  BY <1>1, <1>4, <1>5 DEF Gone
<1>6. CASE Supervisor \/ WatchStale
  BY <1>6, <1>1, <1>2, <1>4, <1>5 DEF Supervisor, WatchStale, Fork, Note, OnChildExit, Watch,
     GraceOver, AfterKill, Send, Stopped, WaitTimeout, ForceKill, Unreaped, Claim
<1>7. CASE ArmTrampoline \/ ArmRun
  BY <1>7, <1>1, <1>2 DEF ArmTrampoline, ArmRun, Exit
<1>8. CASE Press \/ Raise \/ Crash \/ Wedge \/ GuardFires
  BY <1>8, <1>1, <1>4, <1>5 DEF Press, Raise, Crash, Wedge, GuardFires, Ladder
<1> QED
  BY <1>3, <1>6, <1>7, <1>8 DEF Environment

LEMMA CloseOutMain ==
  ASSUME CloseOutInv, Main
  PROVE  CloseOutInv'
<1> USE DEF CloseOutInv, outside, wdVars
<1>1. CASE Compose
  BY <1>1 DEF Compose, Watched, NoCode, Stall
<1>2. CASE LoopEnds
  BY <1>2 DEF LoopEnds, CloseOut, Watched
<1>3. CASE Disarm
  <2>1. CASE phase = "disarm"
    <3>1. inFlight' <=> wd \in {"ages", "fire", "hung"}
      BY <1>3, <2>1 DEF Disarm
    <3>2. phase' = "disarmed" /\ stalenessArmed' = FALSE /\ UNCHANGED <<wd, fire>>
      BY <1>3, <2>1 DEF Disarm
    <3> QED
      BY <2>1, <3>1, <3>2 DEF Watched, NoCode, Stall
  <2>2. CASE phase = "disarmed"
    BY <1>3, <2>2 DEF Disarm, Watched
  <2> QED
    BY <1>3, <2>1, <2>2 DEF Disarm
<1>4. CASE Finish \/ Traceback \/ HandleSigterm
  BY <1>4 DEF Finish, Traceback, HandleSigterm, Exit, Blank
<1> QED
  BY <1>1, <1>2, <1>3, <1>4 DEF Main

LEMMA CloseOutWatchdog ==
  ASSUME CloseOutInv, WatchdogThread
  PROVE  CloseOutInv'
<1> USE DEF CloseOutInv, wdFrame, Firing, WdFires, WdRuns, Stall, NoCode
<1>1. CASE WdPoll
  BY <1>1 DEF WdPoll, PersistFatal
<1>2. CASE WdLag
  BY <1>2 DEF WdLag, ActorLag
<1>3. CASE WdStale
  BY <1>3 DEF WdStale
<1>4. CASE WdFresh \/ WdMirror
  BY <1>4 DEF WdFresh, WdMirror
<1>5. CASE WdBudget
  BY <1>5 DEF WdBudget, Overrun
<1>6. CASE WdFire
  BY <1>6 DEF WdFire, Exit, Blank
<1> QED
  BY <1>1, <1>2, <1>3, <1>4, <1>5, <1>6 DEF WatchdogThread

\* A close-out within its budget is never turned into a stall exit, and so into
\* a relaunch, by the staleness check it disarmed (heartbeat_watchdog.py,
\* disarm_staleness against _check_source_staleness).
THEOREM CleanFinishNeverRelaunched == SupervisionSpec => []CleanFinishNotRelaunched
<1>1. SupervisionInit => CloseOutInv
  BY DEF SupervisionInit, CloseOutInv
<1>2. CloseOutInv /\ [SupervisionNext]_supervisionVars => CloseOutInv'
  <2> SUFFICES ASSUME CloseOutInv, [SupervisionNext]_supervisionVars PROVE CloseOutInv'
    OBVIOUS
  <2>1. CASE SupervisionNext
    BY <2>1, CloseOutOthers, CloseOutMain, CloseOutWatchdog DEF SupervisionNext
  <2>2. CASE UNCHANGED supervisionVars
    BY <2>2 DEF supervisionVars, childVars, wdVars, CloseOutInv
  <2> QED
    BY <2>1, <2>2
<1>3. CloseOutInv => CleanFinishNotRelaunched
  BY DEF CloseOutInv, CleanFinishNotRelaunched
<1> QED
  BY <1>1, <1>2, <1>3, PTL DEF SupervisionSpec

=============================================================================
