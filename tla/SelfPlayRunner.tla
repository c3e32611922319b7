--------------------------- MODULE SelfPlayRunner ---------------------------
(***************************************************************************)
(* The self-play runner and the pool around it: worker threads that play   *)
(* games and append their rows to the shared results queue, the feeder     *)
(* thread that drains that queue into the replay ring, the trainer's       *)
(* health check and stop(), and the three ways a run halts itself (a       *)
(* failed inference, a target defect, a worker's panic).                   *)
(*   source: crates/mantis-selfplay/src/runner/{mod,spawn,game,            *)
(*   search_drive,finalize}.rs, src/mantis/selfplay/{pool,pool_drain,      *)
(*   pool_push}.py                                                         *)
(*                                                                         *)
(* A step is one access to shared state.  What a search computes is left   *)
(* out; what is kept of it is whether it was cut short.  The inference     *)
(* queue is GraphQueue: here a blocked worker is answered by a live server *)
(* or woken by a closed queue.                                             *)
(***************************************************************************)
EXTENDS Integers, Sequences, FiniteSets

CONSTANTS
    Workers,
    MaxMoves,     \* max_moves_per_game
    Batches,      \* inference round trips of one search
    Cap,          \* results_queue_cap
    RecentCap,    \* cap of recent_game_results
    MaxGames,     \* bound: games begun in one behaviour
    Faults,       \* what may go wrong: subset of {"server", "defect", "panic", "refuse"}
    Free          \* nobody holds the results lock

ASSUME RunnerAssumption ==
    /\ MaxMoves \in Nat /\ Batches \in Nat \ {0}
    /\ Cap \in Nat /\ RecentCap \in Nat /\ MaxGames \in Nat
    /\ Free \notin Workers

VARIABLES
    running, closed,      \* the kill switch; the inference queue's flag
    server, fault,        \* is it serving; did it fail or die by itself
    fatal, fires, panics, \* the latch's slot, its two counters, worker_panics
    pc, moves, left, kind,  \* a worker's game, search and pending latch
    cut,                  \* a stop or a halt cut the worker's game short
    rows, game,           \* records of its game still to push; its game_id
    lock, poisoned,       \* the mutex of graph_results
    results, dropped, recent,    \* the shared queues
    begun, seq, games_completed,
    done,                 \* games whose finalize ran to its end
    feeder, batch,        \* where the feeder thread is; the rows in its hands
    ring, next_game_id, announced,
    pool_games, producer_exc,
    stopper, stop_event, raised  \* the trainer thread

haltVars == <<running, closed, server, fault>>
latchVars == <<fatal, fires, panics>>
searchVars == <<moves, left, cut, kind>>
gameVars == <<rows, game>>
queueVars == <<lock, poisoned, results, dropped, recent>>
countVars == <<begun, seq, games_completed, done>>
feedVars == <<feeder, batch, ring, next_game_id, announced, pool_games,
              producer_exc>>
trainVars == <<stopper, stop_event, raised>>
vars == <<haltVars, latchVars, pc, searchVars, gameVars, queueVars, countVars,
          feedVars, trainVars>>

Init ==
    /\ running = FALSE /\ closed = FALSE /\ server = "up" /\ fault = FALSE
    /\ fatal = "none" /\ fires = [k \in {"seam", "defect"} |-> 0] /\ panics = 0
    /\ pc = [w \in Workers |-> "off"]
    /\ moves = [w \in Workers |-> 0] /\ left = [w \in Workers |-> 0]
    /\ cut = [w \in Workers |-> FALSE] /\ kind = [w \in Workers |-> "seam"]
    /\ rows = [w \in Workers |-> 0] /\ game = [w \in Workers |-> 0]
    /\ lock = Free /\ poisoned = FALSE
    /\ results = <<>> /\ dropped = 0 /\ recent = <<>>
    /\ begun = 0 /\ seq = 0 /\ games_completed = 0 /\ done = {}
    /\ feeder = "off" /\ batch = <<>> /\ ring = <<>> /\ next_game_id = 0
    /\ announced = {} /\ pool_games = 0 /\ producer_exc = FALSE
    /\ stopper = "no" /\ stop_event = FALSE /\ raised = FALSE

Goto(w, l) == pc' = [pc EXCEPT ![w] = l]

\* WorkerPool.start: the server, the runner's workers, the feeder.  A worker
\* not yet scheduled stands at the top of its loop.
Start ==
    /\ feeder = "off"
    /\ running' = TRUE
    /\ pc' = [w \in Workers |-> "top"]
    /\ feeder' = "fatal?"
    /\ UNCHANGED <<closed, server, fault, latchVars, searchVars, gameVars,
                   queueVars, countVars, batch, ring, next_game_id, announced,
                   pool_games, producer_exc, trainVars>>

-----------------------------------------------------------------------------
(* A worker: the game loop and one move of it.                             *)

NextGame(w) ==
    /\ pc[w] = "top"
    /\ IF running
       THEN /\ begun < MaxGames
            /\ begun' = begun + 1
            /\ rows' = [rows EXCEPT ![w] = 0]
            /\ moves' = [moves EXCEPT ![w] = 0]
            /\ cut' = [cut EXCEPT ![w] = FALSE]
            /\ Goto(w, "move")
       ELSE Goto(w, "exit") /\ UNCHANGED <<begun, rows, moves, cut>>
    /\ UNCHANGED <<haltVars, latchVars, left, kind, game, queueVars, seq,
                   games_completed, done, feedVars, trainVars>>

\* The head of the move loop: stopped, out of moves, or the board is decided.
LeaveGame(w) ==
    /\ pc[w] = "move"
    /\ cut' = [cut EXCEPT ![w] = @ \/ ~running]
    /\ Goto(w, "over")
    /\ UNCHANGED <<haltVars, latchVars, moves, left, kind, gameVars, queueVars,
                   countVars, feedVars, trainVars>>

\* A search begins.  A random opening ply, an unsearched decided stone or a
\* tail's stone is a move without one.

Search(w) ==
    /\ pc[w] = "move" /\ running /\ moves[w] < MaxMoves
    /\ left' = [left EXCEPT ![w] = Batches]
    /\ Goto(w, "submit")
    /\ UNCHANGED <<haltVars, latchVars, moves, cut, kind, gameVars, queueVars,
                   countVars, feedVars, trainVars>>

PlayUnsearched(w) ==
    /\ pc[w] = "move" /\ running /\ moves[w] < MaxMoves
    /\ moves' = [moves EXCEPT ![w] = @ + 1]
    /\ rows' \in {rows, [rows EXCEPT ![w] = @ + 1]}
    /\ UNCHANGED <<haltVars, latchVars, pc, left, cut, kind, game, queueVars,
                   countVars, feedVars, trainVars>>

\* submit_graphs_and_wait: a closed queue refuses at once.
Submit(w) ==
    /\ pc[w] = "submit"
    /\ Goto(w, IF closed THEN "failed" ELSE "wait")
    /\ UNCHANGED <<haltVars, latchVars, searchVars, gameVars, queueVars,
                   countVars, feedVars, trainVars>>

\* The server answers the batch.
Answered(w) ==
    /\ pc[w] = "wait" /\ server = "up"
    /\ left' = [left EXCEPT ![w] = @ - 1]
    /\ Goto(w, "loop")
    /\ UNCHANGED <<haltVars, latchVars, moves, cut, kind, gameVars, queueVars,
                   countVars, feedVars, trainVars>>

\* It answers with an error, or the queue was closed under the waiter.
NotAnswered(w) ==
    /\ pc[w] = "wait"
    /\ \/ "server" \in Faults /\ server = "up" /\ fault' = TRUE
       \/ closed /\ UNCHANGED fault
    /\ Goto(w, "failed")
    /\ UNCHANGED <<running, closed, server, latchVars, searchVars, gameVars,
                   queueVars, countVars, feedVars, trainVars>>

\* run_mcts_search: budget spent, stopped between two round trips, or on.
SearchLoop(w) ==
    /\ pc[w] = "loop"
    /\ Goto(w, IF left[w] = 0 \/ ~running THEN "check" ELSE "submit")
    /\ cut' = [cut EXCEPT ![w] = @ \/ (left[w] > 0 /\ ~running)]
    /\ UNCHANGED <<haltVars, latchVars, moves, left, kind, gameVars, queueVars,
                   countVars, feedVars, trainVars>>

\* seam_or_shutdown and settle_search: our own stop cuts the search (the root
\* unexpanded, or Completed short), anything else is latched.
SeamOrShutdown(w) ==
    /\ pc[w] = "failed"
    /\ \/ /\ running
          /\ kind' = [kind EXCEPT ![w] = "seam"]
          /\ Goto(w, "latch")
          /\ UNCHANGED <<cut, moves>>
       \/ /\ ~running
          /\ cut' = [cut EXCEPT ![w] = TRUE]
          /\ \/ Goto(w, "check") /\ UNCHANGED moves
             \/ Goto(w, "move") /\ moves' = [moves EXCEPT ![w] = @ + 1]
          /\ UNCHANGED kind
    /\ UNCHANGED <<haltVars, latchVars, left, gameVars, queueVars, countVars,
                   feedVars, trainVars>>

\* search_move after the search: stopped or no legal choice, a refused target, or
\* the record and the move (which the board may refuse).
Record(w) ==
    /\ pc[w] = "check"
    /\ cut' = [cut EXCEPT ![w] = @ \/ ~running]
    /\ \/ Goto(w, "over") /\ UNCHANGED <<kind, rows, moves>>
       \/ /\ running /\ "defect" \in Faults
          /\ kind' = [kind EXCEPT ![w] = "defect"]
          /\ Goto(w, "latch")
          /\ UNCHANGED <<rows, moves>>
       \/ /\ running
          /\ rows' = [rows EXCEPT ![w] = @ + 1]
          /\ moves' = [moves EXCEPT ![w] = @ + 1]
          /\ Goto(w, "move") \/ Goto(w, "over")
          /\ UNCHANGED kind
    /\ UNCHANGED <<haltVars, latchVars, left, game, queueVars, countVars,
                   feedVars, trainVars>>

-----------------------------------------------------------------------------
(* FatalDefectLatch.store_counted and guard_worker: store, count, halt.    *)

StoreFatal_HaltsFirst(w) ==
    /\ pc[w] = "latch"
    /\ IF running THEN running' = FALSE /\ UNCHANGED <<fatal, pc>>
       ELSE /\ fatal' = IF fatal = "none" THEN kind[w] ELSE fatal
            /\ Goto(w, "count")
            /\ UNCHANGED running
    /\ UNCHANGED <<closed, server, fault, fires, panics, searchVars, gameVars,
                   queueVars, countVars, feedVars, trainVars>>

StoreFatal(w) ==
    /\ pc[w] = "latch"
    /\ fatal' = IF fatal = "none" THEN kind[w] ELSE fatal
    /\ Goto(w, "count")
    /\ UNCHANGED <<haltVars, fires, panics, searchVars, gameVars, queueVars,
                   countVars, feedVars, trainVars>>

CountFatal(w) ==
    /\ pc[w] = "count"
    /\ fires' = [fires EXCEPT ![kind[w]] = @ + 1]
    /\ Goto(w, "halt")
    /\ UNCHANGED <<haltVars, fatal, panics, searchVars, gameVars, queueVars,
                   countVars, feedVars, trainVars>>

Halt(w) ==
    /\ pc[w] \in {"halt", "dying"}
    /\ running' = FALSE
    /\ Goto(w, IF pc[w] = "halt" THEN "over" ELSE "exit")
    /\ UNCHANGED <<closed, server, fault, latchVars, searchVars, gameVars,
                   queueVars, countVars, feedVars, trainVars>>

\* A panic unwinds the body; one under the results lock poisons it.
Panic(w) ==
    /\ "panic" \in Faults
    /\ pc[w] \in {"move", "check", "rows", "meta"}
    /\ Goto(w, "panicked")
    /\ poisoned' = (poisoned \/ lock = w)
    /\ lock' = IF lock = w THEN Free ELSE lock
    /\ UNCHANGED <<haltVars, latchVars, searchVars, gameVars, results, dropped,
                   recent, countVars, feedVars, trainVars>>

CountPanic(w) ==
    /\ pc[w] = "panicked"
    /\ panics' = panics + 1
    /\ Goto(w, "dying")
    /\ UNCHANGED <<haltVars, fatal, fires, searchVars, gameVars, queueVars,
                   countVars, feedVars, trainVars>>

-----------------------------------------------------------------------------
(* The end of a game: dropped if we are stopping, else finalize_game_graph. *)

GameOver_Finalizes(w) ==
    /\ pc[w] = "over"
    /\ game' = [game EXCEPT ![w] = seq]
    /\ seq' = seq + 1
    /\ Goto(w, "finalize")
    /\ UNCHANGED <<haltVars, latchVars, searchVars, rows, queueVars, begun,
                   games_completed, done, feedVars, trainVars>>

GameOver(w) ==
    /\ pc[w] = "over"
    /\ IF running
       THEN /\ game' = [game EXCEPT ![w] = seq]
            /\ seq' = seq + 1
            /\ Goto(w, "finalize")
       ELSE Goto(w, "top") /\ UNCHANGED <<game, seq>>
    /\ UNCHANGED <<haltVars, latchVars, searchVars, rows, queueVars, begun,
                   games_completed, done, feedVars, trainVars>>

\* lock_or_recover: the lock is taken poisoned or not.
TakeLock(w) ==
    /\ pc[w] = "finalize" /\ lock = Free
    /\ lock' = w
    /\ Goto(w, "rows")
    /\ UNCHANGED <<haltVars, latchVars, searchVars, gameVars, poisoned, results,
                   dropped, recent, countVars, feedVars, trainVars>>

PushRow(w) ==
    /\ pc[w] = "rows" /\ rows[w] > 0
    /\ results' = Append(results, game[w])
    /\ rows' = [rows EXCEPT ![w] = @ - 1]
    /\ UNCHANGED <<haltVars, latchVars, pc, searchVars, game, lock, poisoned,
                   dropped, recent, countVars, feedVars, trainVars>>

CountGame(w) ==
    /\ pc[w] = "rows" /\ rows[w] = 0
    /\ games_completed' = games_completed + 1
    /\ Goto(w, "meta")
    /\ UNCHANGED <<haltVars, latchVars, searchVars, gameVars, queueVars, begun,
                   seq, done, feedVars, trainVars>>

DropOldest(s, n) == IF Len(s) > n THEN SubSeq(s, Len(s) - n + 1, Len(s)) ELSE s

Overflow == IF Len(results) > Cap THEN Len(results) - Cap ELSE 0

\* The metadata row, then drop-oldest, then the lock is released.

CloseGame(w) ==
    /\ pc[w] = "meta"
    /\ recent' = DropOldest(Append(recent, game[w]), RecentCap)
    /\ results' = SubSeq(results, Overflow + 1, Len(results))
    /\ dropped' = dropped + Overflow
    /\ lock' = Free
    /\ done' = done \union {game[w]}
    /\ Goto(w, "top")
    /\ UNCHANGED <<haltVars, latchVars, searchVars, gameVars, poisoned, begun,
                   seq, games_completed, feedVars, trainVars>>

-----------------------------------------------------------------------------
(* The feeder: run_stats_loop under _stats_loop's guard.                   *)

Dies == producer_exc' = TRUE /\ feeder' = "dead"

\* The head of the loop, and collect_graph_data's read of the latch.
CheckFatal_Skipped ==
    /\ feeder = "fatal?"
    /\ feeder' = IF stop_event THEN "ended" ELSE "drain"
    /\ UNCHANGED producer_exc
    /\ UNCHANGED <<haltVars, latchVars, pc, searchVars, gameVars, queueVars,
                   countVars, batch, ring, next_game_id, announced, pool_games,
                   trainVars>>

CheckFatal ==
    /\ feeder = "fatal?"
    /\ IF stop_event THEN feeder' = "ended" /\ UNCHANGED producer_exc
       ELSE IF fatal # "none" THEN Dies
       ELSE feeder' = "drain" /\ UNCHANGED producer_exc
    /\ UNCHANGED <<haltVars, latchVars, pc, searchVars, gameVars, queueVars,
                   countVars, batch, ring, next_game_id, announced, pool_games,
                   trainVars>>

\* drain_graph_records: everything queued, or DrainPoisoned.
DrainRows_Recovers ==
    /\ feeder = "drain" /\ lock = Free
    /\ batch' = results /\ results' = <<>>
    /\ feeder' = "push" /\ UNCHANGED producer_exc
    /\ UNCHANGED <<haltVars, latchVars, pc, searchVars, gameVars, lock, poisoned,
                   dropped, recent, countVars, ring, next_game_id, announced,
                   pool_games, trainVars>>

DrainRows ==
    /\ feeder = "drain" /\ lock = Free
    /\ IF poisoned THEN Dies /\ UNCHANGED <<batch, results>>
       ELSE /\ batch' = results /\ results' = <<>>
            /\ feeder' = "push" /\ UNCHANGED producer_exc
    /\ UNCHANGED <<haltVars, latchVars, pc, searchVars, gameVars, lock, poisoned,
                   dropped, recent, countVars, ring, next_game_id, announced,
                   pool_games, trainVars>>

\* push_graph: `allocated` gives each runner game of the batch a ring id of its
\* own, in order of first appearance.
GamesIn(n) == {batch[i] : i \in 1..n}
FirstAt(g) == CHOOSE i \in 1..Len(batch) :
                batch[i] = g /\ \A k \in 1..(i - 1) : batch[k] # g

RingId(i) == next_game_id + Cardinality(GamesIn(FirstAt(batch[i]))) - 1
Translated(n) == [i \in 1..n |-> [game |-> batch[i], id |-> RingId(i)]]

Push ==
    /\ feeder = "push"
    /\ ring' = ring \o Translated(Len(batch))
    /\ next_game_id' = next_game_id + Cardinality(GamesIn(Len(batch)))
    /\ batch' = <<>>
    /\ feeder' = "games"
    /\ UNCHANGED <<haltVars, latchVars, pc, searchVars, gameVars, queueVars,
                   countVars, announced, pool_games, producer_exc,
                   trainVars>>

\* The engine refuses a row: the ones before it stay in the ring.
PushRefused ==
    /\ feeder = "push" /\ "refuse" \in Faults
    /\ \E n \in 1..Len(batch) :
        /\ ring' = ring \o Translated(n - 1)
        /\ next_game_id' = next_game_id + Cardinality(GamesIn(n))
        /\ batch' = SubSeq(batch, n, Len(batch))
    /\ Dies
    /\ UNCHANGED <<haltVars, latchVars, pc, searchVars, gameVars, queueVars,
                   countVars, announced, pool_games, trainVars>>

\* Under pool._lock, which no worker takes: a read of a live counter.  The win
\* counters, read one by one after it for the event stream, are left out.
ReadGames ==
    /\ feeder = "games"
    /\ pool_games' = games_completed
    /\ feeder' = "results"
    /\ UNCHANGED <<haltVars, latchVars, pc, searchVars, gameVars, queueVars,
                   countVars, batch, ring, next_game_id, announced,
                   producer_exc, trainVars>>

\* drain_game_results and its game_complete events.
DrainResults ==
    /\ feeder = "results"
    /\ announced' = announced \union {recent[i] : i \in 1..Len(recent)}
    /\ recent' = <<>>
    /\ feeder' = "fatal?"
    /\ UNCHANGED <<haltVars, latchVars, pc, searchVars, gameVars, lock, poisoned,
                   results, dropped, countVars, batch, ring, next_game_id,
                   pool_games, producer_exc, trainVars>>

-----------------------------------------------------------------------------
(* The server's own death, the trainer's health check, and stop().         *)

\* The server's loop exits by itself: its finally closes the queue.
ServerDies ==
    /\ "server" \in Faults /\ server = "up" /\ feeder # "off"
    /\ server' = "down" /\ closed' = TRUE /\ fault' = TRUE
    /\ UNCHANGED <<running, latchVars, pc, searchVars, gameVars, queueVars,
                   countVars, feedVars, trainVars>>

CheckHealth ==
    /\ feeder # "off" /\ stopper = "no" /\ ~raised
    /\ producer_exc \/ panics > 0
    /\ raised' = TRUE
    /\ UNCHANGED <<haltVars, latchVars, pc, searchVars, gameVars, queueVars,
                   countVars, feedVars, stopper, stop_event>>

StopPool ==
    /\ feeder # "off" /\ stopper = "no"
    /\ stop_event' = TRUE
    /\ stopper' = "flag"
    /\ UNCHANGED <<haltVars, latchVars, pc, searchVars, gameVars, queueVars,
                   countVars, feedVars, raised>>

StopFlag_ClosesFirst ==
    /\ stopper = "flag"
    /\ IF closed THEN running' = FALSE /\ stopper' = "close" /\ UNCHANGED closed
       ELSE closed' = TRUE /\ UNCHANGED <<running, stopper>>
    /\ UNCHANGED <<server, fault, latchVars, pc, searchVars, gameVars,
                   queueVars, countVars, feedVars, stop_event, raised>>

\* SelfPlayRunner::stop: the flag before the queue, then every worker joined.
StopFlag ==
    /\ stopper = "flag"
    /\ running' = FALSE
    /\ stopper' = "close"
    /\ UNCHANGED <<closed, server, fault, latchVars, pc, searchVars, gameVars,
                   queueVars, countVars, feedVars, stop_event, raised>>

StopClose ==
    /\ stopper = "close"
    /\ closed' = TRUE
    /\ stopper' = "join"
    /\ UNCHANGED <<running, server, fault, latchVars, pc, searchVars, gameVars,
                   queueVars, countVars, feedVars, stop_event, raised>>

StopServer ==
    /\ stopper = "join"
    /\ \A w \in Workers : pc[w] = "exit"
    /\ server' = "down"
    /\ stopper' = "done"
    /\ UNCHANGED <<running, closed, fault, latchVars, pc, searchVars, gameVars,
                   queueVars, countVars, feedVars, stop_event, raised>>

-----------------------------------------------------------------------------
PlayStep(w) ==
    \/ NextGame(w) \/ LeaveGame(w) \/ Search(w) \/ PlayUnsearched(w)
    \/ Submit(w) \/ Answered(w) \/ NotAnswered(w) \/ SearchLoop(w)
    \/ SeamOrShutdown(w) \/ Record(w)
HaltStep(w) == StoreFatal(w) \/ CountFatal(w) \/ Halt(w) \/ CountPanic(w)
EndStep(w) ==
    \/ GameOver(w) \/ TakeLock(w) \/ PushRow(w) \/ CountGame(w)
    \/ CloseGame(w)
WorkerStep(w) == PlayStep(w) \/ HaltStep(w) \/ EndStep(w)
FeederStep ==
    \/ CheckFatal \/ DrainRows \/ Push \/ PushRefused \/ ReadGames
    \/ DrainResults
StopStep == StopFlag \/ StopClose \/ StopServer

Next ==
    \/ Start
    \/ \E w \in Workers : WorkerStep(w) \/ Panic(w)
    \/ FeederStep
    \/ ServerDies \/ CheckHealth \/ StopPool \/ StopStep

Spec == Init /\ [][Next]_vars

\* Threads run; the trainer checks the pool's health at every step and runs the
\* rest of a stop() it began.  The lock is released infinitely often.
Fairness ==
    /\ \A w \in Workers : WF_vars(WorkerStep(w)) /\ SF_vars(TakeLock(w))
    /\ WF_vars(FeederStep) /\ SF_vars(DrainRows)
    /\ WF_vars(CheckHealth) /\ WF_vars(StopStep)

FairSpec == Spec /\ Fairness

-----------------------------------------------------------------------------
(* Properties.                                                             *)

TypeOK ==
    /\ running \in BOOLEAN /\ closed \in BOOLEAN
    /\ server \in {"up", "down"} /\ fault \in BOOLEAN
    /\ fatal \in {"none", "seam", "defect"}
    /\ fires \in [{"seam", "defect"} -> Nat] /\ panics \in Nat
    /\ pc \in [Workers -> {"off", "top", "move", "submit", "wait", "loop",
                           "failed", "check", "latch", "count", "halt", "over",
                           "finalize", "rows", "meta", "panicked",
                           "dying", "exit"}]
    /\ moves \in [Workers -> 0..MaxMoves] /\ left \in [Workers -> 0..Batches]
    /\ cut \in [Workers -> BOOLEAN]
    /\ kind \in [Workers -> {"seam", "defect"}]
    /\ rows \in [Workers -> 0..MaxMoves] /\ game \in [Workers -> Nat]
    /\ lock \in Workers \union {Free} /\ poisoned \in BOOLEAN
    /\ results \in Seq(Nat) /\ dropped \in Nat /\ recent \in Seq(Nat)
    /\ begun \in 0..MaxGames /\ seq \in Nat
    /\ games_completed \in Nat /\ done \subseteq Nat
    /\ feeder \in {"off", "fatal?", "drain", "push", "games", "results",
                   "dead", "ended"}
    /\ batch \in Seq(Nat)
    /\ ring \in Seq([game : Nat, id : Nat])
    /\ next_game_id \in Nat /\ announced \subseteq Nat
    /\ pool_games \in Nat /\ producer_exc \in BOOLEAN
    /\ stopper \in {"no", "flag", "close", "join", "done"}
    /\ stop_event \in BOOLEAN /\ raised \in BOOLEAN

\* A halt the pool did not ask for is attributable the moment it is visible:
\* "the count is visible BEFORE the flag flips", "store the typed message, count
\* the fire, THEN flip running".
HaltAttributed ==
    (feeder # "off" /\ ~running /\ stopper \in {"no", "flag"}) =>
        \/ panics > 0
        \/ fatal # "none" /\ fires["seam"] + fires["defect"] > 0

\* "A drain shutdown is not a failure": a seam failure is latched only when the
\* server really failed or died, never because stop() closed the queue.
CleanStopNotLatched == (fatal = "seam" \/ fires["seam"] > 0) => fault

\* "An in-progress game is DROPPED, never finalized as a partial draw": no game
\* a stop or a halt cut short, in a search or between two moves, is exported.
NoCutGameExported ==
    \A w \in Workers : pc[w] \in {"finalize", "rows", "meta"} => ~cut[w]

\* A game whose finalize panicked under the lock never reaches the ring: the
\* poisoned drain refuses the rows it left behind.
NoTornGameTrains ==
    \A i \in 1..Len(ring) : ring[i].game \in done

\* A latched failure, a panic or a poisoned queue reaches the trainer as a raise.
FailureReachesTrainer ==
    (fatal # "none" \/ panics > 0 \/ poisoned) ~> (raised \/ stop_event)

\* stop() joins every worker.
StopReturns == stop_event ~> stopper = "done"

\* A failure surfaces and a stop comes back, in whatever order they meet.
RunnerSettles == FailureReachesTrainer /\ StopReturns

=============================================================================
