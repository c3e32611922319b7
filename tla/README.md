# TLA+ models of hexo-mantis

hexo-mantis trains a network to play Hex Tac Toe by self-play. One process holds
Rust worker threads that play games, Python threads that answer their leaf
evaluations on the device, a feeder thread that moves finished games into a replay
ring, and the trainer thread that trains on the ring, evaluates, saves and stops. A
supervisor process restarts it. What is hard in it is not the arithmetic but the
hand-overs: a worker sleeps until some other thread answers, a stop may come at any
point of any of them, and what the run leaves on disk must be taken back by the next
launch.

This directory holds one module per such component, TLC configurations that check it
on small instances, and modules of proofs that TLAPS checks for every value of the
constants. Paths below are relative to the repository root. `PROJECT.json` lists, for
every definition, the source lines it translates.

## 1. Inventory

### The parts modelled

| component | state it keeps | operations | talks to |
|---|---|---|---|
| **graph inference queue** `crates/mantis-selfplay/src/queues/graph.rs`, `crates/mantis-bridge/src/inference.rs` | request deque with a count of batch ends, waiter map, one result cell and condvar per waiter, id counter, closed flag | submit a batch and block, pop with deadline / saturation / all-submitted wake, deliver, fail, close | workers on one side, the inference server on the other |
| **inference server** `src/mantis/selfplay/inference_server.py` | pipeline slots, retire queue, bounded check queue, the latched finding of a deferred check | pop, launch, refuse, retire, hand over a check, run it, stop | pops and answers the queue; stopped by the pool |
| **evaluation cache** `crates/mantis-selfplay/src/queues/eval_cache.rs` | per shard: version, map, eviction order, byte counter | get, put with eviction; the weight swap and its late version bump | workers read and write it around a blocking forward |
| **self-play runner and pool** `crates/mantis-selfplay/src/runner/`, `src/mantis/selfplay/pool*.py` | kill switch, fatal-defect latch and counters, the capped results and recent-game queues under one mutex, the feeder's batch, ring ids, the pool's producer exception | play, search, record, latch, panic, finalize; drain, translate ids, push; health check; stop | blocks in the queue; feeds the ring; raises in the trainer |
| **replay ring** `crates/mantis-selfplay/src/replay/hexg/` | slots overwritten in a circle, head and fill, weight histogram, ring game ids, the file of the last save | push, overwrite, save, load into any capacity, translate ids, the draws a sampler may make | fed by the pool's feeder, read and saved by the trainer |
| **resume bundle** `src/mantis/train/{bundle,resume_state,checkpoints}.py`, `train/coordinator/`, `run.py` | four files per checkpoint name, what each records, which directory entries are durable | periodic, stop and clean saves; publish; prune; resume; warm start; promotion | trainer thread, feeder thread, the machine |
| **step coordinator** `src/mantis/train/coordinator/`, `train/loop.py`, `train/mixing.py`, `run.py` | step, stop flags, owed step budget and its carry, draw-rate window, last evaluated step, the rule that fired, the exit code | wait, train a burst, gates, evaluation kick, save legs, close out, resume | the pool, the disk guard, signals, the evaluation pipeline, the supervisor |
| **evaluation pipeline and deploy anchor** `src/mantis/eval/{pipeline,promote}.py`, `train/anchor.py` | round in flight with its once-latch, mailbox, gate sidecars and result files, `best_model.pt`, its `.bak` and `.tmp` | kick, judge, poll, time out, finalise, drain, abandon, terminal round, promote, recover | its child processes, the trainer thread, the file system |
| **supervision** `src/mantis/monitor/supervise.py`, `train/lifecycle/` | the supervisor's child, budget and stop ladder; the child's arming, phase, staleness arming, watchdog fire, exit code | launch, poll, kill, relaunch; arm, press, close out, disarm, fire | two processes and a file between them, signals, exit codes |
| **search tree** `crates/mantis-search/src/mcts/`, **deploy player** `crates/mantis-player/src/player.rs` | node pool, virtual loss, transposition table; turn, pending leaves, budget | select, expand, back up, undo, re-root; begin, pull, push, abort a turn | the host's worker loop and its net |

What makes each correct:

* *queue*: every blocked request is answered, once, and no worker sleeps past its answer;
  a declared submitter count wakes a pop exactly when every submitter is blocked.
* *server*: what was launched is answered before the queue is closed under it; a served
  position is checked, and service stops after a finding.
* *cache*: a hit never serves a net that had been replaced before the worker asked.
* *runner*: a failure stops the run and says why, a clean stop never looks like a failure,
  and no cut, torn or mixed-up game is trained on.
* *ring*: it holds the newest rows in order, rows of one game and only those share an id, the
  histogram counts what is there, over wraps, saves, deaths and changes of capacity.
* *bundle*: the bundle a stop leaves is taken back by the next launch, over crashes, power
  losses, promotions and retention.
* *coordinator*: exit code 0 is the truth; rounds, aborts and the step budget come out as if
  the run had never been interrupted.
* *pipeline*: a verdict is routed once, a promotion is earned, a passed gate is not lost, and
  a loadable anchor always exists.
* *supervision*: one child at a time, a dead or wedged one is noticed, a finishing one is
  left alone, and nothing outlives what should stop it.
* *tree and player*: statistics are those of the evaluations made, virtual loss is what is
  pending, budgets hold, a turn is played whole or not at all.

What is left out of a modelled component, or modelled only in part, is said with its module
below and under "Not modelled".

## 2. Modules

```
GraphQueue ───── MCGraphQueue ──── GraphQueueProofs
InferenceServer ──────────────┬─── ServingProofs
EvalCache ────── MCEvalCache ─┘
RowLog <= HexgRing ─ MCHexgRing ── HexgRingProofs       (HexgRing implements RowLog)
ResumeBundle ─── MCResumeBundle ── ResumeBundleProofs
StepCoordinator ────────────────── StepCoordinatorProofs
EvalPipeline ───────────────────── EvalPipelineProofs
SelfPlayRunner ───────────────┬─── StoppingProofs
Supervision ──────────────────┘
SearchTree <- DeployPlayer ─ MCDeployPlayer ── PlayerProofs   (DeployPlayer drives SearchTree)
```

An `MC` module only adds symmetry sets, numbered name sets or small tables. A definition with a
suffix, such as `Register_OnlyFirst` beside `Register`, is a plausible bug of the
definition it is named after: replacing one by the other makes TLC report the property
listed with it under `mutants`, which is how we know that property can fail.

The components meet at narrow interfaces, and each module states what it assumes of its
neighbour: SelfPlayRunner's blocked worker is answered by a live server or leaves a
closed queue, which is what GraphQueue's `BlockedReturns` establishes; GraphQueue's
producers answer every pop to its end, which is part of InferenceServer's `ServerSettles`;
ResumeBundle's feeder may push at any moment until the process is gone, because
SelfPlayRunner's feeder is stopped only after the final save. StepCoordinator takes a bundle
as one value, whose files ResumeBundle has; the round it kicks is EvalPipeline's `Kick`, and
its exit codes are what Supervision's supervisor reads.

### GraphQueue
A step is one critical section. `submit_graphs_and_wait` is `Submit` (handshake and ids),
`Register` (all waiters enter the map under one lock), `Enqueue` (the whole batch under
the queue lock) and then, per waiter in order, `TakeResult`, `LeaveClosed` or `Decide` +
`Park`. `Decide`/`Park` split `wait_for` at the one place where it matters: the worker has
seen neither a result nor the closed flag, and still holds its waiter's lock (`parking`)
until `Condvar::wait` releases it. `SetResult` needs that lock; `close()` does not take it.
Delivery is two steps, since `submit_graph_results` removes the waiter from the map and
then sets its result. `Fail` restarts the pass over the whole pop from any point of the
delivery, which is the bridge's `fail_remaining` followed by the server's `_fail_pop`.
A pop waits until `WakesEarly` or its `Deadline`. In a training run the queue is built
with `max_in_flight` and without declared submitters (`runner/mod.rs`, `with_eval_cache`);
the bridge's standalone batcher declares submitters. Both constructions are checked.

### InferenceServer
Four actors: the loop (`NextBatch` … `CloseBatcher`), the retirer, the checker and the
caller of `stop()`. A pop is a number. The latch is read in two places, before a launch
(`RefuseLaunch`/`PassLatch`) and after the device event (`RetireGate`), and may be set
between a read and what follows it. The check queue is bounded: a full one makes the
retirer run the check itself. Threads that the code does not join (the checker, at the
end of `stop()`) may outlive it.

### EvalCache
The shards share nothing, so one is modelled. `LoadVersion`, `Get`, `Forward`,
`CheckStorable`, `Put` are the steps of `infer_and_expand_graph`; the forward blocks, and
`SwapWeights` and `BumpVersion` are two steps because `load_state_dict_safe` bumps the
version after it has released the weights lock. Its definitions `CacheInit`, `CacheNext`,
`CacheSpec` and `CacheTypeOK` carry the prefix because one proof module extends both this module and
InferenceServer.

### SelfPlayRunner
The worker's program counter follows `guard_worker` → `run_one_game` → `search_move` →
`run_mcts_search` → `settle_search`, then `finalize_game_graph` under the results lock,
row by row. A failed inference, a refused target and a panic each halt the run, in the
order the code stores, counts and halts. A search is `Batches` inference round trips;
`cut` records that a stop or a halt interrupted the game. The feeder drains, translates
runner game ids to ring ids, pushes, reads the game counter and drains the recent games; its
exceptions end in `producer_exc`, which the trainer's health check raises. `stop()` sets the
feeder's event, the kill switch, the queue's flag, then joins. The win counters are left out.

### ResumeBundle
A file is a kind and a checkpoint name. Every writer fsyncs a temporary file before it
renames it and a name carries a content hash, so contents are whole and fixed; what can be
lost is directory entries. `dir` is what a reader sees and `disk` what the last directory
fsync made durable. `Crash` keeps `dir`; `PowerLoss` keeps any subset of what changed since
that fsync. A save is one step per rename and one per fsync; a prune is one step per unlink.
A resumable stop settles the round in flight before it saves. `Owed(c)` says what retention
promises: `c` was published, no other bundle ever had its step, and fewer than `Keep` were
published at a later step.

### HexgRing and RowLog
A row is its provenance (launch and game) and a number, with the id and the weight bucket
the ring stores. `PushRow` is `push_row` with its overwrite; a batch is pushed row by row and
each push takes the mutex for itself, so a save may fall between two rows of a game. `Translate`
is the feeder's dictionary from runner ids, which restart at each launch, to ring ids, which
`load` re-bases past the largest one it read. The file is written oldest row first and
read into a ring of any capacity. `Preloads` are rings a first launch may find,
untagged rows among them. `RowLog` is the abstract ring, a log cut to its newest rows;
`KeepsNewestInOrder` says that HexgRing implements it under the mapping that unrolls
the circle. Left out: payload, the targets read ahead of a row, the redraw loop of `sample_indices`.

### StepCoordinator
The program counter follows `run_training_loop` and `StepCoordinator.step`: the loop test,
the clean stop, the shutdown save, the stall watchdog, waiting or a budget, then per burst
iteration `TrainStep`, `PlyGate`, `DrawGate`, `Kick`; after the loop `FinalSave`, `CloseOut`,
`TerminalEval`, `RecordAborts`, `Exit`. The flags (`running`, `stop`, the disk guard's
latch and its later signal) are set by other threads between any two of these and are read
only where the code reads them. A burst goes on to its end after an abort fired in it, as the
code does. `RefuseStep` is a step with a non-finite gradient: it does not advance. A game is
one row. A save is one step here. `Interval = 0` is `checkpoint_interval` unset: no
periodic bundle. The model assumes `RatioNum >= RatioDen`, as the ratios of all files under `configs/` are at least 1. History variables `kicks` and
`observed` belong to the lineage: a resume truncates them to the bundle it restores.
Left out: actor sync, log lines, the held-out witness.

### EvalPipeline
The trainer thread and the poller each have a finaliser; `latched` is the record's
`_finalized`. A round's child judges (`Judge`, the gate sidecar), writes its result and exits,
independently of both. `Await`, `Capture` and `TakeMailbox` are the drain and the abandon of
a stop, `KickTerminal`/`TakeOwn` the terminal round. A promotion is three renames with a death
possible between them; the next launch takes `best_model.pt` or else its backup. A
relaunch restores the round counter of the last bundle, so rounds repeat ids and find each
other's files; candidates are numbered apart (`routed`, `passed` and `applied` speak of
candidates). The ids `rN_step` and `rN_step_terminal` are one id here, which only makes
collisions likelier.

### Supervision
The supervisor's loop (`Supervisor`: fork, poll, heartbeat read, kill, relaunch, stop
ladder), the boot of the child (fork, trampoline's prctl, exec, the run's own prctl and
parent check), its main thread, its watchdog thread and the disk guard. Time is not counted:
whether an age is past its deadline is a choice made where the code asks. A launch is direct or
wrapped; a wrapper forwards signals and exit codes. A child stuck in the kernel appears only
as a wedge that holds the interpreter lock. The monitors' own liveness, the ages in the
heartbeat and the actor lag are choices; the bounded snapshot of the fire is left out.
`SupervisionInit` and its kin carry the prefix, and the watchdog's `seq` is called `beat`,
because one proof module extends both this module and SelfPlayRunner.

### SearchTree and DeployPlayer
SearchTree holds the board (the sequence of its stones, one and then two a turn) and the pool
operations of `mcts/`: expand, back up with the sign of the side to move, virtual loss and its
undo, terminal leaves, forced block, re-root. DeployPlayer is the step machine above it:
`BeginTurn`, `NextBatch`, the searched root, `Descend` one leaf at a time, table hits,
decided leaves, overlaps, `Submit` or `RefuseOutputs`, the second stone with or
without reuse, `RollBack`. The child PUCT prefers is left open, so what holds, holds for
every selection. Net and solver are functions of the position, as the exact caches require.
Abstracted: the per-game cache (any part of a call's leaves may be cached), clock budgets
(some number of sims within the pool's cap), quiescence (part of the net's value), the defence
audit's stored second stone and the threat restriction of a leaf's children. The attempts bound of a call
is four times the batch, which these instances never reach; a budget of zero sims is refused before.

## 3. Runs

Bounds are constants of the configuration; each is large enough for the case it is there for.

| run | instance | what it shows |
|---|---|---|
| `queue_runner` | 2 workers, 2 producers, batches of <= 2, batch size 3, 2 declared submitters, 4 ids, 1 close | no request is orphaned, no answer is slept through, an answer lands once and on a request still to be collected, the submitter wake fires exactly when every submitter is blocked on a batch whose end is still queued. Two full batches make 4 requests, so that a pop of 3 cuts one; two producers deliver at once. |
| `queue_live` | ServedSpec, 1 producer, declared supply 4, 3 ids, 2 closes | under a live server every blocked worker returns. |
| `server` | FairSpec, 3 pops of 2 parts, 2 slots, check queue of 2 | at most one pop is served after a finding landed, checks are not lost, every pop is answered, `stop()` ends both itself and the loop. A third pop has to wait for a slot, and 2 parts per pop overflow the check queue. |
| `eval_cache` | 2 workers, 3 keys, sizes 1, 2, 4, 2 entries and 3 bytes per shard, 2 swaps | entries are at most one swap newer than their version and never older; versions never mix; map, order and bytes agree and stay within budget. Size 4 is refused outright, 2 + 2 evicts for bytes, 1 + 1 + 1 for entries; 2 swaps let a worker sleep across a complete one. |
| `runner` | FairSpec, 2 workers, 1 game of up to 2 moves, 2 round trips a search, cap 2, all four faults | no torn game trains, every halt is attributable, a clean stop is not latched, no cut game is exported; a failure reaches the trainer and `stop()` returns from any point. One game is enough for liveness to be checked in full; the four invariants are proved for every number of games and workers. |
| `bundle` | 3 names, Keep 2, save every step, ring of 1 row, stop at step 3, 2 launches, 1 promotion | the stop's bundle resumes, owed bundles survive, a durable manifest certifies its members. The third bundle starts a prune; the second launch may begin below the first one's steps. |
| `bundle_own` | 3 names, Keep 2, stop at step 2, 3 launches | *violated*: `StopLeavesBundle` (Findings). |
| `pipeline` | FairSpec, 2 children, 2 launches, 1 failing save | a verdict is routed once, best_model.pt only takes judged weights, a passed gate is not lost, a launch loads the last finished promotion, a round settles. Two children are a round and its successor, or a round and its namesake after a relaunch. |
| `hexg` | capacities 2 and 3, 3 games per launch, batches of 2, 4 rows, 3 launches, two preloads | ids group rows by game, the histogram is exact, a draw reaches the ring and nothing else, the ring implements the log. 4 rows wrap a ring of 2 twice; 3 launches reload into a smaller and a larger ring. |
| `supervision` | FairSpec, direct and wrapped, 1 relaunch, heartbeat counter to 1 | one child at a time, a finishing run is not relaunched, a direct run dies with its supervisor, wedges and stops end. |
| `player` | FairSpec, 5 cells, 2 winning lines, 2 children per node, pools of 1 and 4 sims, turns of 1, 4, 6 | virtual loss is what is pending, the tree is whole, budgets hold, a turn ends and is whole or undone. Wins, transpositions, table hits, re-roots and a clamped budget all occur on 5 cells. |
| `coordinator` | stop at step 5, saves and rounds every 2 steps, gates every step, window 2, ratio 3/2 with and without ramp, bursts of 2, 2 games per launch, 1 refused step, 2 launches | the exit code is truthful, each round of the lineage is kicked once, the abort window is the lineage's, the step budget is exact. Step 5 is off both cadences, so the end differs from a boundary. |

Symmetry is used on the workers and producers of `queue_runner` and `eval_cache`, where no
liveness property is checked. `CHECK_DEADLOCK FALSE` appears where the program really ends:
a stopped server, a finished pool, run, game or supervisor, and a model whose launches
or rows are used up.

### Fairness
* `GraphQueue!ServedSpec`: a worker past its submission keeps running (OS scheduling), the
  server pops again and its deadline passes (the loop of `_run_graph_loop`), a delivery goes
  on to its end (the retirer is drained before its thread ends). `SetResult` gets strong
  fairness, as a mutex that is released again and again is acquired. Submitting and spurious
  wakes are never forced. `OrphanedSpec` drops the pop's fairness: the server is gone.
* `InferenceServer!FairSpec`: weak fairness per thread. Neither a new batch nor a call of
  `stop()` is forced; `stop()`, once begun, continues.
* `SelfPlayRunner!FairSpec`: weak fairness per worker, for the feeder, for the trainer's
  health check (it runs on every step) and for a `stop()` that has begun; strong fairness on
  taking the results lock, for a worker's finalize and for the feeder's drain. Faults, panics
  and the call of `stop()` are never forced.
* `EvalPipeline!FairSpec`: the poller ticks until it is told to stop and the trainer thread
  goes on with what it has begun. Kicks, stops, and the children, which may hang, are not forced.
* `Supervision!SupervisionFairSpec`: weak fairness for the supervisor's loop, the arming, the disarm, the
  watchdog thread and the passing of the close-out budget. Strong fairness only where a clock
  must win: the supervisor sees a file nothing writes any more as stale, and the watchdog a
  stage that is stuck. Nothing is assumed of a wedged main thread, of operators or of faults.
* `DeployPlayer!FairSpec`: `next_batch` runs until it returns, the host pulls and answers.
  Aborts, refusals and new games are not forced.
* `EvalCache`, `ResumeBundle`, `HexgRing` and `StepCoordinator` state safety only.

## 4. What is proved

All proofs hold for every value of the constants that satisfies the named assumptions of
the module; none bounds the number of workers, producers, names, rows, rounds or pops. The
model bounds (`MaxId`, `MaxCloses`, `MaxGames`, `MaxSwaps`, `MaxLaunches`, `MaxAnchor`,
`MaxPops`, `MaxSpawns`, `MaxRows`, `MaxRelaunches`, `MaxSeq`) are arbitrary naturals there.
Board, lines, net, solver, budgets and pool sizes of the player are arbitrary too.

* **GraphQueueProofs** — `TypeCorrect`, `NeverOrphaned`, `NeverSleepsOnAnswer`,
  `NeverAnsweredTwice`, `SubmitterWakeIsExact`. "Pending or
  answered" is not inductive by itself: one needs that a worker's batch lies within the ids handed out,
  that two workers' ids are disjoint, that an id not yet enqueued is nowhere on the producers'
  side, that a delivery pass stays inside its pop, and that a parked worker's result is empty. `IInv` is their
  conjunction; the proof has one lemma per group of actions. No lost wake-up rests
  on `parking`: a worker that holds its waiter's lock has seen no result, and
  `SetResult` waits for that lock. `AnswerInv` adds that an id in the waiter map, or in the one
  producer's hands that took it from there, has no answer yet, and that while the queue is open its
  worker has not walked away from it. `WakeInv` counts the batch ends in the queue
  (`Counted`) and says each belongs to a blocked worker (`EndsOwned`), each blocked worker having
  one at most; then "as many ends as submitters" is "every submitter is blocked". Its
  hypothesis is that the declared number of submitters is that of the workers, or that none is
  declared. The code declares "the most threads that search on this engine at once"
  (`selfplay/inference_local.py:26`); with fewer of them at work the wake only comes late.
* **ServingProofs** — the server: `TypeCorrect`, `SlotsAddUp`, `OneServedAfterFinding`,
  `ServedPartsChecked`, `AnsweredAtClose`. `SlotInv` proves types and slots together, since a
  slot count is bounded only because free and held slots add up;
  `LateInv` says that once a pop was served after the finding the retirer is past its last gate;
  `CheckInv` that until `stop()` each part served is checked, queued or in somebody's
  hands, and the checker was not told to end; `OwedInv` that a pop not yet answered is the
  loop's, queued or the retirer's, and nothing is queued behind the retirer's end marker. `SentinelAssumption` keeps the queue's end marker
  apart from the pops. The cache: `CachedNetWithinOneSwap`, whose invariant carries the
  version a worker read through its round trip (the net it was answered by is not older than that
  version, and a store only happens if the version is still in force, hence at most one swap is
  unannounced), and `ShardAlwaysConsistent`, where the byte counter is the sum of the sizes of the
  keys held. That sum is a fold of the community modules: the lemmas unfold it by hand, and replace
  induction over finite sets by a least counterexample.
* **StoppingProofs** — the pool: `HaltAlwaysAttributed`, `CleanStopNeverLatched`,
  `CutGameNeverExported`, `TornGameNeverTrains`. The first three rest on the switch falling
  once: before it falls only a fault closes the queue, so a worker bound for the latch saw the
  switch up and a fault; who is about to clear it has stored and counted its reason; a cut game
  was cut by the fallen switch, and `GameOver` finds it fallen. The last rests on `TornInv`:
  one worker holds the results lock while rows of its game are partial in the queue (`LockHeld`),
  so what a drain finds is whole games less an evicted head (`QueueWhole`, `BatchWhole`).
  The supervised run: `OneChildAlways`, `DirectRunAlwaysDies`, `CleanFinishNeverRelaunched`.
  `OneChildInv`: where the supervisor is about to fork, the
  child is dead, because it never kills a child still in the boot gate and a wrapped run past
  its gate is armed against its wrapper; `DirectInv`: from the trampoline's recheck on, the
  child of a live supervisor is armed against it, and what outlives a supervisor earlier
  stops at the run's gate; `CloseOutInv`: past the disarm only a poll caught before it, or
  the close-out budget, brings a stall exit.
* **HexgRingProofs** — `RingTypes`, `RingImplementsLog`, `AlwaysGroupedByGame`,
  `HistogramAlwaysExact`, `SamplerAlwaysSees`. The refinement maps a push on a full circle to
  "append and keep the newest" (`Unrolled`, `PushKeepsNewest`). `GroupInv` ties the three
  places a game's id lives: the ring and the file (`Grouped`, `FileGrouped`), the feeder's
  dictionary and the batch in hand, all below the next fresh id. What would be an induction
  over the ring's length is a least-element argument from the well-foundedness of `<` on Nat.
* **ResumeBundleProofs** — `BundleTypes`, `OwedBundlesSurvive`, `ManifestsCertify`,
  `StopsResume`. `BundleInv` strengthens survival to durability (`RetainedDurable`: all four
  files on `disk` as well), and adds what the saving leg has made durable at each stage, that
  no owed bundle is a victim of the prune in progress (`SurplusNotOwed`: what has `Keep` newer
  complete bundles is not owed), and that the anchor is the one the stop's sidecar recorded.
* **StepCoordinatorProofs** — `CoordinatorTypes`, `ExitAlwaysTruthful`, `WindowIsLineages`,
  `RatioKept`, `RoundsKickedOnce`. `ExitInv` follows the leg from the loop's end to the exit code, and
  carries what was saved of the state stopped in. `WindowInv` says that the window is the newest
  of the lineage's observations in the process and in every bundle, so a resume takes back what it left.
  `RatioInv` counts steps owed, carried and taken in units of `1/RatioDen`, which makes the ledger
  exact. `RoundInv` says where a boundary's round is between its step and its kick; it
  needs two hypotheses, that a round comes less often than every step and that no bundle is saved every
  step. Both are needed (Observations).
* **EvalPipelineProofs** — `PipelineTypes`, `IncumbentAlwaysLast`, `NeverUnjudged`,
  `AlwaysRoutedOnce`, `VerdictAlwaysKept`. `Base` types the state and says which thread holds what;
  `Anchor` follows the three renames: at each of them either file is the last promotion
  and a launch picks that one; `Judged` says that a passing verdict anywhere in memory was
  persisted by the candidate it names. `Once` says where a candidate may be: children numbered
  by spawn, one finaliser per round (the latch), and a result in at most one of a thread's
  hand, the mailbox, the trainer's list, or already routed (`HandApart`, `MailApart`). TLC
  also checked `Once` over the 28 million states of an instance with 3 spawns. `Keeping` says of
  each verdict this process owes where it is on its way (`OnItsWay`): on file, published, in the
  mailbox, in hand, or applied; and that a leg that has settled has nothing left in flight
  (`Settled`), because a second finaliser goes on only when the first has published or is `late`.
* **PlayerProofs** — `PlayerTypeOK`, `LossesArePending`, `TurnWholeOrNothing`, `BudgetKept`,
  `TreeAlwaysWhole`. The first layer is about the pool alone: `Shape` says that a parent's slot is
  below its children's and that these are one block, so the recursive functions `Path` and
  `BreadthFirst` exist and unfold; each operation (virtual loss, backup, expansion, the copied
  subtree) is shown to keep `Shape` and to do what its name says. `PenaltyInv` adds that a batch
  belongs to a driven stone; it proves the losses and the types together, since the undo and the backup
  stop at zero and would hide a loss taken twice. `TurnStones` says which stones of the turn are
  on the board. `BoardsInv` says that no cell is played twice, on the board or on the way down to a
  node, and that a stored second stone is free where it is meant for. `BudgetInv` counts:
  `PoolCounts`, the expansions at or below a slot are at most its visits, bounds the pool by
  `1 + MaxChildren * n(root)` (`PoolSize`), and the root's visits stay within two stones'
  sims because the first stone of a turn inherits none (`MayInherit`, `MayCount`). `SumsInv` adds the
  values: what an evaluation carries to a slot is its value, turned once for every last stone of a
  turn above (`Carried`), so on the path exactly one child of each slot moves, and by what the slot
  itself moves (`AddsOn`), while a re-rooted block keeps its order and so its sum (`TotalBlock`). It
  needs that a pending leaf is not opened yet and waits once (`Unopened`): a second expansion of one
  leaf would move its children out of its sums. `Total` and its lemmas give the fold of the community
  modules its algebra, and `AppendMover` links the turned sign to the board's side to move, which is what
  `TreeIsWhole` states. The hypotheses:
  `MarginAssumption`, that the pool's divisor is at least 3 times the children (`armed_sims_for`
  has 4; with 2 a root and two full stones need not fit), distinct cells in an
  opening and in the solver's line, distinct priors, and integer values.

Only model-checked: liveness and ENABLED, which TLAPS does not reach. Every invariant and action
property of the runs is proved. No module uses RECURSIVE operators. Induction over data is out of the
prover's reach: the library's induction theorems take an operator, so where a proof needs one (a sum, a
sequence's length, a path) it argues from a least counterexample.

## 5. Findings

**A stop can prune what it just wrote** (`train/bundle.py:304`). Order is by step and file
name, so a bundle saved below the retained ones, by a run resumed from an older checkpoint, or
beside two of its own step, is surplus at once. `persist_resume_state` promises a sidecar
"that makes `checkpoint_path` resumable" (`train/coordinator/step.py:266`). Run `bundle_own`.

### Observations

Met while modelling. The first seven are stated as formulas beside the modules' properties; TLC
refutes each, on the instance named or on the module's own, but no run here repeats that.

* `CloseWakesAll` (GraphQueue, `queues/graph.rs:467`). `close()` notifies without taking
  the waiter's lock: a worker that has read `closed = false` and not yet slept misses the
  notification. The doc says close wakes "all blocked waiters". `stop()` closes the queue while
  the server still runs and joins the workers first, so a live server's answer rescues the
  worker there; when the server's own loop ends by itself, nobody does. (OrphanedSpec; 1
  worker, 1 producer, LeafBatch 1, BatchSize 2, MaxInFlight 1, Submitters 0, MaxId 2, 1 close.)
* `CompleteResumes` (ResumeBundle, `train/coordinator/step.py:319`). The sidecar's row count
  is read from the live ring after the ring file was written. Until the ring is full a
  row may arrive in between, and `_restore_resume_state` refuses the mismatch. `StopResumes`
  is therefore stated for stops with no row in between.
* `RetainsKeep` (ResumeBundle, `train/bundle.py:338`). Manifests are looked up by
  step; a stop right after a periodic save gives two bundles the same step, and a prune loses
  both for one. `RetainedSurvives` is stated for the bundles retention does owe, one per step.
  (4 names, Keep 2, Interval 1, Capacity 1, StopStep 2, 2 launches, no promotion.)
* `PersistFaultStops` (Supervision, `monitor/supervise.py:183`). A child that dies of a persistence
  fault just as the supervisor, finding its heartbeat stale, kills it, is relaunched: `_kill`
  does not look at the exit code.
* `NoOrphanRun` (Supervision, `train/lifecycle/signals.py:121`, `run.py:869`). Under a launcher that forks, the
  death signal and the parent check speak of the launcher, and a run may outlive its supervisor.
* `SpanBounded` (StepCoordinator, `train/coordinator/step.py:592`). "consec * gate_interval
  bounds a fire's span from below", but a refused step does not advance, and the next burst
  iteration observes the same step again, so two observations may be of one step.
* `TerminalRuns` (StepCoordinator, `eval/drain.py`). "the terminal battery runs when the run
  ENDS": a signal that arrives after the clean completion's save makes the complete run's end a
  resumable stop, which skips the battery and exits 0.

Smaller ones, which no doc contradicts: an operator's press and the disk guard's one
SIGTERM count as two presses and force an exit (`lifecycle/disk_guard.py:99`; the guard latches its
own so as not to give both); with an evaluation
interval of 1, a resume from a periodic bundle, which is saved before its own step's kick, does not
kick that boundary's round; with a checkpoint interval of 1, a death between a boundary's save and its
kick, again after the resume, delays that round step by step or loses it (`RoundsOnce` needs three launches to fail); a promotion
after the last bundle and then a crash makes the launch pin refuse the resume, by design
(`train/anchor.py:426`); a burst trains on after an armed abort fired in it; in the evaluation cache a forward between
the weights' release and the version bump files a new net under the old version
(`NetWithinOneSwap` is what holds); `stop()` on the server may end the checker while the
retirer still serves, so the last parts served go unchecked; `draw_rate` divides two counters
read one after the other; a resume looks for the sidecar and does not ask for the manifest.

## 6. Not modelled

* **Numeric code**: networks, losses, pretraining, the gate's statistics (bootstrap intervals,
  likelihood ratios), the Gumbel root's scores. Real-valued; TLA+'s integers would replace
  what they compute.
* **Tactics solver, win detection, threats, Zobrist keys**: sequential functions of a
  board. A model would restate the rules; the player's models take them as tables.
* **Graph builder, encoding registry, configuration, composition**: stateless conversions and
  the validation of a document whose values are the constants of these models. Together with
  the audit and preflight tools, the diagnostics, the viewer and the numeric code above this is most of the
  repository's lines, and why the mapped share of it is small.
* **Event sink and rules, game records, browser player, arena's match loop**: append-only
  output, a front end, and drivers of the queue and the player that are modelled.
* **Actor weight sync**: its swap is EvalCache's, its lag a cause in Supervision; the cadence
  is one counter.
* **Quarantine of an unreadable anchor**: no modelled step makes one, since every writer
  renames a file it has synced.
* **The bridge's error between a pop and its hand-over** (`crates/mantis-bridge/src/inference.rs:397`):
  the ids of that pop are in no structure. It needs a graph no builder produces (a foreign
  tag, a gather row out of range).

## 7. What is left

1. Composition of SelfPlayRunner with GraphQueue and InferenceServer, in place of the
   assumed answers, to see which stop orders rescue the worker of `CloseWakesAll`.
2. At-most-once answering as an abstract specification that GraphQueue implements, and
   "newest resume point" as one that ResumeBundle implements.
3. Sequential halving and the board's win detection as pure modules.

To check a module: `tlc -config MCServer.cfg InferenceServer`, and likewise for the runs
listed in `PROJECT.json`; `tlapm GraphQueueProofs.tla` checks the proofs.
