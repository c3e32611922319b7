--------------------------- MODULE EvalPipelineProofs ---------------------------
(***************************************************************************)
(* Theorems about EvalPipeline, for any number of rounds, launches and      *)
(* failed saves.                                                            *)
(***************************************************************************)
EXTENDS EvalPipeline, SequenceTheorems, TLAPS

Verdict == {"none", "pass", "refuse"}
States == {"none", "playing", "judged", "written", "clean", "nonzero", "signal"}
Result == [cand : Nat, promoted : BOOLEAN]
Ending == {"kill", "latch", "read", "publish", "wait"}
Saving == {"write", "rotate", "rename"}
Labels == Ending \cup Saving \cup
    {"down", "idle", "ended", "train", "capture", "await", "take", "route", "save",
     "terminal", "own", "stop", "join", "exited"}

RoundTypes ==
    /\ counter \in Nat /\ saved \in Nat /\ spawns \in Nat
    /\ child \in [Rounds -> [cand : Nat, state : States]]
    /\ partial \in [Rounds -> Verdict] /\ result \in [Rounds -> Verdict]
    /\ inflight \in Rounds \cup {NoRound} /\ latched \subseteq Rounds /\ done \subseteq Rounds
    /\ mailbox \in Seq(Result)

ThreadTypes ==
    /\ pc \in [Threads -> Labels] /\ tr \in [Threads -> Rounds \cup {NoRound}]
    /\ esc \in [Threads -> BOOLEAN] /\ res \in [Threads -> Result]
    /\ leg \in {"run", "settle", "close", "terminal"} /\ resumable \in BOOLEAN
    /\ todo \in Seq(Result)

AnchorTypes ==
    /\ best \in Int /\ bak \in Int /\ tmp \in Int /\ live \in Int
    /\ applied \in Seq(Nat) /\ routed \in Seq(Nat)
    /\ passed \subseteq Nat /\ launches \in Nat

TypeOK == RoundTypes /\ ThreadTypes /\ AnchorTypes

\* A thread works on a round that was spawned by this process, and what was
\* spawned has an id the counter has passed.
Hands ==
    /\ pc["poller"] \in Ending \cup {"down", "idle", "ended"}
    /\ \A t \in Threads : pc[t] \in Ending \cup {"await"} =>
           tr[t] \in Rounds /\ child[tr[t]].state # "none"
    /\ inflight # NoRound => child[inflight].state # "none"
    /\ \A r \in Rounds : child[r].state # "none" => r <= counter
    /\ \A r \in latched : child[r].state # "none"
    /\ pc["main"] = "down" => \A r \in Rounds : child[r].state = "none"
    /\ pc["main"] \in Saving => todo # <<>>
    /\ pc["main"] = "down" <=> pc["poller"] = "down"

Base == TypeOK /\ Hands

-----------------------------------------------------------------------------
LEMMA InitBase == Init => Base
<1> SUFFICES ASSUME Init PROVE Base
  OBVIOUS
<1>1. \A t \in Threads : pc[t] = "down"
  BY DEF Init, Threads
<1>2. RoundTypes
  BY DEF Init, RoundTypes, NoChild, States, Verdict
<1>3. ThreadTypes
  <2>1. pc \in [Threads -> Labels]
    BY DEF Init, Threads, Labels
  <2>2. res \in [Threads -> Result] /\ todo \in Seq(Result)
    BY DEF Init, NoResult, Result
  <2> QED
    BY <2>1, <2>2 DEF Init, ThreadTypes
<1>4. AnchorTypes
  BY DEF Init, AnchorTypes, Absent
<1>5. Hands
  BY <1>1 DEF Init, Hands, Threads, NoChild, Ending, Saving
<1> QED
  BY <1>2, <1>3, <1>4, <1>5 DEF Base, TypeOK

\* What a step of one thread makes of the labels.
LEMMA Moves ==
  ASSUME Base, NEW t \in Threads, NEW l \in Labels, Goto(t, l)
  PROVE  /\ pc' \in [Threads -> Labels]
         /\ pc'[t] = l /\ \A u \in Threads \ {t} : pc'[u] = pc[u]
  BY DEF Base, TypeOK, ThreadTypes, Goto

LEMMA BaseChild ==
  ASSUME Base, NEW r \in Rounds, Judge(r) \/ WriteResult(r) \/ ChildExit(r)
  PROVE  Base'
<1> USE DEF sharedVars, threadVars, anchorVars, historyVars
<1>1. /\ UNCHANGED <<counter, saved, spawns, inflight, latched, done, mailbox, pc, tr, todo>>
      /\ \E s \in States \ {"none"} : child[r].state # "none" /\ child' = [child EXCEPT ![r].state = s]
  <2>1. CASE Judge(r)
    BY <2>1 DEF Judge, States
  <2>2. CASE WriteResult(r)
    BY <2>2 DEF WriteResult, States
  <2>3. CASE ChildExit(r)
    BY <2>3 DEF ChildExit, States, Alive, Base, TypeOK, RoundTypes
  <2> QED
    BY <2>1, <2>2, <2>3
<1>2. child' \in [Rounds -> [cand : Nat, state : States]]
      /\ \A q \in Rounds : child'[q].state = "none" <=> child[q].state = "none"
  BY <1>1 DEF Base, TypeOK, RoundTypes
<1>3. partial' \in [Rounds -> Verdict] /\ result' \in [Rounds -> Verdict]
  BY DEF Judge, WriteResult, ChildExit, Base, TypeOK, RoundTypes, Verdict
<1>4. RoundTypes'
  BY <1>1, <1>2, <1>3 DEF Base, TypeOK, RoundTypes
<1>5. ThreadTypes'
  BY DEF Judge, WriteResult, ChildExit, Base, TypeOK, ThreadTypes
<1>6. AnchorTypes'
  BY DEF Judge, WriteResult, ChildExit, Base, TypeOK, AnchorTypes, RoundTypes
<1>7. Hands'
  BY <1>1, <1>2 DEF Base, TypeOK, Hands, RoundTypes
<1> QED
  BY <1>4, <1>5, <1>6, <1>7 DEF Base, TypeOK


\* A new child takes an id no thread and no record of this process names.
LEMMA Spawned ==
  ASSUME Base, NEW r \in Rounds, Spawn(r)
  PROVE  /\ counter' = r /\ spawns' = spawns + 1 /\ saved' = saved /\ result' = result
         /\ child[r].state = "none" /\ child'[r] = [cand |-> spawns + 1, state |-> "playing"]
         /\ \A q \in Rounds \ {r} : child'[q] = child[q]
         /\ child' \in [Rounds -> [cand : Nat, state : States]]
         /\ partial' \in [Rounds -> Verdict] /\ partial'[r] = "none"
         /\ \A q \in Rounds \ {r} : partial'[q] = partial[q]
         /\ counter' \in Nat /\ spawns' \in Nat
         /\ \A q \in Rounds : child'[q].state # "none" => q <= counter'
<1>1. r \in Nat /\ counter' = counter + 1 /\ counter' = r
  BY PipelineAssumption DEF Spawn, Rounds
<1>2. child[r].state = "none"
  BY <1>1 DEF Base, Hands, TypeOK, RoundTypes
<1>3. child' = [child EXCEPT ![r] = [cand |-> spawns + 1, state |-> "playing"]]
      /\ partial' = [partial EXCEPT ![r] = "none"]
  BY DEF Spawn, ClearPartial
<1>4. child' \in [Rounds -> [cand : Nat, state : States]] /\ partial' \in [Rounds -> Verdict]
  BY <1>3 DEF Base, TypeOK, RoundTypes, States, Verdict
<1>5. \A q \in Rounds : child'[q].state # "none" => q <= counter'
  <2> SUFFICES ASSUME NEW q \in Rounds, child'[q].state # "none" PROVE q <= counter'
    OBVIOUS
  <2>1. CASE q = r
    BY <1>1, <2>1
  <2>2. CASE q # r
    <3>1. child[q].state # "none"
      BY <1>3, <2>2 DEF Base, TypeOK, RoundTypes
    <3>2. q <= counter /\ q \in Nat /\ counter \in Nat
      BY <3>1 DEF Base, Hands, Rounds, TypeOK, RoundTypes
    <3> QED
      BY <1>1, <3>2
  <2> QED
    BY <2>1, <2>2
<1> QED
  BY <1>1, <1>2, <1>3, <1>4, <1>5 DEF Spawn, Base, TypeOK, RoundTypes

LEMMA BaseKick ==
  ASSUME Base, Kick \/ KickTerminal
  PROVE  Base'
<1> USE DEF sharedVars, threadVars, anchorVars, historyVars, At
<1>1. PICK r \in Rounds : Spawn(r) /\ (Kick => inflight' = r) /\ (KickTerminal => tr' = [tr EXCEPT !["main"] = r])
  BY DEF Kick, KickTerminal
<1>2. child[r].state = "none" /\ child'[r].state # "none"
      /\ \A q \in Rounds : child[q].state # "none" => child'[q].state # "none"
  BY <1>1, Spawned
<1>3. CASE Kick
  <2>1. UNCHANGED <<latched, done, mailbox, threadVars, anchorVars, historyVars>> /\ pc["main"] = "train"
        /\ inflight' = r
    BY <1>1, <1>3 DEF Kick
  <2>2. RoundTypes'
    BY <1>1, <2>1, Spawned DEF Base, TypeOK, RoundTypes
  <2>3. ThreadTypes' /\ AnchorTypes'
    BY <2>1 DEF Base, TypeOK, ThreadTypes, AnchorTypes
  <2>4. Hands'
    BY <1>1, <1>2, <2>1, Spawned DEF Base, TypeOK, RoundTypes, Hands, Ending, Saving
  <2> QED
    BY <2>2, <2>3, <2>4 DEF Base, TypeOK
<1>4. CASE KickTerminal
  <2>1. /\ UNCHANGED <<sharedVars, res, todo, resumable, anchorVars, historyVars>>
        /\ pc["main"] = "terminal" /\ pc' = [pc EXCEPT !["main"] = "await"] /\ leg' = "terminal"
        /\ tr' = [tr EXCEPT !["main"] = r] /\ esc' = [esc EXCEPT !["main"] = FALSE]
    BY <1>1, <1>4 DEF KickTerminal, Goto
  <2>2. RoundTypes'
    BY <1>1, <2>1, Spawned DEF Base, TypeOK, RoundTypes
  <2>3. ThreadTypes'
    BY <2>1 DEF Base, TypeOK, ThreadTypes, Labels, Threads
  <2>4. AnchorTypes'
    BY <2>1 DEF Base, TypeOK, AnchorTypes
  <2>5. Hands'
    <3>1. pc'["main"] = "await" /\ pc'["poller"] = pc["poller"] /\ tr'["main"] = r
          /\ tr'["poller"] = tr["poller"]
      BY <2>1 DEF Base, TypeOK, ThreadTypes, Threads
    <3> QED
      BY <1>1, <1>2, <2>1, <3>1, Spawned DEF Base, TypeOK, RoundTypes, Hands, Ending, Saving, Threads
  <2> QED
    BY <2>2, <2>3, <2>4, <2>5 DEF Base, TypeOK
<1> QED
  BY <1>3, <1>4


\* A step that leaves the rounds' own records alone and moves thread t to a
\* label at which it holds the round it held, or none.
LEMMA HandsMove ==
  ASSUME Base, NEW t \in Threads, NEW l \in Labels \ {"down"}, Goto(t, l), pc[t] # "down",
         UNCHANGED <<counter, inflight, latched>>,
         \A r \in Rounds : child'[r].state = "none" <=> child[r].state = "none",
         tr'[t] = tr[t] \/ (tr'[t] \in Rounds /\ child[tr'[t]].state # "none"),
         \A u \in Threads \ {t} : tr'[u] = tr[u],
         l \in Ending \cup {"await"} => pc[t] \in Ending \cup {"await"} \/ tr'[t] # tr[t]
                                            \/ (tr'[t] \in Rounds /\ child[tr'[t]].state # "none"),
         t = "poller" => l \in Ending \cup {"idle", "ended"} /\ todo' = todo,
         t = "main" /\ l \in Saving => todo' # <<>>
  PROVE  Hands'
<1>1. pc'[t] = l /\ \A u \in Threads \ {t} : pc'[u] = pc[u]
  BY Moves
<1>2. \A u \in Threads : pc'[u] \in Ending \cup {"await"} =>
          tr'[u] \in Rounds /\ child'[tr'[u]].state # "none"
  <2> SUFFICES ASSUME NEW u \in Threads, pc'[u] \in Ending \cup {"await"}
               PROVE  tr'[u] \in Rounds /\ child[tr'[u]].state # "none"
    OBVIOUS
  <2>1. CASE u = t
    BY <1>1, <2>1 DEF Base, Hands
  <2>2. CASE u # t
    BY <1>1, <2>2 DEF Base, Hands
  <2> QED
    BY <2>1, <2>2
<1> QED
  BY <1>1, <1>2 DEF Base, TypeOK, RoundTypes, Hands, Threads, Saving, Ending

LEMMA BaseEnding ==
  ASSUME Base, NEW t \in Threads, Finalise(t)
  PROVE  Base'
<1> USE DEF sharedVars, anchorVars, historyVars, At
<1>1. CASE Kill(t)
  <2>1. /\ pc[t] = "kill" /\ tr[t] \in Rounds /\ child[tr[t]].state # "none"
        /\ \E s \in States \ {"none"} : child' = [child EXCEPT ![tr[t]].state = s]
        /\ Goto(t, "latch") /\ esc' = [esc EXCEPT ![t] = TRUE]
        /\ UNCHANGED <<counter, saved, spawns, partial, result, inflight, latched, done, mailbox,
                       tr, res, leg, todo, resumable, anchorVars, historyVars>>
    BY <1>1 DEF Kill, Base, Hands, Ending, States, TypeOK, RoundTypes
  <2>2. child' \in [Rounds -> [cand : Nat, state : States]]
        /\ \A q \in Rounds : child'[q].state = "none" <=> child[q].state = "none"
    BY <2>1 DEF Base, TypeOK, RoundTypes
  <2>3. RoundTypes'
    BY <2>1, <2>2 DEF Base, TypeOK, RoundTypes
  <2>4. ThreadTypes'
    BY <2>1, Moves DEF Base, TypeOK, ThreadTypes, Labels, Ending
  <2>5. AnchorTypes'
    BY <2>1 DEF Base, TypeOK, AnchorTypes
  <2>6. Hands'
    BY <2>1, <2>2, HandsMove DEF Labels, Ending, Saving
  <2> QED
    BY <2>3, <2>4, <2>5, <2>6 DEF Base, TypeOK
<1>2. CASE Latch(t)
  <2>1. /\ pc[t] = "latch" /\ tr[t] \in Rounds /\ child[tr[t]].state # "none"
        /\ \E l \in {"wait", "read"} : Goto(t, l)
        /\ latched' \in {latched, latched \cup {tr[t]}}
        /\ UNCHANGED <<roundVars, inflight, done, mailbox, tr, esc, res, leg, todo, resumable,
                       anchorVars, historyVars>>
    BY <1>2 DEF Latch, Base, Hands, Ending
  <2>2. PICK l \in {"wait", "read"} : Goto(t, l)
    BY <2>1
  <2>3. RoundTypes'
    BY <2>1 DEF Base, TypeOK, RoundTypes, roundVars
  <2>4. ThreadTypes'
    BY <2>1, <2>2, Moves DEF Base, TypeOK, ThreadTypes, Labels, Ending
  <2>5. AnchorTypes'
    BY <2>1 DEF Base, TypeOK, AnchorTypes
  <2>6. Hands'
    <3>1. pc'[t] = l /\ \A u \in Threads \ {t} : pc'[u] = pc[u]
      BY <2>2, Moves DEF Labels, Ending
    <3> QED
      BY <2>1, <3>1 DEF Base, Hands, Ending, Saving, Threads, roundVars
  <2> QED
    BY <2>3, <2>4, <2>5, <2>6 DEF Base, TypeOK
<1>3. CASE Read(t)
  <2>1. /\ pc[t] = "read" /\ tr[t] \in Rounds /\ Goto(t, "publish")
        /\ res' = [res EXCEPT ![t] = [cand |-> child[tr[t]].cand, promoted |-> VerdictOf(t) = "pass"]]
        /\ UNCHANGED <<roundVars, sharedVars, tr, esc, leg, todo, resumable, anchorVars, historyVars>>
    BY <1>3 DEF Read, Base, Hands, Ending
  <2>2. RoundTypes' /\ AnchorTypes'
    BY <2>1 DEF Base, TypeOK, RoundTypes, AnchorTypes, roundVars
  <2>3. [cand |-> child[tr[t]].cand, promoted |-> VerdictOf(t) = "pass"] \in Result
    <3>1. child[tr[t]].cand \in Nat
      BY <2>1 DEF Base, TypeOK, RoundTypes
    <3> QED
      BY <3>1 DEF Result
  <2>4. ThreadTypes'
    BY <2>1, <2>3, Moves DEF Base, TypeOK, ThreadTypes, Labels, Ending
  <2>5. Hands'
    BY <2>1, HandsMove DEF Labels, Ending, Saving, roundVars
  <2> QED
    BY <2>2, <2>4, <2>5 DEF Base, TypeOK
<1>4. CASE Publish(t)
  <2>1. /\ pc[t] = "publish" /\ \E l \in {"idle", "own", "take"} : Goto(t, l) /\ (t = "poller" => l = "idle")
        /\ partial' = [partial EXCEPT ![tr[t]] = "none"] /\ inflight' = NoRound
        /\ mailbox' = Append(mailbox, res[t]) /\ done' = done \cup {tr[t]} /\ tr[t] \in Rounds
        /\ UNCHANGED <<counter, saved, spawns, child, result, latched, tr, esc, res, leg, todo,
                       resumable, anchorVars, historyVars>>
    BY <1>4 DEF Publish, AfterRound, Base, Hands, Ending, Threads
  <2>2. PICK l \in {"idle", "own", "take"} : Goto(t, l) /\ (t = "poller" => l = "idle")
    BY <2>1
  <2>3. RoundTypes'
    <3>1. mailbox' \in Seq(Result)
      BY <2>1, AppendProperties DEF Base, TypeOK, RoundTypes, ThreadTypes
    <3> QED
      BY <2>1, <3>1 DEF Base, TypeOK, RoundTypes, Verdict
  <2>4. ThreadTypes'
    BY <2>1, <2>2, Moves DEF Base, TypeOK, ThreadTypes, Labels
  <2>5. AnchorTypes'
    BY <2>1 DEF Base, TypeOK, AnchorTypes
  <2>6. Hands'
    <3>1. pc'[t] = l /\ \A u \in Threads \ {t} : pc'[u] = pc[u]
      BY <2>2, Moves DEF Labels
    <3> QED
      BY <2>1, <2>2, <3>1 DEF Base, Hands, Ending, Saving, Threads
  <2> QED
    BY <2>3, <2>4, <2>5, <2>6 DEF Base, TypeOK
<1>5. CASE Wait(t)
  <2>1. /\ pc[t] = "wait" /\ \E l \in {"idle", "own", "take"} : Goto(t, l) /\ (t = "poller" => l = "idle")
        /\ UNCHANGED <<roundVars, sharedVars, tr, esc, res, leg, todo, resumable, anchorVars,
                       applied, routed, passed, launches>>
    BY <1>5 DEF Wait, AfterRound, Threads
  <2>2. PICK l \in {"idle", "own", "take"} : Goto(t, l) /\ (t = "poller" => l = "idle")
    BY <2>1
  <2>3. RoundTypes' /\ AnchorTypes'
    BY <2>1 DEF Base, TypeOK, RoundTypes, AnchorTypes, roundVars
  <2>4. ThreadTypes'
    BY <2>1, <2>2, Moves DEF Base, TypeOK, ThreadTypes, Labels
  <2>5. Hands'
    <3>1. pc'[t] = l /\ \A u \in Threads \ {t} : pc'[u] = pc[u]
      BY <2>2, Moves DEF Labels
    <3> QED
      BY <2>1, <2>2, <3>1 DEF Base, Hands, Ending, Saving, Threads, roundVars
  <2> QED
    BY <2>3, <2>4, <2>5 DEF Base, TypeOK
<1> QED
  BY <1>1, <1>2, <1>3, <1>4, <1>5 DEF Finalise

LEMMA BasePoller ==
  ASSUME Base, Poll \/ PollerEnds
  PROVE  Base'
<1> USE DEF sharedVars, anchorVars, historyVars, roundVars, At
<1>1. CASE Poll
  <2>1. /\ pc["poller"] = "idle" /\ inflight \in Rounds /\ child[inflight].state # "none"
        /\ tr' = [tr EXCEPT !["poller"] = inflight] /\ esc' = [esc EXCEPT !["poller"] = FALSE]
        /\ \E l \in {"kill", "latch"} : Goto("poller", l)
        /\ UNCHANGED <<roundVars, sharedVars, res, leg, todo, resumable, anchorVars, historyVars>>
    BY <1>1 DEF Poll, Base, Hands, TypeOK, RoundTypes
  <2>2. PICK l \in {"kill", "latch"} : Goto("poller", l)
    BY <2>1
  <2>3. RoundTypes' /\ AnchorTypes'
    BY <2>1 DEF Base, TypeOK, RoundTypes, AnchorTypes
  <2>4. pc' \in [Threads -> Labels] /\ pc'["poller"] = l /\ pc'["main"] = pc["main"]
    BY <2>2, Moves DEF Threads, Labels, Ending
  <2>5. ThreadTypes'
    BY <2>1, <2>4 DEF Base, TypeOK, ThreadTypes, Threads
  <2>6. tr'["poller"] = inflight /\ tr'["main"] = tr["main"]
    BY <2>1 DEF Base, TypeOK, ThreadTypes, Threads
  <2>7. Hands'
    BY <2>1, <2>4, <2>6 DEF Base, Hands, Ending, Saving, Threads
  <2> QED
    BY <2>3, <2>5, <2>7 DEF Base, TypeOK
<1>2. CASE PollerEnds
  <2>1. /\ pc["poller"] = "idle" /\ Goto("poller", "ended")
        /\ UNCHANGED <<roundVars, sharedVars, tr, esc, res, leg, todo, resumable, anchorVars, historyVars>>
    BY <1>2 DEF PollerEnds
  <2>2. RoundTypes' /\ AnchorTypes'
    BY <2>1 DEF Base, TypeOK, RoundTypes, AnchorTypes
  <2>3. pc' \in [Threads -> Labels] /\ pc'["poller"] = "ended" /\ pc'["main"] = pc["main"]
    BY <2>1, Moves DEF Threads, Labels
  <2>4. ThreadTypes'
    BY <2>1, <2>3 DEF Base, TypeOK, ThreadTypes
  <2>5. Hands'
    BY <2>1, <2>3 DEF Base, Hands, Ending, Saving, Threads
  <2> QED
    BY <2>2, <2>4, <2>5 DEF Base, TypeOK
<1> QED
  BY <1>1, <1>2

\* The trainer thread goes to a label at which it neither saves nor holds a
\* round it did not hold.
LEMMA HandsMain ==
  ASSUME Base, NEW l \in Labels \ {"down"}, Goto("main", l), pc["main"] # "down",
         UNCHANGED <<counter, child, inflight, latched, tr>>,
         l \in Ending \cup {"await"} => pc["main"] \in Ending \cup {"await"},
         l \in Saving => todo' # <<>>
  PROVE  Hands' /\ pc' \in [Threads -> Labels]
<1>1. pc' \in [Threads -> Labels] /\ pc'["main"] = l /\ pc'["poller"] = pc["poller"]
  BY Moves DEF Threads
<1> QED
  BY <1>1 DEF Base, Hands, Ending, Saving, Threads

LEMMA BaseTaking ==
  ASSUME Base, PollCompleted \/ TakeMailbox \/ TakeOwn
  PROVE  Base'
<1> USE DEF anchorVars, historyVars, roundVars, sharedVars, At
<1>1. /\ pc["main"] \in {"train", "take", "own"} /\ Goto("main", "route")
      /\ UNCHANGED <<roundVars, inflight, latched, done, tr, esc, res, resumable, anchorVars, historyVars>>
      /\ leg' \in {leg, "run"}
  BY DEF PollCompleted, TakeMailbox, TakeOwn
<1>2. todo' \in Seq(Result) /\ mailbox' \in Seq(Result)
  <2>1. CASE PollCompleted
    <3>1. Head(mailbox) \in Result /\ Tail(mailbox) \in Seq(Result)
      BY <2>1, HeadTailProperties DEF PollCompleted, Base, TypeOK, RoundTypes
    <3> QED
      BY <2>1, <3>1 DEF PollCompleted
  <2>2. CASE TakeMailbox
    BY <2>2 DEF TakeMailbox, Base, TypeOK, RoundTypes
  <2>3. CASE TakeOwn
    BY <2>3 DEF TakeOwn, Base, TypeOK, RoundTypes, ThreadTypes, Threads
  <2> QED
    BY <2>1, <2>2, <2>3
<1>3. RoundTypes' /\ AnchorTypes'
  BY <1>1, <1>2 DEF Base, TypeOK, RoundTypes, AnchorTypes
<1>4. Hands' /\ pc' \in [Threads -> Labels]
  BY <1>1, HandsMain DEF Labels, Ending, Saving
<1>5. ThreadTypes'
  BY <1>1, <1>2, <1>4 DEF Base, TypeOK, ThreadTypes
<1> QED
  BY <1>3, <1>4, <1>5 DEF Base, TypeOK

LEMMA BaseTurning ==
  ASSUME Base,
         SettleForStop \/ EndRun \/ SaveStop \/ Await \/ SkipTerminal \/ Stop \/ SaveBundle
  PROVE  Base'
<1> USE DEF anchorVars, historyVars, roundVars, sharedVars, At
<1>1. /\ pc["main"] \in {"train", "save", "await", "terminal", "stop"}
      /\ UNCHANGED <<counter, spawns, child, partial, result, sharedVars, tr, esc, res, todo,
                     anchorVars, historyVars>>
      /\ saved' \in {saved, counter} /\ resumable' \in BOOLEAN
      /\ leg' \in {"run", "settle", "close", "terminal"}
  BY DEF SettleForStop, EndRun, SaveStop, Await, SkipTerminal, Stop, SaveBundle, threadVars,
         Base, TypeOK, ThreadTypes
<1>2. RoundTypes' /\ AnchorTypes'
  BY <1>1 DEF Base, TypeOK, RoundTypes, AnchorTypes
<1>3. Hands' /\ pc' \in [Threads -> Labels]
  <2>1. CASE SaveBundle
    BY <2>1 DEF SaveBundle, threadVars, Base, Hands, TypeOK, ThreadTypes
  <2>2. CASE ~SaveBundle
    <3>1. PICK l \in {"capture", "kill", "latch", "stop", "join"} :
              Goto("main", l) /\ (l \in {"kill", "latch"} => pc["main"] = "await")
      BY <2>2 DEF SettleForStop, EndRun, SaveStop, Await, SkipTerminal, Stop
    <3> QED
      BY <1>1, <3>1, HandsMain DEF Labels, Ending, Saving
  <2> QED
    BY <2>1, <2>2
<1>4. ThreadTypes'
  BY <1>1, <1>3 DEF Base, TypeOK, ThreadTypes
<1> QED
  BY <1>2, <1>3, <1>4 DEF Base, TypeOK

LEMMA BaseCapture ==
  ASSUME Base, Capture
  PROVE  Base'
<1> USE DEF anchorVars, historyVars, roundVars, sharedVars, At
<1>1. /\ pc["main"] = "capture"
      /\ UNCHANGED <<roundVars, sharedVars, res, leg, todo, resumable, anchorVars, historyVars>>
  BY DEF Capture
<1>2. RoundTypes' /\ AnchorTypes'
  BY <1>1 DEF Base, TypeOK, RoundTypes, AnchorTypes
<1>3. CASE inflight = NoRound
  <2>1. Goto("main", "take") /\ UNCHANGED <<tr, esc>>
    BY <1>3 DEF Capture
  <2>2. Hands' /\ pc' \in [Threads -> Labels]
    BY <1>1, <2>1, HandsMain DEF Labels, Ending, Saving
  <2>3. ThreadTypes'
    BY <1>1, <2>1, <2>2 DEF Base, TypeOK, ThreadTypes
  <2> QED
    BY <1>2, <2>2, <2>3 DEF Base, TypeOK
<1>4. CASE inflight # NoRound
  <2>1. /\ tr' = [tr EXCEPT !["main"] = inflight] /\ esc' = [esc EXCEPT !["main"] = FALSE]
        /\ inflight \in Rounds /\ child[inflight].state # "none"
    BY <1>4 DEF Capture, Base, TypeOK, RoundTypes, Hands
  <2>2. PICK l \in {"latch", "kill", "await"} : Goto("main", l)
    BY <1>4 DEF Capture
  <2>3. pc' \in [Threads -> Labels] /\ pc'["main"] = l /\ pc'["poller"] = pc["poller"]
    BY <2>2, Moves DEF Threads, Labels, Ending
  <2>4. tr'["main"] = inflight /\ tr'["poller"] = tr["poller"]
    BY <2>1 DEF Base, TypeOK, ThreadTypes, Threads
  <2>5. ThreadTypes'
    BY <1>1, <2>1, <2>3 DEF Base, TypeOK, ThreadTypes, Threads
  <2>6. Hands'
    BY <1>1, <2>1, <2>3, <2>4 DEF Base, Hands, Ending, Saving, Threads
  <2> QED
    BY <1>2, <2>5, <2>6 DEF Base, TypeOK
<1> QED
  BY <1>3, <1>4

LEMMA BaseRoute ==
  ASSUME Base, Route
  PROVE  Base'
<1> USE DEF anchorVars, roundVars, sharedVars, At
<1>1. /\ pc["main"] = "route"
      /\ UNCHANGED <<roundVars, sharedVars, tr, esc, res, leg, resumable, anchorVars,
                     applied, passed, owed, late, failures, failed, launches>>
  BY DEF Route
<1>2. /\ todo' \in Seq(Result) /\ routed' \in Seq(Nat)
      /\ \E l \in {"train", "save", "terminal", "stop", "write", "route"} :
             Goto("main", l) /\ (l = "write" => todo' # <<>>)
  <2>1. CASE todo = <<>>
    BY <2>1 DEF Route, NextLabel, Base, TypeOK, ThreadTypes, AnchorTypes
  <2>2. CASE todo # <<>>
    <3>1. Head(todo) \in Result /\ Tail(todo) \in Seq(Result)
      BY <2>2, HeadTailProperties DEF Base, TypeOK, ThreadTypes
    <3>2. routed' = Append(routed, Head(todo).cand) /\ Head(todo).cand \in Nat
      BY <2>2, <3>1 DEF Route, Result
    <3>3. routed' \in Seq(Nat)
      BY <3>2, AppendProperties DEF Base, TypeOK, AnchorTypes
    <3>4. CASE Head(todo).promoted
      BY <2>2, <3>3, <3>4 DEF Route, Base, TypeOK, ThreadTypes
    <3>5. CASE ~Head(todo).promoted
      <4>1. pc' = pc /\ todo' = Tail(todo)
        BY <2>2, <3>5 DEF Route
      <4>2. Goto("main", "route")
        BY <1>1, <4>1 DEF Goto, Base, TypeOK, ThreadTypes
      <4> QED
        BY <3>1, <3>3, <4>1, <4>2
    <3> QED
      BY <3>4, <3>5
  <2> QED
    BY <2>1, <2>2
<1>3. Hands' /\ pc' \in [Threads -> Labels]
  BY <1>1, <1>2, HandsMain DEF Labels, Ending, Saving
<1>4. RoundTypes' /\ ThreadTypes' /\ AnchorTypes'
  BY <1>1, <1>2, <1>3 DEF Base, TypeOK, RoundTypes, ThreadTypes, AnchorTypes
<1> QED
  BY <1>3, <1>4 DEF Base, TypeOK

LEMMA BaseSaving ==
  ASSUME Base, WriteAnchor \/ Rotate \/ RenameAnchor \/ SaveFails
  PROVE  Base'
<1> USE DEF anchorVars, roundVars, sharedVars, historyVars, At
<1>1. /\ pc["main"] \in Saving /\ todo # <<>>
      /\ UNCHANGED <<roundVars, sharedVars, tr, esc, res, resumable, routed, passed, launches>>
      /\ leg' \in {leg, "close"}
  BY DEF WriteAnchor, Rotate, RenameAnchor, SaveFails, Saving, Base, Hands
<1>2. Head(todo) \in Result /\ Tail(todo) \in Seq(Result) /\ Head(todo).cand \in Nat
  <2>1. todo \in Seq(Result)
    BY DEF Base, TypeOK, ThreadTypes
  <2>2. Head(todo) \in Result /\ Tail(todo) \in Seq(Result)
    BY <1>1, <2>1, HeadTailProperties
  <2> QED
    BY <2>2 DEF Result
<1>3. todo' \in Seq(Result)
  <2>1. todo' = todo \/ todo' = Tail(todo) \/ todo' = <<>>
    BY DEF WriteAnchor, Rotate, RenameAnchor, SaveFails
  <2>2. <<>> \in Seq(Result)
    BY EmptySeq
  <2> QED
    BY <1>2, <2>1, <2>2 DEF Base, TypeOK, ThreadTypes
<1>4. best' \in Int /\ bak' \in Int /\ tmp' \in Int /\ live' \in Int
  BY <1>2 DEF WriteAnchor, Rotate, RenameAnchor, SaveFails, Base, TypeOK, AnchorTypes, Absent
<1>5. applied' \in Seq(Nat)
  <2>1. Append(applied, Head(todo).cand) \in Seq(Nat)
    BY <1>2, AppendProperties DEF Base, TypeOK, AnchorTypes
  <2> QED
    BY <2>1 DEF WriteAnchor, Rotate, RenameAnchor, SaveFails, Base, TypeOK, AnchorTypes
<1>6. PICK l \in {"rotate", "rename", "route", "capture", "stop"} :
          Goto("main", l) /\ (l \in Saving => todo' # <<>>)
  BY <1>1 DEF WriteAnchor, Rotate, RenameAnchor, SaveFails, Saving
<1>7. Hands' /\ pc' \in [Threads -> Labels]
  BY <1>1, <1>6, HandsMain DEF Labels, Ending, Saving
<1>8. RoundTypes' /\ ThreadTypes' /\ AnchorTypes'
  BY <1>1, <1>3, <1>4, <1>5, <1>7 DEF Base, TypeOK, RoundTypes, ThreadTypes, AnchorTypes
<1> QED
  BY <1>7, <1>8 DEF Base, TypeOK

LEMMA BaseProcess ==
  ASSUME Base, StopEnds \/ Die \/ Launch
  PROVE  Base'
<1> USE DEF anchorVars, roundVars, sharedVars, historyVars, At
<1>1. CASE StopEnds
  <2>1. /\ pc["main"] = "join" /\ Goto("main", "exited")
        /\ UNCHANGED <<counter, saved, spawns, result, sharedVars, tr, esc, res, leg, todo,
                       resumable, anchorVars, historyVars>>
    BY <1>1 DEF StopEnds
  <2>2. /\ child' \in [Rounds -> [cand : Nat, state : States]] /\ partial' \in [Rounds -> Verdict]
        /\ \A q \in Rounds : child'[q].state = "none" <=> child[q].state = "none"
    <3>1. CASE inflight = NoRound
      BY <1>1, <3>1 DEF StopEnds, Base, TypeOK, RoundTypes
    <3>2. CASE inflight # NoRound
      <4>1. inflight \in Rounds /\ child[inflight].state # "none"
        BY <3>2 DEF Base, Hands, TypeOK, RoundTypes
      <4>2. /\ \E s \in States \ {"none"} : child' = [child EXCEPT ![inflight].state = s]
            /\ partial' = [partial EXCEPT ![inflight] = "none"]
        BY <1>1, <3>2, <4>1 DEF StopEnds, States, Base, TypeOK, RoundTypes
      <4> QED
        BY <4>1, <4>2 DEF Base, TypeOK, RoundTypes, Verdict
    <3> QED
      BY <3>1, <3>2
  <2>3. pc' \in [Threads -> Labels] /\ pc'["main"] = "exited" /\ pc'["poller"] = pc["poller"]
    BY <2>1, Moves DEF Threads, Labels
  <2>4. RoundTypes' /\ ThreadTypes' /\ AnchorTypes'
    BY <2>1, <2>2, <2>3 DEF Base, TypeOK, RoundTypes, ThreadTypes, AnchorTypes
  <2>5. Hands'
    BY <2>1, <2>2, <2>3 DEF Base, TypeOK, RoundTypes, Hands, Ending, Saving, Threads
  <2> QED
    BY <2>4, <2>5 DEF Base, TypeOK
<1>2. CASE Die
  <2>1. /\ child' = [r \in Rounds |-> NoChild] /\ pc' = [t \in Threads |-> "down"]
        /\ inflight' = NoRound /\ latched' = {} /\ done' = {} /\ mailbox' = <<>>
        /\ tr' = [t \in Threads |-> NoRound] /\ esc' = [t \in Threads |-> FALSE]
        /\ res' = [t \in Threads |-> NoResult] /\ leg' = "run" /\ todo' = <<>>
        /\ resumable' = FALSE /\ live' = Absent
        /\ UNCHANGED <<counter, saved, spawns, partial, result, best, bak, tmp, applied,
                       routed, passed, failures, launches>>
    BY <1>2 DEF Die
  <2>2. RoundTypes'
    BY <2>1 DEF Base, TypeOK, RoundTypes, NoChild, States
  <2>3. ThreadTypes'
    <3>1. pc' \in [Threads -> Labels]
      BY <2>1 DEF Labels
    <3>2. tr' \in [Threads -> Rounds \cup {NoRound}] /\ esc' \in [Threads -> BOOLEAN]
      BY <2>1
    <3>3. res' \in [Threads -> Result]
      BY <2>1 DEF NoResult, Result
    <3>4. leg' \in {"run", "settle", "close", "terminal"} /\ resumable' \in BOOLEAN
          /\ todo' \in Seq(Result)
      BY <2>1, EmptySeq
    <3> QED
      BY <3>1, <3>2, <3>3, <3>4 DEF ThreadTypes
  <2>4. AnchorTypes'
    BY <2>1 DEF Base, TypeOK, AnchorTypes, Absent
  <2>5. Hands'
    BY <2>1 DEF Hands, NoChild, Ending, Saving, Threads
  <2> QED
    BY <2>2, <2>3, <2>4, <2>5 DEF Base, TypeOK
<1>3. CASE Launch
  <2>1. /\ pc["main"] = "down" /\ pc' = [main |-> "train", poller |-> "idle"]
        /\ counter' = saved /\ partial' = [r \in Rounds |-> "none"]
        /\ best' = live' /\ (live' = 0 \/ live' = Incumbent) /\ launches' = launches + 1
        /\ (applied' = Append(applied, 0) \/ applied' = applied)
        /\ UNCHANGED <<saved, spawns, child, result, sharedVars, tr, esc, res, leg, todo,
                       resumable, bak, tmp, routed, passed, owed, late, failures, failed>>
    BY <1>3 DEF Launch
  <2>2. RoundTypes'
    BY <2>1 DEF Base, TypeOK, RoundTypes, Verdict
  <2>3. ThreadTypes'
    BY <2>1 DEF Base, TypeOK, ThreadTypes, Labels, Threads
  <2>4. AnchorTypes'
    <3>1. applied' \in Seq(Nat)
      <4>1. Append(applied, 0) \in Seq(Nat) /\ applied \in Seq(Nat)
        BY AppendProperties DEF Base, TypeOK, AnchorTypes
      <4> QED
        BY <2>1, <4>1
    <3>2. Incumbent \in Int
      BY DEF Incumbent, Base, TypeOK, AnchorTypes
    <3>3. live' \in Int /\ best' \in Int
      BY <2>1, <3>2
    <3> QED
      BY <2>1, <3>1, <3>3 DEF Base, TypeOK, AnchorTypes
  <2>5. pc'["main"] = "train" /\ pc'["poller"] = "idle" /\ \A r \in Rounds : child[r].state = "none"
    BY <2>1 DEF Base, Hands
  <2>6. inflight = NoRound /\ latched = {}
    BY <2>5 DEF Base, Hands, TypeOK, RoundTypes
  <2>7. Hands'
    BY <2>1, <2>5, <2>6 DEF Hands, Ending, Saving, Threads, NoRound
  <2> QED
    BY <2>2, <2>3, <2>4, <2>7 DEF Base, TypeOK
<1> QED
  BY <1>1, <1>2, <1>3

LEMMA BaseStep == Base /\ [Next]_vars => Base'
<1> SUFFICES ASSUME Base, [Next]_vars PROVE Base'
  OBVIOUS
<1>1. CASE \E r \in Rounds : Judge(r) \/ WriteResult(r) \/ ChildExit(r)
  BY <1>1, BaseChild
<1>2. CASE \E t \in Threads : Finalise(t)
  BY <1>2, BaseEnding
<1>3. CASE Poll \/ PollerEnds
  BY <1>3, BasePoller
<1>4. CASE Kick \/ KickTerminal
  BY <1>4, BaseKick
<1>5. CASE PollCompleted \/ TakeMailbox \/ TakeOwn
  BY <1>5, BaseTaking
<1>6. CASE SettleForStop \/ EndRun \/ SaveStop \/ Await \/ SkipTerminal \/ Stop \/ SaveBundle
  BY <1>6, BaseTurning
<1>7. CASE Capture
  BY <1>7, BaseCapture
<1>8. CASE Route
  BY <1>8, BaseRoute
<1>9. CASE WriteAnchor \/ Rotate \/ RenameAnchor \/ SaveFails
  BY <1>9, BaseSaving
<1>10. CASE StopEnds \/ Die \/ Launch
  BY <1>10, BaseProcess
<1>11. CASE UNCHANGED vars
  BY <1>11 DEF vars, roundVars, sharedVars, threadVars, anchorVars, historyVars, Base, TypeOK,
     RoundTypes, ThreadTypes, AnchorTypes, Hands
<1> QED
  BY <1>1, <1>2, <1>3, <1>4, <1>5, <1>6, <1>7, <1>8, <1>9, <1>10, <1>11 DEF Next

-----------------------------------------------------------------------------
\* What the last finished promotion left on the disk: the file, or while the
\* rename is pending its backup; the temporary file holds the one at hand.
Anchor ==
    /\ launches = 0 => pc["main"] = "down" /\ best = Absent /\ bak = Absent /\ applied = <<>>
    /\ launches > 0 => applied # <<>> /\ Incumbent = applied[Len(applied)]
    /\ pc["main"] = "rotate" => best # Absent
    /\ pc["main"] \in {"rotate", "rename"} => tmp = Head(todo).cand

AnchorStepOf == WriteAnchor \/ Rotate \/ RenameAnchor \/ SaveFails \/ Die \/ Launch

\* No other step saves, nor does it begin to.
LEMMA Quiet ==
  ASSUME Base, Next, ~AnchorStepOf
  PROVE  /\ UNCHANGED <<best, bak, tmp, applied, launches>>
         /\ pc'["main"] \in {"rotate", "rename"} => pc'["main"] = pc["main"] /\ todo' = todo
         /\ pc["main"] = "down" => pc'["main"] = "down"
<1> USE DEF anchorVars, historyVars, roundVars, sharedVars, threadVars, At
<1>0. pc \in [Threads -> Labels] /\ "main" \in Threads /\ "poller" \in Threads
  BY DEF Base, TypeOK, ThreadTypes, Threads
<1>1. CASE \E r \in Rounds : Judge(r) \/ WriteResult(r) \/ ChildExit(r)
  BY <1>1 DEF Judge, WriteResult, ChildExit
<1>2. ASSUME NEW t \in Threads, Finalise(t)
      PROVE  /\ UNCHANGED <<best, bak, tmp, applied, launches, todo>>
             /\ pc'["main"] \in {"rotate", "rename"} => pc'["main"] = pc["main"]
             /\ pc["main"] = "down" => pc'["main"] = "down"
  <2>1. UNCHANGED <<best, bak, tmp, applied, launches, todo>>
    BY <1>2 DEF Finalise, Kill, Latch, Read, Publish, Wait
  <2>2. PICK l \in {"latch", "wait", "read", "publish", "idle", "own", "take"} :
            Goto(t, l) /\ pc[t] # "down"
    BY <1>2 DEF Finalise, Kill, Latch, Read, Publish, Wait, AfterRound
  <2> QED
    BY <1>0, <2>1, <2>2 DEF Goto, Threads
<1>3. CASE Poll \/ PollerEnds
  <2>1. PICK l \in {"kill", "latch", "ended"} : Goto("poller", l)
    BY <1>3 DEF Poll, PollerEnds
  <2> QED
    BY <1>0, <1>3, <2>1 DEF Poll, PollerEnds, Goto
<1>4. CASE Kick \/ SaveBundle
  BY <1>4 DEF Kick, SaveBundle
<1>5. CASE PollCompleted \/ SettleForStop \/ EndRun \/ SaveStop \/ Capture \/ Await \/ TakeMailbox
  BY <1>0, <1>5 DEF PollCompleted, SettleForStop, EndRun, SaveStop, Capture, Await, TakeMailbox, Goto
<1>6. CASE Route
  BY <1>0, <1>6 DEF Route, NextLabel, Goto
<1>7. CASE KickTerminal \/ SkipTerminal \/ TakeOwn \/ Stop \/ StopEnds
  BY <1>0, <1>7 DEF KickTerminal, SkipTerminal, TakeOwn, Stop, StopEnds, Goto
<1> QED
  BY <1>1, <1>2, <1>3, <1>4, <1>5, <1>6, <1>7 DEF Next, AnchorStepOf

LEMMA AnchorStep == Base /\ Anchor /\ [Next]_vars => Anchor'
<1> SUFFICES ASSUME Base, Anchor, [Next]_vars PROVE Anchor'
  OBVIOUS
<1> USE DEF anchorVars, historyVars, roundVars, sharedVars, threadVars, At
<1>0. /\ pc \in [Threads -> Labels] /\ "main" \in Threads /\ applied \in Seq(Nat) /\ launches \in Nat
      /\ pc["main"] \in Saving => Head(todo).cand \in Nat
  <2>1. pc["main"] \in Saving => todo \in Seq(Result) /\ todo # <<>>
    BY DEF Base, TypeOK, ThreadTypes, Hands
  <2>2. pc["main"] \in Saving => Head(todo) \in Result
    BY <2>1, HeadTailProperties
  <2> QED
    BY <2>2 DEF Base, TypeOK, ThreadTypes, AnchorTypes, Threads, Result
<1>1. CASE Next /\ ~AnchorStepOf
  <2>1. Incumbent' = Incumbent
    BY <1>1, Quiet DEF Incumbent
  <2> QED
    BY <1>0, <1>1, <2>1, Quiet DEF Anchor
<1>2. CASE WriteAnchor
  <2>1. /\ pc'["main"] = IF best # Absent THEN "rotate" ELSE "rename"
        /\ tmp' = Head(todo).cand
        /\ UNCHANGED <<best, bak, applied, launches, todo>> /\ launches > 0
    BY <1>0, <1>2 DEF WriteAnchor, Goto, Anchor
  <2> QED
    BY <2>1 DEF Anchor, Incumbent
<1>3. CASE Rotate
  <2>1. /\ pc'["main"] = "rename" /\ bak' = best /\ best' = Absent
        /\ UNCHANGED <<tmp, applied, launches, todo>> /\ launches > 0
    BY <1>0, <1>3 DEF Rotate, Goto, Anchor
  <2> QED
    BY <1>0, <1>3, <2>1 DEF Anchor, Incumbent, Rotate
<1>4. CASE RenameAnchor
  <2>1. /\ pc'["main"] = "route" /\ best' = Head(todo).cand /\ Head(todo).cand \in Nat
        /\ applied' = Append(applied, Head(todo).cand) /\ launches > 0 /\ launches' = launches
    BY <1>0, <1>4 DEF RenameAnchor, Goto, Anchor, Saving
  <2>2. applied' # <<>> /\ applied'[Len(applied')] = Head(todo).cand
    BY <1>0, <2>1, AppendProperties
  <2> QED
    BY <2>1, <2>2 DEF Anchor, Incumbent, Absent
<1>5. CASE SaveFails
  <2>1. pc'["main"] \in {"capture", "stop"} /\ UNCHANGED <<best, bak, tmp, applied, launches>>
        /\ launches > 0
    BY <1>0, <1>5 DEF SaveFails, Goto, Anchor
  <2> QED
    BY <2>1 DEF Anchor, Incumbent
<1>6. CASE Die
  BY <1>6 DEF Die, Anchor, Incumbent, Threads
<1>7. CASE Launch
  <2>1. /\ pc'["main"] = "train" /\ launches' = launches + 1
        /\ live' = (IF Incumbent = Absent THEN 0 ELSE Incumbent) /\ best' = live'
        /\ applied' = (IF Incumbent = Absent THEN Append(applied, 0) ELSE applied)
    BY <1>7 DEF Launch
  <2>2. CASE Incumbent = Absent
    <3>1. best' = 0 /\ applied' = Append(applied, 0)
      BY <2>1, <2>2
    <3>2. applied' # <<>> /\ applied'[Len(applied')] = 0
      BY <1>0, <3>1, AppendProperties
    <3> QED
      BY <1>0, <2>1, <3>1, <3>2 DEF Anchor, Incumbent, Absent
  <2>3. CASE Incumbent # Absent
    <3>1. best' = Incumbent /\ applied' = applied
      BY <2>1, <2>3
    <3>2. launches > 0
      BY <1>0, <2>3 DEF Anchor, Incumbent
    <3> QED
      BY <1>0, <2>1, <2>3, <3>1, <3>2 DEF Anchor, Incumbent
  <2> QED
    BY <2>2, <2>3
<1>8. CASE UNCHANGED vars
  BY <1>8 DEF vars, Anchor, Incumbent
<1> QED
  BY <1>1, <1>2, <1>3, <1>4, <1>5, <1>6, <1>7, <1>8 DEF AnchorStepOf

\* TypeOK is an invariant: every field, thread label and file stays within its
\* type, and a thread that ends a round holds one whose child this process
\* spawned.
THEOREM PipelineTypes == Spec => []Base
<1>1. Init => Base
  BY InitBase
<1>2. Base /\ [Next]_vars => Base'
  BY BaseStep
<1> QED
  BY <1>1, <1>2, PTL DEF Spec

\* load_best_model_resilient finds the last promotion whose rename was done,
\* whenever the process died between the rotation and the rename, for any
\* number of launches, rounds and failed saves.
THEOREM IncumbentAlwaysLast == Spec => []IncumbentIsLastApplied
<1>1. Init => Base /\ Anchor
  <2>1. Init => Anchor
    BY DEF Init, Anchor
  <2> QED
    BY <2>1, InitBase
<1>2. Base /\ Anchor /\ [Next]_vars => (Base /\ Anchor)'
  BY BaseStep, AnchorStep
<1>3. Base /\ Anchor => IncumbentIsLastApplied
  BY DEF Anchor, IncumbentIsLastApplied
<1> QED
  BY <1>1, <1>2, <1>3, PTL DEF Spec

-----------------------------------------------------------------------------
\* A candidate that is promoted passed its gate: wherever a passing verdict is
\* on its way to the anchor, the child of that very candidate persisted one.
Sound(c, p) == p => c \in passed
FileSound(r) ==
    /\ child[r].state # "none" => Sound(child[r].cand, partial[r] = "pass")
    /\ child[r].state \in {"written", "clean"} => Sound(child[r].cand, result[r] = "pass")

ResSound == \A t \in Threads : Sound(res[t].cand, res[t].promoted)
TodoSound == \A i \in DOMAIN todo : Sound(todo[i].cand, todo[i].promoted)

Judged ==
    /\ \A r \in Rounds : FileSound(r)
    /\ ResSound /\ TodoSound
    /\ \A i \in DOMAIN mailbox : Sound(mailbox[i].cand, mailbox[i].promoted)
    /\ pc["main"] \in Saving => Head(todo).promoted
    /\ \A i \in DOMAIN applied : applied[i] = 0 \/ applied[i] \in passed

\* The worker's steps write the files of their own round.
LEMMA JudgedChild ==
  ASSUME Base, Judged, NEW r \in Rounds, Judge(r) \/ WriteResult(r) \/ ChildExit(r)
  PROVE  Judged'
<1> USE DEF sharedVars, threadVars, anchorVars, historyVars
<1>0. /\ child \in [Rounds -> [cand : Nat, state : States]]
      /\ partial \in [Rounds -> Verdict] /\ result \in [Rounds -> Verdict]
  BY DEF Base, TypeOK, RoundTypes
<1>1. /\ UNCHANGED <<mailbox, pc, res, todo, applied>> /\ passed \subseteq passed'
      /\ \A q \in Rounds : child'[q].cand = child[q].cand
      /\ \A q \in Rounds \ {r} : /\ child'[q] = child[q] /\ partial'[q] = partial[q]
                                 /\ result'[q] = result[q]
  BY <1>0 DEF Judge, WriteResult, ChildExit
<1>2. FileSound(r)'
  <2>1. CASE Judge(r)
    <3>1. /\ child'[r].state = "judged" /\ child'[r].cand = child[r].cand
          /\ partial'[r] = "pass" => child[r].cand \in passed'
      BY <1>0, <2>1 DEF Judge
    <3> QED
      BY <3>1 DEF FileSound, ResSound, TodoSound, Sound
  <2>2. CASE WriteResult(r)
    <3>1. /\ child'[r].state = "written" /\ child'[r].cand = child[r].cand
          /\ partial' = partial /\ result'[r] = partial[r] /\ passed' = passed
          /\ child[r].state # "none"
      BY <1>0, <2>2 DEF WriteResult
    <3> QED
      BY <3>1 DEF FileSound, ResSound, TodoSound, Sound, Judged
  <2>3. CASE ChildExit(r)
    <3>1. /\ child'[r].state = (IF child[r].state = "written" THEN "clean" ELSE "nonzero")
          /\ child'[r].cand = child[r].cand /\ child[r].state # "none"
          /\ partial' = partial /\ result' = result /\ passed' = passed
      BY <1>0, <2>3 DEF ChildExit, Alive
    <3> QED
      BY <3>1 DEF FileSound, ResSound, TodoSound, Sound, Judged
  <2> QED
    BY <2>1, <2>2, <2>3
<1>3. \A q \in Rounds : FileSound(q)'
  BY <1>1, <1>2 DEF FileSound, ResSound, TodoSound, Sound, Judged
<1> QED
  BY <1>1, <1>3 DEF Judged, ResSound, TodoSound, Sound

\* Steps that add no file, result or promotion: a partial file may go, a child
\* may be killed or, fresh, replace none.
LEMMA JudgedQuiet ==
  ASSUME Base, Judged, UNCHANGED <<result, res, applied, passed>>,
         \A r \in Rounds : \/ /\ child'[r].cand = child[r].cand
                              /\ child'[r].state \in {child[r].state, "signal"}
                              /\ child'[r].state # "none" => child[r].state # "none"
                              /\ partial'[r] \in {partial[r], "none"}
                           \/ child'[r].state \in {"none", "playing"} /\ partial'[r] = "none"
                           \/ child'[r].state = "none",
         \A i \in DOMAIN mailbox' : (\E j \in DOMAIN mailbox : mailbox'[i] = mailbox[j])
                                 \/ \E t \in Threads : mailbox'[i] = res[t],
         \A i \in DOMAIN todo' : \/ \E j \in DOMAIN mailbox : todo'[i] = mailbox[j]
                                 \/ \E j \in DOMAIN todo : todo'[i] = todo[j]
                                 \/ \E t \in Threads : todo'[i] = res[t],
         pc'["main"] \in Saving => Head(todo').promoted
  PROVE  Judged'
<1>1. \A r \in Rounds : FileSound(r)'
  BY DEF Judged, FileSound, ResSound, TodoSound, Sound
<1>2. \A i \in DOMAIN mailbox' : Sound(mailbox'[i].cand, mailbox'[i].promoted)
  BY DEF Judged, ResSound, TodoSound, Sound
<1>3. \A i \in DOMAIN todo' : Sound(todo'[i].cand, todo'[i].promoted)
  BY DEF Judged, ResSound, TodoSound, Sound
<1> QED
  BY <1>1, <1>2, <1>3 DEF Judged, ResSound, TodoSound, Sound

\* What is taken from a sequence was in it.
LEMMA Tails ==
  ASSUME NEW S, NEW q \in Seq(S), q # <<>>
  PROVE  /\ Head(q) = q[1] /\ 1 \in DOMAIN q
         /\ \A i \in DOMAIN Tail(q) : i + 1 \in DOMAIN q /\ Tail(q)[i] = q[i + 1]
<1>1. /\ Len(q) \in Nat \ {0} /\ Len(Tail(q)) = Len(q) - 1 /\ Tail(q) \in Seq(S) /\ Head(q) = q[1]
      /\ \A i \in 1 .. Len(Tail(q)) : Tail(q)[i] = q[i + 1]
  BY HeadTailProperties, EmptySeq
<1>2. DOMAIN q = 1 .. Len(q) /\ DOMAIN Tail(q) = 1 .. Len(Tail(q))
  BY <1>1, LenProperties
<1> QED
  BY <1>1, <1>2

LEMMA Appends ==
  ASSUME NEW S, NEW q \in Seq(S), NEW e \in S
  PROVE  /\ Append(q, e) \in Seq(S)
         /\ \A i \in DOMAIN Append(q, e) : (i \in DOMAIN q /\ Append(q, e)[i] = q[i]) \/ Append(q, e)[i] = e
         /\ \A i \in DOMAIN q : i \in DOMAIN Append(q, e) /\ Append(q, e)[i] = q[i]
         /\ \E i \in DOMAIN Append(q, e) : Append(q, e)[i] = e /\ i \notin DOMAIN q
<1>1. /\ Append(q, e) \in Seq(S) /\ Len(Append(q, e)) = Len(q) + 1 /\ Len(q) \in Nat
      /\ Append(q, e)[Len(q) + 1] = e /\ \A i \in 1 .. Len(q) : Append(q, e)[i] = q[i]
  BY AppendProperties, LenProperties
<1>2. DOMAIN q = 1 .. Len(q) /\ DOMAIN Append(q, e) = 1 .. Len(q) + 1
  BY <1>1, LenProperties
<1> QED
  BY <1>1, <1>2

LEMMA JudgedEnding ==
  ASSUME Base, Judged, NEW t \in Threads, Finalise(t)
  PROVE  Judged'
<1> USE DEF anchorVars, historyVars, roundVars, sharedVars, At
<1>0. /\ child \in [Rounds -> [cand : Nat, state : States]] /\ pc \in [Threads -> Labels]
      /\ partial \in [Rounds -> Verdict] /\ mailbox \in Seq(Result) /\ res \in [Threads -> Result]
      /\ pc[t] \in Ending => tr[t] \in Rounds /\ child[tr[t]].state # "none"
  BY DEF Base, TypeOK, RoundTypes, ThreadTypes, Hands
<1>1. todo' = todo /\ (pc'["main"] \in Saving => pc["main"] \in Saving)
  <2>1. PICK l \in {"latch", "wait", "read", "publish", "idle", "own", "take"} : Goto(t, l)
    BY DEF Finalise, Kill, Latch, Read, Publish, Wait, AfterRound
  <2>2. todo' = todo
    BY DEF Finalise, Kill, Latch, Read, Publish, Wait
  <2> QED
    BY <1>0, <2>1, <2>2 DEF Goto, Saving, Threads
<1>2. pc'["main"] \in Saving => Head(todo').promoted
  BY <1>1 DEF Judged
<1>3. CASE Kill(t)
  <2>1. /\ UNCHANGED <<result, res, applied, passed, partial, mailbox>>
        /\ \A r \in Rounds : /\ child'[r].cand = child[r].cand
                             /\ child'[r].state \in {child[r].state, "signal"}
                             /\ child'[r].state # "none" => child[r].state # "none"
    BY <1>0, <1>3 DEF Kill, Ending
  <2> QED
    BY <1>1, <1>2, <2>1, JudgedQuiet
<1>4. CASE Latch(t) \/ Wait(t)
  <2>1. UNCHANGED <<child, result, res, applied, passed, partial, mailbox>>
    BY <1>4 DEF Latch, Wait
  <2> QED
    BY <1>1, <1>2, <2>1, JudgedQuiet
<1>5. CASE Read(t)
  <2>1. /\ UNCHANGED <<child, partial, result, mailbox, applied, passed>>
        /\ tr[t] \in Rounds /\ child[tr[t]].state # "none"
        /\ res' = [res EXCEPT ![t] = [cand |-> child[tr[t]].cand, promoted |-> VerdictOf(t) = "pass"]]
    BY <1>0, <1>5 DEF Read, Ending
  <2>2. VerdictOf(t) = "pass" => child[tr[t]].cand \in passed
    <3>1. FileSound(tr[t])
      BY <2>1 DEF Judged
    <3> QED
      BY <2>1, <3>1 DEF FileSound, ResSound, TodoSound, Sound, VerdictOf
  <2>3. /\ res'[t].cand = child[tr[t]].cand /\ (res'[t].promoted <=> VerdictOf(t) = "pass")
        /\ \A u \in Threads \ {t} : res'[u] = res[u]
    BY <1>0, <2>1
  <2>4. ResSound'
    <3> SUFFICES ASSUME NEW u \in Threads, res'[u].promoted PROVE res'[u].cand \in passed'
      BY DEF ResSound, Sound
    <3>1. CASE u = t
      BY <2>1, <2>2, <2>3, <3>1
    <3>2. CASE u # t
      BY <2>1, <2>3, <3>2 DEF Judged, ResSound, Sound
    <3> QED
      BY <3>1, <3>2
  <2>5. \A r \in Rounds : FileSound(r)'
    BY <2>1 DEF Judged, FileSound, ResSound, TodoSound, Sound
  <2> QED
    BY <1>1, <1>2, <2>1, <2>4, <2>5 DEF Judged, ResSound, TodoSound, Sound
<1>6. CASE Publish(t)
  <2>1. /\ UNCHANGED <<child, result, res, applied, passed>>
        /\ partial' = [partial EXCEPT ![tr[t]] = "none"] /\ mailbox' = Append(mailbox, res[t])
    BY <1>6 DEF Publish
  <2>2. \A i \in DOMAIN mailbox' : (\E j \in DOMAIN mailbox : mailbox'[i] = mailbox[j])
                                 \/ \E u \in Threads : mailbox'[i] = res[u]
    BY <1>0, <2>1, Appends
  <2>3. \A r \in Rounds : partial'[r] \in {partial[r], "none"}
    BY <1>0, <2>1
  <2> QED
    BY <1>1, <1>2, <2>1, <2>2, <2>3, JudgedQuiet
<1> QED
  BY <1>3, <1>4, <1>5, <1>6 DEF Finalise

LEMMA JudgedMain ==
  ASSUME Base, Judged,
         \/ Poll \/ PollerEnds \/ SaveBundle \/ PollCompleted \/ SettleForStop \/ EndRun \/ SaveStop
         \/ Capture \/ Await \/ TakeMailbox \/ SkipTerminal \/ TakeOwn \/ Stop
  PROVE  Judged'
<1> USE DEF anchorVars, historyVars, roundVars, sharedVars, threadVars, At
<1>0. pc \in [Threads -> Labels] /\ mailbox \in Seq(Result) /\ "main" \in Threads /\ "poller" \in Threads
  BY DEF Base, TypeOK, RoundTypes, ThreadTypes, Threads
<1>1. UNCHANGED <<child, partial, result, res, applied, passed>>
  BY DEF Poll, PollerEnds, SaveBundle, PollCompleted, SettleForStop, EndRun, SaveStop, Capture, Await,
     TakeMailbox, SkipTerminal, TakeOwn, Stop
<1>2. pc'["main"] \in Saving => pc["main"] \in Saving /\ todo' = todo
  <2>1. CASE Poll \/ PollerEnds \/ SaveBundle
    BY <1>0, <2>1 DEF Poll, PollerEnds, SaveBundle, Goto
  <2>2. CASE \/ PollCompleted \/ SettleForStop \/ EndRun \/ SaveStop \/ Capture \/ Await
             \/ TakeMailbox \/ SkipTerminal \/ TakeOwn \/ Stop
    <3>1. \E l \in {"route", "capture", "take", "latch", "kill", "await", "stop", "join"} : Goto("main", l)
      BY <2>2 DEF PollCompleted, SettleForStop, EndRun, SaveStop, Capture, Await, TakeMailbox,
         SkipTerminal, TakeOwn, Stop
    <3> QED
      BY <1>0, <3>1 DEF Goto, Saving
  <2> QED
    BY <2>1, <2>2
<1>3. CASE PollCompleted
  <2>1. todo' = <<Head(mailbox)>> /\ mailbox' = Tail(mailbox) /\ mailbox # <<>>
    BY <1>3 DEF PollCompleted
  <2>2. \A i \in DOMAIN mailbox' : \E j \in DOMAIN mailbox : mailbox'[i] = mailbox[j]
    BY <1>0, <2>1, Tails
  <2>3. \A i \in DOMAIN todo' : todo'[i] = mailbox[1] /\ 1 \in DOMAIN mailbox
    BY <1>0, <2>1, Tails
  <2> QED
    BY <1>1, <1>2, <2>2, <2>3, JudgedQuiet DEF Judged
<1>4. CASE TakeMailbox
  <2>1. todo' = mailbox /\ mailbox' = <<>>
    BY <1>4 DEF TakeMailbox
  <2> QED
    BY <1>1, <1>2, <2>1, JudgedQuiet DEF Judged
<1>5. CASE TakeOwn
  <2>1. todo' = <<res["main"]>> /\ mailbox' = mailbox
    BY <1>5 DEF TakeOwn
  <2>2. \A i \in DOMAIN todo' : todo'[i] = res["main"]
    BY <2>1
  <2> QED
    BY <1>0, <1>1, <1>2, <2>1, <2>2, JudgedQuiet DEF Judged
<1>6. CASE \/ Poll \/ PollerEnds \/ SaveBundle \/ SettleForStop \/ EndRun \/ SaveStop
           \/ Capture \/ Await \/ SkipTerminal \/ Stop
  <2>1. UNCHANGED <<mailbox, todo>>
    BY <1>6 DEF Poll, PollerEnds, SaveBundle, SettleForStop, EndRun, SaveStop, Capture, Await,
       SkipTerminal, Stop
  <2> QED
    BY <1>1, <1>2, <2>1, JudgedQuiet DEF Judged
<1> QED
  BY <1>3, <1>4, <1>5, <1>6

LEMMA JudgedKick ==
  ASSUME Base, Judged, Kick \/ KickTerminal
  PROVE  Judged'
<1> USE DEF anchorVars, historyVars, roundVars, sharedVars, threadVars, At
<1>1. PICK r \in Rounds : Spawn(r)
  BY DEF Kick, KickTerminal
<1>2. UNCHANGED <<res, applied, passed, mailbox, todo>> /\ pc'["main"] \notin Saving
  <2>1. pc \in [Threads -> Labels] /\ "main" \in Threads
    BY DEF Base, TypeOK, ThreadTypes, Threads
  <2> QED
    BY <2>1 DEF Kick, KickTerminal, Goto, Saving
<1>3. \A q \in Rounds : \/ child'[q] = child[q] /\ partial'[q] = partial[q]
                        \/ child'[q].state \in {"none", "playing"} /\ partial'[q] = "none"
  BY <1>1, Spawned
<1> QED
  BY <1>1, <1>2, <1>3, Spawned, JudgedQuiet

LEMMA JudgedRest ==
  ASSUME Base, Judged,
         Route \/ WriteAnchor \/ Rotate \/ RenameAnchor \/ SaveFails \/ StopEnds \/ Die \/ Launch
  PROVE  Judged'
<1> USE DEF anchorVars, historyVars, roundVars, sharedVars, threadVars, At
<1>0. /\ pc \in [Threads -> Labels] /\ todo \in Seq(Result) /\ applied \in Seq(Nat)
      /\ "main" \in Threads /\ res \in [Threads -> Result]
      /\ child \in [Rounds -> [cand : Nat, state : States]] /\ partial \in [Rounds -> Verdict]
  BY DEF Base, TypeOK, RoundTypes, ThreadTypes, AnchorTypes, Threads
<1>1. CASE Route
  <2>1. UNCHANGED <<child, partial, result, res, mailbox, applied, passed>>
    BY <1>1 DEF Route
  <2>2. CASE todo = <<>>
    <3>1. todo' = todo /\ pc'["main"] \notin Saving
      BY <1>0, <1>1, <2>2 DEF Route, NextLabel, Goto, Saving
    <3> QED
      BY <2>1, <3>1, JudgedQuiet
  <2>3. CASE todo # <<>> /\ Head(todo).promoted
    <3>1. todo' = todo
      BY <1>1, <2>3 DEF Route
    <3> QED
      BY <2>1, <2>3, <3>1, JudgedQuiet
  <2>4. CASE todo # <<>> /\ ~Head(todo).promoted
    <3>1. todo' = Tail(todo) /\ pc'["main"] \notin Saving
      BY <1>0, <1>1, <2>4 DEF Route, Saving
    <3>2. \A i \in DOMAIN todo' : \E j \in DOMAIN todo : todo'[i] = todo[j]
      BY <1>0, <2>4, <3>1, Tails
    <3> QED
      BY <2>1, <3>1, <3>2, JudgedQuiet
  <2> QED
    BY <2>2, <2>3, <2>4
<1>2. CASE WriteAnchor \/ Rotate
  <2>1. UNCHANGED <<child, partial, result, res, mailbox, applied, passed, todo>> /\ pc["main"] \in Saving
    BY <1>2 DEF WriteAnchor, Rotate, Saving
  <2> QED
    BY <2>1, JudgedQuiet DEF Judged
<1>3. CASE RenameAnchor
  <2>1. /\ UNCHANGED <<child, partial, result, res, mailbox, passed>> /\ pc'["main"] \notin Saving
        /\ todo # <<>> /\ Head(todo).promoted /\ todo' = Tail(todo)
        /\ applied' = Append(applied, Head(todo).cand)
    BY <1>0, <1>3 DEF RenameAnchor, Goto, Saving, Judged, Base, Hands
  <2>2. Head(todo) = todo[1] /\ 1 \in DOMAIN todo /\ Head(todo).cand \in passed
    <3>1. Head(todo) = todo[1] /\ 1 \in DOMAIN todo
      BY <1>0, <2>1, Tails
    <3> QED
      BY <2>1, <3>1 DEF Judged, TodoSound, Sound
  <2>3. Head(todo).cand \in Nat
    <3>1. Head(todo) \in Result
      BY <1>0, <2>1, HeadTailProperties
    <3> QED
      BY <3>1 DEF Result
  <2>4. \A i \in DOMAIN applied' : applied'[i] = 0 \/ applied'[i] \in passed'
    <3>1. \A i \in DOMAIN applied' : (i \in DOMAIN applied /\ applied'[i] = applied[i])
                                     \/ applied'[i] = Head(todo).cand
      BY <1>0, <2>1, <2>3, Appends
    <3> QED
      BY <2>1, <2>2, <3>1 DEF Judged
  <2>5. TodoSound'
    <3>1. \A i \in DOMAIN todo' : i + 1 \in DOMAIN todo /\ todo'[i] = todo[i + 1]
      BY <1>0, <2>1, Tails
    <3> QED
      BY <2>1, <3>1 DEF Judged, TodoSound, Sound
  <2> QED
    BY <2>1, <2>4, <2>5 DEF Judged, FileSound, ResSound, TodoSound, Sound
<1>4. CASE SaveFails
  <2>1. UNCHANGED <<child, partial, result, res, mailbox, applied, passed>> /\ pc'["main"] \notin Saving
        /\ todo' = <<>>
    BY <1>0, <1>4 DEF SaveFails, Goto, Saving
  <2>2. \A i \in DOMAIN todo' : FALSE
    BY <2>1
  <2> QED
    BY <2>1, <2>2, JudgedQuiet
<1>5. CASE StopEnds
  <2>1. UNCHANGED <<result, res, mailbox, applied, passed, todo>> /\ pc'["main"] \notin Saving
    BY <1>0, <1>5 DEF StopEnds, Goto, Saving
  <2>2. \A r \in Rounds : /\ child'[r].cand = child[r].cand
                          /\ child'[r].state \in {child[r].state, "signal"}
                          /\ child'[r].state # "none" => child[r].state # "none"
                          /\ partial'[r] \in {partial[r], "none"}
    <3>1. CASE inflight = NoRound
      BY <1>5, <3>1 DEF StopEnds
    <3>2. CASE inflight # NoRound
      <4>1. inflight \in Rounds /\ child[inflight].state # "none"
        BY <3>2 DEF Base, Hands, TypeOK, RoundTypes
      <4> QED
        BY <1>0, <1>5, <3>2, <4>1 DEF StopEnds
    <3> QED
      BY <3>1, <3>2
  <2> QED
    BY <2>1, <2>2, JudgedQuiet
<1>6. CASE Die
  <2>1. /\ child' = [r \in Rounds |-> NoChild] /\ mailbox' = <<>> /\ todo' = <<>>
        /\ res' = [t \in Threads |-> NoResult] /\ pc'["main"] \notin Saving
        /\ UNCHANGED <<partial, result, applied, passed>>
    BY <1>6 DEF Die, Saving, Threads
  <2>2. \A i \in DOMAIN mailbox' : FALSE
    BY <2>1
  <2>3. \A i \in DOMAIN todo' : FALSE
    BY <2>1
  <2>4. \A r \in Rounds : child'[r].state = "none"
    BY <2>1 DEF NoChild
  <2>5. \A t \in Threads : ~res'[t].promoted
    BY <2>1 DEF NoResult
  <2> QED
    BY <2>1, <2>2, <2>3, <2>4, <2>5 DEF Judged, FileSound, ResSound, TodoSound, Sound
<1>7. CASE Launch
  <2>1. /\ UNCHANGED <<child, result, res, mailbox, todo, passed>> /\ pc'["main"] \notin Saving
        /\ \A r \in Rounds : child[r].state = "none"
    BY <1>7 DEF Launch, Saving, Base, Hands
  <2>2. \A i \in DOMAIN applied' : applied'[i] = 0 \/ applied'[i] \in passed'
    <3>1. applied' = Append(applied, 0) \/ applied' = applied
      BY <1>7 DEF Launch
    <3>2. \A i \in DOMAIN applied' : (i \in DOMAIN applied /\ applied'[i] = applied[i]) \/ applied'[i] = 0
      <4>1. 0 \in Nat
        OBVIOUS
      <4>2. CASE applied' = Append(applied, 0)
        BY <1>0, <4>1, <4>2, Appends
      <4>3. CASE applied' = applied
        BY <4>3
      <4> QED
        BY <3>1, <4>2, <4>3
    <3> QED
      BY <2>1, <3>2 DEF Judged
  <2> QED
    BY <2>1, <2>2 DEF Judged, FileSound, ResSound, TodoSound, Sound
<1> QED
  BY <1>1, <1>2, <1>3, <1>4, <1>5, <1>6, <1>7

LEMMA JudgedStep == Base /\ Judged /\ [Next]_vars => Judged'
<1>1. Base /\ Judged /\ UNCHANGED vars => Judged'
  BY DEF vars, roundVars, sharedVars, threadVars, anchorVars, historyVars, Judged, FileSound, ResSound, TodoSound, Sound
<1> QED
  BY <1>1, JudgedChild, JudgedEnding, JudgedMain, JudgedKick, JudgedRest DEF Next

\* best_model.pt only ever receives weights whose own child persisted a passing
\* gate verdict: no broken or abandoned round, and no file an earlier process
\* left under a round's id, promotes a candidate that did not pass.
THEOREM NeverUnjudged == Spec => []NoUnjudgedPromotion
<1>1. Init => Base /\ Judged
  <2>1. Init => Judged
    BY DEF Init, Judged, FileSound, ResSound, TodoSound, Sound, NoChild, NoResult, Saving
  <2> QED
    BY <2>1, InitBase
<1>2. Base /\ Judged /\ [Next]_vars => (Base /\ Judged)'
  BY BaseStep, JudgedStep
<1>3. Base /\ Judged => NoUnjudgedPromotion
  BY DEF Judged, NoUnjudgedPromotion
<1> QED
  BY <1>1, <1>2, <1>3, PTL DEF Spec

-----------------------------------------------------------------------------
\* One result per candidate: the round's latch admits one finaliser, a result
\* moves from the mailbox to the trainer thread's hand and from there to the
\* route, and the terminal round's own copy is the only one that is routed.
CandIn(q, c) == \E i \in DOMAIN q : q[i].cand = c
RoutedBy(c) == \E i \in DOMAIN routed : routed[i] = c
AllDifferent(q) == \A i, j \in DOMAIN q : q[i].cand = q[j].cand => i = j

Alone == {"read", "publish"}
InTerminal == {"await", "kill", "latch", "read", "publish"}

\* Candidates are numbered by their spawn, one child each.
Numbered ==
    /\ \A r \in Rounds : child[r].state # "none" => child[r].cand \in 1 .. spawns
    /\ \A r, q \in Rounds : child[r].state # "none" /\ child[q].state # "none"
                             /\ child[r].cand = child[q].cand => r = q
    /\ \A i \in DOMAIN mailbox : mailbox[i].cand <= spawns
    /\ \A i \in DOMAIN todo : todo[i].cand <= spawns
    /\ \A i \in DOMAIN routed : routed[i] <= spawns

\* One finaliser between the latch and the publication of a round.
OneFinaliser ==
    /\ done \subseteq latched
    /\ \A t \in Threads : pc[t] \in Alone => tr[t] \in latched \ done
    /\ pc["main"] \in Alone /\ pc["poller"] \in Alone => tr["main"] # tr["poller"]
    /\ \A t \in Threads : pc[t] = "publish" => res[t].cand = child[tr[t]].cand

\* A round not yet published has no result anywhere.
Unpublished ==
    \A r \in Rounds \ done : child[r].state # "none" =>
        /\ ~CandIn(mailbox, child[r].cand) /\ ~CandIn(todo, child[r].cand)
        /\ ~RoutedBy(child[r].cand)

\* The trainer thread saves the head of its hand after it was routed.
HandApart ==
    \A i \in DOMAIN todo : RoutedBy(todo[i].cand) => i = 1 /\ pc["main"] \in Saving

MailApart ==
    leg # "terminal" => \A i \in DOMAIN mailbox :
        ~CandIn(todo, mailbox[i].cand) /\ ~RoutedBy(mailbox[i].cand)

\* A result is in one place.
OnePlace ==
    /\ RoutedOnce /\ AllDifferent(mailbox) /\ AllDifferent(todo)
    /\ HandApart /\ MailApart

\* The terminal round is the trainer thread's own.
Terminal ==
    /\ leg = "terminal" => pc["main"] \in InTerminal \cup Saving \cup
                               {"own", "route", "stop", "join", "exited"}
    /\ leg = "terminal" /\ pc["main"] \in InTerminal =>
           /\ inflight # tr["main"]
           /\ pc["poller"] \in Ending => tr["poller"] # tr["main"]
           /\ pc["main"] \notin Alone => tr["main"] \notin latched

\* Its result is published, and nobody else routed it.
Own ==
    pc["main"] = "own" =>
        /\ leg = "terminal" /\ ~RoutedBy(res["main"].cand) /\ res["main"].cand <= spawns
        /\ \A r \in Rounds \ done : child[r].state # "none" => child[r].cand # res["main"].cand

Once == Numbered /\ OneFinaliser /\ Unpublished /\ OnePlace /\ Terminal /\ Own

\* What a step keeps that only moves threads and changes what children do.
SameData ==
    /\ UNCHANGED <<spawns, mailbox, todo, routed, latched, done, res>>
    /\ \A r \in Rounds : /\ child'[r].cand = child[r].cand
                         /\ child'[r].state = "none" <=> child[r].state = "none"

LEMMA OnceControl ==
  ASSUME Base, Once, SameData,
         \A t \in Threads : pc'[t] \in Alone => pc[t] = pc'[t] /\ tr'[t] = tr[t],
         pc["main"] \in Saving => pc'["main"] \in Saving,
         leg' # "terminal" => leg # "terminal",
         pc'["main"] = "own" => pc["main"] = "own" /\ leg' = leg,
         Terminal'
  PROVE  Once'
<1>1. Numbered'
  BY DEF Once, Numbered, SameData
<1>2. OneFinaliser'
  <2>1. \A t \in Threads : pc'[t] = "publish" => tr[t] \in Rounds
    BY DEF Alone, Base, Hands, Ending
  <2> QED
    BY <2>1 DEF Once, OneFinaliser, SameData, Alone, Threads
<1>3. Unpublished'
  BY DEF Once, Unpublished, SameData, CandIn, RoutedBy
<1>4. OnePlace'
  BY DEF Once, OnePlace, HandApart, MailApart, SameData, CandIn, RoutedBy, AllDifferent, RoutedOnce
<1>5. Own'
  BY DEF Once, Own, SameData, RoutedBy
<1> QED
  BY <1>1, <1>2, <1>3, <1>4, <1>5 DEF Once

LEMMA OnceChild ==
  ASSUME Base, Once, NEW r \in Rounds, Judge(r) \/ WriteResult(r) \/ ChildExit(r)
  PROVE  Once'
<1> USE DEF sharedVars, threadVars, anchorVars, historyVars
<1>1. UNCHANGED <<spawns, mailbox, todo, routed, latched, done, res, pc, tr, leg, inflight>>
  BY DEF Judge, WriteResult, ChildExit
<1>2. \A q \in Rounds : /\ child'[q].cand = child[q].cand
                        /\ child'[q].state = "none" <=> child[q].state = "none"
  BY DEF Judge, WriteResult, ChildExit, Alive, Base, TypeOK, RoundTypes
<1>3. Terminal'
  BY <1>1 DEF Once, Terminal, RoutedBy
<1> QED
  BY <1>1, <1>2, <1>3, OnceControl DEF SameData

LEMMA OncePoller ==
  ASSUME Base, Once, Poll \/ PollerEnds
  PROVE  Once'
<1> USE DEF sharedVars, anchorVars, historyVars, roundVars, At
<1>0. pc \in [Threads -> Labels] /\ tr \in [Threads -> Rounds \cup {NoRound}]
  BY DEF Base, TypeOK, ThreadTypes
<1>1. UNCHANGED <<spawns, mailbox, todo, routed, latched, done, res, child, leg, inflight>>
  BY DEF Poll, PollerEnds
<1>2. /\ pc'["main"] = pc["main"] /\ tr'["main"] = tr["main"]
      /\ pc'["poller"] \in {"kill", "latch", "ended"}
      /\ pc'["poller"] \in Ending => tr'["poller"] = inflight
  BY <1>0 DEF Poll, PollerEnds, Goto, Threads, Ending
<1>3. Terminal'
  BY <1>1, <1>2 DEF Once, Terminal, RoutedBy
<1> QED
  BY <1>1, <1>2, <1>3, OnceControl DEF SameData, Alone, Threads

LEMMA OnceTurning ==
  ASSUME Base, Once,
         \/ SaveBundle \/ SettleForStop \/ EndRun \/ SaveStop \/ Capture \/ Await
         \/ SkipTerminal \/ Stop \/ StopEnds \/ WriteAnchor \/ Rotate
  PROVE  Once'
<1> USE DEF sharedVars, threadVars, anchorVars, historyVars, roundVars, At
<1>0. /\ pc \in [Threads -> Labels] /\ tr \in [Threads -> Rounds \cup {NoRound}]
      /\ "main" \in Threads /\ "poller" \in Threads
  BY DEF Base, TypeOK, ThreadTypes, Threads
<1>1. /\ UNCHANGED <<spawns, mailbox, todo, routed, latched, done, res, inflight>>
      /\ tr'["poller"] = tr["poller"]
  BY <1>0 DEF SaveBundle, SettleForStop, EndRun, SaveStop, Capture, Await, SkipTerminal, Stop, StopEnds,
     WriteAnchor, Rotate
<1>2. \A q \in Rounds : /\ child'[q].cand = child[q].cand
                        /\ child'[q].state = "none" <=> child[q].state = "none"
  <2>1. CASE StopEnds /\ inflight # NoRound
    <3>1. inflight \in Rounds /\ child[inflight].state # "none"
      BY <2>1 DEF Base, Hands, TypeOK, RoundTypes
    <3> QED
      BY <2>1, <3>1 DEF StopEnds, Base, TypeOK, RoundTypes
  <2>2. CASE ~(StopEnds /\ inflight # NoRound)
    <3>1. child' = child
      BY <2>2 DEF SaveBundle, SettleForStop, EndRun, SaveStop, Capture, Await, SkipTerminal, Stop,
         StopEnds, WriteAnchor, Rotate
    <3> QED
      BY <3>1
  <2> QED
    BY <2>1, <2>2
<1>3. pc'["poller"] = pc["poller"]
  BY <1>0 DEF SaveBundle, SettleForStop, EndRun, SaveStop, Capture, Await, SkipTerminal, Stop, StopEnds,
     WriteAnchor, Rotate, Goto
<1>4. CASE SaveBundle \/ SettleForStop \/ EndRun \/ SaveStop \/ Capture \/ SkipTerminal
  <2>1. /\ pc["main"] \in {"train", "save", "capture", "terminal"} /\ leg # "terminal"
        /\ leg' # "terminal" /\ pc'["main"] \in {"train", "capture", "take", "latch", "kill", "await", "stop"}
    <3>1. pc["main"] \in {"train", "save", "capture", "terminal"}
      BY <1>4 DEF SaveBundle, SettleForStop, EndRun, SaveStop, Capture, SkipTerminal
    <3>2. leg # "terminal"
      BY <3>1 DEF Once, Terminal, InTerminal, Saving
    <3> QED
      BY <1>0, <1>4, <3>1, <3>2
      DEF SaveBundle, SettleForStop, EndRun, SaveStop, Capture, SkipTerminal, Goto
  <2>2. Terminal'
    BY <2>1 DEF Terminal
  <2> QED
    BY <1>1, <1>2, <1>3, <2>1, <2>2, OnceControl DEF SameData, Alone, Threads, Saving
<1>5. CASE Await \/ Stop \/ StopEnds \/ WriteAnchor \/ Rotate
  <2>1. /\ leg' = leg /\ tr'["main"] = tr["main"]
        /\ \/ pc["main"] = "await" /\ pc'["main"] \in {"kill", "latch"}
           \/ pc["main"] \in {"stop", "join"} /\ pc'["main"] \in {"join", "exited"}
           \/ pc["main"] \in {"write", "rotate"} /\ pc'["main"] \in {"rotate", "rename"}
    BY <1>0, <1>5 DEF Await, Stop, StopEnds, WriteAnchor, Rotate, Goto
  <2>2. Terminal'
    BY <1>1, <1>3, <2>1 DEF Once, Terminal, InTerminal, Saving, Alone, RoutedBy
  <2> QED
    BY <1>1, <1>2, <1>3, <2>1, <2>2, OnceControl DEF SameData, Alone, Threads, Saving
<1> QED
  BY <1>4, <1>5

LEMMA OnceLatch ==
  ASSUME Base, Once, NEW t \in Threads, Latch(t)
  PROVE  Once'
<1> USE DEF sharedVars, anchorVars, historyVars, roundVars, At
<1>1. /\ pc[t] = "latch" /\ pc'[t] \in {"wait", "read"}
      /\ \A u \in Threads \ {t} : pc'[u] = pc[u]
      /\ pc'[t] = "wait" => tr[t] \in latched /\ latched' = latched
      /\ pc'[t] = "read" => tr[t] \notin latched /\ latched' = latched \cup {tr[t]}
      /\ UNCHANGED <<child, spawns, inflight, done, mailbox, tr, res, leg, todo, routed>>
  BY DEF Latch, Goto, Base, TypeOK, ThreadTypes
<1>2. Numbered' /\ Unpublished'
  BY <1>1 DEF Once, Numbered, Unpublished, CandIn, RoutedBy
<1>3. OneFinaliser'
  <2>1. done' \subseteq latched'
    BY <1>1 DEF Once, OneFinaliser
  <2>2. \A u \in Threads : pc'[u] \in Alone => tr'[u] \in latched' \ done'
    BY <1>1 DEF Once, OneFinaliser, Alone
  <2>3. pc'["main"] \in Alone /\ pc'["poller"] \in Alone => tr'["main"] # tr'["poller"]
    BY <1>1 DEF Once, OneFinaliser, Alone, Threads
  <2>4. \A u \in Threads : pc'[u] = "publish" => res'[u].cand = child'[tr'[u]].cand
    BY <1>1 DEF Once, OneFinaliser, Alone
  <2> QED
    BY <2>1, <2>2, <2>3, <2>4 DEF OneFinaliser
<1>4. OnePlace'
  <2>1. pc["main"] \in Saving => pc'["main"] \in Saving
    BY <1>1 DEF Saving, Threads
  <2> QED
    BY <1>1, <2>1 DEF Once, OnePlace, HandApart, MailApart, CandIn, RoutedBy, AllDifferent, RoutedOnce
<1>5. Terminal'
  <2>1. CASE t = "main"
    <3>1. leg = "terminal" => pc'["main"] = "read" /\ inflight # tr["main"]
              /\ (pc["poller"] \in Ending => tr["poller"] # tr["main"])
      BY <1>1, <2>1 DEF Once, Terminal, InTerminal, Alone
    <3>2. pc'["main"] # "own" /\ pc'["poller"] = pc["poller"]
      BY <1>1, <2>1 DEF Threads
    <3> QED
      BY <1>1, <3>1, <3>2 DEF Terminal, InTerminal, Alone
  <2>2. CASE t = "poller"
    <3>1. pc'["main"] = pc["main"] /\ pc["poller"] \in Ending
      BY <1>1, <2>2 DEF Threads, Ending
    <3> QED
      BY <1>1, <2>2, <3>1 DEF Once, Terminal, InTerminal, Alone, RoutedBy
  <2> QED
    BY <2>1, <2>2 DEF Threads
<1>6. Own'
  <2>1. pc'["main"] = "own" => pc["main"] = "own"
    BY <1>1 DEF Threads
  <2> QED
    BY <1>1, <2>1 DEF Once, Own, RoutedBy
<1> QED
  BY <1>2, <1>3, <1>4, <1>5, <1>6 DEF Once

LEMMA OncePublish ==
  ASSUME Base, Once, NEW t \in Threads, Publish(t)
  PROVE  Once'
<1> USE DEF anchorVars, historyVars, At
<1> DEFINE c == child[tr[t]].cand
<1>1. /\ pc[t] = "publish" /\ pc'[t] = (IF t = "poller" THEN "idle" ELSE IF leg = "terminal" THEN "own" ELSE "take")
      /\ \A u \in Threads \ {t} : pc'[u] = pc[u]
      /\ inflight' = NoRound /\ mailbox' = Append(mailbox, res[t]) /\ done' = done \cup {tr[t]}
      /\ UNCHANGED <<child, spawns, latched, tr, res, leg, todo, routed>>
  BY DEF Publish, AfterRound, Goto, Base, TypeOK, ThreadTypes
<1>2. /\ tr[t] \in Rounds /\ child[tr[t]].state # "none" /\ tr[t] \in latched /\ tr[t] \notin done
      /\ res[t].cand = c /\ c <= spawns /\ ~CandIn(mailbox, c) /\ ~CandIn(todo, c) /\ ~RoutedBy(c)
  <2>1. tr[t] \in Rounds /\ child[tr[t]].state # "none" /\ tr[t] \in latched \ done /\ res[t].cand = c
    BY <1>1 DEF Base, Hands, Ending, Once, OneFinaliser, Alone
  <2>2. c \in 1 .. spawns /\ spawns \in Nat
    BY <2>1 DEF Once, Numbered, Base, TypeOK, RoundTypes
  <2> QED
    BY <2>1, <2>2 DEF Once, Unpublished
<1>3. /\ \A i \in DOMAIN mailbox' : (i \in DOMAIN mailbox /\ mailbox'[i] = mailbox[i]) \/ mailbox'[i] = res[t]
      /\ \A i, j \in DOMAIN mailbox' : i \notin DOMAIN mailbox /\ j \notin DOMAIN mailbox => i = j
      /\ \A i \in DOMAIN mailbox : mailbox'[i] = mailbox[i]
  <2>1. mailbox \in Seq(Result) /\ res[t] \in Result
    BY DEF Base, TypeOK, RoundTypes, ThreadTypes
  <2>2. Len(mailbox') = Len(mailbox) + 1 /\ DOMAIN mailbox' = 1 .. Len(mailbox) + 1
        /\ DOMAIN mailbox = 1 .. Len(mailbox) /\ Len(mailbox) \in Nat
    BY <1>1, <2>1, AppendProperties, LenProperties
  <2> QED
    BY <1>1, <2>1, <2>2, Appends
<1>4. Numbered'
  BY <1>1, <1>2, <1>3 DEF Once, Numbered
<1>5. OneFinaliser'
  BY <1>1, <1>2 DEF Once, OneFinaliser, Alone, Threads
<1>6. Unpublished'
  <2> SUFFICES ASSUME NEW r \in Rounds \ done', child[r].state # "none"
               PROVE  /\ \A i \in DOMAIN mailbox' : mailbox'[i].cand # child[r].cand
                      /\ ~CandIn(todo, child[r].cand) /\ ~RoutedBy(child[r].cand)
    BY <1>1 DEF Unpublished, CandIn, RoutedBy
  <2>1. r \notin done /\ r # tr[t]
    BY <1>1
  <2>2. child[r].cand # c
    BY <1>2, <2>1 DEF Once, Numbered
  <2>3. ~CandIn(mailbox, child[r].cand) /\ ~CandIn(todo, child[r].cand) /\ ~RoutedBy(child[r].cand)
    BY <2>1 DEF Once, Unpublished
  <2> QED
    BY <1>2, <1>3, <2>2, <2>3 DEF CandIn
<1>7. OnePlace'
  <2>1. AllDifferent(mailbox')
    <3> SUFFICES ASSUME NEW i \in DOMAIN mailbox', NEW j \in DOMAIN mailbox',
                        mailbox'[i].cand = mailbox'[j].cand
                 PROVE  i = j
      BY DEF AllDifferent
    <3>1. \A k \in DOMAIN mailbox' : k \in DOMAIN mailbox =>
              mailbox'[k] = mailbox[k] /\ mailbox'[k].cand # c
      BY <1>2, <1>3 DEF CandIn
    <3>2. \A k \in DOMAIN mailbox' : k \notin DOMAIN mailbox => mailbox'[k].cand = c
      BY <1>2, <1>3
    <3> QED
      BY <1>3, <3>1, <3>2 DEF Once, OnePlace, AllDifferent
  <2>2. leg # "terminal" => \A i \in DOMAIN mailbox' :
            ~CandIn(todo, mailbox'[i].cand) /\ ~RoutedBy(mailbox'[i].cand)
    <3> SUFFICES ASSUME leg # "terminal", NEW i \in DOMAIN mailbox'
                 PROVE  ~CandIn(todo, mailbox'[i].cand) /\ ~RoutedBy(mailbox'[i].cand)
      OBVIOUS
    <3>1. CASE i \in DOMAIN mailbox /\ mailbox'[i] = mailbox[i]
      BY <3>1 DEF Once, OnePlace, MailApart
    <3>2. CASE mailbox'[i] = res[t]
      BY <1>2, <3>2
    <3> QED
      BY <1>3, <3>1, <3>2
  <2>3. pc["main"] \in Saving => pc'["main"] \in Saving
    BY <1>1 DEF Saving, Threads
  <2>4. RoutedOnce' /\ AllDifferent(todo') /\ HandApart'
    BY <1>1, <2>3 DEF Once, OnePlace, HandApart, AllDifferent, RoutedBy, RoutedOnce
  <2>5. MailApart'
    BY <1>1, <2>2 DEF MailApart, CandIn, RoutedBy
  <2> QED
    BY <2>1, <2>4, <2>5 DEF OnePlace, AllDifferent
<1>8. Terminal'
  <2>1. CASE t = "main"
    BY <1>1, <1>2, <2>1 DEF Once, Terminal, InTerminal, Saving, Alone, RoutedBy, Threads
  <2>2. CASE t = "poller"
    <3>1. pc["main"] \in InTerminal /\ leg = "terminal" => tr["main"] # NoRound
      BY DEF InTerminal, Base, Hands, Ending, Threads, Rounds, NoRound
    <3> QED
      BY <1>1, <1>2, <2>2, <3>1 DEF Once, Terminal, InTerminal, Saving, Alone, RoutedBy, Threads, Ending
  <2> QED
    BY <2>1, <2>2 DEF Threads
<1>9. Own'
  <2>1. CASE t = "main"
    <3>1. \A r \in Rounds \ done' : child[r].state # "none" => child[r].cand # c
      BY <1>1, <1>2 DEF Once, Numbered
    <3> QED
      BY <1>1, <1>2, <2>1, <3>1 DEF Own, RoutedBy
  <2>2. CASE t = "poller"
    <3>1. pc'["main"] = pc["main"]
      BY <1>1, <2>2 DEF Threads
    <3> QED
      BY <1>1, <3>1 DEF Once, Own, RoutedBy
  <2> QED
    BY <2>1, <2>2 DEF Threads
<1> QED
  BY <1>4, <1>5, <1>6, <1>7, <1>8, <1>9 DEF Once

LEMMA OnceEnding ==
  ASSUME Base, Once, NEW t \in Threads, Finalise(t)
  PROVE  Once'
<1> USE DEF sharedVars, anchorVars, historyVars, roundVars, At
<1>0. pc \in [Threads -> Labels] /\ child \in [Rounds -> [cand : Nat, state : States]]
      /\ res \in [Threads -> Result]
  BY DEF Base, TypeOK, RoundTypes, ThreadTypes
<1>1. CASE Kill(t)
  <2>1. /\ pc[t] = "kill" /\ pc'[t] = "latch" /\ \A u \in Threads \ {t} : pc'[u] = pc[u]
        /\ UNCHANGED <<spawns, mailbox, todo, routed, latched, done, res, tr, leg, inflight>>
    BY <1>0, <1>1 DEF Kill, Goto
  <2>2. \A q \in Rounds : /\ child'[q].cand = child[q].cand
                          /\ child'[q].state = "none" <=> child[q].state = "none"
    BY <1>0, <1>1 DEF Kill, Base, Hands, Ending
  <2>3. Terminal'
    BY <2>1 DEF Once, Terminal, InTerminal, Saving, Alone, RoutedBy, Threads, Ending
  <2> QED
    BY <2>1, <2>2, <2>3, OnceControl DEF SameData, Alone, Threads, Saving
<1>2. CASE Wait(t)
  <2>1. /\ pc[t] = "wait" /\ \A u \in Threads \ {t} : pc'[u] = pc[u]
        /\ pc'[t] = (IF t = "poller" THEN "idle" ELSE IF leg = "terminal" THEN "own" ELSE "take")
        /\ UNCHANGED <<spawns, child, mailbox, todo, routed, latched, done, res, tr, leg, inflight>>
    BY <1>0, <1>2 DEF Wait, AfterRound, Goto
  <2>2. t = "main" => leg # "terminal"
    BY <2>1 DEF Once, Terminal, InTerminal, Saving
  <2>3. Terminal'
    BY <2>1, <2>2 DEF Once, Terminal, InTerminal, Saving, Alone, RoutedBy, Threads, Ending
  <2> QED
    BY <2>1, <2>2, <2>3, OnceControl DEF SameData, Alone, Threads, Saving
<1>3. CASE Read(t)
  <2>1. /\ pc[t] = "read" /\ pc'[t] = "publish" /\ \A u \in Threads \ {t} : pc'[u] = pc[u] /\ res'[u] = res[u]
        /\ res'[t].cand = child[tr[t]].cand
        /\ UNCHANGED <<child, spawns, inflight, latched, done, mailbox, tr, leg, todo, routed>>
    BY <1>0, <1>3 DEF Read, Goto
  <2>2. Numbered' /\ Unpublished'
    BY <2>1 DEF Once, Numbered, Unpublished, CandIn, RoutedBy
  <2>3. OneFinaliser'
    BY <2>1 DEF Once, OneFinaliser, Alone, Threads
  <2>4. OnePlace'
    <3>1. pc["main"] \in Saving => pc'["main"] \in Saving
      BY <2>1 DEF Saving, Threads
    <3> QED
      BY <2>1, <3>1 DEF Once, OnePlace, HandApart, MailApart, CandIn, RoutedBy, AllDifferent, RoutedOnce
  <2>5. Terminal'
    BY <2>1 DEF Once, Terminal, InTerminal, Saving, Alone, RoutedBy, Threads, Ending
  <2>6. Own'
    <3>1. pc'["main"] = "own" => pc["main"] = "own" /\ res'["main"] = res["main"]
      BY <2>1 DEF Threads
    <3> QED
      BY <2>1, <3>1 DEF Once, Own, RoutedBy
  <2> QED
    BY <2>2, <2>3, <2>4, <2>5, <2>6 DEF Once
<1> QED
  BY <1>1, <1>2, <1>3, OnceLatch, OncePublish DEF Finalise

LEMMA OnceSpawn ==
  ASSUME Base, Once, Kick \/ KickTerminal
  PROVE  Once'
<1> USE DEF sharedVars, threadVars, anchorVars, historyVars, At
<1>0. /\ pc \in [Threads -> Labels] /\ tr \in [Threads -> Rounds \cup {NoRound}]
      /\ "main" \in Threads /\ "poller" \in Threads /\ spawns \in Nat
      /\ mailbox \in Seq(Result) /\ todo \in Seq(Result) /\ routed \in Seq(Nat)
  BY DEF Base, TypeOK, RoundTypes, ThreadTypes, AnchorTypes, Threads
<1>1. PICK r \in Rounds : Spawn(r) /\ (Kick => inflight' = r) /\ (KickTerminal => tr' = [tr EXCEPT !["main"] = r])
  BY DEF Kick, KickTerminal
<1>2. /\ child[r].state = "none" /\ child'[r].state # "none" /\ child'[r].cand = spawns + 1
      /\ \A q \in Rounds \ {r} : child'[q] = child[q]
      /\ spawns' = spawns + 1
  BY <1>1, Spawned
<1>3. UNCHANGED <<latched, done, mailbox, res, todo, routed>>
  BY DEF Kick, KickTerminal
<1>4. /\ pc'["poller"] = pc["poller"] /\ tr'["poller"] = tr["poller"] /\ leg # "terminal"
      /\ \/ pc["main"] = "train" /\ pc'["main"] = "train" /\ leg' = leg /\ tr' = tr
         \/ /\ pc["main"] = "terminal" /\ pc'["main"] = "await" /\ leg' = "terminal"
            /\ tr'["main"] = r /\ inflight' = inflight
  <2>1. pc["main"] \in {"train", "terminal"}
    BY DEF Kick, KickTerminal
  <2>2. leg # "terminal"
    BY <2>1 DEF Once, Terminal, InTerminal, Saving
  <2> QED
    BY <1>0, <1>1, <2>1, <2>2 DEF Kick, KickTerminal, Goto
<1>5. /\ \A i \in DOMAIN mailbox : mailbox[i].cand <= spawns /\ mailbox[i].cand \in Nat
      /\ \A i \in DOMAIN todo : todo[i].cand <= spawns /\ todo[i].cand \in Nat
      /\ \A i \in DOMAIN routed : routed[i] <= spawns /\ routed[i] \in Nat
  <2>1. /\ \A i \in DOMAIN mailbox : mailbox[i] \in Result
        /\ \A i \in DOMAIN todo : todo[i] \in Result
        /\ \A i \in DOMAIN routed : routed[i] \in Nat
    BY <1>0, ElementOfSeq, LenProperties
  <2> QED
    BY <2>1 DEF Result, Once, Numbered
<1>6. Numbered'
  <2>1. \A q \in Rounds : child'[q].state # "none" => child'[q].cand \in 1 .. spawns + 1
    BY <1>0, <1>2 DEF Once, Numbered
  <2>2. \A q \in Rounds \ {r} : child'[q].state # "none" => child'[q].cand # spawns + 1
    BY <1>0, <1>2 DEF Once, Numbered
  <2>3. \A p, q \in Rounds : child'[p].state # "none" /\ child'[q].state # "none"
                             /\ child'[p].cand = child'[q].cand => p = q
    BY <1>2, <2>2 DEF Once, Numbered
  <2> QED
    BY <1>0, <1>2, <1>3, <1>5, <2>1, <2>3 DEF Numbered
<1>7. OneFinaliser'
  <2>1. \A t \in Threads : pc'[t] \in Alone => pc[t] = pc'[t] /\ tr'[t] = tr[t] /\ tr[t] # r
    BY <1>2, <1>4 DEF Alone, Base, Hands, Ending, Threads
  <2>2. \A t \in Threads : pc'[t] \in Alone => tr'[t] \in Rounds /\ child'[tr'[t]] = child[tr[t]]
    BY <1>2, <2>1 DEF Alone, Base, Hands, Ending
  <2>3. \A t \in Threads : pc'[t] = "publish" => res'[t].cand = child'[tr'[t]].cand
    BY <1>3, <2>1, <2>2 DEF Once, OneFinaliser, Alone
  <2> QED
    BY <1>3, <2>1, <2>3 DEF Once, OneFinaliser, Alone, Threads
<1>8. Unpublished'
  <2>1. ~CandIn(mailbox, spawns + 1) /\ ~CandIn(todo, spawns + 1) /\ ~RoutedBy(spawns + 1)
    <3>1. \A n \in Nat : n <= spawns => n # spawns + 1
      BY <1>0
    <3> QED
      BY <1>5, <3>1 DEF CandIn, RoutedBy
  <2> QED
    BY <1>2, <1>3, <2>1 DEF Once, Unpublished, CandIn, RoutedBy
<1>9. OnePlace'
  <2>1. pc["main"] \notin Saving
    BY <1>4 DEF Saving
  <2> QED
    BY <1>3, <1>4, <2>1 DEF Once, OnePlace, HandApart, MailApart, CandIn, RoutedBy, AllDifferent, RoutedOnce
<1>10. Terminal'
  <2>1. inflight # r /\ r \notin latched /\ (pc["poller"] \in Ending => tr["poller"] # r)
    <3>1. r # NoRound
      BY PipelineAssumption DEF Rounds, NoRound
    <3>2. inflight # r /\ r \notin latched
      BY <1>2, <3>1 DEF Base, Hands
    <3>3. pc["poller"] \in Ending => tr["poller"] # r
      BY <1>0, <1>2 DEF Base, Hands
    <3> QED
      BY <3>2, <3>3
  <2> QED
    BY <1>3, <1>4, <2>1 DEF Terminal, InTerminal, Alone
<1>11. Own'
  BY <1>4 DEF Own
<1> QED
  BY <1>6, <1>7, <1>8, <1>9, <1>10, <1>11 DEF Once

\* The trainer thread's hand and the mailbox change; threads and rounds do not.
LEMMA OnceHand ==
  ASSUME Base, Once, UNCHANGED <<spawns, child, latched, done, res, tr, inflight>>,
         pc'["poller"] = pc["poller"], pc'["main"] \notin Ending \cup {"own"},
         \A i \in DOMAIN mailbox' : mailbox'[i].cand <= spawns,
         \A i \in DOMAIN todo' : todo'[i].cand <= spawns,
         \A i \in DOMAIN routed' : routed'[i] <= spawns,
         \A r \in Rounds \ done : child[r].state # "none" =>
             /\ ~CandIn(mailbox', child[r].cand) /\ ~CandIn(todo', child[r].cand)
             /\ \A i \in DOMAIN routed' : routed'[i] # child[r].cand,
         OnePlace', Terminal'
  PROVE  Once'
<1>1. Numbered'
  BY DEF Once, Numbered
<1>2. OneFinaliser'
  BY DEF Once, OneFinaliser, Alone, Ending, Threads
<1>3. Unpublished'
  BY DEF Unpublished, CandIn, RoutedBy
<1> QED
  BY <1>1, <1>2, <1>3 DEF Once, Own

LEMMA OnceTaking ==
  ASSUME Base, Once, PollCompleted \/ TakeMailbox \/ TakeOwn
  PROVE  Once'
<1> USE DEF sharedVars, anchorVars, historyVars, roundVars, At
<1>0. /\ pc \in [Threads -> Labels] /\ mailbox \in Seq(Result)
      /\ "main" \in Threads /\ "poller" \in Threads
  BY DEF Base, TypeOK, RoundTypes, ThreadTypes, Threads
<1>1. /\ UNCHANGED <<spawns, child, latched, done, res, tr, inflight, routed>>
      /\ pc["main"] \in {"train", "take", "own"}
      /\ pc'["main"] = "route" /\ pc'["poller"] = pc["poller"]
  BY <1>0 DEF PollCompleted, TakeMailbox, TakeOwn, Goto
<1>2. Terminal' /\ pc'["main"] \notin Ending \cup {"own"}
  BY <1>1 DEF Terminal, InTerminal, Ending
<1>3. CASE PollCompleted
  <2>1. /\ todo' = <<Head(mailbox)>> /\ mailbox' = Tail(mailbox) /\ mailbox # <<>> /\ leg # "terminal"
    BY <1>3 DEF PollCompleted, Once, Terminal, InTerminal, Saving
  <2>2. /\ DOMAIN todo' = {1} /\ todo'[1] = mailbox[1] /\ 1 \in DOMAIN mailbox
        /\ \A i \in DOMAIN mailbox' : i + 1 \in DOMAIN mailbox /\ mailbox'[i] = mailbox[i + 1] /\ i \in Nat
                                      /\ i # 0
    <3>1. DOMAIN <<Head(mailbox)>> = {1}
      OBVIOUS
    <3>2. Tail(mailbox) \in Seq(Result)
      BY <1>0, <2>1, HeadTailProperties
    <3>3. \A i \in DOMAIN Tail(mailbox) : i \in Nat /\ i # 0
      BY <3>2, LenProperties
    <3> QED
      BY <1>0, <2>1, <3>1, <3>3, Tails
  <2>3. /\ \A i \in DOMAIN mailbox' : mailbox'[i].cand <= spawns
        /\ \A i \in DOMAIN todo' : todo'[i].cand <= spawns
    BY <2>2 DEF Once, Numbered
  <2>4. \A r \in Rounds \ done : child[r].state # "none" =>
             /\ ~CandIn(mailbox', child[r].cand) /\ ~CandIn(todo', child[r].cand)
    BY <2>2 DEF Once, Unpublished, CandIn
  <2>5. OnePlace'
    <3>1. AllDifferent(todo')
      BY <2>2 DEF AllDifferent
    <3>2. AllDifferent(mailbox')
      <4> SUFFICES ASSUME NEW i \in DOMAIN mailbox', NEW j \in DOMAIN mailbox',
                          mailbox'[i].cand = mailbox'[j].cand
                   PROVE  i = j
        BY DEF AllDifferent
      <4>1. i + 1 = j + 1
        BY <2>2 DEF Once, OnePlace, AllDifferent
      <4> QED
        BY <2>2, <4>1
    <3>3. HandApart'
      BY <1>1, <2>1, <2>2 DEF Once, OnePlace, HandApart, MailApart, RoutedBy
    <3>4. MailApart'
      <4> SUFFICES ASSUME NEW i \in DOMAIN mailbox'
                   PROVE  ~CandIn(todo', mailbox'[i].cand) /\ ~RoutedBy(mailbox'[i].cand)
        BY <1>1 DEF MailApart, CandIn, RoutedBy
      <4>1. i + 1 # 1 /\ i + 1 \in DOMAIN mailbox /\ mailbox'[i] = mailbox[i + 1]
        BY <2>2
      <4>2. mailbox[i + 1].cand # mailbox[1].cand
        BY <2>2, <4>1 DEF Once, OnePlace, AllDifferent
      <4> QED
        BY <2>1, <2>2, <4>1, <4>2 DEF Once, OnePlace, MailApart, CandIn
    <3> QED
      BY <1>1, <3>1, <3>2, <3>3, <3>4 DEF Once, OnePlace, AllDifferent, RoutedOnce
  <2> QED
    BY <1>1, <1>2, <2>3, <2>4, <2>5, OnceHand DEF Once, Numbered, Unpublished, RoutedBy
<1>4. CASE TakeMailbox
  <2>1. todo' = mailbox /\ mailbox' = <<>> /\ leg # "terminal"
    BY <1>4 DEF TakeMailbox, Once, Terminal, InTerminal, Saving
  <2>2. \A i \in DOMAIN mailbox' : FALSE
    BY <2>1
  <2>3. OnePlace'
    BY <1>1, <2>1, <2>2
    DEF Once, OnePlace, HandApart, MailApart, CandIn, RoutedBy, AllDifferent, RoutedOnce
  <2> QED
    BY <1>1, <1>2, <2>1, <2>2, <2>3, OnceHand DEF Once, Numbered, Unpublished, RoutedBy, CandIn
<1>5. CASE TakeOwn
  <2>1. /\ todo' = <<res["main"]>> /\ mailbox' = mailbox /\ leg' = leg
        /\ leg = "terminal" /\ ~RoutedBy(res["main"].cand) /\ res["main"].cand <= spawns
        /\ \A r \in Rounds \ done : child[r].state # "none" => child[r].cand # res["main"].cand
    BY <1>5 DEF TakeOwn, Once, Own
  <2>2. DOMAIN todo' = {1} /\ todo'[1] = res["main"]
    BY <2>1
  <2>3. OnePlace'
    BY <1>1, <2>1, <2>2
    DEF Once, OnePlace, HandApart, MailApart, CandIn, RoutedBy, AllDifferent, RoutedOnce
  <2> QED
    BY <1>1, <1>2, <2>1, <2>2, <2>3, OnceHand DEF Once, Numbered, Unpublished, RoutedBy, CandIn
<1> QED
  BY <1>3, <1>4, <1>5

LEMMA OnceRoute ==
  ASSUME Base, Once, Route
  PROVE  Once'
<1> USE DEF sharedVars, anchorVars, roundVars, At
<1>0. /\ pc \in [Threads -> Labels] /\ todo \in Seq(Result) /\ routed \in Seq(Nat)
      /\ "main" \in Threads /\ "poller" \in Threads
  BY DEF Base, TypeOK, ThreadTypes, AnchorTypes, Threads
<1>1. /\ UNCHANGED <<spawns, child, latched, done, res, tr, inflight, mailbox, leg>>
      /\ pc["main"] = "route" /\ pc'["poller"] = pc["poller"]
      /\ pc'["main"] \in {"route", "write", "train", "save", "terminal", "stop"}
      /\ leg = "terminal" => pc'["main"] \in {"route", "write", "stop"}
  BY <1>0 DEF Route, NextLabel, Goto
<1>2. Terminal' /\ pc'["main"] \notin Ending \cup {"own"}
  BY <1>1 DEF Terminal, InTerminal, Ending, Saving
<1>3. CASE todo = <<>>
  <2>1. todo' = todo /\ routed' = routed /\ \A i \in DOMAIN todo : FALSE
    BY <1>3 DEF Route
  <2>2. OnePlace'
    BY <1>1, <2>1 DEF Once, OnePlace, HandApart, MailApart, CandIn, RoutedBy, AllDifferent, RoutedOnce
  <2> QED
    BY <1>1, <1>2, <2>1, <2>2, OnceHand DEF Once, Numbered, Unpublished, RoutedBy, CandIn
<1>4. CASE todo # <<>>
  <2> DEFINE c == Head(todo).cand
  <2>1. /\ routed' = Append(routed, c) /\ Head(todo) = todo[1] /\ 1 \in DOMAIN todo
        /\ \/ todo' = todo /\ pc'["main"] = "write"
           \/ todo' = Tail(todo) /\ pc'["main"] = "route"
    BY <1>0, <1>1, <1>4, Tails DEF Route, Goto
  <2>2. ~RoutedBy(c) /\ c <= spawns
    BY <1>1, <2>1 DEF Once, OnePlace, HandApart, Saving, Numbered
  <2>3. c \in Nat
    <3>1. Head(todo) \in Result
      BY <1>0, <1>4, HeadTailProperties
    <3> QED
      BY <3>1 DEF Result
  <2>4. /\ \A i \in DOMAIN routed' : (i \in DOMAIN routed /\ routed'[i] = routed[i]) \/ routed'[i] = c
        /\ \A i, j \in DOMAIN routed' : i \notin DOMAIN routed /\ j \notin DOMAIN routed => i = j
        /\ \A i \in DOMAIN routed : routed'[i] = routed[i]
    <3>1. Len(routed') = Len(routed) + 1 /\ DOMAIN routed' = 1 .. Len(routed) + 1
          /\ DOMAIN routed = 1 .. Len(routed) /\ Len(routed) \in Nat
      BY <1>0, <2>1, <2>3, AppendProperties, LenProperties
    <3> QED
      BY <1>0, <2>1, <2>3, <3>1, Appends
  <2>5. RoutedOnce'
    <3> SUFFICES ASSUME NEW i \in DOMAIN routed', NEW j \in DOMAIN routed', routed'[i] = routed'[j]
                 PROVE  i = j
      BY DEF RoutedOnce
    <3>1. \A k \in DOMAIN routed' : k \in DOMAIN routed => routed'[k] = routed[k] /\ routed'[k] # c
      BY <2>2, <2>4 DEF RoutedBy
    <3>2. \A k \in DOMAIN routed' : k \notin DOMAIN routed => routed'[k] = c
      BY <2>4
    <3> QED
      BY <2>4, <3>1, <3>2 DEF Once, OnePlace, RoutedOnce
  <2>6. \A d : (\E i \in DOMAIN routed' : routed'[i] = d) => RoutedBy(d) \/ d = c
    BY <2>4 DEF RoutedBy
  <2>7. CASE todo' = todo /\ pc'["main"] = "write"
    <3>1. HandApart'
      <4> SUFFICES ASSUME NEW i \in DOMAIN todo, RoutedBy(todo[i].cand) \/ todo[i].cand = c
                   PROVE  i = 1
        BY <2>6, <2>7 DEF HandApart, RoutedBy, Saving
      <4>1. ~RoutedBy(todo[i].cand)
        BY <1>1 DEF Once, OnePlace, HandApart, Saving
      <4> QED
        BY <2>1, <4>1 DEF Once, OnePlace, AllDifferent
    <3>2. MailApart'
      <4> SUFFICES ASSUME leg # "terminal", NEW i \in DOMAIN mailbox
                   PROVE  /\ ~CandIn(todo, mailbox[i].cand) /\ ~RoutedBy(mailbox[i].cand)
                          /\ mailbox[i].cand # c
        BY <1>1, <2>6, <2>7 DEF MailApart, CandIn, RoutedBy
      <4> QED
        BY <2>1 DEF Once, OnePlace, MailApart, CandIn
    <3>3. OnePlace'
      BY <1>1, <2>5, <2>7, <3>1, <3>2 DEF Once, OnePlace, AllDifferent
    <3>4. \A r \in Rounds \ done : child[r].state # "none" =>
               \A i \in DOMAIN routed' : routed'[i] # child[r].cand
      BY <2>1, <2>6 DEF Once, Unpublished, CandIn
    <3>5. \A i \in DOMAIN routed' : routed'[i] <= spawns
      BY <2>2, <2>4 DEF Once, Numbered
    <3> QED
      BY <1>1, <1>2, <2>7, <3>3, <3>4, <3>5, OnceHand DEF Once, Numbered, Unpublished
  <2>8. CASE todo' = Tail(todo) /\ pc'["main"] = "route"
    <3>1. \A i \in DOMAIN todo' : i + 1 \in DOMAIN todo /\ todo'[i] = todo[i + 1] /\ i + 1 # 1
                                  /\ \A j \in DOMAIN todo' : i + 1 = j + 1 => i = j
      <4>1. Tail(todo) \in Seq(Result)
        BY <1>0, <1>4, HeadTailProperties
      <4>2. \A i \in DOMAIN Tail(todo) : i \in Nat /\ i # 0
        BY <4>1, LenProperties
      <4> QED
        BY <1>0, <1>4, <2>8, <4>2, Tails
    <3>2. \A i \in DOMAIN todo' : ~RoutedBy(todo'[i].cand) /\ todo'[i].cand # c
      BY <1>1, <2>1, <3>1 DEF Once, OnePlace, HandApart, AllDifferent, Saving
    <3>3. HandApart'
      BY <2>6, <3>2 DEF HandApart, RoutedBy
    <3>4. AllDifferent(todo')
      BY <3>1 DEF Once, OnePlace, AllDifferent
    <3>5. MailApart'
      <4> SUFFICES ASSUME leg # "terminal", NEW i \in DOMAIN mailbox
                   PROVE  /\ ~CandIn(todo', mailbox[i].cand) /\ ~RoutedBy(mailbox[i].cand)
                          /\ mailbox[i].cand # c
        BY <1>1, <2>6 DEF MailApart, CandIn, RoutedBy
      <4> QED
        BY <2>1, <3>1 DEF Once, OnePlace, MailApart, CandIn
    <3>6. OnePlace'
      BY <1>1, <2>5, <3>3, <3>4, <3>5 DEF Once, OnePlace, AllDifferent
    <3>7. \A r \in Rounds \ done : child[r].state # "none" =>
              /\ ~CandIn(todo', child[r].cand)
              /\ \A i \in DOMAIN routed' : routed'[i] # child[r].cand
      BY <2>1, <2>6, <3>1 DEF Once, Unpublished, CandIn
    <3>8. \A i \in DOMAIN routed' : routed'[i] <= spawns
      BY <2>2, <2>4 DEF Once, Numbered
    <3>9. \A i \in DOMAIN todo' : todo'[i].cand <= spawns
      BY <3>1 DEF Once, Numbered
    <3> QED
      BY <1>1, <1>2, <3>6, <3>7, <3>8, <3>9, OnceHand DEF Once, Numbered, Unpublished
  <2> QED
    BY <2>1, <2>7, <2>8
<1> QED
  BY <1>3, <1>4

LEMMA OnceSaving ==
  ASSUME Base, Once, RenameAnchor \/ SaveFails
  PROVE  Once'
<1> USE DEF sharedVars, anchorVars, roundVars, At
<1>0. /\ pc \in [Threads -> Labels] /\ todo \in Seq(Result) /\ "main" \in Threads /\ "poller" \in Threads
      /\ pc["main"] \in Saving => todo # <<>>
  BY DEF Base, TypeOK, ThreadTypes, Threads, Hands
<1>1. /\ UNCHANGED <<spawns, child, latched, done, res, tr, inflight, mailbox, routed>>
      /\ pc["main"] \in Saving /\ pc'["poller"] = pc["poller"]
      /\ pc'["main"] \in {"route", "capture", "stop"}
      /\ leg' = "terminal" => leg = "terminal" /\ pc'["main"] \in {"route", "stop"}
      /\ leg' # "terminal" => leg # "terminal"
  BY <1>0 DEF RenameAnchor, SaveFails, Goto, Saving
<1>2. Terminal' /\ pc'["main"] \notin Ending \cup {"own"}
  BY <1>1 DEF Terminal, InTerminal, Ending
<1>3. \A i \in DOMAIN todo' : i + 1 \in DOMAIN todo /\ todo'[i] = todo[i + 1] /\ i + 1 # 1
                              /\ \A j \in DOMAIN todo' : i + 1 = j + 1 => i = j
  <2>1. CASE RenameAnchor
    <3>1. Tail(todo) \in Seq(Result) /\ todo' = Tail(todo)
      BY <1>0, <1>1, <2>1, HeadTailProperties DEF RenameAnchor
    <3>2. \A i \in DOMAIN Tail(todo) : i \in Nat /\ i # 0
      BY <3>1, LenProperties
    <3> QED
      BY <1>0, <1>1, <3>1, <3>2, Tails
  <2>2. CASE SaveFails
    <3>1. todo' = <<>>
      BY <2>2 DEF SaveFails
    <3> QED
      BY <3>1
  <2> QED
    BY <2>1, <2>2
<1>4. OnePlace'
  <2>1. HandApart'
    BY <1>1, <1>3 DEF Once, OnePlace, HandApart, RoutedBy
  <2>2. AllDifferent(todo')
    BY <1>3 DEF Once, OnePlace, AllDifferent
  <2>3. MailApart'
    BY <1>1, <1>3 DEF Once, OnePlace, MailApart, CandIn, RoutedBy
  <2> QED
    BY <1>1, <2>1, <2>2, <2>3 DEF Once, OnePlace, AllDifferent, RoutedOnce
<1>5. \A r \in Rounds \ done : child[r].state # "none" => ~CandIn(todo', child[r].cand)
  BY <1>3 DEF Once, Unpublished, CandIn
<1>6. \A i \in DOMAIN todo' : todo'[i].cand <= spawns
  BY <1>3 DEF Once, Numbered
<1> QED
  BY <1>1, <1>2, <1>4, <1>5, <1>6, OnceHand DEF Once, Numbered, Unpublished, RoutedBy

LEMMA OnceProcess ==
  ASSUME Base, Once, Die \/ Launch
  PROVE  Once'
<1> USE DEF sharedVars, anchorVars, roundVars, At
<1>1. CASE Die
  <2>1. /\ child' = [r \in Rounds |-> NoChild] /\ pc' = [t \in Threads |-> "down"]
        /\ latched' = {} /\ done' = {} /\ mailbox' = <<>> /\ todo' = <<>>
        /\ UNCHANGED <<spawns, routed>> /\ leg' = "run"
    BY <1>1 DEF Die
  <2>2. /\ \A r \in Rounds : child'[r].state = "none"
        /\ \A t \in Threads : pc'[t] = "down"
        /\ (\A i \in DOMAIN mailbox' : FALSE) /\ (\A i \in DOMAIN todo' : FALSE)
    BY <2>1 DEF NoChild
  <2>3. Numbered' /\ OneFinaliser' /\ Unpublished'
    BY <2>1, <2>2 DEF Once, Numbered, OneFinaliser, Unpublished, Alone, Threads
  <2>4. OnePlace'
    BY <2>1, <2>2 DEF Once, OnePlace, HandApart, MailApart, AllDifferent, RoutedOnce
  <2>5. Terminal' /\ Own'
    BY <2>1, <2>2 DEF Terminal, Own, Threads
  <2> QED
    BY <2>3, <2>4, <2>5 DEF Once
<1>2. CASE Launch
  <2>1. /\ UNCHANGED <<spawns, mailbox, todo, routed, latched, done, res, child, tr, leg, inflight>>
        /\ pc["main"] = "down" /\ pc'["main"] = "train" /\ pc'["poller"] = "idle"
    BY <1>2 DEF Launch
  <2>2. leg # "terminal"
    BY <2>1 DEF Once, Terminal, InTerminal, Saving
  <2>3. Terminal'
    BY <2>1, <2>2 DEF Terminal
  <2> QED
    BY <2>1, <2>2, <2>3, OnceControl DEF SameData, Alone, Threads, Saving
<1> QED
  BY <1>1, <1>2

LEMMA OnceStep == Base /\ Once /\ [Next]_vars => Once'
<1>1. Base /\ Once /\ UNCHANGED vars => Once'
  BY DEF vars, roundVars, sharedVars, threadVars, anchorVars, historyVars, Once, Numbered, OneFinaliser,
     Unpublished, OnePlace, HandApart, MailApart, Terminal, Own, CandIn, RoutedBy, AllDifferent, RoutedOnce
<1> QED
  BY <1>1, OnceChild, OncePoller, OnceTurning, OnceEnding, OnceSpawn, OnceTaking, OnceRoute, OnceSaving,
     OnceProcess DEF Next

LEMMA InitOnce == Init => Once
  BY DEF Init, Once, Numbered, OneFinaliser, Unpublished, OnePlace, HandApart, MailApart, Terminal, Own,
     AllDifferent, RoutedOnce, NoChild, Alone, Threads

\* _take_mailbox: "whichever thread finalised a round, a drain routes it exactly
\* once", for any number of rounds and launches: no candidate's result reaches
\* the promotion decision twice.
THEOREM AlwaysRoutedOnce == Spec => []RoutedOnce
<1>1. Init => Base /\ Once
  BY InitBase, InitOnce
<1>2. Base /\ Once /\ [Next]_vars => (Base /\ Once)'
  BY BaseStep, OnceStep
<1>3. Base /\ Once => RoutedOnce
  BY DEF Once, OnePlace
<1> QED
  BY <1>1, <1>2, <1>3, PTL DEF Spec
-----------------------------------------------------------------------------
(* A verdict outlives its round                                            *)

Of(x, c) == x.cand = c /\ x.promoted

\* Once a round's end has begun, and for good, its child is gone.
Ended ==
    /\ \A r \in latched : ~Alive(r)
    /\ \A t \in Threads : pc[t] = "latch" => ~Alive(tr[t])

\* The trainer thread's leg has settled the round in flight, and has emptied the
\* mailbox.
LateLeg == leg # "run" /\ pc["main"] \in Saving \cup {"route"}
Past == leg = "terminal" \/ LateLeg \/ pc["main"] \in {"take", "save", "terminal", "own", "stop", "join", "exited"}
Emptied == leg # "terminal" /\ (LateLeg \/ pc["main"] \in {"save", "terminal", "stop", "join", "exited"})

\* A round that is not yet published is the one in flight, or the terminal one.
InHand ==
    \A r \in Rounds \ done : child[r].state # "none" =>
        r = inflight \/ (leg = "terminal" /\ pc["main"] \in InTerminal /\ r = tr["main"])

Settled ==
    /\ inflight \notin done
    /\ pc["main"] \in Ending \cup {"await"} /\ leg # "terminal" => inflight \in {NoRound, tr["main"]}
    /\ ~late => InHand /\ (Past => inflight = NoRound) /\ (Emptied => mailbox = <<>>)
    /\ todo # <<>> => pc["main"] \in Saving \cup {"route"}

\* The round's files say it passed, and so does whoever has read them.
PassOnFile(r, c) ==
    /\ r \notin done /\ child[r].cand = c /\ partial[r] = "pass"
    /\ child[r].state \notin {"none", "playing"}
    /\ child[r].state \in {"written", "clean"} => result[r] = "pass"
    /\ \A t \in Threads : pc[t] = "publish" /\ tr[t] = r => Of(res[t], c)

\* Where a passing verdict is on its way from the child to the anchor.
Placed(c) ==
    \/ \E i \in DOMAIN applied : applied[i] = c
    \/ \E i \in DOMAIN todo : Of(todo[i], c)
    \/ leg # "terminal" /\ \E i \in DOMAIN mailbox : Of(mailbox[i], c)
    \/ pc["main"] = "own" /\ Of(res["main"], c)

OnItsWay(c) == Placed(c) \/ \E r \in Rounds : PassOnFile(r, c)

Kept == ~late /\ ~failed => \A c \in owed : OnItsWay(c)

Keeping == Ended /\ Settled /\ Kept

\* What a step keeps that publishes, routes and applies nothing: it moves threads,
\* ends children and loses no file.
LEMMA KeepingMove ==
  ASSUME Base, Once, Keeping,
         UNCHANGED <<applied, todo, mailbox, res, done, inflight, partial, result, owed>>,
         late => late', failed => failed',
         \A r \in Rounds : /\ child'[r].cand = child[r].cand
                           /\ child'[r].state = "none" <=> child[r].state = "none"
                           /\ child'[r].state = "playing" => child[r].state = "playing"
                           /\ child'[r].state \in {"written", "clean"} => child[r].state \in {"written", "clean"},
         \A t \in Threads : pc'[t] = "publish" => pc[t] = "publish" /\ tr'[t] = tr[t],
         Ended',
         pc'["main"] \in Ending \cup {"await"} /\ leg' # "terminal" => inflight \in {NoRound, tr'["main"]},
         leg = "terminal" /\ pc["main"] \in InTerminal =>
             leg' = "terminal" /\ pc'["main"] \in InTerminal /\ tr'["main"] = tr["main"],
         ~late' /\ Past' => inflight = NoRound,
         ~late' /\ Emptied' => mailbox = <<>>,
         todo # <<>> => pc'["main"] \in Saving \cup {"route"},
         leg' = "terminal" => leg = "terminal",
         pc["main"] = "own" => pc'["main"] = "own"
  PROVE  Keeping'
<1>1. InHand => InHand'
  BY DEF InHand
<1>2. Settled'
  BY <1>1 DEF Keeping, Settled
<1>3. \A r \in Rounds : \A c : PassOnFile(r, c) => PassOnFile(r, c)'
  BY DEF PassOnFile, Of
<1>4. \A c : OnItsWay(c) => OnItsWay(c)'
  BY <1>3 DEF OnItsWay, Placed, Of
<1>5. Kept'
  BY <1>4 DEF Keeping, Kept
<1> QED
  BY <1>2, <1>5 DEF Keeping

\* What both threads' labels say of Past and Emptied while the leg stands.
LEMMA PastSame ==
  ASSUME leg' = leg, pc'["main"] = pc["main"]
  PROVE  (Past' <=> Past) /\ (Emptied' <=> Emptied)
  BY DEF Past, Emptied, LateLeg

LEMMA KeepingExit ==
  ASSUME Base, Once, Keeping, NEW r \in Rounds, ChildExit(r)
  PROVE  Keeping'
<1> USE DEF sharedVars, threadVars, anchorVars, historyVars
<1>1. UNCHANGED <<applied, todo, mailbox, res, done, inflight, partial, result, owed, late, failed, pc, tr, leg,
                  latched>>
  BY DEF ChildExit
<1>2. /\ child[r].state \in {"playing", "judged", "written"} /\ child'[r].cand = child[r].cand
      /\ child'[r].state = (IF child[r].state = "written" THEN "clean" ELSE "nonzero")
      /\ \A q \in Rounds \ {r} : child'[q] = child[q]
  BY DEF ChildExit, Alive, Base, TypeOK, RoundTypes
<1>3. Ended'
  <2>1. \A q \in Rounds : Alive(q)' => Alive(q)
    BY <1>2 DEF Alive
  <2>2. latched \subseteq Rounds /\ \A t \in Threads : pc[t] = "latch" => tr[t] \in Rounds
    BY DEF Base, TypeOK, RoundTypes, Hands, Ending
  <2> QED
    BY <1>1, <2>1, <2>2 DEF Keeping, Ended
<1>4. (Past' <=> Past) /\ (Emptied' <=> Emptied)
  BY <1>1, PastSame
<1> QED
  BY <1>1, <1>2, <1>3, <1>4, KeepingMove DEF Keeping, Settled

\* The child judges and writes only while nobody ends its round, so what it
\* leaves on file is what will be read.
LEMMA KeepingChild ==
  ASSUME Base, Once, Keeping, NEW r \in Rounds, Judge(r) \/ WriteResult(r)
  PROVE  Keeping'
<1> USE DEF sharedVars, threadVars, anchorVars, historyVars
<1>0. /\ child \in [Rounds -> [cand : Nat, state : States]]
      /\ partial \in [Rounds -> Verdict] /\ result \in [Rounds -> Verdict]
  BY DEF Base, TypeOK, RoundTypes
<1>1. UNCHANGED <<applied, todo, mailbox, res, done, inflight, late, failed, pc, tr, leg, latched>>
  BY DEF Judge, WriteResult
<1>2. /\ child[r].state \in {"playing", "judged"} /\ child'[r].cand = child[r].cand
      /\ child'[r].state \in {"judged", "written"}
      /\ \A q \in Rounds \ {r} : child'[q] = child[q] /\ partial'[q] = partial[q] /\ result'[q] = result[q]
  BY <1>0 DEF Judge, WriteResult
<1>3. /\ r \notin latched /\ r \notin done
      /\ \A t \in Threads : pc[t] \in {"latch", "publish"} => tr[t] # r
  BY <1>2 DEF Keeping, Ended, Alive, Once, OneFinaliser, Alone
<1>4. Ended'
  BY <1>1, <1>2, <1>3, <1>0 DEF Keeping, Ended, Alive, Base, TypeOK, RoundTypes, Hands, Ending
<1>5. Settled'
  <2>1. InHand => InHand'
    BY <1>1, <1>2 DEF InHand
  <2> QED
    BY <1>1, <2>1, PastSame DEF Keeping, Settled
<1>6. \A q \in Rounds \ {r} : \A c : PassOnFile(q, c) => PassOnFile(q, c)'
  BY <1>1, <1>2 DEF PassOnFile, Of
<1>7. \A c : PassOnFile(r, c) => PassOnFile(r, c)'
  <2>1. CASE Judge(r)
    BY <2>1 DEF Judge, PassOnFile
  <2>2. CASE WriteResult(r)
    BY <1>0, <1>1, <1>2, <2>2 DEF WriteResult, PassOnFile, Of
  <2> QED
    BY <2>1, <2>2
<1>8. \A c : OnItsWay(c) => OnItsWay(c)'
  BY <1>1, <1>6, <1>7 DEF OnItsWay, Placed, Of
<1>9. \A c \in owed' : c \in owed \/ OnItsWay(c)'
  <2> SUFFICES ASSUME NEW c \in owed', c \notin owed PROVE PassOnFile(r, c)'
    BY DEF OnItsWay, Placed
  <2>1. Judge(r) /\ c = child[r].cand /\ partial'[r] = "pass" /\ child'[r].state = "judged"
    BY <1>0 DEF Judge, WriteResult
  <2> QED
    BY <1>1, <1>2, <1>3, <2>1 DEF PassOnFile
<1>10. Kept'
  BY <1>1, <1>8, <1>9 DEF Keeping, Kept
<1> QED
  BY <1>4, <1>5, <1>10 DEF Keeping

LEMMA KeepingPoller ==
  ASSUME Base, Once, Keeping, Poll \/ PollerEnds
  PROVE  Keeping'
<1> USE DEF sharedVars, threadVars, anchorVars, historyVars, roundVars, At
<1>0. /\ pc \in [Threads -> Labels] /\ tr \in [Threads -> Rounds \cup {NoRound}]
      /\ "main" \in Threads /\ "poller" \in Threads
  BY DEF Base, TypeOK, ThreadTypes, Threads
<1>1. /\ UNCHANGED <<applied, todo, mailbox, res, done, inflight, partial, result, owed, late, failed, leg, child,
                     latched>>
      /\ pc'["main"] = pc["main"] /\ tr'["main"] = tr["main"]
      /\ pc'["poller"] \in {"kill", "latch", "ended"}
      /\ pc'["poller"] = "latch" => ~Alive(tr'["poller"])
  BY <1>0 DEF Poll, PollerEnds, Goto, Alive
<1>2. Ended'
  BY <1>1 DEF Keeping, Ended, Alive, Threads
<1>3. (Past' <=> Past) /\ (Emptied' <=> Emptied)
  BY <1>1, PastSame
<1> QED
  BY <1>1, <1>2, <1>3, KeepingMove DEF Keeping, Settled, Threads

\* The trainer thread's turns outside the ends of rounds.
LEMMA KeepingTurning ==
  ASSUME Base, Once, Keeping,
         \/ SaveBundle \/ SettleForStop \/ EndRun \/ SaveStop \/ Capture \/ Await
         \/ SkipTerminal \/ Stop \/ WriteAnchor \/ Rotate
  PROVE  Keeping'
<1> USE DEF sharedVars, threadVars, anchorVars, historyVars, roundVars, At
<1>0. /\ pc \in [Threads -> Labels] /\ tr \in [Threads -> Rounds \cup {NoRound}]
      /\ "main" \in Threads /\ "poller" \in Threads
  BY DEF Base, TypeOK, ThreadTypes, Threads
<1>1. UNCHANGED <<applied, todo, mailbox, res, done, inflight, partial, result, owed, late, failed, child, latched>>
  BY DEF SaveBundle, SettleForStop, EndRun, SaveStop, Capture, Await, SkipTerminal, Stop, WriteAnchor, Rotate
<1>2. pc'["poller"] = pc["poller"] /\ tr'["poller"] = tr["poller"]
  BY <1>0 DEF SaveBundle, SettleForStop, EndRun, SaveStop, Capture, Await, SkipTerminal, Stop, WriteAnchor,
     Rotate, Goto
<1>3. CASE SaveBundle \/ SettleForStop \/ EndRun \/ SaveStop \/ Capture
  <2>1. pc["main"] \in {"train", "save", "capture"} /\ leg # "terminal"
    <3>1. pc["main"] \in {"train", "save", "capture"}
      BY <1>3 DEF SaveBundle, SettleForStop, EndRun, SaveStop, Capture
    <3> QED
      BY <3>1 DEF Once, Terminal, InTerminal, Saving
  <2>2. /\ leg' # "terminal" /\ pc'["main"] \in {"train", "capture", "take", "latch", "kill", "await"}
        /\ pc'["main"] = "take" => inflight = NoRound
        /\ pc'["main"] \in {"latch", "kill", "await"} => tr'["main"] = inflight
        /\ pc'["main"] = "latch" => ~Alive(tr'["main"])
    BY <1>0, <1>3, <2>1 DEF SaveBundle, SettleForStop, EndRun, SaveStop, Capture, Goto
  <2>3. Ended'
    BY <1>1, <1>2, <2>2 DEF Keeping, Ended, Alive, Threads
  <2>4. (Past' => inflight = NoRound) /\ ~Emptied'
    BY <2>2 DEF Past, Emptied, LateLeg, Saving
  <2>5. pc'["main"] \in Ending \cup {"await"} => inflight = tr'["main"]
    BY <2>2 DEF Ending
  <2>6. todo = <<>>
    BY <2>1 DEF Keeping, Settled, Saving
  <2>7. pc["main"] # "own" /\ \A t \in Threads : pc'[t] = "publish" => pc[t] = "publish" /\ tr'[t] = tr[t]
    BY <1>2, <2>1, <2>2 DEF Threads
  <2> QED
    BY <1>1, <2>1, <2>2, <2>3, <2>4, <2>5, <2>6, <2>7, KeepingMove
<1>4. CASE Await \/ SkipTerminal \/ Stop \/ WriteAnchor \/ Rotate
  <2>1. /\ leg' = leg /\ tr'["main"] = tr["main"]
        /\ \/ pc["main"] = "await" /\ pc'["main"] \in {"kill", "latch"}
              /\ (pc'["main"] = "latch" => ~Alive(tr["main"]))
           \/ pc["main"] \in {"stop", "terminal"} /\ pc'["main"] \in {"join", "stop"}
           \/ pc["main"] \in {"write", "rotate"} /\ pc'["main"] \in {"rotate", "rename"}
    BY <1>0, <1>4 DEF Await, SkipTerminal, Stop, WriteAnchor, Rotate, Goto
  <2>2. Ended'
    BY <1>1, <1>2, <2>1 DEF Keeping, Ended, Alive, Threads
  <2>3. (Past' => Past) /\ (Emptied' => Emptied)
    BY <2>1 DEF Past, Emptied, LateLeg, Saving
  <2>4. /\ pc["main"] # "own" /\ \A t \in Threads : pc'[t] = "publish" => pc[t] = "publish" /\ tr'[t] = tr[t]
        /\ pc'["main"] \in Ending \cup {"await"} => pc["main"] \in Ending \cup {"await"}
        /\ pc["main"] \in InTerminal => pc'["main"] \in InTerminal
        /\ pc["main"] \in Saving \cup {"route"} => pc'["main"] \in Saving \cup {"route"}
    BY <1>2, <2>1 DEF Threads, Ending, InTerminal, Saving
  <2> QED
    BY <1>1, <2>1, <2>2, <2>3, <2>4, KeepingMove DEF Keeping, Settled
<1> QED
  BY <1>3, <1>4

\* stop() kills nobody whose verdict counts: unless a wait was given up, nothing
\* is in flight.
LEMMA KeepingStopEnds ==
  ASSUME Base, Once, Keeping, StopEnds
  PROVE  Keeping'
<1> USE DEF sharedVars, anchorVars, historyVars, At
<1>0. /\ pc \in [Threads -> Labels] /\ "main" \in Threads /\ "poller" \in Threads
  BY DEF Base, TypeOK, ThreadTypes, Threads
<1>1. /\ UNCHANGED <<applied, todo, mailbox, res, done, inflight, result, owed, late, failed, latched, tr, leg>>
      /\ pc["main"] = "join" /\ pc'["main"] = "exited" /\ pc'["poller"] = pc["poller"]
  BY <1>0 DEF StopEnds, Goto
<1>2. (Past' <=> Past) /\ (Emptied' <=> Emptied) /\ Past
  BY <1>1 DEF Past, Emptied, LateLeg, Saving
<1>3. \A r \in Rounds : /\ child'[r].cand = child[r].cand
                        /\ child'[r].state \in {child[r].state, "signal"}
                        /\ child'[r].state = "none" <=> child[r].state = "none"
  <2>1. CASE inflight = NoRound
    BY <2>1 DEF StopEnds
  <2>2. CASE inflight # NoRound
    <3>1. inflight \in Rounds /\ child[inflight].state # "none"
      BY <2>2 DEF Base, Hands, TypeOK, RoundTypes
    <3> QED
      BY <2>2, <3>1 DEF StopEnds, Base, TypeOK, RoundTypes
  <2> QED
    BY <2>1, <2>2
<1>4. Ended'
  <2>1. \A q \in Rounds : Alive(q)' => Alive(q)
    BY <1>3 DEF Alive
  <2>2. latched \subseteq Rounds /\ \A t \in Threads : pc[t] = "latch" => tr[t] \in Rounds
    BY DEF Base, TypeOK, RoundTypes, Hands, Ending
  <2>3. \A t \in Threads : pc'[t] = "latch" => pc[t] = "latch"
    BY <1>1 DEF Threads
  <2> QED
    BY <1>1, <2>1, <2>2, <2>3 DEF Keeping, Ended
<1>5. CASE late
  <2>1. Settled'
    BY <1>1, <1>5 DEF Keeping, Settled, Ending, Saving
  <2> QED
    BY <1>1, <1>4, <1>5, <2>1 DEF Keeping, Kept
<1>6. CASE ~late
  <2>1. inflight = NoRound
    BY <1>2, <1>6 DEF Keeping, Settled
  <2>2. partial' = partial
    BY <2>1 DEF StopEnds
  <2>3. todo = <<>>
    BY <1>1 DEF Keeping, Settled, Saving
  <2>4. \A t \in Threads : pc'[t] = "publish" => pc[t] = "publish"
    BY <1>1 DEF Threads
  <2>5. pc'["main"] \notin Ending \cup {"await", "own"} /\ pc["main"] \notin InTerminal \cup {"own"}
    BY <1>1 DEF Ending, InTerminal
  <2> QED
    BY <1>1, <1>2, <1>3, <1>4, <2>1, <2>2, <2>3, <2>4, <2>5, KeepingMove DEF Keeping, Settled
<1> QED
  BY <1>5, <1>6

LEMMA KeepingKill ==
  ASSUME Base, Once, Keeping, NEW t \in Threads, Kill(t)
  PROVE  Keeping'
<1> USE DEF sharedVars, anchorVars, historyVars, At
<1>0. /\ pc \in [Threads -> Labels] /\ child \in [Rounds -> [cand : Nat, state : States]]
      /\ tr[t] \in Rounds /\ child[tr[t]].state # "none"
  BY DEF Kill, Base, TypeOK, RoundTypes, ThreadTypes, Hands, Ending
<1>1. /\ UNCHANGED <<applied, todo, mailbox, res, done, inflight, partial, result, owed, late, failed, leg, tr,
                     latched>>
      /\ pc[t] = "kill" /\ pc'[t] = "latch" /\ \A u \in Threads \ {t} : pc'[u] = pc[u]
      /\ child' = [child EXCEPT ![tr[t]].state = IF Alive(tr[t]) THEN "signal" ELSE @]
  BY <1>0 DEF Kill, Goto
<1>2. /\ \A q \in Rounds : /\ child'[q].cand = child[q].cand
                           /\ child'[q].state \in {child[q].state, "signal"}
                           /\ child'[q].state = "none" <=> child[q].state = "none"
      /\ ~Alive(tr[t])'
  BY <1>0, <1>1 DEF Alive
<1>3. Ended'
  <2>1. \A q \in Rounds : Alive(q)' => Alive(q)
    BY <1>2 DEF Alive
  <2>2. latched \subseteq Rounds /\ \A u \in Threads : pc[u] = "latch" => tr[u] \in Rounds
    BY DEF Base, TypeOK, RoundTypes, Hands, Ending
  <2>3. \A q \in latched' : ~Alive(q)'
    BY <1>1, <2>1, <2>2 DEF Keeping, Ended
  <2>4. ASSUME NEW u \in Threads, pc'[u] = "latch" PROVE ~Alive(tr[u])'
    <3>1. CASE u = t
      BY <1>2, <3>1
    <3>2. CASE u # t
      BY <1>1, <2>1, <2>2, <2>4, <3>2 DEF Keeping, Ended
    <3> QED
      BY <3>1, <3>2
  <2> QED
    BY <1>1, <2>3, <2>4 DEF Ended, Alive
<1>4. (Past' <=> Past) /\ (Emptied' <=> Emptied)
  BY <1>1 DEF Past, Emptied, LateLeg, Saving, Threads
<1>5. /\ \A u \in Threads : pc'[u] = "publish" => pc[u] = "publish"
      /\ pc'["main"] \in Ending \cup {"await"} => pc["main"] \in Ending \cup {"await"}
      /\ pc["main"] \in InTerminal => pc'["main"] \in InTerminal
      /\ pc["main"] \in Saving \cup {"route"} => pc'["main"] \in Saving \cup {"route"}
      /\ pc["main"] = "own" => pc'["main"] = "own"
  BY <1>1 DEF Threads, Ending, InTerminal, Saving
<1> QED
  BY <1>1, <1>2, <1>3, <1>4, <1>5, KeepingMove DEF Keeping, Settled

LEMMA KeepingLatch ==
  ASSUME Base, Once, Keeping, NEW t \in Threads, Latch(t)
  PROVE  Keeping'
<1> USE DEF sharedVars, anchorVars, historyVars, roundVars, At
<1>1. /\ UNCHANGED <<applied, todo, mailbox, res, done, inflight, partial, result, owed, late, failed, leg, tr,
                     child>>
      /\ pc[t] = "latch" /\ pc'[t] \in {"wait", "read"} /\ \A u \in Threads \ {t} : pc'[u] = pc[u]
      /\ latched' \in {latched, latched \cup {tr[t]}}
      /\ pc'[t] = "wait" => tr[t] \in latched
  BY DEF Latch, Goto, Base, TypeOK, ThreadTypes
<1>2. ~Alive(tr[t])
  BY <1>1 DEF Keeping, Ended
<1>3. Ended'
  BY <1>1, <1>2 DEF Keeping, Ended, Alive
<1>4. (Past' <=> Past) /\ (Emptied' <=> Emptied)
  BY <1>1 DEF Past, Emptied, LateLeg, Saving, Threads
<1>5. /\ \A u \in Threads : pc'[u] = "publish" => pc[u] = "publish"
      /\ pc'["main"] \in Ending \cup {"await"} => pc["main"] \in Ending \cup {"await"}
      /\ pc["main"] \in Saving \cup {"route"} => pc'["main"] \in Saving \cup {"route"}
      /\ pc["main"] = "own" => pc'["main"] = "own"
  BY <1>1 DEF Threads, Ending, Saving
<1>6. leg = "terminal" /\ pc["main"] \in InTerminal => pc'["main"] \in InTerminal
  <2>1. CASE t = "main"
    BY <1>1, <2>1 DEF Once, Terminal, InTerminal, Alone
  <2>2. CASE t # "main"
    BY <1>1, <2>2 DEF Threads
  <2> QED
    BY <2>1, <2>2
<1> QED
  BY <1>1, <1>3, <1>4, <1>5, <1>6, KeepingMove DEF Keeping, Settled

\* The second finaliser goes on once the first has published, or else is late.
LEMMA KeepingWait ==
  ASSUME Base, Once, Keeping, NEW t \in Threads, Wait(t)
  PROVE  Keeping'
<1> USE DEF sharedVars, anchorVars, roundVars, At
<1>1. /\ UNCHANGED <<applied, todo, mailbox, res, done, inflight, partial, result, owed, failed, leg, tr,
                     child, latched>>
      /\ pc[t] = "wait" /\ \A u \in Threads \ {t} : pc'[u] = pc[u]
      /\ pc'[t] = (IF t = "poller" THEN "idle" ELSE IF leg = "terminal" THEN "own" ELSE "take")
  BY DEF Wait, AfterRound, Goto, Base, TypeOK, ThreadTypes
<1>2. late => late'
  BY DEF Wait
<1>3. ~late' /\ t = "main" => tr["main"] \in done
  BY DEF Wait
<1>4. t = "main" => leg # "terminal"
  BY <1>1 DEF Once, Terminal, InTerminal, Saving
<1>5. Ended'
  BY <1>1 DEF Keeping, Ended, Alive
<1>6. CASE t = "poller"
  <2>1. pc'["main"] = pc["main"] /\ pc'["poller"] = "idle"
    BY <1>1, <1>6 DEF Threads
  <2>2. (Past' <=> Past) /\ (Emptied' <=> Emptied)
    BY <1>1, <2>1, PastSame
  <2>3. \A u \in Threads : pc'[u] = "publish" => pc[u] = "publish"
    BY <2>1 DEF Threads
  <2>4. ~late' => ~late
    BY <1>2
  <2> QED
    BY <1>1, <1>2, <1>5, <2>1, <2>2, <2>3, <2>4, KeepingMove DEF Keeping, Settled
<1>7. CASE t = "main"
  <2>1. pc'["main"] = "take" /\ pc'["poller"] = pc["poller"] /\ pc["main"] = "wait" /\ leg # "terminal"
    BY <1>1, <1>4, <1>7 DEF Threads
  <2>2. ~late' => inflight = NoRound
    BY <1>3, <1>7, <2>1 DEF Keeping, Settled, Ending
  <2>3. ~Emptied'
    BY <1>1, <2>1 DEF Emptied, LateLeg, Saving
  <2>4. todo = <<>>
    BY <2>1 DEF Keeping, Settled, Saving
  <2>5. \A u \in Threads : pc'[u] = "publish" => pc[u] = "publish"
    BY <2>1 DEF Threads
  <2>6. pc'["main"] \notin Ending \cup {"await"}
    BY <2>1 DEF Ending
  <2> QED
    BY <1>1, <1>2, <1>5, <2>1, <2>2, <2>3, <2>4, <2>5, <2>6, KeepingMove
<1> QED
  BY <1>6, <1>7 DEF Threads

\* What is read of a round that passed is that it passed.
LEMMA KeepingRead ==
  ASSUME Base, Once, Keeping, NEW t \in Threads, Read(t)
  PROVE  Keeping'
<1> USE DEF sharedVars, anchorVars, historyVars, roundVars, At
<1>1. /\ UNCHANGED <<applied, todo, mailbox, done, inflight, partial, result, owed, late, failed, leg, tr,
                     child, latched>>
      /\ pc[t] = "read" /\ pc'[t] = "publish" /\ \A u \in Threads \ {t} : pc'[u] = pc[u] /\ res'[u] = res[u]
      /\ res'[t] = [cand |-> child[tr[t]].cand, promoted |-> VerdictOf(t) = "pass"]
  BY DEF Read, Goto, Base, TypeOK, ThreadTypes
<1>2. Ended'
  BY <1>1 DEF Keeping, Ended, Alive
<1>3. Settled'
  <2>1. (Past' <=> Past) /\ (Emptied' <=> Emptied)
    BY <1>1 DEF Past, Emptied, LateLeg, Saving, Threads
  <2>2. /\ pc'["main"] \in Ending \cup {"await"} => pc["main"] \in Ending \cup {"await"}
        /\ pc["main"] \in Saving \cup {"route"} => pc'["main"] \in Saving \cup {"route"}
        /\ pc["main"] \in InTerminal => pc'["main"] \in InTerminal
    BY <1>1 DEF Threads, Ending, Saving, InTerminal
  <2>3. InHand => InHand'
    BY <1>1, <2>2 DEF InHand
  <2> QED
    BY <1>1, <2>1, <2>2, <2>3 DEF Keeping, Settled
<1>4. \A r \in Rounds : \A c : PassOnFile(r, c) => PassOnFile(r, c)'
  <2> SUFFICES ASSUME NEW r \in Rounds, NEW c, PassOnFile(r, c) PROVE PassOnFile(r, c)'
    OBVIOUS
  <2>1. ASSUME tr[t] = r PROVE Of(res'[t], c)
    <3>1. child[tr[t]].cand = c /\ VerdictOf(t) = "pass"
      BY <2>1 DEF PassOnFile, VerdictOf
    <3>2. (VerdictOf(t) = "pass") = TRUE
      BY <3>1
    <3>3. res'[t] = [cand |-> child[tr[t]].cand, promoted |-> TRUE]
      BY <1>1, <3>2, Zenon
    <3> QED
      BY <3>1, <3>3 DEF Of
  <2>2. \A u \in Threads : pc'[u] = "publish" /\ tr'[u] = r => Of(res'[u], c)
    BY <1>1, <2>1 DEF PassOnFile, Of
  <2> QED
    BY <1>1, <2>2 DEF PassOnFile, Of
<1>5. \A c : OnItsWay(c) => OnItsWay(c)'
  <2>1. pc["main"] = "own" => pc'["main"] = "own" /\ res'["main"] = res["main"]
    BY <1>1 DEF Threads
  <2> QED
    BY <1>1, <1>4, <2>1 DEF OnItsWay, Placed, Of
<1>6. Kept'
  BY <1>1, <1>5 DEF Keeping, Kept
<1> QED
  BY <1>2, <1>3, <1>6 DEF Keeping

\* A published verdict is in the mailbox or, for the terminal round, in the hands
\* of the trainer thread; nobody publishes behind its back.
LEMMA KeepingPublish ==
  ASSUME Base, Once, Keeping, NEW t \in Threads, Publish(t)
  PROVE  Keeping'
<1> USE DEF anchorVars, historyVars, At
<1>1. /\ pc[t] = "publish" /\ pc'[t] = (IF t = "poller" THEN "idle" ELSE IF leg = "terminal" THEN "own" ELSE "take")
      /\ \A u \in Threads \ {t} : pc'[u] = pc[u]
      /\ inflight' = NoRound /\ mailbox' = Append(mailbox, res[t]) /\ done' = done \cup {tr[t]}
      /\ UNCHANGED <<child, result, latched, tr, res, leg, todo, applied, owed, late, failed>>
      /\ partial' = [partial EXCEPT ![tr[t]] = "none"]
  BY DEF Publish, AfterRound, Goto, Base, TypeOK, ThreadTypes
<1>2. tr[t] \in Rounds /\ child[tr[t]].state # "none" /\ tr[t] \notin done /\ done \subseteq Rounds
  BY <1>1 DEF Base, Hands, Ending, Once, OneFinaliser, Alone, TypeOK, RoundTypes
<1>3. \A r \in Rounds \ {tr[t]} : partial'[r] = partial[r]
  BY <1>1 DEF Base, TypeOK, RoundTypes
<1>4. Ended'
  BY <1>1 DEF Keeping, Ended, Alive
<1>5. NoRound \notin Rounds
  BY PipelineAssumption DEF NoRound, Rounds
<1>6. t = "poller" /\ ~late => inflight = tr[t]
  <2>1. leg = "terminal" /\ pc["main"] \in InTerminal /\ t = "poller" => tr[t] # tr["main"]
    BY <1>1 DEF Once, Terminal, Ending
  <2> QED
    BY <1>2, <2>1 DEF Keeping, Settled, InHand
<1>7. t = "poller" /\ ~late => ~Past
  BY <1>2, <1>5, <1>6 DEF Keeping, Settled
<1>8. t = "main" => pc'["main"] \in {"own", "take"} /\ (pc'["main"] = "own" <=> leg = "terminal")
  BY <1>1
<1>9. t = "poller" => pc'["main"] = pc["main"]
  BY <1>1 DEF Threads
<1>10. ~late => InHand'
  <2> SUFFICES ASSUME ~late, NEW r \in Rounds \ done', child[r].state # "none"
               PROVE  leg = "terminal" /\ pc'["main"] \in InTerminal /\ r = tr["main"]
    BY <1>1 DEF InHand
  <2>1. r # tr[t] /\ (r = inflight \/ (leg = "terminal" /\ pc["main"] \in InTerminal /\ r = tr["main"]))
    BY <1>1 DEF Keeping, Settled, InHand
  <2>2. CASE t = "poller"
    BY <1>6, <1>9, <2>1, <2>2
  <2>3. CASE t = "main"
    <3>1. inflight = NoRound \/ inflight = tr["main"]
      BY <1>1, <2>3 DEF Keeping, Settled, Past, Ending
    <3> QED
      BY <1>5, <2>1, <2>3, <3>1
  <2> QED
    BY <2>2, <2>3 DEF Threads
<1>11. Settled'
  <2>1. inflight' \notin done'
    BY <1>1, <1>2, <1>5
  <2>2. ~late /\ Emptied' => mailbox' = <<>>
    <3>1. t = "poller" => (Past' <=> Past) /\ (Emptied' <=> Emptied)
      BY <1>1, <1>9, PastSame
    <3>2. Emptied => Past
      BY DEF Emptied, Past
    <3>3. t = "main" => ~Emptied'
      BY <1>1, <1>8 DEF Emptied, LateLeg, Saving
    <3> QED
      BY <1>7, <3>1, <3>2, <3>3 DEF Threads
  <2>3. todo # <<>> => pc'["main"] \in Saving \cup {"route"}
    <3>1. t = "main" => todo = <<>>
      BY <1>1 DEF Keeping, Settled, Saving
    <3> QED
      BY <1>9, <3>1 DEF Keeping, Settled, Threads
  <2> QED
    BY <1>1, <1>10, <2>1, <2>2, <2>3 DEF Settled
<1>12. Kept'
  <2> SUFFICES ASSUME ~late, ~failed, NEW c \in owed, OnItsWay(c)
               PROVE  OnItsWay(c)'
    BY <1>1 DEF Keeping, Kept
  <2>1. mailbox \in Seq(Result) /\ res[t] \in Result
    BY DEF Base, TypeOK, RoundTypes, ThreadTypes
  <2>2. /\ \A i \in DOMAIN mailbox : i \in DOMAIN mailbox' /\ mailbox'[i] = mailbox[i]
        /\ \E i \in DOMAIN mailbox' : mailbox'[i] = res[t]
    BY <1>1, <2>1, Appends
  <2>3. CASE \E i \in DOMAIN applied : applied[i] = c
    BY <1>1, <2>3 DEF OnItsWay, Placed
  <2>4. CASE \E i \in DOMAIN todo : Of(todo[i], c)
    BY <1>1, <2>4 DEF OnItsWay, Placed, Of
  <2>5. CASE leg # "terminal" /\ \E i \in DOMAIN mailbox : Of(mailbox[i], c)
    BY <1>1, <2>2, <2>5 DEF OnItsWay, Placed, Of
  <2>6. CASE pc["main"] = "own" /\ Of(res["main"], c)
    <3>1. pc'["main"] = "own"
      BY <1>1, <2>6 DEF Threads
    <3> QED
      BY <1>1, <2>6, <3>1 DEF OnItsWay, Placed, Of
  <2>7. ASSUME NEW r \in Rounds, PassOnFile(r, c), r = tr[t] PROVE OnItsWay(c)'
    <3>1. Of(res[t], c)
      BY <1>1, <2>7 DEF PassOnFile
    <3>2. CASE leg # "terminal"
      BY <1>1, <2>2, <3>1, <3>2 DEF OnItsWay, Placed, Of
    <3>3. CASE leg = "terminal"
      <4>1. t = "main"
        BY <1>7, <3>3 DEF Past, Threads
      <4> QED
        BY <1>1, <1>8, <3>1, <3>3, <4>1 DEF OnItsWay, Placed, Of
    <3> QED
      BY <3>2, <3>3
  <2>8. ASSUME NEW r \in Rounds, PassOnFile(r, c), r # tr[t] PROVE OnItsWay(c)'
    <3>1. \A u \in Threads : pc'[u] = "publish" => pc[u] = "publish"
      BY <1>1, <1>8 DEF Threads
    <3>2. PassOnFile(r, c)'
      BY <1>1, <1>3, <2>8, <3>1 DEF PassOnFile, Of
    <3> QED
      BY <3>2 DEF OnItsWay, Placed
  <2> QED
    BY <2>3, <2>4, <2>5, <2>6, <2>7, <2>8 DEF OnItsWay, Placed
<1> QED
  BY <1>4, <1>11, <1>12 DEF Keeping

\* A new round is the one in flight, or the terminal one, and carries no verdict.
LEMMA KeepingSpawn ==
  ASSUME Base, Once, Keeping, Kick \/ KickTerminal
  PROVE  Keeping'
<1> USE DEF sharedVars, threadVars, anchorVars, historyVars, At
<1>0. /\ pc \in [Threads -> Labels] /\ tr \in [Threads -> Rounds \cup {NoRound}]
      /\ "main" \in Threads /\ "poller" \in Threads /\ latched \subseteq Rounds
      /\ NoRound \notin Rounds
  BY PipelineAssumption DEF Base, TypeOK, RoundTypes, ThreadTypes, Threads, NoRound, Rounds
<1>1. PICK r \in Rounds : Spawn(r) /\ (Kick => inflight' = r) /\ (KickTerminal => tr' = [tr EXCEPT !["main"] = r])
  BY DEF Kick, KickTerminal
<1>2. /\ child[r].state = "none" /\ result' = result
      /\ \A q \in Rounds \ {r} : child'[q] = child[q] /\ partial'[q] = partial[q]
  BY <1>1, Spawned
<1>3. UNCHANGED <<latched, done, mailbox, res, todo, applied, owed, late, failed>>
  BY DEF Kick, KickTerminal
<1>4. pc["main"] \in {"train", "terminal"} /\ leg # "terminal" /\ todo = <<>>
  <2>1. pc["main"] \in {"train", "terminal"}
    BY DEF Kick, KickTerminal
  <2> QED
    BY <2>1 DEF Once, Terminal, InTerminal, Saving, Keeping, Settled
<1>5. /\ pc'["poller"] = pc["poller"] /\ tr'["poller"] = tr["poller"]
      /\ \/ /\ pc["main"] = "train" /\ pc'["main"] = "train" /\ leg' = leg
            /\ inflight = NoRound /\ inflight' = r
         \/ /\ pc["main"] = "terminal" /\ pc'["main"] = "await" /\ leg' = "terminal"
            /\ tr'["main"] = r /\ inflight' = inflight
  BY <1>0, <1>1 DEF Kick, KickTerminal, Goto
<1>6. r \notin latched /\ r \notin done
  BY <1>2 DEF Base, Hands, Once, OneFinaliser
<1>7. \A t \in Threads : pc'[t] \in {"latch", "publish"} =>
          t = "poller" /\ pc[t] = pc'[t] /\ tr'[t] = tr[t] /\ tr[t] \in Rounds \ {r}
  BY <1>2, <1>5 DEF Base, Hands, Ending, Threads
<1>8. Ended'
  <2>1. \A q \in Rounds \ {r} : Alive(q)' => Alive(q)
    BY <1>2 DEF Alive
  <2>2. \A q \in latched' : ~Alive(q)'
    BY <1>0, <1>3, <1>6, <2>1 DEF Keeping, Ended
  <2>3. pc'["poller"] = "latch" => ~Alive(tr["poller"])'
    BY <1>5, <1>7, <2>1 DEF Keeping, Ended, Threads
  <2>4. pc'["main"] # "latch"
    BY <1>5
  <2> QED
    BY <1>5, <2>2, <2>3, <2>4 DEF Ended, Threads, Alive
<1>9. CASE pc["main"] = "train"
  <2>1. ~Past' /\ ~Emptied'
    BY <1>4, <1>5, <1>9 DEF Past, Emptied, LateLeg, Saving
  <2>2. ~late => InHand'
    BY <1>0, <1>2, <1>3, <1>5, <1>9 DEF Keeping, Settled, InHand, InTerminal
  <2>3. Settled'
    BY <1>3, <1>4, <1>5, <1>6, <1>9, <2>1, <2>2 DEF Settled, Ending
  <2>4. \A c : Placed(c) => Placed(c)'
    BY <1>3, <1>5, <1>9 DEF Placed, Of
  <2>5. \A q \in Rounds : \A c : PassOnFile(q, c) => PassOnFile(q, c)'
    BY <1>2, <1>3, <1>7 DEF PassOnFile, Of
  <2>6. Kept'
    BY <1>3, <2>4, <2>5 DEF Keeping, Kept, OnItsWay
  <2> QED
    BY <1>8, <2>3, <2>6 DEF Keeping
<1>10. CASE pc["main"] = "terminal"
  <2>1. Past /\ Emptied /\ ~Emptied'
    BY <1>4, <1>5, <1>10 DEF Past, Emptied
  <2>2. ~late => inflight = NoRound /\ mailbox = <<>> /\ InHand
    BY <2>1 DEF Keeping, Settled
  <2>3. ~late => InHand'
    BY <1>0, <1>2, <1>3, <1>5, <1>10, <2>2 DEF InHand, InTerminal
  <2>4. Settled'
    BY <1>3, <1>4, <1>5, <1>10, <2>1, <2>2, <2>3 DEF Keeping, Settled
  <2>5. \A c : ~late /\ Placed(c) => Placed(c)'
    BY <1>3, <1>5, <1>10, <2>2 DEF Placed, Of
  <2>6. \A q \in Rounds : \A c : PassOnFile(q, c) => PassOnFile(q, c)'
    BY <1>2, <1>3, <1>7 DEF PassOnFile, Of
  <2>7. Kept'
    BY <1>3, <2>5, <2>6 DEF Keeping, Kept, OnItsWay
  <2> QED
    BY <1>8, <2>4, <2>7 DEF Keeping
<1> QED
  BY <1>4, <1>9, <1>10

\* What a step keeps that moves results in the trainer thread's hands.
LEMMA KeepingHand ==
  ASSUME Base, Once, Keeping,
         UNCHANGED <<child, latched, done, res, tr, inflight, partial, result, owed, late>>,
         failed => failed',
         pc'["poller"] = pc["poller"], pc'["main"] \notin Ending \cup {"await", "own"},
         pc["main"] \notin Ending \cup {"await"},
         ~late /\ Past' => inflight = NoRound,
         ~late /\ Emptied' => mailbox' = <<>>,
         todo' # <<>> => pc'["main"] \in Saving \cup {"route"},
         \A c : ~late /\ ~failed' /\ Placed(c) => Placed(c)'
  PROVE  Keeping'
<1>1. Ended'
  BY DEF Keeping, Ended, Alive, Threads, Ending
<1>2. InHand => InHand'
  BY DEF InHand, InTerminal, Ending
<1>3. Settled'
  BY <1>2 DEF Keeping, Settled
<1>4. \A t \in Threads : pc'[t] = "publish" => pc[t] = "publish"
  BY DEF Threads, Ending
<1>5. \A r \in Rounds : \A c : PassOnFile(r, c) => PassOnFile(r, c)'
  BY <1>4 DEF PassOnFile, Of
<1>6. Kept'
  BY <1>5 DEF Keeping, Kept, OnItsWay
<1> QED
  BY <1>1, <1>3, <1>6 DEF Keeping

\* What is not at the head of a sequence is in its tail.
LEMMA Behead ==
  ASSUME NEW S, NEW q \in Seq(S), q # <<>>, NEW i \in DOMAIN q
  PROVE  q[i] = Head(q) \/ \E j \in DOMAIN Tail(q) : Tail(q)[j] = q[i]
<1>1. /\ Len(q) \in Nat \ {0} /\ Len(Tail(q)) = Len(q) - 1 /\ Tail(q) \in Seq(S) /\ Head(q) = q[1]
      /\ \A j \in 1 .. Len(Tail(q)) : Tail(q)[j] = q[j + 1]
  BY HeadTailProperties, EmptySeq
<1>2. DOMAIN q = 1 .. Len(q) /\ DOMAIN Tail(q) = 1 .. Len(Tail(q))
  BY <1>1, LenProperties
<1>3. CASE i = 1
  BY <1>1, <1>3
<1>4. CASE i # 1
  <2>1. i \in Int /\ 1 < i /\ i <= Len(q)
    BY <1>1, <1>2, <1>4
  <2>2. i - 1 \in DOMAIN Tail(q) /\ (i - 1) + 1 = i
    BY <1>1, <1>2, <2>1
  <2> QED
    BY <1>1, <1>2, <2>2
<1> QED
  BY <1>3, <1>4

LEMMA KeepingTaking ==
  ASSUME Base, Once, Keeping, PollCompleted \/ TakeMailbox \/ TakeOwn
  PROVE  Keeping'
<1> USE DEF sharedVars, anchorVars, historyVars, roundVars, At
<1>0. pc \in [Threads -> Labels] /\ mailbox \in Seq(Result)
  BY DEF Base, TypeOK, RoundTypes, ThreadTypes
<1>1. /\ UNCHANGED <<child, latched, done, res, tr, inflight, partial, result, owed, late, failed, applied>>
      /\ pc["main"] \in {"train", "take", "own"}
      /\ pc'["main"] = "route" /\ pc'["poller"] = pc["poller"]
  BY <1>0 DEF PollCompleted, TakeMailbox, TakeOwn, Goto, Threads
<1>2. todo = <<>>
  BY <1>1 DEF Keeping, Settled, Saving
<1>3. /\ pc'["main"] \notin Ending \cup {"await", "own"} /\ pc["main"] \notin Ending \cup {"await"}
      /\ pc'["main"] \in Saving \cup {"route"}
  BY <1>1 DEF Ending
<1>4. \A c : ~\E i \in DOMAIN todo : Of(todo[i], c)
  BY <1>2
<1>5. CASE PollCompleted
  <2>1. /\ pc["main"] = "train" /\ leg # "terminal" /\ leg' = "run"
        /\ todo' = <<Head(mailbox)>> /\ mailbox' = Tail(mailbox) /\ mailbox # <<>>
    BY <1>5 DEF PollCompleted, Once, Terminal, InTerminal, Saving
  <2>2. ~Past' /\ ~Emptied'
    BY <1>1, <2>1 DEF Past, Emptied, LateLeg
  <2>3. ASSUME NEW c, Placed(c) PROVE Placed(c)'
    <3>1. CASE \E i \in DOMAIN applied : applied[i] = c
      BY <1>1, <3>1 DEF Placed
    <3>2. CASE \E i \in DOMAIN mailbox : Of(mailbox[i], c)
      <4>1. PICK i \in DOMAIN mailbox : Of(mailbox[i], c)
        BY <3>2
      <4>2. CASE mailbox[i] = Head(mailbox)
        <5>1. 1 \in DOMAIN todo' /\ todo'[1] = mailbox[i]
          BY <2>1, <4>2
        <5> QED
          BY <4>1, <5>1 DEF Placed, Of
      <4>3. CASE \E j \in DOMAIN mailbox' : mailbox'[j] = mailbox[i]
        BY <2>1, <4>1, <4>3 DEF Placed, Of
      <4> QED
        BY <1>0, <2>1, <4>2, <4>3, Behead
    <3> QED
      BY <1>4, <2>1, <2>3, <3>1, <3>2 DEF Placed
  <2> QED
    BY <1>1, <1>3, <2>2, <2>3, KeepingHand
<1>6. CASE TakeMailbox
  <2>1. /\ pc["main"] = "take" /\ leg # "terminal" /\ leg' = leg
        /\ todo' = mailbox /\ mailbox' = <<>>
    BY <1>6 DEF TakeMailbox, Once, Terminal, InTerminal, Saving
  <2>2. Past
    BY <2>1 DEF Past
  <2>3. ASSUME NEW c, Placed(c) PROVE Placed(c)'
    BY <1>1, <1>4, <2>1, <2>3 DEF Placed, Of
  <2>4. ~late => inflight = NoRound
    BY <2>2 DEF Keeping, Settled
  <2> QED
    BY <1>1, <1>3, <2>1, <2>3, <2>4, KeepingHand
<1>7. CASE TakeOwn
  <2>1. /\ pc["main"] = "own" /\ leg = "terminal" /\ leg' = leg
        /\ todo' = <<res["main"]>> /\ mailbox' = mailbox
    BY <1>7 DEF TakeOwn, Once, Own
  <2>2. Past /\ ~Emptied'
    BY <2>1 DEF Past, Emptied
  <2>3. 1 \in DOMAIN todo' /\ todo'[1] = res["main"]
    BY <2>1
  <2>4. ASSUME NEW c, Placed(c) PROVE Placed(c)'
    BY <1>1, <1>4, <2>1, <2>3, <2>4 DEF Placed, Of
  <2>5. ~late => inflight = NoRound
    BY <2>2 DEF Keeping, Settled
  <2> QED
    BY <1>1, <1>3, <2>2, <2>4, <2>5, KeepingHand
<1> QED
  BY <1>5, <1>6, <1>7

\* Only results that did not pass are dropped on the route.
LEMMA KeepingRoute ==
  ASSUME Base, Once, Keeping, Route
  PROVE  Keeping'
<1> USE DEF sharedVars, anchorVars, roundVars, At
<1>0. pc \in [Threads -> Labels] /\ todo \in Seq(Result)
  BY DEF Base, TypeOK, ThreadTypes
<1>1. /\ UNCHANGED <<child, latched, done, res, tr, inflight, partial, result, owed, late, failed, applied,
                     mailbox, leg>>
      /\ pc["main"] = "route" /\ pc'["poller"] = pc["poller"]
      /\ \/ todo = <<>> /\ todo' = todo /\ pc'["main"] = NextLabel
         \/ todo # <<>> /\ Head(todo).promoted /\ todo' = todo /\ pc'["main"] = "write"
         \/ todo # <<>> /\ ~Head(todo).promoted /\ todo' = Tail(todo) /\ pc'["main"] = "route"
  BY <1>0 DEF Route, Goto, Threads, NextLabel, Labels
<1>2. /\ NextLabel \in {"train", "save", "terminal", "stop"}
      /\ NextLabel = "train" <=> leg = "run"
  BY DEF NextLabel, Base, TypeOK, ThreadTypes
<1>3. /\ pc'["main"] \notin Ending \cup {"await", "own"} /\ pc["main"] \notin Ending \cup {"await"}
      /\ todo' # <<>> => pc'["main"] \in Saving \cup {"route"}
  BY <1>1, <1>2 DEF Ending, Saving
<1>4. (Past' => Past) /\ (Emptied' => Emptied)
  BY <1>1, <1>2 DEF Past, Emptied, LateLeg, Saving
<1>5. ASSUME NEW c, Placed(c) PROVE Placed(c)'
  <2>1. CASE todo' = todo
    BY <1>1, <1>5, <2>1 DEF Placed, Of
  <2>2. CASE todo # <<>> /\ ~Head(todo).promoted /\ todo' = Tail(todo)
    <3>1. \A i \in DOMAIN todo : Of(todo[i], c) => \E j \in DOMAIN todo' : Of(todo'[j], c)
      BY <1>0, <2>2, Behead DEF Of
    <3> QED
      BY <1>1, <1>5, <3>1 DEF Placed, Of
  <2> QED
    BY <1>1, <2>1, <2>2
<1>6. /\ ~late /\ Past' => inflight = NoRound
      /\ ~late /\ Emptied' => mailbox' = <<>>
  BY <1>1, <1>4 DEF Keeping, Settled
<1> QED
  BY <1>1, <1>3, <1>5, <1>6, KeepingHand

\* A promotion that is saved is applied; one whose save raises is excused.
LEMMA KeepingSaving ==
  ASSUME Base, Once, Keeping, RenameAnchor \/ SaveFails
  PROVE  Keeping'
<1> USE DEF sharedVars, roundVars, At
<1>0. pc \in [Threads -> Labels] /\ todo \in Seq(Result) /\ applied \in Seq(Nat)
  BY DEF Base, TypeOK, ThreadTypes, AnchorTypes
<1>1. /\ UNCHANGED <<child, latched, done, res, tr, inflight, partial, result, owed, late, mailbox>>
      /\ pc["main"] \in Saving /\ pc'["poller"] = pc["poller"] /\ todo # <<>>
      /\ pc["main"] \notin Ending \cup {"await"}
  BY <1>0 DEF RenameAnchor, SaveFails, Goto, Threads, Saving, Base, Hands, Ending
<1>2. CASE RenameAnchor
  <2>1. /\ pc'["main"] = "route" /\ leg' = leg /\ failed' = failed
        /\ todo' = Tail(todo) /\ applied' = Append(applied, Head(todo).cand)
    BY <1>0, <1>2 DEF RenameAnchor, Goto, Threads
  <2>2. (Past' => Past) /\ (Emptied' => Emptied)
    BY <1>1, <2>1 DEF Past, Emptied, LateLeg
  <2>3. Head(todo).cand \in Nat
    <3>1. Head(todo) \in Result
      BY <1>0, <1>1, HeadTailProperties
    <3> QED
      BY <3>1 DEF Result
  <2>4. /\ \A i \in DOMAIN applied : i \in DOMAIN applied' /\ applied'[i] = applied[i]
        /\ \E i \in DOMAIN applied' : applied'[i] = Head(todo).cand
    BY <1>0, <2>1, <2>3, Appends
  <2>5. ASSUME NEW c, Placed(c) PROVE Placed(c)'
    <3>1. CASE \E i \in DOMAIN applied : applied[i] = c
      BY <2>4, <3>1 DEF Placed
    <3>2. CASE \E i \in DOMAIN todo : Of(todo[i], c)
      <4>1. PICK i \in DOMAIN todo : Of(todo[i], c)
        BY <3>2
      <4>2. CASE todo[i] = Head(todo)
        BY <2>4, <4>1, <4>2 DEF Placed, Of
      <4>3. CASE \E j \in DOMAIN todo' : todo'[j] = todo[i]
        BY <4>1, <4>3 DEF Placed, Of
      <4> QED
        BY <1>0, <1>1, <2>1, <4>2, <4>3, Behead
    <3>3. CASE leg # "terminal" /\ \E i \in DOMAIN mailbox : Of(mailbox[i], c)
      BY <1>1, <2>1, <3>3 DEF Placed, Of
    <3> QED
      BY <1>1, <2>5, <3>1, <3>2, <3>3 DEF Placed, Saving
  <2>6. /\ ~late /\ Past' => inflight = NoRound
        /\ ~late /\ Emptied' => mailbox' = <<>>
    BY <1>1, <2>2 DEF Keeping, Settled
  <2>7. pc'["main"] \notin Ending \cup {"await", "own"}
    BY <2>1 DEF Ending
  <2> QED
    BY <1>1, <2>1, <2>5, <2>6, <2>7, KeepingHand
<1>3. CASE SaveFails
  <2>1. /\ failed' /\ todo' = <<>>
        /\ \/ leg \in {"run", "settle"} /\ leg' = "close" /\ pc'["main"] = "capture"
           \/ leg \notin {"run", "settle"} /\ leg' = leg /\ pc'["main"] = "stop"
    BY <1>0, <1>3 DEF SaveFails, Goto, Threads
  <2>2. (Past' => Past) /\ (Emptied' => Emptied)
    BY <1>1, <2>1 DEF Past, Emptied, LateLeg, Saving
  <2>3. /\ ~late /\ Past' => inflight = NoRound
        /\ ~late /\ Emptied' => mailbox' = <<>>
    BY <1>1, <2>2 DEF Keeping, Settled
  <2>4. pc'["main"] \notin Ending \cup {"await", "own"}
    BY <2>1 DEF Ending
  <2> QED
    BY <1>1, <2>1, <2>3, <2>4, KeepingHand
<1> QED
  BY <1>2, <1>3

\* A process that dies owes nothing; the next one starts with nothing in hand.
LEMMA KeepingProcess ==
  ASSUME Base, Once, Keeping, Die \/ Launch
  PROVE  Keeping'
<1> USE DEF sharedVars, At
<1>1. CASE Die
  <2>1. /\ pc' = [t \in Threads |-> "down"] /\ child' = [r \in Rounds |-> NoChild]
        /\ inflight' = NoRound /\ latched' = {} /\ done' = {} /\ mailbox' = <<>>
        /\ leg' = "run" /\ todo' = <<>> /\ owed' = {}
    BY <1>1 DEF Die
  <2>2. pc'["main"] = "down" /\ \A t \in Threads : pc'[t] = "down"
    BY <2>1 DEF Threads
  <2>3. Ended'
    BY <2>1, <2>2 DEF Ended
  <2>4. ~Past' /\ ~Emptied' /\ InHand'
    BY <2>1, <2>2 DEF Past, Emptied, LateLeg, Saving, InHand, NoChild
  <2>5. Settled'
    BY <2>1, <2>2, <2>4 DEF Settled, Ending
  <2>6. Kept'
    BY <2>1 DEF Kept
  <2> QED
    BY <2>3, <2>5, <2>6 DEF Keeping
<1>2. CASE Launch
  <2>1. /\ pc["main"] = "down" /\ pc'["main"] = "train" /\ pc'["poller"] = "idle"
        /\ UNCHANGED <<child, result, inflight, latched, done, mailbox, tr, res, leg, todo, owed, late, failed>>
        /\ applied' \in {applied, Append(applied, 0)}
    BY <1>2 DEF Launch
  <2>2. leg # "terminal" /\ todo = <<>> /\ \A r \in Rounds : child[r].state = "none"
    BY <2>1 DEF Once, Terminal, InTerminal, Saving, Keeping, Settled, Base, Hands
  <2>3. Ended'
    BY <2>1 DEF Keeping, Ended, Alive, Threads
  <2>4. ~Past' /\ ~Emptied' /\ InHand'
    BY <2>1, <2>2 DEF Past, Emptied, LateLeg, Saving, InHand
  <2>5. Settled'
    BY <2>1, <2>2, <2>4 DEF Keeping, Settled, Ending
  <2>6. \A i \in DOMAIN applied : i \in DOMAIN applied' /\ applied'[i] = applied[i]
    <3>1. applied \in Seq(Nat) /\ 0 \in Nat
      BY DEF Base, TypeOK, AnchorTypes
    <3> QED
      BY <2>1, <3>1, Appends
  <2>7. \A c : Placed(c) => Placed(c)'
    BY <2>1, <2>6 DEF Placed, Of
  <2>8. \A r \in Rounds : \A c : ~PassOnFile(r, c)
    BY <2>2 DEF PassOnFile
  <2>9. Kept'
    BY <2>1, <2>7, <2>8 DEF Keeping, Kept, OnItsWay
  <2> QED
    BY <2>3, <2>5, <2>9 DEF Keeping
<1> QED
  BY <1>1, <1>2

LEMMA KeepingStep == Base /\ Once /\ Keeping /\ [Next]_vars => Keeping'
<1> SUFFICES ASSUME Base, Once, Keeping, [Next]_vars PROVE Keeping'
  OBVIOUS
<1>1. CASE UNCHANGED vars
  BY <1>1 DEF vars, roundVars, sharedVars, threadVars, anchorVars, historyVars, Keeping, Ended, Alive, Settled,
     InHand, Past, Emptied, LateLeg, Kept, OnItsWay, Placed, PassOnFile, Of
<1>2. CASE Next
  BY <1>2, KeepingExit, KeepingChild, KeepingKill, KeepingLatch, KeepingWait, KeepingRead, KeepingPublish,
     KeepingPoller, KeepingTurning, KeepingStopEnds, KeepingSpawn, KeepingTaking, KeepingRoute, KeepingSaving,
     KeepingProcess
  DEF Next, Finalise
<1> QED
  BY <1>1, <1>2

\* Once the process has ended by itself nothing is on its way any more, so every
\* verdict its children persisted has been applied (_finalize_round,
\* _read_partial_gate, drain_pending and run_terminal).
THEOREM VerdictAlwaysKept == Spec => []VerdictKept
<1>1. Init => Base /\ Once /\ Keeping
  <2>1. Init => Keeping
    <3> SUFFICES ASSUME Init PROVE Keeping
      OBVIOUS
    <3>1. pc["main"] = "down" /\ \A t \in Threads : pc[t] = "down"
      BY DEF Init, Threads
    <3>2. Ended /\ Kept
      BY <3>1 DEF Init, Ended, Kept
    <3>3. Settled
      BY <3>1 DEF Init, Settled, InHand, Past, Emptied, LateLeg, Saving, Ending, NoChild
    <3> QED
      BY <3>2, <3>3 DEF Keeping
  <2> QED
    BY <2>1, InitBase, InitOnce
<1>2. Base /\ Once /\ Keeping /\ [Next]_vars => (Base /\ Once /\ Keeping)'
  BY BaseStep, OnceStep, KeepingStep
<1>3. Base /\ Once /\ Keeping => VerdictKept
  <2> SUFFICES ASSUME Base, Keeping, pc["main"] = "exited", ~late, ~failed, NEW c \in owed
               PROVE  \E i \in DOMAIN applied : applied[i] = c
    BY DEF VerdictKept, At
  <2>1. inflight = NoRound /\ InHand /\ (leg # "terminal" => mailbox = <<>>) /\ todo = <<>>
    BY DEF Keeping, Settled, Past, Emptied, Saving
  <2>2. OnItsWay(c)
    BY DEF Keeping, Kept
  <2>3. \A r \in Rounds : ~PassOnFile(r, c)
    <3>1. NoRound \notin Rounds
      BY PipelineAssumption DEF NoRound, Rounds
    <3> QED
      BY <2>1, <3>1 DEF PassOnFile, InHand, InTerminal
  <2> QED
    BY <2>1, <2>2, <2>3 DEF OnItsWay, Placed
<1> QED
  BY <1>1, <1>2, <1>3, PTL DEF Spec

=============================================================================
