----------------------------- MODULE ServingProofs -----------------------------
(***************************************************************************)
(* Theorems about the two components that serve evaluations: the server's  *)
(* pipeline (InferenceServer), for every number of pops, parts per pop,    *)
(* slots and queued checks, and the cache the workers ask first            *)
(* (EvalCache), for any workers, keys, sizes and budgets.                  *)
(***************************************************************************)
EXTENDS InferenceServer, EvalCache, FiniteSetTheorems, SequenceTheorems, NaturalsInduction,
        WellFoundedInduction, TLAPS

-----------------------------------------------------------------------------
(* Queues that may hold an End                                             *)

Entries(q) == {i \in 1..Len(q) : q[i] # End}

LEMMA EntriesFinite ==
  ASSUME NEW S, NEW q \in Seq(S)
  PROVE  IsFiniteSet(Entries(q)) /\ Cardinality(Entries(q)) \in Nat
<1>1. IsFiniteSet(1..Len(q))
  BY LenProperties, FS_Interval
<1> QED
  BY <1>1, FS_Subset, FS_CardinalityType DEF Entries

LEMMA EntriesAppend ==
  ASSUME NEW S, NEW q \in Seq(S), NEW e \in S
  PROVE  Cardinality(Entries(Append(q, e))) =
             Cardinality(Entries(q)) + (IF e = End THEN 0 ELSE 1)
<1>1. CASE e = End
  <2>1. Entries(Append(q, e)) = Entries(q)
    BY <1>1, AppendProperties, LenProperties DEF Entries
  <2> QED
    BY <1>1, <2>1, EntriesFinite
<1>2. CASE e # End
  <2>1. Entries(Append(q, e)) = Entries(q) \cup {Len(q) + 1}
    BY <1>2, AppendProperties, LenProperties DEF Entries
  <2>2. Len(q) + 1 \notin Entries(q)
    BY LenProperties DEF Entries
  <2> QED
    BY <1>2, <2>1, <2>2, EntriesFinite, FS_AddElement
<1> QED
  BY <1>1, <1>2

LEMMA EntriesTail ==
  ASSUME NEW S, NEW q \in Seq(S), q # <<>>
  PROVE  Cardinality(Entries(Tail(q))) =
             Cardinality(Entries(q)) - (IF Head(q) = End THEN 0 ELSE 1)
<1> DEFINE T == Entries(Tail(q))
           later == Entries(q) \ {1}
           shift == [i \in T |-> i + 1]
<1>1. /\ Len(q) \in Nat \ {0} /\ Len(Tail(q)) = Len(q) - 1 /\ Head(q) = q[1]
      /\ \A i \in 1..Len(Tail(q)) : Tail(q)[i] = q[i + 1]
  BY HeadTailProperties, EmptySeq
<1>2. IsFiniteSet(T)
  BY HeadTailProperties, EntriesFinite
<1>3. shift \in Bijection(T, later)
  <2>1. \A i \in T : i + 1 \in later
    BY <1>1 DEF Entries
  <2>2. \A j \in later : j - 1 \in T /\ (j - 1) + 1 = j
    BY <1>1 DEF Entries
  <2>3. \A i, j \in T : i + 1 = j + 1 => i = j
    BY <1>1 DEF Entries
  <2>4. shift \in [T -> later]
    BY <2>1
  <2>5. \A j \in later : \E i \in T : shift[i] = j
    BY <2>2
  <2> QED
    BY <2>3, <2>4, <2>5 DEF Bijection, Injection, Surjection, IsInjective
<1>4. Cardinality(later) = Cardinality(T)
  BY <1>2, <1>3, FS_Bijection DEF ExistsBijection
<1>5. 1 \in Entries(q) <=> Head(q) # End
  BY <1>1 DEF Entries
<1>6. IsFiniteSet(Entries(q)) /\ Cardinality(Entries(q)) \in Nat
  BY EntriesFinite
<1>7. Cardinality(later) =
          IF 1 \in Entries(q) THEN Cardinality(Entries(q)) - 1 ELSE Cardinality(Entries(q))
  BY <1>6, FS_RemoveElement
<1> QED
  BY <1>4, <1>5, <1>6, <1>7

LEMMA Members ==
  ASSUME NEW S, NEW q \in Seq(S), q # <<>>
  PROVE  /\ Head(q) = q[1] /\ 1 \in 1..Len(q) /\ Head(q) \in S /\ Tail(q) \in Seq(S)
         /\ Len(Tail(q)) = Len(q) - 1 /\ Len(q) \in Nat
         /\ \A i \in 1..Len(Tail(q)) : Tail(q)[i] = q[i + 1] /\ i + 1 \in 1..Len(q)
         /\ \A i \in 2..Len(q) : Tail(q)[i - 1] = q[i] /\ i - 1 \in 1..Len(Tail(q))
<1>1. /\ Len(q) \in Nat \ {0} /\ Len(Tail(q)) = Len(q) - 1 /\ Head(q) = q[1]
      /\ \A i \in 1..Len(Tail(q)) : Tail(q)[i] = q[i + 1]
      /\ Head(q) \in S /\ Tail(q) \in Seq(S)
  BY HeadTailProperties, EmptySeq
<1>2. \A i \in 2..Len(q) : i - 1 \in 1..Len(Tail(q)) /\ (i - 1) + 1 = i
  BY <1>1
<1> QED
  BY <1>1, <1>2

-----------------------------------------------------------------------------
(* Types and slots                                                         *)

\* Who works on a pop has one, and only a retirer handing over has checks left.
PopHeld ==
    /\ retirer \in {"synced", "submit", "checks"} => rpop \in Pops
    /\ loop \in {"slot", "launch", "launching"} => popped \in Pops
    /\ retirer # "checks" => rchecks = <<>>

\* The slots bound themselves: their type needs that they add up.
SlotInv == TypeOK /\ PopHeld /\ SlotsAccounted

LEMMA RetireQueueCount ==
  /\ TypeOK => Cardinality(InRetireQ) \in Nat
  /\ UNCHANGED retireQ => Cardinality(InRetireQ)' = Cardinality(InRetireQ)
  /\ TypeOK => \A e \in Pops \union {End} : retireQ' = Append(retireQ, e) =>
         Cardinality(InRetireQ)' = Cardinality(InRetireQ) + (IF e = End THEN 0 ELSE 1)
  /\ TypeOK /\ retireQ # <<>> /\ retireQ' = Tail(retireQ) =>
         Cardinality(InRetireQ)' =
             Cardinality(InRetireQ) - (IF Head(retireQ) = End THEN 0 ELSE 1)
<1>1. InRetireQ = Entries(retireQ) /\ InRetireQ' = Entries(retireQ')
  BY DEF InRetireQ, Entries
<1>2. TypeOK => retireQ \in Seq(Pops \union {End})
  BY DEF TypeOK
<1>3. TypeOK => \A e \in Pops \union {End} :
          Cardinality(Entries(Append(retireQ, e))) =
              Cardinality(Entries(retireQ)) + (IF e = End THEN 0 ELSE 1)
  BY <1>2, EntriesAppend
<1>4. TypeOK /\ retireQ # <<>> => Cardinality(Entries(Tail(retireQ))) =
          Cardinality(Entries(retireQ)) - (IF Head(retireQ) = End THEN 0 ELSE 1)
  BY <1>2, EntriesTail
<1>5. TypeOK => Cardinality(Entries(retireQ)) \in Nat
  BY <1>2, EntriesFinite
<1> QED
  BY <1>1, <1>3, <1>4, <1>5

LEMMA SlotInit == Init => SlotInv
<1> SUFFICES ASSUME Init PROVE SlotInv
  OBVIOUS
<1>1. TypeOK
  <2>1. /\ retireQ \in Seq(Pops \union {End}) /\ rchecks \in Seq(Check)
        /\ checkQ \in Seq(Check \union {End}) /\ Len(checkQ) <= CheckDepth
    BY ServerAssumption DEF Init
  <2>2. popped \in 0..MaxPops /\ slots \in 0..PipelineDepth /\ rpop \in 0..MaxPops
    BY ServerAssumption DEF Init
  <2>3. answer \in [Pops -> {"none", "ok", "err"}] /\ checker \in Check \union {Idle, End}
        /\ ran \subseteq Check /\ late \subseteq Pops
    BY DEF Init
  <2> QED
    BY <2>1, <2>2, <2>3 DEF Init, TypeOK
<1>2. Entries(retireQ) = {}
  BY EmptySeq DEF Init, Entries
<1>3. SlotsAccounted
  <2>1. Cardinality(InRetireQ) = 0
    BY <1>2, FS_EmptySet DEF InRetireQ, Entries
  <2> QED
    BY <2>1, ServerAssumption DEF Init, SlotsAccounted, Retiring, Launching
<1> QED
  BY <1>1, <1>3 DEF SlotInv, PopHeld, Init


\* The values a failed pop, a finished check and a submit leave.
LEMMA Outcomes ==
  ASSUME TypeOK
  PROVE  /\ \A k \in Pops : FailPop(k) => answer' \in [Pops -> {"none", "ok", "err"}]
         /\ \A c \in Check : RunCheck(c) => ran' \subseteq Check /\ failure' \in BOOLEAN
         /\ rpop \in Pops => [i \in 1..PartsPerPop |-> <<rpop, i>>] \in Seq(Check)
<1>1. \A k \in Pops : FailPop(k) => answer' \in [Pops -> {"none", "ok", "err"}]
  BY DEF TypeOK, FailPop
<1>2. \A c \in Check : RunCheck(c) => ran' \subseteq Check /\ failure' \in BOOLEAN
  BY DEF TypeOK, RunCheck
<1>3. ASSUME rpop \in Pops PROVE [i \in 1..PartsPerPop |-> <<rpop, i>>] \in Seq(Check)
  <2>1. [i \in 1..PartsPerPop |-> <<rpop, i>>] \in [1..PartsPerPop -> Check]
    BY <1>3 DEF Check
  <2> QED
    BY <2>1, ServerAssumption, SeqDef
<1> QED
  BY <1>1, <1>2, <1>3

LEMMA SlotNumbers ==
  ASSUME SlotInv
  PROVE  /\ slots \in 0..PipelineDepth /\ PipelineDepth \in Nat
         /\ Cardinality(InRetireQ) \in Nat /\ Launching \in {0, 1} /\ Retiring \in {0, 1}
         /\ slots + Cardinality(InRetireQ) + Launching + Retiring = PipelineDepth
<1>1. Cardinality(InRetireQ) \in Nat
  BY RetireQueueCount DEF SlotInv
<1> QED
  BY <1>1, ServerAssumption DEF SlotInv, SlotsAccounted, TypeOK, Launching, Retiring

LEMMA SlotRoom ==
  ASSUME SlotInv, Launching = 1 \/ Retiring = 1
  PROVE  slots + 1 \in 0..PipelineDepth
  BY SlotNumbers

LEMMA SlotLoop ==
  ASSUME SlotInv, LoopStep
  PROVE  SlotInv'
<1> USE DEF SlotInv, PopHeld, retireVars, checkVars
<1>1. CASE NextBatch \/ PassLatch \/ CloseBatcher
  <2>1. popped' \in 0..MaxPops /\ (loop' = "slot" => popped' \in Pops)
    BY <1>1, ServerAssumption DEF NextBatch, PassLatch, CloseBatcher, Pops, TypeOK
  <2>2. TypeOK' /\ PopHeld'
    BY <1>1, <2>1 DEF NextBatch, PassLatch, CloseBatcher, TypeOK
  <2>3. SlotsAccounted'
    BY <1>1, RetireQueueCount
       DEF NextBatch, PassLatch, CloseBatcher, SlotsAccounted, Launching, Retiring, TypeOK
  <2> QED
    BY <2>2, <2>3
<1>2. CASE AcquireSlot
  <2>1. TypeOK' /\ PopHeld'
    BY <1>2, ServerAssumption DEF AcquireSlot, TypeOK
  <2>2. SlotsAccounted'
    BY <1>2, RetireQueueCount, SlotNumbers DEF AcquireSlot, SlotsAccounted, Launching, Retiring
  <2> QED
    BY <2>1, <2>2
<1>3. CASE RefuseLaunch
  <2>0. Launching = 1 /\ Launching' = 0 /\ Retiring' = Retiring /\ Retiring \in Nat
        /\ Cardinality(InRetireQ)' = Cardinality(InRetireQ) /\ slots' = slots + 1
    BY <1>3, RetireQueueCount DEF RefuseLaunch, Launching, Retiring
  <2>1. popped \in Pops /\ slots' \in 0..PipelineDepth
    BY <1>3, <2>0, SlotRoom DEF RefuseLaunch
  <2>2. TypeOK' /\ PopHeld'
    BY <1>3, <2>1, Outcomes DEF RefuseLaunch, TypeOK
  <2>3. SlotsAccounted'
    BY <2>0, SlotNumbers DEF SlotsAccounted
  <2> QED
    BY <2>2, <2>3
<1>4. CASE Launch /\ retireQ' = Append(retireQ, popped)
  <2>1. popped \in Pops /\ popped # End /\ UNCHANGED <<slots, answer>>
    BY <1>4, SentinelAssumption, ServerAssumption DEF Launch, Pops, TypeOK
  <2>2. TypeOK' /\ PopHeld'
    BY <1>4, <2>1, AppendProperties DEF Launch, TypeOK
  <2>3. Launching = 1 /\ Launching' = 0 /\ Retiring' = Retiring /\ slots' = slots
        /\ Cardinality(InRetireQ)' = Cardinality(InRetireQ) + 1
    BY <1>4, <2>1, RetireQueueCount DEF Launch, Launching, Retiring
  <2>4. SlotsAccounted'
    BY <2>3, SlotNumbers DEF SlotsAccounted
  <2> QED
    BY <2>2, <2>4
<1>5. CASE Launch /\ retireQ' = retireQ
  <2>4. /\ UNCHANGED <<retireQ, retirer>> /\ loop = "launching" /\ loop' = "top"
        /\ slots' = slots + 1 /\ FailPop(popped)
    <3>1. CASE retireQ' = Append(retireQ, popped)
      BY <1>5, <3>1, AppendProperties, LenProperties DEF Launch, TypeOK
    <3> QED
      BY <1>5, <3>1 DEF Launch
  <2>0. Launching = 1 /\ Launching' = 0 /\ Retiring' = Retiring
        /\ Cardinality(InRetireQ)' = Cardinality(InRetireQ) /\ slots' = slots + 1
    BY <2>4, RetireQueueCount DEF Launching, Retiring
  <2>1. popped \in Pops /\ slots' \in 0..PipelineDepth
    BY <2>4, <2>0, SlotRoom
  <2>2. TypeOK' /\ PopHeld'
    BY <1>5, <2>4, <2>1, Outcomes DEF Launch, TypeOK
  <2>3. SlotsAccounted'
    BY <2>0, SlotNumbers DEF SlotsAccounted
  <2> QED
    BY <2>2, <2>3
<1>6. CASE LeaveLoop
  <2>1. TypeOK' /\ PopHeld'
    BY <1>6, AppendProperties DEF LeaveLoop, TypeOK
  <2>2. SlotsAccounted'
    BY <1>6, RetireQueueCount DEF LeaveLoop, SlotsAccounted, Launching, Retiring, TypeOK
  <2> QED
    BY <2>1, <2>2
<1> QED
  BY <1>1, <1>2, <1>3, <1>4, <1>5, <1>6 DEF LoopStep, Launch

LEMMA SlotRetirer ==
  ASSUME SlotInv, RetirerStep
  PROVE  SlotInv'
<1> USE DEF SlotInv, PopHeld, loopVars, checkVars
<1>1. CASE Retire
  <2>1. /\ Head(retireQ) \in Pops \union {End} /\ Tail(retireQ) \in Seq(Pops \union {End})
        /\ retireQ' = Tail(retireQ) /\ retireQ # <<>>
    BY <1>1, Members DEF Retire, TypeOK
  <2>2. TypeOK' /\ PopHeld'
    BY <1>1, <2>1, ServerAssumption DEF Retire, TypeOK, Pops
  <2>3. SlotsAccounted'
    BY <1>1, <2>1, RetireQueueCount DEF Retire, SlotsAccounted, Launching, Retiring, TypeOK
  <2> QED
    BY <2>2, <2>3
<1>2. CASE RetireGate \/ SubmitResults
  <2>1. TypeOK' /\ PopHeld'
    BY <1>2, Outcomes DEF RetireGate, SubmitResults, TypeOK
  <2>2. SlotsAccounted'
    BY <1>2, RetireQueueCount DEF RetireGate, SubmitResults, SlotsAccounted, Launching, Retiring, TypeOK
  <2> QED
    BY <2>1, <2>2
<1>3. CASE RetireFails \/ ReleaseSlot
  <2>0. Retiring = 1 /\ Retiring' = 0 /\ Launching' = Launching
        /\ Cardinality(InRetireQ)' = Cardinality(InRetireQ) /\ slots' = slots + 1
    BY <1>3, RetireQueueCount DEF RetireFails, ReleaseSlot, Launching, Retiring
  <2>1. retirer' = "idle" /\ slots' = slots + 1 /\ slots' \in 0..PipelineDepth
    BY <1>3, <2>0, SlotRoom DEF RetireFails, ReleaseSlot
  <2>2. TypeOK' /\ PopHeld'
    BY <1>3, <2>1, Outcomes DEF RetireFails, ReleaseSlot, TypeOK
  <2>3. SlotsAccounted'
    BY <2>0, SlotNumbers DEF SlotsAccounted
  <2> QED
    BY <2>2, <2>3
<1>4. CASE HandOverCheck
  <2>1. Head(rchecks) \in Check /\ Tail(rchecks) \in Seq(Check)
    BY <1>4, Members DEF HandOverCheck, TypeOK
  <2>2. /\ checkQ' \in Seq(Check \union {End}) /\ Len(checkQ') <= CheckDepth
        /\ ran' \subseteq Check /\ failure' \in BOOLEAN
    <3>1. CASE Len(checkQ) < CheckDepth
      <4>1. checkQ' = Append(checkQ, Head(rchecks)) /\ UNCHANGED <<ran, failure>>
        BY <1>4, <3>1 DEF HandOverCheck
      <4>2. checkQ \in Seq(Check \union {End}) /\ Len(checkQ) \in Nat
        BY LenProperties DEF TypeOK
      <4>3. checkQ' \in Seq(Check \union {End}) /\ Len(checkQ') = Len(checkQ) + 1
        BY <2>1, <4>1, <4>2, AppendProperties
      <4> QED
        BY <3>1, <4>1, <4>2, <4>3, ServerAssumption DEF TypeOK
    <3>2. CASE ~(Len(checkQ) < CheckDepth)
      BY <1>4, <2>1, <3>2, Outcomes DEF HandOverCheck, TypeOK
    <3> QED
      BY <3>1, <3>2
  <2>3. TypeOK' /\ PopHeld'
    BY <1>4, <2>1, <2>2 DEF HandOverCheck, TypeOK
  <2>4. SlotsAccounted'
    BY <1>4, RetireQueueCount DEF HandOverCheck, SlotsAccounted, Launching, Retiring, TypeOK
  <2> QED
    BY <2>3, <2>4
<1> QED
  BY <1>1, <1>2, <1>3, <1>4 DEF RetirerStep

LEMMA SlotOthers ==
  ASSUME SlotInv, CheckerStep \/ StopStep
  PROVE  SlotInv'
<1> USE DEF SlotInv, PopHeld, loopVars, retireVars, checkVars
<1>1. CASE TakeCheck
  <2>1. /\ Head(checkQ) \in Check \union {End} /\ Tail(checkQ) \in Seq(Check \union {End})
        /\ Len(Tail(checkQ)) <= CheckDepth
    BY <1>1, Members, ServerAssumption DEF TakeCheck, TypeOK
  <2>2. TypeOK' /\ PopHeld'
    BY <1>1, <2>1 DEF TakeCheck, TypeOK
  <2> QED
    BY <1>1, <2>2, RetireQueueCount DEF TakeCheck, SlotsAccounted, Launching, Retiring, TypeOK
<1>2. CASE FinishCheck
  <2>1. checker \in Check /\ RunCheck(checker)
    BY <1>2 DEF FinishCheck, TypeOK
  <2>2. TypeOK' /\ PopHeld'
    BY <1>2, <2>1, Outcomes DEF FinishCheck, TypeOK
  <2> QED
    BY <1>2, <2>2, RetireQueueCount DEF FinishCheck, SlotsAccounted, Launching, Retiring, TypeOK
<1>3. CASE StopSet \/ StopClose \/ StopDrained
  <2>1. TypeOK' /\ PopHeld'
    BY <1>3 DEF StopSet, StopClose, StopDrained, TypeOK
  <2> QED
    BY <1>3, <2>1, RetireQueueCount
       DEF StopSet, StopClose, StopDrained, SlotsAccounted, Launching, Retiring, TypeOK
<1>4. CASE StopRetirer
  <2>1. TypeOK' /\ PopHeld'
    BY <1>4, AppendProperties DEF StopRetirer, TypeOK
  <2>2. Cardinality(InRetireQ)' = Cardinality(InRetireQ)
    <3>1. CASE loop = "done"
      <4>1. Cardinality(InRetireQ)' = Cardinality(InRetireQ) + 0
        BY <1>4, <3>1, RetireQueueCount DEF StopRetirer
      <4> QED
        BY <4>1, SlotNumbers
    <3>2. CASE loop # "done"
      BY <1>4, <3>2, RetireQueueCount DEF StopRetirer
    <3> QED
      BY <3>1, <3>2
  <2>3. SlotsAccounted'
    BY <1>4, <2>2 DEF StopRetirer, SlotsAccounted, Launching, Retiring
  <2> QED
    BY <2>1, <2>3
<1>5. CASE StopDrainOne
  <2>1. /\ Head(checkQ) \in Check \union {End} /\ Tail(checkQ) \in Seq(Check \union {End})
        /\ Len(Tail(checkQ)) <= CheckDepth
    BY <1>5, Members, ServerAssumption DEF StopDrainOne, TypeOK
  <2>2. ran' \subseteq Check /\ failure' \in BOOLEAN
    BY <1>5, <2>1, Outcomes DEF StopDrainOne, TypeOK
  <2>3. TypeOK' /\ PopHeld'
    BY <1>5, <2>1, <2>2 DEF StopDrainOne, TypeOK
  <2> QED
    BY <1>5, <2>3, RetireQueueCount DEF StopDrainOne, SlotsAccounted, Launching, Retiring, TypeOK
<1>6. CASE StopPut
  <2>1. checkQ' \in Seq(Check \union {End}) /\ Len(checkQ') <= CheckDepth
    BY <1>6, AppendProperties, LenProperties, ServerAssumption DEF StopPut, TypeOK
  <2>2. TypeOK' /\ PopHeld'
    BY <1>6, <2>1 DEF StopPut, TypeOK
  <2> QED
    BY <1>6, <2>2, RetireQueueCount DEF StopPut, SlotsAccounted, Launching, Retiring, TypeOK
<1> QED
  BY <1>1, <1>2, <1>3, <1>4, <1>5, <1>6 DEF CheckerStep, StopStep

LEMMA SlotStep == SlotInv /\ [Next]_vars => SlotInv'
<1> SUFFICES ASSUME SlotInv, [Next]_vars PROVE SlotInv'
  OBVIOUS
<1>1. CASE Next
  BY <1>1, SlotLoop, SlotRetirer, SlotOthers DEF Next
<1>2. CASE UNCHANGED vars
  BY <1>2, RetireQueueCount DEF vars, SlotInv, TypeOK, PopHeld, SlotsAccounted, Launching, Retiring
<1> QED
  BY <1>1, <1>2

\* The model's types, the slot count's range among them.
THEOREM TypeCorrect == Spec => []TypeOK
<1>1. SlotInv => TypeOK
  BY DEF SlotInv
<1> QED
  BY <1>1, SlotInit, SlotStep, PTL DEF Spec

\* No refusal, failed launch, failed retirement or stop leaks or mints a slot of
\* the pipeline's semaphore (_PopRetirer.slots), so it bounds the pops whose
\* inputs are on the device.
THEOREM SlotsAddUp == Spec => []SlotsAccounted
<1>1. SlotInv => SlotsAccounted
  BY DEF SlotInv
<1> QED
  BY <1>1, SlotInit, SlotStep, PTL DEF Spec


-----------------------------------------------------------------------------
(* Serving after a finding                                                 *)

\* Once a pop was served after the finding, the retirer is past its last gate:
\* no other pop can follow it through.
LateInv == \/ late = {}
           \/ failure /\ retirer # "submit" /\ \E k : late = {k}

LEMMA LateStep == TypeOK /\ LateInv /\ [Next]_vars => LateInv'
<1> SUFFICES ASSUME TypeOK, LateInv, [Next]_vars PROVE LateInv'
  OBVIOUS
<1> USE DEF LateInv
<1>1. CASE SubmitResults
  <2>1. late = {} /\ retirer' = "checks" /\ failure' = failure
    BY <1>1 DEF SubmitResults, checkVars
  <2>2. late' = IF failure THEN {rpop} ELSE {}
    BY <1>1, <2>1 DEF SubmitResults
  <2> QED
    BY <2>1, <2>2
<1>2. CASE RetireGate
  BY <1>2 DEF RetireGate, checkVars
<1>3. CASE FinishCheck \/ HandOverCheck \/ StopDrainOne
  <2>1. late' = late /\ retirer' = retirer /\ failure' \in {failure, TRUE}
    BY <1>3 DEF FinishCheck, HandOverCheck, StopDrainOne, RunCheck, retireVars
  <2> QED
    BY <2>1
<1>4. CASE LoopStep \/ TakeCheck \/ StopSet \/ StopClose \/ StopRetirer \/ StopDrained \/ StopPut
           \/ UNCHANGED vars
  <2>1. UNCHANGED <<late, retirer, failure>>
    BY <1>4 DEF LoopStep, NextBatch, AcquireSlot, RefuseLaunch, PassLatch, Launch, LeaveLoop,
       CloseBatcher, TakeCheck, StopSet, StopClose, StopRetirer, StopDrained, StopPut,
       retireVars, checkVars, vars
  <2> QED
    BY <2>1
<1>5. CASE Retire \/ RetireFails \/ ReleaseSlot
  <2>1. UNCHANGED <<late, failure>> /\ retirer' # "submit"
    BY <1>5 DEF Retire, RetireFails, ReleaseSlot, checkVars
  <2> QED
    BY <2>1
<1> QED
  BY <1>1, <1>2, <1>3, <1>4, <1>5 DEF Next, RetirerStep, CheckerStep, StopStep

\* "At most the pops already launched when the finding landed are served": at
\* most one, whatever the depth of the pipeline (_retire reads the latch again
\* after the device event).
THEOREM OneServedAfterFinding == Spec => []AtMostOneServedAfterFinding
<1>1. Init => LateInv
  BY DEF Init, LateInv
<1>2. LateInv => AtMostOneServedAfterFinding
  <2>1. LateInv => Cardinality(late) \in {0, 1}
    BY FS_EmptySet, FS_Singleton DEF LateInv
  <2> QED
    BY <2>1 DEF AtMostOneServedAfterFinding
<1> QED
  BY <1>1, <1>2, LateStep, TypeCorrect, PTL DEF Spec

-----------------------------------------------------------------------------
(* Checks                                                                  *)

Accounted(c) ==
    \/ c \in ran
    \/ checker = c
    \/ \E j \in 1..Len(checkQ) : checkQ[j] = c
    \/ \E j \in 1..Len(rchecks) : rchecks[j] = c

\* A check of a served pop has a place, and until stop() the checker is never
\* told to end.
CheckInv ==
    stopper = "no" =>
        /\ checker # End /\ \A j \in 1..Len(checkQ) : checkQ[j] # End
        /\ \A k \in Pops : answer[k] = "ok" => \A i \in 1..PartsPerPop : Accounted(<<k, i>>)

\* A check leaves a queue only for the place it goes to.
LEMMA Moved ==
  ASSUME NEW S, NEW q \in Seq(S), q # <<>>, NEW c, \E j \in 1..Len(q) : q[j] = c
  PROVE  c = Head(q) \/ \E j \in 1..Len(Tail(q)) : Tail(q)[j] = c
<1>1. PICK j \in 1..Len(q) : q[j] = c
  OBVIOUS
<1>2. CASE j = 1
  BY <1>1, <1>2, Members
<1>3. CASE j # 1
  <2>1. j \in 2..Len(q)
    BY <1>1, <1>3, LenProperties
  <2> QED
    BY <1>1, <2>1, Members
<1> QED
  BY <1>2, <1>3

LEMMA Appended ==
  ASSUME NEW S, NEW q \in Seq(S), NEW e \in S
  PROVE  /\ \E j \in 1..Len(Append(q, e)) : Append(q, e)[j] = e
         /\ \A c : (\E j \in 1..Len(q) : q[j] = c) =>
                \E j \in 1..Len(Append(q, e)) : Append(q, e)[j] = c
<1>1. Len(q) \in Nat /\ Len(Append(q, e)) = Len(q) + 1 /\ Append(q, e)[Len(q) + 1] = e
      /\ \A i \in 1..Len(q) : Append(q, e)[i] = q[i]
  BY AppendProperties, LenProperties
<1> QED
  BY <1>1

LEMMA CheckStep == SlotInv /\ CheckInv /\ [Next]_vars => CheckInv'
<1> SUFFICES ASSUME SlotInv, CheckInv, [Next]_vars, stopper' = "no" PROVE CheckInv'
  BY DEF CheckInv
<1>0. stopper = "no"
  BY DEF Next, LoopStep, RetirerStep, CheckerStep, StopStep, NextBatch, AcquireSlot,
     RefuseLaunch, PassLatch, Launch, LeaveLoop, CloseBatcher, Retire, RetireGate, RetireFails,
     SubmitResults, HandOverCheck, ReleaseSlot, TakeCheck, FinishCheck, StopSet, StopClose,
     StopRetirer, StopDrainOne, StopDrained, StopPut, vars
<1> USE <1>0 DEF CheckInv
<1> DEFINE Kept == \A k \in Pops, i \in 1..PartsPerPop : Accounted(<<k, i>>) => Accounted(<<k, i>>)'
<1>1. CASE /\ checker' # End /\ \A j \in 1..Len(checkQ') : checkQ'[j] # End
           /\ Kept /\ \A k \in Pops : answer'[k] = "ok" => answer[k] = "ok"
  BY <1>1
<1>2. CASE SubmitResults
  <2>1. /\ rchecks = <<>> /\ rpop \in Pops /\ checker' # End
        /\ rchecks' = [i \in 1..PartsPerPop |-> <<rpop, i>>]
        /\ answer' = [answer EXCEPT ![rpop] = "ok"] /\ UNCHANGED <<ran, checker, checkQ, rpop>>
    BY <1>2 DEF SubmitResults, SlotInv, PopHeld, checkVars
  <2>2. Len(rchecks') = PartsPerPop
    BY <2>1, ServerAssumption
  <2>3. ASSUME NEW k \in Pops, k = rpop, NEW i \in 1..PartsPerPop PROVE Accounted(<<k, i>>)'
    <3>1. i \in 1..Len(rchecks') /\ rchecks'[i] = <<k, i>>
      BY <2>1, <2>2, <2>3
    <3> QED
      BY <3>1 DEF Accounted
  <2>4. Kept
    BY <2>1, LenProperties, EmptySeq DEF Accounted
  <2>5. \A k \in Pops : answer'[k] = "ok" => k = rpop \/ answer[k] = "ok"
    BY <2>1 DEF SlotInv, TypeOK
  <2>6. \A k \in Pops : answer'[k] = "ok" => \A i \in 1..PartsPerPop : Accounted(<<k, i>>)'
    BY <2>3, <2>4, <2>5
  <2> QED
    BY <2>1, <2>6
<1>3. CASE HandOverCheck
  <2>1. rchecks \in Seq(Check) /\ checkQ \in Seq(Check \union {End}) /\ Head(rchecks) \in Check
    BY <1>3, Members DEF HandOverCheck, SlotInv, TypeOK
  <2>2. /\ rchecks # <<>> /\ rchecks' = Tail(rchecks) /\ UNCHANGED <<checker, answer>>
    BY <1>3 DEF HandOverCheck
  <2>3. \/ checkQ' = Append(checkQ, Head(rchecks)) /\ ran' = ran
        \/ checkQ' = checkQ /\ ran' = ran \union {Head(rchecks)}
    BY <1>3 DEF HandOverCheck, RunCheck
  <2>4. ASSUME NEW c, Accounted(c) PROVE Accounted(c)'
    <3>1. CASE \E j \in 1..Len(rchecks) : rchecks[j] = c
      <4>1. c = Head(rchecks) \/ \E j \in 1..Len(rchecks') : rchecks'[j] = c
        BY <2>1, <2>2, <3>1, Moved
      <4>2. c = Head(rchecks) => c \in ran' \/ \E j \in 1..Len(checkQ') : checkQ'[j] = c
        BY <2>1, <2>3, Appended
      <4> QED
        BY <4>1, <4>2 DEF Accounted
    <3>2. CASE \E j \in 1..Len(checkQ) : checkQ[j] = c
      <4>1. CASE checkQ' = checkQ
        BY <3>2, <4>1 DEF Accounted
      <4>2. CASE checkQ' = Append(checkQ, Head(rchecks))
        <5>1. Head(rchecks) \in Check \union {End}
          BY <2>1
        <5>2. \E j \in 1..Len(Append(checkQ, Head(rchecks))) : Append(checkQ, Head(rchecks))[j] = c
          BY <2>1, <3>2, <5>1, Appended
        <5> QED
          BY <4>2, <5>2 DEF Accounted
      <4> QED
        BY <2>3, <4>1, <4>2
    <3> QED
      BY <2>2, <2>3, <2>4, <3>1, <3>2 DEF Accounted
  <2>5. \A j \in 1..Len(checkQ') : checkQ'[j] # End
    <3>0. \A k \in Pops, i \in 1..PartsPerPop : <<k, i>> # End
      BY SentinelAssumption DEF Pops
    <3>1. Head(rchecks) # End /\ Head(rchecks) \in Check \union {End}
      <4>1. \E k \in Pops, i \in 1..PartsPerPop : Head(rchecks) = <<k, i>>
        BY <2>1 DEF Check
      <4> QED
        BY <2>1, <3>0, <4>1
    <3>2. Len(checkQ) \in Nat /\ Len(Append(checkQ, Head(rchecks))) = Len(checkQ) + 1
          /\ Append(checkQ, Head(rchecks))[Len(checkQ) + 1] = Head(rchecks)
          /\ \A j \in 1..Len(checkQ) : Append(checkQ, Head(rchecks))[j] = checkQ[j]
      BY <2>1, <3>1, AppendProperties, LenProperties
    <3> QED
      BY <2>3, <3>1, <3>2
  <2> QED
    BY <1>1, <2>2, <2>4, <2>5
<1>4. CASE TakeCheck
  <2>1. checkQ \in Seq(Check \union {End}) /\ checkQ # <<>> /\ checkQ' = Tail(checkQ)
        /\ checker = Idle /\ checker' = Head(checkQ) /\ UNCHANGED <<answer, ran, rchecks>>
    BY <1>4 DEF TakeCheck, SlotInv, TypeOK, retireVars
  <2>2. ASSUME NEW k \in Pops, NEW i \in 1..PartsPerPop, Accounted(<<k, i>>)
        PROVE  Accounted(<<k, i>>)'
    <3>1. <<k, i>> # Idle
      BY SentinelAssumption DEF Pops
    <3>2. CASE \E j \in 1..Len(checkQ) : checkQ[j] = <<k, i>>
      <4>1. <<k, i>> = Head(checkQ) \/ \E j \in 1..Len(Tail(checkQ)) : Tail(checkQ)[j] = <<k, i>>
        BY <2>1, <3>2, Moved
      <4> QED
        BY <2>1, <4>1 DEF Accounted
    <3> QED
      BY <2>1, <2>2, <3>1, <3>2 DEF Accounted
  <2>3. checker' # End /\ \A j \in 1..Len(checkQ') : checkQ'[j] # End
    BY <2>1, Members
  <2> QED
    BY <1>1, <2>1, <2>2, <2>3
<1>5. CASE FinishCheck
  <2>1. checker \notin {Idle, End} /\ checker' = Idle /\ ran' = ran \union {checker}
        /\ UNCHANGED <<answer, checkQ, rchecks>>
    BY <1>5 DEF FinishCheck, RunCheck, retireVars
  <2> QED
    BY <1>1, <2>1, SentinelAssumption DEF Accounted
<1>6. CASE LoopStep \/ RetireFails
  <2>1. UNCHANGED <<checkQ, checker, ran, rchecks>>
    BY <1>6 DEF LoopStep, NextBatch, AcquireSlot, RefuseLaunch, PassLatch, Launch, LeaveLoop,
       CloseBatcher, RetireFails, retireVars, checkVars
  <2>2. answer' = answer \/ FailPop(popped) \/ FailPop(rpop)
    BY <1>6 DEF LoopStep, NextBatch, AcquireSlot, RefuseLaunch, PassLatch, Launch, LeaveLoop,
       CloseBatcher, RetireFails
  <2>3. \A k \in Pops : answer'[k] = "ok" => answer[k] = "ok"
    BY <2>2 DEF FailPop, SlotInv, TypeOK
  <2> QED
    BY <1>1, <2>1, <2>3 DEF Accounted
<1>7. CASE Retire \/ RetireGate \/ ReleaseSlot \/ UNCHANGED vars
  <2>1. UNCHANGED <<checkQ, checker, ran, rchecks, answer>>
    BY <1>7 DEF Retire, RetireGate, ReleaseSlot, checkVars, vars
  <2> QED
    BY <1>1, <2>1 DEF Accounted
<1>8. ~StopStep
  BY DEF StopStep, StopSet, StopClose, StopRetirer, StopDrainOne, StopDrained, StopPut
<1> QED
  BY <1>2, <1>3, <1>4, <1>5, <1>6, <1>7, <1>8 DEF Next, RetirerStep, CheckerStep

\* No part that was served goes unchecked before a stop, whether its check ran,
\* runs, waits or was run by the retirer because the queue was full
\* (_EdgeGeometryChecker.submit).
THEOREM ServedPartsChecked == Spec => []CheckAccounted
<1>1. Init => CheckInv
  BY SentinelAssumption, EmptySeq DEF Init, CheckInv
<1>2. CheckInv => CheckAccounted
  BY DEF CheckInv, CheckAccounted, Accounted
<1>3. SlotInv /\ CheckInv /\ [Next]_vars => (SlotInv /\ CheckInv)'
  BY SlotStep, CheckStep
<1> QED
  BY <1>1, <1>2, <1>3, SlotInit, PTL DEF Spec


-----------------------------------------------------------------------------
(* The loop's own close                                                    *)

Queued(k) == \E j \in 1..Len(retireQ) : retireQ[j] = k

\* Who still owes a pop its answer, and that nothing is behind the retirer's End.
OwedInv ==
    /\ \A k \in Pops : k <= popped /\ answer[k] = "none" =>
           \/ loop \in {"slot", "launch", "launching"} /\ k = popped
           \/ Queued(k)
           \/ retirer \in {"synced", "submit"} /\ rpop = k
    /\ \A j \in 1..Len(retireQ) : retireQ[j] = End =>
           loop \in {"join", "done"} /\ \A m \in j..Len(retireQ) : retireQ[m] = End
    /\ retirer = "dead" =>
           loop \in {"join", "done"} /\ \A j \in 1..Len(retireQ) : retireQ[j] = End
    /\ loop = "done" => retirer = "dead"

LEMMA OwedStep == SlotInv /\ OwedInv /\ [Next]_vars => OwedInv'
<1> SUFFICES ASSUME SlotInv, OwedInv, [Next]_vars PROVE OwedInv'
  OBVIOUS
<1> USE DEF OwedInv
<1>0. /\ retireQ \in Seq(Pops \union {End}) /\ answer \in [Pops -> {"none", "ok", "err"}]
      /\ \A k \in Pops : k # End
      /\ popped \in 0..MaxPops
  BY SentinelAssumption DEF SlotInv, TypeOK, Pops
<1>1. CASE NextBatch
  <2>1. UNCHANGED <<retireQ, answer, retirer, rpop>> /\ popped' = popped + 1
        /\ loop = "top" /\ loop' = "slot"
    BY <1>1 DEF NextBatch, retireVars
  <2>2. \A k \in Pops : k <= popped' => k <= popped \/ k = popped'
    BY <2>1, <1>0, ServerAssumption DEF Pops
  <2> QED
    BY <2>1, <2>2 DEF Queued
<1>2. CASE AcquireSlot \/ PassLatch
  BY <1>2 DEF AcquireSlot, PassLatch, retireVars, Queued
<1>3. CASE RefuseLaunch \/ (Launch /\ FailPop(popped) /\ retireQ' = retireQ)
  <2>1. UNCHANGED <<retireQ, retirer, rpop, popped>> /\ FailPop(popped)
        /\ loop \in {"launch", "launching"} /\ loop' = "top" /\ popped \in Pops
    BY <1>3 DEF RefuseLaunch, Launch, SlotInv, PopHeld
  <2>2. \A k \in Pops : answer'[k] = "none" => answer[k] = "none" /\ k # popped
    BY <1>0, <2>1 DEF FailPop
  <2> QED
    BY <2>1, <2>2 DEF Queued
<1>4. CASE Launch /\ retireQ' = Append(retireQ, popped) /\ answer' = answer
  <2>1. UNCHANGED <<retirer, rpop, popped, answer>> /\ loop = "launching" /\ loop' = "top"
        /\ popped \in Pops
    BY <1>4 DEF Launch, SlotInv, PopHeld
  <2>2. \A k \in Pops : Queued(k) \/ k = popped => Queued(k)'
    <3>1. popped \in Pops \union {End} /\ retireQ' = Append(retireQ, popped)
      BY <1>4, <2>1
    <3>2. \E j \in 1..Len(retireQ') : retireQ'[j] = popped
      BY <1>0, <3>1, Appended
    <3>3. \A k \in Pops : Queued(k) => Queued(k)'
      BY <1>0, <3>1, Appended DEF Queued
    <3> QED
      BY <3>2, <3>3 DEF Queued
  <2>3. \A j \in 1..Len(retireQ') : retireQ'[j] # End
    BY <1>0, <1>4, <2>1, AppendProperties, LenProperties
  <2> QED
    BY <2>1, <2>2, <2>3
<1>5. CASE LeaveLoop
  <2>1. UNCHANGED <<retirer, rpop, popped, answer>> /\ loop = "top" /\ loop' = "join"
        /\ retireQ' = Append(retireQ, End)
    BY <1>5 DEF LeaveLoop
  <2>2. \A k \in Pops : Queued(k) => Queued(k)'
    BY <1>0, <2>1, Appended DEF Queued
  <2>3. Len(retireQ) \in Nat /\ Len(retireQ') = Len(retireQ) + 1
        /\ \A j \in 1..Len(retireQ) : retireQ'[j] = retireQ[j] /\ retireQ[j] # End
    BY <1>0, <2>1, AppendProperties, LenProperties
  <2>4. \A j \in 1..Len(retireQ') : retireQ'[j] = End => j = Len(retireQ')
    BY <2>3
  <2> QED
    BY <2>1, <2>2, <2>3, <2>4
<1>6. CASE CloseBatcher
  BY <1>6 DEF CloseBatcher, retireVars, Queued
<1>7. CASE Retire
  <2>1. /\ retirer = "idle" /\ retireQ # <<>> /\ retireQ' = Tail(retireQ)
        /\ UNCHANGED <<loop, popped, answer>>
        /\ \/ Head(retireQ) = End /\ retirer' = "dead"
           \/ Head(retireQ) # End /\ retirer' = "synced" /\ rpop' = Head(retireQ)
    BY <1>7 DEF Retire, loopVars
  <2>2. \A k \in Pops : Queued(k) => k = Head(retireQ) \/ Queued(k)'
    BY <1>0, <2>1, Moved DEF Queued
  <2>3. /\ Len(retireQ) \in Nat /\ 1 \in 1..Len(retireQ) /\ Head(retireQ) = retireQ[1]
        /\ Len(retireQ') = Len(retireQ) - 1
        /\ \A j \in 1..Len(retireQ') : retireQ'[j] = retireQ[j + 1] /\ j + 1 \in 1..Len(retireQ)
    BY <1>0, <2>1, Members
  <2>4. \A j \in 1..Len(retireQ') : retireQ'[j] = End =>
            loop \in {"join", "done"} /\ \A m \in j..Len(retireQ') : retireQ'[m] = End
    <3>1. SUFFICES ASSUME NEW j \in 1..Len(retireQ'), retireQ'[j] = End
                   PROVE  loop \in {"join", "done"}
                          /\ \A m \in j..Len(retireQ') : retireQ'[m] = End
      OBVIOUS
    <3>2. retireQ[j + 1] = End /\ j + 1 \in 1..Len(retireQ)
      BY <2>3, <3>1
    <3>3. \A m \in (j + 1)..Len(retireQ) : retireQ[m] = End
      BY <3>2
    <3>4. \A m \in j..Len(retireQ') : m + 1 \in (j + 1)..Len(retireQ) /\ m \in 1..Len(retireQ')
      BY <2>3
    <3> QED
      BY <2>3, <3>2, <3>3, <3>4
  <2>5. Head(retireQ) = End => loop \in {"join", "done"} /\ \A j \in 1..Len(retireQ') : retireQ'[j] = End
    <3>1. SUFFICES ASSUME Head(retireQ) = End
                   PROVE  loop \in {"join", "done"} /\ \A j \in 1..Len(retireQ') : retireQ'[j] = End
      OBVIOUS
    <3>2. loop \in {"join", "done"} /\ \A m \in 1..Len(retireQ) : retireQ[m] = End
      BY <2>3, <3>1
    <3> QED
      BY <2>3, <3>2
  <2>6. loop # "done"
    BY <2>1
  <2> QED
    BY <1>0, <2>1, <2>2, <2>4, <2>5, <2>6
<1>8. CASE RetireGate \/ HandOverCheck \/ ReleaseSlot
  BY <1>8 DEF RetireGate, HandOverCheck, ReleaseSlot, loopVars, Queued
<1>9. CASE RetireFails \/ SubmitResults
  <2>1. /\ UNCHANGED <<loop, popped, retireQ, rpop>> /\ retirer \in {"synced", "submit"}
        /\ retirer' # "dead" /\ rpop \in Pops
        /\ FailPop(rpop) \/ answer' = [answer EXCEPT ![rpop] = "ok"]
    BY <1>9 DEF RetireFails, SubmitResults, loopVars, SlotInv, PopHeld
  <2>2. \A k \in Pops : answer'[k] = "none" => answer[k] = "none" /\ k # rpop
    BY <1>0, <2>1 DEF FailPop
  <2>3. loop # "done"
    BY <2>1
  <2> QED
    BY <2>1, <2>2, <2>3 DEF Queued
<1>10. CASE CheckerStep \/ StopSet \/ StopClose \/ StopDrainOne \/ StopDrained \/ StopPut
            \/ UNCHANGED vars
  <2>1. UNCHANGED <<loop, popped, answer, retireQ, retirer, rpop>>
    BY <1>10 DEF CheckerStep, TakeCheck, FinishCheck, StopSet, StopClose, StopDrainOne, StopDrained,
       StopPut, loopVars, retireVars, vars
  <2> QED
    BY <2>1 DEF Queued
<1>11. CASE StopRetirer
  <2>1. UNCHANGED <<loop, popped, answer, retirer, rpop>>
        /\ \/ retireQ' = retireQ
           \/ loop = "done" /\ retireQ' = Append(retireQ, End)
    BY <1>11 DEF StopRetirer, loopVars
  <2>2. CASE retireQ' = retireQ
    BY <2>1, <2>2 DEF Queued
  <2>3. CASE loop = "done" /\ retireQ' = Append(retireQ, End)
    <3>1. \A k \in Pops : Queued(k) => Queued(k)'
      BY <1>0, <2>3, Appended DEF Queued
    <3>2. Len(retireQ) \in Nat /\ Len(retireQ') = Len(retireQ) + 1
          /\ retireQ'[Len(retireQ) + 1] = End
          /\ \A j \in 1..Len(retireQ) : retireQ'[j] = retireQ[j]
      BY <1>0, <2>3, AppendProperties, LenProperties
    <3>3. \A j \in 1..Len(retireQ) : retireQ[j] = End
      BY <2>3
    <3>4. \A j \in 1..Len(retireQ') : retireQ'[j] = End /\ \A m \in j..Len(retireQ') : m \in 1..Len(retireQ')
      BY <3>2, <3>3
    <3> QED
      BY <2>1, <2>3, <3>1, <3>4
  <2> QED
    BY <2>1, <2>2, <2>3
<1> QED
  BY <1>1, <1>2, <1>3, <1>4, <1>5, <1>6, <1>7, <1>8, <1>9, <1>10, <1>11
     DEF Next, LoopStep, RetirerStep, StopStep, Launch

\* "Everything launched is dispatched before the queues close under the
\* waiters" (_run_graph_loop's finally): when the loop's own close has run,
\* every pop it ever took has its answer.
THEOREM AnsweredAtClose == Spec => []AnsweredBeforeLoopCloses
<1>1. Init => OwedInv
  BY ServerAssumption DEF Init, OwedInv, Pops
<1>2. SlotInv /\ OwedInv => AnsweredBeforeLoopCloses
  <2> SUFFICES ASSUME SlotInv, OwedInv, loop = "done", NEW k \in 1..popped PROVE answer[k] # "none"
    BY DEF AnsweredBeforeLoopCloses
  <2>1. k \in Pops /\ k <= popped /\ k # End
    BY ServerAssumption, SentinelAssumption DEF SlotInv, TypeOK, Pops
  <2> QED
    BY <2>1 DEF OwedInv, Queued
<1>3. SlotInv /\ OwedInv /\ [Next]_vars => (SlotInv /\ OwedInv)'
  BY SlotStep, OwedStep
<1> QED
  BY <1>1, <1>2, <1>3, SlotInit, PTL DEF Spec

-----------------------------------------------------------------------------
(* The cache's versions                                                    *)

\* The shapes the argument needs; the eviction order and the byte counter play
\* no part in it.
Shapes ==
    /\ version \in Nat /\ net \in Nat /\ model_version \in Nat
    /\ swapping \in BOOLEAN
    /\ pc \in [Workers -> {"idle", "get", "wait", "answered", "put"}]
    /\ ver \in [Workers -> Nat]
    /\ eval \in [Workers -> Eval]
    /\ \A k \in DOMAIN map : map[k] \in Eval

\* The version trails the weights by the one swap in progress.
VersionTrails ==
    /\ swapping => net = model_version + 1
    /\ ~swapping => net = model_version

\* What a worker may be holding, relative to the version it read.
RoundTrip ==
    \A w \in Workers :
        /\ ver[w] <= model_version
        /\ pc[w] \in {"answered", "put"} => ver[w] <= eval[w].net /\ eval[w].net <= net
        /\ pc[w] = "put" => eval[w].net <= ver[w] + 1

CacheInv == Shapes /\ VersionTrails /\ RoundTrip /\ NetWithinOneSwap

LEMMA InitCacheInv == CacheInit => CacheInv
<1> SUFFICES ASSUME CacheInit PROVE CacheInv
  OBVIOUS
<1>1. NoEval \in Eval
  BY DEF NoEval, Eval
<1>2. Shapes
  BY <1>1 DEF CacheInit, Shapes
<1>3. VersionTrails /\ RoundTrip /\ NetWithinOneSwap
  BY DEF CacheInit, VersionTrails, RoundTrip, NetWithinOneSwap
<1> QED  BY <1>2, <1>3 DEF CacheInv

\* The swap and the bump: nobody's evaluation changes, and a version already
\* read stays at most the current one.
LEMMA SwapKeeps ==
    ASSUME CacheInv, SwapWeights \/ BumpVersion
    PROVE  CacheInv'
<1>1. /\ version' = version /\ map' = map /\ pc' = pc /\ ver' = ver /\ eval' = eval
      /\ Shapes
  BY DEF SwapWeights, BumpVersion, shardVars, workerVars, CacheInv
<1>2. net' \in Nat /\ model_version' \in Nat /\ swapping' \in BOOLEAN
  <2>a. net + 1 \in Nat /\ model_version + 1 \in Nat
    BY <1>1 DEF Shapes
  <2>1. CASE SwapWeights
    BY <1>1, <2>a, <2>1, Zenon DEF SwapWeights, Shapes
  <2>2. CASE BumpVersion
    BY <1>1, <2>a, <2>2, Zenon DEF BumpVersion, Shapes
  <2> QED  BY <2>1, <2>2
<1>3. net' >= net /\ model_version' >= model_version
  BY <1>1 DEF SwapWeights, BumpVersion, Shapes
<1>4. VersionTrails'
  BY <1>1 DEF SwapWeights, BumpVersion, Shapes, CacheInv, VersionTrails
<1>5. Shapes' /\ NetWithinOneSwap'
  BY <1>1, <1>2 DEF Shapes, NetWithinOneSwap, CacheInv
<1>6. RoundTrip'
  <2> SUFFICES ASSUME NEW w \in Workers
               PROVE  /\ ver[w] <= model_version'
                      /\ pc[w] \in {"answered", "put"} =>
                           ver[w] <= eval[w].net /\ eval[w].net <= net'
                      /\ pc[w] = "put" => eval[w].net <= ver[w] + 1
    BY <1>1 DEF RoundTrip
  <2>1. ver[w] \in Nat /\ eval[w].net \in Nat
    BY <1>1 DEF Shapes, Eval
  <2> QED  BY <1>1, <1>2, <1>3, <2>1 DEF CacheInv, RoundTrip, Shapes
<1> QED  BY <1>4, <1>5, <1>6 DEF CacheInv

\* The worker's own steps before the put leave the shard alone.
LEMMA TripKeeps ==
    ASSUME CacheInv, NEW w \in Workers,
           (\E k \in Keys : LoadVersion(w, k)) \/ Get(w) \/ Forward(w) \/ CheckStorable(w)
    PROVE  CacheInv'
<1> USE CacheAssumption
<1>1. /\ version' = version /\ map' = map /\ net' = net /\ swapping' = swapping
      /\ model_version' = model_version
      /\ Shapes /\ VersionTrails /\ RoundTrip /\ NetWithinOneSwap
  BY DEF LoadVersion, Get, Forward, CheckStorable, shardVars, serverVars, CacheInv
<1>2. VersionTrails' /\ NetWithinOneSwap'
  BY <1>1 DEF VersionTrails, NetWithinOneSwap
<1>3. net >= model_version /\ net <= model_version + 1
  BY <1>1 DEF VersionTrails, Shapes
<1>4. CASE \E k \in Keys : LoadVersion(w, k)
  <2>1. /\ pc' = [pc EXCEPT ![w] = "get"] /\ ver' = [ver EXCEPT ![w] = model_version]
        /\ eval' = eval
    BY <1>4 DEF LoadVersion, ReadVersion
  <2>2. Shapes'
    BY <1>1, <2>1 DEF Shapes
  <2>3. RoundTrip'
    BY <1>1, <2>1 DEF Shapes, RoundTrip
  <2> QED  BY <1>2, <2>2, <2>3 DEF CacheInv
<1>5. CASE Get(w)
  <2>1. /\ ver' = ver /\ eval' \in [Workers -> Eval]
        /\ \A v \in Workers \ {w} : eval'[v] = eval[v]
        /\ pc' \in [Workers -> {"idle", "get", "wait", "answered", "put"}]
        /\ pc'[w] \in {"idle", "wait"} /\ \A v \in Workers \ {w} : pc'[v] = pc[v]
    <3>1. CASE Hit(key[w], ver[w])
      <4>1. map[key[w]] \in Eval
        BY <1>1, <3>1 DEF Hit, Shapes
      <4> QED  BY <1>1, <1>5, <3>1, <4>1 DEF Get, Shapes
    <3>2. CASE ~Hit(key[w], ver[w])
      BY <1>1, <1>5, <3>2 DEF Get, Shapes
    <3> QED  BY <3>1, <3>2
  <2>2. Shapes'
    BY <1>1, <2>1 DEF Shapes
  <2>3. RoundTrip'
    BY <1>1, <2>1 DEF RoundTrip
  <2> QED  BY <1>2, <2>2, <2>3 DEF CacheInv
<1>6. CASE Forward(w)
  <2> PICK size \in Sizes : eval' = [eval EXCEPT ![w] = [net |-> net, size |-> size]]
    BY <1>6 DEF Forward
  <2>1. [net |-> net, size |-> size] \in Eval
    BY <1>1 DEF Eval, Shapes
  <2>2. ver' = ver /\ pc' = [pc EXCEPT ![w] = "answered"]
    BY <1>6 DEF Forward
  <2>3. Shapes'
    BY <1>1, <2>1, <2>2 DEF Shapes
  <2>4. /\ eval'[w].net = net /\ pc'[w] = "answered"
        /\ \A v \in Workers \ {w} : eval'[v] = eval[v] /\ pc'[v] = pc[v]
    BY <1>1, <2>2 DEF Shapes
  <2>5. \A v \in Workers : ver[v] \in Nat /\ ver[v] <= model_version
    BY <1>1 DEF Shapes, RoundTrip
  <2>6. RoundTrip'
    BY <1>1, <1>3, <2>2, <2>4, <2>5 DEF Shapes, RoundTrip
  <2> QED  BY <1>2, <2>3, <2>6 DEF CacheInv
<1>7. CASE CheckStorable(w)
  <2>1. /\ ver' = ver /\ eval' = eval /\ pc[w] = "answered"
        /\ pc' = [pc EXCEPT ![w] = IF Storable(w) THEN "put" ELSE "idle"]
    BY <1>7 DEF CheckStorable
  <2>2. Shapes'
    BY <1>1, <2>1 DEF Shapes
  <2>3. /\ \A v \in Workers \ {w} : pc'[v] = pc[v]
        /\ pc'[w] \in {"put", "idle"}
        /\ pc'[w] = "put" => model_version = ver[w]
    BY <1>1, <2>1 DEF Shapes, Storable
  <2>4. eval[w].net \in Nat /\ ver[w] \in Nat
    BY <1>1 DEF Shapes, Eval
  <2>5. pc'[w] = "put" => eval[w].net <= ver[w] + 1
    BY <1>1, <1>3, <2>1, <2>3, <2>4 DEF RoundTrip, Shapes
  <2>6. RoundTrip'
    BY <1>1, <2>1, <2>3, <2>5 DEF RoundTrip
  <2> QED  BY <1>2, <2>2, <2>6 DEF CacheInv
<1> QED  BY <1>4, <1>5, <1>6, <1>7

\* A put files an evaluation no older than its version; older entries survive
\* only under the version they were filed under.
LEMMA PutKeeps ==
    ASSUME CacheInv, NEW w \in Workers, Put(w)
    PROVE  CacheInv'
<1>1. /\ net' = net /\ swapping' = swapping /\ model_version' = model_version
      /\ ver' = ver /\ eval' = eval /\ pc' = [pc EXCEPT ![w] = "idle"]
      /\ pc[w] = "put" /\ Shapes /\ VersionTrails /\ RoundTrip /\ NetWithinOneSwap
  BY DEF Put, serverVars, CacheInv
<1>2. VersionTrails' /\ RoundTrip'
  BY <1>1 DEF VersionTrails, RoundTrip, Shapes
<1>3. CASE Refused(w) \/ Held(w)
  <2>1. version' = version /\ map' = map
    BY <1>3 DEF Put, shardVars
  <2>2. Shapes' /\ NetWithinOneSwap'
    BY <1>1, <2>1 DEF Shapes, NetWithinOneSwap
  <2> QED  BY <1>2, <2>2 DEF CacheInv
<1>4. CASE ~Refused(w) /\ ~Held(w)
  <2>1. PICK keys \in SUBSET KeptKeys(w) :
          /\ version' = ver[w]
          /\ map' = [k \in keys \union {key[w]} |->
                        IF k = key[w] THEN eval[w] ELSE map[k]]
    BY <1>4 DEF Put
  <2>2. eval[w] \in Eval /\ ver[w] \in Nat /\ ver[w] >= version
    BY <1>1, <1>4 DEF Refused, Shapes
  <2>3. /\ \A k \in keys : k \in DOMAIN map /\ ver[w] = version
        /\ DOMAIN map' = keys \union {key[w]}
        /\ \A k \in DOMAIN map' : map'[k] = eval[w] \/ (k \in keys /\ map'[k] = map[k])
    BY <1>1, <2>1, <2>2 DEF KeptKeys, Shapes
  <2>4. Shapes'
    BY <1>1, <2>1, <2>2, <2>3 DEF Shapes
  <2>5. eval[w].net \in {ver[w], ver[w] + 1}
    <3>1. eval[w].net \in Nat /\ ver[w] <= eval[w].net /\ eval[w].net <= ver[w] + 1
      BY <1>1, <2>2 DEF RoundTrip, Eval
    <3> QED  BY <2>2, <3>1
  <2>6. NetWithinOneSwap'
    BY <1>1, <2>1, <2>3, <2>5 DEF NetWithinOneSwap
  <2> QED  BY <1>2, <2>4, <2>6 DEF CacheInv
<1> QED  BY <1>3, <1>4

LEMMA NextCacheInv == CacheInv /\ [CacheNext]_cacheVars => CacheInv'
<1> SUFFICES ASSUME CacheInv, [CacheNext]_cacheVars PROVE CacheInv'
  OBVIOUS
<1>1. CASE UNCHANGED cacheVars
  BY <1>1 DEF cacheVars, CacheInv, Shapes, VersionTrails, RoundTrip, NetWithinOneSwap
<1>2. CASE CacheNext
  BY <1>2, SwapKeeps, TripKeeps, PutKeeps DEF CacheNext
<1> QED  BY <1>1, <1>2

\* A hit never serves a net older than the version it was asked for, nor one
\* more than a swap newer (EvalCache::get, load_state_dict_safe's bump after the
\* swap, and the second version read in infer_and_expand_graph).
THEOREM CachedNetWithinOneSwap == CacheSpec => []NetWithinOneSwap
<1>1. CacheInv => NetWithinOneSwap
  BY DEF CacheInv
<1> QED  BY InitCacheInv, NextCacheInv, <1>1, PTL DEF CacheSpec

-----------------------------------------------------------------------------
(* The sum of the sizes of a set of entries                                *)

\* A set of naturals has a least element.
LEMMA NatLeast ==
  ASSUME NEW S, S \subseteq Nat, S # {}
  PROVE  \E n \in S : \A m \in S : n <= m
<1> DEFINE R == OpToRel(<, Nat)
<1>1. IsWellFoundedOn(R, Nat)
  BY NatLessThanWellFounded
<1>2. \A m, n \in Nat : <<m, n>> \in R <=> m < n
  BY DEF OpToRel
<1> HIDE DEF R
<1>3. PICK n \in S : \A m \in S : ~ (<<m, n>> \in R)
  BY <1>1, WFMin
<1>4. \A m \in S : m \in Nat /\ n \in Nat /\ ~(m < n)
  BY <1>2, <1>3
<1> QED BY <1>4

\* SizeOf for any map, and the recursion the fold behind it stands for.
Total(m, S) == MapThenSumSet(LAMBDA k : m[k].size, S)
Chosen(s) == CHOOSE x \in s : TRUE
Sums(m, S, f) ==
    f = [s \in SUBSET S |-> IF s = {} THEN 0 ELSE m[Chosen(s)].size + f[s \ {Chosen(s)}]]

LEMMA TotalIs ==
  ASSUME NEW m, NEW S
  PROVE  Total(m, S) = (CHOOSE f : Sums(m, S, f))[S]
BY DEF Total, MapThenSumSet, MapThenFoldSet, Sums, Chosen

\* Without its chosen element a finite set is one smaller.
LEMMA OneLess ==
  ASSUME NEW s, IsFiniteSet(s), s # {}
  PROVE  /\ Chosen(s) \in s /\ IsFiniteSet(s \ {Chosen(s)})
         /\ Cardinality(s) \in Nat /\ Cardinality(s) > 0
         /\ \A x \in s : /\ IsFiniteSet(s \ {x})
                         /\ Cardinality(s \ {x}) = Cardinality(s) - 1
                         /\ Cardinality(s \ {x}) \in Nat
<1>1. Chosen(s) \in s
  BY DEF Chosen
<1>2. Cardinality(s) \in Nat /\ Cardinality(s) > 0
  BY FS_CardinalityType, FS_EmptySet
<1>3. ASSUME NEW x \in s
      PROVE  IsFiniteSet(s \ {x}) /\ Cardinality(s \ {x}) = Cardinality(s) - 1
  BY FS_RemoveElement
<1> QED BY <1>1, <1>2, <1>3

LEMMA SumExists ==
  ASSUME NEW m, NEW S, IsFiniteSet(S), \A k \in S : m[k].size \in Nat
  PROVE  \E f \in [SUBSET S -> Nat] : Sums(m, S, f)
<1> DEFINE Step(s, f) == IF s = {} THEN 0 ELSE m[Chosen(s)].size + f[s \ {Chosen(s)}]
           Upto(n, f) == \A s \in SUBSET S : Cardinality(s) <= n => f[s] = Step(s, f)
           Bad == {n \in Nat : ~ \E f \in [SUBSET S -> Nat] : Upto(n, f)}
<1>1. \A s \in SUBSET S : IsFiniteSet(s) /\ Cardinality(s) \in Nat
  BY FS_Subset, FS_CardinalityType
<1>2. ASSUME NEW f \in [SUBSET S -> Nat], NEW s \in SUBSET S
      PROVE  Step(s, f) \in Nat
  <2>1. CASE s = {}
    BY <2>1
  <2>2. CASE s # {}
    <3>1. Chosen(s) \in S /\ s \ {Chosen(s)} \in SUBSET S
      BY <1>1, <2>2, OneLess
    <3>2. m[Chosen(s)].size \in Nat /\ f[s \ {Chosen(s)}] \in Nat
      BY <3>1
    <3> QED BY <2>2, <3>2
  <2> QED BY <2>1, <2>2
<1>3. Bad = {}
  <2> SUFFICES ASSUME Bad # {} PROVE FALSE
    OBVIOUS
  <2>1. PICK n \in Bad : \A i \in Bad : n <= i
    <3>1. Bad \subseteq Nat
      OBVIOUS
    <3> HIDE DEF Bad
    <3> QED BY <3>1, NatLeast
  <2>2. CASE n = 0
    <3> DEFINE f == [s \in SUBSET S |-> 0]
    <3>1. ASSUME NEW s \in SUBSET S, Cardinality(s) <= n PROVE f[s] = Step(s, f)
      <4>1. s = {}
        BY <2>2, <3>1, <1>1, FS_EmptySet
      <4> QED BY <4>1
    <3>2. f \in [SUBSET S -> Nat] /\ Upto(n, f)
      BY <3>1
    <3> QED BY <3>2, <2>1
  <2>3. CASE n > 0
    <3>1. n \in Nat /\ n - 1 \in Nat
      BY <2>1, <2>3
    <3>2. n - 1 \notin Bad
      <4> HIDE DEF Bad
      <4> QED BY <2>1, <3>1
    <3>3. PICK f \in [SUBSET S -> Nat] : Upto(n - 1, f)
      BY <3>1, <3>2
    <3> DEFINE g == [s \in SUBSET S |-> Step(s, f)]
    <3>4. g \in [SUBSET S -> Nat]
      BY <1>2
    <3>5. ASSUME NEW s \in SUBSET S, Cardinality(s) <= n PROVE g[s] = Step(s, g)
      <4>1. CASE s = {}
        BY <4>1
      <4>2. CASE s # {}
        <5> DEFINE r == s \ {Chosen(s)}
        <5>1. r \in SUBSET S /\ Cardinality(r) <= n - 1
          BY <4>2, <3>5, <1>1, OneLess, <2>1
        <5>2. f[r] = Step(r, f)
          BY <5>1, <3>3
        <5>3. g[r] = Step(r, f)
          BY <5>1
        <5>4. g[r] = f[r]
          BY <5>2, <5>3
        <5> HIDE DEF r, g
        <5>5. g[s] = m[Chosen(s)].size + f[r]
          BY <4>2 DEF g, r
        <5>6. Step(s, g) = m[Chosen(s)].size + g[r]
          BY <4>2 DEF r
        <5> QED BY <5>4, <5>5, <5>6
      <4> QED BY <4>1, <4>2
    <3> HIDE DEF g, Step
    <3>6. Upto(n, g)
      BY <3>5
    <3> QED BY <3>4, <3>6, <2>1
  <2> QED BY <2>1, <2>2, <2>3
<1>4. Cardinality(S) \in Nat
  BY <1>1
<1>5. PICK f \in [SUBSET S -> Nat] : Upto(Cardinality(S), f)
  BY <1>3, <1>4
<1>6. \A s \in SUBSET S : Cardinality(s) <= Cardinality(S)
  BY FS_Subset
<1>7. \A s \in SUBSET S : f[s] = Step(s, f)
  BY <1>5, <1>6
<1>8. f = [s \in SUBSET S |-> Step(s, f)]
  <2>1. f = [s \in SUBSET S |-> f[s]]
    OBVIOUS
  <2> HIDE DEF Step
  <2> QED BY <2>1, <1>7
<1>9. Sums(m, S, f)
  BY <1>8 DEF Sums
<1> QED BY <1>9

\* The recursion has one value on a set, whatever larger set it is taken over.
LEMMA SumUnique ==
  ASSUME NEW m, NEW S, NEW f, Sums(m, S, f), NEW n, NEW T, NEW g, Sums(n, T, g),
         NEW U, U \subseteq S, U \subseteq T, IsFiniteSet(U), \A k \in U : m[k].size = n[k].size
  PROVE  f[U] = g[U]
<1> DEFINE Bad == {i \in Nat : \E u \in SUBSET U : Cardinality(u) = i /\ f[u] # g[u]}
<1> SUFFICES ASSUME f[U] # g[U] PROVE FALSE
  OBVIOUS
<1>1. \A u \in SUBSET U : IsFiniteSet(u) /\ Cardinality(u) \in Nat
  BY FS_Subset, FS_CardinalityType
<1>2. PICK i \in Bad : \A j \in Bad : i <= j
  <2>1. Bad \subseteq Nat /\ Cardinality(U) \in Bad
    BY <1>1
  <2> HIDE DEF Bad
  <2> QED BY <2>1, NatLeast
<1>3. PICK u \in SUBSET U : Cardinality(u) = i /\ f[u] # g[u]
  BY <1>2
<1>4. /\ f[u] = IF u = {} THEN 0 ELSE m[Chosen(u)].size + f[u \ {Chosen(u)}]
      /\ g[u] = IF u = {} THEN 0 ELSE n[Chosen(u)].size + g[u \ {Chosen(u)}]
  <2>1. u \in SUBSET S /\ u \in SUBSET T
    OBVIOUS
  <2> QED BY <2>1 DEF Sums
<1>5. u # {}
  BY <1>3, <1>4
<1> DEFINE r == u \ {Chosen(u)}
<1>6. r \in SUBSET U /\ Cardinality(r) \in Nat /\ Cardinality(r) < i /\ Chosen(u) \in U
  BY <1>1, <1>3, <1>5, OneLess
<1>7. f[r] = g[r]
  BY <1>2, <1>6
<1> QED BY <1>3, <1>4, <1>5, <1>6, <1>7

\* A set whose entries have sizes.
Sized(m, S) == IsFiniteSet(S) /\ \A k \in S : m[k].size \in Nat

LEMMA TotalSums ==
  ASSUME NEW m, NEW S, Sized(m, S)
  PROVE  \E f \in [SUBSET S -> Nat] : Sums(m, S, f) /\ f[S] = Total(m, S)
<1> DEFINE f == CHOOSE h : Sums(m, S, h)
<1>1. PICK g \in [SUBSET S -> Nat] : Sums(m, S, g)
  BY SumExists DEF Sized
<1>2. Sums(m, S, f)
  BY <1>1
<1>3. Total(m, S) = f[S]
  BY TotalIs
<1> HIDE DEF f
<1>4. g[S] = f[S]
  BY <1>1, <1>2, SumUnique DEF Sized
<1> QED BY <1>1, <1>3, <1>4

\* Only the sizes of the set's own entries count.
LEMMA TotalAgrees ==
  ASSUME NEW m, NEW n, NEW S, Sized(m, S), \A k \in S : n[k].size = m[k].size
  PROVE  Total(m, S) = Total(n, S)
<1>1. Sized(n, S)
  BY DEF Sized
<1>2. PICK f \in [SUBSET S -> Nat] : Sums(m, S, f) /\ f[S] = Total(m, S)
  BY TotalSums
<1>3. PICK g \in [SUBSET S -> Nat] : Sums(n, S, g) /\ g[S] = Total(n, S)
  BY <1>1, TotalSums
<1> QED BY <1>2, <1>3, SumUnique DEF Sized

LEMMA TotalBy ==
  ASSUME NEW m, NEW S, Sized(m, S)
  PROVE  /\ Total(m, S) \in Nat
         /\ S = {} => Total(m, S) = 0
         /\ S # {} => Total(m, S) = m[Chosen(S)].size + Total(m, S \ {Chosen(S)})
<1>1. PICK f \in [SUBSET S -> Nat] : Sums(m, S, f) /\ f[S] = Total(m, S)
  BY TotalSums
<1>2. f[S] = IF S = {} THEN 0 ELSE m[Chosen(S)].size + f[S \ {Chosen(S)}]
  BY <1>1 DEF Sums
<1>3. CASE S # {}
  <2> DEFINE r == S \ {Chosen(S)}
  <2>1. Sized(m, r) /\ r \subseteq S
    BY <1>3, OneLess DEF Sized
  <2>2. PICK g \in [SUBSET r -> Nat] : Sums(m, r, g) /\ g[r] = Total(m, r)
    BY <2>1, TotalSums
  <2>3. f[r] = g[r]
    BY <1>1, <2>1, <2>2, SumUnique DEF Sized
  <2> QED BY <1>1, <1>2, <1>3, <2>2, <2>3
<1> QED BY <1>1, <1>2, <1>3

\* Any entry may be taken out first, not only the chosen one.
LEMMA TotalRemove ==
  ASSUME NEW m, NEW S, Sized(m, S), NEW x \in S
  PROVE  Total(m, S) = m[x].size + Total(m, S \ {x})
<1> DEFINE Wrong(s) == \E y \in s : Total(m, s) # m[y].size + Total(m, s \ {y})
           Bad == {i \in Nat : \E s \in SUBSET S : Cardinality(s) = i /\ Wrong(s)}
<1> SUFFICES ASSUME Wrong(S) PROVE FALSE
  OBVIOUS
<1>1. \A s \in SUBSET S : IsFiniteSet(s) /\ Cardinality(s) \in Nat /\ Sized(m, s)
  BY FS_Subset, FS_CardinalityType DEF Sized
<1>2. PICK i \in Bad : \A j \in Bad : i <= j
  <2>1. Bad \subseteq Nat /\ Cardinality(S) \in Bad
    BY <1>1
  <2> HIDE DEF Bad
  <2> QED BY <2>1, NatLeast
<1>3. PICK s \in SUBSET S : Cardinality(s) = i /\ Wrong(s)
  BY <1>2
<1>4. PICK y \in s : Total(m, s) # m[y].size + Total(m, s \ {y})
  BY <1>3
<1> DEFINE c == Chosen(s)
<1>5. IsFiniteSet(s) /\ Cardinality(s) \in Nat /\ Sized(m, s) /\ s # {}
  BY <1>1, <1>4
<1>6. /\ c \in s /\ c # y /\ Total(m, s) = m[c].size + Total(m, s \ {c})
  <2>1. c \in s
    BY <1>5, OneLess
  <2>2. Total(m, s) = m[c].size + Total(m, s \ {c})
    BY <1>5, TotalBy
  <2> HIDE DEF c
  <2> QED BY <1>4, <2>1, <2>2
<1>7. ASSUME NEW a \in s, NEW b \in s, a # b
      PROVE  Total(m, s \ {a}) = m[b].size + Total(m, (s \ {a}) \ {b})
  <2>1. s \ {a} \in SUBSET S /\ Cardinality(s \ {a}) \in Nat /\ Cardinality(s \ {a}) < i
    <3>1. /\ IsFiniteSet(s \ {a}) /\ Cardinality(s \ {a}) = Cardinality(s) - 1
          /\ Cardinality(s \ {a}) \in Nat
      BY <1>5, OneLess
    <3> QED BY <1>3, <1>5, <3>1
  <2>2. Cardinality(s \ {a}) \notin Bad
    <3> HIDE DEF Bad
    <3>1. i \in Nat
      BY <1>3, <1>5
    <3> QED BY <1>2, <2>1, <3>1
  <2>3. ~Wrong(s \ {a})
    BY <2>1, <2>2
  <2> QED BY <1>7, <2>3
<1>8. (s \ {c}) \ {y} = (s \ {y}) \ {c}
  OBVIOUS
<1> DEFINE both == Total(m, (s \ {c}) \ {y})
<1>9. m[c].size \in Nat /\ m[y].size \in Nat /\ both \in Nat
  <2>1. c \in S /\ y \in S /\ (s \ {c}) \ {y} \in SUBSET S
    BY <1>6
  <2> QED BY <1>1, <2>1, TotalBy DEF Sized
<1>10. Total(m, s \ {c}) = m[y].size + both /\ Total(m, s \ {y}) = m[c].size + both
  BY <1>4, <1>6, <1>7, <1>8
<1> HIDE DEF c, both
<1> QED BY <1>4, <1>6, <1>9, <1>10

\* What is taken out and what is left add up.
LEMMA TotalSplit ==
  ASSUME NEW m, NEW S, Sized(m, S), NEW T, T \subseteq S
  PROVE  Total(m, S) = Total(m, T) + Total(m, S \ T)
<1> DEFINE Wrong(t) == Total(m, S) # Total(m, t) + Total(m, S \ t)
           Bad == {i \in Nat : \E t \in SUBSET S : Cardinality(t) = i /\ Wrong(t)}
<1> SUFFICES ASSUME Wrong(T) PROVE FALSE
  OBVIOUS
<1>1. \A s \in SUBSET S : IsFiniteSet(s) /\ Cardinality(s) \in Nat /\ Sized(m, s) /\ Total(m, s) \in Nat
  <2>1. \A s \in SUBSET S : IsFiniteSet(s) /\ Cardinality(s) \in Nat /\ Sized(m, s)
    BY FS_Subset, FS_CardinalityType DEF Sized
  <2> QED BY <2>1, TotalBy
<1>2. PICK i \in Bad : \A j \in Bad : i <= j
  <2>1. Bad \subseteq Nat /\ Cardinality(T) \in Bad
    BY <1>1
  <2> HIDE DEF Bad
  <2> QED BY <2>1, NatLeast
<1>3. PICK t \in SUBSET S : Cardinality(t) = i /\ Wrong(t)
  BY <1>2
<1>4. CASE t = {}
  <2>1. Total(m, t) = 0 /\ S \ t = S /\ Total(m, S) \in Nat
    BY <1>1, <1>4, TotalBy
  <2> QED BY <1>3, <2>1
<1>5. CASE t # {}
  <2>1. PICK x : x \in t
    BY <1>5
  <2> DEFINE r == t \ {x}
  <2>2. IsFiniteSet(t) /\ Cardinality(t) \in Nat /\ i \in Nat
    BY <1>1, <1>3
  <2>3. r \in SUBSET S /\ Cardinality(r) \in Nat /\ Cardinality(r) < i
    <3>1. Cardinality(r) = Cardinality(t) - 1 /\ Cardinality(r) \in Nat
      BY <1>5, <2>1, <2>2, OneLess
    <3> QED BY <1>3, <2>2, <3>1
  <2>4. ~Wrong(r)
    <3>1. Cardinality(r) \notin Bad
      <4> HIDE DEF Bad
      <4> QED BY <1>2, <2>3, <2>2
    <3> QED BY <2>3, <3>1
  <2>5. Total(m, t) = m[x].size + Total(m, r)
    BY <1>1, <2>1, TotalRemove
  <2>6. x \in S \ r /\ (S \ r) \ {x} = S \ t /\ S \ r \in SUBSET S
    BY <2>1
  <2>7. Total(m, S \ r) = m[x].size + Total(m, S \ t)
    BY <1>1, <2>6, TotalRemove
  <2>8. m[x].size \in Nat /\ Total(m, r) \in Nat /\ Total(m, S \ t) \in Nat
    BY <1>1, <2>1, <2>3 DEF Sized
  <2> HIDE DEF r
  <2> QED BY <1>3, <2>4, <2>5, <2>7, <2>8
<1> QED BY <1>4, <1>5

-----------------------------------------------------------------------------
(* The cache's shard                                                       *)

\* No key is listed twice.
Distinct(q) == \A i, j \in 1..Len(q) : q[i] = q[j] => i = j

ShardInv ==
    /\ CacheInv /\ ShardConsistent
    /\ order \in Seq(Keys)
    /\ key \in [Workers -> Keys \union {NoKey}]
    /\ \A w \in Workers : pc[w] # "idle" => key[w] \in Keys

LEMMA SizeIsTotal ==
  /\ \A S : SizeOf(S) = Total(map, S)
  /\ SizeOf(DOMAIN map)' = Total(map', DOMAIN map')
<1>1. \A S : SizeOf(S) = Total(map, S)
  BY DEF SizeOf, Total
<1>2. SizeOf(DOMAIN map)' = Total(map, DOMAIN map)'
  BY DEF SizeOf, Total
<1>3. Total(map, DOMAIN map)' = Total(map', DOMAIN map')
  OBVIOUS
<1> QED BY <1>1, <1>2, <1>3

LEMMA FrontOf ==
  ASSUME NEW q \in Seq(Keys), NEW n \in 0..Len(q)
  PROVE  /\ Front(q, n) \subseteq Front(q, Len(q)) /\ Front(q, 0) = {}
         /\ IsFiniteSet(Front(q, Len(q)))
<1>1. Len(q) \in Nat
  BY LenProperties
<1>2. IsFiniteSet(Front(q, Len(q)))
  <2> DEFINE at == [i \in 1..Len(q) |-> q[i]]
  <2>1. IsFiniteSet(1..Len(q))
    BY <1>1, FS_Interval
  <2>2. Front(q, Len(q)) = {at[i] : i \in 1..Len(q)}
    BY DEF Front
  <2>3. at \in Surjection(1..Len(q), {at[i] : i \in 1..Len(q)})
    BY DEF Surjection
  <2> QED BY <2>1, <2>2, <2>3, FS_Surjection
<1> QED BY <1>1, <1>2 DEF Front

\* The keys an order holds without its n oldest and with a new one.
KeysAfter(q, n, k) == (Front(q, Len(q)) \ Front(q, n)) \union {k}

\* Without its n oldest entries the order holds the other keys, and with the new
\* one at its end that one too.
LEMMA OrderAfter ==
  ASSUME NEW q \in Seq(Keys), Distinct(q), NEW n \in 0..Len(q), NEW k \in Keys,
         k \notin Front(q, Len(q)),
         NEW r, r = Append(SubSeq(q, n + 1, Len(q)), k)
  PROVE  /\ r \in Seq(Keys) /\ Len(r) = Len(q) - n + 1 /\ Distinct(r)
         /\ Front(r, Len(r)) = KeysAfter(q, n, k)
<1> DEFINE t == SubSeq(q, n + 1, Len(q))
<1>1. Len(q) \in Nat /\ n \in Nat /\ n <= Len(q)
  BY LenProperties
<1>2. /\ t \in Seq(Keys) /\ Len(t) = Len(q) - n
      /\ \A i \in 1..Len(t) : t[i] = q[n + i]
  BY <1>1, SubSeqProperties
<1>3. r = Append(t, k)
  OBVIOUS
<1> HIDE DEF t
<1>4. /\ r \in Seq(Keys) /\ Len(r) = Len(t) + 1 /\ r[Len(t) + 1] = k /\ Len(t) \in Nat
      /\ \A i \in 1..Len(t) : r[i] = t[i]
  <2>1. /\ Append(t, k) \in Seq(Keys) /\ Len(Append(t, k)) = Len(t) + 1
        /\ Append(t, k)[Len(t) + 1] = k /\ \A i \in 1..Len(t) : Append(t, k)[i] = t[i]
    <3>1. t \in Seq(Keys)
      BY <1>2
    <3> QED BY ONLY <3>1, k \in Keys, AppendProperties
  <2>2. Len(t) \in Nat
    BY <1>1, <1>2
  <2> QED BY <1>3, <2>1, <2>2
<1>5. ASSUME NEW i \in 1..Len(r), i # Len(t) + 1
      PROVE  n + i \in 1..Len(q) /\ n + i > n /\ r[i] = q[n + i]
  <2>1. i \in 1..Len(t)
    BY <1>4, <1>5
  <2> QED BY <1>1, <1>2, <1>4, <2>1
<1>6. ASSUME NEW j \in 1..Len(q), j > n
      PROVE  j - n \in 1..Len(r) /\ j - n # Len(t) + 1 /\ r[j - n] = q[j]
  <2>1. j - n \in 1..Len(t) /\ n + (j - n) = j
    BY <1>1, <1>2, <1>6
  <2> QED BY <1>1, <1>2, <1>4, <2>1
<1>7. Len(t) + 1 \in 1..Len(r)
  BY <1>1, <1>2, <1>4
<1>8. Distinct(r)
  <2> SUFFICES ASSUME NEW i \in 1..Len(r), NEW j \in 1..Len(r), r[i] = r[j] PROVE i = j
    BY DEF Distinct
  <2>1. CASE i = Len(t) + 1 /\ j # Len(t) + 1
    <3>1. k = q[n + j] /\ n + j \in 1..Len(q)
      BY <1>4, <1>5, <2>1
    <3> QED BY <3>1 DEF Front
  <2>2. CASE i # Len(t) + 1 /\ j = Len(t) + 1
    <3>1. k = q[n + i] /\ n + i \in 1..Len(q)
      BY <1>4, <1>5, <2>2
    <3> QED BY <3>1 DEF Front
  <2>3. CASE i # Len(t) + 1 /\ j # Len(t) + 1
    <3>1. q[n + i] = q[n + j] /\ n + i \in 1..Len(q) /\ n + j \in 1..Len(q)
      BY <1>5, <2>3
    <3>2. n + i = n + j
      BY <3>1 DEF Distinct
    <3> QED BY <1>1, <3>2
  <2> QED BY <2>1, <2>2, <2>3
<1>9. Front(r, Len(r)) = (Front(q, Len(q)) \ Front(q, n)) \union {k}
  <2>1. ASSUME NEW i \in 1..Len(r)
        PROVE  r[i] \in (Front(q, Len(q)) \ Front(q, n)) \union {k}
    <3>1. CASE i = Len(t) + 1
      BY <1>4, <3>1
    <3>2. CASE i # Len(t) + 1
      <4>1. n + i \in 1..Len(q) /\ n + i > n /\ r[i] = q[n + i]
        BY <1>5, <3>2
      <4>2. ASSUME NEW m \in 1..n, q[m] = q[n + i] PROVE FALSE
        <5>1. m \in 1..Len(q) /\ m # n + i
          BY <1>1, <4>1
        <5> QED BY <4>1, <4>2, <5>1 DEF Distinct
      <4> QED BY <4>1, <4>2 DEF Front
    <3> QED BY <3>1, <3>2
  <2>2. ASSUME NEW j \in 1..Len(q), q[j] \notin Front(q, n)
        PROVE  \E i \in 1..Len(r) : r[i] = q[j]
    <3>1. j > n
      BY <1>1, <2>2 DEF Front
    <3> QED BY <1>6, <3>1
  <2>3. Front(r, Len(r)) \subseteq (Front(q, Len(q)) \ Front(q, n)) \union {k}
    <3> HIDE DEF t
    <3>1. ASSUME NEW x \in Front(r, Len(r)) PROVE \E i \in 1..Len(r) : x = r[i]
      BY <3>1 DEF Front
    <3> QED BY <2>1, <3>1
  <2>4. k \in Front(r, Len(r))
    BY <1>4, <1>7 DEF Front
  <2>5. ASSUME NEW x \in Front(q, Len(q)), x \notin Front(q, n) PROVE x \in Front(r, Len(r))
    <3>1. PICK j \in 1..Len(q) : x = q[j]
      BY DEF Front
    <3>2. PICK i \in 1..Len(r) : r[i] = q[j]
      BY <2>2, <2>5, <3>1
    <3> QED BY <3>1, <3>2 DEF Front
  <2> QED BY <2>3, <2>4, <2>5
<1> QED BY <1>1, <1>2, <1>4, <1>8, <1>9 DEF KeysAfter

\* What a put finds: the shard as it was, or empty under a newer version.
LEMMA Kept ==
  ASSUME ShardInv, NEW w \in Workers
  PROVE  /\ KeptOrder(w) \in Seq(Keys) /\ Distinct(KeptOrder(w))
         /\ KeptKeys(w) = Front(KeptOrder(w), Len(KeptOrder(w)))
         /\ Sized(map, KeptKeys(w)) /\ KeptKeys(w) \subseteq DOMAIN map
         /\ KeptBytes(w) = Total(map, KeptKeys(w))
<1>1. /\ order \in Seq(Keys) /\ Distinct(order) /\ DOMAIN map = Front(order, Len(order))
      /\ bytes = Total(map, DOMAIN map)
  BY DEF ShardInv, ShardConsistent, Distinct, SizeOf, Total
<1>2. IsFiniteSet(DOMAIN map)
  BY <1>1, FrontOf, LenProperties
<1>3. Sized(map, DOMAIN map)
  BY <1>2 DEF Sized, ShardInv, CacheInv, Shapes, Eval
<1>4. CASE ver[w] > version
  <2>1. Sized(map, {}) /\ Total(map, {}) = 0
    BY FS_EmptySet, TotalBy DEF Sized
  <2>2. <<>> \in Seq(Keys) /\ Distinct(<<>>) /\ Front(<<>>, Len(<<>>)) = {}
    BY DEF Distinct, Front
  <2> QED BY <1>4, <2>1, <2>2 DEF KeptOrder, KeptKeys, KeptBytes
<1>5. CASE ~(ver[w] > version)
  BY <1>1, <1>3, <1>5 DEF KeptOrder, KeptKeys, KeptBytes
<1> QED BY <1>4, <1>5

\* Eviction ends with room for the entry: at the latest when the shard is empty,
\* since an entry larger than the whole budget was refused.
LEMMA EvictionsFit ==
  ASSUME ShardInv, NEW w \in Workers, ~Refused(w)
  PROVE  Evictions(w) \in 0..Len(KeptOrder(w)) /\ Fits(w, Evictions(w))
<1> DEFINE q == KeptOrder(w)
           Enough == {n \in 0..Len(q) : Fits(w, n)}
<1>1. Len(q) \in Nat
  BY Kept, LenProperties
<1>2. Len(q) \in Enough
  <2>1. KeptBytes(w) - SizeOf(Front(q, Len(q))) = 0
    <3>1. KeptBytes(w) = Total(map, KeptKeys(w)) /\ KeptKeys(w) = Front(q, Len(q))
      BY Kept
    <3>2. Total(map, KeptKeys(w)) \in Nat
      BY Kept, TotalBy
    <3> QED BY <3>1, <3>2 DEF SizeOf, Total
  <2>2. eval[w].size \in Nat
    BY DEF ShardInv, CacheInv, Shapes, Eval
  <2>3. PerShard > 0 /\ PerShardBytes \in Nat /\ eval[w].size <= PerShardBytes
    BY <2>2, CacheAssumption DEF Refused, Off
  <2> HIDE DEF q
  <2> QED BY <1>1, <2>1, <2>2, <2>3 DEF Fits, q
<1>3. PICK n \in Enough : \A m \in Enough : n <= m
  <2>1. Enough \subseteq Nat
    OBVIOUS
  <2> HIDE DEF Enough
  <2> QED BY <1>2, <2>1, NatLeast
<1>4. n \in 0..Len(q) /\ Fits(w, n) /\ \A m \in 0..(n-1) : ~Fits(w, m)
  <2>1. \A m \in 0..(n-1) : m \in 0..Len(q) /\ ~(n <= m)
    BY <1>1, <1>3
  <2> QED BY <1>3, <2>1
<1> QED BY <1>4 DEF Evictions

LEMMA PutShard ==
  ASSUME ShardInv, NEW w \in Workers, Put(w), ~Refused(w), ~Held(w)
  PROVE  ShardConsistent' /\ order' \in Seq(Keys)
<1> DEFINE q == KeptOrder(w)
           n == Evictions(w)
           gone == Front(q, n)
           keys == KeptKeys(w) \ gone
           size == eval[w].size
<1>1. /\ q \in Seq(Keys) /\ Distinct(q) /\ KeptKeys(w) = Front(q, Len(q)) /\ Len(q) \in Nat
      /\ Sized(map, KeptKeys(w)) /\ KeptBytes(w) = Total(map, KeptKeys(w))
  BY Kept, LenProperties
<1>2. n \in 0..Len(q) /\ Len(q) - n < PerShard /\ KeptBytes(w) - SizeOf(gone) + size <= PerShardBytes
  BY EvictionsFit DEF Fits
<1>3. key[w] \in Keys /\ key[w] \notin KeptKeys(w) /\ size \in Nat /\ eval[w] \in Eval
  BY DEF Put, Held, ShardInv, CacheInv, Shapes, Eval
<1>4. /\ bytes' = KeptBytes(w) - SizeOf(gone) + size
      /\ order' = Append(SubSeq(q, n + 1, Len(q)), key[w])
      /\ map' = [k \in keys \union {key[w]} |-> IF k = key[w] THEN eval[w] ELSE map[k]]
  BY DEF Put
<1>5. gone \subseteq KeptKeys(w)
  BY <1>1, <1>2, FrontOf
<1> HIDE DEF q, n
<1>6. /\ order' \in Seq(Keys) /\ Len(order') = Len(q) - n + 1 /\ Distinct(order')
      /\ Front(order', Len(order')) = keys \union {key[w]}
  <2>1. key[w] \notin Front(q, Len(q))
    BY <1>1, <1>3
  <2>2. Front(order', Len(order')) = KeysAfter(q, n, key[w])
    BY <1>1, <1>2, <1>3, <1>4, <2>1, OrderAfter
  <2>3. order' \in Seq(Keys) /\ Len(order') = Len(q) - n + 1 /\ Distinct(order')
    BY <1>1, <1>2, <1>3, <1>4, <2>1, OrderAfter
  <2> QED BY <1>1, <2>2, <2>3 DEF KeysAfter
<1>7. /\ DOMAIN map' = keys \union {key[w]} /\ map'[key[w]] = eval[w]
      /\ \A k \in keys : map'[k] = map[k] /\ k # key[w]
  BY <1>3, <1>4
<1> HIDE DEF gone, keys
<1>8. /\ Sized(map, gone) /\ Sized(map, keys) /\ Sized(map', keys \union {key[w]})
      /\ keys \subseteq KeptKeys(w) /\ KeptKeys(w) \ gone = keys
  <2>1. keys \subseteq KeptKeys(w) /\ KeptKeys(w) \ gone = keys
    BY DEF keys
  <2>2. Sized(map, gone) /\ Sized(map, keys)
    BY <1>1, <1>5, <2>1, FS_Subset DEF Sized
  <2>3. IsFiniteSet(keys \union {key[w]})
    BY <2>2, FS_AddElement DEF Sized
  <2>4. \A k \in keys \union {key[w]} : map'[k].size \in Nat
    BY <1>3, <1>7, <2>2 DEF Sized
  <2> QED BY <2>1, <2>2, <2>3, <2>4 DEF Sized
<1>9. Total(map', keys \union {key[w]}) = size + Total(map, keys)
  <2>1. (keys \union {key[w]}) \ {key[w]} = keys
    BY <1>7
  <2>2. Total(map', keys \union {key[w]}) = map'[key[w]].size + Total(map', keys)
    BY <1>8, <2>1, TotalRemove
  <2>3. Total(map', keys) = Total(map, keys)
    BY <1>7, <1>8, TotalAgrees
  <2> QED BY <1>7, <2>2, <2>3
<1>10. KeptBytes(w) = Total(map, gone) + Total(map, keys)
  BY <1>1, <1>5, <1>8, TotalSplit
<1>11. Total(map, gone) \in Nat /\ Total(map, keys) \in Nat
  BY <1>8, TotalBy
<1>12. SizeOf(gone) = Total(map, gone) /\ SizeOf(DOMAIN map)' = Total(map', DOMAIN map')
  BY SizeIsTotal
<1>13. bytes' = Total(map', DOMAIN map')
  BY <1>3, <1>4, <1>7, <1>9, <1>10, <1>11, <1>12
<1>14. Len(order') <= PerShard /\ bytes' <= PerShardBytes
  BY <1>1, <1>2, <1>4, <1>6, CacheAssumption
<1> QED BY <1>6, <1>7, <1>12, <1>13, <1>14 DEF ShardConsistent, Distinct

LEMMA InitShard == CacheInit => ShardInv
<1> SUFFICES ASSUME CacheInit PROVE ShardInv
  OBVIOUS
<1>1. DOMAIN map = {} /\ order = <<>> /\ bytes = 0
  BY DEF CacheInit
<1>2. Front(<<>>, Len(<<>>)) = {} /\ <<>> \in Seq(Keys)
  BY DEF Front
<1>3. SizeOf({}) = 0
  <2>1. Sized(map, {})
    BY FS_EmptySet DEF Sized
  <2>2. Total(map, {}) = 0
    BY <2>1, TotalBy
  <2> QED BY <2>2 DEF SizeOf, Total
<1>4. ShardConsistent
  BY <1>1, <1>2, <1>3, CacheAssumption DEF ShardConsistent
<1> QED BY <1>1, <1>2, <1>4, InitCacheInv DEF ShardInv, CacheInit

LEMMA NextShard == ShardInv /\ [CacheNext]_cacheVars => ShardInv'
<1> SUFFICES ASSUME ShardInv, [CacheNext]_cacheVars PROVE ShardInv'
  OBVIOUS
<1>1. CacheInv'
  BY NextCacheInv DEF ShardInv
<1>2. UNCHANGED shardVars => ShardConsistent' /\ order' \in Seq(Keys)
  <2>1. bytes = Total(map, DOMAIN map)
    BY SizeIsTotal DEF ShardInv, ShardConsistent
  <2> QED BY <2>1, SizeIsTotal DEF shardVars, ShardInv, ShardConsistent, Front
<1>3. ASSUME NEW w \in Workers, Put(w) PROVE ShardConsistent' /\ order' \in Seq(Keys)
  <2>1. CASE Refused(w) \/ Held(w)
    BY <1>2, <1>3, <2>1 DEF Put
  <2>2. CASE ~Refused(w) /\ ~Held(w)
    BY <1>3, <2>2, PutShard
  <2> QED BY <2>1, <2>2
<1>4. ShardConsistent' /\ order' \in Seq(Keys)
  <2>1. CASE UNCHANGED cacheVars
    BY <1>2, <2>1 DEF cacheVars, shardVars
  <2>2. CASE SwapWeights \/ BumpVersion
    BY <1>2, <2>2 DEF SwapWeights, BumpVersion
  <2>3. ASSUME NEW w \in Workers,
               (\E k \in Keys : LoadVersion(w, k)) \/ Get(w) \/ Forward(w) \/ CheckStorable(w)
        PROVE  UNCHANGED shardVars
    BY <2>3 DEF LoadVersion, Get, Forward, CheckStorable
  <2> QED BY <1>2, <1>3, <2>1, <2>2, <2>3 DEF CacheNext
<1>5. /\ key' \in [Workers -> Keys \union {NoKey}]
      /\ \A w \in Workers : pc'[w] # "idle" => key'[w] \in Keys
  <2> USE DEF ShardInv, CacheInv, Shapes
  <2>1. CASE UNCHANGED <<pc, key>>
    BY <2>1
  <2>2. ASSUME NEW w \in Workers, NEW k \in Keys, LoadVersion(w, k) PROVE <1>5!1 /\ <1>5!2
    <3>1. pc' = [pc EXCEPT ![w] = "get"] /\ key' = [key EXCEPT ![w] = k]
      BY <2>2 DEF LoadVersion
    <3> QED BY <3>1
  <2>3. ASSUME NEW w \in Workers, Get(w) \/ Forward(w) \/ CheckStorable(w) \/ Put(w)
        PROVE  <1>5!1 /\ <1>5!2
    <3>1. key' = key /\ pc[w] # "idle" /\ \A v \in Workers \ {w} : pc'[v] = pc[v]
      BY <2>3 DEF Get, Forward, CheckStorable, Put
    <3> QED BY <3>1
  <2>4. CASE UNCHANGED cacheVars \/ SwapWeights \/ BumpVersion
    BY <2>1, <2>4 DEF cacheVars, SwapWeights, BumpVersion, workerVars
  <2> QED BY <2>2, <2>3, <2>4 DEF CacheNext
<1> QED BY <1>1, <1>4, <1>5 DEF ShardInv

\* The shard agrees with itself for any number of workers, keys, sizes and
\* budgets: the byte counter is the sum of the entries' sizes, so eviction never
\* runs out of entries nor underflows it, and both budgets hold after every put
\* (EvalCache::put, evict_oldest, clear).
THEOREM ShardAlwaysConsistent == CacheSpec => []ShardConsistent
<1>1. ShardInv => ShardConsistent
  BY DEF ShardInv
<1> QED BY InitShard, NextShard, <1>1, PTL DEF CacheSpec

=============================================================================
