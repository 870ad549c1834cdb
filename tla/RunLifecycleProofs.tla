------------------------- MODULE RunLifecycleProofs -------------------------
(***************************************************************************)
(* Machine-checked proofs about RunLifecycle, for every set of processes,  *)
(* every number of segments and every bound on the attempts: the inductive *)
(* invariant Inv, the safety properties it implies, the action properties  *)
(* that follow from it, and that the run keeps the promise of RunPromise.  *)
(***************************************************************************)
EXTENDS RunLifecycleInvariant, TLAPS, FiniteSetTheorems

(***************************************************************************)
(* The record transformations build records of the right type.             *)
(***************************************************************************)
LEMMA ClaimedType ==
    ASSUME NEW r \in RunRecords, NEW a \in Nat, NEW p \in Procs, NEW g \in RunStage
    PROVE  Claimed(r, a, p, g) \in RunRecords
BY DEF RunRecords, Claimed, RunStatus, InterruptionKind

LEMMA BeatType ==
    ASSUME NEW r \in RunRecords, NEW g \in RunStage, NEW s \in Nat
    PROVE  Beat(r, g, s) \in RunRecords
BY DEF RunRecords, Beat

LEMMA FinishedType ==
    ASSUME NEW r \in RunRecords, NEW t \in RunStatus, NEW g \in RunStage,
           NEW s \in Nat, NEW k \in InterruptionKind
    PROVE  Finished(r, t, g, s, k) \in RunRecords
BY DEF RunRecords, Finished

LEMMA ReconciledType ==
    ASSUME NEW r \in RunRecords
    PROVE  Reconciled(r) \in RunRecords
BY DEF RunRecords, Reconciled, Finished, RunStatus, InterruptionKind

LEMMA QueuedType ==
    ASSUME NEW f \in SourceForm
    PROVE  QueuedRecord(f) \in RunRecords
BY DEF RunRecords, QueuedRecord, RunStatus, RunStage, InterruptionKind

LEMMA RecoveredType ==
    ASSUME NEW w \in Workers, NEW r \in RunRecords
    PROVE  Recovered(w, r) \in RunRecords
BY DEF Workers, RunRecords, Recovered

LEMMA FinalFilesThree == DOMAIN FinalFiles = 1 .. 3 /\ Len(FinalFiles) = 3
BY DEF FinalFiles

LEMMA NewWorkerType == NewWorker \in Workers
<1>1. QueuedRecord("fixture") \in RunRecords
  BY QueuedType DEF SourceForm
<1> QED
  BY <1>1, SpeechCountAssumption DEF NewWorker, Workers, Segments

(***************************************************************************)
(* They build well-formed records from well-formed ones.                   *)
(***************************************************************************)
LEMMA ClaimedWellFormed ==
    ASSUME NEW r \in RunRecords, NEW a \in Nat \ {0}, NEW p \in Procs,
           WellFormed(r)
    PROVE  /\ WellFormed(Claimed(r, a, p, "compiling"))
           /\ IsOwn(Claimed(r, a, p, "compiling"), p)
BY NoProcAssumption
DEF WellFormed, ValidRecord, ValidOwnership, ValidProgress, ValidExecution, ValidSource,
    IsActive, PlanningStages, Claimed, RunRecords, IsOwn, AttemptStages

LEMMA OwnWellFormed ==
    ASSUME NEW r \in RunRecords, NEW p \in Procs, IsOwn(r, p)
    PROVE  WellFormed(r)
BY NoProcAssumption
DEF WellFormed, ValidRecord, ValidOwnership, ValidProgress, ValidExecution, ValidSource,
    IsActive, PlanningStages, RunRecords, IsOwn, AttemptStages

LEMMA BeatWellFormed ==
    ASSUME NEW r \in RunRecords, WellFormed(r), r.status = "running"
    PROVE  WellFormed(Beat(r, r.stage, 0))
BY DEF WellFormed, ValidRecord, ValidOwnership, ValidProgress, ValidExecution, ValidSource,
    IsActive, PlanningStages, RunRecords, Beat

LEMMA ReconciledWellFormed ==
    ASSUME NEW r \in RunRecords, WellFormed(r)
    PROVE  WellFormed(Reconciled(r))
BY DEF WellFormed, ValidRecord, ValidOwnership, ValidProgress, ValidExecution, ValidSource,
    IsActive, PlanningStages, RunRecords, Reconciled, Finished, Stale

LEMMA LapsedWellFormed ==
    ASSUME NEW r \in RunRecords, WellFormed(r), r.lease = "live"
    PROVE  /\ [r EXCEPT !.lease = "lapsed"] \in RunRecords
           /\ WellFormed([r EXCEPT !.lease = "lapsed"])
BY DEF WellFormed, ValidRecord, ValidOwnership, ValidProgress, ValidExecution, ValidSource,
    IsActive, PlanningStages, RunRecords

\* What a worker saves while it works, and what it settles with.
LEMMA ProgressIsOwn ==
    ASSUME NEW p \in Procs, worker \in [Procs -> Workers], issued \in Nat, OwnCopy(p),
           NEW g \in AttemptStages, NEW s \in Nat
    PROVE  LET r == Progress(p, g, s) IN
           /\ r \in RunRecords
           /\ IsOwn(r, p)
           /\ r.attempt = worker[p].running.attempt
           /\ r.segment = s
<1> DEFINE w == worker[p]
<1>1. w \in Workers /\ w.running \in RunRecords
  BY DEF Workers
<1>2. IsOwn(w.running, p) /\ w.completed <= w.total
  BY DEF OwnCopy
<1> QED
  BY <1>1, <1>2 DEF Progress, Recovered, Beat, IsOwn, AttemptStages, RunRecords, Workers,
     RunStage

LEMMA SettledWellFormed ==
    ASSUME NEW p \in Procs, worker \in [Procs -> Workers], issued \in Nat, OwnCopy(p),
           NEW t \in {"completed", "failed", "interrupted"}, NEW g \in RunStage,
           NEW s \in Nat, NEW k \in InterruptionKind,
           t = "completed" => /\ worker[p].completed = worker[p].total
                              /\ g = "completed",
           t # "completed" => g \in AttemptStages,
           t = "interrupted" => k # "none"
    PROVE  LET r == Settled(p, t, g, s, k) IN
           /\ r \in RunRecords
           /\ WellFormed(r)
           /\ r.status = t
           /\ r.attempt = worker[p].running.attempt
<1> DEFINE w == worker[p]
<1>1. w \in Workers /\ w.running \in RunRecords
  BY DEF Workers
<1>2. IsOwn(w.running, p) /\ w.completed <= w.total
  BY DEF OwnCopy
<1> DEFINE r == Settled(p, t, g, s, k)
<1>3. Recovered(w, w.running) \in RunRecords
  BY <1>1, RecoveredType
<1>4. r \in RunRecords
  BY <1>3, FinishedType DEF Settled, RunStatus
<1>5. /\ r.status = t /\ r.stage = g /\ r.lease = "none" /\ r.interruption = k
      /\ r.form = w.running.form /\ r.attempt = w.running.attempt
      /\ r.owner = w.running.owner /\ r.attempts = w.running.attempts
      /\ r.failedSegment = w.running.failedSegment
      /\ r.total = w.total /\ r.completed = w.completed
  BY <1>1 DEF Settled, Recovered, Finished, RunRecords
<1>6. WellFormed(r)
  BY <1>2, <1>4, <1>5, NoProcAssumption
  DEF IsOwn, AttemptStages, WellFormed, ValidRecord, ValidOwnership, ValidProgress,
      ValidExecution, ValidSource, IsActive, PlanningStages
<1> QED
  BY <1>4, <1>5, <1>6

(***************************************************************************)
(* Framing: what a step of one process leaves to prove.                    *)
(***************************************************************************)
LEMMA AttemptWorking == Working \subseteq Attempting /\ Attempting \subseteq Holding
BY DEF Holding, Attempting

LEMMA OutsideInv ==
    ASSUME NEW q \in Procs, pc'[q] \notin Attempting, worker'[q].beating # "on"
    PROVE  AttemptInv(q)'
<1>1. /\ pc'[q] \notin Working
      /\ pc'[q] \notin {"synthesizing", "failing", "stopping", "committed"}
  BY AttemptWorking DEF Working, Attempting, Handling
<1> QED
  BY <1>1 DEF AttemptInv

\* A step of the lock's holder, or of any process while the lock is free.
LEMMA HolderStep ==
    ASSUME Inv, NEW p \in Procs, pc[p] \in Holding \/ lock = NoProc,
           \A q \in Procs \ {p} : pc'[q] = pc[q] /\ worker'[q] = worker[q],
           TypeOK', LockInv', RecordInv', DiskInv', AttemptInv(p)'
    PROVE  Inv'
<1>1. ASSUME NEW q \in Procs \ {p} PROVE AttemptInv(q)'
  <2>1. pc[q] \notin Holding
    BY NoProcAssumption DEF Inv, LockInv
  <2>2. worker[q].beating # "on"
    BY <2>1, AttemptWorking DEF Inv, AttemptInv
  <2> QED
    BY <2>1, <2>2, AttemptWorking, OutsideInv
<1> QED
  BY <1>1 DEF Inv

\* A step of a process that leaves everything shared as it is.
LEMMA PrivateStep ==
    ASSUME Inv, NEW p \in Procs, UNCHANGED <<record, disk, issued>>,
           \A q \in Procs \ {p} : pc'[q] = pc[q] /\ worker'[q] = worker[q],
           TypeOK', LockInv', AttemptInv(p)'
    PROVE  Inv'
<1>1. RecordInv' /\ DiskInv'
  BY DEF Inv, RecordInv, DiskInv, CompletedMeansCommitted, disk
<1>2. ASSUME NEW q \in Procs \ {p} PROVE AttemptInv(q)'
  BY DEF Inv, AttemptInv, OwnCopy, Counters, Audio, Done, Artifacts, disk
<1> QED
  BY <1>1, <1>2 DEF Inv

LEMMA ExitFacts ==
    ASSUME TypeOK, NEW p \in Procs, Exit(p)
    PROVE  /\ pc' \in [Procs -> Holding \cup Outside] /\ pc'[p] = "idle"
           /\ worker' \in [Procs -> Workers]
           /\ \A q \in Procs \ {p} : pc'[q] = pc[q] /\ worker'[q] = worker[q]
           /\ AttemptInv(p)'
<1>1. pc' \in [Procs -> Holding \cup Outside] /\ pc'[p] = "idle"
  BY DEF TypeOK, Exit, Outside
<1>2. worker' \in [Procs -> Workers] /\ worker'[p] = NewWorker
  BY NewWorkerType DEF TypeOK, Exit
<1>3. AttemptInv(p)'
  BY <1>1, <1>2, OutsideInv DEF NewWorker, Attempting, Working, Handling
<1> QED
  BY <1>1, <1>2, <1>3 DEF TypeOK, Exit

(***************************************************************************)
(* Commands and the claim.                                                 *)
(***************************************************************************)
LEMMA LaunchStep ==
    ASSUME Inv, NEW p \in Procs, Launch(p)
    PROVE  Inv'
<1> USE DEF Launch
<1>1. PICK w \in Workers, l \in {"ready", "preparing"} :
        /\ w.beating = "off"
        /\ worker' = [worker EXCEPT ![p] = w]
        /\ Goto(p, l)
  <2>1. CASE \E m \in {"process", "resume"} :
               worker' = [worker EXCEPT ![p] = [NewWorker EXCEPT !.mode = m]]
             /\ Goto(p, "ready")
    <3>1. PICK m \in {"process", "resume"} :
            worker' = [worker EXCEPT ![p] = [NewWorker EXCEPT !.mode = m]]
          /\ Goto(p, "ready")
      BY <2>1
    <3>2. [NewWorker EXCEPT !.mode = m] \in Workers
      BY NewWorkerType DEF Workers
    <3> QED
      BY <3>1, <3>2 DEF NewWorker
  <2>2. CASE \E s \in Segments :
               worker' = [worker EXCEPT ![p] = [NewWorker EXCEPT !.asked = s]]
             /\ Goto(p, "preparing")
    <3>1. PICK s \in Segments :
            worker' = [worker EXCEPT ![p] = [NewWorker EXCEPT !.asked = s]]
          /\ Goto(p, "preparing")
      BY <2>2
    <3>2. [NewWorker EXCEPT !.asked = s] \in Workers
      BY NewWorkerType DEF Workers, Segments
    <3> QED
      BY <3>1, <3>2 DEF NewWorker
  <2> QED
    BY <2>1, <2>2
<1>2. TypeOK'
  BY <1>1 DEF Inv, TypeOK, Goto, Outside, disk
<1>3. LockInv'
  BY <1>1 DEF Inv, TypeOK, LockInv, Goto, Holding, Attempting, Working, Handling
<1>4. AttemptInv(p)'
  BY <1>1, OutsideInv DEF Inv, TypeOK, Goto, Attempting, Working, Handling
<1> QED
  BY <1>1, <1>2, <1>3, <1>4, PrivateStep DEF Inv, TypeOK, Goto

\* A step that gives the run up: whatever it saved is well formed.
LEMMA EndStep ==
    ASSUME Inv, NEW p \in Procs, Exit(p),
           lock' = IF lock = p THEN NoProc ELSE lock,
           UNCHANGED <<record, disk, issued>>
    PROVE  Inv'
<1>1. TypeOK'
  BY ExitFacts DEF Inv, TypeOK, disk
<1>2. LockInv'
  BY ExitFacts, NoProcAssumption
  DEF Inv, LockInv, Exit, TypeOK, Holding, Attempting, Working, Handling
<1> QED
  BY <1>1, <1>2, ExitFacts, PrivateStep DEF Inv

LEMMA RegeneratedWellFormed ==
    ASSUME NEW r \in RunRecords, NEW s \in Nat, WellFormed(r), r.status \in Stopped
    PROVE  /\ ManualRegeneration(r, s) \in RunRecords
           /\ WellFormed(ManualRegeneration(r, s))
           /\ ManualRegeneration(r, s).status = "interrupted"
<1> DEFINE less == IF checkpoint[s].status = "completed" /\ r.completed > 0
                   THEN r.completed - 1 ELSE r.completed
           kept == IF less < r.total THEN less
                   ELSE IF r.total > 0 THEN r.total - 1 ELSE 0
           f == Finished(r, "interrupted", "synthesizing", s, "manual_regeneration")
           m == [f EXCEPT !.completed = kept, !.failedSegment = 0]
<1>1. less \in Nat
  BY DEF RunRecords
<1>2. kept \in Nat /\ kept <= r.total
  BY <1>1 DEF RunRecords
<1>3. f \in RunRecords
  BY FinishedType DEF Segments, RunStatus, RunStage, InterruptionKind
<1> HIDE DEF less, kept
<1>4. m \in RunRecords
  BY <1>2, <1>3 DEF RunRecords
<1>5. /\ m.status = "interrupted" /\ m.stage = "synthesizing" /\ m.lease = "none"
      /\ m.interruption = "manual_regeneration" /\ m.failedSegment = 0
      /\ m.form = r.form /\ m.attempt = r.attempt /\ m.owner = r.owner
      /\ m.attempts = r.attempts /\ m.total = r.total /\ m.completed = kept
  BY <1>2, <1>3 DEF Finished, RunRecords
<1>6. WellFormed(m)
  BY <1>2, <1>4, <1>5
  DEF WellFormed, ValidRecord, ValidOwnership, ValidProgress, ValidExecution, ValidSource,
      IsActive, PlanningStages, Stopped, RunRecords
<1>7. ManualRegeneration(r, s) = m
  BY DEF ManualRegeneration, less, kept
<1> QED
  BY <1>4, <1>5, <1>6, <1>7

LEMMA PrepareRegenerationStep ==
    ASSUME Inv, NEW p \in Procs, PrepareRegeneration(p)
    PROVE  Inv'
<1>1. CASE lock = NoProc /\ CanRegenerate(record)
  <2> DEFINE r == ManualRegeneration(record, worker[p].asked)
  <2>1. /\ record' = r /\ lock' = lock /\ pc' = [pc EXCEPT ![p] = "ready"]
        /\ worker' = [worker EXCEPT ![p].mode = "resume",
                                    ![p].bypass = {worker[p].asked}]
        /\ UNCHANGED <<disk, issued>> /\ pc[p] = "preparing"
    BY <1>1 DEF PrepareRegeneration, Goto
  <2>2. worker[p] \in Workers /\ worker[p].asked \in Nat /\ worker[p].beating # "on"
    BY <2>1 DEF Inv, TypeOK, Workers, AttemptInv, Working
  <2>3. r \in RunRecords /\ WellFormed(r) /\ r.status = "interrupted"
    BY <1>1, <2>2, RegeneratedWellFormed DEF Inv, TypeOK, RecordInv, CanRegenerate
  <2> HIDE DEF r
  <2>4. TypeOK'
    BY <2>1, <2>2, <2>3 DEF Inv, TypeOK, disk, Outside, Workers
  <2>5. LockInv'
    BY <2>1 DEF Inv, TypeOK, LockInv, Holding, Attempting, Working, Handling
  <2>6. DiskInv'
    BY <2>1, <2>3 DEF Inv, DiskInv, CompletedMeansCommitted, disk
  <2>7. AttemptInv(p)'
    BY <2>1, <2>2, OutsideInv DEF Inv, TypeOK, Attempting, Working, Handling
  <2> QED
    BY <1>1, <2>1, <2>3, <2>4, <2>5, <2>6, <2>7, HolderStep DEF RecordInv, Inv, TypeOK
<1>2. CASE ~(lock = NoProc /\ CanRegenerate(record))
  <2>1. Exit(p) /\ UNCHANGED <<record, lock, disk, issued>> /\ lock # p
    BY <1>2, NoProcAssumption
    DEF PrepareRegeneration, Inv, LockInv, Holding, Attempting, Working, Handling
  <2> QED
    BY <2>1, EndStep
<1> QED
  BY <1>1, <1>2

LEMMA AcquireStep ==
    ASSUME Inv, NEW p \in Procs, Acquire(p)
    PROVE  Inv'
<1>1. CASE lock = NoProc
  <2> DEFINE r == IF worker[p].mode = "resume" THEN Reconciled(record) ELSE record
  <2>1. /\ lock' = p /\ record' = r /\ pc' = [pc EXCEPT ![p] = "locked"]
        /\ UNCHANGED <<disk, issued, worker>> /\ pc[p] = "ready"
    BY <1>1 DEF Acquire, Goto
  <2>2. r \in RunRecords /\ WellFormed(r)
    BY ReconciledType, ReconciledWellFormed DEF Inv, TypeOK, RecordInv
  <2>3. TypeOK'
    BY <2>1, <2>2 DEF Inv, TypeOK, disk, Holding
  <2>4. LockInv'
    BY <1>1, <2>1, NoProcAssumption DEF Inv, TypeOK, LockInv, Holding
  <2>5. r.status = "completed" => record.status = "completed" /\ r = record
    BY DEF Reconciled, Finished, Inv, TypeOK, RunRecords
  <2>6. DiskInv'
    BY <2>1, <2>5 DEF Inv, DiskInv, CompletedMeansCommitted, disk
  <2>7. pc'[p] \notin Attempting
    BY <2>1 DEF Inv, TypeOK, Attempting, Working, Handling
  <2>8. worker'[p].beating # "on"
    BY <2>1 DEF Inv, AttemptInv, Working
  <2>9. AttemptInv(p)'
    BY <2>7, <2>8, OutsideInv
  <2> QED
    BY <1>1, <2>1, <2>2, <2>3, <2>4, <2>6, <2>9, HolderStep DEF RecordInv, Inv, TypeOK
<1>2. CASE lock # NoProc
  <2>1. Exit(p) /\ UNCHANGED <<record, lock, disk, issued>> /\ lock # p
    BY <1>2, NoProcAssumption
    DEF Acquire, Inv, LockInv, Holding, Attempting, Working, Handling
  <2> QED
    BY <2>1, EndStep
<1> QED
  BY <1>1, <1>2

LEMMA RefuseStep ==
    ASSUME Inv, NEW p \in Procs, Refuse(p) \/ Leave(p) \/ Crash(p)
    PROVE  Inv'
<1>1. pc[p] \in {"locked", "committed", "exiting"} => lock = p
  BY DEF Inv, LockInv, Holding, Attempting
<1> QED
  BY <1>1, EndStep DEF Refuse, Leave, Crash

(***************************************************************************)
(* The steps of an attempt.                                                *)
(***************************************************************************)
DiskType ==
    /\ timeline \in BOOLEAN
    /\ checkpoint \in [Segments -> Checkpoints]
    /\ cache \in [Segments -> Nat]
    /\ final \in [DOMAIN FinalFiles -> Nat]
    /\ narration \in [Segments -> Nat]

LEMMA SameAttemptRefl ==
    ASSUME NEW r \in RunRecords, r.status = "running"
    PROVE  SameAttempt(r, r)
BY DEF SameAttempt, RunRecords

LEMMA AttemptStep ==
    ASSUME Inv, NEW p \in Procs, pc[p] \in Holding,
           pc' = [pc EXCEPT ![p] = pc'[p]], pc'[p] \in Holding,
           worker' = [worker EXCEPT ![p] = worker'[p]], worker'[p] \in Workers,
           lock' = lock, issued' \in Nat,
           record' \in RunRecords, WellFormed(record'), DiskType', DiskInv',
           AttemptInv(p)'
    PROVE  Inv'
<1>1. TypeOK'
  BY DEF Inv, TypeOK, DiskType
<1>2. LockInv'
  BY DEF Inv, TypeOK, LockInv
<1> QED
  BY <1>1, <1>2, HolderStep DEF Inv, TypeOK, RecordInv

\* The disk is as it was; the record is not completed by the step.
LEMMA SameDisk ==
    ASSUME Inv, UNCHANGED <<disk, issued>>, record'.status # "completed"
    PROVE  DiskType' /\ DiskInv'
BY DEF Inv, TypeOK, DiskType, DiskInv, CompletedMeansCommitted, disk

LEMMA BeginStep ==
    ASSUME Inv, NEW p \in Procs, Begin(p)
    PROVE  Inv'
<1> DEFINE running == Claimed(record, issued + 1, p, "compiling")
           intent  == IF worker[p].mode = "resume" THEN PersistedBypass(record) ELSE {}
           w(beating) == [worker[p] EXCEPT !.running = running,
                                           !.bypass = @ \cup intent,
                                           !.total = record.total,
                                           !.completed = record.completed,
                                           !.cursor = 0,
                                           !.beating = beating]
<1>1. /\ pc[p] = "locked" /\ lock' = lock /\ issued' = issued + 1
      /\ UNCHANGED disk /\ issued \in Nat /\ record.status # "completed"
  BY DEF Begin, Inv, TypeOK, Claimable
<1>2. record \in RunRecords /\ WellFormed(record) /\ worker[p] \in Workers
  BY DEF Inv, TypeOK, RecordInv
<1>3. /\ running \in RunRecords /\ WellFormed(running) /\ IsOwn(running, p)
      /\ running.attempt = issued + 1 /\ running.status = "running"
  <2>1. issued + 1 \in Nat \ {0} /\ "compiling" \in RunStage
    BY <1>1 DEF RunStage
  <2>2. running \in RunRecords
    BY <1>2, <2>1, ClaimedType
  <2>3. WellFormed(running) /\ IsOwn(running, p)
    BY <1>2, <2>1, ClaimedWellFormed
  <2> QED
    BY <2>2, <2>3 DEF Claimed
<1>4. intent \subseteq Nat
  BY <1>2 DEF PersistedBypass, RunRecords
<1>5. record.total \in Nat /\ record.completed \in Nat /\ record.completed <= record.total
  BY <1>2 DEF RunRecords, WellFormed, ValidRecord, ValidProgress
<1>6. \/ /\ record' = running /\ worker' = [worker EXCEPT ![p] = w("on")]
         /\ pc' = [pc EXCEPT ![p] = "compiling"]
      \/ /\ record' = record /\ worker' = [worker EXCEPT ![p] = w("off")]
         /\ \E h \in Handling : pc' = [pc EXCEPT ![p] = h]
  BY <1>2 DEF Begin, Goto, Inv, TypeOK
<1> HIDE DEF running, intent
<1>7. \A b \in {"on", "off"} : w(b) \in Workers
  BY <1>2, <1>3, <1>4, <1>5 DEF Workers
<1>8. \A b \in {"on", "off"} :
        /\ w(b).running = running /\ w(b).total = record.total
        /\ w(b).completed = record.completed /\ w(b).cursor = 0 /\ w(b).beating = b
  BY <1>2 DEF Workers
<1> HIDE DEF w
<1>9. \A f \in DOMAIN FinalFiles : final[f] <= issued /\ final[f] \in Nat
  BY DEF Inv, DiskInv, TypeOK
<1>10. DiskType' /\ DiskInv'
  BY <1>1, <1>3, <1>6, <1>9
  DEF Inv, TypeOK, DiskType, DiskInv, CompletedMeansCommitted, disk
<1>11. CASE record' = running /\ worker' = [worker EXCEPT ![p] = w("on")]
            /\ pc' = [pc EXCEPT ![p] = "compiling"]
  <2>1. worker'[p] = w("on") /\ pc'[p] = "compiling"
    BY <1>11 DEF Inv, TypeOK
  <2>6. worker'[p] \in Workers /\ pc'[p] \in Holding /\ pc[p] \in Holding
    BY <1>1, <1>7, <2>1 DEF Holding, Attempting, Working
  <2>2. OwnCopy(p)' /\ SameAttempt(record', worker'[p].running)
    BY <1>1, <1>3, <1>5, <1>8, <1>11, <2>1, SameAttemptRefl DEF OwnCopy
  <2>3. Counters(p)' /\ Audio(p)'
    BY <1>8, <2>1 DEF Counters, Audio, Done, Rendered
  <2>4. Artifacts(p)'
    BY <1>1, <1>3, <1>8, <1>9, <2>1 DEF Artifacts, disk
  <2>5. AttemptInv(p)'
    BY <2>1, <2>2, <2>3, <2>4 DEF AttemptInv, Working
  <2>7. pc' = [pc EXCEPT ![p] = pc'[p]] /\ worker' = [worker EXCEPT ![p] = worker'[p]]
    BY <1>11, <2>1
  <2>8. issued' \in Nat /\ lock' = lock
    BY <1>1
  <2>9. record' \in RunRecords /\ WellFormed(record')
    BY <1>3, <1>11
  <2> QED
    BY <1>10, <2>5, <2>6, <2>7, <2>8, <2>9, AttemptStep
<1>12. ASSUME record' = record, worker' = [worker EXCEPT ![p] = w("off")],
              NEW h \in Handling, pc' = [pc EXCEPT ![p] = h]
       PROVE  Inv'
  <2>1. worker'[p] = w("off") /\ pc'[p] = h
    BY <1>12 DEF Inv, TypeOK
  <2>5. worker'[p] \in Workers /\ pc'[p] \in Holding /\ pc[p] \in Holding
    BY <1>1, <1>7, <2>1 DEF Holding, Attempting, Handling
  <2>2. OwnCopy(p)'
    BY <1>1, <1>3, <1>5, <1>8, <2>1 DEF OwnCopy
  <2>3. Counters(p)' /\ Audio(p)' /\ Artifacts(p)'
    BY <2>1 DEF Counters, Audio, Done, Rendered, Artifacts, Working, Handling
  <2>4. AttemptInv(p)'
    BY <1>1, <1>8, <1>12, <2>1, <2>2, <2>3 DEF AttemptInv, Working, Handling
  <2>6. pc' = [pc EXCEPT ![p] = pc'[p]] /\ worker' = [worker EXCEPT ![p] = worker'[p]]
    BY <1>12, <2>1
  <2>7. issued' \in Nat /\ lock' = lock
    BY <1>1
  <2>8. record' \in RunRecords /\ WellFormed(record')
    BY <1>2, <1>12
  <2> QED
    BY <1>10, <2>4, <2>5, <2>6, <2>7, <2>8, AttemptStep
<1> QED
  BY <1>6, <1>11, <1>12

LEMMA SavedProgress ==
    ASSUME Inv, NEW p \in Procs, pc[p] \in Attempting,
           NEW g \in AttemptStages, NEW s \in Nat, record' = Progress(p, g, s),
           worker'[p].running = record', issued' = issued,
           worker'[p].completed = worker[p].completed, worker'[p].total = worker[p].total
    PROVE  /\ record' \in RunRecords /\ WellFormed(record')
           /\ record'.status = "running"
           /\ worker'[p].running.attempt = worker[p].running.attempt
           /\ OwnCopy(p)'
           /\ SameAttempt(record', worker'[p].running)
<1> DEFINE r == Progress(p, g, s)
<1>1. worker \in [Procs -> Workers] /\ issued \in Nat /\ OwnCopy(p)
  BY DEF Inv, TypeOK, AttemptInv
<1>2. r \in RunRecords /\ IsOwn(r, p) /\ r.attempt = worker[p].running.attempt
  BY <1>1, ProgressIsOwn
<1> HIDE DEF r
<1>3. WellFormed(r) /\ r.status = "running"
  BY <1>2, OwnWellFormed DEF IsOwn
<1>4. SameAttempt(r, r)
  BY <1>2, <1>3, SameAttemptRefl
<1>5. record' = r
  BY DEF r
<1>6. OwnCopy(p)'
  BY <1>1, <1>2, <1>5 DEF OwnCopy
<1> QED
  BY <1>2, <1>3, <1>4, <1>5, <1>6

LEMMA WorkStep ==
    ASSUME Inv, NEW p \in Procs, pc[p] \in Holding, NEW l \in Holding, NEW w \in Workers,
           pc' = [pc EXCEPT ![p] = l], worker' = [worker EXCEPT ![p] = w],
           UNCHANGED <<lock, issued>>,
           record' \in RunRecords, WellFormed(record'), DiskType', DiskInv',
           AttemptInv(p)'
    PROVE  Inv'
<1>1. pc'[p] = l /\ worker'[p] = w /\ issued' \in Nat
  BY DEF Inv, TypeOK
<1> QED
  BY <1>1, AttemptStep

LEMMA HolderFacts ==
    ASSUME Inv, NEW p \in Procs
    PROVE  /\ worker[p] \in Workers /\ record \in RunRecords /\ issued \in Nat
           /\ WellFormed(record) /\ DiskType
           /\ pc[p] \in Attempting =>
                 OwnCopy(p) /\ Counters(p) /\ Audio(p) /\ Artifacts(p)
           /\ pc[p] \in Working => /\ SameAttempt(record, worker[p].running)
                                   /\ record.status = "running"
BY DEF Inv, TypeOK, RecordInv, AttemptInv, DiskType, SameAttempt

LEMMA LoadTimelineStep ==
    ASSUME Inv, NEW p \in Procs, LoadTimeline(p)
    PROVE  Inv'
<1> DEFINE w == [worker[p] EXCEPT !.total = SpeechCount, !.completed = 0]
<1>1. /\ pc[p] = "compiling" /\ pc' = [pc EXCEPT ![p] = "compiled"] /\ timeline' = TRUE
      /\ UNCHANGED <<record, lock, checkpoint, cache, final, narration, issued>>
      /\ worker' = [worker EXCEPT ![p] = w]
  BY DEF LoadTimeline, Goto, Inv, TypeOK
<1>2. /\ w \in Workers /\ w.running = worker[p].running /\ w.total = SpeechCount
      /\ w.completed = 0 /\ w.cursor = worker[p].cursor /\ w.beating = worker[p].beating
  BY HolderFacts, SpeechCountAssumption DEF Workers
<1> HIDE DEF w
<1>3. pc'[p] = "compiled" /\ worker'[p] = w
  BY <1>1 DEF Inv, TypeOK
<1>4. DiskType' /\ DiskInv' /\ record' \in RunRecords /\ WellFormed(record')
  BY <1>1, HolderFacts DEF Inv, DiskType, DiskInv, CompletedMeansCommitted, Working
<1>5. OwnCopy(p)'
  BY <1>1, <1>2, <1>3, HolderFacts, SpeechCountAssumption DEF OwnCopy, Attempting, Working
<1>6. worker[p].cursor = 0
  BY <1>1, HolderFacts DEF Counters, Attempting, Working
<1>7. Counters(p)' /\ Audio(p)'
  BY <1>1, <1>2, <1>3, <1>6 DEF Counters, Audio, Done, Rendered, Working
<1>8. Artifacts(p)'
  BY <1>1, <1>2, <1>3, HolderFacts DEF Artifacts, Attempting, Working
<1>9. AttemptInv(p)'
  BY <1>1, <1>2, <1>3, <1>5, <1>7, <1>8, HolderFacts DEF AttemptInv, Working
<1> QED
  BY <1>1, <1>2, <1>4, <1>9, WorkStep DEF Holding, Attempting, Working

LEMMA EnterSynthesisStep ==
    ASSUME Inv, NEW p \in Procs, EnterSynthesis(p)
    PROVE  Inv'
<1> DEFINE r == Progress(p, "synthesizing", 0)
           w == [worker[p] EXCEPT !.running = r]
<1>1. /\ pc[p] = "compiled" /\ pc' = [pc EXCEPT ![p] = "between"] /\ record' = r
      /\ UNCHANGED <<lock, disk, issued>> /\ worker' = [worker EXCEPT ![p] = w]
  BY DEF EnterSynthesis, SaveProgress, Goto, Inv, TypeOK
<1>2. OwnCopy(p) /\ Counters(p) /\ Audio(p) /\ Artifacts(p) /\ worker[p] \in Workers
  BY <1>1, HolderFacts DEF Attempting, Working
<1>3. "synthesizing" \in AttemptStages /\ 0 \in Nat
  BY DEF AttemptStages
<1>4. r \in RunRecords
  BY <1>2, <1>3, HolderFacts, ProgressIsOwn DEF Inv, TypeOK
<1> HIDE DEF r
<1>5. /\ w \in Workers /\ w.running = r /\ w.total = worker[p].total
      /\ w.completed = worker[p].completed /\ w.cursor = worker[p].cursor
      /\ w.beating = worker[p].beating
  BY <1>2, <1>4 DEF Workers
<1> HIDE DEF w
<1>6. pc'[p] = "between" /\ worker'[p] = w
  BY <1>1 DEF Inv, TypeOK
<1>7. /\ record' \in RunRecords /\ WellFormed(record') /\ record'.status = "running"
      /\ worker'[p].running.attempt = worker[p].running.attempt
      /\ OwnCopy(p)' /\ SameAttempt(record', worker'[p].running)
  BY <1>1, <1>3, <1>5, <1>6, SavedProgress DEF Attempting, Working, r
<1>8. DiskType' /\ DiskInv'
  BY <1>1, <1>7, SameDisk
<1>9. Counters(p)' /\ Audio(p)'
  BY <1>1, <1>2, <1>5, <1>6, SpeechCountAssumption
  DEF Counters, Audio, Done, Rendered, Working, disk
<1>10. Artifacts(p)'
  BY <1>1, <1>2, <1>6, <1>7 DEF Artifacts, Working, disk
<1>11. AttemptInv(p)'
  BY <1>6, <1>7, <1>9, <1>10 DEF AttemptInv, Working
<1> QED
  BY <1>1, <1>5, <1>7, <1>8, <1>11, WorkStep DEF Holding, Attempting, Working

LEMMA CompleteSegmentStep ==
    ASSUME Inv, NEW p \in Procs, CompleteSegment(p)
    PROVE  Inv'
<1> DEFINE r == Progress(p, "synthesizing", worker[p].cursor)
           w == [worker[p] EXCEPT !.running = r]
<1>1. /\ pc[p] = "audio" /\ pc' = [pc EXCEPT ![p] = "between"] /\ record' = r
      /\ UNCHANGED <<lock, disk, issued>> /\ worker' = [worker EXCEPT ![p] = w]
  BY DEF CompleteSegment, SaveProgress, Goto, Inv, TypeOK
<1>2. OwnCopy(p) /\ Counters(p) /\ Audio(p) /\ Artifacts(p) /\ worker[p] \in Workers
  BY <1>1, HolderFacts DEF Attempting, Working
<1>3. "synthesizing" \in AttemptStages /\ worker[p].cursor \in Nat
  BY <1>2 DEF AttemptStages, Workers
<1>4. r \in RunRecords
  BY <1>2, <1>3, HolderFacts, ProgressIsOwn DEF Inv, TypeOK
<1> HIDE DEF r
<1>5. /\ w \in Workers /\ w.running = r /\ w.total = worker[p].total
      /\ w.completed = worker[p].completed /\ w.cursor = worker[p].cursor
      /\ w.beating = worker[p].beating /\ w.prepared = worker[p].prepared
      /\ w.bypass = worker[p].bypass
  BY <1>2, <1>4 DEF Workers
<1> HIDE DEF w
<1>6. pc'[p] = "between" /\ worker'[p] = w
  BY <1>1 DEF Inv, TypeOK
<1>7. /\ record' \in RunRecords /\ WellFormed(record') /\ record'.status = "running"
      /\ worker'[p].running.attempt = worker[p].running.attempt
      /\ OwnCopy(p)' /\ SameAttempt(record', worker'[p].running)
  BY <1>1, <1>3, <1>5, <1>6, SavedProgress DEF Attempting, Working, r
<1>8. DiskType' /\ DiskInv'
  BY <1>1, <1>7, SameDisk
<1>9. Counters(p)'
  BY <1>1, <1>2, <1>5, <1>6, SpeechCountAssumption
  DEF Counters, Rendered, Working, disk
<1>10. Audio(p)'
  BY <1>1, <1>2, <1>5, <1>6, <1>7, SpeechCountAssumption
  DEF Audio, Counters, Done, Rendered, Segments, Workers
<1>11. Artifacts(p)'
  BY <1>1, <1>2, <1>5, <1>6, <1>7 DEF Artifacts, Working, disk
<1>12. AttemptInv(p)'
  BY <1>6, <1>7, <1>9, <1>10, <1>11 DEF AttemptInv, Working
<1> QED
  BY <1>1, <1>5, <1>7, <1>8, <1>12, WorkStep DEF Holding, Attempting, Working

LEMMA AssembleStep ==
    ASSUME Inv, NEW p \in Procs, Assemble(p)
    PROVE  Inv'
<1> DEFINE r == Progress(p, "assembling", 0)
           w == [worker[p] EXCEPT !.running = r, !.cursor = 0]
<1>1. /\ pc[p] = "between" /\ pc' = [pc EXCEPT ![p] = "assembling"] /\ record' = r
      /\ UNCHANGED <<lock, disk, issued>> /\ worker' = [worker EXCEPT ![p] = w]
      /\ worker[p].cursor = SpeechCount
  BY DEF Assemble, Goto, Inv, TypeOK
<1>2. OwnCopy(p) /\ Counters(p) /\ Audio(p) /\ Artifacts(p) /\ worker[p] \in Workers
  BY <1>1, HolderFacts DEF Attempting, Working
<1>3. "assembling" \in AttemptStages /\ 0 \in Nat
  BY <1>2 DEF AttemptStages, Workers
<1>4. r \in RunRecords
  BY <1>2, <1>3, HolderFacts, ProgressIsOwn DEF Inv, TypeOK
<1> HIDE DEF r
<1>5. /\ w \in Workers /\ w.running = r /\ w.total = worker[p].total
      /\ w.completed = worker[p].completed /\ w.cursor = 0
      /\ w.beating = worker[p].beating /\ w.prepared = worker[p].prepared
      /\ w.bypass = worker[p].bypass
  BY <1>2, <1>4 DEF Workers
<1> HIDE DEF w
<1>6. pc'[p] = "assembling" /\ worker'[p] = w
  BY <1>1 DEF Inv, TypeOK
<1>7. /\ record' \in RunRecords /\ WellFormed(record') /\ record'.status = "running"
      /\ worker'[p].running.attempt = worker[p].running.attempt
      /\ OwnCopy(p)' /\ SameAttempt(record', worker'[p].running)
  BY <1>1, <1>3, <1>5, <1>6, SavedProgress DEF Attempting, Working, r
<1>8. DiskType' /\ DiskInv'
  BY <1>1, <1>7, SameDisk
<1>9. Counters(p)'
  BY <1>1, <1>2, <1>5, <1>6, SpeechCountAssumption
  DEF Counters, Rendered, Working, disk
<1>10. Audio(p)'
  BY <1>1, <1>2, <1>5, <1>6, <1>7, SpeechCountAssumption
  DEF Audio, Counters, Done, Rendered, Segments, Workers
<1>11. Artifacts(p)'
  BY <1>1, <1>2, <1>5, <1>6, <1>7 DEF Artifacts, Working, disk
<1>12. AttemptInv(p)'
  BY <1>6, <1>7, <1>9, <1>10, <1>11 DEF AttemptInv, Working
<1> QED
  BY <1>1, <1>5, <1>7, <1>8, <1>12, WorkStep DEF Holding, Attempting, Working

LEMMA CheckQualityStep ==
    ASSUME Inv, NEW p \in Procs, CheckQuality(p)
    PROVE  Inv'
<1> DEFINE r == Progress(p, "quality_check", 0)
           w == [worker[p] EXCEPT !.running = r]
<1>1. /\ pc[p] = "assembling" /\ pc' = [pc EXCEPT ![p] = "checking"] /\ record' = r
      /\ UNCHANGED <<lock, disk, issued>> /\ worker' = [worker EXCEPT ![p] = w]
  BY DEF CheckQuality, SaveProgress, Goto, Inv, TypeOK
<1>2. OwnCopy(p) /\ Counters(p) /\ Audio(p) /\ Artifacts(p) /\ worker[p] \in Workers
  BY <1>1, HolderFacts DEF Attempting, Working
<1>3. "quality_check" \in AttemptStages /\ 0 \in Nat
  BY <1>2 DEF AttemptStages, Workers
<1>4. r \in RunRecords
  BY <1>2, <1>3, HolderFacts, ProgressIsOwn DEF Inv, TypeOK
<1> HIDE DEF r
<1>5. /\ w \in Workers /\ w.running = r /\ w.total = worker[p].total
      /\ w.completed = worker[p].completed /\ w.cursor = worker[p].cursor
      /\ w.beating = worker[p].beating /\ w.prepared = worker[p].prepared
      /\ w.bypass = worker[p].bypass
  BY <1>2, <1>4 DEF Workers
<1> HIDE DEF w
<1>6. pc'[p] = "checking" /\ worker'[p] = w
  BY <1>1 DEF Inv, TypeOK
<1>7. /\ record' \in RunRecords /\ WellFormed(record') /\ record'.status = "running"
      /\ worker'[p].running.attempt = worker[p].running.attempt
      /\ OwnCopy(p)' /\ SameAttempt(record', worker'[p].running)
  BY <1>1, <1>3, <1>5, <1>6, SavedProgress DEF Attempting, Working, r
<1>8. DiskType' /\ DiskInv'
  BY <1>1, <1>7, SameDisk
<1>9. Counters(p)'
  BY <1>1, <1>2, <1>5, <1>6, SpeechCountAssumption
  DEF Counters, Rendered, Working, disk
<1>10. Audio(p)'
  BY <1>1, <1>2, <1>5, <1>6, <1>7, SpeechCountAssumption
  DEF Audio, Counters, Done, Rendered, Segments, Workers
<1>11. Artifacts(p)'
  BY <1>1, <1>2, <1>5, <1>6, <1>7, FinalFilesThree DEF Artifacts, Working, disk
<1>12. AttemptInv(p)'
  BY <1>6, <1>7, <1>9, <1>10, <1>11 DEF AttemptInv, Working
<1> QED
  BY <1>1, <1>5, <1>7, <1>8, <1>12, WorkStep DEF Holding, Attempting, Working

LEMMA StartSegmentStep ==
    ASSUME Inv, NEW p \in Procs, StartSegment(p)
    PROVE  Inv'
<1> DEFINE c == worker[p].cursor + 1
           r == Progress(p, "synthesizing", c)
           l == IF worker[p].beating = "dead" THEN "failing" ELSE "segment"
           w == [worker[p] EXCEPT !.running = r, !.cursor = c]
<1>1. /\ pc[p] = "between" /\ pc' = [pc EXCEPT ![p] = l] /\ record' = r
      /\ worker[p].cursor < SpeechCount
      /\ UNCHANGED <<lock, disk, issued>> /\ worker' = [worker EXCEPT ![p] = w]
  BY DEF StartSegment, Goto, Inv, TypeOK
<1>2. OwnCopy(p) /\ Counters(p) /\ Audio(p) /\ Artifacts(p) /\ worker[p] \in Workers
  BY <1>1, HolderFacts DEF Attempting, Working
<1>3. /\ "synthesizing" \in AttemptStages /\ c \in Nat \ {0}
      /\ c - 1 = worker[p].cursor /\ c <= SpeechCount
      /\ l \in {"failing", "segment"}
      /\ worker[p].beating = "on" => l = "segment"
  BY <1>1, <1>2, SpeechCountAssumption DEF AttemptStages, Workers
<1> HIDE DEF c, l
<1>4. r \in RunRecords
  BY <1>2, <1>3, HolderFacts, ProgressIsOwn DEF Inv, TypeOK
<1> HIDE DEF r
<1>5. /\ w \in Workers /\ w.running = r /\ w.total = worker[p].total
      /\ w.completed = worker[p].completed /\ w.cursor = c
      /\ w.beating = worker[p].beating /\ w.prepared = worker[p].prepared
      /\ w.bypass = worker[p].bypass
  BY <1>2, <1>3, <1>4 DEF Workers
<1> HIDE DEF w
<1>6. pc'[p] = l /\ worker'[p] = w
  BY <1>1 DEF Inv, TypeOK
<1>7. /\ record' \in RunRecords /\ WellFormed(record') /\ record'.status = "running"
      /\ worker'[p].running.attempt = worker[p].running.attempt
      /\ OwnCopy(p)' /\ SameAttempt(record', worker'[p].running)
  BY <1>1, <1>3, <1>5, <1>6, SavedProgress DEF Attempting, Working, r
<1>8. DiskType' /\ DiskInv'
  BY <1>1, <1>7, SameDisk
<1>9. Counters(p)'
  BY <1>1, <1>2, <1>3, <1>5, <1>6, SpeechCountAssumption
  DEF Counters, Rendered, Working, disk
<1>10. Audio(p)'
  BY <1>1, <1>2, <1>3, <1>5, <1>6, <1>7, SpeechCountAssumption
  DEF Audio, Counters, Done, Rendered, Segments, Workers
<1>11. Artifacts(p)'
  BY <1>1, <1>2, <1>3, <1>5, <1>6, <1>7 DEF Artifacts, Working, disk
<1>12. AttemptInv(p)'
  BY <1>3, <1>5, <1>6, <1>7, <1>9, <1>10, <1>11 DEF AttemptInv, Working
<1>13. l \in Holding /\ pc[p] \in Holding
  BY <1>1, <1>3 DEF Holding, Attempting, Working, Handling
<1>14. UNCHANGED <<lock, issued>>
  BY <1>1
<1> QED
  BY <1>1, <1>5, <1>7, <1>8, <1>12, <1>13, <1>14, WorkStep

LEMMA StartSynthesisStep ==
    ASSUME Inv, NEW p \in Procs, StartSynthesis(p)
    PROVE  Inv'
<1> DEFINE r == Progress(p, "synthesizing", worker[p].cursor)
           w == [worker[p] EXCEPT !.running = r]
<1>1. /\ pc[p] = "segment" /\ pc' = [pc EXCEPT ![p] = "synthesizing"] /\ record' = r
      /\ UNCHANGED <<lock, timeline, cache, final, narration, issued>> /\ worker' = [worker EXCEPT ![p] = w]
      /\ checkpoint' = [checkpoint EXCEPT ![worker[p].cursor] =
                                             [status |-> "running", version |-> 0]]
  BY DEF StartSynthesis, SaveProgress, Goto, Inv, TypeOK
<1>2. OwnCopy(p) /\ Counters(p) /\ Audio(p) /\ Artifacts(p) /\ worker[p] \in Workers
  BY <1>1, HolderFacts DEF Attempting, Working
<1>3. "synthesizing" \in AttemptStages /\ worker[p].cursor \in Nat
  BY <1>2 DEF AttemptStages, Workers
<1>4. r \in RunRecords
  BY <1>2, <1>3, HolderFacts, ProgressIsOwn DEF Inv, TypeOK
<1> HIDE DEF r
<1>5. /\ w \in Workers /\ w.running = r /\ w.total = worker[p].total
      /\ w.completed = worker[p].completed /\ w.cursor = worker[p].cursor
      /\ w.beating = worker[p].beating /\ w.prepared = worker[p].prepared
      /\ w.bypass = worker[p].bypass
  BY <1>2, <1>4 DEF Workers
<1> HIDE DEF w
<1>6. pc'[p] = "synthesizing" /\ worker'[p] = w
  BY <1>1 DEF Inv, TypeOK
<1>7. /\ record' \in RunRecords /\ WellFormed(record') /\ record'.status = "running"
      /\ worker'[p].running.attempt = worker[p].running.attempt
      /\ OwnCopy(p)' /\ SameAttempt(record', worker'[p].running)
  BY <1>1, <1>3, <1>5, <1>6, SavedProgress DEF Attempting, Working, r
<1>8. DiskType' /\ DiskInv'
  <2>1. checkpoint' \in [Segments -> Checkpoints]
    BY <1>1 DEF Inv, TypeOK, Checkpoints, CheckpointStatus
  <2>2. \A s \in Segments :
          checkpoint'[s].status = "completed" => checkpoint'[s].version # 0
    BY <1>1, <2>1 DEF Inv, DiskInv, TypeOK
  <2> QED
    BY <1>1, <1>7, <2>1, <2>2, HolderFacts
    DEF DiskType, DiskInv, Inv, CompletedMeansCommitted
<1>9. Counters(p)'
  BY <1>1, <1>2, <1>5, <1>6, SpeechCountAssumption
  DEF Counters, Rendered, Working, disk
<1>10. Audio(p)'
  BY <1>1, <1>2, <1>5, <1>6, <1>7, SpeechCountAssumption
  DEF Audio, Counters, Done, Rendered, Segments, Workers
<1>11. Artifacts(p)'
  BY <1>1, <1>2, <1>5, <1>6, <1>7 DEF Artifacts, Working, disk
<1>12. worker[p].cursor \in Segments
  BY <1>1, <1>2, SpeechCountAssumption DEF Counters, Segments, Workers
<1>13. checkpoint'[worker'[p].cursor].status = "running"
  BY <1>1, <1>5, <1>6, <1>12 DEF Inv, TypeOK
<1>14. AttemptInv(p)'
  BY <1>6, <1>7, <1>9, <1>10, <1>11, <1>13 DEF AttemptInv, Working
<1> QED
  BY <1>1, <1>5, <1>7, <1>8, <1>14, WorkStep DEF Holding, Attempting, Working

\* A step of an attempt that saves nothing.
LEMMA KeptCopy ==
    ASSUME Inv, NEW p \in Procs, pc[p] \in Working, UNCHANGED <<record, issued>>,
           worker'[p].running = worker[p].running,
           worker'[p].completed <= worker'[p].total
    PROVE  /\ OwnCopy(p)' /\ SameAttempt(record', worker'[p].running)
           /\ record' \in RunRecords /\ WellFormed(record')
           /\ record'.status = "running"
<1>1. OwnCopy(p)'
  BY HolderFacts, AttemptWorking DEF OwnCopy
<1> QED
  BY <1>1, HolderFacts

LEMMA CursorInSegments ==
    ASSUME Inv, NEW p \in Procs, pc[p] \in {"segment", "synthesizing", "caching"}
    PROVE  /\ worker[p].cursor \in Segments
           /\ worker[p].completed = worker[p].cursor - 1
           /\ worker[p].total = SpeechCount /\ timeline
BY HolderFacts, SpeechCountAssumption
DEF Counters, Segments, Workers, Attempting, Working

\* The cursor's segment gets its audio, from wherever it came.
LEMMA AudioStep ==
    ASSUME Inv, NEW p \in Procs, pc[p] \in {"segment", "caching"},
           NEW v \in Nat \ {0},
           worker[p].cursor \in worker[p].bypass => v = worker[p].running.attempt,
           worker' = [worker EXCEPT ![p] = WithAudio(worker[p], worker[p].cursor, v)],
           Goto(p, "audio"),
           UNCHANGED <<record, lock, timeline, final, narration, issued>>,
           DiskType', DiskInv'
    PROVE  Inv'
<1> DEFINE c == worker[p].cursor
           w == WithAudio(worker[p], c, v)
<1>1. worker[p] \in Workers /\ pc[p] \in Working /\ pc[p] \in Holding
  BY HolderFacts DEF Working, Holding, Attempting
<1>2. OwnCopy(p) /\ Counters(p) /\ Audio(p) /\ Artifacts(p)
  BY <1>1, HolderFacts, AttemptWorking
<1>3. /\ c \in Segments /\ worker[p].completed = c - 1
      /\ worker[p].total = SpeechCount /\ timeline
  BY CursorInSegments
<1>4. /\ w \in Workers /\ w.running = worker[p].running /\ w.total = SpeechCount
      /\ w.completed = c /\ w.cursor = c /\ w.bypass = worker[p].bypass
      /\ w.beating = worker[p].beating
      /\ w.prepared = [worker[p].prepared EXCEPT ![c] = v]
  <2> DEFINE a == [worker[p].prepared EXCEPT ![c] = v]
             n == worker[p].completed + 1
  <2>1. n = c /\ n \in Nat
    BY <1>1, <1>3 DEF Workers, Segments
  <2>2. a \in [Segments -> Nat]
    BY <1>1 DEF Workers
  <2>3. w = [worker[p] EXCEPT !.prepared = a, !.completed = n]
    BY <1>1 DEF WithAudio, Workers
  <2> HIDE DEF a, n, w
  <2>4. /\ w \in Workers /\ w.prepared = a /\ w.completed = n
        /\ w.running = worker[p].running /\ w.total = worker[p].total
        /\ w.cursor = c /\ w.bypass = worker[p].bypass
        /\ w.beating = worker[p].beating
    BY <1>1, <2>1, <2>2, <2>3 DEF Workers
  <2> QED
    BY <1>3, <2>1, <2>4 DEF a
<1> HIDE DEF w
<1>5. worker'[p] = w /\ pc'[p] = "audio"
  BY DEF Inv, TypeOK, Goto, w
<1>6. /\ OwnCopy(p)' /\ SameAttempt(record', worker'[p].running)
      /\ record' \in RunRecords /\ WellFormed(record')
  BY <1>1, <1>3, <1>4, <1>5, KeptCopy DEF Segments
<1>7. Counters(p)'
  BY <1>3, <1>4, <1>5, SpeechCountAssumption DEF Counters, Rendered, Working, Segments
<1>8. Audio(p)'
  <2> SUFFICES ASSUME NEW s \in 1 .. c
               PROVE  /\ w.prepared[s] # 0
                      /\ s \in w.bypass => w.prepared[s] = w.running.attempt
    BY <1>4, <1>5 DEF Audio, Done
  <2>1. s \in Segments /\ worker[p].prepared \in [Segments -> Nat]
    BY <1>1, <1>3 DEF Segments, Workers
  <2>2. CASE s = c
    BY <1>4, <2>1, <2>2
  <2>3. CASE s # c
    <3>1. s \in Done(p)
      BY <1>3, <2>3 DEF Done, Segments
    <3> QED
      BY <1>2, <1>4, <2>1, <2>3, <3>1 DEF Audio
  <2> QED
    BY <2>2, <2>3
<1>9. Artifacts(p)'
  BY <1>2, <1>4, <1>5 DEF Artifacts, Working
<1>10. AttemptInv(p)'
  BY <1>5, <1>6, <1>7, <1>8, <1>9 DEF AttemptInv, Working
<1>11. "audio" \in Holding /\ UNCHANGED <<lock, issued>>
  BY DEF Holding, Attempting, Working
<1>12. pc' = [pc EXCEPT ![p] = "audio"] /\ worker' = [worker EXCEPT ![p] = w]
  BY DEF Goto, w
<1> QED
  BY <1>1, <1>4, <1>6, <1>10, <1>11, <1>12, WorkStep

LEMMA ReuseCheckpointStep ==
    ASSUME Inv, NEW p \in Procs, ReuseCheckpoint(p)
    PROVE  Inv'
<1> DEFINE c == worker[p].cursor
           v == checkpoint[c].version
<1>1. pc[p] = "segment" /\ c \notin worker[p].bypass /\ checkpoint[c].status = "completed"
  BY DEF ReuseCheckpoint, Bypassed
<1>2. c \in Segments
  BY <1>1, CursorInSegments
<1>3. v \in Nat \ {0}
  BY <1>1, <1>2 DEF Inv, TypeOK, Checkpoints, DiskInv
<1>4. /\ worker' = [worker EXCEPT ![p] = WithAudio(worker[p], c, v)]
      /\ Goto(p, "audio") /\ UNCHANGED <<record, lock, disk, issued>>
  BY DEF ReuseCheckpoint, Inv, TypeOK
<1>5. record'.status # "completed"
  BY <1>1, <1>4, HolderFacts DEF Working
<1>6. DiskType' /\ DiskInv'
  BY <1>4, <1>5, SameDisk
<1> QED
  BY <1>1, <1>3, <1>4, <1>6, AudioStep DEF disk

LEMMA ReuseCacheStep ==
    ASSUME Inv, NEW p \in Procs, ReuseCache(p)
    PROVE  Inv'
<1> DEFINE c == worker[p].cursor
           v == cache[c]
<1>1. pc[p] = "segment" /\ c \notin worker[p].bypass /\ v # 0
  BY DEF ReuseCache, Bypassed
<1>2. c \in Segments
  BY <1>1, CursorInSegments
<1>3. v \in Nat \ {0}
  BY <1>1, <1>2 DEF Inv, TypeOK
<1>4. /\ worker' = [worker EXCEPT ![p] = WithAudio(worker[p], c, v)]
      /\ checkpoint' = [checkpoint EXCEPT ![c] = [status |-> "completed", version |-> v]]
      /\ Goto(p, "audio")
      /\ UNCHANGED <<record, lock, timeline, cache, final, narration, issued>>
  BY DEF ReuseCache, Inv, TypeOK
<1>5. record'.status = "running"
  BY <1>1, <1>4, HolderFacts DEF Working
<1>6. DiskType'
  BY <1>3, <1>4 DEF Inv, TypeOK, DiskType, Checkpoints, CheckpointStatus
<1>7. DiskInv'
  BY <1>3, <1>4, <1>5 DEF Inv, TypeOK, DiskInv, CompletedMeansCommitted
<1> QED
  BY <1>1, <1>3, <1>4, <1>6, <1>7, AudioStep

LEMMA FinishSynthesisStep ==
    ASSUME Inv, NEW p \in Procs, FinishSynthesis(p)
    PROVE  Inv'
<1> DEFINE v == worker[p].running.attempt
<1>1. /\ pc[p] = "synthesizing" /\ pc' = [pc EXCEPT ![p] = "caching"]
      /\ checkpoint' = [checkpoint EXCEPT ![worker[p].cursor] =
                                             [status |-> "completed", version |-> v]]
      /\ UNCHANGED <<record, lock, timeline, cache, final, narration, issued, worker>>
  BY DEF FinishSynthesis, Goto
<1>2. worker[p] \in Workers /\ pc[p] \in Working /\ pc[p] \in Holding
  BY <1>1, HolderFacts DEF Working, Holding, Attempting
<1>3. OwnCopy(p) /\ Counters(p) /\ Audio(p) /\ Artifacts(p)
  BY <1>2, HolderFacts, AttemptWorking
<1>4. v \in Nat \ {0}
  BY <1>2, <1>3 DEF OwnCopy, IsOwn, Workers, RunRecords
<1>5. /\ OwnCopy(p)' /\ SameAttempt(record', worker'[p].running)
      /\ record' \in RunRecords /\ WellFormed(record') /\ record'.status = "running"
  BY <1>1, <1>2, <1>3, KeptCopy DEF OwnCopy
<1>6. DiskType'
  BY <1>1, <1>4 DEF Inv, TypeOK, DiskType, Checkpoints, CheckpointStatus
<1>7. DiskInv'
  BY <1>1, <1>4, <1>5 DEF Inv, TypeOK, DiskInv, CompletedMeansCommitted
<1>8. pc'[p] = "caching" /\ worker'[p] = worker[p]
  BY <1>1 DEF Inv, TypeOK
<1>9. Counters(p)' /\ Audio(p)' /\ Artifacts(p)'
  BY <1>1, <1>3, <1>8 DEF Counters, Audio, Done, Rendered, Artifacts, Working
<1>10. AttemptInv(p)'
  BY <1>5, <1>8, <1>9 DEF AttemptInv, Working
<1>11. pc'[p] \in Holding /\ worker'[p] \in Workers
  BY <1>2, <1>8 DEF Holding, Attempting, Working
<1>12. worker' = [worker EXCEPT ![p] = worker'[p]] /\ pc' = [pc EXCEPT ![p] = pc'[p]]
  BY <1>1, <1>8 DEF Inv, TypeOK
<1> QED
  BY <1>1, <1>2, <1>5, <1>6, <1>7, <1>10, <1>11, <1>12, AttemptStep DEF Inv, TypeOK

LEMMA StoreInCacheStep ==
    ASSUME Inv, NEW p \in Procs, StoreInCache(p)
    PROVE  Inv'
<1> DEFINE c == worker[p].cursor
           v == worker[p].running.attempt
<1>1. /\ worker' = [worker EXCEPT ![p] = WithAudio(worker[p], c, v)]
      /\ cache' = [cache EXCEPT ![c] = v] /\ pc[p] = "caching" /\ Goto(p, "audio")
      /\ UNCHANGED <<record, lock, timeline, checkpoint, final, narration, issued>>
  BY DEF StoreInCache, Inv, TypeOK
<1>2. worker[p] \in Workers /\ OwnCopy(p) /\ record.status = "running"
  BY <1>1, HolderFacts DEF Attempting, Working
<1>3. v \in Nat \ {0}
  BY <1>2 DEF OwnCopy, IsOwn, Workers, RunRecords
<1>4. DiskType' /\ DiskInv'
  BY <1>1, <1>2, <1>3 DEF Inv, TypeOK, DiskType, DiskInv, CompletedMeansCommitted
<1> QED
  BY <1>1, <1>3, <1>4, AudioStep

\* One final file of the three; narration.wav is the first.
LEMMA WriteFinalStep ==
    ASSUME Inv, NEW p \in Procs, WriteFinal(p)
    PROVE  Inv'
<1> DEFINE v == worker[p].running.attempt
<1>1. PICK f \in 1 .. 3 :
        /\ final[f] # v
        /\ \A g \in 1 .. f - 1 : final[g] = v
        /\ final' = [final EXCEPT ![f] = v]
        /\ narration' = IF f = 1 THEN worker[p].prepared ELSE narration
        /\ IF f = 3
           THEN /\ pc' = [pc EXCEPT ![p] = "written"]
                /\ worker' = [worker EXCEPT ![p] = [@ EXCEPT !.beating = "off"]]
           ELSE pc' = pc /\ worker' = worker
  BY FinalFilesThree DEF WriteFinal, Goto
<1>2. /\ pc[p] = "checking"
      /\ UNCHANGED <<record, lock, timeline, checkpoint, cache, issued>>
  BY DEF WriteFinal
<1>3. worker[p] \in Workers /\ pc[p] \in Working /\ pc[p] \in Holding
  BY <1>2, HolderFacts DEF Working, Holding, Attempting
<1>4. OwnCopy(p) /\ Counters(p) /\ Audio(p) /\ Artifacts(p)
  BY <1>3, HolderFacts, AttemptWorking
<1>5. v \in Nat /\ v <= issued /\ worker[p].prepared \in [Segments -> Nat]
  BY <1>3, <1>4 DEF OwnCopy, Workers, RunRecords
<1>6. final \in [1 .. 3 -> Nat] /\ \A g \in 1 .. 3 : final[g] <= issued
  BY FinalFilesThree DEF Inv, TypeOK, DiskInv
<1>7. record.status = "running"
  BY <1>3, HolderFacts
<1>8. DiskType'
  BY <1>1, <1>2, <1>5, <1>6, FinalFilesThree DEF Inv, TypeOK, DiskType
<1>9. DiskInv'
  BY <1>1, <1>2, <1>5, <1>6, <1>7, FinalFilesThree
  DEF Inv, DiskInv, CompletedMeansCommitted
<1>10. CASE f = 3
  <2> DEFINE w == [worker[p] EXCEPT !.beating = "off"]
  <2>1. /\ pc' = [pc EXCEPT ![p] = "written"] /\ worker' = [worker EXCEPT ![p] = w]
        /\ narration' = narration
    BY <1>1, <1>10 DEF Inv, TypeOK
  <2>2. /\ w \in Workers /\ w.running = worker[p].running /\ w.total = worker[p].total
        /\ w.completed = worker[p].completed /\ w.cursor = worker[p].cursor
        /\ w.prepared = worker[p].prepared /\ w.bypass = worker[p].bypass
        /\ w.beating = "off"
    BY <1>3 DEF Workers
  <2> HIDE DEF w
  <2>3. pc'[p] = "written" /\ worker'[p] = w
    BY <2>1 DEF Inv, TypeOK
  <2>4. /\ OwnCopy(p)' /\ SameAttempt(record', worker'[p].running)
        /\ record' \in RunRecords /\ WellFormed(record')
    BY <1>2, <1>3, <1>4, <2>2, <2>3, KeptCopy DEF OwnCopy
  <2>5. Counters(p)' /\ Audio(p)'
    BY <1>2, <1>4, <2>2, <2>3 DEF Counters, Audio, Done, Rendered, Working
  <2>6. final'[1] = v /\ final'[2] = v /\ final'[3] = v /\ final[1] = v
    BY <1>1, <1>6, <1>10
  <2>7. Artifacts(p)'
    BY <1>2, <1>4, <2>1, <2>2, <2>3, <2>6, FinalFilesThree DEF Artifacts, Working
  <2>8. AttemptInv(p)'
    BY <2>2, <2>3, <2>4, <2>5, <2>7 DEF AttemptInv, Working
  <2> QED
    BY <1>2, <1>3, <1>8, <1>9, <2>1, <2>2, <2>4, <2>8, WorkStep
    DEF Holding, Attempting, Working
<1>11. CASE f # 3
  <2>1. pc' = pc /\ worker' = worker
    BY <1>1, <1>11
  <2>2. /\ OwnCopy(p)' /\ SameAttempt(record', worker'[p].running)
        /\ record' \in RunRecords /\ WellFormed(record')
    BY <1>2, <1>3, <1>4, <2>1, KeptCopy DEF OwnCopy
  <2>3. Counters(p)' /\ Audio(p)'
    BY <1>2, <1>4, <2>1 DEF Counters, Audio, Done, Rendered
  <2>4. narration' = worker[p].prepared
    BY <1>1, <1>2, <1>4, <1>11 DEF Artifacts
  <2>5. Artifacts(p)'
    BY <1>2, <2>1, <2>4 DEF Artifacts, Working
  <2>6. AttemptInv(p)'
    BY <1>2, <2>1, <2>2, <2>3, <2>5 DEF Inv, AttemptInv, Working
  <2> QED
    BY <1>2, <1>3, <1>8, <1>9, <2>1, <2>2, <2>6, AttemptStep DEF Inv, TypeOK
<1> QED
  BY <1>10, <1>11

LEMMA CommitStep ==
    ASSUME Inv, NEW p \in Procs, Commit(p)
    PROVE  Inv'
<1> DEFINE r == Settled(p, "completed", "completed", 0, "none")
<1>1. /\ pc[p] = "written" /\ pc' = [pc EXCEPT ![p] = "committed"] /\ record' = r
      /\ UNCHANGED <<lock, disk, issued, worker>>
  BY DEF Commit, Goto
<1>2. worker[p] \in Workers /\ pc[p] \in Working /\ pc[p] \in Holding
  BY <1>1, HolderFacts DEF Working, Holding, Attempting
<1>3. OwnCopy(p) /\ Counters(p) /\ Audio(p) /\ Artifacts(p)
  BY <1>2, HolderFacts, AttemptWorking
<1>4. worker[p].completed = worker[p].total /\ timeline
  BY <1>1, <1>3 DEF Counters, Rendered, Working
<1>5. /\ r \in RunRecords /\ WellFormed(r) /\ r.status = "completed"
      /\ r.attempt = worker[p].running.attempt
  <2>1. worker \in [Procs -> Workers] /\ issued \in Nat /\ 0 \in Nat
    BY DEF Inv, TypeOK
  <2>2. "completed" \in RunStage /\ "none" \in InterruptionKind
    BY DEF RunStage, InterruptionKind
  <2> QED
    BY <1>3, <1>4, <2>1, <2>2, SettledWellFormed
<1> HIDE DEF r
<1>6. \A s \in Segments : narration[s] # 0
  BY <1>1, <1>3 DEF Audio, Done, Rendered, Artifacts
<1>7. CompletedMeansCommitted'
  BY <1>1, <1>3, <1>4, <1>5, <1>6 DEF CompletedMeansCommitted, Artifacts, disk
<1>8. DiskType' /\ DiskInv'
  BY <1>1, <1>7 DEF Inv, TypeOK, DiskType, DiskInv, disk
<1>9. pc'[p] = "committed"
  BY <1>1 DEF Inv, TypeOK
<1>10. OwnCopy(p)' /\ Counters(p)' /\ Audio(p)' /\ Artifacts(p)'
  BY <1>1, <1>3, <1>9 DEF OwnCopy, Counters, Audio, Done, Rendered, Artifacts, Working, disk
<1>11. AttemptInv(p)'
  BY <1>1, <1>5, <1>9, <1>10 DEF Inv, AttemptInv, Working
<1>12. "committed" \in Holding /\ worker' = [worker EXCEPT ![p] = worker[p]]
  BY <1>1 DEF Holding, Attempting, Inv, TypeOK
<1> QED
  BY <1>1, <1>2, <1>5, <1>8, <1>11, <1>12, WorkStep

(***************************************************************************)
(* Failure, signals and their handlers.                                    *)
(***************************************************************************)
LEMMA CursorsNat ==
    ASSUME Inv, NEW p \in Procs
    PROVE  Cursors(p) \subseteq Nat
BY HolderFacts DEF Cursors, Segments, Workers

\* The heartbeat stops and a handler takes over; the record is as it was.
LEMMA HandlerStep ==
    ASSUME Inv, NEW p \in Procs, pc[p] \in Attempting,
           NEW l \in Handling \cup {"exiting"}, NEW s \in Nat, Goto(p, l),
           worker' = [worker EXCEPT ![p] = [@ EXCEPT !.beating = "off", !.cursor = s]],
           UNCHANGED <<record, lock, timeline, cache, final, narration, issued>>,
           checkpoint' \in [Segments -> Checkpoints],
           \A i \in Segments :
              checkpoint'[i].status = "completed" => checkpoint'[i] = checkpoint[i]
    PROVE  Inv'
<1> DEFINE w == [worker[p] EXCEPT !.beating = "off", !.cursor = s]
<1>1. worker' = [worker EXCEPT ![p] = w] /\ pc' = [pc EXCEPT ![p] = l]
  BY DEF Inv, TypeOK, Goto
<1>2. worker[p] \in Workers /\ OwnCopy(p) /\ record \in RunRecords /\ WellFormed(record)
  BY HolderFacts
<1>3. /\ w \in Workers /\ w.running = worker[p].running /\ w.total = worker[p].total
      /\ w.completed = worker[p].completed /\ w.beating = "off"
  BY <1>2 DEF Workers
<1> HIDE DEF w
<1>4. pc'[p] = l /\ worker'[p] = w
  BY <1>1 DEF Inv, TypeOK
<1>5. DiskType' /\ DiskInv'
  BY DEF Inv, TypeOK, DiskType, DiskInv, CompletedMeansCommitted
<1>6. OwnCopy(p)' /\ Counters(p)' /\ Audio(p)' /\ Artifacts(p)'
  BY <1>2, <1>3, <1>4
  DEF OwnCopy, Counters, Audio, Done, Rendered, Artifacts, Working, Handling
<1>7. AttemptInv(p)'
  BY <1>3, <1>4, <1>6 DEF AttemptInv, Working, Handling
<1>8. l \in Holding /\ pc[p] \in Holding
  BY AttemptWorking DEF Holding, Attempting
<1> QED
  BY <1>1, <1>2, <1>3, <1>5, <1>7, <1>8, WorkStep

LEMMA RaiseStep ==
    ASSUME Inv, NEW p \in Procs, Raise(p)
    PROVE  Inv'
<1>1. PICK s \in Cursors(p) :
        worker' = [worker EXCEPT ![p].beating = "off", ![p].cursor = s]
  BY DEF Raise
<1>2. /\ pc[p] \in Attempting /\ Goto(p, "failing") /\ s \in Nat
      /\ UNCHANGED <<record, lock, timeline, cache, final, narration, issued>>
  BY CursorsNat DEF Raise, Attempting
<1>3. worker' = [worker EXCEPT ![p] = [@ EXCEPT !.beating = "off", !.cursor = s]]
  BY <1>1 DEF Inv, TypeOK, Workers
<1>4. /\ checkpoint' \in [Segments -> Checkpoints]
      /\ \A i \in Segments :
            checkpoint'[i].status = "completed" => checkpoint'[i] = checkpoint[i]
  <2>1. CASE UNCHANGED checkpoint
    BY <2>1 DEF Inv, TypeOK
  <2>2. CASE checkpoint' = [checkpoint EXCEPT ![worker[p].cursor].status = "failed"]
    BY <2>2 DEF Inv, TypeOK, Checkpoints, CheckpointStatus
  <2> QED
    BY <2>1, <2>2 DEF Raise
<1> QED
  BY <1>2, <1>3, <1>4, HandlerStep DEF Handling

\* An attempt ends with the record its handler saved.
LEMMA SettleStep ==
    ASSUME Inv, NEW p \in Procs, pc[p] \in Handling, Goto(p, "exiting"),
           worker' = [worker EXCEPT ![p] = [@ EXCEPT !.beating = "off"]] \/ UNCHANGED worker,
           UNCHANGED <<lock, disk, issued>>,
           record' \in RunRecords, WellFormed(record'), record'.status # "completed"
    PROVE  Inv'
<1>1. DiskType' /\ DiskInv'
  BY SameDisk
<1>2. pc' = [pc EXCEPT ![p] = "exiting"] /\ pc'[p] = "exiting"
  BY DEF Goto, Inv, TypeOK
<1>3. worker[p] \in Workers /\ worker[p].beating # "on" /\ pc[p] \in Holding
  BY HolderFacts DEF Inv, AttemptInv, Working, Handling, Holding, Attempting
<1>4. PICK w \in Workers : worker' = [worker EXCEPT ![p] = w] /\ w.beating # "on"
  <2>1. CASE UNCHANGED worker
    BY <1>3, <2>1 DEF Inv, TypeOK
  <2>2. CASE worker' = [worker EXCEPT ![p] = [@ EXCEPT !.beating = "off"]]
    <3>1. /\ [worker[p] EXCEPT !.beating = "off"] \in Workers
          /\ [worker[p] EXCEPT !.beating = "off"].beating = "off"
      BY <1>3 DEF Workers
    <3> QED
      BY <2>2, <3>1 DEF Inv, TypeOK
  <2> QED
    BY <2>1, <2>2
<1>5. worker'[p] = w
  BY <1>4 DEF Inv, TypeOK
<1>6. AttemptInv(p)'
  BY <1>2, <1>4, <1>5, OutsideInv DEF Attempting, Working, Handling
<1>7. "exiting" \in Holding
  BY DEF Holding
<1> QED
  BY <1>1, <1>2, <1>3, <1>4, <1>6, <1>7, WorkStep

LEMMA SaveFailedStep ==
    ASSUME Inv, NEW p \in Procs, SaveFailed(p)
    PROVE  Inv'
<1> DEFINE r == Settled(p, "failed", worker[p].running.stage, worker[p].cursor, "none")
<1>1. /\ pc[p] = "failing" /\ Goto(p, "exiting") /\ UNCHANGED <<lock, disk, issued>>
      /\ record' = [r EXCEPT !.failedSegment = worker[p].cursor]
      /\ worker' = [worker EXCEPT ![p] = [@ EXCEPT !.beating = "off"]]
  BY DEF SaveFailed, Inv, TypeOK
<1>2. /\ worker \in [Procs -> Workers] /\ issued \in Nat
      /\ worker[p].running.stage \in AttemptStages /\ worker[p].cursor \in Nat /\ OwnCopy(p)
  BY <1>1, HolderFacts DEF Inv, TypeOK, Workers, OwnCopy, IsOwn, Attempting, Handling
<1>3. "none" \in InterruptionKind /\ AttemptStages \subseteq RunStage
  BY DEF InterruptionKind, AttemptStages, RunStage
<1>4. r \in RunRecords /\ WellFormed(r) /\ r.status = "failed"
  BY <1>2, <1>3, SettledWellFormed
<1> HIDE DEF r
<1>5. /\ record' \in RunRecords /\ record'.status = "failed"
      /\ record'.form = r.form /\ record'.stage = r.stage /\ record'.lease = r.lease
      /\ record'.interruption = r.interruption /\ record'.attempt = r.attempt
      /\ record'.owner = r.owner /\ record'.attempts = r.attempts
      /\ record'.total = r.total /\ record'.completed = r.completed
  BY <1>1, <1>2, <1>4 DEF RunRecords
<1>6. WellFormed(record')
  BY <1>4, <1>5
  DEF WellFormed, ValidRecord, ValidOwnership, ValidProgress, ValidExecution, ValidSource,
      IsActive
<1> QED
  BY <1>1, <1>5, <1>6, SettleStep DEF Handling

LEMMA SaveInterruptedStep ==
    ASSUME Inv, NEW p \in Procs, SaveInterrupted(p)
    PROVE  Inv'
<1> DEFINE r == Settled(p, "interrupted", worker[p].running.stage, worker[p].cursor, "signal")
<1>1. /\ pc[p] = "stopping" /\ Goto(p, "exiting") /\ UNCHANGED <<lock, disk, issued, worker>>
      /\ record' = r
  BY DEF SaveInterrupted
<1>2. /\ worker \in [Procs -> Workers] /\ issued \in Nat
      /\ worker[p].running.stage \in AttemptStages /\ worker[p].cursor \in Nat /\ OwnCopy(p)
  BY <1>1, HolderFacts DEF Inv, TypeOK, Workers, OwnCopy, IsOwn, Attempting, Handling
<1>3. "signal" \in InterruptionKind /\ AttemptStages \subseteq RunStage
  BY DEF InterruptionKind, AttemptStages, RunStage
<1>4. r \in RunRecords /\ WellFormed(r) /\ r.status = "interrupted"
  BY <1>2, <1>3, SettledWellFormed
<1> QED
  BY <1>1, <1>4, SettleStep DEF Handling

LEMMA SignalStep ==
    ASSUME Inv, NEW p \in Procs, Signal(p)
    PROVE  Inv'
<1>1. ASSUME pc[p] \in Working \cup {"committed"}, NEW s \in Cursors(p),
             worker' = [worker EXCEPT ![p].beating = "off", ![p].cursor = s],
             Goto(p, "stopping"), UNCHANGED <<record, lock, disk, issued>>
      PROVE  Inv'
  <2>1. s \in Nat /\ pc[p] \in Attempting
    BY <1>1, CursorsNat DEF Attempting
  <2>2. worker' = [worker EXCEPT ![p] = [@ EXCEPT !.beating = "off", !.cursor = s]]
    BY <1>1 DEF Inv, TypeOK, Workers
  <2> QED
    BY <1>1, <2>1, <2>2, HandlerStep DEF Handling, disk, Inv, TypeOK
<1>2. ASSUME pc[p] \in Handling, worker' = [worker EXCEPT ![p].beating = "off"],
             Goto(p, "exiting"), UNCHANGED <<record, lock, disk, issued>>
      PROVE  Inv'
  <2>1. worker[p].cursor \in Nat /\ pc[p] \in Attempting
    BY <1>2, HolderFacts DEF Attempting, Workers
  <2>2. worker' = [worker EXCEPT ![p] = [@ EXCEPT !.beating = "off",
                                                  !.cursor = worker[p].cursor]]
    BY <1>2 DEF Inv, TypeOK, Workers
  <2> QED
    BY <1>2, <2>1, <2>2, HandlerStep DEF disk, Inv, TypeOK
<1>3. ASSUME pc[p] = "locked", lock' = NoProc, Exit(p), UNCHANGED <<record, disk, issued>>
      PROVE  Inv'
  BY <1>3, EndStep DEF Inv, LockInv, Holding
<1> QED
  BY <1>1, <1>2, <1>3 DEF Signal

(***************************************************************************)
(* The heartbeat thread, time, and reconciliation.                         *)
(***************************************************************************)
LEMMA RenewedIsSame ==
    ASSUME NEW r \in RunRecords, NEW own \in RunRecords, SameAttempt(r, own)
    PROVE  /\ SameAttempt(Beat(r, r.stage, 0), own)
           /\ SameAttempt([r EXCEPT !.lease = "lapsed"], own)
<1>1. r = [own EXCEPT !.lease = r.lease, !.segment = r.segment] /\ r.status = "running"
  BY DEF SameAttempt
<1>2. SameAttempt(Beat(r, r.stage, 0), own)
  <2> DEFINE b == Beat(r, r.stage, 0)
  <2>1. b.status = "running" /\ b.lease = "live" /\ b.segment = 0
    BY <1>1 DEF Beat, RunRecords
  <2>2. b = [own EXCEPT !.lease = "live", !.segment = 0]
    BY <1>1 DEF Beat, RunRecords
  <2> QED
    BY <2>1, <2>2 DEF SameAttempt
<1>3. SameAttempt([r EXCEPT !.lease = "lapsed"], own)
  <2> DEFINE b == [r EXCEPT !.lease = "lapsed"]
  <2>1. b.status = "running" /\ b.lease = "lapsed" /\ b.segment = r.segment
    BY <1>1 DEF RunRecords
  <2>2. b = [own EXCEPT !.lease = "lapsed", !.segment = r.segment]
    BY <1>1 DEF RunRecords
  <2> QED
    BY <2>1, <2>2 DEF SameAttempt
<1> QED
  BY <1>2, <1>3

LEMMA HeartbeatDiesStep ==
    ASSUME Inv, NEW p \in Procs, worker[p].beating = "on",
           worker' = [worker EXCEPT ![p] = [@ EXCEPT !.beating = "dead"]],
           UNCHANGED <<record, lock, disk, issued, pc>>
    PROVE  Inv'
<1> DEFINE w == [worker[p] EXCEPT !.beating = "dead"]
<1>1. pc[p] \in Working /\ pc[p] \in Holding /\ worker[p] \in Workers
  BY HolderFacts, AttemptWorking DEF Inv, AttemptInv
<1>2. OwnCopy(p) /\ Counters(p) /\ Audio(p) /\ Artifacts(p) /\ record.status = "running"
  BY <1>1, HolderFacts, AttemptWorking
<1>3. /\ w \in Workers /\ w.running = worker[p].running /\ w.total = worker[p].total
      /\ w.completed = worker[p].completed /\ w.cursor = worker[p].cursor
      /\ w.prepared = worker[p].prepared /\ w.bypass = worker[p].bypass
      /\ w.beating = "dead"
  BY <1>1 DEF Workers
<1>4. worker' = [worker EXCEPT ![p] = w]
  BY DEF Inv, TypeOK
<1> HIDE DEF w
<1>5. worker'[p] = w /\ pc'[p] = pc[p]
  BY <1>4 DEF Inv, TypeOK
<1>6. /\ OwnCopy(p)' /\ SameAttempt(record', worker'[p].running)
      /\ record' \in RunRecords /\ WellFormed(record') /\ record'.status = "running"
  BY <1>1, <1>2, <1>3, <1>5, KeptCopy DEF OwnCopy
<1>7. Counters(p)' /\ Audio(p)' /\ Artifacts(p)'
  BY <1>2, <1>3, <1>5 DEF Counters, Audio, Done, Artifacts, disk
<1>8. pc[p] = "synthesizing" => checkpoint'[worker'[p].cursor].status = "running"
  BY <1>3, <1>5 DEF Inv, AttemptInv, disk
<1>9. AttemptInv(p)'
  BY <1>1, <1>3, <1>5, <1>6, <1>7, <1>8 DEF Inv, AttemptInv, Working
<1>10. DiskType' /\ DiskInv'
  BY <1>6, SameDisk
<1>11. pc' = [pc EXCEPT ![p] = pc[p]]
  BY DEF Inv, TypeOK
<1> QED
  BY <1>1, <1>3, <1>4, <1>6, <1>9, <1>10, <1>11, WorkStep

LEMMA HeartbeatStep ==
    ASSUME Inv, NEW p \in Procs, Heartbeat(p)
    PROVE  Inv'
<1>1. CASE record.status = "running" /\ record.attempt = worker[p].running.attempt
  <2> DEFINE r == Beat(record, record.stage, 0)
  <2>1. record' = r /\ UNCHANGED <<lock, disk, issued, pc, worker>>
    BY <1>1 DEF Heartbeat
  <2>2. /\ pc[p] \in Working /\ pc[p] \in Holding /\ worker[p] \in Workers
        /\ record \in RunRecords /\ WellFormed(record)
        /\ SameAttempt(record, worker[p].running)
    BY HolderFacts, AttemptWorking DEF Heartbeat, Inv, AttemptInv
  <2>3. r \in RunRecords /\ WellFormed(r) /\ r.status = "running"
    BY <1>1, <2>2, BeatType, BeatWellFormed DEF Beat, RunRecords
  <2>4. SameAttempt(r, worker[p].running)
    BY <2>2, RenewedIsSame DEF Workers
  <2> HIDE DEF r
  <2>5. DiskType' /\ DiskInv'
    BY <2>1, <2>3, SameDisk
  <2>6. OwnCopy(p) /\ Counters(p) /\ Audio(p) /\ Artifacts(p)
    BY <2>2, HolderFacts, AttemptWorking
  <2>7. OwnCopy(p)' /\ Counters(p)' /\ Audio(p)' /\ Artifacts(p)'
    BY <2>1, <2>6 DEF OwnCopy, Counters, Audio, Done, Artifacts, disk
  <2>8. AttemptInv(p)'
    BY <2>1, <2>2, <2>4, <2>7 DEF Inv, AttemptInv, Working, disk
  <2>9. pc' = [pc EXCEPT ![p] = pc'[p]] /\ worker' = [worker EXCEPT ![p] = worker'[p]]
    BY <2>1 DEF Inv, TypeOK
  <2> QED
    BY <2>1, <2>2, <2>3, <2>5, <2>8, <2>9, AttemptStep DEF Inv, TypeOK
<1>2. CASE ~(record.status = "running" /\ record.attempt = worker[p].running.attempt)
  <2>1. worker' = [worker EXCEPT ![p] = [@ EXCEPT !.beating = "dead"]]
    BY <1>2 DEF Heartbeat, Inv, TypeOK
  <2> QED
    BY <1>2, <2>1, HeartbeatDiesStep DEF Heartbeat
<1> QED
  BY <1>1, <1>2

LEMMA LapseStep ==
    ASSUME Inv, Lapse
    PROVE  Inv'
<1> DEFINE r == [record EXCEPT !.lease = "lapsed"]
<1>1. record' = r /\ record.lease = "live" /\ UNCHANGED <<lock, disk, issued, pc, worker>>
  BY DEF Lapse
<1>2. record \in RunRecords /\ WellFormed(record)
  BY DEF Inv, TypeOK, RecordInv
<1>3. r \in RunRecords /\ WellFormed(r) /\ r.status = record.status
  BY <1>1, <1>2, LapsedWellFormed DEF RunRecords
<1>4. record.status = "running"
  BY <1>1, <1>2 DEF WellFormed, ValidRecord, ValidExecution, IsActive
<1>5. ASSUME NEW q \in Procs PROVE AttemptInv(q)'
  <2>1. pc[q] \in Working => SameAttempt(r, worker[q].running)
    BY <1>2, HolderFacts, RenewedIsSame DEF Workers
  <2> QED
    BY <1>1, <2>1
    DEF Inv, AttemptInv, OwnCopy, Counters, Audio, Done, Artifacts, disk
<1> HIDE DEF r
<1>6. TypeOK' /\ LockInv' /\ RecordInv' /\ DiskInv'
  BY <1>1, <1>3, <1>4
  DEF Inv, TypeOK, LockInv, RecordInv, DiskInv, CompletedMeansCommitted, disk
<1> QED
  BY <1>5, <1>6 DEF Inv

LEMMA ReconcileStep ==
    ASSUME Inv, Reconcile
    PROVE  Inv'
<1> DEFINE r == Reconciled(record)
<1>1. record' = r /\ lock = NoProc /\ UNCHANGED <<lock, disk, issued, pc, worker>>
  BY DEF Reconcile
<1>2. record \in RunRecords /\ WellFormed(record)
  BY DEF Inv, TypeOK, RecordInv
<1>3. r \in RunRecords /\ WellFormed(r) /\ r.status # "completed"
  BY <1>2, ReconciledType, ReconciledWellFormed
  DEF Reconcile, Reconciled, Finished, RunRecords, Stale
<1> HIDE DEF r
<1>4. ASSUME NEW q \in Procs PROVE AttemptInv(q)'
  <2>1. pc[q] \notin Attempting
    BY <1>1, AttemptWorking, NoProcAssumption DEF Inv, LockInv
  <2> QED
    BY <1>1, <2>1, AttemptWorking, OutsideInv DEF Inv, AttemptInv
<1>5. TypeOK' /\ LockInv' /\ RecordInv' /\ DiskInv'
  BY <1>1, <1>3
  DEF Inv, TypeOK, LockInv, RecordInv, DiskInv, CompletedMeansCommitted, disk
<1> QED
  BY <1>4, <1>5 DEF Inv

(***************************************************************************)
(* The inductive invariant.                                                *)
(***************************************************************************)
LEMMA InitInv == Init => Inv
<1> SUFFICES ASSUME Init PROVE Inv
  OBVIOUS
<1>1. PICK form \in Forms : record = QueuedRecord(form)
  BY DEF Init
<1>2. form \in SourceForm /\ form # "pending"
  BY FormsAssumption DEF SourceForm
<1>3. record \in RunRecords
  BY <1>1, <1>2, QueuedType
<1>4. RecordInv
  BY <1>1, <1>2
  DEF RecordInv, WellFormed, ValidRecord, ValidOwnership, ValidProgress, ValidExecution,
      ValidSource, IsActive, PlanningStages, QueuedRecord
<1>5. TypeOK
  BY <1>3, NewWorkerType
  DEF Init, TypeOK, Checkpoints, CheckpointStatus, NoCheckpoint, Outside
<1>6. LockInv
  BY NoProcAssumption DEF Init, LockInv, Holding, Attempting, Working, Handling
<1>7. DiskInv
  BY <1>1 DEF Init, DiskInv, CompletedMeansCommitted, QueuedRecord, NoCheckpoint
<1>8. ASSUME NEW p \in Procs PROVE AttemptInv(p)
  BY DEF Init, AttemptInv, NewWorker, Attempting, Working, Handling
<1> QED
  BY <1>4, <1>5, <1>6, <1>7, <1>8 DEF Inv

LEMMA NextInv == Inv /\ [Next]_vars => Inv'
<1> SUFFICES ASSUME Inv, [Next]_vars PROVE Inv'
  OBVIOUS
<1>1. CASE UNCHANGED vars
  <2>1. TypeOK' /\ LockInv' /\ RecordInv'
    BY <1>1 DEF vars, Inv, TypeOK, LockInv, RecordInv
  <2>2. DiskInv'
    BY <1>1 DEF vars, Inv, DiskInv, CompletedMeansCommitted
  <2>3. ASSUME NEW p \in Procs PROVE AttemptInv(p)'
    BY <1>1 DEF vars, Inv, AttemptInv, OwnCopy, Counters, Audio, Done, Artifacts
  <2> QED
    BY <2>1, <2>2, <2>3 DEF Inv
<1>2. ASSUME NEW p \in Procs, Command(p) PROVE Inv'
  BY <1>2, LaunchStep, PrepareRegenerationStep, AcquireStep DEF Command
<1>3. ASSUME NEW p \in Procs, Step(p) PROVE Inv'
  BY <1>3, BeginStep, RefuseStep, LoadTimelineStep, EnterSynthesisStep, StartSegmentStep,
     ReuseCheckpointStep, ReuseCacheStep, StartSynthesisStep, FinishSynthesisStep,
     StoreInCacheStep, CompleteSegmentStep, AssembleStep, CheckQualityStep, WriteFinalStep,
     CommitStep, SaveFailedStep, SaveInterruptedStep
  DEF Step
<1>4. ASSUME NEW p \in Procs, Fault(p) PROVE Inv'
  <2>1. CASE HeartbeatDies(p)
    <3>1. worker' = [worker EXCEPT ![p] = [@ EXCEPT !.beating = "dead"]]
      BY <2>1 DEF HeartbeatDies, Inv, TypeOK
    <3> QED
      BY <2>1, <3>1, HeartbeatDiesStep DEF HeartbeatDies
  <2> QED
    BY <1>4, <2>1, RaiseStep, SignalStep, RefuseStep DEF Fault
<1>5. ASSUME NEW p \in Procs, Heartbeat(p) PROVE Inv'
  BY <1>5, HeartbeatStep
<1> QED
  BY <1>1, <1>2, <1>3, <1>4, <1>5, LapseStep, ReconcileStep DEF Next

\* The relation between lock, record, disk and the holder's memory that every
\* step of the worker, its heartbeat, a signal, a crash or another command keeps.
THEOREM Invariant == Spec => []Inv
BY InitInv, NextInv, PTL DEF Spec

(***************************************************************************)
(* What follows from it.                                                   *)
(***************************************************************************)

\* Every variable keeps its type, for any number of processes and segments.
THEOREM TypesAreKept == Spec => []TypeOK
BY Invariant, PTL DEF Inv

\* No writer ever builds a record that the validator of runs.py refuses.
THEOREM RecordsAreValid == Spec => []RecordStaysValid
<1>1. Inv => RecordStaysValid
  BY DEF Inv, RecordInv, WellFormed, RecordStaysValid
<1> QED
  BY <1>1, Invariant, PTL

\* The worker's blind saves lose no update: nobody else wrote in between.
THEOREM NoUpdateIsLost == Spec => []NoLostUpdate
<1>1. Inv => NoLostUpdate
  BY DEF Inv, AttemptInv, NoLostUpdate
<1> QED
  BY <1>1, Invariant, PTL

\* A completed record has all its artifacts, of the attempt that committed it.
THEOREM CompletionIsCommitted == Spec => []CompletedMeansCommitted
BY Invariant, PTL DEF Inv, DiskInv

\* A bypassed segment reaches narration.wav newly synthesized.
THEOREM BypassIsHonoured == Spec => []BypassedIsFresh
<1>1. Inv => BypassedIsFresh
  <2> SUFFICES ASSUME Inv, NEW p \in Procs, pc[p] = "written",
                      NEW s \in worker[p].bypass \cap Segments
               PROVE  narration[s] = worker[p].running.attempt
    BY DEF BypassedIsFresh
  <2>1. Audio(p) /\ Artifacts(p)
    BY HolderFacts DEF Attempting, Working
  <2> QED
    BY <2>1 DEF Audio, Artifacts, Done, Rendered
<1> QED
  BY <1>1, Invariant, PTL

\* A completed checkpoint is replaced only by the lock's holder bypassing it.
THEOREM CheckpointsAreKept == Spec => CheckpointsKept
<1> DEFINE Stays == \A s \in Segments :
                      checkpoint[s].status = "completed" /\ checkpoint'[s] # checkpoint[s] =>
                          \E p \in Procs : lock = p /\ s \in worker[p].bypass
<1>1. Inv /\ [Next]_vars => [Stays]_vars
  <2> SUFFICES ASSUME Inv, Next, NEW s \in Segments,
                      checkpoint[s].status = "completed", checkpoint'[s] # checkpoint[s]
               PROVE  \E p \in Procs : lock = p /\ s \in worker[p].bypass
    OBVIOUS
  <2>1. ASSUME NEW p \in Procs, StartSynthesis(p)
        PROVE  lock = p /\ s \in worker[p].bypass
    <3>1. lock = p /\ worker[p].cursor \in Segments
      BY <2>1, CursorInSegments
      DEF StartSynthesis, Inv, LockInv, Holding, Attempting, Working
    <3>2. s = worker[p].cursor
      BY <2>1, <3>1 DEF StartSynthesis, Inv, TypeOK
    <3> QED
      BY <2>1, <3>1, <3>2 DEF StartSynthesis, Bypassed
  <2>2. ASSUME NEW p \in Procs,
               ReuseCache(p) \/ FinishSynthesis(p) \/ Raise(p)
        PROVE  FALSE
    <3>1. CASE ReuseCache(p)
      <4>1. worker[p].cursor \in Segments
        BY <3>1, CursorInSegments DEF ReuseCache
      <4> QED
        BY <3>1, <4>1 DEF ReuseCache, Inv, TypeOK
    <3>2. CASE FinishSynthesis(p)
      <4>1. worker[p].cursor \in Segments /\ checkpoint[worker[p].cursor].status = "running"
        BY <3>2, CursorInSegments DEF FinishSynthesis, Inv, AttemptInv
      <4> QED
        BY <3>2, <4>1 DEF FinishSynthesis, Inv, TypeOK
    <3>3. CASE Raise(p)
      <4>1. pc[p] = "synthesizing" =>
              /\ worker[p].cursor \in Segments
              /\ checkpoint[worker[p].cursor].status = "running"
        BY CursorInSegments DEF Inv, AttemptInv
      <4> QED
        BY <3>3, <4>1 DEF Raise, Inv, TypeOK
    <3> QED
      BY <2>2, <3>1, <3>2, <3>3
  <2>3. ASSUME NEW p \in Procs, Command(p) \/ Heartbeat(p)
        PROVE  FALSE
    BY <2>3 DEF Command, Launch, PrepareRegeneration, Acquire, Heartbeat, disk, Exit
  <2>4. ASSUME NEW p \in Procs, Step(p), ~StartSynthesis(p), ~ReuseCache(p),
               ~FinishSynthesis(p)
        PROVE  FALSE
    BY <2>4
    DEF Step, Begin, Refuse, LoadTimeline, EnterSynthesis, StartSegment, ReuseCheckpoint,
        StoreInCache, CompleteSegment, Assemble, CheckQuality, WriteFinal, Commit,
        SaveFailed, SaveInterrupted, Leave, disk
  <2>5. ASSUME NEW p \in Procs, Fault(p), ~Raise(p)
        PROVE  FALSE
    BY <2>5 DEF Fault, Signal, Crash, HeartbeatDies, disk
  <2>6. CASE Lapse \/ Reconcile
    BY <2>6 DEF Lapse, Reconcile, disk
  <2> QED
    BY <2>1, <2>2, <2>3, <2>4, <2>5, <2>6 DEF Next
<1> QED
  BY <1>1, Invariant, PTL DEF Spec, CheckpointsKept

\* Reconciliation never takes a run from a process that is between its claim
\* and its release.
THEOREM OwnersAreNotReconciled == Spec => LiveOwnerIsNotReconciled
<1> DEFINE Left == record'.interruption = "lease_expired" /\ record' # record =>
                       \A p \in Procs : pc[p] \notin Attempting
<1>1. Inv /\ [Next]_vars => [Left]_vars
  <2> SUFFICES ASSUME Inv, Next, record'.interruption = "lease_expired", record' # record,
                      NEW p \in Procs, pc[p] \in Attempting
               PROVE  FALSE
    OBVIOUS
  <2>1. /\ lock = p /\ lock # NoProc /\ OwnCopy(p) /\ pc[p] \notin {"locked", "ready", "preparing"}
        /\ worker[p] \in Workers /\ worker[p].running \in RunRecords /\ record \in RunRecords
    BY HolderFacts, AttemptWorking, NoProcAssumption
    DEF Inv, LockInv, Workers, Attempting, Working, Handling
  <2>2. IsActive(record) => record.interruption = "none"
    BY DEF Inv, RecordInv, WellFormed
  <2>3. ASSUME NEW q \in Procs, Command(q)
        PROVE  FALSE
    BY <2>1, <2>3 DEF Command, Launch, PrepareRegeneration, Acquire
  <2>4. ASSUME NEW q \in Procs, Heartbeat(q)
        PROVE  FALSE
    <3>1. record.interruption = "none"
      BY <2>2, <2>4 DEF Heartbeat, Inv, RecordInv, WellFormed, ValidRecord, ValidExecution
    <3> QED
      BY <2>1, <2>4, <3>1 DEF Heartbeat, Beat, RunRecords
  <2>5. CASE Lapse \/ Reconcile
    BY <2>1, <2>2, <2>5 DEF Lapse, Reconcile, IsActive, RunRecords
  <2>6. ASSUME NEW g \in RunStage, NEW s \in Nat, record' = Progress(p, g, s)
        PROVE  FALSE
    BY <2>1, <2>6 DEF Progress, Recovered, Beat, OwnCopy, IsOwn, RunRecords, Workers
  <2>7. ASSUME NEW t \in RunStatus, NEW g \in RunStage, NEW s \in Nat,
               NEW k \in {"none", "signal"}, record' = Settled(p, t, g, s, k)
        PROVE  FALSE
    BY <2>1, <2>7 DEF Settled, Recovered, Finished, RunRecords, Workers
  <2>8. ASSUME NEW q \in Procs, Fault(q)
        PROVE  FALSE
    BY <2>8 DEF Fault, Raise, Signal, Crash, HeartbeatDies
  <2>9. ASSUME NEW q \in Procs, Step(q)
        PROVE  FALSE
    <3>1. worker[p].cursor \in Nat /\ worker[p].cursor + 1 \in Nat
      BY <2>1 DEF Workers
    <3>2. /\ 0 \in Nat /\ {"synthesizing", "assembling", "quality_check"} \subseteq RunStage
          /\ "completed" \in RunStage
          /\ worker[p].running.stage \in RunStage
          /\ {"completed", "failed", "interrupted"} \subseteq RunStatus
      BY <2>1 DEF RunStage, RunStatus, RunRecords
    <3>3. CASE q = p
      <4>1. CASE EnterSynthesis(p) \/ StartSegment(p) \/ StartSynthesis(p)
                 \/ CompleteSegment(p) \/ Assemble(p) \/ CheckQuality(p)
        BY <2>6, <3>1, <3>2, <4>1
        DEF EnterSynthesis, StartSegment, StartSynthesis, CompleteSegment, Assemble,
            CheckQuality, SaveProgress
      <4>2. CASE Commit(p) \/ SaveInterrupted(p)
        BY <2>7, <3>1, <3>2, <4>2 DEF Commit, SaveInterrupted
      <4>3. CASE SaveFailed(p)
        <5>1. record'.interruption = "none"
          BY <2>1, <4>3 DEF SaveFailed, Settled, Recovered, Finished, RunRecords, Workers
        <5> QED
          BY <5>1
      <4> QED
        BY <2>1, <2>9, <3>3, <4>1, <4>2, <4>3
        DEF Step, Begin, Refuse, LoadTimeline, ReuseCheckpoint, ReuseCache, FinishSynthesis,
            StoreInCache, WriteFinal, Leave
    <3>4. CASE q # p
      <4>1. pc[q] \notin Holding
        BY <2>1, <3>4 DEF Inv, LockInv
      <4> QED
        BY <2>9, <4>1
        DEF Holding, Attempting, Working, Handling, Step, Begin, Refuse, LoadTimeline,
            EnterSynthesis, StartSegment, ReuseCheckpoint, ReuseCache, StartSynthesis,
            FinishSynthesis, StoreInCache, CompleteSegment, Assemble, CheckQuality,
            WriteFinal, Commit, SaveFailed, SaveInterrupted, Leave
    <3> QED
      BY <3>3, <3>4
  <2> QED
    BY <2>3, <2>4, <2>5, <2>8, <2>9 DEF Next
<1> QED
  BY <1>1, Invariant, PTL DEF Spec, LiveOwnerIsNotReconciled

(***************************************************************************)
(* The refinement: every step is a step of RunPromise or leaves the status *)
(* and the owner as they are.                                              *)
(***************************************************************************)
Owning == Attempting \cup {"exiting"}

LEMMA OwnerNow ==
    ASSUME Inv, NEW p \in Procs
    PROVE  /\ pc[p] \in Owning => RunOwner = p
           /\ lock = NoProc \/ (lock = p /\ pc[p] \notin Owning) => RunOwner = NoProc
BY NoProcAssumption DEF Inv, LockInv, RunOwner, Owning, Holding

LEMMA OwnerNext ==
    ASSUME Inv', NEW p \in Procs
    PROVE  /\ pc'[p] \in Owning => RunOwner' = p
           /\ lock' = NoProc \/ (lock' = p /\ pc'[p] \notin Owning) => RunOwner' = NoProc
BY NoProcAssumption DEF Inv, LockInv, RunOwner, Owning, Holding

\* A step of a process that is not the owner and does not become it.
LEMMA SameOwner ==
    ASSUME Inv, NEW p \in Procs, lock # p \/ pc[p] \notin Owning,
           lock' = lock \/ {lock, lock'} \subseteq {p, NoProc},
           lock' = p => pc'[p] \notin Owning,
           \A q \in Procs \ {p} : pc'[q] = pc[q]
    PROVE  RunOwner' = RunOwner
<1>1. lock \in Procs \cup {NoProc}
  BY DEF Inv, TypeOK
<1> QED
  BY <1>1, NoProcAssumption DEF RunOwner, Owning

PStep == [Promise!Next]_(Promise!vars)

LEMMA PStutter ==
    ASSUME record'.status = record.status, RunOwner' = RunOwner
    PROVE  PStep
BY DEF PStep, Promise!vars

LEMMA PClaim ==
    ASSUME NEW p \in Procs, RunOwner = NoProc, RunOwner' = p,
           record.status \in {"queued", "interrupted", "failed"},
           record'.status \in {record.status, "running"}
    PROVE  PStep
BY DEF PStep, Promise!Next, Promise!Claim

LEMMA PSettle ==
    ASSUME NEW p \in Procs, RunOwner = p, RunOwner' = p,
           \/ record.status = "running" /\ record'.status = "completed"
           \/ record'.status \in {"failed", "interrupted"}
    PROVE  PStep
BY DEF PStep, Promise!Next, Promise!Settle

LEMMA PLetGo ==
    ASSUME NEW p \in Procs, RunOwner = p, RunOwner' = NoProc, record'.status = record.status
    PROVE  PStep
BY DEF PStep, Promise!Next, Promise!LetGo

LEMMA PInterrupt ==
    ASSUME RunOwner = NoProc, RunOwner' = NoProc,
           record.status \in {"running", "completed", "failed"},
           record'.status = "interrupted"
    PROVE  PStep
BY DEF PStep, Promise!Next, Promise!TakeOver, Promise!Reopen

\* Reconciliation either takes over an expired run or changes nothing.
LEMMA ReconciledStatus ==
    ASSUME NEW r \in RunRecords
    PROVE  \/ Reconciled(r).status = r.status
           \/ r.status = "running" /\ Reconciled(r).status = "interrupted"
BY DEF Reconciled, Finished, Stale, RunRecords

LEMMA CommandPromise ==
    ASSUME Inv, Inv', NEW p \in Procs, Command(p)
    PROVE  PStep
<1>1. pc[p] \notin Holding /\ pc[p] \notin Owning /\ lock # p
  BY DEF Command, Launch, PrepareRegeneration, Acquire, Inv, LockInv, Holding, Attempting,
         Working, Handling, Owning
<1>2. pc'[p] \notin Owning /\ \A q \in Procs \ {p} : pc'[q] = pc[q]
  BY DEF Command, Launch, PrepareRegeneration, Acquire, Exit, Goto, Inv, TypeOK, Attempting,
         Working, Handling, Owning
<1>3. lock' = lock \/ {lock, lock'} \subseteq {p, NoProc}
  BY DEF Command, Launch, PrepareRegeneration, Acquire
<1>4. RunOwner' = RunOwner
  BY <1>1, <1>2, <1>3, SameOwner
<1>5. CASE UNCHANGED record
  BY <1>4, <1>5, PStutter
<1>6. CASE lock = NoProc /\ record' = ManualRegeneration(record, worker[p].asked)
           /\ CanRegenerate(record)
  <2>1. record'.status = "interrupted" /\ record.status \in Stopped
    BY <1>6, HolderFacts, RegeneratedWellFormed DEF Workers, CanRegenerate
  <2>2. RunOwner = NoProc
    BY <1>6, OwnerNow
  <2> QED
    BY <1>4, <2>1, <2>2, PInterrupt, PStutter DEF Stopped
<1>7. CASE lock = NoProc /\ record' = Reconciled(record)
  <2>1. RunOwner = NoProc
    BY <1>7, OwnerNow
  <2> QED
    BY <1>4, <1>7, <2>1, ReconciledStatus, HolderFacts, PInterrupt, PStutter
<1> QED
  BY <1>5, <1>6, <1>7 DEF Command, Launch, PrepareRegeneration, Acquire

\* What the save of a claim leads to, made or not.
LEMMA BeginFacts ==
    ASSUME Inv, NEW p \in Procs, Begin(p)
    PROVE  /\ pc[p] = "locked" /\ pc'[p] \in {"compiling"} \cup Handling
           /\ record.status \in {"queued", "interrupted", "failed"}
           /\ record'.status \in {record.status, "running"}
           /\ record'.completed = record.completed
           /\ worker'[p].completed = record.completed
           /\ UNCHANGED checkpoint
<1>1. \E label \in {"compiling"} \cup Handling : pc' = [pc EXCEPT ![p] = label]
  BY DEF Begin, Goto
<1>2. pc \in [Procs -> Holding \cup Outside]
  BY DEF Inv, TypeOK
<1>3. pc[p] = "locked" /\ UNCHANGED checkpoint
  BY DEF Begin, disk
<1>4. record.status \in {"queued", "interrupted", "failed"}
  BY DEF Begin, Claimable
<1>5. record' = record \/ record' = Claimed(record, issued + 1, p, "compiling")
  BY DEF Begin
<1>6. /\ Claimed(record, issued + 1, p, "compiling").status = "running"
      /\ Claimed(record, issued + 1, p, "compiling").completed = record.completed
  BY DEF Claimed
<1>7. worker'[p].completed = record.completed
  <2>1. worker \in [Procs -> Workers]
    BY DEF Inv, TypeOK
  <2> QED
    BY <2>1, SMTT(30) DEF Begin, Workers
<1> QED
  BY <1>1, <1>2, <1>3, <1>4, <1>5, <1>6, <1>7

LEMMA StepPromise ==
    ASSUME Inv, Inv', NEW p \in Procs, Step(p)
    PROVE  PStep
<1>1. worker[p] \in Workers /\ record \in RunRecords
  BY HolderFacts
<1>2. CASE Begin(p)
  <2>1. /\ lock = p /\ pc[p] \notin Owning /\ pc'[p] \in Owning
        /\ record.status \in {"queued", "interrupted", "failed"}
        /\ record'.status \in {record.status, "running"}
    <3>1. pc[p] = "locked" /\ pc'[p] \in {"compiling"} \cup Handling
      BY <1>2, BeginFacts
    <3>2. lock = p
      BY <3>1 DEF Inv, LockInv, Holding
    <3>3. pc[p] \notin Owning /\ pc'[p] \in Owning
      BY <3>1 DEF Owning, Attempting, Working, Handling
    <3> QED
      BY <1>2, <3>2, <3>3, BeginFacts
  <2>2. RunOwner = NoProc /\ RunOwner' = p
    BY <2>1, OwnerNow, OwnerNext
  <2> QED
    BY <2>1, <2>2, PClaim
<1>3. CASE Refuse(p)
  <2>1. lock' = NoProc /\ record' = record /\ lock = p /\ pc[p] \notin Owning
    BY <1>3
    DEF Refuse, Inv, LockInv, Holding, Owning, Attempting, Working, Handling
  <2>2. RunOwner = NoProc /\ RunOwner' = NoProc
    BY <2>1, OwnerNow, OwnerNext
  <2> QED
    BY <2>1, <2>2, PStutter
<1>4. CASE Leave(p)
  <2>1. lock' = NoProc /\ record' = record /\ pc[p] \in Owning
    BY <1>4 DEF Leave, Owning, Attempting
  <2>2. RunOwner = p /\ RunOwner' = NoProc
    BY <2>1, OwnerNow, OwnerNext
  <2> QED
    BY <2>1, <2>2, PLetGo
<1>5. CASE Commit(p) \/ SaveFailed(p) \/ SaveInterrupted(p)
  <2>1. pc[p] \in Owning /\ pc'[p] \in Owning
    BY <1>5
    DEF Commit, SaveFailed, SaveInterrupted, Goto, Inv, TypeOK, Owning, Attempting, Working,
        Handling
  <2>2. RunOwner = p /\ RunOwner' = p
    BY <2>1, OwnerNow, OwnerNext
  <2>3. CASE Commit(p)
    <3>1. record.status = "running" /\ record'.status = "completed"
      BY <1>1, <2>3, HolderFacts
      DEF Commit, Working, Settled, Recovered, Finished, RunRecords, Workers
    <3> QED
      BY <2>2, <3>1, PSettle
  <2>4. CASE SaveFailed(p)
    <3>1. record'.status = "failed"
      BY <1>1, <2>4
      DEF Inv, AttemptInv, SaveFailed, Settled, Recovered, Finished, RunRecords, Workers
    <3> QED
      BY <2>2, <3>1, PSettle
  <2>5. CASE SaveInterrupted(p)
    <3>1. record'.status = "interrupted"
      BY <1>1, <2>5
      DEF Inv, AttemptInv, SaveInterrupted, Settled, Recovered, Finished, RunRecords, Workers
    <3> QED
      BY <2>2, <3>1, PSettle
  <2> QED
    BY <1>5, <2>3, <2>4, <2>5
<1>6. CASE /\ pc[p] \in Working /\ pc'[p] \in Working \cup {"failing"}
           /\ record'.status = "running"
  <2>1. record.status = "running" /\ RunOwner = p /\ RunOwner' = p
    BY <1>6, HolderFacts, OwnerNow, OwnerNext DEF Owning, Attempting, Handling
  <2> QED
    BY <1>6, <2>1, PStutter
<1>7. ASSUME pc[p] \in Working, NEW g \in RunStage, NEW s \in Nat, record' = Progress(p, g, s)
      PROVE  record'.status = "running"
  <2>1. worker[p].running.status = "running" /\ worker[p].running \in RunRecords
    BY <1>1, <1>7, HolderFacts, AttemptWorking DEF OwnCopy, IsOwn, Workers
  <2> QED
    BY <1>7, <2>1 DEF Progress, Recovered, Beat, RunRecords
<1>8. CASE EnterSynthesis(p) \/ StartSegment(p) \/ StartSynthesis(p)
           \/ CompleteSegment(p) \/ Assemble(p) \/ CheckQuality(p)
  <2>1. pc[p] \in Working /\ pc'[p] \in Working \cup {"failing"}
    BY <1>8
    DEF EnterSynthesis, StartSegment, StartSynthesis, CompleteSegment, Assemble,
        CheckQuality, Goto, Working, Inv, TypeOK
  <2>2. /\ worker[p].cursor \in Nat /\ worker[p].cursor + 1 \in Nat /\ 0 \in Nat
        /\ {"synthesizing", "assembling", "quality_check"} \subseteq RunStage
    BY <1>1 DEF Workers, RunStage
  <2>3. record'.status = "running"
    BY <1>7, <1>8, <2>1, <2>2
    DEF EnterSynthesis, StartSegment, StartSynthesis, CompleteSegment, Assemble,
        CheckQuality, SaveProgress
  <2> QED
    BY <1>6, <2>1, <2>3
<1>9. CASE LoadTimeline(p) \/ ReuseCheckpoint(p) \/ ReuseCache(p) \/ FinishSynthesis(p)
           \/ StoreInCache(p) \/ WriteFinal(p)
  <2>1. pc[p] \in Working /\ pc'[p] \in Working /\ record' = record
    BY <1>9
    DEF LoadTimeline, ReuseCheckpoint, ReuseCache, FinishSynthesis, StoreInCache, WriteFinal,
        Goto, Working, Inv, TypeOK, disk
  <2>2. record'.status = "running"
    BY <2>1, HolderFacts
  <2> QED
    BY <1>6, <2>1, <2>2
<1> QED
  BY <1>2, <1>3, <1>4, <1>5, <1>8, <1>9 DEF Step

LEMMA FaultPromise ==
    ASSUME Inv, Inv', NEW p \in Procs, Fault(p)
    PROVE  PStep
<1>1. record' = record /\ lock \in Procs \cup {NoProc}
  BY DEF Fault, Raise, Signal, Crash, HeartbeatDies, Inv, TypeOK
<1>2. CASE Raise(p) \/ HeartbeatDies(p) \/ (Signal(p) /\ pc[p] # "locked")
  <2>1. pc[p] \in Owning /\ pc'[p] \in Owning
    BY <1>2
    DEF Raise, HeartbeatDies, Signal, Goto, Inv, TypeOK, AttemptInv, Owning, Attempting,
        Working, Handling
  <2> QED
    BY <1>1, <2>1, OwnerNow, OwnerNext, PStutter
<1>3. CASE Crash(p) \/ (Signal(p) /\ pc[p] = "locked")
  <2>1. CASE lock = p
    <3>1. lock' = NoProc
      BY <1>3, <2>1 DEF Crash, Signal, Working, Handling
    <3>2. RunOwner' = NoProc /\ RunOwner \in {p, NoProc}
      BY <2>1, <3>1, OwnerNow, OwnerNext
    <3> QED
      BY <1>1, <3>2, PLetGo, PStutter
  <2>2. CASE lock # p
    <3>1. lock' = lock /\ \A q \in Procs \ {p} : pc'[q] = pc[q]
      BY <1>3, <2>2
      DEF Crash, Signal, Exit, Inv, TypeOK, LockInv, Holding, Working, Handling
    <3>2. RunOwner' = RunOwner
      BY <2>2, <3>1, SameOwner
    <3> QED
      BY <1>1, <3>2, PStutter
  <2> QED
    BY <2>1, <2>2
<1> QED
  BY <1>2, <1>3 DEF Fault

\* Seen from outside, a run's status and owner move as RunPromise says.
THEOREM Implements == Spec => KeepsPromise
<1>1. Init => Promise!Init
  BY DEF Init, Promise!Init, QueuedRecord, RunOwner
<1>2. Inv /\ Inv' /\ [Next]_vars => PStep
  <2> SUFFICES ASSUME Inv, Inv', [Next]_vars PROVE PStep
    OBVIOUS
  <2>1. CASE UNCHANGED vars
    BY <2>1, PStutter DEF vars, RunOwner
  <2>2. ASSUME NEW p \in Procs, Heartbeat(p) PROVE PStep
    <3>1. RunOwner' = RunOwner
      BY <2>2 DEF Heartbeat, RunOwner
    <3>2. record'.status = record.status
      BY <2>2, HolderFacts DEF Heartbeat, Beat, RunRecords
    <3> QED
      BY <3>1, <3>2, PStutter
  <2>3. CASE Lapse
    <3>1. RunOwner' = RunOwner /\ record'.status = record.status
      BY <2>3 DEF Lapse, RunOwner, Inv, TypeOK, RunRecords
    <3> QED
      BY <3>1, PStutter
  <2>4. CASE Reconcile
    <3>1. RunOwner = NoProc /\ RunOwner' = NoProc
      BY <2>4 DEF Reconcile, RunOwner
    <3> QED
      BY <2>4, <3>1, ReconciledStatus, PInterrupt, PStutter DEF Reconcile, Inv, TypeOK
  <2> QED
    BY <2>1, <2>2, <2>3, <2>4, CommandPromise, StepPromise, FaultPromise DEF Next
<1> QED
  BY <1>1, <1>2, Invariant, PTL DEF Spec, KeepsPromise, Promise!Spec, PStep

(***************************************************************************)
(* ProgressIsBacked.                                                       *)
(***************************************************************************)
LEMMA CountFromBelow ==
    ASSUME NEW K \in SUBSET Segments, NEW n \in Nat, 1 .. n \subseteq K
    PROVE  Cardinality(K) \in Nat /\ n <= Cardinality(K)
<1>1. IsFiniteSet(Segments) /\ IsFiniteSet(1 .. n) /\ Cardinality(1 .. n) = n
  BY SpeechCountAssumption, FS_Interval DEF Segments
<1>2. IsFiniteSet(K)
  BY <1>1, FS_Subset
<1> QED
  BY <1>1, <1>2, FS_Subset, FS_CardinalityType

LEMMA CountGrows ==
    ASSUME NEW K \in SUBSET Segments, NEW L \in SUBSET Segments, K \subseteq L
    PROVE  Cardinality(K) \in Nat /\ Cardinality(L) \in Nat /\ Cardinality(K) <= Cardinality(L)
<1>1. IsFiniteSet(Segments)
  BY SpeechCountAssumption, FS_Interval DEF Segments
<1>2. IsFiniteSet(L) /\ IsFiniteSet(K)
  BY <1>1, FS_Subset
<1> QED
  BY <1>2, FS_Subset, FS_CardinalityType

\* Only the holder has counters of its own.
LEMMA HolderBack ==
    ASSUME Inv, BackInv, NEW p \in Procs, pc[p] \in Holding \/ lock = NoProc,
           \A q \in Procs \ {p} : pc'[q] = pc[q] /\ worker'[q] = worker[q],
           record'.completed <= Cardinality(Kept'),
           pc'[p] \in Attempting => /\ worker'[p].completed <= Cardinality(Kept')
                                    /\ Done(p)' \subseteq Kept',
           pc'[p] = "caching" => worker'[p].cursor \in Kept'
    PROVE  BackInv'
<1>1. ASSUME NEW q \in Procs \ {p} PROVE pc'[q] \notin Attempting
  BY AttemptWorking, NoProcAssumption DEF Inv, LockInv
<1> QED
  BY <1>1 DEF BackInv, ProgressIsBacked, Kept

\* A step that loses no completed checkpoint and counts nothing new.
LEMMA QuietBack ==
    ASSUME Inv, BackInv, NEW p \in Procs, pc[p] \in Holding \/ lock = NoProc,
           \A q \in Procs \ {p} : pc'[q] = pc[q] /\ worker'[q] = worker[q],
           Kept \subseteq Kept', TypeOK',
           record'.completed <= record.completed \/
              (pc[p] \in Attempting /\ record'.completed <= worker[p].completed),
           pc'[p] \in Attempting =>
              /\ worker'[p].completed <= record.completed \/
                    (pc[p] \in Attempting /\ worker'[p].completed <= worker[p].completed)
              /\ Done(p)' = {} \/ (pc[p] \in Attempting /\ Done(p)' \subseteq Done(p)),
           pc'[p] # "caching"
    PROVE  BackInv'
<1>1. /\ Cardinality(Kept) \in Nat /\ Cardinality(Kept') \in Nat
      /\ Cardinality(Kept) <= Cardinality(Kept')
  BY CountGrows DEF Kept
<1>2. /\ record.completed \in Nat /\ record'.completed \in Nat
      /\ worker[p].completed \in Nat /\ worker'[p].completed \in Nat
  BY DEF Inv, TypeOK, RunRecords, Workers
<1>3. /\ record.completed <= Cardinality(Kept)
      /\ pc[p] \in Attempting => worker[p].completed <= Cardinality(Kept) /\ Done(p) \subseteq Kept
  BY DEF BackInv, ProgressIsBacked, Kept
<1>4. record'.completed <= Cardinality(Kept')
  BY <1>1, <1>2, <1>3
<1>5. pc'[p] \in Attempting => worker'[p].completed <= Cardinality(Kept')
  BY <1>1, <1>2, <1>3
<1>6. pc'[p] \in Attempting => Done(p)' \subseteq Kept'
  BY <1>3
<1> QED
  BY <1>4, <1>5, <1>6, HolderBack

\* What the holder has counted it has done, past the timeline and before an end.
LEMMA CountedIsDone ==
    ASSUME Inv, NEW p \in Procs,
           pc[p] \in {"between", "segment", "synthesizing", "caching", "audio"}
    PROVE  /\ Done(p) = 1 .. worker[p].completed
           /\ worker[p].completed \in Nat /\ worker[p].cursor \in Nat
<1>1. pc[p] \in Attempting
  BY DEF Attempting, Working
<1>2. Counters(p) /\ worker[p].completed \in Nat /\ worker[p].cursor \in Nat
  BY <1>1, HolderFacts DEF Workers
<1> QED
  BY <1>2 DEF Counters, Done

LEMMA BackCommand ==
    ASSUME Inv, Inv', BackInv, NEW p \in Procs, Command(p)
    PROVE  BackInv'
<1>1. /\ TypeOK /\ TypeOK' /\ record \in RunRecords /\ record' \in RunRecords
      /\ record.completed \in Nat /\ record.total \in Nat
  BY DEF Inv, TypeOK, RunRecords
<1>2. Kept' = Kept /\ pc'[p] \notin Attempting
  BY <1>1
  DEF Command, Launch, PrepareRegeneration, Acquire, Kept, disk, Exit, Goto, TypeOK,
      Attempting, Working, Handling
<1>3. \A q \in Procs \ {p} : pc'[q] = pc[q] /\ worker'[q] = worker[q]
  BY <1>1 DEF Command, Launch, PrepareRegeneration, Acquire, Exit, Goto, TypeOK
<1>4. CASE lock = NoProc
  <2>1. record'.completed <= record.completed
    <3> DEFINE r == ManualRegeneration(record, worker[p].asked)
    <3>4. r.completed <= record.completed
      BY <1>1 DEF ManualRegeneration, Finished, RunRecords
    <3> HIDE DEF r
    <3>1. CASE Launch(p)
      BY <1>1, <3>1 DEF Launch
    <3>2. CASE PrepareRegeneration(p)
      <4>1. record' = r \/ record' = record
        BY <3>2 DEF PrepareRegeneration, r
      <4> QED
        BY <1>1, <3>4, <4>1
    <3>3. CASE Acquire(p)
      <4>1. record' = Reconciled(record) \/ record' = record
        BY <3>3 DEF Acquire
      <4>2. Reconciled(record).completed = record.completed
        BY <1>1 DEF Reconciled, Finished, RunRecords
      <4> QED
        BY <1>1, <4>1, <4>2
    <3> QED
      BY <3>1, <3>2, <3>3 DEF Command
  <2> QED
    BY <1>1, <1>2, <1>3, <1>4, <2>1, QuietBack DEF Attempting, Working
<1>5. CASE lock # NoProc
  <2>1. record' = record
    BY <1>5 DEF Command, Launch, PrepareRegeneration, Acquire
  <2>2. ASSUME NEW q \in Procs, pc'[q] \in Attempting
        PROVE  /\ pc[q] \in Attempting /\ pc'[q] = pc[q]
               /\ worker'[q] = worker[q] /\ Done(q)' = Done(q)
    <3>1. q # p
      BY <1>2, <2>2
    <3> QED
      BY <1>3, <2>2, <3>1 DEF Done
  <2> QED
    BY <1>2, <2>1, <2>2 DEF BackInv, ProgressIsBacked, Kept
<1> QED
  BY <1>4, <1>5

LEMMA BackStep ==
    ASSUME Inv, Inv', BackInv, NEW p \in Procs, Step(p)
    PROVE  BackInv'
<1> DEFINE c == worker[p].cursor
<1>1. /\ TypeOK /\ TypeOK' /\ record \in RunRecords /\ record' \in RunRecords
      /\ worker[p] \in Workers /\ worker'[p] \in Workers
      /\ worker \in [Procs -> Workers] /\ pc \in [Procs -> Holding \cup Outside]
      /\ checkpoint \in [Segments -> Checkpoints]
      /\ worker[p].running \in RunRecords
      /\ worker[p].completed \in Nat /\ worker[p].cursor \in Nat /\ record.completed \in Nat
  BY DEF Inv, TypeOK, DiskType, Workers, RunRecords
<1>2. pc[p] \in Holding
  BY DEF Step, Begin, Refuse, LoadTimeline, EnterSynthesis, StartSegment, ReuseCheckpoint,
     ReuseCache, StartSynthesis, FinishSynthesis, StoreInCache, CompleteSegment, Assemble,
     CheckQuality, WriteFinal, Commit, SaveFailed, SaveInterrupted, Leave,
     Holding, Attempting, Working, Handling
<1>3. \A q \in Procs \ {p} : pc'[q] = pc[q] /\ worker'[q] = worker[q]
  BY <1>1
  DEF Step, Begin, Refuse, LoadTimeline, EnterSynthesis, StartSegment, ReuseCheckpoint,
     ReuseCache, StartSynthesis, FinishSynthesis, StoreInCache, CompleteSegment, Assemble,
     CheckQuality, WriteFinal, Commit, SaveFailed, SaveInterrupted, Leave,
     Exit, Goto, SaveProgress
<1>4. /\ record.completed <= Cardinality(Kept)
      /\ pc[p] \in Attempting => /\ worker[p].completed <= Cardinality(Kept)
                                 /\ Done(p) \subseteq Kept
  BY DEF BackInv, ProgressIsBacked, Kept
<1>5. /\ Kept \in SUBSET Segments /\ Kept' \in SUBSET Segments
      /\ \A g \in RunStage, s \in Nat : Progress(p, g, s).completed = worker[p].completed
      /\ \A t, g, s, k : Settled(p, t, g, s, k).completed = worker[p].completed
  BY <1>1 DEF Kept, Progress, Settled, Beat, Finished, Recovered, RunRecords
\* Nothing is counted and no checkpoint changes.
<1>6. ASSUME UNCHANGED checkpoint,
             \/ record'.completed <= record.completed
             \/ pc[p] \in Attempting /\ record'.completed <= worker[p].completed,
             pc'[p] \in Attempting =>
                /\ \/ worker'[p].completed <= record.completed
                   \/ pc[p] \in Attempting /\ worker'[p].completed <= worker[p].completed
                /\ Done(p)' = {} \/ (pc[p] \in Attempting /\ Done(p)' \subseteq Done(p)),
             pc'[p] # "caching"
      PROVE  BackInv'
  <2>1. Kept' = Kept
    BY <1>6 DEF Kept
  <2> QED
    BY <1>1, <1>2, <1>3, <1>6, <2>1, QuietBack
<1>7. CASE Begin(p)
  <2>1. /\ worker'[p].completed = record.completed /\ pc'[p] \in {"compiling"} \cup Handling
        /\ UNCHANGED checkpoint /\ record'.completed = record.completed
    BY <1>7, BeginFacts
  <2>2. Done(p)' = {} /\ pc'[p] # "caching"
    BY <2>1 DEF Done, Rendered, Handling
  <2> QED
    BY <1>1, <1>6, <2>1, <2>2
<1>8. CASE Refuse(p) \/ Leave(p)
  BY <1>1, <1>6, <1>8 DEF Refuse, Leave, Exit, disk, Attempting, Working, Handling
<1>9. CASE LoadTimeline(p)
  <2>1. /\ worker'[p].completed = 0 /\ pc'[p] = "compiled"
        /\ UNCHANGED <<checkpoint, record>>
    BY <1>1, <1>9 DEF LoadTimeline, Goto, Workers
  <2>2. Done(p)' = {}
    BY <2>1 DEF Done, Rendered
  <2> QED
    BY <1>1, <1>6, <2>1, <2>2
<1>10. CASE EnterSynthesis(p) \/ CompleteSegment(p) \/ StartSegment(p) \/ Assemble(p) \/ CheckQuality(p)
  <2>1. /\ pc[p] \in {"compiled", "audio", "between", "assembling"}
        /\ pc'[p] \in {"between", "segment", "failing", "assembling", "checking"}
        /\ UNCHANGED checkpoint
    BY <1>1, <1>10 DEF EnterSynthesis, CompleteSegment, StartSegment, Assemble, CheckQuality, Goto, disk
  <2>2. pc[p] \in Attempting
    BY <2>1 DEF Attempting, Working
  <2>3. worker'[p].completed = worker[p].completed
    BY <1>1, <1>10
    DEF EnterSynthesis, CompleteSegment, StartSegment, Assemble, CheckQuality, SaveProgress, Workers
  <2>4. record'.completed = worker[p].completed
    BY <1>1, <1>5, <1>10
    DEF EnterSynthesis, CompleteSegment, StartSegment, Assemble, CheckQuality, SaveProgress, RunStage
  <2>5. Done(p)' \subseteq Done(p)
    <3>1. CASE EnterSynthesis(p)
      <4>1. c = 0 /\ pc[p] = "compiled"
        BY <2>2, <3>1, HolderFacts DEF EnterSynthesis, Counters
      <4>2. worker'[p].cursor = c /\ pc'[p] = "between"
        BY <1>1, <3>1 DEF EnterSynthesis, SaveProgress, Goto, Workers
      <4> QED
        BY <4>1, <4>2 DEF Done
    <3>2. CASE CompleteSegment(p)
      BY <1>1, <3>2 DEF CompleteSegment, SaveProgress, Goto, Workers, Done
    <3>3. CASE StartSegment(p)
      <4>1. worker'[p].cursor = c + 1 /\ pc[p] = "between" /\ pc'[p] \in {"segment", "failing"}
        BY <1>1, <3>3 DEF StartSegment, Goto, Workers
      <4> QED
        BY <1>1, <4>1 DEF Done, Rendered
    <3>4. CASE Assemble(p)
      BY <1>1, <3>4 DEF Assemble, Goto, Done, Segments, Rendered
    <3>5. CASE CheckQuality(p)
      BY <1>1, <3>5 DEF CheckQuality, Goto, Done, Rendered
    <3> QED
      BY <1>10, <3>1, <3>2, <3>3, <3>4, <3>5
  <2> QED
    BY <1>1, <1>6, <2>1, <2>2, <2>3, <2>4, <2>5
\* The segment that is begun is not among those done.
<1>11. CASE StartSynthesis(p)
  <2>1. /\ pc[p] = "segment" /\ pc'[p] = "synthesizing"
        /\ checkpoint' = [checkpoint EXCEPT ![c] = [status |-> "running", version |-> 0]]
        /\ worker'[p].completed = worker[p].completed /\ worker'[p].cursor = c
        /\ record'.completed = worker[p].completed
    BY <1>1, <1>5, <1>11 DEF StartSynthesis, SaveProgress, Goto, Workers, RunStage
  <2>2. pc[p] \in Attempting
    BY <2>1 DEF Attempting, Working
  <2>3. Done(p) = 1 .. worker[p].completed /\ Done(p) = 1 .. (c - 1) /\ Done(p)' = 1 .. (c - 1)
    BY <2>1, CountedIsDone DEF Done
  <2>4. Done(p)' \subseteq Kept'
    BY <1>1, <1>4, <2>1, <2>2, <2>3 DEF Kept
  <2>5. worker[p].completed <= Cardinality(Kept')
    BY <1>1, <1>5, <2>3, <2>4, CountFromBelow
  <2> QED
    BY <1>2, <1>3, <2>1, <2>4, <2>5, HolderBack
\* One more segment has a checkpoint.
<1>12. CASE FinishSynthesis(p)
  <2>1. /\ pc[p] = "synthesizing" /\ pc'[p] = "caching"
        /\ record' = record /\ worker' = worker /\ Kept \subseteq Kept'
    BY <1>1, <1>12 DEF FinishSynthesis, Goto, Kept
  <2>2. Done(p)' = Done(p) /\ pc[p] \in Attempting
    BY <2>1 DEF Done, Attempting, Working
  <2>3. c \in Kept'
    BY <1>1, <1>12, <2>1, CursorInSegments DEF FinishSynthesis, Kept
  <2>4. Cardinality(Kept) <= Cardinality(Kept') /\ Cardinality(Kept) \in Nat /\ Cardinality(Kept') \in Nat
    BY <1>5, <2>1, CountGrows
  <2> QED
    BY <1>1, <1>2, <1>3, <1>4, <2>1, <2>2, <2>3, <2>4, HolderBack
<1>13. CASE ReuseCheckpoint(p) \/ ReuseCache(p) \/ StoreInCache(p)
  <2>1. /\ pc[p] \in {"segment", "caching"} /\ pc'[p] = "audio"
        /\ record' = record /\ Kept \subseteq Kept'
        /\ worker'[p].completed = worker[p].completed + 1 /\ worker'[p].cursor = c
    <3>1. \A s, v : /\ WithAudio(worker[p], s, v).completed = worker[p].completed + 1
                    /\ WithAudio(worker[p], s, v).cursor = c
      BY <1>1 DEF WithAudio, Workers
    <3>2. \E s, v : worker' = [worker EXCEPT ![p] = WithAudio(worker[p], s, v)]
      BY <1>1, <1>13 DEF ReuseCheckpoint, ReuseCache, StoreInCache
    <3>3. /\ pc[p] \in {"segment", "caching"} /\ pc'[p] = "audio" /\ record' = record
      BY <1>1, <1>13 DEF ReuseCheckpoint, ReuseCache, StoreInCache, Goto
    <3>4. Kept \subseteq Kept'
      BY <1>1, <1>13 DEF ReuseCheckpoint, ReuseCache, StoreInCache, Kept, disk
    <3> QED
      BY <1>1, <3>1, <3>2, <3>3, <3>4
  <2>2. pc[p] \in Attempting /\ Done(p) = 1 .. worker[p].completed /\ Done(p) = 1 .. (c - 1)
        /\ Done(p)' = 1 .. c /\ worker[p].completed = c - 1
    BY <2>1, CountedIsDone, CursorInSegments DEF Attempting, Working, Done
  <2>3. c \in Kept'
    <3>1. c \in Segments
      BY <2>1, CursorInSegments
    <3>2. CASE ReuseCheckpoint(p)
      <4>1. checkpoint[c].status = "completed" /\ checkpoint' = checkpoint
        BY <3>2 DEF ReuseCheckpoint, disk
      <4> QED
        BY <3>1, <4>1 DEF Kept
    <3>3. CASE ReuseCache(p)
      BY <1>1, <3>1, <3>3 DEF ReuseCache, Kept
    <3>4. CASE StoreInCache(p)
      <4>1. c \in Kept /\ checkpoint' = checkpoint
        BY <3>4, AttemptWorking DEF StoreInCache, BackInv, Attempting, Working
      <4> QED
        BY <4>1 DEF Kept
    <3> QED
      BY <1>13, <3>2, <3>3, <3>4
  <2>4. Done(p)' \subseteq Kept'
    BY <1>1, <1>4, <2>1, <2>2, <2>3
  <2>5. worker'[p].completed <= Cardinality(Kept')
    <3>1. worker'[p].completed = c /\ c \in Nat /\ 1 .. c \subseteq Kept'
      BY <1>1, <2>1, <2>2, <2>4
    <3>2. Kept' \in SUBSET Segments
      BY <1>5
    <3>3. c <= Cardinality(Kept')
      BY <3>1, <3>2, CountFromBelow
    <3> QED
      BY <3>1, <3>3
  <2>6. record'.completed <= Cardinality(Kept')
    BY <1>1, <1>4, <1>5, <2>1, CountGrows
  <2>7. pc[p] \in Holding /\ pc'[p] # "caching"
    BY <1>2, <2>1
  <2> QED
    BY <1>3, <2>4, <2>5, <2>6, <2>7, HolderBack
<1>14. CASE WriteFinal(p) \/ Commit(p)
  <2>1. /\ pc[p] \in {"checking", "written"} /\ pc'[p] \in {"checking", "written", "committed"}
        /\ UNCHANGED checkpoint /\ worker'[p].completed = worker[p].completed
        /\ record'.completed \in {record.completed, worker[p].completed}
    BY <1>1, <1>5, <1>14 DEF WriteFinal, Commit, Goto, Workers, disk
  <2>2. pc[p] \in Attempting /\ Done(p)' \subseteq Done(p)
    BY <2>1 DEF Attempting, Working, Done, Rendered
  <2> QED
    BY <1>1, <1>6, <2>1, <2>2
<1>15. CASE SaveFailed(p) \/ SaveInterrupted(p)
  <2>1. /\ pc[p] \in Handling /\ pc'[p] = "exiting" /\ UNCHANGED checkpoint
        /\ record'.completed = worker[p].completed
    BY <1>1, <1>5, <1>15 DEF SaveFailed, SaveInterrupted, Goto, Handling, disk, RunRecords
  <2>2. pc[p] \in Attempting /\ pc'[p] \notin Attempting
    BY <2>1 DEF Attempting, Working, Handling
  <2> QED
    BY <1>1, <1>6, <2>1, <2>2
<1> QED
  BY <1>7, <1>8, <1>9, <1>10, <1>11, <1>12, <1>13, <1>14, <1>15 DEF Step

\* A failing synthesis had no completed checkpoint to lose.
LEMMA BackFault ==
    ASSUME Inv, Inv', BackInv, NEW p \in Procs, Fault(p) \/ Heartbeat(p)
    PROVE  BackInv'
<1>1. /\ TypeOK /\ TypeOK' /\ record \in RunRecords /\ worker[p] \in Workers
      /\ worker \in [Procs -> Workers] /\ pc \in [Procs -> Holding \cup Outside]
      /\ checkpoint \in [Segments -> Checkpoints]
      /\ record.completed \in Nat /\ worker[p].completed \in Nat
  BY DEF Inv, TypeOK, DiskType, Workers, RunRecords
<1>2. \A q \in Procs \ {p} : pc'[q] = pc[q] /\ worker'[q] = worker[q]
  BY <1>1 DEF Fault, Heartbeat, Raise, Signal, Crash, HeartbeatDies, Exit, Goto
<1>3. Kept \subseteq Kept' /\ record'.completed = record.completed
  BY <1>1
  DEF Kept, Fault, Heartbeat, Raise, Signal, Crash, HeartbeatDies, Beat, disk, Inv, AttemptInv,
      RunRecords
<1>4. pc'[p] \in Attempting =>
        /\ pc[p] \in Attempting
        /\ worker'[p].completed = worker[p].completed
        /\ Done(p)' = {} \/ Done(p)' = Done(p)
        /\ pc'[p] = "caching" => pc[p] = "caching" /\ worker'[p].cursor = worker[p].cursor
  <2>1. CASE Raise(p) \/ Signal(p)
    BY <1>1, <2>1
    DEF Raise, Signal, Goto, Exit, Workers, Done, Rendered, Attempting, Working, Handling
  <2>2. CASE Crash(p)
    BY <1>1, <2>2 DEF Crash, Exit, Attempting, Working, Handling
  <2>3. CASE HeartbeatDies(p) \/ Heartbeat(p)
    BY <1>1, <2>3 DEF HeartbeatDies, Heartbeat, Workers, Done
  <2> QED
    BY <2>1, <2>2, <2>3 DEF Fault
<1>5. CASE pc[p] \in Holding
  <2>1. /\ Cardinality(Kept) <= Cardinality(Kept')
        /\ Cardinality(Kept) \in Nat /\ Cardinality(Kept') \in Nat
    BY <1>3, CountGrows DEF Kept
  <2>2. /\ record.completed <= Cardinality(Kept)
        /\ pc[p] \in Attempting => /\ worker[p].completed <= Cardinality(Kept)
                                   /\ Done(p) \subseteq Kept
                                   /\ pc[p] = "caching" => worker[p].cursor \in Kept
    BY DEF BackInv, ProgressIsBacked, Kept
  <2>3. "caching" \in Attempting
    BY DEF Attempting, Working
  <2> QED
    BY <1>1, <1>2, <1>3, <1>4, <1>5, <2>1, <2>2, <2>3, HolderBack
<1>6. CASE pc[p] \notin Holding
  <2>1. Crash(p) \/ HeartbeatDies(p) \/ Heartbeat(p)
    BY <1>6 DEF Fault, Raise, Signal, Holding, Attempting
  <2>2. /\ Kept' = Kept
        /\ \A q \in Procs : pc'[q] \in Attempting => /\ pc[q] \in Attempting
                                                     /\ worker'[q] = worker[q]
                                                     /\ Done(q)' = Done(q) /\ pc'[q] = pc[q]
    <3>1. Kept' = Kept
      BY <2>1 DEF Kept, Crash, HeartbeatDies, Heartbeat, disk
    <3>2. pc'[p] \notin Attempting
      BY <1>4, <1>6, AttemptWorking
    <3> QED
      BY <1>2, <3>1, <3>2 DEF Done
  <2> QED
    BY <1>3, <2>2 DEF BackInv, ProgressIsBacked, Kept
<1> QED
  BY <1>5, <1>6

\* What a reader is told was kept has a checkpoint behind it.
THEOREM ProgressBacked == Spec => []ProgressIsBacked
<1>1. Init => BackInv
  <2> SUFFICES ASSUME Init PROVE BackInv
    OBVIOUS
  <2>1. record.completed = 0 /\ Kept = {}
    BY DEF Init, QueuedRecord, NoCheckpoint, Kept
  <2>2. \A p \in Procs : pc[p] \notin Attempting
    BY DEF Init, Attempting, Working, Handling
  <2> QED
    <3>1. Cardinality(Kept) = 0
      BY <2>1, FS_EmptySet
    <3>2. record.completed <= Cardinality(Kept)
      BY <2>1, <3>1
    <3> QED
      BY <2>2, <3>2 DEF BackInv, ProgressIsBacked, Kept
<1>2. Inv /\ Inv' /\ BackInv /\ [Next]_vars => BackInv'
  <2> SUFFICES ASSUME Inv, Inv', BackInv, [Next]_vars PROVE BackInv'
    OBVIOUS
  <2>1. CASE UNCHANGED vars
    BY <2>1 DEF vars, BackInv, ProgressIsBacked, Kept, Done
  <2>2. ASSUME NEW p \in Procs, Command(p) \/ Step(p) \/ Heartbeat(p) \/ Fault(p)
        PROVE  BackInv'
    BY <2>2, BackCommand, BackStep, BackFault
  <2>3. CASE Lapse \/ Reconcile
    <3>1. record'.completed = record.completed /\ UNCHANGED <<checkpoint, pc, worker>>
      BY <2>3 DEF Lapse, Reconcile, Reconciled, Finished, disk, Inv, TypeOK, RunRecords
    <3> QED
      BY <3>1 DEF BackInv, ProgressIsBacked, Kept, Done
  <2> QED
    BY <2>1, <2>2, <2>3 DEF Next
<1>3. BackInv => ProgressIsBacked
  BY DEF BackInv
<1> QED
  BY <1>1, <1>2, <1>3, Invariant, PTL DEF Spec

=============================================================================
