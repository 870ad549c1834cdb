----------------------- MODULE RunLifecycleProperties -----------------------
(***************************************************************************)
(* What RunLifecycle must satisfy: the type invariant, the safety          *)
(* invariants and action properties, the abstract promise it implements,   *)
(* and the liveness its scheduling justifies.                              *)
(***************************************************************************)
EXTENDS RunLifecycle, FiniteSets

\* Every variable of the model has its type.
TypeOK ==
    /\ record \in RunRecords
    /\ lock \in Procs \cup {NoProc}
    /\ timeline \in BOOLEAN
    /\ checkpoint \in [Segments -> Checkpoints]
    /\ cache \in [Segments -> Nat]
    /\ final \in [DOMAIN FinalFiles -> Nat]
    /\ narration \in [Segments -> Nat]
    /\ issued \in Nat
    /\ pc \in [Procs -> Holding \cup Outside]
    /\ worker \in [Procs -> Workers]

\* No writer ever builds a record the validator refuses: RunRecord.transition
\* would raise, inside an exception handler too, and leave the run running.
RecordStaysValid == ValidRecord(record)

(***************************************************************************)
(* From its claim to its terminal save a worker writes its own copy of the *)
(* record without reading the durable one back.  That is right only if     *)
(* nobody else wrote in between: the durable record is the worker's copy,  *)
(* up to the lease and the segment its own heartbeat renews.               *)
(***************************************************************************)
SameAttempt(r, own) ==
    /\ r.status = "running"
    /\ r = [own EXCEPT !.lease = r.lease, !.segment = r.segment]

NoLostUpdate ==
    \A p \in Procs :
        pc[p] \in Working => SameAttempt(record, worker[p].running)

\* completed means that the canonical timeline exists, that all three final
\* artifacts on disk belong to the attempt that committed, and that every
\* segment of narration.wav is real audio.
CompletedMeansCommitted ==
    record.status = "completed" =>
        /\ timeline
        /\ \A f \in DOMAIN FinalFiles : final[f] = record.attempt
        /\ \A s \in Segments : narration[s] # 0

\* The durable progress counter never counts a segment that has no completed
\* checkpoint behind it: what a reader is told was kept can be reused.
ProgressIsBacked ==
    record.completed <=
        Cardinality({s \in Segments : checkpoint[s].status = "completed"})

\* A worker that was told to bypass a segment assembles audio synthesized by
\* its own attempt for it, never a checkpoint or a shared cache entry.
BypassedIsFresh ==
    \A p \in Procs : pc[p] = "written" =>
        \A s \in worker[p].bypass \cap Segments :
            narration[s] = worker[p].running.attempt

\* A completed checkpoint is lost only by the lock's holder re-synthesizing
\* a segment it was told to bypass: failures, signals, crashes and resumes
\* keep it ("completed segment checkpoints were kept").
CheckpointsKept ==
    [][\A s \in Segments :
          checkpoint[s].status = "completed" /\ checkpoint'[s] # checkpoint[s] =>
              \E p \in Procs : lock = p /\ s \in worker[p].bypass]_vars

\* An expired lease never takes a run from a live owner: the step to
\* lease_expired finds no process between its claim and its release.
LiveOwnerIsNotReconciled ==
    [][record'.interruption = "lease_expired" /\ record' # record =>
          \A p \in Procs : pc[p] \notin Attempting]_vars

\* A completed run is only ever reopened by a regeneration request: queued ->
\* running -> completed has no way back ("This prevents accidentally processing
\* a completed run twice").  A signal after the COMPLETED save, or a failing
\* flush of the directory it is in, refutes it.
CompletedIsFinal ==
    [][record.status = "completed" /\ record'.status # "completed" =>
          record'.interruption = "manual_regeneration"]_vars

\* While a segment is being synthesized the record names it ("The run record
\* also retains ... current segment").  The heartbeat of a blocking model call
\* passes no segment, and refutes it.
RecordNamesItsSegment ==
    \A p \in Procs :
        pc[p] = "synthesizing" => record.segment = worker[p].cursor

\* Who owns the run: the lock's holder, once it has claimed the run.
RunOwner == IF lock # NoProc /\ pc[lock] \in Attempting \cup {"exiting"}
            THEN lock ELSE NoProc

\* The run an outside reader sees keeps the promise of RunPromise.
Promise == INSTANCE RunPromise WITH status <- record.status, owner <- RunOwner

KeepsPromise == Promise!Spec

(***************************************************************************)
(* Fairness.  A live worker keeps executing (its adapters bound every model*)
(* call with a timeout), time passes, and whoever asks for the run again   *)
(* and again meets the lock free: reconcile and resume are one-shot        *)
(* commands, so that meeting is strong fairness.                           *)
(***************************************************************************)
Fairness ==
    /\ \A p \in Procs : WF_vars(Step(p))
    /\ WF_vars(Lapse)
    /\ SF_vars(Reconcile)

FairSpec == Spec /\ Fairness

\* Nothing leaves a run pretending to be running forever.
NotRunningForever == record.status = "running" ~> record.status # "running"

\* Whoever holds the run's lock gives it back.
LockIsReleased == lock # NoProc ~> lock = NoProc

=============================================================================
