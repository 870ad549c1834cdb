---------------------- MODULE GenerateCommandProperties ----------------------
(***************************************************************************)
(* What the generate command and the writers around it must keep.          *)
(***************************************************************************)
EXTENDS GenerateCommand

\* Every variable of the model has its type.
TypeOK ==
    /\ record \in RunRecords
    /\ lock \in Procs \cup {NoProc}
    /\ request \in BOOLEAN
    /\ drafts \in 0 .. Units
    /\ inputs \in BOOLEAN
    /\ raw \in Nat
    /\ issued \in Nat
    /\ pc \in [Procs -> Labels]
    /\ me \in [Procs -> Locals]

\* No writer, locked or not, builds a record the validator refuses.
RecordStaysValid == ValidRecord(record)

\* The record is the commit marker of what it refers to: whatever crash or
\* lost write, it names a request or inputs only when they are on disk, and a
\* generated run has every section validated.
Backed(r) ==
    /\ r.form \in {"pending", "generated"} => request
    /\ r.form \in {"script", "generated"} => inputs
    /\ r.form = "generated" => drafts = Units

RecordIsBacked == Backed(record)

(***************************************************************************)
(* Once a process has claimed the run under its lock, no other actor takes *)
(* the run from it: not a worker, a restart, a reconciliation, another     *)
(* heartbeat, a lost lock.  Only the writers that hold no lock can, the    *)
(* outermost handlers of a generate command and its handoff.               *)
(***************************************************************************)
Intruders == {q \in Procs : \/ pc[q] \in {"unstartedClaim", "handoffSaving"}
                            \/ me[q].handoff = "reading"}

OnlyHandlersIntrude ==
    [][\A p \in Procs :
          /\ lock = p /\ Owned(p)
          /\ ~(record'.status = "running" /\ record'.attempt = me[p].attempt)
          => \/ pc[p] \in {"stopping", "rendering"} /\ pc'[p] # pc[p]
             \/ Intruders \ {p} # {}]_vars

\* Of two commands for one run the loser of the lock changes nothing: a run is
\* failed by the process that owns it, or while nobody does ("confirm the lock
\* rejects it without changing the run").  The loser's outermost handler
\* refutes it: it claims a run its winner has not claimed yet, and fails it.
LoserChangesNothing ==
    [][record.status # "failed" /\ record'.status = "failed" =>
          lock \in {NoProc, record'.owner}]_vars

\* A failure or cancellation, once recorded, is not undone by the attempt that
\* recorded it ("failure, cancellation, assembly, and QC do not leave running
\* behind").  A handoff heartbeat that read the record before refutes it.
StoppedAttemptStaysStopped ==
    [][record.status \in {"failed", "interrupted"} /\ record'.status = "running" =>
          record'.attempt # record.attempt]_vars

\* A run that stopped or never started can be taken up again by some command:
\* a crash between the request file and its record is repaired by the retry
\* ("an identical retry is idempotent and repairs a crash between artifact and
\* record commits").
CanContinue(r) ==
    \/ Promotable(r, TRUE) /\ (r.form = "pending" => request)
    \/ Restartable(r)
    \/ r.form # "pending" /\ \E c \in {"process", "resume"} : Claimable(c, r)

NeverStranded ==
    record.status \in {"queued", "interrupted", "failed"} => CanContinue(record)

\* The promotion of a restarted generation can finish what the interrupted one
\* began ("Validated planning checkpoints were kept and the run can be
\* resumed").  The raw model output of the earlier attempt refutes it.
PromotionCanFinish ==
    \A p \in Procs : pc[p] = "promoting" /\ Owned(p) => raw \in {0, me[p].attempt}

\* A worker renders a run with the adapter built for the inputs the run has
\* ("Reconstruct a schema-v4 worker only from durable run configuration").
\* Between the load that chose the adapter and the claim, the placeholder may
\* have become a script run.
WorkerMatchesRun ==
    [][\A p \in Procs : pc[p] = "ready" /\ pc'[p] = "rendering" =>
          me[p].seen.form = record.form]_vars

(***************************************************************************)
(* Fairness.  A live command keeps executing, its heartbeat threads with   *)
(* it; time passes; reconciliation is asked for again and again.           *)
(***************************************************************************)
Fairness ==
    /\ \A p \in Procs : WF_vars(Step(p)) /\ WF_vars(HandoffHeartbeat(p)) /\ SF_vars(Unwind(p))
    /\ WF_vars(Lapse)
    /\ SF_vars(Reconcile)

FairSpec == Spec /\ Fairness

\* A run does not pretend to be running forever, whatever its command met.
NotRunningForever == record.status = "running" ~> record.status # "running"

\* Nor is its lock kept.
LockIsReleased == lock # NoProc ~> lock = NoProc

-----------------------------------------------------------------------------
(***************************************************************************)
(* The inductive invariant behind RecordStaysValid, RecordIsBacked and     *)
(* OnlyHandlersIntrude.  A process saves the record from a copy it loaded  *)
(* earlier, so the copies have to be sound too, and the copy of a process  *)
(* inside an attempt has to be one of that attempt: attempts are never     *)
(* shared, so what it saves cannot be taken for somebody else's record.    *)
(***************************************************************************)
WellFormed(r) ==
    /\ ValidRecord(r)
    /\ r.completed <= SpeechCount
    /\ r.status = "queued" => r.form # "generated"
    /\ r.interruption = "user_cancelled" => r.status = "interrupted"

Sound(r) == WellFormed(r) /\ Backed(r) /\ r.attempt <= issued

\* r is a copy of the record made within p's attempt.
OwnCopy(p, r) == r.status = "running" /\ r.attempt = me[p].attempt

Unclaimed == {"idle", "starting", "requested", "locked", "ready"}

HandingOver ==
    {"promoted", "stopping", "handoff", "handoffStopping", "handoffSaving", "unwinding"}

PlaceIsSafe(p) ==
    LET l == me[p] IN
    /\ Sound(l.seen) /\ Sound(l.snap)
    /\ l.attempt <= issued
    /\ pc[p] \in Unclaimed => l.attempt = 0
    /\ l.beat # "off" => pc[p] \in PlanningStages
    /\ pc[p] \in PlanningStages /\ Owned(p) => record.form \in {"fixture", "pending"}
    /\ pc[p] \in {"promoting", "bundling", "bundled"} => drafts = Units
    /\ pc[p] \in {"bundling", "bundled"} =>
          OwnCopy(p, l.seen) /\ l.seen.form = "pending" /\ inputs
    /\ pc[p] = "handoffSaving" => OwnCopy(p, l.seen)
    /\ l.handoff = "reading" => OwnCopy(p, l.snap)
    /\ l.handoff # "off" => pc[p] \in HandingOver
    /\ pc[p] = "unstartedClaim" =>
          l.seen.status = "queued" /\ l.seen.form \in {"fixture", "pending"}
    /\ pc[p] = "rendering" =>
          /\ OwnCopy(p, l.seen) /\ l.seen.form # "pending"
          /\ l.seen.stage = "synthesizing" => l.seen.total = SpeechCount

GenerateInv ==
    /\ TypeOK
    /\ Sound(record)
    /\ \A p \in Procs : lock = p <=> pc[p] \in UnderLock
    /\ \A p, q \in Procs : p # q /\ me[p].attempt = me[q].attempt => me[p].attempt = 0
    /\ \A p \in Procs : PlaceIsSafe(p)

=============================================================================
