----------------------- MODULE RunLifecycleInvariant -----------------------
(***************************************************************************)
(* The inductive invariant behind the theorems of RunLifecycleProofs: what *)
(* the lock, the record, the disk and the holder's local state have to do  *)
(* with one another between any two steps.                                 *)
(***************************************************************************)
EXTENDS RunLifecycleProperties

\* Exactly the process between its acquire and its release has the lock.
LockInv == \A p \in Procs : pc[p] \in Holding <=> lock = p

\* A valid record of a run that has its inputs; an active one carries no
\* interruption kind.
WellFormed(r) ==
    /\ ValidRecord(r)
    /\ r.form # "pending"
    /\ r.stage \notin PlanningStages
    /\ IsActive(r) => r.interruption = "none"

RecordInv == WellFormed(record)

\* A completed checkpoint has audio; what is on disk was written by attempts
\* already issued; a completed record has its artifacts.
DiskInv ==
    /\ \A s \in Segments :
          checkpoint[s].status = "completed" => checkpoint[s].version # 0
    /\ \A f \in DOMAIN FinalFiles : final[f] <= issued
    /\ CompletedMeansCommitted

(***************************************************************************)
(* The holder's own copy of the record is a running one of its own attempt,*)
(* and its counters say where in the pipeline it is.                       *)
(***************************************************************************)
AttemptStages == {"compiling", "synthesizing", "assembling", "quality_check"}

IsOwn(own, p) ==
    /\ own.status = "running" /\ own.lease = "live" /\ own.interruption = "none"
    /\ own.owner = p /\ own.attempt # 0 /\ own.attempts # 0
    /\ own.failedSegment = 0
    /\ own.form # "pending" /\ own.stage \in AttemptStages
    /\ own.completed <= own.total

OwnCopy(p) ==
    /\ IsOwn(worker[p].running, p)
    /\ worker[p].running.attempt <= issued
    /\ worker[p].completed <= worker[p].total

Rendered == {"assembling", "checking", "written", "committed"}

\* Segments whose audio the attempt has in hand.
Done(p) ==
    IF pc[p] \in {"between", "audio"} THEN 1 .. worker[p].cursor
    ELSE IF pc[p] \in {"segment", "synthesizing", "caching"}
    THEN 1 .. worker[p].cursor - 1
    ELSE IF pc[p] \in Rendered THEN Segments
    ELSE {}

Counters(p) ==
    /\ pc[p] \in {"compiling", "compiled"} => worker[p].cursor = 0
    /\ pc[p] = "compiled" => worker[p].completed = 0
    /\ pc[p] \in {"between", "audio"} => worker[p].completed = worker[p].cursor
    /\ pc[p] \in {"segment", "synthesizing", "caching"} =>
          worker[p].completed = worker[p].cursor - 1
    /\ pc[p] \in {"between", "audio", "segment", "synthesizing", "caching"} =>
          worker[p].cursor <= SpeechCount
    /\ pc[p] \in {"segment", "synthesizing", "caching", "audio"} =>
          worker[p].cursor # 0
    /\ pc[p] \in Rendered => worker[p].completed = SpeechCount
    /\ pc[p] \in (Working \ {"compiling"}) \cup {"committed"} =>
          worker[p].total = SpeechCount /\ timeline

\* Every segment done has audio, and a bypassed one the attempt's own.
Audio(p) ==
    \A s \in Done(p) :
        /\ worker[p].prepared[s] # 0
        /\ s \in worker[p].bypass =>
              worker[p].prepared[s] = worker[p].running.attempt

\* Before the final artifacts are written none is this attempt's; narration.wav
\* is the first of them, and all are there when the heartbeat has stopped.
Artifacts(p) ==
    LET attempt == worker[p].running.attempt IN
    /\ pc[p] \in Working \ {"checking", "written"} =>
          \A f \in DOMAIN FinalFiles : final[f] # attempt
    /\ pc[p] = "checking" /\ final[1] = attempt => narration = worker[p].prepared
    /\ pc[p] \in {"written", "committed"} =>
          /\ \A f \in DOMAIN FinalFiles : final[f] = attempt
          /\ narration = worker[p].prepared

AttemptInv(p) ==
    /\ pc[p] \in Attempting =>
          /\ OwnCopy(p)
          /\ Counters(p)
          /\ Audio(p)
          /\ Artifacts(p)
    /\ pc[p] \in Working => SameAttempt(record, worker[p].running)
    /\ pc[p] = "committed" => record.status = "completed"
    /\ pc[p] = "synthesizing" =>
          checkpoint[worker[p].cursor].status = "running"
    /\ worker[p].beating = "on" => pc[p] \in Working \ {"written"}

Inv ==
    /\ TypeOK
    /\ LockInv
    /\ RecordInv
    /\ DiskInv
    /\ \A p \in Procs : AttemptInv(p)

(***************************************************************************)
(* What the progress counters count.  The record's counter follows the     *)
(* holder's, which is ahead of it, and that one the segments done; only    *)
(* the last have a checkpoint each whatever the attempt bypasses.          *)
(***************************************************************************)
Kept == {s \in Segments : checkpoint[s].status = "completed"}

BackInv ==
    /\ ProgressIsBacked
    /\ \A p \in Procs : pc[p] \in Attempting =>
          /\ worker[p].completed <= Cardinality(Kept)
          /\ Done(p) \subseteq Kept
          /\ pc[p] = "caching" => worker[p].cursor \in Kept

=============================================================================
