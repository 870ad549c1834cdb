---------------------------- MODULE RunLifecycle ----------------------------
(***************************************************************************)
(* One durable run and the local worker processes that claim it: LocalWorker*)
(* (process, resume), segment regeneration, the heartbeat thread of an     *)
(* attempt, reconciliation of expired leases, signals and process death.   *)
(*                                                                         *)
(* Everything on disk survives a crash: the record, the segment            *)
(* checkpoints, the shared cache, the timeline and the final artifacts.    *)
(* The per-run OS lock and all process-local state do not.  Each file      *)
(* replacement is one step.  Audio is represented by its version: the      *)
(* attempt that synthesized it, 0 for none.                                *)
(***************************************************************************)
EXTENDS RunRecord, Sequences

CONSTANTS MaxAttempts,   \* bound on process_attempts
          Forms          \* source forms a run may be created with

ASSUME MaxAttemptsAssumption == MaxAttempts \in Nat
ASSUME FormsAssumption == Forms \subseteq {"fixture", "script", "generated"}

VARIABLES
    record,      \* run.json
    lock,        \* holder of the per-run OS lock
    timeline,    \* timeline.json exists
    checkpoint,  \* per segment: status and version of the run's checkpoint
    cache,       \* per segment: version in the shared content-addressed cache
    final,       \* attempt that wrote narration.wav, its manifest, quality.json
    narration,   \* per segment: version assembled into narration.wav
    issued,      \* attempt identifiers drawn so far (uuid4)
    pc,          \* where each process is
    worker       \* each process's local state

disk == <<timeline, checkpoint, cache, final, narration>>
vars == <<record, lock, timeline, checkpoint, cache, final, narration,
          issued, pc, worker>>

FinalFiles == <<"narration.wav", "audio-manifest.json", "quality.json">>

CheckpointStatus == {"none", "running", "completed", "failed"}
Checkpoints == [status : CheckpointStatus, version : Nat]
NoCheckpoint == [status |-> "none", version |-> 0]

(***************************************************************************)
(* Control points.  Working: inside the try block of _execute, before the  *)
(* terminal save.  Handling: inside an exception handler, its save still   *)
(* to come.  "committed" has saved COMPLETED but not left the try block.   *)
(***************************************************************************)
Working == {"compiling", "compiled", "between", "segment", "synthesizing", "caching",
            "audio", "assembling", "checking", "written"}
Handling == {"failing", "stopping"}
Attempting == Working \cup Handling \cup {"committed"}
Holding == Attempting \cup {"locked", "exiting"}
Outside == {"idle", "preparing", "ready"}

Workers ==
    [mode     : {"process", "resume"},
     asked    : Nat,                     \* segment argument of regenerate-segment
     bypass   : SUBSET Nat,              \* bypass_cache_segment_ids
     running  : RunRecords,              \* the worker's own copy of the record
     total    : Nat,                     \* its RunRecovery, ahead of running
     completed : Nat,                    \*   until the next save
     cursor   : Nat,                     \* current_segment_id in _execute
     prepared : [Segments -> Nat],       \* prepared_audio
     beating  : {"off", "on", "dead"}]   \* the heartbeat thread

NewWorker ==
    [mode |-> "process", asked |-> 0, bypass |-> {},
     running |-> QueuedRecord("fixture"), total |-> 0, completed |-> 0, cursor |-> 0,
     prepared |-> [s \in Segments |-> 0], beating |-> "off"]

Init ==
    /\ \E form \in Forms : record = QueuedRecord(form)
    /\ lock = NoProc
    /\ timeline = FALSE
    /\ checkpoint = [s \in Segments |-> NoCheckpoint]
    /\ cache = [s \in Segments |-> 0]
    /\ final = [f \in DOMAIN FinalFiles |-> 0]
    /\ narration = [s \in Segments |-> 0]
    /\ issued = 0
    /\ pc = [p \in Procs |-> "idle"]
    /\ worker = [p \in Procs |-> NewWorker]

\* The process ends, and its memory with it.
Exit(p) ==
    /\ pc' = [pc EXCEPT ![p] = "idle"]
    /\ worker' = [worker EXCEPT ![p] = NewWorker]

Goto(p, label) == pc' = [pc EXCEPT ![p] = label]

(***************************************************************************)
(* Commands.  The CLI loads the record and builds the worker before it     *)
(* takes the lock; nothing it reads there is trusted later.                *)
(***************************************************************************)
Launch(p) ==
    /\ pc[p] = "idle"
    /\ issued < MaxAttempts
    /\ \/ /\ \E m \in {"process", "resume"} :
                worker' = [worker EXCEPT ![p] = [NewWorker EXCEPT !.mode = m]]
          /\ Goto(p, "ready")
       \/ /\ \E s \in Segments :
                worker' = [worker EXCEPT ![p] = [NewWorker EXCEPT !.asked = s]]
          /\ Goto(p, "preparing")
    /\ UNCHANGED <<record, lock, disk, issued>>

\* _validate_stopped_run and the timeline it then needs.
CanRegenerate(r) == r.status \in Stopped /\ timeline

\* Mutation: the counter is decremented whatever it is.
UnguardedRegeneration(r, s) ==
    [Finished(r, "interrupted", "synthesizing", s, "manual_regeneration")
       EXCEPT !.completed = @ - 1, !.failedSegment = 0]

\* _manual_regeneration_record: reopen a stopped run for one segment.
ManualRegeneration(r, s) ==
    LET less == IF checkpoint[s].status = "completed" /\ r.completed > 0
                THEN r.completed - 1 ELSE r.completed
        kept == IF less < r.total THEN less
                ELSE IF r.total > 0 THEN r.total - 1 ELSE 0
    IN  [Finished(r, "interrupted", "synthesizing", s, "manual_regeneration")
           EXCEPT !.completed = kept, !.failedSegment = 0]

(***************************************************************************)
(* prepare_segment_regeneration, whole: it takes and releases the lock, and*)
(* the record save is its only step that matters to another process.  The  *)
(* command then builds a worker that bypasses the segment and resumes.     *)
(***************************************************************************)
PrepareRegeneration(p) ==
    /\ pc[p] = "preparing"
    /\ IF lock = NoProc /\ CanRegenerate(record)
       THEN /\ record' = ManualRegeneration(record, worker[p].asked)
            /\ worker' = [worker EXCEPT ![p].mode = "resume",
                                        ![p].bypass = {worker[p].asked}]
            /\ Goto(p, "ready")
       ELSE Exit(p) /\ UNCHANGED record
    /\ UNCHANGED <<lock, disk, issued>>

\* Mutation: the lock is taken without asking who has it.
AcquireRegardless(p) ==
    /\ pc[p] = "ready"
    /\ lock' = p
    /\ Goto(p, "locked")
    /\ UNCHANGED <<record, disk, issued, worker>>

\* RunLock.acquire never waits: the loser fails and changes nothing.  The
\* winner of a resume first reconciles a stale record.
Acquire(p) ==
    /\ pc[p] = "ready"
    /\ IF lock = NoProc
       THEN /\ lock' = p
            /\ record' = IF worker[p].mode = "resume"
                         THEN Reconciled(record) ELSE record
            /\ Goto(p, "locked")
            /\ UNCHANGED worker
       ELSE Exit(p) /\ UNCHANGED <<lock, record>>
    /\ UNCHANGED <<disk, issued>>

\* Mutation: resume accepts a completed run, too.
ClaimableAgain(mode, r) ==
    IF mode = "process" THEN r.status = "queued" ELSE r.status \in Stopped

\* The status guards of _claim_and_execute.
Claimable(mode, r) ==
    \/ mode = "process" /\ r.status = "queued"
    \/ /\ mode = "resume"
       /\ r.status \in {"failed", "interrupted"}
       /\ ~(r.form = "fixture" /\ r.stage \in PlanningStages)

\* The segment a persisted regeneration request names, if it is still there.
PersistedBypass(r) ==
    IF r.interruption = "manual_regeneration" /\ r.segment # 0
    THEN {r.segment} ELSE {}

(***************************************************************************)
(* The claim is saved inside the try block of _execute: a save that fails, *)
(* or that a signal cuts off, goes to the attempt's own handlers with the  *)
(* claim known to the worker only.                                         *)
(***************************************************************************)
Begin(p) ==
    /\ pc[p] = "locked"
    /\ Claimable(worker[p].mode, record)
    /\ LET running == Claimed(record, issued + 1, p, "compiling")
           intent  == IF worker[p].mode = "resume"
                      THEN PersistedBypass(record) ELSE {}
           claim(beating) == [worker EXCEPT ![p].running = running,
                                            ![p].bypass = @ \cup intent,
                                            ![p].total = record.total,
                                            ![p].completed = record.completed,
                                            ![p].cursor = 0,
                                            ![p].beating = beating]
       IN  \/ /\ record' = running
              /\ worker' = claim("on")
              /\ Goto(p, "compiling")
           \/ /\ worker' = claim("off")
              /\ \E handler \in Handling : Goto(p, handler)
              /\ UNCHANGED record
    /\ issued' = issued + 1
    /\ UNCHANGED <<lock, disk>>

Refuse(p) ==
    /\ pc[p] = "locked"
    /\ ~ Claimable(worker[p].mode, record)
    /\ lock' = NoProc
    /\ Exit(p)
    /\ UNCHANGED <<record, disk, issued>>

(***************************************************************************)
(* The processing attempt.  Progress is saved from the worker's OWN copy   *)
(* of the record and its local counters; the durable record is not read    *)
(* back.                                                                   *)
(***************************************************************************)
Recovered(w, r) == [r EXCEPT !.total = w.total, !.completed = w.completed]

Progress(p, stage, segment) ==
    Beat(Recovered(worker[p], worker[p].running), stage, segment)

SaveProgress(p, running) ==
    /\ record' = running
    /\ worker' = [worker EXCEPT ![p].running = running]

\* Mutation: the completed counter of the earlier attempt is kept.
LoadTimelineKeepingCount(p) ==
    /\ pc[p] = "compiling"
    /\ timeline' = TRUE
    /\ worker' = [worker EXCEPT ![p].total = SpeechCount]
    /\ Goto(p, "compiled")
    /\ UNCHANGED <<record, lock, checkpoint, cache, final, narration, issued>>

\* Reuse the canonical timeline, or build and write it once.
LoadTimeline(p) ==
    /\ pc[p] = "compiling"
    /\ timeline' = TRUE
    /\ worker' = [worker EXCEPT ![p].total = SpeechCount, ![p].completed = 0]
    /\ Goto(p, "compiled")
    /\ UNCHANGED <<record, lock, checkpoint, cache, final, narration, issued>>

EnterSynthesis(p) ==
    /\ pc[p] = "compiled"
    /\ SaveProgress(p, Progress(p, "synthesizing", 0))
    /\ Goto(p, "between")
    /\ UNCHANGED <<lock, disk, issued>>

StartSegment(p) ==
    /\ pc[p] = "between"
    /\ worker[p].cursor < SpeechCount
    /\ LET s == worker[p].cursor + 1
           running == Progress(p, "synthesizing", s)
       IN  /\ record' = running
           /\ worker' = [worker EXCEPT ![p].running = running,
                                       ![p].cursor = s]
    /\ Goto(p, IF worker[p].beating = "dead" THEN "failing" ELSE "segment")
    /\ UNCHANGED <<lock, disk, issued>>

\* prepared_audio and the local completed counter move together.
WithAudio(w, s, version) ==
    [w EXCEPT !.prepared[s] = version, !.completed = @ + 1]

Bypassed(p) == worker[p].cursor \in worker[p].bypass

\* Mutation: the bypass is honoured by the shared cache only.
ReuseCheckpointAlways(p) ==
    LET s == worker[p].cursor IN
    /\ pc[p] = "segment"
    /\ checkpoint[s].status = "completed"
    /\ worker' = [worker EXCEPT ![p] = WithAudio(@, s, checkpoint[s].version)]
    /\ Goto(p, "audio")
    /\ UNCHANGED <<record, lock, disk, issued>>

ReuseCheckpoint(p) ==
    LET s == worker[p].cursor IN
    /\ pc[p] = "segment"
    /\ ~ Bypassed(p)
    /\ checkpoint[s].status = "completed"
    /\ worker' = [worker EXCEPT ![p] = WithAudio(@, s, checkpoint[s].version)]
    /\ Goto(p, "audio")
    /\ UNCHANGED <<record, lock, disk, issued>>

\* A shared cache hit becomes this run's checkpoint.
ReuseCache(p) ==
    LET s == worker[p].cursor IN
    /\ pc[p] = "segment"
    /\ ~ Bypassed(p)
    /\ checkpoint[s].status # "completed"
    /\ cache[s] # 0
    /\ checkpoint' = [checkpoint EXCEPT
                        ![s] = [status |-> "completed", version |-> cache[s]]]
    /\ worker' = [worker EXCEPT ![p] = WithAudio(@, s, cache[s])]
    /\ Goto(p, "audio")
    /\ UNCHANGED <<record, lock, timeline, cache, final, narration, issued>>

\* A miss: the running checkpoint replaces whatever the segment had.
StartSynthesis(p) ==
    LET s == worker[p].cursor IN
    /\ pc[p] = "segment"
    /\ Bypassed(p) \/ (checkpoint[s].status # "completed" /\ cache[s] = 0)
    /\ SaveProgress(p, Progress(p, "synthesizing", s))
    /\ checkpoint' = [checkpoint EXCEPT
                        ![s] = [status |-> "running", version |-> 0]]
    /\ Goto(p, "synthesizing")
    /\ UNCHANGED <<lock, timeline, cache, final, narration, issued>>

FinishSynthesis(p) ==
    /\ pc[p] = "synthesizing"
    /\ checkpoint' = [checkpoint EXCEPT ![worker[p].cursor] =
                        [status |-> "completed",
                         version |-> worker[p].running.attempt]]
    /\ Goto(p, "caching")
    /\ UNCHANGED <<record, lock, timeline, cache, final, narration, issued,
                   worker>>

StoreInCache(p) ==
    LET s == worker[p].cursor
        version == worker[p].running.attempt IN
    /\ pc[p] = "caching"
    /\ cache' = [cache EXCEPT ![s] = version]
    /\ worker' = [worker EXCEPT ![p] = WithAudio(@, s, version)]
    /\ Goto(p, "audio")
    /\ UNCHANGED <<record, lock, timeline, checkpoint, final, narration, issued>>

CompleteSegment(p) ==
    /\ pc[p] = "audio"
    /\ SaveProgress(p, Progress(p, "synthesizing", worker[p].cursor))
    /\ Goto(p, "between")
    /\ UNCHANGED <<lock, disk, issued>>

Assemble(p) ==
    /\ pc[p] = "between"
    /\ worker[p].cursor = SpeechCount
    /\ LET running == Progress(p, "assembling", 0)
       IN  /\ record' = running
           /\ worker' = [worker EXCEPT ![p].running = running,
                                       ![p].cursor = 0]
    /\ Goto(p, "assembling")
    /\ UNCHANGED <<lock, disk, issued>>

CheckQuality(p) ==
    /\ pc[p] = "assembling"
    /\ SaveProgress(p, Progress(p, "quality_check", 0))
    /\ Goto(p, "checking")
    /\ UNCHANGED <<lock, disk, issued>>

\* narration.wav, its manifest and quality.json, replaced one after another.
WriteFinal(p) ==
    LET attempt == worker[p].running.attempt IN
    /\ pc[p] = "checking"
    /\ \E f \in DOMAIN FinalFiles :
          /\ final[f] # attempt
          /\ \A g \in 1 .. f - 1 : final[g] = attempt
          /\ final' = [final EXCEPT ![f] = attempt]
          /\ narration' = IF f = 1 THEN worker[p].prepared ELSE narration
          /\ IF f = Len(FinalFiles)
             THEN /\ Goto(p, "written")
                  /\ worker' = [worker EXCEPT ![p].beating = "off"]
             ELSE UNCHANGED <<pc, worker>>
    /\ UNCHANGED <<record, lock, timeline, checkpoint, cache, issued>>

\* The terminal save of an attempt, from its local copy and counters.
Settled(p, status, stage, segment, kind) ==
    Finished(Recovered(worker[p], worker[p].running), status, stage, segment, kind)

\* Mutation: completed is saved before the final artifacts.
CommitBeforeArtifacts(p) ==
    /\ pc[p] = "checking"
    /\ record' = Settled(p, "completed", "completed", 0, "none")
    /\ Goto(p, "committed")
    /\ UNCHANGED <<lock, disk, issued, worker>>

Commit(p) ==
    /\ pc[p] = "written"
    /\ record' = Settled(p, "completed", "completed", 0, "none")
    /\ Goto(p, "committed")
    /\ UNCHANGED <<lock, disk, issued, worker>>

\* current_segment_id moves on just before the save that names the segment.
Cursors(p) ==
    {worker[p].cursor} \cup
    {s \in Segments : pc[p] = "between" /\ s = worker[p].cursor + 1}

\* Mutation: a failed cache store marks the finished checkpoint failed.
RaiseDiscardingCheckpoint(p) ==
    /\ pc[p] \in {"synthesizing", "caching"}
    /\ checkpoint' = [checkpoint EXCEPT ![worker[p].cursor].status = "failed"]
    /\ worker' = [worker EXCEPT ![p].beating = "off"]
    /\ Goto(p, "failing")
    /\ UNCHANGED <<record, lock, timeline, cache, final, narration, issued>>

(***************************************************************************)
(* Failure.  An exception stops the heartbeat and saves FAILED; the save   *)
(* itself may fail, or a second signal may abandon the handler.  A save    *)
(* replaces run.json before it flushes the directory, and an error of that *)
(* flush is raised although the record is there: after the claim and the   *)
(* progress saves that is a failure right after the step that saved, and   *)
(* after the COMPLETED save it is the only exception the try block can see.*)
(***************************************************************************)
Raise(p) ==
    /\ pc[p] \in Working \cup {"committed"}
    /\ \/ UNCHANGED checkpoint
       \/ /\ pc[p] = "synthesizing"
          /\ checkpoint' = [checkpoint EXCEPT ![worker[p].cursor].status = "failed"]
    /\ \E s \in Cursors(p) :
          worker' = [worker EXCEPT ![p].beating = "off", ![p].cursor = s]
    /\ Goto(p, "failing")
    /\ UNCHANGED <<record, lock, timeline, cache, final, narration, issued>>

SaveFailed(p) ==
    /\ pc[p] = "failing"
    /\ record' = [Settled(p, "failed", worker[p].running.stage,
                          worker[p].cursor, "none")
                    EXCEPT !.failedSegment = worker[p].cursor]
    /\ worker' = [worker EXCEPT ![p].beating = "off"]
    /\ Goto(p, "exiting")
    /\ UNCHANGED <<lock, disk, issued>>

(***************************************************************************)
(* A signal surfaces as KeyboardInterrupt or SystemExit wherever the main  *)
(* thread is: before the attempt it only drops the lock, inside the try    *)
(* block it enters the interruption handler, inside a handler it abandons  *)
(* it.  The try block starts with the save of the claim (the unsaved claim *)
(* of Begin) and still spans the event written after the COMPLETED save.   *)
(***************************************************************************)
Signal(p) ==
    \/ /\ pc[p] \in Working \cup {"committed"}
       /\ \E s \in Cursors(p) :
             worker' = [worker EXCEPT ![p].beating = "off", ![p].cursor = s]
       /\ Goto(p, "stopping")
       /\ UNCHANGED <<record, lock, disk, issued>>
    \/ /\ pc[p] \in Handling
       /\ worker' = [worker EXCEPT ![p].beating = "off"]
       /\ Goto(p, "exiting")
       /\ UNCHANGED <<record, lock, disk, issued>>
    \/ /\ pc[p] = "locked"
       /\ lock' = NoProc
       /\ Exit(p)
       /\ UNCHANGED <<record, disk, issued>>

SaveInterrupted(p) ==
    /\ pc[p] = "stopping"
    /\ record' = Settled(p, "interrupted", worker[p].running.stage,
                         worker[p].cursor, "signal")
    /\ Goto(p, "exiting")
    /\ UNCHANGED <<lock, disk, issued, worker>>

\* Mutation: a completed attempt does not let go of its lock.
LeaveAfterFailure(p) ==
    /\ pc[p] = "exiting"
    /\ lock' = NoProc
    /\ Exit(p)
    /\ UNCHANGED <<record, disk, issued>>

\* Leaving the with block of the lock; the process ends.
Leave(p) ==
    /\ pc[p] \in {"committed", "exiting"}
    /\ lock' = NoProc
    /\ Exit(p)
    /\ UNCHANGED <<record, disk, issued>>

\* Death without a handler: the OS frees the lock, the disk stays as it is.
Crash(p) ==
    /\ pc[p] # "idle"
    /\ lock' = IF lock = p THEN NoProc ELSE lock
    /\ Exit(p)
    /\ UNCHANGED <<record, disk, issued>>

(***************************************************************************)
(* The heartbeat thread: a read-modify-write of the durable record under   *)
(* the worker's state lock, so atomic against the worker's own saves.  It  *)
(* passes no segment, and it stops for good at its first error.            *)
(***************************************************************************)
Heartbeat(p) ==
    /\ worker[p].beating = "on"
    /\ IF record.status = "running" /\ record.attempt = worker[p].running.attempt
       THEN /\ record' = Beat(record, record.stage, 0)
            /\ UNCHANGED worker
       ELSE /\ worker' = [worker EXCEPT ![p].beating = "dead"]
            /\ UNCHANGED record
    /\ UNCHANGED <<lock, disk, issued, pc>>

HeartbeatDies(p) ==
    /\ worker[p].beating = "on"
    /\ worker' = [worker EXCEPT ![p].beating = "dead"]
    /\ UNCHANGED <<record, lock, disk, issued, pc>>

\* Fifteen seconds without a renewal: a dead owner, a stalled disk, a
\* laptop that slept.
Lapse ==
    /\ record.lease = "live"
    /\ record' = [record EXCEPT !.lease = "lapsed"]
    /\ UNCHANGED <<lock, disk, issued, pc, worker>>

\* Mutation: an expired lease is enough, whoever holds the lock.
ReconcileUnlocked ==
    /\ Stale(record)
    /\ record' = Reconciled(record)
    /\ UNCHANGED <<lock, disk, issued, pc, worker>>

\* reconcile_stale_run, from any command: only with the OS lock in hand.
Reconcile ==
    /\ lock = NoProc
    /\ Stale(record)
    /\ record' = Reconciled(record)
    /\ UNCHANGED <<lock, disk, issued, pc, worker>>

Step(p) ==
    \/ Begin(p) \/ Refuse(p) \/ LoadTimeline(p) \/ EnterSynthesis(p)
    \/ StartSegment(p)
    \/ ReuseCheckpoint(p) \/ ReuseCache(p) \/ StartSynthesis(p)
    \/ FinishSynthesis(p) \/ StoreInCache(p) \/ CompleteSegment(p)
    \/ Assemble(p) \/ CheckQuality(p) \/ WriteFinal(p) \/ Commit(p)
    \/ SaveFailed(p) \/ SaveInterrupted(p) \/ Leave(p)

Command(p) == Launch(p) \/ PrepareRegeneration(p) \/ Acquire(p)

Fault(p) == Raise(p) \/ Signal(p) \/ Crash(p) \/ HeartbeatDies(p)

Next ==
    \/ \E p \in Procs : Command(p) \/ Step(p) \/ Heartbeat(p) \/ Fault(p)
    \/ Lapse
    \/ Reconcile

Spec == Init /\ [][Next]_vars

=============================================================================
