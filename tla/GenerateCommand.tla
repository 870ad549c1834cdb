-------------------------- MODULE GenerateCommand --------------------------
(***************************************************************************)
(* The way of one run from a placeholder to audio: the generate command    *)
(* (prompt and script mode), run resume of a run whose planning stopped,   *)
(* the generation and handoff heartbeats, the promotion of the finished    *)
(* draft, and the audio worker it hands over to.  LocalWorker's own steps  *)
(* are those of RunLifecycle, here reduced to claim, progress and end: an  *)
(* end over a claim that could not be saved, or over a completion that was,*)
(* is in RunLifecycle only.                                                *)
(*                                                                         *)
(* RunStore.start_generation, fail_active_run and interrupt_active_run     *)
(* load the record and save it later with no lock of their own: where the  *)
(* caller does not hold the run's OS lock, the load and the save are two   *)
(* steps.  The prompt, the model settings and the drafts' text are the     *)
(* same in every command for the run: a command with others fails in       *)
(* preflight.                                                              *)
(***************************************************************************)
EXTENDS RunRecord

CONSTANTS Generators,    \* the processes that may run the generate command
          Units,         \* model calls of a generation: the plan, then sections
          MaxAttempts    \* bound on the attempts a run is given

ASSUME GeneratorsAssumption == Generators \subseteq Procs
ASSUME UnitsAssumption == Units \in Nat \ {0}

VARIABLES
    record,      \* run.json
    lock,        \* holder of the per-run OS lock
    request,     \* generation-request.json exists
    drafts,      \* validated units checkpointed in the generation workspace
    inputs,      \* script, plan, resolved config, model metadata are on disk
    raw,         \* attempt whose raw model output is on disk, 0 for none
    issued,      \* attempt identifiers drawn so far
    pc,
    me           \* each process's local state

bundle == <<inputs, raw>>
vars == <<record, lock, request, drafts, inputs, raw, issued, pc, me>>

Labels ==
    {"idle", "starting", "requested", "locked", "planning", "drafting",
     "promoting", "bundling", "bundled", "promoted", "stopping",
     "handoff", "joining", "handoffStopping", "handoffSaving", "unwinding",
     "unstarted", "unstartedClaim", "unstartedSettle",
     "ready", "rendering", "settled"}

\* The generation's try block, under the lock.
InGeneration == {"planning", "drafting", "promoting", "bundling", "bundled",
                 "promoted"}
UnderLock == InGeneration \cup {"locked", "stopping", "rendering", "settled"}

NoRecord == QueuedRecord("fixture")

Locals ==
    [command  : {"prompt", "script", "process", "resume"},
     attempt  : Nat,                               \* generation_attempt_id
     drew     : BOOLEAN,                           \* raw_attempts is not empty
     beat     : {"off", "on", "dead"},             \* _GenerationHeartbeat
     handoff  : {"off", "on", "reading", "dead"},  \* _AttemptHeartbeat
     snap     : RunRecords,                        \* what the latter has read
     seen     : RunRecords,                        \* what the main thread has read
     stop     : {"failed", "interrupted"}]         \* how its handler will end

NewLocal ==
    [command |-> "prompt", attempt |-> 0, drew |-> FALSE, beat |-> "off",
     handoff |-> "off", snap |-> NoRecord, seen |-> NoRecord, stop |-> "failed"]

Init ==
    /\ record = QueuedRecord("fixture")
    /\ lock = NoProc
    /\ request = FALSE
    /\ drafts = 0
    /\ inputs = FALSE
    /\ raw = 0
    /\ issued = 0
    /\ pc = [p \in Procs |-> "idle"]
    /\ me = [p \in Procs |-> NewLocal]

Exit(p) ==
    /\ pc' = [pc EXCEPT ![p] = "idle"]
    /\ me' = [me EXCEPT ![p] = NewLocal]

Goto(p, label) == pc' = [pc EXCEPT ![p] = label]

\* RunStore._owned_active_execution.
Owned(p) == record.status = "running" /\ record.attempt = me[p].attempt

StopKind(how) == IF how = "failed" THEN "none" ELSE "signal"

Stopping(r, how) == Finished(r, how, r.stage, r.segment, StopKind(how))

\* The command leaves for its outermost handler, which may still write.
Unstarted(p, how) ==
    /\ Goto(p, "unstarted")
    /\ me' = [me EXCEPT ![p].stop = how, ![p].beat = "off"]

(***************************************************************************)
(* Commands.  A command loads the record first; run resume of a run with   *)
(* no inputs yet becomes the generate command that its request describes.  *)
(***************************************************************************)
LaunchAs(p, command) ==
    /\ pc[p] = "idle"
    /\ IF command = "resume" /\ record.form = "pending"
       THEN /\ me' = [me EXCEPT ![p].seen = record]
            /\ Goto(p, "starting")
       ELSE /\ me' = [me EXCEPT ![p].command = command, ![p].seen = record]
            /\ Goto(p, IF command \in {"prompt", "script"}
                       THEN "starting" ELSE "ready")
    /\ UNCHANGED <<record, lock, request, drafts, bundle, issued>>

Launch(p) ==
    /\ issued < MaxAttempts
    /\ \E command \in {"prompt", "script", "process", "resume"} :
          /\ command \in {"prompt", "script"} => p \in Generators
          /\ LaunchAs(p, command)

\* Anything may go wrong or be cancelled before the run is claimed.
PreflightStops(p) ==
    /\ pc[p] \in {"starting", "requested"}
    /\ \E how \in {"failed", "interrupted"} : Unstarted(p, how)
    /\ UNCHANGED <<record, lock, request, drafts, bundle, issued>>

\* _promotable_placeholder, the request aside.
Promotable(r, partial) ==
    /\ r.status = "queued" /\ r.attempts = 0
    /\ r.form \in {"fixture", "pending"}
    /\ partial \/ (~inputs /\ raw = 0)

(***************************************************************************)
(* write_generation_request for a placeholder that was loaded as one; the  *)
(* comparison with the saved request otherwise.  The request file is       *)
(* replaced before the record: a crash in between leaves the file, and a   *)
(* later command completes the upgrade.                                    *)
(***************************************************************************)
WriteRequest(p) ==
    /\ pc[p] = "starting" /\ me[p].command = "prompt"
    /\ me[p].seen.form = "fixture"
    /\ lock = NoProc
    /\ \/ /\ request /\ record.form \in {"pending", "generated"}
          /\ Goto(p, "requested")
          /\ UNCHANGED <<record, request, me>>
       \/ /\ record.form = "fixture" /\ Promotable(record, FALSE)
          /\ request' = TRUE
          /\ \/ record' = QueuedRecord("pending") /\ Goto(p, "requested") /\ UNCHANGED me
             \/ UNCHANGED record /\ Exit(p)
       \/ /\ record.form = "script" \/ (record.form = "fixture" /\ ~Promotable(record, FALSE))
          /\ Unstarted(p, "failed")
          /\ UNCHANGED <<record, request>>
    /\ UNCHANGED <<lock, drafts, bundle, issued>>

CompareRequest(p) ==
    /\ pc[p] = "starting" /\ me[p].command = "prompt"
    /\ me[p].seen.form # "fixture"
    /\ IF request THEN Goto(p, "requested") /\ UNCHANGED me
                  ELSE Unstarted(p, "failed")
    /\ UNCHANGED <<record, lock, request, drafts, bundle, issued>>

LoseLock(p) ==
    /\ lock # NoProc
    /\ \/ pc[p] = "starting" /\ \/ me[p].command = "script"
                                \/ me[p].seen.form = "fixture"
       \/ pc[p] = "requested"
    /\ Unstarted(p, "failed")
    /\ UNCHANGED <<record, lock, request, drafts, bundle, issued>>

\* Script mode: promote_queued_script_run, whole, then the audio worker.
PromoteScript(p) ==
    /\ pc[p] = "starting" /\ me[p].command = "script"
    /\ lock = NoProc
    /\ IF Promotable(record, TRUE) /\ ~request
       THEN /\ inputs' = TRUE
            /\ \/ /\ record' = QueuedRecord("script")
                  /\ me' = [me EXCEPT ![p].command = "process",
                                      ![p].seen = QueuedRecord("script")]
                  /\ Goto(p, "ready")
               \/ UNCHANGED record /\ Exit(p)
       ELSE Unstarted(p, "failed") /\ UNCHANGED <<record, inputs>>
    /\ UNCHANGED <<lock, request, drafts, raw, issued>>

AcquireForGeneration(p) ==
    /\ pc[p] = "requested"
    /\ lock = NoProc
    /\ lock' = p
    /\ record' = Reconciled(record)
    /\ Goto(p, "locked")
    /\ UNCHANGED <<request, drafts, bundle, issued, me>>

\* start_generation of a queued run, restart_generation of a stopped one.
Startable(r) == Promotable(r, FALSE) /\ request

Restartable(r) ==
    r.status \in {"interrupted", "failed"} /\ r.form = "pending" /\ request

ClaimGeneration(p) ==
    /\ pc[p] = "locked"
    /\ IF Startable(record) \/ Restartable(record)
       THEN /\ record' = Claimed(record, issued + 1, p, "planning")
            /\ issued' = issued + 1
            /\ me' = [me EXCEPT ![p].attempt = issued + 1, ![p].drew = FALSE,
                                ![p].beat = "on"]
            /\ Goto(p, "planning")
            /\ UNCHANGED lock
       ELSE /\ lock' = NoProc
            /\ Unstarted(p, "failed")
            /\ UNCHANGED <<record, issued>>
    /\ UNCHANGED <<request, drafts, bundle>>

(***************************************************************************)
(* Generation.  Every validated unit is checkpointed in the workspace and  *)
(* reused by a restart; only units drawn now leave raw attempts behind.    *)
(***************************************************************************)
StopGeneration(p, how) ==
    /\ me' = [me EXCEPT ![p].beat = "off", ![p].stop = how]
    /\ Goto(p, "stopping")

\* Mutation: one unit too many.
DraftOneMore(p) ==
    /\ pc[p] \in {"planning", "drafting"} /\ drafts <= Units
    /\ drafts' = drafts + 1
    /\ me' = [me EXCEPT ![p].drew = TRUE]
    /\ UNCHANGED <<record, lock, request, bundle, issued, pc>>

DraftUnit(p) ==
    /\ \/ pc[p] = "planning" /\ drafts = 0
       \/ pc[p] = "drafting" /\ drafts < Units
    /\ drafts' = drafts + 1
    /\ me' = [me EXCEPT ![p].drew = TRUE]
    /\ UNCHANGED <<record, lock, request, bundle, issued, pc>>

\* heartbeat.set_stage("drafting") saves at once, or raises out of generate.
EnterDrafting(p) ==
    /\ pc[p] = "planning" /\ drafts > 0
    /\ IF Owned(p)
       THEN /\ record' = Beat(record, "drafting", 0)
            /\ Goto(p, "drafting")
            /\ UNCHANGED me
       ELSE StopGeneration(p, "failed") /\ UNCHANGED record
    /\ UNCHANGED <<lock, request, drafts, bundle, issued>>

\* Mutation: the draft is promoted after its plan alone.
FinishDraftsEarly(p) ==
    /\ pc[p] = "drafting"
    /\ me' = [me EXCEPT ![p].beat = "off"] /\ Goto(p, "promoting")
    /\ UNCHANGED <<record, lock, request, drafts, bundle, issued>>

FinishDrafts(p) ==
    /\ pc[p] = "drafting" /\ drafts = Units
    /\ IF me[p].beat = "dead"
       THEN StopGeneration(p, "failed")
       ELSE me' = [me EXCEPT ![p].beat = "off"] /\ Goto(p, "promoting")
    /\ UNCHANGED <<record, lock, request, drafts, bundle, issued>>

(***************************************************************************)
(* promote_active_generated_run.  The bundle only ever completes files of  *)
(* the same bytes: the inputs are rebuilt identically from the workspace,  *)
(* raw model output is not.  The record is the commit marker, saved last   *)
(* from what was loaded first.                                             *)
(***************************************************************************)
BeginPromotion(p) ==
    /\ pc[p] = "promoting"
    /\ IF Owned(p) /\ record.stage \in PlanningStages /\ record.form = "pending"
          /\ raw \in {0, me[p].attempt}
       THEN /\ inputs' = TRUE
            /\ me' = [me EXCEPT ![p].seen = record]
            /\ Goto(p, "bundling")
       ELSE StopGeneration(p, "failed") /\ UNCHANGED inputs
    /\ UNCHANGED <<record, lock, request, drafts, raw, issued>>

WriteRawOutput(p) ==
    /\ pc[p] = "bundling"
    /\ raw' = IF me[p].drew THEN me[p].attempt ELSE raw
    /\ Goto(p, "bundled")
    /\ UNCHANGED <<record, lock, request, drafts, inputs, issued, me>>

\* Mutation: the promoted record keeps its planning stage.
CommitPromotionInPlace(p) ==
    /\ pc[p] = "bundled"
    /\ record' = [Beat(me[p].seen, me[p].seen.stage, 0) EXCEPT !.form = "generated"]
    /\ me' = [me EXCEPT ![p].handoff = "on", ![p].seen = NoRecord]
    /\ Goto(p, "promoted")
    /\ UNCHANGED <<lock, request, drafts, bundle, issued>>

CommitPromotion(p) ==
    /\ pc[p] = "bundled"
    /\ record' = [Beat(me[p].seen, "compiling", 0) EXCEPT !.form = "generated"]
    /\ me' = [me EXCEPT ![p].handoff = "on", ![p].seen = NoRecord]
    /\ Goto(p, "promoted")
    /\ UNCHANGED <<lock, request, drafts, bundle, issued>>

LeaveGeneration(p) ==
    /\ pc[p] = "promoted"
    /\ lock' = NoProc
    /\ Goto(p, "handoff")
    /\ UNCHANGED <<record, request, drafts, bundle, issued, me>>

\* A model error, a full disk, an exhausted validation, or a signal.
StopsGenerating(p) ==
    /\ pc[p] \in InGeneration
    /\ \E how \in {"failed", "interrupted"} : StopGeneration(p, how)
    /\ UNCHANGED <<record, lock, request, drafts, bundle, issued>>

\* Mutation: a stopped generation saves its end and keeps the lock.
SettleGenerationLocked(p) ==
    /\ pc[p] = "stopping"
    /\ record' = IF Owned(p) THEN Stopping(record, me[p].stop) ELSE record
    /\ Goto(p, "unwinding")
    /\ UNCHANGED <<lock, request, drafts, bundle, issued, me>>

\* fail_active_run or interrupt_active_run by the lock's holder.
SettleGeneration(p) ==
    /\ pc[p] = "stopping"
    /\ record' = IF Owned(p) THEN Stopping(record, me[p].stop) ELSE record
    /\ lock' = NoProc
    /\ Goto(p, "unwinding")
    /\ UNCHANGED <<request, drafts, bundle, issued, me>>

(***************************************************************************)
(* Handoff.  The lock is free while the worker is built; the handoff       *)
(* heartbeat keeps the lease.  Its read-modify-write is not atomic against *)
(* the handler of a failed handoff, which takes no record lock.            *)
(***************************************************************************)
BuildWorker(p) ==
    /\ pc[p] = "handoff"
    /\ \/ /\ me[p].handoff = "on"
          /\ me' = [me EXCEPT ![p].handoff = "off"]
          /\ Goto(p, "joining")
       \/ \E how \in {"failed", "interrupted"} :
             /\ me' = [me EXCEPT ![p].stop = how]
             /\ Goto(p, "handoffStopping")
    /\ UNCHANGED <<record, lock, request, drafts, bundle, issued>>

\* LocalWorker.continue_generated, then _execute's own claim.
Continue(p) ==
    /\ pc[p] = "joining"
    /\ IF lock = NoProc /\ Owned(p) /\ record.form = "generated"
          /\ record.stage = "compiling"
       THEN /\ lock' = p
            /\ record' = Claimed(record, issued + 1, p, "compiling")
            /\ issued' = issued + 1
            /\ me' = [me EXCEPT ![p].seen = record', ![p].attempt = issued + 1]
            /\ Goto(p, "rendering")
       ELSE /\ me' = [me EXCEPT ![p].stop = "failed"]
            /\ Goto(p, "handoffStopping")
            /\ UNCHANGED <<lock, record, issued>>
    /\ UNCHANGED <<request, drafts, bundle>>

\* _persist_generation_handoff_stop: load and check, then save.
ReadForHandoffStop(p) ==
    /\ pc[p] = "handoffStopping"
    /\ IF Owned(p)
       THEN me' = [me EXCEPT ![p].seen = record] /\ Goto(p, "handoffSaving")
       ELSE UNCHANGED me /\ Goto(p, "unwinding")
    /\ UNCHANGED <<record, lock, request, drafts, bundle, issued>>

SaveHandoffStop(p) ==
    /\ pc[p] = "handoffSaving"
    /\ record' = Stopping(me[p].seen, me[p].stop)
    /\ me' = [me EXCEPT ![p].seen = NoRecord]
    /\ Goto(p, "unwinding")
    /\ UNCHANGED <<lock, request, drafts, bundle, issued>>

\* The finally clause joins the handoff heartbeat, after a renewal under way.
Unwind(p) ==
    /\ pc[p] = "unwinding"
    /\ me[p].handoff # "reading"
    /\ Goto(p, "unstarted")
    /\ me' = [me EXCEPT ![p].handoff = "off"]
    /\ UNCHANGED <<record, lock, request, drafts, bundle, issued>>

(***************************************************************************)
(* The outermost handlers: a run that is still queued is claimed only to   *)
(* be failed or interrupted.  They hold no lock.                           *)
(***************************************************************************)
ReadForUnstarted(p) ==
    /\ pc[p] = "unstarted"
    /\ IF Startable(record)
       THEN me' = [me EXCEPT ![p].seen = record] /\ Goto(p, "unstartedClaim")
       ELSE Exit(p)
    /\ UNCHANGED <<record, lock, request, drafts, bundle, issued>>

ClaimUnstarted(p) ==
    /\ pc[p] = "unstartedClaim"
    /\ record' = Claimed(me[p].seen, issued + 1, p, "planning")
    /\ issued' = issued + 1
    /\ me' = [me EXCEPT ![p].attempt = issued + 1, ![p].seen = NoRecord]
    /\ Goto(p, "unstartedSettle")
    /\ UNCHANGED <<lock, request, drafts, bundle>>

SettleUnstarted(p) ==
    /\ pc[p] = "unstartedSettle"
    /\ record' = IF Owned(p) THEN Stopping(record, me[p].stop) ELSE record
    /\ Exit(p)
    /\ UNCHANGED <<lock, request, drafts, bundle, issued>>

(***************************************************************************)
(* LocalWorker on this run: claim under the lock, progress and end from    *)
(* the worker's own copy of the record, me[p].seen.                        *)
(***************************************************************************)
Claimable(command, r) ==
    \/ command = "process" /\ r.status = "queued"
    \/ /\ command = "resume" /\ r.status \in {"failed", "interrupted"}
       /\ ~(r.form = "fixture" /\ r.stage \in PlanningStages)

\* A worker for real inputs cannot be built without them, and the validator
\* refuses the claim of a run that still waits for its inputs.
TakeRun(p) ==
    /\ pc[p] = "ready"
    /\ LET r == IF me[p].command = "resume" THEN Reconciled(record) ELSE record
           buildable == me[p].seen.form = "fixture" \/ inputs
       IN  IF lock = NoProc /\ buildable
           THEN IF Claimable(me[p].command, r) /\ r.form # "pending"
                THEN /\ lock' = p
                     /\ record' = Claimed(r, issued + 1, p, "compiling")
                     /\ issued' = issued + 1
                     /\ me' = [me EXCEPT ![p].seen = record',
                                         ![p].attempt = issued + 1]
                     /\ Goto(p, "rendering")
                ELSE record' = r /\ Exit(p) /\ UNCHANGED <<lock, issued>>
           ELSE Exit(p) /\ UNCHANGED <<record, lock, issued>>
    /\ UNCHANGED <<request, drafts, bundle>>

SaveRendering(p) ==
    /\ pc[p] = "rendering"
    /\ me[p].seen.stage = "compiling"
    /\ record' = [Beat(me[p].seen, "synthesizing", 0) EXCEPT !.total = SpeechCount]
    /\ me' = [me EXCEPT ![p].seen = record']
    /\ UNCHANGED <<lock, request, drafts, bundle, issued, pc>>

FinishRendering(p) ==
    /\ pc[p] = "rendering"
    /\ \/ /\ me[p].seen.stage = "synthesizing"
          /\ record' = [Finished(me[p].seen, "completed", "completed", 0, "none")
                          EXCEPT !.completed = SpeechCount]
       \/ \E how \in {"failed", "interrupted"} : record' = Stopping(me[p].seen, how)
    /\ Goto(p, "settled")
    /\ UNCHANGED <<lock, request, drafts, bundle, issued, me>>

LeaveRendering(p) ==
    /\ pc[p] = "settled"
    /\ lock' = NoProc
    /\ Exit(p)
    /\ UNCHANGED <<record, request, drafts, bundle, issued>>

(***************************************************************************)
(* Heartbeat threads, each a read-modify-write under the process's record  *)
(* lock, and each stopping for good at its first error.                    *)
(***************************************************************************)
GenerationHeartbeat(p) ==
    /\ me[p].beat = "on"
    /\ IF Owned(p)
       THEN record' = Beat(record, pc[p], 0) /\ UNCHANGED me
       ELSE me' = [me EXCEPT ![p].beat = "dead"] /\ UNCHANGED record
    /\ UNCHANGED <<lock, request, drafts, bundle, issued, pc>>

HandoffHeartbeat(p) ==
    /\ \/ /\ me[p].handoff = "on"
          /\ me' = [me EXCEPT ![p].handoff = IF Owned(p) THEN "reading" ELSE "dead",
                              ![p].snap = IF Owned(p) THEN record ELSE NoRecord]
          /\ UNCHANGED record
       \/ /\ me[p].handoff = "reading"
          /\ record' = Beat(me[p].snap, me[p].snap.stage, 0)
          /\ me' = [me EXCEPT ![p].handoff = "on", ![p].snap = NoRecord]
    /\ UNCHANGED <<lock, request, drafts, bundle, issued, pc>>

RenderingHeartbeat(p) ==
    /\ pc[p] = "rendering" /\ Owned(p)
    /\ record' = Beat(record, record.stage, 0)
    /\ UNCHANGED <<lock, request, drafts, bundle, issued, pc, me>>

\* Death without a handler.
Crash(p) ==
    /\ pc[p] # "idle"
    /\ lock' = IF lock = p THEN NoProc ELSE lock
    /\ Exit(p)
    /\ UNCHANGED <<record, request, drafts, bundle, issued>>

Lapse ==
    /\ record.lease = "live"
    /\ record' = [record EXCEPT !.lease = "lapsed"]
    /\ UNCHANGED <<lock, request, drafts, bundle, issued, pc, me>>

\* Mutation: an expired lease is enough, whoever holds the lock.
ReconcileUnlocked ==
    /\ Stale(record)
    /\ record' = Reconciled(record)
    /\ UNCHANGED <<lock, request, drafts, bundle, issued, pc, me>>

Reconcile ==
    /\ lock = NoProc
    /\ Stale(record)
    /\ record' = Reconciled(record)
    /\ UNCHANGED <<lock, request, drafts, bundle, issued, pc, me>>

Step(p) ==
    \/ WriteRequest(p) \/ CompareRequest(p) \/ LoseLock(p) \/ PromoteScript(p)
    \/ AcquireForGeneration(p) \/ ClaimGeneration(p)
    \/ DraftUnit(p) \/ EnterDrafting(p) \/ FinishDrafts(p)
    \/ BeginPromotion(p) \/ WriteRawOutput(p) \/ CommitPromotion(p)
    \/ LeaveGeneration(p) \/ SettleGeneration(p)
    \/ BuildWorker(p) \/ Continue(p)
    \/ ReadForHandoffStop(p) \/ SaveHandoffStop(p) \/ Unwind(p)
    \/ ReadForUnstarted(p) \/ ClaimUnstarted(p) \/ SettleUnstarted(p)
    \/ TakeRun(p) \/ SaveRendering(p) \/ FinishRendering(p) \/ LeaveRendering(p)

Beating(p) == GenerationHeartbeat(p) \/ HandoffHeartbeat(p) \/ RenderingHeartbeat(p)

Fault(p) == PreflightStops(p) \/ StopsGenerating(p) \/ Crash(p)

Next ==
    \/ \E p \in Procs : Launch(p) \/ Step(p) \/ Beating(p) \/ Fault(p)
    \/ Lapse
    \/ Reconcile

Spec == Init /\ [][Next]_vars

=============================================================================
