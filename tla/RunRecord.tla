----------------------------- MODULE RunRecord -----------------------------
(***************************************************************************)
(* The durable control-plane record of one run (run.json) and the pure     *)
(* transformations every writer builds its next record with.               *)
(*                                                                         *)
(* Data is abstracted to what the lifecycle distinguishes:                 *)
(*  - wall-clock stamps become the state of the lease they encode: "none"  *)
(*    (no renewable lease), "live" (not yet expired) or "lapsed";          *)
(*  - (schema_version, source_kind, immutable inputs) become the form of   *)
(*    the record: a v3 fixture placeholder, a script run, a v6 prompt run  *)
(*    still without inputs ("pending") or with them ("generated");         *)
(*  - a segment is its position in the timeline, 0 when none is named;     *)
(*  - the final artifacts and the error text are present exactly on        *)
(*    completed and failed records, because transition resets them, so the *)
(*    status stands for them; reuse counters are diagnostics and left out. *)
(***************************************************************************)
EXTENDS Naturals

CONSTANTS Procs,       \* operating-system processes, by PID
          NoProc,      \* the absence of one
          SpeechCount  \* speech segments in the canonical timeline

ASSUME SpeechCountAssumption == SpeechCount \in Nat \ {0}
ASSUME NoProcAssumption == NoProc \notin Procs

Segments == 1 .. SpeechCount

RunStatus == {"queued", "running", "interrupted", "completed", "failed"}

Stopped == {"interrupted", "failed", "completed"}

RunStage == {"queued", "planning", "drafting", "compiling", "synthesizing",
             "assembling", "quality_check", "completed"}

PlanningStages == {"planning", "drafting"}

SourceForm == {"fixture", "script", "pending", "generated"}

InterruptionKind ==
    {"none", "signal", "lease_expired", "manual_regeneration", "user_cancelled"}

RunRecords ==
    [form          : SourceForm,
     status        : RunStatus,
     stage         : RunStage,
     attempt       : Nat,              \* attempt_id; 0 before the first claim
     owner         : Procs \cup {NoProc},
     lease         : {"none", "live", "lapsed"},
     interruption  : InterruptionKind,
     segment       : Nat,              \* current_segment_id; 0 for None
     attempts      : Nat,              \* process_attempts
     total         : Nat,              \* speech_segments_total
     completed     : Nat,              \* speech_segments_completed
     failedSegment : Nat]              \* failed_segment_id; 0 for None

IsActive(r) == r.lease # "none"

(***************************************************************************)
(* What the record's validator accepts.  Building a record it refuses      *)
(* raises, so a writer that tried would lose the state it wanted to save.  *)
(***************************************************************************)
ValidOwnership(r) ==
    /\ (r.attempt = 0) <=> (r.owner = NoProc)
    /\ IsActive(r) => r.attempt # 0

ValidProgress(r) ==
    /\ r.completed <= r.total
    /\ r.status = "queued" <=> r.attempts = 0
    /\ r.status = "completed" => r.completed = r.total
    /\ r.failedSegment # 0 => r.status = "failed"

ValidExecution(r) ==
    /\ r.status = "queued" => r.stage = "queued"
    /\ r.status = "running" <=> IsActive(r)
    /\ r.status = "running" => r.stage \notin {"queued", "completed"}
    /\ r.status = "completed" => r.stage = "completed"
    /\ r.status = "interrupted" => r.interruption # "none"

ValidSource(r) ==
    /\ r.form = "pending" => /\ r.stage \in PlanningStages \cup {"queued"}
                             /\ r.status # "completed"
    /\ r.form \in {"script", "generated"} => r.stage \notin PlanningStages

ValidRecord(r) ==
    /\ ValidOwnership(r)
    /\ ValidProgress(r)
    /\ ValidExecution(r)
    /\ ValidSource(r)

\* RunStore.create: a queued record nobody has claimed.
QueuedRecord(form) ==
    [form |-> form, status |-> "queued", stage |-> "queued", attempt |-> 0,
     owner |-> NoProc, lease |-> "none", interruption |-> "none",
     segment |-> 0, attempts |-> 0, total |-> 0, completed |-> 0,
     failedSegment |-> 0]

(***************************************************************************)
(* A fresh claim replaces the whole execution block: new attempt, new      *)
(* owner, live lease, no segment and no interruption.                      *)
(***************************************************************************)
Claimed(r, attempt, p, stage) ==
    [form |-> r.form, status |-> "running", stage |-> stage, attempt |-> attempt,
     owner |-> p, lease |-> "live", interruption |-> "none", segment |-> 0,
     attempts |-> r.attempts + 1, total |-> r.total, completed |-> r.completed,
     failedSegment |-> 0]

(***************************************************************************)
(* RunExecution.heartbeat inside a RUNNING transition: renew the lease and *)
(* REPLACE the segment by the argument, None when the caller gives none.   *)
(* The interruption kind is carried over.                                  *)
(***************************************************************************)
Beat(r, stage, segment) ==
    [r EXCEPT !.stage = stage, !.segment = segment, !.lease = "live"]

\* Mutation: the lease survives the end of the attempt.
FinishedKeepingLease(r, status, stage, segment, kind) ==
    [r EXCEPT !.status = status, !.stage = stage, !.segment = segment,
              !.interruption = kind]

(***************************************************************************)
(* RunExecution.finish inside a transition: keep the attempt's provenance, *)
(* drop its lease.                                                         *)
(***************************************************************************)
Finished(r, status, stage, segment, kind) ==
    [r EXCEPT !.status = status, !.stage = stage, !.segment = segment,
              !.lease = "none", !.interruption = kind]

\* Mutation: only a run that was synthesizing is ever considered stale.
StaleSynthesis(r) ==
    r.status = "running" /\ r.lease = "lapsed" /\ r.stage = "synthesizing"

\* A running record whose lease is over, as reconciliation rewrites it.
Stale(r) == r.status = "running" /\ r.lease = "lapsed"

Reconciled(r) ==
    IF Stale(r)
    THEN Finished(r, "interrupted", r.stage, r.segment, "lease_expired")
    ELSE r

=============================================================================
