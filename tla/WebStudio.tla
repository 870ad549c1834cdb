----------------------------- MODULE WebStudio -----------------------------
(***************************************************************************)
(* The local web studio (LocalWebApplication) over the commands it runs as *)
(* child processes: one run, submitted from the browser, its background    *)
(* tasks, cancel and resume requests, the studio's own writers of the      *)
(* record, and restarts of the studio, which its children survive.         *)
(*                                                                         *)
(* A task and the child it starts share the index p.  The children's steps *)
(* are those of GenerateCommand; `run cancel` is one step of its own.      *)
(***************************************************************************)
EXTENDS GenerateCommandProperties

CONSTANTS Studio,        \* the studio's own PID
          Modes,         \* what the browser submits: a prompt, a script
          MaxRestarts    \* bound on the restarts of the studio

ASSUME StudioAssumption == Studio \in Procs
ASSUME ModesAssumption == Modes \subseteq {"prompt", "script"}
ASSUME MaxRestartsAssumption == MaxRestarts \in Nat

VARIABLES
    submitted,   \* what became of the submission so far
    current,     \* _tasks[run_id], NoProc for no entry
    requests,    \* where HTTP requests stand between a check and its effect
    task,        \* per task: its thread and what was asked of it
    child,       \* per task: is its process running, how did it end
    restarts

studio == <<submitted, current, requests, task, child, restarts>>
studioVars == <<vars, studio>>

(***************************************************************************)
(* A task's thread.  launching: before Popen; spawned: Popen has returned  *)
(* and task.process is not published yet; waiting: in communicate;         *)
(* declined and settling: about to write the record, before and after a    *)
(* child.                                                                  *)
(***************************************************************************)
Threads == {"none", "launching", "spawned", "waiting", "declined", "settling"}

Tasks == [at      : Threads,
          command : {"prompt", "script", "resume", "cancel"},
          cancel  : BOOLEAN,                             \* cancel_requested
          verdict : {"cancel", "failure"}]               \* what settling writes

Commands == Procs \ {Studio}

NewTask == [at |-> "none", command |-> "prompt", cancel |-> FALSE,
            verdict |-> "cancel"]

\* A child's end is good for exit codes 0, 130 and 143; stop is the signal the
\* studio sent it, kill when SIGKILL follows SIGTERM.
Children == [state : {"none", "running", "good", "bad"},
             stop  : {"no", "term", "kill"}]

NewChild == [state |-> "none", stop |-> "no"]

StudioInit ==
    /\ Init
    /\ submitted = "no"
    /\ current = NoProc
    /\ requests = {}
    /\ task = [p \in Commands |-> NewTask]
    /\ child = [p \in Commands |-> NewChild]
    /\ restarts = 0

Running(p) == child[p].state = "running"

\* Mutation: the window before Popen does not count as active.
ActiveOncePublished(p) == task[p].at = "waiting" /\ Running(p)

\* GenerationTask.active
Active(p) ==
    \/ task[p].at \in {"launching", "spawned", "declined"}
    \/ task[p].at = "waiting" /\ Running(p)

SlotIsFree == ~ \E p \in Commands : p = current /\ Active(p)

\* A new entry of _tasks; the thread of an earlier one may still be at work.
StartTask(command) ==
    \E p \in Commands :
        /\ task[p].at = "none" /\ ~ Running(p)
        /\ task' = [task EXCEPT ![p] = [NewTask EXCEPT !.at = "launching",
                                                       !.command = command]]
        /\ current' = p

(***************************************************************************)
(* HTTP requests, each on a thread of its own.  A cancel or a resume of a  *)
(* run without an active task looks at the table, then at the record, and  *)
(* acts on what it saw when both may have changed.                         *)
(***************************************************************************)
\* Points that some request has reached since the studio started: there may be
\* any number of requests, so that one still stands at each of them.
RequestPoints == {"cancel",          \* found no active task
                  "cancelQueued",    \* ... and a queued record
                  "cancelRunning",   \* ... and a running one
                  "resume"}          \* found a stopped record

(***************************************************************************)
(* created and listed: the run is on disk, its first task is not in the    *)
(* table yet; listed means that a cancel has found none there.  The first  *)
(* task is then stored, crosses such a cancel, or displaces an active one. *)
(***************************************************************************)
Submissions == {"no", "created", "listed", "stored", "crossed", "displaced"}

\* start_generation: the record is on disk before the task is in the table,
\* which is not asked whether a resume has filled the place meanwhile.
CreateRun ==
    /\ submitted = "no"
    /\ submitted' = "created"
    /\ UNCHANGED <<vars, current, requests, task, child, restarts>>

StoreTask ==
    /\ submitted \in {"created", "listed"}
    /\ submitted' = IF ~ SlotIsFree THEN "displaced"
                    ELSE IF submitted = "listed" THEN "crossed" ELSE "stored"
    /\ \E mode \in Modes : StartTask(mode)
    /\ UNCHANGED <<vars, requests, child, restarts>>

\* resume_run: reconcile and check.
Resume ==
    LET r == IF lock = NoProc THEN Reconciled(record) ELSE record IN
    /\ r.status \in {"failed", "interrupted"}
    /\ record' = r
    /\ requests' = requests \cup {"resume"}
    /\ UNCHANGED <<lock, request, drafts, bundle, issued, pc, me,
                   submitted, current, task, child, restarts>>

\* cancel_task of an active task: remember it, and stop a published process.
CancelTask ==
    /\ ~ SlotIsFree
    /\ task' = [task EXCEPT ![current].cancel = TRUE]
    /\ child' = IF task[current].at = "waiting"
                THEN [child EXCEPT ![current].stop = "kill"] ELSE child
    /\ UNCHANGED <<vars, submitted, current, requests, restarts>>

\* Mutation: cancel_task does not look for a task.
FindNoTaskUnasked ==
    /\ submitted # "no"
    /\ requests' = requests \cup {"cancel"}
    /\ submitted' = IF submitted = "created" THEN "listed" ELSE submitted
    /\ UNCHANGED <<vars, current, task, child, restarts>>

\* cancel_task of a run without an active task: before its first task is in
\* the table, after a task's end, after a restart.
FindNoTask ==
    /\ submitted # "no" /\ SlotIsFree
    /\ requests' = requests \cup {"cancel"}
    /\ submitted' = IF submitted = "created" THEN "listed" ELSE submitted
    /\ UNCHANGED <<vars, current, task, child, restarts>>

\* cancel_run: what it does depends on the record it loads.
LoadForCancel ==
    /\ "cancel" \in requests
    /\ requests' = requests \cup
           (CASE record.status = "queued"  -> {"cancelQueued"}
              [] record.status = "running" -> {"cancelRunning"}
              [] OTHER -> {})
    /\ UNCHANGED <<vars, submitted, current, task, child, restarts>>

\* Mutation: the cancellation names a kind of interruption nobody knows.
PrelaunchCancelNamedAnew ==
    IF lock = NoProc /\ record.status = "queued"
    THEN record' = [record EXCEPT
                      !.status = "interrupted",
                      !.stage = IF record.form = "script" THEN "compiling" ELSE "planning",
                      !.interruption = "cancelled",
                      !.attempts = @ + 1]
    ELSE UNCHANGED record

\* _persist_prelaunch_cancel: a run that is still queued becomes an interruption
\* with no attempt behind it.
PrelaunchCancel ==
    IF lock = NoProc /\ record.status = "queued"
    THEN record' = [record EXCEPT
                      !.status = "interrupted",
                      !.stage = IF record.form = "script" THEN "compiling" ELSE "planning",
                      !.interruption = "user_cancelled",
                      !.attempts = @ + 1]
    ELSE UNCHANGED record

CancelQueuedRun ==
    /\ "cancelQueued" \in requests
    /\ PrelaunchCancel
    /\ UNCHANGED <<lock, request, drafts, bundle, issued, pc, me, studio>>

\* _launch_recovery_command, refused while a task is active.  Bounded by
\* MaxAttempts: the last attempt that is given out may still be cancelled.
LaunchRecovery ==
    /\ SlotIsFree
    /\ \/ /\ "resume" \in requests /\ issued < MaxAttempts
          /\ StartTask("resume")
       \/ /\ "cancelRunning" \in requests /\ issued <= MaxAttempts
          /\ StartTask("cancel")
    /\ UNCHANGED <<vars, submitted, requests, child, restarts>>

(***************************************************************************)
(* A task's thread (_run_generation, _run_recovery_command).               *)
(***************************************************************************)
At(p, label) == task' = [task EXCEPT ![p].at = label]

DeclineLaunch(p) ==
    /\ task[p].at = "launching"
    /\ \/ /\ task[p].cancel /\ task[p].command \in {"prompt", "script"}
          /\ At(p, "declined")
       \/ task' = [task EXCEPT ![p].at = "declined", ![p].verdict = "failure"]
    /\ UNCHANGED <<vars, submitted, current, requests, child, restarts>>

\* The flag was read before Popen: a cancel in between is still unseen.
Popen(p) ==
    /\ task[p].at = "launching"
    /\ At(p, "spawned")
    /\ child' = [child EXCEPT ![p] = [NewChild EXCEPT !.state = "running"]]
    /\ IF task[p].command = "cancel" THEN UNCHANGED vars
                                     ELSE LaunchAs(p, task[p].command)
    /\ UNCHANGED <<submitted, current, requests, restarts>>

\* Mutation: a cancel during the launch is forgotten.
PublishForgettingCancel(p) ==
    /\ task[p].at = "spawned"
    /\ At(p, "waiting")
    /\ UNCHANGED <<vars, submitted, current, requests, child, restarts>>

Publish(p) ==
    /\ task[p].at = "spawned"
    /\ At(p, "waiting")
    /\ child' = IF task[p].cancel /\ task[p].command # "cancel"
                THEN [child EXCEPT ![p].stop = "kill"] ELSE child
    /\ UNCHANGED <<vars, submitted, current, requests, restarts>>

\* communicate has returned; nothing reads the exit status again.
Collect(p) ==
    /\ task[p].at = "waiting" /\ ~ Running(p)
    /\ child' = [child EXCEPT ![p] = NewChild]
    /\ IF task[p].cancel
       THEN task' = [task EXCEPT ![p].at = "settling", ![p].verdict = "cancel"]
       ELSE IF child[p].state = "bad"
       THEN task' = [task EXCEPT ![p].at = "settling", ![p].verdict = "failure"]
       ELSE task' = [task EXCEPT ![p] = NewTask]
    /\ UNCHANGED <<vars, submitted, current, requests, restarts>>

(***************************************************************************)
(* _persist_process_failure.  A record the validator refuses, like a lock  *)
(* that is held, ends it silently.                                         *)
(***************************************************************************)
ProcessFailure ==
    [record EXCEPT
       !.status = "failed",
       !.stage = IF record.status = "queued" /\ record.form # "script"
                 THEN "planning" ELSE "compiling",
       !.attempt = issued + 1, !.owner = Studio,
       !.interruption = "none", !.segment = 0, !.failedSegment = 0,
       !.attempts = @ + 1]

\* Mutation: the studio saves its failure without validating the record.
PersistUnvalidated ==
    IF lock = NoProc /\ record.status \in {"queued", "failed", "interrupted"}
    THEN record' = ProcessFailure /\ issued' = issued + 1
    ELSE UNCHANGED <<record, issued>>

\* Mutation: a run that never left the queue is not failed.
PersistStoppedOnly ==
    IF /\ lock = NoProc /\ record.status \in {"failed", "interrupted"}
       /\ ValidRecord(ProcessFailure)
    THEN record' = ProcessFailure /\ issued' = issued + 1
    ELSE UNCHANGED <<record, issued>>

PersistProcessFailure ==
    IF /\ lock = NoProc /\ record.status \in {"queued", "failed", "interrupted"}
       /\ ValidRecord(ProcessFailure)
    THEN record' = ProcessFailure /\ issued' = issued + 1
    ELSE UNCHANGED <<record, issued>>

Settle(p) ==
    /\ task[p].at \in {"declined", "settling"}
    /\ IF task[p].verdict = "cancel"
       THEN PrelaunchCancel /\ UNCHANGED issued
       ELSE PersistProcessFailure
    /\ task' = [task EXCEPT ![p] = NewTask]
    /\ UNCHANGED <<lock, request, drafts, bundle, pc, me,
                   submitted, current, requests, child, restarts>>

(***************************************************************************)
(* The children.                                                           *)
(***************************************************************************)
\* A child that outlived its studio has nobody to collect it.
EndedChild(p, how) ==
    [NewChild EXCEPT !.state = IF task[p].at = "none" THEN "none" ELSE how]

Ended(p, how) ==
    child' = IF pc[p] # "idle" /\ pc'[p] = "idle"
             THEN [child EXCEPT ![p] = EndedChild(p, how)]
             ELSE child

\* What the process returns if its next step is its last.
ExitStatus(p) ==
    IF \/ pc[p] = "settled" /\ record.status # "failed"
       \/ pc[p] \in {"unstarted", "unstartedSettle"} /\ me[p].stop = "interrupted"
    THEN "good" ELSE "bad"

ChildStep(p) ==
    /\ Step(p)
    /\ Ended(p, ExitStatus(p))
    /\ UNCHANGED <<submitted, current, requests, task, restarts>>

ChildBeats(p) ==
    /\ Beating(p)
    /\ UNCHANGED studio

\* SIGTERM ends a preflight without a handler, and only a failure reaches one.
ChildFails(p) ==
    /\ PreflightStops(p) /\ me'[p].stop = "failed"
    /\ UNCHANGED studio

\* A generation stops by itself or on a signal.
ChildStops(p) ==
    /\ StopsGenerating(p)
    /\ me'[p].stop = "failed" \/ child[p].stop # "no"
    /\ UNCHANGED studio

ChildDies(p) ==
    /\ \/ Crash(p) /\ Ended(p, "bad")
       \/ /\ task[p].command = "cancel" /\ Running(p)
          /\ child' = [child EXCEPT ![p] = EndedChild(p, "bad")]
          /\ UNCHANGED vars
    /\ UNCHANGED <<submitted, current, requests, task, restarts>>

\* _stop_process: SIGKILL two seconds after SIGTERM.
Kill(p) == child[p].stop = "kill" /\ ChildDies(p)

\* run cancel: with the lock free it reconciles and refuses, else it signals
\* the process a live lease names.
CancelCommand(p) ==
    /\ task[p].command = "cancel" /\ Running(p)
    /\ \/ /\ lock = NoProc
          /\ record' = Reconciled(record)
          /\ child' = [child EXCEPT ![p] = EndedChild(p, "bad")]
       \/ /\ lock # NoProc
          /\ record.lease # "live"
          /\ child' = [child EXCEPT ![p] = EndedChild(p, "bad")]
          /\ UNCHANGED record
       \/ /\ lock # NoProc
          /\ record.lease = "live"
          /\ child' = [q \in Commands |->
                         IF q = p THEN EndedChild(p, "good")
                         ELSE IF q = record.owner /\ Running(q) /\ child[q].stop = "no"
                         THEN [child[q] EXCEPT !.stop = "term"] ELSE child[q]]
          /\ UNCHANGED record
    /\ UNCHANGED <<lock, request, drafts, bundle, issued, pc, me,
                   submitted, current, requests, task, restarts>>

\* The studio's process ends: its threads are daemons, its children go on.  A
\* submission that had no task yet will not get one.
Restart ==
    /\ restarts < MaxRestarts /\ submitted # "no"
    /\ restarts' = restarts + 1
    /\ current' = NoProc
    /\ requests' = {}
    /\ task' = [p \in Commands |-> IF Running(p)
                              THEN [NewTask EXCEPT !.command = task[p].command] ELSE NewTask]
    /\ child' = [p \in Commands |-> IF Running(p) THEN child[p] ELSE NewChild]
    /\ submitted' = "stored"
    /\ UNCHANGED vars

TimePasses == (Lapse \/ Reconcile) /\ UNCHANGED studio

Thread(p) == DeclineLaunch(p) \/ Popen(p) \/ Publish(p) \/ Collect(p) \/ Settle(p)

Child(p) ==
    \/ ChildStep(p) \/ ChildBeats(p) \/ ChildFails(p) \/ ChildStops(p)
    \/ ChildDies(p) \/ CancelCommand(p)

Request ==
    \/ CreateRun \/ StoreTask \/ Resume \/ CancelTask \/ FindNoTask
    \/ LoadForCancel \/ CancelQueuedRun \/ LaunchRecovery

StudioNext ==
    \/ Request
    \/ \E p \in Commands : Thread(p) \/ Child(p)
    \/ Restart
    \/ TimePasses

StudioSpec == StudioInit /\ [][StudioNext]_studioVars

=============================================================================
