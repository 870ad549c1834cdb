------------------------- MODULE WebStudioProperties -------------------------
(***************************************************************************)
(* What the studio owes the person in front of the browser.                *)
(***************************************************************************)
EXTENDS WebStudio, FiniteSets

\* Every variable of the model has its type.
StudioTypeOK ==
    /\ TypeOK
    /\ submitted \in Submissions
    /\ current \in Commands \cup {NoProc}
    /\ requests \subseteq RequestPoints
    /\ task \in [Commands -> Tasks]
    /\ child \in [Commands -> Children]
    /\ restarts \in 0 .. MaxRestarts

LiveChildren == {p \in Commands : Running(p)}

\* A recovery request never starts a child beside the run's living one, whatever
\* windows it meets before a process is published and after it has ended.  The
\* first task alone takes its place in the table unasked.
OneLiveChild ==
    restarts = 0 /\ submitted # "displaced" => Cardinality(LiveChildren) <= 1

\* One studio has one active local worker for a run ("This run already has an
\* active local worker.").  A run that is listed, cancelled and resumed before
\* its first task is stored refutes it.
OneWorkerPerRun == restarts = 0 => Cardinality(LiveChildren) <= 1

(***************************************************************************)
(* A run that was cancelled while it was queued runs again only by a resume*)
(* that the user asked for later: the check of the task table, the load,   *)
(* the write and the launches of others may fall in between in any order.  *)
(* The one exception is a cancel that looked for the task before the first *)
(* was in the table.                                                       *)
(***************************************************************************)
StartsUnasked ==
    /\ record.interruption = "user_cancelled"
    /\ record'.status = "running"
    /\ task[record'.owner].command # "resume"

CancelledAsTask == submitted \notin {"listed", "crossed", "displaced"}

CancelSticks == [][restarts = 0 /\ CancelledAsTask => ~ StartsUnasked]_studioVars

\* A cancelled run stays interrupted until it is resumed, whenever it was
\* cancelled ("Turn a queued web request into a durable, resumable
\* interruption").  A cancel that meets the first task on its way into the table
\* refutes it.
EveryCancelSticks == [][restarts = 0 => ~ StartsUnasked]_studioVars

\* The same across a restart of the studio ("browser APIs preserve durable
\* cancel, resume, and regeneration behavior across a web-server restart").  A
\* child of the earlier studio that is still in its preflight refutes it.
CancelSurvivesRestart == [][CancelledAsTask => ~ StartsUnasked]_studioVars

\* What a command saved as its end is not overwritten by the studio that
\* collects it ("The CLI owns all durable transitions and errors.  Do not write
\* a competing status from the web process merely because its child exited").
\* The studio's own failure handler refutes it.
CliVerdictStands ==
    [][\A p \in Commands :
          /\ task[p].at = "settling" /\ task'[p] # task[p]
          /\ record.status \in {"failed", "interrupted"}
          /\ record.owner \in Commands
          => record' = record]_studioVars

\* A cancelled request can be taken up again by some command ("the durable
\* request can be resumed").  A request that was cancelled before its command
\* had upgraded the placeholder refutes it.
CancelledRequestResumes ==
    record.interruption = "user_cancelled" => CanContinue(record)

\* A browser's placeholder is never rendered as a fixture: a worker refuses it
\* once it was stopped in planning ("was interrupted during generation; resume
\* it through the script generator").  The stage that the failure handler
\* saves for a refused resume refutes it.
PlaceholderIsNotRendered ==
    record.form = "fixture" => record.stage # "synthesizing"

(***************************************************************************)
(* Fairness.  The studio's threads keep running and its signals arrive.    *)
(* Its children may hang: a property that needs them to go on says so.     *)
(***************************************************************************)
StudioFairness ==
    \A p \in Commands : WF_studioVars(Thread(p)) /\ WF_studioVars(Kill(p))

FairStudioSpec == StudioSpec /\ StudioFairness

ChildrenGoOn ==
    /\ WF_studioVars(StoreTask)
    /\ \A p \in Commands : WF_studioVars(ChildStep(p))

\* A cancelled child ends even when it hangs, wherever in the launch the
\* cancellation found it.
CancelStopsHungChild ==
    \A p \in Commands :
        task[p].cancel /\ task[p].command # "cancel" /\ Running(p)
            ~> ~ Running(p)

\* A submitted request does not stay queued: its command claims it, or its
\* failure or cancellation is recorded.
QueuedIsTakenUp ==
    ChildrenGoOn =>
        (submitted # "no" /\ record.status = "queued" ~> record.status # "queued")

-----------------------------------------------------------------------------
(***************************************************************************)
(* The inductive invariant behind StudioTypeOK, RecordStaysValid,          *)
(* OneLiveChild and CancelSticks.  A process is alive while its command    *)
(* runs; until the studio restarts, a live child has its thread, and the   *)
(* threads of a run that is still queued are those of its first task.  A   *)
(* cancel that found that task's place empty keeps it empty as long as the *)
(* run is queued: that is why nothing but a resume can start it later.     *)
(***************************************************************************)
BeforeClaim == {"idle", "starting", "requested", "locked", "ready", "unstarted"}

HasSeenCancel(p) ==
    /\ pc[p] \in BeforeClaim
    /\ pc[p] # "idle" => me[p].seen.interruption = "user_cancelled"

\* A task whose command runs or may be started yet.
Starting(p) == task[p].at \in {"launching", "spawned"} \/ Running(p)

CancelInv ==
    /\ requests \cap {"cancel", "cancelQueued"} # {} /\ record.status = "queued" =>
          \A p \in Commands : ~ Starting(p)
    /\ record.interruption = "user_cancelled" =>
          /\ \A p \in Commands : HasSeenCancel(p)
          /\ \A p \in Commands : Starting(p) => task[p].command \notin {"prompt", "script"}

FirstStudioInv ==
    /\ \A p \in Commands : Running(p) => task[p].at \in {"spawned", "waiting"}
    /\ submitted # "displaced" => \A p \in Commands : Active(p) => p = current
    /\ record.status = "queued" =>
          /\ submitted # "displaced"
          /\ \A p, q \in Commands : task[p].at # "none" /\ task[q].at # "none" => p = q
          /\ submitted \in {"no", "created", "listed"} => \A p \in Commands : task[p].at = "none"
          /\ requests \subseteq {"cancel", "cancelQueued"}
    /\ submitted \in {"no", "created"} => record.status = "queued" /\ requests = {}
    /\ CancelledAsTask => CancelInv

StudioInv ==
    /\ GenerateInv
    /\ StudioTypeOK
    /\ pc[Studio] = "idle"
    /\ \A p \in Commands : pc[p] # "idle" => Running(p) /\ task[p].command # "cancel"
    /\ restarts = 0 => FirstStudioInv

=============================================================================
