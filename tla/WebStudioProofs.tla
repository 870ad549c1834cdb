-------------------------- MODULE WebStudioProofs --------------------------
(***************************************************************************)
(* Machine-checked proofs about WebStudio, for every set of commands,      *)
(* every number of units, segments and restarts: type correctness, that    *)
(* neither the studio nor its children build a record the validator        *)
(* refuses, that a recovery request never starts a second child, and that  *)
(* a run cancelled in the queue is started again only by a resume.  What a *)
(* child does to the record is proved in GenerateCommandProofs.            *)
(***************************************************************************)
EXTENDS GenerateCommandProofs, WebStudioProperties, FiniteSetTheorems

LEMMA CommandsAreProcs ==
    /\ Commands \subseteq Procs /\ Studio \in Procs /\ Studio \notin Commands
    /\ \A p \in Procs : p = Studio \/ p \in Commands
BY StudioAssumption DEF Commands

\* What is known before a step.
LEMMA StudioHere ==
    ASSUME StudioInv
    PROVE  /\ GenerateInv /\ TypeOK
           /\ submitted \in Submissions /\ current \in Commands \cup {NoProc}
           /\ requests \subseteq RequestPoints
           /\ task \in [Commands -> Tasks] /\ child \in [Commands -> Children]
           /\ restarts \in 0 .. MaxRestarts
           /\ record \in RunRecords /\ WellFormed(record) /\ issued \in Nat
BY DEF StudioInv, StudioTypeOK, GenerateInv, TypeOK, Sound

\* Who is alive, apart from the types and the record.
AliveInv ==
    /\ pc[Studio] = "idle"
    /\ \A p \in Commands : pc[p] # "idle" => Running(p) /\ task[p].command # "cancel"

\* A step of the studio alone; its parts are proved one by one.
LEMMA StudioStep ==
    ASSUME StudioInv, GenerateInv',
           submitted' \in Submissions, current' \in Commands \cup {NoProc},
           requests' \subseteq RequestPoints,
           task' \in [Commands -> Tasks], child' \in [Commands -> Children],
           restarts' \in 0 .. MaxRestarts,
           AliveInv', restarts' = 0 => FirstStudioInv'
    PROVE  StudioInv'
BY DEF StudioInv, StudioTypeOK, GenerateInv, AliveInv

(***************************************************************************)
(* The studio's writers of the record.                                     *)
(***************************************************************************)
LEMMA PrelaunchCancelKeeps ==
    ASSUME StudioInv, PrelaunchCancel,
           UNCHANGED <<lock, request, drafts, inputs, raw, issued, pc, me>>
    PROVE  GenerateInv' /\ (record' = record \/ record.status = "queued")
           /\ (record' # record => record'.status = "interrupted")
<1>1. GenerateInv /\ record \in RunRecords /\ WellFormed(record) /\ issued \in Nat
  BY StudioHere
<1>2. Grows
  BY DEF Grows
<1>3. SoundAfter(record)
  BY <1>1, <1>2, SoundStays DEF GenerateInv
<1>4. CASE record' = record
  BY <1>1, <1>3, <1>4, RecordStep
<1>5. CASE record' # record
  <2>1. /\ record.status = "queued"
        /\ record' = [record EXCEPT
                        !.status = "interrupted",
                        !.stage = IF record.form = "script" THEN "compiling" ELSE "planning",
                        !.interruption = "user_cancelled",
                        !.attempts = @ + 1]
    BY <1>5 DEF PrelaunchCancel
  <2>2. record.attempts + 1 \in Nat /\ record.attempts + 1 # 0
    BY <1>1 DEF RunRecords
  <2>3. record' \in RunRecords
    BY <1>1, <2>1, <2>2 DEF RunRecords, RunStatus, RunStage, InterruptionKind
  <2>4. /\ record'.form = record.form /\ record'.status = "interrupted"
        /\ record'.stage = IF record.form = "script" THEN "compiling" ELSE "planning"
        /\ record'.attempt = record.attempt /\ record'.owner = record.owner
        /\ record'.lease = record.lease /\ record'.interruption = "user_cancelled"
        /\ record'.attempts = record.attempts + 1 /\ record'.total = record.total
        /\ record'.completed = record.completed
        /\ record'.failedSegment = record.failedSegment
    BY <1>1, <2>1 DEF RunRecords
  <2>5. WellFormed(record')
    BY <1>1, <2>1, <2>2, <2>3, <2>4
    DEF WellFormed, ValidRecord, ValidOwnership, ValidProgress, ValidExecution, ValidSource,
        IsActive, PlanningStages, RunRecords, SourceForm
  <2>6. SoundAfter(record')
    BY <1>3, <2>4, <2>5 DEF SoundAfter
  <2> QED
    BY <1>1, <2>1, <2>3, <2>4, <2>6, RecordStep
<1> QED
  BY <1>4, <1>5

LEMMA ProcessFailureKeeps ==
    ASSUME StudioInv, PersistProcessFailure,
           UNCHANGED <<lock, request, drafts, inputs, raw, pc, me>>
    PROVE  /\ GenerateInv'
           /\ record' = record \/ record'.status = "failed"
<1>1. GenerateInv /\ record \in RunRecords /\ WellFormed(record) /\ issued \in Nat
  BY StudioHere
<1>2. Grows
  BY DEF Grows, PersistProcessFailure
<1>3. SoundAfter(record)
  BY <1>1, <1>2, SoundStays DEF GenerateInv
<1>4. CASE record' = record /\ issued' = issued
  BY <1>1, <1>3, <1>4, RecordStep
<1>5. CASE ~(record' = record /\ issued' = issued)
  <2>1. record' = ProcessFailure /\ issued' = issued + 1 /\ ValidRecord(record')
    BY <1>5 DEF PersistProcessFailure
  <2>2. record.attempts + 1 \in Nat /\ issued + 1 \in Nat /\ Studio \in Procs
    BY <1>1, StudioAssumption DEF RunRecords
  <2>3. record' \in RunRecords
    BY <1>1, <2>1, <2>2 DEF ProcessFailure, RunRecords, RunStatus, RunStage, InterruptionKind
  <2>4. /\ record'.status = "failed" /\ record'.form = record.form
        /\ record'.attempt = issued + 1 /\ record'.interruption = "none"
        /\ record'.completed = record.completed
    BY <1>1, <2>1 DEF ProcessFailure, RunRecords
  <2>5. WellFormed(record')
    BY <1>1, <2>1, <2>4 DEF WellFormed
  <2>6. SoundAfter(record')
    BY <1>1, <1>3, <2>1, <2>2, <2>4, <2>5 DEF SoundAfter
  <2> QED
    BY <1>1, <2>1, <2>3, <2>4, <2>6, RecordStep
<1> QED
  BY <1>4, <1>5

LEMMA ReconcileKeeps ==
    ASSUME StudioInv, record' \in {record, Reconciled(record)},
           UNCHANGED <<lock, request, drafts, inputs, raw, issued, pc, me>>
    PROVE  /\ GenerateInv'
           /\ \/ record' = record
              \/ record'.status = "interrupted" /\ record'.interruption # "user_cancelled"
<1>1. GenerateInv /\ record \in RunRecords
  BY StudioHere
<1>2. Grows
  BY DEF Grows
<1>3. SoundAfter(record)
  BY <1>1, <1>2, SoundStays DEF GenerateInv
<1>4. record' = record \/ /\ record'.status = "interrupted"
                          /\ record'.interruption # "user_cancelled"
  BY <1>1 DEF Reconciled, Finished, RunRecords
<1> QED
  BY <1>1, <1>2, <1>3, <1>4, ReconciledSound, RecordStep

(***************************************************************************)
(* What a request changes of the studio's own state.                       *)
(***************************************************************************)
\* With nothing but the task table changed, the children are what they were.
LEMMA SameChildren ==
    ASSUME StudioInv, UNCHANGED <<pc, child>>,
           \A p \in Commands : task'[p].command = task[p].command \/ ~Running(p)
                               \/ pc[p] = "idle" \/ task'[p].command # "cancel"
    PROVE  AliveInv'
BY DEF AliveInv, StudioInv, Running

\* The studio's first life goes on where no task is new: what each part needs of
\* the step.
LEMMA FirstLifeStep ==
    ASSUME StudioInv, restarts = 0, current' = current,
           submitted' = submitted \/ /\ submitted = "no" /\ submitted' = "created"
                                  \/ /\ submitted = "created" /\ submitted' = "listed",
           \A p \in Commands :
               /\ Running(p)' => task'[p].at \in {"spawned", "waiting"}
               /\ Active(p)' => Active(p)
               /\ Starting(p)' => Starting(p) /\ task'[p].command = task[p].command
               /\ task'[p].at # "none" => task[p].at # "none",
           \/ requests' = requests
           \/ /\ record'.status = "queued" => requests' \subseteq {"cancel", "cancelQueued"}
              /\ submitted' \in {"no", "created"} => requests' = {}
              /\ \/ requests \cap {"cancel", "cancelQueued"} # {}
                 \/ \A p \in Commands : ~Starting(p)
                 \/ record'.status # "queued"
                 \/ requests' \cap {"cancel", "cancelQueued"} = {},
           record'.status = "queued" => record.status = "queued",
           \/ record' = record
           \/ record.status # "queued"
           \/ requests # {}
           \/ \E p \in Commands : task[p].at # "none",
           record'.interruption = "user_cancelled" =>
               /\ record' = record \/ (CancelledAsTask => \A p \in Commands : ~Starting(p)')
               /\ CancelledAsTask => \A p \in Commands : HasSeenCancel(p)'
    PROVE  FirstStudioInv'
<1>1. FirstStudioInv
  BY DEF StudioInv
<1>2. \A p \in Commands : Running(p)' => task'[p].at \in {"spawned", "waiting"}
  OBVIOUS
<1>3. submitted' # "displaced" => \A p \in Commands : Active(p)' => p = current'
  BY <1>1 DEF FirstStudioInv
<1>4. ASSUME record'.status = "queued"
      PROVE  /\ submitted' # "displaced"
             /\ \A p, q \in Commands : task'[p].at # "none" /\ task'[q].at # "none" => p = q
             /\ submitted' \in {"no", "created", "listed"} =>
                    \A p \in Commands : task'[p].at = "none"
             /\ requests' \subseteq {"cancel", "cancelQueued"}
  BY <1>1, <1>4 DEF FirstStudioInv
<1>5. ASSUME submitted' \in {"no", "created"}
      PROVE  record'.status = "queued" /\ requests' = {}
  <2>1. submitted \in {"no", "created"} /\ record.status = "queued" /\ requests = {}
    BY <1>1, <1>5 DEF FirstStudioInv
  <2>2. \A p \in Commands : task[p].at = "none"
    BY <1>1, <2>1 DEF FirstStudioInv
  <2> QED
    BY <1>5, <2>1, <2>2
<1>6. ASSUME CancelledAsTask' PROVE CancelInv'
  <2>1. CancelledAsTask /\ CancelInv
    BY <1>1, <1>6 DEF CancelledAsTask, FirstStudioInv
  <2>2. ASSUME requests' \cap {"cancel", "cancelQueued"} # {}, record'.status = "queued"
        PROVE  \A p \in Commands : ~Starting(p)'
    BY <2>1, <2>2 DEF CancelInv
  <2>3. ASSUME record'.interruption = "user_cancelled"
        PROVE  /\ \A p \in Commands : HasSeenCancel(p)'
               /\ \A p \in Commands :
                      Starting(p)' => task'[p].command \notin {"prompt", "script"}
    BY <2>1, <2>3 DEF CancelInv
  <2> QED
    BY <2>2, <2>3 DEF CancelInv
<1> QED
  BY <1>2, <1>3, <1>4, <1>5, <1>6 DEF FirstStudioInv

\* What was known of a cancelled run stays known when no command moves.
LEMMA SeenStays ==
    ASSUME StudioInv, restarts = 0, UNCHANGED <<record, pc, me>>, CancelledAsTask,
           record'.interruption = "user_cancelled", NEW p \in Commands
    PROVE  HasSeenCancel(p)'
<1>1. HasSeenCancel(p)
  BY DEF StudioInv, FirstStudioInv, CancelInv
<1> QED
  BY <1>1 DEF HasSeenCancel

LEMMA CreateRunStep ==
    ASSUME StudioInv, CreateRun
    PROVE  StudioInv'
<1>1. /\ UNCHANGED vars
      /\ UNCHANGED <<record, pc, me, current, requests, task, child, restarts>>
      /\ submitted = "no" /\ submitted' = "created"
  BY DEF CreateRun, vars
<1>2. GenerateInv'
  BY <1>1, StudioHere, StutterStep
<1>3. AliveInv'
  BY <1>1, SameChildren
<1>4. restarts' = 0 => FirstStudioInv'
  BY <1>1, SeenStays, FirstLifeStep DEF StudioInv, FirstStudioInv, Running, Active, Starting
<1> QED
  BY <1>1, <1>2, <1>3, <1>4, StudioHere, StudioStep DEF Submissions

\* A new task takes the place in the table, where no active one is.  What is asked of a
\* cancelled run is a recovery.
LEMMA StartTaskStep ==
    ASSUME StudioInv, NEW c \in {"prompt", "script", "resume", "cancel"}, StartTask(c),
           UNCHANGED vars, UNCHANGED <<record, pc, me, requests, child, restarts>>,
           submitted' \in Submissions,
           submitted' # "displaced" => submitted # "displaced" /\ SlotIsFree,
           submitted' \notin {"no", "created"},
           record.status = "queued" =>
               /\ submitted' = IF ~ SlotIsFree THEN "displaced"
                               ELSE IF submitted = "listed" THEN "crossed" ELSE "stored"
               /\ submitted \in {"created", "listed"},
           CancelledAsTask' =>
               \/ submitted = "created"
               \/ CancelledAsTask /\ c \in {"resume", "cancel"}
    PROVE  StudioInv'
<1>1. PICK p \in Commands :
         /\ task[p].at = "none" /\ ~Running(p) /\ current' = p
         /\ task' = [task EXCEPT ![p] = [NewTask EXCEPT !.at = "launching", !.command = c]]
  BY DEF StartTask
<1> DEFINE t == [NewTask EXCEPT !.at = "launching", !.command = c]
<1>2. t \in Tasks /\ t.at = "launching" /\ t.command = c
  BY DEF NewTask, Tasks, Threads
<1> HIDE DEF t
<1>3. /\ task' \in [Commands -> Tasks] /\ task'[p] = t
      /\ \A q \in Commands \ {p} : task'[q] = task[q]
  BY <1>1, <1>2, StudioHere DEF t
<1>4. AliveInv'
  BY <1>1, <1>3, SameChildren
<1>5. ASSUME restarts = 0 PROVE FirstStudioInv'
  <2>1. FirstStudioInv
    BY <1>5 DEF StudioInv
  <2>2. \A q \in Commands : Running(q)' => task'[q].at \in {"spawned", "waiting"}
    BY <1>1, <1>3, <2>1 DEF FirstStudioInv, Running
  <2>3. submitted' # "displaced" => \A q \in Commands : Active(q)' => q = current'
    BY <1>1, <1>3, <2>1 DEF FirstStudioInv, Active, Running, SlotIsFree
  <2>4. ASSUME record'.status = "queued"
        PROVE  /\ submitted' # "displaced"
               /\ \A q, k \in Commands : task'[q].at # "none" /\ task'[k].at # "none" => q = k
               /\ submitted' \notin {"no", "created", "listed"}
               /\ requests' \subseteq {"cancel", "cancelQueued"}
    <3>1. record.status = "queued" /\ \A q \in Commands : task[q].at = "none"
      BY <2>1, <2>4 DEF FirstStudioInv
    <3>2. SlotIsFree
      BY <3>1 DEF SlotIsFree, Active
    <3> QED
      BY <1>3, <2>1, <2>4, <3>1, <3>2 DEF FirstStudioInv
  <2>5. ASSUME CancelledAsTask' PROVE CancelInv'
    <3>1. CASE submitted = "created"
      <4>1. record.status = "queued" /\ requests = {}
        BY <2>1, <3>1 DEF FirstStudioInv
      <4>2. record'.interruption # "user_cancelled"
        BY <4>1, StudioHere DEF WellFormed
      <4> QED
        BY <4>1, <4>2 DEF CancelInv
    <3>2. CASE CancelledAsTask /\ c \in {"resume", "cancel"} /\ submitted # "created"
      <4>1. CancelInv /\ record.status # "queued"
        BY <2>1, <2>5, <3>2 DEF FirstStudioInv, CancelledAsTask
      <4>2. ASSUME record'.interruption = "user_cancelled", NEW q \in Commands
            PROVE  /\ HasSeenCancel(q)'
                   /\ Starting(q)' => task'[q].command \notin {"prompt", "script"}
        <5>1. HasSeenCancel(q)'
          BY <1>5, <3>2, <4>2, SeenStays
        <5>2. CASE q = p
          BY <1>2, <1>3, <3>2, <5>1, <5>2
        <5>3. CASE q # p
          BY <1>3, <4>1, <4>2, <5>1, <5>3 DEF CancelInv, Starting, Running
        <5> QED
          BY <5>2, <5>3
      <4> QED
        BY <4>1, <4>2 DEF CancelInv
    <3> QED
      BY <2>5, <3>1, <3>2
  <2> QED
    BY <2>2, <2>3, <2>4, <2>5 DEF FirstStudioInv
<1>6. GenerateInv'
  BY StudioHere, StutterStep
<1> QED
  BY <1>1, <1>3, <1>4, <1>5, <1>6, StudioHere, StudioStep

LEMMA StoreTaskStep ==
    ASSUME StudioInv, StoreTask
    PROVE  StudioInv'
<1>1. /\ UNCHANGED vars /\ UNCHANGED <<record, pc, me, requests, child, restarts>>
      /\ submitted \in {"created", "listed"}
      /\ submitted' = IF ~ SlotIsFree THEN "displaced"
                      ELSE IF submitted = "listed" THEN "crossed" ELSE "stored"
  BY DEF StoreTask, vars
<1>2. PICK c \in {"prompt", "script"} : StartTask(c)
  BY ModesAssumption DEF StoreTask
<1> QED
  BY <1>1, <1>2, StartTaskStep DEF Submissions, CancelledAsTask

LEMMA LaunchRecoveryStep ==
    ASSUME StudioInv, LaunchRecovery
    PROVE  StudioInv'
<1>1. PICK c \in {"resume", "cancel"} :
         /\ UNCHANGED vars /\ UNCHANGED <<record, pc, me, submitted, requests, child, restarts>>
         /\ SlotIsFree /\ StartTask(c) /\ requests \cap {"resume", "cancelRunning"} # {}
  BY DEF LaunchRecovery, vars
<1>2. CASE restarts = 0
  <2>1. record.status # "queued" /\ submitted \notin {"no", "created"}
    BY <1>1, <1>2 DEF StudioInv, FirstStudioInv
  <2> QED
    BY <1>1, <2>1, StudioHere, StartTaskStep DEF CancelledAsTask
<1>3. CASE restarts # 0
  <2>1. PICK p \in Commands :
           /\ current' = p /\ ~Running(p)
           /\ task' = [task EXCEPT ![p] = [NewTask EXCEPT !.at = "launching", !.command = c]]
    BY <1>1 DEF StartTask
  <2>2. [NewTask EXCEPT !.at = "launching", !.command = c] \in Tasks
    BY DEF NewTask, Tasks, Threads
  <2>3. /\ task' \in [Commands -> Tasks]
        /\ \A q \in Commands \ {p} : task'[q] = task[q]
    BY <2>1, <2>2, StudioHere
  <2>4. AliveInv' /\ GenerateInv'
    BY <1>1, <2>1, <2>3, SameChildren, StudioHere, StutterStep
  <2> QED
    BY <1>1, <1>3, <2>1, <2>3, <2>4, StudioHere, StudioStep
<1> QED
  BY <1>2, <1>3

\* A request goes on from its check; nothing else moves.
LEMMA RequestStep ==
    ASSUME StudioInv, NEW more \in SUBSET RequestPoints, requests' = requests \cup more,
           UNCHANGED <<pc, me, current, task, child, restarts>>, GenerateInv',
           submitted' \in Submissions,
           \/ submitted' = submitted /\ submitted \notin {"no", "created"}
           \/ submitted = "created" /\ submitted' = "listed"
           \/ restarts # 0,
           record'.status = "queued" =>
               record.status = "queued" /\ more \subseteq {"cancel", "cancelQueued"},
           record' = record \/ record.status # "queued",
           record'.interruption = "user_cancelled" => record' = record,
           \/ requests \cap {"cancel", "cancelQueued"} # {}
           \/ SlotIsFree
           \/ more \cap {"cancel", "cancelQueued"} = {}
    PROVE  StudioInv'
<1>1. AliveInv'
  BY SameChildren
<1>2. ASSUME restarts = 0 PROVE FirstStudioInv'
  <2>1. FirstStudioInv
    BY <1>2 DEF StudioInv
  <2>2. SlotIsFree /\ record.status = "queued" => \A p \in Commands : ~Starting(p)
    BY <2>1 DEF SlotIsFree, FirstStudioInv, Starting, Active
  <2>3. /\ record'.status = "queued" => requests' \subseteq {"cancel", "cancelQueued"}
        /\ submitted' \in {"no", "created"} => requests' = {}
        /\ \/ requests \cap {"cancel", "cancelQueued"} # {}
           \/ \A p \in Commands : ~Starting(p)
           \/ record'.status # "queued"
           \/ requests' \cap {"cancel", "cancelQueued"} = {}
    BY <1>2, <2>1, <2>2 DEF FirstStudioInv
  <2>4. \A p \in Commands :
           /\ Running(p)' => task'[p].at \in {"spawned", "waiting"}
           /\ Active(p)' => Active(p)
           /\ Starting(p)' => Starting(p) /\ task'[p].command = task[p].command
           /\ task'[p].at # "none" => task[p].at # "none"
    BY <2>1 DEF FirstStudioInv, Running, Active, Starting
  <2>5. record'.interruption = "user_cancelled" /\ CancelledAsTask =>
           \A p \in Commands : HasSeenCancel(p)'
    BY <1>2, SeenStays
  <2> QED
    BY <1>2, <2>3, <2>4, <2>5, FirstLifeStep
<1> QED
  BY <1>1, <1>2, StudioHere, StudioStep

LEMMA FindNoTaskStep ==
    ASSUME StudioInv, FindNoTask
    PROVE  StudioInv'
<1>1. /\ UNCHANGED vars /\ UNCHANGED <<record, pc, me, current, task, child, restarts>>
      /\ submitted # "no" /\ SlotIsFree /\ requests' = requests \cup {"cancel"}
      /\ submitted' = IF submitted = "created" THEN "listed" ELSE submitted
  BY DEF FindNoTask, vars
<1>2. GenerateInv'
  BY <1>1, StudioHere, StutterStep
<1>3. {"cancel"} \in SUBSET RequestPoints
  BY DEF RequestPoints
<1> QED
  BY <1>1, <1>2, <1>3, StudioHere, RequestStep DEF Submissions

LEMMA LoadForCancelStep ==
    ASSUME StudioInv, LoadForCancel
    PROVE  StudioInv'
<1> DEFINE more == CASE record.status = "queued"  -> {"cancelQueued"}
                     [] record.status = "running" -> {"cancelRunning"}
                     [] OTHER -> {}
<1>1. /\ UNCHANGED vars /\ UNCHANGED <<record, pc, me, submitted, current, task, child, restarts>>
      /\ "cancel" \in requests /\ requests' = requests \cup more
  BY DEF LoadForCancel, vars
<1>2. GenerateInv'
  BY <1>1, StudioHere, StutterStep
<1>3. /\ more \in SUBSET RequestPoints
      /\ record.status = "queued" => more \subseteq {"cancel", "cancelQueued"}
  BY DEF RequestPoints
<1>4. submitted \notin {"no", "created"} \/ restarts # 0
  BY <1>1 DEF StudioInv, FirstStudioInv
<1> HIDE DEF more
<1> QED
  BY <1>1, <1>2, <1>3, <1>4, StudioHere, RequestStep

LEMMA ResumeStep ==
    ASSUME StudioInv, Resume
    PROVE  StudioInv'
<1>1. /\ record' \in {record, Reconciled(record)}
      /\ record'.status \in {"failed", "interrupted"}
      /\ requests' = requests \cup {"resume"}
      /\ UNCHANGED <<lock, request, drafts, inputs, raw, issued, pc, me>>
      /\ UNCHANGED <<submitted, current, task, child, restarts>>
  BY DEF Resume, bundle
<1>2. /\ GenerateInv'
      /\ \/ record' = record
         \/ record'.status = "interrupted" /\ record'.interruption # "user_cancelled"
  BY <1>1, ReconcileKeeps
<1>3. record.status = "queued" => Reconciled(record) = record
  BY StudioHere DEF Reconciled, Stale, WellFormed, ValidRecord, ValidExecution, IsActive
<1>4. record.status # "queued"
  BY <1>1, <1>3
<1>5. submitted \notin {"no", "created"} \/ restarts # 0
  BY <1>4 DEF StudioInv, FirstStudioInv
<1>6. {"resume"} \in SUBSET RequestPoints
  BY DEF RequestPoints
<1> QED
  BY <1>1, <1>2, <1>4, <1>5, <1>6, StudioHere, RequestStep

LEMMA CancelTaskStep ==
    ASSUME StudioInv, CancelTask
    PROVE  StudioInv'
<1>1. /\ UNCHANGED vars /\ UNCHANGED <<record, pc, me, submitted, current, requests, restarts>>
      /\ task' = [task EXCEPT ![current].cancel = TRUE]
      /\ child' = IF task[current].at = "waiting" THEN [child EXCEPT ![current].stop = "kill"]
                                                  ELSE child
  BY DEF CancelTask, vars
<1>2. GenerateInv'
  BY <1>1, StudioHere, StutterStep
<1>3. current \in Commands
  BY DEF CancelTask, SlotIsFree
<1>4. /\ task' \in [Commands -> Tasks]
      /\ \A p \in Commands : task'[p].at = task[p].at /\ task'[p].command = task[p].command
  BY <1>1, <1>3, StudioHere DEF Tasks
<1>5. /\ child' \in [Commands -> Children]
      /\ \A p \in Commands : child'[p].state = child[p].state
  BY <1>1, <1>3, StudioHere DEF Children
<1>6. AliveInv'
  BY <1>1, <1>4, <1>5 DEF AliveInv, StudioInv, Running
<1>7. restarts' = 0 => FirstStudioInv'
  BY <1>1, <1>4, <1>5, SeenStays, FirstLifeStep
  DEF StudioInv, FirstStudioInv, Running, Active, Starting
<1> QED
  BY <1>1, <1>2, <1>4, <1>5, <1>6, <1>7, StudioHere, StudioStep

\* When a cancel that found no task is written, nobody is alive who could start the
\* run: as long as it is queued, no task takes the place that the cancel found empty.
LEMMA CancelQueuedRunStep ==
    ASSUME StudioInv, CancelQueuedRun
    PROVE  StudioInv'
<1>1. /\ UNCHANGED <<lock, request, drafts, inputs, raw, issued, pc, me>>
      /\ UNCHANGED <<submitted, current, requests, task, child, restarts>>
      /\ PrelaunchCancel /\ "cancelQueued" \in requests
  BY DEF CancelQueuedRun, bundle, studio
<1>2. /\ GenerateInv' /\ (record' # record => record'.status = "interrupted")
      /\ ((record' = record \/ record.status = "queued"))
  BY <1>1, PrelaunchCancelKeeps
<1>3. AliveInv'
  BY <1>1, SameChildren
<1>4. ASSUME restarts = 0 PROVE FirstStudioInv'
  <2>1. FirstStudioInv
    BY <1>4 DEF StudioInv
  <2>2. CASE record' = record
    BY <1>1, <1>4, <2>1, <2>2, SeenStays, FirstLifeStep
    DEF FirstStudioInv, Running, Active, Starting
  <2>3. CASE record' # record
    <3>1. CancelledAsTask => \A p \in Commands : ~Starting(p)
      BY <1>1, <1>2, <2>1, <2>3 DEF FirstStudioInv, CancelInv
    <3>2. CancelledAsTask => \A p \in Commands : HasSeenCancel(p)'
      BY <1>1, <3>1 DEF StudioInv, Starting, HasSeenCancel, BeforeClaim
    <3> QED
      BY <1>1, <1>2, <1>4, <2>1, <2>3, <3>1, <3>2, FirstLifeStep
      DEF FirstStudioInv, Running, Active, Starting
  <2> QED
    BY <2>2, <2>3
<1> QED
  BY <1>1, <1>2, <1>3, <1>4, StudioHere, StudioStep

(***************************************************************************)
(* A task's thread.                                                        *)
(***************************************************************************)
\* One task moves on, its child as it was.
LEMMA ThreadStep ==
    ASSUME StudioInv, NEW p \in Commands, NEW t \in Tasks, task' = [task EXCEPT ![p] = t],
           UNCHANGED <<pc, me, submitted, current, requests, restarts>>, GenerateInv',
           child' \in [Commands -> Children],
           \A q \in Commands : Running(q)' <=> Running(q),
           pc[p] # "idle" => t.command # "cancel",
           task[p].at # "none",
           Running(p) => t.at \in {"spawned", "waiting"},
           t.at \in {"launching", "spawned", "declined"} =>
               task[p].at \in {"launching", "spawned", "declined"},
           t.at \in {"launching", "spawned"} => task[p].at \in {"launching", "spawned"},
           t.command # task[p].command => t.at \notin {"launching", "spawned"} /\ ~Running(p),
           record'.status = "queued" => record.status = "queued",
           record'.interruption = "user_cancelled" =>
               \/ record' = record
               \/ restarts = 0 => \A q \in Commands : ~Starting(q)' /\ pc[q] = "idle"
    PROVE  StudioInv'
<1>1. /\ task' \in [Commands -> Tasks] /\ task'[p] = t
      /\ \A q \in Commands \ {p} : task'[q] = task[q]
  BY StudioHere
<1>2. AliveInv'
  BY <1>1 DEF AliveInv, StudioInv
<1>3. ASSUME restarts = 0 PROVE FirstStudioInv'
  <2>1. FirstStudioInv
    BY <1>3 DEF StudioInv
  <2>2. \A q \in Commands : Running(q)' => task'[q].at \in {"spawned", "waiting"}
    BY <1>1, <2>1 DEF FirstStudioInv
  <2>3. \A q \in Commands : Active(q)' => Active(q)
    <3> SUFFICES ASSUME NEW q \in Commands, Active(q)' PROVE Active(q)
      OBVIOUS
    <3>1. CASE Running(q)
      BY <2>1, <3>1 DEF FirstStudioInv, Active
    <3>2. CASE ~Running(q)
      BY <1>1, <3>2 DEF Active
    <3> QED
      BY <3>1, <3>2
  <2>4. \A q \in Commands : task'[q].at # "none" => task[q].at # "none"
    BY <1>1
  <2>5. \A q \in Commands :
           Starting(q)' => Starting(q) /\ task'[q].command = task[q].command
    BY <1>1 DEF Starting
  <2>6. ASSUME record'.interruption = "user_cancelled"
        PROVE  /\ record' = record \/ \A q \in Commands : ~Starting(q)'
               /\ CancelledAsTask => \A q \in Commands : HasSeenCancel(q)'
    BY <1>3, <2>6, SeenStays DEF HasSeenCancel, BeforeClaim
  <2> QED
    BY <1>3, <2>2, <2>3, <2>4, <2>5, <2>6, FirstLifeStep
<1> QED
  BY <1>1, <1>2, <1>3, StudioHere, StudioStep

LEMMA NewTaskType ==
    NewTask \in Tasks /\ NewTask.at = "none" /\ NewTask.command = "prompt"
BY DEF NewTask, Tasks, Threads

LEMMA DeclineLaunchStep ==
    ASSUME StudioInv, NEW p \in Commands, DeclineLaunch(p)
    PROVE  StudioInv'
<1> DEFINE t1 == [task[p] EXCEPT !.at = "declined"]
           t2 == [task[p] EXCEPT !.at = "declined", !.verdict = "failure"]
<1>1. /\ UNCHANGED vars
      /\ UNCHANGED <<record, pc, me, submitted, current, requests, child, restarts>>
      /\ task[p].at = "launching"
  BY DEF DeclineLaunch, vars
<1>2. PICK t \in {t1, t2} : task' = [task EXCEPT ![p] = t]
  BY StudioHere DEF DeclineLaunch, At
<1>3. t \in Tasks /\ t.at = "declined" /\ t.command = task[p].command
  <2>1. task[p] \in Tasks /\ "declined" \in Threads
    BY StudioHere DEF Threads
  <2>2. t1 \in Tasks /\ t1.at = "declined" /\ t1.command = task[p].command
    BY <2>1 DEF Tasks
  <2>3. t2 \in Tasks /\ t2.at = "declined" /\ t2.command = task[p].command
    BY <2>1 DEF Tasks
  <2> HIDE DEF t1, t2
  <2> QED
    BY <2>2, <2>3
<1>4. GenerateInv'
  BY <1>1, StudioHere, StutterStep
<1>5. pc[p] # "idle" => t.command # "cancel"
  BY <1>3 DEF StudioInv
<1> HIDE DEF t1, t2
<1>6. CASE ~Running(p)
  BY <1>1, <1>2, <1>3, <1>4, <1>5, <1>6, StudioHere, ThreadStep DEF Running
<1>7. CASE Running(p)
  <2>1. restarts # 0
    BY <1>1, <1>7 DEF StudioInv, FirstStudioInv
  <2>2. task' \in [Commands -> Tasks] /\ \A q \in Commands : task'[q].command = task[q].command
    BY <1>2, <1>3, StudioHere
  <2>3. AliveInv'
    BY <1>1, <2>2 DEF AliveInv, StudioInv, Running
  <2> QED
    BY <1>1, <1>4, <2>1, <2>2, <2>3, StudioHere, StudioStep
<1> QED
  BY <1>6, <1>7

LEMMA PublishStep ==
    ASSUME StudioInv, NEW p \in Commands, Publish(p)
    PROVE  StudioInv'
<1> DEFINE t == [task[p] EXCEPT !.at = "waiting"]
<1>1. /\ UNCHANGED vars
      /\ UNCHANGED <<record, pc, me, submitted, current, requests, restarts>>
      /\ task[p].at = "spawned" /\ task' = [task EXCEPT ![p] = t]
      /\ child' \in {child, [child EXCEPT ![p].stop = "kill"]}
  BY StudioHere DEF Publish, At, vars
<1>2. t \in Tasks /\ t.at = "waiting" /\ t.command = task[p].command
  BY StudioHere DEF Tasks, Threads
<1>3. /\ child' \in [Commands -> Children]
      /\ \A q \in Commands : child'[q].state = child[q].state
  BY <1>1, StudioHere DEF Children
<1>4. GenerateInv'
  BY <1>1, StudioHere, StutterStep
<1>5. pc[p] # "idle" => t.command # "cancel"
  BY <1>2 DEF StudioInv
<1>6. \A q \in Commands : Running(q)' <=> Running(q)
  BY <1>3 DEF Running
<1> HIDE DEF t
<1> QED
  BY <1>1, <1>2, <1>3, <1>4, <1>5, <1>6, ThreadStep

LEMMA CollectStep ==
    ASSUME StudioInv, NEW p \in Commands, Collect(p)
    PROVE  StudioInv'
<1> DEFINE t1 == [task[p] EXCEPT !.at = "settling", !.verdict = "cancel"]
           t2 == [task[p] EXCEPT !.at = "settling", !.verdict = "failure"]
<1>1. /\ UNCHANGED vars
      /\ UNCHANGED <<record, pc, me, submitted, current, requests, restarts>>
      /\ task[p].at = "waiting" /\ ~Running(p) /\ child' = [child EXCEPT ![p] = NewChild]
  BY DEF Collect, vars
<1>2. PICK t \in {t1, t2, NewTask} : task' = [task EXCEPT ![p] = t]
  BY StudioHere DEF Collect
<1>3. t \in Tasks /\ t.at \in {"settling", "none"}
  <2>1. t1 \in Tasks /\ t1.at = "settling"
    BY StudioHere DEF Tasks, Threads
  <2>2. t2 \in Tasks /\ t2.at = "settling"
    BY StudioHere DEF Tasks, Threads
  <2> HIDE DEF t1, t2
  <2> QED
    BY <2>1, <2>2, NewTaskType
<1>4. GenerateInv'
  BY <1>1, StudioHere, StutterStep
<1>5. pc[p] = "idle"
  BY <1>1 DEF StudioInv
<1>6. /\ child' \in [Commands -> Children]
      /\ \A q \in Commands : Running(q)' <=> Running(q)
  BY <1>1, StudioHere DEF NewChild, Children, Running
<1> HIDE DEF t1, t2
<1> QED
  BY <1>1, <1>2, <1>3, <1>4, <1>5, <1>6, ThreadStep

\* A thread that writes the record of a queued run is its first task's: its child has
\* ended or was never started, and there is no other.
LEMMA SettleStep ==
    ASSUME StudioInv, NEW p \in Commands, Settle(p)
    PROVE  StudioInv'
<1>1. /\ task[p].at \in {"declined", "settling"} /\ task' = [task EXCEPT ![p] = NewTask]
      /\ UNCHANGED <<lock, request, drafts, inputs, raw, pc, me>>
      /\ UNCHANGED <<submitted, current, requests, child, restarts>>
      /\ (PrelaunchCancel /\ UNCHANGED issued) \/ PersistProcessFailure
  BY DEF Settle, bundle
<1>2. GenerateInv'
  BY <1>1, PrelaunchCancelKeeps, ProcessFailureKeeps
<1>3. \/ record' = record
      \/ record'.status = "failed"
      \/ record.status = "queued" /\ record'.status = "interrupted"
  BY <1>1, PrelaunchCancelKeeps, ProcessFailureKeeps
<1>4. record'.status = "failed" => record'.interruption # "user_cancelled"
  BY <1>2 DEF GenerateInv, Sound, WellFormed
<1>5. restarts = 0 => ~Running(p)
  BY <1>1 DEF StudioInv, FirstStudioInv
<1>6. ASSUME restarts = 0, record.status = "queued", NEW q \in Commands
      PROVE  ~Starting(q)' /\ pc[q] = "idle"
  <2>1. FirstStudioInv
    BY <1>6 DEF StudioInv
  <2>2. q = p \/ task[q].at = "none"
    BY <1>1, <1>6, <2>1 DEF FirstStudioInv
  <2>3. ~Running(q)
    BY <1>1, <2>1, <2>2 DEF FirstStudioInv
  <2> QED
    BY <1>1, <2>2, <2>3, NewTaskType, StudioHere DEF StudioInv, Starting, Running
<1>7. CASE Running(p)
  <2>1. task' \in [Commands -> Tasks]
        /\ \A q \in Commands : task'[q].command # "cancel" \/ task'[q].command = task[q].command
    BY <1>1, NewTaskType, StudioHere
  <2>2. AliveInv'
    BY <1>1, <2>1 DEF AliveInv, StudioInv, Running
  <2> QED
    BY <1>1, <1>2, <1>5, <1>7, <2>1, <2>2, StudioHere, StudioStep
<1>8. CASE ~Running(p)
  BY <1>1, <1>2, <1>3, <1>4, <1>6, <1>8, NewTaskType, StudioHere, ThreadStep DEF Running
<1> QED
  BY <1>7, <1>8

\* The child is alive from here on.
LEMMA PopenStep ==
    ASSUME StudioInv, NEW p \in Commands, Popen(p)
    PROVE  StudioInv'
<1> DEFINE t == [task[p] EXCEPT !.at = "spawned"]
           c == [NewChild EXCEPT !.state = "running"]
<1>1. /\ task[p].at = "launching" /\ task' = [task EXCEPT ![p] = t]
      /\ child' = [child EXCEPT ![p] = c]
      /\ UNCHANGED <<submitted, current, requests, restarts>>
      /\ IF task[p].command = "cancel" THEN UNCHANGED vars ELSE LaunchAs(p, task[p].command)
  BY StudioHere DEF Popen, At
<1>2. t \in Tasks /\ t.at = "spawned" /\ t.command = task[p].command
  BY StudioHere DEF Tasks, Threads
<1>3. c \in Children /\ c.state = "running"
  BY DEF NewChild, Children
<1> HIDE DEF t, c
<1>4. task[p].command \in {"prompt", "script", "resume", "cancel"}
  BY StudioHere DEF Tasks
<1>5. GenerateInv'
  BY <1>1, <1>4, CommandsAreProcs, StudioHere, LaunchStep, StutterStep
<1>6. /\ record' = record /\ \A q \in Procs \ {p} : pc'[q] = pc[q] /\ me'[q] = me[q]
      /\ task[p].command = "cancel" => pc' = pc /\ me' = me
  <2>1. pc \in [Procs -> Labels] /\ me \in [Procs -> Locals]
    BY StudioHere DEF TypeOK
  <2> QED
    BY <1>1, <2>1 DEF LaunchAs, Goto, vars
<1>7. task[p].command # "cancel" =>
         /\ pc'[p] \in {"starting", "ready"} /\ me'[p].seen = record
  <2>1. pc \in [Procs -> Labels] /\ me \in [Procs -> Locals] /\ me[p] \in Locals
    BY CommandsAreProcs, StudioHere DEF TypeOK
  <2> QED
    BY <1>1, <2>1, CommandsAreProcs DEF LaunchAs, Goto, Locals
<1>8. /\ task' \in [Commands -> Tasks] /\ child' \in [Commands -> Children]
      /\ task'[p] = t /\ child'[p] = c
      /\ \A q \in Commands \ {p} : task'[q] = task[q] /\ child'[q] = child[q]
  BY <1>1, <1>2, <1>3, StudioHere
<1>9. AliveInv'
  BY <1>2, <1>3, <1>6, <1>7, <1>8, CommandsAreProcs DEF AliveInv, StudioInv, Running
<1>10. ASSUME restarts = 0 PROVE FirstStudioInv'
  <2>1. FirstStudioInv
    BY <1>10 DEF StudioInv
  <2>2. \A q \in Commands : Running(q)' => task'[q].at \in {"spawned", "waiting"}
    BY <1>2, <1>8, <2>1 DEF FirstStudioInv, Running
  <2>3. \A q \in Commands :
           /\ Active(q)' => Active(q)
           /\ Starting(q)' => Starting(q) /\ task'[q].command = task[q].command
           /\ task'[q].at # "none" => task[q].at # "none"
    BY <1>1, <1>2, <1>8 DEF Active, Starting, Running
  <2>4. ASSUME record'.interruption = "user_cancelled", CancelledAsTask, NEW q \in Commands
        PROVE  HasSeenCancel(q)'
    <3>1. HasSeenCancel(q)
      BY <1>6, <2>1, <2>4 DEF FirstStudioInv, CancelInv
    <3>2. CASE q = p /\ task[p].command # "cancel"
      BY <1>6, <1>7, <2>4, <3>2 DEF HasSeenCancel, BeforeClaim
    <3>3. CASE q # p \/ task[p].command = "cancel"
      BY <1>6, <3>1, <3>3, CommandsAreProcs DEF HasSeenCancel
    <3> QED
      BY <3>2, <3>3
  <2> QED
    BY <1>1, <1>6, <1>10, <2>2, <2>3, <2>4, FirstLifeStep
<1> QED
  BY <1>1, <1>5, <1>8, <1>9, <1>10, StudioHere, StudioStep

(***************************************************************************)
(* The children.                                                           *)
(***************************************************************************)
\* A process without a command does nothing.
LEMMA OnlyTheLivingAct ==
    ASSUME GenerateInv, NEW p \in Procs, Step(p) \/ Beating(p) \/ Fault(p)
    PROVE  pc[p] # "idle"
<1>1. PlaceIsSafe(p)
  BY Here
<1> QED
  BY <1>1
  DEF PlaceIsSafe, PlanningStages, HandingOver, Step, Beating, Fault, WriteRequest, CompareRequest,
      LoseLock, PromoteScript, AcquireForGeneration, ClaimGeneration, DraftUnit, EnterDrafting,
      FinishDrafts, BeginPromotion, WriteRawOutput, CommitPromotion, LeaveGeneration,
      SettleGeneration, BuildWorker, Continue, ReadForHandoffStop, SaveHandoffStop, Unwind,
      ReadForUnstarted, ClaimUnstarted, SettleUnstarted, TakeRun, SaveRendering, FinishRendering,
      LeaveRendering, GenerationHeartbeat, HandoffHeartbeat, RenderingHeartbeat, PreflightStops,
      StopsGenerating, InGeneration, Crash

\* After a cancellation a command that has seen it leaves the record alone, or is the
\* one that runs it again.
CancelSeen(p) ==
    \/ record' = record /\ HasSeenCancel(p)'
    \/ /\ record'.interruption # "user_cancelled"
       /\ record'.status = "running" =>
             record'.owner = p /\ me[p].seen.interruption = "user_cancelled"

LEMMA CancelledCommand ==
    ASSUME GenerateInv, NEW p \in Procs, Step(p) \/ Beating(p) \/ Fault(p),
           record.interruption = "user_cancelled", HasSeenCancel(p)
    PROVE  CancelSeen(p)
<1>1. /\ pc \in [Procs -> Labels] /\ me \in [Procs -> Locals] /\ me[p] \in Locals
      /\ PlaceIsSafe(p) /\ record.status = "interrupted"
  BY Here DEF GenerateInv, TypeOK, WellFormed
<1>2. /\ pc[p] \in BeforeClaim \ {"idle"} /\ me[p].seen.interruption = "user_cancelled"
      /\ me[p].beat = "off" /\ me[p].handoff = "off"
  BY <1>1, OnlyTheLivingAct
  DEF HasSeenCancel, BeforeClaim, PlaceIsSafe, PlanningStages, HandingOver
<1>3. /\ ~Stale(record) /\ Reconciled(record) = record
      /\ \A partial \in BOOLEAN : ~Promotable(record, partial)
  BY <1>1 DEF Stale, Reconciled, Promotable
<1>4. \A how : Unstarted(p, how) =>
         pc'[p] = "unstarted" /\ me'[p].seen.interruption = "user_cancelled"
  BY <1>1, <1>2 DEF Unstarted, Goto, Locals
<1>5. Exit(p) => pc'[p] = "idle"
  BY <1>1 DEF Exit
<1>6. \A r, a, g : /\ Claimed(r, a, p, g).owner = p
                   /\ Claimed(r, a, p, g).interruption = "none"
  BY DEF Claimed
<1>7. CASE WriteRequest(p)
  BY <1>1, <1>2, <1>3, <1>4, <1>7
  DEF WriteRequest, Goto, CancelSeen, HasSeenCancel, BeforeClaim
<1>8. CASE CompareRequest(p) \/ LoseLock(p) \/ PreflightStops(p)
  BY <1>1, <1>2, <1>4, <1>8
  DEF CompareRequest, LoseLock, PreflightStops, Goto, CancelSeen, HasSeenCancel, BeforeClaim
<1>9. CASE PromoteScript(p)
  BY <1>2, <1>3, <1>4, <1>9 DEF PromoteScript, CancelSeen, HasSeenCancel, BeforeClaim
<1>10. CASE AcquireForGeneration(p)
  BY <1>1, <1>2, <1>3, <1>10
  DEF AcquireForGeneration, Goto, CancelSeen, HasSeenCancel, BeforeClaim
<1>11. CASE ClaimGeneration(p)
  BY <1>2, <1>4, <1>6, <1>11 DEF ClaimGeneration, CancelSeen, HasSeenCancel, BeforeClaim
<1>12. CASE ReadForUnstarted(p) \/ Crash(p)
  BY <1>3, <1>5, <1>12
  DEF ReadForUnstarted, Crash, Startable, CancelSeen, HasSeenCancel, BeforeClaim
<1>13. CASE TakeRun(p)
  BY <1>2, <1>3, <1>5, <1>6, <1>13 DEF TakeRun, CancelSeen, HasSeenCancel, BeforeClaim
<1> QED
  BY <1>2, <1>7, <1>8, <1>9, <1>10, <1>11, <1>12, <1>13
  DEF BeforeClaim, Step, Beating, Fault, DraftUnit, EnterDrafting, FinishDrafts, BeginPromotion,
      WriteRawOutput, CommitPromotion, LeaveGeneration, SettleGeneration, BuildWorker, Continue,
      ReadForHandoffStop, SaveHandoffStop, Unwind, ClaimUnstarted, SettleUnstarted, SaveRendering,
      FinishRendering, LeaveRendering, GenerationHeartbeat, HandoffHeartbeat, RenderingHeartbeat,
      StopsGenerating, InGeneration

\* A child takes a step of its command; its process ends when the command does.
LEMMA ChildCommandStep ==
    ASSUME StudioInv, NEW p \in Commands, Step(p) \/ Beating(p) \/ Fault(p),
           UNCHANGED <<submitted, current, requests, task, restarts>>,
           child' = child \/ \E how \in {"good", "bad"} : Ended(p, how)
    PROVE  StudioInv'
<1>1. p \in Procs /\ p # Studio /\ GenerateInv /\ GenerateInv'
  BY CommandsAreProcs, StudioHere, CommandStep
<1>2. \A q \in Procs \ {p} : pc'[q] = pc[q] /\ me'[q] = me[q]
  BY <1>1, OwnMove
<1>3. pc[p] # "idle"
  BY <1>1, OnlyTheLivingAct
<1>4. child' \in [Commands -> Children]
  BY StudioHere DEF Ended, EndedChild, NewChild, Children
<1>5. /\ pc'[p] # "idle" => child' = child
      /\ \A q \in Commands : child'[q] = child[q] \/ ~Running(q)'
      /\ \A q \in Commands \ {p} : child'[q] = child[q]
  BY StudioHere DEF Ended, EndedChild, NewChild, Running
<1>6. AliveInv'
  BY <1>1, <1>2, <1>3, <1>5, CommandsAreProcs DEF AliveInv, StudioInv, Running
<1>7. ASSUME restarts = 0 PROVE FirstStudioInv'
  <2>1. FirstStudioInv
    BY <1>7 DEF StudioInv
  <2>2. \A q \in Commands :
           /\ Running(q)' => task'[q].at \in {"spawned", "waiting"}
           /\ Active(q)' => Active(q)
           /\ Starting(q)' => Starting(q)
    BY <1>5, <2>1 DEF FirstStudioInv, Running, Active, Starting
  <2>3. /\ record'.status = "queued" => record.status = "queued"
        /\ record'.interruption = "user_cancelled" => record' = record
    BY <1>1, OwnRecord
  <2>4. task[p].at # "none"
    BY <1>3, <2>1 DEF StudioInv, FirstStudioInv
  <2>5. ASSUME record'.interruption = "user_cancelled", CancelledAsTask, NEW q \in Commands
        PROVE  HasSeenCancel(q)'
    <3>1. record' = record
      BY <2>3, <2>5
    <3>2. HasSeenCancel(q) /\ HasSeenCancel(p)
      BY <2>1, <2>5, <3>1 DEF FirstStudioInv, CancelInv
    <3>3. CASE q = p
      BY <1>1, <2>5, <3>1, <3>2, <3>3, CancelledCommand DEF CancelSeen
    <3>4. CASE q # p
      BY <1>2, <3>2, <3>4, CommandsAreProcs DEF HasSeenCancel
    <3> QED
      BY <3>3, <3>4
  <2> QED
    BY <1>7, <2>2, <2>3, <2>4, <2>5, FirstLifeStep
<1> QED
  BY <1>1, <1>4, <1>6, <1>7, StudioHere, StudioStep

LEMMA ChildStepKeeps ==
    ASSUME StudioInv, NEW p \in Commands,
           ChildStep(p) \/ ChildBeats(p) \/ ChildFails(p) \/ ChildStops(p)
    PROVE  StudioInv'
<1>1. Step(p) \/ Beating(p) \/ Fault(p)
  BY DEF ChildStep, ChildBeats, ChildFails, ChildStops, Fault
<1>2. UNCHANGED <<submitted, current, requests, task, restarts>>
  BY DEF ChildStep, ChildBeats, ChildFails, ChildStops, studio
<1>3. ExitStatus(p) \in {"good", "bad"}
  BY DEF ExitStatus
<1>4. child' = child \/ \E how \in {"good", "bad"} : Ended(p, how)
  BY <1>3 DEF ChildStep, ChildBeats, ChildFails, ChildStops, studio
<1> QED
  BY <1>1, <1>2, <1>4, ChildCommandStep

\* The child of a cancel task is no command of the run.
LEMMA ChildrenStep ==
    ASSUME StudioInv, NEW p \in Commands, GenerateInv', task[p].command = "cancel",
           UNCHANGED <<pc, me, submitted, current, requests, task, restarts>>, Running(p),
           child' \in [Commands -> Children],
           \A q \in Commands : Running(q)' => Running(q),
           \A q \in Commands \ {p} : child'[q].state = child[q].state,
           \/ record' = record
           \/ record'.status = "interrupted" /\ record'.interruption # "user_cancelled"
    PROVE  StudioInv'
<1>1. AliveInv'
  BY DEF AliveInv, StudioInv, Running
<1>2. ASSUME restarts = 0 PROVE FirstStudioInv'
  <2>1. FirstStudioInv
    BY <1>2 DEF StudioInv
  <2>2. \A q \in Commands :
           /\ Running(q)' => task'[q].at \in {"spawned", "waiting"}
           /\ Active(q)' => Active(q)
           /\ Starting(q)' => Starting(q)
    BY <2>1 DEF FirstStudioInv, Active, Starting
  <2>3. task[p].at # "none"
    BY <2>1 DEF FirstStudioInv
  <2>4. record'.status = "queued" => record.status = "queued"
    OBVIOUS
  <2>5. record'.interruption = "user_cancelled" =>
           record' = record /\ (CancelledAsTask => \A q \in Commands : HasSeenCancel(q)')
    BY <1>2, SeenStays
  <2> QED
    BY <1>2, <2>2, <2>3, <2>4, <2>5, FirstLifeStep
<1> QED
  BY <1>1, <1>2, StudioHere, StudioStep

LEMMA ChildDiesStep ==
    ASSUME StudioInv, NEW p \in Commands, ChildDies(p)
    PROVE  StudioInv'
<1>1. CASE Crash(p) /\ Ended(p, "bad")
  BY <1>1, ChildCommandStep DEF ChildDies, Fault
<1>2. CASE /\ task[p].command = "cancel" /\ Running(p)
           /\ child' = [child EXCEPT ![p] = EndedChild(p, "bad")] /\ UNCHANGED vars
  <2>1. UNCHANGED <<record, pc, me, submitted, current, requests, task, restarts>>
    BY <1>2 DEF ChildDies, vars
  <2>2. /\ child' \in [Commands -> Children]
        /\ \A q \in Commands : Running(q)' => Running(q)
        /\ \A q \in Commands \ {p} : child'[q].state = child[q].state
    BY <1>2, StudioHere DEF EndedChild, NewChild, Children, Running
  <2>3. GenerateInv'
    BY <1>2, StudioHere, StutterStep
  <2> QED
    BY <1>2, <2>1, <2>2, <2>3, ChildrenStep
<1> QED
  BY <1>1, <1>2 DEF ChildDies

LEMMA CancelCommandStep ==
    ASSUME StudioInv, NEW p \in Commands, CancelCommand(p)
    PROVE  StudioInv'
<1>1. /\ task[p].command = "cancel" /\ Running(p) /\ record' \in {record, Reconciled(record)}
      /\ UNCHANGED <<lock, request, drafts, inputs, raw, issued, pc, me>>
      /\ UNCHANGED <<submitted, current, requests, task, restarts>>
  BY DEF CancelCommand, bundle
<1>2. /\ GenerateInv'
      /\ \/ record' = record
         \/ record'.status = "interrupted" /\ record'.interruption # "user_cancelled"
  BY <1>1, ReconcileKeeps
<1> DEFINE Told == child' \in [Commands -> Children]
                  /\ (\A q \in Commands : Running(q)' => Running(q))
                  /\ \A q \in Commands \ {p} : child'[q].state = child[q].state
<1>3. ASSUME child' = [child EXCEPT ![p] = EndedChild(p, "bad")] PROVE Told
  BY <1>3, StudioHere DEF EndedChild, NewChild, Children, Running
<1>4. ASSUME child' = [q \in Commands |->
                         IF q = p THEN EndedChild(p, "good")
                         ELSE IF q = record.owner /\ Running(q) /\ child[q].stop = "no"
                         THEN [child[q] EXCEPT !.stop = "term"] ELSE child[q]]
      PROVE  Told
  <2>1. EndedChild(p, "good") \in Children /\ EndedChild(p, "good").state # "running"
    BY DEF EndedChild, NewChild, Children
  <2>2. \A q \in Commands :
           /\ [child[q] EXCEPT !.stop = "term"] \in Children
           /\ [child[q] EXCEPT !.stop = "term"].state = child[q].state
    BY StudioHere DEF Children
  <2> QED
    BY <1>4, <2>1, <2>2, StudioHere DEF Running
<1>5. Told
  BY <1>3, <1>4 DEF CancelCommand
<1> QED
  BY <1>1, <1>2, <1>5, ChildrenStep

(***************************************************************************)
(* Restarts and the passing of time.                                       *)
(***************************************************************************)
LEMMA RestartStep ==
    ASSUME StudioInv, Restart
    PROVE  StudioInv'
<1>1. /\ restarts \in 0 .. MaxRestarts /\ restarts < MaxRestarts /\ restarts' = restarts + 1
      /\ current' = NoProc /\ UNCHANGED vars /\ UNCHANGED <<pc, me>>
      /\ submitted' = "stored" /\ requests' = {}
      /\ task' = [p \in Commands |-> IF Running(p)
                          THEN [NewTask EXCEPT !.command = task[p].command] ELSE NewTask]
      /\ child' = [p \in Commands |-> IF Running(p) THEN child[p] ELSE NewChild]
  BY StudioHere DEF Restart, vars
<1>2. restarts' \in 0 .. MaxRestarts /\ restarts' # 0
  BY <1>1, MaxRestartsAssumption
<1>3. GenerateInv'
  BY <1>1, StudioHere, StutterStep
<1>4. NewChild \in Children /\ NewChild.state = "none"
  BY DEF NewChild, Children
<1>5. /\ child' \in [Commands -> Children]
      /\ \A p \in Commands : Running(p) => Running(p)'
  BY <1>1, <1>4, StudioHere DEF Running
<1>6. /\ task' \in [Commands -> Tasks]
      /\ \A p \in Commands : Running(p) => task'[p].command = task[p].command
  BY <1>1, StudioHere DEF NewTask, Tasks, Threads
<1>7. AliveInv'
  BY <1>1, <1>5, <1>6 DEF AliveInv, StudioInv
<1> QED
  BY <1>1, <1>2, <1>3, <1>5, <1>6, <1>7, StudioHere, StudioStep DEF Submissions

LEMMA TimePassesStep ==
    ASSUME StudioInv, TimePasses
    PROVE  StudioInv'
<1>1. /\ UNCHANGED <<pc, me, submitted, current, requests, task, child, restarts>>
      /\ Lapse \/ Reconcile
  BY DEF TimePasses, Lapse, Reconcile, studio
<1>2. GenerateInv'
  BY <1>1, StudioHere, TimeStep
<1>3. record.status = "running"
  BY <1>1, StudioHere
  DEF Lapse, Reconcile, Stale, WellFormed, ValidRecord, ValidExecution, IsActive
<1>4. record'.status # "queued" /\ record'.interruption # "user_cancelled"
  <2>1. CASE Lapse
    BY <2>1, <1>3, StudioHere DEF Lapse, WellFormed, RunRecords
  <2>2. CASE Reconcile
    BY <2>2, StudioHere DEF Reconcile, Reconciled, Finished, RunRecords
  <2> QED
    BY <1>1, <2>1, <2>2
<1>5. AliveInv'
  BY <1>1, SameChildren
<1>6. restarts' = 0 => FirstStudioInv'
  BY <1>1, <1>3, <1>4, FirstLifeStep DEF StudioInv, FirstStudioInv, Running, Active, Starting
<1> QED
  BY <1>1, <1>2, <1>5, <1>6, StudioHere, StudioStep

LEMMA StudioStutters ==
    ASSUME StudioInv, UNCHANGED studioVars
    PROVE  StudioInv'
<1>1. /\ UNCHANGED vars
      /\ UNCHANGED <<record, pc, me, submitted, current, requests, task, child, restarts>>
  BY DEF studioVars, studio, vars
<1>2. GenerateInv'
  BY <1>1, StudioHere, StutterStep
<1>3. AliveInv'
  BY <1>1, SameChildren
<1>4. restarts' = 0 => FirstStudioInv'
  BY <1>1, SeenStays, FirstLifeStep DEF StudioInv, FirstStudioInv, Running, Active, Starting
<1> QED
  BY <1>1, <1>2, <1>3, <1>4, StudioHere, StudioStep

LEMMA InitiallyStudioInv ==
    ASSUME StudioInit
    PROVE  StudioInv
<1>1. GenerateInv /\ TypeOK
  BY InitiallyGenerateInv DEF StudioInit, GenerateInv
<1>2. /\ \A p \in Procs : pc[p] = "idle"
      /\ record.status = "queued" /\ record.interruption = "none"
  BY DEF StudioInit, Init, QueuedRecord
<1>3. NewChild \in Children /\ NewChild.state = "none"
  BY DEF NewChild, Children
<1>4. StudioTypeOK
  BY <1>1, <1>3, NewTaskType, MaxRestartsAssumption DEF StudioInit, StudioTypeOK, Submissions
<1>5. FirstStudioInv
  BY <1>2, <1>3, NewTaskType DEF StudioInit, FirstStudioInv, CancelInv, Running, Active
<1> QED
  BY <1>1, <1>2, <1>4, <1>5, CommandsAreProcs DEF StudioInv

(***************************************************************************)
(* The inductive invariant, and what it implies.                           *)
(***************************************************************************)
\* The task table, the threads and the children fit together in every reachable
\* state, and until the studio restarts they fit the record.
THEOREM StudioInvariant == StudioSpec => []StudioInv
<1>1. StudioInit => StudioInv
  BY InitiallyStudioInv
<1>2. StudioInv /\ [StudioNext]_studioVars => StudioInv'
  <2> SUFFICES ASSUME StudioInv, [StudioNext]_studioVars PROVE StudioInv'
    OBVIOUS
  <2>1. CASE UNCHANGED studioVars
    BY <2>1, StudioStutters
  <2>2. CASE Request
    BY <2>2, CreateRunStep, StoreTaskStep, ResumeStep, CancelTaskStep, FindNoTaskStep,
       LoadForCancelStep, CancelQueuedRunStep, LaunchRecoveryStep DEF Request
  <2>3. ASSUME NEW p \in Commands, Thread(p) PROVE StudioInv'
    BY <2>3, DeclineLaunchStep, PopenStep, PublishStep, CollectStep, SettleStep DEF Thread
  <2>4. ASSUME NEW p \in Commands, Child(p) PROVE StudioInv'
    BY <2>4, ChildStepKeeps, ChildDiesStep, CancelCommandStep DEF Child
  <2> QED
    BY <2>1, <2>2, <2>3, <2>4, RestartStep, TimePassesStep DEF StudioNext
<1> QED
  BY <1>1, <1>2, PTL DEF StudioSpec

\* Every variable of the model has its type.
THEOREM StudioTypes == StudioSpec => []StudioTypeOK
<1>1. StudioInv => StudioTypeOK
  BY DEF StudioInv
<1> QED
  BY <1>1, StudioInvariant, PTL

\* Neither the studio's handlers nor its children build a record that the validator
\* refuses, however many children there are and whatever restarts they survive.
THEOREM StudioRecordsAreValid == StudioSpec => []RecordStaysValid
<1>1. StudioInv => RecordStaysValid
  BY DEF StudioInv, GenerateInv, Sound, WellFormed, RecordStaysValid
<1> QED
  BY <1>1, StudioInvariant, PTL

\* Until the studio restarts, and unless the first task took the place of an active
\* one, the run has at most one living child: the one in the task table.
THEOREM OneChildLives == StudioSpec => []OneLiveChild
<1>1. StudioInv => OneLiveChild
  <2> SUFFICES ASSUME StudioInv, restarts = 0, submitted # "displaced"
               PROVE  Cardinality(LiveChildren) <= 1
    BY DEF OneLiveChild
  <2>1. \A p \in Commands : Running(p) => p = current
    BY DEF StudioInv, FirstStudioInv, Active
  <2>2. LiveChildren \subseteq {current}
    BY <2>1 DEF LiveChildren
  <2>3. /\ IsFiniteSet({current}) /\ Cardinality({current}) = 1
    BY FS_Singleton
  <2> QED
    BY <2>2, <2>3, FS_Subset
<1> QED
  BY <1>1, StudioInvariant, PTL

\* What is not a step of a child leaves the record alone, ends the run, or renews or
\* ends a lease.
LEMMA StudioStartsNothing ==
    ASSUME StudioInv, [StudioNext]_studioVars
    PROVE  \/ record' = record
           \/ record'.status # "running"
           \/ record.lease = "live"
           \/ \E p \in Commands : Step(p) \/ Beating(p) \/ Fault(p)
<1> DEFINE Quiet == \/ record' = record
                   \/ record'.status # "running"
                   \/ record.lease = "live"
                   \/ \E p \in Commands : Step(p) \/ Beating(p) \/ Fault(p)
<1>1. record \in RunRecords
  BY StudioHere
<1>2. Reconciled(record) = record \/ Reconciled(record).status = "interrupted"
  BY <1>1 DEF Reconciled, Finished, RunRecords
<1>3. PrelaunchCancel \/ PersistProcessFailure => record' = record \/ record'.status # "running"
  BY <1>1 DEF PrelaunchCancel, PersistProcessFailure, ProcessFailure, RunRecords
<1>4. CASE UNCHANGED record
  BY <1>4
<1>5. CASE UNCHANGED studioVars
  BY <1>5 DEF studioVars, vars
<1>6. CASE Request
  BY <1>2, <1>3, <1>6
  DEF Request, CreateRun, StoreTask, Resume, CancelTask, FindNoTask, LoadForCancel,
      CancelQueuedRun, LaunchRecovery, vars
<1>7. ASSUME NEW p \in Commands, Thread(p) PROVE Quiet
  <2>1. Settle(p) => Quiet
    BY <1>3 DEF Settle
  <2>2. Popen(p) => Quiet
    BY DEF Popen, LaunchAs, vars
  <2> QED
    BY <1>7, <2>1, <2>2 DEF Thread, DeclineLaunch, Publish, Collect, vars
<1>8. ASSUME NEW p \in Commands, Child(p) PROVE Quiet
  <2>1. CancelCommand(p) => Quiet
    BY <1>2 DEF CancelCommand
  <2>2. ChildDies(p) => Quiet
    BY DEF ChildDies, Fault, vars
  <2> QED
    BY <1>8, <2>1, <2>2 DEF Child, ChildStep, ChildBeats, ChildFails, ChildStops, Fault
<1>9. CASE Restart
  BY <1>9 DEF Restart, vars
<1>10. CASE TimePasses
  BY <1>2, <1>10 DEF TimePasses, Lapse, Reconcile
<1> QED
  BY <1>5, <1>6, <1>7, <1>8, <1>9, <1>10 DEF StudioNext

\* A run that was cancelled in the queue is claimed by nobody but a resume that was
\* asked for after the cancellation, however the check, the load and the write of the
\* cancel fall between the steps of the threads and the children; the exception is a
\* cancel that looked for the task before the first was in the table.
THEOREM CancelHolds == StudioSpec => CancelSticks
<1>1. StudioInv /\ [StudioNext]_studioVars => (restarts = 0 /\ CancelledAsTask => ~StartsUnasked)
  <2> SUFFICES ASSUME StudioInv, [StudioNext]_studioVars, restarts = 0, CancelledAsTask,
                      record.interruption = "user_cancelled", record'.status = "running"
               PROVE  task[record'.owner].command = "resume"
    BY DEF StartsUnasked
  <2>1. record.status = "interrupted" /\ record.lease # "live"
    BY StudioHere DEF WellFormed, ValidRecord, ValidExecution, IsActive
  <2>2. PICK p \in Commands : Step(p) \/ Beating(p) \/ Fault(p)
    BY <2>1, StudioStartsNothing
  <2>3. FirstStudioInv /\ CancelInv
    BY DEF StudioInv, FirstStudioInv
  <2>4. CancelSeen(p)
    BY <2>2, <2>3, CommandsAreProcs, StudioHere, CancelledCommand DEF CancelInv
  <2>5. record'.owner = p
    BY <2>1, <2>4 DEF CancelSeen
  <2>6. pc[p] # "idle"
    BY <2>2, CommandsAreProcs, StudioHere, OnlyTheLivingAct
  <2>7. task[p].command \notin {"cancel", "prompt", "script"}
    BY <2>3, <2>6 DEF StudioInv, CancelInv, Starting
  <2> QED
    BY <2>5, <2>7, StudioHere DEF Tasks
<1>2. StudioInv /\ [StudioNext]_studioVars =>
         [restarts = 0 /\ CancelledAsTask => ~StartsUnasked]_studioVars
  BY <1>1
<1> QED
  BY <1>2, StudioInvariant, PTL DEF StudioSpec, CancelSticks
=============================================================================
