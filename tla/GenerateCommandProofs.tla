----------------------- MODULE GenerateCommandProofs -----------------------
(***************************************************************************)
(* Machine-checked proofs about GenerateCommand, for every set of          *)
(* processes and generators, every number of units and segments and every  *)
(* bound on the attempts: the inductive invariant GenerateInv, that no     *)
(* writer builds a record the validator refuses, that the record vouches   *)
(* only for what is on disk, and who may take a claimed run from its       *)
(* owner.  The lemmas are about the actions, not about Next: the studio's  *)
(* children take the same steps.                                           *)
(***************************************************************************)
EXTENDS GenerateCommandProperties, TLAPS

(***************************************************************************)
(* The record transformations build records of the right type ...          *)
(***************************************************************************)
LEMMA QueuedType ==
    ASSUME NEW f \in SourceForm
    PROVE  QueuedRecord(f) \in RunRecords
BY DEF RunRecords, QueuedRecord, RunStatus, RunStage, InterruptionKind

LEMMA ClaimedType ==
    ASSUME NEW r \in RunRecords, NEW a \in Nat, NEW p \in Procs, NEW g \in RunStage
    PROVE  Claimed(r, a, p, g) \in RunRecords
BY DEF RunRecords, Claimed, RunStatus, InterruptionKind

LEMMA BeatType ==
    ASSUME NEW r \in RunRecords, NEW g \in RunStage
    PROVE  Beat(r, g, 0) \in RunRecords
BY DEF RunRecords, Beat

LEMMA FinishedType ==
    ASSUME NEW r \in RunRecords, NEW t \in RunStatus, NEW g \in RunStage,
           NEW s \in Nat, NEW k \in InterruptionKind
    PROVE  Finished(r, t, g, s, k) \in RunRecords
BY DEF RunRecords, Finished

(***************************************************************************)
(* ... and well-formed records from well-formed ones.                      *)
(***************************************************************************)
LEMMA QueuedGood ==
    ASSUME NEW f \in {"fixture", "pending", "script"}
    PROVE  /\ QueuedRecord(f) \in RunRecords
           /\ WellFormed(QueuedRecord(f))
           /\ QueuedRecord(f).status = "queued" /\ QueuedRecord(f).form = f
           /\ QueuedRecord(f).attempt = 0
BY SpeechCountAssumption, QueuedType
DEF QueuedRecord, SourceForm, WellFormed, ValidRecord, ValidOwnership, ValidProgress,
    ValidExecution, ValidSource, IsActive, PlanningStages

LEMMA ClaimedGood ==
    ASSUME NEW r \in RunRecords, WellFormed(r), NEW a \in Nat \ {0}, NEW p \in Procs,
           NEW g \in {"planning", "compiling"},
           g = "planning" => r.form \in {"fixture", "pending"},
           g = "compiling" => r.form # "pending"
    PROVE  LET c == Claimed(r, a, p, g) IN
           /\ c \in RunRecords /\ WellFormed(c)
           /\ c.status = "running" /\ c.attempt = a /\ c.form = r.form /\ c.stage = g
<1>1. Claimed(r, a, p, g) \in RunRecords
  BY ClaimedType DEF RunStage
<1> QED
  BY <1>1, NoProcAssumption
  DEF Claimed, RunRecords, WellFormed, ValidRecord, ValidOwnership, ValidProgress,
      ValidExecution, ValidSource, IsActive, PlanningStages

\* A heartbeat, in a stage that suits the source.
LEMMA BeatGood ==
    ASSUME NEW r \in RunRecords, WellFormed(r), r.status = "running", NEW g \in RunStage,
           g \notin {"queued", "completed"},
           r.form = "pending" => g \in PlanningStages,
           r.form \in {"script", "generated"} => g \notin PlanningStages
    PROVE  LET b == Beat(r, g, 0) IN
           /\ b \in RunRecords /\ WellFormed(b)
           /\ b.status = "running" /\ b.attempt = r.attempt /\ b.form = r.form /\ b.stage = g
           /\ b.total = r.total
BY BeatType
DEF Beat, RunRecords, WellFormed, ValidRecord, ValidOwnership, ValidProgress,
    ValidExecution, ValidSource, IsActive

\* It keeps the stage there is.
LEMMA RenewedGood ==
    ASSUME NEW r \in RunRecords, WellFormed(r), r.status = "running"
    PROVE  LET b == Beat(r, r.stage, 0) IN
           /\ b \in RunRecords /\ WellFormed(b)
           /\ b.status = "running" /\ b.attempt = r.attempt /\ b.form = r.form
<1>1. /\ r.stage \in RunStage /\ r.stage \notin {"queued", "completed"}
      /\ r.form = "pending" => r.stage \in PlanningStages
      /\ r.form \in {"script", "generated"} => r.stage \notin PlanningStages
  BY DEF RunRecords, WellFormed, ValidRecord, ValidExecution, ValidSource
<1> QED
  BY <1>1, BeatGood

LEMMA StoppingGood ==
    ASSUME NEW r \in RunRecords, WellFormed(r), r.status = "running",
           NEW how \in {"failed", "interrupted"}
    PROVE  LET f == Stopping(r, how) IN
           /\ f \in RunRecords /\ WellFormed(f)
           /\ f.status = how /\ f.attempt = r.attempt /\ f.form = r.form
<1> DEFINE f == Stopping(r, how)
<1>1. f \in RunRecords
  <2>1. /\ r.stage \in RunStage /\ r.segment \in Nat /\ how \in RunStatus
        /\ StopKind(how) \in InterruptionKind
    BY DEF RunRecords, RunStatus, StopKind, InterruptionKind
  <2> QED
    BY <2>1, FinishedType DEF Stopping
<1>2. /\ f.status = how /\ f.attempt = r.attempt /\ f.form = r.form /\ f.stage = r.stage
      /\ f.lease = "none" /\ (how = "interrupted" => f.interruption # "none")
      /\ f.interruption # "user_cancelled"
      /\ f.owner = r.owner /\ f.attempts = r.attempts /\ f.total = r.total
      /\ f.completed = r.completed /\ f.failedSegment = r.failedSegment
  BY DEF Stopping, Finished, StopKind, RunRecords
<1> HIDE DEF f
<1>3. WellFormed(f)
  BY <1>1, <1>2
  DEF WellFormed, ValidRecord, ValidOwnership, ValidProgress, ValidExecution, ValidSource,
      IsActive
<1> QED
  BY <1>1, <1>2, <1>3 DEF f

LEMMA ReconciledGood ==
    ASSUME NEW r \in RunRecords, WellFormed(r)
    PROVE  LET f == Reconciled(r) IN
           /\ f \in RunRecords /\ WellFormed(f)
           /\ f = r \/ (r.status = "running" /\ f.status = "interrupted")
           /\ f.attempt = r.attempt /\ f.form = r.form
<1>1. CASE Stale(r)
  <2> DEFINE f == Reconciled(r)
  <2>1. f \in RunRecords
    <3>1. /\ r.stage \in RunStage /\ r.segment \in Nat /\ "interrupted" \in RunStatus
          /\ "lease_expired" \in InterruptionKind
      BY DEF RunRecords, RunStatus, InterruptionKind
    <3> QED
      BY <1>1, <3>1, FinishedType DEF Reconciled
  <2>2. /\ f.status = "interrupted" /\ f.attempt = r.attempt /\ f.form = r.form
        /\ f.stage = r.stage /\ f.lease = "none" /\ f.interruption = "lease_expired"
        /\ f.owner = r.owner /\ f.attempts = r.attempts /\ f.total = r.total
        /\ f.completed = r.completed /\ f.failedSegment = r.failedSegment
        /\ r.status = "running"
    BY <1>1 DEF Reconciled, Stale, Finished, RunRecords
  <2> HIDE DEF f
  <2>3. WellFormed(f)
    BY <2>1, <2>2
    DEF WellFormed, ValidRecord, ValidOwnership, ValidProgress, ValidExecution, ValidSource,
        IsActive
  <2> QED
    BY <2>1, <2>2, <2>3 DEF f
<1>2. CASE ~Stale(r)
  BY <1>2 DEF Reconciled
<1> QED
  BY <1>1, <1>2

LEMMA LapsedGood ==
    ASSUME NEW r \in RunRecords, WellFormed(r), r.lease = "live"
    PROVE  LET f == [r EXCEPT !.lease = "lapsed"] IN
           /\ f \in RunRecords /\ WellFormed(f)
           /\ f.status = r.status /\ f.attempt = r.attempt /\ f.form = r.form
BY DEF RunRecords, WellFormed, ValidRecord, ValidOwnership,
      ValidProgress, ValidExecution, ValidSource, IsActive

\* The commit of a promotion, and what the audio worker saves.
LEMMA PromotedGood ==
    ASSUME NEW r \in RunRecords, WellFormed(r), r.status = "running", r.form = "pending"
    PROVE  LET b == [Beat(r, "compiling", 0) EXCEPT !.form = "generated"] IN
           /\ b \in RunRecords /\ WellFormed(b)
           /\ b.status = "running" /\ b.attempt = r.attempt /\ b.form = "generated"
BY DEF Beat, RunRecords, RunStage, SourceForm, WellFormed, ValidRecord, ValidOwnership,
    ValidProgress, ValidExecution, ValidSource, IsActive, PlanningStages

LEMMA SynthesizingGood ==
    ASSUME NEW r \in RunRecords, WellFormed(r), r.status = "running", r.form # "pending"
    PROVE  LET b == [Beat(r, "synthesizing", 0) EXCEPT !.total = SpeechCount] IN
           /\ b \in RunRecords /\ WellFormed(b)
           /\ b.status = "running" /\ b.attempt = r.attempt /\ b.form = r.form
           /\ b.total = SpeechCount
BY SpeechCountAssumption
DEF Beat, RunRecords, RunStage, WellFormed, ValidRecord, ValidOwnership,
    ValidProgress, ValidExecution, ValidSource, IsActive, PlanningStages

LEMMA CompletedGood ==
    ASSUME NEW r \in RunRecords, WellFormed(r), r.status = "running", r.form # "pending",
           r.total = SpeechCount
    PROVE  LET c == [Finished(r, "completed", "completed", 0, "none")
                       EXCEPT !.completed = SpeechCount] IN
           /\ c \in RunRecords /\ WellFormed(c)
           /\ c.status = "completed" /\ c.attempt = r.attempt /\ c.form = r.form
<1> DEFINE f == Finished(r, "completed", "completed", 0, "none")
           c == [f EXCEPT !.completed = SpeechCount]
<1>1. f \in RunRecords /\ SpeechCount \in Nat
  BY FinishedType, SpeechCountAssumption DEF RunStage, RunStatus, InterruptionKind
<1>2. c \in RunRecords
  BY <1>1 DEF RunRecords
<1>3. /\ c.status = "completed" /\ c.attempt = r.attempt /\ c.form = r.form
      /\ c.stage = "completed" /\ c.lease = "none" /\ c.completed = SpeechCount
      /\ c.owner = r.owner /\ c.attempts = r.attempts /\ c.total = r.total
      /\ c.failedSegment = r.failedSegment /\ c.interruption = "none"
  BY DEF Finished, RunRecords
<1> HIDE DEF c
<1>4. WellFormed(c)
  BY <1>1, <1>2, <1>3
  DEF WellFormed, ValidRecord, ValidOwnership, ValidProgress, ValidExecution, ValidSource,
      IsActive, PlanningStages
<1> QED
  BY <1>2, <1>3, <1>4 DEF c

(***************************************************************************)
(* What a step of one process leaves to prove.                             *)
(***************************************************************************)
Grows ==
    /\ request => request'
    /\ inputs => inputs'
    /\ drafts = Units => drafts' = Units
    /\ issued' \in {issued, issued + 1}

\* What p has saved is not taken for a record of another process.
SavesOwn(p) ==
    \/ record' = record
    \/ record'.status # "running"
    \/ record'.attempt # 0 /\ record'.attempt = me'[p].attempt
    \/ record.status = "running" /\ record'.attempt = record.attempt /\ record'.form = record.form

LEMMA OthersAreSafe ==
    ASSUME GenerateInv, NEW q \in Procs, Grows,
           pc'[q] = pc[q], me'[q] = me[q],
           Owned(q)' => Owned(q) /\ record'.form = record.form
    PROVE  PlaceIsSafe(q)'
<1>1. PlaceIsSafe(q) /\ issued \in Nat /\ me[q] \in Locals
  BY DEF GenerateInv, TypeOK
<1>2. Sound(me[q].seen)' /\ Sound(me[q].snap)'
  BY <1>1 DEF PlaceIsSafe, Sound, Backed, Grows, Locals, RunRecords
<1> QED
  BY <1>1, <1>2 DEF PlaceIsSafe, Grows, OwnCopy, Locals

LEMMA OwnStep ==
    ASSUME GenerateInv, NEW p \in Procs, TypeOK',
           \A q \in Procs \ {p} : pc'[q] = pc[q] /\ me'[q] = me[q] /\ (lock' = q <=> lock = q),
           lock' = p <=> pc'[p] \in UnderLock,
           Grows,
           \/ me'[p].attempt \in {0, me[p].attempt}
           \/ me'[p].attempt = issued' /\ issued' = issued + 1,
           Sound(record)', SavesOwn(p), PlaceIsSafe(p)'
    PROVE  GenerateInv'
<1>1. /\ issued \in Nat /\ \A q \in Procs : me[q] \in Locals /\ me[q].attempt \in Nat
      /\ \A q \in Procs : me[q].attempt <= issued
      /\ \A q \in Procs \ {p} : me'[q] = me[q]
  BY DEF GenerateInv, TypeOK, Locals, PlaceIsSafe
<1>2. \A q, k \in Procs : q # k /\ me'[q].attempt = me'[k].attempt => me'[q].attempt = 0
  BY <1>1 DEF GenerateInv
<1>3. ASSUME NEW q \in Procs \ {p} PROVE PlaceIsSafe(q)'
  <2>1. Owned(q)' => Owned(q) /\ record'.form = record.form
    BY <1>1, <1>2 DEF SavesOwn, Owned
  <2> QED
    BY <1>1, <2>1, OthersAreSafe
<1> QED
  BY <1>1, <1>2, <1>3 DEF GenerateInv

\* What a copy or the record has to be after the step.
SoundAfter(r) ==
    /\ WellFormed(r)
    /\ r.form \in {"pending", "generated"} => request'
    /\ r.form \in {"script", "generated"} => inputs'
    /\ r.form = "generated" => drafts' = Units
    /\ r.attempt <= issued'

LEMMA SoundStays ==
    ASSUME GenerateInv, Grows, NEW r \in RunRecords, Sound(r)
    PROVE  SoundAfter(r)
<1>1. issued \in Nat /\ r.attempt \in Nat
  BY DEF GenerateInv, TypeOK, RunRecords
<1> QED
  BY <1>1 DEF Sound, SoundAfter, Backed, Grows

\* What PlaceIsSafe asks of a process that is at g with the locals l then.
PlaceAfter(g, l) ==
    /\ SoundAfter(l.seen) /\ SoundAfter(l.snap)
    /\ l.attempt <= issued'
    /\ g \in Unclaimed => l.attempt = 0
    /\ l.beat # "off" => g \in PlanningStages
    /\ g \in PlanningStages /\ record'.status = "running" /\ record'.attempt = l.attempt =>
          record'.form \in {"fixture", "pending"}
    /\ g \in {"promoting", "bundling", "bundled"} => drafts' = Units
    /\ g \in {"bundling", "bundled"} =>
          /\ l.seen.status = "running" /\ l.seen.attempt = l.attempt
          /\ l.seen.form = "pending" /\ inputs'
    /\ g = "handoffSaving" => l.seen.status = "running" /\ l.seen.attempt = l.attempt
    /\ l.handoff = "reading" => l.snap.status = "running" /\ l.snap.attempt = l.attempt
    /\ l.handoff # "off" => g \in HandingOver
    /\ g = "unstartedClaim" =>
          l.seen.status = "queued" /\ l.seen.form \in {"fixture", "pending"}
    /\ g = "rendering" =>
          /\ l.seen.status = "running" /\ l.seen.attempt = l.attempt
          /\ l.seen.form # "pending"
          /\ l.seen.stage = "synthesizing" => l.seen.total = SpeechCount

\* The process p goes to g with the locals l.
Goes(p, g, l) == pc' = [pc EXCEPT ![p] = g] /\ me' = [me EXCEPT ![p] = l]

\* Only p takes and releases the lock, and in this way.
Locks(p, g) ==
    /\ lock' = lock \/ (lock = p /\ lock' = NoProc) \/ (lock = NoProc /\ lock' = p)
    /\ lock' = p <=> g \in UnderLock

DiskTypes ==
    /\ request' \in BOOLEAN /\ inputs' \in BOOLEAN
    /\ drafts' \in 0 .. Units /\ raw' \in Nat

Draws(p, l) ==
    \/ l.attempt \in {0, me[p].attempt}
    \/ l.attempt = issued' /\ issued' = issued + 1

SavesAs(l) ==
    \/ record' = record
    \/ record'.status # "running"
    \/ record'.attempt # 0 /\ record'.attempt = l.attempt
    \/ record.status = "running" /\ record'.attempt = record.attempt /\ record'.form = record.form

LEMMA ProcessStep ==
    ASSUME GenerateInv, NEW p \in Procs, NEW g \in Labels, NEW l \in Locals, Goes(p, g, l),
           Locks(p, g), DiskTypes, Grows, Draws(p, l),
           record' \in RunRecords, SoundAfter(record'), SavesAs(l), PlaceAfter(g, l)
    PROVE  GenerateInv'
<1>1. /\ pc' \in [Procs -> Labels] /\ me' \in [Procs -> Locals]
      /\ pc'[p] = g /\ me'[p] = l
      /\ \A q \in Procs \ {p} : pc'[q] = pc[q] /\ me'[q] = me[q]
  BY DEF GenerateInv, TypeOK, Goes
<1>2. TypeOK'
  BY <1>1 DEF GenerateInv, TypeOK, DiskTypes, Locks, Grows
<1>3. \A q \in Procs \ {p} : lock' = q <=> lock = q
  BY NoProcAssumption DEF Locks
<1>4. Sound(record)'
  BY DEF Sound, SoundAfter, Backed
<1>5. PlaceIsSafe(p)'
  BY <1>1 DEF PlaceIsSafe, PlaceAfter, Sound, SoundAfter, Backed, OwnCopy, Owned
<1> QED
  BY <1>1, <1>2, <1>3, <1>4, <1>5, OwnStep DEF Locks, Draws, SavesAs, SavesOwn

\* What is known before a step.
LEMMA Here ==
    ASSUME GenerateInv, NEW p \in Procs
    PROVE  /\ record \in RunRecords /\ Sound(record) /\ WellFormed(record)
           /\ issued \in Nat /\ record.attempt \in Nat /\ record.attempt <= issued
           /\ drafts \in 0 .. Units /\ request \in BOOLEAN /\ inputs \in BOOLEAN /\ raw \in Nat
           /\ pc[p] \in Labels /\ (lock = p <=> pc[p] \in UnderLock) /\ p # NoProc
           /\ me[p] \in Locals /\ PlaceIsSafe(p)
           /\ me[p].seen \in RunRecords /\ me[p].snap \in RunRecords
           /\ Sound(me[p].seen) /\ Sound(me[p].snap)
           /\ me[p].attempt \in Nat /\ me[p].attempt <= issued
           /\ record.status = "running" => record.attempt # 0
<1>1. record \in RunRecords /\ Sound(record) /\ me[p] \in Locals /\ PlaceIsSafe(p)
  BY DEF GenerateInv, TypeOK
<1> QED
  BY <1>1, NoProcAssumption
  DEF GenerateInv, TypeOK, Locals, PlaceIsSafe, Sound, RunRecords, WellFormed, ValidRecord,
      ValidOwnership, ValidExecution, IsActive

\* A step that changes nothing shared but, perhaps, the lock.
LEMMA PrivateStep ==
    ASSUME GenerateInv, NEW p \in Procs, NEW g \in Labels, NEW l \in Locals, Goes(p, g, l),
           Locks(p, g), UNCHANGED <<record, request, drafts, inputs, raw, issued>>,
           l.attempt \in {0, me[p].attempt}, PlaceAfter(g, l)
    PROVE  GenerateInv'
<1>1. Grows /\ DiskTypes /\ Draws(p, l) /\ SavesAs(l)
  BY Here DEF Grows, DiskTypes, Draws, SavesAs
<1>2. SoundAfter(record')
  BY <1>1, Here, SoundStays
<1> QED
  BY <1>1, <1>2, Here, ProcessStep

LEMMA NewLocalType ==
    /\ NewLocal \in Locals /\ NoRecord \in RunRecords /\ WellFormed(NoRecord)
    /\ NoRecord.form = "fixture" /\ NoRecord.attempt = 0
BY QueuedGood DEF NewLocal, NoRecord, Locals

\* A process that leaves asks nothing of the state.
LEMMA ExitFacts ==
    ASSUME NEW p \in Procs, Exit(p), issued' \in Nat
    PROVE  Goes(p, "idle", NewLocal) /\ "idle" \in Labels /\ PlaceAfter("idle", NewLocal)
<1>1. SoundAfter(NoRecord)
  BY NewLocalType DEF SoundAfter
<1> QED
  BY <1>1 DEF Exit, Goes, NewLocal, PlaceAfter, Labels, PlanningStages, Unclaimed

\* Giving up, with a lock or without.
LEMMA LeavingStep ==
    ASSUME GenerateInv, NEW p \in Procs, Exit(p),
           lock' = IF lock = p THEN NoProc ELSE lock,
           UNCHANGED <<record, request, drafts, inputs, raw, issued>>
    PROVE  GenerateInv'
<1>1. Locks(p, "idle")
  BY Here DEF Locks, UnderLock, InGeneration
<1>2. NewLocal.attempt \in {0, me[p].attempt}
  BY DEF NewLocal
<1> QED
  BY <1>1, <1>2, Here, ExitFacts, NewLocalType, PrivateStep

(***************************************************************************)
(* Commands, up to the claim.                                              *)
(***************************************************************************)
LEMMA LaunchStep ==
    ASSUME GenerateInv, NEW p \in Procs, NEW c \in {"prompt", "script", "process", "resume"},
           LaunchAs(p, c)
    PROVE  GenerateInv'
<1> DEFINE l == IF c = "resume" /\ record.form = "pending" THEN [me[p] EXCEPT !.seen = record]
                ELSE [me[p] EXCEPT !.command = c, !.seen = record]
<1>1. pc[p] = "idle" /\ UNCHANGED <<record, lock, request, drafts, inputs, raw, issued>>
  BY DEF LaunchAs, bundle
<1>2. PICK g \in {"starting", "ready"} : Goes(p, g, l)
  BY DEF LaunchAs, Goes, Goto
<1>3. /\ l \in Locals /\ l.seen = record /\ l.snap = me[p].snap /\ l.attempt = me[p].attempt
      /\ l.beat = me[p].beat /\ l.handoff = me[p].handoff
  BY Here DEF Locals
<1> HIDE DEF l
<1>4. Grows /\ lock # p
  BY <1>1, Here DEF Grows, UnderLock, InGeneration
<1>5. SoundAfter(record) /\ SoundAfter(me[p].snap)
  BY <1>4, Here, SoundStays
<1>6. g \in Labels /\ g \notin UnderLock /\ g \notin PlanningStages
  BY DEF Labels, UnderLock, InGeneration, PlanningStages
<1>7. /\ me[p].attempt = 0 /\ me[p].beat = "off" /\ me[p].handoff = "off"
  BY <1>1, Here DEF PlaceIsSafe, Unclaimed, PlanningStages, HandingOver
<1>8. PlaceAfter(g, l)
  BY <1>1, <1>3, <1>5, <1>6, <1>7, Here DEF PlaceAfter
<1> QED
  BY <1>1, <1>2, <1>3, <1>4, <1>6, <1>7, <1>8, PrivateStep DEF Locks

\* A step of a process before its claim, to a label outside the lock.
LEMMA PreludeStep ==
    ASSUME GenerateInv, NEW p \in Procs, NEW g \in Labels \ UnderLock, NEW l \in Locals,
           Goes(p, g, l), pc[p] \in {"starting", "requested", "locked", "ready"},
           g \in {"starting", "requested", "ready", "unstarted"},
           l.seen = me[p].seen, l.snap = me[p].snap, l.attempt = 0,
           l.beat = "off", l.handoff = me[p].handoff,
           lock' = IF lock = p THEN NoProc ELSE lock,
           UNCHANGED <<record, request, drafts, inputs, raw, issued>>
    PROVE  GenerateInv'
<1>1. Grows /\ Locks(p, g)
  BY Here DEF Grows, Locks
<1>2. SoundAfter(me[p].seen) /\ SoundAfter(me[p].snap)
  BY <1>1, Here, SoundStays
<1>3. me[p].handoff = "off"
  BY Here DEF PlaceIsSafe, HandingOver
<1>4. PlaceAfter(g, l)
  BY <1>2, <1>3, Here DEF PlaceAfter, PlanningStages
<1> QED
  BY <1>1, <1>4, PrivateStep

LEMMA UnstartedStep ==
    ASSUME GenerateInv, NEW p \in Procs, NEW how \in {"failed", "interrupted"},
           Unstarted(p, how), pc[p] \in {"starting", "requested", "locked", "ready"},
           lock' = IF lock = p THEN NoProc ELSE lock,
           UNCHANGED <<record, request, drafts, inputs, raw, issued>>
    PROVE  GenerateInv'
<1> DEFINE l == [me[p] EXCEPT !.stop = how, !.beat = "off"]
<1>1. /\ l \in Locals /\ l.seen = me[p].seen /\ l.snap = me[p].snap
      /\ l.attempt = me[p].attempt /\ l.beat = "off" /\ l.handoff = me[p].handoff
  BY Here DEF Locals
<1>2. Goes(p, "unstarted", l)
  BY Here DEF Unstarted, Goto, Goes, Locals, GenerateInv, TypeOK
<1> HIDE DEF l
<1>3. "unstarted" \in Labels \ UnderLock
  BY DEF Labels, UnderLock, InGeneration
<1>4. me[p].attempt = 0
  BY Here DEF PlaceIsSafe, Unclaimed
<1> QED
  BY <1>1, <1>2, <1>3, <1>4, PreludeStep

\* A step that leaves the locals alone.
LEMMA RequestedStep ==
    ASSUME GenerateInv, NEW p \in Procs, pc[p] = "starting", Goto(p, "requested"),
           UNCHANGED <<me, lock, record, request, drafts, inputs, raw, issued>>
    PROVE  GenerateInv'
<1>1. Goes(p, "requested", me[p])
  BY DEF Goto, Goes, GenerateInv, TypeOK
<1>2. "requested" \in Labels \ UnderLock
  BY DEF Labels, UnderLock, InGeneration
<1>3. /\ me[p] \in Locals /\ me[p].attempt = 0 /\ me[p].beat = "off" /\ lock # p
  BY Here DEF PlaceIsSafe, Unclaimed, PlanningStages, UnderLock, InGeneration
<1> QED
  BY <1>1, <1>2, <1>3, PreludeStep

\* The request and the record that names it.
LEMMA WriteRequestStep ==
    ASSUME GenerateInv, NEW p \in Procs, WriteRequest(p)
    PROVE  GenerateInv'
<1>1. /\ pc[p] = "starting" /\ lock = NoProc
      /\ UNCHANGED <<lock, drafts, inputs, raw, issued>>
  BY DEF WriteRequest, bundle
<1>2. CASE request' = request /\ record' = record /\ me' = me /\ Goto(p, "requested")
  BY <1>1, <1>2, RequestedStep
<1>3. CASE Unstarted(p, "failed") /\ UNCHANGED <<record, request>>
  BY <1>1, <1>3, Here, UnstartedStep
<1>4. CASE request' = TRUE /\ Promotable(record, FALSE) /\ UNCHANGED record /\ Exit(p)
  <2>1. Grows /\ DiskTypes /\ Locks(p, "idle")
    BY <1>1, <1>4, Here DEF Grows, DiskTypes, Locks, UnderLock, InGeneration
  <2>2. SoundAfter(record')
    BY <1>4, <2>1, Here, SoundStays
  <2>3. Draws(p, NewLocal) /\ SavesAs(NewLocal)
    BY <1>4 DEF Draws, SavesAs, NewLocal
  <2>4. issued' \in Nat
    BY <1>1, Here
  <2> QED
    BY <1>4, <2>1, <2>2, <2>3, <2>4, Here, ExitFacts, NewLocalType, ProcessStep
<1>5. CASE request' = TRUE /\ record' = QueuedRecord("pending") /\ Goto(p, "requested")
             /\ UNCHANGED me
  <2>1. Grows /\ DiskTypes /\ Locks(p, "requested") /\ "requested" \in Labels
    BY <1>1, <1>5, Here DEF Grows, DiskTypes, Locks, UnderLock, InGeneration, Labels
  <2>2. record' \in RunRecords /\ SoundAfter(record') /\ record'.status # "running"
    BY <1>1, <1>5, Here, QueuedGood DEF SoundAfter
  <2>3. SoundAfter(me[p].seen) /\ SoundAfter(me[p].snap)
    BY <2>1, Here, SoundStays
  <2>4. PlaceAfter("requested", me[p])
    BY <1>1, <2>2, <2>3, Here DEF PlaceIsSafe, PlaceAfter, Unclaimed, PlanningStages, HandingOver
  <2>5. Goes(p, "requested", me[p]) /\ Draws(p, me[p]) /\ SavesAs(me[p])
    BY <1>5, <2>2 DEF Goes, Goto, Draws, SavesAs, GenerateInv, TypeOK
  <2> QED
    BY <2>1, <2>2, <2>4, <2>5, Here, ProcessStep
<1> QED
  BY <1>2, <1>3, <1>4, <1>5 DEF WriteRequest

LEMMA CompareRequestStep ==
    ASSUME GenerateInv, NEW p \in Procs, CompareRequest(p)
    PROVE  GenerateInv'
<1>1. /\ pc[p] = "starting" /\ lock # p
      /\ UNCHANGED <<lock, record, request, drafts, inputs, raw, issued>>
  BY Here DEF CompareRequest, bundle, UnderLock, InGeneration
<1>2. CASE request
  BY <1>1, <1>2, RequestedStep DEF CompareRequest
<1>3. CASE ~request
  BY <1>1, <1>3, UnstartedStep DEF CompareRequest
<1> QED
  BY <1>2, <1>3

\* What goes wrong before the claim.
LEMMA PreflightStep ==
    ASSUME GenerateInv, NEW p \in Procs, PreflightStops(p) \/ LoseLock(p)
    PROVE  GenerateInv'
<1>1. /\ pc[p] \in {"starting", "requested"} /\ lock # p
      /\ UNCHANGED <<lock, record, request, drafts, inputs, raw, issued>>
  BY Here DEF PreflightStops, LoseLock, bundle, UnderLock, InGeneration
<1>2. \E how \in {"failed", "interrupted"} : Unstarted(p, how)
  BY DEF PreflightStops, LoseLock
<1> QED
  BY <1>1, <1>2, UnstartedStep

LEMMA PromoteScriptStep ==
    ASSUME GenerateInv, NEW p \in Procs, PromoteScript(p)
    PROVE  GenerateInv'
<1>1. /\ pc[p] = "starting" /\ lock = NoProc /\ lock # p
      /\ UNCHANGED <<lock, drafts, request, raw, issued>>
  BY Here DEF PromoteScript
<1>2. CASE Unstarted(p, "failed") /\ UNCHANGED <<record, inputs>>
  BY <1>1, <1>2, UnstartedStep
<1>3. CASE inputs' = TRUE /\ UNCHANGED record /\ Exit(p)
  <2>1. Grows /\ DiskTypes /\ Locks(p, "idle")
    BY <1>1, <1>3, Here DEF Grows, DiskTypes, Locks, UnderLock, InGeneration
  <2>2. SoundAfter(record')
    BY <1>3, <2>1, Here, SoundStays
  <2>3. Draws(p, NewLocal) /\ SavesAs(NewLocal)
    BY <1>3 DEF Draws, SavesAs, NewLocal
  <2>4. issued' \in Nat
    BY <1>1, Here
  <2> QED
    BY <1>3, <2>1, <2>2, <2>3, <2>4, Here, ExitFacts, NewLocalType, ProcessStep
<1>4. CASE /\ inputs' = TRUE /\ record' = QueuedRecord("script") /\ Goto(p, "ready")
           /\ me' = [me EXCEPT ![p].command = "process", ![p].seen = QueuedRecord("script")]
  <2> DEFINE q == QueuedRecord("script")
             l == [me[p] EXCEPT !.command = "process", !.seen = q]
  <2>1. Grows /\ DiskTypes /\ Locks(p, "ready") /\ "ready" \in Labels
    BY <1>1, <1>4, Here DEF Grows, DiskTypes, Locks, UnderLock, InGeneration, Labels
  <2>2. q \in RunRecords /\ SoundAfter(q) /\ q.status # "running"
    BY <1>1, <1>4, Here, QueuedGood DEF SoundAfter
  <2>3. SoundAfter(me[p].snap)
    BY <2>1, Here, SoundStays
  <2>4. /\ l \in Locals /\ l.seen = q /\ l.snap = me[p].snap /\ l.attempt = me[p].attempt
        /\ l.beat = me[p].beat /\ l.handoff = me[p].handoff
    BY <2>2, Here DEF Locals
  <2>5. Goes(p, "ready", l)
    BY <1>4 DEF Goes, Goto, GenerateInv, TypeOK
  <2> HIDE DEF l, q
  <2>6. PlaceAfter("ready", l)
    BY <1>1, <1>4, <2>2, <2>3, <2>4, Here
    DEF PlaceIsSafe, PlaceAfter, Unclaimed, PlanningStages, HandingOver
  <2>7. Draws(p, l) /\ SavesAs(l) /\ record' = q
    BY <1>4, <2>2, <2>4 DEF Draws, SavesAs, q
  <2> QED
    BY <2>1, <2>2, <2>4, <2>5, <2>6, <2>7, ProcessStep
<1> QED
  BY <1>2, <1>3, <1>4 DEF PromoteScript

\* Reconciliation of the record that is there.
LEMMA ReconciledSound ==
    ASSUME GenerateInv, Grows
    PROVE  /\ Reconciled(record) \in RunRecords /\ SoundAfter(Reconciled(record))
           /\ WellFormed(Reconciled(record))
           /\ Reconciled(record) = record \/ Reconciled(record).status = "interrupted"
           /\ Reconciled(record).form = record.form
<1>1. record \in RunRecords /\ Sound(record) /\ WellFormed(record)
  BY DEF GenerateInv, TypeOK, Sound
<1>2. SoundAfter(record)
  BY <1>1, SoundStays
<1> QED
  BY <1>1, <1>2, ReconciledGood DEF SoundAfter

LEMMA AcquireStep ==
    ASSUME GenerateInv, NEW p \in Procs, AcquireForGeneration(p)
    PROVE  GenerateInv'
<1>1. /\ pc[p] = "requested" /\ lock = NoProc /\ lock' = p /\ record' = Reconciled(record)
      /\ Goto(p, "locked") /\ UNCHANGED <<request, drafts, inputs, raw, issued, me>>
  BY DEF AcquireForGeneration, bundle
<1>2. Grows /\ DiskTypes /\ Locks(p, "locked") /\ "locked" \in Labels
  BY <1>1, Here DEF Grows, DiskTypes, Locks, UnderLock, InGeneration, Labels
<1>3. SoundAfter(me[p].seen) /\ SoundAfter(me[p].snap)
  BY <1>2, Here, SoundStays
<1>4. PlaceAfter("locked", me[p])
  BY <1>1, <1>3, Here DEF PlaceIsSafe, PlaceAfter, Unclaimed, PlanningStages, HandingOver
<1>5. Goes(p, "locked", me[p]) /\ Draws(p, me[p]) /\ SavesAs(me[p])
  BY <1>1, <1>2, ReconciledSound DEF Goes, Goto, Draws, SavesAs, GenerateInv, TypeOK
<1> QED
  BY <1>1, <1>2, <1>4, <1>5, Here, ReconciledSound, ProcessStep

\* A claim draws the next attempt.
LEMMA ClaimSound ==
    ASSUME GenerateInv, NEW p \in Procs, NEW r \in RunRecords, SoundAfter(r),
           issued' = issued + 1, NEW g \in {"planning", "compiling"},
           g = "planning" => r.form \in {"fixture", "pending"},
           g = "compiling" => r.form # "pending"
    PROVE  LET c == Claimed(r, issued + 1, p, g) IN
           /\ c \in RunRecords /\ SoundAfter(c) /\ c.status = "running"
           /\ c.attempt = issued + 1 /\ c.attempt # 0 /\ c.form = r.form /\ c.stage = g
<1>1. issued + 1 \in Nat \ {0}
  BY DEF GenerateInv, TypeOK
<1> QED
  BY <1>1, ClaimedGood DEF SoundAfter

LEMMA ClaimGenerationStep ==
    ASSUME GenerateInv, NEW p \in Procs, ClaimGeneration(p)
    PROVE  GenerateInv'
<1>1. pc[p] = "locked" /\ lock = p /\ UNCHANGED <<request, drafts, inputs, raw>>
  BY Here DEF ClaimGeneration, bundle, UnderLock
<1>2. CASE Startable(record) \/ Restartable(record)
  <2> DEFINE c == Claimed(record, issued + 1, p, "planning")
             l == [me[p] EXCEPT !.attempt = issued + 1, !.drew = FALSE, !.beat = "on"]
  <2>1. /\ record' = c /\ issued' = issued + 1 /\ Goto(p, "planning") /\ lock' = lock
        /\ me' = [me EXCEPT ![p].attempt = issued + 1, ![p].drew = FALSE, ![p].beat = "on"]
        /\ record.form \in {"fixture", "pending"}
    BY <1>2 DEF ClaimGeneration, Startable, Restartable, Promotable
  <2>2. Grows /\ DiskTypes /\ Locks(p, "planning") /\ "planning" \in Labels
    BY <1>1, <2>1, Here DEF Grows, DiskTypes, Locks, UnderLock, InGeneration, Labels
  <2>3. SoundAfter(me[p].seen) /\ SoundAfter(me[p].snap) /\ SoundAfter(record)
    BY <2>2, Here, SoundStays
  <2>4. /\ c \in RunRecords /\ SoundAfter(c) /\ c.status = "running"
        /\ c.attempt = issued + 1 /\ c.attempt # 0 /\ c.form \in {"fixture", "pending"}
    BY <2>1, <2>3, Here, ClaimSound
  <2>5. /\ l \in Locals /\ l.seen = me[p].seen /\ l.snap = me[p].snap
        /\ l.attempt = issued + 1 /\ l.beat = "on" /\ l.handoff = me[p].handoff
    <3>1. me[p] \in Locals /\ issued + 1 \in Nat
      BY Here
    <3> QED
      BY <3>1 DEF Locals
  <2>6. Goes(p, "planning", l)
    BY <2>1 DEF Goes, Goto, GenerateInv, TypeOK
  <2> HIDE DEF c, l
  <2>7. me[p].handoff = "off"
    BY <1>1, Here DEF PlaceIsSafe, HandingOver
  <2>8. PlaceAfter("planning", l)
    BY <2>1, <2>3, <2>4, <2>5, <2>7, Here DEF PlaceAfter, PlanningStages, Unclaimed
  <2>9. Draws(p, l) /\ SavesAs(l)
    BY <2>1, <2>4, <2>5 DEF Draws, SavesAs
  <2> QED
    BY <2>1, <2>2, <2>4, <2>5, <2>6, <2>8, <2>9, ProcessStep
<1>3. CASE ~(Startable(record) \/ Restartable(record))
  <2>1. lock' = NoProc /\ Unstarted(p, "failed") /\ UNCHANGED <<record, issued>>
    BY <1>3 DEF ClaimGeneration
  <2> QED
    BY <1>1, <2>1, UnstartedStep
<1> QED
  BY <1>2, <1>3

(***************************************************************************)
(* Generation.                                                             *)
(***************************************************************************)
\* The holder of the lock goes on inside its generation, or stops.
LEMMA GenerationStep ==
    ASSUME GenerateInv, NEW p \in Procs, pc[p] \in InGeneration,
           NEW g \in InGeneration \cup {"stopping"}, NEW l \in Locals, Goes(p, g, l),
           UNCHANGED <<lock, record, request, inputs, issued>>,
           drafts' \in 0 .. Units, drafts = Units => drafts' = Units, raw' \in Nat,
           l.seen = me[p].seen, l.snap = me[p].snap, l.attempt = me[p].attempt,
           l.handoff = me[p].handoff, l.beat \in {me[p].beat, "off"},
           l.beat # "off" => g = pc[p],
           g \in PlanningStages => g = pc[p],
           g = "promoting" => drafts' = Units,
           g = "bundling" => g = pc[p],
           g = "bundled" => pc[p] \in {"bundling", "bundled"},
           me[p].handoff # "off" => g \in HandingOver
    PROVE  GenerateInv'
<1>1. Grows /\ DiskTypes /\ Draws(p, l) /\ SavesAs(l)
  BY Here DEF Grows, DiskTypes, Draws, SavesAs
<1>2. Locks(p, g) /\ g \in Labels
  BY Here DEF Locks, UnderLock, InGeneration, Labels
<1>3. SoundAfter(me[p].seen) /\ SoundAfter(me[p].snap) /\ SoundAfter(record')
  BY <1>1, Here, SoundStays
<1>4. g \notin Unclaimed /\ g \notin {"handoffSaving", "unstartedClaim", "rendering"}
  BY DEF InGeneration, Unclaimed
<1>5. PlaceAfter(g, l)
  BY <1>3, <1>4, Here DEF PlaceIsSafe, PlaceAfter, OwnCopy, Owned
<1> QED
  BY <1>1, <1>2, <1>3, <1>5, Here, ProcessStep

LEMMA StopGenerationStep ==
    ASSUME GenerateInv, NEW p \in Procs, pc[p] \in InGeneration,
           NEW how \in {"failed", "interrupted"}, StopGeneration(p, how),
           UNCHANGED <<lock, record, request, drafts, inputs, raw, issued>>
    PROVE  GenerateInv'
<1> DEFINE l == [me[p] EXCEPT !.beat = "off", !.stop = how]
<1>1. /\ l \in Locals /\ l.seen = me[p].seen /\ l.snap = me[p].snap
      /\ l.attempt = me[p].attempt /\ l.beat = "off" /\ l.handoff = me[p].handoff
  BY Here DEF Locals
<1>2. Goes(p, "stopping", l)
  BY DEF StopGeneration, Goes, Goto, GenerateInv, TypeOK
<1> HIDE DEF l
<1>3. drafts \in 0 .. Units /\ raw \in Nat /\ "stopping" \in HandingOver
  BY Here DEF HandingOver
<1>4. "stopping" \notin PlanningStages
  BY DEF PlanningStages
<1> QED
  BY <1>1, <1>2, <1>3, <1>4, GenerationStep

LEMMA StopsGeneratingStep ==
    ASSUME GenerateInv, NEW p \in Procs, StopsGenerating(p)
    PROVE  GenerateInv'
BY StopGenerationStep DEF StopsGenerating, bundle

LEMMA DraftUnitStep ==
    ASSUME GenerateInv, NEW p \in Procs, DraftUnit(p)
    PROVE  GenerateInv'
<1> DEFINE l == [me[p] EXCEPT !.drew = TRUE]
<1>1. /\ l \in Locals /\ l.seen = me[p].seen /\ l.snap = me[p].snap
      /\ l.attempt = me[p].attempt /\ l.beat = me[p].beat /\ l.handoff = me[p].handoff
  BY Here DEF Locals
<1>2. Goes(p, pc[p], l)
  BY DEF DraftUnit, Goes, GenerateInv, TypeOK
<1> HIDE DEF l
<1>3. /\ drafts' \in 0 .. Units /\ drafts # Units
      /\ raw' \in Nat /\ UNCHANGED <<lock, record, request, inputs, issued>>
  BY Here, UnitsAssumption DEF DraftUnit, bundle
<1>4. pc[p] \in {"planning", "drafting"} /\ pc[p] \in InGeneration
  BY DEF DraftUnit, InGeneration
<1>5. me[p].handoff = "off"
  BY <1>4, Here DEF PlaceIsSafe, HandingOver
<1> QED
  BY <1>1, <1>2, <1>3, <1>4, <1>5, GenerationStep

LEMMA EnterDraftingStep ==
    ASSUME GenerateInv, NEW p \in Procs, EnterDrafting(p)
    PROVE  GenerateInv'
<1>1. pc[p] = "planning" /\ UNCHANGED <<lock, request, drafts, inputs, raw, issued>>
  BY DEF EnterDrafting, bundle
<1>2. CASE Owned(p)
  <2> DEFINE b == Beat(record, "drafting", 0)
  <2>1. record' = b /\ Goto(p, "drafting") /\ UNCHANGED me
    BY <1>2 DEF EnterDrafting
  <2>2. /\ record.status = "running" /\ record.attempt = me[p].attempt
        /\ record.form \in {"fixture", "pending"}
    BY <1>1, <1>2, Here DEF Owned, PlaceIsSafe, PlanningStages
  <2>3. "drafting" \in RunStage /\ "drafting" \in PlanningStages
    BY DEF RunStage, PlanningStages
  <2>4. /\ b \in RunRecords /\ WellFormed(b) /\ b.status = "running"
        /\ b.attempt = record.attempt /\ b.form = record.form
    BY <2>2, <2>3, Here, BeatGood
  <2> HIDE DEF b
  <2>5. Grows /\ DiskTypes /\ Locks(p, "drafting") /\ "drafting" \in Labels
    BY <1>1, Here DEF Grows, DiskTypes, Locks, UnderLock, InGeneration, Labels
  <2>6. SoundAfter(me[p].seen) /\ SoundAfter(me[p].snap) /\ SoundAfter(b)
    BY <2>4, <2>5, Here, SoundStays DEF SoundAfter
  <2>7. PlaceAfter("drafting", me[p])
    BY <1>1, <2>1, <2>2, <2>4, <2>6, Here
    DEF PlaceIsSafe, PlaceAfter, Unclaimed, PlanningStages, HandingOver
  <2>8. Goes(p, "drafting", me[p]) /\ Draws(p, me[p]) /\ SavesAs(me[p])
    BY <2>1, <2>2, <2>4 DEF Goes, Goto, Draws, SavesAs, GenerateInv, TypeOK
  <2> QED
    BY <2>1, <2>4, <2>5, <2>6, <2>7, <2>8, Here, ProcessStep
<1>3. CASE ~Owned(p)
  BY <1>1, <1>3, StopGenerationStep DEF EnterDrafting, InGeneration
<1> QED
  BY <1>2, <1>3

LEMMA FinishDraftsStep ==
    ASSUME GenerateInv, NEW p \in Procs, FinishDrafts(p)
    PROVE  GenerateInv'
<1>1. /\ pc[p] = "drafting" /\ pc[p] \in InGeneration /\ drafts = Units
      /\ UNCHANGED <<lock, record, request, drafts, inputs, raw, issued>>
  BY DEF FinishDrafts, bundle, InGeneration
<1>2. CASE me[p].beat = "dead"
  BY <1>1, <1>2, StopGenerationStep DEF FinishDrafts
<1>3. CASE me[p].beat # "dead"
  <2> DEFINE l == [me[p] EXCEPT !.beat = "off"]
  <2>1. /\ l \in Locals /\ l.seen = me[p].seen /\ l.snap = me[p].snap
        /\ l.attempt = me[p].attempt /\ l.beat = "off" /\ l.handoff = me[p].handoff
    BY Here DEF Locals
  <2>2. Goes(p, "promoting", l)
    BY <1>3 DEF FinishDrafts, Goes, Goto, GenerateInv, TypeOK
  <2> HIDE DEF l
  <2>3. me[p].handoff = "off"
    BY <1>1, Here DEF PlaceIsSafe, HandingOver
  <2>4. "promoting" \in InGeneration /\ "promoting" \notin PlanningStages
    BY DEF InGeneration, PlanningStages
  <2> QED
    BY <1>1, <2>1, <2>2, <2>3, <2>4, Here, GenerationStep
<1> QED
  BY <1>2, <1>3

LEMMA BeginPromotionStep ==
    ASSUME GenerateInv, NEW p \in Procs, BeginPromotion(p)
    PROVE  GenerateInv'
<1>1. /\ pc[p] = "promoting" /\ pc[p] \in InGeneration
      /\ UNCHANGED <<lock, record, request, drafts, raw, issued>>
  BY DEF BeginPromotion, InGeneration
<1>2. CASE StopGeneration(p, "failed") /\ UNCHANGED inputs
  BY <1>1, <1>2, StopGenerationStep
<1>3. CASE ~(StopGeneration(p, "failed") /\ UNCHANGED inputs)
  <2> DEFINE l == [me[p] EXCEPT !.seen = record]
  <2>1. /\ Owned(p) /\ record.form = "pending" /\ inputs' = TRUE
        /\ me' = [me EXCEPT ![p].seen = record] /\ Goto(p, "bundling")
    BY <1>3 DEF BeginPromotion
  <2>2. /\ l \in Locals /\ l.seen = record /\ l.snap = me[p].snap
        /\ l.attempt = me[p].attempt /\ l.beat = me[p].beat /\ l.handoff = me[p].handoff
    BY Here DEF Locals
  <2>3. Goes(p, "bundling", l)
    BY <2>1 DEF Goes, Goto, GenerateInv, TypeOK
  <2> HIDE DEF l
  <2>4. Grows /\ DiskTypes /\ Locks(p, "bundling") /\ "bundling" \in Labels
    BY <1>1, <2>1, Here DEF Grows, DiskTypes, Locks, UnderLock, InGeneration, Labels
  <2>5. SoundAfter(record) /\ SoundAfter(me[p].snap)
    BY <2>4, Here, SoundStays
  <2>6. Draws(p, l) /\ SavesAs(l)
    BY <1>1, <2>2 DEF Draws, SavesAs
  <2>7. PlaceAfter("bundling", l)
    BY <1>1, <2>1, <2>2, <2>5, Here
    DEF PlaceIsSafe, PlaceAfter, Owned, Unclaimed, PlanningStages, HandingOver
  <2> QED
    BY <1>1, <2>2, <2>3, <2>4, <2>5, <2>6, <2>7, Here, ProcessStep
<1> QED
  BY <1>2, <1>3

LEMMA WriteRawOutputStep ==
    ASSUME GenerateInv, NEW p \in Procs, WriteRawOutput(p)
    PROVE  GenerateInv'
<1>1. /\ pc[p] = "bundling" /\ pc[p] \in InGeneration /\ "bundled" \in InGeneration
      /\ UNCHANGED <<lock, record, request, drafts, inputs, issued>> /\ raw' \in Nat
  BY Here DEF WriteRawOutput, InGeneration
<1>2. Goes(p, "bundled", me[p])
  BY DEF WriteRawOutput, Goes, Goto, GenerateInv, TypeOK
<1>3. me[p].handoff = "off" /\ me[p].beat = "off" /\ "bundled" \notin PlanningStages
  BY <1>1, Here DEF PlaceIsSafe, HandingOver, PlanningStages
<1> QED
  BY <1>1, <1>2, <1>3, Here, GenerationStep

\* The commit marker: what the record refers to is on disk by now.
LEMMA CommitPromotionStep ==
    ASSUME GenerateInv, NEW p \in Procs, CommitPromotion(p)
    PROVE  GenerateInv'
<1> DEFINE r == me[p].seen
           b == [Beat(r, "compiling", 0) EXCEPT !.form = "generated"]
           l == [me[p] EXCEPT !.handoff = "on", !.seen = NoRecord]
<1>1. /\ pc[p] = "bundled" /\ record' = b /\ Goto(p, "promoted")
      /\ me' = [me EXCEPT ![p].handoff = "on", ![p].seen = NoRecord]
      /\ UNCHANGED <<lock, request, drafts, inputs, raw, issued>>
  BY DEF CommitPromotion, bundle
<1>2. /\ r \in RunRecords /\ WellFormed(r) /\ r.status = "running" /\ r.form = "pending"
      /\ r.attempt = me[p].attempt /\ request /\ inputs /\ drafts = Units
      /\ r.attempt # 0 /\ r.attempt <= issued
  BY <1>1, Here DEF PlaceIsSafe, OwnCopy, Sound, Backed, WellFormed, ValidRecord,
     ValidOwnership, ValidExecution, IsActive
<1>3. /\ b \in RunRecords /\ WellFormed(b) /\ b.status = "running"
      /\ b.attempt = r.attempt /\ b.form = "generated"
  BY <1>2, PromotedGood
<1>4. /\ l \in Locals /\ l.seen = NoRecord /\ l.snap = me[p].snap
      /\ l.attempt = me[p].attempt /\ l.beat = me[p].beat /\ l.handoff = "on"
  BY NewLocalType, Here DEF Locals
<1>5. Goes(p, "promoted", l)
  BY <1>1 DEF Goes, Goto, GenerateInv, TypeOK
<1> HIDE DEF b, l, r
<1>6. Grows /\ DiskTypes /\ Locks(p, "promoted") /\ "promoted" \in Labels
  BY <1>1, Here DEF Grows, DiskTypes, Locks, UnderLock, InGeneration, Labels
<1>7. SoundAfter(b) /\ SoundAfter(NoRecord) /\ SoundAfter(me[p].snap)
  BY <1>1, <1>2, <1>3, <1>6, NewLocalType, Here, SoundStays DEF SoundAfter
<1>8. PlaceAfter("promoted", l)
  BY <1>1, <1>4, <1>7, Here
  DEF PlaceIsSafe, PlaceAfter, Unclaimed, PlanningStages, HandingOver
<1>9. Draws(p, l) /\ SavesAs(l)
  BY <1>1, <1>2, <1>3, <1>4 DEF Draws, SavesAs
<1> QED
  BY <1>1, <1>3, <1>4, <1>5, <1>6, <1>7, <1>8, <1>9, ProcessStep

\* A step that moves p only, its locals kept.
LEMMA LabelStep ==
    ASSUME GenerateInv, NEW p \in Procs, NEW g \in Labels, Goto(p, g), Locks(p, g),
           UNCHANGED <<record, request, drafts, inputs, raw, issued, me>>,
           g \notin Unclaimed \cup PlanningStages,
           g \notin {"promoting", "bundling", "bundled", "handoffSaving", "unstartedClaim",
                     "rendering"},
           me[p].beat = "off", me[p].handoff # "off" => g \in HandingOver
    PROVE  GenerateInv'
<1>1. Grows
  BY Here DEF Grows
<1>2. SoundAfter(me[p].seen) /\ SoundAfter(me[p].snap)
  BY <1>1, Here, SoundStays
<1>3. PlaceAfter(g, me[p])
  BY <1>2, Here DEF PlaceIsSafe, PlaceAfter, OwnCopy
<1>4. Goes(p, g, me[p])
  BY DEF Goes, Goto, GenerateInv, TypeOK
<1> QED
  BY <1>3, <1>4, Here, PrivateStep

LEMMA LeaveGenerationStep ==
    ASSUME GenerateInv, NEW p \in Procs, LeaveGeneration(p)
    PROVE  GenerateInv'
<1>1. /\ pc[p] = "promoted" /\ lock' = NoProc /\ Goto(p, "handoff")
      /\ UNCHANGED <<record, request, drafts, inputs, raw, issued, me>>
  BY DEF LeaveGeneration, bundle
<1>2. /\ "handoff" \in Labels /\ Locks(p, "handoff") /\ "handoff" \in HandingOver
      /\ "handoff" \notin Unclaimed \cup PlanningStages
  BY <1>1, Here DEF Labels, Locks, UnderLock, InGeneration, HandingOver, Unclaimed, PlanningStages
<1>3. me[p].beat = "off"
  BY <1>1, Here DEF PlaceIsSafe, PlanningStages
<1> QED
  BY <1>1, <1>2, <1>3, LabelStep

\* A process fails or interrupts the attempt that is its own, or nobody's.
LEMMA StopSound ==
    ASSUME GenerateInv, NEW p \in Procs, Grows,
           record' = IF Owned(p) THEN Stopping(record, me[p].stop) ELSE record
    PROVE  record' \in RunRecords /\ SoundAfter(record') /\ \A l \in Locals : SavesAs(l)
<1>1. me[p].stop \in {"failed", "interrupted"}
  BY Here DEF Locals
<1>2. SoundAfter(record)
  BY Here, SoundStays
<1>3. CASE Owned(p)
  <2>1. record.status = "running"
    BY <1>3 DEF Owned
  <2> QED
    BY <1>1, <1>2, <1>3, <2>1, Here, StoppingGood DEF SoundAfter, SavesAs
<1>4. CASE ~Owned(p)
  BY <1>2, <1>4, Here DEF SavesAs
<1> QED
  BY <1>3, <1>4

LEMMA SettleGenerationStep ==
    ASSUME GenerateInv, NEW p \in Procs, SettleGeneration(p)
    PROVE  GenerateInv'
<1>1. /\ pc[p] = "stopping" /\ lock' = NoProc /\ Goto(p, "unwinding")
      /\ record' = IF Owned(p) THEN Stopping(record, me[p].stop) ELSE record
      /\ UNCHANGED <<request, drafts, inputs, raw, issued, me>>
  BY DEF SettleGeneration, bundle
<1>2. Grows /\ DiskTypes /\ Locks(p, "unwinding") /\ "unwinding" \in Labels
  BY <1>1, Here DEF Grows, DiskTypes, Locks, UnderLock, InGeneration, Labels
<1>3. record' \in RunRecords /\ SoundAfter(record') /\ SavesAs(me[p])
  BY <1>1, <1>2, Here, StopSound
<1>4. SoundAfter(me[p].seen) /\ SoundAfter(me[p].snap)
  BY <1>2, Here, SoundStays
<1>5. PlaceAfter("unwinding", me[p])
  BY <1>1, <1>4, Here DEF PlaceIsSafe, PlaceAfter, OwnCopy, Unclaimed, PlanningStages, HandingOver
<1>6. Goes(p, "unwinding", me[p]) /\ Draws(p, me[p])
  BY <1>1 DEF Goes, Goto, Draws, GenerateInv, TypeOK
<1> QED
  BY <1>1, <1>2, <1>3, <1>5, <1>6, Here, ProcessStep

(***************************************************************************)
(* Handoff.                                                                *)
(***************************************************************************)
\* Only the stop and the handoff's heartbeat change.
LEMMA HandoffStep ==
    ASSUME GenerateInv, NEW p \in Procs, NEW g \in {"joining", "handoffStopping", "unstarted"},
           NEW l \in Locals, Goes(p, g, l), pc[p] \in {"handoff", "joining", "unwinding"},
           l.seen = me[p].seen, l.snap = me[p].snap, l.attempt = me[p].attempt,
           l.beat = me[p].beat, l.handoff \in {me[p].handoff, "off"},
           l.handoff # "off" => g \in HandingOver,
           UNCHANGED <<lock, record, request, drafts, inputs, raw, issued>>
    PROVE  GenerateInv'
<1>1. Grows /\ g \in Labels /\ Locks(p, g) /\ g \notin Unclaimed /\ g \notin PlanningStages
  BY Here DEF Grows, Labels, Locks, UnderLock, InGeneration, Unclaimed, PlanningStages
<1>2. SoundAfter(me[p].seen) /\ SoundAfter(me[p].snap)
  BY <1>1, Here, SoundStays
<1>3. PlaceAfter(g, l)
  BY <1>1, <1>2, Here DEF PlaceIsSafe, PlaceAfter, OwnCopy, PlanningStages
<1> QED
  BY <1>1, <1>3, Here, PrivateStep

LEMMA BuildWorkerStep ==
    ASSUME GenerateInv, NEW p \in Procs, BuildWorker(p)
    PROVE  GenerateInv'
<1>1. pc[p] = "handoff" /\ UNCHANGED <<lock, record, request, drafts, inputs, raw, issued>>
  BY DEF BuildWorker, bundle
<1>2. CASE me' = [me EXCEPT ![p].handoff = "off"] /\ Goto(p, "joining")
  <2> DEFINE l == [me[p] EXCEPT !.handoff = "off"]
  <2>1. /\ l \in Locals /\ l.seen = me[p].seen /\ l.snap = me[p].snap
        /\ l.attempt = me[p].attempt /\ l.beat = me[p].beat /\ l.handoff = "off"
    BY Here DEF Locals
  <2>2. Goes(p, "joining", l)
    BY <1>2 DEF Goes, Goto, GenerateInv, TypeOK
  <2> HIDE DEF l
  <2> QED
    BY <1>1, <2>1, <2>2, HandoffStep
<1>3. CASE \E how \in {"failed", "interrupted"} :
              me' = [me EXCEPT ![p].stop = how] /\ Goto(p, "handoffStopping")
  <2>1. PICK how \in {"failed", "interrupted"} :
            me' = [me EXCEPT ![p].stop = how] /\ Goto(p, "handoffStopping")
    BY <1>3
  <2> DEFINE l == [me[p] EXCEPT !.stop = how]
  <2>2. /\ l \in Locals /\ l.seen = me[p].seen /\ l.snap = me[p].snap
        /\ l.attempt = me[p].attempt /\ l.beat = me[p].beat /\ l.handoff = me[p].handoff
    BY Here DEF Locals
  <2>3. Goes(p, "handoffStopping", l)
    BY <2>1 DEF Goes, Goto, GenerateInv, TypeOK
  <2> HIDE DEF l
  <2> QED
    BY <1>1, <2>2, <2>3, HandoffStep DEF HandingOver
<1> QED
  BY <1>2, <1>3 DEF BuildWorker

LEMMA UnwindStep ==
    ASSUME GenerateInv, NEW p \in Procs, Unwind(p)
    PROVE  GenerateInv'
<1> DEFINE l == [me[p] EXCEPT !.handoff = "off"]
<1>1. /\ l \in Locals /\ l.seen = me[p].seen /\ l.snap = me[p].snap
      /\ l.attempt = me[p].attempt /\ l.beat = me[p].beat /\ l.handoff = "off"
  BY Here DEF Locals
<1>2. Goes(p, "unstarted", l)
  BY DEF Unwind, Goes, Goto, GenerateInv, TypeOK
<1> HIDE DEF l
<1>3. pc[p] = "unwinding" /\ UNCHANGED <<lock, record, request, drafts, inputs, raw, issued>>
  BY DEF Unwind, bundle
<1> QED
  BY <1>1, <1>2, <1>3, HandoffStep

\* A worker claims the run it has the lock of; r is the record it claims.
LEMMA RenderingClaim ==
    ASSUME GenerateInv, NEW p \in Procs, pc[p] \in {"joining", "ready"}, lock = NoProc,
           NEW r \in RunRecords, SoundAfter(r), r.form # "pending",
           lock' = p, record' = Claimed(r, issued + 1, p, "compiling"), issued' = issued + 1,
           me' = [me EXCEPT ![p].seen = record', ![p].attempt = issued + 1],
           Goto(p, "rendering"), UNCHANGED <<request, drafts, inputs, raw>>
    PROVE  GenerateInv'
<1> DEFINE c == Claimed(r, issued + 1, p, "compiling")
           l == [me[p] EXCEPT !.seen = c, !.attempt = issued + 1]
<1>1. /\ c \in RunRecords /\ SoundAfter(c) /\ c.status = "running" /\ c.attempt = issued + 1
      /\ c.attempt # 0 /\ c.form # "pending" /\ c.stage = "compiling"
  BY ClaimSound
<1>2. /\ l \in Locals /\ l.seen = c /\ l.snap = me[p].snap
      /\ l.attempt = issued + 1 /\ l.beat = me[p].beat /\ l.handoff = me[p].handoff
  <2>1. me[p] \in Locals /\ issued + 1 \in Nat
    BY Here
  <2> QED
    BY <1>1, <2>1 DEF Locals
<1>3. Goes(p, "rendering", l)
  BY DEF Goes, Goto, GenerateInv, TypeOK
<1> HIDE DEF c, l
<1>4. record' = c
  BY DEF c
<1>5. Grows /\ DiskTypes /\ Locks(p, "rendering") /\ "rendering" \in Labels
  BY Here DEF Grows, DiskTypes, Locks, UnderLock, InGeneration, Labels
<1>6. SoundAfter(me[p].snap)
  BY <1>5, Here, SoundStays
<1>7. me[p].beat = "off" /\ me[p].handoff = "off"
  BY Here DEF PlaceIsSafe, PlanningStages, HandingOver
<1>8. PlaceAfter("rendering", l)
  BY <1>1, <1>2, <1>6, <1>7, Here DEF PlaceAfter, Unclaimed, PlanningStages
<1>9. Draws(p, l) /\ SavesAs(l)
  BY <1>1, <1>2, <1>4 DEF Draws, SavesAs
<1> QED
  BY <1>1, <1>2, <1>3, <1>4, <1>5, <1>8, <1>9, ProcessStep

LEMMA ContinueStep ==
    ASSUME GenerateInv, NEW p \in Procs, Continue(p)
    PROVE  GenerateInv'
<1>1. pc[p] = "joining" /\ UNCHANGED <<request, drafts, inputs, raw>>
  BY DEF Continue, bundle
<1>2. CASE lock = NoProc /\ Owned(p) /\ record.form = "generated" /\ record.stage = "compiling"
  <2>1. /\ lock' = p /\ record' = Claimed(record, issued + 1, p, "compiling")
        /\ issued' = issued + 1
        /\ me' = [me EXCEPT ![p].seen = record', ![p].attempt = issued + 1]
        /\ Goto(p, "rendering") /\ lock = NoProc /\ record.form # "pending"
    BY <1>2 DEF Continue
  <2>2. Grows
    BY <1>1, <2>1 DEF Grows
  <2>3. record \in RunRecords /\ SoundAfter(record)
    BY <2>2, Here, SoundStays
  <2> QED
    BY <1>1, <2>1, <2>3, RenderingClaim
<1>3. CASE ~(lock = NoProc /\ Owned(p) /\ record.form = "generated" /\ record.stage = "compiling")
  <2> DEFINE l == [me[p] EXCEPT !.stop = "failed"]
  <2>1. /\ l \in Locals /\ l.seen = me[p].seen /\ l.snap = me[p].snap
        /\ l.attempt = me[p].attempt /\ l.beat = me[p].beat /\ l.handoff = me[p].handoff
    BY Here DEF Locals
  <2>2. Goes(p, "handoffStopping", l) /\ UNCHANGED <<lock, record, issued>>
    BY <1>3 DEF Continue, Goes, Goto, GenerateInv, TypeOK
  <2> HIDE DEF l
  <2> QED
    BY <1>1, <2>1, <2>2, HandoffStep DEF HandingOver
<1> QED
  BY <1>2, <1>3

LEMMA ReadForHandoffStopStep ==
    ASSUME GenerateInv, NEW p \in Procs, ReadForHandoffStop(p)
    PROVE  GenerateInv'
<1>1. /\ pc[p] = "handoffStopping"
      /\ UNCHANGED <<lock, record, request, drafts, inputs, raw, issued>>
  BY DEF ReadForHandoffStop, bundle
<1>2. Grows /\ lock # p
  BY <1>1, Here DEF Grows, UnderLock, InGeneration
<1>3. me[p].beat = "off"
  BY <1>1, Here DEF PlaceIsSafe, PlanningStages
<1>4. CASE Owned(p)
  <2> DEFINE l == [me[p] EXCEPT !.seen = record]
  <2>1. /\ l \in Locals /\ l.seen = record /\ l.snap = me[p].snap
        /\ l.attempt = me[p].attempt /\ l.beat = me[p].beat /\ l.handoff = me[p].handoff
    BY Here DEF Locals
  <2>2. Goes(p, "handoffSaving", l)
    BY <1>4 DEF ReadForHandoffStop, Goes, Goto, GenerateInv, TypeOK
  <2> HIDE DEF l
  <2>3. SoundAfter(record) /\ SoundAfter(me[p].snap)
    BY <1>2, Here, SoundStays
  <2>4. "handoffSaving" \in Labels /\ Locks(p, "handoffSaving")
    BY <1>1, <1>2 DEF Labels, Locks, UnderLock, InGeneration
  <2>5. PlaceAfter("handoffSaving", l)
    BY <1>1, <1>3, <1>4, <2>1, <2>3, Here
    DEF PlaceIsSafe, PlaceAfter, Owned, OwnCopy, Unclaimed, PlanningStages, HandingOver
  <2> QED
    BY <1>1, <2>1, <2>2, <2>4, <2>5, PrivateStep
<1>5. CASE ~Owned(p)
  <2>1. Goto(p, "unwinding") /\ UNCHANGED me
    BY <1>5 DEF ReadForHandoffStop
  <2>2. /\ "unwinding" \in Labels /\ Locks(p, "unwinding") /\ "unwinding" \in HandingOver
        /\ "unwinding" \notin Unclaimed \cup PlanningStages
    BY <1>1, <1>2 DEF Labels, Locks, UnderLock, InGeneration, HandingOver, Unclaimed, PlanningStages
  <2> QED
    BY <1>1, <1>3, <2>1, <2>2, LabelStep
<1> QED
  BY <1>4, <1>5

LEMMA SaveHandoffStopStep ==
    ASSUME GenerateInv, NEW p \in Procs, SaveHandoffStop(p)
    PROVE  GenerateInv'
<1> DEFINE l == [me[p] EXCEPT !.seen = NoRecord]
<1>1. /\ pc[p] = "handoffSaving" /\ Goto(p, "unwinding")
      /\ record' = Stopping(me[p].seen, me[p].stop) /\ me' = [me EXCEPT ![p].seen = NoRecord]
      /\ UNCHANGED <<lock, request, drafts, inputs, raw, issued>>
  BY DEF SaveHandoffStop, bundle
<1>2. Grows /\ DiskTypes /\ Locks(p, "unwinding") /\ "unwinding" \in Labels
  BY <1>1, Here DEF Grows, DiskTypes, Locks, UnderLock, InGeneration, Labels
<1>3. SoundAfter(me[p].seen) /\ SoundAfter(me[p].snap) /\ SoundAfter(NoRecord)
  BY <1>1, <1>2, Here, SoundStays, NewLocalType DEF SoundAfter
<1>4. me[p].seen.status = "running" /\ me[p].stop \in {"failed", "interrupted"}
  BY <1>1, Here DEF PlaceIsSafe, OwnCopy, Locals
<1>5. record' \in RunRecords /\ SoundAfter(record') /\ record'.status # "running"
  BY <1>1, <1>3, <1>4, Here, StoppingGood DEF SoundAfter
<1>6. /\ l \in Locals /\ l.seen = NoRecord /\ l.snap = me[p].snap
      /\ l.attempt = me[p].attempt /\ l.beat = me[p].beat /\ l.handoff = me[p].handoff
  BY NewLocalType, Here DEF Locals
<1>7. Goes(p, "unwinding", l)
  BY <1>1 DEF Goes, Goto, GenerateInv, TypeOK
<1> HIDE DEF l
<1>8. PlaceAfter("unwinding", l)
  BY <1>1, <1>3, <1>6, Here
  DEF PlaceIsSafe, PlaceAfter, OwnCopy, Unclaimed, PlanningStages, HandingOver
<1>9. Draws(p, l) /\ SavesAs(l)
  BY <1>5, <1>6 DEF Draws, SavesAs
<1> QED
  BY <1>2, <1>5, <1>6, <1>7, <1>8, <1>9, ProcessStep

(***************************************************************************)
(* The outermost handlers.                                                 *)
(***************************************************************************)
LEMMA ReadForUnstartedStep ==
    ASSUME GenerateInv, NEW p \in Procs, ReadForUnstarted(p)
    PROVE  GenerateInv'
<1>1. /\ pc[p] = "unstarted" /\ UNCHANGED <<lock, record, request, drafts, inputs, raw, issued>>
  BY DEF ReadForUnstarted, bundle
<1>2. Grows /\ lock # p
  BY <1>1, Here DEF Grows, UnderLock, InGeneration
<1>3. CASE Startable(record)
  <2> DEFINE l == [me[p] EXCEPT !.seen = record]
  <2>1. /\ l \in Locals /\ l.seen = record /\ l.snap = me[p].snap
        /\ l.attempt = me[p].attempt /\ l.beat = me[p].beat /\ l.handoff = me[p].handoff
    BY Here DEF Locals
  <2>2. Goes(p, "unstartedClaim", l)
    BY <1>3 DEF ReadForUnstarted, Goes, Goto, GenerateInv, TypeOK
  <2> HIDE DEF l
  <2>3. SoundAfter(record) /\ SoundAfter(me[p].snap)
    BY <1>2, Here, SoundStays
  <2>4. "unstartedClaim" \in Labels /\ Locks(p, "unstartedClaim")
    BY <1>1, <1>2 DEF Labels, Locks, UnderLock, InGeneration
  <2>5. record.status = "queued" /\ record.form \in {"fixture", "pending"}
    BY <1>3 DEF Startable, Promotable
  <2>6. PlaceAfter("unstartedClaim", l)
    BY <1>1, <2>1, <2>3, <2>5, Here
    DEF PlaceIsSafe, PlaceAfter, OwnCopy, Unclaimed, PlanningStages, HandingOver
  <2> QED
    BY <1>1, <2>1, <2>2, <2>4, <2>6, PrivateStep
<1>4. CASE ~Startable(record)
  <2>1. Exit(p)
    BY <1>4 DEF ReadForUnstarted
  <2> QED
    BY <1>1, <1>2, <2>1, LeavingStep
<1> QED
  BY <1>3, <1>4

LEMMA ClaimUnstartedStep ==
    ASSUME GenerateInv, NEW p \in Procs, ClaimUnstarted(p)
    PROVE  GenerateInv'
<1> DEFINE r == me[p].seen
           c == Claimed(r, issued + 1, p, "planning")
           l == [me[p] EXCEPT !.attempt = issued + 1, !.seen = NoRecord]
<1>1. /\ pc[p] = "unstartedClaim" /\ record' = c /\ issued' = issued + 1
      /\ me' = [me EXCEPT ![p].attempt = issued + 1, ![p].seen = NoRecord]
      /\ Goto(p, "unstartedSettle") /\ UNCHANGED <<lock, request, drafts, inputs, raw>>
  BY DEF ClaimUnstarted, bundle
<1>2. Grows /\ DiskTypes /\ Locks(p, "unstartedSettle") /\ "unstartedSettle" \in Labels
  BY <1>1, Here DEF Grows, DiskTypes, Locks, UnderLock, InGeneration, Labels
<1>3. SoundAfter(r) /\ SoundAfter(me[p].snap) /\ SoundAfter(NoRecord)
  <2>1. issued' \in Nat /\ 0 <= issued'
    BY <1>1, Here
  <2> QED
    BY <1>2, <2>1, Here, SoundStays, NewLocalType DEF SoundAfter
<1>4. r \in RunRecords /\ r.form \in {"fixture", "pending"}
  BY <1>1, Here DEF PlaceIsSafe
<1>5. /\ c \in RunRecords /\ SoundAfter(c) /\ c.status = "running"
      /\ c.attempt = issued + 1 /\ c.attempt # 0
  BY <1>1, <1>3, <1>4, ClaimSound
<1>6. /\ l \in Locals /\ l.seen = NoRecord /\ l.snap = me[p].snap
      /\ l.attempt = issued + 1 /\ l.beat = me[p].beat /\ l.handoff = me[p].handoff
  <2>1. me[p] \in Locals /\ issued + 1 \in Nat
    BY Here
  <2> QED
    BY <2>1, NewLocalType DEF Locals
<1>7. Goes(p, "unstartedSettle", l)
  BY <1>1 DEF Goes, Goto, GenerateInv, TypeOK
<1> HIDE DEF r, c, l
<1>8. me[p].handoff = "off" /\ me[p].beat = "off"
  BY <1>1, Here DEF PlaceIsSafe, PlanningStages, HandingOver
<1>9. PlaceAfter("unstartedSettle", l)
  BY <1>1, <1>3, <1>6, <1>8, Here DEF PlaceAfter, Unclaimed, PlanningStages
<1>10. Draws(p, l) /\ SavesAs(l)
  BY <1>1, <1>5, <1>6 DEF Draws, SavesAs
<1> QED
  BY <1>1, <1>2, <1>5, <1>6, <1>7, <1>9, <1>10, ProcessStep

LEMMA SettleUnstartedStep ==
    ASSUME GenerateInv, NEW p \in Procs, SettleUnstarted(p)
    PROVE  GenerateInv'
<1>1. /\ pc[p] = "unstartedSettle" /\ Exit(p)
      /\ record' = IF Owned(p) THEN Stopping(record, me[p].stop) ELSE record
      /\ UNCHANGED <<lock, request, drafts, inputs, raw, issued>>
  BY DEF SettleUnstarted, bundle
<1>2. Grows /\ DiskTypes /\ Locks(p, "idle") /\ issued' \in Nat
  BY <1>1, Here DEF Grows, DiskTypes, Locks, UnderLock, InGeneration
<1>3. record' \in RunRecords /\ SoundAfter(record') /\ SavesAs(NewLocal)
  BY <1>1, <1>2, NewLocalType, StopSound
<1>4. Draws(p, NewLocal)
  BY DEF Draws, NewLocal
<1> QED
  BY <1>1, <1>2, <1>3, <1>4, ExitFacts, NewLocalType, ProcessStep

(***************************************************************************)
(* The audio worker.                                                       *)
(***************************************************************************)
LEMMA TakeRunStep ==
    ASSUME GenerateInv, NEW p \in Procs, TakeRun(p)
    PROVE  GenerateInv'
<1> DEFINE r == IF me[p].command = "resume" THEN Reconciled(record) ELSE record
           buildable == me[p].seen.form = "fixture" \/ inputs
<1>1. /\ pc[p] = "ready" /\ UNCHANGED <<request, drafts, inputs, raw>> /\ lock # p
      /\ issued' \in {issued, issued + 1}
  BY Here DEF TakeRun, bundle, UnderLock, InGeneration
<1>2. Grows /\ DiskTypes
  BY <1>1, Here DEF Grows, DiskTypes
<1>3. r \in RunRecords /\ SoundAfter(r) /\ (r = record \/ r.status # "running")
  <2>1. record \in RunRecords /\ SoundAfter(record)
    BY <1>2, Here, SoundStays
  <2> QED
    BY <1>2, <2>1, ReconciledSound
<1> HIDE DEF r, buildable
<1>4. CASE ~(lock = NoProc /\ buildable)
  <2>1. Exit(p) /\ UNCHANGED <<lock, record, issued>>
    BY <1>4 DEF TakeRun, r, buildable
  <2> QED
    BY <1>1, <2>1, LeavingStep
<1>5. CASE lock = NoProc /\ buildable /\ Claimable(me[p].command, r) /\ r.form # "pending"
  <2>1. /\ lock' = p /\ record' = Claimed(r, issued + 1, p, "compiling") /\ issued' = issued + 1
        /\ me' = [me EXCEPT ![p].seen = record', ![p].attempt = issued + 1]
        /\ Goto(p, "rendering")
    BY <1>5 DEF TakeRun, r, buildable
  <2> QED
    BY <1>1, <1>3, <1>5, <2>1, RenderingClaim
<1>6. CASE lock = NoProc /\ buildable /\ ~(Claimable(me[p].command, r) /\ r.form # "pending")
  <2>1. record' = r /\ Exit(p) /\ UNCHANGED <<lock, issued>>
    BY <1>6 DEF TakeRun, r, buildable
  <2>2. Locks(p, "idle") /\ Draws(p, NewLocal) /\ SavesAs(NewLocal) /\ issued' \in Nat
    BY <1>1, <1>3, <2>1, Here DEF Locks, UnderLock, InGeneration, Draws, SavesAs, NewLocal
  <2> QED
    BY <1>2, <1>3, <2>1, <2>2, ExitFacts, NewLocalType, ProcessStep
<1> QED
  BY <1>4, <1>5, <1>6

LEMMA SaveRenderingStep ==
    ASSUME GenerateInv, NEW p \in Procs, SaveRendering(p)
    PROVE  GenerateInv'
<1> DEFINE r == me[p].seen
           b == [Beat(r, "synthesizing", 0) EXCEPT !.total = SpeechCount]
           l == [me[p] EXCEPT !.seen = b]
<1>1. /\ pc[p] = "rendering" /\ record' = b /\ me' = [me EXCEPT ![p].seen = record']
      /\ UNCHANGED <<lock, request, drafts, inputs, raw, issued, pc>>
  BY DEF SaveRendering, bundle
<1>2. Grows /\ DiskTypes /\ Locks(p, "rendering") /\ "rendering" \in Labels
  BY <1>1, Here DEF Grows, DiskTypes, Locks, Labels
<1>3. /\ r \in RunRecords /\ WellFormed(r) /\ r.status = "running" /\ r.form # "pending"
      /\ r.attempt = me[p].attempt /\ r.attempt # 0
  BY <1>1, Here DEF PlaceIsSafe, OwnCopy, Sound, WellFormed, ValidRecord,
     ValidOwnership, ValidExecution, IsActive
<1>4. SoundAfter(r) /\ SoundAfter(me[p].snap)
  BY <1>2, Here, SoundStays
<1>5. /\ b \in RunRecords /\ WellFormed(b) /\ b.status = "running"
      /\ b.attempt = r.attempt /\ b.form = r.form /\ b.total = SpeechCount
  BY <1>3, SynthesizingGood
<1>6. /\ l \in Locals /\ l.seen = b /\ l.snap = me[p].snap
      /\ l.attempt = me[p].attempt /\ l.beat = me[p].beat /\ l.handoff = me[p].handoff
  BY <1>5, Here DEF Locals
<1>7. Goes(p, "rendering", l)
  BY <1>1 DEF Goes, GenerateInv, TypeOK
<1> HIDE DEF r, b, l
<1>8. SoundAfter(b)
  BY <1>4, <1>5 DEF SoundAfter
<1>9. me[p].handoff = "off" /\ me[p].beat = "off"
  BY <1>1, Here DEF PlaceIsSafe, PlanningStages, HandingOver
<1>10. PlaceAfter("rendering", l)
  BY <1>1, <1>2, <1>3, <1>4, <1>5, <1>6, <1>8, <1>9, Here
  DEF PlaceAfter, Unclaimed, PlanningStages, Grows
<1>11. Draws(p, l) /\ SavesAs(l)
  BY <1>1, <1>3, <1>5, <1>6 DEF Draws, SavesAs
<1> QED
  BY <1>1, <1>2, <1>5, <1>6, <1>7, <1>8, <1>10, <1>11, ProcessStep

LEMMA FinishRenderingStep ==
    ASSUME GenerateInv, NEW p \in Procs, FinishRendering(p)
    PROVE  GenerateInv'
<1> DEFINE r == me[p].seen
<1>1. /\ pc[p] = "rendering" /\ Goto(p, "settled")
      /\ UNCHANGED <<lock, request, drafts, inputs, raw, issued, me>>
  BY DEF FinishRendering, bundle
<1>2. Grows /\ DiskTypes /\ Locks(p, "settled") /\ "settled" \in Labels
  BY <1>1, Here DEF Grows, DiskTypes, Locks, UnderLock, InGeneration, Labels
<1>3. /\ r \in RunRecords /\ WellFormed(r) /\ r.status = "running" /\ r.form # "pending"
      /\ r.stage = "synthesizing" => r.total = SpeechCount
  BY <1>1, Here DEF PlaceIsSafe, OwnCopy, Sound
<1>4. SoundAfter(r) /\ SoundAfter(me[p].snap)
  BY <1>2, Here, SoundStays
<1>5. record' \in RunRecords /\ SoundAfter(record') /\ record'.status # "running"
  <2>1. CASE /\ r.stage = "synthesizing"
             /\ record' = [Finished(r, "completed", "completed", 0, "none")
                             EXCEPT !.completed = SpeechCount]
    BY <1>3, <1>4, <2>1, CompletedGood DEF SoundAfter
  <2>2. CASE \E how \in {"failed", "interrupted"} : record' = Stopping(r, how)
    BY <1>3, <1>4, <2>2, StoppingGood DEF SoundAfter
  <2> QED
    BY <2>1, <2>2 DEF FinishRendering
<1> HIDE DEF r
<1>6. PlaceAfter("settled", me[p])
  BY <1>1, <1>4, Here
  DEF PlaceIsSafe, PlaceAfter, OwnCopy, Unclaimed, PlanningStages, HandingOver, r
<1>7. Goes(p, "settled", me[p]) /\ Draws(p, me[p]) /\ SavesAs(me[p])
  BY <1>1, <1>5 DEF Goes, Goto, Draws, SavesAs, GenerateInv, TypeOK
<1> QED
  BY <1>2, <1>5, <1>6, <1>7, Here, ProcessStep

LEMMA LeaveRenderingStep ==
    ASSUME GenerateInv, NEW p \in Procs, LeaveRendering(p)
    PROVE  GenerateInv'
<1>1. pc[p] = "settled" /\ lock = p
  BY Here DEF LeaveRendering, UnderLock
<1> QED
  BY <1>1, LeavingStep DEF LeaveRendering, bundle

(***************************************************************************)
(* Heartbeats.                                                             *)
(***************************************************************************)
\* A heartbeat that renews r, which is p's own or the record of p's attempt.
LEMMA RenewalStep ==
    ASSUME GenerateInv, NEW p \in Procs, NEW b \in RunRecords, WellFormed(b), SoundAfter(b),
           b.status = "running", b.attempt = me[p].attempt, b.attempt # 0,
           pc[p] \in PlanningStages => b.form \in {"fixture", "pending"},
           NEW l \in Locals, Goes(p, pc[p], l), record' = b,
           l.seen = me[p].seen, SoundAfter(l.snap), l.attempt = me[p].attempt,
           l.beat = me[p].beat, l.handoff = me[p].handoff \/ l.handoff = "on",
           l.handoff # "off" => pc[p] \in HandingOver,
           l.handoff = "reading" => l.snap = me[p].snap,
           UNCHANGED <<lock, request, drafts, inputs, raw, issued>>
    PROVE  GenerateInv'
<1>1. Grows /\ DiskTypes /\ Locks(p, pc[p]) /\ pc[p] \in Labels
  BY Here DEF Grows, DiskTypes, Locks
<1>2. SoundAfter(me[p].seen)
  BY <1>1, Here, SoundStays
<1>3. PlaceAfter(pc[p], l)
  BY <1>1, <1>2, Here DEF PlaceIsSafe, PlaceAfter, OwnCopy, Grows
<1>4. Draws(p, l) /\ SavesAs(l)
  BY DEF Draws, SavesAs
<1> QED
  BY <1>1, <1>3, <1>4, ProcessStep

LEMMA GenerationHeartbeatStep ==
    ASSUME GenerateInv, NEW p \in Procs, GenerationHeartbeat(p)
    PROVE  GenerateInv'
<1>1. /\ me[p].beat = "on" /\ UNCHANGED <<lock, request, drafts, inputs, raw, issued, pc>>
      /\ pc[p] \in PlanningStages
  BY Here DEF GenerationHeartbeat, bundle, PlaceIsSafe
<1>2. Grows
  BY <1>1, Here DEF Grows
<1>3. SoundAfter(me[p].seen) /\ SoundAfter(me[p].snap) /\ SoundAfter(record)
  BY <1>2, Here, SoundStays
<1>4. CASE Owned(p)
  <2> DEFINE b == Beat(record, pc[p], 0)
  <2>1. record' = b /\ UNCHANGED me
    BY <1>4 DEF GenerationHeartbeat
  <2>2. /\ record.status = "running" /\ record.attempt = me[p].attempt
        /\ record.form \in {"fixture", "pending"}
    BY <1>1, <1>4, Here DEF Owned, PlaceIsSafe
  <2>3. pc[p] \in RunStage /\ pc[p] \notin {"queued", "completed"}
    BY <1>1 DEF RunStage, PlanningStages
  <2>4. /\ b \in RunRecords /\ WellFormed(b) /\ b.status = "running"
        /\ b.attempt = record.attempt /\ b.form = record.form
    BY <1>1, <2>2, <2>3, Here, BeatGood
  <2> HIDE DEF b
  <2>5. SoundAfter(b) /\ b.attempt # 0
    BY <1>3, <2>2, <2>4, Here DEF SoundAfter
  <2>6. Goes(p, pc[p], me[p]) /\ (me[p].handoff # "off" => pc[p] \in HandingOver)
    BY <1>1, <2>1, Here DEF Goes, GenerateInv, TypeOK, PlaceIsSafe
  <2> QED
    BY <1>1, <1>3, <2>1, <2>2, <2>4, <2>5, <2>6, Here, RenewalStep
<1>5. CASE ~Owned(p)
  <2> DEFINE l == [me[p] EXCEPT !.beat = "dead"]
  <2>1. me' = [me EXCEPT ![p].beat = "dead"] /\ UNCHANGED record
    BY <1>5 DEF GenerationHeartbeat
  <2>2. /\ l \in Locals /\ l.seen = me[p].seen /\ l.snap = me[p].snap
        /\ l.attempt = me[p].attempt /\ l.beat = "dead" /\ l.handoff = me[p].handoff
    BY Here DEF Locals
  <2>3. Goes(p, pc[p], l)
    BY <1>1, <2>1 DEF Goes, GenerateInv, TypeOK
  <2> HIDE DEF l
  <2>4. Locks(p, pc[p]) /\ pc[p] \in Labels
    BY <1>1, Here DEF Locks
  <2>5. PlaceAfter(pc[p], l)
    BY <1>1, <1>3, <2>1, <2>2, Here DEF PlaceIsSafe, PlaceAfter, OwnCopy, Owned
  <2> QED
    BY <1>1, <2>1, <2>2, <2>3, <2>4, <2>5, PrivateStep
<1> QED
  BY <1>4, <1>5

LEMMA RenderingHeartbeatStep ==
    ASSUME GenerateInv, NEW p \in Procs, RenderingHeartbeat(p)
    PROVE  GenerateInv'
<1> DEFINE b == Beat(record, record.stage, 0)
<1>1. /\ pc[p] = "rendering" /\ record' = b /\ record.status = "running"
      /\ record.attempt = me[p].attempt
      /\ UNCHANGED <<lock, request, drafts, inputs, raw, issued, pc, me>>
  BY DEF RenderingHeartbeat, bundle, Owned
<1>2. Grows
  BY <1>1, Here DEF Grows
<1>3. SoundAfter(me[p].snap) /\ SoundAfter(record)
  BY <1>2, Here, SoundStays
<1>4. /\ b \in RunRecords /\ WellFormed(b) /\ b.status = "running"
      /\ b.attempt = record.attempt /\ b.form = record.form
  BY <1>1, Here, RenewedGood
<1> HIDE DEF b
<1>5. SoundAfter(b) /\ b.attempt # 0 /\ pc[p] \notin PlanningStages
  BY <1>1, <1>3, <1>4, Here DEF SoundAfter, PlanningStages
<1>6. Goes(p, pc[p], me[p]) /\ (me[p].handoff # "off" => pc[p] \in HandingOver)
  BY <1>1, Here DEF Goes, GenerateInv, TypeOK, PlaceIsSafe
<1> QED
  BY <1>1, <1>3, <1>4, <1>5, <1>6, Here, RenewalStep

\* The copy it renews is of p's attempt, whatever the record has become.
LEMMA HandoffHeartbeatStep ==
    ASSUME GenerateInv, NEW p \in Procs, HandoffHeartbeat(p)
    PROVE  GenerateInv'
<1>1. UNCHANGED <<lock, request, drafts, inputs, raw, issued, pc>>
  BY DEF HandoffHeartbeat, bundle
<1>2. Grows
  BY <1>1, Here DEF Grows
<1>3. /\ SoundAfter(me[p].seen) /\ SoundAfter(me[p].snap) /\ SoundAfter(record)
      /\ SoundAfter(NoRecord)
  BY <1>1, <1>2, Here, SoundStays, NewLocalType DEF SoundAfter
<1>4. CASE me[p].handoff = "on"
  <2> DEFINE l == [me[p] EXCEPT !.handoff = IF Owned(p) THEN "reading" ELSE "dead",
                                !.snap = IF Owned(p) THEN record ELSE NoRecord]
  <2>1. /\ me' = [me EXCEPT ![p].handoff = IF Owned(p) THEN "reading" ELSE "dead",
                            ![p].snap = IF Owned(p) THEN record ELSE NoRecord]
        /\ UNCHANGED record
    BY <1>4 DEF HandoffHeartbeat
  <2>2. /\ l \in Locals /\ l.seen = me[p].seen /\ l.attempt = me[p].attempt
        /\ l.beat = me[p].beat /\ l.handoff # "off"
        /\ l.snap = IF Owned(p) THEN record ELSE NoRecord
        /\ l.handoff = "reading" => Owned(p)
    BY NewLocalType, Here DEF Locals
  <2>3. Goes(p, pc[p], l)
    BY <1>1, <2>1 DEF Goes, GenerateInv, TypeOK
  <2> HIDE DEF l
  <2>4. Locks(p, pc[p]) /\ pc[p] \in Labels
    BY <1>1, Here DEF Locks
  <2>5. PlaceAfter(pc[p], l)
    BY <1>1, <1>3, <1>4, <2>1, <2>2, Here DEF PlaceIsSafe, PlaceAfter, OwnCopy, Owned
  <2> QED
    BY <1>1, <2>1, <2>2, <2>3, <2>4, <2>5, PrivateStep
<1>5. CASE me[p].handoff = "reading"
  <2> DEFINE r == me[p].snap
             b == Beat(r, r.stage, 0)
             l == [me[p] EXCEPT !.handoff = "on", !.snap = NoRecord]
  <2>1. record' = b /\ me' = [me EXCEPT ![p].handoff = "on", ![p].snap = NoRecord]
    BY <1>5 DEF HandoffHeartbeat
  <2>2. /\ r.status = "running" /\ r.attempt = me[p].attempt /\ r \in RunRecords
        /\ WellFormed(r) /\ r.attempt # 0 /\ pc[p] \in HandingOver
    BY <1>5, Here DEF PlaceIsSafe, OwnCopy, Sound, WellFormed, ValidRecord,
       ValidOwnership, ValidExecution, IsActive
  <2>3. /\ b \in RunRecords /\ WellFormed(b) /\ b.status = "running"
        /\ b.attempt = r.attempt /\ b.form = r.form
    BY <2>2, RenewedGood
  <2>4. /\ l \in Locals /\ l.seen = me[p].seen /\ l.snap = NoRecord
        /\ l.attempt = me[p].attempt /\ l.beat = me[p].beat /\ l.handoff = "on"
    BY NewLocalType, Here DEF Locals
  <2>5. Goes(p, pc[p], l)
    BY <1>1, <2>1 DEF Goes, GenerateInv, TypeOK
  <2> HIDE DEF b, l
  <2>6. SoundAfter(b) /\ pc[p] \notin PlanningStages
    BY <1>3, <2>2, <2>3 DEF SoundAfter, HandingOver, PlanningStages
  <2> QED
    BY <1>1, <1>3, <2>1, <2>2, <2>3, <2>4, <2>5, <2>6, RenewalStep
<1> QED
  BY <1>4, <1>5 DEF HandoffHeartbeat

LEMMA CrashStep ==
    ASSUME GenerateInv, NEW p \in Procs, Crash(p)
    PROVE  GenerateInv'
BY LeavingStep DEF Crash, bundle

(***************************************************************************)
(* Steps that no process takes.                                            *)
(***************************************************************************)
LEMMA RecordStep ==
    ASSUME GenerateInv, UNCHANGED <<lock, request, drafts, inputs, raw, pc, me>>,
           issued' \in {issued, issued + 1},
           record' \in RunRecords, SoundAfter(record'),
           \/ record'.status # "running"
           \/ record.status = "running" /\ record'.attempt = record.attempt
              /\ record'.form = record.form
           \/ record' = record
    PROVE  GenerateInv'
<1>1. Grows /\ issued \in Nat
  BY DEF Grows, GenerateInv, TypeOK
<1>2. TypeOK'
  BY <1>1 DEF GenerateInv, TypeOK
<1>3. Sound(record)'
  BY DEF Sound, SoundAfter, Backed
<1>4. ASSUME NEW q \in Procs PROVE PlaceIsSafe(q)'
  <2>1. Owned(q)' => Owned(q) /\ record'.form = record.form
    BY DEF Owned
  <2> QED
    BY <1>1, <2>1, OthersAreSafe
<1> QED
  BY <1>2, <1>3, <1>4 DEF GenerateInv

LEMMA StutterStep ==
    ASSUME GenerateInv, UNCHANGED vars
    PROVE  GenerateInv'
<1>1. UNCHANGED <<record, lock, request, drafts, inputs, raw, issued, pc, me>>
  BY DEF vars, bundle
<1>2. Grows /\ record \in RunRecords
  BY <1>1 DEF Grows, GenerateInv, TypeOK
<1>3. SoundAfter(record)
  BY <1>2, SoundStays DEF GenerateInv
<1> QED
  BY <1>1, <1>2, <1>3, RecordStep

LEMMA TimeStep ==
    ASSUME GenerateInv, Lapse \/ Reconcile
    PROVE  GenerateInv'
<1>1. UNCHANGED <<lock, request, drafts, inputs, raw, issued, pc, me>>
  BY DEF Lapse, Reconcile, bundle
<1>2. Grows /\ record \in RunRecords /\ WellFormed(record)
  BY <1>1 DEF Grows, GenerateInv, TypeOK, Sound
<1>3. SoundAfter(record)
  BY <1>2, SoundStays DEF GenerateInv
<1>4. CASE Lapse
  BY <1>1, <1>2, <1>3, <1>4, LapsedGood, RecordStep DEF Lapse, SoundAfter
<1>5. CASE Reconcile
  BY <1>1, <1>2, <1>3, <1>5, ReconciledSound, RecordStep DEF Reconcile
<1> QED
  BY <1>4, <1>5

\* Whatever a command, its threads or a fault do.
LEMMA CommandStep ==
    ASSUME GenerateInv, NEW p \in Procs, Step(p) \/ Beating(p) \/ Fault(p)
    PROVE  GenerateInv'
BY WriteRequestStep, CompareRequestStep, PreflightStep, PromoteScriptStep, AcquireStep,
   ClaimGenerationStep, DraftUnitStep, EnterDraftingStep, FinishDraftsStep, BeginPromotionStep,
   WriteRawOutputStep, CommitPromotionStep, LeaveGenerationStep, SettleGenerationStep,
   BuildWorkerStep, ContinueStep, ReadForHandoffStopStep, SaveHandoffStopStep, UnwindStep,
   ReadForUnstartedStep, ClaimUnstartedStep, SettleUnstartedStep, TakeRunStep,
   SaveRenderingStep, FinishRenderingStep, LeaveRenderingStep, GenerationHeartbeatStep,
   HandoffHeartbeatStep, RenderingHeartbeatStep, StopsGeneratingStep, CrashStep
DEF Step, Beating, Fault

\* It moves itself only.
LEMMA OwnMove ==
    ASSUME GenerateInv, NEW p \in Procs, Step(p) \/ Beating(p) \/ Fault(p),
           NEW q \in Procs \ {p}
    PROVE  pc'[q] = pc[q] /\ me'[q] = me[q]
<1> DEFINE Same == pc'[q] = pc[q] /\ me'[q] = me[q]
<1>1. pc \in [Procs -> Labels] /\ me \in [Procs -> Locals]
  BY DEF GenerateInv, TypeOK
<1>2. CASE \/ WriteRequest(p) \/ CompareRequest(p) \/ LoseLock(p) \/ PromoteScript(p)
           \/ AcquireForGeneration(p) \/ ClaimGeneration(p) \/ PreflightStops(p) \/ Crash(p)
  BY <1>1, <1>2
  DEF WriteRequest, CompareRequest, LoseLock, PromoteScript, AcquireForGeneration,
      ClaimGeneration, PreflightStops, Crash, Unstarted, Goto, Exit
<1>3. CASE \/ DraftUnit(p) \/ EnterDrafting(p) \/ FinishDrafts(p) \/ BeginPromotion(p)
           \/ WriteRawOutput(p) \/ CommitPromotion(p) \/ LeaveGeneration(p)
           \/ SettleGeneration(p) \/ StopsGenerating(p)
  BY <1>1, <1>3
  DEF DraftUnit, EnterDrafting, FinishDrafts, BeginPromotion, WriteRawOutput, CommitPromotion,
      LeaveGeneration, SettleGeneration, StopsGenerating, StopGeneration, Goto
<1>4. CASE \/ BuildWorker(p) \/ Continue(p) \/ ReadForHandoffStop(p) \/ SaveHandoffStop(p)
           \/ Unwind(p) \/ ReadForUnstarted(p) \/ ClaimUnstarted(p) \/ SettleUnstarted(p)
  BY <1>1, <1>4
  DEF BuildWorker, Continue, ReadForHandoffStop, SaveHandoffStop, Unwind, ReadForUnstarted,
      ClaimUnstarted, SettleUnstarted, Goto, Exit
<1>5. CASE \/ TakeRun(p) \/ SaveRendering(p) \/ FinishRendering(p) \/ LeaveRendering(p)
           \/ Beating(p)
  BY <1>1, <1>5
  DEF TakeRun, SaveRendering, FinishRendering, LeaveRendering, Beating, GenerationHeartbeat,
      HandoffHeartbeat, RenderingHeartbeat, Goto, Exit
<1> QED
  BY <1>2, <1>3, <1>4, <1>5 DEF Step, Fault

\* What it saves is no cancellation of a queued run, and puts no run back in the queue.
LEMMA OwnRecord ==
    ASSUME GenerateInv, GenerateInv', NEW p \in Procs, Step(p) \/ Beating(p) \/ Fault(p)
    PROVE  \/ record' = record
           \/ /\ record'.interruption # "user_cancelled"
              /\ record'.status = "queued" => record.status = "queued"
<1> DEFINE Fine == \/ record' = record
                   \/ /\ record'.interruption # "user_cancelled"
                      /\ record'.status = "queued" => record.status = "queued"
<1>1. WellFormed(record') /\ record \in RunRecords /\ me[p].seen \in RunRecords
      /\ me[p].snap \in RunRecords
  BY Here DEF GenerateInv, Sound
<1>2. record'.status = "running" => Fine
  BY <1>1 DEF WellFormed
<1>3. \A f : /\ QueuedRecord(f).status = "queued"
             /\ QueuedRecord(f).interruption = "none"
  BY DEF QueuedRecord
<1>4. \A r, a, g : Claimed(r, a, p, g).status = "running"
  BY DEF Claimed
<1>5. \A r \in RunRecords : \A g : Beat(r, g, 0).status = r.status
  BY DEF Beat, RunRecords
<1>6. \A r \in RunRecords, how \in {"failed", "interrupted"} :
         /\ Stopping(r, how).status = how
         /\ Stopping(r, how).interruption # "user_cancelled"
  BY DEF Stopping, Finished, StopKind, RunRecords
<1>7. Reconciled(record) = record \/ /\ Reconciled(record).status = "interrupted"
                                     /\ Reconciled(record).interruption = "lease_expired"
  BY <1>1 DEF Reconciled, Finished, RunRecords
<1>8. me[p].stop \in {"failed", "interrupted"}
  BY Here DEF Locals
<1> HIDE DEF Fine
<1>9. CASE WriteRequest(p) \/ PromoteScript(p)
  BY <1>3, <1>9 DEF WriteRequest, PromoteScript, Promotable, Fine
<1>10. CASE AcquireForGeneration(p)
  BY <1>7, <1>10 DEF AcquireForGeneration, Fine
<1>11. CASE ClaimGeneration(p) \/ ClaimUnstarted(p) \/ Continue(p)
  BY <1>2, <1>4, <1>11 DEF ClaimGeneration, ClaimUnstarted, Continue, Fine
<1>12. CASE EnterDrafting(p) \/ GenerationHeartbeat(p) \/ RenderingHeartbeat(p)
  BY <1>1, <1>2, <1>5, <1>12 DEF EnterDrafting, GenerationHeartbeat, RenderingHeartbeat, Owned, Fine
<1>13. CASE CommitPromotion(p)
  <2>1. me[p].seen.status = "running"
    BY <1>13, Here DEF CommitPromotion, PlaceIsSafe, OwnCopy
  <2>2. record'.status = "running"
    BY <1>1, <1>13, <2>1 DEF CommitPromotion, Beat, RunRecords
  <2> QED
    BY <1>2, <2>2 DEF Fine
<1>14. CASE SaveRendering(p)
  <2>1. me[p].seen.status = "running"
    BY <1>14, Here DEF SaveRendering, PlaceIsSafe, OwnCopy
  <2>2. record'.status = "running"
    BY <1>1, <1>14, <2>1 DEF SaveRendering, Beat, RunRecords
  <2> QED
    BY <1>2, <2>2 DEF Fine
<1>15. CASE HandoffHeartbeat(p)
  <2>1. me[p].handoff = "reading" => me[p].snap.status = "running"
    BY Here DEF PlaceIsSafe, OwnCopy
  <2> QED
    BY <1>1, <1>2, <1>5, <1>15, <2>1 DEF HandoffHeartbeat, Fine
<1>16. CASE SettleGeneration(p) \/ SaveHandoffStop(p) \/ SettleUnstarted(p)
  BY <1>1, <1>6, <1>8, <1>16 DEF SettleGeneration, SaveHandoffStop, SettleUnstarted, Fine
<1>17. CASE FinishRendering(p)
  <2>1. CASE \E how \in {"failed", "interrupted"} : record' = Stopping(me[p].seen, how)
    BY <1>1, <1>6, <2>1 DEF Fine
  <2>2. CASE record' = [Finished(me[p].seen, "completed", "completed", 0, "none")
                          EXCEPT !.completed = SpeechCount]
    <3>1. record'.status = "completed"
      BY <1>1, <2>2 DEF Finished, RunRecords
    <3> QED
      BY <1>1, <3>1 DEF WellFormed, Fine
  <2> QED
    BY <1>17, <2>1, <2>2 DEF FinishRendering
<1>18. CASE TakeRun(p)
  BY <1>2, <1>4, <1>7, <1>18 DEF TakeRun, Fine
<1>19. CASE \/ CompareRequest(p) \/ LoseLock(p) \/ DraftUnit(p) \/ FinishDrafts(p)
            \/ BeginPromotion(p) \/ WriteRawOutput(p) \/ LeaveGeneration(p) \/ BuildWorker(p)
            \/ ReadForHandoffStop(p) \/ Unwind(p) \/ ReadForUnstarted(p) \/ LeaveRendering(p)
            \/ Fault(p)
  BY <1>19
  DEF CompareRequest, LoseLock, DraftUnit, FinishDrafts, BeginPromotion, WriteRawOutput,
      LeaveGeneration, BuildWorker, ReadForHandoffStop, Unwind, ReadForUnstarted, LeaveRendering,
      Fault, PreflightStops, StopsGenerating, Crash, Fine
<1> QED
  BY <1>9, <1>10, <1>11, <1>12, <1>13, <1>14, <1>15, <1>16, <1>17, <1>18, <1>19
  DEF Step, Beating, Fine

LEMMA InitiallyGenerateInv ==
    ASSUME Init
    PROVE  GenerateInv
<1>1. QueuedRecord("fixture") \in RunRecords /\ WellFormed(QueuedRecord("fixture"))
      /\ QueuedRecord("fixture").form = "fixture" /\ QueuedRecord("fixture").attempt = 0
  BY QueuedGood
<1>2. TypeOK
  <2>1. "idle" \in Labels /\ 0 \in 0 .. Units /\ NewLocal \in Locals
    BY NewLocalType, UnitsAssumption DEF Labels
  <2>2. pc \in [Procs -> Labels] /\ me \in [Procs -> Locals]
    BY <2>1 DEF Init
  <2> QED
    BY <1>1, <2>1, <2>2 DEF Init, TypeOK
<1>3. Sound(record) /\ Sound(NoRecord)
  BY <1>1, NewLocalType DEF Init, Sound, Backed
<1>4. \A p \in Procs : pc[p] = "idle" /\ me[p] = NewLocal /\ lock # p
  BY NoProcAssumption DEF Init
<1>5. ASSUME NEW p \in Procs PROVE PlaceIsSafe(p)
  BY <1>3, <1>4
  DEF Init, NewLocal, PlaceIsSafe, Unclaimed, PlanningStages, HandingOver
<1>6. "idle" \notin UnderLock
  BY DEF UnderLock, InGeneration
<1> QED
  BY <1>2, <1>3, <1>4, <1>5, <1>6 DEF GenerateInv, NewLocal

(***************************************************************************)
(* The inductive invariant, and what it implies.                           *)
(***************************************************************************)
\* The record, every copy of it, the lock and the attempts fit together in every
\* reachable state.
THEOREM GenerateInvariant == Spec => []GenerateInv
<1>1. Init => GenerateInv
  BY InitiallyGenerateInv
<1>2. GenerateInv /\ [Next]_vars => GenerateInv'
  <2> SUFFICES ASSUME GenerateInv, [Next]_vars PROVE GenerateInv'
    OBVIOUS
  <2>1. CASE UNCHANGED vars
    BY <2>1, StutterStep
  <2>2. ASSUME NEW p \in Procs, Launch(p) PROVE GenerateInv'
    BY <2>2, LaunchStep DEF Launch
  <2> QED
    BY <2>1, <2>2, CommandStep, TimeStep DEF Next
<1> QED
  BY <1>1, <1>2, PTL DEF Spec

\* Every writer, under the lock or without it, builds a record the validator accepts.
THEOREM RecordsAreValid == Spec => []RecordStaysValid
<1>1. GenerateInv => RecordStaysValid
  BY DEF GenerateInv, Sound, WellFormed, RecordStaysValid
<1> QED
  BY <1>1, GenerateInvariant, PTL

\* The record names a request or inputs only when they are on disk, and a generated
\* run has all of its sections.
THEOREM RecordsAreBacked == Spec => []RecordIsBacked
<1>1. GenerateInv => RecordIsBacked
  BY DEF GenerateInv, Sound, RecordIsBacked
<1> QED
  BY <1>1, GenerateInvariant, PTL

\* A step of another process takes the run from the lock's holder only if that
\* process is one of the writers without a lock.
LEMMA OthersIntrude ==
    ASSUME GenerateInv, NEW p \in Procs, lock = p, Owned(p), NEW q \in Procs \ {p},
           Launch(q) \/ Step(q) \/ Beating(q) \/ Fault(q),
           q \notin Intruders
    PROVE  record' = record \/ (record'.status = "running" /\ record'.attempt = me[p].attempt)
<1>1. /\ pc[q] \notin UnderLock /\ lock # NoProc /\ lock # q
      /\ pc[q] \notin {"unstartedClaim", "handoffSaving"} /\ me[q].handoff # "reading"
  BY Here DEF Intruders
<1>2. ~Owned(q)
  BY Here DEF Owned, GenerateInv
<1>3. me[q].beat # "on"
  BY <1>1, Here DEF PlaceIsSafe, PlanningStages, UnderLock, InGeneration
<1>4. ASSUME Launch(q) \/ Fault(q) PROVE record' = record
  BY <1>4 DEF Launch, LaunchAs, Fault, PreflightStops, StopsGenerating, Crash
<1>5. ASSUME Beating(q) PROVE record' = record
  BY <1>1, <1>2, <1>3, <1>5
  DEF Beating, GenerationHeartbeat, HandoffHeartbeat, RenderingHeartbeat
<1>6. ASSUME Step(q) PROVE record' = record
  <2>1. CASE \/ WriteRequest(q) \/ CompareRequest(q) \/ LoseLock(q) \/ PromoteScript(q)
             \/ AcquireForGeneration(q) \/ BuildWorker(q) \/ ReadForHandoffStop(q) \/ Unwind(q)
             \/ ReadForUnstarted(q)
    BY <1>1, <2>1
    DEF WriteRequest, CompareRequest, LoseLock, PromoteScript, AcquireForGeneration,
        BuildWorker, ReadForHandoffStop, Unwind, ReadForUnstarted
  <2>2. CASE Continue(q) \/ TakeRun(q)
    BY <1>1, <2>2 DEF Continue, TakeRun
  <2>3. CASE SettleUnstarted(q)
    BY <1>2, <2>3 DEF SettleUnstarted
  <2>4. CASE SaveHandoffStop(q) \/ ClaimUnstarted(q)
    BY <1>1, <2>4 DEF SaveHandoffStop, ClaimUnstarted
  <2>5. CASE \/ ClaimGeneration(q) \/ DraftUnit(q) \/ EnterDrafting(q) \/ FinishDrafts(q)
             \/ BeginPromotion(q) \/ WriteRawOutput(q) \/ CommitPromotion(q)
             \/ LeaveGeneration(q) \/ SettleGeneration(q)
             \/ SaveRendering(q) \/ FinishRendering(q) \/ LeaveRendering(q)
    BY <1>1, <2>5
    DEF ClaimGeneration, DraftUnit, EnterDrafting, FinishDrafts, BeginPromotion, WriteRawOutput,
        CommitPromotion, LeaveGeneration, SettleGeneration, SaveRendering, FinishRendering,
        LeaveRendering, UnderLock, InGeneration
  <2> QED
    BY <1>6, <2>1, <2>2, <2>3, <2>4, <2>5 DEF Step
<1> QED
  BY <1>4, <1>5, <1>6

\* The holder itself keeps the run to its end.
LEMMA HolderKeeps ==
    ASSUME GenerateInv, NEW p \in Procs, lock = p, Owned(p),
           Launch(p) \/ Step(p) \/ Beating(p) \/ Fault(p),
           ~(pc[p] \in {"stopping", "rendering"} /\ pc'[p] # pc[p])
    PROVE  record'.status = "running" /\ record'.attempt = me[p].attempt
<1>1. /\ pc[p] \in UnderLock /\ pc[p] \notin Unclaimed /\ p # NoProc
      /\ record.status = "running" /\ record.attempt = me[p].attempt
  BY Here DEF Owned, PlaceIsSafe
<1>2. \A g, s : /\ Beat(record, g, s).status = "running"
                /\ Beat(record, g, s).attempt = me[p].attempt
  BY <1>1, Here DEF Beat, RunRecords
<1>3. ASSUME Launch(p) \/ Fault(p) PROVE record' = record
  BY <1>3 DEF Launch, LaunchAs, Fault, PreflightStops, StopsGenerating, Crash
<1>4. ASSUME Beating(p) PROVE record'.status = "running" /\ record'.attempt = me[p].attempt
  <2>1. CASE GenerationHeartbeat(p) \/ RenderingHeartbeat(p)
    BY <1>1, <1>2, <2>1 DEF GenerationHeartbeat, RenderingHeartbeat
  <2>2. CASE HandoffHeartbeat(p)
    <3>1. CASE me[p].handoff = "on"
      BY <1>1, <2>2, <3>1 DEF HandoffHeartbeat
    <3>2. CASE me[p].handoff = "reading"
      <4>1. me[p].snap.status = "running" /\ me[p].snap.attempt = me[p].attempt
        BY <3>2, Here DEF PlaceIsSafe, OwnCopy
      <4>2. record' = Beat(me[p].snap, me[p].snap.stage, 0)
        BY <2>2, <3>2 DEF HandoffHeartbeat
      <4> QED
        BY <4>1, <4>2, Here DEF Beat, RunRecords
    <3> QED
      BY <2>2, <3>1, <3>2 DEF HandoffHeartbeat
  <2> QED
    BY <1>4, <2>1, <2>2 DEF Beating
<1>5. ASSUME Step(p) PROVE record'.status = "running" /\ record'.attempt = me[p].attempt
  <2>1. CASE \/ DraftUnit(p) \/ FinishDrafts(p) \/ BeginPromotion(p) \/ WriteRawOutput(p)
             \/ LeaveGeneration(p) \/ LeaveRendering(p)
    BY <1>1, <2>1 DEF DraftUnit, FinishDrafts, BeginPromotion, WriteRawOutput, LeaveGeneration,
       LeaveRendering
  <2>2. CASE EnterDrafting(p)
    BY <1>1, <1>2, <2>2 DEF EnterDrafting
  <2>3. CASE CommitPromotion(p)
    <3>1. me[p].seen.status = "running" /\ me[p].seen.attempt = me[p].attempt
      BY <2>3, Here DEF CommitPromotion, PlaceIsSafe, OwnCopy
    <3>2. record' = [Beat(me[p].seen, "compiling", 0) EXCEPT !.form = "generated"]
      BY <2>3 DEF CommitPromotion
    <3> QED
      BY <3>1, <3>2, Here DEF Beat, RunRecords
  <2>4. CASE SaveRendering(p)
    <3>1. me[p].seen.status = "running" /\ me[p].seen.attempt = me[p].attempt
      BY <2>4, Here DEF SaveRendering, PlaceIsSafe, OwnCopy
    <3>2. record' = [Beat(me[p].seen, "synthesizing", 0) EXCEPT !.total = SpeechCount]
      BY <2>4 DEF SaveRendering
    <3> QED
      BY <3>1, <3>2, Here DEF Beat, RunRecords
  <2>5. ~(SettleGeneration(p) \/ FinishRendering(p))
    <3>1. "unwinding" # "stopping" /\ "settled" # "rendering" /\ pc \in [Procs -> Labels]
      BY DEF GenerateInv, TypeOK
    <3> QED
      BY <3>1 DEF SettleGeneration, FinishRendering, Goto
  <2>6. pc[p] \in InGeneration \cup {"stopping", "rendering", "settled"}
    BY <1>1 DEF UnderLock, Unclaimed
  <2> QED
    BY <1>5, <2>1, <2>2, <2>3, <2>4, <2>5, <2>6
    DEF Step, InGeneration, WriteRequest, CompareRequest, LoseLock, PromoteScript,
        AcquireForGeneration, ClaimGeneration, BuildWorker, Continue, ReadForHandoffStop,
        SaveHandoffStop, Unwind, ReadForUnstarted, ClaimUnstarted, SettleUnstarted, TakeRun
<1> QED
  BY <1>1, <1>3, <1>4, <1>5

\* Only the outermost handlers of a generate command and its handoff, which write
\* without a lock, take a run from the process that has claimed it under the lock.
THEOREM OnlyHandlersTakeTheRun == Spec => OnlyHandlersIntrude
<1>1. ASSUME GenerateInv, [Next]_vars, NEW p \in Procs, lock = p, Owned(p),
             ~(record'.status = "running" /\ record'.attempt = me[p].attempt)
      PROVE  \/ pc[p] \in {"stopping", "rendering"} /\ pc'[p] # pc[p]
             \/ Intruders \ {p} # {}
  <2>1. /\ p # NoProc /\ record.status = "running" /\ record.attempt = me[p].attempt
        /\ record \in RunRecords
    BY <1>1, Here DEF Owned
  <2>2. ~UNCHANGED vars
    BY <1>1, <2>1 DEF vars
  <2>3. ~Lapse
    BY <1>1, <2>1 DEF Lapse, RunRecords
  <2>4. ~Reconcile
    BY <1>1, <2>1 DEF Reconcile
  <2>5. PICK q \in Procs : Launch(q) \/ Step(q) \/ Beating(q) \/ Fault(q)
    BY <1>1, <2>2, <2>3, <2>4 DEF Next
  <2>6. CASE q = p
    BY <1>1, <2>5, <2>6, HolderKeeps
  <2>7. CASE q # p
    BY <1>1, <2>1, <2>5, <2>7, OthersIntrude
  <2> QED
    BY <2>6, <2>7
<1>2. GenerateInv /\ [Next]_vars =>
        [\A p \in Procs :
          /\ lock = p /\ Owned(p)
          /\ ~(record'.status = "running" /\ record'.attempt = me[p].attempt)
          => \/ pc[p] \in {"stopping", "rendering"} /\ pc'[p] # pc[p]
             \/ Intruders \ {p} # {}]_vars
  BY <1>1
<1> QED
  BY <1>2, GenerateInvariant, PTL DEF Spec, OnlyHandlersIntrude
=============================================================================
