---------------------------- MODULE PackReadiness ----------------------------
(***************************************************************************)
(* What makes a model pack READY: ManagedModelPacks.smoke_test, the probe  *)
(* it runs, the two evidence files of each pack, and the state the         *)
(* registry reads from them.  Evidence is bound to a fingerprint of the    *)
(* runtime directory, which the packs share and anybody may rebuild; no    *)
(* lock covers a probe from its first read to its last write.              *)
(*                                                                         *)
(* A pack's files are all there or not (ModelPacks has the transfer).      *)
(* Platform and machine do not change; the hardware is sufficient.  An     *)
(* inspection reads the disk at one instant.                               *)
(***************************************************************************)
EXTENDS Naturals, FiniteSets

CONSTANTS Procs,          \* processes of `whoopy models pack` and of the studio
          Packs,          \* packs that share one runtime and the heavyweight slot
          Dependencies,   \* per pack, what its manifest entry depends on
          Companions,     \* per pack, what its probe needs to be runnable
          Working,        \* runtimes that can synthesize
          MaxBuilds, MaxInstalls, MaxRemovals, MaxEvents,   \* bounds on events
          None

Runtimes == 1..MaxBuilds

\* A smoke.json that says failure is read, but no code writes one.
RuntimeEvidence == [fingerprint : Runtimes, success : BOOLEAN]

ASSUME DependenciesAssumption == Dependencies \in [Packs -> SUBSET Packs]
ASSUME CompanionsAssumption == Companions \in [Packs -> SUBSET Packs]
ASSUME WorkingAssumption == Working \subseteq Runtimes
ASSUME BoundsAssumption == {MaxBuilds, MaxInstalls, MaxRemovals, MaxEvents} \subseteq Nat
ASSUME NoneAssumption == None \notin Procs \cup Packs \cup Runtimes \cup RuntimeEvidence

VARIABLES
    installed,    \* packs whose pinned files are there
    runtime,      \* the fingerprint of the runtime directory, None if incomplete
    runtimeJson, smokeJson,   \* per pack, its evidence files
    slot,         \* the process in the heavyweight slot
    proc,         \* per process: where smoke_test is, and its locals
    exercised,    \* per pack, the runtimes a probe has seen pass
    failed,       \* and those it failed with for good, and why
    events        \* builds, installs, removals, and kills and transient failures

vars == <<installed, runtime, runtimeJson, smokeJson, slot, proc, exercised, failed, events>>

disk == <<installed, runtime, runtimeJson, smokeJson>>

history == <<exercised, failed>>

Locals == [pc : {"idle", "resolve", "acquire", "probe", "fail", "runtime", "smoke",
                 "dependency"},
           probed      : Packs \cup {None},      \* the pack smoke_test is called for
           pack        : Packs \cup {None},      \* the pack whose evidence is next
           fingerprint : Runtimes \cup {None},
           left        : SUBSET Packs]           \* dependencies still to be recorded

Idle == [pc |-> "idle", probed |-> None, pack |-> None, fingerprint |-> None, left |-> {}]

Init ==
    /\ installed = {}
    /\ runtime = None
    /\ runtimeJson = [p \in Packs |-> None] /\ smokeJson = [p \in Packs |-> None]
    /\ slot = None
    /\ proc = [i \in Procs |-> Idle]
    /\ exercised = [p \in Packs |-> {}] /\ failed = [p \in Packs |-> {}]
    /\ events = [builds |-> 0, installs |-> 0, removals |-> 0, others |-> 0]

-----------------------------------------------------------------------------
(***************************************************************************)
(* registry.inspect                                                        *)
(***************************************************************************)
Probed(p, success) ==
    runtimeJson[p] = [fingerprint |-> runtime, success |-> success]

Smoked(p) == runtime # None /\ smokeJson[p] = runtime

Closed(R) == \A p \in R : Dependencies[p] \subseteq R

Tested(p) == p \in installed /\ Probed(p, TRUE) /\ Smoked(p)

\* The packs that pass their own checks as do those they depend on, theirs, and so on:
\* the recursion of _inspect, along dependencies that form no cycle.
ReadyPacks == UNION {R \in SUBSET Packs : Closed(R) /\ \A p \in R : Tested(p)}

readiness == [p \in Packs |->
    IF p \notin installed THEN "missing"
    ELSE IF Probed(p, FALSE) THEN "incompatible"
    ELSE IF p \in ReadyPacks THEN "ready"
    ELSE "installed"]

Runnable(p) == readiness[p] \in {"installed", "ready"}

-----------------------------------------------------------------------------
(***************************************************************************)
(* smoke_test                                                              *)
(***************************************************************************)
At(i, pc) == proc[i].pc = pc

Become(i, l) == proc' = [proc EXCEPT ![i] = l]

Goto(i, pc) == Become(i, [proc[i] EXCEPT !.pc = pc])

SlotWithout(i) == IF slot = i THEN None ELSE slot

Happens(event, bound) ==
    /\ events[event] < bound
    /\ events' = [events EXCEPT ![event] = @ + 1]

\* The fingerprint is read before the probe that it will be evidence of.
SmokeTest(i, p) ==
    /\ At(i, "idle")
    /\ readiness[p] # "missing" /\ runtime # None
    /\ Become(i, [Idle EXCEPT !.pc = "resolve", !.probed = p, !.pack = p,
                              !.fingerprint = runtime])
    /\ UNCHANGED <<disk, slot, history, events>>

\* A failure smoke_test takes for deterministic and will record.
Fail(i, why) ==
    /\ Goto(i, "fail")
    /\ failed' = IF runtime = None THEN failed
                 ELSE [failed EXCEPT ![proc[i].probed] = @ \cup {<<runtime, why>>}]

\* The runner finds the runtime and the packs its adapter needs, or gives up.
Resolve(i) ==
    /\ At(i, "resolve")
    /\ IF runtime # None /\ \A q \in Companions[proc[i].probed] : Runnable(q)
       THEN Goto(i, "acquire") /\ UNCHANGED failed
       ELSE Fail(i, "refused")
    /\ UNCHANGED <<disk, slot, exercised, events>>

Acquire(i) ==
    /\ At(i, "acquire") /\ slot = None
    /\ slot' = i
    /\ Goto(i, "probe")
    /\ UNCHANGED <<disk, history, events>>

\* A busy slot is a transient failure: no evidence.
FindBusy(i) ==
    /\ At(i, "acquire") /\ slot # None
    /\ Become(i, Idle)
    /\ UNCHANGED <<disk, slot, history, events>>

Complete(p) == {p} \cup Companions[p] \subseteq installed

\* Mutant: the slot is kept until the evidence is written.
PassKeepingSlot(i) ==
    /\ At(i, "probe") /\ runtime \in Working /\ Complete(proc[i].probed)
    /\ exercised' = [exercised EXCEPT ![proc[i].probed] = @ \cup {runtime}]
    /\ Become(i, [proc[i] EXCEPT !.pc = "runtime", !.left = Dependencies[proc[i].probed]])
    /\ UNCHANGED <<disk, slot, failed, events>>

\* The adapter starts, synthesizes and unloads; it has exercised the pack and what
\* the pack depends on with the runtime that is there now.
Pass(i) ==
    /\ At(i, "probe") /\ runtime \in Working /\ Complete(proc[i].probed)
    /\ exercised' = [p \in Packs |->
          IF p \in {proc[i].probed} \cup Dependencies[proc[i].probed]
          THEN exercised[p] \cup {runtime} ELSE exercised[p]]
    /\ slot' = None
    /\ Become(i, [proc[i] EXCEPT !.pc = "runtime", !.left = Dependencies[proc[i].probed]])
    /\ UNCHANGED <<disk, failed, events>>

\* A fatal error, of the runtime or because files have gone.
FailForGood(i) ==
    /\ At(i, "probe") /\ ~(runtime \in Working /\ Complete(proc[i].probed))
    /\ Fail(i, IF Complete(proc[i].probed) THEN "fatal" ELSE "refused")
    /\ slot' = None
    /\ UNCHANGED <<disk, exercised, events>>

\* The pack speaks but its adapter does not unload cleanly, or the audio is unsafe.
FailAfterRender(i) ==
    /\ At(i, "probe") /\ runtime \in Working /\ Complete(proc[i].probed)
    /\ Happens("others", MaxEvents)
    /\ Fail(i, "fatal")
    /\ slot' = None
    /\ UNCHANGED <<disk, exercised>>

\* Mutant: a transient failure is recorded like any other.
RecordFailForNow(i) ==
    /\ At(i, "probe")
    /\ Happens("others", MaxEvents)
    /\ slot' = None
    /\ Goto(i, "fail")
    /\ UNCHANGED <<disk, history>>

FailForNow(i) ==
    /\ At(i, "probe")
    /\ Happens("others", MaxEvents)
    /\ slot' = None
    /\ Become(i, Idle)
    /\ UNCHANGED <<disk, history>>

WriteRuntime(i, success) ==
    runtimeJson' = [runtimeJson EXCEPT ![proc[i].pack] =
                       [fingerprint |-> proc[i].fingerprint, success |-> success]]

WriteFailure(i) ==
    /\ At(i, "fail")
    /\ WriteRuntime(i, FALSE)
    /\ Become(i, Idle)
    /\ UNCHANGED <<installed, runtime, smokeJson, slot, history, events>>

\* Mutant: the fingerprint is that of the moment the evidence is written.
WriteSuccessOfNow(i) ==
    /\ At(i, "runtime") /\ runtime # None
    /\ runtimeJson' = [runtimeJson EXCEPT ![proc[i].pack] =
                          [fingerprint |-> runtime, success |-> TRUE]]
    /\ Become(i, [proc[i] EXCEPT !.pc = "smoke", !.fingerprint = runtime])
    /\ UNCHANGED <<installed, runtime, smokeJson, slot, history, events>>

WriteSuccess(i) ==
    /\ At(i, "runtime")
    /\ WriteRuntime(i, TRUE)
    /\ Goto(i, "smoke")
    /\ UNCHANGED <<installed, runtime, smokeJson, slot, history, events>>

WriteSmoke(i) ==
    /\ At(i, "smoke")
    /\ smokeJson' = [smokeJson EXCEPT ![proc[i].pack] = proc[i].fingerprint]
    /\ IF proc[i].left = {} THEN Become(i, Idle) ELSE Goto(i, "dependency")
    /\ UNCHANGED <<installed, runtime, runtimeJson, slot, history, events>>

\* The fingerprint of a dependency is read only now, after the probe.
RecordDependency(i) ==
    /\ At(i, "dependency")
    /\ \E d \in proc[i].left :
          Become(i, IF runtime = None THEN Idle
                    ELSE [proc[i] EXCEPT !.pc = "runtime", !.pack = d,
                                         !.fingerprint = runtime, !.left = @ \ {d}])
    /\ UNCHANGED <<disk, slot, history, events>>

Kill(i) ==
    /\ ~At(i, "idle")
    /\ Happens("others", MaxEvents)
    /\ slot' = SlotWithout(i)
    /\ Become(i, Idle)
    /\ UNCHANGED <<disk, history>>

Step(i) ==
    \/ Resolve(i) \/ Acquire(i) \/ FindBusy(i) \/ Pass(i) \/ FailForGood(i)
    \/ WriteFailure(i) \/ WriteSuccess(i) \/ WriteSmoke(i) \/ RecordDependency(i)

-----------------------------------------------------------------------------
(***************************************************************************)
(* Around it: packs come and go, and the runtime is rebuilt, not always to *)
(* something that works, and never back to what it was.                    *)
(***************************************************************************)
Install(p) ==
    /\ p \notin installed
    /\ Happens("installs", MaxInstalls)
    /\ installed' = installed \cup {p}
    /\ UNCHANGED <<runtime, runtimeJson, smokeJson, slot, proc, history>>

\* The evidence of a pack is in the directory that goes to the trash.
Remove(p) ==
    /\ p \in installed
    /\ Happens("removals", MaxRemovals)
    /\ installed' = installed \ {p}
    /\ runtimeJson' = [runtimeJson EXCEPT ![p] = None]
    /\ smokeJson' = [smokeJson EXCEPT ![p] = None]
    /\ UNCHANGED <<runtime, slot, proc, history>>

Build ==
    /\ Happens("builds", MaxBuilds)
    /\ runtime' = events.builds + 1
    /\ UNCHANGED <<installed, runtimeJson, smokeJson, slot, proc, history>>

TearDown ==
    /\ runtime # None
    /\ events.builds < MaxBuilds       \* bound: one more build is left
    /\ runtime' = None
    /\ UNCHANGED <<installed, runtimeJson, smokeJson, slot, proc, history, events>>

Environment == Build \/ TearDown \/ \E p \in Packs : Install(p) \/ Remove(p)

Next ==
    \/ Environment
    \/ \E i \in Procs : \/ Step(i) \/ FailAfterRender(i) \/ FailForNow(i) \/ Kill(i)
                        \/ \E p \in Packs : SmokeTest(i, p)

Spec == Init /\ [][Next]_vars
=============================================================================
