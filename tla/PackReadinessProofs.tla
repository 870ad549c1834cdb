------------------------- MODULE PackReadinessProofs -------------------------
(***************************************************************************)
(* Machine-checked proofs about PackReadiness, for every set of processes, *)
(* of packs and of dependencies, and every bound: types and the slot,      *)
(* READY as evidence of an exercised runtime, and what may take READY away.*)
(***************************************************************************)
EXTENDS PackReadinessProperties, TLAPS

(***************************************************************************)
(* What a step of one probe leaves of the invariant.                       *)
(***************************************************************************)
LEMMA ProbeStep ==
    ASSUME ReadinessInv, NEW i \in Procs, NEW l \in Locals, Become(i, l),
           UNCHANGED <<installed, runtime>>,
           runtimeJson' \in [Packs -> RuntimeEvidence \cup {None}],
           smokeJson' \in [Packs -> Runtimes \cup {None}],
           exercised' \in [Packs -> SUBSET Runtimes],
           failed' \in [Packs -> SUBSET (Runtimes \X {"fatal", "refused"})],
           \A p \in Packs : exercised[p] \subseteq exercised'[p] /\ failed[p] \subseteq failed'[p],
           events' \in [builds : Nat, installs : Nat, removals : Nat, others : Nat],
           events'.builds = events.builds,
           slot' \in Procs \cup {None},
           \A j \in Procs \ {i} : slot' = j <=> slot = j,
           l.pc = "probe" <=> slot' = i,
           proc'[i] = l => ProbeIsBacked(i)',
           \A p \in Packs : EvidenceIsBacked(p)'
    PROVE  ReadinessInv'
<1>1. proc \in [Procs -> Locals] /\ \A j \in Procs : ProbeIsBacked(j)
  BY DEF ReadinessInv, ReadinessTypeOK
<1>2. proc' \in [Procs -> Locals] /\ proc'[i] = l /\ \A j \in Procs \ {i} : proc'[j] = proc[j]
  BY <1>1 DEF Become
<1>3. ASSUME NEW j \in Procs PROVE ProbeIsBacked(j)'
  <2>1. CASE j = i
    BY <1>2, <2>1
  <2>2. CASE j # i
    <3>1. proc'[j] = proc[j] /\ ProbeIsBacked(j) /\ proc[j] \in Locals
      BY <1>1, <1>2, <2>2
    <3>2. \A d \in Packs : Dependencies[d] \subseteq Packs
      BY DependenciesAssumption
    <3> QED
      BY <3>1, <3>2 DEF ProbeIsBacked
  <2> QED
    BY <2>1, <2>2
<1>4. EventsAreCounted'
  BY DEF ReadinessInv, EventsAreCounted
<1>5. ReadinessTypeOK'
  <2>1. ASSUME NEW j \in Procs PROVE At(j, "probe")' <=> slot' = j
    BY <1>2 DEF At, ReadinessInv, ReadinessTypeOK
  <2>2. ASSUME NEW j \in Procs PROVE proc'[j].pc \in {"runtime", "smoke"} => exercised'[proc'[j].pack] # {}
    BY <1>3 DEF ProbeIsBacked
  <2> QED
    BY <1>2, <2>1, <2>2 DEF ReadinessInv, ReadinessTypeOK
<1> QED
  BY <1>3, <1>4, <1>5 DEF ReadinessInv

\* Evidence that is not written is as good as it was.
LEMMA EvidenceStays ==
    ASSUME ReadinessInv, UNCHANGED <<runtime, runtimeJson>>, events'.builds = events.builds,
           \A p \in Packs : exercised[p] \subseteq exercised'[p]
    PROVE  \A p \in Packs : EvidenceIsBacked(p)'
BY DEF ReadinessInv, EvidenceIsBacked, Probed

LEMMA RuntimeIsNumbered ==
    ASSUME ReadinessInv
    PROVE  /\ events.builds \in Nat /\ 1 .. events.builds \subseteq Runtimes
           /\ runtime # None => runtime \in 1 .. events.builds /\ runtime \in Runtimes
           /\ None \notin Procs /\ None \notin Packs /\ None \notin Runtimes
           /\ None \notin RuntimeEvidence
<1>1. MaxBuilds \in Nat
  BY BoundsAssumption
<1> QED
  BY <1>1, NoneAssumption DEF ReadinessInv, EventsAreCounted, ReadinessTypeOK, Runtimes

LEMMA TypesOfInv ==
    ASSUME ReadinessInv
    PROVE  /\ installed \subseteq Packs /\ runtime \in Runtimes \cup {None}
           /\ runtimeJson \in [Packs -> RuntimeEvidence \cup {None}]
           /\ smokeJson \in [Packs -> Runtimes \cup {None}]
           /\ slot \in Procs \cup {None}
           /\ proc \in [Procs -> Locals]
           /\ exercised \in [Packs -> SUBSET Runtimes]
           /\ failed \in [Packs -> SUBSET (Runtimes \X {"fatal", "refused"})]
           /\ events \in [builds : Nat, installs : Nat, removals : Nat, others : Nat]
           /\ \A i \in Procs : (proc[i].pc = "probe") <=> slot = i
BY DEF ReadinessInv, ReadinessTypeOK, EventsAreCounted, At

(***************************************************************************)
(* The steps of smoke_test.                                                *)
(***************************************************************************)
LEMMA Beginning ==
    ASSUME ReadinessInv, NEW i \in Procs, NEW p \in Packs, SmokeTest(i, p)
    PROVE  ReadinessInv'
<1> DEFINE l == [Idle EXCEPT !.pc = "resolve", !.probed = p, !.pack = p, !.fingerprint = runtime]
<1>1. runtime \in 1 .. events.builds /\ runtime \in Runtimes /\ proc[i].pc = "idle"
  BY RuntimeIsNumbered DEF SmokeTest, At
<1>2. /\ l \in Locals /\ l.pc = "resolve" /\ l.probed = p /\ l.pack = p /\ l.fingerprint = runtime
  BY <1>1 DEF Idle, Locals
<1>3. /\ Become(i, l) /\ UNCHANGED <<disk, slot, history, events>>
  BY DEF SmokeTest
<1> HIDE DEF l
<1>4. proc'[i] = l => ProbeIsBacked(i)'
  BY <1>1, <1>2, <1>3 DEF ProbeIsBacked
<1>5. \A q \in Packs : EvidenceIsBacked(q)'
  BY <1>3, EvidenceStays DEF disk, history
<1> QED
  BY <1>1, <1>2, <1>3, <1>4, <1>5, TypesOfInv, ProbeStep DEF disk, history

\* A probe that stops is backed; so is one that goes on within its first part.
LEMMA Stopping ==
    ASSUME ReadinessInv, NEW i \in Procs, Become(i, Idle), UNCHANGED <<disk, history>>,
           events' \in [builds : Nat, installs : Nat, removals : Nat, others : Nat],
           events'.builds = events.builds, slot' = SlotWithout(i)
    PROVE  ReadinessInv'
<1>1. Idle \in Locals /\ Idle.pc = "idle"
  BY DEF Idle, Locals
<1>2. proc'[i] = Idle => ProbeIsBacked(i)'
  BY <1>1 DEF ProbeIsBacked
<1>3. \A p \in Packs : EvidenceIsBacked(p)'
  BY EvidenceStays DEF disk, history
<1>4. /\ slot' \in Procs \cup {None} /\ slot' # i
      /\ \A j \in Procs \ {i} : slot' = j <=> slot = j
  BY TypesOfInv, RuntimeIsNumbered DEF SlotWithout
<1> QED
  BY <1>1, <1>2, <1>3, <1>4, TypesOfInv, ProbeStep DEF disk, history

LEMMA Giving ==
    ASSUME ReadinessInv, NEW i \in Procs, NEW why \in {"fatal", "refused"},
           proc[i].pc \in {"resolve", "probe"}, Fail(i, why), slot' = SlotWithout(i),
           UNCHANGED <<disk, exercised>>,
           events' \in [builds : Nat, installs : Nat, removals : Nat, others : Nat],
           events'.builds = events.builds
    PROVE  ReadinessInv'
<1> DEFINE l == [proc[i] EXCEPT !.pc = "fail"]
           q == proc[i].probed
<1>1. /\ proc[i] \in Locals /\ ProbeIsBacked(i)
  BY TypesOfInv DEF ReadinessInv
<1>2. /\ q \in Packs /\ proc[i].pack = q /\ proc[i].fingerprint \in 1 .. events.builds
  BY <1>1 DEF ProbeIsBacked
<1>3. /\ l \in Locals /\ l.pc = "fail" /\ l.probed = q /\ l.pack = q
      /\ l.fingerprint \in 1 .. events.builds
  BY <1>1, <1>2 DEF Locals
<1>4. /\ Become(i, l)
      /\ failed' = IF runtime = None THEN failed
                   ELSE [failed EXCEPT ![q] = @ \cup {<<runtime, why>>}]
  BY DEF Fail, Goto
<1>5. /\ failed' \in [Packs -> SUBSET (Runtimes \X {"fatal", "refused"})]
      /\ \A p \in Packs : failed[p] \subseteq failed'[p]
      /\ runtime # None => \E f \in failed'[q] : f[1] = runtime
  <2>1. CASE runtime = None
    BY <1>4, <2>1, TypesOfInv
  <2>2. CASE runtime # None
    <3>1. <<runtime, why>> \in Runtimes \X {"fatal", "refused"} /\ <<runtime, why>>[1] = runtime
      BY <2>2, RuntimeIsNumbered
    <3>2. failed' = [failed EXCEPT ![q] = @ \cup {<<runtime, why>>}]
      BY <1>4, <2>2
    <3>3. <<runtime, why>> \in failed'[q]
      BY <1>2, <3>2, TypesOfInv
    <3>4. failed' \in [Packs -> SUBSET (Runtimes \X {"fatal", "refused"})]
      BY <1>2, <3>1, <3>2, TypesOfInv
    <3>5. \A p \in Packs : failed[p] \subseteq failed'[p]
      BY <1>2, <3>2, TypesOfInv
    <3> QED
      BY <3>1, <3>3, <3>4, <3>5
  <2> QED
    BY <2>1, <2>2
<1> HIDE DEF l, q
<1>6. /\ slot' \in Procs \cup {None} /\ slot' # i
      /\ \A j \in Procs \ {i} : slot' = j <=> slot = j
  BY TypesOfInv, RuntimeIsNumbered DEF SlotWithout
<1>7. proc'[i] = l => ProbeIsBacked(i)'
  BY <1>2, <1>3, <1>5, RuntimeIsNumbered DEF ProbeIsBacked, disk
<1>8. \A p \in Packs : EvidenceIsBacked(p)'
  BY EvidenceStays DEF disk
<1> QED
  BY <1>3, <1>4, <1>5, <1>6, <1>7, <1>8, TypesOfInv, ProbeStep DEF disk

LEMMA Going ==
    ASSUME ReadinessInv, NEW i \in Procs,
           \/ proc[i].pc = "resolve" /\ Goto(i, "acquire") /\ slot' = slot
           \/ proc[i].pc = "acquire" /\ slot = None /\ Goto(i, "probe") /\ slot' = i,
           UNCHANGED <<disk, history, events>>
    PROVE  ReadinessInv'
<1>1. PICK pc \in {"acquire", "probe"} :
         /\ Goto(i, pc)
         /\ pc = "probe" <=> slot' = i
         /\ slot' \in Procs \cup {None} /\ \A j \in Procs \ {i} : slot' = j <=> slot = j
  BY TypesOfInv, RuntimeIsNumbered
<1> DEFINE l == [proc[i] EXCEPT !.pc = pc]
<1>2. /\ proc[i] \in Locals /\ ProbeIsBacked(i) /\ proc[i].pc \in {"resolve", "acquire"}
  BY TypesOfInv DEF ReadinessInv
<1>3. /\ l \in Locals /\ l.pc = pc /\ l.probed = proc[i].probed /\ l.pack = proc[i].pack
      /\ l.fingerprint = proc[i].fingerprint
  BY <1>2 DEF Locals
<1>4. Become(i, l)
  BY <1>1 DEF Goto
<1> HIDE DEF l
<1>5. proc'[i] = l => ProbeIsBacked(i)'
  BY <1>2, <1>3 DEF ProbeIsBacked
<1>6. \A p \in Packs : EvidenceIsBacked(p)'
  BY EvidenceStays DEF disk, history
<1> QED
  BY <1>1, <1>3, <1>4, <1>5, <1>6, TypesOfInv, ProbeStep DEF disk, history

\* The runtime that passes is the one whose fingerprint was read, if that one is still
\* the runtime's.
LEMMA Passing ==
    ASSUME ReadinessInv, NEW i \in Procs, Pass(i)
    PROVE  ReadinessInv'
<1> DEFINE q == proc[i].probed
           l == [proc[i] EXCEPT !.pc = "runtime", !.left = Dependencies[q]]
<1>1. /\ proc[i] \in Locals /\ ProbeIsBacked(i) /\ proc[i].pc = "probe" /\ slot = i
  BY TypesOfInv DEF ReadinessInv, Pass, At
<1>2. /\ q \in Packs /\ proc[i].pack = q /\ proc[i].fingerprint \in 1 .. events.builds
  BY <1>1 DEF ProbeIsBacked
<1>3. /\ l \in Locals /\ l.pc = "runtime" /\ l.probed = q /\ l.pack = q
      /\ l.fingerprint \in 1 .. events.builds /\ l.left = Dependencies[q]
      /\ Dependencies[q] \subseteq Packs
  BY <1>1, <1>2, DependenciesAssumption DEF Locals
<1>4. Become(i, l) /\ slot' = None /\ UNCHANGED <<disk, failed, events>> /\ runtime \in Runtimes
  BY WorkingAssumption DEF Pass
<1>5. /\ exercised' \in [Packs -> SUBSET Runtimes]
      /\ \A p \in Packs : exercised[p] \subseteq exercised'[p]
      /\ \A p \in {q} \cup Dependencies[q] : runtime \in exercised'[p]
  <2>1. exercised' = [p \in Packs |-> IF p \in {q} \cup Dependencies[q]
                                      THEN exercised[p] \cup {runtime} ELSE exercised[p]]
    BY DEF Pass
  <2> QED
    BY <1>2, <1>3, <1>4, <2>1, TypesOfInv
<1> HIDE DEF l, q
<1>6. proc'[i] = l => ProbeIsBacked(i)'
  BY <1>2, <1>3, <1>4, <1>5 DEF ProbeIsBacked, disk
<1>7. \A p \in Packs : EvidenceIsBacked(p)'
  BY <1>4, <1>5, EvidenceStays DEF disk
<1>8. slot' # i /\ \A j \in Procs \ {i} : slot' = j <=> slot = j
  BY <1>1, <1>4, RuntimeIsNumbered
<1> QED
  BY <1>3, <1>4, <1>5, <1>6, <1>7, <1>8, TypesOfInv, ProbeStep DEF disk

LEMMA Writing ==
    ASSUME ReadinessInv, NEW i \in Procs, WriteFailure(i) \/ WriteSuccess(i)
    PROVE  ReadinessInv'
<1>1. PICK success \in BOOLEAN, l \in {Idle, [proc[i] EXCEPT !.pc = "smoke"]} :
         /\ WriteRuntime(i, success) /\ Become(i, l)
         /\ success => proc[i].pc = "runtime" /\ l = [proc[i] EXCEPT !.pc = "smoke"]
         /\ ~success => l = Idle
  <2>1. CASE WriteFailure(i)
    <3>1. WriteRuntime(i, FALSE) /\ Become(i, Idle)
      BY <2>1 DEF WriteFailure
    <3> QED
      BY <3>1, Zenon
  <2>2. CASE WriteSuccess(i)
    <3>1. WriteRuntime(i, TRUE) /\ Become(i, [proc[i] EXCEPT !.pc = "smoke"]) /\ proc[i].pc = "runtime"
      BY <2>2 DEF WriteSuccess, Goto, At
    <3> QED
      BY <3>1, Zenon
  <2> QED
    BY <2>1, <2>2
<1> DEFINE p == proc[i].pack
           e == [fingerprint |-> proc[i].fingerprint, success |-> success]
<1>2. /\ proc[i] \in Locals /\ ProbeIsBacked(i) /\ proc[i].pc \in {"fail", "runtime"} /\ slot # i
      /\ UNCHANGED <<installed, runtime, smokeJson, slot, history, events>>
  BY TypesOfInv DEF ReadinessInv, WriteFailure, WriteSuccess, At
<1>3. /\ p \in Packs /\ proc[i].fingerprint \in 1 .. events.builds
  BY <1>2 DEF ProbeIsBacked
<1>4. /\ e \in RuntimeEvidence /\ e.fingerprint = proc[i].fingerprint /\ e.success = success
      /\ runtimeJson' = [runtimeJson EXCEPT ![p] = e]
  BY <1>1, <1>3, RuntimeIsNumbered DEF WriteRuntime, RuntimeEvidence
<1> HIDE DEF e
<1>5. runtimeJson' \in [Packs -> RuntimeEvidence \cup {None}]
  BY <1>3, <1>4, TypesOfInv
<1>6. ASSUME NEW q \in Packs PROVE EvidenceIsBacked(q)'
  <2>1. CASE q # p
    <3>1. runtimeJson'[q] = runtimeJson[q] /\ EvidenceIsBacked(q)
      BY <1>4, <2>1, TypesOfInv DEF ReadinessInv
    <3> QED
      BY <1>2, <3>1 DEF EvidenceIsBacked, Probed, history
  <2>2. CASE q = p
    <3>1. runtimeJson'[q] = e
      BY <1>3, <1>4, <2>2, TypesOfInv
    <3>2. p \notin Depended /\ e = [fingerprint |-> runtime, success |-> TRUE] =>
             runtime \in exercised[p]
      <4>1. success => proc[i].pc = "runtime"
        BY <1>1
      <4>2. e = [fingerprint |-> runtime, success |-> TRUE] =>
               e.fingerprint = runtime /\ e.success = TRUE
        OBVIOUS
      <4> QED
        BY <1>2, <1>4, <4>1, <4>2 DEF ProbeIsBacked
    <3> QED
      BY <1>2, <1>3, <1>4, <2>2, <3>1, <3>2 DEF EvidenceIsBacked, Probed, history
  <2> QED
    BY <2>1, <2>2
<1>7. l \in Locals /\ l.pc # "probe" /\ (proc'[i] = l => ProbeIsBacked(i)')
  <2>1. CASE success
    <3>1. /\ l \in Locals /\ l.pc = "smoke" /\ l.probed = proc[i].probed /\ l.pack = p
          /\ l.fingerprint = proc[i].fingerprint /\ l.left = proc[i].left /\ proc[i].pc = "runtime"
      BY <1>1, <1>2, <2>1 DEF Locals
    <3> QED
      BY <1>2, <3>1 DEF ProbeIsBacked, history
  <2>2. CASE ~success
    BY <1>1, <2>2 DEF Idle, Locals, ProbeIsBacked
  <2> QED
    BY <2>1, <2>2
<1> QED
  BY <1>1, <1>2, <1>5, <1>6, <1>7, TypesOfInv, ProbeStep DEF history

LEMMA Recording ==
    ASSUME ReadinessInv, NEW i \in Procs, WriteSmoke(i) \/ RecordDependency(i)
    PROVE  ReadinessInv'
<1>1. /\ proc[i] \in Locals /\ ProbeIsBacked(i) /\ proc[i].pc \in {"smoke", "dependency"}
      /\ slot # i /\ UNCHANGED <<installed, runtime, runtimeJson, slot, history, events>>
      /\ DOMAIN Dependencies = Packs /\ \A p \in Packs : Dependencies[p] \subseteq Packs
  BY TypesOfInv, DependenciesAssumption
  DEF ReadinessInv, WriteSmoke, RecordDependency, At, disk
<1>2. /\ proc[i].pack \in Packs /\ proc[i].probed \in Packs
      /\ proc[i].fingerprint \in 1 .. events.builds /\ proc[i].left \subseteq Dependencies[proc[i].probed]
      /\ \A q \in {proc[i].pack} \cup proc[i].left : exercised[q] # {}
  BY <1>1 DEF ProbeIsBacked
<1>3. smokeJson' \in [Packs -> Runtimes \cup {None}]
  BY <1>2, TypesOfInv, RuntimeIsNumbered DEF WriteSmoke, RecordDependency, disk
<1>4. PICK l \in Locals : Become(i, l) /\ l.pc # "probe" /\ (proc'[i] = l => ProbeIsBacked(i)')
  <2>1. CASE Become(i, Idle)
    BY <2>1 DEF Idle, Locals, ProbeIsBacked
  <2>2. CASE WriteSmoke(i) /\ Goto(i, "dependency")
    <3> DEFINE k == [proc[i] EXCEPT !.pc = "dependency"]
    <3>1. /\ k \in Locals /\ k.pc = "dependency" /\ k.probed = proc[i].probed /\ k.pack = proc[i].pack
          /\ k.fingerprint = proc[i].fingerprint /\ k.left = proc[i].left /\ Become(i, k)
      BY <1>1, <2>2 DEF Locals, Goto
    <3> HIDE DEF k
    <3>2. proc'[i] = k => ProbeIsBacked(i)'
      BY <1>1, <1>2, <3>1 DEF ProbeIsBacked, history
    <3> QED
      BY <3>1, <3>2
  <2>3. ASSUME NEW d \in proc[i].left, runtime # None,
               Become(i, [proc[i] EXCEPT !.pc = "runtime", !.pack = d,
                                         !.fingerprint = runtime, !.left = @ \ {d}])
        PROVE  \E l \in Locals : Become(i, l) /\ l.pc # "probe" /\ (proc'[i] = l => ProbeIsBacked(i)')
    <3> DEFINE k == [proc[i] EXCEPT !.pc = "runtime", !.pack = d,
                                    !.fingerprint = runtime, !.left = @ \ {d}]
    <3>1. runtime \in 1 .. events.builds /\ runtime \in Runtimes /\ d \in Packs /\ d \in Depended
      BY <1>1, <1>2, <2>3, RuntimeIsNumbered DEF Depended
    <3>2. /\ k \in Locals /\ k.pc = "runtime" /\ k.probed = proc[i].probed /\ k.pack = d
          /\ k.fingerprint = runtime /\ k.left = proc[i].left \ {d}
      BY <1>1, <3>1 DEF Locals
    <3>3. Become(i, k)
      BY <2>3
    <3> HIDE DEF k
    <3>4. proc'[i] = k => ProbeIsBacked(i)'
      BY <1>1, <1>2, <3>1, <3>2 DEF ProbeIsBacked, history
    <3> QED
      BY <3>2, <3>3, <3>4
  <2> QED
    BY <2>1, <2>2, <2>3 DEF WriteSmoke, RecordDependency
<1>5. \A p \in Packs : EvidenceIsBacked(p)'
  BY <1>1, EvidenceStays DEF history
<1> QED
  BY <1>1, <1>3, <1>4, <1>5, TypesOfInv, ProbeStep DEF history

(***************************************************************************)
(* Around it.                                                              *)
(***************************************************************************)
LEMMA Changing ==
    ASSUME ReadinessInv, Environment
    PROVE  ReadinessInv'
<1>1. /\ UNCHANGED <<slot, proc, history>>
      /\ events' \in [builds : Nat, installs : Nat, removals : Nat, others : Nat]
      /\ installed' \subseteq Packs
      /\ runtimeJson' \in [Packs -> RuntimeEvidence \cup {None}]
      /\ smokeJson' \in [Packs -> Runtimes \cup {None}]
      /\ \A p \in Packs : runtimeJson'[p] \in {runtimeJson[p], None}
  BY TypesOfInv DEF Environment, Install, Remove, Build, TearDown, Happens
<1>2. /\ events'.builds \in Nat /\ events.builds <= events'.builds /\ events'.builds <= MaxBuilds
      /\ runtime' \in {None, events'.builds}
      /\ runtime' = runtime \/ runtime' = None \/ runtime' = events.builds + 1
      /\ runtime' \in Runtimes \cup {None}
  <2>1. /\ MaxBuilds \in Nat /\ events.builds \in Nat /\ events.builds <= MaxBuilds
        /\ runtime \in {None, events.builds}
    BY BoundsAssumption DEF ReadinessInv, EventsAreCounted
  <2>2. CASE Build
    <3>1. events'.builds = events.builds + 1 /\ runtime' = events.builds + 1 /\ events.builds < MaxBuilds
      BY <2>2, TypesOfInv DEF Build, Happens
    <3> QED
      BY <2>1, <3>1 DEF Runtimes
  <2>3. CASE TearDown
    BY <2>1, <2>3 DEF TearDown
  <2>4. ASSUME NEW p \in Packs, Install(p) \/ Remove(p)
        PROVE  events'.builds = events.builds /\ runtime' = runtime
    BY <2>4, TypesOfInv DEF Install, Remove, Happens
  <2> QED
    BY <2>1, <2>2, <2>3, <2>4, TypesOfInv DEF Environment
\* What was read and is not the runtime's any more will not be again.
<1>3. \A f \in 1 .. events.builds : f \in 1 .. events'.builds /\ (f = runtime' => f = runtime)
  BY <1>2, RuntimeIsNumbered
<1>4. ASSUME NEW j \in Procs PROVE ProbeIsBacked(j)'
  BY <1>1, <1>3 DEF ProbeIsBacked, ReadinessInv, history
<1>5. ASSUME NEW p \in Packs PROVE EvidenceIsBacked(p)'
  <2>1. EvidenceIsBacked(p)
    BY DEF ReadinessInv
  <2>2. CASE runtimeJson'[p] = None
    <3> DEFINE e == [fingerprint |-> runtime', success |-> TRUE]
    <3>1. runtime' # None => e # None
      <4>1. \A f \in Runtimes : [fingerprint |-> f, success |-> TRUE] \in RuntimeEvidence
        BY DEF RuntimeEvidence
      <4>2. runtime' # None => e \in RuntimeEvidence
        BY <1>2, <4>1
      <4> QED
        BY <4>2, RuntimeIsNumbered
    <3>2. Probed(p, TRUE)' => runtimeJson'[p] = e
      BY DEF Probed
    <3> HIDE DEF e
    <3> QED
      BY <2>2, <3>1, <3>2 DEF EvidenceIsBacked
  <2>3. CASE runtimeJson'[p] = runtimeJson[p] /\ runtimeJson[p] # None
    <3>1. runtimeJson[p].fingerprint \in 1 .. events.builds
      BY <2>1, <2>3 DEF EvidenceIsBacked
    <3>2. Probed(p, TRUE)' => runtime' = runtime
      BY <1>3, <2>3, <3>1 DEF Probed
    <3> QED
      BY <1>1, <1>3, <2>1, <2>3, <3>1, <3>2 DEF EvidenceIsBacked, Probed, history
  <2> QED
    BY <1>1, <2>2, <2>3
<1>6. ReadinessTypeOK' /\ EventsAreCounted'
  BY <1>1, <1>2, TypesOfInv DEF ReadinessInv, ReadinessTypeOK, EventsAreCounted, At, history
<1> QED
  BY <1>4, <1>5, <1>6 DEF ReadinessInv

(***************************************************************************)
(* The invariant, and what follows from it.                                *)
(***************************************************************************)
LEMMA ReadinessStep ==
    ASSUME ReadinessInv, [Next]_vars
    PROVE  ReadinessInv'
<1>1. CASE UNCHANGED vars
  BY <1>1
  DEF vars, ReadinessInv, ReadinessTypeOK, EventsAreCounted, At, ProbeIsBacked, EvidenceIsBacked, Probed
<1>2. CASE Environment
  BY <1>2, Changing
<1>3. ASSUME NEW i \in Procs, \/ Step(i) \/ FailAfterRender(i) \/ FailForNow(i) \/ Kill(i)
                              \/ \E p \in Packs : SmokeTest(i, p)
      PROVE  ReadinessInv'
  <2>1. CASE Resolve(i)
    <3>1. /\ proc[i].pc = "resolve" /\ UNCHANGED <<disk, slot, exercised, events>> /\ slot # i
          /\ events \in [builds : Nat, installs : Nat, removals : Nat, others : Nat]
          /\ (Goto(i, "acquire") /\ UNCHANGED failed) \/ Fail(i, "refused")
      BY <2>1, TypesOfInv DEF Resolve, At
    <3> QED
      BY <3>1, Going, Giving DEF SlotWithout, history
  <2>2. CASE Acquire(i)
    BY <2>2, Going DEF Acquire, At
  <2>3. CASE FindBusy(i) \/ FailForNow(i) \/ Kill(i)
    <3>1. /\ Become(i, Idle) /\ UNCHANGED <<disk, history>>
          /\ slot' = SlotWithout(i)
      BY <2>3, TypesOfInv DEF FindBusy, FailForNow, Kill, At, SlotWithout
    <3>2. /\ events' \in [builds : Nat, installs : Nat, removals : Nat, others : Nat]
          /\ events'.builds = events.builds
      BY <2>3, TypesOfInv DEF FindBusy, FailForNow, Kill, Happens
    <3> QED
      BY <3>1, <3>2, Stopping
  <2>4. CASE Pass(i)
    BY <2>4, Passing
  <2>5. CASE FailForGood(i) \/ FailAfterRender(i)
    <3>1. PICK why \in {"fatal", "refused"} : Fail(i, why)
      BY <2>5 DEF FailForGood, FailAfterRender
    <3>2. /\ proc[i].pc = "probe" /\ slot' = SlotWithout(i) /\ UNCHANGED <<disk, exercised>>
          /\ events' \in [builds : Nat, installs : Nat, removals : Nat, others : Nat]
          /\ events'.builds = events.builds
      BY <2>5, TypesOfInv DEF FailForGood, FailAfterRender, Happens, At, SlotWithout
    <3> QED
      BY <3>1, <3>2, Giving
  <2>6. CASE WriteFailure(i) \/ WriteSuccess(i)
    BY <2>6, Writing
  <2>7. CASE WriteSmoke(i) \/ RecordDependency(i)
    BY <2>7, Recording
  <2>8. CASE \E p \in Packs : SmokeTest(i, p)
    BY <2>8, Beginning
  <2> QED
    BY <1>3, <2>1, <2>2, <2>3, <2>4, <2>5, <2>6, <2>7, <2>8 DEF Step
<1> QED
  BY <1>1, <1>2, <1>3 DEF Next

THEOREM ReadinessInvariant == Spec => []ReadinessInv
<1>1. Init => ReadinessInv
  BY NoneAssumption, BoundsAssumption
  DEF Init, ReadinessInv, ReadinessTypeOK, EventsAreCounted, ProbeIsBacked, EvidenceIsBacked,
      Idle, Locals, At, Probed
<1> QED
  BY <1>1, ReadinessStep, PTL DEF Spec

\* Types; the slot is held by the process that probes; a probe that is about to write
\* that it passed has passed.
THEOREM ReadinessTypes == Spec => []ReadinessTypeOK
<1>1. ReadinessInv => ReadinessTypeOK
  BY DEF ReadinessInv
<1> QED
  BY <1>1, ReadinessInvariant, PTL

\* A set of packs that support each other is ready, and the ready packs are one.
LEMMA ReadyPacksSupport ==
    /\ ReadyPacks \subseteq Packs /\ Closed(ReadyPacks) /\ \A p \in ReadyPacks : Tested(p)
    /\ \A R \in SUBSET Packs : Closed(R) /\ (\A p \in R : Tested(p)) => R \subseteq ReadyPacks
BY DEF ReadyPacks, Closed

LEMMA ReadyIsInReadyPacks ==
    ASSUME NEW p \in Packs
    PROVE  readiness[p] = "ready" <=> p \in ReadyPacks
<1>1. readiness[p] = "ready" => p \in ReadyPacks
  BY DEF readiness
<1>2. ASSUME p \in ReadyPacks PROVE readiness[p] = "ready"
  <2>1. p \in installed /\ Probed(p, TRUE)
    BY <1>2, ReadyPacksSupport DEF Tested
  <2>2. ~Probed(p, FALSE)
    BY <2>1 DEF Probed
  <2> QED
    BY <1>2, <2>1, <2>2 DEF readiness
<1> QED
  BY <1>1, <1>2

\* READY of a pack nothing depends on: a synthesis passed with the runtime of now.
THEOREM ReadyWasExercised == Spec => []ReadyIsExercised
<1>1. ReadinessInv => ReadyIsExercised
  <2> SUFFICES ASSUME ReadinessInv, NEW p \in Packs \ Depended, readiness[p] = "ready"
               PROVE  runtime \in exercised[p]
    BY DEF ReadyIsExercised
  <2>1. Tested(p)
    BY ReadyIsInReadyPacks, ReadyPacksSupport
  <2> QED
    BY <2>1 DEF Tested, Smoked, ReadinessInv, EvidenceIsBacked
<1> QED
  BY <1>1, ReadinessInvariant, PTL

\* Evidence of the runtime that is there is not overwritten by anything else, unless a
\* probe disproves it.
LEMMA EvidenceIsKept ==
    ASSUME ReadinessInv, Next, runtime' = runtime, NEW q \in Packs, Tested(q), q \in installed',
           \A i \in Procs : ~Disproves(i, q)
    PROVE  Tested(q)'
<1>1. /\ runtime # None /\ smokeJson[q] = runtime
      /\ runtimeJson[q] = [fingerprint |-> runtime, success |-> TRUE]
  BY DEF Tested, Probed, Smoked
<1>2. runtimeJson'[q] = runtimeJson[q] /\ smokeJson'[q] = smokeJson[q]
  <2>1. CASE Environment
    BY <2>1, TypesOfInv DEF Environment, Install, Remove, Build, TearDown
  <2>2. ASSUME NEW i \in Procs, \/ Step(i) \/ FailAfterRender(i) \/ FailForNow(i) \/ Kill(i)
                                \/ \E p \in Packs : SmokeTest(i, p)
        PROVE  runtimeJson'[q] = runtimeJson[q] /\ smokeJson'[q] = smokeJson[q]
    <3>1. CASE WriteFailure(i)
      <4>1. proc[i].pc = "fail" /\ ProbeIsBacked(i)
        BY <3>1 DEF WriteFailure, At, ReadinessInv
      <4>2. proc[i].pack # q
        BY <4>1 DEF Disproves, ProbeIsBacked, At
      <4> QED
        BY <3>1, <4>2, TypesOfInv DEF WriteFailure, WriteRuntime
    <3>2. CASE WriteSuccess(i)
      <4>1. proc[i].pack = q => proc[i].fingerprint = runtime
        BY <3>2 DEF Disproves, WriteSuccess, At
      <4> QED
        BY <1>1, <3>2, <4>1, TypesOfInv DEF WriteSuccess, WriteRuntime
    <3>3. CASE WriteSmoke(i)
      <4>1. proc[i].pack = q => proc[i].fingerprint = runtime
        BY <3>3 DEF Disproves, WriteSmoke, At
      <4> QED
        BY <1>1, <3>3, <4>1, TypesOfInv DEF WriteSmoke
    <3> QED
      BY <2>2, <3>1, <3>2, <3>3
      DEF Step, Resolve, Acquire, FindBusy, Pass, FailForGood, RecordDependency,
          FailAfterRender, FailForNow, Kill, SmokeTest, disk
  <2> QED
    BY <2>1, <2>2 DEF Next
<1> QED
  BY <1>1, <1>2 DEF Tested, Probed, Smoked

\* READY is only lost with the runtime or with files, or to a probe that disproves it.
THEOREM ReadyKept == Spec => ReadyIsKept
<1>1. ASSUME ReadinessInv, [Next]_vars
      PROVE  [\A p \in Packs : readiness[p] = "ready" /\ readiness'[p] # "ready" =>
                \/ runtime' # runtime
                \/ RestsOn(p) \ installed' # {}
                \/ \E i \in Procs, q \in RestsOn(p) : Disproves(i, q)]_vars
  <2> SUFFICES ASSUME Next, NEW p \in Packs, readiness[p] = "ready", runtime' = runtime,
                      RestsOn(p) \subseteq installed',
                      \A i \in Procs, q \in RestsOn(p) : ~Disproves(i, q)
               PROVE  readiness'[p] = "ready"
    BY <1>1
  <2>1. p \in ReadyPacks
    BY ReadyIsInReadyPacks
  <2>2. RestsOn(p) \subseteq ReadyPacks /\ p \in RestsOn(p)
    BY <2>1, ReadyPacksSupport DEF RestsOn
  <2>3. \A q \in RestsOn(p) : Tested(q)'
    BY <1>1, <2>2, ReadyPacksSupport, EvidenceIsKept DEF RestsOn
  <2>4. RestsOn(p) \in SUBSET Packs /\ Closed(RestsOn(p))
    BY DependenciesAssumption DEF RestsOn, Closed
  <2>5. RestsOn(p) \subseteq ReadyPacks'
    BY <2>3, <2>4 DEF ReadyPacks, Closed
  <2>6. p \in ReadyPacks'
    BY <2>2, <2>5
  <2>7. Tested(p)'
    BY <2>2, <2>3
  <2> QED
    BY <2>6, <2>7 DEF readiness, Tested, Probed
<1> QED
  BY <1>1, ReadinessInvariant, PTL DEF Spec, ReadyIsKept

=============================================================================
