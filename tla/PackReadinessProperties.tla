----------------------- MODULE PackReadinessProperties -----------------------
(***************************************************************************)
(* What READY is worth: probes of several packs run beside each other and  *)
(* beside whoever rebuilds the runtime, are killed between two evidence    *)
(* files, and find the slot busy.                                          *)
(***************************************************************************)
EXTENDS PackReadiness

\* Types; the slot is held by the process that probes; and whoever is writing that
\* its probe passed has seen it pass.
ReadinessTypeOK ==
    /\ installed \subseteq Packs
    /\ runtime \in Runtimes \cup {None}
    /\ runtimeJson \in [Packs -> RuntimeEvidence \cup {None}]
    /\ smokeJson \in [Packs -> Runtimes \cup {None}]
    /\ slot \in Procs \cup {None}
    /\ proc \in [Procs -> Locals]
    /\ exercised \in [Packs -> SUBSET Runtimes]
    /\ failed \in [Packs -> SUBSET (Runtimes \X {"fatal", "refused"})]
    /\ \A i \in Procs : At(i, "probe") <=> slot = i
    /\ \A i \in Procs : proc[i].pc \in {"runtime", "smoke"} => exercised[proc[i].pack] # {}

Depended == UNION {Dependencies[p] : p \in Packs}

\* docs/phase-4-pr14-managed-model-packs.md:58 and :61: ready means that an offline
\* synthesis passed with the runtime that is there now, although the two files are
\* written one after the other, by any number of probes, each with a fingerprint it
\* read before the runtime may have been rebuilt.  For the packs nothing depends on.
ReadyIsExercised ==
    \A p \in Packs \ Depended : readiness[p] = "ready" => runtime \in exercised[p]

\* The same of every pack: a dependency is recorded under the fingerprint its runtime
\* has after the probe, which may be one that was never exercised.
DependencyIsExercised ==
    \A p \in Packs : readiness[p] = "ready" => runtime \in exercised[p]

\* A probe of the pack is about to write what takes READY away: it began with another
\* runtime, or it met a failure that smoke_test takes for deterministic.
Disproves(i, p) ==
    /\ proc[i].pack = p /\ proc[i].pc \in {"fail", "runtime", "smoke"}
    /\ \/ proc[i].fingerprint # runtime
       \/ At(i, "fail") /\ \E f \in failed[p] : f[1] = runtime

\* The pack, its dependencies, theirs, and so on.
RestsOn(p) == {q \in Packs : \A R \in SUBSET Packs : p \in R /\ Closed(R) => q \in R}

\* manager.py:129-130: a busy slot, a transient failure or a kill, and the success of
\* another probe in the middle of its writes, never take READY from a pack.
ReadyIsKept ==
    [][\A p \in Packs : readiness[p] = "ready" /\ readiness'[p] # "ready" =>
          \/ runtime' # runtime
          \/ RestsOn(p) \ installed' # {}
          \/ \E i \in Procs, q \in RestsOn(p) : Disproves(i, q)]_vars

\* manager.py:127: a failure that is recorded proves that this exact runtime cannot be
\* used.  (A companion that is not runnable is recorded as one.)
FailureProvesRuntime ==
    \A p \in Packs : readiness[p] = "incompatible" => <<runtime, "fatal">> \in failed[p]

\* A pack whose own record of a failure has its every later probe refused: the
\* tokenizer, which _moss wants runnable even when it is what is probed, and two packs
\* each of which is recorded as incompatible because the other is.
Deadlocked ==
    \E p \in Packs : /\ readiness[p] = "incompatible"
                     /\ \E q \in Companions[p] :
                           readiness[q] = "incompatible" /\ p \in Companions[q]

Usable == runtime \in Working /\ installed = Packs

\* Probes do not overlap: two that do can refuse each other's pack again and again.
Alone == Cardinality({i \in Procs : ~At(i, "idle")}) <= 1

\* With a working runtime and all packs installed for good, probing each pack again
\* and again makes all of them ready, whatever older runtimes, kills and earlier
\* failures have left on disk; only packs that exclude each other stay where they are.
ReadyInTheEnd ==
    <>[](Usable /\ Alone) => <>[](Deadlocked \/ \A p \in Packs : readiness[p] = "ready")

\* Users probe every pack, and do not find the slot taken every time.
FairSpec ==
    /\ Spec
    /\ \A i \in Procs :
          /\ WF_vars(Step(i))
          /\ \A p \in Packs : /\ SF_vars(SmokeTest(i, p))
                              /\ SF_vars(Acquire(i) /\ proc[i].probed = p)

-----------------------------------------------------------------------------
(***************************************************************************)
(* The inductive invariant behind them: a runtime that has been replaced   *)
(* never comes back, so a fingerprint that is still the runtime's has been *)
(* all along, also when the probe passed or failed.                        *)
(***************************************************************************)
EventsAreCounted ==
    /\ events \in [builds : Nat, installs : Nat, removals : Nat, others : Nat]
    /\ events.builds <= MaxBuilds
    /\ runtime \in {None, events.builds}

\* The pack a probe writes evidence for has been exercised, and with the runtime of
\* its fingerprint if that one is still there, or has failed with it.
ProbeIsBacked(i) ==
    LET l == proc[i] IN
    l.pc # "idle" =>
       /\ l.probed \in Packs /\ l.pack \in Packs /\ l.fingerprint \in 1 .. events.builds
       /\ l.pc \in {"resolve", "acquire", "probe", "fail"} => l.pack = l.probed
       /\ l.pc \in {"runtime", "smoke", "dependency"} =>
             /\ l.left \subseteq Dependencies[l.probed]
             /\ \A q \in {l.pack} \cup l.left : exercised[q] # {}
       /\ l.pc \in {"runtime", "smoke"} /\ l.pack \notin Depended /\ l.fingerprint = runtime =>
             runtime \in exercised[l.pack]
       /\ l.pc = "fail" /\ l.fingerprint = runtime => \E f \in failed[l.pack] : f[1] = runtime

EvidenceIsBacked(p) ==
    /\ runtimeJson[p] # None => runtimeJson[p].fingerprint \in 1 .. events.builds
    /\ p \notin Depended /\ runtime # None /\ Probed(p, TRUE) => runtime \in exercised[p]

ReadinessInv ==
    /\ ReadinessTypeOK
    /\ EventsAreCounted
    /\ \A i \in Procs : ProbeIsBacked(i)
    /\ \A p \in Packs : EvidenceIsBacked(p)
=============================================================================
