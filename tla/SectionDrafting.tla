--------------------------- MODULE SectionDrafting ---------------------------
(***************************************************************************)
(* LocalMeditationGenerator.generate over its workspace: the plan first,   *)
(* then every section by one thread or by two, bounded repair of what the  *)
(* model answers, a checkpoint for each valid answer, the estimate, and    *)
(* the two outputs.  Commands are interrupted, killed and asked again.     *)
(*                                                                         *)
(* A text is the sequence of its sentences, all of one length.  A sentence *)
(* may claim an effect or name a condition; the safety patterns refuse a   *)
(* claim that is followed closely by a condition.  Raw model output is     *)
(* never read back and is left out.                                        *)
(***************************************************************************)
EXTENDS Naturals, Sequences, FiniteSets, FiniteSetsExt

CONSTANTS Procs,          \* processes of `whoopy draft` or `whoopy generate`
          Inputs,         \* what request.json binds a workspace to
          NSections, Threads, MaxAttempts,
          Plans,          \* word budgets the model's plan may lead to
          Responses,      \* texts the model may answer with
          Refusals,       \* the answers it may give that are not valid, see refusals
          Target, Tolerance,       \* of the estimate, in sentences
          MaxFailures, MaxStops,   \* bounds on the adapter's errors and on stops
          None

Sections == 1..NSections

ASSUME SectionsAssumption == NSections \in Nat \ {0}
ASSUME ThreadsAssumption == Threads \in {1, 2}
ASSUME AttemptsAssumption == MaxAttempts \in Nat \ {0}
ASSUME PlansAssumption == Plans \subseteq [least : Nat \ {0}, most : Nat]
ASSUME ResponsesAssumption == Responses \subseteq Seq({"plain", "claims", "names"})
ASSUME RefusalsAssumption == Refusals \subseteq [0..NSections -> 0..MaxAttempts]
ASSUME EstimateAssumption == {Target, Tolerance, MaxFailures, MaxStops} \subseteq Nat

VARIABLES
    request,     \* request.json
    plan,        \* plan.json
    sections,    \* sections/<id>.json
    script, timeline,   \* script.md and timeline.json: the texts they were made of
    proc,        \* per process: where generate is, its locals and its jobs
    refusals,    \* for the plan, 0, and per section: how many of the model's answers
                 \* are refused.  It never changes: prompt, model and seed are pinned.
                 \* What a valid answer says is left open
    events       \* errors of the adapter and stops so far

vars == <<request, plan, sections, script, timeline, proc, refusals, events>>

outputs == <<script, timeline>>

Texts == Seq({"plain", "claims", "names"})

ASSUME NoneAssumption ==
    None \notin Inputs \cup Plans \cup Texts \cup [Sections -> Texts]

\* validate_meditation_text
Safe(text) ==
    \A i \in 1..(Len(text) - 1) : ~(text[i] = "claims" /\ text[i + 1] = "names")

WithinBudget(text, p) == Len(text) \in p.least..p.most

\* load_section: what a checkpoint must be to be used again.
Valid(text, p) == WithinBudget(text, p) /\ Safe(text)

\* _fit_complete_sentences takes the sentences in the order of their relevance,
\* which may be any, as long as they fit.
Fitted(text, p) ==
    LET chosen == IF Len(text) <= p.most THEN {1..Len(text)}
                  ELSE kSubset(p.most, 1..Len(text))
        Place(set, i) == CHOOSE k \in set : Cardinality({j \in set : j <= k}) = i
    IN {[i \in 1..Cardinality(set) |-> text[Place(set, i)]] : set \in chosen}

Working == {"load", "call", "save"}

JobStates == {"queued", "done", "failed"} \cup Working

Job == [state   : JobStates,
        attempt : 1..MaxAttempts,
        text    : Texts \cup {None}]     \* the section it answers with

NewJob == [state |-> "queued", attempt |-> 1, text |-> None]

Locals == [pc      : {"idle", "prepare", "plan", "savePlan", "draft", "drain",
                      "estimate", "script", "timeline"},
           input   : Inputs \cup {None},
           plan    : Plans \cup {None},
           attempt : 1..MaxAttempts,
           job     : [Sections -> Job]]

Idle == [pc |-> "idle", input |-> None, plan |-> None, attempt |-> 1,
         job |-> [s \in Sections |-> NewJob]]

Init ==
    /\ request = None /\ plan = None /\ script = None /\ timeline = None
    /\ sections = [s \in Sections |-> None]
    /\ proc = [i \in Procs |-> Idle]
    /\ refusals \in Refusals
    /\ events = [failures |-> 0, stops |-> 0]

-----------------------------------------------------------------------------
At(i, pc) == proc[i].pc = pc

Become(i, l) == proc' = [proc EXCEPT ![i] = l]

Goto(i, pc) == Become(i, [proc[i] EXCEPT !.pc = pc])

Ask(i, input) ==
    /\ At(i, "idle")
    /\ Become(i, [Idle EXCEPT !.pc = "prepare", !.input = input])
    /\ UNCHANGED <<request, plan, sections, outputs, events, refusals>>

\* GenerationWorkspace.prepare: a workspace of other inputs is refused.
Prepare(i) ==
    /\ At(i, "prepare")
    /\ IF request \in {None, proc[i].input}
       THEN request' = proc[i].input /\ Goto(i, "plan")
       ELSE Become(i, Idle) /\ UNCHANGED request
    /\ UNCHANGED <<plan, sections, outputs, events, refusals>>

LoadPlan(i) ==
    /\ At(i, "plan") /\ plan # None
    /\ Become(i, [proc[i] EXCEPT !.pc = "draft", !.plan = plan])
    /\ UNCHANGED <<request, plan, sections, outputs, events, refusals>>

\* The model's plan is refused, and asked for again until the attempts are used up.
RefusePlan(i) ==
    /\ At(i, "plan") /\ plan = None
    /\ proc[i].attempt <= refusals[0]
    /\ Become(i, IF proc[i].attempt = MaxAttempts THEN Idle
                 ELSE [proc[i] EXCEPT !.attempt = @ + 1])
    /\ UNCHANGED <<request, plan, sections, outputs, events, refusals>>

AcceptPlan(i) ==
    /\ At(i, "plan") /\ plan = None
    /\ proc[i].attempt > refusals[0]
    /\ \E p \in Plans : Become(i, [proc[i] EXCEPT !.pc = "savePlan", !.plan = p])
    /\ UNCHANGED <<request, plan, sections, outputs, events, refusals>>

SavePlan(i) ==
    /\ At(i, "savePlan")
    /\ plan' = proc[i].plan
    /\ Goto(i, "draft")
    /\ UNCHANGED <<request, sections, outputs, events, refusals>>

-----------------------------------------------------------------------------
(***************************************************************************)
(* draft(planned), for a section in a thread.                              *)
(***************************************************************************)
JobAt(i, s, state) == proc[i].pc \in {"draft", "drain"} /\ proc[i].job[s].state = state

SetJob(i, s, job) == proc' = [proc EXCEPT ![i].job[s] = job]

In(i, states) == {s \in Sections : proc[i].job[s].state \in states}

\* Mutant: a job for every section at once.
TakeUnbounded(i, s) ==
    /\ At(i, "draft") /\ JobAt(i, s, "queued")
    /\ SetJob(i, s, [proc[i].job[s] EXCEPT !.state = "load"])
    /\ UNCHANGED <<request, plan, sections, outputs, events, refusals>>

\* The executor starts the jobs in order; a plain loop does not go on after a failure.
Take(i, s) ==
    /\ At(i, "draft") /\ JobAt(i, s, "queued")
    /\ Cardinality(In(i, Working)) < Threads
    /\ \A t \in Sections : t < s =>
          proc[i].job[t].state \in IF Threads = 1 THEN {"done"} ELSE JobStates \ {"queued"}
    /\ SetJob(i, s, [proc[i].job[s] EXCEPT !.state = "load"])
    /\ UNCHANGED <<request, plan, sections, outputs, events, refusals>>

\* Mutant: an interrupted draft starts over.
LoadSectionNever(i, s) ==
    /\ JobAt(i, s, "load")
    /\ SetJob(i, s, [proc[i].job[s] EXCEPT !.state = "call"])
    /\ UNCHANGED <<request, plan, sections, outputs, events, refusals>>

\* A checkpoint is validated again; an invalid one is an error, not a missing one.
LoadSection(i, s) ==
    LET state == IF sections[s] = None THEN "call"
                 ELSE IF Valid(sections[s], proc[i].plan) THEN "done" ELSE "failed" IN
    /\ JobAt(i, s, "load")
    /\ SetJob(i, s, [proc[i].job[s] EXCEPT !.state = state, !.text = sections[s]])
    /\ UNCHANGED <<request, plan, sections, outputs, events, refusals>>

\* The whole text is safe and enough of its sentences fit: they are the section.
Accept(i, s) ==
    /\ JobAt(i, s, "call")
    /\ proc[i].job[s].attempt > refusals[s]
    /\ \E text \in Responses :
          /\ Safe(text)
          /\ \E fitted \in Fitted(text, proc[i].plan) :
                /\ Len(fitted) >= proc[i].plan.least
                /\ SetJob(i, s, [proc[i].job[s] EXCEPT !.state = "save", !.text = fitted])
    /\ UNCHANGED <<request, plan, sections, outputs, events, refusals>>

\* Mutant: the last attempt is not made.
RefuseTooSoon(i, s) ==
    /\ JobAt(i, s, "call")
    /\ proc[i].job[s].attempt <= refusals[s]
    /\ SetJob(i, s, IF proc[i].job[s].attempt + 1 >= MaxAttempts
                    THEN [proc[i].job[s] EXCEPT !.state = "failed"]
                    ELSE [proc[i].job[s] EXCEPT !.attempt = @ + 1])
    /\ UNCHANGED <<request, plan, sections, outputs, events, refusals>>

\* Malformed or refused by the validator: repaired, or the end of the attempts.
Refuse(i, s) ==
    /\ JobAt(i, s, "call")
    /\ proc[i].job[s].attempt <= refusals[s]
    /\ SetJob(i, s, IF proc[i].job[s].attempt = MaxAttempts
                    THEN [proc[i].job[s] EXCEPT !.state = "failed"]
                    ELSE [proc[i].job[s] EXCEPT !.attempt = @ + 1])
    /\ UNCHANGED <<request, plan, sections, outputs, events, refusals>>

\* The adapter's errors are not repaired.
AdapterFails(i, s) ==
    /\ JobAt(i, s, "call")
    /\ events.failures < MaxFailures
    /\ events' = [events EXCEPT !.failures = @ + 1]
    /\ SetJob(i, s, [proc[i].job[s] EXCEPT !.state = "failed"])
    /\ UNCHANGED <<request, plan, sections, outputs, refusals>>

\* Mutant: a section is kept in memory only, for the outputs.
SaveSectionNever(i, s) ==
    /\ JobAt(i, s, "save")
    /\ SetJob(i, s, [proc[i].job[s] EXCEPT !.state = "done"])
    /\ UNCHANGED <<request, plan, sections, outputs, events, refusals>>

SaveSection(i, s) ==
    /\ JobAt(i, s, "save")
    /\ sections' = [sections EXCEPT ![s] = proc[i].job[s].text]
    /\ SetJob(i, s, [proc[i].job[s] EXCEPT !.state = "done"])
    /\ UNCHANGED <<request, plan, outputs, events, refusals>>

Draft(i, s) ==
    \/ Take(i, s) \/ LoadSection(i, s)
    \/ Accept(i, s) \/ Refuse(i, s) \/ SaveSection(i, s)

-----------------------------------------------------------------------------
(***************************************************************************)
(* The main thread reads the results in the order of the plan: it learns   *)
(* of a failure only when the sections before have ended.                  *)
(***************************************************************************)
AllDrafted(i) ==
    /\ At(i, "draft") /\ In(i, {"done"}) = Sections
    /\ Goto(i, "estimate")
    /\ UNCHANGED <<request, plan, sections, outputs, events, refusals>>

\* The queued jobs are cancelled and the running ones waited for.
SeeFailure(i) ==
    /\ At(i, "draft")
    /\ \E s \in In(i, {"failed"}) : \A t \in Sections : t < s => t \in In(i, {"done"})
    /\ Goto(i, "drain")
    /\ UNCHANGED <<request, plan, sections, outputs, events, refusals>>

Drained(i) ==
    /\ At(i, "drain") /\ In(i, Working) = {}
    /\ Become(i, Idle)
    /\ UNCHANGED <<request, plan, sections, outputs, events, refusals>>

Assembled(job) == [s \in Sections |-> job[s].text]

Length(texts) == MapThenSumSet(LAMBDA s : Len(texts[s]), Sections)

InTolerance(texts) == Length(texts) \in (Target - Tolerance)..(Target + Tolerance)

Estimate(i) ==
    /\ At(i, "estimate")
    /\ IF InTolerance(Assembled(proc[i].job)) THEN Goto(i, "script") ELSE Become(i, Idle)
    /\ UNCHANGED <<request, plan, sections, outputs, events, refusals>>

SaveScript(i) ==
    /\ At(i, "script")
    /\ script' = Assembled(proc[i].job)
    /\ Goto(i, "timeline")
    /\ UNCHANGED <<request, plan, sections, timeline, events, refusals>>

SaveTimeline(i) ==
    /\ At(i, "timeline")
    /\ timeline' = Assembled(proc[i].job)
    /\ Become(i, Idle)
    /\ UNCHANGED <<request, plan, sections, script, events, refusals>>

Main(i) ==
    \/ Prepare(i) \/ LoadPlan(i) \/ AcceptPlan(i) \/ RefusePlan(i) \/ SavePlan(i)
    \/ AllDrafted(i) \/ SeeFailure(i) \/ Drained(i) \/ Estimate(i) \/ SaveScript(i) \/ SaveTimeline(i)

\* Ctrl-C reaches the main thread; threads at work are waited for.
Interrupt(i) ==
    /\ proc[i].pc \notin {"idle", "drain"}
    /\ events.stops < MaxStops
    /\ events' = [events EXCEPT !.stops = @ + 1]
    /\ IF At(i, "draft") /\ Threads > 1 THEN Goto(i, "drain") ELSE Become(i, Idle)
    /\ UNCHANGED <<request, plan, sections, outputs, refusals>>

Kill(i) ==
    /\ ~At(i, "idle")
    /\ events.stops < MaxStops
    /\ events' = [events EXCEPT !.stops = @ + 1]
    /\ Become(i, Idle)
    /\ UNCHANGED <<request, plan, sections, outputs, refusals>>

Next ==
    \E i \in Procs :
       \/ \E input \in Inputs : Ask(i, input)
       \/ Main(i) \/ Interrupt(i) \/ Kill(i)
       \/ \E s \in Sections : Draft(i, s) \/ AdapterFails(i, s)

Spec == Init /\ [][Next]_vars
=============================================================================
