------------------------ MODULE SectionDraftingProofs ------------------------
(***************************************************************************)
(* Machine-checked proofs about SectionDrafting, for every number of       *)
(* sections and attempts, all plans and answers, and every bound on the    *)
(* events: type correctness with the limit on the threads, and, while one  *)
(* command at a time works in a workspace, that only missing sections are  *)
(* asked for and that generate keeps the promise of DraftPromise.          *)
(***************************************************************************)
EXTENDS SectionDraftingProperties, FiniteSetTheorems, SequenceTheorems, WellFoundedInduction, TLAPS

LEMMA SectionsAreFinite ==
    /\ Sections \subseteq Nat /\ IsFiniteSet(Sections) /\ Cardinality(Sections) = NSections
    /\ NSections \in Nat /\ Sections # {}
<1>1. NSections \in Nat /\ NSections >= 1
  BY SectionsAssumption
<1>2. IsFiniteSet(1..NSections) /\ Cardinality(1..NSections) = NSections
  BY <1>1, FS_Interval
<1> QED
  BY <1>1, <1>2 DEF Sections

LEMMA NoneIsNothing ==
    None \notin Inputs /\ None \notin Plans /\ None \notin Texts /\ None \notin [Sections -> Texts]
BY NoneAssumption

\* A set of numbers has an element in every place of its order.
LEMMA PlaceExists ==
    ASSUME NEW n \in Nat, NEW set \in SUBSET (1..n), NEW i \in 1..Cardinality(set)
    PROVE  \E k \in set : Cardinality({j \in set : j <= k}) = i
<1>1. IsFiniteSet(set) /\ Cardinality(set) \in Nat /\ i \in Nat /\ i >= 1 /\ i <= Cardinality(set)
  <2>1. IsFiniteSet(1..n)
    BY FS_Interval
  <2>2. IsFiniteSet(set)
    BY <2>1, FS_Subset
  <2>3. Cardinality(set) \in Nat
    BY <2>2, FS_CardinalityType
  <2> QED
    BY <2>2, <2>3
<1>2. ASSUME NEW j \in set PROVE j \in Nat /\ j >= 1 /\ j <= n
  <2>1. j \in 1..n
    OBVIOUS
  <2> QED
    BY <2>1
<1> DEFINE Upto == [m \in Nat |-> {j \in set : j <= m}]
           Count == [m \in Nat |-> Cardinality(Upto[m])]
           Enough == {m \in Nat : Count[m] >= i}
<1>3. \A m \in Nat : Upto[m] = {j \in set : j <= m} /\ Count[m] = Cardinality(Upto[m])
  OBVIOUS
<1>4. \A m \in Nat : \A j : j \in Upto[m] <=> j \in set /\ j <= m
  OBVIOUS
<1>5. \A m \in Nat : m \in Enough <=> Count[m] >= i
  OBVIOUS
<1>6. Enough \subseteq Nat
  OBVIOUS
<1> HIDE DEF Upto, Count, Enough
<1>7. ASSUME NEW m \in Nat PROVE IsFiniteSet(Upto[m]) /\ Count[m] \in Nat
  <2>1. Upto[m] \subseteq set
    BY <1>4
  <2>2. IsFiniteSet(Upto[m])
    BY <1>1, <2>1, FS_Subset
  <2> QED
    BY <1>3, <2>2, FS_CardinalityType
<1>8. n \in Enough
  <2>1. Upto[n] = set
    BY <1>2, <1>4
  <2> QED
    BY <1>1, <1>3, <1>5, <2>1
<1>9. PICK k \in Enough : \A m \in Enough : ~(m < k)
  <2>1. IsWellFoundedOn({ss \in Nat \X Nat : ss[1] < ss[2]}, Nat)
    BY NatLessThanWellFounded DEF OpToRel
  <2> DEFINE Less == {ss \in Nat \X Nat : ss[1] < ss[2]}
  <2>2. \A m, k \in Nat : m < k => <<m, k>> \in Less
    OBVIOUS
  <2>3. IsWellFoundedOn(Less, Nat)
    BY <2>1
  <2> HIDE DEF Less
  <2>4. \E k \in Enough : \A m \in Enough : ~(<<m, k>> \in Less)
    BY <1>6, <1>8, <2>3, WFMin
  <2> QED
    BY <1>6, <2>2, <2>4
<1>10. k \in Nat /\ Count[k] \in Nat /\ Count[k] >= i
  BY <1>5, <1>6, <1>7, <1>9
<1>11. ASSUME NEW m \in Nat, m < k PROVE Count[m] < i
  BY <1>1, <1>5, <1>7, <1>9, <1>11
<1>12. k # 0
  <2>1. Upto[0] = {}
    <3>1. ASSUME NEW j \in Upto[0] PROVE FALSE
      <4>1. j \in set /\ j <= 0
        BY <1>4
      <4> QED
        BY <1>2, <4>1
    <3> QED
      BY <3>1
  <2>2. Count[0] = 0
    BY <1>3, <2>1, FS_EmptySet
  <2> QED
    BY <1>1, <1>10, <2>2
<1>13. k - 1 \in Nat /\ Count[k - 1] < i /\ Count[k - 1] \in Nat
  <2>1. k - 1 \in Nat /\ k - 1 < k
    BY <1>10, <1>12
  <2> QED
    BY <1>7, <1>11, <2>1
<1>14. k \in set
  <2> SUFFICES ASSUME k \notin set PROVE FALSE
    OBVIOUS
  <2>1. Upto[k] = Upto[k - 1]
    <3>1. ASSUME NEW j \in set PROVE j <= k <=> j <= k - 1
      <4>1. j \in Nat /\ j # k
        BY <1>2
      <4> QED
        BY <1>10, <1>13, <4>1
    <3>2. \A j : j \in Upto[k] <=> j \in Upto[k - 1]
      BY <1>4, <1>10, <1>13, <3>1
    <3> QED
      BY <3>2
  <2>2. Count[k] = Count[k - 1]
    BY <1>3, <1>10, <1>13, <2>1
  <2> QED
    BY <1>1, <1>10, <1>13, <2>2
<1>15. Count[k] = Count[k - 1] + 1
  <2>1. Upto[k] = Upto[k - 1] \cup {k} /\ k \notin Upto[k - 1]
    <3>1. ASSUME NEW j \in set PROVE j <= k <=> j <= k - 1 \/ j = k
      <4>1. j \in Nat
        BY <1>2
      <4> QED
        BY <1>10, <1>13, <4>1
    <3>2. \A j : j \in Upto[k] <=> j \in Upto[k - 1] \cup {k}
      BY <1>4, <1>10, <1>13, <1>14, <3>1
    <3>3. ~(k <= k - 1)
      BY <1>10
    <3> QED
      BY <1>4, <1>13, <3>2, <3>3
  <2>2. Cardinality(Upto[k]) = Cardinality(Upto[k - 1]) + 1
    BY <1>7, <1>13, <2>1, FS_AddElement
  <2> QED
    BY <1>3, <1>10, <1>13, <2>2
<1>16. Count[k] = i
  BY <1>1, <1>10, <1>13, <1>15
<1>17. Cardinality({j \in set : j <= k}) = i
  BY <1>3, <1>10, <1>16
<1> QED
  BY <1>14, <1>17

\* Sentences are left out, never changed: what is fitted is a text.
LEMMA FittedIsText ==
    ASSUME NEW text \in Texts, NEW p, NEW fitted \in Fitted(text, p)
    PROVE  fitted \in Texts
<1> DEFINE Place(set, i) == CHOOSE k \in set : Cardinality({j \in set : j <= k}) = i
<1>1. Len(text) \in Nat /\ \A k \in 1..Len(text) : text[k] \in {"plain", "claims", "names"}
  BY DEF Texts
<1>2. PICK set \in SUBSET (1..Len(text)) :
        fitted = [i \in 1..Cardinality(set) |-> text[Place(set, i)]]
  BY DEF Fitted, kSubset
<1>3. ASSUME NEW i \in 1..Cardinality(set) PROVE Place(set, i) \in 1..Len(text)
  <2>1. \E k \in set : Cardinality({j \in set : j <= k}) = i
    BY <1>1, PlaceExists
  <2>2. Place(set, i) \in set
    BY <2>1
  <2> QED
    BY <2>2
<1>4. Cardinality(set) \in Nat
  <2>1. IsFiniteSet(1..Len(text))
    BY <1>1, FS_Interval
  <2>2. IsFiniteSet(set)
    BY <2>1, FS_Subset
  <2> QED
    BY <2>2, FS_CardinalityType
<1> HIDE DEF Place
<1>5. fitted \in [1..Cardinality(set) -> {"plain", "claims", "names"}]
  BY <1>1, <1>2, <1>3
<1> QED
  <2>1. \E k \in Nat : fitted \in [1..k -> {"plain", "claims", "names"}]
    BY <1>4, <1>5
  <2> QED
    BY <2>1, SeqDef DEF Texts

-----------------------------------------------------------------------------
(***************************************************************************)
(* Types, and the limit on the threads.                                    *)
(***************************************************************************)
LEMMA IdleIsLocal ==
    /\ Idle \in Locals /\ Idle.pc = "idle"
    /\ \A s \in Sections : Idle.job[s].state = "queued"
<1>1. NewJob \in Job /\ NewJob.state = "queued"
  BY AttemptsAssumption DEF NewJob, Job, JobStates
<1> QED
  BY <1>1, AttemptsAssumption DEF Idle, Locals

LEMMA CountIsNat ==
    ASSUME NEW set \in SUBSET Sections
    PROVE  IsFiniteSet(set) /\ Cardinality(set) \in Nat /\ Cardinality(set) <= NSections
<1>1. IsFiniteSet(set) /\ Cardinality(set) <= NSections
  BY SectionsAreFinite, FS_Subset
<1> QED
  BY <1>1, FS_CardinalityType

LEMMA WorkIsCounted ==
    ASSUME NEW set, NEW other \in SUBSET Sections, set \subseteq other, Cardinality(other) <= Threads
    PROVE  Cardinality(set) <= Threads
<1>1. IsFiniteSet(other) /\ Cardinality(other) \in Nat
  BY CountIsNat
<1>2. IsFiniteSet(set) /\ Cardinality(set) <= Cardinality(other)
  BY <1>1, FS_Subset
<1>3. Cardinality(set) \in Nat
  BY <1>2, FS_CardinalityType
<1> QED
  BY <1>1, <1>2, <1>3, ThreadsAssumption

\* What is known of a process before a step.
LEMMA Known ==
    ASSUME DraftingInv, NEW i \in Procs
    PROVE  /\ proc[i] \in Locals
           /\ \A s \in Sections : proc[i].job[s] \in Job
           /\ Cardinality(In(i, Working)) <= Threads
<1>1. proc[i] \in Locals /\ Cardinality(In(i, Working)) <= Threads
  BY DEF DraftingInv, DraftingTypeOK
<1> QED
  BY <1>1 DEF Locals

\* A step of one process.
LEMMA DraftingStep ==
    ASSUME DraftingInv, NEW i \in Procs, NEW l \in Locals, Become(i, l),
           request' \in Inputs \cup {None}, plan' \in Plans \cup {None},
           sections' \in [Sections -> Texts \cup {None}], refusals' \in Refusals,
           events' \in [failures : 0..MaxFailures, stops : 0..MaxStops],
           Cardinality({s \in Sections : l.job[s].state \in Working}) <= Threads
    PROVE  DraftingInv'
<1>1. /\ proc' \in [Procs -> Locals] /\ proc'[i] = l
      /\ \A j \in Procs \ {i} : proc'[j] = proc[j]
  BY DEF DraftingInv, DraftingTypeOK, Become
<1>2. ASSUME NEW j \in Procs PROVE Cardinality(In(j, Working)') <= Threads
  <2>1. CASE j = i
    BY <1>1, <2>1 DEF In
  <2>2. CASE j # i
    <3>1. In(j, Working)' = In(j, Working)
      BY <1>1, <2>2 DEF In, Working
    <3> QED
      BY <3>1, Known
  <2> QED
    BY <2>1, <2>2
<1> QED
  BY <1>1, <1>2 DEF DraftingInv, DraftingTypeOK

\* A step that moves the command and leaves its jobs.
LEMMA DraftingMoves ==
    ASSUME DraftingInv, NEW i \in Procs, NEW l \in Locals, Become(i, l),
           l.job = proc[i].job \/ l = Idle,
           request' \in Inputs \cup {None}, plan' \in Plans \cup {None}, UNCHANGED sections,
           refusals' \in Refusals, events' \in [failures : 0..MaxFailures, stops : 0..MaxStops]
    PROVE  DraftingInv'
<1>1. Cardinality({s \in Sections : l.job[s].state \in Working}) <= Threads
  <2>1. CASE l.job = proc[i].job
    BY <2>1, Known DEF In
  <2>2. CASE l = Idle
    <3> DEFINE W == {s \in Sections : l.job[s].state \in Working}
    <3>1. W = {}
      BY <2>2, IdleIsLocal DEF Working
    <3> HIDE DEF W
    <3>2. Cardinality(W) = 0
      BY <3>1, FS_EmptySet
    <3>3. Cardinality(W) <= Threads
      BY <3>2, ThreadsAssumption
    <3> QED
      BY <3>3 DEF W
  <2> QED
    BY <2>1, <2>2
<1> QED
  BY <1>1, DraftingStep DEF DraftingInv

\* A step of a job.
LEMMA JobMoves ==
    ASSUME DraftingInv, NEW i \in Procs, NEW s \in Sections, NEW job \in Job, SetJob(i, s, job)
    PROVE  \E l \in Locals :
              /\ Become(i, l)
              /\ l.pc = proc[i].pc /\ l.input = proc[i].input /\ l.plan = proc[i].plan
              /\ l.job \in [Sections -> Job]
              /\ l.job[s] = job
              /\ \A t \in Sections : t # s => l.job[t] = proc[i].job[t]
<1> DEFINE l == [proc[i] EXCEPT !.job[s] = job]
<1>1. proc[i] \in Locals
  BY Known
<1>2. proc[i].job \in [Sections -> Job]
  BY <1>1 DEF Locals
<1>3. l = [proc[i] EXCEPT !.job = [proc[i].job EXCEPT ![s] = job]]
  BY <1>1 DEF Locals
<1>4. [proc[i].job EXCEPT ![s] = job] \in [Sections -> Job]
  BY <1>2
<1>5. l \in Locals /\ l.job = [proc[i].job EXCEPT ![s] = job]
  BY <1>1, <1>3, <1>4 DEF Locals
<1>6. Become(i, l)
  BY DEF SetJob, Become
<1>7. l.pc = proc[i].pc /\ l.input = proc[i].input /\ l.plan = proc[i].plan
  BY <1>1, <1>3 DEF Locals
<1> HIDE DEF l
<1> QED
  BY <1>2, <1>4, <1>5, <1>6, <1>7

LEMMA DraftingJobMoves ==
    ASSUME DraftingInv, NEW i \in Procs, NEW s \in Sections, NEW job \in Job, SetJob(i, s, job),
           UNCHANGED <<request, plan>>,
           sections' \in [Sections -> Texts \cup {None}], refusals' \in Refusals,
           events' \in [failures : 0..MaxFailures, stops : 0..MaxStops],
           \/ job.state \notin Working
           \/ proc[i].job[s].state \in Working
           \/ Cardinality(In(i, Working)) < Threads
    PROVE  DraftingInv'
<1>1. PICK l \in Locals :
        /\ Become(i, l)
        /\ l.job[s] = job
        /\ \A t \in Sections : t # s => l.job[t] = proc[i].job[t]
  BY JobMoves
<1>2. Cardinality(In(i, Working)) <= Threads /\ In(i, Working) \in SUBSET Sections
  BY Known DEF In
<1> DEFINE W == {t \in Sections : l.job[t].state \in Working}
<1>3. Cardinality(W) <= Threads
  <2>1. CASE job.state \notin Working \/ proc[i].job[s].state \in Working
    <3>1. W \subseteq In(i, Working)
      BY <1>1, <2>1 DEF In
    <3> HIDE DEF W
    <3> QED
      BY <1>2, <3>1, WorkIsCounted
  <2>2. CASE Cardinality(In(i, Working)) < Threads
    <3>1. W \subseteq In(i, Working) \cup {s} /\ W \in SUBSET Sections
      BY <1>1 DEF In
    <3> HIDE DEF W
    <3>2. IsFiniteSet(In(i, Working)) /\ Cardinality(In(i, Working)) \in Nat
      BY <1>2, CountIsNat
    <3>3. \/ Cardinality(In(i, Working) \cup {s}) = Cardinality(In(i, Working))
          \/ Cardinality(In(i, Working) \cup {s}) = Cardinality(In(i, Working)) + 1
      BY <3>2, FS_AddElement
    <3>4. In(i, Working) \cup {s} \in SUBSET Sections
      BY <1>2
    <3>5. Cardinality(In(i, Working) \cup {s}) \in Nat
      BY <3>4, CountIsNat
    <3>6. Cardinality(In(i, Working) \cup {s}) <= Threads
      BY <2>2, <3>2, <3>3, <3>5, ThreadsAssumption
    <3> QED
      BY <3>1, <3>4, <3>6, WorkIsCounted
  <2> QED
    BY <2>1, <2>2
<1> QED
  BY <1>1, <1>3, DraftingStep DEF DraftingInv, DraftingTypeOK

-----------------------------------------------------------------------------
\* The adapter's errors and the stops are counted within their bounds.
LEMMA EventTypes ==
    ASSUME DraftingInv
    PROVE  /\ events \in [failures : 0..MaxFailures, stops : 0..MaxStops]
           /\ events.failures < MaxFailures /\ events' = [events EXCEPT !.failures = @ + 1]
                => events' \in [failures : 0..MaxFailures, stops : 0..MaxStops]
           /\ events.stops < MaxStops /\ events' = [events EXCEPT !.stops = @ + 1]
                => events' \in [failures : 0..MaxFailures, stops : 0..MaxStops]
<1>1. events \in [failures : 0..MaxFailures, stops : 0..MaxStops]
  BY DEF DraftingInv, DraftingTypeOK
<1>2. MaxFailures \in Nat /\ MaxStops \in Nat
  BY EstimateAssumption
<1>3. events.failures \in 0..MaxFailures /\ events.stops \in 0..MaxStops
  BY <1>1
<1>4. events.failures < MaxFailures => events.failures + 1 \in 0..MaxFailures
  BY <1>2, <1>3
<1>5. events.stops < MaxStops => events.stops + 1 \in 0..MaxStops
  BY <1>2, <1>3
<1> QED
  BY <1>1, <1>4, <1>5

LEMMA Moved ==
    ASSUME DraftingInv, NEW i \in Procs, NEW pc, Goto(i, pc),
           pc \in {"idle", "prepare", "plan", "savePlan", "draft", "drain",
                   "estimate", "script", "timeline"}
    PROVE  \E l \in Locals :
              Become(i, l) /\ l.pc = pc /\ l.job = proc[i].job /\ l.plan = proc[i].plan
<1> DEFINE l == [proc[i] EXCEPT !.pc = pc]
<1>1. proc[i] \in Locals
  BY Known
<1>2. l \in Locals /\ l.pc = pc /\ l.job = proc[i].job /\ l.plan = proc[i].plan
  BY <1>1 DEF Locals
<1>3. Become(i, l)
  BY DEF Goto
<1> HIDE DEF l
<1> QED
  BY <1>2, <1>3

LEMMA OtherAttempt ==
    /\ \A l \in Locals : l.attempt # MaxAttempts =>
          LET again == [l EXCEPT !.attempt = @ + 1] IN
          again \in Locals /\ again.job = l.job /\ again.pc = l.pc /\ again.plan = l.plan
    /\ \A job \in Job : job.attempt # MaxAttempts =>
          LET again == [job EXCEPT !.attempt = @ + 1] IN
          again \in Job /\ again.state = job.state /\ again.text = job.text
<1>1. \A n \in 1..MaxAttempts : n # MaxAttempts => n + 1 \in 1..MaxAttempts
  BY AttemptsAssumption
<1>2. ASSUME NEW l \in Locals, l.attempt # MaxAttempts
      PROVE  LET again == [l EXCEPT !.attempt = @ + 1] IN
             again \in Locals /\ again.job = l.job /\ again.pc = l.pc /\ again.plan = l.plan
  <2>1. l.attempt + 1 \in 1..MaxAttempts
    BY <1>1, <1>2 DEF Locals
  <2> QED
    BY <2>1 DEF Locals
<1>3. ASSUME NEW job \in Job, job.attempt # MaxAttempts
      PROVE  LET again == [job EXCEPT !.attempt = @ + 1] IN
             again \in Job /\ again.state = job.state /\ again.text = job.text
  <2>1. job.attempt + 1 \in 1..MaxAttempts
    BY <1>1, <1>3 DEF Job
  <2> QED
    BY <2>1 DEF Job
<1> QED
  BY <1>2, <1>3

JobStep(i, s) == Draft(i, s) \/ AdapterFails(i, s)

\* Which answers of the model are refused never changes.
LEMMA RefusalsStay ==
    ASSUME DraftingInv, NEW i \in Procs,
           \/ \E input \in Inputs : Ask(i, input)
           \/ Main(i) \/ Interrupt(i) \/ Kill(i)
           \/ \E s \in Sections : JobStep(i, s)
    PROVE  refusals' \in Refusals
<1>1. CASE \/ \E input \in Inputs : Ask(i, input)
           \/ Main(i) \/ Interrupt(i) \/ Kill(i)
  <2>1. UNCHANGED refusals
    BY <1>1 DEF Ask, Main, Prepare, LoadPlan, AcceptPlan, RefusePlan, SavePlan, AllDrafted,
                SeeFailure, Drained, Estimate, SaveScript, SaveTimeline, Interrupt, Kill
  <2> QED
    BY <2>1 DEF DraftingInv, DraftingTypeOK
<1>2. CASE \E s \in Sections : JobStep(i, s)
  <2>1. UNCHANGED refusals
    BY <1>2 DEF JobStep, Draft, Take, LoadSection, Accept, Refuse, AdapterFails, SaveSection
  <2> QED
    BY <2>1 DEF DraftingInv, DraftingTypeOK
<1> QED
  BY <1>1, <1>2

\* The command's own steps.
LEMMA MainKeepsTypes ==
    ASSUME DraftingInv, NEW i \in Procs,
           (\E input \in Inputs : Ask(i, input)) \/ Main(i)
    PROVE  DraftingInv'
<1>1. /\ request \in Inputs \cup {None} /\ plan \in Plans \cup {None}
      /\ events \in [failures : 0..MaxFailures, stops : 0..MaxStops]
      /\ refusals' \in Refusals
  BY RefusalsStay DEF DraftingInv, DraftingTypeOK
<1>2. proc[i] \in Locals /\ Idle \in Locals
  BY Known, IdleIsLocal
<1>3. ASSUME NEW input \in Inputs, Ask(i, input) PROVE DraftingInv'
  <2> DEFINE l == [Idle EXCEPT !.pc = "prepare", !.input = input]
  <2>1. l \in Locals /\ l.job = Idle.job
    BY <1>2 DEF Locals
  <2>2. Cardinality({s \in Sections : l.job[s].state \in Working}) <= Threads
    <3> DEFINE W == {s \in Sections : l.job[s].state \in Working}
    <3>1. W = {}
      BY <2>1, IdleIsLocal DEF Working
    <3> HIDE DEF W
    <3>2. Cardinality(W) = 0
      BY <3>1, FS_EmptySet
    <3>3. Cardinality(W) <= Threads
      BY <3>2, ThreadsAssumption
    <3> QED
      BY <3>3 DEF W
  <2>3. Become(i, l) /\ UNCHANGED <<request, plan, sections, events>>
    BY <1>3 DEF Ask
  <2> HIDE DEF l
  <2> QED
    BY <1>1, <2>1, <2>2, <2>3, DraftingStep DEF DraftingInv
<1>4. CASE Prepare(i)
  <2>1. request' \in Inputs \cup {None} /\ UNCHANGED <<plan, sections, events>>
    BY <1>1, <1>2, <1>4 DEF Prepare, Locals
  <2>2. Goto(i, "plan") \/ Become(i, Idle)
    BY <1>4 DEF Prepare
  <2> QED
    BY <1>1, <1>2, <2>1, <2>2, Moved, DraftingMoves
<1>5. CASE LoadPlan(i)
  <2> DEFINE l == [proc[i] EXCEPT !.pc = "draft", !.plan = plan]
  <2>1. l \in Locals /\ l.job = proc[i].job
    BY <1>1, <1>2 DEF Locals
  <2>2. Become(i, l) /\ UNCHANGED <<request, plan, sections, events>>
    BY <1>5 DEF LoadPlan
  <2> HIDE DEF l
  <2> QED
    BY <1>1, <2>1, <2>2, DraftingMoves
<1>6. CASE AcceptPlan(i)
  <2>1. PICK p \in Plans : Become(i, [proc[i] EXCEPT !.pc = "savePlan", !.plan = p])
    BY <1>6 DEF AcceptPlan
  <2> DEFINE l == [proc[i] EXCEPT !.pc = "savePlan", !.plan = p]
  <2>2. l \in Locals /\ l.job = proc[i].job
    BY <1>2 DEF Locals
  <2>3. Become(i, l) /\ UNCHANGED <<request, plan, sections, events>>
    BY <1>6, <2>1 DEF AcceptPlan
  <2> HIDE DEF l
  <2> QED
    BY <1>1, <2>2, <2>3, DraftingMoves
<1>7. CASE SavePlan(i)
  <2>1. plan' \in Plans \cup {None} /\ Goto(i, "draft") /\ UNCHANGED <<request, sections, events>>
    BY <1>2, <1>7 DEF SavePlan, Locals
  <2> QED
    BY <1>1, <2>1, Moved, DraftingMoves
<1>8. CASE AllDrafted(i) \/ SeeFailure(i) \/ Drained(i) \/ Estimate(i) \/ SaveScript(i) \/ SaveTimeline(i)
  <2>1. UNCHANGED <<request, plan, sections, events>>
    BY <1>8 DEF AllDrafted, SeeFailure, Drained, Estimate, SaveScript, SaveTimeline
  <2>2. \/ Goto(i, "estimate") \/ Goto(i, "drain") \/ Goto(i, "script") \/ Goto(i, "timeline")
        \/ Become(i, Idle)
    BY <1>8 DEF AllDrafted, SeeFailure, Drained, Estimate, SaveScript, SaveTimeline
  <2> QED
    BY <1>1, <1>2, <2>1, <2>2, Moved, DraftingMoves
<1>9. CASE RefusePlan(i)
  <2>1. UNCHANGED <<request, plan, sections, events>>
    BY <1>9 DEF RefusePlan
  <2>2. CASE proc[i].attempt = MaxAttempts
    BY <1>1, <1>2, <1>9, <2>1, <2>2, DraftingMoves DEF RefusePlan
  <2>3. CASE proc[i].attempt # MaxAttempts
    <3> DEFINE l == [proc[i] EXCEPT !.attempt = @ + 1]
    <3>1. Become(i, l)
      BY <1>9, <2>3 DEF RefusePlan
    <3>2. l \in Locals /\ l.job = proc[i].job
      BY <1>2, <2>3, OtherAttempt
    <3> HIDE DEF l
    <3> QED
      BY <1>1, <2>1, <3>1, <3>2, DraftingMoves
  <2> QED
    BY <2>2, <2>3
<1> QED
  BY <1>3, <1>4, <1>5, <1>6, <1>7, <1>8, <1>9 DEF Main

\* Ctrl-C and a kill.
LEMMA StopKeepsTypes ==
    ASSUME DraftingInv, NEW i \in Procs, Interrupt(i) \/ Kill(i)
    PROVE  DraftingInv'
<1>1. /\ request \in Inputs \cup {None} /\ plan \in Plans \cup {None}
      /\ refusals' \in Refusals
  BY RefusalsStay DEF DraftingInv, DraftingTypeOK
<1>2. proc[i] \in Locals /\ Idle \in Locals
  BY Known, IdleIsLocal
<1>3. /\ events' \in [failures : 0..MaxFailures, stops : 0..MaxStops]
      /\ UNCHANGED <<request, plan, sections>>
  BY EventTypes DEF Interrupt, Kill
<1>4. Goto(i, "drain") \/ Become(i, Idle)
  BY DEF Interrupt, Kill
<1> QED
  BY <1>1, <1>2, <1>3, <1>4, Moved, DraftingMoves

\* The steps of the jobs: what becomes of one, and of the checkpoints.
Outcome(i, s, job) ==
    \/ job.state \in {"load", "failed"} /\ UNCHANGED sections
    \/ /\ job.state = "call" /\ UNCHANGED sections
       /\ sections[s] = None \/ proc[i].job[s].state = "call"
    \/ /\ job.state = "save" /\ UNCHANGED sections
       /\ proc[i].job[s].state = "call" /\ job.text \in Texts
    \/ /\ job.state = "done" /\ UNCHANGED sections
       /\ sections[s] # None /\ job.text = sections[s]
    \/ /\ job.state = "done" /\ proc[i].job[s].state = "save"
       /\ job.text = proc[i].job[s].text /\ sections' = [sections EXCEPT ![s] = job.text]

LEMMA JobBecomes ==
    ASSUME DraftingInv, NEW i \in Procs, NEW s \in Sections, JobStep(i, s)
    PROVE  /\ \E job \in Job : SetJob(i, s, job) /\ Outcome(i, s, job)
           /\ \/ proc[i].job[s].state \in Working
              \/ Cardinality(In(i, Working)) < Threads
           /\ UNCHANGED <<request, plan, script, timeline>>
           /\ sections' \in [Sections -> Texts \cup {None}] /\ refusals' \in Refusals
           /\ events' \in [failures : 0..MaxFailures, stops : 0..MaxStops]
           /\ proc[i].pc \in {"draft", "drain"}
<1> DEFINE old == proc[i].job[s]
<1>1. old \in Job /\ proc[i] \in Locals
  BY Known
<1>2. /\ events \in [failures : 0..MaxFailures, stops : 0..MaxStops]
      /\ sections \in [Sections -> Texts \cup {None}] /\ refusals' \in Refusals
  BY EventTypes, RefusalsStay DEF DraftingInv
<1> HIDE DEF old
<1>3. CASE Take(i, s)
  <2> DEFINE job == [old EXCEPT !.state = "load"]
  <2>1. job \in Job /\ job.state = "load" /\ SetJob(i, s, job)
    BY <1>1, <1>3 DEF Job, JobStates, Working, Take, old
  <2> HIDE DEF job
  <2>2. /\ UNCHANGED <<request, plan, sections, outputs, events>>
        /\ Cardinality(In(i, Working)) < Threads /\ proc[i].pc = "draft"
    BY <1>3 DEF Take, At
  <2>3. Outcome(i, s, job)
    BY <2>1, <2>2 DEF Outcome
  <2> QED
    BY <1>2, <2>1, <2>2, <2>3 DEF outputs
<1>4. CASE LoadSection(i, s)
  <2> DEFINE state == IF sections[s] = None THEN "call"
                      ELSE IF Valid(sections[s], proc[i].plan) THEN "done" ELSE "failed"
             job == [old EXCEPT !.state = state, !.text = sections[s]]
  <2>1. /\ state \in {"call", "done", "failed"}
        /\ state = "call" => sections[s] = None
        /\ state = "done" => sections[s] # None
    OBVIOUS
  <2>2. sections[s] \in Texts \cup {None}
    BY DEF DraftingInv
  <2>3. SetJob(i, s, job)
    BY <1>4 DEF LoadSection, old
  <2> HIDE DEF state
  <2>4. job \in Job /\ job.state = state /\ job.text = sections[s]
    BY <1>1, <2>1, <2>2 DEF Job, JobStates, Working
  <2> HIDE DEF job
  <2>5. /\ proc[i].job[s].state \in Working /\ proc[i].pc \in {"draft", "drain"}
        /\ UNCHANGED <<request, plan, sections, outputs, events>>
    BY <1>4 DEF LoadSection, JobAt, Working
  <2>6. Outcome(i, s, job)
    BY <2>1, <2>4, <2>5 DEF Outcome
  <2> QED
    BY <1>2, <2>3, <2>4, <2>5, <2>6 DEF outputs
<1>5. CASE Accept(i, s)
  <2>1. PICK text \in Responses : \E fitted \in Fitted(text, proc[i].plan) :
          SetJob(i, s, [old EXCEPT !.state = "save", !.text = fitted])
    BY <1>5 DEF Accept, old
  <2>2. PICK fitted \in Fitted(text, proc[i].plan) :
          SetJob(i, s, [old EXCEPT !.state = "save", !.text = fitted])
    BY <2>1
  <2>3. fitted \in Texts
    BY FittedIsText, ResponsesAssumption DEF Texts
  <2> DEFINE job == [old EXCEPT !.state = "save", !.text = fitted]
  <2>4. job \in Job /\ job.state = "save" /\ job.text = fitted
    BY <1>1, <2>3 DEF Job, JobStates, Working
  <2>5. SetJob(i, s, job)
    BY <2>2
  <2> HIDE DEF job
  <2>6. /\ proc[i].job[s].state = "call" /\ proc[i].pc \in {"draft", "drain"}
        /\ UNCHANGED <<request, plan, sections, outputs, events>>
    BY <1>5 DEF Accept, JobAt
  <2>7. Outcome(i, s, job)
    BY <2>3, <2>4, <2>6 DEF Outcome
  <2> QED
    BY <1>2, <2>4, <2>5, <2>6, <2>7 DEF outputs, Working
<1>6. CASE Refuse(i, s) \/ AdapterFails(i, s)
  <2>1. proc[i].job[s].state = "call" /\ old.state = "call" /\ proc[i].pc \in {"draft", "drain"}
    BY <1>6 DEF Refuse, AdapterFails, JobAt, old
  <2>2. /\ events' \in [failures : 0..MaxFailures, stops : 0..MaxStops]
        /\ UNCHANGED <<request, plan, sections, outputs>>
    BY <1>6, EventTypes DEF Refuse, AdapterFails
  <2>3. \/ SetJob(i, s, [old EXCEPT !.state = "failed"])
        \/ old.attempt # MaxAttempts /\ SetJob(i, s, [old EXCEPT !.attempt = @ + 1])
    BY <1>6 DEF Refuse, AdapterFails, old
  <2>4. \E job \in Job : SetJob(i, s, job) /\ job.state \in {"failed", "call"}
    <3>1. CASE SetJob(i, s, [old EXCEPT !.state = "failed"])
      <4>1. [old EXCEPT !.state = "failed"] \in Job /\ [old EXCEPT !.state = "failed"].state = "failed"
        BY <1>1 DEF Job, JobStates
      <4> QED
        BY <3>1, <4>1
    <3>2. CASE old.attempt # MaxAttempts /\ SetJob(i, s, [old EXCEPT !.attempt = @ + 1])
      <4> DEFINE job == [old EXCEPT !.attempt = @ + 1]
      <4>1. job \in Job /\ job.state = old.state
        BY <1>1, <3>2, OtherAttempt
      <4>2. SetJob(i, s, job)
        BY <3>2
      <4> HIDE DEF job
      <4> QED
        BY <2>1, <4>1, <4>2
    <3> QED
      BY <2>3, <3>1, <3>2
  <2>5. PICK job \in Job : SetJob(i, s, job) /\ job.state \in {"failed", "call"}
    BY <2>4
  <2>6. Outcome(i, s, job)
    BY <2>1, <2>2, <2>5 DEF Outcome
  <2> QED
    BY <1>2, <2>1, <2>2, <2>5, <2>6 DEF outputs, Working
<1>7. CASE SaveSection(i, s)
  <2> DEFINE job == [old EXCEPT !.state = "done"]
  <2>1. job \in Job /\ job.state = "done" /\ job.text = old.text
    BY <1>1 DEF Job, JobStates
  <2>2. SetJob(i, s, job)
    BY <1>7 DEF SaveSection, old
  <2> HIDE DEF job
  <2>3. /\ proc[i].job[s].state = "save" /\ proc[i].pc \in {"draft", "drain"}
        /\ UNCHANGED <<request, plan, outputs, events>>
        /\ sections' = [sections EXCEPT ![s] = old.text]
    BY <1>7 DEF SaveSection, JobAt, old
  <2>4. sections' \in [Sections -> Texts \cup {None}]
    <3>1. old.text \in Texts \cup {None}
      BY <1>1 DEF Job
    <3> QED
      BY <1>2, <2>3, <3>1
  <2>5. Outcome(i, s, job)
    BY <2>1, <2>3 DEF Outcome, old
  <2> QED
    BY <1>2, <2>1, <2>2, <2>3, <2>4, <2>5 DEF outputs, Working
<1> QED
  BY <1>3, <1>4, <1>5, <1>6, <1>7 DEF JobStep, Draft

LEMMA DraftingKept == DraftingInv /\ [Next]_vars => DraftingInv'
<1> SUFFICES ASSUME DraftingInv, [Next]_vars PROVE DraftingInv'
  OBVIOUS
<1>1. CASE UNCHANGED vars
  BY <1>1 DEF vars, outputs, DraftingInv, DraftingTypeOK, In
<1>2. ASSUME NEW i \in Procs, NEW s \in Sections, JobStep(i, s) PROVE DraftingInv'
  BY <1>2, JobBecomes, DraftingJobMoves
<1> QED
  BY <1>1, <1>2, MainKeepsTypes, StopKeepsTypes DEF Next, JobStep

LEMMA DraftingStarts == Init => DraftingInv
<1> SUFFICES ASSUME Init PROVE DraftingInv
  OBVIOUS
<1>1. MaxFailures \in Nat /\ MaxStops \in Nat
  BY EstimateAssumption
<1>2. events \in [failures : 0..MaxFailures, stops : 0..MaxStops]
  BY <1>1 DEF Init
<1>3. proc \in [Procs -> Locals] /\ \A i \in Procs : proc[i] = Idle
  BY IdleIsLocal DEF Init
<1>4. ASSUME NEW i \in Procs PROVE Cardinality(In(i, Working)) <= Threads
  <2>1. In(i, Working) = {}
    BY <1>3, IdleIsLocal DEF In, Working
  <2>2. Cardinality(In(i, Working)) = 0
    BY <2>1, FS_EmptySet
  <2> QED
    BY <2>2, ThreadsAssumption
<1> QED
  BY <1>2, <1>3, <1>4 DEF Init, DraftingInv, DraftingTypeOK

LEMMA DraftingInvariant == Spec => []DraftingInv
BY DraftingStarts, DraftingKept, PTL DEF Spec

\* Every reachable state has the types of the code's data, and no more jobs are at
\* work than generate's executor has threads.
THEOREM DraftingTypes == Spec => []DraftingTypeOK
<1>1. DraftingInv => DraftingTypeOK
  BY DEF DraftingInv
<1> QED
  BY <1>1, DraftingInvariant, PTL

-----------------------------------------------------------------------------
(***************************************************************************)
(* One command at a time works in a workspace: `whoopy generate` holds the *)
(* lock of the run whose workspace it is.                                  *)
(***************************************************************************)
LEMMA WorkspaceStep ==
    ASSUME OneCommand, DraftingInv', OutputsAreRight', NEW i \in Procs, CommandIsRight(i)'
    PROVE  WorkspaceInv'
<1>1. ASSUME NEW j \in Procs PROVE CommandIsRight(j)'
  <2>1. j = i
    BY DEF OneCommand
  <2> QED
    BY <2>1
<1> QED
  BY <1>1 DEF WorkspaceInv

\* What is known of the command and of the workspace before a step.
LEMMA WorkspaceKnown ==
    ASSUME WorkspaceInv, NEW i \in Procs
    PROVE  /\ proc[i] \in Locals /\ CommandIsRight(i) /\ DraftingInv /\ OutputsAreRight
           /\ proc[i].job \in [Sections -> Job]
           /\ sections \in [Sections -> Texts \cup {None}]
<1>1. DraftingInv /\ CommandIsRight(i) /\ OutputsAreRight
  BY DEF WorkspaceInv
<1>2. proc[i] \in Locals /\ sections \in [Sections -> Texts \cup {None}]
  BY <1>1, Known DEF DraftingInv
<1> QED
  BY <1>1, <1>2 DEF Locals

\* A step of the command that leaves the workspace alone.
LEMMA CommandMoves ==
    ASSUME OneCommand, WorkspaceInv, DraftingInv', NEW i \in Procs, NEW l \in Locals, Become(i, l),
           UNCHANGED <<plan, sections, script, timeline>>,
           l.job = proc[i].job \/ l.job = Idle.job,
           l.pc = "savePlan" => plan = None /\ l.plan \in Plans,
           l.pc \in {"draft", "drain", "estimate", "script", "timeline"} => plan # None,
           l.pc \in {"estimate", "script", "timeline"} =>
               l.job = proc[i].job /\ In(i, {"done"}) = Sections,
           l.pc # "timeline"
    PROVE  WorkspaceInv'
<1>1. proc'[i] = l
  BY DEF WorkspaceInv, DraftingInv, DraftingTypeOK, Become
<1>2. OutputsAreRight'
  BY DEF WorkspaceInv, OutputsAreRight
<1>3. ASSUME NEW s \in Sections PROVE JobIsRight(i, s)'
  <2>1. CASE l.job = proc[i].job
    <3>1. JobIsRight(i, s)
      BY DEF WorkspaceInv, CommandIsRight
    <3> QED
      BY <1>1, <2>1, <3>1 DEF JobIsRight
  <2>2. CASE l.job = Idle.job
    <3>1. l.job[s].state = "queued"
      BY <2>2, IdleIsLocal
    <3> QED
      BY <1>1, <3>1 DEF JobIsRight
  <2> QED
    BY <2>1, <2>2
<1>4. l.pc \in {"estimate", "script", "timeline"} => In(i, {"done"})' = Sections
  BY <1>1 DEF In
<1>5. CommandIsRight(i)'
  BY <1>1, <1>3, <1>4 DEF CommandIsRight
<1> QED
  BY <1>2, <1>5, WorkspaceStep

LEMMA WorkspaceMoved ==
    ASSUME OneCommand, WorkspaceInv, DraftingInv', NEW i \in Procs,
           UNCHANGED <<plan, sections, script, timeline>>,
           \/ Become(i, Idle)
           \/ Goto(i, "plan")
           \/ Goto(i, "drain") /\ plan # None
           \/ Goto(i, "estimate") /\ plan # None /\ In(i, {"done"}) = Sections
           \/ Goto(i, "script") /\ plan # None /\ In(i, {"done"}) = Sections
    PROVE  WorkspaceInv'
<1>1. DraftingInv
  BY DEF WorkspaceInv
<1>2. CASE Become(i, Idle)
  BY <1>2, IdleIsLocal, CommandMoves
<1>3. CASE Goto(i, "plan")
  <2>1. PICK l \in Locals : Become(i, l) /\ l.pc = "plan" /\ l.job = proc[i].job
    BY <1>1, <1>3, Moved
  <2> QED
    BY <2>1, CommandMoves
<1>4. CASE Goto(i, "drain") /\ plan # None
  <2>1. PICK l \in Locals : Become(i, l) /\ l.pc = "drain" /\ l.job = proc[i].job
    BY <1>1, <1>4, Moved
  <2> QED
    BY <1>4, <2>1, CommandMoves
<1>5. CASE Goto(i, "estimate") /\ plan # None /\ In(i, {"done"}) = Sections
  <2>1. PICK l \in Locals : Become(i, l) /\ l.pc = "estimate" /\ l.job = proc[i].job
    BY <1>1, <1>5, Moved
  <2> QED
    BY <1>5, <2>1, CommandMoves
<1>6. CASE Goto(i, "script") /\ plan # None /\ In(i, {"done"}) = Sections
  <2>1. PICK l \in Locals : Become(i, l) /\ l.pc = "script" /\ l.job = proc[i].job
    BY <1>1, <1>6, Moved
  <2> QED
    BY <1>6, <2>1, CommandMoves
<1> QED
  BY <1>2, <1>3, <1>4, <1>5, <1>6

\* The steps of the command that save nothing.
LEMMA ReadingKeeps ==
    ASSUME OneCommand, WorkspaceInv, DraftingInv', NEW i \in Procs,
           \/ \E input \in Inputs : Ask(i, input)
           \/ Prepare(i) \/ LoadPlan(i) \/ RefusePlan(i) \/ AcceptPlan(i) \/ AllDrafted(i)
           \/ SeeFailure(i) \/ Drained(i) \/ Estimate(i) \/ Interrupt(i) \/ Kill(i)
    PROVE  WorkspaceInv' /\ UNCHANGED <<plan, sections, script, timeline>>
<1>1. UNCHANGED <<plan, sections, script, timeline>>
  BY DEF Ask, Prepare, LoadPlan, RefusePlan, AcceptPlan, AllDrafted, SeeFailure, Drained,
         Estimate, Interrupt, Kill, outputs
<1>2. /\ proc[i] \in Locals /\ CommandIsRight(i) /\ plan \in Plans \cup {None}
      /\ Idle \in Locals /\ Idle.pc = "idle"
  BY WorkspaceKnown, IdleIsLocal DEF DraftingInv, DraftingTypeOK
<1>3. ASSUME NEW input \in Inputs, Ask(i, input) PROVE WorkspaceInv'
  <2> DEFINE l == [Idle EXCEPT !.pc = "prepare", !.input = input]
  <2>1. l \in Locals /\ l.job = Idle.job /\ l.pc = "prepare"
    BY <1>2 DEF Locals
  <2>2. Become(i, l)
    BY <1>3 DEF Ask
  <2> HIDE DEF l
  <2> QED
    BY <1>1, <2>1, <2>2, CommandMoves
<1>4. CASE LoadPlan(i)
  <2> DEFINE l == [proc[i] EXCEPT !.pc = "draft", !.plan = plan]
  <2>1. l \in Locals /\ l.job = proc[i].job /\ l.pc = "draft"
    BY <1>2 DEF Locals
  <2>2. Become(i, l) /\ plan # None
    BY <1>4 DEF LoadPlan
  <2> HIDE DEF l
  <2> QED
    BY <1>1, <2>1, <2>2, CommandMoves
<1>5. CASE AcceptPlan(i)
  <2>1. PICK p \in Plans : Become(i, [proc[i] EXCEPT !.pc = "savePlan", !.plan = p])
    BY <1>5 DEF AcceptPlan
  <2> DEFINE l == [proc[i] EXCEPT !.pc = "savePlan", !.plan = p]
  <2>2. l \in Locals /\ l.job = proc[i].job /\ l.pc = "savePlan" /\ l.plan = p
    BY <1>2 DEF Locals
  <2>3. Become(i, l) /\ plan = None
    BY <1>5, <2>1 DEF AcceptPlan
  <2> HIDE DEF l
  <2> QED
    BY <1>1, <2>2, <2>3, CommandMoves
<1>6. CASE RefusePlan(i)
  <2>1. CASE proc[i].attempt = MaxAttempts
    BY <1>1, <1>6, <2>1, WorkspaceMoved DEF RefusePlan
  <2>2. CASE proc[i].attempt # MaxAttempts
    <3> DEFINE l == [proc[i] EXCEPT !.attempt = @ + 1]
    <3>1. Become(i, l)
      BY <1>6, <2>2 DEF RefusePlan
    <3>2. l \in Locals /\ l.job = proc[i].job /\ l.pc = "plan"
      BY <1>2, <1>6, <2>2, OtherAttempt DEF RefusePlan, At
    <3> HIDE DEF l
    <3> QED
      BY <1>1, <3>1, <3>2, CommandMoves
  <2> QED
    BY <2>1, <2>2
<1>7. CASE Prepare(i)
  <2>1. Goto(i, "plan") \/ Become(i, Idle)
    BY <1>7 DEF Prepare
  <2> QED
    BY <1>1, <2>1, WorkspaceMoved
<1>8. CASE AllDrafted(i) \/ SeeFailure(i) \/ Drained(i) \/ Estimate(i) \/ Interrupt(i) \/ Kill(i)
  <2>1. \/ Become(i, Idle)
        \/ Goto(i, "drain") /\ proc[i].pc = "draft"
        \/ Goto(i, "estimate") /\ proc[i].pc = "draft" /\ In(i, {"done"}) = Sections
        \/ Goto(i, "script") /\ proc[i].pc = "estimate"
    BY <1>8 DEF AllDrafted, SeeFailure, Drained, Estimate, Interrupt, Kill, At
  <2> QED
    BY <1>1, <1>2, <2>1, WorkspaceMoved DEF CommandIsRight
<1> QED
  BY <1>1, <1>3, <1>4, <1>5, <1>6, <1>7, <1>8

\* plan.json.
LEMMA PlanSaved ==
    ASSUME OneCommand, WorkspaceInv, DraftingInv', NEW i \in Procs, SavePlan(i)
    PROVE  /\ WorkspaceInv' /\ UNCHANGED <<sections, script, timeline>>
           /\ plan = None /\ plan' # None /\ script = None
<1>1. /\ plan = None /\ proc[i].plan \in Plans /\ plan' = proc[i].plan /\ Goto(i, "draft")
      /\ UNCHANGED <<sections, script, timeline>>
  BY WorkspaceKnown DEF SavePlan, CommandIsRight, At, outputs
<1>2. plan' # None
  BY <1>1, NoneIsNothing
<1>3. script = None /\ timeline = None
  BY <1>1 DEF WorkspaceInv, OutputsAreRight
<1>4. PICK l \in Locals : Become(i, l) /\ l.pc = "draft" /\ l.job = proc[i].job
  BY <1>1, Moved DEF WorkspaceInv
<1>5. proc'[i] = l
  BY <1>4 DEF WorkspaceInv, DraftingInv, DraftingTypeOK, Become
<1>6. ASSUME NEW s \in Sections PROVE JobIsRight(i, s)'
  <2>1. JobIsRight(i, s)
    BY WorkspaceKnown DEF CommandIsRight
  <2> QED
    BY <1>1, <1>4, <1>5, <2>1 DEF JobIsRight
<1>7. CommandIsRight(i)'
  BY <1>2, <1>4, <1>5, <1>6 DEF CommandIsRight
<1>8. OutputsAreRight'
  BY <1>1, <1>3 DEF OutputsAreRight
<1> QED
  BY <1>1, <1>2, <1>3, <1>7, <1>8, WorkspaceStep

\* What a command that has drafted everything assembles are the checkpoints.
LEMMA AssembledIsSections ==
    ASSUME WorkspaceInv, NEW i \in Procs, proc[i].pc \in {"script", "timeline"}
    PROVE  /\ Assembled(proc[i].job) = sections /\ plan # None
           /\ \A s \in Sections : sections[s] # None
           /\ sections # None
<1>1. \A s \in Sections : JobIsRight(i, s)
  BY WorkspaceKnown DEF CommandIsRight
<1>2. In(i, {"done"}) = Sections /\ plan # None
  BY WorkspaceKnown DEF CommandIsRight
<1>3. \A s \in Sections : proc[i].job[s].text = sections[s] /\ sections[s] # None
  BY <1>1, <1>2 DEF In, JobIsRight
<1>4. sections \in [Sections -> Texts \cup {None}]
  BY WorkspaceKnown
<1>5. Assembled(proc[i].job) = sections
  BY <1>3, <1>4 DEF Assembled
<1>6. sections \in [Sections -> Texts]
  BY <1>3, <1>4
<1> QED
  BY <1>2, <1>3, <1>5, <1>6, NoneIsNothing

\* script.md.
LEMMA ScriptSaved ==
    ASSUME OneCommand, WorkspaceInv, DraftingInv', NEW i \in Procs, SaveScript(i)
    PROVE  /\ WorkspaceInv' /\ UNCHANGED <<plan, sections, timeline>>
           /\ plan # None /\ script' # None /\ \A s \in Sections : sections[s] # None
<1>1. /\ proc[i].pc = "script" /\ script' = Assembled(proc[i].job) /\ Goto(i, "timeline")
      /\ UNCHANGED <<plan, sections, timeline>>
  BY DEF SaveScript, At
<1>2. /\ script' = sections /\ script' # None /\ plan # None
      /\ \A s \in Sections : sections[s] # None
  BY <1>1, AssembledIsSections
<1>3. PICK l \in Locals : Become(i, l) /\ l.pc = "timeline" /\ l.job = proc[i].job
  BY <1>1, Moved DEF WorkspaceInv
<1>4. proc'[i] = l
  BY <1>3 DEF WorkspaceInv, DraftingInv, DraftingTypeOK, Become
<1>5. ASSUME NEW s \in Sections PROVE JobIsRight(i, s)'
  <2>1. JobIsRight(i, s)
    BY WorkspaceKnown DEF CommandIsRight
  <2> QED
    BY <1>1, <1>3, <1>4, <2>1 DEF JobIsRight
<1>6. In(i, {"done"})' = Sections
  <2>1. In(i, {"done"}) = Sections
    BY <1>1, WorkspaceKnown DEF CommandIsRight
  <2> QED
    BY <1>3, <1>4, <2>1 DEF In
<1>7. CommandIsRight(i)'
  BY <1>1, <1>2, <1>3, <1>4, <1>5, <1>6 DEF CommandIsRight
<1>8. OutputsAreRight'
  <2>1. timeline # None => timeline = sections
    BY DEF WorkspaceInv, OutputsAreRight
  <2> QED
    BY <1>1, <1>2, <2>1 DEF OutputsAreRight
<1> QED
  BY <1>1, <1>2, <1>7, <1>8, WorkspaceStep

\* timeline.json.
LEMMA TimelineSaved ==
    ASSUME OneCommand, WorkspaceInv, DraftingInv', NEW i \in Procs, SaveTimeline(i)
    PROVE  WorkspaceInv' /\ UNCHANGED <<plan, sections, script>>
<1>1. /\ proc[i].pc = "timeline" /\ timeline' = Assembled(proc[i].job) /\ Become(i, Idle)
      /\ UNCHANGED <<plan, sections, script>>
  BY DEF SaveTimeline, At
<1>2. script # None /\ OutputsAreRight
  BY <1>1, WorkspaceKnown DEF CommandIsRight
<1>3. timeline' = script
  BY <1>1, <1>2, AssembledIsSections DEF OutputsAreRight
<1>4. OutputsAreRight'
  BY <1>1, <1>2, <1>3 DEF OutputsAreRight
<1>5. proc'[i] = Idle
  BY <1>1 DEF WorkspaceInv, DraftingInv, DraftingTypeOK, Become
<1>6. CommandIsRight(i)'
  BY <1>5, IdleIsLocal DEF CommandIsRight, JobIsRight
<1> QED
  BY <1>1, <1>4, <1>6, WorkspaceStep

\* sections/<id>.json: a section is saved once, while it is missing, and before
\* anything is published.
SavesSection(s) ==
    /\ sections[s] = None /\ sections'[s] # None
    /\ \A t \in Sections : t # s => sections'[t] = sections[t]
    /\ script = None /\ plan # None

LEMMA JobKeeps ==
    ASSUME OneCommand, WorkspaceInv, DraftingInv', NEW i \in Procs, NEW s \in Sections, JobStep(i, s)
    PROVE  /\ WorkspaceInv' /\ UNCHANGED <<plan, script, timeline>>
           /\ UNCHANGED sections \/ SavesSection(s)
<1>1. DraftingInv /\ sections \in [Sections -> Texts \cup {None}]
  BY WorkspaceKnown
<1>2. /\ UNCHANGED <<plan, script, timeline>> /\ proc[i].pc \in {"draft", "drain"}
      /\ sections' \in [Sections -> Texts \cup {None}]
  BY <1>1, JobBecomes
<1>3. PICK job \in Job : SetJob(i, s, job) /\ Outcome(i, s, job)
  BY <1>1, JobBecomes
<1>4. PICK l \in Locals :
        /\ Become(i, l) /\ l.pc = proc[i].pc
        /\ l.job[s] = job /\ \A t \in Sections : t # s => l.job[t] = proc[i].job[t]
  BY <1>1, <1>3, JobMoves
<1>5. proc'[i] = l
  BY <1>1, <1>4 DEF DraftingInv, DraftingTypeOK, Become
<1>6. plan # None /\ \A t \in Sections : JobIsRight(i, t)
  BY <1>2, WorkspaceKnown DEF CommandIsRight
<1>7. UNCHANGED sections \/ (SavesSection(s) /\ job.state = "done" /\ sections'[s] = job.text)
  <2>1. CASE /\ job.state = "done" /\ proc[i].job[s].state = "save"
             /\ job.text = proc[i].job[s].text /\ sections' = [sections EXCEPT ![s] = job.text]
    <3>1. sections[s] = None /\ job.text \in Texts
      BY <1>6, <2>1 DEF JobIsRight
    <3>2. sections'[s] = job.text /\ \A t \in Sections : t # s => sections'[t] = sections[t]
      BY <1>1, <2>1
    <3>3. script = None
      BY <3>1 DEF WorkspaceInv, OutputsAreRight
    <3> QED
      BY <1>6, <2>1, <3>1, <3>2, <3>3, NoneIsNothing DEF SavesSection
  <2> QED
    BY <1>3, <2>1 DEF Outcome
<1>8. \A t \in Sections : t # s => sections'[t] = sections[t]
  BY <1>7 DEF SavesSection
<1>9. JobIsRight(i, s)'
  <2>1. CASE UNCHANGED sections
    <3>1. JobIsRight(i, s)
      BY <1>6
    <3>2. \/ job.state \in {"load", "failed"}
          \/ job.state = "call" /\ sections[s] = None
          \/ job.state = "save" /\ sections[s] = None /\ job.text \in Texts
          \/ job.state = "done" /\ sections[s] # None /\ job.text = sections[s]
      <4>1. CASE job.state = "done" /\ proc[i].job[s].state = "save"
                 /\ job.text = proc[i].job[s].text /\ sections' = [sections EXCEPT ![s] = job.text]
        <5>1. sections[s] = None /\ job.text \in Texts /\ sections'[s] = job.text
          BY <1>1, <3>1, <4>1 DEF JobIsRight
        <5> QED
          BY <2>1, <5>1, NoneIsNothing
      <4> QED
        BY <1>3, <3>1, <4>1 DEF Outcome, JobIsRight
    <3> QED
      BY <1>4, <1>5, <2>1, <3>2 DEF JobIsRight
  <2>2. CASE SavesSection(s) /\ job.state = "done" /\ sections'[s] = job.text
    BY <1>4, <1>5, <2>2 DEF JobIsRight, SavesSection
  <2> QED
    BY <1>7, <2>1, <2>2
<1>10. ASSUME NEW t \in Sections, t # s PROVE JobIsRight(i, t)'
  <2>1. JobIsRight(i, t) /\ sections'[t] = sections[t] /\ proc'[i].job[t] = proc[i].job[t]
    BY <1>4, <1>5, <1>6, <1>8, <1>10
  <2> QED
    BY <2>1 DEF JobIsRight
<1>11. CommandIsRight(i)'
  <2>1. proc'[i].pc \in {"draft", "drain"} /\ plan' # None
    BY <1>2, <1>4, <1>5, <1>6
  <2> QED
    BY <1>9, <1>10, <2>1 DEF CommandIsRight
<1>12. OutputsAreRight'
  <2>1. OutputsAreRight
    BY WorkspaceKnown
  <2>2. CASE UNCHANGED sections
    BY <1>2, <2>1, <2>2 DEF OutputsAreRight
  <2>3. CASE SavesSection(s)
    BY <1>2, <2>1, <2>3 DEF OutputsAreRight, SavesSection
  <2> QED
    BY <1>7, <2>2, <2>3
<1> QED
  BY <1>2, <1>7, <1>11, <1>12, WorkspaceStep

LEMMA WorkspaceKept ==
    ASSUME OneCommand, WorkspaceInv, [Next]_vars
    PROVE  WorkspaceInv'
<1>1. DraftingInv'
  BY DraftingKept DEF WorkspaceInv
<1>2. CASE UNCHANGED vars
  BY <1>1, <1>2 DEF vars, outputs, WorkspaceInv, CommandIsRight, JobIsRight, OutputsAreRight, In
<1>3. ASSUME NEW i \in Procs, NEW s \in Sections, JobStep(i, s) PROVE WorkspaceInv'
  BY <1>1, <1>3, JobKeeps
<1> QED
  BY <1>1, <1>2, <1>3, ReadingKeeps, PlanSaved, ScriptSaved, TimelineSaved DEF Next, Main, JobStep

LEMMA WorkspaceStarts == Init => WorkspaceInv
<1> SUFFICES ASSUME Init PROVE WorkspaceInv
  OBVIOUS
<1>1. \A i \in Procs : proc[i] = Idle
  BY DEF Init
<1>2. \A i \in Procs : CommandIsRight(i)
  BY <1>1, IdleIsLocal DEF CommandIsRight, JobIsRight
<1>3. OutputsAreRight
  BY DEF Init, OutputsAreRight
<1> QED
  BY <1>2, <1>3, DraftingStarts DEF WorkspaceInv

LEMMA WorkspaceInvariant ==
    ASSUME OneCommand
    PROVE  Spec => []WorkspaceInv
BY WorkspaceStarts, WorkspaceKept, PTL DEF Spec

\* A command that resumes asks the model for missing sections only.
THEOREM OnlyMissing ==
    ASSUME OneCommand
    PROVE  Spec => OnlyMissingIsAsked
<1>1. ASSUME WorkspaceInv, NEW i \in Procs, NEW s \in Sections, JobAt(i, s, "call")
      PROVE  sections[s] = None
  BY <1>1 DEF WorkspaceInv, CommandIsRight, JobIsRight, JobAt
<1>2. WorkspaceInv /\ [Next]_vars =>
        [\A i \in Procs, s \in Sections :
           JobAt(i, s, "call") /\ proc'[i].job[s] # proc[i].job[s] /\ proc'[i].pc # "idle"
             => sections[s] = None]_vars
  BY <1>1
<1> QED
  BY <1>2, WorkspaceInvariant, PTL DEF Spec, OnlyMissingIsAsked

-----------------------------------------------------------------------------
(***************************************************************************)
(* The promise.                                                            *)
(***************************************************************************)
Drafted == {s \in Sections : sections[s] # None}

PromiseStep == [Promise!Next]_(Promise!vars)

\* What is published is everything, or nothing yet.
LEMMA AllIsPublished ==
    WorkspaceInv => (script # None => Cardinality(Published) = NSections)
<1> SUFFICES ASSUME WorkspaceInv, script # None PROVE Cardinality(Published) = NSections
  OBVIOUS
<1>1. script = sections /\ timeline \in {None, script}
  BY DEF WorkspaceInv, OutputsAreRight
<1>2. Published = Sections
  BY <1>1 DEF Published
<1> QED
  BY <1>2, SectionsAreFinite

LEMMA AllIsPublishedNext ==
    ASSUME WorkspaceInv', script' # None
    PROVE  Cardinality(Published)' = NSections
<1>1. script' = sections' /\ timeline' \in {None, script'}
  BY DEF WorkspaceInv, OutputsAreRight
<1>2. Published' = Sections
  BY <1>1 DEF Published
<1> QED
  BY <1>2, SectionsAreFinite

LEMMA PromiseStutters ==
    ASSUME WorkspaceInv, WorkspaceInv', UNCHANGED <<plan, sections, script>>
    PROVE  PromiseStep
<1>1. script # None => Cardinality(Published) = NSections
  BY AllIsPublished
<1>2. script' # None => Cardinality(Published)' = NSections
  BY AllIsPublishedNext
<1> QED
  BY <1>1, <1>2 DEF PromiseStep, Promise!vars

LEMMA PlanIsDrafted ==
    ASSUME UNCHANGED <<sections, script>>, plan = None, plan' # None, script = None
    PROVE  PromiseStep
<1>1. Cardinality(Drafted) \in Nat /\ Cardinality(Drafted) <= NSections
  BY CountIsNat DEF Drafted
<1>2. Cardinality(Drafted) + 0 < NSections + 1 /\ Cardinality(Drafted) + 1 = (Cardinality(Drafted) + 0) + 1
  BY <1>1, SectionsAreFinite
<1>3. Promise!DraftUnit
  BY <1>2 DEF Promise!DraftUnit, Drafted
<1> QED
  BY <1>3 DEF PromiseStep, Promise!Next

LEMMA SectionIsDrafted ==
    ASSUME NEW s \in Sections, SavesSection(s), UNCHANGED <<plan, script>>
    PROVE  PromiseStep
<1>1. Drafted' = Drafted \cup {s} /\ s \notin Drafted
  BY DEF Drafted, SavesSection
<1>2. Drafted \in SUBSET Sections /\ Drafted' \in SUBSET Sections
  BY <1>1 DEF Drafted
<1>3. IsFiniteSet(Drafted) /\ Cardinality(Drafted) \in Nat
  BY <1>2, CountIsNat
<1>4. Cardinality(Drafted') = Cardinality(Drafted) + 1
  BY <1>1, <1>3, FS_AddElement
<1>5. Cardinality(Drafted') <= NSections
  BY <1>2, CountIsNat
<1>6. /\ Cardinality(Drafted) + 1 < NSections + 1
      /\ Cardinality(Drafted') + 1 = (Cardinality(Drafted) + 1) + 1
  BY <1>3, <1>4, <1>5, SectionsAreFinite
<1>7. Promise!DraftUnit
  BY <1>6 DEF Promise!DraftUnit, Drafted, SavesSection
<1> QED
  BY <1>7 DEF PromiseStep, Promise!Next

LEMMA DraftIsFinished ==
    ASSUME WorkspaceInv', UNCHANGED <<plan, sections>>, plan # None, script' # None,
           \A s \in Sections : sections[s] # None
    PROVE  PromiseStep
<1>1. Cardinality(Published)' = NSections
  BY AllIsPublishedNext
<1>2. Drafted = Sections
  BY DEF Drafted
<1>3. Cardinality(Drafted) = NSections
  BY <1>2, SectionsAreFinite
<1>4. Promise!FinishDrafts
  BY <1>1, <1>3 DEF Promise!FinishDrafts, Drafted
<1> QED
  BY <1>4 DEF PromiseStep, Promise!Next

LEMMA PromiseStarts == Init => Promise!Init
<1> SUFFICES ASSUME Init PROVE Promise!Init
  OBVIOUS
<1>1. Drafted = {}
  BY DEF Init, Drafted
<1>2. Cardinality(Drafted) = 0
  BY <1>1, FS_EmptySet
<1> QED
  BY <1>2 DEF Init, Promise!Init, Drafted

\* generate keeps the promise GenerateCommand is built on: the plan and the sections
\* are drafted one by one, none is lost, and a draft is published with all of them.
THEOREM PromiseFulfilled ==
    ASSUME OneCommand
    PROVE  Spec => FulfilsPromise
<1>1. ASSUME WorkspaceInv, WorkspaceInv', [Next]_vars PROVE PromiseStep
  <2>1. DraftingInv'
    BY <1>1 DEF WorkspaceInv
  <2>2. CASE UNCHANGED vars
    BY <1>1, <2>2, PromiseStutters DEF vars, outputs
  <2>3. ASSUME NEW i \in Procs, NEW s \in Sections, JobStep(i, s) PROVE PromiseStep
    <3>1. UNCHANGED <<plan, script>> /\ (UNCHANGED sections \/ SavesSection(s))
      BY <1>1, <2>1, <2>3, JobKeeps
    <3> QED
      BY <1>1, <3>1, PromiseStutters, SectionIsDrafted
  <2>4. ASSUME NEW i \in Procs, SavePlan(i) PROVE PromiseStep
    BY <1>1, <2>1, <2>4, PlanSaved, PlanIsDrafted
  <2>5. ASSUME NEW i \in Procs, SaveScript(i) PROVE PromiseStep
    BY <1>1, <2>1, <2>5, ScriptSaved, DraftIsFinished
  <2>6. ASSUME NEW i \in Procs, SaveTimeline(i) PROVE PromiseStep
    BY <1>1, <2>1, <2>6, TimelineSaved, PromiseStutters
  <2>7. ASSUME NEW i \in Procs,
               \/ \E input \in Inputs : Ask(i, input)
               \/ Prepare(i) \/ LoadPlan(i) \/ RefusePlan(i) \/ AcceptPlan(i) \/ AllDrafted(i)
               \/ SeeFailure(i) \/ Drained(i) \/ Estimate(i) \/ Interrupt(i) \/ Kill(i)
        PROVE  PromiseStep
    BY <1>1, <2>1, <2>7, ReadingKeeps, PromiseStutters
  <2> QED
    BY <1>1, <2>2, <2>3, <2>4, <2>5, <2>6, <2>7 DEF Next, Main, JobStep
<1> QED
  BY <1>1, PromiseStarts, WorkspaceInvariant, PTL DEF Spec, FulfilsPromise, Promise!Spec, PromiseStep
=============================================================================
