---------------------- MODULE SectionDraftingProperties ----------------------
(***************************************************************************)
(* What drafting promises across interrupted, killed and repeated          *)
(* commands: a checkpoint is never asked for again, nothing is published   *)
(* but checkpoints, and asking again ends in a draft.                      *)
(***************************************************************************)
EXTENDS SectionDrafting

\* Types; and no more jobs are at work than there are threads.
DraftingTypeOK ==
    /\ request \in Inputs \cup {None}
    /\ plan \in Plans \cup {None}
    /\ \A s \in Sections : sections[s] \in Texts \cup {None}
    /\ proc \in [Procs -> Locals]
    /\ refusals \in Refusals
    /\ events \in [failures : 0..MaxFailures, stops : 0..MaxStops]
    /\ \A i \in Procs : Cardinality(In(i, Working)) <= Threads

\* docs/phase-3-5-local-generation.md:123: a command that resumes asks the model for
\* the missing sections only, whichever of them the command before had finished.
OnlyMissingIsAsked ==
    [][\A i \in Procs, s \in Sections :
          JobAt(i, s, "call") /\ proc'[i].job[s] # proc[i].job[s] /\ proc'[i].pc # "idle"
             => sections[s] = None]_vars

\* The checkpoints a reader of the outputs meets again, in both of them.
Published ==
    {s \in Sections : script[s] = sections[s] /\ timeline \in {None, script}}

Promise == INSTANCE DraftPromise
    WITH Units <- NSections + 1,
         drafts <- Cardinality({s \in Sections : sections[s] # None})
                      + (IF plan = None THEN 0 ELSE 1),
         published <- IF script = None THEN 0 ELSE Cardinality(Published) + 1

\* generate keeps the promise GenerateCommand is built on: every step adds one
\* checkpoint or none, the script is written only after all of them, and from then
\* on script.md and timeline.json are made of the very checkpoints that are there,
\* whatever stopped a command between the two writes or came after it.
FulfilsPromise == Promise!Spec

\* docs/phase-3-5-local-generation.md:110: plan.json and every file in sections/
\* contain already validated objects.  (Dropping the sentences that do not fit can
\* bring a claim next to a condition, which the validated text kept apart.)
CheckpointsAreValid ==
    \A s \in Sections : sections[s] # None => Valid(sections[s], plan)

\* What a workspace does not get out of by being asked again: a plan or a section
\* the model refuses in every attempt, since a repeated command gets the same
\* answers to the same prompts and seeds; an unsafe checkpoint, which every resume
\* refuses; and sections that are together too long or too short, which every
\* resume loads and finds out of tolerance.
Stuck ==
    \/ plan = None /\ refusals[0] = MaxAttempts
    \/ \E s \in Sections : sections[s] = None /\ refusals[s] = MaxAttempts
    \/ \E s \in Sections : sections[s] # None /\ ~Safe(sections[s])
    \/ (\A s \in Sections : sections[s] # None) /\ ~InTolerance(sections)

\* A draft asked for again and again is in the end published, however the commands
\* before were interrupted and whatever errors of the adapter or answers worth a
\* repair they met, unless its workspace is stuck.
RepeatedDraftSucceeds == <>[](timeline # None \/ Stuck)

\* The user asks again; a command that is running and a thread that has work go on.
FairSpec ==
    /\ Spec
    /\ \A i \in Procs :
          /\ \A input \in Inputs : SF_vars(Ask(i, input))
          /\ WF_vars(Main(i))
          /\ \A s \in Sections : WF_vars(Draft(i, s))

-----------------------------------------------------------------------------
(***************************************************************************)
(* The inductive invariants behind DraftingTypeOK and, when one command at *)
(* a time works in a workspace, behind OnlyMissingIsAsked and              *)
(* FulfilsPromise.                                                         *)
(***************************************************************************)
OneCommand == \A i, j \in Procs : i = j

DraftingInv ==
    /\ DraftingTypeOK
    /\ sections \in [Sections -> Texts \cup {None}]

\* A job is at the model, or has its answer to save, only for a section that is
\* missing; what a job is done with is the checkpoint.
JobIsRight(i, s) ==
    LET job == proc[i].job[s] IN
    /\ job.state \in {"call", "save"} => sections[s] = None
    /\ job.state = "save" => job.text \in Texts
    /\ job.state = "done" => sections[s] # None /\ job.text = sections[s]

CommandIsRight(i) ==
    /\ proc[i].pc = "savePlan" => plan = None /\ proc[i].plan \in Plans
    /\ proc[i].pc \in {"draft", "drain", "estimate", "script", "timeline"} => plan # None
    /\ \A s \in Sections : JobIsRight(i, s)
    /\ proc[i].pc \in {"estimate", "script", "timeline"} => In(i, {"done"}) = Sections
    /\ proc[i].pc = "timeline" => script # None

\* The outputs are made of all the checkpoints, and of nothing else.
OutputsAreRight ==
    /\ script # None =>
          plan # None /\ script = sections /\ \A s \in Sections : sections[s] # None
    /\ timeline # None => timeline = script

WorkspaceInv ==
    /\ DraftingInv
    /\ \A i \in Procs : CommandIsRight(i)
    /\ OutputsAreRight
=============================================================================
