# Whoopy: TLA+ specifications

Whoopy turns a prompt or a script into a spoken meditation on one laptop. A
*run* is a directory; its `run.json` is the only authority on what happened to
it, and several operating-system processes (the CLI, workers, the web studio's
children) read and write it without a server between them. These modules
specify that control plane: who may write the record when, what survives a
crash, and what a reader may conclude from a status.

## The system

Paths are relative to `src/src/whoopy/`.

| Component | State it keeps | Operations | Interacts through |
|---|---|---|---|
| Run record and store (`pipeline/runs.py`) | `run.json`, immutable inputs, timeline, artifacts | create, promote, start/restart generation, heartbeat, reconcile, fail, interrupt | files; an in-process record lock; the run's OS lock |
| Run lock (`pipeline/locks.py`) | one OS advisory lock per run | acquire (never waits), release | freed by the OS when its holder dies |
| Audio worker (`pipeline/worker.py`) | its own copy of the record, counters, prepared audio, heartbeat thread | process, resume, continue_generated | run lock, record, checkpoints, cache, synthesizer |
| Checkpoints and cache (`pipeline/checkpoints.py`, `pipeline/cache.py`) | per-run segment audio; content-addressed audio shared by runs | load, save, store | files |
| Regeneration (`pipeline/regeneration.py`) | nothing of its own; a request inside the record | reopen a stopped run for one segment | run lock, record |
| Generate command (`cli.py`) | generation and handoff heartbeats, attempt identifier | draft, promote, hand over to a worker, fail, interrupt | run lock, record, workspace |
| Meditation generator (`meditation/`) | a workspace: the request it is bound to, plan, sections, outputs | draft, repair and fit, by one thread or two; resume | language model, files |
| Web studio (`webui/server.py`) | background tasks by run | start, cancel, resume, regenerate | child CLI processes, record |
| Model packs (`model_packs/`) | one directory per pack with its progress record, staged downloads, a trash, install and trash locks | install, reuse, remove, restore, list | files, OS locks |
| Pack readiness (`model_packs/manager.py`, `registry.py`) | two evidence files per pack, bound to a fingerprint of the shared runtime | probe, record, inspect | files, the slot |
| Heavyweight slot (`model_packs/operations.py`) | one OS lock, an owner record | acquire (never waits), release, status | files, OS lock |
| Artifacts (`artifacts.py`) | downloads and their parts, extracted trees, records, wheel environments; no lock | install, inspect, require, materialize | network, files, adapters |
| JSON process adapters (`adapters/tts/`) | a worker process in a session of its own, a request counter, a bounded queue of its lines | start, request, time out, close | pipes, the slot |
| Timeline, audio, quality | none (pure) | compile, render, measure | |
| Events and logs (`pipeline/events.py`, `pipeline/logs.py`) | a bounded rotating log | append, rotate | files |
| Configuration, hardware, evaluation | none shared with runs | | |

### What is hard here

* Many writers of one file: a worker, its heartbeat thread, reconciliation by
  any other command, and handlers that hold no lock.
* A record is written from a *copy* read earlier; only the run lock keeps the
  copy current.
* A run changes owner twice on its way (generation, handoff, worker), and the
  run lock is free in between.
* Signals surface as exceptions anywhere, inside handlers too; processes die
  without one; a lease expires while its owner lives.
* An install of hundreds of megabytes is stopped anywhere and taken up by another
  process, while a removal, which takes another lock, moves the directory away.
* A model worker may hang, die, print what it likes or outlive its controller;
  late and repeated lines meet a queue that is shared by successive requests.
* Artifacts are installed and loaded by processes with no lock between them, and
  a record saves the next reader a digest if the file's size and mtime fit.
* Sections are drafted by threads that checkpoint on their own, while the main
  thread learns of failures in the plan's order.
* Evidence that a pack works names a runtime that is read before the probe and may
  be rebuilt during it; no lock covers a probe from its first read to its last write.
* What is promised to survive (checkpoints, a regeneration request, a planning
  request) survives in different files that are replaced one at a time.

`PROJECT.json` lists these hazards at their lines with the properties that
guard each of them.

## Modules

* **RunRecord**: the record, its validator (`ValidRecord`), and the pure
  transformations every writer uses: `Claimed`, `Beat`, `Finished`,
  `Reconciled`. Wall-clock stamps become the state of the lease they encode;
  schema version, source kind and artifacts become the *form* of the record.
* **RunLifecycle** (extends RunRecord): one run and the worker processes that
  claim it. Variables are the files (`record`, `timeline`, `checkpoint`,
  `cache`, `final`, `narration`), the OS lock and each process's local state.
  One action per save of `LocalWorker._execute`, per handler, per command; the
  heartbeat thread, lease expiry, reconciliation, signals and death beside
  them. Audio is represented by the attempt that synthesized it.
* **RunLifecycleProperties**: type invariant, invariants, action properties,
  refinement and liveness of RunLifecycle.
* **RunPromise**: the abstract run an outside reader sees: a status and at most
  one owner. RunLifecycle implements it under `status <- record.status`,
  `owner <- RunOwner`. An owner whose claim could not be saved still leaves a failure
  or an interruption, and the owner that completed the run may undo that before it
  lets go: the code does both (below).
* **RegenerationIntent** (extends RunLifecycleProperties): a history variable
  for regeneration requests that outlived their command.
* **RunLifecycleInvariant**, **RunLifecycleProofs**: the inductive invariants and
  the proofs. Each of the other components keeps its inductive invariant at the end
  of its properties module.
* **GenerateCommand** (extends RunRecord): the way from a placeholder to audio:
  prompt and script mode, `run resume` of planning, the request file, the
  drafts, the promotion bundle, both heartbeats, the handoff, and the handlers
  that run without the run lock. The worker is reduced to claim, progress and
  end; its own steps are those of RunLifecycle.
* **GenerateCommandProperties**, **GenerateCommandProofs**: its properties, invariant
  and proofs.
* **WebStudio** (extends GenerateCommandProperties): one run submitted from the
  browser. A task and the child process it starts share an index; `task` is the
  thread of `_run_generation` or `_run_recovery_command`, `current` the entry of
  `_tasks`, `child` the process. The children's steps are GenerateCommand's;
  around them are the requests, which act on what they saw some steps earlier, the
  launch window, the stop signals, the two
  writers of the studio (`PrelaunchCancel`, `PersistProcessFailure`) and a
  restart of the studio, which its children survive.
* **WebStudioProperties**, **WebStudioProofs**: its properties, fairness, invariant
  and proofs.
* **ModelPacks**: processes that install, remove and restore packs in one models
  directory. `dir` has one value per pack (files and progress record together,
  because the trash moves them together; `None` while there is no directory),
  `staging` what lies below `.downloads`, `trash` the entries of `.trash`.
  `proc` holds each process's place and locals, the packs whose install waits for
  a dependency's among them. A file is a number of chunks that are good or not.
* **ModelPacksProperties**, **ModelPacksProofs**: its properties, statements of the
  code's texts that the code does not keep, its invariant and proofs.
* **ModelRuntime**: the heavyweight speech runtimes. `slot` is the kernel lock,
  `owner` the file beside it, `pc` the controller's place in `_start`, `request`,
  `close` and `release`, `worker` the process it started, `queue` and `reading` the
  response queue and the thread that fills it, `orphans` the workers whose
  controllers are gone.
* **ModelRuntimeProperties**, **ModelRuntimeProofs**: properties, inductive
  invariant, proofs.
* **ArtifactInstall**, **ArtifactInstallProperties**, **ArtifactInstallProofs**:
  one artifact (a file, an archive or a wheel) that installers fetch and adapters load.
  `download`, `part`, `tree`, `record` and `env` are the store's files, `proc` holds
  places and locals, an open file among them. A record's mtime becomes a stamp that is true while the
  download has not been written since.
* **SectionDrafting**, **SectionDraftingProperties**, **SectionDraftingProofs**:
  `generate` over a workspace.
  `request`, `plan`, `sections`, `script` and `timeline` are its files; `proc` holds
  the main thread's place and one job per section. A text is a sequence of sentences
  that may claim an effect or name a condition. `refusals` says how many of the
  model's answers to the plan and to each section are refused.
* **DraftPromise**: what GenerateCommand takes for granted of drafting: checkpoints
  are added one at a time and never lost, and what is published is made of all of
  them. SectionDrafting implements it.
* **PackReadiness**, **PackReadinessProperties**, **PackReadinessProofs**: the probe of
  a pack and the evidence it leaves. `runtime` is the fingerprint of the runtime directory that
  the packs share, `runtimeJson` and `smokeJson` are the evidence files, `exercised`
  and `failed` remember what probes have really seen.
* **MCRunLifecycle**, **MCGenerateCommand**, **MCWebStudio**, **MCModelPacks**,
  **MCModelRuntime**, **MCSectionDrafting**, **MCPackReadiness**: symmetry, the
  packs' dependency graphs, plans and texts for TLC.
  The inductive invariants are in modules that the configured ones extend, so each
  can be put into a configuration as an INVARIANT; each was checked so before it was
  proved.

### How actions correspond to code

Every replacement of a file is one step, because `_write_bytes` writes a
temporary file and renames it. Between two saves of one process any other
process may act. `RunLock.acquire` never blocks, so losing it is an immediate
failure of the command (`Acquire`, `LoseLock`). A worker's save and its
heartbeat's read-modify-write exclude each other (`_state_lock`), so each is one
step. `fail_active_run`, `interrupt_active_run` and `start_generation` load and
save without a lock: one step when the caller holds the run lock, two steps
(`ReadFor...`, `Save...`) when it does not. A signal is an exception in the
current try block (`Signal`); inside a handler it abandons the handler. The save of
the claim lies inside that block (worker.py:320-322), so a signal or an error there
makes the handler save an end for a run that is still queued or stopped on disk; and
so does the save of COMPLETED, whose directory flush may fail after the rename
(runs.py:1720-1723), which makes the handler save FAILED over it (`Begin`, `Signal`,
`Raise`).

The studio's threads share one lock (`_task_lock`), so each of its blocks is one step.
What a request does is several: `cancel_task` looks for an active task (`FindNoTask`),
`cancel_run` loads the record (`LoadForCancel`) and writes (`CancelQueuedRun`) or
launches (`LaunchRecovery`), `resume_run` reconciles (`Resume`) and launches; tasks are
stored, launched and claimed in between. There may be any number of such requests, so
`requests` is the set of the points some request has reached since the studio started,
and each point stays in it. `_persist_prelaunch_cancel` and `_persist_process_failure`
hold the run lock from load to save and are one step each; a CLI handler that writes
without the lock is not put between the two. `communicate` separates the child's end
(`ChildStep`, `ChildDies`) from the thread's reaction (`Collect`) and that from its
write (`Settle`). `run cancel` is one step: it only probes the run lock, reads the
record and sends a signal. A preflight has no SIGTERM handler and dies of it; past the
preflight the signal is an exception (`ChildStops`). SIGKILL follows after two seconds
(`Kill`).

An install writes its record with a load and a save between which anything may
happen (`ReadUpdate`, `WriteUpdate`); its files with a rename each (`Publish`), its
part chunk by chunk (`CopyChunk`). The handler of `_install_locked` is two steps of
its own (`ReadFailure`, `WriteFailure`). The removal's steps follow the durable
effects of `move_to_trash`: entry, manifest, rename; its handler is `RollBack`. Each
rename, unlink and rmdir of a restore and of the handler may raise (`TrashFails`): what
was done before stays, and the lock is released. The
progress lock only ever serves the holder of the install lock and is left out; a
refused lock request changes nothing and is the absence of a step. In ModelRuntime
the worker and the reader of its output make one step (`Offer`): the reader has
nothing else to do, and a line in the pipe is not distinguished from one in the
queue. `acquire` writes the owner record after the lock and `release` unlinks it
before (`AcquireSlot`, `WriteOwner`; `UnlinkOwner`, `ReleaseSlot`).

In ArtifactInstall every stat, digest, rename, unlink, record write and end of a
directory removal is a step of its own, since nothing excludes another process
between two of them; `inspect` reads size, record and digest one after the other in
the loader (`Look`, `CheckDigest`, ...) and at one instant in an installer's first
and last look. An open descriptor follows its inode through renames, so a download
that is published while a second installer still writes to it changes under its
final name (`Receive`).

In SectionDrafting a job is what one thread does with one section: load it, or ask,
check, fit, and save. Between a thread's steps the others and the main thread act; the
main thread meets failures in the plan's order and lets the jobs that are running finish
before it raises (`Main`). An interrupt waits for them as well, a kill does not. Prompt,
model and seed of every attempt are pinned (generator.py:340-349, 409, 432, 503), so a
repeated command gets the answers the command before got: how many of them are refused
is fixed at the start (`refusals`), for the plan and for each section. Only one process
drafts in a workspace in the run: `draft` takes no lock, and `generate` holds the run's.

In PackReadiness the fingerprint is read before the slot is asked for, the probe runs
without any lock on the runtime, and the two evidence files are two steps; the
dependencies of a pack that passed are recorded one by one, each with the fingerprint
its directory has then. A probe may fail for good or for now (`FailForGood`,
`FailForNow`), or after a good one because the adapter does not unload or the audio is
unsafe (`FailAfterRender`). An inspection reads the disk at one instant.

## Runs

| Run | Bounds | Shows |
|---|---|---|
| lifecycle | 2 processes, 2 segments, 2 attempts, fixture and generated runs | safety and refinement of the worker |
| lifecycle_liveness | 2 processes, 1 segment, 2 attempts | a run does not stay running |
| generation | 2 processes, plan and one section, 2 attempts | safety of the generate command and the handlers around it |
| studio | 2 tasks and children, 1 unit, 1 attempt, 1 restart, prompt and script | safety of the studio's requests and writers over its children |
| studio_liveness | 2 tasks, 1 attempt, a prompt | a cancelled child ends even if it hangs; a submitted run does not stay queued |
| packs | 2 processes; a pack of 1 file of 2 chunks, another installed elsewhere; 1 removal, 2 stops, 1 disk error | whatever is stopped and whatever a source sends, verified bytes are kept, only verified bytes are installed, complete means whole, what is in the trash can be restored |
| packs_liveness | 2 processes, a pack that needs another, 3 chunks, 1 kill | an install that is asked for again is complete in the end |
| runtime | 2 adapters, 2 segments, 2 requests, a queue of 2, 2 stray lines, 1 kill or interrupt | one runtime at a time, audio of its own sentence, every call ends |
| artifacts | 1 installer, 1 loader, a file, archive or wheel of 2 chunks; 2 faults, 2 stops, 1 damage | only pinned bytes are trusted and loaded, a loaded artifact stays, asking again succeeds unless an overlong answer left its part |
| drafting | 3 sections, 2 threads, 2 attempts per section, 2 requests, 2 plans, 2 texts; up to 2 refused answers in all, 1 adapter error, 1 stop | drafting keeps DraftPromise, asks for nothing twice and publishes unless it is stuck |
| readiness | 2 processes; a voice and the tokenizer; 2 runtimes, one of which works; 2 installs, 1 removal, 1 event (a kill, a passing failure, a failure after the render) | READY means exercised with the runtime there is, and is not lost to a passing failure |

`MaxAttempts` bounds the claims of a run and is the only counter that is cut off: the
guard is in `Launch`, so nothing under way is disturbed. Commands launched before the
bound is reached may still claim, so up to one attempt per process more occurs. In
WebStudio it bounds the requests that may draw an attempt (`LaunchRecovery` of a resume;
of `run cancel`, one more), and `MaxRestarts` the studio's restarts: one of each already
lets a child of the old studio meet a resume of the new one, with either source. Two
processes suffice for every race: the record has one lock and the code never waits for
two others. Two segments give a worker one that is kept and one that is made again; two
attempts give a first one that is stopped and a second one that reuses what it left.
Deadlock is not checked there: once the attempts are used up the system really stops.

In ModelPacks `MaxRemovals`, `MaxStops` and `MaxRots` bound events of the environment;
entries of the trash and operation IDs are enough for these by `IdsAssumption`. Two
chunks make a part that is begun, one that is full and one that is too long; two stops
let a second attempt be stopped over what the first one left; the second pack is one
that another installation already provides, until a removal or an install changes which
directory wins. An error of the disk is in `Faults` and may come at any write, as often
as one likes. The liveness run needs three chunks: a download taken up after a kill is
refused once because its first bytes are fewer than the recorded ones, and must get past
that. In ModelRuntime the queue's limit of 8 is 2: two stray lines and an answer pass
it. Symmetry is used only where no liveness property is checked.

In ArtifactInstall two faults and two stops let an installer fail over what a failed and
a killed one left; two chunks make a part that is resumed, full or too long. One
installer, because the store has no lock and two of them break its promises (below). In
SectionDrafting the third section is one that no thread has yet begun when two fail; two
refusals are all attempts of the plan or of one section, or one attempt of two of them,
and the bound is on their sum (`MCRefusals`); the texts are one that fits the wide
budget and is shortened to the narrow one, and one whose shortening can make it unsafe;
the estimate of eight sentences with a tolerance of two has totals on either side. In
PackReadiness two probes overlap, a runtime is rebuilt once, and a pack is taken away
once; `ReadyIsExercised` speaks of packs that no other depends on, because of the
disagreement shown below. In these three runs nothing is ever stuck, so deadlock is
checked.

One run shows a disagreement between the code and what its documents say (the
finding in `PROJECT.json` quotes both sides):

| Run | What happens |
|---|---|
| checkpoints_are_valid | an answer is validated and then shortened to its budget; the text that is left may be unsafe, is checkpointed, and every resume refuses it |

Two further configurations pass and are not among the runs: `MCGenerateLiveness.cfg`
(`MCGenerateCommand`, `NotRunningForever` and `LockIsReleased` through the handoff, four
minutes) and `MCReadinessLiveness.cfg` (`MCPackReadiness`, `ReadyInTheEnd`: probing again
and again makes packs ready once the runtime works).

### Further disagreements

The following configurations are kept for whoever works on these lines; TLC's
trace shows how the code violates each property. The property's comment quotes the
sentence it is taken from. A configuration with several properties has one that is
active and the others commented out, to be checked one at a time.

**MCRunLifecycleDisagreements** (`MCRunLifecycle`), **MCRegenerationIntent**
(`RegenerationIntent`)

| Property | What happens |
|---|---|
| `CompletedIsFinal` | a signal just after the COMPLETED save turns it into interrupted |
| `RecordNamesItsSegment` | the first heartbeat of a model call erases the segment from the record |
| `IntentIsAuthoritative` | a second stop loses a regeneration request that survived the first |

**MCGenerateCommandDisagreements** (`MCGenerateCommand`)

| Property | What happens |
|---|---|
| `LoserChangesNothing` | the loser of the run lock fails the run its winner is about to claim |
| `StoppedAttemptStaysStopped` | a renewal that was under way undoes the recorded end of a failed handoff |
| `WorkerMatchesRun` | an adapter chosen before the lock renders inputs that came after it |
| `PromotionCanFinish` | raw model output of a stopped promotion blocks every later one |
| `NeverStranded` | a crash while the request is written ends in a run no command accepts |

**MCWebStudioDisagreements** (`MCWebStudio`)

| Property | What happens |
|---|---|
| `CliVerdictStands` | the studio overwrites the end its child has saved |
| `CancelSurvivesRestart` | a preflight that outlived the studio claims a run that was cancelled since |
| `CancelledRequestResumes` | a run cancelled before its launch can never be resumed |
| `PlaceholderIsNotRendered` | a failed resume lets the next one render a placeholder instead of the prompt |
| `OneWorkerPerRun` | the first task takes the place of one a resume has started |
| `EveryCancelSticks` | a cancel that looked for a task before the first one was in the table writes while that one is launched: its child restarts the interrupted run unasked |

**MCModelPacksDisagreements** (`MCModelPacks`)

| Property | What happens |
|---|---|
| `CompleteMeansInstalled` | a removal during an install takes files away; what remains is recorded as complete |
| `PayloadIsRecoverable` | a removal that is interrupted while the pack is being made anew unlinks the manifest of the old one |
| `TrashIsListable` | a kill between entry and manifest leaves an entry that every listing fails on |
| `DamagedFileIsLeftAlone` | a restore brings a damaged file back between the check and the rename, which replaces it |
| `PartCanBeFetched` | a part that is too long is never discarded: every later download is refused |
| `ResumedProgressIsAccepted` | an install taken up after a kill fails: its first progress report is below the recorded bytes |

**MCModelRuntimeDisagreements** (`MCModelRuntime`)

| Property | What happens |
|---|---|
| `OneRuntimeLoaded` | the kernel frees the slot of a killed adapter while its worker is still in memory |
| `OwnerIsNeverStale` | between lock and owner record a refused acquire reads the record of a killed owner |

**MCArtifactInstallDisagreements** (`ArtifactInstallProperties`)

| Property | What happens |
|---|---|
| `PlacedIsFinal` | a second installer appends to the part that the first has just renamed to its final name |
| `QuarantineOnlyUntrusted` | a kill between the rename and the record of an archive: the verified download is moved aside and fetched again |
| `PartCanBeResumed` | an answer longer than the file leaves a part that every later download refuses |
| `LoadedIsWhole` with a damaged environment | a wheel environment whose marker fits is returned without a look at its files |

**MCPackReadinessDisagreements** (`MCPackReadiness`)

| Property | What happens |
|---|---|
| `DependencyIsExercised` | the runtime is rebuilt during a probe; the dependency is recorded under the new one, which nobody exercised |
| `FailureProvesRuntime` | a companion that is not runnable is recorded as a failure of this pack's runtime |

### Fairness

`WF(Step(p))`: a process that is neither stopped nor dead goes on; adapters bound
their model calls by timeouts. `WF(Lapse)`: time passes. `SF(Reconcile)`:
reconciliation is a one-shot command that fails when the lock is held, repeated
by every start of the studio and every listing; it succeeds only if it meets the
lock free again and again, so weak fairness would not do and strong fairness is
what repeated use amounts to. Nothing is assumed of commands, faults, or the
worker's own heartbeat; the handoff heartbeat is fair because its owner joins it
(`SF(Unwind)`: the join succeeds although a renewal may be under way again and again).
In WebStudio `FairStudioSpec` assumes only that the studio's own threads run and
that a SIGKILL it sent arrives, so children may hang; `QueuedIsTakenUp` has the
premise `ChildrenGoOn`: a child takes its next step and the request that created a
run stores its task. No further request is assumed. ModelPacks assumes that a
process that is neither stopped nor dead goes on (`WF` of its steps), and for
`RetriedInstallSucceeds` that whoever wants a pack asks again: a request is refused
while another process has the pack, so asking repeatedly is `SF(BeginInstall)`.
ModelRuntime assumes `WF(AdapterStep)`, since every wait of a controller has a
timeout, and that a probe ends; nothing is assumed of workers. The liveness of
artifacts, drafting and readiness is about asking again: the user repeats the command
(`WF(Ask)` where a request is always possible, `SF(Ask)` and `SF(SmokeTest)` where
another command may be under way), a command and its threads go on unless they are
stopped, and faults and stops are bounded. `RepeatedDraftSucceeds` excepts a workspace
that is `Stuck`, which asking again does not get out of: a plan or a section that is
refused in every attempt, and on every repeat again; a checkpoint every resume
refuses; or sections that together miss the duration, which every resume loads and
refuses again. `RepeatedInstallSucceeds` has one exception, `PartIsTooLong`: a part
longer than the file is refused by every later download and discarded by none.

## Proofs

All theorems hold for every value of the constants that satisfies the named
assumptions of the modules: any number of processes, packs, segments, files, chunks
and sections, and any bound on the events. The assumptions are that the counts are
numbers, most of them positive, that sets of names do not overlap, and that the value
for "none" is not a value of the kind it stands in for (`NoneAssumption`,
`NoneIsNoRecord`, `NoProcAssumption`); TLC evaluates each of them in the runs. One
component needs a hypothesis on who is there at once; it is stated in the theorem.

| Module | Invariant | Properties proved | Hypotheses |
|---|---|---|---|
| RunLifecycleProofs | `Inv`, `BackInv` | `TypeOK`, `RecordStaysValid`, `NoLostUpdate`, `CompletedMeansCommitted`, `BypassedIsFresh`, `ProgressIsBacked`, `CheckpointsKept`, `LiveOwnerIsNotReconciled`, `KeepsPromise` | |
| GenerateCommandProofs | `GenerateInv` | `RecordStaysValid`, `RecordIsBacked`, `OnlyHandlersIntrude` | |
| WebStudioProofs | `StudioInv` | `StudioTypeOK`, `RecordStaysValid`, `OneLiveChild`, `CancelSticks` | |
| ModelPacksProofs | `PacksInv` | `PacksTypeOK`, `OnlyVerifiedIsInstalled`, `CompleteIsWhole`, `TrashIsRestorable`, `VerifiedBytesAreKept` | |
| ModelRuntimeProofs | `RuntimeInv` | `RuntimeTypeOK`, `OneRuntimeOfAnAdapter`, `OwnerNamesHolder`, `AudioIsOfItsSegment` | |
| PackReadinessProofs | `ReadinessInv` | `ReadinessTypeOK`, `ReadyIsExercised`, `ReadyIsKept` | |
| ArtifactInstallProofs | `ArtifactInv` | `ArtifactTypeOK` | |
| SectionDraftingProofs | `DraftingInv`, `WorkspaceInv` | `DraftingTypeOK`; `OnlyMissingIsAsked`, `FulfilsPromise` | the last two: `OneCommand` |

In every proof each action is a lemma of its own, or a case of one, with one step per
conjunct it can disturb; a first lemma says what a step of one process leaves of the
invariant, so that the actions only argue about the process that moves.

**RunLifecycle.** `Inv` has four parts.

* `LockInv`: a process past the lock is its holder, so at most one is.
* `RecordInv`: the record and every worker's copy satisfy the validator. The
  obvious statement is not inductive because a terminal save is built from a
  copy; the copy must be known to be a running record of a legal form.
* `AttemptInv`: at each control point of an attempt the durable record is the
  worker's copy up to the lease and the segment, its counters agree with the
  segments done, prepared audio exists for the segments passed, and a bypassed
  segment carries the attempt's own audio. This is what makes saving from the
  copy safe.
* `DiskInv`: completed checkpoints have audio, and a completed record has its
  artifacts.

The actions of a process other than the lock's holder are dispatched through
`LockInv`. The refinement maps each step to a step of RunPromise or a stutter; a
handler that follows a claim that was not saved, or a save of COMPLETED, is a `Settle`.
`BackInv` is behind `ProgressIsBacked`: the record's counter follows the holder's, and
that one the set of its checkpoints, whose cardinality changes by at most one element
in a step. `LiveOwnerIsNotReconciled` is proved and not repeated by a run.

**GenerateCommand.** A process saves the record from a copy it loaded earlier, so the
copies have to be sound as well (`Sound`: valid, backed by its files, of an attempt that
was issued), wherever their holder is. No two processes work on the same attempt, and
the copy a process saves inside its attempt is one of that attempt (`OwnCopy`); with the
lock, that leaves only the writers without a lock to take a run from its owner.

**WebStudio.** `StudioInv` extends `GenerateInv` by the studio: a process is alive while
its command runs, and `FirstStudioInv` before the first restart: every live child has
its thread, an active task is the current one unless a first task displaced it, the
tasks of a queued run are its first one, and every command there is while a run is
cancelled has read the cancellation or has read nothing yet. Between the steps of a
cancel it is `CancelInv` that holds: a request that found no active task met an empty
place or an ended one, and as long as the run is queued nothing starts there, since the
first task is in the table already (or the cancel is the one `CancelSticks` excepts) and a
resume refuses a queued run. A restart takes
`FirstStudioInv` away: the children survive it and their threads do not.

**ModelPacks.** `PacksInv` says at each place of a command what its locks guarantee
(`HoldsPacks`), what is right about its record (`OperationIsRight`), its file
(`FileIsRight`) and its trash entry (`EntryIsRight`), and that a payload in the trash
has its manifest, unless Ctrl-C fell into a removal (`events.breaks`): the manifest is
written before the pack is moved in and unlinked after it was moved out, so that a kill
or an error between any two steps leaves an entry without a payload, never a payload
without a manifest. A rollback that cannot bring the pack back needs a pack that was
moved and a place that was filled since, and only Ctrl-C comes after the move. Two of its properties are about sets that
move: `Damaged` is a set of tagged places, so that a directory that is moved between a
pack and the trash carries its damaged files along by an injection, and their number
stays within the number of disk errors. `VerifiedBytesAreKept` is proved file by file: a
step leaves a verified copy where it is or puts one where it moves it to, and a whole
part that nobody writes to is not one that somebody begins to write to (`NoNewWriter`;
only `Fetch` begins to write, and it does not fetch what it finds verified).

**ModelRuntime.** `RuntimeInv` has, beside types,

* `SlotInv`: from acquire to release an adapter is the slot's holder, and its worker
  is there only between start and the end of close. Mutual exclusion alone is not
  inductive: it says nothing of the adapter that is about to start a worker.
* `AskInv`: whoever waits for an answer, or works on one, has a request.
* `AnswerInv`: an answer in the queue has an ID that was given out, and the segment
  of the last request if it has its ID. A repeated answer can lie in the queue when
  the next request is made; it stays harmless because the next ID is larger. A
  restarted controller counts from 1 again, which is safe only because its queue is
  new: that is the step `Spawn` of the proof.

`OfferKeeps` is the argument about the full queue.

**PackReadiness.** Runtimes are numbered by their builds, so a runtime that is replaced
never comes back; evidence with an earlier number is void for good. A probe that still
has the present runtime's fingerprint has exercised it when it comes to write. That is
not so for a pack another one depends on, which is the disagreement shown above and why
the invariant and `ReadyIsExercised` leave these out. `ReadyIsKept` is about a pack and
all it rests on (`RestsOn`, its closure under dependencies): whatever takes READY away
has done something to one of them.

**ArtifactInstall.** Types, and where an open file lies (`ArtifactInv`), hold for any
number of installers and loaders. That only pinned bytes are trusted and loaded is
model-checked only: the store has no lock, the code breaks these promises with two
installers (see the disagreements), and nothing in it enforces the hypotheses that a
theorem would need.

**SectionDrafting.** Types and the limit on the threads hold for any number of commands
in one workspace. The other two properties are about one command at a time
(`OneCommand`): `whoopy generate` holds the lock of the run whose workspace it is, and
`whoopy draft` works in a directory named by a new UUID unless `--draft-id` names an old
one, which nothing guards against a second command; the run has one process for the same
reason. `WorkspaceInv` says that a job at the model, or with an answer to save, is a job
for a missing section, that a finished job holds the checkpoint itself, and that the
outputs are made of all checkpoints. So a saved section is a new one, nothing changes
once the script is written, and each step is a step of DraftPromise or a stutter.
`PlaceExists`, used for the type of a shortened text, is an induction over numbers that
takes the least element of a set instead of an induction theorem.

Only model-checked: liveness, since fairness is out of the prover's reach
(`NotRunningForever`, `CancelStopsHungChild`, `QueuedIsTakenUp`,
`RetriedInstallSucceeds`, `EveryCallEnds`, `RepeatedInstallSucceeds`,
`RepeatedDraftSucceeds`), the three properties of the artifact store
(`OnlyPinnedIsTrusted`, `LoadedIsWhole`, `LoadedIsKept`), and the disagreements, which
are violated. Every other property of the runs is stated by a theorem.

## Not modelled

* Bytes: serialisation, fsync order inside one file replacement, WAV samples.
* `create_generated_run`, `create_script_run`, `create_pending_generation_run`,
  `promote_queued_generated_run`: nothing but tests calls them. The stages
  `waiting_for_model_slot` and `model_startup` are never assigned.
* Schema versions 1 and 2 and records without an execution block: no current
  command writes them.
* Cache keys: a segment's text and its synthesizer do not change during a run,
  so a key is the segment. Corrupt checkpoints read as absent.
* Audio processing, quality measurement, configuration and hardware planning:
  pure or numeric.
* The studio's regenerate requests (they launch a command that is RunLifecycle's)
  and its pages that only read.
* Model packs: hardware and platform checks (the machine does not change), shard
  indexes, resolution of a pack for a run, the performance recorder, path guards,
  Windows locks; the in-process mutex of `_AdvisoryFileLock`. A restore that brings
  evidence files back with the pack.
* Artifacts: the lock file's own validation, several wheels in one environment,
  names and sizes of archive members.
* Drafting: the arithmetic of `_allocate_plan`, pacing and pauses, errors while the
  workspace is written, two commands in one workspace.
* Model code inside a worker and the audio file it writes: an answer or an error.
* Logs and the timeline compiler: see the plan.

## Plan

1. RunRecord, RunLifecycle, RunPromise with proofs; GenerateCommand. Done.
2. WebStudio over GenerateCommand. Done.
3. ModelPacks: install, progress, removal, restore. Done.
4. ModelRuntime: slot, controllers, workers; with proofs. Done.
5. ArtifactInstall: partial downloads, verification, atomic publish, loading. Done.
6. SectionDrafting with DraftPromise; PackReadiness. Done.
7. **RetryDelay**, **RotatingLog**, **TimelineGaps**: algorithms against a reference
   definition. Left.
8. Theorems about the safety properties of the runs, save those of the artifact store.
   Done; liveness stays with TLC.
