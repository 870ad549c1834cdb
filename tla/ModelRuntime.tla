---------------------------- MODULE ModelRuntime ----------------------------
(***************************************************************************)
(* Heavyweight speech runtimes (MossTTSAdapter, FishSpeech14Adapter over   *)
(* JsonLineProcessController and HeavyweightModelSlot): adapters in their  *)
(* Python processes, the isolated worker process each one starts, the slot *)
(* that lets one of them load at a time, and `unload`, which probes it.    *)
(*                                                                         *)
(* A worker lives in a session of its own and outlives its adapter's       *)
(* process; the slot, a kernel lock, does not.  Workers and their model    *)
(* code are external: they may hang, die, fail or print what they like.    *)
(***************************************************************************)
EXTENDS Naturals, Sequences, FiniteSets

CONSTANTS Adapters, Segments,
          Probe,             \* the process that asks for the slot's status
          None,
          QueueSize,         \* of the controller's response queue
          MaxLines,          \* bound on lines printed unasked
          MaxRequests,       \* bound on the requests to one worker
          MaxBreaks          \* bound on kills and interrupts

ASSUME NamesAssumption == {Probe, None} \cap (Adapters \cup Segments) = {} /\ Probe # None
ASSUME BoundsAssumption ==
    QueueSize \in Nat \ {0} /\ {MaxLines, MaxRequests, MaxBreaks} \subseteq Nat

VARIABLES
    slot,       \* the holder of heavyweight.lock
    owner,      \* owner.json: whose it is, and whether that acquisition still is
    pc,         \* per adapter: where its controller is
    worker,     \* per adapter: the worker process it has started
    ask,        \* per adapter: the last request, and how many there were
    queue,      \* per adapter: responses nobody has taken yet
    reading,    \* per adapter: the state of its stdout reader
    audio,      \* per adapter: what the last request asked for and returned
    orphans,    \* the adapters of workers whose controllers are gone
    lines, breaks

vars == <<slot, owner, pc, worker, ask, queue, reading, audio, orphans, lines, breaks>>

Alive == {"loading", "idle", "busy", "hung"}

\* closed: no controller; slot, locked, spawn, starting: inside _start;
\* closing, terminating: inside close(); releasing, unlocking: release().
Places == {"closed", "slot", "locked", "spawn", "starting", "ready", "waiting",
           "closing", "terminating", "releasing", "unlocking"}

\* The worker's lines as the reader passes them on.
Responses == [kind : {"ready", "answer"}, id : 0..MaxRequests,
              segment : Segments \cup {None}]
             \cup [kind : {"failure", "other", "closed"}]

RuntimeInit ==
    /\ slot = None
    /\ owner = None
    /\ pc = [a \in Adapters |-> "closed"]
    /\ worker = [a \in Adapters |-> "none"]
    /\ ask = [a \in Adapters |-> [id |-> 0, segment |-> None]]
    /\ queue = [a \in Adapters |-> <<>>]
    /\ reading = [a \in Adapters |-> "done"]
    /\ audio = [a \in Adapters |-> None]
    /\ orphans = {}
    /\ lines = 0
    /\ breaks = 0

Goto(a, place) == pc' = [pc EXCEPT ![a] = place]

Running(a) == worker[a] \in Alive

(***************************************************************************)
(* The slot.                                                               *)
(***************************************************************************)
\* acquire: never waits.  A refusal ends in _drop_controller, which finds no
\* process and no token.
AcquireSlot(a) ==
    /\ pc[a] = "slot"
    /\ IF slot = None
       THEN slot' = a /\ Goto(a, "locked")
       ELSE UNCHANGED slot /\ Goto(a, "closed")
    /\ UNCHANGED <<owner, worker, ask, queue, reading, audio, orphans, lines, breaks>>

\* The owner record follows the lock; without it the lock is given back.
WriteOwner(a) ==
    /\ pc[a] = "locked"
    /\ \/ /\ owner' = [by |-> a, live |-> TRUE]
          /\ Goto(a, "spawn")
          /\ UNCHANGED slot
       \/ /\ slot' = None
          /\ Goto(a, "closed")
          /\ UNCHANGED owner
    /\ UNCHANGED <<worker, ask, queue, reading, audio, orphans, lines, breaks>>

\* release: the record goes first, if it is one's own, then the lock.
UnlinkOwner(a) ==
    /\ pc[a] = "releasing"
    /\ owner' = IF owner = [by |-> a, live |-> TRUE] THEN None ELSE owner
    /\ Goto(a, "unlocking")
    /\ UNCHANGED <<slot, worker, ask, queue, reading, audio, orphans, lines, breaks>>

ReleaseSlot(a) ==
    /\ pc[a] = "unlocking"
    /\ slot' = None
    /\ Goto(a, "closed")
    /\ UNCHANGED <<owner, worker, ask, queue, reading, audio, orphans, lines, breaks>>

\* status: an owner record is removed under the lock only.  A refused acquire
\* and a release probe as `unload` does.
BeginProbe ==
    /\ slot = None
    /\ slot' = Probe
    /\ UNCHANGED <<owner, pc, worker, ask, queue, reading, audio, orphans, lines, breaks>>

\* Mutation: the lock is looked at, not taken.
EndProbeLate ==
    /\ slot # Probe
    /\ slot' = slot
    /\ owner' = None
    /\ UNCHANGED <<pc, worker, ask, queue, reading, audio, orphans, lines, breaks>>

EndProbe ==
    /\ slot = Probe
    /\ slot' = None
    /\ owner' = None
    /\ UNCHANGED <<pc, worker, ask, queue, reading, audio, orphans, lines, breaks>>

(***************************************************************************)
(* The adapter and its controller.                                         *)
(***************************************************************************)
\* prepare, or a synthesize without a controller.
Start(a) ==
    /\ pc[a] = "closed"
    /\ Goto(a, "slot")
    /\ UNCHANGED <<slot, owner, worker, ask, queue, reading, audio, orphans, lines, breaks>>

\* JsonLineProcessController.start: a new process and, with the new controller,
\* a new queue and new request IDs.
Spawn(a) ==
    /\ pc[a] = "spawn"
    /\ \/ /\ worker' = [worker EXCEPT ![a] = "loading"]
          /\ ask' = [ask EXCEPT ![a] = [id |-> 0, segment |-> None]]
          /\ queue' = [queue EXCEPT ![a] = <<>>]
          /\ reading' = [reading EXCEPT ![a] = "open"]
          /\ Goto(a, "starting")
       \/ /\ Goto(a, "releasing")
          /\ UNCHANGED <<worker, ask, queue, reading>>
    /\ UNCHANGED <<slot, owner, audio, orphans, lines, breaks>>

\* The first response decides; anything but ready drops the controller, and so
\* does the time running out.
AwaitReady(a) ==
    /\ pc[a] = "starting"
    /\ \/ /\ queue[a] # <<>>
          /\ queue' = [queue EXCEPT ![a] = Tail(@)]
          /\ Goto(a, IF Head(queue[a]).kind = "ready" THEN "ready" ELSE "closing")
       \/ /\ queue[a] = <<>>
          /\ Goto(a, "closing")
          /\ UNCHANGED queue
    /\ UNCHANGED <<slot, owner, worker, ask, reading, audio, orphans, lines, breaks>>

\* synthesize: a worker that died between requests is dropped first; a busy one
\* cannot be, since whatever ends a request early drops the controller.
Request(a) ==
    /\ pc[a] = "ready"
    /\ ask[a].id < MaxRequests
    /\ audio' = [audio EXCEPT ![a] = None]
    /\ \/ /\ Running(a)
          /\ \E s \in Segments :
               ask' = [ask EXCEPT ![a] = [id |-> @.id + 1, segment |-> s]]
          /\ worker' = [worker EXCEPT ![a] = IF @ = "idle" THEN "busy" ELSE @]
          /\ Goto(a, "waiting")
       \/ /\ ~ Running(a)
          /\ Goto(a, "closing")
          /\ UNCHANGED <<ask, worker>>
    /\ UNCHANGED <<slot, owner, queue, reading, orphans, lines, breaks>>

\* Mutation: whatever comes is taken for the answer.
Answers(r, a) == r.kind = "answer"

Matches(r, a) == r.kind = "answer" /\ r.id = ask[a].id

\* The response: audio if it is the answer to this request, else the controller
\* is dropped, as it is when the time runs out.
AwaitAnswer(a) ==
    /\ pc[a] = "waiting"
    /\ \/ /\ queue[a] # <<>>
          /\ queue' = [queue EXCEPT ![a] = Tail(@)]
          /\ LET r == Head(queue[a]) IN
             IF Matches(r, a)
             THEN /\ audio' = [audio EXCEPT ![a] = [wanted |-> ask[a].segment,
                                                    got    |-> r.segment]]
                  /\ Goto(a, "ready")
             ELSE /\ Goto(a, "closing")
                  /\ UNCHANGED audio
       \/ /\ queue[a] = <<>>
          /\ Goto(a, "closing")
          /\ UNCHANGED <<queue, audio>>
    /\ UNCHANGED <<slot, owner, worker, ask, reading, orphans, lines, breaks>>

\* The adapter's user is done.
Close(a) ==
    /\ pc[a] = "ready"
    /\ Goto(a, "closing")
    /\ UNCHANGED <<slot, owner, worker, ask, queue, reading, audio, orphans, lines, breaks>>

\* Mutation: the slot is released before the worker has exited.
ReleaseAtOnce(a) ==
    /\ pc[a] = "closing"
    /\ Goto(a, "releasing")
    /\ UNCHANGED <<slot, owner, worker, ask, queue, reading, audio, orphans, lines, breaks>>

\* close(): waits for the worker, terminates its group, kills it; the streams
\* and readers end with it.
AwaitExit(a) ==
    /\ pc[a] = "closing"
    /\ IF Running(a)
       THEN Goto(a, "terminating") /\ UNCHANGED <<worker, queue, reading>>
       ELSE /\ worker' = [worker EXCEPT ![a] = "none"]
            /\ queue' = [queue EXCEPT ![a] = <<>>]
            /\ reading' = [reading EXCEPT ![a] = "done"]
            /\ Goto(a, "releasing")
    /\ UNCHANGED <<slot, owner, ask, audio, orphans, lines, breaks>>

\* Mutation: SIGTERM only; a worker that ignores it is waited for.
TerminateGroup(a) ==
    /\ pc[a] = "terminating"
    /\ worker[a] # "hung"
    /\ worker' = [worker EXCEPT ![a] = "none"]
    /\ queue' = [queue EXCEPT ![a] = <<>>]
    /\ reading' = [reading EXCEPT ![a] = "done"]
    /\ Goto(a, "releasing")
    /\ UNCHANGED <<slot, owner, ask, audio, orphans, lines, breaks>>

\* SIGTERM, then SIGKILL for what is still there.
KillGroup(a) ==
    /\ pc[a] = "terminating"
    /\ worker' = [worker EXCEPT ![a] = "none"]
    /\ queue' = [queue EXCEPT ![a] = <<>>]
    /\ reading' = [reading EXCEPT ![a] = "done"]
    /\ Goto(a, "releasing")
    /\ UNCHANGED <<slot, owner, ask, audio, orphans, lines, breaks>>

(***************************************************************************)
(* The worker process and the reader of its output.                        *)
(***************************************************************************)
\* Mutation: the queue has no limit.
OfferUnbounded(a, r) ==
    IF reading[a] = "done" THEN UNCHANGED <<queue, reading>>
    ELSE /\ queue' = [queue EXCEPT ![a] = Append(@, r)]
         /\ reading' = [reading EXCEPT ![a] =
                           IF r.kind \in {"failure", "closed"} THEN "done" ELSE @]

\* _offer: a full queue loses its oldest entry to an overflow error and asks the
\* reader to stop, which it does at its next line.  An invalid line and the end
\* of the output end it, too.
Offer(a, r) ==
    LET line == IF reading[a] = "stopping" THEN [kind |-> "closed"] ELSE r
        full == Len(queue[a]) = QueueSize
    IN  IF reading[a] = "done" THEN UNCHANGED <<queue, reading>>
        ELSE /\ queue' = [queue EXCEPT ![a] =
                            IF full THEN Append(Tail(@), [kind |-> "failure"])
                            ELSE Append(@, line)]
             /\ reading' = [reading EXCEPT ![a] =
                              IF line.kind \in {"failure", "closed"} THEN "done"
                              ELSE IF full THEN "stopping" ELSE @]

Load(a) ==
    /\ worker[a] = "loading"
    /\ worker' = [worker EXCEPT ![a] = "idle"]
    /\ Offer(a, [kind |-> "ready", id |-> 0, segment |-> None])
    /\ UNCHANGED <<slot, owner, pc, ask, audio, orphans, lines, breaks>>

\* The answer of the request, or an error of the model (status is not ok).
Answer(a) ==
    /\ worker[a] = "busy"
    /\ worker' = [worker EXCEPT ![a] = "idle"]
    /\ \/ Offer(a, [kind |-> "answer", id |-> ask[a].id, segment |-> ask[a].segment])
       \/ Offer(a, [kind |-> "other"])
    /\ UNCHANGED <<slot, owner, pc, ask, audio, orphans, lines, breaks>>

\* A line nobody asked for: an answer once more, another object, not JSON.
PrintLine(a) ==
    /\ Running(a) /\ reading[a] # "done"
    /\ lines < MaxLines
    /\ lines' = lines + 1
    /\ \E r \in {[kind |-> "other"], [kind |-> "failure"]}
                 \cup (IF worker[a] = "idle" /\ ask[a].id > 0
                       THEN {[kind |-> "answer", id |-> ask[a].id,
                              segment |-> ask[a].segment]}
                       ELSE {}) : Offer(a, r)
    /\ UNCHANGED <<slot, owner, pc, worker, ask, audio, orphans, breaks>>

Hang(a) ==
    /\ worker[a] \in Alive \ {"hung"}
    /\ worker' = [worker EXCEPT ![a] = "hung"]
    /\ UNCHANGED <<slot, owner, pc, ask, queue, reading, audio, orphans, lines, breaks>>

\* It dies, or it has read the close message.
Exit(a) ==
    /\ worker[a] \in Alive \ {"hung"}
    /\ worker' = [worker EXCEPT ![a] = "gone"]
    /\ Offer(a, [kind |-> "closed"])
    /\ UNCHANGED <<slot, owner, pc, ask, audio, orphans, lines, breaks>>

(***************************************************************************)
(* Kills and interrupts of the adapter's process.                          *)
(***************************************************************************)
Abandon(a) ==
    /\ orphans' = IF Running(a) THEN orphans \cup {a} ELSE orphans
    /\ worker' = [worker EXCEPT ![a] = "none"]
    /\ queue' = [queue EXCEPT ![a] = <<>>]
    /\ reading' = [reading EXCEPT ![a] = "done"]

\* SIGKILL: the kernel releases the lock, owner.json stays, the worker lives.
Kill(a) ==
    /\ pc[a] # "closed"
    /\ breaks < MaxBreaks
    /\ breaks' = breaks + 1
    /\ slot' = IF slot = a THEN None ELSE slot
    /\ owner' = IF owner = [by |-> a, live |-> TRUE]
                THEN [by |-> a, live |-> FALSE] ELSE owner
    /\ Abandon(a)
    /\ ask' = [ask EXCEPT ![a] = [id |-> 0, segment |-> None]]
    /\ audio' = [audio EXCEPT ![a] = None]
    /\ Goto(a, "closed")
    /\ UNCHANGED lines

\* Ctrl-C or a cancel: in a request it is no WorkerProcessError, and the user of
\* the adapter closes it; in close() only the `finally` of _drop_controller is
\* left, which releases the slot.
Interrupt(a) ==
    /\ breaks < MaxBreaks
    /\ breaks' = breaks + 1
    /\ \/ /\ pc[a] \in {"starting", "waiting"}
          /\ Goto(a, "closing")
          /\ UNCHANGED <<worker, queue, reading, orphans>>
       \/ /\ pc[a] \in {"closing", "terminating"}
          /\ Abandon(a)
          /\ Goto(a, "releasing")
    /\ UNCHANGED <<slot, owner, ask, audio, lines>>

\* A worker without a reader ends when it reads the end of its input: after
\* loading, or after the sentence it is rendering, if it does not hang.
OrphanExits(a) ==
    /\ a \in orphans
    /\ orphans' = orphans \ {a}
    /\ UNCHANGED <<slot, owner, pc, worker, ask, queue, reading, audio, lines, breaks>>

AdapterStep(a) ==
    \/ AcquireSlot(a) \/ WriteOwner(a) \/ Spawn(a) \/ AwaitReady(a) \/ AwaitAnswer(a)
    \/ AwaitExit(a) \/ KillGroup(a) \/ UnlinkOwner(a) \/ ReleaseSlot(a)

UserStep(a) == Start(a) \/ Request(a) \/ Close(a)

WorkerStep(a) == Load(a) \/ Answer(a) \/ PrintLine(a) \/ Hang(a) \/ Exit(a)

RuntimeNext ==
    \/ \E a \in Adapters :
         \/ AdapterStep(a) \/ UserStep(a) \/ WorkerStep(a)
         \/ Kill(a) \/ Interrupt(a) \/ OrphanExits(a)
    \/ BeginProbe \/ EndProbe

RuntimeSpec == RuntimeInit /\ [][RuntimeNext]_vars

\* Every wait of a controller has a timeout, and a probe does not stop half way.
FairRuntimeSpec ==
    RuntimeSpec /\ WF_vars(EndProbe) /\ \A a \in Adapters : WF_vars(AdapterStep(a))
=============================================================================
