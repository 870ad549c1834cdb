----------------------- MODULE ModelRuntimeProperties -----------------------
(***************************************************************************)
(* What the slot, the controller and the adapter promise together.         *)
(***************************************************************************)
EXTENDS ModelRuntime

Owners == [by : Adapters, live : BOOLEAN]

\* Every variable has the type its declaration states.
RuntimeTypeOK ==
    /\ slot \in Adapters \cup {Probe, None}
    /\ owner \in Owners \cup {None}
    /\ pc \in [Adapters -> Places]
    /\ worker \in [Adapters -> Alive \cup {"none", "gone"}]
    /\ ask \in [Adapters -> [id : 0..MaxRequests, segment : Segments \cup {None}]]
    /\ queue \in [Adapters -> Seq(Responses)]
    /\ \A a \in Adapters : Len(queue[a]) <= QueueSize
    /\ reading \in [Adapters -> {"open", "stopping", "done"}]
    /\ audio \in [Adapters -> [wanted : Segments, got : Segments] \cup {None}]
    /\ orphans \subseteq Adapters
    /\ lines \in 0..MaxLines
    /\ breaks \in 0..MaxBreaks

\* No two adapters have a worker that runs: from its start until it has exited
\* or been killed, through timeouts, failed startups, workers that die or hang
\* and probes by `unload`, an adapter that has a worker holds the slot ("Allow
\* only one heavyweight local speech runtime to load at a time",
\* HeavyweightModelSlot).
OneRuntimeOfAnAdapter ==
    /\ \A a \in Adapters : worker[a] # "none" => slot = a
    /\ \A a, b \in Adapters : Running(a) /\ Running(b) => a = b

\* While an adapter has its runtime, owner.json is its own record: neither a
\* probe nor the release of an earlier owner takes it away (status, release).
OwnerNamesHolder ==
    \A a \in Adapters :
        pc[a] \in {"spawn", "starting", "ready", "waiting", "closing", "terminating"} =>
            owner = [by |-> a, live |-> TRUE]

\* The audio a request returns is the audio of its own sentence: neither a line
\* too many, nor a late or repeated answer, nor one of an earlier worker with
\* the same request ID is taken for it (request, start).
AudioIsOfItsSegment ==
    \A a \in Adapters : audio[a] # None => audio[a].wanted = audio[a].got

\* Whatever the worker does, a call of the adapter ends, and a dropped
\* controller gives the slot back (_wait_response, close).
EveryCallEnds ==
    \A a \in Adapters : pc[a] \notin {"ready", "closed"} ~> pc[a] \in {"ready", "closed"}

(***************************************************************************)
(* Statements of the code's texts that the code does not keep.             *)
(***************************************************************************)
Loaded == {<<a, "worker">> : a \in {x \in Adapters : Running(x)}}
          \cup {<<a, "orphan">> : a \in orphans}

\* "A live adapter owns that slot for its entire process lifetime; Fish, MOSS,
\* and future Qwen runtimes cannot load over one another" (the pack document):
\* two models are never in memory at the same time.
OneRuntimeLoaded == Cardinality(Loaded) <= 1

\* "Return a live lock owner's diagnostics, never stale JSON" (current_owner):
\* what is read while the lock is held is the record of its holder.
OwnerIsNeverStale ==
    slot # None /\ slot # Probe /\ owner # None => owner = [by |-> slot, live |-> TRUE]

-----------------------------------------------------------------------------
(***************************************************************************)
(* The inductive invariant behind the theorems of ModelRuntimeProofs.      *)
(***************************************************************************)
\* From the acquisition to the release of the slot.
Holding == {"locked", "spawn", "starting", "ready", "waiting",
            "closing", "terminating", "releasing", "unlocking"}

\* From the worker's start to the end of its close.
WithWorker == {"starting", "ready", "waiting", "closing", "terminating"}

\* An adapter between acquire and release is the holder, and a worker is only
\* there while its adapter is.
SlotInv ==
    \A a \in Adapters : /\ pc[a] \in Holding => slot = a
                        /\ worker[a] # "none" => pc[a] \in WithWorker

\* A request somebody waits for, or works on, has been made.
AskInv ==
    \A a \in Adapters : /\ worker[a] = "busy" \/ pc[a] = "waiting" => ask[a].id > 0
                        /\ ask[a].id > 0 => ask[a].segment \in Segments

\* An answer is one of the requests to this worker, and has the segment of the
\* last one only under its ID.
Fits(r, k) ==
    r.kind = "answer" => /\ 0 < r.id /\ r.id <= k.id
                         /\ r.segment \in Segments
                         /\ r.id = k.id => r.segment = k.segment

AnswerInv ==
    \A a \in Adapters : \A n \in 1..Len(queue[a]) : Fits(queue[a][n], ask[a])

RuntimeInv ==
    /\ RuntimeTypeOK /\ SlotInv /\ OwnerNamesHolder
    /\ AskInv /\ AnswerInv /\ AudioIsOfItsSegment
=============================================================================
