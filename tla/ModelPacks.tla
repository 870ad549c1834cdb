----------------------------- MODULE ModelPacks -----------------------------
(***************************************************************************)
(* Managed model packs (ManagedModelPacks, PackProgressStore,              *)
(* ManagedPackTrash): processes that install, remove and restore packs in  *)
(* one models directory, and what a kill, an exception or a bad source     *)
(* leaves on disk at every durable step.                                   *)
(*                                                                         *)
(* A pack's directory (files/ and records/ together, the unit the trash    *)
(* moves) is one value, None while it does not exist.  A file's bytes are  *)
(* counted in chunks; chunks are good or not, which is what the pinned     *)
(* digest tells apart.  The install lock and the trash lock are the        *)
(* kernel's: they end with their holder.  The progress lock lies inside    *)
(* the directory and is only ever wanted by the holder of the install      *)
(* lock, so it orders nothing and is left out.                             *)
(***************************************************************************)
EXTENDS Naturals, Sequences, FiniteSets

CONSTANTS Procs,         \* processes: commands and requests to the studio
          Packs,
          Dependencies,  \* pack -> the packs it needs
          Shared,        \* packs with a complete installation elsewhere
          NFiles, Chunks,
          Operations,    \* what is asked for
          Faults,        \* what may go wrong besides a stop
          Ops,           \* operation IDs; a fresh one is one nobody has
          TrashIds,      \* bound on the entries of the trash
          MaxRemovals, MaxStops, MaxRots,    \* bounds on events
          None

Files == 1..NFiles

ASSUME CountAssumption == NFiles \in Nat \ {0} /\ Chunks \in Nat \ {0}
ASSUME DependencyAssumption == Dependencies \in [Packs -> SUBSET Packs]
ASSUME SharedAssumption == Shared \subseteq Packs
ASSUME OperationsAssumption == Operations \subseteq {"install", "remove", "restore"}
ASSUME FaultsAssumption ==
    Faults \subseteq {"refused", "short", "long", "corrupt", "io"}
ASSUME BoundsAssumption == {MaxRemovals, MaxStops, MaxRots} \subseteq Nat
\* Enough entries and operation IDs for the bound on removals: neither is a limit.
ASSUME IdsAssumption ==
    /\ Cardinality(TrashIds) >= MaxRemovals
    /\ Cardinality(Ops) >= Cardinality(Packs \ Shared) + Cardinality(Procs) + MaxRemovals
ASSUME NoneAssumption == None \notin Procs \cup Packs \cup Ops \cup TrashIds

VARIABLES
    dir,          \* per pack: its directory below managed/model-packs
    staging,      \* per pack and file: what lies below .downloads
    trash,        \* the entries of .trash
    installLock,  \* per pack: the process that holds its install lock
    trashLock,
    proc,         \* per process: where it is and its locals
    events        \* removals begun, stops, among them Ctrl-C in a removal, and rots

vars == <<dir, staging, trash, installLock, trashLock, proc, events>>

(***************************************************************************)
(* Durable state.                                                          *)
(***************************************************************************)
\* Mutation: a failed operation is taken up again.
TerminalOnlyComplete == {"complete"}

Terminal == {"complete", "failed"}

Progress == [op    : Ops,
             state : {"pending", "transferring"} \cup {"complete", "failed"},
             bytes : [Files -> 0..Chunks]]

Contents == [files    : [Files -> {"absent", "good", "bad"}],
             progress : Progress \cup {None}]

Empty == [files |-> [f \in Files |-> "absent"], progress |-> None]

\* A part of size 0 is an absent one, too.
NoPart == [size |-> 0, good |-> TRUE]
WholePart == [size |-> Chunks, good |-> TRUE]

Staged == [complete : {"absent", "good", "bad"},
           part     : [size : 0..(Chunks + 1), good : BOOLEAN]]

Entries == [pack : Packs, manifest : BOOLEAN, payload : Contents \cup {None}]

ASSUME NoneIsNoRecord == None \notin Progress \cup Contents \cup Entries

\* Every writer below a pack's directory creates the directories it needs.
Made(p) == IF dir[p] = None THEN Empty ELSE dir[p]

FileState(p, f) == IF dir[p] = None THEN "absent" ELSE dir[p].files[f]

Record(p) == IF dir[p] = None THEN None ELSE dir[p].progress

Present(p) == {f \in Files : FileState(p, f) # "absent"}

\* The managed directory wins unless another candidate has more of the files.
Managed(p) == p \notin Shared \/ Present(p) = Files

\* MISSING, PARTIAL or CORRUPT after full verification.
Broken(p) == Managed(p) /\ \E f \in Files : FileState(p, f) # "good"

(***************************************************************************)
(* Processes.                                                              *)
(***************************************************************************)
Early == {"inspect", "dependencies", "load", "start", "startWrite"}
Trying == {"file", "copy", "publish", "update", "updateWrite", "completeWrite"}
Failing == {"failed", "failedWrite"}
Installing == Early \cup Trying \cup Failing

Moving == {"manifest", "move", "moved", "rollback"}
Restoring == {"restore", "forget", "rmdir"}

Locals == [pc     : {"idle", "remove"} \cup Installing \cup Moving \cup Restoring,
           pack   : Packs \cup {None},
           todo   : SUBSET Packs,                 \* dependencies to look at
           outer  : Seq([pack : Packs, todo : SUBSET Packs]),
           op     : Ops \cup {None},
           file   : 1..(NFiles + 1),
           size   : 0..Chunks,                    \* what progress is told
           source : {"none", "offline", "network"},
           next   : Progress \cup {None},         \* about to be written
           entry  : TrashIds \cup {None}]

Idle == [pc |-> "idle", pack |-> None, todo |-> {}, outer |-> <<>>, op |-> None,
         file |-> 1, size |-> 0, source |-> "none", next |-> None, entry |-> None]

Init ==
    /\ dir = [p \in Packs |-> None]
    /\ staging = [p \in Packs |->
                    [f \in Files |-> [complete |-> "absent", part |-> NoPart]]]
    /\ trash = [e \in TrashIds |-> None]
    /\ installLock = [p \in Packs |-> None]
    /\ trashLock = None
    /\ proc = [i \in Procs |-> Idle]
    /\ events = [removals |-> 0, stops |-> 0, breaks |-> 0, rots |-> 0]

Here(i) == proc[i].pack

Become(i, l) == proc' = [proc EXCEPT ![i] = l]

Goto(i, pc) == Become(i, [proc[i] EXCEPT !.pc = pc])

\* The handler needs the operation only.
Raise(i) == Become(i, [Idle EXCEPT !.pc = "failed", !.pack = proc[i].pack,
                                   !.op = proc[i].op])

\* `with PackInstallLock` ends: a dependency's install returns to the loop
\* over dependencies of the pack that needs it.
Return(i) ==
    LET l == proc[i] IN
    /\ installLock' = [installLock EXCEPT ![l.pack] = None]
    /\ Become(i, IF l.outer = <<>> THEN Idle
                 ELSE [Idle EXCEPT !.pc = "dependencies",
                                   !.pack = Head(l.outer).pack,
                                   !.todo = Head(l.outer).todo,
                                   !.outer = Tail(l.outer)])

\* An exception leaves every `with` of the process.
Abort(i) ==
    /\ installLock' = [p \in Packs |->
                         IF installLock[p] = i THEN None ELSE installLock[p]]
    /\ Become(i, Idle)

\* Mutation: the lock of another process does not keep one out.
BeginInstallRegardless(i, p) ==
    /\ "install" \in Operations
    /\ proc[i].pc = "idle"
    /\ installLock' = [installLock EXCEPT ![p] = i]
    /\ Become(i, [Idle EXCEPT !.pc = "inspect", !.pack = p])
    /\ UNCHANGED <<dir, staging, trash, trashLock, events>>

(***************************************************************************)
(* install.                                                                *)
(***************************************************************************)
\* PackInstallUnavailable when the lock is not free: nothing has happened.
BeginInstall(i, p) ==
    /\ "install" \in Operations
    /\ proc[i].pc = "idle"
    /\ installLock[p] = None
    /\ installLock' = [installLock EXCEPT ![p] = i]
    /\ Become(i, [Idle EXCEPT !.pc = "inspect", !.pack = p])
    /\ UNCHANGED <<dir, staging, trash, trashLock, events>>

\* A complete installation elsewhere is reused in place.
Inspect(i) ==
    /\ proc[i].pc = "inspect"
    /\ IF Managed(Here(i))
       THEN /\ Become(i, [proc[i] EXCEPT !.pc = "dependencies",
                                         !.todo = Dependencies[Here(i)]])
            /\ UNCHANGED installLock
       ELSE Return(i)
    /\ UNCHANGED <<dir, staging, trash, trashLock, events>>

InstallDependencies(i) ==
    /\ proc[i].pc = "dependencies"
    /\ \/ /\ proc[i].todo = {}
          /\ Goto(i, "load")
          /\ UNCHANGED installLock
       \/ \E d \in proc[i].todo :
            LET rest == proc[i].todo \ {d} IN
            \/ /\ ~ Broken(d)
               /\ Become(i, [proc[i] EXCEPT !.todo = rest])
               /\ UNCHANGED installLock
            \/ /\ Broken(d)
               /\ installLock[d] = None
               /\ installLock' = [installLock EXCEPT ![d] = i]
               /\ Become(i, [Idle EXCEPT
                               !.pc = "inspect", !.pack = d,
                               !.outer = <<[pack |-> Here(i), todo |-> rest]>>
                                         \o proc[i].outer])
            \/ /\ Broken(d)
               /\ installLock[d] # None
               /\ Abort(i)
    /\ UNCHANGED <<dir, staging, trash, trashLock, events>>

\* Operation IDs somebody still has: a uuid4 is none of these.
Held ==
    LET stores == {Record(p) : p \in Packs}
                    \cup {trash[e].payload.progress :
                            e \in {x \in TrashIds : trash[x] # None
                                                    /\ trash[x].payload # None}}
                    \cup {proc[i].next : i \in Procs}
    IN {r.op : r \in stores \ {None}} \cup {proc[i].op : i \in Procs}

\* An operation that is not over is taken up again.
LoadProgress(i) ==
    LET r == Record(Here(i)) IN
    /\ proc[i].pc = "load"
    /\ IF r # None /\ r.state \notin Terminal
       THEN Become(i, [proc[i] EXCEPT !.pc = "file", !.op = r.op])
       ELSE \E o \in Ops \ Held :
                  Become(i, [proc[i] EXCEPT !.pc = "start", !.op = o])
    /\ UNCHANGED <<dir, staging, trash, installLock, trashLock, events>>

\* start: refuses a record that is not terminal.
StartProgress(i) ==
    LET p == Here(i) IN
    /\ proc[i].pc = "start"
    /\ dir' = [dir EXCEPT ![p] = Made(p)]
    /\ IF Record(p) = None \/ Record(p).state \in Terminal
       THEN /\ Become(i, [proc[i] EXCEPT
                            !.pc = "startWrite",
                            !.next = [op |-> proc[i].op, state |-> "pending",
                                      bytes |-> [f \in Files |-> 0]]])
            /\ UNCHANGED installLock
       ELSE Abort(i)
    /\ UNCHANGED <<staging, trash, trashLock, events>>

\* The record replaces whatever is in the directory that now has the name.
SaveProgress(p, r) == dir' = [dir EXCEPT ![p] = [Made(p) EXCEPT !.progress = r]]

WriteStart(i) ==
    /\ proc[i].pc = "startWrite"
    /\ SaveProgress(Here(i), proc[i].next)
    /\ Become(i, [proc[i] EXCEPT !.pc = "file", !.next = None])
    /\ UNCHANGED <<staging, trash, installLock, trashLock, events>>

\* Progress is about to be told that the current file has n chunks.
Tell(i, pc, n) == [proc[i] EXCEPT !.pc = pc, !.size = n]

Stage(p, f, s) == staging' = [staging EXCEPT ![p][f] = s]

\* A file that is there is verified, or refused if it is something else.
CheckInstalled(i) ==
    LET p == Here(i)  f == proc[i].file IN
    /\ proc[i].pc = "file" /\ f \in Files
    /\ FileState(p, f) # "absent"
    /\ IF FileState(p, f) = "good"
       THEN Become(i, [Tell(i, "update", Chunks) EXCEPT !.source = "none"])
       ELSE Raise(i)
    /\ UNCHANGED <<dir, staging, trash, installLock, trashLock, events>>

\* Mutation: only the size of the part is looked at.
VerifiedBySize(part) == part.size = Chunks

Verified(part) == part = WholePart

Renamed(p, f) ==
    [complete |-> IF staging[p][f].part.good THEN "good" ELSE "bad",
     part     |-> NoPart]

\* The file is missing here and in the staging directory: open a source.
\* An offline copy starts over; a download goes on where the part ends, unless
\* the part is full and wrong or the server sends the whole file.
Fetch(i) ==
    LET p == Here(i)  f == proc[i].file  part == staging[p][f].part
        From(source, size, kept) ==
            /\ Become(i, [proc[i] EXCEPT !.pc = "copy", !.source = source,
                                         !.size = size])
            /\ Stage(p, f, [complete |-> "absent", part |-> kept])
        Resumable == IF part.size = Chunks THEN NoPart ELSE part
    IN
    /\ proc[i].pc = "file" /\ f \in Files
    /\ FileState(p, f) = "absent"
    /\ staging[p][f].complete # "good" /\ ~ Verified(part)
    /\ \/ From("offline", 0, NoPart)
       \/ /\ part.size <= Chunks
          /\ \/ From("network", Resumable.size, Resumable)
             \/ From("network", 0, NoPart)
       \/ /\ part.size > Chunks
          /\ Raise(i)
          /\ UNCHANGED staging
       \/ /\ "refused" \in Faults
          /\ \E kept \in {part, Resumable} :
                Stage(p, f, [complete |-> "absent", part |-> kept])
          /\ Raise(i)
    /\ UNCHANGED <<dir, trash, installLock, trashLock, events>>

\* Mutation: a download that is too long goes on.
CopyChunkUnchecked(i) ==
    LET p == Here(i)  f == proc[i].file  n == proc[i].size + 1 IN
    /\ proc[i].pc = "copy"
    /\ n <= Chunks \/ (n = Chunks + 1 /\ proc[i].source = "network")
    /\ Stage(p, f, [complete |-> "absent", part |-> [size |-> n, good |-> TRUE]])
    /\ Become(i, Tell(i, "update", n))
    /\ UNCHANGED <<dir, trash, installLock, trashLock, events>>

\* One chunk is on disk; a download learns then that it is too long.
CopyChunk(i) ==
    LET p == Here(i)  f == proc[i].file  n == proc[i].size + 1 IN
    /\ proc[i].pc = "copy"
    /\ n <= Chunks \/ ("long" \in Faults /\ proc[i].source = "network")
    /\ \E good \in IF "corrupt" \in Faults THEN BOOLEAN ELSE {TRUE} :
         Stage(p, f, [complete |-> "absent",
                      part |-> [size |-> n,
                                good |-> good /\ staging[p][f].part.good]])
    /\ IF n <= Chunks THEN Become(i, Tell(i, "update", n)) ELSE Raise(i)
    /\ UNCHANGED <<dir, trash, installLock, trashLock, events>>

\* The source has ended: the part is verified and takes its final name.
EndOfData(i) ==
    LET p == Here(i)  f == proc[i].file IN
    /\ proc[i].pc = "copy"
    /\ proc[i].size = Chunks \/ ("short" \in Faults /\ proc[i].source = "network")
    /\ IF Verified(staging[p][f].part)
       THEN /\ Stage(p, f, Renamed(p, f))
            /\ Goto(i, "publish")
       ELSE /\ Raise(i)
            /\ UNCHANGED staging
    /\ UNCHANGED <<dir, trash, installLock, trashLock, events>>

\* What an earlier attempt left behind, and still verifies, is used.
ReuseStaged(i) ==
    LET p == Here(i)  f == proc[i].file IN
    /\ proc[i].pc = "file" /\ f \in Files
    /\ FileState(p, f) = "absent"
    /\ IF staging[p][f].complete = "good"
       THEN UNCHANGED staging
       ELSE Verified(staging[p][f].part) /\ Stage(p, f, Renamed(p, f))
    /\ Goto(i, "publish")
    /\ UNCHANGED <<dir, trash, installLock, trashLock, events>>

\* The verified file is renamed to its place, whatever is there by now.
Publish(i) ==
    LET p == Here(i)  f == proc[i].file IN
    /\ proc[i].pc = "publish"
    /\ dir' = [dir EXCEPT ![p] = [Made(p) EXCEPT !.files[f] = staging[p][f].complete]]
    /\ Stage(p, f, [staging[p][f] EXCEPT !.complete = "absent"])
    /\ Become(i, [Tell(i, "update", Chunks) EXCEPT !.source = "none"])
    /\ UNCHANGED <<trash, installLock, trashLock, events>>

\* update_artifact, the load: refuses a stale ID, an operation that is over and
\* bytes that go backwards.
Accepts(r, i) ==
    /\ r # None
    /\ r.op = proc[i].op
    /\ r.state \notin {"complete", "failed"}
    /\ r.bytes[proc[i].file] <= proc[i].size

ReadUpdate(i) ==
    LET p == Here(i) IN
    /\ proc[i].pc = "update"
    /\ dir' = [dir EXCEPT ![p] = Made(p)]
    /\ IF Accepts(Record(p), i)
       THEN Become(i, [proc[i] EXCEPT
                         !.pc = "updateWrite",
                         !.next = [Record(p) EXCEPT
                                     !.state = "transferring",
                                     !.bytes[proc[i].file] = proc[i].size]])
       ELSE Raise(i)
    /\ UNCHANGED <<staging, trash, installLock, trashLock, events>>

\* update_artifact, the save: then the next chunk, or the next file.
WriteUpdate(i) ==
    /\ proc[i].pc = "updateWrite"
    /\ SaveProgress(Here(i), proc[i].next)
    /\ Become(i, IF proc[i].source # "none"
                 THEN [proc[i] EXCEPT !.pc = "copy", !.next = None]
                 ELSE [proc[i] EXCEPT !.pc = "file", !.next = None, !.size = 0,
                                      !.file = @ + 1])
    /\ UNCHANGED <<staging, trash, installLock, trashLock, events>>

\* Mutation: what was transferred is not summed up.
ReadCompleteUnchecked(i) ==
    LET p == Here(i)  r == Record(Here(i)) IN
    /\ proc[i].pc = "file" /\ proc[i].file >= NFiles
    /\ dir' = [dir EXCEPT ![p] = Made(p)]
    /\ IF r # None /\ r.op = proc[i].op
       THEN Become(i, [proc[i] EXCEPT !.pc = "completeWrite",
                                      !.next = [r EXCEPT !.state = "complete"]])
       ELSE Raise(i)
    /\ UNCHANGED <<staging, trash, installLock, trashLock, events>>

\* set_state(COMPLETE): the validator wants every byte.
ReadComplete(i) ==
    LET p == Here(i)  r == Record(Here(i)) IN
    /\ proc[i].pc = "file" /\ proc[i].file = NFiles + 1
    /\ dir' = [dir EXCEPT ![p] = Made(p)]
    /\ IF r # None /\ r.op = proc[i].op /\ \A f \in Files : r.bytes[f] = Chunks
       THEN Become(i, [proc[i] EXCEPT !.pc = "completeWrite",
                                      !.next = [r EXCEPT !.state = "complete"]])
       ELSE Raise(i)
    /\ UNCHANGED <<staging, trash, installLock, trashLock, events>>

WriteComplete(i) ==
    /\ proc[i].pc = "completeWrite"
    /\ SaveProgress(Here(i), proc[i].next)
    /\ Return(i)
    /\ UNCHANGED <<staging, trash, trashLock, events>>

\* The handler's set_state(FAILED); the exception goes on in any case.
ReadFailure(i) ==
    LET p == Here(i)  r == Record(Here(i)) IN
    /\ proc[i].pc = "failed"
    /\ dir' = [dir EXCEPT ![p] = Made(p)]
    /\ IF r # None /\ r.op = proc[i].op
       THEN /\ Become(i, [proc[i] EXCEPT !.pc = "failedWrite",
                                         !.next = [r EXCEPT !.state = "failed"]])
            /\ UNCHANGED installLock
       ELSE Abort(i)
    /\ UNCHANGED <<staging, trash, trashLock, events>>

WriteFailure(i) ==
    /\ proc[i].pc = "failedWrite"
    /\ SaveProgress(Here(i), proc[i].next)
    /\ Abort(i)
    /\ UNCHANGED <<staging, trash, trashLock, events>>

\* A write raises: a full disk, a directory renamed away under the writer.
WriteFails(i) ==
    /\ "io" \in Faults
    /\ \/ /\ proc[i].pc \in {"startWrite", "failedWrite"}
          /\ Abort(i)
       \/ /\ proc[i].pc \in {"copy", "updateWrite", "publish", "completeWrite"}
          /\ Raise(i)
          /\ UNCHANGED installLock
       \/ /\ proc[i].pc \in {"manifest", "move"}
          /\ Goto(i, "rollback")
          /\ UNCHANGED installLock
    /\ UNCHANGED <<dir, staging, trash, trashLock, events>>

(***************************************************************************)
(* remove: ManagedPackTrash.move_to_trash.                                 *)
(***************************************************************************)
RequestRemove(i, p) ==
    /\ "remove" \in Operations
    /\ proc[i].pc = "idle"
    /\ events.removals < MaxRemovals
    /\ Managed(p) /\ dir[p] # None
    /\ Become(i, [Idle EXCEPT !.pc = "remove", !.pack = p])
    /\ UNCHANGED <<dir, staging, trash, installLock, trashLock, events>>

\* Under the trash lock the directory is looked at again; then the entry, which
\* is what MaxRemovals counts.
CreateEntry(i) ==
    /\ proc[i].pc = "remove"
    /\ trashLock = None
    /\ \/ /\ dir[Here(i)] = None
          /\ Become(i, Idle)
          /\ UNCHANGED <<trash, trashLock, events>>
       \/ /\ dir[Here(i)] # None
          /\ events.removals < MaxRemovals
          /\ events' = [events EXCEPT !.removals = @ + 1]
          /\ \E e \in TrashIds :
               /\ trash[e] = None
               /\ trash' = [trash EXCEPT ![e] = [pack |-> Here(i), manifest |-> FALSE,
                                                 payload |-> None]]
               /\ Become(i, [proc[i] EXCEPT !.pc = "manifest", !.entry = e])
          /\ trashLock' = i
    /\ UNCHANGED <<dir, staging, installLock>>

\* The lock is still taken after five seconds.
GiveUpRemove(i) ==
    /\ proc[i].pc = "remove"
    /\ trashLock # None
    /\ Become(i, Idle)
    /\ UNCHANGED <<dir, staging, trash, installLock, trashLock, events>>

WriteManifest(i) ==
    /\ proc[i].pc = "manifest"
    /\ trash' = [trash EXCEPT ![proc[i].entry].manifest = TRUE]
    /\ Goto(i, "move")
    /\ UNCHANGED <<dir, staging, installLock, trashLock, events>>

MovePack(i) ==
    LET p == Here(i) IN
    /\ proc[i].pc = "move"
    /\ IF dir[p] # None
       THEN /\ trash' = [trash EXCEPT ![proc[i].entry].payload = dir[p]]
            /\ dir' = [dir EXCEPT ![p] = None]
            /\ Goto(i, "moved")
       ELSE /\ Goto(i, "rollback")
            /\ UNCHANGED <<dir, trash>>
    /\ UNCHANGED <<staging, installLock, trashLock, events>>

ReleaseTrash(i) == trashLock' = None /\ Become(i, Idle)

FinishMove(i) ==
    /\ proc[i].pc = "moved"
    /\ ReleaseTrash(i)
    /\ UNCHANGED <<dir, staging, trash, installLock, events>>

\* The handler: move the payload back if its place is still free, unlink the
\* manifest, remove the entry if that empties it.
RollBack(i) ==
    LET p == Here(i)  e == proc[i].entry
        back == trash[e].payload # None /\ dir[p] = None
        left == trash[e].payload # None /\ dir[p] # None
    IN
    /\ proc[i].pc = "rollback"
    /\ dir' = IF back THEN [dir EXCEPT ![p] = trash[e].payload] ELSE dir
    /\ trash' = [trash EXCEPT ![e] =
                   IF left THEN [trash[e] EXCEPT !.manifest = FALSE] ELSE None]
    /\ ReleaseTrash(i)
    /\ UNCHANGED <<staging, installLock, events>>

(***************************************************************************)
(* restore.                                                                *)
(***************************************************************************)
\* A readable manifest, a payload, and nothing in its old place.
Restorable(e) ==
    trash[e] # None /\ trash[e].manifest /\ trash[e].payload # None

BeginRestore(i, e) ==
    /\ "restore" \in Operations
    /\ proc[i].pc = "idle"
    /\ trashLock = None
    /\ Restorable(e) /\ dir[trash[e].pack] = None
    /\ trashLock' = i
    /\ Become(i, [Idle EXCEPT !.pc = "restore", !.pack = trash[e].pack, !.entry = e])
    /\ UNCHANGED <<dir, staging, trash, installLock, events>>

\* Mutation: the manifest is deleted before the payload is moved back.
MoveBackForgetting(i) ==
    LET p == Here(i)  e == proc[i].entry IN
    /\ proc[i].pc = "restore"
    /\ IF dir[p] = None
       THEN /\ dir' = [dir EXCEPT ![p] = trash[e].payload]
            /\ trash' = [trash EXCEPT ![e].payload = None]
            /\ Goto(i, "forget")
            /\ UNCHANGED trashLock
       ELSE /\ ReleaseTrash(i)
            /\ trash' = [trash EXCEPT ![e].manifest = FALSE]
            /\ UNCHANGED dir
    /\ UNCHANGED <<staging, installLock, events>>

\* Mutation: what an install has created meanwhile is replaced.
MoveBackOver(i) ==
    LET p == Here(i)  e == proc[i].entry IN
    /\ proc[i].pc = "restore"
    /\ dir' = [dir EXCEPT ![p] = trash[e].payload]
    /\ trash' = [trash EXCEPT ![e].payload = None]
    /\ Goto(i, "forget")
    /\ UNCHANGED <<staging, installLock, trashLock, events>>

\* A rename refuses a directory somebody has filled meanwhile.
MoveBack(i) ==
    LET p == Here(i)  e == proc[i].entry IN
    /\ proc[i].pc = "restore"
    /\ IF dir[p] = None
       THEN /\ dir' = [dir EXCEPT ![p] = trash[e].payload]
            /\ trash' = [trash EXCEPT ![e].payload = None]
            /\ Goto(i, "forget")
            /\ UNCHANGED trashLock
       ELSE /\ ReleaseTrash(i)
            /\ UNCHANGED <<dir, trash>>
    /\ UNCHANGED <<staging, installLock, events>>

UnlinkManifest(i) ==
    /\ proc[i].pc = "forget"
    /\ trash' = [trash EXCEPT ![proc[i].entry].manifest = FALSE]
    /\ Goto(i, "rmdir")
    /\ UNCHANGED <<dir, staging, installLock, trashLock, events>>

RemoveEntry(i) ==
    /\ proc[i].pc = "rmdir"
    /\ trash' = [trash EXCEPT ![proc[i].entry] = None]
    /\ ReleaseTrash(i)
    /\ UNCHANGED <<dir, staging, installLock, events>>

\* A rename, an unlink or the rmdir in the trash raises, also in the handler of a
\* removal: what was done before it stays, and the lock is released.
TrashFails(i) ==
    LET p == Here(i)  e == proc[i].entry
        back == trash[e].payload # None /\ dir[p] = None
    IN
    /\ "io" \in Faults
    /\ \/ /\ proc[i].pc \in Restoring \cup {"rollback"}
          /\ UNCHANGED <<dir, trash>>
       \/ /\ proc[i].pc = "rollback"
          /\ dir' = IF back THEN [dir EXCEPT ![p] = trash[e].payload] ELSE dir
          /\ \E manifest \in {trash[e].manifest, FALSE} :
                trash' = [trash EXCEPT ![e] =
                            [trash[e] EXCEPT !.manifest = manifest,
                                             !.payload = IF back THEN None ELSE @]]
    /\ ReleaseTrash(i)
    /\ UNCHANGED <<staging, installLock, events>>

(***************************************************************************)
(* What may happen to a process or to the disk.                            *)
(***************************************************************************)
MayStop == events.stops < MaxStops

Stops == MayStop /\ events' = [events EXCEPT !.stops = @ + 1]

\* The stop is a Ctrl-C in a removal.
Breaks == MayStop /\ events' = [events EXCEPT !.stops = @ + 1, !.breaks = @ + 1]

\* SIGKILL, a power cut: the kernel releases the locks.
Crash(i) ==
    /\ proc[i].pc # "idle"
    /\ Stops
    /\ Abort(i)
    /\ trashLock' = IF trashLock = i THEN None ELSE trashLock
    /\ UNCHANGED <<dir, staging, trash>>

\* Ctrl-C: an install records its failure and a removal rolls back; a restore
\* has no handler, and before an install has its operation it ends as in a crash.
Interrupt(i) ==
    /\ \/ /\ proc[i].pc \in Trying
          /\ Stops
          /\ Raise(i)
          /\ UNCHANGED trashLock
       \/ /\ proc[i].pc \in Moving \ {"rollback"}
          /\ Breaks
          /\ Goto(i, "rollback")
          /\ UNCHANGED trashLock
       \/ /\ proc[i].pc \in Restoring
          /\ Stops
          /\ ReleaseTrash(i)
    /\ UNCHANGED <<dir, staging, trash, installLock>>

\* Bytes of an installed file change on disk.
Rot(p, f) ==
    /\ events.rots < MaxRots
    /\ FileState(p, f) = "good"
    /\ dir' = [dir EXCEPT ![p].files[f] = "bad"]
    /\ events' = [events EXCEPT !.rots = @ + 1]
    /\ UNCHANGED <<staging, trash, installLock, trashLock, proc>>

InstallStep(i) ==
    \/ Inspect(i) \/ InstallDependencies(i) \/ LoadProgress(i)
    \/ StartProgress(i) \/ WriteStart(i)
    \/ CheckInstalled(i) \/ Fetch(i) \/ CopyChunk(i) \/ EndOfData(i)
    \/ ReuseStaged(i) \/ Publish(i) \/ ReadUpdate(i) \/ WriteUpdate(i)
    \/ ReadComplete(i) \/ WriteComplete(i) \/ ReadFailure(i) \/ WriteFailure(i)

TrashStep(i) ==
    \/ CreateEntry(i) \/ GiveUpRemove(i) \/ WriteManifest(i) \/ MovePack(i)
    \/ FinishMove(i) \/ RollBack(i)
    \/ MoveBack(i) \/ UnlinkManifest(i) \/ RemoveEntry(i)

Next ==
    \/ \E i \in Procs :
         \/ InstallStep(i) \/ TrashStep(i)
         \/ WriteFails(i) \/ TrashFails(i) \/ Crash(i) \/ Interrupt(i)
         \/ \E p \in Packs : BeginInstall(i, p) \/ RequestRemove(i, p)
         \/ \E e \in TrashIds : BeginRestore(i, e)
    \/ \E p \in Packs, f \in Files : Rot(p, f)

Spec == Init /\ [][Next]_vars

\* A process that runs goes on, and whoever wants a pack asks again.
FairSpec ==
    /\ Spec
    /\ \A i \in Procs : WF_vars(InstallStep(i)) /\ WF_vars(TrashStep(i))
    /\ \A p \in Packs : \A i \in Procs : SF_vars(BeginInstall(i, p))
=============================================================================
