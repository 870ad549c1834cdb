--------------------------- MODULE ArtifactInstall ---------------------------
(***************************************************************************)
(* The artifact store (artifacts.py): commands that install one locked     *)
(* artifact, and adapters that load it, in processes with no lock between  *)
(* them, and what a kill, an exception or a bad source leaves at every     *)
(* durable step.                                                           *)
(*                                                                         *)
(* A file's bytes are counted in chunks: a file is the sequence that tells *)
(* which of its chunks are the pinned ones.  What the store asks of a      *)
(* file's mtime is whether the file is still the one that was stat'ed, so  *)
(* a stamp is TRUE until the download is written or replaced.  An open     *)
(* file follows its inode: fd says under which name it lies now.           *)
(***************************************************************************)
EXTENDS Naturals, Sequences

CONSTANTS Installers,    \* processes of `models install`
          Loaders,       \* processes of adapters that load the artifact
          Formats,       \* the kinds of artifact to look at
          Chunks,        \* length of the pinned file
          Faults,        \* what a source or the disk may do wrong
          Damages,       \* what may happen to the store between commands
          MaxFaults, MaxStops, MaxDamages,    \* bounds on events
          None

Procs == Installers \cup Loaders

ASSUME ChunksAssumption == Chunks \in Nat \ {0}
ASSUME ProcsAssumption == Installers \cap Loaders = {}
ASSUME FormatsAssumption == Formats \subseteq {"file", "archive", "wheel"}
ASSUME FaultsAssumption ==
    Faults \subseteq {"refused", "short", "long", "corrupt", "io"}
ASSUME DamagesAssumption == Damages \subseteq {"download", "tree", "env"}
ASSUME BoundsAssumption == {MaxFaults, MaxStops, MaxDamages} \subseteq Nat

VARIABLES
    format,     \* the artifact's entry in the lock: never changes
    download,   \* downloads/<filename>
    part,       \* downloads/<filename>.part
    tree,       \* installed/<artifact_id>
    record,     \* records/<artifact_id>.json
    env,        \* python/<environment_name>
    proc,       \* per process: where it is and its locals
    events      \* faults, stops and damages so far

vars == <<format, download, part, tree, record, env, proc, events>>

\* One chunk too many stands for any number of them.
Contents == UNION {[1..n -> BOOLEAN] : n \in 0..(Chunks + 1)}

Pinned == [k \in 1..Chunks |-> TRUE]

\* A directory that rmtree has begun on is "partial"; "bad" is any other content.
Directory == {"absent", "partial", "good", "bad"}

Digest == (Directory \ {"absent"}) \cup {None}

\* stamp: file_mtime_ns is that of the download there is now.
Records == [stamp : BOOLEAN, digest : Digest]

\* marker: .whoopy-wheels.json is in the directory and lists the wheels wanted.
Environments == [files : Directory, marker : BOOLEAN]

Resting == {"idle", "done", "failed"}
Fetching == {"fetch", "open", "receive", "verify", "publish"}
Extracting == {"extract", "clear", "clearing", "place"}
Recording == {"stat", "hash", "write", "confirm"}
Requiring == {"marker", "look", "digest", "tree"}

Locals == [pc     : Resting \cup {"quick", "check", "quarantine"} \cup Fetching
                    \cup Extracting \cup Recording \cup Requiring,
           fd     : {"part", "download", "gone", None},
           next   : 1..(Chunks + 2),     \* the chunk the source sends next
           append : BOOLEAN,
           honest : BOOLEAN,             \* the source has the pinned bytes
           temp   : {"good", "bad", None},
           stamp  : BOOLEAN,             \* what stat returned is still so
           digest : Digest]

ASSUME NoneAssumption ==
    None \notin Procs \cup Contents \cup Records \cup Directory \cup {"part", "download", "gone"}

Idle == [pc |-> "idle", fd |-> None, next |-> 1, append |-> FALSE, honest |-> TRUE,
         temp |-> None, stamp |-> FALSE, digest |-> None]

\* An environment of other wheels may be left from an earlier lock.
Init ==
    /\ format \in Formats
    /\ download = None /\ part = None /\ tree = "absent" /\ record = None
    /\ env \in [files : {"absent", "bad"}, marker : {FALSE}]
    /\ proc = [i \in Procs |-> Idle]
    /\ events = [faults |-> 0, stops |-> 0, damages |-> 0]

-----------------------------------------------------------------------------
At(i, pc) == proc[i].pc = pc

Become(i, l) == proc' = [proc EXCEPT ![i] = l]

Goto(i, pc) == Become(i, [proc[i] EXCEPT !.pc = pc])

\* The command ends; a temporary directory goes with it.
End(i, pc) == Become(i, [Idle EXCEPT !.pc = pc])

Fault(f) ==
    /\ f \in Faults /\ events.faults < MaxFaults
    /\ events' = [events EXCEPT !.faults = @ + 1]

\* The download is not the file it was: what stat returned before is out of date.
Unstamped(procs) == [j \in Procs |-> [procs[j] EXCEPT !.stamp = FALSE]]

RecordUnstamped == IF record = None THEN None ELSE [record EXCEPT !.stamp = FALSE]

\* A rename or an unlink takes the open files along.
Moved(procs, from, to) ==
    [j \in Procs |-> IF procs[j].fd = from THEN [procs[j] EXCEPT !.fd = to]
                                           ELSE procs[j]]

\* inspect: the record is trusted for a file of the same size and mtime, and
\* always for the tree's digest being there.
RecordMatches == record # None /\ record.stamp

Extracted == tree # "absent" /\ RecordMatches /\ record.digest # None

InspectQuick ==
    /\ download # None /\ Len(download) = Chunks
    /\ RecordMatches \/ download = Pinned
    /\ format = "archive" => Extracted

InspectFully ==
    /\ InspectQuick
    /\ download = Pinned
    /\ format = "archive" => tree = record.digest

-----------------------------------------------------------------------------
(***************************************************************************)
(* ArtifactInstaller.install_profile for one artifact.                     *)
(***************************************************************************)
Ask(i) ==
    /\ proc[i].pc \in Resting
    /\ End(i, "quick")
    /\ UNCHANGED <<format, download, part, tree, record, env, events>>

\* Mutation: what is installed is not looked at first.
ReuseNever(i) ==
    /\ At(i, "quick")
    /\ Goto(i, "check")
    /\ UNCHANGED <<format, download, part, tree, record, env, events>>

Reuse(i) ==
    /\ At(i, "quick")
    /\ IF InspectQuick THEN End(i, "done") ELSE Goto(i, "check")
    /\ UNCHANGED <<format, download, part, tree, record, env, events>>

\* _install_one begins: a file that is there is verified in full.
Check(i) ==
    /\ At(i, "check")
    /\ Goto(i, IF download = None THEN "fetch"
               ELSE IF InspectFully THEN "extract" ELSE "quarantine")
    /\ UNCHANGED <<format, download, part, tree, record, env, events>>

\* The file may be gone by now, which raises.
Quarantine(i) ==
    /\ At(i, "quarantine")
    /\ IF download = None
       THEN End(i, "failed") /\ UNCHANGED <<download, record>>
       ELSE /\ download' = None
            /\ record' = RecordUnstamped
            /\ proc' = [Unstamped(Moved(proc, "download", "gone")) EXCEPT ![i].pc = "fetch"]
    /\ UNCHANGED <<format, part, tree, env, events>>

\* No source: the network is disabled, the request fails, or the offline
\* directory holds the name twice.
NoSource(i) ==
    /\ At(i, "fetch") /\ download = None
    /\ Fault("refused")
    /\ End(i, "failed")
    /\ UNCHANGED <<format, download, part, tree, record, env>>

Receiver(i, append, first) ==
    [Idle EXCEPT !.pc = "receive", !.fd = "part", !.append = append, !.next = first,
                 !.honest = proc[i].honest]

\* The source's bytes are the pinned ones, or a fault of the source.
Honesty(i, honest) ==
    IF honest THEN UNCHANGED events ELSE Fault("corrupt")

\* partial.unlink, then copyfile opens it anew.
CopyOffline(i) ==
    /\ At(i, "fetch") /\ download = None
    /\ \E honest \in BOOLEAN :
          /\ Honesty(i, honest)
          /\ proc' = [Moved(proc, "part", "gone") EXCEPT
                        ![i] = [Receiver(i, FALSE, 1) EXCEPT !.honest = honest]]
    /\ part' = <<>>
    /\ UNCHANGED <<format, download, tree, record, env>>

\* Nothing is fetched when somebody else has published meanwhile, or when the
\* part has the right size; a longer part is refused.
FetchNothing(i) ==
    /\ At(i, "fetch")
    /\ download # None \/ (part # None /\ Len(part) >= Chunks)
    /\ IF download # None THEN Goto(i, "extract")
       ELSE IF Len(part) = Chunks THEN Goto(i, "verify") ELSE End(i, "failed")
    /\ UNCHANGED <<format, download, part, tree, record, env, events>>

\* urlopen with a Range header when something is there: answered by 206 or 200.
Request(i) ==
    LET size == IF part = None THEN 0 ELSE Len(part) IN
    /\ At(i, "fetch") /\ download = None
    /\ size < Chunks
    /\ \E append \in {size > 0, FALSE}, honest \in BOOLEAN :
          /\ Honesty(i, honest)
          /\ Become(i, [Idle EXCEPT !.pc = "open", !.append = append, !.honest = honest,
                                    !.next = IF append THEN size + 1 ELSE 1])
    /\ UNCHANGED <<format, download, part, tree, record, env>>

Open(i) ==
    /\ At(i, "open")
    /\ part' = IF proc[i].append /\ part # None THEN part ELSE <<>>
    /\ Become(i, Receiver(i, proc[i].append, proc[i].next))
    /\ UNCHANGED <<format, download, tree, record, env, events>>

\* A chunk goes to the end of the file, or to the writer's own offset; what
\* lies between is a hole.
Put(l, file) ==
    LET offset == IF l.append THEN Len(file) + 1 ELSE l.next
        length == IF offset > Len(file) THEN offset ELSE Len(file) IN
    IF offset > Chunks + 1 THEN file
    ELSE [k \in 1..length |-> IF k = offset THEN l.honest /\ k = l.next
                              ELSE k <= Len(file) /\ file[k]]

\* The loop over the response has no limit of its own.
Receive(i) ==
    LET l == proc[i]
        received == [proc EXCEPT ![i].next = @ + 1] IN
    /\ At(i, "receive")
    /\ \/ l.next <= Chunks /\ UNCHANGED events
       \/ l.next = Chunks + 1 /\ Fault("long")
    /\ CASE l.fd = "part" ->
              part' = Put(l, part) /\ proc' = received /\ UNCHANGED <<download, record>>
         [] l.fd = "download" ->
              /\ download' = Put(l, download)
              /\ record' = RecordUnstamped
              /\ proc' = Unstamped(received)
              /\ UNCHANGED part
         [] l.fd = "gone" -> proc' = received /\ UNCHANGED <<part, download, record>>
    /\ UNCHANGED <<format, tree, env>>

\* An early end of the response looks like its end.
EndOfFile(i) ==
    /\ At(i, "receive")
    /\ IF proc[i].next > Chunks THEN UNCHANGED events ELSE Fault("short")
    /\ Become(i, [Idle EXCEPT !.pc = "verify"])
    /\ UNCHANGED <<format, download, part, tree, record, env>>

\* Mutation: the size is enough.
VerifySize(i) ==
    /\ At(i, "verify")
    /\ IF part # None /\ Len(part) = Chunks THEN Goto(i, "publish") ELSE End(i, "failed")
    /\ UNCHANGED <<format, download, part, tree, record, env, events>>

\* Mutation: a rejected part is left where it is.
VerifyAndLeave(i) ==
    /\ At(i, "verify")
    /\ IF part = Pinned THEN Goto(i, "publish") ELSE End(i, "failed")
    /\ UNCHANGED <<format, download, part, tree, record, env, events>>

\* The size of the part, then its digest; a wrong part is quarantined.
Verify(i) ==
    /\ At(i, "verify")
    /\ IF part = Pinned THEN Goto(i, "publish") /\ UNCHANGED part
       ELSE IF part = None \/ Len(part) # Chunks
       THEN End(i, "failed") /\ UNCHANGED part
       ELSE /\ part' = None
            /\ proc' = [Moved(proc, "part", "gone") EXCEPT ![i] = [Idle EXCEPT !.pc = "failed"]]
    /\ UNCHANGED <<format, download, tree, record, env, events>>

\* partial.replace(destination)
Publish(i) ==
    /\ At(i, "publish")
    /\ IF part = None
       THEN End(i, "failed") /\ UNCHANGED <<download, part, record>>
       ELSE /\ download' = part
            /\ part' = None
            /\ record' = RecordUnstamped
            /\ proc' = [Unstamped(Moved(Moved(proc, "download", "gone"), "part", "download"))
                          EXCEPT ![i].pc = "extract"]
    /\ UNCHANGED <<format, tree, env, events>>

\* The response breaks off with an error, or the disk is full.
Break(i) ==
    /\ At(i, "receive")
    /\ Fault("io")
    /\ End(i, "failed")
    /\ UNCHANGED <<format, download, part, tree, record, env>>

(***************************************************************************)
(* _extract_atomic: into a temporary directory, which then takes the place *)
(* of the old one.                                                         *)
(***************************************************************************)
\* What a damaged archive yields: an error of its reader, or other files.
Unpacked(file) == IF file = Pinned THEN {"good"} ELSE {"bad", None}

Unpack(i, then) ==
    \E temp \in IF download = None THEN {None} ELSE Unpacked(download) :
       IF temp = None THEN End(i, "failed")
       ELSE Become(i, [proc[i] EXCEPT !.pc = then, !.temp = temp])

NothingToExtract(i) ==
    /\ At(i, "extract") /\ format # "archive"
    /\ Goto(i, "stat")
    /\ UNCHANGED <<format, download, part, tree, record, env, events>>

\* Mutation: nothing was unpacked into the directory that is put in place.
ExtractNothing(i) ==
    /\ At(i, "extract") /\ format = "archive"
    /\ Goto(i, "clear")
    /\ UNCHANGED <<format, download, part, tree, record, env, events>>

Extract(i) ==
    /\ At(i, "extract") /\ format = "archive"
    /\ Unpack(i, "clear")
    /\ UNCHANGED <<format, download, part, tree, record, env, events>>

Clear(i) ==
    /\ At(i, "clear")
    /\ IF tree = "absent" THEN Goto(i, "place") /\ UNCHANGED tree
       ELSE Goto(i, "clearing") /\ tree' = "partial"
    /\ UNCHANGED <<format, download, part, record, env, events>>

\* rmtree goes on; it raises when another one has taken what it was to remove.
Cleared(i) ==
    /\ At(i, "clearing")
    /\ IF tree = "absent" THEN End(i, "failed") /\ UNCHANGED tree
                          ELSE Goto(i, "place") /\ tree' = "absent"
    /\ UNCHANGED <<format, download, part, record, env, events>>

\* A directory is not renamed over one that holds something.
Place(i) ==
    /\ At(i, "place")
    /\ IF tree = "absent" THEN tree' = proc[i].temp /\ Goto(i, "stat")
                          ELSE End(i, "failed") /\ UNCHANGED tree
    /\ UNCHANGED <<format, download, part, record, env, events>>

(***************************************************************************)
(* record_verified and the last inspection.                                *)
(***************************************************************************)
Stat(i) ==
    /\ At(i, "stat")
    /\ IF download = None THEN End(i, "failed")
       ELSE Become(i, [Idle EXCEPT !.pc = "hash", !.stamp = TRUE])
    /\ UNCHANGED <<format, download, part, tree, record, env, events>>

Hash(i) ==
    /\ At(i, "hash")
    /\ Become(i, [proc[i] EXCEPT !.pc = "write",
                     !.digest = IF format = "archive" /\ tree # "absent" THEN tree
                                                                         ELSE None])
    /\ UNCHANGED <<format, download, part, tree, record, env, events>>

WriteRecord(i) ==
    /\ At(i, "write")
    /\ record' = [stamp |-> proc[i].stamp, digest |-> proc[i].digest]
    /\ Become(i, [Idle EXCEPT !.pc = "confirm"])
    /\ UNCHANGED <<format, download, part, tree, env, events>>

Confirm(i) ==
    /\ At(i, "confirm")
    /\ End(i, IF InspectQuick THEN "done" ELSE "failed")
    /\ UNCHANGED <<format, download, part, tree, record, env, events>>

Install(i) ==
    \/ Reuse(i) \/ Check(i) \/ Quarantine(i)
    \/ FetchNothing(i) \/ CopyOffline(i) \/ Request(i) \/ Open(i)
    \/ Receive(i) \/ EndOfFile(i) \/ Verify(i) \/ Publish(i)
    \/ NothingToExtract(i) \/ Extract(i) \/ Clear(i) \/ Cleared(i) \/ Place(i)
    \/ Stat(i) \/ Hash(i) \/ WriteRecord(i) \/ Confirm(i)

-----------------------------------------------------------------------------
(***************************************************************************)
(* An adapter's factory: store.require, which inspects in full, and for    *)
(* wheels materialize_python_wheels.  digest is what Look read of a record  *)
(* that matches.                                                           *)
(***************************************************************************)
Load(j) ==
    /\ proc[j].pc \in Resting
    /\ End(j, IF format = "wheel" THEN "marker" ELSE "look")
    /\ UNCHANGED <<format, download, part, tree, record, env, events>>

\* An environment whose marker lists these wheels is returned as it is.
ReadMarker(j) ==
    /\ At(j, "marker")
    /\ IF env.marker THEN End(j, "done") ELSE Goto(j, "look")
    /\ UNCHANGED <<format, download, part, tree, record, env, events>>

Look(j) ==
    /\ At(j, "look")
    /\ IF download = None \/ Len(download) # Chunks THEN End(j, "failed")
       ELSE Become(j, [Idle EXCEPT !.pc = "digest",
                          !.digest = IF RecordMatches THEN record.digest ELSE None])
    /\ UNCHANGED <<format, download, part, tree, record, env, events>>

\* The file is read anew: another one may lie there by now.
CheckDigest(j) ==
    /\ At(j, "digest")
    /\ IF \/ download # Pinned
          \/ format = "archive" /\ (tree = "absent" \/ proc[j].digest = None)
       THEN End(j, "failed")
       ELSE CASE format = "file" -> End(j, "done")
              [] format = "archive" -> Goto(j, "tree")
              [] format = "wheel" -> Goto(j, "extract")
    /\ UNCHANGED <<format, download, part, tree, record, env, events>>

\* Mutation: the record is taken for the tree.
CheckNoTree(j) ==
    /\ At(j, "tree")
    /\ End(j, "done")
    /\ UNCHANGED <<format, download, part, tree, record, env, events>>

CheckTree(j) ==
    /\ At(j, "tree")
    /\ End(j, IF tree = proc[j].digest THEN "done" ELSE "failed")
    /\ UNCHANGED <<format, download, part, tree, record, env, events>>

Merge(j) ==
    /\ At(j, "extract")
    /\ Unpack(j, "clear")
    /\ UNCHANGED <<format, download, part, tree, record, env, events>>

\* rmtree has removed some of the files, and the marker or not.
ClearEnvironment(j) ==
    /\ At(j, "clear")
    /\ IF env.files = "absent" THEN Goto(j, "place") /\ UNCHANGED env
       ELSE /\ Goto(j, "clearing")
            /\ \E marker \in {env.marker, FALSE} :
                  env' = [files |-> "partial", marker |-> marker]
    /\ UNCHANGED <<format, download, part, tree, record, events>>

ClearedEnvironment(j) ==
    /\ At(j, "clearing")
    /\ IF env.files = "absent" THEN End(j, "failed") /\ UNCHANGED env
       ELSE Goto(j, "place") /\ env' = [files |-> "absent", marker |-> FALSE]
    /\ UNCHANGED <<format, download, part, tree, record, events>>

PlaceEnvironment(j) ==
    /\ At(j, "place")
    /\ IF env.files # "absent" THEN End(j, "failed") /\ UNCHANGED env
       ELSE End(j, "done") /\ env' = [files |-> proc[j].temp, marker |-> TRUE]
    /\ UNCHANGED <<format, download, part, tree, record, events>>

Require(j) ==
    \/ ReadMarker(j) \/ Look(j) \/ CheckDigest(j) \/ CheckTree(j) \/ Merge(j)
    \/ ClearEnvironment(j) \/ ClearedEnvironment(j) \/ PlaceEnvironment(j)

-----------------------------------------------------------------------------
(***************************************************************************)
(* A kill, and what happens to the store while nobody works on it: an edit *)
(* or a loss, by a user or the disk.                                       *)
(***************************************************************************)
Stop(i) ==
    /\ proc[i].pc \notin Resting
    /\ events.stops < MaxStops
    /\ events' = [events EXCEPT !.stops = @ + 1]
    /\ End(i, "idle")
    /\ UNCHANGED <<format, download, part, tree, record, env>>

AllRest == \A i \in Procs : proc[i].pc \in Resting

\* An edit sets the mtime, bit rot does not.
DamageDownload ==
    /\ "download" \in Damages /\ download \notin {None, <<>>}
    /\ \/ download' = [download EXCEPT ![1] = FALSE]
       \/ download' = None
    /\ record' \in {record, RecordUnstamped}
    /\ download' = None => record' = RecordUnstamped
    /\ UNCHANGED <<tree, env>>

DamageTree ==
    /\ "tree" \in Damages /\ tree \in {"good", "partial"}
    /\ tree' \in {"bad", "absent"}
    /\ UNCHANGED <<download, record, env>>

DamageEnvironment ==
    /\ "env" \in Damages /\ env.files \in {"good", "partial"}
    /\ env' \in {[env EXCEPT !.files = "bad"], [files |-> "absent", marker |-> FALSE]}
    /\ UNCHANGED <<download, tree, record>>

Damage ==
    /\ AllRest
    /\ events.damages < MaxDamages
    /\ events' = [events EXCEPT !.damages = @ + 1]
    /\ DamageDownload \/ DamageTree \/ DamageEnvironment
    /\ UNCHANGED <<format, part, proc>>

Next ==
    \/ \E i \in Installers : Ask(i) \/ Install(i) \/ NoSource(i) \/ Break(i) \/ Stop(i)
    \/ \E j \in Loaders : Load(j) \/ Require(j) \/ Stop(j)
    \/ Damage

Spec == Init /\ [][Next]_vars
=============================================================================
