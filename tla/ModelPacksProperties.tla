------------------------ MODULE ModelPacksProperties ------------------------
(***************************************************************************)
(* What the model pack manager promises, and what its code does not keep.  *)
(***************************************************************************)
EXTENDS ModelPacks

EventCounts == [removals : 0..MaxRemovals, stops : 0..MaxStops,
                breaks : 0..MaxStops, rots : 0..MaxRots]

\* Every variable has the type its declaration states.
PacksTypeOK ==
    /\ dir \in [Packs -> Contents \cup {None}]
    /\ staging \in [Packs -> [Files -> Staged]]
    /\ trash \in [TrashIds -> Entries \cup {None}]
    /\ installLock \in [Packs -> Procs \cup {None}]
    /\ trashLock \in Procs \cup {None}
    /\ proc \in [Procs -> Locals]
    /\ events \in EventCounts

Payloads == {e \in TrashIds : trash[e] # None /\ trash[e].payload # None}

\* A process that is fetching the current file of its pack.
Writing(i) ==
    \/ proc[i].pc = "copy"
    \/ proc[i].pc \in {"update", "updateWrite"} /\ proc[i].source # "none"

\* A verified copy of a file, wherever it lies; a part counts when nobody is
\* appending to it any more.
Kept(p, f) ==
    \/ FileState(p, f) = "good"
    \/ staging[p][f].complete = "good"
    \/ /\ staging[p][f].part = WholePart
       /\ ~ \E i \in Procs : Writing(i) /\ Here(i) = p /\ proc[i].file = f
    \/ \E e \in Payloads : trash[e].pack = p /\ trash[e].payload.files[f] = "good"

\* Once a file has been fetched and verified, some verified copy of it exists
\* from then on, in whatever order installs, removals, restores, exceptions and
\* kills follow: "no model bytes were deleted" (ManagedModelPacks.remove), and an
\* install never discards what it could use.  Only a disk error loses it.
VerifiedBytesAreKept ==
    [][\A p \in Packs, f \in Files :
          Kept(p, f) => Kept(p, f)' \/ events'.rots # events.rots]_vars

Damaged ==
    {x \in {"pack"} \X Packs \X Files : FileState(x[2], x[3]) = "bad"}
    \cup {x \in {"trash"} \X Payloads \X Files :
             trash[x[2]].payload.files[x[3]] = "bad"}

\* A file that does not verify gets into a pack, or with it into the trash, only
\* by damage after its installation, whatever the sources send and wherever an
\* earlier attempt was stopped (_install_locked verifies before it renames).
OnlyVerifiedIsInstalled == Cardinality(Damaged) <= events.rots

\* The process that fetches a file is alone at it: the part on disk is exactly
\* what it has counted, although earlier attempts have left parts of any size
\* and removals move the pack away under it ("without allowing two live writers
\* into the same staging files", PackInstallLock).
StagingHasOneWriter ==
    \A i \in Procs : Writing(i) =>
        /\ installLock[Here(i)] = i
        /\ staging[Here(i)][proc[i].file].complete = "absent"
        /\ staging[Here(i)][proc[i].file].part.size = proc[i].size

\* While nobody removes the pack and the disk is sound, a progress record that
\* says complete lies beside all of the verified files, after any number of
\* stopped and failed attempts that share its operation ID.
CompleteIsWhole ==
    events.removals = 0 /\ events.rots = 0 =>
        \A p \in Packs : Record(p) # None /\ Record(p).state = "complete" =>
            \A f \in Files : FileState(p, f) = "good"

\* A pack in the trash can be restored: its manifest is there before the pack is
\* moved in and stays until the pack has left, wherever a removal or a restore is
\* killed or a step of it raises, and whatever an install makes of the pack's
\* place meanwhile.  Without the manifest _read_entry refuses it for good.  The
\* exception is a removal that Ctrl-C has interrupted: PayloadIsRecoverable.
TrashIsRestorable ==
    events.breaks = 0 => \A e \in Payloads : Restorable(e)

\* An install that is asked for again and again is complete in the end,
\* wherever its earlier attempts were killed, although the first attempt after a
\* kill may fail: that failure ends the operation and the next one starts anew
\* (_install_locked, PackProgressStore.start).
RetriedInstallSucceeds ==
    \A p \in Packs : <>[](~ Broken(p))

(***************************************************************************)
(* Statements of the code's texts that the code does not keep.             *)
(***************************************************************************)
\* "A durable progress record can therefore be resumed by the next owner"
\* (PackInstallLock): the first bytes a resumed install reports are accepted.
ResumedProgressIsAccepted ==
    \A i \in Procs :
        proc[i].pc = "update" /\ Record(Here(i)) # None
        /\ Record(Here(i)).op = proc[i].op =>
            Record(Here(i)).bytes[proc[i].file] <= proc[i].size

\* "Hold one pack's entire install transaction across processes"
\* (PackInstallLock): a record that says complete has every file beside it
\* also when the pack is removed and restored meanwhile.
CompleteMeansInstalled ==
    events.rots = 0 =>
        \A p \in Packs : Record(p) # None /\ Record(p).state = "complete" =>
            \A f \in Files : FileState(p, f) = "good"

\* "Pack moved to recoverable managed trash" (ManagedModelPacks.remove): what
\* lies in the trash has the manifest restore asks for.  A removal that Ctrl-C
\* interrupts after the move refutes it, when an install has made the directory
\* again: the handler leaves the pack and unlinks the manifest.
PayloadIsRecoverable ==
    \A e \in Payloads : trash[e].manifest

\* "Registry states plus recoverable-trash receipts" (PackListReport): while no
\* operation is at work, list() does not raise.  A kill between the steps of a
\* removal or a restore refutes it, and so does a restore whose rmdir raises.
TrashIsListable ==
    trashLock = None => \A e \in TrashIds : trash[e] # None => trash[e].manifest

\* "Refusing to overwrite unverified managed file" (_install_locked): a damaged
\* file in a pack's directory is left alone.
DamagedFileIsLeftAlone ==
    [][\A p \in Packs, f \in Files :
          FileState(p, f) = "bad" => FileState(p, f)' # "good"]_vars

\* "Restart that one artifact" (_download_with_progress): an install that fetches
\* a file again can use the network.
PartCanBeFetched ==
    \A p \in Packs, f \in Files : staging[p][f].part.size <= Chunks

-----------------------------------------------------------------------------
(***************************************************************************)
(* The inductive invariant behind PacksTypeOK, OnlyVerifiedIsInstalled,    *)
(* CompleteIsWhole, TrashIsRestorable and VerifiedBytesAreKept: what       *)
(* the locks guarantee to the process at each place.                       *)
(***************************************************************************)
AtTrash == Moving \cup Restoring

\* It has the install locks of its pack and of the packs it will return to.
HoldsPacks(i) ==
    LET l == proc[i] IN
    /\ installLock[l.pack] = i
    /\ \A k \in 1..Len(l.outer) :
          installLock[l.outer[k].pack] = i /\ l.outer[k].pack # l.pack
    /\ \A k, m \in 1..Len(l.outer) : l.outer[k].pack = l.outer[m].pack => k = m

OperationIsRight(i) ==
    LET l == proc[i] IN
    /\ l.pc \in {"start", "startWrite"} \cup Trying \cup Failing => l.op \in Ops
    /\ l.pc = "startWrite" => l.next \in Progress /\ l.next.state = "pending"
    /\ l.pc = "updateWrite" => l.next \in Progress /\ l.next.state = "transferring"
    /\ l.pc = "completeWrite" => l.next \in Progress /\ l.next.state = "complete"
    /\ l.pc = "failedWrite" => l.next \in Progress /\ l.next.state = "failed"

\* The files before the current one are installed, as long as nobody has taken or
\* damaged one.
FileIsRight(i) ==
    LET l == proc[i] IN
    /\ l.pc \in Early => l.file = 1
    /\ l.pc \in {"copy", "publish", "update", "updateWrite"} => l.file \in Files
    /\ l.pc = "completeWrite" => l.file = NFiles + 1
    /\ l.pc = "copy" => l.source # "none"
    /\ Writing(i) => staging[l.pack][l.file].complete = "absent"
    /\ l.pc = "publish" => staging[l.pack][l.file].complete = "good"
    /\ events.removals = 0 /\ events.rots = 0 =>
          /\ l.pc \in Trying =>
                \A f \in Files : f < l.file => FileState(l.pack, f) = "good"
          /\ l.pc \in {"update", "updateWrite"} /\ l.source = "none" =>
                FileState(l.pack, l.file) = "good"

EntryIsRight(i) ==
    LET l == proc[i] IN
    l.pc \in AtTrash =>
        /\ trashLock = i
        /\ l.entry \in TrashIds /\ trash[l.entry] # None
        /\ trash[l.entry].pack = l.pack
        /\ l.pc \in {"manifest", "move", "forget", "rmdir"} => trash[l.entry].payload = None
        /\ l.pc = "move" => trash[l.entry].manifest
        /\ l.pc \in {"moved", "restore"} => Restorable(l.entry)
        /\ l.pc = "rollback" /\ events.breaks = 0 => trash[l.entry].payload = None

PlaceIsRight(i) ==
    /\ proc[i].pc # "idle" => proc[i].pack \in Packs
    /\ proc[i].pc \in Installing => HoldsPacks(i)
    /\ OperationIsRight(i) /\ FileIsRight(i) /\ EntryIsRight(i)

TrashInv ==
    /\ events.breaks <= events.stops
    /\ events.removals = 0 => \A e \in TrashIds : trash[e] = None
    /\ TrashIsRestorable

PacksInv ==
    /\ PacksTypeOK
    /\ IsFiniteSet(Damaged) /\ OnlyVerifiedIsInstalled
    /\ CompleteIsWhole
    /\ TrashInv
    /\ \A i \in Procs : PlaceIsRight(i)

=============================================================================
