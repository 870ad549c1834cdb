-------------------------- MODULE ModelPacksProofs --------------------------
(***************************************************************************)
(* Machine-checked proofs about ModelPacks, for every set of processes,    *)
(* packs and dependencies, every number of files and chunks and every      *)
(* bound on the events: type correctness, that only verified files get     *)
(* into a pack or the trash, that a complete record lies beside a whole    *)
(* pack, that a pack in the trash is restorable, and that verified bytes   *)
(* are kept.                                                               *)
(***************************************************************************)
EXTENDS ModelPacksProperties, FiniteSetTheorems, SequenceTheorems, TLAPS

LEMMA NoneIsNothing ==
    /\ None \notin Procs /\ None \notin Packs /\ None \notin Ops /\ None \notin TrashIds
    /\ None \notin Progress /\ None \notin Contents /\ None \notin Entries
BY NoneAssumption, NoneIsNoRecord

LEMMA FilesAreNat ==
    /\ NFiles \in Nat /\ Chunks \in Nat /\ NFiles # 0 /\ Chunks # 0
    /\ Files \subseteq Nat /\ \A f \in Files : f >= 1 /\ f <= NFiles
    /\ \A f \in Files : f \in 1..(NFiles + 1) /\ f + 1 \in 1..(NFiles + 1)
    /\ \A f \in 1..(NFiles + 1) : f \notin Files => f = NFiles + 1
BY CountAssumption DEF Files

\* The installs a process will return to.
Frames == [pack : Packs, todo : SUBSET Packs]

\* What is known of a process and of its place before a step.
LEMMA Known ==
    ASSUME PacksInv, NEW i \in Procs
    PROVE  LET l == proc[i] IN
           /\ PacksTypeOK /\ i # None
           /\ proc \in [Procs -> Locals] /\ l \in Locals
           /\ l.pack \in Packs \cup {None} /\ l.todo \in SUBSET Packs
           /\ l.outer \in Seq(Frames)
           /\ l.op \in Ops \cup {None} /\ l.file \in 1..(NFiles + 1)
           /\ l.size \in 0..Chunks /\ l.source \in {"none", "offline", "network"}
           /\ l.next \in Progress \cup {None} /\ l.entry \in TrashIds \cup {None}
           /\ PlaceIsRight(i) /\ OperationIsRight(i) /\ FileIsRight(i) /\ EntryIsRight(i)
           /\ l.pc # "idle" => l.pack \in Packs
           /\ l.pc \in Installing => HoldsPacks(i) /\ installLock[l.pack] = i
<1>1. proc \in [Procs -> Locals] /\ proc[i] \in Locals /\ PacksTypeOK /\ PlaceIsRight(i)
  BY DEF PacksInv, PacksTypeOK
<1> QED
  BY <1>1, NoneIsNothing DEF Locals, Frames, PlaceIsRight, HoldsPacks

LEMMA EventTypes ==
    ASSUME PacksTypeOK
    PROVE  /\ events \in EventCounts /\ events.removals \in 0..MaxRemovals
           /\ events.removals \in Nat /\ events.stops \in Nat
           /\ events.breaks \in Nat /\ events.rots \in Nat
BY BoundsAssumption DEF PacksTypeOK, EventCounts

\* What a directory holds, and what the next writer makes of it.
LEMMA DirFacts ==
    ASSUME PacksTypeOK, NEW p \in Packs
    PROVE  /\ dir[p] \in Contents \cup {None}
           /\ Made(p) \in Contents
           /\ \A f \in Files : /\ FileState(p, f) \in {"absent", "good", "bad"}
                               /\ Made(p).files[f] = FileState(p, f)
           /\ Made(p).progress = Record(p)
           /\ Record(p) \in Progress \cup {None}
<1>1. dir[p] \in Contents \cup {None}
  BY DEF PacksTypeOK
<1>2. Empty \in Contents /\ Empty.progress = None /\ \A f \in Files : Empty.files[f] = "absent"
  BY DEF Empty, Contents
<1>3. CASE dir[p] = None
  BY <1>2, <1>3 DEF Made, FileState, Record
<1>4. CASE dir[p] # None
  <2>1. dir[p] \in Contents
    BY <1>1, <1>4
  <2> QED
    BY <1>4, <2>1 DEF Made, FileState, Record, Contents
<1> QED
  BY <1>1, <1>3, <1>4

\* A new directory, read back.
LEMMA NewDir ==
    ASSUME PacksTypeOK, NEW p \in Packs, NEW c \in Contents, dir' = [dir EXCEPT ![p] = c]
    PROVE  /\ dir' \in [Packs -> Contents \cup {None}]
           /\ \A f \in Files : FileState(p, f)' = c.files[f]
           /\ Record(p)' = c.progress
           /\ \A q \in Packs \ {p} : /\ Record(q)' = Record(q)
                                     /\ \A f \in Files : FileState(q, f)' = FileState(q, f)
<1>1. dir' \in [Packs -> Contents \cup {None}] /\ dir'[p] = c /\ c # None
      /\ \A q \in Packs \ {p} : dir'[q] = dir[q]
  BY NoneIsNothing DEF PacksTypeOK
<1> QED
  BY <1>1 DEF FileState, Record

LEMMA NewStaging ==
    ASSUME PacksTypeOK, NEW p \in Packs, NEW f \in Files, NEW s \in Staged, Stage(p, f, s)
    PROVE  /\ staging' \in [Packs -> [Files -> Staged]] /\ staging'[p][f] = s
           /\ \A q \in Packs, g \in Files :
                 q # p \/ g # f => staging'[q][g] = staging[q][g]
           /\ \A q \in Packs \ {p} : staging'[q] = staging[q]
BY DEF PacksTypeOK, Stage

LEMMA StagedFacts ==
    ASSUME PacksTypeOK, NEW p \in Packs, NEW f \in Files
    PROVE  /\ staging[p][f] \in Staged
           /\ staging[p][f].complete \in {"absent", "good", "bad"}
           /\ staging[p][f].part \in [size : 0..(Chunks + 1), good : BOOLEAN]
           /\ staging[p][f].part.size \in 0..(Chunks + 1)
           /\ staging[p][f].part.good \in BOOLEAN
<1>1. staging[p][f] \in Staged
  BY DEF PacksTypeOK
<1> QED
  BY <1>1 DEF Staged

(***************************************************************************)
(* A step of one process leaves the places of the others alone.            *)
(***************************************************************************)
Respects(i) ==
    /\ \A p \in Packs : \A j \in Procs \ {i} : installLock[p] = j => installLock'[p] = j
    /\ \A j \in Procs \ {i} : trashLock = j => trashLock' = j
    /\ \A p \in Packs : staging'[p] = staging[p] \/ installLock[p] = i
    /\ trash' = trash \/ trashLock \in {None, i}
    /\ events'.removals = 0 => events.removals = 0
    /\ events'.breaks = 0 => events.breaks = 0
    /\ events'.rots = 0 => events.rots = 0
    /\ events'.removals = 0 /\ events'.rots = 0 =>
          \A p \in Packs, f \in Files : FileState(p, f) = "good" => FileState(p, f)' = "good"

LEMMA OthersStay ==
    ASSUME PacksInv, NEW i \in Procs \cup {None}, NEW j \in Procs, j # i,
           proc'[j] = proc[j], Respects(i)
    PROVE  PlaceIsRight(j)'
<1>1. PlaceIsRight(j) /\ j # None
  BY Known
<1>2. proc'[j].pc \in Installing => HoldsPacks(j)'
  <2>1. \A k \in 1..Len(proc[j].outer) : proc[j].outer[k].pack \in Packs
    <3>1. proc[j].outer \in Seq(Frames)
      BY Known
    <3>2. \A k \in 1..Len(proc[j].outer) : proc[j].outer[k] \in Frames
      BY <3>1, ElementOfSeq
    <3> QED
      BY <3>2 DEF Frames
  <2>2. proc[j].pc \in Installing => HoldsPacks(j) /\ proc[j].pack \in Packs
    BY <1>1, Known DEF PlaceIsRight, Installing, Early, Trying, Failing
  <2> QED
    BY <2>1, <2>2 DEF HoldsPacks, Respects
<1>3. OperationIsRight(j)'
  BY <1>1 DEF PlaceIsRight, OperationIsRight
<1>4. FileIsRight(j)'
  <2>1. \/ proc[j].pc \in Trying
        \/ proc[j].pc \notin {"copy", "publish", "update", "updateWrite", "completeWrite"}
    BY DEF Trying
  <2>2. CASE proc[j].pc \in Trying
    <3>1. /\ proc[j].pack \in Packs /\ proc[j].file \in 1..(NFiles + 1)
          /\ FileIsRight(j)
      BY <2>2, Known DEF Trying
    <3>2. staging'[proc[j].pack] = staging[proc[j].pack]
      <4>1. installLock[proc[j].pack] = j
        BY <2>2, Known DEF Installing
      <4> QED
        BY <3>1, <4>1 DEF Respects
    <3>3. Writing(j)' <=> Writing(j)
      BY DEF Writing
    <3>4. events'.removals = 0 /\ events'.rots = 0 =>
             /\ events.removals = 0 /\ events.rots = 0
             /\ \A p \in Packs, f \in Files : FileState(p, f) = "good" =>
                                              FileState(p, f)' = "good"
      BY DEF Respects
    <3>5. events'.removals = 0 /\ events'.rots = 0 =>
             \A f \in Files : FileState(proc[j].pack, f) = "good" =>
                              FileState(proc[j].pack, f)' = "good"
      BY <3>1, <3>4 DEF FileState
    <3>6. proc[j].pc \in {"update", "updateWrite"} => proc[j].file \in Files
      BY <3>1 DEF FileIsRight
    <3> QED
      BY <2>2, <3>1, <3>2, <3>3, <3>4, <3>5, <3>6 DEF FileIsRight, FileState
  <2>3. CASE proc[j].pc \notin Trying
    BY <1>1, <2>1, <2>3 DEF PlaceIsRight, FileIsRight, Writing, Trying
  <2> QED
    BY <2>2, <2>3
<1>5. EntryIsRight(j)'
  <2>1. EntryIsRight(j)
    BY <1>1 DEF PlaceIsRight
  <2>2. proc[j].pc \in AtTrash => trashLock = j /\ trashLock' = j /\ trash' = trash
    BY <1>1, <2>1 DEF EntryIsRight, Respects
  <2> QED
    BY <2>1, <2>2 DEF EntryIsRight, Respects, Restorable
<1> QED
  BY <1>1, <1>2, <1>3, <1>4, <1>5 DEF PlaceIsRight

\* What a step of i has to establish.
LEMMA PackStep ==
    ASSUME PacksInv, NEW i \in Procs, NEW l \in Locals, Become(i, l),
           dir' \in [Packs -> Contents \cup {None}],
           staging' \in [Packs -> [Files -> Staged]],
           trash' \in [TrashIds -> Entries \cup {None}],
           installLock' \in [Packs -> Procs \cup {None}],
           trashLock' \in Procs \cup {None},
           events' \in EventCounts,
           Respects(i), PlaceIsRight(i)',
           IsFiniteSet(Damaged'), Cardinality(Damaged') <= events'.rots,
           CompleteIsWhole', TrashInv'
    PROVE  PacksInv'
<1>1. proc' \in [Procs -> Locals] /\ \A j \in Procs \ {i} : proc'[j] = proc[j]
  BY Known DEF Become
<1>2. \A j \in Procs \ {i} : PlaceIsRight(j)'
  BY <1>1, OthersStay
<1> QED
  BY <1>1, <1>2 DEF PacksInv, PacksTypeOK, OnlyVerifiedIsInstalled

\* The locks are only ever taken from nobody, and given back.
OwnLocks(i) ==
    /\ installLock' \in [Packs -> Procs \cup {None}]
    /\ \A p \in Packs : \/ installLock'[p] = installLock[p]
                        \/ installLock[p] \in {None, i} /\ installLock'[p] \in {None, i}
    /\ trashLock' \in Procs \cup {None}
    /\ trashLock' = trashLock \/ trashLock \in {None, i}

LEMMA StopsAreCounted ==
    ASSUME PacksInv, Stops \/ Breaks
    PROVE  /\ events' \in EventCounts
           /\ events'.removals = events.removals /\ events'.rots = events.rots
           /\ events'.breaks = 0 => events.breaks = 0
           /\ events'.breaks <= events'.stops
           /\ Breaks => events'.breaks # 0
<1>1. /\ events \in EventCounts /\ events.stops \in Nat /\ events.breaks \in Nat
      /\ MaxStops \in Nat /\ events.breaks <= events.stops /\ events.stops < MaxStops
  BY EventTypes, BoundsAssumption DEF PacksInv, TrashInv, Stops, Breaks, MayStop
<1>2. /\ events.stops + 1 \in 0..MaxStops /\ events.breaks + 1 \in 0..MaxStops
      /\ events.breaks <= events.stops + 1 /\ events.breaks + 1 <= events.stops + 1
      /\ events.breaks + 1 # 0
  BY <1>1
<1>3. CASE Stops
  BY <1>1, <1>2, <1>3 DEF Stops, Breaks, EventCounts
<1>4. CASE Breaks
  BY <1>1, <1>2, <1>4 DEF Breaks, EventCounts
<1> QED
  BY <1>3, <1>4

\* A step that leaves the packs and the trash as they are.
LEMMA PrivateStep ==
    ASSUME PacksInv, NEW i \in Procs, NEW l \in Locals, Become(i, l),
           UNCHANGED <<dir, trash>>, OwnLocks(i),
           staging' \in [Packs -> [Files -> Staged]],
           \A p \in Packs : staging'[p] = staging[p] \/ installLock[p] = i,
           events' = events \/ Stops \/ Breaks,
           PlaceIsRight(i)'
    PROVE  PacksInv'
<1>1. PacksTypeOK /\ proc \in [Procs -> Locals] /\ i # None /\ TrashInv
  BY Known DEF PacksInv
<1>2. /\ events' \in EventCounts
      /\ events'.removals = events.removals /\ events'.rots = events.rots
      /\ events'.breaks = 0 => events.breaks = 0
      /\ events'.breaks <= events'.stops
  <2>1. CASE events' = events
    BY <1>1, <2>1 DEF PacksTypeOK, TrashInv
  <2>2. CASE Stops \/ Breaks
    BY <2>2, StopsAreCounted
  <2> QED
    BY <2>1, <2>2
<1>3. \A p \in Packs, f \in Files : FileState(p, f)' = FileState(p, f)
  BY DEF FileState
<1>4. Respects(i)
  BY <1>1, <1>2, <1>3, NoneIsNothing DEF Respects, OwnLocks
<1>5. Damaged' = Damaged
  BY <1>3 DEF Damaged, Payloads, FileState
<1>6. CompleteIsWhole'
  BY <1>2 DEF CompleteIsWhole, Record, FileState, PacksInv
<1>7. TrashInv'
  BY <1>1, <1>2 DEF TrashInv, TrashIsRestorable, Payloads, Restorable
<1> QED
  BY <1>1, <1>2, <1>4, <1>5, <1>6, <1>7, PackStep
  DEF PacksTypeOK, OwnLocks, PacksInv, OnlyVerifiedIsInstalled

\* A step of an installer that writes below the pack's directory.
LEMMA DirStep ==
    ASSUME PacksInv, NEW i \in Procs, NEW l \in Locals, Become(i, l),
           NEW p \in Packs, NEW c \in Contents, dir' = [dir EXCEPT ![p] = c],
           UNCHANGED <<trash, trashLock, events>>, OwnLocks(i),
           staging' \in [Packs -> [Files -> Staged]],
           \A q \in Packs : staging'[q] = staging[q] \/ installLock[q] = i,
           proc[i].pc \notin AtTrash,
           \A f \in Files : c.files[f] \in {FileState(p, f), "good"},
           events.removals = 0 /\ events.rots = 0 /\ c.progress # None
              /\ c.progress.state = "complete" => \A f \in Files : c.files[f] = "good",
           PlaceIsRight(i)'
    PROVE  PacksInv'
<1>1. PacksTypeOK /\ proc \in [Procs -> Locals] /\ i # None
  BY Known
<1>2. /\ dir' \in [Packs -> Contents \cup {None}]
      /\ \A f \in Files : FileState(p, f)' = c.files[f]
      /\ Record(p)' = c.progress
      /\ \A q \in Packs \ {p} : /\ Record(q)' = Record(q)
                                /\ \A f \in Files : FileState(q, f)' = FileState(q, f)
  BY <1>1, NewDir
<1>3. \A q \in Packs, f \in Files : FileState(q, f)' \in {FileState(q, f), "good"}
  BY <1>2
<1>4. Respects(i)
  BY <1>1, <1>3, NoneIsNothing DEF Respects, OwnLocks
<1>5. Damaged' \subseteq Damaged
  BY <1>3 DEF Damaged, Payloads
<1>6. IsFiniteSet(Damaged') /\ Cardinality(Damaged') <= events.rots
  <2>1. /\ IsFiniteSet(Damaged) /\ Cardinality(Damaged) <= events.rots
    BY DEF PacksInv, OnlyVerifiedIsInstalled
  <2>2. /\ IsFiniteSet(Damaged') /\ Cardinality(Damaged') <= Cardinality(Damaged)
    BY <1>5, <2>1, FS_Subset
  <2> QED
    BY <1>1, <2>1, <2>2, FS_CardinalityType, EventTypes
<1>7. CompleteIsWhole'
  BY <1>2 DEF CompleteIsWhole, PacksInv
<1>8. TrashInv'
  BY DEF TrashInv, TrashIsRestorable, Payloads, Restorable, PacksInv
<1> QED
  BY <1>1, <1>2, <1>4, <1>6, <1>7, <1>8, PackStep DEF PacksTypeOK, OwnLocks

(***************************************************************************)
(* Where a step leads its process.                                         *)
(***************************************************************************)
LEMMA Becomes ==
    ASSUME PacksInv, NEW i \in Procs, NEW l, Become(i, l)
    PROVE  proc'[i] = l
BY Known DEF Become

LEMMA IdleType ==
    /\ Idle \in Locals /\ Idle.pc = "idle" /\ Idle.pack = None /\ Idle.op = None
    /\ Idle.outer = <<>> /\ Idle.file = 1 /\ Idle.next = None /\ Idle.entry = None
    /\ Idle.size = 0 /\ Idle.source = "none" /\ Idle.todo = {}
<1>1. <<>> \in Seq([pack : Packs, todo : SUBSET Packs])
  BY EmptySeq
<1> QED
  BY <1>1, FilesAreNat DEF Idle, Locals

LEMMA IdlePlace ==
    ASSUME PacksInv, NEW i \in Procs, Become(i, Idle)
    PROVE  PlaceIsRight(i)'
<1>1. proc'[i] = Idle /\ Idle.pc = "idle"
  BY Becomes, IdleType
<1> QED
  BY <1>1
  DEF PlaceIsRight, OperationIsRight, FileIsRight, EntryIsRight, Writing, AtTrash, Moving,
      Restoring, Installing, Early, Trying, Failing

LEMMA AbortFacts ==
    ASSUME PacksInv, NEW i \in Procs, Abort(i)
    PROVE  /\ Become(i, Idle) /\ Idle \in Locals /\ PlaceIsRight(i)'
           /\ UNCHANGED trashLock => OwnLocks(i)
<1>1. Become(i, Idle) /\ Idle \in Locals
  BY IdleType DEF Abort
<1> QED
  BY <1>1, Known, IdlePlace DEF Abort, OwnLocks, PacksTypeOK

\* An installer that keeps its pack and its locks.
LEMMA InstallPlace ==
    ASSUME PacksInv, NEW i \in Procs, proc[i].pc \in Installing, NEW l \in Locals, Become(i, l),
           l.pc \in Installing, l.pack = proc[i].pack, l.outer \in {proc[i].outer, <<>>},
           installLock' = installLock, OperationIsRight(i)', FileIsRight(i)'
    PROVE  PlaceIsRight(i)'
<1>1. proc'[i] = l /\ HoldsPacks(i) /\ l.pack \in Packs
  BY Becomes, Known DEF Installing, Early, Trying, Failing
<1>2. HoldsPacks(i)'
  <2>1. CASE l.outer = proc[i].outer
    BY <1>1, <2>1 DEF HoldsPacks
  <2>2. CASE l.outer = <<>>
    BY <1>1, <2>2 DEF HoldsPacks
  <2> QED
    BY <2>1, <2>2
<1>3. EntryIsRight(i)'
  BY <1>1 DEF EntryIsRight, AtTrash, Moving, Restoring, Installing, Early, Trying, Failing
<1> QED
  BY <1>1, <1>2, <1>3 DEF PlaceIsRight

\* The exception handler is next.
LEMMA RaiseFacts ==
    ASSUME PacksInv, NEW i \in Procs, proc[i].pc \in Trying, Raise(i), installLock' = installLock
    PROVE  /\ \E l \in Locals : Become(i, l) /\ PlaceIsRight(i)'
           /\ UNCHANGED trashLock => OwnLocks(i)
<1> DEFINE l == [Idle EXCEPT !.pc = "failed", !.pack = proc[i].pack, !.op = proc[i].op]
<1>1. Become(i, l)
  BY DEF Raise
<1>2. proc[i].pack \in Packs /\ proc[i].op \in Ops
  BY Known DEF OperationIsRight, Trying
<1>3. /\ l \in Locals /\ l.pc = "failed" /\ l.pack = proc[i].pack /\ l.op = proc[i].op
      /\ l.outer = <<>>
  BY <1>2, IdleType DEF Locals, Installing, Failing
<1> HIDE DEF l
<1>4. proc'[i] = l
  BY <1>1, Becomes
<1>5. OperationIsRight(i)' /\ FileIsRight(i)'
  BY <1>2, <1>3, <1>4 DEF OperationIsRight, FileIsRight, Writing, Trying, Early
<1>6. PlaceIsRight(i)'
  BY <1>1, <1>3, <1>5, InstallPlace DEF Installing, Failing
<1> QED
  BY <1>1, <1>3, <1>6, Known DEF OwnLocks, PacksTypeOK

\* Back to the pack that needs this one, or to nothing.
LEMMA ReturnFacts ==
    ASSUME PacksInv, NEW i \in Procs, proc[i].pc \in Installing, Return(i)
    PROVE  /\ \E l \in Locals : Become(i, l) /\ PlaceIsRight(i)'
           /\ UNCHANGED trashLock => OwnLocks(i)
<1>1. /\ proc[i].pack \in Packs /\ HoldsPacks(i) /\ proc[i].outer \in Seq(Frames)
      /\ PacksTypeOK /\ i # None
  BY Known DEF Installing, Early, Trying, Failing
<1>2. installLock' = [installLock EXCEPT ![proc[i].pack] = None]
  BY DEF Return
<1>3. UNCHANGED trashLock => OwnLocks(i)
  BY <1>1, <1>2 DEF OwnLocks, PacksTypeOK, HoldsPacks
<1>4. CASE proc[i].outer = <<>>
  BY <1>3, <1>4, IdleType, IdlePlace DEF Return
<1>5. CASE proc[i].outer # <<>>
  <2> DEFINE h == Head(proc[i].outer)
             t == Tail(proc[i].outer)
             l == [Idle EXCEPT !.pc = "dependencies", !.pack = h.pack, !.todo = h.todo,
                               !.outer = t]
  <2>1. Become(i, l)
    BY <1>5 DEF Return
  <2>2. /\ h \in Frames /\ t \in Seq(Frames) /\ Len(proc[i].outer) \in Nat
        /\ Len(t) = Len(proc[i].outer) - 1 /\ Len(proc[i].outer) # 0
        /\ \A k \in 1..Len(t) : t[k] = proc[i].outer[k + 1]
        /\ h = proc[i].outer[1]
    BY <1>1, <1>5, HeadTailProperties, EmptySeq, LenProperties
  <2> HIDE DEF h, t
  <2>3. h.pack \in Packs /\ h.todo \in SUBSET Packs
    BY <2>2 DEF Frames
  <2>4. /\ l \in Locals /\ l.pc = "dependencies" /\ l.pack = h.pack /\ l.outer = t
        /\ l.file = 1
    <3>1. t \in Seq([pack : Packs, todo : SUBSET Packs])
      BY <2>2 DEF Frames
    <3>2. Idle \in Locals
      BY IdleType
    <3>3. "dependencies" \in {"idle", "remove"} \cup Installing \cup Moving \cup Restoring
      BY DEF Installing, Early
    <3>4. l \in Locals
      BY <2>3, <3>1, <3>2, <3>3 DEF Locals
    <3> QED
      BY <3>2, <3>4, IdleType DEF Locals
  <2> HIDE DEF l
  <2>5. proc'[i] = l
    BY <2>1, Becomes
  <2>6. 1 \in 1..Len(proc[i].outer)
        /\ \A k \in 1..Len(t) : k + 1 \in 1..Len(proc[i].outer) /\ k + 1 # 1
    BY <2>2
  <2>7. /\ installLock[h.pack] = i /\ h.pack # proc[i].pack
        /\ \A k \in 1..Len(t) : /\ installLock[t[k].pack] = i
                                 /\ t[k].pack # proc[i].pack /\ t[k].pack # h.pack
    <3>1. /\ \A k \in 1..Len(proc[i].outer) : /\ installLock[proc[i].outer[k].pack] = i
                                              /\ proc[i].outer[k].pack # proc[i].pack
          /\ \A k, m \in 1..Len(proc[i].outer) :
                proc[i].outer[k].pack = proc[i].outer[m].pack => k = m
      BY <1>1 DEF HoldsPacks
    <3>2. installLock[h.pack] = i /\ h.pack # proc[i].pack
      BY <2>2, <2>6, <3>1
    <3>3. ASSUME NEW k \in 1..Len(t)
          PROVE  /\ installLock[t[k].pack] = i
                 /\ t[k].pack # proc[i].pack /\ t[k].pack # h.pack
      <4>1. /\ t[k] = proc[i].outer[k + 1] /\ h = proc[i].outer[1]
            /\ k + 1 \in 1..Len(proc[i].outer) /\ 1 \in 1..Len(proc[i].outer) /\ k + 1 # 1
        BY <2>2, <2>6
      <4> QED
        BY <3>1, <4>1
    <3> QED
      BY <3>2, <3>3
  <2>8. \A k, m \in 1..Len(t) : t[k].pack = t[m].pack => k = m
    <3>1. ASSUME NEW k \in 1..Len(t), NEW m \in 1..Len(t), t[k].pack = t[m].pack
          PROVE  k = m
      <4>1. k + 1 \in 1..Len(proc[i].outer) /\ m + 1 \in 1..Len(proc[i].outer)
        BY <2>6
      <4>2. proc[i].outer[k + 1].pack = proc[i].outer[m + 1].pack
        BY <2>2, <3>1
      <4>3. k + 1 = m + 1
        BY <1>1, <4>1, <4>2 DEF HoldsPacks
      <4> QED
        BY <4>3
    <3> QED
      BY <3>1
  <2>9. \A p \in Packs : p # proc[i].pack => installLock'[p] = installLock[p]
    BY <1>1, <1>2 DEF PacksTypeOK
  <2>10. \A k \in 1..Len(t) : t[k].pack \in Packs
    <3>1. \A k \in 1..Len(t) : t[k] \in Frames
      BY <2>2, ElementOfSeq
    <3> QED
      BY <3>1 DEF Frames
  <2>11. HoldsPacks(i)'
    BY <2>3, <2>4, <2>5, <2>7, <2>8, <2>9, <2>10 DEF HoldsPacks
  <2>12. PlaceIsRight(i)'
    BY <2>3, <2>4, <2>5, <2>11
    DEF PlaceIsRight, OperationIsRight, FileIsRight, EntryIsRight, Writing, AtTrash, Moving,
        Restoring, Trying, Failing
  <2> QED
    BY <1>3, <2>1, <2>4, <2>12
<1> QED
  BY <1>4, <1>5

(***************************************************************************)
(* install, up to its operation.                                           *)
(***************************************************************************)
\* A step that touches locks and locals only.
LEMMA QuietStep ==
    ASSUME PacksInv, NEW i \in Procs, NEW l \in Locals, Become(i, l),
           UNCHANGED <<dir, staging, trash, trashLock, events>>, OwnLocks(i),
           proc[i].pc \notin AtTrash, PlaceIsRight(i)'
    PROVE  PacksInv'
<1>1. staging' \in [Packs -> [Files -> Staged]] /\ \A p \in Packs : staging'[p] = staging[p]
  BY Known DEF PacksTypeOK
<1> QED
  BY <1>1, PrivateStep

\* The locks a step without locks leaves alone.
LEMMA SameLocks ==
    ASSUME PacksInv, NEW i \in Procs, UNCHANGED <<installLock, trashLock>>
    PROVE  OwnLocks(i)
BY Known DEF OwnLocks, PacksTypeOK

LEMMA InstallingPc ==
    /\ \A pc \in Installing : /\ pc \notin AtTrash /\ pc # "idle" /\ pc # "remove"
                              /\ pc \in {"idle", "remove"} \cup Installing \cup Moving \cup Restoring
    /\ Early \subseteq Installing /\ Trying \subseteq Installing /\ Failing \subseteq Installing
BY DEF Installing, AtTrash, Early, Trying, Failing, Moving, Restoring

LEMMA BeginInstallSafe ==
    ASSUME PacksInv, NEW i \in Procs, NEW p \in Packs, BeginInstall(i, p)
    PROVE  PacksInv'
<1> DEFINE l == [Idle EXCEPT !.pc = "inspect", !.pack = p]
<1>1. /\ Become(i, l) /\ proc[i].pc = "idle" /\ installLock[p] = None
      /\ installLock' = [installLock EXCEPT ![p] = i]
      /\ UNCHANGED <<dir, staging, trash, trashLock, events>>
  BY DEF BeginInstall
<1>2. /\ l \in Locals /\ l.pc = "inspect" /\ l.pack = p /\ l.outer = <<>>
      /\ l.source = "none" /\ l.file = 1
  BY IdleType DEF Locals, Installing, Early
<1> HIDE DEF l
<1>3. proc'[i] = l
  BY <1>1, Becomes
<1>4. PacksTypeOK /\ i # None
  BY Known
<1>5. OwnLocks(i) /\ installLock'[p] = i
  BY <1>1, <1>4 DEF OwnLocks, PacksTypeOK
<1>6. HoldsPacks(i)'
  BY <1>2, <1>3, <1>5 DEF HoldsPacks
<1>7. PlaceIsRight(i)'
  BY <1>2, <1>3, <1>6
  DEF PlaceIsRight, OperationIsRight, FileIsRight, EntryIsRight, Writing, AtTrash, Moving,
      Restoring, Trying, Failing
<1> QED
  BY <1>1, <1>2, <1>5, <1>7, QuietStep DEF AtTrash, Moving, Restoring

\* An early place asks nothing but the locks.
LEMMA EarlyPlace ==
    ASSUME PacksInv, NEW i \in Procs, proc[i].pc \in Early, NEW l \in Locals, Become(i, l),
           l.pc \in {"inspect", "dependencies", "load"}, l.pack = proc[i].pack,
           l.file = proc[i].file,
           l.outer = proc[i].outer, installLock' = installLock
    PROVE  PlaceIsRight(i)'
<1>1. proc'[i] = l
  BY Becomes
<1>2. proc[i].file = 1
  BY Known DEF FileIsRight
<1>3. OperationIsRight(i)' /\ FileIsRight(i)'
  BY <1>1, <1>2 DEF OperationIsRight, FileIsRight, Writing, Trying, Failing
<1> QED
  BY <1>3, InstallPlace DEF Installing, Early

LEMMA InspectSafe ==
    ASSUME PacksInv, NEW i \in Procs, Inspect(i)
    PROVE  PacksInv'
<1>1. /\ proc[i].pc = "inspect" /\ proc[i].pc \in Early /\ proc[i].pc \in Installing
      /\ proc[i].pc \notin AtTrash
      /\ UNCHANGED <<dir, staging, trash, trashLock, events>>
  BY DEF Inspect, Installing, Early, AtTrash, Moving, Restoring
<1>2. CASE Return(i)
  BY <1>1, <1>2, ReturnFacts, QuietStep
<1>3. CASE ~ Return(i)
  <2> DEFINE l == [proc[i] EXCEPT !.pc = "dependencies", !.todo = Dependencies[Here(i)]]
  <2>1. Become(i, l) /\ installLock' = installLock
    BY <1>3 DEF Inspect
  <2>2. proc[i].pack \in Packs /\ Dependencies[Here(i)] \in SUBSET Packs /\ proc[i] \in Locals
    BY <1>1, Known, DependencyAssumption DEF Here
  <2>3. /\ l \in Locals /\ l.pc = "dependencies" /\ l.pack = proc[i].pack
        /\ l.outer = proc[i].outer /\ l.file = proc[i].file
    BY <2>2 DEF Locals, Installing, Early
  <2> HIDE DEF l
  <2> QED
    BY <1>1, <2>1, <2>3, EarlyPlace, SameLocks, QuietStep
<1> QED
  BY <1>2, <1>3

\* The install of a pack is put on hold for that of a dependency.
LEMMA PushFacts ==
    ASSUME NEW x \in Frames, NEW s \in Seq(Frames)
    PROVE  LET t == <<x>> \o s IN
           /\ t \in Seq(Frames) /\ Len(t) = Len(s) + 1 /\ t[1] = x /\ Len(s) \in Nat
           /\ \A k \in 1..Len(t) : k = 1 \/ (k - 1 \in 1..Len(s) /\ t[k] = s[k - 1])
<1>1. <<x>> \in Seq(Frames) /\ Len(<<x>>) = 1 /\ <<x>>[1] = x
  OBVIOUS
<1>2. Len(s) \in Nat
  BY LenProperties
<1> QED
  BY <1>1, <1>2, ConcatProperties

LEMMA DescendSafe ==
    ASSUME PacksInv, NEW i \in Procs, proc[i].pc = "dependencies", NEW d \in Packs,
           NEW rest \in SUBSET Packs, installLock[d] = None,
           installLock' = [installLock EXCEPT ![d] = i],
           Become(i, [Idle EXCEPT !.pc = "inspect", !.pack = d,
                        !.outer = <<[pack |-> Here(i), todo |-> rest]>> \o proc[i].outer]),
           UNCHANGED <<dir, staging, trash, trashLock, events>>
    PROVE  PacksInv'
<1> DEFINE x == [pack |-> Here(i), todo |-> rest]
           t == <<x>> \o proc[i].outer
           l == [Idle EXCEPT !.pc = "inspect", !.pack = d, !.outer = t]
<1>1. /\ PacksTypeOK /\ i # None /\ HoldsPacks(i) /\ proc[i].pack \in Packs
      /\ proc[i].outer \in Seq(Frames)
  BY Known DEF Installing, Early
<1>2. x \in Frames /\ x.pack = proc[i].pack
  BY <1>1 DEF Frames, Here
<1> HIDE DEF x
<1>3. /\ t \in Seq(Frames) /\ t[1] = x /\ Len(t) \in Nat
      /\ \A k \in 1..Len(t) :
            k = 1 \/ (k - 1 \in 1..Len(proc[i].outer) /\ t[k] = proc[i].outer[k - 1])
  BY <1>1, <1>2, PushFacts
<1>4. Become(i, l)
  BY DEF x
<1> HIDE DEF t
<1>5. l \in Locals /\ l.pc = "inspect" /\ l.pack = d /\ l.outer = t /\ l.file = 1
  <2>1. t \in Seq([pack : Packs, todo : SUBSET Packs]) /\ Idle \in Locals
    BY <1>3, IdleType DEF Frames
  <2>2. l \in Locals
    BY <2>1 DEF Locals, Installing, Early
  <2> QED
    BY <2>1, <2>2, IdleType DEF Locals
<1> HIDE DEF l
<1>6. proc'[i] = l
  BY <1>4, Becomes
<1>7. \A k \in 1..Len(t) : /\ t[k].pack \in Packs /\ installLock[t[k].pack] = i
                           /\ t[k].pack = proc[i].pack => k = 1
  <2>1. ASSUME NEW k \in 1..Len(t)
        PROVE  /\ t[k].pack \in Packs /\ installLock[t[k].pack] = i
               /\ t[k].pack = proc[i].pack => k = 1
    <3>1. t[k] \in Frames
      BY <1>3, ElementOfSeq
    <3>2. t[k].pack \in Packs
      BY <3>1 DEF Frames
    <3>3. CASE k = 1
      BY <1>1, <1>2, <1>3, <3>2, <3>3 DEF HoldsPacks
    <3>4. CASE k # 1
      BY <1>1, <1>3, <3>2, <3>4 DEF HoldsPacks
    <3> QED
      BY <3>3, <3>4
  <2> QED
    BY <2>1
<1>8. \A k, m \in 1..Len(t) : t[k].pack = t[m].pack => k = m
  <2>1. ASSUME NEW k \in 1..Len(t), NEW m \in 1..Len(t), t[k].pack = t[m].pack
        PROVE  k = m
    <3>1. CASE k = 1
      BY <1>2, <1>3, <1>7, <2>1, <3>1
    <3>2. CASE m = 1
      BY <1>2, <1>3, <1>7, <2>1, <3>2
    <3>3. CASE k # 1 /\ m # 1
      <4>1. /\ k - 1 \in 1..Len(proc[i].outer) /\ m - 1 \in 1..Len(proc[i].outer)
            /\ proc[i].outer[k - 1].pack = proc[i].outer[m - 1].pack
        BY <1>3, <2>1, <3>3
      <4>2. k - 1 = m - 1
        BY <1>1, <4>1 DEF HoldsPacks
      <4> QED
        BY <1>3, <4>2
    <3> QED
      BY <3>1, <3>2, <3>3
  <2> QED
    BY <2>1
<1>9. /\ installLock'[d] = i /\ OwnLocks(i)
      /\ \A q \in Packs : q # d => installLock'[q] = installLock[q]
  BY <1>1 DEF OwnLocks, PacksTypeOK
<1>10. \A k \in 1..Len(t) : t[k].pack # d
  BY <1>1, <1>7
<1>11. HoldsPacks(i)'
  BY <1>5, <1>6, <1>7, <1>8, <1>9, <1>10 DEF HoldsPacks
<1>12. PlaceIsRight(i)'
  BY <1>5, <1>6, <1>11
  DEF PlaceIsRight, OperationIsRight, FileIsRight, EntryIsRight, Writing, AtTrash, Moving,
      Restoring, Trying, Failing
<1> QED
  BY <1>4, <1>5, <1>9, <1>12, QuietStep DEF AtTrash, Moving, Restoring

LEMMA InstallDependenciesSafe ==
    ASSUME PacksInv, NEW i \in Procs, InstallDependencies(i)
    PROVE  PacksInv'
<1>1. /\ proc[i].pc = "dependencies" /\ proc[i].pc \in Early /\ proc[i].pc \notin AtTrash
      /\ UNCHANGED <<dir, staging, trash, trashLock, events>>
  BY DEF InstallDependencies, Installing, Early, AtTrash, Moving, Restoring
<1>2. proc[i] \in Locals /\ proc[i].todo \in SUBSET Packs
  BY Known
<1>3. CASE Goto(i, "load") /\ installLock' = installLock
  <2> DEFINE l == [proc[i] EXCEPT !.pc = "load"]
  <2>1. Become(i, l)
    BY <1>3 DEF Goto
  <2>2. l \in Locals /\ l.pc = "load" /\ l.pack = proc[i].pack /\ l.outer = proc[i].outer
        /\ l.file = proc[i].file
    BY <1>2 DEF Locals, Installing, Early
  <2> HIDE DEF l
  <2> QED
    BY <1>1, <1>3, <2>1, <2>2, EarlyPlace, SameLocks, QuietStep
<1>4. ASSUME NEW d \in proc[i].todo,
             Become(i, [proc[i] EXCEPT !.todo = proc[i].todo \ {d}]),
             installLock' = installLock
      PROVE  PacksInv'
  <2> DEFINE l == [proc[i] EXCEPT !.todo = proc[i].todo \ {d}]
  <2>1. Become(i, l)
    BY <1>4
  <2>2. /\ l \in Locals /\ l.pc = "dependencies" /\ l.pack = proc[i].pack
        /\ l.outer = proc[i].outer /\ l.file = proc[i].file
    BY <1>1, <1>2 DEF Locals
  <2> HIDE DEF l
  <2> QED
    BY <1>1, <1>4, <2>1, <2>2, EarlyPlace, SameLocks, QuietStep
<1>5. CASE Abort(i)
  BY <1>1, <1>5, AbortFacts, QuietStep
<1>6. ASSUME NEW d \in proc[i].todo, installLock[d] = None,
             installLock' = [installLock EXCEPT ![d] = i],
             Become(i, [Idle EXCEPT !.pc = "inspect", !.pack = d,
                          !.outer = <<[pack |-> Here(i), todo |-> proc[i].todo \ {d}]>>
                                    \o proc[i].outer])
      PROVE  PacksInv'
  BY <1>1, <1>2, <1>6, DescendSafe
<1> QED
  BY <1>3, <1>4, <1>5, <1>6 DEF InstallDependencies

LEMMA LoadProgressSafe ==
    ASSUME PacksInv, NEW i \in Procs, LoadProgress(i)
    PROVE  PacksInv'
<1>1. /\ proc[i].pc = "load" /\ proc[i].pc \in Installing /\ proc[i].pc \notin AtTrash
      /\ UNCHANGED <<dir, staging, trash, installLock, trashLock, events>>
  BY DEF LoadProgress, Installing, Early, AtTrash, Moving, Restoring
<1>2. proc[i] \in Locals /\ proc[i].pack \in Packs /\ PacksTypeOK
  BY <1>1, Known
<1>3. PICK pc \in {"file", "start"}, o \in Ops :
         Become(i, [proc[i] EXCEPT !.pc = pc, !.op = o])
  <2>1. Record(Here(i)) # None => Record(Here(i)).op \in Ops
    BY <1>2, DirFacts DEF Progress, Here
  <2> QED
    BY <2>1 DEF LoadProgress
<1> QED
  <2> DEFINE l == [proc[i] EXCEPT !.pc = pc, !.op = o]
  <2>1. /\ l \in Locals /\ l.pc = pc /\ l.op = o /\ l.pack = proc[i].pack
        /\ l.outer = proc[i].outer /\ l.file = proc[i].file
    BY <1>2 DEF Locals, Installing, Early, Trying
  <2>2. proc[i].file = 1
    BY <1>1, Known DEF FileIsRight, Early
  <2> HIDE DEF l
  <2>3. Become(i, l) /\ proc'[i] = l
    BY <1>3, Becomes DEF l
  <2>4. OperationIsRight(i)'
    BY <2>1, <2>3 DEF OperationIsRight
  <2>5. FileIsRight(i)'
    BY <2>1, <2>2, <2>3, FilesAreNat DEF FileIsRight, Writing
  <2>6. PlaceIsRight(i)'
    BY <1>1, <2>1, <2>3, <2>4, <2>5, InstallPlace, InstallingPc DEF Early, Trying
  <2> QED
    BY <1>1, <2>1, <2>3, <2>6, SameLocks, QuietStep

(***************************************************************************)
(* install: the progress record.                                           *)
(***************************************************************************)
\* Creating the directories below a pack's directory changes nothing in them.
LEMMA Touched ==
    ASSUME PacksTypeOK, NEW p \in Packs, dir' = [dir EXCEPT ![p] = Made(p)]
    PROVE  \A q \in Packs : /\ Record(q)' = Record(q)
                            /\ \A f \in Files : FileState(q, f)' = FileState(q, f)
<1>1. /\ Made(p) \in Contents /\ Made(p).progress = Record(p)
      /\ \A f \in Files : Made(p).files[f] = FileState(p, f)
  BY DirFacts
<1> QED
  BY <1>1, NewDir

LEMMA TouchStep ==
    ASSUME PacksInv, NEW i \in Procs, NEW l \in Locals, Become(i, l),
           NEW p \in Packs, dir' = [dir EXCEPT ![p] = Made(p)],
           UNCHANGED <<staging, trash, trashLock, events>>, OwnLocks(i),
           proc[i].pc \notin AtTrash, PlaceIsRight(i)'
    PROVE  PacksInv'
<1> DEFINE c == Made(p)
<1>1. PacksTypeOK /\ CompleteIsWhole
  BY DEF PacksInv
<1>2. /\ c \in Contents /\ c.progress = Record(p)
      /\ \A f \in Files : c.files[f] = FileState(p, f)
  BY <1>1, DirFacts
<1>3. dir' = [dir EXCEPT ![p] = c]
  OBVIOUS
<1> HIDE DEF c
<1>4. \A f \in Files : c.files[f] \in {FileState(p, f), "good"}
  BY <1>2
<1>5. events.removals = 0 /\ events.rots = 0 /\ c.progress # None
        /\ c.progress.state = "complete" => \A f \in Files : c.files[f] = "good"
  BY <1>1, <1>2 DEF CompleteIsWhole
<1>6. staging' \in [Packs -> [Files -> Staged]] /\ \A q \in Packs : staging'[q] = staging[q]
  BY <1>1 DEF PacksTypeOK
<1> QED
  BY <1>2, <1>3, <1>4, <1>5, <1>6, DirStep

\* A record is written: what it says is right.
LEMMA Saved ==
    ASSUME PacksTypeOK, NEW p \in Packs, NEW r \in Progress, SaveProgress(p, r)
    PROVE  /\ \A q \in Packs, f \in Files : FileState(q, f)' = FileState(q, f)
           /\ Record(p)' = r
<1> DEFINE c == [Made(p) EXCEPT !.progress = r]
<1>1. Made(p) \in Contents /\ \A f \in Files : Made(p).files[f] = FileState(p, f)
  BY DirFacts
<1>2. /\ c \in Contents /\ c.progress = r /\ \A f \in Files : c.files[f] = FileState(p, f)
      /\ dir' = [dir EXCEPT ![p] = c]
  BY <1>1 DEF SaveProgress, Contents
<1> HIDE DEF c
<1> QED
  BY <1>2, NewDir

LEMMA SaveStep ==
    ASSUME PacksInv, NEW i \in Procs, NEW l \in Locals, Become(i, l),
           NEW p \in Packs, NEW r \in Progress, SaveProgress(p, r),
           UNCHANGED <<staging, trash, trashLock, events>>, OwnLocks(i),
           proc[i].pc \notin AtTrash, PlaceIsRight(i)',
           events.removals = 0 /\ events.rots = 0 /\ r.state = "complete" =>
              \A f \in Files : FileState(p, f) = "good"
    PROVE  PacksInv'
<1> DEFINE c == [Made(p) EXCEPT !.progress = r]
<1>1. PacksTypeOK /\ CompleteIsWhole
  BY DEF PacksInv
<1>2. Made(p) \in Contents /\ \A f \in Files : Made(p).files[f] = FileState(p, f)
  BY <1>1, DirFacts
<1>3. /\ c \in Contents /\ c.progress = r /\ \A f \in Files : c.files[f] = FileState(p, f)
      /\ dir' = [dir EXCEPT ![p] = c]
  BY <1>2 DEF SaveProgress, Contents
<1> HIDE DEF c
<1>4. /\ \A f \in Files : c.files[f] \in {FileState(p, f), "good"}
      /\ events.removals = 0 /\ events.rots = 0 /\ c.progress # None
        /\ c.progress.state = "complete" => \A f \in Files : c.files[f] = "good"
  BY <1>3
<1>5. staging' \in [Packs -> [Files -> Staged]] /\ \A q \in Packs : staging'[q] = staging[q]
  BY <1>1 DEF PacksTypeOK
<1> QED
  BY <1>3, <1>4, <1>5, DirStep

\* What holds at every place of an install.
LEMMA InstallKnown ==
    ASSUME PacksInv, NEW i \in Procs, proc[i].pc \in Installing
    PROVE  /\ PacksTypeOK /\ proc[i] \in Locals /\ Here(i) = proc[i].pack /\ Here(i) \in Packs
           /\ proc[i].pc \notin AtTrash /\ installLock[Here(i)] = i
           /\ FileIsRight(i) /\ OperationIsRight(i)
           /\ Record(Here(i)) \in Progress \cup {None}
           /\ proc[i].pc \in {"start", "startWrite"} \cup Trying \cup Failing => proc[i].op \in Ops
           /\ proc[i].file \in 1..(NFiles + 1)
<1>1. proc[i].pack \in Packs
  BY Known, InstallingPc
<1> QED
  BY <1>1, Known, InstallingPc, DirFacts DEF Here, OperationIsRight

LEMMA StartProgressSafe ==
    ASSUME PacksInv, NEW i \in Procs, StartProgress(i)
    PROVE  PacksInv'
<1>1. /\ proc[i].pc = "start" /\ proc[i].pc \in Installing
      /\ UNCHANGED <<staging, trash, trashLock, events>>
      /\ dir' = [dir EXCEPT ![Here(i)] = Made(Here(i))]
  BY DEF StartProgress, Installing, Early
<1>2. /\ PacksTypeOK /\ proc[i] \in Locals /\ Here(i) = proc[i].pack /\ Here(i) \in Packs
      /\ proc[i].pc \notin AtTrash /\ FileIsRight(i) /\ proc[i].op \in Ops
  BY <1>1, InstallKnown
<1>3. CASE Abort(i)
  BY <1>1, <1>2, <1>3, AbortFacts, TouchStep
<1>4. CASE ~ Abort(i)
  <2> DEFINE r == [op |-> proc[i].op, state |-> "pending", bytes |-> [f \in Files |-> 0]]
             l == [proc[i] EXCEPT !.pc = "startWrite", !.next = r]
  <2>1. Become(i, l) /\ installLock' = installLock
    BY <1>4 DEF StartProgress
  <2>2. 0 \in 0..Chunks
    BY FilesAreNat
  <2>3. r \in Progress /\ r.state = "pending"
    BY <1>2, <2>2 DEF Progress
  <2> HIDE DEF r
  <2>4. /\ l \in Locals /\ l.pc = "startWrite" /\ l.next = r /\ l.op = proc[i].op
        /\ l.pack = proc[i].pack /\ l.outer = proc[i].outer /\ l.file = proc[i].file
    BY <1>2, <2>3 DEF Locals, Installing, Early
  <2> HIDE DEF l
  <2>5. proc'[i] = l /\ proc[i].file = 1
    BY <1>1, <1>2, <2>1, Becomes DEF FileIsRight, Early
  <2>6. OperationIsRight(i)'
    BY <1>2, <2>3, <2>4, <2>5 DEF OperationIsRight
  <2>7. FileIsRight(i)'
    BY <2>4, <2>5 DEF FileIsRight, Writing, Trying
  <2>8. PlaceIsRight(i)'
    BY <1>1, <2>1, <2>4, <2>6, <2>7, InstallPlace, InstallingPc DEF Early
  <2> QED
    BY <1>1, <1>2, <2>1, <2>4, <2>8, SameLocks, TouchStep
<1> QED
  BY <1>3, <1>4

LEMMA WriteStartSafe ==
    ASSUME PacksInv, NEW i \in Procs, WriteStart(i)
    PROVE  PacksInv'
<1> DEFINE l == [proc[i] EXCEPT !.pc = "file", !.next = None]
<1>1. /\ proc[i].pc = "startWrite" /\ proc[i].pc \in Installing
      /\ UNCHANGED <<staging, trash, installLock, trashLock, events>>
      /\ SaveProgress(Here(i), proc[i].next) /\ Become(i, l)
  BY DEF WriteStart, Installing, Early
<1>2. /\ PacksTypeOK /\ proc[i] \in Locals /\ Here(i) = proc[i].pack /\ Here(i) \in Packs
      /\ proc[i].pc \notin AtTrash /\ FileIsRight(i) /\ OperationIsRight(i) /\ proc[i].op \in Ops
  BY <1>1, InstallKnown
<1>3. proc[i].next \in Progress /\ proc[i].next.state = "pending" /\ proc[i].file = 1
  BY <1>1, <1>2 DEF OperationIsRight, FileIsRight, Early
<1>4. /\ l \in Locals /\ l.pc = "file" /\ l.op = proc[i].op
      /\ l.pack = proc[i].pack /\ l.outer = proc[i].outer /\ l.file = 1
  BY <1>2, <1>3 DEF Locals, Installing, Trying
<1> HIDE DEF l
<1>5. proc'[i] = l
  BY <1>1, Becomes
<1>6. OperationIsRight(i)'
  BY <1>2, <1>4, <1>5 DEF OperationIsRight
<1>7. FileIsRight(i)'
  BY <1>4, <1>5, FilesAreNat DEF FileIsRight, Writing, Early
<1>8. PlaceIsRight(i)'
  BY <1>1, <1>4, <1>6, <1>7, InstallPlace, InstallingPc DEF Trying
<1> QED
  BY <1>1, <1>2, <1>3, <1>4, <1>8, SameLocks, SaveStep

LEMMA ReadUpdateSafe ==
    ASSUME PacksInv, NEW i \in Procs, ReadUpdate(i)
    PROVE  PacksInv'
<1>1. /\ proc[i].pc = "update" /\ proc[i].pc \in Installing /\ proc[i].pc \in Trying
      /\ UNCHANGED <<staging, trash, installLock, trashLock, events>>
      /\ dir' = [dir EXCEPT ![Here(i)] = Made(Here(i))]
  BY DEF ReadUpdate, Installing, Trying
<1>2. /\ PacksTypeOK /\ proc[i] \in Locals /\ Here(i) = proc[i].pack /\ Here(i) \in Packs
      /\ proc[i].pc \notin AtTrash /\ FileIsRight(i) /\ OperationIsRight(i) /\ proc[i].op \in Ops
      /\ Record(Here(i)) \in Progress \cup {None}
  BY <1>1, InstallKnown
<1>3. CASE Raise(i)
  BY <1>1, <1>2, <1>3, RaiseFacts, TouchStep
<1>4. CASE ~ Raise(i)
  <2> DEFINE r == [Record(Here(i)) EXCEPT !.state = "transferring",
                                          !.bytes[proc[i].file] = proc[i].size]
             l == [proc[i] EXCEPT !.pc = "updateWrite", !.next = r]
  <2>1. Become(i, l) /\ Accepts(Record(Here(i)), i)
    BY <1>4 DEF ReadUpdate
  <2>2. Record(Here(i)) \in Progress /\ proc[i].file \in Files /\ proc[i].size \in 0..Chunks
    BY <1>1, <1>2, <2>1, Known DEF Accepts, FileIsRight
  <2>3. r \in Progress /\ r.state = "transferring"
    BY <2>2 DEF Progress
  <2> HIDE DEF r
  <2>4. /\ l \in Locals /\ l.pc = "updateWrite" /\ l.next = r /\ l.op = proc[i].op
        /\ l.pack = proc[i].pack /\ l.outer = proc[i].outer /\ l.file = proc[i].file
        /\ l.source = proc[i].source
    BY <1>2, <2>3 DEF Locals, Installing, Trying
  <2> HIDE DEF l
  <2>5. proc'[i] = l
    BY <2>1, Becomes
  <2>6. OperationIsRight(i)'
    BY <1>2, <2>3, <2>4, <2>5 DEF OperationIsRight
  <2>7. \A q \in Packs, f \in Files : FileState(q, f)' = FileState(q, f)
    BY <1>1, <1>2, Touched
  <2>8. FileIsRight(i)'
    <3>1. l.source # "none" => staging[l.pack][l.file].complete = "absent"
      BY <1>1, <1>2, <2>4 DEF FileIsRight, Writing
    <3>2. PICK p \in Packs, g \in Files : p = proc[i].pack /\ g = proc[i].file
      BY <1>2, <2>2
    <3>3. events.removals = 0 /\ events.rots = 0 =>
             /\ \A f \in Files : f < g => FileState(p, f)' = "good"
             /\ l.source = "none" => FileState(p, g)' = "good"
      BY <1>1, <1>2, <2>2, <2>4, <2>7, <3>2 DEF FileIsRight
    <3> QED
      BY <1>1, <2>2, <2>4, <2>5, <3>1, <3>2, <3>3 DEF FileIsRight, Writing, Early, FileState
  <2>9. PlaceIsRight(i)'
    BY <1>1, <2>1, <2>4, <2>6, <2>8, InstallPlace, InstallingPc DEF Trying
  <2> QED
    BY <1>1, <1>2, <2>1, <2>4, <2>9, SameLocks, TouchStep
<1> QED
  BY <1>3, <1>4

LEMMA WriteUpdateSafe ==
    ASSUME PacksInv, NEW i \in Procs, WriteUpdate(i)
    PROVE  PacksInv'
<1>1. /\ proc[i].pc = "updateWrite" /\ proc[i].pc \in Installing /\ proc[i].pc \in Trying
      /\ UNCHANGED <<staging, trash, installLock, trashLock, events>>
      /\ SaveProgress(Here(i), proc[i].next)
  BY DEF WriteUpdate, Installing, Trying
<1>2. /\ PacksTypeOK /\ proc[i] \in Locals /\ Here(i) = proc[i].pack /\ Here(i) \in Packs
      /\ proc[i].pc \notin AtTrash /\ FileIsRight(i) /\ OperationIsRight(i) /\ proc[i].op \in Ops
  BY <1>1, InstallKnown
<1>3. /\ proc[i].next \in Progress /\ proc[i].next.state = "transferring"
      /\ proc[i].file \in Files
  BY <1>1, <1>2 DEF OperationIsRight, FileIsRight
<1>4. \A q \in Packs, f \in Files : FileState(q, f)' = FileState(q, f)
  BY <1>1, <1>2, <1>3, Saved
<1>5. PICK l \in Locals :
         /\ Become(i, l) /\ l.pc \in Trying /\ l.op = proc[i].op /\ l.pack = proc[i].pack
         /\ l.outer = proc[i].outer
         /\ \/ /\ l.pc = "copy" /\ proc[i].source # "none" /\ l.source = proc[i].source
               /\ l.file = proc[i].file
            \/ /\ l.pc = "file" /\ proc[i].source = "none" /\ l.source = "none"
               /\ l.file = proc[i].file + 1
  <2>1. CASE proc[i].source # "none"
    <3> DEFINE l == [proc[i] EXCEPT !.pc = "copy", !.next = None]
    <3>1. /\ l \in Locals /\ l.pc = "copy" /\ l.op = proc[i].op /\ l.pack = proc[i].pack
          /\ l.outer = proc[i].outer /\ l.source = proc[i].source /\ l.file = proc[i].file
      BY <1>2 DEF Locals, Installing, Trying
    <3>2. Become(i, l)
      BY <2>1 DEF WriteUpdate
    <3> HIDE DEF l
    <3> QED
      BY <2>1, <3>1, <3>2 DEF Trying
  <2>2. CASE proc[i].source = "none"
    <3> DEFINE l == [proc[i] EXCEPT !.pc = "file", !.next = None, !.size = 0, !.file = @ + 1]
    <3>1. 0 \in 0..Chunks /\ proc[i].file + 1 \in 1..(NFiles + 1)
      <4>1. 0 \in 0..Chunks
        BY FilesAreNat
      <4>2. proc[i].file + 1 \in 1..(NFiles + 1)
        BY <1>3, FilesAreNat
      <4> QED
        BY <4>1, <4>2
    <3>2. /\ l \in Locals /\ l.pc = "file" /\ l.op = proc[i].op /\ l.pack = proc[i].pack
          /\ l.outer = proc[i].outer /\ l.source = proc[i].source /\ l.file = proc[i].file + 1
      BY <1>2, <3>1 DEF Locals, Installing, Trying
    <3>3. Become(i, l)
      BY <2>2 DEF WriteUpdate
    <3> HIDE DEF l
    <3> QED
      BY <2>2, <3>2, <3>3 DEF Trying
  <2> QED
    BY <2>1, <2>2
<1>6. proc'[i] = l
  BY <1>5, Becomes
<1>7. OperationIsRight(i)'
  BY <1>2, <1>5, <1>6 DEF OperationIsRight, Trying
<1>8. FileIsRight(i)'
  <2>1. CASE l.pc = "copy"
    <3>1. staging[l.pack][l.file].complete = "absent"
      BY <1>1, <1>2, <1>5, <2>1 DEF FileIsRight, Writing
    <3>2. events.removals = 0 /\ events.rots = 0 =>
             \A f \in Files : f < l.file => FileState(l.pack, f)' = "good"
      BY <1>1, <1>2, <1>4, <1>5, <2>1 DEF FileIsRight
    <3> QED
      BY <1>1, <1>3, <1>5, <1>6, <2>1, <3>1, <3>2 DEF FileIsRight, Writing, Early, FileState
  <2>2. CASE l.pc = "file"
    <3>1. \A f \in Files : f < l.file => f < proc[i].file \/ f = proc[i].file
      <4>1. l.file = proc[i].file + 1
        BY <1>5, <2>2
      <4>2. proc[i].file \in Nat /\ \A f \in Files : f \in Nat
        BY <1>3, FilesAreNat
      <4> QED
        BY <4>1, <4>2
    <3>2. proc[i].source = "none"
      BY <1>5, <2>2
    <3>3. events.removals = 0 /\ events.rots = 0 =>
             \A f \in Files : f < l.file => FileState(l.pack, f)' = "good"
      BY <1>1, <1>2, <1>4, <1>5, <3>1, <3>2 DEF FileIsRight
    <3> QED
      BY <1>1, <1>5, <1>6, <2>2, <3>3 DEF FileIsRight, Writing, Early, FileState
  <2> QED
    BY <1>5, <2>1, <2>2
<1>9. PlaceIsRight(i)'
  BY <1>1, <1>5, <1>7, <1>8, InstallPlace, InstallingPc
<1> QED
  BY <1>1, <1>2, <1>3, <1>5, <1>9, SameLocks, SaveStep

LEMMA ReadCompleteSafe ==
    ASSUME PacksInv, NEW i \in Procs, ReadComplete(i)
    PROVE  PacksInv'
<1>1. /\ proc[i].pc = "file" /\ proc[i].pc \in Installing /\ proc[i].pc \in Trying
      /\ proc[i].file = NFiles + 1
      /\ UNCHANGED <<staging, trash, installLock, trashLock, events>>
      /\ dir' = [dir EXCEPT ![Here(i)] = Made(Here(i))]
  BY DEF ReadComplete, Installing, Trying
<1>2. /\ PacksTypeOK /\ proc[i] \in Locals /\ Here(i) = proc[i].pack /\ Here(i) \in Packs
      /\ proc[i].pc \notin AtTrash /\ FileIsRight(i) /\ OperationIsRight(i) /\ proc[i].op \in Ops
      /\ Record(Here(i)) \in Progress \cup {None}
  BY <1>1, InstallKnown
<1>3. CASE Raise(i)
  BY <1>1, <1>2, <1>3, RaiseFacts, TouchStep
<1>4. CASE ~ Raise(i)
  <2> DEFINE r == [Record(Here(i)) EXCEPT !.state = "complete"]
             l == [proc[i] EXCEPT !.pc = "completeWrite", !.next = r]
  <2>1. Become(i, l) /\ Record(Here(i)) # None
    BY <1>4 DEF ReadComplete
  <2>2. r \in Progress /\ r.state = "complete"
    BY <1>2, <2>1 DEF Progress
  <2> HIDE DEF r
  <2>3. /\ l \in Locals /\ l.pc = "completeWrite" /\ l.next = r /\ l.op = proc[i].op
        /\ l.pack = proc[i].pack /\ l.outer = proc[i].outer /\ l.file = NFiles + 1
    BY <1>1, <1>2, <2>2 DEF Locals, Installing, Trying
  <2> HIDE DEF l
  <2>4. proc'[i] = l
    BY <2>1, Becomes
  <2>5. OperationIsRight(i)'
    BY <1>2, <2>2, <2>3, <2>4 DEF OperationIsRight
  <2>6. \A q \in Packs, f \in Files : FileState(q, f)' = FileState(q, f)
    BY <1>1, <1>2, Touched
  <2>7. FileIsRight(i)'
    <3>1. PICK p \in Packs : p = proc[i].pack
      BY <1>2
    <3>2. events.removals = 0 /\ events.rots = 0 =>
             \A f \in Files : f < NFiles + 1 => FileState(p, f)' = "good"
      BY <1>1, <1>2, <2>6, <3>1 DEF FileIsRight
    <3> QED
      BY <1>1, <2>3, <2>4, <3>1, <3>2 DEF FileIsRight, Writing, Early, FileState
  <2>8. PlaceIsRight(i)'
    BY <1>1, <2>1, <2>3, <2>5, <2>7, InstallPlace, InstallingPc DEF Trying
  <2> QED
    BY <1>1, <1>2, <2>1, <2>3, <2>8, SameLocks, TouchStep
<1> QED
  BY <1>3, <1>4

LEMMA WriteCompleteSafe ==
    ASSUME PacksInv, NEW i \in Procs, WriteComplete(i)
    PROVE  PacksInv'
<1>1. /\ proc[i].pc = "completeWrite" /\ proc[i].pc \in Installing /\ proc[i].pc \in Trying
      /\ UNCHANGED <<staging, trash, trashLock, events>> /\ Return(i)
      /\ SaveProgress(Here(i), proc[i].next)
  BY DEF WriteComplete, Installing, Trying
<1>2. /\ PacksTypeOK /\ Here(i) = proc[i].pack /\ Here(i) \in Packs
      /\ proc[i].pc \notin AtTrash /\ FileIsRight(i) /\ OperationIsRight(i)
  BY <1>1, InstallKnown
<1>3. proc[i].next \in Progress /\ proc[i].file = NFiles + 1
  BY <1>1, <1>2 DEF OperationIsRight, FileIsRight
<1>4. \A f \in Files : f < NFiles + 1
  BY FilesAreNat
<1>5. events.removals = 0 /\ events.rots = 0 => \A f \in Files : FileState(Here(i), f) = "good"
  BY <1>1, <1>2, <1>3, <1>4 DEF FileIsRight
<1> QED
  BY <1>1, <1>2, <1>3, <1>5, ReturnFacts, SaveStep

LEMMA ReadFailureSafe ==
    ASSUME PacksInv, NEW i \in Procs, ReadFailure(i)
    PROVE  PacksInv'
<1>1. /\ proc[i].pc = "failed" /\ proc[i].pc \in Installing
      /\ UNCHANGED <<staging, trash, trashLock, events>>
      /\ dir' = [dir EXCEPT ![Here(i)] = Made(Here(i))]
  BY DEF ReadFailure, Installing, Failing
<1>2. /\ PacksTypeOK /\ proc[i] \in Locals /\ Here(i) = proc[i].pack /\ Here(i) \in Packs
      /\ proc[i].pc \notin AtTrash /\ proc[i].op \in Ops
      /\ Record(Here(i)) \in Progress \cup {None}
  BY <1>1, InstallKnown DEF Failing
<1>3. CASE Abort(i)
  BY <1>1, <1>2, <1>3, AbortFacts, TouchStep
<1>4. CASE ~ Abort(i)
  <2> DEFINE r == [Record(Here(i)) EXCEPT !.state = "failed"]
             l == [proc[i] EXCEPT !.pc = "failedWrite", !.next = r]
  <2>1. Become(i, l) /\ Record(Here(i)) # None /\ installLock' = installLock
    BY <1>4 DEF ReadFailure
  <2>2. r \in Progress /\ r.state = "failed"
    BY <1>2, <2>1 DEF Progress
  <2> HIDE DEF r
  <2>3. /\ l \in Locals /\ l.pc = "failedWrite" /\ l.next = r /\ l.op = proc[i].op
        /\ l.pack = proc[i].pack /\ l.outer = proc[i].outer
    BY <1>1, <1>2, <2>2 DEF Locals, Installing, Failing
  <2> HIDE DEF l
  <2>4. proc'[i] = l
    BY <2>1, Becomes
  <2>5. OperationIsRight(i)'
    BY <1>2, <2>2, <2>3, <2>4 DEF OperationIsRight
  <2>6. FileIsRight(i)'
    BY <2>3, <2>4 DEF FileIsRight, Writing, Trying, Early
  <2>7. PlaceIsRight(i)'
    BY <1>1, <2>1, <2>3, <2>5, <2>6, InstallPlace, InstallingPc DEF Failing
  <2> QED
    BY <1>1, <1>2, <2>1, <2>3, <2>7, SameLocks, TouchStep
<1> QED
  BY <1>3, <1>4

LEMMA WriteFailureSafe ==
    ASSUME PacksInv, NEW i \in Procs, WriteFailure(i)
    PROVE  PacksInv'
<1>1. /\ proc[i].pc = "failedWrite" /\ proc[i].pc \in Installing
      /\ UNCHANGED <<staging, trash, trashLock, events>> /\ Abort(i)
      /\ SaveProgress(Here(i), proc[i].next)
  BY DEF WriteFailure, Installing, Failing
<1>2. /\ Here(i) \in Packs /\ proc[i].pc \notin AtTrash /\ OperationIsRight(i)
  BY <1>1, InstallKnown
<1>3. proc[i].next \in Progress /\ proc[i].next.state = "failed"
  BY <1>1, <1>2 DEF OperationIsRight
<1> QED
  BY <1>1, <1>2, <1>3, AbortFacts, SaveStep

(***************************************************************************)
(* install: the files.                                                     *)
(***************************************************************************)
LEMMA PublishSafe ==
    ASSUME PacksInv, NEW i \in Procs, Publish(i)
    PROVE  PacksInv'
<1>0. /\ proc[i].pc = "publish" /\ proc[i].pc \in Installing /\ proc[i].pc \in Trying
      /\ Here(i) \in Packs /\ proc[i].file \in Files
  BY Known DEF Publish, Installing, Trying, FileIsRight, Here
<1>p. PICK p \in Packs : p = Here(i)
  BY <1>0
<1>f. PICK f \in Files : f = proc[i].file
  BY <1>0
<1> DEFINE c == [Made(p) EXCEPT !.files[f] = staging[p][f].complete]
           s == [staging[p][f] EXCEPT !.complete = "absent"]
           l == [Tell(i, "update", Chunks) EXCEPT !.source = "none"]
<1>1. /\ UNCHANGED <<trash, installLock, trashLock, events>>
      /\ dir' = [dir EXCEPT ![p] = c] /\ Stage(p, f, s) /\ Become(i, l)
  BY <1>p, <1>f DEF Publish
<1>2. /\ PacksTypeOK /\ proc[i] \in Locals /\ p = proc[i].pack /\ p \in Packs
      /\ proc[i].pc \notin AtTrash /\ FileIsRight(i) /\ OperationIsRight(i) /\ proc[i].op \in Ops
      /\ installLock[p] = i /\ CompleteIsWhole
  BY <1>0, <1>p, InstallKnown DEF PacksInv
<1>3. f \in Files /\ staging[p][f].complete = "good"
  BY <1>0, <1>2, <1>f DEF FileIsRight
<1>4. /\ l \in Locals /\ l.pc = "update" /\ l.op = proc[i].op /\ l.pack = proc[i].pack
      /\ l.outer = proc[i].outer /\ l.file = f /\ l.source = "none"
  <2>1. Chunks \in 0..Chunks
    BY FilesAreNat
  <2> QED
    BY <1>2, <1>f, <2>1 DEF Locals, Installing, Trying, Tell
<1>5. s \in Staged
  BY <1>2, <1>3, StagedFacts DEF Staged
<1>6. /\ c \in Contents /\ c.progress = Record(p) /\ c.files[f] = "good"
      /\ \A g \in Files : c.files[g] \in {FileState(p, g), "good"}
  <2>1. /\ Made(p) \in Contents /\ Made(p).progress = Record(p)
        /\ \A g \in Files : Made(p).files[g] = FileState(p, g)
    BY <1>2, DirFacts
  <2> QED
    BY <1>3, <2>1 DEF Contents
<1> HIDE DEF c, s, l
<1>7. proc'[i] = l
  BY <1>1, Becomes
<1>8. /\ \A g \in Files : FileState(p, g)' = c.files[g]
  BY <1>1, <1>2, <1>6, NewDir
<1>9. /\ staging' \in [Packs -> [Files -> Staged]]
      /\ \A q \in Packs \ {p} : staging'[q] = staging[q]
  BY <1>1, <1>2, <1>3, <1>5, NewStaging
<1>10. OperationIsRight(i)'
  BY <1>2, <1>4, <1>7 DEF OperationIsRight
<1>11. FileIsRight(i)'
  <2>1. events.removals = 0 /\ events.rots = 0 =>
           \A g \in Files : g < f => FileState(p, g) = "good"
    BY <1>0, <1>1, <1>2, <1>f DEF FileIsRight
  <2>2. /\ \A g \in Files : FileState(p, g) = "good" => FileState(p, g)' = "good"
        /\ FileState(p, f)' = "good"
    BY <1>3, <1>6, <1>8
  <2> QED
    BY <1>1, <1>2, <1>3, <1>4, <1>7, <2>1, <2>2 DEF FileIsRight, Writing, Early, FileState
<1>12. PlaceIsRight(i)'
  BY <1>0, <1>1, <1>4, <1>10, <1>11, InstallPlace, InstallingPc DEF Trying
<1>13. events.removals = 0 /\ events.rots = 0 /\ c.progress # None
         /\ c.progress.state = "complete" => \A g \in Files : c.files[g] = "good"
  BY <1>2, <1>6 DEF CompleteIsWhole
<1> QED
  BY <1>0, <1>1, <1>2, <1>4, <1>6, <1>9, <1>12, <1>13, SameLocks, DirStep

\* A step of an installer that writes to the staging directory of its file.
LEMMA StageStep ==
    ASSUME PacksInv, NEW i \in Procs, proc[i].pc \in Installing, NEW l \in Locals, Become(i, l),
           NEW p \in Packs, p = Here(i), NEW f \in Files, NEW s \in Staged, Stage(p, f, s),
           UNCHANGED <<dir, trash, installLock, trashLock, events>>, PlaceIsRight(i)'
    PROVE  PacksInv'
<1>1. PacksTypeOK /\ installLock[p] = i /\ proc[i].pc \notin AtTrash
  BY InstallKnown
<1>2. /\ staging' \in [Packs -> [Files -> Staged]]
      /\ \A q \in Packs : staging'[q] = staging[q] \/ installLock[q] = i
  BY <1>1, NewStaging
<1> QED
  BY <1>1, <1>2, SameLocks, PrivateStep

\* The file an install is at.
LEMMA FileKnown ==
    ASSUME PacksInv, NEW i \in Procs, proc[i].pc \in Trying, proc[i].file \in Files
    PROVE  /\ PacksTypeOK /\ proc[i] \in Locals /\ Here(i) = proc[i].pack /\ Here(i) \in Packs
           /\ proc[i].pc \in Installing /\ proc[i].pc \notin AtTrash /\ proc[i].op \in Ops
           /\ FileIsRight(i)
           /\ events.removals = 0 /\ events.rots = 0 =>
                 \A g \in Files : g < proc[i].file => FileState(Here(i), g) = "good"
<1>1. proc[i].pc \in Installing
  BY InstallingPc
<1> QED
  BY <1>1, InstallKnown DEF FileIsRight

\* An installer that stays at its file.
LEMMA FilePlace ==
    ASSUME PacksInv, NEW i \in Procs, proc[i].pc \in Trying, proc[i].file \in Files,
           NEW l \in Locals, Become(i, l), l.pc \in {"copy", "publish", "update"},
           l.pack = proc[i].pack, l.outer = proc[i].outer, l.op = proc[i].op,
           l.file = proc[i].file,
           UNCHANGED <<dir, installLock, events>>,
           NEW p \in Packs, p = Here(i), NEW f \in Files, f = proc[i].file,
           l.pc = "copy" => l.source # "none",
           l.pc # "publish" /\ l.source # "none" => staging'[p][f].complete = "absent",
           l.pc = "publish" => staging'[p][f].complete = "good",
           l.pc = "update" /\ l.source = "none" /\ events.removals = 0 /\ events.rots = 0 =>
              FileState(p, f) = "good"
    PROVE  PlaceIsRight(i)'
<1>1. /\ PacksTypeOK /\ proc[i].pc \in Installing /\ proc[i].op \in Ops
      /\ FileIsRight(i) /\ p = proc[i].pack
      /\ events.removals = 0 /\ events.rots = 0 =>
            \A g \in Files : g < f => FileState(p, g) = "good"
  BY FileKnown
<1>2. proc'[i] = l
  BY Becomes
<1>3. OperationIsRight(i)'
  BY <1>1, <1>2 DEF OperationIsRight
<1>4. \A g \in Files : FileState(p, g)' = FileState(p, g)
  BY DEF FileState
<1>5. FileIsRight(i)'
  BY <1>1, <1>2, <1>4 DEF FileIsRight, Writing, Early, FileState
<1> QED
  BY <1>1, <1>3, <1>5, InstallPlace, InstallingPc DEF Trying

LEMMA CheckInstalledSafe ==
    ASSUME PacksInv, NEW i \in Procs, CheckInstalled(i)
    PROVE  PacksInv'
<1>1. /\ proc[i].pc \in Trying /\ proc[i].file \in Files
      /\ UNCHANGED <<dir, staging, trash, installLock, trashLock, events>>
  BY DEF CheckInstalled, Trying
<1>2. /\ PacksTypeOK /\ proc[i] \in Locals /\ Here(i) = proc[i].pack /\ Here(i) \in Packs
      /\ proc[i].pc \notin AtTrash
  BY <1>1, FileKnown
<1>3. CASE Raise(i)
  BY <1>1, <1>2, <1>3, RaiseFacts, QuietStep
<1>4. CASE ~ Raise(i)
  <2> DEFINE l == [Tell(i, "update", Chunks) EXCEPT !.source = "none"]
  <2>1. Become(i, l) /\ FileState(Here(i), proc[i].file) = "good"
    BY <1>4 DEF CheckInstalled
  <2>2. Chunks \in 0..Chunks
    BY FilesAreNat
  <2>3. /\ l \in Locals /\ l.pc = "update" /\ l.op = proc[i].op /\ l.pack = proc[i].pack
        /\ l.outer = proc[i].outer /\ l.file = proc[i].file /\ l.source = "none"
    BY <1>2, <2>2 DEF Locals, Installing, Trying, Tell
  <2> HIDE DEF l
  <2>4. PICK p \in Packs, f \in Files : p = Here(i) /\ f = proc[i].file
    BY <1>1, <1>2
  <2>5. PlaceIsRight(i)'
    BY <1>1, <2>1, <2>3, <2>4, FilePlace
  <2> QED
    BY <1>1, <1>2, <2>1, <2>3, <2>5, SameLocks, QuietStep
<1> QED
  BY <1>3, <1>4

LEMMA FetchSafe ==
    ASSUME PacksInv, NEW i \in Procs, Fetch(i)
    PROVE  PacksInv'
<1>1. /\ proc[i].pc \in Trying /\ proc[i].file \in Files
      /\ UNCHANGED <<dir, trash, installLock, trashLock, events>>
  BY DEF Fetch, Trying
<1>2. /\ PacksTypeOK /\ proc[i] \in Locals /\ Here(i) = proc[i].pack /\ Here(i) \in Packs
      /\ proc[i].pc \notin AtTrash /\ proc[i].pc \in Installing
  BY <1>1, FileKnown
<1>3. PICK p \in Packs, f \in Files : p = Here(i) /\ f = proc[i].file
  BY <1>1, <1>2
<1> DEFINE part == staging[p][f].part
           Resumable == IF part.size = Chunks THEN NoPart ELSE part
           Parts == [size : 0..(Chunks + 1), good : BOOLEAN]
<1>4. /\ part \in Parts /\ Resumable \in Parts /\ NoPart \in Parts /\ NoPart.size = 0
      /\ part.size \in 0..(Chunks + 1) /\ 0 \in 0..Chunks
      /\ part.size <= Chunks => Resumable.size \in 0..Chunks
  BY <1>2, StagedFacts, FilesAreNat DEF NoPart
<1>5. \A kept \in Parts : [complete |-> "absent", part |-> kept] \in Staged
  BY DEF Staged
<1>6. ASSUME NEW source \in {"offline", "network"}, NEW size \in 0..Chunks, NEW kept \in Parts,
             Become(i, [proc[i] EXCEPT !.pc = "copy", !.source = source, !.size = size]),
             Stage(p, f, [complete |-> "absent", part |-> kept])
      PROVE  PacksInv'
  <2> DEFINE l == [proc[i] EXCEPT !.pc = "copy", !.source = source, !.size = size]
             s == [complete |-> "absent", part |-> kept]
  <2>1. Become(i, l) /\ Stage(p, f, s) /\ s \in Staged /\ s.complete = "absent"
    BY <1>5, <1>6
  <2>2. /\ l \in Locals /\ l.pc = "copy" /\ l.op = proc[i].op /\ l.pack = proc[i].pack
        /\ l.outer = proc[i].outer /\ l.file = proc[i].file /\ l.source # "none"
    BY <1>2 DEF Locals, Installing, Trying
  <2> HIDE DEF l, s
  <2>3. staging'[p][f] = s
    BY <1>2, <2>1, NewStaging
  <2>4. PlaceIsRight(i)'
    BY <1>1, <1>3, <2>1, <2>2, <2>3, FilePlace
  <2> QED
    BY <1>1, <1>2, <1>3, <2>1, <2>2, <2>4, StageStep
<1>7. ASSUME NEW kept \in Parts, Raise(i), Stage(p, f, [complete |-> "absent", part |-> kept])
      PROVE  PacksInv'
  BY <1>1, <1>2, <1>3, <1>5, <1>7, RaiseFacts, StageStep
<1>8. CASE Raise(i) /\ staging' = staging
  BY <1>1, <1>2, <1>8, RaiseFacts, SameLocks, QuietStep
<1>9. \/ Become(i, [proc[i] EXCEPT !.pc = "copy", !.source = "offline", !.size = 0])
         /\ Stage(p, f, [complete |-> "absent", part |-> NoPart])
      \/ /\ part.size <= Chunks
         /\ Become(i, [proc[i] EXCEPT !.pc = "copy", !.source = "network",
                                      !.size = Resumable.size])
         /\ Stage(p, f, [complete |-> "absent", part |-> Resumable])
      \/ Become(i, [proc[i] EXCEPT !.pc = "copy", !.source = "network", !.size = 0])
         /\ Stage(p, f, [complete |-> "absent", part |-> NoPart])
      \/ Raise(i) /\ staging' = staging
      \/ Raise(i) /\ \E kept \in {part, Resumable} :
                        Stage(p, f, [complete |-> "absent", part |-> kept])
  BY <1>3 DEF Fetch
<1> HIDE DEF part, Resumable, Parts
<1> QED
  BY <1>4, <1>6, <1>7, <1>8, <1>9

LEMMA CopyChunkSafe ==
    ASSUME PacksInv, NEW i \in Procs, CopyChunk(i)
    PROVE  PacksInv'
<1>1. /\ proc[i].pc = "copy" /\ proc[i].pc \in Trying /\ proc[i].file \in Files
      /\ UNCHANGED <<dir, trash, installLock, trashLock, events>>
      /\ proc[i].source # "none" /\ proc[i].size \in 0..Chunks
  BY Known DEF CopyChunk, Trying, FileIsRight
<1>2. /\ PacksTypeOK /\ proc[i] \in Locals /\ Here(i) = proc[i].pack /\ Here(i) \in Packs
      /\ proc[i].pc \in Installing
  BY <1>1, FileKnown
<1>3. PICK p \in Packs, f \in Files : p = Here(i) /\ f = proc[i].file
  BY <1>1, <1>2
<1> DEFINE n == proc[i].size + 1
<1>4. PICK good \in BOOLEAN :
         Stage(p, f, [complete |-> "absent",
                      part |-> [size |-> n, good |-> good /\ staging[p][f].part.good]])
  BY <1>3 DEF CopyChunk
<1> DEFINE s == [complete |-> "absent",
                 part |-> [size |-> n, good |-> good /\ staging[p][f].part.good]]
<1>5. s \in Staged /\ s.complete = "absent" /\ Stage(p, f, s)
  <2>1. n \in 0..(Chunks + 1)
    BY <1>1, FilesAreNat
  <2>2. (good /\ staging[p][f].part.good) \in BOOLEAN
    OBVIOUS
  <2> HIDE DEF n
  <2> QED
    BY <1>4, <2>1, <2>2 DEF Staged
<1> HIDE DEF s
<1>6. staging'[p][f] = s
  BY <1>2, <1>5, NewStaging
<1>7. CASE Raise(i)
  BY <1>1, <1>2, <1>3, <1>5, <1>7, RaiseFacts, StageStep
<1>8. CASE ~ Raise(i)
  <2> DEFINE l == Tell(i, "update", n)
  <2>1. Become(i, l) /\ n <= Chunks
    BY <1>8 DEF CopyChunk
  <2>2. n \in 0..Chunks
    BY <1>1, <2>1, FilesAreNat
  <2> HIDE DEF n
  <2>3. /\ l \in Locals /\ l.pc = "update" /\ l.op = proc[i].op /\ l.pack = proc[i].pack
        /\ l.outer = proc[i].outer /\ l.file = proc[i].file /\ l.source = proc[i].source
    BY <1>2, <2>2 DEF Locals, Installing, Trying, Tell
  <2> HIDE DEF l
  <2>4. PlaceIsRight(i)'
    BY <1>1, <1>3, <1>5, <1>6, <2>1, <2>3, FilePlace
  <2> QED
    BY <1>1, <1>2, <1>3, <1>5, <2>1, <2>3, <2>4, StageStep
<1> QED
  BY <1>7, <1>8

\* A verified part takes its final name.
LEMMA RenamedFacts ==
    ASSUME NEW p, NEW f, Verified(staging[p][f].part)
    PROVE  Renamed(p, f) \in Staged /\ Renamed(p, f).complete = "good"
BY FilesAreNat DEF Renamed, Verified, WholePart, NoPart, Staged

LEMMA PublishNext ==
    ASSUME PacksInv, NEW i \in Procs, proc[i].pc \in Trying, proc[i].file \in Files,
           Goto(i, "publish"), UNCHANGED <<dir, installLock, events>>,
           NEW p \in Packs, p = Here(i), NEW f \in Files, f = proc[i].file,
           staging'[p][f].complete = "good"
    PROVE  \E l \in Locals : Become(i, l) /\ PlaceIsRight(i)'
<1> DEFINE l == [proc[i] EXCEPT !.pc = "publish"]
<1>1. proc[i] \in Locals /\ Become(i, l)
  BY Known DEF Goto
<1>2. /\ l \in Locals /\ l.pc = "publish" /\ l.op = proc[i].op /\ l.pack = proc[i].pack
      /\ l.outer = proc[i].outer /\ l.file = proc[i].file
  BY <1>1 DEF Locals, Installing, Trying
<1> HIDE DEF l
<1> QED
  BY <1>1, <1>2, FilePlace

LEMMA EndOfDataSafe ==
    ASSUME PacksInv, NEW i \in Procs, EndOfData(i)
    PROVE  PacksInv'
<1>1. /\ proc[i].pc \in Trying /\ proc[i].file \in Files
      /\ UNCHANGED <<dir, trash, installLock, trashLock, events>>
  BY Known DEF EndOfData, Trying, FileIsRight
<1>2. /\ PacksTypeOK /\ proc[i] \in Locals /\ Here(i) = proc[i].pack /\ Here(i) \in Packs
      /\ proc[i].pc \in Installing /\ proc[i].pc \notin AtTrash
  BY <1>1, FileKnown
<1>3. PICK p \in Packs, f \in Files : p = Here(i) /\ f = proc[i].file
  BY <1>1, <1>2
<1>4. CASE Verified(staging[p][f].part)
  <2>1. Stage(p, f, Renamed(p, f)) /\ Goto(i, "publish")
    BY <1>3, <1>4 DEF EndOfData
  <2>2. Renamed(p, f) \in Staged /\ staging'[p][f].complete = "good"
    BY <1>2, <1>4, <2>1, RenamedFacts, NewStaging
  <2> QED
    BY <1>1, <1>2, <1>3, <2>1, <2>2, PublishNext, StageStep
<1>5. CASE ~ Verified(staging[p][f].part)
  <2>1. Raise(i) /\ staging' = staging
    BY <1>3, <1>5 DEF EndOfData
  <2> QED
    BY <1>1, <1>2, <2>1, RaiseFacts, SameLocks, QuietStep
<1> QED
  BY <1>4, <1>5

LEMMA ReuseStagedSafe ==
    ASSUME PacksInv, NEW i \in Procs, ReuseStaged(i)
    PROVE  PacksInv'
<1>1. /\ proc[i].pc \in Trying /\ proc[i].file \in Files /\ Goto(i, "publish")
      /\ UNCHANGED <<dir, trash, installLock, trashLock, events>>
  BY DEF ReuseStaged, Trying
<1>2. /\ PacksTypeOK /\ proc[i] \in Locals /\ Here(i) = proc[i].pack /\ Here(i) \in Packs
      /\ proc[i].pc \in Installing /\ proc[i].pc \notin AtTrash
  BY <1>1, FileKnown
<1>3. PICK p \in Packs, f \in Files : p = Here(i) /\ f = proc[i].file
  BY <1>1, <1>2
<1>4. CASE staging[p][f].complete = "good"
  <2>1. staging' = staging
    BY <1>3, <1>4 DEF ReuseStaged
  <2> QED
    BY <1>1, <1>2, <1>3, <1>4, <2>1, PublishNext, SameLocks, QuietStep
<1>5. CASE staging[p][f].complete # "good"
  <2>1. Verified(staging[p][f].part) /\ Stage(p, f, Renamed(p, f))
    BY <1>3, <1>5 DEF ReuseStaged
  <2>2. Renamed(p, f) \in Staged /\ staging'[p][f].complete = "good"
    BY <1>2, <2>1, RenamedFacts, NewStaging
  <2> QED
    BY <1>1, <1>2, <1>3, <2>1, <2>2, PublishNext, StageStep
<1> QED
  BY <1>4, <1>5

(***************************************************************************)
(* remove and restore.                                                     *)
(***************************************************************************)
\* What holds at every place of a removal or a restore.
LEMMA TrashKnown ==
    ASSUME PacksInv, NEW i \in Procs, proc[i].pc \in AtTrash
    PROVE  LET e == proc[i].entry IN
           /\ PacksTypeOK /\ proc[i] \in Locals /\ Here(i) = proc[i].pack /\ Here(i) \in Packs
           /\ trashLock = i /\ i # None
           /\ e \in TrashIds /\ trash[e] # None /\ trash[e] \in Entries
           /\ trash[e].pack = proc[i].pack
           /\ trash[e].manifest \in BOOLEAN /\ trash[e].payload \in Contents \cup {None}
           /\ events.removals # 0 /\ events.removals \in 0..MaxRemovals
<1>1. proc[i].pc # "idle"
  BY DEF AtTrash, Moving, Restoring
<1>2. EntryIsRight(i) /\ proc[i].pack \in Packs /\ PacksTypeOK /\ proc[i] \in Locals /\ i # None
  BY <1>1, Known
<1>3. /\ trashLock = i /\ proc[i].entry \in TrashIds /\ trash[proc[i].entry] # None
      /\ trash[proc[i].entry].pack = proc[i].pack
  BY <1>2 DEF EntryIsRight
<1>4. trash[proc[i].entry] \in Entries
  BY <1>2, <1>3 DEF PacksTypeOK
<1>5. events.removals # 0 /\ events.removals \in 0..MaxRemovals
  BY <1>2, <1>3, EventTypes DEF PacksInv, TrashInv
<1> QED
  BY <1>2, <1>3, <1>4, <1>5 DEF Entries, Here

LEMMA EntryPlace ==
    ASSUME PacksInv, NEW i \in Procs, NEW l \in Locals, Become(i, l),
           l.pc \in AtTrash, l.pack \in Packs, EntryIsRight(i)'
    PROVE  PlaceIsRight(i)'
<1>1. proc'[i] = l /\ l.pc \notin Installing /\ l.pc # "startWrite" /\ l.pc # "completeWrite"
  BY Becomes DEF AtTrash, Moving, Restoring, Installing, Early, Trying, Failing
<1>2. OperationIsRight(i)' /\ FileIsRight(i)'
  BY <1>1
  DEF OperationIsRight, FileIsRight, Writing, Trying, Failing, Early, AtTrash, Moving, Restoring
<1> QED
  BY <1>1, <1>2 DEF PlaceIsRight

\* The handler of a removal is next.
LEMMA RollBackPlace ==
    ASSUME PacksInv, NEW i \in Procs, proc[i].pc \in AtTrash, Goto(i, "rollback"),
           UNCHANGED <<trash, trashLock>>,
           trash[proc[i].entry].payload = None \/ events'.breaks # 0
    PROVE  \E l \in Locals : /\ Become(i, l) /\ l.pc \in AtTrash /\ l.entry = proc[i].entry
                             /\ PlaceIsRight(i)'
<1> DEFINE l == [proc[i] EXCEPT !.pc = "rollback"]
<1>1. /\ proc[i] \in Locals /\ Become(i, l) /\ proc[i].pack \in Packs
      /\ trashLock = i /\ proc[i].entry \in TrashIds /\ trash[proc[i].entry] # None
      /\ trash[proc[i].entry].pack = proc[i].pack
  BY TrashKnown DEF Goto
<1>2. /\ l \in Locals /\ l.pc = "rollback" /\ l.pack = proc[i].pack
      /\ l.entry = proc[i].entry
  BY <1>1 DEF Locals, Moving
<1> HIDE DEF l
<1>3. proc'[i] = l
  BY <1>1, Becomes
<1>4. EntryIsRight(i)'
  BY <1>1, <1>2, <1>3 DEF EntryIsRight
<1> QED
  BY <1>1, <1>2, <1>4, EntryPlace DEF AtTrash, Moving

\* A step that makes no new damage.
LEMMA NoDamage ==
    ASSUME PacksInv, Damaged' \subseteq Damaged, events'.rots = events.rots
    PROVE  IsFiniteSet(Damaged') /\ Cardinality(Damaged') <= events'.rots
<1>1. IsFiniteSet(Damaged) /\ Cardinality(Damaged) <= events.rots /\ events.rots \in Nat
  BY EventTypes DEF PacksInv, OnlyVerifiedIsInstalled
<1>2. IsFiniteSet(Damaged') /\ Cardinality(Damaged') <= Cardinality(Damaged)
  BY <1>1, FS_Subset
<1> QED
  BY <1>1, <1>2, FS_CardinalityType

\* Damage that goes from one place to another.
LEMMA MovedDamage ==
    ASSUME PacksInv, NEW m \in [Damaged' -> Damaged],
           \A x, y \in Damaged' : m[x] = m[y] => x = y,
           events'.rots = events.rots
    PROVE  IsFiniteSet(Damaged') /\ Cardinality(Damaged') <= events'.rots
<1>1. IsFiniteSet(Damaged) /\ Cardinality(Damaged) <= events.rots /\ events.rots \in Nat
  BY EventTypes DEF PacksInv, OnlyVerifiedIsInstalled
<1>2. m \in Injection(Damaged', Damaged)
  BY DEF Injection, IsInjective
<1>3. IsFiniteSet(Damaged') /\ Cardinality(Damaged') <= Cardinality(Damaged)
  BY <1>1, <1>2, FS_Injection
<1> QED
  BY <1>1, <1>3, FS_CardinalityType

LEMMA PackToTrash ==
    ASSUME PacksInv, NEW p \in Packs, NEW e \in TrashIds,
           dir[p] # None, dir'[p] = None, \A q \in Packs \ {p} : dir'[q] = dir[q],
           trash'[e].payload = dir[p],
           \A x \in TrashIds \ {e} : trash'[x] = trash[x], events'.rots = events.rots
    PROVE  IsFiniteSet(Damaged') /\ Cardinality(Damaged') <= events'.rots
<1> DEFINE m == [x \in Damaged' |->
                   IF x[1] = "trash" /\ x[2] = e THEN <<"pack", p, x[3]>> ELSE x]
<1>1. ASSUME NEW x \in Damaged'
      PROVE  IF x[1] = "trash" /\ x[2] = e
             THEN x = <<"trash", e, x[3]>> /\ <<"pack", p, x[3]>> \in Damaged
             ELSE x \in Damaged /\ ~ (x[1] = "pack" /\ x[2] = p)
  BY DEF Damaged, Payloads, FileState
<1>2. m \in [Damaged' -> Damaged]
  BY <1>1
<1>3. \A x, y \in Damaged' : m[x] = m[y] => x = y
  BY <1>1
<1> HIDE DEF m
<1> QED
  BY <1>2, <1>3, MovedDamage

LEMMA TrashToPack ==
    ASSUME PacksInv, NEW p \in Packs, NEW e \in TrashIds,
           trash[e] # None, trash[e].payload # None, dir[p] = None,
           dir'[p] = trash[e].payload, \A q \in Packs \ {p} : dir'[q] = dir[q],
           trash'[e] = None \/ trash'[e].payload = None,
           \A x \in TrashIds \ {e} : trash'[x] = trash[x], events'.rots = events.rots
    PROVE  IsFiniteSet(Damaged') /\ Cardinality(Damaged') <= events'.rots
<1> DEFINE m == [x \in Damaged' |->
                   IF x[1] = "pack" /\ x[2] = p THEN <<"trash", e, x[3]>> ELSE x]
<1>1. ASSUME NEW x \in Damaged'
      PROVE  IF x[1] = "pack" /\ x[2] = p
             THEN x = <<"pack", p, x[3]>> /\ <<"trash", e, x[3]>> \in Damaged
             ELSE x \in Damaged /\ ~ (x[1] = "trash" /\ x[2] = e)
  BY DEF Damaged, Payloads, FileState
<1>2. m \in [Damaged' -> Damaged]
  BY <1>1
<1>3. \A x, y \in Damaged' : m[x] = m[y] => x = y
  BY <1>1
<1> HIDE DEF m
<1> QED
  BY <1>2, <1>3, MovedDamage

\* A step of the holder of the trash lock that changes one entry.
LEMMA EntryStep ==
    ASSUME PacksInv, NEW i \in Procs, NEW l \in Locals, Become(i, l), NEW e \in TrashIds,
           UNCHANGED <<staging, installLock>>,
           dir' \in [Packs -> Contents \cup {None}],
           trash' \in [TrashIds -> Entries \cup {None}],
           \A x \in TrashIds \ {e} : trash'[x] = trash[x],
           trashLock = None \/ (trashLock = i /\ proc[i].entry = e),
           trashLock' \in {None, i},
           events' = events \/ events' = [events EXCEPT !.removals = @ + 1],
           events'.removals \in 0..MaxRemovals, events'.removals # 0,
           events.breaks = 0 =>
              trash'[e] = None \/ trash'[e].payload = None \/ Restorable(e)',
           IsFiniteSet(Damaged') /\ Cardinality(Damaged') <= events'.rots,
           PlaceIsRight(i)'
    PROVE  PacksInv'
<1>1. PacksTypeOK /\ i # None /\ TrashInv /\ proc \in [Procs -> Locals]
  BY Known DEF PacksInv
<1>2. /\ events' \in EventCounts /\ events'.rots = events.rots
      /\ events'.stops = events.stops /\ events'.breaks = events.breaks
  BY <1>1 DEF PacksTypeOK, EventCounts
<1>3. Respects(i)
  BY <1>1, <1>2, NoneIsNothing DEF Respects
<1>4. CompleteIsWhole'
  BY DEF CompleteIsWhole
<1>5. TrashInv'
  BY <1>1, <1>2 DEF TrashInv, TrashIsRestorable, Payloads, Restorable
<1>6. /\ staging' \in [Packs -> [Files -> Staged]]
      /\ installLock' \in [Packs -> Procs \cup {None}] /\ trashLock' \in Procs \cup {None}
  BY <1>1 DEF PacksTypeOK
<1> QED
  BY <1>2, <1>3, <1>4, <1>5, <1>6, PackStep

LEMMA RequestRemoveSafe ==
    ASSUME PacksInv, NEW i \in Procs, NEW p \in Packs, RequestRemove(i, p)
    PROVE  PacksInv'
<1> DEFINE l == [Idle EXCEPT !.pc = "remove", !.pack = p]
<1>1. /\ Become(i, l) /\ proc[i].pc = "idle"
      /\ UNCHANGED <<dir, staging, trash, installLock, trashLock, events>>
  BY DEF RequestRemove
<1>2. l \in Locals /\ l.pc = "remove" /\ l.pack = p
  BY IdleType DEF Locals
<1> HIDE DEF l
<1>3. proc'[i] = l
  BY <1>1, Becomes
<1>4. PlaceIsRight(i)'
  BY <1>2, <1>3
  DEF PlaceIsRight, OperationIsRight, FileIsRight, EntryIsRight, Writing, AtTrash, Moving,
      Restoring, Installing, Early, Trying, Failing
<1> QED
  BY <1>1, <1>2, <1>4, SameLocks, QuietStep DEF AtTrash, Moving, Restoring

LEMMA GiveUpRemoveSafe ==
    ASSUME PacksInv, NEW i \in Procs, GiveUpRemove(i)
    PROVE  PacksInv'
BY IdleType, IdlePlace, SameLocks, QuietStep DEF GiveUpRemove, AtTrash, Moving, Restoring

LEMMA CreateEntrySafe ==
    ASSUME PacksInv, NEW i \in Procs, CreateEntry(i)
    PROVE  PacksInv'
<1>1. /\ proc[i].pc = "remove" /\ trashLock = None /\ UNCHANGED <<dir, staging, installLock>>
      /\ proc[i].pc \notin AtTrash
  BY DEF CreateEntry, AtTrash, Moving, Restoring
<1>2. /\ PacksTypeOK /\ proc[i] \in Locals /\ proc[i].pack \in Packs /\ i # None
      /\ Here(i) = proc[i].pack
  BY <1>1, Known DEF Here
<1>3. CASE Become(i, Idle) /\ UNCHANGED <<trash, trashLock, events>>
  BY <1>1, <1>3, IdleType, IdlePlace, SameLocks, QuietStep
<1>4. ASSUME events.removals < MaxRemovals, events' = [events EXCEPT !.removals = @ + 1],
             NEW e \in TrashIds, trash[e] = None,
             trash' = [trash EXCEPT ![e] = [pack |-> Here(i), manifest |-> FALSE,
                                            payload |-> None]],
             Become(i, [proc[i] EXCEPT !.pc = "manifest", !.entry = e]), trashLock' = i
      PROVE  PacksInv'
  <2> DEFINE l == [proc[i] EXCEPT !.pc = "manifest", !.entry = e]
             t == [pack |-> Here(i), manifest |-> FALSE, payload |-> None]
  <2>1. Become(i, l) /\ trash' = [trash EXCEPT ![e] = t]
    BY <1>4
  <2>2. /\ t \in Entries /\ t # None /\ t.pack = proc[i].pack /\ t.payload = None
    <3>1. Here(i) \in Packs
      BY <1>2
    <3>2. t \in Entries
      BY <3>1 DEF Entries
    <3> QED
      BY <1>2, <3>2, NoneIsNothing
  <2>3. l \in Locals /\ l.pc = "manifest" /\ l.entry = e /\ l.pack = proc[i].pack
    BY <1>2 DEF Locals, Moving
  <2> HIDE DEF l, t
  <2>4. /\ trash' \in [TrashIds -> Entries \cup {None}] /\ trash'[e] = t
        /\ \A x \in TrashIds \ {e} : trash'[x] = trash[x]
    BY <1>2, <2>1, <2>2 DEF PacksTypeOK
  <2>5. proc'[i] = l
    BY <2>1, Becomes
  <2>6. EntryIsRight(i)'
    BY <1>4, <2>2, <2>3, <2>4, <2>5 DEF EntryIsRight
  <2>7. PlaceIsRight(i)'
    BY <1>2, <2>1, <2>3, <2>6, EntryPlace DEF AtTrash, Moving
  <2>8. events'.rots = events.rots /\ events'.removals \in 0..MaxRemovals /\ events'.removals # 0
    <3>1. events.removals + 1 \in 0..MaxRemovals /\ events.removals + 1 # 0
      BY <1>2, <1>4, EventTypes, BoundsAssumption
    <3> QED
      BY <1>2, <1>4, <3>1, EventTypes
  <2>9. Damaged' \subseteq Damaged
    BY <1>1, <2>2, <2>4 DEF Damaged, Payloads, FileState
  <2>10. IsFiniteSet(Damaged') /\ Cardinality(Damaged') <= events'.rots
    BY <2>8, <2>9, NoDamage
  <2>11. dir' \in [Packs -> Contents \cup {None}]
    BY <1>1, <1>2 DEF PacksTypeOK
  <2> QED
    BY <1>1, <1>4, <2>1, <2>2, <2>3, <2>4, <2>7, <2>8, <2>10, <2>11, EntryStep
<1> QED
  BY <1>3, <1>4 DEF CreateEntry

\* The next place of a removal or a restore that goes on.
LEMMA TrashGoto ==
    ASSUME PacksInv, NEW i \in Procs, proc[i].pc \in AtTrash, NEW pc \in AtTrash, Goto(i, pc)
    PROVE  \E l \in Locals : /\ Become(i, l) /\ proc'[i] = l /\ l.pc = pc
                             /\ l.pack = proc[i].pack /\ l.entry = proc[i].entry
<1> DEFINE l == [proc[i] EXCEPT !.pc = pc]
<1>1. proc[i] \in Locals /\ Become(i, l)
  BY TrashKnown DEF Goto
<1>2. l \in Locals /\ l.pc = pc /\ l.pack = proc[i].pack /\ l.entry = proc[i].entry
  BY <1>1 DEF Locals, AtTrash
<1> HIDE DEF l
<1> QED
  BY <1>1, <1>2, Becomes

LEMMA WriteManifestSafe ==
    ASSUME PacksInv, NEW i \in Procs, WriteManifest(i)
    PROVE  PacksInv'
<1>1. /\ proc[i].pc = "manifest" /\ proc[i].pc \in AtTrash /\ "move" \in AtTrash
      /\ Goto(i, "move") /\ UNCHANGED <<dir, staging, installLock, trashLock, events>>
  BY DEF WriteManifest, AtTrash, Moving
<1>2. PICK e \in TrashIds : e = proc[i].entry
  BY <1>1, TrashKnown
<1>3. /\ PacksTypeOK /\ proc[i].pack \in Packs /\ trashLock = i /\ i # None
      /\ trash[e] # None /\ trash[e] \in Entries /\ trash[e].pack = proc[i].pack
      /\ trash[e].payload = None /\ events.removals # 0 /\ events.removals \in 0..MaxRemovals
  BY <1>1, <1>2, TrashKnown, Known DEF EntryIsRight, PacksTypeOK
<1> DEFINE t == [trash[e] EXCEPT !.manifest = TRUE]
<1>4. /\ t \in Entries /\ t # None /\ t.pack = proc[i].pack /\ t.payload = None /\ t.manifest
      /\ trash' = [trash EXCEPT ![e] = t]
  BY <1>2, <1>3, NoneIsNothing DEF Entries, WriteManifest
<1> HIDE DEF t
<1>5. /\ trash' \in [TrashIds -> Entries \cup {None}] /\ trash'[e] = t
      /\ \A x \in TrashIds \ {e} : trash'[x] = trash[x]
      /\ dir' \in [Packs -> Contents \cup {None}]
  BY <1>1, <1>3, <1>4 DEF PacksTypeOK
<1>6. PICK l \in Locals : /\ Become(i, l) /\ proc'[i] = l /\ l.pc = "move"
                          /\ l.pack = proc[i].pack /\ l.entry = e
  BY <1>1, <1>2, TrashGoto
<1>7. EntryIsRight(i)'
  BY <1>1, <1>3, <1>4, <1>5, <1>6 DEF EntryIsRight
<1>8. PlaceIsRight(i)'
  BY <1>1, <1>3, <1>6, <1>7, EntryPlace
<1>9. Damaged' \subseteq Damaged
  BY <1>1, <1>4, <1>5 DEF Damaged, Payloads, FileState
<1> QED
  BY <1>1, <1>2, <1>3, <1>4, <1>5, <1>6, <1>8, <1>9, NoDamage, EntryStep

LEMMA MovePackSafe ==
    ASSUME PacksInv, NEW i \in Procs, MovePack(i)
    PROVE  PacksInv'
<1>1. /\ proc[i].pc = "move" /\ proc[i].pc \in AtTrash /\ "moved" \in AtTrash
      /\ UNCHANGED <<staging, installLock, trashLock, events>>
  BY DEF MovePack, AtTrash, Moving
<1>2. PICK p \in Packs, e \in TrashIds : p = Here(i) /\ e = proc[i].entry
  BY <1>1, TrashKnown
<1>3. /\ PacksTypeOK /\ p = proc[i].pack /\ trashLock = i /\ i # None
      /\ trash[e] # None /\ trash[e] \in Entries /\ trash[e].pack = p
      /\ trash[e].payload = None /\ trash[e].manifest
      /\ events.removals # 0 /\ events.removals \in 0..MaxRemovals
  BY <1>1, <1>2, TrashKnown, Known DEF EntryIsRight, PacksTypeOK
<1>4. CASE dir[p] = None
  <2>1. Goto(i, "rollback") /\ UNCHANGED <<dir, trash>>
    BY <1>2, <1>4 DEF MovePack
  <2>2. PICK l \in Locals : /\ Become(i, l) /\ l.pc \in AtTrash /\ l.entry = proc[i].entry
                            /\ PlaceIsRight(i)'
    BY <1>1, <1>2, <1>3, <2>1, RollBackPlace
  <2>3. staging' \in [Packs -> [Files -> Staged]] /\ \A q \in Packs : staging'[q] = staging[q]
    BY <1>1, <1>3 DEF PacksTypeOK
  <2> QED
    BY <1>1, <2>1, <2>2, <2>3, SameLocks, PrivateStep
<1>5. CASE dir[p] # None
  <2> DEFINE t == [trash[e] EXCEPT !.payload = dir[p]]
  <2>1. /\ trash' = [trash EXCEPT ![e] = t] /\ dir' = [dir EXCEPT ![p] = None]
        /\ Goto(i, "moved")
    BY <1>2, <1>5 DEF MovePack
  <2>2. dir[p] \in Contents
    BY <1>3, <1>5 DEF PacksTypeOK
  <2>3. t \in Entries /\ t # None /\ t.pack = p /\ t.payload = dir[p] /\ t.manifest
    BY <1>3, <2>2, NoneIsNothing DEF Entries
  <2> HIDE DEF t
  <2>4. /\ trash' \in [TrashIds -> Entries \cup {None}] /\ trash'[e] = t
        /\ \A x \in TrashIds \ {e} : trash'[x] = trash[x]
        /\ dir' \in [Packs -> Contents \cup {None}] /\ dir'[p] = None
        /\ \A q \in Packs \ {p} : dir'[q] = dir[q]
    BY <1>3, <2>1, <2>3 DEF PacksTypeOK
  <2>5. PICK l \in Locals : /\ Become(i, l) /\ proc'[i] = l /\ l.pc = "moved"
                            /\ l.pack = p /\ l.entry = e
    BY <1>1, <1>2, <1>3, <2>1, TrashGoto
  <2>6. Restorable(e)'
    BY <1>5, <2>3, <2>4 DEF Restorable
  <2>7. EntryIsRight(i)'
    BY <1>1, <1>3, <2>3, <2>4, <2>5, <2>6 DEF EntryIsRight, Restorable
  <2>8. PlaceIsRight(i)'
    BY <1>1, <2>5, <2>7, EntryPlace
  <2>9. IsFiniteSet(Damaged') /\ Cardinality(Damaged') <= events'.rots
    BY <1>1, <1>5, <2>3, <2>4, PackToTrash
  <2> QED
    BY <1>1, <1>2, <1>3, <2>4, <2>5, <2>6, <2>8, <2>9, EntryStep
<1> QED
  BY <1>4, <1>5

LEMMA FinishMoveSafe ==
    ASSUME PacksInv, NEW i \in Procs, FinishMove(i)
    PROVE  PacksInv'
<1>1. /\ proc[i].pc = "moved" /\ proc[i].pc \in AtTrash /\ Become(i, Idle) /\ trashLock' = None
      /\ UNCHANGED <<dir, staging, trash, installLock, events>>
  BY DEF FinishMove, ReleaseTrash, AtTrash, Moving
<1>2. PacksTypeOK /\ trashLock = i /\ Restorable(proc[i].entry)
  BY <1>1, TrashKnown, Known DEF EntryIsRight
<1>3. OwnLocks(i) /\ staging' \in [Packs -> [Files -> Staged]]
  BY <1>1, <1>2 DEF OwnLocks, PacksTypeOK
<1> QED
  BY <1>1, <1>2, <1>3, IdleType, IdlePlace, PrivateStep

LEMMA RollBackSafe ==
    ASSUME PacksInv, NEW i \in Procs, RollBack(i)
    PROVE  PacksInv'
<1>1. /\ proc[i].pc = "rollback" /\ proc[i].pc \in AtTrash /\ Become(i, Idle)
      /\ trashLock' = None /\ UNCHANGED <<staging, installLock, events>>
  BY DEF RollBack, ReleaseTrash, AtTrash, Moving
<1>2. PICK p \in Packs, e \in TrashIds : p = Here(i) /\ e = proc[i].entry
  BY <1>1, TrashKnown
<1>3. /\ PacksTypeOK /\ p = proc[i].pack /\ trashLock = i /\ i # None
      /\ trash[e] # None /\ trash[e] \in Entries /\ trash[e].payload \in Contents \cup {None}
      /\ events.removals # 0 /\ events.removals \in 0..MaxRemovals
      /\ events.breaks = 0 => trash[e].payload = None
  BY <1>1, <1>2, TrashKnown, Known DEF EntryIsRight, PacksTypeOK
<1>4. PlaceIsRight(i)' /\ Idle \in Locals
  BY <1>1, IdleType, IdlePlace
<1> DEFINE left == trash[e].payload # None /\ dir[p] # None
           t == IF left THEN [trash[e] EXCEPT !.manifest = FALSE] ELSE None
<1>5. /\ trash' = [trash EXCEPT ![e] = t]
      /\ dir' = IF trash[e].payload # None /\ dir[p] = None
                THEN [dir EXCEPT ![p] = trash[e].payload] ELSE dir
  BY <1>2 DEF RollBack
<1>6. /\ t \in Entries \cup {None}
      /\ ~ left => t = None
      /\ left => t # None /\ t.payload = trash[e].payload
  BY <1>3, NoneIsNothing DEF Entries
<1> HIDE DEF t
<1>7. /\ trash' \in [TrashIds -> Entries \cup {None}] /\ trash'[e] = t
      /\ \A x \in TrashIds \ {e} : trash'[x] = trash[x]
      /\ dir' \in [Packs -> Contents \cup {None}]
  <2>1. /\ trash' \in [TrashIds -> Entries \cup {None}] /\ trash'[e] = t
        /\ \A x \in TrashIds \ {e} : trash'[x] = trash[x]
    BY <1>3, <1>5, <1>6 DEF PacksTypeOK
  <2>2. dir' \in [Packs -> Contents \cup {None}]
    BY <1>3, <1>5 DEF PacksTypeOK
  <2> QED
    BY <2>1, <2>2
<1>8. IsFiniteSet(Damaged') /\ Cardinality(Damaged') <= events'.rots
  <2>1. CASE trash[e].payload # None /\ dir[p] = None
    <3>1. dir'[p] = trash[e].payload /\ \A q \in Packs \ {p} : dir'[q] = dir[q]
      BY <1>3, <1>5, <2>1 DEF PacksTypeOK
    <3> QED
      BY <1>1, <1>3, <1>6, <1>7, <2>1, <3>1, TrashToPack
  <2>2. CASE ~ (trash[e].payload # None /\ dir[p] = None)
    <3>1. dir' = dir
      BY <1>5, <2>2
    <3>2. Damaged' \subseteq Damaged
      BY <1>3, <1>6, <1>7, <3>1 DEF Damaged, Payloads, FileState
    <3> QED
      BY <1>1, <3>2, NoDamage
  <2> QED
    BY <2>1, <2>2
<1>9. events.breaks = 0 => trash'[e] = None
  BY <1>3, <1>6, <1>7
<1> QED
  BY <1>1, <1>2, <1>3, <1>4, <1>7, <1>8, <1>9, EntryStep

(***************************************************************************)
(* restore, and what may happen to a process or to the disk.               *)
(***************************************************************************)
LEMMA BeginRestoreSafe ==
    ASSUME PacksInv, NEW i \in Procs, NEW e \in TrashIds, BeginRestore(i, e)
    PROVE  PacksInv'
<1> DEFINE l == [Idle EXCEPT !.pc = "restore", !.pack = trash[e].pack, !.entry = e]
<1>1. /\ Become(i, l) /\ proc[i].pc = "idle" /\ trashLock = None /\ trashLock' = i
      /\ Restorable(e) /\ UNCHANGED <<dir, staging, trash, installLock, events>>
  BY DEF BeginRestore
<1>2. PacksTypeOK /\ trash[e] # None /\ trash[e] \in Entries
  BY <1>1, Known DEF Restorable, PacksTypeOK
<1>3. trash[e].pack \in Packs
  BY <1>2 DEF Entries
<1>4. l \in Locals /\ l.pc = "restore" /\ l.pack = trash[e].pack /\ l.entry = e
  BY <1>3, IdleType DEF Locals, Restoring
<1> HIDE DEF l
<1>5. proc'[i] = l
  BY <1>1, Becomes
<1>6. EntryIsRight(i)'
  BY <1>1, <1>2, <1>4, <1>5 DEF EntryIsRight, Restorable
<1>7. PlaceIsRight(i)'
  BY <1>1, <1>3, <1>4, <1>6, EntryPlace DEF AtTrash, Restoring
<1>8. OwnLocks(i) /\ staging' \in [Packs -> [Files -> Staged]]
  BY <1>1, <1>2 DEF OwnLocks, PacksTypeOK
<1> QED
  BY <1>1, <1>4, <1>7, <1>8, PrivateStep DEF AtTrash, Moving, Restoring

LEMMA MoveBackSafe ==
    ASSUME PacksInv, NEW i \in Procs, MoveBack(i)
    PROVE  PacksInv'
<1>1. /\ proc[i].pc = "restore" /\ proc[i].pc \in AtTrash /\ "forget" \in AtTrash
      /\ UNCHANGED <<staging, installLock, events>>
  BY DEF MoveBack, AtTrash, Restoring
<1>2. PICK p \in Packs, e \in TrashIds : p = Here(i) /\ e = proc[i].entry
  BY <1>1, TrashKnown
<1>3. /\ PacksTypeOK /\ p = proc[i].pack /\ trashLock = i /\ i # None
      /\ trash[e] # None /\ trash[e] \in Entries /\ trash[e].pack = p
      /\ Restorable(e) /\ trash[e].payload # None /\ trash[e].payload \in Contents \cup {None}
      /\ events.removals # 0 /\ events.removals \in 0..MaxRemovals
  BY <1>1, <1>2, TrashKnown, Known DEF EntryIsRight, PacksTypeOK, Restorable
<1>4. CASE dir[p] # None
  <2>1. Become(i, Idle) /\ trashLock' = None /\ UNCHANGED <<dir, trash>>
    BY <1>2, <1>4 DEF MoveBack, ReleaseTrash
  <2>2. OwnLocks(i) /\ staging' \in [Packs -> [Files -> Staged]]
    BY <1>1, <1>3, <2>1 DEF OwnLocks, PacksTypeOK
  <2> QED
    BY <1>1, <1>2, <1>3, <2>1, <2>2, IdleType, IdlePlace, PrivateStep
<1>5. CASE dir[p] = None
  <2> DEFINE t == [trash[e] EXCEPT !.payload = None]
  <2>1. /\ trash' = [trash EXCEPT ![e] = t] /\ dir' = [dir EXCEPT ![p] = trash[e].payload]
        /\ Goto(i, "forget") /\ trashLock' = trashLock
    BY <1>2, <1>5 DEF MoveBack
  <2>2. t \in Entries /\ t # None /\ t.pack = p /\ t.payload = None
    BY <1>3, NoneIsNothing DEF Entries
  <2> HIDE DEF t
  <2>3. /\ trash' \in [TrashIds -> Entries \cup {None}] /\ trash'[e] = t
        /\ \A x \in TrashIds \ {e} : trash'[x] = trash[x]
    BY <1>3, <2>1, <2>2 DEF PacksTypeOK
  <2>4. /\ dir' \in [Packs -> Contents \cup {None}] /\ dir'[p] = trash[e].payload
        /\ \A q \in Packs \ {p} : dir'[q] = dir[q]
    BY <1>3, <2>1 DEF PacksTypeOK
  <2>5. PICK l \in Locals : /\ Become(i, l) /\ proc'[i] = l /\ l.pc = "forget"
                            /\ l.pack = p /\ l.entry = e
    BY <1>1, <1>2, <1>3, <2>1, TrashGoto
  <2>6. EntryIsRight(i)'
    BY <1>3, <2>1, <2>2, <2>3, <2>5 DEF EntryIsRight
  <2>7. PlaceIsRight(i)'
    BY <1>1, <2>5, <2>6, EntryPlace
  <2>8. IsFiniteSet(Damaged') /\ Cardinality(Damaged') <= events'.rots
    BY <1>1, <1>3, <1>5, <2>2, <2>3, <2>4, TrashToPack
  <2> QED
    BY <1>1, <1>2, <1>3, <2>1, <2>2, <2>3, <2>4, <2>5, <2>7, <2>8, EntryStep
<1> QED
  BY <1>4, <1>5

LEMMA UnlinkManifestSafe ==
    ASSUME PacksInv, NEW i \in Procs, UnlinkManifest(i)
    PROVE  PacksInv'
<1>1. /\ proc[i].pc = "forget" /\ proc[i].pc \in AtTrash /\ "rmdir" \in AtTrash
      /\ Goto(i, "rmdir") /\ UNCHANGED <<dir, staging, installLock, trashLock, events>>
  BY DEF UnlinkManifest, AtTrash, Restoring
<1>2. PICK e \in TrashIds : e = proc[i].entry
  BY <1>1, TrashKnown
<1>3. /\ PacksTypeOK /\ proc[i].pack \in Packs /\ trashLock = i /\ i # None
      /\ trash[e] # None /\ trash[e] \in Entries /\ trash[e].pack = proc[i].pack
      /\ trash[e].payload = None /\ events.removals # 0 /\ events.removals \in 0..MaxRemovals
  BY <1>1, <1>2, TrashKnown, Known DEF EntryIsRight, PacksTypeOK
<1> DEFINE t == [trash[e] EXCEPT !.manifest = FALSE]
<1>4. /\ t \in Entries /\ t # None /\ t.pack = proc[i].pack /\ t.payload = None
      /\ trash' = [trash EXCEPT ![e] = t]
  BY <1>2, <1>3, NoneIsNothing DEF Entries, UnlinkManifest
<1> HIDE DEF t
<1>5. /\ trash' \in [TrashIds -> Entries \cup {None}] /\ trash'[e] = t
      /\ \A x \in TrashIds \ {e} : trash'[x] = trash[x]
      /\ dir' \in [Packs -> Contents \cup {None}]
  BY <1>1, <1>3, <1>4 DEF PacksTypeOK
<1>6. PICK l \in Locals : /\ Become(i, l) /\ proc'[i] = l /\ l.pc = "rmdir"
                          /\ l.pack = proc[i].pack /\ l.entry = e
  BY <1>1, <1>2, TrashGoto
<1>7. EntryIsRight(i)'
  BY <1>1, <1>3, <1>4, <1>5, <1>6 DEF EntryIsRight
<1>8. PlaceIsRight(i)'
  BY <1>1, <1>3, <1>6, <1>7, EntryPlace
<1>9. Damaged' \subseteq Damaged
  BY <1>1, <1>4, <1>5 DEF Damaged, Payloads, FileState
<1> QED
  BY <1>1, <1>2, <1>3, <1>4, <1>5, <1>6, <1>8, <1>9, NoDamage, EntryStep

LEMMA RemoveEntrySafe ==
    ASSUME PacksInv, NEW i \in Procs, RemoveEntry(i)
    PROVE  PacksInv'
<1>1. /\ proc[i].pc = "rmdir" /\ proc[i].pc \in AtTrash /\ Become(i, Idle) /\ trashLock' = None
      /\ UNCHANGED <<dir, staging, installLock, events>>
  BY DEF RemoveEntry, ReleaseTrash, AtTrash, Restoring
<1>2. PICK e \in TrashIds : e = proc[i].entry
  BY <1>1, TrashKnown
<1>3. /\ PacksTypeOK /\ trashLock = i /\ trash' = [trash EXCEPT ![e] = None]
      /\ events.removals # 0 /\ events.removals \in 0..MaxRemovals
  BY <1>1, <1>2, TrashKnown DEF PacksTypeOK, RemoveEntry
<1>4. /\ trash' \in [TrashIds -> Entries \cup {None}] /\ trash'[e] = None
      /\ \A x \in TrashIds \ {e} : trash'[x] = trash[x]
      /\ dir' \in [Packs -> Contents \cup {None}]
  BY <1>1, <1>3 DEF PacksTypeOK
<1>5. Damaged' \subseteq Damaged
  BY <1>1, <1>4 DEF Damaged, Payloads, FileState
<1> QED
  BY <1>1, <1>2, <1>3, <1>4, <1>5, IdleType, IdlePlace, NoDamage, EntryStep

LEMMA WriteFailsSafe ==
    ASSUME PacksInv, NEW i \in Procs, WriteFails(i)
    PROVE  PacksInv'
<1>1. UNCHANGED <<dir, staging, trash, trashLock, events>>
  BY DEF WriteFails
<1>2. CASE proc[i].pc \in {"startWrite", "failedWrite"} /\ Abort(i)
  <2>1. proc[i].pc \notin AtTrash
    BY <1>2 DEF AtTrash, Moving, Restoring
  <2> QED
    BY <1>1, <1>2, <2>1, AbortFacts, QuietStep
<1>3. CASE /\ proc[i].pc \in {"copy", "updateWrite", "publish", "completeWrite"}
           /\ Raise(i) /\ UNCHANGED installLock
  <2>1. proc[i].pc \in Trying /\ proc[i].pc \notin AtTrash
    BY <1>3 DEF AtTrash, Moving, Restoring, Trying
  <2> QED
    BY <1>1, <1>3, <2>1, RaiseFacts, QuietStep
<1>4. CASE /\ proc[i].pc \in {"manifest", "move"}
           /\ Goto(i, "rollback") /\ UNCHANGED installLock
  <2>1. proc[i].pc \in AtTrash
    BY <1>4 DEF AtTrash, Moving
  <2>2. trash[proc[i].entry].payload = None
    BY <1>4, <2>1, Known DEF EntryIsRight
  <2>3. PICK l \in Locals : /\ Become(i, l) /\ l.pc \in AtTrash /\ l.entry = proc[i].entry
                            /\ PlaceIsRight(i)'
    BY <1>1, <1>4, <2>1, <2>2, RollBackPlace
  <2>4. staging' \in [Packs -> [Files -> Staged]] /\ \A q \in Packs : staging'[q] = staging[q]
    BY <1>1, Known DEF PacksTypeOK
  <2> QED
    BY <1>1, <1>4, <2>3, <2>4, SameLocks, PrivateStep
<1> QED
  BY <1>2, <1>3, <1>4 DEF WriteFails

LEMMA TrashFailsSafe ==
    ASSUME PacksInv, NEW i \in Procs, TrashFails(i)
    PROVE  PacksInv'
<1>1. /\ proc[i].pc \in AtTrash /\ Become(i, Idle) /\ trashLock' = None
      /\ UNCHANGED <<staging, installLock, events>>
  BY DEF TrashFails, ReleaseTrash, AtTrash, Moving
<1>2. PICK p \in Packs, e \in TrashIds : p = Here(i) /\ e = proc[i].entry
  BY <1>1, TrashKnown
<1>3. /\ PacksTypeOK /\ p = proc[i].pack /\ trashLock = i /\ i # None
      /\ trash[e] # None /\ trash[e] \in Entries /\ trash[e].payload \in Contents \cup {None}
      /\ trash[e].manifest \in BOOLEAN
      /\ events.removals # 0 /\ events.removals \in 0..MaxRemovals
  BY <1>1, <1>2, TrashKnown DEF PacksTypeOK
<1>4. PlaceIsRight(i)' /\ Idle \in Locals
  BY <1>1, IdleType, IdlePlace
<1>5. CASE UNCHANGED <<dir, trash>>
  <2>1. OwnLocks(i) /\ staging' \in [Packs -> [Files -> Staged]]
    BY <1>1, <1>3 DEF OwnLocks, PacksTypeOK
  <2> QED
    BY <1>1, <1>4, <1>5, <2>1, PrivateStep
<1> DEFINE back == trash[e].payload # None /\ dir[p] = None
           t(m) == [trash[e] EXCEPT !.manifest = m, !.payload = IF back THEN None ELSE @]
<1>6. ASSUME proc[i].pc = "rollback", NEW m \in BOOLEAN, trash' = [trash EXCEPT ![e] = t(m)],
             dir' = IF back THEN [dir EXCEPT ![p] = trash[e].payload] ELSE dir
      PROVE  PacksInv'
  <2>1. events.breaks = 0 => trash[e].payload = None
    BY <1>1, <1>2, <1>6, Known DEF EntryIsRight
  <2>2. /\ t(m) \in Entries /\ t(m) # None
        /\ t(m).payload = IF back THEN None ELSE trash[e].payload
    <3>1. /\ t(m) \in Entries
          /\ t(m).payload = IF back THEN None ELSE trash[e].payload
      BY <1>3 DEF Entries
    <3> QED
      BY <3>1, NoneIsNothing
  <2> HIDE DEF t
  <2>3. /\ trash' \in [TrashIds -> Entries \cup {None}] /\ trash'[e] = t(m)
        /\ \A x \in TrashIds \ {e} : trash'[x] = trash[x]
    BY <1>3, <1>6, <2>2 DEF PacksTypeOK
  <2>4. dir' \in [Packs -> Contents \cup {None}]
    BY <1>3, <1>6 DEF PacksTypeOK
  <2>5. IsFiniteSet(Damaged') /\ Cardinality(Damaged') <= events'.rots
    <3>1. CASE back
      <4>1. dir'[p] = trash[e].payload /\ \A q \in Packs \ {p} : dir'[q] = dir[q]
        BY <1>3, <1>6, <3>1 DEF PacksTypeOK
      <4> QED
        BY <1>1, <1>3, <2>2, <2>3, <3>1, <4>1, TrashToPack
    <3>2. CASE ~ back
      <4>1. dir' = dir
        BY <1>6, <3>2
      <4>2. Damaged' \subseteq Damaged
        BY <1>3, <2>2, <2>3, <3>2, <4>1 DEF Damaged, Payloads, FileState
      <4> QED
        BY <1>1, <4>2, NoDamage
    <3> QED
      BY <3>1, <3>2
  <2>6. events.breaks = 0 => trash'[e].payload = None
    BY <2>1, <2>2, <2>3
  <2> QED
    BY <1>1, <1>2, <1>3, <1>4, <2>3, <2>4, <2>5, <2>6, EntryStep
<1> QED
  BY <1>2, <1>3, <1>5, <1>6 DEF TrashFails

LEMMA CrashSafe ==
    ASSUME PacksInv, NEW i \in Procs, Crash(i)
    PROVE  PacksInv'
<1>1. /\ Stops /\ Abort(i) /\ UNCHANGED <<dir, staging, trash>>
      /\ trashLock' = IF trashLock = i THEN None ELSE trashLock
  BY DEF Crash
<1>2. PacksTypeOK /\ i # None
  BY Known
<1>3. OwnLocks(i) /\ staging' \in [Packs -> [Files -> Staged]]
  BY <1>1, <1>2 DEF OwnLocks, PacksTypeOK, Abort
<1> QED
  BY <1>1, <1>2, <1>3, AbortFacts, PrivateStep

LEMMA InterruptSafe ==
    ASSUME PacksInv, NEW i \in Procs, Interrupt(i)
    PROVE  PacksInv'
<1>1. UNCHANGED <<dir, staging, trash, installLock>>
  BY DEF Interrupt
<1>2. PacksTypeOK /\ i # None
  BY Known
<1>3. staging' \in [Packs -> [Files -> Staged]]
  BY <1>1, <1>2 DEF PacksTypeOK
<1>4. CASE proc[i].pc \in Trying /\ Stops /\ Raise(i) /\ UNCHANGED trashLock
  BY <1>1, <1>2, <1>3, <1>4, RaiseFacts, PrivateStep
<1>5. CASE /\ proc[i].pc \in Moving \ {"rollback"} /\ Breaks
           /\ Goto(i, "rollback") /\ UNCHANGED trashLock
  <2>1. proc[i].pc \in AtTrash
    BY <1>5 DEF AtTrash
  <2>2. events'.breaks # 0
    BY <1>5, StopsAreCounted
  <2>3. PICK l \in Locals : Become(i, l) /\ PlaceIsRight(i)'
    BY <1>1, <1>5, <2>1, <2>2, RollBackPlace
  <2> QED
    BY <1>1, <1>3, <1>5, <2>3, SameLocks, PrivateStep
<1>6. CASE proc[i].pc \in Restoring /\ Stops /\ ReleaseTrash(i)
  <2>1. trashLock = i
    BY <1>6, TrashKnown DEF AtTrash
  <2>2. Become(i, Idle) /\ trashLock' = None
    BY <1>6 DEF ReleaseTrash
  <2>3. OwnLocks(i)
    BY <1>1, <1>2, <2>1, <2>2 DEF OwnLocks, PacksTypeOK
  <2> QED
    BY <1>1, <1>2, <1>3, <1>6, <2>2, <2>3, IdleType, IdlePlace, PrivateStep
<1> QED
  BY <1>4, <1>5, <1>6 DEF Interrupt

\* Bytes change on disk.
LEMMA RotSafe ==
    ASSUME PacksInv, NEW p \in Packs, NEW f \in Files, Rot(p, f)
    PROVE  PacksInv'
<1>1. /\ PacksTypeOK /\ IsFiniteSet(Damaged) /\ Cardinality(Damaged) <= events.rots
      /\ TrashInv /\ \A i \in Procs : PlaceIsRight(i)
      /\ UNCHANGED <<staging, trash, installLock, trashLock, proc>>
  BY DEF Rot, PacksInv, OnlyVerifiedIsInstalled
<1>2. /\ events' \in EventCounts
      /\ events'.rots = events.rots + 1 /\ events'.rots # 0 /\ events'.rots \in Nat
      /\ events'.removals = events.removals /\ events'.stops = events.stops
      /\ events'.breaks = events.breaks
  <2>1. events.rots < MaxRots /\ events' = [events EXCEPT !.rots = @ + 1]
    BY DEF Rot
  <2>2. events.rots + 1 \in 0..MaxRots /\ events.rots + 1 # 0
    BY <1>1, <2>1, EventTypes, BoundsAssumption
  <2> QED
    BY <1>1, <2>1, <2>2, EventTypes, BoundsAssumption DEF EventCounts
<1> DEFINE c == [dir[p] EXCEPT !.files[f] = "bad"]
<1>3. /\ dir[p] \in Contents /\ dir' = [dir EXCEPT ![p] = c]
  BY <1>1 DEF Rot, FileState, PacksTypeOK
<1>4. /\ c \in Contents /\ c.files[f] = "bad"
      /\ \A g \in Files \ {f} : c.files[g] = dir[p].files[g]
  BY <1>3 DEF Contents
<1>5. \A g \in Files : FileState(p, g) = dir[p].files[g]
  BY <1>3, NoneIsNothing DEF FileState
<1> HIDE DEF c
<1>6. /\ dir' \in [Packs -> Contents \cup {None}]
      /\ \A g \in Files : FileState(p, g)' = c.files[g]
      /\ \A q \in Packs \ {p} : \A g \in Files : FileState(q, g)' = FileState(q, g)
  BY <1>1, <1>3, <1>4, NewDir
<1>7. Damaged' \subseteq Damaged \cup {<<"pack", p, f>>}
  BY <1>1, <1>4, <1>5, <1>6, SMTT(30) DEF Damaged, Payloads
<1>8. IsFiniteSet(Damaged') /\ Cardinality(Damaged') <= events'.rots
  <2> DEFINE D == Damaged \cup {<<"pack", p, f>>}
  <2>1. /\ IsFiniteSet(D) /\ Cardinality(D) <= Cardinality(Damaged) + 1
        /\ Cardinality(Damaged) \in Nat
    <3>1. Cardinality(Damaged) \in Nat
      BY <1>1, FS_CardinalityType
    <3>2. /\ IsFiniteSet(D)
          /\ Cardinality(D) = IF <<"pack", p, f>> \in Damaged THEN Cardinality(Damaged)
                              ELSE Cardinality(Damaged) + 1
      BY <1>1, FS_AddElement
    <3> HIDE DEF D
    <3> QED
      BY <3>1, <3>2
  <2>2. IsFiniteSet(Damaged') /\ Cardinality(Damaged') <= Cardinality(D)
    BY <1>7, <2>1, FS_Subset
  <2>3. Cardinality(D) \in Nat /\ Cardinality(Damaged') \in Nat
    BY <2>1, <2>2, FS_CardinalityType
  <2> HIDE DEF D
  <2>4. events.rots \in Nat
    BY <1>1, EventTypes
  <2> QED
    BY <1>1, <1>2, <2>1, <2>2, <2>3, <2>4
<1>9. \A j \in Procs : PlaceIsRight(j)'
  <2>1. Respects(None)
    BY <1>1, <1>2 DEF Respects
  <2>2. \A j \in Procs : j # None /\ proc'[j] = proc[j]
    BY <1>1, NoneIsNothing
  <2> QED
    BY <2>1, <2>2, OthersStay
<1>10. CompleteIsWhole'
  BY <1>2 DEF CompleteIsWhole
<1>11. TrashInv'
  BY <1>1, <1>2 DEF TrashInv, TrashIsRestorable, Payloads, Restorable
<1> QED
  BY <1>1, <1>2, <1>6, <1>8, <1>9, <1>10, <1>11
  DEF PacksInv, PacksTypeOK, OnlyVerifiedIsInstalled

LEMMA StutterSafe ==
    ASSUME PacksInv, UNCHANGED vars
    PROVE  PacksInv'
<1>1. PacksTypeOK' /\ TrashInv' /\ CompleteIsWhole'
  BY DEF vars, PacksInv, PacksTypeOK, TrashInv, TrashIsRestorable, Payloads, CompleteIsWhole,
         Restorable, Record, FileState
<1>2. Damaged' = Damaged
  BY DEF vars, Damaged, Payloads, FileState
<1>3. \A i \in Procs : PlaceIsRight(i)'
  <2>1. Respects(None) /\ \A i \in Procs : i # None /\ proc'[i] = proc[i]
    BY NoneIsNothing DEF vars, Respects, FileState
  <2> QED
    BY <2>1, OthersStay
<1> QED
  BY <1>1, <1>2, <1>3 DEF vars, PacksInv, OnlyVerifiedIsInstalled

(***************************************************************************)
(* The theorems.                                                           *)
(***************************************************************************)
LEMMA InitSafe ==
    ASSUME Init
    PROVE  PacksInv
<1>1. NoPart \in [size : 0..(Chunks + 1), good : BOOLEAN]
  BY FilesAreNat DEF NoPart
<1>2. [complete |-> "absent", part |-> NoPart] \in Staged
  BY <1>1 DEF Staged
<1>3. PacksTypeOK
  <2>1. events \in EventCounts
    BY BoundsAssumption DEF Init, EventCounts
  <2>2. staging \in [Packs -> [Files -> Staged]]
    BY <1>2 DEF Init
  <2> QED
    BY <2>1, <2>2, IdleType DEF Init, PacksTypeOK
<1>4. Damaged = {}
  BY DEF Init, Damaged, Payloads, FileState
<1>5. IsFiniteSet(Damaged) /\ OnlyVerifiedIsInstalled
  BY <1>4, FS_EmptySet DEF Init, OnlyVerifiedIsInstalled
<1>6. CompleteIsWhole
  BY DEF Init, CompleteIsWhole, Record
<1>7. TrashInv
  BY DEF Init, TrashInv, TrashIsRestorable, Payloads
<1>8. \A i \in Procs : PlaceIsRight(i)
  BY IdleType
  DEF Init, PlaceIsRight, OperationIsRight, FileIsRight, EntryIsRight, Writing, AtTrash, Moving,
      Restoring, Installing, Early, Trying, Failing
<1> QED
  BY <1>3, <1>5, <1>6, <1>7, <1>8 DEF PacksInv

LEMMA NextSafe ==
    ASSUME PacksInv, [Next]_vars
    PROVE  PacksInv'
<1>1. ASSUME NEW i \in Procs, InstallStep(i)
      PROVE  PacksInv'
  BY <1>1, InspectSafe, InstallDependenciesSafe, LoadProgressSafe, StartProgressSafe,
     WriteStartSafe, CheckInstalledSafe, FetchSafe, CopyChunkSafe, EndOfDataSafe,
     ReuseStagedSafe, PublishSafe, ReadUpdateSafe, WriteUpdateSafe, ReadCompleteSafe,
     WriteCompleteSafe, ReadFailureSafe, WriteFailureSafe
  DEF InstallStep
<1>2. ASSUME NEW i \in Procs, TrashStep(i)
      PROVE  PacksInv'
  BY <1>2, CreateEntrySafe, GiveUpRemoveSafe, WriteManifestSafe, MovePackSafe, FinishMoveSafe,
     RollBackSafe, MoveBackSafe, UnlinkManifestSafe, RemoveEntrySafe
  DEF TrashStep
<1> QED
  BY <1>1, <1>2, WriteFailsSafe, TrashFailsSafe, CrashSafe, InterruptSafe, BeginInstallSafe, RequestRemoveSafe,
     BeginRestoreSafe, RotSafe, StutterSafe
  DEF Next

\* Whatever the processes do, and wherever they are stopped, the locks guarantee
\* each of them what its place relies on (model_packs/operations.py, trash.py).
THEOREM PacksInvariant == Spec => []PacksInv
<1>1. Init => PacksInv
  BY InitSafe
<1>2. PacksInv /\ [Next]_vars => PacksInv'
  BY NextSafe
<1> QED
  BY <1>1, <1>2, PTL DEF Spec

\* Every variable keeps the type its declaration states.
THEOREM PacksTypes == Spec => []PacksTypeOK
<1>1. PacksInv => PacksTypeOK
  BY DEF PacksInv
<1> QED
  BY <1>1, PacksInvariant, PTL

\* What gets into a pack or the trash has been verified: there are never more
\* damaged files than files damaged after their installation (_install_locked).
THEOREM VerifiedIsInstalled == Spec => []OnlyVerifiedIsInstalled
<1>1. PacksInv => OnlyVerifiedIsInstalled
  BY DEF PacksInv
<1> QED
  BY <1>1, PacksInvariant, PTL

\* While nobody removes a pack and the disk is sound, a record that says complete
\* lies beside the whole pack, after any number of stopped and failed attempts.
THEOREM CompleteIsWholePack == Spec => []CompleteIsWhole
<1>1. PacksInv => CompleteIsWhole
  BY DEF PacksInv
<1> QED
  BY <1>1, PacksInvariant, PTL

\* A pack in the trash can be restored, wherever a removal or a restore is killed
\* or raises, unless Ctrl-C has interrupted a removal (ManagedPackTrash writes the
\* manifest before the move and deletes it after the move back).
THEOREM TrashStaysRestorable == Spec => []TrashIsRestorable
<1>1. PacksInv => TrashIsRestorable
  BY DEF PacksInv, TrashInv
<1> QED
  BY <1>1, PacksInvariant, PTL

(***************************************************************************)
(* VerifiedBytesAreKept: no step but damage loses the last verified copy.  *)
(***************************************************************************)
InTrash(p, f) == \E e \in Payloads : trash[e].pack = p /\ trash[e].payload.files[f] = "good"

Keeps == \A p \in Packs, f \in Files : Kept(p, f) => Kept(p, f)'

\* Nobody but i moves, and i does not start to write.
NoNewWriter(i) ==
    /\ \A j \in Procs \ {i} : proc'[j] = proc[j]
    /\ Writing(i)' => /\ Writing(i)
                      /\ proc'[i].pack = proc[i].pack /\ proc'[i].file = proc[i].file

LEMMA KeptHere ==
    ASSUME PacksInv, NEW i \in Procs, NEW p \in Packs, NEW f \in Files, NoNewWriter(i),
           staging'[p][f] = staging[p][f],
           FileState(p, f) = "good" => FileState(p, f)' = "good" \/ InTrash(p, f)',
           InTrash(p, f) => FileState(p, f)' = "good" \/ InTrash(p, f)'
    PROVE  Kept(p, f) => Kept(p, f)'
<1>1. ASSUME NEW j \in Procs, Writing(j)', Here(j)' = p, proc'[j].file = f
      PROVE  Writing(j) /\ Here(j) = p /\ proc[j].file = f
  <2>1. CASE j = i
    BY <1>1, <2>1 DEF NoNewWriter, Here
  <2>2. CASE j # i
    BY <1>1, <2>2 DEF NoNewWriter, Here, Writing
  <2> QED
    BY <2>1, <2>2
<1> QED
  BY <1>1 DEF Kept, InTrash

\* A step that leaves the bytes where they are.
LEMMA StillKept ==
    ASSUME PacksInv, NEW i \in Procs, NoNewWriter(i), staging' = staging,
           \A q \in Packs, g \in Files : FileState(q, g)' = FileState(q, g),
           \A e \in TrashIds : trash'[e] = trash[e]
              \/ /\ trash[e] = None \/ trash[e].payload = None
                 /\ trash'[e] = None \/ trash'[e].payload = None
    PROVE  Keeps
<1>1. ASSUME NEW p \in Packs, NEW f \in Files, InTrash(p, f)
      PROVE  InTrash(p, f)'
  BY <1>1 DEF InTrash, Payloads
<1> QED
  BY <1>1, KeptHere DEF Keeps

LEMMA Moves ==
    ASSUME PacksInv, NEW i \in Procs, NEW l, Become(i, l)
    PROVE  /\ \A j \in Procs \ {i} : proc'[j] = proc[j]
           /\ proc'[i] = l
           /\ l.pc \notin {"copy", "update", "updateWrite"} => NoNewWriter(i)
           /\ l.pc # "copy" /\ l.source = "none" => NoNewWriter(i)
BY Known, Becomes DEF Become, NoNewWriter, Writing

\* The common endings do not write.
LEMMA Endings ==
    ASSUME PacksInv, NEW i \in Procs
    PROVE  /\ Become(i, Idle) \/ Abort(i) \/ Raise(i) \/ Return(i) \/ ReleaseTrash(i)
                 => NoNewWriter(i)
           /\ \A pc : Goto(i, pc) /\ pc \notin {"copy", "update", "updateWrite"}
                 => NoNewWriter(i)
<1>1. Become(i, Idle) => NoNewWriter(i)
  BY IdleType, Moves
<1>2. Raise(i) => NoNewWriter(i)
  <2> DEFINE l == [Idle EXCEPT !.pc = "failed", !.pack = proc[i].pack, !.op = proc[i].op]
  <2>1. l.pc = "failed"
    BY IdleType DEF Locals
  <2>2. Raise(i) => Become(i, l)
    BY DEF Raise
  <2> HIDE DEF l
  <2> QED
    BY <2>1, <2>2, Moves
<1>3. Return(i) => NoNewWriter(i)
  <2> DEFINE o == proc[i].outer
             l == [Idle EXCEPT !.pc = "dependencies", !.pack = Head(o).pack,
                               !.todo = Head(o).todo, !.outer = Tail(o)]
  <2>1. l.pc = "dependencies"
    BY IdleType DEF Locals
  <2>2. Return(i) => Become(i, Idle) \/ Become(i, l)
    BY DEF Return
  <2> HIDE DEF l
  <2> QED
    BY <1>1, <2>1, <2>2, Moves
<1>4. ASSUME NEW pc, Goto(i, pc), pc \notin {"copy", "update", "updateWrite"}
      PROVE  NoNewWriter(i)
  <2> DEFINE l == [proc[i] EXCEPT !.pc = pc]
  <2>1. l.pc = pc /\ Become(i, l)
    BY <1>4, Known DEF Goto, Locals
  <2> HIDE DEF l
  <2> QED
    BY <1>4, <2>1, Moves
<1> QED
  BY <1>1, <1>2, <1>3, <1>4 DEF Abort, ReleaseTrash

\* Before the files: no step writes or moves bytes.
LEMMA EarlyKeeps ==
    ASSUME PacksInv, NEW i \in Procs,
           \/ Inspect(i) \/ InstallDependencies(i) \/ LoadProgress(i)
           \/ StartProgress(i) \/ WriteStart(i)
           \/ \E p \in Packs : BeginInstall(i, p) \/ RequestRemove(i, p)
    PROVE  Keeps
<1>1. proc[i] \in Locals /\ PacksTypeOK
  BY Known
<1>2. CASE \E p \in Packs : BeginInstall(i, p) \/ RequestRemove(i, p)
  <2>1. PICK p \in Packs, pc \in {"inspect", "remove"} :
           Become(i, [Idle EXCEPT !.pc = pc, !.pack = p])
    BY <1>2 DEF BeginInstall, RequestRemove
  <2>2. [Idle EXCEPT !.pc = pc, !.pack = p].pc = pc
    BY IdleType DEF Locals
  <2>3. NoNewWriter(i)
    BY <2>1, <2>2, Moves
  <2>4. UNCHANGED <<dir, staging, trash>>
    BY <1>2 DEF BeginInstall, RequestRemove
  <2> QED
    BY <2>3, <2>4, StillKept DEF FileState
<1>3. CASE Inspect(i)
  <2>1. \/ Return(i)
        \/ Become(i, [proc[i] EXCEPT !.pc = "dependencies", !.todo = Dependencies[Here(i)]])
    BY <1>3 DEF Inspect
  <2>2. [proc[i] EXCEPT !.pc = "dependencies", !.todo = Dependencies[Here(i)]].pc
           = "dependencies"
    BY <1>1 DEF Locals
  <2>3. NoNewWriter(i)
    BY <2>1, <2>2, Moves, Endings
  <2> QED
    BY <1>3, <2>3, StillKept DEF Inspect, FileState
<1>4. CASE InstallDependencies(i)
  <2>1. proc[i].pc = "dependencies"
    BY <1>4 DEF InstallDependencies
  <2>2. ASSUME NEW rest, Become(i, [proc[i] EXCEPT !.todo = rest])
        PROVE  NoNewWriter(i)
    <3>1. [proc[i] EXCEPT !.todo = rest].pc = "dependencies"
      BY <1>1, <2>1 DEF Locals
    <3> QED
      BY <2>2, <3>1, Moves
  <2>3. ASSUME NEW d, NEW t, Become(i, [Idle EXCEPT !.pc = "inspect", !.pack = d, !.outer = t])
        PROVE  NoNewWriter(i)
    <3>1. [Idle EXCEPT !.pc = "inspect", !.pack = d, !.outer = t].pc = "inspect"
      BY IdleType DEF Locals
    <3> QED
      BY <2>3, <3>1, Moves
  <2>4. NoNewWriter(i)
    BY <1>4, <2>2, <2>3, Endings DEF InstallDependencies
  <2> QED
    BY <1>4, <2>4, StillKept DEF InstallDependencies, FileState
<1>5. CASE LoadProgress(i)
  <2>0. PICK pc \in {"file", "start"} : \E o : Become(i, [proc[i] EXCEPT !.pc = pc, !.op = o])
    BY <1>5 DEF LoadProgress
  <2>1. PICK o : Become(i, [proc[i] EXCEPT !.pc = pc, !.op = o])
    BY <2>0
  <2>2. [proc[i] EXCEPT !.pc = pc, !.op = o].pc = pc
    BY <1>1 DEF Locals
  <2>3. NoNewWriter(i)
    BY <2>1, <2>2, Moves
  <2> QED
    BY <1>5, <2>3, StillKept DEF LoadProgress, FileState
<1>6. CASE StartProgress(i)
  <2>1. proc[i].pc \in Installing /\ dir' = [dir EXCEPT ![Here(i)] = Made(Here(i))]
    BY <1>6 DEF StartProgress, Installing, Early
  <2>2. \A q \in Packs, g \in Files : FileState(q, g)' = FileState(q, g)
    BY <2>1, InstallKnown, Touched
  <2>3. PICK r : Become(i, [proc[i] EXCEPT !.pc = "startWrite", !.next = r]) \/ Abort(i)
    BY <1>6 DEF StartProgress
  <2>4. [proc[i] EXCEPT !.pc = "startWrite", !.next = r].pc = "startWrite"
    BY <1>1 DEF Locals
  <2>5. NoNewWriter(i)
    BY <2>3, <2>4, Moves, Endings
  <2> QED
    BY <1>6, <2>2, <2>5, StillKept DEF StartProgress
<1>7. CASE WriteStart(i)
  <2>1. proc[i].pc \in Installing /\ proc[i].pc = "startWrite"
        /\ SaveProgress(Here(i), proc[i].next)
    BY <1>7 DEF WriteStart, Installing, Early
  <2>2. proc[i].next \in Progress /\ Here(i) \in Packs
    BY <2>1, InstallKnown DEF OperationIsRight
  <2>3. \A q \in Packs, g \in Files : FileState(q, g)' = FileState(q, g)
    BY <1>1, <2>1, <2>2, Saved
  <2>4. [proc[i] EXCEPT !.pc = "file", !.next = None].pc = "file"
    BY <1>1 DEF Locals
  <2>5. NoNewWriter(i)
    BY <1>7, <2>4, Moves DEF WriteStart
  <2> QED
    BY <1>7, <2>3, <2>5, StillKept DEF WriteStart
<1> QED
  BY <1>2, <1>3, <1>4, <1>5, <1>6, <1>7

\* The progress record lies beside the bytes.
LEMMA RecordKeeps ==
    ASSUME PacksInv, NEW i \in Procs,
           \/ CheckInstalled(i) \/ ReadUpdate(i) \/ WriteUpdate(i)
           \/ ReadComplete(i) \/ WriteComplete(i) \/ ReadFailure(i) \/ WriteFailure(i)
    PROVE  Keeps
<1>1. proc[i] \in Locals /\ PacksTypeOK
  BY Known
<1>2. UNCHANGED <<staging, trash>>
  BY DEF CheckInstalled, ReadUpdate, WriteUpdate, ReadComplete, WriteComplete, ReadFailure,
         WriteFailure
<1>3. /\ proc[i].pc \in Installing /\ Here(i) \in Packs
      /\ proc[i].pc \in {"updateWrite", "completeWrite", "failedWrite"} =>
            proc[i].next \in Progress
  <2>1. proc[i].pc \in Installing
    BY DEF CheckInstalled, ReadUpdate, WriteUpdate, ReadComplete, WriteComplete, ReadFailure,
           WriteFailure, Installing, Trying, Failing
  <2> QED
    BY <2>1, InstallKnown DEF OperationIsRight
<1>4. \A q \in Packs, g \in Files : FileState(q, g)' = FileState(q, g)
  <2>1. \/ dir' = dir
        \/ dir' = [dir EXCEPT ![Here(i)] = Made(Here(i))]
        \/ /\ SaveProgress(Here(i), proc[i].next)
           /\ proc[i].pc \in {"updateWrite", "completeWrite", "failedWrite"}
    BY DEF CheckInstalled, ReadUpdate, WriteUpdate, ReadComplete, WriteComplete, ReadFailure,
           WriteFailure
  <2>2. CASE dir' = dir
    BY <2>2 DEF FileState
  <2>3. CASE dir' = [dir EXCEPT ![Here(i)] = Made(Here(i))]
    BY <1>1, <1>3, <2>3, Touched
  <2>4. CASE /\ SaveProgress(Here(i), proc[i].next)
             /\ proc[i].pc \in {"updateWrite", "completeWrite", "failedWrite"}
    BY <1>1, <1>3, <2>4, Saved
  <2> QED
    BY <2>1, <2>2, <2>3, <2>4
<1>5. NoNewWriter(i)
  <2>1. CASE CheckInstalled(i)
    <3> DEFINE l == [Tell(i, "update", Chunks) EXCEPT !.source = "none"]
    <3>1. Become(i, l) \/ Raise(i)
      BY <2>1 DEF CheckInstalled
    <3>2. l.pc = "update" /\ l.source = "none"
      BY <1>1 DEF Locals, Tell
    <3> HIDE DEF l
    <3> QED
      BY <3>1, <3>2, Moves, Endings
  <2>2. CASE ReadUpdate(i)
    <3>1. PICK r : Become(i, [proc[i] EXCEPT !.pc = "updateWrite", !.next = r]) \/ Raise(i)
      BY <2>2 DEF ReadUpdate
    <3> DEFINE l == [proc[i] EXCEPT !.pc = "updateWrite", !.next = r]
    <3>2. /\ l.pc = "updateWrite" /\ l.source = proc[i].source /\ l.pack = proc[i].pack
          /\ l.file = proc[i].file /\ proc[i].pc = "update"
      BY <1>1, <2>2 DEF Locals, ReadUpdate
    <3> HIDE DEF l
    <3>3. CASE Become(i, l)
      BY <3>2, <3>3, Moves DEF NoNewWriter, Writing
    <3> QED
      BY <3>1, <3>3, Endings DEF l
  <2>3. CASE WriteUpdate(i)
    <3> DEFINE l == [proc[i] EXCEPT !.pc = "copy", !.next = None]
               m == [proc[i] EXCEPT !.pc = "file", !.next = None, !.size = 0, !.file = @ + 1]
    <3>1. /\ proc[i].pc = "updateWrite"
          /\ (proc[i].source # "none" /\ Become(i, l)) \/ Become(i, m)
      BY <2>3 DEF WriteUpdate
    <3>2. l.pack = proc[i].pack /\ l.file = proc[i].file /\ m.pc = "file"
      BY <1>1 DEF Locals
    <3> HIDE DEF l, m
    <3>3. CASE Become(i, l) /\ proc[i].source # "none"
      BY <3>1, <3>2, <3>3, Moves DEF NoNewWriter, Writing
    <3> QED
      BY <3>1, <3>2, <3>3, Moves
  <2>4. CASE ReadComplete(i)
    <3>1. PICK r : Become(i, [proc[i] EXCEPT !.pc = "completeWrite", !.next = r]) \/ Raise(i)
      BY <2>4 DEF ReadComplete
    <3>2. [proc[i] EXCEPT !.pc = "completeWrite", !.next = r].pc = "completeWrite"
      BY <1>1 DEF Locals
    <3> QED
      BY <3>1, <3>2, Moves, Endings
  <2>5. CASE ReadFailure(i)
    <3>1. PICK r : Become(i, [proc[i] EXCEPT !.pc = "failedWrite", !.next = r]) \/ Abort(i)
      BY <2>5 DEF ReadFailure
    <3>2. [proc[i] EXCEPT !.pc = "failedWrite", !.next = r].pc = "failedWrite"
      BY <1>1 DEF Locals
    <3> QED
      BY <3>1, <3>2, Moves, Endings
  <2>6. CASE WriteComplete(i) \/ WriteFailure(i)
    BY <2>6, Endings DEF WriteComplete, WriteFailure
  <2> QED
    BY <2>1, <2>2, <2>3, <2>4, <2>5, <2>6
<1> QED
  BY <1>2, <1>4, <1>5, StillKept

\* A step that writes to the staging directory of one file: the others keep what
\* they have.
LEMMA StageKeeps ==
    ASSUME PacksInv, NEW i \in Procs, NEW p \in Packs, NEW f \in Files, NEW s \in Staged,
           p = Here(i), f = proc[i].file, Stage(p, f, s), UNCHANGED trash,
           \A j \in Procs \ {i} : proc'[j] = proc[j],
           Writing(i)' => proc'[i].pack = p /\ proc'[i].file = f,
           \A q \in Packs, g \in Files : FileState(q, g) = "good" => FileState(q, g)' = "good",
           \/ FileState(p, f)' = "good"
           \/ s.complete = "good"
           \/ staging[p][f].complete # "good" /\ (~ Verified(staging[p][f].part) \/ Writing(i))
    PROVE  Keeps
<1>1. PacksTypeOK
  BY Known
<1>2. /\ staging'[p][f] = s
      /\ \A q \in Packs, g \in Files : q # p \/ g # f => staging'[q][g] = staging[q][g]
  BY <1>1, NewStaging
<1>3. \A q \in Packs, g \in Files : InTrash(q, g) => InTrash(q, g)'
  BY DEF InTrash, Payloads
<1>4. Kept(p, f) => Kept(p, f)'
  BY <1>2, <1>3 DEF Kept, InTrash, Verified
<1>5. ASSUME NEW q \in Packs, NEW g \in Files, q # p \/ g # f, Kept(q, g)
      PROVE  Kept(q, g)'
  <2>1. ASSUME NEW j \in Procs, Writing(j)', Here(j)' = q, proc'[j].file = g
        PROVE  Writing(j) /\ Here(j) = q /\ proc[j].file = g
    <3>1. CASE j = i
      BY <1>5, <2>1, <3>1 DEF Here
    <3>2. CASE j # i
      BY <2>1, <3>2 DEF Here, Writing
    <3> QED
      BY <3>1, <3>2
  <2> QED
    BY <1>2, <1>3, <1>5, <2>1 DEF Kept, InTrash
<1> QED
  BY <1>4, <1>5 DEF Keeps

\* Fetching and publishing: what is overwritten is no verified copy, and what is
\* renamed stays one.
LEMMA FileKeeps ==
    ASSUME PacksInv, NEW i \in Procs,
           Fetch(i) \/ CopyChunk(i) \/ EndOfData(i) \/ ReuseStaged(i) \/ Publish(i)
    PROVE  Keeps
<1>1. proc[i] \in Locals /\ PacksTypeOK /\ proc[i].file \in Files /\ proc[i].pc \in Trying
  BY Known
  DEF Fetch, CopyChunk, EndOfData, ReuseStaged, Publish, FileIsRight, Trying
<1>2. /\ Here(i) \in Packs /\ Here(i) = proc[i].pack /\ FileIsRight(i)
  BY <1>1, FileKnown
<1>3. PICK p \in Packs, f \in Files : p = Here(i) /\ f = proc[i].file
  BY <1>1, <1>2
<1>4. UNCHANGED trash
  BY DEF Fetch, CopyChunk, EndOfData, ReuseStaged, Publish
<1>5. CASE Fetch(i)
  <2>1. /\ staging[p][f].complete # "good" /\ ~ Verified(staging[p][f].part)
        /\ UNCHANGED dir
    BY <1>3, <1>5 DEF Fetch
  <2>2. CASE Raise(i) /\ UNCHANGED staging
    BY <1>4, <2>1, <2>2, Endings, StillKept DEF FileState
  <2>3. ASSUME NEW kept, Raise(i), Stage(p, f, [complete |-> "absent", part |-> kept]),
               [complete |-> "absent", part |-> kept] \in Staged
        PROVE  Keeps
    <3>1. NoNewWriter(i)
      BY <2>3, Endings
    <3>2. /\ \A j \in Procs \ {i} : proc'[j] = proc[j]
          /\ Writing(i)' => proc'[i].pack = p /\ proc'[i].file = f
      BY <1>2, <1>3, <3>1 DEF NoNewWriter
    <3> QED
      BY <1>3, <1>4, <2>1, <2>3, <3>2, StageKeeps DEF FileState
  <2>4. ASSUME NEW source, NEW size, NEW kept,
               Become(i, [proc[i] EXCEPT !.pc = "copy", !.source = source, !.size = size]),
               Stage(p, f, [complete |-> "absent", part |-> kept]),
               [complete |-> "absent", part |-> kept] \in Staged
        PROVE  Keeps
    <3> DEFINE l == [proc[i] EXCEPT !.pc = "copy", !.source = source, !.size = size]
    <3>1. l.pack = p /\ l.file = f
      BY <1>1, <1>2, <1>3 DEF Locals
    <3>2. Become(i, l)
      BY <2>4
    <3> HIDE DEF l
    <3>3. /\ \A j \in Procs \ {i} : proc'[j] = proc[j]
          /\ proc'[i].pack = p /\ proc'[i].file = f
      BY <3>1, <3>2, Moves
    <3> QED
      BY <1>3, <1>4, <2>1, <2>4, <3>3, StageKeeps DEF FileState
  <2>5. \A kept \in {NoPart, staging[p][f].part} :
           [complete |-> "absent", part |-> kept] \in Staged
    <3> DEFINE Parts == [size : 0..(Chunks + 1), good : BOOLEAN]
    <3>1. NoPart \in Parts
      BY FilesAreNat DEF NoPart
    <3>2. staging[p][f].part \in Parts
      BY <1>1, StagedFacts
    <3>3. \A kept \in Parts : [complete |-> "absent", part |-> kept] \in Staged
      BY DEF Staged
    <3> QED
      BY <3>1, <3>2, <3>3
  <2> DEFINE Copies(source, size) ==
               Become(i, [proc[i] EXCEPT !.pc = "copy", !.source = source, !.size = size])
             Into(kept) == Stage(p, f, [complete |-> "absent", part |-> kept])
  <2>6. \/ Raise(i) /\ UNCHANGED staging
        \/ \E kept \in {NoPart, staging[p][f].part} :
              Into(kept) /\ (Raise(i) \/ \E source, size : Copies(source, size))
    BY <1>3, <1>5 DEF Fetch
  <2>7. \A kept \in {NoPart, staging[p][f].part} : Into(kept) /\ Raise(i) => Keeps
    BY <2>3, <2>5
  <2>8. \A kept \in {NoPart, staging[p][f].part} : \A source, size :
           Into(kept) /\ Copies(source, size) => Keeps
    BY <2>4, <2>5
  <2> HIDE DEF Copies, Into
  <2> QED
    BY <2>2, <2>6, <2>7, <2>8
<1>6. CASE CopyChunk(i)
  <2>1. /\ proc[i].pc = "copy" /\ Writing(i) /\ UNCHANGED dir
        /\ staging[p][f].complete = "absent"
    BY <1>2, <1>3, <1>6 DEF CopyChunk, Writing, FileIsRight
  <2>2. PICK s \in Staged : Stage(p, f, s)
    <3>1. proc[i].size + 1 \in 0..(Chunks + 1)
      BY <1>1, Known, FilesAreNat
    <3>2. \A good, b \in BOOLEAN : [complete |-> "absent",
             part |-> [size |-> proc[i].size + 1, good |-> good /\ b]] \in Staged
      BY <3>1 DEF Staged
    <3>3. staging[p][f].part.good \in BOOLEAN
      BY <1>1, StagedFacts
    <3> QED
      BY <1>3, <1>6, <3>2, <3>3 DEF CopyChunk
  <2> DEFINE l == Tell(i, "update", proc[i].size + 1)
  <2>3. l.pack = p /\ l.file = f
    BY <1>1, <1>2, <1>3 DEF Locals, Tell
  <2>4. Become(i, l) \/ Raise(i)
    BY <1>6 DEF CopyChunk
  <2> HIDE DEF l
  <2>5. /\ \A j \in Procs \ {i} : proc'[j] = proc[j]
        /\ Writing(i)' => proc'[i].pack = p /\ proc'[i].file = f
    BY <1>2, <1>3, <2>3, <2>4, Moves, Endings DEF NoNewWriter
  <2> QED
    BY <1>3, <1>4, <2>1, <2>2, <2>5, StageKeeps DEF FileState
<1>7. CASE EndOfData(i) \/ ReuseStaged(i)
  <2>1. UNCHANGED dir /\ (Raise(i) \/ Goto(i, "publish"))
    BY <1>7 DEF EndOfData, ReuseStaged
  <2>2. NoNewWriter(i)
    BY <2>1, Endings
  <2>3. CASE UNCHANGED staging
    BY <1>4, <2>1, <2>2, <2>3, StillKept DEF FileState
  <2>4. CASE Stage(p, f, Renamed(p, f)) /\ Verified(staging[p][f].part)
    <3>1. Renamed(p, f) \in Staged /\ Renamed(p, f).complete = "good"
      BY <2>4, RenamedFacts
    <3>2. /\ \A j \in Procs \ {i} : proc'[j] = proc[j]
          /\ Writing(i)' => proc'[i].pack = p /\ proc'[i].file = f
      BY <1>2, <1>3, <2>2 DEF NoNewWriter
    <3> QED
      BY <1>3, <1>4, <2>1, <2>4, <3>1, <3>2, StageKeeps DEF FileState
  <2> QED
    BY <1>3, <1>7, <2>3, <2>4 DEF EndOfData, ReuseStaged
<1>8. CASE Publish(i)
  <2> DEFINE c == [Made(p) EXCEPT !.files[f] = staging[p][f].complete]
             s == [staging[p][f] EXCEPT !.complete = "absent"]
             l == [Tell(i, "update", Chunks) EXCEPT !.source = "none"]
  <2>1. /\ dir' = [dir EXCEPT ![p] = c] /\ Stage(p, f, s) /\ Become(i, l)
        /\ staging[p][f].complete = "good"
    BY <1>2, <1>3, <1>8 DEF Publish, FileIsRight
  <2>2. s \in Staged
    BY <1>1, StagedFacts DEF Staged
  <2>3. l.pc = "update" /\ l.source = "none"
    BY <1>1 DEF Locals, Tell
  <2>4. /\ c \in Contents /\ c.files[f] = "good"
        /\ \A g \in Files : c.files[g] \in {FileState(p, g), "good"}
    <3>1. Made(p) \in Contents /\ \A g \in Files : Made(p).files[g] = FileState(p, g)
      BY <1>1, DirFacts
    <3> QED
      BY <2>1, <3>1 DEF Contents
  <2> HIDE DEF c, s, l
  <2>5. /\ FileState(p, f)' = "good"
        /\ \A q \in Packs, g \in Files : FileState(q, g) = "good" => FileState(q, g)' = "good"
    <3>1. /\ \A g \in Files : FileState(p, g)' = c.files[g]
          /\ \A q \in Packs \ {p} : \A g \in Files : FileState(q, g)' = FileState(q, g)
      BY <1>1, <2>1, <2>4, NewDir
    <3>2. \A q \in Packs, g \in Files : FileState(q, g)' \in {FileState(q, g), "good"}
      BY <2>4, <3>1
    <3> QED
      BY <2>4, <3>1, <3>2
  <2>6. /\ \A j \in Procs \ {i} : proc'[j] = proc[j]
        /\ Writing(i)' => proc'[i].pack = p /\ proc'[i].file = f
    BY <1>2, <1>3, <2>1, <2>3, Moves DEF NoNewWriter
  <2> QED
    BY <1>3, <1>4, <2>1, <2>2, <2>5, <2>6, StageKeeps
<1> QED
  BY <1>5, <1>6, <1>7, <1>8

\* Removals and restores: a pack goes to the trash, or back, as a whole.
LEMMA TrashKeeps ==
    ASSUME PacksInv, PacksTypeOK', NEW i \in Procs,
           TrashStep(i) \/ \E e \in TrashIds : BeginRestore(i, e)
    PROVE  Keeps
<1>1. proc[i] \in Locals /\ PacksTypeOK
  BY Known
<1>2. UNCHANGED staging
  BY DEF TrashStep, CreateEntry, GiveUpRemove, WriteManifest, MovePack, FinishMove, RollBack,
         MoveBack, UnlinkManifest, RemoveEntry, BeginRestore
<1>3. NoNewWriter(i)
  <2>1. ASSUME NEW e, Become(i, [proc[i] EXCEPT !.pc = "manifest", !.entry = e])
        PROVE  NoNewWriter(i)
    <3>1. [proc[i] EXCEPT !.pc = "manifest", !.entry = e].pc = "manifest"
      BY <1>1 DEF Locals
    <3> QED
      BY <2>1, <3>1, Moves
  <2>2. ASSUME NEW p, NEW e,
               Become(i, [Idle EXCEPT !.pc = "restore", !.pack = p, !.entry = e])
        PROVE  NoNewWriter(i)
    <3>1. [Idle EXCEPT !.pc = "restore", !.pack = p, !.entry = e].pc = "restore"
      BY IdleType DEF Locals
    <3> QED
      BY <2>2, <3>1, Moves
  <2>3. CASE CreateEntry(i)
    BY <2>1, <2>3, Endings DEF CreateEntry
  <2>4. CASE \E e \in TrashIds : BeginRestore(i, e)
    BY <2>2, <2>4 DEF BeginRestore
  <2>5. ASSUME NEW pc \in AtTrash, Goto(i, pc)
        PROVE  NoNewWriter(i)
    BY <2>5, Endings DEF AtTrash, Moving, Restoring
  <2>6. {"move", "moved", "rollback", "forget", "rmdir"} \subseteq AtTrash
    BY DEF AtTrash, Moving, Restoring
  <2> QED
    BY <2>3, <2>4, <2>5, <2>6, Endings
    DEF TrashStep, GiveUpRemove, WriteManifest, MovePack, FinishMove, RollBack, MoveBack,
        UnlinkManifest, RemoveEntry
<1>4. CASE GiveUpRemove(i) \/ FinishMove(i) \/ \E e \in TrashIds : BeginRestore(i, e)
  BY <1>2, <1>3, <1>4, StillKept DEF GiveUpRemove, FinishMove, BeginRestore, FileState
<1>5. CASE CreateEntry(i)
  <2>1. UNCHANGED dir
    BY <1>5 DEF CreateEntry
  <2>2. CASE UNCHANGED trash
    BY <1>2, <1>3, <2>1, <2>2, StillKept DEF FileState
  <2>3. ASSUME NEW e \in TrashIds, trash[e] = None,
               trash' = [trash EXCEPT ![e] = [pack |-> Here(i), manifest |-> FALSE,
                                              payload |-> None]]
        PROVE  Keeps
    <3>1. \A x \in TrashIds : trash'[x] = trash[x]
             \/ (trash[x] = None /\ trash'[x].payload = None)
      BY <1>1, <2>3 DEF PacksTypeOK
    <3> QED
      BY <1>2, <1>3, <2>1, <3>1, StillKept DEF FileState
  <2> QED
    BY <1>5, <2>2, <2>3 DEF CreateEntry
\* The entry it works at holds nothing, or goes on holding it.
<1>6. CASE WriteManifest(i) \/ UnlinkManifest(i) \/ RemoveEntry(i)
  <2>1. proc[i].pc \in AtTrash /\ UNCHANGED dir
    BY <1>6 DEF WriteManifest, UnlinkManifest, RemoveEntry, AtTrash, Moving, Restoring
  <2>2. PICK e \in TrashIds : e = proc[i].entry
    BY <2>1, TrashKnown
  <2>3. trash[e].payload = None /\ trash[e] \in Entries
    BY <1>6, <2>1, <2>2, Known, TrashKnown
    DEF WriteManifest, UnlinkManifest, RemoveEntry, EntryIsRight
  <2>4. PICK t : trash' = [trash EXCEPT ![e] = t] /\ (t = None \/ t.payload = None)
    <3>1. \A b \in BOOLEAN : [trash[e] EXCEPT !.manifest = b].payload = None
      BY <2>3 DEF Entries
    <3>2. CASE RemoveEntry(i)
      BY <2>2, <3>2 DEF RemoveEntry
    <3>3. CASE WriteManifest(i)
      BY <1>1, <2>2, <3>1, <3>3 DEF WriteManifest, PacksTypeOK
    <3>4. CASE UnlinkManifest(i)
      BY <1>1, <2>2, <3>1, <3>4 DEF UnlinkManifest, PacksTypeOK
    <3> QED
      BY <1>6, <3>2, <3>3, <3>4
  <2>5. \A x \in TrashIds : trash'[x] = trash[x]
           \/ (trash[x].payload = None /\ (trash'[x] = None \/ trash'[x].payload = None))
    BY <1>1, <2>3, <2>4 DEF PacksTypeOK
  <2> QED
    BY <1>2, <1>3, <2>1, <2>5, StillKept DEF FileState
<1>7. CASE MovePack(i) \/ RollBack(i) \/ MoveBack(i)
  <2>1. proc[i].pc \in AtTrash
    BY <1>7 DEF MovePack, RollBack, MoveBack, AtTrash, Moving, Restoring
  <2>2. PICK p \in Packs, e \in TrashIds : p = Here(i) /\ e = proc[i].entry
    BY <2>1, TrashKnown
  <2>3. /\ trash[e] # None /\ trash[e] \in Entries /\ trash[e].pack = p
        /\ MovePack(i) => trash[e].payload = None
        /\ MoveBack(i) => trash[e].payload # None
    BY <2>1, <2>2, TrashKnown, Known DEF MovePack, MoveBack, EntryIsRight, Restorable
  <2>4. CASE UNCHANGED <<dir, trash>>
    BY <1>2, <1>3, <2>4, StillKept DEF FileState
  \* To the trash: e holds nothing yet.
  <2>5. CASE /\ trash[e].payload = None /\ dir[p] # None
             /\ trash' = [trash EXCEPT ![e].payload = dir[p]]
             /\ dir' = [dir EXCEPT ![p] = None]
    <3>1. /\ trash'[e].pack = p /\ trash'[e].payload = dir[p] /\ trash'[e] # None
          /\ \A x \in TrashIds \ {e} : trash'[x] = trash[x]
          /\ \A q \in Packs \ {p} : dir'[q] = dir[q]
      <4>1. trash'[e] = [trash[e] EXCEPT !.payload = dir[p]]
        BY <1>1, <2>5 DEF PacksTypeOK
      <4>2. dir[p] \in Contents
        BY <1>1, <2>5 DEF PacksTypeOK
      <4>3. /\ [trash[e] EXCEPT !.payload = dir[p]] \in Entries
            /\ [trash[e] EXCEPT !.payload = dir[p]].payload = dir[p]
            /\ [trash[e] EXCEPT !.payload = dir[p]].pack = p
        BY <2>3, <4>2 DEF Entries
      <4>4. trash'[e] # None
        BY <4>1, <4>3, NoneIsNothing
      <4> QED
        BY <1>1, <2>5, <4>1, <4>3, <4>4 DEF PacksTypeOK
    <3>2. ASSUME NEW q \in Packs, NEW g \in Files, FileState(q, g) = "good"
          PROVE  FileState(q, g)' = "good" \/ InTrash(q, g)'
      BY <2>5, <3>1, <3>2 DEF FileState, InTrash, Payloads
    <3>3. ASSUME NEW q \in Packs, NEW g \in Files, InTrash(q, g)
          PROVE  InTrash(q, g)'
      BY <2>5, <3>1, <3>3 DEF InTrash, Payloads
    <3> QED
      BY <1>2, <1>3, <3>2, <3>3, KeptHere DEF Keeps
  \* Back from it: p has no directory.
  <2>6. CASE /\ trash[e].payload # None /\ dir[p] = None
             /\ dir' = [dir EXCEPT ![p] = trash[e].payload]
             /\ \A x \in TrashIds \ {e} : trash'[x] = trash[x]
    <3>1. dir'[p] = trash[e].payload /\ \A q \in Packs \ {p} : dir'[q] = dir[q]
      BY <1>1, <2>6 DEF PacksTypeOK
    <3>2. ASSUME NEW q \in Packs, NEW g \in Files, FileState(q, g) = "good"
          PROVE  FileState(q, g)' = "good"
      BY <2>6, <3>1, <3>2 DEF FileState
    <3>3. ASSUME NEW q \in Packs, NEW g \in Files, InTrash(q, g)
          PROVE  FileState(q, g)' = "good" \/ InTrash(q, g)'
      BY <2>3, <2>6, <3>1, <3>3 DEF FileState, InTrash, Payloads
    <3> QED
      BY <1>2, <1>3, <3>2, <3>3, KeptHere DEF Keeps
  \* It stays: the entry goes on holding what it holds.
  <2>7. CASE /\ UNCHANGED dir
             /\ trash[e].payload = None /\ trash' = [trash EXCEPT ![e] = None]
    <3>1. \A x \in TrashIds : trash'[x] = trash[x]
             \/ (trash[x].payload = None /\ trash'[x] = None)
      BY <1>1, <2>7 DEF PacksTypeOK
    <3> QED
      BY <1>2, <1>3, <2>7, <3>1, StillKept DEF FileState
  <2>8. CASE /\ UNCHANGED dir /\ trash[e].payload # None
             /\ trash' = [trash EXCEPT ![e] = [trash[e] EXCEPT !.manifest = FALSE]]
    <3>1. /\ trash'[e] # None /\ trash'[e].pack = trash[e].pack
          /\ trash'[e].payload = trash[e].payload
          /\ \A x \in TrashIds \ {e} : trash'[x] = trash[x]
      <4>1. [trash[e] EXCEPT !.manifest = FALSE] \in Entries
        BY <2>3 DEF Entries
      <4>2. trash'[e] = [trash[e] EXCEPT !.manifest = FALSE]
        BY <1>1, <2>8 DEF PacksTypeOK
      <4> QED
        BY <1>1, <2>3, <2>8, <4>1, <4>2, NoneIsNothing DEF PacksTypeOK, Entries
    <3>2. ASSUME NEW q \in Packs, NEW g \in Files, InTrash(q, g)
          PROVE  InTrash(q, g)'
      BY <3>1, <3>2 DEF InTrash, Payloads
    <3> QED
      BY <1>2, <1>3, <2>8, <3>2, KeptHere DEF Keeps, FileState
  <2>9. CASE MovePack(i)
    BY <2>2, <2>3, <2>4, <2>5, <2>9 DEF MovePack
  <2>10. CASE MoveBack(i)
    <3>1. trash' = trash \/ trash' = [trash EXCEPT ![e].payload = None]
      BY <2>2, <2>10 DEF MoveBack
    <3>2. \A x \in TrashIds \ {e} : trash'[x] = trash[x]
      BY <1>1, <3>1 DEF PacksTypeOK
    <3> QED
      BY <2>2, <2>3, <2>4, <2>6, <2>10, <3>2 DEF MoveBack
  <2>11. CASE RollBack(i)
    <3> DEFINE left == trash[e].payload # None /\ dir[p] # None
    <3>1. /\ trash' = [trash EXCEPT ![e] =
                         IF left THEN [trash[e] EXCEPT !.manifest = FALSE] ELSE None]
          /\ dir' = IF trash[e].payload # None /\ dir[p] = None
                    THEN [dir EXCEPT ![p] = trash[e].payload] ELSE dir
      BY <2>2, <2>11 DEF RollBack
    <3>2. \A x \in TrashIds \ {e} : trash'[x] = trash[x]
      BY <1>1, <3>1 DEF PacksTypeOK
    <3> QED
      BY <2>6, <2>7, <2>8, <3>1, <3>2
  <2> QED
    BY <1>7, <2>9, <2>10, <2>11
<1> QED
  BY <1>4, <1>5, <1>6, <1>7 DEF TrashStep

\* So does a handler that fails on its way.
LEMMA TrashFailsKeeps ==
    ASSUME PacksInv, NEW i \in Procs, TrashFails(i)
    PROVE  Keeps
<1>1. proc[i].pc \in AtTrash /\ UNCHANGED staging /\ NoNewWriter(i)
  BY Endings DEF TrashFails, AtTrash, Moving
<1>2. PICK p \in Packs, e \in TrashIds : p = Here(i) /\ e = proc[i].entry
  BY <1>1, TrashKnown
<1>3. /\ PacksTypeOK /\ trash[e] # None /\ trash[e] \in Entries /\ trash[e].pack = p
      /\ trash[e].manifest \in BOOLEAN
  BY <1>1, <1>2, TrashKnown
<1>4. CASE UNCHANGED <<dir, trash>>
  BY <1>1, <1>4, StillKept DEF FileState
<1> DEFINE back == trash[e].payload # None /\ dir[p] = None
           t(m) == [trash[e] EXCEPT !.manifest = m, !.payload = IF back THEN None ELSE @]
<1>5. ASSUME NEW m \in BOOLEAN, trash' = [trash EXCEPT ![e] = t(m)],
             dir' = IF back THEN [dir EXCEPT ![p] = trash[e].payload] ELSE dir
      PROVE  Keeps
  <2>1. /\ t(m).pack = p /\ t(m) # None
        /\ t(m).payload = IF back THEN None ELSE trash[e].payload
    <3>1. /\ t(m) \in Entries /\ t(m).pack = p
          /\ t(m).payload = IF back THEN None ELSE trash[e].payload
      BY <1>3 DEF Entries
    <3> QED
      BY <3>1, NoneIsNothing
  <2> HIDE DEF t
  <2>2. trash'[e] = t(m) /\ \A x \in TrashIds \ {e} : trash'[x] = trash[x]
    BY <1>3, <1>5 DEF PacksTypeOK
  <2>3. CASE back
    <3>1. dir'[p] = trash[e].payload /\ \A q \in Packs \ {p} : dir'[q] = dir[q]
      BY <1>3, <1>5, <2>3 DEF PacksTypeOK
    <3>2. ASSUME NEW q \in Packs, NEW g \in Files, FileState(q, g) = "good"
          PROVE  FileState(q, g)' = "good"
      BY <2>3, <3>1, <3>2 DEF FileState
    <3>3. ASSUME NEW q \in Packs, NEW g \in Files, InTrash(q, g)
          PROVE  FileState(q, g)' = "good" \/ InTrash(q, g)'
      BY <1>3, <2>2, <2>3, <3>1, <3>3 DEF FileState, InTrash, Payloads
    <3> QED
      BY <1>1, <3>2, <3>3, KeptHere DEF Keeps
  <2>4. CASE ~ back
    <3>1. UNCHANGED dir
      BY <1>5, <2>4
    <3>2. ASSUME NEW q \in Packs, NEW g \in Files, InTrash(q, g)
          PROVE  InTrash(q, g)'
      BY <1>3, <2>1, <2>2, <2>4, <3>2 DEF InTrash, Payloads
    <3> QED
      BY <1>1, <3>1, <3>2, KeptHere DEF Keeps, FileState
  <2> QED
    BY <2>3, <2>4
<1> QED
  BY <1>2, <1>3, <1>4, <1>5 DEF TrashFails

\* Stops and failing writes move no bytes.
LEMMA FaultKeeps ==
    ASSUME PacksInv, NEW i \in Procs, WriteFails(i) \/ Crash(i) \/ Interrupt(i)
    PROVE  Keeps
<1>1. UNCHANGED <<dir, staging, trash>>
  BY DEF WriteFails, Crash, Interrupt
<1>2. NoNewWriter(i)
  BY Endings DEF WriteFails, Crash, Interrupt
<1> QED
  BY <1>1, <1>2, StillKept DEF FileState

\* Once a file has been fetched and verified, some verified copy of it exists from
\* then on, in whatever order installs, removals, restores, exceptions and kills
\* follow ("no model bytes were deleted", ManagedModelPacks.remove).
THEOREM VerifiedBytesStay == Spec => VerifiedBytesAreKept
<1> DEFINE Step == \A p \in Packs, f \in Files :
                      Kept(p, f) => Kept(p, f)' \/ events'.rots # events.rots
<1>1. PacksInv /\ PacksInv' /\ [Next]_vars => [Step]_vars
  <2>1. SUFFICES ASSUME PacksInv, PacksInv', Next
                 PROVE  Step
    OBVIOUS
  <2>2. PacksTypeOK'
    BY <2>1 DEF PacksInv
  <2>3. ASSUME Keeps
        PROVE  Step
    BY <2>3 DEF Keeps
  <2>4. ASSUME NEW i \in Procs, InstallStep(i)
        PROVE  Step
    BY <2>1, <2>3, <2>4, EarlyKeeps, RecordKeeps, FileKeeps DEF InstallStep
  <2>5. ASSUME NEW p \in Packs, NEW f \in Files, Rot(p, f)
        PROVE  Step
    <3>1. events.rots \in Nat /\ events'.rots = events.rots + 1
      BY <2>1, <2>5, EventTypes DEF Rot, PacksInv, PacksTypeOK
    <3> QED
      BY <3>1
  <2> HIDE DEF Step
  <2> QED
    BY <2>1, <2>2, <2>3, <2>4, <2>5, EarlyKeeps, TrashKeeps, TrashFailsKeeps, FaultKeeps
    DEF Next
<1> QED
  BY <1>1, PacksInvariant, PTL DEF Spec, VerifiedBytesAreKept
=============================================================================
