------------------------ MODULE ArtifactInstallProofs ------------------------
(***************************************************************************)
(* Machine-checked proofs about ArtifactInstall: types, and where an open  *)
(* file lies, for any number of installers and adapters at work at once,   *)
(* every length of the file and every number of faults and stops.          *)
(***************************************************************************)
EXTENDS ArtifactInstallProperties, TLAPS, SequenceTheorems

(***************************************************************************)
(* Files.                                                                  *)
(***************************************************************************)
LEMMA ContentsAreSequences ==
    /\ \A f \in Contents : /\ f \in Seq(BOOLEAN) /\ Len(f) \in 0 .. (Chunks + 1)
                           /\ DOMAIN f = 1 .. Len(f)
    /\ \A n \in 0 .. (Chunks + 1) : [1 .. n -> BOOLEAN] \subseteq Contents
    /\ <<>> \in Contents /\ Len(<<>>) = 0
    /\ Pinned \in Contents /\ Len(Pinned) = Chunks
<1>1. Chunks \in Nat
  BY ChunksAssumption
<1>2. ASSUME NEW n \in 0 .. (Chunks + 1), NEW f \in [1 .. n -> BOOLEAN]
      PROVE  f \in Seq(BOOLEAN) /\ Len(f) = n /\ DOMAIN f = 1 .. Len(f)
  BY <1>1, <1>2
<1>3. \A n \in 0 .. (Chunks + 1) : [1 .. n -> BOOLEAN] \subseteq Contents
  BY DEF Contents
<1>4. \A f \in Contents : \E n \in 0 .. (Chunks + 1) : f \in [1 .. n -> BOOLEAN]
  BY DEF Contents
<1>5. Pinned \in [1 .. Chunks -> BOOLEAN] /\ Chunks \in 0 .. (Chunks + 1)
  BY <1>1 DEF Pinned
<1>6. <<>> \in [1 .. 0 -> BOOLEAN] /\ 0 \in 0 .. (Chunks + 1)
  BY <1>1
<1> QED
  BY <1>1, <1>2, <1>3, <1>4, <1>5, <1>6

LEMMA PutInContents ==
    ASSUME NEW l \in Locals, NEW file \in Contents
    PROVE  Put(l, file) \in Contents
<1> DEFINE offset == IF l.append THEN Len(file) + 1 ELSE l.next
           length == IF offset > Len(file) THEN offset ELSE Len(file)
<1>1. /\ Chunks \in Nat /\ Len(file) \in 0 .. (Chunks + 1) /\ offset \in Nat
      /\ l.append \in BOOLEAN /\ l.honest \in BOOLEAN /\ l.next \in Nat
      /\ DOMAIN file = 1 .. Len(file) /\ \A k \in 1 .. Len(file) : file[k] \in BOOLEAN
  BY ChunksAssumption, ContentsAreSequences DEF Locals
<1>2. CASE offset > Chunks + 1
  BY <1>2 DEF Put
<1>3. CASE ~(offset > Chunks + 1)
  <2>1. length \in 0 .. (Chunks + 1)
    BY <1>1, <1>3
  <2>2. Put(l, file) = [k \in 1 .. length |-> IF k = offset THEN l.honest /\ k = l.next
                                              ELSE k <= Len(file) /\ file[k]]
    BY <1>3 DEF Put
  <2> HIDE DEF offset, length
  <2>3. Put(l, file) \in [1 .. length -> BOOLEAN]
    BY <1>1, <2>1, <2>2
  <2> QED
    BY <2>1, <2>3, ContentsAreSequences
<1> QED
  BY <1>2, <1>3

(***************************************************************************)
(* Processes.                                                              *)
(***************************************************************************)
PCs == Resting \cup {"quick", "check", "quarantine"} \cup Fetching \cup Extracting
          \cup Recording \cup Requiring

LEMMA NoneIsNothing ==
    /\ None \notin Procs /\ None \notin Contents /\ None \notin Records /\ None \notin Directory
    /\ None # "part" /\ None # "download" /\ None # "gone" /\ None # "good" /\ None # "bad"
    /\ None # Pinned /\ None # "absent"
BY NoneAssumption, ContentsAreSequences DEF Directory

LEMMA GotoLocals ==
    ASSUME NEW l \in Locals, NEW pc \in PCs
    PROVE  LET k == [l EXCEPT !.pc = pc] IN
           /\ k \in Locals /\ k.pc = pc /\ k.fd = l.fd /\ k.temp = l.temp /\ k.digest = l.digest
BY DEF Locals, PCs

LEMMA IdleLocals ==
    ASSUME NEW pc \in PCs
    PROVE  LET l == [Idle EXCEPT !.pc = pc] IN
           /\ l \in Locals /\ l.pc = pc /\ l.fd = None /\ l.temp = None /\ l.digest = None
<1>1. 1 \in 1 .. (Chunks + 2)
  BY ChunksAssumption
<1>2. /\ Idle \in Locals /\ Idle.fd = None /\ Idle.temp = None /\ Idle.digest = None
  BY <1>1 DEF Idle, Locals, Digest, Resting
<1> QED
  BY <1>2, GotoLocals

LEMMA ReceiverLocals ==
    ASSUME NEW i \in Procs, proc[i] \in Locals, NEW append \in BOOLEAN,
           NEW first \in 1 .. (Chunks + 2)
    PROVE  LET l == Receiver(i, append, first) IN
           l \in Locals /\ l.pc = "receive" /\ l.fd = "part"
BY DEF Receiver, Idle, Locals, Fetching, Digest

LEMMA MovedLocals ==
    ASSUME NEW procs \in [Procs -> Locals], NEW from \in {"part", "download", "gone"},
           NEW to \in {"part", "download", "gone"}
    PROVE  LET m == Moved(procs, from, to) IN
           /\ m \in [Procs -> Locals]
           /\ \A k \in Procs : /\ m[k].pc = procs[k].pc /\ m[k].temp = procs[k].temp
                               /\ m[k].digest = procs[k].digest
                               /\ m[k].fd = (IF procs[k].fd = from THEN to ELSE procs[k].fd)
                               /\ procs[k].fd = None => m[k] = procs[k]
<1> DEFINE m == Moved(procs, from, to)
<1>1. ASSUME NEW l \in Locals
      PROVE  LET x == [l EXCEPT !.fd = to] IN
             x \in Locals /\ x.pc = l.pc /\ x.temp = l.temp /\ x.digest = l.digest /\ x.fd = to
  BY DEF Locals
<1>2. \A k \in Procs : m[k] = IF procs[k].fd = from THEN [procs[k] EXCEPT !.fd = to] ELSE procs[k]
  BY DEF Moved
<1>3. ASSUME NEW k \in Procs
      PROVE  /\ m[k] \in Locals /\ m[k].pc = procs[k].pc /\ m[k].temp = procs[k].temp
             /\ m[k].digest = procs[k].digest
             /\ m[k].fd = (IF procs[k].fd = from THEN to ELSE procs[k].fd)
             /\ procs[k].fd = None => m[k] = procs[k]
  <2> HIDE DEF m
  <2>1. CASE procs[k].fd = from
    <3> DEFINE l == procs[k]
               x == [l EXCEPT !.fd = to]
    <3>1. l \in Locals
      OBVIOUS
    <3>2. /\ x \in Locals /\ x.pc = l.pc /\ x.temp = l.temp /\ x.digest = l.digest /\ x.fd = to
      BY <1>1, <3>1
    <3>3. m[k] = x
      BY <1>2, <2>1
    <3> HIDE DEF x
    <3> QED
      BY <2>1, <3>2, <3>3, NoneIsNothing
  <2>2. CASE procs[k].fd # from
    BY <1>2, <2>2
  <2> QED
    BY <2>1, <2>2
<1>4. m \in [Procs -> Locals]
  BY <1>3 DEF Moved
<1> QED
  BY <1>3, <1>4

LEMMA UnstampedLocals ==
    ASSUME NEW procs \in [Procs -> Locals]
    PROVE  LET m == Unstamped(procs) IN
           /\ m \in [Procs -> Locals]
           /\ \A k \in Procs : /\ m[k].pc = procs[k].pc /\ m[k].temp = procs[k].temp
                               /\ m[k].digest = procs[k].digest /\ m[k].fd = procs[k].fd
                               /\ m[k].next = procs[k].next
<1> DEFINE m == Unstamped(procs)
<1>1. ASSUME NEW l \in Locals
      PROVE  LET x == [l EXCEPT !.stamp = FALSE] IN
             /\ x \in Locals /\ x.pc = l.pc /\ x.temp = l.temp /\ x.digest = l.digest
             /\ x.fd = l.fd /\ x.next = l.next
  BY DEF Locals
<1>2. \A k \in Procs : m[k] = [procs[k] EXCEPT !.stamp = FALSE]
  BY DEF Unstamped
<1>3. m \in [Procs -> Locals]
  BY <1>1 DEF Unstamped
<1> QED
  BY <1>1, <1>2, <1>3

LEMMA RecordUnstampedType ==
    ASSUME record \in Records \cup {None}
    PROVE  /\ RecordUnstamped \in Records \cup {None}
           /\ record = None => RecordUnstamped = None
           /\ record # None => /\ RecordUnstamped # None /\ RecordUnstamped.digest = record.digest
                               /\ RecordUnstamped.stamp = FALSE
BY NoneIsNothing DEF RecordUnstamped, Records

(***************************************************************************)
(* ArtifactInv.                                                            *)
(***************************************************************************)
\* What is enough of a step for the types.
LEMMA TypeStep ==
    ASSUME ArtifactInv, NEW i \in Procs,
           format' = format, download' \in Contents \cup {None}, part' \in Contents \cup {None},
           tree' \in Directory, record' \in Records \cup {None}, env' \in Environments,
           events' \in [faults : 0..MaxFaults, stops : 0..MaxStops, damages : 0..MaxDamages],
           proc' \in [Procs -> Locals],
           proc'[i].pc = "receive" <=> proc'[i].fd # None,
           proc'[i].pc \in {"clear", "clearing", "place"} => proc'[i].temp # None,
           \A k \in Procs \ {i} : /\ proc'[k].pc = proc[k].pc /\ proc'[k].temp = proc[k].temp
                                  /\ proc'[k].fd = None <=> proc[k].fd = None,
           \A k \in Procs : /\ proc'[k].fd = "part" => part' # None
                            /\ proc'[k].fd = "download" => download' # None
    PROVE  ArtifactInv'
<1>1. ASSUME NEW k \in Procs
      PROVE  /\ proc'[k].pc = "receive" <=> proc'[k].fd # None
             /\ proc'[k].pc \in {"clear", "clearing", "place"} => proc'[k].temp # None
  BY DEF ArtifactInv
<1> QED
  BY <1>1 DEF ArtifactInv, ArtifactTypeOK

LEMMA TypesOfArtifacts ==
    ASSUME ArtifactInv
    PROVE  /\ format \in Formats /\ format \in {"file", "archive", "wheel"}
           /\ download \in Contents \cup {None} /\ part \in Contents \cup {None}
           /\ tree \in Directory /\ record \in Records \cup {None} /\ env \in Environments
           /\ proc \in [Procs -> Locals]
           /\ events \in [faults : 0..MaxFaults, stops : 0..MaxStops, damages : 0..MaxDamages]
           /\ \A i \in Procs : /\ proc[i].fd = "part" => part # None
                               /\ proc[i].fd = "download" => download # None
                               /\ proc[i].pc = "receive" <=> proc[i].fd # None
BY FormatsAssumption DEF ArtifactInv, ArtifactTypeOK

\* A step that only moves its process, and opens no file.
Passive(i) ==
    \E l \in Locals : /\ Become(i, l) /\ l.fd = None /\ l.pc # "receive"
                      /\ l.pc \in {"clear", "clearing", "place"} => l.temp # None

LEMMA PassiveEnd ==
    ASSUME NEW i \in Procs, NEW pc \in PCs \ {"receive", "clear", "clearing", "place"}, End(i, pc)
    PROVE  Passive(i)
BY IdleLocals DEF End, Passive

LEMMA PassiveGoto ==
    ASSUME ArtifactInv, NEW i \in Procs, NEW pc \in PCs \ {"receive"}, Goto(i, pc),
           proc[i].pc # "receive",
           pc \in {"clear", "clearing", "place"} => proc[i].temp # None
    PROVE  Passive(i)
<1>1. proc[i] \in Locals /\ proc[i].fd = None
  BY TypesOfArtifacts
<1> DEFINE l == [proc[i] EXCEPT !.pc = pc]
<1>2. l \in Locals /\ l.pc = pc /\ l.fd = None /\ l.temp = proc[i].temp
  BY <1>1, GotoLocals
<1>3. Become(i, l)
  BY DEF Goto
<1> HIDE DEF l
<1> QED
  BY <1>2, <1>3 DEF Passive

LEMMA PassiveType ==
    ASSUME ArtifactInv, NEW i \in Procs, Passive(i), UNCHANGED <<format, download, part>>,
           tree' \in Directory, record' \in Records \cup {None}, env' \in Environments,
           events' \in [faults : 0..MaxFaults, stops : 0..MaxStops, damages : 0..MaxDamages]
    PROVE  ArtifactInv'
<1>1. PICK l \in Locals : /\ Become(i, l) /\ l.fd = None /\ l.pc # "receive"
                          /\ l.pc \in {"clear", "clearing", "place"} => l.temp # None
  BY DEF Passive
<1>2. /\ proc' \in [Procs -> Locals] /\ proc'[i] = l
      /\ \A k \in Procs \ {i} : proc'[k] = proc[k]
  BY <1>1, TypesOfArtifacts DEF Become
<1> QED
  BY <1>1, <1>2, TypesOfArtifacts, TypeStep, NoneIsNothing

LEMMA FaultType ==
    ASSUME ArtifactInv, NEW f, Fault(f)
    PROVE  /\ events' \in [faults : 0..MaxFaults, stops : 0..MaxStops, damages : 0..MaxDamages]
           /\ events'.damages = events.damages
<1>1. MaxFaults \in Nat /\ events.faults \in 0 .. MaxFaults
  BY BoundsAssumption, TypesOfArtifacts
<1> QED
  BY <1>1, TypesOfArtifacts DEF Fault

LEMMA PassiveInstall ==
    ASSUME ArtifactInv, NEW i \in Procs,
           \/ Ask(i) \/ Reuse(i) \/ Check(i) \/ FetchNothing(i) \/ NothingToExtract(i)
           \/ Clear(i) \/ Cleared(i) \/ Place(i) \/ Confirm(i)
    PROVE  ArtifactInv'
<1>1. /\ UNCHANGED <<format, download, part, record, env, events>> /\ tree' \in Directory
  <2>1. Place(i) => proc[i].temp \in Directory
    BY TypesOfArtifacts DEF Place, At, ArtifactInv, Locals, Directory
  <2> QED
    BY <2>1, TypesOfArtifacts
    DEF Ask, Reuse, Check, FetchNothing, NothingToExtract, Clear, Cleared, Place, Confirm, Directory
<1>2. /\ proc[i].pc # "receive"
      /\ proc[i].pc \in {"clear", "clearing"} => proc[i].temp # None
  BY DEF Ask, Reuse, Check, FetchNothing, NothingToExtract, Clear, Cleared, Place, Confirm, At,
         Resting, ArtifactInv
<1>3. \/ \E pc \in PCs \ {"receive", "clear", "clearing", "place"} : End(i, pc)
      \/ \E pc \in PCs \ {"receive", "clear", "clearing", "place"} : Goto(i, pc)
      \/ \E pc \in {"clearing", "place"} : Goto(i, pc) /\ proc[i].temp # None
  BY <1>2
  DEF Ask, Reuse, Check, FetchNothing, NothingToExtract, Clear, Cleared, Place, Confirm, At,
      PCs, Resting, Fetching, Extracting, Recording
<1>4. Passive(i)
  BY <1>2, <1>3, PassiveEnd, PassiveGoto DEF PCs, Extracting
<1> QED
  BY <1>1, <1>4, TypesOfArtifacts, PassiveType

LEMMA RecordingType ==
    ASSUME ArtifactInv, NEW i \in Procs, Stat(i) \/ Hash(i) \/ WriteRecord(i)
    PROVE  ArtifactInv'
<1>1. /\ proc[i] \in Locals /\ proc[i].pc \in {"stat", "hash", "write"} /\ proc[i].fd = None
      /\ proc[i].stamp \in BOOLEAN /\ proc[i].digest \in Digest
      /\ UNCHANGED <<format, download, part, tree, env, events>>
  BY TypesOfArtifacts DEF Stat, Hash, WriteRecord, At, Locals
<1>2. record' \in Records \cup {None}
  BY <1>1, TypesOfArtifacts DEF Stat, Hash, WriteRecord, Records
<1>3. Passive(i)
  <2>1. CASE Stat(i)
    <3> DEFINE l == [Idle EXCEPT !.pc = "hash", !.stamp = TRUE]
    <3>1. l \in Locals /\ l.fd = None /\ l.pc = "hash"
      <4>1. 1 \in 1 .. (Chunks + 2)
        BY ChunksAssumption
      <4> QED
        BY <4>1 DEF Idle, Locals, Recording, Digest
    <3>2. CASE Become(i, l)
      BY <3>1, <3>2 DEF Passive
    <3>3. CASE End(i, "failed")
      BY <3>3, PassiveEnd DEF PCs, Resting
    <3> QED
      BY <2>1, <3>2, <3>3 DEF Stat
  <2>2. CASE Hash(i)
    <3> DEFINE d == IF format = "archive" /\ tree # "absent" THEN tree ELSE None
               l == [proc[i] EXCEPT !.pc = "write", !.digest = d]
    <3>1. d \in Digest
      BY TypesOfArtifacts DEF Digest
    <3> HIDE DEF d
    <3>2. l \in Locals /\ l.fd = None /\ l.pc = "write"
      BY <1>1, <3>1 DEF Locals, Recording
    <3>3. Become(i, l)
      BY <2>2 DEF Hash, d
    <3> HIDE DEF l
    <3> QED
      BY <3>2, <3>3 DEF Passive
  <2>3. CASE WriteRecord(i)
    <3>1. End(i, "confirm")
      BY <2>3 DEF WriteRecord, End
    <3> QED
      BY <3>1, PassiveEnd DEF PCs, Recording
  <2> QED
    BY <2>1, <2>2, <2>3
<1> QED
  BY <1>1, <1>2, <1>3, TypesOfArtifacts, PassiveType

LEMMA UnpackIsPassive ==
    ASSUME ArtifactInv, NEW i \in Procs, At(i, "extract"), Unpack(i, "clear")
    PROVE  Passive(i)
<1>1. proc[i] \in Locals /\ proc[i].fd = None
  BY TypesOfArtifacts DEF At
<1>2. CASE End(i, "failed")
  BY <1>2, PassiveEnd DEF PCs, Resting
<1>3. ASSUME NEW temp \in {"good", "bad"}, Become(i, [proc[i] EXCEPT !.pc = "clear", !.temp = temp])
      PROVE  Passive(i)
  <2> DEFINE l == [proc[i] EXCEPT !.pc = "clear", !.temp = temp]
  <2>1. l \in Locals /\ l.fd = None /\ l.pc = "clear" /\ l.temp = temp
    BY <1>1 DEF Locals, Extracting
  <2>2. Become(i, l)
    BY <1>3
  <2> HIDE DEF l
  <2> QED
    BY <2>1, <2>2, NoneIsNothing DEF Passive
<1> QED
  BY <1>2, <1>3, NoneIsNothing DEF Unpack, Unpacked

\* Requests, and what ends a transfer.
LEMMA EndingType ==
    ASSUME ArtifactInv, NEW i \in Procs,
           \/ NoSource(i) \/ Request(i) \/ EndOfFile(i) \/ Break(i) \/ Stop(i)
    PROVE  ArtifactInv'
<1>1. UNCHANGED <<format, download, part, tree, record, env>>
  BY DEF NoSource, Request, EndOfFile, Break, Stop
<1>2. events' \in [faults : 0..MaxFaults, stops : 0..MaxStops, damages : 0..MaxDamages]
  <2>1. CASE Stop(i)
    <3>1. MaxStops \in Nat /\ events.stops \in 0 .. MaxStops
      BY BoundsAssumption, TypesOfArtifacts
    <3> QED
      BY <2>1, <3>1, TypesOfArtifacts DEF Stop
  <2>2. CASE events' = events
    BY <2>2, TypesOfArtifacts
  <2>3. CASE \E f : Fault(f)
    BY <2>3, FaultType
  <2> QED
    BY <2>1, <2>2, <2>3 DEF NoSource, Request, EndOfFile, Break, Honesty
<1>3. Passive(i)
  <2>1. CASE Request(i)
    <3>1. PICK append \in BOOLEAN, honest \in BOOLEAN, size \in Nat :
             /\ size < Chunks
             /\ Become(i, [Idle EXCEPT !.pc = "open", !.append = append, !.honest = honest,
                                       !.next = IF append THEN size + 1 ELSE 1])
      <4> DEFINE size == IF part = None THEN 0 ELSE Len(part)
      <4>1. size \in Nat
        BY TypesOfArtifacts, ContentsAreSequences
      <4> HIDE DEF size
      <4>2. /\ size < Chunks
            /\ \E append \in {size > 0, FALSE}, honest \in BOOLEAN :
                  Become(i, [Idle EXCEPT !.pc = "open", !.append = append, !.honest = honest,
                                         !.next = IF append THEN size + 1 ELSE 1])
        BY <2>1 DEF Request, size
      <4>3. {size > 0, FALSE} \subseteq BOOLEAN
        OBVIOUS
      <4> QED
        BY <4>1, <4>2, <4>3
    <3> DEFINE next == IF append THEN size + 1 ELSE 1
               l == [Idle EXCEPT !.pc = "open", !.append = append, !.honest = honest, !.next = next]
    <3>2. next \in 1 .. (Chunks + 2)
      BY <3>1, ChunksAssumption
    <3> HIDE DEF next
    <3>3. l \in Locals /\ l.fd = None /\ l.pc = "open"
      BY <3>2 DEF Idle, Locals, Fetching, Digest
    <3>4. Become(i, l)
      BY <3>1 DEF next
    <3> HIDE DEF l
    <3> QED
      BY <3>3, <3>4 DEF Passive
  <2>2. CASE NoSource(i) \/ EndOfFile(i) \/ Break(i) \/ Stop(i)
    <3>1. \E pc \in PCs \ {"receive", "clear", "clearing", "place"} : End(i, pc)
      BY <2>2 DEF NoSource, EndOfFile, Break, Stop, PCs, Resting, Fetching, End
    <3> QED
      BY <3>1, PassiveEnd
  <2> QED
    BY <2>1, <2>2
<1> QED
  BY <1>1, <1>2, <1>3, TypesOfArtifacts, PassiveType

(***************************************************************************)
(* The steps that open, write and rename files.                            *)
(***************************************************************************)
LEMMA OpeningType ==
    ASSUME ArtifactInv, NEW i \in Procs, CopyOffline(i) \/ Open(i)
    PROVE  ArtifactInv'
<1>1. /\ UNCHANGED <<format, download, tree, record, env>>
      /\ part' \in Contents /\ part' # None
      /\ events' \in [faults : 0..MaxFaults, stops : 0..MaxStops, damages : 0..MaxDamages]
  <2>1. CASE CopyOffline(i)
    <3>1. \E honest \in BOOLEAN : Honesty(i, honest)
      BY <2>1 DEF CopyOffline
    <3>2. events' = events \/ Fault("corrupt")
      BY <3>1 DEF Honesty
    <3> QED
      BY <2>1, <3>2, TypesOfArtifacts, ContentsAreSequences, NoneIsNothing, FaultType DEF CopyOffline
  <2>2. CASE Open(i)
    BY <2>2, TypesOfArtifacts, ContentsAreSequences, NoneIsNothing DEF Open
  <2> QED
    BY <2>1, <2>2
<1>2. proc[i] \in Locals
  BY TypesOfArtifacts
<1> DEFINE m == IF CopyOffline(i) THEN Moved(proc, "part", "gone") ELSE proc
<1>3. \E l \in Locals : /\ l.pc = "receive" /\ l.fd = "part"
                        /\ proc' = [m EXCEPT ![i] = l]
  <2>1. CASE CopyOffline(i)
    <3>1. PICK honest \in BOOLEAN :
             proc' = [m EXCEPT ![i] = [Receiver(i, FALSE, 1) EXCEPT !.honest = honest]]
      BY <2>1 DEF CopyOffline
    <3> HIDE DEF m
    <3>2. 1 \in 1 .. (Chunks + 2)
      BY ChunksAssumption
    <3> DEFINE r == Receiver(i, FALSE, 1)
               l == [r EXCEPT !.honest = honest]
    <3>3. r \in Locals /\ r.pc = "receive" /\ r.fd = "part"
      BY <1>2, <3>2, ReceiverLocals
    <3> HIDE DEF r
    <3>4. l \in Locals /\ l.pc = "receive" /\ l.fd = "part"
      BY <3>3 DEF Locals
    <3>5. proc' = [m EXCEPT ![i] = l]
      BY <3>1 DEF r
    <3> HIDE DEF l
    <3> QED
      BY <3>4, <3>5
  <2>2. CASE Open(i) /\ ~CopyOffline(i)
    <3>1. proc[i].append \in BOOLEAN /\ proc[i].next \in 1 .. (Chunks + 2)
      BY <1>2 DEF Locals
    <3>2. proc' = [m EXCEPT ![i] = Receiver(i, proc[i].append, proc[i].next)]
      BY <2>2 DEF Open, Become
    <3> QED
      BY <1>2, <3>1, <3>2, ReceiverLocals
  <2> QED
    BY <2>1, <2>2
<1>4. /\ m \in [Procs -> Locals]
      /\ \A k \in Procs : /\ m[k].pc = proc[k].pc /\ m[k].temp = proc[k].temp
                          /\ m[k].fd = None <=> proc[k].fd = None
                          /\ m[k].fd = "download" => proc[k].fd = "download"
  <2>1. LET n == Moved(proc, "part", "gone") IN
        /\ n \in [Procs -> Locals]
        /\ \A k \in Procs : /\ n[k].pc = proc[k].pc /\ n[k].temp = proc[k].temp
                            /\ n[k].fd = None <=> proc[k].fd = None
                            /\ n[k].fd = "download" => proc[k].fd = "download"
    BY TypesOfArtifacts, MovedLocals, NoneIsNothing
  <2> QED
    BY <2>1, TypesOfArtifacts
<1> HIDE DEF m
<1>5. /\ proc' \in [Procs -> Locals] /\ proc'[i].pc = "receive" /\ proc'[i].fd = "part"
      /\ \A k \in Procs \ {i} : proc'[k] = m[k]
  BY <1>3, <1>4
<1> QED
  BY <1>1, <1>4, <1>5, TypesOfArtifacts, TypeStep, NoneIsNothing

LEMMA ReceivingType ==
    ASSUME ArtifactInv, NEW i \in Procs, Receive(i)
    PROVE  ArtifactInv'
<1> DEFINE l == proc[i]
           received == [proc EXCEPT ![i].next = @ + 1]
<1>1. /\ l \in Locals /\ l.pc = "receive" /\ l.fd \in {"part", "download", "gone"}
      /\ l.next \in 1 .. (Chunks + 1) /\ UNCHANGED <<format, tree, env>>
  <2>1. Chunks \in Nat /\ l \in Locals /\ l.pc = "receive" /\ l.fd # None /\ l.next \in 1 .. (Chunks + 2)
    BY ChunksAssumption, TypesOfArtifacts DEF Receive, At, Locals
  <2>2. l.next <= Chunks \/ l.next = Chunks + 1
    BY DEF Receive
  <2> QED
    BY <2>1, <2>2 DEF Receive, Locals
<1>2. events' \in [faults : 0..MaxFaults, stops : 0..MaxStops, damages : 0..MaxDamages]
  BY TypesOfArtifacts, FaultType DEF Receive
<1>3. /\ received \in [Procs -> Locals] /\ received[i].pc = "receive" /\ received[i].fd = l.fd
      /\ received[i].temp = l.temp
      /\ \A k \in Procs \ {i} : received[k] = proc[k]
  <2> DEFINE x == [l EXCEPT !.next = l.next + 1]
  <2>1. l.next + 1 \in 1 .. (Chunks + 2)
    BY <1>1, ChunksAssumption
  <2>2. x \in Locals /\ x.pc = "receive" /\ x.fd = l.fd /\ x.temp = l.temp
    BY <1>1, <2>1 DEF Locals
  <2>3. received = [proc EXCEPT ![i] = x]
    OBVIOUS
  <2> HIDE DEF x
  <2> QED
    BY <2>2, <2>3, TypesOfArtifacts
<1>4. CASE l.fd = "part"
  <2>1. part' = Put(l, part) /\ proc' = received /\ UNCHANGED <<download, record>>
    BY <1>4 DEF Receive
  <2>2. part \in Contents
    BY <1>4, TypesOfArtifacts
  <2>3. part' \in Contents /\ part' # None
    BY <1>1, <2>1, <2>2, PutInContents, NoneIsNothing
  <2> HIDE DEF received
  <2> QED
    BY <1>1, <1>2, <1>3, <1>4, <2>1, <2>3, TypesOfArtifacts, TypeStep, NoneIsNothing
<1>5. CASE l.fd = "download"
  <2>1. /\ download' = Put(l, download) /\ record' = RecordUnstamped
        /\ proc' = Unstamped(received) /\ UNCHANGED part
    BY <1>5 DEF Receive
  <2> HIDE DEF received
  <2>2. /\ proc' \in [Procs -> Locals]
        /\ \A k \in Procs : /\ proc'[k].pc = received[k].pc /\ proc'[k].temp = received[k].temp
                            /\ proc'[k].fd = received[k].fd
    BY <1>3, <2>1, UnstampedLocals
  <2>3. record' \in Records \cup {None}
    BY <2>1, TypesOfArtifacts, RecordUnstampedType
  <2>4. download' \in Contents /\ download' # None
    BY <1>1, <1>5, <2>1, PutInContents, TypesOfArtifacts, NoneIsNothing
  <2> QED
    BY <1>1, <1>2, <1>3, <1>5, <2>1, <2>2, <2>3, <2>4, TypesOfArtifacts, TypeStep, NoneIsNothing
<1>6. CASE l.fd = "gone"
  <2>1. proc' = received /\ UNCHANGED <<part, download, record>>
    BY <1>6 DEF Receive
  <2> HIDE DEF received
  <2> QED
    BY <1>1, <1>2, <1>3, <1>6, <2>1, TypesOfArtifacts, TypeStep, NoneIsNothing
<1> QED
  BY <1>1, <1>4, <1>5, <1>6

\* What a rename or an unlink does to the processes, once i goes on as l.
LEMMA MovingType ==
    ASSUME ArtifactInv, NEW i \in Procs, NEW m \in [Procs -> Locals], NEW l \in Locals,
           l.fd = None, l.pc \notin {"receive", "clear", "clearing", "place"},
           proc' = [m EXCEPT ![i] = l],
           \A k \in Procs : /\ m[k].pc = proc[k].pc /\ m[k].temp = proc[k].temp
                            /\ m[k].fd = None <=> proc[k].fd = None
                            /\ m[k].fd = "part" => part' # None
                            /\ m[k].fd = "download" => download' # None,
           UNCHANGED <<format, tree, env, events>>, record' \in Records \cup {None},
           download' \in Contents \cup {None}, part' \in Contents \cup {None}
    PROVE  ArtifactInv'
<1>1. /\ proc' \in [Procs -> Locals] /\ proc'[i] = l
      /\ \A k \in Procs \ {i} : proc'[k] = m[k]
  OBVIOUS
<1> QED
  BY <1>1, TypesOfArtifacts, TypeStep, NoneIsNothing

LEMMA RenamingType ==
    ASSUME ArtifactInv, NEW i \in Procs, Quarantine(i) \/ Verify(i) \/ Publish(i)
    PROVE  ArtifactInv'
<1>1. /\ proc \in [Procs -> Locals] /\ proc[i].fd = None
      /\ UNCHANGED <<format, tree, env, events>>
  BY TypesOfArtifacts DEF Quarantine, Verify, Publish, At
<1>2. /\ record' \in Records \cup {None}
      /\ download' \in Contents \cup {None} /\ part' \in Contents \cup {None}
  BY TypesOfArtifacts, RecordUnstampedType DEF Quarantine, Verify, Publish
<1>3. CASE Quarantine(i) /\ download # None
  <2> DEFINE n == Moved(proc, "download", "gone")
             m == Unstamped(n)
             l == [m[i] EXCEPT !.pc = "fetch"]
  <2>1. /\ n \in [Procs -> Locals]
        /\ \A k \in Procs : /\ n[k].pc = proc[k].pc /\ n[k].temp = proc[k].temp
                            /\ n[k].fd = None <=> proc[k].fd = None
                            /\ n[k].fd = "part" => part # None
                            /\ n[k].fd # "download"
    BY <1>1, MovedLocals, NoneIsNothing, TypesOfArtifacts
  <2>2. download' = None /\ part' = part /\ proc' = [m EXCEPT ![i] = l]
    BY <1>3 DEF Quarantine
  <2> HIDE DEF n
  <2>3. /\ m \in [Procs -> Locals]
        /\ \A k \in Procs : m[k].pc = n[k].pc /\ m[k].temp = n[k].temp /\ m[k].fd = n[k].fd
    BY <2>1, UnstampedLocals
  <2> HIDE DEF m
  <2>4. m[i] \in Locals /\ m[i].fd = None /\ "fetch" \in PCs
    BY <1>1, <2>1, <2>3 DEF PCs, Fetching
  <2>5. l \in Locals /\ l.pc = "fetch" /\ l.fd = None
    BY <2>4, GotoLocals
  <2> HIDE DEF l
  <2>6. \A k \in Procs : /\ m[k].pc = proc[k].pc /\ m[k].temp = proc[k].temp
                         /\ m[k].fd = None <=> proc[k].fd = None
                         /\ m[k].fd = "part" => part' # None
                         /\ m[k].fd = "download" => download' # None
    BY <2>1, <2>2, <2>3
  <2>7. l.pc \notin {"receive", "clear", "clearing", "place"}
    BY <2>5
  <2> QED
    BY <1>1, <1>2, <2>2, <2>3, <2>5, <2>6, <2>7, MovingType
<1>4. CASE Publish(i) /\ part # None
  <2> DEFINE o == Moved(proc, "download", "gone")
             n == Moved(o, "part", "download")
             m == Unstamped(n)
             l == [m[i] EXCEPT !.pc = "extract"]
  <2>1. /\ o \in [Procs -> Locals]
        /\ \A k \in Procs : /\ o[k].pc = proc[k].pc /\ o[k].temp = proc[k].temp
                            /\ o[k].fd = None <=> proc[k].fd = None
    BY <1>1, MovedLocals, NoneIsNothing, TypesOfArtifacts
  <2>2. download' = part /\ proc' = [m EXCEPT ![i] = l]
    BY <1>4 DEF Publish
  <2> HIDE DEF o
  <2>3. /\ n \in [Procs -> Locals]
        /\ \A k \in Procs : /\ n[k].pc = o[k].pc /\ n[k].temp = o[k].temp
                            /\ n[k].fd = None <=> o[k].fd = None
                            /\ n[k].fd # "part"
    BY <2>1, MovedLocals, NoneIsNothing
  <2> HIDE DEF n
  <2>4. /\ m \in [Procs -> Locals]
        /\ \A k \in Procs : m[k].pc = n[k].pc /\ m[k].temp = n[k].temp /\ m[k].fd = n[k].fd
    BY <2>3, UnstampedLocals
  <2> HIDE DEF m
  <2>5. m[i] \in Locals /\ m[i].fd = None /\ "extract" \in PCs
    BY <1>1, <2>1, <2>3, <2>4 DEF PCs, Extracting
  <2>6. l \in Locals /\ l.pc = "extract" /\ l.fd = None
    BY <2>5, GotoLocals
  <2> HIDE DEF l
  <2>7. \A k \in Procs : /\ m[k].pc = proc[k].pc /\ m[k].temp = proc[k].temp
                         /\ m[k].fd = None <=> proc[k].fd = None
                         /\ m[k].fd = "part" => part' # None
                         /\ m[k].fd = "download" => download' # None
    BY <1>4, <2>1, <2>2, <2>3, <2>4
  <2>8. l.pc \notin {"receive", "clear", "clearing", "place"}
    BY <2>6
  <2> QED
    BY <1>1, <1>2, <2>2, <2>4, <2>6, <2>7, <2>8, MovingType
<1>5. CASE Verify(i) /\ ~(part = Pinned) /\ ~(part = None \/ Len(part) # Chunks)
  <2> DEFINE m == Moved(proc, "part", "gone")
             l == [Idle EXCEPT !.pc = "failed"]
  <2>1. /\ m \in [Procs -> Locals]
        /\ \A k \in Procs : /\ m[k].pc = proc[k].pc /\ m[k].temp = proc[k].temp
                            /\ m[k].fd = None <=> proc[k].fd = None
                            /\ m[k].fd # "part"
                            /\ m[k].fd = "download" => download # None
    BY <1>1, MovedLocals, NoneIsNothing, TypesOfArtifacts
  <2>2. part' = None /\ download' = download /\ proc' = [m EXCEPT ![i] = l]
    BY <1>5 DEF Verify
  <2>3. l \in Locals /\ l.pc = "failed" /\ l.fd = None
    BY IdleLocals DEF PCs, Resting
  <2> HIDE DEF m, l
  <2> QED
    BY <1>1, <1>2, <2>1, <2>2, <2>3, MovingType
<1>6. CASE ~(\/ Quarantine(i) /\ download # None
             \/ Publish(i) /\ part # None
             \/ Verify(i) /\ ~(part = Pinned) /\ ~(part = None \/ Len(part) # Chunks))
  <2>1. UNCHANGED <<download, part>> /\ (End(i, "failed") \/ Goto(i, "publish"))
    BY <1>6 DEF Quarantine, Verify, Publish
  <2>2. Passive(i)
    BY <1>1, <2>1, PassiveEnd, PassiveGoto, TypesOfArtifacts DEF PCs, Resting, Fetching
  <2> QED
    BY <1>1, <1>2, <2>1, <2>2, TypesOfArtifacts, PassiveType
<1> QED
  BY <1>3, <1>4, <1>5, <1>6

(***************************************************************************)
(* Adapters, and damage.                                                   *)
(***************************************************************************)
LEMMA LoadingType ==
    ASSUME ArtifactInv, NEW j \in Procs, Load(j) \/ Require(j) \/ Extract(j)
    PROVE  ArtifactInv'
<1>1. /\ proc \in [Procs -> Locals] /\ proc[j].pc # "receive" /\ proc[j].fd = None
      /\ UNCHANGED <<format, download, part, tree, record, events>>
  BY TypesOfArtifacts
  DEF Load, Require, ReadMarker, Look, CheckDigest, CheckTree, Merge, ClearEnvironment,
      ClearedEnvironment, PlaceEnvironment, Extract, At, Resting
<1>2. env' \in Environments
  <2>1. PlaceEnvironment(j) => proc[j].temp \in {"good", "bad"}
    BY <1>1 DEF PlaceEnvironment, At, ArtifactInv, Locals
  <2>2. env.marker \in BOOLEAN
    BY TypesOfArtifacts DEF Environments
  <2>3. \A f \in Directory, b \in BOOLEAN : [files |-> f, marker |-> b] \in Environments
    BY DEF Environments
  <2> QED
    BY <2>1, <2>2, <2>3, TypesOfArtifacts
    DEF Load, Require, ReadMarker, Look, CheckDigest, CheckTree, Merge, ClearEnvironment,
        ClearedEnvironment, PlaceEnvironment, Extract, Directory
<1>3. Passive(j)
  <2>1. CASE Merge(j) \/ Extract(j)
    BY <2>1, UnpackIsPassive DEF Merge, Extract
  <2>2. CASE Look(j)
    <3>1. CASE End(j, "failed")
      BY <3>1, PassiveEnd DEF PCs, Resting
    <3>2. CASE ~End(j, "failed")
      <4> DEFINE d == IF RecordMatches THEN record.digest ELSE None
                 l == [Idle EXCEPT !.pc = "digest", !.digest = d]
      <4>1. d \in Digest
        BY TypesOfArtifacts DEF RecordMatches, Records, Digest
      <4> HIDE DEF d
      <4>2. 1 \in 1 .. (Chunks + 2)
        BY ChunksAssumption
      <4>3. l \in Locals /\ l.fd = None /\ l.pc = "digest"
        BY <4>1, <4>2 DEF Idle, Locals, Requiring
      <4>4. Become(j, l)
        BY <2>2, <3>2 DEF Look, d
      <4> HIDE DEF l
      <4> QED
        BY <4>3, <4>4 DEF Passive
    <3> QED
      BY <3>1, <3>2
  <2>3. CASE ~(Merge(j) \/ Extract(j) \/ Look(j))
    <3>1. proc[j].pc \in {"clear", "clearing"} => proc[j].temp # None
      BY DEF ArtifactInv
    <3>2. \/ \E pc \in PCs \ {"receive", "clear", "clearing", "place"} : End(j, pc)
          \/ \E pc \in PCs \ {"receive", "clear", "clearing", "place"} : Goto(j, pc)
          \/ \E pc \in {"clearing", "place"} : Goto(j, pc) /\ proc[j].temp # None
      <4>1. {"idle", "done", "failed", "marker", "look", "tree", "extract"}
               \subseteq PCs \ {"receive", "clear", "clearing", "place"}
        BY DEF PCs, Resting, Requiring, Extracting
      <4>2. format = "file" \/ format = "archive" \/ format = "wheel"
        BY TypesOfArtifacts
      <4> QED
        BY <2>3, <3>1, <4>1, <4>2
        DEF Load, Require, ReadMarker, CheckDigest, CheckTree, ClearEnvironment,
            ClearedEnvironment, PlaceEnvironment, At
    <3> QED
      BY <1>1, <3>2, PassiveEnd, PassiveGoto DEF PCs, Extracting
  <2> QED
    BY <2>1, <2>2, <2>3
<1> QED
  BY <1>1, <1>2, <1>3, TypesOfArtifacts, PassiveType

LEMMA DamageType ==
    ASSUME ArtifactInv, Damage
    PROVE  ArtifactInv'
<1>1. /\ UNCHANGED <<format, part, proc>>
      /\ events' \in [faults : 0..MaxFaults, stops : 0..MaxStops, damages : 0..MaxDamages]
  <2>1. MaxDamages \in Nat /\ events.damages \in 0 .. MaxDamages
    BY BoundsAssumption, TypesOfArtifacts
  <2> QED
    BY <2>1, TypesOfArtifacts DEF Damage
<1>2. \A k \in Procs : proc[k].fd = None
  BY TypesOfArtifacts DEF Damage, AllRest, Resting
<1>3. download' \in Contents \cup {None} /\ record' \in Records \cup {None}
  <2>1. ASSUME NEW f \in Contents PROVE [f EXCEPT ![1] = FALSE] \in Contents
    <3>1. Len(f) \in 0 .. (Chunks + 1) /\ f \in [1 .. Len(f) -> BOOLEAN]
      BY ContentsAreSequences
    <3>2. [f EXCEPT ![1] = FALSE] \in [1 .. Len(f) -> BOOLEAN]
      BY <3>1
    <3> QED
      BY <3>1, <3>2, ContentsAreSequences
  <2> QED
    BY <2>1, TypesOfArtifacts, RecordUnstampedType
    DEF Damage, DamageDownload, DamageTree, DamageEnvironment
<1>4. tree' \in Directory /\ env' \in Environments
  <2>1. \A f \in Directory : [env EXCEPT !.files = f] \in Environments
    BY TypesOfArtifacts DEF Environments
  <2>2. [files |-> "absent", marker |-> FALSE] \in Environments
    BY DEF Environments, Directory
  <2>3. "bad" \in Directory /\ "absent" \in Directory
    BY DEF Directory
  <2> QED
    BY <2>1, <2>2, <2>3, TypesOfArtifacts
    DEF Damage, DamageDownload, DamageTree, DamageEnvironment
<1> QED
  BY <1>1, <1>2, <1>3, <1>4, NoneIsNothing DEF ArtifactInv, ArtifactTypeOK

LEMMA ArtifactStep ==
    ASSUME ArtifactInv, [Next]_vars
    PROVE  ArtifactInv'
<1>1. CASE UNCHANGED vars
  BY <1>1 DEF vars, ArtifactInv, ArtifactTypeOK
<1>2. ASSUME NEW i \in Procs, \/ Ask(i) \/ Install(i) \/ NoSource(i) \/ Break(i) \/ Stop(i)
                              \/ Load(i) \/ Require(i)
      PROVE  ArtifactInv'
  BY <1>2, PassiveInstall, RecordingType, EndingType, OpeningType, ReceivingType, RenamingType,
     LoadingType DEF Install
<1> QED
  BY <1>1, <1>2, DamageType DEF Next, Procs

THEOREM ArtifactInvariant == Spec => []ArtifactInv
<1>1. Init => ArtifactInv
  <2> SUFFICES ASSUME Init PROVE ArtifactInv
    OBVIOUS
  <2>1. Idle \in Locals /\ Idle.fd = None /\ Idle.pc = "idle"
    <3>1. 1 \in 1 .. (Chunks + 2)
      BY ChunksAssumption
    <3> QED
      BY <3>1 DEF Idle, Locals, Resting, Digest
  <2>2. events \in [faults : 0..MaxFaults, stops : 0..MaxStops, damages : 0..MaxDamages]
    <3>1. MaxFaults \in Nat /\ MaxStops \in Nat /\ MaxDamages \in Nat
      BY BoundsAssumption
    <3> QED
      BY <3>1 DEF Init
  <2>3. proc \in [Procs -> Locals] /\ \A i \in Procs : proc[i] = Idle
    BY <2>1 DEF Init
  <2> QED
    BY <2>1, <2>2, <2>3, NoneIsNothing
    DEF Init, ArtifactInv, ArtifactTypeOK, Directory, Environments
<1> QED
  BY <1>1, ArtifactStep, PTL DEF Spec

\* Types, for any number of installers and adapters; a part that is written to is there.
THEOREM ArtifactTypes == Spec => []ArtifactTypeOK
<1>1. ArtifactInv => ArtifactTypeOK
  BY DEF ArtifactInv
<1> QED
  BY <1>1, ArtifactInvariant, PTL
=============================================================================
