---------------------- MODULE ArtifactInstallProperties ----------------------
(***************************************************************************)
(* What the artifact store promises, with one installer at a time.  It has *)
(* no lock: MCArtifactInstallDisagreements.cfg has two of them.            *)
(***************************************************************************)
EXTENDS ArtifactInstall

\* Types; and a file that is being written under the name of the part is there.
ArtifactTypeOK ==
    /\ format \in Formats
    /\ download \in Contents \cup {None}
    /\ part \in Contents \cup {None}
    /\ tree \in Directory
    /\ record \in Records \cup {None}
    /\ env \in Environments
    /\ proc \in [Procs -> Locals]
    /\ events \in [faults : 0..MaxFaults, stops : 0..MaxStops, damages : 0..MaxDamages]
    /\ \A i \in Procs : proc[i].fd = "part" => part # None

\* Whatever was interrupted, sent wrongly or resumed before: the store has
\* under the download's name only the pinned bytes, unless somebody else
\* changed them, and a record vouches for a whole extraction only.  A quick
\* inspection (ArtifactStore.inspect without verify_digest) relies on both.
OnlyPinnedIsTrusted ==
    /\ events.damages = 0 => download \in {None, Pinned}
    /\ record # None /\ format = "archive" => record.digest = "good"

Succeeds(j) == proc[j].pc \notin Resting /\ proc'[j].pc = "done"

WhatIsLoaded ==
    CASE format = "file" -> download = Pinned
      [] format = "archive" -> tree = "good"
      [] format = "wheel" -> env.files = "good"

\* A path an adapter gets from require or materialize_python_wheels leads to
\* the pinned content, although require reads the record, the download and the
\* tree one after the other beside an install, and the store may be damaged.
LoadedIsWhole == [][\A j \in Loaders : Succeeds(j) => WhatIsLoaded']_vars

\* What an adapter has loaded is not replaced or removed under it by an install
\* that is asked for, or goes on, meanwhile.
LoadedIsKept ==
    [][\A j \in Loaders :
          proc[j].pc = "done" /\ WhatIsLoaded /\ events'.damages = 0 => WhatIsLoaded']_vars

PartIsTooLong == part # None /\ Len(part) > Chunks

\* `models install` asked for again and again, of a source that has the file in
\* the end (MaxFaults), ends with what require accepts, whatever kills, errors,
\* short answers and wrong bytes came before.  One leftover only stops it for
\* good: a part longer than the file, which _download_with_resume refuses
\* whenever it finds it.
RepeatedInstallSucceeds == <>[](InspectFully \/ PartIsTooLong \/ events.damages > 0)

\* A user who asks again, and an installer that is not killed goes on.
FairSpec == Spec /\ \A i \in Installers : WF_vars(Ask(i)) /\ WF_vars(Install(i))

\* quarantine_file, artifacts.py:464: "Move an untrusted managed file aside".
\* A kill between Publish and WriteRecord refutes it for an archive: the
\* verified download is moved aside and fetched again.
QuarantineOnlyUntrusted ==
    [][events'.damages = 0 => ~(download = Pinned /\ download' = None)]_vars

\* phase-3-5-first-local-meditation.md:145 and 154, "an interrupted download can
\* resume": the next attempt can take up the part the last one left.  An answer
\* longer than the file refutes it: the loop over the response writes all of it.
PartCanBeResumed == ~PartIsTooLong

\* phase-3-5-first-local-meditation.md:145-146, "use resumable downloads and
\* atomic final placement; verify size and digest before extraction or loading":
\* once in its final place a verified file stays.  Two installers refute it: the
\* second appends to the part the first has just renamed.
PlacedIsFinal == [][download = Pinned => download' \in {None, Pinned}]_vars

-----------------------------------------------------------------------------
\* The inductive invariant behind ArtifactTypeOK, for any number of installers at
\* once: an open file lies where its process believes, or under the new name.
ArtifactInv ==
    /\ ArtifactTypeOK
    /\ \A i \in Procs : /\ proc[i].fd = "download" => download # None
                        /\ proc[i].pc = "receive" <=> proc[i].fd # None
                        /\ proc[i].pc \in {"clear", "clearing", "place"} => proc[i].temp # None
=============================================================================
