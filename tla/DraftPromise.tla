---------------------------- MODULE DraftPromise ----------------------------
(***************************************************************************)
(* What drafting promises the commands around it, and what GenerateCommand *)
(* takes for granted: the plan and every section are checkpointed one by   *)
(* one, no checkpoint is lost, and the draft is published only when all of *)
(* them are there, with all of them.                                       *)
(***************************************************************************)
EXTENDS Naturals

CONSTANT Units

VARIABLES drafts,       \* the plan and the sections that are checkpointed
          published     \* how many of them the published draft is made of

vars == <<drafts, published>>

Init == drafts = 0 /\ published = 0

DraftUnit ==
    /\ drafts < Units
    /\ drafts' = drafts + 1
    /\ UNCHANGED published

FinishDrafts ==
    /\ drafts = Units
    /\ published' = drafts
    /\ UNCHANGED drafts

Next == DraftUnit \/ FinishDrafts

Spec == Init /\ [][Next]_vars
=============================================================================
