-------------------------- MODULE MCSectionDrafting --------------------------
(***************************************************************************)
(* Instances of SectionDrafting for TLC.  A target of 2 sentences allows 2 *)
(* and one of 3 allows 2 to 4 (65 to 135 percent); the whole may miss its  *)
(* target by 25 percent.                                                   *)
(***************************************************************************)
EXTENDS SectionDraftingProperties

MCTightPlans == {[least |-> 2, most |-> 2]}

MCPlans == MCTightPlans \cup {[least |-> 2, most |-> 4]}

MCTexts == {<<"claims", "plain", "names">>}

\* Up to MaxAttempts answers are refused, of one call or of several.
MCRefusals ==
    {r \in [0..NSections -> 0..MaxAttempts] :
        MapThenSumSet(LAMBDA u : r[u], 0..NSections) <= MaxAttempts}

MCResponses == MCTexts \cup {[i \in 1..4 |-> "plain"]}
=============================================================================
