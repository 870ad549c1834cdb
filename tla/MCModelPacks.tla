---------------------------- MODULE MCModelPacks ----------------------------
(***************************************************************************)
(* Instances of ModelPacks for TLC.                                        *)
(***************************************************************************)
EXTENDS ModelPacksProperties, TLC

CONSTANTS voice, codec, kokoro

\* moss-local-5b needs moss-audio-tokenizer-v2; the instances
\* without the latter have no dependency.
MCDependencies == [p \in Packs |-> IF p = voice /\ codec \in Packs THEN {codec} ELSE {}]

MCSymmetry == Permutations(Procs) \cup Permutations(Ops) \cup Permutations(TrashIds)
=============================================================================
