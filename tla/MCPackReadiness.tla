--------------------------- MODULE MCPackReadiness ---------------------------
(***************************************************************************)
(* The MOSS packs of config/model_packs.yaml for TLC: the voices need the  *)
(* audio tokenizer to be runnable; the tokenizer, which is probed through *)
(* the smaller voice, needs that voice and to be runnable itself.          *)
(***************************************************************************)
EXTENDS PackReadinessProperties, TLC

CONSTANTS tokenizer, local

MCDependencies == (tokenizer :> {}) @@ (local :> {tokenizer})

MCCompanions == (tokenizer :> {tokenizer, local}) @@ (local :> {tokenizer})
=============================================================================
