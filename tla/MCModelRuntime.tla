--------------------------- MODULE MCModelRuntime ---------------------------
(***************************************************************************)
(* Instances of ModelRuntime for TLC; RuntimeInv can be checked, too.      *)
(***************************************************************************)
EXTENDS ModelRuntimeProperties, TLC
=============================================================================
