-------------------------- MODULE MCUpdatePipeline --------------------------
(* Instances of UpdatePipeline for TLC. *)
EXTENDS UpdatePipeline

FourVersions == 1 .. 4
=============================================================================
