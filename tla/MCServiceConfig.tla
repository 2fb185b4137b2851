-------------------------- MODULE MCServiceConfig --------------------------
(* ServiceConfig for TLC. *)
EXTENDS ServiceConfig, TLC

ReqSymmetry == Permutations(Reqs)
=============================================================================
