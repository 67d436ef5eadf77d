--------------------------- MODULE MCRecoveryJobs ---------------------------
(***************************************************************************)
(* RecoveryJobs for TLC: None is a model value, every other constant is a  *)
(* number.                                                                 *)
(***************************************************************************)
EXTENDS RecoveryJobs
=============================================================================
