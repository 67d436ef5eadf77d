---------------------------- MODULE MCAutomations ----------------------------
(***************************************************************************)
(* Instances of Automations for TLC: the services under a caller that      *)
(* commits every operation, and under the runner.                          *)
(***************************************************************************)
EXTENDS Automations

EveryRoute == Routes

RunnerRoutes == ActionRoutes
==============================================================================
