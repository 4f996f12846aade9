-------------------------- MODULE MCCaseExecution --------------------------
(* Instances of the case execution for TLC.                                *)
EXTENDS CaseExecution
=============================================================================
