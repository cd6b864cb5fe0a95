-------------------------- MODULE MCWorkflowEngine --------------------------
(***************************************************************************)
(* WorkflowEngine for TLC.  Runs differ in nothing but their names: the    *)
(* specification and the safety properties treat them alike.               *)
(***************************************************************************)
EXTENDS WorkflowEngine, TLC

RunSymmetry == Permutations(Runs)
=============================================================================
