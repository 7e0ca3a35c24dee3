---------------------------- MODULE MCWorkspace ----------------------------
(* Instances of Workspace.                                                 *)
EXTENDS Workspace
=============================================================================
