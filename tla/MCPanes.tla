------------------------------ MODULE MCPanes ------------------------------
(* An instance of Panes: four sessions in one directory, an old one of     *)
(* each harness among them, and a shell that is there and one that is not. *)
EXTENDS Panes

H == <<"claude-code", "claude-code", "claude-code", "codex">>
D == [s \in Sessions |-> "repo"]
Shells == <<"repo", "home">>
EarlierOnes == <<3, 4>>
=============================================================================
