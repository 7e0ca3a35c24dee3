---------------------------- MODULE MCBackground ----------------------------
(* An instance of Background: runs in which commands cross each other, and *)
(* runs in which clients come and go while the model changes.              *)
EXTENDS Background

S(k, c, m, j) == [calm |-> k, commands |-> c, changes |-> m, joins |-> j]
AllStarts == {S(FALSE, 3, 0, 0), S(TRUE, 3, 0, 1), S(FALSE, 2, 1, 1), S(TRUE, 1, 3, 2)}
TwoCommands == {S(FALSE, 2, 0, 0)}
=============================================================================
