----------------------------- MODULE MCSemantic -----------------------------
(* Instances of Semantic.                                                  *)
EXTENDS Semantic

\* The first pane's screen moves, by small steps or large ones; the second pane is
\* the active one, its model call may hang, and it is asked for again when its screen
\* has changed for good.
MCLooks == <<(0 .. 2) \X {2}, {0, 2} \X {3}>>
=============================================================================
