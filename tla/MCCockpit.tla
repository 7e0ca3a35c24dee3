----------------------------- MODULE MCCockpit -----------------------------
(* Instances of Cockpit: the workspaces it may find and the replies of a   *)
(* model.                                                                  *)
EXTENDS Cockpit

P(w, k) == [window |-> w, work |-> k]

\* Projects that share a window, or are split over two, and shells among them.
MixedStarts == {<<P(1, 1), P(1, 2), P(2, 1)>>, <<P(1, 0), P(2, 1), P(2, 0)>>}

\* A handle before and after it is bound, a pane nobody has seen, a window that
\* the move before it emptied, a verb that does not exist, too many steps.
HostileReplies ==
  {<<MovePane(1, Handle(1)), BreakPane(1, 1), MovePane(3, Handle(1)), SwapPane(2, 3)>>,
   <<MovePane(9, Window(1)), MovePane(3, Window(1)), SelectLayout(Window(2)), NewWindow(2)>>,
   <<[op |-> "kill-pane", pane |-> 1]>>}
=============================================================================
