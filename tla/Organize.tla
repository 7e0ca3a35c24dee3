------------------------------ MODULE Organize ------------------------------
(***************************************************************************)
(* Plans that regroup the panes of a tmux server into windows: the         *)
(* deterministic planner, the reading of a model's reply, and what each    *)
(* step of a plan does to the server.                                      *)
(*                                                                         *)
(* A workspace is a function from the open panes to records of the pane's  *)
(* window and its work: the project of its directory, or Shell for an idle *)
(* shell.  Panes, windows and projects are numbers in the order the planner*)
(* sorts their names.  Names, layouts and descriptions are left out: a     *)
(* rename or a layout only needs its window.                               *)
(***************************************************************************)
EXTENDS Integers, FiniteSets, Sequences, SequencesExt

CONSTANTS
  Projects,
  MaxPane, MaxWindow,  \* bounds: panes and windows tmux ever opens
  Replies,             \* what a model may answer: sequences of raw steps
  MaxPlanSteps         \* MAX_PLAN_STEPS; 200 in the code

ASSUME ProjectsAssumption == Projects \subseteq Nat \ {0} /\ IsFiniteSet(Projects)
ASSUME RepliesAssumption ==
  /\ \A reply \in Replies : reply \in Seq(Range(reply))
  /\ MaxPlanSteps \in Nat

Shell    == 0          \* the work of an idle shell, and the handle of its window
NoWindow == 0          \* windowId is null, or a handle is unbound
PaneIds   == 1 .. MaxPane
WindowIds == 1 .. MaxWindow
Works     == Projects \cup {Shell}
Handles   == Works

Pane == [window : WindowIds \cup {NoWindow}, work : Works]
Workspaces == UNION {[ids -> Pane] : ids \in SUBSET PaneIds}

WindowsOf(ws) == {ws[p].window : p \in DOMAIN ws} \ {NoWindow}
Group(ws, k) == {p \in DOMAIN ws : ws[p].work = k}
InWindow(ws, w) == {p \in DOMAIN ws : ws[p].window = w}
Ordered(ids) ==
  CHOOSE q \in [1 .. Cardinality(ids) -> ids] : \A i, j \in DOMAIN q : i < j => q[i] < q[j]

Window(w) == [kind |-> "window", id |-> w]
Handle(h) == [kind |-> "handle", id |-> h]
NewWindow(h) == [op |-> "new-window", handle |-> h]
RenameWindow(t) == [op |-> "rename-window", to |-> t]
MovePane(p, t) == [op |-> "move-pane", pane |-> p, to |-> t]
BreakPane(p, h) == [op |-> "break-pane", pane |-> p, handle |-> h]
SwapPane(a, b) == [op |-> "swap-pane", pane |-> a, with |-> b]
SelectLayout(t) == [op |-> "select-layout", to |-> t]

Moves(ids, target) == [i \in 1 .. Cardinality(ids) |-> MovePane(Ordered(ids)[i], target)]

(***************************************************************************)
(* The deterministic planner.                                              *)
(***************************************************************************)
\* The window of the project's first pane that has one; else one to be created.
Anchor(ws, k) ==
  LET placed == {p \in Group(ws, k) : ws[p].window # NoWindow}
  IN  IF placed = {} THEN Handle(k) ELSE Window(ws[Ordered(placed)[1]].window)

ProjectSteps(ws, k) ==
  LET anchor == Anchor(ws, k)
      strays == {p \in Group(ws, k) : Window(ws[p].window) # anchor}
  IN  <<IF anchor.kind = "handle" THEN NewWindow(k) ELSE RenameWindow(anchor)>>
        \o Moves(strays, anchor) \o <<SelectLayout(anchor)>>

AloneTogether(ws, ids) ==
  \E w \in WindowsOf(ws) : ids = InWindow(ws, w)

\* A pair of shells stays where it is.
MutShellSteps(ws) ==
  LET shells == Group(ws, Shell)
  IN  IF Cardinality(shells) > 2 /\ ~AloneTogether(ws, shells)
      THEN <<NewWindow(Shell)>> \o Moves(shells, Handle(Shell)) \o <<SelectLayout(Handle(Shell))>>
      ELSE <<>>

ShellSteps(ws) ==
  LET shells == Group(ws, Shell)
  IN  IF Cardinality(shells) >= 2 /\ ~AloneTogether(ws, shells)
      THEN <<NewWindow(Shell)>> \o Moves(shells, Handle(Shell)) \o <<SelectLayout(Handle(Shell))>>
      ELSE <<>>

HeuristicPlan(ws) ==
  LET keys == Ordered({k \in Projects : Group(ws, k) # {}})
  IN  FoldLeft(LAMBDA steps, k : steps \o ProjectSteps(ws, k), <<>>, keys) \o ShellSteps(ws)

(***************************************************************************)
(* The reply of a model.  A step without the fields its op needs is one of *)
(* an op nobody knows.                                                     *)
(***************************************************************************)
Binds(step) == step.op \in {"new-window", "break-pane"}

\* A handle may be used before a step creates its window.
MutReadable(step, known, bound) ==
  \/ step.op \in {"new-window", "rename-window", "select-layout"}
  \/ step.op \in {"move-pane", "break-pane"} /\ step.pane \in known
  \/ step.op = "swap-pane" /\ {step.pane, step.with} \subseteq known

\* readStep: the panes are known and the handle was bound by an earlier step.
\* A window is taken as the reply names it.
Readable(step, known, bound) ==
  LET targets == step.to.kind = "window" \/ step.to.id \in bound
  IN  \/ step.op = "new-window"
      \/ step.op \in {"rename-window", "select-layout"} /\ targets
      \/ step.op = "move-pane" /\ step.pane \in known /\ targets
      \/ step.op = "break-pane" /\ step.pane \in known
      \/ step.op = "swap-pane" /\ {step.pane, step.with} \subseteq known

ReadNext(read, step, known) ==
  IF Readable(step, known, read.bound)
  THEN [steps |-> Append(read.steps, step),
        bound |-> IF Binds(step) THEN read.bound \cup {step.handle} ELSE read.bound]
  ELSE read

ParsePlan(reply, known) ==
  LET raw == SubSeq(reply, 1, IF Len(reply) < MaxPlanSteps THEN Len(reply) ELSE MaxPlanSteps)
  IN  FoldLeft(LAMBDA read, step : ReadNext(read, step, known),
               [steps |-> <<>>, bound |-> {}], raw).steps

\* LlmOrganizePlanner.plan with an intent: no provider, a failure, or a reply
\* without a usable step falls back to the deterministic plan.
Plans(ws) ==
  {[steps |-> HeuristicPlan(ws), heuristic |-> TRUE, known |-> DOMAIN ws]} \cup
  {[steps |-> s, heuristic |-> FALSE, known |-> DOMAIN ws] :
     s \in {ParsePlan(r, DOMAIN ws) : r \in Replies} \ {<<>>}}

(***************************************************************************)
(* One step of a plan, and what tmux makes of it.                          *)
(***************************************************************************)
\* resolveWindow
Resolve(job, target) ==
  IF target.kind = "handle" THEN job.handles[target.id]
  ELSE IF target.id \in job.windows THEN target.id ELSE NoWindow

\* The panes and the window of the step are among those listed or bound.
Valid(job, step) ==
  CASE step.op \in {"rename-window", "select-layout"} -> Resolve(job, step.to) # NoWindow
    [] step.op = "move-pane"  -> step.pane \in job.panes /\ Resolve(job, step.to) # NoWindow
    [] step.op = "break-pane" -> step.pane \in job.panes
    [] step.op = "swap-pane"  -> {step.pane, step.with} \subseteq job.panes
    [] OTHER -> TRUE

\* tmux carries the step out, with these fresh ids; otherwise the call throws.
Possible(ws, job, step, pane, window) ==
  CASE step.op = "new-window" -> pane \in PaneIds /\ window \in WindowIds
    [] step.op \in {"rename-window", "select-layout"} -> Resolve(job, step.to) \in WindowsOf(ws)
    [] step.op = "move-pane"  -> step.pane \in DOMAIN ws /\ Resolve(job, step.to) \in WindowsOf(ws)
    [] step.op = "break-pane" -> /\ step.pane \in DOMAIN ws /\ window \in WindowIds
                                 /\ InWindow(ws, ws[step.pane].window) # {step.pane}
    [] step.op = "swap-pane"  -> {step.pane, step.with} \subseteq DOMAIN ws

\* A pane that is in the window already cannot be joined to itself.
Refusable(ws, job, step, pane, window) ==
  \/ ~Possible(ws, job, step, pane, window)
  \/ step.op = "move-pane" /\ step.pane \in InWindow(ws, Resolve(job, step.to))

Moved(ws, p, w) == [ws EXCEPT ![p].window = w]

\* The workspace afterwards; a new window opens with a shell in it.
Effect(ws, job, step, pane, window) ==
  CASE step.op = "new-window" ->
         [p \in DOMAIN ws \cup {pane} |->
            IF p = pane THEN [window |-> window, work |-> Shell] ELSE ws[p]]
    [] step.op = "move-pane"  -> Moved(ws, step.pane, Resolve(job, step.to))
    [] step.op = "break-pane" -> Moved(ws, step.pane, window)
    [] step.op = "swap-pane"  -> Moved(Moved(ws, step.pane, ws[step.with].window),
                                       step.with, ws[step.pane].window)
    [] OTHER -> ws
=============================================================================
