------------------------------ MODULE Cockpit ------------------------------
(***************************************************************************)
(* The cockpit: a prompt whose text is classified as a question, which is  *)
(* asked of every session, or as a request to reorganize, which is planned *)
(* from the snapshot on screen, previewed, and applied to tmux on a key.   *)
(*                                                                         *)
(* Every key is an asynchronous handler: what it starts goes on while the  *)
(* next keys are handled, so submits, a report and applications of plans   *)
(* overlap.  The code between two awaits is one action.  Closing the       *)
(* cockpit waits for the report, and the keys are still handled meanwhile. *)
(* What the answers say, the status line and the screen are left out.      *)
(***************************************************************************)
EXTENDS Organize

CONSTANTS
  Starts,      \* the workspaces the cockpit may find
  NoSnapshot,  \* no snapshot has been read
  Faults,      \* what may fail: "tmux" (a call that did nothing, or timed out after
               \* its effect)
  MaxGen,      \* bound: prompts and cancels
  MaxJobs,     \* bound: keys that apply a plan
  MaxChanges   \* bound: changes others make to the workspace

ASSUME BoundsAssumption == {MaxGen, MaxJobs, MaxChanges, MaxPane, MaxWindow} \subseteq Nat
\* Panes and windows are numbered from 1 on, and tmux lists no pane outside a window.
ASSUME StartsAssumption ==
  \A ws \in Starts :
    /\ ws \in Workspaces
    /\ DOMAIN ws = 1 .. Cardinality(DOMAIN ws)
    /\ {ws[p].window : p \in DOMAIN ws} = 1 .. Cardinality(WindowsOf(ws))

VARIABLES
  \* tmux and the daemon
  tmux,        \* the workspace
  nextPane, nextWindow,
  changes,
  \* the cockpit
  latest,      \* the snapshot on screen
  phase,       \* "open", "closing" (done, the report is awaited), "exited"
  mode, plan, planGen,  \* the plan on the confirm screen, and the submit it came from
  busy, gen, report,      \* reportInFlight
  submits,     \* submits in flight: where each waits, and the plan it will get
  jobs,        \* applications of a plan, in the order of the keys
  still        \* history: the plan was made of the workspace as it is, but for the jobs

tmuxVars == <<tmux, nextPane, nextWindow>>
world    == <<tmuxVars, changes, latest>>
confirm  == <<mode, plan, planGen>>
uiVars   == <<confirm, busy, gen, report, submits>>
vars == <<world, phase, uiVars, jobs, still>>

NoPlan == [steps |-> <<>>, heuristic |-> FALSE, known |-> {}]

Init ==
  /\ tmux \in Starts
  /\ nextPane = 1 + Cardinality(DOMAIN tmux)
  /\ nextWindow = 1 + Cardinality(WindowsOf(tmux))
  /\ changes = 0
  /\ latest \in {NoSnapshot, tmux}
  /\ phase = "open" /\ mode = "browse" /\ plan = NoPlan /\ planGen = 0
  /\ busy = FALSE /\ gen = 0 /\ report = FALSE
  /\ submits = {} /\ jobs = <<>> /\ still = FALSE

(***************************************************************************)
(* Around the cockpit.                                                     *)
(***************************************************************************)
\* onSnapshot, and paintStale with the file the daemon left.
Publish ==
  /\ phase # "exited"
  /\ latest' = tmux
  /\ UNCHANGED <<tmuxVars, changes, phase, uiVars, jobs, still>>

Changed(ws) ==
  /\ phase # "exited" /\ changes < MaxChanges
  /\ tmux' = ws
  /\ changes' = changes + 1
  /\ still' = FALSE
  /\ UNCHANGED <<nextPane, nextWindow, latest, phase, uiVars, jobs>>

PaneCloses == \E p \in DOMAIN tmux : Changed([q \in DOMAIN tmux \ {p} |-> tmux[q]])

WorkChanges == \E p \in DOMAIN tmux, k \in Works : Changed([tmux EXCEPT ![p].work = k])

(***************************************************************************)
(* Keys.                                                                   *)
(***************************************************************************)
\* done: the process exits once there is no report to wait for.
Done == phase' = IF report THEN "closing" ELSE "exited"

Key == phase # "exited"

ConfirmApply ==
  /\ Key /\ mode = "confirm" /\ Len(jobs) < MaxJobs
  /\ jobs' = Append(jobs, [plan |-> plan, at |-> 0, panes |-> {}, windows |-> {},
                           handles |-> [h \in Handles |-> NoWindow], skipped |-> {}])
  /\ UNCHANGED <<world, phase, uiVars, still>>

ConfirmCancel ==
  /\ Key /\ mode = "confirm"
  /\ mode' = "browse" /\ plan' = NoPlan /\ planGen' = 0
  /\ UNCHANGED <<world, phase, busy, gen, report, submits, jobs, still>>

\* ctrl-c and ctrl-d in any mode; Esc and ctrl-g in an idle browse.
KeyQuit ==
  /\ Key /\ Done
  /\ UNCHANGED <<world, uiVars, jobs, still>>

\* Esc or ctrl-g while busy.
KeyCancel ==
  /\ Key /\ mode = "browse" /\ busy /\ gen < MaxGen
  /\ gen' = gen + 1 /\ busy' = FALSE
  /\ UNCHANGED <<world, phase, confirm, report, submits, jobs, still>>

KeyReport ==
  /\ Key /\ mode = "browse" /\ ~busy /\ ~report /\ latest # NoSnapshot
  /\ report' = TRUE /\ busy' = TRUE
  /\ UNCHANGED <<world, phase, confirm, gen, submits, jobs, still>>

\* Enter with a prompt.
KeyEnter ==
  /\ Key /\ mode = "browse" /\ ~busy /\ latest # NoSnapshot /\ gen < MaxGen
  /\ gen' = gen + 1 /\ busy' = TRUE
  /\ submits' = submits \cup {[gen |-> gen + 1, at |-> "classify", plan |-> NoPlan]}
  /\ UNCHANGED <<world, phase, confirm, report, jobs, still>>

(***************************************************************************)
(* What is in flight.                                                      *)
(***************************************************************************)
InFlight(s, at) == Key /\ s \in submits /\ s.at = at
IsCurrent(s) == s.gen = gen
Ends(s) == submits' = submits \ {s}
GoesTo(s, at) == submits' = (submits \ {s}) \cup {[s EXCEPT !.at = at]}

\* A late result is dropped.
SubmitDropped(s) ==
  /\ Key /\ s \in submits /\ s.at # "provider" /\ ~IsCurrent(s)
  /\ Ends(s)
  /\ UNCHANGED <<world, phase, confirm, busy, gen, report, jobs, still>>

ClassifiedAsk(s) ==
  /\ InFlight(s, "classify") /\ IsCurrent(s)
  /\ GoesTo(s, "load")
  /\ UNCHANGED <<world, phase, confirm, busy, gen, report, jobs, still>>

ClassifiedOrganize(s) ==
  /\ InFlight(s, "classify") /\ IsCurrent(s)
  /\ \E p \in Plans(latest) :
       submits' = (submits \ {s}) \cup {[s EXCEPT !.at = "plan", !.plan = p]}
  /\ still' = (latest = tmux /\ jobs = <<>>)
  /\ UNCHANGED <<world, phase, confirm, busy, gen, report, jobs>>

\* The generation is not looked at after the planner's await.
MutPlanned(s) ==
  /\ InFlight(s, "plan")
  /\ Ends(s)
  /\ plan' = s.plan /\ planGen' = s.gen /\ mode' = "confirm" /\ busy' = FALSE
  /\ UNCHANGED <<world, phase, gen, report, jobs, still>>

Planned(s) ==
  /\ InFlight(s, "plan") /\ IsCurrent(s)
  /\ Ends(s)
  /\ plan' = s.plan /\ planGen' = s.gen /\ mode' = "confirm" /\ busy' = FALSE
  /\ UNCHANGED <<world, phase, gen, report, jobs, still>>

\* The early return leaves the prompt busy.
MutBroadcastNothing(s) ==
  /\ InFlight(s, "load") /\ IsCurrent(s)
  /\ Ends(s) /\ UNCHANGED busy
  /\ UNCHANGED <<world, phase, confirm, gen, report, jobs, still>>

\* No session on screen has a record.
BroadcastNothing(s) ==
  /\ InFlight(s, "load") /\ IsCurrent(s)
  /\ Ends(s) /\ busy' = FALSE
  /\ UNCHANGED <<world, phase, confirm, gen, report, jobs, still>>

BroadcastStart(s) ==
  /\ InFlight(s, "load") /\ IsCurrent(s)
  /\ GoesTo(s, "provider")
  /\ UNCHANGED <<world, phase, confirm, busy, gen, report, jobs, still>>

\* The generation is not looked at after this await.
BroadcastNoProvider(s) ==
  /\ InFlight(s, "provider")
  /\ Ends(s) /\ busy' = FALSE
  /\ UNCHANGED <<world, phase, confirm, gen, report, jobs, still>>

BroadcastAsk(s) ==
  /\ InFlight(s, "provider")
  /\ GoesTo(s, "answer")
  /\ UNCHANGED <<world, phase, confirm, busy, gen, report, jobs, still>>

BroadcastEnd(s) ==
  /\ InFlight(s, "answer") /\ IsCurrent(s)
  /\ Ends(s) /\ busy' = FALSE
  /\ UNCHANGED <<world, phase, confirm, gen, report, jobs, still>>

SubmitStep ==
  \E s \in submits :
    \/ SubmitDropped(s) \/ ClassifiedAsk(s) \/ ClassifiedOrganize(s) \/ Planned(s)
    \/ BroadcastNothing(s) \/ BroadcastStart(s) \/ BroadcastNoProvider(s) \/ BroadcastAsk(s)
    \/ BroadcastEnd(s)

ReportEnd ==
  /\ Key /\ report
  /\ report' = FALSE /\ busy' = FALSE
  /\ phase' = IF phase = "closing" THEN "exited" ELSE phase
  /\ UNCHANGED <<world, confirm, gen, submits, jobs, still>>

(***************************************************************************)
(* applyPlan: a list, then the steps in order.  After the last one, or when*)
(* the list fails, the cockpit closes.                                     *)
(***************************************************************************)
Failed == -1  \* tmux could not list the panes
Ended(job) == job.at = Failed \/ job.at > Len(job.plan.steps)

\* The job moves on, and closes the cockpit after its last step.
Advance(j, job) ==
  /\ jobs' = [jobs EXCEPT ![j] = [job EXCEPT !.at = @ + 1]]
  /\ IF job.at = Len(job.plan.steps) THEN Done ELSE UNCHANGED phase
  /\ UNCHANGED <<changes, latest, uiVars>>

JobList(j) ==
  /\ Key /\ jobs[j].at = 0
  /\ Advance(j, [jobs[j] EXCEPT !.panes = DOMAIN tmux, !.windows = WindowsOf(tmux)])
  /\ UNCHANGED <<tmuxVars, still>>

\* The failure escapes applyPlan, and the handler swallows it.
MutJobListFails(j) ==
  /\ Key /\ jobs[j].at = 0 /\ "tmux" \in Faults
  /\ jobs' = [jobs EXCEPT ![j].at = Failed]
  /\ still' = FALSE
  /\ UNCHANGED <<world, phase, uiVars>>

JobListFails(j) ==
  /\ Key /\ jobs[j].at = 0 /\ "tmux" \in Faults
  /\ jobs' = [jobs EXCEPT ![j].at = Failed]
  /\ Done /\ still' = FALSE
  /\ UNCHANGED <<world, uiVars>>

Step(j) == jobs[j].plan.steps[jobs[j].at]
AtStep(j) == Key /\ jobs[j].at \in DOMAIN jobs[j].plan.steps
Skipping(job) == [job EXCEPT !.skipped = @ \cup {job.at}]
Reaches(j) == Possible(tmux, jobs[j], Step(j), nextPane, nextWindow)

\* tmux has done the step.
Affected(j) ==
  /\ tmux' = Effect(tmux, jobs[j], Step(j), nextPane, nextWindow)
  /\ nextPane' = IF Step(j).op = "new-window" THEN nextPane + 1 ELSE nextPane
  /\ nextWindow' = IF Binds(Step(j)) THEN nextWindow + 1 ELSE nextWindow

JobInvalid(j) ==
  /\ AtStep(j) /\ ~Valid(jobs[j], Step(j))
  /\ Advance(j, Skipping(jobs[j]))
  /\ UNCHANGED <<tmuxVars, still>>

JobApplied(j) ==
  /\ AtStep(j) /\ Valid(jobs[j], Step(j)) /\ Reaches(j)
  /\ Affected(j)
  /\ Advance(j, IF Binds(Step(j))
                THEN [jobs[j] EXCEPT !.handles[Step(j).handle] = nextWindow,
                                     !.windows = @ \cup {nextWindow}]
                ELSE jobs[j])
  /\ UNCHANGED still

\* The call throws: the pane or the window is gone.
JobRefused(j) ==
  /\ AtStep(j) /\ Valid(jobs[j], Step(j))
  /\ Refusable(tmux, jobs[j], Step(j), nextPane, nextWindow)
  /\ Advance(j, Skipping(jobs[j]))
  /\ UNCHANGED <<tmuxVars, still>>

\* The call fails, or times out after tmux has done the step.
JobFails(j) ==
  /\ AtStep(j) /\ Valid(jobs[j], Step(j)) /\ "tmux" \in Faults
  /\ IF Reaches(j) THEN Affected(j) \/ UNCHANGED tmuxVars ELSE UNCHANGED tmuxVars
  /\ Advance(j, Skipping(jobs[j]))
  /\ still' = FALSE

JobStep ==
  \E j \in DOMAIN jobs :
    \/ JobList(j) \/ JobListFails(j) \/ JobInvalid(j) \/ JobApplied(j) \/ JobRefused(j)
    \/ JobFails(j)

(***************************************************************************)
(* The specification.  Provider calls and tmux calls have timeouts, so     *)
(* what is in flight ends; nothing makes the user press a key.             *)
(***************************************************************************)
UserKey ==
  \/ ConfirmApply \/ ConfirmCancel \/ KeyQuit \/ KeyCancel \/ KeyReport \/ KeyEnter

Next == Publish \/ PaneCloses \/ WorkChanges \/ UserKey \/ SubmitStep \/ ReportEnd \/ JobStep

Spec == Init /\ [][Next]_vars

Fairness == WF_vars(SubmitStep) /\ WF_vars(ReportEnd) /\ WF_vars(JobStep)
FairSpec == Spec /\ Fairness

(***************************************************************************)
(* Properties.                                                             *)
(***************************************************************************)
Submit(p) == [gen : 1 .. MaxGen, at : {"classify", "plan", "load", "provider", "answer"},
              plan : {p}]
Job(p) == [plan : {p}, at : Int, panes : SUBSET PaneIds, windows : SUBSET WindowIds,
           handles : [Handles -> WindowIds \cup {NoWindow}], skipped : SUBSET Int]

\* The types of the variables; what a plan consists of is left to PlansAreClosed.
TypeOK ==
  /\ tmux \in Workspaces /\ nextPane \in Nat /\ nextWindow \in Nat
  /\ changes \in Nat /\ planGen \in Nat /\ gen \in Nat
  /\ latest \in Workspaces \cup {NoSnapshot}
  /\ phase \in {"open", "closing", "exited"} /\ mode \in {"browse", "confirm"}
  /\ busy \in BOOLEAN /\ report \in BOOLEAN /\ still \in BOOLEAN
  /\ \A s \in submits : s \in Submit(s.plan)
  /\ jobs \in Seq(UNION {Job(jobs[j].plan) : j \in DOMAIN jobs})

PanesOf(step) ==
  CASE step.op \in {"move-pane", "break-pane"} -> {step.pane}
    [] step.op = "swap-pane" -> {step.pane, step.with}
    [] OTHER -> {}

\* The step names a window tmux has, or one an earlier step of the plan creates.
Bound(steps, i) ==
  \/ steps[i].op \notin {"rename-window", "move-pane", "select-layout"}
  \/ steps[i].to.kind = "window"
  \/ \E k \in 1 .. i - 1 : Binds(steps[k]) /\ steps[k].handle = steps[i].to.id

\* Whatever a model answers, a plan that is shown or applied consists of the six
\* relocating steps, of panes that were on screen when it was made, and of
\* handles bound by an earlier step (parseOrganizePlan).
PlansAreClosed ==
  \A p \in {plan} \cup {jobs[j].plan : j \in DOMAIN jobs} : \A i \in DOMAIN p.steps :
    /\ p.steps[i].op \in {"new-window", "rename-window", "move-pane", "break-pane", "swap-pane",
                          "select-layout"}
    /\ PanesOf(p.steps[i]) \subseteq p.known
    /\ Bound(p.steps, i)

\* The plan on the confirm screen is that of the last prompt: one of an earlier
\* prompt, or of one that was cancelled, never opens it (makeGeneration). Leaving
\* is no cancelling: while a report is awaited, the plan in flight still opens the
\* screen of a user who has asked to leave, and Enter applies it, though
\* organize-confirm.ts:31 says that it "can never pop a confirm screen after the
\* user left the planning state".
LateResultsAreDropped == mode = "confirm" => planGen = gen

\* While keys are ignored, the submit they would cancel or a report is in flight:
\* no path out of a submit leaves the prompt locked.
BusyMeansWork == busy => report \/ \E s \in submits : IsCurrent(s)

\* The deterministic plan, applied once to the workspace it was made of, has no
\* step to skip: no move empties a window that a later step names.
PlansFit ==
  still /\ Len(jobs) = 1 /\ jobs[1].plan.heuristic => jobs[1].skipped = {}

Together(ids) == \A p, q \in ids : tmux[p].window = tmux[q].window

\* No two windows share a project, the idle shells are together, and planning anew
\* moves nothing.
Grouped ==
  /\ \A k \in Projects : Together(Group(tmux, k))
  /\ Together(Group(tmux, Shell))
  /\ \A i \in DOMAIN HeuristicPlan(tmux) : HeuristicPlan(tmux)[i].op # "move-pane"

\* Once it has been applied, the workspace is grouped by project and a second
\* plan moves nothing (HeuristicOrganizePlanner).
PlansSettle ==
  still /\ Len(jobs) = 1 /\ Ended(jobs[1]) /\ jobs[1].plan.heuristic => Grouped

\* A deterministic plan does what it says: applied once to the workspace it was made of,
\* it skips nothing and leaves nothing to do (HeuristicOrganizePlanner, applyPlan).
PlansWork == PlansFit /\ PlansSettle

\* Applying a plan closes the cockpit, whatever tmux answers; and a closing
\* cockpit exits.
Closes == jobs # <<>> \/ phase = "closing" ~> phase = "exited"

=============================================================================
