--------------------------- MODULE Cockpit_proof ---------------------------
(***************************************************************************)
(* The cockpit for every workspace, reply of a model and bound: types; a   *)
(* confirm screen that belongs to the last prompt; a prompt that is locked *)
(* only while something is in flight; plans that name only what they may;  *)
(* and a deterministic plan that does what it says.                        *)
(*                                                                         *)
(* The first three need nothing of a plan.  For the others a reply is read *)
(* step by step, and the deterministic plan is described group by group    *)
(* (PlanFor), both by induction over a fold; an application of that plan   *)
(* is then followed step by step (Stands, Begun) to its end.               *)
(***************************************************************************)
EXTENDS Cockpit, FiniteSetTheorems, SequenceTheorems, TLAPS, WellFoundedInduction

----------------------------------------------------------------------------
(* Workspaces.                                                             *)

\* A workspace is a function from pane ids to panes.
LEMMA WorkspaceType ==
  ASSUME NEW ws
  PROVE  ws \in Workspaces <=> DOMAIN ws \subseteq PaneIds /\ ws \in [DOMAIN ws -> Pane]
  BY DEF Workspaces

\* The windows of a workspace are windows tmux may have, and finitely many.
LEMMA WindowsType ==
  ASSUME NEW ws \in Workspaces
  PROVE  WindowsOf(ws) \subseteq WindowIds
  BY WorkspaceType DEF WindowsOf, Pane

\* A pane put into another window leaves a workspace.
LEMMA MovedType ==
  ASSUME NEW ws \in Workspaces, NEW p \in DOMAIN ws, NEW w \in WindowIds \cup {NoWindow}
  PROVE  Moved(ws, p, w) \in Workspaces /\ DOMAIN Moved(ws, p, w) = DOMAIN ws
<1> DEFINE moved == [ws[p] EXCEPT !.window = w]
           new   == [ws EXCEPT ![p] = moved]
<1>1. DOMAIN ws \subseteq PaneIds /\ ws \in [DOMAIN ws -> Pane]
  BY WorkspaceType
<1>2. ws[p] \in Pane
  BY <1>1
<1>3. moved \in Pane
  BY <1>2 DEF Pane
<1>4. DOMAIN new = DOMAIN ws /\ new \in [DOMAIN ws -> Pane]
  BY <1>1, <1>3
<1>5. new \in Workspaces
  BY <1>1, <1>4, WorkspaceType
<1>6. Moved(ws, p, w) = new
  BY DEF Moved
<1> QED
  BY <1>4, <1>5, <1>6

\* What tmux makes of a step it can carry out is a workspace.
LEMMA EffectType ==
  ASSUME NEW ws \in Workspaces, NEW job, NEW step, NEW pane, NEW window,
         Possible(ws, job, step, pane, window)
  PROVE  Effect(ws, job, step, pane, window) \in Workspaces
<1>1. DOMAIN ws \subseteq PaneIds /\ ws \in [DOMAIN ws -> Pane]
  BY WorkspaceType
<1>2. WindowsOf(ws) \subseteq WindowIds
  BY WindowsType
<1>3. CASE step.op = "new-window"
  <2>1. pane \in PaneIds /\ window \in WindowIds
    BY <1>3 DEF Possible
  <2>2. [window |-> window, work |-> Shell] \in Pane
    BY <2>1 DEF Pane, Works
  <2>3. Effect(ws, job, step, pane, window) =
          [p \in DOMAIN ws \cup {pane} |->
             IF p = pane THEN [window |-> window, work |-> Shell] ELSE ws[p]]
    BY <1>3 DEF Effect
  <2> QED
    BY <1>1, <2>1, <2>2, <2>3, WorkspaceType
<1>4. CASE step.op = "move-pane"
  <2>1. step.pane \in DOMAIN ws /\ Resolve(job, step.to) \in WindowIds
    BY <1>2, <1>4 DEF Possible
  <2>2. Effect(ws, job, step, pane, window) =
          Moved(ws, step.pane, Resolve(job, step.to))
    BY <1>4 DEF Effect
  <2> QED
    BY <2>1, <2>2, MovedType
<1>5. CASE step.op = "break-pane"
  <2>1. step.pane \in DOMAIN ws /\ window \in WindowIds
    BY <1>5 DEF Possible
  <2>2. Effect(ws, job, step, pane, window) = Moved(ws, step.pane, window)
    BY <1>5 DEF Effect
  <2> QED
    BY <2>1, <2>2, MovedType
<1>6. CASE step.op = "swap-pane"
  <2>1. step.pane \in DOMAIN ws /\ step.with \in DOMAIN ws
    BY <1>6 DEF Possible
  <2> DEFINE half == Moved(ws, step.pane, ws[step.with].window)
  <2>2. Effect(ws, job, step, pane, window) =
          Moved(half, step.with, ws[step.pane].window)
    BY <1>6 DEF Effect
  <2>3. ws[step.with].window \in WindowIds \cup {NoWindow}
    BY <1>1, <2>1 DEF Pane
  <2>4. ws[step.pane].window \in WindowIds \cup {NoWindow}
    BY <1>1, <2>1 DEF Pane
  <2>5. half \in Workspaces /\ step.with \in DOMAIN half
    BY <2>1, <2>3, MovedType
  <2> HIDE DEF half
  <2> QED
    BY <2>2, <2>4, <2>5, MovedType
<1>7. CASE step.op \notin {"new-window", "move-pane", "break-pane", "swap-pane"}
  <2>1. Effect(ws, job, step, pane, window) = ws
    BY <1>7 DEF Effect
  <2> QED
    BY <2>1
<1> QED
  BY <1>3, <1>4, <1>5, <1>6, <1>7

----------------------------------------------------------------------------
(* Applications.                                                           *)

\* A sequence whose elements are jobs has the type of `jobs`.
LEMMA JobsType ==
  ASSUME NEW S, NEW q \in Seq(S), \A j \in DOMAIN q : q[j] \in Job(q[j].plan)
  PROVE  q \in Seq(UNION {Job(q[j].plan) : j \in DOMAIN q})
<1> DEFINE U == UNION {Job(q[j].plan) : j \in DOMAIN q}
<1>1. \A j \in DOMAIN q : q[j] \in U
  OBVIOUS
<1>2. Len(q) \in Nat /\ DOMAIN q = 1 .. Len(q) /\ q = [j \in 1 .. Len(q) |-> q[j]]
  OBVIOUS
<1>3. q \in [1 .. Len(q) -> U]
  BY <1>1, <1>2
<1> QED
  BY <1>2, <1>3

\* What TypeOK says of each job.
LEMMA EachJob ==
  ASSUME TypeOK
  PROVE  \A j \in DOMAIN jobs : jobs[j] \in Job(jobs[j].plan)
<1> TAKE j \in DOMAIN jobs
<1>1. jobs[j] \in UNION {Job(jobs[i].plan) : i \in DOMAIN jobs}
  BY DEF TypeOK
<1>2. PICK i \in DOMAIN jobs : jobs[j] \in Job(jobs[i].plan)
  BY <1>1
<1> QED
  BY <1>2 DEF Job

\* A job in the place of another one.
LEMMA JobReplaced ==
  ASSUME TypeOK, NEW j \in DOMAIN jobs, NEW job, job \in Job(job.plan),
         jobs' = [jobs EXCEPT ![j] = job]
  PROVE  jobs' \in Seq(UNION {Job(jobs'[i].plan) : i \in DOMAIN jobs'})
<1> DEFINE old == UNION {Job(jobs[i].plan) : i \in DOMAIN jobs}
           S == old \cup {job}
           q == [jobs EXCEPT ![j] = job]
<1>1. jobs \in Seq(S) /\ j \in 1 .. Len(jobs) /\ job \in S
  <2>1. jobs \in Seq(old)
    BY DEF TypeOK
  <2> HIDE DEF old
  <2> QED
    BY <2>1
<1>2. q \in Seq(S) /\ DOMAIN q = DOMAIN jobs
  <2> HIDE DEF S
  <2> QED
    BY <1>1, ExceptSeq
<1>3. \A i \in DOMAIN q : q[i] \in Job(q[i].plan)
  BY EachJob, <1>2
<1> HIDE DEF old, S, q
<1>4. q \in Seq(UNION {Job(q[i].plan) : i \in DOMAIN q})
  BY <1>2, <1>3, JobsType
<1> QED
  BY <1>4 DEF q

\* One more job.
LEMMA JobAppended ==
  ASSUME TypeOK, NEW job, job \in Job(job.plan), jobs' = Append(jobs, job)
  PROVE  jobs' \in Seq(UNION {Job(jobs'[i].plan) : i \in DOMAIN jobs'})
<1> DEFINE old == UNION {Job(jobs[i].plan) : i \in DOMAIN jobs}
           S == old \cup {job}
           q == Append(jobs, job)
<1>1. jobs \in Seq(S) /\ job \in S
  <2>1. jobs \in Seq(old)
    BY DEF TypeOK
  <2> HIDE DEF old
  <2> QED
    BY <2>1
<1>2. /\ q \in Seq(S) /\ DOMAIN q = 1 .. Len(jobs) + 1 /\ Len(jobs) \in Nat
      /\ DOMAIN jobs = 1 .. Len(jobs)
      /\ \A i \in 1 .. Len(jobs) : q[i] = jobs[i]
      /\ q[Len(jobs) + 1] = job
  BY <1>1
<1>3. \A i \in DOMAIN q : q[i] \in Job(q[i].plan)
  BY EachJob, <1>2
<1> HIDE DEF old, S, q
<1>4. q \in Seq(UNION {Job(q[i].plan) : i \in DOMAIN q})
  BY <1>2, <1>3, JobsType
<1> QED
  BY <1>4 DEF q

----------------------------------------------------------------------------
(* Types.                                                                  *)

\* The bounds one by one.
LEMMA Bounds == {MaxGen, MaxJobs, MaxChanges, MaxPane, MaxWindow} \subseteq Nat
  BY BoundsAssumption

\* There are finitely many panes and windows.
LEMMA FiniteIds == IsFiniteSet(PaneIds) /\ IsFiniteSet(WindowIds)
<1>1. 1 \in Int /\ MaxPane \in Int /\ MaxWindow \in Int
  BY Bounds
<1>2. IsFiniteSet(1 .. MaxPane)
  BY <1>1, FS_Interval
<1>3. IsFiniteSet(1 .. MaxWindow)
  BY <1>1, FS_Interval
<1> QED
  BY <1>2, <1>3 DEF PaneIds, WindowIds

LEMMA InitType == Init => TypeOK
<1> SUFFICES ASSUME Init PROVE TypeOK
  OBVIOUS
<1>1. tmux \in Workspaces
  BY StartsAssumption DEF Init
<1>2. IsFiniteSet(PaneIds) /\ IsFiniteSet(WindowIds)
  BY FiniteIds
<1>3. Cardinality(DOMAIN tmux) \in Nat /\ Cardinality(WindowsOf(tmux)) \in Nat
  BY <1>1, <1>2, WorkspaceType, WindowsType, FS_Subset, FS_CardinalityType
<1>4. jobs \in Seq(UNION {Job(jobs[j].plan) : j \in DOMAIN jobs})
  BY DEF Init
<1>5. submits = {} /\ nextPane \in Nat /\ nextWindow \in Nat
  BY <1>3 DEF Init
<1> QED
  BY <1>1, <1>4, <1>5 DEF Init, TypeOK

\* Whatever an application does, no type but those of tmux and `jobs` is at stake.
LEMMA JobTypes ==
  ASSUME TypeOK, NEW j \in DOMAIN jobs, Key,
         \/ JobList(j) \/ JobListFails(j) \/ JobInvalid(j) \/ JobApplied(j)
         \/ JobRefused(j) \/ JobFails(j)
  PROVE  TypeOK'
<1>1. jobs[j] \in Job(jobs[j].plan)
  BY EachJob
<1>2. jobs[j].at \in Int
  BY <1>1 DEF Job
<1>3. ASSUME NEW job, job \in Job(job.plan), Advance(j, job)
      PROVE  /\ jobs' \in Seq(UNION {Job(jobs'[i].plan) : i \in DOMAIN jobs'})
             /\ phase' \in {"open", "closing", "exited"}
             /\ UNCHANGED <<changes, latest, uiVars>>
  <2> DEFINE next == [job EXCEPT !.at = @ + 1]
  <2>1. next \in Job(next.plan)
    BY <1>3 DEF Job
  <2>2. jobs' = [jobs EXCEPT ![j] = next]
    BY <1>3 DEF Advance
  <2> HIDE DEF next
  <2>3. jobs' \in Seq(UNION {Job(jobs'[i].plan) : i \in DOMAIN jobs'})
    BY <2>1, <2>2, JobReplaced
  <2> QED
    BY <1>3, <2>3 DEF Advance, Done, TypeOK
<1>4. Skipping(jobs[j]) \in Job(Skipping(jobs[j]).plan)
  BY <1>1 DEF Skipping, Job
<1>5. ASSUME Reaches(j), Affected(j)
      PROVE  tmux' \in Workspaces /\ nextPane' \in Nat /\ nextWindow' \in Nat
  <2>1. tmux' \in Workspaces
    BY <1>5, EffectType DEF Reaches, Affected, TypeOK
  <2> QED
    BY <1>5, <2>1 DEF Affected, TypeOK
<1>6. CASE JobList(j)
  <2> DEFINE job == [jobs[j] EXCEPT !.panes = DOMAIN tmux, !.windows = WindowsOf(tmux)]
  <2>1. DOMAIN tmux \subseteq PaneIds /\ WindowsOf(tmux) \subseteq WindowIds
    BY WorkspaceType, WindowsType DEF TypeOK
  <2>2. job \in Job(job.plan)
    BY <1>1, <2>1 DEF Job
  <2>3. Advance(j, job) /\ UNCHANGED <<tmuxVars, still>>
    BY <1>6 DEF JobList
  <2> HIDE DEF job
  <2> QED
    BY <1>3, <2>2, <2>3 DEF TypeOK, tmuxVars, uiVars, confirm
<1>7. CASE JobListFails(j)
  <2> DEFINE job == [jobs[j] EXCEPT !.at = Failed]
  <2>1. job \in Job(job.plan)
    BY <1>1 DEF Job, Failed
  <2>2. jobs' = [jobs EXCEPT ![j] = job]
    BY <1>7 DEF JobListFails
  <2> HIDE DEF job
  <2>3. jobs' \in Seq(UNION {Job(jobs'[i].plan) : i \in DOMAIN jobs'})
    BY <2>1, <2>2, JobReplaced
  <2> QED
    BY <1>7, <2>3 DEF JobListFails, Done, TypeOK, world, tmuxVars, uiVars, confirm
<1>8. CASE JobInvalid(j)
  BY <1>3, <1>4, <1>8 DEF JobInvalid, TypeOK, tmuxVars, uiVars, confirm
<1>9. CASE JobApplied(j)
  <2> DEFINE job == IF Binds(Step(j))
                    THEN [jobs[j] EXCEPT !.handles[Step(j).handle] = nextWindow,
                                         !.windows = @ \cup {nextWindow}]
                    ELSE jobs[j]
  <2>1. ASSUME Binds(Step(j)) PROVE nextWindow \in WindowIds
    BY <1>9, <2>1 DEF JobApplied, Reaches, Possible, Binds
  <2>2. job \in Job(job.plan)
    BY <1>1, <2>1 DEF Job
  <2>3. Advance(j, job) /\ UNCHANGED still /\ Reaches(j) /\ Affected(j)
    BY <1>9 DEF JobApplied
  <2> HIDE DEF job
  <2> QED
    BY <1>3, <1>5, <2>2, <2>3 DEF TypeOK, uiVars, confirm
<1>10. CASE JobRefused(j)
  BY <1>3, <1>4, <1>10 DEF JobRefused, TypeOK, tmuxVars, uiVars, confirm
<1>11. CASE JobFails(j)
  <2>1. tmux' \in Workspaces /\ nextPane' \in Nat /\ nextWindow' \in Nat
    BY <1>5, <1>11 DEF JobFails, TypeOK, tmuxVars
  <2> QED
    BY <1>3, <1>4, <1>11, <2>1 DEF JobFails, TypeOK, uiVars, confirm
<1> QED
  BY <1>6, <1>7, <1>8, <1>9, <1>10, <1>11

\* A key, something in flight or somebody else takes a step.
LEMMA OtherTypes ==
  ASSUME TypeOK, Publish \/ PaneCloses \/ WorkChanges \/ UserKey \/ SubmitStep \/ ReportEnd
  PROVE  TypeOK'
<1> USE DEF TypeOK, world, tmuxVars, uiVars, confirm
<1>0. ASSUME NEW ws, ws \in Workspaces, Changed(ws)
      PROVE  TypeOK'
  <2>1. tmux' = ws /\ changes' = changes + 1 /\ still' = FALSE
    BY <1>0 DEF Changed
  <2>2. UNCHANGED <<nextPane, nextWindow, latest, phase, uiVars, jobs>>
    BY <1>0 DEF Changed
  <2>3. changes' \in Nat
    BY <2>1
  <2>4. still' \in BOOLEAN
    BY <2>1
  <2>5. tmux' \in Workspaces
    BY <1>0, <2>1
  <2> QED
    BY <2>2, <2>3, <2>4, <2>5
<1>1. CASE Publish
  BY <1>1 DEF Publish
<1>2. CASE PaneCloses
  <2>1. PICK p \in DOMAIN tmux : Changed([q \in DOMAIN tmux \ {p} |-> tmux[q]])
    BY <1>2 DEF PaneCloses
  <2> DEFINE ws == [q \in DOMAIN tmux \ {p} |-> tmux[q]]
  <2>2. ws \in Workspaces
    <3>1. DOMAIN ws \subseteq PaneIds /\ ws \in [DOMAIN ws -> Pane]
      BY WorkspaceType
    <3> QED
      BY <3>1, WorkspaceType
  <2>3. Changed(ws)
    BY <2>1
  <2> HIDE DEF ws
  <2> QED
    BY <1>0, <2>2, <2>3
<1>3. CASE WorkChanges
  <2>1. PICK p \in DOMAIN tmux, k \in Works : Changed([tmux EXCEPT ![p].work = k])
    BY <1>3 DEF WorkChanges
  <2> DEFINE pane == [tmux[p] EXCEPT !.work = k]
             ws   == [tmux EXCEPT ![p] = pane]
  <2>2. DOMAIN tmux \subseteq PaneIds /\ tmux \in [DOMAIN tmux -> Pane]
    BY WorkspaceType
  <2>3. pane \in Pane
    BY <2>2 DEF Pane
  <2>4. ws \in Workspaces
    <3>1. DOMAIN ws = DOMAIN tmux /\ ws \in [DOMAIN tmux -> Pane]
      BY <2>2, <2>3
    <3> QED
      BY <2>2, <3>1, WorkspaceType
  <2>5. Changed(ws)
    BY <2>1
  <2> QED
    BY <1>0, <2>4, <2>5
<1>4. CASE ConfirmApply
  <2> DEFINE job == [plan |-> plan, at |-> 0, panes |-> {}, windows |-> {},
                     handles |-> [h \in Handles |-> NoWindow], skipped |-> {}]
  <2>1. job \in Job(job.plan)
    BY DEF Job
  <2>2. jobs' = Append(jobs, job)
    BY <1>4 DEF ConfirmApply
  <2> HIDE DEF job
  <2>3. jobs' \in Seq(UNION {Job(jobs'[i].plan) : i \in DOMAIN jobs'})
    BY <2>1, <2>2, JobAppended
  <2> QED
    BY <1>4, <2>3 DEF ConfirmApply
<1>5. CASE ConfirmCancel
  BY <1>5 DEF ConfirmCancel
<1>6. CASE KeyQuit
  BY <1>6 DEF KeyQuit, Done
<1>7. CASE KeyCancel
  <2>1. gen' \in Nat /\ busy' = FALSE
    BY <1>7 DEF KeyCancel
  <2> QED
    BY <1>7, <2>1 DEF KeyCancel
<1>8. CASE KeyReport
  BY <1>8 DEF KeyReport
<1>9. CASE KeyEnter
  BY <1>9, Bounds DEF KeyEnter, Submit
<1>10. CASE SubmitStep
  <2>1. PICK s \in submits :
          \/ SubmitDropped(s) \/ ClassifiedAsk(s) \/ ClassifiedOrganize(s) \/ Planned(s)
          \/ BroadcastNothing(s) \/ BroadcastStart(s) \/ BroadcastNoProvider(s)
          \/ BroadcastAsk(s) \/ BroadcastEnd(s)
    BY <1>10 DEF SubmitStep
  <2>2. s \in Submit(s.plan) /\ s.gen \in Nat
    BY Bounds DEF Submit
  <2>3. ASSUME NEW at \in {"load", "provider", "answer"}, GoesTo(s, at)
        PROVE  \A t \in submits' : t \in Submit(t.plan)
    BY <2>2, <2>3 DEF GoesTo, Submit
  <2>4. CASE SubmitDropped(s)
    BY <2>4 DEF SubmitDropped, Ends
  <2>5. CASE ClassifiedAsk(s)
    BY <2>3, <2>5 DEF ClassifiedAsk
  <2>6. CASE ClassifiedOrganize(s)
    <3>1. PICK p : submits' = (submits \ {s}) \cup {[s EXCEPT !.at = "plan", !.plan = p]}
      BY <2>6 DEF ClassifiedOrganize
    <3>2. [s EXCEPT !.at = "plan", !.plan = p] \in Submit(p)
      BY <2>2 DEF Submit
    <3>3. \A t \in submits' : t \in Submit(t.plan)
      BY <3>1, <3>2 DEF Submit
    <3>4. still' \in BOOLEAN
      BY <2>6 DEF ClassifiedOrganize
    <3> QED
      BY <2>6, <3>3, <3>4 DEF ClassifiedOrganize
  <2>7. CASE Planned(s)
    BY <2>2, <2>7 DEF Planned, Ends
  <2>8. CASE BroadcastNothing(s)
    BY <2>8 DEF BroadcastNothing, Ends
  <2>9. CASE BroadcastStart(s)
    BY <2>3, <2>9 DEF BroadcastStart
  <2>10. CASE BroadcastNoProvider(s)
    BY <2>10 DEF BroadcastNoProvider, Ends
  <2>11. CASE BroadcastAsk(s)
    BY <2>3, <2>11 DEF BroadcastAsk
  <2>12. CASE BroadcastEnd(s)
    BY <2>12 DEF BroadcastEnd, Ends
  <2> QED
    BY <2>1, <2>4, <2>5, <2>6, <2>7, <2>8, <2>9, <2>10, <2>11, <2>12
<1>11. CASE ReportEnd
  BY <1>11 DEF ReportEnd
<1> QED
  BY <1>1, <1>2, <1>3, <1>4, <1>5, <1>6, <1>7, <1>8, <1>9, <1>10, <1>11 DEF UserKey

LEMMA TypeStep == TypeOK /\ [Next]_vars => TypeOK'
<1> SUFFICES ASSUME TypeOK, [Next]_vars PROVE TypeOK'
  OBVIOUS
<1>1. CASE JobStep
  <2>1. PICK j \in DOMAIN jobs :
          \/ JobList(j) \/ JobListFails(j) \/ JobInvalid(j) \/ JobApplied(j)
          \/ JobRefused(j) \/ JobFails(j)
    BY <1>1 DEF JobStep
  <2>2. Key
    BY <2>1 DEF JobList, JobListFails, JobInvalid, JobApplied, JobRefused, JobFails, AtStep
  <2> QED
    BY <2>1, <2>2, JobTypes
<1>2. CASE UNCHANGED vars
  BY <1>2 DEF vars, TypeOK, world, tmuxVars, uiVars, confirm
<1> QED
  BY <1>1, <1>2, OtherTypes DEF Next

\* The cockpit keeps its types for every workspace it may start in, whatever a
\* model answers and tmux makes of it.
THEOREM TypeCorrect == Spec => []TypeOK
<1>1. Init => TypeOK
  BY InitType
<1>2. TypeOK /\ [Next]_vars => TypeOK'
  BY TypeStep
<1> QED
  BY <1>1, <1>2, PTL DEF Spec

----------------------------------------------------------------------------
(* The confirm screen.                                                     *)

\* No application of a plan touches the prompt.
LEMMA JobsKeepUi == JobStep => UNCHANGED uiVars
  BY DEF JobStep, JobList, JobListFails, JobInvalid, JobApplied, JobRefused, JobFails,
         Advance, world

\* Only the planner's answer opens the confirm screen, for the current submit; no
\* key changes the generation while it is open.
LEMMA LateStep == LateResultsAreDropped /\ [Next]_vars => LateResultsAreDropped'
<1> SUFFICES ASSUME LateResultsAreDropped, [Next]_vars PROVE LateResultsAreDropped'
  OBVIOUS
<1> USE DEF LateResultsAreDropped
<1>1. ASSUME UNCHANGED <<mode, planGen, gen>> PROVE LateResultsAreDropped'
  BY <1>1
<1>2. CASE UserKey
  <2>1. CASE ConfirmCancel
    BY <2>1 DEF ConfirmCancel
  <2>2. CASE KeyCancel
    BY <2>2 DEF KeyCancel, confirm
  <2>3. CASE KeyEnter
    BY <2>3 DEF KeyEnter, confirm
  <2>4. CASE ConfirmApply \/ KeyQuit \/ KeyReport
    BY <1>1, <2>4 DEF ConfirmApply, KeyQuit, KeyReport, uiVars, confirm
  <2> QED
    BY <1>2, <2>1, <2>2, <2>3, <2>4 DEF UserKey
<1>3. CASE SubmitStep
  <2>1. PICK s \in submits :
          \/ SubmitDropped(s) \/ ClassifiedAsk(s) \/ ClassifiedOrganize(s) \/ Planned(s)
          \/ BroadcastNothing(s) \/ BroadcastStart(s) \/ BroadcastNoProvider(s)
          \/ BroadcastAsk(s) \/ BroadcastEnd(s)
    BY <1>3 DEF SubmitStep
  <2>2. CASE Planned(s)
    BY <2>2 DEF Planned, IsCurrent
  <2>3. CASE ~Planned(s)
    BY <1>1, <2>1, <2>3
    DEF SubmitDropped, ClassifiedAsk, ClassifiedOrganize, BroadcastNothing, BroadcastStart,
        BroadcastNoProvider, BroadcastAsk, BroadcastEnd, confirm
  <2> QED
    BY <2>2, <2>3
<1>4. CASE Publish \/ PaneCloses \/ WorkChanges
  BY <1>1, <1>4 DEF Publish, PaneCloses, WorkChanges, Changed, uiVars, confirm
<1>5. CASE ReportEnd
  BY <1>1, <1>5 DEF ReportEnd, confirm
<1>6. CASE JobStep \/ UNCHANGED vars
  BY <1>1, <1>6, JobsKeepUi DEF vars, uiVars, confirm
<1> QED
  BY <1>2, <1>3, <1>4, <1>5, <1>6 DEF Next

\* A confirm screen shows the plan of the last prompt, and one nobody cancelled,
\* however often and however late the planner answers (makeGeneration, #submit).
THEOREM ConfirmIsCurrent == Spec => []LateResultsAreDropped
<1>1. Init => LateResultsAreDropped
  BY DEF Init, LateResultsAreDropped
<1> QED
  BY <1>1, LateStep, PTL DEF Spec

----------------------------------------------------------------------------
(* The lock on the prompt.                                                 *)

\* A step that frees the prompt, or changes nothing of what locks it.
LEMMA Unlocks ==
  ASSUME BusyMeansWork, \/ busy' = FALSE
                        \/ UNCHANGED <<busy, gen, report, submits>>
  PROVE  BusyMeansWork'
  BY DEF BusyMeansWork, IsCurrent

\* A submit that moves on is still in flight, and still the current one if it was.
LEMMA MovesOn ==
  ASSUME TypeOK, BusyMeansWork, NEW s \in submits, NEW t, t.gen = s.gen,
         submits' = (submits \ {s}) \cup {t}, UNCHANGED <<busy, gen, report>>
  PROVE  BusyMeansWork'
<1> SUFFICES ASSUME busy', ~report' PROVE \E u \in submits' : IsCurrent(u)'
  BY DEF BusyMeansWork
<1>1. PICK u \in submits : IsCurrent(u)
  BY DEF BusyMeansWork
<1>2. CASE u = s
  BY <1>1, <1>2 DEF IsCurrent
<1>3. CASE u # s
  BY <1>1, <1>3 DEF IsCurrent
<1> QED
  BY <1>2, <1>3

LEMMA BusyStep == TypeOK /\ BusyMeansWork /\ [Next]_vars => BusyMeansWork'
<1> SUFFICES ASSUME TypeOK, BusyMeansWork, [Next]_vars PROVE BusyMeansWork'
  OBVIOUS
<1>1. CASE UserKey
  <2>1. CASE KeyEnter
    <3> DEFINE s == [gen |-> gen + 1, at |-> "classify", plan |-> NoPlan]
    <3>1. s \in submits' /\ s.gen = gen'
      BY <2>1 DEF KeyEnter
    <3> QED
      BY <3>1 DEF BusyMeansWork, IsCurrent
  <2>2. CASE KeyReport
    BY <2>2 DEF KeyReport, BusyMeansWork
  <2>3. CASE KeyCancel
    BY <2>3, Unlocks DEF KeyCancel
  <2>4. CASE ConfirmApply \/ ConfirmCancel \/ KeyQuit
    BY <2>4, Unlocks DEF ConfirmApply, ConfirmCancel, KeyQuit, uiVars
  <2> QED
    BY <1>1, <2>1, <2>2, <2>3, <2>4 DEF UserKey
<1>2. CASE SubmitStep
  <2>1. PICK s \in submits :
          \/ SubmitDropped(s) \/ ClassifiedAsk(s) \/ ClassifiedOrganize(s) \/ Planned(s)
          \/ BroadcastNothing(s) \/ BroadcastStart(s) \/ BroadcastNoProvider(s)
          \/ BroadcastAsk(s) \/ BroadcastEnd(s)
    BY <1>2 DEF SubmitStep
  <2>2. s \in Submit(s.plan)
    BY DEF TypeOK
  <2>3. CASE SubmitDropped(s)
    <3>1. /\ submits' = submits \ {s} /\ ~IsCurrent(s)
          /\ UNCHANGED <<busy, gen, report>>
      BY <2>3 DEF SubmitDropped, Ends
    <3> QED
      BY <3>1 DEF BusyMeansWork, IsCurrent
  <2>4. CASE ClassifiedAsk(s) \/ BroadcastStart(s) \/ BroadcastAsk(s)
    <3>1. PICK at \in {"load", "provider", "answer"} : GoesTo(s, at)
      BY <2>4 DEF ClassifiedAsk, BroadcastStart, BroadcastAsk
    <3>2. UNCHANGED <<busy, gen, report>>
      BY <2>4 DEF ClassifiedAsk, BroadcastStart, BroadcastAsk
    <3>3. [s EXCEPT !.at = at].gen = s.gen
      BY <2>2 DEF Submit
    <3> QED
      BY <3>1, <3>2, <3>3, MovesOn DEF GoesTo
  <2>5. CASE ClassifiedOrganize(s)
    <3>1. PICK p : submits' = (submits \ {s}) \cup {[s EXCEPT !.at = "plan", !.plan = p]}
      BY <2>5 DEF ClassifiedOrganize
    <3>2. [s EXCEPT !.at = "plan", !.plan = p].gen = s.gen
      BY <2>2 DEF Submit
    <3>3. UNCHANGED <<busy, gen, report>>
      BY <2>5 DEF ClassifiedOrganize
    <3> QED
      BY <3>1, <3>2, <3>3, MovesOn
  <2>6. CASE Planned(s) \/ BroadcastNothing(s) \/ BroadcastNoProvider(s) \/ BroadcastEnd(s)
    BY <2>6, Unlocks DEF Planned, BroadcastNothing, BroadcastNoProvider, BroadcastEnd
  <2> QED
    BY <2>1, <2>3, <2>4, <2>5, <2>6
<1>3. CASE Publish \/ PaneCloses \/ WorkChanges
  BY <1>3, Unlocks DEF Publish, PaneCloses, WorkChanges, Changed, uiVars
<1>4. CASE ReportEnd
  BY <1>4, Unlocks DEF ReportEnd
<1>5. CASE JobStep \/ UNCHANGED vars
  BY <1>5, JobsKeepUi, Unlocks DEF vars, uiVars
<1> QED
  BY <1>1, <1>2, <1>3, <1>4, <1>5 DEF Next

\* Keys are ignored only while the submit they would cancel, or a report, is in
\* flight: every way out of a submit, late or not, gives the keyboard back.
THEOREM NeverLocked == Spec => []BusyMeansWork
<1>1. Init => BusyMeansWork
  BY DEF Init, BusyMeansWork
<1> QED
  BY <1>1, TypeCorrect, BusyStep, PTL DEF Spec
----------------------------------------------------------------------------
(* Folds.  The library folds over the set of all positions, taking its     *)
(* largest last; what has been folded after n positions is h[1 .. n].      *)

\* What holds of zero, and of the next of each it holds of, holds of all.
LEMMA Induction ==
  ASSUME NEW S \in SUBSET Nat, 0 \in S, \A n \in S : n + 1 \in S
  PROVE  S = Nat
<1> SUFFICES ASSUME S # Nat PROVE FALSE
  OBVIOUS
<1> DEFINE R == OpToRel(<, Nat)
<1>1. IsWellFoundedOn(R, Nat)
  BY NatLessThanWellFounded
<1>2. \A m, n \in Nat : m < n => <<m, n>> \in R
  BY DEF OpToRel
<1> HIDE DEF R
<1>3. Nat \ S \subseteq Nat /\ Nat \ S # {}
  OBVIOUS
<1>4. PICK n \in Nat \ S : \A m \in Nat \ S : ~(<<m, n>> \in R)
  BY <1>1, <1>3, WFMin
<1>5. n # 0 /\ n - 1 \in Nat /\ n - 1 < n
  OBVIOUS
<1>6. n - 1 \in S
  BY <1>2, <1>4, <1>5
<1> QED
  BY <1>5, <1>6

\* What is folded: the raw steps of a reply, read with the panes x known; or the
\* projects of the workspace x, each into its steps.
First(kind) == IF kind = "reply" THEN [steps |-> <<>>, bound |-> {}] ELSE <<>>
Taken(kind, x, a, e) == IF kind = "reply" THEN ReadNext(a, e, x) ELSE a \o ProjectSteps(x, e)

FoldOn(kind, x, t, n, h) ==
  h = [s \in SUBSET (1..n) |-> IF s = {} THEN First(kind)
                               ELSE Taken(kind, x, h[s \ {Max(s)}], t[Max(s)])]

LEMMA LastIsMax ==
  ASSUME NEW n \in Nat, NEW s \in SUBSET (1..n), n \in s
  PROVE  Max(s) = n
<1>1. \A y \in s : (\A z \in s : y >= z) => y = n
  OBVIOUS
<1>2. \A y \in s : n >= y
  OBVIOUS
<1> QED
  BY <1>1, <1>2 DEF Max

\* The function of the fold exists, position by position.
LEMMA FoldExists ==
  ASSUME NEW kind, NEW x, NEW t, NEW n \in Nat
  PROVE  \E h : FoldOn(kind, x, t, n, h)
<1> DEFINE S == {m \in Nat : \E h : FoldOn(kind, x, t, m, h)}
<1>1. 0 \in S
  <2> DEFINE h == [s \in SUBSET (1..0) |-> First(kind)]
  <2>1. SUBSET (1..0) = {{}}
    OBVIOUS
  <2>2. h = [s \in SUBSET (1..0) |-> IF s = {} THEN First(kind)
                               ELSE Taken(kind, x, h[s \ {Max(s)}], t[Max(s)])]
    BY <2>1
  <2> HIDE DEF h
  <2>3. FoldOn(kind, x, t, 0, h)
    BY <2>2 DEF FoldOn
  <2> QED
    BY <2>3
<1>2. ASSUME NEW m \in S
      PROVE  m + 1 \in S
  <2>1. m \in Nat /\ m + 1 \in Nat /\ 1..m \subseteq 1..(m + 1) /\ m + 1 \notin 1..m
    OBVIOUS
  <2>2. PICK h : FoldOn(kind, x, t, m, h)
    OBVIOUS
  <2> DEFINE g == [s \in SUBSET (1..(m + 1)) |->
                     IF m + 1 \in s THEN Taken(kind, x, h[s \ {m + 1}], t[m + 1]) ELSE h[s]]
  <2>3. ASSUME NEW s \in SUBSET (1..(m + 1)), m + 1 \in s
        PROVE  g[s] = Taken(kind, x, g[s \ {Max(s)}], t[Max(s)])
    <3>1. Max(s) = m + 1
      BY <2>1, <2>3, LastIsMax
    <3>2. g[s \ {m + 1}] = h[s \ {m + 1}]
      BY <2>3
    <3> QED
      BY <2>3, <3>1, <3>2
  <2>4. ASSUME NEW s \in SUBSET (1..(m + 1)), m + 1 \notin s
        PROVE  g[s] = IF s = {} THEN First(kind)
                      ELSE Taken(kind, x, g[s \ {Max(s)}], t[Max(s)])
    <3>1. s \in SUBSET (1..m)
      <4>1. \A i \in 1..(m + 1) : i # m + 1 => i \in 1..m
        BY <2>1
      <4> QED
        BY <2>4, <4>1
    <3>2. g[s] = h[s]
      BY <2>4
    <3>4. m + 1 \notin s \ {Max(s)} /\ s \ {Max(s)} \in SUBSET (1..(m + 1))
      BY <2>1, <2>4, <3>1
    <3>5. g[s \ {Max(s)}] = h[s \ {Max(s)}]
      BY <3>4
    <3>3. h[s] = IF s = {} THEN First(kind) ELSE Taken(kind, x, h[s \ {Max(s)}], t[Max(s)])
      BY <2>2, <3>1 DEF FoldOn
    <3> QED
      BY <3>2, <3>3, <3>5
  <2>5. g = [s \in SUBSET (1..(m + 1)) |->
               IF s = {} THEN First(kind) ELSE Taken(kind, x, g[s \ {Max(s)}], t[Max(s)])]
    BY <2>3, <2>4
  <2> HIDE DEF g
  <2>6. FoldOn(kind, x, t, m + 1, g)
    BY <2>5 DEF FoldOn
  <2> QED
    BY <2>1, <2>6
<1> HIDE DEF S
<1>3. S = Nat
  <2>1. S \in SUBSET Nat
    BY DEF S
  <2> QED
    BY <1>1, <1>2, <2>1, Induction
<1> QED
  BY <1>3 DEF S

\* From one prefix to the next.
LEMMA FoldGrows ==
  ASSUME NEW kind, NEW x, NEW t, NEW n \in Nat, NEW h, FoldOn(kind, x, t, n, h)
  PROVE  /\ h[{}] = First(kind)
         /\ \A m \in 0 .. n - 1 : h[1..(m + 1)] = Taken(kind, x, h[1..m], t[m + 1])
<1>1. h[{}] = First(kind)
  BY DEF FoldOn
<1>2. ASSUME NEW m \in 0 .. n - 1
      PROVE  h[1..(m + 1)] = Taken(kind, x, h[1..m], t[m + 1])
  <2>1. m + 1 \in Nat /\ m + 1 \in 1..(m + 1) /\ 1..(m + 1) \in SUBSET (1..n)
    OBVIOUS
  <2>2. Max(1..(m + 1)) = m + 1
    BY <2>1, LastIsMax
  <2>3. (1..(m + 1)) \ {m + 1} = 1..m
    OBVIOUS
  <2>4. \A s \in SUBSET (1..n) : s # {} => h[s] = Taken(kind, x, h[s \ {Max(s)}], t[Max(s)])
    BY DEF FoldOn
  <2>5. 1..(m + 1) # {}
    BY <2>1
  <2> QED
    BY <2>1, <2>2, <2>3, <2>4, <2>5
<1> QED
  BY <1>1, <1>2

----------------------------------------------------------------------------
(* The two folds of the model.                                             *)

Usable(reply) == SubSeq(reply, 1, IF Len(reply) < MaxPlanSteps THEN Len(reply) ELSE MaxPlanSteps)

\* All that is read of the first steps of a reply, with the panes known.
ReadAll(raw, known) ==
  LET Next2(read, step) == ReadNext(read, step, known)
  IN  FoldLeft(Next2, [steps |-> <<>>, bound |-> {}], raw)

LEMMA ParseIsRead ==
  ASSUME NEW reply, NEW known
  PROVE  ParsePlan(reply, known) = ReadAll(Usable(reply), known).steps
BY DEF ParsePlan, ReadAll, Usable

LEMMA ReadIsChosen ==
  ASSUME NEW raw, NEW known
  PROVE  ReadAll(raw, known) =
           (CHOOSE h : h = [s \in SUBSET DOMAIN raw |->
                              IF s = {} THEN [steps |-> <<>>, bound |-> {}]
                              ELSE ReadNext(h[s \ {Max(s)}], raw[Max(s)], known)])[DOMAIN raw]
BY DEF ReadAll, FoldLeft, MapThenFoldSet

LEMMA ReadIsFold ==
  ASSUME NEW n \in Nat, NEW raw, DOMAIN raw = 1..n, NEW known
  PROVE  \E h : FoldOn("reply", known, raw, n, h) /\ ReadAll(raw, known) = h[1..n]
<1> DEFINE P(h) == h = [s \in SUBSET DOMAIN raw |->
                          IF s = {} THEN [steps |-> <<>>, bound |-> {}]
                          ELSE ReadNext(h[s \ {Max(s)}], raw[Max(s)], known)]
<1>1. \A h : FoldOn("reply", known, raw, n, h) <=> P(h)
  BY DEF FoldOn, First, Taken
<1>2. \E h : P(h)
  BY <1>1, FoldExists
<1>3. ReadAll(raw, known) = (CHOOSE h : P(h))[1..n]
  BY ReadIsChosen
<1>4. P(CHOOSE h : P(h))
  BY <1>2
<1> HIDE DEF P
<1> QED
  BY <1>1, <1>3, <1>4

\* The steps of some projects, in order.
AllSteps(ws, keys) ==
  LET Add(steps, k) == steps \o ProjectSteps(ws, k)
  IN  FoldLeft(Add, <<>>, keys)

Keys(ws) == {k \in Projects : Group(ws, k) # {}}

LEMMA PlanIsSteps ==
  ASSUME NEW ws
  PROVE  HeuristicPlan(ws) = AllSteps(ws, Ordered(Keys(ws))) \o ShellSteps(ws)
BY DEF HeuristicPlan, AllSteps, Keys

LEMMA StepsAreChosen ==
  ASSUME NEW ws, NEW keys
  PROVE  AllSteps(ws, keys) =
           (CHOOSE h : h = [s \in SUBSET DOMAIN keys |->
                              IF s = {} THEN <<>>
                              ELSE h[s \ {Max(s)}] \o ProjectSteps(ws, keys[Max(s)])])[DOMAIN keys]
BY DEF AllSteps, FoldLeft, MapThenFoldSet

LEMMA StepsAreFold ==
  ASSUME NEW n \in Nat, NEW keys, DOMAIN keys = 1..n, NEW ws
  PROVE  \E h : FoldOn("plan", ws, keys, n, h) /\ AllSteps(ws, keys) = h[1..n]
<1> DEFINE P(h) == h = [s \in SUBSET DOMAIN keys |->
                          IF s = {} THEN <<>>
                          ELSE h[s \ {Max(s)}] \o ProjectSteps(ws, keys[Max(s)])]
<1>1. \A h : FoldOn("plan", ws, keys, n, h) <=> P(h)
  BY DEF FoldOn, First, Taken
<1>2. \E h : P(h)
  BY <1>1, FoldExists
<1>3. AllSteps(ws, keys) = (CHOOSE h : P(h))[1..n]
  BY StepsAreChosen
<1>4. P(CHOOSE h : P(h))
  BY <1>2
<1> HIDE DEF P
<1> QED
  BY <1>1, <1>3, <1>4

----------------------------------------------------------------------------
(* What is read of a reply.                                                *)

Verbs == {"new-window", "rename-window", "move-pane", "break-pane", "swap-pane", "select-layout"}

\* The steps are closed: of known verbs, of known panes, of handles bound before.
Closed(steps, known) ==
  \A i \in DOMAIN steps :
    steps[i].op \in Verbs /\ PanesOf(steps[i]) \subseteq known /\ Bound(steps, i)

HandlesOf(steps) == {steps[k].handle : k \in {i \in DOMAIN steps : Binds(steps[i])}}

IsRead(read, known) ==
  /\ \E S : read.steps \in Seq(S)
  /\ Closed(read.steps, known)
  /\ read.bound \subseteq HandlesOf(read.steps)

LEMMA BoundBy ==
  ASSUME NEW steps, NEW i, NEW k \in 1 .. i - 1, Binds(steps[k]), steps[k].handle = steps[i].to.id
  PROVE  Bound(steps, i)
BY Zenon DEF Bound

\* One more step, of a handle that is bound.
LEMMA StepIsRead ==
  ASSUME NEW read, NEW known, IsRead(read, known), NEW step
  PROVE  IsRead(ReadNext(read, step, known), known)
<1> DEFINE steps == read.steps
           n == Len(steps)
           more == Append(steps, step)
<1>1. PICK S : steps \in Seq(S)
  BY DEF IsRead
<1>2. n \in Nat /\ DOMAIN steps = 1..n
  BY <1>1
<1>3. /\ more \in Seq(S \cup {step}) /\ DOMAIN more = 1..(n + 1)
      /\ \A i \in 1..n : more[i] = steps[i]
      /\ more[n + 1] = step
  <2>1. steps \in Seq(S \cup {step})
    BY <1>1
  <2> QED
    BY <1>2, <2>1
<1>4. CASE ~Readable(step, known, read.bound)
  BY <1>4 DEF ReadNext
<1>5. CASE Readable(step, known, read.bound)
  <2> DEFINE next == ReadNext(read, step, known)
  <2>1. next.steps = more
    BY <1>5 DEF ReadNext
  <2>2. next.bound = IF Binds(step) THEN read.bound \cup {step.handle} ELSE read.bound
    BY <1>5 DEF ReadNext
  <2> HIDE DEF next, more, n, steps
  <2>3. \A i \in 1..n : Bound(steps, i) => Bound(more, i)
    <3>1. \A i \in 1..n : \A k \in 1 .. i - 1 : k \in 1..n
      BY <1>2
    <3> QED
      BY <1>3, <3>1 DEF Bound
  <2>4. HandlesOf(steps) \subseteq HandlesOf(more)
    <3>1. 1..n \subseteq 1..(n + 1)
      BY <1>2
    <3> QED
      BY <1>2, <1>3, <3>1 DEF HandlesOf
  <2>5. Binds(step) => step.handle \in HandlesOf(more)
    <3>1. n + 1 \in 1..(n + 1)
      BY <1>2
    <3> QED
      BY <1>3, <3>1 DEF HandlesOf
  <2>6. Closed(steps, known) /\ read.bound \subseteq HandlesOf(steps)
    BY DEF IsRead, steps
  <2>7. Bound(more, n + 1)
    <3>1. CASE step.op \notin {"rename-window", "move-pane", "select-layout"}
      BY <1>3, <3>1 DEF Bound
    <3>2. CASE step.op \in {"rename-window", "move-pane", "select-layout"}
      <4>1. step.to.kind = "window" \/ step.to.id \in read.bound
        BY <1>5, <3>2 DEF Readable
      <4>2. ASSUME step.to.id \in read.bound
            PROVE  \E k \in 1..n : Binds(more[k]) /\ more[k].handle = step.to.id
        BY <1>2, <1>3, <2>6, <4>2 DEF HandlesOf
      <4>3. 1 .. n + 1 - 1 = 1..n
        BY <1>2
      <4>4. CASE step.to.kind = "window"
        BY <1>3, <4>4 DEF Bound
      <4>5. CASE step.to.id \in read.bound
        <5>1. PICK k \in 1..n : Binds(more[k]) /\ more[k].handle = step.to.id
          BY <4>2, <4>5
        <5>2. k \in 1 .. n + 1 - 1 /\ more[k].handle = more[n + 1].to.id
          BY <1>3, <4>3, <5>1
        <5> QED
          BY <1>2, <5>1, <5>2, BoundBy
      <4> QED
        BY <4>1, <4>4, <4>5
    <3> QED
      BY <3>1, <3>2
  <2>8. step.op \in Verbs /\ PanesOf(step) \subseteq known
    BY <1>5 DEF Readable, Verbs, PanesOf
  <2>9. Closed(more, known)
    <3>1. \A i \in 1..(n + 1) : i \in 1..n \/ i = n + 1
      BY <1>2
    <3>2. ASSUME NEW i \in 1..n
          PROVE  more[i].op \in Verbs /\ PanesOf(more[i]) \subseteq known /\ Bound(more, i)
      BY <1>2, <1>3, <2>3, <2>6 DEF Closed
    <3> QED
      BY <1>3, <2>7, <2>8, <3>1, <3>2 DEF Closed
  <2>10. next.bound \subseteq HandlesOf(more)
    BY <2>2, <2>4, <2>5, <2>6
  <2> QED
    BY <1>3, <2>1, <2>9, <2>10 DEF IsRead, next
<1> QED
  BY <1>4, <1>5

\* Whatever a model replies, what is read of it is closed (parseOrganizePlan).
LEMMA ParseIsClosed ==
  ASSUME NEW reply \in Replies, NEW known
  PROVE  Closed(ParsePlan(reply, known), known)
<1> DEFINE raw == Usable(reply)
           n == Len(raw)
<1>1. raw \in Seq(Range(reply))
  <2> DEFINE m == IF Len(reply) < MaxPlanSteps THEN Len(reply) ELSE MaxPlanSteps
             S == Range(reply)
  <2>1. reply \in Seq(S) /\ MaxPlanSteps \in Nat
    BY RepliesAssumption
  <2> HIDE DEF S
  <2>2. m \in Nat /\ m <= Len(reply)
    BY <2>1
  <2> HIDE DEF m
  <2>3. SubSeq(reply, 1, m) \in Seq(S)
    <3>1. \A i \in 1..m : i \in 1..Len(reply) /\ reply[i] \in S
      BY <2>1, <2>2
    <3> QED
      BY <2>1, <2>2, <3>1
  <2>4. raw = SubSeq(reply, 1, m)
    BY DEF Usable, m
  <2> QED
    BY <2>3, <2>4 DEF S
<1>2. n \in Nat /\ DOMAIN raw = 1..n
  BY <1>1
<1> HIDE DEF n, raw
<1>3. PICK h : FoldOn("reply", known, raw, n, h) /\ ReadAll(raw, known) = h[1..n]
  BY <1>2, ReadIsFold
<1> DEFINE S == {m \in Nat : m <= n => IsRead(h[1..m], known)}
<1>4. 0 \in S
  <2>1. h[{}] = [steps |-> <<>>, bound |-> {}]
    BY <1>2, <1>3, FoldGrows DEF First
  <2>2. 1..0 = {}
    OBVIOUS
  <2>3. h[{}].steps = <<>> /\ h[{}].bound = {}
    BY <2>1
  <2>4. <<>> \in Seq({}) /\ DOMAIN <<>> = {}
    OBVIOUS
  <2>5. IsRead(h[{}], known)
    BY <2>3, <2>4 DEF IsRead, Closed
  <2> QED
    BY <2>2, <2>5
<1>5. ASSUME NEW m \in S
      PROVE  m + 1 \in S
  <2>1. CASE m + 1 <= n
    <3>1. m \in 0 .. n - 1 /\ m <= n
      BY <1>2, <2>1
    <3>2. h[1..(m + 1)] = ReadNext(h[1..m], raw[m + 1], known)
      BY <1>2, <1>3, <3>1, FoldGrows DEF Taken
    <3>3. IsRead(h[1..m], known)
      BY <3>1
    <3>4. IsRead(h[1..(m + 1)], known)
      BY <3>2, <3>3, StepIsRead
    <3> QED
      BY <3>4
  <2> QED
    BY <2>1
<1> HIDE DEF S
<1>6. S = Nat
  <2>1. S \in SUBSET Nat
    BY DEF S
  <2> QED
    BY <1>4, <1>5, <2>1, Induction
<1>7. IsRead(h[1..n], known)
  BY <1>2, <1>6 DEF S
<1>8. ParsePlan(reply, known) = h[1..n].steps
  BY <1>3, ParseIsRead DEF raw
<1> QED
  BY <1>7, <1>8 DEF IsRead
----------------------------------------------------------------------------
(* Ids in order.                                                           *)

Rises(q, S) ==
  q \in [1..Cardinality(S) -> S] /\ \A i, j \in DOMAIN q : i < j => q[i] < q[j]

LEMMA Greatest ==
  ASSUME NEW T, T \subseteq Nat, IsFiniteSet(T), T # {}
  PROVE  \E n \in T : \A m \in T : n >= m
<1> DEFINE S == {k \in Nat : \A U \in SUBSET Nat :
                   IsFiniteSet(U) /\ U # {} /\ Cardinality(U) = k => \E n \in U : \A m \in U : n >= m}
<1>1. 0 \in S
  BY FS_EmptySet
<1>2. ASSUME NEW k \in S
      PROVE  k + 1 \in S
  <2>1. ASSUME NEW U \in SUBSET Nat, IsFiniteSet(U), Cardinality(U) = k + 1, NEW u \in U
        PROVE  \E n \in U : \A m \in U : n >= m
    <3>1. IsFiniteSet(U \ {u}) /\ Cardinality(U \ {u}) = Cardinality(U) - 1
      BY <2>1, FS_RemoveElement
    <3>2. k \in Nat
      OBVIOUS
    <3>3. CASE U \ {u} = {}
      BY <3>3
    <3>4. CASE U \ {u} # {}
      <4> DEFINE V == U \ {u}
      <4>1. V \in SUBSET Nat /\ IsFiniteSet(V) /\ V # {} /\ Cardinality(V) = k
        BY <2>1, <3>1, <3>2, <3>4
      <4>2. PICK v \in V : \A m \in V : v >= m
        BY <4>1
      <4>3. u \in Nat /\ v \in Nat /\ v \in U
        OBVIOUS
      <4>4. CASE v >= u
        BY <4>2, <4>3, <4>4
      <4>5. CASE u >= v
        <5>1. \A m \in V : u >= m
          BY <4>1, <4>2, <4>3, <4>5
        <5> QED
          BY <4>3, <5>1
      <4> QED
        BY <4>3, <4>4, <4>5
    <3> QED
      BY <3>3, <3>4
  <2>2. ASSUME NEW U \in SUBSET Nat, IsFiniteSet(U), U # {}, Cardinality(U) = k + 1
        PROVE  \E n \in U : \A m \in U : n >= m
    <3>1. PICK u \in U : TRUE
      BY <2>2
    <3> QED
      BY <2>1, <2>2, <3>1
  <2>3. k + 1 \in Nat
    OBVIOUS
  <2> QED
    BY <2>2, <2>3
<1> HIDE DEF S
<1>3. S = Nat
  <2>1. S \in SUBSET Nat
    BY DEF S
  <2> QED
    BY <1>1, <1>2, <2>1, Induction
<1>4. Cardinality(T) \in S
  BY <1>3, FS_CardinalityType
<1> QED
  BY <1>4 DEF S

LEMMA OrderExists ==
  ASSUME NEW S, S \subseteq Nat, IsFiniteSet(S)
  PROVE  \E q : Rises(q, S)
<1> DEFINE N == {n \in Nat : \A T \in SUBSET Nat :
                   IsFiniteSet(T) /\ Cardinality(T) = n => \E q : Rises(q, T)}
<1>1. 0 \in N
  <2>1. ASSUME NEW T \in SUBSET Nat, IsFiniteSet(T), Cardinality(T) = 0
        PROVE  Rises([i \in {} |-> 0], T)
    <3>1. 1..0 = {}
      OBVIOUS
    <3> QED
      BY <2>1, <3>1 DEF Rises
  <2> QED
    BY <2>1
<1>2. ASSUME NEW n \in N
      PROVE  n + 1 \in N
  <2>1. ASSUME NEW T \in SUBSET Nat, IsFiniteSet(T), Cardinality(T) = n + 1
        PROVE  \E q : Rises(q, T)
    <3>1. T # {} /\ n \in Nat
      BY <2>1, FS_EmptySet
    <3>2. PICK x \in T : \A m \in T : x >= m
      BY <2>1, <3>1, Greatest
    <3>3. IsFiniteSet(T \ {x}) /\ Cardinality(T \ {x}) = n
      <4>1. IsFiniteSet(T \ {x}) /\ Cardinality(T \ {x}) = Cardinality(T) - 1
        BY <2>1, FS_RemoveElement
      <4> HIDE DEF N
      <4> QED
        BY <2>1, <3>1, <4>1
    <3>4. PICK p : Rises(p, T \ {x})
      BY <3>3
    <3> DEFINE q == [i \in 1..(n + 1) |-> IF i = n + 1 THEN x ELSE p[i]]
    <3>5. p \in [1..n -> T \ {x}] /\ \A i, j \in 1..n : i < j => p[i] < p[j]
      BY <3>3, <3>4 DEF Rises
    <3>6. \A i \in 1..(n + 1) : i = n + 1 \/ i \in 1..n
      OBVIOUS
    <3>7. q \in [1..(n + 1) -> T]
      BY <3>5, <3>6
    <3>8. ASSUME NEW i \in 1..(n + 1), NEW j \in 1..(n + 1), i < j
          PROVE  q[i] < q[j]
      <4>1. i \in 1..n /\ q[i] = p[i] /\ p[i] \in T \ {x}
        BY <3>5, <3>8
      <4>2. CASE j = n + 1
        <5>1. q[j] = x /\ p[i] \in Nat /\ x \in Nat /\ p[i] # x /\ x >= p[i]
          BY <3>2, <4>1, <4>2
        <5> QED
          BY <4>1, <5>1
      <4>3. CASE j \in 1..n
        <5>1. q[j] = p[j]
          BY <4>3
        <5> QED
          BY <3>5, <3>8, <4>1, <4>3, <5>1
      <4> QED
        BY <3>6, <4>2, <4>3
    <3> HIDE DEF q
    <3>9. Rises(q, T)
      BY <2>1, <3>7, <3>8 DEF Rises
    <3> QED
      BY <3>9
  <2> QED
    BY <2>1
<1> HIDE DEF N
<1>3. N = Nat
  <2>1. N \in SUBSET Nat
    BY DEF N
  <2> QED
    BY <1>1, <1>2, <2>1, Induction
<1>4. Cardinality(S) \in N
  BY <1>3, FS_CardinalityType
<1> QED
  BY <1>4 DEF N

\* Ids in order are all of them, each once.
LEMMA OrderedIs ==
  ASSUME NEW S, S \subseteq Nat, IsFiniteSet(S)
  PROVE  /\ Cardinality(S) \in Nat
         /\ Ordered(S) \in [1..Cardinality(S) -> S]
         /\ \A i, j \in 1..Cardinality(S) : Ordered(S)[i] = Ordered(S)[j] => i = j
         /\ \A x \in S : \E i \in 1..Cardinality(S) : Ordered(S)[i] = x
<1> DEFINE n == Cardinality(S)
           q == Ordered(S)
<1>1. Rises(q, S)
  <2>1. \E p : Rises(p, S)
    BY OrderExists
  <2> QED
    BY <2>1 DEF Ordered, Rises
<1>2. n \in Nat /\ q \in [1..n -> S]
  BY <1>1, FS_CardinalityType DEF Rises
<1>3. ASSUME NEW i \in 1..n, NEW j \in 1..n, q[i] = q[j]
      PROVE  i = j
  <2>1. q[i] \in Nat /\ q[j] \in Nat
    BY <1>2
  <2>2. ~(i < j) /\ ~(j < i)
    BY <1>1, <1>2, <1>3, <2>1 DEF Rises
  <2> HIDE DEF q, n
  <2> QED
    BY <1>2, <2>2
<1>4. IsFiniteSet(1..n) /\ Cardinality(1..n) = n
  <2>1. 1 \in Int /\ n \in Int
    BY <1>2
  <2>2. Cardinality(1..n) = IF 1 > n THEN 0 ELSE n - 1 + 1
    BY <2>1, FS_Interval
  <2> HIDE DEF n
  <2> QED
    BY <1>2, <2>1, <2>2, FS_Interval
<1>5. ASSUME NEW x \in S, \A i \in 1..n : q[i] # x
      PROVE  FALSE
  <2>1. IsFiniteSet(S \ {x}) /\ Cardinality(S \ {x}) = n - 1
    BY FS_RemoveElement
  <2>2. q \in [1..n -> S \ {x}]
    BY <1>2, <1>5
  <2> HIDE DEF n, q
  <2> DEFINE B == 1..n
             A == S \ {x}
  <2>3. IsFiniteSet(B) /\ IsFiniteSet(A) /\ Cardinality(A) < Cardinality(B) /\ q \in [B -> A]
    BY <1>2, <1>4, <2>1, <2>2
  <2> HIDE DEF A, B
  <2>4. \E i, j \in B : i # j /\ q[i] = q[j]
    BY <2>3, FS_PigeonHole
  <2> QED
    BY <1>3, <2>4 DEF B
<1> QED
  BY <1>2, <1>3, <1>5
----------------------------------------------------------------------------
(* The deterministic plan: what it consists of.                            *)

\* Where the panes of a group go, and whether a window is opened for them.
Aim(ws, k) == IF k = Shell THEN Handle(Shell) ELSE Anchor(ws, k)
Gathers(ws) == Cardinality(Group(ws, Shell)) >= 2 /\ ~AloneTogether(ws, Group(ws, Shell))
Opens(ws, k) == IF k = Shell THEN Gathers(ws) ELSE Anchor(ws, k) = Handle(k)

\* The pane is not where its group goes.
Leaves(ws, p) ==
  IF ws[p].work = Shell THEN Gathers(ws) ELSE Window(ws[p].window) # Anchor(ws, ws[p].work)

Leavers(ws, K) == {p \in DOMAIN ws : ws[p].work \in K /\ Leaves(ws, p)}
Move(ws, p) == MovePane(p, Aim(ws, ws[p].work))

\* The steps that may be planned for the groups K.
StepsFor(ws, K) ==
  {NewWindow(k) : k \in {j \in K : Opens(ws, j)}}
  \cup {RenameWindow(Aim(ws, k)) : k \in K \ {Shell}}
  \cup {SelectLayout(Aim(ws, k)) : k \in {j \in K : j = Shell => Gathers(ws)}}
  \cup {Move(ws, p) : p \in Leavers(ws, K)}

\* A handle that a step names was bound before; windows are opened and panes moved
\* once; and every pane that leaves is moved.
Ready(P) == \A i \in DOMAIN P :
  P[i].op # "new-window" /\ P[i].to.kind = "handle" =>
    \E j \in 1 .. i - 1 : P[j] = NewWindow(P[i].to.id)

Once(P) == \A i, j \in DOMAIN P :
  P[i] = P[j] /\ P[i].op \in {"new-window", "move-pane"} => i = j

Complete(ws, K, P) == \A p \in Leavers(ws, K) : \E i \in DOMAIN P : P[i] = Move(ws, p)

PlanFor(ws, K, P) ==
  P \in Seq(StepsFor(ws, K)) /\ Ready(P) /\ Once(P) /\ Complete(ws, K, P)

\* Works are numbers, the shell's is none of the projects'.
LEMMA WorksAre == Works \subseteq Nat /\ Shell \notin Projects /\ Works \ {Shell} = Projects
  BY ProjectsAssumption DEF Works, Shell

\* A group is a finite set of ids.
LEMMA GroupIs ==
  ASSUME NEW ws \in Workspaces, NEW k, NEW S \in SUBSET Group(ws, k)
  PROVE  S \subseteq Nat /\ IsFiniteSet(S) /\ S \subseteq DOMAIN ws
<1>1. S \subseteq PaneIds /\ S \subseteq DOMAIN ws
  BY WorkspaceType DEF Group
<1>2. PaneIds \subseteq Nat
  BY DEF PaneIds
<1> QED
  BY <1>1, <1>2, FiniteIds, FS_Subset

\* The anchor of a project is the window of one of its panes, if one has a window.
LEMMA AnchorIs ==
  ASSUME NEW ws \in Workspaces, NEW k \in Projects
  PROVE  \/ /\ Anchor(ws, k) = Handle(k)
            /\ \A p \in Group(ws, k) : ws[p].window = NoWindow
         \/ \E p \in Group(ws, k) : /\ ws[p].window # NoWindow
                                    /\ Anchor(ws, k) = Window(ws[p].window)
<1> DEFINE placed == {p \in Group(ws, k) : ws[p].window # NoWindow}
<1>1. CASE placed = {}
  BY <1>1 DEF Anchor
<1>2. CASE placed # {}
  <2>1. placed \subseteq Nat /\ IsFiniteSet(placed)
    BY GroupIs
  <2>2. Cardinality(placed) \in Nat /\ Cardinality(placed) # 0
    BY <1>2, <2>1, FS_EmptySet, FS_CardinalityType
  <2>3. 1 \in 1..Cardinality(placed)
    BY <2>2
  <2>4. Ordered(placed) \in [1..Cardinality(placed) -> placed]
    BY <2>1, OrderedIs
  <2>5. Ordered(placed)[1] \in placed
    BY <2>3, <2>4
  <2>6. Anchor(ws, k) = Window(ws[Ordered(placed)[1]].window)
    BY <1>2 DEF Anchor
  <2> QED
    BY <2>5, <2>6
<1> QED
  BY <1>1, <1>2

\* A sequence between two elements.
LEMMA Between ==
  ASSUME NEW T, NEW m \in Seq(T), NEW a \in T, NEW b \in T
  PROVE  LET q == <<a>> \o m \o <<b>> IN
         /\ Len(m) \in Nat /\ q \in Seq(T) /\ DOMAIN q = 1 .. Len(m) + 2
         /\ q[1] = a /\ q[Len(m) + 2] = b
         /\ \A i \in 1..Len(m) : q[i + 1] = m[i]
<1>1. <<a>> \in Seq(T) /\ <<b>> \in Seq(T) /\ Len(<<a>>) = 1 /\ Len(<<b>>) = 1
  OBVIOUS
<1> DEFINE h == <<a>> \o m
<1>2. /\ h \in Seq(T) /\ Len(h) = Len(m) + 1 /\ h[1] = a
      /\ \A i \in 1..Len(m) : h[i + 1] = m[i]
  BY <1>1
<1> HIDE DEF h
<1>3. (h \o <<b>>) \in Seq(T) /\ Len(h \o <<b>>) = Len(m) + 2
  BY <1>1, <1>2
<1>4. \A i \in 1 .. Len(m) + 1 : (h \o <<b>>)[i] = h[i]
  BY <1>1, <1>2
<1>5. (h \o <<b>>)[Len(m) + 2] = b
  BY <1>1, <1>2
<1>6. \A i \in 1..Len(m) : i + 1 \in 1 .. Len(m) + 1
  OBVIOUS
<1>7. 1 \in 1 .. Len(m) + 1 /\ Len(m) \in Nat
  OBVIOUS
<1> QED
  BY <1>2, <1>3, <1>4, <1>5, <1>6, <1>7 DEF h
\* What a step of a plan is made of.
LEMMA StepForms ==
  /\ \A k, j : NewWindow(k) = NewWindow(j) => k = j
  /\ \A p, q, t, u : MovePane(p, t) = MovePane(q, u) => p = q /\ t = u
  /\ \A k, t, p : NewWindow(k).op = "new-window" /\ NewWindow(k).handle = k
                  /\ RenameWindow(t).op = "rename-window" /\ RenameWindow(t).to = t
                  /\ SelectLayout(t).op = "select-layout" /\ SelectLayout(t).to = t
                  /\ MovePane(p, t).op = "move-pane" /\ MovePane(p, t).pane = p
                  /\ MovePane(p, t).to = t
  /\ \A w : Window(w).kind = "window" /\ Window(w).id = w
            /\ Handle(w).kind = "handle" /\ Handle(w).id = w
<1>1. ASSUME NEW k, NEW j, NewWindow(k) = NewWindow(j)
      PROVE  k = j
  <2>1. NewWindow(k).handle = k /\ NewWindow(j).handle = j
    BY DEF NewWindow
  <2> QED
    BY <1>1, <2>1
<1>2. ASSUME NEW p, NEW q, NEW t, NEW u, MovePane(p, t) = MovePane(q, u)
      PROVE  p = q /\ t = u
  <2>1. MovePane(p, t).pane = p /\ MovePane(q, u).pane = q
        /\ MovePane(p, t).to = t /\ MovePane(q, u).to = u
    BY DEF MovePane
  <2> QED
    BY <1>2, <2>1
<1>3. \A k, t, p : NewWindow(k).op = "new-window" /\ NewWindow(k).handle = k
                  /\ RenameWindow(t).op = "rename-window" /\ RenameWindow(t).to = t
                  /\ SelectLayout(t).op = "select-layout" /\ SelectLayout(t).to = t
                  /\ MovePane(p, t).op = "move-pane" /\ MovePane(p, t).pane = p
                  /\ MovePane(p, t).to = t
  BY DEF NewWindow, RenameWindow, SelectLayout, MovePane
<1>4. \A w : Window(w).kind = "window" /\ Window(w).id = w
            /\ Handle(w).kind = "handle" /\ Handle(w).id = w
  BY DEF Window, Handle
<1> QED
  BY <1>1, <1>2, <1>3, <1>4

\* The aim of a group is a handle exactly when a window is opened for it.
LEMMA AimIs ==
  ASSUME NEW ws \in Workspaces, NEW k \in Works, k = Shell => Gathers(ws)
  PROVE  IF Opens(ws, k) THEN Aim(ws, k) = Handle(k) ELSE Aim(ws, k).kind = "window"
<1>1. CASE k = Shell
  BY <1>1 DEF Aim, Opens
<1>2. CASE k # Shell
  <2>1. k \in Projects
    BY <1>2, WorksAre
  <2>2. \A w : Window(w).kind = "window"
    BY StepForms
  <2> QED
    BY <1>2, <2>1, <2>2, AnchorIs DEF Aim, Opens
<1> QED
  BY <1>1, <1>2

\* The steps for one group.
Visit(ws, k, first) ==
  <<first>> \o Moves(Leavers(ws, {k}), Aim(ws, k)) \o <<SelectLayout(Aim(ws, k))>>

FirstFor(ws, k) == IF Opens(ws, k) THEN NewWindow(k) ELSE RenameWindow(Aim(ws, k))

LEMMA VisitIsPlan ==
  ASSUME NEW ws \in Workspaces, NEW k \in Works, k = Shell => Gathers(ws)
  PROVE  PlanFor(ws, {k}, Visit(ws, k, FirstFor(ws, k)))
<1> DEFINE S == Leavers(ws, {k})
           n == Cardinality(S)
           o == Ordered(S)
           m == Moves(S, Aim(ws, k))
           T == StepsFor(ws, {k})
           a == FirstFor(ws, k)
           b == SelectLayout(Aim(ws, k))
           P == Visit(ws, k, a)
<1>1. S \in SUBSET Group(ws, k)
  BY DEF Leavers, Group
<1>2. /\ n \in Nat /\ o \in [1..n -> S]
      /\ \A i, j \in 1..n : o[i] = o[j] => i = j
      /\ \A p \in S : \E i \in 1..n : o[i] = p
  <2> HIDE DEF S
  <2>1. S \subseteq Nat /\ IsFiniteSet(S)
    BY <1>1, GroupIs
  <2> QED
    BY <2>1, OrderedIs
<1>3. \A p \in S : Move(ws, p) = MovePane(p, Aim(ws, k))
  BY <1>1 DEF Move, Group
<1>4. m = [i \in 1..n |-> MovePane(o[i], Aim(ws, k))]
  BY DEF Moves
<1>5. a \in T /\ b \in T /\ \A p \in S : Move(ws, p) \in T
  <2>1. CASE Opens(ws, k)
    BY <2>1 DEF StepsFor, FirstFor
  <2>2. CASE ~Opens(ws, k)
    <3>1. k # Shell
      BY <2>2 DEF Opens
    <3> QED
      BY <2>2, <3>1 DEF StepsFor, FirstFor
  <2> QED
    BY <2>1, <2>2 DEF StepsFor
<1> HIDE DEF S, n, o, m, T, a, b, P
<1>6. m \in Seq(T) /\ Len(m) = n /\ \A i \in 1..n : m[i] = Move(ws, o[i])
  <2>1. \A i \in 1..n : m[i] = Move(ws, o[i]) /\ m[i] \in T
    BY <1>2, <1>3, <1>4, <1>5
  <2>2. m \in [1..n -> T]
    BY <1>4, <2>1
  <2> QED
    BY <1>2, <2>1, <2>2
<1>7. P = <<a>> \o m \o <<b>>
  BY DEF P, Visit, S, m, b
<1>8. /\ P \in Seq(T) /\ DOMAIN P = 1 .. n + 2
      /\ P[1] = a /\ P[n + 2] = b /\ \A i \in 1..n : P[i + 1] = Move(ws, o[i])
  BY <1>5, <1>6, <1>7, Between
<1>9. \A i \in 1 .. n + 2 : i = 1 \/ i = n + 2 \/ (i - 1 \in 1..n /\ i - 1 + 1 = i)
  BY <1>2
<1>10. \A i \in 1 .. n + 2 : i = 1 \/ i = n + 2 \/ (i - 1 \in 1..n /\ P[i] = MovePane(o[i - 1], Aim(ws, k)))
  <2>1. \A i \in 1..n : P[i + 1] = MovePane(o[i], Aim(ws, k))
    BY <1>2, <1>3, <1>8
  <2> QED
    BY <1>9, <2>1
<1>11. /\ IF Opens(ws, k) THEN a = NewWindow(k) ELSE a = RenameWindow(Aim(ws, k))
       /\ b = SelectLayout(Aim(ws, k))
  BY DEF a, b, FirstFor
<1>12. IF Opens(ws, k) THEN Aim(ws, k) = Handle(k) ELSE Aim(ws, k).kind = "window"
  BY AimIs
<1>13. Ready(P)
  <2>1. \A i \in 1 .. n + 2 : P[i].op # "new-window" => P[i].to = Aim(ws, k)
    BY <1>8, <1>10, <1>11, StepForms
  <2>2. CASE Opens(ws, k)
    <3>1. a = NewWindow(k) /\ Aim(ws, k) = Handle(k) /\ Handle(k).id = k /\ a.op = "new-window"
      BY <1>11, <1>12, <2>2, StepForms
    <3>2. ASSUME NEW i \in 1 .. n + 2, P[i].op # "new-window"
          PROVE  1 \in 1 .. i - 1 /\ P[1] = NewWindow(P[i].to.id)
      <4>1. i # 1
        BY <1>8, <3>1, <3>2
      <4>2. 1 \in 1 .. i - 1
        BY <1>2, <4>1
      <4> QED
        BY <1>8, <2>1, <3>1, <3>2, <4>2
    <3> QED
      BY <1>8, <3>2 DEF Ready
  <2>3. CASE ~Opens(ws, k)
    <3>1. Aim(ws, k).kind # "handle"
      BY <1>12, <2>3
    <3> QED
      BY <1>8, <2>1, <3>1 DEF Ready
  <2> QED
    BY <2>2, <2>3
<1>14. Once(P)
  <2>1. a.op # "move-pane" /\ b.op \notin {"new-window", "move-pane"}
    BY <1>11, StepForms
  <2>2. \A i \in 1..n : MovePane(o[i], Aim(ws, k)).op = "move-pane"
    BY StepForms
  <2>3. \A i, j \in 1..n : MovePane(o[i], Aim(ws, k)) = MovePane(o[j], Aim(ws, k)) => i = j
    BY <1>2, StepForms
  <2>4. ASSUME NEW i \in 1 .. n + 2, NEW j \in 1 .. n + 2, P[i] = P[j],
               P[i].op \in {"new-window", "move-pane"}
        PROVE  i = j
    <3>1. i # n + 2 /\ j # n + 2
      BY <1>8, <2>1, <2>4
    <3>2. CASE i = 1
      <4>1. j = 1
        BY <1>8, <1>10, <2>1, <2>2, <2>4, <3>1, <3>2
      <4> QED
        BY <3>2, <4>1
    <3>3. CASE i # 1
      <4>1. i - 1 \in 1..n /\ P[i] = MovePane(o[i - 1], Aim(ws, k))
        BY <1>10, <3>1, <3>3
      <4>2. j # 1
        BY <1>8, <2>1, <2>2, <2>4, <4>1
      <4>3. j - 1 \in 1..n /\ P[j] = MovePane(o[j - 1], Aim(ws, k))
        BY <1>10, <3>1, <4>2
      <4>4. i - 1 = j - 1
        BY <2>3, <2>4, <4>1, <4>3
      <4> QED
        BY <1>2, <4>4
    <3> QED
      BY <3>2, <3>3
  <2> QED
    BY <1>8, <2>4 DEF Once
<1>15. Complete(ws, {k}, P)
  <2>1. ASSUME NEW p \in S
        PROVE  \E i \in DOMAIN P : P[i] = Move(ws, p)
    <3>1. PICK i \in 1..n : o[i] = p
      BY <1>2
    <3>2. i + 1 \in DOMAIN P /\ P[i + 1] = Move(ws, p)
      BY <1>2, <1>8, <3>1
    <3> QED
      BY <3>2
  <2> QED
    BY <2>1 DEF Complete, S
<1>16. PlanFor(ws, {k}, P)
  BY <1>8, <1>13, <1>14, <1>15 DEF PlanFor, T
<1> QED
  BY <1>16 DEF P, a
LEMMA ProjectIsVisit ==
  ASSUME NEW ws \in Workspaces, NEW k \in Projects
  PROVE  ProjectSteps(ws, k) = Visit(ws, k, FirstFor(ws, k))
<1> DEFINE anchor == Anchor(ws, k)
           strays == {p \in Group(ws, k) : Window(ws[p].window) # anchor}
<1>1. k # Shell
  BY WorksAre
<1>2. strays = Leavers(ws, {k})
  BY <1>1 DEF Leavers, Group, Leaves
<1>3. Aim(ws, k) = anchor
  BY <1>1 DEF Aim
<1>4. (anchor.kind = "handle") <=> Opens(ws, k)
  BY <1>1, AnchorIs, StepForms DEF Opens
<1>5. (IF anchor.kind = "handle" THEN NewWindow(k) ELSE RenameWindow(anchor)) = FirstFor(ws, k)
  BY <1>3, <1>4 DEF FirstFor
<1>6. ProjectSteps(ws, k) =
        <<IF anchor.kind = "handle" THEN NewWindow(k) ELSE RenameWindow(anchor)>>
          \o Moves(strays, anchor) \o <<SelectLayout(anchor)>>
  BY DEF ProjectSteps
<1> HIDE DEF anchor, strays
<1> QED
  BY <1>2, <1>3, <1>5, <1>6 DEF Visit

LEMMA ShellsAreVisit ==
  ASSUME NEW ws \in Workspaces
  PROVE  ShellSteps(ws) = IF Gathers(ws) THEN Visit(ws, Shell, FirstFor(ws, Shell)) ELSE <<>>
<1>1. CASE Gathers(ws)
  <2>1. Leavers(ws, {Shell}) = Group(ws, Shell)
    BY <1>1 DEF Leavers, Leaves, Group
  <2>2. FirstFor(ws, Shell) = NewWindow(Shell) /\ Aim(ws, Shell) = Handle(Shell)
    BY <1>1 DEF FirstFor, Opens, Aim
  <2> QED
    BY <1>1, <2>1, <2>2 DEF ShellSteps, Gathers, Visit
<1>2. CASE ~Gathers(ws)
  BY <1>2 DEF ShellSteps, Gathers
<1> QED
  BY <1>1, <1>2

\* No steps for no groups, and for shells that stay.
LEMMA NothingIsPlan ==
  ASSUME NEW ws, NEW K, K = {} \/ (K = {Shell} /\ ~Gathers(ws))
  PROVE  PlanFor(ws, K, <<>>)
<1>1. Leavers(ws, K) = {}
  BY DEF Leavers, Leaves
<1>2. <<>> \in Seq(StepsFor(ws, K)) /\ DOMAIN <<>> = {}
  OBVIOUS
<1> QED
  BY <1>1, <1>2 DEF PlanFor, Ready, Once, Complete

LEMMA SameWindow ==
  ASSUME NEW k, NEW j, NewWindow(k) = NewWindow(j)
  PROVE  k = j
BY StepForms

LEMMA SameMove ==
  ASSUME NEW ws, NEW p, NEW q, Move(ws, p) = Move(ws, q)
  PROVE  p = q
BY StepForms DEF Move

\* The steps of the groups K are of no group but these.
LEMMA StepsApart ==
  ASSUME NEW ws \in Workspaces, NEW K, NEW L, K \cap L = {},
         NEW s \in StepsFor(ws, K), s \in StepsFor(ws, L)
  PROVE  s.op \notin {"new-window", "move-pane"}
<1>1. CASE s.op = "new-window"
  <2>1. ASSUME NEW M, s \in StepsFor(ws, M)
        PROVE  \E k \in M : s = NewWindow(k)
    BY <1>1, <2>1, StepForms DEF StepsFor, Move
  <2>2. PICK k \in K : s = NewWindow(k)
    BY <2>1
  <2>3. PICK j \in L : s = NewWindow(j)
    BY <2>1
  <2>4. k = j
    BY <2>2, <2>3, SameWindow
  <2> QED
    BY <2>2, <2>3, <2>4
<1>2. CASE s.op = "move-pane"
  <2>1. ASSUME NEW M, s \in StepsFor(ws, M)
        PROVE  \E p \in Leavers(ws, M) : s = Move(ws, p)
    BY <1>2, <2>1, StepForms DEF StepsFor
  <2>2. PICK p \in Leavers(ws, K) : s = Move(ws, p)
    BY <2>1
  <2>3. PICK q \in Leavers(ws, L) : s = Move(ws, q)
    BY <2>1
  <2>4. p = q
    BY <2>2, <2>3, SameMove
  <2> QED
    BY <2>2, <2>3, <2>4 DEF Leavers
<1> QED
  BY <1>1, <1>2

\* Plans for groups apart, one after the other.
LEMMA PlansAdd ==
  ASSUME NEW ws \in Workspaces, NEW K, NEW L, K \cap L = {},
         NEW A, PlanFor(ws, K, A), NEW B, PlanFor(ws, L, B)
  PROVE  PlanFor(ws, K \cup L, A \o B)
<1> DEFINE S == StepsFor(ws, K)
           T == StepsFor(ws, L)
           U == StepsFor(ws, K \cup L)
           m == Len(A)
           n == Len(B)
           P == A \o B
<1>1. S \subseteq U /\ T \subseteq U
  BY DEF StepsFor, Leavers
<1>2. A \in Seq(S) /\ B \in Seq(T)
  BY DEF PlanFor
<1> HIDE DEF S, T, U
<1>3. m \in Nat /\ n \in Nat /\ DOMAIN A = 1..m /\ DOMAIN B = 1..n
  BY <1>2
<1>4. A \in Seq(U) /\ B \in Seq(U)
  BY <1>1, <1>2
<1>5. /\ P \in Seq(U) /\ DOMAIN P = 1 .. m + n
      /\ \A i \in 1..m : P[i] = A[i]
      /\ \A i \in 1..n : P[m + i] = B[i]
  BY <1>3, <1>4
<1>6. /\ \A i \in 1 .. m + n : i \in 1..m \/ (i - m \in 1..n /\ m + (i - m) = i)
      /\ \A i \in 1..m : i \in 1 .. m + n
      /\ \A i \in 1..n : m + i \in 1 .. m + n
  BY <1>3
<1> HIDE DEF m, n, P
<1>7. Ready(P)
  <2>1. ASSUME NEW i \in 1..m, P[i].op # "new-window" /\ P[i].to.kind = "handle"
        PROVE  \E j \in 1 .. i - 1 : P[j] = NewWindow(P[i].to.id)
    <3>1. PICK j \in 1 .. i - 1 : A[j] = NewWindow(A[i].to.id)
      BY <1>3, <1>5, <2>1 DEF PlanFor, Ready
    <3>2. j \in 1..m
      BY <1>3
    <3> QED
      BY <1>5, <3>1, <3>2
  <2>2. ASSUME NEW i \in 1..n, B[i].op # "new-window" /\ B[i].to.kind = "handle"
        PROVE  \E j \in 1 .. m + i - 1 : P[j] = NewWindow(B[i].to.id)
    <3>1. PICK j \in 1 .. i - 1 : B[j] = NewWindow(B[i].to.id)
      BY <1>3, <2>2 DEF PlanFor, Ready
    <3>2. j \in 1..n /\ m + j \in 1 .. m + i - 1
      BY <1>3
    <3>3. P[m + j] = NewWindow(B[i].to.id)
      BY <1>5, <3>1, <3>2
    <3> QED
      BY <3>2, <3>3
  <2>3. ASSUME NEW i \in 1 .. m + n, P[i].op # "new-window" /\ P[i].to.kind = "handle"
        PROVE  \E j \in 1 .. i - 1 : P[j] = NewWindow(P[i].to.id)
    <3>1. CASE i \in 1..m
      BY <2>1, <2>3, <3>1
    <3>2. CASE i - m \in 1..n /\ m + (i - m) = i
      <4>1. P[i] = B[i - m]
        BY <1>5, <3>2
      <4>2. \E j \in 1 .. m + (i - m) - 1 : P[j] = NewWindow(B[i - m].to.id)
        BY <2>2, <2>3, <3>2, <4>1
      <4>3. 1 .. m + (i - m) - 1 = 1 .. i - 1
        BY <1>3
      <4> QED
        BY <4>1, <4>2, <4>3
    <3> QED
      BY <1>6, <3>1, <3>2
  <2> QED
    BY <1>5, <2>3 DEF Ready
<1>8. Once(P)
  <2>1. ASSUME NEW i \in 1..m, NEW j \in 1..n, A[i] = B[j]
        PROVE  A[i].op \notin {"new-window", "move-pane"}
    <3>1. A[i] \in S /\ B[j] \in T
      BY <1>2, <1>3
    <3> QED
      BY <2>1, <3>1, StepsApart DEF S, T
  <2>2. ASSUME NEW i \in 1 .. m + n, NEW j \in 1 .. m + n, P[i] = P[j],
               P[i].op \in {"new-window", "move-pane"}
        PROVE  i = j
    <3>1. CASE i \in 1..m /\ j \in 1..m
      BY <1>3, <1>5, <2>2, <3>1 DEF PlanFor, Once
    <3>2. CASE i \in 1..m /\ j \notin 1..m
      <4>1. j - m \in 1..n /\ P[j] = B[j - m] /\ P[i] = A[i]
        BY <1>5, <1>6, <3>2
      <4> QED
        BY <2>1, <2>2, <3>2, <4>1
    <3>3. CASE i \notin 1..m /\ j \in 1..m
      <4>1. i - m \in 1..n /\ P[i] = B[i - m] /\ P[j] = A[j]
        BY <1>5, <1>6, <3>3
      <4> QED
        BY <2>1, <2>2, <3>3, <4>1
    <3>4. CASE i \notin 1..m /\ j \notin 1..m
      <4>1. i - m \in 1..n /\ P[i] = B[i - m] /\ j - m \in 1..n /\ P[j] = B[j - m]
        BY <1>5, <1>6, <3>4
      <4>2. i - m = j - m
        BY <1>3, <2>2, <4>1 DEF PlanFor, Once
      <4> QED
        BY <1>3, <4>2
    <3> QED
      BY <3>1, <3>2, <3>3, <3>4
  <2> QED
    BY <1>5, <2>2 DEF Once
<1>9. Complete(ws, K \cup L, P)
  <2>1. ASSUME NEW p \in Leavers(ws, K)
        PROVE  \E i \in DOMAIN P : P[i] = Move(ws, p)
    <3>1. PICK i \in 1..m : A[i] = Move(ws, p)
      BY <1>3 DEF PlanFor, Complete
    <3> QED
      BY <1>5, <1>6, <3>1
  <2>2. ASSUME NEW p \in Leavers(ws, L)
        PROVE  \E i \in DOMAIN P : P[i] = Move(ws, p)
    <3>1. PICK i \in 1..n : B[i] = Move(ws, p)
      BY <1>3 DEF PlanFor, Complete
    <3> QED
      BY <1>5, <1>6, <3>1
  <2>3. Leavers(ws, K \cup L) = Leavers(ws, K) \cup Leavers(ws, L)
    BY DEF Leavers
  <2> QED
    BY <2>1, <2>2, <2>3 DEF Complete
<1>10. PlanFor(ws, K \cup L, P)
  BY <1>5, <1>7, <1>8, <1>9 DEF PlanFor, U
<1> QED
  BY <1>10 DEF P

\* The groups of a workspace: its projects and the shells.
Groups(ws) == Keys(ws) \cup {Shell}

\* The deterministic plan is one for all groups of the workspace.
LEMMA HeuristicIsPlan ==
  ASSUME NEW ws \in Workspaces
  PROVE  PlanFor(ws, Groups(ws), HeuristicPlan(ws))
<1> DEFINE keys == Ordered(Keys(ws))
           n == Cardinality(Keys(ws))
<1>1. /\ n \in Nat /\ keys \in [1..n -> Keys(ws)]
      /\ \A i, j \in 1..n : keys[i] = keys[j] => i = j
      /\ \A k \in Keys(ws) : \E i \in 1..n : keys[i] = k
  <2>1. Keys(ws) \subseteq Nat /\ IsFiniteSet(Keys(ws))
    <3>1. Keys(ws) \subseteq Projects
      BY DEF Keys
    <3> QED
      BY <3>1, ProjectsAssumption, FS_Subset
  <2> QED
    BY <2>1, OrderedIs
<1> HIDE DEF keys, n
<1> DEFINE UpTo(m) == {keys[i] : i \in 1..m}
<1>2. PICK h : FoldOn("plan", ws, keys, n, h) /\ AllSteps(ws, keys) = h[1..n]
  BY <1>1, StepsAreFold
<1> DEFINE S == {m \in Nat : m <= n => PlanFor(ws, UpTo(m), h[1..m])}
<1>3. 0 \in S
  <2>1. h[{}] = <<>>
    BY <1>1, <1>2, FoldGrows DEF First
  <2>2. 1..0 = {} /\ UpTo(0) = {}
    OBVIOUS
  <2>3. h[1..0] = <<>>
    BY <2>1, <2>2
  <2>4. PlanFor(ws, {}, <<>>)
    BY NothingIsPlan
  <2> HIDE DEF UpTo
  <2> QED
    BY <2>2, <2>3, <2>4
<1>4. ASSUME NEW m \in S
      PROVE  m + 1 \in S
  <2>1. CASE m + 1 <= n
    <3>1. m \in 0 .. n - 1 /\ m <= n /\ m + 1 \in 1..n
      BY <1>1, <2>1
    <3>2. h[1..(m + 1)] = h[1..m] \o ProjectSteps(ws, keys[m + 1])
      <4>1. \A i \in 0 .. n - 1 : h[1..(i + 1)] = Taken("plan", ws, h[1..i], keys[i + 1])
        BY <1>1, <1>2, FoldGrows
      <4>2. \A a, e : Taken("plan", ws, a, e) = a \o ProjectSteps(ws, e)
        BY DEF Taken
      <4> HIDE DEF UpTo, S
      <4> QED
        BY <3>1, <4>1, <4>2
    <3>3. keys[m + 1] \in Projects /\ keys[m + 1] \in Works /\ keys[m + 1] # Shell
      BY <1>1, <3>1, WorksAre DEF Keys, Works
    <3>4. PlanFor(ws, {keys[m + 1]}, ProjectSteps(ws, keys[m + 1]))
      BY <3>3, ProjectIsVisit, VisitIsPlan
    <3>5. UpTo(m) \cap {keys[m + 1]} = {}
      <4>1. \A i \in 1..m : i \in 1..n /\ i # m + 1
        BY <1>1, <3>1
      <4> QED
        BY <1>1, <3>1, <4>1
    <3>6. UpTo(m + 1) = UpTo(m) \cup {keys[m + 1]}
      <4>1. \A i \in 1..(m + 1) : i \in 1..m \/ i = m + 1
        BY <3>1
      <4>2. \A i \in 1..m : i \in 1..(m + 1)
        BY <3>1
      <4>3. m + 1 \in 1..(m + 1)
        BY <3>1
      <4> QED
        BY <4>1, <4>2, <4>3
    <3>7. PlanFor(ws, UpTo(m), h[1..m])
      BY <3>1
    <3> HIDE DEF UpTo, S
    <3>8. PlanFor(ws, UpTo(m + 1), h[1..(m + 1)])
      BY <3>2, <3>4, <3>5, <3>6, <3>7, PlansAdd
    <3> QED
      BY <3>1, <3>8 DEF S
  <2> QED
    BY <2>1
<1>5. UpTo(n) = Keys(ws)
  BY <1>1
<1> HIDE DEF S
<1>6. S = Nat
  <2>1. S \in SUBSET Nat
    BY DEF S
  <2> QED
    BY <1>3, <1>4, <2>1, Induction
<1>7. PlanFor(ws, Keys(ws), AllSteps(ws, keys))
  <2>1. n \in S
    BY <1>1, <1>6
  <2>2. PlanFor(ws, UpTo(n), h[1..n])
    <3> HIDE DEF UpTo
    <3> QED
      BY <1>1, <2>1 DEF S
  <2> HIDE DEF UpTo
  <2> QED
    BY <1>2, <1>5, <2>2
<1>8. PlanFor(ws, {Shell}, ShellSteps(ws))
  <2>1. CASE Gathers(ws)
    <3>1. Shell \in Works
      BY DEF Works
    <3> QED
      BY <2>1, <3>1, ShellsAreVisit, VisitIsPlan
  <2>2. CASE ~Gathers(ws)
    BY <2>2, ShellsAreVisit, NothingIsPlan
  <2> QED
    BY <2>1, <2>2
<1>9. Keys(ws) \cap {Shell} = {}
  BY WorksAre DEF Keys
<1>10. HeuristicPlan(ws) = AllSteps(ws, keys) \o ShellSteps(ws)
  BY PlanIsSteps DEF keys
<1> QED
  BY <1>7, <1>8, <1>9, <1>10, PlansAdd DEF Groups
----------------------------------------------------------------------------
(* Plans are closed.                                                       *)

ClosedPlan(p) == Closed(p.steps, p.known)

\* What a plan for groups consists of: four forms.
LEMMA PlannedSteps ==
  ASSUME NEW ws \in Workspaces, NEW K, NEW P, PlanFor(ws, K, P), NEW i \in DOMAIN P
  PROVE  /\ i \in 1..Len(P) /\ Len(P) \in Nat
         /\ \/ \E k \in K : P[i] = NewWindow(k) /\ Opens(ws, k)
            \/ \E k \in K \ {Shell} : P[i] = RenameWindow(Aim(ws, k))
            \/ \E k \in K : P[i] = SelectLayout(Aim(ws, k)) /\ (k = Shell => Gathers(ws))
            \/ \E p \in Leavers(ws, K) : P[i] = Move(ws, p)
<1>1. P \in Seq(StepsFor(ws, K))
  BY DEF PlanFor
<1>2. P[i] \in StepsFor(ws, K) /\ i \in 1..Len(P) /\ Len(P) \in Nat
  BY <1>1
<1> QED
  BY <1>2 DEF StepsFor

LEMMA HeuristicIsClosed ==
  ASSUME NEW ws \in Workspaces
  PROVE  Closed(HeuristicPlan(ws), DOMAIN ws)
<1> DEFINE P == HeuristicPlan(ws)
<1>1. PlanFor(ws, Groups(ws), P)
  BY HeuristicIsPlan
<1> HIDE DEF P
<1>2. ASSUME NEW i \in DOMAIN P
      PROVE  P[i].op \in Verbs /\ PanesOf(P[i]) \subseteq DOMAIN ws /\ Bound(P, i)
  <2>1. i \in 1..Len(P) /\ Len(P) \in Nat
    BY <1>1, PlannedSteps
  <2>2. CASE \E k \in Groups(ws) : P[i] = NewWindow(k)
    <3>1. P[i].op = "new-window"
      BY <2>2, StepForms
    <3> QED
      BY <3>1 DEF Verbs, PanesOf, Bound
  <2>3. CASE P[i].op \in {"rename-window", "select-layout", "move-pane"}
             /\ \E k \in Groups(ws) : P[i].to = Aim(ws, k) /\ (k = Shell => Gathers(ws))
    <3>1. PICK k \in Groups(ws) : P[i].to = Aim(ws, k) /\ (k = Shell => Gathers(ws))
      BY <2>3
    <3>2. k \in Works
      BY <3>1 DEF Groups, Keys, Works
    <3>3. Aim(ws, k) = Handle(k) \/ Aim(ws, k).kind = "window"
      BY <3>1, <3>2, AimIs
    <3>4. Bound(P, i)
      <4>1. CASE Aim(ws, k).kind = "window"
        BY <3>1, <4>1 DEF Bound
      <4>2. CASE Aim(ws, k) = Handle(k)
        <5>1. P[i].to.kind = "handle" /\ P[i].to.id = k
          BY <3>1, <4>2, StepForms
        <5>2. PICK j \in 1 .. i - 1 : P[j] = NewWindow(k)
          BY <1>1, <2>3, <5>1 DEF PlanFor, Ready
        <5>3. P[j].op = "new-window" /\ P[j].handle = k
          BY <5>2, StepForms
        <5> QED
          BY <5>1, <5>3, BoundBy DEF Binds
      <4> QED
        BY <3>3, <4>1, <4>2
    <3>5. P[i].op \in Verbs
      BY <2>3 DEF Verbs
    <3>6. PanesOf(P[i]) \subseteq DOMAIN ws
      <4>1. CASE P[i].op # "move-pane"
        BY <2>3, <4>1 DEF PanesOf
      <4>2. CASE P[i].op = "move-pane"
        <5>1. PICK p \in Leavers(ws, Groups(ws)) : P[i] = Move(ws, p)
          BY <1>1, <4>2, PlannedSteps, StepForms
        <5>2. P[i].pane = p /\ p \in DOMAIN ws
          BY <5>1, StepForms DEF Leavers, Move
        <5> QED
          BY <4>2, <5>2 DEF PanesOf
      <4> QED
        BY <4>1, <4>2
    <3> QED
      BY <3>4, <3>5, <3>6
  <2>4. CASE \E k \in Groups(ws) \ {Shell} : P[i] = RenameWindow(Aim(ws, k))
    BY <2>3, <2>4, StepForms
  <2>5. CASE \E k \in Groups(ws) : P[i] = SelectLayout(Aim(ws, k)) /\ (k = Shell => Gathers(ws))
    BY <2>3, <2>5, StepForms
  <2>6. CASE \E p \in Leavers(ws, Groups(ws)) : P[i] = Move(ws, p)
    <3>1. PICK p \in Leavers(ws, Groups(ws)) : P[i] = Move(ws, p)
      BY <2>6
    <3>2. P[i].op = "move-pane" /\ P[i].to = Aim(ws, ws[p].work)
      BY <3>1, StepForms DEF Move
    <3>3. ws[p].work \in Groups(ws) /\ (ws[p].work = Shell => Gathers(ws))
      BY DEF Leavers, Leaves
    <3> QED
      BY <2>3, <3>2, <3>3
  <2> QED
    BY <1>1, <2>2, <2>4, <2>5, <2>6, PlannedSteps
<1> QED
  BY <1>2 DEF Closed, P

\* Whoever makes the plan.
LEMMA PlansClose ==
  ASSUME NEW ws \in Workspaces, NEW p \in Plans(ws)
  PROVE  ClosedPlan(p)
<1>1. CASE p = [steps |-> HeuristicPlan(ws), heuristic |-> TRUE, known |-> DOMAIN ws]
  BY <1>1, HeuristicIsClosed DEF ClosedPlan
<1>2. CASE \E r \in Replies : p = [steps |-> ParsePlan(r, DOMAIN ws), heuristic |-> FALSE,
                                   known |-> DOMAIN ws]
  BY <1>2, ParseIsClosed DEF ClosedPlan
<1> QED
  BY <1>1, <1>2 DEF Plans

\* No application changes a plan, and keys only add applications.
LEMMA JobsKeepPlans ==
  ASSUME TypeOK, NEW j \in DOMAIN jobs,
         \/ JobList(j) \/ JobListFails(j) \/ JobInvalid(j) \/ JobApplied(j)
         \/ JobRefused(j) \/ JobFails(j)
  PROVE  DOMAIN jobs' = DOMAIN jobs /\ \A i \in DOMAIN jobs : jobs'[i].plan = jobs[i].plan
<1>1. jobs[j] \in Job(jobs[j].plan)
  BY EachJob
<1>2. ASSUME NEW job, jobs' = [jobs EXCEPT ![j] = job], job.plan = jobs[j].plan
      PROVE  DOMAIN jobs' = DOMAIN jobs /\ \A i \in DOMAIN jobs : jobs'[i].plan = jobs[i].plan
  BY <1>2
<1>3. ASSUME NEW job, Advance(j, job), job \in Job(jobs[j].plan)
      PROVE  DOMAIN jobs' = DOMAIN jobs /\ \A i \in DOMAIN jobs : jobs'[i].plan = jobs[i].plan
  <2> DEFINE next == [job EXCEPT !.at = @ + 1]
  <2>1. next.plan = jobs[j].plan
    BY <1>3 DEF Job
  <2>2. jobs' = [jobs EXCEPT ![j] = next]
    BY <1>3 DEF Advance
  <2> HIDE DEF next
  <2> QED
    BY <1>2, <2>1, <2>2
<1>4. Skipping(jobs[j]) \in Job(jobs[j].plan)
  BY <1>1 DEF Skipping, Job
<1>5. CASE JobList(j)
  <2>1. [jobs[j] EXCEPT !.panes = DOMAIN tmux, !.windows = WindowsOf(tmux)] \in Job(jobs[j].plan)
    <3>1. DOMAIN tmux \subseteq PaneIds /\ WindowsOf(tmux) \subseteq WindowIds
      BY WorkspaceType, WindowsType DEF TypeOK
    <3> QED
      BY <1>1, <3>1 DEF Job
  <2> QED
    BY <1>3, <1>5, <2>1 DEF JobList
<1>6. CASE JobListFails(j)
  <2> DEFINE job == [jobs[j] EXCEPT !.at = Failed]
  <2>1. jobs' = [jobs EXCEPT ![j] = job]
    BY <1>6 DEF JobListFails
  <2>2. job.plan = jobs[j].plan
    BY <1>1 DEF Job
  <2> HIDE DEF job
  <2> QED
    BY <1>2, <2>1, <2>2
<1>7. CASE JobInvalid(j) \/ JobRefused(j) \/ JobFails(j)
  BY <1>3, <1>4, <1>7 DEF JobInvalid, JobRefused, JobFails
<1>8. CASE JobApplied(j)
  <2>1. CASE Binds(Step(j))
    <3> DEFINE job == [jobs[j] EXCEPT !.handles[Step(j).handle] = nextWindow,
                                      !.windows = @ \cup {nextWindow}]
               next == [job EXCEPT !.at = @ + 1]
    <3>1. next.plan = jobs[j].plan
      BY <1>1 DEF Job
    <3>2. jobs' = [jobs EXCEPT ![j] = next]
      BY <1>8, <2>1 DEF JobApplied, Advance
    <3> HIDE DEF next
    <3> QED
      BY <1>2, <3>1, <3>2
  <2>2. CASE ~Binds(Step(j))
    <3>1. Advance(j, jobs[j])
      BY <1>8, <2>2 DEF JobApplied
    <3> QED
      BY <1>1, <1>3, <3>1
  <2> QED
    BY <2>1, <2>2
<1> QED
  BY <1>5, <1>6, <1>7, <1>8

\* Every plan there is, is closed; and a prompt is planned from a snapshot.
Closings ==
  /\ ClosedPlan(plan)
  /\ \A s \in submits : ClosedPlan(s.plan)
  /\ \A j \in DOMAIN jobs : ClosedPlan(jobs[j].plan)
  /\ submits # {} => latest \in Workspaces

LEMMA NoPlanCloses == ClosedPlan(NoPlan)
<1>1. NoPlan.steps = <<>> /\ DOMAIN <<>> = {}
  BY DEF NoPlan
<1> QED
  BY <1>1 DEF ClosedPlan, Closed

LEMMA InitCloses == Init => Closings
  BY NoPlanCloses DEF Init, Closings

LEMMA StepCloses == TypeOK /\ Closings /\ [Next]_vars => Closings'
<1> SUFFICES ASSUME TypeOK, Closings, [Next]_vars PROVE Closings'
  OBVIOUS
<1> USE DEF Closings
<1>1. ASSUME UNCHANGED <<plan, submits, jobs, latest>> PROVE Closings'
  BY <1>1 DEF ClosedPlan
<1>2. ASSUME NEW t, ClosedPlan(t.plan), UNCHANGED <<jobs, latest, plan>>,
             NEW s \in submits, submits' = (submits \ {s}) \cup {t}
      PROVE  Closings'
  BY <1>2
<1>3. ASSUME UNCHANGED <<jobs, latest>>, submits' \subseteq submits, plan' = plan \/ ClosedPlan(plan')
      PROVE  Closings'
  BY <1>3
<1>4. CASE Publish
  BY <1>4 DEF Publish, uiVars, confirm, TypeOK
<1>5. CASE PaneCloses \/ WorkChanges
  BY <1>1, <1>5 DEF PaneCloses, WorkChanges, Changed, uiVars, confirm
<1>6. CASE UserKey
  <2>1. CASE ConfirmApply
    <3> DEFINE job == [plan |-> plan, at |-> 0, panes |-> {}, windows |-> {},
                       handles |-> [h \in Handles |-> NoWindow], skipped |-> {}]
    <3>1. jobs' = Append(jobs, job) /\ UNCHANGED <<plan, submits, latest>>
      BY <2>1 DEF ConfirmApply, uiVars, confirm, world
    <3>2. job.plan = plan
      OBVIOUS
    <3> HIDE DEF job
    <3>3. \A j \in DOMAIN jobs' : (j \in DOMAIN jobs /\ jobs'[j] = jobs[j]) \/ jobs'[j] = job
      BY <3>1 DEF TypeOK
    <3> QED
      BY <3>1, <3>2, <3>3
  <2>2. CASE ConfirmCancel
    BY <1>3, <2>2, NoPlanCloses DEF ConfirmCancel, world
  <2>3. CASE KeyQuit \/ KeyCancel \/ KeyReport
    BY <1>1, <2>3 DEF KeyQuit, KeyCancel, KeyReport, world, uiVars, confirm
  <2>4. CASE KeyEnter
    <3> DEFINE s == [gen |-> gen + 1, at |-> "classify", plan |-> NoPlan]
    <3>1. submits' = submits \cup {s} /\ UNCHANGED <<plan, jobs, latest>> /\ latest \in Workspaces
      BY <2>4 DEF KeyEnter, confirm, world, TypeOK
    <3>2. s.plan = NoPlan
      OBVIOUS
    <3> HIDE DEF s
    <3> QED
      BY <3>1, <3>2, NoPlanCloses
  <2> QED
    BY <1>6, <2>1, <2>2, <2>3, <2>4 DEF UserKey
<1>7. CASE SubmitStep
  <2>1. PICK s \in submits :
          \/ SubmitDropped(s) \/ ClassifiedAsk(s) \/ ClassifiedOrganize(s) \/ Planned(s)
          \/ BroadcastNothing(s) \/ BroadcastStart(s) \/ BroadcastNoProvider(s)
          \/ BroadcastAsk(s) \/ BroadcastEnd(s)
    BY <1>7 DEF SubmitStep
  <2>2. s \in Submit(s.plan)
    BY DEF TypeOK
  <2>3. CASE ClassifiedAsk(s) \/ BroadcastStart(s) \/ BroadcastAsk(s)
    <3>1. PICK at \in {"load", "provider", "answer"} : GoesTo(s, at)
      BY <2>3 DEF ClassifiedAsk, BroadcastStart, BroadcastAsk
    <3>2. [s EXCEPT !.at = at].plan = s.plan
      BY <2>2 DEF Submit
    <3>3. UNCHANGED <<jobs, latest, plan>>
      BY <2>3 DEF ClassifiedAsk, BroadcastStart, BroadcastAsk, world, confirm
    <3> QED
      BY <1>2, <3>1, <3>2, <3>3 DEF GoesTo
  <2>4. CASE ClassifiedOrganize(s)
    <3>1. PICK p \in Plans(latest) :
            submits' = (submits \ {s}) \cup {[s EXCEPT !.at = "plan", !.plan = p]}
      BY <2>4 DEF ClassifiedOrganize
    <3>2. [s EXCEPT !.at = "plan", !.plan = p].plan = p
      BY <2>2 DEF Submit
    <3>3. ClosedPlan(p)
      BY PlansClose
    <3>4. UNCHANGED <<jobs, latest, plan>>
      BY <2>4 DEF ClassifiedOrganize, world, confirm
    <3> QED
      BY <1>2, <3>1, <3>2, <3>3, <3>4
  <2>5. CASE Planned(s)
    <3>1. submits' \subseteq submits /\ plan' = s.plan /\ UNCHANGED <<jobs, latest>>
      BY <2>5 DEF Planned, Ends, world
    <3> QED
      BY <1>3, <3>1
  <2>6. CASE SubmitDropped(s) \/ BroadcastNothing(s) \/ BroadcastNoProvider(s) \/ BroadcastEnd(s)
    <3>1. submits' \subseteq submits /\ UNCHANGED <<plan, jobs, latest>>
      BY <2>6 DEF SubmitDropped, BroadcastNothing, BroadcastNoProvider, BroadcastEnd, Ends, world,
                  confirm
    <3> QED
      BY <1>3, <3>1
  <2> QED
    BY <2>1, <2>3, <2>4, <2>5, <2>6
<1>8. CASE ReportEnd
  BY <1>1, <1>8 DEF ReportEnd, world, confirm
<1>9. CASE JobStep
  <2>1. PICK j \in DOMAIN jobs :
          \/ JobList(j) \/ JobListFails(j) \/ JobInvalid(j) \/ JobApplied(j)
          \/ JobRefused(j) \/ JobFails(j)
    BY <1>9 DEF JobStep
  <2>2. DOMAIN jobs' = DOMAIN jobs /\ \A i \in DOMAIN jobs : jobs'[i].plan = jobs[i].plan
    BY <2>1, JobsKeepPlans
  <2>3. UNCHANGED <<plan, submits, latest>>
    BY <2>1 DEF JobList, JobListFails, JobInvalid, JobApplied, JobRefused, JobFails, Advance,
                uiVars, confirm, world
  <2> QED
    BY <2>2, <2>3
<1>10. CASE UNCHANGED vars
  BY <1>1, <1>10 DEF vars, world, uiVars, confirm
<1> QED
  BY <1>4, <1>5, <1>6, <1>7, <1>8, <1>9, <1>10 DEF Next

LEMMA ClosingsClose == Closings => PlansAreClosed
<1> SUFFICES ASSUME Closings, NEW p \in {plan} \cup {jobs[j].plan : j \in DOMAIN jobs}
             PROVE  ClosedPlan(p)
  BY DEF PlansAreClosed, ClosedPlan, Closed, Verbs
<1> QED
  BY DEF Closings

\* Whatever a model answers, and from whatever workspace a plan is made, the plans
\* that are shown and applied consist of the six relocating steps, of panes that
\* were on screen and of handles bound before (parseOrganizePlan).
THEOREM PlansStayClosed == Spec => []PlansAreClosed
  BY InitCloses, StepCloses, ClosingsClose, TypeCorrect, PTL DEF Spec
----------------------------------------------------------------------------
(* Ids are given once: what tmux opens is new.                             *)

InRange(ws, pane, window) ==
  \A p \in DOMAIN ws : p < pane /\ 0 < ws[p].window /\ ws[p].window < window

Numbered == InRange(tmux, nextPane, nextWindow)

LEMMA MovedInRange ==
  ASSUME NEW ws \in Workspaces, NEW pane \in Nat, NEW window \in Nat, InRange(ws, pane, window),
         NEW p \in DOMAIN ws, NEW w \in Nat, 0 < w, w < window
  PROVE  InRange(Moved(ws, p, w), pane, window)
<1> DEFINE moved == [ws[p] EXCEPT !.window = w]
           new   == [ws EXCEPT ![p] = moved]
<1>1. ws \in [DOMAIN ws -> Pane]
  BY WorkspaceType
<1>2. moved.window = w
  BY <1>1 DEF Pane
<1>3. Moved(ws, p, w) = new
  BY DEF Moved
<1> HIDE DEF moved
<1>4. DOMAIN new = DOMAIN ws /\ \A q \in DOMAIN ws : new[q] = IF q = p THEN moved ELSE ws[q]
  BY <1>1
<1> HIDE DEF new
<1> QED
  BY <1>2, <1>3, <1>4 DEF InRange

LEMMA RangeGrows ==
  ASSUME NEW ws \in Workspaces, NEW pane \in Nat, NEW window \in Nat, InRange(ws, pane, window),
         NEW up \in {pane, pane + 1}, NEW on \in {window, window + 1}
  PROVE  InRange(ws, up, on)
<1>1. \A p \in DOMAIN ws : p \in Nat /\ ws[p].window \in Nat
  BY WorkspaceType DEF PaneIds, Pane, WindowIds, NoWindow
<1> QED
  BY <1>1 DEF InRange

\* What tmux makes of a step stays within the ids it has given.
LEMMA EffectInRange ==
  ASSUME NEW ws \in Workspaces, NEW pane \in Nat, NEW window \in Nat, InRange(ws, pane, window),
         0 < window, NEW job, NEW step, Possible(ws, job, step, pane, window)
  PROVE  InRange(Effect(ws, job, step, pane, window),
                 IF step.op = "new-window" THEN pane + 1 ELSE pane,
                 IF Binds(step) THEN window + 1 ELSE window)
<1> DEFINE after == Effect(ws, job, step, pane, window)
           up == IF step.op = "new-window" THEN pane + 1 ELSE pane
           on == IF Binds(step) THEN window + 1 ELSE window
<1>1. InRange(ws, up, on) /\ up \in Nat /\ on \in Nat
  <2>1. up \in {pane, pane + 1} /\ on \in {window, window + 1}
    OBVIOUS
  <2> QED
    BY <2>1, RangeGrows
<1>2. \A p \in DOMAIN ws : p \in Nat /\ ws[p].window \in Nat
  BY WorkspaceType DEF PaneIds, Pane, WindowIds, NoWindow
<1>3. \A w \in WindowsOf(ws) : w \in Nat /\ 0 < w /\ w < on
  BY <1>1, <1>2 DEF WindowsOf, InRange
<1>4. CASE step.op = "new-window"
  <2>1. after = [p \in DOMAIN ws \cup {pane} |->
                   IF p = pane THEN [window |-> window, work |-> Shell] ELSE ws[p]]
    BY <1>4 DEF Effect
  <2>2. up = pane + 1 /\ on = window + 1
    BY <1>4 DEF Binds
  <2> HIDE DEF after, up, on
  <2> QED
    BY <1>1, <2>1, <2>2 DEF InRange, after, up, on
<1>5. CASE step.op = "move-pane"
  <2>1. step.pane \in DOMAIN ws /\ Resolve(job, step.to) \in WindowsOf(ws)
    BY <1>5 DEF Possible
  <2>2. after = Moved(ws, step.pane, Resolve(job, step.to))
    BY <1>5 DEF Effect
  <2> HIDE DEF after, up, on
  <2> QED
    BY <1>1, <1>3, <2>1, <2>2, MovedInRange DEF after, up, on
<1>6. CASE step.op = "break-pane"
  <2>1. step.pane \in DOMAIN ws
    BY <1>6 DEF Possible
  <2>2. after = Moved(ws, step.pane, window)
    BY <1>6 DEF Effect
  <2>3. window < on
    BY <1>6 DEF Binds
  <2> HIDE DEF after, up, on
  <2> QED
    BY <1>1, <2>1, <2>2, <2>3, MovedInRange DEF after, up, on
<1>7. CASE step.op = "swap-pane"
  <2>1. step.pane \in DOMAIN ws /\ step.with \in DOMAIN ws
    BY <1>7 DEF Possible
  <2> DEFINE half == Moved(ws, step.pane, ws[step.with].window)
  <2>2. after = Moved(half, step.with, ws[step.pane].window)
    BY <1>7 DEF Effect
  <2>3. ws[step.with].window \in WindowIds \cup {NoWindow}
    BY <2>1, WorkspaceType DEF Pane
  <2>4. half \in Workspaces /\ step.with \in DOMAIN half
    BY <2>1, <2>3, MovedType
  <2>5. /\ ws[step.with].window \in Nat /\ 0 < ws[step.with].window /\ ws[step.with].window < on
        /\ ws[step.pane].window \in Nat /\ 0 < ws[step.pane].window /\ ws[step.pane].window < on
    BY <1>1, <1>2, <2>1 DEF InRange
  <2> HIDE DEF up, on
  <2>6. InRange(half, up, on)
    BY <1>1, <2>1, <2>5, MovedInRange
  <2> HIDE DEF after, half
  <2> QED
    BY <1>1, <2>1, <2>2, <2>4, <2>5, <2>6, MovedInRange DEF after, up, on
<1>8. CASE step.op \notin {"new-window", "move-pane", "break-pane", "swap-pane"}
  <2>1. after = ws
    BY <1>8 DEF Effect
  <2> HIDE DEF after, up, on
  <2> QED
    BY <1>1, <2>1 DEF after, up, on
<1> QED
  BY <1>4, <1>5, <1>6, <1>7, <1>8

LEMMA InitNumbers == Init => Numbered /\ nextWindow > 0
<1> SUFFICES ASSUME Init PROVE Numbered /\ nextWindow > 0
  OBVIOUS
<1> DEFINE n == Cardinality(DOMAIN tmux)
           w == Cardinality(WindowsOf(tmux))
<1>1. tmux \in Workspaces
  BY StartsAssumption DEF Init
<1>2. n \in Nat /\ w \in Nat
  BY <1>1, FiniteIds, WorkspaceType, WindowsType, FS_Subset, FS_CardinalityType
<1>3. nextPane = 1 + n /\ nextWindow = 1 + w
  BY DEF Init
<1>4. DOMAIN tmux = 1..n /\ {tmux[p].window : p \in DOMAIN tmux} = 1..w
  BY StartsAssumption DEF Init
<1> HIDE DEF n, w
<1>5. \A p \in DOMAIN tmux : p \in 1..n /\ tmux[p].window \in 1..w
  BY <1>4
<1> QED
  BY <1>2, <1>3, <1>5 DEF Numbered, InRange

LEMMA StepNumbers ==
  TypeOK /\ Numbered /\ nextWindow > 0 /\ [Next]_vars => (Numbered /\ nextWindow > 0)'
<1> SUFFICES ASSUME TypeOK, Numbered, nextWindow > 0, [Next]_vars
             PROVE  (Numbered /\ nextWindow > 0)'
  OBVIOUS
<1>1. tmux \in Workspaces /\ nextPane \in Nat /\ nextWindow \in Nat
  BY DEF TypeOK
<1>2. CASE UNCHANGED tmuxVars
  BY <1>2 DEF tmuxVars, Numbered, InRange
<1>3. CASE PaneCloses
  <2>1. PICK p \in DOMAIN tmux : Changed([q \in DOMAIN tmux \ {p} |-> tmux[q]])
    BY <1>3 DEF PaneCloses
  <2>2. tmux' = [q \in DOMAIN tmux \ {p} |-> tmux[q]] /\ UNCHANGED <<nextPane, nextWindow>>
    BY <2>1 DEF Changed
  <2> QED
    BY <2>2 DEF Numbered, InRange
<1>4. CASE WorkChanges
  <2>1. PICK p \in DOMAIN tmux, k \in Works : Changed([tmux EXCEPT ![p].work = k])
    BY <1>4 DEF WorkChanges
  <2> DEFINE pane == [tmux[p] EXCEPT !.work = k]
  <2>2. tmux' = [tmux EXCEPT ![p] = pane] /\ UNCHANGED <<nextPane, nextWindow>>
    BY <2>1 DEF Changed
  <2>3. pane.window = tmux[p].window
    BY <1>1, WorkspaceType DEF Pane
  <2> HIDE DEF pane
  <2>4. DOMAIN tmux' = DOMAIN tmux /\ \A q \in DOMAIN tmux : tmux'[q].window = tmux[q].window
    BY <2>2, <2>3
  <2> QED
    BY <2>2, <2>4 DEF Numbered, InRange
<1>5. ASSUME NEW j, Reaches(j), Affected(j)
      PROVE  (Numbered /\ nextWindow > 0)'
  <2>1. InRange(tmux', nextPane', nextWindow')
    BY <1>1, <1>5, EffectInRange DEF Numbered, Reaches, Affected
  <2>2. nextWindow' > 0
    BY <1>1, <1>5 DEF Affected
  <2> QED
    BY <2>1, <2>2 DEF Numbered
<1>6. CASE JobStep
  BY <1>2, <1>5, <1>6
  DEF JobStep, JobList, JobListFails, JobInvalid, JobApplied, JobRefused, JobFails, world
<1>7. CASE Publish \/ UserKey \/ SubmitStep \/ ReportEnd \/ UNCHANGED vars
  BY <1>2, <1>7
  DEF Publish, UserKey, ConfirmApply, ConfirmCancel, KeyQuit, KeyCancel, KeyReport, KeyEnter,
      SubmitStep, SubmitDropped, ClassifiedAsk, ClassifiedOrganize, Planned, BroadcastNothing,
      BroadcastStart, BroadcastNoProvider, BroadcastAsk, BroadcastEnd, ReportEnd, world, vars
<1> QED
  BY <1>3, <1>4, <1>6, <1>7 DEF Next
----------------------------------------------------------------------------
(* The plan that is about to be applied.                                   *)

\* One submit is current at most, and none behind the confirm screen.
Generations ==
  /\ \A s \in submits : s.gen <= gen
  /\ \A s, t \in submits : s.gen = t.gen => s = t
  /\ mode = "confirm" => \A s \in submits : s.gen # gen

MadeOf(p, ws) == p.heuristic => p.steps = HeuristicPlan(ws)

\* While `still` holds and nothing is applied, the plan to come is one of tmux.
Fresh ==
  still /\ jobs = <<>> =>
    /\ mode = "confirm" => MadeOf(plan, tmux)
    /\ \A s \in submits : s.at = "plan" /\ s.gen = gen => MadeOf(s.plan, tmux)

LEMMA StepGenerations == TypeOK /\ Generations /\ [Next]_vars => Generations'
<1> SUFFICES ASSUME TypeOK, Generations, [Next]_vars PROVE Generations'
  OBVIOUS
<1>1. gen \in Nat /\ \A s \in submits : s.gen \in Nat
  BY Bounds DEF TypeOK, Submit
<1>2. ASSUME submits' \subseteq submits, gen' = gen, mode' = mode \/ mode' = "browse"
      PROVE  Generations'
  BY <1>2 DEF Generations
<1>3. ASSUME NEW s \in submits, NEW t, t.gen = s.gen, submits' = (submits \ {s}) \cup {t},
             UNCHANGED <<gen, mode>>
      PROVE  Generations'
  BY <1>3 DEF Generations
<1>4. CASE UserKey
  <2>1. CASE KeyEnter
    <3> DEFINE s == [gen |-> gen + 1, at |-> "classify", plan |-> NoPlan]
    <3>1. submits' = submits \cup {s} /\ gen' = gen + 1 /\ mode' = "browse"
      BY <2>1 DEF KeyEnter, confirm
    <3>2. s.gen = gen + 1
      OBVIOUS
    <3> HIDE DEF s
    <3>3. \A t \in submits : t.gen <= gen /\ t.gen \in Nat
      BY <1>1 DEF Generations
    <3> QED
      BY <1>1, <3>1, <3>2, <3>3 DEF Generations
  <2>2. CASE KeyCancel
    <3>1. submits' = submits /\ gen' = gen + 1 /\ mode' = "browse"
      BY <2>2 DEF KeyCancel, confirm
    <3> QED
      BY <1>1, <3>1 DEF Generations
  <2>3. CASE ConfirmApply \/ ConfirmCancel \/ KeyQuit \/ KeyReport
    BY <1>2, <2>3 DEF ConfirmApply, ConfirmCancel, KeyQuit, KeyReport, uiVars, confirm
  <2> QED
    BY <1>4, <2>1, <2>2, <2>3 DEF UserKey
<1>5. CASE SubmitStep
  <2>1. PICK s \in submits :
          \/ SubmitDropped(s) \/ ClassifiedAsk(s) \/ ClassifiedOrganize(s) \/ Planned(s)
          \/ BroadcastNothing(s) \/ BroadcastStart(s) \/ BroadcastNoProvider(s)
          \/ BroadcastAsk(s) \/ BroadcastEnd(s)
    BY <1>5 DEF SubmitStep
  <2>2. s \in Submit(s.plan)
    BY DEF TypeOK
  <2>3. CASE ClassifiedAsk(s) \/ BroadcastStart(s) \/ BroadcastAsk(s)
    <3>1. PICK at \in {"load", "provider", "answer"} : GoesTo(s, at)
      BY <2>3 DEF ClassifiedAsk, BroadcastStart, BroadcastAsk
    <3>2. [s EXCEPT !.at = at].gen = s.gen
      BY <2>2 DEF Submit
    <3>3. UNCHANGED <<gen, mode>>
      BY <2>3 DEF ClassifiedAsk, BroadcastStart, BroadcastAsk, confirm
    <3> QED
      BY <1>3, <3>1, <3>2, <3>3 DEF GoesTo
  <2>4. CASE ClassifiedOrganize(s)
    <3>1. PICK p : submits' = (submits \ {s}) \cup {[s EXCEPT !.at = "plan", !.plan = p]}
      BY <2>4 DEF ClassifiedOrganize
    <3>2. [s EXCEPT !.at = "plan", !.plan = p].gen = s.gen
      BY <2>2 DEF Submit
    <3>3. UNCHANGED <<gen, mode>>
      BY <2>4 DEF ClassifiedOrganize, confirm
    <3> QED
      BY <1>3, <3>1, <3>2, <3>3
  <2>5. CASE Planned(s)
    <3>1. submits' = submits \ {s} /\ s.gen = gen /\ gen' = gen
      BY <2>5 DEF Planned, Ends, IsCurrent
    <3> QED
      BY <3>1 DEF Generations
  <2>6. CASE SubmitDropped(s) \/ BroadcastNothing(s) \/ BroadcastNoProvider(s) \/ BroadcastEnd(s)
    BY <1>2, <2>6
    DEF SubmitDropped, BroadcastNothing, BroadcastNoProvider, BroadcastEnd, Ends, confirm
  <2> QED
    BY <2>1, <2>3, <2>4, <2>5, <2>6
<1>6. CASE Publish \/ PaneCloses \/ WorkChanges
  BY <1>2, <1>6 DEF Publish, PaneCloses, WorkChanges, Changed, uiVars, confirm
<1>7. CASE ReportEnd
  BY <1>2, <1>7 DEF ReportEnd, confirm
<1>8. CASE JobStep \/ UNCHANGED vars
  BY <1>2, <1>8, JobsKeepUi DEF vars, uiVars, confirm
<1> QED
  BY <1>4, <1>5, <1>6, <1>7, <1>8 DEF Next

LEMMA PlansAreOf ==
  ASSUME NEW ws, NEW p \in Plans(ws)
  PROVE  MadeOf(p, ws)
<1>1. CASE p = [steps |-> HeuristicPlan(ws), heuristic |-> TRUE, known |-> DOMAIN ws]
  BY <1>1 DEF MadeOf
<1>2. CASE \E r \in Replies : p = [steps |-> ParsePlan(r, DOMAIN ws), heuristic |-> FALSE,
                                   known |-> DOMAIN ws]
  BY <1>2 DEF MadeOf
<1> QED
  BY <1>1, <1>2 DEF Plans

LEMMA StepFresh == TypeOK /\ Generations /\ Fresh /\ [Next]_vars => Fresh'
<1> SUFFICES ASSUME TypeOK, Generations, Fresh, [Next]_vars, still', jobs' = <<>>
             PROVE  /\ mode' = "confirm" => MadeOf(plan', tmux')
                    /\ \A s \in submits' : s.at = "plan" /\ s.gen = gen' => MadeOf(s.plan, tmux')
  BY DEF Fresh, MadeOf
<1>1. ASSUME UNCHANGED <<still, jobs, tmux, gen>>, submits' \subseteq submits,
             UNCHANGED <<mode, plan>> \/ mode' = "browse"
      PROVE  /\ mode' = "confirm" => MadeOf(plan', tmux')
             /\ \A s \in submits' : s.at = "plan" /\ s.gen = gen' => MadeOf(s.plan, tmux')
  BY <1>1 DEF Fresh
<1>2. ASSUME NEW s \in submits, NEW t, t.at # "plan", submits' = (submits \ {s}) \cup {t},
             UNCHANGED <<still, jobs, tmux, gen, mode, plan>>
      PROVE  /\ mode' = "confirm" => MadeOf(plan', tmux')
             /\ \A r \in submits' : r.at = "plan" /\ r.gen = gen' => MadeOf(r.plan, tmux')
  BY <1>2 DEF Fresh
<1>3. CASE Publish
  BY <1>1, <1>3 DEF Publish, tmuxVars, uiVars, confirm
<1>4. CASE PaneCloses \/ WorkChanges
  BY <1>4 DEF PaneCloses, WorkChanges, Changed
<1>5. CASE UserKey
  <2>1. CASE KeyEnter
    <3> DEFINE s == [gen |-> gen + 1, at |-> "classify", plan |-> NoPlan]
    <3>1. submits' = submits \cup {s} /\ gen' = gen + 1 /\ mode' = "browse"
      BY <2>1 DEF KeyEnter, confirm
    <3>2. s.at = "classify"
      OBVIOUS
    <3>3. \A t \in submits : t.gen <= gen /\ t.gen \in Nat /\ gen \in Nat
      BY Bounds DEF Generations, TypeOK, Submit
    <3> HIDE DEF s
    <3> QED
      BY <3>1, <3>2, <3>3
  <2>2. CASE KeyCancel
    <3>1. submits' = submits /\ gen' = gen + 1 /\ mode' = "browse"
      BY <2>2 DEF KeyCancel, confirm
    <3>2. \A t \in submits : t.gen <= gen /\ t.gen \in Nat /\ gen \in Nat
      BY Bounds DEF Generations, TypeOK, Submit
    <3> QED
      BY <3>1, <3>2
  <2>3. CASE ConfirmApply
    <3>1. jobs' # <<>>
      BY <2>3 DEF ConfirmApply, TypeOK
    <3> QED
      BY <3>1
  <2>4. CASE ConfirmCancel \/ KeyQuit \/ KeyReport
    BY <1>1, <2>4 DEF ConfirmCancel, KeyQuit, KeyReport, uiVars, confirm, world, tmuxVars
  <2> QED
    BY <1>5, <2>1, <2>2, <2>3, <2>4 DEF UserKey
<1>6. CASE SubmitStep
  <2>1. PICK s \in submits :
          \/ SubmitDropped(s) \/ ClassifiedAsk(s) \/ ClassifiedOrganize(s) \/ Planned(s)
          \/ BroadcastNothing(s) \/ BroadcastStart(s) \/ BroadcastNoProvider(s)
          \/ BroadcastAsk(s) \/ BroadcastEnd(s)
    BY <1>6 DEF SubmitStep
  <2>2. s \in Submit(s.plan)
    BY DEF TypeOK
  <2>3. CASE ClassifiedAsk(s) \/ BroadcastStart(s) \/ BroadcastAsk(s)
    <3>1. PICK at \in {"load", "provider", "answer"} : GoesTo(s, at)
      BY <2>3 DEF ClassifiedAsk, BroadcastStart, BroadcastAsk
    <3>2. [s EXCEPT !.at = at].at # "plan"
      BY <2>2 DEF Submit
    <3>3. UNCHANGED <<still, jobs, tmux, gen, mode, plan>>
      BY <2>3 DEF ClassifiedAsk, BroadcastStart, BroadcastAsk, confirm, world, tmuxVars
    <3> QED
      BY <1>2, <3>1, <3>2, <3>3 DEF GoesTo
  <2>4. CASE ClassifiedOrganize(s)
    <3>1. PICK p \in Plans(latest) :
            submits' = (submits \ {s}) \cup {[s EXCEPT !.at = "plan", !.plan = p]}
      BY <2>4 DEF ClassifiedOrganize
    <3> DEFINE t == [s EXCEPT !.at = "plan", !.plan = p]
    <3>2. t.plan = p
      BY <2>2 DEF Submit
    <3> HIDE DEF t
    <3>3. latest = tmux /\ UNCHANGED <<tmux, gen, mode, plan>> /\ s.gen = gen
      BY <2>4 DEF ClassifiedOrganize, confirm, world, tmuxVars, IsCurrent
    <3>4. MadeOf(t.plan, tmux')
      BY <3>2, <3>3, PlansAreOf
    <3>5. mode # "confirm" /\ \A r \in submits \ {s} : r.gen # gen
      BY <3>3 DEF Generations
    <3>6. submits' = (submits \ {s}) \cup {t}
      BY <3>1 DEF t
    <3> QED
      BY <3>3, <3>4, <3>5, <3>6
  <2>5. CASE Planned(s)
    <3>1. /\ submits' = submits \ {s} /\ s.gen = gen /\ gen' = gen /\ plan' = s.plan
          /\ s.at = "plan" /\ UNCHANGED <<still, jobs, tmux>>
      BY <2>5 DEF Planned, Ends, IsCurrent, InFlight, world, tmuxVars
    <3> QED
      BY <3>1 DEF Fresh
  <2>6. CASE SubmitDropped(s) \/ BroadcastNothing(s) \/ BroadcastNoProvider(s) \/ BroadcastEnd(s)
    BY <1>1, <2>6
    DEF SubmitDropped, BroadcastNothing, BroadcastNoProvider, BroadcastEnd, Ends, confirm, world,
        tmuxVars
  <2> QED
    BY <2>1, <2>3, <2>4, <2>5, <2>6
<1>7. CASE ReportEnd
  BY <1>1, <1>7 DEF ReportEnd, confirm, world, tmuxVars
<1>8. CASE JobStep
  <2>1. PICK j \in DOMAIN jobs :
          \/ JobList(j) \/ JobListFails(j) \/ JobInvalid(j) \/ JobApplied(j)
          \/ JobRefused(j) \/ JobFails(j)
    BY <1>8 DEF JobStep
  <2>2. DOMAIN jobs' = DOMAIN jobs
    BY <2>1, JobsKeepPlans
  <2> QED
    BY <2>1, <2>2
<1>9. CASE UNCHANGED vars
  BY <1>1, <1>9 DEF vars, world, tmuxVars, uiVars, confirm
<1> QED
  BY <1>3, <1>4, <1>5, <1>6, <1>7, <1>8, <1>9 DEF Next
----------------------------------------------------------------------------
(* A plan at work.  After the steps before `at` of the plan P made of ws,  *)
(* tmux is tm, and the shells' window is h.                                *)

Placed(ws) == \A p \in DOMAIN ws : ws[p].window # NoWindow

Did(P, at, step) == \E i \in 1 .. at - 1 : P[i] = step

Goal(ws, h, k) == IF k = Shell THEN h ELSE Aim(ws, k).id

Where(ws, P, at, h, p) ==
  IF Did(P, at, Move(ws, p)) THEN Goal(ws, h, ws[p].work) ELSE ws[p].window

Stands(ws, P, at, tm, h) ==
  /\ DOMAIN ws \subseteq DOMAIN tm
  /\ \A p \in DOMAIN ws : tm[p].work = ws[p].work /\ tm[p].window = Where(ws, P, at, h, p)
  /\ \A p \in DOMAIN tm \ DOMAIN ws : tm[p].work = Shell /\ tm[p].window = h
  /\ IF Did(P, at, NewWindow(Shell))
     THEN DOMAIN tm \ DOMAIN ws # {} /\ h \notin WindowsOf(ws) \cup {NoWindow}
     ELSE DOMAIN tm \ DOMAIN ws = {}

MadeFor(ws, P) == ws \in Workspaces /\ Placed(ws) /\ PlanFor(ws, Groups(ws), P)

LEMMA DidMore ==
  ASSUME NEW P, NEW at \in Nat, at > 0, NEW step
  PROVE  Did(P, at + 1, step) <=> Did(P, at, step) \/ P[at] = step
<1>1. \A i \in 1 .. at + 1 - 1 : i \in 1 .. at - 1 \/ i = at
  OBVIOUS
<1>2. 1 .. at - 1 \subseteq 1 .. at + 1 - 1 /\ at \in 1 .. at + 1 - 1
  OBVIOUS
<1> QED
  BY <1>1, <1>2 DEF Did

\* A step that is planned once has not been done when its turn comes.
LEMMA NotYet ==
  ASSUME NEW P, Once(P), NEW S, P \in Seq(S), NEW at \in DOMAIN P,
         P[at].op \in {"new-window", "move-pane"}
  PROVE  ~Did(P, at, P[at])
<1> SUFFICES ASSUME NEW i \in 1 .. at - 1, P[i] = P[at] PROVE FALSE
  BY DEF Did
<1>1. at \in 1..Len(P) /\ DOMAIN P = 1..Len(P) /\ Len(P) \in Nat
  OBVIOUS
<1>2. i \in DOMAIN P /\ i # at
  BY <1>1
<1> QED
  BY <1>2 DEF Once

\* The project of a group has the window of a pane that stays.
LEMMA AnchorStays ==
  ASSUME NEW ws \in Workspaces, Placed(ws), NEW k \in Keys(ws)
  PROVE  \E p \in Group(ws, k) : /\ Aim(ws, k) = Window(ws[p].window) /\ ~Leaves(ws, p)
                                 /\ ws[p].window \in WindowsOf(ws)
<1>1. k \in Projects /\ k # Shell /\ Group(ws, k) # {}
  BY WorksAre DEF Keys
<1>2. Group(ws, k) \subseteq DOMAIN ws /\ \A p \in Group(ws, k) : ws[p].work = k
  BY DEF Group
<1>3. PICK p \in Group(ws, k) : Anchor(ws, k) = Window(ws[p].window)
  BY <1>1, <1>2, AnchorIs DEF Placed
<1>4. ~Leaves(ws, p)
  BY <1>1, <1>2, <1>3 DEF Leaves
<1>5. ws[p].window \in WindowsOf(ws)
  BY <1>2 DEF Placed, WindowsOf
<1> QED
  BY <1>1, <1>3, <1>4, <1>5 DEF Aim

\* Only panes that leave are moved.
LEMMA MovesLeave ==
  ASSUME NEW ws, NEW P, MadeFor(ws, P), NEW at \in 1 .. Len(P) + 1, NEW p \in DOMAIN ws,
         Did(P, at, Move(ws, p))
  PROVE  p \in Leavers(ws, Groups(ws))
<1>1. P \in Seq(StepsFor(ws, Groups(ws)))
  BY DEF MadeFor, PlanFor
<1>2. PICK i \in 1 .. at - 1 : P[i] = Move(ws, p)
  BY DEF Did
<1>3. i \in DOMAIN P
  BY <1>1
<1>4. P[i].op = "move-pane"
  BY <1>2, StepForms DEF Move
<1>5. PICK q \in Leavers(ws, Groups(ws)) : P[i] = Move(ws, q)
  BY <1>3, <1>4, PlannedSteps, StepForms DEF MadeFor
<1> QED
  BY <1>2, <1>5, SameMove

\* What a step aims at is there: a pane that stays, or the shell of the new window.
LEMMA GoalIsThere ==
  ASSUME NEW ws, NEW P, MadeFor(ws, P), NEW at \in 1 .. Len(P) + 1, NEW tm, NEW h,
         Stands(ws, P, at, tm, h), NEW k \in Groups(ws),
         k = Shell => Did(P, at, NewWindow(Shell))
  PROVE  /\ Goal(ws, h, k) \in WindowsOf(tm) /\ Goal(ws, h, k) # NoWindow
         /\ k # Shell => /\ Aim(ws, k) = Window(Goal(ws, h, k))
                         /\ Goal(ws, h, k) \in WindowsOf(ws)
         /\ k = Shell => Goal(ws, h, k) \notin WindowsOf(ws)
<1>1. CASE k = Shell
  <2>1. PICK p \in DOMAIN tm \ DOMAIN ws : tm[p].window = h
    BY <1>1 DEF Stands
  <2>2. h # NoWindow /\ h \notin WindowsOf(ws)
    BY <1>1 DEF Stands
  <2>3. h \in WindowsOf(tm)
    BY <2>1, <2>2 DEF WindowsOf
  <2> QED
    BY <1>1, <2>2, <2>3 DEF Goal
<1>2. CASE k # Shell
  <2>1. k \in Keys(ws)
    BY <1>2 DEF Groups
  <2>2. PICK p \in Group(ws, k) : /\ Aim(ws, k) = Window(ws[p].window) /\ ~Leaves(ws, p)
                                  /\ ws[p].window \in WindowsOf(ws)
    BY <2>1, AnchorStays DEF MadeFor
  <2>3. Goal(ws, h, k) = ws[p].window
    BY <1>2, <2>2, StepForms DEF Goal
  <2>4. p \in DOMAIN ws
    BY DEF Group
  <2>5. ~Did(P, at, Move(ws, p))
    BY <2>2, <2>4, MovesLeave DEF Leavers
  <2>6. tm[p].window = ws[p].window /\ p \in DOMAIN tm
    BY <2>4, <2>5 DEF Stands, Where
  <2>7. ws[p].window # NoWindow
    BY <2>4 DEF MadeFor, Placed
  <2>8. ws[p].window \in WindowsOf(tm)
    BY <2>6, <2>7 DEF WindowsOf
  <2> QED
    BY <1>2, <2>2, <2>3, <2>7, <2>8
<1> QED
  BY <1>1, <1>2

\* A step that moves nothing and opens nothing.
LEMMA StandsOn ==
  ASSUME NEW ws, NEW P, MadeFor(ws, P), NEW at \in 1..Len(P), NEW tm, NEW h,
         Stands(ws, P, at, tm, h), P[at].op \notin {"new-window", "move-pane"}
  PROVE  Stands(ws, P, at + 1, tm, h)
<1>1. P \in Seq(StepsFor(ws, Groups(ws)))
  BY DEF MadeFor, PlanFor
<1>2. at \in Nat /\ at > 0
  BY <1>1
<1>3. P[at] # NewWindow(Shell) /\ \A p : P[at] # Move(ws, p)
  BY StepForms DEF Move
<1>4. Did(P, at + 1, NewWindow(Shell)) <=> Did(P, at, NewWindow(Shell))
  BY <1>2, <1>3, DidMore
<1>5. \A p : Did(P, at + 1, Move(ws, p)) <=> Did(P, at, Move(ws, p))
  BY <1>2, <1>3, DidMore
<1> QED
  BY <1>4, <1>5 DEF Stands, Where

\* The window for the shells opens, with a shell in it.
LEMMA StandsOpen ==
  ASSUME NEW ws, NEW P, MadeFor(ws, P), NEW at \in 1..Len(P), NEW tm, NEW h,
         Stands(ws, P, at, tm, h), P[at] = NewWindow(Shell),
         NEW pane, pane \notin DOMAIN tm, NEW w, w \notin WindowsOf(ws) \cup {NoWindow},
         NEW to, to = [p \in DOMAIN tm \cup {pane} |->
                         IF p = pane THEN [window |-> w, work |-> Shell] ELSE tm[p]]
  PROVE  Stands(ws, P, at + 1, to, w)
<1>1. P \in Seq(StepsFor(ws, Groups(ws))) /\ Once(P) /\ Ready(P)
  BY DEF MadeFor, PlanFor
<1>2. at \in Nat /\ at > 0 /\ at \in DOMAIN P
  BY <1>1
<1>3. NewWindow(Shell).op = "new-window"
  BY StepForms
<1>4. ~Did(P, at, NewWindow(Shell))
  BY <1>1, <1>2, <1>3, NotYet
<1>5. Did(P, at + 1, NewWindow(Shell))
  BY <1>2, DidMore
<1>6. \A p : P[at] # Move(ws, p)
  BY <1>3, StepForms DEF Move
<1>7. \A p : Did(P, at + 1, Move(ws, p)) <=> Did(P, at, Move(ws, p))
  BY <1>2, <1>6, DidMore
<1>8. ASSUME NEW p \in DOMAIN ws, ws[p].work = Shell, Did(P, at, Move(ws, p))
      PROVE  FALSE
  <2>1. PICK i \in 1 .. at - 1 : P[i] = Move(ws, p)
    BY <1>8 DEF Did
  <2>2. P[i].op = "move-pane" /\ P[i].to = Handle(Shell)
    BY <1>8, <2>1, StepForms DEF Move, Aim
  <2>3. i \in DOMAIN P /\ i \in Nat
    BY <1>1
  <2>4. P[i].to.kind = "handle" /\ P[i].to.id = Shell
    BY <2>2, StepForms
  <2>5. PICK j \in 1 .. i - 1 : P[j] = NewWindow(Shell)
    BY <1>1, <2>2, <2>3, <2>4 DEF Ready
  <2>6. j \in 1 .. at - 1
    BY <1>2, <2>3
  <2> QED
    BY <1>4, <2>5, <2>6 DEF Did
<1>9. DOMAIN tm = DOMAIN ws
  BY <1>4 DEF Stands
<1>10. DOMAIN to = DOMAIN ws \cup {pane} /\ pane \notin DOMAIN ws /\ to[pane].window = w
       /\ to[pane].work = Shell /\ \A p \in DOMAIN ws : to[p] = tm[p]
  BY <1>9
<1>11. ASSUME NEW p \in DOMAIN ws
       PROVE  Where(ws, P, at + 1, w, p) = Where(ws, P, at, h, p)
  BY <1>7, <1>8 DEF Where, Goal
<1> QED
  BY <1>5, <1>10, <1>11 DEF Stands

\* A pane moves where its group goes.
LEMMA StandsMoved ==
  ASSUME NEW ws, NEW P, MadeFor(ws, P), NEW at \in 1..Len(P), NEW tm \in Workspaces, NEW h,
         Stands(ws, P, at, tm, h), NEW p \in DOMAIN ws, P[at] = Move(ws, p),
         NEW to, to = Moved(tm, p, Goal(ws, h, ws[p].work))
  PROVE  Stands(ws, P, at + 1, to, h)
<1>1. P \in Seq(StepsFor(ws, Groups(ws)))
  BY DEF MadeFor, PlanFor
<1>2. at \in Nat /\ at > 0
  BY <1>1
<1>3. P[at] # NewWindow(Shell)
  BY StepForms DEF Move
<1>4. Did(P, at + 1, NewWindow(Shell)) <=> Did(P, at, NewWindow(Shell))
  BY <1>2, <1>3, DidMore
<1>5. \A q : Did(P, at + 1, Move(ws, q)) <=> Did(P, at, Move(ws, q)) \/ q = p
  BY <1>2, DidMore, SameMove
<1> DEFINE moved == [tm[p] EXCEPT !.window = Goal(ws, h, ws[p].work)]
<1>6. p \in DOMAIN tm /\ tm[p] \in Pane /\ tm[p].work = ws[p].work
  BY WorkspaceType DEF Stands
<1>7. moved.window = Goal(ws, h, ws[p].work) /\ moved.work = ws[p].work
  BY <1>6 DEF Pane
<1>8. to = [tm EXCEPT ![p] = moved]
  BY DEF Moved
<1> HIDE DEF moved
<1>9. DOMAIN to = DOMAIN tm /\ to[p] = moved /\ \A q \in DOMAIN tm : q # p => to[q] = tm[q]
  BY <1>6, <1>8
<1>10. ASSUME NEW q \in DOMAIN ws
       PROVE  to[q].work = ws[q].work /\ to[q].window = Where(ws, P, at + 1, h, q)
  <2>1. CASE q = p
    BY <1>5, <1>7, <1>9, <2>1 DEF Where
  <2>2. CASE q # p
    BY <1>5, <1>9, <2>2 DEF Stands, Where
  <2> QED
    BY <2>1, <2>2
<1> QED
  BY <1>4, <1>9, <1>10 DEF Stands

\* An application of the plan made of ws, before any of its steps has been skipped.
Begun(ws, job, tm, pane, window) ==
  LET P == job.plan.steps
  IN  /\ MadeFor(ws, P) /\ InRange(ws, pane, window)
      /\ job.at \in 0 .. Len(P) + 1 /\ job.skipped = {}
      /\ job.at = 0 => tm = ws
      /\ job.at > 0 => /\ job.panes = DOMAIN ws /\ WindowsOf(ws) \subseteq job.windows
                       /\ Stands(ws, P, job.at, tm, job.handles[Shell])

\* No group but the shells' has a window opened for it.
LEMMA OnlyShellsOpen ==
  ASSUME NEW ws \in Workspaces, Placed(ws), NEW k \in Groups(ws), Opens(ws, k)
  PROVE  k = Shell
<1> SUFFICES ASSUME k # Shell PROVE FALSE
  OBVIOUS
<1>1. k \in Keys(ws)
  BY DEF Groups
<1>2. PICK p \in Group(ws, k) : Aim(ws, k) = Window(ws[p].window)
  BY <1>1, AnchorStays
<1>3. Aim(ws, k).kind = "window" /\ Handle(k).kind = "handle"
  BY <1>2, StepForms
<1> QED
  BY <1>3 DEF Opens, Aim

\* A step that aims at the window of a group finds it.
LEMMA AimsAreMet ==
  ASSUME NEW ws, NEW job, NEW tm, NEW pane, NEW window, Begun(ws, job, tm, pane, window),
         job.at \in 1 .. Len(job.plan.steps), NEW step, step = job.plan.steps[job.at],
         step.op # "new-window", NEW k \in Groups(ws), step.to = Aim(ws, k)
  PROVE  /\ Resolve(job, step.to) = Goal(ws, job.handles[Shell], k)
         /\ Resolve(job, step.to) \in WindowsOf(tm) /\ Resolve(job, step.to) # NoWindow
         /\ k # Shell => Aim(ws, k) = Window(Resolve(job, step.to))
         /\ k = Shell => Resolve(job, step.to) \notin WindowsOf(ws)
<1> DEFINE P == job.plan.steps
           at == job.at
           h == job.handles[Shell]
<1>1. /\ MadeFor(ws, P) /\ at \in 1..Len(P) /\ at \in 1 .. Len(P) + 1
      /\ WindowsOf(ws) \subseteq job.windows /\ Stands(ws, P, at, tm, h)
      /\ P \in Seq(StepsFor(ws, Groups(ws))) /\ Ready(P)
  BY DEF Begun, MadeFor, PlanFor
<1>2. ASSUME k = Shell
      PROVE  Did(P, at, NewWindow(Shell)) /\ step.to.kind = "handle" /\ step.to.id = Shell
  <2>1. step.to = Handle(Shell)
    BY <1>2 DEF Aim
  <2>2. step.to.kind = "handle" /\ step.to.id = Shell
    BY <2>1, StepForms
  <2>3. at \in DOMAIN P
    BY <1>1
  <2> QED
    BY <1>1, <2>2, <2>3 DEF Ready, Did
<1> HIDE DEF P, at, h
<1>3. /\ Goal(ws, h, k) \in WindowsOf(tm) /\ Goal(ws, h, k) # NoWindow
      /\ k # Shell => /\ Aim(ws, k) = Window(Goal(ws, h, k))
                      /\ Goal(ws, h, k) \in WindowsOf(ws)
      /\ k = Shell => Goal(ws, h, k) \notin WindowsOf(ws)
  BY <1>1, <1>2, GoalIsThere
<1>4. Resolve(job, step.to) = Goal(ws, h, k)
  <2>1. CASE k = Shell
    BY <1>2, <2>1 DEF Resolve, Goal, h
  <2>2. CASE k # Shell
    <3>1. step.to.kind = "window" /\ step.to.id = Goal(ws, h, k)
      BY <1>3, <2>2, StepForms
    <3> QED
      BY <1>1, <1>3, <2>2, <3>1 DEF Resolve
  <2> QED
    BY <2>1, <2>2
<1> QED
  BY <1>3, <1>4 DEF h

\* What the next step is.
LEMMA NextStep ==
  ASSUME NEW ws, NEW job, NEW tm, NEW pane, NEW window, Begun(ws, job, tm, pane, window),
         job.at \in 1 .. Len(job.plan.steps), NEW step, step = job.plan.steps[job.at]
  PROVE  \/ step = NewWindow(Shell)
         \/ /\ step.op \in {"rename-window", "select-layout"}
            /\ \E k \in Groups(ws) : step.to = Aim(ws, k)
         \/ \E p \in Leavers(ws, Groups(ws)) : step = Move(ws, p)
<1> DEFINE P == job.plan.steps
<1>1. MadeFor(ws, P) /\ ws \in Workspaces /\ Placed(ws) /\ PlanFor(ws, Groups(ws), P)
  BY DEF Begun, MadeFor
<1>2. job.at \in DOMAIN P
  BY <1>1 DEF PlanFor
<1>3. \/ \E k \in Groups(ws) : step = NewWindow(k) /\ Opens(ws, k)
      \/ \E k \in Groups(ws) \ {Shell} : step = RenameWindow(Aim(ws, k))
      \/ \E k \in Groups(ws) : step = SelectLayout(Aim(ws, k)) /\ (k = Shell => Gathers(ws))
      \/ \E p \in Leavers(ws, Groups(ws)) : step = Move(ws, p)
  BY <1>1, <1>2, PlannedSteps
<1>4. CASE \E k \in Groups(ws) : step = NewWindow(k) /\ Opens(ws, k)
  BY <1>1, <1>4, OnlyShellsOpen
<1>5. CASE \E k \in Groups(ws) : step = RenameWindow(Aim(ws, k)) \/ step = SelectLayout(Aim(ws, k))
  BY <1>5, StepForms
<1> QED
  BY <1>3, <1>4, <1>5

\* No step is one to skip or one that tmux refuses.
LEMMA StepIsTaken ==
  ASSUME NEW ws, NEW job, NEW tm, NEW pane, NEW window, Begun(ws, job, tm, pane, window),
         job.at \in 1 .. Len(job.plan.steps), NEW step, step = job.plan.steps[job.at],
         Binds(step) => pane \in PaneIds /\ window \in WindowIds
  PROVE  Valid(job, step) /\ ~Refusable(tm, job, step, pane, window)
<1> DEFINE P == job.plan.steps
           at == job.at
           h == job.handles[Shell]
<1>1. /\ MadeFor(ws, P) /\ at \in 1..Len(P) /\ at \in 1 .. Len(P) + 1 /\ at \in DOMAIN P
      /\ job.panes = DOMAIN ws /\ Stands(ws, P, at, tm, h)
      /\ P \in Seq(StepsFor(ws, Groups(ws))) /\ Once(P)
  BY DEF Begun, MadeFor, PlanFor
<1>2. CASE step = NewWindow(Shell)
  <2>1. step.op = "new-window"
    BY <1>2, StepForms
  <2> QED
    BY <2>1 DEF Valid, Refusable, Possible, Binds
<1>3. CASE /\ step.op \in {"rename-window", "select-layout"}
           /\ \E k \in Groups(ws) : step.to = Aim(ws, k)
  <2>1. PICK k \in Groups(ws) : step.to = Aim(ws, k)
    BY <1>3
  <2>2. Resolve(job, step.to) \in WindowsOf(tm) /\ Resolve(job, step.to) # NoWindow
    BY <1>3, <2>1, AimsAreMet
  <2> QED
    BY <1>3, <2>2 DEF Valid, Refusable, Possible
<1>4. CASE \E p \in Leavers(ws, Groups(ws)) : step = Move(ws, p)
  <2>1. PICK p \in Leavers(ws, Groups(ws)) : step = Move(ws, p)
    BY <1>4
  <2> DEFINE k == ws[p].work
  <2>2. step.op = "move-pane" /\ step.pane = p /\ step.to = Aim(ws, k)
    BY <2>1, StepForms DEF Move
  <2>3. p \in DOMAIN ws /\ k \in Groups(ws) /\ Leaves(ws, p)
    BY DEF Leavers
  <2>4. /\ Resolve(job, step.to) \in WindowsOf(tm) /\ Resolve(job, step.to) # NoWindow
        /\ k # Shell => Aim(ws, k) = Window(Resolve(job, step.to))
        /\ k = Shell => Resolve(job, step.to) \notin WindowsOf(ws)
    BY <2>2, <2>3, AimsAreMet
  <2>5. ~Did(P, at, Move(ws, p))
    BY <1>1, <2>1, <2>2, NotYet
  <2>6. p \in DOMAIN tm /\ tm[p].window = ws[p].window
    BY <1>1, <2>3, <2>5 DEF Stands, Where
  <2>7. ws[p].window # Resolve(job, step.to)
    <3>1. CASE k = Shell
      <4>1. ws[p].window \in WindowsOf(ws)
        BY <1>1, <2>3 DEF MadeFor, Placed, WindowsOf
      <4> QED
        BY <2>4, <3>1, <4>1
    <3>2. CASE k # Shell
      BY <2>3, <2>4, <3>2 DEF Leaves, Aim
    <3> QED
      BY <3>1, <3>2
  <2> QED
    BY <1>1, <2>2, <2>3, <2>4, <2>6, <2>7 DEF Valid, Refusable, Possible, InWindow
<1> QED
  BY <1>2, <1>3, <1>4, NextStep

\* And once it is taken, the application stands one step further.
LEMMA StepStands ==
  ASSUME NEW ws, NEW job, NEW tm \in Workspaces, NEW pane \in Nat, NEW window \in Nat,
         Begun(ws, job, tm, pane, window), InRange(tm, pane, window), window > 0,
         job.at \in 1 .. Len(job.plan.steps), NEW step, step = job.plan.steps[job.at],
         NEW h, h = IF Binds(step) THEN window ELSE job.handles[Shell]
  PROVE  /\ Stands(ws, job.plan.steps, job.at + 1, Effect(tm, job, step, pane, window), h)
         /\ Binds(step) => step.handle = Shell
<1> DEFINE P == job.plan.steps
           at == job.at
           old == job.handles[Shell]
           to == Effect(tm, job, step, pane, window)
<1>1. /\ MadeFor(ws, P) /\ at \in 1..Len(P) /\ Stands(ws, P, at, tm, old)
      /\ InRange(ws, pane, window) /\ ws \in Workspaces
  BY DEF Begun, MadeFor
<1>2. CASE step = NewWindow(Shell)
  <2>1. step.op = "new-window" /\ step.handle = Shell /\ Binds(step)
    BY <1>2, StepForms DEF Binds
  <2>2. to = [p \in DOMAIN tm \cup {pane} |->
                IF p = pane THEN [window |-> window, work |-> Shell] ELSE tm[p]]
    BY <2>1 DEF Effect
  <2>3. pane \notin DOMAIN tm
    BY DEF InRange
  <2>4. window \notin WindowsOf(ws) \cup {NoWindow}
    BY <1>1 DEF InRange, WindowsOf, NoWindow
  <2>5. h = window /\ P[at] = NewWindow(Shell)
    BY <1>2, <2>1
  <2> HIDE DEF to
  <2> HIDE DEF P, at, old
  <2>6. Stands(ws, P, at + 1, to, window)
    <3>1. P[at] = NewWindow(Shell)
      BY <2>5
    <3> QED
      BY <1>1, <2>2, <2>3, <2>4, <3>1, StandsOpen
  <2> QED
    BY <2>1, <2>5, <2>6 DEF P, at, to
<1>3. CASE step.op \in {"rename-window", "select-layout"}
  <2>1. ~Binds(step) /\ to = tm /\ h = old
    BY <1>3 DEF Binds, Effect
  <2>2. P[at].op \notin {"new-window", "move-pane"}
    BY <1>3
  <2> HIDE DEF to, P, at, old
  <2>3. Stands(ws, P, at + 1, to, h)
    BY <1>1, <2>1, <2>2, StandsOn
  <2> QED
    BY <2>1, <2>3 DEF P, at, to
<1>4. CASE \E p \in Leavers(ws, Groups(ws)) : step = Move(ws, p)
  <2>1. PICK p \in Leavers(ws, Groups(ws)) : step = Move(ws, p)
    BY <1>4
  <2> DEFINE k == ws[p].work
  <2>2. step.op = "move-pane" /\ step.pane = p /\ step.to = Aim(ws, k)
    BY <2>1, StepForms DEF Move
  <2>3. p \in DOMAIN ws /\ k \in Groups(ws)
    BY DEF Leavers
  <2>4. Resolve(job, step.to) = Goal(ws, old, k)
    BY <2>2, <2>3, AimsAreMet
  <2>5. ~Binds(step) /\ to = Moved(tm, p, Goal(ws, old, k)) /\ h = old
    BY <2>2, <2>4 DEF Binds, Effect
  <2>6. P[at] = Move(ws, p)
    BY <2>1
  <2> HIDE DEF to, P, at, old
  <2>7. Stands(ws, P, at + 1, to, h)
    BY <1>1, <2>3, <2>5, <2>6, StandsMoved
  <2> QED
    BY <2>5, <2>7 DEF P, at, to
<1> QED
  BY <1>2, <1>3, <1>4, NextStep
----------------------------------------------------------------------------
(* The one application of the plan made of the workspace as it is.         *)

Underway ==
  still /\ Len(jobs) = 1 /\ jobs[1].plan.heuristic =>
    \E ws : Begun(ws, jobs[1], tmux, nextPane, nextWindow)

\* tmux has an id for each pane and window that a plan opens: the bounds on the ids
\* are the model's.
RoomLeft ==
  \A j \in DOMAIN jobs :
    AtStep(j) /\ Binds(Step(j)) => nextPane \in PaneIds /\ nextWindow \in WindowIds

LEMMA BegunOn ==
  ASSUME NEW ws, NEW job, NEW tm, NEW pane, NEW window, Begun(ws, job, tm, pane, window),
         NEW next, next.plan = job.plan, job.at \in 0 .. Len(job.plan.steps),
         next.at = job.at + 1, next.skipped = {}, next.panes = DOMAIN ws,
         WindowsOf(ws) \subseteq next.windows,
         NEW to, NEW up, NEW on, InRange(ws, up, on),
         Stands(ws, job.plan.steps, job.at + 1, to, next.handles[Shell])
  PROVE  Begun(ws, next, to, up, on)
<1>1. Len(job.plan.steps) \in Nat
  <2>1. job.plan.steps \in Seq(StepsFor(ws, Groups(ws)))
    BY DEF Begun, MadeFor, PlanFor
  <2> QED
    BY <2>1
<1>2. next.at \in 0 .. Len(next.plan.steps) + 1 /\ next.at # 0
  BY <1>1
<1> QED
  BY <1>2 DEF Begun

LEMMA FirstOfAll ==
  ASSUME NEW S, NEW q \in Seq(S), NEW e, Len(Append(q, e)) = 1
  PROVE  q = <<>> /\ Append(q, e)[1] = e
<1>1. Len(q) = 0
  OBVIOUS
<1>2. q = <<>>
  BY <1>1, EmptySeq
<1> QED
  BY <1>2

LEMMA OneOnly ==
  ASSUME NEW S, NEW q \in Seq(S), NEW T, NEW r \in Seq(T), Len(r) = 1, DOMAIN r = DOMAIN q,
         NEW j \in DOMAIN q
  PROVE  j = 1 /\ Len(q) = 1
<1>1. 1..Len(q) = 1..1 /\ Len(q) \in Nat /\ j \in 1..1
  OBVIOUS
<1>2. Len(q) \in 1..Len(q)
  BY <1>1
<1> QED
  BY <1>1, <1>2

\* A key applies the plan that was made of tmux as it is.
LEMMA ApplyBegins ==
  ASSUME TypeOK, Numbered, Fresh, ConfirmApply, still', Len(jobs') = 1, jobs'[1].plan.heuristic
  PROVE  Begun(tmux, jobs'[1], tmux', nextPane', nextWindow')
<1> DEFINE job == [plan |-> plan, at |-> 0, panes |-> {}, windows |-> {},
                   handles |-> [h \in Handles |-> NoWindow], skipped |-> {}]
<1>1. /\ jobs' = Append(jobs, job) /\ mode = "confirm" /\ still
      /\ UNCHANGED <<tmux, nextPane, nextWindow>>
  BY DEF ConfirmApply, world, tmuxVars
<1>2. job.plan = plan /\ job.at = 0 /\ job.skipped = {}
  OBVIOUS
<1> HIDE DEF job
<1>3. jobs = <<>> /\ jobs'[1] = job
  <2>1. PICK S : jobs \in Seq(S)
    BY DEF TypeOK
  <2>2. Len(Append(jobs, job)) = 1
    BY <1>1
  <2> QED
    BY <1>1, <2>1, <2>2, FirstOfAll
<1>4. plan.steps = HeuristicPlan(tmux)
  BY <1>1, <1>2, <1>3 DEF Fresh, MadeOf
<1>5. tmux \in Workspaces
  BY DEF TypeOK
<1>6. Placed(tmux)
  BY DEF Numbered, InRange, Placed, NoWindow
<1>7. MadeFor(tmux, plan.steps)
  BY <1>4, <1>5, <1>6, HeuristicIsPlan DEF MadeFor
<1>8. 0 \in 0 .. Len(plan.steps) + 1
  <2>1. plan.steps \in Seq(StepsFor(tmux, Groups(tmux)))
    BY <1>7 DEF MadeFor, PlanFor
  <2> QED
    BY <2>1
<1> QED
  BY <1>1, <1>2, <1>3, <1>7, <1>8 DEF Begun, Numbered

\* Before the first step nothing has been done.
LEMMA StandsFirst ==
  ASSUME NEW ws, NEW P, NEW h
  PROVE  Stands(ws, P, 1, ws, h)
<1>1. \A step : ~Did(P, 1, step)
  BY DEF Did
<1> QED
  BY <1>1 DEF Stands, Where

\* Each step that is taken takes the application one step further.
LEMMA JobGoesOn ==
  ASSUME TypeOK, Numbered, nextWindow > 0, RoomLeft, NEW j \in DOMAIN jobs, NEW ws,
         Begun(ws, jobs[j], tmux, nextPane, nextWindow),
         JobList(j) \/ JobInvalid(j) \/ JobApplied(j) \/ JobRefused(j)
  PROVE  Begun(ws, jobs'[j], tmux', nextPane', nextWindow')
<1> DEFINE P == jobs[j].plan.steps
<1>1. jobs[j] \in Job(jobs[j].plan) /\ tmux \in Workspaces /\ nextPane \in Nat /\ nextWindow \in Nat
  BY EachJob DEF TypeOK
<1>2. P \in Seq(StepsFor(ws, Groups(ws))) /\ Len(P) \in Nat /\ DOMAIN P = 1..Len(P)
  <2>1. P \in Seq(StepsFor(ws, Groups(ws)))
    BY DEF Begun, MadeFor, PlanFor
  <2> QED
    BY <2>1
<1>3. InRange(ws, nextPane, nextWindow) /\ jobs[j].skipped = {} /\ ws \in Workspaces
  BY DEF Begun, MadeFor
<1>4. CASE JobList(j)
  <2> DEFINE next == [[jobs[j] EXCEPT !.panes = DOMAIN tmux, !.windows = WindowsOf(tmux)]
                        EXCEPT !.at = @ + 1]
  <2>1. jobs' = [jobs EXCEPT ![j] = next] /\ jobs[j].at = 0
    BY <1>4 DEF JobList, Advance
  <2>2. UNCHANGED <<tmux, nextPane, nextWindow>> /\ tmux = ws
    BY <1>4, <2>1 DEF JobList, tmuxVars, Begun
  <2>3. /\ next.plan = jobs[j].plan /\ next.at = jobs[j].at + 1 /\ next.skipped = {}
        /\ next.panes = DOMAIN ws /\ next.windows = WindowsOf(ws)
        /\ next.handles = jobs[j].handles
    BY <1>1, <1>3, <2>2 DEF Job
  <2>4. Stands(ws, P, jobs[j].at + 1, tmux, next.handles[Shell])
    BY <2>1, <2>2, StandsFirst
  <2>5. jobs[j].at \in 0 .. Len(P)
    BY <1>2, <2>1
  <2> HIDE DEF next
  <2>6. jobs'[j] = next
    BY <2>1
  <2>7. Begun(ws, next, tmux, nextPane, nextWindow)
    BY <1>3, <2>3, <2>4, <2>5, BegunOn
  <2> QED
    BY <2>2, <2>6, <2>7
<1>5. CASE ~JobList(j)
  <2>1. AtStep(j)
    BY <1>5 DEF JobInvalid, JobApplied, JobRefused
  <2>2. jobs[j].at \in 1..Len(P) /\ jobs[j].at > 0 /\ jobs[j].at \in 0 .. Len(P)
    BY <1>2, <2>1 DEF AtStep
  <2>3. Binds(Step(j)) => nextPane \in PaneIds /\ nextWindow \in WindowIds
    BY <2>1 DEF RoomLeft
  <2>4. Valid(jobs[j], Step(j)) /\ ~Refusable(tmux, jobs[j], Step(j), nextPane, nextWindow)
    BY <2>2, <2>3, StepIsTaken DEF Step
  <2>5. JobApplied(j)
    BY <1>5, <2>4 DEF JobInvalid, JobRefused
  <2> DEFINE h == IF Binds(Step(j)) THEN nextWindow ELSE jobs[j].handles[Shell]
  <2>6. /\ Stands(ws, P, jobs[j].at + 1,
                  Effect(tmux, jobs[j], Step(j), nextPane, nextWindow), h)
        /\ Binds(Step(j)) => Step(j).handle = Shell
    BY <1>1, <2>2, StepStands DEF Step, Numbered
  <2>7. tmux' = Effect(tmux, jobs[j], Step(j), nextPane, nextWindow)
        /\ nextPane' \in {nextPane, nextPane + 1} /\ nextWindow' \in {nextWindow, nextWindow + 1}
    BY <2>5 DEF JobApplied, Affected
  <2>8. InRange(ws, nextPane', nextWindow')
    BY <1>1, <1>3, <2>7, RangeGrows
  <2>9. jobs[j].panes = DOMAIN ws /\ WindowsOf(ws) \subseteq jobs[j].windows
    BY <2>2 DEF Begun
  <2>10. PICK next : /\ jobs' = [jobs EXCEPT ![j] = next]
                     /\ next.plan = jobs[j].plan /\ next.at = jobs[j].at + 1
                     /\ next.skipped = {} /\ next.panes = DOMAIN ws
                     /\ WindowsOf(ws) \subseteq next.windows /\ next.handles[Shell] = h
    <3>1. CASE Binds(Step(j))
      <4> DEFINE job == [jobs[j] EXCEPT !.handles[Step(j).handle] = nextWindow,
                                        !.windows = @ \cup {nextWindow}]
                 next == [job EXCEPT !.at = @ + 1]
      <4>1. jobs' = [jobs EXCEPT ![j] = next]
        BY <2>5, <3>1 DEF JobApplied, Advance
      <4>2. Shell \in Handles
        BY DEF Handles, Works
      <4>3. /\ next.plan = jobs[j].plan /\ next.at = jobs[j].at + 1
            /\ next.skipped = jobs[j].skipped /\ next.panes = jobs[j].panes
            /\ next.windows = jobs[j].windows \cup {nextWindow}
            /\ next.handles = [jobs[j].handles EXCEPT ![Step(j).handle] = nextWindow]
        BY <1>1 DEF Job
      <4> HIDE DEF next
      <4>4. next.handles[Shell] = nextWindow
        BY <1>1, <2>6, <3>1, <4>2, <4>3 DEF Job
      <4> QED
        BY <1>3, <2>9, <3>1, <4>1, <4>3, <4>4
    <3>2. CASE ~Binds(Step(j))
      <4> DEFINE next == [jobs[j] EXCEPT !.at = @ + 1]
      <4>1. jobs' = [jobs EXCEPT ![j] = next]
        BY <2>5, <3>2 DEF JobApplied, Advance
      <4>2. /\ next.plan = jobs[j].plan /\ next.at = jobs[j].at + 1
            /\ next.skipped = jobs[j].skipped /\ next.panes = jobs[j].panes
            /\ next.windows = jobs[j].windows /\ next.handles = jobs[j].handles
        BY <1>1 DEF Job
      <4> HIDE DEF next
      <4> QED
        BY <1>3, <2>9, <3>2, <4>1, <4>2
    <3> QED
      BY <3>1, <3>2
  <2>11. jobs'[j] = next
    BY <2>10
  <2> HIDE DEF h
  <2>12. Begun(ws, next, tmux', nextPane', nextWindow')
    BY <2>2, <2>6, <2>7, <2>8, <2>10, BegunOn
  <2> QED
    BY <2>11, <2>12
<1> QED
  BY <1>4, <1>5

LEMMA StepUnderway ==
  TypeOK /\ Numbered /\ nextWindow > 0 /\ Fresh /\ RoomLeft /\ Underway /\ [Next]_vars
    => Underway'
<1> SUFFICES ASSUME TypeOK, Numbered, nextWindow > 0, Fresh, RoomLeft, Underway, [Next]_vars,
                    still', Len(jobs') = 1, jobs'[1].plan.heuristic
             PROVE  \E ws : Begun(ws, jobs'[1], tmux', nextPane', nextWindow')
  BY DEF Underway
<1>1. CASE UNCHANGED <<jobs, tmux, nextPane, nextWindow, still>>
  BY <1>1 DEF Underway
<1>2. CASE Publish
  BY <1>1, <1>2 DEF Publish, tmuxVars
<1>3. CASE PaneCloses \/ WorkChanges
  BY <1>3 DEF PaneCloses, WorkChanges, Changed
<1>4. CASE UserKey
  <2>1. CASE ConfirmApply
    BY <2>1, ApplyBegins
  <2>2. CASE ConfirmCancel \/ KeyQuit \/ KeyCancel \/ KeyReport \/ KeyEnter
    BY <1>1, <2>2 DEF ConfirmCancel, KeyQuit, KeyCancel, KeyReport, KeyEnter, world, tmuxVars
  <2> QED
    BY <1>4, <2>1, <2>2 DEF UserKey
<1>5. CASE SubmitStep
  <2>1. PICK s \in submits :
          \/ SubmitDropped(s) \/ ClassifiedAsk(s) \/ ClassifiedOrganize(s) \/ Planned(s)
          \/ BroadcastNothing(s) \/ BroadcastStart(s) \/ BroadcastNoProvider(s)
          \/ BroadcastAsk(s) \/ BroadcastEnd(s)
    BY <1>5 DEF SubmitStep
  <2>2. CASE ClassifiedOrganize(s)
    <3>1. jobs = <<>> /\ jobs' = jobs
      BY <2>2 DEF ClassifiedOrganize
    <3>2. Len(jobs') = 0
      BY <3>1
    <3> QED
      BY <3>2
  <2>3. CASE ~ClassifiedOrganize(s)
    BY <1>1, <2>1, <2>3
    DEF SubmitDropped, ClassifiedAsk, Planned, BroadcastNothing, BroadcastStart,
        BroadcastNoProvider, BroadcastAsk, BroadcastEnd, world, tmuxVars
  <2> QED
    BY <2>2, <2>3
<1>6. CASE ReportEnd
  BY <1>1, <1>6 DEF ReportEnd, world, tmuxVars
<1>7. CASE JobStep
  <2>1. PICK j \in DOMAIN jobs :
          \/ JobList(j) \/ JobListFails(j) \/ JobInvalid(j) \/ JobApplied(j)
          \/ JobRefused(j) \/ JobFails(j)
    BY <1>7 DEF JobStep
  <2>2. JobList(j) \/ JobInvalid(j) \/ JobApplied(j) \/ JobRefused(j)
    BY <2>1 DEF JobListFails, JobFails
  <2>3. still
    BY <2>2 DEF JobList, JobInvalid, JobApplied, JobRefused
  <2>4. DOMAIN jobs' = DOMAIN jobs /\ jobs'[j].plan = jobs[j].plan
    BY <2>1, JobsKeepPlans
  <2>5. j = 1 /\ Len(jobs) = 1
    <3>1. PICK S : jobs \in Seq(S)
      BY DEF TypeOK
    <3>2. TypeOK'
      BY TypeStep
    <3>3. PICK T : jobs' \in Seq(T)
      BY <3>2 DEF TypeOK
    <3> QED
      BY <2>4, <3>1, <3>3, OneOnly
  <2>6. PICK ws : Begun(ws, jobs[j], tmux, nextPane, nextWindow)
    BY <2>3, <2>4, <2>5 DEF Underway
  <2> QED
    BY <2>2, <2>5, <2>6, JobGoesOn
<1>8. CASE UNCHANGED vars
  BY <1>1, <1>8 DEF vars, world, tmuxVars
<1> QED
  BY <1>2, <1>3, <1>4, <1>5, <1>6, <1>7, <1>8 DEF Next
----------------------------------------------------------------------------
(* The plan at its end.                                                    *)

\* Every step of the plan P made of ws is done.
Finished(ws, P, tm, h) ==
  /\ MadeFor(ws, P) /\ tm \in Workspaces /\ Placed(tm)
  /\ Stands(ws, P, Len(P) + 1, tm, h)

\* A pane that leaves has been moved, and no other.
LEMMA LeaversMoved ==
  ASSUME NEW ws, NEW P, NEW tm, NEW h, Finished(ws, P, tm, h), NEW p \in DOMAIN ws,
         ws[p].work \in Groups(ws)
  PROVE  /\ Did(P, Len(P) + 1, Move(ws, p)) <=> Leaves(ws, p)
         /\ p \in DOMAIN tm /\ tm[p].work = ws[p].work
         /\ tm[p].window = IF Leaves(ws, p) THEN Goal(ws, h, ws[p].work) ELSE ws[p].window
<1>1. /\ MadeFor(ws, P) /\ Complete(ws, Groups(ws), P) /\ Stands(ws, P, Len(P) + 1, tm, h)
      /\ P \in Seq(StepsFor(ws, Groups(ws)))
  BY DEF Finished, MadeFor, PlanFor
<1>2. Len(P) \in Nat /\ DOMAIN P = 1..Len(P)
  BY <1>1
<1>3. ASSUME Leaves(ws, p)
      PROVE  Did(P, Len(P) + 1, Move(ws, p))
  <2>1. p \in Leavers(ws, Groups(ws))
    BY <1>3 DEF Leavers
  <2>2. PICK i \in DOMAIN P : P[i] = Move(ws, p)
    BY <1>1, <2>1 DEF Complete
  <2>3. i \in 1 .. Len(P) + 1 - 1
    BY <1>2
  <2> QED
    BY <2>2, <2>3 DEF Did
<1>4. ASSUME Did(P, Len(P) + 1, Move(ws, p))
      PROVE  Leaves(ws, p)
  <2>1. Len(P) + 1 \in 1 .. Len(P) + 1
    BY <1>2
  <2> QED
    BY <1>1, <1>4, <2>1, MovesLeave DEF Leavers
<1> QED
  BY <1>1, <1>3, <1>4 DEF Stands, Where

\* The panes of a project are in a window that one of them had.
LEMMA ProjectsGathered ==
  ASSUME NEW ws, NEW P, NEW tm, NEW h, Finished(ws, P, tm, h), NEW k \in Projects,
         NEW p \in Group(tm, k)
  PROVE  /\ tm[p].window = Goal(ws, h, k)
         /\ \E q \in Group(ws, k) : Goal(ws, h, k) = ws[q].window
<1>1. k # Shell /\ p \in DOMAIN tm /\ tm[p].work = k
  BY WorksAre DEF Group
<1>2. p \in DOMAIN ws /\ ws[p].work = k
  BY <1>1 DEF Finished, Stands
<1>3. k \in Keys(ws) /\ ws \in Workspaces /\ Placed(ws)
  BY <1>2 DEF Keys, Group, Finished, MadeFor
<1>4. PICK q \in Group(ws, k) : Aim(ws, k) = Window(ws[q].window)
  BY <1>3, AnchorStays
<1>5. Goal(ws, h, k) = ws[q].window
  BY <1>1, <1>4, StepForms DEF Goal
<1>6. tm[p].window = IF Leaves(ws, p) THEN Goal(ws, h, k) ELSE ws[p].window
  BY <1>2, <1>3, LeaversMoved DEF Groups
<1>7. ASSUME ~Leaves(ws, p)
      PROVE  ws[p].window = ws[q].window
  <2>1. Window(ws[p].window) = Window(ws[q].window)
    BY <1>1, <1>2, <1>4, <1>7 DEF Leaves, Aim
  <2> QED
    BY <2>1, StepForms
<1> QED
  BY <1>5, <1>6, <1>7

\* The shells are in a window of their own, or there are fewer than two.
LEMMA ShellsGathered ==
  ASSUME NEW ws, NEW P, NEW tm, NEW h, Finished(ws, P, tm, h)
  PROVE  AloneTogether(tm, Group(tm, Shell)) \/ ~(Cardinality(Group(tm, Shell)) >= 2)
<1>1. /\ MadeFor(ws, P) /\ Stands(ws, P, Len(P) + 1, tm, h) /\ Placed(ws) /\ Placed(tm)
      /\ ws \in Workspaces /\ tm \in Workspaces
      /\ P \in Seq(StepsFor(ws, Groups(ws))) /\ Ready(P) /\ PlanFor(ws, Groups(ws), P)
  BY DEF Finished, MadeFor, PlanFor
<1>2. Len(P) \in Nat /\ DOMAIN P = 1..Len(P) /\ 1 .. Len(P) + 1 - 1 = 1..Len(P)
  BY <1>1
<1>3. /\ DOMAIN ws \subseteq DOMAIN tm
      /\ \A p \in DOMAIN ws : tm[p].work = ws[p].work
      /\ \A p \in DOMAIN tm \ DOMAIN ws : tm[p].work = Shell /\ tm[p].window = h
  BY <1>1 DEF Stands
<1>4. \A p \in DOMAIN tm : tm[p].work \in Works /\ tm[p].window # NoWindow
  BY <1>1, WorkspaceType DEF Pane, Placed
<1>5. ASSUME NEW p \in DOMAIN tm, tm[p].work # Shell
      PROVE  \E q \in DOMAIN ws : ws[q].work # Shell /\ tm[p].window = ws[q].window
  <2>1. tm[p].work \in Projects /\ p \in Group(tm, tm[p].work)
    BY <1>4, <1>5 DEF Works, Group
  <2>2. PICK q \in Group(ws, tm[p].work) : tm[p].window = ws[q].window
    BY <2>1, ProjectsGathered
  <2> QED
    BY <1>5, <2>2 DEF Group
<1>6. ASSUME NEW p \in DOMAIN ws, ws[p].work = Shell
      PROVE  tm[p].window = IF Gathers(ws) THEN h ELSE ws[p].window
  BY <1>6, LeaversMoved DEF Groups, Leaves, Goal
<1>7. CASE Gathers(ws)
  <2>1. Group(ws, Shell) # {}
    BY <1>7, FS_EmptySet DEF Gathers
  <2>2. PICK p \in DOMAIN ws : ws[p].work = Shell
    BY <2>1 DEF Group
  <2>3. Did(P, Len(P) + 1, Move(ws, p))
    BY <1>7, <2>2, LeaversMoved DEF Groups, Leaves
  <2>4. PICK i \in DOMAIN P : P[i] = Move(ws, p)
    BY <1>2, <2>3 DEF Did
  <2>5. P[i].op = "move-pane" /\ P[i].to.kind = "handle" /\ P[i].to.id = Shell
    BY <2>2, <2>4, StepForms DEF Move, Aim
  <2>6. PICK j \in 1 .. i - 1 : P[j] = NewWindow(Shell)
    BY <1>1, <2>5 DEF Ready
  <2>7. Did(P, Len(P) + 1, NewWindow(Shell))
    <3>1. j \in 1 .. Len(P) + 1 - 1
      BY <1>2
    <3> QED
      BY <2>6, <3>1 DEF Did
  <2>8. h \notin WindowsOf(ws) /\ h # NoWindow
    BY <1>1, <2>7 DEF Stands
  <2>9. \A q \in DOMAIN tm : tm[q].work = Shell => tm[q].window = h
    BY <1>3, <1>6, <1>7
  <2>10. \A q \in DOMAIN ws : ws[q].window \in WindowsOf(ws)
    BY <1>1 DEF WindowsOf, Placed
  <2>11. Group(tm, Shell) = InWindow(tm, h)
    BY <1>5, <2>8, <2>9, <2>10 DEF Group, InWindow
  <2>12. h \in WindowsOf(tm)
    BY <1>3, <2>2, <2>8, <2>9 DEF WindowsOf
  <2> QED
    BY <2>11, <2>12 DEF AloneTogether
<1>8. CASE ~Gathers(ws)
  <2>1. ~Did(P, Len(P) + 1, NewWindow(Shell))
    <3> SUFFICES ASSUME NEW i \in DOMAIN P, P[i] = NewWindow(Shell) PROVE FALSE
      BY <1>2 DEF Did
    <3>1. P[i].op = "new-window"
      BY StepForms
    <3>2. PICK k \in Groups(ws) : P[i] = NewWindow(k) /\ Opens(ws, k)
      BY <1>1, <3>1, PlannedSteps, StepForms DEF Move
    <3>3. k = Shell
      BY <3>2, SameWindow
    <3> QED
      BY <1>8, <3>2, <3>3 DEF Opens
  <2>2. DOMAIN tm = DOMAIN ws
    BY <1>1, <1>3, <2>1 DEF Stands
  <2>3. Group(tm, Shell) = Group(ws, Shell)
    BY <1>3, <2>2 DEF Group
  <2>4. SUFFICES ASSUME Cardinality(Group(ws, Shell)) >= 2
                 PROVE  AloneTogether(tm, Group(tm, Shell))
    BY <2>3
  <2>5. PICK w \in WindowsOf(ws) : Group(ws, Shell) = InWindow(ws, w)
    BY <1>8, <2>4 DEF Gathers, AloneTogether
  <2>6. PICK p \in DOMAIN ws : ws[p].work = Shell
    <3>1. Group(ws, Shell) # {}
      BY <2>4, FS_EmptySet
    <3> QED
      BY <3>1 DEF Group
  <2>7. \A q \in DOMAIN ws : ws[q].work = Shell <=> ws[q].window = w
    BY <2>5 DEF Group, InWindow
  <2>8. \A q \in DOMAIN tm : tm[q].work = Shell => tm[q].window = w
    BY <1>3, <1>6, <1>8, <2>2, <2>7
  <2>9. \A q \in DOMAIN tm : tm[q].work # Shell => tm[q].window # w
    BY <1>5, <2>7
  <2>10. Group(tm, Shell) = InWindow(tm, w)
    BY <2>8, <2>9 DEF Group, InWindow
  <2>11. w \in WindowsOf(tm)
    BY <1>3, <1>4, <2>2, <2>6, <2>8 DEF WindowsOf
  <2> QED
    BY <2>10, <2>11 DEF AloneTogether
<1> QED
  BY <1>7, <1>8

LEMMA FewAreTogether ==
  ASSUME NEW S, IsFiniteSet(S), ~(Cardinality(S) >= 2), NEW p \in S, NEW q \in S
  PROVE  p = q
<1> SUFFICES ASSUME p # q PROVE FALSE
  OBVIOUS
<1>1. {p} \cup {q} \in SUBSET S
  OBVIOUS
<1>2. IsFiniteSet({p}) /\ Cardinality({p}) = 1
  BY FS_Singleton
<1>3. Cardinality({p} \cup {q}) = 2
  BY <1>2, FS_AddElement
<1>4. Cardinality({p} \cup {q}) <= Cardinality(S) /\ Cardinality(S) \in Nat
  BY <1>1, FS_Subset, FS_CardinalityType
<1> QED
  BY <1>3, <1>4

\* A workspace with its projects and shells together needs no pane moved.
LEMMA NothingLeaves ==
  ASSUME NEW tm \in Workspaces, Placed(tm),
         \A k \in Projects : \A p, q \in Group(tm, k) : tm[p].window = tm[q].window,
         AloneTogether(tm, Group(tm, Shell)) \/ ~(Cardinality(Group(tm, Shell)) >= 2)
  PROVE  \A i \in DOMAIN HeuristicPlan(tm) : HeuristicPlan(tm)[i].op # "move-pane"
<1> DEFINE P == HeuristicPlan(tm)
<1>1. PlanFor(tm, Groups(tm), P)
  BY HeuristicIsPlan
<1> HIDE DEF P
<1> SUFFICES ASSUME NEW i \in DOMAIN P, P[i].op = "move-pane" PROVE FALSE
  BY DEF P
<1>2. PICK p \in Leavers(tm, Groups(tm)) : P[i] = Move(tm, p)
  BY <1>1, PlannedSteps, StepForms
<1> DEFINE k == tm[p].work
<1>3. p \in DOMAIN tm /\ k \in Groups(tm) /\ Leaves(tm, p) /\ p \in Group(tm, k)
  BY DEF Leavers, Group
<1>4. CASE k = Shell
  BY <1>3, <1>4 DEF Leaves, Gathers
<1>5. CASE k # Shell
  <2>1. k \in Keys(tm) /\ k \in Projects
    BY <1>3, <1>5 DEF Groups, Keys
  <2>2. PICK q \in Group(tm, k) : Aim(tm, k) = Window(tm[q].window)
    BY <2>1, AnchorStays
  <2>3. tm[p].window = tm[q].window
    BY <1>3, <2>1
  <2> QED
    BY <1>3, <1>5, <2>2, <2>3 DEF Leaves, Aim
<1> QED
  BY <1>4, <1>5

LEMMA EndIsGrouped ==
  ASSUME NEW ws, NEW P, NEW h, Finished(ws, P, tmux, h)
  PROVE  Grouped
<1>1. tmux \in Workspaces /\ Placed(tmux)
  BY DEF Finished
<1>2. \A k \in Projects : \A p, q \in Group(tmux, k) : tmux[p].window = tmux[q].window
  BY ProjectsGathered
<1>3. AloneTogether(tmux, Group(tmux, Shell)) \/ ~(Cardinality(Group(tmux, Shell)) >= 2)
  BY ShellsGathered
<1>4. Together(Group(tmux, Shell))
  <2> SUFFICES ASSUME NEW p \in Group(tmux, Shell), NEW q \in Group(tmux, Shell)
               PROVE  tmux[p].window = tmux[q].window
    BY DEF Together
  <2>1. CASE AloneTogether(tmux, Group(tmux, Shell))
    BY <2>1 DEF AloneTogether, InWindow
  <2>2. CASE ~(Cardinality(Group(tmux, Shell)) >= 2)
    <3>1. IsFiniteSet(Group(tmux, Shell))
      BY <1>1, GroupIs
    <3>2. p = q
      BY <2>2, <3>1, FewAreTogether
    <3> QED
      BY <3>2
  <2> QED
    BY <1>3, <2>1, <2>2
<1>5. \A i \in DOMAIN HeuristicPlan(tmux) : HeuristicPlan(tmux)[i].op # "move-pane"
  BY <1>1, <1>2, <1>3, NothingLeaves
<1> QED
  BY <1>2, <1>4, <1>5 DEF Grouped, Together

LEMMA UnderwayWorks == TypeOK /\ Numbered /\ Underway => PlansWork
<1> SUFFICES ASSUME TypeOK, Numbered, Underway, still, Len(jobs) = 1, jobs[1].plan.heuristic
             PROVE  jobs[1].skipped = {} /\ (Ended(jobs[1]) => Grouped)
  BY DEF PlansWork, PlansFit, PlansSettle
<1> DEFINE P == jobs[1].plan.steps
<1>1. PICK ws : Begun(ws, jobs[1], tmux, nextPane, nextWindow)
  BY DEF Underway
<1>2. MadeFor(ws, P) /\ jobs[1].skipped = {} /\ jobs[1].at \in 0 .. Len(P) + 1
  BY <1>1 DEF Begun
<1>3. ASSUME Ended(jobs[1])
      PROVE  Grouped
  <2>1. Len(P) \in Nat
    <3>1. P \in Seq(StepsFor(ws, Groups(ws)))
      BY <1>2 DEF MadeFor, PlanFor
    <3> QED
      BY <3>1
  <2>2. jobs[1].at = Len(P) + 1 /\ jobs[1].at > 0
    BY <1>2, <1>3, <2>1 DEF Ended, Failed
  <2>3. Stands(ws, P, Len(P) + 1, tmux, jobs[1].handles[Shell])
    BY <1>1, <2>2 DEF Begun
  <2>4. Placed(tmux) /\ tmux \in Workspaces
    BY DEF Numbered, InRange, Placed, NoWindow, TypeOK
  <2>5. Finished(ws, P, tmux, jobs[1].handles[Shell])
    BY <1>2, <2>3, <2>4 DEF Finished
  <2> QED
    BY <2>5, EndIsGrouped
<1> QED
  BY <1>2, <1>3

\* As long as tmux has ids to give, the deterministic plan, applied once to the
\* workspace it was made of, skips no step, leaves every project in one window and the
\* idle shells together, and a plan made anew moves nothing: for every workspace,
\* whatever else the keys and the submits do meanwhile.
THEOREM PlansDoTheirWork == Spec /\ []RoomLeft => []PlansWork
<1> DEFINE IInv == Numbered /\ nextWindow > 0 /\ Generations /\ Fresh /\ Underway
<1>1. Init => IInv
  <2>1. Init => Generations /\ Fresh /\ Underway
    BY DEF Init, Generations, Fresh, Underway
  <2> QED
    BY <2>1, InitNumbers
<1>2. TypeOK /\ RoomLeft /\ IInv /\ [Next]_vars => IInv'
  BY StepNumbers, StepGenerations, StepFresh, StepUnderway
<1>3. TypeOK /\ IInv => PlansWork
  BY UnderwayWorks
<1> HIDE DEF IInv
<1> QED
  BY <1>1, <1>2, <1>3, TypeCorrect, PTL DEF Spec
=============================================================================
