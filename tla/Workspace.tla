----------------------------- MODULE Workspace -----------------------------
(***************************************************************************)
(* The daemon's tick: it reads the panes from tmux, brings sensors and the *)
(* workspace model in line with them, samples memory, and lets the         *)
(* guardian announce pressure: to the user, or by typing into the panes    *)
(* that resolve to an agent session.                                       *)
(*                                                                         *)
(* Ticks follow one another; within one, the code between two awaits on    *)
(* tmux or `ps` is one action, and panes, agents and memory change in      *)
(* between.  A pane is observed in one action: nothing else reads what its *)
(* awaits produce.  Memory is high or not, that is at the threshold or     *)
(* below; sizes, the culprit, a pane's state and its semantics (Semantic)  *)
(* are left out.  Time is what the ticks read, counted from the guardian's *)
(* last fire up to the cooldown; a machine that slept skips ahead.  Every  *)
(* pane has a directory of its own and there is one kind of agent, so the  *)
(* pairing of panes and sessions comes down to whether there is a session  *)
(* for the pane: one that `gmux run` linked, one named on the agent's      *)
(* command line, or the newest one in the directory.                       *)
(***************************************************************************)
EXTENDS Integers, Sequences

CONSTANTS
  Panes,
  Policies,    \* guardianPolicy
  Cooldown,    \* cooldownSeconds, in ticks
  LogSize,     \* of the guardian log; 50 in the code
  Faults,      \* what may fail: "tmux" (a list, a pipe, a send), "ps", "memory"
               \* (the probe answers 0), "crash"
  MaxCrashes   \* bound: restarts of the daemon

ASSUME PolicyAssumption == Policies \subseteq {"auto", "notify", "off"}
ASSUME BoundsAssumption ==
  /\ {Cooldown, LogSize} \subseteq Nat \ {0}
  /\ MaxCrashes \in Nat

VARIABLES
  \* the world
  open,      \* panes of the tmux server
  closed,    \* panes that were closed
  hosted,    \* open panes in which an agent was started; in the others only a shell ran
  indexed,   \* panes for which the session index has a record
  high,      \* memory is at the threshold or above
  pipes,     \* panes whose output tmux pipes into their log
  crashes,
  \* the daemon
  pc,        \* where the tick waits
  listed,    \* the panes tmux listed
  resolved,  \* those of them that resolve to a session
  todo,      \* panes the loop at pc has not come to
  known,     \* the registry's panes
  sensors,   \* kind of each pane's sensor, or "none"
  piping,    \* panes whose terminal sensor has started its pipe
  \* the workspace model
  entries, gone,
  linked,    \* entries whose identity has a harness and a session
  log,       \* the guardian log
  \* the guardian
  policy,
  fired,     \* firedAt is set
  age,       \* time since firedAt
  below,     \* belowSinceFire
  eased      \* history: memory was below the threshold at some time since the last fire

world == <<open, closed, hosted, indexed, high, pipes, crashes>>
registry == <<known, sensors, piping>>
model == <<entries, gone, linked, log>>
guardian == <<policy, fired, age, below>>
vars == <<world, pc, listed, resolved, todo, registry, model, guardian, eased>>

Kinds == {"none", "terminal", "agent"}
Places == {"idle", "resolve", "leave", "watch", "warn"}
Actions == {"broadcast", "notify", "log-only"}

Init ==
  /\ open = {} /\ hosted = {} /\ closed = {}
  /\ indexed \in SUBSET Panes
  /\ high \in BOOLEAN
  /\ pipes = {} /\ crashes = 0
  /\ pc = "idle" /\ listed = {} /\ resolved = {} /\ todo = {}
  /\ known = {} /\ sensors = [p \in Panes |-> "none"] /\ piping = {}
  /\ entries = {} /\ gone = {} /\ linked = {} /\ log = <<>>
  /\ policy \in Policies
  /\ fired = FALSE /\ age = 0 /\ below = FALSE
  /\ eased = ~high

----------------------------------------------------------------------------
(* The world.                                                              *)

worldOnly == <<crashes, pc, listed, resolved, todo, registry, model, guardian>>

\* tmux numbers panes upwards: no id comes back.
OpenPane(p) ==
  /\ p \notin open \union closed
  /\ open' = open \union {p}
  /\ UNCHANGED <<closed, hosted, indexed, high, pipes, worldOnly, eased>>

ClosePane(p) ==
  /\ p \in open
  /\ open' = open \ {p} /\ closed' = closed \union {p}
  /\ hosted' = hosted \ {p} /\ pipes' = pipes \ {p}
  /\ UNCHANGED <<indexed, high, worldOnly, eased>>

\* Its end is not modelled: what resolves a pane outlives the agent.
StartAgent(p) ==
  /\ p \in open \ hosted
  /\ hosted' = hosted \union {p}
  /\ UNCHANGED <<open, closed, indexed, high, pipes, worldOnly, eased>>

\* The agent has written a transcript and the index found it.
IndexSession(p) ==
  /\ p \in hosted \ indexed
  /\ indexed' = indexed \union {p}
  /\ UNCHANGED <<open, closed, hosted, high, pipes, worldOnly, eased>>

MemoryMoves ==
  /\ high' = ~high
  /\ eased' = (eased \/ ~high')
  /\ UNCHANGED <<open, closed, hosted, indexed, pipes, worldOnly>>

Environment ==
  \/ \E p \in Panes : OpenPane(p) \/ ClosePane(p) \/ StartAgent(p) \/ IndexSession(p)
  \/ MemoryMoves

----------------------------------------------------------------------------
(* A tick.                                                                 *)

\* tickOnce reads the clock.
Clock == age' \in IF fired /\ age < Cooldown THEN age + 1 .. Cooldown ELSE {age}

\* tmux lists the panes.
List ==
  /\ pc = "idle" /\ pc' = "resolve"
  /\ Clock
  /\ listed' = open
  /\ UNCHANGED <<world, resolved, todo, registry, model, policy, fired, below, eased>>

\* list-panes fails: this tick does nothing.
ListFails ==
  /\ "tmux" \in Faults /\ pc = "idle"
  /\ Clock
  /\ UNCHANGED <<world, pc, listed, resolved, todo, registry, model, policy, fired,
                 below, eased>>

\* Panes that get a session, whether an agent runs in them or not: without an
\* agent's process the newest session of the directory will do.
Resolvable == listed \intersect indexed

\* The rest of diff.
Resolve ==
  /\ pc = "resolve" /\ pc' = "leave"
  /\ resolved' = Resolvable
  /\ known' = listed
  /\ todo' = known \ listed
  /\ UNCHANGED <<world, listed, sensors, piping, model, guardian, eased>>

\* A pane that vanished: its sensor is torn down and its entry marked.
Leave(p) ==
  /\ pc = "leave" /\ p \in todo
  /\ todo' = todo \ {p}
  /\ sensors' = [sensors EXCEPT ![p] = "none"] /\ piping' = piping \ {p}
  /\ gone' = gone \union ({p} \intersect entries)
  /\ UNCHANGED <<world, pc, listed, resolved, known, entries, linked, log, guardian,
                 eased>>

StartWatching ==
  /\ pc = "leave" /\ todo = {}
  /\ pc' = "watch" /\ todo' = listed
  /\ UNCHANGED <<world, listed, resolved, registry, model, guardian, eased>>

\* `pipe-pane -o` of a command: a pipe that exists is closed, and a new one is
\* opened only where there was none.
PipePane(p) == IF p \in pipes THEN pipes \ {p} ELSE pipes \union {p}

\* The sensor a pane gets when it is first seen, and keeps.
SensorOf(p) ==
  IF sensors[p] # "none" THEN sensors[p]
  ELSE IF p \in resolved THEN "agent" ELSE "terminal"

\* observe of a terminal sensor: the pipe is started once, whether that worked
\* or not.
StartPipe(p) ==
  IF SensorOf(p) # "terminal" \/ p \in piping THEN UNCHANGED <<piping, pipes>>
  ELSE /\ piping' = piping \union {p}
       /\ \/ p \in open /\ pipes' = PipePane(p)
          \/ (p \notin open \/ "tmux" \in Faults) /\ UNCHANGED pipes

\* A pane that is there: its entry, its sensor, an observation.  The state that
\* is applied is left out, and with it whether the observation failed.
Watch(p) ==
  /\ pc = "watch" /\ p \in todo
  /\ todo' = todo \ {p}
  /\ entries' = entries \union {p} /\ gone' = gone \ {p}
  /\ linked' = (linked \ {p}) \union ({p} \intersect resolved)
  /\ sensors' = [sensors EXCEPT ![p] = SensorOf(p)]
  /\ StartPipe(p)
  /\ UNCHANGED <<open, closed, hosted, indexed, high, crashes, pc, listed, resolved,
                 known, log, guardian, eased>>

\* evictGone ends the tick, and the loop waits for the next one.
Evict ==
  /\ entries' = entries \ gone /\ linked' = linked \ gone /\ gone' = {}
  /\ pc' = "idle"
  /\ listed' = {} /\ resolved' = {} /\ todo' = {}

\* The error leaves tickOnce, and the loop catches it.
MutMeasureFails ==
  /\ "ps" \in Faults /\ pc = "watch" /\ todo = {}
  /\ pc' = "idle" /\ listed' = {} /\ resolved' = {}
  /\ UNCHANGED <<world, todo, registry, model, guardian, eased>>

\* `ps` fails: no pressure, no guardian.
MeasureFails ==
  /\ "ps" \in Faults /\ pc = "watch" /\ todo = {}
  /\ Evict
  /\ UNCHANGED <<world, registry, log, guardian, eased>>

----------------------------------------------------------------------------
(* The guardian.                                                           *)

\* logGuardian.
Logged(action) ==
  log' = LET longer == Append(log, action)
         IN  IF Len(longer) > LogSize THEN Tail(longer) ELSE longer

\* Only a drop allows the next fire.
MutMayFire == ~fired \/ below

MayFire == ~fired \/ below \/ age = Cooldown

\* The drop is not forgotten.
MutFire == fired' = TRUE /\ age' = 0 /\ eased' = FALSE /\ UNCHANGED <<policy, below>>

Fire ==
  /\ fired' = TRUE /\ age' = 0 /\ below' = FALSE
  /\ eased' = FALSE
  /\ UNCHANGED policy

Quiet == UNCHANGED <<policy, fired, age, eased>>

\* The agents of the snapshot.
Agents == linked \ gone

Stay(over) ==
  /\ ~over \/ ~MayFire
  /\ below' = (below \/ (fired /\ ~over))
  /\ Evict
  /\ Quiet /\ UNCHANGED log

\* Nobody may be told, or nobody is there.
LogOnly ==
  /\ MayFire
  /\ policy = "off" \/ (policy = "auto" /\ Agents = {})
  /\ Logged("log-only")
  /\ Evict
  /\ Quiet /\ UNCHANGED below

Notify ==
  /\ MayFire /\ policy = "notify"
  /\ Fire
  /\ Logged("notify")
  /\ Evict

Broadcast ==
  /\ MayFire /\ policy = "auto" /\ Agents # {}
  /\ Fire
  /\ pc' = "warn" /\ todo' = resolved
  /\ UNCHANGED <<listed, resolved, model>>

\* The sample is applied and the guardian decides.  A memory probe that fails
\* answers 0.
Measure ==
  /\ pc = "watch" /\ todo = {}
  /\ \E over \in {high} \union {FALSE : f \in Faults \intersect {"memory"}} :
       \/ Stay(over)
       \/ over /\ (LogOnly \/ Notify \/ Broadcast)
  /\ UNCHANGED <<world, registry>>

\* The message is typed into a pane; if that fails the next one follows.
Warn(p) ==
  /\ pc = "warn" /\ p \in todo
  /\ todo' = todo \ {p}
  /\ UNCHANGED <<world, pc, listed, resolved, registry, model, guardian, eased>>

LogWarning ==
  /\ pc = "warn" /\ todo = {}
  /\ Logged("broadcast")
  /\ Evict
  /\ UNCHANGED <<world, registry, guardian, eased>>

----------------------------------------------------------------------------

\* The daemon ends, at any point, and is started again.
Crash ==
  /\ "crash" \in Faults /\ crashes < MaxCrashes
  /\ crashes' = crashes + 1
  /\ pc' = "idle" /\ listed' = {} /\ resolved' = {} /\ todo' = {}
  /\ known' = {} /\ sensors' = [p \in Panes |-> "none"] /\ piping' = {}
  /\ entries' = {} /\ gone' = {} /\ linked' = {} /\ log' = <<>>
  /\ fired' = FALSE /\ age' = 0 /\ below' = FALSE
  /\ eased' = ~high
  /\ UNCHANGED <<open, closed, hosted, indexed, high, pipes, policy>>

LeaveSome == \E p \in Panes : Leave(p)
WatchSome == \E p \in Panes : Watch(p)
WarnSome == \E p \in Panes : Warn(p)

Next ==
  \/ Environment
  \/ List \/ ListFails \/ Resolve
  \/ LeaveSome \/ StartWatching \/ WatchSome
  \/ MeasureFails \/ Measure
  \/ WarnSome \/ LogWarning
  \/ Crash

Spec == Init /\ [][Next]_vars

\* A tick goes on, and tmux and `ps` do not fail for ever.
FairSpec ==
  /\ Spec
  /\ SF_vars(List) /\ SF_vars(Measure)
  /\ WF_vars(Resolve) /\ WF_vars(LeaveSome) /\ WF_vars(StartWatching)
  /\ WF_vars(WatchSome) /\ WF_vars(WarnSome) /\ WF_vars(LogWarning)

----------------------------------------------------------------------------
(* Properties.                                                             *)

TypeOK ==
  /\ open \subseteq Panes /\ closed \subseteq Panes /\ hosted \subseteq Panes
  /\ indexed \subseteq Panes /\ pipes \subseteq Panes
  /\ listed \subseteq Panes /\ resolved \subseteq Panes /\ todo \subseteq Panes
  /\ known \subseteq Panes /\ piping \subseteq Panes
  /\ entries \subseteq Panes /\ gone \subseteq Panes /\ linked \subseteq Panes
  /\ high \in BOOLEAN /\ crashes \in 0 .. MaxCrashes
  /\ pc \in Places
  /\ sensors \in [Panes -> Kinds]
  /\ log \in Seq(Actions) /\ Len(log) <= LogSize
  /\ policy \in Policies
  /\ fired \in BOOLEAN /\ age \in 0 .. Cooldown /\ below \in BOOLEAN
  /\ eased \in BOOLEAN

\* Between ticks, whatever failed in them, the model has an entry for the panes
\* of the last list, each of these has a sensor, and nothing else is left
\* (daemon.ts: "A single sensor failure must never abort the whole tick").
ModelFollowsTmux ==
  pc = "idle" =>
    /\ entries = known /\ gone = {} /\ linked \subseteq entries
    /\ {p \in Panes : sensors[p] # "none"} = known
    /\ piping \subseteq known

\* The guardian announces pressure the first time, after memory really was
\* below the threshold, or after the cooldown (guardian.ts: "Stay quiet unless
\* pressure dropped and re-crossed since the last fire (hysteresis), or the
\* cooldown window has fully elapsed").
AnnouncementsAreSpaced ==
  [][fired' /\ age' = 0 /\ (age # 0 \/ ~fired) => ~fired \/ eased \/ age = Cooldown]_vars

\* The message goes round all panes it is meant for, though some of them are
\* gone, and the round is in the log (tickOnce, logGuardian).
RoundsAreFinished ==
  [][pc = "warn" /\ pc' = "idle" /\ crashes' = crashes =>
       todo = {} /\ log'[Len(log')] = "broadcast"]_vars

\* The message is typed into panes in which an agent has been started
\* (docs/gmux.md: "Only broadcasts to known agent panes" and never to arbitrary
\* shells).
OnlyAgentPanesAreTyped ==
  [][pc = "warn" /\ pc' = "warn" => todo \ todo' \subseteq hosted \union closed]_vars

\* Memory that stays high is announced again and again, once per cooldown, as long
\* as there is somebody to tell. This is what guardian.ts does and says ("or the
\* cooldown window has fully elapsed"); docs/gmux.md:69 says the contrary, that the
\* guardian "won't re-fire until pressure drops and re-crosses", and so does
\* 2026-08-11-gmux-design.md:205 ("still high - no re-fire"), whose next line has
\* the cooldown end the silence all the same.
PressureIsAnnounced ==
  \A p \in Panes :
    <>[](high /\ p \in open \intersect indexed /\ policy # "off") => []<>(fired /\ age = 0)

\* A pane that was closed leaves the model and loses its sensor, whatever fails
\* (diff, markGone, evictGone).
ClosedPanesLeave == \A p \in Panes : p \in closed ~> p \notin entries /\ sensors[p] = "none"

\* The daemon gets there: memory that stays high is announced, after every cooldown
\* anew (the code's word, not that of the docs: see above), and a pane that was
\* closed is let go, whatever fails on the way (tickOnce, runDaemonLoop).
DaemonMakesProgress == PressureIsAnnounced /\ ClosedPanesLeave
=============================================================================
