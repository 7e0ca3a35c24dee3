----------------------------- MODULE Background -----------------------------
(***************************************************************************)
(* What runs behind the panes: `gmux daemon`, which owns a lock file, a    *)
(* socket and the snapshot file, the older `gmux watch` worker, which owns *)
(* a pid file, and the commands that start, stop and toggle them.          *)
(*                                                                         *)
(* Every one of these is a process; the files are read and written with    *)
(* nothing held in between, so one action is the code between two awaits.  *)
(* The daemon publishes each version of its model to the snapshot file and *)
(* then to the clients of its socket.                                      *)
(*                                                                         *)
(* Left out: what the daemon senses (Workspace), what a tick of the        *)
(* watcher paints and summarizes (Panes, AutoSummarize), the text of a     *)
(* label, and pids that are used again.                                    *)
(***************************************************************************)
EXTENDS Naturals, Sequences, FiniteSets

CONSTANTS
  Daemons, Watchers,  \* processes, each of which runs once
  Users,              \* terminals that give commands
  Clients,            \* of the daemon's socket
  Nobody,             \* no process
  Starts              \* bounds: how many commands, model changes and joins a run
                      \* has, and whether it is calm

ASSUME ProcessesAssumption ==
  Nobody \notin Daemons \cup Watchers /\ Daemons \cap Watchers = {}
ASSUME StartsAssumption ==
  Starts \subseteq [calm : BOOLEAN, commands : Nat, changes : Nat, joins : Nat]

VARIABLES
  left,        \* what is left of the bounds
  lock,        \* daemon.lock: the pid, and whether it is older than 10 minutes
  daemon,      \* where a daemon is, and whether it was told to stop
  path,        \* gmux.sock: the daemon that bound it
  model,       \* version of a daemon's model
  queue,       \* its broadcasts: version, and whether the file has it
  file,        \* the snapshot file, and whether a write of it failed since
  client,      \* who a client is connected to, the last line it got, and if it has
               \* only the line it was greeted with
  record,      \* watch.pid
  watcher, command,
  border,      \* tmux's pane-border-status
  bare         \* history: tmux refused to show it to the last `gmux watch`

server == <<path, model, queue, file, client>>
watch  == <<record, watcher>>
vars   == <<left, lock, daemon, server, watch, command, border, bare>>

Off      == [to |-> Nobody, last |-> 0, greeted |-> FALSE]
NoCmd    == [at |-> "none", pid |-> Nobody, toggle |-> FALSE]
NoLock   == [pid |-> Nobody, old |-> FALSE]
Alive(p) == \/ p \in Daemons /\ daemon[p].at \notin {"unborn", "dead"}
            \/ p \in Watchers /\ watcher[p] \notin {"unborn", "dead"}
Running  == {d \in Daemons : daemon[d].at = "running"}

Init ==
  /\ left \in Starts
  /\ lock = NoLock /\ daemon = [d \in Daemons |-> [at |-> "unborn", told |-> FALSE]]
  /\ path = Nobody /\ model = [d \in Daemons |-> 0] /\ queue = [d \in Daemons |-> <<>>]
  /\ file = [by |-> Nobody, version |-> 0, lost |-> FALSE]
  /\ client = [c \in Clients |-> Off]
  /\ record = Nobody /\ watcher = [w \in Watchers |-> "unborn"]
  /\ command = [u \in Users |-> NoCmd] /\ border = "off" /\ bare = FALSE

\* isDaemonLockStale: what `daemon status` says.
Status == CASE lock.pid = Nobody -> "stopped"
            [] lock.pid # Nobody /\ (lock.old \/ ~Alive(lock.pid)) -> "stale"
            [] OTHER -> "running"

LockLive == Status = "running"

\* Nothing in this module refreshes the lock of a daemon that lives on.
LockAges ==
  /\ ~left.calm /\ lock # NoLock /\ ~lock.old /\ lock' = [lock EXCEPT !.old = TRUE]
  /\ UNCHANGED <<left, daemon, server, watch, command, border, bare>>

(***************************************************************************)
(* gmux daemon run.                                                        *)
(***************************************************************************)
At(d, s) == daemon[d].at = s
Go(d, s) == daemon' = [daemon EXCEPT ![d].at = s]

\* In a calm run one command is given at a time, and is over before the next.
Rests(d) == daemon[d].at \in {"unborn", "running", "dead"} /\ ~daemon[d].told
Settled  == (\A u \in Users : command[u] = NoCmd) /\ \A d \in Daemons : Rests(d)

Give == /\ left.commands > 0 /\ left' = [left EXCEPT !.commands = @ - 1]
        /\ left.calm => Settled

DaemonRun(d) ==
  /\ At(d, "unborn") /\ Give /\ Go(d, "reading")
  /\ UNCHANGED <<lock, server, watch, command, border, bare>>

\* One that is refused falls through into the finally.
MutDaemonReadLock(d) ==
  /\ At(d, "reading") /\ Go(d, IF LockLive THEN "closing" ELSE "writing")
  /\ UNCHANGED <<left, lock, server, watch, command, border, bare>>

\* acquireDaemonLock, in two steps; the daemon that is refused leaves all as it is.
DaemonReadLock(d) ==
  /\ At(d, "reading") /\ Go(d, IF LockLive THEN "dead" ELSE "writing")
  /\ UNCHANGED <<left, lock, server, watch, command, border, bare>>

DaemonWriteLock(d) ==
  /\ At(d, "writing") /\ Go(d, "assembling") /\ lock' = [pid |-> d, old |-> FALSE]
  /\ UNCHANGED <<left, server, watch, command, border, bare>>

\* ModelServer.start: whatever is at the path is removed, by whoever bound it.
ServerClear(d) ==
  /\ At(d, "assembling") /\ Go(d, "binding") /\ path' = Nobody
  /\ UNCHANGED <<left, lock, model, queue, file, client, watch, command, border, bare>>

\* listen() fails where another daemon has bound the path meanwhile.
ServerListen(d) ==
  /\ At(d, "binding")
  /\ \/ path = Nobody /\ path' = d /\ Go(d, "listening")
     \/ path # Nobody /\ path' = path /\ Go(d, "closing")
  /\ UNCHANGED <<left, lock, model, queue, file, client, watch, command, border, bare>>

\* enableBorder, where tmux does all it asks for; it throws where a call fails.
Shows == border' = "top" /\ bare' = FALSE

FirstWrite(d) == \/ file' = [by |-> d, version |-> model[d], lost |-> FALSE]
                 \/ file' = [file EXCEPT !.lost = TRUE]

\* The first write of the file, the signal handlers, enableBorder.
DaemonUp(d) ==
  /\ At(d, "listening") /\ Go(d, "running") /\ FirstWrite(d) /\ Shows
  /\ UNCHANGED <<left, lock, path, model, queue, client, watch, command>>

\* A throw before the loop: the configuration, the provider, mkdir, or tmux in
\* enableBorder, when the file is written.
DaemonFails(d) ==
  /\ daemon[d].at \in {"assembling", "binding", "listening"} /\ Go(d, "closing")
  /\ \/ file' = file
     \/ At(d, "listening") /\ FirstWrite(d)
  /\ UNCHANGED <<left, lock, path, model, queue, client, watch, command, border, bare>>

\* The loop sees the abort.
DaemonLeaves(d) ==
  /\ At(d, "running") /\ daemon[d].told /\ Go(d, "closing")
  /\ UNCHANGED <<left, lock, server, watch, command, border, bare>>

\* ModelServer.stop: the clients are cut off, the path is removed.
ServerStop(d) ==
  /\ At(d, "closing") /\ Go(d, "releasing") /\ path' = Nobody
  /\ client' = [c \in Clients |-> IF client[c].to = d THEN Off ELSE client[c]]
  /\ UNCHANGED <<left, lock, model, queue, file, watch, command, border, bare>>

\* releaseDaemonLock, whosever it is.
DaemonRelease(d) ==
  /\ At(d, "releasing") /\ Go(d, "exiting") /\ lock' = NoLock
  /\ UNCHANGED <<left, server, watch, command, border, bare>>

\* The process is there until its writes are done.
DaemonExits(d) ==
  /\ At(d, "exiting") /\ queue[d] = <<>>
  /\ daemon' = [daemon EXCEPT ![d] = [at |-> "dead", told |-> FALSE]]
  /\ UNCHANGED <<left, lock, server, watch, command, border, bare>>

\* Without its handlers a signal ends the process where it is.
Die(d) == /\ daemon' = [daemon EXCEPT ![d] = [at |-> "dead", told |-> FALSE]]
          /\ queue' = [queue EXCEPT ![d] = <<>>]
          /\ client' = [c \in Clients |-> IF client[c].to = d THEN Off ELSE client[c]]

Signal(d) ==
  IF At(d, "running")
  THEN daemon' = [daemon EXCEPT ![d].told = TRUE] /\ UNCHANGED <<queue, client>>
  ELSE Die(d)

Interrupt(d) ==
  /\ Alive(d) /\ Signal(d)
  /\ left.calm => (\A u \in Users : command[u] = NoCmd) /\ \A e \in Daemons \ {d} : Rests(e)
  /\ UNCHANGED <<left, lock, path, model, file, watch, command, border, bare>>

Crash(d) ==
  /\ Alive(d) /\ Die(d)
  /\ UNCHANGED <<left, lock, path, model, file, watch, command, border, bare>>

(***************************************************************************)
(* The model and its readers.                                              *)
(***************************************************************************)
Serving(d) == daemon[d].at \in {"running", "closing", "releasing", "exiting"}

\* bump: the line of a broadcast is made at once and its file is queued.
Change(d) ==
  /\ At(d, "running") /\ left.changes > 0 /\ left' = [left EXCEPT !.changes = @ - 1]
  /\ model' = [model EXCEPT ![d] = @ + 1]
  /\ queue' = [queue EXCEPT ![d] = Append(@, [version |-> model[d] + 1, filed |-> FALSE])]
  /\ UNCHANGED <<lock, daemon, path, file, client, watch, command, border, bare>>

\* The writes do not wait for each other.
MutFileWrite(d) ==
  /\ Serving(d)
  /\ \E i \in DOMAIN queue[d] :
       /\ ~queue[d][i].filed
       /\ queue' = [queue EXCEPT ![d] =
            <<[queue[d][i] EXCEPT !.filed = TRUE]>> \o
            SelectSeq(queue[d], LAMBDA b : b # queue[d][i])]
       /\ file' = [by |-> d, version |-> queue[d][i].version, lost |-> FALSE]
  /\ UNCHANGED <<left, lock, daemon, path, model, client, watch, command, border, bare>>

\* writeSnapshot: one at a time; one that fails is forgotten.
FileWrite(d) ==
  /\ Serving(d) /\ queue[d] # <<>> /\ ~Head(queue[d]).filed
  /\ queue' = [queue EXCEPT ![d][1].filed = TRUE]
  /\ \/ file' = [by |-> d, version |-> Head(queue[d]).version, lost |-> FALSE]
     \/ file' = [file EXCEPT !.lost = TRUE]
  /\ UNCHANGED <<left, lock, daemon, path, model, client, watch, command, border, bare>>

\* Only the clients the file was written for.
MutSend(d) ==
  /\ Serving(d) /\ queue[d] # <<>> /\ Head(queue[d]).filed
  /\ queue' = [queue EXCEPT ![d] = Tail(@)]
  /\ client' = IF file.lost THEN client
               ELSE [c \in Clients |-> IF client[c].to # d THEN client[c]
                     ELSE [to |-> d, last |-> Head(queue[d]).version, greeted |-> FALSE]]
  /\ UNCHANGED <<left, lock, daemon, path, model, file, watch, command, border, bare>>

\* The line goes to whoever is connected by then.
Send(d) ==
  /\ Serving(d) /\ queue[d] # <<>> /\ Head(queue[d]).filed
  /\ queue' = [queue EXCEPT ![d] = Tail(@)]
  /\ client' = [c \in Clients |-> IF client[c].to # d THEN client[c]
                  ELSE [to |-> d, last |-> Head(queue[d]).version, greeted |-> FALSE]]
  /\ UNCHANGED <<left, lock, daemon, path, model, file, watch, command, border, bare>>

\* subscribe: the first line is the model as it is.
Join(c) ==
  /\ client[c] = Off /\ left.joins > 0 /\ left' = [left EXCEPT !.joins = @ - 1]
  /\ path \in Daemons /\ daemon[path].at \in {"listening", "running"}
  /\ client' = [client EXCEPT ![c] = [to |-> path, last |-> model[path], greeted |-> TRUE]]
  /\ UNCHANGED <<lock, daemon, path, model, queue, file, watch, command, border, bare>>

Leave(c) ==
  /\ client[c] # Off /\ client' = [client EXCEPT ![c] = Off]
  /\ UNCHANGED <<left, lock, daemon, path, model, queue, file, watch, command, border, bare>>

(***************************************************************************)
(* Commands: daemon stop, watch, watch --stop, and the toggle on Alt-g.    *)
(***************************************************************************)
On(u, s) == command[u].at = s
Then(u, s) == command' = [command EXCEPT ![u].at = s]
Ends(u) == command' = [command EXCEPT ![u] = NoCmd]

Enter(u) ==
  /\ command[u] = NoCmd /\ Give
  /\ \E s \in {"stopDaemon", "watch", "watchStop", "toggle"} : Then(u, s)
  /\ UNCHANGED <<lock, daemon, server, watch, border, bare>>

StopReads(u) ==
  /\ On(u, "stopDaemon")
  /\ IF LockLive THEN command' = [command EXCEPT ![u].at = "kill", ![u].pid = lock.pid]
     ELSE Ends(u)
  /\ UNCHANGED <<left, lock, daemon, server, watch, border, bare>>

StopKills(u) ==
  /\ On(u, "kill") /\ Ends(u)
  /\ IF Alive(command[u].pid) THEN Signal(command[u].pid) ELSE UNCHANGED <<daemon, queue, client>>
  /\ UNCHANGED <<left, lock, path, model, file, watch, border, bare>>

\* toggleWatch: off where a watcher runs.
ToggleReads(u) ==
  /\ On(u, "toggle") /\ Then(u, IF Alive(record) THEN "watchStop" ELSE "owned")
  /\ UNCHANGED <<left, lock, daemon, server, watch, border, bare>>

\* "daemon-owned": a live daemon paints the border.  If none does, the border and a first
\* frame come before the watcher; tmux may fail at either, and the command with it.
ToggleChecks(u) ==
  /\ On(u, "owned")
  /\ \/ Ends(u) /\ UNCHANGED <<border, bare>>
     \/ /\ ~LockLive /\ Shows
        /\ \/ Ends(u)
           \/ command' = [command EXCEPT ![u].at = "watch", ![u].toggle = TRUE]
  /\ UNCHANGED <<left, lock, daemon, server, watch>>

\* startWatch: read, clear, spawn, write.  `gmux watch` shows the border after it.
Started(u) == IF command[u].toggle THEN Ends(u) ELSE Then(u, "border")

StartReads(u) ==
  /\ On(u, "watch")
  /\ IF Alive(record) THEN Started(u) ELSE Then(u, "clear")
  /\ UNCHANGED <<left, lock, daemon, server, watch, border, bare>>

StartClears(u) ==
  /\ On(u, "clear") /\ record' = Nobody /\ Then(u, "spawn")
  /\ UNCHANGED <<left, lock, daemon, server, watcher, border, bare>>

StartSpawns(u) ==
  /\ On(u, "spawn")
  /\ \/ \E w \in Watchers :
          /\ watcher[w] = "unborn" /\ watcher' = [watcher EXCEPT ![w] = "loop"]
          /\ command' = [command EXCEPT ![u].at = "write", ![u].pid = w]
     \/ watcher' = watcher /\ Ends(u)
  /\ UNCHANGED <<left, lock, daemon, server, record, border, bare>>

StartWrites(u) ==
  /\ On(u, "write") /\ record' = command[u].pid /\ Started(u)
  /\ UNCHANGED <<left, lock, daemon, server, watcher, border, bare>>

\* Where enableBorder throws the command fails, and the watcher it started stays.
StartBorder(u) ==
  /\ On(u, "border") /\ Ends(u)
  /\ \/ Shows
     \/ border' = border /\ bare' = TRUE
  /\ UNCHANGED <<left, lock, daemon, server, watch>>

\* stopWatch: the record is cleared before the watcher is signalled.
StopWatchReads(u) ==
  /\ On(u, "watchStop") /\ command' = [command EXCEPT ![u].at = "clearKill", ![u].pid = record]
  /\ UNCHANGED <<left, lock, daemon, server, watch, border, bare>>

StopWatchClears(u) ==
  /\ On(u, "clearKill") /\ record' = Nobody /\ Then(u, "term")
  /\ UNCHANGED <<left, lock, daemon, server, watcher, border, bare>>

\* disableBorder, too, which may fail.
StopWatchKills(u) ==
  /\ On(u, "term") /\ Ends(u) /\ border' \in {"off", border} /\ bare' = bare
  /\ watcher' = IF Alive(command[u].pid) THEN [watcher EXCEPT ![command[u].pid] = "dead"] ELSE watcher
  /\ UNCHANGED <<left, lock, daemon, server, record>>

Command(u) ==
  \/ StopReads(u) \/ StopKills(u) \/ ToggleReads(u) \/ ToggleChecks(u)
  \/ StartReads(u) \/ StartClears(u) \/ StartSpawns(u) \/ StartWrites(u) \/ StartBorder(u)
  \/ StopWatchReads(u) \/ StopWatchClears(u) \/ StopWatchKills(u)

\* Killed with its terminal, between any two steps.
CommandKill(u) ==
  /\ ~left.calm /\ command[u] # NoCmd /\ Ends(u)
  /\ UNCHANGED <<left, lock, daemon, server, watch, border, bare>>

(***************************************************************************)
(* The watcher's loop.                                                     *)
(***************************************************************************)
\* Only the removal of the record ends the loop.
MutWatchCheck(w) ==
  /\ watcher[w] = "loop"
  /\ watcher' = [watcher EXCEPT ![w] = IF record = Nobody THEN "ending" ELSE "tick"]
  /\ UNCHANGED <<left, lock, daemon, server, record, command, border, bare>>

WatchCheck(w) ==
  /\ watcher[w] = "loop"
  /\ watcher' = [watcher EXCEPT ![w] = IF record = w THEN "tick" ELSE "ending"]
  /\ UNCHANGED <<left, lock, daemon, server, record, command, border, bare>>

\* labelPanes and maybeAutoSummarize may fail; without tmux the loop ends.
WatchTick(w) ==
  /\ watcher[w] = "tick" /\ \E s \in {"loop", "ending"} : watcher' = [watcher EXCEPT ![w] = s]
  /\ UNCHANGED <<left, lock, daemon, server, record, command, border, bare>>

\* clearWatchPid, whosever it is.
WatchEnds(w) ==
  /\ watcher[w] = "ending" /\ record' = Nobody /\ watcher' = [watcher EXCEPT ![w] = "dead"]
  /\ UNCHANGED <<left, lock, daemon, server, command, border, bare>>

\* A signal, or a crash: the record stays.
WatchKill(w) ==
  /\ Alive(w) /\ watcher' = [watcher EXCEPT ![w] = "dead"]
  /\ UNCHANGED <<left, lock, daemon, server, record, command, border, bare>>

Watcher(w) == WatchCheck(w) \/ WatchTick(w) \/ WatchEnds(w)

Daemon(d) ==
  \/ DaemonReadLock(d) \/ DaemonWriteLock(d) \/ ServerClear(d) \/ ServerListen(d)
  \/ DaemonUp(d) \/ DaemonLeaves(d) \/ ServerStop(d) \/ DaemonRelease(d)
  \/ DaemonExits(d)

Next ==
  \/ LockAges
  \/ \E d \in Daemons : \/ DaemonRun(d) \/ Daemon(d) \/ DaemonFails(d) \/ Interrupt(d)
                        \/ Crash(d) \/ Change(d) \/ FileWrite(d) \/ Send(d)
  \/ \E c \in Clients : Join(c) \/ Leave(c)
  \/ \E u \in Users : Enter(u) \/ Command(u) \/ CommandKill(u)
  \/ \E w \in Watchers : Watcher(w) \/ WatchKill(w)

Spec == Init /\ [][Next]_vars

\* The processes run on; no one has to give a command, change the model or connect.
FairSpec ==
  /\ Spec
  /\ \A d \in Daemons : WF_vars(Daemon(d)) /\ WF_vars(FileWrite(d) \/ Send(d))
  /\ \A u \in Users : WF_vars(Command(u))
  /\ \A w \in Watchers : WF_vars(Watcher(w))

(***************************************************************************)
(* Properties.                                                             *)
(***************************************************************************)
Places     == [at : {"unborn", "reading", "writing", "assembling", "binding", "listening",
                     "running", "closing", "releasing", "exiting", "dead"},
               told : BOOLEAN]
Broadcasts == [version : Nat, filed : BOOLEAN]
Lines      == [to : Daemons \cup {Nobody}, last : Nat, greeted : BOOLEAN]
Commands   == [at : {"none", "stopDaemon", "kill", "toggle", "owned", "watch", "clear", "spawn",
                     "write", "border", "watchStop", "clearKill", "term"},
               pid : Daemons \cup Watchers \cup {Nobody}, toggle : BOOLEAN]

\* The variables have their types, and a command that is about to write a pid, or to
\* signal one, has one of the right kind.
TypeOK ==
  /\ left \in [calm : BOOLEAN, commands : Nat, changes : Nat, joins : Nat]
  /\ lock \in [pid : Daemons \cup {Nobody}, old : BOOLEAN]
  /\ daemon \in [Daemons -> Places]
  /\ path \in Daemons \cup {Nobody}
  /\ model \in [Daemons -> Nat]
  /\ queue \in [Daemons -> Seq(Broadcasts)]
  /\ file \in [by : Daemons \cup {Nobody}, version : Nat, lost : BOOLEAN]
  /\ client \in [Clients -> Lines]
  /\ record \in Watchers \cup {Nobody}
  /\ watcher \in [Watchers -> {"unborn", "loop", "tick", "ending", "dead"}]
  /\ command \in [Users -> Commands]
  /\ \A u \in Users : /\ command[u].at = "kill" => command[u].pid \in Daemons
                      /\ command[u].at = "write" => command[u].pid \in Watchers
  /\ border \in {"top", "off"} /\ bare \in BOOLEAN

CalmDaemons ==
  \A d \in Daemons : daemon[d].at \in {"assembling", "binding", "listening", "running", "closing"} =>
    /\ lock.pid = d
    /\ \A e \in Daemons \ {d} : ~Alive(e) \/ At(e, "reading")
    /\ At(d, "running") => path = d

CalmWatchers ==
  \A w \in Watchers : Alive(w) /\ Settled =>
    (border = "top" \/ bare) /\ \A v \in Watchers : Alive(v) => v = w

\* While commands are given one at a time and run to their end, and no lock is ten
\* minutes old, whatever daemons and watchers crash: one daemon runs, holding the lock
\* and the path, which `stop` and the clients find it by; and at rest at most one watcher
\* runs, under a border that is shown unless tmux refused it to `gmux watch`, whose
\* watcher then runs on without one.
CalmRuns == left.calm => CalmDaemons /\ CalmWatchers

\* When nothing is on its way every client has the present model, also one that
\* connected while a broadcast waited for the file.  In a calm run the file has it too,
\* unless its last write failed; where daemons cross, or one that exits is late with
\* its writes, the file may be left with another's model.
QuietIsCurrent ==
  \A d \in Running : queue[d] = <<>> =>
    /\ \A c \in Clients : client[c].to = d => client[c].last = model[d]
    /\ left.calm => file.lost \/ (file.by = d /\ file.version = model[d])

\* The lines a client gets go back only after the one it was greeted with: the
\* broadcasts are in the order of the changes.
LinesMoveForward ==
  [][\A c \in Clients : client[c].to # Nobody /\ client'[c].to = client[c].to /\ ~client[c].greeted
                          => client'[c].last >= client[c].last]_vars

\* However starts, stops and toggles overlap, in the end at most the watcher on record
\* runs: one that was superseded, or whose record was cleared, goes.
OnlyTheRecordedWatcher ==
  <>[](\A w \in Watchers : Alive(w) => record = w)

\* commands/daemon.ts: "a second `gmux daemon run` refuses to double-start".
OneDaemon == Cardinality(Running) <= 1
=============================================================================
