-------------------------- MODULE Background_proof --------------------------
(***************************************************************************)
(* Type correctness of the background processes, and what the clients of   *)
(* a daemon may rely on, for any number of daemons, watchers, terminals    *)
(* and clients.                                                            *)
(*                                                                         *)
(* The invariant counts: the broadcasts a daemon has queued are the last   *)
(* versions of its model, one by one, so a client that got a broadcast     *)
(* has exactly the version before the first one queued.                    *)
(***************************************************************************)
EXTENDS Background, SequenceTheorems, TLAPS

Steps == {"unborn", "reading", "writing", "assembling", "binding", "listening", "running",
          "closing", "releasing", "exiting", "dead"}
Asks  == {"none", "stopDaemon", "kill", "toggle", "owned", "watch", "clear", "spawn", "write",
          "border", "watchStop", "clearKill", "term"}

LEMMA InitTypes == Init => TypeOK
<1> SUFFICES ASSUME Init PROVE TypeOK
  OBVIOUS
<1>1. border \in {"top", "off"} /\ bare \in BOOLEAN
  BY DEF Init
<1>2. /\ left \in [calm : BOOLEAN, commands : Nat, changes : Nat, joins : Nat]
      /\ lock \in [pid : Daemons \cup {Nobody}, old : BOOLEAN]
      /\ file \in [by : Daemons \cup {Nobody}, version : Nat, lost : BOOLEAN]
  BY StartsAssumption DEF Init, NoLock
<1>3. /\ daemon \in [Daemons -> Places] /\ queue \in [Daemons -> Seq(Broadcasts)]
      /\ client \in [Clients -> Lines] /\ command \in [Users -> Commands]
  BY DEF Init, Off, NoCmd, Places, Broadcasts, Lines, Commands
<1> QED
  BY <1>1, <1>2, <1>3 DEF Init, TypeOK, NoCmd

----------------------------------------------------------------------------
(* The types.                                                              *)

\* A record of the right kind stays one where one field of it changes.
LEMMA PlaceIs ==
  ASSUME NEW r \in Places
  PROVE  /\ \A at \in Steps : [r EXCEPT !.at = at] \in Places
         /\ [r EXCEPT !.told = TRUE] \in Places
         /\ [at |-> "dead", told |-> FALSE] \in Places
  BY DEF Places, Steps

LEMMA GoTypes ==
  ASSUME NEW d \in Daemons, NEW at \in Steps, daemon \in [Daemons -> Places], Go(d, at)
  PROVE  daemon' \in [Daemons -> Places]
<1>1. daemon[d] \in Places
  OBVIOUS
<1>2. [daemon[d] EXCEPT !.at = at] \in Places
  BY <1>1, PlaceIs
<1>3. daemon' = [daemon EXCEPT ![d] = [daemon[d] EXCEPT !.at = at]]
  BY DEF Go
<1> QED
  BY <1>2, <1>3

LEMMA DaemonTypes ==
  ASSUME NEW d \in Daemons PROVE TypeOK /\ (Daemon(d) \/ DaemonFails(d)) => TypeOK'
<1> SUFFICES ASSUME TypeOK, Daemon(d) \/ DaemonFails(d) PROVE TypeOK'
  OBVIOUS
<1>0. /\ daemon \in [Daemons -> Places]
      /\ \A at \in Steps : Go(d, at) => daemon' \in [Daemons -> Places]
  BY GoTypes DEF TypeOK
<1> USE <1>0 DEF TypeOK, server, watch, Steps
<1>1. CASE DaemonReadLock(d)
  BY <1>1 DEF DaemonReadLock
<1>2. CASE DaemonWriteLock(d)
  BY <1>2 DEF DaemonWriteLock
<1>3. CASE ServerClear(d)
  BY <1>3 DEF ServerClear
<1>4. CASE ServerListen(d)
  BY <1>4 DEF ServerListen
<1>f. FirstWrite(d) => file' \in [by : Daemons \cup {Nobody}, version : Nat, lost : BOOLEAN]
  <2>1. CASE file' = [by |-> d, version |-> model[d], lost |-> FALSE]
    BY <2>1
  <2>2. CASE file' = [file EXCEPT !.lost = TRUE]
    BY <2>2
  <2> QED
    BY <2>1, <2>2 DEF FirstWrite
<1>5. CASE DaemonUp(d)
  <2>1. file' \in [by : Daemons \cup {Nobody}, version : Nat, lost : BOOLEAN]
    BY <1>5, <1>f DEF DaemonUp
  <2> QED
    BY <1>5, <2>1 DEF DaemonUp, Shows
<1>6. CASE DaemonLeaves(d)
  BY <1>6 DEF DaemonLeaves
<1>7. CASE ServerStop(d)
  <2>1. client' \in [Clients -> Lines]
    BY <1>7 DEF ServerStop, Off, Lines
  <2> QED
    BY <1>7, <2>1 DEF ServerStop
<1>8. CASE DaemonRelease(d)
  BY <1>8 DEF DaemonRelease, NoLock
<1>9. CASE DaemonExits(d)
  <2>1. [at |-> "dead", told |-> FALSE] \in Places
    BY PlaceIs
  <2> QED
    BY <1>9, <2>1 DEF DaemonExits
<1>10. CASE DaemonFails(d)
  <2>1. file' \in [by : Daemons \cup {Nobody}, version : Nat, lost : BOOLEAN]
    BY <1>10, <1>f DEF DaemonFails
  <2> QED
    BY <1>10, <2>1 DEF DaemonFails
<1> QED
  BY <1>1, <1>2, <1>3, <1>4, <1>5, <1>6, <1>7, <1>8, <1>9, <1>10 DEF Daemon

Signalled == /\ daemon' \in [Daemons -> Places]
             /\ queue' \in [Daemons -> Seq(Broadcasts)]
             /\ client' \in [Clients -> Lines]

LEMMA DieTypes == ASSUME NEW d \in Daemons, TypeOK, Die(d) PROVE Signalled
<1>1. [at |-> "dead", told |-> FALSE] \in Places
  BY DEF Places
<1>2. <<>> \in Seq(Broadcasts) /\ Off \in Lines
  BY DEF Off, Lines
<1> QED
  BY <1>1, <1>2 DEF TypeOK, Die, Signalled

LEMMA SignalTypes == ASSUME NEW d \in Daemons, TypeOK, Signal(d) PROVE Signalled
<1>1. CASE At(d, "running")
  <2>1. [daemon[d] EXCEPT !.told = TRUE] \in Places
    BY PlaceIs DEF TypeOK
  <2>2. daemon' = [daemon EXCEPT ![d] = [daemon[d] EXCEPT !.told = TRUE]]
    BY <1>1 DEF Signal
  <2> QED
    BY <1>1, <2>1, <2>2 DEF TypeOK, Signal, Signalled
<1>2. CASE ~At(d, "running")
  BY <1>2, DieTypes DEF Signal
<1> QED
  BY <1>1, <1>2

LEMMA ModelTypes ==
  ASSUME NEW d \in Daemons
  PROVE  TypeOK /\ (Change(d) \/ FileWrite(d) \/ Send(d)) => TypeOK'
<1> SUFFICES ASSUME TypeOK, Change(d) \/ FileWrite(d) \/ Send(d) PROVE TypeOK'
  OBVIOUS
<1> DEFINE q == queue[d]
<1>1. q \in Seq(Broadcasts)
  BY DEF TypeOK
<1>2. CASE Change(d)
  <2>1. Append(q, [version |-> model[d] + 1, filed |-> FALSE]) \in Seq(Broadcasts)
    BY <1>1 DEF TypeOK, Broadcasts
  <2>2. queue' = [queue EXCEPT ![d] = Append(q, [version |-> model[d] + 1, filed |-> FALSE])]
    BY <1>2 DEF Change
  <2>3. queue' \in [Daemons -> Seq(Broadcasts)]
    BY <2>1, <2>2 DEF TypeOK
  <2>4. left.changes - 1 \in Nat
    BY <1>2 DEF Change, TypeOK
  <2>5. left' = [left EXCEPT !.changes = left.changes - 1]
    BY <1>2 DEF Change
  <2>6. left' \in [calm : BOOLEAN, commands : Nat, changes : Nat, joins : Nat]
    BY <2>4, <2>5 DEF TypeOK
  <2>7. model' \in [Daemons -> Nat]
    BY <1>2 DEF Change, TypeOK
  <2> QED
    BY <1>2, <2>3, <2>6, <2>7 DEF Change, TypeOK, watch
<1>3. CASE FileWrite(d)
  <2>1. q # <<>> /\ q[1] \in Broadcasts /\ 1 \in 1..Len(q)
    BY <1>1, <1>3 DEF FileWrite
  <2>2. [q[1] EXCEPT !.filed = TRUE] \in Broadcasts
    BY <2>1 DEF Broadcasts
  <2> DEFINE q2 == [q EXCEPT ![1] = [q[1] EXCEPT !.filed = TRUE]]
  <2>3. q2 \in Seq(Broadcasts)
    BY <1>1, <2>1, <2>2, ExceptSeq
  <2>4. queue' = [queue EXCEPT ![d] = q2]
    BY <1>3 DEF FileWrite
  <2>5. Head(q).version \in Nat
    BY <1>1, <2>1 DEF Broadcasts
  <2> HIDE DEF q2
  <2>6. queue' \in [Daemons -> Seq(Broadcasts)]
    BY <2>3, <2>4 DEF TypeOK
  <2>7. file' \in [by : Daemons \cup {Nobody}, version : Nat, lost : BOOLEAN]
    <3>1. CASE file' = [by |-> d, version |-> Head(queue[d]).version, lost |-> FALSE]
      BY <2>5, <3>1
    <3>2. CASE file' = [file EXCEPT !.lost = TRUE]
      BY <3>2 DEF TypeOK
    <3> QED
      BY <1>3, <3>1, <3>2 DEF FileWrite
  <2> QED
    BY <1>3, <2>6, <2>7 DEF FileWrite, TypeOK, watch
<1>4. CASE Send(d)
  <2>1. q # <<>> /\ q[1] \in Broadcasts /\ Tail(q) \in Seq(Broadcasts)
    BY <1>1, <1>4 DEF Send
  <2>2. Head(q).version \in Nat
    BY <1>1, <2>1 DEF Broadcasts
  <2>3. queue' \in [Daemons -> Seq(Broadcasts)]
    BY <1>4, <2>1 DEF Send, TypeOK
  <2>4. client' \in [Clients -> Lines]
    BY <1>4, <2>2 DEF Send, TypeOK, Lines
  <2> QED
    BY <1>4, <2>3, <2>4 DEF Send, TypeOK, watch
<1> QED
  BY <1>2, <1>3, <1>4

\* What a command may become.
CommandOK(r) == /\ r \in Commands
                /\ r.at = "kill" => r.pid \in Daemons
                /\ r.at = "write" => r.pid \in Watchers

LEMMA CommandIs ==
  ASSUME NEW r \in Commands
  PROVE  /\ \A at \in Asks \ {"kill", "write"} : CommandOK([r EXCEPT !.at = at])
         /\ CommandOK([r EXCEPT !.at = "watch", !.toggle = TRUE])
         /\ \A d \in Daemons : CommandOK([r EXCEPT !.at = "kill", !.pid = d])
         /\ \A w \in Watchers : CommandOK([r EXCEPT !.at = "write", !.pid = w])
         /\ \A w \in Watchers \cup {Nobody} : CommandOK([r EXCEPT !.at = "clearKill", !.pid = w])
         /\ CommandOK(NoCmd)
  BY DEF CommandOK, Commands, Asks, NoCmd

LEMMA CommandTypes == ASSUME NEW u \in Users PROVE TypeOK /\ Command(u) => TypeOK'
<1> SUFFICES ASSUME TypeOK, Command(u) PROVE TypeOK'
  OBVIOUS
<1> DEFINE r == command[u]
<1>a. \A v \in Users : CommandOK(command[v])
  BY DEF TypeOK, CommandOK
<1>b. ASSUME NEW s, CommandOK(s), command' = [command EXCEPT ![u] = s]
      PROVE  /\ command' \in [Users -> Commands]
             /\ \A v \in Users : /\ command'[v].at = "kill" => command'[v].pid \in Daemons
                                 /\ command'[v].at = "write" => command'[v].pid \in Watchers
  BY <1>a, <1>b DEF TypeOK, CommandOK
<1>c. ASSUME NEW s, CommandOK(s), command' = [command EXCEPT ![u] = s],
             left' = left, lock' = lock, path' = path, model' = model, file' = file,
             Signalled, record' \in Watchers \cup {Nobody},
             watcher' \in [Watchers -> {"unborn", "loop", "tick", "ending", "dead"}],
             border' \in {"top", "off"}, bare' \in BOOLEAN
      PROVE  TypeOK'
  BY <1>b, <1>c DEF TypeOK, Signalled
<1>d. /\ r \in Commands
      /\ \A at \in Asks \ {"kill", "write"} : CommandOK([r EXCEPT !.at = at])
      /\ CommandOK(NoCmd)
  BY <1>a, CommandIs DEF CommandOK
<1>e. UNCHANGED <<daemon, queue, client>> => Signalled
  BY DEF TypeOK, Signalled
<1> DEFINE Legal == \E s : CommandOK(s) /\ command' = [command EXCEPT ![u] = s]
<1>f. \A at \in Asks \ {"kill", "write"} : Then(u, at) => Legal
  BY <1>d DEF Then
<1>g. Ends(u) => Legal
  BY <1>d DEF Ends
<1>h. \A s : command' = [command EXCEPT ![u] = s] /\ CommandOK(s) => Legal
  OBVIOUS
<1>i. Started(u) => Legal
  BY <1>f, <1>g DEF Started, Asks
<1>1. CASE StopReads(u)
  <2>1. CASE LockLive
    <3>1. lock.pid \in Daemons
      BY <2>1 DEF LockLive, Status, TypeOK
    <3>2. CommandOK([r EXCEPT !.at = "kill", !.pid = lock.pid])
      BY <1>d, <3>1, CommandIs
    <3>3. command' = [command EXCEPT ![u] = [r EXCEPT !.at = "kill", !.pid = lock.pid]]
      BY <1>1, <2>1 DEF StopReads
    <3> QED
      BY <1>1, <1>c, <1>e, <3>2, <3>3 DEF StopReads, TypeOK, server, watch
  <2>2. CASE ~LockLive
    BY <1>1, <1>c, <1>e, <1>g, <2>2 DEF StopReads, TypeOK, server, watch
  <2> QED
    BY <2>1, <2>2
<1>2. CASE StopKills(u)
  <2>1. r.pid \in Daemons
    BY <1>2, <1>a DEF StopKills, On, CommandOK
  <2>2. Signalled
    BY <1>2, <1>e, <2>1, SignalTypes DEF StopKills
  <2> QED
    BY <1>2, <1>c, <1>g, <2>2 DEF StopKills, TypeOK, server, watch
<1>3. CASE ToggleReads(u)
  BY <1>3, <1>c, <1>e, <1>f DEF ToggleReads, Asks, TypeOK, server, watch
<1>4. CASE ToggleChecks(u)
  <2>1. CommandOK([r EXCEPT !.at = "watch", !.toggle = TRUE])
    BY <1>d, CommandIs
  <2>2. Ends(u) \/ command' = [command EXCEPT ![u] = [r EXCEPT !.at = "watch", !.toggle = TRUE]]
    BY <1>4 DEF ToggleChecks
  <2>3. Legal
    BY <1>4, <1>g, <1>h, <2>1, <2>2 DEF ToggleChecks
  <2>4. border' \in {"top", "off"} /\ bare' \in BOOLEAN
    BY <1>4 DEF ToggleChecks, Shows, TypeOK
  <2> QED
    BY <1>4, <1>c, <1>e, <2>3, <2>4 DEF ToggleChecks, TypeOK, server, watch
<1>5. CASE StartReads(u)
  BY <1>5, <1>c, <1>e, <1>f, <1>i DEF StartReads, Asks, TypeOK, server, watch
<1>6. CASE StartClears(u)
  BY <1>6, <1>c, <1>e, <1>f DEF StartClears, Asks, TypeOK, server, watch
<1>7. CASE StartSpawns(u)
  <2>1. CASE watcher' = watcher /\ Ends(u)
    BY <1>7, <1>c, <1>e, <1>g, <2>1 DEF StartSpawns, TypeOK, server, watch
  <2>2. ASSUME NEW w \in Watchers, watcher' = [watcher EXCEPT ![w] = "loop"],
               command' = [command EXCEPT ![u].at = "write", ![u].pid = w]
        PROVE  TypeOK'
    <3>1. CommandOK([r EXCEPT !.at = "write", !.pid = w])
      BY <1>d, CommandIs
    <3>2. command' = [command EXCEPT ![u] = [r EXCEPT !.at = "write", !.pid = w]]
      BY <2>2
    <3> QED
      BY <1>7, <1>c, <1>e, <2>2, <3>1, <3>2 DEF StartSpawns, TypeOK, server, watch
  <2> QED
    BY <1>7, <2>1, <2>2 DEF StartSpawns
<1>8. CASE StartWrites(u)
  <2>1. r.pid \in Watchers
    BY <1>8, <1>a DEF StartWrites, On, CommandOK
  <2> QED
    BY <1>8, <1>c, <1>e, <1>i, <2>1 DEF StartWrites, TypeOK, server, watch
<1>9. CASE StartBorder(u)
  <2>1. border' \in {"top", "off"} /\ bare' \in BOOLEAN
    BY <1>9 DEF StartBorder, Shows, TypeOK
  <2> QED
    BY <1>9, <1>c, <1>e, <1>g, <2>1 DEF StartBorder, TypeOK, server, watch
<1>10. CASE StopWatchReads(u)
  <2>1. CommandOK([r EXCEPT !.at = "clearKill", !.pid = record])
    BY <1>d, CommandIs DEF TypeOK
  <2>2. command' = [command EXCEPT ![u] = [r EXCEPT !.at = "clearKill", !.pid = record]]
    BY <1>10 DEF StopWatchReads
  <2> QED
    BY <1>10, <1>c, <1>e, <2>1, <2>2 DEF StopWatchReads, TypeOK, server, watch
<1>11. CASE StopWatchClears(u)
  BY <1>11, <1>c, <1>e, <1>f DEF StopWatchClears, Asks, TypeOK, server, watch
<1>12. CASE StopWatchKills(u)
  <2>1. watcher' \in [Watchers -> {"unborn", "loop", "tick", "ending", "dead"}]
    BY <1>12 DEF StopWatchKills, TypeOK
  <2> QED
    BY <1>12, <1>c, <1>e, <1>g, <2>1 DEF StopWatchKills, TypeOK, server, watch
<1> QED
  BY <1>1, <1>2, <1>3, <1>4, <1>5, <1>6, <1>7, <1>8, <1>9, <1>10, <1>11, <1>12 DEF Command

LEMMA CommandKillTypes == ASSUME NEW u \in Users PROVE TypeOK /\ CommandKill(u) => TypeOK'
<1> SUFFICES ASSUME TypeOK, CommandKill(u) PROVE TypeOK'
  OBVIOUS
<1>1. CommandOK(NoCmd)
  BY DEF CommandOK, Commands, NoCmd
<1>2. /\ command' \in [Users -> Commands]
      /\ \A v \in Users : /\ command'[v].at = "kill" => command'[v].pid \in Daemons
                          /\ command'[v].at = "write" => command'[v].pid \in Watchers
  BY <1>1 DEF TypeOK, CommandOK, CommandKill, Ends
<1> QED
  BY <1>2 DEF CommandKill, TypeOK, server, watch

LEMMA WatcherTypes ==
  ASSUME NEW w \in Watchers PROVE TypeOK /\ (Watcher(w) \/ WatchKill(w)) => TypeOK'
<1> SUFFICES ASSUME TypeOK, Watcher(w) \/ WatchKill(w) PROVE TypeOK'
  OBVIOUS
<1>1. /\ record' \in Watchers \cup {Nobody}
      /\ watcher' \in [Watchers -> {"unborn", "loop", "tick", "ending", "dead"}]
  BY DEF Watcher, WatchCheck, WatchTick, WatchEnds, WatchKill, TypeOK
<1>2. UNCHANGED <<left, lock, daemon, path, model, queue, file, client, command, border, bare>>
  BY DEF Watcher, WatchCheck, WatchTick, WatchEnds, WatchKill, server
<1> QED
  BY <1>1, <1>2 DEF TypeOK

\* Giving a command spends one.
LEMMA GiveTypes ==
  ASSUME TypeOK, Give
  PROVE  left' \in [calm : BOOLEAN, commands : Nat, changes : Nat, joins : Nat]
<1>1. left.commands - 1 \in Nat
  BY DEF Give, TypeOK
<1>2. left' = [left EXCEPT !.commands = left.commands - 1]
  BY DEF Give
<1> QED
  BY <1>1, <1>2 DEF TypeOK

LEMMA StepTypes == TypeOK /\ [Next]_vars => TypeOK'
<1> SUFFICES ASSUME TypeOK, [Next]_vars PROVE TypeOK'
  OBVIOUS
<1>1. CASE LockAges
  <2>1. lock' \in [pid : Daemons \cup {Nobody}, old : BOOLEAN]
    BY <1>1 DEF LockAges, TypeOK
  <2> QED
    BY <1>1, <2>1 DEF LockAges, TypeOK, server, watch
<1>2. ASSUME NEW d \in Daemons, DaemonRun(d) PROVE TypeOK'
  <2>1. daemon' \in [Daemons -> Places]
    BY <1>2, GoTypes DEF DaemonRun, TypeOK, Steps
  <2>2. left' \in [calm : BOOLEAN, commands : Nat, changes : Nat, joins : Nat]
    BY <1>2, GiveTypes DEF DaemonRun
  <2> QED
    BY <1>2, <2>1, <2>2 DEF DaemonRun, TypeOK, server, watch
<1>3. ASSUME NEW d \in Daemons, Interrupt(d) \/ Crash(d) PROVE TypeOK'
  <2>1. Signalled
    BY <1>3, SignalTypes, DieTypes DEF Interrupt, Crash
  <2>2. UNCHANGED <<left, lock, path, model, file, watch, command, border, bare>>
    BY <1>3 DEF Interrupt, Crash
  <2> QED
    BY <2>1, <2>2 DEF Signalled, TypeOK, watch
<1>4. ASSUME NEW c \in Clients, Join(c) PROVE TypeOK'
  <2>1. [to |-> path, last |-> model[path], greeted |-> TRUE] \in Lines
    BY <1>4 DEF Join, TypeOK, Lines
  <2>2. client' \in [Clients -> Lines]
    BY <1>4, <2>1 DEF Join, TypeOK
  <2>3. left.joins - 1 \in Nat /\ left' = [left EXCEPT !.joins = left.joins - 1]
    BY <1>4 DEF Join, TypeOK
  <2>4. left' \in [calm : BOOLEAN, commands : Nat, changes : Nat, joins : Nat]
    BY <2>3 DEF TypeOK
  <2> QED
    BY <1>4, <2>2, <2>4 DEF Join, TypeOK, watch
<1>5. ASSUME NEW c \in Clients, Leave(c) PROVE TypeOK'
  <2>1. client' \in [Clients -> Lines]
    BY <1>5 DEF Leave, TypeOK, Lines, Off
  <2> QED
    BY <1>5, <2>1 DEF Leave, TypeOK, watch
<1>6. ASSUME NEW u \in Users, Enter(u) PROVE TypeOK'
  <2>1. PICK s \in {"stopDaemon", "watch", "watchStop", "toggle"} :
          command' = [command EXCEPT ![u] = [command[u] EXCEPT !.at = s]]
    BY <1>6 DEF Enter, Then
  <2>2. CommandOK([command[u] EXCEPT !.at = s])
    BY CommandIs DEF TypeOK, Asks
  <2>3. /\ command' \in [Users -> Commands]
        /\ \A v \in Users : /\ command'[v].at = "kill" => command'[v].pid \in Daemons
                            /\ command'[v].at = "write" => command'[v].pid \in Watchers
    BY <2>1, <2>2 DEF TypeOK, CommandOK
  <2>4. left' \in [calm : BOOLEAN, commands : Nat, changes : Nat, joins : Nat]
    BY <1>6, GiveTypes DEF Enter
  <2> QED
    BY <1>6, <2>3, <2>4 DEF Enter, TypeOK, server, watch
<1>7. CASE UNCHANGED vars
  BY <1>7 DEF vars, server, watch, TypeOK
<1> QED
  BY <1>1, <1>2, <1>3, <1>4, <1>5, <1>6, <1>7, DaemonTypes, ModelTypes, CommandTypes,
     CommandKillTypes, WatcherTypes DEF Next

\* The variables have their types, and nothing is signalled or recorded that is not a
\* daemon, or a watcher, of ours.
THEOREM TypeCorrect == Spec => []TypeOK
  BY InitTypes, StepTypes, PTL DEF Spec

----------------------------------------------------------------------------
(* The clients.                                                            *)

\* The broadcasts queued are the last versions of the model, and only the first may be
\* in the file.
Counted(d) ==
  /\ \A i \in 1..Len(queue[d]) : queue[d][i].version = model[d] - Len(queue[d]) + i
  /\ \A i \in 2..Len(queue[d]) : ~queue[d][i].filed

\* What a client has.
Got(c) ==
  client[c].to \in Daemons =>
    LET d == client[c].to IN
    /\ ~client[c].greeted => client[c].last = model[d] - Len(queue[d])
    /\ client[c].greeted /\ queue[d] = <<>> => client[c].last = model[d]

LinesInv == TypeOK /\ (\A d \in Daemons : Counted(d)) /\ \A c \in Clients : Got(c)

LEMMA InitLines == Init => LinesInv
<1> SUFFICES ASSUME Init PROVE LinesInv
  OBVIOUS
<1>1. TypeOK
  BY InitTypes
<1>2. \A d \in Daemons : Counted(d)
  BY DEF Init, Counted
<1>3. \A c \in Clients : Got(c)
  BY ProcessesAssumption DEF Init, Got, Off
<1> QED
  BY <1>1, <1>2, <1>3 DEF LinesInv

\* Nothing is counted anew where neither model, queue nor client change.
LEMMA SameLines ==
  ASSUME LinesInv, TypeOK', UNCHANGED <<model, queue, client>>
  PROVE  LinesInv'
  BY DEF LinesInv, Counted, Got

\* A client that leaves is owed nothing.
LEMMA FewerLines ==
  ASSUME LinesInv, TypeOK', UNCHANGED <<model, queue>>,
         \A c \in Clients : client'[c] = client[c] \/ client'[c] = Off
  PROVE  LinesInv'
<1>1. \A d \in Daemons : Counted(d)'
  BY DEF LinesInv, Counted
<1>2. \A c \in Clients : Got(c)'
  BY ProcessesAssumption DEF LinesInv, Got, Off
<1> QED
  BY <1>1, <1>2 DEF LinesInv

LEMMA DieLines ==
  ASSUME LinesInv, TypeOK', model' = model, NEW d \in Daemons, Die(d)
  PROVE  LinesInv'
<1>1. \A e \in Daemons : queue'[e] = IF e = d THEN <<>> ELSE queue[e]
  BY DEF Die, LinesInv, TypeOK
<1>2. ASSUME NEW e \in Daemons PROVE Counted(e)'
  <2>1. CASE e = d
    BY <1>1, <2>1 DEF Counted
  <2>2. CASE e # d
    BY <1>1, <2>2 DEF LinesInv, Counted
  <2> QED
    BY <2>1, <2>2
<1>3. ASSUME NEW c \in Clients PROVE Got(c)'
  <2>1. client'[c] = IF client[c].to = d THEN Off ELSE client[c]
    BY <1>3 DEF Die
  <2> QED
    BY <1>1, <2>1, ProcessesAssumption DEF LinesInv, Got, Off
<1> QED
  BY <1>2, <1>3 DEF LinesInv

LEMMA ChangeLines ==
  ASSUME LinesInv, TypeOK', NEW d \in Daemons, Change(d)
  PROVE  LinesInv'
<1> DEFINE b == [version |-> model[d] + 1, filed |-> FALSE]
           q == queue[d]
<1>1. q \in Seq(Broadcasts) /\ model[d] \in Nat /\ Len(q) \in Nat
  BY DEF LinesInv, TypeOK
<1>2. /\ queue'[d] = Append(q, b) /\ model'[d] = model[d] + 1
      /\ \A e \in Daemons \ {d} : queue'[e] = queue[e] /\ model'[e] = model[e]
      /\ client' = client
  BY DEF Change, LinesInv, TypeOK
<1>3. /\ Len(Append(q, b)) = Len(q) + 1
      /\ \A i \in 1..Len(q) : Append(q, b)[i] = q[i]
      /\ Append(q, b)[Len(q) + 1] = b
  BY <1>1
<1>4. Counted(d)'
  <2>1. Len(queue'[d]) = Len(q) + 1
    BY <1>2, <1>3
  <2>2. ASSUME NEW i \in 1..Len(queue'[d])
        PROVE  /\ queue'[d][i].version = model'[d] - Len(queue'[d]) + i
               /\ i >= 2 => ~queue'[d][i].filed
    <3>1. CASE i = Len(q) + 1
      BY <1>1, <1>2, <1>3, <2>1, <3>1
    <3>2. CASE i # Len(q) + 1
      <4>1. i \in 1..Len(q)
        BY <1>1, <2>1, <3>2
      <4>2. q[i].version = model[d] - Len(q) + i /\ (i >= 2 => ~q[i].filed)
        <5>1. \A j \in 1..Len(queue[d]) : queue[d][j].version = model[d] - Len(queue[d]) + j
          BY DEF LinesInv, Counted
        <5>2. \A j \in 2..Len(queue[d]) : ~queue[d][j].filed
          BY DEF LinesInv, Counted
        <5>3. i >= 2 => i \in 2..Len(q)
          BY <1>1, <4>1
        <5> QED
          BY <4>1, <5>1, <5>2, <5>3
      <4>3. queue'[d][i] = q[i]
        BY <1>2, <1>3, <4>1
      <4> HIDE DEF q
      <4>4. model'[d] - Len(queue'[d]) = model[d] - Len(q)
        BY <1>1, <1>2, <2>1
      <4> QED
        BY <4>2, <4>3, <4>4
    <3> QED
      BY <3>1, <3>2
  <2> QED
    BY <1>1, <2>1, <2>2 DEF Counted
<1>5. \A e \in Daemons \ {d} : Counted(e)'
  BY <1>2 DEF LinesInv, Counted
<1>6. ASSUME NEW c \in Clients PROVE Got(c)'
  <2>1. CASE client[c].to = d
    <3>1. Len(queue'[d]) = Len(q) + 1 /\ queue'[d] # <<>>
      <4>1. Len(queue'[d]) = Len(q) + 1
        BY <1>2, <1>3
      <4>2. Len(queue'[d]) # 0
        BY <1>1, <4>1
      <4> QED
        BY <4>1, <4>2
    <3>2. model'[d] - Len(queue'[d]) = model[d] - Len(q)
      BY <1>1, <1>2, <3>1
    <3> QED
      BY <1>2, <2>1, <3>1, <3>2 DEF LinesInv, Got
  <2>2. CASE client[c].to # d
    BY <1>2, <2>2 DEF LinesInv, Got
  <2> QED
    BY <2>1, <2>2
<1> QED
  BY <1>4, <1>5, <1>6 DEF LinesInv

LEMMA FileWriteLines ==
  ASSUME LinesInv, TypeOK', NEW d \in Daemons, FileWrite(d)
  PROVE  LinesInv'
<1> DEFINE q  == queue[d]
           q2 == [q EXCEPT ![1].filed = TRUE]
<1>1. q \in Seq(Broadcasts) /\ q # <<>>
  BY DEF LinesInv, TypeOK, FileWrite
<1>2. /\ Len(q2) = Len(q)
      /\ \A i \in 1..Len(q) : q2[i].version = q[i].version /\ (i # 1 => q2[i] = q[i])
  BY <1>1 DEF Broadcasts
<1>3. /\ queue'[d] = q2
      /\ \A e \in Daemons \ {d} : queue'[e] = queue[e]
      /\ client' = client /\ model' = model
  BY DEF FileWrite, LinesInv, TypeOK
<1>4. Counted(d)
  BY DEF LinesInv
<1> HIDE DEF q2
<1>5. Counted(d)'
  BY <1>1, <1>2, <1>3, <1>4 DEF Counted
<1>6. \A e \in Daemons \ {d} : Counted(e)'
  BY <1>3 DEF LinesInv, Counted
<1>7. queue'[d] # <<>> /\ Len(queue'[d]) = Len(q)
  BY <1>1, <1>2, <1>3
<1>8. ASSUME NEW c \in Clients PROVE Got(c)'
  BY <1>3, <1>7 DEF LinesInv, Got
<1> QED
  BY <1>5, <1>6, <1>8 DEF LinesInv

\* The line that is sent is the next one.
LEMMA SendLines ==
  ASSUME LinesInv, TypeOK', NEW d \in Daemons, Send(d)
  PROVE  LinesInv'
<1> DEFINE q == queue[d]
<1>1. q \in Seq(Broadcasts) /\ q # <<>> /\ model[d] \in Nat
  BY DEF LinesInv, TypeOK, Send
<1>2. /\ Len(Tail(q)) = Len(q) - 1 /\ Len(q) \in Nat
      /\ \A i \in 1..Len(Tail(q)) : Tail(q)[i] = q[i + 1]
  BY <1>1
<1>3. /\ queue'[d] = Tail(q)
      /\ \A e \in Daemons \ {d} : queue'[e] = queue[e]
      /\ model' = model
  BY DEF Send, LinesInv, TypeOK
<1>4. /\ \A i \in 1..Len(q) : q[i].version = model[d] - Len(q) + i
      /\ \A i \in 2..Len(q) : ~q[i].filed
  BY DEF LinesInv, Counted
<1>5. q[1].version = model[d] - Len(Tail(q))
  BY <1>1, <1>2, <1>4
<1>6. Counted(d)'
  <2>1. ASSUME NEW i \in 1..Len(Tail(q))
        PROVE  /\ Tail(q)[i].version = model[d] - Len(Tail(q)) + i
               /\ ~Tail(q)[i].filed
    <3>1. i + 1 \in 2..Len(q) /\ Tail(q)[i] = q[i + 1]
      BY <1>1, <1>2
    <3>2. q[i + 1].version = model[d] - Len(q) + (i + 1) /\ ~q[i + 1].filed
      BY <1>2, <1>4, <3>1
    <3> HIDE DEF q
    <3> QED
      BY <1>1, <1>2, <3>1, <3>2
  <2> QED
    <3>1. \A i \in 2..Len(Tail(q)) : i \in 1..Len(Tail(q))
      BY <1>1, <1>2
    <3> QED
      BY <1>3, <2>1, <3>1 DEF Counted
<1>7. \A e \in Daemons \ {d} : Counted(e)'
  BY <1>3 DEF LinesInv, Counted
<1>8. ASSUME NEW c \in Clients PROVE Got(c)'
  <2>1. CASE client[c].to = d
    <3>1. client'[c].to = d /\ client'[c].last = q[1].version /\ ~client'[c].greeted
      BY <2>1 DEF Send
    <3> QED
      BY <1>3, <1>5, <3>1 DEF Got
  <2>2. CASE client[c].to # d
    <3>1. client'[c] = client[c]
      BY <2>2 DEF Send
    <3> QED
      BY <1>3, <2>2, <3>1 DEF LinesInv, Got
  <2> QED
    BY <2>1, <2>2
<1> QED
  BY <1>6, <1>7, <1>8 DEF LinesInv

LEMMA StepLines == LinesInv /\ [Next]_vars => LinesInv'
<1> SUFFICES ASSUME LinesInv, [Next]_vars PROVE LinesInv'
  OBVIOUS
<1>0. TypeOK /\ TypeOK'
  BY StepTypes DEF LinesInv
<1>1. CASE LockAges
  BY <1>0, <1>1, SameLines DEF LockAges, server
<1>2. ASSUME NEW d \in Daemons, DaemonRun(d) \/ Daemon(d) \/ DaemonFails(d) PROVE LinesInv'
  <2>1. CASE ServerStop(d)
    BY <1>0, <2>1, FewerLines DEF ServerStop
  <2>2. CASE ~ServerStop(d)
    <3>1. UNCHANGED <<model, queue, client>>
      BY <1>2, <2>2 DEF Daemon, DaemonRun, DaemonFails, DaemonReadLock, DaemonWriteLock,
         ServerClear, ServerListen, DaemonUp, DaemonLeaves, DaemonRelease, DaemonExits, server
    <3> QED
      BY <1>0, <3>1, SameLines
  <2> QED
    BY <2>1, <2>2
<1>3. ASSUME NEW d \in Daemons, Signal(d), model' = model PROVE LinesInv'
  <2>1. CASE At(d, "running")
    BY <1>0, <1>3, <2>1, SameLines DEF Signal
  <2>2. CASE ~At(d, "running")
    BY <1>0, <1>3, <2>2, DieLines DEF Signal
  <2> QED
    BY <2>1, <2>2
<1>4. ASSUME NEW d \in Daemons, Interrupt(d) \/ Crash(d) PROVE LinesInv'
  BY <1>0, <1>3, <1>4, DieLines DEF Interrupt, Crash
<1>5. ASSUME NEW d \in Daemons, Change(d) \/ FileWrite(d) \/ Send(d) PROVE LinesInv'
  BY <1>0, <1>5, ChangeLines, FileWriteLines, SendLines
<1>6. ASSUME NEW c \in Clients, Join(c) PROVE LinesInv'
  <2>1. /\ path \in Daemons /\ UNCHANGED <<model, queue>>
        /\ client'[c] = [to |-> path, last |-> model[path], greeted |-> TRUE]
        /\ \A b \in Clients \ {c} : client'[b] = client[b]
    BY <1>0, <1>6 DEF Join, TypeOK
  <2>2. \A d \in Daemons : Counted(d)'
    BY <2>1 DEF LinesInv, Counted
  <2>3. \A b \in Clients : Got(b)'
    BY <2>1 DEF LinesInv, Got
  <2> QED
    BY <1>0, <2>2, <2>3 DEF LinesInv
<1>7. ASSUME NEW c \in Clients, Leave(c) PROVE LinesInv'
  <2>1. \A b \in Clients : client'[b] = client[b] \/ client'[b] = Off
    BY <1>0, <1>7 DEF Leave, TypeOK
  <2> QED
    BY <1>0, <1>7, <2>1, FewerLines DEF Leave
<1>8. ASSUME NEW u \in Users, Enter(u) \/ Command(u) \/ CommandKill(u) PROVE LinesInv'
  <2>1. CASE StopKills(u)
    <3>1. command[u].pid \in Daemons
      BY <1>0, <2>1 DEF StopKills, On, TypeOK
    <3> QED
      BY <1>0, <1>3, <2>1, <3>1, SameLines DEF StopKills
  <2>2. CASE ~StopKills(u)
    <3>1. UNCHANGED <<model, queue, client>>
      BY <1>8, <2>2 DEF Enter, Command, StopReads, ToggleReads, ToggleChecks, StartReads,
         StartClears, StartSpawns, StartWrites, StartBorder, StopWatchReads, StopWatchClears,
         StopWatchKills, CommandKill, Ends, server
    <3> QED
      BY <1>0, <3>1, SameLines
  <2> QED
    BY <2>1, <2>2
<1>9. ASSUME NEW w \in Watchers, Watcher(w) \/ WatchKill(w) PROVE LinesInv'
  BY <1>0, <1>9, SameLines DEF Watcher, WatchCheck, WatchTick, WatchEnds, WatchKill, server
<1>10. CASE UNCHANGED vars
  BY <1>0, <1>10, SameLines DEF vars, server
<1> QED
  BY <1>1, <1>2, <1>4, <1>5, <1>6, <1>7, <1>8, <1>9, <1>10 DEF Next

\* No step takes a client back.
LEMMA StepForward ==
  ASSUME LinesInv, [Next]_vars, NEW c \in Clients, client[c].to # Nobody,
         client'[c].to = client[c].to, ~client[c].greeted
  PROVE  client'[c].last >= client[c].last
<1>0. TypeOK /\ client[c] \in Lines /\ client[c].last \in Nat /\ client[c].to \in Daemons
  BY DEF LinesInv, TypeOK, Lines
<1>1. CASE \E d \in Daemons : Send(d)
  <2>1. PICK d \in Daemons : Send(d)
    BY <1>1
  <2>2. CASE client[c].to = d
    <3> DEFINE q == queue[d]
    <3>1. q \in Seq(Broadcasts) /\ q # <<>> /\ model[d] \in Nat /\ Counted(d)
      BY <2>1 DEF LinesInv, TypeOK, Send
    <3>2. 1 \in 1..Len(q) /\ Len(q) \in Nat
      BY <3>1
    <3>3. q[1].version = model[d] - Len(q) + 1
      BY <3>1, <3>2 DEF Counted
    <3>4. client'[c].last = q[1].version
      BY <2>1, <2>2 DEF Send
    <3>5. client[c].last = model[d] - Len(q)
      BY <1>0, <2>2 DEF LinesInv, Got
    <3> HIDE DEF q
    <3> QED
      BY <3>1, <3>2, <3>3, <3>4, <3>5
  <2>3. CASE client[c].to # d
    BY <1>0, <2>1, <2>3 DEF Send
  <2> QED
    BY <2>2, <2>3
<1>2. CASE ~\E d \in Daemons : Send(d)
  <2>1. client'[c] = client[c] \/ client'[c] = Off \/ Join(c)
    <3>0. \A d \in Daemons : Die(d) \/ Signal(d) => client'[c] = client[c] \/ client'[c] = Off
      BY DEF Die, Signal
    <3>1. ASSUME NEW d \in Daemons, DaemonRun(d) \/ Daemon(d) \/ DaemonFails(d) \/ Change(d)
                                    \/ FileWrite(d) \/ Interrupt(d) \/ Crash(d)
          PROVE  client'[c] = client[c] \/ client'[c] = Off
      BY <3>0, <3>1 DEF Daemon, DaemonRun, DaemonFails, DaemonReadLock, DaemonWriteLock,
         ServerClear, ServerListen, DaemonUp, DaemonLeaves, ServerStop, DaemonRelease,
         DaemonExits, Change, FileWrite, Interrupt, Crash, server
    <3>2. ASSUME NEW u \in Users, Enter(u) \/ Command(u) \/ CommandKill(u)
          PROVE  client'[c] = client[c] \/ client'[c] = Off
      <4>1. CASE StopKills(u)
        <5>1. command[u].pid \in Daemons
          BY <1>0, <4>1 DEF StopKills, On, TypeOK
        <5> QED
          BY <3>0, <4>1, <5>1 DEF StopKills
      <4>2. CASE ~StopKills(u)
        BY <3>2, <4>2 DEF Enter, Command, StopReads, ToggleReads, ToggleChecks, StartReads,
           StartClears, StartSpawns, StartWrites, StartBorder, StopWatchReads,
           StopWatchClears, StopWatchKills, CommandKill, Ends, server
      <4> QED
        BY <4>1, <4>2
    <3>3. ASSUME NEW b \in Clients, Join(b) \/ Leave(b)
          PROVE  client'[c] = client[c] \/ client'[c] = Off \/ Join(c)
      BY <1>0, <3>3 DEF Join, Leave, TypeOK
    <3>4. ASSUME NEW w \in Watchers, Watcher(w) \/ WatchKill(w) PROVE client'[c] = client[c]
      BY <3>4 DEF Watcher, WatchCheck, WatchTick, WatchEnds, WatchKill, server
    <3>5. LockAges \/ UNCHANGED vars => client'[c] = client[c]
      BY DEF LockAges, vars, server
    <3> QED
      BY <1>2, <3>1, <3>2, <3>3, <3>4, <3>5 DEF Next
  <2>2. CASE Join(c)
    BY <1>0, <2>2 DEF Join, Off
  <2>3. CASE client'[c] = Off
    BY <1>0, <2>3 DEF Off
  <2>4. CASE client'[c] = client[c]
    BY <1>0, <2>4
  <2> QED
    BY <2>1, <2>2, <2>3, <2>4
<1> QED
  BY <1>1, <1>2

\* LinesMoveForward, for any number of daemons, clients and changes: a client that got a
\* broadcast never gets an older one.
THEOREM LinesGoForward == Spec => LinesMoveForward
<1>1. LinesInv /\ [Next]_vars
        => [\A c \in Clients : client[c].to # Nobody /\ client'[c].to = client[c].to
                                 /\ ~client[c].greeted
              => client'[c].last >= client[c].last]_vars
  BY StepForward
<1> QED
  BY <1>1, InitLines, StepLines, PTL DEF Spec, LinesMoveForward

----------------------------------------------------------------------------
(* Calm runs.                                                              *)

\* One command at a time, and no daemon on its way beside it.
OneByOne ==
  /\ \A u, v \in Users : u # v => command[u] = NoCmd \/ command[v] = NoCmd
  /\ \A u \in Users, d \in Daemons : command[u] = NoCmd \/ Rests(d)
  /\ \A d, e \in Daemons : d # e => Rests(d) \/ Rests(e)

Gone(d) == daemon[d].at \in {"unborn", "dead"}
Owns(d) == daemon[d].at \in {"assembling", "binding", "listening", "running", "closing"}

Filed(d) == model[d] - Len(queue[d])
            + IF queue[d] # <<>> /\ queue[d][1].filed THEN 1 ELSE 0

OwnerOK(d) ==
  /\ Owns(d) => lock.pid = d /\ \A e \in Daemons \ {d} : Gone(e) \/ At(e, "reading")
  /\ At(d, "writing") => \A e \in Daemons \ {d} : Gone(e)
  /\ At(d, "binding") => path = Nobody
  /\ daemon[d].at \in {"listening", "running"} => path = d
FileOK(d) ==
  /\ ~Serving(d) => queue[d] = <<>>
  /\ At(d, "running") => file.lost \/ (file.by = d /\ file.version = Filed(d))
OneOwner == ~lock.old /\ \A d \in Daemons : OwnerOK(d) /\ FileOK(d)

Watching(w) == watcher[w] \notin {"unborn", "dead"}
OneWatcher ==
  /\ \A v, w \in Watchers : Watching(v) /\ Watching(w) => v = w
  /\ \A w \in Watchers : Watching(w) =>
       /\ record = w \/ \E u \in Users : command[u].at \in {"write", "term"}
       /\ border = "off" => bare \/ \E u \in Users : \/ On(u, "border")
                                                     \/ On(u, "write") /\ ~command[u].toggle
  /\ \A u \in Users :
       /\ command[u].at \in {"clear", "spawn"} => \A w \in Watchers : ~Watching(w)
       /\ command[u].at \in {"write", "clearKill", "term"} =>
            \A w \in Watchers : Watching(w) => command[u].pid = w
       /\ command[u].at \in {"watch", "clear", "spawn", "write"} /\ command[u].toggle =>
            border = "top"

CalmInv == left.calm => OneByOne /\ OneOwner /\ OneWatcher

LEMMA InitCalm == Init => CalmInv
<1> SUFFICES ASSUME Init PROVE CalmInv
  OBVIOUS
<1>1. OneByOne
  BY DEF Init, OneByOne, Rests
<1>2. OneOwner
  BY DEF Init, OneOwner, OwnerOK, FileOK, Owns, At, NoLock
<1>3. OneWatcher
  BY DEF Init, OneWatcher, Watching, NoCmd
<1> QED
  BY <1>1, <1>2, <1>3 DEF CalmInv

\* Calm is for good.
LEMMA CalmStays == TypeOK /\ [Next]_vars => left'.calm = left.calm
<1> SUFFICES ASSUME TypeOK, [Next]_vars PROVE left'.calm = left.calm
  OBVIOUS
<1> USE DEF Give, server, watch
<1>1. ASSUME NEW d \in Daemons, DaemonRun(d) \/ Daemon(d) \/ DaemonFails(d) \/ Change(d)
                                \/ FileWrite(d) \/ Send(d) \/ Interrupt(d) \/ Crash(d)
      PROVE  left'.calm = left.calm
  BY <1>1 DEF TypeOK, Daemon, DaemonRun, DaemonFails, DaemonReadLock, DaemonWriteLock,
     ServerClear, ServerListen, DaemonUp, DaemonLeaves, ServerStop, DaemonRelease,
     DaemonExits, Change, FileWrite, Send, Interrupt, Crash
<1>2. ASSUME NEW u \in Users, Enter(u) \/ Command(u) \/ CommandKill(u) PROVE left'.calm = left.calm
  BY <1>2 DEF TypeOK, Enter, Command, StopReads, StopKills, ToggleReads, ToggleChecks,
     StartReads, StartClears, StartSpawns, StartWrites, StartBorder, StopWatchReads,
     StopWatchClears, StopWatchKills, CommandKill, Ends
<1>3. ASSUME NEW c \in Clients, Join(c) \/ Leave(c) PROVE left'.calm = left.calm
  BY <1>3 DEF TypeOK, Join, Leave
<1>4. ASSUME NEW w \in Watchers, Watcher(w) \/ WatchKill(w) PROVE left'.calm = left.calm
  BY <1>4 DEF Watcher, WatchCheck, WatchTick, WatchEnds, WatchKill
<1>5. LockAges \/ UNCHANGED vars => left'.calm = left.calm
  BY DEF LockAges, vars
<1> QED
  BY <1>1, <1>2, <1>3, <1>4, <1>5 DEF Next

\* A step of a daemon on its way, or one that lays a daemon to rest.
LEMMA AlonePlaces ==
  ASSUME OneByOne, NEW d \in Daemons, command' = command,
         \A e \in Daemons \ {d} : daemon'[e] = daemon[e], ~Rests(d) \/ Rests(d)' \/ Settled
  PROVE  OneByOne'
  BY DEF OneByOne, Rests, Settled

\* A step of a command under way.
LEMMA AloneCommand ==
  ASSUME TypeOK, OneByOne, NEW u \in Users,
         command[u] # NoCmd \/ Settled, daemon' = daemon,
         \A v \in Users \ {u} : command'[v] = command[v]
  PROVE  OneByOne'
  BY DEF OneByOne, Rests, Settled

LEMMA GoPlaces ==
  ASSUME TypeOK, NEW d \in Daemons, NEW s, Go(d, s)
  PROVE  /\ daemon'[d].at = s /\ daemon'[d].told = daemon[d].told
         /\ \A e \in Daemons \ {d} : daemon'[e] = daemon[e]
  BY DEF TypeOK, Go, Places

LEMMA DiePlaces ==
  ASSUME TypeOK, NEW d \in Daemons, Die(d)
  PROVE  /\ daemon'[d].at = "dead" /\ ~daemon'[d].told
         /\ \A e \in Daemons \ {d} : daemon'[e] = daemon[e]
         /\ queue'[d] = <<>> /\ \A e \in Daemons \ {d} : queue'[e] = queue[e]
  BY DEF TypeOK, Die

LEMMA SignalPlaces ==
  ASSUME TypeOK, NEW d \in Daemons, Signal(d)
  PROVE  /\ \A e \in Daemons \ {d} : daemon'[e] = daemon[e] /\ queue'[e] = queue[e]
         /\ \/ daemon'[d].at = "running" /\ At(d, "running") /\ queue'[d] = queue[d]
            \/ daemon'[d].at = "dead" /\ ~daemon'[d].told /\ queue'[d] = <<>>
<1>1. CASE At(d, "running")
  BY <1>1 DEF TypeOK, Signal, At, Places
<1>2. CASE ~At(d, "running")
  BY <1>2, DiePlaces DEF Signal
<1> QED
  BY <1>1, <1>2

LEMMA StepOneByOne == TypeOK /\ left.calm /\ OneByOne /\ [Next]_vars => OneByOne'
<1> SUFFICES ASSUME TypeOK, left.calm, OneByOne, [Next]_vars PROVE OneByOne'
  OBVIOUS
<1>1. ASSUME NEW d \in Daemons, Daemon(d) \/ DaemonFails(d) PROVE OneByOne'
  <2>1. \A e \in Daemons \ {d} : daemon'[e] = daemon[e]
    BY <1>1, GoPlaces DEF TypeOK, Daemon, DaemonFails, DaemonReadLock, DaemonWriteLock,
       ServerClear, ServerListen, DaemonUp, DaemonLeaves, ServerStop, DaemonRelease,
       DaemonExits
  <2>2. ~Rests(d) /\ command' = command
    BY <1>1 DEF Daemon, DaemonFails, DaemonReadLock, DaemonWriteLock, ServerClear,
       ServerListen, DaemonUp, DaemonLeaves, ServerStop, DaemonRelease, DaemonExits, Rests,
       At
  <2> QED
    BY <2>1, <2>2, AlonePlaces
<1>2. ASSUME NEW d \in Daemons, DaemonRun(d) PROVE OneByOne'
  <2>1. Settled /\ command' = command /\ \A e \in Daemons \ {d} : daemon'[e] = daemon[e]
    BY <1>2, GoPlaces DEF DaemonRun, Give
  <2> QED
    BY <2>1, AlonePlaces
<1>3. ASSUME NEW d \in Daemons, Crash(d) PROVE OneByOne'
  <2>1. /\ Rests(d)' /\ command' = command
        /\ \A e \in Daemons \ {d} : daemon'[e] = daemon[e]
    BY <1>3, DiePlaces DEF Crash, Rests
  <2> QED
    BY <2>1, AlonePlaces
<1>4. ASSUME NEW d \in Daemons, Interrupt(d) PROVE OneByOne'
  <2>1. /\ command' = command /\ \A e \in Daemons \ {d} : daemon'[e] = daemon[e]
        /\ \A u \in Users : command[u] = NoCmd
        /\ \A e \in Daemons \ {d} : Rests(e)
    BY <1>4, SignalPlaces DEF Interrupt
  <2> QED
    BY <2>1 DEF OneByOne, Rests
<1>5. ASSUME NEW u \in Users, Enter(u) PROVE OneByOne'
  BY <1>5, AloneCommand DEF Enter, Give, Then, TypeOK
<1>6. ASSUME NEW u \in Users, Command(u) PROVE OneByOne'
  <2>1. command[u] # NoCmd
    BY <1>6 DEF Command, StopReads, StopKills, ToggleReads, ToggleChecks, StartReads,
       StartClears, StartSpawns, StartWrites, StartBorder, StopWatchReads, StopWatchClears,
       StopWatchKills, On, NoCmd
  <2>2. \A v \in Users \ {u} : command'[v] = command[v]
    BY <1>6 DEF Command, StopReads, StopKills, ToggleReads, ToggleChecks, StartReads,
       StartClears, StartSpawns, StartWrites, StartBorder, StopWatchReads, StopWatchClears,
       StopWatchKills, Then, Ends, Started, TypeOK
  <2>3. CASE StopKills(u)
    <3>1. command[u].pid \in Daemons /\ command'[u] = NoCmd
      BY <2>3 DEF StopKills, On, Ends, TypeOK
    <3>2. \A v \in Users : command'[v] = NoCmd
      BY <2>1, <2>2, <3>1 DEF OneByOne
    <3>3. \A e \in Daemons \ {command[u].pid} : daemon'[e] = daemon[e] /\ Rests(e)
      BY <2>1, <2>3, <3>1, SignalPlaces DEF StopKills, OneByOne
    <3> QED
      BY <3>1, <3>2, <3>3 DEF OneByOne, Rests
  <2>4. CASE ~StopKills(u)
    <3>1. daemon' = daemon
      BY <1>6, <2>4 DEF Command, StopReads, ToggleReads, ToggleChecks, StartReads,
         StartClears, StartSpawns, StartWrites, StartBorder, StopWatchReads,
         StopWatchClears, StopWatchKills
    <3> QED
      BY <2>1, <2>2, <3>1, AloneCommand
  <2> QED
    BY <2>3, <2>4
<1>7. CASE UNCHANGED <<daemon, command>>
  BY <1>7 DEF OneByOne, Rests
<1>8. /\ LockAges \/ UNCHANGED vars => UNCHANGED <<daemon, command>>
      /\ \A d \in Daemons : Change(d) \/ FileWrite(d) \/ Send(d) => UNCHANGED <<daemon, command>>
      /\ \A c \in Clients : Join(c) \/ Leave(c) => UNCHANGED <<daemon, command>>
      /\ \A w \in Watchers : Watcher(w) \/ WatchKill(w) => UNCHANGED <<daemon, command>>
  BY DEF LockAges, vars, Change, FileWrite, Send, Join, Leave, Watcher, WatchCheck,
     WatchTick, WatchEnds, WatchKill
<1>9. \A u \in Users : ~CommandKill(u)
  BY DEF CommandKill
<1> QED
  BY <1>1, <1>2, <1>3, <1>4, <1>5, <1>6, <1>7, <1>8, <1>9 DEF Next

\* Nothing changes for the owner of the lock.
LEMMA SameOwner ==
  ASSUME OneOwner, UNCHANGED <<lock, daemon, path, model, queue, file>>
  PROVE  OneOwner'
  BY DEF OneOwner, OwnerOK, FileOK, Owns, Gone, At, Serving, Filed

\* A daemon that goes on, and the files it leaves alone.
LEMMA SameFiled ==
  ASSUME NEW d \in Daemons, queue'[d] = queue[d], model' = model
  PROVE  Filed(d)' = Filed(d)
  BY DEF Filed

\* One that is laid to rest.
LEMMA RestOwner ==
  ASSUME TypeOK, OneOwner, NEW d \in Daemons, daemon'[d].at = "dead",
         \A e \in Daemons \ {d} : daemon'[e] = daemon[e] /\ queue'[e] = queue[e],
         queue'[d] = <<>>, UNCHANGED <<lock, path, model, file>>
  PROVE  OneOwner'
<1>1. ASSUME NEW x \in Daemons PROVE OwnerOK(x)'
  BY DEF OneOwner, OwnerOK, Owns, Gone, At
<1>2. ASSUME NEW x \in Daemons PROVE FileOK(x)'
  <2>1. CASE x = d
    BY <2>1 DEF FileOK, At
  <2>2. CASE x # d
    <3>1. Filed(x)' = Filed(x)
      BY <2>2, SameFiled
    <3> QED
      BY <2>2, <3>1 DEF OneOwner, FileOK, At, Serving
  <2> QED
    BY <2>1, <2>2
<1> QED
  BY <1>1, <1>2 DEF OneOwner

\* One of the daemons goes on; with the queues as they are only the lock, the path and
\* the file can be disturbed.
LEMMA GoOwner ==
  ASSUME TypeOK, OneByOne, OneOwner, left.calm, NEW d \in Daemons, Daemon(d) \/ DaemonFails(d)
  PROVE  OneOwner'
<1>0. /\ \A s : Go(d, s) => daemon'[d].at = s /\ \A e \in Daemons \ {d} : daemon'[e] = daemon[e]
      /\ \A e \in Daemons \ {d} : ~Rests(d) => Rests(e)
      /\ OwnerOK(d) /\ FileOK(d) /\ ~lock.old
  BY GoPlaces DEF OneByOne, OneOwner
<1>q. ASSUME NEW s, Go(d, s), queue' = queue, model' = model, file' = file,
             s # "running", Serving(d) => s \in {"closing", "releasing", "exiting"}
      PROVE  \A x \in Daemons : FileOK(x)'
  <2>1. \A x \in Daemons : Filed(x)' = Filed(x)
    BY <1>q, SameFiled
  <2> QED
    BY <1>0, <1>q, <2>1 DEF OneOwner, FileOK, At, Serving
<1> USE DEF OwnerOK, Owns, Gone, At
<1>1. CASE DaemonReadLock(d)
  <2>1. PICK s \in {"dead", "writing"} : Go(d, s) /\ (s = "writing" => ~LockLive)
    BY <1>1 DEF DaemonReadLock
  <2>2. \A x \in Daemons : FileOK(x)'
    BY <1>1, <1>q, <2>1 DEF DaemonReadLock, server, Serving
  <2>3. ~Rests(d)
    BY <1>1 DEF DaemonReadLock, Rests
  <2>4. ASSUME s = "writing", NEW e \in Daemons \ {d} PROVE Gone(e)
    <3>1. daemon[e].at \in {"unborn", "running", "dead"}
      BY <1>0, <2>3 DEF Rests
    <3>2. ~At(e, "running")
      <4>1. SUFFICES ASSUME At(e, "running") PROVE FALSE
        OBVIOUS
      <4>2. lock.pid = e /\ Alive(e) /\ e # Nobody /\ ~lock.old
        BY <4>1, ProcessesAssumption DEF OneOwner, Alive
      <4>3. LockLive
        BY <4>2 DEF LockLive, Status
      <4> QED
        BY <2>1, <2>4, <4>3
    <3> QED
      BY <3>1, <3>2
  <2>5. \A x \in Daemons : OwnerOK(x)'
    BY <1>0, <1>1, <2>1, <2>4 DEF OneOwner, DaemonReadLock, server
  <2> QED
    BY <1>0, <1>1, <2>2, <2>5 DEF OneOwner, DaemonReadLock
<1>2. CASE DaemonWriteLock(d)
  <2>1. \A x \in Daemons : FileOK(x)'
    BY <1>2, <1>q DEF DaemonWriteLock, server, Serving
  <2>2. \A x \in Daemons : OwnerOK(x)'
    BY <1>0, <1>2 DEF OneOwner, DaemonWriteLock, server
  <2> QED
    BY <1>2, <2>1, <2>2 DEF OneOwner, DaemonWriteLock
<1>3. CASE ServerClear(d)
  <2>1. \A x \in Daemons : FileOK(x)'
    BY <1>3, <1>q DEF ServerClear, Serving
  <2>2. \A x \in Daemons : OwnerOK(x)'
    BY <1>0, <1>3 DEF OneOwner, ServerClear
  <2> QED
    BY <1>0, <1>3, <2>1, <2>2 DEF OneOwner, ServerClear
<1>4. CASE ServerListen(d)
  <2>1. \A x \in Daemons : FileOK(x)'
    BY <1>4, <1>q DEF ServerListen, Serving
  <2>2. \A x \in Daemons : OwnerOK(x)'
    BY <1>0, <1>4 DEF OneOwner, ServerListen
  <2> QED
    BY <1>0, <1>4, <2>1, <2>2 DEF OneOwner, ServerListen
<1>5. CASE DaemonUp(d)
  <2>1. queue[d] = <<>> /\ model[d] \in Nat
    BY <1>0, <1>5 DEF DaemonUp, FileOK, Serving, TypeOK
  <2>2. Filed(d)' = model[d]
    BY <1>5, <2>1 DEF DaemonUp, Filed
  <2>3. file'.lost \/ (file'.by = d /\ file'.version = model[d])
    BY <1>5 DEF DaemonUp, FirstWrite, TypeOK
  <2>4. \A x \in Daemons : OwnerOK(x)'
    BY <1>0, <1>5 DEF OneOwner, DaemonUp
  <2>5. FileOK(d)'
    BY <1>0, <1>5, <2>2, <2>3 DEF DaemonUp, FileOK, Serving
  <2>6. ASSUME NEW x \in Daemons \ {d} PROVE FileOK(x)'
    <3>1. ~At(x, "running") /\ daemon'[x] = daemon[x] /\ queue' = queue
      BY <1>0, <1>5 DEF DaemonUp
    <3> QED
      BY <3>1 DEF OneOwner, FileOK, Serving
  <2> QED
    BY <1>0, <1>5, <2>4, <2>5, <2>6 DEF OneOwner, DaemonUp
<1>6. CASE DaemonLeaves(d) \/ (DaemonFails(d) /\ file' = file)
  <2>0. Go(d, "closing") /\ Owns(d) /\ UNCHANGED <<lock, path, model, queue, file>>
    BY <1>6 DEF DaemonLeaves, DaemonFails, server
  <2>1. \A x \in Daemons : FileOK(x)'
    BY <1>q, <2>0 DEF Serving
  <2>2. \A x \in Daemons : OwnerOK(x)'
    BY <1>0, <2>0 DEF OneOwner
  <2> QED
    BY <1>0, <2>0, <2>1, <2>2 DEF OneOwner
<1>6a. CASE DaemonFails(d) /\ file' # file
  <2>0. Go(d, "closing") /\ At(d, "listening") /\ UNCHANGED <<lock, path, model, queue>>
    BY <1>6a DEF DaemonFails
  <2>1. ASSUME NEW x \in Daemons PROVE FileOK(x)'
    <3>1. daemon'[d].at = "closing" /\ (x # d => daemon'[x] = daemon[x] /\ ~At(x, "running"))
      BY <1>0, <2>0
    <3> QED
      BY <2>0, <3>1 DEF OneOwner, FileOK, Serving
  <2>2. \A x \in Daemons : OwnerOK(x)'
    BY <1>0, <2>0 DEF OneOwner
  <2> QED
    BY <1>0, <2>0, <2>1, <2>2 DEF OneOwner
<1>7. CASE ServerStop(d)
  <2>1. \A x \in Daemons : FileOK(x)'
    BY <1>7, <1>q DEF ServerStop, Serving
  <2>2. \A x \in Daemons : OwnerOK(x)'
    BY <1>0, <1>7 DEF OneOwner, ServerStop
  <2> QED
    BY <1>0, <1>7, <2>1, <2>2 DEF OneOwner, ServerStop
<1>8. CASE DaemonRelease(d)
  <2>1. \A x \in Daemons : FileOK(x)'
    BY <1>8, <1>q DEF DaemonRelease, server, Serving
  <2>2. ASSUME NEW x \in Daemons PROVE OwnerOK(x)'
    <3>1. x # d => ~Owns(x)
      BY <1>0, <1>8 DEF OneOwner, DaemonRelease
    <3> QED
      BY <1>0, <1>8, <3>1 DEF OneOwner, DaemonRelease, server
  <2> QED
    BY <1>8, <2>1, <2>2 DEF OneOwner, DaemonRelease, NoLock
<1>9. CASE DaemonExits(d)
  BY <1>9, RestOwner DEF DaemonExits, TypeOK, server
<1> QED
  BY <1>1, <1>2, <1>3, <1>4, <1>5, <1>6, <1>6a, <1>7, <1>8, <1>9 DEF Daemon

\* Only the daemon that runs writes the file.
LEMMA ServesAlone ==
  ASSUME OneByOne, OneOwner, NEW d \in Daemons, NEW e \in Daemons \ {d}, Serving(d)
  PROVE  ~At(e, "running")
<1>1. CASE Owns(d)
  BY <1>1 DEF OneOwner, OwnerOK, Gone, At
<1>2. CASE ~Owns(d)
  <2>1. ~Rests(d)
    BY <1>2 DEF Serving, Owns, Rests
  <2>2. At(e, "running") => ~Gone(d) /\ ~At(d, "reading") /\ Owns(e)
    BY <1>2 DEF Serving, Owns, Gone, At
  <2> QED
    BY <2>2 DEF OneOwner, OwnerOK
<1> QED
  BY <1>1, <1>2

\* The queue, the model and the file of one daemon.
LEMMA ModelOwner ==
  ASSUME LinesInv, TypeOK', OneByOne, OneOwner, NEW d \in Daemons,
         Change(d) \/ FileWrite(d) \/ Send(d)
  PROVE  OneOwner'
<1> DEFINE q == queue[d]
<1>0. /\ TypeOK /\ Serving(d) /\ UNCHANGED <<daemon, lock, path>>
      /\ q \in Seq(Broadcasts) /\ Len(q) \in Nat /\ model[d] \in Nat
      /\ Counted(d) /\ FileOK(d)
  <2>1. Serving(d) /\ UNCHANGED <<daemon, lock, path>>
    BY DEF Change, FileWrite, Send, Serving, At
  <2>2. TypeOK /\ Counted(d) /\ FileOK(d)
    BY DEF LinesInv, OneOwner
  <2>3. q \in Seq(Broadcasts) /\ model[d] \in Nat
    BY <2>2 DEF TypeOK
  <2>4. Len(q) \in Nat
    BY <2>3
  <2> QED
    BY <2>1, <2>2, <2>3, <2>4
<1>1. \A x \in Daemons : OwnerOK(x)'
  BY <1>0 DEF OneOwner, OwnerOK, Owns, Gone, At
<1>2. \A e \in Daemons \ {d} : queue'[e] = queue[e] /\ ~At(e, "running")
  BY <1>0, ServesAlone DEF Change, FileWrite, Send, TypeOK
<1>3. \A e \in Daemons \ {d} : FileOK(e)'
  BY <1>0, <1>2 DEF OneOwner, FileOK, Serving, At
<1>4. At(d, "running") => file'.lost \/ (file'.by = d /\ file'.version = Filed(d)')
  <2> SUFFICES ASSUME At(d, "running")
               PROVE  file'.lost \/ (file'.by = d /\ file'.version = Filed(d)')
    OBVIOUS
  <2>0. file.lost \/ (file.by = d /\ file.version = Filed(d))
    BY <1>0 DEF FileOK
  <2>1. CASE Change(d)
    <3> DEFINE b == [version |-> model[d] + 1, filed |-> FALSE]
    <3>1. queue'[d] = Append(q, b) /\ model'[d] = model[d] + 1 /\ file' = file
      BY <1>0, <2>1 DEF Change, TypeOK
    <3>2. Len(queue'[d]) = Len(q) + 1 /\ queue'[d] # <<>>
      <4>1. Len(Append(q, b)) = Len(q) + 1
        BY <1>0
      <4>2. Len(queue'[d]) = Len(q) + 1
        BY <3>1, <4>1
      <4>3. Len(queue'[d]) # 0
        BY <1>0, <4>2
      <4> QED
        BY <4>2, <4>3
    <3>3. queue'[d][1].filed <=> q # <<>> /\ q[1].filed
      <4>1. CASE q = <<>>
        BY <3>1, <4>1
      <4>2. CASE q # <<>>
        <5>1. Append(q, b)[1] = q[1]
          BY <1>0, <4>2
        <5> QED
          BY <3>1, <4>2, <5>1
      <4> QED
        BY <4>1, <4>2
    <3> HIDE DEF q
    <3>4. model'[d] - Len(queue'[d]) = model[d] - Len(q)
      BY <1>0, <3>1, <3>2
    <3>5. Filed(d)' = Filed(d)
      <4> DEFINE n == Len(queue'[d])
                 m == Len(q)
                 f == queue'[d][1].filed
                 g == q # <<>> /\ q[1].filed
      <4>1. Filed(d)' = model'[d] - n + IF f THEN 1 ELSE 0
        BY <3>2 DEF Filed
      <4>2. Filed(d) = model[d] - m + IF g THEN 1 ELSE 0
        BY DEF Filed, q
      <4>3. (f <=> g) /\ model'[d] - n = model[d] - m
        BY <3>3, <3>4
      <4> HIDE DEF n, m, f, g
      <4> QED
        BY <4>1, <4>2, <4>3
    <3> QED
      BY <2>0, <3>1, <3>5
  <2>2. CASE FileWrite(d)
    <3> DEFINE q2 == [q EXCEPT ![1].filed = TRUE]
    <3>1. q # <<>> /\ 1 \in 1..Len(q)
      BY <1>0, <2>2 DEF FileWrite
    <3>2. Len(q2) = Len(q) /\ q2[1].filed
      BY <1>0, <3>1 DEF Broadcasts
    <3>3. queue'[d] = q2 /\ model' = model
      BY <1>0, <2>2 DEF FileWrite, TypeOK
    <3>4. q[1].version = model[d] - Len(q) + 1
      BY <1>0, <3>1 DEF Counted
    <3> HIDE DEF q2
    <3>5. queue'[d] # <<>>
      BY <1>0, <3>1, <3>2, <3>3
    <3>6. Filed(d)' = model[d] - Len(q) + 1
      BY <3>2, <3>3, <3>5 DEF Filed
    <3>7. file'.lost \/ (file'.by = d /\ file'.version = q[1].version)
      <4>1. CASE file' = [by |-> d, version |-> Head(queue[d]).version, lost |-> FALSE]
        BY <3>1, <4>1
      <4>2. CASE file' = [file EXCEPT !.lost = TRUE]
        BY <1>0, <4>2 DEF TypeOK
      <4> QED
        BY <2>2, <4>1, <4>2 DEF FileWrite
    <3> QED
      BY <3>4, <3>6, <3>7
  <2>3. CASE Send(d)
    <3>1. q # <<>> /\ q[1].filed
      BY <1>0, <2>3 DEF Send
    <3>2. queue'[d] = Tail(q) /\ model' = model /\ file' = file
      BY <1>0, <2>3 DEF Send, TypeOK
    <3>3. Len(Tail(q)) = Len(q) - 1
      BY <1>0, <3>1
    <3>4. Tail(q) # <<>> => ~Tail(q)[1].filed
      <4>1. ASSUME Tail(q) # <<>> PROVE 2 \in 2..Len(q) /\ Tail(q)[1] = q[2]
        BY <1>0, <3>1, <4>1
      <4> QED
        BY <1>0, <4>1 DEF Counted
    <3>5. Filed(d)' = model[d] - Len(Tail(q))
      <4>1. Filed(d)' = model[d] - Len(Tail(q)) + 0
        BY <3>2, <3>4 DEF Filed
      <4> QED
        BY <1>0, <3>3, <4>1
    <3>6. Filed(d) = model[d] - Len(q) + 1
      BY <3>1 DEF Filed
    <3>7. Filed(d)' = Filed(d)
      BY <1>0, <3>3, <3>5, <3>6
    <3> QED
      BY <2>0, <3>2, <3>7
  <2> QED
    BY <2>1, <2>2, <2>3
<1>5. FileOK(d)'
  BY <1>0, <1>4 DEF FileOK, Serving, At
<1> QED
  BY <1>0, <1>1, <1>3, <1>5 DEF OneOwner

\* A daemon that is signalled.
LEMMA SignalOwner ==
  ASSUME TypeOK, OneOwner, NEW d \in Daemons, Signal(d), UNCHANGED <<lock, path, model, file>>
  PROVE  OneOwner'
<1>1. CASE daemon'[d].at = "dead" /\ queue'[d] = <<>>
  BY <1>1, RestOwner, SignalPlaces
<1>2. CASE daemon'[d].at = "running" /\ At(d, "running") /\ queue'[d] = queue[d]
  <2>1. \A x \in Daemons : daemon'[x].at = daemon[x].at /\ queue'[x] = queue[x]
    BY <1>2, SignalPlaces DEF At
  <2>2. \A x \in Daemons : Filed(x)' = Filed(x)
    BY <2>1, SameFiled
  <2> QED
    BY <2>1, <2>2 DEF OneOwner, OwnerOK, FileOK, Owns, Gone, At, Serving
<1> QED
  BY <1>1, <1>2, SignalPlaces

LEMMA RunOwner ==
  ASSUME TypeOK, left.calm, OneOwner, NEW d \in Daemons, DaemonRun(d)
  PROVE  OneOwner'
<1>1. /\ daemon'[d].at = "reading" /\ \A e \in Daemons \ {d} : daemon'[e] = daemon[e]
      /\ At(d, "unborn") /\ UNCHANGED <<lock, path, model, queue, file>>
  BY GoPlaces DEF DaemonRun, server
<1>2. \A x \in Daemons : Filed(x)' = Filed(x)
  BY <1>1, SameFiled
<1>3. \A x \in Daemons : ~At(x, "writing")
  BY DEF DaemonRun, Give, Settled, Rests, At
<1> QED
  BY <1>1, <1>2, <1>3 DEF OneOwner, OwnerOK, FileOK, Owns, Gone, At, Serving

LEMMA StepOneOwner ==
  LinesInv /\ left.calm /\ OneByOne /\ OneOwner /\ [Next]_vars => OneOwner'
<1> SUFFICES ASSUME LinesInv, left.calm, OneByOne, OneOwner, [Next]_vars PROVE OneOwner'
  OBVIOUS
<1>0. TypeOK /\ TypeOK'
  BY StepTypes DEF LinesInv
<1>1. ASSUME NEW d \in Daemons,
             Daemon(d) \/ DaemonFails(d) \/ DaemonRun(d) \/ Change(d) \/ FileWrite(d) \/ Send(d)
      PROVE  OneOwner'
  BY <1>0, <1>1, GoOwner, RunOwner, ModelOwner
<1>2. ASSUME NEW d \in Daemons, Interrupt(d) \/ Crash(d) PROVE OneOwner'
  BY <1>0, <1>2, SignalOwner, DiePlaces, RestOwner DEF Interrupt, Crash
<1>3. ASSUME NEW u \in Users, Enter(u) \/ Command(u) \/ CommandKill(u) PROVE OneOwner'
  <2>1. CASE StopKills(u)
    <3>1. command[u].pid \in Daemons
      BY <1>0, <2>1 DEF StopKills, On, TypeOK
    <3> QED
      BY <1>0, <2>1, <3>1, SignalOwner, SameOwner DEF StopKills
  <2>2. CASE ~StopKills(u)
    <3>1. UNCHANGED <<lock, daemon, path, model, queue, file>>
      BY <1>3, <2>2 DEF Enter, Command, StopReads, ToggleReads, ToggleChecks, StartReads,
         StartClears, StartSpawns, StartWrites, StartBorder, StopWatchReads, StopWatchClears,
         StopWatchKills, CommandKill, Ends, server
    <3> QED
      BY <3>1, SameOwner
  <2> QED
    BY <2>1, <2>2
<1>4. ~LockAges
  BY DEF LockAges
<1>5. /\ \A c \in Clients : Join(c) \/ Leave(c) => UNCHANGED <<lock, daemon, path, model, queue, file>>
      /\ \A w \in Watchers : Watcher(w) \/ WatchKill(w) => UNCHANGED <<lock, daemon, path, model, queue, file>>
      /\ UNCHANGED vars => UNCHANGED <<lock, daemon, path, model, queue, file>>
  BY DEF Join, Leave, Watcher, WatchCheck, WatchTick, WatchEnds, WatchKill, vars, server
<1> QED
  BY <1>1, <1>2, <1>3, <1>4, <1>5, SameOwner DEF Next

\* The commands about the watcher, one at a time.
LEMMA SameWatcher ==
  ASSUME OneWatcher, UNCHANGED <<record, watcher, command>>,
         UNCHANGED <<border, bare>> \/ border' = "top"
  PROVE  OneWatcher'
  BY DEF OneWatcher, Watching, On

\* A command that is given or goes on, and touches no watcher.
LEMMA CommandWatcher ==
  ASSUME TypeOK, OneByOne, left.calm, OneWatcher, NEW u \in Users, Enter(u) \/ Command(u)
  PROVE  OneWatcher'
<1>0. \A v \in Users \ {u} : command[v] = NoCmd /\ command'[v] = NoCmd
  <2>1. command[u] # NoCmd \/ \A v \in Users : command[v] = NoCmd
    <3>1. Enter(u) => \A v \in Users : command[v] = NoCmd
      BY DEF Enter, Give, Settled
    <3>2. Command(u) => command[u] # NoCmd
      BY DEF Command, StopReads, StopKills, ToggleReads, ToggleChecks, StartReads,
         StartClears, StartSpawns, StartWrites, StartBorder, StopWatchReads,
         StopWatchClears, StopWatchKills, On, NoCmd
    <3> QED
      BY <3>1, <3>2
  <2>2. \A v \in Users \ {u} : command[v] = NoCmd
    BY <2>1 DEF OneByOne
  <2>3. \A v \in Users \ {u} : command'[v] = command[v]
    BY DEF Enter, Command, StopReads, StopKills, ToggleReads, ToggleChecks, StartReads,
       StartClears, StartSpawns, StartWrites, StartBorder, StopWatchReads, StopWatchClears,
       StopWatchKills, Then, Ends, Started, TypeOK
  <2> QED
    BY <2>2, <2>3
<1>1. /\ NoCmd.at = "none" /\ ~NoCmd.toggle
      /\ \A s : Then(u, s) => /\ command'[u].at = s /\ command'[u].pid = command[u].pid
                              /\ command'[u].toggle = command[u].toggle
      /\ Ends(u) => command'[u] = NoCmd
  <2>1. NoCmd.at = "none" /\ ~NoCmd.toggle
    BY DEF NoCmd
  <2>2. command[u] \in Commands /\ command \in [Users -> Commands]
    BY DEF TypeOK
  <2> QED
    BY <2>1, <2>2 DEF Then, Ends, Commands
<1>a. \A s, x : command' = [command EXCEPT ![u].at = s, ![u].pid = x]
        => /\ command'[u].at = s /\ command'[u].pid = x
           /\ command'[u].toggle = command[u].toggle
  BY DEF TypeOK, Commands
<1>b. command' = [command EXCEPT ![u].at = "watch", ![u].toggle = TRUE]
        => command'[u].at = "watch"
  BY DEF TypeOK, Commands
<1>c. /\ \A w \in Watchers : Alive(w) <=> Watching(w)
      /\ Alive(record) => record \in Watchers
  BY ProcessesAssumption DEF Alive, Watching, TypeOK
<1> USE DEF OneWatcher, Watching, On
<1>2. CASE Enter(u)
  BY <1>0, <1>1, <1>a, <1>b, <1>c, <1>2 DEF Enter, Give, Settled, watch, server
<1>3. CASE StopReads(u) \/ StopKills(u)
  <2>1. command'[u].at \in {"kill", "none"} /\ UNCHANGED <<record, watcher, border, bare>>
    <3>1. command'[u].at \in {"kill", "none"}
      <4>1. Ends(u) => command'[u].at = "none"
        BY <1>1
      <4>2. command' = [command EXCEPT ![u].at = "kill", ![u].pid = lock.pid]
              => command'[u].at = "kill"
        BY <1>a
      <4>3. Ends(u) \/ command' = [command EXCEPT ![u].at = "kill", ![u].pid = lock.pid]
        BY <1>3 DEF StopReads, StopKills
      <4> QED
        BY <4>1, <4>2, <4>3
    <3>2. UNCHANGED <<record, watcher, border, bare>>
      BY <1>3 DEF StopReads, StopKills, watch, server
    <3> QED
      BY <3>1, <3>2
  <2>2. command[u].at \in {"stopDaemon", "kill"}
    BY <1>3 DEF StopReads, StopKills
  <2> QED
    BY <1>0, <1>1, <2>1, <2>2
<1>4. CASE ToggleReads(u)
  BY <1>0, <1>1, <1>a, <1>b, <1>c, <1>4 DEF ToggleReads, watch, server
<1>5. CASE ToggleChecks(u)
  BY <1>0, <1>1, <1>a, <1>b, <1>c, <1>5 DEF ToggleChecks, Shows, watch, server, TypeOK
<1>6. CASE StartReads(u)
  BY <1>0, <1>1, <1>a, <1>b, <1>c, <1>6 DEF StartReads, Started, watch, server
<1>7. CASE StartClears(u)
  BY <1>0, <1>1, <1>a, <1>b, <1>c, <1>7 DEF StartClears, watch, server
<1>8. CASE StartSpawns(u)
  <2>1. CASE watcher' = watcher /\ Ends(u)
    BY <1>0, <1>1, <1>8, <2>1 DEF StartSpawns, server
  <2>2. ASSUME NEW w \in Watchers, watcher' = [watcher EXCEPT ![w] = "loop"],
               command' = [command EXCEPT ![u].at = "write", ![u].pid = w]
        PROVE  OneWatcher'
    <3>1. /\ command'[u].at = "write" /\ command'[u].pid = w
          /\ command'[u].toggle = command[u].toggle
          /\ command[u].at = "spawn" /\ UNCHANGED <<record, border, bare>>
      <4>1. /\ command'[u].at = "write" /\ command'[u].pid = w
            /\ command'[u].toggle = command[u].toggle
        BY <1>a, <2>2
      <4>2. command[u].at = "spawn" /\ UNCHANGED <<record, border, bare>>
        BY <1>8 DEF StartSpawns
      <4> QED
        BY <4>1, <4>2
    <3>2. \A v \in Watchers : Watching(v)' => v = w
      BY <2>2, <3>1 DEF TypeOK
    <3> QED
      BY <1>0, <1>1, <3>1, <3>2
  <2> QED
    BY <1>8, <2>1, <2>2 DEF StartSpawns
<1>9. CASE StartWrites(u)
  BY <1>0, <1>1, <1>a, <1>b, <1>c, <1>9 DEF StartWrites, Started, watch, server
<1>10. CASE StartBorder(u)
  BY <1>0, <1>1, <1>a, <1>b, <1>c, <1>10 DEF StartBorder, Shows, watch, server
<1>11. CASE StopWatchReads(u)
  <2>1. /\ command'[u].at = "clearKill" /\ command'[u].pid = record
        /\ command[u].at = "watchStop" /\ UNCHANGED <<record, watcher, border, bare>>
    <3>1. command' = [command EXCEPT ![u].at = "clearKill", ![u].pid = record]
      BY <1>11 DEF StopWatchReads
    <3>2. command'[u].at = "clearKill" /\ command'[u].pid = record
      BY <1>a, <3>1
    <3> QED
      BY <1>11, <3>2 DEF StopWatchReads, watch, server
  <2>2. \A w \in Watchers : Watching(w) => record = w /\ (border # "off" \/ bare)
    BY <1>0, <1>1, <2>1
  <2> QED
    BY <1>0, <1>1, <2>1, <2>2
<1>12. CASE StopWatchClears(u)
  BY <1>0, <1>1, <1>a, <1>b, <1>c, <1>12 DEF StopWatchClears, watch, server
<1>13. CASE StopWatchKills(u)
  <2>1. command'[u].at = "none" /\ command[u].at = "term"
    BY <1>1, <1>13 DEF StopWatchKills
  <2>2. \A w \in Watchers : Watching(w) => command[u].pid = w
    BY <2>1
  <2>3. \A w \in Watchers : ~Watching(w)'
    BY <1>13, <1>c, <2>2 DEF StopWatchKills, TypeOK
  <2> QED
    BY <1>0, <1>1, <2>1, <2>3
<1> QED
  BY <1>2, <1>3, <1>4, <1>5, <1>6, <1>7, <1>8, <1>9, <1>10, <1>11, <1>12, <1>13 DEF Command

\* A watcher that looks, ticks or ends.
LEMMA LoopWatcher ==
  ASSUME TypeOK, OneByOne, OneWatcher, NEW w \in Watchers, Watcher(w) \/ WatchKill(w)
  PROVE  OneWatcher'
<1>1. /\ UNCHANGED <<command, border, bare>> /\ Watching(w)
      /\ \A v \in Watchers \ {w} : watcher'[v] = watcher[v] /\ ~Watching(v)
  <2>1. UNCHANGED <<command, border, bare>>
    BY DEF Watcher, WatchCheck, WatchTick, WatchEnds, WatchKill
  <2>2. Watching(w)
    BY ProcessesAssumption DEF Watcher, WatchCheck, WatchTick, WatchEnds, WatchKill, Watching,
       Alive
  <2>3. \A v \in Watchers \ {w} : watcher'[v] = watcher[v]
    BY DEF Watcher, WatchCheck, WatchTick, WatchEnds, WatchKill, TypeOK
  <2> QED
    BY <2>1, <2>2, <2>3 DEF OneWatcher
<1>2. CASE WatchCheck(w) \/ WatchTick(w)
  <2>1. record' = record
    BY <1>2 DEF WatchCheck, WatchTick
  <2> QED
    BY <1>1, <2>1 DEF OneWatcher, Watching, On
<1>3. CASE WatchEnds(w)
  <2>1. \A v \in Watchers : ~Watching(v)'
    BY <1>1, <1>3 DEF WatchEnds, Watching, TypeOK
  <2> QED
    BY <1>1, <2>1 DEF OneWatcher, On
<1>4. CASE WatchKill(w)
  <2>1. record' = record /\ \A v \in Watchers : ~Watching(v)'
    BY <1>1, <1>4 DEF WatchKill, Watching, TypeOK
  <2> QED
    BY <1>1, <2>1 DEF OneWatcher, On
<1> QED
  BY <1>2, <1>3, <1>4 DEF Watcher

LEMMA StepOneWatcher ==
  TypeOK /\ left.calm /\ OneByOne /\ OneWatcher /\ [Next]_vars => OneWatcher'
<1> SUFFICES ASSUME TypeOK, left.calm, OneByOne, OneWatcher, [Next]_vars PROVE OneWatcher'
  OBVIOUS
<1>1. ASSUME NEW d \in Daemons, Daemon(d) \/ DaemonFails(d) \/ DaemonRun(d) \/ Change(d)
                                \/ FileWrite(d) \/ Send(d) \/ Interrupt(d) \/ Crash(d)
      PROVE  OneWatcher'
  BY <1>1, SameWatcher
     DEF Daemon, DaemonRun, DaemonFails, DaemonReadLock, DaemonWriteLock, ServerClear,
         ServerListen, DaemonUp, DaemonLeaves, ServerStop, DaemonRelease, DaemonExits, Change,
         FileWrite, Send, Interrupt, Crash, Shows, watch
<1>2. ASSUME NEW c \in Clients, Join(c) \/ Leave(c) PROVE OneWatcher'
  BY <1>2, SameWatcher DEF Join, Leave, watch
<1>3. CASE LockAges \/ UNCHANGED vars
  BY <1>3, SameWatcher DEF LockAges, vars, watch
<1>4. \A u \in Users : ~CommandKill(u)
  BY DEF CommandKill
<1> QED
  BY <1>1, <1>2, <1>3, <1>4, CommandWatcher, LoopWatcher DEF Next

LEMMA StepCalm == LinesInv /\ CalmInv /\ [Next]_vars => CalmInv'
<1> SUFFICES ASSUME LinesInv, CalmInv, [Next]_vars, left'.calm PROVE CalmInv'
  BY DEF CalmInv
<1>1. TypeOK
  BY DEF LinesInv
<1>2. left.calm
  BY <1>1, CalmStays
<1> QED
  BY <1>1, <1>2, StepOneByOne, StepOneOwner, StepOneWatcher DEF CalmInv

\* CalmRuns, for any number of daemons, watchers and terminals: commands that follow one
\* another and run to their end leave one daemon, which its lock and its path lead to, and
\* at most one watcher, under a border unless tmux refused to show it.
THEOREM CalmIsKept == Spec => []CalmRuns
<1>1. LinesInv /\ CalmInv => CalmRuns
  <2> SUFFICES ASSUME LinesInv, CalmInv, left.calm PROVE CalmDaemons /\ CalmWatchers
    BY DEF CalmRuns
  <2>1. OneOwner /\ OneWatcher
    BY DEF CalmInv
  <2>2. CalmDaemons
    BY <2>1, ProcessesAssumption DEF OneOwner, OwnerOK, Owns, Gone, At, Alive, CalmDaemons
  <2>3. \A w \in Watchers : Alive(w) <=> Watching(w)
    BY ProcessesAssumption DEF Alive, Watching
  <2>4. CalmWatchers
    <3> SUFFICES ASSUME NEW w \in Watchers, Alive(w), Settled
                 PROVE  (border = "top" \/ bare) /\ \A v \in Watchers : Alive(v) => v = w
      BY DEF CalmWatchers
    <3>1. \A u \in Users : command[u].at = "none"
      BY DEF Settled, NoCmd
    <3>2. border # "off" \/ bare
      BY <2>1, <2>3, <3>1 DEF OneWatcher, On
    <3>3. \A v \in Watchers : Alive(v) => v = w
      BY <2>1, <2>3 DEF OneWatcher
    <3> QED
      BY <3>2, <3>3 DEF LinesInv, TypeOK
  <2> QED
    BY <2>2, <2>4
<1> QED
  BY <1>1, InitLines, InitCalm, StepLines, StepCalm, PTL DEF Spec

\* QuietIsCurrent, for any number of daemons and clients: when nothing is on its way every
\* client has the present model, whatever crosses.  Only in a calm run has the file, too,
\* unless its last write failed.
THEOREM QuietIsKept == Spec => []QuietIsCurrent
<1>1. LinesInv /\ CalmInv => QuietIsCurrent
  <2> SUFFICES ASSUME LinesInv, CalmInv, NEW d \in Running, queue[d] = <<>>
               PROVE  /\ \A c \in Clients : client[c].to = d => client[c].last = model[d]
                      /\ left.calm => file.lost \/ (file.by = d /\ file.version = model[d])
    BY DEF QuietIsCurrent
  <2>1. d \in Daemons /\ At(d, "running") /\ model[d] \in Nat /\ Len(queue[d]) = 0
    BY DEF Running, At, LinesInv, TypeOK
  <2>2. \A c \in Clients : client[c].to = d => client[c].last = model[d]
    BY <2>1 DEF LinesInv, Got
  <2>3. Filed(d) = model[d]
    BY <2>1 DEF Filed
  <2>4. left.calm => file.lost \/ (file.by = d /\ file.version = model[d])
    BY <2>1, <2>3 DEF CalmInv, OneOwner, FileOK
  <2> QED
    BY <2>2, <2>4
<1> QED
  BY <1>1, InitLines, InitCalm, StepLines, StepCalm, PTL DEF Spec
=============================================================================
