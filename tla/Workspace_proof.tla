-------------------------- MODULE Workspace_proof --------------------------
(***************************************************************************)
(* The daemon's tick for every set of panes, cooldown, size of the log and *)
(* choice of faults: types, a model that follows tmux between ticks,       *)
(* rounds of messages that are finished and logged, and announcements that *)
(* are spaced as long as the memory probe does not fail.                   *)
(*                                                                         *)
(* Within a tick the model is ahead of the registry or behind it; the      *)
(* invariant says, at each place, which panes are still to be dealt with:  *)
(* while panes leave, those that have an entry and are no longer known are *)
(* either marked or in `todo`; while panes are watched, the known ones     *)
(* without an entry are in `todo`.                                         *)
(***************************************************************************)
EXTENDS Workspace, SequenceTheorems, TLAPS

Sensored == {p \in Panes : sensors[p] # "none"}

\* Where a tick is with the panes of its diff.
FollowInv ==
  /\ pc \in {"idle", "resolve"} =>
       /\ entries = known /\ gone = {} /\ todo = {} /\ Sensored = known
  /\ pc \in {"leave", "watch", "warn"} => known = listed
  /\ pc = "leave" =>
       /\ todo \subseteq entries \ known /\ gone = (entries \ known) \ todo
       /\ Sensored = (entries \intersect known) \union todo
  /\ pc = "watch" =>
       /\ gone = entries \ known /\ known \ todo \subseteq entries /\ todo \subseteq known
       /\ Sensored = entries \intersect known
  /\ pc = "warn" =>
       /\ gone = entries \ known /\ known \subseteq entries
       /\ Sensored = known
  /\ piping \subseteq Sensored /\ linked \subseteq entries

\* What the guardian takes for a drop was one, unless the probe fails.
DropInv ==
  /\ ~high => eased
  /\ below => eased

Inv == TypeOK /\ FollowInv

\* The bounds one by one.
LEMMA Bounds ==
  Cooldown \in Nat /\ Cooldown >= 1 /\ LogSize \in Nat /\ LogSize >= 1 /\ MaxCrashes \in Nat
  BY BoundsAssumption

----------------------------------------------------------------------------
(* The guardian log.                                                       *)

\* An action that is logged is the last one in the log, which keeps its size.
LEMMA LoggedIsLast ==
  ASSUME NEW action \in Actions, log \in Seq(Actions), Len(log) <= LogSize, Logged(action)
  PROVE  /\ log' \in Seq(Actions) /\ Len(log') <= LogSize
         /\ log'[Len(log')] = action
<1> DEFINE longer == Append(log, action)
<1>1. LogSize \in Nat \ {0}
  BY Bounds
<1>2. longer \in Seq(Actions) /\ Len(longer) = Len(log) + 1 /\ Len(log) \in Nat
  OBVIOUS
<1>3. longer[Len(longer)] = action
  BY <1>2
<1>4. log' = IF Len(longer) > LogSize THEN Tail(longer) ELSE longer
  BY DEF Logged
<1>5. CASE Len(longer) > LogSize
  <2>1. log' = Tail(longer) /\ Len(longer) >= 2 /\ longer # <<>>
    BY <1>1, <1>2, <1>4, <1>5
  <2>2. log' \in Seq(Actions) /\ Len(log') = Len(longer) - 1
    BY <2>1, <1>2, HeadTailProperties
  <2>3. log'[Len(log')] = longer[Len(log') + 1]
    <3>1. Len(log') \in 1 .. Len(Tail(longer))
      BY <2>1, <2>2, <1>2
    <3> QED
      BY <3>1, <2>1, <1>2
  <2> QED
    BY <2>1, <2>2, <2>3, <1>2, <1>3
<1>6. CASE ~(Len(longer) > LogSize)
  BY <1>1, <1>2, <1>3, <1>4, <1>6
<1> QED
  BY <1>5, <1>6

----------------------------------------------------------------------------
(* Types.                                                                  *)

\* The type invariant holds initially.
LEMMA InitType == Init => TypeOK
<1> SUFFICES ASSUME Init PROVE TypeOK
  OBVIOUS
<1>1. Len(<<>>) = 0 /\ <<>> \in Seq(Actions)
  OBVIOUS
<1>2. log \in Seq(Actions) /\ Len(log) <= LogSize
  BY <1>1, Bounds DEF Init
<1>3. eased \in BOOLEAN /\ fired \in BOOLEAN /\ below \in BOOLEAN /\ high \in BOOLEAN
  BY Zenon DEF Init
<1>4. sensors \in [Panes -> Kinds] /\ pc \in Places
  BY DEF Init, Kinds, Places
<1>5. age \in 0 .. Cooldown /\ crashes \in 0 .. MaxCrashes /\ policy \in Policies
  BY Bounds DEF Init
<1> QED
  BY <1>2, <1>3, <1>4, <1>5 DEF Init, TypeOK

\* The world's steps keep the types.
LEMMA WorldType == TypeOK /\ Environment => TypeOK'
<1> SUFFICES ASSUME TypeOK, Environment PROVE TypeOK'
  OBVIOUS
<1> USE DEF TypeOK, worldOnly, registry, model, guardian
<1>1. ASSUME NEW p \in Panes, OpenPane(p) PROVE TypeOK'
  BY <1>1 DEF OpenPane
<1>2. ASSUME NEW p \in Panes, ClosePane(p) PROVE TypeOK'
  BY <1>2 DEF ClosePane
<1>3. ASSUME NEW p \in Panes, StartAgent(p) PROVE TypeOK'
  BY <1>3 DEF StartAgent
<1>4. ASSUME NEW p \in Panes, IndexSession(p) PROVE TypeOK'
  BY <1>4 DEF IndexSession
<1>5. CASE MemoryMoves
  BY <1>5 DEF MemoryMoves
<1> QED
  BY <1>1, <1>2, <1>3, <1>4, <1>5 DEF Environment

\* The clock keeps its type.
LEMMA ClockType == TypeOK /\ Clock => age' \in 0 .. Cooldown
  BY Bounds DEF TypeOK, Clock

\* The end of a tick keeps the types of what it touches.
LEMMA EvictType ==
  TypeOK /\ Evict =>
    /\ entries' \subseteq Panes /\ gone' \subseteq Panes /\ linked' \subseteq Panes
    /\ pc' \in Places
    /\ listed' \subseteq Panes /\ resolved' \subseteq Panes /\ todo' \subseteq Panes
  BY DEF TypeOK, Evict, Places

\* The guardian's decision keeps the types.
LEMMA MeasureType == TypeOK /\ Measure => TypeOK'
<1> SUFFICES ASSUME TypeOK, Measure PROVE TypeOK'
  OBVIOUS
<1> USE DEF TypeOK, world, registry
<1>1. ASSUME NEW over \in BOOLEAN, Stay(over) PROVE TypeOK'
  BY <1>1, EvictType DEF Stay, Quiet, Measure
<1>2. CASE LogOnly
  BY <1>2, EvictType, LoggedIsLast DEF LogOnly, Quiet, Measure, Actions
<1>3. CASE Notify
  <2>1. log' \in Seq(Actions) /\ Len(log') <= LogSize
    BY <1>3, LoggedIsLast DEF Notify, Actions
  <2>2. 0 \in 0 .. Cooldown
    BY Bounds
  <2> QED
    BY <1>3, <2>1, <2>2, EvictType DEF Notify, Fire, Measure
<1>4. CASE Broadcast
  <2>1. 0 \in 0 .. Cooldown
    BY Bounds
  <2> QED
    BY <1>4, <2>1 DEF Broadcast, Fire, model, Measure, Places
<1> QED
  BY <1>1, <1>2, <1>3, <1>4 DEF Measure

\* Every step keeps the types.
LEMMA NextType == TypeOK /\ [Next]_vars => TypeOK'
<1> SUFFICES ASSUME TypeOK, [Next]_vars PROVE TypeOK'
  OBVIOUS
<1> USE DEF world, registry, model, guardian
<1>1. CASE Environment
  BY <1>1, WorldType
<1>2. CASE List
  BY <1>2, ClockType DEF List, TypeOK, Places
<1>3. CASE ListFails
  BY <1>3, ClockType DEF ListFails, TypeOK
<1>4. CASE Resolve
  BY <1>4 DEF Resolve, Resolvable, TypeOK, Places
<1>5. ASSUME NEW p \in Panes, Leave(p) PROVE TypeOK'
  BY <1>5 DEF Leave, TypeOK, Kinds
<1>6. CASE StartWatching
  BY <1>6 DEF StartWatching, TypeOK, Places
<1>7. ASSUME NEW p \in Panes, Watch(p) PROVE TypeOK'
  <2>1. SensorOf(p) \in Kinds
    BY DEF TypeOK, SensorOf, Kinds
  <2>2. piping' \subseteq Panes /\ pipes' \subseteq Panes
    BY <1>7 DEF Watch, StartPipe, PipePane, TypeOK
  <2> QED
    BY <1>7, <2>1, <2>2 DEF Watch, TypeOK
<1>8. CASE MeasureFails
  BY <1>8, EvictType DEF MeasureFails, TypeOK
<1>9. CASE Measure
  BY <1>9, MeasureType
<1>10. ASSUME NEW p \in Panes, Warn(p) PROVE TypeOK'
  BY <1>10 DEF Warn, TypeOK
<1>11. CASE LogWarning
  BY <1>11, EvictType, LoggedIsLast DEF LogWarning, TypeOK, Actions
<1>12. CASE Crash
  <2>1. Len(<<>>) = 0 /\ <<>> \in Seq(Actions)
    OBVIOUS
  <2>2. log' \in Seq(Actions) /\ Len(log') <= LogSize
    BY <1>12, <2>1, Bounds DEF Crash
  <2>3. eased' \in BOOLEAN
    BY <1>12, Zenon DEF Crash
  <2>4. crashes' \in 0 .. MaxCrashes /\ age' \in 0 .. Cooldown
    BY <1>12, Bounds DEF Crash, TypeOK
  <2>5. sensors' \in [Panes -> Kinds] /\ pc' \in Places
    BY <1>12 DEF Crash, Kinds, Places
  <2> QED
    BY <1>12, <2>2, <2>3, <2>4, <2>5 DEF Crash, TypeOK
<1>13. CASE UNCHANGED vars
  BY <1>13 DEF vars, TypeOK
<1> QED
  BY <1>1, <1>2, <1>3, <1>4, <1>5, <1>6, <1>7, <1>8, <1>9, <1>10, <1>11, <1>12, <1>13
     DEF Next, LeaveSome, WatchSome, WarnSome

\* Types are right in every behaviour.
THEOREM TypeCorrect == Spec => []TypeOK
<1>1. TypeOK /\ [Next]_vars => TypeOK'
  BY NextType
<1> QED
  BY <1>1, InitType, PTL DEF Spec

----------------------------------------------------------------------------
(* The model follows tmux.                                                 *)

\* What a tick leaves behind when it ends with everything watched.
LEMMA EvictFollows ==
  ASSUME TypeOK, FollowInv, pc \in {"watch", "warn"}, todo = {}, Evict,
         UNCHANGED <<known, sensors, piping>>
  PROVE  FollowInv'
<1>1. gone = entries \ known /\ known \subseteq entries /\ Sensored = known
  BY DEF FollowInv
<1>2. entries' = known' /\ linked' \subseteq entries'
  BY <1>1 DEF Evict, FollowInv
<1>3. Sensored' = known' /\ piping' \subseteq known'
  BY <1>1 DEF Sensored, FollowInv
<1> QED
  BY <1>2, <1>3 DEF Evict, FollowInv

\* A step that leaves alone what the invariant speaks of.
LEMMA ElsewhereFollows ==
  ASSUME FollowInv,
         UNCHANGED <<pc, listed, todo, known, sensors, piping, entries, gone, linked>>
  PROVE  FollowInv'
  BY DEF FollowInv, Sensored

\* Every step keeps the place of the panes of the diff.
LEMMA NextFollows == TypeOK /\ FollowInv /\ [Next]_vars => FollowInv'
<1> SUFFICES ASSUME TypeOK, FollowInv, [Next]_vars PROVE FollowInv'
  OBVIOUS
<1>1. CASE Environment
  <2>1. UNCHANGED <<pc, listed, todo, known, sensors, piping, entries, gone, linked>>
    BY <1>1 DEF Environment, OpenPane, ClosePane, StartAgent, IndexSession, MemoryMoves,
                worldOnly, registry, model
  <2> QED
    BY <2>1, ElsewhereFollows
<1>2. CASE List
  BY <1>2 DEF List, FollowInv, Sensored, registry, model
<1>3. CASE ListFails
  BY <1>3, ElsewhereFollows DEF ListFails, registry, model
<1>4. CASE Resolve
  <2>1. Sensored' = Sensored /\ entries' = known /\ gone' = {} /\ Sensored = known
    BY <1>4 DEF Resolve, FollowInv, Sensored, model
  <2>2. pc' = "leave" /\ known' = listed' /\ todo' = entries' \ known'
    BY <1>4, <2>1 DEF Resolve
  <2>3. piping' \subseteq Sensored' /\ linked' \subseteq entries'
    BY <1>4, <2>1 DEF Resolve, FollowInv, model
  <2> QED
    BY <2>1, <2>2, <2>3 DEF FollowInv
<1>5. ASSUME NEW p \in Panes, Leave(p) PROVE FollowInv'
  <2>1. Sensored' = Sensored \ {p}
    BY <1>5 DEF Leave, Sensored, TypeOK
  <2>2. p \in entries \ known /\ todo' = todo \ {p}
    BY <1>5 DEF Leave, FollowInv
  <2>3. gone' = (entries' \ known') \ todo'
    BY <1>5, <2>2 DEF Leave, FollowInv
  <2>4. Sensored' = (entries' \intersect known') \union todo'
    BY <1>5, <2>1, <2>2 DEF Leave, FollowInv
  <2> QED
    BY <1>5, <2>1, <2>2, <2>3, <2>4 DEF Leave, FollowInv
<1>6. CASE StartWatching
  <2>1. Sensored' = Sensored
    BY <1>6 DEF StartWatching, Sensored, registry
  <2> QED
    BY <1>6, <2>1 DEF StartWatching, FollowInv, registry, model
<1>7. ASSUME NEW p \in Panes, Watch(p) PROVE FollowInv'
  <2>1. SensorOf(p) # "none"
    BY DEF SensorOf
  <2>2. Sensored' = Sensored \union {p}
    BY <1>7, <2>1 DEF Watch, Sensored, TypeOK
  <2>3. piping' \subseteq piping \union {p}
    BY <1>7 DEF Watch, StartPipe
  <2>4. pc = "watch" /\ pc' = "watch" /\ known' = known /\ listed' = listed /\ p \in known
    BY <1>7 DEF Watch, FollowInv
  <2>5. entries' = entries \union {p} /\ gone' = gone \ {p} /\ todo' = todo \ {p}
    BY <1>7 DEF Watch
  <2>6. linked' \subseteq entries'
    BY <1>7 DEF Watch, FollowInv
  <2> QED
    BY <2>2, <2>3, <2>4, <2>5, <2>6 DEF FollowInv
<1>8. CASE MeasureFails
  BY <1>8, EvictFollows DEF MeasureFails, registry
<1>9. CASE Measure
  <2>1. pc = "watch" /\ todo = {} /\ UNCHANGED <<known, sensors, piping>>
    BY <1>9 DEF Measure, registry
  <2>2. CASE Evict
    BY <2>1, <2>2, EvictFollows
  <2>3. CASE Broadcast
    <3>1. Sensored' = Sensored
      BY <2>1 DEF Sensored
    <3> QED
      BY <2>1, <2>3, <3>1 DEF Broadcast, FollowInv, model
  <2> QED
    BY <1>9, <2>2, <2>3 DEF Measure, Stay, LogOnly, Notify
<1>10. ASSUME NEW p \in Panes, Warn(p) PROVE FollowInv'
  <2>1. Sensored' = Sensored
    BY <1>10 DEF Warn, Sensored, registry
  <2> QED
    BY <1>10, <2>1 DEF Warn, FollowInv, registry, model
<1>11. CASE LogWarning
  BY <1>11, EvictFollows DEF LogWarning, registry
<1>12. CASE Crash
  BY <1>12 DEF Crash, FollowInv, Sensored
<1>13. CASE UNCHANGED vars
  BY <1>13, ElsewhereFollows DEF vars, registry, model
<1> QED
  BY <1>1, <1>2, <1>3, <1>4, <1>5, <1>6, <1>7, <1>8, <1>9, <1>10, <1>11, <1>12, <1>13
     DEF Next, LeaveSome, WatchSome, WarnSome

\* Between ticks the model has an entry for the panes of the last list, each of
\* these has a sensor, and nothing else is left, whatever failed (tickOnce).
THEOREM FollowsTmux == Spec => []ModelFollowsTmux
<1>1. Init => FollowInv
  BY DEF Init, FollowInv, Sensored
<1>2. Inv /\ [Next]_vars => Inv'
  BY NextType, NextFollows DEF Inv
<1>3. Inv => ModelFollowsTmux
  BY DEF Inv, FollowInv, ModelFollowsTmux, Sensored
<1> QED
  BY <1>1, <1>2, <1>3, InitType, PTL DEF Spec, Inv

----------------------------------------------------------------------------
(* The guardian.                                                           *)

\* A round of messages ends when nobody is left, and in the log (tickOnce).
THEOREM Rounds == Spec => RoundsAreFinished
<1> DEFINE Step == pc = "warn" /\ pc' = "idle" /\ crashes' = crashes =>
                     todo = {} /\ log'[Len(log')] = "broadcast"
<1>1. TypeOK /\ [Next]_vars => [Step]_vars
  <2> SUFFICES ASSUME TypeOK, Next, pc = "warn", pc' = "idle", crashes' = crashes
               PROVE  todo = {} /\ log'[Len(log')] = "broadcast"
    OBVIOUS
  <2>1. LogWarning
    <3>1. ~Crash
      BY DEF Crash, TypeOK
    <3>2. ~Environment
      BY DEF Environment, OpenPane, ClosePane, StartAgent, IndexSession, MemoryMoves, worldOnly
    <3>3. ~WarnSome
      BY DEF WarnSome, Warn
    <3> QED
      BY <3>1, <3>2, <3>3 DEF Next, List, ListFails, Resolve, LeaveSome, Leave,
         StartWatching, WatchSome, Watch, MeasureFails, Measure
  <2> QED
    BY <2>1, LoggedIsLast DEF LogWarning, TypeOK, Actions
<1> QED
  BY <1>1, TypeCorrect, PTL DEF Spec, RoundsAreFinished

\* Without failing probes the guardian takes for a drop only what was one.
LEMMA NextDrops ==
  ASSUME "memory" \notin Faults
  PROVE  TypeOK /\ DropInv /\ [Next]_vars => DropInv'
<1> SUFFICES ASSUME TypeOK, DropInv, [Next]_vars PROVE DropInv'
  OBVIOUS
<1> USE DEF DropInv
<1>1. CASE Environment
  <2>1. CASE MemoryMoves
    <3>1. below' = below /\ eased' = (eased \/ ~high')
      BY <2>1 DEF MemoryMoves, worldOnly, guardian
    <3> QED
      BY <3>1, Zenon
  <2>2. CASE ~MemoryMoves
    <3>1. UNCHANGED <<high, eased, below>>
      BY <1>1, <2>2 DEF Environment, OpenPane, ClosePane, StartAgent, IndexSession,
                        worldOnly, guardian
    <3> QED
      BY <3>1
  <2> QED
    BY <2>1, <2>2
<1>2. CASE Measure
  <2>1. high' = high
    BY <1>2 DEF Measure, world
  <2>2. CASE Stay(high)
    BY <2>1, <2>2 DEF Stay, Quiet
  <2>3. CASE high /\ LogOnly
    BY <2>1, <2>3 DEF LogOnly, Quiet
  <2>4. CASE high /\ (Notify \/ Broadcast)
    BY <2>1, <2>4 DEF Notify, Broadcast, Fire
  <2>5. PICK over \in {high} \union {FALSE : f \in Faults \intersect {"memory"}} :
          Stay(over) \/ (over /\ (LogOnly \/ Notify \/ Broadcast))
    BY <1>2, Zenon DEF Measure
  <2>6. over = high
    BY <2>5
  <2> QED
    BY <2>2, <2>3, <2>4, <2>5, <2>6, Zenon
<1>3. CASE Crash
  BY <1>3 DEF Crash
<1>4. CASE UNCHANGED <<high, eased, below>>
  BY <1>4
<1> QED
  BY <1>1, <1>2, <1>3, <1>4
     DEF Next, List, ListFails, Resolve, LeaveSome, Leave, StartWatching, WatchSome, Watch,
         MeasureFails, WarnSome, Warn, LogWarning, vars, world, guardian

\* As long as the memory probe does not fail, the guardian fires the first time,
\* after a real drop, or after the cooldown (decide).
THEOREM Spaced ==
  ASSUME "memory" \notin Faults
  PROVE  Spec => AnnouncementsAreSpaced
<1> DEFINE Step == fired' /\ age' = 0 /\ (age # 0 \/ ~fired) =>
                     ~fired \/ eased \/ age = Cooldown
<1>1. Init => DropInv
  BY DEF Init, DropInv
<1>2. TypeOK /\ DropInv /\ [Next]_vars => DropInv'
  BY NextDrops
<1>3. TypeOK /\ DropInv /\ [Next]_vars => [Step]_vars
  <2> SUFFICES ASSUME TypeOK, DropInv, Next, fired', age' = 0, age # 0 \/ ~fired
               PROVE  ~fired \/ eased \/ age = Cooldown
    OBVIOUS
  <2>1. CASE UNCHANGED <<fired, age>>
    BY <2>1
  <2>2. CASE Clock /\ UNCHANGED fired
    BY <2>2 DEF Clock, TypeOK
  <2>3. CASE MayFire
    BY <2>3 DEF MayFire, DropInv
  <2>4. CASE Crash
    BY <2>4 DEF Crash
  <2> QED
    BY <2>1, <2>2, <2>3, <2>4
       DEF Next, Environment, OpenPane, ClosePane, StartAgent, IndexSession, MemoryMoves,
           List, ListFails, Resolve, LeaveSome, Leave, StartWatching, WatchSome, Watch,
           MeasureFails, Measure, Stay, LogOnly, Notify, Broadcast, Quiet, WarnSome, Warn,
           LogWarning, worldOnly, guardian
<1> QED
  BY <1>1, <1>2, <1>3, TypeCorrect, PTL DEF Spec, AnnouncementsAreSpaced
=============================================================================
