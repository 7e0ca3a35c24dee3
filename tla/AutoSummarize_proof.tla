------------------------ MODULE AutoSummarize_proof ------------------------
(***************************************************************************)
(* First the feedback-loop guard, for every store, every number of         *)
(* processes and every interleaving, overlapping passes included: what a   *)
(* model call leaves behind is never handed to a model call.  Then the     *)
(* order of passes whose deciders do not overlap, until one is late.       *)
(*                                                                         *)
(* The invariant that carries it: every set of session ids that is on its  *)
(* way to a model call - a decider's targets, the queue file, what a       *)
(* worker read of it, has yet to do and has in flight - holds sessions of  *)
(* people alone.  Each passes through Candidates or was built from one     *)
(* that did.                                                               *)
(***************************************************************************)
EXTENDS AutoSummarize, FiniteSetTheorems, TLAPS

HumansOnly ==
  /\ queue \subseteq Humans
  /\ \A d \in Deciders : dec[d].targets \subseteq Humans
  /\ \A p \in Pids : worker[p].todo \subseteq Humans /\ worker[p].calls \subseteq Humans
  /\ \A a \in Autos : sum[a] = 0

Inv == TypeOK /\ HumansOnly

----------------------------------------------------------------------------
(* What is selected is a person's.                                         *)

\* The newest of a set are members of it.
LEMMA NewestIsSubset ==
  ASSUME NEW S, NEW n
  PROVE  Newest(S, n) \subseteq S
BY DEF Newest

\* No candidate is a session of a summarizer.
LEMMA CandidatesAreHuman ==
  ASSUME NEW records, NEW limit
  PROVE  Candidates(records, limit) \subseteq Humans
BY NewestIsSubset DEF Candidates

\* Nor is a target, which is a candidate among the newest.
LEMMA TargetsAreHuman ==
  ASSUME NEW records, NEW limit
  PROVE  Targets(records, limit) \subseteq Humans
BY CandidatesAreHuman DEF Targets

----------------------------------------------------------------------------
(* Types of the parts.                                                     *)

\* A worker that is not running is a worker.
LEMMA OffType == Off \in WorkerState
BY BoundsAssumption DEF Off, WorkerState

\* A decider that is not running is a decider.
LEMMA IdleType == Idle \in DeciderState
BY DEF Idle, DeciderState

\* A worker that goes on or ends.
LEMMA EndedType ==
  ASSUME NEW w \in WorkerState, NEW pc \in {"dropped", "dead", "killed"}
  PROVE  /\ Ended(w, pc) \in WorkerState
         /\ Ended(w, pc).todo = {} /\ Ended(w, pc).calls = {}
<1>1. Off \in WorkerState
  BY OffType
<1>2. QED
  BY <1>1 DEF Ended, WorkerState, Off

\* The summary an answer gives is well typed.
LEMMA AnsweredType ==
  ASSUME NEW w \in WorkerState, NEW s \in Sessions
  PROVE  /\ Answered(w, s) \in WorkerState
         /\ Answered(w, s).todo = w.todo /\ Answered(w, s).calls \subseteq w.calls
<1>1. /\ [w.since EXCEPT ![s] = 0] \in [Sessions -> Nat]
      /\ w.tried \union {s} \in SUBSET Sessions /\ w.calls \ {s} \in SUBSET Sessions
  BY DEF WorkerState
<1>2. Answered(w, s) = [w EXCEPT !.tried = w.tried \union {s}, !.calls = w.calls \ {s},
                                 !.since = [w.since EXCEPT ![s] = 0]]
  BY DEF Answered, WorkerState
<1>3. QED
  BY <1>1, <1>2 DEF WorkerState

\* A decider that moves on keeps its targets.
LEMMA GotoStep ==
  ASSUME TypeOK, NEW d \in Deciders, NEW from,
         NEW to \in {"held", "select", "write", "check", "remove", "retry", "note", "publish",
                     "spawn", "release", "clear"},
         Goto(d, from, to) \/ Return(d, from)
  PROVE  /\ dec' \in [Deciders -> DeciderState]
         /\ \A e \in Deciders : dec'[e].targets = dec[e].targets \/ dec'[e].targets = {}
<1>1. dec[d] \in DeciderState /\ dec \in [Deciders -> DeciderState]
  BY DEF TypeOK
<1>2. CASE Goto(d, from, to)
  <2>1. /\ [dec[d] EXCEPT !.pc = to] \in DeciderState
        /\ [dec[d] EXCEPT !.pc = to].targets = dec[d].targets
    BY <1>1 DEF DeciderState
  <2>2. dec' = [dec EXCEPT ![d] = [dec[d] EXCEPT !.pc = to]]
    BY <1>1, <1>2 DEF Goto
  <2>3. QED
    BY <1>1, <2>1, <2>2
<1>3. CASE Return(d, from)
  <2>1. Idle.targets = {}
    BY DEF Idle
  <2>2. QED
    BY <1>1, <1>3, <2>1, IdleType DEF Return
<1>4. QED
  BY <1>2, <1>3

\* The three contents the lock file can have are of its type.
LEMMA LockTypes ==
  ASSUME NEW d \in Deciders, NEW p \in Pids \union {0}, NEW t \in Nat
  PROVE  NoLock \in LockState /\ EmptyLock(d) \in LockState /\ Held(p, t) \in LockState
BY DEF NoLock, EmptyLock, Held, LockState

----------------------------------------------------------------------------
(* The deciders.                                                           *)

\* Steps of a decider that neither select nor fork.
LEMMA DecideOtherStep ==
  ASSUME Inv, NEW d \in Deciders, Decide(d), ~DecideSelect(d), ~DecideSpawn(d)
  PROVE  Inv'
<1> USE DEF Inv
<1>1. /\ dec' \in [Deciders -> DeciderState]
      /\ \A e \in Deciders : dec'[e].targets = dec[e].targets \/ dec'[e].targets = {}
  BY GotoStep
  DEF Decide, DecideCool, DecideHeld, DecideNoProvider, AcquireCreate, AcquireWrite, AcquireCheck,
      AcquireRemove, AcquireRetry, CreateExclusive, DecideNote, DecidePublish, DecideSpawnFails,
      DecideRelease, DecideClear, DecideSetPid
<1>2. dec[d] \in DeciderState
  BY DEF TypeOK
<1>3. dec[d].at \in Nat /\ dec[d].pid \in Pids \union {0} /\ dec[d].targets \subseteq Sessions
  BY <1>2 DEF DeciderState
<1>4. /\ lock' \in {lock, NoLock, EmptyLock(d), Held(0, dec[d].at), Held(dec[d].pid, dec[d].at)}
      /\ checked' \in {checked, dec[d].at}
      /\ queue' \in {queue, {}, dec[d].targets}
      /\ UNCHANGED <<env, late, now, ver, sum, worker>>
  <2>1. lock' \in {lock, NoLock, EmptyLock(d), Held(0, dec[d].at), Held(dec[d].pid, dec[d].at)}
    BY DEF Decide, DecideCool, DecideHeld, DecideNoProvider, AcquireCreate, AcquireWrite, AcquireCheck,
        AcquireRemove, AcquireRetry, CreateExclusive, DecideNote, DecidePublish, DecideSpawnFails,
        DecideRelease, DecideClear, DecideSetPid, files, store, NoQueue
  <2>2. checked' \in {checked, dec[d].at} /\ queue' \in {queue, {}, dec[d].targets}
    BY DEF Decide, DecideCool, DecideHeld, DecideNoProvider, AcquireCreate, AcquireWrite, AcquireCheck,
        AcquireRemove, AcquireRetry, CreateExclusive, DecideNote, DecidePublish, DecideSpawnFails,
        DecideRelease, DecideClear, DecideSetPid, files, store, NoQueue
  <2>3. UNCHANGED <<env, late, now, ver, sum, worker>>
    BY DEF Decide, DecideCool, DecideHeld, DecideNoProvider, AcquireCreate, AcquireWrite, AcquireCheck,
        AcquireRemove, AcquireRetry, CreateExclusive, DecideNote, DecidePublish, DecideSpawnFails,
        DecideRelease, DecideClear, DecideSetPid, files, store, NoQueue
  <2>4. QED
    BY <2>1, <2>2, <2>3
<1>5. lock' \in LockState
  <2>1. lock \in LockState
    BY DEF TypeOK
  <2>2. NoLock \in LockState /\ EmptyLock(d) \in LockState /\ Held(0, dec[d].at) \in LockState
    BY <1>3, LockTypes
  <2>3. Held(dec[d].pid, dec[d].at) \in LockState
    BY <1>3, LockTypes
  <2>4. QED
    BY <1>4, <2>1, <2>2, <2>3
<1>6. TypeOK'
  BY <1>1, <1>3, <1>4, <1>5 DEF TypeOK
<1>7. HumansOnly'
  BY <1>1, <1>4 DEF HumansOnly
<1>8. QED
  BY <1>6, <1>7

\* The selection only takes sessions of the human.
LEMMA DecideSelectStep ==
  ASSUME Inv, NEW d \in Deciders, DecideSelect(d)
  PROVE  Inv'
<1> USE DEF Inv
<1>1. dec[d] \in DeciderState /\ dec \in [Deciders -> DeciderState]
  BY DEF TypeOK
<1>2. PICK all \in SUBSET Humans :
        \/ dec' = [dec EXCEPT ![d] = Idle] /\ checked' = dec[d].at
        \/ /\ dec' = [dec EXCEPT ![d].pc = "create", ![d].targets = Newest(all, MaxPerPass)]
           /\ checked' = checked
  BY TargetsAreHuman DEF DecideSelect
<1> DEFINE chosen == [dec[d] EXCEPT !.pc = "create", !.targets = Newest(all, MaxPerPass)]
<1>3. chosen \in DeciderState /\ chosen.targets \subseteq Humans
  BY <1>1, NewestIsSubset DEF DeciderState, Sessions
<1>4. dec' = [dec EXCEPT ![d] = Idle] \/ dec' = [dec EXCEPT ![d] = chosen]
  BY <1>1, <1>2
<1>5. Idle.targets = {}
  BY DEF Idle
<1> HIDE DEF chosen
<1>6. /\ dec' \in [Deciders -> DeciderState]
      /\ \A e \in Deciders : dec'[e].targets = dec[e].targets \/ dec'[e].targets \subseteq Humans
  BY <1>1, <1>3, <1>4, <1>5, IdleType
<1>7. dec[d].at \in Nat
  BY <1>1 DEF DeciderState
<1>8. UNCHANGED <<env, late, now, lock, queue, ver, sum, worker>>
  BY DEF DecideSelect, store
<1>9. TypeOK'
  BY <1>2, <1>6, <1>7, <1>8 DEF TypeOK
<1>10. HumansOnly'
  BY <1>6, <1>8 DEF HumansOnly
<1>11. QED
  BY <1>9, <1>10

\* The worker that is forked has nothing in hand yet.
LEMMA DecideSpawnStep ==
  ASSUME Inv, NEW d \in Deciders, DecideSpawn(d)
  PROVE  Inv'
<1> USE DEF Inv
<1>1. dec[d] \in DeciderState /\ dec \in [Deciders -> DeciderState] /\ worker \in [Pids -> WorkerState]
  BY DEF TypeOK
<1>2. PICK p \in Pids :
        /\ dec' = [dec EXCEPT ![d].pc = "setpid", ![d].pid = p]
        /\ worker' = [worker EXCEPT ![p] =
             [Off EXCEPT !.pc = "boot", !.forced = dec[d].force, !.born = dec[d].at,
                         !.asked = dec[d].targets]]
  BY DEF DecideSpawn
<1> DEFINE forked == [Off EXCEPT !.pc = "boot", !.forced = dec[d].force, !.born = dec[d].at,
                                 !.asked = dec[d].targets]
           moved == [dec[d] EXCEPT !.pc = "setpid", !.pid = p]
<1>3. moved \in DeciderState /\ moved.targets = dec[d].targets
  BY <1>1 DEF DeciderState
<1>4. forked \in WorkerState /\ forked.todo = {} /\ forked.calls = {}
  BY <1>1, OffType DEF Off, WorkerState, DeciderState
<1>5. dec' = [dec EXCEPT ![d] = moved] /\ worker' = [worker EXCEPT ![p] = forked]
  BY <1>1, <1>2
<1> HIDE DEF moved, forked
<1>6. UNCHANGED <<env, late, now, lock, queue, checked, ver, sum>>
  BY DEF DecideSpawn, files, store
<1>7. TypeOK'
  BY <1>1, <1>3, <1>4, <1>5, <1>6 DEF TypeOK
<1>8. HumansOnly'
  BY <1>1, <1>3, <1>4, <1>5, <1>6 DEF HumansOnly
<1>9. QED
  BY <1>7, <1>8

----------------------------------------------------------------------------
(* The workers.                                                            *)

\* A worker step that selects nothing: what is left to do and in flight is a
\* person's, and a summary that is written is of a session in flight.
LEMMA WorkerKeeps ==
  ASSUME Inv, NEW p \in Pids, NEW w \in WorkerState, Becomes(p, w),
         w.todo \subseteq Humans, w.calls \subseteq Humans,
         env' = env, late' = late, now' = now, dec' = dec,
         lock' \in {lock, NoLock}, queue' \in {queue, NoQueue}, checked' = checked,
         ver' \in [Sessions -> 0 .. MaxVer],
         sum' \in [Sessions -> 0 .. MaxVer], \A a \in Autos : sum'[a] = sum[a]
  PROVE  Inv'
<1> USE DEF Inv
<1>1. worker' = [worker EXCEPT ![p] = w] /\ worker \in [Pids -> WorkerState]
  BY DEF Becomes, TypeOK
<1>2. lock' \in LockState
  BY DEF TypeOK, NoLock, LockState
<1>3. TypeOK'
  BY <1>1, <1>2 DEF TypeOK, NoQueue
<1>4. HumansOnly'
  BY <1>1 DEF HumansOnly, NoQueue
<1>5. QED
  BY <1>3, <1>4

\* The parts of a worker of the right type.
LEMMA WorkerTypes ==
  ASSUME Inv, NEW p \in Pids
  PROVE  /\ worker[p] \in WorkerState
         /\ worker[p].todo \subseteq Humans /\ worker[p].calls \subseteq Humans
         /\ ver \in [Sessions -> 0 .. MaxVer] /\ sum \in [Sessions -> 0 .. MaxVer]
BY DEF Inv, TypeOK, HumansOnly

\* A worker that loads its targets keeps the invariant.
LEMMA WorkerLoadStep ==
  ASSUME Inv, NEW p \in Pids, WorkerLoad(p)
  PROVE  Inv'
<1>1. PICK todo \in SUBSET Humans :
        Becomes(p, [worker[p] EXCEPT !.pc = "work", !.todo = todo, !.wanted = {},
                      !.seen = [s \in Sessions |-> IF s \in todo THEN ver[s] ELSE 0]])
  BY CandidatesAreHuman, TargetsAreHuman DEF WorkerLoad
<1> DEFINE seen == [s \in Sessions |-> IF s \in todo THEN ver[s] ELSE 0]
           w == [worker[p] EXCEPT !.pc = "work", !.todo = todo, !.wanted = {}, !.seen = seen]
<1>2. seen \in [Sessions -> 0 .. MaxVer]
  BY WorkerTypes, BoundsAssumption
<1>3. w \in WorkerState /\ w.todo \subseteq Humans /\ w.calls \subseteq Humans
  <2> HIDE DEF seen
  <2>1. QED
    BY <1>2, WorkerTypes DEF WorkerState, Sessions
<1>4. UNCHANGED <<env, late, now, lock, queue, checked, ver, sum, dec>>
  BY DEF WorkerLoad, files, store
<1>5. Becomes(p, w)
  BY <1>1
<1> HIDE DEF w
<1>6. QED
  BY <1>3, <1>4, <1>5, WorkerTypes, WorkerKeeps

\* A worker that takes the next targets in flight keeps the invariant.
LEMMA WorkerTakeStep ==
  ASSUME Inv, NEW p \in Pids, WorkerTake(p)
  PROVE  Inv'
<1>1. PICK s \in worker[p].todo :
        LET taken == [worker[p] EXCEPT !.todo = @ \ {s}]
        IN \/ Becomes(p, [taken EXCEPT !.tried = @ \union {s}]) /\ ver' = ver
           \/ /\ Becomes(p, [taken EXCEPT !.calls = @ \union {s}, !.since[s] = now])
              /\ \/ \E a \in Autos : ver' = [ver EXCEPT ![a] = 1]
                 \/ ver' = ver
  BY NewestIsSubset DEF WorkerTake
<1>2. ver' \in [Sessions -> 0 .. MaxVer]
  BY <1>1, WorkerTypes, BoundsAssumption
<1>3. s \in Sessions /\ now \in Nat
  BY WorkerTypes DEF WorkerState, Inv, TypeOK
<1>4. PICK w \in WorkerState : /\ Becomes(p, w)
                              /\ w.todo \subseteq worker[p].todo
                              /\ w.calls \subseteq worker[p].calls \union worker[p].todo
  <2> DEFINE taken == [worker[p] EXCEPT !.todo = @ \ {s}]
             skipped == [taken EXCEPT !.tried = @ \union {s}]
             called == [taken EXCEPT !.calls = @ \union {s}, !.since[s] = now]
  <2>1. /\ skipped \in WorkerState
        /\ skipped.todo \subseteq worker[p].todo /\ skipped.calls = worker[p].calls
    BY <1>3, WorkerTypes DEF WorkerState
  <2>2. /\ called \in WorkerState
        /\ called.todo \subseteq worker[p].todo /\ called.calls = worker[p].calls \union {s}
    BY <1>3, WorkerTypes DEF WorkerState
  <2>3. Becomes(p, skipped) \/ Becomes(p, called)
    BY <1>1
  <2> HIDE DEF skipped, called
  <2>4. QED
    BY <2>1, <2>2, <2>3
<1>5. w.todo \subseteq Humans /\ w.calls \subseteq Humans
  BY <1>4, WorkerTypes
<1>6. UNCHANGED <<env, late, now, lock, queue, checked, sum, dec>>
  BY DEF WorkerTake, files
<1>7. QED
  BY <1>2, <1>4, <1>5, <1>6, WorkerTypes, WorkerKeeps

\* An answer that is written down keeps the invariant.
LEMMA WorkerAnswerStep ==
  ASSUME Inv, NEW p \in Pids, WorkerSave(p) \/ WorkerFail(p)
  PROVE  Inv'
<1>1. PICK s \in worker[p].calls :
        /\ Becomes(p, Answered(worker[p], s))
        /\ sum' = [sum EXCEPT ![s] = worker[p].seen[s]] \/ sum' = sum
  BY DEF WorkerSave, WorkerFail, store
<1>2. s \in Humans /\ s \in Sessions /\ worker[p].seen[s] \in 0 .. MaxVer
  BY WorkerTypes DEF Sessions, WorkerState
<1>3. sum' \in [Sessions -> 0 .. MaxVer] /\ \A a \in Autos : sum'[a] = sum[a]
  BY <1>1, <1>2, WorkerTypes, SessionsAssumption DEF Sessions
<1>4. UNCHANGED <<env, late, now, lock, queue, checked, ver, dec>>
  BY DEF WorkerSave, WorkerFail, files, store
<1>5. /\ Answered(worker[p], s) \in WorkerState
      /\ Answered(worker[p], s).todo \subseteq Humans /\ Answered(worker[p], s).calls \subseteq Humans
  BY <1>2, WorkerTypes, AnsweredType
<1>6. QED
  BY <1>1, <1>3, <1>4, <1>5, WorkerTypes, WorkerKeeps

\* The other steps of a worker keep the invariant.
LEMMA WorkerOtherStep ==
  ASSUME Inv, NEW p \in Pids,
         \/ WorkerDrop(p) \/ WorkerReadQueue(p) \/ WorkerDone(p) \/ WorkerClear(p)
         \/ WorkerRelease(p) \/ WorkerKill(p)
  PROVE  Inv'
<1>1. /\ UNCHANGED <<env, late, now, checked, ver, sum, dec>>
      /\ lock' \in {lock, NoLock} /\ queue' \in {queue, NoQueue}
  BY DEF WorkerDrop, WorkerReadQueue, WorkerDone, WorkerClear, WorkerRelease, WorkerKill, files, store
<1>2. PICK w \in WorkerState : /\ Becomes(p, w)
                              /\ w.todo \subseteq Humans /\ w.calls \subseteq Humans
  <2>1. CASE WorkerDrop(p) \/ WorkerRelease(p) \/ WorkerKill(p)
    BY <2>1, WorkerTypes, EndedType DEF WorkerDrop, WorkerRelease, WorkerKill
  <2>2. CASE WorkerReadQueue(p)
    <3> DEFINE w == [worker[p] EXCEPT !.pc = "load", !.wanted = queue]
    <3>1. w \in WorkerState /\ w.todo = worker[p].todo /\ w.calls = worker[p].calls
      BY WorkerTypes DEF WorkerState, Inv, TypeOK
    <3>2. QED
      BY <2>2, <3>1, WorkerTypes DEF WorkerReadQueue
  <2>3. CASE WorkerDone(p)
    <3> DEFINE w == [worker[p] EXCEPT !.pc = "clear", !.seen = Off.seen]
    <3>1. Off.seen \in [Sessions -> 0 .. MaxVer]
      BY OffType DEF WorkerState
    <3>2. w \in WorkerState /\ w.todo = worker[p].todo /\ w.calls = worker[p].calls
      BY <3>1, WorkerTypes DEF WorkerState
    <3>3. QED
      BY <2>3, <3>2, WorkerTypes DEF WorkerDone
  <2>4. CASE WorkerClear(p)
    <3> DEFINE w == [worker[p] EXCEPT !.pc = "release"]
    <3>1. w \in WorkerState /\ w.todo = worker[p].todo /\ w.calls = worker[p].calls
      BY WorkerTypes DEF WorkerState
    <3>2. QED
      BY <2>4, <3>1, WorkerTypes DEF WorkerClear
  <2>5. QED
    BY <2>1, <2>2, <2>3, <2>4
<1>3. QED
  BY <1>1, <1>2, WorkerTypes, WorkerKeeps

----------------------------------------------------------------------------
(* The whole system.                                                       *)

\* Sessions that appear or change, crashes and time keep the invariant.
LEMMA EnvironmentStep ==
  ASSUME Inv, SessionMoves \/ Tick \/ UNCHANGED vars
              \/ \E d \in Deciders : DecideStart(d) \/ DeciderKill(d)
  PROVE  Inv'
<1> USE DEF Inv
<1>1. CASE SessionMoves
  <2>1. ver' \in [Sessions -> 0 .. MaxVer]
    BY <1>1, BoundsAssumption DEF SessionMoves, TypeOK, Store
  <2>2. UNCHANGED <<env, late, now, lock, queue, checked, sum, dec, worker>>
    BY <1>1 DEF SessionMoves, files
  <2>3. QED
    BY <2>1, <2>2 DEF TypeOK, HumansOnly
<1>2. CASE Tick
  BY <1>2 DEF Tick, TypeOK, HumansOnly, files, store
<1>3. CASE UNCHANGED vars
  BY <1>3 DEF vars, TypeOK, HumansOnly
<1>4. CASE \E d \in Deciders : DecideStart(d) \/ DeciderKill(d)
  <2>1. PICK d \in Deciders : DecideStart(d) \/ DeciderKill(d)
    BY <1>4
  <2>2. PICK new \in DeciderState : dec' = [dec EXCEPT ![d] = new] /\ new.targets = {}
    <3>1. now \in Nat
      BY DEF TypeOK
    <3>2. \A force \in BOOLEAN :
            LET new == [Idle EXCEPT !.pc = IF force THEN "held" ELSE "cool", !.at = now, !.force = force]
            IN new \in DeciderState /\ new.targets = {}
      BY <3>1 DEF Idle, DeciderState
    <3>3. Idle.targets = {}
      BY DEF Idle
    <3>4. QED
      BY <2>1, <3>2, <3>3, IdleType DEF DecideStart, DeciderKill
  <2>3. UNCHANGED <<env, late, now, lock, queue, checked, ver, sum, worker>>
    BY <2>1 DEF DecideStart, DeciderKill, files, store
  <2>4. QED
    BY <2>2, <2>3 DEF TypeOK, HumansOnly
<1>5. QED
  BY <1>1, <1>2, <1>3, <1>4

\* Every step keeps the invariant.
LEMMA InvStep == Inv /\ [Next]_vars => Inv'
<1> SUFFICES ASSUME Inv, [Next]_vars PROVE Inv'
  OBVIOUS
<1>1. ASSUME NEW d \in Deciders, Decide(d) PROVE Inv'
  BY <1>1, DecideOtherStep, DecideSelectStep, DecideSpawnStep
<1>2. ASSUME NEW p \in Pids, Worker(p) \/ WorkerKill(p) PROVE Inv'
  BY <1>2, WorkerLoadStep, WorkerTakeStep, WorkerAnswerStep, WorkerOtherStep DEF Worker
<1>3. QED
  BY <1>1, <1>2, EnvironmentStep DEF Next, Over

\* The invariant holds before anything happened.
LEMMA InitInv == Init => Inv
<1> SUFFICES ASSUME Init PROVE Inv
  OBVIOUS
<1>1. dec \in [Deciders -> DeciderState] /\ worker \in [Pids -> WorkerState]
  BY IdleType, OffType DEF Init
<1>2. /\ ver \in [Sessions -> 0 .. MaxVer] /\ sum \in [Sessions -> 0 .. MaxVer]
      /\ \A a \in Autos : sum[a] = 0
  BY BoundsAssumption DEF Init, Sessions
<1>3. env \in Envs
  BY StartsAssumption DEF Init
<1>4. TypeOK
  BY <1>1, <1>2, <1>3 DEF Init, TypeOK, NoLock, LockState, NoQueue
<1>5. /\ \A d \in Deciders : dec[d].targets = {}
      /\ \A p \in Pids : worker[p].todo = {} /\ worker[p].calls = {}
  BY DEF Init, Idle, Off
<1>6. QED
  BY <1>2, <1>4, <1>5 DEF Init, Inv, HumansOnly, NoQueue

\* The inductive invariant holds of every behaviour, in every environment.
THEOREM Invariance == Spec => []Inv
BY InitInv, InvStep, PTL DEF Spec

\* The state is well typed in every environment: the lock, the queue and the
\* summaries only ever hold what the processes can put there.
THEOREM TypeCorrect == Spec => []TypeOK
<1>1. Inv => TypeOK
  BY DEF Inv
<1>2. QED
  BY <1>1, Invariance, PTL

\* No session that a model call made is ever queued for, handed to or described
\* by another model call: gmux does not summarize its own summarizer, however
\* many passes overlap (autoSummarizeCandidates).
THEOREM NoFeedbackLoop == Spec => []NoFeedback
<1>1. Inv => NoFeedback
  BY SessionsAssumption DEF Inv, HumansOnly, NoFeedback
<1>2. QED
  BY <1>1, Invariance, PTL

----------------------------------------------------------------------------
(* The clock: a decision takes no time, and notes its time before it forks *)
(* a worker.                                                               *)

Used(p) == worker[p].pc # "off"

DecidersAreQuick == \A d \in Deciders : Busy(d) => dec[d].at = now

CheckIsNoted ==
  /\ checked <= now
  /\ \A p \in Pids : Used(p) => worker[p].born <= checked
  /\ \A d \in Deciders : dec[d].pc \in {"publish", "spawn"} => checked = now

PidsInOrder == \A p, q \in Pids : Used(q) /\ p < q => Used(p)

Timing == DecidersAreQuick /\ CheckIsNoted /\ PidsInOrder

(* The cooldown, of deciders that do not overlap.                          *)

OneDecides == env # "overlap" => \A d, e \in Deciders : Busy(d) /\ Busy(e) => d = e

CooledDown ==
  env # "overlap" =>
    \A d \in Deciders : dec[d].pc \notin {"idle", "cool", "setpid"} /\ ~dec[d].force =>
      \A p \in Pids : Used(p) => dec[d].at - worker[p].born >= Cooldown

Spacing == OneDecides /\ CooledDown /\ CooldownSpaces

\* What moving on and returning leave of a decider.
LEMMA GotoFields ==
  ASSUME TypeOK, NEW d \in Deciders, NEW from, NEW to
  PROVE  /\ Goto(d, from, to) =>
              /\ dec[d].pc = from /\ dec'[d].pc = to /\ dec'[d].at = dec[d].at
              /\ dec'[d].force = dec[d].force /\ dec'[d].targets = dec[d].targets
              /\ dec'[d].pid = dec[d].pid
              /\ \A e \in Deciders : e # d => dec'[e] = dec[e]
         /\ Return(d, from) =>
              /\ dec[d].pc = from /\ dec'[d].pc = "idle" /\ dec'[d].targets = {}
              /\ \A e \in Deciders : e # d => dec'[e] = dec[e]
BY DEF Goto, Return, Idle, TypeOK, DeciderState

\* What a step of a decider that neither selects nor forks may change.
LEMMA DecideMoves ==
  ASSUME Inv, NEW d \in Deciders, Decide(d), ~DecideSelect(d), ~DecideSpawn(d)
  PROVE  /\ Busy(d) /\ UNCHANGED <<env, late, now, ver, sum, worker>>
         /\ \A e \in Deciders : e # d => dec'[e] = dec[e]
         /\ \/ dec'[d].pc = "idle" /\ dec'[d].targets = {}
            \/ /\ dec'[d].at = dec[d].at /\ dec'[d].force = dec[d].force
               /\ dec'[d].targets = dec[d].targets
         /\ dec'[d].pc \notin {"cool", "setpid"}
         /\ dec[d].pc = "setpid" => dec'[d].pc = "idle"
         /\ checked' = checked \/ (dec[d].pc = "note" /\ checked' = dec[d].at)
         /\ dec'[d].pc = "publish" => dec[d].pc = "note" /\ checked' = dec[d].at
         /\ dec'[d].pc = "spawn" => dec[d].pc = "publish" /\ queue' = dec[d].targets
         /\ dec[d].pc = "cool" /\ dec'[d].pc # "idle" =>
              checked = -1 \/ dec[d].at - checked >= Cooldown
         /\ queue' = queue \/ dec[d].pc \in {"publish", "clear"}
<1> USE GotoFields DEF Inv, Busy, files, store
<1>1. CASE DecideCool(d)
  <2>1. checked \in Nat \union {-1} /\ dec[d].at \in Nat /\ Cooldown \in Nat
    BY BoundsAssumption DEF TypeOK, DeciderState
  <2>2. Return(d, "cool") \/ Goto(d, "cool", "held")
    BY <1>1 DEF DecideCool
  <2>3. dec'[d].pc # "idle" => checked = -1 \/ dec[d].at - checked >= Cooldown
    <3>1. CASE checked # -1 /\ dec[d].at - checked < Cooldown
      <4>1. Return(d, "cool")
        BY <1>1, <3>1 DEF DecideCool
      <4>2. QED
        BY <4>1
    <3>2. CASE ~(checked # -1 /\ dec[d].at - checked < Cooldown)
      BY <2>1, <3>2
    <3>3. QED
      BY <3>1, <3>2
  <2>4. UNCHANGED <<env, late, now, lock, queue, checked, ver, sum, worker>>
    BY <1>1 DEF DecideCool
  <2>5. /\ dec[d].pc = "cool" /\ dec'[d].pc \in {"idle", "held"}
        /\ \/ dec'[d].pc = "idle" /\ dec'[d].targets = {}
           \/ /\ dec'[d].at = dec[d].at /\ dec'[d].force = dec[d].force
              /\ dec'[d].targets = dec[d].targets
        /\ \A e \in Deciders : e # d => dec'[e] = dec[e]
    BY <2>2
  <2>6. QED
    BY <2>3, <2>4, <2>5
<1>2. CASE DecideHeld(d) \/ DecideNoProvider(d) \/ AcquireCheck(d)
  <2>1. \/ Return(d, "held") \/ Goto(d, "held", "select") \/ Return(d, "select")
        \/ Return(d, "check") \/ Goto(d, "check", "remove")
    BY <1>2 DEF DecideHeld, DecideNoProvider, AcquireCheck
  <2>2. UNCHANGED <<env, late, now, lock, queue, checked, ver, sum, worker>>
    BY <1>2 DEF DecideHeld, DecideNoProvider, AcquireCheck
  <2>3. /\ dec[d].pc \in {"held", "select", "check"} /\ dec'[d].pc \in {"idle", "select", "remove"}
        /\ \/ dec'[d].pc = "idle" /\ dec'[d].targets = {}
           \/ /\ dec'[d].at = dec[d].at /\ dec'[d].force = dec[d].force
              /\ dec'[d].targets = dec[d].targets
        /\ \A e \in Deciders : e # d => dec'[e] = dec[e]
    BY <2>1
  <2>4. QED
    BY <2>2, <2>3
<1>3. CASE AcquireCreate(d) \/ AcquireRetry(d)
  <2>1. \/ Goto(d, "create", "write") \/ Goto(d, "create", "check")
        \/ Goto(d, "retry", "write") \/ Return(d, "retry")
    BY <1>3 DEF AcquireCreate, AcquireRetry, CreateExclusive
  <2>2. UNCHANGED <<env, late, now, queue, checked, ver, sum, worker>>
    BY <1>3 DEF AcquireCreate, AcquireRetry, CreateExclusive
  <2>3. /\ dec[d].pc \in {"create", "retry"} /\ dec'[d].pc \in {"idle", "write", "check"}
        /\ \/ dec'[d].pc = "idle" /\ dec'[d].targets = {}
           \/ /\ dec'[d].at = dec[d].at /\ dec'[d].force = dec[d].force
              /\ dec'[d].targets = dec[d].targets
        /\ \A e \in Deciders : e # d => dec'[e] = dec[e]
    BY <2>1
  <2>4. QED
    BY <2>2, <2>3
<1>4. CASE AcquireWrite(d) \/ AcquireRemove(d) \/ DecideNote(d) \/ DecidePublish(d)
  BY <1>4 DEF AcquireWrite, AcquireRemove, DecideNote, DecidePublish
<1>5. CASE DecideSpawnFails(d) \/ DecideRelease(d) \/ DecideClear(d)
  <2>1. Goto(d, "spawn", "release") \/ Goto(d, "release", "clear") \/ Return(d, "clear")
    BY <1>5 DEF DecideSpawnFails, DecideRelease, DecideClear
  <2>2. /\ UNCHANGED <<env, late, now, checked, ver, sum, worker>>
        /\ queue' = queue \/ DecideClear(d)
    BY <1>5 DEF DecideSpawnFails, DecideRelease, DecideClear
  <2>3. /\ dec[d].pc \in {"spawn", "release", "clear"} /\ dec'[d].pc \in {"idle", "release", "clear"}
        /\ \/ dec'[d].pc = "idle" /\ dec'[d].targets = {}
           \/ /\ dec'[d].at = dec[d].at /\ dec'[d].force = dec[d].force
              /\ dec'[d].targets = dec[d].targets
        /\ \A e \in Deciders : e # d => dec'[e] = dec[e]
    BY <2>1
  <2>4. DecideClear(d) => dec[d].pc = "clear"
    BY DEF DecideClear
  <2>5. QED
    BY <2>2, <2>3, <2>4
<1>6. CASE DecideSetPid(d)
  <2>1. Return(d, "setpid") /\ UNCHANGED <<env, late, now, queue, checked, ver, sum, worker>>
    BY <1>6 DEF DecideSetPid
  <2>2. /\ dec[d].pc = "setpid" /\ dec'[d].pc = "idle" /\ dec'[d].targets = {}
        /\ \A e \in Deciders : e # d => dec'[e] = dec[e]
    BY <2>1
  <2>3. QED
    BY <2>1, <2>2
<1>7. QED
  BY <1>1, <1>2, <1>3, <1>4, <1>5, <1>6 DEF Decide

\* A selection ends the decision, or goes on to the lock with the newest targets.
LEMMA SelectMoves ==
  ASSUME Inv, NEW d \in Deciders, DecideSelect(d)
  PROVE  /\ dec[d].pc = "select" /\ UNCHANGED <<env, late, now, lock, queue, ver, sum, worker>>
         /\ \A e \in Deciders : e # d => dec'[e] = dec[e]
         /\ \/ dec'[d].pc = "idle" /\ dec'[d].targets = {} /\ checked' = dec[d].at
            \/ /\ dec'[d].pc = "create" /\ dec'[d].at = dec[d].at /\ dec'[d].force = dec[d].force
               /\ dec'[d].targets \subseteq Store /\ checked' = checked
<1>1. dec[d] \in DeciderState /\ dec \in [Deciders -> DeciderState]
  BY DEF Inv, TypeOK
<1>2. /\ dec[d].pc = "select" /\ UNCHANGED <<env, late, now, lock, queue, ver, sum, worker>>
  BY DEF DecideSelect, store
<1>3. RecentRecords \subseteq Store
  BY NewestIsSubset DEF RecentRecords
<1>4. \A records, limit : Targets(records, limit) \subseteq records
  BY NewestIsSubset DEF Targets, Candidates
<1>5. PICK all \in SUBSET Store :
        \/ dec' = [dec EXCEPT ![d] = Idle] /\ checked' = dec[d].at
        \/ /\ dec' = [dec EXCEPT ![d].pc = "create", ![d].targets = Newest(all, MaxPerPass)]
           /\ checked' = checked
  <2>1. \A records \in (SUBSET Store) \union {RecentRecords} : \A limit :
          Targets(records, limit) \in SUBSET Store
    BY <1>3, <1>4
  <2>2. QED
    BY <2>1 DEF DecideSelect
<1>6. Newest(all, MaxPerPass) \subseteq Store
  BY NewestIsSubset
<1>7. Idle.pc = "idle" /\ Idle.targets = {}
  BY DEF Idle
<1>8. \A e \in Deciders : e # d => dec'[e] = dec[e]
  BY <1>1, <1>5
<1>9. CASE dec' = [dec EXCEPT ![d] = Idle] /\ checked' = dec[d].at
  BY <1>1, <1>2, <1>7, <1>8, <1>9
<1>10. CASE /\ dec' = [dec EXCEPT ![d].pc = "create", ![d].targets = Newest(all, MaxPerPass)]
            /\ checked' = checked
  BY <1>1, <1>2, <1>6, <1>8, <1>10 DEF DeciderState
<1>11. QED
  BY <1>5, <1>9, <1>10

\* The fork takes the least pid there is, and tells the worker what was decided.
LEMMA SpawnMoves ==
  ASSUME Inv, NEW d \in Deciders, DecideSpawn(d)
  PROVE  /\ dec[d].pc = "spawn" /\ UNCHANGED <<env, late, now, lock, queue, checked, ver, sum>>
         /\ \A e \in Deciders : e # d => dec'[e] = dec[e]
         /\ dec'[d].pc = "setpid" /\ dec'[d].at = dec[d].at /\ dec'[d].targets = dec[d].targets
         /\ \E p \in Pids :
              /\ ~Used(p) /\ dec'[d].pid = p
              /\ \A q \in Pids : q < p => Used(q)
              /\ \A q \in Pids : q # p => worker'[q] = worker[q]
              /\ worker'[p].pc = "boot" /\ worker'[p].forced = dec[d].force
              /\ worker'[p].born = dec[d].at /\ worker'[p].asked = dec[d].targets
              /\ worker'[p].todo = {} /\ worker'[p].calls = {}
<1>1. dec[d] \in DeciderState /\ dec \in [Deciders -> DeciderState] /\ worker \in [Pids -> WorkerState]
  BY DEF Inv, TypeOK
<1>2. PICK p \in Pids :
        /\ ~Used(p) /\ \A q \in Pids : q < p => Used(q)
        /\ dec' = [dec EXCEPT ![d].pc = "setpid", ![d].pid = p]
        /\ worker' = [worker EXCEPT ![p] =
             [Off EXCEPT !.pc = "boot", !.forced = dec[d].force, !.born = dec[d].at,
                         !.asked = dec[d].targets]]
  BY DEF DecideSpawn, Used
<1>3. /\ dec'[d].pc = "setpid" /\ dec'[d].at = dec[d].at /\ dec'[d].targets = dec[d].targets
      /\ dec'[d].pid = p /\ \A e \in Deciders : e # d => dec'[e] = dec[e]
  BY <1>1, <1>2 DEF DeciderState
<1>4. /\ \A q \in Pids : q # p => worker'[q] = worker[q]
      /\ worker'[p].pc = "boot" /\ worker'[p].forced = dec[d].force
      /\ worker'[p].born = dec[d].at /\ worker'[p].asked = dec[d].targets
      /\ worker'[p].todo = {} /\ worker'[p].calls = {}
  BY <1>1, <1>2 DEF Off
<1>5. dec[d].pc = "spawn" /\ UNCHANGED <<env, late, now, lock, queue, checked, ver, sum>>
  BY DEF DecideSpawn, files, store
<1>6. QED
  BY <1>2, <1>3, <1>4, <1>5

\* A decider that starts, when none is deciding unless they overlap, or is killed.
LEMMA StartMoves ==
  ASSUME Inv, NEW d \in Deciders, DecideStart(d) \/ DeciderKill(d)
  PROVE  /\ UNCHANGED <<env, late, now, lock, queue, checked, ver, sum, worker>>
         /\ \A e \in Deciders : e # d => dec'[e] = dec[e]
         /\ dec'[d].targets = {}
         /\ \/ dec'[d].pc = "idle"
            \/ /\ dec'[d].pc \in {"cool", "held"} /\ dec'[d].at = now
               /\ dec'[d].pc = "held" => dec'[d].force
               /\ env # "overlap" => \A e \in Deciders : ~Busy(e)
<1>1. dec \in [Deciders -> DeciderState]
  BY DEF Inv, TypeOK
<1>2. UNCHANGED <<env, late, now, lock, queue, checked, ver, sum, worker>>
  BY DEF DecideStart, DeciderKill, files, store
<1>3. CASE DecideStart(d)
  <2>1. PICK force \in BOOLEAN :
          dec' = [dec EXCEPT ![d] = [Idle EXCEPT !.pc = IF force THEN "held" ELSE "cool",
                                                 !.at = now, !.force = force]]
    BY <1>3 DEF DecideStart
  <2>2. /\ \A e \in Deciders : e # d => dec'[e] = dec[e]
        /\ dec'[d].targets = {} /\ dec'[d].at = now /\ dec'[d].force = force
        /\ dec'[d].pc = IF force THEN "held" ELSE "cool"
    BY <1>1, <2>1 DEF Idle
  <2>3. QED
    BY <1>2, <1>3, <2>2 DEF DecideStart
<1>4. CASE DeciderKill(d)
  <2>1. Idle.pc = "idle" /\ Idle.targets = {}
    BY DEF Idle
  <2>2. QED
    BY <1>1, <1>2, <1>4, <2>1 DEF DeciderKill
<1>5. QED
  BY <1>3, <1>4

\* No step of a worker touches the deciders, and the lock goes only with its end.
LEMMA WorkerMoves ==
  ASSUME Inv, NEW p \in Pids, Worker(p) \/ WorkerKill(p)
  PROVE  /\ UNCHANGED <<env, late, now, checked, dec>>
         /\ \A q \in Pids : q # p => worker'[q] = worker[q]
         /\ Alive(p) /\ Used(p)' /\ Used(p)
         /\ worker'[p].born = worker[p].born /\ worker'[p].forced = worker[p].forced
         /\ worker'[p].asked \in {worker[p].asked, {}}
         /\ lock' = lock \/ ~Alive(p)'
<1>1. worker[p] \in WorkerState /\ worker \in [Pids -> WorkerState]
  BY DEF Inv, TypeOK
<1>2. UNCHANGED <<env, late, now, checked, dec>>
  BY DEF Worker, WorkerDrop, WorkerReadQueue, WorkerLoad, WorkerTake, WorkerSave, WorkerFail, WorkerDone,
         WorkerClear, WorkerRelease, WorkerKill, files, store
<1>3. Alive(p) /\ Used(p)
  BY DEF Worker, WorkerDrop, WorkerReadQueue, WorkerLoad, WorkerTake, CanTake, WorkerSave, WorkerFail,
         WorkerDone, WorkerClear, WorkerRelease, WorkerKill, Alive, Used
<1>4. CASE WorkerDrop(p) \/ WorkerRelease(p) \/ WorkerKill(p)
  <2>1. PICK pc \in {"dropped", "dead", "killed"} : worker' = [worker EXCEPT ![p] = Ended(worker[p], pc)]
    BY <1>4 DEF WorkerDrop, WorkerRelease, WorkerKill, Becomes
  <2>2. /\ worker'[p].pc = pc /\ worker'[p].born = worker[p].born
        /\ worker'[p].forced = worker[p].forced /\ worker'[p].asked = {}
        /\ \A q \in Pids : q # p => worker'[q] = worker[q]
    BY <1>1, <2>1 DEF Ended, Off
  <2>3. QED
    BY <1>2, <1>3, <2>2 DEF Alive, Used
<1>5. CASE ~(WorkerDrop(p) \/ WorkerRelease(p) \/ WorkerKill(p))
  <2>1. lock' = lock
    BY <1>5 DEF Worker, WorkerReadQueue, WorkerLoad, WorkerTake, WorkerSave, WorkerFail, WorkerDone,
                WorkerClear, files
  <2>2. /\ worker'[p].pc \in {"load", "work", "clear", "release"} /\ worker'[p].born = worker[p].born
        /\ worker'[p].forced = worker[p].forced /\ worker'[p].asked = worker[p].asked
    <3>1. CASE WorkerReadQueue(p)
      BY <1>1, <3>1 DEF Becomes, WorkerReadQueue, WorkerState
    <3>2. CASE WorkerLoad(p)
      BY <1>1, <3>2 DEF Becomes, WorkerLoad, WorkerState
    <3>3. CASE WorkerTake(p)
      <4>1. PICK s : LET taken == [worker[p] EXCEPT !.todo = @ \ {s}]
                     IN \/ worker'[p] = [taken EXCEPT !.tried = @ \union {s}]
                        \/ worker'[p] = [taken EXCEPT !.calls = @ \union {s}, !.since[s] = now]
        BY <1>1, <3>3 DEF Becomes, WorkerTake
      <4>2. worker[p].pc = "work"
        BY <3>3 DEF WorkerTake, CanTake
      <4>3. QED
        BY <1>1, <4>1, <4>2 DEF WorkerState
    <3>4. CASE WorkerSave(p) \/ WorkerFail(p)
      <4>1. PICK s : worker'[p] = Answered(worker[p], s)
        BY <1>1, <3>4 DEF Becomes, WorkerSave, WorkerFail
      <4>2. worker[p].pc = "work"
        BY <3>4 DEF WorkerSave, WorkerFail
      <4>3. QED
        BY <1>1, <4>1, <4>2 DEF Answered, WorkerState
    <3>5. CASE WorkerDone(p)
      BY <1>1, <3>5 DEF Becomes, WorkerDone, WorkerState
    <3>6. CASE WorkerClear(p)
      BY <1>1, <3>6 DEF Becomes, WorkerClear, WorkerState
    <3>7. QED
      BY <1>5, <3>1, <3>2, <3>3, <3>4, <3>5, <3>6 DEF Worker
  <2>3. \A q \in Pids : q # p => worker'[q] = worker[q]
    BY <1>1, <1>5 DEF Worker, WorkerReadQueue, WorkerLoad, WorkerTake, WorkerSave, WorkerFail, WorkerDone,
                      WorkerClear, Becomes
  <2>4. QED
    BY <1>2, <1>3, <2>1, <2>2, <2>3 DEF Used
<1>6. QED
  BY <1>4, <1>5

\* A behaviour has one environment.
LEMMA EnvironmentStays ==
  ASSUME [Next]_vars
  PROVE  env' = env
BY DEF Next, Decide, DecideCool, DecideHeld, DecideNoProvider, DecideSelect, AcquireCreate, AcquireWrite,
       AcquireCheck, AcquireRemove, AcquireRetry, CreateExclusive, DecideNote, DecidePublish, DecideSpawn,
       DecideSpawnFails, DecideRelease, DecideClear, DecideSetPid, DecideStart, DeciderKill, Worker, WorkerDrop,
       WorkerReadQueue, WorkerLoad, WorkerTake, WorkerSave, WorkerFail, WorkerDone, WorkerClear,
       WorkerRelease, WorkerKill, SessionMoves, Tick, Over, vars

\* Every step keeps the clock's invariant.
LEMMA TimingStep ==
  ASSUME Inv, Timing, [Next]_vars
  PROVE  Timing'
<1> USE DEF Timing
<1>1. /\ now \in Nat /\ checked \in Nat \union {-1}
      /\ \A p \in Pids : worker[p].born \in Nat
  BY DEF Inv, TypeOK, WorkerState
<1>2. CASE UNCHANGED vars \/ SessionMoves
  BY <1>2 DEF vars, SessionMoves, files, DecidersAreQuick, CheckIsNoted, PidsInOrder, Busy, Used
<1>3. CASE Tick
  <2>1. /\ UNCHANGED <<checked, dec, worker>> /\ now' = now + 1 /\ \A d \in Deciders : ~Busy(d)
    BY <1>3 DEF Tick, files
  <2>2. DecidersAreQuick' /\ PidsInOrder'
    BY <2>1 DEF DecidersAreQuick, PidsInOrder, Busy, Used
  <2>3. CheckIsNoted'
    BY <1>1, <2>1 DEF CheckIsNoted, Busy, Used
  <2>4. QED
    BY <2>2, <2>3
<1>4. ASSUME NEW d \in Deciders, Decide(d), ~DecideSelect(d), ~DecideSpawn(d)
      PROVE  Timing'
  <2>1. /\ Busy(d) /\ UNCHANGED <<now, worker>> /\ dec[d].at = now
        /\ \A e \in Deciders : e # d => dec'[e] = dec[e]
        /\ dec'[d].pc = "idle" \/ dec'[d].at = dec[d].at
        /\ checked' = checked \/ checked' = dec[d].at
        /\ dec'[d].pc = "publish" => checked' = dec[d].at
        /\ dec'[d].pc = "spawn" => dec[d].pc = "publish"
    BY <1>4, DecideMoves DEF DecidersAreQuick
  <2>2. DecidersAreQuick' /\ PidsInOrder'
    BY <2>1 DEF DecidersAreQuick, PidsInOrder, Busy, Used
  <2>3. CheckIsNoted'
    BY <1>1, <2>1 DEF CheckIsNoted, Used
  <2>4. QED
    BY <2>2, <2>3
<1>5. ASSUME NEW d \in Deciders, DecideSelect(d)
      PROVE  Timing'
  <2>1. /\ dec[d].pc = "select" /\ UNCHANGED <<now, worker>> /\ dec[d].at = now
        /\ \A e \in Deciders : e # d => dec'[e] = dec[e]
        /\ dec'[d].pc = "idle" \/ (dec'[d].pc = "create" /\ dec'[d].at = dec[d].at)
        /\ checked' = checked \/ checked' = dec[d].at
    BY <1>5, SelectMoves DEF DecidersAreQuick, Busy
  <2>2. DecidersAreQuick' /\ PidsInOrder'
    BY <2>1 DEF DecidersAreQuick, PidsInOrder, Busy, Used
  <2>3. CheckIsNoted'
    BY <1>1, <2>1 DEF CheckIsNoted, Used
  <2>4. QED
    BY <2>2, <2>3
<1>6. ASSUME NEW d \in Deciders, DecideSpawn(d)
      PROVE  Timing'
  <2>1. /\ dec[d].pc = "spawn" /\ UNCHANGED <<now, checked>>
        /\ \A e \in Deciders : e # d => dec'[e] = dec[e]
        /\ dec'[d].pc = "setpid" /\ dec'[d].at = dec[d].at
    BY <1>6, SpawnMoves
  <2>2. PICK p \in Pids :
              /\ \A q \in Pids : q < p => Used(q)
              /\ \A q \in Pids : q # p => worker'[q] = worker[q]
              /\ worker'[p].pc = "boot" /\ worker'[p].born = dec[d].at /\ ~Used(p)
    BY <1>6, SpawnMoves
  <2>3. DecidersAreQuick'
    BY <2>1 DEF DecidersAreQuick, Busy
  <2>4. CheckIsNoted'
    BY <1>1, <2>1, <2>2 DEF CheckIsNoted, Used, DecidersAreQuick, Busy
  <2>5. PidsInOrder'
    BY <2>2 DEF PidsInOrder, Used, Pids
  <2>6. QED
    BY <2>3, <2>4, <2>5
<1>7. ASSUME NEW d \in Deciders, DecideStart(d) \/ DeciderKill(d)
      PROVE  Timing'
  <2>1. /\ UNCHANGED <<now, checked, worker>>
        /\ \A e \in Deciders : e # d => dec'[e] = dec[e]
        /\ dec'[d].pc = "idle" \/ (dec'[d].pc \in {"cool", "held"} /\ dec'[d].at = now)
    BY <1>7, StartMoves
  <2>2. QED
    BY <2>1 DEF DecidersAreQuick, CheckIsNoted, PidsInOrder, Busy, Used
<1>8. ASSUME NEW p \in Pids, Worker(p) \/ WorkerKill(p)
      PROVE  Timing'
  <2>1. /\ UNCHANGED <<now, checked, dec>>
        /\ \A q \in Pids : /\ worker'[q].born = worker[q].born
                           /\ Used(q)' <=> Used(q)
    BY <1>8, WorkerMoves DEF Used
  <2>2. QED
    BY <2>1 DEF DecidersAreQuick, CheckIsNoted, PidsInOrder, Busy
<1>9. QED
  BY <1>2, <1>3, <1>4, <1>5, <1>6, <1>7, <1>8 DEF Next, Over

\* Every step keeps the cooldown: who is past it is alone until the fork, and what
\* it measured from was noted before every fork there was.
LEMMA SpacingStep ==
  ASSUME Inv, Timing, Spacing, [Next]_vars
  PROVE  Spacing'
<1> USE DEF Spacing
<1>1. /\ now \in Nat /\ checked \in Nat \union {-1} /\ Cooldown \in Nat
      /\ \A p \in Pids : worker[p].born \in Nat
  BY BoundsAssumption DEF Inv, TypeOK, WorkerState
<1>2. CASE UNCHANGED vars \/ SessionMoves \/ Tick
  <2>1. UNCHANGED <<env, dec, worker>>
    BY <1>2 DEF vars, SessionMoves, Tick, files
  <2>2. QED
    BY <2>1 DEF OneDecides, CooledDown, CooldownSpaces, Busy, Used
<1>3. ASSUME NEW d \in Deciders, Decide(d), ~DecideSelect(d), ~DecideSpawn(d)
      PROVE  Spacing'
  <2>1. /\ Busy(d) /\ UNCHANGED <<env, worker>> /\ dec[d].at = now
        /\ \A e \in Deciders : e # d => dec'[e] = dec[e]
        /\ dec'[d].pc = "idle" \/ (dec'[d].at = dec[d].at /\ dec'[d].force = dec[d].force)
        /\ dec'[d].pc \notin {"cool", "setpid"} /\ (dec[d].pc = "setpid" => dec'[d].pc = "idle")
        /\ dec[d].pc = "cool" /\ dec'[d].pc # "idle" => checked = -1 \/ dec[d].at - checked >= Cooldown
    BY <1>3, DecideMoves DEF Timing, DecidersAreQuick
  <2>2. OneDecides'
    BY <2>1 DEF OneDecides, Busy
  <2>3. CooledDown'
    <3>1. ASSUME env # "overlap", dec'[d].pc # "idle", ~dec'[d].force, NEW p \in Pids, Used(p)
          PROVE  dec'[d].at - worker[p].born >= Cooldown
      <4>1. CASE dec[d].pc = "cool"
        BY <1>1, <2>1, <3>1, <4>1 DEF Timing, CheckIsNoted
      <4>2. CASE dec[d].pc # "cool"
        BY <2>1, <3>1, <4>2 DEF CooledDown, Busy
      <4>3. QED
        BY <4>1, <4>2
    <3>2. QED
      BY <2>1, <3>1 DEF CooledDown, Used
  <2>4. CooldownSpaces'
    BY <2>1 DEF CooldownSpaces
  <2>5. QED
    BY <2>2, <2>3, <2>4
<1>4. ASSUME NEW d \in Deciders, DecideSelect(d)
      PROVE  Spacing'
  <2>1. /\ dec[d].pc = "select" /\ UNCHANGED <<env, worker>>
        /\ \A e \in Deciders : e # d => dec'[e] = dec[e]
        /\ \/ dec'[d].pc = "idle"
           \/ dec'[d].pc = "create" /\ dec'[d].at = dec[d].at /\ dec'[d].force = dec[d].force
    BY <1>4, SelectMoves
  <2>2. QED
    BY <2>1 DEF OneDecides, CooledDown, CooldownSpaces, Busy, Used
<1>5. ASSUME NEW d \in Deciders, DecideSpawn(d)
      PROVE  Spacing'
  <2>1. /\ dec[d].pc = "spawn" /\ env' = env
        /\ \A e \in Deciders : e # d => dec'[e] = dec[e]
        /\ dec'[d].pc = "setpid"
    BY <1>5, SpawnMoves
  <2>2. PICK p \in Pids :
              /\ \A q \in Pids : q # p => worker'[q] = worker[q]
              /\ worker'[p].pc = "boot" /\ worker'[p].born = dec[d].at /\ ~Used(p)
              /\ worker'[p].forced = dec[d].force
    BY <1>5, SpawnMoves
  <2>3. OneDecides'
    BY <2>1 DEF OneDecides, Busy
  <2>4. CooledDown'
    BY <2>1 DEF CooledDown, OneDecides, Busy
  <2>5. CooldownSpaces'
    <3>1. ASSUME env # "overlap", NEW q \in Pids, NEW r \in Pids, Used(q)', Used(r)', q < r,
                 ~worker'[r].forced
          PROVE  worker'[r].born - worker'[q].born >= Cooldown
      <4>1. CASE r = p
        BY <2>1, <2>2, <3>1, <4>1 DEF CooledDown, Used, Pids
      <4>2. CASE r # p
        <5>1. Used(r) /\ q # p
          BY <2>2, <3>1, <4>2 DEF Used, Timing, PidsInOrder
        <5>2. QED
          BY <2>2, <3>1, <4>2, <5>1 DEF CooldownSpaces, Used
      <4>3. QED
        BY <4>1, <4>2
    <3>2. QED
      BY <2>1, <3>1 DEF CooldownSpaces, Used
  <2>6. QED
    BY <2>3, <2>4, <2>5
<1>6. ASSUME NEW d \in Deciders, DecideStart(d) \/ DeciderKill(d)
      PROVE  Spacing'
  <2>1. /\ UNCHANGED <<env, worker>>
        /\ \A e \in Deciders : e # d => dec'[e] = dec[e]
        /\ \/ dec'[d].pc = "idle"
           \/ /\ dec'[d].pc \in {"cool", "held"}
              /\ dec'[d].pc = "held" => dec'[d].force
              /\ env # "overlap" => \A e \in Deciders : ~Busy(e)
    BY <1>6, StartMoves
  <2>2. QED
    BY <2>1 DEF OneDecides, CooledDown, CooldownSpaces, Busy, Used
<1>7. ASSUME NEW p \in Pids, Worker(p) \/ WorkerKill(p)
      PROVE  Spacing'
  <2>1. /\ UNCHANGED <<env, dec>>
        /\ \A q \in Pids : /\ worker'[q].born = worker[q].born
                           /\ worker'[q].forced = worker[q].forced
                           /\ Used(q)' <=> Used(q)
    BY <1>7, WorkerMoves DEF Used
  <2>2. QED
    BY <2>1 DEF OneDecides, CooledDown, CooldownSpaces, Busy, Used
<1>8. QED
  BY <1>2, <1>3, <1>4, <1>5, <1>6, <1>7 DEF Next, Over

----------------------------------------------------------------------------
(* One worker at a time, until a worker outlives the age at which its lock *)
(* counts as stale: `late` says that one has.                              *)

PassesFit == \A p \in Pids : Alive(p) => now - worker[p].born <= LockStale

OneAlive == \A p, q \in Pids : Alive(p) /\ Alive(q) => p = q

\* The lock dates from the decision that forked the worker, and names it as soon as
\* it names one; no other decider gets past it.
LockNamesWorker ==
  \A p \in Pids : Alive(p) =>
    /\ lock.st = "held" /\ lock.at = worker[p].born /\ lock.pid \in {0, p}
    /\ \A d \in Deciders : \/ dec[d].pc \in {"idle", "cool", "held"}
                           \/ dec[d].pc = "setpid" /\ dec[d].pid = p

\* From its create to the fork the lock is the decider's own.
LockIsTaken ==
  \A d \in Deciders :
    /\ dec[d].pc = "write" => lock = EmptyLock(d)
    /\ dec[d].pc \in {"note", "publish", "spawn"} => lock = Held(0, dec[d].at)
    /\ dec[d].pc = "setpid" => dec[d].pid \in Pids /\ worker[dec[d].pid].born = dec[d].at

Guarding == env # "overlap" => OneAlive /\ LockNamesWorker /\ LockIsTaken

\* The lock of a worker that lives and fits is live.
LEMMA GuardedIsLive ==
  ASSUME Inv, Timing, Guarding, PassesFit, env # "overlap",
         NEW p \in Pids, Alive(p), NEW d \in Deciders, Busy(d)
  PROVE  LockLive(dec[d].at)
<1>1. /\ lock.st = "held" /\ lock.at = worker[p].born /\ lock.pid \in {0, p}
      /\ dec[d].at = now /\ now - worker[p].born <= LockStale
  BY DEF Guarding, LockNamesWorker, Timing, DecidersAreQuick, PassesFit
<1>2. /\ now \in Nat /\ worker[p].born \in Nat /\ LockStale \in Nat
  BY BoundsAssumption DEF Inv, TypeOK, WorkerState
<1>3. ~(now - lock.at > LockStale)
  BY <1>1, <1>2
<1>4. QED
  BY <1>1, <1>3 DEF LockLive, IsLockStale

\* A step of a decider that deals with the lock while nobody lives.
LEMMA LockTaken ==
  ASSUME Inv, Timing, Spacing, Guarding, PassesFit, env # "overlap",
         NEW d \in Deciders, Decide(d), ~DecideSelect(d), ~DecideSpawn(d), ~DecideSetPid(d)
  PROVE  /\ dec'[d].pc = "write" => lock' = EmptyLock(d)
         /\ dec'[d].pc \in {"note", "publish", "spawn"} => lock' = Held(0, dec'[d].at)
         /\ dec'[d].pc # "setpid"
         /\ dec'[d].pc \in {"idle", "held"} \/ \A p \in Pids : ~Alive(p)
         /\ lock' = lock \/ \A p \in Pids : ~Alive(p)
<1>1. dec[d].pc \in {"idle", "cool", "held", "setpid"} \/ \A p \in Pids : ~Alive(p)
  BY DEF Guarding, LockNamesWorker
<1>2. CASE DecideCool(d) \/ DecideNoProvider(d)
  <2>1. Return(d, "cool") \/ Goto(d, "cool", "held") \/ Return(d, "select")
    BY <1>2 DEF DecideCool, DecideNoProvider
  <2>2. dec'[d].pc \in {"idle", "held"}
    BY <2>1 DEF Goto, Return, Idle, Inv, TypeOK, DeciderState
  <2>3. lock' = lock
    BY <1>2 DEF DecideCool, DecideNoProvider, files
  <2>4. QED
    BY <2>2, <2>3
<1>3. CASE DecideHeld(d)
  <2>1. \/ Return(d, "held")
        \/ Goto(d, "held", "select") /\ ~LockLive(dec[d].at)
    BY <1>3 DEF DecideHeld
  <2>2. lock' = lock
    BY <1>3 DEF DecideHeld, files
  <2>3. CASE Return(d, "held")
    BY <2>2, <2>3, GotoFields DEF Inv
  <2>4. CASE Goto(d, "held", "select") /\ ~LockLive(dec[d].at)
    <3>1. dec[d].pc = "held" /\ dec'[d].pc = "select"
      BY <2>4, GotoFields DEF Inv
    <3>2. \A p \in Pids : ~Alive(p)
      BY <2>4, <3>1, GuardedIsLive DEF Busy
    <3>3. QED
      BY <3>1, <3>2
  <2>5. QED
    BY <2>1, <2>3, <2>4
<1>4. CASE AcquireCreate(d) \/ AcquireRetry(d)
  <2>1. \/ (Goto(d, "create", "write") \/ Goto(d, "retry", "write")) /\ lock' = EmptyLock(d)
        \/ Goto(d, "create", "check") \/ Return(d, "retry")
    BY <1>4 DEF AcquireCreate, AcquireRetry, CreateExclusive
  <2>2. /\ dec[d].pc \in {"create", "retry"} /\ dec'[d].pc \in {"write", "check", "idle"}
        /\ dec'[d].pc = "write" => lock' = EmptyLock(d)
    BY <2>1 DEF Goto, Return, Idle, Inv, TypeOK, DeciderState
  <2>3. QED
    BY <1>1, <2>2
<1>5. CASE AcquireWrite(d)
  <2>1. dec[d].pc = "write" /\ dec'[d].pc = "note" /\ dec'[d].at = dec[d].at
    BY <1>5, GotoFields DEF AcquireWrite, Inv
  <2>2. lock = EmptyLock(d)
    BY <2>1 DEF Guarding, LockIsTaken
  <2>3. lock.by = {d}
    BY <2>2 DEF EmptyLock
  <2>4. lock' = Held(0, dec[d].at)
    BY <1>5, <2>3 DEF AcquireWrite
  <2>5. QED
    BY <1>1, <2>1, <2>4
<1>6. CASE AcquireCheck(d) \/ AcquireRemove(d)
  <2>1. Return(d, "check") \/ Goto(d, "check", "remove") \/ Goto(d, "remove", "retry")
    BY <1>6 DEF AcquireCheck, AcquireRemove
  <2>2. dec[d].pc \in {"check", "remove"} /\ dec'[d].pc \in {"idle", "remove", "retry"}
    BY <2>1 DEF Goto, Return, Idle, Inv, TypeOK, DeciderState
  <2>3. QED
    BY <1>1, <2>2
<1>7. CASE DecideNote(d) \/ DecidePublish(d)
  <2>1. Goto(d, "note", "publish") \/ Goto(d, "publish", "spawn")
    BY <1>7 DEF DecideNote, DecidePublish
  <2>2. /\ dec[d].pc \in {"note", "publish"} /\ dec'[d].pc \in {"publish", "spawn"}
        /\ dec'[d].at = dec[d].at
    BY <2>1 DEF Goto, Return, Idle, Inv, TypeOK, DeciderState
  <2>3. lock' = lock /\ lock = Held(0, dec[d].at)
    BY <1>7, <2>2 DEF DecideNote, DecidePublish, Guarding, LockIsTaken
  <2>4. QED
    BY <1>1, <2>2, <2>3
<1>8. CASE DecideSpawnFails(d) \/ DecideRelease(d) \/ DecideClear(d)
  <2>1. Goto(d, "spawn", "release") \/ Goto(d, "release", "clear") \/ Return(d, "clear")
    BY <1>8 DEF DecideSpawnFails, DecideRelease, DecideClear
  <2>2. dec[d].pc \in {"spawn", "release", "clear"} /\ dec'[d].pc \in {"release", "clear", "idle"}
    BY <2>1 DEF Goto, Return, Idle, Inv, TypeOK, DeciderState
  <2>3. QED
    BY <1>1, <2>2
<1>9. QED
  BY <1>2, <1>3, <1>4, <1>5, <1>6, <1>7, <1>8 DEF Decide

\* Every step keeps the worker that lives under its lock.
LEMMA GuardingStep ==
  ASSUME Inv, Timing, Spacing, Guarding, PassesFit, [Next]_vars
  PROVE  Guarding'
<1>1. CASE UNCHANGED vars \/ SessionMoves \/ Tick
  <2>1. UNCHANGED <<env, lock, dec, worker>>
    BY <1>1 DEF vars, SessionMoves, Tick, files
  <2>2. QED
    BY <2>1 DEF Guarding, OneAlive, LockNamesWorker, LockIsTaken, Alive
<1>2. ASSUME NEW d \in Deciders, env # "overlap",
             Decide(d), ~DecideSelect(d), ~DecideSpawn(d), ~DecideSetPid(d)
      PROVE  Guarding'
  <2>1. /\ worker' = worker /\ Busy(d) /\ \A e \in Deciders : e # d => dec'[e] = dec[e]
    BY <1>2, DecideMoves
  <2>2. \A e \in Deciders : e # d => dec[e].pc = "idle" /\ dec'[e].pc = "idle"
    BY <1>2, <2>1 DEF Spacing, OneDecides, Busy
  <2>3. OneAlive'
    BY <1>2, <2>1 DEF Guarding, OneAlive, Alive
  <2>4. LockIsTaken'
    BY <1>2, <2>2, LockTaken DEF LockIsTaken
  <2>5. LockNamesWorker'
    <3>1. ASSUME NEW p \in Pids, Alive(p)
          PROVE  lock' = lock /\ dec'[d].pc \in {"idle", "held"}
      BY <1>2, <3>1, LockTaken
    <3>2. QED
      BY <1>2, <2>1, <2>2, <3>1 DEF Guarding, LockNamesWorker, Alive
  <2>6. QED
    BY <2>3, <2>4, <2>5 DEF Guarding
<1>3. ASSUME NEW d \in Deciders, env # "overlap", DecideSelect(d)
      PROVE  Guarding'
  <2>1. /\ dec[d].pc = "select" /\ dec'[d].pc \in {"idle", "create"} /\ UNCHANGED <<worker, lock>>
        /\ \A e \in Deciders : e # d => dec'[e] = dec[e]
    BY <1>3, SelectMoves
  <2>2. \A p \in Pids : ~Alive(p) /\ ~Alive(p)'
    BY <1>3, <2>1 DEF Guarding, LockNamesWorker, Alive
  <2>3. LockIsTaken'
    BY <1>3, <2>1 DEF Guarding, LockIsTaken
  <2>4. QED
    BY <2>2, <2>3 DEF Guarding, OneAlive, LockNamesWorker
<1>4. ASSUME NEW d \in Deciders, env # "overlap", DecideSpawn(d)
      PROVE  Guarding'
  <2>1. /\ dec[d].pc = "spawn" /\ lock' = lock
        /\ \A e \in Deciders : e # d => dec'[e] = dec[e]
        /\ dec'[d].pc = "setpid" /\ dec'[d].at = dec[d].at
    BY <1>4, SpawnMoves
  <2>2. PICK p \in Pids :
              /\ dec'[d].pid = p
              /\ \A q \in Pids : q # p => worker'[q] = worker[q]
              /\ worker'[p].born = dec[d].at
    BY <1>4, SpawnMoves
  <2>3. \A q \in Pids : ~Alive(q) /\ (q # p => ~Alive(q)')
    BY <1>4, <2>1, <2>2 DEF Guarding, LockNamesWorker, Alive
  <2>4. lock = Held(0, dec[d].at)
    BY <1>4, <2>1 DEF Guarding, LockIsTaken
  <2>5. \A e \in Deciders : e # d => dec'[e].pc = "idle"
    BY <1>4, <2>1 DEF Spacing, OneDecides, Busy
  <2>6. LockNamesWorker'
    BY <2>1, <2>2, <2>3, <2>4, <2>5 DEF LockNamesWorker, Held
  <2>7. LockIsTaken'
    BY <2>1, <2>2, <2>5 DEF LockIsTaken
  <2>8. QED
    BY <2>3, <2>6, <2>7 DEF Guarding, OneAlive
<1>5. ASSUME NEW d \in Deciders, env # "overlap", DecideSetPid(d)
      PROVE  Guarding'
  <2>1. /\ dec[d].pc = "setpid" /\ dec'[d].pc = "idle" /\ worker' = worker
        /\ \A e \in Deciders : e # d => dec'[e] = dec[e]
        /\ lock' = Held(dec[d].pid, dec[d].at)
    BY <1>5, GotoFields DEF DecideSetPid, Inv, store
  <2>2. \A e \in Deciders : dec'[e].pc = "idle"
    BY <1>5, <2>1 DEF Spacing, OneDecides, Busy
  <2>3. \A p \in Pids : Alive(p)' => Alive(p) /\ p = dec[d].pid /\ worker[p].born = dec[d].at
    BY <1>5, <2>1 DEF Guarding, LockNamesWorker, LockIsTaken, Alive
  <2>4. LockNamesWorker'
    BY <2>1, <2>2, <2>3 DEF LockNamesWorker, Held
  <2>5. LockIsTaken' /\ OneAlive'
    BY <2>2, <2>3 DEF LockIsTaken, OneAlive
  <2>6. QED
    BY <2>4, <2>5 DEF Guarding
<1>6. ASSUME NEW d \in Deciders, env # "overlap", DecideStart(d) \/ DeciderKill(d)
      PROVE  Guarding'
  <2>1. /\ UNCHANGED <<lock, worker>>
        /\ \A e \in Deciders : e # d => dec'[e] = dec[e]
        /\ dec'[d].pc \in {"idle", "cool", "held"}
    BY <1>6, StartMoves
  <2>2. QED
    BY <1>6, <2>1 DEF Guarding, OneAlive, LockNamesWorker, LockIsTaken, Alive
<1>7. ASSUME NEW p \in Pids, env # "overlap", Worker(p) \/ WorkerKill(p)
      PROVE  Guarding'
  <2>1. /\ UNCHANGED dec /\ Alive(p)
        /\ \A q \in Pids : q # p => worker'[q] = worker[q]
        /\ \A q \in Pids : worker'[q].born = worker[q].born
        /\ lock' = lock \/ ~Alive(p)'
    BY <1>7, WorkerMoves
  <2>2. \A q \in Pids : q # p => ~Alive(q) /\ ~Alive(q)'
    BY <1>7, <2>1 DEF Guarding, OneAlive, Alive
  <2>3. LockNamesWorker'
    BY <1>7, <2>1, <2>2 DEF Guarding, LockNamesWorker
  <2>4. LockIsTaken'
    BY <1>7, <2>1 DEF Guarding, LockNamesWorker, LockIsTaken
  <2>5. QED
    BY <2>2, <2>3, <2>4 DEF Guarding, OneAlive
<1>8. CASE env = "overlap"
  BY <1>8, EnvironmentStays DEF Guarding
<1>9. QED
  BY <1>1, <1>2, <1>3, <1>4, <1>5, <1>6, <1>7, <1>8 DEF Next, Over

----------------------------------------------------------------------------
(* What a pass announced reaches it, and what it loaded is not older than  *)
(* what was written before.                                                *)

TargetsExist ==
  /\ \A d \in Deciders : dec[d].targets \subseteq Store
  /\ \A p \in Pids : worker[p].asked \subseteq Store \intersect Humans

SummariesExist ==
  /\ \A s \in Sessions : sum[s] <= ver[s]
  /\ \A p \in Pids : \A s \in worker[p].todo \union worker[p].calls : worker[p].seen[s] <= ver[s]

Facts == TargetsExist /\ SummariesExist

\* The queue of a pass, from its publication to the last answer.
QueueArrives ==
  /\ \A d \in Deciders : dec[d].pc = "spawn" => queue = dec[d].targets
  /\ \A p \in Pids :
       /\ worker[p].pc = "boot" => queue = worker[p].asked
       /\ worker[p].pc = "load" => worker[p].wanted = worker[p].asked
       /\ worker[p].pc = "work" =>
            worker[p].asked \subseteq worker[p].todo \union worker[p].calls \union worker[p].tried
       /\ worker[p].pc \in {"clear", "release"} => worker[p].asked \subseteq worker[p].tried
       /\ worker[p].pc # "work" => worker[p].todo = {} /\ worker[p].calls = {}

LoadIsNewer ==
  \A p \in Pids : \A s \in worker[p].todo \union worker[p].calls : sum[s] <= worker[p].seen[s]

Passing == env # "overlap" => QueueArrives /\ LoadIsNewer

\* All of a set are its newest.
LEMMA NewestOfAll ==
  ASSUME NEW S \in SUBSET Sessions
  PROVE  Newest(S, Cardinality(S)) = S
<1>1. IsFiniteSet(S) /\ S \subseteq Nat
  BY SessionsAssumption, FS_Subset
<1>2. ASSUME NEW s \in S
      PROVE  Cardinality({r \in S : r > s}) < Cardinality(S)
  <2>1. IsFiniteSet(S \ {s}) /\ Cardinality(S \ {s}) = Cardinality(S) - 1
    BY <1>1, FS_RemoveElement
  <2>2. {r \in S : r > s} \subseteq S \ {s}
    BY <1>1
  <2>3. /\ IsFiniteSet({r \in S : r > s})
        /\ Cardinality({r \in S : r > s}) <= Cardinality(S \ {s})
    BY <2>1, <2>2, FS_Subset
  <2>4. Cardinality({r \in S : r > s}) \in Nat /\ Cardinality(S) \in Nat
    BY <1>1, <2>3, FS_CardinalityType
  <2>5. QED
    BY <2>1, <2>3, <2>4
<1>3. QED
  BY <1>2 DEF Newest

\* What a worker loads, and how it goes on.
LEMMA LoadMoves ==
  ASSUME Inv, NEW p \in Pids, WorkerLoad(p)
  PROVE  /\ worker[p].pc = "load" /\ worker'[p].pc = "work" /\ worker'[p].asked = worker[p].asked
         /\ worker'[p].calls = worker[p].calls /\ worker'[p].tried = worker[p].tried
         /\ worker'[p].todo \subseteq Sessions
         /\ \A s \in worker'[p].todo : worker'[p].seen[s] = ver[s]
         /\ worker[p].wanted \subseteq Store \intersect Humans => worker[p].wanted \subseteq worker'[p].todo
<1>1. worker[p] \in WorkerState /\ worker \in [Pids -> WorkerState]
  BY WorkerTypes DEF Inv, TypeOK
<1> DEFINE wanted == worker[p].wanted
           todo == IF wanted # {} THEN Candidates(Store \intersect wanted, Cardinality(wanted))
                                  ELSE Targets(RecentRecords, Limit)
           w == [worker[p] EXCEPT !.pc = "work", !.todo = todo, !.wanted = {},
                      !.seen = [s \in Sessions |-> IF s \in todo THEN ver[s] ELSE 0]]
<1>2. worker[p].pc = "load" /\ worker' = [worker EXCEPT ![p] = w]
  BY DEF WorkerLoad, Becomes
<1>3. todo \subseteq Sessions
  BY CandidatesAreHuman, TargetsAreHuman DEF Sessions
<1>4. wanted \subseteq Store \intersect Humans => wanted \subseteq todo
  <2>1. SUFFICES ASSUME wanted \subseteq Store \intersect Humans, wanted # {}
                 PROVE  wanted \subseteq todo
    OBVIOUS
  <2>2. (Store \intersect wanted) \intersect Humans = wanted
    BY <2>1
  <2>3. wanted \in SUBSET Sessions
    BY <1>1 DEF WorkerState
  <2>4. todo = Newest(wanted, Cardinality(wanted))
    BY <2>1, <2>2 DEF Candidates
  <2>5. Newest(wanted, Cardinality(wanted)) = wanted
    BY <2>3, NewestOfAll
  <2>6. QED
    BY <2>4, <2>5
<1> HIDE DEF todo
<1>5. /\ w.pc = "work" /\ w.asked = worker[p].asked /\ w.calls = worker[p].calls
      /\ w.tried = worker[p].tried /\ w.todo = todo
      /\ w.seen = [s \in Sessions |-> IF s \in todo THEN ver[s] ELSE 0]
  BY <1>1 DEF WorkerState
<1>6. worker'[p] = w
  BY <1>1, <1>2
<1> HIDE DEF w
<1>7. \A s \in worker'[p].todo : worker'[p].seen[s] = ver[s]
  BY <1>3, <1>5, <1>6
<1>8. QED
  BY <1>2, <1>3, <1>4, <1>5, <1>6, <1>7

\* What a worker has in hand moves on to what it tried; what it saw stays.
LEMMA HandMoves ==
  ASSUME Inv, NEW p \in Pids, WorkerTake(p) \/ WorkerSave(p) \/ WorkerFail(p)
  PROVE  /\ worker[p].pc = "work" /\ worker'[p].pc = "work"
         /\ worker'[p].asked = worker[p].asked /\ worker'[p].seen = worker[p].seen
         /\ worker'[p].todo \union worker'[p].calls \subseteq worker[p].todo \union worker[p].calls
         /\ worker[p].todo \union worker[p].calls \union worker[p].tried
              \subseteq worker'[p].todo \union worker'[p].calls \union worker'[p].tried
         /\ \/ sum' = sum
            \/ \E s \in worker[p].calls : sum' = [sum EXCEPT ![s] = worker[p].seen[s]]
         /\ queue' = queue
<1>1. worker[p] \in WorkerState /\ worker \in [Pids -> WorkerState]
  BY WorkerTypes DEF Inv, TypeOK
<1>2. CASE WorkerTake(p)
  <2>1. PICK s \in worker[p].todo :
          LET taken == [worker[p] EXCEPT !.todo = @ \ {s}]
          IN \/ worker'[p] = [taken EXCEPT !.tried = @ \union {s}]
             \/ worker'[p] = [taken EXCEPT !.calls = @ \union {s}, !.since[s] = now]
    BY <1>1, <1>2, NewestIsSubset DEF WorkerTake, Becomes
  <2>2. worker[p].pc = "work" /\ sum' = sum /\ queue' = queue
    BY <1>2 DEF WorkerTake, CanTake, files
  <2>3. \/ /\ worker'[p].todo = worker[p].todo \ {s} /\ worker'[p].calls = worker[p].calls
           /\ worker'[p].tried = worker[p].tried \union {s}
        \/ /\ worker'[p].todo = worker[p].todo \ {s} /\ worker'[p].calls = worker[p].calls \union {s}
           /\ worker'[p].tried = worker[p].tried
    BY <1>1, <2>1 DEF WorkerState
  <2>4. /\ worker'[p].pc = worker[p].pc /\ worker'[p].asked = worker[p].asked
        /\ worker'[p].seen = worker[p].seen
    BY <1>1, <2>1 DEF WorkerState
  <2>5. QED
    BY <2>2, <2>3, <2>4
<1>3. CASE WorkerSave(p) \/ WorkerFail(p)
  <2>1. PICK s \in worker[p].calls : /\ worker'[p] = Answered(worker[p], s)
                                     /\ sum' = sum \/ sum' = [sum EXCEPT ![s] = worker[p].seen[s]]
    BY <1>1, <1>3 DEF WorkerSave, WorkerFail, Becomes, store
  <2>2. worker[p].pc = "work" /\ queue' = queue
    BY <1>3 DEF WorkerSave, WorkerFail, files
  <2>3. /\ worker'[p].todo = worker[p].todo /\ worker'[p].calls = worker[p].calls \ {s}
        /\ worker'[p].tried = worker[p].tried \union {s}
        /\ worker'[p].pc = worker[p].pc /\ worker'[p].asked = worker[p].asked
        /\ worker'[p].seen = worker[p].seen
    BY <1>1, <2>1 DEF Answered, WorkerState
  <2>4. QED
    BY <2>1, <2>2, <2>3
<1>4. QED
  BY <1>2, <1>3

\* The other steps of a worker: it reads the queue, ends its batch, cleans up or dies.
LEMMA RestMoves ==
  ASSUME Inv, NEW p \in Pids,
         \/ WorkerDrop(p) \/ WorkerReadQueue(p) \/ WorkerDone(p) \/ WorkerClear(p)
         \/ WorkerRelease(p) \/ WorkerKill(p)
  PROVE  /\ UNCHANGED <<ver, sum>> /\ worker'[p].pc # "work" /\ worker'[p].pc # "boot"
         /\ \A s \in worker'[p].todo \union worker'[p].calls :
              s \in worker[p].todo \union worker[p].calls /\ worker'[p].seen[s] = worker[p].seen[s]
         /\ worker'[p].pc = "load" =>
              worker[p].pc = "boot" /\ worker'[p].wanted = queue /\ worker'[p].asked = worker[p].asked
         /\ worker'[p].pc = "clear" =>
              /\ worker[p].pc = "work" /\ worker[p].todo = {} /\ worker[p].calls = {}
              /\ worker'[p].asked = worker[p].asked /\ worker'[p].tried = worker[p].tried
         /\ worker'[p].pc = "release" =>
              /\ worker[p].pc = "clear"
              /\ worker'[p].asked = worker[p].asked /\ worker'[p].tried = worker[p].tried
         /\ worker[p].pc = "work" => worker'[p].todo = {} /\ worker'[p].calls = {}
<1>1. worker[p] \in WorkerState /\ worker \in [Pids -> WorkerState]
  BY WorkerTypes DEF Inv, TypeOK
<1>2. UNCHANGED <<ver, sum>>
  BY DEF WorkerDrop, WorkerReadQueue, WorkerDone, WorkerClear, WorkerRelease, WorkerKill, store
<1>3. CASE WorkerDrop(p) \/ WorkerRelease(p) \/ WorkerKill(p)
  <2>1. PICK pc \in {"dropped", "dead", "killed"} : worker' = [worker EXCEPT ![p] = Ended(worker[p], pc)]
    BY <1>3 DEF WorkerDrop, WorkerRelease, WorkerKill, Becomes
  <2>2. worker'[p].pc = pc /\ worker'[p].todo = {} /\ worker'[p].calls = {}
    BY <1>1, <2>1 DEF Ended, Off
  <2>3. QED
    BY <1>2, <2>2
<1>4. CASE WorkerReadQueue(p)
  BY <1>1, <1>2, <1>4 DEF WorkerReadQueue, Becomes, WorkerState
<1>5. CASE WorkerDone(p)
  BY <1>1, <1>2, <1>5 DEF WorkerDone, Becomes, WorkerState
<1>6. CASE WorkerClear(p)
  BY <1>1, <1>2, <1>6 DEF WorkerClear, Becomes, WorkerState
<1>7. QED
  BY <1>3, <1>4, <1>5, <1>6

\* Sessions only grow.
LEMMA SessionsGrow ==
  ASSUME Inv, [Next]_vars
  PROVE  \A s \in Sessions : ver'[s] >= ver[s]
<1>1. ver \in [Sessions -> 0 .. MaxVer] /\ MaxVer \in Nat
  BY BoundsAssumption DEF Inv, TypeOK
<1>2. CASE SessionMoves
  BY <1>1, <1>2 DEF SessionMoves
<1>3. ASSUME NEW p \in Pids, WorkerTake(p)
      PROVE  \A s \in Sessions : ver'[s] >= ver[s]
  BY <1>1, <1>3 DEF WorkerTake
<1>4. CASE /\ ~SessionMoves /\ \A p \in Pids : ~WorkerTake(p)
  <2>1. ver' = ver
    BY <1>4
    DEF Next, Decide, DecideCool, DecideHeld, DecideNoProvider, DecideSelect, AcquireCreate, AcquireWrite,
       AcquireCheck, AcquireRemove, AcquireRetry, CreateExclusive, DecideNote, DecidePublish, DecideSpawn,
       DecideSpawnFails, DecideRelease, DecideClear, DecideSetPid, DecideStart, DeciderKill, Worker, WorkerDrop,
       WorkerReadQueue, WorkerLoad, WorkerSave, WorkerFail, WorkerDone, WorkerClear,
       WorkerRelease, WorkerKill, Tick, Over, vars, store
  <2>2. QED
    BY <1>1, <2>1
<1>5. QED
  BY <1>2, <1>3, <1>4

\* The targets of a decider and the announcement of a worker, after a step.
LEMMA TargetsStep ==
  ASSUME Inv, TargetsExist, [Next]_vars
  PROVE  TargetsExist'
<1>1. Store \subseteq Store'
  <2>1. ver \in [Sessions -> 0 .. MaxVer] /\ ver' \in [Sessions -> 0 .. MaxVer] /\ MaxVer \in Nat
    BY InvStep, BoundsAssumption DEF Inv, TypeOK
  <2>2. \A s \in Sessions : ver[s] > 0 => ver'[s] > 0
    BY <2>1, SessionsGrow
  <2>3. QED
    BY <2>2 DEF Store
<1>2. \A d \in Deciders : dec[d].targets \subseteq Humans
  BY DEF Inv, HumansOnly
<1>3. \A d \in Deciders : dec'[d].targets = dec[d].targets \/ dec'[d].targets \subseteq Store
  <2>1. ASSUME NEW d \in Deciders, Decide(d) \/ DecideStart(d) \/ DeciderKill(d)
        PROVE  /\ \A e \in Deciders : e # d => dec'[e] = dec[e]
               /\ dec'[d].targets = dec[d].targets \/ dec'[d].targets \subseteq Store
    BY <2>1, DecideMoves, SelectMoves, SpawnMoves, StartMoves
  <2>2. (\A d \in Deciders : ~(Decide(d) \/ DecideStart(d) \/ DeciderKill(d))) => dec' = dec
    BY WorkerMoves DEF Next, SessionMoves, Tick, Over, vars
  <2>3. QED
    BY <2>1, <2>2
<1>4. \A p \in Pids : \/ worker'[p].asked \in {worker[p].asked, {}}
                      \/ \E d \in Deciders : worker'[p].asked = dec[d].targets
  <2>1. ASSUME NEW d \in Deciders, DecideSpawn(d), NEW p \in Pids
        PROVE  worker'[p].asked \in {worker[p].asked, dec[d].targets}
    BY <2>1, SpawnMoves
  <2>2. ASSUME NEW q \in Pids, Worker(q) \/ WorkerKill(q), NEW p \in Pids
        PROVE  worker'[p].asked \in {worker[p].asked, {}}
    BY <2>2, WorkerMoves
  <2>3. (/\ \A d \in Deciders : ~DecideSpawn(d)
         /\ \A q \in Pids : ~(Worker(q) \/ WorkerKill(q))) => worker' = worker
    BY DecideMoves, SelectMoves, StartMoves DEF Next, SessionMoves, Tick, Over, vars
  <2>4. QED
    BY <2>1, <2>2, <2>3
<1>5. QED
  BY <1>1, <1>2, <1>3, <1>4 DEF TargetsExist

\* No summary describes what is not there yet.
LEMMA SummariesStep ==
  ASSUME Inv, SummariesExist, [Next]_vars
  PROVE  SummariesExist'
<1>1. /\ \A s \in Sessions : ver[s] \in Nat /\ ver'[s] \in Nat /\ ver'[s] >= ver[s]
      /\ \A s \in Sessions : sum[s] \in Nat
      /\ sum \in [Sessions -> 0 .. MaxVer]
  <2>1. ver' \in [Sessions -> 0 .. MaxVer]
    BY InvStep DEF Inv, TypeOK
  <2>2. QED
    BY <2>1, SessionsGrow, BoundsAssumption DEF Inv, TypeOK
<1>2. \A p \in Pids : worker[p].todo \union worker[p].calls \subseteq Sessions
                      /\ \A s \in Sessions : worker[p].seen[s] \in Nat
  BY BoundsAssumption DEF Inv, TypeOK, WorkerState
<1>3. ASSUME NEW p \in Pids, Worker(p) \/ WorkerKill(p)
      PROVE  SummariesExist'
  <2>1. \A q \in Pids : q # p => worker'[q] = worker[q]
    BY <1>3, WorkerMoves
  <2>2. CASE WorkerLoad(p)
    <3>1. UNCHANGED <<ver, sum>>
      BY <2>2 DEF WorkerLoad, store
    <3>2. \A s \in worker'[p].todo \union worker'[p].calls :
            s \in worker'[p].todo \/ s \in worker[p].calls
      BY <2>2, LoadMoves
    <3>3. \A s \in worker[p].calls : worker'[p].seen[s] \in {0, ver[s]}
      BY <1>2, <2>2 DEF WorkerLoad, Becomes, Inv, TypeOK, WorkerState
    <3>4. \A s \in worker'[p].todo \union worker'[p].calls : worker'[p].seen[s] <= ver[s]
      BY <1>1, <1>2, <2>2, <3>2, <3>3, LoadMoves
    <3>5. QED
      BY <1>1, <2>1, <3>1, <3>4 DEF SummariesExist
  <2>3. CASE WorkerTake(p) \/ WorkerSave(p) \/ WorkerFail(p)
    <3>1. \A q \in Pids : \A s \in worker'[q].todo \union worker'[q].calls :
            s \in Sessions /\ worker'[q].seen[s] <= ver[s] /\ worker'[q].seen[s] \in Nat
      BY <1>2, <2>1, <2>3, HandMoves DEF SummariesExist
    <3>2. \A s \in Sessions : sum'[s] <= ver[s] /\ sum'[s] \in Nat
      BY <1>1, <1>2, <2>3, HandMoves DEF SummariesExist
    <3>3. QED
      BY <1>1, <3>1, <3>2 DEF SummariesExist
  <2>4. CASE ~(WorkerLoad(p) \/ WorkerTake(p) \/ WorkerSave(p) \/ WorkerFail(p))
    <3>1. /\ UNCHANGED <<ver, sum>>
          /\ \A s \in worker'[p].todo \union worker'[p].calls :
               s \in worker[p].todo \union worker[p].calls /\ worker'[p].seen[s] = worker[p].seen[s]
      BY <1>3, <2>4, RestMoves DEF Worker
    <3>2. QED
      BY <2>1, <3>1 DEF SummariesExist
  <2>5. QED
    BY <2>2, <2>3, <2>4
<1>4. ASSUME NEW d \in Deciders, DecideSpawn(d)
      PROVE  SummariesExist'
  BY <1>4, SpawnMoves DEF SummariesExist
<1>5. CASE /\ \A p \in Pids : ~(Worker(p) \/ WorkerKill(p))
           /\ \A d \in Deciders : ~DecideSpawn(d)
  <2>1. UNCHANGED <<sum, worker>>
    BY <1>5, DecideMoves, SelectMoves, StartMoves DEF Next, SessionMoves, Tick, Over, vars, store
  <2>2. QED
    BY <1>1, <1>2, <2>1 DEF SummariesExist
<1>6. QED
  BY <1>3, <1>4, <1>5

\* Every step keeps a pass on its way: no decider and no other worker touches its
\* queue, and no other pass writes a summary while it has its records in hand.
LEMMA PassingStep ==
  ASSUME Inv, Timing, Spacing, Guarding, PassesFit, Facts, Passing, [Next]_vars
  PROVE  Passing'
<1> USE DEF Facts
<1>1. CASE UNCHANGED vars \/ SessionMoves \/ Tick
  <2>1. UNCHANGED <<env, queue, sum, dec, worker>>
    BY <1>1 DEF vars, SessionMoves, Tick, files, store
  <2>2. QED
    BY <2>1 DEF Passing, QueueArrives, LoadIsNewer
<1>2. ASSUME NEW d \in Deciders, env # "overlap", Decide(d), ~DecideSelect(d), ~DecideSpawn(d)
      PROVE  Passing'
  <2>1. /\ UNCHANGED <<worker, sum>> /\ Busy(d) /\ \A e \in Deciders : e # d => dec'[e] = dec[e]
        /\ dec'[d].pc = "spawn" => queue' = dec[d].targets /\ dec'[d].targets = dec[d].targets
        /\ queue' = queue \/ dec[d].pc \in {"publish", "clear"}
    BY <1>2, DecideMoves
  <2>2. \A e \in Deciders : e # d => dec'[e].pc = "idle"
    BY <1>2, <2>1 DEF Spacing, OneDecides, Busy
  <2>3. \A p \in Pids : worker[p].pc = "boot" => queue' = queue
    BY <1>2, <2>1 DEF Guarding, LockNamesWorker, Alive
  <2>4. QueueArrives'
    BY <1>2, <2>1, <2>2, <2>3 DEF Passing, QueueArrives
  <2>5. LoadIsNewer'
    BY <1>2, <2>1 DEF Passing, LoadIsNewer
  <2>6. QED
    BY <2>4, <2>5 DEF Passing
<1>3. ASSUME NEW d \in Deciders, env # "overlap", DecideSelect(d) \/ DecideStart(d) \/ DeciderKill(d)
      PROVE  Passing'
  <2>1. /\ UNCHANGED <<queue, sum, worker>>
        /\ \A e \in Deciders : e # d => dec'[e] = dec[e]
        /\ dec'[d].pc # "spawn"
    BY <1>3, SelectMoves, StartMoves
  <2>2. QED
    BY <1>3, <2>1 DEF Passing, QueueArrives, LoadIsNewer
<1>4. ASSUME NEW d \in Deciders, env # "overlap", DecideSpawn(d)
      PROVE  Passing'
  <2>1. /\ dec[d].pc = "spawn" /\ UNCHANGED <<queue, sum>>
        /\ \A e \in Deciders : e # d => dec'[e] = dec[e]
        /\ dec'[d].pc = "setpid"
    BY <1>4, SpawnMoves
  <2>2. PICK p \in Pids :
              /\ \A q \in Pids : q # p => worker'[q] = worker[q]
              /\ worker'[p].pc = "boot" /\ worker'[p].asked = dec[d].targets
              /\ worker'[p].todo = {} /\ worker'[p].calls = {}
    BY <1>4, SpawnMoves
  <2>3. queue = dec[d].targets
    BY <1>4, <2>1 DEF Passing, QueueArrives
  <2>4. QueueArrives'
    BY <1>4, <2>1, <2>2, <2>3 DEF Passing, QueueArrives
  <2>5. LoadIsNewer'
    BY <1>4, <2>1, <2>2 DEF Passing, LoadIsNewer
  <2>6. QED
    BY <2>4, <2>5 DEF Passing
<1>5. ASSUME NEW p \in Pids, env # "overlap", Worker(p) \/ WorkerKill(p)
      PROVE  Passing'
  <2>1. /\ UNCHANGED dec /\ Alive(p) /\ \A q \in Pids : q # p => worker'[q] = worker[q]
    BY <1>5, WorkerMoves
  <2>2. \A q \in Pids : q # p => ~Alive(q)
    BY <1>5, <2>1 DEF Guarding, OneAlive
  <2>3. \A q \in Pids : q # p =>
          /\ worker'[q].pc \notin {"boot", "load", "work", "clear", "release"}
          /\ worker'[q].todo = {} /\ worker'[q].calls = {}
    BY <1>5, <2>1, <2>2 DEF Alive, Passing, QueueArrives
  <2>4. \A d \in Deciders : dec'[d].pc # "spawn"
    BY <1>5, <2>1 DEF Guarding, LockNamesWorker
  <2>5. \A s \in Sessions : sum[s] <= ver[s]
    BY DEF SummariesExist
  <2>6. /\ sum \in [Sessions -> 0 .. MaxVer] /\ worker[p] \in WorkerState
    BY DEF Inv, TypeOK
  <2>7. CASE WorkerLoad(p)
    <3>1. /\ sum' = sum
      BY <2>7 DEF WorkerLoad, store
    <3>2. worker[p].pc = "load" /\ worker[p].wanted = worker[p].asked /\ worker[p].calls = {}
      BY <1>5, <2>7 DEF WorkerLoad, Passing, QueueArrives
    <3>3. worker'[p].asked \subseteq worker'[p].todo
      BY <2>7, <3>2, LoadMoves DEF TargetsExist
    <3>4. \A s \in worker'[p].todo \union worker'[p].calls : sum'[s] <= worker'[p].seen[s]
      BY <2>5, <2>7, <3>1, <3>2, LoadMoves
    <3>5. worker'[p].pc = "work"
      BY <2>7, LoadMoves
    <3>6. QED
      BY <2>3, <2>4, <3>3, <3>4, <3>5 DEF Passing, QueueArrives, LoadIsNewer
  <2>8. CASE WorkerTake(p) \/ WorkerSave(p) \/ WorkerFail(p)
    <3>1. \A s \in worker[p].todo \union worker[p].calls : sum[s] <= worker[p].seen[s] /\ s \in Sessions
      BY <1>5, <2>6 DEF Passing, LoadIsNewer, WorkerState
    <3>2. \A s \in worker'[p].todo \union worker'[p].calls : sum'[s] <= worker'[p].seen[s]
      <4>1. CASE sum' = sum
        BY <2>8, <3>1, <4>1, HandMoves
      <4>2. ASSUME NEW c \in worker[p].calls, sum' = [sum EXCEPT ![c] = worker[p].seen[c]]
            PROVE  \A s \in worker[p].todo \union worker[p].calls : sum'[s] <= worker[p].seen[s]
        <5>1. worker[p].seen[c] <= worker[p].seen[c]
          BY <2>6, <3>1, BoundsAssumption DEF WorkerState
        <5>2. QED
          BY <2>6, <3>1, <4>2, <5>1
      <4>3. QED
        BY <2>8, <4>1, <4>2, HandMoves
    <3>3. /\ worker[p].pc = "work" /\ worker'[p].pc = "work"
          /\ worker'[p].asked \subseteq worker'[p].todo \union worker'[p].calls \union worker'[p].tried
      <4>1. worker[p].pc = "work" /\ worker'[p].pc = "work" /\ worker'[p].asked = worker[p].asked
        BY <2>8, HandMoves
      <4>2. worker[p].asked \subseteq worker[p].todo \union worker[p].calls \union worker[p].tried
        BY <1>5, <4>1 DEF Passing, QueueArrives
      <4>3. worker[p].todo \union worker[p].calls \union worker[p].tried
              \subseteq worker'[p].todo \union worker'[p].calls \union worker'[p].tried
        BY <2>8, HandMoves
      <4>4. QED
        BY <4>1, <4>2, <4>3
    <3>4. QED
      BY <2>3, <2>4, <3>2, <3>3 DEF Passing, QueueArrives, LoadIsNewer
  <2>9. CASE ~(WorkerLoad(p) \/ WorkerTake(p) \/ WorkerSave(p) \/ WorkerFail(p))
    <3>1. \/ WorkerDrop(p) \/ WorkerReadQueue(p) \/ WorkerDone(p) \/ WorkerClear(p)
          \/ WorkerRelease(p) \/ WorkerKill(p)
      BY <1>5, <2>9 DEF Worker
    <3>2. worker'[p].todo = {} /\ worker'[p].calls = {}
      <4>1. CASE worker[p].pc = "work"
        BY <3>1, <4>1, RestMoves
      <4>2. CASE worker[p].pc # "work"
        BY <1>5, <3>1, <4>2, RestMoves DEF Passing, QueueArrives
      <4>3. QED
        BY <4>1, <4>2
    <3>3. LoadIsNewer'
      BY <2>3, <3>2 DEF LoadIsNewer
    <3>4. /\ worker'[p].pc # "work" /\ worker'[p].pc # "boot"
          /\ worker'[p].pc = "load" => worker'[p].wanted = worker'[p].asked
          /\ worker'[p].pc \in {"clear", "release"} => worker'[p].asked \subseteq worker'[p].tried
      BY <1>5, <3>1, RestMoves DEF Passing, QueueArrives
    <3>5. QueueArrives'
      BY <2>3, <2>4, <3>2, <3>4 DEF QueueArrives
    <3>6. QED
      BY <3>3, <3>5 DEF Passing
  <2>10. QED
    BY <2>7, <2>8, <2>9
<1>6. CASE env = "overlap"
  BY <1>6, EnvironmentStays DEF Passing
<1>7. QED
  BY <1>1, <1>2, <1>3, <1>4, <1>5, <1>6 DEF Next, Over

----------------------------------------------------------------------------
(* The theorems.                                                           *)

\* Nobody decides, nobody works and nothing is summarized at the start.
LEMMA InitPasses == Init => Timing /\ Spacing /\ Facts /\ Guarding /\ Passing
<1> SUFFICES ASSUME Init
             PROVE  Timing /\ Spacing /\ Facts /\ Guarding /\ Passing
  OBVIOUS
<1>1. \A d \in Deciders : dec[d].pc = "idle" /\ dec[d].targets = {}
  BY DEF Init, Idle
<1>2. \A p \in Pids : /\ worker[p].pc = "off" /\ worker[p].asked = {}
                      /\ worker[p].todo = {} /\ worker[p].calls = {}
  BY DEF Init, Off
<1>3. now = 0 /\ checked = -1
  BY DEF Init
<1>4. Timing
  BY <1>1, <1>2, <1>3 DEF Timing, DecidersAreQuick, CheckIsNoted, PidsInOrder, Busy, Used
<1>5. Spacing
  BY <1>1, <1>2 DEF Spacing, OneDecides, CooledDown, CooldownSpaces, Busy, Used
<1>6. Facts
  <2>1. \A s \in Sessions : sum[s] = 0 /\ ver[s] \in {0, 1}
    BY DEF Init
  <2>2. \A s \in Sessions : sum[s] <= ver[s]
    BY <2>1
  <2>3. QED
    BY <1>1, <1>2, <2>2 DEF Facts, TargetsExist, SummariesExist
<1>7. Guarding
  BY <1>1, <1>2 DEF Guarding, OneAlive, LockNamesWorker, LockIsTaken, Alive
<1>8. Passing
  BY <1>1, <1>2 DEF Passing, QueueArrives, LoadIsNewer
<1>9. QED
  BY <1>4, <1>5, <1>6, <1>7, <1>8

\* What needs no assumption on how long a pass takes.
LEMMA SpacedInvariance == Spec => [](Inv /\ Timing /\ Spacing /\ Facts)
<1>1. Init => Inv /\ Timing /\ Spacing /\ Facts
  BY InitInv, InitPasses
<1>2. Inv /\ Timing /\ Spacing /\ Facts /\ [Next]_vars => (Inv /\ Timing /\ Spacing /\ Facts)'
  BY InvStep, TimingStep, SpacingStep, TargetsStep, SummariesStep DEF Facts
<1>3. QED
  BY <1>1, <1>2, PTL DEF Spec

\* Only the clock makes a pass late, and what it makes late stays so.
LEMMA LateStep ==
  ASSUME Inv, Timing, late \/ PassesFit, [Next]_vars
  PROVE  /\ late' \/ PassesFit'
         /\ late => late'
<1>1. /\ now \in Nat /\ LockStale \in Nat /\ \A p \in Pids : worker[p].born \in Nat
  BY BoundsAssumption DEF Inv, TypeOK, WorkerState
<1>2. CASE Tick
  <2>1. /\ now' = now + 1 /\ UNCHANGED worker
        /\ late' = (late \/ \E p \in Pids : Alive(p) /\ now + 1 - worker[p].born > LockStale)
    BY <1>2 DEF Tick
  <2>2. ASSUME ~late', NEW p \in Pids, Alive(p)'
        PROVE  now' - worker'[p].born <= LockStale
    <3>1. Alive(p) /\ ~(now + 1 - worker[p].born > LockStale)
      BY <2>1, <2>2 DEF Alive
    <3>2. QED
      BY <1>1, <2>1, <3>1
  <2>3. QED
    BY <2>1, <2>2 DEF PassesFit
<1>3. ASSUME ~Tick
      PROVE  late' = late /\ now' = now
  BY <1>3
  DEF Next, Decide, DecideCool, DecideHeld, DecideNoProvider, DecideSelect, AcquireCreate, AcquireWrite,
      AcquireCheck, AcquireRemove, AcquireRetry, CreateExclusive, DecideNote, DecidePublish, DecideSpawn,
      DecideSpawnFails, DecideRelease, DecideClear, DecideSetPid, DecideStart, DeciderKill, Worker, WorkerDrop,
      WorkerReadQueue, WorkerLoad, WorkerTake, WorkerSave, WorkerFail, WorkerDone, WorkerClear,
      WorkerRelease, WorkerKill, SessionMoves, Over, vars
<1>4. ASSUME ~Tick, NEW p \in Pids, Alive(p)'
      PROVE  (Alive(p) /\ worker'[p].born = worker[p].born) \/ worker'[p].born = now
  <2>1. ASSUME NEW d \in Deciders, DecideSpawn(d)
        PROVE  worker'[p] = worker[p] \/ worker'[p].born = now
    <3>1. dec[d].at = now
      BY <2>1, SpawnMoves DEF Timing, DecidersAreQuick, Busy
    <3>2. QED
      BY <2>1, <3>1, SpawnMoves
  <2>2. ASSUME NEW q \in Pids, Worker(q) \/ WorkerKill(q)
        PROVE  Alive(p) /\ worker'[p].born = worker[p].born
    BY <1>4, <2>2, WorkerMoves DEF Alive
  <2>3. (/\ \A d \in Deciders : ~DecideSpawn(d)
         /\ \A q \in Pids : ~(Worker(q) \/ WorkerKill(q))) => worker' = worker
    BY <1>4, DecideMoves, SelectMoves, StartMoves DEF Next, SessionMoves, Over, vars
  <2>4. QED
    BY <1>4, <2>1, <2>2, <2>3 DEF Alive
<1>5. ASSUME ~Tick
      PROVE  (late' \/ PassesFit') /\ (late => late')
  BY <1>1, <1>3, <1>4, <1>5 DEF PassesFit
<1>6. QED
  BY <1>2, <1>5 DEF Tick

\* What holds until a pass outlives its lock.
Fitting == (late \/ PassesFit) /\ (late \/ (Guarding /\ Passing))

LEMMA FittingInvariance == Spec => []Fitting
<1>1. Init => Fitting
  <2>1. ASSUME Init
        PROVE  PassesFit
    BY <2>1 DEF Init, Off, PassesFit, Alive
  <2>2. QED
    BY <2>1, InitPasses DEF Fitting
<1>2. Inv /\ Timing /\ Spacing /\ Facts /\ Fitting /\ [Next]_vars => Fitting'
  BY LateStep, GuardingStep, PassingStep DEF Fitting
<1>3. QED
  BY <1>1, <1>2, SpacedInvariance, PTL DEF Spec

\* Passes that nobody forced start at least COOLDOWN_MS apart when deciders do not
\* overlap, whatever their workers die of, however long they take and wherever a
\* decider is killed (inCooldown, noteCheck).
THEOREM CooldownIsKept == Spec => []CooldownSpaces
<1>1. Inv /\ Timing /\ Spacing /\ Facts => CooldownSpaces
  BY DEF Spacing
<1>2. QED
  BY <1>1, SpacedInvariance, PTL

\* When deciders do not overlap passes nobody forced start a cooldown apart; and until
\* a pass outlives LOCK_STALE_MS, the lock keeps one worker at a time and what was
\* announced is tried (acquireLock, writeLock, writeQueue, runAutoSummarize).
THEOREM PassesStayOrderly == Spec => []PassesAreOrderly
<1>1. Fitting => OneWorkerAtATime
  BY DEF Fitting, Excluding, Guarding, OneAlive, OneWorkerAtATime, Working, Alive
<1>2. Fitting => AnnouncedIsTried
  BY DEF Fitting, Excluding, Passing, QueueArrives, AnnouncedIsTried
<1>3. Spacing => CooldownSpaces
  BY DEF Spacing
<1>4. Inv /\ Timing /\ Spacing /\ Facts /\ Fitting => PassesAreOrderly
  BY <1>1, <1>2, <1>3 DEF PassesAreOrderly
<1>5. QED
  BY <1>4, SpacedInvariance, FittingInvariance, PTL

\* No summary is replaced by one of an older content of its session when deciders do
\* not overlap and until a pass outlives LOCK_STALE_MS: the records a pass loaded are
\* at least as new as every summary written until it is done (summarizeBatch).
THEOREM SummariesGoForward == Spec => SummariesMoveForward
<1>1. ASSUME Inv, Passing, [Next]_vars, env # "overlap"
      PROVE  \A s \in Sessions : sum'[s] >= sum[s]
  <2>1. sum \in [Sessions -> 0 .. MaxVer] /\ MaxVer \in Nat
    BY <1>1, BoundsAssumption DEF Inv, TypeOK
  <2>2. CASE sum' = sum
    BY <2>1, <2>2
  <2>3. ASSUME NEW p \in Pids, WorkerSave(p)
        PROVE  \A s \in Sessions : sum'[s] >= sum[s]
    <3>1. PICK s \in worker[p].calls : sum' = [sum EXCEPT ![s] = worker[p].seen[s]]
      BY <2>3 DEF WorkerSave
    <3>2. sum[s] <= worker[p].seen[s]
      BY <1>1 DEF Passing, LoadIsNewer
    <3>3. QED
      BY <2>1, <3>1, <3>2
  <2>4. (\A p \in Pids : ~WorkerSave(p)) => sum' = sum
    BY <1>1
    DEF Next, Decide, DecideCool, DecideHeld, DecideNoProvider, DecideSelect, AcquireCreate, AcquireWrite,
       AcquireCheck, AcquireRemove, AcquireRetry, CreateExclusive, DecideNote, DecidePublish, DecideSpawn,
       DecideSpawnFails, DecideRelease, DecideClear, DecideSetPid, DecideStart, DeciderKill, Worker, WorkerDrop,
       WorkerReadQueue, WorkerLoad, WorkerTake, WorkerFail, WorkerDone, WorkerClear,
       WorkerRelease, WorkerKill, SessionMoves, Tick, Over, vars, store
  <2>5. QED
    BY <2>2, <2>3, <2>4
<1>2. /\ Inv /\ Timing /\ Spacing /\ Facts /\ Fitting /\ [Next]_vars
      => [Excluding => \A s \in Sessions : sum'[s] >= sum[s]]_vars
  BY <1>1 DEF Fitting, Excluding
<1>3. QED
  BY <1>2, SpacedInvariance, FittingInvariance, PTL DEF Spec, SummariesMoveForward
============================================================================
