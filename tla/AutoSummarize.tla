--------------------------- MODULE AutoSummarize ---------------------------
(***************************************************************************)
(* The background summaries: any `gmux` process (a decider: `ls`, the      *)
(* picker, the watcher) may decide that sessions need a summary, take the  *)
(* lock file, publish a queue of session ids and fork one detached worker, *)
(* which works the queue off with model calls and drops queue and lock.    *)
(*                                                                         *)
(* What lies between two awaits of one process is one action.  A session's *)
(* content is its version; the SimHash distance between two contents is    *)
(* the distance of their versions; a model call makes an automated session *)
(* of its own, as `claude -p` does.  A session with a higher number is the *)
(* more recent one.                                                        *)
(*                                                                         *)
(* Abstracted: the opt-outs (a disabled decider is one that does not       *)
(* start), the wording of notices, the failure log, deletion of sessions,  *)
(* and the reuse of a pid by the kernel.                                   *)
(***************************************************************************)
EXTENDS Integers, FiniteSets

CONSTANTS
  Deciders,         \* the foreground processes
  Humans,           \* sessions a person worked in
  Autos,            \* sessions that model calls make: automated or sidechain
  MaxWorkers,       \* bound: workers forked
  MaxVer,           \* bound: versions of one session
  MaxTime,          \* bound: the wall clock
  LockStale,        \* LOCK_STALE_MS, in ticks
  Cooldown,         \* COOLDOWN_MS, in ticks
  CallTimeout,      \* PROVIDER_TIMEOUT_MS, in ticks
  Concurrency,      \* SUMMARY_CONCURRENCY
  Limit,            \* AUTO_SUMMARIZE_LIMIT
  MaxPerPass,       \* MAX_PER_PASS
  RefreshDistance,  \* REFRESH_DISTANCE
  Starts            \* the environments, each with the human sessions there are

Sessions == Humans \union Autos

Pids == 1 .. MaxWorkers

ASSUME SessionsAssumption ==
  /\ Sessions \subseteq Nat /\ Humans \intersect Autos = {}
  /\ IsFiniteSet(Sessions)

ASSUME BoundsAssumption ==
  /\ {MaxWorkers, Concurrency, Limit, MaxPerPass, RefreshDistance, MaxVer} \subseteq Nat \ {0}
  /\ {MaxTime, LockStale, Cooldown, CallTimeout} \subseteq Nat

\* solo         no decider starts while another one is deciding
\* interrupted  the same, and a decider may be killed halfway (ctrl-C)
\* overlap      deciders start whenever they like
Envs == {"solo", "interrupted", "overlap"}

ASSUME StartsAssumption == Starts \subseteq Envs \X SUBSET Humans

VARIABLES
  env,      \* the environment of this behaviour
  late,     \* history: a worker has lived on past LOCK_STALE_MS
  now,      \* the wall clock
  lock,     \* auto-summarize.lock
  queue,    \* auto-summarize.queue.json
  checked,  \* lastCheckAt of auto-summarize.state.json; -1 when there is none
  ver,      \* the version of each session; 0 is a session that is not there
  sum,      \* the version each cached summary describes; 0 is none
  dec,      \* the deciders
  worker    \* the detached workers, by pid

vars == <<env, late, now, lock, queue, checked, ver, sum, dec, worker>>

files == <<lock, queue, checked>>
store == <<ver, sum>>

----------------------------------------------------------------------------
(* Which sessions to summarize.                                            *)

Store == {s \in Sessions : ver[s] > 0}

Newest(S, n) == {s \in S : Cardinality({r \in S : r > s}) < n}

MutCandidates(records, limit) == Newest(records, limit)  \* no feedback-loop guard

\* autoSummarizeCandidates: the guard against summarizing the summarizer.
Candidates(records, limit) == Newest(records \intersect Humans, limit)

ShouldRefresh(s) == sum[s] = 0 \/ ver[s] - sum[s] >= RefreshDistance

Targets(records, limit) == {s \in Candidates(records, limit) : ShouldRefresh(s)}

\* loadRecords with a limit and no includes: filtered first, then cut.
RecentRecords == Newest(Store \intersect Humans, Limit)

----------------------------------------------------------------------------
(* The lock file.                                                          *)

\* by: the decider whose handle an empty lock file was created with.
NoLock == [st |-> "none", pid |-> 0, at |-> 0, by |-> {}]
EmptyLock(d) == [st |-> "empty", pid |-> 0, at |-> 0, by |-> {d}]
Held(p, at) == [st |-> "held", pid |-> p, at |-> at, by |-> {}]

Alive(p) == worker[p].pc \notin {"off", "dropped", "dead", "killed"}

MutIsLockStale(l, t) ==  \* a lock without a worker yet belongs to nobody alive
  \/ t - l.at > LockStale
  \/ l.pid = 0 \/ ~Alive(l.pid)

IsLockStale(l, t) ==
  \/ t - l.at > LockStale
  \/ l.pid # 0 /\ ~Alive(l.pid)

LockLive(t) == lock.st = "held" /\ ~IsLockStale(lock, t)

NoQueue == {}  \* a missing queue file and one without ids are read the same

MutInProgress == queue  \* reads the queue alone

\* inProgressIds: the rows a list marks as being summarized.
InProgress == IF LockLive(now) THEN queue ELSE {}

----------------------------------------------------------------------------
(* The processes.                                                          *)

Off == [pc |-> "off", forced |-> FALSE, born |-> 0, asked |-> {}, wanted |-> {},
        todo |-> {}, tried |-> {}, calls |-> {},
        seen |-> [s \in Sessions |-> 0], since |-> [s \in Sessions |-> 0]]

Idle == [pc |-> "idle", at |-> 0, force |-> FALSE, targets |-> {}, pid |-> 0]

Busy(d) == dec[d].pc # "idle"

\* asked, born and forced are what its parent decided, kept to speak about it:
\* the worker itself knows the queue only.  calls are in flight, each since a time.
WorkerState ==
  [pc : {"off", "boot", "load", "work", "clear", "release", "dropped", "dead", "killed"},
   forced : BOOLEAN, born : Nat,
   asked : SUBSET Sessions, wanted : SUBSET Sessions,
   todo : SUBSET Sessions, tried : SUBSET Sessions,
   calls : SUBSET Sessions, seen : [Sessions -> 0 .. MaxVer], since : [Sessions -> Nat]]

LockState ==
  [st : {"none", "empty", "held"}, pid : Pids \union {0}, at : Nat, by : SUBSET Deciders]

DeciderState ==
  [pc : {"idle", "cool", "held", "select", "create", "write", "check", "remove", "retry",
         "note", "publish", "spawn", "setpid", "release", "clear"},
   at : Nat, force : BOOLEAN, targets : SUBSET Sessions, pid : Pids \union {0}]

TypeOK ==
  /\ env \in Envs /\ late \in BOOLEAN
  /\ now \in Nat
  /\ lock \in LockState
  /\ queue \subseteq Sessions
  /\ checked \in Nat \union {-1}
  /\ ver \in [Sessions -> 0 .. MaxVer]
  /\ sum \in [Sessions -> 0 .. MaxVer]
  /\ dec \in [Deciders -> DeciderState]
  /\ worker \in [Pids -> WorkerState]

Init ==
  /\ \E start \in Starts :
       /\ env = start[1]
       /\ ver = [s \in Sessions |-> IF s \in start[2] THEN 1 ELSE 0]
  /\ now = 0 /\ late = FALSE
  /\ lock = NoLock
  /\ queue = NoQueue
  /\ checked = -1
  /\ sum = [s \in Sessions |-> 0]
  /\ dec = [d \in Deciders |-> Idle]
  /\ worker = [p \in Pids |-> Off]

----------------------------------------------------------------------------
(* maybeAutoSummarize.                                                     *)

Goto(d, from, to) == dec[d].pc = from /\ dec' = [dec EXCEPT ![d].pc = to]

Return(d, from) == dec[d].pc = from /\ dec' = [dec EXCEPT ![d] = Idle]

\* The clock is read once, here.  Bound: no decision that could need a worker
\* more than there are pids.
DecideStart(d) ==
  /\ ~Busy(d)
  /\ env = "overlap" \/ \A e \in Deciders : ~Busy(e)
  /\ Cardinality({p \in Pids : worker[p].pc = "off"}) > Cardinality({e \in Deciders : Busy(e)})
  /\ \E force \in BOOLEAN :
       dec' = [dec EXCEPT ![d] = [Idle EXCEPT !.pc = IF force THEN "held" ELSE "cool",
                                              !.at = now, !.force = force]]
  /\ UNCHANGED <<env, late, now, files, store, worker>>

\* "cooling-down"
DecideCool(d) ==
  /\ IF checked # -1 /\ dec[d].at - checked < Cooldown
     THEN Return(d, "cool") ELSE Goto(d, "cool", "held")
  /\ UNCHANGED <<env, late, now, files, store, worker>>

\* "locked"
DecideHeld(d) ==
  /\ IF LockLive(dec[d].at) THEN Return(d, "held") ELSE Goto(d, "held", "select")
  /\ UNCHANGED <<env, late, now, files, store, worker>>

\* "no-provider"
DecideNoProvider(d) ==
  /\ Return(d, "select")
  /\ UNCHANGED <<env, late, now, files, store, worker>>

\* The records are those on display, else the recent ones.  "nothing-to-do"
\* notes the check.
DecideSelect(d) ==
  /\ dec[d].pc = "select"
  /\ \E records \in (SUBSET Store) \union {RecentRecords} :
       LET all == Targets(records, IF Cardinality(records) > Limit THEN Cardinality(records) ELSE Limit)
       IN IF all = {}
          THEN dec' = [dec EXCEPT ![d] = Idle] /\ checked' = dec[d].at
          ELSE /\ dec' = [dec EXCEPT ![d].pc = "create", ![d].targets = Newest(all, MaxPerPass)]
               /\ checked' = checked
  /\ UNCHANGED <<env, late, now, lock, queue, store, worker>>

\* acquireLock: the O_EXCL create, its content in a step of its own; a lock that
\* is missing by now, empty or stale is removed and created again.
CreateExclusive(d, from, refused) ==
  /\ IF lock.st = "none"
     THEN lock' = EmptyLock(d) /\ Goto(d, from, "write")
     ELSE lock' = lock /\ (IF refused = "idle" THEN Return(d, from) ELSE Goto(d, from, refused))
  /\ UNCHANGED <<env, late, now, queue, checked, store, worker>>

AcquireCreate(d) == CreateExclusive(d, "create", "check")

\* The handle may be that of a file removed since: then nobody reads it.
AcquireWrite(d) ==
  /\ Goto(d, "write", "note")
  /\ lock' = IF lock.by = {d} THEN Held(0, dec[d].at) ELSE lock
  /\ UNCHANGED <<env, late, now, queue, checked, store, worker>>

AcquireCheck(d) ==
  /\ IF LockLive(dec[d].at) THEN Return(d, "check") ELSE Goto(d, "check", "remove")
  /\ UNCHANGED <<env, late, now, files, store, worker>>

AcquireRemove(d) ==
  /\ Goto(d, "remove", "retry")
  /\ lock' = NoLock
  /\ UNCHANGED <<env, late, now, queue, checked, store, worker>>

AcquireRetry(d) == CreateExclusive(d, "retry", "idle")

DecideNote(d) ==
  /\ Goto(d, "note", "publish")
  /\ checked' = dec[d].at
  /\ UNCHANGED <<env, late, now, lock, queue, store, worker>>

DecidePublish(d) ==
  /\ Goto(d, "publish", "spawn")
  /\ queue' = dec[d].targets
  /\ UNCHANGED <<env, late, now, lock, checked, store, worker>>

DecideSpawn(d) ==
  /\ dec[d].pc = "spawn"
  /\ \E p \in Pids :
       /\ worker[p].pc = "off"
       /\ \A q \in Pids : q < p => worker[q].pc # "off"
       /\ dec' = [dec EXCEPT ![d].pc = "setpid", ![d].pid = p]
       /\ worker' = [worker EXCEPT ![p] =
            [Off EXCEPT !.pc = "boot", !.forced = dec[d].force, !.born = dec[d].at,
                        !.asked = dec[d].targets]]
  /\ UNCHANGED <<env, late, now, files, store>>

\* "spawn-failed"
DecideSpawnFails(d) ==
  /\ Goto(d, "spawn", "release")
  /\ UNCHANGED <<env, late, now, files, store, worker>>

DecideRelease(d) ==
  /\ Goto(d, "release", "clear")
  /\ lock' = NoLock
  /\ UNCHANGED <<env, late, now, queue, checked, store, worker>>

DecideClear(d) ==
  /\ Return(d, "clear")
  /\ queue' = NoQueue
  /\ UNCHANGED <<env, late, now, lock, checked, store, worker>>

\* writeLock: a plain write, which creates the file when the worker that is
\* done already removed it.
DecideSetPid(d) ==
  /\ Return(d, "setpid")
  /\ lock' = Held(dec[d].pid, dec[d].at)
  /\ UNCHANGED <<env, late, now, queue, checked, store, worker>>

Decide(d) ==
  \/ DecideCool(d) \/ DecideHeld(d) \/ DecideNoProvider(d) \/ DecideSelect(d)
  \/ AcquireCreate(d) \/ AcquireWrite(d) \/ AcquireCheck(d) \/ AcquireRemove(d) \/ AcquireRetry(d)
  \/ DecideNote(d) \/ DecidePublish(d) \/ DecideSpawn(d) \/ DecideSpawnFails(d)
  \/ DecideRelease(d) \/ DecideClear(d) \/ DecideSetPid(d)

----------------------------------------------------------------------------
(* The worker: `__auto-summarize` and runAutoSummarize.                    *)

Becomes(p, w) == worker' = [worker EXCEPT ![p] = w]

\* What an ended process leaves to speak about.
Ended(w, pc) == [Off EXCEPT !.pc = pc, !.forced = w.forced, !.born = w.born]

\* No provider by now: the lock goes, the queue stays.
WorkerDrop(p) ==
  /\ worker[p].pc = "boot"
  /\ Becomes(p, Ended(worker[p], "dropped"))
  /\ lock' = NoLock
  /\ UNCHANGED <<env, late, now, queue, checked, store, dec>>

WorkerReadQueue(p) ==
  /\ worker[p].pc = "boot"
  /\ Becomes(p, [worker[p] EXCEPT !.pc = "load", !.wanted = queue])
  /\ UNCHANGED <<env, late, now, files, store, dec>>

\* The queued sessions, filtered again, or the default window's targets; their
\* records are those of this load.
WorkerLoad(p) ==
  /\ worker[p].pc = "load"
  /\ LET wanted == worker[p].wanted
         todo == IF wanted # {} THEN Candidates(Store \intersect wanted, Cardinality(wanted))
                                ELSE Targets(RecentRecords, Limit)
     IN Becomes(p, [worker[p] EXCEPT !.pc = "work", !.todo = todo, !.wanted = {},
                      !.seen = [s \in Sessions |-> IF s \in todo THEN ver[s] ELSE 0]])
  /\ UNCHANGED <<env, late, now, files, store, dec>>

CanTake(p) ==
  worker[p].pc = "work" /\ worker[p].todo # {} /\ Cardinality(worker[p].calls) < Concurrency

\* summarizeBatch: the next record, skipped when its summary is of this very
\* content, else a model call, which leaves an automated session behind.
WorkerTake(p) ==
  /\ CanTake(p)
  /\ \E s \in Newest(worker[p].todo, 1) :
       LET taken == [worker[p] EXCEPT !.todo = @ \ {s}]
       IN \/ /\ sum[s] = worker[p].seen[s]
             /\ Becomes(p, [taken EXCEPT !.tried = @ \union {s}])
             /\ ver' = ver
          \/ /\ sum[s] # worker[p].seen[s]
             /\ Becomes(p, [taken EXCEPT !.calls = @ \union {s}, !.since[s] = now])
             /\ \/ \E a \in Autos : ver[a] = 0 /\ ver' = [ver EXCEPT ![a] = 1]
                \/ (\A a \in Autos : ver[a] > 0) /\ ver' = ver
  /\ UNCHANGED <<env, late, now, files, sum, dec>>

Answered(w, s) ==
  [w EXCEPT !.tried = @ \union {s}, !.calls = @ \ {s}, !.since[s] = 0]

\* The summary carries the hash of the record the pass loaded.
WorkerSave(p) ==
  /\ worker[p].pc = "work"
  /\ \E s \in worker[p].calls :
       /\ sum' = [sum EXCEPT ![s] = worker[p].seen[s]]
       /\ Becomes(p, Answered(worker[p], s))
  /\ UNCHANGED <<env, late, now, files, ver, dec>>

\* The call fails or runs into its timeout: collected, the batch goes on.
WorkerFail(p) ==
  /\ worker[p].pc = "work"
  /\ \E s \in worker[p].calls : Becomes(p, Answered(worker[p], s))
  /\ UNCHANGED <<env, late, now, files, store, dec>>

WorkerDone(p) ==
  /\ worker[p].pc = "work" /\ worker[p].todo = {} /\ worker[p].calls = {}
  /\ Becomes(p, [worker[p] EXCEPT !.pc = "clear", !.seen = Off.seen])
  /\ UNCHANGED <<env, late, now, files, store, dec>>

\* The finally block: queue and lock go, whoever's they are by now.
WorkerClear(p) ==
  /\ worker[p].pc = "clear"
  /\ Becomes(p, [worker[p] EXCEPT !.pc = "release"])
  /\ queue' = NoQueue
  /\ UNCHANGED <<env, late, now, lock, checked, store, dec>>

WorkerRelease(p) ==
  /\ worker[p].pc = "release"
  /\ Becomes(p, Ended(worker[p], "dead"))
  /\ lock' = NoLock
  /\ UNCHANGED <<env, late, now, queue, checked, store, dec>>

Worker(p) ==
  \/ WorkerDrop(p) \/ WorkerReadQueue(p) \/ WorkerLoad(p) \/ WorkerTake(p) \/ WorkerSave(p)
  \/ WorkerFail(p) \/ WorkerDone(p) \/ WorkerClear(p) \/ WorkerRelease(p)

----------------------------------------------------------------------------
(* The machine and the user.                                               *)

\* A session goes on.
SessionMoves ==
  /\ \E s \in Store \intersect Humans : ver[s] < MaxVer /\ ver' = [ver EXCEPT ![s] = @ + 1]
  /\ UNCHANGED <<env, late, now, files, sum, dec, worker>>

\* A tick is minutes: everything but a model call takes no time on this scale,
\* and a model call ends by its timeout.  The rounds of a pass may add up to more
\* than LOCK_STALE_MS: 50 sessions, eight at a time and two minutes each, to 14
\* minutes.  Nothing makes its lock younger.
Tick ==
  /\ now < MaxTime
  /\ \A d \in Deciders : ~Busy(d)
  /\ \A p \in Pids : Alive(p) =>
       /\ worker[p].pc = "work" /\ worker[p].calls # {} /\ ~CanTake(p)
       /\ \A s \in worker[p].calls : now < worker[p].since[s] + CallTimeout
  /\ now' = now + 1
  /\ late' = (late \/ \E p \in Pids : Alive(p) /\ now + 1 - worker[p].born > LockStale)
  /\ UNCHANGED <<env, files, store, dec, worker>>

WorkerKill(p) ==
  /\ Alive(p)
  /\ Becomes(p, Ended(worker[p], "killed"))
  /\ UNCHANGED <<env, late, now, files, store, dec>>

DeciderKill(d) ==
  /\ env = "interrupted" /\ Busy(d)
  /\ dec' = [dec EXCEPT ![d] = Idle]
  /\ UNCHANGED <<env, late, now, files, store, worker>>

\* The bounds are used up: nothing runs and nobody starts.
Over ==
  /\ \A d \in Deciders : ~Busy(d)
  /\ \A p \in Pids : worker[p].pc # "off" /\ ~Alive(p)
  /\ UNCHANGED vars

Next ==
  \/ \E d \in Deciders : DecideStart(d) \/ Decide(d) \/ DeciderKill(d)
  \/ \E p \in Pids : Worker(p) \/ WorkerKill(p)
  \/ SessionMoves \/ Tick \/ Over

Spec == Init /\ [][Next]_vars

\* Processes that are ready run.  Nobody has to decide anything.
FairSpec ==
  /\ Spec
  /\ \A d \in Deciders : WF_vars(Decide(d))
  /\ \A p \in Pids : WF_vars(Worker(p))

----------------------------------------------------------------------------
(* Properties of every environment.                                        *)

\* gmux never summarizes its own summarizer: no worker has or had a session that
\* a model call made in hand, and no queue names one (autoSummarizeCandidates,
\* applied by the decider and again by the worker).
NoFeedback ==
  /\ queue \intersect Autos = {}
  /\ \A a \in Autos : sum[a] = 0 /\ \A p \in Pids : a \notin worker[p].todo \union worker[p].calls

\* A row is not marked as being summarized forever: whatever a worker dies of and
\* whoever's files a late worker removes, the marks go; only a decider killed
\* between lock and fork makes them wait for LOCK_STALE_MS (inProgressIds).
MarksEnd == env # "interrupted" /\ InProgress # {} ~> InProgress = {}

----------------------------------------------------------------------------
(* Properties of deciders that do not overlap each other.  Exclusion holds *)
(* as long as the lock is trusted, that is until a pass has outlived       *)
(* LOCK_STALE_MS: a second worker may then start beside the first.         *)

Excluding == env # "overlap" /\ ~late

\* In the middle of a pass, from the fork to the end of the last model call.
Working(p) == worker[p].pc \in {"boot", "load", "work"}

\* No stampede: the lock keeps one worker at a time, through the handover of the
\* lock from its parent, workers that are done before the handover, dead owners
\* and deciders that died halfway (acquireLock, writeLock, isLockStale).
OneWorkerAtATime ==
  Excluding => \A p, q \in Pids : Working(p) /\ Working(q) => p = q

\* What the list marked on behalf of a pass, the pass has really tried by the time
\* it cleans up: its queue reached it, whole (writeQueue, runAutoSummarize).
AnnouncedIsTried ==
  Excluding =>
    \A p \in Pids : worker[p].pc \in {"clear", "release"} => worker[p].asked \subseteq worker[p].tried

\* Passes nobody forced start at least a cooldown apart, whatever became of the
\* one before and however long it took (inCooldown, noteCheck).
CooldownSpaces ==
  env # "overlap" =>
    \A p, q \in Pids :
      /\ worker[p].pc # "off" /\ worker[q].pc # "off" /\ p < q
      /\ ~worker[q].forced
      => worker[q].born - worker[p].born >= Cooldown

\* Deciders that do not overlap start passes nobody forced a cooldown apart; and until
\* a pass outlives LOCK_STALE_MS, they run one worker at a time, each with its queue
\* whole, through every death of a worker and every decider that stops halfway
\* (acquireLock, writeLock).  Of deciders that overlap nothing is claimed, nor of
\* exclusion after an outlived lock.
PassesAreOrderly == OneWorkerAtATime /\ AnnouncedIsTried /\ CooldownSpaces

\* A summary is not replaced by one of an older content of its session, by deciders
\* that do not overlap and until a pass outlives LOCK_STALE_MS: the records a pass
\* loaded are not older than what any pass before it wrote (runAutoSummarize,
\* summarizeBatch).  Of two passes side by side the slower one may do so.
SummariesMoveForward ==
  [][Excluding => \A s \in Sessions : sum'[s] >= sum[s]]_vars

=============================================================================
