----------------------------- MODULE Semantic ------------------------------
(***************************************************************************)
(* The semantic worker: each tick of the daemon hands it one observation   *)
(* per pane; the gate lets a pane through when what it shows moved far     *)
(* enough since it was last queued; a bounded pool asks a model for labels *)
(* and writes them into the workspace model.                               *)
(*                                                                         *)
(* All of it is one thread: code between two awaits is one action, the     *)
(* loop of synchronous `enqueue` calls of a tick is not interrupted, and   *)
(* microtasks (a pump, a `finally`, a rejection) run before the callbacks  *)
(* of timers and child processes (a tick, an answer).  The                 *)
(* clock of a tick orders observations, so a job is named by its pane and  *)
(* its tick.  What a pane shows is a number, and the SimHash distance of   *)
(* two texts is their difference.  tmux gives no pane the id of one that   *)
(* is gone while its server lives.  The prompt, the parsing of the reply   *)
(* and the card are left out; Date.now() is taken to move forward.         *)
(***************************************************************************)
EXTENDS Integers, FiniteSets

CONSTANTS
  Panes,
  Hung,         \* panes whose provider.label() may never resolve
  Concurrency,  \* size of the pool
  Distance,     \* of the gate
  Debounce,     \* debounceMs, in ticks
  Looks,        \* each pane's observations: a text, and the priority of the
                \* entry (3 an active pane, 2 one that works, 1 another)
  MaxTime,      \* bound: ticks
  MaxWaiters    \* bound: callers of drain

ASSUME PanesAssumption == IsFiniteSet(Panes) /\ Hung \subseteq Panes

ASSUME BoundsAssumption ==
  /\ Concurrency \in Nat \ {0}
  /\ {Distance, Debounce, MaxTime, MaxWaiters} \subseteq Nat
  /\ Looks \in [Panes -> SUBSET (Nat \X (1 .. 3))]

VARIABLES
  now,            \* the clock of the last tick
  shown,          \* panes with an entry in the workspace model
  past,           \* panes that vanished
  semantics,      \* label of each entry: the tick and the text it was written from
  todo,           \* panes of this tick's observations still to be enqueued
  last,           \* the gate: what each pane showed when it was last queued
  pending,        \* jobs waiting for a slot, at most one per pane
  pumpScheduled,  \* a pump is in the microtask queue
  running,        \* slots taken
  calls,          \* jobs whose label() has not settled
  done,           \* jobs that settled, their `finally` still to run
  waiters,        \* callers of drain that wait
  seen,           \* history: what each pane showed at its last observation
  failed          \* history: the latest job of each pane that failed

vars == <<now, shown, past, semantics, todo, last, pending, pumpScheduled,
          running, calls, done, waiters, seen, failed>>

pool == <<pending, pumpScheduled, running, calls, done, waiters>>
model == <<shown, past, semantics>>

Texts == {0} \union {look[1] : look \in UNION {Looks[p] : p \in Panes}}
Times == 0 .. MaxTime

\* What was taken of a pane at a tick; tick 0 stands for nothing.
Reading == [at : Times, text : Texts]
Nothing == [at |-> 0, text |-> 0]

\* `since` is the place in the pending Map: the tick the pane entered it.
Job == [pane : Panes, at : Times, text : Texts, since : Times, priority : 1 .. 3]

----------------------------------------------------------------------------
(* SemanticGate.                                                           *)

Far(a, b) == a - b > Distance \/ b - a > Distance

ShouldSummarize(p, text) ==
  \/ last[p] = Nothing
  \/ now - last[p].at >= Debounce /\ Far(text, last[p].text)

NoteQueued(p, text) == last' = [last EXCEPT ![p] = [at |-> now, text |-> text]]

----------------------------------------------------------------------------
(* The pool.                                                               *)

Queued(p) == {j \in pending : j.pane = p}

\* nextJob: the higher priority, else the place in the Map.  The order of the
\* panes within one tick is tmux's and is left open.
Before(j, k) ==
  \/ j.priority > k.priority
  \/ j.priority = k.priority /\ j.since < k.since

Least(m, n) == IF m < n THEN m ELSE n

\* With one slot too many.
MutFill(n, jobs) ==
  \E start \in SUBSET jobs :
    /\ Cardinality(start) = Least(Concurrency - n + 1, Cardinality(jobs))
    /\ \A j \in start, k \in jobs \ start : ~Before(k, j)
    /\ pending' = jobs \ start
    /\ calls' = calls \union start
    /\ running' = n + Cardinality(start)

\* pump, with n slots taken: the best of the jobs that wait start until the
\* pool is full or none is left.
Fill(n, jobs) ==
  \E start \in SUBSET jobs :
    /\ Cardinality(start) = Least(Concurrency - n, Cardinality(jobs))
    /\ \A j \in start, k \in jobs \ start : ~Before(k, j)
    /\ pending' = jobs \ start
    /\ calls' = calls \union start
    /\ running' = n + Cardinality(start)

Init ==
  /\ now = 0
  /\ shown = {} /\ past = {}
  /\ semantics = [p \in Panes |-> Nothing]
  /\ todo = {}
  /\ last = [p \in Panes |-> Nothing]
  /\ pending = {} /\ calls = {} /\ done = {}
  /\ pumpScheduled = FALSE
  /\ running = 0 /\ waiters = 0
  /\ seen = [p \in Panes |-> Nothing]
  /\ failed = [p \in Panes |-> 0]

\* No synchronous code is under way and no microtask is left.
Drained == todo = {} /\ ~pumpScheduled /\ done = {}

\* The daemon's tick: panes that vanished lose their entry, the others get or
\* keep one, and those whose sensor did not throw are observed.
Tick ==
  /\ Drained /\ now < MaxTime
  /\ now' = now + 1
  /\ \E present \in SUBSET (Panes \ past) :
       /\ shown' = present
       /\ past' = past \union (shown \ present)
       /\ semantics' = [p \in Panes |-> IF p \in present THEN semantics[p] ELSE Nothing]
       /\ \E observed \in SUBSET present : todo' = observed
  /\ UNCHANGED <<last, pool, seen, failed>>

JobFor(p, text, priority) ==
  [pane |-> p, at |-> now, text |-> text, priority |-> priority,
   since |-> IF Queued(p) = {} THEN now ELSE (CHOOSE j \in Queued(p) : TRUE).since]

Observed(p, text) ==
  /\ p \in todo
  /\ todo' = todo \ {p}
  /\ seen' = [seen EXCEPT ![p] = [at |-> now, text |-> text]]
  /\ UNCHANGED <<now, model, failed>>

\* The gate notes what it turns away as well.
MutEnqueueNotes(p, text, priority) ==
  /\ Observed(p, text)
  /\ NoteQueued(p, text)
  /\ \/ ~ShouldSummarize(p, text) /\ UNCHANGED pool
     \/ /\ ShouldSummarize(p, text)
        /\ pending' = (pending \ Queued(p)) \union {JobFor(p, text, priority)}
        /\ pumpScheduled' = TRUE
        /\ UNCHANGED <<running, calls, done, waiters>>

\* The pump runs inside the call.
MutEnqueuePumps(p, text, priority) ==
  /\ Observed(p, text)
  /\ \/ ~ShouldSummarize(p, text) /\ UNCHANGED <<last, pool>>
     \/ /\ ShouldSummarize(p, text)
        /\ NoteQueued(p, text)
        /\ Fill(running, (pending \ Queued(p)) \union {JobFor(p, text, priority)})
        /\ UNCHANGED <<pumpScheduled, done, waiters>>

\* enqueue of one pane, with what the sensor saw and the entry's priority; the
\* newest observation takes the place of a job that waits.
Enqueue(p, text, priority) ==
  /\ Observed(p, text)
  /\ \/ ~ShouldSummarize(p, text) /\ UNCHANGED <<last, pool>>
     \/ /\ ShouldSummarize(p, text)
        /\ NoteQueued(p, text)
        /\ pending' = (pending \ Queued(p)) \union {JobFor(p, text, priority)}
        /\ pumpScheduled' = TRUE
        /\ UNCHANGED <<running, calls, done, waiters>>

\* The microtask of schedulePump.
Pump ==
  /\ todo = {} /\ pumpScheduled
  /\ pumpScheduled' = FALSE
  /\ Fill(running, pending)
  /\ UNCHANGED <<now, model, todo, last, done, waiters, seen, failed>>

Settled(j) ==
  /\ j \in calls
  /\ calls' = calls \ {j} /\ done' = done \union {j}
  /\ UNCHANGED <<now, shown, past, todo, last, pending, pumpScheduled, waiters, seen>>

\* Without the monotonicity guard of applySemantics.
MutAnswer(j) ==
  /\ Drained /\ Settled(j)
  /\ semantics' = IF j.pane \in shown
                  THEN [semantics EXCEPT ![j.pane] = [at |-> j.at, text |-> j.text]]
                  ELSE semantics
  /\ UNCHANGED <<running, failed>>

\* label() resolves, and applySemantics takes the label unless the entry is
\* gone or holds a newer one.
Answer(j) ==
  /\ Drained /\ Settled(j)
  /\ semantics' = IF j.pane \in shown /\ semantics[j.pane].at < j.at
                  THEN [semantics EXCEPT ![j.pane] = [at |-> j.at, text |-> j.text]]
                  ELSE semantics
  /\ UNCHANGED <<running, failed>>

\* label() rejects: an exit code, the timeout, no provider configured.
Fail(j) ==
  /\ todo = {} /\ Settled(j)
  /\ failed' = [failed EXCEPT ![j.pane] = IF @ < j.at THEN j.at ELSE @]
  /\ UNCHANGED <<running, semantics>>

\* The job that ends starts no other one.
MutFinallyIdle(j) ==
  /\ todo = {} /\ j \in done
  /\ done' = done \ {j}
  /\ running' = running - 1
  /\ waiters' = IF running' = 0 /\ pending = {} THEN 0 ELSE waiters
  /\ UNCHANGED <<now, model, todo, last, pending, pumpScheduled, calls, seen, failed>>

\* The `finally` of a run frees its slot, pumps, and wakes who drains.
Finally(j) ==
  /\ todo = {} /\ j \in done
  /\ done' = done \ {j}
  /\ Fill(running - 1, pending)
  /\ waiters' = IF running' = 0 /\ pending' = {} THEN 0 ELSE waiters
  /\ UNCHANGED <<now, model, todo, last, pumpScheduled, seen, failed>>

\* drain, of a caller that finds work; without any it returns at once.
Drain ==
  /\ todo = {} /\ waiters < MaxWaiters
  /\ running # 0 \/ pending # {}
  /\ waiters' = waiters + 1
  /\ UNCHANGED <<now, model, todo, last, pending, pumpScheduled, running, calls, done,
                 seen, failed>>

EnqueueSome == \E p \in Panes : \E look \in Looks[p] : Enqueue(p, look[1], look[2])
FinallySome == \E j \in done : Finally(j)
Settle(p) == \E j \in calls : j.pane = p /\ (Answer(j) \/ Fail(j))

\* The clock is at its bound and nothing is left to do.
Over ==
  /\ now = MaxTime /\ Drained
  /\ \A j \in calls : j.pane \in Hung
  /\ UNCHANGED vars

Next ==
  \/ Tick
  \/ EnqueueSome
  \/ Pump
  \/ FinallySome
  \/ \E p \in Panes : Settle(p)
  \/ Drain
  \/ Over

Spec == Init /\ [][Next]_vars

\* Synchronous code and microtasks run to their end, and the call of a pane that
\* does not hang settles.
FairSpec ==
  /\ Spec
  /\ WF_vars(EnqueueSome) /\ WF_vars(Pump) /\ WF_vars(FinallySome)
  /\ \A p \in Panes \ Hung : WF_vars(Settle(p))

----------------------------------------------------------------------------
(* Properties.                                                             *)

Asked(p) == {j \in pending \union calls : j.pane = p}

TypeOK ==
  /\ now \in Times
  /\ shown \subseteq Panes /\ past \subseteq Panes /\ todo \subseteq Panes
  /\ semantics \in [Panes -> Reading] /\ last \in [Panes -> Reading]
  /\ seen \in [Panes -> Reading]
  /\ pending \subseteq Job /\ calls \subseteq Job /\ done \subseteq Job
  /\ pumpScheduled \in BOOLEAN
  /\ running \in Nat /\ waiters \in 0 .. MaxWaiters
  /\ failed \in [Panes -> Times]

\* Every slot taken is that of a job whose label() or `finally` is to come, and
\* there are at most `concurrency` of them: whatever settles gives its slot
\* back once (pump, run).
SlotsAreAccounted ==
  /\ running = Cardinality(calls \union done)
  /\ running <= Concurrency /\ calls \intersect done = {}

\* No wakeup is lost: when jobs wait, the pool is full, or a pump is on its way
\* (schedulePump, pump).
NoLostPump == pending # {} => running = Concurrency \/ pumpScheduled

\* Who waits in drain waits for something: the last job to end woke everyone
\* that came before (drain, pump's `finally`).
DrainersHaveWork == waiters > 0 => running > 0 \/ pending # {}

\* The pool neither leaks nor idles: slots are given back once, and whoever waits, a job
\* or a caller of drain, waits for a call in a slot or a pump on its way (pump, run, drain).
PoolIsSound == SlotsAreAccounted /\ NoLostPump /\ DrainersHaveWork

\* The whole way from screen to label: unless a call is queued or running, or a
\* call newer than the label failed, the label of a pane describes something
\* near what the pane showed last, or is younger than the debounce.  Changes too
\* small to be queued do not add up unnoticed, and neither coalescing nor calls
\* that return in any order leave an older label (gate, enqueue,
\* applySemantics).
LabelTracksPane ==
  \A p \in shown :
    \/ seen[p] = Nothing
    \/ Asked(p) # {}
    \/ failed[p] > semantics[p].at
    \/ /\ semantics[p] # Nothing
       /\ \/ seen[p].at - semantics[p].at < Debounce
          \/ ~Far(seen[p].text, semantics[p].text)

\* A job starts only when every observation of its tick is queued or turned
\* away, and never before one that outranks it (schedulePump, nextJob).
BestFirst ==
  [][\A j \in calls' \ calls :
       todo' = {} /\ \A k \in pending' : ~Before(k, j)]_vars

\* Calls of panes that hang.
Hanging == {j \in calls : j.pane \in Hung}

\* They hold every slot: only the waiting jobs are keyed by pane, so one pane that
\* hangs again and again takes one slot after the other (pump).
Clogged == Cardinality(Hanging) = Concurrency

\* A pane that does not hang and whose label was asked for gets an answer, a failure,
\* or the answer to a later question, unless hung calls fill the pool for good.
OthersLand ==
  \A p \in Panes \ Hung : Asked(p) # {} ~> (Asked(p) = {} \/ []Clogged)

\* drain returns, unless a call hangs for good (drain, pump's `finally`).
DrainReturns == waiters > 0 ~> (waiters = 0 \/ [](Hanging # {}))

\* Nobody waits for ever, neither a pane for its label nor a caller of drain, as long as
\* hung calls leave the pool a slot, or for drain leave it empty.  semantic.ts promises
\* more, "One pane hanging never keeps another pane's label from landing" (9-11): that
\* holds of one hung call, not of one hung pane.  The daemon's own provider ends a call
\* after LABEL_TIMEOUT_MS; the worker does not (enqueue, pump, drain).
EverybodyIsServed == OthersLand /\ DrainReturns

\* The promise without gate, queue and pool.
Board == INSTANCE LabelBoard WITH
  label <- [p \in Panes |-> semantics[p].at],
  owed <- [p \in Panes |-> {j.at : j \in Asked(p)}]

KeepsThePromise == Board!Spec
=============================================================================
