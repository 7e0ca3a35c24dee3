--------------------------- MODULE Semantic_proof --------------------------
(***************************************************************************)
(* The semantic worker for every set of panes, size of the pool, gate and  *)
(* number of ticks, with panes that hang or without: slots are accounted   *)
(* for, no wakeup is lost, drainers wait for something, labels track their *)
(* panes, and the worker implements LabelBoard.                            *)
(*                                                                         *)
(* The invariant follows one pane.  Its newest question (`last`) is either *)
(* on its way, or failed, or what the label was written from; no job is    *)
(* newer than it, and a pane still to be enqueued was last asked about in  *)
(* an earlier tick.  So a new job is newer than everything of its pane,    *)
(* and jobs of one pane are told apart by their ticks.                     *)
(***************************************************************************)
EXTENDS Semantic, FiniteSetTheorems, TLAPS

Jobs == pending \union calls \union done

\* Jobs are finitely many and differ, and the pool is accounted for.
PoolInv ==
  /\ IsFiniteSet(pending) /\ IsFiniteSet(calls) /\ IsFiniteSet(done)
  /\ pending \intersect (calls \union done) = {}
  /\ \A j, k \in Jobs : j.pane = k.pane /\ j.at = k.at => j = k
  /\ SlotsAreAccounted /\ NoLostPump /\ DrainersHaveWork

\* A pane that has no entry has no label, and none comes back.
PanesInv ==
  /\ todo \subseteq shown /\ shown \intersect past = {}
  /\ \A p \in Panes : /\ p \notin shown => semantics[p] = Nothing
                      /\ last[p] # Nothing => p \in shown \union past

\* No job, label or failure is newer than the newest question of its pane.
QuestionInv ==
  \A p \in Panes :
    /\ last[p].at <= now /\ (p \in todo => last[p].at < now)
    /\ last[p].at = 0 => last[p] = Nothing
    /\ semantics[p].at <= last[p].at /\ failed[p] <= last[p].at
    /\ semantics[p].at = last[p].at => semantics[p] = last[p]
    /\ \A j \in Jobs : j.pane = p =>
         1 <= j.at /\ j.at <= last[p].at /\ (j.at = last[p].at => j.text = last[p].text)

\* The newest question is on its way, failed or answered.
NewestInv ==
  \A p \in shown :
    \/ last[p] = Nothing
    \/ \E j \in Asked(p) : j.at = last[p].at
    \/ failed[p] = last[p].at
    \/ semantics[p] = last[p]

\* What the gate turned away is near the newest question, or too soon after it.
GateInv ==
  \A p \in Panes :
    \/ seen[p] = Nothing
    \/ /\ last[p] # Nothing
       /\ \/ seen[p].at - last[p].at < Debounce
          \/ ~Far(seen[p].text, last[p].text)

Inv == TypeOK /\ PoolInv /\ PanesInv /\ QuestionInv /\ NewestInv /\ GateInv

----------------------------------------------------------------------------
(* Types.                                                                  *)

\* A job made of an observation is a job.
LEMMA JobType ==
  ASSUME TypeOK, NEW p \in Panes, NEW text \in Texts, NEW priority \in 1 .. 3
  PROVE  JobFor(p, text, priority) \in Job
<1>1. Queued(p) # {} => (CHOOSE j \in Queued(p) : TRUE) \in Queued(p)
  OBVIOUS
<1>2. Queued(p) # {} => (CHOOSE j \in Queued(p) : TRUE).since \in Times
  BY <1>1 DEF Queued, TypeOK, Job
<1>3. QED
  BY <1>2 DEF JobFor, TypeOK, Job

\* Every text a pane shows is a text.
LEMMA LookType ==
  ASSUME NEW p \in Panes, NEW look \in Looks[p]
  PROVE  look[1] \in Texts /\ look[2] \in 1 .. 3
BY BoundsAssumption DEF Texts

\* Texts are numbers, the empty one among them.
LEMMA TextsType == Texts \subseteq Nat /\ 0 \in Texts
BY BoundsAssumption DEF Texts

\* Nothing is a reading.
LEMMA NothingType == Nothing \in Reading
BY TextsType, BoundsAssumption DEF Nothing, Reading, Times

\* Times and bounds are numbers.
LEMMA BoundsType ==
  /\ Times \subseteq Nat
  /\ Debounce \in Nat /\ Distance \in Nat /\ MaxTime \in Nat
<1>1. Debounce \in Nat /\ Distance \in Nat /\ MaxTime \in Nat
  BY BoundsAssumption
<1>2. QED
  BY <1>1 DEF Times

\* The parts of a job.
LEMMA JobsType ==
  ASSUME TypeOK
  PROVE  \A j \in Jobs : j.at \in Nat /\ j.text \in Nat /\ j.pane \in Panes
<1>1. \A j \in Jobs : j.at \in Times /\ j.text \in Texts /\ j.pane \in Panes
  BY DEF TypeOK, Jobs, Job
<1>2. QED
  BY <1>1, TextsType, BoundsType

\* What Fill does: some of the jobs start, and either the pool is full or no
\* job is left.
LEMMA FillStep ==
  ASSUME NEW n \in 0 .. Concurrency, NEW jobs, IsFiniteSet(jobs), Fill(n, jobs)
  PROVE  \E start \in SUBSET jobs :
           /\ IsFiniteSet(start)
           /\ pending' = jobs \ start /\ calls' = calls \union start
           /\ running' = n + Cardinality(start) /\ Cardinality(start) \in Nat
           /\ running' <= Concurrency
           /\ pending' # {} => running' = Concurrency
<1>1. PICK start \in SUBSET jobs :
        /\ Cardinality(start) = Least(Concurrency - n, Cardinality(jobs))
        /\ pending' = jobs \ start /\ calls' = calls \union start
        /\ running' = n + Cardinality(start)
  BY DEF Fill
<1>2. /\ IsFiniteSet(start) /\ (Cardinality(jobs) = Cardinality(start) => jobs = start)
      /\ Cardinality(start) \in Nat /\ Cardinality(jobs) \in Nat
  BY FS_Subset, FS_CardinalityType
<1>3. running' <= Concurrency /\ (pending' # {} => running' = Concurrency)
  BY <1>1, <1>2, BoundsAssumption DEF Least
<1>4. QED
  BY <1>1, <1>2, <1>3

----------------------------------------------------------------------------
(* The tick and its observations.                                          *)

\* A tick keeps the invariant: no pane that has gone comes back.
LEMMA TickStep ==
  ASSUME Inv, Tick
  PROVE  Inv'
<1> USE DEF Inv, Drained
<1>1. PICK present \in SUBSET (Panes \ past) :
        /\ shown' = present /\ past' = past \union (shown \ present)
        /\ semantics' = [p \in Panes |-> IF p \in present THEN semantics[p] ELSE Nothing]
        /\ todo' \subseteq present
  BY DEF Tick
<1>2. /\ now' = now + 1 /\ now < MaxTime
      /\ last' = last /\ seen' = seen /\ failed' = failed
      /\ pending' = pending /\ calls' = calls /\ done' = done
      /\ running' = running /\ waiters' = waiters /\ pumpScheduled' = pumpScheduled
  BY DEF Tick, pool
<1>3. TypeOK'
  <2>1. now' \in Times
    BY <1>2, BoundsAssumption DEF TypeOK, Times
  <2>2. semantics' \in [Panes -> Reading]
    BY <1>1, NothingType DEF TypeOK
  <2>3. QED
    BY <1>1, <1>2, <2>1, <2>2 DEF TypeOK
<1>4. PoolInv'
  BY <1>2 DEF PoolInv, Jobs, SlotsAreAccounted, NoLostPump, DrainersHaveWork
<1>5. PanesInv'
  BY <1>1, <1>2 DEF PanesInv, TypeOK
<1>6. QuestionInv'
  <2> SUFFICES ASSUME NEW p \in Panes
               PROVE  /\ last[p].at <= now' /\ last[p].at < now'
                      /\ semantics'[p].at <= last[p].at
                      /\ semantics'[p].at = last[p].at => semantics'[p] = last[p]
    BY <1>2 DEF QuestionInv, Jobs
  <2>1. /\ last[p].at \in Nat /\ now \in Nat /\ last[p].at <= now
        /\ semantics[p].at <= last[p].at
        /\ semantics[p].at = last[p].at => semantics[p] = last[p]
        /\ last[p].at = 0 => last[p] = Nothing
    BY BoundsType DEF QuestionInv, TypeOK, Reading
  <2>2. semantics'[p] = semantics[p] \/ semantics'[p] = Nothing
    BY <1>1
  <2>3. QED
    BY <1>2, <2>1, <2>2 DEF Nothing
<1>7. NewestInv'
  <2> SUFFICES ASSUME NEW p \in present
               PROVE  \/ last[p] = Nothing
                      \/ \E j \in Asked(p) : j.at = last[p].at
                      \/ failed[p] = last[p].at
                      \/ semantics'[p] = last[p]
    BY <1>1, <1>2 DEF NewestInv, Asked
  <2>1. p \in Panes /\ semantics'[p] = semantics[p]
    BY <1>1 DEF TypeOK
  <2>2. last[p] # Nothing => p \in shown
    BY <2>1 DEF PanesInv
  <2>3. QED
    BY <2>1, <2>2 DEF NewestInv
<1>8. GateInv'
  BY <1>2 DEF GateInv, Far
<1>9. QED
  BY <1>3, <1>4, <1>5, <1>6, <1>7, <1>8

\* An observation keeps the invariant: a job it makes is newer than all of its pane.
LEMMA EnqueueStep ==
  ASSUME Inv, NEW p \in Panes, NEW text \in Texts, NEW priority \in 1 .. 3,
         Enqueue(p, text, priority)
  PROVE  Inv'
<1> USE DEF Inv
<1> DEFINE job == JobFor(p, text, priority)
           note == [at |-> now, text |-> text]
<1>1. /\ p \in todo /\ todo' = todo \ {p}
      /\ seen' = [seen EXCEPT ![p] = note]
      /\ now' = now /\ shown' = shown /\ past' = past /\ semantics' = semantics
      /\ failed' = failed /\ running' = running /\ calls' = calls /\ done' = done
      /\ waiters' = waiters
  BY DEF Enqueue, Observed, model, pool
<1>2. note \in Reading /\ now \in Nat /\ Debounce \in Nat /\ Distance \in Nat
  BY BoundsAssumption DEF Reading, TypeOK, Times
<1>3. /\ last[p] \in Reading /\ last[p].at \in Nat /\ last[p].at < now
      /\ last[p].text \in Nat /\ text \in Nat
  <2>1. last[p] \in Reading /\ last[p].at < now
    BY <1>1 DEF TypeOK, QuestionInv
  <2>2. last[p].at \in Times /\ last[p].text \in Texts
    BY <2>1 DEF Reading
  <2>3. QED
    BY <2>1, <2>2, TextsType, BoundsType
<1>4. CASE ~ShouldSummarize(p, text) /\ UNCHANGED <<last, pool>>
  <2>1. last' = last /\ pending' = pending /\ pumpScheduled' = pumpScheduled
    BY <1>4 DEF pool
  <2>2. TypeOK'
    BY <1>1, <1>2, <2>1 DEF TypeOK
  <2>3. PoolInv' /\ PanesInv' /\ QuestionInv' /\ NewestInv'
    BY <1>1, <2>1 DEF PoolInv, PanesInv, QuestionInv, NewestInv, Jobs, Asked,
                      SlotsAreAccounted, NoLostPump, DrainersHaveWork
  <2>4. GateInv'
    <3>1. last[p] # Nothing /\ (note.at - last[p].at < Debounce \/ ~Far(note.text, last[p].text))
      BY <1>2, <1>3, <1>4 DEF ShouldSummarize
    <3>2. QED
      BY <1>1, <2>1, <3>1 DEF GateInv, TypeOK, Far
  <2>5. QED
    BY <2>2, <2>3, <2>4
<1>5. CASE /\ NoteQueued(p, text) /\ pumpScheduled' = TRUE
           /\ pending' = (pending \ Queued(p)) \union {job}
  <2>1. /\ job \in Job /\ job.pane = p /\ job.at = now /\ job.text = text
    BY JobType DEF JobFor
  <2>2. last' = [last EXCEPT ![p] = note]
    BY <1>5 DEF NoteQueued
  <2>3. \A j \in Jobs : j.pane = p => j.at < now
    BY <1>2, <1>3, JobsType DEF QuestionInv
  <2>4. job \notin Jobs
    BY <2>1, <2>3, <1>2
  <2>5. Jobs' \subseteq Jobs \union {job}
    BY <1>1, <1>5 DEF Jobs
  <2>6. TypeOK'
    BY <1>1, <1>2, <1>5, <2>1, <2>2 DEF TypeOK
  <2>7. PoolInv'
    <3>1. IsFiniteSet(pending') /\ IsFiniteSet(calls') /\ IsFiniteSet(done')
      <4>1. IsFiniteSet(pending \ Queued(p))
        BY FS_Difference DEF PoolInv
      <4>2. QED
        BY <1>1, <1>5, <4>1, FS_AddElement DEF PoolInv
    <3>2. pending' \intersect (calls' \union done') = {}
      BY <1>1, <1>5, <2>4 DEF PoolInv, Jobs
    <3>3. \A j, k \in Jobs' : j.pane = k.pane /\ j.at = k.at => j = k
      BY <1>2, <2>1, <2>3, <2>5 DEF PoolInv
    <3>4. SlotsAreAccounted' /\ NoLostPump'
      BY <1>1, <1>5 DEF PoolInv, SlotsAreAccounted, NoLostPump
    <3>5. DrainersHaveWork'
      BY <1>1, <1>5 DEF PoolInv, DrainersHaveWork
    <3>6. QED
      BY <3>1, <3>2, <3>3, <3>4, <3>5 DEF PoolInv
  <2>8. PanesInv'
    BY <1>1, <2>2 DEF PanesInv, TypeOK
  <2>9. QuestionInv'
    <3> SUFFICES ASSUME NEW q \in Panes
                 PROVE  (/\ last[q].at <= now /\ (q \in todo => last[q].at < now)
                         /\ last[q].at = 0 => last[q] = Nothing
                         /\ semantics[q].at <= last[q].at /\ failed[q] <= last[q].at
                         /\ semantics[q].at = last[q].at => semantics[q] = last[q]
                         /\ \A j \in Jobs : j.pane = q =>
                              /\ 1 <= j.at /\ j.at <= last[q].at
                              /\ j.at = last[q].at => j.text = last[q].text)'
      BY DEF QuestionInv
    <3>1. CASE q # p
      <4>1. last'[q] = last[q]
        BY <2>2, <3>1 DEF TypeOK
      <4>2. \A j \in Jobs' : j.pane = q => j \in Jobs
        BY <2>1, <2>5, <3>1
      <4>3. QED
        BY <1>1, <4>1, <4>2 DEF QuestionInv
    <3>2. CASE q = p
      <4>1. last'[p] = note
        BY <2>2 DEF TypeOK
      <4>2. /\ semantics[p].at < now /\ failed[p] < now /\ now >= 1
            /\ semantics[p].at \in Nat /\ failed[p] \in Nat
        <5>1. /\ semantics[p].at <= last[p].at /\ failed[p] <= last[p].at
              /\ semantics[p].at \in Times /\ failed[p] \in Times
          BY DEF QuestionInv, TypeOK, Reading
        <5>2. semantics[p].at \in Nat /\ failed[p] \in Nat
          BY <5>1, BoundsType
        <5>3. QED
          BY <1>2, <1>3, <5>1, <5>2
      <4>3. \A j \in Jobs' : j.pane = p =>
              1 <= j.at /\ j.at <= now /\ (j.at = now => j.text = text)
        BY <1>2, <2>1, <2>3, <2>5, <4>2, JobsType DEF QuestionInv
      <4>4. QED
        BY <1>1, <1>2, <3>2, <4>1, <4>2, <4>3
    <3>3. QED
      BY <3>1, <3>2
  <2>10. NewestInv'
    <3> SUFFICES ASSUME NEW q \in shown
                 PROVE  (\/ last[q] = Nothing
                         \/ \E j \in Asked(q) : j.at = last[q].at
                         \/ failed[q] = last[q].at
                         \/ semantics[q] = last[q])'
      BY <1>1 DEF NewestInv
    <3>1. CASE q # p
      <4>1. last'[q] = last[q] /\ Asked(q)' = Asked(q)
        BY <1>1, <1>5, <2>1, <2>2, <3>1 DEF TypeOK, Asked, Queued
      <4>2. QED
        BY <1>1, <4>1 DEF NewestInv
    <3>2. CASE q = p
      <4>1. job \in Asked(p)' /\ last'[p].at = now
        BY <1>5, <2>1, <2>2 DEF TypeOK, Asked
      <4>2. QED
        BY <2>1, <3>2, <4>1
    <3>3. QED
      BY <3>1, <3>2
  <2>11. GateInv'
    <3>1. note # Nothing /\ ~Far(note.text, note.text)
      BY <1>2, <1>3 DEF Nothing, Far
    <3>2. QED
      BY <1>1, <2>2, <3>1 DEF GateInv, TypeOK, Far
  <2>12. QED
    BY <2>6, <2>7, <2>8, <2>9, <2>10, <2>11
<1>6. QED
  BY <1>4, <1>5 DEF Enqueue

----------------------------------------------------------------------------
(* The pool at work.                                                       *)

\* A pump keeps the invariant.
LEMMA PumpStep ==
  ASSUME Inv, Pump
  PROVE  Inv'
<1> USE DEF Inv
<1>1. /\ now' = now /\ shown' = shown /\ past' = past /\ semantics' = semantics
      /\ todo' = todo /\ last' = last /\ done' = done /\ waiters' = waiters
      /\ seen' = seen /\ failed' = failed /\ pumpScheduled' = FALSE
      /\ Fill(running, pending)
  BY DEF Pump, model
<1>2. running \in 0 .. Concurrency
  BY BoundsAssumption DEF PoolInv, SlotsAreAccounted, TypeOK
<1>3. PICK start \in SUBSET pending :
        /\ IsFiniteSet(start)
        /\ pending' = pending \ start /\ calls' = calls \union start
        /\ running' = running + Cardinality(start) /\ Cardinality(start) \in Nat
        /\ running' <= Concurrency
        /\ pending' # {} => running' = Concurrency
  BY <1>1, <1>2, FillStep DEF PoolInv
<1>4. (pending \union calls)' = pending \union calls /\ Jobs' = Jobs
  BY <1>1, <1>3 DEF Jobs
<1>5. TypeOK'
  <2>1. running' \in Nat
    BY <1>3 DEF TypeOK
  <2>2. pending' \subseteq Job /\ calls' \subseteq Job /\ pumpScheduled' \in BOOLEAN
    BY <1>1, <1>3 DEF TypeOK
  <2>3. QED
    BY <1>1, <2>1, <2>2 DEF TypeOK
<1>6. PoolInv'
  <2>1. IsFiniteSet(pending') /\ IsFiniteSet(calls') /\ IsFiniteSet(done')
    BY <1>1, <1>3, FS_Difference, FS_Union DEF PoolInv
  <2>2. pending' \intersect (calls' \union done') = {} /\ calls' \intersect done' = {}
    BY <1>1, <1>3 DEF PoolInv, SlotsAreAccounted
  <2>3. running' = Cardinality(calls' \union done')
    <3>1. /\ IsFiniteSet(calls \union done) /\ (calls \union done) \intersect start = {}
          /\ Cardinality(calls \union done) \in Nat
      BY FS_Union, FS_CardinalityType DEF PoolInv
    <3>2. Cardinality((calls \union done) \union start)
            = Cardinality(calls \union done) + Cardinality(start) - Cardinality({})
      BY <1>3, <3>1, FS_Union
    <3>3. Cardinality((calls \union done) \union start)
            = Cardinality(calls \union done) + Cardinality(start)
      BY <1>3, <3>1, <3>2, FS_EmptySet
    <3>4. calls' \union done' = (calls \union done) \union start
      BY <1>1, <1>3
    <3>5. QED
      BY <1>3, <3>3, <3>4 DEF PoolInv, SlotsAreAccounted
  <2>4. waiters' > 0 => running' > 0 \/ pending' # {}
    <3>1. waiters > 0 => running > 0 \/ pending # {}
      BY DEF PoolInv, DrainersHaveWork
    <3>2. CASE start = {}
      BY <1>1, <1>3, <3>1, <3>2, FS_EmptySet DEF TypeOK
    <3>3. CASE start # {}
      BY <1>3, <3>3, FS_EmptySet DEF TypeOK
    <3>4. QED
      BY <3>2, <3>3
  <2>5. \A j, k \in Jobs' : j.pane = k.pane /\ j.at = k.at => j = k
    BY <1>4 DEF PoolInv
  <2>6. QED
    BY <1>3, <2>1, <2>2, <2>3, <2>4, <2>5
       DEF PoolInv, SlotsAreAccounted, NoLostPump, DrainersHaveWork
<1>7. PanesInv' /\ QuestionInv' /\ NewestInv' /\ GateInv'
  BY <1>1, <1>4 DEF PanesInv, QuestionInv, NewestInv, GateInv, Asked, Far
<1>8. QED
  BY <1>5, <1>6, <1>7

\* What a call that settles does to the pool.
LEMMA SettledStep ==
  ASSUME Inv, NEW j, Settled(j), running' = running
  PROVE  PoolInv' /\ Jobs' = Jobs
<1> USE DEF Inv
<1>1. /\ j \in calls /\ calls' = calls \ {j} /\ done' = done \union {j}
      /\ pending' = pending /\ pumpScheduled' = pumpScheduled /\ waiters' = waiters
  BY DEF Settled
<1>2. Jobs' = Jobs /\ calls' \union done' = calls \union done
  BY <1>1 DEF Jobs
<1>3. IsFiniteSet(pending') /\ IsFiniteSet(calls') /\ IsFiniteSet(done')
  BY <1>1, FS_RemoveElement, FS_AddElement DEF PoolInv
<1>4. calls' \intersect done' = {} /\ pending' \intersect (calls' \union done') = {}
  BY <1>1, <1>2 DEF PoolInv, SlotsAreAccounted
<1>5. QED
  BY <1>1, <1>2, <1>3, <1>4 DEF PoolInv, SlotsAreAccounted, NoLostPump, DrainersHaveWork

\* An answer keeps the invariant: the label stays the newest one.
LEMMA AnswerStep ==
  ASSUME Inv, NEW j, Answer(j)
  PROVE  Inv'
<1> USE DEF Inv
<1>1. /\ j \in calls /\ calls' = calls \ {j} /\ done' = done \union {j}
      /\ now' = now /\ shown' = shown /\ past' = past /\ todo' = todo /\ last' = last
      /\ pending' = pending /\ pumpScheduled' = pumpScheduled /\ waiters' = waiters
      /\ seen' = seen /\ running' = running /\ failed' = failed
      /\ Settled(j)
  BY DEF Answer, Settled
<1> DEFINE p == j.pane
           note == [at |-> j.at, text |-> j.text]
<1>2. semantics' = IF p \in shown /\ semantics[p].at < j.at
                   THEN [semantics EXCEPT ![p] = note] ELSE semantics
  BY DEF Answer
<1>3. PoolInv' /\ Jobs' = Jobs
  BY <1>1, SettledStep
<1>4. /\ p \in Panes /\ note \in Reading /\ j \in Jobs
      /\ note.at \in Nat
  BY <1>1, JobsType DEF Jobs, TypeOK, Job, Reading
<1>5. TypeOK'
  BY <1>1, <1>2, <1>4 DEF TypeOK
<1>6. PanesInv'
  BY <1>1, <1>2, <1>4 DEF PanesInv, TypeOK
<1>7. QuestionInv'
  <2> SUFFICES ASSUME NEW q \in Panes
               PROVE  /\ semantics'[q].at <= last[q].at
                      /\ semantics'[q].at = last[q].at => semantics'[q] = last[q]
    BY <1>1, <1>3 DEF QuestionInv
  <2>1. semantics'[q] = semantics[q] \/ (q = p /\ semantics'[q] = note)
    BY <1>2 DEF TypeOK
  <2>2. CASE semantics'[q] = semantics[q]
    BY <2>2 DEF QuestionInv
  <2>3. CASE q = p /\ semantics'[q] = note
    <3>1. j.at <= last[p].at /\ (j.at = last[p].at => j.text = last[p].text)
      BY <1>4 DEF QuestionInv
    <3>2. last[p] = [at |-> last[p].at, text |-> last[p].text]
      BY <1>4 DEF TypeOK, Reading
    <3>3. QED
      BY <2>3, <3>1, <3>2
  <2>4. QED
    BY <2>1, <2>2, <2>3
<1>8. NewestInv'
  <2> SUFFICES ASSUME NEW q \in shown
               PROVE  \/ last[q] = Nothing
                      \/ \E k \in Asked(q)' : k.at = last[q].at
                      \/ failed[q] = last[q].at
                      \/ semantics'[q] = last[q]
    BY <1>1 DEF NewestInv
  <2>1. CASE \E k \in Asked(q) : k.at = last[q].at /\ k # j
    BY <1>1, <2>1 DEF Asked
  <2>2. CASE q = p /\ j.at = last[q].at
    <3>1. /\ semantics[p].at \in Nat /\ semantics[p].at <= j.at
          /\ semantics[p].at = j.at => semantics[p] = last[p]
      BY <1>4, <2>2, BoundsType DEF QuestionInv, TypeOK, Reading
    <3>2. j.text = last[p].text /\ last[p] = [at |-> last[p].at, text |-> last[p].text]
      BY <1>4, <2>2 DEF QuestionInv, TypeOK, Reading
    <3>3. CASE semantics[p].at < j.at
      BY <1>2, <1>4, <2>2, <3>2, <3>3 DEF TypeOK
    <3>4. CASE semantics[p].at = j.at
      BY <1>2, <1>4, <2>2, <3>1, <3>4
    <3>5. QED
      BY <1>4, <3>1, <3>3, <3>4
  <2>3. CASE semantics[q] = last[q]
    <3>1. CASE semantics'[q] = semantics[q]
      BY <2>3, <3>1
    <3>2. CASE q = p /\ semantics[p].at < j.at
      <4>1. j.at <= last[p].at /\ semantics[p].at = last[p].at /\ last[p].at \in Nat
        BY <1>4, <2>3, <3>2, BoundsType DEF QuestionInv, TypeOK, Reading
      <4>2. QED
        BY <1>4, <3>2, <4>1
    <3>3. QED
      BY <1>2, <3>1, <3>2 DEF TypeOK
  <2>4. QED
    BY <2>1, <2>2, <2>3 DEF NewestInv, Asked
<1>9. GateInv'
  BY <1>1 DEF GateInv, Far
<1>10. QED
  BY <1>3, <1>5, <1>6, <1>7, <1>8, <1>9

\* A failure keeps the invariant.
LEMMA FailStep ==
  ASSUME Inv, NEW j, Fail(j)
  PROVE  Inv'
<1> USE DEF Inv
<1>1. /\ j \in calls /\ calls' = calls \ {j} /\ done' = done \union {j}
      /\ now' = now /\ shown' = shown /\ past' = past /\ todo' = todo /\ last' = last
      /\ pending' = pending /\ pumpScheduled' = pumpScheduled /\ waiters' = waiters
      /\ seen' = seen /\ running' = running /\ semantics' = semantics
      /\ failed' = [failed EXCEPT ![j.pane] = IF @ < j.at THEN j.at ELSE @]
      /\ Settled(j)
  BY DEF Fail, Settled
<1> DEFINE p == j.pane
<1>2. PoolInv' /\ Jobs' = Jobs
  BY <1>1, SettledStep
<1>3. p \in Panes /\ j \in Jobs /\ j.at \in Times /\ j.at \in Nat
  BY <1>1, JobsType DEF Jobs, TypeOK, Job
<1>4. TypeOK'
  BY <1>1, <1>3 DEF TypeOK
<1>5. PanesInv' /\ GateInv'
  BY <1>1 DEF PanesInv, GateInv, Far
<1>6. QuestionInv'
  <2> SUFFICES ASSUME NEW q \in Panes
               PROVE  failed'[q] <= last[q].at
    BY <1>1, <1>2 DEF QuestionInv
  <2>1. failed'[q] = failed[q] \/ (q = p /\ failed'[q] = j.at)
    BY <1>1 DEF TypeOK
  <2>2. QED
    BY <1>3, <2>1 DEF QuestionInv
<1>7. NewestInv'
  <2> SUFFICES ASSUME NEW q \in shown
               PROVE  \/ last[q] = Nothing
                      \/ \E k \in Asked(q)' : k.at = last[q].at
                      \/ failed'[q] = last[q].at
                      \/ semantics[q] = last[q]
    BY <1>1 DEF NewestInv
  <2>1. CASE \E k \in Asked(q) : k.at = last[q].at /\ k # j
    BY <1>1, <2>1 DEF Asked
  <2>2. CASE q = p /\ j.at = last[q].at
    <3>1. failed[p] <= j.at /\ failed[p] \in Nat
      BY <1>3, <2>2, BoundsType DEF QuestionInv, TypeOK
    <3>2. QED
      BY <1>1, <1>3, <2>2, <3>1 DEF TypeOK
  <2>3. CASE failed[q] = last[q].at
    <3>1. q = p => j.at <= failed[p]
      BY <1>3, <2>3 DEF QuestionInv
    <3>2. failed[p] \in Nat
      BY <1>3, BoundsType DEF TypeOK
    <3>3. QED
      BY <1>1, <1>3, <2>3, <3>1, <3>2 DEF TypeOK
  <2>4. QED
    BY <2>1, <2>2, <2>3 DEF NewestInv, Asked
<1>8. QED
  BY <1>2, <1>4, <1>5, <1>6, <1>7

\* The end of a job keeps the invariant: its slot is refilled or nothing waits.
LEMMA FinallyStep ==
  ASSUME Inv, NEW j, Finally(j)
  PROVE  Inv'
<1> USE DEF Inv
<1>1. /\ j \in done /\ done' = done \ {j}
      /\ now' = now /\ shown' = shown /\ past' = past /\ semantics' = semantics
      /\ todo' = todo /\ last' = last /\ seen' = seen /\ failed' = failed
      /\ pumpScheduled' = pumpScheduled
      /\ waiters' = IF running' = 0 /\ pending' = {} THEN 0 ELSE waiters
      /\ Fill(running - 1, pending)
  BY DEF Finally, model
<1> DEFINE rest == (calls \union done) \ {j}
<1>2. /\ IsFiniteSet(rest) /\ Cardinality(rest) \in Nat
      /\ Cardinality(rest) = running - 1
  <2>1. IsFiniteSet(calls \union done) /\ j \in calls \union done
    BY <1>1, FS_Union DEF PoolInv
  <2>2. IsFiniteSet(rest) /\ Cardinality(rest) = Cardinality(calls \union done) - 1
    BY <2>1, FS_RemoveElement
  <2>3. QED
    BY <2>2, FS_CardinalityType DEF PoolInv, SlotsAreAccounted
<1>3. running - 1 \in 0 .. Concurrency
  BY <1>2, BoundsAssumption DEF PoolInv, SlotsAreAccounted, TypeOK
<1>4. PICK start \in SUBSET pending :
        /\ IsFiniteSet(start)
        /\ pending' = pending \ start /\ calls' = calls \union start
        /\ running' = (running - 1) + Cardinality(start) /\ Cardinality(start) \in Nat
        /\ running' <= Concurrency
        /\ pending' # {} => running' = Concurrency
  BY <1>1, <1>3, FillStep DEF PoolInv
<1>5. (pending \union calls)' = pending \union calls /\ Jobs' \subseteq Jobs
  BY <1>1, <1>4 DEF Jobs
<1>6. TypeOK'
  <2>1. running' \in Nat
    BY <1>3, <1>4
  <2>2. waiters' \in 0 .. MaxWaiters
    BY <1>1, BoundsAssumption DEF TypeOK
  <2>3. pending' \subseteq Job /\ calls' \subseteq Job /\ done' \subseteq Job
    BY <1>1, <1>4 DEF TypeOK
  <2>4. QED
    BY <1>1, <2>1, <2>2, <2>3 DEF TypeOK
<1>7. PoolInv'
  <2>1. IsFiniteSet(pending') /\ IsFiniteSet(calls') /\ IsFiniteSet(done')
    BY <1>1, <1>4, FS_Difference, FS_Union, FS_RemoveElement DEF PoolInv
  <2>2. pending' \intersect (calls' \union done') = {} /\ calls' \intersect done' = {}
    BY <1>1, <1>4 DEF PoolInv, SlotsAreAccounted
  <2>3. running' = Cardinality(calls' \union done')
    <3>1. rest \intersect start = {} /\ calls' \union done' = rest \union start
      BY <1>1, <1>4 DEF PoolInv, SlotsAreAccounted
    <3>2. Cardinality(rest \union start)
            = Cardinality(rest) + Cardinality(start) - Cardinality(rest \intersect start)
      BY <1>2, <1>4, FS_Union
    <3>3. Cardinality(rest \intersect start) = 0
      BY <3>1, FS_EmptySet
    <3>4. Cardinality(rest \union start) = (running - 1) + Cardinality(start)
      <4> HIDE DEF rest
      <4>1. QED
        BY <1>2, <1>4, <3>2, <3>3
    <3>5. QED
      BY <1>4, <3>1, <3>4
  <2>4. DrainersHaveWork'
    <3>1. running' \in Nat
      BY <1>6 DEF TypeOK
    <3>2. QED
      BY <1>1, <3>1 DEF DrainersHaveWork
  <2>5. \A i, k \in Jobs' : i.pane = k.pane /\ i.at = k.at => i = k
    BY <1>5 DEF PoolInv
  <2>6. NoLostPump' /\ SlotsAreAccounted'
    BY <1>4, <2>2, <2>3 DEF NoLostPump, SlotsAreAccounted
  <2>7. QED
    BY <2>1, <2>2, <2>4, <2>5, <2>6 DEF PoolInv
<1>8. PanesInv' /\ NewestInv' /\ GateInv'
  BY <1>1, <1>5 DEF PanesInv, NewestInv, GateInv, Asked, Far
<1>9. QuestionInv'
  BY <1>1, <1>5 DEF QuestionInv
<1>10. QED
  BY <1>6, <1>7, <1>8, <1>9

\* A drainer keeps the invariant.
LEMMA DrainStep ==
  ASSUME Inv, Drain
  PROVE  Inv'
<1> USE DEF Inv
<1>1. /\ waiters < MaxWaiters /\ waiters' = waiters + 1 /\ (running # 0 \/ pending # {})
      /\ UNCHANGED <<now, shown, past, semantics, todo, last, pending, pumpScheduled,
                     running, calls, done, seen, failed>>
  BY DEF Drain, model
<1>2. TypeOK'
  <2>1. waiters' \in 0 .. MaxWaiters
    BY <1>1, BoundsAssumption DEF TypeOK
  <2>2. QED
    BY <1>1, <2>1 DEF TypeOK
<1>3. PoolInv'
  <2>1. DrainersHaveWork'
    BY <1>1 DEF DrainersHaveWork, TypeOK
  <2>2. QED
    BY <1>1, <2>1 DEF PoolInv, SlotsAreAccounted, NoLostPump, Jobs
<1>4. PanesInv' /\ QuestionInv' /\ NewestInv' /\ GateInv'
  BY <1>1 DEF PanesInv, QuestionInv, NewestInv, GateInv, Asked, Far, Jobs
<1>5. QED
  BY <1>2, <1>3, <1>4

\* Every step keeps the invariant.
LEMMA InvStep == Inv /\ [Next]_vars => Inv'
<1> SUFFICES ASSUME Inv, [Next]_vars PROVE Inv'
  OBVIOUS
<1>1. CASE EnqueueSome
  BY <1>1, LookType, EnqueueStep DEF EnqueueSome
<1>2. CASE FinallySome
  BY <1>2, FinallyStep DEF FinallySome
<1>3. CASE \E p \in Panes : Settle(p)
  BY <1>3, AnswerStep, FailStep DEF Settle
<1>4. CASE UNCHANGED vars
  BY <1>4 DEF vars, pool, Inv, TypeOK, PoolInv, PanesInv, QuestionInv, NewestInv, GateInv,
              Asked, Far, Jobs, SlotsAreAccounted, NoLostPump, DrainersHaveWork
<1>5. QED
  BY <1>1, <1>2, <1>3, <1>4, TickStep, PumpStep, DrainStep DEF Next, Over

\* The invariant holds before the first tick.
LEMMA InitInv == Init => Inv
<1> SUFFICES ASSUME Init PROVE Inv
  OBVIOUS
<1> USE DEF Init
<1>1. 0 \in Times /\ 0 \in 0 .. MaxWaiters
  BY BoundsAssumption DEF Times
<1>2. TypeOK
  BY <1>1, NothingType DEF TypeOK
<1>3. PoolInv
  BY FS_EmptySet, BoundsAssumption
     DEF PoolInv, Jobs, SlotsAreAccounted, NoLostPump, DrainersHaveWork
<1>4. PanesInv /\ QuestionInv /\ NewestInv /\ GateInv
  BY DEF PanesInv, QuestionInv, NewestInv, GateInv, Jobs, Nothing
<1>5. QED
  BY <1>2, <1>3, <1>4 DEF Inv

\* The inductive invariant holds of every behaviour of the worker.
THEOREM Invariance == Spec => []Inv
BY InitInv, InvStep, PTL DEF Spec

----------------------------------------------------------------------------
(* What follows.                                                           *)

\* The worker's state is well typed for every set of panes and every bound.
THEOREM TypeCorrect == Spec => []TypeOK
<1>1. Inv => TypeOK
  BY DEF Inv
<1>2. QED
  BY <1>1, Invariance, PTL

\* Whatever settles gives its slot back exactly once, and never more than
\* `concurrency` slots are taken (pump, run).
THEOREM SlotsAccounted == Spec => []SlotsAreAccounted
<1>1. Inv => SlotsAreAccounted
  BY DEF Inv, PoolInv
<1>2. QED
  BY <1>1, Invariance, PTL

\* A job that waits while a slot is free has a pump on its way to it
\* (schedulePump, pump).
THEOREM NoPumpIsLost == Spec => []NoLostPump
<1>1. Inv => NoLostPump
  BY DEF Inv, PoolInv
<1>2. QED
  BY <1>1, Invariance, PTL

\* Nobody waits in drain for a pool that is empty (drain, pump's `finally`).
THEOREM DrainersWaitForWork == Spec => []DrainersHaveWork
<1>1. Inv => DrainersHaveWork
  BY DEF Inv, PoolInv
<1>2. QED
  BY <1>1, Invariance, PTL

\* The three together, for every size of the pool: it neither leaks slots nor idles
\* (pump, run, drain).
THEOREM PoolStaysSound == Spec => []PoolIsSound
  BY SlotsAccounted, NoPumpIsLost, DrainersWaitForWork, PTL DEF PoolIsSound

\* The label of a pane describes something near what the pane showed last, or is
\* younger than the debounce, unless a call is on its way or a newer one failed
\* (gate, enqueue, applySemantics).
THEOREM LabelsTrackPanes == Spec => []LabelTracksPane
<1>1. Inv => LabelTracksPane
  <2> SUFFICES ASSUME Inv, NEW p \in shown, seen[p] # Nothing, Asked(p) = {},
                      ~(failed[p] > semantics[p].at)
               PROVE  /\ semantics[p] # Nothing
                      /\ \/ seen[p].at - semantics[p].at < Debounce
                         \/ ~Far(seen[p].text, semantics[p].text)
    BY DEF LabelTracksPane
  <2>1. p \in Panes
    BY DEF Inv, TypeOK
  <2>2. last[p] # Nothing /\ (last[p] = semantics[p] \/ failed[p] = last[p].at)
    BY <2>1 DEF Inv, GateInv, NewestInv
  <2>3. last[p] = semantics[p]
    <3>1. /\ semantics[p].at \in Nat /\ last[p].at \in Nat /\ semantics[p].at <= last[p].at
          /\ semantics[p].at = last[p].at => semantics[p] = last[p]
      BY <2>1, BoundsType DEF Inv, TypeOK, QuestionInv, Reading
    <3>2. QED
      BY <2>2, <3>1
  <2>4. QED
    BY <2>1, <2>2, <2>3 DEF Inv, GateInv
<1>2. QED
  BY <1>1, Invariance, PTL

----------------------------------------------------------------------------
(* The worker implements LabelBoard.                                       *)

boardLabel == [p \in Panes |-> semantics[p].at]
boardOwed == [p \in Panes |-> {j.at : j \in Asked(p)}]

\* Steps that change neither labels nor questions are none of the board's.
LEMMA QuietStep ==
  ASSUME shown' = shown, semantics' = semantics,
         (pending \union calls)' = pending \union calls
  PROVE  UNCHANGED Board!vars
<1>1. boardOwed' = boardOwed /\ boardLabel' = boardLabel
  BY DEF boardOwed, boardLabel, Asked
<1>2. QED
  BY <1>1 DEF Board!vars, boardOwed, boardLabel

\* A tick is a scan of the board.
LEMMA TickScans ==
  ASSUME Inv, Tick
  PROVE  Board!Scan
<1>1. PICK present \in SUBSET (Panes \ past) :
        /\ shown' = present
        /\ semantics' = [p \in Panes |-> IF p \in present THEN semantics[p] ELSE Nothing]
  BY DEF Tick
<1>2. boardOwed' = boardOwed
  BY DEF Tick, pool, boardOwed, Asked
<1>3. boardLabel' = [p \in Panes |-> IF p \in shown /\ p \in present THEN boardLabel[p] ELSE 0]
  <2> SUFFICES ASSUME NEW p \in Panes
               PROVE  semantics'[p].at
                        = IF p \in shown /\ p \in present THEN semantics[p].at ELSE 0
    BY DEF boardLabel
  <2>1. semantics'[p] = IF p \in present THEN semantics[p] ELSE Nothing
    BY <1>1
  <2>2. p \notin shown => semantics[p] = Nothing
    BY DEF Inv, PanesInv
  <2>3. QED
    BY <2>1, <2>2 DEF Nothing
<1>4. present \in SUBSET Panes
  OBVIOUS
<1>5. QED
  BY <1>1, <1>2, <1>3, <1>4 DEF Board!Scan, boardLabel, boardOwed

\* A job that is queued asks; the job it replaces makes way.
LEMMA EnqueueAsks ==
  ASSUME Inv, NEW p \in Panes, NEW text \in Texts, NEW priority \in 1 .. 3,
         Enqueue(p, text, priority)
  PROVE  Board!Ask(p) \/ UNCHANGED Board!vars
<1> DEFINE job == JobFor(p, text, priority)
<1>1. /\ p \in todo /\ now' = now /\ shown' = shown /\ semantics' = semantics /\ calls' = calls
  BY DEF Enqueue, Observed, model, pool
<1>2. CASE UNCHANGED <<last, pool>>
  BY <1>1, <1>2, QuietStep DEF pool
<1>3. CASE pending' = (pending \ Queued(p)) \union {job}
  <2>1. job.pane = p /\ job.at = now /\ now \in Times /\ now \in Nat
    BY BoundsType DEF JobFor, Inv, TypeOK
  <2> DEFINE kept == {j.at : j \in {k \in calls : k.pane = p}}
  <2>2. kept \in SUBSET boardOwed[p]
    BY DEF boardOwed, Asked
  <2>3. \A s \in boardOwed[p] \union {boardLabel[p]} : s < now
    <3>1. last[p].at < now /\ semantics[p].at <= last[p].at
      BY <1>1 DEF Inv, QuestionInv
    <3>2. last[p].at \in Nat /\ semantics[p].at \in Nat
      BY BoundsType DEF Inv, TypeOK, Reading
    <3>3. \A j \in Asked(p) : j.at <= last[p].at /\ j.at \in Nat
      BY JobsType DEF Inv, QuestionInv, Jobs, Asked
    <3>4. QED
      BY <2>1, <3>1, <3>2, <3>3 DEF boardOwed, boardLabel
  <2>4. boardOwed' = [boardOwed EXCEPT ![p] = kept \union {now}]
    <3> SUFFICES ASSUME NEW q \in Panes
                 PROVE  {j.at : j \in Asked(q)'} =
                          IF q = p THEN kept \union {now} ELSE {j.at : j \in Asked(q)}
      BY DEF boardOwed
    <3>1. CASE q # p
      <4>1. Asked(q)' = Asked(q)
        BY <1>1, <1>3, <2>1, <3>1 DEF Asked, Queued
      <4>2. QED
        BY <3>1, <4>1
    <3>2. CASE q = p
      <4>1. Asked(p)' = {k \in calls : k.pane = p} \union {job}
        BY <1>1, <1>3, <2>1 DEF Asked, Queued
      <4> HIDE DEF job
      <4>2. {j.at : j \in Asked(p)'} = kept \union {now}
        BY <2>1, <4>1
      <4>3. QED
        BY <3>2, <4>2
    <3>3. QED
      BY <3>1, <3>2
  <2>5. boardLabel' = boardLabel
    BY <1>1 DEF boardLabel
  <2> HIDE DEF kept
  <2>6. QED
    BY <1>1, <2>1, <2>2, <2>3, <2>4, <2>5 DEF Board!Ask, boardOwed, boardLabel
<1>4. QED
  BY <1>2, <1>3 DEF Enqueue

\* What is owed when a call of a pane settles.
LEMMA SettledOwes ==
  ASSUME Inv, NEW j, Settled(j)
  PROVE  /\ j.pane \in Panes /\ j.at \in boardOwed[j.pane]
         /\ boardOwed' = [boardOwed EXCEPT ![j.pane] = @ \ {j.at}]
<1>1. j \in calls /\ calls' = calls \ {j} /\ pending' = pending
  BY DEF Settled
<1>2. j.pane \in Panes /\ j \in Asked(j.pane)
  BY <1>1 DEF Inv, TypeOK, Job, Asked
<1>3. \A q \in Panes : Asked(q)' = Asked(q) \ {j}
  BY <1>1 DEF Asked, Inv, PoolInv
<1>4. \A k \in Asked(j.pane) : k.at = j.at => k = j
  BY <1>1 DEF Asked, Inv, PoolInv, Jobs
<1>5. \A q \in Panes : q # j.pane => Asked(q)' = Asked(q)
  BY <1>3 DEF Asked
<1>6. {k.at : k \in Asked(j.pane)'} = {k.at : k \in Asked(j.pane)} \ {j.at}
  BY <1>2, <1>3, <1>4
<1>7. QED
  BY <1>2, <1>5, <1>6 DEF boardOwed

\* An answer lands, and a newer label stays.
LEMMA AnswerLands ==
  ASSUME Inv, NEW j, Answer(j)
  PROVE  j.pane \in Panes /\ Board!Land(j.pane)
<1> DEFINE p == j.pane
           note == [at |-> j.at, text |-> j.text]
<1>1. /\ p \in Panes /\ j.at \in boardOwed[p]
      /\ boardOwed' = [boardOwed EXCEPT ![p] = @ \ {j.at}]
  BY SettledOwes DEF Answer
<1>2. /\ shown' = shown
      /\ semantics' = IF p \in shown /\ semantics[p].at < j.at
                      THEN [semantics EXCEPT ![p] = note] ELSE semantics
  BY DEF Answer, Settled
<1>3. boardLabel' = IF p \in shown /\ boardLabel[p] < j.at
                    THEN [boardLabel EXCEPT ![p] = j.at] ELSE boardLabel
  BY <1>1, <1>2 DEF boardLabel, Inv, TypeOK
<1>4. QED
  BY <1>1, <1>2, <1>3 DEF Board!Land, boardLabel, boardOwed

\* A failure gives up.
LEMMA FailGivesUp ==
  ASSUME Inv, NEW j, Fail(j)
  PROVE  j.pane \in Panes /\ Board!GiveUp(j.pane)
<1>1. /\ j.pane \in Panes /\ j.at \in boardOwed[j.pane]
      /\ boardOwed' = [boardOwed EXCEPT ![j.pane] = @ \ {j.at}]
  BY SettledOwes DEF Fail
<1>2. shown' = shown /\ boardLabel' = boardLabel
  BY DEF Fail, Settled, boardLabel
<1>3. QED
  BY <1>1, <1>2 DEF Board!GiveUp, boardLabel, boardOwed

\* Starting jobs changes nothing on the board.
LEMMA FillIsQuiet ==
  ASSUME NEW n, Fill(n, pending)
  PROVE  (pending \union calls)' = pending \union calls
BY DEF Fill

\* Every step of the worker is one of the board, or none.
LEMMA BoardStep == Inv /\ [Next]_vars => [Board!Next]_(Board!vars)
<1> SUFFICES ASSUME Inv, [Next]_vars PROVE [Board!Next]_(Board!vars)
  OBVIOUS
<1>1. CASE Tick
  BY <1>1, TickScans DEF Board!Next
<1>2. CASE EnqueueSome
  BY <1>2, LookType, EnqueueAsks DEF EnqueueSome, Board!Next
<1>3. CASE \E p \in Panes : Settle(p)
  BY <1>3, AnswerLands, FailGivesUp DEF Settle, Board!Next
<1>4. CASE Pump
  BY <1>4, FillIsQuiet, QuietStep DEF Pump, model
<1>5. CASE FinallySome
  BY <1>5, FillIsQuiet, QuietStep DEF FinallySome, Finally, model
<1>6. CASE Drain \/ UNCHANGED vars
  BY <1>6, QuietStep DEF Drain, model, vars, pool
<1>7. QED
  BY <1>1, <1>2, <1>3, <1>4, <1>5, <1>6 DEF Next, Over

\* What the worker shows for every pool, gate and order of answers is what the
\* board promises: the newest label written, and no question forgotten (enqueue,
\* pump, run, applySemantics).
THEOREM ImplementsBoard == Spec => KeepsThePromise
<1>1. Init => Board!Init
  BY DEF Init, Board!Init, Asked, Nothing
<1>2. QED
  BY <1>1, BoardStep, Invariance, PTL DEF Spec, KeepsThePromise, Board!Spec


----------------------------------------------------------------------------
(* The order of starts.                                                    *)

\* What starts comes from the jobs that wait, and outranks what stays.
LEMMA FillStartsBest ==
  ASSUME NEW n, NEW jobs, Fill(n, jobs)
  PROVE  \A j \in calls' \ calls : \A k \in pending' : ~Before(k, j)
<1>1. PICK start \in SUBSET jobs : /\ \A j \in start, k \in jobs \ start : ~Before(k, j)
                                   /\ pending' = jobs \ start /\ calls' = calls \union start
  BY DEF Fill
<1>2. calls' \ calls \subseteq start
  BY <1>1
<1> QED
  BY <1>1, <1>2

\* However many panes are observed in a tick and whichever jobs end, a job starts once
\* the tick's observations are through, and none that waits outranks it
\* (schedulePump, pump, nextJob).
THEOREM BestGoesFirst == Spec => BestFirst
<1> DEFINE Best == \A j \in calls' \ calls : todo' = {} /\ \A k \in pending' : ~Before(k, j)
<1>1. ASSUME [Next]_vars, NEW j \in calls' \ calls
      PROVE  todo' = {} /\ \A k \in pending' : ~Before(k, j)
  <2>1. CASE Pump
    BY <1>1, <2>1, FillStartsBest DEF Pump
  <2>2. CASE FinallySome
    <3>1. PICK d \in done : Finally(d)
      BY <2>2 DEF FinallySome
    <3>2. todo' = {} /\ Fill(running - 1, pending)
      BY <3>1 DEF Finally
    <3> QED
      BY <1>1, <3>2, FillStartsBest
  <2>3. CASE \E p \in Panes : Settle(p)
    <3>1. calls' \subseteq calls
      BY <2>3 DEF Settle, Answer, Fail, Settled
    <3> QED
      BY <1>1, <3>1
  <2>4. CASE Tick \/ EnqueueSome \/ Drain \/ Over \/ UNCHANGED vars
    <3>1. UNCHANGED calls
      BY <2>4 DEF Tick, EnqueueSome, Enqueue, Drain, Over, Observed, pool, vars
    <3> QED
      BY <1>1, <3>1
  <2> QED
    BY <1>1, <2>1, <2>2, <2>3, <2>4 DEF Next
<1>2. [Next]_vars => [Best]_vars
  BY <1>1
<1> HIDE DEF Best
<1>3. Spec => [][Best]_vars
  BY <1>2, PTL DEF Spec
<1> QED
  BY <1>3 DEF Best, BestFirst
============================================================================
