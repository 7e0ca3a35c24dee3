--------------------------- MODULE AskChat_proof ---------------------------
(***************************************************************************)
(* What holds of the picker's chat for every number of turns, every        *)
(* timeout and every choice of faults: the state is well typed, a seq      *)
(* names one question of a transcript and one worker answers it.           *)
(*                                                                         *)
(* The invariant that carries it: the sender takes its seq from a read of  *)
(* the transcript that no other process can make stale, because questions  *)
(* are appended by senders alone and fzf runs one at a time; and a worker  *)
(* is forked after its question is on disk, so that every seq in use is a  *)
(* seq the next reader sees.                                               *)
(*                                                                         *)
(* Where key commands run to their end and the clock does not jump, the    *)
(* lock lets one worker live at a time, and the chat is a Conversation.    *)
(***************************************************************************)
EXTENDS AskChat, FiniteSetTheorems, SequenceTheorems, TLAPS

Used(p) == worker[p].pc # "off"

\* The CHOOSE of NextSeq has something to choose.
LatestExists == \E m \in Asked(log) \union {0} : \A s \in Asked(log) : s <= m

\* The seq a sender is about to append is above all that are there.
SeqIsFresh == cmd.pc = "append" => \A s \in Asked(log) : s < cmd.seq

\* Workers answer questions that are in the transcript.
WorkersAnswerAsked == Kept => \A p \in Pids : Used(p) => worker[p].seq \in Asked(log)

\* The question a worker is about to be forked for is there, and has none yet.
SpawnIsFirst ==
  Kept /\ cmd.pc = "spawn" =>
    /\ cmd.seq \in Asked(log)
    /\ \A p \in Pids : Used(p) => worker[p].seq # cmd.seq

Turns ==
  /\ LatestExists
  /\ QuestionsIncrease
  /\ SeqIsFresh
  /\ WorkersAnswerAsked
  /\ SpawnIsFirst
  /\ OneWorkerPerSeq

Inv == TypeOK /\ Turns

----------------------------------------------------------------------------
(* The transcript's operators.                                             *)

\* The seqs a transcript holds, of whatever kinds of record, are numbers.
LEMMA SeqsOfType ==
  ASSUME NEW events \in Seq(Record), NEW kinds
  PROVE  SeqsOf(events, kinds) \in SUBSET Nat
<1>1. \A i \in DOMAIN events : events[i] \in Record
  OBVIOUS
<1>2. \A i \in DOMAIN events : events[i].seq \in Nat
  BY <1>1 DEF Record
<1>3. QED
  BY <1>2 DEF SeqsOf

\* Only a question changes what was asked.
LEMMA AskedAppend ==
  ASSUME NEW events \in Seq(Record), NEW r \in Record
  PROVE  Asked(Append(events, r)) =
           IF r.t = "question" THEN Asked(events) \union {r.seq} ELSE Asked(events)
<1> DEFINE longer == Append(events, r)
<1>1. /\ DOMAIN longer = DOMAIN events \union {Len(events) + 1}
      /\ \A i \in DOMAIN events : longer[i] = events[i]
      /\ longer[Len(events) + 1] = r
  OBVIOUS
<1> HIDE DEF longer
<1>2. \A s : s \in Asked(longer) <=> \E i \in DOMAIN longer : longer[i].t = "question" /\ longer[i].seq = s
  BY DEF Asked, SeqsOf
<1>3. \A s : s \in Asked(events) <=> \E i \in DOMAIN events : events[i].t = "question" /\ events[i].seq = s
  BY DEF Asked, SeqsOf
<1>4. \A s : s \in Asked(longer) <=> s \in Asked(events) \/ (r.t = "question" /\ s = r.seq)
  BY <1>1, <1>2, <1>3
<1>5. QED
  BY <1>4 DEF longer

\* The seq a sender takes is a number above every seq that was asked.
LEMMA NextSeqIsFresh ==
  ASSUME NEW events \in Seq(Record),
         \E m \in Asked(events) \union {0} : \A s \in Asked(events) : s <= m
  PROVE  /\ NextSeq(events) \in Nat /\ NextSeq(events) > 0
         /\ \A s \in Asked(events) : s < NextSeq(events)
<1>1. Asked(events) \in SUBSET Nat
  BY SeqsOfType DEF Asked
<1> DEFINE latest == CHOOSE m \in Asked(events) \union {0} : \A s \in Asked(events) : s <= m
<1>2. latest \in Asked(events) \union {0} /\ \A s \in Asked(events) : s <= latest
  OBVIOUS
<1>3. NextSeq(events) = 1 + latest
  BY DEF NextSeq
<1> HIDE DEF latest
<1>4. QED
  BY <1>1, <1>2, <1>3

\* A question above all others keeps the transcript's questions in order and
\* becomes the latest one.
LEMMA QuestionAppended ==
  ASSUME NEW events \in Seq(Record), NEW n \in Nat,
         \A s \in Asked(events) : s < n,
         \A i, j \in DOMAIN events :
           i < j /\ events[i].t = "question" /\ events[j].t = "question"
             => events[i].seq < events[j].seq,
         NEW longer, longer = Append(events, Rec("question", n))
  PROVE  /\ longer \in Seq(Record)
         /\ Asked(longer) = Asked(events) \union {n}
         /\ \A s \in Asked(longer) : s <= n
         /\ \A i, j \in DOMAIN longer :
              i < j /\ longer[i].t = "question" /\ longer[j].t = "question"
                => longer[i].seq < longer[j].seq
<1>1. Rec("question", n) \in Record /\ Rec("question", n).t = "question" /\ Rec("question", n).seq = n
  BY DEF Rec, Record
<1>2. longer \in Seq(Record) /\ Asked(longer) = Asked(events) \union {n}
  BY <1>1, AskedAppend
<1>3. Asked(events) \in SUBSET Nat
  BY SeqsOfType DEF Asked
<1>4. \A s \in Asked(longer) : s <= n
  BY <1>2, <1>3
<1>5. /\ DOMAIN longer = 1 .. (Len(events) + 1)
      /\ DOMAIN events = 1 .. Len(events) /\ Len(events) \in Nat
      /\ \A i \in DOMAIN events : longer[i] = events[i]
      /\ longer[Len(events) + 1].seq = n
  BY <1>1
<1>6. ASSUME NEW i \in DOMAIN longer, NEW j \in DOMAIN longer,
             i < j, longer[i].t = "question", longer[j].t = "question"
      PROVE  longer[i].seq < longer[j].seq
  <2>1. i \in DOMAIN events /\ events[i].t = "question" /\ longer[i] = events[i]
    BY <1>5, <1>6
  <2>2. events[i].seq \in Asked(events)
    BY <2>1 DEF Asked, SeqsOf
  <2>3. CASE j \in DOMAIN events
    BY <1>5, <1>6, <2>1, <2>3
  <2>4. CASE j = Len(events) + 1
    BY <1>5, <2>1, <2>2, <2>4
  <2>5. QED
    BY <1>5, <1>6, <2>3, <2>4
<1>7. QED
  BY <1>2, <1>4, <1>6

\* Every other record leaves the order of the questions as it is.
LEMMA OtherAppended ==
  ASSUME NEW events \in Seq(Record), NEW r \in Record, r.t # "question",
         \A i, j \in DOMAIN events :
           i < j /\ events[i].t = "question" /\ events[j].t = "question"
             => events[i].seq < events[j].seq,
         NEW longer, longer = Append(events, r)
  PROVE  /\ longer \in Seq(Record)
         /\ Asked(longer) = Asked(events)
         /\ \A i, j \in DOMAIN longer :
              i < j /\ longer[i].t = "question" /\ longer[j].t = "question"
                => longer[i].seq < longer[j].seq
<1>1. longer \in Seq(Record) /\ Asked(longer) = Asked(events)
  BY AskedAppend
<1>2. /\ DOMAIN longer = 1 .. (Len(events) + 1)
      /\ DOMAIN events = 1 .. Len(events) /\ Len(events) \in Nat
      /\ \A i \in DOMAIN events : longer[i] = events[i]
      /\ longer[Len(events) + 1] = r
  OBVIOUS
<1>3. QED
  BY <1>1, <1>2

----------------------------------------------------------------------------
(* The processes.                                                          *)

\* No process has the number 0, which stands for an empty slot.
LEMMA NoPid == 0 \notin Pids
BY DEF Pids

\* A signal leaves a worker a worker of the same question.
LEMMA Signalled ==
  ASSUME NEW w \in WorkerState
  PROVE  /\ SigTerm(w) \in WorkerState /\ SigTerm(w).seq = w.seq
         /\ SigTerm(w).pc = "off" <=> w.pc = "off"
         /\ SigKill(w) \in WorkerState /\ SigKill(w).seq = w.seq
         /\ SigKill(w).pc # "off"
         /\ Ended(w, w.prov) \in WorkerState /\ Ended(w, w.prov).seq = w.seq
         /\ Ended(w, w.prov).pc # "off"
         /\ Ended(w, FALSE) \in WorkerState /\ Ended(w, FALSE).seq = w.seq
         /\ Ended(w, FALSE).pc # "off"
BY DEF SigTerm, SigKill, Ended, Spared, WorkerState

\* The same workers, each with the question it had.
SameWorkers(new) ==
  \A p \in Pids : new[p].seq = worker[p].seq /\ (new[p].pc = "off" <=> worker[p].pc = "off")

\* A step that asks nothing keeps Turns: it appends no question, takes no seq,
\* forks no worker, and brings back no transcript.
LEMMA QuietStep ==
  ASSUME TypeOK, Turns,
         log' = log \/ \E r \in Record : r.t # "question" /\ log' = Append(log, r),
         SameWorkers(worker'),
         cmd'.pc \in {"append", "spawn"} => cmd'.pc = cmd.pc /\ cmd'.seq = cmd.seq,
         Kept' => Kept
  PROVE  Turns'
<1> USE DEF Turns
<1>1. log \in Seq(Record)
  BY DEF TypeOK
<1>2. /\ Asked(log') = Asked(log)
      /\ QuestionsIncrease'
  <2>1. CASE log' = log
    BY <2>1 DEF QuestionsIncrease
  <2>2. CASE \E r \in Record : r.t # "question" /\ log' = Append(log, r)
    <3>1. PICK r \in Record : r.t # "question" /\ log' = Append(log, r)
      BY <2>2
    <3>2. QED
      BY <1>1, <3>1, OtherAppended DEF QuestionsIncrease
  <2>3. QED
    BY <2>1, <2>2
<1>3. LatestExists'
  BY <1>2 DEF LatestExists
<1>4. SeqIsFresh'
  BY <1>2 DEF SeqIsFresh
<1>5. WorkersAnswerAsked'
  BY <1>2 DEF WorkersAnswerAsked, Used, SameWorkers
<1>6. SpawnIsFirst'
  BY <1>2 DEF SpawnIsFirst, Used, SameWorkers
<1>7. OneWorkerPerSeq'
  BY DEF OneWorkerPerSeq, SameWorkers
<1>8. QED
  BY <1>2, <1>3, <1>4, <1>5, <1>6, <1>7

----------------------------------------------------------------------------
(* Every step keeps the types.                                             *)

\* A worker that becomes a worker leaves a pool of workers.
LEMMA BecomesType ==
  ASSUME worker \in [Pids -> WorkerState], NEW p \in Pids, NEW w \in WorkerState,
         Becomes(p, w)
  PROVE  worker' \in [Pids -> WorkerState]
BY DEF Becomes

\* Moving a command on keeps it a command.
LEMMA GotoType ==
  ASSUME cmd \in CmdState,
         NEW from, NEW to \in {"write", "check", "read", "remove", "retry", "spawn", "release",
                              "c_kill", "c_look", "c_release"},
         Goto(from, to) \/ Return(from)
  PROVE  cmd' \in CmdState
<1>1. CASE Goto(from, to)
  BY <1>1 DEF Goto, CmdState
<1>2. CASE Return(from)
  BY <1>2 DEF Return, Idle, CmdState
<1>3. QED
  BY <1>1, <1>2

\* The turns a transcript completed are numbers.
LEMMA HistoryType ==
  ASSUME TypeOK
  PROVE  CompletedTurns(log) \in SUBSET Nat
BY SeqsOfType DEF CompletedTurns, TypeOK

\* The keys of the human only start commands.
LEMMA KeyType ==
  ASSUME TypeOK, Key
  PROVE  TypeOK'
<1> USE DEF TypeOK
<1>1. CASE KeyCtrlO
  BY <1>1 DEF KeyCtrlO
<1>2. CASE KeyEnter
  BY <1>2 DEF KeyEnter, Idle, CmdState
<1>3. CASE KeyEsc
  BY <1>3 DEF KeyEsc, Idle, CmdState
<1>4. CASE KeyQuit
  BY <1>4 DEF KeyQuit, PickerState
<1>5. QED
  BY <1>1, <1>2, <1>3, <1>4 DEF Key

\* Taking the lock with O_EXCL keeps the types, whichever handler takes it.
LEMMA CreateType ==
  ASSUME TypeOK, NEW from, NEW refused \in {"check", "idle"}, CreateExclusive(from, refused)
  PROVE  TypeOK'
<1>1. cmd' \in CmdState
  <2>1. CASE Goto(from, "write") \/ Return(from)
    BY <2>1, GotoType DEF TypeOK
  <2>2. CASE refused = "check" /\ Goto(from, refused)
    BY <2>2, GotoType DEF TypeOK
  <2>3. QED
    BY <2>1, <2>2 DEF CreateExclusive
<1>2. lock' = lock \/ lock' = EmptyLock
  BY DEF CreateExclusive
<1>3. QED
  BY <1>1, <1>2 DEF CreateExclusive, TypeOK, EmptyLock

\* Every step of sendAskQuestion keeps the types.
LEMMA SendType ==
  ASSUME Inv, Send
  PROVE  TypeOK'
<1> USE DEF Inv, TypeOK
<1>1. CASE AcquireCreate
  BY <1>1, CreateType DEF AcquireCreate
<1>2. CASE AcquireWrite
  <2>1. cmd' \in CmdState
    BY <1>2, GotoType DEF AcquireWrite
  <2>2. cmd.at \in Nat
    BY DEF CmdState
  <2>3. QED
    BY <1>2, <2>1, <2>2 DEF AcquireWrite, Held
<1>3. CASE AcquireCheck
  <2>1. cmd' \in CmdState
    BY <1>3, GotoType DEF AcquireCheck
  <2>2. QED
    BY <1>3, <2>1 DEF AcquireCheck
<1>4. CASE AcquireRemove
  <2>1. cmd' \in CmdState
    BY <1>4, GotoType DEF AcquireRemove
  <2>2. QED
    BY <1>4, <2>1 DEF AcquireRemove, NoLock
<1>5. CASE AcquireRetry
  BY <1>5, CreateType DEF AcquireRetry
<1>6. CASE SendRead
  <2>1. NextSeq(log) \in Nat
    BY NextSeqIsFresh DEF Turns, LatestExists
  <2>2. cmd' \in CmdState
    BY <1>6, <2>1 DEF SendRead, CmdState
  <2>3. QED
    BY <1>6, <2>2 DEF SendRead
<1>7. CASE SendAppend
  <2>1. Rec("question", cmd.seq) \in Record /\ Rec("error", cmd.seq) \in Record
    BY DEF Rec, Record, CmdState
  <2>2. log' \in Seq(Record)
    BY <1>7, <2>1 DEF SendAppend
  <2>3. cmd' \in CmdState
    BY <1>7, GotoType DEF SendAppend
  <2>4. QED
    BY <1>7, <2>2, <2>3 DEF SendAppend
<1>8. CASE SendSpawn
  <2>1. PICK p \in Pids :
          /\ worker' = [worker EXCEPT ![p] = [Off EXCEPT !.pc = "boot", !.seq = cmd.seq]]
          /\ cmd' = [cmd EXCEPT !.pc = "setpid", !.pid = p]
    BY <1>8 DEF SendSpawn
  <2>2. [Off EXCEPT !.pc = "boot", !.seq = cmd.seq] \in WorkerState
    BY DEF Off, WorkerState, CmdState
  <2>3. worker' \in [Pids -> WorkerState]
    BY <2>1, <2>2
  <2>4. cmd' \in CmdState
    BY <2>1 DEF CmdState
  <2>5. QED
    BY <1>8, <2>3, <2>4 DEF SendSpawn
<1>9. CASE SendSpawnFails
  <2>1. cmd' \in CmdState
    BY <1>9, GotoType DEF SendSpawnFails
  <2>2. QED
    BY <1>9, <2>1 DEF SendSpawnFails
<1>10. CASE SendWritePid
  <2>1. cmd' \in CmdState
    BY <1>10, GotoType DEF SendWritePid
  <2>2. cmd.pid \in Pids \union {0} /\ cmd.at \in Nat
    BY DEF CmdState
  <2>3. QED
    BY <1>10, <2>1, <2>2 DEF SendWritePid, Held
<1>11. CASE SendRelease
  <2>1. cmd' \in CmdState
    BY <1>11, GotoType DEF SendRelease
  <2>2. QED
    BY <1>11, <2>1 DEF SendRelease, NoLock
<1>12. QED
  BY <1>1, <1>2, <1>3, <1>4, <1>5, <1>6, <1>7, <1>8, <1>9, <1>10, <1>11 DEF Send

\* Every step of cancelAsk keeps the types.
LEMMA CancelType ==
  ASSUME Inv, Cancel
  PROVE  TypeOK'
<1> USE DEF Inv, TypeOK
<1>1. CASE CancelRead
  <2>1. cmd' \in CmdState
    BY <1>1 DEF CancelRead, CmdState
  <2>2. QED
    BY <1>1, <2>1 DEF CancelRead
<1>2. CASE CancelTerm
  <2>1. cmd' \in CmdState
    BY <1>2, GotoType DEF CancelTerm
  <2>2. worker' \in [Pids -> WorkerState]
    BY <1>2, Signalled DEF CancelTerm
  <2>3. QED
    BY <1>2, <2>1, <2>2 DEF CancelTerm
<1>3. CASE CancelKill
  <2>1. cmd' \in CmdState
    BY <1>3, GotoType DEF CancelKill
  <2>2. worker' \in [Pids -> WorkerState]
    BY <1>3, Signalled DEF CancelKill
  <2>3. QED
    BY <1>3, <2>1, <2>2 DEF CancelKill
<1>4. CASE CancelLook
  <2>1. NextSeq(log) - 1 \in Nat
    <3> DEFINE latest == CHOOSE m \in Asked(log) \union {0} : \A s \in Asked(log) : s <= m
    <3>1. latest \in Asked(log) \union {0}
      BY DEF Turns, LatestExists
    <3>2. Asked(log) \in SUBSET Nat
      BY SeqsOfType DEF Asked
    <3>3. NextSeq(log) = 1 + latest
      BY DEF NextSeq
    <3> HIDE DEF latest
    <3>4. QED
      BY <3>1, <3>2, <3>3
  <2>2. InFlightSeq(log) \in Nat
    BY <2>1 DEF InFlightSeq
  <2>3. cmd' \in CmdState
    BY <1>4, <2>2 DEF CancelLook, CmdState, Idle
  <2>4. QED
    BY <1>4, <2>3 DEF CancelLook
<1>5. CASE CancelAppend
  <2>1. Rec("aborted", cmd.seq) \in Record
    BY DEF Rec, Record, CmdState
  <2>2. cmd' \in CmdState
    BY <1>5, GotoType DEF CancelAppend
  <2>3. log' \in Seq(Record)
    BY <1>5, <2>1 DEF CancelAppend
  <2>4. QED
    BY <1>5, <2>2, <2>3 DEF CancelAppend
<1>6. CASE CancelRelease
  <2>1. cmd' \in CmdState
    BY <1>6, GotoType DEF CancelRelease
  <2>2. QED
    BY <1>6, <2>1 DEF CancelRelease, NoLock
<1>7. QED
  BY <1>1, <1>2, <1>3, <1>4, <1>5, <1>6 DEF Cancel

\* What a worker appends, if anything, is a record of its own turn and no question.
WorkerAppends(p) ==
  \/ log' = log
  \/ \E t \in {"chunk", "end", "error"} : log' = Append(log, Rec(t, worker[p].seq))

\* What any step of a worker does to the worker and to the transcript.
LEMMA WorkerStep ==
  ASSUME TypeOK, NEW p \in Pids, Worker(p)
  PROVE  \E w \in WorkerState :
           /\ w.seq = worker[p].seq /\ worker[p].pc # "off" /\ w.pc # "off"
           /\ Becomes(p, w)
           /\ WorkerAppends(p)
<1>1. worker[p] \in WorkerState /\ now \in Nat
  BY DEF TypeOK
<1> USE DEF WorkerAppends
<1>2. CASE WorkerBoot(p)
  <2> DEFINE w == IF worker[p].seq \in Asked(log) \ Settled(log)
                  THEN [worker[p] EXCEPT !.pc = "cfg", !.hist = CompletedTurns(log)]
                  ELSE [worker[p] EXCEPT !.pc = "drop"]
  <2>1. w \in WorkerState /\ w.seq = worker[p].seq /\ w.pc # "off"
    BY <1>1, HistoryType DEF WorkerState
  <2>2. QED
    BY <1>2, <2>1 DEF WorkerBoot
<1>3. CASE WorkerDrop(p)
  BY <1>1, <1>3, Signalled DEF WorkerDrop
<1>4. CASE WorkerOpen(p)
  <2>1. \A pc \in {"load", "fin"} :
          LET w == [worker[p] EXCEPT !.pc = pc, !.fd = "linked"]
          IN w \in WorkerState /\ w.seq = worker[p].seq /\ w.pc # "off"
    BY <1>1 DEF WorkerState
  <2>2. QED
    BY <1>4, <2>1 DEF WorkerOpen
<1>5. CASE WorkerAsk(p)
  <2> DEFINE w == [worker[p] EXCEPT !.pc = "ask", !.prov = TRUE, !.since = now]
  <2>1. w \in WorkerState /\ w.seq = worker[p].seq /\ w.pc # "off"
    BY <1>1 DEF WorkerState
  <2>2. QED
    BY <1>5, <2>1 DEF WorkerAsk
<1>6. CASE WorkerLoadFails(p)
  <2> DEFINE w == [worker[p] EXCEPT !.pc = "fin"]
  <2>1. w \in WorkerState /\ w.seq = worker[p].seq /\ w.pc # "off"
    BY <1>1 DEF WorkerState
  <2>2. QED
    BY <1>6, <2>1 DEF WorkerLoadFails
<1>7. CASE WorkerChunk(p)
  <2> DEFINE w == [worker[p] EXCEPT !.said = @ + 1]
  <2>1. w \in WorkerState /\ w.seq = worker[p].seq
    BY <1>1 DEF WorkerState
  <2>2. w.pc = worker[p].pc
    BY <1>1 DEF WorkerState
  <2>3. QED
    BY <1>7, <2>1, <2>2 DEF WorkerChunk, AppendBy
<1>8. CASE WorkerEnd(p) \/ WorkerError(p)
  <2> DEFINE w == [worker[p] EXCEPT !.pc = "fin", !.prov = FALSE, !.since = 0]
  <2>1. w \in WorkerState /\ w.seq = worker[p].seq /\ w.pc # "off"
    BY <1>1 DEF WorkerState
  <2>2. Becomes(p, w) /\ worker[p].pc # "off" /\ WorkerAppends(p)
    BY <1>8 DEF WorkerEnd, WorkerError, AppendBy
  <2>3. QED
    BY <2>1, <2>2
<1>9. CASE WorkerAbort(p)
  BY <1>1, <1>9, Signalled DEF WorkerAbort
<1>10. CASE WorkerRelease(p)
  BY <1>1, <1>10, Signalled DEF WorkerRelease
<1>11. CASE ProviderExit(p)
  <2> DEFINE w == [worker[p] EXCEPT !.prov = FALSE]
  <2>1. w \in WorkerState /\ w.seq = worker[p].seq /\ w.pc = worker[p].pc
    BY <1>1 DEF WorkerState
  <2>2. worker[p].pc # "off"
    BY <1>11 DEF ProviderExit
  <2>3. QED
    BY <1>11, <2>1, <2>2 DEF ProviderExit
<1>12. QED
  BY <1>2, <1>3, <1>4, <1>5, <1>6, <1>7, <1>8, <1>9, <1>10, <1>11 DEF Worker

\* Every step of runAskWorker keeps the types.
LEMMA WorkerType ==
  ASSUME TypeOK, NEW p \in Pids, Worker(p)
  PROVE  TypeOK'
<1>1. worker' \in [Pids -> WorkerState]
  <2>1. PICK w \in WorkerState : Becomes(p, w)
    BY WorkerStep
  <2>2. QED
    BY <2>1, BecomesType DEF TypeOK
<1>2. log' \in Seq(Record)
  <2>1. \A t \in {"chunk", "end", "error"} : Rec(t, worker[p].seq) \in Record
    BY DEF TypeOK, WorkerState, Rec, Record
  <2>2. WorkerAppends(p)
    BY WorkerStep
  <2>3. QED
    BY <2>1, <2>2 DEF WorkerAppends, TypeOK
<1>3. lock' \in {lock, NoLock} /\ present' \in {present, TRUE} /\ UNCHANGED <<now, cmd, mode, picker>>
  BY DEF Worker, WorkerBoot, WorkerDrop, WorkerOpen, WorkerAsk, WorkerLoadFails, WorkerChunk,
         WorkerEnd, WorkerError, WorkerAbort, WorkerRelease, ProviderExit
<1>4. NoLock \in [st : {"none", "empty", "held"}, pid : Pids \union {0}, at : Nat]
  BY DEF NoLock
<1>5. QED
  BY <1>1, <1>2, <1>3, <1>4 DEF TypeOK

\* Unlinking the transcript changes nothing about the workers but their handles.
LEMMA UnlinkedType ==
  ASSUME TypeOK
  PROVE  Unlinked(worker) \in [Pids -> WorkerState] /\ SameWorkers(Unlinked(worker))
<1>1. ASSUME NEW p \in Pids
      PROVE  /\ Unlinked(worker)[p] \in WorkerState
             /\ Unlinked(worker)[p].seq = worker[p].seq /\ Unlinked(worker)[p].pc = worker[p].pc
  <2>1. worker[p] \in WorkerState
    BY DEF TypeOK
  <2>2. Unlinked(worker)[p] = IF worker[p].fd = "linked" THEN [worker[p] EXCEPT !.fd = "unlinked"]
                                                        ELSE worker[p]
    BY DEF Unlinked
  <2>3. QED
    BY <2>1, <2>2 DEF WorkerState
<1>2. Unlinked(worker) = [p \in Pids |-> Unlinked(worker)[p]]
  BY DEF Unlinked
<1>3. QED
  BY <1>1, <1>2 DEF SameWorkers

\* Every step of removeAskSession keeps the types.
LEMMA CloseType ==
  ASSUME TypeOK, Close \/ Sweep
  PROVE  TypeOK'
<1> USE DEF TypeOK
<1>1. CASE CloseRead
  <2>1. picker' \in PickerState
    BY <1>1 DEF CloseRead, PickerState
  <2>2. QED
    BY <1>1, <2>1 DEF CloseRead
<1>2. CASE CloseTerm
  <2>1. worker' \in [Pids -> WorkerState]
    BY <1>2, Signalled DEF CloseTerm
  <2>2. picker' \in PickerState
    BY <1>2 DEF CloseTerm, PickerState
  <2>3. QED
    BY <1>2, <2>1, <2>2 DEF CloseTerm
<1>3. CASE CloseRemoveLog
  <2>1. picker' \in PickerState
    BY <1>3 DEF CloseRemoveLog, PickerState
  <2>2. log' \in Seq(Record) /\ worker' \in [Pids -> WorkerState]
    BY <1>3, UnlinkedType DEF CloseRemoveLog
  <2>3. QED
    BY <1>3, <2>1, <2>2 DEF CloseRemoveLog
<1>4. CASE CloseRemoveLock
  <2>1. picker' \in PickerState
    BY <1>4 DEF CloseRemoveLock, PickerState
  <2>2. QED
    BY <1>4, <2>1 DEF CloseRemoveLock, NoLock
<1>5. CASE Sweep
  <2>1. picker' \in PickerState
    BY <1>5 DEF Sweep, PickerState
  <2>2. log' \in Seq(Record) /\ worker' \in [Pids -> WorkerState]
    BY <1>5, UnlinkedType DEF Sweep
  <2>3. QED
    BY <1>5, <2>1, <2>2 DEF Sweep, NoLock
<1>6. QED
  BY <1>1, <1>2, <1>3, <1>4, <1>5 DEF Close

\* A step that replaces one worker by the same one further on, or no worker at all.
LEMMA OneReplaced ==
  ASSUME worker \in [Pids -> WorkerState], NEW p, NEW w,
         p \in Pids => w.seq = worker[p].seq /\ (w.pc = "off" <=> worker[p].pc = "off"),
         worker' = [worker EXCEPT ![p] = w]
  PROVE  SameWorkers(worker')
<1>1. \A q \in Pids : worker'[q] = IF q = p THEN w ELSE worker[q]
  OBVIOUS
<1>2. QED
  BY <1>1 DEF SameWorkers

\* A worker that is killed stays a worker of the same question.
LEMMA KilledStep ==
  ASSUME TypeOK, NEW p \in Pids, WorkerKill(p)
  PROVE  worker' \in [Pids -> WorkerState] /\ SameWorkers(worker')
<1> DEFINE w == [Ended(worker[p], worker[p].prov) EXCEPT !.pc = "killed"]
<1>1. w \in WorkerState /\ w.seq = worker[p].seq /\ w.pc # "off"
  BY DEF TypeOK, WorkerState, Ended
<1>2. Becomes(p, w) /\ worker[p].pc # "off"
  BY DEF WorkerKill, Alive
<1> HIDE DEF w
<1>3. QED
  BY <1>1, <1>2 DEF Becomes, TypeOK, SameWorkers

\* Crashes, exits and the passing of time keep the types.
LEMMA EnvironmentType ==
  ASSUME TypeOK, Tick \/ Fault
  PROVE  TypeOK'
<1> USE DEF TypeOK
<1>1. CASE Tick
  BY <1>1 DEF Tick
<1>2. CASE ClockJump
  BY <1>2, BoundsAssumption DEF ClockJump
<1>3. CASE SenderKill
  <2>1. cmd' \in CmdState
    BY <1>3 DEF SenderKill, Idle, CmdState
  <2>2. QED
    BY <1>3, <2>1 DEF SenderKill
<1>4. CASE PickerKill
  <2>1. picker' \in PickerState
    BY <1>4 DEF PickerKill, PickerState
  <2>2. QED
    BY <1>4, <2>1 DEF PickerKill
<1>5. CASE ParentSignal
  <2>1. picker' \in PickerState
    BY <1>5 DEF ParentSignal, PickerState
  <2>2. QED
    BY <1>5, <2>1 DEF ParentSignal
<1>6. CASE \E p \in Pids : WorkerKill(p)
  <2>1. PICK p \in Pids : WorkerKill(p)
    BY <1>6
  <2>2. QED
    BY <2>1, KilledStep DEF WorkerKill
<1>7. QED
  BY <1>1, <1>2, <1>3, <1>4, <1>5, <1>6 DEF Fault

\* Every step keeps the types.
LEMMA TypeStep ==
  ASSUME Inv, [Next]_vars
  PROVE  TypeOK'
<1>1. CASE UNCHANGED vars
  BY <1>1 DEF vars, Inv, TypeOK
<1>2. QED
  BY <1>1, KeyType, SendType, CancelType, WorkerType, CloseType, EnvironmentType
  DEF Next, Over, Inv

----------------------------------------------------------------------------
(* Every step keeps the turns apart.                                       *)

\* The keys of the human leave the turns as they are.
LEMMA KeyTurns ==
  ASSUME Inv, Key
  PROVE  Turns'
<1>1. /\ log' = log /\ worker' = worker
      /\ cmd'.pc \in {"append", "spawn"} => cmd'.pc = cmd.pc /\ cmd'.seq = cmd.seq
      /\ Kept' => Kept
  BY DEF Inv, TypeOK, CmdState, PickerState, Key, KeyCtrlO, KeyEnter, KeyEsc, KeyQuit, Idle, Open, Kept
<1>2. SameWorkers(worker')
  BY <1>1 DEF SameWorkers
<1>3. QED
  BY <1>1, <1>2, QuietStep DEF Inv

\* A command that moves on, other than from SendRead and SendAppend, takes no seq.
LEMMA MovesOn ==
  ASSUME cmd \in CmdState,
         NEW from, NEW to \in {"write", "check", "remove", "retry", "read", "release",
                               "c_kill", "c_look", "c_release"},
         Goto(from, to) \/ Return(from)
  PROVE  cmd'.pc \notin {"append", "spawn"}
BY DEF Goto, Return, Idle, CmdState

\* Reading the transcript gives the sender a seq above all that were asked.
LEMMA SendReadTurns ==
  ASSUME Inv, SendRead
  PROVE  Turns'
<1>1. /\ log' = log /\ worker' = worker /\ picker' = picker
      /\ cmd'.pc = "append" /\ cmd'.seq = NextSeq(log)
  BY DEF SendRead, Inv, TypeOK, CmdState
<1>2. \A s \in Asked(log) : s < NextSeq(log)
  BY NextSeqIsFresh DEF Inv, Turns, TypeOK, LatestExists
<1>3. SeqIsFresh' /\ SpawnIsFirst'
  BY <1>1, <1>2 DEF SeqIsFresh, SpawnIsFirst
<1>4. LatestExists' /\ QuestionsIncrease' /\ WorkersAnswerAsked' /\ OneWorkerPerSeq'
  BY <1>1 DEF Inv, Turns, LatestExists, QuestionsIncrease, WorkersAnswerAsked, OneWorkerPerSeq,
              Kept, Used
<1>5. QED
  BY <1>3, <1>4 DEF Turns

\* Appending the question keeps the order, because the lock keeps others out.
LEMMA SendAppendTurns ==
  ASSUME Inv, SendAppend
  PROVE  Turns'
<1> DEFINE asked == Append(log, Rec("question", cmd.seq))
<1>1. cmd.pc = "append" /\ cmd.seq \in Nat /\ log \in Seq(Record)
  BY DEF SendAppend, Goto, Inv, TypeOK, CmdState
<1>2. \A s \in Asked(log) : s < cmd.seq
  BY <1>1 DEF Inv, Turns, SeqIsFresh
<1>3. /\ asked \in Seq(Record)
      /\ Asked(asked) = Asked(log) \union {cmd.seq}
      /\ \A s \in Asked(asked) : s <= cmd.seq
      /\ \A i, j \in DOMAIN asked :
           i < j /\ asked[i].t = "question" /\ asked[j].t = "question" => asked[i].seq < asked[j].seq
  BY <1>1, <1>2, QuestionAppended DEF Inv, Turns, QuestionsIncrease
<1>4. log' = asked \/ log' = Append(asked, Rec("error", cmd.seq))
  BY DEF SendAppend
<1> HIDE DEF asked
<1>5. /\ Asked(log') = Asked(log) \union {cmd.seq}
      /\ QuestionsIncrease'
  <2>1. CASE log' = asked
    BY <1>3, <2>1 DEF QuestionsIncrease
  <2>2. CASE log' = Append(asked, Rec("error", cmd.seq))
    <3>1. Rec("error", cmd.seq) \in Record /\ Rec("error", cmd.seq).t # "question"
      BY <1>1 DEF Rec, Record
    <3>2. QED
      BY <1>3, <2>2, <3>1, OtherAppended DEF QuestionsIncrease
  <2>3. QED
    BY <1>4, <2>1, <2>2
<1>6. /\ worker' = worker /\ picker' = picker /\ cmd'.seq = cmd.seq
      /\ cmd'.pc \in {"spawn", "release"}
  BY <1>1 DEF SendAppend, Goto, Inv, TypeOK, CmdState
<1>7. LatestExists'
  BY <1>3, <1>5 DEF LatestExists
<1>8. SeqIsFresh'
  BY <1>6 DEF SeqIsFresh
<1>9. WorkersAnswerAsked' /\ OneWorkerPerSeq'
  BY <1>5, <1>6 DEF Inv, Turns, WorkersAnswerAsked, OneWorkerPerSeq, Kept, Used
<1>10. SpawnIsFirst'
  <2>1. ASSUME Kept, NEW p \in Pids, Used(p)
        PROVE  worker[p].seq # cmd.seq
    <3>1. worker[p].seq \in Asked(log)
      BY <2>1 DEF Inv, Turns, WorkersAnswerAsked
    <3>2. worker[p].seq < cmd.seq
      BY <1>2, <3>1
    <3>3. QED
      BY <1>1, <3>2
  <2>2. QED
    BY <1>5, <1>6, <2>1 DEF SpawnIsFirst, Kept, Used
<1>11. QED
  BY <1>5, <1>7, <1>8, <1>9, <1>10 DEF Turns

\* The worker that is forked is the first of its question.
LEMMA SendSpawnTurns ==
  ASSUME Inv, SendSpawn
  PROVE  Turns'
<1>1. PICK p \in Pids :
        /\ worker[p].pc = "off"
        /\ worker' = [worker EXCEPT ![p] = [Off EXCEPT !.pc = "boot", !.seq = cmd.seq]]
        /\ cmd' = [cmd EXCEPT !.pc = "setpid", !.pid = p]
  BY DEF SendSpawn
<1>2. /\ cmd.pc = "spawn" /\ log' = log /\ picker' = picker /\ cmd'.pc = "setpid"
      /\ worker'[p].seq = cmd.seq
      /\ \A q \in Pids : q # p => worker'[q] = worker[q]
  BY <1>1 DEF SendSpawn, Inv, TypeOK, CmdState, Off
<1>3. LatestExists' /\ QuestionsIncrease' /\ SeqIsFresh' /\ SpawnIsFirst'
  BY <1>2 DEF Inv, Turns, LatestExists, QuestionsIncrease, SeqIsFresh, SpawnIsFirst
<1>4. WorkersAnswerAsked'
  BY <1>2 DEF Inv, Turns, WorkersAnswerAsked, SpawnIsFirst, Kept, Used
<1>5. OneWorkerPerSeq'
  BY <1>2 DEF Inv, Turns, OneWorkerPerSeq, SpawnIsFirst, Kept, Used
<1>6. QED
  BY <1>3, <1>4, <1>5 DEF Turns

\* Every step of sendAskQuestion keeps the turns in order.
LEMMA SendTurns ==
  ASSUME Inv, Send
  PROVE  Turns'
<1>1. CASE SendRead
  BY <1>1, SendReadTurns
<1>2. CASE SendAppend
  BY <1>2, SendAppendTurns
<1>3. CASE SendSpawn
  BY <1>3, SendSpawnTurns
<1>4. CASE ~(SendRead \/ SendAppend \/ SendSpawn)
  <2>1. cmd'.pc \notin {"append", "spawn"}
    BY <1>4, MovesOn
    DEF Send, AcquireCreate, AcquireWrite, AcquireCheck, AcquireRemove, AcquireRetry, CreateExclusive,
        SendSpawnFails, SendWritePid, SendRelease, Inv, TypeOK
  <2>2. log' = log /\ worker' = worker /\ picker' = picker
    BY <1>4
    DEF Send, AcquireCreate, AcquireWrite, AcquireCheck, AcquireRemove, AcquireRetry, CreateExclusive,
        SendSpawnFails, SendWritePid, SendRelease
  <2>3. SameWorkers(worker') /\ (Kept' => Kept)
    BY <2>2 DEF SameWorkers, Kept
  <2>4. QED
    BY <2>1, <2>2, <2>3, QuietStep DEF Inv
<1>5. QED
  BY <1>1, <1>2, <1>3, <1>4

\* Every step of cancelAsk keeps the turns in order.
LEMMA CancelTurns ==
  ASSUME Inv, Cancel
  PROVE  Turns'
<1>1. cmd'.pc \notin {"append", "spawn"}
  <2>1. CASE CancelRead
    BY <2>1 DEF CancelRead, Inv, TypeOK, CmdState
  <2>2. CASE CancelLook
    BY <2>2 DEF CancelLook, Idle
  <2>3. CASE CancelTerm \/ CancelKill \/ CancelAppend \/ CancelRelease
    BY <2>3, MovesOn DEF CancelTerm, CancelKill, CancelAppend, CancelRelease, Inv, TypeOK
  <2>4. QED
    BY <2>1, <2>2, <2>3 DEF Cancel
<1>2. log' = log \/ \E r \in Record : r.t # "question" /\ log' = Append(log, r)
  <2>1. Rec("aborted", cmd.seq) \in Record /\ Rec("aborted", cmd.seq).t # "question"
    BY DEF Rec, Record, Inv, TypeOK, CmdState
  <2>2. QED
    BY <2>1 DEF Cancel, CancelRead, CancelTerm, CancelKill, CancelLook, CancelAppend, CancelRelease
<1>3. SameWorkers(worker')
  <2>1. \A p \in Pids : worker[p] \in WorkerState
    BY DEF Inv, TypeOK
  <2>2. CASE CancelTerm
    BY <2>1, <2>2, Signalled, OneReplaced DEF CancelTerm, Inv, TypeOK
  <2>3. CASE CancelKill
    <3> DEFINE w == IF Alive(cmd.pid) THEN SigKill(worker[cmd.pid]) ELSE worker[cmd.pid]
    <3>1. cmd.pid \in Pids =>
            w.seq = worker[cmd.pid].seq /\ (w.pc = "off" <=> worker[cmd.pid].pc = "off")
      BY <2>1, Signalled DEF Alive
    <3>2. worker' = [worker EXCEPT ![cmd.pid] = w]
      BY <2>3 DEF CancelKill
    <3> HIDE DEF w
    <3>3. QED
      BY <3>1, <3>2, OneReplaced DEF Inv, TypeOK
  <2>4. CASE worker' = worker
    BY <2>4 DEF SameWorkers
  <2>5. QED
    BY <2>2, <2>3, <2>4 DEF Cancel, CancelRead, CancelLook, CancelAppend, CancelRelease
<1>4. Kept' => Kept
  BY DEF Cancel, CancelRead, CancelTerm, CancelKill, CancelLook, CancelAppend, CancelRelease, Kept
<1>5. QED
  BY <1>1, <1>2, <1>3, <1>4, QuietStep DEF Inv

\* Every step of runAskWorker keeps the turns in order.
LEMMA WorkerTurns ==
  ASSUME Inv, NEW p \in Pids, Worker(p)
  PROVE  Turns'
<1>1. PICK w \in WorkerState :
        /\ w.seq = worker[p].seq /\ worker[p].pc # "off" /\ w.pc # "off"
        /\ Becomes(p, w)
        /\ WorkerAppends(p)
  BY WorkerStep DEF Inv
<1>2. SameWorkers(worker')
  BY <1>1 DEF SameWorkers, Becomes, Inv, TypeOK
<1>3. log' = log \/ \E r \in Record : r.t # "question" /\ log' = Append(log, r)
  <2>1. \A t \in {"chunk", "end", "error"} :
          Rec(t, worker[p].seq) \in Record /\ Rec(t, worker[p].seq).t # "question"
    BY DEF Rec, Record, Inv, TypeOK, WorkerState
  <2>2. QED
    BY <1>1, <2>1 DEF WorkerAppends
<1>4. cmd' = cmd /\ picker' = picker
  BY DEF Worker, WorkerBoot, WorkerDrop, WorkerOpen, WorkerAsk, WorkerLoadFails, WorkerChunk,
         WorkerEnd, WorkerError, WorkerAbort, WorkerRelease, ProviderExit
<1>5. QED
  BY <1>2, <1>3, <1>4, QuietStep DEF Inv, Kept

\* Removing the transcript ends what Turns says of the workers, and an empty
\* transcript is in order.
LEMMA RemovedTurns ==
  ASSUME TypeOK, log' = <<>>, ~Kept', cmd' = cmd
  PROVE  Turns'
<1>1. Asked(log') = {}
  BY DEF Asked, SeqsOf
<1>2. LatestExists' /\ QuestionsIncrease' /\ SeqIsFresh'
  BY <1>1 DEF LatestExists, QuestionsIncrease, SeqIsFresh
<1>3. WorkersAnswerAsked' /\ SpawnIsFirst' /\ OneWorkerPerSeq'
  BY DEF WorkersAnswerAsked, SpawnIsFirst, OneWorkerPerSeq
<1>4. QED
  BY <1>2, <1>3 DEF Turns

\* Every step of removeAskSession keeps the turns in order.
LEMMA CloseTurns ==
  ASSUME Inv, Close \/ Sweep
  PROVE  Turns'
<1>1. CASE CloseRemoveLog \/ Sweep
  <2>1. log' = <<>> /\ ~Kept'
    BY <1>1 DEF CloseRemoveLog, Sweep, Kept, Inv, TypeOK, PickerState
  <2>2. QED
    BY <1>1, <2>1, RemovedTurns DEF CloseRemoveLog, Sweep, Inv
<1>2. CASE CloseRead \/ CloseTerm \/ CloseRemoveLock
  <2>1. log' = log /\ cmd' = cmd /\ (Kept' => Kept)
    BY <1>2 DEF CloseRead, CloseTerm, CloseRemoveLock, Kept, Inv, TypeOK, PickerState
  <2>2. SameWorkers(worker')
    <3>1. CASE CloseTerm
      <4>1. \A p \in Pids : worker[p] \in WorkerState
        BY DEF Inv, TypeOK
      <4>2. QED
        BY <3>1, <4>1, Signalled, OneReplaced DEF CloseTerm, Inv, TypeOK
    <3>2. CASE worker' = worker
      BY <3>2 DEF SameWorkers
    <3>3. QED
      BY <1>2, <3>1, <3>2 DEF CloseRead, CloseRemoveLock
  <2>3. QED
    BY <2>1, <2>2, QuietStep DEF Inv
<1>3. QED
  BY <1>1, <1>2 DEF Close

\* Crashes, exits and the passing of time keep the turns in order.
LEMMA EnvironmentTurns ==
  ASSUME Inv, Tick \/ Fault
  PROVE  Turns'
<1>1. log' = log
  BY DEF Tick, Fault, ClockJump, SenderKill, PickerKill, ParentSignal, WorkerKill
<1>2. SameWorkers(worker')
  <2>1. CASE \E p \in Pids : WorkerKill(p)
    BY <2>1, KilledStep DEF Inv
  <2>2. CASE worker' = worker
    BY <2>2 DEF SameWorkers
  <2>3. QED
    BY <2>1, <2>2 DEF Tick, Fault, ClockJump, SenderKill, PickerKill, ParentSignal
<1>3. cmd' = cmd \/ cmd' = Idle
  BY DEF Tick, Fault, ClockJump, SenderKill, PickerKill, ParentSignal, WorkerKill
<1>4. Kept' => Kept
  <2>1. CASE PickerKill
    BY <2>1 DEF PickerKill, Kept, Inv, TypeOK, PickerState
  <2>2. CASE ParentSignal
    BY <2>2 DEF ParentSignal, Kept, Open
  <2>3. CASE picker' = picker
    BY <2>3 DEF Kept
  <2>4. QED
    BY <2>1, <2>2, <2>3 DEF Tick, Fault, ClockJump, SenderKill, WorkerKill
<1>5. QED
  BY <1>1, <1>2, <1>3, <1>4, QuietStep DEF Inv, Idle

\* Every step keeps the turns in order.
LEMMA TurnsStep ==
  ASSUME Inv, [Next]_vars
  PROVE  Turns'
<1>1. CASE UNCHANGED vars
  <2>1. SameWorkers(worker') /\ (Kept' => Kept)
    BY <1>1 DEF vars, SameWorkers, Kept
  <2>2. QED
    BY <1>1, <2>1, QuietStep DEF vars, Inv
<1>2. QED
  BY <1>1, KeyTurns, SendTurns, CancelTurns, WorkerTurns, CloseTurns, EnvironmentTurns
  DEF Next, Over

\* The invariant holds before anything happened.
LEMMA InitInv == Init => Inv
<1> SUFFICES ASSUME Init PROVE Inv
  OBVIOUS
<1> USE DEF Init
<1>1. TypeOK
  <2>1. Off \in WorkerState
    BY DEF Off, WorkerState
  <2>2. Idle \in CmdState /\ picker \in PickerState
    BY DEF Idle, CmdState, PickerState
  <2>3. log \in Seq(Record) /\ worker \in [Pids -> WorkerState]
    BY <2>1
  <2>4. lock \in [st : {"none", "empty", "held"}, pid : Pids \union {0}, at : Nat]
    BY DEF NoLock
  <2>5. QED
    BY <2>2, <2>3, <2>4 DEF TypeOK
<1>2. Asked(log) = {}
  BY DEF Asked, SeqsOf
<1>3. (\A p \in Pids : worker[p].pc = "off") /\ cmd.pc = "idle"
  BY DEF Off, Idle
<1>4. LatestExists /\ QuestionsIncrease
  BY <1>2 DEF LatestExists, QuestionsIncrease
<1>5. SeqIsFresh /\ WorkersAnswerAsked /\ SpawnIsFirst /\ OneWorkerPerSeq
  BY <1>3 DEF SeqIsFresh, WorkersAnswerAsked, SpawnIsFirst, OneWorkerPerSeq, Used
<1>6. QED
  BY <1>1, <1>4, <1>5 DEF Inv, Turns

\* The inductive invariant holds of every behaviour of the chat.
THEOREM Invariance == Spec => []Inv
<1>1. Inv /\ [Next]_vars => Inv'
  BY TypeStep, TurnsStep DEF Inv
<1>2. QED
  BY InitInv, <1>1, PTL DEF Spec

----------------------------------------------------------------------------
\* The state is well typed, whatever the environment does; in particular the
\* lock never names a process nobody spawned (writeAskLockPid).
THEOREM TypeCorrect == Spec => []TypeOK
<1>1. Inv => TypeOK
  BY DEF Inv
<1>2. QED
  BY <1>1, Invariance, PTL

\* A seq names one question of a transcript, through crashes of senders, stale
\* locks and a close that interrupts a sender (nextSeq, sendAskQuestion).
THEOREM QuestionsAreOrdered == Spec => []QuestionsIncrease
<1>1. Inv => QuestionsIncrease
  BY DEF Inv, Turns
<1>2. QED
  BY <1>1, Invariance, PTL

\* No seq is ever answered twice, although a stale lock lets a second worker in
\* beside the first one (sendAskQuestion, spawnAskWorker).
THEOREM SeqsAreExclusive == Spec => []OneWorkerPerSeq
<1>1. Inv => OneWorkerPerSeq
  BY DEF Inv, Turns
<1>2. QED
  BY <1>1, Invariance, PTL

\* Both: a seq names one turn, with one question and one worker, however the lock fails.
THEOREM SeqsAreNames == Spec => []SeqsNameOneTurn
  BY QuestionsAreOrdered, SeqsAreExclusive, PTL DEF SeqsNameOneTurn

----------------------------------------------------------------------------
(* Answers are whole, whatever fails: a worker counts what it wrote.       *)

\* How often a transcript holds a record, and how many chunks of turn s.
Tally(events, t, s) == Cardinality({i \in DOMAIN events : events[i] = Rec(t, s)})
CountOf(events, s) == Tally(events, "chunk", s)

\* A worker writes to the transcript there is, and all it said is in it.
SpokenIsWritten ==
  Kept => \A p \in Pids : Used(p) =>
    /\ worker[p].pc \in {"load", "ask"} => worker[p].fd = "linked"
    /\ worker[p].fd # "unlinked"
    /\ worker[p].said = CountOf(log, worker[p].seq)

\* A chunk comes from a worker of its turn, so that a new turn has none.
ChunksHaveWorkers ==
  Kept => \A i \in DOMAIN log : log[i].t = "chunk" =>
    \E p \in Pids : Used(p) /\ worker[p].seq = log[i].seq

Answers == SpokenIsWritten /\ ChunksHaveWorkers /\ AnswersAreWhole

\* A record adds to the count of its own kind and turn, and to no other.
LEMMA TallyAppend ==
  ASSUME NEW events \in Seq(Record), NEW r, NEW t, NEW s
  PROVE  /\ Tally(events, t, s) \in Nat
         /\ Tally(Append(events, r), t, s) =
              IF r = Rec(t, s) THEN Tally(events, t, s) + 1 ELSE Tally(events, t, s)
<1> DEFINE longer == Append(events, r)
           old == {i \in DOMAIN events : events[i] = Rec(t, s)}
           new == {i \in DOMAIN longer : longer[i] = Rec(t, s)}
           n == Len(events) + 1
<1>1. /\ DOMAIN events = 1 .. Len(events) /\ Len(events) \in Nat
      /\ DOMAIN longer = 1 .. n
      /\ \A i \in DOMAIN events : longer[i] = events[i]
      /\ longer[n] = r
  OBVIOUS
<1>2. IsFiniteSet(old) /\ Cardinality(old) \in Nat
  <2>1. IsFiniteSet(1 .. Len(events))
    BY <1>1, FS_Interval
  <2>2. old \in SUBSET (1 .. Len(events))
    BY <1>1
  <2>3. QED
    BY <2>1, <2>2, FS_Subset, FS_CardinalityType
<1>3. n \notin old
  BY <1>1
<1> HIDE DEF longer
<1>4. new = IF r = Rec(t, s) THEN old \cup {n} ELSE old
  BY <1>1
<1>5. Cardinality(old \cup {n}) = Cardinality(old) + 1
  BY <1>2, <1>3, FS_AddElement
<1> HIDE DEF old, new
<1>6. Cardinality(new) = IF r = Rec(t, s) THEN Cardinality(old) + 1 ELSE Cardinality(old)
  BY <1>4, <1>5
<1>7. QED
  BY <1>2, <1>6 DEF Tally, longer, old, new

\* A chunk adds to the count of its own turn.
LEMMA CountAppend ==
  ASSUME NEW events \in Seq(Record), NEW r, NEW s
  PROVE  /\ CountOf(events, s) \in Nat
         /\ CountOf(Append(events, r), s) =
              IF r = Rec("chunk", s) THEN CountOf(events, s) + 1 ELSE CountOf(events, s)
BY TallyAppend DEF CountOf

\* A turn that no record of a kind names has none of that kind.
LEMMA NoneWritten ==
  ASSUME NEW events \in Seq(Record), NEW t, NEW s,
         \A i \in DOMAIN events : events[i].t = t => events[i].seq # s
  PROVE  Tally(events, t, s) = 0
<1>1. {i \in DOMAIN events : events[i] = Rec(t, s)} = {}
  BY DEF Rec
<1>2. QED
  BY <1>1, FS_EmptySet DEF Tally

\* A turn that no chunk names has none.
LEMMA NoChunks ==
  ASSUME NEW events \in Seq(Record), NEW s,
         \A i \in DOMAIN events : events[i].t = "chunk" => events[i].seq # s
  PROVE  CountOf(events, s) = 0
BY NoneWritten DEF CountOf

\* The records of a kind, after another record.
LEMMA SeqsAppend ==
  ASSUME NEW events \in Seq(Record), NEW r \in Record, NEW kinds
  PROVE  SeqsOf(Append(events, r), kinds) =
           IF r.t \in kinds THEN SeqsOf(events, kinds) \union {r.seq} ELSE SeqsOf(events, kinds)
<1> DEFINE longer == Append(events, r)
<1>1. /\ DOMAIN longer = DOMAIN events \union {Len(events) + 1}
      /\ \A i \in DOMAIN events : longer[i] = events[i]
      /\ longer[Len(events) + 1] = r
  OBVIOUS
<1> HIDE DEF longer
<1>2. \A s : s \in SeqsOf(longer, kinds) <=> \E i \in DOMAIN longer : longer[i].t \in kinds /\ longer[i].seq = s
  BY DEF SeqsOf
<1>3. \A s : s \in SeqsOf(events, kinds) <=> \E i \in DOMAIN events : events[i].t \in kinds /\ events[i].seq = s
  BY DEF SeqsOf
<1>4. \A s : s \in SeqsOf(longer, kinds) <=> s \in SeqsOf(events, kinds) \/ (r.t \in kinds /\ s = r.seq)
  BY <1>1, <1>2, <1>3
<1>5. QED
  BY <1>4 DEF longer

\* The fields a step of another process leaves alone: what a worker said, where it
\* wrote it, and that it is past its answer.
SameAnswers(new) ==
  \A p \in Pids :
    /\ new[p].seq = worker[p].seq /\ new[p].said = worker[p].said
    /\ new[p].pc = "off" <=> worker[p].pc = "off"
    /\ new[p].fd = worker[p].fd \/ (new[p].fd = "linked" /\ worker[p].fd # "unlinked")
    /\ new[p].pc \in {"load", "ask"} => worker[p].pc \in {"load", "ask"} \/ new[p].fd = "linked"
    /\ worker[p].pc \in {"fin", "dead", "killed"} => new[p].pc \in {"fin", "dead", "killed"}

\* A step that writes neither a chunk nor an end keeps the answers as they are.
LEMMA QuietAnswers ==
  ASSUME TypeOK, Answers,
         log' = log \/ \E r \in Record : r.t \notin {"chunk", "end"} /\ log' = Append(log, r),
         SameAnswers(worker'), Kept' => Kept
  PROVE  Answers'
<1>1. /\ \A s : CountOf(log', s) = CountOf(log, s)
      /\ SeqsOf(log', {"end"}) = SeqsOf(log, {"end"})
  <2>1. CASE log' = log
    BY <2>1
  <2>2. CASE \E r \in Record : r.t \notin {"chunk", "end"} /\ log' = Append(log, r)
    <3>1. PICK r \in Record : r.t \notin {"chunk", "end"} /\ log' = Append(log, r)
      BY <2>2
    <3>2. log \in Seq(Record) /\ \A s : r # Rec("chunk", s)
      BY <3>1 DEF TypeOK, Rec
    <3>3. QED
      BY <3>1, <3>2, CountAppend, SeqsAppend
  <2>3. QED
    BY <2>1, <2>2
<1>2. /\ \A s : CountOf(log, s) = ChunksOf(s)
      /\ \A s : CountOf(log', s) = ChunksOf(s)'
  BY DEF CountOf, Tally, ChunksOf
<1>3. SpokenIsWritten'
  BY <1>1 DEF Answers, SpokenIsWritten, SameAnswers, Used
<1>4. ChunksHaveWorkers'
  <2>1. \A i \in DOMAIN log' : log'[i].t = "chunk" => i \in DOMAIN log /\ log'[i] = log[i]
    BY DEF TypeOK
  <2>2. QED
    BY <2>1 DEF Answers, ChunksHaveWorkers, SameAnswers, Used
<1>5. AnswersAreWhole'
  BY <1>1, <1>2 DEF Answers, AnswersAreWhole, SameAnswers
<1>6. QED
  BY <1>3, <1>4, <1>5 DEF Answers

\* A signal leaves what a worker said and where it is past its answer.
LEMMA SignalAnswers ==
  ASSUME NEW w \in WorkerState
  PROVE  \A v \in {SigTerm(w), SigKill(w), Ended(w, FALSE), Ended(w, w.prov)} :
           /\ v.seq = w.seq /\ v.said = w.said /\ v.fd = w.fd
           /\ v.pc \in {"load", "ask"} => v.pc = w.pc
           /\ w.pc \in {"fin", "dead", "killed"} => v.pc \in {"fin", "dead", "killed"}
BY DEF SigTerm, SigKill, Ended, Spared, WorkerState

\* A step that replaces one worker by the same one further on keeps SameAnswers.
LEMMA OneAnswers ==
  ASSUME worker \in [Pids -> WorkerState], NEW p, NEW w,
         worker' = [worker EXCEPT ![p] = w],
         p \in Pids =>
           /\ w.seq = worker[p].seq /\ w.said = worker[p].said
           /\ w.pc = "off" <=> worker[p].pc = "off"
           /\ w.fd = worker[p].fd \/ (w.fd = "linked" /\ worker[p].fd # "unlinked")
           /\ w.pc \in {"load", "ask"} => worker[p].pc \in {"load", "ask"} \/ w.fd = "linked"
           /\ worker[p].pc \in {"fin", "dead", "killed"} => w.pc \in {"fin", "dead", "killed"}
  PROVE  SameAnswers(worker')
<1>1. \A q \in Pids : worker'[q] = IF q = p THEN w ELSE worker[q]
  OBVIOUS
<1>2. QED
  BY <1>1 DEF SameAnswers

\* A SIGTERM keeps SameAnswers, whoever it is meant for.
LEMMA TermAnswers ==
  ASSUME worker \in [Pids -> WorkerState], NEW p, worker' = [worker EXCEPT ![p] = SigTerm(@)]
  PROVE  SameAnswers(worker')
<1> DEFINE w == SigTerm(worker[p])
<1>1. p \in Pids =>
        /\ w.seq = worker[p].seq /\ w.said = worker[p].said /\ w.fd = worker[p].fd
        /\ w.pc = "off" <=> worker[p].pc = "off"
        /\ w.pc \in {"load", "ask"} => w.pc = worker[p].pc
        /\ worker[p].pc \in {"fin", "dead", "killed"} => w.pc \in {"fin", "dead", "killed"}
  BY SignalAnswers, Signalled
<1>2. worker' = [worker EXCEPT ![p] = w]
  OBVIOUS
<1> HIDE DEF w
<1>3. QED
  BY <1>1, <1>2, OneAnswers

\* A step that leaves the workers alone keeps SameAnswers.
LEMMA SameIsSame ==
  ASSUME worker' = worker
  PROVE  SameAnswers(worker')
BY DEF SameAnswers

\* The worker that is forked has said nothing, and its turn has no chunk.
LEMMA SendSpawnAnswers ==
  ASSUME Inv, Answers, SendSpawn
  PROVE  Answers'
<1>1. PICK p \in Pids :
        /\ worker[p].pc = "off"
        /\ worker' = [worker EXCEPT ![p] = [Off EXCEPT !.pc = "boot", !.seq = cmd.seq]]
  BY DEF SendSpawn
<1>2. /\ cmd.pc = "spawn" /\ log' = log /\ picker' = picker
      /\ worker'[p].seq = cmd.seq /\ worker'[p].said = 0
      /\ worker'[p].pc = "boot" /\ worker'[p].fd = "none"
      /\ \A q \in Pids : q # p => worker'[q] = worker[q]
  BY <1>1 DEF SendSpawn, Inv, TypeOK, Off
<1>3. /\ \A s : CountOf(log', s) = CountOf(log, s)
      /\ \A s : ChunksOf(s)' = ChunksOf(s)
      /\ Kept' = Kept
  BY <1>2 DEF ChunksOf, Kept
<1>4. Kept => CountOf(log, cmd.seq) = 0
  <2>1. ASSUME Kept, NEW i \in DOMAIN log, log[i].t = "chunk"
        PROVE  log[i].seq # cmd.seq
    BY <1>2, <2>1 DEF Answers, ChunksHaveWorkers, Inv, Turns, SpawnIsFirst
  <2>2. QED
    BY <2>1, NoChunks DEF Inv, TypeOK
<1>5. SpokenIsWritten'
  BY <1>2, <1>3, <1>4 DEF Answers, SpokenIsWritten, Used
<1>6. ChunksHaveWorkers'
  BY <1>1, <1>2, <1>3 DEF Answers, ChunksHaveWorkers, Used
<1>7. AnswersAreWhole'
  BY <1>1, <1>2, <1>3 DEF Answers, AnswersAreWhole
<1>8. QED
  BY <1>5, <1>6, <1>7 DEF Answers

\* A chunk that is counted is written.
LEMMA WorkerChunkAnswers ==
  ASSUME Inv, Answers, NEW p \in Pids, WorkerChunk(p)
  PROVE  Answers'
<1> DEFINE s0 == worker[p].seq
<1>1. /\ worker[p].pc = "ask" /\ picker' = picker /\ Kept' = Kept
      /\ worker[p].said \in Nat /\ s0 \in Nat
      /\ worker'[p].seq = s0 /\ worker'[p].pc = "ask" /\ worker'[p].fd = worker[p].fd
      /\ worker'[p].said = worker[p].said + 1
      /\ \A q \in Pids : q # p => worker'[q] = worker[q]
  BY DEF WorkerChunk, Becomes, Kept, Inv, TypeOK, WorkerState
<1>2. SUFFICES ASSUME Kept PROVE Answers'
  BY <1>1 DEF Answers, SpokenIsWritten, ChunksHaveWorkers, AnswersAreWhole
<1>3. log \in Seq(Record) /\ log' = Append(log, Rec("chunk", s0)) /\ Rec("chunk", s0) \in Record
  BY <1>1, <1>2 DEF WorkerChunk, AppendBy, Answers, SpokenIsWritten, Used, Inv, TypeOK, Rec, Record
<1>4. \A s : CountOf(log', s) = IF s = s0 THEN CountOf(log, s) + 1 ELSE CountOf(log, s)
  BY <1>3, CountAppend DEF Rec
<1>5. SeqsOf(log', {"end"}) = SeqsOf(log, {"end"})
  BY <1>3, SeqsAppend DEF Rec
<1>6. /\ \A s : CountOf(log, s) = ChunksOf(s)
      /\ \A s : CountOf(log', s) = ChunksOf(s)'
  BY DEF CountOf, Tally, ChunksOf
<1>7. \A q \in Pids : Used(q) /\ worker[q].seq = s0 => q = p
  BY <1>1, <1>2 DEF Inv, Turns, OneWorkerPerSeq, Used
<1> HIDE DEF s0
<1>8. SpokenIsWritten'
  BY <1>1, <1>2, <1>4, <1>7 DEF Answers, SpokenIsWritten, Used, s0
<1>9. ChunksHaveWorkers'
  <2>1. \A i \in DOMAIN log' : \/ i \in DOMAIN log /\ log'[i] = log[i]
                               \/ log'[i].seq = s0
    BY <1>3 DEF Rec
  <2>2. QED
    BY <1>1, <1>2, <2>1 DEF Answers, ChunksHaveWorkers, Used, s0
<1>10. AnswersAreWhole'
  <2>1. ASSUME NEW s \in SeqsOf(log, {"end"})
        PROVE  \E q \in Pids : /\ q # p /\ worker[q].seq = s /\ s # s0
                               /\ worker[q].pc \in {"fin", "dead", "killed"}
                               /\ worker[q].said = ChunksOf(s) /\ worker[q].said > 0
    BY <1>1, <1>2, <1>7, <2>1 DEF Answers, AnswersAreWhole, Used
  <2>2. QED
    BY <1>1, <1>4, <1>5, <1>6, <2>1 DEF AnswersAreWhole
<1>11. QED
  BY <1>8, <1>9, <1>10 DEF Answers

\* The end of an answer finds all of its chunks there, and at least one.
LEMMA WorkerEndAnswers ==
  ASSUME Inv, Answers, NEW p \in Pids, WorkerEnd(p)
  PROVE  Answers'
<1> DEFINE s0 == worker[p].seq
<1>1. /\ worker[p].pc = "ask" /\ picker' = picker /\ Kept' = Kept
      /\ worker[p].said \in Nat /\ worker[p].said > 0 /\ s0 \in Nat
      /\ worker'[p].seq = s0 /\ worker'[p].pc = "fin" /\ worker'[p].fd = worker[p].fd
      /\ worker'[p].said = worker[p].said
      /\ \A q \in Pids : q # p => worker'[q] = worker[q]
  BY DEF WorkerEnd, Becomes, Kept, Inv, TypeOK, WorkerState
<1>2. SUFFICES ASSUME Kept PROVE Answers'
  BY <1>1 DEF Answers, SpokenIsWritten, ChunksHaveWorkers, AnswersAreWhole
<1>3. log \in Seq(Record) /\ log' = Append(log, Rec("end", s0)) /\ Rec("end", s0) \in Record
  BY <1>1, <1>2 DEF WorkerEnd, AppendBy, Answers, SpokenIsWritten, Used, Inv, TypeOK, Rec, Record
<1>4. \A s : CountOf(log', s) = CountOf(log, s)
  BY <1>3, CountAppend DEF Rec
<1>5. SeqsOf(log', {"end"}) = SeqsOf(log, {"end"}) \union {s0}
  BY <1>3, SeqsAppend DEF Rec
<1>6. /\ \A s : CountOf(log, s) = ChunksOf(s)
      /\ \A s : CountOf(log', s) = ChunksOf(s)'
  BY DEF CountOf, Tally, ChunksOf
<1>7. worker[p].said = CountOf(log, s0)
  BY <1>1, <1>2 DEF Answers, SpokenIsWritten, Used
<1> HIDE DEF s0
<1>8. SpokenIsWritten'
  BY <1>1, <1>2, <1>4 DEF Answers, SpokenIsWritten, Used, s0
<1>9. ChunksHaveWorkers'
  <2>1. \A i \in DOMAIN log' : log'[i].t = "chunk" => i \in DOMAIN log /\ log'[i] = log[i]
    BY <1>3 DEF Rec
  <2>2. QED
    BY <1>1, <1>2, <2>1 DEF Answers, ChunksHaveWorkers, Used, s0
<1>10. AnswersAreWhole'
  <2>1. ASSUME NEW s \in SeqsOf(log, {"end"})
        PROVE  \E q \in Pids : /\ q # p /\ worker[q].seq = s
                               /\ worker[q].pc \in {"fin", "dead", "killed"}
                               /\ worker[q].said = ChunksOf(s) /\ worker[q].said > 0
    BY <1>1, <1>2, <2>1 DEF Answers, AnswersAreWhole
  <2>2. QED
    BY <1>1, <1>4, <1>5, <1>6, <1>7, <2>1 DEF AnswersAreWhole
<1>11. QED
  BY <1>8, <1>9, <1>10 DEF Answers

\* Every other step of a worker keeps the answers as they are.
LEMMA WorkerAnswers ==
  ASSUME Inv, Answers, NEW p \in Pids, Worker(p)
  PROVE  Answers'
<1> DEFINE quiet == log' = log \/ \E r \in Record : r.t \notin {"chunk", "end"} /\ log' = Append(log, r)
<1>1. worker[p] \in WorkerState /\ worker \in [Pids -> WorkerState]
  BY DEF Inv, TypeOK
<1>2. Rec("error", worker[p].seq) \in Record /\ Rec("error", worker[p].seq).t \notin {"chunk", "end"}
  BY <1>1 DEF Rec, Record, WorkerState
<1>3. ASSUME quiet, SameAnswers(worker'), picker' = picker
      PROVE  Answers'
  BY <1>3, QuietAnswers DEF Inv, Kept
<1>4. CASE WorkerBoot(p) \/ WorkerAsk(p) \/ WorkerLoadFails(p) \/ ProviderExit(p)
  <2>1. SameAnswers(worker')
    <3>1. CASE WorkerBoot(p)
      <4> DEFINE w == IF worker[p].seq \in Asked(log) \ Settled(log)
                      THEN [worker[p] EXCEPT !.pc = "cfg", !.hist = CompletedTurns(log)]
                      ELSE [worker[p] EXCEPT !.pc = "drop"]
      <4>1. /\ w.seq = worker[p].seq /\ w.said = worker[p].said /\ w.fd = worker[p].fd
            /\ w.pc \in {"cfg", "drop"} /\ worker[p].pc = "boot"
        BY <1>1, <3>1 DEF WorkerState, WorkerBoot
      <4>2. worker' = [worker EXCEPT ![p] = w]
        BY <3>1 DEF WorkerBoot, Becomes
      <4> HIDE DEF w
      <4>3. QED
        BY <1>1, <4>1, <4>2, OneAnswers
    <3>2. CASE WorkerAsk(p)
      BY <1>1, <3>2, OneAnswers DEF WorkerAsk, Becomes, WorkerState
    <3>3. CASE WorkerLoadFails(p)
      BY <1>1, <3>3, OneAnswers DEF WorkerLoadFails, Becomes, WorkerState
    <3>4. CASE ProviderExit(p)
      BY <1>1, <3>4, OneAnswers DEF ProviderExit, Becomes, WorkerState
    <3>5. QED
      BY <1>4, <3>1, <3>2, <3>3, <3>4
  <2>2. log' = log /\ picker' = picker
    BY <1>4 DEF WorkerBoot, WorkerAsk, WorkerLoadFails, ProviderExit
  <2>3. QED
    BY <1>3, <2>1, <2>2
<1>5. CASE WorkerDrop(p) \/ WorkerAbort(p) \/ WorkerRelease(p)
  <2>1. worker' = [worker EXCEPT ![p] = Ended(worker[p], FALSE)] /\ worker[p].pc # "off"
    BY <1>5 DEF WorkerDrop, WorkerAbort, WorkerRelease, Becomes
  <2>2. SameAnswers(worker')
    BY <1>1, <2>1, SignalAnswers, Signalled, OneAnswers
  <2>3. log' = log /\ picker' = picker
    BY <1>5 DEF WorkerDrop, WorkerAbort, WorkerRelease
  <2>4. QED
    BY <1>3, <2>2, <2>3
<1>6. CASE WorkerOpen(p)
  <2>1. \E pc \in {"load", "fin"} :
          worker' = [worker EXCEPT ![p] = [worker[p] EXCEPT !.pc = pc, !.fd = "linked"]]
    BY <1>6 DEF WorkerOpen, Becomes
  <2>2. Kept => worker[p].fd # "unlinked"
    BY <1>6 DEF Answers, SpokenIsWritten, WorkerOpen, Used
  <2>3. Kept => SameAnswers(worker')
    <3>1. PICK pc \in {"load", "fin"} :
            worker' = [worker EXCEPT ![p] = [worker[p] EXCEPT !.pc = pc, !.fd = "linked"]]
      BY <2>1
    <3> DEFINE w == [worker[p] EXCEPT !.pc = pc, !.fd = "linked"]
    <3>2. /\ w.seq = worker[p].seq /\ w.said = worker[p].said /\ w.fd = "linked" /\ w.pc = pc
          /\ worker[p].pc = "cfg"
      BY <1>1, <1>6 DEF WorkerState, WorkerOpen
    <3>3. worker' = [worker EXCEPT ![p] = w]
      BY <3>1
    <3> HIDE DEF w
    <3>4. QED
      BY <1>1, <2>2, <3>2, <3>3, OneAnswers
  <2>4. quiet /\ picker' = picker
    BY <1>2, <1>6 DEF WorkerOpen
  <2>5. CASE ~Kept
    BY <2>4, <2>5 DEF Answers, SpokenIsWritten, ChunksHaveWorkers, AnswersAreWhole, Kept
  <2>6. QED
    BY <1>3, <2>3, <2>4, <2>5
<1>7. CASE WorkerError(p)
  <2>1. SameAnswers(worker')
    BY <1>1, <1>7, OneAnswers DEF WorkerError, Becomes, WorkerState
  <2>2. quiet /\ picker' = picker
    BY <1>2, <1>7 DEF WorkerError, AppendBy
  <2>3. QED
    BY <1>3, <2>1, <2>2
<1>8. QED
  BY <1>4, <1>5, <1>6, <1>7, WorkerChunkAnswers, WorkerEndAnswers DEF Worker

\* Every step of sendAskQuestion keeps the answers as they are.
LEMMA SendAnswers ==
  ASSUME Inv, Answers, Send
  PROVE  Answers'
<1>1. CASE SendSpawn
  BY <1>1, SendSpawnAnswers
<1>2. CASE SendAppend
  <2> DEFINE asked == Append(log, Rec("question", cmd.seq))
  <2>1. /\ Rec("question", cmd.seq) \in Record /\ Rec("error", cmd.seq) \in Record
        /\ Rec("question", cmd.seq).t = "question" /\ Rec("error", cmd.seq).t = "error"
        /\ \A s : Rec("question", cmd.seq) # Rec("chunk", s) /\ Rec("error", cmd.seq) # Rec("chunk", s)
    BY DEF Rec, Record, Inv, TypeOK, CmdState
  <2>2. log \in Seq(Record) /\ asked \in Seq(Record)
    BY <2>1 DEF Inv, TypeOK
  <2>3. log' = asked \/ log' = Append(asked, Rec("error", cmd.seq))
    BY <1>2 DEF SendAppend
  <2>4. /\ \A s : CountOf(asked, s) = CountOf(log, s)
        /\ SeqsOf(asked, {"end"}) = SeqsOf(log, {"end"})
    BY <2>1, <2>2, CountAppend, SeqsAppend
  <2>5. \A i \in DOMAIN asked : asked[i].t = "chunk" => i \in DOMAIN log /\ asked[i] = log[i]
    BY <2>1, <2>2
  <2> HIDE DEF asked
  <2>6. /\ \A s : CountOf(log', s) = CountOf(log, s)
        /\ SeqsOf(log', {"end"}) = SeqsOf(log, {"end"})
    <3>1. CASE log' = asked
      BY <2>4, <3>1
    <3>2. CASE log' = Append(asked, Rec("error", cmd.seq))
      BY <2>1, <2>2, <2>4, <3>2, CountAppend, SeqsAppend
    <3>3. QED
      BY <2>3, <3>1, <3>2
  <2>7. \A i \in DOMAIN log' : log'[i].t = "chunk" => i \in DOMAIN log /\ log'[i] = log[i]
    <3>1. \A i \in DOMAIN log' : log'[i].t = "chunk" => i \in DOMAIN asked /\ log'[i] = asked[i]
      BY <2>1, <2>2, <2>3
    <3>2. QED
      BY <2>5, <3>1
  <2>8. /\ \A s : CountOf(log, s) = ChunksOf(s)
        /\ \A s : CountOf(log', s) = ChunksOf(s)'
    BY DEF CountOf, Tally, ChunksOf
  <2>9. worker' = worker /\ picker' = picker
    BY <1>2 DEF SendAppend
  <2>10. SpokenIsWritten'
    BY <2>6, <2>9 DEF Answers, SpokenIsWritten, Used, Kept
  <2>11. ChunksHaveWorkers'
    BY <2>7, <2>9 DEF Answers, ChunksHaveWorkers, Used, Kept
  <2>12. AnswersAreWhole'
    BY <2>6, <2>8, <2>9 DEF Answers, AnswersAreWhole, Kept
  <2>13. QED
    BY <2>10, <2>11, <2>12 DEF Answers
<1>3. CASE ~(SendSpawn \/ SendAppend)
  <2>1. log' = log /\ worker' = worker /\ picker' = picker
    BY <1>3
    DEF Send, AcquireCreate, AcquireWrite, AcquireCheck, AcquireRemove, AcquireRetry, CreateExclusive,
        SendRead, SendSpawnFails, SendWritePid, SendRelease
  <2>2. QED
    BY <2>1, SameIsSame, QuietAnswers DEF Inv, Kept
<1>4. QED
  BY <1>1, <1>2, <1>3

\* Every step of cancelAsk keeps the answers as they are.
LEMMA CancelAnswers ==
  ASSUME Inv, Answers, Cancel
  PROVE  Answers'
<1>1. log' = log \/ \E r \in Record : r.t \notin {"chunk", "end"} /\ log' = Append(log, r)
  <2>1. Rec("aborted", cmd.seq) \in Record /\ Rec("aborted", cmd.seq).t \notin {"chunk", "end"}
    BY DEF Rec, Record, Inv, TypeOK, CmdState
  <2>2. QED
    BY <2>1 DEF Cancel, CancelRead, CancelTerm, CancelKill, CancelLook, CancelAppend, CancelRelease
<1>2. worker \in [Pids -> WorkerState]
  BY DEF Inv, TypeOK
<1>3. SameAnswers(worker')
  <2>1. CASE CancelTerm
    BY <1>2, <2>1, TermAnswers DEF CancelTerm
  <2>2. CASE CancelKill
    <3> DEFINE w == IF Alive(cmd.pid) THEN SigKill(worker[cmd.pid]) ELSE worker[cmd.pid]
    <3>1. cmd.pid \in Pids =>
            /\ w.seq = worker[cmd.pid].seq /\ w.said = worker[cmd.pid].said /\ w.fd = worker[cmd.pid].fd
            /\ w.pc = "off" <=> worker[cmd.pid].pc = "off"
            /\ w.pc \in {"load", "ask"} => w.pc = worker[cmd.pid].pc
            /\ worker[cmd.pid].pc \in {"fin", "dead", "killed"} => w.pc \in {"fin", "dead", "killed"}
      BY <1>2, SignalAnswers, Signalled DEF Alive
    <3>2. worker' = [worker EXCEPT ![cmd.pid] = w]
      BY <2>2 DEF CancelKill
    <3> HIDE DEF w
    <3>3. QED
      BY <1>2, <3>1, <3>2, OneAnswers
  <2>3. CASE worker' = worker
    BY <2>3, SameIsSame
  <2>4. QED
    BY <2>1, <2>2, <2>3 DEF Cancel, CancelRead, CancelLook, CancelAppend, CancelRelease
<1>4. picker' = picker
  BY DEF Cancel, CancelRead, CancelTerm, CancelKill, CancelLook, CancelAppend, CancelRelease
<1>5. QED
  BY <1>1, <1>3, <1>4, QuietAnswers DEF Inv, Kept

\* Closing keeps the answers, or removes them with the transcript.
LEMMA CloseAnswers ==
  ASSUME Inv, Answers, Close \/ Sweep
  PROVE  Answers'
<1>1. CASE CloseRemoveLog \/ Sweep
  <2>1. ~Kept'
    BY <1>1 DEF CloseRemoveLog, Sweep, Kept, Inv, TypeOK, PickerState
  <2>2. QED
    BY <2>1 DEF Answers, SpokenIsWritten, ChunksHaveWorkers, AnswersAreWhole
<1>2. CASE CloseRead \/ CloseTerm \/ CloseRemoveLock
  <2>1. log' = log /\ (Kept' => Kept)
    BY <1>2 DEF CloseRead, CloseTerm, CloseRemoveLock, Kept, Inv, TypeOK, PickerState
  <2>2. SameAnswers(worker')
    <3>1. CASE CloseTerm
      BY <3>1, TermAnswers DEF CloseTerm, Inv, TypeOK
    <3>2. CASE worker' = worker
      BY <3>2, SameIsSame
    <3>3. QED
      BY <1>2, <3>1, <3>2 DEF CloseRead, CloseRemoveLock
  <2>3. QED
    BY <2>1, <2>2, QuietAnswers DEF Inv
<1>3. QED
  BY <1>1, <1>2 DEF Close

\* What the environment does keeps the answers: a worker that is killed leaves its
\* turn without an end.
LEMMA EnvironmentAnswers ==
  ASSUME Inv, Answers, Key \/ Tick \/ Fault
  PROVE  Answers'
<1>1. log' = log
  BY DEF Key, KeyCtrlO, KeyEnter, KeyEsc, KeyQuit, Tick, Fault, ClockJump, SenderKill, PickerKill,
         ParentSignal, WorkerKill
<1>2. SameAnswers(worker')
  <2>1. CASE \E p \in Pids : WorkerKill(p)
    <3>1. PICK p \in Pids : WorkerKill(p)
      BY <2>1
    <3> DEFINE w == [Ended(worker[p], worker[p].prov) EXCEPT !.pc = "killed"]
    <3>2. /\ w.seq = worker[p].seq /\ w.said = worker[p].said /\ w.fd = worker[p].fd /\ w.pc = "killed"
          /\ worker[p].pc # "off" /\ worker' = [worker EXCEPT ![p] = w]
      BY <3>1 DEF WorkerKill, Becomes, Alive, Ended, Inv, TypeOK, WorkerState
    <3> HIDE DEF w
    <3>3. QED
      BY <3>2, OneAnswers DEF Inv, TypeOK
  <2>2. CASE worker' = worker
    BY <2>2, SameIsSame
  <2>3. QED
    BY <2>1, <2>2 DEF Key, KeyCtrlO, KeyEnter, KeyEsc, KeyQuit, Tick, Fault, ClockJump, SenderKill,
                      PickerKill, ParentSignal
<1>3. Kept' => Kept
  <2>1. CASE PickerKill
    BY <2>1 DEF PickerKill, Kept, Inv, TypeOK, PickerState
  <2>2. CASE ParentSignal \/ KeyQuit
    BY <2>2 DEF ParentSignal, KeyQuit, Kept, Open
  <2>3. CASE picker' = picker
    BY <2>3 DEF Kept
  <2>4. QED
    BY <2>1, <2>2, <2>3 DEF Key, KeyCtrlO, KeyEnter, KeyEsc, Tick, Fault, ClockJump, SenderKill, WorkerKill
<1>4. QED
  BY <1>1, <1>2, <1>3, QuietAnswers DEF Inv

\* No step takes a part of an answer for an answer.
LEMMA AnswersStep ==
  ASSUME Inv, Answers, [Next]_vars
  PROVE  Answers'
<1>1. CASE UNCHANGED vars
  BY <1>1, SameIsSame, QuietAnswers DEF vars, Inv, Kept
<1>2. QED
  BY <1>1, SendAnswers, CancelAnswers, WorkerAnswers, CloseAnswers, EnvironmentAnswers DEF Next, Over

\* At the start nobody said anything.
LEMMA InitAnswers == Init => Answers
BY DEF Init, Answers, SpokenIsWritten, ChunksHaveWorkers, AnswersAreWhole, Used, Off, SeqsOf

\* A turn that has its `end` has every chunk its provider produced and no other,
\* however workers, senders and the picker die and the lock fails (streamAnswer).
THEOREM AnswersStayWhole == Spec => []AnswersAreWhole
<1>1. Inv /\ Answers /\ [Next]_vars => Answers'
  BY AnswersStep
<1>2. Answers => AnswersAreWhole
  BY DEF Answers
<1>3. QED
  BY <1>1, <1>2, InitAnswers, Invariance, PTL DEF Spec

----------------------------------------------------------------------------
(* A picker whose commands run to their end and whose clock does not jump; *)
(* workers may be killed.  The lock lets one worker live at a time: it     *)
(* names the one that lives, and no worker gets older than its lock may.   *)

CalmFaults == Faults \subseteq {"workerKill"}

\* What the age of the lock is counted from: what it says, or will say.
LockAt == IF cmd.pc = "setpid" THEN cmd.at ELSE lock.at

\* The lock names worker p, and only commands that will find it so are under way.
Keeper(p) ==
  IF cmd.pc = "setpid" THEN cmd.pid = p
  ELSE /\ lock.st = "held" /\ lock.pid = p
       /\ \/ cmd.pc \in {"idle", "create", "check", "c_read"}
          \/ cmd.pc \in {"c_term", "c_kill"} /\ cmd.pid = p

\* The lock is younger than any worker gets.
InTime(p) ==
  /\ worker[p].pc \in {"boot", "cfg", "load"} => now <= LockAt
  /\ worker[p].pc = "ask" => worker[p].since <= LockAt
  /\ now <= LockAt + AskTimeout

\* A command runs in an open picker that is in ask mode, and takes no time.
CommandsAreShort ==
  cmd.pc # "idle" =>
    /\ Open /\ mode = "ask"
    /\ cmd.pc \notin {"c_append", "c_release"} => cmd.at = now

WorkersAreKept ==
  \A p \in Pids : Alive(p) /\ picker.pc \in {"open", "read"} => Keeper(p) /\ InTime(p)

OneIsAlive == \A p, q \in Pids : Alive(p) /\ Alive(q) => p = q

\* After the picker's SIGTERM no worker comes to open the transcript.
ClosingIsHeard ==
  /\ picker.pc # "lost"
  /\ picker.pc = "term" => \A p \in Pids : Alive(p) => picker.pid = p
  /\ picker.pc \in {"rmlog", "rmlock", "gone"} => \A p \in Pids : worker[p].pc \notin {"boot", "cfg"}

ProvidersAreOwned ==
  \A p \in Pids : /\ worker[p].prov => worker[p].pc \in {"ask", "killed"}
                  /\ worker[p].since <= now

BrowseIsDead == mode = "browse" /\ Open => \A p \in Pids : ~Alive(p)

Locking ==
  /\ CommandsAreShort /\ WorkersAreKept /\ OneIsAlive /\ ClosingIsHeard
  /\ ProvidersAreOwned /\ BrowseIsDead

\* A lock that names a worker in time is live.
LEMMA KeptIsLive ==
  ASSUME TypeOK, NEW p \in Pids, Alive(p), lock.st = "held", lock.pid = p,
         now <= lock.at + AskTimeout
  PROVE  LockLive(now) /\ lock.pid # 0
<1>1. ~(now - lock.at > LockStale)
  BY TimeoutAssumption, BoundsAssumption DEF TypeOK
<1>2. QED
  BY <1>1, NoPid DEF LockLive, IsLockStale

\* A step of one worker, or of one that ends, keeps the locking: it comes no nearer
\* to its start, and takes the lock away only when it is gone.
LEMMA WorkerMoves ==
  ASSUME Inv, Locking, NEW p \in Pids,
         \A q \in Pids : q # p => worker'[q] = worker[q],
         UNCHANGED <<now, cmd, mode, picker>>,
         lock' = lock \/ (Alive(p) /\ ~Alive(p)'),
         Alive(p)' => Alive(p),
         worker'[p].pc \in {"boot", "cfg"} => worker[p].pc \in {"boot", "cfg"},
         worker'[p].pc = "load" => worker[p].pc \in {"cfg", "load"},
         worker'[p].pc = "ask" =>
           \/ worker[p].pc = "ask" /\ worker'[p].since = worker[p].since
           \/ worker[p].pc = "load" /\ worker'[p].since = now,
         worker'[p].since \in {0, now, worker[p].since},
         worker'[p].prov => worker'[p].pc \in {"ask", "killed"}
  PROVE  Locking'
<1> USE DEF Locking
<1>1. CommandsAreShort'
  BY DEF CommandsAreShort, Open
<1>2. OneIsAlive'
  BY DEF OneIsAlive, Alive
<1>3. WorkersAreKept'
  <2>1. ASSUME NEW q \in Pids, Alive(q)', picker.pc \in {"open", "read"}
        PROVE  Keeper(q)' /\ InTime(q)'
    <3>1. Alive(q)
      BY <2>1 DEF Alive
    <3>2. lock' = lock
      BY <2>1, <3>1 DEF OneIsAlive
    <3>3. Keeper(q) /\ InTime(q)
      BY <2>1, <3>1 DEF WorkersAreKept
    <3>4. Keeper(q)'
      BY <3>2, <3>3 DEF Keeper
    <3>5. InTime(q)'
      <4>1. LockAt' = LockAt
        BY <3>2 DEF LockAt
      <4>2. CASE q = p
        BY <3>3, <4>1, <4>2 DEF InTime
      <4>3. CASE q # p
        BY <3>3, <4>1, <4>3 DEF InTime
      <4>4. QED
        BY <4>2, <4>3
    <3>6. QED
      BY <3>4, <3>5
  <2>2. QED
    BY <2>1 DEF WorkersAreKept
<1>4. ClosingIsHeard'
  BY DEF ClosingIsHeard, Alive
<1>5. ProvidersAreOwned'
  BY DEF ProvidersAreOwned, Inv, TypeOK
<1>6. BrowseIsDead'
  BY DEF BrowseIsDead, Open, Alive
<1>7. QED
  BY <1>1, <1>2, <1>3, <1>4, <1>5, <1>6

\* Every step of a worker keeps the locking.
LEMMA WorkerLocking ==
  ASSUME Inv, Locking, NEW p \in Pids, Worker(p) \/ WorkerKill(p)
  PROVE  Locking'
<1>1. /\ worker[p] \in WorkerState /\ worker \in [Pids -> WorkerState]
      /\ worker[p].prov => worker[p].pc \in {"ask", "killed"}
  BY DEF Inv, TypeOK, Locking, ProvidersAreOwned
<1>2. UNCHANGED <<now, cmd, mode, picker>>
  BY DEF Worker, WorkerBoot, WorkerDrop, WorkerOpen, WorkerAsk, WorkerLoadFails, WorkerChunk,
         WorkerEnd, WorkerError, WorkerAbort, WorkerRelease, ProviderExit, WorkerKill
<1>3. \A q \in Pids : q # p => worker'[q] = worker[q]
  BY <1>1 DEF Becomes, Worker, WorkerBoot, WorkerDrop, WorkerOpen, WorkerAsk, WorkerLoadFails, WorkerChunk,
         WorkerEnd, WorkerError, WorkerAbort, WorkerRelease, ProviderExit, WorkerKill
<1>4. CASE WorkerBoot(p)
  <2>1. /\ worker'[p].pc \in {"cfg", "drop"} /\ worker[p].pc = "boot"
        /\ worker'[p].since = worker[p].since /\ worker'[p].prov = worker[p].prov
    BY <1>1, <1>4 DEF WorkerBoot, Becomes, WorkerState
  <2>2. lock' = lock
    BY <1>4 DEF WorkerBoot
  <2>3. QED
    BY <1>1, <1>2, <1>3, <2>1, <2>2, WorkerMoves DEF Alive
<1>5. CASE WorkerDrop(p) \/ WorkerAbort(p) \/ WorkerRelease(p) \/ WorkerKill(p)
  <2>1. /\ worker'[p].pc \in {"dead", "killed"} /\ Alive(p) /\ worker'[p].since = 0
        /\ worker'[p].prov => worker'[p].pc = "killed"
    <3>1. CASE WorkerKill(p)
      BY <1>1, <3>1 DEF WorkerKill, Becomes, WorkerState, Ended, Alive
    <3>2. CASE WorkerDrop(p)
      BY <1>1, <3>2 DEF WorkerDrop, Becomes, WorkerState, Ended, Alive
    <3>3. CASE WorkerAbort(p)
      BY <1>1, <3>3 DEF WorkerAbort, Becomes, WorkerState, Ended, Alive
    <3>4. CASE WorkerRelease(p)
      BY <1>1, <3>4 DEF WorkerRelease, Becomes, WorkerState, Ended, Alive
    <3>5. QED
      BY <1>5, <3>1, <3>2, <3>3, <3>4
  <2>2. QED
    BY <1>2, <1>3, <2>1, WorkerMoves DEF Alive
<1>6. CASE WorkerOpen(p)
  <2>1. /\ worker'[p].pc \in {"load", "fin"} /\ worker[p].pc = "cfg"
        /\ worker'[p].since = worker[p].since /\ worker'[p].prov = worker[p].prov
    <3>1. \E pc \in {"load", "fin"} :
            worker'[p] = [worker[p] EXCEPT !.pc = pc, !.fd = "linked"]
      BY <1>1, <1>6 DEF WorkerOpen, Becomes
    <3>2. QED
      BY <1>1, <1>6, <3>1 DEF WorkerOpen, WorkerState
  <2>2. lock' = lock
    BY <1>6 DEF WorkerOpen
  <2>3. QED
    BY <1>1, <1>2, <1>3, <2>1, <2>2, WorkerMoves DEF Alive
<1>7. CASE WorkerAsk(p)
  <2>1. worker'[p].pc = "ask" /\ worker[p].pc = "load" /\ worker'[p].since = now
    BY <1>1, <1>7 DEF WorkerAsk, Becomes, WorkerState
  <2>2. lock' = lock
    BY <1>7 DEF WorkerAsk
  <2>3. QED
    BY <1>2, <1>3, <2>1, <2>2, WorkerMoves DEF Alive
<1>8. CASE WorkerLoadFails(p) \/ WorkerEnd(p) \/ WorkerError(p)
  <2>1. /\ worker'[p].pc = "fin" /\ worker[p].pc \in {"load", "ask"}
        /\ worker'[p].since \in {0, worker[p].since} /\ ~worker'[p].prov
    <3>1. CASE WorkerLoadFails(p)
      BY <1>1, <3>1 DEF WorkerLoadFails, Becomes, WorkerState
    <3>2. CASE WorkerEnd(p)
      BY <1>1, <3>2 DEF WorkerEnd, Becomes, WorkerState
    <3>3. CASE WorkerError(p)
      BY <1>1, <3>3 DEF WorkerError, Becomes, WorkerState
    <3>4. QED
      BY <1>8, <3>1, <3>2, <3>3
  <2>2. lock' = lock
    BY <1>8 DEF WorkerLoadFails, WorkerEnd, WorkerError
  <2>3. QED
    BY <1>2, <1>3, <2>1, <2>2, WorkerMoves DEF Alive
<1>9. CASE WorkerChunk(p)
  <2>1. worker'[p].pc = "ask" /\ worker[p].pc = "ask" /\ worker'[p].since = worker[p].since
    BY <1>1, <1>9 DEF WorkerChunk, Becomes, WorkerState
  <2>2. lock' = lock
    BY <1>9 DEF WorkerChunk
  <2>3. QED
    BY <1>2, <1>3, <2>1, <2>2, WorkerMoves DEF Alive
<1>10. CASE ProviderExit(p)
  <2>1. /\ worker'[p].pc = worker[p].pc /\ worker[p].pc \in {"dead", "killed"}
        /\ worker'[p].since = worker[p].since /\ ~worker'[p].prov
    BY <1>1, <1>10 DEF ProviderExit, Becomes, WorkerState
  <2>2. lock' = lock
    BY <1>10 DEF ProviderExit
  <2>3. QED
    BY <1>2, <1>3, <2>1, <2>2, WorkerMoves DEF Alive
<1>11. QED
  BY <1>4, <1>5, <1>6, <1>7, <1>8, <1>9, <1>10 DEF Worker

\* A step of a command that signals and forks nobody keeps the locking, when it
\* leaves the lock of a worker that lives to that worker.
LEMMA CommandMoves ==
  ASSUME Inv, Locking, UNCHANGED <<now, worker, picker>>,
         CommandsAreShort',
         \A p \in Pids : Alive(p) /\ Open /\ Keeper(p) /\ InTime(p) => Keeper(p)' /\ LockAt' = LockAt,
         mode' = mode \/ mode' = "ask" \/ (\A p \in Pids : ~Alive(p)),
         cmd' # cmd => Open, lock' = lock \/ Open
  PROVE  Locking'
<1> USE DEF Locking
<1>1. OneIsAlive' /\ ProvidersAreOwned' /\ ClosingIsHeard'
  BY DEF OneIsAlive, Alive, ProvidersAreOwned, ClosingIsHeard
<1>2. WorkersAreKept'
  <2>1. ASSUME NEW p \in Pids, Alive(p)', picker.pc \in {"open", "read"}
        PROVE  Keeper(p)' /\ InTime(p)'
    <3>1. Alive(p) /\ Keeper(p) /\ InTime(p)
      BY <2>1 DEF WorkersAreKept, Alive
    <3>2. CASE Open
      BY <3>1, <3>2 DEF InTime
    <3>3. CASE ~Open
      <4>1. cmd' = cmd /\ lock' = lock
        BY <3>3
      <4>2. QED
        BY <3>1, <4>1 DEF Keeper, InTime, LockAt
    <3>4. QED
      BY <3>2, <3>3
  <2>2. QED
    BY <2>1 DEF WorkersAreKept
<1>3. BrowseIsDead'
  BY DEF BrowseIsDead, Open, Alive
<1>4. QED
  BY <1>1, <1>2, <1>3

\* What moving on and returning leave of a command.
LEMMA GotoFields ==
  ASSUME TypeOK, NEW from, NEW to
  PROVE  /\ Goto(from, to) => /\ cmd.pc = from /\ cmd'.pc = to /\ cmd'.at = cmd.at
                              /\ cmd'.pid = cmd.pid /\ cmd'.seq = cmd.seq
         /\ Return(from) => cmd.pc = from /\ cmd'.pc = "idle"
BY DEF Goto, Return, Idle, TypeOK, CmdState

\* The O_EXCL create finds the lock of a worker that lives in its way.
LEMMA CreateLocking ==
  ASSUME Inv, Locking, AcquireCreate \/ AcquireRetry
  PROVE  Locking'
<1>1. UNCHANGED <<now, worker, mode, picker>>
  BY DEF AcquireCreate, AcquireRetry, CreateExclusive
<1>2. /\ cmd.pc \in {"create", "retry"}
      /\ cmd.pc = "create" => cmd'.pc \in {"write", "check"} /\ cmd'.at = cmd.at
      /\ cmd.pc = "retry" => \/ cmd'.pc = "idle"
                             \/ cmd'.pc = "write" /\ cmd'.at = cmd.at
      /\ IF lock.st = "none" THEN cmd'.pc = "write" ELSE lock' = lock /\ cmd'.pc \in {"check", "idle"}
  BY GotoFields DEF AcquireCreate, AcquireRetry, CreateExclusive, Inv
<1>3. Open /\ mode = "ask" /\ cmd.at = now
  BY <1>2 DEF Locking, CommandsAreShort
<1>4. CommandsAreShort'
  BY <1>1, <1>2, <1>3 DEF CommandsAreShort, Open
<1>5. \A p \in Pids : Keeper(p) => Keeper(p)' /\ LockAt' = LockAt
  BY <1>2 DEF Keeper, LockAt
<1>6. QED
  BY <1>1, <1>3, <1>4, <1>5, CommandMoves

\* Every step of sendAskQuestion keeps the locking: the steps past the lock are
\* reached when nobody lives, and the pid of the worker is written for it.
LEMMA SendLocking ==
  ASSUME Inv, Locking, Send
  PROVE  Locking'
<1> USE DEF Inv
<1>1. CASE AcquireCreate \/ AcquireRetry
  BY <1>1, CreateLocking
<1>2. CASE AcquireWrite
  <2>1. UNCHANGED <<now, worker, mode, picker>> /\ cmd.pc = "write" /\ cmd'.pc = "read" /\ cmd'.at = cmd.at
    BY <1>2, GotoFields DEF AcquireWrite
  <2>2. Open /\ mode = "ask" /\ cmd.at = now
    BY <2>1 DEF Locking, CommandsAreShort
  <2>3. CommandsAreShort'
    BY <2>1, <2>2 DEF CommandsAreShort, Open
  <2>4. \A p \in Pids : ~Keeper(p)
    BY <2>1 DEF Keeper
  <2>5. QED
    BY <2>1, <2>2, <2>3, <2>4, CommandMoves
<1>3. CASE AcquireCheck
  <2>1. /\ UNCHANGED <<now, lock, worker, mode, picker>> /\ cmd.pc = "check"
        /\ IF LockLive(cmd.at) THEN cmd'.pc = "idle" ELSE cmd'.pc = "remove" /\ cmd'.at = cmd.at
    BY <1>3, GotoFields DEF AcquireCheck
  <2>2. Open /\ mode = "ask" /\ cmd.at = now
    BY <2>1 DEF Locking, CommandsAreShort
  <2>3. CommandsAreShort'
    BY <2>1, <2>2 DEF CommandsAreShort, Open
  <2>4. ASSUME NEW p \in Pids, Alive(p), Keeper(p), InTime(p)
        PROVE  Keeper(p)' /\ LockAt' = LockAt
    <3>1. LockLive(cmd.at)
      BY <2>1, <2>2, <2>4, KeptIsLive DEF Keeper, InTime, LockAt
    <3>2. QED
      BY <2>1, <2>4, <3>1 DEF Keeper, LockAt
  <2>5. QED
    BY <2>1, <2>2, <2>3, <2>4, CommandMoves
<1>4. CASE AcquireRemove
  <2>1. UNCHANGED <<now, worker, mode, picker>> /\ cmd.pc = "remove" /\ cmd'.pc = "retry" /\ cmd'.at = cmd.at
    BY <1>4, GotoFields DEF AcquireRemove
  <2>2. Open /\ mode = "ask" /\ cmd.at = now
    BY <2>1 DEF Locking, CommandsAreShort
  <2>3. CommandsAreShort'
    BY <2>1, <2>2 DEF CommandsAreShort, Open
  <2>4. \A p \in Pids : ~Keeper(p)
    BY <2>1 DEF Keeper
  <2>5. QED
    BY <2>1, <2>2, <2>3, <2>4, CommandMoves
<1>5. CASE SendRead \/ SendAppend \/ SendSpawnFails
  <2>1. /\ UNCHANGED <<now, worker, lock, mode, picker>> /\ cmd.pc \in {"read", "append", "spawn"}
        /\ cmd'.pc \in {"append", "spawn", "release"} /\ cmd'.at = cmd.at
    <3>1. CASE SendRead
      BY <3>1 DEF SendRead, TypeOK, CmdState
    <3>2. CASE SendAppend \/ SendSpawnFails
      BY <3>2, GotoFields DEF SendAppend, SendSpawnFails
    <3>3. QED
      BY <1>5, <3>1, <3>2
  <2>2. Open /\ mode = "ask" /\ cmd.at = now
    BY <2>1 DEF Locking, CommandsAreShort
  <2>3. CommandsAreShort'
    BY <2>1, <2>2 DEF CommandsAreShort, Open
  <2>4. \A p \in Pids : ~Keeper(p)
    BY <2>1 DEF Keeper
  <2>5. QED
    BY <2>1, <2>2, <2>3, <2>4, CommandMoves
<1>6. CASE SendSpawn
  <2>1. PICK p \in Pids :
          /\ worker[p].pc = "off"
          /\ worker' = [worker EXCEPT ![p] = [Off EXCEPT !.pc = "boot", !.seq = cmd.seq]]
          /\ cmd' = [cmd EXCEPT !.pc = "setpid", !.pid = p]
    BY <1>6 DEF SendSpawn
  <2>2. /\ UNCHANGED <<now, lock, mode, picker>> /\ cmd.pc = "spawn"
        /\ cmd'.pc = "setpid" /\ cmd'.pid = p /\ cmd'.at = cmd.at
        /\ worker'[p].pc = "boot" /\ worker'[p].since = 0 /\ ~worker'[p].prov
        /\ \A q \in Pids : q # p => worker'[q] = worker[q]
    BY <1>6, <2>1 DEF SendSpawn, TypeOK, CmdState, Off
  <2>3. Open /\ mode = "ask" /\ cmd.at = now /\ now \in Nat
    BY <2>2 DEF Locking, CommandsAreShort, TypeOK
  <2>4. \A q \in Pids : ~Alive(q)
    BY <2>2, <2>3 DEF Locking, WorkersAreKept, Open, Keeper
  <2>5. \A q \in Pids : Alive(q)' => q = p
    BY <2>2, <2>4 DEF Alive
  <2>6. CommandsAreShort'
    BY <2>2, <2>3 DEF CommandsAreShort, Open
  <2>7. WorkersAreKept' /\ OneIsAlive'
    BY <2>2, <2>3, <2>5, BoundsAssumption DEF WorkersAreKept, OneIsAlive, Keeper, InTime, LockAt
  <2>8. ClosingIsHeard' /\ BrowseIsDead'
    BY <2>2, <2>3 DEF ClosingIsHeard, BrowseIsDead, Open
  <2>9. ProvidersAreOwned'
    BY <2>2, <2>3 DEF Locking, ProvidersAreOwned
  <2>10. QED
    BY <2>6, <2>7, <2>8, <2>9 DEF Locking
<1>7. CASE SendWritePid
  <2>1. /\ UNCHANGED <<now, worker, mode, picker>> /\ cmd.pc = "setpid" /\ cmd'.pc = "idle"
        /\ lock'.st = "held" /\ lock'.pid = cmd.pid /\ lock'.at = cmd.at
    BY <1>7, GotoFields DEF SendWritePid, Held
  <2>2. Open /\ mode = "ask" /\ cmd.at = now
    BY <2>1 DEF Locking, CommandsAreShort
  <2>3. CommandsAreShort'
    BY <2>1, <2>2 DEF CommandsAreShort, Open
  <2>4. \A p \in Pids : Keeper(p) => Keeper(p)' /\ LockAt' = LockAt
    BY <2>1 DEF Keeper, LockAt
  <2>5. QED
    BY <2>1, <2>2, <2>3, <2>4, CommandMoves
<1>8. CASE SendRelease
  <2>1. UNCHANGED <<now, worker, mode, picker>> /\ cmd.pc = "release" /\ cmd'.pc = "idle"
    BY <1>8, GotoFields DEF SendRelease
  <2>2. Open
    BY <2>1 DEF Locking, CommandsAreShort
  <2>3. CommandsAreShort'
    BY <2>1, <2>2 DEF CommandsAreShort, Open
  <2>4. \A p \in Pids : ~Keeper(p)
    BY <2>1 DEF Keeper
  <2>5. QED
    BY <2>1, <2>2, <2>3, <2>4, CommandMoves
<1>9. QED
  BY <1>1, <1>2, <1>3, <1>4, <1>5, <1>6, <1>7, <1>8 DEF Send

\* What a signal does to a worker: it may end it, and does when nothing handles it.
LEMMA SignalMoves ==
  ASSUME NEW w \in WorkerState, NEW v \in {SigTerm(w), SigKill(w)}, w.pc # "off" \/ v = SigTerm(w)
  PROVE  /\ v.pc \in {w.pc, "dead"} /\ v.pc \notin {"boot", "cfg"}
         /\ v.since \in {0, w.since} /\ (v.prov => w.prov /\ v.pc = "off")
         /\ v.pc = "ask" => v.since = w.since
         /\ w.pc = "off" => v = w
BY DEF SigTerm, SigKill, Ended, Spared, WorkerState

\* A signal to one worker, by a command or by the picker.
SignalledOne(t) ==
  /\ \A q \in Pids : q # t => worker'[q] = worker[q]
  /\ t \in Pids => /\ worker'[t].pc \in {worker[t].pc, "dead"}
                   /\ worker'[t].since \in {0, worker[t].since}
                   /\ worker'[t].prov => worker[t].prov /\ worker'[t].pc = worker[t].pc
                   /\ worker'[t].pc = "ask" => worker'[t].since = worker[t].since

\* A signal keeps what Locking says of the workers by themselves.
LEMMA SignalLocking ==
  ASSUME Inv, Locking, NEW t, SignalledOne(t), UNCHANGED now
  PROVE  /\ \A p \in Pids : Alive(p)' => Alive(p)
         /\ OneIsAlive' /\ ProvidersAreOwned'
         /\ \A p \in Pids : worker'[p].pc \in {"boot", "cfg"} => worker[p].pc \in {"boot", "cfg"}
         /\ \A p \in Pids : InTime(p) /\ LockAt' = LockAt /\ Alive(p)' => InTime(p)'
<1>1. \A p \in Pids : \/ worker'[p] = worker[p]
                      \/ p = t /\ t \in Pids
  BY DEF SignalledOne
<1>2. \A p \in Pids : Alive(p)' => Alive(p) /\ worker'[p].pc = worker[p].pc
  BY <1>1 DEF SignalledOne, Alive
<1>3. OneIsAlive'
  BY <1>2 DEF Locking, OneIsAlive
<1>4. ProvidersAreOwned'
  BY <1>1 DEF SignalledOne, Locking, ProvidersAreOwned, Inv, TypeOK
<1>5. \A p \in Pids : worker'[p].pc \in {"boot", "cfg"} => worker[p].pc \in {"boot", "cfg"}
  BY <1>1 DEF SignalledOne
<1>6. \A p \in Pids : InTime(p) /\ LockAt' = LockAt /\ Alive(p)' => InTime(p)'
  BY <1>1, <1>2 DEF SignalledOne, InTime
<1>7. QED
  BY <1>2, <1>3, <1>4, <1>5, <1>6

\* A SIGTERM is such a signal, and leaves no worker that would still open the
\* transcript.
LEMMA TermIsSuch ==
  ASSUME Inv, NEW t, worker' = [worker EXCEPT ![t] = SigTerm(@)]
  PROVE  /\ SignalledOne(t)
         /\ t \in Pids => worker'[t].pc \notin {"boot", "cfg"}
<1>1. worker \in [Pids -> WorkerState]
  BY DEF Inv, TypeOK
<1>2. \A q \in Pids : worker'[q] = IF q = t THEN SigTerm(worker[q]) ELSE worker[q]
  BY <1>1
<1>3. t \in Pids => worker[t] \in WorkerState
  BY <1>1
<1>4. QED
  BY <1>1, <1>2, <1>3, SignalMoves DEF SignalledOne

\* The SIGKILL after the grace period is one, and leaves nobody alive.
LEMMA KillIsSuch ==
  ASSUME Inv, NEW t, worker' = [worker EXCEPT ![t] = IF Alive(t) THEN SigKill(@) ELSE @]
  PROVE  /\ SignalledOne(t)
         /\ t \in Pids => ~Alive(t)'
<1>1. worker \in [Pids -> WorkerState]
  BY DEF Inv, TypeOK
<1>2. \A q \in Pids : worker'[q] = IF q = t /\ Alive(t) THEN SigKill(worker[q]) ELSE worker[q]
  BY <1>1
<1>3. t \in Pids => worker[t] \in WorkerState
  BY <1>1
<1>4. t \in Pids /\ Alive(t) => worker[t].pc # "off" /\ worker'[t].pc = "dead"
  <2>1. \A w \in WorkerState : SigKill(w).pc = "dead"
    BY DEF SigKill, Ended, WorkerState
  <2>2. QED
    BY <1>2, <1>3, <2>1 DEF Alive
<1>5. SignalledOne(t)
  BY <1>1, <1>2, <1>3, <1>4, SignalMoves DEF SignalledOne
<1>6. t \in Pids => ~Alive(t)'
  BY <1>2, <1>4 DEF Alive
<1>7. QED
  BY <1>5, <1>6

\* Every step of cancelAskTurn keeps the locking: it finds the worker that lives in
\* the lock, and goes on to the record when that one is gone.
LEMMA CancelLocking ==
  ASSUME Inv, Locking, Cancel
  PROVE  Locking'
<1> USE DEF Inv
<1>1. CASE CancelRead
  <2>1. /\ UNCHANGED <<now, lock, worker, mode, picker>> /\ cmd.pc = "c_read" /\ cmd'.at = cmd.at
        /\ IF LockLive(cmd.at) /\ lock.pid # 0
           THEN cmd'.pc = "c_term" /\ cmd'.pid = lock.pid ELSE cmd'.pc = "c_look"
    BY <1>1 DEF CancelRead, TypeOK, CmdState
  <2>2. Open /\ mode = "ask" /\ cmd.at = now
    BY <2>1 DEF Locking, CommandsAreShort
  <2>3. CommandsAreShort'
    BY <2>1, <2>2 DEF CommandsAreShort, Open
  <2>4. ASSUME NEW p \in Pids, Alive(p), Keeper(p), InTime(p)
        PROVE  Keeper(p)' /\ LockAt' = LockAt
    <3>1. LockLive(cmd.at) /\ lock.pid # 0
      BY <2>1, <2>2, <2>4, KeptIsLive DEF Keeper, InTime, LockAt
    <3>2. QED
      BY <2>1, <2>4, <3>1 DEF Keeper, LockAt
  <2>5. QED
    BY <2>1, <2>2, <2>3, <2>4, CommandMoves
<1>2. CASE CancelTerm \/ CancelKill
  <2>1. /\ UNCHANGED <<now, lock, mode, picker>> /\ cmd'.at = cmd.at /\ cmd'.pid = cmd.pid
        /\ \/ cmd.pc = "c_term" /\ cmd'.pc = "c_kill" /\ CancelTerm
           \/ cmd.pc = "c_term" /\ cmd'.pc = "c_look" /\ ~Alive(cmd.pid) /\ CancelTerm
           \/ cmd.pc = "c_kill" /\ cmd'.pc = "c_look" /\ CancelKill
    BY <1>2, GotoFields DEF CancelTerm, CancelKill
  <2>2. Open /\ mode = "ask" /\ cmd.at = now
    BY <2>1 DEF Locking, CommandsAreShort
  <2>3. SignalledOne(cmd.pid)
    BY <1>2, TermIsSuch, KillIsSuch DEF CancelTerm, CancelKill
  <2>4. \A p \in Pids : Alive(p) => Keeper(p) /\ InTime(p) /\ cmd.pid = p /\ lock.pid = p
    BY <2>1, <2>2 DEF Locking, WorkersAreKept, Open, Keeper
  <2>5. LockAt' = LockAt
    BY <2>1 DEF LockAt
  <2>6. cmd'.pc = "c_look" => \A p \in Pids : ~Alive(p)'
    <3>1. CASE CancelTerm /\ ~Alive(cmd.pid)
      BY <2>1, <2>3, <2>4, <3>1, SignalLocking
    <3>2. CASE CancelKill
      <4>1. cmd.pid \in Pids => ~Alive(cmd.pid)'
        BY <2>1, <3>2, KillIsSuch DEF CancelKill, Alive
      <4>2. QED
        BY <2>1, <2>3, <2>4, <4>1, SignalLocking
    <3>3. QED
      BY <2>1, <3>1, <3>2
  <2>7. CommandsAreShort'
    BY <2>1, <2>2 DEF CommandsAreShort, Open
  <2>8. WorkersAreKept'
    <3>1. ASSUME NEW p \in Pids, Alive(p)'
          PROVE  Keeper(p)' /\ InTime(p)'
      <4>1. Alive(p) /\ cmd'.pc = "c_kill"
        BY <2>1, <2>3, <2>6, <3>1, SignalLocking
      <4>2. Keeper(p)'
        BY <2>1, <2>4, <4>1 DEF Keeper
      <4>3. QED
        BY <2>1, <2>3, <2>4, <2>5, <3>1, <4>1, <4>2, SignalLocking
    <3>2. QED
      BY <3>1 DEF WorkersAreKept
  <2>9. ClosingIsHeard' /\ BrowseIsDead'
    BY <2>1, <2>2 DEF ClosingIsHeard, BrowseIsDead, Open
  <2>10. QED
    BY <2>1, <2>3, <2>7, <2>8, <2>9, SignalLocking DEF Locking
<1>3. CASE CancelLook
  <2>1. /\ UNCHANGED <<now, lock, worker, mode, picker>> /\ cmd.pc = "c_look"
        /\ cmd'.pc \in {"c_release", "c_append"}
    BY <1>3 DEF CancelLook, Idle
  <2>2. Open /\ mode = "ask"
    BY <2>1 DEF Locking, CommandsAreShort
  <2>3. CommandsAreShort'
    BY <2>1, <2>2 DEF CommandsAreShort, Open
  <2>4. \A p \in Pids : ~Keeper(p)
    BY <2>1 DEF Keeper
  <2>5. QED
    BY <2>1, <2>2, <2>3, <2>4, CommandMoves
<1>4. CASE CancelAppend
  <2>1. /\ UNCHANGED <<now, lock, worker, mode, picker>> /\ cmd.pc = "c_append"
        /\ cmd'.pc = "c_release"
    BY <1>4, GotoFields DEF CancelAppend
  <2>2. Open /\ mode = "ask"
    BY <2>1 DEF Locking, CommandsAreShort
  <2>3. CommandsAreShort'
    BY <2>1, <2>2 DEF CommandsAreShort, Open
  <2>4. \A p \in Pids : ~Keeper(p)
    BY <2>1 DEF Keeper
  <2>5. QED
    BY <2>1, <2>2, <2>3, <2>4, CommandMoves
<1>5. CASE CancelRelease
  <2>1. UNCHANGED <<now, worker, picker>> /\ cmd.pc = "c_release" /\ cmd'.pc = "idle"
    BY <1>5, GotoFields DEF CancelRelease
  <2>2. Open
    BY <2>1 DEF Locking, CommandsAreShort
  <2>3. CommandsAreShort'
    BY <2>1, <2>2 DEF CommandsAreShort, Open
  <2>4. \A p \in Pids : ~Keeper(p) /\ ~Alive(p)
    BY <2>1, <2>2 DEF Keeper, Locking, WorkersAreKept, Open
  <2>5. QED
    BY <2>1, <2>2, <2>3, <2>4, CommandMoves
<1>6. QED
  BY <1>1, <1>2, <1>3, <1>4, <1>5 DEF Cancel

\* The keys start commands in an open picker that is idle.
LEMMA KeyLocking ==
  ASSUME Inv, Locking, Key
  PROVE  Locking'
<1> USE DEF Inv
<1>1. CASE KeyCtrlO \/ KeyEnter \/ KeyEsc
  <2>1. /\ UNCHANGED <<now, lock, worker, picker>> /\ cmd.pc = "idle" /\ Open
        /\ \/ cmd' = cmd /\ mode' = "ask"
           \/ cmd'.pc \in {"create", "c_read"} /\ cmd'.at = now /\ mode = "ask" /\ mode' = mode
    BY <1>1 DEF KeyCtrlO, KeyEnter, KeyEsc, Idle
  <2>2. CommandsAreShort'
    BY <2>1 DEF CommandsAreShort, Open
  <2>3. \A p \in Pids : Keeper(p) => Keeper(p)' /\ LockAt' = LockAt
    BY <2>1 DEF Keeper, LockAt
  <2>4. QED
    BY <2>1, <2>2, <2>3, CommandMoves
<1>2. CASE KeyQuit
  <2>1. UNCHANGED <<now, lock, cmd, worker, mode>> /\ picker'.pc = "read" /\ cmd.pc = "idle" /\ Open
    BY <1>2 DEF KeyQuit, TypeOK, PickerState
  <2>2. CommandsAreShort' /\ OneIsAlive' /\ ClosingIsHeard' /\ ProvidersAreOwned' /\ BrowseIsDead'
    BY <2>1 DEF Locking, CommandsAreShort, OneIsAlive, ClosingIsHeard, ProvidersAreOwned, BrowseIsDead,
                Open, Alive
  <2>3. WorkersAreKept'
    BY <2>1 DEF Locking, WorkersAreKept, Open, Alive, Keeper, InTime, LockAt
  <2>4. QED
    BY <2>2, <2>3 DEF Locking
<1>3. QED
  BY <1>1, <1>2 DEF Key

\* The picker's own close finds the worker that lives in the lock, too.
LEMMA CloseLocking ==
  ASSUME Inv, Locking, Close \/ Sweep
  PROVE  Locking'
<1> USE DEF Inv
<1>1. ~Open /\ cmd.pc = "idle" /\ UNCHANGED <<now, cmd, mode>>
  BY DEF Locking, CommandsAreShort, Close, CloseRead, CloseTerm, CloseRemoveLog, CloseRemoveLock, Sweep,
         Open
<1>2. ASSUME picker'.pc # "open"
      PROVE  CommandsAreShort' /\ BrowseIsDead'
  BY <1>1, <1>2 DEF CommandsAreShort, BrowseIsDead, Open
<1>3. CASE CloseRead
  <2>1. /\ picker.pc = "read" /\ worker' = worker /\ lock' = lock
        /\ IF LockLive(now) /\ lock.pid # 0
           THEN picker'.pc = "term" /\ picker'.pid = lock.pid ELSE picker'.pc = "rmlog"
    BY <1>3 DEF CloseRead, TypeOK, PickerState
  <2>2. \A p \in Pids : Alive(p) => LockLive(now) /\ lock.pid # 0 /\ lock.pid = p
    BY <1>1, <2>1, KeptIsLive DEF Locking, WorkersAreKept, Keeper, InTime, LockAt
  <2>3. OneIsAlive' /\ ProvidersAreOwned' /\ WorkersAreKept'
    BY <1>1, <2>1 DEF Locking, OneIsAlive, ProvidersAreOwned, WorkersAreKept, Alive
  <2>4. ClosingIsHeard'
    BY <2>1, <2>2 DEF ClosingIsHeard, Alive
  <2>5. QED
    BY <1>2, <2>1, <2>3, <2>4 DEF Locking
<1>4. CASE CloseTerm
  <2>1. /\ picker.pc = "term" /\ picker'.pc = "rmlog"
        /\ worker' = [worker EXCEPT ![picker.pid] = SigTerm(@)]
    BY <1>4 DEF CloseTerm
  <2>2. SignalledOne(picker.pid) /\ (picker.pid \in Pids => worker'[picker.pid].pc \notin {"boot", "cfg"})
    BY <2>1, TermIsSuch
  <2>3. \A p \in Pids : Alive(p) => picker.pid = p
    BY <2>1 DEF Locking, ClosingIsHeard
  <2>4. ClosingIsHeard'
    BY <1>1, <2>1, <2>2, <2>3, SignalLocking DEF ClosingIsHeard, Alive
  <2>5. WorkersAreKept'
    BY <2>1 DEF WorkersAreKept
  <2>6. QED
    BY <1>1, <1>2, <2>1, <2>2, <2>4, <2>5, SignalLocking DEF Locking
<1>5. CASE CloseRemoveLog \/ CloseRemoveLock \/ Sweep
  <2>1. picker.pc \in {"rmlog", "rmlock", "gone"} /\ picker'.pc \in {"rmlock", "gone"}
    BY <1>5 DEF CloseRemoveLog, CloseRemoveLock, Sweep, TypeOK, PickerState, Locking, ClosingIsHeard
  <2>2. \A p \in Pids : /\ worker'[p].pc = worker[p].pc /\ worker'[p].prov = worker[p].prov
                        /\ worker'[p].since = worker[p].since
    <3>1. \A p \in Pids : Unlinked(worker)[p] = IF worker[p].fd = "linked"
                                                THEN [worker[p] EXCEPT !.fd = "unlinked"] ELSE worker[p]
      BY DEF Unlinked
    <3>2. worker' = worker \/ worker' = Unlinked(worker)
      BY <1>5 DEF CloseRemoveLog, CloseRemoveLock, Sweep
    <3>3. ASSUME NEW p \in Pids
          PROVE  /\ worker'[p].pc = worker[p].pc /\ worker'[p].prov = worker[p].prov
                 /\ worker'[p].since = worker[p].since
      <4>1. worker[p] \in WorkerState
        BY DEF TypeOK
      <4>2. worker'[p] = worker[p] \/ worker'[p] = [worker[p] EXCEPT !.fd = "unlinked"]
        BY <3>1, <3>2
      <4>3. QED
        BY <4>1, <4>2 DEF WorkerState
    <3>4. QED
      BY <3>3
  <2>3. OneIsAlive' /\ ProvidersAreOwned' /\ WorkersAreKept' /\ ClosingIsHeard'
    BY <1>1, <2>1, <2>2
    DEF Locking, OneIsAlive, ProvidersAreOwned, WorkersAreKept, ClosingIsHeard, Alive
  <2>4. QED
    BY <1>2, <2>1, <2>3 DEF Locking
<1>6. QED
  BY <1>3, <1>4, <1>5 DEF Close

\* Time passes only while every worker that lives is in its provider run, which ends
\* before the lock is too old.
LEMMA TickLocking ==
  ASSUME Inv, Locking, Tick
  PROVE  Locking'
<1>1. /\ now' = now + 1 /\ UNCHANGED <<lock, cmd, worker, mode, picker>> /\ cmd.pc = "idle" /\ Open
      /\ \A p \in Pids : Alive(p) => worker[p].pc = "ask" /\ now < worker[p].since + AskTimeout
  BY DEF Tick
<1>2. /\ now \in Nat /\ lock.at \in Nat /\ AskTimeout \in Nat
      /\ \A p \in Pids : worker[p].since \in Nat
  BY BoundsAssumption DEF Inv, TypeOK, WorkerState
<1>3. CommandsAreShort' /\ OneIsAlive' /\ ClosingIsHeard' /\ BrowseIsDead'
  BY <1>1 DEF Locking, CommandsAreShort, OneIsAlive, ClosingIsHeard, BrowseIsDead, Open, Alive
<1>4. ProvidersAreOwned'
  BY <1>1, <1>2 DEF Locking, ProvidersAreOwned
<1>5. WorkersAreKept'
  <2>1. ASSUME NEW p \in Pids, Alive(p)'
        PROVE  Keeper(p)' /\ InTime(p)'
    <3>1. Alive(p) /\ Keeper(p) /\ InTime(p)
      BY <1>1, <2>1 DEF Locking, WorkersAreKept, Alive, Open
    <3>2. worker[p].pc = "ask" /\ worker[p].since <= lock.at /\ now < worker[p].since + AskTimeout
      BY <1>1, <3>1 DEF InTime, LockAt
    <3>3. now + 1 <= lock.at + AskTimeout
      BY <1>2, <3>2
    <3>4. QED
      BY <1>1, <3>1, <3>2, <3>3 DEF Keeper, InTime, LockAt
  <2>2. QED
    BY <2>1 DEF WorkersAreKept
<1>6. QED
  BY <1>3, <1>4, <1>5 DEF Locking

\* Every step of a calm machine keeps the locking.
LEMMA LockingStep ==
  ASSUME CalmFaults, Inv, Locking, [Next]_vars
  PROVE  Locking'
<1>1. CASE UNCHANGED vars
  BY <1>1 DEF vars, Locking, CommandsAreShort, WorkersAreKept, OneIsAlive, ClosingIsHeard,
              ProvidersAreOwned, BrowseIsDead, Open, Alive, Keeper, InTime, LockAt
<1>2. Fault => \E p \in Pids : WorkerKill(p)
  BY DEF CalmFaults, Fault, ClockJump, SenderKill, PickerKill, ParentSignal
<1>3. QED
  BY <1>1, <1>2, KeyLocking, SendLocking, CancelLocking, CloseLocking, TickLocking, WorkerLocking
  DEF Next, Over

----------------------------------------------------------------------------
(* What the locking gives the transcript: one writer at a time, of the     *)
(* latest question only.                                                   *)

\* The turn that is going on: the latest question, with nothing that settles it.
Newest(s) == s \in Asked(log) \ Settled(log) /\ \A r \in Asked(log) : r <= s

\* Once the files are removed nobody has a handle that would bring them back.
RemovedIsEmpty ==
  picker.pc \in {"rmlock", "gone"} => log = <<>> /\ \A p \in Pids : worker[p].fd # "linked"

LogIsAsked == Kept => \A i \in DOMAIN log : log[i].seq \in Asked(log) /\ log[i].seq > 0

TurnsAreOpen ==
  /\ Kept => \A p \in Pids : InFlight(p) => Newest(worker[p].seq)
  /\ cmd.pc = "append" => cmd.seq > 0
  /\ cmd.pc \in {"spawn", "c_append"} => Newest(cmd.seq)

Reaped == \A p \in Pids : Alive(p) => worker[p].seq \notin SeqsOf(log, {"aborted"})

Settling ==
  RemovedIsEmpty /\ LogIsAsked /\ TurnsAreOpen /\ SettledOnce /\ Reaped /\ HistoryIsAnswered

\* Whoever is answering lives.
LEMMA InFlightIsAlive == \A p \in Pids : InFlight(p) => Alive(p)
BY DEF InFlight, Alive

\* What settles a turn, by kind.
LEMMA SettledKinds ==
  Settled(log) = SeqsOf(log, {"end"}) \union SeqsOf(log, {"aborted"}) \union SeqsOf(log, {"error"})
BY DEF Settled, SeqsOf

LEMMA ByKind ==
  ASSUME NEW kinds, NEW s
  PROVE  s \in SeqsOf(log, kinds) <=> \E i \in DOMAIN log : log[i].t \in kinds /\ log[i].seq = s
BY DEF SeqsOf

\* Every record belongs to a turn that was asked.
LEMMA AllAsked ==
  ASSUME LogIsAsked, Kept, NEW kinds
  PROVE  SeqsOf(log, kinds) \subseteq Asked(log)
BY DEF LogIsAsked, SeqsOf

\* A record of a turn that is not settled settles nothing twice.
LEMMA SettledAppend ==
  ASSUME NEW events \in Seq(Record), NEW r \in Record, r.seq \notin Settled(events),
         NEW longer, longer = Append(events, r),
         \A i, j \in DOMAIN events :
           i < j /\ events[i].t \in {"end", "aborted", "error"} => events[j].seq # events[i].seq
  PROVE  \A i, j \in DOMAIN longer :
           i < j /\ longer[i].t \in {"end", "aborted", "error"} => longer[j].seq # longer[i].seq
<1>1. /\ DOMAIN longer = 1 .. (Len(events) + 1)
      /\ DOMAIN events = 1 .. Len(events) /\ Len(events) \in Nat
      /\ \A i \in DOMAIN events : longer[i] = events[i]
      /\ longer[Len(events) + 1] = r
  OBVIOUS
<1>2. \A i \in DOMAIN events : events[i].t \in {"end", "aborted", "error"} => events[i].seq # r.seq
  BY DEF Settled, SeqsOf
<1>3. ASSUME NEW i \in DOMAIN longer, NEW j \in DOMAIN longer, i < j,
             longer[i].t \in {"end", "aborted", "error"}
      PROVE  longer[j].seq # longer[i].seq
  <2>1. i \in DOMAIN events
    BY <1>1, <1>3
  <2>2. CASE j \in DOMAIN events
    BY <1>1, <1>3, <2>1, <2>2
  <2>3. CASE j = Len(events) + 1
    BY <1>1, <1>2, <1>3, <2>1, <2>3
  <2>4. QED
    BY <1>1, <1>3, <2>2, <2>3
<1>4. QED
  BY <1>3

\* A step that writes nothing keeps the turns settled, when it brings no worker and
\* no command nearer to writing.
LEMMA QuietSettling ==
  ASSUME Inv, Settling, log' = log,
         \A p \in Pids :
           /\ worker'[p].seq = worker[p].seq /\ worker'[p].hist = worker[p].hist
           /\ Alive(p)' => Alive(p)
           /\ InFlight(p)' => InFlight(p)
           /\ worker'[p].fd = "linked" => worker[p].fd = "linked" \/ Kept,
         cmd'.pc \in {"append", "spawn", "c_append"} => cmd'.pc = cmd.pc /\ cmd'.seq = cmd.seq,
         picker'.pc = picker.pc \/ Kept \/ ~Kept',
         picker'.pc \in {"rmlock", "gone"} => picker.pc \in {"rmlock", "gone"},
         Kept' => Kept
  PROVE  Settling'
<1> USE DEF Settling
<1>1. \A s : Newest(s) => Newest(s)'
  BY DEF Newest
<1>2. RemovedIsEmpty'
  BY DEF RemovedIsEmpty, Kept
<1>3. LogIsAsked' /\ SettledOnce'
  BY DEF LogIsAsked, SettledOnce
<1>4. TurnsAreOpen'
  BY <1>1 DEF TurnsAreOpen
<1>5. Reaped'
  BY DEF Reaped
<1>6. HistoryIsAnswered'
  BY DEF HistoryIsAnswered
<1>7. QED
  BY <1>2, <1>3, <1>4, <1>5, <1>6

\* While a command writes, nobody lives.
LEMMA WritersAreAlone ==
  ASSUME Locking, cmd.pc \in {"append", "spawn", "c_append"}
  PROVE  Open /\ \A p \in Pids : ~Alive(p)
BY DEF Locking, CommandsAreShort, WorkersAreKept, Open, Keeper

\* The turn esc finds in flight is the latest one, and unsettled.
LEMMA InFlightIsNewest ==
  ASSUME Inv, InFlightSeq(log) # 0
  PROVE  Newest(InFlightSeq(log))
<1> DEFINE latest == CHOOSE m \in Asked(log) \union {0} : \A s \in Asked(log) : s <= m
<1>1. latest \in Asked(log) \union {0} /\ \A s \in Asked(log) : s <= latest
  BY DEF Inv, Turns, LatestExists
<1>2. Asked(log) \in SUBSET Nat
  BY SeqsOfType DEF Asked, Inv, TypeOK
<1>3. NextSeq(log) = 1 + latest
  BY DEF NextSeq
<1> HIDE DEF latest
<1>4. NextSeq(log) - 1 = latest
  BY <1>1, <1>2, <1>3
<1>5. InFlightSeq(log) = latest /\ latest \notin Settled(log)
  BY <1>4 DEF InFlightSeq
<1>6. QED
  BY <1>1, <1>5 DEF Newest

\* A record of the turn that is going on, written by the one worker or by a command
\* when there is none.
LEMMA TurnWritten ==
  ASSUME Inv, Settling, Kept, UNCHANGED picker,
         NEW s, NEW t \in {"chunk", "end", "error", "aborted"}, Newest(s),
         log' = Append(log, Rec(t, s)),
         \A p \in Pids :
           /\ worker'[p].seq = worker[p].seq /\ worker'[p].hist = worker[p].hist
           /\ Alive(p)' => Alive(p) /\ worker[p].seq = s /\ t # "aborted"
           /\ InFlight(p)' => InFlight(p) /\ t = "chunk",
         cmd'.pc \notin {"append", "spawn", "c_append"}
  PROVE  Settling'
<1> DEFINE r == Rec(t, s)
<1>1. /\ log \in Seq(Record) /\ r \in Record /\ r.t = t /\ r.seq = s
      /\ s \in Asked(log) /\ s \in Nat
  BY SeqsOfType DEF Inv, TypeOK, Newest, Asked, Rec, Record
<1>2. Asked(log') = Asked(log)
  BY <1>1, AskedAppend
<1>3. \A kinds : SeqsOf(log', kinds) = IF t \in kinds THEN SeqsOf(log, kinds) \union {s}
                                                      ELSE SeqsOf(log, kinds)
  BY <1>1, SeqsAppend
<1>4. s \notin Settled(log)
  BY DEF Newest
<1>5. /\ DOMAIN log' = 1 .. (Len(log) + 1)
      /\ DOMAIN log = 1 .. Len(log) /\ Len(log) \in Nat
      /\ \A i \in DOMAIN log : log'[i] = log[i]
      /\ log'[Len(log) + 1] = r
  BY <1>1
<1> HIDE DEF r
<1>6. RemovedIsEmpty'
  BY DEF RemovedIsEmpty, Kept
<1>7. LogIsAsked'
  <2>1. s > 0
    <3>1. PICK i \in DOMAIN log : log[i].seq = s
      BY <1>1 DEF Asked, SeqsOf
    <3>2. QED
      BY <3>1 DEF Settling, LogIsAsked
  <2>2. \A i \in DOMAIN log' : log'[i].seq \in Asked(log) /\ log'[i].seq > 0
    BY <1>1, <1>5, <2>1 DEF Settling, LogIsAsked
  <2>3. QED
    BY <1>2, <2>2 DEF LogIsAsked
<1>8. TurnsAreOpen'
  <2>1. ASSUME NEW p \in Pids, InFlight(p)'
        PROVE  Newest(worker[p].seq)'
    <3>1. t = "chunk" /\ InFlight(p) /\ Newest(worker[p].seq) /\ worker'[p].seq = worker[p].seq
      BY <2>1 DEF Settling, TurnsAreOpen
    <3>2. Settled(log') = Settled(log)
      BY <1>3, <3>1 DEF Settled
    <3>3. QED
      BY <1>2, <3>1, <3>2 DEF Newest
  <2>2. QED
    BY <2>1 DEF TurnsAreOpen
<1>9. SettledOnce'
  BY <1>1, <1>4, SettledAppend DEF Settling, SettledOnce, r
<1>10. Reaped'
  BY <1>3 DEF Settling, Reaped
<1>11. HistoryIsAnswered'
  <2>1. ASSUME NEW p \in Pids, NEW h \in worker[p].hist
        PROVE  /\ h < worker[p].seq
               /\ h \in SeqsOf(log', {"end"}) \ SeqsOf(log', {"aborted", "error"})
    <3>1. h < worker[p].seq /\ h \in SeqsOf(log, {"end"}) \ SeqsOf(log, {"aborted", "error"})
      BY <2>1 DEF Settling, HistoryIsAnswered
    <3>2. h # s
      BY <1>4, <3>1, SettledKinds
    <3>3. QED
      BY <1>3, <3>1, <3>2
  <2>2. QED
    BY <2>1 DEF HistoryIsAnswered
<1>12. QED
  BY <1>6, <1>7, <1>8, <1>9, <1>10, <1>11 DEF Settling

\* A transcript is taken to be read: its next seq counts from one.
LEMMA SendReadSettling ==
  ASSUME Inv, Settling, SendRead
  PROVE  Settling'
<1>1. /\ UNCHANGED <<log, worker, picker>>
      /\ cmd'.pc = "append" /\ cmd'.seq = NextSeq(log)
  BY DEF SendRead, Inv, TypeOK, CmdState
<1>2. NextSeq(log) > 0
  BY NextSeqIsFresh DEF Inv, Turns, TypeOK, LatestExists
<1>3. TurnsAreOpen'
  BY <1>1, <1>2 DEF Settling, TurnsAreOpen, Kept, InFlight, Newest
<1>4. RemovedIsEmpty' /\ LogIsAsked' /\ SettledOnce' /\ Reaped' /\ HistoryIsAnswered'
  BY <1>1 DEF Settling, RemovedIsEmpty, LogIsAsked, SettledOnce, Reaped, HistoryIsAnswered,
              Kept, Alive
<1>5. QED
  BY <1>3, <1>4 DEF Settling

\* The question opens a turn no record is about, and the error of a missing provider
\* settles it at once.
LEMMA SendAppendSettling ==
  ASSUME Inv, Locking, Settling, SendAppend
  PROVE  Settling'
<1> DEFINE q == Rec("question", cmd.seq)
           e == Rec("error", cmd.seq)
           asked == Append(log, q)
<1>1. cmd.pc = "append" /\ cmd.seq \in Nat /\ log \in Seq(Record)
  BY DEF SendAppend, Goto, Inv, TypeOK, CmdState
<1>2. /\ worker' = worker /\ picker' = picker /\ cmd'.seq = cmd.seq
      /\ \/ cmd'.pc = "spawn" /\ log' = asked
         \/ cmd'.pc = "release" /\ log' = Append(asked, e)
  BY <1>1 DEF SendAppend, Goto, Inv, TypeOK, CmdState
<1>3. Open /\ Kept /\ Kept' /\ \A p \in Pids : ~Alive(p) /\ ~Alive(p)' /\ ~InFlight(p)'
  BY <1>1, <1>2, WritersAreAlone DEF Open, Kept, Alive, InFlight
<1>4. /\ q \in Record /\ q.t = "question" /\ q.seq = cmd.seq
      /\ e \in Record /\ e.t = "error" /\ e.seq = cmd.seq
  BY <1>1 DEF Rec, Record
<1>5. /\ Asked(log) \in SUBSET Nat /\ cmd.seq \notin Asked(log)
      /\ \A s \in Asked(log) : s < cmd.seq
      /\ cmd.seq > 0
  BY <1>1, SeqsOfType DEF Inv, Turns, SeqIsFresh, Asked, Settling, TurnsAreOpen
<1>6. \A kinds : cmd.seq \notin SeqsOf(log, kinds)
  BY <1>3, <1>5, AllAsked DEF Settling
<1> HIDE DEF q, e
<1>7. /\ asked \in Seq(Record) /\ Asked(asked) = Asked(log) \union {cmd.seq}
      /\ \A kinds : "question" \notin kinds => SeqsOf(asked, kinds) = SeqsOf(log, kinds)
  BY <1>1, <1>4, SeqsAppend DEF Asked
<1>8. /\ Asked(log') = Asked(log) \union {cmd.seq}
      /\ \A kinds : "question" \notin kinds => SeqsOf(log', kinds) \subseteq SeqsOf(log, kinds) \union {cmd.seq}
      /\ \A kinds : "question" \notin kinds => SeqsOf(log, kinds) \subseteq SeqsOf(log', kinds)
      /\ cmd'.pc = "spawn" => Settled(log') = Settled(log)
  <2>1. CASE log' = asked
    BY <1>7, <2>1 DEF Settled
  <2>2. CASE cmd'.pc = "release" /\ log' = Append(asked, e)
    <3>1. Asked(log') = Asked(asked)
      BY <1>4, <1>7, <2>2, AskedAppend
    <3> HIDE DEF asked
    <3>2. \A kinds : SeqsOf(log', kinds) =
            IF "error" \in kinds THEN SeqsOf(asked, kinds) \union {cmd.seq} ELSE SeqsOf(asked, kinds)
      BY <1>4, <1>7, <2>2, SeqsAppend
    <3>3. QED
      BY <1>7, <2>2, <3>1, <3>2
  <2>3. QED
    BY <1>2, <2>1, <2>2
<1>9. RemovedIsEmpty' /\ Reaped'
  BY <1>2, <1>3 DEF Open, RemovedIsEmpty, Reaped
<1>10. TurnsAreOpen'
  <2>1. ASSUME cmd'.pc = "spawn"
        PROVE  Newest(cmd.seq)'
    <3>1. Settled(log') = Settled(log) /\ cmd.seq \notin Settled(log)
      BY <1>6, <1>8, <2>1 DEF Settled
    <3>2. \A r \in Asked(log') : r <= cmd.seq
      BY <1>1, <1>5, <1>8
    <3>3. QED
      BY <1>2, <1>8, <3>1, <3>2 DEF Newest
  <2>2. cmd'.pc # "append" /\ cmd'.pc # "c_append"
    BY <1>2
  <2>3. QED
    BY <1>2, <1>3, <2>1, <2>2 DEF TurnsAreOpen
<1>11. LogIsAsked'
  <2>1. \A i \in DOMAIN log : log[i].seq \in Asked(log) /\ log[i].seq > 0
    BY <1>3 DEF Settling, LogIsAsked
  <2>2. \A i \in DOMAIN asked : asked[i].seq \in Asked(log) \union {cmd.seq} /\ asked[i].seq > 0
    BY <1>1, <1>4, <1>5, <2>1
  <2>3. \A i \in DOMAIN log' : log'[i].seq \in Asked(log) \union {cmd.seq} /\ log'[i].seq > 0
    <3>1. CASE log' = asked
      BY <2>2, <3>1
    <3>2. CASE log' = Append(asked, e)
      <4> HIDE DEF asked
      <4>1. QED
        BY <1>4, <1>5, <1>7, <2>2, <3>2
    <3>3. QED
      BY <1>2, <3>1, <3>2
  <2>4. QED
    BY <1>8, <2>3 DEF LogIsAsked
<1>12. SettledOnce'
  <2>1. \A i, j \in DOMAIN asked :
          i < j /\ asked[i].t \in {"end", "aborted", "error"} => asked[j].seq # asked[i].seq
    BY <1>1, <1>4, <1>6, SettledAppend DEF Settling, SettledOnce, Settled
  <2>2. cmd.seq \notin Settled(asked)
    BY <1>6, <1>7 DEF Settled
  <2>3. CASE log' = asked
    BY <2>1, <2>3 DEF SettledOnce
  <2>4. CASE log' = Append(asked, e)
    <3> HIDE DEF asked
    <3>1. QED
      BY <1>4, <1>7, <2>1, <2>2, <2>4, SettledAppend DEF SettledOnce
  <2>5. QED
    BY <1>2, <2>3, <2>4
<1>13. HistoryIsAnswered'
  <2>1. ASSUME NEW p \in Pids, NEW h \in worker[p].hist
        PROVE  h < worker[p].seq /\ h \in SeqsOf(log', {"end"}) \ SeqsOf(log', {"aborted", "error"})
    <3>1. h < worker[p].seq /\ h \in SeqsOf(log, {"end"}) \ SeqsOf(log, {"aborted", "error"})
      BY <1>3 DEF Settling, HistoryIsAnswered
    <3>2. h # cmd.seq
      BY <1>6, <3>1
    <3>3. QED
      BY <1>8, <3>1, <3>2
  <2>2. QED
    BY <1>2, <2>1 DEF HistoryIsAnswered
<1>14. QED
  BY <1>9, <1>10, <1>11, <1>12, <1>13 DEF Settling

\* The worker that is forked answers the latest question, and has no history yet.
LEMMA SendSpawnSettling ==
  ASSUME Inv, Locking, Settling, SendSpawn
  PROVE  Settling'
<1>1. PICK p \in Pids :
        /\ worker[p].pc = "off"
        /\ worker' = [worker EXCEPT ![p] = [Off EXCEPT !.pc = "boot", !.seq = cmd.seq]]
        /\ cmd' = [cmd EXCEPT !.pc = "setpid", !.pid = p]
  BY DEF SendSpawn
<1>2. /\ cmd.pc = "spawn" /\ log' = log /\ picker' = picker /\ cmd'.pc = "setpid"
      /\ worker'[p].seq = cmd.seq /\ worker'[p].hist = {} /\ worker'[p].fd = "none"
      /\ \A q \in Pids : q # p => worker'[q] = worker[q]
  BY <1>1 DEF SendSpawn, Inv, TypeOK, CmdState, Off
<1>3. Open /\ Kept /\ Kept' /\ \A q \in Pids : ~Alive(q)
  BY <1>2, WritersAreAlone DEF Open, Kept
<1>4. Newest(cmd.seq) /\ \A s : Newest(s) => Newest(s)'
  BY <1>2 DEF Settling, TurnsAreOpen, Newest
<1>5. \A q \in Pids : q # p => ~Alive(q)' /\ ~InFlight(q)'
  BY <1>2, <1>3 DEF Alive, InFlight
<1>6. RemovedIsEmpty' /\ LogIsAsked' /\ SettledOnce'
  BY <1>2, <1>3 DEF Settling, RemovedIsEmpty, LogIsAsked, SettledOnce, Open
<1>7. TurnsAreOpen'
  BY <1>2, <1>4, <1>5 DEF TurnsAreOpen
<1>8. Reaped'
  BY <1>2, <1>4, <1>5, SettledKinds DEF Reaped, Newest
<1>9. HistoryIsAnswered'
  BY <1>2, <1>3 DEF Settling, HistoryIsAnswered
<1>10. QED
  BY <1>6, <1>7, <1>8, <1>9 DEF Settling

\* Every step of sendAskQuestion keeps the turns settled.
LEMMA SendSettling ==
  ASSUME Inv, Locking, Settling, Send
  PROVE  Settling'
<1>1. CASE SendRead
  BY <1>1, SendReadSettling
<1>2. CASE SendAppend
  BY <1>2, SendAppendSettling
<1>3. CASE SendSpawn
  BY <1>3, SendSpawnSettling
<1>4. CASE ~(SendRead \/ SendAppend \/ SendSpawn)
  <2>1. UNCHANGED <<log, worker, picker>>
    BY <1>4 DEF Send, AcquireCreate, AcquireWrite, AcquireCheck, AcquireRemove, AcquireRetry,
                CreateExclusive, SendSpawnFails, SendWritePid, SendRelease
  <2>2. cmd'.pc \notin {"append", "spawn", "c_append"}
    BY <1>4, GotoFields DEF Inv, Send, AcquireCreate, AcquireWrite, AcquireCheck, AcquireRemove,
                AcquireRetry, CreateExclusive, SendSpawnFails, SendWritePid, SendRelease
  <2>3. QED
    BY <2>1, <2>2, QuietSettling DEF Alive, InFlight, Kept
<1>5. QED
  BY <1>1, <1>2, <1>3, <1>4

\* A signal leaves the turn and the history of a worker, and starts nothing.
LEMMA SignalSettles ==
  ASSUME Inv, NEW t,
         \/ worker' = [worker EXCEPT ![t] = SigTerm(@)]
         \/ worker' = [worker EXCEPT ![t] = IF Alive(t) THEN SigKill(@) ELSE @]
  PROVE  \A p \in Pids :
           /\ worker'[p].seq = worker[p].seq /\ worker'[p].hist = worker[p].hist
           /\ worker'[p].fd = worker[p].fd
           /\ Alive(p)' => Alive(p)
           /\ InFlight(p)' => InFlight(p)
<1>1. worker \in [Pids -> WorkerState]
  BY DEF Inv, TypeOK
<1>2. \A w \in WorkerState : \A v \in {SigTerm(w), SigKill(w)} :
        /\ v.seq = w.seq /\ v.hist = w.hist /\ v.fd = w.fd
        /\ w.pc = "off" /\ v = SigTerm(w) => v = w
        /\ v.pc \in {w.pc, "dead"}
  BY DEF SigTerm, SigKill, Ended, Spared, WorkerState
<1>3. \A p \in Pids : worker'[p] \in {worker[p], SigTerm(worker[p]), SigKill(worker[p])}
  BY <1>1
<1>4. \A p \in Pids : /\ worker'[p].seq = worker[p].seq /\ worker'[p].hist = worker[p].hist
                      /\ worker'[p].fd = worker[p].fd /\ worker'[p].pc \in {worker[p].pc, "dead"}
  BY <1>1, <1>2, <1>3
<1>5. QED
  BY <1>4 DEF Alive, InFlight

\* Every step of cancelAskTurn keeps the turns settled: the record it writes is that
\* of a turn whose worker is gone.
LEMMA CancelSettling ==
  ASSUME Inv, Locking, Settling, Cancel
  PROVE  Settling'
<1>1. CASE CancelRead \/ CancelRelease
  <2>1. UNCHANGED <<log, worker, picker>> /\ cmd'.pc \in {"c_term", "c_look", "idle"}
    <3>1. CASE CancelRead
      BY <3>1 DEF CancelRead, Inv, TypeOK, CmdState
    <3>2. CASE CancelRelease
      BY <3>2, GotoFields DEF CancelRelease, Inv
    <3>3. QED
      BY <1>1, <3>1, <3>2
  <2>2. QED
    BY <2>1, QuietSettling DEF Alive, InFlight, Kept
<1>2. CASE CancelTerm \/ CancelKill
  <2>1. UNCHANGED <<log, picker>> /\ cmd'.pc \notin {"append", "spawn", "c_append"}
    BY <1>2 DEF CancelTerm, CancelKill, Goto, Inv, TypeOK, CmdState
  <2>2. \A p \in Pids :
           /\ worker'[p].seq = worker[p].seq /\ worker'[p].hist = worker[p].hist
           /\ worker'[p].fd = worker[p].fd
           /\ Alive(p)' => Alive(p)
           /\ InFlight(p)' => InFlight(p)
    BY <1>2, SignalSettles DEF CancelTerm, CancelKill
  <2>3. QED
    BY <2>1, <2>2, QuietSettling DEF Kept
<1>3. CASE CancelLook
  <2>1. UNCHANGED <<log, worker, picker>>
    BY <1>3 DEF CancelLook
  <2>2. CASE InFlightSeq(log) = 0
    <3>1. cmd'.pc = "c_release"
      BY <1>3, <2>2 DEF CancelLook, Idle
    <3>2. QED
      BY <2>1, <3>1, QuietSettling DEF Alive, InFlight, Kept
  <2>3. CASE InFlightSeq(log) # 0
    <3>1. cmd'.pc = "c_append" /\ cmd'.seq = InFlightSeq(log)
      BY <1>3, <2>3 DEF CancelLook, Idle
    <3>2. Newest(InFlightSeq(log))
      BY <2>3, InFlightIsNewest
    <3>3. TurnsAreOpen'
      BY <2>1, <3>1, <3>2 DEF Settling, TurnsAreOpen, Newest, InFlight, Kept
    <3>4. RemovedIsEmpty' /\ LogIsAsked' /\ SettledOnce' /\ Reaped' /\ HistoryIsAnswered'
      BY <2>1 DEF Settling, RemovedIsEmpty, LogIsAsked, SettledOnce, Reaped, HistoryIsAnswered,
                  Kept, Alive
    <3>5. QED
      BY <3>3, <3>4 DEF Settling
  <2>4. QED
    BY <2>2, <2>3
<1>4. CASE CancelAppend
  <2>1. /\ cmd.pc = "c_append" /\ cmd'.pc = "c_release" /\ UNCHANGED <<worker, picker>>
        /\ log' = Append(log, Rec("aborted", cmd.seq))
    BY <1>4, GotoFields DEF CancelAppend, Inv
  <2>2. Kept /\ \A p \in Pids : ~Alive(p) /\ ~Alive(p)' /\ ~InFlight(p)'
    BY <2>1, WritersAreAlone DEF Open, Kept, Alive, InFlight
  <2>3. Newest(cmd.seq)
    BY <2>1 DEF Settling, TurnsAreOpen
  <2>4. QED
    BY <2>1, <2>2, <2>3, TurnWritten
<1>5. QED
  BY <1>1, <1>2, <1>3, <1>4 DEF Cancel

\* Every step of closeChatThread and of a later sweep keeps the turns settled: the
\* files go when nobody is left to open them again.
LEMMA CloseSettling ==
  ASSUME Inv, Locking, Settling, Close \/ Sweep
  PROVE  Settling'
<1>1. CASE CloseRead \/ CloseRemoveLock
  <2>1. /\ UNCHANGED <<log, worker, cmd>> /\ picker'.pc \in {"term", "rmlog", "gone"}
        /\ picker'.pc = "gone" => picker.pc = "rmlock"
        /\ picker.pc = "rmlock" => picker'.pc = "gone"
        /\ picker.pc \in {"read", "rmlock"}
    BY <1>1 DEF CloseRead, CloseRemoveLock, Inv, TypeOK, PickerState
  <2>2. QED
    BY <2>1, QuietSettling DEF Alive, InFlight, Kept
<1>2. CASE CloseTerm
  <2>1. UNCHANGED <<log, cmd>> /\ picker.pc = "term" /\ picker'.pc = "rmlog"
    BY <1>2 DEF CloseTerm
  <2>2. \A p \in Pids :
           /\ worker'[p].seq = worker[p].seq /\ worker'[p].hist = worker[p].hist
           /\ worker'[p].fd = worker[p].fd
           /\ Alive(p)' => Alive(p)
           /\ InFlight(p)' => InFlight(p)
    BY <1>2, SignalSettles DEF CloseTerm
  <2>3. QED
    BY <2>1, <2>2, QuietSettling DEF Kept
<1>3. CASE CloseRemoveLog \/ Sweep
  <2>1. /\ log' = <<>> /\ cmd' = cmd /\ picker.pc # "open"
        /\ picker'.pc \in {"rmlock", "gone"} /\ worker' = Unlinked(worker)
    BY <1>3 DEF CloseRemoveLog, Sweep, Inv, TypeOK, PickerState
  <2>2. ~Kept' /\ \A p \in Pids : worker'[p].fd # "linked"
    BY <2>1 DEF Kept, Unlinked, Inv, TypeOK, WorkerState
  <2>3. cmd.pc = "idle"
    BY <2>1 DEF Locking, CommandsAreShort, Open
  <2>4. \A kinds : SeqsOf(log', kinds) = {}
    BY <2>1 DEF SeqsOf
  <2>5. RemovedIsEmpty' /\ LogIsAsked' /\ TurnsAreOpen' /\ Reaped' /\ HistoryIsAnswered'
    BY <2>1, <2>2, <2>3, <2>4 DEF RemovedIsEmpty, LogIsAsked, TurnsAreOpen, Reaped, HistoryIsAnswered
  <2>6. SettledOnce'
    BY <2>1 DEF SettledOnce
  <2>7. QED
    BY <2>5, <2>6 DEF Settling
<1>4. QED
  BY <1>1, <1>2, <1>3 DEF Close

\* What a worker takes for history was answered before its own turn was asked.
LEMMA HistoryTaken ==
  ASSUME Inv, Settling, NEW s, Newest(s), NEW h \in CompletedTurns(log)
  PROVE  h < s /\ h \in SeqsOf(log, {"end"}) \ SeqsOf(log, {"aborted", "error"})
<1>1. h \in SeqsOf(log, {"end"}) /\ h \in Asked(log)
  BY DEF CompletedTurns
<1>2. h # s
  BY <1>1, SettledKinds DEF Newest
<1>3. Asked(log) \in SUBSET Nat
  BY SeqsOfType DEF Asked, Inv, TypeOK
<1>4. h < s
  BY <1>1, <1>2, <1>3 DEF Newest
<1>5. h \notin SeqsOf(log, {"aborted", "error"})
  <2>1. SUFFICES ASSUME h \in SeqsOf(log, {"aborted", "error"})
                 PROVE  FALSE
    OBVIOUS
  <2>2. PICK i \in DOMAIN log : log[i].t = "end" /\ log[i].seq = h
    BY <1>1, ByKind
  <2>3. PICK j \in DOMAIN log : log[j].t \in {"aborted", "error"} /\ log[j].seq = h
    BY <2>1, ByKind
  <2>4. i \in Nat /\ j \in Nat /\ i # j
    BY <2>2, <2>3 DEF Inv, TypeOK
  <2>5. i < j \/ j < i
    BY <2>4
  <2>6. QED
    BY <2>2, <2>3, <2>5 DEF Settling, SettledOnce
<1>6. QED
  BY <1>1, <1>4, <1>5

\* A step of one worker that writes nothing.
LEMMA WorkerQuiet ==
  ASSUME Inv, Settling, NEW p \in Pids, UNCHANGED <<log, cmd, picker>>,
         \A q \in Pids : q # p => worker'[q] = worker[q],
         worker'[p].seq = worker[p].seq, worker'[p].hist = worker[p].hist,
         Alive(p)' => Alive(p), InFlight(p)' => InFlight(p),
         worker'[p].fd = "linked" => worker[p].fd = "linked" \/ Kept
  PROVE  Settling'
<1>1. \A q \in Pids :
        /\ worker'[q].seq = worker[q].seq /\ worker'[q].hist = worker[q].hist
        /\ Alive(q)' => Alive(q)
        /\ InFlight(q)' => InFlight(q)
        /\ worker'[q].fd = "linked" => worker[q].fd = "linked" \/ Kept
  BY DEF Alive, InFlight
<1>2. QED
  BY <1>1, QuietSettling DEF Kept

\* A step of one worker that writes a record of its turn.
LEMMA WorkerWrites ==
  ASSUME Inv, Locking, Settling, NEW p \in Pids, UNCHANGED <<cmd, picker>>, InFlight(p),
         NEW t \in {"chunk", "end", "error"}, Kept, log' = Append(log, Rec(t, worker[p].seq)),
         \A q \in Pids : q # p => worker'[q] = worker[q],
         worker'[p].seq = worker[p].seq, worker'[p].hist = worker[p].hist,
         InFlight(p)' => t = "chunk"
  PROVE  Settling'
<1>1. Alive(p) /\ Newest(worker[p].seq)
  BY InFlightIsAlive DEF Settling, TurnsAreOpen
<1>2. cmd.pc \notin {"append", "spawn", "c_append"}
  BY <1>1, WritersAreAlone
<1>3. \A q \in Pids : q # p => ~Alive(q) /\ ~Alive(q)' /\ ~InFlight(q)'
  BY <1>1 DEF Locking, OneIsAlive, Alive, InFlight
<1>4. \A q \in Pids :
        /\ worker'[q].seq = worker[q].seq /\ worker'[q].hist = worker[q].hist
        /\ Alive(q)' => Alive(q) /\ worker[q].seq = worker[p].seq /\ t # "aborted"
        /\ InFlight(q)' => InFlight(q) /\ t = "chunk"
  BY <1>1, <1>3
<1>5. QED
  BY <1>1, <1>2, <1>4, TurnWritten

\* Every step of a worker keeps the turns settled.
LEMMA WorkerSettling ==
  ASSUME Inv, Locking, Settling, NEW p \in Pids, Worker(p) \/ WorkerKill(p)
  PROVE  Settling'
<1>1. worker[p] \in WorkerState /\ worker \in [Pids -> WorkerState] /\ picker \in PickerState
  BY DEF Inv, TypeOK
<1>2. UNCHANGED <<cmd, picker>>
  BY DEF Worker, WorkerBoot, WorkerDrop, WorkerOpen, WorkerAsk, WorkerLoadFails, WorkerChunk,
         WorkerEnd, WorkerError, WorkerAbort, WorkerRelease, ProviderExit, WorkerKill
<1>3. \A q \in Pids : q # p => worker'[q] = worker[q]
  BY <1>1 DEF Becomes, Worker, WorkerBoot, WorkerDrop, WorkerOpen, WorkerAsk, WorkerLoadFails, WorkerChunk,
         WorkerEnd, WorkerError, WorkerAbort, WorkerRelease, ProviderExit, WorkerKill
<1>4. CASE WorkerBoot(p)
  <2>1. log' = log /\ worker[p].pc = "boot"
    BY <1>4 DEF WorkerBoot
  <2>2. CASE worker[p].seq \in Asked(log) \ Settled(log)
    <3>1. /\ worker'[p].pc = "cfg" /\ worker'[p].seq = worker[p].seq
          /\ worker'[p].fd = worker[p].fd /\ worker'[p].hist = CompletedTurns(log)
      BY <1>1, <1>4, <2>2 DEF WorkerBoot, Becomes, WorkerState
    <3>2. TurnsAreOpen' /\ RemovedIsEmpty' /\ LogIsAsked' /\ SettledOnce' /\ Reaped'
      BY <1>2, <1>3, <2>1, <3>1 DEF Settling, TurnsAreOpen, RemovedIsEmpty, LogIsAsked,
         SettledOnce, Reaped, Kept, InFlight, Newest, Alive
    <3>3. Kept => \A h \in worker'[p].hist :
                    h < worker[p].seq /\ h \in SeqsOf(log, {"end"}) \ SeqsOf(log, {"aborted", "error"})
      BY <2>1, <3>1, HistoryTaken DEF Settling, TurnsAreOpen, InFlight
    <3>4. HistoryIsAnswered'
      BY <1>2, <1>3, <2>1, <3>1, <3>3 DEF Settling, HistoryIsAnswered, Kept
    <3>5. QED
      BY <3>2, <3>4 DEF Settling
  <2>3. CASE worker[p].seq \notin Asked(log) \ Settled(log)
    <3>1. /\ worker'[p].pc = "drop" /\ worker'[p].seq = worker[p].seq
          /\ worker'[p].fd = worker[p].fd /\ worker'[p].hist = worker[p].hist
      BY <1>1, <1>4, <2>3 DEF WorkerBoot, Becomes, WorkerState
    <3>2. QED
      BY <1>2, <1>3, <2>1, <3>1, WorkerQuiet DEF Alive, InFlight
  <2>4. QED
    BY <2>2, <2>3
<1>5. CASE WorkerDrop(p) \/ WorkerAbort(p) \/ WorkerRelease(p) \/ WorkerKill(p) \/ ProviderExit(p)
  <2>1. worker'[p] \in {Ended(worker[p], FALSE), [worker[p] EXCEPT !.prov = FALSE],
                        [Ended(worker[p], worker[p].prov) EXCEPT !.pc = "killed"]}
    BY <1>1, <1>5 DEF WorkerDrop, WorkerAbort, WorkerRelease, WorkerKill, ProviderExit, Becomes
  <2>2. /\ worker'[p].seq = worker[p].seq /\ worker'[p].hist = worker[p].hist
        /\ worker'[p].fd = worker[p].fd
        /\ worker'[p].pc \in {"dead", "killed"} \/ worker'[p].pc = worker[p].pc
    BY <1>1, <2>1 DEF WorkerState, Ended
  <2>3. log' = log
    BY <1>5 DEF WorkerDrop, WorkerAbort, WorkerRelease, WorkerKill, ProviderExit
  <2>4. QED
    BY <1>2, <1>3, <2>2, <2>3, WorkerQuiet DEF Alive, InFlight
<1>6. CASE WorkerAsk(p) \/ WorkerLoadFails(p)
  <2>1. /\ worker[p].pc = "load" /\ worker'[p].pc \in {"ask", "fin"} /\ log' = log
        /\ worker'[p].seq = worker[p].seq /\ worker'[p].hist = worker[p].hist
        /\ worker'[p].fd = worker[p].fd
    <3>1. CASE WorkerAsk(p)
      BY <1>1, <3>1 DEF WorkerAsk, Becomes, WorkerState
    <3>2. CASE WorkerLoadFails(p)
      BY <1>1, <3>2 DEF WorkerLoadFails, Becomes, WorkerState
    <3>3. QED
      BY <1>6, <3>1, <3>2
  <2>2. QED
    BY <1>2, <1>3, <2>1, WorkerQuiet DEF Alive, InFlight
<1>7. CASE WorkerOpen(p)
  <2>1. /\ worker[p].pc = "cfg"
        /\ \E pc \in {"load", "fin"} :
             /\ worker'[p] = [worker[p] EXCEPT !.pc = pc, !.fd = "linked"]
             /\ log' = IF pc = "load" THEN log ELSE Append(log, Rec("error", worker[p].seq))
    BY <1>1, <1>7 DEF WorkerOpen, Becomes
  <2>2. /\ worker'[p].pc \in {"load", "fin"} /\ worker'[p].seq = worker[p].seq
        /\ worker'[p].hist = worker[p].hist
        /\ log' = IF worker'[p].pc = "load" THEN log ELSE Append(log, Rec("error", worker[p].seq))
    BY <1>1, <2>1 DEF WorkerState
  <2>3. Kept /\ InFlight(p)
    BY <1>1, <2>1 DEF Locking, ClosingIsHeard, Kept, InFlight, PickerState
  <2>4. CASE worker'[p].pc = "load"
    BY <1>2, <1>3, <2>1, <2>2, <2>3, <2>4, WorkerQuiet DEF Alive, InFlight
  <2>5. CASE worker'[p].pc = "fin"
    BY <1>2, <1>3, <2>2, <2>3, <2>5, WorkerWrites DEF InFlight
  <2>6. QED
    BY <2>2, <2>4, <2>5
<1>8. CASE WorkerChunk(p) \/ WorkerEnd(p) \/ WorkerError(p)
  <2>1. /\ worker[p].pc = "ask" /\ worker'[p].seq = worker[p].seq
        /\ worker'[p].hist = worker[p].hist /\ worker'[p].fd = worker[p].fd
    BY <1>1, <1>8 DEF WorkerChunk, WorkerEnd, WorkerError, Becomes, WorkerState
  <2>2. PICK t \in {"chunk", "end", "error"} :
          /\ AppendBy(p, Rec(t, worker[p].seq))
          /\ worker'[p].pc = IF t = "chunk" THEN "ask" ELSE "fin"
    <3>1. CASE WorkerChunk(p)
      BY <1>1, <3>1 DEF WorkerChunk, Becomes, WorkerState
    <3>2. CASE WorkerEnd(p)
      BY <1>1, <3>2 DEF WorkerEnd, Becomes, WorkerState
    <3>3. CASE WorkerError(p)
      BY <1>1, <3>3 DEF WorkerError, Becomes, WorkerState
    <3>4. QED
      BY <1>8, <3>1, <3>2, <3>3
  <2>3. InFlight(p) /\ (InFlight(p)' => t = "chunk") /\ (Alive(p)' => Alive(p))
    BY <2>1, <2>2 DEF InFlight, Alive
  <2>4. CASE worker[p].fd = "linked"
    <3>1. Kept
      BY <1>1, <2>4 DEF Settling, RemovedIsEmpty, Kept, PickerState
    <3>2. QED
      BY <1>2, <1>3, <2>1, <2>2, <2>3, <2>4, <3>1, WorkerWrites DEF AppendBy
  <2>5. CASE worker[p].fd # "linked"
    BY <1>2, <1>3, <2>1, <2>2, <2>3, <2>5, WorkerQuiet DEF AppendBy
  <2>6. QED
    BY <2>4, <2>5
<1>9. QED
  BY <1>4, <1>5, <1>6, <1>7, <1>8 DEF Worker

\* Every step of a calm machine keeps the turns settled.
LEMMA SettlingStep ==
  ASSUME CalmFaults, Inv, Locking, Settling, [Next]_vars
  PROVE  Settling'
<1>1. CASE Key \/ Tick \/ UNCHANGED vars
  <2>1. /\ UNCHANGED <<log, worker>> /\ cmd'.pc \in {cmd.pc, "create", "c_read"} /\ cmd'.seq \in {cmd.seq, 0}
        /\ cmd'.pc = cmd.pc => cmd'.seq = cmd.seq
        /\ picker'.pc = picker.pc \/ (picker.pc = "open" /\ picker'.pc = "read")
    BY <1>1 DEF Key, KeyCtrlO, KeyEnter, KeyEsc, KeyQuit, Open, Tick, vars, Idle, Inv, TypeOK,
                CmdState, PickerState
  <2>2. QED
    BY <2>1, QuietSettling DEF Alive, InFlight, Kept
<1>2. Fault => \E p \in Pids : WorkerKill(p)
  BY DEF CalmFaults, Fault, ClockJump, SenderKill, PickerKill, ParentSignal
<1>3. QED
  BY <1>1, <1>2, SendSettling, CancelSettling, CloseSettling, WorkerSettling DEF Next, Over

\* At the start nothing was asked and nobody lives.
LEMMA InitCalm == Init => Locking /\ Settling
<1> SUFFICES ASSUME Init PROVE Locking /\ Settling
  OBVIOUS
<1>1. /\ \A p \in Pids : worker[p] = Off
      /\ cmd.pc = "idle" /\ picker.pc = "open" /\ log = <<>> /\ now = 0
  BY DEF Init, Idle
<1>2. \A p \in Pids : ~Alive(p) /\ ~InFlight(p) /\ ~worker[p].prov
                      /\ worker[p].since = 0 /\ worker[p].hist = {}
  BY <1>1 DEF Off, Alive, InFlight
<1>3. Locking
  BY <1>1, <1>2 DEF Locking, CommandsAreShort, WorkersAreKept, OneIsAlive, ClosingIsHeard,
                    ProvidersAreOwned, BrowseIsDead
<1>4. Settling
  BY <1>1, <1>2 DEF Settling, RemovedIsEmpty, LogIsAsked, TurnsAreOpen, SettledOnce, Reaped,
                    HistoryIsAnswered
<1>5. QED
  BY <1>3, <1>4

\* On a calm machine the locking and the settling hold throughout.
THEOREM CalmInvariance ==
  ASSUME CalmFaults
  PROVE  Spec => [](Inv /\ Locking /\ Settling)
<1>1. Init => Inv /\ Locking /\ Settling
  BY InitInv, InitCalm
<1>2. Inv /\ Locking /\ Settling /\ [Next]_vars => (Inv /\ Locking /\ Settling)'
  BY TypeStep, TurnsStep, LockingStep, SettlingStep DEF Inv
<1>3. QED
  BY <1>1, <1>2, PTL DEF Spec

\* The lock lets one turn at a time through, although workers die without removing
\* it and their successors take a stale one over (acquireAskLock, writeAskLockPid,
\* runAskTurn's finally): it names the worker that lives, and is younger than any
\* worker gets.
THEOREM OneTurnIsAnswered ==
  ASSUME CalmFaults
  PROVE  Spec => []OneTurnAtATime
<1>1. Locking => OneTurnAtATime
  BY InFlightIsAlive DEF Locking, OneIsAlive, OneTurnAtATime
<1>2. QED
  BY <1>1, CalmInvariance, PTL

\* No turn is settled twice, and none goes on after its record: esc and the worker's
\* own end never both write (cancelAskTurn, streamAnswer).
THEOREM TurnsSettleOnce ==
  ASSUME CalmFaults
  PROVE  Spec => []SettledOnce
<1>1. Settling => SettledOnce
  BY DEF Settling
<1>2. QED
  BY <1>1, CalmInvariance, PTL

\* The `aborted` record and browse mode are true: the worker is gone and its provider
\* with it (cancelAskTurn, exitAskActions).
THEOREM CancelsAreTrue ==
  ASSUME CalmFaults
  PROVE  Spec => []CancelIsTrue
<1>1. Locking /\ Settling => CancelIsTrue
  <2>1. Locking => BrowseIsQuiet
    BY InFlightIsAlive DEF Locking, BrowseIsDead, BrowseIsQuiet
  <2>2. Locking /\ Settling => AbortedIsReaped
    BY DEF Locking, Settling, Reaped, ProvidersAreOwned, AbortedIsReaped, InFlight, Alive
  <2>3. QED
    BY <2>1, <2>2 DEF CancelIsTrue
<1>2. QED
  BY <1>1, CalmInvariance, PTL

\* A provider is replayed answered turns only, all asked before its own
\* (foldCompletedTurns, runAskTurn).
THEOREM HistoriesAreAnswered ==
  ASSUME CalmFaults
  PROVE  Spec => []HistoryIsAnswered
<1>1. Settling => HistoryIsAnswered
  BY DEF Settling
<1>2. QED
  BY <1>1, CalmInvariance, PTL

----------------------------------------------------------------------------
(* The chat is a conversation: what the transcript tells of a calm machine *)
(* are the steps of Conversation and no others.                            *)

\* Nobody asks between a sender's read of the transcript and its question.
SeqIsNext == cmd.pc = "append" => cmd.seq = NextSeq(log)

KindsOfRecord == {"chunk", "end", "aborted", "error"}

Blank == [t \in KindsOfRecord |-> 0]

\* The latest question of a transcript, or none.
Latest(events) == \E m \in Asked(events) \union {0} : \A s \in Asked(events) : s <= m

\* What a transcript tells, turn by turn.
LEMMA StoryIs ==
  ASSUME NEW events \in Seq(Record), Latest(events)
  PROVE  /\ Story(events) \in Seq([KindsOfRecord -> Nat])
         /\ Len(Story(events)) = NextSeq(events) - 1
         /\ NextSeq(events) \in Nat \ {0}
         /\ \A s \in 1 .. NextSeq(events) - 1 :
              Story(events)[s] = [t \in KindsOfRecord |-> Tally(events, t, s)]
<1> DEFINE n == NextSeq(events) - 1
           Told(s) == [t \in KindsOfRecord |-> Tally(events, t, s)]
<1>1. NextSeq(events) \in Nat /\ NextSeq(events) > 0
  BY NextSeqIsFresh DEF Latest
<1>2. \A s : Told(s) \in [KindsOfRecord -> Nat]
  <2>1. \A t, s : Tally(events, t, s) \in Nat
    BY TallyAppend
  <2>2. QED
    BY <2>1
<1>3. Story(events) = [s \in 1 .. n |-> Told(s)]
  BY DEF Story, Tally, KindsOfRecord
<1>4. n \in Nat
  BY <1>1
<1> HIDE DEF n, Told
<1>5. Story(events) \in [1 .. n -> [KindsOfRecord -> Nat]]
  BY <1>2, <1>3
<1>6. Story(events) \in Seq([KindsOfRecord -> Nat]) /\ Len(Story(events)) = n
  BY <1>4, <1>5
<1>7. \A s \in 1 .. n : Story(events)[s] = Told(s)
  BY <1>3
<1>8. QED
  BY <1>1, <1>6, <1>7 DEF n, Told

\* A question appended is a turn opened: nobody wrote of it before.
LEMMA QuestionTold ==
  ASSUME NEW events \in Seq(Record), Latest(events),
         \A i \in DOMAIN events : events[i].seq \in Asked(events),
         NEW longer, longer = Append(events, Rec("question", NextSeq(events)))
  PROVE  /\ longer \in Seq(Record) /\ Latest(longer)
         /\ NextSeq(longer) = NextSeq(events) + 1
         /\ Story(longer) = Append(Story(events), Blank)
<1> DEFINE n == NextSeq(events)
           q == Rec("question", n)
<1>1. n \in Nat /\ n > 0 /\ (\A s \in Asked(events) : s < n) /\ Asked(events) \in SUBSET Nat
  BY NextSeqIsFresh, SeqsOfType DEF Latest, Asked
<1>2. q \in Record /\ q.t = "question" /\ q.seq = n
  BY <1>1 DEF Rec, Record
<1>3. longer = Append(events, q)
  OBVIOUS
<1>4. \A t \in KindsOfRecord : \A s : q # Rec(t, s)
  BY DEF Rec, KindsOfRecord
<1> HIDE DEF q, n
<1>5. longer \in Seq(Record) /\ Asked(longer) = Asked(events) \union {n}
  BY <1>2, <1>3, AskedAppend
<1>6. Latest(longer)
  BY <1>1, <1>5 DEF Latest
<1>7. NextSeq(longer) = n + 1
  <2>1. /\ NextSeq(longer) \in Nat /\ (\A s \in Asked(longer) : s < NextSeq(longer))
        /\ NextSeq(longer) - 1 \in Asked(longer) \union {0}
    <3>1. NextSeq(longer) = 1 + (CHOOSE m \in Asked(longer) \union {0} : \A s \in Asked(longer) : s <= m)
      BY DEF NextSeq
    <3>2. (CHOOSE m \in Asked(longer) \union {0} : \A s \in Asked(longer) : s <= m) \in Asked(longer) \union {0}
      BY <1>6 DEF Latest
    <3>3. NextSeq(longer) \in Nat /\ (\A s \in Asked(longer) : s < NextSeq(longer))
      BY <1>5, <1>6, NextSeqIsFresh DEF Latest
    <3> DEFINE m == CHOOSE m \in Asked(longer) \union {0} : \A s \in Asked(longer) : s <= m
    <3>4. NextSeq(longer) = 1 + m /\ m \in Asked(longer) \union {0}
      BY <3>1, <3>2
    <3> HIDE DEF m
    <3>5. m \in Nat
      BY <1>1, <1>5, <3>4
    <3>6. NextSeq(longer) - 1 = m
      BY <3>4, <3>5
    <3>7. QED
      BY <3>3, <3>4, <3>6
  <2> DEFINE x == NextSeq(longer)
  <2>2. x \in Nat /\ n < x /\ x - 1 \in Asked(events) \union {n, 0}
    BY <1>5, <2>1
  <2> HIDE DEF x
  <2>3. x - 1 \in Asked(events) => x - 1 < n
    BY <1>1
  <2>4. x = n + 1
    BY <1>1, <2>2, <2>3
  <2>5. QED
    BY <2>4 DEF x
<1>8. /\ Story(events) \in Seq([KindsOfRecord -> Nat]) /\ Len(Story(events)) = n - 1
      /\ \A s \in 1 .. n - 1 : Story(events)[s] = [t \in KindsOfRecord |-> Tally(events, t, s)]
  BY StoryIs DEF n
<1>9. /\ Story(longer) \in Seq([KindsOfRecord -> Nat]) /\ Len(Story(longer)) = n
      /\ \A s \in 1 .. n : Story(longer)[s] = [t \in KindsOfRecord |-> Tally(longer, t, s)]
  <2>1. NextSeq(longer) - 1 = n
    BY <1>1, <1>7
  <2>2. QED
    BY <1>5, <1>6, <2>1, StoryIs
<1>10. \A t \in KindsOfRecord : \A s : Tally(longer, t, s) = Tally(events, t, s)
  BY <1>3, <1>4, TallyAppend
<1>11. \A s \in 1 .. n - 1 : Story(longer)[s] = Story(events)[s]
  <2>1. ASSUME NEW s \in 1 .. n - 1
        PROVE  Story(longer)[s] = Story(events)[s]
    <3>1. s \in 1 .. n
      BY <1>1
    <3>2. Story(longer)[s] = [t \in KindsOfRecord |-> Tally(longer, t, s)]
      BY <1>9, <3>1
    <3>3. QED
      BY <1>8, <1>10, <3>2
  <2>2. QED
    BY <2>1
<1>12. Story(longer)[n] = Blank
  <2>1. n \notin Asked(events)
    BY <1>1
  <2>2. \A t : Tally(events, t, n) = 0
    BY <2>1, NoneWritten
  <2>3. n \in 1 .. n
    BY <1>1
  <2>4. QED
    BY <1>9, <1>10, <2>2, <2>3 DEF Blank
<1>13. Story(longer) = Append(Story(events), Blank)
  <2> DEFINE old == Story(events)
             new == Story(longer)
  <2>1. Blank \in [KindsOfRecord -> Nat]
    BY DEF Blank
  <2> HIDE DEF old, new
  <2>2. /\ Append(old, Blank) \in Seq([KindsOfRecord -> Nat]) /\ Len(Append(old, Blank)) = n
        /\ \A s \in 1 .. n - 1 : Append(old, Blank)[s] = old[s]
        /\ Append(old, Blank)[n] = Blank
    BY <1>1, <1>8, <2>1, AppendProperties DEF old
  <2>3. \A s \in 1 .. n : new[s] = Append(old, Blank)[s]
    <3>1. \A s \in 1 .. n : s = n \/ s \in 1 .. n - 1
      BY <1>1
    <3>2. QED
      BY <1>11, <1>12, <2>2, <3>1 DEF old, new
  <2>4. QED
    BY <1>9, <2>2, <2>3, SeqEqual DEF old, new
<1>14. QED
  BY <1>5, <1>6, <1>7, <1>13 DEF n

\* One record more, of kind t, of turn n.
OneMore(turns, n, t) == [turns EXCEPT ![n][t] = @ + 1]

\* Another record of the turn asked last adds to that turn.
LEMMA RecordTold ==
  ASSUME NEW events \in Seq(Record), Latest(events), NEW n, n = NextSeq(events) - 1, n > 0,
         NEW t \in KindsOfRecord,
         NEW longer, longer = Append(events, Rec(t, n))
  PROVE  /\ Len(Story(events)) = n
         /\ Story(longer) = OneMore(Story(events), n, t)
<1> DEFINE r == Rec(t, n)
           old == Story(events)
           new == Story(longer)
<1>1. n \in Nat /\ n \in 1 .. n
  BY StoryIs
<1>2. r \in Record /\ r.t = t /\ r.t # "question"
  BY <1>1 DEF Rec, Record, KindsOfRecord
<1>3. \A k, s : r = Rec(k, s) <=> k = t /\ s = n
  BY DEF Rec
<1>4. longer = Append(events, r)
  OBVIOUS
<1> HIDE DEF r
<1>5. longer \in Seq(Record) /\ Asked(longer) = Asked(events)
  BY <1>2, <1>4, AskedAppend
<1>6. Latest(longer) /\ NextSeq(longer) = NextSeq(events)
  BY <1>5 DEF Latest, NextSeq
<1>7. /\ old \in Seq([KindsOfRecord -> Nat]) /\ Len(old) = n
      /\ \A s \in 1 .. n : old[s] = [k \in KindsOfRecord |-> Tally(events, k, s)]
  BY StoryIs
<1>8. /\ new \in Seq([KindsOfRecord -> Nat]) /\ Len(new) = n
      /\ \A s \in 1 .. n : new[s] = [k \in KindsOfRecord |-> Tally(longer, k, s)]
  BY <1>5, <1>6, StoryIs
<1>9. \A k, s : Tally(longer, k, s) = IF k = t /\ s = n THEN Tally(events, k, s) + 1 ELSE Tally(events, k, s)
  BY <1>3, <1>4, TallyAppend
<1> HIDE DEF old, new
<1>10. \A s \in 1 .. n : s # n => new[s] = old[s]
  BY <1>7, <1>8, <1>9
<1>11. new[n] = [old[n] EXCEPT ![t] = old[n][t] + 1]
  <2>1. old[n] = [k \in KindsOfRecord |-> Tally(events, k, n)]
    BY <1>1, <1>7
  <2>2. new[n] = [k \in KindsOfRecord |-> Tally(longer, k, n)]
    BY <1>1, <1>8
  <2>3. new[n] = [k \in KindsOfRecord |-> IF k = t THEN Tally(events, k, n) + 1 ELSE Tally(events, k, n)]
    BY <1>9, <2>2
  <2>4. QED
    BY <2>1, <2>3
<1>12. new = [old EXCEPT ![n][t] = @ + 1]
  <2> DEFINE ex == [old EXCEPT ![n][t] = @ + 1]
  <2>1. DOMAIN old = 1 .. n /\ DOMAIN new = 1 .. n
    BY <1>7, <1>8
  <2>2. new = [s \in 1 .. n |-> new[s]]
    BY <1>8, <2>1
  <2>3. ex = [s \in 1 .. n |-> IF s = n THEN [old[n] EXCEPT ![t] = old[n][t] + 1] ELSE old[s]]
    <3>1. old = [s \in 1 .. n |-> old[s]]
      BY <1>7, <2>1
    <3> DEFINE more == [old[n] EXCEPT ![t] = old[n][t] + 1]
    <3>2. ex = [old EXCEPT ![n] = more]
      OBVIOUS
    <3> HIDE DEF more, ex
    <3>3. [old EXCEPT ![n] = more] = [s \in 1 .. n |-> IF s = n THEN more ELSE old[s]]
      BY <1>1, <2>1
    <3>4. QED
      BY <3>2, <3>3 DEF more
  <2> HIDE DEF ex
  <2>4. \A s \in 1 .. n : (IF s = n THEN [old[n] EXCEPT ![t] = old[n][t] + 1] ELSE old[s]) = new[s]
    BY <1>10, <1>11
  <2>5. ex = [s \in 1 .. n |-> new[s]]
    BY <2>3, <2>4
  <2>6. QED
    BY <2>2, <2>5 DEF ex
<1>13. QED
  BY <1>7, <1>12 DEF old, new, OneMore

\* A command that moves on from here has its seq or needs none.
LEMMA SeqStaysNext ==
  ASSUME CalmFaults, Inv, Locking, SeqIsNext, [Next]_vars
  PROVE  SeqIsNext'
<1>1. CASE Send
  <2>1. CASE SendRead
    <3>1. cmd'.seq = NextSeq(log) /\ log' = log
      BY <2>1 DEF SendRead, Inv, TypeOK, CmdState
    <3>2. QED
      BY <3>1 DEF SeqIsNext
  <2>2. CASE SendAppend \/ SendSpawn
    <3>1. cmd'.pc # "append"
      BY <2>2 DEF SendAppend, SendSpawn, Goto, Inv, TypeOK, CmdState
    <3>2. QED
      BY <3>1 DEF SeqIsNext
  <2>3. CASE ~(SendRead \/ SendAppend \/ SendSpawn)
    <3>1. cmd'.pc # "append"
      BY <1>1, <2>3, GotoFields DEF Inv, Send, AcquireCreate, AcquireWrite, AcquireCheck,
                AcquireRemove, AcquireRetry, CreateExclusive, SendSpawnFails, SendWritePid, SendRelease
    <3>2. QED
      BY <3>1 DEF SeqIsNext
  <2>4. QED
    BY <2>1, <2>2, <2>3
<1>2. CASE Cancel
  <2>1. cmd'.pc # "append"
    <3>1. CASE CancelRead \/ CancelLook
      BY <3>1 DEF CancelRead, CancelLook, Idle, Inv, TypeOK, CmdState
    <3>2. CASE CancelTerm \/ CancelKill \/ CancelAppend \/ CancelRelease
      BY <3>2 DEF CancelTerm, CancelKill, CancelAppend, CancelRelease, Goto, Return, Idle, Inv,
                  TypeOK, CmdState
    <3>3. QED
      BY <1>2, <3>1, <3>2 DEF Cancel
  <2>2. QED
    BY <2>1 DEF SeqIsNext
<1>3. CASE Key \/ Tick \/ UNCHANGED vars
  <2>1. log' = log /\ (cmd' = cmd \/ cmd'.pc # "append")
    BY <1>3 DEF Key, KeyCtrlO, KeyEnter, KeyEsc, KeyQuit, Tick, vars, Idle
  <2>2. QED
    BY <2>1 DEF SeqIsNext
<1>4. CASE Close \/ Sweep
  <2>1. cmd' = cmd /\ ~Open
    BY <1>4 DEF Close, CloseRead, CloseTerm, CloseRemoveLog, CloseRemoveLock, Sweep, Open
  <2>2. QED
    BY <2>1, WritersAreAlone DEF SeqIsNext
<1>5. ASSUME NEW p \in Pids, Worker(p) \/ WorkerKill(p)
      PROVE  SeqIsNext'
  <2>1. cmd' = cmd /\ (log' = log \/ Alive(p))
    BY <1>5 DEF Worker, WorkerBoot, WorkerDrop, WorkerOpen, WorkerAsk, WorkerLoadFails, WorkerChunk,
         WorkerEnd, WorkerError, WorkerAbort, WorkerRelease, ProviderExit, WorkerKill, Alive
  <2>2. QED
    BY <2>1, WritersAreAlone DEF SeqIsNext
<1>6. Fault => \E p \in Pids : WorkerKill(p)
  BY DEF CalmFaults, Fault, ClockJump, SenderKill, PickerKill, ParentSignal
<1>7. QED
  BY <1>1, <1>2, <1>3, <1>4, <1>5, <1>6 DEF Next, Over

\* The transcript is one a reader can count.
LEMMA LogCounts ==
  ASSUME Inv
  PROVE  log \in Seq(Record) /\ Latest(log)
BY DEF Inv, Turns, TypeOK, Latest, LatestExists

\* The turn that is going on is the one asked last, and no record ended it.
LEMMA GoesOn ==
  ASSUME Inv, Settling, Kept, NEW s, Newest(s)
  PROVE  Chat!Goes /\ s = NextSeq(log) - 1 /\ s > 0 /\ Len(Story(log)) = s
<1>1. Asked(log) \in SUBSET Nat /\ s \in Asked(log)
  BY SeqsOfType DEF Asked, Inv, TypeOK, Newest
<1>2. s = NextSeq(log) - 1
  <2> DEFINE m == CHOOSE m \in Asked(log) \union {0} : \A r \in Asked(log) : r <= m
  <2>1. m \in Asked(log) \union {0} /\ \A r \in Asked(log) : r <= m
    BY DEF Inv, Turns, LatestExists
  <2>2. NextSeq(log) = 1 + m
    BY DEF NextSeq
  <2> HIDE DEF m
  <2>3. s <= m /\ m \in Nat /\ s \in Nat
    BY <1>1, <2>1
  <2>4. m <= s
    BY <1>1, <2>1, <2>3 DEF Newest
  <2>5. m = s
    BY <2>3, <2>4
  <2>6. QED
    BY <2>2, <2>3, <2>5
<1>3. s > 0
  <2>1. PICK i \in DOMAIN log : log[i].seq = s
    BY <1>1 DEF Asked, SeqsOf
  <2>2. QED
    BY <2>1 DEF Settling, LogIsAsked
<1>4. /\ Story(log) \in Seq([KindsOfRecord -> Nat]) /\ Len(Story(log)) = s
      /\ s \in 1 .. s
      /\ Story(log)[s] = [t \in KindsOfRecord |-> Tally(log, t, s)]
  BY <1>1, <1>2, <1>3, LogCounts, StoryIs
<1>5. \A t \in {"end", "aborted", "error"} : Tally(log, t, s) = 0
  <2>1. ASSUME NEW t \in {"end", "aborted", "error"}
        PROVE  Tally(log, t, s) = 0
    <3>1. \A i \in DOMAIN log : log[i].t = t => log[i].seq # s
      BY ByKind DEF Newest, Settled
    <3>2. QED
      BY <3>1, LogCounts, NoneWritten
  <2>2. QED
    BY <2>1
<1>6. \A t \in Chat!Ends : Story(log)[Len(Story(log))][t] = 0
  BY <1>4, <1>5 DEF Chat!Ends, KindsOfRecord
<1>7. Story(log) # <<>>
  BY <1>3, <1>4
<1>8. QED
  BY <1>2, <1>3, <1>4, <1>6, <1>7 DEF Chat!Goes

\* A record of that turn is noted with it.
LEMMA TurnNoted ==
  ASSUME Inv, Settling, Kept, Kept', NEW s, Newest(s), NEW t \in KindsOfRecord,
         log' = Append(log, Rec(t, s))
  PROVE  Chat!Goes /\ Chat!Note(t)
<1>1. Chat!Goes /\ s = NextSeq(log) - 1 /\ s > 0 /\ Len(Story(log)) = s
  BY GoesOn
<1>2. Story(log') = OneMore(Story(log), s, t)
  BY <1>1, LogCounts, RecordTold
<1>3. QED
  BY <1>1, <1>2 DEF Chat!Note, OneMore

\* A question opens a turn; without a provider its error settles it at once.
LEMMA SendAppendTold ==
  ASSUME Inv, Locking, Settling, SeqIsNext, SendAppend
  PROVE  Chat!Ask \/ Chat!AskInVain
<1> DEFINE n == NextSeq(log)
           asked == Append(log, Rec("question", n))
<1>1. /\ cmd.pc = "append" /\ cmd.seq = n /\ picker' = picker
      /\ log' = asked \/ log' = Append(asked, Rec("error", n))
  BY DEF SendAppend, Goto, SeqIsNext
<1>2. Kept /\ Kept'
  BY <1>1, WritersAreAlone DEF Open, Kept
<1>3. /\ asked \in Seq(Record) /\ Latest(asked) /\ NextSeq(asked) = n + 1
      /\ Story(asked) = Append(Story(log), Blank)
  BY <1>2, LogCounts, QuestionTold DEF Settling, LogIsAsked
<1>4. n \in Nat \ {0} /\ Story(log) \in Seq([KindsOfRecord -> Nat]) /\ Len(Story(log)) = n - 1
  BY LogCounts, StoryIs
<1>5. Blank = Chat!Fresh
  BY DEF Blank, KindsOfRecord, Chat!Fresh, Chat!Kinds, Chat!Ends
<1> HIDE DEF n, asked
<1>6. CASE log' = asked
  BY <1>2, <1>3, <1>5, <1>6 DEF Chat!Ask
<1>7. CASE log' = Append(asked, Rec("error", n))
  <2>1. Story(log') = OneMore(Append(Story(log), Blank), n, "error")
    <3>1. n = NextSeq(asked) - 1 /\ n > 0
      BY <1>3, <1>4
    <3>2. "error" \in KindsOfRecord
      BY DEF KindsOfRecord
    <3>3. Story(log') = OneMore(Story(asked), n, "error")
      BY <1>3, <1>7, <3>1, <3>2, RecordTold
    <3>4. QED
      BY <1>3, <3>3
  <2> DEFINE failed == [Blank EXCEPT !["error"] = 1]
             old == Story(log)
  <2>2. Blank \in [KindsOfRecord -> Nat] /\ Blank["error"] = 0 /\ failed \in [KindsOfRecord -> Nat]
    BY DEF Blank, KindsOfRecord
  <2>3. [Blank EXCEPT !["error"] = @ + 1] = failed
    BY <2>2
  <2> HIDE DEF failed, old
  <2>4. /\ Append(old, Blank) \in Seq([KindsOfRecord -> Nat]) /\ Len(Append(old, Blank)) = n
        /\ \A s \in 1 .. n - 1 : Append(old, Blank)[s] = old[s]
        /\ Append(old, Blank)[n] = Blank
    BY <1>4, <2>2, AppendProperties DEF old
  <2>5. /\ Append(old, failed) \in Seq([KindsOfRecord -> Nat]) /\ Len(Append(old, failed)) = n
        /\ \A s \in 1 .. n - 1 : Append(old, failed)[s] = old[s]
        /\ Append(old, failed)[n] = failed
    BY <1>4, <2>2, AppendProperties DEF old
  <2> DEFINE asking == Append(old, Blank)
             failing == Append(old, failed)
  <2>6. OneMore(asking, n, "error") = failing
    <3>1. /\ asking \in Seq([KindsOfRecord -> Nat]) /\ Len(asking) = n /\ asking[n] = Blank
          /\ \A s \in 1 .. n - 1 : asking[s] = old[s]
      BY <2>4
    <3>2. /\ failing \in Seq([KindsOfRecord -> Nat]) /\ Len(failing) = n /\ failing[n] = failed
          /\ \A s \in 1 .. n - 1 : failing[s] = old[s]
      BY <2>5
    <3> HIDE DEF asking, failing
    <3>3. /\ DOMAIN asking = 1 .. n /\ asking = [s \in 1 .. n |-> asking[s]]
          /\ failing = [s \in 1 .. n |-> failing[s]]
      BY <3>1, <3>2
    <3>4. OneMore(asking, n, "error") =
            [s \in 1 .. n |-> IF s = n THEN [asking[n] EXCEPT !["error"] = @ + 1] ELSE asking[s]]
      BY <3>3 DEF OneMore
    <3>5. OneMore(asking, n, "error") = [s \in 1 .. n |-> IF s = n THEN failed ELSE asking[s]]
      BY <2>3, <3>1, <3>4
    <3>6. \A s \in 1 .. n : s # n => asking[s] = failing[s]
      BY <1>4, <3>1, <3>2
    <3>7. QED
      BY <3>2, <3>3, <3>5, <3>6
  <2>7. Story(log') = Append(Story(log), failed)
    BY <2>1, <2>6 DEF old
  <2>8. QED
    BY <1>2, <1>5, <2>7 DEF failed, Chat!AskInVain
<1>8. QED
  BY <1>1, <1>6, <1>7 DEF asked, n

\* What a chat shows stays as it is.
Untold == log' = log /\ Kept' = Kept

\* Every step of a worker tells a chunk or an end of the turn asked last, or nothing.
LEMMA WorkerTold ==
  ASSUME Inv, Locking, Settling, Answers, NEW p \in Pids, Worker(p) \/ WorkerKill(p)
  PROVE  Chat!Next \/ Untold
<1>1. worker[p] \in WorkerState /\ picker' = picker /\ picker \in PickerState
  BY DEF Inv, TypeOK, Worker, WorkerBoot, WorkerDrop, WorkerOpen, WorkerAsk, WorkerLoadFails,
         WorkerChunk, WorkerEnd, WorkerError, WorkerAbort, WorkerRelease, ProviderExit, WorkerKill
<1>2. Kept' = Kept
  BY <1>1 DEF Kept
<1>3. CASE log' = log
  BY <1>2, <1>3 DEF Untold
<1>4. CASE log' # log
  <2> DEFINE s == worker[p].seq
  <2>1. PICK t \in {"chunk", "end", "error"} :
          /\ log' = Append(log, Rec(t, s)) /\ InFlight(p)
          /\ worker[p].pc = "cfg" \/ worker[p].fd = "linked"
          /\ t = "end" => worker[p].pc = "ask" /\ worker[p].said > 0
    BY <1>4 DEF Worker, WorkerBoot, WorkerDrop, WorkerOpen, WorkerAsk, WorkerLoadFails,
         WorkerChunk, WorkerEnd, WorkerError, WorkerAbort, WorkerRelease, ProviderExit, WorkerKill,
         AppendBy, InFlight
  <2>2. Kept
    BY <1>1, <2>1 DEF Locking, ClosingIsHeard, Settling, RemovedIsEmpty, Kept, PickerState
  <2>3. Newest(s)
    BY <2>1, <2>2 DEF Settling, TurnsAreOpen
  <2>4. Chat!Goes /\ Chat!Note(t)
    BY <1>2, <2>1, <2>2, <2>3, TurnNoted DEF KindsOfRecord
  <2>5. CASE t = "chunk"
    BY <2>4, <2>5 DEF Chat!Next, Chat!Say
  <2>6. CASE t = "error"
    BY <2>4, <2>6 DEF Chat!Next, Chat!GiveUp
  <2>7. CASE t = "end"
    <3>1. worker[p].said = Tally(log, "chunk", s)
      BY <2>1, <2>2, <2>7 DEF Answers, SpokenIsWritten, CountOf, Used
    <3>2. s = NextSeq(log) - 1 /\ s > 0 /\ Len(Story(log)) = s
      BY <2>2, <2>3, GoesOn
    <3>3. s \in 1 .. NextSeq(log) - 1
      BY <1>1, <3>2 DEF WorkerState
    <3>4. Story(log)[s] = [k \in KindsOfRecord |-> Tally(log, k, s)]
      BY <3>3, LogCounts, StoryIs
    <3>5. Story(log)[Len(Story(log))]["chunk"] > 0
      BY <2>1, <2>7, <3>1, <3>2, <3>4 DEF KindsOfRecord
    <3>6. QED
      BY <2>4, <2>7, <3>5 DEF Chat!Next, Chat!Answer
  <2>8. QED
    BY <2>5, <2>6, <2>7
<1>5. QED
  BY <1>3, <1>4

\* Esc gives up the turn asked last, or tells nothing.
LEMMA CancelTold ==
  ASSUME Inv, Locking, Settling, Cancel
  PROVE  Chat!Next \/ Untold
<1>1. CASE CancelAppend
  <2>1. cmd.pc = "c_append" /\ picker' = picker /\ log' = Append(log, Rec("aborted", cmd.seq))
    BY <1>1 DEF CancelAppend, Goto
  <2>2. Kept /\ Kept' /\ Newest(cmd.seq)
    BY <2>1, WritersAreAlone DEF Open, Kept, Settling, TurnsAreOpen
  <2>3. Chat!Goes /\ Chat!Note("aborted")
    BY <2>1, <2>2, TurnNoted DEF KindsOfRecord
  <2>4. QED
    BY <2>3 DEF Chat!Next, Chat!GiveUp
<1>2. CASE ~CancelAppend
  BY <1>2 DEF Cancel, CancelRead, CancelTerm, CancelKill, CancelLook, CancelRelease, Untold, Kept
<1>3. QED
  BY <1>1, <1>2

\* Removing the transcript closes the chat; what the picker does before, and a later
\* sweep, tell nothing.
LEMMA CloseTold ==
  ASSUME Inv, Locking, Settling, Close \/ Sweep
  PROVE  Chat!Next \/ Untold
<1>1. CASE CloseRead \/ CloseTerm \/ CloseRemoveLock
  BY <1>1 DEF CloseRead, CloseTerm, CloseRemoveLock, Untold, Kept, Inv, TypeOK, PickerState
<1>2. CASE CloseRemoveLog
  <2>1. Kept /\ ~Kept' /\ log' = <<>>
    BY <1>2 DEF CloseRemoveLog, Kept, Inv, TypeOK, PickerState
  <2>2. Asked(log') = {}
    BY <2>1 DEF Asked, SeqsOf
  <2>3. log' \in Seq(Record) /\ Latest(log')
    BY <2>1, <2>2 DEF Latest
  <2>4. NextSeq(log') = 1
    BY <2>2 DEF NextSeq
  <2>5. Story(log') \in Seq([KindsOfRecord -> Nat]) /\ Len(Story(log')) = 0
    BY <2>3, <2>4, StoryIs
  <2>6. Story(log') = <<>>
    BY <2>5
  <2>7. QED
    BY <2>1, <2>6 DEF Chat!Next, Chat!Close
<1>3. CASE Sweep
  <2>1. picker.pc = "gone" /\ picker'.pc = "gone" /\ log' = <<>>
    BY <1>3 DEF Sweep, Locking, ClosingIsHeard, Inv, TypeOK, PickerState
  <2>2. log = <<>>
    BY <2>1 DEF Settling, RemovedIsEmpty
  <2>3. QED
    BY <2>1, <2>2 DEF Untold, Kept
<1>4. QED
  BY <1>1, <1>2, <1>3 DEF Close

\* Every step of a calm machine is one of a conversation, or tells nothing.
LEMMA ChatStep ==
  ASSUME CalmFaults, Inv, Locking, Settling, Answers, SeqIsNext, [Next]_vars
  PROVE  [Chat!Next]_<<Story(log), ~Kept>>
<1>1. Untold => UNCHANGED <<Story(log), ~Kept>>
  BY DEF Untold
<1>2. CASE Send
  <2>1. CASE SendAppend
    BY <2>1, SendAppendTold DEF Chat!Next
  <2>2. CASE ~SendAppend
    <3>1. Untold
      BY <1>2, <2>2 DEF Send, AcquireCreate, AcquireWrite, AcquireCheck, AcquireRemove,
         AcquireRetry, CreateExclusive, SendRead, SendSpawn, SendSpawnFails, SendWritePid,
         SendRelease, Untold, Kept
    <3>2. QED
      BY <1>1, <3>1
  <2>3. QED
    BY <2>1, <2>2
<1>3. CASE Key \/ Tick \/ UNCHANGED vars
  <2>1. Untold
    BY <1>3 DEF Key, KeyCtrlO, KeyEnter, KeyEsc, KeyQuit, Open, Tick, vars, Untold, Kept, Inv,
                TypeOK, PickerState
  <2>2. QED
    BY <1>1, <2>1
<1>4. Fault => \E p \in Pids : WorkerKill(p)
  BY DEF CalmFaults, Fault, ClockJump, SenderKill, PickerKill, ParentSignal
<1>5. CASE Cancel
  BY <1>1, <1>5, CancelTold
<1>6. CASE Close \/ Sweep
  BY <1>1, <1>6, CloseTold
<1>7. ASSUME NEW p \in Pids, Worker(p) \/ WorkerKill(p)
      PROVE  [Chat!Next]_<<Story(log), ~Kept>>
  BY <1>1, <1>7, WorkerTold
<1>8. QED
  BY <1>2, <1>3, <1>4, <1>5, <1>6, <1>7 DEF Next, Over

\* On a calm machine the picker's chat is a conversation, for any number of questions
\* and chunks: a step of any process opens the next turn, adds to the one asked last as
\* long as nothing settled it, or closes the chat for good (ask-run, ask-cancel,
\* ask-session).
THEOREM ImplementsConversation ==
  ASSUME CalmFaults
  PROVE  Spec => IsAConversation
<1> DEFINE Calm == Inv /\ Locking /\ Settling /\ Answers /\ SeqIsNext
<1>1. Init => Calm
  BY InitInv, InitCalm, InitAnswers DEF Init, Idle, SeqIsNext
<1>2. Calm /\ [Next]_vars => Calm'
  BY TypeStep, TurnsStep, LockingStep, SettlingStep, AnswersStep, SeqStaysNext DEF Inv
<1>3. Init => Chat!Init
  <2>1. SUFFICES ASSUME Init
                 PROVE  Chat!Init
    OBVIOUS
  <2>2. Inv /\ log = <<>> /\ Kept
    BY <2>1, InitInv DEF Init, Kept
  <2>3. Asked(log) = {}
    BY <2>2 DEF Asked, SeqsOf
  <2>4. NextSeq(log) = 1
    BY <2>3 DEF NextSeq
  <2>5. Story(log) \in Seq([KindsOfRecord -> Nat]) /\ Len(Story(log)) = 0
    <3>1. log \in Seq(Record) /\ Latest(log)
      BY <2>2, LogCounts
    <3>2. QED
      BY <2>4, <3>1, StoryIs
  <2>6. Story(log) = <<>>
    BY <2>5
  <2>7. QED
    BY <2>2, <2>6 DEF Chat!Init
<1>4. Calm /\ [Next]_vars => [Chat!Next]_<<Story(log), ~Kept>>
  BY ChatStep
<1> HIDE DEF Calm
<1>5. QED
  BY <1>1, <1>2, <1>3, <1>4, PTL DEF Spec, IsAConversation, Chat!Spec
============================================================================
