------------------------------ MODULE AskChat ------------------------------
(***************************************************************************)
(* The picker's chat: one append-only transcript per picker, one lock file *)
(* beside it, a key command at a time (`__ask-send` on enter,              *)
(* `__ask-cancel` on esc), a detached worker per question (`__ask-run`)    *)
(* and the picker's own close handler.                                     *)
(*                                                                         *)
(* fzf runs the key bindings as synchronous `transform` actions, so at     *)
(* most one key command runs at a time: `cmd` is that command.  The        *)
(* workers, the close handler and the machine's faults interleave with it  *)
(* at every await.  What lies between two awaits of one process is one     *)
(* action.                                                                 *)
(*                                                                         *)
(* Abstracted: the text of questions and chunks (a chunk is a record with  *)
(* its seq), the `meta` record nobody but a human reads, the repaint       *)
(* requests, the `.browseq` file, the arguments a sender hands to its      *)
(* worker, and the reuse of a pid by the kernel.                           *)
(***************************************************************************)
EXTENDS Integers, Sequences, FiniteSets

CONSTANTS
  MaxTurns,    \* bound: questions asked, and so workers spawned
  MaxChunks,   \* bound: chunks of one answer
  MaxTime,     \* bound: the wall clock
  LockStale,   \* LOCK_STALE_MS, in ticks of the clock
  AskTimeout,  \* ASK_TIMEOUT_MS, in ticks of the clock
  MaxReplay,   \* ASK_MAX_REPLAY_TURNS
  Faults       \* what the environment may do beside running the code

ASSUME BoundsAssumption ==
  /\ {MaxTurns, MaxChunks, MaxReplay} \subseteq Nat \ {0}
  /\ {MaxTime, LockStale, AskTimeout} \subseteq Nat

\* "A worker is done long before its lock counts as too old": 300s and 10min.
ASSUME TimeoutAssumption == AskTimeout <= LockStale

\* workerKill   a worker dies of a signal nobody handles (SIGKILL, OOM)
\* senderKill   a key command dies between two of its steps
\* pickerKill   the picker dies without running its close handler
\* parentSignal SIGTERM or SIGHUP closes the picker while a key command runs
\* clockJump    the wall clock moves on while the processes do not: a laptop
\*              sleeping, whose provider timers are monotonic, an NTP step
ASSUME FaultsAssumption ==
  Faults \subseteq {"workerKill", "senderKill", "pickerKill", "parentSignal", "clockJump"}

Pids == 1 .. MaxTurns   \* the pids a spawned worker can get; 0 is "not spawned yet"

VARIABLES
  now,      \* the wall clock
  lock,     \* <transcript>.lock: absent, created but still empty, or written
  log,      \* the transcript's records, in file order
  present,  \* whether the transcript file exists
  cmd,      \* the key command fzf is waiting for
  worker,   \* the detached workers, by pid
  mode,     \* fzf's input state: browsing sessions or asking
  picker    \* the `gmux pick` process: its close handler

vars == <<now, lock, log, present, cmd, worker, mode, picker>>

----------------------------------------------------------------------------
(* The transcript.                                                         *)

Record == [t : {"question", "chunk", "end", "aborted", "error"}, seq : Nat]

Rec(t, s) == [t |-> t, seq |-> s]

SeqsOf(events, kinds) ==
  {events[i].seq : i \in {j \in DOMAIN events : events[j].t \in kinds}}

Asked(events) == SeqsOf(events, {"question"})

Settled(events) == SeqsOf(events, {"end", "aborted", "error"})

MutNextSeq(events) ==  \* counts the answered turns instead of the questions
  1 + Cardinality(SeqsOf(events, {"end"}))

\* The seq the next question takes.
NextSeq(events) ==
  1 + CHOOSE m \in Asked(events) \union {0} : \A s \in Asked(events) : s <= m

\* The latest question, when no record settles it; 0 is the code's null.
InFlightSeq(events) ==
  LET latest == NextSeq(events) - 1
  IN IF latest \in Settled(events) THEN 0 ELSE latest

MutCompletedTurns(events) == Settled(events) \intersect SeqsOf(events, {"chunk"})

\* The turns replayed to the model: answered ones, the MaxReplay latest.
CompletedTurns(events) ==
  LET done == {s \in SeqsOf(events, {"end"}) :
                 s \in Asked(events) /\ s \in SeqsOf(events, {"chunk"})}
  IN {s \in done : Cardinality({r \in done : r > s}) < MaxReplay}

----------------------------------------------------------------------------
(* The lock file and the processes behind it.                              *)

NoLock == [st |-> "none", pid |-> 0, at |-> 0]
EmptyLock == [st |-> "empty", pid |-> 0, at |-> 0]
Held(p, at) == [st |-> "held", pid |-> p, at |-> at]

Alive(p) == worker[p].pc \notin {"off", "dead", "killed"}

\* A pid of 0 is a lock whose worker is not spawned yet: only age makes it stale.
IsLockStale(l, t) ==
  \/ t - l.at > LockStale
  \/ l.pid # 0 /\ ~Alive(l.pid)

\* An absent, empty or unreadable lock file reads as null: not held.
LockLive(t) == lock.st = "held" /\ ~IsLockStale(lock, t)

----------------------------------------------------------------------------
(* The workers.                                                            *)

Off == [pc |-> "off", seq |-> 0, fd |-> "none", term |-> FALSE, prov |-> FALSE,
        since |-> 0, said |-> 0, hist |-> {}]

\* fd: the worker's transcript handle: none, the current file, or one that was
\* unlinked since, whose bytes nobody will read.
WorkerState ==
  [pc : {"off", "boot", "drop", "cfg", "load", "ask", "fin", "dead", "killed"},
   seq : Nat, fd : {"none", "linked", "unlinked"}, term : BOOLEAN,
   prov : BOOLEAN, since : Nat, said : Nat, hist : SUBSET Nat]

\* One whole-line O_APPEND write through the handle a worker opened.
AppendBy(p, r) == log' = IF worker[p].fd = "linked" THEN Append(log, r) ELSE log

\* What a process that ended keeps of its state: what it did.
Ended(w, prov) == [w EXCEPT !.pc = "dead", !.term = FALSE, !.since = 0, !.prov = prov]

SparedByPid(w) == w.prov  \* process.kill(pid): the provider is orphaned

\* Whether the worker's provider survives the signal.  groupKill signals the
\* process group, which the provider is a member of.
Spared(w) == FALSE

\* SIGTERM: the worker aborts its controller when its handlers are installed
\* and dies at once otherwise.
SigTerm(w) ==
  CASE w.pc = "off" -> w
    [] w.pc \in {"load", "ask"} -> [w EXCEPT !.term = TRUE, !.prov = Spared(w)]
    [] OTHER -> Ended(w, Spared(w))

MutSigKill(w) == w  \* the grace period is not followed by a SIGKILL

SigKill(w) == Ended(w, Spared(w))

----------------------------------------------------------------------------
Idle == [pc |-> "idle", at |-> 0, seq |-> 0, pid |-> 0, argv |-> TRUE]

CmdState ==
  [pc : {"idle", "create", "write", "check", "remove", "retry", "read", "append",
         "spawn", "setpid", "release",
         "c_read", "c_term", "c_kill", "c_look", "c_append", "c_release"},
   at : Nat, seq : Nat, pid : Pids \union {0}, argv : BOOLEAN]

PickerState ==
  [pc : {"open", "read", "term", "rmlog", "rmlock", "gone", "lost"},
   pid : Pids \union {0}]

TypeOK ==
  /\ now \in Nat
  /\ lock \in [st : {"none", "empty", "held"}, pid : Pids \union {0}, at : Nat]
  /\ log \in Seq(Record)
  /\ present \in BOOLEAN
  /\ cmd \in CmdState
  /\ worker \in [Pids -> WorkerState]
  /\ mode \in {"browse", "ask"}
  /\ picker \in PickerState

Init ==
  /\ now = 0
  /\ lock = NoLock
  /\ log = <<>>
  /\ present = FALSE
  /\ cmd = Idle
  /\ worker = [p \in Pids |-> Off]
  /\ mode = "browse"
  /\ picker = [pc |-> "open", pid |-> 0]

Open == picker.pc = "open"

Goto(from, to) == cmd.pc = from /\ cmd' = [cmd EXCEPT !.pc = to]

Return(from) == cmd.pc = from /\ cmd' = Idle

----------------------------------------------------------------------------
(* The keys.  Enter on an empty query sends nothing; enter and esc in      *)
(* browse mode, and ctrl-c in both, end fzf (KeyQuit).                     *)

KeyCtrlO ==
  /\ Open /\ cmd.pc = "idle" /\ mode = "browse"
  /\ mode' = "ask"
  /\ UNCHANGED <<now, lock, log, present, cmd, worker, picker>>

\* Bound: a question more than MaxTurns, or than there are pids, is not asked.
KeyEnter ==
  /\ Open /\ cmd.pc = "idle" /\ mode = "ask"
  /\ NextSeq(log) <= MaxTurns
  /\ \E p \in Pids : worker[p].pc = "off"
  /\ cmd' = [Idle EXCEPT !.pc = "create", !.at = now]
  /\ UNCHANGED <<now, lock, log, present, worker, mode, picker>>

KeyEsc ==
  /\ Open /\ cmd.pc = "idle" /\ mode = "ask"
  /\ cmd' = [Idle EXCEPT !.pc = "c_read", !.at = now]
  /\ UNCHANGED <<now, lock, log, present, worker, mode, picker>>

KeyQuit ==
  /\ Open /\ cmd.pc = "idle"
  /\ picker' = [picker EXCEPT !.pc = "read"]
  /\ UNCHANGED <<now, lock, log, present, cmd, worker, mode>>

----------------------------------------------------------------------------
(* sendAskQuestion, acquireAskLock inlined.                                *)

\* createAskLockExclusive: the O_EXCL open, then (AcquireWrite) the content.
CreateExclusive(from, refused) ==
  /\ IF lock.st = "none"
     THEN lock' = EmptyLock /\ Goto(from, "write")
     ELSE lock' = lock /\ (IF refused = "idle" THEN Return(from) ELSE Goto(from, refused))
  /\ UNCHANGED <<now, log, present, worker, mode, picker>>

AcquireCreate == CreateExclusive("create", "check")

\* The handle outlives an unlink: the content then reaches no file.
AcquireWrite ==
  /\ Goto("write", "read")
  /\ lock' = IF lock.st = "empty" THEN Held(0, cmd.at) ELSE lock
  /\ UNCHANGED <<now, log, present, worker, mode, picker>>

\* A lock that is held and not stale: "locked", and nothing was asked.
AcquireCheck ==
  /\ IF LockLive(cmd.at) THEN Return("check") ELSE Goto("check", "remove")
  /\ UNCHANGED <<now, lock, log, present, worker, mode, picker>>

AcquireRemove ==
  /\ Goto("remove", "retry")
  /\ lock' = NoLock
  /\ UNCHANGED <<now, log, present, worker, mode, picker>>

AcquireRetry == CreateExclusive("retry", "idle")

\* readConfig, then the transcript: the seq is taken from what is read here.
SendRead ==
  /\ cmd.pc = "read"
  /\ \E argv \in BOOLEAN :
       cmd' = [cmd EXCEPT !.pc = "append", !.seq = NextSeq(log), !.argv = argv]
  /\ UNCHANGED <<now, lock, log, present, worker, mode, picker>>

\* The question, and without a provider the error that settles it: one
\* synchronous block.
SendAppend ==
  /\ Goto("append", IF cmd.argv THEN "spawn" ELSE "release")
  /\ present' = TRUE
  /\ log' = LET asked == Append(log, Rec("question", cmd.seq))
            IN IF cmd.argv THEN asked ELSE Append(asked, Rec("error", cmd.seq))
  /\ UNCHANGED <<now, lock, worker, mode, picker>>

\* The fork happens after the question is on disk.
SendSpawn ==
  /\ cmd.pc = "spawn"
  /\ \E p \in Pids :
       /\ worker[p].pc = "off"
       /\ \A q \in Pids : q < p => worker[q].pc # "off"
       /\ worker' = [worker EXCEPT ![p] = [Off EXCEPT !.pc = "boot", !.seq = cmd.seq]]
       /\ cmd' = [cmd EXCEPT !.pc = "setpid", !.pid = p]
  /\ UNCHANGED <<now, lock, log, present, mode, picker>>

MutSendSpawnFails ==  \* returns "spawn-failed" without dropping the lock
  /\ Return("spawn")
  /\ UNCHANGED <<now, lock, log, present, worker, mode, picker>>

SendSpawnFails ==
  /\ Goto("spawn", "release")
  /\ UNCHANGED <<now, lock, log, present, worker, mode, picker>>

\* writeAskLockPid: a plain write, which creates the file a worker that is done
\* already removed.
SendWritePid ==
  /\ Return("setpid")
  /\ lock' = Held(cmd.pid, cmd.at)
  /\ UNCHANGED <<now, log, present, worker, mode, picker>>

SendRelease ==
  /\ Return("release")
  /\ lock' = NoLock
  /\ UNCHANGED <<now, log, present, worker, mode, picker>>

Send ==
  \/ AcquireCreate \/ AcquireWrite \/ AcquireCheck \/ AcquireRemove \/ AcquireRetry
  \/ SendRead \/ SendAppend \/ SendSpawn \/ SendSpawnFails \/ SendWritePid \/ SendRelease

----------------------------------------------------------------------------
(* cancelAskTurn, then the esc binding's way back to browse mode.          *)

CancelRead ==
  /\ cmd.pc = "c_read"
  /\ cmd' = IF LockLive(cmd.at) /\ lock.pid # 0
            THEN [cmd EXCEPT !.pc = "c_term", !.pid = lock.pid]
            ELSE [cmd EXCEPT !.pc = "c_look"]
  /\ UNCHANGED <<now, lock, log, present, worker, mode, picker>>

\* ESRCH (the whole group is gone) skips the grace period and the SIGKILL.
CancelTerm ==
  /\ Goto("c_term", IF Alive(cmd.pid) \/ worker[cmd.pid].prov THEN "c_kill" ELSE "c_look")
  /\ worker' = [worker EXCEPT ![cmd.pid] = SigTerm(@)]
  /\ UNCHANGED <<now, lock, log, present, mode, picker>>

\* After the grace period: SIGKILL to the group of a worker that is still there.
CancelKill ==
  /\ Goto("c_kill", "c_look")
  /\ worker' = [worker EXCEPT ![cmd.pid] = IF Alive(cmd.pid) THEN SigKill(@) ELSE @]
  /\ UNCHANGED <<now, lock, log, present, mode, picker>>

CancelLook ==
  /\ cmd.pc = "c_look"
  /\ cmd' = IF InFlightSeq(log) = 0
            THEN [Idle EXCEPT !.pc = "c_release"]
            ELSE [Idle EXCEPT !.pc = "c_append", !.seq = InFlightSeq(log)]
  /\ UNCHANGED <<now, lock, log, present, worker, mode, picker>>

CancelAppend ==
  /\ Goto("c_append", "c_release")
  /\ present' = TRUE
  /\ log' = Append(log, Rec("aborted", cmd.seq))
  /\ UNCHANGED <<now, lock, worker, mode, picker>>

CancelRelease ==
  /\ Return("c_release")
  /\ lock' = NoLock
  /\ mode' = "browse"
  /\ UNCHANGED <<now, log, present, worker, picker>>

Cancel ==
  \/ CancelRead \/ CancelTerm \/ CancelKill \/ CancelLook \/ CancelAppend \/ CancelRelease

----------------------------------------------------------------------------
(* runAskTurn and streamAnswer.                                            *)

Becomes(p, w) == worker' = [worker EXCEPT ![p] = w]

\* One read of the transcript decides what to answer, whether to, and what to
\* replay.
WorkerBoot(p) ==
  /\ worker[p].pc = "boot"
  /\ Becomes(p, IF worker[p].seq \in Asked(log) \ Settled(log)
                THEN [worker[p] EXCEPT !.pc = "cfg", !.hist = CompletedTurns(log)]
                ELSE [worker[p] EXCEPT !.pc = "drop"])
  /\ UNCHANGED <<now, lock, log, present, cmd, mode, picker>>

\* "no-question": the lock goes, whoever holds it by now.
WorkerDrop(p) ==
  /\ worker[p].pc = "drop"
  /\ Becomes(p, Ended(worker[p], FALSE))
  /\ lock' = NoLock
  /\ UNCHANGED <<now, log, present, cmd, mode, picker>>

\* The transcript is opened (created, if it went) and the signal handlers are
\* installed; without a provider the error is appended in the same block.
WorkerOpen(p) ==
  /\ worker[p].pc = "cfg"
  /\ present' = TRUE
  /\ \/ /\ Becomes(p, [worker[p] EXCEPT !.pc = "load", !.fd = "linked"])
        /\ log' = log
     \/ /\ Becomes(p, [worker[p] EXCEPT !.pc = "fin", !.fd = "linked"])
        /\ log' = Append(log, Rec("error", worker[p].seq))
  /\ UNCHANGED <<now, lock, cmd, mode, picker>>

\* loadViews done, the provider is spawned.
WorkerAsk(p) ==
  /\ worker[p].pc = "load" /\ ~worker[p].term
  /\ Becomes(p, [worker[p] EXCEPT !.pc = "ask", !.prov = TRUE, !.since = now])
  /\ UNCHANGED <<now, lock, log, present, cmd, mode, picker>>

\* loadViews throws: runAskTurn's catch, which records nothing.
WorkerLoadFails(p) ==
  /\ worker[p].pc = "load" /\ ~worker[p].term
  /\ Becomes(p, [worker[p] EXCEPT !.pc = "fin"])
  /\ UNCHANGED <<now, lock, log, present, cmd, mode, picker>>

\* Bound: MaxChunks per answer.
WorkerChunk(p) ==
  /\ worker[p].pc = "ask" /\ worker[p].said < MaxChunks
  /\ Becomes(p, [worker[p] EXCEPT !.said = @ + 1])
  /\ AppendBy(p, Rec("chunk", worker[p].seq))
  /\ UNCHANGED <<now, lock, present, cmd, mode, picker>>

MutWorkerEnd(p) ==  \* takes an empty reply for an answer
  /\ worker[p].pc = "ask"
  /\ Becomes(p, [worker[p] EXCEPT !.pc = "fin", !.prov = FALSE, !.since = 0])
  /\ AppendBy(p, Rec("end", worker[p].seq))
  /\ UNCHANGED <<now, lock, present, cmd, mode, picker>>

\* The provider exits 0 with a reply that is not blank.
WorkerEnd(p) ==
  /\ worker[p].pc = "ask" /\ worker[p].said > 0
  /\ Becomes(p, [worker[p] EXCEPT !.pc = "fin", !.prov = FALSE, !.since = 0])
  /\ AppendBy(p, Rec("end", worker[p].seq))
  /\ UNCHANGED <<now, lock, present, cmd, mode, picker>>

\* It fails, replies with nothing, or runs into its timeout and is killed.
WorkerError(p) ==
  /\ worker[p].pc = "ask"
  /\ Becomes(p, [worker[p] EXCEPT !.pc = "fin", !.prov = FALSE, !.since = 0])
  /\ AppendBy(p, Rec("error", worker[p].seq))
  /\ UNCHANGED <<now, lock, present, cmd, mode, picker>>

\* The SIGTERM handler runs: the provider is killed, nothing is written, and
\* the lock is left to the canceller.
WorkerAbort(p) ==
  /\ worker[p].pc \in {"load", "ask"} /\ worker[p].term
  /\ Becomes(p, Ended(worker[p], FALSE))
  /\ UNCHANGED <<now, lock, log, present, cmd, mode, picker>>

\* The finally block: handlers off, handle closed, lock removed.
WorkerRelease(p) ==
  /\ worker[p].pc = "fin"
  /\ Becomes(p, Ended(worker[p], FALSE))
  /\ lock' = NoLock
  /\ UNCHANGED <<now, log, present, cmd, mode, picker>>

\* A provider that lost its worker to a SIGKILL comes to its own end.
ProviderExit(p) ==
  /\ worker[p].pc \in {"dead", "killed"} /\ worker[p].prov
  /\ Becomes(p, [worker[p] EXCEPT !.prov = FALSE])
  /\ UNCHANGED <<now, lock, log, present, cmd, mode, picker>>

Worker(p) ==
  \/ WorkerBoot(p) \/ WorkerDrop(p) \/ WorkerOpen(p) \/ WorkerAsk(p)
  \/ WorkerLoadFails(p) \/ WorkerChunk(p) \/ WorkerEnd(p) \/ WorkerError(p)
  \/ WorkerAbort(p) \/ WorkerRelease(p) \/ ProviderExit(p)

----------------------------------------------------------------------------
(* closeChatThread, run once when fzf ends or the picker is signalled, and *)
(* the sweep a later picker runs over the runs of dead ones.               *)

MutCloseRead ==  \* removes the files and leaves the worker running
  /\ picker.pc = "read"
  /\ picker' = [picker EXCEPT !.pc = "rmlog"]
  /\ UNCHANGED <<now, lock, log, present, cmd, worker, mode>>

CloseRead ==
  /\ picker.pc = "read"
  /\ picker' = IF LockLive(now) /\ lock.pid # 0
               THEN [pc |-> "term", pid |-> lock.pid]
               ELSE [picker EXCEPT !.pc = "rmlog"]
  /\ UNCHANGED <<now, lock, log, present, cmd, worker, mode>>

CloseTerm ==
  /\ picker.pc = "term"
  /\ worker' = [worker EXCEPT ![picker.pid] = SigTerm(@)]
  /\ picker' = [pc |-> "rmlog", pid |-> 0]
  /\ UNCHANGED <<now, lock, log, present, cmd, mode>>

\* Every open handle now writes to a file with no name.
Unlinked(ws) ==
  [p \in Pids |-> IF ws[p].fd = "linked" THEN [ws[p] EXCEPT !.fd = "unlinked"] ELSE ws[p]]

CloseRemoveLog ==
  /\ picker.pc = "rmlog"
  /\ log' = <<>> /\ present' = FALSE
  /\ worker' = Unlinked(worker)
  /\ picker' = [picker EXCEPT !.pc = "rmlock"]
  /\ UNCHANGED <<now, lock, cmd, mode>>

CloseRemoveLock ==
  /\ picker.pc = "rmlock"
  /\ lock' = NoLock
  /\ picker' = [picker EXCEPT !.pc = "gone"]
  /\ UNCHANGED <<now, log, present, cmd, worker, mode>>

Close == CloseRead \/ CloseTerm \/ CloseRemoveLog \/ CloseRemoveLock

\* sweepAskTranscripts: only the runs whose picker's pid is dead.
Sweep ==
  /\ picker.pc \in {"gone", "lost"}
  /\ present \/ lock # NoLock
  /\ log' = <<>> /\ present' = FALSE
  /\ lock' = NoLock
  /\ worker' = Unlinked(worker)
  /\ picker' = [picker EXCEPT !.pc = "gone"]
  /\ UNCHANGED <<now, cmd, mode>>

----------------------------------------------------------------------------
(* The clock and the faults.                                               *)

MutTick ==  \* a provider run without a timeout
  /\ now < MaxTime
  /\ cmd.pc = "idle" /\ Open
  /\ now' = now + 1
  /\ UNCHANGED <<lock, log, present, cmd, worker, mode, picker>>

\* A tick is minutes: commands and everything a worker does but wait for its
\* provider take no time on this scale, and the provider run has a timeout that
\* fires.  Bound: the clock stops with the picker, after which nobody reads it.
Tick ==
  /\ now < MaxTime
  /\ cmd.pc = "idle" /\ Open
  /\ \A p \in Pids : Alive(p) => worker[p].pc = "ask" /\ now < worker[p].since + AskTimeout
  /\ now' = now + 1
  /\ UNCHANGED <<lock, log, present, cmd, worker, mode, picker>>

ClockJump ==
  /\ "clockJump" \in Faults
  /\ Open
  /\ now + LockStale + 1 <= MaxTime
  /\ now' = now + LockStale + 1
  /\ UNCHANGED <<lock, log, present, cmd, worker, mode, picker>>

WorkerKill(p) ==
  /\ "workerKill" \in Faults
  /\ Alive(p)
  /\ Becomes(p, [Ended(worker[p], worker[p].prov) EXCEPT !.pc = "killed"])
  /\ UNCHANGED <<now, lock, log, present, cmd, mode, picker>>

\* The binding goes on after a command that died: esc still leaves ask mode.
SenderKill ==
  /\ "senderKill" \in Faults
  /\ cmd.pc # "idle"
  /\ cmd' = Idle
  /\ mode' = IF cmd.pc \in {"c_read", "c_term", "c_kill", "c_look", "c_append", "c_release"}
             THEN "browse" ELSE mode
  /\ UNCHANGED <<now, lock, log, present, worker, picker>>

PickerKill ==
  /\ "pickerKill" \in Faults
  /\ picker.pc \notin {"gone", "lost"}
  /\ picker' = [pc |-> IF picker.pc = "rmlock" THEN "gone" ELSE "lost", pid |-> 0]
  /\ UNCHANGED <<now, lock, log, present, cmd, worker, mode>>

ParentSignal ==
  /\ "parentSignal" \in Faults
  /\ Open /\ cmd.pc # "idle"
  /\ picker' = [picker EXCEPT !.pc = "read"]
  /\ UNCHANGED <<now, lock, log, present, cmd, worker, mode>>

Key == KeyCtrlO \/ KeyEnter \/ KeyEsc \/ KeyQuit

Fault == ClockJump \/ SenderKill \/ PickerKill \/ ParentSignal \/ \E p \in Pids : WorkerKill(p)

\* Everything is over: the picker is gone and so are its processes.
Over ==
  /\ picker.pc \in {"gone", "lost"} /\ cmd.pc = "idle"
  /\ \A p \in Pids : ~Alive(p) /\ ~worker[p].prov
  /\ UNCHANGED vars

Next ==
  \/ Key \/ Send \/ Cancel \/ Close \/ Sweep \/ Tick \/ Fault
  \/ \E p \in Pids : Worker(p)
  \/ Over

Spec == Init /\ [][Next]_vars

\* The operating system runs every process that is ready, and a provider run
\* that neither answers nor fails is ended by its timeout.  Keys, the clock, a
\* later picker's sweep and faults are under no obligation.
FairSpec ==
  /\ Spec
  /\ WF_vars(Send) /\ WF_vars(Cancel) /\ WF_vars(Close)
  /\ \A p \in Pids : WF_vars(Worker(p))

----------------------------------------------------------------------------
(* Properties that hold whatever the environment does.                     *)

\* Questions take strictly increasing seqs in file order: a seq names one
\* question, so a fold keyed by seq never mixes two (nextSeq, foldCompletedTurns).
QuestionsIncrease ==
  \A i, j \in DOMAIN log :
    i < j /\ log[i].t = "question" /\ log[j].t = "question" => log[i].seq < log[j].seq

\* As long as the transcript is not removed, two workers never answer the same
\* seq, even when a stale lock let the second one in (sendAskQuestion).
Kept == picker.pc \in {"open", "read", "term", "rmlog", "lost"}

OneWorkerPerSeq ==
  Kept => \A p, q \in Pids :
            worker[p].pc # "off" /\ worker[q].pc # "off" /\ worker[p].seq = worker[q].seq
              => p = q

\* A seq names one turn: one question, and one worker that answers it, however the
\* lock fails (nextSeq, sendAskQuestion).
SeqsNameOneTurn == QuestionsIncrease /\ OneWorkerPerSeq

ChunksOf(s) == Cardinality({i \in DOMAIN log : log[i] = Rec("chunk", s)})

\* A turn with an `end` record holds every chunk its provider produced and no
\* other, now and later: what the fold promotes to history is never a part of
\* an answer (streamAnswer, foldCompletedTurns).
AnswersAreWhole ==
  Kept => \A s \in SeqsOf(log, {"end"}) :
    \E p \in Pids : /\ worker[p].seq = s /\ worker[p].pc \in {"fin", "dead", "killed"}
                   /\ worker[p].said = ChunksOf(s) /\ worker[p].said > 0

----------------------------------------------------------------------------
(* Properties of a picker whose key commands run to their end and whose    *)
(* clock does not jump; workers may still be killed.                       *)

InFlight(p) == worker[p].pc \in {"boot", "cfg", "load", "ask"}

\* The lock lets one turn at a time through: no two workers are answering
\* (acquireAskLock, writeAskLockPid, runAskTurn's finally).
OneTurnAtATime == \A p, q \in Pids : InFlight(p) /\ InFlight(q) => p = q

\* The record that settles a turn is its last one: no second `end`, `aborted` or
\* `error`, and no late chunk of a turn that was answered or cancelled.
SettledOnce ==
  \A i, j \in DOMAIN log :
    i < j /\ log[i].t \in {"end", "aborted", "error"} => log[j].seq # log[i].seq

\* When the `aborted` record is there, the worker of that turn is gone and its
\* provider with it; only a worker someone else killed leaves a provider behind
\* (cancelAskTurn's group kill before its record).
AbortedIsReaped ==
  \A p \in Pids :
    worker[p].seq \in SeqsOf(log, {"aborted"})
      => ~InFlight(p) /\ (worker[p].prov => worker[p].pc = "killed")

\* The turns replayed to a provider were all asked before and answered: nothing
\* aborted, failed or still running becomes history (foldCompletedTurns, read
\* once at the worker's start).
HistoryIsAnswered ==
  \A p \in Pids : \A s \in worker[p].hist :
    Kept => s < worker[p].seq /\ s \in SeqsOf(log, {"end"}) \ SeqsOf(log, {"aborted", "error"})

\* Back in browse mode nothing is being answered any more: esc left no turn
\* behind that would go on writing (exitAskActions runs the cancel first).
BrowseIsQuiet ==
  mode = "browse" /\ Open => \A p \in Pids : ~InFlight(p)

\* Esc ends the turn: the record that says so, and browse mode, are true (exitAskActions,
\* cancelAskTurn).
CancelIsTrue == AbortedIsReaped /\ BrowseIsQuiet

\* What there is to see of a transcript: how many records of each kind a turn has.
Story(events) ==
  [s \in 1 .. NextSeq(events) - 1 |->
     [t \in {"chunk", "end", "aborted", "error"} |->
        Cardinality({i \in DOMAIN events : events[i] = Rec(t, s)})]]

\* The chat without lock, processes and files.
Chat == INSTANCE Conversation WITH turns <- Story(log), closed <- ~Kept

\* The chat is a conversation: a step adds to the turn asked last or opens the next one,
\* nothing is added to a turn that was settled or overtaken, and a chat that was closed
\* stays so, however keys, workers, kills and signals cross (ask-run, ask-cancel, ask-session).
IsAConversation == Chat!Spec

\* A held lock does not stay: whatever becomes of the worker, a next question is
\* let in again without anybody waiting out LOCK_STALE_MS.
NoLockout == LockLive(now) ~> ~LockLive(now)

\* Quitting the picker ends everything: no worker, no provider of a worker that
\* was there to be signalled, and no file (closeChatThread).
CloseReaps ==
  picker.pc = "gone" ~>
    [](~present /\ lock = NoLock /\ \A p \in Pids : ~Alive(p) /\ ~worker[p].prov)
=============================================================================
