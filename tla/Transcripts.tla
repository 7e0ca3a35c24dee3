----------------------------- MODULE Transcripts ---------------------------
(***************************************************************************)
(* What a session record says of a transcript.  The adapters read a file   *)
(* line by line and keep the same account of it whatever its length: the   *)
(* last few prompts in a ring, a sample of all of them, the last value of  *)
(* what changes, and where the last trouble was.                           *)
(*                                                                         *)
(* A line is what the adapter tells apart: its kind, the directory it      *)
(* carries and its marks.  A prompt is known by its ordinal, from 0.  Left *)
(* out: texts and their truncation, titles, branches (kept like cwd), tool *)
(* names and token-level cleaning of injected text.                        *)
(***************************************************************************)
EXTENDS Integers, Sequences, FiniteSets, SequencesExt

CONSTANTS ArcCap, RecentCap, EndWindow,  \* ARC_PROMPT_COUNT, RECENT_PROMPT_COUNT, END_WINDOW
          NoDir                          \* a line without a cwd

ASSUME CapsAssumption ==
  /\ ArcCap \in Nat \ {0} /\ RecentCap \in Nat \ {0} /\ EndWindow \in Nat

Kinds == {"lastPrompt", "prLink", "prompt", "machinery", "failed", "reply",      \* Claude
          "context", "user", "agent", "started", "complete", "exitFailed",       \* Codex
          "torn"}                                   \* and whatever else is skipped
Marks == {"dated", "sub", "auto", "cut", "meta"}

----------------------------------------------------------------------------
(* The ring and the sampler.                                               *)
----------------------------------------------------------------------------
RingPush(items, x) ==
  LET all == Append(items, x) IN IF Len(all) > RecentCap THEN Tail(all) ELSE all

NewSampler == [items |-> <<>>, stride |-> 1, seen |-> 0]

EveryOther(q) == [i \in 1..((Len(q) + 1) \div 2) |-> q[2 * i - 1]]

\* One that keeps the other half, and so drops the first prompt.
MutSamplerPush(s, x) ==
  LET items == IF s.seen % s.stride = 0 THEN Append(s.items, x) ELSE s.items
      full  == Len(items) > ArcCap
  IN [items  |-> IF full THEN EveryOther(Tail(items)) ELSE items,
      stride |-> IF full THEN 2 * s.stride ELSE s.stride,
      seen   |-> s.seen + 1]

\* Every stride-th item is a candidate; a buffer that is full drops every other one.
SamplerPush(s, x) ==
  LET items == IF s.seen % s.stride = 0 THEN Append(s.items, x) ELSE s.items
      full  == Len(items) > ArcCap
  IN [items  |-> IF full THEN EveryOther(items) ELSE items,
      stride |-> IF full THEN 2 * s.stride ELSE s.stride,
      seen   |-> s.seen + 1]

----------------------------------------------------------------------------
(* The account of the lines read so far.                                   *)
----------------------------------------------------------------------------
NoAccount ==
  [lines |-> 0, messages |-> 0, prompts |-> 0, recent |-> <<>>, arc |-> NewSampler,
   last |-> 0, cwd |-> NoDir, dated |-> 0, prs |-> 0, cutAt |-> -1, failedAt |-> -1,
   failure |-> 0, started |-> 0, completed |-> 0, reply |-> 0,
   side |-> FALSE, auto |-> FALSE]

\* A prompt enters the ring and the sampler.
Prompted(a) ==
  [a EXCEPT !.prompts = @ + 1, !.recent = RingPush(@, a.prompts),
            !.arc = SamplerPush(@, a.prompts)]

Dated(a, line, time) ==
  [a EXCEPT !.lines = @ + 1, !.dated = IF "dated" \in line.marks THEN time ELSE @]

InDir(a, line) == [a EXCEPT !.cwd = IF line.cwd = NoDir THEN @ ELSE line.cwd]

\* Claude Code: what every user and assistant line carries.
Message(a, line, time) ==
  LET m == InDir(Dated(a, line, time), line) IN
  [m EXCEPT !.messages = @ + 1,
            !.side = @ \/ "sub" \in line.marks, !.auto = @ \/ "auto" \in line.marks,
            !.cutAt = IF "cut" \in line.marks THEN a.messages + 1 ELSE @]

ReadClaude(a, line, time) ==
  LET m == Message(a, line, time) IN
  CASE line.kind = "lastPrompt" -> [a EXCEPT !.lines = @ + 1, !.last = a.lines + 1]
    [] line.kind = "prLink" -> [a EXCEPT !.lines = @ + 1, !.prs = 1]
    [] line.kind = "prompt" -> IF "meta" \in line.marks THEN m ELSE Prompted(m)
    [] line.kind = "failed" ->
         IF "meta" \in line.marks THEN m
         ELSE [m EXCEPT !.failedAt = m.messages, !.failure = m.lines]
    [] line.kind = "machinery" -> m
    [] line.kind = "reply" -> [m EXCEPT !.reply = m.lines]
    [] OTHER -> [a EXCEPT !.lines = @ + 1]

\* Codex: any line may carry the time, only events count as messages.
ReadCodex(a, line, time) ==
  LET d == Dated(a, line, time) IN
  CASE line.kind = "context" ->
         [InDir(d, line) EXCEPT !.auto = @ \/ "auto" \in line.marks]
    [] line.kind = "user" -> Prompted([d EXCEPT !.messages = @ + 1])
    [] line.kind = "agent" -> [d EXCEPT !.messages = @ + 1, !.reply = d.lines]
    [] line.kind = "started" -> [d EXCEPT !.started = @ + 1]
    [] line.kind = "complete" -> [d EXCEPT !.completed = @ + 1, !.reply = d.lines]
    [] line.kind = "exitFailed" -> [d EXCEPT !.failure = d.lines]
    [] line.kind = "torn" -> [a EXCEPT !.lines = @ + 1]
    [] OTHER -> d

ReadLine(codex, a, entry) ==
  IF codex THEN ReadCodex(a, entry.line, entry.at) ELSE ReadClaude(a, entry.line, entry.at)

\* Without the test of > 0, a short session that never failed was cut short.
MutNear(a, at) == a.messages - at <= EndWindow

Near(a, at) == at > 0 /\ a.messages - at <= EndWindow

EndedMidTask(codex, a) ==
  IF codex THEN a.started > a.completed ELSE Near(a, a.cutAt) \/ Near(a, a.failedAt)

\* The session record; `mtime` is the file's when it was found, `subagent` its place.
RecordOf(codex, subagent, mtime, a) ==
  [lines |-> a.lines, prompts |-> a.prompts, recent |-> a.recent, arc |-> a.arc.items,
   last |-> IF a.last > 0 THEN <<"line", a.last>>
            ELSE IF a.recent = <<>> THEN <<"none", 0>> ELSE <<"prompt", a.recent[Len(a.recent)]>>,
   cwd |-> a.cwd, updated |-> IF a.dated > 0 THEN a.dated ELSE mtime, prs |-> a.prs,
   endedMidTask |-> EndedMidTask(codex, a), failure |-> a.failure, reply |-> a.reply,
   side |-> a.side \/ subagent, auto |-> a.auto]

\* distill and buildPrompt: what a model is told of a session, the sample of its prompts
\* without those it is told at the end anyway.
Evidence(record) ==
  LET Keep(q, p) == IF p \in ToSet(record.recent) THEN q ELSE Append(q, p)
  IN FoldLeft(Keep, <<>>, record.arc) \o record.recent

Parse(codex, subagent, mtime, text) ==
  LET Step(a, e) == ReadLine(codex, a, e)
  IN RecordOf(codex, subagent, mtime, FoldLeft(Step, NoAccount, text))
=============================================================================
