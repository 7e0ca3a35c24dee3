------------------------------ MODULE Sessions -----------------------------
(***************************************************************************)
(* The session index and the commands that answer from it.  Agents append  *)
(* to their transcripts while any number of gmux processes bring the one   *)
(* index file up to date, each on its own: load the index, find and stat   *)
(* every file, parse those that changed, replace the index, answer.        *)
(*                                                                         *)
(* The clock ticks with every write to a transcript, so a file's mtime     *)
(* alone stands for its (mtime, size).  A file that is removed is not made *)
(* again (its name is a uuid), and a reader that has it open reads on.     *)
(*                                                                         *)
(* Left out: 16 files are parsed at a time (they do not meet), clocks that *)
(* go back, snippets, and how an answer is laid out.                       *)
(***************************************************************************)
EXTENDS Transcripts

CONSTANTS
  Files,           \* transcripts, Claude's and Codex's
  Codex,           \* those of Codex
  Subagents,       \* those that lie under subagents/
  IdOf,            \* session id, from the name of a file
  Size, ArgvCap,   \* bytes of a path on ripgrep's command line; MAX_ARGV_BYTES
  Matching,        \* the lines that contain what is searched for
  Users,           \* gmux processes
  NoFile, NoJob,
  Jobs,            \* what a process may be asked: what, with which filters (side, auto,
                   \* dir, since), at most how many (limit, 0 for all), which id (needle)
  Starts           \* bounds of a run, and what agents write in it

ASSUME FilesAssumption ==
  /\ Codex \subseteq Files /\ Subagents \subseteq Files \ Codex /\ NoFile \notin Files
  /\ Size \in [Files -> Nat] /\ ArgvCap \in Nat /\ IsFiniteSet(Files)

\* An id is random, whoever made it.
ASSUME IdsAssumption ==
  IdOf \in [Files -> Seq(Nat)] /\ \A f, g \in Files : IdOf[f] = IdOf[g] => f = g

\* show and resume pick among all sessions (includeSidechains, includeAutomated).
ASSUME JobsAssumption ==
  \A job \in Jobs :
    /\ {"what", "side", "auto", "dir", "since", "limit", "needle"} \subseteq DOMAIN job
    /\ job.since \in Nat /\ job.limit \in Nat
    /\ job.what = "resume" => job.side /\ job.auto /\ job.dir = NoDir /\ job.since = 0

VARIABLES
  left,     \* what is left of the bounds
  clock,    \* writes so far
  text,     \* of a file: its lines and when each was written
  torn,     \* a line at its end is half written
  mtime,    \* when it was last written, 0 before it exists
  linked,   \* the files that have not been removed
  index,    \* sessions.json: of a file, the mtime it was found with and its record
  proc      \* of a process: see Idle

files == <<clock, text, torn, mtime, linked>>
vars  == <<left, files, index, proc>>

Empty == [f \in {} |-> 0]
Idle  == [at |-> "idle", job |-> NoJob,
          cache   |-> Empty,       \* the index it loaded
          refs    |-> Empty,       \* the files it found, and their mtimes
          todo    |-> {},          \* those it has not looked at
          next    |-> Empty,       \* the index it makes
          file    |-> NoFile,      \* the one it reads, and its account of it
          account |-> NoAccount,
          batches |-> <<>>,        \* what ripgrep still has to scan
          hits    |-> {},          \* where it found it so far
          answer  |-> <<>>,        \* files, newest first
          focus   |-> NoFile,      \* the one that is asked about
          turns   |-> <<>>,        \* the questions that are replayed to the model
          asked   |-> <<>>,        \* history: which questions were answered
          began   |-> Empty]       \* history: the files there were, and their mtimes

Init ==
  /\ left \in Starts
  /\ clock = 0 /\ text = [f \in Files |-> <<>>] /\ torn = [f \in Files |-> FALSE]
  /\ mtime = [f \in Files |-> 0] /\ linked = {}
  /\ index = Empty /\ proc = [u \in Users |-> Idle]

Spend(b) == left[b] > 0 /\ left' = [left EXCEPT ![b] = @ - 1]

(***************************************************************************)
(* Agents.                                                                 *)
(***************************************************************************)
\* A calm run has its transcripts written before the first command is given.
Write(f) ==
  /\ f \in left.files /\ (mtime[f] > 0 => f \in linked)
  /\ left.calm => \A u \in Users : proc[u].at = "idle"
  /\ Spend("writes") /\ clock' = clock + 1 /\ mtime' = [mtime EXCEPT ![f] = clock + 1]
  /\ linked' = linked \cup {f}
  /\ \/ /\ left.tears /\ ~torn[f] /\ torn' = [torn EXCEPT ![f] = TRUE] /\ text' = text
     \/ /\ torn' = [torn EXCEPT ![f] = FALSE]
        /\ \E line \in left.lines :
             text' = [text EXCEPT ![f] = Append(@, [line |-> line, at |-> clock + 1])]
  /\ UNCHANGED <<index, proc>>

Vanish(f) ==
  /\ f \in linked /\ Spend("removals") /\ linked' = linked \ {f}
  /\ UNCHANGED <<clock, text, torn, mtime, index, proc>>

(***************************************************************************)
(* refreshIndex.                                                           *)
(***************************************************************************)
At(u, s)  == proc[u].at = s
Put(u, r) == proc' = [proc EXCEPT ![u] = r]

Start(u, job) ==
  /\ proc[u].at \in {"idle", "done"} /\ job \in left.jobs /\ Spend("commands")
  /\ Put(u, [Idle EXCEPT !.at = "loading", !.job = job,
                         !.began = [f \in linked |-> mtime[f]]])
  /\ UNCHANGED <<files, index>>

\* loadIndexFile; a paint answers from it at once.
Load(u) ==
  /\ At(u, "loading")
  /\ LET cached == IF proc[u].job.what = "rebuild" THEN Empty ELSE index IN
     Put(u, IF proc[u].job.what = "paint"
            THEN [proc[u] EXCEPT !.at = "answering", !.next = cached]
            ELSE [proc[u] EXCEPT !.at = "finding", !.cache = cached])
  /\ UNCHANGED <<left, files, index>>

\* discover: each adapter walks its tree and stats every file.
ClaudeFiles == linked \ Codex
CodexFiles  == linked \cap Codex

Find(u) ==
  /\ At(u, "finding")
  /\ LET found == ClaudeFiles \cup CodexFiles IN
     Put(u, [proc[u] EXCEPT !.at = "looking", !.refs = [f \in found |-> mtime[f]],
                            !.todo = found])
  /\ UNCHANGED <<left, files, index>>

With(r, f, entry) ==
  [r EXCEPT !.next = [g \in DOMAIN r.next \cup {f} |-> IF g = f THEN entry ELSE r.next[g]]]

Hit(r, f) == f \in DOMAIN r.cache /\ r.cache[f].mtime = r.refs[f]

\* A file that is gone cannot be opened, and its session is left out.
Look(u, f) ==
  /\ At(u, "looking") /\ f \in proc[u].todo
  /\ LET r == [proc[u] EXCEPT !.todo = @ \ {f}] IN
     Put(u, IF Hit(r, f) THEN With(r, f, r.cache[f])
            ELSE IF f \in linked THEN [r EXCEPT !.at = "reading", !.file = f]
            ELSE r)
  /\ UNCHANGED <<left, files, index>>

Rest(u) == proc[u].account.lines < Len(text[proc[u].file])

\* readJsonl: one line, which the agent may have written since the file was found.
Read(u) ==
  /\ At(u, "reading") /\ Rest(u)
  /\ LET r == proc[u] IN
     Put(u, [r EXCEPT !.account = ReadLine(r.file \in Codex, @,
                                           text[r.file][@.lines + 1])])
  /\ UNCHANGED <<left, files, index>>

RecordIn(f, found, a) == RecordOf(f \in Codex, f \in Subagents, found, a)

\* Keyed by what the file is when it has been read.
MutEntryOf(r) == [mtime |-> mtime[r.file],
                  record |-> RecordIn(r.file, r.refs[r.file], r.account)]

\* The entry is keyed by what the file was when it was found.
EntryOf(r) == [mtime |-> r.refs[r.file], record |-> RecordIn(r.file, r.refs[r.file], r.account)]

\* The end of the file; a half written line does not parse and is skipped.
Parsed(u) ==
  /\ At(u, "reading") /\ ~Rest(u)
  /\ LET r == proc[u] IN
     Put(u, [With(r, r.file, EntryOf(r)) EXCEPT !.at = "looking", !.file = NoFile,
                                                !.account = NoAccount])
  /\ UNCHANGED <<left, files, index>>

\* saveIndexFile: written beside and renamed over the index, whoever wrote that.
Save(u) ==
  /\ At(u, "looking") /\ proc[u].todo = {}
  /\ index' = proc[u].next
  /\ Put(u, [proc[u] EXCEPT !.at = "answering", !.cache = Empty, !.refs = Empty])
  /\ UNCHANGED <<left, files>>

(***************************************************************************)
(* Answers.                                                                *)
(***************************************************************************)
\* filterRecords, without its limit.
Admits(job, record) ==
  /\ job.side \/ ~record.side
  /\ job.auto \/ ~record.auto
  /\ job.dir = NoDir \/ record.cwd = job.dir
  /\ record.updated >= job.since

Admitted(r) == {f \in DOMAIN r.next : Admits(r.job, r.next[f].record)}

\* No two transcripts are written at the same moment.
Newest(r, S) ==
  CHOOSE q \in [1..Cardinality(S) -> S] :
    \A i, j \in DOMAIN q :
      i < j => r.next[q[i]].record.updated > r.next[q[j]].record.updated

Limited(q, limit) == IF limit > 0 /\ Len(q) > limit THEN SubSeq(q, 1, limit) ELSE q

\* A path that is too long is dropped.
MutBatchPaths(q) ==
  LET Step(b, f) ==
        IF b.bytes + Size[f] > ArgvCap
        THEN [full |-> Append(b.full, b.last), last |-> <<>>, bytes |-> 0]
        ELSE [b EXCEPT !.last = Append(@, f), !.bytes = @ + Size[f]]
      all == FoldLeft(Step, [full |-> <<>>, last |-> <<>>, bytes |-> 0], q)
  IN IF all.last = <<>> THEN all.full ELSE Append(all.full, all.last)

\* batchPaths: a path that is too long for any batch gets one of its own.
BatchPaths(q) ==
  LET Step(b, f) ==
        IF b.last # <<>> /\ b.bytes + Size[f] > ArgvCap
        THEN [full |-> Append(b.full, b.last), last |-> <<f>>, bytes |-> Size[f]]
        ELSE [b EXCEPT !.last = Append(@, f), !.bytes = @ + Size[f]]
      all == FoldLeft(Step, [full |-> <<>>, last |-> <<>>, bytes |-> 0], q)
  IN IF all.last = <<>> THEN all.full ELSE Append(all.full, all.last)

\* resolveSession: the exact id, else the only one it is a prefix of.
Resolve(needle, S) ==
  LET exact == {f \in S : IdOf[f] = needle}
      named == {f \in S : IsPrefix(needle, IdOf[f])}
  IN IF exact # {} THEN <<CHOOSE f \in exact : TRUE>>
     ELSE IF Cardinality(named) = 1 THEN <<CHOOSE f \in named : TRUE>>
     ELSE <<>>

Done(r, answer) ==
  [r EXCEPT !.at = "done", !.answer = answer, !.hits = {}, !.batches = <<>>]

List(u) ==
  /\ At(u, "answering") /\ proc[u].job.what \in {"ls", "paint"}
  /\ LET r == proc[u] IN Put(u, Done(r, Limited(Newest(r, Admitted(r)), r.job.limit)))
  /\ UNCHANGED <<left, files, index>>

\* show and resume, which hands the terminal to the agent of that session.
Name(u) ==
  /\ At(u, "answering") /\ proc[u].job.what = "resume"
  /\ LET r == proc[u] IN Put(u, Done(r, Resolve(r.job.needle, Admitted(r))))
  /\ UNCHANGED <<left, files, index>>

Rebuilt(u) ==
  /\ At(u, "answering") /\ proc[u].job.what = "rebuild" /\ Put(u, Done(proc[u], <<>>))
  /\ UNCHANGED <<left, files, index>>

\* The results are capped, not the sessions that are searched.
Search(u) ==
  /\ At(u, "answering") /\ proc[u].job.what = "grep"
  /\ LET r == proc[u] IN
     Put(u, [r EXCEPT !.at = "searching", !.batches = BatchPaths(Newest(r, Admitted(r)))])
  /\ UNCHANGED <<left, files, index>>

Mentions(f) == \E i \in DOMAIN text[f] : text[f][i].line \in Matching

\* ripgrep reads the files as they are now; one that is gone fails it, and the command.
Scan(u) ==
  /\ At(u, "searching") /\ proc[u].batches # <<>>
  /\ LET r     == proc[u]
         batch == Range(Head(r.batches))
     IN Put(u, IF batch \subseteq linked
               THEN [r EXCEPT !.batches = Tail(@), !.hits = @ \cup {f \in batch : Mentions(f)}]
               ELSE [Done(r, <<>>) EXCEPT !.at = "failed"])
  /\ UNCHANGED <<left, files, index>>

Found(u) ==
  /\ At(u, "searching") /\ proc[u].batches = <<>>
  /\ LET r == proc[u] IN Put(u, Done(r, Limited(Newest(r, r.hits), r.job.limit)))
  /\ UNCHANGED <<left, files, index>>

\* gmux ask: what it knows is loaded once.  The session the user looks at is in focus
\* only if the window has it.
FocusOf(r, window) ==
  LET named == {i \in DOMAIN window : IsPrefix(r.job.needle, IdOf[window[i]])}
  IN IF r.job.needle = <<>> \/ named = {} THEN NoFile
     ELSE window[CHOOSE i \in named : \A j \in named : i <= j]

Gather(u) ==
  /\ At(u, "answering") /\ proc[u].job.what = "ask"
  /\ LET r == proc[u]
         window == Limited(Newest(r, Admitted(r)), r.job.limit)
     IN Put(u, [r EXCEPT !.at = "asking", !.answer = window, !.focus = FocusOf(r, window)])
  /\ UNCHANGED <<left, files, index>>

\* A question whose call fails is not replayed, and does not end the conversation.
Question(u, answered) ==
  /\ At(u, "asking") /\ Spend("questions")
  /\ LET r == proc[u] IN
     Put(u, [r EXCEPT !.asked = Append(@, answered),
                      !.turns = IF answered THEN Append(@, Len(r.asked) + 1) ELSE @])
  /\ UNCHANGED <<files, index>>

\* A blank line or ctrl-d; without a provider the command fails before the first question.
Leave(u) ==
  /\ At(u, "asking")
  /\ \/ Put(u, [proc[u] EXCEPT !.at = "done"])
     \/ proc[u].asked = <<>> /\ Put(u, [proc[u] EXCEPT !.at = "failed"])
  /\ UNCHANGED <<left, files, index>>

Kill(u) ==
  /\ proc[u].at \notin {"idle", "done"} /\ Spend("kills") /\ Put(u, Idle)
  /\ UNCHANGED <<files, index>>

Step(u) ==
  \/ Load(u) \/ Find(u) \/ \E f \in Files : Look(u, f)
  \/ Read(u) \/ Parsed(u) \/ Save(u)
  \/ List(u) \/ Name(u) \/ Rebuilt(u) \/ Search(u) \/ Scan(u) \/ Found(u)
  \/ Gather(u) \/ (\E answered \in BOOLEAN : Question(u, answered)) \/ Leave(u)

Next ==
  \/ \E f \in Files : Write(f) \/ Vanish(f)
  \/ \E u \in Users : (\E job \in Jobs : Start(u, job)) \/ Step(u) \/ Kill(u)

Spec == Init /\ [][Next]_vars

(***************************************************************************)
(* Properties.                                                             *)
(***************************************************************************)

\* Every account is even: what the sampler kept is every stride-th prompt from the
\* first, between half of the cap and the cap of them once it had to drop some, however
\* long the transcript is (jsonl.ts, "never drops the FIRST item").
Even(s) ==
  LET n == Len(s.items) IN
  /\ \A i \in 1..n : s.items[i] = (i - 1) * s.stride
  /\ (n - 1) * s.stride < s.seen /\ s.seen <= n * s.stride
  /\ n <= ArcCap /\ (s.stride > 1 => 2 * n > ArcCap)

ArcIsEven == \A u \in Users : Even(proc[u].account.arc)

\* What the adapters claim to say of a prefix of a transcript, without reading in order.
Upto(f, n)    == SubSeq(text[f], 1, n)
Kind(e)       == e.line.kind
IsMessage(e)  == Kind(e) \in {"prompt", "machinery", "failed", "reply"}
Typed(f, e)   == IF f \in Codex THEN Kind(e) = "user"
                 ELSE Kind(e) = "prompt" /\ "meta" \notin e.line.marks
Placed(f, e)  == /\ IF f \in Codex THEN Kind(e) = "context" ELSE IsMessage(e)
                 /\ e.line.cwd # NoDir
Trouble(e)    == \/ "cut" \in e.line.marks
                 \/ Kind(e) = "failed" /\ "meta" \notin e.line.marks

\* A record says where the work ended: the last prompts, the last directory, and whether
\* there was trouble in the last messages (Claude) or a task is open (Codex).  What a
\* model is told of it goes from the first prompt to the last, each once and in order
\* (distill.ts, "never head-only; never the head speaking alone").
SaysTheEnd(f, a) ==
  LET OfKind(k) == {i \in 1..a.lines : Kind(text[f][i]) = k}
      messages == {i \in 1..a.lines : IsMessage(text[f][i])}
      placed   == {i \in 1..a.lines : Placed(f, text[f][i])}
      count    == Cardinality({i \in 1..a.lines : Typed(f, text[f][i])})
      record   == RecordIn(f, mtime[f], a)
      told     == Evidence(record)
  IN /\ count > 0 => told[1] = 0 /\ told[Len(told)] = count - 1
     /\ \A i, j \in DOMAIN told : i < j => told[i] < told[j]
     /\ a.arc.seen = count /\ a.prompts = count
     /\ Len(a.recent) = IF count < RecentCap THEN count ELSE RecentCap
     /\ \A i \in DOMAIN a.recent : a.recent[i] = count - Len(a.recent) + i - 1
     /\ IF placed = {} THEN a.cwd = NoDir
        ELSE \E i \in placed : a.cwd = text[f][i].line.cwd /\ \A j \in placed : j <= i
     /\ record.endedMidTask <=>
          IF f \in Codex
          THEN Cardinality(OfKind("started")) > Cardinality(OfKind("complete"))
          ELSE \E i \in messages : /\ Trouble(text[f][i])
                                   /\ Cardinality({j \in messages : j > i}) <= EndWindow

RecordsSayTheEnd == \A u \in Users : At(u, "reading") => SaysTheEnd(proc[u].file, proc[u].account)

\* An entry whose mtime is the file's is its present record, so a hit is never stale,
\* however long its transcript was read and whoever else saved meanwhile.
Present(f)     == Parse(f \in Codex, f \in Subagents, mtime[f], text[f])
IndexIsCurrent == \A f \in DOMAIN index : index[f].mtime = mtime[f] => index[f].record = Present(f)

\* What a command shows was said of a file at some moment since it began, is admitted,
\* and comes newest first; what was there before and did not change is shown, unless the
\* limit was reached by what is newer.
LenAt(f, time) == Cardinality({i \in DOMAIN text[f] : text[f][i].at <= time})
Shown(r)       == Range(r.answer)
OfItsTime(r, f) ==
  \E time \in (IF f \in DOMAIN r.began THEN r.began[f] ELSE 1)..mtime[f] :
    \E n \in LenAt(f, time)..Len(text[f]) :
      r.next[f].record = Parse(f \in Codex, f \in Subagents, time, Upto(f, n))
Rested(r) == {f \in DOMAIN r.began \cap linked : r.began[f] = mtime[f]}
Crowded(r, f) == r.job.limit > 0 /\ Len(r.answer) = r.job.limit
                 /\ \A g \in Shown(r) : r.next[g].record.updated > Present(f).updated

Answers(r) ==
  /\ \A f \in Shown(r) : Admits(r.job, r.next[f].record) /\ OfItsTime(r, f)
                         /\ (r.job.what = "grep" => Mentions(f))
  /\ \A i, j \in DOMAIN r.answer :
       i < j => r.next[r.answer[i]].record.updated > r.next[r.answer[j]].record.updated
  /\ r.job.what \in {"ls", "grep", "ask"} =>
       \A f \in Rested(r) :
         Admits(r.job, Present(f)) /\ (r.job.what = "grep" => Mentions(f)) =>
           f \in Shown(r) \/ Crowded(r, f)

\* A session that is resumed is the one that was named: by its id, or by a prefix that
\* no session has which was there all along.
Resumes(r) ==
  LET named == {f \in Rested(r) : IsPrefix(r.job.needle, IdOf[f])}
  IN /\ \A f \in Shown(r) : IsPrefix(r.job.needle, IdOf[f])
                            /\ (IdOf[f] = r.job.needle \/ named \subseteq {f})
     /\ \A f \in Rested(r) : IdOf[f] = r.job.needle => r.answer = <<f>>

\* A model is asked about one window throughout, told of the focus only if it is there,
\* and reminded of every question that was answered, in their order, and of no other.
Asks(r) ==
  LET named == {f \in Shown(r) : r.job.needle # <<>> /\ IsPrefix(r.job.needle, IdOf[f])}
  IN /\ IF named = {} THEN r.focus = NoFile ELSE r.focus \in named
     /\ ToSet(r.turns) = {i \in DOMAIN r.asked : r.asked[i]}
     /\ \A i, j \in DOMAIN r.turns : i < j => r.turns[i] < r.turns[j]

\* What ls, grep, show, resume and ask answer is right for their own time, though the
\* index they answer from is shared, replaced and pruned by others while they work.
AnswersAreOfTheirTime ==
  \A u \in Users : proc[u].at \in {"asking", "done"} /\ proc[u].job.what # "paint" =>
    /\ Answers(proc[u])
    /\ proc[u].job.what = "resume" => Resumes(proc[u])
    /\ proc[u].job.what = "ask" => Asks(proc[u])
=============================================================================
