----------------------------- MODULE MCSessions ----------------------------
(* Two processes over three transcripts: two of Claude Code, one of them a *)
(* subagent's, and one of Codex.                                           *)
EXTENDS Sessions

Ids   == [f \in Files |-> CASE f = "a" -> <<1>> [] f = "b" -> <<1, 2>> [] OTHER -> <<1, 3>>]
Sizes == [f \in Files |-> IF f = "b" THEN 3 ELSE 1]

Line(kind, cwd, marks) == [kind |-> kind, cwd |-> cwd, marks |-> marks]
Prompt == Line("prompt", "repo", {"dated"})
Run    == Line("reply", "tree", {"dated", "auto"})
Say    == Line("user", NoDir, {"dated"})
Matches == {Prompt, Say}

ClaudeLines ==
  {Prompt, Line("prompt", NoDir, {"meta"}), Line("lastPrompt", NoDir, {}),
   Line("machinery", "tree", {"cut"}), Line("failed", NoDir, {}),
   Line("failed", NoDir, {"meta", "sub"}), Line("reply", NoDir, {})}
CodexLines ==
  {Say, Line("context", "tree", {"auto"}), Line("agent", NoDir, {"dated"}),
   Line("started", NoDir, {}), Line("complete", NoDir, {}),
   Line("exitFailed", "repo", {}), Line("torn", NoDir, {})}

Ask(what, all, dir, limit, needle) ==
  [what |-> what, side |-> all, auto |-> all, dir |-> dir, since |-> 0,
   limit |-> limit, needle |-> needle]
Ls     == Ask("ls", FALSE, NoDir, 1, <<>>)
Grep   == Ask("grep", TRUE, NoDir, 1, <<>>)
Resume == Ask("resume", TRUE, NoDir, 0, <<1, 2>>)
Prefix == Ask("resume", TRUE, NoDir, 0, <<1>>)
Rebuild == Ask("rebuild", TRUE, NoDir, 0, <<>>)
Paint  == Ask("paint", FALSE, "repo", 1, <<>>)
Recent == [Ls EXCEPT !.since = 2, !.limit = 0]
AskAll == Ask("ask", TRUE, NoDir, 1, <<1, 2>>)
AllJobs == {AskAll, Ls, Recent, Grep, Resume, Prefix, Rebuild, Paint}

Bound(on, lines, calm, w, jobs, c) ==
  [files |-> on, lines |-> lines, calm |-> calm, writes |-> w, tears |-> FALSE,
   removals |-> 0, jobs |-> jobs, commands |-> c, kills |-> 0, questions |-> 0]
Runs ==
  {Bound({"a"}, ClaudeLines, TRUE, 5, {Ls}, 1),
   Bound({"c"}, CodexLines, TRUE, 5, {Ls}, 1),
   [Bound({"a", "c"}, {Prompt, Run}, FALSE, 2, {Ls, Recent, Rebuild}, 2) EXCEPT !.kills = 1],
   [Bound({"a"}, {Prompt}, FALSE, 3, {Ls, Paint}, 3) EXCEPT !.tears = TRUE],
   [Bound({"a", "b", "c"}, {Prompt, Run}, FALSE, 3, {Grep}, 1) EXCEPT !.removals = 1],
   [Bound({"a", "b", "c"}, {Say}, FALSE, 3, {Resume, Prefix}, 1) EXCEPT !.removals = 1],
   [Bound({"a", "b"}, {Prompt}, FALSE, 2, {Ls, Prefix}, 2) EXCEPT !.removals = 1],
   [Bound({"a", "b"}, {Prompt}, FALSE, 2, {AskAll, Paint}, 2) EXCEPT !.removals = 1, !.questions = 2]}

Twins == Permutations(Users)
=============================================================================
