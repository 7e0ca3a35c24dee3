------------------------------ MODULE Settings -----------------------------
(***************************************************************************)
(* What gmux remembers because a human said so: the config file, which the *)
(* wizard writes and any editor may, and the block of bindings it keeps in *)
(* one of the two tmux conf files.  Every command reads the config anew,   *)
(* and environment and installed programs decide with it which model, if   *)
(* any, is called, and whether in the background.                          *)
(*                                                                         *)
(* A config is known by the fields the parser looks at; an argv by the     *)
(* provider, the use and the version of the catalog it comes from; a tmux  *)
(* file by its lines.  Left out: quoting of free commands, the memory      *)
(* threshold and ticks (kept or lost like the policy), unwritable files.   *)
(***************************************************************************)
EXTENDS Naturals, Sequences, FiniteSets, SequencesExt

CONSTANTS
  Procs,        \* gmux processes
  Catalog,      \* the ids of the known providers, in order of preference
  NoProvider,   \* "provider": null
  Malformed,    \* a provider that does not parse
  Unset,        \* a field that is missing or of another type
  NoConfig, NoArgv, NoReport,
  Starts        \* bounds of a run, the commands given in it and its surroundings

Custom   == "custom"
Policies == {"auto", "notify", "off"}
Ids      == Range(Catalog) \cup {Custom}
Absent   == [there |-> FALSE, version |-> 0, provider |-> NoProvider, auto |-> Unset,
             policy |-> Unset]

Providers == [id : Ids, command : Nat]
Raws      == [there : {TRUE}, version : Nat, provider : Providers \cup {NoProvider, Malformed},
              auto : BOOLEAN \cup {Unset}, policy : Policies \cup {Unset}]
User      == {"line", "other", "source", "mention"}
Naming    == {"source", "mention"}
Lines     == User \cup {"start", "binding", "end", "oldStart", "old", "oldEnd"}
Block     == <<"start", "binding", "end">>
Old       == <<"oldStart", "old", "oldEnd">>

\* A tmux file as gmux and its user leave it: the user's lines, with at most one block
\* and one of the old name among them, and these whole.
Unbroken(q) ==
  \E X, Y \in {<<>>, Block, Old}, i, j \in 0..Len(q) :
    LET a == SubSeq(q, 1, i)
        b == SubSeq(q, i + Len(X) + 1, j)
        c == SubSeq(q, j + Len(Y) + 1, Len(q))
    IN /\ X = Y => X = <<>>
       /\ {a, b, c} \subseteq Seq(User) /\ q = a \o X \o b \o Y \o c

ASSUME CatalogAssumption ==
  Catalog \in Seq(STRING) /\ Len(Catalog) > 0 /\ Custom \notin Range(Catalog)

ASSUME NothingAssumption ==
  /\ Malformed \notin Providers /\ Malformed # NoProvider
  /\ Unset \notin BOOLEAN /\ Unset \notin Policies /\ NoConfig \notin Raws
  /\ NoArgv \notin Ids \X {"summary", "ask", "any", "env"} \X Nat

ASSUME StartsAssumption ==
  Starts \subseteq
    [answers : SUBSET Ids, policies : SUBSET Policies, raws : SUBSET Raws,
     override : BOOLEAN, auto : BOOLEAN, child : BOOLEAN, programs : SUBSET Ids,
     conf : Seq(Lines), local : Seq(Lines), calm : BOOLEAN, bindings : BOOLEAN,
     given : SUBSET {"other", "hidden", "setup", "doctor", "bind", "unbind"},
     commands : Nat, edits : Nat, tmuxEdits : Nat, upgrades : Nat, kills : Nat]

\* `calm`: the commands follow one another, none is killed, and the tmux files are whole.
ASSUME CalmAssumption ==
  \A s \in Starts : s.calm => s.kills = 0 /\ Unbroken(s.conf) /\ Unbroken(s.local)

VARIABLES
  left,        \* what is left of the bounds, and what does not change
  file,        \* config.json
  choice,      \* history: what a human said last, see Said
  catalog,     \* version of the catalog: gmux is upgraded under its config
  installed,   \* the providers on PATH
  conf, local, \* ~/.tmux.conf and ~/.tmux.conf.local
  lines,       \* history: the user's own lines in both, and whether a block was put
               \* there or removed since
  proc         \* of a process: see Idle

config == <<file, choice, catalog, installed>>
tmux   == <<conf, local, lines>>
vars   == <<left, config, tmux, proc>>

Idle == [at |-> "idle", command |-> "none", tty |-> FALSE, answer |-> Absent,
         then |-> "done",         \* where it goes on after the wizard
         installs |-> FALSE,      \* the tmux file it rewrites, and how
         target |-> "conf", round |-> 1, text |-> <<>>,
         still |-> TRUE,          \* history: nothing changed under it since its start
         report |-> NoReport]

\* The user's lines of a tmux file.  One may source the other file, and one may name it
\* without doing so: a source line commented out.
Only(q, S) == LET Take(kept, t) == IF t \in S THEN Append(kept, t) ELSE kept
              IN FoldLeft(Take, <<>>, q)
Own(q)     == Only(q, User)

Nobody == [by |-> "nobody", provider |-> NoProvider, auto |-> TRUE, policy |-> "auto"]
Said(c) == [by |-> "human", provider |-> c.provider, auto |-> c.auto,
            policy |-> IF c.policy = Unset THEN "auto" ELSE c.policy]

Init ==
  /\ left \in Starts
  /\ file = Absent /\ choice = Nobody /\ catalog = 1 /\ installed = left.programs
  /\ conf = left.conf /\ local = left.local
  /\ lines = [conf |-> Own(left.conf), local |-> Own(left.local), bound |-> "never"]
  /\ proc = [p \in Procs |-> Idle]

(***************************************************************************)
(* config.ts and providers.ts: pure.                                       *)
(***************************************************************************)

\* parseConfig: what cannot be trusted is no config.  A null provider is an answer, a
\* malformed one is corruption.
Parsed(raw) ==
  IF raw.there /\ raw.version <= 1 /\ raw.auto # Unset /\ raw.provider # Malformed
  THEN raw ELSE NoConfig

\* resolveGmuxConfig: the policy the guardian of the daemon works under.
Policy(c) == IF c = NoConfig THEN "auto" ELSE IF c.policy = Unset THEN "auto" ELSE c.policy

\* As it was called when it was chosen.
MutArgvFor(provider, use) ==
  IF provider.id \in Range(Catalog) THEN <<provider.id, use, provider.command>>
  ELSE <<Custom, "any", provider.command>>

\* summaryArgvFor and askArgvFor: a known provider is called as the catalog says now.
ArgvFor(provider, use) ==
  IF provider.id \in Range(Catalog) THEN <<provider.id, use, catalog>>
  ELSE <<Custom, "any", provider.command>>

\* detectProviders: the i-th provider is the first one that is installed.
Detected(i) == Catalog[i] \in installed /\ \A j \in 1..(i - 1) : Catalog[j] \notin installed

\* resolveSummaryCommand and resolveAskCommand.  The fallback is how the first is called.
Argv(c, use) ==
  IF left.override THEN <<Custom, "env", 0>>
  ELSE IF c # NoConfig
  THEN IF c.provider = NoProvider THEN NoArgv ELSE ArgvFor(c.provider, use)
  ELSE IF \E i \in DOMAIN Catalog : Detected(i)
  THEN <<Catalog[CHOOSE i \in DOMAIN Catalog : Detected(i)], use, catalog>>
  ELSE <<Catalog[1], "summary", catalog>>

OnPath(argv) == argv # NoArgv /\ argv[1] \in installed

\* autoSummarizeAllowedNow: three independent noes.
Allowed(c) == left.auto /\ ~left.child /\ (c # NoConfig => c.auto)

(***************************************************************************)
(* The world.                                                              *)
(***************************************************************************)
Spend(b) == left[b] > 0 /\ left' = [left EXCEPT ![b] = @ - 1]
Stirred  == [p \in Procs |-> [proc[p] EXCEPT !.still = FALSE]]
Quiet    == \A p \in Procs : proc[p].at \in {"idle", "done"}

\* An editor, a sync or a newer gmux leaves another config, or none.
EditConfig ==
  /\ Spend("edits")
  /\ \E raw \in left.raws \cup {Absent} :
       /\ file' = raw /\ raw # file
       /\ choice' = IF Parsed(raw) = NoConfig THEN Nobody ELSE Said(raw)
  /\ proc' = Stirred
  /\ UNCHANGED <<catalog, installed, tmux>>

Upgrade ==
  /\ Spend("upgrades") /\ catalog' = catalog + 1 /\ proc' = Stirred
  /\ UNCHANGED <<file, choice, installed, tmux>>

InstallProgram ==
  /\ Spend("upgrades")
  /\ \E id \in Ids : installed' = IF id \in installed THEN installed \ {id}
                                  ELSE installed \cup {id}
  /\ proc' = Stirred
  /\ UNCHANGED <<file, choice, catalog, tmux>>

(***************************************************************************)
(* tmux.ts: pure.                                                          *)
(***************************************************************************)
IndexAfter(q, t, n) == LET after == {i \in n..Len(q) : q[i] = t}
                       IN IF after = {} THEN 0 ELSE CHOOSE i \in after : \A j \in after : i <= j

\* blockRegion, removeMarkedBlock: the first start with the first end after it.
Region(q, start, end) ==
  LET i == IndexAfter(q, start, 1) IN <<i, IF i = 0 THEN 0 ELSE IndexAfter(q, end, i)>>
RemoveMarked(q, start, end) ==
  LET r == Region(q, start, end)
  IN IF r[2] = 0 THEN q ELSE SubSeq(q, 1, r[1] - 1) \o SubSeq(q, r[2] + 1, Len(q))
\* Only our own block.
MutStrip(q) == RemoveMarked(q, "start", "end")

Strip(q) == RemoveMarked(RemoveMarked(q, "start", "end"), "oldStart", "oldEnd")

Upsert(q) ==
  LET r == Region(q, "start", "end")
  IN IF r[2] = 0 THEN q \o Block
     ELSE SubSeq(q, 1, r[1] - 1) \o Block \o SubSeq(q, r[2] + 1, Len(q))

TmuxFile(t) == IF t = "conf" THEN conf ELSE local
OtherOf(t)  == IF t = "conf" THEN "local" ELSE "conf"

\* sourcesTmuxConfLocal, resolveTmuxConfPath: a regular expression, for which any line
\* that names the other file sources it.
Target == IF Naming \cap Range(conf) # {} THEN "local" ELSE "conf"

\* What tmux reads at its start.
Loaded(t) == t = "conf" \/ "source" \in Range(conf)

Settled     == /\ "start" \in Range(TmuxFile(Target))
               /\ "oldStart" \notin Range(conf) \cup Range(local)

PutFile(t, q) == /\ conf'  = IF t = "conf" THEN q ELSE conf
                 /\ local' = IF t = "local" THEN q ELSE local

\* The user edits a file while nothing rewrites it: a line of their own, or whether
\* the one sources the other, or names it.
EditTmux ==
  /\ Spend("tmuxEdits") /\ Quiet
  /\ \/ \E t \in {"conf", "local"} :
          /\ PutFile(t, <<"other">> \o TmuxFile(t) \o <<"line">>)
          /\ lines' = [lines EXCEPT ![t] = <<"other">> \o @ \o <<"line">>]
     \/ \E t \in Naming :
        LET Toggled(q) == IF t \in Range(q) THEN Only(q, Lines \ {t}) ELSE Append(q, t) IN
        /\ PutFile("conf", Toggled(conf))
        /\ lines' = [lines EXCEPT !.conf = Toggled(@),
                                  !.bound = IF @ = "yes" THEN "moved" ELSE @]
  /\ UNCHANGED <<config, proc>>

(***************************************************************************)
(* A command, from its start to what it does of its own.  The background   *)
(* pass every command ends with is AutoSummarize's.                        *)
(***************************************************************************)
At(p, s)  == proc[p].at = s
Put(p, r) == proc' = [proc EXCEPT ![p] = r]
Go(p, s)  == Put(p, [proc[p] EXCEPT !.at = s])

Rewriting(r, installs, target, then) ==
  [r EXCEPT !.at = "reading", !.installs = installs, !.target = target, !.round = 1,
            !.then = then]

Run(p, command, tty) ==
  /\ proc[p].at \in {"idle", "done"} /\ Spend("commands") /\ (left.calm => Quiet)
  /\ Put(p, [Idle EXCEPT !.at = "starting", !.command = command, !.tty = tty])
  /\ UNCHANGED <<config, tmux>>

\* shouldRunSetupWizard.  No terminal: none there, or --json.
Gate(p) == ~file.there /\ proc[p].tty /\ proc[p].command \notin {"hidden", "setup"}

PreAction(p) ==
  /\ At(p, "starting")
  /\ Put(p, IF Gate(p) THEN [proc[p] EXCEPT !.at = "asking", !.then = "acting"]
            ELSE [proc[p] EXCEPT !.at = "acting"])
  /\ UNCHANGED <<left, config, tmux>>

Act(p) ==
  /\ At(p, "acting")
  /\ CASE proc[p].command = "setup"  -> Go(p, IF proc[p].tty THEN "asking" ELSE "done")
       [] proc[p].command = "doctor" -> Go(p, "examining")
       [] proc[p].command = "bind"   -> Put(p, Rewriting(proc[p], TRUE, Target, "done"))
       [] proc[p].command = "unbind" -> Put(p, Rewriting(proc[p], FALSE, "conf", "done"))
       [] OTHER -> Go(p, "done")
  /\ UNCHANGED <<left, config, tmux>>

(***************************************************************************)
(* The wizard.                                                             *)
(***************************************************************************)
\* buildOptions: a provider, a command of one's own, or nothing, which is asked no more.
Options(policy) ==
  LET Config(provider, auto) == [there |-> TRUE, version |-> 1, provider |-> provider,
                                 auto |-> auto, policy |-> policy]
  IN {Config(NoProvider, FALSE)} \cup
     {Config([id |-> id, command |-> catalog], auto) : id \in left.answers, auto \in BOOLEAN}

\* What there was is shown, and not kept.
Answer(p) ==
  /\ At(p, "asking")
  /\ \E policy \in left.policies : \E answer \in Options(policy) :
       Put(p, [proc[p] EXCEPT !.at = "saving", !.answer = answer])
  /\ UNCHANGED <<left, config, tmux>>

\* writeConfig: written beside and renamed, so a wizard that is killed left nothing.
SaveConfig(p) ==
  /\ At(p, "saving") /\ file' = proc[p].answer /\ choice' = Said(proc[p].answer)
  /\ proc' = [Stirred EXCEPT ![p].at = "offering"]
  /\ UNCHANGED <<left, catalog, installed, tmux>>

\* maybeInstallTmuxBindings.
Offer(p) ==
  /\ At(p, "offering")
  /\ \/ Go(p, proc[p].then)
     \/ /\ left.bindings /\ ~Settled
        /\ Put(p, Rewriting(proc[p], TRUE, Target, proc[p].then))
  /\ UNCHANGED <<left, config, tmux>>

(***************************************************************************)
(* installTmuxBindings, the target first, and uninstallTmuxBindings.       *)
(***************************************************************************)
Onward(r) == IF r.round = 1 THEN [r EXCEPT !.at = "reading", !.round = 2, !.target = OtherOf(@),
                                          !.text = <<>>]
            ELSE [r EXCEPT !.at = r.then, !.text = <<>>]

Finished(r) == lines' = IF r.round = 1 THEN lines
                        ELSE [lines EXCEPT !.bound = IF r.installs THEN "yes" ELSE "no"]

Rewritten(r) == LET q == Strip(TmuxFile(r.target))
                IN IF r.installs /\ r.round = 1 THEN Upsert(q) ELSE q

ReadTmux(p) ==
  /\ At(p, "reading")
  /\ LET r == proc[p] IN
     IF Rewritten(r) = TmuxFile(r.target)
     THEN Put(p, Onward(r)) /\ Finished(r)
     ELSE /\ Put(p, [r EXCEPT !.at = "truncating", !.text = Rewritten(r)]) /\ lines' = lines
  /\ UNCHANGED <<left, config, conf, local>>

\* writeFile, in place: the file is empty before it is whole.
TruncateTmux(p) ==
  /\ At(p, "truncating") /\ PutFile(proc[p].target, <<>>) /\ Go(p, "writing")
  /\ UNCHANGED <<left, config, lines>>

WriteTmux(p) ==
  /\ At(p, "writing") /\ PutFile(proc[p].target, proc[p].text)
  /\ Put(p, Onward(proc[p])) /\ Finished(proc[p])
  /\ UNCHANGED <<left, config>>

(***************************************************************************)
(* doctor reads the config three times.                                    *)
(***************************************************************************)
Examine(p) ==
  /\ At(p, "examining") /\ Put(p, [proc[p] EXCEPT !.at = "checking", !.answer = file])
  /\ UNCHANGED <<left, config, tmux>>

\* Without the child guard.
MutBecause(c) == CASE ~left.auto -> "env"
                   [] left.auto /\ c # NoConfig /\ ~c.auto -> "config"
                   [] OTHER -> "on"

Because(c) == CASE ~left.auto -> "env"
                [] left.auto /\ c # NoConfig /\ ~c.auto -> "config"
                [] left.auto /\ (c # NoConfig => c.auto) /\ left.child -> "nested"
                [] OTHER -> "on"

Report(p) ==
  /\ At(p, "checking")
  /\ LET c  == Parsed(proc[p].answer)
         ok == OnPath(Argv(Parsed(file), "summary"))
     IN Put(p, [proc[p] EXCEPT !.at = "done", !.answer = Absent, !.report =
          [config   |-> IF ~file.there THEN "none" ELSE IF c = NoConfig THEN "unreadable" ELSE "ok",
           provider |-> ok,
           auto     |-> IF Because(c) = "on" /\ ~ok THEN "idle" ELSE Because(c)]])
  /\ UNCHANGED <<left, config, tmux>>

\* Not taken: a kill while a tmux file is empty, after which it stays so.
Kill(p) ==
  /\ proc[p].at \notin {"idle", "done", "truncating", "writing"}
  /\ Spend("kills") /\ Put(p, Idle)
  /\ UNCHANGED <<config, tmux>>

Step(p) ==
  \/ PreAction(p) \/ Act(p) \/ Answer(p) \/ SaveConfig(p) \/ Offer(p)
  \/ ReadTmux(p) \/ TruncateTmux(p) \/ WriteTmux(p) \/ Examine(p) \/ Report(p)

Next ==
  \/ EditConfig \/ Upgrade \/ InstallProgram \/ EditTmux
  \/ \E p \in Procs :
       \/ \E command \in left.given, tty \in BOOLEAN : Run(p, command, tty)
       \/ Step(p) \/ Kill(p)

Spec == Init /\ [][Next]_vars

(***************************************************************************)
(* Properties.                                                             *)
(***************************************************************************)

\* The config holds what a human said last, whoever saved beside them, was killed at it,
\* or upgraded gmux since: no model is called after a no, the chosen one is called the
\* way it is called today, and nothing but a no silences gmux.
ChoiceHolds ==
  LET c == Parsed(file) IN
  /\ ~left.override =>
       \A use \in {"summary", "ask"} :
         /\ (choice.by = "human" /\ choice.provider = NoProvider) <=> Argv(c, use) = NoArgv
         /\ choice.by = "human" /\ choice.provider # NoProvider =>
              Argv(c, use) = IF choice.provider.id = Custom
                             THEN <<Custom, "any", choice.provider.command>>
                             ELSE <<choice.provider.id, use, catalog>>
  /\ Allowed(c) => choice.auto
  /\ Policy(c) = choice.policy

\* What doctor says is what a command would do, if nothing changed under it.
DoctorTells ==
  \A p \in Procs :
    At(p, "done") /\ proc[p].report # NoReport /\ proc[p].still =>
      LET c == Parsed(file)
          r == proc[p].report
      IN /\ r.config = "none" <=> file = Absent
         /\ r.config = "unreadable" <=> file # Absent /\ c = NoConfig
         /\ r.provider <=> OnPath(Argv(c, "summary"))
         /\ r.auto = "on" <=> Allowed(c) /\ OnPath(Argv(c, "summary"))

Count(q, t) == Cardinality({i \in DOMAIN q : q[i] = t})

\* ~/.tmux.conf names the other file and does not source it.
Misleading == "mention" \in Range(conf) /\ "source" \notin Range(conf)

\* While commands follow one another and markers are whole, the user keeps their lines,
\* and after an install there is one block in a file that tmux loads, as long as the
\* user does not change what it loads, and no old one is left in either file; after an
\* uninstall there is none.  Not where the conf misleads: tmux.ts means a conf that "will
\* actually load" the other file (98), and takes any line that names it for one
\* (sourcesTmuxConfLocal, installTmuxBindings, uninstallTmuxBindings).
BindingsSettle ==
  left.calm /\ Quiet =>
    /\ Own(conf) = lines.conf /\ Own(local) = lines.local
    /\ lines.bound # "never" =>
         /\ "oldStart" \notin Range(conf) \cup Range(local)
         /\ Count(conf, "start") + Count(local, "start") = IF lines.bound = "no" THEN 0 ELSE 1
    /\ lines.bound = "yes" =>
         Misleading \/ \E t \in {"conf", "local"} : Loaded(t) /\ "start" \in Range(TmuxFile(t))
=============================================================================
