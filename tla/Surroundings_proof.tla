------------------------- MODULE Surroundings_proof -------------------------
(***************************************************************************)
(* What gmux goes by besides the transcripts: the config (Settings), the   *)
(* tmux files (Settings) and the panes (Panes), for every value of their   *)
(* constants.  The two components share no state; their proofs share the   *)
(* induction over a list that a fold, a search or a resolver goes through. *)
(*                                                                         *)
(* The config: `choice`, which the model keeps of what was said, is what   *)
(* the config file parses to, and nobody's when it parses to nothing; a    *)
(* wizard about to save holds an answer that will parse; and a doctor      *)
(* whose world stood still has read the config that is there.              *)
(*                                                                         *)
(* The tmux files: each is the user's lines, which no step of gmux         *)
(* changes, with at most one block of each kind put among them, and a      *)
(* rewrite under way has left the one file as its end needs it.            *)
(*                                                                         *)
(* The panes: an agent has its session to itself, no two started and no    *)
(* two files changed at once.  Then what the resolver has done after n     *)
(* panes is known: no guess is in what others claimed, and when every pane *)
(* runs an agent that ps shows, what it gives a pane is what no order      *)
(* enters, the session of the pane's rank among the live ones.             *)
(***************************************************************************)
EXTENDS Settings, Panes, TLAPS, SequenceTheorems, FiniteSetTheorems, WellFoundedInduction

Whole == {raw \in Raws : raw.version <= 1 /\ raw.auto # Unset /\ raw.provider # Malformed}

\* The fields of `left` the theorems depend on; no step changes them.
Around == {"answers", "policies", "raws", "override", "auto", "child"}
LeftOK ==
  /\ Around \subseteq DOMAIN left
  /\ left.answers \subseteq Ids /\ left.policies \subseteq Policies /\ left.raws \subseteq Raws
SameLeft == DOMAIN left' = DOMAIN left /\ \A b \in Around : left'[b] = left[b]

FileOK   == file \in Raws \cup {Absent} /\ catalog \in Nat
ChoiceOK == choice = IF Parsed(file) = NoConfig THEN Nobody ELSE Said(Parsed(file))

Fields == {"at", "answer", "still", "report", "then"}
ProcOK(r) ==
  /\ Fields \subseteq DOMAIN r
  /\ r.then \in {"done", "acting"}
  /\ r.at = "saving" => r.answer \in Whole
  /\ r.at # "done" => r.report = NoReport

Unread  == file # Absent /\ Parsed(file) = NoConfig
CanCall == OnPath(Argv(Parsed(file), "summary"))
MayCall == Allowed(Parsed(file))
True(x) ==
  /\ x.config = "none" <=> file = Absent
  /\ x.config = "unreadable" <=> Unread
  /\ x.provider <=> CanCall
  /\ x.auto = "on" <=> MayCall /\ CanCall

Told(r) ==
  r.still => /\ r.at = "checking" => r.answer = file
             /\ r.at = "done" /\ r.report # NoReport => True(r.report)

Inv ==
  /\ LeftOK /\ FileOK /\ ChoiceOK
  /\ DOMAIN proc = Procs
  /\ \A p \in Procs : ProcOK(proc[p]) /\ Told(proc[p])

----------------------------------------------------------------------------
(* The config.                                                             *)

\* A config that can be trusted is itself.
LEMMA ParsedIs ==
  ASSUME NEW raw \in Raws \cup {Absent}
  PROVE  /\ raw \in Whole => Parsed(raw) = raw /\ raw # NoConfig
         /\ raw \notin Whole => Parsed(raw) = NoConfig
<1>1. CASE raw = Absent
  <2>1. ~raw.there
    BY <1>1 DEF Absent
  <2>2. raw \notin Whole
    BY <2>1 DEF Whole, Raws
  <2> QED
    BY <2>1, <2>2 DEF Parsed
<1>2. CASE raw \in Raws
  <2>1. raw.there /\ raw # NoConfig
    BY <1>2, NothingAssumption DEF Raws
  <2> QED
    BY <1>2, <2>1 DEF Parsed, Whole
<1> QED
  BY <1>1, <1>2

\* What the wizard saves can be trusted.
LEMMA OptionsAreWhole ==
  ASSUME LeftOK, catalog \in Nat, NEW policy \in left.policies
  PROVE  Options(policy) \subseteq Whole
<1>1. policy \in Policies
  BY DEF LeftOK
<1>2. ASSUME NEW provider \in Providers \cup {NoProvider}, NEW auto \in BOOLEAN, NEW raw,
             raw = [there |-> TRUE, version |-> 1, provider |-> provider, auto |-> auto,
                    policy |-> policy]
      PROVE  raw \in Whole
  <2>1. raw \in Raws
    BY <1>1, <1>2 DEF Raws
  <2>2. raw.version = 1 /\ raw.auto = auto /\ raw.provider = provider
    BY <1>2
  <2>3. auto # Unset /\ provider # Malformed
    BY NothingAssumption
  <2> QED
    BY <2>1, <2>2, <2>3 DEF Whole
<1>3. \A id \in left.answers : [id |-> id, command |-> catalog] \in Providers
  BY DEF LeftOK, Providers
<1>4. SUFFICES ASSUME NEW raw \in Options(policy) PROVE raw \in Whole
  OBVIOUS
<1>5. CASE raw = [there |-> TRUE, version |-> 1, provider |-> NoProvider, auto |-> FALSE,
                  policy |-> policy]
  BY <1>2, <1>5
<1>6. CASE \E id \in left.answers, auto \in BOOLEAN :
             raw = [there |-> TRUE, version |-> 1,
                    provider |-> [id |-> id, command |-> catalog], auto |-> auto,
                    policy |-> policy]
  <2>1. PICK id \in left.answers, auto \in BOOLEAN :
          raw = [there |-> TRUE, version |-> 1,
                 provider |-> [id |-> id, command |-> catalog], auto |-> auto,
                 policy |-> policy]
    BY <1>6
  <2>2. [id |-> id, command |-> catalog] \in Providers \cup {NoProvider}
    BY <1>3
  <2> QED
    BY <1>2, <2>1, <2>2
<1> QED
  BY <1>4, <1>5, <1>6 DEF Options

\* A known provider, or a command of one's own, is a command.
LEMMA ArgvForIs ==
  ASSUME catalog \in Nat, NEW provider \in Providers, NEW use \in {"summary", "ask"}
  PROVE  /\ ArgvFor(provider, use) # NoArgv
         /\ ArgvFor(provider, use) = IF provider.id = Custom
                                     THEN <<Custom, "any", provider.command>>
                                     ELSE <<provider.id, use, catalog>>
<1>1. provider.id \in Ids /\ provider.command \in Nat
  BY DEF Providers
<1>2. provider.id \in Range(Catalog) <=> provider.id # Custom
  BY <1>1, CatalogAssumption DEF Ids
<1>3. ArgvFor(provider, use) = IF provider.id = Custom
                               THEN <<Custom, "any", provider.command>>
                               ELSE <<provider.id, use, catalog>>
  BY <1>2 DEF ArgvFor
<1>4. <<Custom, "any", provider.command>> # NoArgv /\ <<provider.id, use, catalog>> # NoArgv
  BY <1>1, NothingAssumption DEF Ids
<1> QED
  BY <1>3, <1>4

\* Where nothing was chosen there is still a command.
LEMMA FallbackIs ==
  ASSUME catalog \in Nat, NEW use \in {"summary", "ask"}, ~left.override
  PROVE  Argv(NoConfig, use) # NoArgv
<1>1. \A i \in DOMAIN Catalog : Catalog[i] \in Ids
  BY DEF Ids, Range
<1>2. 1 \in DOMAIN Catalog
  BY CatalogAssumption
<1>3. \A id \in Ids : <<id, use, catalog>> # NoArgv /\ <<id, "summary", catalog>> # NoArgv
  BY NothingAssumption
<1>4. CASE \E i \in DOMAIN Catalog : Detected(i)
  <2> DEFINE first == CHOOSE i \in DOMAIN Catalog : Detected(i)
  <2>1. first \in DOMAIN Catalog
    BY <1>4
  <2>2. Argv(NoConfig, use) = <<Catalog[first], use, catalog>>
    BY <1>4 DEF Argv
  <2> HIDE DEF first
  <2> QED
    BY <1>1, <1>3, <2>1, <2>2
<1>5. CASE ~\E i \in DOMAIN Catalog : Detected(i)
  <2>1. Argv(NoConfig, use) = <<Catalog[1], "summary", catalog>>
    BY <1>5 DEF Argv
  <2> QED
    BY <1>1, <1>2, <1>3, <2>1
<1> QED
  BY <1>4, <1>5

\* The invariant says what a human said last.
LEMMA ChoiceFollows == Inv => ChoiceHolds
<1> SUFFICES ASSUME Inv PROVE ChoiceHolds
  OBVIOUS
<1> DEFINE c == Parsed(file)
<1>1. file \in Raws \cup {Absent} /\ catalog \in Nat
  BY DEF Inv, FileOK
<1>2. CASE file \in Whole
  <2>1. c = file /\ c # NoConfig /\ choice = Said(c)
    BY <1>1, <1>2, ParsedIs DEF Inv, ChoiceOK
  <2>2. /\ choice.by = "human" /\ choice.provider = c.provider /\ choice.auto = c.auto
        /\ choice.policy = IF c.policy = Unset THEN "auto" ELSE c.policy
    BY <2>1 DEF Said
  <2>3. c.provider \in Providers \cup {NoProvider}
    BY <1>2, <2>1 DEF Whole, Raws
  <2> HIDE DEF c
  <2>4. ASSUME ~left.override, NEW use \in {"summary", "ask"}
        PROVE  /\ choice.provider = NoProvider <=> Argv(c, use) = NoArgv
               /\ choice.provider # NoProvider =>
                    Argv(c, use) = IF choice.provider.id = Custom
                                   THEN <<Custom, "any", choice.provider.command>>
                                   ELSE <<choice.provider.id, use, catalog>>
    <3>1. CASE c.provider = NoProvider
      BY <2>1, <2>2, <2>4, <3>1 DEF Argv
    <3>2. CASE c.provider # NoProvider
      <4>1. Argv(c, use) = ArgvFor(c.provider, use)
        BY <2>1, <2>4, <3>2 DEF Argv
      <4> QED
        BY <1>1, <2>2, <2>3, <3>2, <4>1, ArgvForIs
    <3> QED
      BY <3>1, <3>2
  <2>5. (Allowed(c) => choice.auto) /\ Policy(c) = choice.policy
    BY <2>1, <2>2 DEF Allowed, Policy
  <2> QED
    BY <2>2, <2>4, <2>5 DEF c, ChoiceHolds
<1>3. CASE file \notin Whole
  <2>1. c = NoConfig /\ choice = Nobody
    BY <1>1, <1>3, ParsedIs DEF Inv, ChoiceOK
  <2>2. choice.by # "human" /\ choice.auto /\ choice.policy = "auto"
    BY <2>1 DEF Nobody
  <2>3. ~left.override => \A use \in {"summary", "ask"} : Argv(c, use) # NoArgv
    BY <1>1, <2>1, FallbackIs
  <2>4. Policy(c) = "auto"
    BY <2>1 DEF Policy
  <2> HIDE DEF c
  <2> QED
    BY <2>2, <2>3, <2>4 DEF c, ChoiceHolds
<1> QED
  BY <1>2, <1>3

\* And what doctor told.
LEMMA DoctorFollows == Inv => DoctorTells
  BY DEF Inv, Told, True, Unread, CanCall, MayCall, DoctorTells, At

----------------------------------------------------------------------------
(* The steps.                                                              *)

LEMMA SpendKeeps ==
  ASSUME NEW b, b \notin Around, Spend(b)
  PROVE  SameLeft
  BY DEF Spend, SameLeft, Around

LEMMA LeftStays ==
  ASSUME LeftOK, SameLeft
  PROVE  LeftOK'
<1>1. left'.answers = left.answers /\ left'.policies = left.policies /\ left'.raws = left.raws
  BY DEF SameLeft, Around
<1> QED
  BY <1>1 DEF LeftOK, SameLeft

\* What doctor has to find depends on nothing else.
LEMMA TruthStays ==
  ASSUME SameLeft, UNCHANGED config
  PROVE  (Unread' <=> Unread) /\ (CanCall' <=> CanCall) /\ (MayCall' <=> MayCall)
<1>1. left'.override = left.override /\ left'.auto = left.auto /\ left'.child = left.child
  BY DEF SameLeft, Around
<1>2. file' = file /\ catalog' = catalog /\ installed' = installed
  BY DEF config
<1>3. Parsed(file)' = Parsed(file)
  BY <1>2 DEF Parsed
<1>4. Unread' <=> Unread
  BY <1>2, <1>3 DEF Unread
<1>5. Argv(Parsed(file), "summary")' = Argv(Parsed(file), "summary")
  BY <1>1, <1>2, <1>3 DEF Argv, ArgvFor, Detected
<1>6. CanCall' <=> CanCall
  BY <1>2, <1>5 DEF CanCall, OnPath
<1>7. MayCall' <=> MayCall
  BY <1>1, <1>3 DEF MayCall, Allowed
<1> QED
  BY <1>4, <1>6, <1>7

\* A step of one process that leaves the config alone.
LEMMA PutIs ==
  ASSUME Inv, SameLeft, UNCHANGED config, NEW p \in Procs, NEW r, Put(p, r),
         ProcOK(r), Told(r)
  PROVE  Inv'
<1>1. LeftOK'
  BY LeftStays DEF Inv
<1>2. FileOK' /\ ChoiceOK'
  BY DEF Inv, FileOK, ChoiceOK, config, Parsed, Said
<1>3. DOMAIN proc' = Procs
  BY DEF Put, Inv
<1>4. ASSUME NEW q \in Procs PROVE ProcOK(proc[q])' /\ Told(proc[q])'
  <2>1. ProcOK(proc'[q]) /\ Told(proc'[q])
    BY DEF Put, Inv
  <2>2. file' = file /\ (Unread' <=> Unread) /\ (CanCall' <=> CanCall) /\ (MayCall' <=> MayCall)
    BY TruthStays DEF config
  <2> QED
    BY <2>1, <2>2 DEF ProcOK, Told, True
<1> QED
  BY <1>1, <1>2, <1>3, <1>4 DEF Inv

\* Most steps only move on: what they learned they tell at the end.
LEMMA MoveIs ==
  ASSUME Inv, NEW p \in Procs, ~At(p, "done"), NEW s, Fields \subseteq DOMAIN s,
         s.then \in {"done", "acting"}, s.at \notin {"saving", "checking"},
         s.report = proc[p].report
  PROVE  ProcOK(s) /\ Told(s)
<1>1. s.report = NoReport
  BY DEF Inv, ProcOK, At
<1> QED
  BY <1>1 DEF ProcOK, Told

\* What changes the config stirs every process.
LEMMA StirIs ==
  ASSUME Inv, SameLeft, FileOK', ChoiceOK', proc' = Stirred
  PROVE  Inv'
<1>1. DOMAIN proc' = Procs
  BY DEF Stirred
<1>2. ASSUME NEW q \in Procs PROVE ProcOK(proc[q])' /\ Told(proc[q])'
  <2>1. proc'[q] = [proc[q] EXCEPT !.still = FALSE]
    BY DEF Stirred
  <2>2. /\ DOMAIN proc'[q] = DOMAIN proc[q] /\ proc'[q].at = proc[q].at
        /\ proc'[q].answer = proc[q].answer /\ proc'[q].then = proc[q].then
        /\ proc'[q].report = proc[q].report
    BY <2>1
  <2>3. ~proc'[q].still
    BY <2>1 DEF Inv, ProcOK, Fields
  <2> QED
    BY <2>2, <2>3 DEF Inv, ProcOK, Told
<1> QED
  BY <1>1, <1>2, LeftStays DEF Inv

LEMMA InitIs == Init => Inv
<1> SUFFICES ASSUME Init PROVE Inv
  OBVIOUS
<1>1. LeftOK
  BY StartsAssumption DEF Init, LeftOK, Around
<1>2. FileOK /\ catalog = 1
  BY DEF Init, FileOK
<1>3. ~Absent.there
  BY DEF Absent
<1>4. ChoiceOK
  BY <1>3 DEF Init, ChoiceOK, Parsed
<1>5. \A p \in Procs : ProcOK(proc[p]) /\ Told(proc[p])
  BY DEF Init, Idle, ProcOK, Told, Fields
<1> QED
  BY <1>1, <1>2, <1>4, <1>5 DEF Inv, Init

LEMMA EditConfigIs == Inv /\ EditConfig => Inv'
<1> SUFFICES ASSUME Inv, EditConfig PROVE Inv'
  OBVIOUS
<1>1. SameLeft /\ proc' = Stirred /\ catalog' = catalog
  BY SpendKeeps DEF EditConfig, Around
<1>2. PICK raw \in left.raws \cup {Absent} :
        file' = raw /\ choice' = IF Parsed(raw) = NoConfig THEN Nobody ELSE Said(raw)
  BY DEF EditConfig
<1>3. raw \in Raws \cup {Absent} /\ catalog \in Nat
  BY <1>2 DEF Inv, LeftOK, FileOK
<1>4. FileOK'
  BY <1>1, <1>2, <1>3 DEF FileOK
<1>5. Parsed(file)' = Parsed(raw)
  BY <1>2 DEF Parsed
<1>6. Parsed(raw) # NoConfig => Parsed(raw) = raw
  BY <1>3, ParsedIs
<1>7. choice' = IF Parsed(file)' = NoConfig THEN Nobody ELSE Said(Parsed(file)')
  BY <1>2, <1>5, <1>6
<1>8. ChoiceOK'
  BY <1>7 DEF ChoiceOK, Said
<1> QED
  BY <1>1, <1>4, <1>8, StirIs

\* The config stays what it is.
LEMMA ChoiceStays ==
  ASSUME Inv, file' = file, choice' = choice, catalog' \in Nat
  PROVE  FileOK' /\ ChoiceOK'
  BY DEF Inv, FileOK, ChoiceOK, Parsed, Said

LEMMA UpgradeIs == Inv /\ Upgrade => Inv'
<1> SUFFICES ASSUME Inv, Upgrade PROVE Inv'
  OBVIOUS
<1>1. SameLeft /\ proc' = Stirred /\ file' = file /\ choice' = choice
  BY SpendKeeps DEF Upgrade, Around
<1>2. catalog' \in Nat
  BY DEF Upgrade, Inv, FileOK
<1> QED
  BY <1>1, <1>2, ChoiceStays, StirIs

LEMMA InstallProgramIs == Inv /\ InstallProgram => Inv'
<1> SUFFICES ASSUME Inv, InstallProgram PROVE Inv'
  OBVIOUS
<1>1. SameLeft /\ proc' = Stirred /\ file' = file /\ choice' = choice
  BY SpendKeeps DEF InstallProgram, Around
<1>2. catalog' \in Nat
  BY DEF InstallProgram, Inv, FileOK
<1> QED
  BY <1>1, <1>2, ChoiceStays, StirIs

LEMMA SaveConfigIs == ASSUME NEW p \in Procs PROVE Inv /\ SaveConfig(p) => Inv'
<1> SUFFICES ASSUME Inv, SaveConfig(p) PROVE Inv'
  OBVIOUS
<1> DEFINE raw == proc[p].answer
<1>1. raw \in Whole
  BY DEF Inv, ProcOK, SaveConfig, At
<1>2. raw \in Raws /\ Parsed(raw) = raw /\ raw # NoConfig
  BY <1>1, ParsedIs DEF Whole
<1>3. file' = raw /\ choice' = Said(raw) /\ catalog' = catalog /\ SameLeft
  BY DEF SaveConfig, SameLeft
<1> HIDE DEF raw
<1>4. FileOK'
  BY <1>2, <1>3 DEF FileOK, Inv
<1>5. Parsed(file)' = raw
  BY <1>2, <1>3 DEF Parsed
<1>6. ChoiceOK'
  BY <1>2, <1>3, <1>5 DEF ChoiceOK, Said
<1>7. DOMAIN proc' = Procs
  BY DEF SaveConfig, Stirred
<1>8. ASSUME NEW q \in Procs PROVE ProcOK(proc[q])' /\ Told(proc[q])'
  <2>1. proc'[q] = IF q = p THEN [[proc[q] EXCEPT !.still = FALSE] EXCEPT !.at = "offering"]
                   ELSE [proc[q] EXCEPT !.still = FALSE]
    BY DEF SaveConfig, Stirred
  <2>2. /\ DOMAIN proc'[q] = DOMAIN proc[q] /\ proc'[q].answer = proc[q].answer
        /\ proc'[q].then = proc[q].then /\ proc'[q].report = proc[q].report
    BY <2>1
  <2>3. ~proc'[q].still
    BY <2>1 DEF Inv, ProcOK, Fields
  <2>4. proc'[q].at = IF q = p THEN "offering" ELSE proc[q].at
    BY <2>1 DEF Inv, ProcOK, Fields
  <2>5. proc[p].at = "saving"
    BY DEF SaveConfig, At
  <2> QED
    BY <2>2, <2>3, <2>4, <2>5 DEF Inv, ProcOK, Told
<1> QED
  BY <1>3, <1>4, <1>6, <1>7, <1>8, LeftStays DEF Inv

\* Nothing here touches what the invariant is about.
LEMMA RestIs ==
  ASSUME Inv, SameLeft, UNCHANGED config, proc' = proc
  PROVE  Inv'
<1>1. FileOK' /\ ChoiceOK'
  BY ChoiceStays DEF Inv, FileOK, config
<1>2. ASSUME NEW q \in Procs PROVE ProcOK(proc[q])' /\ Told(proc[q])'
  <2>1. file' = file /\ (Unread' <=> Unread) /\ (CanCall' <=> CanCall) /\ (MayCall' <=> MayCall)
    BY TruthStays DEF config
  <2> QED
    BY <2>1 DEF Inv, ProcOK, Told, True
<1> QED
  BY <1>1, <1>2, LeftStays DEF Inv

LEMMA EditTmuxIs == Inv /\ EditTmux => Inv'
<1> SUFFICES ASSUME Inv, EditTmux PROVE Inv'
  OBVIOUS
<1>1. SameLeft
  BY SpendKeeps DEF EditTmux, Around
<1>2. UNCHANGED config /\ proc' = proc
  BY DEF EditTmux
<1> QED
  BY <1>1, <1>2, RestIs

\* A fresh process has told nothing.
LEMMA FreshIs ==
  ASSUME NEW r, r.at \notin {"saving", "checking"}, r.report = NoReport,
         r.then \in {"done", "acting"}, Fields \subseteq DOMAIN r
  PROVE  ProcOK(r) /\ Told(r)
  BY DEF ProcOK, Told

LEMMA RunIs ==
  ASSUME NEW p \in Procs, NEW command, NEW tty PROVE Inv /\ Run(p, command, tty) => Inv'
<1> SUFFICES ASSUME Inv, Run(p, command, tty) PROVE Inv'
  OBVIOUS
<1> DEFINE r == [Idle EXCEPT !.at = "starting", !.command = command, !.tty = tty]
<1>1. ProcOK(r) /\ Told(r)
  <2>1. /\ r.at = "starting" /\ r.report = NoReport /\ r.then = "done"
        /\ Fields \subseteq DOMAIN r
    BY DEF Idle, Fields
  <2> HIDE DEF r
  <2> QED
    BY <2>1, FreshIs
<1>2. SameLeft /\ UNCHANGED config /\ Put(p, r)
  BY SpendKeeps DEF Run, Around
<1> HIDE DEF r
<1> QED
  BY <1>1, <1>2, PutIs

LEMMA KillIs == ASSUME NEW p \in Procs PROVE Inv /\ Kill(p) => Inv'
<1> SUFFICES ASSUME Inv, Kill(p) PROVE Inv'
  OBVIOUS
<1>1. ProcOK(Idle) /\ Told(Idle)
  BY FreshIs DEF Idle, Fields
<1>2. SameLeft /\ UNCHANGED config /\ Put(p, Idle)
  BY SpendKeeps DEF Kill, Around
<1> QED
  BY <1>1, <1>2, PutIs

\* A process that only goes on to another step.
LEMMA GoesOn ==
  ASSUME Inv, SameLeft, UNCHANGED config, NEW p \in Procs, ~At(p, "done"), NEW s, Put(p, s),
         Fields \subseteq DOMAIN s, s.then \in {"done", "acting"},
         s.at \notin {"saving", "checking"}, s.report = proc[p].report
  PROVE  Inv'
  BY MoveIs, PutIs

LEMMA GoIs ==
  ASSUME Inv, SameLeft, UNCHANGED config, NEW p \in Procs, ~At(p, "done"), NEW at,
         at \notin {"saving", "checking"}, Go(p, at)
  PROVE  Inv'
<1> DEFINE s == [proc[p] EXCEPT !.at = at]
<1>1. /\ DOMAIN s = DOMAIN proc[p] /\ s.then = proc[p].then /\ s.report = proc[p].report
  OBVIOUS
<1>2. s.at = at
  BY DEF Inv, ProcOK, Fields
<1>3. Fields \subseteq DOMAIN s /\ s.then \in {"done", "acting"}
  BY <1>1 DEF Inv, ProcOK
<1>4. Put(p, s)
  BY DEF Go
<1> HIDE DEF s
<1> QED
  BY <1>1, <1>2, <1>3, <1>4, GoesOn

LEMMA RewritingIs ==
  ASSUME Inv, SameLeft, UNCHANGED config, NEW p \in Procs, ~At(p, "done"),
         NEW installs, NEW target, NEW then \in {"done", "acting"},
         Put(p, Rewriting(proc[p], installs, target, then))
  PROVE  Inv'
<1> DEFINE s == Rewriting(proc[p], installs, target, then)
<1>1. /\ DOMAIN s = DOMAIN proc[p] /\ s.report = proc[p].report
  BY DEF Rewriting
<1>2. s.at = "reading" /\ s.then = then
  BY DEF Rewriting, Inv, ProcOK, Fields
<1>3. Fields \subseteq DOMAIN s
  BY <1>1 DEF Inv, ProcOK
<1> HIDE DEF s
<1> QED
  BY <1>1, <1>2, <1>3, GoesOn DEF s

LEMMA PreActionIs == ASSUME NEW p \in Procs PROVE Inv /\ PreAction(p) => Inv'
<1> SUFFICES ASSUME Inv, PreAction(p) PROVE Inv'
  OBVIOUS
<1>1. SameLeft /\ UNCHANGED config /\ ~At(p, "done")
  BY DEF PreAction, SameLeft, At
<1>2. CASE Gate(p)
  <2> DEFINE s == [proc[p] EXCEPT !.at = "asking", !.then = "acting"]
  <2>1. DOMAIN s = DOMAIN proc[p] /\ s.report = proc[p].report
    OBVIOUS
  <2>2. s.at = "asking" /\ s.then = "acting"
    BY DEF Inv, ProcOK, Fields
  <2>3. Fields \subseteq DOMAIN s
    BY <2>1 DEF Inv, ProcOK
  <2>4. Put(p, s)
    BY <1>2 DEF PreAction
  <2> HIDE DEF s
  <2> QED
    BY <1>1, <2>1, <2>2, <2>3, <2>4, GoesOn
<1>3. CASE ~Gate(p)
  <2>1. Go(p, "acting")
    BY <1>3 DEF PreAction, Go
  <2> QED
    BY <1>1, <2>1, GoIs
<1> QED
  BY <1>2, <1>3

LEMMA ActIs == ASSUME NEW p \in Procs PROVE Inv /\ Act(p) => Inv'
<1> SUFFICES ASSUME Inv, Act(p) PROVE Inv'
  OBVIOUS
<1>1. SameLeft /\ UNCHANGED config /\ ~At(p, "done")
  BY DEF Act, SameLeft, At
<1>2. \/ \E at \in {"asking", "examining", "done"} : Go(p, at)
      \/ Put(p, Rewriting(proc[p], TRUE, Target, "done"))
      \/ Put(p, Rewriting(proc[p], FALSE, "conf", "done"))
  BY DEF Act
<1> QED
  BY <1>1, <1>2, GoIs, RewritingIs

LEMMA AnswerIs == ASSUME NEW p \in Procs PROVE Inv /\ Answer(p) => Inv'
<1> SUFFICES ASSUME Inv, Answer(p) PROVE Inv'
  OBVIOUS
<1>1. SameLeft /\ UNCHANGED config /\ At(p, "asking")
  BY DEF Answer, SameLeft
<1>2. PICK policy \in left.policies : \E answer \in Options(policy) :
        Put(p, [proc[p] EXCEPT !.at = "saving", !.answer = answer])
  BY DEF Answer
<1>3. PICK answer \in Options(policy) :
        Put(p, [proc[p] EXCEPT !.at = "saving", !.answer = answer])
  BY <1>2
<1>4. answer \in Whole
  BY OptionsAreWhole DEF Inv, FileOK
<1> DEFINE s == [proc[p] EXCEPT !.at = "saving", !.answer = answer]
<1>5. DOMAIN s = DOMAIN proc[p] /\ s.report = proc[p].report /\ s.then = proc[p].then
  OBVIOUS
<1>6. s.at = "saving" /\ s.answer = answer
  BY DEF Inv, ProcOK, Fields
<1>7. Put(p, s)
  BY <1>3
<1> HIDE DEF s
<1>8. ProcOK(s) /\ Told(s)
  BY <1>1, <1>4, <1>5, <1>6 DEF Inv, ProcOK, Told, At
<1> QED
  BY <1>1, <1>7, <1>8, PutIs

LEMMA OfferIs == ASSUME NEW p \in Procs PROVE Inv /\ Offer(p) => Inv'
<1> SUFFICES ASSUME Inv, Offer(p) PROVE Inv'
  OBVIOUS
<1>1. SameLeft /\ UNCHANGED config /\ ~At(p, "done")
  BY DEF Offer, SameLeft, At
<1>2. proc[p].then \in {"done", "acting"}
  BY DEF Inv, ProcOK
<1>3. Go(p, proc[p].then) \/ Put(p, Rewriting(proc[p], TRUE, Target, proc[p].then))
  BY DEF Offer
<1> QED
  BY <1>1, <1>2, <1>3, GoIs, RewritingIs

LEMMA OnwardIs ==
  ASSUME Inv, SameLeft, UNCHANGED config, NEW p \in Procs, ~At(p, "done"),
         Put(p, Onward(proc[p]))
  PROVE  Inv'
<1> DEFINE s == Onward(proc[p])
<1>1. DOMAIN s = DOMAIN proc[p] /\ s.report = proc[p].report /\ s.then = proc[p].then
  BY DEF Onward
<1>2. s.at \in {"reading", "done", "acting"}
  BY DEF Onward, Inv, ProcOK, Fields
<1>3. Fields \subseteq DOMAIN s /\ s.then \in {"done", "acting"}
  BY <1>1 DEF Inv, ProcOK
<1> HIDE DEF s
<1> QED
  BY <1>1, <1>2, <1>3, GoesOn DEF s

LEMMA ReadTmuxIs == ASSUME NEW p \in Procs PROVE Inv /\ ReadTmux(p) => Inv'
<1> SUFFICES ASSUME Inv, ReadTmux(p) PROVE Inv'
  OBVIOUS
<1>1. SameLeft /\ UNCHANGED config /\ ~At(p, "done")
  BY DEF ReadTmux, SameLeft, At
<1> DEFINE r == proc[p]
<1> DEFINE s == [r EXCEPT !.at = "truncating", !.text = Rewritten(r)]
<1>2. Put(p, Onward(r)) \/ Put(p, s)
  BY DEF ReadTmux
<1>3. DOMAIN s = DOMAIN r /\ s.report = r.report /\ s.then = r.then
  OBVIOUS
<1>4. s.at = "truncating" /\ Fields \subseteq DOMAIN s /\ s.then \in {"done", "acting"}
  BY <1>3 DEF Inv, ProcOK, Fields
<1> HIDE DEF s
<1> QED
  BY <1>1, <1>2, <1>3, <1>4, GoesOn, OnwardIs

LEMMA TruncateTmuxIs == ASSUME NEW p \in Procs PROVE Inv /\ TruncateTmux(p) => Inv'
<1> SUFFICES ASSUME Inv, TruncateTmux(p) PROVE Inv'
  OBVIOUS
<1>1. SameLeft /\ UNCHANGED config /\ ~At(p, "done") /\ Go(p, "writing")
  BY DEF TruncateTmux, SameLeft, At
<1> QED
  BY <1>1, GoIs

LEMMA WriteTmuxIs == ASSUME NEW p \in Procs PROVE Inv /\ WriteTmux(p) => Inv'
<1> SUFFICES ASSUME Inv, WriteTmux(p) PROVE Inv'
  OBVIOUS
<1>1. SameLeft /\ UNCHANGED config /\ ~At(p, "done") /\ Put(p, Onward(proc[p]))
  BY DEF WriteTmux, SameLeft, At
<1> QED
  BY <1>1, OnwardIs

LEMMA ExamineIs == ASSUME NEW p \in Procs PROVE Inv /\ Examine(p) => Inv'
<1> SUFFICES ASSUME Inv, Examine(p) PROVE Inv'
  OBVIOUS
<1>1. SameLeft /\ UNCHANGED config /\ At(p, "examining")
  BY DEF Examine, SameLeft
<1> DEFINE s == [proc[p] EXCEPT !.at = "checking", !.answer = file]
<1>2. DOMAIN s = DOMAIN proc[p] /\ s.report = proc[p].report /\ s.then = proc[p].then
  OBVIOUS
<1>3. s.at = "checking" /\ s.answer = file
  BY DEF Inv, ProcOK, Fields
<1>4. Put(p, s)
  BY DEF Examine
<1> HIDE DEF s
<1>5. ProcOK(s) /\ Told(s)
  BY <1>1, <1>2, <1>3 DEF Inv, ProcOK, Told, At
<1> QED
  BY <1>1, <1>4, <1>5, PutIs

\* The report is true of a config that is still the one that was read.
LEMMA ReportIs == ASSUME NEW p \in Procs PROVE Inv /\ Report(p) => Inv'
<1> SUFFICES ASSUME Inv, Report(p) PROVE Inv'
  OBVIOUS
<1>1. SameLeft /\ UNCHANGED config /\ At(p, "checking")
  BY DEF Report, SameLeft
<1> DEFINE c  == Parsed(proc[p].answer)
           ok == OnPath(Argv(Parsed(file), "summary"))
           x  == [config   |-> IF ~file.there THEN "none"
                               ELSE IF c = NoConfig THEN "unreadable" ELSE "ok",
                  provider |-> ok,
                  auto     |-> IF Because(c) = "on" /\ ~ok THEN "idle" ELSE Because(c)]
           s  == [proc[p] EXCEPT !.at = "done", !.answer = Absent, !.report = x]
<1>2. Put(p, s)
  BY DEF Report
<1>3. DOMAIN s = DOMAIN proc[p] /\ s.then = proc[p].then /\ s.still = proc[p].still
  OBVIOUS
<1>4. s.at = "done" /\ s.report = x
  BY DEF Inv, ProcOK, Fields
<1>5. ASSUME proc[p].still PROVE True(x)
  <2>1. c = Parsed(file)
    BY <1>1, <1>5 DEF Inv, Told, At
  <2>2. ok <=> CanCall
    BY DEF CanCall
  <2>3. file.there <=> file # Absent
    <3>1. ~Absent.there
      BY DEF Absent
    <3>2. file \in Raws => file.there
      BY DEF Raws
    <3> QED
      BY <3>1, <3>2 DEF Inv, FileOK
  <2>4. Because(c) = "on" <=> MayCall
    BY <2>1 DEF Because, MayCall, Allowed
  <2>5. Because(c) \in {"on", "env", "config", "nested"}
    BY DEF Because
  <2>6. Parsed(file) = NoConfig <=> c = NoConfig
    BY <2>1
  <2> HIDE DEF c, ok
  <2>7. x.config = "none" <=> file = Absent
    BY <2>3
  <2>8. x.config = "unreadable" <=> Unread
    BY <2>3, <2>6 DEF Unread
  <2>9. (x.provider <=> CanCall) /\ (x.auto = "on" <=> MayCall /\ CanCall)
    BY <2>2, <2>4, <2>5
  <2> QED
    BY <2>7, <2>8, <2>9 DEF True
<1> HIDE DEF x, s
<1>6. ProcOK(s)
  BY <1>3, <1>4 DEF Inv, ProcOK
<1>7. Told(s)
  BY <1>3, <1>4, <1>5 DEF Told
<1> QED
  BY <1>1, <1>2, <1>6, <1>7, PutIs

LEMMA StepIs == Inv /\ [Next]_vars => Inv'
<1> SUFFICES ASSUME Inv, [Next]_vars PROVE Inv'
  OBVIOUS
<1>1. CASE EditConfig \/ Upgrade \/ InstallProgram \/ EditTmux
  BY <1>1, EditConfigIs, UpgradeIs, InstallProgramIs, EditTmuxIs
<1>2. ASSUME NEW p \in Procs, Step(p) PROVE Inv'
  BY <1>2, PreActionIs, ActIs, AnswerIs, SaveConfigIs, OfferIs, ReadTmuxIs, TruncateTmuxIs,
     WriteTmuxIs, ExamineIs, ReportIs DEF Step
<1>3. ASSUME NEW p \in Procs,
             (\E command \in left.given, tty \in BOOLEAN : Run(p, command, tty)) \/ Kill(p)
      PROVE  Inv'
  BY <1>3, RunIs, KillIs
<1>4. CASE UNCHANGED vars
  <2>1. SameLeft /\ UNCHANGED config /\ proc' = proc
    BY <1>4 DEF vars, SameLeft
  <2> QED
    BY <2>1, RestIs
<1> QED
  BY <1>1, <1>2, <1>3, <1>4 DEF Next

----------------------------------------------------------------------------
(* The theorems of the config.                                             *)

\* ChoiceHolds, for every catalog, any number of terminals, edits and upgrades: the
\* config holds what a human said last.
THEOREM ChoiceIsKept == Spec => []ChoiceHolds
<1>1. Spec => []Inv
  BY InitIs, StepIs, PTL DEF Spec
<1> QED
  BY <1>1, ChoiceFollows, PTL

\* DoctorTells: what doctor reports is what a command would do, if nothing changed
\* while it looked.
THEOREM DoctorIsTrue == Spec => []DoctorTells
<1>1. Spec => []Inv
  BY InitIs, StepIs, PTL DEF Spec
<1> QED
  BY <1>1, DoctorFollows, PTL

----------------------------------------------------------------------------
(* Induction.                                                              *)

\* What holds of zero, and of the next of each it holds of, holds of all.
LEMMA Induction ==
  ASSUME NEW S \in SUBSET Nat, 0 \in S, \A n \in S : n + 1 \in S
  PROVE  S = Nat
<1> SUFFICES ASSUME S # Nat PROVE FALSE
  OBVIOUS
<1> DEFINE R == OpToRel(<, Nat)
<1>1. IsWellFoundedOn(R, Nat)
  BY NatLessThanWellFounded
<1>2. \A m, n \in Nat : m < n => <<m, n>> \in R
  BY DEF OpToRel
<1> HIDE DEF R
<1>3. Nat \ S \subseteq Nat /\ Nat \ S # {}
  OBVIOUS
<1>4. PICK n \in Nat \ S : \A m \in Nat \ S : ~(<<m, n>> \in R)
  BY <1>1, <1>3, WFMin
<1>5. n # 0 /\ n - 1 \in Nat /\ n - 1 < n
  OBVIOUS
<1>6. n - 1 \in S
  BY <1>2, <1>4, <1>5
<1> QED
  BY <1>5, <1>6

----------------------------------------------------------------------------
(* The lines of a file that are kept, one by one.  The library folds over  *)
(* the set of all positions, taking its largest last.                      *)

Take(S, kept, t) == IF t \in S THEN Append(kept, t) ELSE kept

FoldOn(S, q, n, h) ==
  h = [s \in SUBSET (1..n) |-> IF s = {} THEN <<>>
                               ELSE Take(S, h[s \ {Max(s)}], q[Max(s)])]

LEMMA LastIsMax ==
  ASSUME NEW n \in Nat, NEW s \in SUBSET (1..n), n \in s
  PROVE  Max(s) = n
<1>1. \A x \in s : (\A y \in s : x >= y) => x = n
  OBVIOUS
<1>2. \A y \in s : n >= y
  OBVIOUS
<1> QED
  BY <1>1, <1>2 DEF Max

LEMMA FoldExists ==
  ASSUME NEW T, NEW q, NEW n \in Nat
  PROVE  \E h : FoldOn(T, q, n, h)
<1> DEFINE S == {m \in Nat : \E h : FoldOn(T, q, m, h)}
<1>1. 0 \in S
  <2> DEFINE h == [s \in SUBSET (1..0) |-> <<>>]
  <2>1. SUBSET (1..0) = {{}}
    OBVIOUS
  <2>2. h = [s \in SUBSET (1..0) |-> IF s = {} THEN <<>>
                               ELSE Take(T, h[s \ {Max(s)}], q[Max(s)])]
    BY <2>1
  <2> HIDE DEF h
  <2>3. FoldOn(T, q, 0, h)
    BY <2>2 DEF FoldOn
  <2> QED
    BY <2>3
<1>2. ASSUME NEW m \in S
      PROVE  m + 1 \in S
  <2>1. m \in Nat /\ m + 1 \in Nat /\ 1..m \subseteq 1..(m + 1) /\ m + 1 \notin 1..m
    OBVIOUS
  <2>2. PICK h : FoldOn(T, q, m, h)
    OBVIOUS
  <2> DEFINE g == [s \in SUBSET (1..(m + 1)) |->
                     IF m + 1 \in s THEN Take(T, h[s \ {m + 1}], q[m + 1]) ELSE h[s]]
  <2>3. ASSUME NEW s \in SUBSET (1..(m + 1)), m + 1 \in s
        PROVE  g[s] = Take(T, g[s \ {Max(s)}], q[Max(s)])
    <3>1. Max(s) = m + 1
      BY <2>1, <2>3, LastIsMax
    <3>2. g[s \ {m + 1}] = h[s \ {m + 1}]
      BY <2>3
    <3> QED
      BY <2>3, <3>1, <3>2
  <2>4. ASSUME NEW s \in SUBSET (1..(m + 1)), m + 1 \notin s
        PROVE  g[s] = IF s = {} THEN <<>> ELSE Take(T, g[s \ {Max(s)}], q[Max(s)])
    <3>1. s \in SUBSET (1..m)
      <4>1. \A i \in 1..(m + 1) : i # m + 1 => i \in 1..m
        BY <2>1
      <4> QED
        BY <2>4, <4>1
    <3>2. g[s] = h[s]
      BY <2>4
    <3>4. m + 1 \notin s \ {Max(s)} /\ s \ {Max(s)} \in SUBSET (1..(m + 1))
      BY <2>1, <2>4, <3>1
    <3>5. g[s \ {Max(s)}] = h[s \ {Max(s)}]
      BY <3>4
    <3>3. h[s] = IF s = {} THEN <<>> ELSE Take(T, h[s \ {Max(s)}], q[Max(s)])
      BY <2>2, <3>1 DEF FoldOn
    <3> QED
      BY <3>2, <3>3, <3>5
  <2>5. g = [s \in SUBSET (1..(m + 1)) |->
               IF s = {} THEN <<>> ELSE Take(T, g[s \ {Max(s)}], q[Max(s)])]
    BY <2>3, <2>4
  <2> HIDE DEF g
  <2>6. FoldOn(T, q, m + 1, g)
    BY <2>5 DEF FoldOn
  <2> QED
    BY <2>1, <2>6
<1> HIDE DEF S
<1>3. S = Nat
  <2>1. S \in SUBSET Nat
    BY DEF S
  <2> QED
    BY <1>1, <1>2, <2>1, Induction
<1> QED
  BY <1>3 DEF S

Same(q, v, n)  == \A i \in 1..n : q[i] = v[i]
Agree(g, h, n) == \A s \in SUBSET (1..n) : g[s] = h[s]

LEMMA FoldAgrees ==
  ASSUME NEW T, NEW q, NEW v, NEW n \in Nat, Same(q, v, n),
         NEW g, FoldOn(T, q, n + 1, g), NEW h, FoldOn(T, v, n, h)
  PROVE  Agree(g, h, n)
<1> DEFINE S == {m \in Nat : \A s \in SUBSET (1..n) : s \subseteq 1..m => g[s] = h[s]}
<1>1. \A s \in SUBSET (1..n) :
        /\ g[s] = IF s = {} THEN <<>> ELSE Take(T, g[s \ {Max(s)}], q[Max(s)])
        /\ h[s] = IF s = {} THEN <<>> ELSE Take(T, h[s \ {Max(s)}], v[Max(s)])
  <2>1. 1..n \subseteq 1..(n + 1)
    OBVIOUS
  <2> QED
    BY <2>1 DEF FoldOn
<1>2. 0 \in S
  <2>1. \A s : s \subseteq 1..0 => s = {}
    OBVIOUS
  <2>2. {} \in SUBSET (1..n)
    OBVIOUS
  <2> QED
    BY <1>1, <2>1, <2>2
<1>3. ASSUME NEW m \in S
      PROVE  m + 1 \in S
  <2>1. ASSUME NEW s \in SUBSET (1..n), s \subseteq 1..(m + 1), m + 1 \in s
        PROVE  g[s] = h[s]
    <3>1. Max(s) = m + 1 /\ m + 1 \in 1..n
      BY <2>1, LastIsMax
    <3>2. s \ {m + 1} \in SUBSET (1..n) /\ s \ {m + 1} \subseteq 1..m
      BY <2>1
    <3>3. g[s \ {m + 1}] = h[s \ {m + 1}]
      BY <3>2
    <3>4. q[m + 1] = v[m + 1]
      BY <3>1 DEF Same
    <3>5. g[s] = Take(T, g[s \ {m + 1}], q[m + 1]) /\ h[s] = Take(T, h[s \ {m + 1}], v[m + 1])
      BY <1>1, <2>1, <3>1
    <3> QED
      BY <3>3, <3>4, <3>5
  <2>2. ASSUME NEW s \in SUBSET (1..n), s \subseteq 1..(m + 1), m + 1 \notin s
        PROVE  g[s] = h[s]
    <3>1. s \subseteq 1..m
      BY <2>2
    <3> QED
      BY <3>1
  <2> QED
    BY <2>1, <2>2
<1> HIDE DEF S
<1>4. S = Nat
  <2>1. S \in SUBSET Nat
    BY DEF S
  <2> QED
    BY <1>2, <1>3, <2>1, Induction
<1>5. n \in S
  BY <1>4
<1> QED
  BY <1>5 DEF S, Agree

LEMMA FoldGrows ==
  ASSUME NEW T, NEW q, NEW v, NEW n \in Nat, Same(q, v, n),
         NEW g, FoldOn(T, q, n + 1, g), NEW h, FoldOn(T, v, n, h)
  PROVE  g[1..(n + 1)] = Take(T, h[1..n], q[n + 1])
<1>1. Agree(g, h, n)
  BY FoldAgrees
<1>2. \A s \in SUBSET (1..(n + 1)) :
        s # {} => g[s] = Take(T, g[s \ {Max(s)}], q[Max(s)])
  BY DEF FoldOn
<1>3. n + 1 \in 1..(n + 1) /\ n + 1 \in Nat
  OBVIOUS
<1>4. Max(1..(n + 1)) = n + 1
  BY <1>3, LastIsMax
<1>5. g[1..(n + 1)] = Take(T, g[(1..(n + 1)) \ {n + 1}], q[n + 1])
  BY <1>2, <1>3, <1>4
<1>6. (1..(n + 1)) \ {n + 1} = 1..n
  OBVIOUS
<1> QED
  BY <1>1, <1>5, <1>6 DEF Agree

LEMMA OnlyIsChosen ==
  ASSUME NEW S, NEW q
  PROVE  Only(q, S) =
           (CHOOSE h : h = [s \in SUBSET DOMAIN q |->
                              IF s = {} THEN <<>>
                              ELSE Take(S, h[s \ {Max(s)}], q[Max(s)])])[DOMAIN q]
BY DEF Only, Take, FoldLeft, MapThenFoldSet

LEMMA OnlyIsFold ==
  ASSUME NEW S, NEW n \in Nat, NEW q, DOMAIN q = 1..n
  PROVE  \E h : FoldOn(S, q, n, h) /\ Only(q, S) = h[1..n]
<1> DEFINE P(h) == h = [s \in SUBSET DOMAIN q |->
                              IF s = {} THEN <<>>
                              ELSE Take(S, h[s \ {Max(s)}], q[Max(s)])]
<1>1. \A h : FoldOn(S, q, n, h) <=> P(h)
  BY DEF FoldOn
<1>2. \E h : P(h)
  BY <1>1, FoldExists
<1>3. Only(q, S) = (CHOOSE h : P(h))[1..n]
  BY OnlyIsChosen
<1>4. P(CHOOSE h : P(h))
  BY <1>2
<1> HIDE DEF P
<1> QED
  BY <1>1, <1>3, <1>4

\* One line more is kept or not; of nothing nothing is kept.
LEMMA OnlyGrows ==
  ASSUME NEW S, NEW T, NEW q \in Seq(T), NEW t \in T
  PROVE  Only(Append(q, t), S) = Take(S, Only(q, S), t)
<1> DEFINE n == Len(q)
           v == Append(q, t)
<1>1. n \in Nat /\ n + 1 \in Nat /\ DOMAIN q = 1..n /\ DOMAIN v = 1..(n + 1) /\ v[n + 1] = t
  OBVIOUS
<1>2. Same(v, q, n)
  BY DEF Same
<1> HIDE DEF n, v
<1>3. PICK g : FoldOn(S, v, n + 1, g) /\ Only(v, S) = g[1..(n + 1)]
  BY <1>1, OnlyIsFold
<1>4. PICK h : FoldOn(S, q, n, h) /\ Only(q, S) = h[1..n]
  BY <1>1, OnlyIsFold
<1>5. g[1..(n + 1)] = Take(S, h[1..n], v[n + 1])
  BY <1>1, <1>2, <1>3, <1>4, FoldGrows
<1>6. Only(v, S) = Take(S, Only(q, S), t)
  BY <1>1, <1>3, <1>4, <1>5
<1> QED
  BY <1>6 DEF v

LEMMA OnlyOfNothing ==
  ASSUME NEW S
  PROVE  Only(<<>>, S) = <<>>
<1>1. DOMAIN <<>> = 1..0 /\ 1..0 = {}
  OBVIOUS
<1>2. PICK h : FoldOn(S, <<>>, 0, h) /\ Only(<<>>, S) = h[1..0]
  BY <1>1, OnlyIsFold
<1>3. h[{}] = <<>>
  BY <1>2 DEF FoldOn
<1> QED
  BY <1>1, <1>2, <1>3

\* What holds of the empty file, and of one with a line more, holds of every file.
LEMMA LineByLine ==
  ASSUME NEW T, NEW G \in SUBSET Seq(T), <<>> \in G, \A q \in G, t \in T : Append(q, t) \in G
  PROVE  G = Seq(T)
<1> DEFINE S == {n \in Nat : \A q \in Seq(T) : Len(q) = n => q \in G}
<1>1. 0 \in S
  BY EmptySeq
<1>2. ASSUME NEW n \in S PROVE n + 1 \in S
  <2>1. SUFFICES ASSUME NEW q \in Seq(T), Len(q) = n + 1 PROVE q \in G
    OBVIOUS
  <2>2. q # <<>>
    BY <2>1, EmptySeq
  <2>3. PICK v \in Seq(T), t \in T : q = Append(v, t)
    BY <2>2, SequenceEmptyOrAppend
  <2>4. Len(v) \in Nat /\ Len(q) = Len(v) + 1
    BY <2>3, AppendProperties
  <2>5. v \in G
    BY <2>1, <2>4
  <2> QED
    BY <2>3, <2>5
<1>3. S = Nat
  <2>1. S \in SUBSET Nat
    OBVIOUS
  <2> HIDE DEF S
  <2> QED
    BY <1>1, <1>2, <2>1, Induction
<1> QED
  <2>1. \A q \in Seq(T) : Len(q) \in Nat
    OBVIOUS
  <2> QED
    BY <1>3, <2>1

LEMMA OnlyIsKept ==
  ASSUME NEW S, NEW T, NEW q \in Seq(T)
  PROVE  Only(q, S) \in Seq(S \cap T)
<1> DEFINE G == {v \in Seq(T) : Only(v, S) \in Seq(S \cap T)}
<1>1. <<>> \in G
  BY OnlyOfNothing, EmptySeq
<1>2. ASSUME NEW v \in G, NEW t \in T PROVE Append(v, t) \in G
  <2>1. Only(Append(v, t), S) = Take(S, Only(v, S), t)
    BY OnlyGrows
  <2>2. t \in S => Append(Only(v, S), t) \in Seq(S \cap T)
    <3>1. \A a \in Seq(S \cap T) : t \in S => Append(a, t) \in Seq(S \cap T)
      OBVIOUS
    <3> QED
      BY <3>1
  <2>3. Append(v, t) \in Seq(T) /\ Only(v, S) \in Seq(S \cap T)
    OBVIOUS
  <2>4. Only(Append(v, t), S) \in Seq(S \cap T)
    BY <2>1, <2>2, <2>3 DEF Take
  <2> QED
    BY <2>3, <2>4
<1>3. G = Seq(T)
  <2>1. G \in SUBSET Seq(T)
    OBVIOUS
  <2> HIDE DEF G
  <2> QED
    BY <1>1, <1>2, <2>1, LineByLine
<1> QED
  BY <1>3

\* Where all lines are to be kept, all are.
LEMMA OnlyKeepsAll ==
  ASSUME NEW S, NEW q \in Seq(S)
  PROVE  Only(q, S) = q
<1> DEFINE G == {v \in Seq(S) : Only(v, S) = v}
<1>1. <<>> \in G
  BY OnlyOfNothing
<1>2. ASSUME NEW v \in G, NEW t \in S PROVE Append(v, t) \in G
  BY OnlyGrows DEF Take
<1>3. G = Seq(S)
  <2>1. G \in SUBSET Seq(S)
    OBVIOUS
  <2> HIDE DEF G
  <2> QED
    BY <1>1, <1>2, <2>1, LineByLine
<1> QED
  BY <1>3

\* Where none is, none is.
LEMMA OnlyKeepsNone ==
  ASSUME NEW S, NEW T, S \cap T = {}, NEW q \in Seq(T)
  PROVE  Only(q, S) = <<>>
<1> DEFINE G == {v \in Seq(T) : Only(v, S) = <<>>}
<1>1. <<>> \in G
  BY OnlyOfNothing
<1>2. ASSUME NEW v \in G, NEW t \in T PROVE Append(v, t) \in G
  BY OnlyGrows DEF Take
<1>3. G = Seq(T)
  <2>1. G \in SUBSET Seq(T)
    OBVIOUS
  <2> HIDE DEF G
  <2> QED
    BY <1>1, <1>2, <2>1, LineByLine
<1> QED
  BY <1>3

\* Of two files after one another are kept those of the one after those of the other.
LEMMA OnlyOfBoth ==
  ASSUME NEW S, NEW T, NEW p \in Seq(T), NEW q \in Seq(T)
  PROVE  Only(p \o q, S) = Only(p, S) \o Only(q, S)
<1> DEFINE G == {v \in Seq(T) : Only(p \o v, S) = Only(p, S) \o Only(v, S)}
<1>1. <<>> \in G
  <2>1. Only(p, S) \in Seq(S \cap T)
    BY OnlyIsKept
  <2>2. p \o <<>> = p /\ Only(p, S) \o <<>> = Only(p, S)
    BY <2>1, ConcatEmptySeq
  <2> QED
    BY <2>2, OnlyOfNothing, EmptySeq
<1>2. ASSUME NEW v \in G, NEW t \in T PROVE Append(v, t) \in G
  <2>1. v \in Seq(T) /\ Only(p \o v, S) = Only(p, S) \o Only(v, S)
    OBVIOUS
  <2> HIDE DEF G
  <2>2. p \o v \in Seq(T) /\ Append(v, t) \in Seq(T)
    BY <2>1
  <2>3. p \o Append(v, t) = Append(p \o v, t)
    BY <2>1
  <2>4. Only(p \o Append(v, t), S) = Take(S, Only(p \o v, S), t)
    BY <2>2, <2>3, OnlyGrows
  <2>5. Only(Append(v, t), S) = Take(S, Only(v, S), t)
    BY <2>1, OnlyGrows
  <2>6. Only(p, S) \in Seq(S \cap T) /\ Only(v, S) \in Seq(S \cap T)
    BY <2>1, OnlyIsKept
  <2>7. t \in S => Append(Only(p, S) \o Only(v, S), t) = Only(p, S) \o Append(Only(v, S), t)
    <3>1. SUFFICES ASSUME NEW a \in Seq(S \cap T), NEW b \in Seq(S \cap T), t \in S
                   PROVE  Append(a \o b, t) = a \o Append(b, t)
      BY <2>6
    <3>2. t \in S \cap T
      BY <3>1
    <3>3. Append(a \o b, t) = (a \o b) \o <<t>> /\ Append(b, t) = b \o <<t>>
      BY <3>2, AppendIsConcat, ConcatProperties
    <3>4. <<t>> \in Seq(S \cap T)
      BY <3>2
    <3> QED
      BY <3>3, <3>4, ConcatAssociative
  <2>8. Only(p \o Append(v, t), S) = Only(p, S) \o Only(Append(v, t), S)
    BY <2>1, <2>4, <2>5, <2>7 DEF Take
  <2> QED
    BY <2>2, <2>8 DEF G
<1>3. G = Seq(T)
  <2>1. G \in SUBSET Seq(T)
    OBVIOUS
  <2> HIDE DEF G
  <2> QED
    BY <1>1, <1>2, <2>1, LineByLine
<1> QED
  BY <1>3

\* Concatenation as a symbol: what is proved about it here needs no more of it.
s ++ t == s \o t

LEMMA CatIs ==
  ASSUME NEW T, NEW s \in Seq(T), NEW t \in Seq(T)
  PROVE  s ++ t \in Seq(T)
BY ConcatProperties DEF ++

LEMMA CatProperties ==
  ASSUME NEW T, NEW s \in Seq(T), NEW t \in Seq(T)
  PROVE  /\ s ++ t \in Seq(T)
         /\ Len(s ++ t) = Len(s) + Len(t)
         /\ \A i \in 1..(Len(s) + Len(t)) : (s ++ t)[i] = IF i <= Len(s) THEN s[i] ELSE t[i - Len(s)]
BY ConcatProperties DEF ++

LEMMA CatTwice ==
  ASSUME NEW T, NEW s \in Seq(T), NEW t \in Seq(T), NEW u \in Seq(T)
  PROVE  s ++ t ++ u = s ++ (t ++ u)
BY ConcatAssociative DEF ++

LEMMA CatNothing ==
  ASSUME NEW T, NEW s \in Seq(T)
  PROVE  s ++ <<>> = s /\ <<>> ++ s = s
BY ConcatEmptySeq DEF ++

LEMMA OnlyOfCat ==
  ASSUME NEW S, NEW T, NEW p \in Seq(T), NEW q \in Seq(T)
  PROVE  Only(p ++ q, S) = Only(p, S) ++ Only(q, S)
BY OnlyOfBoth DEF ++

Blocks == {<<>>, Block, Old}

\* `q` is the user's lines `u` with X and Y put among them.
Cut(q, u, X, Y) == \E a, b, c \in Seq(User) : q = a ++ X ++ b ++ Y ++ c /\ u = a ++ b ++ c

Spliced(q, u) == \E X, Y \in Blocks : (X = Y => X = <<>>) /\ Cut(q, u, X, Y)
Bound(q, u)   == Cut(q, u, Block, <<>>)
Plain(q, u)   == Cut(q, u, <<>>, <<>>)

LEMMA BlocksAre == \A X \in Blocks : X \in Seq(Lines)
  <1>1. <<"start", "binding", "end">> \in Seq(Lines)
  BY DEF Lines
<1>2. <<"oldStart", "old", "oldEnd">> \in Seq(Lines)
  BY DEF Lines
<1> QED
  BY <1>1, <1>2, EmptySeq DEF Blocks, Block, Old

LEMMA UsersAre == User \subseteq Lines /\ \A q \in Seq(User) : q \in Seq(Lines)
<1>1. User \subseteq Lines
  BY DEF Lines
<1> QED
  BY <1>1, SeqMonotonic

\* The parts of a file, grouped otherwise.
LEMMA Regroup ==
  ASSUME NEW T, NEW a \in Seq(T), NEW X \in Seq(T), NEW b \in Seq(T), NEW Y \in Seq(T), NEW c \in Seq(T)
  PROVE  /\ a ++ X ++ b ++ Y ++ c \in Seq(T)
         /\ a ++ X ++ b ++ Y ++ c = a ++ X ++ (b ++ Y ++ c)
         /\ a ++ X ++ b ++ Y ++ c = a ++ X ++ b ++ (Y ++ c)
<1>1. a ++ X \in Seq(T) /\ a ++ X ++ b \in Seq(T) /\ a ++ X ++ b ++ Y \in Seq(T)
  BY CatIs
<1>2. b ++ Y \in Seq(T) /\ Y ++ c \in Seq(T)
  BY CatIs
<1>3. a ++ X ++ b ++ Y ++ c = a ++ X ++ b ++ (Y ++ c)
  BY <1>1, CatTwice
<1>4. a ++ X ++ b ++ (Y ++ c) = a ++ X ++ (b ++ (Y ++ c))
  BY <1>1, <1>2, CatTwice
<1>5. b ++ (Y ++ c) = b ++ Y ++ c
  BY CatTwice
<1>6. a ++ X ++ b ++ Y ++ c \in Seq(T)
  BY <1>1, CatIs
<1> QED
  BY <1>3, <1>4, <1>5, <1>6

LEMMA CutIs ==
  ASSUME NEW q, NEW u, NEW X \in Blocks, NEW Y \in Blocks, Cut(q, u, X, Y)
  PROVE  q \in Seq(Lines) /\ u \in Seq(User)
<1>1. PICK a \in Seq(User), b \in Seq(User), c \in Seq(User) :
        q = a ++ X ++ b ++ Y ++ c /\ u = a ++ b ++ c
  BY DEF Cut
<1>2. a \in Seq(Lines) /\ b \in Seq(Lines) /\ c \in Seq(Lines) /\ X \in Seq(Lines) /\ Y \in Seq(Lines)
  BY UsersAre, BlocksAre
<1>3. a ++ X ++ b ++ Y ++ c \in Seq(Lines)
  BY <1>2, Regroup
<1>4. a ++ b ++ c \in Seq(User)
  BY CatIs
<1> QED
  BY <1>1, <1>3, <1>4

LEMMA PlainIs ==
  ASSUME NEW q, NEW u
  PROVE  Plain(q, u) <=> q = u /\ u \in Seq(User)
<1>1. ASSUME Plain(q, u) PROVE q = u /\ u \in Seq(User)
  <2>1. PICK a \in Seq(User), b \in Seq(User), c \in Seq(User) :
          q = a ++ <<>> ++ b ++ <<>> ++ c /\ u = a ++ b ++ c
    BY <1>1 DEF Plain, Cut
  <2>2. a ++ <<>> = a /\ a ++ b \in Seq(User)
    BY CatNothing, CatIs
  <2>3. a ++ b ++ <<>> = a ++ b /\ a ++ b ++ c \in Seq(User)
    BY <2>2, CatNothing, CatIs
  <2> QED
    BY <2>1, <2>2, <2>3
<1>2. ASSUME q = u, u \in Seq(User) PROVE Plain(q, u)
  <2>1. <<>> \in Seq(User) /\ u ++ <<>> = u
    BY <1>2, CatNothing, EmptySeq
  <2>2. q = u ++ <<>> ++ <<>> ++ <<>> ++ <<>> /\ u = u ++ <<>> ++ <<>>
    BY <1>2, <2>1
  <2> QED
    BY <1>2, <2>1, <2>2 DEF Plain, Cut
<1> QED
  BY <1>1, <1>2

\* Lines of the user before and after.
LEMMA CutWithin ==
  ASSUME NEW q, NEW u, NEW X \in Blocks, NEW Y \in Blocks, Cut(q, u, X, Y),
         NEW x \in Seq(User), NEW y \in Seq(User)
  PROVE  Cut(x ++ q ++ y, x ++ u ++ y, X, Y)
<1>1. PICK a \in Seq(User), b \in Seq(User), c \in Seq(User) :
        q = a ++ X ++ b ++ Y ++ c /\ u = a ++ b ++ c
  BY DEF Cut
<1>2. x ++ a \in Seq(User) /\ c ++ y \in Seq(User)
  BY CatIs
<1>3. ASSUME NEW T, NEW V \in Seq(T), NEW W \in Seq(T),
             x \in Seq(T), a \in Seq(T), b \in Seq(T), c \in Seq(T), y \in Seq(T)
      PROVE  x ++ (a ++ V ++ b ++ W ++ c) ++ y = x ++ a ++ V ++ b ++ W ++ (c ++ y)
  <2>1. a ++ V \in Seq(T) /\ a ++ V ++ b \in Seq(T) /\ a ++ V ++ b ++ W \in Seq(T)
        /\ a ++ V ++ b ++ W ++ c \in Seq(T)
    BY <1>3, CatIs
  <2>2. x ++ (a ++ V) = x ++ a ++ V
    BY <1>3, CatTwice
  <2>3. x ++ (a ++ V ++ b) = x ++ a ++ V ++ b
    BY <1>3, <2>1, <2>2, CatTwice
  <2>4. x ++ (a ++ V ++ b ++ W) = x ++ a ++ V ++ b ++ W
    BY <1>3, <2>1, <2>3, CatTwice
  <2>5. x ++ (a ++ V ++ b ++ W ++ c) = x ++ (a ++ V ++ b ++ W) ++ c
    BY <1>3, <2>1, CatTwice
  <2>6. x ++ (a ++ V ++ b ++ W) \in Seq(T)
    BY <1>3, <2>1, CatIs
  <2>7. x ++ (a ++ V ++ b ++ W) ++ c ++ y = x ++ (a ++ V ++ b ++ W) ++ (c ++ y)
    BY <1>3, <2>6, CatTwice
  <2> QED
    BY <2>4, <2>5, <2>7
<1>4. x ++ q ++ y = x ++ a ++ X ++ b ++ Y ++ (c ++ y)
  BY <1>1, <1>3, UsersAre, BlocksAre
<1>5. x ++ u ++ y = x ++ a ++ b ++ (c ++ y)
  <2>1. a ++ b \in Seq(User) /\ x ++ (a ++ b) \in Seq(User)
    BY CatIs
  <2>2. x ++ (a ++ b) = x ++ a ++ b
    BY CatTwice
  <2>3. x ++ (a ++ b ++ c) = x ++ (a ++ b) ++ c
    BY <2>1, CatTwice
  <2>4. x ++ (a ++ b) ++ c ++ y = x ++ (a ++ b) ++ (c ++ y)
    BY <2>1, CatTwice
  <2> QED
    BY <1>1, <2>2, <2>3, <2>4
<1> QED
  BY <1>2, <1>4, <1>5 DEF Cut

\* A file, and the user's lines of it, cut to the lines of S.
CutTo(q, u, X, Y, S) ==
  \E a, b, c \in Seq(User) :
    /\ Only(q, S) = a ++ Only(X, S) ++ b ++ Only(Y, S) ++ c
    /\ Only(u, S) = a ++ b ++ c
    /\ User \subseteq S => Only(u, S) = u

\* What is kept of such a file, if the blocks are: the same of the user's lines.
LEMMA OnlyOfCut ==
  ASSUME NEW q, NEW u, NEW X \in Blocks, NEW Y \in Blocks, NEW S, Cut(q, u, X, Y)
  PROVE  CutTo(q, u, X, Y, S)
<1>1. PICK a \in Seq(User), b \in Seq(User), c \in Seq(User) :
        q = a ++ X ++ b ++ Y ++ c /\ u = a ++ b ++ c
  BY DEF Cut
<1>2. a \in Seq(Lines) /\ b \in Seq(Lines) /\ c \in Seq(Lines) /\ X \in Seq(Lines) /\ Y \in Seq(Lines)
  BY UsersAre, BlocksAre
<1>3. a ++ X \in Seq(Lines) /\ a ++ X ++ b \in Seq(Lines) /\ a ++ X ++ b ++ Y \in Seq(Lines)
  BY <1>2, CatIs
<1>4. Only(a ++ X, S) = Only(a, S) ++ Only(X, S)
  BY <1>2, OnlyOfCat
<1>5. Only(a ++ X ++ b, S) = Only(a ++ X, S) ++ Only(b, S)
  BY <1>2, <1>3, OnlyOfCat
<1>6. Only(a ++ X ++ b ++ Y, S) = Only(a ++ X ++ b, S) ++ Only(Y, S)
  BY <1>2, <1>3, OnlyOfCat
<1>7. Only(q, S) = Only(a ++ X ++ b ++ Y, S) ++ Only(c, S)
  BY <1>1, <1>2, <1>3, OnlyOfCat
<1>8. a ++ b \in Seq(User) /\ u \in Seq(User)
  BY <1>1, CatIs
<1>9. Only(u, S) = Only(a, S) ++ Only(b, S) ++ Only(c, S)
  <2>1. Only(a ++ b, S) = Only(a, S) ++ Only(b, S)
    BY OnlyOfCat
  <2>2. Only(u, S) = Only(a ++ b, S) ++ Only(c, S)
    BY <1>1, <1>8, OnlyOfCat
  <2> QED
    BY <2>1, <2>2
<1>10. \A d \in Seq(User) : Only(d, S) \in Seq(User)
  <2>1. SUFFICES ASSUME NEW d \in Seq(User) PROVE Only(d, S) \in Seq(User)
    OBVIOUS
  <2>2. Only(d, S) \in Seq(S \cap User)
    BY OnlyIsKept
  <2> QED
    BY <2>2, SeqMonotonic
<1>11. User \subseteq S => Only(u, S) = u
  BY <1>8, OnlyKeepsAll, SeqMonotonic
<1>12. Only(q, S) = Only(a, S) ++ Only(X, S) ++ Only(b, S) ++ Only(Y, S) ++ Only(c, S)
  BY <1>4, <1>5, <1>6, <1>7
<1> QED
  BY <1>9, <1>10, <1>11, <1>12 DEF CutTo

----------------------------------------------------------------------------
(* Cutting a block out.                                                    *)

LEMMA FirstAt ==
  ASSUME NEW q, NEW t, NEW n \in Nat, NEW k \in n..Len(q), Len(q) \in Nat,
         q[k] = t, \A i \in n..(k - 1) : q[i] # t
  PROVE  IndexAfter(q, t, n) = k
<1> DEFINE after == {i \in n..Len(q) : q[i] = t}
<1>1. k \in after /\ \A j \in after : k <= j
  OBVIOUS
<1>2. \A i \in after : (\A j \in after : i <= j) => i = k
  BY <1>1
<1> QED
  BY <1>1, <1>2 DEF IndexAfter

LEMMA NoneAfter ==
  ASSUME NEW q, NEW t, NEW n, \A i \in n..Len(q) : q[i] # t
  PROVE  IndexAfter(q, t, n) = 0
BY DEF IndexAfter

LEMMA RangeIs ==
  ASSUME NEW q \in Seq(Lines)
  PROVE  /\ Len(q) \in Nat /\ DOMAIN q = 1..Len(q)
         /\ \A t : t \in Range(q) <=> \E i \in 1..Len(q) : q[i] = t
BY DEF Range

LEMMA NothingToRemove ==
  ASSUME NEW q \in Seq(Lines), NEW start, NEW end, start \notin Range(q)
  PROVE  RemoveMarked(q, start, end) = q /\ Region(q, start, end)[2] = 0
<1>1. IndexAfter(q, start, 1) = 0
  BY RangeIs, NoneAfter
<1>2. Region(q, start, end) = <<0, 0>>
  BY <1>1 DEF Region
<1> QED
  BY <1>2 DEF RemoveMarked

LEMMA BlockIsRemoved ==
  ASSUME NEW a \in Seq(Lines), NEW d \in Seq(Lines),
         NEW start \in Lines, NEW m \in Lines, NEW end \in Lines,
         start \notin Range(a), start # end, m # end
  PROVE  RemoveMarked(a ++ <<start, m, end>> ++ d, start, end) = a ++ d
<1> DEFINE n == Len(a)
           B == <<start, m, end>>
           p == a ++ B
           q == p ++ d
<1>1. B \in Seq(Lines) /\ Len(B) = 3 /\ B[1] = start /\ B[2] = m /\ B[3] = end
  OBVIOUS
<1>2. n \in Nat /\ Len(d) \in Nat
  OBVIOUS
<1>3. /\ p \in Seq(Lines) /\ Len(p) = n + 3
      /\ \A i \in 1..(n + 3) : p[i] = IF i <= n THEN a[i] ELSE B[i - n]
  BY <1>1, <1>2, CatProperties
<1> HIDE DEF B, p
<1>4. /\ q \in Seq(Lines) /\ Len(q) = n + 3 + Len(d)
      /\ \A i \in 1..(n + 3 + Len(d)) : q[i] = IF i <= n + 3 THEN p[i] ELSE d[i - (n + 3)]
  <2>1. p \in Seq(Lines) /\ Len(p) = n + 3
    BY <1>3
  <2>2. /\ q \in Seq(Lines) /\ Len(q) = Len(p) + Len(d)
        /\ \A i \in 1..(Len(p) + Len(d)) : q[i] = IF i <= Len(p) THEN p[i] ELSE d[i - Len(p)]
    BY <2>1, CatProperties
  <2> HIDE DEF q
  <2> QED
    BY <2>1, <2>2
<1> HIDE DEF q
<1>5. /\ \A i \in 1..n : q[i] = a[i]
      /\ q[n + 1] = start /\ q[n + 2] = m /\ q[n + 3] = end
      /\ \A i \in 1..Len(d) : q[n + 3 + i] = d[i]
  <2>1. \A i \in 1..n : q[i] = a[i]
    BY <1>2, <1>3, <1>4
  <2>2. q[n + 1] = B[1]
    <3>1. n + 1 \in 1..(n + 3) /\ n + 1 \in 1..(n + 3 + Len(d)) /\ ~(n + 1 <= n) /\ n + 1 - n = 1 /\ n + 1 <= n + 3
      BY <1>2
    <3> QED
      BY <1>3, <1>4, <3>1
  <2>3. q[n + 2] = B[2]
    <3>1. n + 2 \in 1..(n + 3) /\ n + 2 \in 1..(n + 3 + Len(d)) /\ ~(n + 2 <= n) /\ n + 2 - n = 2 /\ n + 2 <= n + 3
      BY <1>2
    <3> QED
      BY <1>3, <1>4, <3>1
  <2>4. q[n + 3] = B[3]
    <3>1. n + 3 \in 1..(n + 3) /\ n + 3 \in 1..(n + 3 + Len(d)) /\ ~(n + 3 <= n) /\ n + 3 - n = 3 /\ n + 3 <= n + 3
      BY <1>2
    <3> QED
      BY <1>3, <1>4, <3>1
  <2>5. ASSUME NEW i \in 1..Len(d) PROVE q[n + 3 + i] = d[i]
    <3>1. n + 3 + i \in 1..(n + 3 + Len(d)) /\ ~(n + 3 + i <= n + 3) /\ n + 3 + i - (n + 3) = i
      BY <1>2
    <3> QED
      BY <1>4, <3>1
  <2> QED
    BY <1>1, <2>1, <2>2, <2>3, <2>4, <2>5
<1>6. IndexAfter(q, start, 1) = n + 1
  <2>1. \A i \in 1..(n + 1 - 1) : q[i] # start
    BY <1>2, <1>5, RangeIs
  <2>2. n + 1 \in 1..Len(q) /\ Len(q) \in Nat /\ 1 \in Nat
    BY <1>2, <1>4
  <2> QED
    BY <1>5, <2>1, <2>2, FirstAt
<1>7. IndexAfter(q, end, n + 1) = n + 3
  <2>1. \A i \in (n + 1)..(n + 3 - 1) : i = n + 1 \/ i = n + 2
    BY <1>2
  <2>2. n + 3 \in (n + 1)..Len(q) /\ Len(q) \in Nat /\ n + 1 \in Nat
    BY <1>2, <1>4
  <2>3. \A i \in (n + 1)..(n + 3 - 1) : q[i] # end
    BY <1>5, <2>1
  <2> QED
    BY <1>5, <2>2, <2>3, FirstAt
<1>8. Region(q, start, end) = <<n + 1, n + 3>>
  BY <1>2, <1>6, <1>7 DEF Region
<1>9. RemoveMarked(q, start, end) = SubSeq(q, 1, n) \o SubSeq(q, n + 4, Len(q))
  <2>1. n + 1 - 1 = n /\ n + 3 + 1 = n + 4 /\ n + 3 # 0
    BY <1>2
  <2>2. Region(q, start, end)[1] = n + 1 /\ Region(q, start, end)[2] = n + 3
    BY <1>8
  <2> DEFINE r == Region(q, start, end)
  <2>3. RemoveMarked(q, start, end) =
          IF r[2] = 0 THEN q ELSE SubSeq(q, 1, r[1] - 1) \o SubSeq(q, r[2] + 1, Len(q))
    BY DEF RemoveMarked
  <2> HIDE DEF r
  <2>4. r[1] = n + 1 /\ r[2] = n + 3
    BY <2>2 DEF r
  <2>5. SubSeq(q, 1, r[1] - 1) = SubSeq(q, 1, n) /\ SubSeq(q, r[2] + 1, Len(q)) = SubSeq(q, n + 4, Len(q))
    BY <2>1, <2>4
  <2> QED
    BY <2>1, <2>3, <2>4, <2>5
<1>10. SubSeq(q, 1, n) = a
  <2>1. \A i \in 1..n : q[i] \in Lines
    BY <1>5
  <2>2. /\ SubSeq(q, 1, n) \in Seq(Lines)
        /\ Len(SubSeq(q, 1, n)) = IF 1 <= n THEN n - 1 + 1 ELSE 0
        /\ \A i \in 1..(n - 1 + 1) : SubSeq(q, 1, n)[i] = q[1 + i - 1]
    <3>1. 1 \in Int /\ n \in Int
      BY <1>2
    <3> QED
      BY <2>1, <3>1, SubSeqProperties
  <2>3. Len(SubSeq(q, 1, n)) = n /\ \A i \in 1..n : SubSeq(q, 1, n)[i] = a[i]
    BY <1>2, <1>5, <2>2
  <2> QED
    BY <2>2, <2>3, SeqEqual
<1>11. SubSeq(q, n + 4, Len(q)) = d
  <2>1. \A i \in (n + 4)..Len(q) : q[i] \in Lines
    BY <1>2, <1>4
  <2> DEFINE v == SubSeq(q, n + 4, Len(q))
  <2>2. /\ v \in Seq(Lines)
        /\ Len(v) = IF n + 4 <= Len(q) THEN Len(q) - (n + 4) + 1 ELSE 0
        /\ \A i \in 1..(Len(q) - (n + 4) + 1) : v[i] = q[n + 4 + i - 1]
    <3>1. n + 4 \in Int /\ Len(q) \in Int
      BY <1>2, <1>4
    <3> QED
      BY <2>1, <3>1, SubSeqProperties
  <2> HIDE DEF v
  <2>3. Len(v) = Len(d)
    BY <1>2, <1>4, <2>2
  <2>4. ASSUME NEW i \in 1..Len(v) PROVE v[i] = d[i]
    <3>1. i \in 1..Len(d) /\ i \in 1..(Len(q) - (n + 4) + 1) /\ n + 4 + i - 1 = n + 3 + i
      BY <1>2, <1>4, <2>3
    <3> QED
      BY <1>5, <2>2, <3>1
  <2> QED
    BY <2>2, <2>3, <2>4, SeqEqual DEF v
<1> QED
  BY <1>9, <1>10, <1>11 DEF q, p, B, ++

LEMMA CatRange ==
  ASSUME NEW T, NEW s \in Seq(T), NEW t \in Seq(T)
  PROVE  Range(s ++ t) = Range(s) \cup Range(t)
BY RangeConcatenation DEF ++

LEMMA UserRange ==
  ASSUME NEW q \in Seq(User)
  PROVE  Range(q) \subseteq User
BY RangeOfSeq

LEMMA BlockRange ==
  /\ Range(<<>>) = {}
  /\ Range(Block) = {"start", "binding", "end"}
  /\ Range(Old) = {"oldStart", "old", "oldEnd"}
<1>1. Range(<<>>) = {}
  BY DEF Range
<1>2. \A x, y, z : Range(<<x, y, z>>) = {x, y, z}
  <2>1. SUFFICES ASSUME NEW x, NEW y, NEW z PROVE Range(<<x, y, z>>) = {x, y, z}
    OBVIOUS
  <2> DEFINE B == <<x, y, z>>
  <2>2. DOMAIN B = {1, 2, 3} /\ B[1] = x /\ B[2] = y /\ B[3] = z
    OBVIOUS
  <2> HIDE DEF B
  <2>3. Range(B) = {x, y, z}
    BY <2>2 DEF Range
  <2> QED
    BY <2>3 DEF B
<1> QED
  BY <1>1, <1>2 DEF Block, Old

LEMMA CutRange ==
  ASSUME NEW q, NEW u, NEW X \in Blocks, NEW Y \in Blocks, Cut(q, u, X, Y)
  PROVE  Range(q) = Range(u) \cup Range(X) \cup Range(Y) /\ Range(u) \subseteq User
<1>1. PICK a \in Seq(User), b \in Seq(User), c \in Seq(User) :
        q = a ++ X ++ b ++ Y ++ c /\ u = a ++ b ++ c
  BY DEF Cut
<1>2. a \in Seq(Lines) /\ b \in Seq(Lines) /\ c \in Seq(Lines) /\ X \in Seq(Lines) /\ Y \in Seq(Lines)
  BY UsersAre, BlocksAre
<1>3. a ++ X \in Seq(Lines) /\ a ++ X ++ b \in Seq(Lines) /\ a ++ X ++ b ++ Y \in Seq(Lines)
  BY <1>2, CatIs
<1>4. Range(q) = Range(a ++ X ++ b ++ Y) \cup Range(c)
  BY <1>1, <1>2, <1>3, CatRange
<1>5. Range(a ++ X ++ b ++ Y) = Range(a ++ X ++ b) \cup Range(Y)
  BY <1>2, <1>3, CatRange
<1>6. Range(a ++ X ++ b) = Range(a ++ X) \cup Range(b)
  BY <1>2, <1>3, CatRange
<1>7. Range(a ++ X) = Range(a) \cup Range(X)
  BY <1>2, CatRange
<1>8. a ++ b \in Seq(User) /\ u \in Seq(User)
  BY <1>1, CatIs
<1>9. Range(u) = Range(a ++ b) \cup Range(c) /\ Range(a ++ b) = Range(a) \cup Range(b)
  BY <1>1, <1>8, CatRange
<1> QED
  BY <1>4, <1>5, <1>6, <1>7, <1>8, <1>9, UserRange

\* The parts of a file of lines, grouped otherwise.
LEMMA Parts ==
  ASSUME NEW a, NEW X, NEW b, NEW Y, NEW c, {a, X, b, Y, c} \subseteq Seq(Lines)
  PROVE  a ++ X ++ b ++ Y ++ c = a ++ X ++ (b ++ Y ++ c)
<1>1. a \in Seq(Lines) /\ X \in Seq(Lines) /\ b \in Seq(Lines) /\ Y \in Seq(Lines) /\ c \in Seq(Lines)
  OBVIOUS
<1> QED
  BY <1>1, Regroup

\* A block of ours, its first, second and last line.
Marks == {<<"start", "binding", "end">>, <<"oldStart", "old", "oldEnd">>}

LEMMA MarksAre ==
  ASSUME NEW B \in Marks
  PROVE  /\ B \in Blocks /\ B # <<>> /\ B = <<B[1], B[2], B[3]>>
         /\ B[1] \in Lines /\ B[2] \in Lines /\ B[3] \in Lines
         /\ B[1] # B[3] /\ B[2] # B[3] /\ B[1] \notin User
         /\ \A X \in Blocks : B[1] \in Range(X) <=> X = B
<1>1. Block # Old /\ Block # <<>> /\ Old # <<>>
  BY BlockRange
<1>2. CASE B = Block
  <2>1. B[1] = "start" /\ B[2] = "binding" /\ B[3] = "end" /\ B = <<B[1], B[2], B[3]>>
    BY <1>2 DEF Block
  <2> QED
    BY <1>1, <1>2, <2>1, BlockRange DEF Blocks, Lines, User
<1>3. CASE B = Old
  <2>1. B[1] = "oldStart" /\ B[2] = "old" /\ B[3] = "oldEnd" /\ B = <<B[1], B[2], B[3]>>
    BY <1>3 DEF Old
  <2> QED
    BY <1>1, <1>3, <2>1, BlockRange DEF Blocks, Lines, User
<1> QED
  BY <1>2, <1>3 DEF Marks, Block, Old

Less(X, B) == IF X = B THEN <<>> ELSE X

LEMMA OneIsRemoved ==
  ASSUME NEW B \in Marks, NEW X \in Blocks, NEW Y \in Blocks, X = Y => X = <<>>,
         NEW q, NEW u, Cut(q, u, X, Y)
  PROVE  Cut(RemoveMarked(q, B[1], B[3]), u, Less(X, B), Less(Y, B))
<1>1. PICK a \in Seq(User), b \in Seq(User), c \in Seq(User) :
        q = a ++ X ++ b ++ Y ++ c /\ u = a ++ b ++ c
  BY DEF Cut
<1>2. a \in Seq(Lines) /\ b \in Seq(Lines) /\ c \in Seq(Lines) /\ X \in Seq(Lines) /\ Y \in Seq(Lines)
  BY UsersAre, BlocksAre
<1>3. <<>> \in Seq(Lines) /\ a ++ X \in Seq(Lines) /\ a ++ X ++ b \in Seq(Lines)
      /\ b ++ Y \in Seq(Lines) /\ b ++ Y ++ c \in Seq(Lines) /\ Y ++ c \in Seq(Lines)
  BY <1>2, CatIs, EmptySeq
<1>7. \A x \in {X, <<>>} : a ++ x ++ b ++ Y ++ c = a ++ x ++ (b ++ Y ++ c)
  <2>1. SUFFICES ASSUME NEW x \in {X, <<>>}
                 PROVE  a ++ x ++ b ++ Y ++ c = a ++ x ++ (b ++ Y ++ c)
    OBVIOUS
  <2>2. {a, x, b, Y, c} \subseteq Seq(Lines)
    BY <1>2, <1>3
  <2> QED
    BY <2>2, Parts
<1>4. CASE X = B
  <2>1. B[1] \notin Range(a)
    BY UserRange, MarksAre
  <2>2. q = a ++ <<B[1], B[2], B[3]>> ++ (b ++ Y ++ c)
    BY <1>1, <1>4, <1>7, MarksAre
  <2>3. RemoveMarked(q, B[1], B[3]) = a ++ (b ++ Y ++ c)
    BY <1>2, <1>3, <2>1, <2>2, MarksAre, BlockIsRemoved
  <2>4. a ++ <<>> = a /\ Y # B
    BY <1>2, <1>4, CatNothing, MarksAre
  <2>5. a ++ <<>> ++ b ++ Y ++ c = a ++ <<>> ++ (b ++ Y ++ c)
    BY <1>7
  <2>6. RemoveMarked(q, B[1], B[3]) = a ++ <<>> ++ b ++ Y ++ c
    BY <2>3, <2>4, <2>5
  <2> QED
    BY <1>1, <1>4, <2>4, <2>6 DEF Cut, Less
<1>5. CASE X # B /\ Y = B
  <2>1. B[1] \notin Range(a ++ X ++ b)
    <3>1. Range(a ++ X ++ b) = Range(a) \cup Range(X) \cup Range(b)
      BY <1>2, <1>3, CatRange
    <3> QED
      BY <1>5, <3>1, UserRange, MarksAre
  <2>2. q = (a ++ X ++ b) ++ <<B[1], B[2], B[3]>> ++ c
    BY <1>1, <1>5, MarksAre
  <2>3. RemoveMarked(q, B[1], B[3]) = (a ++ X ++ b) ++ c
    BY <1>2, <1>3, <2>1, <2>2, MarksAre, BlockIsRemoved
  <2>4. a ++ X ++ b ++ <<>> = a ++ X ++ b
    BY <1>3, CatNothing
  <2>5. RemoveMarked(q, B[1], B[3]) = a ++ X ++ b ++ <<>> ++ c
    BY <2>3, <2>4
  <2> QED
    BY <1>1, <1>5, <2>5 DEF Cut, Less
<1>6. CASE X # B /\ Y # B
  <2>1. Range(q) = Range(u) \cup Range(X) \cup Range(Y) /\ Range(u) \subseteq User
    BY CutRange
  <2>3. B[1] \notin Range(q) /\ q \in Seq(Lines)
    BY <1>6, <2>1, MarksAre, CutIs
  <2>2. RemoveMarked(q, B[1], B[3]) = q
    BY <2>3, NothingToRemove
  <2> QED
    BY <1>6, <2>2 DEF Less
<1> QED
  BY <1>4, <1>5, <1>6

\* What the strip leaves is the user's.
LEMMA StripIs ==
  ASSUME NEW q, NEW u, Spliced(q, u)
  PROVE  Strip(q) = u /\ u \in Seq(User)
<1>1. PICK X \in Blocks, Y \in Blocks : (X = Y => X = <<>>) /\ Cut(q, u, X, Y)
  BY DEF Spliced
<1> DEFINE r == RemoveMarked(q, "start", "end")
           V == Less(X, Block)
           W == Less(Y, Block)
<1>2. Block \in Marks /\ Old \in Marks /\ Block[1] = "start" /\ Block[3] = "end"
      /\ Old[1] = "oldStart" /\ Old[3] = "oldEnd"
  BY DEF Marks, Block, Old
<1>3. Cut(r, u, V, W)
  BY <1>1, <1>2, OneIsRemoved
<1>4. V \in {<<>>, Old} /\ W \in {<<>>, Old} /\ (V = W => V = <<>>)
  BY <1>1 DEF Less, Blocks
<1> HIDE DEF r, V, W
<1>5. V \in Blocks /\ W \in Blocks
  BY <1>4 DEF Blocks
<1>6. Cut(RemoveMarked(r, "oldStart", "oldEnd"), u, Less(V, Old), Less(W, Old))
  BY <1>2, <1>3, <1>4, <1>5, OneIsRemoved
<1>7. Less(V, Old) = <<>> /\ Less(W, Old) = <<>>
  BY <1>4 DEF Less
<1>8. Plain(Strip(q), u)
  BY <1>6, <1>7 DEF Strip, r, Plain
<1> QED
  BY <1>8, PlainIs

\* What the upsert adds to the user's lines.
LEMMA UpsertIs ==
  ASSUME NEW u \in Seq(User)
  PROVE  Bound(Upsert(u), u)
<1>1. u \in Seq(Lines) /\ "start" \notin Range(u)
  BY UsersAre, UserRange DEF User
<1>2. Region(u, "start", "end")[2] = 0
  BY <1>1, NothingToRemove
<1>3. Upsert(u) = u ++ Block
  BY <1>2 DEF Upsert, ++
<1>4. <<>> \in Seq(User) /\ <<>> \in Seq(Lines) /\ Block \in Seq(Lines) /\ u ++ Block \in Seq(Lines)
  BY <1>1, EmptySeq, BlocksAre, CatIs DEF Blocks
<1>5. u ++ Block ++ <<>> = u ++ Block
  BY <1>4, CatNothing
<1>6. u ++ <<>> = u
  BY <1>4, CatNothing
<1>7. u ++ Block = u ++ Block ++ <<>> ++ <<>> ++ <<>> /\ u = u ++ <<>> ++ <<>>
  BY <1>5, <1>6
<1> QED
  BY <1>3, <1>4, <1>7 DEF Bound, Cut

\* Of a block no line is the user's, and all but the user's are a block's.
LEMMA OnlyOfBlock ==
  ASSUME NEW X \in Blocks, NEW t \in Naming
  PROVE  Only(X, User) = <<>> /\ Only(X, Lines \ {t}) = X
<1> DEFINE T == Lines \ User
<1>1. <<"start", "binding", "end">> \in Seq(T)
  BY DEF Lines, User
<1>2. <<"oldStart", "old", "oldEnd">> \in Seq(T)
  BY DEF Lines, User
<1>3. X \in Seq(T)
  BY <1>1, <1>2, EmptySeq DEF Blocks, Block, Old
<1>4. T \subseteq Lines \ {t}
  BY DEF User, Naming
<1> HIDE DEF T
<1>5. X \in Seq(Lines \ {t})
  BY <1>3, <1>4, SeqMonotonic
<1>6. User \cap T = {}
  BY DEF T
<1> QED
  BY <1>3, <1>5, <1>6, OnlyKeepsNone, OnlyKeepsAll

\* The user's lines are the user's lines.
LEMMA OwnIs ==
  ASSUME NEW q, NEW u, NEW X \in Blocks, NEW Y \in Blocks, Cut(q, u, X, Y)
  PROVE  Own(q) = u
<1>1. PICK a \in Seq(User), b \in Seq(User), c \in Seq(User) :
        /\ Only(q, User) = a ++ Only(X, User) ++ b ++ Only(Y, User) ++ c
        /\ Only(u, User) = a ++ b ++ c
        /\ User \subseteq User => Only(u, User) = u
  BY OnlyOfCut DEF CutTo
<1>2. Only(X, User) = <<>> /\ Only(Y, User) = <<>>
  BY OnlyOfBlock DEF Naming
<1>3. Cut(Own(q), u, <<>>, <<>>)
  BY <1>1, <1>2 DEF Own, Cut
<1> QED
  BY <1>3, PlainIs DEF Plain

Toggle(q, t) == IF t \in Range(q) THEN Only(q, Lines \ {t}) ELSE Append(q, t)

LEMMA NamingIs ==
  ASSUME NEW q, NEW u, NEW X \in Blocks, NEW Y \in Blocks, Cut(q, u, X, Y),
         NEW t \in Naming
  PROVE  t \in Range(q) <=> t \in Range(u)
<1>1. Range(q) = Range(u) \cup Range(X) \cup Range(Y)
  BY CutRange
<1>2. t \notin Range(X) /\ t \notin Range(Y)
  BY BlockRange DEF Blocks, Naming
<1> QED
  BY <1>1, <1>2

LEMMA CutOfOnly ==
  ASSUME NEW q, NEW u, NEW X \in Blocks, NEW Y \in Blocks, Cut(q, u, X, Y),
         NEW S, Only(X, S) = X, Only(Y, S) = Y
  PROVE  Cut(Only(q, S), Only(u, S), X, Y)
<1>3. CutTo(q, u, X, Y, S)
  BY OnlyOfCut
<1>1. PICK a \in Seq(User), b \in Seq(User), c \in Seq(User) :
        /\ Only(q, S) = a ++ Only(X, S) ++ b ++ Only(Y, S) ++ c
        /\ Only(u, S) = a ++ b ++ c
        /\ User \subseteq S => Only(u, S) = u
  BY <1>3 DEF CutTo
<1>2. Only(q, S) = a ++ X ++ b ++ Y ++ c /\ Only(u, S) = a ++ b ++ c
  BY <1>1
<1> QED
  BY <1>2 DEF Cut

\* What the user does to a file they do to their lines.
LEMMA ToggleIs ==
  ASSUME NEW q, NEW u, NEW X \in Blocks, NEW Y \in Blocks, Cut(q, u, X, Y),
         NEW t \in Naming
  PROVE  Cut(Toggle(q, t), Toggle(u, t), X, Y)
<1>1. CASE t \in Range(u)
  <2>1. Only(X, Lines \ {t}) = X /\ Only(Y, Lines \ {t}) = Y
    BY OnlyOfBlock
  <2>2. Cut(Only(q, Lines \ {t}), Only(u, Lines \ {t}), X, Y)
    BY <2>1, CutOfOnly
  <2> QED
    BY <1>1, <2>2, NamingIs DEF Toggle
<1>2. CASE t \notin Range(u)
  <2>1. q \in Seq(Lines) /\ u \in Seq(User)
    BY CutIs
  <2>2. t \in User /\ t \in Lines
    BY DEF User, Lines, Naming
  <2>3. Append(q, t) = q ++ <<t>> /\ Append(u, t) = u ++ <<t>>
    BY <2>1, <2>2, AppendIsConcat DEF ++
  <2>4. <<>> ++ q = q /\ <<>> ++ u = u
    BY <2>1, CatNothing
  <2>5. <<>> \in Seq(User) /\ <<t>> \in Seq(User)
    BY <2>2, EmptySeq
  <2>6. Cut(<<>> ++ q ++ <<t>>, <<>> ++ u ++ <<t>>, X, Y)
    BY <2>5, CutWithin
  <2>7. Cut(q ++ <<t>>, u ++ <<t>>, X, Y)
    BY <2>4, <2>6
  <2> QED
    BY <1>2, <2>3, <2>7, NamingIs DEF Toggle
<1> QED
  BY <1>1, <1>2

Framed(q) == <<"other">> \o q \o <<"line">>

LEMMA FramedIs ==
  ASSUME NEW q, NEW u, NEW X \in Blocks, NEW Y \in Blocks, Cut(q, u, X, Y)
  PROVE  /\ Cut(Framed(q), Framed(u), X, Y)
         /\ \A t \in Naming : t \in Range(Framed(u)) <=> t \in Range(u)
<1>1. <<"other">> \in Seq(User) /\ <<"line">> \in Seq(User)
  BY DEF User
<1>2. Cut(<<"other">> ++ q ++ <<"line">>, <<"other">> ++ u ++ <<"line">>, X, Y)
  BY <1>1, CutWithin
<1>3. u \in Seq(User) /\ <<"other">> ++ u \in Seq(User)
  BY <1>1, CutIs, CatIs
<1>4. Range(<<"other">> ++ u ++ <<"line">>) = Range(<<"other">>) \cup Range(u) \cup Range(<<"line">>)
  <2>1. Range(<<"other">> ++ u) = Range(<<"other">>) \cup Range(u)
    BY <1>1, <1>3, CatRange
  <2> DEFINE v == <<"other">> ++ u
  <2>2. v \in Seq(User)
    BY <1>3
  <2> HIDE DEF v
  <2>3. Range(v ++ <<"line">>) = Range(v) \cup Range(<<"line">>)
    BY <1>1, <2>2, CatRange
  <2> QED
    BY <2>1, <2>3 DEF v
<1>5. \A t : Range(<<t>>) = {t}
  BY DEF Range
<1>6. Framed(q) = <<"other">> ++ q ++ <<"line">> /\ Framed(u) = <<"other">> ++ u ++ <<"line">>
  BY DEF Framed, ++
<1>7. Range(Framed(u)) = {"other"} \cup Range(u) \cup {"line"}
  BY <1>4, <1>5, <1>6
<1> QED
  BY <1>2, <1>6, <1>7 DEF Naming

\* The starts of blocks in a file.
LEMMA CountIsNone ==
  ASSUME NEW q, NEW u, Plain(q, u)
  PROVE  /\ Count(q, "start") = 0
         /\ "start" \notin Range(q) /\ "oldStart" \notin Range(q)
<1>1. q \in Seq(User)
  BY PlainIs
<1>2. Range(q) \subseteq User
  BY <1>1, UserRange
<1>3. "start" \notin Range(q) /\ "oldStart" \notin Range(q)
  BY <1>2 DEF User
<1>4. {i \in DOMAIN q : q[i] = "start"} = {}
  BY <1>3 DEF Range
<1> QED
  BY <1>3, <1>4, FS_EmptySet DEF Count

LEMMA CountIsOne ==
  ASSUME NEW q, NEW u, Bound(q, u)
  PROVE  /\ Count(q, "start") = 1
         /\ "start" \in Range(q) /\ "oldStart" \notin Range(q)
<1>1. PICK a \in Seq(User), b \in Seq(User), c \in Seq(User) :
        q = a ++ Block ++ b ++ <<>> ++ c /\ u = a ++ b ++ c
  BY DEF Cut, Bound
<1>2. a \in Seq(Lines) /\ b \in Seq(Lines) /\ c \in Seq(Lines) /\ Block \in Seq(Lines) /\ <<>> \in Seq(Lines)
  BY UsersAre, BlocksAre, EmptySeq DEF Blocks
<1>3. <<>> \in Blocks /\ Block \in Blocks
  BY DEF Blocks
<1>4. Range(q) = Range(u) \cup Range(Block) \cup Range(<<>>) /\ Range(u) \subseteq User
  BY <1>3, CutRange DEF Bound
<1>5. "start" \in Range(q) /\ "oldStart" \notin Range(q)
  BY <1>4, BlockRange DEF User
<1> DEFINE d == b ++ <<>> ++ c
           n == Len(a)
           p == a ++ Block
<1>6. d \in Seq(User)
  BY <1>3, CatIs, EmptySeq
<1>7. q = p ++ d
  <2>1. {a, Block, b, <<>>, c} \subseteq Seq(Lines)
    BY <1>2
  <2>2. ASSUME NEW X, NEW Y, {a, X, b, Y, c} \subseteq Seq(Lines)
        PROVE  a ++ X ++ b ++ Y ++ c = a ++ X ++ (b ++ Y ++ c)
    BY <2>2, Parts
  <2> QED
    BY <1>1, <2>1, <2>2
<1>8. d \in Seq(Lines) /\ "start" \notin Range(a) /\ "start" \notin Range(d)
  BY <1>6, UsersAre, UserRange DEF User
<1> HIDE DEF d
<1>9. Len(Block) = 3 /\ Block[1] = "start" /\ Block[2] # "start" /\ Block[3] # "start"
  BY DEF Block
<1>10. /\ p \in Seq(Lines) /\ Len(p) = n + 3
       /\ \A i \in 1..(n + 3) : p[i] = IF i <= n THEN a[i] ELSE Block[i - n]
  <2>1. /\ p \in Seq(Lines) /\ Len(p) = Len(a) + Len(Block)
        /\ \A i \in 1..(Len(a) + Len(Block)) : p[i] = IF i <= Len(a) THEN a[i] ELSE Block[i - Len(a)]
    BY <1>2, CatProperties
  <2> HIDE DEF p
  <2> QED
    BY <1>9, <2>1
<1>11. n \in Nat /\ Len(d) \in Nat
  BY <1>8
<1> HIDE DEF p
<1>12. /\ q \in Seq(Lines) /\ Len(q) = Len(p) + Len(d)
       /\ \A i \in 1..(Len(p) + Len(d)) : q[i] = IF i <= Len(p) THEN p[i] ELSE d[i - Len(p)]
  <2>1. p \in Seq(Lines)
    BY <1>10
  <2> QED
    BY <1>7, <1>8, <2>1, CatProperties
<1>13. ASSUME NEW i \in 1..Len(q)
       PROVE  q[i] = "start" <=> i = n + 1
  <2>1. CASE i <= n
    <3>1. q[i] = a[i] /\ i \in 1..Len(a)
      BY <1>10, <1>11, <1>12, <2>1
    <3> QED
      BY <1>2, <1>8, <1>11, <2>1, <3>1, RangeIs
  <2>2. CASE i \in {n + 1, n + 2, n + 3}
    <3>1. i \in 1..(n + 3) /\ i <= Len(p) /\ ~(i <= n) /\ i \in 1..(Len(p) + Len(d))
      BY <1>10, <1>11, <2>2
    <3>2. q[i] = Block[i - n]
      BY <1>10, <1>12, <3>1
    <3>3. i - n \in {1, 2, 3} /\ (i - n = 1 <=> i = n + 1)
      BY <1>11, <2>2
    <3> QED
      BY <1>9, <3>2, <3>3
  <2>3. CASE i > n + 3
    <3>1. ~(i <= Len(p)) /\ i \in 1..(Len(p) + Len(d)) /\ i - Len(p) \in 1..Len(d) /\ i # n + 1
      BY <1>10, <1>11, <1>12, <2>3
    <3>2. q[i] = d[i - Len(p)]
      BY <1>12, <3>1
    <3> QED
      BY <1>8, <3>1, <3>2, RangeIs
  <2> QED
    BY <1>11, <2>1, <2>2, <2>3
<1>14. DOMAIN q = 1..Len(q) /\ n + 1 \in 1..Len(q)
  BY <1>10, <1>11, <1>12
<1>15. {i \in DOMAIN q : q[i] = "start"} = {n + 1}
  BY <1>13, <1>14
<1>16. Cardinality({n + 1}) = 1
  BY FS_Singleton
<1> QED
  BY <1>5, <1>15, <1>16 DEF Count

\* Whole markers are among the user's lines.
LEMMA UnbrokenIs ==
  ASSUME NEW q \in Seq(Lines), Unbroken(q)
  PROVE  Spliced(q, Own(q))
<1>1. PICK X \in {<<>>, Block, Old}, Y \in {<<>>, Block, Old}, i \in 0..Len(q), j \in 0..Len(q) :
        LET a == SubSeq(q, 1, i)
            b == SubSeq(q, i + Len(X) + 1, j)
            c == SubSeq(q, j + Len(Y) + 1, Len(q))
        IN /\ X = Y => X = <<>>
           /\ {a, b, c} \subseteq Seq(User) /\ q = a \o X \o b \o Y \o c
  BY DEF Unbroken
<1>2. PICK a \in Seq(User), b \in Seq(User), c \in Seq(User) :
        (X = Y => X = <<>>) /\ q = a \o X \o b \o Y \o c
  BY <1>1
<1>3. q = a ++ X ++ b ++ Y ++ c
  BY <1>2 DEF ++
<1>4. X \in Blocks /\ Y \in Blocks
  BY DEF Blocks
<1>5. Cut(q, a ++ b ++ c, X, Y)
  BY <1>3 DEF Cut
<1>6. Own(q) = a ++ b ++ c
  BY <1>4, <1>5, OwnIs
<1> QED
  BY <1>2, <1>4, <1>5, <1>6 DEF Spliced

----------------------------------------------------------------------------
(* The tmux files while the commands follow one another.                   *)

Files      == {"conf", "local"}
Rewritings == {"reading", "truncating", "writing"}
Busy(r)    == r.at \notin {"idle", "done"}
Steps      == {"at", "then", "installs", "target", "round", "text"}

\* Which file the block is to be in.
Owner == IF Naming \cap Range(lines.conf) # {} THEN "local" ELSE "conf"

Form(t) == Spliced(TmuxFile(t), lines[t])
Has(t)  == Bound(TmuxFile(t), lines[t])
Bare(t) == Plain(TmuxFile(t), lines[t])

AtRest ==
  /\ \A t \in Files : Form(t)
  /\ lines.bound = "no" => \A t \in Files : Bare(t)
  /\ lines.bound \in {"yes", "moved"} => \E t \in Files : Has(t) /\ Bare(OtherOf(t))
  /\ lines.bound = "yes" => Has(Owner)

\* What a rewrite makes of its target.
Output(r, q) == IF r.installs /\ r.round = 1 THEN Bound(q, lines[r.target])
                ELSE Plain(q, lines[r.target])

\* A rewrite: what it did to the one file, and what it is to do to the other.
Rewrites(r) ==
  /\ r.round \in {1, 2} /\ r.target \in Files /\ r.installs \in BOOLEAN
  /\ r.round = 1 => /\ r.installs => r.target = Owner
                    /\ Form(OtherOf(r.target))
  /\ r.round = 2 => IF r.installs THEN OtherOf(r.target) = Owner /\ Has(Owner)
                    ELSE Bare(OtherOf(r.target))
  /\ r.at # "writing" => Form(r.target)
  /\ r.at # "reading" => Output(r, r.text)

LinesOK == lines \in [conf : Seq(User), local : Seq(User), bound : {"never", "yes", "no", "moved"}]
Alone   == \A p, q \in Procs : Busy(proc[p]) /\ Busy(proc[q]) => p = q

CalmInv ==
  /\ left.kills = 0 /\ LinesOK /\ Alone
  /\ (\A p \in Procs : proc[p].at \notin Rewritings) => AtRest
  /\ \A p \in Procs : proc[p].at \in Rewritings => Rewrites(proc[p])

Shaped == /\ {"calm", "kills"} \subseteq DOMAIN left
          /\ \A p \in Procs : Steps \subseteq DOMAIN proc[p]

TmuxInv == Inv /\ Shaped /\ (left.calm => CalmInv)

LEMMA FilesAre ==
  /\ \A t \in Files : OtherOf(t) \in Files /\ OtherOf(t) # t /\ OtherOf(OtherOf(t)) = t
  /\ Owner \in Files /\ Target \in Files
BY DEF Files, OtherOf, Owner, Target

LEMMA OtherIs ==
  ASSUME NEW t \in Files, NEW x \in Files
  PROVE  x = t \/ x = OtherOf(t)
BY DEF Files, OtherOf

LEMMA HasForm ==
  ASSUME NEW q, NEW u
  PROVE  (Bound(q, u) => Spliced(q, u)) /\ (Plain(q, u) => Spliced(q, u))
<1>1. <<>> \in Blocks /\ Block \in Blocks /\ Block # <<>>
  BY BlockRange DEF Blocks
<1> QED
  BY <1>1 DEF Bound, Plain, Spliced

LEMMA FormIs ==
  ASSUME NEW t \in Files, Form(t)
  PROVE  /\ Own(TmuxFile(t)) = lines[t]
         /\ \A n \in Naming : n \in Range(TmuxFile(t)) <=> n \in Range(lines[t])
BY OwnIs, NamingIs DEF Form, Spliced

\* The file the block is to be in follows from the user's lines.
LEMMA TargetIs ==
  ASSUME AtRest
  PROVE  Target = Owner
<1>1. "conf" \in Files /\ Form("conf")
  BY DEF AtRest, Files
<1>2. TmuxFile("conf") = conf
  BY DEF TmuxFile
<1> QED
  BY <1>1, <1>2, FormIs DEF Target, Owner

----------------------------------------------------------------------------
(* The property follows.                                                   *)

LEMMA BindingsFollow == Shaped /\ (left.calm => CalmInv) => BindingsSettle
<1> SUFFICES ASSUME Shaped, CalmInv, Quiet
             PROVE  /\ Own(conf) = lines.conf /\ Own(local) = lines.local
                    /\ lines.bound # "never" =>
                         /\ "oldStart" \notin Range(conf) \cup Range(local)
                         /\ Count(conf, "start") + Count(local, "start")
                              = IF lines.bound = "no" THEN 0 ELSE 1
                    /\ lines.bound = "yes" =>
                         \/ Misleading
                         \/ \E t \in {"conf", "local"} :
                              Loaded(t) /\ "start" \in Range(TmuxFile(t))
  BY DEF BindingsSettle
<1>1. AtRest
  BY DEF CalmInv, Quiet, Rewritings
<1>2. TmuxFile("conf") = conf /\ TmuxFile("local") = local /\ Files = {"conf", "local"}
  BY DEF TmuxFile, Files
<1>3. Own(conf) = lines.conf /\ Own(local) = lines.local
  BY <1>1, <1>2, FormIs DEF AtRest
<1>4. lines.bound \in {"never", "yes", "no", "moved"}
  BY DEF CalmInv, LinesOK
<1>5. \A t \in Files : Bare(t) => /\ Count(TmuxFile(t), "start") = 0
                                  /\ "oldStart" \notin Range(TmuxFile(t))
  BY CountIsNone DEF Bare
<1>6. \A t \in Files : Has(t) => /\ Count(TmuxFile(t), "start") = 1
                                 /\ "start" \in Range(TmuxFile(t))
                                 /\ "oldStart" \notin Range(TmuxFile(t))
  BY CountIsOne DEF Has
<1>7. CASE lines.bound = "no"
  BY <1>1, <1>2, <1>3, <1>5, <1>7 DEF AtRest
<1>8. CASE lines.bound \in {"yes", "moved"}
  <2>1. PICK t \in Files : Has(t) /\ Bare(OtherOf(t))
    BY <1>1, <1>8 DEF AtRest
  <2>2. OtherOf(t) \in Files /\ OtherOf(t) # t
    BY FilesAre
  <2>3. "oldStart" \notin Range(conf) \cup Range(local)
    BY <1>2, <1>5, <1>6, <2>1, <2>2
  <2>4. Count(conf, "start") + Count(local, "start") = 1
    BY <1>2, <1>5, <1>6, <2>1, <2>2
  <2>5. lines.bound = "yes" => "start" \in Range(TmuxFile(Target))
    BY <1>1, <1>6, FilesAre, TargetIs DEF AtRest
  <2>6. Misleading \/ Loaded(Target)
    BY DEF Misleading, Loaded, Target, Naming
  <2>7. Target \in {"conf", "local"}
    BY DEF Target
  <2> QED
    BY <1>3, <1>8, <2>3, <2>4, <2>5, <2>6, <2>7
<1> QED
  BY <1>3, <1>4, <1>7, <1>8

----------------------------------------------------------------------------
(* Steps that leave the tmux files alone.                                  *)

LEMMA TmuxStays ==
  ASSUME UNCHANGED tmux
  PROVE  /\ lines' = lines /\ (AtRest' <=> AtRest) /\ (LinesOK' <=> LinesOK) /\ Owner' = Owner
         /\ \A t : (Form(t)' <=> Form(t)) /\ (Has(t)' <=> Has(t)) /\ (Bare(t)' <=> Bare(t))
<1>1. conf' = conf /\ local' = local /\ lines' = lines
  BY DEF tmux
<1>2. \A t : TmuxFile(t)' = TmuxFile(t)
  BY <1>1 DEF TmuxFile
<1>3. \A t : (Form(t)' <=> Form(t)) /\ (Has(t)' <=> Has(t)) /\ (Bare(t)' <=> Bare(t))
  BY <1>1, <1>2 DEF Form, Has, Bare
<1>4. Owner' = Owner
  BY <1>1 DEF Owner
<1>5. AtRest' <=> AtRest
  BY <1>1, <1>3, <1>4 DEF AtRest
<1>6. LinesOK' <=> LinesOK
  BY <1>1 DEF LinesOK
<1> QED
  BY <1>1, <1>3, <1>4, <1>5, <1>6

\* A rewrite that is left alone goes on as it was.
LEMMA RewriteStays ==
  ASSUME UNCHANGED tmux, NEW r, NEW s, \A f \in Steps : s[f] = r[f], Rewrites(r)
  PROVE  Rewrites(s)'
<1>1. /\ s.at = r.at /\ s.installs = r.installs /\ s.target = r.target
      /\ s.round = r.round /\ s.text = r.text
  BY DEF Steps
<1>2. Output(s, s.text)' <=> Output(r, r.text)
  BY <1>1 DEF Output, tmux
<1> QED
  BY <1>1, <1>2, TmuxStays DEF Rewrites

\* At first there is no block that gmux put there.
LEMMA CalmAtFirst == Init => Shaped /\ (left.calm => CalmInv)
<1> SUFFICES ASSUME Init PROVE Shaped /\ (left.calm => CalmInv)
  OBVIOUS
<1>1. /\ {"calm", "kills"} \subseteq DOMAIN left
      /\ conf \in Seq(Lines) /\ local \in Seq(Lines)
  BY StartsAssumption DEF Init
<1>2. \A p \in Procs : Steps \subseteq DOMAIN proc[p] /\ proc[p].at = "idle"
  BY DEF Init, Idle, Steps
<1>3. Shaped
  BY <1>1, <1>2 DEF Shaped
<1>4. ASSUME left.calm PROVE CalmInv
  <2>1. left.kills = 0 /\ Unbroken(conf) /\ Unbroken(local)
    BY <1>4, CalmAssumption DEF Init
  <2>2. Spliced(conf, Own(conf)) /\ Spliced(local, Own(local))
    BY <1>1, <2>1, UnbrokenIs
  <2>3. /\ lines = [conf |-> Own(conf), local |-> Own(local), bound |-> "never"]
        /\ Own(conf) \in Seq(User) /\ Own(local) \in Seq(User)
    BY <2>2, StripIs DEF Init
  <2>4. \A t \in Files : Form(t)
    BY <2>2, <2>3 DEF Files, Form, TmuxFile
  <2>5. AtRest /\ LinesOK
    BY <2>3, <2>4 DEF AtRest, LinesOK
  <2>6. Alone /\ \A p \in Procs : proc[p].at \notin Rewritings
    BY <1>2 DEF Alone, Busy, Rewritings
  <2> QED
    BY <2>1, <2>5, <2>6 DEF CalmInv
<1> QED
  BY <1>3, <1>4

----------------------------------------------------------------------------
(* A step of one process.                                                  *)

LEMMA PutKeepsShape ==
  ASSUME Inv, Shaped, NEW p \in Procs, NEW r, Put(p, r), Steps \subseteq DOMAIN r,
         DOMAIN left' = DOMAIN left
  PROVE  Shaped'
BY DEF Inv, Shaped, Put

\* No other is at work, so the files are what this one makes of them.
LEMMA OneStep ==
  ASSUME Inv, CalmInv, left'.kills = left.kills, NEW p \in Procs, NEW r, Put(p, r),
         Busy(proc[p]) \/ Quiet, LinesOK',
         r.at \notin Rewritings => AtRest', r.at \in Rewritings => Rewrites(r)'
  PROVE  CalmInv'
<1>1. proc'[p] = r /\ \A q \in Procs : q # p => proc'[q] = proc[q] /\ ~Busy(proc[q])
  BY DEF Inv, CalmInv, Put, Quiet, Busy, Alone
<1>2. Alone'
  BY <1>1 DEF Alone, Busy
<1>3. \A q \in Procs : q # p => proc'[q].at \notin Rewritings
  BY <1>1 DEF Busy, Rewritings
<1>4. (\A q \in Procs : proc'[q].at \notin Rewritings) => AtRest'
  BY <1>1
<1>5. ASSUME NEW q \in Procs, proc'[q].at \in Rewritings PROVE Rewrites(proc[q])'
  <2>1. q = p
    BY <1>3, <1>5
  <2> QED
    BY <1>1, <1>5, <2>1 DEF Rewrites, Output
<1>6. left'.kills = 0
  BY DEF CalmInv
<1> QED
  BY <1>2, <1>4, <1>5, <1>6 DEF CalmInv, Rewritings

\* A step that leaves the files, and every rewrite of them, alone.
LEMMA Aside ==
  ASSUME Inv, CalmInv, left'.kills = left.kills, UNCHANGED tmux, DOMAIN proc' = Procs,
         \A p \in Procs, f \in Steps : proc'[p][f] = proc[p][f]
  PROVE  CalmInv'
<1>1. \A p \in Procs : proc'[p].at = proc[p].at
  BY DEF Steps
<1>2. Alone'
  BY <1>1 DEF CalmInv, Alone, Busy
<1>3. LinesOK' /\ (AtRest' <=> AtRest)
  BY TmuxStays DEF CalmInv
<1>4. ASSUME NEW p \in Procs, proc'[p].at \in Rewritings PROVE Rewrites(proc[p])'
  <2> DEFINE r == proc[p]
             s == proc'[p]
  <2>1. Rewrites(r) /\ \A f \in Steps : s[f] = r[f]
    BY <1>1, <1>4 DEF CalmInv
  <2>2. /\ s.at = r.at /\ s.installs = r.installs /\ s.target = r.target
        /\ s.round = r.round /\ s.text = r.text
    BY <2>1 DEF Steps
  <2>3. lines' = lines
    BY DEF tmux
  <2>4. Owner' = Owner /\ \A t : /\ (Form(t)' <=> Form(t)) /\ (Has(t)' <=> Has(t))
                                 /\ (Bare(t)' <=> Bare(t))
    BY TmuxStays
  <2> QED
    BY <2>1, <2>2, <2>3, <2>4 DEF Rewrites, Output
<1>5. left'.kills = 0
  BY DEF CalmInv
<1> QED
  BY <1>1, <1>2, <1>3, <1>4, <1>5 DEF CalmInv, Rewritings

\* A step of one process before it rewrites, or of one that never does.
LEMMA MovesOn ==
  ASSUME Inv, CalmInv, left'.kills = left.kills, UNCHANGED tmux, NEW p \in Procs, NEW r,
         Put(p, r), Busy(proc[p]) \/ Quiet,
         proc[p].at \notin Rewritings, r.at \notin Rewritings
  PROVE  CalmInv'
<1>1. \A q \in Procs : proc[q].at \notin Rewritings
  BY DEF CalmInv, Alone, Quiet, Busy, Rewritings
<1>2. AtRest' /\ LinesOK'
  BY <1>1, TmuxStays DEF CalmInv
<1> QED
  BY <1>2, OneStep

\* It begins to rewrite.
LEMMA Begins ==
  ASSUME Inv, Shaped, CalmInv, left'.kills = left.kills, UNCHANGED tmux, NEW p \in Procs,
         Busy(proc[p]), proc[p].at \notin Rewritings, NEW installs \in BOOLEAN,
         NEW target \in Files, installs => target = Target, NEW then,
         Put(p, Rewriting(proc[p], installs, target, then))
  PROVE  CalmInv'
<1>1. \A q \in Procs : proc[q].at \notin Rewritings
  BY DEF CalmInv, Alone, Busy, Rewritings
<1>2. AtRest /\ LinesOK'
  BY <1>1, TmuxStays DEF CalmInv
<1>3. PICK r : r = Rewriting(proc[p], installs, target, then)
  OBVIOUS
<1>4. r.at = "reading" /\ r.installs = installs /\ r.target = target /\ r.round = 1
  BY <1>3 DEF Rewriting, Shaped, Steps
<1>5. installs => target = Owner
  BY <1>2, TargetIs
<1>6. Form(target) /\ Form(OtherOf(target))
  BY <1>2, FilesAre DEF AtRest
<1>7. Rewrites(r)
  BY <1>4, <1>5, <1>6 DEF Rewrites
<1>8. Rewrites(r)'
  BY <1>7, RewriteStays
<1> QED
  BY <1>2, <1>3, <1>4, <1>8, OneStep DEF Rewritings

----------------------------------------------------------------------------
(* The rewrite of one file.                                                *)

LEMMA RewrittenIs ==
  ASSUME CalmInv, NEW p \in Procs, At(p, "reading")
  PROVE  Rewrites(proc[p]) /\ Output(proc[p], Rewritten(proc[p]))
<1> DEFINE r == proc[p]
           u == lines[r.target]
<1>1. Rewrites(r) /\ r.at = "reading"
  BY DEF CalmInv, Rewritings, At
<1>2. Spliced(TmuxFile(r.target), u)
  BY <1>1 DEF Rewrites, Form
<1>3. Strip(TmuxFile(r.target)) = u /\ u \in Seq(User)
  BY <1>2, StripIs
<1>4. Bound(Upsert(u), u) /\ Plain(u, u)
  BY <1>3, UpsertIs, PlainIs
<1> QED
  BY <1>1, <1>3, <1>4 DEF Rewritten, Output

\* What the other file is, it stays.
LEMMA OtherStays ==
  ASSUME NEW t, TmuxFile(t)' = TmuxFile(t), lines'[t] = lines[t]
  PROVE  (Form(t)' <=> Form(t)) /\ (Has(t)' <=> Has(t)) /\ (Bare(t)' <=> Bare(t))
BY DEF Form, Has, Bare

\* One file is as the rewrite is to leave it: on to the other, or to its end.
LEMMA FileIsDone ==
  ASSUME Inv, Shaped, CalmInv, left'.kills = left.kills, NEW p \in Procs,
         proc[p].at \in Rewritings, Put(p, Onward(proc[p])), Finished(proc[p]),
         NEW t, t = proc[p].target, Output(proc[p], TmuxFile(t)'),
         TmuxFile(OtherOf(t))' = TmuxFile(OtherOf(t))
  PROVE  CalmInv'
<1> DEFINE o == OtherOf(t)
<1>1. Rewrites(proc[p]) /\ LinesOK /\ Busy(proc[p])
  BY DEF CalmInv, Rewritings, Busy
<1>2. t \in Files /\ o \in Files /\ t # o /\ OtherOf(o) = t
  BY <1>1, FilesAre DEF Rewrites
<1>3. PICK r : r = Onward(proc[p])
  OBVIOUS
<1>4. /\ LinesOK' /\ lines'.conf = lines.conf /\ lines'.local = lines.local
      /\ lines'.bound = IF proc[p].round = 1 THEN lines.bound
                        ELSE IF proc[p].installs THEN "yes" ELSE "no"
  BY <1>1 DEF LinesOK, Finished
<1>5. Owner' = Owner /\ lines'[t] = lines[t] /\ lines'[o] = lines[o]
  BY <1>2, <1>4 DEF Owner, Files
<1>6. /\ Form(o)' <=> Form(o)
      /\ Has(o)' <=> Has(o)
      /\ Bare(o)' <=> Bare(o)
  BY <1>5, OtherStays
<1>7. CASE proc[p].round = 1
  <2>1. /\ r.at = "reading" /\ r.round = 2 /\ r.target = o /\ r.installs = proc[p].installs
    BY <1>3, <1>7 DEF Onward, Shaped, Steps
  <2>2. r.installs \in BOOLEAN /\ Form(o)'
    BY <1>1, <1>6, <1>7, <2>1 DEF Rewrites
  <2>3. CASE r.installs
    <3>1. t = Owner /\ Has(t)'
      BY <1>1, <1>5, <1>7, <2>1, <2>3 DEF Rewrites, Output, Has
    <3> QED
      BY <1>2, <1>3, <1>4, <1>5, <2>1, <2>2, <2>3, <3>1, <1>1, OneStep DEF Rewrites, Rewritings
  <2>4. CASE ~r.installs
    <3>1. Bare(t)'
      BY <1>1, <1>5, <1>7, <2>1, <2>4 DEF Output, Bare
    <3> QED
      BY <1>2, <1>3, <1>4, <1>5, <2>1, <2>2, <2>4, <3>1, <1>1, OneStep DEF Rewrites, Rewritings
  <2> QED
    BY <2>3, <2>4
<1>8. CASE proc[p].round = 2
  <2>1. r.at = proc[p].then /\ r.at \notin Rewritings
    BY <1>3, <1>8 DEF Onward, Shaped, Steps, Inv, ProcOK, Rewritings
  <2>2. Bare(t)'
    BY <1>1, <1>5, <1>8 DEF Output, Bare
  <2>3. CASE proc[p].installs
    <3>1. o = Owner /\ Has(o)' /\ lines'.bound = "yes"
      BY <1>1, <1>4, <1>6, <1>8, <2>3 DEF Rewrites
    <3>2. \A x \in Files : Form(x)'
      BY <1>2, <2>2, <3>1, HasForm, OtherIs DEF Form, Has, Bare
    <3>3. AtRest'
      BY <1>2, <1>5, <2>2, <3>1, <3>2 DEF AtRest
    <3> QED
      BY <1>1, <1>3, <1>4, <2>1, <3>3, OneStep
  <2>4. CASE ~proc[p].installs
    <3>1. Bare(o)' /\ lines'.bound = "no"
      BY <1>1, <1>4, <1>6, <1>8, <2>4 DEF Rewrites
    <3>2. \A x \in Files : Form(x)' /\ Bare(x)'
      BY <1>2, <2>2, <3>1, HasForm, OtherIs DEF Form, Has, Bare
    <3>3. AtRest'
      BY <3>1, <3>2 DEF AtRest
    <3> QED
      BY <1>1, <1>3, <1>4, <2>1, <3>3, OneStep
  <2> QED
    BY <2>3, <2>4
<1> QED
  BY <1>1, <1>7, <1>8 DEF Rewrites

\* Only the one file is written.
LEMMA PutFileIs ==
  ASSUME NEW t \in Files, NEW q, PutFile(t, q)
  PROVE  TmuxFile(t)' = q /\ TmuxFile(OtherOf(t))' = TmuxFile(OtherOf(t))
BY DEF PutFile, TmuxFile, OtherOf, Files

LEMMA ReadIsCalm ==
  ASSUME Inv, Shaped, CalmInv, NEW p \in Procs, ReadTmux(p)
  PROVE  CalmInv'
<1>1. /\ At(p, "reading") /\ left' = left
      /\ conf' = conf /\ local' = local
  BY DEF ReadTmux
<1>2. Rewrites(proc[p]) /\ Output(proc[p], Rewritten(proc[p])) /\ LinesOK
  BY <1>1, RewrittenIs DEF CalmInv
<1>3. \A t : TmuxFile(t)' = TmuxFile(t)
  BY <1>1 DEF TmuxFile
<1>4. Busy(proc[p]) /\ proc[p].at \in Rewritings
  BY <1>1 DEF Busy, At, Rewritings
<1>5. CASE Rewritten(proc[p]) = TmuxFile(proc[p].target)
  <2>1. Put(p, Onward(proc[p])) /\ Finished(proc[p])
    BY <1>5 DEF ReadTmux
  <2>2. PICK t : t = proc[p].target
    OBVIOUS
  <2>3. Output(proc[p], TmuxFile(t)')
    BY <1>2, <1>3, <1>5, <2>2
  <2> QED
    BY <1>1, <1>3, <1>4, <2>1, <2>2, <2>3, FileIsDone
<1>6. CASE Rewritten(proc[p]) # TmuxFile(proc[p].target)
  <2>1. PICK r : r = [proc[p] EXCEPT !.at = "truncating", !.text = Rewritten(proc[p])]
    OBVIOUS
  <2>2. Put(p, r) /\ lines' = lines
    BY <1>6, <2>1 DEF ReadTmux
  <2>3. /\ r.at = "truncating" /\ r.text = Rewritten(proc[p]) /\ r.round = proc[p].round
        /\ r.installs = proc[p].installs /\ r.target = proc[p].target
    BY <2>1 DEF Shaped, Steps
  <2>4. Rewrites(r)
    BY <1>1, <1>2, <2>3 DEF Rewrites, Output, At
  <2>5. UNCHANGED tmux
    BY <1>1, <2>2 DEF tmux
  <2>6. Rewrites(r)' /\ LinesOK'
    BY <1>2, <2>4, <2>5, RewriteStays, TmuxStays
  <2> QED
    BY <1>1, <1>4, <2>2, <2>3, <2>6, OneStep DEF Rewritings
<1> QED
  BY <1>5, <1>6

LEMMA TruncateIsCalm ==
  ASSUME Inv, Shaped, CalmInv, NEW p \in Procs, TruncateTmux(p)
  PROVE  CalmInv'
<1>1. /\ At(p, "truncating") /\ left' = left /\ lines' = lines
      /\ PutFile(proc[p].target, <<>>) /\ Go(p, "writing")
  BY DEF TruncateTmux
<1>2. Busy(proc[p]) /\ Rewrites(proc[p]) /\ LinesOK'
  BY <1>1 DEF CalmInv, Rewritings, At, Busy, LinesOK
<1>3. PICK r : r = [proc[p] EXCEPT !.at = "writing"]
  OBVIOUS
<1>4. /\ r.at = "writing" /\ r.text = proc[p].text /\ r.round = proc[p].round
      /\ r.installs = proc[p].installs /\ r.target = proc[p].target
  BY <1>3 DEF Shaped, Steps
<1>5. r.target \in Files /\ Output(r, r.text)
  BY <1>1, <1>2, <1>4 DEF Rewrites, Output, At
<1>6. TmuxFile(OtherOf(r.target))' = TmuxFile(OtherOf(r.target))
  BY <1>1, <1>4, <1>5, PutFileIs
<1>7. Owner' = Owner /\ Output(r, r.text)'
  BY <1>1, <1>5 DEF Owner, Output
<1>8. /\ Form(OtherOf(r.target))' <=> Form(OtherOf(r.target))
      /\ Bare(OtherOf(r.target))' <=> Bare(OtherOf(r.target))
      /\ Has(OtherOf(r.target))' <=> Has(OtherOf(r.target))
  BY <1>1, <1>6, OtherStays
<1>9. Rewrites(r)'
  BY <1>2, <1>4, <1>5, <1>7, <1>8 DEF Rewrites
<1> QED
  BY <1>1, <1>2, <1>3, <1>4, <1>9, OneStep DEF Go, Rewritings

LEMMA WriteIsCalm ==
  ASSUME Inv, Shaped, CalmInv, NEW p \in Procs, WriteTmux(p)
  PROVE  CalmInv'
<1>1. /\ At(p, "writing") /\ left' = left
      /\ PutFile(proc[p].target, proc[p].text)
      /\ Put(p, Onward(proc[p])) /\ Finished(proc[p])
  BY DEF WriteTmux
<1>2. proc[p].at \in Rewritings /\ Rewrites(proc[p])
  BY <1>1 DEF CalmInv, Rewritings, At
<1>3. PICK t : t = proc[p].target
  OBVIOUS
<1>4. t \in Files /\ Output(proc[p], proc[p].text)
  BY <1>1, <1>2, <1>3 DEF Rewrites, At
<1>5. TmuxFile(t)' = proc[p].text /\ TmuxFile(OtherOf(t))' = TmuxFile(OtherOf(t))
  BY <1>1, <1>3, <1>4, PutFileIs
<1> QED
  BY <1>1, <1>2, <1>3, <1>4, <1>5, FileIsDone

\* An edit of one file among whose lines the blocks stay as they were.
LEMMA EditKeeps ==
  ASSUME NEW t \in Files,
         \A X, Y \in Blocks : Cut(TmuxFile(t), lines[t], X, Y) => Cut(TmuxFile(t)', lines'[t], X, Y),
         TmuxFile(OtherOf(t))' = TmuxFile(OtherOf(t)), lines'[OtherOf(t)] = lines[OtherOf(t)]
  PROVE  \A x \in Files : (Form(x) => Form(x)') /\ (Has(x) => Has(x)') /\ (Bare(x) => Bare(x)')
<1>1. <<>> \in Blocks /\ Block \in Blocks
  BY DEF Blocks
<1>2. (Form(t) => Form(t)') /\ (Has(t) => Has(t)') /\ (Bare(t) => Bare(t)')
  BY <1>1 DEF Form, Has, Bare, Spliced, Bound, Plain
<1> QED
  BY <1>2, OtherStays, OtherIs

LEMMA EditIsCalm ==
  ASSUME Inv, CalmInv, left'.kills = left.kills, EditTmux
  PROVE  CalmInv'
<1>1. Quiet /\ proc' = proc
  BY DEF EditTmux
<1>2. \A p \in Procs : proc[p].at \notin Rewritings
  BY <1>1 DEF Quiet, Rewritings
<1>3. AtRest /\ LinesOK /\ Alone /\ left'.kills = 0
  BY <1>2 DEF CalmInv
<1>4. SUFFICES AtRest' /\ LinesOK'
  BY <1>1, <1>2, <1>3 DEF CalmInv, Alone, Busy
<1>5. \A t \in Files : Form(t)
  BY <1>3 DEF AtRest
<1>6. CASE \E t \in {"conf", "local"} :
             /\ PutFile(t, <<"other">> \o TmuxFile(t) \o <<"line">>)
             /\ lines' = [lines EXCEPT ![t] = <<"other">> \o @ \o <<"line">>]
  <2>1. PICK t \in Files :
          /\ PutFile(t, Framed(TmuxFile(t)))
          /\ lines' = [lines EXCEPT ![t] = Framed(@)]
    BY <1>6 DEF Files, Framed
  <2>2. OtherOf(t) \in Files /\ OtherOf(t) # t
    BY FilesAre
  <2>3. /\ TmuxFile(t)' = Framed(TmuxFile(t)) /\ lines'[t] = Framed(lines[t])
        /\ TmuxFile(OtherOf(t))' = TmuxFile(OtherOf(t))
        /\ lines'[OtherOf(t)] = lines[OtherOf(t)] /\ lines'.bound = lines.bound
    BY <1>3, <2>1, <2>2, PutFileIs DEF LinesOK, Files
  <2>4. \A x \in Files : (Form(x) => Form(x)') /\ (Has(x) => Has(x)') /\ (Bare(x) => Bare(x)')
    BY <2>3, FramedIs, EditKeeps
  <2>5. \A n \in Naming : n \in Range(lines'[t]) <=> n \in Range(lines[t])
    BY <1>5, <2>3, FramedIs DEF Form, Spliced
  <2>6. Owner' = Owner
    BY <2>2, <2>3, <2>5 DEF Owner, Files
  <2>7. AtRest'
    BY <1>3, <2>3, <2>4, <2>6, FilesAre DEF AtRest
  <2>8. lines'[t] \in Seq(User)
    BY <1>5, <2>3, <2>4, CutIs DEF Form, Spliced
  <2> QED
    BY <1>3, <2>1, <2>3, <2>7, <2>8 DEF LinesOK, Files
<1>7. ASSUME NEW n \in Naming, PutFile("conf", Toggle(conf, n)),
             lines' = [lines EXCEPT !.conf = Toggle(@, n),
                                    !.bound = IF @ = "yes" THEN "moved" ELSE @]
      PROVE  AtRest' /\ LinesOK'
  <2>1. PICK t : t = "conf"
    OBVIOUS
  <2>2. t \in Files /\ OtherOf(t) = "local" /\ TmuxFile(t) = conf
    BY <2>1 DEF Files, OtherOf, TmuxFile
  <2>3. /\ TmuxFile(t)' = Toggle(TmuxFile(t), n) /\ lines'[t] = Toggle(lines[t], n)
        /\ TmuxFile(OtherOf(t))' = TmuxFile(OtherOf(t))
        /\ lines'[OtherOf(t)] = lines[OtherOf(t)]
        /\ lines'.bound = IF lines.bound = "yes" THEN "moved" ELSE lines.bound
    BY <1>3, <1>7, <2>1, <2>2, PutFileIs DEF LinesOK
  <2>4. \A x \in Files : (Form(x) => Form(x)') /\ (Has(x) => Has(x)') /\ (Bare(x) => Bare(x)')
    BY <2>2, <2>3, ToggleIs, EditKeeps
  <2>5. AtRest'
    BY <1>3, <2>3, <2>4, FilesAre DEF AtRest
  <2>6. lines'[t] \in Seq(User)
    BY <1>5, <2>2, <2>3, <2>4, CutIs DEF Form, Spliced
  <2> QED
    BY <1>3, <1>7, <2>1, <2>3, <2>5, <2>6 DEF LinesOK
<1> QED
  BY <1>6, <1>7 DEF EditTmux, Toggle

----------------------------------------------------------------------------
(* Every step.                                                             *)

LEMMA SpendIs ==
  ASSUME Shaped, NEW b, Spend(b), b # "calm"
  PROVE  /\ left'.calm = left.calm /\ DOMAIN left' = DOMAIN left
         /\ b # "kills" => left'.kills = left.kills
BY DEF Spend, Shaped

\* What changes the config leaves what the processes are at.
LEMMA StirIsCalm ==
  ASSUME Inv, Shaped, proc' = Stirred, left'.kills = left.kills, UNCHANGED tmux,
         DOMAIN left' = DOMAIN left
  PROVE  Shaped' /\ (CalmInv => CalmInv')
<1>1. DOMAIN proc' = Procs
  BY DEF Stirred
<1>2. \A p \in Procs : /\ DOMAIN proc'[p] = DOMAIN proc[p]
                       /\ \A f \in Steps : proc'[p][f] = proc[p][f]
  BY DEF Stirred, Shaped, Steps
<1> QED
  BY <1>1, <1>2, Aside DEF Shaped

\* What a step keeps of the tmux files.
Kept == Shaped' /\ left'.calm = left.calm /\ (left.calm /\ CalmInv => CalmInv')

LEMMA WorldKeeps ==
  ASSUME Inv, Shaped, EditConfig \/ Upgrade \/ InstallProgram \/ EditTmux
  PROVE  Kept
<1>1. CASE EditConfig \/ Upgrade \/ InstallProgram
  <2>1. proc' = Stirred /\ UNCHANGED tmux /\ (Spend("edits") \/ Spend("upgrades"))
    BY <1>1 DEF EditConfig, Upgrade, InstallProgram
  <2>2. left'.calm = left.calm /\ DOMAIN left' = DOMAIN left /\ left'.kills = left.kills
    BY <2>1, SpendIs
  <2> QED
    BY <2>1, <2>2, StirIsCalm DEF Kept
<1>2. CASE EditTmux
  <2>3. Spend("tmuxEdits")
    BY <1>2 DEF EditTmux
  <2>1. left'.calm = left.calm /\ DOMAIN left' = DOMAIN left /\ left'.kills = left.kills
    BY <2>3, SpendIs
  <2>2. Shaped'
    BY <1>2, <2>1 DEF EditTmux, Shaped
  <2> QED
    BY <1>2, <2>1, <2>2, EditIsCalm DEF Kept
<1> QED
  BY <1>1, <1>2

LEMMA RunKeeps ==
  ASSUME Inv, Shaped, NEW p \in Procs, NEW command, NEW tty, Run(p, command, tty)
  PROVE  Kept
<1>1. PICK r : r = [Idle EXCEPT !.at = "starting", !.command = command, !.tty = tty]
  OBVIOUS
<1>2. Steps \subseteq DOMAIN r /\ r.at = "starting"
  BY <1>1 DEF Idle, Steps
<1>3. /\ Put(p, r) /\ UNCHANGED tmux /\ left'.calm = left.calm
      /\ DOMAIN left' = DOMAIN left /\ left'.kills = left.kills
      /\ left.calm => Quiet /\ proc[p].at \in {"idle", "done"}
  BY <1>1, SpendIs DEF Run
<1>4. Shaped'
  BY <1>2, <1>3, PutKeepsShape
<1>5. ASSUME left.calm, CalmInv PROVE CalmInv'
  BY <1>2, <1>3, <1>5, MovesOn DEF Rewritings
<1> QED
  BY <1>3, <1>4, <1>5 DEF Kept

\* A process that moves on, and not to a rewrite.
LEMMA MoveKeeps ==
  ASSUME Inv, Shaped, left' = left, UNCHANGED tmux, NEW p \in Procs, NEW r, Put(p, r),
         Steps \subseteq DOMAIN r, Busy(proc[p]), proc[p].at \notin Rewritings,
         r.at \notin Rewritings
  PROVE  Kept
<1>1. Shaped'
  BY PutKeepsShape
<1>2. ASSUME CalmInv PROVE CalmInv'
  BY <1>2, MovesOn
<1> QED
  BY <1>1, <1>2 DEF Kept

LEMMA BeginKeeps ==
  ASSUME Inv, Shaped, left' = left, UNCHANGED tmux, NEW p \in Procs,
         Busy(proc[p]), proc[p].at \notin Rewritings, NEW installs \in BOOLEAN,
         NEW target \in Files, installs => target = Target, NEW then,
         Put(p, Rewriting(proc[p], installs, target, then))
  PROVE  Kept
<1>1. Steps \subseteq DOMAIN Rewriting(proc[p], installs, target, then)
  BY DEF Rewriting, Shaped
<1>2. Shaped'
  BY <1>1, PutKeepsShape
<1>3. ASSUME CalmInv PROVE CalmInv'
  BY <1>3, Begins
<1> QED
  BY <1>2, <1>3 DEF Kept

LEMMA GoesTo ==
  ASSUME Shaped, NEW p \in Procs, NEW s, Go(p, s)
  PROVE  \E r : Put(p, r) /\ Steps \subseteq DOMAIN r /\ r.at = s
<1>1. PICK r : r = [proc[p] EXCEPT !.at = s]
  OBVIOUS
<1>2. DOMAIN r = DOMAIN proc[p] /\ r.at = s
  BY <1>1 DEF Shaped, Steps
<1> QED
  BY <1>1, <1>2 DEF Go, Shaped

LEMMA ActKeeps ==
  ASSUME Inv, Shaped, NEW p \in Procs, Act(p)
  PROVE  Kept
<1>1. /\ At(p, "acting") /\ left' = left /\ UNCHANGED tmux
      /\ Busy(proc[p]) /\ proc[p].at \notin Rewritings
  BY DEF Act, At, Busy, Rewritings
<1>2. CASE \E s \in {"asking", "examining", "done"} : Go(p, s)
  <2>1. PICK s \in {"asking", "examining", "done"} : Go(p, s)
    BY <1>2
  <2>2. PICK r : r = [proc[p] EXCEPT !.at = s]
    OBVIOUS
  <2>3. Steps \subseteq DOMAIN r /\ r.at = s
    BY <2>2 DEF Shaped, Steps
  <2> QED
    BY <1>1, <2>1, <2>2, <2>3, MoveKeeps DEF Go, Rewritings
<1>3. CASE Put(p, Rewriting(proc[p], TRUE, Target, "done"))
  <2>1. PICK target : target = Target
    OBVIOUS
  <2>2. target \in Files
    BY <2>1, FilesAre
  <2> QED
    BY <1>1, <1>3, <2>1, <2>2, BeginKeeps
<1>4. CASE Put(p, Rewriting(proc[p], FALSE, "conf", "done"))
  BY <1>1, <1>4, BeginKeeps DEF Files
<1>5. \/ \E s \in {"asking", "examining", "done"} : Go(p, s)
      \/ Put(p, Rewriting(proc[p], TRUE, Target, "done"))
      \/ Put(p, Rewriting(proc[p], FALSE, "conf", "done"))
  BY Zenon DEF Act
<1> QED
  BY <1>2, <1>3, <1>4, <1>5

LEMMA OfferKeeps ==
  ASSUME Inv, Shaped, NEW p \in Procs, Offer(p)
  PROVE  Kept
<1>1. /\ At(p, "offering") /\ left' = left /\ UNCHANGED tmux
      /\ Busy(proc[p]) /\ proc[p].at \notin Rewritings
  BY DEF Offer, At, Busy, Rewritings
<1>2. CASE Go(p, proc[p].then)
  <2>1. PICK r : r = [proc[p] EXCEPT !.at = proc[p].then]
    OBVIOUS
  <2>2. Steps \subseteq DOMAIN r /\ r.at \notin Rewritings
    BY <2>1 DEF Shaped, Steps, Inv, ProcOK, Rewritings
  <2> QED
    BY <1>1, <1>2, <2>1, <2>2, MoveKeeps DEF Go
<1>3. CASE Put(p, Rewriting(proc[p], TRUE, Target, proc[p].then))
  <2>1. PICK target, then : target = Target /\ then = proc[p].then
    OBVIOUS
  <2>2. target \in Files
    BY <2>1, FilesAre
  <2> QED
    BY <1>1, <1>3, <2>1, <2>2, BeginKeeps
<1> QED
  BY <1>2, <1>3 DEF Offer

LEMMA SaveKeeps ==
  ASSUME Inv, Shaped, NEW p \in Procs, SaveConfig(p)
  PROVE  Kept
<1>1. /\ At(p, "saving") /\ left' = left /\ UNCHANGED tmux
      /\ proc' = [Stirred EXCEPT ![p].at = "offering"]
  BY DEF SaveConfig
<1>2. DOMAIN proc' = Procs /\ \A q \in Procs : DOMAIN proc'[q] = DOMAIN proc[q]
  BY <1>1 DEF Stirred
<1>3. Shaped'
  BY <1>1, <1>2 DEF Shaped
<1>4. /\ proc'[p].at = "offering"
      /\ \A q \in Procs : q # p => proc'[q].at = proc[q].at
  BY <1>1 DEF Stirred, Shaped, Steps
<1>5. ASSUME CalmInv PROVE CalmInv'
  <2>1. \A q \in Procs : proc[q].at \notin Rewritings /\ proc'[q].at \notin Rewritings
    BY <1>1, <1>4, <1>5 DEF CalmInv, Alone, At, Busy, Rewritings
  <2>2. Alone'
    BY <1>1, <1>4, <1>5 DEF CalmInv, Alone, At, Busy
  <2>3. AtRest' /\ LinesOK'
    BY <1>1, <1>5, <2>1, TmuxStays DEF CalmInv
  <2> QED
    BY <1>1, <1>5, <2>1, <2>2, <2>3 DEF CalmInv
<1> QED
  BY <1>1, <1>3, <1>5 DEF Kept

LEMMA MovesKeep ==
  ASSUME Inv, Shaped, NEW p \in Procs, PreAction(p) \/ Answer(p) \/ Examine(p) \/ Report(p)
  PROVE  Kept
<1>1. /\ left' = left /\ UNCHANGED tmux
      /\ Busy(proc[p]) /\ proc[p].at \notin Rewritings
  BY DEF PreAction, Answer, Examine, Report, At, Busy, Rewritings
<1>2. PICK r : /\ Put(p, r) /\ Steps \subseteq DOMAIN r
               /\ r.at \in {"asking", "acting", "saving", "checking", "done"}
  <2>1. CASE PreAction(p)
    <3>1. CASE Put(p, [proc[p] EXCEPT !.at = "asking", !.then = "acting"])
      <4>1. PICK r : r = [proc[p] EXCEPT !.at = "asking", !.then = "acting"]
        OBVIOUS
      <4>2. DOMAIN r = DOMAIN proc[p] /\ r.at = "asking"
        BY <4>1 DEF Shaped, Steps
      <4> QED
        BY <3>1, <4>1, <4>2 DEF Shaped
    <3>2. CASE Go(p, "acting")
      BY <3>2, GoesTo
    <3> QED
      BY <2>1, <3>1, <3>2 DEF PreAction, Go
  <2>2. CASE Answer(p)
    <3>1. PICK answer : Put(p, [proc[p] EXCEPT !.at = "saving", !.answer = answer])
      BY <2>2 DEF Answer
    <3>2. PICK r : r = [proc[p] EXCEPT !.at = "saving", !.answer = answer]
      OBVIOUS
    <3>3. DOMAIN r = DOMAIN proc[p] /\ r.at = "saving"
      BY <3>2 DEF Shaped, Steps
    <3> QED
      BY <3>1, <3>2, <3>3 DEF Shaped
  <2>3. CASE Examine(p)
    <3>1. PICK r : r = [proc[p] EXCEPT !.at = "checking", !.answer = file]
      OBVIOUS
    <3>2. DOMAIN r = DOMAIN proc[p] /\ r.at = "checking"
      BY <3>1 DEF Shaped, Steps
    <3> QED
      BY <2>3, <3>1, <3>2 DEF Examine, Shaped
  <2>4. CASE Report(p)
    <3>1. PICK report : Put(p, [proc[p] EXCEPT !.at = "done", !.answer = Absent,
                                               !.report = report])
      BY <2>4 DEF Report
    <3>2. PICK r : r = [proc[p] EXCEPT !.at = "done", !.answer = Absent, !.report = report]
      OBVIOUS
    <3>3. DOMAIN r = DOMAIN proc[p] /\ r.at = "done"
      BY <3>2 DEF Shaped, Steps
    <3> QED
      BY <3>1, <3>2, <3>3 DEF Shaped
  <2> QED
    BY <2>1, <2>2, <2>3, <2>4
<1>3. r.at \notin Rewritings
  BY <1>2 DEF Rewritings
<1> QED
  BY <1>1, <1>2, <1>3, MoveKeeps

LEMMA RewriteKeeps ==
  ASSUME Inv, Shaped, NEW p \in Procs, ReadTmux(p) \/ TruncateTmux(p) \/ WriteTmux(p)
  PROVE  Kept
<1>1. left' = left
  BY DEF ReadTmux, TruncateTmux, WriteTmux
<1>2. PICK r : Put(p, r) /\ Steps \subseteq DOMAIN r
  <2>1. \/ Put(p, Onward(proc[p]))
        \/ Put(p, [proc[p] EXCEPT !.at = "truncating", !.text = Rewritten(proc[p])])
        \/ Put(p, [proc[p] EXCEPT !.at = "writing"])
    BY DEF ReadTmux, TruncateTmux, WriteTmux, Go
  <2>2. /\ DOMAIN Onward(proc[p]) = DOMAIN proc[p]
        /\ DOMAIN [proc[p] EXCEPT !.at = "truncating", !.text = Rewritten(proc[p])]
             = DOMAIN proc[p]
        /\ DOMAIN [proc[p] EXCEPT !.at = "writing"] = DOMAIN proc[p]
    BY DEF Onward
  <2> QED
    BY <2>1, <2>2 DEF Shaped
<1>3. Shaped'
  BY <1>1, <1>2, PutKeepsShape
<1>4. ASSUME CalmInv PROVE CalmInv'
  BY <1>4, ReadIsCalm, TruncateIsCalm, WriteIsCalm
<1> QED
  BY <1>1, <1>3, <1>4 DEF Kept

LEMMA KillKeeps ==
  ASSUME Inv, Shaped, NEW p \in Procs, Kill(p)
  PROVE  Kept
<1>1. Put(p, Idle) /\ Spend("kills") /\ Steps \subseteq DOMAIN Idle
  BY DEF Kill, Idle, Steps
<1>2. left'.calm = left.calm /\ DOMAIN left' = DOMAIN left
  BY <1>1, SpendIs
<1>3. Shaped'
  BY <1>1, <1>2, PutKeepsShape
<1>4. ~CalmInv
  BY <1>1 DEF Spend, CalmInv
<1> QED
  BY <1>2, <1>3, <1>4 DEF Kept

LEMMA StepKeeps == Inv /\ Shaped /\ [Next]_vars => Kept
<1> SUFFICES ASSUME Inv, Shaped, [Next]_vars PROVE Kept
  OBVIOUS
<1>1. CASE UNCHANGED vars
  <2>1. UNCHANGED tmux /\ left' = left /\ proc' = proc
    BY <1>1 DEF vars
  <2>2. CalmInv => CalmInv'
    BY <2>1, Aside DEF Inv
  <2> QED
    BY <2>1, <2>2 DEF Kept, Shaped
<1>2. CASE EditConfig \/ Upgrade \/ InstallProgram \/ EditTmux
  BY <1>2, WorldKeeps
<1>3. ASSUME NEW p \in Procs, Step(p) PROVE Kept
  BY <1>3, ActKeeps, OfferKeeps, SaveKeeps, MovesKeep, RewriteKeeps DEF Step
<1>4. ASSUME NEW p \in Procs, NEW command, NEW tty, Run(p, command, tty) PROVE Kept
  BY <1>4, RunKeeps
<1>5. ASSUME NEW p \in Procs, Kill(p) PROVE Kept
  BY <1>5, KillKeeps
<1> QED
  BY <1>1, <1>2, <1>3, <1>4, <1>5 DEF Next

----------------------------------------------------------------------------
(* The theorem of the tmux files.                                          *)

\* BindingsSettle, for every pair of files gmux and their user may have left, any number
\* of commands and edits between them: the user keeps their lines, and after an install
\* there is one block, in a file that tmux loads unless ~/.tmux.conf names the other file
\* without sourcing it; after an uninstall there is none.
THEOREM BindingsHold == Spec => []BindingsSettle
<1>1. Init => TmuxInv
  BY InitIs, CalmAtFirst DEF TmuxInv
<1>2. TmuxInv /\ [Next]_vars => TmuxInv'
  BY StepIs, StepKeeps DEF TmuxInv, Kept
<1>3. TmuxInv => BindingsSettle
  BY BindingsFollow DEF TmuxInv
<1> QED
  BY <1>1, <1>2, <1>3, PTL DEF Spec

-----------------------------------------------------------------------------
(***************************************************************************)
(* The panes.                                                              *)
(***************************************************************************)

----------------------------------------------------------------------------
(* Panes and sessions.                                                     *)

Agents   == [session : Sessions \cup {NoSession}, argv : BOOLEAN, since : Nat, run : BOOLEAN]
FileData == [started : Nat, updated : Nat]

\* What is open, what runs, and what was written.
PanesOK ==
  /\ now \in Nat \ {0} /\ agent \in [Panes -> Agents] /\ files \in [Sessions -> FileData]
  /\ pane \in [Panes -> {"unborn", "open", "closed"}]
  /\ DOMAIN wrap = Panes /\ \A p \in Panes : {"at"} \subseteq DOMAIN wrap[p]

\* An agent is in an open pane and has its session to itself; no two started at once,
\* and no two files were written or begun at once.
Distinct ==
  /\ \A p \in Panes : Runs(p) => p \in Open /\ agent[p].since < now
  /\ \A p \in Panes : wrap[p].at = "listed" => p \in Open /\ ~Runs(p)
  /\ \A p, q \in Panes : p # q /\ Runs(p) /\ Runs(q) =>
       agent[p].session # agent[q].session /\ agent[p].since # agent[q].since
  /\ \A s \in Written : files[s].started < now /\ files[s].updated < now
  /\ \A s, t \in Written : s # t =>
       files[s].started # files[t].started /\ files[s].updated # files[t].updated

PanesInv == PanesOK /\ Distinct

LEMMA FewerIsLess ==
  ASSUME NEW B, IsFiniteSet(B), NEW A \in SUBSET B, NEW x \in B, x \notin A
  PROVE  Cardinality(A) < Cardinality(B)
<1>1. IsFiniteSet(A) /\ Cardinality(A) <= Cardinality(B) /\ Cardinality(A) # Cardinality(B)
  BY FS_Subset
<1>2. Cardinality(A) \in Nat /\ Cardinality(B) \in Nat
  BY <1>1, FS_CardinalityType
<1> QED
  BY <1>1, <1>2

\* tmux lists every open pane once.
LEMMA OrdersAre ==
  ASSUME NEW order \in Orders
  PROVE  /\ IsFiniteSet(Open) /\ Len(order) \in Nat /\ DOMAIN order = 1..Len(order)
         /\ ToSet(order) = Open
         /\ \A i, j \in DOMAIN order : order[i] = order[j] => i = j
         /\ \A p \in Open : Place(order, p) \in 1..Len(order) /\ order[Place(order, p)] = p
<1>1. Open \in SUBSET Panes /\ IsFiniteSet(Panes)
  BY SessionsAssumption DEF Open
<1>2. IsFiniteSet(Open) /\ Cardinality(Open) \in Nat
  BY <1>1, FS_Subset, FS_CardinalityType
<1> DEFINE D == 1..Cardinality(Open)
<1>3. order \in [D -> Open] /\ \A i, j \in D : i # j => order[i] # order[j]
  BY DEF Orders, SetToSeqs
<1>4. Len(order) = Cardinality(Open) /\ DOMAIN order = 1..Len(order)
  BY <1>2, <1>3
<1>5. order \in Injection(D, Open)
  BY <1>3 DEF Injection, IsInjective
<1>6. Cardinality(D) = Cardinality(Open)
  BY <1>2, FS_Interval
<1>7. order \in Surjection(D, Open)
  BY <1>2, <1>5, <1>6, FS_Injection
<1>8. ToSet(order) = Open
  BY <1>3, <1>7 DEF ToSet, Surjection
<1>9. \A p \in Open : \E i \in DOMAIN order : order[i] = p
  BY <1>8 DEF ToSet
<1>10. \A p \in Open : Place(order, p) \in DOMAIN order /\ order[Place(order, p)] = p
  BY <1>9 DEF Place
<1> QED
  BY <1>2, <1>3, <1>4, <1>8, <1>10

----------------------------------------------------------------------------
(* Which pane is older.                                                    *)

LEMMA SinceIs ==
  ASSUME PanesOK, NEW p \in Panes, NEW seen
  PROVE  Since(p, seen) \in Nat
BY SessionsAssumption DEF PanesOK, Agents, Since

LEMMA OlderIs ==
  ASSUME PanesOK, NEW order \in Orders, NEW seen
  PROVE  /\ \A p \in Open : ~Older(order, p, p, seen)
         /\ \A p, q \in Open : p # q => Older(order, p, q, seen) \/ Older(order, q, p, seen)
         /\ \A p, q, r \in Open :
              Older(order, p, q, seen) /\ Older(order, q, r, seen) => Older(order, p, r, seen)
<1>1. \A p \in Open : Since(p, seen) \in Nat
  BY SinceIs DEF Open
<1>2. \A p \in Open : Place(order, p) \in Nat
  BY OrdersAre
<1>3. \A p, q \in Open : Place(order, p) = Place(order, q) => p = q
  BY OrdersAre
<1> QED
  BY <1>1, <1>2, <1>3 DEF Older

\* Two panes have two ranks.
LEMMA YouthsDiffer ==
  ASSUME PanesOK, NEW order \in Orders, NEW seen, NEW members \in SUBSET Open,
         NEW p \in members, NEW q \in members, p # q
  PROVE  Youth(order, members, p, seen) # Youth(order, members, q, seen)
<1>1. ASSUME NEW a \in members, NEW b \in members, Older(order, a, b, seen)
      PROVE  Youth(order, members, a, seen) < Youth(order, members, b, seen)
  <2> DEFINE A == {r \in members : Older(order, r, a, seen)}
             B == {r \in members : Older(order, r, b, seen)}
  <2>1. A \in SUBSET B /\ a \in B /\ a \notin A
    BY <1>1, OlderIs
  <2>2. IsFiniteSet(B)
    BY OrdersAre, FS_Subset
  <2> QED
    BY <2>1, <2>2, FewerIsLess DEF Youth
<1>2. \A a \in members : Youth(order, members, a, seen) \in Nat
  <2> TAKE a \in members
  <2>1. IsFiniteSet({r \in members : Older(order, r, a, seen)})
    BY OrdersAre, FS_Subset
  <2> QED
    BY <2>1, FS_CardinalityType DEF Youth
<1>3. Older(order, p, q, seen) \/ Older(order, q, p, seen)
  BY OlderIs
<1> QED
  BY <1>1, <1>2, <1>3

----------------------------------------------------------------------------
(* A group is paired.                                                      *)

LEMMA TheOneIs ==
  ASSUME NEW same, TheOne(same) # NoSession
  PROVE  TheOne(same) \in same
BY DEF TheOne

LEMMA PairIs ==
  ASSUME NEW order, NEW seen, NEW members, NEW pool, NEW paired,
         paired = Pair(members, pool, order, seen), NEW p \in members
  PROVE  paired[p] = TheOne(Aged(Live(pool, Cardinality(members)), Youth(order, members, p, seen)))
BY DEF Pair

\* A session a pane is given is one of the pool, at the pane's own place in it.
LEMMA PairedIs ==
  ASSUME NEW order, NEW seen, NEW members, NEW pool,
         NEW paired, paired = Pair(members, pool, order, seen),
         NEW p \in members, paired[p] # NoSession
  PROVE  /\ paired[p] \in pool
         /\ Age(paired[p], Live(pool, Cardinality(members))) = Youth(order, members, p, seen)
<1> DEFINE live == Live(pool, Cardinality(members))
           same == Aged(live, Youth(order, members, p, seen))
<1>1. paired[p] = TheOne(same)
  BY PairIs
<1> HIDE DEF live
<1>2. paired[p] \in same
  BY <1>1, TheOneIs
<1>3. live \subseteq pool
  BY DEF live, Live
<1> QED
  BY <1>2, <1>3 DEF same, Aged, live

\* No session is given to two panes.
LEMMA PairedOnce ==
  ASSUME PanesOK, NEW order \in Orders, NEW seen, NEW members \in SUBSET Open, NEW pool,
         NEW paired, paired = Pair(members, pool, order, seen),
         NEW p \in members, NEW q \in members, p # q, paired[p] # NoSession
  PROVE  paired[p] # paired[q]
<1> SUFFICES ASSUME paired[p] = paired[q] PROVE FALSE
  OBVIOUS
<1>1. /\ Age(paired[p], Live(pool, Cardinality(members))) = Youth(order, members, p, seen)
      /\ Age(paired[q], Live(pool, Cardinality(members))) = Youth(order, members, q, seen)
  BY PairedIs
<1> QED
  BY <1>1, YouthsDiffer

----------------------------------------------------------------------------
(* The groups, one after the other.                                        *)

Exacts(order, seen) ==
  LET exact == [p \in ToSet(order) |-> Exact(p, seen)]
  IN [out |-> exact, claimed |-> {exact[p] : p \in ToSet(order)} \ {NoSession}]

Groups(order, seen, n, g) ==
  g = [m \in 0..n |-> IF m = 0 THEN Exacts(order, seen)
                      ELSE PairGroup(order, g[m - 1], order[m], seen)]

LEMMA GroupsExist ==
  ASSUME NEW order, NEW seen, NEW n \in Nat
  PROVE  \E g : Groups(order, seen, n, g)
<1> DEFINE S == {m \in Nat : \E g : Groups(order, seen, m, g)}
<1>1. 0 \in S
  <2> DEFINE g == [m \in 0..0 |-> Exacts(order, seen)]
  <2>1. \A m \in 0..0 : m = 0
    OBVIOUS
  <2>2. g = [m \in 0..0 |-> IF m = 0 THEN Exacts(order, seen)
                            ELSE PairGroup(order, g[m - 1], order[m], seen)]
    BY <2>1
  <2> HIDE DEF g
  <2>3. Groups(order, seen, 0, g)
    BY <2>2 DEF Groups
  <2> QED
    BY <2>3
<1>2. ASSUME NEW k \in S
      PROVE  k + 1 \in S
  <2>1. k \in Nat /\ k + 1 \in Nat
    OBVIOUS
  <2>2. PICK g : Groups(order, seen, k, g)
    OBVIOUS
  <2> DEFINE h == [m \in 0..(k + 1) |-> IF m = k + 1 THEN PairGroup(order, g[k], order[k + 1], seen)
                                        ELSE g[m]]
  <2>3. ASSUME NEW m \in 0..(k + 1)
        PROVE  h[m] = IF m = 0 THEN Exacts(order, seen)
                      ELSE PairGroup(order, h[m - 1], order[m], seen)
    <3>1. CASE m = k + 1
      <4>1. m # 0 /\ m - 1 = k /\ k \in 0..(k + 1) /\ k # k + 1
        BY <2>1, <3>1
      <4>2. h[m - 1] = g[k]
        BY <4>1
      <4>3. h[m] = PairGroup(order, g[k], order[k + 1], seen)
        BY <3>1
      <4> HIDE DEF h
      <4> QED
        BY <3>1, <4>1, <4>2, <4>3
    <3>2. CASE m # k + 1
      <4>1. m \in 0..k /\ (m # 0 => m - 1 \in 0..k /\ m - 1 \in 0..(k + 1) /\ m - 1 # k + 1)
        BY <2>1, <3>2
      <4>2. h[m] = g[m] /\ (m # 0 => h[m - 1] = g[m - 1])
        BY <3>2, <4>1
      <4>3. g[m] = IF m = 0 THEN Exacts(order, seen)
                   ELSE PairGroup(order, g[m - 1], order[m], seen)
        BY <2>2, <4>1 DEF Groups
      <4> HIDE DEF h
      <4> QED
        BY <4>2, <4>3
    <3> QED
      BY <3>1, <3>2
  <2>4. h = [m \in 0..(k + 1) |-> IF m = 0 THEN Exacts(order, seen)
                                  ELSE PairGroup(order, h[m - 1], order[m], seen)]
    BY <2>3
  <2> HIDE DEF h
  <2>5. Groups(order, seen, k + 1, h)
    BY <2>4 DEF Groups
  <2> QED
    BY <2>1, <2>5
<1> HIDE DEF S
<1>3. S = Nat
  <2>1. S \in SUBSET Nat
    BY DEF S
  <2> QED
    BY <1>1, <1>2, <2>1, Induction
<1> QED
  BY <1>3 DEF S

\* What was paired after so many panes.
LEMMA ResolveIs ==
  ASSUME NEW order, NEW seen, Len(order) \in Nat
  PROVE  \E g : /\ g[0] = Exacts(order, seen)
                /\ \A n \in 1..Len(order) : g[n] = PairGroup(order, g[n - 1], order[n], seen)
                /\ Resolve(order, seen) = g[Len(order)].out
<1> DEFINE N == Len(order)
           P(g) == g = [m \in 0..N |-> IF m = 0 THEN Exacts(order, seen)
                                       ELSE PairGroup(order, g[m - 1], order[m], seen)]
           f == CHOOSE g : P(g)
<1>1. \A g : Groups(order, seen, N, g) <=> P(g)
  BY DEF Groups
<1>2. \E g : P(g)
  BY <1>1, GroupsExist
<1>3. P(f)
  BY <1>2
<1>4. Resolve(order, seen) = f[N].out
  BY DEF Resolve, Exacts
<1> HIDE DEF f
<1>5. /\ f[0] = Exacts(order, seen)
      /\ \A n \in 1..N : f[n] = PairGroup(order, f[n - 1], order[n], seen)
  BY <1>3
<1> QED
  BY <1>4, <1>5

----------------------------------------------------------------------------
(* No session is guessed twice.                                            *)

Apart(seen, acc) ==
  /\ \A p \in Open : Exact(p, seen) # NoSession => acc.out[p] = Exact(p, seen)
  /\ \A p \in Open : acc.out[p] # NoSession => acc.out[p] \in acc.claimed
  /\ \A p, q \in Open : p # q /\ acc.out[p] = acc.out[q] /\ acc.out[p] # NoSession
                          => Exact(p, seen) # NoSession /\ Exact(q, seen) # NoSession

LEMMA PoolIs ==
  ASSUME NEW dir, NEW h, NEW hard, NEW claimed
  PROVE  Candidates(dir, h, hard, claimed) \subseteq Written \ claimed
BY DEF Candidates

LEMMA ExactsAre ==
  ASSUME NEW order \in Orders, NEW seen
  PROVE  /\ \A p \in Open : Exacts(order, seen).out[p] = Exact(p, seen)
         /\ Exacts(order, seen).claimed = {Exact(p, seen) : p \in Open} \ {NoSession}
<1>1. ToSet(order) = Open
  BY OrdersAre
<1> QED
  BY <1>1 DEF Exacts

LEMMA ApartAtFirst ==
  ASSUME NEW order \in Orders, NEW seen
  PROVE  Apart(seen, Exacts(order, seen))
BY ExactsAre DEF Apart

\* A group takes only what nobody has.
LEMMA ApartStays ==
  ASSUME PanesOK, NEW order \in Orders, NEW seen, NEW p \in Open, NEW acc, Apart(seen, acc)
  PROVE  Apart(seen, PairGroup(order, acc, p, seen))
<1> DEFINE g == Group(p, seen)
           members == Members(order, p, seen)
           pool == Candidates(g.dir, g.harness, g.hard, acc.claimed)
           paired == Pair(members, pool, order, seen)
           new == PairGroup(order, acc, p, seen)
<1>1. ToSet(order) = Open
  BY OrdersAre
<1>2. /\ members \in SUBSET Open
      /\ \A q \in members : Exact(q, seen) = NoSession
  BY <1>1 DEF Members
<1>3. /\ \A q \in members : paired[q] # NoSession => paired[q] \in pool
      /\ \A q \in members, r \in members :
           q # r /\ paired[q] # NoSession => paired[q] # paired[r]
  <2> HIDE DEF members, pool
  <2>1. members \in SUBSET Open /\ paired = Pair(members, pool, order, seen)
    BY <1>2
  <2> HIDE DEF paired
  <2> QED
    BY <2>1, PairedIs, PairedOnce
<1>4. \A s \in pool : s \notin acc.claimed
  BY PoolIs
<1>5. \/ new = acc
      \/ new = [out |-> [q \in Open |-> IF q \in members THEN paired[q] ELSE acc.out[q]],
                claimed |-> acc.claimed \cup {paired[q] : q \in members}]
  BY <1>1 DEF PairGroup, Claim
<1> SUFFICES Apart(seen, new)
  OBVIOUS
<1> HIDE DEF new, paired, pool, members
<1>6. CASE new = [out |-> [q \in Open |-> IF q \in members THEN paired[q] ELSE acc.out[q]],
                  claimed |-> acc.claimed \cup {paired[q] : q \in members}]
  <2>1. \A q \in Open : /\ q \in members => new.out[q] = paired[q]
                        /\ q \notin members => new.out[q] = acc.out[q]
    BY <1>6
  <2>2. new.claimed = acc.claimed \cup {paired[q] : q \in members}
    BY <1>6
  <2>3. \A q \in Open : Exact(q, seen) # NoSession => new.out[q] = Exact(q, seen)
    BY <1>2, <2>1 DEF Apart
  <2>4. \A q \in Open : new.out[q] # NoSession => new.out[q] \in new.claimed
    BY <2>1, <2>2 DEF Apart
  <2>5. ASSUME NEW q \in Open, NEW r \in Open, q # r, new.out[q] = new.out[r],
               new.out[q] # NoSession
        PROVE  q \notin members
    <3> SUFFICES ASSUME q \in members PROVE FALSE
      OBVIOUS
    <3>1. new.out[q] = paired[q] /\ new.out[q] \notin acc.claimed
      BY <1>3, <1>4, <2>1, <2>5
    <3>2. r \notin members
      BY <1>3, <2>1, <2>5, <3>1
    <3> QED
      BY <2>1, <2>5, <3>1, <3>2 DEF Apart
  <2>6. \A q, r \in Open : q # r /\ new.out[q] = new.out[r] /\ new.out[q] # NoSession
                             => Exact(q, seen) # NoSession /\ Exact(r, seen) # NoSession
    <3> SUFFICES ASSUME NEW q \in Open, NEW r \in Open, q # r, new.out[q] = new.out[r],
                        new.out[q] # NoSession
                 PROVE  Exact(q, seen) # NoSession /\ Exact(r, seen) # NoSession
      OBVIOUS
    <3>1. q \notin members /\ r \notin members
      BY <2>5
    <3> QED
      BY <2>1, <3>1 DEF Apart
  <2> QED
    BY <2>3, <2>4, <2>6 DEF Apart
<1> QED
  BY <1>5, <1>6

LEMMA SharedFollows == PanesOK => SharedOnlyIfExact
<1> SUFFICES ASSUME PanesOK, NEW order \in Orders, NEW seen \in BOOLEAN
             PROVE  \E acc : acc.out = Resolve(order, seen) /\ Apart(seen, acc)
  BY DEF SharedOnlyIfExact, Apart
<1>1. Len(order) \in Nat /\ \A i \in 1..Len(order) : order[i] \in Open
  BY OrdersAre DEF ToSet
<1>2. PICK g : /\ g[0] = Exacts(order, seen)
               /\ \A n \in 1..Len(order) : g[n] = PairGroup(order, g[n - 1], order[n], seen)
               /\ Resolve(order, seen) = g[Len(order)].out
  BY <1>1, ResolveIs
<1> DEFINE S == {n \in Nat : n <= Len(order) => Apart(seen, g[n])}
<1>3. 0 \in S
  BY <1>2, ApartAtFirst
<1>4. ASSUME NEW n \in S PROVE n + 1 \in S
  <2> SUFFICES ASSUME n + 1 <= Len(order) PROVE Apart(seen, g[n + 1])
    OBVIOUS
  <2>1. n \in Nat /\ n + 1 \in 1..Len(order) /\ (n + 1) - 1 = n /\ n <= Len(order)
    BY <1>1
  <2>2. Apart(seen, g[n])
    BY <2>1
  <2>3. g[n + 1] = PairGroup(order, g[n], order[n + 1], seen)
    BY <1>2, <2>1
  <2> QED
    BY <1>1, <2>1, <2>2, <2>3, ApartStays
<1>5. S = Nat
  <2>1. S \in SUBSET Nat
    OBVIOUS
  <2> HIDE DEF S
  <2> QED
    BY <1>3, <1>4, <2>1, Induction
<1>6. Apart(seen, g[Len(order)])
  BY <1>1, <1>5
<1> QED
  BY <1>2, <1>6

----------------------------------------------------------------------------
(* Every pane runs an agent that ps shows.                                 *)

AllRun == \A p \in Open : Runs(p)

Named       == {Exact(p, TRUE) : p \in Open} \ {NoSession}
Mates(p)    == {q \in Open : Exact(q, TRUE) = NoSession /\ Group(q, TRUE) = Group(p, TRUE)}
Harder(dir, h, claimed) == {s \in Written \ claimed : DirOf[s] = dir /\ HarnessOf[s] = h}
Pool(g)     == Harder(g.dir, g.harness, Named)
Elders(p)   == {q \in Mates(p) : agent[q].since < agent[p].since}

\* What the resolver gives a pane, in terms that no order enters.
Due(p) ==
  IF Exact(p, TRUE) # NoSession THEN Exact(p, TRUE)
  ELSE TheOne(Aged(Live(Pool(Group(p, TRUE)), Cardinality(Mates(p))), Cardinality(Elders(p))))

LEMMA HardGroup ==
  ASSUME PanesInv, AllRun, NEW p \in Open
  PROVE  LET g == Group(p, TRUE) IN
         /\ agent[p].session \in Sessions /\ Hard(p, TRUE) /\ Since(p, TRUE) = agent[p].since
         /\ g.hard /\ g.harness = HarnessOf[agent[p].session] /\ g.harness # NoHarness
         /\ g = [dir |-> g.dir, harness |-> g.harness, hard |-> TRUE]
<1>1. p \in Panes /\ Runs(p) /\ agent[p].session \in Sessions
  BY DEF Open, AllRun, Runs, PanesInv, PanesOK, Agents
<1>2. Hard(p, TRUE) = TRUE /\ Since(p, TRUE) = agent[p].since
  BY <1>1 DEF Hard, Since
<1>3. Harness(p) = HarnessOf[agent[p].session] /\ Harness(p) # NoHarness
  BY <1>1, SessionsAssumption DEF Harness
<1> QED
  BY <1>1, <1>2, <1>3 DEF Group

LEMMA HardPool ==
  ASSUME NEW dir, NEW h, h # NoHarness, NEW hard, hard, NEW claimed
  PROVE  Candidates(dir, h, hard, claimed) = Harder(dir, h, claimed)
BY DEF Candidates, Harder

\* No two agents started at once.
LEMMA ElderIs ==
  ASSUME PanesInv, AllRun, NEW order \in Orders, NEW p \in Open, NEW q \in Open
  PROVE  Older(order, q, p, TRUE) <=> agent[q].since < agent[p].since
<1>1. /\ Since(p, TRUE) = agent[p].since /\ Since(q, TRUE) = agent[q].since
      /\ agent[p].since \in Nat /\ agent[q].since \in Nat
  BY HardGroup DEF PanesInv, PanesOK, Agents, Open
<1>2. p # q => agent[p].since # agent[q].since
  BY DEF PanesInv, Distinct, AllRun, Open
<1>3. Place(order, p) \in Nat /\ Place(order, q) \in Nat
  BY OrdersAre
<1>4. CASE p = q
  <2>1. \A x \in Nat : ~(x < x)
    OBVIOUS
  <2>2. ~Older(order, p, p, TRUE)
    <3>1. ~(Since(p, TRUE) < Since(p, TRUE)) /\ ~(Place(order, p) < Place(order, p))
      BY <1>1, <1>3, <2>1
    <3> QED
      BY <3>1, Zenon DEF Older
  <2> QED
    BY <1>1, <1>4, <2>1, <2>2
<1>5. CASE p # q
  BY <1>1, <1>2, <1>3, <1>5 DEF Older
<1> QED
  BY <1>4, <1>5

LEMMA MatesAre ==
  ASSUME NEW order \in Orders, NEW p \in Open
  PROVE  /\ Members(order, p, TRUE) = Mates(p)
         /\ Mates(p) \in SUBSET Open
         /\ \A q \in Mates(p) : Mates(q) = Mates(p) /\ Group(q, TRUE) = Group(p, TRUE)
         /\ Exact(p, TRUE) = NoSession => p \in Mates(p)
BY OrdersAre DEF Members, Mates

LEMMA EldersAre ==
  ASSUME PanesInv, AllRun, NEW order \in Orders, NEW p \in Open, NEW q \in Mates(p)
  PROVE  Youth(order, Mates(p), q, TRUE) = Cardinality(Elders(q))
<1>1. Mates(p) \in SUBSET Open /\ q \in Open /\ Mates(q) = Mates(p)
  BY MatesAre
<1>2. {r \in Mates(p) : Older(order, r, q, TRUE)} = Elders(q)
  BY <1>1, ElderIs DEF Elders
<1> QED
  BY <1>2 DEF Youth

----------------------------------------------------------------------------
(* After n panes.                                                          *)

Reached(order, n, q) == Exact(q, TRUE) # NoSession \/ \E r \in Mates(q) : Place(order, r) <= n

GivenTo(order, n) == [q \in Open |-> IF Reached(order, n, q) THEN Due(q) ELSE NoSession]

Sorted(order, n, acc) ==
  /\ acc.out = GivenTo(order, n)
  /\ Named \subseteq acc.claimed
  /\ \A s \in acc.claimed : s \in Named \cup {NoSession}
       \/ \E q \in Open : /\ Exact(q, TRUE) = NoSession /\ Place(order, q) <= n
                          /\ s \in Pool(Group(q, TRUE))

LEMMA SortedAtFirst ==
  ASSUME NEW order \in Orders
  PROVE  Sorted(order, 0, Exacts(order, TRUE))
<1>1. \A q \in Open : ~(Place(order, q) <= 0)
  BY OrdersAre
<1>2. \A q \in Open : ~\E r \in Mates(q) : Place(order, r) <= 0
  BY <1>1 DEF Mates
<1>3. Exacts(order, TRUE).out = [q \in Open |-> Exact(q, TRUE)]
  BY OrdersAre DEF Exacts
<1>4. [q \in Open |-> Exact(q, TRUE)] = GivenTo(order, 0)
  BY <1>2 DEF Due, GivenTo, Reached
<1>5. Exacts(order, TRUE).claimed = Named
  BY ExactsAre DEF Named
<1> QED
  BY <1>3, <1>4, <1>5 DEF Sorted

\* The pool of a group is what it would be if it came first.
LEMMA PoolIsOwn ==
  ASSUME PanesInv, AllRun, NEW order \in Orders, NEW n \in Nat, NEW acc, Sorted(order, n, acc),
         NEW p \in Open, \A q \in Mates(p) : ~(Place(order, q) <= n)
  PROVE  LET g == Group(p, TRUE) IN
         Candidates(g.dir, g.harness, g.hard, acc.claimed) = Pool(g)
<1> DEFINE g == Group(p, TRUE)
<1>1. g.hard /\ g.harness # NoHarness
  BY HardGroup
<1>2. Candidates(g.dir, g.harness, g.hard, acc.claimed) = Harder(g.dir, g.harness, acc.claimed)
  BY <1>1, HardPool
<1>3. ASSUME NEW s \in Pool(g) PROVE s \notin acc.claimed
  <2> SUFFICES ASSUME s \in acc.claimed PROVE FALSE
    OBVIOUS
  <2>1. s \notin Named /\ s # NoSession
    BY SessionsAssumption DEF Pool, Harder, Written
  <2>2. PICK q \in Open : /\ Exact(q, TRUE) = NoSession /\ Place(order, q) <= n
                          /\ s \in Pool(Group(q, TRUE))
    BY <2>1 DEF Sorted
  <2>3. Group(q, TRUE).dir = g.dir /\ Group(q, TRUE).harness = g.harness
    BY <2>2 DEF Pool, Harder
  <2>4. Group(q, TRUE) = g
    BY <2>3, HardGroup
  <2> QED
    BY <2>2, <2>4 DEF Mates
<1>4. Named \subseteq acc.claimed
  BY DEF Sorted
<1> HIDE DEF g
<1>5. Harder(g.dir, g.harness, acc.claimed) = Pool(g)
  BY <1>3, <1>4 DEF Pool, Harder
<1> QED
  BY <1>2, <1>5 DEF g

LEMMA ReachedNext ==
  ASSUME NEW order \in Orders, NEW n \in Nat, NEW p \in Open, Place(order, p) = n + 1, NEW q \in Open
  PROVE  Reached(order, n + 1, q) <=> Reached(order, n, q) \/ (Exact(q, TRUE) = NoSession /\ p \in Mates(q))
<1>1. ASSUME NEW r \in Open
      PROVE  Place(order, r) <= n + 1 <=> Place(order, r) <= n \/ r = p
  <2>1. Place(order, r) \in Nat /\ (Place(order, r) = Place(order, p) => r = p)
    BY OrdersAre
  <2> QED
    BY <2>1
<1>2. Mates(q) \in SUBSET Open
  BY DEF Mates
<1> DEFINE X == \E r \in Mates(q) : Place(order, r) <= n + 1
           Y == \E r \in Mates(q) : Place(order, r) <= n
<1>3. X <=> Y \/ p \in Mates(q)
  BY <1>1, <1>2
<1> QED
  BY <1>3, Zenon DEF Reached

\* A pane that is exact, or whose group was paired, changes nothing.
LEMMA SortedPast ==
  ASSUME NEW order \in Orders, NEW n \in Nat, NEW acc, Sorted(order, n, acc),
         NEW p \in Open, Place(order, p) = n + 1,
         Exact(p, TRUE) # NoSession \/ \E r \in Mates(p) : Place(order, r) <= n
  PROVE  Sorted(order, n + 1, PairGroup(order, acc, p, TRUE))
<1>1. PairGroup(order, acc, p, TRUE) = acc
  <2>1. ~(p \in Members(order, p, TRUE)
          /\ \A q \in Members(order, p, TRUE) : Place(order, p) <= Place(order, q))
    <3>1. Members(order, p, TRUE) = Mates(p) /\ Mates(p) \in SUBSET Open
      BY MatesAre
    <3>2. CASE Exact(p, TRUE) # NoSession
      BY <3>1, <3>2 DEF Mates
    <3>3. CASE \E r \in Mates(p) : Place(order, r) <= n
      <4>1. PICK r \in Mates(p) : Place(order, r) <= n
        BY <3>3
      <4>2. Place(order, r) \in Nat
        BY <3>1, OrdersAre
      <4>3. ~(Place(order, p) <= Place(order, r))
        BY <4>1, <4>2
      <4> QED
        BY <3>1, <4>3
    <3> QED
      BY <3>2, <3>3
  <2> QED
    BY <2>1 DEF PairGroup
<1>2. ASSUME NEW q \in Open
      PROVE  Reached(order, n + 1, q) <=> Reached(order, n, q)
  <2> SUFFICES ASSUME Exact(q, TRUE) = NoSession, p \in Mates(q) PROVE Reached(order, n, q)
    BY ReachedNext DEF Reached
  <2>1. Exact(p, TRUE) = NoSession /\ Mates(p) = Mates(q)
    BY MatesAre DEF Mates
  <2> QED
    BY <2>1 DEF Reached
<1>3. acc.out = GivenTo(order, n + 1)
  BY <1>2 DEF Sorted, GivenTo
<1>4. \A q \in Open : Place(order, q) <= n => Place(order, q) <= n + 1
  BY OrdersAre
<1>5. Named \subseteq acc.claimed
      /\ \A s \in acc.claimed : s \in Named \cup {NoSession}
           \/ \E q \in Open : /\ Exact(q, TRUE) = NoSession /\ Place(order, q) <= n + 1
                              /\ s \in Pool(Group(q, TRUE))
  BY <1>4 DEF Sorted
<1> QED
  BY <1>1, <1>3, <1>5 DEF Sorted

\* The first pane of a group brings what is due to all of them.
LEMMA PairedIsDue ==
  ASSUME PanesInv, AllRun, NEW order \in Orders, NEW p \in Open, NEW paired,
         paired = Pair(Mates(p), Pool(Group(p, TRUE)), order, TRUE), NEW q \in Mates(p)
  PROVE  paired[q] = Due(q)
<1>1. Mates(q) = Mates(p) /\ Group(q, TRUE) = Group(p, TRUE) /\ Exact(q, TRUE) = NoSession
  BY MatesAre DEF Mates
<1>2. paired[q] = TheOne(Aged(Live(Pool(Group(p, TRUE)), Cardinality(Mates(p))),
                              Youth(order, Mates(p), q, TRUE)))
  BY PairIs
<1>3. Youth(order, Mates(p), q, TRUE) = Cardinality(Elders(q))
  BY EldersAre
<1> QED
  BY <1>1, <1>2, <1>3 DEF Due

LEMMA SortedFirst ==
  ASSUME PanesInv, AllRun, NEW order \in Orders, NEW n \in Nat, NEW acc, Sorted(order, n, acc),
         NEW p \in Open, Place(order, p) = n + 1,
         Exact(p, TRUE) = NoSession, \A q \in Mates(p) : ~(Place(order, q) <= n)
  PROVE  Sorted(order, n + 1, PairGroup(order, acc, p, TRUE))
<1> DEFINE g == Group(p, TRUE)
           paired == Pair(Mates(p), Pool(g), order, TRUE)
           new == [out |-> [q \in Open |-> IF q \in Mates(p) THEN paired[q] ELSE acc.out[q]],
                   claimed |-> acc.claimed \cup {paired[q] : q \in Mates(p)}]
<1>1. Members(order, p, TRUE) = Mates(p) /\ Mates(p) \in SUBSET Open /\ p \in Mates(p)
  BY MatesAre
<1>2. \A q \in Mates(p) : Place(order, p) <= Place(order, q)
  BY <1>1, OrdersAre
<1>3. ToSet(order) = Open
  BY OrdersAre
<1>4. Candidates(g.dir, g.harness, g.hard, acc.claimed) = Pool(g)
  BY PoolIsOwn
<1>5. PairGroup(order, acc, p, TRUE) = new
  BY <1>1, <1>2, <1>3, <1>4 DEF PairGroup, Claim
<1>6. \A q \in Mates(p) : paired[q] = Due(q)
  <2> TAKE q \in Mates(p)
  <2> HIDE DEF paired
  <2>1. paired = Pair(Mates(p), Pool(Group(p, TRUE)), order, TRUE)
    BY DEF paired
  <2> QED
    BY <2>1, PairedIsDue
<1>7. \A q \in Mates(p) : paired[q] = NoSession \/ paired[q] \in Pool(g)
  <2> TAKE q \in Mates(p)
  <2> HIDE DEF paired
  <2>1. paired = Pair(Mates(p), Pool(g), order, TRUE)
    BY DEF paired
  <2> HIDE DEF g
  <2> QED
    BY <2>1, PairedIs
<1> HIDE DEF paired
<1>8. ASSUME NEW q \in Open
      PROVE  new.out[q] = IF Reached(order, n + 1, q) THEN Due(q) ELSE NoSession
  <2>1. CASE q \in Mates(p)
    <3>1. p \in Mates(q) /\ Exact(q, TRUE) = NoSession
      BY <1>1, <2>1, MatesAre DEF Mates
    <3>2. Reached(order, n + 1, q)
      BY <3>1, ReachedNext
    <3> QED
      BY <1>6, <2>1, <3>2
  <2>2. CASE q \notin Mates(p)
    <3>1. ~(Exact(q, TRUE) = NoSession /\ p \in Mates(q))
      BY <2>2 DEF Mates
    <3>2. Reached(order, n + 1, q) <=> Reached(order, n, q)
      BY <3>1, ReachedNext DEF Reached
    <3>3. acc.out[q] = IF Reached(order, n, q) THEN Due(q) ELSE NoSession
      BY DEF Sorted, GivenTo
    <3> QED
      BY <2>2, <3>2, <3>3
  <2> QED
    BY <2>1, <2>2
<1>9. new.out = GivenTo(order, n + 1)
  BY <1>8 DEF GivenTo
<1>10. Named \subseteq new.claimed
  BY DEF Sorted
<1>11. ASSUME NEW s \in new.claimed
       PROVE  s \in Named \cup {NoSession}
                \/ \E q \in Open : /\ Exact(q, TRUE) = NoSession /\ Place(order, q) <= n + 1
                                   /\ s \in Pool(Group(q, TRUE))
  <2>1. CASE s \in acc.claimed
    <3>1. \A q \in Open : Place(order, q) <= n => Place(order, q) <= n + 1
      BY OrdersAre
    <3> QED
      BY <2>1, <3>1 DEF Sorted
  <2>2. CASE s \in {paired[q] : q \in Mates(p)}
    <3>1. Place(order, p) <= n + 1
      OBVIOUS
    <3> QED
      BY <1>7, <2>2, <3>1
  <2> QED
    BY <2>1, <2>2
<1> HIDE DEF new
<1>12. Sorted(order, n + 1, new)
  BY <1>9, <1>10, <1>11 DEF Sorted
<1> QED
  BY <1>5, <1>12

LEMMA ResolveIsDue ==
  ASSUME PanesInv, AllRun, NEW order \in Orders
  PROVE  Resolve(order, TRUE) = [q \in Open |-> Due(q)]
<1>1. Len(order) \in Nat /\ DOMAIN order = 1..Len(order)
  BY OrdersAre
<1>2. PICK g : /\ g[0] = Exacts(order, TRUE)
               /\ \A n \in 1..Len(order) : g[n] = PairGroup(order, g[n - 1], order[n], TRUE)
               /\ Resolve(order, TRUE) = g[Len(order)].out
  BY <1>1, ResolveIs
<1> DEFINE S == {n \in Nat : n <= Len(order) => Sorted(order, n, g[n])}
<1>3. 0 \in S
  BY <1>2, SortedAtFirst
<1>4. ASSUME NEW n \in S
      PROVE  n + 1 \in S
  <2> SUFFICES ASSUME n + 1 <= Len(order) PROVE Sorted(order, n + 1, g[n + 1])
    OBVIOUS
  <2>1. n \in Nat /\ n + 1 \in 1..Len(order) /\ n <= Len(order) /\ (n + 1) - 1 = n
    BY <1>1
  <2>2. Sorted(order, n, g[n])
    BY <2>1
  <2> DEFINE p == order[n + 1]
  <2>3. p \in Open /\ Place(order, p) = n + 1
    BY <1>1, <2>1, OrdersAre DEF ToSet
  <2>4. g[n + 1] = PairGroup(order, g[n], p, TRUE)
    BY <1>2, <2>1
  <2> HIDE DEF p
  <2>5. CASE Exact(p, TRUE) # NoSession \/ \E r \in Mates(p) : Place(order, r) <= n
    BY <2>1, <2>2, <2>3, <2>4, <2>5, SortedPast
  <2>6. CASE Exact(p, TRUE) = NoSession /\ \A r \in Mates(p) : ~(Place(order, r) <= n)
    BY <2>1, <2>2, <2>3, <2>4, <2>6, SortedFirst
  <2> QED
    BY <2>5, <2>6
<1> HIDE DEF S
<1>5. S = Nat
  <2>1. S \in SUBSET Nat
    BY DEF S
  <2> QED
    BY <1>3, <1>4, <2>1, Induction
<1>6. Sorted(order, Len(order), g[Len(order)])
  BY <1>1, <1>5 DEF S
<1>7. \A q \in Open : Reached(order, Len(order), q)
  <2> TAKE q \in Open
  <2> SUFFICES ASSUME Exact(q, TRUE) = NoSession PROVE Reached(order, Len(order), q)
    BY DEF Reached
  <2>1. q \in Mates(q)
    BY MatesAre
  <2>2. Place(order, q) <= Len(order)
    BY <1>1, OrdersAre
  <2> QED
    BY <2>1, <2>2 DEF Reached
<1>8. g[Len(order)].out = GivenTo(order, Len(order))
  BY <1>1, <1>6 DEF Sorted
<1> QED
  BY <1>2, <1>7, <1>8 DEF GivenTo

LEMMA OrderFollows ==
  ASSUME PanesInv
  PROVE  OrderIsImmaterial
BY ResolveIsDue DEF OrderIsImmaterial, AllRun

----------------------------------------------------------------------------
(* A guess that can be right is.                                           *)

OwnSessions(A) == {agent[q].session : q \in A}

LEMMA RunningAre ==
  ASSUME PanesInv, Guessable
  PROVE  /\ AllRun /\ Running = OwnSessions(Open)
         /\ \A q \in Open : agent[q].session \in Written
         /\ \A q, r \in Open : agent[q].session = agent[r].session => q = r
<1>1. AllRun /\ \A q \in Open : Runs(q) /\ agent[q].session \in Written
  BY DEF Guessable, AllRun
<1>2. \A q \in Panes : Runs(q) <=> q \in Open
  BY <1>1 DEF PanesInv, Distinct, Open
<1>3. Running = OwnSessions(Open)
  BY <1>2 DEF Running, OwnSessions, Open
<1>4. \A q, r \in Open : agent[q].session = agent[r].session => q = r
  BY <1>1 DEF PanesInv, Distinct, Open
<1> QED
  BY <1>1, <1>3, <1>4

\* An agent has its session to itself, so panes and sessions are as many.
LEMMA AsMany ==
  ASSUME PanesInv, Guessable, NEW A \in SUBSET Open
  PROVE  IsFiniteSet(OwnSessions(A)) /\ Cardinality(OwnSessions(A)) = Cardinality(A)
<1> DEFINE f == [q \in A |-> agent[q].session]
<1>1. IsFiniteSet(A)
  <2>1. IsFiniteSet(Panes) /\ A \in SUBSET Panes
    BY SessionsAssumption DEF Open
  <2> QED
    BY <2>1, FS_Subset
<1>2. f \in Injection(A, OwnSessions(A))
  BY RunningAre DEF Injection, IsInjective, OwnSessions
<1>3. f \in Surjection(A, OwnSessions(A))
  BY DEF Surjection, OwnSessions
<1>4. ExistsBijection(A, OwnSessions(A))
  BY <1>2, <1>3 DEF ExistsBijection, Bijection
<1> QED
  BY <1>1, <1>4, FS_Bijection

LEMMA ExactIsOwn ==
  ASSUME PanesInv, Guessable, NEW p \in Open
  PROVE  /\ Exact(p, TRUE) # NoSession => Exact(p, TRUE) = agent[p].session
         /\ Exact(p, TRUE) = NoSession => ~agent[p].argv
<1>1. agent[p].session \in Written /\ NoSession \notin Written
  BY SessionsAssumption, RunningAre DEF Written
<1>2. links[p] \in Written => links[p] = agent[p].session
  BY <1>1 DEF Guessable
<1> QED
  BY <1>1, <1>2 DEF Exact

\* The agent's own directory has a session: its own.
LEMMA GuessedGroup ==
  ASSUME PanesInv, Guessable, NEW p \in Open, Exact(p, TRUE) = NoSession
  PROVE  Group(p, TRUE) = [dir |-> DirOf[agent[p].session],
                           harness |-> HarnessOf[agent[p].session], hard |-> TRUE]
<1>1. Runs(p) /\ agent[p].session \in Written /\ ~agent[p].argv
  BY RunningAre, ExactIsOwn DEF AllRun
<1>2. Hard(p, TRUE) = TRUE /\ HasCwd(p, TRUE) = TRUE /\ Harness(p) = HarnessOf[agent[p].session]
  BY <1>1 DEF Hard, HasCwd, Harness
<1> DEFINE s == agent[p].session
<1>3. s \in Candidates(DirOf[s], HarnessOf[s], TRUE, {})
  BY <1>1 DEF Candidates
<1> QED
  BY <1>2, <1>3 DEF Group

LEMMA PoolRuns ==
  ASSUME PanesInv, Guessable, NEW p \in Open, Exact(p, TRUE) = NoSession
  PROVE  /\ OwnSessions(Mates(p)) \subseteq Pool(Group(p, TRUE))
         /\ \A s \in Pool(Group(p, TRUE)) : s \in Running => s \in OwnSessions(Mates(p))
<1> DEFINE g == Group(p, TRUE)
<1>1. ASSUME NEW q \in Open, Exact(q, TRUE) = NoSession
      PROVE  /\ Group(q, TRUE).dir = DirOf[agent[q].session]
             /\ Group(q, TRUE).harness = HarnessOf[agent[q].session]
             /\ Group(q, TRUE) = [dir |-> DirOf[agent[q].session],
                                  harness |-> HarnessOf[agent[q].session], hard |-> TRUE]
  <2>1. Group(q, TRUE) = [dir |-> DirOf[agent[q].session],
                          harness |-> HarnessOf[agent[q].session], hard |-> TRUE]
    BY <1>1, GuessedGroup
  <2> DEFINE r == [dir |-> DirOf[agent[q].session], harness |-> HarnessOf[agent[q].session], hard |-> TRUE]
  <2>2. r.dir = DirOf[agent[q].session] /\ r.harness = HarnessOf[agent[q].session]
    OBVIOUS
  <2> HIDE DEF r
  <2>3. Group(q, TRUE) = r
    BY <2>1 DEF r
  <2> QED
    BY <2>1, <2>2, <2>3
<1>2. \A q \in Open : agent[q].session \in Named <=> Exact(q, TRUE) # NoSession
  <2> TAKE q \in Open
  <2>1. agent[q].session # NoSession
    BY RunningAre DEF AllRun, Runs
  <2>2. ASSUME agent[q].session \in Named PROVE Exact(q, TRUE) # NoSession
    <3>1. PICK r \in Open : agent[q].session = Exact(r, TRUE) /\ Exact(r, TRUE) # NoSession
      BY <2>2 DEF Named
    <3>2. agent[q].session = agent[r].session
      BY <3>1, ExactIsOwn
    <3>3. q = r
      BY <3>2, RunningAre
    <3> QED
      BY <3>1, <3>3
  <2>3. ASSUME Exact(q, TRUE) # NoSession PROVE agent[q].session \in Named
    BY <2>1, <2>3, ExactIsOwn DEF Named
  <2> QED
    BY <2>2, <2>3
<1>3. ASSUME NEW q \in Mates(p)
      PROVE  agent[q].session \in Pool(g)
  <2>1. q \in Open /\ Exact(q, TRUE) = NoSession /\ Group(q, TRUE) = g
    BY DEF Mates
  <2>2. agent[q].session \in Written /\ agent[q].session \notin Named
    BY <1>2, <2>1, RunningAre
  <2>3. DirOf[agent[q].session] = g.dir /\ HarnessOf[agent[q].session] = g.harness
    BY <1>1, <2>1
  <2> QED
    BY <2>2, <2>3 DEF Pool, Harder
<1>4. ASSUME NEW s \in Pool(g), s \in Running
      PROVE  s \in OwnSessions(Mates(p))
  <2>1. PICK q \in Open : s = agent[q].session
    BY <1>4, RunningAre DEF OwnSessions
  <2>2. s \notin Named /\ DirOf[s] = g.dir /\ HarnessOf[s] = g.harness
    BY DEF Pool, Harder
  <2>3. Exact(q, TRUE) = NoSession
    BY <1>2, <2>1, <2>2
  <2>4. Group(q, TRUE) = g
    BY <1>1, <2>1, <2>2, <2>3
  <2> QED
    BY <2>1, <2>3, <2>4 DEF Mates, OwnSessions
<1> QED
  BY <1>3, <1>4 DEF OwnSessions

\* The sessions that ended were written before, so those that run are live.
LEMMA LiveRuns ==
  ASSUME PanesInv, Guessable, NEW p \in Open, Exact(p, TRUE) = NoSession
  PROVE  Live(Pool(Group(p, TRUE)), Cardinality(Mates(p))) = OwnSessions(Mates(p))
<1> DEFINE pool == Pool(Group(p, TRUE))
           taken == OwnSessions(Mates(p))
           k == Cardinality(Mates(p))
           later(s) == {t \in pool : files[t].updated > files[s].updated}
<1>1. taken \subseteq pool /\ pool \subseteq Written /\ Written \subseteq Sessions
  BY PoolRuns DEF Pool, Harder, Written
<1>2. Mates(p) \in SUBSET Open
  BY DEF Mates
<1>3. taken \subseteq Running /\ \A s \in pool : s \in Running => s \in taken
  BY <1>2, PoolRuns, RunningAre DEF OwnSessions
<1>4. IsFiniteSet(taken) /\ Cardinality(taken) = k /\ k \in Nat
  BY <1>2, AsMany, FS_CardinalityType
<1>5. IsFiniteSet(pool)
  <2>1. pool \in SUBSET Sessions
    BY <1>1
  <2> QED
    BY <2>1, SessionsAssumption, FS_Subset
<1>6. \A s \in Sessions : files[s].updated \in Nat
  BY DEF PanesInv, PanesOK, FileData
<1>7. \A s \in taken, t \in pool \ taken : files[t].updated < files[s].updated
  BY <1>1, <1>3 DEF Guessable
<1>8. \A s \in pool : Recency(s, pool) = Cardinality(later(s))
  BY DEF Recency
<1> HIDE DEF pool, taken, k
<1>9. ASSUME NEW s \in taken
      PROVE  Recency(s, pool) < k
  <2>1. later(s) \in SUBSET taken
    BY <1>1, <1>6, <1>7
  <2>2. s \notin later(s)
    BY <1>1, <1>6
  <2> HIDE DEF later
  <2>3. Cardinality(later(s)) < Cardinality(taken)
    BY <1>4, <2>1, <2>2, FewerIsLess
  <2> QED
    BY <1>1, <1>4, <1>8, <2>3
<1>10. ASSUME NEW s \in pool, s \notin taken
       PROVE  ~(Recency(s, pool) < k)
  <2>1. taken \in SUBSET later(s)
    BY <1>1, <1>6, <1>7, <1>10
  <2>2. later(s) \in SUBSET pool
    OBVIOUS
  <2> HIDE DEF later
  <2>3. IsFiniteSet(later(s))
    BY <1>5, <2>2, FS_Subset
  <2>4. Cardinality(taken) <= Cardinality(later(s)) /\ Cardinality(later(s)) \in Nat
    BY <2>1, <2>3, FS_Subset, FS_CardinalityType
  <2> QED
    BY <1>4, <1>8, <2>4
<1>11. Live(pool, k) = taken
  BY <1>1, <1>9, <1>10 DEF Live
<1> QED
  BY <1>11 DEF pool, taken, k

\* In a directory the sessions began in the order of their processes.
LEMMA AgeIsElders ==
  ASSUME PanesInv, Guessable, NEW p \in Open, Exact(p, TRUE) = NoSession, NEW q \in Mates(p)
  PROVE  Age(agent[q].session, OwnSessions(Mates(p))) = Cardinality(Elders(q))
<1>1. /\ Mates(p) \in SUBSET Open /\ Mates(q) = Mates(p) /\ q \in Open /\ Elders(q) \in SUBSET Open
      /\ \A r \in Mates(p) : ~agent[r].argv
  BY ExactIsOwn DEF Mates, Elders
<1>2. /\ \A r \in Open : agent[r].session \in Sessions /\ agent[r].since \in Nat
      /\ \A r \in Open : files[agent[r].session].started \in Nat
      /\ \A r, s \in Open : agent[r].since = agent[s].since => r = s
  <2>1. \A r \in Open : r \in Panes /\ Runs(r)
    BY DEF Guessable, Open
  <2>2. \A r \in Open : agent[r].session \in Sessions /\ agent[r].since \in Nat
    BY <2>1 DEF PanesInv, PanesOK, Agents, Runs
  <2>3. \A r \in Open : files[agent[r].session].started \in Nat
    BY <2>2 DEF PanesInv, PanesOK, FileData
  <2> QED
    BY <2>1, <2>2, <2>3 DEF PanesInv, Distinct
<1>3. \A r, s \in Mates(p) : agent[r].since < agent[s].since
        => files[agent[r].session].started < files[agent[s].session].started
  BY <1>1 DEF Guessable
<1>4. ASSUME NEW r \in Mates(p)
      PROVE  files[agent[r].session].started < files[agent[q].session].started
               <=> agent[r].since < agent[q].since
  <2>1. /\ files[agent[r].session].started \in Nat /\ files[agent[q].session].started \in Nat
        /\ agent[r].since \in Nat /\ agent[q].since \in Nat
        /\ agent[r].since = agent[q].since => r = q
    BY <1>1, <1>2
  <2>2. /\ agent[r].since < agent[q].since
             => files[agent[r].session].started < files[agent[q].session].started
        /\ agent[q].since < agent[r].since
             => files[agent[q].session].started < files[agent[r].session].started
    BY <1>3
  <2>3. r = q => files[agent[r].session].started = files[agent[q].session].started
    OBVIOUS
  <2> QED
    BY <2>1, <2>2, <2>3
<1>5. {t \in OwnSessions(Mates(p)) : files[t].started < files[agent[q].session].started}
        = OwnSessions(Elders(q))
  BY <1>1, <1>4 DEF OwnSessions, Elders
<1> QED
  BY <1>1, <1>5, AsMany DEF Age

LEMMA EldersDiffer ==
  ASSUME PanesInv, Guessable, NEW p \in Open, NEW q \in Mates(p), NEW r \in Mates(p), q # r
  PROVE  Cardinality(Elders(q)) # Cardinality(Elders(r))
<1>1. /\ Mates(p) \in SUBSET Open /\ IsFiniteSet(Open)
      /\ \A s \in Mates(p) : Mates(s) = Mates(p)
  <2>1. IsFiniteSet(Panes) /\ Open \in SUBSET Panes
    BY SessionsAssumption DEF Open
  <2> QED
    BY <2>1, FS_Subset DEF Mates
<1>2. \A s \in Mates(p) : agent[s].since \in Nat
  BY <1>1 DEF PanesInv, PanesOK, Agents, Open
<1>3. ASSUME NEW a \in Mates(p), NEW b \in Mates(p), agent[a].since < agent[b].since
      PROVE  Cardinality(Elders(a)) < Cardinality(Elders(b))
  <2>1. Elders(a) \in SUBSET Elders(b) /\ a \in Elders(b) /\ a \notin Elders(a)
    BY <1>1, <1>2, <1>3 DEF Elders
  <2>2. Elders(b) \in SUBSET Open
    BY <1>1 DEF Elders
  <2>3. IsFiniteSet(Elders(b))
    BY <1>1, <2>2, FS_Subset
  <2> QED
    BY <2>1, <2>3, FewerIsLess
<1>4. \A s \in Mates(p) : Cardinality(Elders(s)) \in Nat
  <2> TAKE s \in Mates(p)
  <2>1. Elders(s) \in SUBSET Open
    BY <1>1 DEF Elders
  <2> QED
    BY <1>1, <2>1, FS_Subset, FS_CardinalityType
<1>5. agent[q].since # agent[r].since
  <2>1. q \in Panes /\ r \in Panes /\ Runs(q) /\ Runs(r)
    BY <1>1 DEF Guessable, Open
  <2> QED
    BY <2>1 DEF PanesInv, Distinct
<1>6. agent[q].since < agent[r].since \/ agent[r].since < agent[q].since
  BY <1>2, <1>5
<1> QED
  BY <1>3, <1>4, <1>6

LEMMA DueIsOwn ==
  ASSUME PanesInv, Guessable, NEW p \in Open
  PROVE  Due(p) = agent[p].session
<1>1. CASE Exact(p, TRUE) # NoSession
  BY <1>1, ExactIsOwn DEF Due
<1>2. CASE Exact(p, TRUE) = NoSession
  <2> DEFINE live == OwnSessions(Mates(p))
             same == Aged(live, Cardinality(Elders(p)))
  <2>1. p \in Mates(p)
    BY <1>2 DEF Mates
  <2>2. Due(p) = TheOne(same)
    BY <1>2, LiveRuns DEF Due
  <2>3. agent[p].session \in same
    BY <1>2, <2>1, AgeIsElders DEF Aged, OwnSessions
  <2>4. ASSUME NEW s \in same
        PROVE  s = agent[p].session
    <3>1. s \in live /\ Age(s, live) = Cardinality(Elders(p))
      BY DEF Aged
    <3>2. PICK q \in Mates(p) : s = agent[q].session
      BY <3>1 DEF OwnSessions
    <3>3. Cardinality(Elders(q)) = Cardinality(Elders(p))
      BY <1>2, <3>1, <3>2, AgeIsElders
    <3> QED
      BY <2>1, <3>2, <3>3, EldersDiffer
  <2> HIDE DEF same
  <2>5. same = {agent[p].session}
    BY <2>3, <2>4
  <2> QED
    BY <2>2, <2>5 DEF TheOne
<1> QED
  BY <1>1, <1>2

LEMMA FreshFollows ==
  ASSUME PanesInv
  PROVE  FreshAgentsResolve
<1> SUFFICES ASSUME Guessable, NEW order \in Orders, NEW p \in Open
             PROVE  Resolve(order, TRUE)[p] = agent[p].session
  BY DEF FreshAgentsResolve
<1>1. AllRun
  BY RunningAre
<1>2. Resolve(order, TRUE) = [q \in Open |-> Due(q)]
  BY <1>1, ResolveIsDue
<1> QED
  BY <1>2, DueIsOwn

----------------------------------------------------------------------------
(* The steps.                                                              *)

LEMMA NoSessionIsNone == NoSession \notin Written
BY SessionsAssumption DEF Written

LEMMA PanesAtFirst == PanesInit => PanesInv
<1> SUFFICES ASSUME PanesInit PROVE PanesInv
  OBVIOUS
<1>1. Len(Earlier) \in Nat /\ DOMAIN Earlier = 1..Len(Earlier)
  BY SessionsAssumption
<1>2. ASSUME NEW s \in ToSet(Earlier)
      PROVE  Place(Earlier, s) \in 1..Len(Earlier) /\ Earlier[Place(Earlier, s)] = s
  BY <1>1 DEF ToSet, Place
<1>3. ASSUME NEW s \in Sessions
      PROVE  /\ s \in ToSet(Earlier) => files[s] = [started |-> Place(Earlier, s), updated |-> Place(Earlier, s)]
             /\ s \notin ToSet(Earlier) => files[s] = NoFile
  BY DEF PanesInit
<1>4. now = Len(Earlier) + 1 /\ files = [s \in Sessions |-> files[s]]
  BY DEF PanesInit
<1>5. files \in [Sessions -> FileData]
  <2>1. ASSUME NEW s \in Sessions PROVE files[s] \in FileData
    <3>1. CASE s \in ToSet(Earlier)
      <4>1. Place(Earlier, s) \in Nat
        BY <1>1, <1>2, <3>1
      <4>2. [started |-> Place(Earlier, s), updated |-> Place(Earlier, s)] \in FileData
        BY <4>1 DEF FileData
      <4>3. files[s] = [started |-> Place(Earlier, s), updated |-> Place(Earlier, s)]
        BY <1>3, <3>1
      <4> QED
        BY <4>2, <4>3
    <3>2. CASE s \notin ToSet(Earlier)
      <4>1. NoFile \in FileData
        BY DEF FileData, NoFile
      <4>2. files[s] = NoFile
        BY <1>3, <3>2
      <4> QED
        BY <4>1, <4>2
    <3> QED
      BY <3>1, <3>2
  <2> QED
    BY <1>4, <2>1
<1>6. \A p \in Panes : ~Runs(p) /\ wrap[p].at = "none" /\ {"at"} \subseteq DOMAIN wrap[p]
  BY DEF PanesInit, NoAgent, Runs, NoWrap
<1>7. PanesOK
  <2>1. agent \in [Panes -> Agents] /\ DOMAIN wrap = Panes
    BY DEF PanesInit, NoAgent, Agents
  <2>2. pane \in [Panes -> {"unborn", "open", "closed"}]
    BY DEF PanesInit
  <2>3. now \in Nat \ {0}
    BY <1>1, <1>4
  <2> QED
    BY <1>5, <1>6, <2>1, <2>2, <2>3 DEF PanesOK
<1>8. Written \subseteq ToSet(Earlier) /\ Written \subseteq Sessions
  BY <1>3 DEF Written
<1>9. \A s \in Written : files[s].started < now /\ files[s].updated < now
  BY <1>1, <1>2, <1>3, <1>4, <1>8
<1>10. \A s, t \in Written : s # t =>
         files[s].started # files[t].started /\ files[s].updated # files[t].updated
  <2> SUFFICES ASSUME NEW s \in Written, NEW t \in Written, s # t
               PROVE  files[s].started # files[t].started /\ files[s].updated # files[t].updated
    OBVIOUS
  <2>1. Place(Earlier, s) # Place(Earlier, t)
    BY <1>2, <1>8
  <2>2. /\ files[s] = [started |-> Place(Earlier, s), updated |-> Place(Earlier, s)]
        /\ files[t] = [started |-> Place(Earlier, t), updated |-> Place(Earlier, t)]
    BY <1>3, <1>8
  <2> QED
    BY <2>1, <2>2
<1> QED
  BY <1>6, <1>7, <1>9, <1>10 DEF PanesInv, Distinct

\* Only the wrapper of a pane steps.
LEMMA OnlyWraps ==
  ASSUME PanesInv, UNCHANGED <<now, pane, agent, files>>, NEW p \in Panes, NEW w,
         wrap' = [wrap EXCEPT ![p] = w], "at" \in DOMAIN w,
         w.at = "listed" => p \in Open /\ ~Runs(p)
  PROVE  PanesInv'
<1>1. Open' = Open /\ Written' = Written /\ \A q \in Panes : Runs(q)' = Runs(q)
  BY DEF Open, Written, Runs
<1>2. DOMAIN wrap' = Panes /\ wrap'[p] = w /\ \A q \in Panes : q # p => wrap'[q] = wrap[q]
  BY DEF PanesInv, PanesOK
<1>3. PanesOK'
  BY <1>2 DEF PanesInv, PanesOK
<1>4. \A q \in Panes : wrap'[q].at = "listed" => q \in Open /\ ~Runs(q)
  BY <1>2 DEF PanesInv, Distinct
<1> QED
  BY <1>1, <1>3, <1>4 DEF PanesInv, Distinct, Runs

\* An agent is gone, and its pane with it or not.
LEMMA AgentGoes ==
  ASSUME PanesInv, UNCHANGED <<now, files>>, NEW p \in Panes,
         pane' \in [Panes -> {"unborn", "open", "closed"}], \A q \in Panes : q # p => pane'[q] = pane[q],
         agent' = [agent EXCEPT ![p] = NoAgent], wrap' = [wrap EXCEPT ![p] = NoWrap]
  PROVE  PanesInv'
<1>1. Written' = Written
  BY DEF Written
<1>2. /\ DOMAIN wrap' = Panes /\ wrap'[p] = NoWrap /\ \A q \in Panes : q # p => wrap'[q] = wrap[q]
      /\ agent' \in [Panes -> Agents] /\ agent'[p] = NoAgent
      /\ \A q \in Panes : q # p => agent'[q] = agent[q]
  BY DEF PanesInv, PanesOK, NoAgent, Agents
<1>3. NoWrap.at = "none" /\ "at" \in DOMAIN NoWrap /\ NoAgent.session = NoSession
  BY DEF NoWrap, NoAgent
<1>4. PanesOK'
  BY <1>2, <1>3 DEF PanesInv, PanesOK
<1>5. ~Runs(p)' /\ \A q \in Panes : q # p => Runs(q)' = Runs(q) /\ (q \in Open => q \in Open')
  BY <1>2, <1>3 DEF Runs, Open
<1>6. /\ \A q \in Panes : Runs(q)' => q \in Open' /\ agent'[q].since < now'
      /\ \A q \in Panes : wrap'[q].at = "listed" => q \in Open' /\ ~Runs(q)'
      /\ \A q, r \in Panes : q # r /\ Runs(q)' /\ Runs(r)' =>
           agent'[q].session # agent'[r].session /\ agent'[q].since # agent'[r].since
  BY <1>2, <1>3, <1>5 DEF PanesInv, Distinct
<1> QED
  BY <1>1, <1>4, <1>6 DEF PanesInv, Distinct, Runs

\* The clock is later than any agent that runs.
LEMMA AgentComes ==
  ASSUME PanesInv, UNCHANGED <<pane, files>>, now' = now + 1, NEW p \in Open, ~Runs(p),
         NEW s \in Sessions, s \notin Running, NEW a \in Agents, a.session = s, a.since = now,
         agent' = [agent EXCEPT ![p] = a],
         DOMAIN wrap' = Panes, wrap'[p].at # "listed",
         \A q \in Panes : "at" \in DOMAIN wrap'[q] /\ (q # p => wrap'[q] = wrap[q])
  PROVE  PanesInv'
<1>1. Written' = Written /\ Open' = Open /\ p \in Panes /\ now \in Nat
  BY DEF Written, Open, PanesInv, PanesOK
<1>2. /\ agent' \in [Panes -> Agents] /\ agent'[p] = a
      /\ \A q \in Panes : q # p => agent'[q] = agent[q]
  BY <1>1 DEF PanesInv, PanesOK
<1>3. PanesOK'
  BY <1>1, <1>2 DEF PanesInv, PanesOK
<1>4. \A q \in Panes : q # p => Runs(q)' = Runs(q)
  BY <1>2 DEF Runs
<1>5. \A q \in Panes : agent[q].since \in Nat /\ (Runs(q) => agent[q].since < now /\ agent[q].session # s)
  BY DEF PanesInv, PanesOK, Agents, Distinct, Running
<1>6. \A q \in Panes : Runs(q)' => q \in Open' /\ agent'[q].since < now'
  <2> TAKE q \in Panes
  <2>1. CASE q = p
    BY <1>1, <1>2, <2>1
  <2>2. CASE q # p
    BY <1>1, <1>2, <1>4, <1>5, <2>2 DEF PanesInv, Distinct
  <2> QED
    BY <2>1, <2>2
<1>7. \A q \in Panes : wrap'[q].at = "listed" => q \in Open' /\ ~Runs(q)'
  BY <1>1, <1>2, <1>4 DEF PanesInv, Distinct
<1>8. \A q, r \in Panes : q # r /\ Runs(q)' /\ Runs(r)' =>
        agent'[q].session # agent'[r].session /\ agent'[q].since # agent'[r].since
  <2> SUFFICES ASSUME NEW q \in Panes, NEW r \in Panes, q # r, Runs(q)', Runs(r)'
               PROVE  agent'[q].session # agent'[r].session /\ agent'[q].since # agent'[r].since
    OBVIOUS
  <2>1. CASE q = p
    BY <1>1, <1>2, <1>4, <1>5, <2>1
  <2>2. CASE r = p
    BY <1>1, <1>2, <1>4, <1>5, <2>2
  <2>3. CASE q # p /\ r # p
    BY <1>2, <1>4, <2>3 DEF PanesInv, Distinct
  <2> QED
    BY <2>1, <2>2, <2>3
<1>9. \A t \in Written : files[t].started < now' /\ files[t].updated < now'
  BY <1>1 DEF PanesInv, PanesOK, Distinct, FileData, Written
<1> QED
  BY <1>1, <1>3, <1>6, <1>7, <1>8, <1>9 DEF PanesInv, Distinct, Runs

\* The clock is later than any file.
LEMMA FileComes ==
  ASSUME PanesInv, NEW p \in Panes, AgentWrites(p)
  PROVE  PanesInv'
<1> DEFINE s == agent[p].session
           d == [started |-> IF files[s] = NoFile THEN now ELSE files[s].started, updated |-> now]
<1>1. /\ s \in Sessions /\ now \in Nat \ {0} /\ now' = now + 1
      /\ files' = [files EXCEPT ![s] = d] /\ UNCHANGED <<pane, agent, wrap>>
  BY DEF AgentWrites, Runs, Tick, PanesInv, PanesOK, Agents
<1>2. files[s] \in FileData /\ d \in FileData /\ files[s].started \in Nat
  BY <1>1 DEF PanesInv, PanesOK, FileData
<1>3. /\ files' \in [Sessions -> FileData] /\ files'[s] = d
      /\ \A t \in Sessions : t # s => files'[t] = files[t]
  BY <1>1, <1>2 DEF PanesInv, PanesOK
<1>4. d.updated = now /\ d.started = IF s \in Written THEN files[s].started ELSE now
  BY <1>1 DEF Written
<1> HIDE DEF s, d
<1>5. /\ Open' = Open /\ \A q \in Panes : Runs(q)' = Runs(q)
      /\ \A t \in Written' : t \in Sessions /\ (t # s => t \in Written)
  BY <1>1, <1>3 DEF Open, Runs, Written
<1>6. PanesOK'
  BY <1>1, <1>3 DEF PanesInv, PanesOK
<1>7. \A t \in Written : files[t].started \in Nat /\ files[t].updated \in Nat
                         /\ files[t].started < now /\ files[t].updated < now
  BY DEF PanesInv, PanesOK, Distinct, FileData, Written
<1>8. \A t \in Written' : files'[t].started < now' /\ files'[t].updated < now'
  BY <1>1, <1>3, <1>4, <1>5, <1>7
<1>9. \A t, u \in Written' : t # u =>
        files'[t].started # files'[u].started /\ files'[t].updated # files'[u].updated
  <2> SUFFICES ASSUME NEW t \in Written', NEW u \in Written', t # u
               PROVE  files'[t].started # files'[u].started /\ files'[t].updated # files'[u].updated
    OBVIOUS
  <2>1. \A x, y \in Written : x # y => files[x].started # files[y].started
                                       /\ files[x].updated # files[y].updated
    BY DEF PanesInv, Distinct
  <2>2. CASE t = s
    BY <1>1, <1>3, <1>4, <1>5, <1>7, <2>1, <2>2
  <2>3. CASE u = s
    BY <1>1, <1>3, <1>4, <1>5, <1>7, <2>1, <2>3
  <2>4. CASE t # s /\ u # s
    BY <1>3, <1>5, <2>1, <2>4
  <2> QED
    BY <2>2, <2>3, <2>4
<1>10. \A q \in Panes : agent[q].since \in Nat
  BY DEF PanesInv, PanesOK, Agents
<1>11. /\ \A q \in Panes : Runs(q) => q \in Open /\ agent[q].since < now'
       /\ \A q \in Panes : wrap[q].at = "listed" => q \in Open /\ ~Runs(q)
       /\ \A q, r \in Panes : q # r /\ Runs(q) /\ Runs(r) =>
            agent[q].session # agent[r].session /\ agent[q].since # agent[r].since
  BY <1>1, <1>10 DEF PanesInv, Distinct
<1> QED
  BY <1>1, <1>5, <1>6, <1>8, <1>9, <1>11 DEF PanesInv, Distinct, Runs

LEMMA PanesStay == PanesInv /\ [PanesNext]_panesVars => PanesInv'
<1> SUFFICES ASSUME PanesInv, [PanesNext]_panesVars PROVE PanesInv'
  OBVIOUS
<1>1. ASSUME UNCHANGED <<now, pane, agent, files, wrap>> PROVE PanesInv'
  BY <1>1 DEF PanesInv, PanesOK, Distinct, Open, Runs, Written
<1>2. "at" \in DOMAIN NoWrap /\ NoWrap.at = "none"
  BY DEF NoWrap
<1>3. \A p \in Panes : "at" \in DOMAIN wrap[p]
  BY DEF PanesInv, PanesOK
<1>4. ASSUME NEW p \in Panes, OpenPane(p) PROVE PanesInv'
  <2>1. pane[p] = "unborn" /\ p \notin Open /\ UNCHANGED <<now, agent, files, wrap>>
    BY <1>4 DEF OpenPane, Open
  <2>2. pane' \in [Panes -> {"unborn", "open", "closed"}] /\ \A q \in Panes : q # p => pane'[q] = pane[q]
    BY <1>4 DEF OpenPane, PanesInv, PanesOK
  <2>3. \A q \in Panes : (q \in Open => q \in Open') /\ Runs(q)' = Runs(q)
    BY <2>1, <2>2 DEF Open, Runs
  <2>4. PanesOK' /\ Written' = Written
    BY <2>1, <2>2 DEF PanesInv, PanesOK, Written
  <2> QED
    BY <2>1, <2>3, <2>4 DEF PanesInv, Distinct, Runs
<1>5. ASSUME NEW p \in Panes, ClosePane(p) PROVE PanesInv'
  <2>1. /\ pane' \in [Panes -> {"unborn", "open", "closed"}] /\ \A q \in Panes : q # p => pane'[q] = pane[q]
        /\ agent' = [agent EXCEPT ![p] = NoAgent] /\ wrap' = [wrap EXCEPT ![p] = NoWrap]
        /\ UNCHANGED <<now, files>>
    BY <1>5 DEF ClosePane, PanesInv, PanesOK
  <2> QED
    BY <2>1, AgentGoes
<1>6. ASSUME NEW p \in Panes, AgentExits(p) PROVE PanesInv'
  <2>1. /\ pane' \in [Panes -> {"unborn", "open", "closed"}] /\ \A q \in Panes : q # p => pane'[q] = pane[q]
        /\ agent' = [agent EXCEPT ![p] = NoAgent] /\ wrap' = [wrap EXCEPT ![p] = NoWrap]
        /\ UNCHANGED <<now, files>>
    BY <1>6 DEF AgentExits, PanesInv, PanesOK
  <2> QED
    BY <2>1, AgentGoes
<1>7. ASSUME NEW p \in Panes, NEW s \in Sessions, Launch(p, s) PROVE PanesInv'
  <2> DEFINE a == [session |-> s, argv |-> s \in Written, since |-> now, run |-> FALSE]
  <2>1. /\ p \in Open /\ ~Runs(p) /\ wrap[p].at = "none" /\ s \notin Running /\ now' = now + 1
        /\ agent' = [agent EXCEPT ![p] = a] /\ UNCHANGED <<pane, files, wrap>>
    BY <1>7 DEF Launch, Free, Startable, Tick
  <2>2. a \in Agents /\ a.session = s /\ a.since = now
    BY DEF Agents, PanesInv, PanesOK
  <2>3. DOMAIN wrap' = Panes /\ wrap'[p].at = "none"
        /\ \A q \in Panes : "at" \in DOMAIN wrap'[q] /\ wrap'[q] = wrap[q]
    BY <1>3, <2>1 DEF PanesInv, PanesOK
  <2> HIDE DEF a
  <2> QED
    BY <2>1, <2>2, <2>3, AgentComes
<1>8. ASSUME NEW p \in Panes, NEW s \in Sessions, RunSpawn(p, s) PROVE PanesInv'
  <2> DEFINE a == [session |-> s, argv |-> s \in Written, since |-> now, run |-> TRUE]
             w == [wrap[p] EXCEPT !.at = "polling"]
  <2>1. /\ wrap[p].at = "listed" /\ s \notin Running /\ now' = now + 1
        /\ agent' = [agent EXCEPT ![p] = a] /\ wrap' = [wrap EXCEPT ![p] = w] /\ UNCHANGED <<pane, files>>
    BY <1>8 DEF RunSpawn, Startable, Tick, Wrap
  <2>2. a \in Agents /\ a.session = s /\ a.since = now
    BY DEF Agents, PanesInv, PanesOK
  <2>3. "at" \in DOMAIN w /\ w.at # "listed"
    BY <1>3
  <2>4. p \in Open /\ ~Runs(p)
    BY <2>1 DEF PanesInv, Distinct
  <2> HIDE DEF a, w
  <2>5. DOMAIN wrap' = Panes /\ wrap'[p].at # "listed"
        /\ \A q \in Panes : "at" \in DOMAIN wrap'[q] /\ (q # p => wrap'[q] = wrap[q])
    BY <1>3, <2>1, <2>3 DEF PanesInv, PanesOK
  <2> QED
    BY <2>1, <2>2, <2>4, <2>5, AgentComes
<1>9. ASSUME NEW p \in Panes, NEW h, RunList(p, h) PROVE PanesInv'
  <2> DEFINE w == [NoWrap EXCEPT !.at = "listed", !.harness = h,
                                 !.before = [s \in Sessions |-> files[s].updated]]
  <2>1. p \in Open /\ ~Runs(p) /\ wrap' = [wrap EXCEPT ![p] = w] /\ UNCHANGED <<now, pane, agent, files>>
    BY <1>9 DEF RunList, Free, Wrap
  <2>2. "at" \in DOMAIN w
    BY <1>2
  <2> HIDE DEF w
  <2> QED
    BY <2>1, <2>2, OnlyWraps
<1>10. ASSUME NEW p \in Panes, RunPick(p) PROVE PanesInv'
  <2> DEFINE w == [wrap[p] EXCEPT !.at = "picked",
       !.picked = CHOOSE s \in Changed(p) : \A t \in Changed(p) : files[t].updated <= files[s].updated]
  <2>1. wrap' = [wrap EXCEPT ![p] = w] /\ UNCHANGED <<now, pane, agent, files>>
    BY <1>10 DEF RunPick, Wrap
  <2>2. "at" \in DOMAIN w /\ w.at = "picked"
    BY <1>3
  <2> HIDE DEF w
  <2> QED
    BY <2>1, <2>2, OnlyWraps
<1>11. ASSUME NEW p \in Panes, RunGivesUp(p) \/ RunPersist(p) PROVE PanesInv'
  <2>1. wrap' = [wrap EXCEPT ![p] = NoWrap] /\ UNCHANGED <<now, pane, agent, files>>
    BY <1>11 DEF RunGivesUp, RunPersist, Wrap
  <2> QED
    BY <1>2, <2>1, OnlyWraps
<1>12. ASSUME NEW p \in Panes, RunRead(p) PROVE PanesInv'
  <2> DEFINE w == [wrap[p] EXCEPT !.at = "read", !.read = links]
  <2>1. wrap' = [wrap EXCEPT ![p] = w] /\ UNCHANGED <<now, pane, agent, files>>
    BY <1>12 DEF RunRead, Wrap
  <2>2. "at" \in DOMAIN w /\ w.at = "read"
    BY <1>3
  <2> HIDE DEF w
  <2> QED
    BY <2>1, <2>2, OnlyWraps
<1>13. ASSUME NEW b \in Pruners, PruneList(b) \/ PruneRead(b) \/ PrunePersist(b) PROVE PanesInv'
  BY <1>1, <1>13 DEF PruneList, PruneRead, PrunePersist
<1>14. CASE UNCHANGED panesVars
  BY <1>1, <1>14 DEF panesVars
<1> QED
  BY <1>4, <1>5, <1>6, <1>7, <1>8, <1>9, <1>10, <1>11, <1>12, <1>13, <1>14, FileComes DEF PanesNext

\* PanesInv: an agent runs in an open pane and has its session to itself, and the clock
\* that agents start by and files are written by is later than all of them.
THEOREM PanesHold == PanesSpec => []PanesInv
BY PanesAtFirst, PanesStay, PTL DEF PanesSpec

\* SharedOnlyIfExact: resolvePanesWithHints shows a session in two panes only when links or
\* command lines put it there, for any panes, sessions and links, in any order of tmux.
THEOREM SharedOnlyExact == PanesSpec => []SharedOnlyIfExact
<1>1. PanesInv => SharedOnlyIfExact
  BY SharedFollows DEF PanesInv
<1> QED
  BY <1>1, PanesHold, PTL

\* OrderIsImmaterial: while every pane runs an agent that ps shows, what a pane resolves to
\* does not depend on the order in which tmux lists the panes.
THEOREM OrderImmaterial == PanesSpec => []OrderIsImmaterial
BY OrderFollows, PanesHold, PTL

\* FreshAgentsResolve: when a guess can be right (Guessable), every pane resolves to the
\* session its agent writes, for any number of panes, directories and old sessions.
THEOREM FreshResolve == PanesSpec => []FreshAgentsResolve
BY FreshFollows, PanesHold, PTL
=============================================================================
