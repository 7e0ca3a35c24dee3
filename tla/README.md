# Verification of gmux

TLA+ models of gmux (`gigamanage`), the TLC runs that check them on small instances, and the
theorems TLAPS proves about them. Paths below are relative to the repository root.

gmux is a command line over the session files that agent CLIs leave behind. Most of it reads
files and prints. The part worth a model is what it does *between* processes: short commands,
detached workers, a daemon and fzf's key bindings share a handful of small files (locks, pid
files, queues, an append-only transcript) with no server between them.

## Inventory

| component | state it keeps | operations | hard behaviour | what makes it correct |
|---|---|---|---|---|
| ask chat (`services/ask-transcript.ts`, `cli/commands/__ask-{send,cancel,run}.ts`, `pick.ts`) | the transcript, its lock, a worker per question | send, cancel, run, close, sweep | four kinds of processes on one lock file; kills, late releases, sleep | one turn at a time, settled once; cancel and quit leave nothing running; history is answered turns |
| background summaries (`services/auto-summarize.ts`, `cli/commands/auto.ts`) | lock, queue, cooldown, summary cache | decide, publish, fork, pass | deciders racing, crash between lock and fork, worker done before the handover | one worker, no feedback loop, no summary of older content, marks end |
| provider runner (`services/provider-process.ts`) | one child process | run, stream, time out, abort | settlement races, chunk order | settled once, every byte teed before the result |
| workspace daemon (`services/daemon.ts`, `workspace.ts`, `pane-registry.ts`, `sensors.ts`) | panes, sensors, model version | tick: diff, observe, sample, evict | partial failure within a tick, panes that change their nature | the model follows tmux; a failing part does not stop the others |
| memory guardian (`services/guardian.ts`) | last fire, dropped since | decide | hysteresis and cooldown | announces once per cooldown or crossing, does not fall silent |
| semantic labels (`services/semantic.ts`, `semantic-gate.ts`) | pending jobs, running jobs, gate | enqueue, pump, run, drain | late, failed, stale and hung results; a bounded pool | newest label wins; a hung call blocks no other pane while the pool has a slot; drain wakes everyone |
| daemon process (`services/daemon-lock.ts`, `cli/commands/daemon.ts`) | lock, socket path | run, status, stop | no exclusive create, a lock that ages under a live owner | one daemon, which `stop` and the clients find |
| model server (`services/daemon-socket.ts`, `daemon-client.ts`) | clients, write chain, snapshot file | join, broadcast, stop | lines in flight while a client joins | clients and file come to the present model, lines do not go back |
| organize (`services/organize.ts`) | a plan, window handles | plan, parse, apply | panes vanish between plan and application | no pane is lost, unknown targets are skipped |
| cockpit (`cli/commands/cockpit.ts`) | mode, busy, generation | submit, cancel, report, confirm | late results after a cancel | nothing is applied unconfirmed, a late result is dropped |
| pane resolution (`services/tmux-resolve.ts`, `pane-links.ts`, `pane-process.ts`) | links file | `gmux run`, resolve, prune | writers that replace the file, guesses that compete | no session is guessed twice, the order of panes does not matter, links of dead panes go |
| watcher (`services/watch.ts`, `cli/commands/watch.ts`) | pid file | start, stop, loop | superseded loops | one watcher, stop stops it |
| index store and answers (`services/index-store.ts`, `views.ts`, `search.ts`, `resolve.ts`, `services/ask.ts`) | `sessions.json` | refresh, ls, grep, show, resume, ask | files that change, tear and vanish under processes that do not know of each other | an entry is of the file it names, an answer is of its time |
| adapters (`adapters/*.ts`, `services/distill.ts`) | ring, sampler, counters | one pass over a transcript | transcripts of any length in constant space | the record says how the work began, went and ended |
| config, providers, wizard, doctor, tmux bindings (`services/config.ts`, `providers.ts`, `cli/commands/{setup,doctor,tmux}.ts`) | `config.json`, two tmux conf files | parse, choose, save, install, remove | a file anyone edits, a catalog that changes, files rewritten in place | no model is called after a no; doctor tells the truth; one block, and every line of the user's |

How they interact: `ls`, the picker and the watcher call `maybeAutoSummarize`; the picker's keys
fork `__ask-send` and `__ask-cancel`, and `__ask-send` forks `__ask-run`; both workers run models
through `runProviderCommand`; the daemon's tick writes the workspace model, whose change events
drive the model server, the border painter and, through the socket, the cockpit. `PROJECT.json`
lists the hazards at their lines, with the properties that would catch each.

## Modules

### `AskChat` (with `Conversation`, `MCAskChat`, `AskChat_proof`)

One picker. `log` is the transcript in file order, `lock` its lock file (absent, created and
still empty, written), `cmd` the one key command fzf waits for (`transform` is synchronous, as
the design document `docs/specs/2026-07-17-picker-chat-design.md` measured), `worker` the
detached workers by pid, `picker` the close handler. What a process does between two awaits is
one action, so `acquireAskLock` is five of them (`AcquireCreate`, `AcquireWrite`, `AcquireCheck`,
`AcquireRemove`, `AcquireRetry`), and a send, a cancel or a close can be cut at each.

* A worker's file handle is `linked` or `unlinked`: after close or sweep removed the transcript,
  what the handle writes is lost, as on a file system.
* Signals go to the process group; `prov` says whether a worker's provider is still running, so
  an orphan is a state, not an omission.
* Time is coarse. A tick is minutes: `Tick` waits for everything but a provider run, and a
  provider run is over after `AskTimeout`. `ClockJump` moves the wall clock alone.
* `Faults` chooses the environment: killed workers, killed commands, a killed or signalled picker,
  a jumping clock.
* `Conversation` is the promise without locks, processes and files: `turns` counts the records of each kind
  a turn has, `closed` says that the chat is over. Only the turn asked last goes on, until one record
  ends it; an answer is not empty; nothing comes after a close. `AskChat!IsAConversation` is the refinement:
  `turns` is read off the transcript (`Story`), and the chat is closed when the picker has removed it.

### `AutoSummarize` (with `MCAutoSummarize`, `AutoSummarize_proof`)

Several deciders (`ls`, the picker, the watcher), workers by pid, and the files `lock`, `queue`,
`checked` (cooldown) and the summary cache `sum`. A session's content is a version number, so
`ShouldRefresh` is a distance of versions and a summary of older content is visible. A model call
creates an automated session, which is what the feedback-loop guard is about. `env` is fixed in
the initial state: `solo` (one decision at a time), `interrupted` (deciders may be killed
halfway), `overlap` (deciders start whenever they like). The last is the environment in which the
lock's creation race exists (see *Findings*), so what depends on exclusion is claimed of the other
two, and of them until a pass has outlived `LOCK_STALE_MS`: nothing refreshes the lock, so the next
decider then starts a second worker beside a live one. The history variable `late` remembers that this
has happened; `NoFeedback`, `MarksEnd` and the spacing of passes are claimed after it too.

### `Semantic` (with `LabelBoard`, `MCSemantic`, `Semantic_proof`)

The semantic worker and the slice of the workspace model it writes. `Tick` is what the daemon's
tick does to that slice (entries come and go, some sensors throw) and sets `todo`, the panes whose
observations `daemon.ts` hands to `enqueue` one after the other; `Enqueue` is the gate, the
coalescing and `schedulePump`; `Pump`, `Answer`, `Fail` and `Finally` are `pump` and `run`, cut at
their microtasks; `Drain` is a caller that found work.

* There is one thread. Code between two awaits is one action; microtasks (`Pump`, `Finally`, a
  rejection) run before the callback of a timer or a child (`Tick`, an answer), so `Drained`
  guards the latter two.
* What a pane shows is a number and the SimHash distance is a difference, enough to tell near from
  far and to let small changes add up. A job is named by its pane and the tick it was taken at:
  `Date.now()` is taken to move forward, and tmux reuses no pane id while its server lives.
* `last` is the gate's memory, `pending` the Map of waiting jobs (at most one per pane, `since` its
  place), `calls` and `done` the jobs that hold a slot. `seen` and `failed` are history.
* `Hung` are the panes whose calls may never settle. Such a call keeps its slot, and the pane is asked for
  again when its screen has changed, so one pane can come to hold every slot (`Clogged`).
* `LabelBoard` is the promise without gate, queue or pool: a label is never replaced by an older
  one, and whatever was asked for is written, given up or superseded. `Semantic` implements it
  with `label` the tick of the entry's label and `owed` the ticks of queued and running jobs.

### `Workspace` (with `MCWorkspace`, `Workspace_proof`)

The daemon's tick and the guardian. `pc` is where a tick waits: `List` (tmux answers), `Resolve`
(the rest of `PaneRegistry.diff`), `Leave(p)` for each pane that vanished, `Watch(p)` for each that
is there, `Measure` (the sample, `Guardian.decide` and what it decides), `Warn(p)` for each pane the
message is typed into, `LogWarning`. Ticks do not overlap (`runDaemonLoop` awaits each), but panes,
agents and memory change between any two of these steps. `Crash` ends the daemon anywhere and
starts another one; its memory is lost, tmux keeps its panes and their pipes.

* `entries`, `gone`, `linked` and `log` are the workspace model, `known` the registry, `sensors` and
  `piping` the sensors, `fired`, `age` and `below` the guardian's `firedAt` and `belowSinceFire`.
* Memory is at the threshold or below. Time counts from the last fire to the cooldown and stops
  there, as nothing more is read of it; between two ticks any amount of it may pass.
* A pane has a directory of its own, and there is one kind of agent. Whether a pane resolves is then
  whether the index has a session for it (`Resolvable`), by link, command line or directory.
* `pipe-pane -o` is a program's interface (tmux): it closes a pipe that exists, and opens one only
  where there was none.
* The state heuristics, sizes and the culprit are data nobody's control depends on. Labels are in
  `Semantic`, which has its own view of the tick.

### `Organize`, `Cockpit` (with `MCCockpit`, `Cockpit_proof`)

`Organize` has the pure part as operators: `HeuristicPlan` (projects in order, each to the window
of its first pane that has one, or to a new one, then the shells), `ParsePlan` (what is read from any reply of a
model), and what tmux makes of a step (`Possible`, `Refusable`, `Effect`; external). A workspace is
a function from pane ids to a window and a kind of work; a window is the panes in it, so a window
whose last pane moves away is gone, which is what can go wrong with a plan.

`Cockpit` is the process around it. A key handler is asynchronous and the next key does not wait
for it, so what one started is state: `submits` (each at the await it is in: `classify`, `plan`,
`load`, `provider`, `answer`), `report`, and `jobs` (each application of a plan, at 0 before
its list, then at the number of a step). One action is the code between two awaits.

* `gen` and `busy` are the code's. `planGen` remembers which submit the plan on screen came from, and
  `still` that the plan was made of the workspace as it is now but for the jobs' own steps; both are
  history.
* The planner reads the snapshot before its await, so a submit carries the plan it will get. With
  `Replies` a model may answer anything, and the deterministic plan is what is left when it fails.
* `phase` is `closing` after `done` while a report is awaited; the code still handles keys then, and
  so does the model.
* `"tmux" \in Faults`: a list of panes fails, a step fails without effect, or times out after it.
* Names, layouts, line editing, the answers of a broadcast and the screen are left out, and so is
  `gmux organize --apply` (no preview, the same `applyPlan`).

### `Panes` (with `MCPanes`, `Surroundings_proof`)

Panes, the agents in them, their session files, `pane-links.json`, the wrapper `gmux run` of each
pane (`wrap`: it lists the sessions, spawns, polls, then reads and replaces the links) and the
views that prune (`prune`: list the panes, read the links, replace them). `Resolve(order, seen)` is
`resolvePanesWithHints` as a function of the panes in the order tmux lists them, of `seen` (whether
`ps` answered), the sessions and the links: the exact pass, the groups by directory and harness in
the order of their first pane, the pairing of the oldest process with the oldest of the sessions
written last, and what is claimed. A guess depends on when processes were started and files begun
and written, so the clock ticks with each of these. `Earlier` are the sessions that were there before, in
the order in which they were written. Sorting and slicing are stated by ranks: the k sessions written last are those
with fewer than k later ones (`Live`), the pane of rank r is the one with r older ones in its group (`Youth`), and
it takes the session with r earlier ones among the live (`Aged`).

### `Background` (with `MCBackground`, `Background_proof`)

Daemons and watchers as processes that run once, `lock`, `path` (the socket), the snapshot `file`,
`record` (the watcher's pid file), the border option, and terminals that give `daemon stop`,
`watch`, `watch --stop` and the toggle. Each read, write, signal and spawn between two awaits is an
action. A lock is `old` after ten minutes. A signal ends a process without handlers where it is; one
with handlers leaves its loop. tmux may refuse the border: `gmux watch` then leaves its watcher without one
(`bare`, history), the toggle ends before it starts a watcher, a daemon closes. `model[d]` is the version of a daemon's model, `queue[d]` its chain of
broadcasts (write the file, then the clients), and `client` what a reader of the socket was sent
last. In a calm run (`left.calm`) commands are given one at a time and run to their end and no lock gets old; elsewhere
a command may be killed between any two steps (`CommandKill`). Crashes of daemons and watchers, interrupts, failed
writes and refusals of tmux happen in both.

### `Transcripts`, `Sessions` (with `MCSessions`, `Sessions_proof`)

`Transcripts` is the one-pass account an adapter keeps of a transcript: `RingPush`, `SamplerPush`,
`ReadClaude`, `ReadCodex`, and the record made of it (`RecordOf`). A line is its kind, its directory
and its marks; a prompt is its ordinal, so `Evidence`, what a model is told of the session, is a
sequence of ordinals and identical texts are not merged.

`Sessions` puts it into processes. Agents write to, tear and remove files; a process loads the
index, finds the files with their mtimes, looks at each, reads those that changed line by line,
replaces the index and answers: `List` (ls), `Search`/`Scan`/`Found` (grep), `Name` (show, resume),
`Gather`/`Question`/`Leave` (ask), `Rebuilt` (index). `paint` is the picker's first frame, straight
from the index. Each file is found at one moment of one walk, and parsed at others. `left` says which
files, lines and commands a run has.

### `Settings` (with `MCSettings`, `Surroundings_proof`)

`file` is the config as its fields decide its parsing (version, provider or null or malformed, opt
out, policy), `choice` what a human said last, `catalog` the version of the list of providers,
`installed` the programs on the path, `conf` and `local` the two tmux files as sequences of lines.
A line of the user's may be one that sources the other file, or one that only names it (`mention`: a comment); the
installer takes both for sourcing (`Target`), tmux the first alone (`Loaded`, external).
`Argv`, `Allowed`, `Policy` are what every command works out anew; `Answer`, `SaveConfig`, `Offer` the
wizard; `ReadTmux`, `TruncateTmux`, `WriteTmux` installation and removal, one file after the other, in
place; `Examine` and `Report` doctor, which reads the config in several places. Editors, upgrades and
other terminals come between any two steps.

## Runs

| run | expects | shows |
|---|---|---|
| `ask_calm` | pass | two questions, two chunks each, workers killed at any point: turns exclude each other, the chat is a `Conversation` (a turn is settled once, and nothing is added to one that was settled or overtaken), cancel reaps the group before it writes `aborted` and browse mode is quiet (`CancelIsTrue`), replayed history is answered turns; no lock outlives its turn, and quitting ends everything |
| `ask_hostile` | pass | every fault at once, a lock that is stale immediately: seqs still never repeat and no two workers share one (`SeqsNameOneTurn`), an `end` still means the whole answer is there |
| `auto_summarize` | pass | forced and plain decisions, crashes of both sides, passes longer than the lock's life: passes are spaced and, until one outlives its lock, there is one worker at a time and announced sessions are tried (`PassesAreOrderly`) and summaries move forward; marks end and nothing feeds back in every case |
| `semantic` | pass | the pool keeps its slots and loses no pump or drainer (`PoolIsSound`); a pane's label follows its screen; the best job starts first; every question of a pane that does not hang is settled and `drain` returns, unless hung calls hold every slot, or any (`EverybodyIsServed`); `LabelBoard` is implemented |
| `workspace` | pass | ticks with failures of tmux and `ps` and a restart, under every policy: the model follows tmux, announcements are spaced; pressure that lasts is announced once per cooldown, as the code has it and the docs do not (see *Findings*), and closed panes leave (`DaemonMakesProgress`) |
| `workspace_shell` | violation | the guardian types into a shell in which no agent ever ran |
| `cockpit` | pass | prompts, cancels, a report, late answers, models that answer anything, tmux calls that fail: plans name known panes and bound handles, the plan of an earlier or cancelled prompt never opens the confirm screen, the prompt is locked only while something is in flight, the deterministic plan can be carried out and leaves nothing to do (`PlansWork`), an applied plan closes the cockpit |
| `panes` | pass | agents started by hand and by `gmux run`, with a pruning view beside them: a session is in two panes only if a link or a command line says so, the order of the panes does not matter while `ps` shows every agent, a guess is right where it can be, and links of dead panes go for good |
| `background` | pass | what daemons, watchers, commands and clients leave in lock, socket, record, border, file and connections, calm and crossing, with crashes, failed writes, refusals of tmux and killed commands; which daemon and which watcher run, and what the file shows, is claimed of calm runs |
| `background_twice` | violation | two daemons run: they cross between the read and the write of the lock, or the lock of the first got old |
| `sessions` | pass | the account of a transcript after every line, what the shared index may hold, and what each command answers while files change, tear and vanish |
| `settings` | pass | the choice under editors, upgrades, kills and a second terminal; doctor in every surrounding; the bindings through installs, removals and edits, under a conf that sources the other file, names it, or neither |

**Bounds and why they are enough.** Two questions are needed for a second worker, a stale seq and
history; two chunks for a partial answer; three ticks for a lock that ages past two. The clock
stops with the picker, as nobody reads it after. `ask_hostile` sets `LockStale` and `AskTimeout`
to 0: any lock is stale one tick later, which is the worst the clock can do, and a tick is then
only a change of time, so one is enough. `auto_summarize` has two deciders and two workers, which
is what exclusion, handover and spacing are about; two human sessions and one made by a model
call, the more recent one, so that cutting before filtering would lose a queued session; and two
versions of a session, so that a summary can be old. With two workers the third pass of a chain
is out of reach; the invariants speak of pairs of workers. One call at a time (`Concurrency` 1) makes a pass
of two sessions two rounds of a tick each, against a `LockStale` of 1: a pass may outlive its lock, as in the code
50 sessions, eight at a time with two minutes each, take up to 14 minutes against 10. Runs with killed or overlapping
deciders use a store of one session, for the number of states. `semantic` has two slots and two
panes: two jobs of one pane can return in either order, and together with the other pane's they
fill the pool. Four ticks against a debounce of two let a third question arrive while two are
running. Texts 0, 1 and 2 with a distance of 1 are near, near
and far, so that drift by small steps occurs; the second pane is the active one, which
is what priorities need, its screen changes for good, and its calls may hang (`Hung` is {2}): one hung call leaves the
first pane a slot, two fill the pool. `workspace` has two panes, so that one leaves or
fails while the other stays, one restart, and a cooldown of three ticks: at one or two a drop that
is seen in one tick and the crossing in the next cannot be told from the end of the cooldown. The
log holds one entry, so that it is full after the first. The run has no failing probes, which break
`AnnouncementsAreSpaced` (see *Findings*). `cockpit` has three panes and room for a new one,
in two arrangements: projects that share a window and a project that is split over two, with shells
in between. Two generations are a prompt and the cancel that makes its answer late, or two prompts;
one foreign change and one application meet at every step. The replies in `MCCockpit` name a handle
before and after it is bound, an unknown pane, a window that an earlier move emptied, a verb that does
not exist, and more steps than are allowed.

`panes` has two panes (in one directory by what the agents report, in two by what their shells do),
four sessions of two harnesses, one old one of each, and four ticks of the clock after the old ones, enough for two launches with a
write each, or one agent that is resumed, beside one view that prunes: a link that comes back needs a
prune that was read before. `background` has two of everything: two daemons or two watchers for every
crossing of two starts, two terminals for a stop or a toggle between them, two clients of which one
joins during a broadcast, three changes for a queue of more than one. Its starts divide the product:
crossing commands without model changes, calm commands, and clients with changes. `sessions` has two
processes and three files, and eight sets of bounds in `Runs`: transcripts of five lines of every kind
against a sampler and a ring of two (two halvings, and prompts that have left the ring), two commands
and a kill against two writes, half written lines, a removal under a grep whose batches hold one path
(one of the paths is longer than the batch), ids of which one is a prefix of another, and an ask with
a focus that the window may not have. Its processes are symmetric. `settings` has two terminals and
eighteen surroundings in `AllStarts`: the choice with every kind of config file an editor may leave,
an upgrade and a kill; doctor with two edits under it; the bindings with three commands and two edits,
from files with no block, an old one in either, a new one, and a conf that only names the other file. No bound is on the length of a
transcript, the number of processes, providers or commands in the theorems of the last four.

Deadlock is checked where a behaviour has one state in which it may stay (`Over`); the cockpit exits, and
commands, agents and terminals in `panes`, `background`, `sessions` and `settings` may all be done, so these
do without.

**Fairness.** `FairSpec` asks that a process that can step does (`WF` on each command, close
handler, decider and worker): the operating system schedules them, and every await in them is on a
file operation, a timer or a provider run that has a timeout. Nothing obliges a user to press a
key, a session to move on, time to pass or a fault to happen. `WF` on a whole worker, rather than
on each of its actions, leaves it free to stream, fail or answer. In `Semantic` synchronous code and
microtasks run to their end (`EnqueueSome`, `Pump`, `FinallySome`), and a call of a pane outside `Hung` settles (in the daemon `LABEL_TIMEOUT_MS` sees
to that for all panes, in the provider runner); one of a pane in `Hung` may or may not. Ticks are not fair. The
clock is bounded, so nothing is said of a pane that is outranked for ever: `nextJob` has no ageing. In `Workspace` the daemon's own steps are fair
(one process, whose awaits on tmux have a timeout; those on `ps` and `lsof` have none, and are assumed to return), and
a list of the panes and a sample succeed again and again (`SF` on `List` and `Measure`): assumptions on tmux, `ps` and
`lsof`, without which nothing is announced. Nothing is assumed of panes, agents, memory or restarts. In `Cockpit` the submits, the report and
the applications are fair, since every call of a provider or of tmux in them has a timeout; no key is.
In `Panes` the view goes on pruning (the daemon and an open overlay do it on every turn of their
loops), nothing else is fair. In `Background` daemons, their chains of broadcasts, watchers and commands
that were given run on. `Sessions` and `Settings` state no liveness.

## Findings

* **The guardian types into shells** (`workspace_shell`). `docs/gmux.md` promises "never arbitrary
  shells". A pane counts as an agent's when a session resolves for it, and a shell in a directory
  with any session gets the newest one there; so does a pane whose agent has exited.
* **Two daemons** (`background_twice`). `acquireDaemonLock` reads and writes without an exclusive
  create, and a lock older than ten minutes counts as stale though its pid lives and nothing
  refreshes it. The second start removes the first one's socket, and the first exit removes the lock and
  the socket of the other.

Four more promises that the code does not keep. The models do what the code does, so the properties that come
near are stated with the exception, and pass:

* **One hanging pane can block the others.** `semantic.ts:9-11` says "One pane hanging never keeps another
  pane's label from landing". Only `pending` is keyed by pane (`semantic.ts:152`): a pane whose call does not
  return is asked for again after the debounce and takes slot after slot. Without its exception `Clogged`, TLC refutes
  `EverybodyIsServed` in the run `semantic`, after two questions of the hanging pane. In the daemon the
  provider's timeout ends a call.
* **Pressure that lasts is announced again.** `docs/gmux.md:69` says of the guardian "it won't re-fire until pressure
  drops and re-crosses. No spamming while memory sits high", and the design
  (`docs/superpowers/specs/2026-08-11-gmux-design.md:205`, `213`) "still high — no re-fire", though its line 206 has
  "N min elapsed" end the cooldown. `guardian.ts:31-35` and `tests/guardian.test.ts` let the end of the cooldown suffice.
  `AnnouncementsAreSpaced` and `DaemonMakesProgress` follow the code: the second says that it *does* announce again.
* **A plan can open the confirm screen after the user has left.** `organize-confirm.ts:28-32` says that a late result
  "can never pop a confirm screen after the user left the planning state". Ctrl-c while a report is awaited
  leaves the cockpit `closing` without a new generation; a plan in flight then opens the confirm screen, and
  Enter applies it. `LateResultsAreDropped` is about generations alone.
* **A comment passes for a source line.** `tmux.ts:98` says of `sourcesTmuxConfLocal` "True when this conf will actually
  load `~/.tmux.conf.local`"; the expression at 104-106 matches any mention. Under a conf that only names the file, the
  installer puts the block where tmux does not read it and `inspectTmuxBindings` reports it installed.
  `BindingsSettle` excepts this conf (`Misleading`).

Seen in passing, without a run. In locks and processes:

* `acquireAutoLock` (`auto-summarize.ts:168`) creates its file empty and writes it in a later await; an empty lock
  reads as not held and is removed by a second decider, so both win. `PassesAreOrderly` is claimed of
  deciders that do not overlap.
* `isLockStale` adds the age of a chat lock to the liveness of its pid by the wall clock, while a
  provider's timeout is monotonic: after a sleep `__ask-cancel` may write `aborted` beside a live worker
  whose `end` makes the turn history. The rounds of a background pass times the call timeout exceed
  its `LOCK_STALE_MS`, and nothing refreshes that lock: a second pass starts beside a live one, and of the
  two the slower may replace a summary by an older one (`auto_summarize` reaches this; see `late`).
* A watcher that was superseded clears the record of the one that replaced it (`clearWatchPid`), which
  ends that one too; the toggle hides the border a live daemon owns; an exiting daemon may still write the
  snapshot file of the one that follows; `commands/daemon.ts` paints borders on every change without waiting
  for the paint before. `enableBorder` may throw in `gmux watch` (`commands/watch.ts:80`), whose watcher then runs without a border.
* `pipe-pane -o` toggles (`tmux.ts:110`) and pipes outlive the daemon, so a restart closes the pipes it
  means to start; `TerminalSensor` marks a pane as piping when the start failed.

In results and state:

* `readMacMemory` and `readLinuxMemory` answer 0 when they fail (`resources.ts:84`), which re-arms the
  guardian within its cooldown while memory stays high.
* `runAskTurn` promises that a turn ends with `end` or `error`, and its `catch` writes neither when the
  session load throws. While `ps` fails no pane is handed to the semantic worker. Decisions that are only
  logged push real actions out of the guardian's log. The gate's entries survive a restart of the tmux
  server, whose pane ids start over.
* The cockpit's handler awaits `applyPlan` with the confirm screen open (`cockpit.ts:242`): a second enter
  applies the plan twice, each with a window of its own for the shells. `buildReport`'s `finally` clears
  `busy` without a generation, so that an Esc meant for a newer submit closes the cockpit.
* The wrapper `gmux run` links the session that changed last, which may be another pane's, and a pruner
  may write an old link back (it goes at the next prune, `DeadLinksGo`); `pane-links.ts` calls the link exact. "Survives
  pane moves" in `tmux-resolve.ts` holds where `ps` shows an agent in every pane (`OrderIsImmaterial`), not
  for guesses about shells. An agent that runs another as its child is taken for it when only the child
  has an id on its command line (`pane-process.ts:73`).
* `isEnded` and `hasToolError` look at any of the last 40 rows, so a new task in a pane stays done, or an
  error, until the old row is out of the window; Codex's `endedMidTask` stays true after one interrupted task (`codex.ts:177`).
* `gmux grep` fails as a whole when a transcript it found has vanished (ripgrep's exit code 2).
  `writeSummary` and `writeWorkView` write in place.
* `~/.tmux.conf` is written in place: a kill in between loses it. A start marker without its end makes
  the next install append a block, and the one after that remove every line between the two. Setup
  resets thresholds of the `gmux` block that were tuned by hand.

## Proofs

The eight `*_proof` modules are checked by TLAPS for every value of the constants. Assumptions are those
the modules name (`BoundsAssumption`, `TimeoutAssumption`, `FaultsAssumption`, `SessionsAssumption`,
`StartsAssumption`, `PanesAssumption`, `PolicyAssumption`, `ProcessesAssumption`, `CapsAssumption`,
`CatalogAssumption`, `NothingAssumption` and so on); TLC evaluates them in every run. `TypeOK` is proved in
six of them and is an invariant of no run.

* `AskChat_proof!TypeCorrect`, `SeqsAreNames` (from `QuestionsAreOrdered` and `SeqsAreExclusive`). Neither
  half of `SeqsNameOneTurn` is inductive: both rest on where a seq is between the
  sender's read and the worker. The invariant `Inv` says that a sender between its read and its
  append holds the seq after the last question, that between append and spawn it holds the last
  question's seq and no worker has it, and that every worker's seq was asked. No use is made of the
  lock: the single key command is what orders the questions, so the theorems hold in the hostile
  environment too. So does `AnswersStayWhole`: a worker's chunks in the log are those it has said (`Answers`),
  and its `end` comes after the last of them.
* `AskChat_proof!OneTurnIsAnswered`, `TurnsSettleOnce`, `CancelsAreTrue`, `HistoriesAreAnswered` hold of the
  environment of the run `ask_calm`: they assume `CalmFaults`, that workers may be killed but key commands run to
  their end and the clock does not jump. Each is false without it, which is why the properties are
  stated there. Two invariants carry them. `Locking` says that one worker at a time is alive, that the
  lock names it from its spawn on and is too young to be stale while it is in time, that a key command
  runs in an open picker in ask mode and takes no time, and that in browse mode, or once the picker has
  cleared up, no worker lives that could go on writing. `Settling` says that the turn of whoever is answering
  is the newest and has no record that settles it, that no `aborted` stands in the log while the
  worker of its turn lives, and that after the files are removed nobody brings them back.
* `AskChat_proof!ImplementsConversation`: `Spec => IsAConversation` in the same environment, for any number
  of questions, chunks and workers. `QuestionTold` and `RecordTold` say what one more record does to
  `Story`; `Settling` makes the turn a worker or esc writes about the last one and unsettled,
  `Answers` makes an answer not empty, and `SeqIsNext`, that nobody asks between a sender's
  read and its question, makes the question the next turn. TLC refutes it as soon as a key command
  or the picker can be killed, the picker is signalled during a command, or the clock jumps: a turn that was
  settled, overtaken or removed is then written to.
* `AutoSummarize_proof!TypeCorrect`, `NoFeedbackLoop`. `NoFeedback` speaks of the queue, the workers
  and the summaries; the strengthening adds that a decider's targets are human sessions from its
  selection on and that a worker's work is filtered again when it loads. It holds in every
  environment, with two winners of the lock and with stale queues.
* `AutoSummarize_proof!CooldownIsKept`: that passes start a cooldown apart follows from the time of the last check
  and needs nothing of the lock (`Timing`, `Spacing`). `PassesStayOrderly` and `SummariesGoForward` need the
  lock to be younger than its staleness while its worker lives, which the code does not see to. The properties
  therefore speak of the time until a pass has outlived its lock (`~late`), and the theorems have no further condition:
  while `late` is false every live worker is younger than `LockStale` (`LateStep`). `Guarding` says that the lock dates from the decision that forked the
  live worker and that no other decider is past it; `Passing`, that the queue of that decision reaches the
  worker whole and that what it loaded is at least as new as every summary there is.

* `Semantic_proof!TypeCorrect`, `PoolStaysSound` (slots, pumps and drainers) are
  consequences of one invariant about the pool. `LabelsTrackPanes` needs more: `LabelTracksPane`
  speaks of the screen and the label, and what connects them is the gate's last question. The
  invariant says that the newest question of each pane is on its way, has failed, or is the label;
  that no job or label is newer than it; that the pane's last observation is near it or within the
  debounce; and that jobs of one pane have different ticks.
* `Semantic_proof!BestGoesFirst`. The pump that starts a job is run by the last observation of a tick or by a job that
  ends, and both find the queue as the sort of the last enqueue left it.
* `Semantic_proof!ImplementsBoard`: `Spec => KeepsThePromise`, for any number of panes and slots,
  hung panes included. Each action maps to one of `LabelBoard`'s or to a stutter.
* `Workspace_proof!TypeCorrect`, `FollowsTmux`, `Rounds`, `Spaced`. `ModelFollowsTmux` speaks of the
  time between ticks; `FollowInv` says for each place in a tick which panes are still to be dealt
  with. `Spaced` rests on `below => eased`, which a failing probe breaks: it is proved under
  `"memory" \notin Faults`, and is false without.
* `Cockpit_proof!TypeCorrect`, `ConfirmIsCurrent`, `NeverLocked`. The types hold because tmux does only
  the steps it can, and those keep a workspace a workspace (`EffectType`), whatever the plan.
  `LateResultsAreDropped` is inductive: the generation is looked at after the planner's await and no key
  moves it on while the confirm screen is open. `BusyMeansWork` is inductive relative to the types: a
  submit that moves on keeps its generation (`MovesOn`), and every way out of a current one clears
  `busy`.
* `Cockpit_proof!PlansStayClosed`. A reply is read by a fold; by induction over its length every step
  that was read is of a known op, of known panes, and of handles bound by a step before (`ParseIsClosed`). The
  deterministic plan is a fold over the projects, and by induction over them it is described without
  one (`PlanFor`): its steps are those of the groups, a handle is opened before it is named, windows are opened
  and panes moved once, and every pane that is not where its group goes is moved.
* `Cockpit_proof!PlansDoTheirWork`: `Spec /\ []RoomLeft => []PlansWork`. From `PlanFor` alone an application is followed
  step by step: after the first i steps each pane of the workspace is where it was or, if its move is among
  them, where its group goes, and what tmux opened since is the shells' window (`Stands`). So each step finds
  its window (`GoalIsThere`: the pane a project was anchored at never leaves), none is skipped, and at
  the end nothing leaves any more (`ShellsGathered`, `NothingLeaves`). Three invariants connect this to the state: ids are
  given once (`Numbered`), the plan behind the confirm screen is one of tmux as it is while `still` holds
  (`Fresh`, with one current submit at most), and the one application has begun on such a plan
  (`Underway`). `RoomLeft` says that `MaxPane` and `MaxWindow`, bounds of the model, are not what refuses
  a new window. `StartsAssumption` says that tmux numbers panes and windows from 1 and gives every pane a
  window.

* `Background_proof!TypeCorrect`, `LinesGoForward`, `QuietIsKept`, `CalmIsKept`. What a client has is a
  matter of counting: every broadcast in the queue is one version, so the versions in the queue are the
  last ones (`Counted`), a client that got a line lacks exactly those that are queued, and one that was only
  greeted is behind by none once the queue is empty (`Got`). `LinesGoForward` and the clients' half of
  `QuietIsKept` follow in every environment. `CalmRuns` needs three things of a calm run: one command or one daemon on its way
  at a time (`OneByOne`); the daemon past its lock owns lock, path and file, the others being gone or about to be
  refused (`OneOwner`, which also says how far the file is); and for the watcher what each place in a
  command leaves true of record and border (`OneWatcher`: between clear and write no watcher runs but the
  one just spawned; a border is missing under a watcher only as tmux refused it to the `gmux watch` that came last). The
  file's half of `QuietIsKept` is claimed of calm runs alone: where daemons cross, or one is late with its last
  write, the file may be left with another's model.
* `Sessions_proof!ArcsAreEven`. The account of every process is even: the buffer is every stride-th ordinal,
  and its length is between half the cap and the cap once the stride is above 1. The step is arithmetic: a candidate that is
  appended is the next multiple of the stride; halving keeps the odd places, which are the multiples of twice
  the stride. It needs no type of anything but the account.
* `Sessions_proof!IndexStaysCurrent`. An entry is said of its file at its mtime: its record is what the parser
  makes of a text that is at least as long as the file was then (`EntryIn`). If the mtime is still the
  file's, the text is the file's. For this the fold of a whole text is shown equal to the account a
  process keeps line by line (by induction over the lines), and what every process, including
  those that save late, holds in `next` is shown to be such entries.
* `Sessions_proof!AnswersHold`. What a process holds is stated of a moment: the files and who made the write of each
  tick of the clock (`Moment`), so that it carries over from one step to the next (`Later`). A tick has one
  writer, so files differ in their times, and an answer sorted by time is in strict order. A file that lay still since
  the command began is found by it: it is in the listing, its entry is its present record, and the
  batches of a search, a fold over the paths, hold every path (by induction). The
  assumptions added to the model are `IdsAssumption` (ids name files, prefixes what they may match), `JobsAssumption`
  and that `Files` is finite.
* `Sessions_proof!RecordsAreTrue`. By induction over the lines the account of a text is stated by counting them
  (`Ends`): prompts, messages and tasks are numbers of lines, the ring is the last ordinals, the directory is
  that of the last line that has one, and `cutAt` and `failedAt` are the number of the last such message. The last
  of them is near the end exactly if any is (`NearIs`), which is what `endedMidTask` must say. Of an even sample less
  what the ring has, what is left rises and lies before the ring (`ToldIs`, another fold), so that the
  evidence goes from the first prompt to the last.
* `Surroundings_proof!ChoiceIsKept`, `DoctorIsTrue`. What the file parses to is what was said last (`ChoiceOK`), because
  only a save or an editor writes it and a save writes an answer that parses (`ProcOK`); doctor's report is
  true of a process whose world stood still, which at `checking` has read the config that is there (`Told`).
* `Surroundings_proof!BindingsHold`. A tmux file is the user's lines with up to two blocks, of different kinds, put among them
  (`Spliced`, `Cut`); at rest the block of gmux is in exactly one file after an install and in none after an uninstall
  (`AtRest`), and between its files a rewrite has done the one and is to find the other as it was (`Rewrites`). What
  `Strip` and `Upsert` make of such a file is a matter of where its markers first stand (`OneIsRemoved`, `StripIs`,
  `UpsertIs`); that the user's lines are what is left when the others are taken out, of a
  fold over the lines (`OnlyIsFold`, by induction). The file that is written to follows from the user's lines alone
  (`TargetIs`); that tmux loads it is proved of every conf but one that names the other file and does not source it. `CalmAssumption` says of a calm run what its files hold at first: at most one block of each kind,
  each whole, and not both under one name; the code leaves no other unless it is killed at a write.
* `Surroundings_proof!SharedOnlyExact`. By induction over the panes of a list of tmux: what an exact pane has stays, what
  anyone has is claimed, and a guess draws from what is not (`Apart`, `ApartStays`); within a group two panes have two
  ranks, so they cannot be given one session (`YouthsDiffer`, `PairedOnce`).
* `Surroundings_proof!OrderImmaterial`. `Due(p)` is what a pane gets in terms that no order enters. After n
  panes the groups reached have what is due to them and nobody else has a guess (`Sorted`). Since `ps` shows every
  agent each group has a harness of its own, so what other groups claimed was never in its pool (`PoolIsOwn`),
  and ranks are by start times, which differ (`EldersAre`); a soft harness would break the first, a missing `ps` the second.
* `Surroundings_proof!FreshResolve`. If the guess can be right, the live sessions of a group are those of its panes (`LiveRuns`: as
  many, and later than any that ended), and the session of a pane has as many earlier ones as the pane has elders
  (`AgeIsElders`), no other has (`EldersDiffer`). The three rest on `PanesInv`, which every step keeps (`PanesStay`):
  an agent runs in an open pane, has its session to itself, and no two started, or wrote or began a file, at once.
  `SessionsAssumption` adds that panes and sessions are finite and that the earlier ones are listed once each.

Induction over data. The library's induction theorems take an operator and are out of reach, but its theorem that
a relation is well-founded when every non-empty set has a minimal element (`WFMin`) is not: applied to the
complement of a set of numbers it gives the lemma `Induction`, about sets, and with it the folds above.

Every invariant and action property the passing runs check is a theorem. Only model-checked: everything temporal (`NoLockout`, `CloseReaps`, `MarksEnd`, `EverybodyIsServed`,
`DaemonMakesProgress`, `Closes`, `DeadLinksGo`, `OnlyTheRecordedWatcher`), which is out of the prover's reach.

## Not modelled

Errors of single reads and writes (a full disk between a lock and a fork leaves a lock that ages
out), reuse of pids by the kernel, the text of questions, answers, prompts and reports, the repaint
throttle, the `.browseq` file, rendering, and the tmux program itself, but for the few effects
the actions marked external in `PROJECT.json` give it. The rotation of pane logs is two functions over a file
that another program appends to, with no step of gmux in between. The work views' cache is keyed as
the summaries' is. Of the process tree of a pane, the agent sensor's reading of the last rows and
the provider's child events only the outcome is modelled. The components' notes in `PROJECT.json` say
what each leaves out.

## Plan

The modules planned at first are written: `AskChat` with `Conversation`, `AutoSummarize`, `Semantic` with `LabelBoard`,
`Workspace`, `Organize` with `Cockpit`, `Background` (daemon lock, model server, watcher), `Panes`,
`Transcripts` with `Sessions`, `Settings`. What would add most, in this order:

1. The agent sensor and `classifyState` on top of `Transcripts`, composed with `Workspace`: what state a
   pane is shown in while its agent works on.
2. `ProviderProcess`: tee, settle, late close and kill in the order of a child's events.

Runs are kept to one per question; later modules share composed runs, and a shallow property
gives way to a deeper one.
