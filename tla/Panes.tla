------------------------------- MODULE Panes -------------------------------
(***************************************************************************)
(* Which session does a pane run?  `gmux run` leaves a link when it sees a *)
(* session file change, every view prunes the links of the panes that are  *)
(* gone, and the resolver goes from the links and the command lines, which *)
(* are exact, to the newest sessions of a directory, which are a guess.    *)
(*                                                                         *)
(* The wrapper of `gmux run` and the views are processes that share the    *)
(* links file: each reads it, and replaces it later.  The file is renamed  *)
(* into place, so it is never torn.                                        *)
(*                                                                         *)
(* Left out: an agent that runs another as its child, two agents started   *)
(* in the same second, a session that changes its directory, and the age   *)
(* of the index the resolver takes the sessions from (see Sessions).       *)
(***************************************************************************)
EXTENDS Naturals, SequencesExt, FiniteSetsExt

CONSTANTS
  Panes, Sessions,
  NoSession, NoHarness,
  HarnessOf,   \* of a session
  DirOf,       \* where a session, and the agent that runs it, works
  ShellDir,    \* the directory tmux reports for a pane: its shell's
  Earlier,     \* the sessions that were there before, in the order of their files
  Pruners,     \* processes that show the panes: the daemon, overlays, labels
  MaxTime      \* bound: launches and writes

ASSUME SessionsAssumption ==
  /\ NoSession \notin Sessions /\ IsFiniteSet(Panes) /\ IsFiniteSet(Sessions)
  /\ Earlier \in Seq(Sessions)
  /\ \A i, j \in DOMAIN Earlier : Earlier[i] = Earlier[j] => i = j
  /\ NoHarness \notin {HarnessOf[s] : s \in Sessions}
  /\ MaxTime \in Nat

VARIABLES
  now,         \* a clock: no two files change, and no two agents start, at once
  pane,        \* "unborn", "open", "closed"
  agent,       \* what runs in the foreground of a pane
  files,       \* session files: when they were begun and last written
  links,       \* pane-links.json
  wrap,        \* the wrapper `gmux run` of a pane
  prune        \* a view that is pruning the links

panesVars == <<now, pane, agent, files, links, wrap, prune>>

Times    == 0..MaxTime
NoFile   == [started |-> 0, updated |-> 0]
NoAgent  == [session |-> NoSession, argv |-> FALSE, since |-> 0, run |-> FALSE]
NoLinks  == [p \in Panes |-> NoSession]
NoWrap   == [at |-> "none", before |-> [s \in Sessions |-> 0], harness |-> NoHarness,
             picked |-> NoSession, read |-> NoLinks]
NoPrune  == [at |-> "idle", live |-> {}, kept |-> NoLinks]
Open     == {p \in Panes : pane[p] = "open"}
Written  == {s \in Sessions : files[s] # NoFile}
Runs(p)  == agent[p].session # NoSession
Place(q, x) == CHOOSE i \in DOMAIN q : q[i] = x
Running  == {agent[p].session : p \in {q \in Panes : Runs(q)}}

PanesInit ==
  /\ now = Len(Earlier) + 1
  /\ pane = [p \in Panes |-> "unborn"] /\ agent = [p \in Panes |-> NoAgent]
  /\ files = [s \in Sessions |-> IF s \in ToSet(Earlier) THEN LET i == Place(Earlier, s) IN
                                    [started |-> i, updated |-> i] ELSE NoFile]
  /\ links = NoLinks /\ wrap = [p \in Panes |-> NoWrap]
  /\ prune = [a \in Pruners |-> NoPrune]

(***************************************************************************)
(* Resolving: a pure function of the panes in the order tmux lists them,   *)
(* the sessions and the links.  `seen`: ps answered.                       *)
(***************************************************************************)
\* resolveExact: a link wins over the command line.
Exact(p, seen) ==
  LET named == IF seen /\ agent[p].argv THEN agent[p].session ELSE NoSession IN
  IF links[p] \in Written THEN links[p]
  ELSE IF named \in Written THEN named ELSE NoSession

\* paneProcessHint and harnessForCommand.  A harness read from the process is hard,
\* one guessed from the foreground command is not.
Hard(p, seen)    == seen /\ Runs(p)
Harness(p)       == IF Runs(p) THEN HarnessOf[agent[p].session] ELSE NoHarness
Since(p, seen)   == IF Hard(p, seen) THEN agent[p].since ELSE MaxTime + 1
HasCwd(p, seen)  == Hard(p, seen) /\ ~agent[p].argv

\* newestInCwd draws from these, and so does the pool of a group.
Candidates(dir, h, hard, claimed) ==
  LET here == {s \in Written \ claimed : DirOf[s] = dir}
      ofHarness == {s \in here : HarnessOf[s] = h}
  IN IF h # NoHarness /\ (hard \/ ofHarness # {}) THEN ofHarness ELSE here

\* matchCwd: the agent's directory when it has a session, else the shell's.
Group(p, seen) ==
  LET h == Harness(p)
      hard == Hard(p, seen)
      own == DirOf[agent[p].session]
  IN [dir |-> IF HasCwd(p, seen) /\ Candidates(own, h, hard, {}) # {} THEN own ELSE ShellDir[p],
      harness |-> h, hard |-> hard]

\* The k that were written last.
Recency(s, pool) == Cardinality({t \in pool : files[t].updated > files[s].updated})
Live(pool, k)    == {s \in pool : Recency(s, pool) < k}

\* startKey, elapsedOf: ties stay in the order of the panes.
Age(s, live) == Cardinality({t \in live : files[t].started < files[s].started})
Aged(live, k) == {s \in live : Age(s, live) = k}
Older(order, p, q, seen) ==
  \/ Since(p, seen) < Since(q, seen)
  \/ Since(p, seen) = Since(q, seen) /\ Place(order, p) < Place(order, q)
Youth(order, members, p, seen) == Cardinality({q \in members : Older(order, q, p, seen)})

\* Of the sessions of one rank.
TheOne(same) == IF same = {} THEN NoSession ELSE CHOOSE s \in same : TRUE

\* The oldest process takes the session that was written last.
MutByRecency(members, pool, order, seen) ==
  [p \in members |-> TheOne({s \in pool : Recency(s, pool) = Youth(order, members, p, seen)})]

\* The first pane takes the oldest.
MutByPosition(members, pool, order, seen) ==
  LET live == Live(pool, Cardinality(members))
      rank(p) == Cardinality({q \in members : Place(order, q) < Place(order, p)})
  IN [p \in members |-> TheOne(Aged(live, rank(p)))]

\* The oldest process takes the oldest of the k sessions that were written last.
Pair(members, pool, order, seen) ==
  LET live == Live(pool, Cardinality(members))
  IN [p \in members |-> TheOne(Aged(live, Youth(order, members, p, seen)))]

\* A session that was paired by one group is not in the pool of the next.
MutClaim(claimed, paired) == claimed

Claim(claimed, paired) == claimed \cup paired

\* The panes that are guessed together with p.
Members(order, p, seen) ==
  {q \in ToSet(order) : Exact(q, seen) = NoSession /\ Group(q, seen) = Group(p, seen)}

\* The groups, in the order of their first pane.
PairGroup(order, acc, p, seen) ==
  LET g == Group(p, seen)
      members == Members(order, p, seen)
      paired == Pair(members, Candidates(g.dir, g.harness, g.hard, acc.claimed), order, seen)
  IN IF p \in members /\ \A q \in members : Place(order, p) <= Place(order, q)
     THEN [out |-> [q \in ToSet(order) |-> IF q \in members THEN paired[q] ELSE acc.out[q]],
           claimed |-> Claim(acc.claimed, {paired[q] : q \in members})]
     ELSE acc

\* resolvePanesWithHints: what is exact goes first.
Resolve(order, seen) ==
  LET exact == [p \in ToSet(order) |-> Exact(p, seen)]
      Grouped[n \in 0..Len(order)] ==
        IF n = 0 THEN [out |-> exact, claimed |-> {exact[p] : p \in ToSet(order)} \ {NoSession}]
        ELSE PairGroup(order, Grouped[n - 1], order[n], seen)
  IN Grouped[Len(order)].out

(***************************************************************************)
(* tmux and the agents.                                                    *)
(***************************************************************************)
Tick == now < MaxTime /\ now' = now + 1

Free(p) == p \in Open /\ ~Runs(p) /\ wrap[p].at = "none"

\* A session of its own, or one it resumes, whose id is then on the command line.
Startable(s) == s \notin Running /\ (s \in Written \/ s \notin ToSet(Earlier))

OpenPane(p) ==
  /\ pane[p] = "unborn" /\ pane' = [pane EXCEPT ![p] = "open"]
  /\ UNCHANGED <<now, agent, files, links, wrap, prune>>

\* The wrapper is in the pane and dies with it.
ClosePane(p) ==
  /\ p \in Open /\ pane' = [pane EXCEPT ![p] = "closed"]
  /\ agent' = [agent EXCEPT ![p] = NoAgent] /\ wrap' = [wrap EXCEPT ![p] = NoWrap]
  /\ UNCHANGED <<now, files, links, prune>>

Launch(p, s) ==
  /\ Free(p) /\ Startable(s) /\ Tick
  /\ agent' = [agent EXCEPT ![p] = [session |-> s, argv |-> s \in Written, since |-> now, run |-> FALSE]]
  /\ UNCHANGED <<pane, files, links, wrap, prune>>

AgentWrites(p) ==
  /\ p \in Open /\ Runs(p) /\ Tick
  /\ files' = [files EXCEPT ![agent[p].session] =
                 [started |-> IF @ = NoFile THEN now ELSE @.started, updated |-> now]]
  /\ UNCHANGED <<pane, agent, links, wrap, prune>>

\* child.on("close"): the wrapper exits with its agent, whatever it was doing.
AgentExits(p) ==
  /\ p \in Open /\ Runs(p)
  /\ agent' = [agent EXCEPT ![p] = NoAgent] /\ wrap' = [wrap EXCEPT ![p] = NoWrap]
  /\ UNCHANGED <<now, pane, files, links, prune>>

(***************************************************************************)
(* gmux run.                                                               *)
(***************************************************************************)
Wrap(p, w) == wrap' = [wrap EXCEPT ![p] = w]

\* The sessions of the harness before the agent is spawned.
RunList(p, h) ==
  /\ Free(p)
  /\ Wrap(p, [NoWrap EXCEPT !.at = "listed", !.harness = h,
                            !.before = [s \in Sessions |-> files[s].updated]])
  /\ UNCHANGED <<now, pane, agent, files, links, prune>>

RunSpawn(p, s) ==
  /\ wrap[p].at = "listed" /\ HarnessOf[s] = wrap[p].harness /\ Startable(s) /\ Tick
  /\ agent' = [agent EXCEPT ![p] = [session |-> s, argv |-> s \in Written, since |-> now, run |-> TRUE]]
  /\ Wrap(p, [wrap[p] EXCEPT !.at = "polling"])
  /\ UNCHANGED <<pane, files, links, prune>>

\* pickChangedSession: the session written last of those that changed.
Changed(p) == {s \in Written : HarnessOf[s] = wrap[p].harness /\ files[s].updated > wrap[p].before[s]}

RunPick(p) ==
  /\ wrap[p].at = "polling" /\ Changed(p) # {}
  /\ Wrap(p, [wrap[p] EXCEPT !.at = "picked",
       !.picked = CHOOSE s \in Changed(p) : \A t \in Changed(p) : files[t].updated <= files[s].updated])
  /\ UNCHANGED <<now, pane, agent, files, links, prune>>

\* DETECT_WINDOW_MS is over, or the command does not exist.
RunGivesUp(p) ==
  /\ wrap[p].at \in {"listed", "polling"} /\ Wrap(p, NoWrap)
  /\ UNCHANGED <<now, pane, agent, files, links, prune>>

\* writePaneLink, in two steps.
RunRead(p) ==
  /\ wrap[p].at = "picked" /\ Wrap(p, [wrap[p] EXCEPT !.at = "read", !.read = links])
  /\ UNCHANGED <<now, pane, agent, files, links, prune>>

RunPersist(p) ==
  /\ wrap[p].at = "read"
  /\ links' = [wrap[p].read EXCEPT ![p] = wrap[p].picked]
  /\ Wrap(p, NoWrap)
  /\ UNCHANGED <<now, pane, agent, files, prune>>

(***************************************************************************)
(* prunePaneLinks, after the panes were listed.                            *)
(***************************************************************************)
PruneList(a) ==
  /\ prune[a].at = "idle"
  /\ prune' = [prune EXCEPT ![a] = [NoPrune EXCEPT !.at = "listed", !.live = Open]]
  /\ UNCHANGED <<now, pane, agent, files, links, wrap>>

\* The links of the sessions that are there.
MutPruneRead(a) ==
  /\ prune[a].at = "listed"
  /\ prune' = [prune EXCEPT ![a] = [NoPrune EXCEPT !.at = "read",
                 !.kept = [p \in Panes |-> IF links[p] \in Written THEN links[p] ELSE NoSession]]]
  /\ UNCHANGED <<now, pane, agent, files, links, wrap>>

PruneRead(a) ==
  /\ prune[a].at = "listed"
  /\ prune' = [prune EXCEPT ![a] = [NoPrune EXCEPT !.at = "read",
                 !.kept = [p \in Panes |-> IF p \in prune[a].live THEN links[p] ELSE NoSession]]]
  /\ UNCHANGED <<now, pane, agent, files, links, wrap>>

PrunePersist(a) ==
  /\ prune[a].at = "read"
  /\ links' = prune[a].kept /\ prune' = [prune EXCEPT ![a] = NoPrune]
  /\ UNCHANGED <<now, pane, agent, files, wrap>>

PanesNext ==
  \/ \E p \in Panes : \/ OpenPane(p) \/ ClosePane(p) \/ AgentWrites(p) \/ AgentExits(p)
                      \/ RunPick(p) \/ RunGivesUp(p) \/ RunRead(p) \/ RunPersist(p)
                      \/ \E h \in {HarnessOf[s] : s \in Sessions} : RunList(p, h)
                      \/ \E s \in Sessions : Launch(p, s) \/ RunSpawn(p, s)
  \/ \E a \in Pruners : PruneList(a) \/ PruneRead(a) \/ PrunePersist(a)

PanesSpec == PanesInit /\ [][PanesNext]_panesVars

\* The daemon and an open overlay prune on every turn of their loops.
FairSpec ==
  PanesSpec /\ \A a \in Pruners : WF_panesVars(PruneList(a) \/ PruneRead(a) \/ PrunePersist(a))

(***************************************************************************)
(* Properties.                                                             *)
(***************************************************************************)

Orders == SetToSeqs(Open)

\* A session is shown in two panes only when a link or a command line puts it there:
\* no guess takes a session that an exact pane, another guess of its group, or another
\* group has, whatever the order of the panes and whether or not ps answered.
SharedOnlyIfExact ==
  \A order \in Orders, seen \in BOOLEAN :
    LET at == Resolve(order, seen) IN
    \A p, q \in Open : p # q /\ at[p] = at[q] /\ at[p] # NoSession
                         => Exact(p, seen) # NoSession /\ Exact(q, seen) # NoSession

\* "The mapping survives pane moves": while every pane runs an agent that ps shows, the
\* order of the panes does not matter.
OrderIsImmaterial ==
  (\A p \in Open : Runs(p)) =>
    \A o1, o2 \in Orders : Resolve(o1, TRUE) = Resolve(o2, TRUE)

\* A guess is right when it can be: every pane runs an agent whose file is there, the
\* links are right, the sessions that ended were written before those that run, and in
\* a directory the sessions began in the order of their processes.
Guessable ==
  /\ \A p \in Open : Runs(p) /\ agent[p].session \in Written
  /\ \A p \in Open : links[p] \in {NoSession, agent[p].session}
  /\ \A s \in Running, t \in Written \ Running : files[t].updated < files[s].updated
  /\ \A p, q \in Open :
       agent[p].since < agent[q].since /\ ~agent[p].argv /\ ~agent[q].argv
         => files[agent[p].session].started < files[agent[q].session].started

FreshAgentsResolve ==
  Guessable => \A order \in Orders : \A p \in Open : Resolve(order, TRUE)[p] = agent[p].session

\* A link of a pane that is gone goes, for good: a process that read the links before
\* can write it back, but not for ever.
DeadLinksGo == \A p \in Panes : <>[](pane[p] = "closed" => links[p] = NoSession)

=============================================================================
