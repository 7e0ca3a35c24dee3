---------------------------- MODULE LabelBoard -----------------------------
(***************************************************************************)
(* What the semantic worker promises, without gate, queue or pool: a pane  *)
(* that is shown carries the newest of the labels that were written for    *)
(* it, and a label that was asked for is written, given up, or makes way   *)
(* for one of the same pane that was asked for later.                      *)
(***************************************************************************)
EXTENDS Integers

CONSTANTS Panes, Times  \* times are numbers

VARIABLES
  shown,  \* the panes that have an entry
  label,  \* the time of the observation each label was written from; 0 is none
  owed    \* the observations of each pane that a label is asked for

vars == <<shown, label, owed>>

TypeOK ==
  /\ shown \subseteq Panes
  /\ label \in [Panes -> Times \union {0}]
  /\ owed \in [Panes -> SUBSET Times]

Init ==
  /\ shown = {}
  /\ label = [p \in Panes |-> 0]
  /\ owed = [p \in Panes |-> {}]

\* Panes come and go; a label goes with its pane.
Scan ==
  \E now \in SUBSET Panes :
    /\ shown' = now
    /\ label' = [p \in Panes |-> IF p \in shown /\ p \in now THEN label[p] ELSE 0]
    /\ UNCHANGED owed

\* An observation asks for a label, possibly instead of earlier ones.
Ask(p) ==
  \E t \in Times, kept \in SUBSET owed[p] :
    /\ \A s \in owed[p] \union {label[p]} : s < t
    /\ owed' = [owed EXCEPT ![p] = kept \union {t}]
    /\ UNCHANGED <<shown, label>>

\* A label is written; one that is older than the pane's is not shown.
Land(p) ==
  \E t \in owed[p] :
    /\ owed' = [owed EXCEPT ![p] = @ \ {t}]
    /\ label' = IF p \in shown /\ label[p] < t THEN [label EXCEPT ![p] = t] ELSE label
    /\ UNCHANGED shown

GiveUp(p) ==
  \E t \in owed[p] :
    /\ owed' = [owed EXCEPT ![p] = @ \ {t}]
    /\ UNCHANGED <<shown, label>>

Next == Scan \/ \E p \in Panes : Ask(p) \/ Land(p) \/ GiveUp(p)

Spec == Init /\ [][Next]_vars
=============================================================================
