---------------------------- MODULE Conversation ----------------------------
(***************************************************************************)
(* What the picker's chat promises, without locks, processes and files:    *)
(* questions are asked one after the other, an answer is said in chunks,   *)
(* only the turn asked last goes on, one record ends it, and a chat that   *)
(* was closed is gone.                                                     *)
(***************************************************************************)
EXTENDS Naturals, Sequences

VARIABLES
  turns,   \* how many records of each kind a turn has, in the order of the questions
  closed   \* whether the chat was closed

Ends  == {"end", "aborted", "error"}
Kinds == Ends \union {"chunk"}
Fresh == [t \in Kinds |-> 0]

Init == turns = <<>> /\ closed = FALSE

\* The turn asked last goes on until a record ends it: for ever, when its worker was killed.
Goes == ~closed /\ turns # <<>> /\ \A t \in Ends : turns[Len(turns)][t] = 0

Note(t) == turns' = [turns EXCEPT ![Len(turns)][t] = @ + 1] /\ UNCHANGED closed

Ask == ~closed /\ turns' = Append(turns, Fresh) /\ UNCHANGED closed

\* There is nobody to ask.
AskInVain == ~closed /\ turns' = Append(turns, [Fresh EXCEPT !["error"] = 1]) /\ UNCHANGED closed

Say == Goes /\ Note("chunk")

\* An answer is not empty.
Answer == Goes /\ turns[Len(turns)]["chunk"] > 0 /\ Note("end")

GiveUp == Goes /\ \E t \in {"aborted", "error"} : Note(t)

Close == ~closed /\ closed' = TRUE /\ turns' = <<>>

Next == Ask \/ AskInVain \/ Say \/ Answer \/ GiveUp \/ Close

Spec == Init /\ [][Next]_<<turns, closed>>
=============================================================================
