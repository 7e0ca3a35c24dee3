----------------------------- MODULE MCAskChat -----------------------------
(* Environments for AskChat.                                               *)
EXTENDS AskChat

\* The machine is well behaved, except that a worker can be killed.
Calm == {"workerKill"}

\* Everything at once.
Hostile == {"workerKill", "senderKill", "pickerKill", "parentSignal", "clockJump"}
=============================================================================
