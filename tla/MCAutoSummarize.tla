-------------------------- MODULE MCAutoSummarize --------------------------
(* Environments and sessions for AutoSummarize.                            *)
EXTENDS AutoSummarize

\* The automated sessions are the more recent ones, as those of a pass are.
MCHumans == {1, 2}
MCAutos == {3}

\* Overlapping and interrupted deciders get a store of one session, for the
\* number of states.
AllStarts == {<<"solo", MCHumans>>, <<"interrupted", {1}>>, <<"overlap", {1}>>}
=============================================================================
