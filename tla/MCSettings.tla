----------------------------- MODULE MCSettings ----------------------------
(* Two terminals over one home directory.                                  *)
EXTENDS Settings

Known == <<"claude-code", "codex">>

Raw(version, provider, auto, policy) ==
  [there |-> TRUE, version |-> version, provider |-> provider, auto |-> auto,
   policy |-> policy]
Chosen(id) == [id |-> id, command |-> 0]
AllRaws ==
  {Raw(1, NoProvider, FALSE, Unset), Raw(1, Chosen("codex"), TRUE, "off"),
   Raw(1, Malformed, TRUE, "auto"), Raw(2, NoProvider, FALSE, "off"),
   Raw(1, Chosen(Custom), Unset, "off")}

Around(answers, policies, override, auto, child, programs, c, l, calm, bindings) ==
  [answers |-> answers, policies |-> policies, override |-> override, auto |-> auto, child |-> child, programs |-> programs,
   conf |-> c, local |-> l, calm |-> calm, bindings |-> bindings]
Bounds(given, raws, commands, edits, tmuxEdits, upgrades, kills) ==
  [given |-> given, raws |-> raws, commands |-> commands, edits |-> edits,
   tmuxEdits |-> tmuxEdits, upgrades |-> upgrades, kills |-> kills]

Choosing == {Around(Ids, {"auto", "off"}, o, TRUE, FALSE, {"codex"}, <<>>, <<>>, FALSE, FALSE) @@
               Bounds({"other", "setup"}, AllRaws, 2, 1, 0, 1, 1) : o \in BOOLEAN}
Examining == {Around(Ids, {"off"}, o, a, c, {"codex"}, <<>>, <<>>, FALSE, FALSE) @@
                Bounds({"hidden", "doctor"}, AllRaws, 1, 2, 0, 1, 0) : o, a, c \in BOOLEAN}
Binding ==
  {Around({"codex"}, {"auto"}, FALSE, TRUE, FALSE, {}, c, l, TRUE, TRUE) @@
     Bounds({"bind", "unbind", "setup"}, {}, 3, 0, 2, 0, 0) :
       c \in {<<"line">>, <<"source">> \o Old \o <<"line">>, <<"line">> \o Block \o <<"source">>,
              <<"mention">> \o Block},
       l \in {<<>>, <<"other">> \o Old \o <<"line">>}}
AllStarts == Choosing \cup Examining \cup Binding

Terminals == Permutations(Procs)
=============================================================================
