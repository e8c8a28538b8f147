----------------------------- MODULE MCCtlServer -----------------------------
(* Small instances of CtlServer: plugin x is given as x or as C.x,
   written cx, and a second one as y. *)
EXTENDS CtlServer, TLC

CONSTANTS x, cx, y, c1, c2, s1, s2

MCGiven == {x, cx, y}
MCBase == [g \in MCGiven |-> IF g = cx THEN x ELSE g]
OnlyX == {x}
OnlyXBase == [g \in OnlyX |-> x]
TwoCfgs == {c1, c2}
OneCfg == {c1}
TwoSinks == {s1, s2}
OnePlugin == {{x}}
AllCommands == Commands
PluginCommands == {"start", "stop", "plugin", "unplugin"}
\* configurations and sink files are only compared with one another
Alike == Permutations(TwoCfgs) \cup Permutations(TwoSinks)
==============================================================================
