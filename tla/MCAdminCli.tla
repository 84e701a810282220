----------------------------- MODULE MCAdminCli -----------------------------
(* Instances of AdminCli for TLC: the constants only.                      *)
EXTENDS AdminCli, TLC

CONSTANTS p1, p2, k1, k2, a1, a2, a3, q1

TwoProjects == {p1, p2}
OneProject == {p1}
TwoKeys == {k1, k2}
ThreeCommands == {a1, a2, a3}
OneRequest == {q1}
ChatOrModels == {{"chat:write"}, {"models:read"}}
ModelsUnlimited == {"models"}
Symmetric == Permutations(ThreeCommands) \cup Permutations(TwoKeys)
=============================================================================
