----------------------------- MODULE MCElection -----------------------------
(* Instances of the election for TLC. *)
EXTENDS Election, TLC

CONSTANTS s1, s2

Pair == {s1, s2}

AllGood == {"GETVERS_OK"}

None == [i \in Incidents |-> 0]
CrashLose == [None EXCEPT !["crash"] = 1, !["lose"] = 1]
OneExit == [None EXCEPT !["exit"] = 1]
OneResync == [None EXCEPT !["resync"] = 1]
OneDisconnect == [None EXCEPT !["disconnect"] = 1]
DisconnectExit == [None EXCEPT !["disconnect"] = 1, !["exit_all"] = 1]

OneOfEach == [None EXCEPT !["crash"] = 1, !["resync"] = 1, !["exit"] = 1]

\* Of the incidents of the budget, one behaviour has one, or a crash and an exit.
Spent == {i \in Incidents : left[i] < Budget[i]}
FewIncidents == Cardinality(Spent) <= 1 \/ Spent = {"crash", "exit"}

\* The services are interchangeable.
Symm == Permutations(Node)
=============================================================================
