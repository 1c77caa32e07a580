---------------------------- MODULE MCSessionAuth ----------------------------
(* SessionAuth for TLC.                                                    *)
EXTENDS SessionAuth, TLC

CONSTANTS p1, p2, r1, r2

TwoProcesses == {p1, p2}
TwoRequests == {r1, r2}
EachKind == {{"overlap"}, {"crash"}, {"broker"}, {"mongo"}, {"delete"}}

\* Processes play the same part, and so do requests.
AuthSymmetry ==
    {p @@ r : p \in Permutations(TwoProcesses), r \in Permutations(TwoRequests)}
=============================================================================
