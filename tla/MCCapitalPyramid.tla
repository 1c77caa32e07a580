-------------------------- MODULE MCCapitalPyramid --------------------------
(* CapitalPyramid for TLC: two symbols of the session and one outside it.  *)
EXTENDS CapitalPyramid, TLC

CONSTANTS x1, x2, x3

ThreeSymbols == {x1, x2, x3}
TwoActive == {x1, x2}
Places == x1 :> 1 @@ x2 :> 2 @@ x3 :> 3

Entry(n, r) == [cap |-> n, rank |-> r]
Nothing == [s \in ThreeSymbols |-> Absent]

\* The master list alone, with a rank beyond the tenth, and with ranks that are missing and
\* a rank and a capital that are zero; both lists, one of them without a rank and a capital; alphas as an array, beside the
\* master list and alone; no list.
Ranked11 == x1 :> Entry(1000, 1) @@ x2 :> Entry(2000, 11) @@ x3 :> Entry(500, 3)
Unranked == x1 :> Entry(1000, NoRank) @@ x2 :> Entry(0, 0) @@ x3 :> Entry(500, NoRank)
Partial == x1 :> Entry(NoCap, NoRank) @@ x2 :> Entry(2000, 2) @@ x3 :> Absent
Configuration(array, lists, m, l) ==
    [array |-> array, has |-> lists, at |-> [symbols |-> m, alphas |-> l]]
MCMasters ==
    {Configuration(FALSE, {"symbols"}, Ranked11, Nothing),
     Configuration(FALSE, {"symbols"}, Unranked, Nothing),
     Configuration(FALSE, Lists, Ranked11, Partial),
     Configuration(TRUE, Lists, Ranked11, Partial),
     Configuration(TRUE, {"alphas"}, Nothing, Ranked11),
     Configuration(FALSE, {}, Nothing, Nothing)}

MCFunds == {NoCash, 0, 2001}
MCEach == {{}, {"failed"}, {"publish"}, {"slow"}, {"lost"}}
=============================================================================
