--------------------------- MODULE MCPaperEngine ---------------------------
(* PaperEngine for TLC. *)
EXTENDS PaperEngine

CONSTANTS a, b

TwoSymbols == {a, b}

\* The orderly run, and the irregularities by what they can spoil together.
MCEach ==
    {{}, {"tick", "noprice"}, {"restored"}, {"tick", "overlap"}, {"exit", "timeout"},
     {"exit", "slow"}, {"exit", "sigterm"}}
=============================================================================
