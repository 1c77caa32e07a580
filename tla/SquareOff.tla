------------------------------ MODULE SquareOff ------------------------------
(***************************************************************************)
(* What squaring off promises, whoever asks for it and however often: one  *)
(* caller at a time makes a plan; every symbol is sent to the broker at    *)
(* most once, and only if the session held it when the plan was made; it   *)
(* is done once every held symbol the plan took in was asked for, or none  *)
(* was held; and it may only be given up, to be tried again, before        *)
(* anything was asked for.  An order asked for may reach the broker late,  *)
(* or never.                                                               *)
(***************************************************************************)
CONSTANT Symbols

VARIABLES
    phase,  \* "idle", "running", "done"
    held,   \* the symbols the session holds, by its own books
    asked,  \* those an exit order was made for
    placed  \* how many exit orders of each symbol have reached the broker

squareOffVars == <<phase, held, asked, placed>>

Init ==
    /\ phase = "idle"
    /\ held = {}
    /\ asked = {}
    /\ placed = [s \in Symbols |-> 0]

Begin ==
    /\ phase = "idle"
    /\ phase' = "running"
    /\ UNCHANGED <<held, asked, placed>>

\* The plan: some of the symbols held.
Ask(S) ==
    /\ phase = "running" /\ asked = {}
    /\ S # {} /\ S \subseteq held
    /\ asked' = S
    /\ UNCHANGED <<phase, held, placed>>

\* Something is held and nothing can be asked for.
GiveUp ==
    /\ phase = "running" /\ asked = {} /\ held # {}
    /\ phase' = "idle"
    /\ UNCHANGED <<held, asked, placed>>

\* The books are cleared.
Finish ==
    /\ phase = "running" /\ (asked # {} \/ held = {})
    /\ phase' = "done"
    /\ held' = {}
    /\ UNCHANGED <<asked, placed>>

\* The first order of an asked symbol reaches the broker.
Place(s) ==
    /\ s \in asked /\ placed[s] = 0
    /\ placed' = [placed EXCEPT ![s] = 1]
    /\ UNCHANGED <<phase, held, asked>>

\* Fills change what is held.
Trade ==
    /\ held' \in SUBSET Symbols
    /\ UNCHANGED <<phase, asked, placed>>

Next ==
    \/ Begin \/ GiveUp \/ Finish \/ Trade
    \/ \E S \in SUBSET Symbols : Ask(S)
    \/ \E s \in Symbols : Place(s)

Spec == Init /\ [][Next]_squareOffVars
=============================================================================
