-------------------------- MODULE MCSessionRegistry --------------------------
(* Instances of SessionRegistry for TLC.                                    *)
EXTENDS SessionRegistry, TLC

CONSTANTS g1, g2, t1, t2, s1, s2

\* One request thread in each of two gunicorn processes.
TwoProcesses == t1 :> g1 @@ t2 :> g2

\* Two request threads in one gunicorn process.
OneProcess == t1 :> g1 @@ t2 :> g1

AllRequests == [s \in Sessions |-> Starts \cup {"stop", "stopsim", "signal"}]

\* s2 competes for a worker.
Competing == s1 :> Starts \cup {"stop", "stopsim"} @@ s2 :> {"start paper"}

ProcessSymmetry == Permutations(Pids)

\* OneProcess gives the two threads the same part.
SwapThreads == t1 :> t2 @@ t2 :> t1
LocalSymmetry ==
    ProcessSymmetry \cup {p @@ SwapThreads : p \in ProcessSymmetry}

\* TwoProcesses gives the two gunicorn processes and their threads the same part.
SwapGunicorns == g1 :> g2 @@ g2 :> g1 @@ t1 :> t2 @@ t2 :> t1
SerialSymmetry ==
    ProcessSymmetry \cup {p @@ SwapGunicorns : p \in ProcessSymmetry}
=============================================================================
