--------------------------- MODULE MCStopSimulation ---------------------------
(* StopSimulation for TLC: one or two request threads, interchangeable.    *)
EXTENDS StopSimulation, TLC

CONSTANTS t1, t2

TwoThreads == {t1, t2}
OneThread == {t1}

ThreadSymmetry == Permutations(Threads)
=============================================================================
