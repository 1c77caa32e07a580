---------------------------- MODULE MCLiveEngine ----------------------------
EXTENDS LiveEngine

CONSTANT a

MCSymbols == {a}
MCNone == {{}}
\* The calm runs, every irregularity, and the pairs that need each other: an order is
\* unpriced or given up only when it rests or the order book cannot be read, a late
\* result is crossed only when two threads submit.
MCEach ==
    {{}, {"reject"}, {"rests", "reject"}, {"rests", "expire"}, {"outage", "unpriced"},
     {"timeout", "reject"}, {"slow", "timeout"}, {"exit"}, {"manual"}}
=============================================================================
