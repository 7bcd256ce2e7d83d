----------------------------- MODULE MCFreezeGate ------------------------------
\* FreezeGate on small instances: a job whose ID is its path.
EXTENDS FreezeGate, TLC

CONSTANTS safe, path

SafeSlug == [j \in {safe} |-> path]
OwnSafe == [p \in {path} |-> safe]

\* Writers and failing reads at one instant; freezes that expire; or one that is
\* replaced after its expiry.
Scenarios ==
    {[time |-> 0, writes |-> 2, faults |-> 2, drifts |-> 1],
     [time |-> 2, writes |-> 1, faults |-> 0, drifts |-> 1],
     [time |-> 1, writes |-> 2, faults |-> 0, drifts |-> 0]}
===============================================================================
