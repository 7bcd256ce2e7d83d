------------------------------ MODULE MCReconcile -----------------------------
\* Reconcile on small instances.
EXTENDS Reconcile

CallsOfApplier == FaultKinds \ CallsOfCheck

\* Every kind of disturbance around one Check at a time.
Disturbed == [overlap |-> 1, kinds |-> FaultKinds, commits |-> 2, edits |-> 1, faults |-> 1, crashes |-> 1]

\* Two Checks at a time, and an applier that may fail.
Overlapping == [overlap |-> 2, kinds |-> CallsOfApplier, commits |-> 2, edits |-> 0, faults |-> 1, crashes |-> 0]

\* One Check at a time whose own calls succeed, and nobody else writes.
OnlyApplierFails == [Disturbed EXCEPT !.kinds = CallsOfApplier, !.edits = 0]

\* Nothing fails.
UndisturbedLimits == {[Overlapping EXCEPT !.faults = 0]}

\* The meetings of two or three kinds of disturbance, each with the others left out.
MCLimits == {
    [Overlapping EXCEPT !.faults = 0],
    [Overlapping EXCEPT !.commits = 1],
    [Disturbed EXCEPT !.faults = 0, !.crashes = 0],
    [Disturbed EXCEPT !.commits = 1, !.crashes = 0],
    [Disturbed EXCEPT !.commits = 1, !.faults = 0],
    OnlyApplierFails,
    [OnlyApplierFails EXCEPT !.crashes = 0, !.faults = 2]}

\* Specs are alike: of the behaviours of one job that differ in the names of its
\* specs only, those in which the branch, or if its tree is empty Nomad, starts
\* with the first one.
FirstSpec == CHOOSE spec \in Specs : TRUE
FirstNamedFirst ==
    \A j \in Jobs :
        IF repo[1][j] = Absent THEN live[j].spec \in {FirstSpec, Absent} ELSE repo[1][j] = FirstSpec

MCInit == Init /\ FirstNamedFirst

\* FairSpec from those initial states.
MCFairSpec == MCInit /\ [][Next]_vars /\ Fairness
===============================================================================
