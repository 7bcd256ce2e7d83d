------------------------------ MODULE MCRollback -------------------------------
\* Rollback on small instances.
EXTENDS Rollback

CONSTANTS s1, s2, s3, s4

\* s4 leaves to Nomad's defaults what s2 spells out.
MCStores == [spec \in Specs |-> IF spec = s4 THEN s2 ELSE spec]

\* Two disturbances of any kind; one more commit and four of some kinds; three
\* around a spec that Nomad reverts itself; a guard that tags, and forgetful Nomad;
\* a failing spec that Nomad fills in, as written both ways.
OfEachKind ==
    [specs |-> {s1, s2, s3}, tags |-> FALSE, commits |-> 1, any |-> 2,
     of |-> [kind \in Kinds |-> IF kind = "failure" THEN 2 ELSE 1]]
NewerCommit ==
    [specs |-> {s1, s2}, tags |-> FALSE, commits |-> 2, any |-> 4,
     of |-> [kind \in Kinds |-> CASE kind = "failure" -> 2
                                  [] kind \in {"edit", "poll", "revert"} -> 1
                                  [] OTHER -> 0]]
RevertedByNomad ==
    [specs |-> {s1, s3}, tags |-> FALSE, commits |-> 1, any |-> 3,
     of |-> [kind \in Kinds |-> CASE kind = "failure" -> 2
                                  [] kind \in {"stop", "gc", "register", "guard"} -> 1
                                  [] OTHER -> 0]]
Tags ==
    [specs |-> {s1, s2}, tags |-> TRUE, commits |-> 1, any |-> 4,
     of |-> [kind \in Kinds |-> CASE kind \in {"failure", "gc"} -> 2
                                  [] kind \in {"edit", "tag"} -> 1
                                  [] OTHER -> 0]]
FilledIn ==
    [specs |-> {s1, s2, s4}, tags |-> FALSE, commits |-> 2, any |-> 2,
     of |-> [kind \in Kinds |-> IF kind = "failure" THEN 2 ELSE 0]]
Scenarios == {OfEachKind, NewerCommit, RevertedByNomad, Tags, FilledIn}
===============================================================================
