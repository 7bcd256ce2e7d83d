---------------------------- MODULE UpdateIntents -----------------------------
(***************************************************************************)
(* What the update queue promises, stated without a queue: each job has at *)
(* most one waiting intent, the latest one declared; the applier works on  *)
(* one intent, which nothing changes under it; declaring again the very    *)
(* update being applied does nothing ("left strictly untouched and no new  *)
(* entry is added", update.go:172).                                        *)
(***************************************************************************)
CONSTANTS Jobs, Refs, Bodies, NoIntent

VARIABLES
    waiting,   \* job -> [ref, body] or NoIntent
    applying   \* [job, ref, body] or NoIntent

vars == <<waiting, applying>>

Init ==
    /\ waiting = [j \in Jobs |-> NoIntent]
    /\ applying = NoIntent

BeingApplied(j, r) == applying # NoIntent /\ applying.job = j /\ applying.ref = r

Declare(j, r, b) ==
    /\ ~BeingApplied(j, r)
    /\ waiting' = [waiting EXCEPT ![j] = [ref |-> r, body |-> b]]
    /\ UNCHANGED applying

Start(j) ==
    /\ applying = NoIntent
    /\ waiting[j] # NoIntent
    /\ applying' = [job |-> j, ref |-> waiting[j].ref, body |-> waiting[j].body]
    /\ waiting' = [waiting EXCEPT ![j] = NoIntent]

Finish ==
    /\ applying # NoIntent
    /\ applying' = NoIntent
    /\ UNCHANGED waiting

Next ==
    \/ \E j \in Jobs, r \in Refs, b \in Bodies : Declare(j, r, b)
    \/ \E j \in Jobs : Start(j)
    \/ Finish

Spec == Init /\ [][Next]_vars
===============================================================================
