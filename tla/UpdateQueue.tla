----------------------------- MODULE UpdateQueue ------------------------------
(***************************************************************************)
(* The in-memory queue between detection and application: any number of    *)
(* producers (overlapping Checks and the rollback poll) call Enqueue, one  *)
(* applier goroutine calls NextPending, reads the row it was handed        *)
(* without the lock, and calls Complete.                                   *)
(***************************************************************************)
EXTENDS UpdateQueueOps

CONSTANTS
    Jobs,        \* Nomad jobs
    Refs,        \* what an UpdateID names beside the job
    Ops,         \* what a refresh leaves alone (see UpdateQueueOps)
    Bodies,      \* what a refresh replaces
    MaxStamp,    \* bound: appends in a behaviour
    NoIntent     \* the absence of an intent, in the abstract view

ASSUME MaxStampAssumption == MaxStamp \in Nat

ASSUME NoIntentAssumption ==
    /\ NoIntent \notin [ref : Refs, body : Bodies]
    /\ NoIntent \notin [job : Jobs, ref : Refs, body : Bodies]

Intent == [job : Jobs, ref : Refs, op : Ops, body : Bodies]
Row == [job : Jobs, ref : Refs, op : Ops, body : Bodies, status : Status]

VARIABLES
    updates,   \* the slice, as rows by stamp
    stamp,     \* the stamp of the next append
    inflight   \* stamp of the row the applier holds a pointer to; 0: none

vars == <<updates, stamp, inflight>>

Init ==
    /\ updates = [i \in {} |-> 0]
    /\ stamp = 1
    /\ inflight = 0

\* A producer enqueues an intent.
EnqueueUpdate(u) ==
    /\ stamp <= MaxStamp
    /\ updates' = Enqueue(updates, stamp, u)
    /\ stamp' = IF Claiming(updates, u) # {} THEN stamp ELSE stamp + 1
    /\ UNCHANGED inflight

\* The applier takes the oldest PENDING row.
NextPending ==
    /\ inflight = 0
    /\ \E i \in First(Pending(updates)) :
        /\ updates' = MarkInProgress(updates, i)
        /\ inflight' = i
    /\ UNCHANGED stamp

\* The applier records the outcome of the row it holds.
CompleteUpdate(outcome) ==
    /\ inflight # 0
    /\ updates' = Complete(updates, updates[inflight], outcome)
    /\ inflight' = 0
    /\ UNCHANGED stamp

Next ==
    \/ \E u \in Intent : EnqueueUpdate(u)
    \/ NextPending
    \/ \E outcome \in {"SUCCEEDED", "FAILED", "HELD"} : CompleteUpdate(outcome)

Spec == Init /\ [][Next]_vars

\* drainUpdates loops until nothing is pending and every enqueue wakes it, so
\* the applier's two steps are weakly fair.  Producers owe nothing.
FairSpec ==
    /\ Spec
    /\ WF_vars(NextPending)
    /\ WF_vars(\E outcome \in {"SUCCEEDED", "FAILED", "HELD"} : CompleteUpdate(outcome))

-----------------------------------------------------------------------------
\* Types; a row carries a stamp that was handed out.
TypeOK ==
    /\ stamp \in 1 .. (MaxStamp + 1)
    /\ DOMAIN updates \subseteq 1 .. (stamp - 1)
    /\ updates \in [DOMAIN updates -> Row]
    /\ inflight \in Nat /\ inflight < stamp

\* The queue holds one row per UpdateID, so a Complete by UpdateID can only
\* mean one row (Enqueue's retry rule, update.go:213).
OneRowPerUpdateID ==
    \A i, k \in DOMAIN updates :
        updates[i].job = updates[k].job /\ updates[i].ref = updates[k].ref => i = k

\* Two intents for one job never wait together: the one enqueued later takes the
\* place of the other, whichever commit is newer (Reconcile's SupersededByNewer).
OnePendingPerJob ==
    \A i, k \in Pending(updates) : updates[i].job = updates[k].job => i = k

\* The row the applier works on without the lock is in the queue, IN_PROGRESS
\* and the only such row, whatever producers do meanwhile.
InFlightRowStays ==
    InProgress(updates) = (IF inflight = 0 THEN {} ELSE {inflight})

\* The history kept for the API is bounded and never costs a row that is
\* waiting or in flight (those rows are what the other invariants follow).
TerminalBounded == Cardinality(Settled(updates)) <= MaxTerminalUpdates

\* Every row that waits is settled (applied, failed, held or superseded).
PendingIsSettled ==
    \A i \in 1 .. MaxStamp : i \in Pending(updates) ~> i \notin Pending(updates) \cup InProgress(updates)

-----------------------------------------------------------------------------
(* What the queue promises its two sides, without rows: UpdateIntents.     *)

WaitingFor(j) ==
    LET mine == {i \in Pending(updates) : updates[i].job = j}
    IN  IF mine = {} THEN NoIntent
        ELSE LET i == CHOOSE i \in mine : TRUE
             IN  [ref |-> updates[i].ref, body |-> updates[i].body]

Applying ==
    IF inflight = 0 THEN NoIntent
    ELSE [job |-> updates[inflight].job, ref |-> updates[inflight].ref,
          body |-> updates[inflight].body]

Intents == INSTANCE UpdateIntents WITH
    waiting <- [j \in Jobs |-> WaitingFor(j)],
    applying <- Applying

\* The row table implements one latest intent per job and one immutable
\* intent in flight.
ImplementsIntents == Intents!Spec
===============================================================================
