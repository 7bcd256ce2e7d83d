---------------------------- MODULE UpdateQueueOps ----------------------------
(***************************************************************************)
(* The operations of UpdateQueue (src/internal/nomad/update.go) as         *)
(* operators on the value of its `updates` slice.                          *)
(*                                                                         *)
(* `updates` is a function `rows` from append stamps to rows: the slice's  *)
(* order is the order of the stamps (newest last), an append takes a stamp *)
(* no row has had, and a delete removes the stamp from the domain.  A row  *)
(* is an intent with a status:                                             *)
(*   job, ref   its UpdateID, "<job>/<ref>": ref is the short commit       *)
(*              (updateID) or the failed version (revertUpdateID);         *)
(*   op         what the in-place refresh of a PENDING row leaves alone:   *)
(*              Operation, Policy, HCLFile, RevertToVersion, DetectedAt;   *)
(*   body       what that refresh replaces: the CAS token, the Raft index, *)
(*              the parsed job and preserveCounts.                         *)
(* Each operator is one critical section of q.mu.                          *)
(***************************************************************************)
EXTENDS Naturals, FiniteSets

CONSTANT MaxTerminalUpdates   \* maxTerminalUpdates; 200 in the code

ASSUME MaxTerminalAssumption == MaxTerminalUpdates \in Nat

TerminalStatus == {"SUCCEEDED", "FAILED", "SUPERSEDED", "HELD"}
Status == {"PENDING", "IN_PROGRESS"} \cup TerminalStatus

Pending(rows) == {i \in DOMAIN rows : rows[i].status = "PENDING"}
InProgress(rows) == {i \in DOMAIN rows : rows[i].status = "IN_PROGRESS"}
Settled(rows) == {i \in DOMAIN rows : rows[i].status \in TerminalStatus}

SameUpdateID(rows, u) ==
    {i \in DOMAIN rows : rows[i].job = u.job /\ rows[i].ref = u.ref}

\* The first element a scan of the slice meets: {} or a singleton.
First(S) == {i \in S : \A k \in S : i <= k}

Keep(rows, S) == [i \in DOMAIN rows \cap S |-> rows[i]]

-----------------------------------------------------------------------------
(* prune: the oldest terminal rows beyond the limit go, nothing else.      *)

PruneAll(rows) == \* mutant: counts every row, as a cap on the queue's length would
    Keep(rows, {i \in DOMAIN rows :
                  Cardinality({k \in DOMAIN rows : k >= i}) <= MaxTerminalUpdates + 1})

Prune(rows) ==
    Keep(rows, {i \in DOMAIN rows : i \in Settled(rows) =>
                  Cardinality({k \in Settled(rows) : k >= i}) <= MaxTerminalUpdates})

-----------------------------------------------------------------------------
(* Enqueue.                                                                *)

\* The row that takes the intent in: PENDING (refreshed) or IN_PROGRESS.
Claiming(rows, u) == First(SameUpdateID(rows, u)) \ Settled(rows)

RefreshInFlight(rows, u) == \* mutant: refreshes the row the applier is reading
    [i \in DOMAIN rows |->
        IF i \in Claiming(rows, u) THEN [rows[i] EXCEPT !.body = u.body] ELSE rows[i]]

Refresh(rows, u) ==
    [i \in DOMAIN rows |->
        IF i \in Claiming(rows, u) \cap Pending(rows)
        THEN [rows[i] EXCEPT !.body = u.body]
        ELSE rows[i]]

SupersedeNone(rows, u) == rows \* mutant: leaves the older commit's row waiting

Supersede(rows, u) ==
    [i \in DOMAIN rows |->
        IF rows[i].job = u.job /\ i \in Pending(rows)
        THEN [rows[i] EXCEPT !.status = "SUPERSEDED"]
        ELSE rows[i]]

DropNone(rows, u) == rows \* mutant: keeps the terminal row of a retried intent

DropRetried(rows, u) ==
    Keep(rows, DOMAIN rows \ First(SameUpdateID(rows, u) \cap Settled(rows)))

AppendUnset(rows, n, u) == \* mutant: the new row's status is left unset
    [i \in DOMAIN rows \cup {n} |->
        IF i = n
        THEN [job |-> u.job, ref |-> u.ref, op |-> u.op, body |-> u.body, status |-> ""]
        ELSE rows[i]]

AppendRow(rows, n, u) ==
    [i \in DOMAIN rows \cup {n} |->
        IF i = n
        THEN [job |-> u.job, ref |-> u.ref, op |-> u.op, body |-> u.body,
              status |-> "PENDING"]
        ELSE rows[i]]

\* n is the stamp an append would take.
Enqueue(rows, n, u) ==
    IF Claiming(rows, u) # {}
    THEN Refresh(rows, u)
    ELSE Prune(AppendRow(DropRetried(Supersede(rows, u), u), n, u))

-----------------------------------------------------------------------------
(* NextPending marks the oldest PENDING row; Complete settles the row with *)
(* this UpdateID that is in progress.  (The token Complete stores after a  *)
(* successful register is only displayed and is left out.)                 *)

MarkInProgress(rows, i) == [rows EXCEPT ![i].status = "IN_PROGRESS"]

CompleteUnpruned(rows, u, outcome) == \* mutant: no prune after an apply
    [i \in DOMAIN rows |->
        IF i \in First(SameUpdateID(rows, u) \cap InProgress(rows))
        THEN [rows[i] EXCEPT !.status = outcome]
        ELSE rows[i]]

CompleteSuccess(rows, u, outcome) == \* mutant: only a success is recorded
    IF outcome = "SUCCEEDED" THEN CompleteUnpruned(rows, u, outcome) ELSE rows

Complete(rows, u, outcome) ==
    LET done == First(SameUpdateID(rows, u) \cap InProgress(rows))
    IN  IF done = {} THEN rows
        ELSE Prune([i \in DOMAIN rows |->
                       IF i \in done THEN [rows[i] EXCEPT !.status = outcome] ELSE rows[i]])

-----------------------------------------------------------------------------
(* For modules that do not name rows by stamp: rows numbered from 1 on.    *)

Renumbered(rows) ==
    [i \in 1 .. Cardinality(DOMAIN rows) |->
        rows[CHOOSE n \in DOMAIN rows : Cardinality({m \in DOMAIN rows : m <= n}) = i]]

\* Enqueue where a new row goes behind every row there is.
Appended(rows, u) == Renumbered(Enqueue(rows, Cardinality(DOMAIN rows) + 1, u))
===============================================================================
