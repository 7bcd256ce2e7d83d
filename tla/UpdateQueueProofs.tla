-------------------------- MODULE UpdateQueueProofs ---------------------------
(***************************************************************************)
(* Proofs about UpdateQueue, for every set of jobs, refs and bodies, every *)
(* terminal limit and every number of appends.                             *)
(*                                                                         *)
(* The inductive invariant is about the row table alone: Coherent says     *)
(* what Enqueue's three rules keep true together.  None of its conjuncts   *)
(* is inductive without the others: a second row for an UpdateID would let *)
(* Complete settle the wrong one, and a second waiting row for a job is    *)
(* ruled out only because the row that claims an intent is the only one    *)
(* with its UpdateID.                                                      *)
(*                                                                         *)
(* QueueRefinesIntents maps the table to UpdateIntents: lemmas say what an *)
(* append, a refresh and a prune leave of the row that waits for a job;    *)
(* then each action is an abstract step or a stutter.                      *)
(***************************************************************************)
EXTENDS UpdateQueue, FiniteSetTheorems, WellFoundedInduction, TLAPS

Stamped(rows, n) ==
    /\ DOMAIN rows \subseteq 1 .. (n - 1)
    /\ rows \in [DOMAIN rows -> Row]

UniqueIDs(rows) ==
    \A i, k \in DOMAIN rows :
        rows[i].job = rows[k].job /\ rows[i].ref = rows[k].ref => i = k

UniquePending(rows) ==
    \A i, k \in Pending(rows) : rows[i].job = rows[k].job => i = k

Coherent(rows, n) == Stamped(rows, n) /\ UniqueIDs(rows) /\ UniquePending(rows)

-----------------------------------------------------------------------------
(* Deleting terminal rows.                                                 *)

\* Keep is restriction.
LEMMA KeepRestricts ==
    ASSUME NEW rows, NEW S
    PROVE  /\ DOMAIN Keep(rows, S) = DOMAIN rows \cap S
           /\ \A i \in DOMAIN rows \cap S : Keep(rows, S)[i] = rows[i]
  BY DEF Keep

\* Keep to a subset of the domain has that subset as its domain.
LEMMA KeepSubset ==
    ASSUME NEW rows, NEW S, S \subseteq DOMAIN rows
    PROVE  /\ DOMAIN Keep(rows, S) = S
           /\ \A i \in S : Keep(rows, S)[i] = rows[i]
  <1>1. DOMAIN rows \cap S = S
    OBVIOUS
  <1> QED
    BY <1>1, KeepRestricts

\* Restricting a coherent table leaves it coherent, and if only terminal rows
\* went, the row in flight is still there.
LEMMA KeepCoherent ==
    ASSUME NEW rows, NEW n \in Nat, NEW S, Coherent(rows, n)
    PROVE  /\ Coherent(Keep(rows, S), n)
           /\ DOMAIN rows \ Settled(rows) \subseteq S =>
                 InProgress(Keep(rows, S)) = InProgress(rows)
  <1> DEFINE kept == Keep(rows, S)
  <1>1. /\ DOMAIN kept = DOMAIN rows \cap S
        /\ \A i \in DOMAIN kept : kept[i] = rows[i]
    BY KeepRestricts
  <1>2. Stamped(kept, n)
    <2>1. kept = [i \in DOMAIN rows \cap S |-> rows[i]]
      BY DEF Keep
    <2>2. \A i \in DOMAIN kept : kept[i] \in Row
      BY <1>1 DEF Coherent, Stamped
    <2>3. DOMAIN kept \subseteq 1 .. (n - 1)
      BY <1>1 DEF Coherent, Stamped
    <2> QED
      BY <2>1, <2>2, <2>3, <1>1 DEF Stamped
  <1>3. UniqueIDs(kept)
    BY <1>1 DEF Coherent, UniqueIDs
  <1>4. UniquePending(kept)
    BY <1>1 DEF Coherent, UniquePending, Pending
  <1>5. ASSUME DOMAIN rows \ Settled(rows) \subseteq S
        PROVE  InProgress(kept) = InProgress(rows)
    BY <1>1, <1>5 DEF InProgress, Settled, TerminalStatus
  <1> QED
    BY <1>2, <1>3, <1>4, <1>5 DEF Coherent

\* prune never drops a row that is waiting or in flight.
LEMMA PruneCoherent ==
    ASSUME NEW rows, NEW n \in Nat, Coherent(rows, n)
    PROVE  /\ Coherent(Prune(rows), n)
           /\ InProgress(Prune(rows)) = InProgress(rows)
  <1> DEFINE S == {i \in DOMAIN rows : i \in Settled(rows) =>
                     Cardinality({k \in Settled(rows) : k >= i}) <= MaxTerminalUpdates}
  <1>1. DOMAIN rows \ Settled(rows) \subseteq S
    OBVIOUS
  <1>2. Prune(rows) = Keep(rows, S)
    BY DEF Prune
  <1> QED
    BY <1>1, <1>2, KeepCoherent

\* A nonempty set of naturals has a least element.
LEMMA LeastElement ==
    ASSUME NEW S, S \subseteq Nat, S # {}
    PROVE  \E m \in S : \A i \in S : m <= i
  <1>1. PICK m \in S : \A i \in S : ~ (<<i, m>> \in OpToRel(<, Nat))
    BY NatLessThanWellFounded, WFMin
  <1>2. \A i \in S : ~ (i < m)
    BY <1>1 DEF OpToRel
  <1> QED
    BY <1>2

\* prune establishes the bound from any table: the oldest surviving terminal
\* row has at most MaxTerminalUpdates terminal rows from it on, and those are
\* all the survivors.
LEMMA PruneBounds ==
    ASSUME NEW rows, NEW n \in Nat, Coherent(rows, n)
    PROVE  Cardinality(Settled(Prune(rows))) <= MaxTerminalUpdates
  <1> DEFINE T == Settled(rows)
             from(i) == {k \in T : k >= i}
             S == {i \in DOMAIN rows : i \in T => Cardinality(from(i)) <= MaxTerminalUpdates}
             left == Settled(Prune(rows))
  <1>1. T \subseteq 1 .. (n - 1) /\ IsFiniteSet(T)
    <2>1. T \subseteq 1 .. (n - 1)
      BY DEF Settled, Coherent, Stamped
    <2> QED
      BY <2>1, FS_Interval, FS_Subset
  <1>2. left = {i \in T : Cardinality(from(i)) <= MaxTerminalUpdates}
    <2>1. Prune(rows) = Keep(rows, S)
      BY DEF Prune
    <2>2. S \subseteq DOMAIN rows /\ T \subseteq DOMAIN rows
      BY DEF Settled
    <2>3. left = T \cap S
      <3> DEFINE kept == Keep(rows, S)
      <3>1. DOMAIN kept = S /\ \A i \in S : kept[i] = rows[i]
        <4> HIDE DEF S
        <4> QED
          BY <2>2, KeepSubset
      <3>2. left = Settled(kept)
        BY <2>1
      <3> HIDE DEF S, kept, left
      <3> QED
        BY <2>2, <3>1, <3>2 DEF Settled
    <2> QED
      BY <2>2, <2>3
  <1>3. CASE left = {}
    BY <1>3, FS_EmptySet, MaxTerminalAssumption
  <1>4. CASE left # {}
    <2>1. left \subseteq Nat
      BY <1>1, <1>2
    <2>2. PICK m \in left : \A i \in left : m <= i
      BY <1>4, <2>1, LeastElement
    <2>3. left \subseteq from(m)
      BY <1>2, <2>1, <2>2
    <2>4. IsFiniteSet(from(m))
      BY <1>1, FS_Subset
    <2>5. Cardinality(left) <= Cardinality(from(m))
      BY <2>3, <2>4, FS_Subset
    <2>6. Cardinality(from(m)) <= MaxTerminalUpdates
      BY <1>2, <2>2
    <2>7. Cardinality(left) \in Nat /\ Cardinality(from(m)) \in Nat
      BY <2>3, <2>4, FS_Subset, FS_CardinalityType
    <2> QED
      BY <2>5, <2>6, <2>7, MaxTerminalAssumption
  <1> QED
    BY <1>3, <1>4

-----------------------------------------------------------------------------
(* Enqueue.                                                                *)

\* A row that is not terminal and has the intent's UpdateID claims it: the
\* scan stops at the only row with that UpdateID.
LEMMA SameIDClaims ==
    ASSUME NEW rows, NEW n \in Nat, NEW u \in Intent, Coherent(rows, n),
           NEW i \in SameUpdateID(rows, u), i \notin Settled(rows)
    PROVE  i \in Claiming(rows, u)
  <1>1. SameUpdateID(rows, u) = {i}
    BY DEF SameUpdateID, Coherent, UniqueIDs
  <1>2. i \in Nat
    BY DEF SameUpdateID, Coherent, Stamped
  <1> QED
    BY <1>1, <1>2 DEF Claiming, First

\* Refreshing a waiting row changes its body only.
LEMMA RefreshCoherent ==
    ASSUME NEW rows, NEW n \in Nat, NEW u \in Intent, Coherent(rows, n)
    PROVE  /\ Coherent(Refresh(rows, u), n)
           /\ InProgress(Refresh(rows, u)) = InProgress(rows)
           /\ Settled(Refresh(rows, u)) = Settled(rows)
  <1> DEFINE new == Refresh(rows, u)
  <1>1. /\ DOMAIN new = DOMAIN rows
        /\ \A i \in DOMAIN rows :
              /\ new[i] \in Row
              /\ new[i].job = rows[i].job
              /\ new[i].ref = rows[i].ref
              /\ new[i].status = rows[i].status
    BY DEF Refresh, Coherent, Stamped, Row, Intent
  <1>2. new = [i \in DOMAIN rows |-> new[i]]
    BY DEF Refresh
  <1>3. Stamped(new, n)
    BY <1>1, <1>2 DEF Coherent, Stamped
  <1>4. UniqueIDs(new)
    BY <1>1 DEF Coherent, UniqueIDs
  <1>5. UniquePending(new)
    BY <1>1 DEF Coherent, UniquePending, Pending
  <1>6. InProgress(new) = InProgress(rows) /\ Settled(new) = Settled(rows)
    BY <1>1 DEF InProgress, Settled
  <1> QED
    BY <1>3, <1>4, <1>5, <1>6 DEF Coherent

\* Superseding settles every waiting row of the job and nothing else.
LEMMA SupersedeCoherent ==
    ASSUME NEW rows, NEW n \in Nat, NEW u \in Intent, Coherent(rows, n)
    PROVE  /\ Coherent(Supersede(rows, u), n)
           /\ InProgress(Supersede(rows, u)) = InProgress(rows)
           /\ \A i \in Pending(Supersede(rows, u)) : Supersede(rows, u)[i].job # u.job
           /\ DOMAIN Supersede(rows, u) = DOMAIN rows
           /\ \A i \in DOMAIN rows :
                 /\ Supersede(rows, u)[i].job = rows[i].job
                 /\ Supersede(rows, u)[i].ref = rows[i].ref
           /\ Settled(Supersede(rows, u)) =
                 Settled(rows) \cup {i \in Pending(rows) : rows[i].job = u.job}
  <1> DEFINE new == Supersede(rows, u)
  <1>1. /\ DOMAIN new = DOMAIN rows
        /\ \A i \in DOMAIN rows :
              /\ new[i] \in Row
              /\ new[i].job = rows[i].job
              /\ new[i].ref = rows[i].ref
              /\ new[i].status = IF rows[i].job = u.job /\ rows[i].status = "PENDING"
                                 THEN "SUPERSEDED" ELSE rows[i].status
    BY DEF Supersede, Coherent, Stamped, Row, Status, TerminalStatus, Pending
  <1>2. new = [i \in DOMAIN rows |-> new[i]]
    BY DEF Supersede
  <1>3. Stamped(new, n)
    BY <1>1, <1>2 DEF Coherent, Stamped
  <1>4. UniqueIDs(new)
    BY <1>1 DEF Coherent, UniqueIDs
  <1>5. UniquePending(new)
    BY <1>1 DEF Coherent, UniquePending, Pending
  <1>6. InProgress(new) = InProgress(rows)
    BY <1>1 DEF InProgress
  <1>7. \A i \in Pending(new) : new[i].job # u.job
    BY <1>1 DEF Pending
  <1>8. Settled(new) = Settled(rows) \cup {i \in Pending(rows) : rows[i].job = u.job}
    BY <1>1 DEF Settled, Pending, TerminalStatus
  <1> QED
    BY <1>1, <1>3, <1>4, <1>5, <1>6, <1>7, <1>8 DEF Coherent

\* Appending is safe when no row has the UpdateID and none waits for the job.
LEMMA AppendCoherent ==
    ASSUME NEW rows, NEW n \in Nat \ {0}, NEW u \in Intent, Coherent(rows, n),
           SameUpdateID(rows, u) = {},
           \A i \in Pending(rows) : rows[i].job # u.job
    PROVE  /\ Coherent(AppendRow(rows, n, u), n + 1)
           /\ InProgress(AppendRow(rows, n, u)) = InProgress(rows)
           /\ Settled(AppendRow(rows, n, u)) = Settled(rows)
  <1> DEFINE new == AppendRow(rows, n, u)
  <1>1. n \notin DOMAIN rows
    BY DEF Coherent, Stamped
  <1>2. /\ DOMAIN new = DOMAIN rows \cup {n}
        /\ \A i \in DOMAIN rows : new[i] = rows[i]
        /\ new[n] = [job |-> u.job, ref |-> u.ref, op |-> u.op, body |-> u.body,
                     status |-> "PENDING"]
    BY <1>1 DEF AppendRow
  <1>3. \A i \in DOMAIN new : new[i] \in Row
    BY <1>2 DEF Coherent, Stamped, Row, Intent, Status
  <1>4. new = [i \in DOMAIN new |-> new[i]]
    BY DEF AppendRow
  <1>5. DOMAIN new \subseteq 1 .. ((n + 1) - 1)
    BY <1>2 DEF Coherent, Stamped
  <1>6. Stamped(new, n + 1)
    BY <1>3, <1>4, <1>5 DEF Stamped
  <1>7. UniqueIDs(new)
    BY <1>2 DEF Coherent, UniqueIDs, SameUpdateID
  <1>8. UniquePending(new)
    BY <1>2 DEF Coherent, UniquePending, Pending
  <1>9. InProgress(new) = InProgress(rows)
    BY <1>1, <1>2 DEF InProgress
  <1>10. Settled(new) = Settled(rows)
    BY <1>1, <1>2 DEF Settled, TerminalStatus
  <1> QED
    BY <1>6, <1>7, <1>8, <1>9, <1>10 DEF Coherent

\* Dropping the retried row removes the one row with the UpdateID, when no
\* row claims the intent.
LEMMA DropRetriedCoherent ==
    ASSUME NEW rows, NEW n \in Nat, NEW u \in Intent, Coherent(rows, n),
           SameUpdateID(rows, u) \subseteq Settled(rows)
    PROVE  /\ Coherent(DropRetried(rows, u), n)
           /\ InProgress(DropRetried(rows, u)) = InProgress(rows)
           /\ SameUpdateID(DropRetried(rows, u), u) = {}
           /\ Settled(DropRetried(rows, u)) = Settled(rows) \ SameUpdateID(rows, u)
           /\ \A i \in Pending(DropRetried(rows, u)) :
                 i \in Pending(rows) /\ DropRetried(rows, u)[i] = rows[i]
  <1> DEFINE gone == First(SameUpdateID(rows, u) \cap Settled(rows))
             new == DropRetried(rows, u)
  <1>1. gone = SameUpdateID(rows, u)
    <2>1. SameUpdateID(rows, u) \subseteq Nat
      BY DEF SameUpdateID, Coherent, Stamped
    <2>2. \A i, k \in SameUpdateID(rows, u) : i = k
      BY DEF SameUpdateID, Coherent, UniqueIDs
    <2> QED
      BY <2>1, <2>2 DEF First
  <1>2. /\ DOMAIN new = DOMAIN rows \ gone
        /\ \A i \in DOMAIN new : new[i] = rows[i]
    <2> DEFINE rest == DOMAIN rows \ gone
    <2>1. new = Keep(rows, rest)
      BY DEF DropRetried
    <2> HIDE DEF gone, new
    <2> QED
      BY <2>1, KeepSubset
  <1>3. Coherent(new, n) /\ InProgress(new) = InProgress(rows)
    <2>1. DOMAIN rows \ Settled(rows) \subseteq DOMAIN rows \ gone
      BY DEF First
    <2> QED
      BY <2>1, KeepCoherent DEF DropRetried
  <1>4. SameUpdateID(new, u) = {}
    BY <1>1, <1>2 DEF SameUpdateID
  <1>5. Settled(new) = Settled(rows) \ SameUpdateID(rows, u)
    BY <1>1, <1>2 DEF Settled
  <1>6. \A i \in Pending(new) : i \in Pending(rows) /\ new[i] = rows[i]
    BY <1>2 DEF Pending
  <1> QED
    BY <1>3, <1>4, <1>5, <1>6

\* Enqueue: the table stays coherent whichever of the three rules applies, a
\* stamp is used only by an append, and the row in flight stays in flight.
LEMMA EnqueueCoherent ==
    ASSUME NEW rows, NEW n \in Nat \ {0}, NEW u \in Intent, Coherent(rows, n)
    PROVE  /\ Claiming(rows, u) # {} => Coherent(Enqueue(rows, n, u), n)
           /\ Claiming(rows, u) = {} => Coherent(Enqueue(rows, n, u), n + 1)
           /\ Cardinality(Settled(rows)) <= MaxTerminalUpdates =>
                 Cardinality(Settled(Enqueue(rows, n, u))) <= MaxTerminalUpdates
           /\ InProgress(Enqueue(rows, n, u)) = InProgress(rows)
  <1>1. CASE Claiming(rows, u) # {}
    BY <1>1, RefreshCoherent DEF Enqueue
  <1>2. CASE Claiming(rows, u) = {}
    <2> DEFINE marked == Supersede(rows, u)
               left == DropRetried(marked, u)
               added == AppendRow(left, n, u)
    <2>1. Enqueue(rows, n, u) = Prune(added)
      BY <1>2 DEF Enqueue
    <2>2. SameUpdateID(rows, u) \subseteq Settled(rows)
      BY <1>2, SameIDClaims
    <2>3. /\ Coherent(marked, n)
          /\ InProgress(marked) = InProgress(rows)
          /\ \A i \in Pending(marked) : marked[i].job # u.job
          /\ Settled(rows) \subseteq Settled(marked)
          /\ SameUpdateID(marked, u) = SameUpdateID(rows, u)
      <3>1. SameUpdateID(marked, u) = SameUpdateID(rows, u)
        BY SupersedeCoherent DEF SameUpdateID
      <3> QED
        BY <3>1, SupersedeCoherent
    <2> HIDE DEF marked
    <2>4. /\ Coherent(left, n)
          /\ InProgress(left) = InProgress(marked)
          /\ SameUpdateID(left, u) = {}
          /\ \A i \in Pending(left) : left[i].job # u.job
      BY <2>2, <2>3, DropRetriedCoherent
    <2> HIDE DEF left
    <2>5. Coherent(added, n + 1) /\ InProgress(added) = InProgress(left)
      BY <2>4, AppendCoherent
    <2> HIDE DEF added
    <2>6. /\ Coherent(Prune(added), n + 1)
          /\ InProgress(Prune(added)) = InProgress(added)
          /\ Cardinality(Settled(Prune(added))) <= MaxTerminalUpdates
      BY <2>5, PruneCoherent, PruneBounds
    <2> QED
      BY <1>2, <2>1, <2>3, <2>4, <2>5, <2>6
  <1> QED
    BY <1>1, <1>2

-----------------------------------------------------------------------------
(* The applier's operations.                                               *)

\* NextPending puts one waiting row in flight.
LEMMA MarkCoherent ==
    ASSUME NEW rows, NEW n \in Nat, NEW i \in Pending(rows), Coherent(rows, n)
    PROVE  /\ Coherent(MarkInProgress(rows, i), n)
           /\ InProgress(MarkInProgress(rows, i)) = InProgress(rows) \cup {i}
           /\ Settled(MarkInProgress(rows, i)) = Settled(rows)
  <1> DEFINE new == MarkInProgress(rows, i)
  <1>1. i \in DOMAIN rows /\ rows[i].status = "PENDING"
    BY DEF Pending
  <1>2. /\ DOMAIN new = DOMAIN rows
        /\ \A k \in DOMAIN rows :
              /\ new[k] \in Row
              /\ new[k].job = rows[k].job
              /\ new[k].ref = rows[k].ref
              /\ new[k].status = IF k = i THEN "IN_PROGRESS" ELSE rows[k].status
    BY <1>1 DEF MarkInProgress, Coherent, Stamped, Row, Status
  <1>3. new = [k \in DOMAIN rows |-> new[k]]
    BY DEF MarkInProgress, Coherent, Stamped
  <1>4. Stamped(new, n)
    BY <1>2, <1>3 DEF Coherent, Stamped
  <1>5. UniqueIDs(new)
    BY <1>2 DEF Coherent, UniqueIDs
  <1>6. UniquePending(new)
    BY <1>2 DEF Coherent, UniquePending, Pending
  <1>7. InProgress(new) = InProgress(rows) \cup {i}
    BY <1>1, <1>2 DEF InProgress
  <1>8. Settled(new) = Settled(rows)
    BY <1>1, <1>2 DEF Settled, TerminalStatus
  <1> QED
    BY <1>4, <1>5, <1>6, <1>7, <1>8 DEF Coherent

\* Complete settles exactly the row in flight.
LEMMA CompleteCoherent ==
    ASSUME NEW rows, NEW n \in Nat, Coherent(rows, n),
           NEW i \in DOMAIN rows, InProgress(rows) = {i},
           NEW outcome \in TerminalStatus
    PROVE  /\ Coherent(Complete(rows, rows[i], outcome), n)
           /\ InProgress(Complete(rows, rows[i], outcome)) = {}
           /\ Cardinality(Settled(Complete(rows, rows[i], outcome))) <= MaxTerminalUpdates
  <1> DEFINE done == First(SameUpdateID(rows, rows[i]) \cap InProgress(rows))
             new == [k \in DOMAIN rows |->
                        IF k \in done THEN [rows[k] EXCEPT !.status = outcome] ELSE rows[k]]
  <1>1. done = {i}
    BY DEF First, SameUpdateID, Coherent, Stamped
  <1>2. Complete(rows, rows[i], outcome) = Prune(new)
    BY <1>1 DEF Complete
  <1>3. /\ DOMAIN new = DOMAIN rows
        /\ \A k \in DOMAIN rows :
              /\ new[k] \in Row
              /\ new[k].job = rows[k].job
              /\ new[k].ref = rows[k].ref
              /\ new[k].status = IF k = i THEN outcome ELSE rows[k].status
    BY <1>1 DEF Coherent, Stamped, Row, Status
  <1>4. new = [k \in DOMAIN rows |-> new[k]]
    OBVIOUS
  <1> HIDE DEF new
  <1>5. Stamped(new, n)
    BY <1>3, <1>4 DEF Coherent, Stamped
  <1>6. UniqueIDs(new)
    BY <1>3 DEF Coherent, UniqueIDs
  <1>7. UniquePending(new)
    BY <1>3 DEF Coherent, UniquePending, Pending, TerminalStatus
  <1>8. InProgress(new) = {}
    BY <1>3 DEF InProgress, TerminalStatus
  <1>9. Coherent(new, n)
    BY <1>5, <1>6, <1>7 DEF Coherent
  <1> QED
    BY <1>2, <1>8, <1>9, PruneCoherent, PruneBounds

-----------------------------------------------------------------------------
(* The invariant.                                                          *)

IInv ==
    /\ stamp \in 1 .. (MaxStamp + 1)
    /\ Coherent(updates, stamp)
    /\ InFlightRowStays
    /\ inflight \in Nat /\ inflight < stamp

\* The empty queue satisfies the invariant.
LEMMA InitIInv == Init => IInv
  BY MaxStampAssumption
  DEF Init, IInv, Coherent, Stamped, UniqueIDs, UniquePending, Pending,
      InFlightRowStays, InProgress

\* Every critical section of the queue keeps it.
LEMMA NextIInv == IInv /\ [Next]_vars => IInv'
  <1> SUFFICES ASSUME IInv, [Next]_vars
               PROVE  IInv'
    OBVIOUS
  <1> USE MaxStampAssumption
  <1>0. /\ stamp \in Nat \ {0}
        /\ Coherent(updates, stamp)
        /\ InProgress(updates) = (IF inflight = 0 THEN {} ELSE {inflight})
        /\ inflight \in Nat /\ inflight < stamp
    BY DEF IInv, InFlightRowStays
  <1>1. ASSUME NEW u \in Intent, EnqueueUpdate(u)
        PROVE  IInv'
    <2>1. Coherent(updates, stamp)' /\ InProgress(updates)' = InProgress(updates)
      BY <1>0, <1>1, EnqueueCoherent DEF EnqueueUpdate
    <2>2. stamp' \in 1 .. (MaxStamp + 1) /\ (stamp' = stamp \/ stamp' = stamp + 1)
      BY <1>0, <1>1 DEF EnqueueUpdate
    <2>3. inflight' = inflight
      BY <1>1 DEF EnqueueUpdate
    <2>4. inflight' \in Nat /\ inflight' < stamp'
      BY <1>0, <2>2, <2>3
    <2>5. InFlightRowStays'
      BY <1>0, <2>1, <2>3 DEF InFlightRowStays
    <2> QED
      BY <2>1, <2>2, <2>4, <2>5 DEF IInv
  <1>2. CASE NextPending
    <2>1. PICK i \in First(Pending(updates)) :
             updates' = MarkInProgress(updates, i) /\ inflight' = i
      BY <1>2 DEF NextPending
    <2>2. i \in Pending(updates) /\ i \in 1 .. (stamp - 1)
      BY <1>0, <2>1 DEF First, Pending, Coherent, Stamped
    <2>3. stamp' = stamp /\ inflight = 0
      BY <1>2 DEF NextPending
    <2>4. Coherent(updates, stamp)' /\ InProgress(updates)' = {i}
      BY <1>0, <2>1, <2>2, <2>3, MarkCoherent
    <2> QED
      BY <1>0, <2>1, <2>2, <2>3, <2>4 DEF IInv, InFlightRowStays
  <1>3. ASSUME NEW outcome \in {"SUCCEEDED", "FAILED", "HELD"}, CompleteUpdate(outcome)
        PROVE  IInv'
    <2>1. inflight # 0 /\ inflight' = 0 /\ stamp' = stamp
      BY <1>3 DEF CompleteUpdate
    <2>2. inflight \in DOMAIN updates /\ InProgress(updates) = {inflight}
      BY <1>0, <2>1 DEF InProgress
    <2>3. updates' = Complete(updates, updates[inflight], outcome)
      BY <1>3 DEF CompleteUpdate
    <2>4. Coherent(updates, stamp)' /\ InProgress(updates)' = {}
      BY <1>0, <2>1, <2>2, <2>3, CompleteCoherent DEF TerminalStatus
    <2> QED
      BY <1>0, <2>1, <2>4 DEF IInv, InFlightRowStays
  <1>4. CASE UNCHANGED vars
    BY <1>4 DEF vars, IInv, InFlightRowStays, Coherent, Stamped, UniqueIDs,
                UniquePending, Pending, InProgress
  <1> QED
    BY <1>1, <1>2, <1>3, <1>4 DEF Next

\* The invariant holds throughout.
LEMMA InvariantIInv == Spec => []IInv
  BY InitIInv, NextIInv, PTL DEF Spec

\* Every reachable table is well formed: the rows are rows, and their stamps
\* are stamps that were handed out.
THEOREM TypeCorrect == Spec => []TypeOK
  <1>1. IInv => TypeOK
    BY DEF IInv, TypeOK, Coherent, Stamped
  <1> QED
    BY <1>1, InvariantIInv, PTL

\* One row per UpdateID, whatever producers enqueue and however the calls
\* interleave with the applier's.
THEOREM UpdateIDsUnique == Spec => []OneRowPerUpdateID
  <1>1. IInv => OneRowPerUpdateID
    BY DEF IInv, Coherent, UniqueIDs, OneRowPerUpdateID
  <1> QED
    BY <1>1, InvariantIInv, PTL

\* No two intents for one job ever wait together.
THEOREM SupersedeComplete == Spec => []OnePendingPerJob
  <1>1. IInv => OnePendingPerJob
    BY DEF IInv, Coherent, UniquePending, OnePendingPerJob
  <1> QED
    BY <1>1, InvariantIInv, PTL

\* The row the applier reads without the lock stays in the table, IN_PROGRESS,
\* and is the only such row.
THEOREM InFlightSafe == Spec => []InFlightRowStays
  <1>1. IInv => InFlightRowStays
    BY DEF IInv
  <1> QED
    BY <1>1, InvariantIInv, PTL

-----------------------------------------------------------------------------
\* Every critical section that settles a row prunes before it unlocks.
LEMMA NextBounded == IInv /\ TerminalBounded /\ [Next]_vars => TerminalBounded'
  <1> SUFFICES ASSUME IInv, TerminalBounded, [Next]_vars
               PROVE  TerminalBounded'
    OBVIOUS
  <1>0. stamp \in Nat \ {0} /\ Coherent(updates, stamp)
    BY DEF IInv
  <1>1. ASSUME NEW u \in Intent, EnqueueUpdate(u)
        PROVE  TerminalBounded'
    BY <1>0, <1>1, EnqueueCoherent DEF EnqueueUpdate, TerminalBounded
  <1>2. CASE NextPending
    <2>1. PICK i \in First(Pending(updates)) : updates' = MarkInProgress(updates, i)
      BY <1>2 DEF NextPending
    <2>2. i \in Pending(updates)
      BY DEF First
    <2> QED
      BY <1>0, <2>1, <2>2, MarkCoherent DEF TerminalBounded
  <1>3. ASSUME NEW outcome \in {"SUCCEEDED", "FAILED", "HELD"}, CompleteUpdate(outcome)
        PROVE  TerminalBounded'
    <2>1. inflight \in DOMAIN updates /\ InProgress(updates) = {inflight}
      BY <1>3 DEF CompleteUpdate, IInv, InFlightRowStays, InProgress
    <2>2. updates' = Complete(updates, updates[inflight], outcome)
      BY <1>3 DEF CompleteUpdate
    <2> QED
      BY <1>0, <2>1, <2>2, CompleteCoherent DEF TerminalBounded, TerminalStatus
  <1>4. CASE UNCHANGED vars
    BY <1>4 DEF vars, TerminalBounded
  <1> QED
    BY <1>1, <1>2, <1>3, <1>4 DEF Next

\* The history never exceeds its limit.
THEOREM HistoryBounded == Spec => []TerminalBounded
  <1>1. Init => TerminalBounded
    <2>1. ASSUME Init PROVE Settled(updates) = {}
      BY <2>1 DEF Init, Settled
    <2> QED
      BY <2>1, FS_EmptySet, MaxTerminalAssumption DEF TerminalBounded
  <1> QED
    BY <1>1, InvariantIInv, NextBounded, PTL DEF Spec

-----------------------------------------------------------------------------
(* The refinement: the row table implements UpdateIntents.                 *)

\* What a table says waits for a job: WaitingFor as an operator on the table.
Latest(rows, j) ==
    LET mine == {i \in Pending(rows) : rows[i].job = j}
    IN  IF mine = {} THEN NoIntent
        ELSE LET i == CHOOSE i \in mine : TRUE
             IN  [ref |-> rows[i].ref, body |-> rows[i].body]

\* A waiting row is what waits for its job: the choice in WaitingFor is made
\* from one row.
LEMMA LatestIsRow ==
    ASSUME NEW rows, UniquePending(rows), NEW i \in Pending(rows)
    PROVE  Latest(rows, rows[i].job) = [ref |-> rows[i].ref, body |-> rows[i].body]
  <1> DEFINE mine == {k \in Pending(rows) : rows[k].job = rows[i].job}
  <1>1. mine = {i}
    BY DEF UniquePending
  <1>2. (CHOOSE k \in mine : TRUE) = i
    BY <1>1
  <1> QED
    BY <1>1, <1>2 DEF Latest

\* With no waiting row, nothing waits for the job.
LEMMA LatestIsNone ==
    ASSUME NEW rows, NEW j, \A i \in Pending(rows) : rows[i].job # j
    PROVE  Latest(rows, j) = NoIntent
  <1>1. {i \in Pending(rows) : rows[i].job = j} = {}
    OBVIOUS
  <1> QED
    BY <1>1 DEF Latest

\* A row is never mistaken for the absence of one.
LEMMA LatestIsSome ==
    ASSUME NEW rows, NEW n \in Nat, Coherent(rows, n), NEW i \in Pending(rows)
    PROVE  Latest(rows, rows[i].job) # NoIntent
  <1>1. rows[i] \in Row
    BY DEF Pending, Coherent, Stamped
  <1>2. [ref |-> rows[i].ref, body |-> rows[i].body] \in [ref : Refs, body : Bodies]
    BY <1>1 DEF Row
  <1> QED
    BY <1>2, LatestIsRow, NoIntentAssumption DEF Coherent

\* A job whose waiting rows are untouched has the same intent waiting.
LEMMA LatestSame ==
    ASSUME NEW rows, NEW new, NEW j, UniquePending(rows), UniquePending(new),
           \A i \in Pending(rows) : rows[i].job = j =>
               i \in Pending(new) /\ new[i] = rows[i],
           \A i \in Pending(new) : new[i].job = j =>
               i \in Pending(rows) /\ new[i] = rows[i]
    PROVE  Latest(new, j) = Latest(rows, j)
  <1>1. CASE \E i \in Pending(rows) : rows[i].job = j
    <2>1. PICK i \in Pending(rows) : rows[i].job = j
      BY <1>1
    <2>2. i \in Pending(new) /\ new[i] = rows[i]
      BY <2>1
    <2>3. Latest(rows, rows[i].job) = [ref |-> rows[i].ref, body |-> rows[i].body]
      BY LatestIsRow
    <2>4. Latest(new, new[i].job) = [ref |-> new[i].ref, body |-> new[i].body]
      BY <2>2, LatestIsRow
    <2> QED
      BY <2>1, <2>2, <2>3, <2>4
  <1>2. CASE \A i \in Pending(rows) : rows[i].job # j
    <2>1. \A i \in Pending(new) : new[i].job # j
      BY <1>2
    <2> QED
      BY <1>2, <2>1, LatestIsNone
  <1> QED
    BY <1>1, <1>2

\* Pruning leaves every row that is not terminal as it is, and adds none.
LEMMA PruneKeepsLive ==
    ASSUME NEW rows
    PROVE  /\ Pending(Prune(rows)) = Pending(rows)
           /\ \A i \in DOMAIN rows \ Settled(rows) :
                 i \in DOMAIN Prune(rows) /\ Prune(rows)[i] = rows[i]
  <1> DEFINE S == {i \in DOMAIN rows : i \in Settled(rows) =>
                     Cardinality({k \in Settled(rows) : k >= i}) <= MaxTerminalUpdates}
             kept == Keep(rows, S)
  <1>1. Prune(rows) = kept
    BY DEF Prune
  <1>2. DOMAIN rows \ Settled(rows) \subseteq S /\ S \subseteq DOMAIN rows
    OBVIOUS
  <1> HIDE DEF S
  <1>3. DOMAIN kept = S /\ \A i \in S : kept[i] = rows[i]
    BY <1>2, KeepSubset
  <1> HIDE DEF kept
  <1>4. Pending(rows) \subseteq S
    BY <1>2 DEF Pending, Settled, TerminalStatus
  <1>5. Pending(kept) = Pending(rows)
    BY <1>2, <1>3, <1>4 DEF Pending
  <1> QED
    BY <1>1, <1>2, <1>3, <1>5

\* An enqueue that no row claims: its row waits, no other row waits for its
\* job, and every other live row is what it was.
LEMMA EnqueueAppends ==
    ASSUME NEW rows, NEW n \in Nat \ {0}, NEW u \in Intent, Coherent(rows, n),
           Claiming(rows, u) = {}
    PROVE  /\ Pending(Enqueue(rows, n, u)) =
                 {i \in Pending(rows) : rows[i].job # u.job} \cup {n}
           /\ Enqueue(rows, n, u)[n].job = u.job
           /\ Enqueue(rows, n, u)[n].ref = u.ref
           /\ Enqueue(rows, n, u)[n].body = u.body
           /\ \A i \in Pending(rows) : rows[i].job # u.job =>
                 Enqueue(rows, n, u)[i] = rows[i]
           /\ \A i \in InProgress(rows) : Enqueue(rows, n, u)[i] = rows[i]
           /\ \A i \in InProgress(rows) : ~ (rows[i].job = u.job /\ rows[i].ref = u.ref)
  <1> DEFINE marked == Supersede(rows, u)
             left == DropRetried(marked, u)
             added == AppendRow(left, n, u)
             gone == First(SameUpdateID(marked, u) \cap Settled(marked))
             rest == DOMAIN marked \ gone
  <1>1. Enqueue(rows, n, u) = Prune(added)
    BY DEF Enqueue
  <1>2. SameUpdateID(rows, u) \subseteq Settled(rows)
    BY SameIDClaims
  <1>3. /\ DOMAIN marked = DOMAIN rows
        /\ \A i \in DOMAIN rows :
              ~ (rows[i].job = u.job /\ rows[i].status = "PENDING") => marked[i] = rows[i]
        /\ Pending(marked) = {i \in Pending(rows) : rows[i].job # u.job}
    <2>1. /\ DOMAIN marked = DOMAIN rows
          /\ \A i \in DOMAIN rows :
                marked[i] = IF rows[i].job = u.job /\ rows[i].status = "PENDING"
                            THEN [rows[i] EXCEPT !.status = "SUPERSEDED"] ELSE rows[i]
      BY DEF Supersede, Pending
    <2>2. \A i \in DOMAIN rows : rows[i] \in Row
      BY DEF Coherent, Stamped
    <2>3. \A i \in DOMAIN rows :
             rows[i].job = u.job /\ rows[i].status = "PENDING"
                => marked[i].status = "SUPERSEDED"
      BY <2>1, <2>2 DEF Row
    <2> HIDE DEF marked
    <2> QED
      BY <2>1, <2>3 DEF Pending
  <1> HIDE DEF marked
  <1>4. /\ DOMAIN left = rest
        /\ \A i \in rest : left[i] = marked[i]
    <2>1. left = Keep(marked, rest)
      BY DEF DropRetried
    <2> HIDE DEF gone, left
    <2> QED
      BY <2>1, KeepSubset
  <1>5. gone \subseteq Settled(marked) /\ DOMAIN left \subseteq DOMAIN rows
    BY <1>3, <1>4 DEF First
  <1> HIDE DEF gone, left
  <1>6. n \notin DOMAIN rows
    BY DEF Coherent, Stamped
  <1>7. /\ DOMAIN added = DOMAIN left \cup {n}
        /\ \A i \in DOMAIN left : added[i] = left[i]
        /\ added[n] = [job |-> u.job, ref |-> u.ref, op |-> u.op, body |-> u.body,
                       status |-> "PENDING"]
    BY <1>5, <1>6 DEF AppendRow
  <1> HIDE DEF added
  <1>8. Pending(added) = Pending(marked) \cup {n}
    <2>1. Pending(marked) \subseteq DOMAIN left
      BY <1>4, <1>5 DEF Pending, Settled, TerminalStatus
    <2> QED
      BY <1>3, <1>4, <1>7, <2>1 DEF Pending
  <1>9. \A i \in InProgress(rows) \cup Pending(marked) :
           i \in DOMAIN added \ Settled(added) /\ added[i] = rows[i]
    <2>1. \A i \in InProgress(rows) \cup Pending(marked) :
             /\ i \in DOMAIN rows
             /\ marked[i] = rows[i]
             /\ marked[i].status \in {"PENDING", "IN_PROGRESS"}
      BY <1>3 DEF InProgress, Pending
    <2>2. \A i \in InProgress(rows) \cup Pending(marked) : i \in DOMAIN left
      BY <1>3, <1>4, <1>5, <2>1 DEF Settled, TerminalStatus
    <2> QED
      BY <1>4, <1>7, <2>1, <2>2 DEF Settled, TerminalStatus
  <1>10. n \in DOMAIN added \ Settled(added)
    BY <1>7 DEF Settled, TerminalStatus
  <1>11. \A i \in InProgress(rows) : ~ (rows[i].job = u.job /\ rows[i].ref = u.ref)
    BY <1>2 DEF InProgress, Settled, SameUpdateID, TerminalStatus
  <1> QED
    BY <1>1, <1>3, <1>7, <1>8, <1>9, <1>10, <1>11, PruneKeepsLive

\* An enqueue that a row claims: a waiting row takes the new body and keeps
\* waiting; a row in flight is left strictly untouched.
LEMMA EnqueueRefreshes ==
    ASSUME NEW rows, NEW n \in Nat \ {0}, NEW u \in Intent, Coherent(rows, n),
           NEW c \in Claiming(rows, u)
    PROVE  /\ c \in DOMAIN rows /\ rows[c].job = u.job /\ rows[c].ref = u.ref
           /\ c \notin Settled(rows)
           /\ Pending(Enqueue(rows, n, u)) = Pending(rows)
           /\ c \in Pending(rows) =>
                 /\ Enqueue(rows, n, u)[c].job = u.job
                 /\ Enqueue(rows, n, u)[c].ref = u.ref
                 /\ Enqueue(rows, n, u)[c].body = u.body
           /\ \A i \in DOMAIN rows : i # c \/ c \notin Pending(rows) =>
                 Enqueue(rows, n, u)[i] = rows[i]
  <1> DEFINE new == Refresh(rows, u)
  <1>1. Enqueue(rows, n, u) = new
    BY DEF Enqueue
  <1>2. c \in SameUpdateID(rows, u) /\ c \notin Settled(rows)
    BY DEF Claiming, First
  <1>3. SameUpdateID(rows, u) = {c}
    BY <1>2 DEF SameUpdateID, Coherent, UniqueIDs
  <1>4. Claiming(rows, u) = {c}
    BY <1>3 DEF Claiming, First
  <1>5. /\ c \in DOMAIN rows /\ rows[c].job = u.job /\ rows[c].ref = u.ref
    BY <1>2 DEF SameUpdateID
  <1>6. /\ DOMAIN new = DOMAIN rows
        /\ \A i \in DOMAIN rows :
              new[i] = IF i = c /\ c \in Pending(rows)
                       THEN [rows[i] EXCEPT !.body = u.body] ELSE rows[i]
    BY <1>4 DEF Refresh
  <1>7. rows[c] \in Row
    BY <1>5 DEF Coherent, Stamped
  <1>8. c \in Pending(rows) =>
           /\ new[c].job = rows[c].job
           /\ new[c].ref = rows[c].ref
           /\ new[c].status = rows[c].status
           /\ new[c].body = u.body
    BY <1>5, <1>6, <1>7 DEF Row
  <1> HIDE DEF new
  <1>9. Pending(new) = Pending(rows)
    BY <1>6, <1>8 DEF Pending
  <1> QED
    BY <1>1, <1>2, <1>5, <1>6, <1>8, <1>9

\* The queue starts empty, as the abstract one does.
LEMMA InitRefines == Init => Intents!Init
  <1> SUFFICES ASSUME Init
               PROVE  Intents!Init
    OBVIOUS
  <1>1. Pending(updates) = {}
    BY DEF Init, Pending
  <1>2. \A j \in Jobs : WaitingFor(j) = NoIntent
    BY <1>1 DEF WaitingFor
  <1>3. Applying = NoIntent
    BY DEF Init, Applying
  <1> QED
    BY <1>2, <1>3 DEF Intents!Init

\* The row the applier holds is never mistaken for none.
LEMMA ApplyingIsSome ==
    ASSUME IInv, inflight # 0
    PROVE  /\ inflight \in DOMAIN updates
           /\ updates[inflight].status = "IN_PROGRESS"
           /\ Applying = [job |-> updates[inflight].job, ref |-> updates[inflight].ref,
                          body |-> updates[inflight].body]
           /\ Applying # NoIntent
  <1>1. inflight \in DOMAIN updates /\ updates[inflight].status = "IN_PROGRESS"
    BY DEF IInv, InFlightRowStays, InProgress
  <1>2. updates[inflight] \in Row
    BY <1>1 DEF IInv, Coherent, Stamped
  <1>3. Applying = [job |-> updates[inflight].job, ref |-> updates[inflight].ref,
                    body |-> updates[inflight].body]
    BY DEF Applying
  <1>4. Applying \in [job : Jobs, ref : Refs, body : Bodies]
    BY <1>2, <1>3 DEF Row
  <1> QED
    BY <1>1, <1>3, <1>4, NoIntentAssumption

\* An enqueue declares its intent, or does nothing when the applier is on it.
LEMMA EnqueueRefines ==
    ASSUME IInv, IInv', NEW u \in Intent, EnqueueUpdate(u)
    PROVE  [Intents!Next]_(Intents!vars)
  <1> DEFINE view == [j \in Jobs |-> WaitingFor(j)]
             next == Enqueue(updates, stamp, u)
  <1>0. /\ stamp \in Nat \ {0} /\ Coherent(updates, stamp)
        /\ updates' = next /\ inflight' = inflight
        /\ u.job \in Jobs /\ u.ref \in Refs /\ u.body \in Bodies
    BY DEF IInv, EnqueueUpdate, Intent
  <1>1. view = [j \in Jobs |-> Latest(updates, j)] /\ view' = [j \in Jobs |-> Latest(next, j)]
    BY <1>0 DEF WaitingFor, Latest
  <1>2. UniquePending(updates) /\ UniquePending(next)
    BY <1>0 DEF IInv, Coherent
  <1>3. inflight # 0 => inflight \in InProgress(updates) /\ inflight \notin Pending(updates)
    BY ApplyingIsSome DEF InProgress, Pending
  <1> HIDE DEF next, view
  <1>4. ASSUME inflight # 0 => next[inflight] = updates[inflight]
        PROVE  Applying' = Applying
    BY <1>0, <1>4 DEF Applying
  <1>5. ASSUME NEW i \in Pending(next),
               next[i].job = u.job, next[i].ref = u.ref, next[i].body = u.body,
               inflight # 0 =>
                  ~ (updates[inflight].job = u.job /\ updates[inflight].ref = u.ref),
               \A k \in Pending(updates) : updates[k].job # u.job =>
                  k \in Pending(next) /\ next[k] = updates[k],
               \A k \in Pending(next) : next[k].job # u.job =>
                  k \in Pending(updates) /\ next[k] = updates[k],
               Applying' = Applying
        PROVE  Intents!Declare(u.job, u.ref, u.body)
    <2>1. Latest(next, u.job) = [ref |-> u.ref, body |-> u.body]
      BY <1>2, <1>5, LatestIsRow
    <2>2. \A j \in Jobs \ {u.job} : Latest(next, j) = Latest(updates, j)
      BY <1>2, <1>5, LatestSame
    <2>3. view' = [view EXCEPT ![u.job] = [ref |-> u.ref, body |-> u.body]]
      BY <1>0, <1>1, <2>1, <2>2
    <2>4. ~ Intents!BeingApplied(u.job, u.ref)
      <3>1. CASE inflight = 0
        BY <3>1 DEF Applying, Intents!BeingApplied
      <3>2. CASE inflight # 0
        <4>1. Applying.job = updates[inflight].job /\ Applying.ref = updates[inflight].ref
          BY <3>2, ApplyingIsSome
        <4> QED
          BY <1>5, <3>2, <4>1 DEF Intents!BeingApplied
      <3> QED
        BY <3>1, <3>2
    <2> QED
      BY <1>5, <2>3, <2>4 DEF Intents!Declare, view
  <1>6. ASSUME Intents!Declare(u.job, u.ref, u.body)
        PROVE  Intents!Next
    BY <1>0, <1>6 DEF Intents!Next
  <1>7. CASE Claiming(updates, u) = {}
    <2> DEFINE others == {i \in Pending(updates) : updates[i].job # u.job}
    <2>1. /\ Pending(next) = others \cup {stamp}
          /\ next[stamp].job = u.job
          /\ next[stamp].ref = u.ref
          /\ next[stamp].body = u.body
          /\ \A i \in others : next[i] = updates[i]
          /\ \A i \in InProgress(updates) :
                /\ next[i] = updates[i]
                /\ ~ (updates[i].job = u.job /\ updates[i].ref = u.ref)
      BY <1>0, <1>7, EnqueueAppends DEF next
    <2>2. Applying' = Applying
      BY <1>3, <1>4, <2>1
    <2>3. \A k \in Pending(next) : next[k].job # u.job =>
             k \in Pending(updates) /\ next[k] = updates[k]
      BY <2>1
    <2>4. \A k \in Pending(updates) : updates[k].job # u.job =>
             k \in Pending(next) /\ next[k] = updates[k]
      BY <2>1
    <2>5. stamp \in Pending(next)
      BY <2>1
    <2>6. inflight # 0 =>
             ~ (updates[inflight].job = u.job /\ updates[inflight].ref = u.ref)
      BY <1>3, <2>1
    <2> QED
      BY <1>5, <1>6, <2>1, <2>2, <2>3, <2>4, <2>5, <2>6
  <1>8. CASE Claiming(updates, u) # {}
    <2>1. PICK c \in Claiming(updates, u) : TRUE
      BY <1>8
    <2>2. /\ c \in DOMAIN updates /\ updates[c].job = u.job /\ updates[c].ref = u.ref
          /\ c \notin Settled(updates)
          /\ Pending(next) = Pending(updates)
          /\ c \in Pending(updates) =>
                /\ next[c].job = u.job
                /\ next[c].ref = u.ref
                /\ next[c].body = u.body
          /\ \A i \in DOMAIN updates : i # c \/ c \notin Pending(updates) =>
                next[i] = updates[i]
      BY <1>0, <2>1, EnqueueRefreshes DEF next
    <2>3. inflight # 0 => next[inflight] = updates[inflight]
      BY <1>3, <2>2 DEF InProgress
    <2>4. Applying' = Applying
      BY <1>4, <2>3
    <2>5. Pending(updates) \subseteq DOMAIN updates
      BY DEF Pending
    <2>6. CASE c \in Pending(updates)
      <3>1. \A k \in Pending(updates) : k # c => updates[k].job # u.job
        BY <1>2, <2>2, <2>6 DEF UniquePending
      <3>2. inflight # 0 =>
               ~ (updates[inflight].job = u.job /\ updates[inflight].ref = u.ref)
        <4>1. inflight # 0 => inflight # c /\ inflight \in DOMAIN updates
          BY <1>3, <2>6 DEF InProgress
        <4> QED
          BY <1>0, <2>2, <4>1 DEF Coherent, UniqueIDs
      <3>3. \A k \in Pending(updates) : updates[k].job # u.job =>
               k \in Pending(next) /\ next[k] = updates[k]
        BY <2>2, <2>5
      <3>4. \A k \in Pending(next) : next[k].job # u.job =>
               k \in Pending(updates) /\ next[k] = updates[k]
        BY <2>2, <2>5, <2>6
      <3>5. c \in Pending(next)
        BY <2>2, <2>6
      <3> QED
        BY <1>5, <1>6, <2>2, <2>4, <2>6, <3>2, <3>3, <3>4, <3>5
    <2>7. CASE c \notin Pending(updates)
      <3>1. \A i \in Pending(updates) : i \in Pending(next) /\ next[i] = updates[i]
        BY <2>2, <2>5, <2>7
      <3>2. \A i \in Pending(next) : i \in Pending(updates) /\ next[i] = updates[i]
        BY <2>2, <3>1
      <3>3. \A j \in Jobs : Latest(next, j) = Latest(updates, j)
        BY <1>2, <3>1, <3>2, LatestSame
      <3>4. view' = view
        BY <1>1, <3>3
      <3> QED
        BY <2>4, <3>4 DEF Intents!vars, view
    <2> QED
      BY <2>6, <2>7
  <1> QED
    BY <1>7, <1>8

\* The applier starts what waits for the job of the oldest waiting row.
LEMMA NextPendingRefines ==
    ASSUME IInv, IInv', NextPending
    PROVE  Intents!Next
  <1> DEFINE view == [j \in Jobs |-> WaitingFor(j)]
  <1>1. PICK i \in First(Pending(updates)) :
           updates' = MarkInProgress(updates, i) /\ inflight' = i
    BY DEF NextPending
  <1> DEFINE next == MarkInProgress(updates, i)
  <1>2. i \in Pending(updates) /\ i \in DOMAIN updates /\ updates[i].status = "PENDING"
    BY DEF First, Pending
  <1>3. stamp \in Nat /\ Coherent(updates, stamp) /\ i # 0 /\ inflight = 0
    BY <1>2 DEF IInv, Coherent, Stamped, NextPending
  <1>4. updates[i] \in Row
    BY <1>2, <1>3 DEF Coherent, Stamped
  <1>5. /\ DOMAIN next = DOMAIN updates
        /\ \A k \in DOMAIN updates : k # i => next[k] = updates[k]
        /\ next[i].job = updates[i].job
        /\ next[i].ref = updates[i].ref
        /\ next[i].body = updates[i].body
        /\ next[i].status = "IN_PROGRESS"
    BY <1>2, <1>4 DEF MarkInProgress, Row
  <1>6. view = [j \in Jobs |-> Latest(updates, j)] /\ view' = [j \in Jobs |-> Latest(next, j)]
    BY <1>1 DEF WaitingFor, Latest
  <1>7. UniquePending(updates) /\ UniquePending(next)
    BY <1>1 DEF IInv, Coherent
  <1> HIDE DEF next, view
  <1>8. Pending(next) = Pending(updates) \ {i}
    BY <1>2, <1>5 DEF Pending
  <1>9. \A k \in Pending(next) : next[k] = updates[k] /\ next[k].job # updates[i].job
    BY <1>2, <1>5, <1>7, <1>8 DEF Pending, UniquePending
  <1>10. Latest(updates, updates[i].job) = [ref |-> updates[i].ref, body |-> updates[i].body]
    BY <1>2, <1>7, LatestIsRow
  <1>11. Latest(next, updates[i].job) = NoIntent
    BY <1>9, LatestIsNone
  <1>12. \A j \in Jobs \ {updates[i].job} : Latest(next, j) = Latest(updates, j)
    <2>1. \A k \in Pending(updates) : k # i => k \in Pending(next) /\ next[k] = updates[k]
      BY <1>8, <1>9
    <2>2. \A k \in Pending(next) : k \in Pending(updates) /\ next[k] = updates[k]
      BY <1>8, <1>9
    <2> QED
      BY <1>7, <2>1, <2>2, LatestSame
  <1>13. updates[i].job \in Jobs
    BY <1>4 DEF Row
  <1>14. view' = [view EXCEPT ![updates[i].job] = NoIntent]
    BY <1>6, <1>11, <1>12, <1>13
  <1>15. view[updates[i].job] = [ref |-> updates[i].ref, body |-> updates[i].body]
    BY <1>6, <1>10, <1>13
  <1>16. view[updates[i].job] # NoIntent
    BY <1>2, <1>3, <1>6, <1>13, LatestIsSome
  <1>17. Applying = NoIntent
    BY <1>3 DEF Applying
  <1>18. Applying' = [job |-> updates[i].job, ref |-> updates[i].ref,
                      body |-> updates[i].body]
    <2>1. updates' = next /\ inflight' = i
      BY <1>1 DEF next
    <2> QED
      BY <1>3, <1>5, <2>1 DEF Applying
  <1>19. /\ view[updates[i].job].ref = updates[i].ref
         /\ view[updates[i].job].body = updates[i].body
    BY <1>15
  <1>20. Applying' = [job |-> updates[i].job, ref |-> view[updates[i].job].ref,
                      body |-> view[updates[i].job].body]
    BY <1>18, <1>19
  <1>21. Intents!Start(updates[i].job)
    BY <1>14, <1>16, <1>17, <1>20 DEF Intents!Start, view
  <1> QED
    BY <1>13, <1>21 DEF Intents!Next

\* Recording an outcome finishes what was being applied and touches nothing
\* that waits.
LEMMA CompleteRefines ==
    ASSUME IInv, IInv', NEW outcome \in TerminalStatus, CompleteUpdate(outcome)
    PROVE  Intents!Next
  <1> DEFINE view == [j \in Jobs |-> WaitingFor(j)]
             next == Complete(updates, updates[inflight], outcome)
             done == First(SameUpdateID(updates, updates[inflight]) \cap InProgress(updates))
             marked == [k \in DOMAIN updates |->
                          IF k \in done THEN [updates[k] EXCEPT !.status = outcome]
                          ELSE updates[k]]
  <1>1. inflight # 0 /\ inflight' = 0 /\ updates' = next
    BY DEF CompleteUpdate
  <1>2. /\ inflight \in DOMAIN updates
        /\ InProgress(updates) = {inflight}
        /\ updates[inflight].status = "IN_PROGRESS"
        /\ Applying # NoIntent
    BY <1>1, ApplyingIsSome DEF IInv, InFlightRowStays
  <1>3. done = {inflight}
    BY <1>2 DEF First, SameUpdateID, IInv, Coherent, Stamped
  <1>4. next = Prune(marked)
    BY <1>3 DEF Complete
  <1>5. updates[inflight] \in Row
    BY <1>2 DEF IInv, Coherent, Stamped
  <1>6. /\ DOMAIN marked = DOMAIN updates
        /\ marked[inflight].status = outcome
        /\ \A k \in DOMAIN updates : k # inflight => marked[k] = updates[k]
    BY <1>2, <1>3, <1>5 DEF Row
  <1> HIDE DEF marked, done
  <1>7. Pending(marked) = Pending(updates)
    BY <1>2, <1>6 DEF Pending, TerminalStatus
  <1>8. /\ Pending(next) = Pending(updates)
        /\ \A i \in Pending(updates) : next[i] = updates[i]
    <2>1. \A i \in Pending(updates) :
             i \in DOMAIN marked \ Settled(marked) /\ marked[i] = updates[i]
      BY <1>2, <1>6 DEF Pending, Settled, TerminalStatus
    <2> QED
      BY <1>4, <1>7, <2>1, PruneKeepsLive
  <1>9. view = [j \in Jobs |-> Latest(updates, j)] /\ view' = [j \in Jobs |-> Latest(next, j)]
    BY <1>1 DEF WaitingFor, Latest
  <1>10. UniquePending(updates) /\ UniquePending(next)
    BY <1>1 DEF IInv, Coherent
  <1> HIDE DEF next, view
  <1>11. \A j \in Jobs : Latest(next, j) = Latest(updates, j)
    BY <1>8, <1>10, LatestSame
  <1>12. view' = view
    BY <1>9, <1>11
  <1>13. Applying' = NoIntent
    BY <1>1 DEF Applying
  <1> QED
    BY <1>2, <1>12, <1>13 DEF Intents!Next, Intents!Finish, view

\* Every step of the queue is a step of the abstract one, or a stutter.
LEMMA NextRefines == IInv /\ IInv' /\ [Next]_vars => [Intents!Next]_(Intents!vars)
  <1> SUFFICES ASSUME IInv, IInv', [Next]_vars
               PROVE  [Intents!Next]_(Intents!vars)
    OBVIOUS
  <1>1. ASSUME NEW u \in Intent, EnqueueUpdate(u)
        PROVE  [Intents!Next]_(Intents!vars)
    BY <1>1, EnqueueRefines
  <1>2. CASE NextPending
    BY <1>2, NextPendingRefines
  <1>3. ASSUME NEW outcome \in {"SUCCEEDED", "FAILED", "HELD"}, CompleteUpdate(outcome)
        PROVE  [Intents!Next]_(Intents!vars)
    <2>1. outcome \in TerminalStatus
      BY DEF TerminalStatus
    <2> QED
      BY <1>3, <2>1, CompleteRefines
  <1>4. CASE UNCHANGED vars
    BY <1>4 DEF vars, Intents!vars, WaitingFor, Applying, Pending
  <1> QED
    BY <1>1, <1>2, <1>3, <1>4 DEF Next

\* The row table implements the abstract queue: per job one waiting intent,
\* the latest declared, and one intent in flight that nothing changes.
THEOREM QueueRefinesIntents == Spec => ImplementsIntents
  BY InitRefines, NextRefines, InvariantIInv, PTL DEF Spec, Intents!Spec, ImplementsIntents
===============================================================================
