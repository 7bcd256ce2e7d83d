---------------------------- MODULE RollbackProofs ----------------------------
(***************************************************************************)
(* Rollback's type invariant and its two action properties, for every set  *)
(* of specs, every setting of auto_revert and of the guard, and any number *)
(* of commits, edits, failures and collected versions.                     *)
(*                                                                         *)
(* A Check's answers are old when they are used: the plan and the guard's  *)
(* when the register is sent, the last stable version's when the revert    *)
(* is.  What makes them good enough is in CheckOK and RowOK, of whatever   *)
(* a Check, a row of the queue and so the applier carry:                   *)
(*   Differs, Clear   as long as the job has the index Info read, the plan *)
(*                    and the guard would answer the same: a version that  *)
(*                    fails meanwhile is the current one, which differs    *)
(*                    from what is wanted (a write takes another index);   *)
(*                    of a spec that Nomad fills in the guard knows nothing;*)
(*   StillFailed      as long as the job is at the version found failed, no *)
(*                    other has been registered and it has not recovered;  *)
(*   StillStable      a version chosen as stable never becomes anything    *)
(*                    else, though it may be collected.                    *)
(* Moves says what every step leaves of Nomad's history for these to hold  *)
(* on; RepoLater, what a commit leaves of the branch.                      *)
(***************************************************************************)
EXTENDS Rollback, FiniteSetTheorems, WellFoundedInduction, TLAPS

-----------------------------------------------------------------------------
(* The queue's table: what an operation leaves of its rows.                *)

IsRow(r) ==
    r = [job |-> r.job, ref |-> r.ref, op |-> r.op, body |-> r.body, status |-> r.status]

Table(rows) ==
    /\ DOMAIN rows \subseteq Nat /\ IsFiniteSet(DOMAIN rows)
    /\ \A i \in DOMAIN rows : IsRow(rows[i])

Numbered(rows) == Table(rows) /\ DOMAIN rows = 1 .. Cardinality(DOMAIN rows)

\* Two rows with one intent, whatever became of it.
Carries(r, s) == r.job = s.job /\ r.ref = s.ref /\ r.op = s.op /\ r.body = s.body

\* An operation that moves no row: what is left carries the intent it had, and
\* the rows in flight are what they were.
Kept(new, rows) ==
    /\ Table(new)
    /\ DOMAIN new \subseteq DOMAIN rows
    /\ \A i \in DOMAIN new : Carries(new[i], rows[i])
    /\ InProgress(new) = InProgress(rows)
    /\ \A i \in InProgress(rows) : new[i] = rows[i]

\* No row in flight, or one and the same.
SameInFlight(new, rows) ==
    /\ InProgress(rows) = {} => InProgress(new) = {}
    /\ \A k : InProgress(rows) = {k} => \E i : InProgress(new) = {i} /\ new[i] = rows[k]

\* The place of a stamp among the stamps is one to one.
LEMMA RankUnique ==
    ASSUME NEW D, D \subseteq Nat, IsFiniteSet(D), NEW m \in D, NEW n \in D,
           Cardinality({k \in D : k <= m}) = Cardinality({k \in D : k <= n})
    PROVE  m = n
  <1> DEFINE upto(i) == {k \in D : k <= i}
  <1>1. ASSUME NEW a \in D, NEW b \in D, a < b, Cardinality(upto(a)) = Cardinality(upto(b))
        PROVE  FALSE
    <2>1. upto(a) \in SUBSET upto(b) /\ b \in upto(b) /\ b \notin upto(a)
      <3>1. a \in Nat /\ b \in Nat
        OBVIOUS
      <3>2. \A k \in D : k <= a => k <= b
        BY <1>1, <3>1
      <3>3. upto(a) \in SUBSET upto(b)
        BY <3>2
      <3>4. b \in upto(b) /\ b \notin upto(a)
        BY <1>1, <3>1
      <3> QED
        BY <3>3, <3>4
    <2>2. IsFiniteSet(upto(b))
      BY FS_Subset
    <2>3. upto(a) = upto(b)
      BY <1>1, <2>1, <2>2, FS_Subset
    <2> QED
      BY <2>1, <2>3
  <1>2. m \in Nat /\ n \in Nat
    OBVIOUS
  <1>3. ~ (m < n)
    BY <1>1
  <1>4. ~ (n < m)
    BY <1>1
  <1> QED
    BY <1>2, <1>3, <1>4

\* Every place up to the number of stamps is some stamp's.
LEMMA RankReached ==
    ASSUME NEW D, D \subseteq Nat, IsFiniteSet(D)
    PROVE  /\ Cardinality(D) \in Nat
           /\ \A n \in D : Cardinality({k \in D : k <= n}) \in 1 .. Cardinality(D)
           /\ \A i \in 1 .. Cardinality(D) : \E n \in D : Cardinality({k \in D : k <= n}) = i
  <1> DEFINE upto(n) == {k \in D : k <= n}
             rank == [n \in D |-> Cardinality(upto(n))]
  <1>1. Cardinality(D) \in Nat
    BY FS_CardinalityType
  <1>2. \A n \in D : Cardinality(upto(n)) \in 1 .. Cardinality(D)
    <2> SUFFICES ASSUME NEW n \in D
                 PROVE  Cardinality(upto(n)) \in 1 .. Cardinality(D)
      OBVIOUS
    <2>1. IsFiniteSet(upto(n)) /\ Cardinality(upto(n)) <= Cardinality(D)
      BY FS_Subset
    <2>2. Cardinality(upto(n)) \in Nat /\ Cardinality(upto(n)) # 0
      BY <2>1, FS_CardinalityType, FS_EmptySet
    <2> HIDE DEF upto
    <2> QED
      BY <1>1, <2>1, <2>2
  <1>3. \A m, n \in D : rank[m] = rank[n] => m = n
    BY RankUnique
  <1>4. rank \in [D -> 1 .. Cardinality(D)]
    BY <1>2
  <1>5. ASSUME NEW i \in 1 .. Cardinality(D), \A n \in D : rank[n] # i
        PROVE  FALSE
    <2> DEFINE T == (1 .. Cardinality(D)) \ {i}
    <2> HIDE DEF rank
    <2>1. IsFiniteSet(1 .. Cardinality(D)) /\ Cardinality(1 .. Cardinality(D)) = Cardinality(D)
      BY <1>1, FS_Interval
    <2>2. IsFiniteSet(T) /\ Cardinality(T) = Cardinality(D) - 1
      BY <2>1, FS_RemoveElement
    <2>3. Cardinality(T) < Cardinality(D)
      BY <1>1, <2>2
    <2>4. rank \in [D -> T]
      BY <1>4, <1>5
    <2> HIDE DEF T
    <2>5. \E x, y \in D : x # y /\ rank[x] = rank[y]
      BY <2>2, <2>3, <2>4, FS_PigeonHole
    <2> QED
      BY <1>3, <2>5
  <1>6. \A i \in 1 .. Cardinality(D) : \E n \in D : rank[n] = i
    BY <1>5
  <1> QED
    BY <1>1, <1>2, <1>6

\* Renumbering gives every row another stamp and changes none.
LEMMA RenumberedRows ==
    ASSUME NEW rows, Table(rows)
    PROVE  /\ Numbered(Renumbered(rows))
           /\ \A i \in DOMAIN Renumbered(rows) :
                 \E k \in DOMAIN rows : Renumbered(rows)[i] = rows[k]
           /\ SameInFlight(Renumbered(rows), rows)
  <1> DEFINE D == DOMAIN rows
             rank(n) == Cardinality({m \in D : m <= n})
             at(i) == CHOOSE n \in D : rank(n) = i
             new == Renumbered(rows)
             size == Cardinality(D)
  <1>1. D \subseteq Nat /\ IsFiniteSet(D)
    BY DEF Table
  <1>2. size \in Nat /\ \A n \in D : rank(n) \in 1 .. size
    BY <1>1, RankReached
  <1>3. \A i \in 1 .. size : at(i) \in D /\ rank(at(i)) = i
    <2>1. \A i \in 1 .. size : \E n \in D : rank(n) = i
      BY <1>1, RankReached
    <2> HIDE DEF rank
    <2> QED
      BY <2>1
  <1>4. \A n \in D : at(rank(n)) = n
    <2> SUFFICES ASSUME NEW n \in D
                 PROVE  at(rank(n)) = n
      OBVIOUS
    <2>1. at(rank(n)) \in D /\ rank(at(rank(n))) = rank(n)
      BY <1>2, <1>3
    <2> HIDE DEF at
    <2> QED
      BY <1>1, <2>1, RankUnique
  <1>5. DOMAIN new = 1 .. size /\ \A i \in 1 .. size : new[i] = rows[at(i)]
    BY DEF Renumbered
  <1> HIDE DEF rank, at, new, size
  <1>6. Numbered(new)
    <2>1. IsFiniteSet(1 .. size) /\ Cardinality(1 .. size) = size
      BY <1>2, FS_Interval
    <2>2. \A i \in 1 .. size : IsRow(new[i])
      BY <1>3, <1>5 DEF Table
    <2> QED
      BY <1>2, <1>5, <2>1, <2>2 DEF Numbered, Table
  <1>7. \A i \in DOMAIN new : \E k \in D : new[i] = rows[k]
    BY <1>3, <1>5
  <1>8. InProgress(rows) = {} => InProgress(new) = {}
    BY <1>3, <1>5 DEF InProgress
  <1>9. ASSUME NEW k, InProgress(rows) = {k}
        PROVE  \E i : InProgress(new) = {i} /\ new[i] = rows[k]
    <2>1. k \in D /\ rows[k].status = "IN_PROGRESS"
      BY <1>9 DEF InProgress
    <2>2. rank(k) \in 1 .. size /\ at(rank(k)) = k
      BY <1>2, <1>4, <2>1
    <2>3. new[rank(k)] = rows[k]
      BY <1>5, <2>2
    <2>4. \A i \in InProgress(new) : i = rank(k)
      BY <1>3, <1>5, <1>9 DEF InProgress
    <2>5. rank(k) \in InProgress(new)
      BY <1>5, <2>1, <2>2, <2>3 DEF InProgress
    <2> QED
      BY <2>3, <2>4, <2>5
  <1> QED
    BY <1>6, <1>7, <1>8, <1>9 DEF SameInFlight, new, D

\* Deleting terminal rows.
LEMMA KeepKept ==
    ASSUME NEW rows, NEW S, Table(rows), InProgress(rows) \subseteq S
    PROVE  Kept(Keep(rows, S), rows)
  <1> DEFINE new == Keep(rows, S)
  <1>1. DOMAIN new = DOMAIN rows \cap S /\ \A i \in DOMAIN new : new[i] = rows[i]
    BY DEF Keep
  <1> HIDE DEF new
  <1>2. IsFiniteSet(DOMAIN new)
    BY <1>1, FS_Intersection DEF Table
  <1>3. InProgress(new) = InProgress(rows)
    BY <1>1 DEF InProgress
  <1>4. \A i \in InProgress(rows) : new[i] = rows[i]
    BY <1>1, <1>3 DEF InProgress
  <1> QED
    BY <1>1, <1>2, <1>3, <1>4 DEF Kept, Table, Carries, new

\* prune takes no row in flight.
LEMMA PruneKept == ASSUME NEW rows, Table(rows) PROVE Kept(Prune(rows), rows)
  <1> DEFINE S == {i \in DOMAIN rows : i \in Settled(rows) =>
                     Cardinality({k \in Settled(rows) : k >= i}) <= MaxTerminalUpdates}
  <1>1. InProgress(rows) \subseteq S
    BY DEF InProgress, Settled, TerminalStatus
  <1>2. Prune(rows) = Keep(rows, S)
    BY DEF Prune
  <1> HIDE DEF S
  <1> QED
    BY <1>1, <1>2, KeepKept

\* Changing the status of rows that are not in flight, to another that is not.
LEMMA StatusKept ==
    ASSUME NEW rows, NEW new, NEW S, NEW status, Table(rows), S \cap InProgress(rows) = {},
           status # "IN_PROGRESS",
           new = [i \in DOMAIN rows |->
                     IF i \in S THEN [rows[i] EXCEPT !.status = status] ELSE rows[i]]
    PROVE  Kept(new, rows)
  <1>1. /\ DOMAIN new = DOMAIN rows
        /\ \A i \in DOMAIN rows :
              new[i] = IF i \in S THEN [rows[i] EXCEPT !.status = status] ELSE rows[i]
    OBVIOUS
  <1>2. \A i \in DOMAIN rows : IsRow(rows[i])
    BY DEF Table
  <1>3. \A i \in DOMAIN rows :
           /\ IsRow(new[i]) /\ Carries(new[i], rows[i])
           /\ i \in S => new[i].status = status
    BY <1>1, <1>2 DEF IsRow, Carries
  <1>4. InProgress(new) = InProgress(rows) /\ \A i \in InProgress(rows) : new[i] = rows[i]
    BY <1>1, <1>3 DEF InProgress
  <1> QED
    BY <1>1, <1>3, <1>4 DEF Kept, Table

\* Kept is transitive.
LEMMA KeptAgain ==
    ASSUME NEW a, NEW b, NEW c, Kept(b, a), Kept(c, b)
    PROVE  Kept(c, a)
  BY DEF Kept, Carries

\* Enqueue: a row of the new table carries an intent of the old one, the body
\* of the new intent under its UpdateID, or the new intent; and what is in
\* flight stays.
LEMMA EnqueueRows ==
    ASSUME NEW rows, NEW n \in Nat, NEW u, Table(rows), n \notin DOMAIN rows
    PROVE  LET new == Enqueue(rows, n, u)
           IN  /\ Table(new)
               /\ \A i \in DOMAIN new :
                     \/ i \in DOMAIN rows /\ Carries(new[i], rows[i])
                     \/ /\ i \in DOMAIN rows /\ new[i].body = u.body
                        /\ new[i].job = rows[i].job /\ rows[i].job = u.job
                        /\ new[i].ref = rows[i].ref /\ rows[i].ref = u.ref
                        /\ new[i].op = rows[i].op
                     \/ Carries(new[i], u)
               /\ InProgress(new) = InProgress(rows)
               /\ \A i \in InProgress(rows) : new[i] = rows[i]
  <1>1. CASE Claiming(rows, u) # {}
    <2> DEFINE new == Refresh(rows, u)
               S == Claiming(rows, u) \cap Pending(rows)
    <2>1. Enqueue(rows, n, u) = new
      BY <1>1 DEF Enqueue
    <2>2. /\ DOMAIN new = DOMAIN rows
          /\ \A i \in DOMAIN rows :
                new[i] = IF i \in S THEN [rows[i] EXCEPT !.body = u.body] ELSE rows[i]
      BY DEF Refresh
    <2>3. \A i \in S : rows[i].job = u.job /\ rows[i].ref = u.ref /\ rows[i].status = "PENDING"
      BY DEF Claiming, First, SameUpdateID, Pending
    <2>4. \A i \in DOMAIN rows : IsRow(rows[i])
      BY DEF Table
    <2> HIDE DEF new, S
    <2>5. \A i \in DOMAIN rows :
             /\ IsRow(new[i]) /\ new[i].status = rows[i].status
             /\ new[i].job = rows[i].job /\ new[i].ref = rows[i].ref /\ new[i].op = rows[i].op
             /\ new[i].body = IF i \in S THEN u.body ELSE rows[i].body
      BY <2>2, <2>4 DEF IsRow
    <2>6. InProgress(new) = InProgress(rows)
      BY <2>2, <2>5 DEF InProgress
    <2>7. \A i \in InProgress(rows) : new[i] = rows[i]
      BY <2>2, <2>3 DEF InProgress
    <2>8. Table(new)
      BY <2>2, <2>5 DEF Table
    <2>9. \A i \in DOMAIN new :
             \/ Carries(new[i], rows[i])
             \/ rows[i].job = u.job /\ rows[i].ref = u.ref /\ new[i].body = u.body
      BY <2>2, <2>3, <2>5 DEF Carries
    <2> QED
      BY <2>1, <2>2, <2>5, <2>6, <2>7, <2>8, <2>9
  <1>2. CASE Claiming(rows, u) = {}
    <2> DEFINE marked == Supersede(rows, u)
               left == DropRetried(marked, u)
               added == AppendRow(left, n, u)
               new == Prune(added)
    <2>1. Enqueue(rows, n, u) = new
      BY <1>2 DEF Enqueue
    <2>2. Kept(marked, rows)
      <3> DEFINE S == {i \in Pending(rows) : rows[i].job = u.job}
      <3>1. marked = [i \in DOMAIN rows |->
                         IF i \in S THEN [rows[i] EXCEPT !.status = "SUPERSEDED"] ELSE rows[i]]
        BY DEF Supersede
      <3>2. S \cap InProgress(rows) = {}
        BY DEF Pending, InProgress
      <3> HIDE DEF S, marked
      <3> QED
        BY <3>1, <3>2, StatusKept
    <2> HIDE DEF marked
    <2>3. Kept(left, marked)
      <3> DEFINE S == DOMAIN marked \ First(SameUpdateID(marked, u) \cap Settled(marked))
      <3>1. left = Keep(marked, S)
        BY DEF DropRetried
      <3>2. InProgress(marked) \subseteq S
        BY DEF InProgress, First, Settled, TerminalStatus
      <3> HIDE DEF S, left
      <3> QED
        BY <2>2, <3>1, <3>2, KeepKept DEF Kept
    <2> HIDE DEF left
    <2>4. Kept(left, rows)
      BY <2>2, <2>3, KeptAgain
    <2>5. /\ DOMAIN added = DOMAIN left \cup {n}
          /\ added[n] = [job |-> u.job, ref |-> u.ref, op |-> u.op, body |-> u.body,
                         status |-> "PENDING"]
          /\ \A i \in DOMAIN left : i # n /\ added[i] = left[i]
      <3>1. n \notin DOMAIN left
        BY <2>4 DEF Kept
      <3> QED
        BY <3>1 DEF AppendRow
    <2> HIDE DEF added
    <2>6. IsRow(added[n]) /\ Carries(added[n], u) /\ added[n].status = "PENDING"
      BY <2>5 DEF IsRow, Carries
    <2>7. Table(added)
      <3>1. IsFiniteSet(DOMAIN added)
        BY <2>4, <2>5, FS_AddElement DEF Kept, Table
      <3> QED
        BY <2>4, <2>5, <2>6, <3>1 DEF Kept, Table
    <2>8. InProgress(added) = InProgress(left) /\ InProgress(left) \subseteq DOMAIN left
      BY <2>5, <2>6 DEF InProgress
    <2>9. Kept(new, added)
      BY <2>7, PruneKept
    <2> HIDE DEF new
    <2>10. InProgress(new) = InProgress(rows) /\ \A i \in InProgress(rows) : new[i] = rows[i]
      BY <2>4, <2>5, <2>8, <2>9 DEF Kept
    <2>11. \A i \in DOMAIN new :
              \/ i \in DOMAIN rows /\ Carries(new[i], rows[i])
              \/ Carries(new[i], u)
      BY <2>4, <2>5, <2>6, <2>9 DEF Kept, Carries
    <2>12. Table(new)
      BY <2>9 DEF Kept
    <2> QED
      BY <2>1, <2>10, <2>11, <2>12
  <1> QED
    BY <1>1, <1>2

\* The same of Enqueue behind every row there is.
LEMMA AppendedRows ==
    ASSUME NEW rows, NEW u, Numbered(rows)
    PROVE  LET new == Appended(rows, u)
           IN  /\ Numbered(new)
               /\ \A i \in DOMAIN new :
                     \/ \E k \in DOMAIN rows : Carries(new[i], rows[k])
                     \/ /\ new[i].body = u.body
                        /\ \E k \in DOMAIN rows :
                              /\ new[i].job = rows[k].job /\ rows[k].job = u.job
                              /\ new[i].ref = rows[k].ref /\ rows[k].ref = u.ref
                              /\ new[i].op = rows[k].op
                     \/ Carries(new[i], u)
               /\ SameInFlight(new, rows)
  <1> DEFINE n == Cardinality(DOMAIN rows) + 1
             put == Enqueue(rows, n, u)
             new == Renumbered(put)
  <1>1. Appended(rows, u) = new
    BY DEF Appended
  <1>2. n \in Nat /\ n \notin DOMAIN rows /\ Table(rows)
    BY FS_CardinalityType DEF Numbered, Table
  <1>3. /\ Table(put)
        /\ \A i \in DOMAIN put :
              \/ i \in DOMAIN rows /\ Carries(put[i], rows[i])
              \/ /\ i \in DOMAIN rows /\ put[i].body = u.body
                 /\ put[i].job = rows[i].job /\ rows[i].job = u.job
                 /\ put[i].ref = rows[i].ref /\ rows[i].ref = u.ref
                 /\ put[i].op = rows[i].op
              \/ Carries(put[i], u)
        /\ InProgress(put) = InProgress(rows)
        /\ \A i \in InProgress(rows) : put[i] = rows[i]
    <2> HIDE DEF n
    <2> QED
      BY <1>2, EnqueueRows
  <1> HIDE DEF put
  <1>4. /\ Numbered(new)
        /\ \A i \in DOMAIN new : \E k \in DOMAIN put : new[i] = put[k]
        /\ SameInFlight(new, put)
    BY <1>3, RenumberedRows
  <1> HIDE DEF new
  <1>5. SameInFlight(new, rows)
    BY <1>3, <1>4 DEF SameInFlight
  <1>6. ASSUME NEW i \in DOMAIN new
        PROVE  \/ \E k \in DOMAIN rows : Carries(new[i], rows[k])
               \/ /\ new[i].body = u.body
                  /\ \E k \in DOMAIN rows :
                        /\ new[i].job = rows[k].job /\ rows[k].job = u.job
                        /\ new[i].ref = rows[k].ref /\ rows[k].ref = u.ref
                        /\ new[i].op = rows[k].op
               \/ Carries(new[i], u)
    <2>1. PICK k \in DOMAIN put : new[i] = put[k]
      BY <1>4
    <2> QED
      BY <1>3, <2>1
  <1> QED
    BY <1>1, <1>4, <1>5, <1>6

\* Complete settles the row in flight, and no row takes another intent.
LEMMA CompletedRows ==
    ASSUME NEW rows, NEW k, NEW outcome \in TerminalStatus, Table(rows), InProgress(rows) = {k}
    PROVE  LET new == Renumbered(Complete(rows, rows[k], outcome))
           IN  /\ Numbered(new)
               /\ \A i \in DOMAIN new : \E m \in DOMAIN rows : Carries(new[i], rows[m])
               /\ InProgress(new) = {}
  <1> DEFINE done == First(SameUpdateID(rows, rows[k]) \cap InProgress(rows))
             marked == [i \in DOMAIN rows |->
                          IF i \in done THEN [rows[i] EXCEPT !.status = outcome] ELSE rows[i]]
             left == Prune(marked)
             new == Renumbered(left)
  <1>1. k \in DOMAIN rows /\ k \in Nat
    BY DEF InProgress, Table
  <1>2. done = {k}
    BY <1>1 DEF First, SameUpdateID
  <1>3. Complete(rows, rows[k], outcome) = left
    BY <1>2 DEF Complete
  <1>4. \A i \in DOMAIN rows : IsRow(rows[i])
    BY DEF Table
  <1>5. /\ DOMAIN marked = DOMAIN rows
        /\ \A i \in DOMAIN rows :
              /\ IsRow(marked[i]) /\ Carries(marked[i], rows[i])
              /\ marked[i].status = IF i = k THEN outcome ELSE rows[i].status
    BY <1>2, <1>4 DEF IsRow, Carries
  <1> HIDE DEF marked, done
  <1>6. Table(marked) /\ InProgress(marked) = {}
    BY <1>5 DEF Table, InProgress, TerminalStatus
  <1>7. Kept(left, marked)
    BY <1>6, PruneKept
  <1> HIDE DEF left
  <1>8. Table(left) /\ InProgress(left) = {}
    BY <1>6, <1>7 DEF Kept
  <1>9. /\ Numbered(new)
        /\ \A i \in DOMAIN new : \E m \in DOMAIN left : new[i] = left[m]
        /\ InProgress(new) = {}
    BY <1>8, RenumberedRows DEF SameInFlight
  <1> HIDE DEF new
  <1>10. \A i \in DOMAIN new : \E m \in DOMAIN rows : Carries(new[i], rows[m])
    BY <1>5, <1>7, <1>9 DEF Kept, Carries
  <1> QED
    BY <1>3, <1>9, <1>10 DEF new

\* NextPending puts one waiting row in flight.
LEMMA MarkedRows ==
    ASSUME NEW rows, Numbered(rows), InProgress(rows) = {}, NEW i \in Pending(rows)
    PROVE  LET new == MarkInProgress(rows, i)
           IN  /\ Numbered(new)
               /\ DOMAIN new = DOMAIN rows
               /\ \A k \in DOMAIN new : Carries(new[k], rows[k])
               /\ InProgress(new) = {i}
  <1> DEFINE new == MarkInProgress(rows, i)
  <1>1. i \in DOMAIN rows /\ \A k \in DOMAIN rows : IsRow(rows[k])
    BY DEF Pending, Numbered, Table
  <1>2. /\ DOMAIN new = DOMAIN rows
        /\ \A k \in DOMAIN rows :
              /\ IsRow(new[k]) /\ Carries(new[k], rows[k])
              /\ new[k].status = IF k = i THEN "IN_PROGRESS" ELSE rows[k].status
    BY <1>1 DEF MarkInProgress, IsRow, Carries
  <1> HIDE DEF new
  <1>3. InProgress(new) = {i}
    BY <1>1, <1>2 DEF InProgress
  <1>4. Numbered(new)
    BY <1>2 DEF Numbered, Table
  <1> QED
    BY <1>2, <1>3, <1>4 DEF new

-----------------------------------------------------------------------------
(* The invariant.                                                          *)

Dep == {"running", "successful", "failed", "cancelled", "collected"}
Version == [spec : Specs, dep : Dep, tagged : BOOLEAN]
Live == [ver : Nat, idx : Nat, dead : BOOLEAN]
Operation == [kind : {"register", "revert"}, from : Nat, to : Nat]
Body == [token : Nat, spec : Specs] \cup {NoSpec}
CheckState ==
    [pc : {"idle", "info", "plan", "guard", "publish", "enqueue", "poll", "revert"},
     commit : Nat, token : Nat, queue : BOOLEAN, from : Nat]

BoundsOK == limit \in Limits /\ budget \in [Kinds -> Nat]

RepoOK == head \in Nat /\ head >= 1 /\ repo \in [1 .. head -> Specs]

NomadOK ==
    /\ live \in Live
    /\ versions \in [DOMAIN versions -> Version]
    /\ DOMAIN versions \subseteq 0 .. live.ver
    /\ live.ver \in DOMAIN versions
    /\ \A v \in DOMAIN versions :
          /\ versions[v].dep = "running" => v = live.ver
          /\ versions[v].tagged => versions[v].dep \in {"failed", "collected"}

\* Plan's answer is good for as long as the job has the index Info read.
Differs(token, spec) == live.idx = token /\ ~live.dead => Current.spec # Stores[spec]

\* What the guard's answer is good for.
Clear(token, spec) ==
    live.idx = token /\ ~live.dead /\ budget["guard"] = 0 =>
        /\ Current.spec # Stores[spec]
        /\ StoredAsWritten(spec) => \A v \in Failed \cup Tagged : versions[v].spec # Stores[spec]

\* What Nomad stores is a spec.
LEMMA StoresSpecs == \A spec \in Specs : Stores[spec] \in Specs
  BY ConstantsAssumption

\* A job still at the version found failed is still that failure.
StillFailed(from) == live.ver = from => Current.dep = "failed"

\* A version chosen as stable is stable, or gone.
StillStable(to) == to \in DOMAIN versions => to \in Stable

CheckOK(c) ==
    /\ c \in CheckState
    /\ c.commit <= head /\ (c.pc \notin {"idle", "revert"} => c.commit >= 1)
    /\ c.token <= live.idx /\ c.from <= live.ver
    /\ c.pc = "plan" => ~c.queue
    /\ c.pc = "guard" => Differs(c.token, repo[c.commit])
    /\ c.pc = "enqueue" \/ (c.pc = "publish" /\ c.queue) => Clear(c.token, repo[c.commit])
    /\ c.pc = "revert" => StillFailed(c.from)

RegisterOK(r) ==
    r.op.kind = "register" =>
        /\ r.ref[1] = "commit"
        /\ r.body \in [token : Nat, spec : Specs]
        /\ r.body.token <= live.idx
        /\ Clear(r.body.token, r.body.spec)

RevertOK(r) ==
    r.op.kind = "revert" =>
        /\ r.ref[1] = "revert"
        /\ r.op.from <= live.ver /\ r.op.to < r.op.from
        /\ StillFailed(r.op.from) /\ StillStable(r.op.to)

RowOK(r) == r.op \in Operation /\ RegisterOK(r) /\ RevertOK(r)

RowsOK == Numbered(updates) /\ \A i \in DOMAIN updates : RowOK(updates[i])

ApplierOK ==
    /\ ap = "idle" => InProgress(updates) = {}
    /\ ap # "idle" =>
          \E i \in DOMAIN updates : InProgress(updates) = {i} /\ updates[i].op.kind = ap

SkipOK == lastCommit \in Nat /\ lastCommit <= head

IInv ==
    BoundsOK /\ RepoOK /\ NomadOK /\ CheckOK(chk) /\ RowsOK /\ ApplierOK /\ SkipOK

-----------------------------------------------------------------------------
(* Nomad moves under the Check and the queue.                              *)

\* Versions and indexes grow, and what was sound still is.
Moves ==
    /\ NomadOK'
    /\ live.ver <= live'.ver /\ live.idx <= live'.idx
    /\ \A token \in Nat, spec \in Specs : token <= live.idx =>
          /\ Differs(token, spec) => Differs(token, spec)'
          /\ Clear(token, spec) => Clear(token, spec)'
    /\ \A from \in Nat : from <= live.ver /\ StillFailed(from) => StillFailed(from)'
    /\ \A to \in Nat : to < live.ver /\ StillStable(to) => StillStable(to)'

\* The job is not written: versions go or fare on, and no spec but the current
\* one becomes known to have failed.
LEMMA SteadyMoves ==
    ASSUME NomadOK, budget["guard"] \in Nat, budget'["guard"] \in Nat,
           budget["guard"] <= budget'["guard"], live' = live,
           versions' \in [DOMAIN versions' -> Version],
           DOMAIN versions' \subseteq DOMAIN versions, live.ver \in DOMAIN versions',
           \A v \in DOMAIN versions' :
              /\ versions'[v].spec = versions[v].spec
              /\ versions'[v].dep = "running" => versions[v].dep = "running"
              /\ versions'[v].tagged => versions'[v].dep \in {"failed", "collected"}
              /\ versions'[v].dep = "failed" \/ versions'[v].tagged =>
                    versions[v].dep = "failed" \/ versions[v].tagged \/ v = live.ver
              /\ v = live.ver /\ versions[v].dep = "failed" => versions'[v].dep = "failed"
              /\ versions[v].dep = "successful" => versions'[v].dep = "successful"
    PROVE  Moves
  <1>1. NomadOK'
    <2>1. \A v \in DOMAIN versions' :
             /\ versions'[v].dep = "running" => v = live.ver
             /\ versions'[v].tagged => versions'[v].dep \in {"failed", "collected"}
      BY DEF NomadOK
    <2>2. DOMAIN versions' \subseteq 0 .. live.ver
      BY DEF NomadOK
    <2> QED
      BY <2>1, <2>2 DEF NomadOK
  <1>2. live.ver \in DOMAIN versions /\ Current' = versions'[live.ver]
        /\ Current = versions[live.ver] /\ Current'.spec = Current.spec
    BY DEF NomadOK, Current
  <1>3. ASSUME NEW token \in Nat, NEW spec \in Specs, Differs(token, spec)
        PROVE  Differs(token, spec)'
    BY <1>2, <1>3 DEF Differs
  <1>4. ASSUME NEW token \in Nat, NEW spec \in Specs, Clear(token, spec)
        PROVE  Clear(token, spec)'
    <2> SUFFICES ASSUME live.idx = token, ~live.dead, budget'["guard"] = 0
                 PROVE  /\ Current'.spec # Stores[spec]
                        /\ StoredAsWritten(spec) =>
                              \A v \in (Failed \cup Tagged)' : versions'[v].spec # Stores[spec]
      BY DEF Clear, StoredAsWritten
    <2>1. /\ Current.spec # Stores[spec]
          /\ StoredAsWritten(spec) => \A v \in Failed \cup Tagged : versions[v].spec # Stores[spec]
      BY <1>4 DEF Clear
    <2>2. \A v \in (Failed \cup Tagged)' :
             v \in DOMAIN versions' /\ (v \in Failed \cup Tagged \/ v = live.ver)
      BY DEF Failed, Tagged
    <2> QED
      BY <1>2, <2>1, <2>2
  <1>5. ASSUME NEW from \in Nat, StillFailed(from)
        PROVE  StillFailed(from)'
    BY <1>2, <1>5 DEF StillFailed
  <1>6. ASSUME NEW to \in Nat, StillStable(to)
        PROVE  StillStable(to)'
    BY <1>6 DEF StillStable, Stable
  <1>7. live.ver <= live'.ver /\ live.idx <= live'.idx
    BY DEF NomadOK, Live
  <1> QED
    BY <1>1, <1>3, <1>4, <1>5, <1>6, <1>7 DEF Moves

\* A new version, above all there were, of a running job: every index that was
\* read is behind, and the rollout that was running is cancelled or failed.
LEMMA RegisteredMoves ==
    ASSUME NomadOK, NEW spec \in Specs,
           live' = [ver |-> live.ver + 1, idx |-> live.idx + 1, dead |-> FALSE],
           DOMAIN versions' = DOMAIN versions \cup {live.ver + 1},
           versions' \in [DOMAIN versions' -> Version],
           versions'[live.ver + 1] = Rollout(spec),
           \A v \in DOMAIN versions :
              /\ versions'[v].dep # "running"
              /\ versions'[v].tagged = versions[v].tagged
              /\ versions[v].dep # "running" => versions'[v].dep = versions[v].dep
    PROVE  Moves
  <1>1. PICK new : new = live.ver + 1
    OBVIOUS
  <1>2. live.ver \in Nat /\ live.idx \in Nat /\ new \in Nat /\ live.ver < new
    BY <1>1 DEF NomadOK, Live
  <1>3. live'.ver = new /\ live'.idx = live.idx + 1 /\ live'.idx > live.idx /\ live' \in Live
    BY <1>1, <1>2 DEF Live
  <1>4. \A v \in DOMAIN versions : v \in Nat /\ v <= live.ver /\ v # new
    BY <1>2 DEF NomadOK
  <1>5. NomadOK'
    <2>1. DOMAIN versions' \subseteq 0 .. new
      BY <1>1, <1>2, <1>4
    <2>2. \A v \in DOMAIN versions' :
             /\ versions'[v].dep = "running" => v = new
             /\ versions'[v].tagged => versions'[v].dep \in {"failed", "collected"}
      <3>1. versions'[new].tagged = FALSE
        BY <1>1 DEF Rollout
      <3>2. \A v \in DOMAIN versions :
               versions'[v].tagged => versions'[v].dep \in {"failed", "collected"}
        BY DEF NomadOK
      <3> QED
        BY <1>1, <3>1, <3>2
    <2> QED
      BY <1>1, <1>3, <2>1, <2>2 DEF NomadOK
  <1>6. ASSUME NEW token \in Nat, NEW other \in Specs, token <= live.idx
        PROVE  Differs(token, other)' /\ Clear(token, other)'
    <2>1. live'.idx # token
      BY <1>2, <1>3, <1>6
    <2> QED
      BY <2>1 DEF Differs, Clear
  <1>7. ASSUME NEW from \in Nat, from <= live.ver
        PROVE  StillFailed(from)'
    <2>1. live'.ver # from
      BY <1>2, <1>3, <1>7
    <2> QED
      BY <2>1 DEF StillFailed
  <1>8. ASSUME NEW to \in Nat, to < live.ver, StillStable(to)
        PROVE  StillStable(to)'
    <2>1. to # new
      BY <1>2, <1>8
    <2>2. to \in DOMAIN versions' => to \in DOMAIN versions
      BY <1>1, <2>1
    <2> QED
      BY <1>8, <2>2 DEF StillStable, Stable
  <1>9. live.ver <= live'.ver /\ live.idx <= live'.idx
    BY <1>2, <1>3
  <1> QED
    BY <1>5, <1>6, <1>7, <1>8, <1>9 DEF Moves

\* A job write with another spec, or of a stopped job.
LEMMA NewVersionMoves ==
    ASSUME NomadOK, NEW spec \in Specs, NewVersion(spec)
    PROVE  Moves
  <1>1. PICK new : new = live.ver + 1
    OBVIOUS
  <1>2. live.ver \in Nat /\ new \notin DOMAIN versions
    BY <1>1 DEF NomadOK, Live
  <1>3. \A v \in DOMAIN versions : versions[v] \in Version
    BY DEF NomadOK
  <1>4. /\ DOMAIN versions' = DOMAIN versions \cup {new}
        /\ versions'[new] = Rollout(spec)
        /\ \A v \in DOMAIN versions :
              versions'[v] = IF versions[v].dep = "running"
                             THEN [versions[v] EXCEPT !.dep = "cancelled"] ELSE versions[v]
        /\ versions' = [v \in DOMAIN versions' |-> versions'[v]]
    BY <1>1, <1>2 DEF NewVersion
  <1>5. Rollout(spec) \in Version
    BY DEF Rollout, Version, Dep
  <1>6. \A v \in DOMAIN versions :
           /\ versions'[v] \in Version
           /\ versions'[v].dep # "running"
           /\ versions'[v].tagged = versions[v].tagged
           /\ versions[v].dep # "running" => versions'[v].dep = versions[v].dep
    BY <1>3, <1>4 DEF Version, Dep
  <1>7. versions' \in [DOMAIN versions' -> Version]
    BY <1>4, <1>5, <1>6
  <1>8. live' = [ver |-> live.ver + 1, idx |-> live.idx + 1, dead |-> FALSE]
    BY DEF NewVersion
  <1> QED
    BY <1>1, <1>4, <1>6, <1>7, <1>8, RegisteredMoves

\* The job's writes, when they change nothing too.
LEMMA WritesMoves ==
    ASSUME NomadOK, BoundsOK, NEW spec \in Specs, Writes(spec), UNCHANGED budget
    PROVE  Moves
  <1>1. CASE spec = Current.spec /\ ~live.dead
    <2>1. versions' = versions /\ live' = live
      BY <1>1 DEF Writes, nomad
    <2>2. budget["guard"] \in Nat
      BY DEF BoundsOK, Kinds
    <2> QED
      BY <2>1, <2>2, SteadyMoves DEF NomadOK
  <1>2. CASE ~ (spec = Current.spec /\ ~live.dead)
    BY <1>2, NewVersionMoves DEF Writes
  <1> QED
    BY <1>1, <1>2

\* Nothing happens in Nomad, and the bounds may move.
LEMMA StillMoves ==
    ASSUME NomadOK, BoundsOK, BoundsOK', UNCHANGED nomad, budget["guard"] <= budget'["guard"]
    PROVE  Moves
  <1>1. versions' = versions /\ live' = live
    BY DEF nomad
  <1>2. budget["guard"] \in Nat /\ budget'["guard"] \in Nat
    BY DEF BoundsOK, Kinds
  <1> QED
    BY <1>1, <1>2, SteadyMoves DEF NomadOK

\* A disturbance is counted, and none is forgotten.
LEMMA UseCounts ==
    ASSUME BoundsOK, NEW kind \in Kinds, Use(kind)
    PROVE  /\ BoundsOK'
           /\ budget["guard"] <= budget'["guard"]
           /\ kind = "guard" => budget'["guard"] # 0
  <1>1. budget' = [budget EXCEPT ![kind] = @ + 1] /\ limit' = limit
    BY DEF Use
  <1>2. budget' \in [Kinds -> Nat]
    BY <1>1 DEF BoundsOK
  <1>3. budget[kind] \in Nat /\ budget["guard"] \in Nat
    BY DEF BoundsOK, Kinds
  <1>4. /\ budget["guard"] <= budget'["guard"]
        /\ kind = "guard" => budget'["guard"] # 0
    <2>1. "guard" \in Kinds /\ DOMAIN budget = Kinds
      BY DEF BoundsOK, Kinds
    <2>2. CASE kind = "guard"
      <3>1. budget'["guard"] = budget["guard"] + 1
        BY <1>1, <2>1, <2>2
      <3> QED
        BY <1>3, <3>1
    <2>3. CASE kind # "guard"
      <3>1. budget'["guard"] = budget["guard"]
        BY <1>1, <2>1, <2>3
      <3> QED
        BY <1>3, <2>3, <3>1
    <2> QED
      BY <2>2, <2>3
  <1> QED
    BY <1>1, <1>2, <1>4 DEF BoundsOK

\* The branch has not moved, or has one more commit.
RepoLater ==
    /\ RepoOK' /\ head <= head'
    /\ \A c \in 1 .. head : repo'[c] = repo[c]

\* A branch that does not move.
LEMMA SameRepo ==
    ASSUME RepoOK, repo' = repo
    PROVE  RepoLater
  BY DEF RepoOK, RepoLater, head

\* What a row knows stays right.
LEMMA RowLater ==
    ASSUME NomadOK, Moves
    PROVE  \A r : RowOK(r) => RowOK(r)'
  <1> SUFFICES ASSUME NEW r, RowOK(r)
               PROVE  RowOK(r)'
    OBVIOUS
  <1>1. /\ live.ver \in Nat /\ live'.ver \in Nat /\ live.ver <= live'.ver
        /\ live.idx \in Nat /\ live'.idx \in Nat /\ live.idx <= live'.idx
    BY DEF NomadOK, Live, Moves
  <1>2. r.op \in Operation /\ r.op.from \in Nat /\ r.op.to \in Nat
    BY DEF RowOK, Operation
  <1>3. CASE r.op.kind = "register"
    <2>1. /\ r.ref[1] = "commit"
          /\ r.body \in [token : Nat, spec : Specs]
          /\ r.body.token <= live.idx
          /\ Clear(r.body.token, r.body.spec)
      BY <1>3 DEF RowOK, RegisterOK
    <2>2. r.body.token \in Nat /\ r.body.spec \in Specs
      BY <2>1
    <2>3. Clear(r.body.token, r.body.spec)'
      BY <2>1, <2>2 DEF Moves
    <2>4. r.body.token <= live'.idx
      BY <1>1, <2>1, <2>2
    <2> QED
      BY <1>2, <1>3, <2>1, <2>3, <2>4 DEF RowOK, RegisterOK, RevertOK
  <1>4. CASE r.op.kind = "revert"
    <2>1. /\ r.ref[1] = "revert"
          /\ r.op.from <= live.ver /\ r.op.to < r.op.from
          /\ StillFailed(r.op.from) /\ StillStable(r.op.to)
      BY <1>4 DEF RowOK, RevertOK
    <2>2. r.op.to < live.ver
      BY <1>1, <1>2, <2>1
    <2>3. StillFailed(r.op.from)' /\ StillStable(r.op.to)'
      BY <1>2, <2>1, <2>2 DEF Moves
    <2>4. r.op.from <= live'.ver
      BY <1>1, <1>2, <2>1
    <2> QED
      BY <1>2, <1>4, <2>1, <2>3, <2>4 DEF RowOK, RegisterOK, RevertOK
  <1>5. r.op.kind \in {"register", "revert"}
    BY <1>2 DEF Operation
  <1> QED
    BY <1>3, <1>4, <1>5

\* A row is right for what it carries.
LEMMA CarriedOK ==
    ASSUME NEW r, NEW s, Carries(r, s), RowOK(s)
    PROVE  RowOK(r)
  BY DEF Carries, RowOK, RegisterOK, RevertOK

\* The queue stays right, when its rows carry what they did or are right.
LEMMA QueueLater ==
    ASSUME NomadOK, Moves, RowsOK, NEW new, updates' = new, Numbered(new),
           \A i \in DOMAIN new :
              RowOK(new[i])' \/ \E k \in DOMAIN updates : Carries(new[i], updates[k])
    PROVE  RowsOK'
  <1>1. ASSUME NEW i \in DOMAIN new, NEW k \in DOMAIN updates, Carries(new[i], updates[k])
        PROVE  RowOK(new[i])'
    <2>1. RowOK(new[i])
      BY <1>1, CarriedOK DEF RowsOK
    <2> QED
      BY <2>1, RowLater
  <1>2. \A i \in DOMAIN new : RowOK(new[i])'
    BY <1>1
  <1> QED
    BY <1>2 DEF RowsOK

\* What the Check knows stays right.
LEMMA CheckLater ==
    ASSUME RepoOK, NomadOK, Moves, RepoLater
    PROVE  \A c : CheckOK(c) => CheckOK(c)'
  <1> SUFFICES ASSUME NEW c, CheckOK(c)
               PROVE  CheckOK(c)'
    OBVIOUS
  <1>1. /\ live.ver \in Nat /\ live'.ver \in Nat /\ live.ver <= live'.ver
        /\ live.idx \in Nat /\ live'.idx \in Nat /\ live.idx <= live'.idx
        /\ head \in Nat /\ head' \in Nat /\ head <= head'
    BY DEF NomadOK, Live, Moves, RepoOK, RepoLater
  <1>2. /\ c \in CheckState /\ c.commit \in Nat /\ c.token \in Nat /\ c.from \in Nat
        /\ c.commit <= head /\ c.token <= live.idx /\ c.from <= live.ver
        /\ c.pc \notin {"idle", "revert"} => c.commit >= 1
    BY DEF CheckOK, CheckState
  <1>3. c.commit <= head' /\ c.token <= live'.idx /\ c.from <= live'.ver
    BY <1>1, <1>2
  <1>4. c.commit >= 1 => repo'[c.commit] = repo[c.commit] /\ repo[c.commit] \in Specs
    <2>1. c.commit >= 1 => c.commit \in 1 .. head
      BY <1>1, <1>2
    <2> QED
      BY <2>1 DEF RepoLater, RepoOK
  <1>5. c.pc = "guard" => Differs(c.token, repo[c.commit])'
    <2> SUFFICES ASSUME c.pc = "guard"
                 PROVE  Differs(c.token, repo[c.commit])'
      OBVIOUS
    <2>1. PICK spec \in Specs : spec = repo[c.commit] /\ spec = repo'[c.commit]
      BY <1>2, <1>4
    <2>2. Differs(c.token, spec)'
      BY <1>2, <2>1 DEF CheckOK, Moves
    <2> QED
      BY <2>1, <2>2 DEF Differs
  <1>6. c.pc = "enqueue" \/ (c.pc = "publish" /\ c.queue) => Clear(c.token, repo[c.commit])'
    <2> SUFFICES ASSUME c.pc = "enqueue" \/ (c.pc = "publish" /\ c.queue)
                 PROVE  Clear(c.token, repo[c.commit])'
      OBVIOUS
    <2>1. PICK spec \in Specs : spec = repo[c.commit] /\ spec = repo'[c.commit]
      BY <1>2, <1>4
    <2>2. Clear(c.token, spec)'
      BY <1>2, <2>1 DEF CheckOK, Moves
    <2> QED
      BY <2>1, <2>2 DEF Clear
  <1>7. c.pc = "revert" => StillFailed(c.from)'
    BY <1>2 DEF CheckOK, Moves
  <1>8. c.pc = "plan" => ~c.queue
    BY DEF CheckOK
  <1> QED
    BY <1>2, <1>3, <1>5, <1>6, <1>7, <1>8 DEF CheckOK

\* An untouched queue.
LEMMA SameQueue ==
    ASSUME NomadOK, Moves, RowsOK, updates' = updates
    PROVE  RowsOK'
  <1>1. PICK new : new = updates
    OBVIOUS
  <1>2. \A i \in DOMAIN new : Carries(new[i], updates[i])
    BY <1>1 DEF Carries
  <1>3. Numbered(new)
    BY <1>1 DEF RowsOK
  <1> QED
    BY <1>1, <1>2, <1>3, QueueLater

\* A step of people or of Nomad.
LEMMA OutsideStep ==
    ASSUME IInv, Moves, RepoLater, BoundsOK', UNCHANGED <<lastCommit, updates, chk, ap>>
    PROVE  IInv'
  <1>1. NomadOK' /\ RepoOK' /\ CheckOK(chk)' /\ RowsOK'
    BY CheckLater, SameQueue DEF IInv, Moves, RepoLater
  <1>2. ApplierOK'
    BY DEF IInv, ApplierOK, InProgress
  <1>3. SkipOK'
    <2>1. lastCommit \in Nat /\ lastCommit <= head /\ head \in Nat /\ head' \in Nat /\ head <= head'
      BY DEF IInv, SkipOK, RepoOK, RepoLater
    <2>2. lastCommit <= head'
      BY <2>1
    <2> QED
      BY <2>1, <2>2 DEF SkipOK
  <1> QED
    BY <1>1, <1>2, <1>3 DEF IInv

-----------------------------------------------------------------------------
(* People and Nomad.                                                       *)

\* A rollout succeeds.
LEMMA SucceedsStep == ASSUME IInv, DeploymentSucceeds PROVE IInv'
  <1>1. /\ Current.dep = "running" /\ live' = live /\ repo' = repo /\ UNCHANGED bounds
        /\ versions' = [versions EXCEPT ![live.ver].dep = "successful"]
        /\ UNCHANGED <<lastCommit, updates, chk, ap>>
    BY DEF DeploymentSucceeds, IndexMoves
  <1>2. /\ live.ver \in DOMAIN versions /\ versions[live.ver].dep = "running"
        /\ \A v \in DOMAIN versions : versions[v] \in Version
    BY <1>1 DEF IInv, NomadOK, Current
  <1>3. /\ DOMAIN versions' = DOMAIN versions
        /\ \A v \in DOMAIN versions :
              versions'[v] = IF v = live.ver THEN [versions[v] EXCEPT !.dep = "successful"]
                             ELSE versions[v]
        /\ versions' = [v \in DOMAIN versions' |-> versions'[v]]
    BY <1>1 DEF IInv, NomadOK
  <1>4. ~versions[live.ver].tagged
    BY <1>2 DEF IInv, NomadOK
  <1>5. versions'[live.ver] \in Version /\ versions'[live.ver].dep = "successful"
        /\ versions'[live.ver].spec = versions[live.ver].spec /\ ~versions'[live.ver].tagged
    BY <1>2, <1>3, <1>4 DEF Version, Dep
  <1>6. \A v \in DOMAIN versions : v # live.ver => versions'[v] = versions[v]
    BY <1>3
  <1>7. versions' \in [DOMAIN versions' -> Version]
    BY <1>2, <1>3, <1>5, <1>6
  <1>8. budget' = budget /\ budget["guard"] \in Nat /\ BoundsOK'
    BY <1>1 DEF bounds, IInv, BoundsOK, Kinds
  <1>9. \A v \in DOMAIN versions' :
           /\ versions'[v].spec = versions[v].spec
           /\ versions'[v].dep = "running" => versions[v].dep = "running"
           /\ versions'[v].tagged => versions'[v].dep \in {"failed", "collected"}
           /\ versions'[v].dep = "failed" \/ versions'[v].tagged =>
                 versions[v].dep = "failed" \/ versions[v].tagged \/ v = live.ver
           /\ v = live.ver /\ versions[v].dep = "failed" => versions'[v].dep = "failed"
           /\ versions[v].dep = "successful" => versions'[v].dep = "successful"
    BY <1>2, <1>3, <1>5, <1>6 DEF IInv, NomadOK
  <1>10. Moves
    BY <1>1, <1>2, <1>3, <1>7, <1>8, <1>9, SteadyMoves DEF IInv
  <1> QED
    BY <1>1, <1>8, <1>10, SameRepo, OutsideStep DEF IInv

\* A nonempty set of naturals has a least element.
LEMMA LeastElement ==
    ASSUME NEW S, S \subseteq Nat, S # {}
    PROVE  \E m \in S : \A i \in S : m <= i
  <1>1. PICK m \in S : \A i \in S : ~ (<<i, m>> \in OpToRel(<, Nat))
    BY NatLessThanWellFounded, WFMin
  <1>2. \A i \in S : ~ (i < m)
    BY <1>1 DEF OpToRel
  <1> QED
    BY <1>2

\* The newest of some versions is one of them.
LEMMA MaxIsMember ==
    ASSUME NEW n \in Nat, NEW S, S \subseteq 0 .. n, S # {}
    PROVE  Max(S) \in S
  <1> DEFINE below == {n - i : i \in S}
  <1>1. below \subseteq Nat /\ below # {}
    <2>1. \A i \in S : i \in 0 .. n
      OBVIOUS
    <2>2. \A i \in 0 .. n : n - i \in Nat
      OBVIOUS
    <2>3. \A i \in S : n - i \in Nat
      BY <2>1, <2>2
    <2> QED
      BY <2>3
  <1>2. PICK d \in below : \A e \in below : d <= e
    BY <1>1, LeastElement
  <1>3. PICK m \in S : d = n - m
    OBVIOUS
  <1>4. \A i \in S : m >= i
    <2> SUFFICES ASSUME NEW i \in S
                 PROVE  m >= i
      OBVIOUS
    <2>1. n - m <= n - i
      BY <1>2, <1>3
    <2>2. m \in Nat /\ i \in Nat
      OBVIOUS
    <2> QED
      BY <2>1, <2>2
  <1> QED
    BY <1>4 DEF Max

\* A rollout fails, and Nomad reverts it itself or leaves it there.
LEMMA FailsStep == ASSUME IInv, DeploymentFails PROVE IInv'
  <1> DEFINE failed == [versions EXCEPT ![live.ver].dep = "failed"]
             below == {v \in Stable : versions[v].spec # Current.spec}
  <1>1. /\ Use("failure") /\ Current.dep = "running" /\ repo' = repo
        /\ UNCHANGED <<updates, chk, ap>> /\ lastCommit' = lastCommit
    BY DEF DeploymentFails, IndexMoves, skip
  <1>2. BoundsOK' /\ budget["guard"] <= budget'["guard"]
    BY <1>1, UseCounts DEF IInv, Kinds
  <1>3. budget["guard"] \in Nat /\ budget'["guard"] \in Nat
    BY <1>2 DEF IInv, BoundsOK, Kinds
  <1>4. /\ live.ver \in DOMAIN versions /\ versions[live.ver].dep = "running"
        /\ \A v \in DOMAIN versions : versions[v] \in Version
        /\ live.ver \in Nat /\ DOMAIN versions \subseteq 0 .. live.ver
    BY <1>1 DEF IInv, NomadOK, Current, Live
  <1>5. ~versions[live.ver].tagged
    BY <1>4 DEF IInv, NomadOK
  <1>6. /\ DOMAIN failed = DOMAIN versions
        /\ failed[live.ver] \in Version /\ failed[live.ver].dep = "failed"
        /\ failed[live.ver].spec = versions[live.ver].spec /\ ~failed[live.ver].tagged
        /\ \A v \in DOMAIN versions : v # live.ver => failed[v] = versions[v]
        /\ failed = [v \in DOMAIN versions |-> failed[v]]
    <2>1. failed[live.ver] = [versions[live.ver] EXCEPT !.dep = "failed"]
      BY <1>4
    <2>2. failed[live.ver] \in Version /\ failed[live.ver].dep = "failed"
          /\ failed[live.ver].spec = versions[live.ver].spec /\ ~failed[live.ver].tagged
      BY <1>4, <1>5, <2>1 DEF Version, Dep
    <2> QED
      BY <1>4, <2>2 DEF IInv, NomadOK
  <1> HIDE DEF failed
  <1>7. \A v \in DOMAIN versions :
           /\ failed[v] \in Version
           /\ failed[v].spec = versions[v].spec
           /\ failed[v].dep # "running"
           /\ failed[v].tagged = versions[v].tagged
           /\ versions[v].dep # "running" => failed[v].dep = versions[v].dep
    <2>1. \A v \in DOMAIN versions : v # live.ver => versions[v].dep # "running"
      BY DEF IInv, NomadOK
    <2>2. versions[live.ver].tagged = FALSE /\ failed[live.ver].tagged = FALSE
      BY <1>4, <1>5, <1>6 DEF Version
    <2> QED
      BY <1>4, <1>6, <2>1, <2>2
  <1>8. CASE Current.spec \in AutoRevert /\ below # {}
    <2> DEFINE spec == versions[Max(below)].spec
    <2>1. below \subseteq DOMAIN versions
      BY DEF Stable
    <2>2. below \subseteq 0 .. live.ver
      BY <1>4, <2>1
    <2> HIDE DEF below
    <2>3. Max(below) \in DOMAIN versions
      BY <1>4, <1>8, <2>1, <2>2, MaxIsMember
    <2>4. spec \in Specs
      BY <1>4, <2>3 DEF Version
    <2>5. /\ versions' = [v \in DOMAIN versions \cup {live.ver + 1} |->
                            IF v = live.ver + 1 THEN Rollout(spec) ELSE failed[v]]
          /\ live' = [ver |-> live.ver + 1, idx |-> live.idx + 1, dead |-> FALSE]
      BY <1>8 DEF DeploymentFails, failed, below
    <2> HIDE DEF spec
    <2>6. \A v \in DOMAIN versions : v # live.ver + 1
      BY <1>4
    <2>7. /\ DOMAIN versions' = DOMAIN versions \cup {live.ver + 1}
          /\ versions'[live.ver + 1] = Rollout(spec)
          /\ \A v \in DOMAIN versions : versions'[v] = failed[v]
          /\ versions' = [v \in DOMAIN versions' |-> versions'[v]]
      BY <2>5, <2>6
    <2>8. Rollout(spec) \in Version
      BY <2>4 DEF Rollout, Version, Dep
    <2>9. versions' \in [DOMAIN versions' -> Version]
      BY <1>7, <2>7, <2>8
    <2>10. \A v \in DOMAIN versions :
              /\ versions'[v].dep # "running"
              /\ versions'[v].tagged = versions[v].tagged
              /\ versions[v].dep # "running" => versions'[v].dep = versions[v].dep
      BY <1>7, <2>7
    <2>11. Moves
      BY <2>4, <2>5, <2>7, <2>9, <2>10, RegisteredMoves DEF IInv
    <2> QED
      BY <1>1, <1>2, <2>11, SameRepo, OutsideStep DEF IInv
  <1>9. CASE ~ (Current.spec \in AutoRevert /\ below # {})
    <2>1. versions' = failed /\ live' = live
      BY <1>9 DEF DeploymentFails, failed
    <2>2. versions' \in [DOMAIN versions' -> Version]
      BY <1>6, <1>7, <2>1
    <2>3. \A v \in DOMAIN versions' :
             /\ versions'[v].spec = versions[v].spec
             /\ versions'[v].dep = "running" => versions[v].dep = "running"
             /\ versions'[v].tagged => versions'[v].dep \in {"failed", "collected"}
             /\ versions'[v].dep = "failed" \/ versions'[v].tagged =>
                   versions[v].dep = "failed" \/ versions[v].tagged \/ v = live.ver
             /\ v = live.ver /\ versions[v].dep = "failed" => versions'[v].dep = "failed"
             /\ versions[v].dep = "successful" => versions'[v].dep = "successful"
      BY <1>4, <1>6, <2>1 DEF IInv, NomadOK
    <2>4. Moves
      BY <1>3, <1>2, <1>4, <1>6, <2>1, <2>2, <2>3, SteadyMoves DEF IInv
    <2> QED
      BY <1>1, <1>2, <2>4, SameRepo, OutsideStep DEF IInv
  <1> QED
    BY <1>8, <1>9

\* Nomad forgets an old version, or only its deployment when it is tagged.
LEMMA CollectStep == ASSUME IInv, NEW v \in DOMAIN versions, Collect(v) PROVE IInv'
  <1>1. /\ Use("gc") /\ v # live.ver /\ repo' = repo /\ live' = live
        /\ UNCHANGED <<lastCommit, updates, chk, ap>>
        /\ versions' = IF v \in Tagged THEN [versions EXCEPT ![v].dep = "collected"]
                       ELSE [w \in DOMAIN versions \ {v} |-> versions[w]]
    BY DEF Collect, skip
  <1>2. BoundsOK' /\ budget["guard"] <= budget'["guard"]
    BY <1>1, UseCounts DEF IInv, Kinds
  <1>3. budget["guard"] \in Nat /\ budget'["guard"] \in Nat
    BY <1>2 DEF IInv, BoundsOK, Kinds
  <1>4. /\ live.ver \in DOMAIN versions
        /\ \A w \in DOMAIN versions :
              /\ versions[w] \in Version
              /\ versions[w].tagged => versions[w].dep \in {"failed", "collected"}
    BY DEF IInv, NomadOK
  <1>5. CASE v \in Tagged
    <2>1. versions[v].tagged /\ versions[v].dep \in {"failed", "collected"}
      BY <1>4, <1>5 DEF Tagged
    <2>2. /\ DOMAIN versions' = DOMAIN versions
          /\ versions'[v] = [versions[v] EXCEPT !.dep = "collected"]
          /\ \A w \in DOMAIN versions : w # v => versions'[w] = versions[w]
          /\ versions' = [w \in DOMAIN versions' |-> versions'[w]]
      BY <1>1, <1>5 DEF IInv, NomadOK
    <2>3. versions'[v] \in Version /\ versions'[v].dep = "collected"
          /\ versions'[v].spec = versions[v].spec
      BY <1>4, <2>2 DEF Version, Dep
    <2>4. versions' \in [DOMAIN versions' -> Version]
      BY <1>4, <2>2, <2>3
    <2>5. \A w \in DOMAIN versions' :
             /\ versions'[w].spec = versions[w].spec
             /\ versions'[w].dep = "running" => versions[w].dep = "running"
             /\ versions'[w].tagged => versions'[w].dep \in {"failed", "collected"}
             /\ versions'[w].dep = "failed" \/ versions'[w].tagged =>
                   versions[w].dep = "failed" \/ versions[w].tagged \/ w = live.ver
             /\ w = live.ver /\ versions[w].dep = "failed" => versions'[w].dep = "failed"
             /\ versions[w].dep = "successful" => versions'[w].dep = "successful"
      BY <1>1, <1>4, <2>1, <2>2, <2>3
    <2>6. Moves
      BY <1>1, <1>2, <1>3, <1>4, <2>2, <2>4, <2>5, SteadyMoves DEF IInv
    <2> QED
      BY <1>1, <1>2, <2>6, SameRepo, OutsideStep DEF IInv
  <1>6. CASE v \notin Tagged
    <2>1. /\ DOMAIN versions' = DOMAIN versions \ {v}
          /\ \A w \in DOMAIN versions' : versions'[w] = versions[w]
          /\ versions' = [w \in DOMAIN versions' |-> versions'[w]]
      BY <1>1, <1>6
    <2>2. versions' \in [DOMAIN versions' -> Version]
      BY <1>4, <2>1
    <2>3. Moves
      BY <1>1, <1>2, <1>3, <1>4, <2>1, <2>2, SteadyMoves DEF IInv
    <2> QED
      BY <1>1, <1>2, <2>3, SameRepo, OutsideStep DEF IInv
  <1> QED
    BY <1>5, <1>6

\* An operator registers another spec.
LEMMA RunStep == ASSUME IInv, NEW spec \in Specs, OperatorRun(spec) PROVE IInv'
  <1>1. /\ Use("edit") /\ NewVersion(Stores[spec]) /\ repo' = repo
        /\ UNCHANGED <<updates, chk, ap>> /\ lastCommit' = lastCommit
    BY DEF OperatorRun, NewVersion, IndexMoves
  <1>2. BoundsOK'
    BY <1>1, UseCounts DEF IInv, Kinds
  <1>3. Moves
    BY <1>1, StoresSpecs, NewVersionMoves DEF IInv
  <1> QED
    BY <1>1, <1>2, <1>3, SameRepo, OutsideStep DEF IInv

\* An operator stops the job: an index above all that were read.
LEMMA StopStep == ASSUME IInv, OperatorStop PROVE IInv'
  <1>1. /\ Use("stop") /\ repo' = repo
        /\ live' = [live EXCEPT !.dead = TRUE, !.idx = @ + 1]
        /\ versions' = [versions EXCEPT ![live.ver].dep = IF @ = "running" THEN "cancelled" ELSE @]
        /\ UNCHANGED <<updates, chk, ap>> /\ lastCommit' = lastCommit
    BY DEF OperatorStop, IndexMoves
  <1>2. BoundsOK'
    BY <1>1, UseCounts DEF IInv, Kinds
  <1>3. live \in Live /\ live.ver \in Nat /\ live.idx \in Nat
    BY DEF IInv, NomadOK, Live
  <1>4. /\ live' \in Live /\ live'.ver = live.ver /\ live'.idx = live.idx + 1
        /\ live'.idx > live.idx
    <2>1. live' = [ver |-> live.ver, idx |-> live.idx + 1, dead |-> TRUE]
      BY <1>1, <1>3 DEF Live
    <2> QED
      BY <1>3, <2>1 DEF Live
  <1>5. /\ live.ver \in DOMAIN versions
        /\ \A v \in DOMAIN versions :
              /\ versions[v] \in Version
              /\ versions[v].tagged => versions[v].dep \in {"failed", "collected"}
              /\ versions[v].dep = "running" => v = live.ver
        /\ DOMAIN versions \subseteq 0 .. live.ver
    BY DEF IInv, NomadOK
  <1>6. /\ DOMAIN versions' = DOMAIN versions
        /\ \A v \in DOMAIN versions :
              versions'[v] = IF v = live.ver /\ versions[v].dep = "running"
                             THEN [versions[v] EXCEPT !.dep = "cancelled"] ELSE versions[v]
        /\ versions' = [v \in DOMAIN versions' |-> versions'[v]]
    <2>1. versions'[live.ver] = IF versions[live.ver].dep = "running"
                                THEN [versions[live.ver] EXCEPT !.dep = "cancelled"]
                                ELSE versions[live.ver]
      BY <1>1, <1>5 DEF Version
    <2> QED
      BY <1>1, <2>1 DEF IInv, NomadOK
  <1>7. \A v \in DOMAIN versions :
           /\ versions'[v] \in Version
           /\ versions'[v].dep # "running"
           /\ versions'[v].tagged = versions[v].tagged
           /\ versions[v].dep # "running" => versions'[v].dep = versions[v].dep
    BY <1>5, <1>6 DEF Version, Dep
  <1>8. NomadOK'
    <2>1. versions' \in [DOMAIN versions' -> Version]
      BY <1>6, <1>7
    <2>2. \A v \in DOMAIN versions : versions'[v].tagged => versions'[v].dep \in {"failed", "collected"}
      BY <1>5, <1>7
    <2> QED
      BY <1>4, <1>5, <1>6, <1>7, <2>1, <2>2 DEF NomadOK
  <1>9. ASSUME NEW token \in Nat, token <= live.idx, NEW spec \in Specs
        PROVE  Differs(token, spec)' /\ Clear(token, spec)'
    <2>1. live'.idx # token
      BY <1>3, <1>4, <1>9
    <2> QED
      BY <2>1 DEF Differs, Clear
  <1>10. ASSUME NEW from \in Nat, StillFailed(from)
         PROVE  StillFailed(from)'
    BY <1>4, <1>5, <1>7, <1>10 DEF StillFailed, Current
  <1>11. ASSUME NEW to \in Nat, StillStable(to)
         PROVE  StillStable(to)'
    BY <1>6, <1>7, <1>11 DEF StillStable, Stable
  <1>12. live.ver <= live'.ver /\ live.idx <= live'.idx
    BY <1>3, <1>4
  <1>13. Moves
    BY <1>8, <1>9, <1>10, <1>11, <1>12 DEF Moves
  <1> QED
    BY <1>1, <1>2, <1>13, SameRepo, OutsideStep DEF IInv

\* A new commit leaves the older ones.
LEMMA CommitStep == ASSUME IInv, NEW spec \in Specs, Commit(spec) PROVE IInv'
  <1>1. /\ repo' = [c \in 1 .. (head + 1) |-> IF c <= head THEN repo[c] ELSE spec]
        /\ UNCHANGED nomad /\ UNCHANGED bounds /\ UNCHANGED <<lastCommit, updates, chk, ap>>
    BY DEF Commit, skip
  <1>2. head \in Nat /\ repo \in [1 .. head -> Specs]
    BY DEF IInv, RepoOK
  <1>3. DOMAIN repo' = 1 .. (head + 1)
    BY <1>1
  <1>4. head' = head + 1
    <2>1. Cardinality(1 .. (head + 1)) = head + 1
      BY <1>2, FS_Interval
    <2> QED
      BY <1>3, <2>1 DEF head
  <1>5. PICK new : new = head + 1
    OBVIOUS
  <1>6. repo' \in [1 .. new -> Specs] /\ \A c \in 1 .. head : repo'[c] = repo[c]
    BY <1>1, <1>2, <1>5
  <1>7. RepoLater
    <2>1. head' = new /\ new \in Nat /\ new >= 1 /\ head <= new
      BY <1>2, <1>4, <1>5
    <2> QED
      BY <1>6, <2>1 DEF RepoLater, RepoOK
  <1>8. BoundsOK' /\ budget' = budget /\ budget["guard"] \in Nat
    BY <1>1 DEF IInv, BoundsOK, bounds, Kinds
  <1>9. Moves
    BY <1>1, <1>8, StillMoves DEF IInv
  <1> QED
    BY <1>1, <1>7, <1>8, <1>9, OutsideStep

\* The job table's index moves for some other job.
LEMMA StatusStep == ASSUME IInv, StatusWrite PROVE IInv'
  <1>1. /\ UNCHANGED nomad /\ UNCHANGED bounds /\ repo' = repo
        /\ UNCHANGED <<lastCommit, updates, chk, ap>>
    BY DEF StatusWrite, IndexMoves
  <1>2. BoundsOK' /\ budget' = budget /\ budget["guard"] \in Nat
    BY <1>1 DEF IInv, BoundsOK, bounds, Kinds
  <1>3. Moves
    BY <1>1, <1>2, StillMoves DEF IInv
  <1> QED
    BY <1>1, <1>2, <1>3, SameRepo, OutsideStep DEF IInv

-----------------------------------------------------------------------------
(* The Check.                                                              *)

\* A step of the Check that leaves the queue and the applier alone.
LEMMA CheckTurns ==
    ASSUME IInv, Moves, BoundsOK', repo' = repo, UNCHANGED <<updates, ap>>,
           lastCommit' = lastCommit \/ (lastCommit' = chk.commit),
           NEW c, chk' = c, CheckOK(c)
    PROVE  IInv'
  <1>1. RepoLater /\ head' = head
    BY SameRepo DEF IInv, head
  <1>2. CheckOK(c)'
    BY <1>1, CheckLater DEF IInv
  <1>3. RepoOK' /\ NomadOK' /\ RowsOK'
    BY <1>1, SameQueue DEF IInv, Moves, RepoLater
  <1>4. ApplierOK'
    BY DEF IInv, ApplierOK, InProgress
  <1>5. SkipOK'
    BY <1>1 DEF IInv, SkipOK, CheckOK, CheckState
  <1> QED
    BY <1>2, <1>3, <1>4, <1>5 DEF IInv

\* In a step that touches neither Nomad nor the bounds, nothing moves.
LEMMA NothingMoves ==
    ASSUME IInv, UNCHANGED <<nomad, bounds>>
    PROVE  Moves /\ BoundsOK'
  <1>1. budget' = budget /\ limit' = limit /\ UNCHANGED nomad
    BY DEF bounds
  <1>2. BoundsOK' /\ budget["guard"] \in Nat
    BY <1>1 DEF IInv, BoundsOK, Kinds
  <1> QED
    BY <1>1, <1>2, StillMoves DEF IInv

\* A Check that knows nothing is right.
LEMMA FreshOK ==
    ASSUME IInv, NEW c, c.pc \in {"idle", "info", "poll"}, c.commit \in 0 .. head,
           c.pc # "idle" => c.commit >= 1,
           c = [pc |-> c.pc, commit |-> c.commit, token |-> 0, queue |-> FALSE, from |-> 0]
    PROVE  CheckOK(c)
  <1>1. head \in Nat /\ live.ver \in Nat /\ live.idx \in Nat
        /\ c.commit \in Nat /\ c.commit <= head
    BY DEF IInv, RepoOK, NomadOK, Live
  <1>2. c.token = 0 /\ c.from = 0 /\ c.queue = FALSE
    OBVIOUS
  <1>3. c.token \in Nat /\ c.from \in Nat
    BY <1>2
  <1>4. c \in CheckState
    BY <1>1, <1>2, <1>3 DEF CheckState
  <1> QED
    BY <1>1, <1>2, <1>4 DEF CheckOK

\* An idle Check is right.
LEMMA IdleOK == ASSUME IInv PROVE CheckOK(Idle)
  <1>1. Idle.pc = "idle" /\ Idle.commit = 0 /\ 0 \in 0 .. head
        /\ Idle = [pc |-> "idle", commit |-> 0, token |-> 0, queue |-> FALSE, from |-> 0]
    BY DEF Idle, IInv, RepoOK
  <1> QED
    BY <1>1, FreshOK

\* What the Check at work is about.
LEMMA AtWork ==
    ASSUME IInv, chk.pc \notin {"idle", "revert"}
    PROVE  /\ chk \in CheckState /\ chk.commit \in 1 .. head /\ Wanted = repo[chk.commit]
           /\ Wanted \in Specs /\ chk.token \in Nat /\ chk.from \in Nat
           /\ chk.token <= live.idx /\ chk.from <= live.ver
           /\ live.idx \in Nat /\ live.ver \in Nat /\ live.dead \in BOOLEAN
  BY DEF IInv, CheckOK, CheckState, RepoOK, NomadOK, Live, Wanted

\* Jobs().List.
LEMMA BeginStep == ASSUME IInv, BeginCheck PROVE IInv'
  <1>1. /\ UNCHANGED <<nomad, bounds>> /\ repo' = repo /\ UNCHANGED <<updates, ap>>
        /\ lastCommit' = lastCommit /\ chk' = [Idle EXCEPT !.pc = "info", !.commit = head]
    BY DEF BeginCheck
  <1>2. head \in 0 .. head /\ head >= 1
    BY DEF IInv, RepoOK
  <1>3. PICK c : c = chk'
    OBVIOUS
  <1>4. c = [pc |-> "info", commit |-> head, token |-> 0, queue |-> FALSE, from |-> 0]
    BY <1>1, <1>3 DEF Idle
  <1>5. CheckOK(c)
    BY <1>2, <1>4, FreshOK
  <1> QED
    BY <1>1, <1>3, <1>5, NothingMoves, CheckTurns

\* Jobs().Info: the token is the index as it is now.
LEMMA InfoStep == ASSUME IInv, Info PROVE IInv'
  <1>1. /\ UNCHANGED <<nomad, bounds>> /\ repo' = repo /\ UNCHANGED <<updates, ap>>
        /\ lastCommit' = lastCommit /\ chk.pc = "info"
        /\ chk' = [chk EXCEPT !.pc = IF live.dead THEN "publish" ELSE "plan",
                              !.queue = live.dead, !.token = live.idx]
    BY DEF Info, skip
  <1>2. /\ chk \in CheckState /\ chk.commit \in 1 .. head /\ chk.from \in Nat
        /\ chk.from <= live.ver /\ live.idx \in Nat /\ live.dead \in BOOLEAN
    BY <1>1, AtWork
  <1>3. PICK c : c = chk'
    OBVIOUS
  <1>4. /\ c \in CheckState
        /\ c.pc = IF live.dead THEN "publish" ELSE "plan"
        /\ c.commit = chk.commit /\ c.token = live.idx /\ c.queue = live.dead
        /\ c.from = chk.from
    BY <1>1, <1>2, <1>3 DEF CheckState
  <1>5. CheckOK(c)
    BY <1>2, <1>4 DEF CheckOK, Clear
  <1> QED
    BY <1>1, <1>3, <1>5, NothingMoves, CheckTurns

\* Jobs().Plan: the job at this index differs, or the Check goes on.
LEMMA PlanStep == ASSUME IInv, Plan PROVE IInv'
  <1>1. /\ UNCHANGED <<nomad, bounds>> /\ repo' = repo /\ UNCHANGED <<updates, ap>>
        /\ lastCommit' = lastCommit /\ chk.pc = "plan"
        /\ chk' = [chk EXCEPT !.pc = IF Stores[Wanted] # Current.spec \/ live.dead
                                     THEN "guard" ELSE "publish"]
    BY DEF Plan, skip
  <1>2. /\ chk \in CheckState /\ chk.commit \in 1 .. head /\ Wanted = repo[chk.commit]
        /\ chk.token <= live.idx /\ chk.from <= live.ver
    BY <1>1, AtWork
  <1>3. ~chk.queue
    BY <1>1 DEF IInv, CheckOK
  <1>4. PICK c : c = chk'
    OBVIOUS
  <1>5. /\ c \in CheckState
        /\ c.pc = IF Stores[Wanted] # Current.spec \/ live.dead THEN "guard" ELSE "publish"
        /\ c.commit = chk.commit /\ c.token = chk.token /\ c.queue = chk.queue
        /\ c.from = chk.from
    BY <1>1, <1>2, <1>4 DEF CheckState
  <1>6. CheckOK(c)
    BY <1>2, <1>3, <1>5 DEF CheckOK, Differs
  <1> QED
    BY <1>1, <1>4, <1>6, NothingMoves, CheckTurns

\* Tagging the versions found failed makes none known that was not.
LEMMA TagMoves ==
    ASSUME IInv, TagFailedVersions, NoFault, live' = live
    PROVE  Moves /\ BoundsOK'
  <1>1. limit.tags \in BOOLEAN /\ budget' = budget /\ BoundsOK' /\ budget["guard"] \in Nat
    BY ConstantsAssumption DEF IInv, BoundsOK, NoFault, bounds, Kinds
  <1>2. /\ live.ver \in DOMAIN versions
        /\ \A v \in DOMAIN versions :
              /\ versions[v] \in Version
              /\ versions[v].tagged => versions[v].dep \in {"failed", "collected"}
    BY DEF IInv, NomadOK
  <1>3. /\ DOMAIN versions' = DOMAIN versions
        /\ versions' = [v \in DOMAIN versions' |-> versions'[v]]
        /\ \A v \in DOMAIN versions :
              versions'[v] = [versions[v] EXCEPT !.tagged = @ \/ (limit.tags /\ v \in Failed)]
    BY DEF TagFailedVersions
  <1>4. \A v \in DOMAIN versions :
           /\ versions'[v] \in Version
           /\ versions'[v].spec = versions[v].spec
           /\ versions'[v].dep = versions[v].dep
           /\ versions'[v].tagged => versions[v].tagged \/ v \in Failed
    BY <1>1, <1>2, <1>3 DEF Version
  <1>5. versions' \in [DOMAIN versions' -> Version]
    BY <1>3, <1>4
  <1>6. \A v \in Failed : versions[v].dep = "failed"
    BY DEF Failed
  <1>7. \A v \in DOMAIN versions' :
           /\ versions'[v].spec = versions[v].spec
           /\ versions'[v].dep = "running" => versions[v].dep = "running"
           /\ versions'[v].tagged => versions'[v].dep \in {"failed", "collected"}
           /\ versions'[v].dep = "failed" \/ versions'[v].tagged =>
                 versions[v].dep = "failed" \/ versions[v].tagged \/ v = live.ver
           /\ v = live.ver /\ versions[v].dep = "failed" => versions'[v].dep = "failed"
           /\ versions[v].dep = "successful" => versions'[v].dep = "successful"
    BY <1>2, <1>3, <1>4, <1>6
  <1>8. Moves
    BY <1>1, <1>2, <1>3, <1>5, <1>7, SteadyMoves DEF IInv
  <1> QED
    BY <1>1, <1>8

\* The guard: what it lets through is no failure it knows, or it could not ask.
LEMMA DecideStep == ASSUME IInv, Decide PROVE IInv'
  <1>1. /\ chk.pc = "guard" /\ repo' = repo /\ live' = live /\ UNCHANGED <<updates, ap>>
        /\ lastCommit' = lastCommit
    BY DEF Decide, skip
  <1>2. /\ chk \in CheckState /\ chk.commit \in 1 .. head /\ Wanted = repo[chk.commit]
        /\ Wanted \in Specs /\ chk.token <= live.idx /\ chk.from <= live.ver
    BY <1>1, AtWork
  <1>3. Differs(chk.token, Wanted)
    BY <1>1, <1>2 DEF IInv, CheckOK
  <1> DEFINE told == [chk EXCEPT !.pc = "publish", !.queue = ~FlapGuardBlocks]
  <1>4. CheckOK(told)
    <2>1. /\ told \in CheckState /\ told.pc = "publish" /\ told.queue = ~FlapGuardBlocks
          /\ told.commit = chk.commit /\ told.token = chk.token /\ told.from = chk.from
      <3>1. FlapGuardBlocks \in BOOLEAN
        BY DEF FlapGuardBlocks
      <3> QED
        BY <1>2, <3>1 DEF CheckState
    <2> HIDE DEF told
    <2>2. told.queue => Clear(told.token, repo[told.commit])
      BY <1>2, <1>3, <2>1 DEF FlapGuardBlocks, Clear, Differs, StoredAsWritten
    <2> QED
      BY <1>2, <2>1, <2>2 DEF CheckOK
  <1>5. CASE NoFault /\ TagFailedVersions /\ chk' = told
    BY <1>1, <1>4, <1>5, TagMoves, CheckTurns
  <1>6. CASE Use("tag") /\ UNCHANGED versions /\ chk' = told
    <2>1. BoundsOK' /\ budget["guard"] <= budget'["guard"]
      BY <1>6, UseCounts DEF IInv, Kinds
    <2>2. Moves
      BY <1>1, <1>6, <2>1, StillMoves DEF IInv, nomad
    <2> QED
      BY <1>1, <1>4, <1>6, <2>1, <2>2, CheckTurns
  <1>7. CASE /\ Use("guard") /\ UNCHANGED versions
             /\ chk' = [chk EXCEPT !.pc = "publish", !.queue = TRUE]
    <2>1. BoundsOK' /\ budget["guard"] <= budget'["guard"] /\ budget'["guard"] # 0
      BY <1>7, UseCounts DEF IInv, Kinds
    <2>2. Moves
      BY <1>1, <1>7, <2>1, StillMoves DEF IInv, nomad
    <2>3. PICK c : c = chk'
      OBVIOUS
    <2>4. /\ c \in CheckState /\ c.pc = "publish"
          /\ c.commit = chk.commit /\ c.token = chk.token /\ c.from = chk.from
      BY <1>2, <1>7, <2>3 DEF CheckState
    <2>5. RepoLater /\ RepoOK' /\ NomadOK' /\ RowsOK' /\ head' = head
      BY <1>1, <2>2, SameRepo, SameQueue DEF IInv, Moves, RepoLater, head
    <2>6. CheckOK(c)'
      BY <1>1, <1>2, <2>1, <2>4, <2>5 DEF CheckOK, Clear
    <2>7. ApplierOK' /\ SkipOK'
      BY <1>1, <2>5 DEF IInv, ApplierOK, InProgress, SkipOK
    <2> QED
      BY <2>1, <2>3, <2>5, <2>6, <2>7 DEF IInv
  <1> QED
    BY <1>5, <1>6, <1>7 DEF Decide

\* commitResults.
LEMMA PublishStep == ASSUME IInv, Publish PROVE IInv'
  <1>1. /\ UNCHANGED <<nomad, bounds>> /\ repo' = repo /\ UNCHANGED <<updates, ap>>
        /\ lastCommit' = chk.commit /\ chk.pc = "publish"
        /\ chk' = [chk EXCEPT !.pc = IF chk.queue THEN "enqueue" ELSE "poll"]
    BY DEF Publish
  <1>2. /\ chk \in CheckState /\ chk.commit \in 1 .. head
        /\ chk.token <= live.idx /\ chk.from <= live.ver
    BY <1>1, AtWork
  <1>3. PICK c : c = chk'
    OBVIOUS
  <1>4. /\ c \in CheckState /\ c.pc = IF chk.queue THEN "enqueue" ELSE "poll"
        /\ c.commit = chk.commit /\ c.token = chk.token /\ c.from = chk.from
    BY <1>1, <1>2, <1>3 DEF CheckState
  <1>5. chk.queue => Clear(chk.token, repo[chk.commit])
    BY <1>1 DEF IInv, CheckOK
  <1>6. CheckOK(c)
    BY <1>2, <1>4, <1>5 DEF CheckOK
  <1> QED
    BY <1>1, <1>3, <1>6, NothingMoves, CheckTurns

\* LatestDeployment: a failure found is the current version's.
LEMMA PollStep == ASSUME IInv, PollDeployment PROVE IInv'
  <1>1. /\ UNCHANGED nomad /\ repo' = repo /\ UNCHANGED <<updates, ap>>
        /\ lastCommit' = lastCommit
    BY DEF PollDeployment, skip
  <1>2. CheckOK(Idle)
    BY IdleOK
  <1>3. CASE NoFault /\ chk' = IF Current.dep = "failed"
                               THEN [Idle EXCEPT !.pc = "revert", !.from = live.ver] ELSE Idle
    <2>1. UNCHANGED <<nomad, bounds>>
      BY <1>1, <1>3 DEF NoFault
    <2>2. CASE Current.dep = "failed"
      <3>1. PICK c : c = chk'
        OBVIOUS
      <3>2. c = [pc |-> "revert", commit |-> 0, token |-> 0, queue |-> FALSE, from |-> live.ver]
        BY <1>3, <2>2, <3>1 DEF Idle
      <3>3. live.ver \in Nat /\ live.idx \in Nat /\ head \in Nat
        BY DEF IInv, NomadOK, Live, RepoOK
      <3>4. CheckOK(c)
        BY <2>2, <3>2, <3>3 DEF CheckOK, CheckState, StillFailed
      <3> QED
        BY <1>1, <2>1, <3>1, <3>4, NothingMoves, CheckTurns
    <2>3. CASE Current.dep # "failed"
      BY <1>1, <1>2, <1>3, <2>1, <2>3, NothingMoves, CheckTurns
    <2> QED
      BY <2>2, <2>3
  <1>4. CASE Use("poll") /\ chk' = Idle
    <2>1. BoundsOK' /\ budget["guard"] <= budget'["guard"]
      BY <1>4, UseCounts DEF IInv, Kinds
    <2>2. Moves
      BY <1>1, <2>1, StillMoves DEF IInv
    <2> QED
      BY <1>1, <1>2, <1>4, <2>1, <2>2, CheckTurns
  <1> QED
    BY <1>3, <1>4 DEF PollDeployment

-----------------------------------------------------------------------------
(* Enqueueing and applying.                                                *)

\* A right intent makes right rows: one that takes the place of a waiting row's
\* body comes under an UpdateID of its own kind.
LEMMA EnqueuedStep ==
    ASSUME IInv, UNCHANGED <<nomad, bounds>>, repo' = repo, ap' = ap, lastCommit' = lastCommit,
           NEW u, updates' = Appended(updates, u), RowOK(u),
           NEW c, chk' = c, CheckOK(c)
    PROVE  IInv'
  <1>1. Moves /\ BoundsOK'
    BY NothingMoves
  <1>2. PICK new : new = Appended(updates, u)
    OBVIOUS
  <1>3. PICK old : old = updates
    OBVIOUS
  <1>4. Numbered(old) /\ \A i \in DOMAIN old : RowOK(old[i])
    BY <1>3 DEF IInv, RowsOK
  <1>5. /\ Numbered(new)
        /\ \A i \in DOMAIN new :
              \/ \E k \in DOMAIN old : Carries(new[i], old[k])
              \/ /\ new[i].body = u.body
                 /\ \E k \in DOMAIN old :
                       /\ new[i].job = old[k].job /\ old[k].job = u.job
                       /\ new[i].ref = old[k].ref /\ old[k].ref = u.ref
                       /\ new[i].op = old[k].op
              \/ Carries(new[i], u)
        /\ SameInFlight(new, old)
    BY <1>2, <1>3, <1>4, AppendedRows
  <1>6. ASSUME NEW i \in DOMAIN new
        PROVE  RowOK(new[i])
    <2>1. ASSUME NEW k \in DOMAIN old, new[i].body = u.body, new[i].ref = old[k].ref,
                 old[k].ref = u.ref, new[i].op = old[k].op
          PROVE  RowOK(new[i])
      <3>1. RowOK(old[k]) /\ old[k].op.kind \in {"register", "revert"}
            /\ u.op.kind \in {"register", "revert"}
        BY <1>4 DEF RowOK, Operation
      <3>2. old[k].op.kind = u.op.kind
        BY <2>1, <3>1 DEF RowOK, RegisterOK, RevertOK
      <3> QED
        BY <2>1, <3>1, <3>2 DEF RowOK, RegisterOK, RevertOK
    <2> QED
      BY <1>4, <1>5, <2>1, CarriedOK
  <1>7. \A i \in DOMAIN new : RowOK(new[i])'
    BY <1>1, <1>6, RowLater DEF IInv
  <1>8. RowsOK'
    BY <1>2, <1>5, <1>7 DEF RowsOK
  <1>9. ApplierOK'
    <2>1. CASE ap = "idle"
      <3>1. InProgress(new) = {}
        BY <1>3, <1>5, <2>1 DEF IInv, ApplierOK, SameInFlight
      <3> QED
        BY <1>2, <2>1, <3>1 DEF ApplierOK
    <2>2. CASE ap # "idle"
      <3>1. PICK k \in DOMAIN old : InProgress(old) = {k} /\ old[k].op.kind = ap
        BY <1>3, <2>2 DEF IInv, ApplierOK
      <3>2. PICK i : InProgress(new) = {i} /\ new[i] = old[k]
        BY <1>5, <3>1 DEF SameInFlight
      <3>3. i \in DOMAIN new
        BY <3>2 DEF InProgress
      <3> QED
        BY <1>2, <2>2, <3>1, <3>2, <3>3 DEF ApplierOK
    <2> QED
      BY <2>1, <2>2
  <1>10. RepoLater /\ head' = head
    BY SameRepo DEF IInv, head
  <1>11. CheckOK(chk)'
    <2>1. CheckOK(c)'
      BY <1>1, <1>10, CheckLater DEF IInv
    <2> QED
      BY <2>1
  <1> QED
    BY <1>1, <1>8, <1>9, <1>10, <1>11 DEF IInv, Moves, RepoLater, SkipOK

\* The register a Check enqueues knows what the Check knew.
LEMMA EnqueueRegisterStep == ASSUME IInv, EnqueueRegister PROVE IInv'
  <1> DEFINE u == [job |-> job, ref |-> <<"commit", chk.commit>>,
                   op |-> [kind |-> "register", from |-> 0, to |-> 0],
                   body |-> [token |-> chk.token, spec |-> Wanted]]
  <1>1. /\ UNCHANGED <<nomad, bounds>> /\ repo' = repo /\ ap' = ap /\ lastCommit' = lastCommit
        /\ chk.pc = "enqueue" /\ updates' = Appended(updates, u)
        /\ chk' = [chk EXCEPT !.pc = "poll"]
    BY DEF EnqueueRegister, skip
  <1>2. /\ chk \in CheckState /\ chk.commit \in 1 .. head /\ Wanted = repo[chk.commit]
        /\ Wanted \in Specs /\ chk.token \in Nat
        /\ chk.token <= live.idx /\ chk.from <= live.ver
    BY <1>1, AtWork
  <1>3. Clear(chk.token, Wanted)
    BY <1>1, <1>2 DEF IInv, CheckOK
  <1>4. /\ u.op = [kind |-> "register", from |-> 0, to |-> 0] /\ u.op.kind = "register"
        /\ u.ref[1] = "commit"
        /\ u.body = [token |-> chk.token, spec |-> Wanted]
        /\ u.body.token = chk.token /\ u.body.spec = Wanted
    OBVIOUS
  <1> HIDE DEF u
  <1>5. RowOK(u)
    BY <1>2, <1>3, <1>4 DEF RowOK, RegisterOK, RevertOK, Operation
  <1>6. PICK c : c = chk'
    OBVIOUS
  <1>7. /\ c \in CheckState /\ c.pc = "poll" /\ c.commit = chk.commit
        /\ c.token = chk.token /\ c.from = chk.from
    BY <1>1, <1>2, <1>6 DEF CheckState
  <1>8. CheckOK(c)
    BY <1>2, <1>7 DEF CheckOK
  <1>9. PICK v : v = u
    OBVIOUS
  <1> QED
    BY <1>1, <1>5, <1>6, <1>8, <1>9, EnqueuedStep

\* The revert a Check enqueues goes from a version found failed to a stable one
\* below it.
LEMMA EnqueueRevertStep == ASSUME IInv, EnqueueRevert PROVE IInv'
  <1> DEFINE below == StableBelow(chk.from)
             u == [job |-> job, ref |-> <<"revert", chk.from>>,
                   op |-> [kind |-> "revert", from |-> chk.from, to |-> Max(below)],
                   body |-> NoSpec]
  <1>1. /\ UNCHANGED <<nomad, bounds>> /\ repo' = repo /\ ap' = ap /\ lastCommit' = lastCommit
        /\ chk.pc = "revert" /\ chk' = Idle
    BY DEF EnqueueRevert, skip
  <1>2. CheckOK(Idle)
    BY IdleOK
  <1>3. PICK c : c = Idle
    OBVIOUS
  <1>4. CASE Current.spec \in AutoRevert \/ below = {}
    <2>1. updates' = updates
      BY <1>4 DEF EnqueueRevert
    <2> QED
      BY <1>1, <1>2, <1>3, <2>1, NothingMoves, CheckTurns
  <1>5. CASE ~ (Current.spec \in AutoRevert \/ below = {})
    <2>1. updates' = Appended(updates, u)
      BY <1>5 DEF EnqueueRevert
    <2>2. chk.from \in Nat /\ chk.from <= live.ver /\ live.ver \in Nat /\ StillFailed(chk.from)
      BY <1>1 DEF IInv, CheckOK, CheckState, NomadOK, Live
    <2>3. below \subseteq Stable /\ (\A w \in below : w < chk.from)
          /\ below \subseteq 0 .. live.ver
      BY DEF StableBelow, Stable, IInv, NomadOK
    <2> HIDE DEF below
    <2>4. Max(below) \in below
      BY <1>5, <2>2, <2>3, MaxIsMember
    <2>5. PICK to : to = Max(below)
      OBVIOUS
    <2>6. to \in Nat /\ to < chk.from /\ to \in Stable
      <3>1. to \in below /\ to \in 0 .. live.ver
        BY <2>3, <2>4, <2>5
      <3>2. to \in Nat
        BY <2>2, <3>1
      <3> QED
        BY <2>3, <3>1, <3>2
    <2>7. /\ u.op = [kind |-> "revert", from |-> chk.from, to |-> to]
          /\ u.op.kind = "revert" /\ u.op.from = chk.from /\ u.op.to = to
          /\ u.ref[1] = "revert"
      BY <2>5
    <2> HIDE DEF u
    <2>8. RowOK(u)
      BY <2>2, <2>6, <2>7 DEF RowOK, RegisterOK, RevertOK, StillStable, Operation
    <2>9. PICK v : v = u
      OBVIOUS
    <2> QED
      BY <1>1, <1>2, <1>3, <2>1, <2>8, <2>9, EnqueuedStep
  <1> QED
    BY <1>4, <1>5

\* The applier takes the oldest waiting row.
LEMMA TakeStep == ASSUME IInv, Take PROVE IInv'
  <1>1. /\ ap = "idle" /\ UNCHANGED <<nomad, bounds>> /\ repo' = repo /\ chk' = chk
        /\ lastCommit' = lastCommit
    BY DEF Take, skip
  <1>2. PICK i \in First(Pending(updates)) :
           updates' = MarkInProgress(updates, i) /\ ap' = updates[i].op.kind
    BY DEF Take
  <1>3. PICK old : old = updates
    OBVIOUS
  <1>4. PICK new : new = updates'
    OBVIOUS
  <1>5. /\ Numbered(old) /\ InProgress(old) = {} /\ i \in Pending(old) /\ i \in DOMAIN old
        /\ new = MarkInProgress(old, i)
    BY <1>1, <1>2, <1>3, <1>4 DEF IInv, RowsOK, ApplierOK, First, Pending
  <1>6. /\ Numbered(new) /\ DOMAIN new = DOMAIN old
        /\ \A k \in DOMAIN new : Carries(new[k], old[k])
        /\ InProgress(new) = {i}
    BY <1>5, MarkedRows
  <1>7. Moves /\ BoundsOK' /\ RepoLater /\ head' = head
    BY <1>1, NothingMoves, SameRepo DEF IInv, head
  <1>8. RowsOK'
    BY <1>3, <1>4, <1>6, <1>7, QueueLater DEF IInv
  <1>9. ApplierOK'
    <2>1. old[i].op.kind \in {"register", "revert"} /\ ap' = old[i].op.kind
      BY <1>2, <1>3, <1>5 DEF IInv, RowsOK, RowOK, Operation
    <2>2. new[i].op.kind = ap' /\ i \in DOMAIN new
      BY <1>5, <1>6, <2>1 DEF Carries
    <2> QED
      BY <1>4, <1>6, <2>1, <2>2 DEF ApplierOK
  <1>10. CheckOK(chk)'
    BY <1>1, <1>7, CheckLater DEF IInv
  <1> QED
    BY <1>1, <1>7, <1>8, <1>9, <1>10 DEF IInv, Moves, RepoLater, SkipOK

\* The row in flight is the one the applier is about.
LEMMA InFlight ==
    ASSUME IInv, ap # "idle"
    PROVE  \E i \in DOMAIN updates :
              InProgress(updates) = {i} /\ Row = updates[i] /\ Row.op.kind = ap /\ RowOK(Row)
  <1>1. PICK i \in DOMAIN updates : InProgress(updates) = {i} /\ updates[i].op.kind = ap
    BY DEF IInv, ApplierOK
  <1>2. Row = updates[i]
    BY <1>1 DEF Row
  <1> QED
    BY <1>1, <1>2 DEF IInv, RowsOK

\* Whatever the outcome did to Nomad, recording it settles the row in flight.
LEMMA CompletesStep ==
    ASSUME IInv, ap # "idle", Moves, BoundsOK', NEW outcome \in TerminalStatus,
           Completes(outcome), lastCommit' = lastCommit
    PROVE  IInv'
  <1>1. /\ updates' = Renumbered(Complete(updates, Row, outcome)) /\ ap' = "idle"
        /\ repo' = repo /\ chk' = chk
    BY DEF Completes
  <1>2. PICK i \in DOMAIN updates : InProgress(updates) = {i} /\ Row = updates[i]
    BY InFlight
  <1>3. PICK old : old = updates
    OBVIOUS
  <1>4. PICK new : new = updates'
    OBVIOUS
  <1>5. /\ Table(old) /\ InProgress(old) = {i}
        /\ new = Renumbered(Complete(old, old[i], outcome))
    BY <1>1, <1>2, <1>3, <1>4 DEF IInv, RowsOK, Numbered
  <1>6. /\ Numbered(new)
        /\ \A k \in DOMAIN new : \E m \in DOMAIN old : Carries(new[k], old[m])
        /\ InProgress(new) = {}
    BY <1>5, CompletedRows
  <1>7. RowsOK'
    BY <1>3, <1>4, <1>6, QueueLater DEF IInv
  <1>8. RepoLater /\ head' = head
    BY <1>1, SameRepo DEF IInv, head
  <1>9. ApplierOK'
    BY <1>1, <1>4, <1>6 DEF ApplierOK
  <1>10. CheckOK(chk)'
    BY <1>1, <1>8, CheckLater DEF IInv
  <1> QED
    BY <1>7, <1>8, <1>9, <1>10 DEF IInv, Moves, RepoLater, SkipOK

\* A failed apply changes nothing in Nomad.
LEMMA FailedStep ==
    ASSUME IInv, ap # "idle", Fails,
           NoFault \/ \E kind \in Kinds : Use(kind)
    PROVE  IInv'
  <1>1. Completes("FAILED") /\ UNCHANGED nomad /\ lastCommit' = lastCommit
    BY DEF Fails
  <1>2. BoundsOK' /\ budget["guard"] <= budget'["guard"]
    <2>1. CASE NoFault
      BY <2>1 DEF IInv, BoundsOK, NoFault, bounds, Kinds
    <2>2. CASE \E kind \in Kinds : Use(kind)
      BY <2>2, UseCounts DEF IInv
    <2> QED
      BY <2>1, <2>2
  <1>3. Moves
    BY <1>1, <1>2, StillMoves DEF IInv
  <1> QED
    BY <1>1, <1>2, <1>3, CompletesStep DEF TerminalStatus

\* A write and its success.
LEMMA WrittenStep ==
    ASSUME IInv, ap # "idle", NEW spec \in Specs, NoFault, Completes("SUCCEEDED"), Writes(spec)
    PROVE  IInv'
  <1>1. BoundsOK' /\ budget' = budget
    BY DEF IInv, BoundsOK, NoFault, bounds
  <1>2. Moves
    BY <1>1, WritesMoves DEF IInv
  <1>3. lastCommit' = lastCommit
    BY DEF Writes, NewVersion, IndexMoves, skip
  <1> QED
    BY <1>1, <1>2, <1>3, CompletesStep DEF TerminalStatus

\* applyUpdate.
LEMMA RegisterStep == ASSUME IInv, Register PROVE IInv'
  <1>1. ap = "register"
    BY DEF Register
  <1>2. Stores[Row.body.spec] \in Specs
    BY <1>1, InFlight, StoresSpecs DEF RowOK, RegisterOK
  <1>3. CASE NoFault /\ Completes("SUCCEEDED") /\ Writes(Stores[Row.body.spec])
    BY <1>1, <1>2, <1>3, WrittenStep
  <1>4. CASE (NoFault \/ Use("register")) /\ Fails
    BY <1>1, <1>4, FailedStep DEF Kinds
  <1> QED
    BY <1>3, <1>4 DEF Register

\* applyRevert.
LEMMA RevertStep == ASSUME IInv, Revert PROVE IInv'
  <1>1. ap = "revert"
    BY DEF Revert
  <1>2. CASE /\ NoFault /\ Row.op.to \in DOMAIN versions /\ Completes("SUCCEEDED")
             /\ Writes(versions[Row.op.to].spec)
    <2>1. versions[Row.op.to].spec \in Specs
      BY <1>2 DEF IInv, NomadOK, Version
    <2> QED
      BY <1>1, <1>2, <2>1, WrittenStep
  <1>3. CASE (NoFault \/ Use("revert")) /\ Fails
    BY <1>1, <1>3, FailedStep DEF Kinds
  <1> QED
    BY <1>2, <1>3 DEF Revert

-----------------------------------------------------------------------------
(* The invariant holds throughout.                                         *)

\* At the start nothing is known, and the one version is stable.
LEMMA InitIInv == Init => IInv
  <1> SUFFICES ASSUME Init
               PROVE  IInv
    OBVIOUS
  <1>1. limit \in Limits /\ limit.specs \subseteq Specs
    BY ConstantsAssumption DEF Init
  <1>2. BoundsOK
    BY <1>1 DEF Init, BoundsOK
  <1>3. RepoOK
    <2>1. repo \in [{1} -> Specs] /\ {1} = 1 .. 1
      BY <1>1 DEF Init
    <2>2. head = 1
      BY <2>1, FS_Singleton DEF head
    <2> QED
      BY <2>1, <2>2 DEF RepoOK
  <1>4. NomadOK
    <2>1. PICK spec \in Specs :
             versions = [v \in {0} |-> [Rollout(spec) EXCEPT !.dep = "successful"]]
      BY <1>1, StoresSpecs DEF Init
    <2>2. /\ DOMAIN versions = {0}
          /\ versions[0] = [spec |-> spec, dep |-> "successful", tagged |-> FALSE]
      BY <2>1 DEF Rollout
    <2>3. versions[0] \in Version
      BY <1>1, <2>1, <2>2 DEF Version, Dep
    <2>4. versions \in [DOMAIN versions -> Version]
      BY <2>1, <2>2, <2>3
    <2>5. live \in Live /\ live.ver = 0
      BY DEF Init, Live
    <2>6. versions[0].dep = "successful" /\ ~versions[0].tagged
      BY <2>2
    <2> QED
      BY <2>2, <2>4, <2>5, <2>6 DEF NomadOK
  <1>5. CheckOK(chk)
    <2>1. chk = [pc |-> "idle", commit |-> 0, token |-> 0, queue |-> FALSE, from |-> 0]
      BY DEF Init, Idle
    <2>2. live.idx \in Nat /\ live.ver \in Nat /\ head \in Nat
      BY <1>3, <1>4 DEF NomadOK, Live, RepoOK
    <2> QED
      BY <2>1, <2>2 DEF CheckOK, CheckState
  <1>6. DOMAIN updates = {}
    BY DEF Init
  <1>7. RowsOK
    <2>1. IsFiniteSet({}) /\ Cardinality({}) = 0
      BY FS_EmptySet
    <2> QED
      BY <1>6, <2>1 DEF RowsOK, Numbered, Table
  <1>8. ApplierOK
    BY <1>6 DEF Init, ApplierOK, InProgress
  <1>9. SkipOK
    BY <1>3 DEF Init, SkipOK, RepoOK
  <1> QED
    BY <1>2, <1>3, <1>4, <1>5, <1>7, <1>8, <1>9 DEF IInv

\* Every step keeps it.
LEMMA NextIInv == IInv /\ [Next]_vars => IInv'
  <1> SUFFICES ASSUME IInv, [Next]_vars
               PROVE  IInv'
    OBVIOUS
  <1>1. ASSUME CheckStep PROVE IInv'
    BY <1>1, BeginStep, InfoStep, PlanStep, DecideStep, PublishStep, PollStep,
       EnqueueRegisterStep, EnqueueRevertStep DEF CheckStep
  <1>2. ASSUME ApplierStep PROVE IInv'
    BY <1>2, TakeStep, RegisterStep, RevertStep DEF ApplierStep
  <1>3. ASSUME DeploymentSucceeds \/ DeploymentFails \/ OperatorStop \/ StatusWrite PROVE IInv'
    BY <1>3, SucceedsStep, FailsStep, StopStep, StatusStep
  <1>4. ASSUME NEW v \in DOMAIN versions, Collect(v) PROVE IInv'
    BY <1>4, CollectStep
  <1>5. ASSUME NEW spec \in limit.specs, Commit(spec) \/ OperatorRun(spec) PROVE IInv'
    <2>1. spec \in Specs
      BY ConstantsAssumption DEF IInv, BoundsOK
    <2> QED
      BY <1>5, <2>1, CommitStep, RunStep
  <1>6. CASE UNCHANGED vars
    <2>1. /\ UNCHANGED <<nomad, bounds>> /\ repo' = repo /\ UNCHANGED <<lastCommit, updates, chk, ap>>
      BY <1>6 DEF vars, skip
    <2> QED
      BY <2>1, NothingMoves, SameRepo, OutsideStep DEF IInv
  <1> QED
    BY <1>1, <1>2, <1>3, <1>4, <1>5, <1>6 DEF Next

\* The invariant.
LEMMA InvariantIInv == Spec => []IInv
  BY InitIInv, NextIInv, PTL DEF Spec

\* Types; one rollout runs at a time, and the applier's state names the one row
\* in flight, whatever fails, is collected or changed by hand.
THEOREM TypeCorrect == Spec => []TypeOK
  <1>1. IInv => TypeOK
    <2> SUFFICES ASSUME IInv
                 PROVE  TypeOK
      OBVIOUS
    <2>1. Cardinality(InProgress(updates)) = IF ap = "idle" THEN 0 ELSE 1
      BY FS_EmptySet, FS_Singleton DEF IInv, ApplierOK
    <2>2. ap # "idle" => Row.op.kind = ap
      BY InFlight
    <2>3. /\ live.ver \in DOMAIN versions /\ \A v \in DOMAIN versions : v <= live.ver
          /\ \A v \in DOMAIN versions :
                versions[v].spec \in Specs /\ (versions[v].dep = "running" => v = live.ver)
      BY DEF IInv, NomadOK, Version
    <2>4. lastCommit <= head /\ chk.from <= live.ver /\ chk.token <= live.idx
      BY DEF IInv, SkipOK, CheckOK
    <2> QED
      BY <2>1, <2>2, <2>3, <2>4 DEF TypeOK
  <1> QED
    BY <1>1, InvariantIInv, PTL

\* A write that lands makes a new version.
LEMMA LandsOnNew ==
    ASSUME NEW spec, Writes(spec), Lands
    PROVE  live'.ver = live.ver + 1 /\ (spec # Current.spec \/ live.dead)
  BY DEF Writes, Lands, NewVersion, nomad

\* Active rollback only ever replaces the version it found failed, with no
\* version in between, by one that is stable.
THEOREM RevertIsGuarded == Spec => RevertReplacesFailed
  <1>1. ASSUME IInv, ap = "revert", Revert, Lands
        PROVE  /\ Current.dep = "failed" /\ live'.ver = Row.op.from + 1
               /\ Row.op.to \in Stable
    <2>1. ~Fails
      BY <1>1 DEF Fails, Lands, nomad
    <2>2. /\ live.ver = Row.op.from /\ Row.op.to \in DOMAIN versions
          /\ Writes(versions[Row.op.to].spec)
      BY <1>1, <2>1 DEF Revert
    <2>3. RowOK(Row) /\ Row.op.kind = "revert"
      BY <1>1, InFlight
    <2>4. StillFailed(Row.op.from) /\ StillStable(Row.op.to)
      BY <2>3 DEF RowOK, RevertOK
    <2>5. live'.ver = live.ver + 1
      BY <1>1, <2>2, LandsOnNew
    <2> QED
      BY <2>2, <2>4, <2>5 DEF StillFailed, StillStable
  <1>2. IInv /\ [Next]_vars =>
           [ap = "revert" /\ Revert /\ Lands =>
               /\ Current.dep = "failed" /\ live'.ver = Row.op.from + 1
               /\ Row.op.to \in Stable]_vars
    BY <1>1
  <1> QED
    BY <1>2, InvariantIInv, PTL DEF Spec, RevertReplacesFailed

\* Of the specs that Nomad stores as they were written, no register brings back
\* one that is known to have failed; of the others the guard knows none
\* (specFingerprint, rollback.go:33).
THEOREM FailedStaysOut == Spec => KnownFailedHeld
  <1>1. ASSUME IInv, ap = "register", Register, Lands, ~live.dead, budget["guard"] = 0,
               StoredAsWritten(Row.body.spec)
        PROVE  \A v \in Failed \cup Tagged : versions[v].spec # Stores[Row.body.spec]
    <2>1. ~Fails
      BY <1>1 DEF Fails, Lands, nomad
    <2>2. /\ Writes(Stores[Row.body.spec])
          /\ (Stores[Row.body.spec] = Current.spec /\ ~live.dead) \/ live.idx = Row.body.token
      BY <1>1, <2>1 DEF Register
    <2>3. live.idx = Row.body.token
      BY <1>1, <2>2, LandsOnNew
    <2>4. RowOK(Row) /\ Row.op.kind = "register"
      BY <1>1, InFlight
    <2>5. Clear(Row.body.token, Row.body.spec)
      BY <2>4 DEF RowOK, RegisterOK
    <2> QED
      BY <1>1, <2>3, <2>5 DEF Clear
  <1>2. IInv /\ [Next]_vars =>
           [ap = "register" /\ Register /\ Lands /\ ~live.dead /\ budget["guard"] = 0
            /\ StoredAsWritten(Row.body.spec) =>
               \A v \in Failed \cup Tagged : versions[v].spec # Stores[Row.body.spec]]_vars
    BY <1>1
  <1> QED
    BY <1>2, InvariantIInv, PTL DEF Spec, KnownFailedHeld
===============================================================================
