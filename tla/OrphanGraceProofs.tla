--------------------------- MODULE OrphanGraceProofs --------------------------
(***************************************************************************)
(* OrphanGrace's type invariant, GraceHeld, OnlyRemovedFromRepo and        *)
(* OrphanGoes, for every grace period, retention and bound on time, and    *)
(* any number of commits, edits, freezes, faults and crashes.              *)
(*                                                                         *)
(* GraceHeld is arithmetic about clocks that run at different times.       *)
(*   TimeCounted   since the orphan was first seen, time is spent (free),  *)
(*                 or counted by graceOffset (held), or one of the ticks   *)
(*                 a freeze may cost because it is seen late, and gone     *)
(*                 late.  Credit is how many of those are still to come:   *)
(*                 a freeze pays for two when it is put, a reading turns   *)
(*                 one into counted time or gives it back, a tick takes    *)
(*                 one.                                                    *)
(*   Waited        a Check that has found the job due has waited, for spent*)
(*                 only grows until the job is no orphan any more.         *)
(* OnlyRemovedFromRepo is about what a row says: RowOK, of a row's op,     *)
(* however Enqueue combines it with the body of a later update for the     *)
(* same commit.                                                            *)
(*                                                                         *)
(* OrphanGoes says by when, so its invariant goes from one instant to the  *)
(* next.                                                                   *)
(*   ThawSeen      by the end of the quiet's first interval no hold counts *)
(*                 that is not indefinite, and none was longer than that.  *)
(*   OnlyRemovals  once that interval is over, no row and no Check would   *)
(*                 register a job without a file.                          *)
(*   OrphanSeen    then a Check has seen the orphan and stamped it.        *)
(*   OrphanDue     in the interval before it is due a Check finds the      *)
(*                 grace over and queues its removal, and the clock waits  *)
(*                 for the drain.                                          *)
(* That a Check looks at all in every interval is where busy is needed:    *)
(* ChecksLook.                                                             *)
(*                                                                         *)
(* The lemmas about the queue's table are those of RollbackProofs.         *)
(***************************************************************************)
EXTENDS OrphanGrace, FiniteSetTheorems, TLAPS

-----------------------------------------------------------------------------
(* The queue's table: what an operation leaves of its rows.                *)

IsRow(r) ==
    r = [job |-> r.job, ref |-> r.ref, op |-> r.op, body |-> r.body, status |-> r.status]

Table(rows) ==
    /\ DOMAIN rows \subseteq Nat /\ IsFiniteSet(DOMAIN rows)
    /\ \A i \in DOMAIN rows : IsRow(rows[i])

Numbered(rows) == Table(rows) /\ DOMAIN rows = 1 .. Cardinality(DOMAIN rows)

\* Two rows with one intent, whatever became of it.
Carries(r, s) == r.job = s.job /\ r.ref = s.ref /\ r.op = s.op /\ r.body = s.body

\* An operation that moves no row: what is left carries the intent it had, and
\* the rows in flight are what they were.
Kept(new, rows) ==
    /\ Table(new)
    /\ DOMAIN new \subseteq DOMAIN rows
    /\ \A i \in DOMAIN new : Carries(new[i], rows[i])
    /\ InProgress(new) = InProgress(rows)
    /\ \A i \in InProgress(rows) : new[i] = rows[i]

\* No row in flight, or one and the same.
SameInFlight(new, rows) ==
    /\ InProgress(rows) = {} => InProgress(new) = {}
    /\ \A k : InProgress(rows) = {k} => \E i : InProgress(new) = {i} /\ new[i] = rows[k]

\* The place of a stamp among the stamps is one to one.
LEMMA RankUnique ==
    ASSUME NEW D, D \subseteq Nat, IsFiniteSet(D), NEW m \in D, NEW n \in D,
           Cardinality({k \in D : k <= m}) = Cardinality({k \in D : k <= n})
    PROVE  m = n
  <1> DEFINE upto(i) == {k \in D : k <= i}
  <1>1. ASSUME NEW a \in D, NEW b \in D, a < b, Cardinality(upto(a)) = Cardinality(upto(b))
        PROVE  FALSE
    <2>1. upto(a) \in SUBSET upto(b) /\ b \in upto(b) /\ b \notin upto(a)
      <3>1. a \in Nat /\ b \in Nat
        OBVIOUS
      <3>2. \A k \in D : k <= a => k <= b
        BY <1>1, <3>1
      <3>3. upto(a) \in SUBSET upto(b)
        BY <3>2
      <3>4. b \in upto(b) /\ b \notin upto(a)
        BY <1>1, <3>1
      <3> QED
        BY <3>3, <3>4
    <2>2. IsFiniteSet(upto(b))
      BY FS_Subset
    <2>3. upto(a) = upto(b)
      BY <1>1, <2>1, <2>2, FS_Subset
    <2> QED
      BY <2>1, <2>3
  <1>2. m \in Nat /\ n \in Nat
    OBVIOUS
  <1>3. ~ (m < n)
    BY <1>1
  <1>4. ~ (n < m)
    BY <1>1
  <1> QED
    BY <1>2, <1>3, <1>4

\* Every place up to the number of stamps is some stamp's.
LEMMA RankReached ==
    ASSUME NEW D, D \subseteq Nat, IsFiniteSet(D)
    PROVE  /\ Cardinality(D) \in Nat
           /\ \A n \in D : Cardinality({k \in D : k <= n}) \in 1 .. Cardinality(D)
           /\ \A i \in 1 .. Cardinality(D) : \E n \in D : Cardinality({k \in D : k <= n}) = i
  <1> DEFINE upto(n) == {k \in D : k <= n}
             rank == [n \in D |-> Cardinality(upto(n))]
  <1>1. Cardinality(D) \in Nat
    BY FS_CardinalityType
  <1>2. \A n \in D : Cardinality(upto(n)) \in 1 .. Cardinality(D)
    <2> SUFFICES ASSUME NEW n \in D
                 PROVE  Cardinality(upto(n)) \in 1 .. Cardinality(D)
      OBVIOUS
    <2>1. IsFiniteSet(upto(n)) /\ Cardinality(upto(n)) <= Cardinality(D)
      BY FS_Subset
    <2>2. Cardinality(upto(n)) \in Nat /\ Cardinality(upto(n)) # 0
      BY <2>1, FS_CardinalityType, FS_EmptySet
    <2> HIDE DEF upto
    <2> QED
      BY <1>1, <2>1, <2>2
  <1>3. \A m, n \in D : rank[m] = rank[n] => m = n
    BY RankUnique
  <1>4. rank \in [D -> 1 .. Cardinality(D)]
    BY <1>2
  <1>5. ASSUME NEW i \in 1 .. Cardinality(D), \A n \in D : rank[n] # i
        PROVE  FALSE
    <2> DEFINE T == (1 .. Cardinality(D)) \ {i}
    <2> HIDE DEF rank
    <2>1. IsFiniteSet(1 .. Cardinality(D)) /\ Cardinality(1 .. Cardinality(D)) = Cardinality(D)
      BY <1>1, FS_Interval
    <2>2. IsFiniteSet(T) /\ Cardinality(T) = Cardinality(D) - 1
      BY <2>1, FS_RemoveElement
    <2>3. Cardinality(T) < Cardinality(D)
      BY <1>1, <2>2
    <2>4. rank \in [D -> T]
      BY <1>4, <1>5
    <2> HIDE DEF T
    <2>5. \E x, y \in D : x # y /\ rank[x] = rank[y]
      BY <2>2, <2>3, <2>4, FS_PigeonHole
    <2> QED
      BY <1>3, <2>5
  <1>6. \A i \in 1 .. Cardinality(D) : \E n \in D : rank[n] = i
    BY <1>5
  <1> QED
    BY <1>1, <1>2, <1>6

\* Renumbering gives every row another stamp and changes none.
LEMMA RenumberedRows ==
    ASSUME NEW rows, Table(rows)
    PROVE  /\ Numbered(Renumbered(rows))
           /\ \A i \in DOMAIN Renumbered(rows) :
                 \E k \in DOMAIN rows : Renumbered(rows)[i] = rows[k]
           /\ SameInFlight(Renumbered(rows), rows)
  <1> DEFINE D == DOMAIN rows
             rank(n) == Cardinality({m \in D : m <= n})
             at(i) == CHOOSE n \in D : rank(n) = i
             new == Renumbered(rows)
             size == Cardinality(D)
  <1>1. D \subseteq Nat /\ IsFiniteSet(D)
    BY DEF Table
  <1>2. size \in Nat /\ \A n \in D : rank(n) \in 1 .. size
    BY <1>1, RankReached
  <1>3. \A i \in 1 .. size : at(i) \in D /\ rank(at(i)) = i
    <2>1. \A i \in 1 .. size : \E n \in D : rank(n) = i
      BY <1>1, RankReached
    <2> HIDE DEF rank
    <2> QED
      BY <2>1
  <1>4. \A n \in D : at(rank(n)) = n
    <2> SUFFICES ASSUME NEW n \in D
                 PROVE  at(rank(n)) = n
      OBVIOUS
    <2>1. at(rank(n)) \in D /\ rank(at(rank(n))) = rank(n)
      BY <1>2, <1>3
    <2> HIDE DEF at
    <2> QED
      BY <1>1, <2>1, RankUnique
  <1>5. DOMAIN new = 1 .. size /\ \A i \in 1 .. size : new[i] = rows[at(i)]
    BY DEF Renumbered
  <1> HIDE DEF rank, at, new, size
  <1>6. Numbered(new)
    <2>1. IsFiniteSet(1 .. size) /\ Cardinality(1 .. size) = size
      BY <1>2, FS_Interval
    <2>2. \A i \in 1 .. size : IsRow(new[i])
      BY <1>3, <1>5 DEF Table
    <2> QED
      BY <1>2, <1>5, <2>1, <2>2 DEF Numbered, Table
  <1>7. \A i \in DOMAIN new : \E k \in D : new[i] = rows[k]
    BY <1>3, <1>5
  <1>8. InProgress(rows) = {} => InProgress(new) = {}
    BY <1>3, <1>5 DEF InProgress
  <1>9. ASSUME NEW k, InProgress(rows) = {k}
        PROVE  \E i : InProgress(new) = {i} /\ new[i] = rows[k]
    <2>1. k \in D /\ rows[k].status = "IN_PROGRESS"
      BY <1>9 DEF InProgress
    <2>2. rank(k) \in 1 .. size /\ at(rank(k)) = k
      BY <1>2, <1>4, <2>1
    <2>3. new[rank(k)] = rows[k]
      BY <1>5, <2>2
    <2>4. \A i \in InProgress(new) : i = rank(k)
      BY <1>3, <1>5, <1>9 DEF InProgress
    <2>5. rank(k) \in InProgress(new)
      BY <1>5, <2>1, <2>2, <2>3 DEF InProgress
    <2> QED
      BY <2>3, <2>4, <2>5
  <1> QED
    BY <1>6, <1>7, <1>8, <1>9 DEF SameInFlight, new, D

\* Deleting terminal rows.
LEMMA KeepKept ==
    ASSUME NEW rows, NEW S, Table(rows), InProgress(rows) \subseteq S
    PROVE  Kept(Keep(rows, S), rows)
  <1> DEFINE new == Keep(rows, S)
  <1>1. DOMAIN new = DOMAIN rows \cap S /\ \A i \in DOMAIN new : new[i] = rows[i]
    BY DEF Keep
  <1> HIDE DEF new
  <1>2. IsFiniteSet(DOMAIN new)
    BY <1>1, FS_Intersection DEF Table
  <1>3. InProgress(new) = InProgress(rows)
    BY <1>1 DEF InProgress
  <1>4. \A i \in InProgress(rows) : new[i] = rows[i]
    BY <1>1, <1>3 DEF InProgress
  <1> QED
    BY <1>1, <1>2, <1>3, <1>4 DEF Kept, Table, Carries, new

\* prune takes no row in flight.
LEMMA PruneKept == ASSUME NEW rows, Table(rows) PROVE Kept(Prune(rows), rows)
  <1> DEFINE S == {i \in DOMAIN rows : i \in Settled(rows) =>
                     Cardinality({k \in Settled(rows) : k >= i}) <= MaxTerminalUpdates}
  <1>1. InProgress(rows) \subseteq S
    BY DEF InProgress, Settled, TerminalStatus
  <1>2. Prune(rows) = Keep(rows, S)
    BY DEF Prune
  <1> HIDE DEF S
  <1> QED
    BY <1>1, <1>2, KeepKept

\* Changing the status of rows that are not in flight, to another that is not.
LEMMA StatusKept ==
    ASSUME NEW rows, NEW new, NEW S, NEW status, Table(rows), S \cap InProgress(rows) = {},
           status # "IN_PROGRESS",
           new = [i \in DOMAIN rows |->
                     IF i \in S THEN [rows[i] EXCEPT !.status = status] ELSE rows[i]]
    PROVE  Kept(new, rows)
  <1>1. /\ DOMAIN new = DOMAIN rows
        /\ \A i \in DOMAIN rows :
              new[i] = IF i \in S THEN [rows[i] EXCEPT !.status = status] ELSE rows[i]
    OBVIOUS
  <1>2. \A i \in DOMAIN rows : IsRow(rows[i])
    BY DEF Table
  <1>3. \A i \in DOMAIN rows :
           /\ IsRow(new[i]) /\ Carries(new[i], rows[i])
           /\ i \in S => new[i].status = status
    BY <1>1, <1>2 DEF IsRow, Carries
  <1>4. InProgress(new) = InProgress(rows) /\ \A i \in InProgress(rows) : new[i] = rows[i]
    BY <1>1, <1>3 DEF InProgress
  <1> QED
    BY <1>1, <1>3, <1>4 DEF Kept, Table

\* Kept is transitive.
LEMMA KeptAgain ==
    ASSUME NEW a, NEW b, NEW c, Kept(b, a), Kept(c, b)
    PROVE  Kept(c, a)
  BY DEF Kept, Carries

\* Enqueue: a row of the new table carries an intent of the old one, the body
\* of the new intent under its UpdateID, or the new intent; and what is in
\* flight stays.
LEMMA EnqueueRows ==
    ASSUME NEW rows, NEW n \in Nat, NEW u, Table(rows), n \notin DOMAIN rows
    PROVE  LET new == Enqueue(rows, n, u)
           IN  /\ Table(new)
               /\ \A i \in DOMAIN new :
                     \/ i \in DOMAIN rows /\ Carries(new[i], rows[i])
                     \/ /\ i \in DOMAIN rows /\ new[i].body = u.body
                        /\ new[i].job = rows[i].job /\ rows[i].job = u.job
                        /\ new[i].ref = rows[i].ref /\ rows[i].ref = u.ref
                        /\ new[i].op = rows[i].op
                     \/ Carries(new[i], u)
               /\ InProgress(new) = InProgress(rows)
               /\ \A i \in InProgress(rows) : new[i] = rows[i]
  <1>1. CASE Claiming(rows, u) # {}
    <2> DEFINE new == Refresh(rows, u)
               S == Claiming(rows, u) \cap Pending(rows)
    <2>1. Enqueue(rows, n, u) = new
      BY <1>1 DEF Enqueue
    <2>2. /\ DOMAIN new = DOMAIN rows
          /\ \A i \in DOMAIN rows :
                new[i] = IF i \in S THEN [rows[i] EXCEPT !.body = u.body] ELSE rows[i]
      BY DEF Refresh
    <2>3. \A i \in S : rows[i].job = u.job /\ rows[i].ref = u.ref /\ rows[i].status = "PENDING"
      BY DEF Claiming, First, SameUpdateID, Pending
    <2>4. \A i \in DOMAIN rows : IsRow(rows[i])
      BY DEF Table
    <2> HIDE DEF new, S
    <2>5. \A i \in DOMAIN rows :
             /\ IsRow(new[i]) /\ new[i].status = rows[i].status
             /\ new[i].job = rows[i].job /\ new[i].ref = rows[i].ref /\ new[i].op = rows[i].op
             /\ new[i].body = IF i \in S THEN u.body ELSE rows[i].body
      BY <2>2, <2>4 DEF IsRow
    <2>6. InProgress(new) = InProgress(rows)
      BY <2>2, <2>5 DEF InProgress
    <2>7. \A i \in InProgress(rows) : new[i] = rows[i]
      BY <2>2, <2>3 DEF InProgress
    <2>8. Table(new)
      BY <2>2, <2>5 DEF Table
    <2>9. \A i \in DOMAIN new :
             \/ Carries(new[i], rows[i])
             \/ rows[i].job = u.job /\ rows[i].ref = u.ref /\ new[i].body = u.body
      BY <2>2, <2>3, <2>5 DEF Carries
    <2> QED
      BY <2>1, <2>2, <2>5, <2>6, <2>7, <2>8, <2>9
  <1>2. CASE Claiming(rows, u) = {}
    <2> DEFINE marked == Supersede(rows, u)
               left == DropRetried(marked, u)
               added == AppendRow(left, n, u)
               new == Prune(added)
    <2>1. Enqueue(rows, n, u) = new
      BY <1>2 DEF Enqueue
    <2>2. Kept(marked, rows)
      <3> DEFINE S == {i \in Pending(rows) : rows[i].job = u.job}
      <3>1. marked = [i \in DOMAIN rows |->
                         IF i \in S THEN [rows[i] EXCEPT !.status = "SUPERSEDED"] ELSE rows[i]]
        BY DEF Supersede
      <3>2. S \cap InProgress(rows) = {}
        BY DEF Pending, InProgress
      <3> HIDE DEF S, marked
      <3> QED
        BY <3>1, <3>2, StatusKept
    <2> HIDE DEF marked
    <2>3. Kept(left, marked)
      <3> DEFINE S == DOMAIN marked \ First(SameUpdateID(marked, u) \cap Settled(marked))
      <3>1. left = Keep(marked, S)
        BY DEF DropRetried
      <3>2. InProgress(marked) \subseteq S
        BY DEF InProgress, First, Settled, TerminalStatus
      <3> HIDE DEF S, left
      <3> QED
        BY <2>2, <3>1, <3>2, KeepKept DEF Kept
    <2> HIDE DEF left
    <2>4. Kept(left, rows)
      BY <2>2, <2>3, KeptAgain
    <2>5. /\ DOMAIN added = DOMAIN left \cup {n}
          /\ added[n] = [job |-> u.job, ref |-> u.ref, op |-> u.op, body |-> u.body,
                         status |-> "PENDING"]
          /\ \A i \in DOMAIN left : i # n /\ added[i] = left[i]
      <3>1. n \notin DOMAIN left
        BY <2>4 DEF Kept
      <3> QED
        BY <3>1 DEF AppendRow
    <2> HIDE DEF added
    <2>6. IsRow(added[n]) /\ Carries(added[n], u) /\ added[n].status = "PENDING"
      BY <2>5 DEF IsRow, Carries
    <2>7. Table(added)
      <3>1. IsFiniteSet(DOMAIN added)
        BY <2>4, <2>5, FS_AddElement DEF Kept, Table
      <3> QED
        BY <2>4, <2>5, <2>6, <3>1 DEF Kept, Table
    <2>8. InProgress(added) = InProgress(left) /\ InProgress(left) \subseteq DOMAIN left
      BY <2>5, <2>6 DEF InProgress
    <2>9. Kept(new, added)
      BY <2>7, PruneKept
    <2> HIDE DEF new
    <2>10. InProgress(new) = InProgress(rows) /\ \A i \in InProgress(rows) : new[i] = rows[i]
      BY <2>4, <2>5, <2>8, <2>9 DEF Kept
    <2>11. \A i \in DOMAIN new :
              \/ i \in DOMAIN rows /\ Carries(new[i], rows[i])
              \/ Carries(new[i], u)
      BY <2>4, <2>5, <2>6, <2>9 DEF Kept, Carries
    <2>12. Table(new)
      BY <2>9 DEF Kept
    <2> QED
      BY <2>1, <2>10, <2>11, <2>12
  <1> QED
    BY <1>1, <1>2

\* The same of Enqueue behind every row there is.
LEMMA AppendedRows ==
    ASSUME NEW rows, NEW u, Numbered(rows)
    PROVE  LET new == Appended(rows, u)
           IN  /\ Numbered(new)
               /\ \A i \in DOMAIN new :
                     \/ \E k \in DOMAIN rows : Carries(new[i], rows[k])
                     \/ /\ new[i].body = u.body
                        /\ \E k \in DOMAIN rows :
                              /\ new[i].job = rows[k].job /\ rows[k].job = u.job
                              /\ new[i].ref = rows[k].ref /\ rows[k].ref = u.ref
                              /\ new[i].op = rows[k].op
                     \/ Carries(new[i], u)
               /\ SameInFlight(new, rows)
  <1> DEFINE n == Cardinality(DOMAIN rows) + 1
             put == Enqueue(rows, n, u)
             new == Renumbered(put)
  <1>1. Appended(rows, u) = new
    BY DEF Appended
  <1>2. n \in Nat /\ n \notin DOMAIN rows /\ Table(rows)
    BY FS_CardinalityType DEF Numbered, Table
  <1>3. /\ Table(put)
        /\ \A i \in DOMAIN put :
              \/ i \in DOMAIN rows /\ Carries(put[i], rows[i])
              \/ /\ i \in DOMAIN rows /\ put[i].body = u.body
                 /\ put[i].job = rows[i].job /\ rows[i].job = u.job
                 /\ put[i].ref = rows[i].ref /\ rows[i].ref = u.ref
                 /\ put[i].op = rows[i].op
              \/ Carries(put[i], u)
        /\ InProgress(put) = InProgress(rows)
        /\ \A i \in InProgress(rows) : put[i] = rows[i]
    <2> HIDE DEF n
    <2> QED
      BY <1>2, EnqueueRows
  <1> HIDE DEF put
  <1>4. /\ Numbered(new)
        /\ \A i \in DOMAIN new : \E k \in DOMAIN put : new[i] = put[k]
        /\ SameInFlight(new, put)
    BY <1>3, RenumberedRows
  <1> HIDE DEF new
  <1>5. SameInFlight(new, rows)
    BY <1>3, <1>4 DEF SameInFlight
  <1>6. ASSUME NEW i \in DOMAIN new
        PROVE  \/ \E k \in DOMAIN rows : Carries(new[i], rows[k])
               \/ /\ new[i].body = u.body
                  /\ \E k \in DOMAIN rows :
                        /\ new[i].job = rows[k].job /\ rows[k].job = u.job
                        /\ new[i].ref = rows[k].ref /\ rows[k].ref = u.ref
                        /\ new[i].op = rows[k].op
               \/ Carries(new[i], u)
    <2>1. PICK k \in DOMAIN put : new[i] = put[k]
      BY <1>4
    <2> QED
      BY <1>3, <2>1
  <1> QED
    BY <1>1, <1>4, <1>5, <1>6

\* Complete settles the row in flight, and no row takes another intent.
LEMMA CompletedRows ==
    ASSUME NEW rows, NEW k, NEW outcome \in TerminalStatus, Table(rows), InProgress(rows) = {k}
    PROVE  LET new == Renumbered(Complete(rows, rows[k], outcome))
           IN  /\ Numbered(new)
               /\ \A i \in DOMAIN new : \E m \in DOMAIN rows : Carries(new[i], rows[m])
               /\ InProgress(new) = {}
  <1> DEFINE done == First(SameUpdateID(rows, rows[k]) \cap InProgress(rows))
             marked == [i \in DOMAIN rows |->
                          IF i \in done THEN [rows[i] EXCEPT !.status = outcome] ELSE rows[i]]
             left == Prune(marked)
             new == Renumbered(left)
  <1>1. k \in DOMAIN rows /\ k \in Nat
    BY DEF InProgress, Table
  <1>2. done = {k}
    BY <1>1 DEF First, SameUpdateID
  <1>3. Complete(rows, rows[k], outcome) = left
    BY <1>2 DEF Complete
  <1>4. \A i \in DOMAIN rows : IsRow(rows[i])
    BY DEF Table
  <1>5. /\ DOMAIN marked = DOMAIN rows
        /\ \A i \in DOMAIN rows :
              /\ IsRow(marked[i]) /\ Carries(marked[i], rows[i])
              /\ marked[i].status = IF i = k THEN outcome ELSE rows[i].status
    BY <1>2, <1>4 DEF IsRow, Carries
  <1> HIDE DEF marked, done
  <1>6. Table(marked) /\ InProgress(marked) = {}
    BY <1>5 DEF Table, InProgress, TerminalStatus
  <1>7. Kept(left, marked)
    BY <1>6, PruneKept
  <1> HIDE DEF left
  <1>8. Table(left) /\ InProgress(left) = {}
    BY <1>6, <1>7 DEF Kept
  <1>9. /\ Numbered(new)
        /\ \A i \in DOMAIN new : \E m \in DOMAIN left : new[i] = left[m]
        /\ InProgress(new) = {}
    BY <1>8, RenumberedRows DEF SameInFlight
  <1> HIDE DEF new
  <1>10. \A i \in DOMAIN new : \E m \in DOMAIN rows : Carries(new[i], rows[m])
    BY <1>5, <1>7, <1>9 DEF Kept, Carries
  <1> QED
    BY <1>3, <1>9, <1>10 DEF new

\* NextPending puts one waiting row in flight.
LEMMA MarkedRows ==
    ASSUME NEW rows, Numbered(rows), InProgress(rows) = {}, NEW i \in Pending(rows)
    PROVE  LET new == MarkInProgress(rows, i)
           IN  /\ Numbered(new)
               /\ DOMAIN new = DOMAIN rows
               /\ \A k \in DOMAIN new : Carries(new[k], rows[k])
               /\ InProgress(new) = {i}
  <1> DEFINE new == MarkInProgress(rows, i)
  <1>1. i \in DOMAIN rows /\ \A k \in DOMAIN rows : IsRow(rows[k])
    BY DEF Pending, Numbered, Table
  <1>2. /\ DOMAIN new = DOMAIN rows
        /\ \A k \in DOMAIN rows :
              /\ IsRow(new[k]) /\ Carries(new[k], rows[k])
              /\ new[k].status = IF k = i THEN "IN_PROGRESS" ELSE rows[k].status
    BY <1>1 DEF MarkInProgress, IsRow, Carries
  <1> HIDE DEF new
  <1>3. InProgress(new) = {i}
    BY <1>1, <1>2 DEF InProgress
  <1>4. Numbered(new)
    BY <1>2 DEF Numbered, Table
  <1> QED
    BY <1>2, <1>3, <1>4 DEF new


-----------------------------------------------------------------------------
(* The invariant.                                                          *)

Kinds == {"edit", "freeze", "fault", "parse", "crash"}
Contents == Specs \cup {Absent, Untagged}
Actions == {"none", "blocked_frozen", "deregister_pending_grace", "queued", "queued_deregister"}
CheckState ==
    [pc : {"idle", "decide", "publish", "enqueue"}, commit : Nat, parsed : Contents,
     orphan : BOOLEAN, listed : BOOLEAN, token : Nat, action : Actions]

BudgetOK == budget \in [Kinds -> Nat] /\ budget["freeze"] <= MaxFreezes

RepoOK == head \in Nat /\ head >= 1 /\ repo \in [1 .. head -> Contents]

LiveOK == live \in [spec : Specs \cup {Absent}, tagged : BOOLEAN, idx : Nat]

SkipOK ==
    /\ lastCommit \in Nat /\ lastCommit <= head
    /\ busy \in BOOLEAN /\ behind \in BOOLEAN /\ clean \in BOOLEAN

\* A Check reads the freezes before the clock ticks again; what accrued did so
\* before the hold that is being counted.
ClockOK ==
    /\ now \in Nat /\ now <= MaxTime /\ checked \in BOOLEAN
    /\ frozen # None => frozen \in Nat /\ budget["freeze"] >= 1
    /\ accrued \in Nat /\ accrued <= now
    /\ heldSince # None =>
          /\ heldSince \in Nat /\ heldSince <= now /\ now <= heldSince + 1
          /\ checked => heldSince = now
          /\ accrued <= heldSince
          /\ budget["freeze"] >= 1
    /\ firstSeen # None => firstSeen \in Nat /\ firstSeen <= now
    /\ spent \in Nat /\ spent <= now
    /\ firstSeen = None => spent = 0
    /\ forgot \in BOOLEAN

\* Ticks that a freeze may still cost: one before it is seen and one before it
\* is seen to be gone.
Credit ==
    IF heldSince # None THEN 1
    ELSE IF ~InForce(frozen) THEN 0 ELSE IF checked THEN 2 ELSE 1

\* Time since the orphan was seen is spent, held, or one of those ticks.
TimeCounted ==
    firstSeen # None /\ ~forgot =>
        now + Credit <= firstSeen + spent + GraceOffset + 2 * budget["freeze"]

\* The Check's file is the one at its commit, unless a parse has failed.
CheckOK(c) ==
    /\ c \in CheckState
    /\ c.pc # "idle" =>
          /\ c.commit \in 1 .. head
          /\ c.parsed = repo[c.commit] \/ (c.parsed = Absent /\ budget["parse"] > 0)
    /\ c.orphan => c.parsed = Absent
    /\ c.action = "queued" => c.parsed \in Specs
    /\ c.action = "queued_deregister" => c.orphan
    /\ c.pc = "enqueue" => c.action \in {"queued", "queued_deregister"}

\* GraceHeld, of a Check.
Waited(c) == c.action = "queued_deregister" /\ ~forgot => spent + Slack >= Grace

\* What an update says of the repository at its commit.
RowOK(r) ==
    /\ r.op \in {"REGISTER", "DEREGISTER"}
    /\ r.ref \in 1 .. head
    /\ r.body \in [spec : Specs \cup {Absent}, token : Nat]
    /\ r.op = "DEREGISTER" => repo[r.ref] = Absent \/ budget["parse"] > 0

RowsOK == Numbered(updates) /\ \A i \in DOMAIN updates : RowOK(updates[i])

OpOf == [idle |-> "", register |-> "REGISTER", recheck |-> "DEREGISTER",
         deregister |-> "DEREGISTER"]

ApplierOK ==
    /\ ap \in {"idle", "register", "recheck", "deregister"}
    /\ ap = "idle" => InProgress(updates) = {}
    /\ ap # "idle" =>
          \E i \in DOMAIN updates : InProgress(updates) = {i} /\ updates[i].op = OpOf[ap]

IInv ==
    /\ BudgetOK /\ RepoOK /\ LiveOK /\ SkipOK /\ ClockOK /\ TimeCounted
    /\ CheckOK(chk) /\ Waited(chk) /\ RowsOK /\ ApplierOK

-----------------------------------------------------------------------------
(* What every step leaves.                                                 *)

\* The branch grows, and a parse that failed has failed.
Later ==
    /\ RepoOK' /\ BudgetOK'
    /\ head <= head' /\ \A c \in 1 .. head : repo'[c] = repo[c]
    /\ budget["parse"] <= budget'["parse"]

\* A step in trouble, or none, counts it.
LEMMA UseCounts ==
    ASSUME BudgetOK, NEW kind \in Kinds, NEW limit, Use(kind, limit),
           limit \in Nat, kind = "freeze" => limit <= MaxFreezes
    PROVE  /\ BudgetOK'
           /\ \A k \in Kinds : budget'[k] = IF k = kind THEN budget[k] + 1 ELSE budget[k]
  <1>1. \A k \in Kinds : budget'[k] = IF k = kind THEN budget[k] + 1 ELSE budget[k]
    BY DEF Use, BudgetOK
  <1>2. budget' \in [Kinds -> Nat]
    BY DEF Use, BudgetOK
  <1>3. "freeze" \in Kinds /\ budget["freeze"] \in Nat /\ budget[kind] \in Nat /\ MaxFreezes \in Nat
    BY ConstantsAssumption DEF BudgetOK, Kinds
  <1>4. budget'["freeze"] <= MaxFreezes
    <2>1. CASE kind = "freeze"
      BY <1>1, <1>3, <2>1 DEF Use
    <2>2. CASE kind # "freeze"
      BY <1>1, <1>3, <2>2 DEF BudgetOK
    <2> QED
      BY <2>1, <2>2
  <1> QED
    BY <1>1, <1>2, <1>4 DEF BudgetOK

\* Of the faults, only a parse that fails and a freeze are asked about later.
LEMMA FaultCounts ==
    ASSUME BudgetOK, NoFault \/ (\E kind : Fault(kind)) \/ Use("parse", MaxFaults)
                     \/ Use("edit", MaxEdits) \/ Use("crash", MaxCrashes)
    PROVE  BudgetOK' /\ budget'["freeze"] = budget["freeze"] /\ budget["parse"] <= budget'["parse"]
  <1>1. /\ MaxFaults \in Nat /\ MaxEdits \in Nat /\ MaxCrashes \in Nat
        /\ Kinds = {"edit", "freeze", "fault", "parse", "crash"}
        /\ budget["parse"] \in Nat
    BY ConstantsAssumption DEF Kinds, BudgetOK
  <1>2. CASE NoFault
    BY <1>1, <1>2 DEF NoFault, BudgetOK
  <1>3. ASSUME NEW kind \in {"fault", "parse", "edit", "crash"}, NEW limit \in Nat, Use(kind, limit)
        PROVE  BudgetOK' /\ budget'["freeze"] = budget["freeze"]
               /\ budget["parse"] <= budget'["parse"]
    <2>1. /\ BudgetOK'
          /\ \A k \in Kinds : budget'[k] = IF k = kind THEN budget[k] + 1 ELSE budget[k]
      BY <1>1, <1>3, UseCounts
    <2> QED
      BY <1>1, <2>1
  <1> QED
    BY <1>1, <1>2, <1>3 DEF Fault

\* A branch that does not move.
LEMMA SameRepo ==
    ASSUME RepoOK, repo' = repo, BudgetOK', budget["parse"] <= budget'["parse"]
    PROVE  Later
  BY DEF RepoOK, head, Later

\* What an update says of its commit stays true.
LEMMA RowLater ==
    ASSUME RepoOK, BudgetOK, Later
    PROVE  \A r : RowOK(r) => RowOK(r)'
  <1> SUFFICES ASSUME NEW r, RowOK(r)
               PROVE  RowOK(r)'
    OBVIOUS
  <1>1. head \in Nat /\ head' \in Nat /\ head <= head' /\ budget["parse"] \in Nat
        /\ budget'["parse"] \in Nat /\ budget["parse"] <= budget'["parse"]
    BY DEF RepoOK, Later, BudgetOK, Kinds
  <1>2. r.ref \in 1 .. head /\ r.ref \in 1 .. head'
    <2>1. r.ref \in 1 .. head
      BY DEF RowOK
    <2> QED
      BY <1>1, <2>1
  <1>3. repo'[r.ref] = repo[r.ref]
    BY <1>2 DEF Later
  <1>4. budget["parse"] > 0 => budget'["parse"] > 0
    BY <1>1
  <1> QED
    BY <1>2, <1>3, <1>4 DEF RowOK

\* The queue as it is.
LEMMA SameRows ==
    ASSUME RepoOK, BudgetOK, Later, RowsOK, ApplierOK, updates' = updates, ap' = ap
    PROVE  RowsOK' /\ ApplierOK'
  <1>1. PICK rows : rows = updates
    OBVIOUS
  <1>2. \A i \in DOMAIN rows : RowOK(rows[i])'
    BY <1>1, RowLater DEF RowsOK
  <1>3. RowsOK'
    BY <1>1, <1>2 DEF RowsOK
  <1> QED
    BY <1>3 DEF ApplierOK, OpOf

\* The queue when its rows carry what they did, or are right.
LEMMA RowsLater ==
    ASSUME RepoOK, BudgetOK, Later, RowsOK, NEW new, updates' = new, Numbered(new),
           \A i \in DOMAIN new :
              RowOK(new[i]) \/ \E k \in DOMAIN updates : Carries(new[i], updates[k])
    PROVE  RowsOK'
  <1>1. \A i \in DOMAIN new : RowOK(new[i])
    BY DEF RowsOK, RowOK, Carries
  <1>2. \A i \in DOMAIN new : RowOK(new[i])'
    BY <1>1, RowLater
  <1> QED
    BY <1>2 DEF RowsOK

\* What a Check knows stays true.
LEMMA CheckLater ==
    ASSUME RepoOK, BudgetOK, Later
    PROVE  \A c : CheckOK(c) => CheckOK(c)'
  <1> SUFFICES ASSUME NEW c, CheckOK(c)
               PROVE  CheckOK(c)'
    OBVIOUS
  <1>1. head \in Nat /\ head' \in Nat /\ head <= head' /\ budget["parse"] \in Nat
        /\ budget'["parse"] \in Nat /\ budget["parse"] <= budget'["parse"]
    BY DEF RepoOK, Later, BudgetOK, Kinds
  <1>2. c.pc # "idle" => c.commit \in 1 .. head /\ c.commit \in 1 .. head'
    <2>1. c.pc # "idle" => c.commit \in 1 .. head
      BY DEF CheckOK
    <2> QED
      BY <1>1, <2>1
  <1>3. c.pc # "idle" => repo'[c.commit] = repo[c.commit]
    BY <1>2 DEF Later
  <1>4. budget["parse"] > 0 => budget'["parse"] > 0
    BY <1>1
  <1> QED
    BY <1>2, <1>3, <1>4 DEF CheckOK

\* A Check that is left in a state which is right.
LEMMA CheckTurns ==
    ASSUME RepoOK, BudgetOK, Later, NEW c, chk' = c, CheckOK(c)
    PROVE  CheckOK(chk)'
  <1>1. CheckOK(c)'
    BY CheckLater
  <1> QED
    BY <1>1 DEF CheckOK

\* No Check is running.
LEMMA IdleOK == CheckOK(Idle) /\ Waited(Idle) /\ Waited(Idle)'
  BY DEF CheckOK, Waited, Idle, CheckState, Contents, Actions

-----------------------------------------------------------------------------
(* The clock.                                                              *)

\* The clock and the freezes as they are.
LEMMA SameClock ==
    ASSUME ClockOK, TimeCounted, budget'["freeze"] = budget["freeze"],
           UNCHANGED <<now, checked, frozen, hold, firstSeen, ghost>>
    PROVE  ClockOK' /\ TimeCounted'
  BY DEF ClockOK, TimeCounted, Credit, InForce, GraceOffset, hold, ghost

\* When the offset loses no more than credit does, time stays counted.
LEMMA CountStays ==
    ASSUME ClockOK, TimeCounted, BudgetOK, NEW off, NEW cred, GraceOffset' = off, Credit' = cred,
           off \in Nat, cred \in Nat, GraceOffset + cred <= off + Credit,
           budget'["freeze"] = budget["freeze"], UNCHANGED <<now, firstSeen, ghost>>
    PROVE  TimeCounted'
  <1>1. /\ now \in Nat /\ spent \in Nat /\ budget["freeze"] \in Nat
        /\ Credit \in Nat /\ GraceOffset \in Nat
        /\ firstSeen # None => firstSeen \in Nat
    BY DEF ClockOK, BudgetOK, Kinds, Credit, GraceOffset
  <1>2. SUFFICES ASSUME firstSeen # None, ~forgot
                 PROVE  now + cred <= firstSeen + spent + off + 2 * budget["freeze"]
    BY DEF TimeCounted, ghost
  <1>3. now + Credit <= firstSeen + spent + GraceOffset + 2 * budget["freeze"]
    BY <1>2 DEF TimeCounted
  <1> HIDE DEF Credit, GraceOffset
  <1> QED
    BY <1>1, <1>2, <1>3

\* A reading moves what is being counted to what was, and finds out.
LEMMA ReadKeeps ==
    ASSUME ClockOK, TimeCounted, BudgetOK, ReadFreeze(frozen, accrued),
           budget'["freeze"] = budget["freeze"],
           UNCHANGED <<now, frozen, firstSeen, ghost>>, checked' \in {checked, TRUE}
    PROVE  ClockOK' /\ TimeCounted'
  <1>1. /\ now \in Nat /\ accrued \in Nat /\ accrued <= now /\ spent \in Nat
        /\ budget["freeze"] \in Nat /\ checked \in BOOLEAN
        /\ frozen # None => frozen \in Nat /\ budget["freeze"] >= 1
    BY DEF ClockOK, BudgetOK, Kinds
  <1>2. heldSince # None => /\ heldSince \in Nat /\ heldSince <= now /\ now <= heldSince + 1
                            /\ accrued <= heldSince
    BY DEF ClockOK
  <1>3. PICK h, a : /\ heldSince' = h /\ h = IF InForce(frozen) THEN now ELSE None
                    /\ accrued' = a
                    /\ a = IF InForce(frozen) /\ heldSince # None
                           THEN accrued + (now - heldSince) ELSE accrued
    BY DEF ReadFreeze
  <1>4. a \in Nat /\ a <= now
    BY <1>1, <1>2, <1>3
  <1>5. h # None => /\ h \in Nat /\ h = now /\ h <= now /\ now <= h + 1
                    /\ a <= h /\ budget["freeze"] >= 1
    BY <1>1, <1>3, <1>4 DEF InForce
  <1>6. ClockOK'
    <2>1. /\ now' = now /\ now <= MaxTime /\ frozen' = frozen /\ firstSeen' = firstSeen
          /\ spent' = spent /\ forgot' = forgot /\ forgot \in BOOLEAN /\ spent <= now
          /\ firstSeen # None => firstSeen \in Nat /\ firstSeen <= now
          /\ firstSeen = None => spent = 0
      BY DEF ClockOK, ghost
    <2> QED
      BY <1>1, <1>3, <1>4, <1>5, <2>1 DEF ClockOK
  <1> DEFINE off == a + (IF h = None THEN 0 ELSE now - h)
             cred == IF h # None THEN 1 ELSE IF ~InForce(frozen) THEN 0 ELSE IF checked' THEN 2 ELSE 1
  <1>7. GraceOffset' = off /\ Credit' = cred
    BY <1>3 DEF GraceOffset, Credit, InForce
  <1>8. off = a /\ cred \in Nat
    BY <1>1, <1>4, <1>5
  <1>9. GraceOffset + cred <= off + Credit
    <2>1. CASE InForce(frozen)
      <3>1. h = now /\ cred = 1
        BY <1>1, <1>3, <2>1, ConstantsAssumption
      <3>2. CASE heldSince # None
        BY <1>1, <1>2, <1>3, <1>8, <2>1, <3>1, <3>2 DEF GraceOffset, Credit
      <3>3. CASE heldSince = None
        BY <1>1, <1>3, <1>8, <2>1, <3>1, <3>3 DEF GraceOffset, Credit
      <3> QED
        BY <3>2, <3>3
    <2>2. CASE ~InForce(frozen)
      <3>1. cred = 0 /\ a = accrued
        BY <1>3, <2>2
      <3> HIDE DEF off, cred
      <3>2. CASE heldSince # None
        BY <1>1, <1>2, <1>8, <2>2, <3>1, <3>2 DEF GraceOffset, Credit
      <3>3. CASE heldSince = None
        BY <1>1, <1>8, <2>2, <3>1, <3>3 DEF GraceOffset, Credit
      <3> QED
        BY <3>2, <3>3
    <2> QED
      BY <2>1, <2>2
  <1> QED
    BY <1>4, <1>6, <1>7, <1>8, <1>9, CountStays

\* A lifted record takes what was counted with it: forgotten, or not an orphan.
LEMMA ClearKeeps ==
    ASSUME ClockOK, BudgetOK, ReadFreeze(None, 0), Forgets, frozen' = None,
           budget'["freeze"] = budget["freeze"],
           UNCHANGED <<now, firstSeen, spent>>, checked' \in {checked, TRUE}
    PROVE  ClockOK' /\ TimeCounted' /\ (forgot => forgot')
  <1>1. heldSince' = None /\ accrued' = 0
    BY DEF ReadFreeze, InForce
  <1>2. forgot' \in BOOLEAN /\ (forgot => forgot') /\ (firstSeen # None => forgot')
    BY DEF Forgets
  <1>3. /\ now \in Nat /\ 0 <= now /\ now <= MaxTime /\ checked \in BOOLEAN
        /\ firstSeen # None => firstSeen \in Nat /\ firstSeen <= now
        /\ spent \in Nat /\ spent <= now /\ (firstSeen = None => spent = 0)
    BY DEF ClockOK
  <1>4. ClockOK'
    BY <1>1, <1>2, <1>3 DEF ClockOK
  <1> QED
    BY <1>2, <1>4 DEF TimeCounted

\* A record goes and nobody looks.
LEMMA LiftKeeps ==
    ASSUME ClockOK, TimeCounted, BudgetOK, frozen' = None, budget'["freeze"] = budget["freeze"],
           UNCHANGED <<now, checked, hold, firstSeen, ghost>>
    PROVE  ClockOK' /\ TimeCounted'
  <1>1. ClockOK'
    BY DEF ClockOK, hold, ghost
  <1>2. PICK off : GraceOffset' = off /\ off = GraceOffset /\ off \in Nat
    BY DEF GraceOffset, ClockOK, hold
  <1>3. PICK cred : Credit' = cred /\ cred = IF heldSince # None THEN 1 ELSE 0
    BY DEF Credit, InForce, hold
  <1>4. cred \in Nat /\ GraceOffset + cred <= off + Credit
    BY <1>2, <1>3 DEF Credit
  <1> QED
    BY <1>1, <1>2, <1>3, <1>4, CountStays

\* A freeze pays for the two ticks it may cost.
LEMMA FreezeKeeps ==
    ASSUME ClockOK, TimeCounted, BudgetOK, NEW expiry \in Nat, expiry > now, frozen' = expiry,
           UNCHANGED hold \/ ReadFreeze(expiry, accrued),
           budget'["freeze"] = budget["freeze"] + 1,
           UNCHANGED <<now, checked, firstSeen, ghost>>
    PROVE  ClockOK' /\ TimeCounted'
  <1>1. /\ now \in Nat /\ accrued \in Nat /\ accrued <= now /\ spent \in Nat
        /\ budget["freeze"] \in Nat /\ checked \in BOOLEAN
        /\ heldSince # None => /\ heldSince \in Nat /\ heldSince <= now /\ now <= heldSince + 1
                               /\ accrued <= heldSince /\ (checked => heldSince = now)
    BY DEF ClockOK, BudgetOK, Kinds
  <1>2. now # None /\ expiry # None
    BY <1>1, ConstantsAssumption
  <1>3. PICK h, a : /\ heldSince' = h /\ accrued' = a
                    /\ \/ h = heldSince /\ a = accrued
                       \/ /\ h = now
                          /\ a = IF heldSince # None THEN accrued + (now - heldSince) ELSE accrued
    BY <1>2 DEF ReadFreeze, InForce, hold
  <1>4. a \in Nat /\ a <= now /\ (h # None => /\ h \in Nat /\ h <= now /\ now <= h + 1
                                              /\ a <= h /\ (checked => h = now))
    BY <1>1, <1>3
  <1>5. budget'["freeze"] >= 1
    BY <1>1
  <1>6. ClockOK'
    <2>1. /\ now' = now /\ checked' = checked /\ now <= MaxTime /\ firstSeen' = firstSeen
          /\ spent' = spent /\ forgot' = forgot /\ forgot \in BOOLEAN /\ spent <= now
          /\ firstSeen # None => firstSeen \in Nat /\ firstSeen <= now
          /\ firstSeen = None => spent = 0
      BY DEF ClockOK, ghost
    <2> QED
      BY <1>1, <1>3, <1>4, <1>5, <2>1 DEF ClockOK
  <1>7. TimeCounted'
    <2>1. PICK off : off = a + (IF h = None THEN 0 ELSE now - h)
      OBVIOUS
    <2>2. GraceOffset' = off
      BY <1>3, <2>1 DEF GraceOffset
    <2>3. GraceOffset = off /\ off \in Nat
      BY <1>1, <1>2, <1>3, <1>4, <2>1 DEF GraceOffset
    <2>4. PICK cred : Credit' = cred /\ cred \in {0, 1, 2}
      BY DEF Credit
    <2>5. SUFFICES ASSUME firstSeen # None, ~forgot
                   PROVE  now + cred <= firstSeen + spent + off + 2 * (budget["freeze"] + 1)
      BY <2>2, <2>4 DEF TimeCounted, ghost
    <2>6. now + Credit <= firstSeen + spent + off + 2 * budget["freeze"]
      BY <2>3, <2>5 DEF TimeCounted
    <2>7. Credit \in Nat /\ firstSeen \in Nat
      BY <2>5 DEF Credit, ClockOK
    <2> QED
      BY <1>1, <2>3, <2>4, <2>6, <2>7
  <1> QED
    BY <1>6, <1>7

\* A tick is spent, held or paid for.
LEMMA TickKeeps ==
    ASSUME ClockOK, TimeCounted, BudgetOK, budget' = budget, checked, now < MaxTime,
           now' = now + 1, checked' = FALSE, UNCHANGED <<frozen, hold, firstSeen, forgot>>,
           spent' = IF firstSeen # None /\ ~InForce(frozen) THEN spent + 1 ELSE spent
    PROVE  ClockOK' /\ TimeCounted' /\ spent <= spent'
  <1>1. /\ now \in Nat /\ accrued \in Nat /\ accrued <= now /\ spent \in Nat /\ spent <= now
        /\ MaxTime \in Nat /\ budget["freeze"] \in Nat
        /\ frozen # None => frozen \in Nat
        /\ heldSince # None => heldSince \in Nat /\ heldSince = now /\ accrued <= heldSince
                               /\ budget["freeze"] >= 1
        /\ firstSeen # None => firstSeen \in Nat /\ firstSeen <= now
        /\ firstSeen = None => spent = 0
    BY ConstantsAssumption DEF ClockOK, BudgetOK, Kinds
  <1>2. PICK s : spent' = s /\ s = IF firstSeen # None /\ ~InForce(frozen) THEN spent + 1 ELSE spent
    OBVIOUS
  <1>3. /\ s \in Nat /\ s <= now + 1 /\ spent <= s /\ (firstSeen = None => s = 0)
        /\ now + 1 \in Nat /\ now + 1 <= MaxTime /\ accrued <= now + 1
        /\ heldSince # None => heldSince <= now + 1 /\ now + 1 <= heldSince + 1
        /\ firstSeen # None => firstSeen <= now + 1
    BY <1>1, <1>2
  <1>4. ClockOK'
    <2>1. frozen # None => frozen \in Nat /\ budget["freeze"] >= 1
      BY DEF ClockOK
    <2> QED
      BY <1>1, <1>2, <1>3, <2>1 DEF ClockOK, hold
  <1>5. TimeCounted'
    <2>1. SUFFICES ASSUME firstSeen # None, ~forgot
                   PROVE  (now + Credit <= firstSeen + spent + GraceOffset + 2 * budget["freeze"])'
      BY DEF TimeCounted
    <2>2. now + Credit <= firstSeen + spent + GraceOffset + 2 * budget["freeze"]
      BY <2>1 DEF TimeCounted
    <2>3. PICK off : off = accrued + (IF heldSince = None THEN 0 ELSE 1)
      OBVIOUS
    <2>4. /\ GraceOffset = accrued /\ off \in Nat
          /\ heldSince # None => now + 1 - heldSince = 1
      BY <1>1, <2>3 DEF GraceOffset
    <2>5. GraceOffset' = off
      <3>1. PICK n, h, a : /\ now' = n /\ n = now + 1
                           /\ heldSince' = h /\ h = heldSince
                           /\ accrued' = a /\ a = accrued
        BY DEF hold
      <3>2. GraceOffset' = a + (IF h = None THEN 0 ELSE n - h)
        BY <3>1 DEF GraceOffset
      <3>3. off = a + (IF h = None THEN 0 ELSE n - h)
        BY <1>1, <2>3, <2>4, <3>1
      <3> QED
        BY <3>2, <3>3
    <2>6. PICK cred : Credit' = cred /\ cred = IF heldSince # None THEN 1
                                               ELSE IF InForce(frozen)' THEN 1 ELSE 0
      BY DEF Credit, hold
    <2>7. InForce(frozen)' => InForce(frozen)
      BY <1>1 DEF InForce
    <2>8. now + 1 + cred <= firstSeen + s + off + 2 * budget["freeze"]
      <3>1. CASE heldSince # None
        <4>1. cred = 1 /\ Credit = 1 /\ off = accrued + 1
          BY <2>3, <2>6, <3>1 DEF Credit
        <4> QED
          BY <1>1, <1>3, <2>1, <2>2, <2>4, <4>1
      <3>2. CASE heldSince = None /\ InForce(frozen)
        <4>1. cred \in {0, 1} /\ Credit = 2 /\ off = accrued
          BY <1>1, <2>3, <2>6, <3>2 DEF Credit
        <4> QED
          BY <1>1, <1>3, <2>1, <2>2, <2>4, <4>1
      <3>3. CASE heldSince = None /\ ~InForce(frozen)
        <4>1. cred = 0 /\ Credit = 0 /\ off = accrued /\ s = spent + 1
          BY <1>1, <1>2, <2>1, <2>3, <2>6, <2>7, <3>3 DEF Credit
        <4> QED
          BY <1>1, <1>3, <2>1, <2>2, <2>4, <4>1
      <3> QED
        BY <3>1, <3>2, <3>3
    <2> QED
      BY <1>2, <2>5, <2>6, <2>8
  <1> QED
    BY <1>2, <1>3, <1>4, <1>5

\* The process forgets, and what was frozen stays so.
LEMMA CrashKeeps ==
    ASSUME ClockOK, BudgetOK, budget'["freeze"] = budget["freeze"],
           heldSince' = None, accrued' = 0, firstSeen' = None, spent' = 0, forgot' = FALSE,
           UNCHANGED <<now, checked, frozen>>
    PROVE  ClockOK' /\ TimeCounted'
  <1>1. 0 \in Nat /\ now \in Nat /\ 0 <= now
    BY DEF ClockOK
  <1>2. ClockOK'
    BY <1>1 DEF ClockOK
  <1> QED
    BY <1>2 DEF TimeCounted

\* A job is found to be an orphan now, and has spent nothing.
LEMMA SightKeeps ==
    ASSUME ClockOK, TimeCounted, BudgetOK, budget' = budget,
           firstSeen' = IF firstSeen = None THEN now ELSE firstSeen,
           UNCHANGED <<now, checked, frozen, heldSince, accrued, ghost>>
    PROVE  ClockOK' /\ TimeCounted'
  <1>1. now \in Nat /\ now # None /\ spent \in Nat /\ budget["freeze"] \in Nat
    BY ConstantsAssumption DEF ClockOK, BudgetOK, Kinds
  <1>2. PICK f : firstSeen' = f /\ f = IF firstSeen = None THEN now ELSE firstSeen
    OBVIOUS
  <1>3. f # None /\ f \in Nat /\ f <= now
    BY <1>1, <1>2 DEF ClockOK
  <1>4. ClockOK'
    BY <1>1, <1>2, <1>3 DEF ClockOK, ghost
  <1>5. PICK off : off = GraceOffset /\ GraceOffset' = off /\ off \in Nat
    BY DEF GraceOffset, ClockOK
  <1>6. PICK cred : cred = Credit /\ Credit' = cred
    BY DEF Credit, InForce
  <1>7. ~forgot => now + cred <= f + spent + off + 2 * budget["freeze"]
    <2>1. CASE firstSeen # None
      BY <1>2, <1>5, <1>6, <2>1 DEF TimeCounted
    <2>2. CASE firstSeen = None
      <3>1. f = now /\ spent = 0
        BY <1>2, <2>2 DEF ClockOK
      <3>2. cred \in {0, 1, 2} /\ (cred # 0 => budget["freeze"] >= 1)
        BY <1>6 DEF Credit, ClockOK, InForce
      <3> QED
        BY <1>1, <1>5, <3>1, <3>2
    <2> QED
      BY <2>1, <2>2
  <1>8. TimeCounted'
    BY <1>2, <1>5, <1>6, <1>7 DEF TimeCounted, ghost
  <1> QED
    BY <1>4, <1>8

\* A job is no orphan.
LEMMA UnsightKeeps ==
    ASSUME ClockOK, BudgetOK, budget' = budget, firstSeen' = None, spent' = 0, forgot' = FALSE,
           accrued' \in {0, accrued},
           UNCHANGED <<now, checked, frozen, heldSince>>
    PROVE  ClockOK' /\ TimeCounted'
  <1>1. PICK a : accrued' = a
    OBVIOUS
  <1>2. /\ a \in Nat /\ a <= now /\ now \in Nat /\ 0 <= now
        /\ heldSince # None => a <= heldSince
    BY <1>1 DEF ClockOK
  <1>3. ClockOK'
    BY <1>1, <1>2 DEF ClockOK
  <1> QED
    BY <1>3 DEF TimeCounted

-----------------------------------------------------------------------------
(* What the rest of a step leaves.                                         *)

\* The job table's index may move, at any time.
LEMMA SkipStays ==
    ASSUME SkipOK, RepoOK, Later, IndexMoves \/ UNCHANGED skip
    PROVE  SkipOK'
  <1>1. head \in Nat /\ head' \in Nat /\ head <= head' /\ lastCommit \in Nat /\ lastCommit <= head
    BY DEF RepoOK, Later, SkipOK
  <1>2. lastCommit' = lastCommit /\ busy' = busy
    BY DEF IndexMoves, skip
  <1>3. behind' \in BOOLEAN /\ clean' \in BOOLEAN
    BY DEF IndexMoves, skip, SkipOK
  <1>4. PICK l : l = lastCommit
    OBVIOUS
  <1>5. l <= head'
    BY <1>1, <1>4
  <1> QED
    BY <1>1, <1>2, <1>3, <1>4, <1>5 DEF SkipOK

\* A Check that stays where it is has waited no less.
LEMMA SameCheck ==
    ASSUME RepoOK, BudgetOK, Later, ClockOK, ClockOK', CheckOK(chk), Waited(chk), chk' = chk,
           spent <= spent', forgot => forgot'
    PROVE  CheckOK(chk)' /\ Waited(chk)'
  <1>1. PICK c : c = chk
    OBVIOUS
  <1>2. CheckOK(c)'
    BY <1>1, CheckLater
  <1>3. CheckOK(chk)'
    BY <1>1, <1>2
  <1>4. PICK s : spent' = s
    OBVIOUS
  <1>5. spent \in Nat /\ s \in Nat /\ spent <= s /\ Slack \in Nat /\ Grace \in Nat
    BY <1>4, ConstantsAssumption DEF ClockOK, Slack
  <1>6. spent + Slack >= Grace => s + Slack >= Grace
    BY <1>5
  <1>7. Waited(chk)'
    BY <1>4, <1>6 DEF Waited, Slack
  <1> QED
    BY <1>3, <1>7

\* A step outside the reconciler.
LEMMA OutsideStep ==
    ASSUME IInv, Later, LiveOK', SkipOK', ClockOK', TimeCounted', UNCHANGED <<updates, chk, ap>>,
           spent <= spent', forgot => forgot'
    PROVE  IInv'
  <1>1. CheckOK(chk)' /\ Waited(chk)'
    BY SameCheck DEF IInv
  <1>2. RowsOK' /\ ApplierOK'
    BY SameRows DEF IInv
  <1> QED
    BY <1>1, <1>2 DEF IInv, Later

\* A step of the Check that leaves the queue alone.
LEMMA CheckStepTurns ==
    ASSUME IInv, Later, SkipOK', ClockOK', TimeCounted', UNCHANGED <<live, updates, ap>>,
           NEW c, chk' = c, CheckOK(c), Waited(chk)'
    PROVE  IInv'
  <1>1. CheckOK(chk)'
    BY CheckTurns DEF IInv
  <1>2. RowsOK' /\ ApplierOK'
    BY SameRows DEF IInv
  <1>3. LiveOK'
    BY DEF IInv, LiveOK
  <1> QED
    BY <1>1, <1>2, <1>3 DEF IInv, Later

\* A step of the applier.
LEMMA ApplierTurns ==
    ASSUME IInv, Later, LiveOK', SkipOK', ClockOK', TimeCounted', RowsOK', ApplierOK',
           UNCHANGED <<chk, ghost>>
    PROVE  IInv'
  <1>1. spent \in Nat /\ spent' = spent /\ forgot' = forgot
    BY DEF IInv, ClockOK, ghost
  <1>2. spent <= spent'
    BY <1>1
  <1>3. CheckOK(chk)' /\ Waited(chk)'
    BY <1>1, <1>2, SameCheck DEF IInv
  <1> QED
    BY <1>3 DEF IInv, Later

\* A step in which nobody commits, and no parse that failed is undone.
LEMMA Stay ==
    ASSUME IInv, repo' = repo, NoFault \/ (\E kind : Fault(kind)) \/ Use("parse", MaxFaults)
                               \/ Use("edit", MaxEdits) \/ Use("crash", MaxCrashes)
    PROVE  Later /\ budget'["freeze"] = budget["freeze"]
  <1>1. BudgetOK' /\ budget'["freeze"] = budget["freeze"] /\ budget["parse"] <= budget'["parse"]
    BY FaultCounts DEF IInv
  <1> QED
    BY <1>1, SameRepo DEF IInv

-----------------------------------------------------------------------------
(* People and time.                                                        *)

\* A push: the commits there were stay, and the new one holds what it holds.
LEMMA CommitStep == ASSUME IInv, NEW spec \in Contents, Commit(spec) PROVE IInv'
  <1>1. /\ UNCHANGED <<now, checked, live, frozen, hold, firstSeen, skip, updates, chk, ap, ghost>>
        /\ budget' = budget
        /\ repo' = [c \in 1 .. (head + 1) |-> IF c <= head THEN repo[c] ELSE spec]
    BY DEF Commit
  <1>2. head \in Nat /\ head >= 1 /\ repo \in [1 .. head -> Contents]
    BY DEF IInv, RepoOK
  <1>3. PICK n : n = head
    OBVIOUS
  <1>4. /\ repo' \in [1 .. (n + 1) -> Contents]
        /\ \A c \in 1 .. n : repo'[c] = repo[c]
    BY <1>1, <1>2, <1>3
  <1>5. head' = n + 1
    <2>1. DOMAIN repo' = 1 .. (n + 1)
      BY <1>4
    <2>2. n + 1 \in Nat
      BY <1>2, <1>3
    <2>3. Cardinality(1 .. (n + 1)) = n + 1
      BY <2>2, FS_Interval
    <2> QED
      BY <2>1, <2>3 DEF head
  <1>6. RepoOK'
    <2>1. PICK m : m = n + 1 /\ head' = m
      BY <1>5
    <2>2. m \in Nat /\ m >= 1
      BY <1>2, <1>3, <2>1
    <2> QED
      BY <1>4, <2>1, <2>2 DEF RepoOK
  <1>7. BudgetOK' /\ budget'["parse"] = budget["parse"] /\ budget["parse"] \in Nat
    BY <1>1 DEF IInv, BudgetOK, Kinds
  <1>8. Later
    <2>1. PICK m : m = n + 1 /\ head' = m
      BY <1>5
    <2>2. head <= head'
      BY <1>2, <1>3, <2>1
    <2>3. budget["parse"] <= budget'["parse"]
      BY <1>7
    <2> QED
      BY <1>3, <1>4, <1>6, <1>7, <2>2, <2>3 DEF Later
  <1>9. ClockOK' /\ TimeCounted'
    BY <1>1, SameClock DEF IInv
  <1>10. SkipOK'
    BY <1>1, <1>8, SkipStays DEF IInv
  <1>11. LiveOK'
    BY <1>1 DEF IInv, LiveOK
  <1>12. spent' = spent /\ forgot' = forgot /\ spent \in Nat
    BY <1>1 DEF ghost, IInv, ClockOK
  <1>13. spent <= spent'
    BY <1>12
  <1> QED
    BY <1>1, <1>8, <1>9, <1>10, <1>11, <1>12, <1>13, OutsideStep

\* The job is retagged behind the reconciler's back.
LEMMA EditStep == ASSUME IInv, NEW tagged \in BOOLEAN, Edit(tagged) PROVE IInv'
  <1>1. /\ UNCHANGED <<now, checked, repo, frozen, hold, firstSeen, updates, chk, ap, ghost>>
        /\ Use("edit", MaxEdits) /\ IndexMoves
        /\ live' = [live EXCEPT !.tagged = tagged, !.idx = @ + 1]
    BY DEF Edit
  <1>2. Later /\ budget'["freeze"] = budget["freeze"]
    BY <1>1, Stay
  <1>3. ClockOK' /\ TimeCounted'
    BY <1>1, <1>2, SameClock DEF IInv
  <1>4. SkipOK'
    BY <1>1, <1>2, SkipStays DEF IInv
  <1>5. LiveOK'
    <2>1. PICK n \in Nat : n = live.idx + 1
      BY DEF IInv, LiveOK
    <2>2. live' = [live EXCEPT !.tagged = tagged, !.idx = n]
      BY <1>1, <2>1
    <2> QED
      BY <2>2 DEF IInv, LiveOK
  <1>6. spent' = spent /\ forgot' = forgot /\ spent \in Nat
    BY <1>1 DEF ghost, IInv, ClockOK
  <1>7. spent <= spent'
    BY <1>6
  <1> QED
    BY <1>1, <1>2, <1>3, <1>4, <1>5, <1>6, <1>7, OutsideStep

\* Some job's status changes.
LEMMA StatusStep == ASSUME IInv, StatusWrite PROVE IInv'
  <1>1. /\ UNCHANGED <<now, checked, repo, live, frozen, hold, firstSeen, updates, chk, ap, ghost>>
        /\ NoFault /\ IndexMoves
    BY DEF StatusWrite, NoFault
  <1>2. Later /\ budget'["freeze"] = budget["freeze"]
    BY <1>1, Stay
  <1>3. ClockOK' /\ TimeCounted'
    BY <1>1, <1>2, SameClock DEF IInv
  <1>4. SkipOK'
    BY <1>1, <1>2, SkipStays DEF IInv
  <1>5. LiveOK'
    BY <1>1 DEF IInv, LiveOK
  <1>6. spent' = spent /\ forgot' = forgot /\ spent \in Nat
    BY <1>1 DEF ghost, IInv, ClockOK
  <1>7. spent <= spent'
    BY <1>6
  <1> QED
    BY <1>1, <1>2, <1>3, <1>4, <1>5, <1>6, <1>7, OutsideStep

\* The job is frozen, for a while or for good, with or without a reading.
LEMMA FreezeStep ==
    ASSUME IInv, NEW expiry \in {t \in 1 .. QuietAfter + 1 : t > now} \cup {Never}, Freeze(expiry)
    PROVE  IInv'
  <1>1. /\ UNCHANGED <<now, checked, repo, live, firstSeen, skip, updates, chk, ap, ghost>>
        /\ Use("freeze", MaxFreezes) /\ frozen' = expiry
        /\ UNCHANGED hold \/ ReadFreeze(expiry, accrued)
    BY DEF Freeze
  <1>2. BudgetOK' /\ \A k \in Kinds :
                        budget'[k] = IF k = "freeze" THEN budget[k] + 1 ELSE budget[k]
    <2>1. "freeze" \in Kinds /\ MaxFreezes \in Nat /\ MaxFreezes <= MaxFreezes
      BY ConstantsAssumption DEF Kinds
    <2> QED
      BY <1>1, <2>1, UseCounts DEF IInv
  <1>3. budget'["freeze"] = budget["freeze"] + 1 /\ budget'["parse"] = budget["parse"]
        /\ budget["parse"] \in Nat
    BY <1>2 DEF Kinds, IInv, BudgetOK
  <1>4. Later
    <2>1. budget["parse"] <= budget'["parse"]
      BY <1>3
    <2> QED
      BY <1>1, <1>2, <2>1, SameRepo DEF IInv
  <1>5. expiry \in Nat /\ expiry > now
    <2>1. /\ now \in Nat /\ now <= MaxTime /\ MaxTime \in Nat /\ Never \in Nat /\ Never > MaxTime
          /\ QuietAfter \in Nat
      BY ConstantsAssumption DEF IInv, ClockOK
    <2> QED
      BY <2>1
  <1>6. ClockOK' /\ TimeCounted'
    BY <1>1, <1>3, <1>5, FreezeKeeps DEF IInv
  <1>7. SkipOK'
    BY <1>1, <1>4, SkipStays DEF IInv
  <1>8. LiveOK'
    BY <1>1 DEF IInv, LiveOK
  <1>9. spent' = spent /\ forgot' = forgot /\ spent \in Nat
    BY <1>1 DEF ghost, IInv, ClockOK
  <1>10. spent <= spent'
    BY <1>9
  <1> QED
    BY <1>1, <1>4, <1>6, <1>7, <1>8, <1>9, <1>10, OutsideStep

\* The record goes, unseen.
LEMMA PurgeStep == ASSUME IInv, Purge PROVE IInv'
  <1>1. /\ UNCHANGED <<now, checked, repo, live, hold, firstSeen, skip, updates, chk, ap, ghost>>
        /\ NoFault /\ frozen' = None
    BY DEF Purge, NoFault
  <1>2. Later /\ budget'["freeze"] = budget["freeze"]
    BY <1>1, Stay
  <1>3. ClockOK' /\ TimeCounted'
    BY <1>1, <1>2, LiftKeeps DEF IInv
  <1>4. SkipOK'
    BY <1>1, <1>2, SkipStays DEF IInv
  <1>5. LiveOK'
    BY <1>1 DEF IInv, LiveOK
  <1>6. spent' = spent /\ forgot' = forgot /\ spent \in Nat
    BY <1>1 DEF ghost, IInv, ClockOK
  <1>7. spent <= spent'
    BY <1>6
  <1> QED
    BY <1>1, <1>2, <1>3, <1>4, <1>5, <1>6, <1>7, OutsideStep

\* The job is thawed: what it accrued is cleared.
LEMMA ThawStep == ASSUME IInv, Thaw PROVE IInv'
  <1>1. /\ UNCHANGED <<now, checked, repo, live, firstSeen, skip, updates, chk, ap, spent>>
        /\ NoFault /\ frozen' = None /\ ReadFreeze(None, 0) /\ Forgets
    BY DEF Thaw, NoFault
  <1>2. Later /\ budget'["freeze"] = budget["freeze"]
    BY <1>1, Stay
  <1>3. ClockOK' /\ TimeCounted' /\ (forgot => forgot')
    BY <1>1, <1>2, ClearKeeps DEF IInv
  <1>4. SkipOK'
    BY <1>1, <1>2, SkipStays DEF IInv
  <1>5. LiveOK'
    BY <1>1 DEF IInv, LiveOK
  <1>6. spent' = spent /\ spent \in Nat
    BY <1>1 DEF IInv, ClockOK
  <1>7. spent <= spent'
    BY <1>6
  <1> QED
    BY <1>1, <1>2, <1>3, <1>4, <1>5, <1>7, OutsideStep

\* A diff interval passes.
LEMMA TickStep == ASSUME IInv, Tick PROVE IInv'
  <1>1. /\ UNCHANGED <<repo, live, frozen, hold, firstSeen, updates, chk, ap, forgot>>
        /\ now < MaxTime /\ checked /\ now' = now + 1 /\ checked' = FALSE
        /\ spent' = IF firstSeen # None /\ ~InForce(frozen) THEN spent + 1 ELSE spent
        /\ IndexMoves \/ UNCHANGED skip
        /\ NoFault /\ budget' = budget
    BY DEF Tick, NoFault
  <1>2. Later
    BY <1>1, Stay
  <1>3. ClockOK' /\ TimeCounted' /\ spent <= spent'
    BY <1>1, TickKeeps DEF IInv
  <1>4. SkipOK'
    BY <1>1, <1>2, SkipStays DEF IInv
  <1>5. LiveOK'
    BY <1>1 DEF IInv, LiveOK
  <1> QED
    BY <1>1, <1>2, <1>3, <1>4, <1>5, OutsideStep

\* An empty queue.
LEMMA NoRows ==
    ASSUME NEW rows, rows = [i \in {} |-> 0]
    PROVE  Numbered(rows) /\ DOMAIN rows = {} /\ InProgress(rows) = {}
  <1>1. DOMAIN rows = {}
    OBVIOUS
  <1>2. IsFiniteSet({}) /\ Cardinality({}) = 0
    BY FS_EmptySet
  <1>3. 1 .. 0 = {}
    OBVIOUS
  <1> QED
    BY <1>1, <1>2, <1>3 DEF Numbered, Table, InProgress

\* The process starts again.
LEMMA CrashStep == ASSUME IInv, Crash PROVE IInv'
  <1>1. /\ UNCHANGED <<now, checked, repo, live, frozen, busy>> /\ Use("crash", MaxCrashes)
        /\ heldSince' = None /\ accrued' = 0 /\ firstSeen' = None /\ spent' = 0
        /\ forgot' = FALSE /\ lastCommit' = 0 /\ behind' = TRUE /\ clean' = FALSE
        /\ updates' = [i \in {} |-> 0] /\ chk' = Idle /\ ap' = "idle"
    BY DEF Crash
  <1>2. Later /\ budget'["freeze"] = budget["freeze"]
    BY <1>1, Stay
  <1>3. ClockOK' /\ TimeCounted'
    BY <1>1, <1>2, CrashKeeps DEF IInv
  <1>4. SkipOK'
    <2>1. head' \in Nat
      BY <1>2 DEF Later, RepoOK
    <2>2. 0 \in Nat /\ 0 <= head'
      BY <2>1
    <2> QED
      BY <1>1, <2>2 DEF IInv, SkipOK
  <1>5. LiveOK'
    BY <1>1 DEF IInv, LiveOK
  <1>6. CheckOK(chk)' /\ Waited(chk)'
    <2>1. Waited(chk)'
      BY <1>1 DEF Waited, Idle
    <2>2. PICK c : c = Idle
      OBVIOUS
    <2>3. CheckOK(c)'
      BY <1>2, <2>2, IdleOK, CheckLater DEF IInv
    <2> QED
      BY <1>1, <2>1, <2>2, <2>3 DEF CheckOK
  <1>7. Numbered(updates') /\ DOMAIN updates' = {} /\ InProgress(updates') = {}
    BY <1>1, NoRows
  <1>8. RowsOK' /\ ApplierOK'
    BY <1>1, <1>7 DEF RowsOK, ApplierOK
  <1> QED
    BY <1>2, <1>3, <1>4, <1>5, <1>6, <1>8 DEF IInv, Later

-----------------------------------------------------------------------------
(* The Check.                                                              *)

\* refreshFreezes and purgeExpiredFreezes.
LEMMA RefreshKeeps ==
    ASSUME ClockOK, TimeCounted, BudgetOK, RefreshAndPurge, checked' = TRUE,
           budget'["freeze"] = budget["freeze"], UNCHANGED <<now, firstSeen, spent>>
    PROVE  ClockOK' /\ TimeCounted'
  <1>1. CASE Retention > 0 /\ frozen # None /\ now >= frozen + Retention
    <2>1. ReadFreeze(None, 0) /\ frozen' = None /\ Forgets
      BY <1>1 DEF RefreshAndPurge
    <2> QED
      BY <2>1, ClearKeeps
  <1>2. CASE ~(Retention > 0 /\ frozen # None /\ now >= frozen + Retention)
    <2>1. ReadFreeze(frozen, accrued) /\ UNCHANGED <<frozen, forgot>>
      BY <1>2 DEF RefreshAndPurge
    <2>2. UNCHANGED <<now, frozen, firstSeen, ghost>>
      BY <2>1 DEF ghost
    <2> QED
      BY <2>1, <2>2, ReadKeeps
  <1> QED
    BY <1>1, <1>2

\* The file as it is parsed at the branch's head.
LEMMA BeginStep == ASSUME IInv, BeginCheck PROVE IInv'
  <1>1. /\ UNCHANGED <<now, repo, live, firstSeen, busy, lastCommit, behind, updates, ap, spent>>
        /\ RefreshAndPurge /\ checked' = TRUE
    BY DEF BeginCheck
  <1>2. PICK listed \in BOOLEAN, parses \in BOOLEAN :
           /\ CASE listed /\ parses -> NoFault
                [] ~listed /\ parses -> Fault("list")
                [] listed /\ ~parses -> "parse" \in Faults /\ Early /\ Use("parse", MaxFaults)
                                        /\ repo[head] # Absent
                [] OTHER -> FALSE
           /\ IF listed /\ ~behind /\ lastCommit = head
              THEN chk' = Idle /\ UNCHANGED clean
              ELSE /\ LET parsed == IF parses THEN repo[head] ELSE Absent
                      IN  chk' = [pc |-> "decide", commit |-> head, parsed |-> parsed,
                                  listed |-> listed, token |-> 0, action |-> "none",
                                  orphan |-> Orphaned(listed, parsed)]
                   /\ clean' = IF listed THEN TRUE ELSE clean
    BY DEF BeginCheck
  <1>3. /\ NoFault \/ (\E kind : Fault(kind)) \/ Use("parse", MaxFaults)
        /\ ~parses => Use("parse", MaxFaults)
    BY <1>2
  <1>4. Later /\ budget'["freeze"] = budget["freeze"]
    BY <1>1, <1>3, Stay
  <1>5. ClockOK' /\ TimeCounted'
    BY <1>1, <1>4, RefreshKeeps DEF IInv
  <1>6. SkipOK'
    <2>1. head' = head /\ clean' \in BOOLEAN
      BY <1>1, <1>2 DEF head, IInv, SkipOK
    <2> QED
      BY <1>1, <2>1 DEF IInv, SkipOK
  <1>7. PICK c : c = chk'
    OBVIOUS
  <1>8. CASE listed /\ ~behind /\ lastCommit = head
    <2>1. c = Idle
      BY <1>2, <1>7, <1>8
    <2>2. CheckOK(c) /\ Waited(chk)'
      BY <1>7, <2>1, IdleOK DEF Waited, Idle
    <2> QED
      BY <1>1, <1>4, <1>5, <1>6, <1>7, <2>2, CheckStepTurns
  <1>9. CASE ~(listed /\ ~behind /\ lastCommit = head)
    <2>1. PICK p, o : /\ p = IF parses THEN repo[head] ELSE Absent
                      /\ o = Orphaned(listed, p)
                      /\ c = [pc |-> "decide", commit |-> head, parsed |-> p, listed |-> listed,
                              token |-> 0, action |-> "none", orphan |-> o]
      BY <1>2, <1>7, <1>9
    <2>2. /\ c.pc = "decide" /\ c.commit = head /\ c.parsed = p /\ c.listed = listed
          /\ c.action = "none" /\ c.orphan = o
      BY <2>1
    <2>3. head \in Nat /\ head >= 1 /\ head \in 1 .. head /\ repo[head] \in Contents
      BY DEF IInv, RepoOK
    <2>4. p \in Contents /\ Absent \in Contents /\ o \in BOOLEAN /\ (o => p = Absent)
      BY <2>1, <2>3 DEF Contents, Orphaned, Running, IInv, LiveOK
    <2>5. c \in CheckState
      <3>1. 0 \in Nat
        OBVIOUS
      <3> QED
        BY <2>1, <2>3, <2>4, <3>1 DEF CheckState, Actions
    <2>6. Waited(chk)'
      BY <1>7, <2>2 DEF Waited
    <2>7. CASE parses
      <3>1. CheckOK(c)
        BY <2>1, <2>2, <2>3, <2>4, <2>5, <2>7 DEF CheckOK
      <3> QED
        BY <1>1, <1>4, <1>5, <1>6, <1>7, <2>6, <3>1, CheckStepTurns
    <2>8. CASE ~parses
      <3>1. budget'["parse"] > 0
        <4>1. budget'["parse"] = budget["parse"] + 1 /\ budget["parse"] \in Nat
          BY <1>3, <2>8 DEF Use, IInv, BudgetOK, Kinds
        <4> QED
          BY <4>1
      <3>2. p = Absent
        BY <2>1, <2>8
      <3>3. head' = head /\ repo' = repo
        BY <1>1 DEF head
      <3>4. CheckOK(c)'
        BY <2>2, <2>3, <2>4, <2>5, <3>1, <3>2, <3>3 DEF CheckOK
      <3>5. CheckOK(chk)'
        BY <1>7, <3>4 DEF CheckOK
      <3>6. RowsOK' /\ ApplierOK'
        BY <1>1, <1>4, SameRows DEF IInv
      <3>7. LiveOK'
        BY <1>1 DEF IInv, LiveOK
      <3> QED
        BY <1>4, <1>5, <1>6, <2>6, <3>5, <3>6, <3>7 DEF IInv, Later
    <2> QED
      BY <2>7, <2>8
  <1> QED
    BY <1>8, <1>9

\* What was not held was spent, but for the ticks freezes cost.
LEMMA ElapsedIsWaited ==
    ASSUME IInv, heldSince = None, GraceElapsed, ~forgot
    PROVE  spent + Slack >= Grace
  <1>1. /\ now \in Nat /\ accrued \in Nat /\ spent \in Nat /\ firstSeen \in Nat /\ Grace \in Nat
        /\ budget["freeze"] \in Nat /\ budget["freeze"] <= MaxFreezes /\ MaxFreezes \in Nat
    BY ConstantsAssumption DEF IInv, ClockOK, BudgetOK, Kinds, GraceElapsed
  <1>2. PICK off : off = GraceOffset /\ off \in Nat
    BY <1>1 DEF GraceOffset
  <1>3. now - firstSeen - off >= Grace
    BY <1>2 DEF GraceElapsed
  <1>4. PICK cred : cred = Credit /\ cred \in {0, 1, 2}
    BY DEF Credit
  <1>5. now + cred <= firstSeen + spent + off + 2 * budget["freeze"]
    BY <1>2, <1>4 DEF GraceElapsed, IInv, TimeCounted
  <1> QED
    BY <1>1, <1>2, <1>3, <1>4, <1>5 DEF Slack

\* decideDeregisterAction and decideApplyAction.
LEMMA DecideStep == ASSUME IInv, Decide PROVE IInv'
  <1>1. /\ UNCHANGED <<now, checked, repo, live, frozen, hold, firstSeen, skip, updates, ap, ghost>>
        /\ chk.pc = "decide"
        /\ NoFault \/ (\E kind : Fault(kind))
    BY DEF Decide
  <1>2. Later /\ budget'["freeze"] = budget["freeze"]
    BY <1>1, Stay
  <1>3. ClockOK' /\ TimeCounted'
    BY <1>1, <1>2, SameClock DEF IInv
  <1>4. SkipOK'
    BY <1>1, <1>2, SkipStays DEF IInv
  <1>5. spent' = spent /\ forgot' = forgot /\ UNCHANGED <<live, updates, ap>>
    BY <1>1 DEF ghost
  <1>6. /\ chk \in CheckState /\ CheckOK(chk) /\ Waited(chk)
        /\ chk.orphan => chk.parsed = Absent
    BY DEF IInv, CheckOK
  <1>7. PICK c : c = chk'
    OBVIOUS
  <1>8. c \in CheckState /\ c.pc = "publish" /\ c.commit = chk.commit /\ c.parsed = chk.parsed
        /\ c.orphan = chk.orphan /\ c.listed = chk.listed
    BY <1>6, <1>7 DEF Decide, CheckState, Actions, IInv, LiveOK
  <1>9. CASE chk.orphan
    <2>1. c.action = CASE heldSince # None -> "blocked_frozen"
                       [] heldSince = None /\ ~GraceElapsed -> "deregister_pending_grace"
                       [] OTHER -> "queued_deregister"
      BY <1>6, <1>7, <1>9 DEF Decide, CheckState
    <2>2. c.action # "queued"
      BY <2>1
    <2>3. c.action = "queued_deregister" => heldSince = None /\ GraceElapsed
      BY <2>1
    <2>4. CheckOK(c)
      BY <1>1, <1>6, <1>8, <1>9, <2>2 DEF CheckOK
    <2>5. Waited(c)
      BY <2>3, ElapsedIsWaited DEF Waited
    <2>6. Waited(chk)'
      BY <1>5, <1>7, <2>5 DEF Waited, Slack
    <2> QED
      BY <1>2, <1>3, <1>4, <1>5, <1>7, <2>4, <2>6, CheckStepTurns
  <1>10. CASE ~chk.orphan
    <2>1. \/ c.action = IF chk.parsed \notin {Absent, Untagged, live.spec} /\ heldSince = None
                        THEN "queued" ELSE "none"
          \/ c.action = chk.action
      BY <1>6, <1>7, <1>10 DEF Decide, CheckState
    <2>2. /\ c.action = "queued" => c.parsed \in Specs
          /\ c.action # "queued_deregister"
      BY <1>6, <1>8, <1>10, <2>1 DEF CheckOK, CheckState, Contents
    <2>3. CheckOK(c)
      BY <1>1, <1>6, <1>8, <1>10, <2>2 DEF CheckOK
    <2>4. Waited(chk)'
      BY <1>7, <2>2 DEF Waited
    <2> QED
      BY <1>2, <1>3, <1>4, <1>5, <1>7, <2>3, <2>4, CheckStepTurns
  <1> QED
    BY <1>9, <1>10

\* commitResults.
LEMMA PublishStep == ASSUME IInv, Publish PROVE IInv'
  <1>1. /\ UNCHANGED <<now, checked, repo, live, frozen, heldSince, busy, updates, ap, budget>>
        /\ chk.pc = "publish" /\ lastCommit' = chk.commit
        /\ behind' = (IF chk.listed THEN ~clean ELSE behind) /\ clean' = FALSE
        /\ chk' = IF chk.action \in {"queued", "queued_deregister"}
                  THEN [chk EXCEPT !.pc = "enqueue"] ELSE Idle
        /\ NoFault
    BY DEF Publish, NoFault
  <1>2. Later
    BY <1>1, Stay
  <1>3. /\ chk \in CheckState /\ CheckOK(chk) /\ Waited(chk)
        /\ chk.action = "queued_deregister" => chk.orphan
        /\ chk.commit \in 1 .. head /\ head \in Nat
    BY <1>1 DEF IInv, CheckOK, RepoOK
  <1>4. SkipOK'
    <2>1. behind' \in BOOLEAN /\ clean' \in BOOLEAN
      BY <1>1 DEF IInv, SkipOK
    <2>2. chk.commit \in Nat /\ chk.commit <= head /\ head' = head
      BY <1>1, <1>3 DEF head
    <2> QED
      BY <1>1, <2>1, <2>2 DEF IInv, SkipOK
  <1>5. PICK c : c = chk'
    OBVIOUS
  <1>6. /\ CheckOK(c)
        /\ c.action \in {"none", chk.action}
    <2>1. CASE c = Idle
      BY <2>1, IdleOK DEF Idle
    <2>2. CASE c = [chk EXCEPT !.pc = "enqueue"] /\ chk.action \in {"queued", "queued_deregister"}
      <3>1. /\ c \in CheckState /\ c.pc = "enqueue" /\ c.commit = chk.commit
            /\ c.parsed = chk.parsed /\ c.orphan = chk.orphan /\ c.action = chk.action
        BY <1>3, <2>2 DEF CheckState
      <3> QED
        BY <1>1, <1>3, <2>2, <3>1 DEF CheckOK
    <2> QED
      BY <1>1, <1>5, <2>1, <2>2
  <1>7. CASE chk.orphan
    <2>1. /\ firstSeen' = IF firstSeen = None THEN now ELSE firstSeen
          /\ accrued' = accrued /\ spent' = spent /\ forgot' = forgot
      BY <1>7 DEF Publish, ghost
    <2>2. ClockOK' /\ TimeCounted'
      BY <1>1, <2>1, SightKeeps DEF IInv, ghost
    <2>3. Waited(chk)'
      BY <1>3, <1>5, <1>6, <2>1 DEF Waited, Slack
    <2> QED
      BY <1>1, <1>2, <1>4, <1>5, <1>6, <2>2, <2>3, CheckStepTurns
  <1>8. CASE ~chk.orphan
    <2>1. firstSeen' = None /\ spent' = 0 /\ forgot' = FALSE /\ accrued' \in {0, accrued}
      BY <1>8 DEF Publish
    <2>2. ClockOK' /\ TimeCounted'
      BY <1>1, <2>1, UnsightKeeps DEF IInv
    <2>3. Waited(chk)'
      BY <1>3, <1>5, <1>6, <1>8 DEF Waited
    <2> QED
      BY <1>1, <1>2, <1>4, <1>5, <1>6, <2>2, <2>3, CheckStepTurns
  <1> QED
    BY <1>7, <1>8

\* What a Check enqueues is right about its commit.
LEMMA IntentOK ==
    ASSUME IInv, chk.pc = "enqueue"
    PROVE  RowOK(Intent)
  <1>1. PICK u : u = Intent
    OBVIOUS
  <1>2. /\ u.ref = chk.commit /\ u.body = [spec |-> chk.parsed, token |-> chk.token]
        /\ u.op = IF chk.action = "queued" THEN "REGISTER" ELSE "DEREGISTER"
    BY <1>1 DEF Intent
  <1>3. /\ chk.commit \in 1 .. head
        /\ chk.parsed = repo[chk.commit] \/ (chk.parsed = Absent /\ budget["parse"] > 0)
        /\ chk.orphan => chk.parsed = Absent
        /\ chk.action = "queued" => chk.parsed \in Specs
        /\ chk.action \in {"queued", "queued_deregister"}
        /\ chk.action = "queued_deregister" => chk.orphan
        /\ chk.token \in Nat
    BY DEF IInv, CheckOK, CheckState
  <1>4. RowOK(u)
    BY <1>2, <1>3, ConstantsAssumption DEF RowOK
  <1> QED
    BY <1>1, <1>4

\* UpdateQueue.Enqueue: a waiting row of the same UpdateID keeps its operation
\* and takes the body, which is right about the same commit.
LEMMA EnqueueStep == ASSUME IInv, EnqueueUpdate PROVE IInv'
  <1>1. /\ UNCHANGED <<now, checked, repo, live, frozen, hold, firstSeen, skip, ap, ghost, budget>>
        /\ chk.pc = "enqueue" /\ chk' = Idle /\ NoFault
        /\ updates' = Appended(updates, Intent)
    BY DEF EnqueueUpdate, NoFault
  <1>2. Later /\ budget'["freeze"] = budget["freeze"]
    BY <1>1, Stay
  <1>3. ClockOK' /\ TimeCounted'
    BY <1>1, <1>2, SameClock DEF IInv
  <1>4. SkipOK'
    BY <1>1, <1>2, SkipStays DEF IInv
  <1>5. LiveOK'
    BY <1>1 DEF IInv, LiveOK
  <1>6. PICK u, rows, new : u = Intent /\ rows = updates /\ new = updates'
    OBVIOUS
  <1>7. RowOK(u) /\ Numbered(rows) /\ new = Appended(rows, u) /\ \A i \in DOMAIN rows : RowOK(rows[i])
    BY <1>1, <1>6, IntentOK DEF IInv, RowsOK
  <1>8. /\ Numbered(new)
        /\ \A i \in DOMAIN new :
              \/ \E k \in DOMAIN rows : Carries(new[i], rows[k])
              \/ /\ new[i].body = u.body
                 /\ \E k \in DOMAIN rows :
                       /\ new[i].job = rows[k].job /\ rows[k].job = u.job
                       /\ new[i].ref = rows[k].ref /\ rows[k].ref = u.ref
                       /\ new[i].op = rows[k].op
              \/ Carries(new[i], u)
        /\ SameInFlight(new, rows)
    BY <1>7, AppendedRows
  <1>9. RowsOK'
    <2>1. ASSUME NEW i \in DOMAIN new
          PROVE  RowOK(new[i]) \/ \E k \in DOMAIN updates : Carries(new[i], updates[k])
      <3>1. CASE \E k \in DOMAIN rows : Carries(new[i], rows[k])
        BY <1>6, <3>1
      <3>2. CASE Carries(new[i], u)
        BY <1>7, <3>2 DEF RowOK, Carries
      <3>3. CASE /\ new[i].body = u.body
                 /\ \E k \in DOMAIN rows :
                       /\ new[i].job = rows[k].job /\ rows[k].job = u.job
                       /\ new[i].ref = rows[k].ref /\ rows[k].ref = u.ref
                       /\ new[i].op = rows[k].op
        BY <1>7, <3>3 DEF RowOK
      <3> QED
        BY <1>8, <3>1, <3>2, <3>3
    <2> QED
      BY <1>2, <1>6, <1>8, <2>1, RowsLater DEF IInv
  <1>10. ApplierOK'
    <2>1. ap' = ap /\ OpOf[ap'] = OpOf[ap] /\ ap \in {"idle", "register", "recheck", "deregister"}
      BY <1>1 DEF IInv, ApplierOK
    <2>2. CASE ap = "idle"
      <3>1. InProgress(new) = {}
        BY <1>6, <1>8, <2>2 DEF IInv, ApplierOK, SameInFlight
      <3> QED
        BY <1>6, <2>1, <2>2, <3>1 DEF ApplierOK
    <2>3. CASE ap # "idle"
      <3>1. PICK k \in DOMAIN rows : InProgress(rows) = {k} /\ rows[k].op = OpOf[ap]
        BY <1>6, <2>3 DEF IInv, ApplierOK
      <3>2. PICK i : InProgress(new) = {i} /\ new[i] = rows[k]
        BY <1>8, <3>1 DEF SameInFlight
      <3>3. i \in DOMAIN new
        BY <3>2 DEF InProgress
      <3> QED
        BY <1>6, <2>1, <2>3, <3>1, <3>2, <3>3 DEF ApplierOK
    <2> QED
      BY <2>2, <2>3
  <1>11. CheckOK(chk)' /\ Waited(chk)'
    <2>1. Waited(chk)'
      BY <1>1 DEF Waited, Idle
    <2>2. PICK c : c = Idle
      OBVIOUS
    <2>3. CheckOK(chk)'
      BY <1>1, <1>2, <2>2, IdleOK, CheckTurns DEF IInv
    <2> QED
      BY <2>1, <2>3
  <1> QED
    BY <1>2, <1>3, <1>4, <1>5, <1>9, <1>10, <1>11 DEF IInv, Later

-----------------------------------------------------------------------------
(* The applier.                                                            *)

\* The row in flight is the one there is.
LEMMA InFlight ==
    ASSUME IInv, ap # "idle"
    PROVE  \E i \in DOMAIN updates :
              /\ InProgress(updates) = {i} /\ Row = updates[i] /\ RowOK(Row)
              /\ Row.op = OpOf[ap]
  <1>1. PICK i \in DOMAIN updates : InProgress(updates) = {i} /\ updates[i].op = OpOf[ap]
    BY DEF IInv, ApplierOK
  <1>2. Row = updates[i]
    BY <1>1 DEF Row
  <1> QED
    BY <1>1, <1>2 DEF IInv, RowsOK

\* NextPending and the freeze gate.
LEMMA TakeStep == ASSUME IInv, Take PROVE IInv'
  <1>1. /\ UNCHANGED <<now, checked, repo, live, frozen, firstSeen, skip, chk, ghost, budget>>
        /\ ap = "idle" /\ NoFault /\ ReadFreeze(frozen, accrued)
    BY DEF Take, NoFault
  <1>2. PICK i \in First(Pending(updates)) :
           LET taken == MarkInProgress(updates, i)
           IN  IF InForce(frozen)
               THEN updates' = Renumbered(Complete(taken, taken[i], "HELD")) /\ UNCHANGED ap
               ELSE /\ updates' = taken
                    /\ ap' = IF taken[i].op = "REGISTER" THEN "register" ELSE "recheck"
    BY DEF Take
  <1>3. Later /\ budget'["freeze"] = budget["freeze"]
    BY <1>1, Stay
  <1>4. ClockOK' /\ TimeCounted'
    BY <1>1, <1>3, ReadKeeps DEF IInv
  <1>5. SkipOK'
    BY <1>1, <1>3, SkipStays DEF IInv
  <1>6. LiveOK'
    BY <1>1 DEF IInv, LiveOK
  <1>7. PICK rows, taken, new : rows = updates /\ taken = MarkInProgress(rows, i) /\ new = updates'
    OBVIOUS
  <1>8. i \in Pending(rows) /\ Numbered(rows) /\ InProgress(rows) = {}
        /\ \A k \in DOMAIN rows : RowOK(rows[k])
    BY <1>1, <1>2, <1>7 DEF First, IInv, RowsOK, ApplierOK
  <1>9. /\ Numbered(taken)
        /\ DOMAIN taken = DOMAIN rows
        /\ \A k \in DOMAIN taken : Carries(taken[k], rows[k])
        /\ InProgress(taken) = {i}
    BY <1>7, <1>8, MarkedRows
  <1>10. i \in DOMAIN taken /\ taken[i].op \in {"REGISTER", "DEREGISTER"}
    BY <1>8, <1>9 DEF InProgress, Carries, RowOK
  <1>11. CASE InForce(frozen)
    <2>1. new = Renumbered(Complete(taken, taken[i], "HELD")) /\ ap' = ap
      BY <1>2, <1>7, <1>11
    <2>2. "HELD" \in TerminalStatus /\ Table(taken)
      BY <1>9 DEF TerminalStatus, Numbered
    <2>3. /\ Numbered(new)
          /\ \A k \in DOMAIN new : \E m \in DOMAIN taken : Carries(new[k], taken[m])
          /\ InProgress(new) = {}
      BY <1>9, <2>1, <2>2, CompletedRows
    <2>4. \A k \in DOMAIN new : \E m \in DOMAIN updates : Carries(new[k], updates[m])
      BY <1>7, <1>9, <2>3 DEF Carries
    <2>5. RowsOK'
      BY <1>3, <1>7, <2>3, <2>4, RowsLater DEF IInv
    <2>6. ApplierOK'
      BY <1>1, <1>7, <2>1, <2>3 DEF ApplierOK
    <2> QED
      BY <1>1, <1>3, <1>4, <1>5, <1>6, <2>5, <2>6, ApplierTurns
  <1>12. CASE ~InForce(frozen)
    <2>1. new = taken /\ ap' = IF taken[i].op = "REGISTER" THEN "register" ELSE "recheck"
      BY <1>2, <1>7, <1>12
    <2>2. \A k \in DOMAIN new : \E m \in DOMAIN updates : Carries(new[k], updates[m])
      BY <1>7, <1>9, <2>1
    <2>3. RowsOK'
      BY <1>3, <1>7, <1>9, <2>1, <2>2, RowsLater DEF IInv
    <2>4. OpOf[ap'] = taken[i].op /\ ap' \in {"register", "recheck"}
      BY <1>10, <2>1 DEF OpOf
    <2>5. ApplierOK'
      BY <1>7, <1>9, <1>10, <2>1, <2>4 DEF ApplierOK
    <2> QED
      BY <1>1, <1>3, <1>4, <1>5, <1>6, <2>3, <2>5, ApplierTurns
  <1> QED
    BY <1>11, <1>12

\* completeUpdate: the applier is free, and the queue holds what it did.
LEMMA CompletesStep ==
    ASSUME IInv, ap # "idle", NEW outcome \in {"SUCCEEDED", "FAILED"}, Completes(outcome),
           NoFault \/ (\E kind : Fault(kind)), LiveOK', SkipOK'
    PROVE  IInv'
  <1>1. /\ UNCHANGED <<now, checked, repo, frozen, hold, firstSeen, chk, ghost>>
        /\ updates' = Renumbered(Complete(updates, Row, outcome)) /\ ap' = "idle"
    BY DEF Completes
  <1>2. Later /\ budget'["freeze"] = budget["freeze"]
    BY <1>1, Stay
  <1>3. ClockOK' /\ TimeCounted'
    BY <1>1, <1>2, SameClock DEF IInv
  <1>4. PICK i \in DOMAIN updates : InProgress(updates) = {i} /\ Row = updates[i]
    BY InFlight
  <1>5. PICK rows, new : rows = updates /\ new = updates'
    OBVIOUS
  <1>6. /\ Table(rows) /\ InProgress(rows) = {i} /\ outcome \in TerminalStatus
        /\ new = Renumbered(Complete(rows, rows[i], outcome))
    BY <1>1, <1>4, <1>5 DEF IInv, RowsOK, Numbered, TerminalStatus
  <1>7. /\ Numbered(new)
        /\ \A k \in DOMAIN new : \E m \in DOMAIN rows : Carries(new[k], rows[m])
        /\ InProgress(new) = {}
    BY <1>6, CompletedRows
  <1>8. RowsOK'
    BY <1>2, <1>5, <1>7, RowsLater DEF IInv
  <1>9. ApplierOK'
    BY <1>1, <1>5, <1>7 DEF ApplierOK
  <1> QED
    BY <1>1, <1>2, <1>3, <1>8, <1>9, ApplierTurns

\* A failure, with invalidateSkip.
LEMMA FailsStep ==
    ASSUME IInv, ap # "idle", Fails, NoFault \/ (\E kind : Fault(kind))
    PROVE  IInv'
  <1>1. Completes("FAILED") /\ behind' = TRUE /\ UNCHANGED <<live, busy, lastCommit, clean, repo>>
    BY DEF Fails, Completes
  <1>2. LiveOK'
    BY <1>1 DEF IInv, LiveOK
  <1>3. SkipOK'
    BY <1>1 DEF IInv, SkipOK, head
  <1> QED
    BY <1>1, <1>2, <1>3, CompletesStep

\* An end that moves the job table's index or does not.
LEMMA EndsStep ==
    ASSUME IInv, ap # "idle", NEW outcome \in {"SUCCEEDED", "FAILED"}, Completes(outcome),
           NoFault \/ (\E kind : Fault(kind)), LiveOK', IndexMoves \/ UNCHANGED skip
    PROVE  IInv'
  <1>1. repo' = repo
    BY DEF Completes
  <1>2. SkipOK'
    BY <1>1, Stay, SkipStays DEF IInv
  <1> QED
    BY <1>2, CompletesStep

\* The applier looks at the job again before it removes it.
LEMMA RecheckStep == ASSUME IInv, Recheck PROVE IInv'
  <1>1. ap = "recheck" /\ ap # "idle"
    BY DEF Recheck
  <1>2. CASE NoFault /\ Completes("SUCCEEDED") /\ UNCHANGED <<live, skip>>
    <2>1. LiveOK'
      BY <1>2 DEF IInv, LiveOK
    <2> QED
      BY <1>1, <1>2, <2>1, EndsStep
  <1>3. CASE Fails /\ (NoFault \/ Fault("info"))
    BY <1>1, <1>3, FailsStep
  <1>4. CASE /\ NoFault
             /\ ap' = "deregister"
             /\ UNCHANGED <<now, checked, repo, live, frozen, hold, firstSeen, skip, updates, chk,
                            ghost>>
    <2>1. Later /\ budget'["freeze"] = budget["freeze"]
      BY <1>4, Stay
    <2>2. ClockOK' /\ TimeCounted'
      BY <1>4, <2>1, SameClock DEF IInv
    <2>3. SkipOK'
      BY <1>4, <2>1, SkipStays DEF IInv
    <2>4. LiveOK'
      BY <1>4 DEF IInv, LiveOK
    <2>5. PICK rows : rows = updates /\ updates' = rows
      BY <1>4
    <2>6. RowsOK'
      <3>1. \A k \in DOMAIN rows : \E m \in DOMAIN updates : Carries(rows[k], updates[m])
        BY <2>5 DEF Carries
      <3> QED
        BY <2>1, <2>5, <3>1, RowsLater DEF IInv, RowsOK
    <2>7. ApplierOK'
      BY <1>1, <1>4, <2>5 DEF IInv, ApplierOK, OpOf
    <2> QED
      BY <1>4, <2>1, <2>2, <2>3, <2>4, <2>6, <2>7, ApplierTurns
  <1> QED
    BY <1>2, <1>3, <1>4 DEF Recheck

\* The job goes, and its index moves.
LEMMA GoneIsLive == ASSUME LiveOK, Goes PROVE LiveOK' /\ live'.spec = Absent
  <1>1. PICK n \in Nat : n = live.idx + 1
    BY DEF LiveOK
  <1>2. live' = [live EXCEPT !.spec = Absent, !.idx = n]
    BY <1>1 DEF Goes
  <1> QED
    BY <1>2 DEF LiveOK

\* Jobs().Deregister.
LEMMA DeregisterStep == ASSUME IInv, Deregister PROVE IInv'
  <1>1. ap # "idle"
    BY DEF Deregister
  <1>2. CASE Fault("deregister") /\ Fails
    BY <1>1, <1>2, FailsStep
  <1>3. ASSUME NEW outcome \in {"SUCCEEDED", "FAILED"}, Completes(outcome), Goes,
               NoFault \/ Fault("deregister")
        PROVE  IInv'
    <2>1. LiveOK' /\ IndexMoves
      BY <1>3, GoneIsLive DEF IInv, Goes
    <2> QED
      BY <1>1, <1>3, <2>1, EndsStep
  <1> QED
    BY <1>2, <1>3 DEF Deregister

\* Jobs().RegisterOpts, of what the row in flight holds.
LEMMA RegisterStep == ASSUME IInv, Register PROVE IInv'
  <1>1. ap # "idle"
    BY DEF Register
  <1>2. CASE Fails /\ (NoFault \/ Fault("register"))
    BY <1>1, <1>2, FailsStep
  <1>3. ASSUME NEW outcome \in {"SUCCEEDED", "FAILED"}, Completes(outcome), NoFault,
               UNCHANGED <<live, skip>>
        PROVE  IInv'
    <2>1. LiveOK'
      BY <1>3 DEF IInv, LiveOK
    <2> QED
      BY <1>1, <1>3, <2>1, EndsStep
  <1>4. CASE /\ NoFault /\ Completes("SUCCEEDED") /\ IndexMoves
             /\ live' = [spec |-> Row.body.spec, tagged |-> TRUE, idx |-> live.idx + 1]
    <2>1. Row.body.spec \in Specs \cup {Absent}
      BY <1>1, InFlight DEF RowOK
    <2>2. PICK n \in Nat : n = live.idx
      BY DEF IInv, LiveOK
    <2>3. live' = [spec |-> Row.body.spec, tagged |-> TRUE, idx |-> n + 1]
      BY <1>4, <2>2
    <2>4. LiveOK'
      <3>1. PICK x \in Specs \cup {Absent} : x = Row.body.spec
        BY <2>1
      <3>2. n + 1 \in Nat /\ TRUE \in BOOLEAN
        OBVIOUS
      <3> QED
        BY <2>3, <3>1, <3>2 DEF LiveOK
    <2> QED
      BY <1>1, <1>4, <2>4, EndsStep
  <1> QED
    BY <1>2, <1>3, <1>4 DEF Register

-----------------------------------------------------------------------------
(* The invariant holds, and what follows.                                  *)

\* The process starts with what Nomad runs, an empty queue and no hold.
LEMMA InitIInv == Init => IInv
  <1> SUFFICES ASSUME Init
               PROVE  IInv
    OBVIOUS
  <1>1. /\ now = 0 /\ checked = FALSE /\ repo \in [{1} -> Specs]
        /\ live \in [spec : Specs \cup {Absent}, tagged : {TRUE}, idx : {0}]
        /\ frozen = None /\ heldSince = None /\ accrued = 0 /\ firstSeen = None
        /\ busy \in BOOLEAN /\ lastCommit = 0 /\ behind = TRUE /\ clean = FALSE
        /\ updates = [i \in {} |-> 0] /\ chk = Idle /\ ap = "idle"
        /\ spent = 0 /\ forgot = FALSE
        /\ budget = [kind \in {"edit", "freeze", "fault", "parse", "crash"} |-> 0]
    BY DEF Init, NoBudgetUsed
  <1>2. 0 \in Nat /\ 1 \in Nat /\ MaxTime \in Nat /\ MaxFreezes \in Nat /\ 0 <= MaxTime
        /\ 0 <= MaxFreezes /\ 0 <= 0 /\ 0 <= 1 /\ 1 >= 1
    BY ConstantsAssumption
  <1>3. BudgetOK
    BY <1>1, <1>2 DEF BudgetOK, Kinds
  <1>4. head = 1
    <2>1. DOMAIN repo = {1}
      BY <1>1
    <2> QED
      BY <2>1, FS_Singleton DEF head
  <1>5. RepoOK
    <2>1. 1 .. 1 = {1}
      OBVIOUS
    <2>2. repo \in [{1} -> Contents]
      BY <1>1 DEF Contents
    <2> QED
      BY <1>2, <1>4, <2>1, <2>2 DEF RepoOK
  <1>6. LiveOK
    BY <1>1, <1>2 DEF LiveOK
  <1>7. SkipOK
    BY <1>1, <1>2, <1>4 DEF SkipOK
  <1>8. ClockOK
    BY <1>1, <1>2 DEF ClockOK
  <1>9. TimeCounted
    BY <1>1 DEF TimeCounted
  <1>10. CheckOK(chk) /\ Waited(chk)
    BY <1>1, IdleOK
  <1>11. RowsOK /\ ApplierOK
    <2>1. Numbered(updates) /\ DOMAIN updates = {} /\ InProgress(updates) = {}
      BY <1>1, NoRows
    <2> QED
      BY <1>1, <2>1 DEF RowsOK, ApplierOK
  <1> QED
    BY <1>3, <1>5, <1>6, <1>7, <1>8, <1>9, <1>10, <1>11 DEF IInv

\* Every step keeps it.
LEMMA NextIInv == IInv /\ [Next]_vars => IInv'
  <1> SUFFICES ASSUME IInv, [Next]_vars
               PROVE  IInv'
    OBVIOUS
  <1>1. CASE UNCHANGED vars
    <2>1. /\ UNCHANGED <<now, checked, repo, live, frozen, hold, firstSeen, skip, updates, chk, ap,
                         ghost>>
          /\ NoFault
      BY <1>1 DEF vars, NoFault
    <2>2. Later /\ budget'["freeze"] = budget["freeze"]
      BY <2>1, Stay
    <2>3. ClockOK' /\ TimeCounted'
      BY <2>1, <2>2, SameClock DEF IInv
    <2>4. SkipOK'
      BY <2>1, <2>2, SkipStays DEF IInv
    <2>5. LiveOK'
      BY <2>1 DEF IInv, LiveOK
    <2>6. spent' = spent /\ forgot' = forgot /\ spent \in Nat
      BY <2>1 DEF ghost, IInv, ClockOK
    <2>7. spent <= spent'
      BY <2>6
    <2> QED
      BY <2>1, <2>2, <2>3, <2>4, <2>5, <2>6, <2>7, OutsideStep
  <1>2. CASE CheckStep
    BY <1>2, BeginStep, DecideStep, PublishStep, EnqueueStep DEF CheckStep
  <1>3. CASE ApplierStep
    BY <1>3, TakeStep, RecheckStep, DeregisterStep, RegisterStep DEF ApplierStep
  <1>4. CASE \E spec \in Specs \cup {Absent, Untagged} : Commit(spec)
    BY <1>4, CommitStep DEF Contents
  <1>5. CASE \E tagged \in BOOLEAN : Edit(tagged)
    BY <1>5, EditStep
  <1>6. CASE \E expiry \in {t \in 1 .. QuietAfter + 1 : t > now} \cup {Never} : Freeze(expiry)
    BY <1>6, FreezeStep
  <1>7. CASE Purge \/ Thaw \/ StatusWrite \/ Tick \/ Crash
    BY <1>7, PurgeStep, ThawStep, StatusStep, TickStep, CrashStep
  <1> QED
    BY <1>1, <1>2, <1>3, <1>4, <1>5, <1>6, <1>7 DEF Next

\* The inductive invariant.
LEMMA InvariantIInv == Spec => []IInv
  BY InitIInv, NextIInv, PTL DEF Spec

\* Times that are remembered are past, no hold accrues more than time, and the
\* queue has a row in flight exactly while the applier works on one
\* (freeze.go, differ.go:2093, applier.go).
THEOREM TypeCorrect == Spec => []TypeOK
  <1>1. IInv => TypeOK
    <2> SUFFICES ASSUME IInv
                 PROVE  TypeOK
      OBVIOUS
    <2>1. /\ now \in Nat /\ now <= MaxTime /\ MaxTime \in Nat
          /\ heldSince # None => heldSince \in Nat /\ heldSince <= now
          /\ firstSeen # None => firstSeen \in Nat /\ firstSeen <= now
          /\ accrued \in Nat /\ accrued <= now /\ spent \in Nat /\ spent <= now
          /\ lastCommit \in Nat /\ lastCommit <= head /\ head \in Nat
      BY ConstantsAssumption DEF IInv, ClockOK, SkipOK, RepoOK
    <2>2. Cardinality(InProgress(updates)) = IF ap = "idle" THEN 0 ELSE 1
      <3>1. CASE ap = "idle"
        BY <3>1, FS_EmptySet DEF IInv, ApplierOK
      <3>2. CASE ap # "idle"
        BY <3>2, FS_Singleton DEF IInv, ApplierOK
      <3> QED
        BY <3>1, <3>2
    <2>3. live.spec \in Specs \cup {Absent}
      BY DEF IInv, LiveOK
    <2>4. /\ now \in 0 .. MaxTime
          /\ heldSince \in 0 .. now \cup {None}
          /\ firstSeen \in 0 .. now \cup {None}
          /\ accrued \in 0 .. now /\ lastCommit \in 0 .. head /\ spent \in 0 .. now
      BY <2>1
    <2> QED
      BY <2>2, <2>3, <2>4 DEF TypeOK
  <1> QED
    BY <1>1, InvariantIInv, PTL

\* A job is not due for deregistration before it has been an orphan, and free,
\* for the grace period less the two intervals each freeze may cost, whatever
\* freezes, expiries, purges, edits, faults and crashes came between
\* (graceOffset, orphanGraceElapsed: freeze.go:552).
THEOREM GraceIsWaited == Spec => []GraceHeld
  <1>1. IInv => GraceHeld
    BY DEF IInv, Waited, GraceHeld
  <1> QED
    BY <1>1, InvariantIInv, PTL

\* A job that leaves Nomad by the applier's hand was gone from the repository
\* at the commit its update was queued for, unless a parse has failed: no
\* refresh, supersession, retry, retag or crash turns a row about a file
\* that is there into one that removes the job (update.go, applier.go).
THEOREM OnlyOrphansGo == Spec => OnlyRemovedFromRepo
  <1>1. IInv /\ [Next]_vars => [Removed /\ budget["parse"] = 0 => repo[Row.ref] = Absent]_vars
    <2> SUFFICES ASSUME IInv, Next, Removed, budget["parse"] = 0
                 PROVE  repo[Row.ref] = Absent
      BY DEF vars
    <2>1. live.spec # Absent /\ live'.spec = Absent
      BY DEF Removed
    <2>2. ~(live' = live)
      BY <2>1
    <2>3. Deregister
      <3>1. ASSUME NEW tagged, Edit(tagged)
            PROVE  FALSE
        BY <2>1, <3>1 DEF Edit, IInv, LiveOK
      <3>2. ~CheckStep /\ ~Take /\ ~Recheck
        BY <2>2 DEF CheckStep, BeginCheck, Decide, Publish, EnqueueUpdate, Take, Recheck, Completes,
                    Fails
      <3>3. ~Register
        BY <2>1, <2>2 DEF Register, Fails
      <3>4. /\ \A spec : ~Commit(spec)
            /\ \A expiry : ~Freeze(expiry)
            /\ ~Purge /\ ~Thaw /\ ~StatusWrite /\ ~Tick /\ ~Crash
        BY <2>2 DEF Commit, Freeze, Purge, Thaw, StatusWrite, Tick, Crash
      <3> QED
        BY <3>1, <3>2, <3>3, <3>4 DEF Next, ApplierStep
    <2>4. RowOK(Row) /\ Row.op = OpOf[ap]
      <3>1. ap # "idle"
        BY <2>3 DEF Deregister
      <3> QED
        BY <3>1, InFlight
    <2>5. Row.op = "DEREGISTER"
      BY <2>3, <2>4 DEF Deregister, OpOf
    <2> QED
      BY <2>4, <2>5 DEF RowOK
  <1> QED
    BY <1>1, InvariantIInv, PTL DEF Spec, OnlyRemovedFromRepo

-----------------------------------------------------------------------------
(* The rows that wait or are in flight.                                    *)

Unsettled(rows) == Pending(rows) \cup InProgress(rows)

Stated(rows) == \A i \in DOMAIN rows : rows[i].status \in Status

Removals(rows) == \A i \in Unsettled(rows) : rows[i].op = "DEREGISTER"

\* Renumbering loses no row.
LEMMA RenumberedWaits ==
    ASSUME NEW rows, Table(rows)
    PROVE  LET new == Renumbered(rows)
           IN  /\ Stated(rows) => Stated(new)
               /\ Removals(rows) => Removals(new)
               /\ Unsettled(rows) # {} => Unsettled(new) # {}
  <1> DEFINE D == DOMAIN rows
             rank(n) == Cardinality({m \in D : m <= n})
             at(i) == CHOOSE n \in D : rank(n) = i
             new == Renumbered(rows)
             size == Cardinality(D)
  <1>1. D \subseteq Nat /\ IsFiniteSet(D)
    BY DEF Table
  <1>2. \A n \in D : rank(n) \in 1 .. size
    BY <1>1, RankReached
  <1>3. \A i \in 1 .. size : at(i) \in D /\ rank(at(i)) = i
    <2>1. \A i \in 1 .. size : \E n \in D : rank(n) = i
      BY <1>1, RankReached
    <2> HIDE DEF rank
    <2> QED
      BY <2>1
  <1>4. \A n \in D : at(rank(n)) = n
    <2> SUFFICES ASSUME NEW n \in D
                 PROVE  at(rank(n)) = n
      OBVIOUS
    <2>1. at(rank(n)) \in D /\ rank(at(rank(n))) = rank(n)
      BY <1>2, <1>3
    <2> HIDE DEF at
    <2> QED
      BY <1>1, <2>1, RankUnique
  <1>5. DOMAIN new = 1 .. size /\ \A i \in 1 .. size : new[i] = rows[at(i)]
    BY DEF Renumbered
  <1> HIDE DEF rank, at, new, size
  <1>6. \A i \in DOMAIN new : at(i) \in D /\ new[i] = rows[at(i)]
    BY <1>3, <1>5
  <1>7. \A k \in D : rank(k) \in DOMAIN new /\ new[rank(k)] = rows[k]
    BY <1>2, <1>4, <1>5
  <1>8. Unsettled(rows) # {} => Unsettled(new) # {}
    <2> SUFFICES ASSUME NEW k \in Unsettled(rows)
                 PROVE  rank(k) \in Unsettled(new)
      OBVIOUS
    <2> QED
      BY <1>7 DEF Unsettled, Pending, InProgress
  <1> QED
    BY <1>6, <1>8 DEF Stated, Removals, Unsettled, Pending, InProgress, new

\* prune takes terminal rows only.
LEMMA PrunedWaits ==
    ASSUME NEW rows, Table(rows)
    PROVE  /\ Stated(rows) => Stated(Prune(rows))
           /\ Removals(rows) => Removals(Prune(rows))
           /\ Unsettled(Prune(rows)) = Unsettled(rows)
  <1> DEFINE S == {i \in DOMAIN rows : i \in Settled(rows) =>
                     Cardinality({k \in Settled(rows) : k >= i}) <= MaxTerminalUpdates}
             new == Prune(rows)
  <1>1. DOMAIN new = DOMAIN rows \cap S /\ \A i \in DOMAIN new : new[i] = rows[i]
    BY DEF Prune, Keep
  <1>2. Unsettled(rows) \subseteq S
    BY DEF Unsettled, Pending, InProgress, Settled, TerminalStatus
  <1> HIDE DEF S, new
  <1>3. Unsettled(new) = Unsettled(rows)
    BY <1>1, <1>2 DEF Unsettled, Pending, InProgress
  <1> QED
    BY <1>1, <1>3 DEF Stated, Removals, Unsettled, Pending, InProgress, new

\* Enqueue leaves the intent waiting, or a row that takes it in.
LEMMA EnqueuedWaits ==
    ASSUME NEW rows, NEW n \in Nat, NEW u, Table(rows), Stated(rows), n \notin DOMAIN rows
    PROVE  LET new == Enqueue(rows, n, u)
           IN  /\ Stated(new)
               /\ Removals(rows) /\ u.op = "DEREGISTER" => Removals(new)
               /\ Unsettled(new) # {}
  <1>0. \A i \in DOMAIN rows : IsRow(rows[i]) /\ rows[i].status \in Status
    BY DEF Table, Stated
  <1>1. CASE Claiming(rows, u) # {}
    <2> DEFINE new == Refresh(rows, u)
               S == Claiming(rows, u) \cap Pending(rows)
    <2>1. Enqueue(rows, n, u) = new
      BY <1>1 DEF Enqueue
    <2>2. /\ DOMAIN new = DOMAIN rows
          /\ \A i \in DOMAIN rows :
                new[i] = IF i \in S THEN [rows[i] EXCEPT !.body = u.body] ELSE rows[i]
      BY DEF Refresh
    <2>3. PICK k \in DOMAIN rows : k \notin Settled(rows)
      BY <1>1 DEF Claiming, First, SameUpdateID
    <2> HIDE DEF new, S
    <2>4. \A i \in DOMAIN rows : new[i].status = rows[i].status /\ new[i].op = rows[i].op
      BY <1>0, <2>2 DEF IsRow
    <2>5. k \in Unsettled(rows)
      BY <1>0, <2>3 DEF Unsettled, Pending, InProgress, Settled, Status
    <2>6. Unsettled(new) = Unsettled(rows)
      BY <2>2, <2>4 DEF Unsettled, Pending, InProgress
    <2>7. Stated(new)
      BY <1>0, <2>2, <2>4 DEF Stated
    <2>8. Removals(rows) => Removals(new)
      BY <2>2, <2>4, <2>6 DEF Removals, Unsettled, Pending, InProgress
    <2> QED
      BY <2>1, <2>5, <2>6, <2>7, <2>8
  <1>2. CASE Claiming(rows, u) = {}
    <2> DEFINE marked == Supersede(rows, u)
               left == DropRetried(marked, u)
               added == AppendRow(left, n, u)
               new == Prune(added)
    <2>1. Enqueue(rows, n, u) = new
      BY <1>2 DEF Enqueue
    <2>2. /\ DOMAIN marked = DOMAIN rows
          /\ \A i \in DOMAIN rows : \/ marked[i] = rows[i]
                                    \/ marked[i] = [rows[i] EXCEPT !.status = "SUPERSEDED"]
      BY DEF Supersede
    <2>3. \A i \in DOMAIN rows : /\ IsRow(marked[i]) /\ marked[i].op = rows[i].op
                                 /\ \/ marked[i].status = rows[i].status
                                    \/ marked[i].status = "SUPERSEDED"
      BY <1>0, <2>2 DEF IsRow
    <2> HIDE DEF marked
    <2>4. DOMAIN left \subseteq DOMAIN rows /\ \A i \in DOMAIN left : left[i] = marked[i]
      BY <2>2 DEF DropRetried, Keep
    <2> HIDE DEF left
    <2>5. /\ DOMAIN added = DOMAIN left \cup {n}
          /\ \A i \in DOMAIN left : i # n /\ added[i] = left[i]
          /\ IsRow(added[n]) /\ added[n].op = u.op /\ added[n].status = "PENDING"
      BY <2>4 DEF AppendRow, IsRow
    <2> HIDE DEF added
    <2>6. Table(added)
      <3>1. IsFiniteSet(DOMAIN left)
        BY <2>4, FS_Subset DEF Table
      <3>2. IsFiniteSet(DOMAIN added)
        BY <2>5, <3>1, FS_AddElement
      <3>3. \A i \in DOMAIN added : IsRow(added[i])
        BY <2>3, <2>4, <2>5
      <3>4. DOMAIN added \subseteq Nat
        BY <2>4, <2>5 DEF Table
      <3> QED
        BY <3>2, <3>3, <3>4 DEF Table
    <2>7. Stated(added)
      BY <1>0, <2>3, <2>4, <2>5 DEF Stated, Status, TerminalStatus
    <2>8. n \in Unsettled(added)
      BY <2>5 DEF Unsettled, Pending
    <2>9. Removals(rows) /\ u.op = "DEREGISTER" => Removals(added)
      <3> SUFFICES ASSUME Removals(rows), u.op = "DEREGISTER", NEW i \in Unsettled(added)
                   PROVE  added[i].op = "DEREGISTER"
        BY DEF Removals
      <3>1. CASE i = n
        BY <2>5, <3>1
      <3>2. CASE i # n
        <4>1. i \in DOMAIN rows /\ added[i].op = rows[i].op
              /\ (added[i].status = rows[i].status \/ added[i].status = "SUPERSEDED")
              /\ added[i].status \in {"PENDING", "IN_PROGRESS"}
          BY <2>3, <2>4, <2>5, <3>2 DEF Unsettled, Pending, InProgress
        <4>2. i \in Unsettled(rows)
          BY <4>1 DEF Unsettled, Pending, InProgress
        <4> QED
          BY <4>1, <4>2 DEF Removals
      <3> QED
        BY <3>1, <3>2
    <2> QED
      BY <2>1, <2>6, <2>7, <2>8, <2>9, PrunedWaits
  <1> QED
    BY <1>1, <1>2

\* An Enqueue, renumbered.
LEMMA AppendedWaits ==
    ASSUME NEW rows, NEW u, Numbered(rows), Stated(rows)
    PROVE  LET new == Appended(rows, u)
           IN  /\ Stated(new)
               /\ Removals(rows) /\ u.op = "DEREGISTER" => Removals(new)
               /\ Unsettled(new) # {}
  <1> DEFINE n == Cardinality(DOMAIN rows) + 1
             put == Enqueue(rows, n, u)
  <1>1. Appended(rows, u) = Renumbered(put)
    BY DEF Appended
  <1>2. n \in Nat /\ n \notin DOMAIN rows /\ Table(rows)
    BY FS_CardinalityType DEF Numbered, Table
  <1> HIDE DEF n
  <1>3. Table(put)
    BY <1>2, EnqueueRows
  <1>4. /\ Stated(put)
        /\ Removals(rows) /\ u.op = "DEREGISTER" => Removals(put)
        /\ Unsettled(put) # {}
    BY <1>2, EnqueuedWaits
  <1> HIDE DEF put
  <1> QED
    BY <1>1, <1>3, <1>4, RenumberedWaits

\* A row that is settled waits no more.
LEMMA CompletedWaits ==
    ASSUME NEW rows, NEW k, NEW outcome \in TerminalStatus, Table(rows), Stated(rows),
           InProgress(rows) = {k}
    PROVE  LET new == Renumbered(Complete(rows, rows[k], outcome))
           IN  Stated(new) /\ (Removals(rows) => Removals(new))
  <1> DEFINE done == First(SameUpdateID(rows, rows[k]) \cap InProgress(rows))
             marked == [i \in DOMAIN rows |->
                          IF i \in done THEN [rows[i] EXCEPT !.status = outcome] ELSE rows[i]]
  <1>1. k \in DOMAIN rows /\ k \in Nat
    BY DEF InProgress, Table
  <1>2. done = {k}
    BY <1>1 DEF First, SameUpdateID
  <1>3. Complete(rows, rows[k], outcome) = Prune(marked)
    BY <1>2 DEF Complete
  <1>4. \A i \in DOMAIN rows : IsRow(rows[i]) /\ rows[i].status \in Status
    BY DEF Table, Stated
  <1>5. /\ DOMAIN marked = DOMAIN rows
        /\ \A i \in DOMAIN rows :
              /\ IsRow(marked[i]) /\ marked[i].op = rows[i].op
              /\ marked[i].status = IF i = k THEN outcome ELSE rows[i].status
    BY <1>2, <1>4 DEF IsRow
  <1> HIDE DEF marked, done
  <1>6. Table(marked) /\ Stated(marked)
    BY <1>4, <1>5 DEF Table, Stated, Status
  <1>7. Removals(rows) => Removals(marked)
    BY <1>5 DEF Removals, Unsettled, Pending, InProgress, TerminalStatus
  <1>8. Table(Prune(marked))
    BY <1>6, PruneKept DEF Kept
  <1> QED
    BY <1>3, <1>6, <1>7, <1>8, PrunedWaits, RenumberedWaits

\* NextPending changes no row's op.
LEMMA MarkedWaits ==
    ASSUME NEW rows, Numbered(rows), Stated(rows), NEW i \in Pending(rows)
    PROVE  LET new == MarkInProgress(rows, i)
           IN  Stated(new) /\ (Removals(rows) => Removals(new))
  <1> DEFINE new == MarkInProgress(rows, i)
  <1>1. i \in DOMAIN rows /\ \A k \in DOMAIN rows : IsRow(rows[k]) /\ rows[k].status \in Status
    BY DEF Pending, Numbered, Table, Stated
  <1>2. /\ DOMAIN new = DOMAIN rows
        /\ \A k \in DOMAIN rows :
              /\ new[k].op = rows[k].op
              /\ new[k].status = IF k = i THEN "IN_PROGRESS" ELSE rows[k].status
    BY <1>1 DEF MarkInProgress, IsRow
  <1> HIDE DEF new
  <1>3. Stated(new)
    BY <1>1, <1>2 DEF Stated, Status
  <1>4. Unsettled(new) \subseteq Unsettled(rows)
    BY <1>2 DEF Unsettled, Pending, InProgress
  <1>5. Removals(rows) => Removals(new)
    BY <1>2, <1>4 DEF Removals, Unsettled, Pending, InProgress
  <1> QED
    BY <1>3, <1>5 DEF new

-----------------------------------------------------------------------------
(* After the environment has come to rest.                                 *)

\* Nothing outside acts any more; a whole interval of that is over; and the
\* first one after it.
Quiet == now > QuietAfter
Rested == now > QuietAfter + 1
Settling == now > QuietAfter + 2

\* The orphan is due in the next interval, or has been.
DueNext == now >= Due - 1
PastDue == now >= Due

\* A freeze ends in the quiet, or never.
FreezesEnd == frozen # None => frozen <= QuietAfter + 1 \/ frozen = Never

\* Where something changes in every interval, its first Check does not skip.
ChecksLook == ~checked => chk.pc = "idle" /\ (busy => behind)

\* A hold that is over has been seen to be, and did not last past the quiet.
Thawed == heldSince = None /\ accrued <= QuietAfter + 1
ThawSeen == Quiet /\ (checked \/ Rested) /\ ~InForce(frozen) => Thawed

\* Nothing would register a job that has no file.
NoRevival(rows, c) ==
    /\ Removals(rows)
    /\ c.pc # "idle" => c.parsed = Absent /\ c.action # "queued"
OnlyRemovals == Rested /\ repo[head] = Absent => NoRevival(updates, chk)

\* Each Check finds the orphan, and the first one has stamped it.
SeenEarly == firstSeen # None /\ firstSeen <= QuietAfter + 2
OrphanSeen ==
    Rested /\ Orphan =>
        /\ chk.pc # "idle" => chk.orphan
        /\ busy /\ (Settling \/ (checked /\ chk.pc \in {"idle", "enqueue"})) => SeenEarly

\* In the interval before it is due a Check queues its removal, and the clock
\* waits for the drain.
Going(rows, c, looked) ==
    /\ c.pc \in {"publish", "enqueue"} => c.action = "queued_deregister"
    /\ looked /\ c.pc = "idle" => Unsettled(rows) # {}
OrphanDue ==
    busy /\ DueNext /\ Orphan /\ ~InForce(frozen) => ~PastDue /\ Going(updates, chk, checked)

LInv ==
    /\ FreezesEnd /\ ChecksLook /\ Stated(updates)
    /\ ThawSeen /\ OnlyRemovals /\ OrphanSeen /\ OrphanDue

\* Bounds on the clock are natural numbers, each later than the one before.
LEMMA Instants ==
    ASSUME IInv
    PROVE  /\ now \in Nat /\ QuietAfter \in Nat /\ Grace \in Nat /\ Due \in Nat
           /\ Due = QuietAfter + QuietAfter + Grace + 4
           /\ PastDue => DueNext
           /\ DueNext => Settling
           /\ Settling => Rested
           /\ Rested => Quiet
           /\ Quiet <=> ~Early
  <1>1. now \in Nat /\ QuietAfter \in Nat /\ Grace \in Nat
    BY ConstantsAssumption DEF IInv, ClockOK
  <1>2. Due = QuietAfter + QuietAfter + Grace + 4 /\ Due \in Nat
    BY <1>1 DEF Due
  <1> QED
    BY <1>1, <1>2 DEF Quiet, Rested, Settling, DueNext, PastDue, Early

\* A freeze that has ended by the end of the quiet stays so, and one that has
\* not is indefinite.
LEMMA ForceIsForever ==
    ASSUME IInv, FreezesEnd, Quiet
    PROVE  InForce(frozen) <=> frozen = Never
  <1>1. /\ now \in Nat /\ QuietAfter \in Nat /\ MaxTime \in Nat /\ Never \in Nat /\ now <= MaxTime
        /\ Never > MaxTime /\ None \notin Nat /\ now > QuietAfter
        /\ frozen # None => frozen \in Nat
    BY ConstantsAssumption DEF IInv, ClockOK, Quiet
  <1>2. Never # None /\ Never > now
    BY <1>1
  <1>3. CASE frozen = Never
    BY <1>2, <1>3 DEF InForce
  <1>4. CASE frozen # Never
    <2>1. frozen # None => ~ (frozen > now)
      BY <1>1, <1>4 DEF FreezesEnd
    <2> QED
      BY <1>4, <2>1 DEF InForce
  <1> QED
    BY <1>3, <1>4

\* Before it is over there is nothing to say.
LEMMA NotYet ==
    ASSUME IInv', ~Rested'
    PROVE  OnlyRemovals' /\ OrphanSeen' /\ OrphanDue'
  <1>1. PICK n : n = now' /\ n \in Nat
    BY DEF IInv, ClockOK
  <1>2. QuietAfter \in Nat /\ Grace \in Nat /\ Due = QuietAfter + QuietAfter + Grace + 4
    BY ConstantsAssumption DEF Due
  <1>3. ~ (n > QuietAfter + 1)
    BY <1>1 DEF Rested
  <1>4. ~ (n >= Due - 1)
    BY <1>1, <1>2, <1>3
  <1>5. ~Rested' /\ ~DueNext'
    BY <1>1, <1>4 DEF DueNext, Due
  <1> QED
    BY <1>5 DEF OnlyRemovals, OrphanSeen, OrphanDue

\* A step within an interval.
LEMMA SameInstant ==
    ASSUME now' = now
    PROVE  /\ Quiet' <=> Quiet
           /\ Rested' <=> Rested
           /\ Settling' <=> Settling
           /\ DueNext' <=> DueNext
           /\ PastDue' <=> PastDue
  BY DEF Quiet, Rested, Settling, DueNext, PastDue, Due

\* No step makes a freeze that ends after the quiet and does end.
LEMMA EndStep == ASSUME FreezesEnd, Next PROVE FreezesEnd'
  <1>1. PICK f : f = frozen'
    OBVIOUS
  <1>2. f = frozen \/ f = None \/ f <= QuietAfter + 1 \/ f = Never
    <2>1. CASE CheckStep
      BY <1>1, <2>1 DEF CheckStep, BeginCheck, RefreshAndPurge, Decide, Publish, EnqueueUpdate
    <2>2. CASE ApplierStep
      BY <1>1, <2>2 DEF ApplierStep, Take, Recheck, Deregister, Register, Fails, Completes
    <2>3. ASSUME NEW spec, Commit(spec)
          PROVE  f = frozen
      BY <1>1, <2>3 DEF Commit
    <2>4. ASSUME NEW tagged, Edit(tagged)
          PROVE  f = frozen
      BY <1>1, <2>4 DEF Edit
    <2>5. ASSUME NEW expiry \in {t \in 1 .. QuietAfter + 1 : t > now} \cup {Never}, Freeze(expiry)
          PROVE  f <= QuietAfter + 1 \/ f = Never
      <3>1. f = expiry
        BY <1>1, <2>5 DEF Freeze
      <3>2. QuietAfter \in Nat
        BY ConstantsAssumption
      <3> QED
        BY <3>1, <3>2
    <2>6. CASE Purge \/ Thaw \/ StatusWrite \/ Tick \/ Crash
      BY <1>1, <2>6 DEF Purge, Thaw, StatusWrite, Tick, Crash
    <2> QED
      BY <2>1, <2>2, <2>3, <2>4, <2>5, <2>6 DEF Next
  <1> QED
    BY <1>1, <1>2 DEF FreezesEnd

\* Only the clock makes a Check due, and then no Check runs.
LEMMA LookStep == ASSUME ChecksLook, Next PROVE ChecksLook'
  <1>1. CASE CheckStep
    BY <1>1 DEF CheckStep, BeginCheck, Decide, Publish, EnqueueUpdate, skip, ChecksLook
  <1>2. CASE Take
    BY <1>2 DEF Take, skip, ChecksLook
  <1>3. ASSUME NEW outcome, Completes(outcome), UNCHANGED skip \/ (behind' = TRUE /\ busy' = busy)
        PROVE  ChecksLook'
    BY <1>3 DEF Completes, skip, ChecksLook
  <1>4. CASE Recheck
    <2>1. CASE ap' = "deregister" /\ UNCHANGED <<checked, chk, skip>>
      BY <2>1 DEF skip, ChecksLook
    <2> QED
      BY <1>3, <1>4, <2>1 DEF Recheck, Fails
  <1>5. CASE Deregister
    BY <1>3, <1>5 DEF Deregister, Goes, Fails, IndexMoves
  <1>6. CASE Register
    BY <1>3, <1>6 DEF Register, Fails, IndexMoves
  <1>7. ASSUME NEW spec, Commit(spec)
        PROVE  ChecksLook'
    BY <1>7 DEF Commit, skip, ChecksLook
  <1>8. ASSUME NEW tagged, Edit(tagged)
        PROVE  ChecksLook'
    BY <1>8 DEF Edit, IndexMoves, ChecksLook
  <1>9. ASSUME NEW expiry, Freeze(expiry)
        PROVE  ChecksLook'
    BY <1>9 DEF Freeze, skip, ChecksLook
  <1>10. CASE Purge \/ Thaw
    BY <1>10 DEF Purge, Thaw, skip, ChecksLook
  <1>11. CASE StatusWrite
    BY <1>11 DEF StatusWrite, IndexMoves, ChecksLook
  <1>12. CASE Tick
    BY <1>12 DEF Tick, IndexMoves, skip, ChecksLook
  <1>13. CASE Crash
    BY <1>13 DEF Crash, Idle, ChecksLook
  <1> QED
    BY <1>1, <1>2, <1>4, <1>5, <1>6, <1>7, <1>8, <1>9, <1>10, <1>11, <1>12, <1>13
    DEF Next, ApplierStep

\* What becomes of the rows that wait when an update is settled.
LEMMA SettleStep ==
    ASSUME IInv, Stated(updates), ap # "idle", NEW outcome \in {"SUCCEEDED", "FAILED"},
           Completes(outcome)
    PROVE  Stated(updates') /\ (Removals(updates) => Removals(updates'))
  <1>1. PICK i \in DOMAIN updates : InProgress(updates) = {i} /\ Row = updates[i]
    BY InFlight
  <1>2. PICK rows, new : rows = updates /\ new = updates'
    OBVIOUS
  <1>3. /\ Table(rows) /\ Stated(rows) /\ InProgress(rows) = {i} /\ outcome \in TerminalStatus
        /\ new = Renumbered(Complete(rows, rows[i], outcome))
    BY <1>1, <1>2 DEF Completes, IInv, RowsOK, Numbered, TerminalStatus
  <1>4. Stated(new) /\ (Removals(rows) => Removals(new))
    BY <1>3, CompletedWaits
  <1> QED
    BY <1>2, <1>4

\* And when NextPending takes one, or the gate holds it.
LEMMA TakenStep ==
    ASSUME IInv, Stated(updates), Take
    PROVE  /\ Stated(updates') /\ (Removals(updates) => Removals(updates'))
           /\ ~InForce(frozen) => ap' # "idle"
  <1>1. PICK i \in First(Pending(updates)) :
           LET taken == MarkInProgress(updates, i)
           IN  IF InForce(frozen)
               THEN updates' = Renumbered(Complete(taken, taken[i], "HELD")) /\ UNCHANGED ap
               ELSE /\ updates' = taken
                    /\ ap' = IF taken[i].op = "REGISTER" THEN "register" ELSE "recheck"
    BY DEF Take
  <1>2. PICK rows, taken, new : rows = updates /\ taken = MarkInProgress(rows, i) /\ new = updates'
    OBVIOUS
  <1>3. i \in Pending(rows) /\ Numbered(rows) /\ InProgress(rows) = {} /\ Stated(rows)
    BY <1>1, <1>2 DEF First, IInv, RowsOK, ApplierOK, Take
  <1>4. Numbered(taken) /\ InProgress(taken) = {i}
    BY <1>2, <1>3, MarkedRows
  <1>5. Stated(taken) /\ (Removals(rows) => Removals(taken))
    BY <1>2, <1>3, MarkedWaits
  <1>6. CASE InForce(frozen)
    <2>1. new = Renumbered(Complete(taken, taken[i], "HELD"))
      BY <1>1, <1>2, <1>6
    <2>2. "HELD" \in TerminalStatus /\ Table(taken)
      BY <1>4 DEF TerminalStatus, Numbered
    <2>3. Stated(new) /\ (Removals(taken) => Removals(new))
      BY <1>4, <1>5, <2>1, <2>2, CompletedWaits
    <2> QED
      BY <1>2, <1>5, <1>6, <2>3
  <1>7. CASE ~InForce(frozen)
    <2>1. new = taken /\ ap' = IF taken[i].op = "REGISTER" THEN "register" ELSE "recheck"
      BY <1>1, <1>2, <1>7
    <2> QED
      BY <1>2, <1>5, <2>1
  <1> QED
    BY <1>6, <1>7

\* And when a Check queues its intent.
LEMMA QueuedStep ==
    ASSUME IInv, Stated(updates), EnqueueUpdate
    PROVE  /\ Stated(updates') /\ Unsettled(updates') # {}
           /\ Removals(updates) /\ chk.action # "queued" => Removals(updates')
  <1>1. PICK rows, u, new : rows = updates /\ u = Intent /\ new = updates'
    OBVIOUS
  <1>2. Numbered(rows) /\ Stated(rows) /\ new = Appended(rows, u)
    BY <1>1 DEF IInv, RowsOK, EnqueueUpdate
  <1>3. chk.action # "queued" => u.op = "DEREGISTER"
    BY <1>1 DEF Intent
  <1>4. /\ Stated(new) /\ Unsettled(new) # {}
        /\ Removals(rows) /\ u.op = "DEREGISTER" => Removals(new)
    BY <1>2, AppendedWaits
  <1> QED
    BY <1>1, <1>3, <1>4

\* No step leaves a row without a status.
LEMMA StatedStep == ASSUME IInv, Stated(updates), Next PROVE Stated(updates')
  <1>1. CASE CheckStep
    <2>1. CASE EnqueueUpdate
      BY <2>1, QueuedStep
    <2>2. CASE updates' = updates
      BY <2>2
    <2> QED
      BY <1>1, <2>1, <2>2 DEF CheckStep, BeginCheck, Decide, Publish
  <1>2. CASE ApplierStep
    <2>1. CASE Take
      BY <2>1, TakenStep
    <2>2. CASE updates' = updates
      BY <2>2
    <2>3. CASE ap # "idle" /\ Completes("SUCCEEDED")
      BY <2>3, SettleStep
    <2>4. CASE ap # "idle" /\ Completes("FAILED")
      BY <2>4, SettleStep
    <2> QED
      BY <1>2, <2>1, <2>2, <2>3, <2>4 DEF ApplierStep, Recheck, Deregister, Register, Fails
  <1>3. CASE Crash
    <2>1. DOMAIN updates' = {}
      BY <1>3 DEF Crash
    <2> QED
      BY <2>1 DEF Stated
  <1>4. CASE updates' = updates
    BY <1>4
  <1> QED
    BY <1>1, <1>2, <1>3, <1>4 DEF Next, Commit, Edit, Freeze, Purge, Thaw, StatusWrite, Tick

\* Reading a freeze that is not in force, when the hold that ended was seen to.
LEMMA ReadThawed ==
    ASSUME IInv', now' = now, QuietAfter \in Nat, ThawSeen, Quiet, NEW before,
           ReadFreeze(frozen', before), before = accrued \/ before = 0,
           frozen' = frozen \/ ~InForce(frozen)
    PROVE  ThawSeen'
  <1> SUFFICES ASSUME ~InForce(frozen')
               PROVE  Thawed'
    <2>1. InForce(frozen)' <=> InForce(frozen')
      BY DEF InForce
    <2> QED
      BY <2>1 DEF ThawSeen
  <1>1. heldSince' = None
    BY DEF ReadFreeze
  <1>2. PICK n, a : n = now /\ a = accrued'
    OBVIOUS
  <1>3. a \in Nat /\ a <= n /\ n \in Nat
    BY <1>2 DEF IInv, ClockOK
  <1>4. ~InForce(frozen)
    OBVIOUS
  <1>5. CASE checked \/ Rested
    <2>1. heldSince = None /\ accrued <= QuietAfter + 1
      BY <1>4, <1>5 DEF ThawSeen, Thawed
    <2>2. a = accrued \/ a = 0
      BY <1>2, <2>1 DEF ReadFreeze
    <2>3. a <= QuietAfter + 1
      BY <2>1, <2>2
    <2> QED
      BY <1>1, <1>2, <2>3 DEF Thawed
  <1>6. CASE ~Rested
    <2>1. ~ (n > QuietAfter + 1)
      BY <1>2, <1>6 DEF Rested
    <2>2. a <= QuietAfter + 1
      BY <1>3, <2>1
    <2> QED
      BY <1>1, <1>2, <2>2 DEF Thawed
  <1> QED
    BY <1>5, <1>6

\* The clocks as they are.
LEMMA ThawStays ==
    ASSUME ThawSeen, UNCHANGED <<now, checked, frozen, heldSince>>,
           accrued' = accrued \/ accrued' = 0, QuietAfter \in Nat
    PROVE  ThawSeen'
  <1>1. /\ Quiet' <=> Quiet
        /\ Rested' <=> Rested
        /\ InForce(frozen)' <=> InForce(frozen)
    BY DEF Quiet, Rested, InForce
  <1>2. Thawed => Thawed'
    <2>1. PICK a : a = accrued'
      OBVIOUS
    <2>2. accrued <= QuietAfter + 1 => a <= QuietAfter + 1
      BY <2>1
    <2> QED
      BY <2>1, <2>2 DEF Thawed
  <1> QED
    BY <1>1, <1>2 DEF ThawSeen

\* The freezes are read in every interval, and none is in force but an
\* indefinite one.
LEMMA ThawedStep ==
    ASSUME IInv, IInv', FreezesEnd, ThawSeen, Next, Quiet
    PROVE  ThawSeen'
  <1>1. ~Early /\ QuietAfter \in Nat /\ now \in Nat
    BY Instants
  <1>2. CASE BeginCheck
    <2>1. now' = now /\ RefreshAndPurge
      BY <1>2 DEF BeginCheck
    <2>2. CASE Retention > 0 /\ frozen # None /\ now >= frozen + Retention
      <3>1. frozen' = None /\ ReadFreeze(None, 0)
        BY <2>1, <2>2 DEF RefreshAndPurge
      <3>2. ReadFreeze(frozen', 0)
        BY <3>1 DEF ReadFreeze
      <3>3. ~InForce(frozen)
        <4>1. frozen \in Nat /\ Retention \in Nat
          BY <2>2, ConstantsAssumption DEF IInv, ClockOK
        <4>2. ~ (frozen > now)
          BY <1>1, <2>2, <4>1
        <4> QED
          BY <4>2 DEF InForce
      <3> QED
        BY <1>1, <2>1, <3>2, <3>3, ReadThawed
    <2>3. CASE ~(Retention > 0 /\ frozen # None /\ now >= frozen + Retention)
      <3>1. frozen' = frozen /\ ReadFreeze(frozen, accrued)
        BY <2>1, <2>3 DEF RefreshAndPurge
      <3>2. ReadFreeze(frozen', accrued)
        BY <3>1 DEF ReadFreeze
      <3> QED
        BY <1>1, <2>1, <3>1, <3>2, ReadThawed
    <2> QED
      BY <2>2, <2>3
  <1>3. CASE Take
    <2>1. now' = now /\ frozen' = frozen /\ ReadFreeze(frozen, accrued)
      BY <1>3 DEF Take
    <2>2. ReadFreeze(frozen', accrued)
      BY <2>1 DEF ReadFreeze
    <2> QED
      BY <1>1, <2>1, <2>2, ReadThawed
  <1>4. CASE Decide \/ Publish \/ EnqueueUpdate
    <2>1. UNCHANGED <<now, checked, frozen, heldSince>> /\ (accrued' = accrued \/ accrued' = 0)
      BY <1>4 DEF Decide, Publish, EnqueueUpdate, hold
    <2> QED
      BY <1>1, <2>1, ThawStays
  <1>5. CASE Recheck \/ Deregister \/ Register
    <2>1. UNCHANGED <<now, checked, frozen, heldSince, accrued>>
      BY <1>5 DEF Recheck, Deregister, Register, Fails, Completes, hold
    <2> QED
      BY <1>1, <2>1, ThawStays
  <1>6. CASE Tick
    <2>1. checked /\ UNCHANGED <<frozen, heldSince, accrued>>
      BY <1>6 DEF Tick, hold
    <2>2. PICK n : n = now'
      OBVIOUS
    <2>3. n = now + 1 /\ (InForce(frozen)' <=> frozen # None /\ frozen > n)
      BY <1>6, <2>1, <2>2 DEF Tick, InForce
    <2>4. InForce(frozen) => InForce(frozen)'
      <3>1. InForce(frozen) => frozen = Never
        BY ForceIsForever
      <3>2. n <= MaxTime /\ MaxTime \in Nat /\ Never \in Nat /\ Never > MaxTime /\ Never # None
        BY <2>2, ConstantsAssumption DEF IInv, ClockOK
      <3>3. n \in Nat
        BY <2>2 DEF IInv, ClockOK
      <3>4. Never > n
        BY <3>2, <3>3
      <3> QED
        BY <2>3, <3>1, <3>2, <3>4
    <2>5. ~InForce(frozen)' => Thawed
      BY <2>1, <2>4 DEF ThawSeen
    <2>6. Thawed' <=> Thawed
      BY <2>1 DEF Thawed
    <2> QED
      BY <2>5, <2>6 DEF ThawSeen
  <1>7. /\ \A spec : ~Commit(spec)
        /\ \A tagged : ~Edit(tagged)
        /\ \A expiry : ~Freeze(expiry)
        /\ ~Purge /\ ~Thaw /\ ~StatusWrite /\ ~Crash
    BY <1>1 DEF Commit, Edit, Freeze, Purge, Thaw, StatusWrite, Crash
  <1> QED
    BY <1>2, <1>3, <1>4, <1>5, <1>6, <1>7 DEF Next, CheckStep, ApplierStep

\* The orphan is what it was.
LEMMA SameOrphan ==
    ASSUME UNCHANGED <<now, repo, live>>
    PROVE  /\ Orphan' <=> Orphan
           /\ (repo[head] = Absent)' <=> repo[head] = Absent
           /\ frozen' = frozen => (InForce(frozen)' <=> InForce(frozen))
  BY DEF Orphan, head, InForce

\* A purge takes a record that is not in force.
LEMMA PurgeLate ==
    ASSUME IInv, RefreshAndPurge, now' = now, InForce(frozen)
    PROVE  InForce(frozen)'
  <1>1. frozen \in Nat /\ now \in Nat /\ Retention \in Nat /\ frozen > now
    BY ConstantsAssumption DEF IInv, ClockOK, InForce
  <1>2. ~(now >= frozen + Retention)
    BY <1>1
  <1>3. frozen' = frozen
    BY <1>2 DEF RefreshAndPurge
  <1> QED
    BY <1>3 DEF InForce

\* A Check that begins finds the orphan, or skips because one of this interval
\* has.
LEMMA BeginLate ==
    ASSUME IInv, LInv, Rested, BeginCheck
    PROVE  OnlyRemovals' /\ OrphanSeen' /\ OrphanDue'
  <1>1. /\ chk.pc = "idle" /\ RefreshAndPurge /\ checked' = TRUE
        /\ UNCHANGED <<now, repo, live, firstSeen, busy, lastCommit, behind, updates, ap, spent>>
    BY DEF BeginCheck
  <1>2. ~Early
    BY Instants
  <1>3. \/ ~behind /\ chk' = Idle
        \/ chk' = [pc |-> "decide", commit |-> head, parsed |-> repo[head], listed |-> TRUE,
                   token |-> 0, action |-> "none", orphan |-> Orphaned(TRUE, repo[head])]
    <2>1. PICK listed \in BOOLEAN, parses \in BOOLEAN :
            /\ CASE listed /\ parses -> NoFault
                 [] ~listed /\ parses -> Fault("list")
                 [] listed /\ ~parses -> "parse" \in Faults /\ Early /\ Use("parse", MaxFaults) /\ repo[head] # Absent
                 [] OTHER -> FALSE
            /\ IF listed /\ ~behind /\ lastCommit = head
               THEN chk' = Idle
               ELSE LET parsed == IF parses THEN repo[head] ELSE Absent
                    IN  chk' = [pc |-> "decide", commit |-> head, parsed |-> parsed,
                                listed |-> listed, token |-> 0, action |-> "none",
                                orphan |-> Orphaned(listed, parsed)]
      BY DEF BeginCheck
    <2>2. listed /\ parses
      BY <1>2, <2>1 DEF Fault
    <2> QED
      BY <2>1, <2>2
  <1>4. Idle.pc = "idle"
    BY DEF Idle
  <1>5. \/ ~behind /\ chk' = Idle
        \/ /\ chk'.pc = "decide" /\ chk'.parsed = repo[head] /\ chk'.action = "none"
           /\ Orphaned(TRUE, repo[head]) => chk'.orphan
    <2>1. PICK h, p, o : h = head /\ p = repo[head] /\ o = Orphaned(TRUE, repo[head])
      OBVIOUS
    <2>2. \/ ~behind /\ chk' = Idle
          \/ chk' = [pc |-> "decide", commit |-> h, parsed |-> p, listed |-> TRUE,
                     token |-> 0, action |-> "none", orphan |-> o]
      BY <1>3, <2>1
    <2>3. \/ ~behind /\ chk' = Idle
          \/ chk'.pc = "decide" /\ chk'.parsed = p /\ chk'.action = "none" /\ chk'.orphan = o
      BY <2>2
    <2>4. Orphaned(TRUE, repo[head]) => o
      BY <2>1
    <2> QED
      BY <2>1, <2>3, <2>4
  <1>6. /\ Orphan' <=> Orphan
        /\ (repo[head] = Absent)' <=> repo[head] = Absent
        /\ ~InForce(frozen)' => ~InForce(frozen)
    BY <1>1, SameOrphan, PurgeLate
  <1>7. /\ Rested' <=> Rested
        /\ Settling' <=> Settling
        /\ DueNext' <=> DueNext
        /\ PastDue' <=> PastDue
    BY <1>1, SameInstant
  <1>8. busy /\ chk' = Idle => checked
    BY <1>1, <1>5, <1>4 DEF LInv, ChecksLook
  <1>9. Orphan => Orphaned(TRUE, repo[head])
    BY DEF Orphan, Orphaned, Running
  <1>10. OnlyRemovals'
    <2>1. repo[head] = Absent => NoRevival(updates, chk)
      BY DEF LInv, OnlyRemovals
    <2>2. repo[head] = Absent => NoRevival(updates, chk)'
      BY <1>4, <1>1, <1>5, <2>1 DEF NoRevival
    <2> QED
      BY <1>6, <2>2 DEF OnlyRemovals
  <1>11. OrphanSeen'
    <2>1. Orphan /\ chk'.pc # "idle" => chk'.orphan
      BY <1>4, <1>9, <1>5
    <2>2. Orphan /\ busy /\ (Settling \/ chk'.pc \in {"idle", "enqueue"}) => SeenEarly
      <3>1. chk'.pc \in {"idle", "enqueue"} => chk' = Idle
        BY <1>5
      <3> QED
        BY <1>1, <1>8, <3>1 DEF LInv, OrphanSeen
    <2>3. SeenEarly' <=> SeenEarly
      BY <1>1 DEF SeenEarly
    <2> QED
      BY <1>1, <1>6, <1>7, <2>1, <2>2, <2>3 DEF OrphanSeen
  <1>12. OrphanDue'
    <2> SUFFICES ASSUME busy, DueNext, Orphan, ~InForce(frozen)
                 PROVE  ~PastDue /\ Going(updates, chk, checked)'
      BY <1>1, <1>6, <1>7 DEF OrphanDue
    <2>1. ~PastDue /\ Going(updates, chk, checked)
      BY DEF LInv, OrphanDue
    <2>2. Going(updates, chk, checked)'
      BY <1>4, <1>1, <1>8, <1>5, <2>1 DEF Going
    <2> QED
      BY <2>1, <2>2
  <1> QED
    BY <1>10, <1>11, <1>12

\* The grace period is over in the interval before the orphan is due.
LEMMA ElapsedLate ==
    ASSUME IInv, LInv, DueNext, busy, Orphan, ~InForce(frozen)
    PROVE  heldSince = None /\ GraceElapsed
  <1>1. /\ now \in Nat /\ QuietAfter \in Nat /\ Grace \in Nat
        /\ Due = QuietAfter + QuietAfter + Grace + 4 /\ Settling /\ Rested /\ Quiet
    BY Instants
  <1>2. heldSince = None /\ accrued <= QuietAfter + 1 /\ accrued \in Nat
    BY <1>1 DEF LInv, ThawSeen, Thawed, IInv, ClockOK
  <1>3. firstSeen # None /\ firstSeen <= QuietAfter + 2 /\ firstSeen \in Nat
    BY <1>1 DEF LInv, OrphanSeen, SeenEarly, IInv, ClockOK
  <1>4. GraceOffset = accrued
    BY <1>2 DEF GraceOffset
  <1>5. now >= QuietAfter + QuietAfter + Grace + 3
    BY <1>1 DEF DueNext
  <1>6. now - firstSeen - accrued >= Grace
    BY <1>1, <1>2, <1>3, <1>5
  <1> QED
    BY <1>2, <1>3, <1>4, <1>6 DEF GraceElapsed

\* A decision about the orphan queues its removal when the grace is over.
LEMMA DecideLate ==
    ASSUME IInv, LInv, Rested, Decide
    PROVE  OnlyRemovals' /\ OrphanSeen' /\ OrphanDue'
  <1>1. /\ chk.pc = "decide" /\ UNCHANGED <<now, checked, repo, live, frozen, firstSeen, busy, updates, ap>>
    BY DEF Decide, skip
  <1>2. ~Early
    BY Instants
  <1>3. \/ /\ chk.orphan
           /\ chk' = [chk EXCEPT !.pc = "publish",
                        !.action = CASE heldSince # None -> "blocked_frozen"
                                     [] heldSince = None /\ ~GraceElapsed -> "deregister_pending_grace"
                                     [] OTHER -> "queued_deregister"]
        \/ /\ ~chk.orphan
           /\ chk' = [chk EXCEPT !.pc = "publish", !.token = live.idx,
                        !.action = IF chk.parsed \notin {Absent, Untagged, live.spec} /\ heldSince = None
                                   THEN "queued" ELSE "none"]
    BY <1>2 DEF Decide, Fault
  <1>4. chk \in CheckState
    BY DEF IInv, CheckOK
  <1>5. /\ chk'.pc = "publish" /\ chk'.parsed = chk.parsed /\ chk'.orphan = chk.orphan
        /\ chk'.action = "queued" => ~chk.orphan /\ chk.parsed # Absent
        /\ chk.orphan /\ heldSince = None /\ GraceElapsed => chk'.action = "queued_deregister"
    <2>1. CASE chk.orphan
      BY <1>3, <1>4, <2>1 DEF CheckState
    <2>2. CASE ~chk.orphan
      BY <1>3, <1>4, <2>2 DEF CheckState
    <2> QED
      BY <2>1, <2>2
  <1>6. /\ Orphan' <=> Orphan
        /\ (repo[head] = Absent)' <=> repo[head] = Absent
        /\ InForce(frozen)' <=> InForce(frozen)
    BY <1>1, SameOrphan
  <1>7. /\ Rested' <=> Rested
        /\ Settling' <=> Settling
        /\ DueNext' <=> DueNext
        /\ PastDue' <=> PastDue
    BY <1>1, SameInstant
  <1>8. OnlyRemovals'
    <2>1. repo[head] = Absent => NoRevival(updates, chk)
      BY DEF LInv, OnlyRemovals
    <2>2. repo[head] = Absent => NoRevival(updates, chk)'
      BY <1>1, <1>5, <2>1 DEF NoRevival
    <2> QED
      BY <1>6, <2>2 DEF OnlyRemovals
  <1>9. OrphanSeen'
    <2>1. Orphan => chk.orphan /\ (busy /\ Settling => SeenEarly)
      BY <1>1 DEF LInv, OrphanSeen
    <2>2. SeenEarly' <=> SeenEarly
      BY <1>1 DEF SeenEarly
    <2> QED
      BY <1>1, <1>5, <1>6, <1>7, <2>1, <2>2 DEF OrphanSeen
  <1>10. OrphanDue'
    <2> SUFFICES ASSUME busy, DueNext, Orphan, ~InForce(frozen)
                 PROVE  ~PastDue /\ Going(updates, chk, checked)'
      BY <1>1, <1>6, <1>7 DEF OrphanDue
    <2>1. ~PastDue
      BY DEF LInv, OrphanDue
    <2>2. chk.orphan
      BY <1>1 DEF LInv, OrphanSeen
    <2>3. chk'.action = "queued_deregister"
      BY <1>5, <2>2, ElapsedLate
    <2> QED
      BY <1>5, <2>1, <2>3 DEF Going
  <1> QED
    BY <1>8, <1>9, <1>10

\* Publishing stamps the orphan, or keeps its stamp.
LEMMA PublishLate ==
    ASSUME IInv, LInv, Rested, Publish
    PROVE  OnlyRemovals' /\ OrphanSeen' /\ OrphanDue'
  <1>1. /\ chk.pc = "publish" /\ UNCHANGED <<now, checked, repo, live, frozen, busy, updates, ap>>
        /\ chk.orphan => firstSeen' = (IF firstSeen = None THEN now ELSE firstSeen)
        /\ chk' = IF chk.action \in {"queued", "queued_deregister"} THEN [chk EXCEPT !.pc = "enqueue"]
                  ELSE Idle
    BY DEF Publish
  <1>2. chk \in CheckState
    BY DEF IInv, CheckOK
  <1>3. \/ /\ chk'.pc = "enqueue" /\ chk'.parsed = chk.parsed /\ chk'.orphan = chk.orphan
           /\ chk'.action = chk.action
        \/ chk' = Idle /\ chk.action # "queued_deregister"
    BY <1>1, <1>2 DEF CheckState
  <1>4. Idle.pc = "idle"
    BY DEF Idle
  <1>5. /\ Orphan' <=> Orphan
        /\ (repo[head] = Absent)' <=> repo[head] = Absent
        /\ InForce(frozen)' <=> InForce(frozen)
    BY <1>1, SameOrphan
  <1>6. /\ Rested' <=> Rested
        /\ Settling' <=> Settling
        /\ DueNext' <=> DueNext
        /\ PastDue' <=> PastDue
    BY <1>1, SameInstant
  <1>7. OnlyRemovals'
    <2>1. repo[head] = Absent => NoRevival(updates, chk)
      BY DEF LInv, OnlyRemovals
    <2>2. repo[head] = Absent => NoRevival(updates, chk)'
      BY <1>4, <1>1, <1>3, <2>1 DEF NoRevival
    <2> QED
      BY <1>5, <2>2 DEF OnlyRemovals
  <1>8. OrphanSeen'
    <2> SUFFICES ASSUME Orphan
                 PROVE  /\ chk'.pc # "idle" => chk'.orphan
                        /\ busy => SeenEarly'
      BY <1>1, <1>5 DEF OrphanSeen
    <2>1. chk.orphan /\ (busy /\ Settling => SeenEarly)
      BY <1>1 DEF LInv, OrphanSeen
    <2>2. chk'.pc # "idle" => chk'.orphan
      BY <1>4, <1>3, <2>1
    <2>3. PICK f : f = firstSeen'
      OBVIOUS
    <2>4. f = IF firstSeen = None THEN now ELSE firstSeen
      BY <1>1, <2>1, <2>3
    <2>5. /\ now \in Nat /\ QuietAfter \in Nat /\ None \notin Nat
          /\ firstSeen # None => firstSeen \in Nat /\ firstSeen <= now
      BY Instants, ConstantsAssumption DEF IInv, ClockOK
    <2>6. ~Settling => f <= QuietAfter + 2 /\ f # None
      <3> SUFFICES ASSUME ~Settling
                   PROVE  f <= QuietAfter + 2 /\ f # None
        OBVIOUS
      <3>1. now <= QuietAfter + 2
        BY <2>5 DEF Settling
      <3>2. CASE firstSeen = None
        <4>1. f = now
          BY <2>4, <3>2
        <4>2. f # None
          BY <2>5, <4>1
        <4> QED
          BY <3>1, <4>1, <4>2
      <3>3. CASE firstSeen # None
        <4>1. f = firstSeen
          BY <2>4, <3>3
        <4> QED
          BY <2>5, <3>1, <3>3, <4>1
      <3> QED
        BY <3>2, <3>3
    <2>7. busy /\ Settling => f <= QuietAfter + 2 /\ f # None
      BY <2>1, <2>4 DEF SeenEarly
    <2> QED
      BY <2>2, <2>3, <2>6, <2>7 DEF SeenEarly
  <1>9. OrphanDue'
    <2> SUFFICES ASSUME busy, DueNext, Orphan, ~InForce(frozen)
                 PROVE  ~PastDue /\ Going(updates, chk, checked)'
      BY <1>1, <1>5, <1>6 DEF OrphanDue
    <2>1. ~PastDue /\ chk.action = "queued_deregister"
      BY <1>1 DEF LInv, OrphanDue, Going
    <2> QED
      BY <1>3, <2>1 DEF Going
  <1> QED
    BY <1>7, <1>8, <1>9

\* The removal that is queued, or the row that takes it in, waits.
LEMMA EnqueueLate ==
    ASSUME IInv, LInv, Rested, EnqueueUpdate
    PROVE  OnlyRemovals' /\ OrphanSeen' /\ OrphanDue'
  <1>1. /\ chk.pc = "enqueue" /\ chk' = Idle
        /\ UNCHANGED <<now, checked, repo, live, frozen, firstSeen, busy, ap>>
    BY DEF EnqueueUpdate, skip
  <1>2. Idle.pc = "idle"
    BY DEF Idle
  <1>3. /\ Orphan' <=> Orphan
        /\ (repo[head] = Absent)' <=> repo[head] = Absent
        /\ InForce(frozen)' <=> InForce(frozen)
    BY <1>1, SameOrphan
  <1>4. /\ Rested' <=> Rested
        /\ Settling' <=> Settling
        /\ DueNext' <=> DueNext
        /\ PastDue' <=> PastDue
    BY <1>1, SameInstant
  <1>5. /\ Unsettled(updates') # {}
        /\ Removals(updates) /\ chk.action # "queued" => Removals(updates')
    BY QueuedStep DEF LInv
  <1>6. OnlyRemovals'
    <2>1. repo[head] = Absent => Removals(updates) /\ chk.action # "queued"
      BY <1>1 DEF LInv, OnlyRemovals, NoRevival
    <2>2. repo[head] = Absent => NoRevival(updates', chk')
      BY <1>1, <1>2, <1>5, <2>1 DEF NoRevival
    <2> QED
      BY <1>3, <2>2 DEF OnlyRemovals
  <1>7. OrphanSeen'
    <2>1. checked
      BY <1>1 DEF LInv, ChecksLook
    <2>2. Orphan /\ busy => SeenEarly
      BY <1>1, <2>1 DEF LInv, OrphanSeen
    <2>3. SeenEarly' <=> SeenEarly
      BY <1>1 DEF SeenEarly
    <2> QED
      BY <1>1, <1>2, <1>3, <2>2, <2>3 DEF OrphanSeen
  <1>8. OrphanDue'
    <2> SUFFICES ASSUME busy, DueNext, Orphan, ~InForce(frozen)
                 PROVE  ~PastDue /\ Going(updates, chk, checked)'
      BY <1>1, <1>3, <1>4 DEF OrphanDue
    <2>1. ~PastDue
      BY DEF LInv, OrphanDue
    <2> QED
      BY <1>1, <1>2, <1>5, <2>1 DEF Going
  <1> QED
    BY <1>6, <1>7, <1>8

\* What the applier takes stays a removal.
LEMMA TakeLate ==
    ASSUME IInv, IInv', LInv, Rested, Take
    PROVE  OnlyRemovals' /\ OrphanSeen' /\ OrphanDue'
  <1>1. UNCHANGED <<now, checked, repo, live, frozen, firstSeen, busy, chk>>
    BY DEF Take, skip
  <1>2. /\ Orphan' <=> Orphan
        /\ (repo[head] = Absent)' <=> repo[head] = Absent
        /\ InForce(frozen)' <=> InForce(frozen)
    BY <1>1, SameOrphan
  <1>3. /\ Rested' <=> Rested
        /\ Settling' <=> Settling
        /\ DueNext' <=> DueNext
        /\ PastDue' <=> PastDue
    BY <1>1, SameInstant
  <1>4. /\ Removals(updates) => Removals(updates')
        /\ ~InForce(frozen) => ap' # "idle"
    BY TakenStep DEF LInv
  <1>5. OnlyRemovals'
    <2>1. repo[head] = Absent => NoRevival(updates, chk)
      BY DEF LInv, OnlyRemovals
    <2>2. repo[head] = Absent => NoRevival(updates', chk')
      BY <1>1, <1>4, <2>1 DEF NoRevival
    <2> QED
      BY <1>2, <2>2 DEF OnlyRemovals
  <1>6. OrphanSeen'
    <2>1. SeenEarly' <=> SeenEarly
      BY <1>1 DEF SeenEarly
    <2> QED
      BY <1>1, <1>2, <1>3, <2>1 DEF LInv, OrphanSeen
  <1>7. OrphanDue'
    <2> SUFFICES ASSUME busy, DueNext, Orphan, ~InForce(frozen)
                 PROVE  ~PastDue /\ Going(updates, chk, checked)'
      BY <1>1, <1>2, <1>3 DEF OrphanDue
    <2>1. ~PastDue /\ Going(updates, chk, checked)
      BY DEF LInv, OrphanDue
    <2>2. Unsettled(updates') # {}
      <3>1. PICK new : new = updates'
        OBVIOUS
      <3>2. \E i : InProgress(new) = {i}
        BY <1>4, <3>1 DEF IInv, ApplierOK
      <3> QED
        BY <3>1, <3>2 DEF Unsettled
    <2> QED
      BY <1>1, <2>1, <2>2 DEF Going
  <1> QED
    BY <1>5, <1>6, <1>7

\* An update that is settled as the job goes, or of a job that has a file.
LEMMA SettleLate ==
    ASSUME IInv, LInv, Rested, ap # "idle", NEW outcome \in {"SUCCEEDED", "FAILED"},
           Completes(outcome), repo[head] # Absent \/ ~Orphan'
    PROVE  OnlyRemovals' /\ OrphanSeen' /\ OrphanDue'
  <1>1. UNCHANGED <<now, repo, chk>>
    BY DEF Completes
  <1>2. Removals(updates) => Removals(updates')
    BY SettleStep DEF LInv
  <1>3. (repo[head] = Absent)' <=> repo[head] = Absent
    BY <1>1 DEF head
  <1>4. ~Orphan'
    BY <1>3 DEF Orphan
  <1>5. repo[head] = Absent => NoRevival(updates', chk')
    BY <1>1, <1>2 DEF LInv, OnlyRemovals, NoRevival
  <1> QED
    BY <1>3, <1>4, <1>5 DEF OnlyRemovals, OrphanSeen, OrphanDue

\* The recheck finds the orphan that the Check found.
LEMMA RecheckLate ==
    ASSUME IInv, LInv, Rested, Recheck
    PROVE  OnlyRemovals' /\ OrphanSeen' /\ OrphanDue'
  <1>1. ~Early /\ ap = "recheck" /\ ap # "idle"
    BY Instants DEF Recheck
  <1>2. CASE Completes("SUCCEEDED") /\ ~Running /\ live' = live
    <2>1. ~Orphan'
      BY <1>2 DEF Orphan, Running
    <2> QED
      BY <1>1, <1>2, <2>1, SettleLate
  <1>3. CASE Running /\ ~live.tagged /\ Fails
    <2>1. ~Orphan'
      BY <1>3 DEF Orphan, Fails
    <2> QED
      BY <1>1, <1>3, <2>1, SettleLate DEF Fails
  <1>4. CASE UNCHANGED <<now, checked, repo, live, frozen, hold, firstSeen, skip, updates, chk, ghost>>
    <2>1. UNCHANGED <<now, checked, repo, live, frozen, firstSeen, busy, updates, chk>>
      BY <1>4 DEF skip
    <2>2. /\ Orphan' <=> Orphan
          /\ (repo[head] = Absent)' <=> repo[head] = Absent
          /\ InForce(frozen)' <=> InForce(frozen)
      BY <2>1, SameOrphan
    <2>3. /\ Rested' <=> Rested
          /\ Settling' <=> Settling
          /\ DueNext' <=> DueNext
          /\ PastDue' <=> PastDue
      BY <2>1, SameInstant
    <2>4. SeenEarly' <=> SeenEarly
      BY <2>1 DEF SeenEarly
    <2> QED
      BY <2>1, <2>2, <2>3, <2>4 DEF LInv, OnlyRemovals, OrphanSeen, OrphanDue
  <1>5. ~Fault("info")
    BY <1>1 DEF Fault
  <1> QED
    BY <1>2, <1>3, <1>4, <1>5 DEF Recheck

\* The job goes.
LEMMA DeregisterLate ==
    ASSUME IInv, LInv, Rested, Deregister
    PROVE  OnlyRemovals' /\ OrphanSeen' /\ OrphanDue'
  <1>1. ap # "idle" /\ ~Early
    BY Instants DEF Deregister
  <1>2. Completes("SUCCEEDED") /\ Goes
    BY <1>1 DEF Deregister, Fault
  <1>3. ~Orphan'
    BY <1>2, GoneIsLive DEF Orphan, IInv
  <1> QED
    BY <1>1, <1>2, <1>3, SettleLate

\* A job that has no file is not registered.
LEMMA RegisterLate ==
    ASSUME IInv, LInv, Rested, Register
    PROVE  OnlyRemovals' /\ OrphanSeen' /\ OrphanDue'
  <1>1. ap = "register" /\ ap # "idle"
    BY DEF Register
  <1>2. PICK i \in DOMAIN updates : InProgress(updates) = {i} /\ Row = updates[i] /\ Row.op = OpOf[ap]
    BY <1>1, InFlight
  <1>3. i \in Unsettled(updates) /\ updates[i].op = "REGISTER"
    BY <1>1, <1>2 DEF Unsettled, OpOf
  <1>4. repo[head] # Absent
    BY <1>3 DEF LInv, OnlyRemovals, NoRevival, Removals
  <1>5. Completes("SUCCEEDED") \/ Completes("FAILED")
    BY DEF Register, Fails
  <1> QED
    BY <1>1, <1>4, <1>5, SettleLate

\* The clock moves with no Check running and, in the quiet, an empty queue.
LEMMA TickLate ==
    ASSUME IInv, IInv', LInv, Quiet, Tick
    PROVE  OnlyRemovals' /\ OrphanSeen' /\ OrphanDue'
  <1>1. /\ checked /\ chk.pc = "idle" /\ ap = "idle" /\ Pending(updates) = {}
        /\ now' = now + 1 /\ checked' = FALSE
        /\ UNCHANGED <<repo, live, frozen, firstSeen, busy, updates, chk>>
    BY Instants DEF Tick, IndexMoves, skip
  <1>2. Unsettled(updates) = {}
    BY <1>1 DEF IInv, ApplierOK, Unsettled
  <1>3. /\ now \in Nat /\ QuietAfter \in Nat /\ Grace \in Nat
        /\ Due = QuietAfter + QuietAfter + Grace + 4 /\ Due' = Due
    BY Instants DEF Due
  <1>4. PICK n : n = now'
    OBVIOUS
  <1>5. /\ n = now + 1
        /\ Settling' => Rested
        /\ DueNext' => Rested
        /\ PastDue' => DueNext
    <2>1. n = now + 1
      BY <1>1, <1>4
    <2>2. /\ Settling' <=> n > QuietAfter + 2
          /\ DueNext' <=> n >= Due - 1
          /\ PastDue' <=> n >= Due
      BY <1>3, <1>4 DEF Settling, DueNext, PastDue
    <2>3. n > QuietAfter + 2 => now > QuietAfter + 1
      BY <1>3, <2>1
    <2>4. n >= Due - 1 => now > QuietAfter + 1
      BY <1>3, <2>1
    <2>5. n >= Due => now >= Due - 1
      BY <1>3, <2>1
    <2> QED
      BY <2>1, <2>2, <2>3, <2>4, <2>5 DEF Rested, DueNext
  <1>6. /\ Orphan' <=> Orphan
        /\ SeenEarly' <=> SeenEarly
    BY <1>1 DEF Orphan, head, SeenEarly
  <1>7. OnlyRemovals'
    <2>1. NoRevival(updates', chk')
      BY <1>1, <1>2 DEF NoRevival, Removals
    <2> QED
      BY <2>1 DEF OnlyRemovals
  <1>8. OrphanSeen'
    <2>1. Rested /\ Orphan /\ busy => SeenEarly
      BY <1>1 DEF LInv, OrphanSeen
    <2> QED
      BY <1>1, <1>5, <1>6, <2>1 DEF OrphanSeen
  <1>9. OrphanDue'
    <2>1. InForce(frozen) => InForce(frozen)'
      <3>1. InForce(frozen) => frozen = Never
        BY ForceIsForever DEF LInv
      <3>2. n <= MaxTime /\ MaxTime \in Nat /\ Never \in Nat /\ Never > MaxTime /\ Never # None
        BY <1>4, ConstantsAssumption DEF IInv, ClockOK
      <3>3. Never > n
        BY <1>3, <1>5, <3>2
      <3>4. InForce(frozen)' <=> frozen # None /\ frozen > n
        BY <1>1, <1>4 DEF InForce
      <3> QED
        BY <3>1, <3>2, <3>3, <3>4
    <2>2. busy /\ DueNext /\ Orphan => InForce(frozen)
      BY <1>1, <1>2 DEF LInv, OrphanDue, Going
    <2>3. busy /\ PastDue' /\ Orphan => InForce(frozen)'
      BY <1>5, <2>1, <2>2
    <2>4. Going(updates, chk, checked)'
      BY <1>1 DEF Going
    <2> QED
      BY <1>1, <1>6, <2>3, <2>4 DEF OrphanDue
  <1> QED
    BY <1>7, <1>8, <1>9

-----------------------------------------------------------------------------
\* Nothing is late when the process starts.
LEMMA InitLInv == Init => LInv
  <1> SUFFICES ASSUME Init
               PROVE  LInv
    OBVIOUS
  <1>1. /\ now = 0 /\ frozen = None /\ behind = TRUE /\ chk.pc = "idle" /\ DOMAIN updates = {}
    BY DEF Init, Idle
  <1>2. ~Quiet /\ ~Rested /\ ~DueNext
    <2>1. QuietAfter \in Nat /\ Grace \in Nat /\ Due = QuietAfter + QuietAfter + Grace + 4
      BY ConstantsAssumption DEF Due
    <2> QED
      BY <1>1, <2>1 DEF Quiet, Rested, DueNext
  <1> QED
    BY <1>1, <1>2 DEF LInv, FreezesEnd, ChecksLook, Stated, ThawSeen, OnlyRemovals, OrphanSeen, OrphanDue

\* Every step keeps what has been seen in time.
LEMMA NextLInv == IInv /\ IInv' /\ LInv /\ [Next]_vars => LInv'
  <1> SUFFICES ASSUME IInv, IInv', LInv, [Next]_vars
               PROVE  LInv'
    OBVIOUS
  <1>1. CASE UNCHANGED vars
    <2>1. UNCHANGED <<now, checked, repo, live, frozen, heldSince, accrued, firstSeen, busy, behind,
                      updates, chk, ap>>
      BY <1>1 DEF vars, hold, skip
    <2> QED
      BY <2>1 DEF LInv, FreezesEnd, ChecksLook, ThawSeen, OnlyRemovals, OrphanSeen, OrphanDue, Thawed,
                  SeenEarly, Quiet, Rested, Settling, DueNext, PastDue, InForce, Orphan, head
  <1>2. CASE Next
    <2>1. FreezesEnd' /\ ChecksLook' /\ Stated(updates')
      BY <1>2, EndStep, LookStep, StatedStep DEF LInv
    <2>2. CASE ~Quiet
      <3>1. now \in Nat /\ now <= QuietAfter /\ QuietAfter \in Nat
        BY <2>2, Instants DEF Quiet
      <3>2. PICK n : n = now'
        OBVIOUS
      <3>3. n = now \/ (n = now + 1 /\ checked' = FALSE)
        <4>1. CASE Tick
          BY <3>2, <4>1 DEF Tick
        <4>2. CASE n = now
          BY <4>2
        <4> QED
          BY <1>2, <3>2, <4>1, <4>2
          DEF Next, CheckStep, BeginCheck, Decide, Publish, EnqueueUpdate, ApplierStep, Take, Recheck,
              Deregister, Register, Fails, Completes, Commit, Edit, Freeze, Purge, Thaw, StatusWrite, Crash
      <3>4. ~ (n > QuietAfter + 1)
        BY <3>1, <3>3
      <3>5. ~Rested'
        BY <3>2, <3>4 DEF Rested
      <3>6. ThawSeen'
        <4>1. n = now => ~ (n > QuietAfter)
          BY <3>1
        <4>2. Quiet' => checked' = FALSE
          BY <3>2, <3>3, <4>1 DEF Quiet
        <4> QED
          BY <3>5, <4>2 DEF ThawSeen
      <3> QED
        BY <2>1, <3>5, <3>6, NotYet DEF LInv
    <2>3. CASE Quiet
      <3>1. ThawSeen'
        BY <1>2, <2>3, ThawedStep DEF LInv
      <3>2. CASE Tick
        BY <2>1, <2>3, <3>1, <3>2, TickLate DEF LInv
      <3>3. CASE ~Tick
        <4>1. ~Early
          BY <2>3, Instants
        <4>2. CheckStep \/ ApplierStep
          BY <1>2, <3>3, <4>1 DEF Next, Commit, Edit, Freeze, Purge, Thaw, StatusWrite, Crash
        <4>3. CASE Rested
          BY <2>1, <3>1, <4>2, <4>3, BeginLate, DecideLate, PublishLate, EnqueueLate, TakeLate,
             RecheckLate, DeregisterLate, RegisterLate DEF LInv, CheckStep, ApplierStep
        <4>4. CASE ~Rested
          <5>1. now' = now
            BY <4>2 DEF CheckStep, BeginCheck, Decide, Publish, EnqueueUpdate, ApplierStep, Take, Recheck,
                        Deregister, Register, Fails, Completes
          <5>2. ~Rested'
            BY <4>4, <5>1, SameInstant
          <5> QED
            BY <2>1, <3>1, <5>2, NotYet DEF LInv
        <4> QED
          BY <4>3, <4>4
      <3> QED
        BY <3>2, <3>3
    <2> QED
      BY <2>2, <2>3
  <1> QED
    BY <1>1, <1>2

\* However an orphan was frozen, retagged, registered again or forgotten while
\* the environment was about, in a cluster whose jobs keep changing the first
\* Check of every interval looks; so it is gone when the time a Check
\* needs to see it, the grace period and what it can have been held are over
\* (docs/applying-changes.md:222; orphanGraceElapsed, applier.go).
THEOREM OrphansGo == Spec => []OrphanGoes
  <1>1. IInv /\ LInv => OrphanGoes
    <2>1. IInv => (PastDue => DueNext)
      BY Instants
    <2> QED
      BY <2>1 DEF LInv, OrphanDue, OrphanGoes, PastDue
  <1>2. Spec => []LInv
    BY InitLInv, NextLInv, InvariantIInv, PTL DEF Spec
  <1> QED
    BY <1>1, <1>2, InvariantIInv, PTL
===============================================================================
