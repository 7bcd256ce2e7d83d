--------------------------- MODULE ReconcileProofs ----------------------------
(***************************************************************************)
(* Reconcile's type invariant, NoBlindOverwrite, PublishedIsCurrent and    *)
(* (with one Check at a time) DriftIsOwned, for every set of jobs, specs   *)
(* and Checks, and any number of commits, writers, faults and crashes.     *)
(*                                                                         *)
(* A register is checked by Nomad against a token read long before.  What  *)
(* makes the check enough is Sound: wherever a token is kept (a Check's    *)
(* candidates, the queue's rows, the requests on the wire), a job that     *)
(* still has this index still has the spec its drift was detected against. *)
(* Every write of a job takes an index above all tokens, and a purge goes  *)
(* back to index 0, which is the token only of a job that was absent.      *)
(*                                                                         *)
(* What a Check publishes was read over many steps.  What makes it current *)
(* is Mirrors: a Check whose index and commit are those of this instant    *)
(* has in its running jobs, its diffs and the jobs it has left exactly     *)
(* what is so now, for any write since its List would have moved the index.*)
(*                                                                         *)
(* A drift keeps its owner from the publication on (Owned).  The update    *)
(* that owns it might complete as a success and leave the drift: by a plan *)
(* that finds nothing to do, or a register, undone by an older request     *)
(* that lands before the row is settled.  TurnsOK rules that out: what may *)
(* be written to a job was read before what was read later (Passed), so a  *)
(* job past the token of the row in flight is past every request there is. *)
(***************************************************************************)
EXTENDS Reconcile, FiniteSetTheorems, TLAPS

SpecOrAbsent == Specs \cup {Absent}
Job == [spec : SpecOrAbsent, idx : Nat, dead : BOOLEAN]
Body == [token : Nat, spec : SpecOrAbsent, against : SpecOrAbsent]
Intent == [job : Jobs, ref : Nat, op : {"REGISTER"}, body : Body]
UpdateRow == [job : Jobs, ref : Nat, op : {"REGISTER"}, body : Body, status : Status]
Requests == [row : Nat, job : Jobs, token : Nat, spec : SpecOrAbsent, against : SpecOrAbsent]
Candidate == [job : Jobs, token : Nat, spec : SpecOrAbsent, against : SpecOrAbsent]
Diff == Jobs \X {"modified", "missing_from_nomad", "missing_from_hcl"}
CheckState ==
    [pc : {"idle", "list", "gate", "job", "plan", "enqueue"}, commit : Nat, idx : Nat,
     running : SUBSET Jobs, todo : SUBSET Jobs, job : Jobs \cup {Absent}, token : Nat,
     found : SUBSET Diff, cands : SUBSET Candidate]

RepoOK == head \in Nat /\ head >= 1 /\ repo \in [1 .. head -> Trees]

LiveOK ==
    /\ index \in Nat
    /\ live \in [Jobs -> Job]
    /\ \A j \in Jobs : live[j].idx <= index /\ (live[j].idx = 0 => live[j].spec = Absent)

\* The job still being at the token means it still is what was seen.
Sound(j, token, against) ==
    /\ token <= index
    /\ token = 0 => against = Absent
    /\ live[j].idx = token => live[j].spec = against

DifferOK ==
    /\ lastCommit \in Nat /\ lastCommit <= head
    /\ lastIndex \in Nat /\ lastIndex <= index
    /\ drift \subseteq Diff

CheckOK(c) ==
    /\ c \in CheckState
    /\ c.commit <= head /\ (c.pc # "idle" => c.commit >= 1)
    /\ c.idx <= index
    /\ c.pc = "plan" => c.job \in Jobs /\ c.token # 0 /\ c.token <= index
    /\ \A u \in c.cands : Sound(u.job, u.token, u.against)

ChecksOK == chk \in [Checkers -> CheckState] /\ \A k \in Checkers : CheckOK(chk[k])

RowsOK(rows) == rows \in [DOMAIN rows -> UpdateRow]

QueueOK ==
    /\ stamp \in Nat /\ stamp >= 1
    /\ RowsOK(updates)
    /\ \A i \in DOMAIN updates : i \in Nat /\ i < stamp
    /\ \A i \in DOMAIN updates :
          Sound(updates[i].job, updates[i].body.token, updates[i].body.against)

WireOK ==
    /\ wire \subseteq Requests
    /\ \A r \in wire : r.row < stamp /\ Sound(r.job, r.token, r.against)

ApplierOK ==
    /\ ap \in [pc : {"idle", "plan", "reply", "complete", "invalidate"}, row : Nat,
               outcome : Status]
    /\ ap.pc \in {"plan", "reply", "complete"} => ap.row \in InProgress(updates)

IInv == RepoOK /\ LiveOK /\ DifferOK /\ ChecksOK /\ QueueOK /\ WireOK /\ ApplierOK

-----------------------------------------------------------------------------
(* The branch.                                                             *)

\* head of a branch with n commits.
LEMMA MaxInterval == ASSUME NEW n \in Nat, n >= 1 PROVE Max(1 .. n) = n
  <1>1. n \in 1 .. n /\ \A y \in 1 .. n : n >= y
    OBVIOUS
  <1>2. \A x \in 1 .. n : (\A y \in 1 .. n : x >= y) => x = n
    OBVIOUS
  <1> QED
    BY <1>1, <1>2 DEF Max

-----------------------------------------------------------------------------
(* The queue's operations.                                                 *)

\* Rows that are left carry the intents they had.
Kept(new, rows) ==
    /\ RowsOK(new)
    /\ DOMAIN new \subseteq DOMAIN rows
    /\ \A i \in DOMAIN new : new[i].job = rows[i].job /\ new[i].body = rows[i].body

\* Keep deletes rows.
LEMMA KeepKept ==
    ASSUME NEW rows, NEW S, RowsOK(rows)
    PROVE  /\ Kept(Keep(rows, S), rows)
           /\ InProgress(rows) \subseteq S => InProgress(rows) \subseteq InProgress(Keep(rows, S))
  <1> DEFINE new == Keep(rows, S)
  <1>1. /\ DOMAIN new = DOMAIN rows \cap S
        /\ \A i \in DOMAIN new : new[i] = rows[i]
        /\ new = [i \in DOMAIN new |-> new[i]]
    BY DEF Keep
  <1> HIDE DEF new
  <1>2. RowsOK(new)
    BY <1>1 DEF RowsOK
  <1>3. InProgress(rows) \subseteq S => InProgress(rows) \subseteq InProgress(new)
    BY <1>1 DEF InProgress
  <1>4. Kept(new, rows)
    BY <1>1, <1>2 DEF Kept
  <1> QED
    BY <1>3, <1>4 DEF new

\* prune takes no row in flight.
LEMMA PruneKept ==
    ASSUME NEW rows, RowsOK(rows)
    PROVE  Kept(Prune(rows), rows) /\ InProgress(rows) \subseteq InProgress(Prune(rows))
  <1> DEFINE S == {i \in DOMAIN rows : i \in Settled(rows) =>
                     Cardinality({k \in Settled(rows) : k >= i}) <= MaxTerminalUpdates}
  <1>1. InProgress(rows) \subseteq S
    BY DEF InProgress, Settled, TerminalStatus
  <1>2. Prune(rows) = Keep(rows, S)
    BY DEF Prune
  <1> HIDE DEF S
  <1> QED
    BY <1>1, <1>2, KeepKept

\* Nor does superseding, or dropping the retried row.
LEMMA SupersedeKept ==
    ASSUME NEW rows, NEW u, RowsOK(rows)
    PROVE  Kept(Supersede(rows, u), rows) /\ InProgress(rows) \subseteq InProgress(Supersede(rows, u))
  <1> DEFINE new == Supersede(rows, u)
  <1>1. /\ DOMAIN new = DOMAIN rows
        /\ new = [i \in DOMAIN new |-> new[i]]
        /\ \A i \in DOMAIN rows :
              new[i] = IF rows[i].job = u.job /\ i \in Pending(rows)
                       THEN [rows[i] EXCEPT !.status = "SUPERSEDED"] ELSE rows[i]
    BY DEF Supersede
  <1> HIDE DEF new
  <1>2. \A i \in DOMAIN rows :
           /\ new[i] \in UpdateRow
           /\ new[i].job = rows[i].job /\ new[i].body = rows[i].body
           /\ i \in InProgress(rows) => new[i] = rows[i]
    BY <1>1 DEF RowsOK, UpdateRow, Status, TerminalStatus, Pending, InProgress
  <1>3. Kept(new, rows)
    BY <1>1, <1>2 DEF Kept, RowsOK
  <1>4. InProgress(rows) \subseteq InProgress(new)
    BY <1>1, <1>2 DEF InProgress
  <1> QED
    BY <1>3, <1>4 DEF new

\* Dropping the row of a retried intent takes no row in flight.
LEMMA DropRetriedKept ==
    ASSUME NEW rows, NEW u, RowsOK(rows)
    PROVE  /\ Kept(DropRetried(rows, u), rows)
           /\ InProgress(rows) \subseteq InProgress(DropRetried(rows, u))
  <1> DEFINE S == DOMAIN rows \ First(SameUpdateID(rows, u) \cap Settled(rows))
  <1>1. InProgress(rows) \subseteq S
    BY DEF InProgress, First, Settled, TerminalStatus
  <1>2. DropRetried(rows, u) = Keep(rows, S)
    BY DEF DropRetried
  <1> HIDE DEF S
  <1> QED
    BY <1>1, <1>2, KeepKept

\* Enqueue: a row has the intent it had or the new one, and the row in flight
\* stays in flight.
LEMMA EnqueueRows ==
    ASSUME NEW rows, NEW n, NEW u \in Intent, RowsOK(rows), n \notin DOMAIN rows
    PROVE  /\ RowsOK(Enqueue(rows, n, u))
           /\ DOMAIN Enqueue(rows, n, u) \subseteq
                 DOMAIN rows \cup (IF Claiming(rows, u) # {} THEN {} ELSE {n})
           /\ \A i \in DOMAIN Enqueue(rows, n, u) :
                 \/ /\ i \in DOMAIN rows
                    /\ Enqueue(rows, n, u)[i].job = rows[i].job
                    /\ Enqueue(rows, n, u)[i].body = rows[i].body
                 \/ Enqueue(rows, n, u)[i].job = u.job /\ Enqueue(rows, n, u)[i].body = u.body
           /\ InProgress(rows) \subseteq InProgress(Enqueue(rows, n, u))
  <1>1. CASE Claiming(rows, u) # {}
    <2> DEFINE new == Refresh(rows, u)
    <2>1. /\ DOMAIN new = DOMAIN rows
          /\ new = [i \in DOMAIN new |-> new[i]]
          /\ \A i \in DOMAIN rows :
                new[i] = IF i \in Claiming(rows, u) \cap Pending(rows)
                         THEN [rows[i] EXCEPT !.body = u.body] ELSE rows[i]
      BY DEF Refresh
    <2>2. Enqueue(rows, n, u) = new
      BY <1>1 DEF Enqueue
    <2>3. \A i \in Claiming(rows, u) : rows[i].job = u.job
      BY DEF Claiming, First, SameUpdateID
    <2> HIDE DEF new
    <2>4. \A i \in DOMAIN rows :
             /\ new[i] \in UpdateRow
             /\ new[i].job = rows[i].job /\ new[i].status = rows[i].status
             /\ new[i].body = rows[i].body \/ (rows[i].job = u.job /\ new[i].body = u.body)
      BY <2>1, <2>3 DEF RowsOK, UpdateRow, Intent
    <2>5. RowsOK(new)
      BY <2>1, <2>4 DEF RowsOK
    <2>6. InProgress(rows) \subseteq InProgress(new)
      BY <2>1, <2>4 DEF InProgress
    <2> QED
      BY <2>1, <2>2, <2>4, <2>5, <2>6
  <1>2. CASE Claiming(rows, u) = {}
    <2> DEFINE marked == Supersede(rows, u)
               left == DropRetried(marked, u)
               added == AppendRow(left, n, u)
               new == Prune(added)
    <2>1. Enqueue(rows, n, u) = new
      BY <1>2 DEF Enqueue
    <2>2. Kept(marked, rows) /\ InProgress(rows) \subseteq InProgress(marked)
      BY SupersedeKept
    <2> HIDE DEF marked
    <2>3. Kept(left, marked) /\ InProgress(marked) \subseteq InProgress(left)
      BY <2>2, DropRetriedKept DEF Kept
    <2>4. Kept(left, rows) /\ InProgress(rows) \subseteq InProgress(left)
      BY <2>2, <2>3 DEF Kept
    <2> HIDE DEF left
    <2>5. /\ DOMAIN added = DOMAIN left \cup {n}
          /\ added = [i \in DOMAIN added |-> added[i]]
          /\ added[n] = [job |-> u.job, ref |-> u.ref, op |-> u.op, body |-> u.body,
                         status |-> "PENDING"]
          /\ \A i \in DOMAIN left : i # n /\ added[i] = left[i]
      <3>1. n \notin DOMAIN left
        BY <2>4 DEF Kept
      <3> QED
        BY <3>1 DEF AppendRow
    <2> HIDE DEF added
    <2>6. added[n] \in UpdateRow /\ added[n].job = u.job /\ added[n].body = u.body
      BY <2>5 DEF UpdateRow, Intent, Status
    <2>7. RowsOK(added)
      BY <2>4, <2>5, <2>6 DEF RowsOK, Kept
    <2>8. InProgress(rows) \subseteq InProgress(added)
      BY <2>4, <2>5 DEF InProgress
    <2>9. Kept(new, added) /\ InProgress(added) \subseteq InProgress(new)
      BY <2>7, PruneKept
    <2> HIDE DEF new
    <2>10. DOMAIN new \subseteq DOMAIN rows \cup {n}
      BY <2>4, <2>5, <2>9 DEF Kept
    <2>11. \A i \in DOMAIN new :
              \/ i \in DOMAIN rows /\ new[i].job = rows[i].job /\ new[i].body = rows[i].body
              \/ new[i].job = u.job /\ new[i].body = u.body
      BY <2>4, <2>5, <2>6, <2>9 DEF Kept
    <2> QED
      BY <1>2, <2>1, <2>8, <2>9, <2>10, <2>11 DEF Kept
  <1> QED
    BY <1>1, <1>2

\* NextPending puts a waiting row in flight.
LEMMA MarkKept ==
    ASSUME NEW rows, NEW i \in Pending(rows), RowsOK(rows)
    PROVE  Kept(MarkInProgress(rows, i), rows) /\ i \in InProgress(MarkInProgress(rows, i))
  <1> DEFINE new == MarkInProgress(rows, i)
  <1>1. i \in DOMAIN rows
    BY DEF Pending
  <1>2. /\ DOMAIN new = DOMAIN rows
        /\ new = [k \in DOMAIN new |-> new[k]]
        /\ \A k \in DOMAIN rows :
              new[k] = IF k = i THEN [rows[k] EXCEPT !.status = "IN_PROGRESS"] ELSE rows[k]
    BY DEF MarkInProgress, RowsOK
  <1> HIDE DEF new
  <1>3. \A k \in DOMAIN rows :
           /\ new[k] \in UpdateRow
           /\ new[k].job = rows[k].job /\ new[k].body = rows[k].body
           /\ k = i => new[k].status = "IN_PROGRESS"
    BY <1>2 DEF RowsOK, UpdateRow, Status
  <1> QED
    BY <1>1, <1>2, <1>3 DEF Kept, RowsOK, InProgress, new

\* Complete settles a row.
LEMMA CompleteKept ==
    ASSUME NEW rows, NEW u, NEW outcome \in Status, RowsOK(rows)
    PROVE  Kept(Complete(rows, u, outcome), rows)
  <1> DEFINE done == First(SameUpdateID(rows, u) \cap InProgress(rows))
             new == [i \in DOMAIN rows |->
                        IF i \in done THEN [rows[i] EXCEPT !.status = outcome] ELSE rows[i]]
  <1>1. CASE done = {}
    BY <1>1 DEF Complete, Kept
  <1>2. CASE done # {}
    <2>1. Complete(rows, u, outcome) = Prune(new)
      BY <1>2 DEF Complete
    <2>2. /\ DOMAIN new = DOMAIN rows
          /\ new = [i \in DOMAIN new |-> new[i]]
          /\ \A i \in DOMAIN rows :
                new[i] = IF i \in done THEN [rows[i] EXCEPT !.status = outcome] ELSE rows[i]
      OBVIOUS
    <2> HIDE DEF new, done
    <2>3. \A i \in DOMAIN rows :
             new[i] \in UpdateRow /\ new[i].job = rows[i].job /\ new[i].body = rows[i].body
      BY <2>2 DEF RowsOK, UpdateRow
    <2>4. Kept(new, rows)
      BY <2>2, <2>3 DEF Kept, RowsOK
    <2>5. Kept(Prune(new), new)
      BY <2>4, PruneKept DEF Kept
    <2> QED
      BY <2>1, <2>4, <2>5 DEF Kept
  <1> QED
    BY <1>1, <1>2

-----------------------------------------------------------------------------
(* The world moves under the Checks, the queue and the wire.               *)

\* Indexes and the branch grow, and what was sound still is.
Grows ==
    /\ LiveOK' /\ index <= index'
    /\ \A j \in Jobs, token \in Nat, against \in SpecOrAbsent :
          Sound(j, token, against) => Sound(j, token, against)'

Later == Grows /\ head' \in Nat /\ head <= head'

\* A job write takes an index above every token.
LEMMA WrittenGrows ==
    ASSUME LiveOK, NEW j \in Jobs, NEW spec \in SpecOrAbsent, NEW dead \in BOOLEAN,
           Written(j, spec, dead)
    PROVE  Grows
  <1>1. PICK n \in Nat : n = index + 1
    BY DEF LiveOK
  <1>2. PICK table : table = [live EXCEPT ![j] = [spec |-> spec, idx |-> n, dead |-> dead]]
    OBVIOUS
  <1>3. index' = n /\ live' = table
    BY <1>1, <1>2 DEF Written
  <1>4. /\ table \in [Jobs -> Job] /\ table[j].idx = n
        /\ \A i \in Jobs : i # j => table[i] = live[i]
    BY <1>2 DEF LiveOK, Job
  <1>5. \A i \in Jobs : live[i].idx \in Nat /\ live[i].idx <= index
    BY DEF LiveOK, Job
  <1>6. index <= n /\ n # 0 /\ \A token \in Nat : token <= index => token <= n /\ token # n
    BY <1>1 DEF LiveOK
  <1>7. LiveOK'
    <2>1. \A i \in Jobs : table[i].idx <= n /\ (table[i].idx = 0 => table[i].spec = Absent)
      <3>1. \A i \in Jobs : i # j => live[i].idx <= n
        BY <1>1, <1>5 DEF LiveOK
      <3> QED
        BY <3>1, <1>4, <1>6 DEF LiveOK
    <2> QED
      BY <1>3, <1>4, <2>1 DEF LiveOK
  <1>8. ASSUME NEW i \in Jobs, NEW token \in Nat, NEW against \in SpecOrAbsent,
               Sound(i, token, against)
        PROVE  Sound(i, token, against)'
    <2>1. table[i].idx = token => table[i].spec = against
      BY <1>4, <1>6, <1>8 DEF Sound
    <2> QED
      BY <1>3, <1>6, <1>8, <2>1 DEF Sound
  <1> QED
    BY <1>3, <1>6, <1>7, <1>8 DEF Grows

\* A purged job is at index 0, the token of what was absent.
LEMMA PurgeGrows ==
    ASSUME LiveOK, NEW j \in Jobs, OperatorPurge(j)
    PROVE  Grows
  <1>1. PICK n \in Nat : n = index + 1
    BY DEF LiveOK
  <1>2. PICK table : table = [live EXCEPT ![j] = NotRegistered]
    OBVIOUS
  <1>3. index' = n /\ live' = table
    BY <1>1, <1>2 DEF OperatorPurge
  <1>4. /\ table \in [Jobs -> Job] /\ table[j].idx = 0 /\ table[j].spec = Absent
        /\ \A i \in Jobs : i # j => table[i] = live[i]
    BY <1>2 DEF LiveOK, Job, NotRegistered, SpecOrAbsent
  <1>5. \A i \in Jobs : live[i].idx \in Nat /\ live[i].idx <= index
    BY DEF LiveOK, Job
  <1>6. index <= n /\ 0 <= n /\ \A token \in Nat : token <= index => token <= n
    BY <1>1 DEF LiveOK
  <1>7. LiveOK'
    <2>1. \A i \in Jobs : table[i].idx <= n /\ (table[i].idx = 0 => table[i].spec = Absent)
      BY <1>4, <1>5, <1>6 DEF LiveOK
    <2> QED
      BY <1>3, <1>4, <2>1 DEF LiveOK
  <1>8. ASSUME NEW i \in Jobs, NEW token \in Nat, NEW against \in SpecOrAbsent,
               Sound(i, token, against)
        PROVE  Sound(i, token, against)'
    <2>1. table[i].idx = token => table[i].spec = against
      BY <1>4, <1>8 DEF Sound
    <2> QED
      BY <1>3, <1>6, <1>8, <2>1 DEF Sound
  <1> QED
    BY <1>3, <1>6, <1>7, <1>8 DEF Grows

\* A status change moves the table's index alone.
LEMMA StatusGrows ==
    ASSUME LiveOK, StatusWrite
    PROVE  Grows
  <1>1. PICK n \in Nat : n = index + 1
    BY DEF LiveOK
  <1>2. index' = n /\ live' = live
    BY <1>1 DEF StatusWrite
  <1>3. index <= n /\ \A token \in Nat : token <= index => token <= n
    BY <1>1 DEF LiveOK
  <1>4. LiveOK'
    <2>1. \A i \in Jobs : live[i].idx <= n /\ (live[i].idx = 0 => live[i].spec = Absent)
      BY <1>3 DEF LiveOK, Job
    <2> QED
      BY <1>2, <2>1 DEF LiveOK
  <1> QED
    BY <1>2, <1>3, <1>4 DEF Grows, Sound

\* Where nothing is written nothing moves.
LEMMA StillGrows ==
    ASSUME LiveOK, UNCHANGED <<live, index>>
    PROVE  Grows
  <1>1. index <= index
    BY DEF LiveOK
  <1> QED
    BY <1>1 DEF Grows, LiveOK, Sound

\* What a Check knows stays right.
LEMMA CheckLater ==
    ASSUME RepoOK, LiveOK, Later
    PROVE  \A c : CheckOK(c) => CheckOK(c)'
  <1> SUFFICES ASSUME NEW c, CheckOK(c)
               PROVE  CheckOK(c)'
    OBVIOUS
  <1>1. /\ head \in Nat /\ head' \in Nat /\ head <= head'
        /\ index \in Nat /\ index' \in Nat /\ index <= index'
    BY DEF RepoOK, LiveOK, Later, Grows
  <1>2. c \in CheckState /\ c.commit \in Nat /\ c.idx \in Nat /\ c.token \in Nat
    BY DEF CheckOK, CheckState
  <1>3. c.commit <= head' /\ c.idx <= index'
    BY <1>1, <1>2 DEF CheckOK
  <1>4. c.pc = "plan" => c.token <= index'
    BY <1>1, <1>2 DEF CheckOK
  <1>5. \A u \in c.cands : Sound(u.job, u.token, u.against)'
    BY <1>2 DEF CheckOK, CheckState, Candidate, Later, Grows
  <1> QED
    BY <1>2, <1>3, <1>4, <1>5 DEF CheckOK

\* Every Check that runs stays right.
LEMMA ChecksLater ==
    ASSUME RepoOK, LiveOK, ChecksOK, Later, chk' = chk
    PROVE  ChecksOK'
  BY CheckLater DEF ChecksOK

\* What the queue's rows know stays right, if they carry what they did.
LEMMA QueueLater ==
    ASSUME LiveOK, QueueOK, Later, Kept(updates', updates), stamp' = stamp
    PROVE  QueueOK'
  <1>1. PICK new : new = updates'
    OBVIOUS
  <1>2. RowsOK(new) /\ \A i \in DOMAIN new : new[i] \in UpdateRow /\ i \in DOMAIN updates
    BY <1>1 DEF Kept, RowsOK
  <1>3. \A i \in DOMAIN new : i \in Nat /\ i < stamp
    BY <1>2 DEF QueueOK
  <1>4. ASSUME NEW i \in DOMAIN new
        PROVE  Sound(new[i].job, new[i].body.token, new[i].body.against)'
    <2>1. /\ new[i].job \in Jobs /\ new[i].body.token \in Nat
          /\ new[i].body.against \in SpecOrAbsent
      BY <1>2 DEF UpdateRow, Body
    <2>2. Sound(new[i].job, new[i].body.token, new[i].body.against)
      BY <1>1, <1>2 DEF QueueOK, Kept
    <2> QED
      BY <2>1, <2>2 DEF Later, Grows
  <1> QED
    BY <1>1, <1>2, <1>3, <1>4 DEF QueueOK

\* An untouched queue is kept.
LEMMA SameKept == ASSUME NEW rows, RowsOK(rows) PROVE Kept(rows, rows)
  BY DEF Kept

\* The queue stays right while only Nomad and the branch move.
LEMMA SameQueueLater ==
    ASSUME LiveOK, QueueOK, Later, UNCHANGED queue
    PROVE  QueueOK'
  <1>1. Kept(updates', updates) /\ stamp' = stamp
    BY SameKept DEF QueueOK, queue
  <1> QED
    BY <1>1, QueueLater

\* What is on the wire stays right.
LEMMA WireLater ==
    ASSUME LiveOK, QueueOK, WireOK, Later, wire' \subseteq wire,
           stamp' \in Nat, stamp <= stamp'
    PROVE  WireOK'
  <1>1. PICK sent : sent = wire'
    OBVIOUS
  <1>2. ASSUME NEW r \in sent
        PROVE  r \in Requests /\ r.row < stamp' /\ Sound(r.job, r.token, r.against)'
    <2>1. r \in Requests /\ r.row < stamp /\ Sound(r.job, r.token, r.against)
      BY <1>1 DEF WireOK
    <2>2. r.row \in Nat /\ stamp \in Nat
      BY <2>1 DEF Requests, QueueOK
    <2>3. r.row < stamp'
      BY <2>1, <2>2
    <2>4. Sound(r.job, r.token, r.against)'
      BY <2>1 DEF Requests, Later, Grows
    <2> QED
      BY <2>1, <2>3, <2>4
  <1> QED
    BY <1>1, <1>2 DEF WireOK

\* So do the commit, the index and the drift last published.
LEMMA DifferLater ==
    ASSUME RepoOK, LiveOK, DifferOK, Later, UNCHANGED differ
    PROVE  DifferOK'
  <1>1. /\ head \in Nat /\ head' \in Nat /\ head <= head'
        /\ index \in Nat /\ index' \in Nat /\ index <= index'
    BY DEF RepoOK, LiveOK, Later, Grows
  <1>2. /\ lastCommit \in Nat /\ lastCommit <= head /\ lastIndex \in Nat /\ lastIndex <= index
        /\ drift \subseteq Diff
    BY DEF DifferOK
  <1>3. lastCommit <= head' /\ lastIndex <= index'
    BY <1>1, <1>2
  <1> QED
    BY <1>2, <1>3 DEF DifferOK, differ

\* A step of the outside: nothing of the process changes.
LEMMA OutsideStep ==
    ASSUME IInv, Later, RepoOK', wire' = wire, UNCHANGED <<queue, differ, chk, ap>>
    PROVE  IInv'
  <1>1. LiveOK' /\ ChecksOK' /\ DifferOK' /\ QueueOK'
    BY ChecksLater, DifferLater, SameQueueLater DEF IInv, Later, Grows
  <1>2. WireOK'
    <2>1. stamp' \in Nat /\ stamp <= stamp'
      BY DEF IInv, QueueOK, queue
    <2> QED
      BY <2>1, WireLater DEF IInv
  <1>3. ApplierOK'
    BY DEF IInv, ApplierOK, InProgress, queue
  <1> QED
    BY <1>1, <1>2, <1>3 DEF IInv

-----------------------------------------------------------------------------
(* The Checks.                                                             *)

\* A Check that has not begun holds nothing.
LEMMA IdleOK == ASSUME RepoOK, LiveOK PROVE CheckOK(Idle)
  BY DEF CheckOK, CheckState, Idle, RepoOK, LiveOK

\* One Check moves to a right state, and Nomad, the branch and the rest stay.
LEMMA StepOK ==
    ASSUME IInv, NEW k \in Checkers, NEW c, CheckOK(c), Step(k, c), UNCHANGED nomad
    PROVE  Later /\ RepoOK' /\ LiveOK' /\ ChecksOK'
  <1>1. repo' = repo /\ live' = live /\ index' = index /\ head' = head
    BY DEF Step, nomad, head
  <1>2. Grows
    BY <1>1, StillGrows DEF IInv
  <1>3. Later /\ RepoOK' /\ LiveOK'
    BY <1>1, <1>2 DEF IInv, Later, Grows, RepoOK
  <1>4. CheckOK(c)' /\ \A i \in Checkers : CheckOK(chk[i]) /\ (chk'[i] = IF i = k THEN c ELSE chk[i])
    BY <1>3, CheckLater DEF IInv, ChecksOK, Step
  <1>5. \A i \in Checkers : CheckOK(chk[i])'
    <2>1. \A b : CheckOK(b) => CheckOK(b)'
      BY <1>3, CheckLater DEF IInv
    <2>2. PICK new : new = chk'
      OBVIOUS
    <2>3. \A i \in Checkers : CheckOK(new[i])'
      BY <1>4, <2>1, <2>2
    <2> QED
      BY <2>2, <2>3
  <1>6. chk' \in [Checkers -> CheckState]
    <2>1. c \in CheckState
      BY DEF CheckOK
    <2> QED
      BY <2>1 DEF IInv, ChecksOK, Step
  <1> QED
    BY <1>3, <1>5, <1>6 DEF ChecksOK

\* A step of a Check between its reads and its results.
LEMMA InsideStep ==
    ASSUME IInv, NEW k \in Checkers, NEW c, CheckOK(c), Step(k, c),
           UNCHANGED <<nomad, queue, differ, ap>>
    PROVE  IInv'
  <1>1. Later /\ RepoOK' /\ LiveOK' /\ ChecksOK'
    BY StepOK
  <1>2. DifferOK' /\ QueueOK'
    BY <1>1, DifferLater, SameQueueLater DEF IInv
  <1>3. WireOK'
    <2>1. stamp' \in Nat /\ stamp <= stamp' /\ wire' \subseteq wire
      BY DEF IInv, QueueOK, queue, nomad
    <2> QED
      BY <1>1, <2>1, WireLater DEF IInv
  <1>4. ApplierOK'
    BY DEF IInv, ApplierOK, InProgress, queue
  <1> QED
    BY <1>1, <1>2, <1>3, <1>4 DEF IInv

\* A candidate is sound when its token is.
LEMMA DetectedOK ==
    ASSUME RepoOK, NEW c, CheckOK(c), c.pc # "idle", NEW j \in Jobs,
           NEW type \in {"modified", "missing_from_nomad", "missing_from_hcl"},
           NEW token \in Nat, NEW against \in SpecOrAbsent, Sound(j, token, against)
    PROVE  CheckOK(Detected(c, j, type, token, against))
  <1> DEFINE u == [job |-> j, token |-> token, spec |-> repo[c.commit][j], against |-> against]
             new == Detected(c, j, type, token, against)
  <1>1. u \in Candidate /\ u.job = j /\ u.token = token /\ u.against = against
    <2>1. c.commit \in 1 .. head
      BY DEF CheckOK, CheckState, RepoOK
    <2>2. repo[c.commit][j] \in SpecOrAbsent
      BY <2>1 DEF RepoOK, Trees, SpecOrAbsent
    <2> QED
      BY <2>2 DEF Candidate
  <1>2. c \in CheckState
    BY DEF CheckOK
  <1>3. new = [c EXCEPT !.pc = "job", !.job = Absent, !.token = 0,
                        !.found = c.found \cup {<<j, type>>}, !.cands = c.cands \cup {u}]
    BY <1>2 DEF Detected, CheckState
  <1>4. <<j, type>> \in Diff
    BY DEF Diff
  <1> HIDE DEF u, new
  <1>5. /\ new \in CheckState /\ new.pc = "job" /\ new.commit = c.commit /\ new.idx = c.idx
        /\ new.cands = c.cands \cup {u}
    BY <1>1, <1>2, <1>3, <1>4 DEF CheckState
  <1>6. \A b \in new.cands : Sound(b.job, b.token, b.against)
    BY <1>1, <1>5 DEF CheckOK
  <1>7. CheckOK(new)
    BY <1>5, <1>6 DEF CheckOK
  <1> QED
    BY <1>7 DEF new

\* The steps that change nothing but the Check.
LEMMA ReadingSteps ==
    ASSUME IInv, NEW k \in Checkers,
           Begin(k) \/ List(k) \/ Skip(k) \/ Parse(k) \/ Info(k) \/ Plan(k)
    PROVE  IInv'
  <1>0. /\ RepoOK /\ LiveOK /\ CheckOK(chk[k]) /\ chk[k] \in CheckState
        /\ head \in Nat /\ head >= 1 /\ index \in Nat
    BY DEF IInv, ChecksOK, RepoOK, LiveOK
  <1>1. CASE Begin(k)
    <2> DEFINE c == [chk[k] EXCEPT !.pc = "list", !.commit = head]
    <2>1. /\ c \in CheckState /\ c.pc = "list" /\ c.commit = head
          /\ c.idx = chk[k].idx /\ c.cands = chk[k].cands
      BY <1>0 DEF CheckState
    <2>2. Step(k, c) /\ UNCHANGED <<nomad, queue, differ, ap>>
      BY <1>1 DEF Begin
    <2> HIDE DEF c
    <2>3. CheckOK(c)
      BY <1>0, <2>1 DEF CheckOK
    <2> QED
      BY <2>2, <2>3, InsideStep
  <1>2. CASE List(k)
    <2> DEFINE c == [chk[k] EXCEPT !.pc = "gate", !.idx = index, !.running = Running]
               d == [chk[k] EXCEPT !.pc = "gate"]
    <2>1. At(k, "list") /\ UNCHANGED <<nomad, queue, differ, ap>> /\ (Step(k, c) \/ Step(k, d))
      BY <1>2 DEF List
    <2>2. Running \subseteq Jobs
      BY DEF Running
    <2>3. /\ c \in CheckState /\ c.pc = "gate" /\ c.commit = chk[k].commit
          /\ c.idx = index /\ c.cands = chk[k].cands
          /\ d \in CheckState /\ d.pc = "gate" /\ d.commit = chk[k].commit
          /\ d.idx = chk[k].idx /\ d.cands = chk[k].cands
      BY <1>0, <2>2 DEF CheckState
    <2> HIDE DEF c, d
    <2>4. CheckOK(c) /\ CheckOK(d)
      BY <1>0, <2>1, <2>3 DEF CheckOK, At
    <2> QED
      BY <2>1, <2>4, InsideStep
  <1>3. CASE Skip(k)
    <2>1. Step(k, Idle) /\ UNCHANGED <<nomad, queue, differ, ap>>
      BY <1>3 DEF Skip
    <2> QED
      BY <1>0, <2>1, IdleOK, InsideStep
  <1>4. CASE Parse(k)
    <2>1. PICK parsed \in SUBSET Defined(k) :
             Step(k, [chk[k] EXCEPT !.pc = "job", !.todo = parsed, !.running = {},
                        !.found = (chk[k].running \ parsed) \X {"missing_from_hcl"}])
      BY <1>4 DEF Parse
    <2> DEFINE c == [chk[k] EXCEPT !.pc = "job", !.todo = parsed, !.running = {},
                        !.found = (chk[k].running \ parsed) \X {"missing_from_hcl"}]
    <2>2. parsed \subseteq Jobs /\ (chk[k].running \ parsed) \X {"missing_from_hcl"} \subseteq Diff
      BY <1>0 DEF Defined, CheckState, Diff
    <2>3. CheckOK(c)
      BY <1>0, <1>4, <2>2 DEF CheckOK, CheckState, Parse, At
    <2>4. UNCHANGED <<nomad, queue, differ, ap>>
      BY <1>4 DEF Parse
    <2> QED
      BY <2>1, <2>3, <2>4, InsideStep
  <1>5. CASE Info(k)
    <2>1. PICK j \in chk[k].todo :
            LET c == [chk[k] EXCEPT !.todo = @ \ {j}]
            IN  /\ At(k, "job")
                /\ \/ Step(k, Detected(c, j, "missing_from_nomad", live[j].idx, live[j].spec))
                   \/ /\ live[j].spec # Absent
                      /\ Step(k, [c EXCEPT !.pc = "plan", !.job = j, !.token = live[j].idx])
                   \/ Step(k, c)
                /\ UNCHANGED <<nomad, queue, differ, ap>>
      BY <1>5 DEF Info
    <2> DEFINE c == [chk[k] EXCEPT !.todo = chk[k].todo \ {j}]
               d == [c EXCEPT !.pc = "plan", !.job = j, !.token = live[j].idx]
    <2>2. j \in Jobs /\ At(k, "job")
      BY <1>0, <2>1 DEF CheckState
    <2>3. /\ live[j].idx \in Nat /\ live[j].idx <= index /\ live[j].spec \in SpecOrAbsent
          /\ Sound(j, live[j].idx, live[j].spec)
          /\ live[j].spec # Absent => live[j].idx # 0
      BY <1>0, <2>2 DEF LiveOK, Job, Sound
    <2>4. CheckOK(c) /\ c.pc # "idle" /\ c \in CheckState
      BY <1>0, <2>2 DEF CheckOK, CheckState, At
    <2>5. /\ UNCHANGED <<nomad, queue, differ, ap>>
          /\ \/ Step(k, Detected(c, j, "missing_from_nomad", live[j].idx, live[j].spec))
             \/ live[j].spec # Absent /\ Step(k, d)
             \/ Step(k, c)
      BY <1>0, <2>1 DEF CheckState
    <2> HIDE DEF c
    <2>6. CheckOK(Detected(c, j, "missing_from_nomad", live[j].idx, live[j].spec))
      BY <1>0, <2>2, <2>3, <2>4, DetectedOK
    <2>7. live[j].spec # Absent => CheckOK(d)
      <3>1. /\ d \in CheckState /\ d.pc = "plan" /\ d.job = j /\ d.token = live[j].idx
            /\ d.commit = c.commit /\ d.idx = c.idx /\ d.cands = c.cands
        BY <2>2, <2>3, <2>4 DEF CheckState
      <3> HIDE DEF d
      <3> QED
        BY <2>2, <2>3, <2>4, <3>1 DEF CheckOK
    <2> HIDE DEF d
    <2> QED
      BY <2>4, <2>5, <2>6, <2>7, InsideStep
  <1>6. CASE Plan(k)
    <2> DEFINE j == chk[k].job
               c == [chk[k] EXCEPT !.pc = "job", !.job = Absent, !.token = 0]
               d == Detected(chk[k], j, "modified", chk[k].token, live[j].spec)
    <2>1. At(k, "plan") /\ UNCHANGED <<nomad, queue, differ, ap>> /\ (Step(k, c) \/ Step(k, d))
      BY <1>6 DEF Plan
    <2>2. j \in Jobs /\ chk[k].token \in Nat /\ chk[k].token # 0 /\ chk[k].token <= index
      BY <1>0, <2>1 DEF CheckOK, CheckState, At
    <2>3. Sound(j, chk[k].token, live[j].spec) /\ live[j].spec \in SpecOrAbsent
      BY <1>0, <2>2 DEF LiveOK, Job, Sound
    <2>4. CheckOK(d)
      BY <1>0, <2>1, <2>2, <2>3, DetectedOK DEF At
    <2>5. CheckOK(c)
      BY <1>0, <2>1 DEF CheckOK, CheckState, At
    <2> HIDE DEF c, d
    <2> QED
      BY <2>1, <2>4, <2>5, InsideStep
  <1> QED
    BY <1>1, <1>2, <1>3, <1>4, <1>5, <1>6

\* A Check on its way to the queue keeps some of its candidates.
LEMMA EnqueuingOK ==
    ASSUME IInv, NEW k \in Checkers, chk[k].pc # "idle", NEW cands \in SUBSET chk[k].cands
    PROVE  CheckOK(Enqueuing(k, cands))
  <1>1. CheckOK(chk[k]) /\ chk[k] \in CheckState /\ CheckOK(Idle) /\ index \in Nat
    BY IdleOK DEF IInv, ChecksOK, LiveOK
  <1>2. CASE cands = {}
    BY <1>1, <1>2 DEF Enqueuing
  <1>3. CASE cands # {}
    <2> DEFINE c == [Idle EXCEPT !.pc = "enqueue", !.commit = chk[k].commit, !.cands = cands]
    <2>1. /\ c \in CheckState /\ c.pc = "enqueue" /\ c.commit = chk[k].commit
          /\ c.idx = 0 /\ c.cands = cands
      BY <1>1 DEF Idle, CheckState
    <2>2. Enqueuing(k, cands) = c
      BY <1>3 DEF Enqueuing
    <2> HIDE DEF c
    <2>3. CheckOK(c)
      BY <1>1, <2>1 DEF CheckOK
    <2> QED
      BY <2>2, <2>3
  <1> QED
    BY <1>2, <1>3

\* The Check publishes its results.
LEMMA CommitResultsStep ==
    ASSUME IInv, NEW k \in Checkers, CommitResults(k)
    PROVE  IInv'
  <1> DEFINE c == Enqueuing(k, chk[k].cands)
  <1>1. CheckOK(chk[k]) /\ chk[k] \in CheckState /\ chk[k].pc # "idle"
    BY DEF IInv, ChecksOK, CommitResults, At
  <1>2. CheckOK(c) /\ Step(k, c) /\ UNCHANGED <<nomad, queue, ap>>
    BY <1>1, EnqueuingOK DEF CommitResults
  <1> HIDE DEF c
  <1>3. Later /\ RepoOK' /\ LiveOK' /\ ChecksOK' /\ head' = head /\ index' = index
    BY <1>2, StepOK DEF Step, nomad, head
  <1>4. DifferOK'
    <2>1. /\ drift' = chk[k].found /\ lastCommit' = chk[k].commit
          /\ lastIndex' = lastIndex \/ lastIndex' = chk[k].idx
      BY DEF CommitResults
    <2> QED
      BY <1>1, <1>3, <2>1 DEF IInv, DifferOK, CheckOK, CheckState
  <1>5. QueueOK'
    BY <1>2, <1>3, SameQueueLater DEF IInv
  <1>6. WireOK'
    <2>1. stamp' \in Nat /\ stamp <= stamp' /\ wire' \subseteq wire
      BY <1>2 DEF IInv, QueueOK, queue, nomad
    <2> QED
      BY <1>3, <2>1, WireLater DEF IInv
  <1>7. ApplierOK'
    BY <1>2 DEF IInv, ApplierOK, InProgress, queue
  <1> QED
    BY <1>3, <1>4, <1>5, <1>6, <1>7 DEF IInv

\* A candidate becomes a row, or refreshes one.
LEMMA EnqueueStep ==
    ASSUME IInv, NEW k \in Checkers, EnqueueCandidate(k)
    PROVE  IInv'
  <1>1. PICK u \in chk[k].cands :
          LET intent == [job |-> u.job, ref |-> chk[k].commit, op |-> "REGISTER",
                         body |-> [token |-> u.token, spec |-> u.spec, against |-> u.against]]
          IN  /\ updates' = Enqueue(updates, stamp, intent)
              /\ stamp' = IF Claiming(updates, intent) # {} THEN stamp ELSE stamp + 1
              /\ Step(k, Enqueuing(k, chk[k].cands \ {u}))
    BY DEF EnqueueCandidate
  <1> DEFINE body == [token |-> u.token, spec |-> u.spec, against |-> u.against]
             intent == [job |-> u.job, ref |-> chk[k].commit, op |-> "REGISTER", body |-> body]
             c == Enqueuing(k, chk[k].cands \ {u})
  <1>2. CheckOK(chk[k]) /\ chk[k] \in CheckState /\ chk[k].pc # "idle"
    BY DEF IInv, ChecksOK, EnqueueCandidate, At
  <1>3. u \in Candidate /\ Sound(u.job, u.token, u.against)
    BY <1>2 DEF CheckOK, CheckState
  <1>4. intent \in Intent /\ intent.job = u.job /\ intent.body = body
        /\ body.token = u.token /\ body.against = u.against
    BY <1>2, <1>3 DEF Intent, Body, Candidate, CheckState
  <1>5. /\ updates' = Enqueue(updates, stamp, intent)
        /\ stamp' = IF Claiming(updates, intent) # {} THEN stamp ELSE stamp + 1
    BY <1>1
  <1> HIDE DEF intent, body
  <1>6. CheckOK(c) /\ Step(k, c) /\ UNCHANGED <<nomad, differ, ap>>
    <2>1. chk[k].cands \ {u} \in SUBSET chk[k].cands
      OBVIOUS
    <2>2. UNCHANGED <<nomad, differ, ap>>
      BY DEF EnqueueCandidate
    <2> QED
      BY <1>1, <1>2, <2>1, <2>2, EnqueuingOK
  <1> HIDE DEF c
  <1>7. Later /\ RepoOK' /\ LiveOK' /\ ChecksOK'
    BY <1>6, StepOK
  <1>8. DifferOK'
    BY <1>6, <1>7, DifferLater DEF IInv
  <1>9. stamp \in Nat /\ stamp >= 1 /\ RowsOK(updates) /\ stamp \notin DOMAIN updates
    BY DEF IInv, QueueOK
  <1>10. stamp' \in Nat /\ stamp <= stamp' /\ stamp' >= 1
    BY <1>5, <1>9
  <1>11. PICK new : new = updates'
    OBVIOUS
  <1>12. /\ RowsOK(new)
         /\ DOMAIN new \subseteq DOMAIN updates \cup (IF Claiming(updates, intent) # {} THEN {} ELSE {stamp})
         /\ \A i \in DOMAIN new :
               \/ /\ i \in DOMAIN updates
                  /\ new[i].job = updates[i].job /\ new[i].body = updates[i].body
               \/ new[i].job = intent.job /\ new[i].body = intent.body
         /\ InProgress(updates) \subseteq InProgress(new)
    BY <1>4, <1>5, <1>9, <1>11, EnqueueRows
  <1>13. \A i \in DOMAIN new : i \in Nat /\ i < stamp'
    <2>1. \A i \in DOMAIN updates : i \in Nat /\ i < stamp
      BY DEF IInv, QueueOK
    <2>2. CASE Claiming(updates, intent) # {}
      BY <1>5, <1>12, <2>1, <2>2
    <2>3. CASE Claiming(updates, intent) = {}
      BY <1>5, <1>9, <1>12, <2>1, <2>3
    <2> QED
      BY <2>2, <2>3
  <1>14. ASSUME NEW i \in DOMAIN new
         PROVE  Sound(new[i].job, new[i].body.token, new[i].body.against)'
    <2>1. new[i].job \in Jobs /\ new[i].body.token \in Nat /\ new[i].body.against \in SpecOrAbsent
      BY <1>12 DEF RowsOK, UpdateRow, Body
    <2>2. Sound(new[i].job, new[i].body.token, new[i].body.against)
      BY <1>3, <1>4, <1>12 DEF IInv, QueueOK
    <2> QED
      BY <1>7, <2>1, <2>2 DEF Later, Grows
  <1>15. QueueOK'
    BY <1>10, <1>11, <1>12, <1>13, <1>14 DEF QueueOK
  <1>16. WireOK'
    <2>1. wire' \subseteq wire
      BY <1>6 DEF nomad
    <2> QED
      BY <1>7, <1>10, <2>1, WireLater DEF IInv
  <1>17. ApplierOK'
    BY <1>6, <1>11, <1>12 DEF IInv, ApplierOK, InProgress
  <1> QED
    BY <1>7, <1>8, <1>15, <1>16, <1>17 DEF IInv

-----------------------------------------------------------------------------
(* The applier.                                                            *)

\* Its steps change the queue by a Kept table and the wire by requests of the
\* row it holds.
LEMMA ApplierMoves ==
    ASSUME IInv, Later, RepoOK', ApplierOK', WireOK', DifferOK', chk' = chk,
           Kept(updates', updates), stamp' = stamp
    PROVE  IInv'
  <1>1. ChecksOK' /\ QueueOK' /\ LiveOK'
    BY ChecksLater, QueueLater DEF IInv, Later, Grows
  <1> QED
    BY <1>1 DEF IInv

\* The row the applier holds makes a sound request.
LEMMA RequestOK ==
    ASSUME IInv, ap.pc \in {"plan", "reply", "complete"}
    PROVE  LET r == Request(Row.body.token)
           IN  r \in Requests /\ r.row < stamp /\ Sound(r.job, r.token, r.against)
  <1>1. ap.row \in DOMAIN updates /\ ap.row \in Nat
    BY DEF IInv, ApplierOK, InProgress
  <1>2. Row \in UpdateRow /\ ap.row < stamp
        /\ Sound(Row.job, Row.body.token, Row.body.against)
    BY <1>1 DEF IInv, QueueOK, RowsOK, Row
  <1> DEFINE r == Request(Row.body.token)
  <1>3. /\ r \in Requests /\ r.row = ap.row /\ r.job = Row.job
        /\ r.token = Row.body.token /\ r.against = Row.body.against
    BY <1>1, <1>2 DEF Request, Requests, UpdateRow, Body
  <1> HIDE DEF r
  <1>4. r \in Requests /\ r.row < stamp /\ Sound(r.job, r.token, r.against)
    BY <1>2, <1>3
  <1> QED
    BY <1>4 DEF r

\* Nomad and the branch stay where no request is processed.
LEMMA StillLater ==
    ASSUME RepoOK, LiveOK, UNCHANGED <<repo, live, index>>
    PROVE  Later /\ RepoOK' /\ head' = head
  <1>1. Grows
    BY StillGrows
  <1>2. head' = head
    BY DEF head
  <1> QED
    BY <1>1, <1>2 DEF Later, RepoOK

\* The applier's steps.
LEMMA ApplierSteps ==
    ASSUME IInv, ApplierStep
    PROVE  IInv'
  <1>0. /\ RepoOK /\ LiveOK /\ DifferOK /\ QueueOK /\ WireOK /\ ApplierOK
        /\ stamp \in Nat /\ stamp <= stamp /\ RowsOK(updates)
    BY DEF IInv, QueueOK
  <1>1. CASE NextPending
    <2>1. PICK i \in First(Pending(updates)) :
             updates' = MarkInProgress(updates, i) /\ ap' = [ap EXCEPT !.pc = "plan", !.row = i]
      BY <1>1 DEF NextPending
    <2>2. UNCHANGED <<repo, nomad, stamp, differ, chk>>
      BY <1>1 DEF NextPending
    <2>3. i \in Pending(updates) /\ i \in Nat
      BY <1>0, <2>1 DEF First, Pending, QueueOK
    <2>4. Kept(updates', updates) /\ i \in InProgress(updates')
      BY <1>0, <2>1, <2>3, MarkKept
    <2>5. Later /\ RepoOK'
      BY <1>0, <2>2, StillLater DEF nomad
    <2>6. ApplierOK'
      BY <1>0, <2>1, <2>3, <2>4 DEF ApplierOK, InProgress
    <2>7. DifferOK' /\ WireOK'
      BY <1>0, <2>2, <2>5, DifferLater, WireLater DEF nomad
    <2> QED
      BY <2>2, <2>4, <2>5, <2>6, <2>7, ApplierMoves
  <1>2. CASE Apply
    <2>1. UNCHANGED <<repo, live, index, queue, differ, chk>> /\ ap.pc = "plan"
      BY <1>2 DEF Apply
    <2>2. Later /\ RepoOK' /\ Kept(updates', updates) /\ stamp' = stamp
      BY <1>0, <2>1, StillLater, SameKept DEF queue
    <2>3. \/ wire' = wire \cup {Request(Row.body.token)} /\ ap' = [ap EXCEPT !.pc = "reply"]
          \/ wire' = wire /\ ap' = [ap EXCEPT !.pc = "complete", !.outcome = "SUCCEEDED"]
          \/ wire' = wire /\ ap' = [ap EXCEPT !.pc = "complete", !.outcome = "FAILED"]
      BY <1>2 DEF Apply, Register, Outcome
    <2>4. ApplierOK'
      <3>1. updates' = updates
        BY <2>1 DEF queue
      <3> QED
        BY <1>0, <2>1, <2>3, <3>1 DEF ApplierOK, InProgress, Status, TerminalStatus
    <2>5. DifferOK'
      BY <1>0, <2>1, <2>2, DifferLater
    <2>6. WireOK'
      <3>1. PICK r : r = Request(Row.body.token)
        OBVIOUS
      <3>2. r \in Requests /\ r.row < stamp /\ Sound(r.job, r.token, r.against)
        BY <2>1, <3>1, RequestOK
      <3>3. Sound(r.job, r.token, r.against)'
        BY <2>2, <3>2 DEF Requests, Later, Grows
      <3>4. \A b \in wire : b \in Requests /\ b.row < stamp /\ Sound(b.job, b.token, b.against)'
        BY <1>0, <2>2 DEF WireOK, Requests, Later, Grows
      <3>5. wire' \subseteq wire \cup {r}
        BY <2>3, <3>1
      <3> QED
        BY <2>2, <3>2, <3>3, <3>4, <3>5 DEF WireOK
    <2> QED
      BY <2>1, <2>2, <2>4, <2>5, <2>6, ApplierMoves
  <1>3. CASE CallFails
    <2>1. /\ UNCHANGED <<repo, live, index, queue, differ, chk>> /\ ap.pc = "reply"
          /\ wire' \subseteq wire /\ ap' = [ap EXCEPT !.pc = "complete", !.outcome = "FAILED"]
      BY <1>3 DEF CallFails, Outcome
    <2>2. Later /\ RepoOK' /\ Kept(updates', updates) /\ stamp' = stamp /\ updates' = updates
      BY <1>0, <2>1, StillLater, SameKept DEF queue
    <2>3. ApplierOK'
      BY <1>0, <2>1, <2>2 DEF ApplierOK, InProgress, Status, TerminalStatus
    <2>4. DifferOK' /\ WireOK'
      BY <1>0, <2>1, <2>2, DifferLater, WireLater
    <2> QED
      BY <2>1, <2>2, <2>3, <2>4, ApplierMoves
  <1>4. CASE CompleteUpdate
    <2>1. /\ UNCHANGED <<repo, nomad, stamp, differ, chk>>
          /\ updates' = Complete(updates, Row, ap.outcome)
          /\ ap' = [ap EXCEPT !.pc = "invalidate"] \/ ap' = IdleApplier
      BY <1>4 DEF CompleteUpdate
    <2>2. Later /\ RepoOK'
      BY <1>0, <2>1, StillLater DEF nomad
    <2>3. Kept(updates', updates)
      <3>1. ap.outcome \in Status
        BY <1>0 DEF ApplierOK
      <3> QED
        BY <1>0, <2>1, <3>1, CompleteKept
    <2>4. ApplierOK'
      BY <1>0, <2>1 DEF ApplierOK, IdleApplier, Status
    <2>5. DifferOK' /\ WireOK'
      BY <1>0, <2>1, <2>2, DifferLater, WireLater DEF nomad
    <2> QED
      BY <2>1, <2>2, <2>3, <2>4, <2>5, ApplierMoves
  <1>5. CASE InvalidateSkip
    <2>1. UNCHANGED <<repo, nomad, queue, lastCommit, drift, chk>> /\ lastIndex' = 0 /\ ap' = IdleApplier
      BY <1>5 DEF InvalidateSkip
    <2>2. Later /\ RepoOK' /\ head' = head /\ Kept(updates', updates) /\ stamp' = stamp
      BY <1>0, <2>1, StillLater, SameKept DEF nomad, queue
    <2>3. ApplierOK'
      BY <2>1 DEF ApplierOK, IdleApplier, Status
    <2>4. DifferOK'
      BY <1>0, <2>1, <2>2 DEF DifferOK, LiveOK, nomad
    <2>5. WireOK'
      BY <1>0, <2>1, <2>2, WireLater DEF nomad
    <2> QED
      BY <2>1, <2>2, <2>3, <2>4, <2>5, ApplierMoves
  <1> QED
    BY <1>1, <1>2, <1>3, <1>4, <1>5 DEF ApplierStep

-----------------------------------------------------------------------------
(* Nomad, the branch, other writers, crashes.                              *)

\* A request is processed, or refused.
LEMMA LandStep ==
    ASSUME IInv, NEW r \in wire, Land(r)
    PROVE  IInv'
  <1>0. /\ RepoOK /\ LiveOK /\ DifferOK /\ ChecksOK /\ QueueOK /\ WireOK /\ ApplierOK
        /\ stamp \in Nat /\ stamp <= stamp /\ RowsOK(updates)
    BY DEF IInv, QueueOK
  <1>1. UNCHANGED <<repo, queue, differ, chk>> /\ wire' \subseteq wire /\ head' = head
    BY DEF Land, head
  <1>2. Grows
    <2>1. r \in Requests
      BY <1>0 DEF WireOK
    <2>2. CASE live[r.job].idx = r.token
      BY <1>0, <2>1, <2>2, WrittenGrows DEF Land, Requests
    <2>3. CASE live[r.job].idx # r.token
      BY <1>0, <2>3, StillGrows DEF Land
    <2> QED
      BY <2>2, <2>3
  <1>3. Later /\ RepoOK'
    BY <1>0, <1>1, <1>2 DEF Later, RepoOK
  <1>4. ApplierOK'
    <2>1. updates' = updates
      BY <1>1 DEF queue
    <2>2. \/ ap' = ap
          \/ /\ ap.pc = "reply"
             /\ \/ ap' = [ap EXCEPT !.pc = "complete", !.outcome = "SUCCEEDED"]
                \/ ap' = [ap EXCEPT !.pc = "complete", !.outcome = "FAILED"]
      BY DEF Land, Reply, Outcome
    <2> QED
      BY <1>0, <2>1, <2>2 DEF ApplierOK, InProgress, Status, TerminalStatus
  <1>5. Kept(updates', updates) /\ stamp' = stamp
    BY <1>0, <1>1, SameKept DEF queue
  <1>6. WireOK' /\ DifferOK'
    BY <1>0, <1>1, <1>3, <1>5, WireLater, DifferLater
  <1> QED
    BY <1>1, <1>3, <1>4, <1>5, <1>6, ApplierMoves

\* A commit makes the branch longer.
LEMMA CommitStep ==
    ASSUME IInv, NEW tree \in Trees, Commit(tree)
    PROVE  IInv'
  <1>0. RepoOK /\ LiveOK
    BY DEF IInv
  <1>1. PICK n \in Nat : n = head + 1 /\ n >= 1 /\ head <= n
    BY <1>0 DEF RepoOK
  <1>2. repo' = [c \in 1 .. n |-> IF c <= head THEN repo[c] ELSE tree]
    BY <1>1 DEF Commit
  <1>3. head' = n
    <2>1. head' = Max(DOMAIN repo')
      BY DEF head
    <2>2. DOMAIN repo' = 1 .. n
      BY <1>2
    <2> QED
      BY <1>1, <2>1, <2>2, MaxInterval
  <1>4. RepoOK'
    <2>1. [c \in 1 .. n |-> IF c <= head THEN repo[c] ELSE tree] \in [1 .. n -> Trees]
      BY <1>0, <1>1 DEF RepoOK
    <2> QED
      BY <1>1, <1>2, <1>3, <2>1 DEF RepoOK
  <1>5. UNCHANGED <<nomad, queue, differ, chk, ap>>
    BY DEF Commit
  <1>6. Later
    <2>1. Grows
      BY <1>0, <1>5, StillGrows DEF nomad
    <2> QED
      BY <1>1, <1>3, <2>1 DEF Later
  <1> QED
    BY <1>4, <1>5, <1>6, OutsideStep DEF nomad

\* Another writer of Nomad writes or purges a job, or any job's status moves.
LEMMA EditStep ==
    ASSUME IInv, Edit, Grows
    PROVE  IInv'
  <1>1. UNCHANGED <<repo, wire, queue, differ, chk, ap>> /\ head' = head
    BY DEF Edit, head
  <1>2. Later /\ RepoOK'
    BY <1>1 DEF IInv, RepoOK, Later
  <1> QED
    BY <1>1, <1>2, OutsideStep

\* The process starts with nothing.
LEMMA CrashStep ==
    ASSUME IInv, Crash
    PROVE  IInv'
  <1>0. /\ RepoOK /\ LiveOK /\ QueueOK /\ WireOK /\ stamp \in Nat /\ stamp <= stamp
    BY DEF IInv, QueueOK
  <1>1. /\ updates' = [i \in {} |-> 0] /\ lastCommit' = 0 /\ lastIndex' = 0 /\ drift' = {}
        /\ chk' = [k \in Checkers |-> Idle] /\ ap' = IdleApplier
        /\ UNCHANGED <<repo, live, index, wire, stamp>>
    BY DEF Crash, nomad
  <1>2. Later /\ RepoOK' /\ LiveOK' /\ head' = head
    BY <1>0, <1>1, StillLater DEF Later, Grows
  <1>3. DifferOK'
    BY <1>0, <1>1, <1>2 DEF DifferOK, RepoOK, LiveOK
  <1>4. ChecksOK'
    <2>1. CheckOK(Idle)' /\ Idle \in CheckState
      BY <1>0, <1>2, IdleOK, CheckLater DEF CheckOK
    <2>2. PICK new : new = chk'
      OBVIOUS
    <2>3. new \in [Checkers -> CheckState] /\ \A k \in Checkers : new[k] = Idle
      BY <1>1, <2>1, <2>2
    <2>4. \A k \in Checkers : CheckOK(new[k])'
      BY <2>1, <2>3
    <2> QED
      BY <2>2, <2>3, <2>4 DEF ChecksOK
  <1>5. QueueOK'
    BY <1>0, <1>1 DEF QueueOK, RowsOK
  <1>6. WireOK'
    BY <1>0, <1>1, <1>2, WireLater
  <1>7. ApplierOK'
    BY <1>1 DEF ApplierOK, IdleApplier, Status
  <1> QED
    BY <1>2, <1>3, <1>4, <1>5, <1>6, <1>7 DEF IInv

-----------------------------------------------------------------------------
(* The invariant.                                                          *)

\* A start: any tree at the first commit, any jobs in Nomad.
LEMMA InitIInv == Init => IInv
  <1> SUFFICES ASSUME Init
               PROVE  IInv
    OBVIOUS
  <1>1. repo \in [1 .. 1 -> Trees]
    BY DEF Init
  <1>2. head = 1
    <2>1. PICK n \in Nat : n = 1 /\ n >= 1
      OBVIOUS
    <2>2. DOMAIN repo = 1 .. n
      BY <1>1, <2>1
    <2> QED
      BY <2>1, <2>2, MaxInterval DEF head
  <1>3. RepoOK
    BY <1>1, <1>2 DEF RepoOK
  <1>4. LiveOK
    <2>1. PICK spec \in Trees :
             live = [j \in Jobs |-> IF spec[j] = Absent THEN NotRegistered
                                    ELSE [spec |-> spec[j], idx |-> 1, dead |-> FALSE]]
      BY DEF Init
    <2>2. index = 1
      BY DEF Init
    <2>3. \A j \in Jobs : spec[j] \in SpecOrAbsent
      BY DEF Trees, SpecOrAbsent
    <2>4. \A j \in Jobs : live[j] \in Job /\ live[j].idx <= 1
                          /\ (live[j].idx = 0 => live[j].spec = Absent)
      BY <2>1, <2>3 DEF Job, NotRegistered, SpecOrAbsent
    <2> QED
      BY <2>1, <2>2, <2>4 DEF LiveOK
  <1>5. DifferOK
    BY <1>3, <1>4 DEF Init, DifferOK, RepoOK, LiveOK
  <1>6. ChecksOK
    <2>1. CheckOK(Idle) /\ Idle \in CheckState
      BY <1>3, <1>4, IdleOK DEF CheckOK
    <2> QED
      BY <2>1 DEF Init, ChecksOK
  <1>7. QueueOK /\ WireOK /\ ApplierOK
    BY DEF Init, QueueOK, RowsOK, WireOK, ApplierOK, IdleApplier, Status
  <1> QED
    BY <1>3, <1>4, <1>5, <1>6, <1>7 DEF IInv

\* Every step keeps it.
LEMMA NextIInv == IInv /\ [Next]_vars => IInv'
  <1> SUFFICES ASSUME IInv, [Next]_vars
               PROVE  IInv'
    OBVIOUS
  <1>0. LiveOK
    BY DEF IInv
  <1>1. ASSUME NEW k \in Checkers, CheckStep(k)
        PROVE  IInv'
    BY <1>1, ReadingSteps, CommitResultsStep, EnqueueStep DEF CheckStep
  <1>2. CASE ApplierStep
    BY <1>2, ApplierSteps
  <1>3. ASSUME NEW r \in wire, Land(r)
        PROVE  IInv'
    BY <1>3, LandStep
  <1>4. ASSUME NEW tree \in Trees, Commit(tree)
        PROVE  IInv'
    BY <1>4, CommitStep
  <1>5. ASSUME NEW j \in Jobs, NEW spec \in Specs, OperatorRun(j, spec)
        PROVE  IInv'
    BY <1>0, <1>5, WrittenGrows, EditStep DEF OperatorRun, SpecOrAbsent
  <1>6. ASSUME NEW j \in Jobs, OperatorStop(j)
        PROVE  IInv'
    <2>1. live[j].spec \in SpecOrAbsent
      BY <1>0 DEF LiveOK, Job
    <2> QED
      BY <1>0, <1>6, <2>1, WrittenGrows, EditStep DEF OperatorStop
  <1>7. ASSUME NEW j \in Jobs, OperatorPurge(j)
        PROVE  IInv'
    BY <1>0, <1>7, PurgeGrows, EditStep DEF OperatorPurge
  <1>8. CASE StatusWrite
    BY <1>0, <1>8, StatusGrows, EditStep DEF StatusWrite
  <1>9. CASE Crash
    BY <1>9, CrashStep
  <1>10. CASE UNCHANGED vars
    <2>1. UNCHANGED <<repo, nomad, queue, differ, chk, ap>>
      BY <1>10 DEF vars
    <2>2. Later /\ RepoOK'
      BY <2>1, StillLater DEF IInv, nomad
    <2> QED
      BY <2>1, <2>2, OutsideStep DEF nomad
  <1> QED
    BY <1>1, <1>2, <1>3, <1>4, <1>5, <1>6, <1>7, <1>8, <1>9, <1>10 DEF Next, Environment

\* The invariant holds in every behaviour.
LEMMA InvariantIInv == Spec => []IInv
  BY InitIInv, NextIInv, PTL DEF Spec

\* Indexes and commits that Checks, queue and wire remember are ones that were,
\* and the row the applier holds is in the queue, IN_PROGRESS.
THEOREM TypeCorrect == Spec => []TypeOK
  <1>1. IInv => TypeOK
    <2> SUFFICES ASSUME IInv
                 PROVE  TypeOK
      OBVIOUS
    <2>1. \A c \in DOMAIN repo : repo[c] \in Trees
      BY DEF IInv, RepoOK
    <2>2. live \in [Jobs -> [spec : Specs \cup {Absent}, idx : 0 .. index, dead : BOOLEAN]]
      BY DEF IInv, LiveOK, Job, SpecOrAbsent
    <2>3. \A r \in wire : r.job \in Jobs /\ r.token \in 0 .. index /\ r.row < stamp
      BY DEF IInv, WireOK, Requests, Sound, LiveOK
    <2>4. /\ lastCommit \in 0 .. head /\ lastIndex \in 0 .. index
          /\ drift \subseteq Jobs \X {"modified", "missing_from_nomad", "missing_from_hcl"}
      BY DEF IInv, DifferOK, RepoOK, LiveOK, Diff
    <2>5. \A k \in Checkers : chk[k].pc \in {"idle", "list", "gate", "job", "plan", "enqueue"}
      BY DEF IInv, ChecksOK, CheckState
    <2>6. ap.pc \in {"plan", "reply", "complete"} =>
             ap.row \in DOMAIN updates /\ Row.status = "IN_PROGRESS"
      BY DEF IInv, ApplierOK, InProgress, Row
    <2> QED
      BY <2>1, <2>2, <2>3, <2>4, <2>5, <2>6 DEF TypeOK
  <1> QED
    BY <1>1, InvariantIInv, PTL

\* A step that does not write jobs applies no request.
LEMMA NothingApplied ==
    ASSUME IInv, live' = live, NEW r \in wire
    PROVE  ~Applied(r)
  <1>1. live[r.job].idx \in Nat
    BY DEF IInv, WireOK, Requests, LiveOK, Job
  <1> QED
    BY <1>1 DEF Applied

\* Whatever Checks overlap, requests are delayed, calls fail, processes crash and
\* other people write, a register that Nomad applies replaces what its drift was
\* detected against (the EnforceIndex of applyRegister).
THEOREM CasGuardsEveryWrite == Spec => NoBlindOverwrite
  <1>1. IInv /\ [Next]_vars => [\A r \in wire : Applied(r) => live[r.job].spec = r.against]_vars
    <2> SUFFICES ASSUME IInv, [Next]_vars, NEW r \in wire, Applied(r)
                 PROVE  live[r.job].spec = r.against
      OBVIOUS
    <2>1. r \notin wire' /\ live' # live
      BY NothingApplied DEF Applied
    <2>2. PICK b \in wire : Land(b)
      BY <2>1
      DEF Next, vars, nomad, CheckStep, Begin, List, Skip, Parse, Info, Plan, CommitResults,
          EnqueueCandidate, ApplierStep, NextPending, Apply, CallFails, CompleteUpdate,
          InvalidateSkip, Environment, Commit, Edit, OperatorRun, OperatorStop, OperatorPurge,
          StatusWrite, Crash
    <2>3. r = b
      BY <2>1, <2>2 DEF Land
    <2>4. live[r.job].idx = r.token
      BY <2>1, <2>2, <2>3 DEF Land
    <2> QED
      BY <2>4 DEF IInv, WireOK, Sound
  <1> QED
    BY <1>1, InvariantIInv, PTL DEF Spec, NoBlindOverwrite

-----------------------------------------------------------------------------
(* What is published.  A Check that is at the table's index and at HEAD has *)
(* seen the jobs as they are, all through: nobody wrote since its List.     *)

Undisturbed == limit.kinds \cap CallsOfCheck = {}

\* The diffs of some jobs as they are now.
Diffs(S) == UNION {{j} \X TrueDrift(j) : j \in S}

\* The jobs a Check has not compared yet.
Left(c) == c.todo \cup (IF c.pc = "plan" THEN {c.job} ELSE {})

Mirrors(c) ==
    /\ c.pc \in {"gate", "job", "plan"} => c.idx # 0
    /\ c.idx = index /\ c.commit = head =>
          /\ c.pc = "gate" => c.running = Running
          /\ c.pc \in {"job", "plan"} =>
                /\ Left(c) \subseteq {j \in Jobs : Desired(j) # Absent}
                /\ c.found = Diffs(Jobs \ Left(c))
          /\ c.pc = "plan" => c.job \in Running /\ c.job \notin c.todo

Published == WouldSkip => drift = Diffs(Jobs)

JInv ==
    /\ index >= 1
    /\ Undisturbed => (\A k \in Checkers : Mirrors(chk[k])) /\ Published

\* The diffs of one job more.
LEMMA OneMoreDiff ==
    ASSUME NEW S, NEW j
    PROVE  Diffs(S \cup {j}) = Diffs(S) \cup ({j} \X TrueDrift(j))
  BY Zenon DEF Diffs

\* Nobody moves: what is true of a Check stays true.
LEMMA StillMirrors ==
    ASSUME UNCHANGED <<live, index, repo>>
    PROVE  /\ \A c : Mirrors(c) => Mirrors(c)'
           /\ \A S : Diffs(S)' = Diffs(S)
           /\ head' = head
  <1>1. head' = head /\ Running' = Running
    BY DEF head, Running
  <1>2. \A j : Desired(j)' = Desired(j)
    BY <1>1 DEF Desired
  <1>3. \A j : TrueDrift(j)' = TrueDrift(j)
    BY <1>1, <1>2 DEF TrueDrift
  <1>4. \A S : Diffs(S)' = Diffs(S)
    BY <1>3 DEF Diffs
  <1>5. ASSUME NEW c, Mirrors(c)
        PROVE  Mirrors(c)'
    <2>1. PICK L : L = Left(c)
      OBVIOUS
    <2>2. Diffs(Jobs \ L)' = Diffs(Jobs \ L)
      BY <1>4
    <2> QED
      BY <1>1, <1>2, <1>5, <2>1, <2>2 DEF Mirrors, Left
  <1> QED
    BY <1>1, <1>4, <1>5

\* Somebody moves, and no Check is up to date.
LEMMA MovedMirrors ==
    ASSUME RepoOK, LiveOK, head' \in Nat, index' \in Nat,
           \/ index' > index
           \/ index' = index /\ head' > head
    PROVE  /\ \A c : CheckOK(c) /\ Mirrors(c) => Mirrors(c)'
           /\ DifferOK /\ UNCHANGED <<lastCommit, lastIndex>> => Published'
  <1>1. head \in Nat /\ index \in Nat
    BY DEF RepoOK, LiveOK
  <1>2. ASSUME NEW c, CheckOK(c), Mirrors(c)
        PROVE  Mirrors(c)'
    <2>1. c.idx \in Nat /\ c.idx <= index /\ c.commit \in Nat /\ c.commit <= head
      BY <1>2 DEF CheckOK, CheckState
    <2>2. ~(c.idx = index' /\ c.commit = head')
      BY <1>1, <2>1
    <2> QED
      BY <1>2, <2>2 DEF Mirrors
  <1>3. ASSUME DifferOK, UNCHANGED <<lastCommit, lastIndex>>
        PROVE  Published'
    <2>1. lastIndex \in Nat /\ lastIndex <= index /\ lastCommit \in Nat /\ lastCommit <= head
      BY <1>3 DEF DifferOK
    <2>2. ~(lastIndex = index' /\ lastCommit = head')
      BY <1>1, <2>1
    <2> QED
      BY <1>3, <2>2 DEF Published, WouldSkip
  <1> QED
    BY <1>2, <1>3

\* A step outside the Checks.
LEMMA OutsidePublished ==
    ASSUME IInv, JInv, chk' = chk, limit' = limit, UNCHANGED <<lastCommit, drift>>,
           lastIndex' \in {0, lastIndex}, head' \in Nat, index' \in Nat,
           \/ UNCHANGED <<live, index, repo>>
           \/ index' > index /\ lastIndex' = lastIndex
           \/ index' = index /\ head' > head /\ lastIndex' = lastIndex
    PROVE  JInv'
  <1>1. index >= 1 /\ index \in Nat
    BY DEF JInv, IInv, LiveOK
  <1>2. index' >= 1
    BY <1>1
  <1>3. Undisturbed' = Undisturbed
    BY DEF Undisturbed
  <1>4. SUFFICES ASSUME Undisturbed
                 PROVE  (\A k \in Checkers : Mirrors(chk[k]))' /\ Published'
    BY <1>2, <1>3 DEF JInv
  <1>5. PICK cs : cs = chk
    OBVIOUS
  <1>6. \A k \in Checkers : CheckOK(cs[k]) /\ Mirrors(cs[k])
    BY <1>4, <1>5 DEF JInv, IInv, ChecksOK
  <1>7. CASE UNCHANGED <<live, index, repo>>
    <2>1. \A k \in Checkers : Mirrors(cs[k])'
      BY <1>6, <1>7, StillMirrors
    <2>2. Published'
      <3>1. head' = head /\ Diffs(Jobs)' = Diffs(Jobs)
        BY <1>7, StillMirrors
      <3>2. lastIndex' = 0 => ~WouldSkip'
        BY <1>1, <1>7 DEF WouldSkip
      <3> QED
        BY <1>4, <1>7, <3>1, <3>2 DEF JInv, Published, WouldSkip
    <2> QED
      BY <1>5, <2>1, <2>2
  <1>8. CASE \/ index' > index /\ lastIndex' = lastIndex
             \/ index' = index /\ head' > head /\ lastIndex' = lastIndex
    <2>1. /\ \A c : CheckOK(c) /\ Mirrors(c) => Mirrors(c)'
          /\ Published'
      BY <1>8, MovedMirrors DEF IInv
    <2>2. \A k \in Checkers : Mirrors(cs[k])'
      BY <1>6, <2>1
    <2> QED
      BY <1>5, <2>1, <2>2
  <1> QED
    BY <1>7, <1>8

\* A Check's step that publishes nothing.
LEMMA InsidePublished ==
    ASSUME IInv, JInv, NEW k \in Checkers, NEW c, Step(k, c),
           UNCHANGED <<nomad, lastCommit, lastIndex, drift>>, Undisturbed => Mirrors(c)
    PROVE  JInv'
  <1>1. UNCHANGED <<live, index, repo, limit>> /\ chk' = [chk EXCEPT ![k] = c]
    BY DEF Step, nomad
  <1>2. Undisturbed' = Undisturbed /\ index' >= 1
    BY <1>1 DEF Undisturbed, JInv
  <1>3. SUFFICES ASSUME Undisturbed
                 PROVE  (\A i \in Checkers : Mirrors(chk[i]))' /\ Published'
    BY <1>2 DEF JInv
  <1>4. PICK cs : cs = chk'
    OBVIOUS
  <1>5. \A i \in Checkers : Mirrors(cs[i])
    <2>1. \A i \in Checkers : cs[i] = IF i = k THEN c ELSE chk[i]
      BY <1>1, <1>4 DEF IInv, ChecksOK
    <2> QED
      BY <1>3, <2>1 DEF JInv
  <1>6. \A i \in Checkers : Mirrors(cs[i])'
    BY <1>1, <1>5, StillMirrors
  <1>7. Published'
    <2>1. head' = head /\ Diffs(Jobs)' = Diffs(Jobs)
      BY <1>1, StillMirrors
    <2> QED
      BY <1>1, <1>3, <2>1 DEF JInv, Published, WouldSkip
  <1> QED
    BY <1>4, <1>6, <1>7

\* In an undisturbed instance no call of a Check fails.
LEMMA NoCallFails ==
    ASSUME Undisturbed, NEW kind \in CallsOfCheck
    PROVE  ~Fault(kind)
  BY DEF Undisturbed, Fault, MayFail

\* A Check that is over holds nothing.
LEMMA IdleMirrors == Mirrors(Idle)
  BY DEF Mirrors, Idle

\* A job's diff is added, and the job is compared.
LEMMA ComparedMirrors ==
    ASSUME IInv, JInv, Undisturbed, NEW k \in Checkers, chk[k].pc \in {"job", "plan"},
           NEW j \in Left(chk[k]), NEW c, c.pc = "job", c.idx = chk[k].idx, c.commit = chk[k].commit,
           c.idx = index /\ c.commit = head =>
              c.todo = Left(chk[k]) \ {j} /\ c.found = chk[k].found \cup ({j} \X TrueDrift(j))
    PROVE  Mirrors(c)
  <1>1. Mirrors(chk[k])
    BY DEF JInv
  <1>2. SUFFICES ASSUME c.idx = index, c.commit = head
                 PROVE  /\ Left(c) \subseteq {i \in Jobs : Desired(i) # Absent}
                        /\ c.found = Diffs(Jobs \ Left(c))
    BY <1>1 DEF Mirrors
  <1>3. /\ Left(chk[k]) \subseteq {i \in Jobs : Desired(i) # Absent}
        /\ chk[k].found = Diffs(Jobs \ Left(chk[k]))
    BY <1>1, <1>2 DEF Mirrors
  <1>4. Left(c) = Left(chk[k]) \ {j} /\ j \in Jobs
    BY <1>2, <1>3 DEF Left
  <1>5. Jobs \ Left(c) = (Jobs \ Left(chk[k])) \cup {j}
    BY <1>4
  <1>6. Diffs(Jobs \ Left(c)) = Diffs(Jobs \ Left(chk[k])) \cup ({j} \X TrueDrift(j))
    BY <1>5, OneMoreDiff
  <1> QED
    BY <1>2, <1>3, <1>4, <1>6

\* The steps of a Check up to its results.
LEMMA ReadingPublished ==
    ASSUME IInv, JInv, NEW k \in Checkers,
           Begin(k) \/ List(k) \/ Skip(k) \/ Parse(k) \/ Info(k) \/ Plan(k)
    PROVE  JInv'
  <1>0. /\ chk[k] \in CheckState /\ index >= 1 /\ index # 0 /\ index \in Nat
        /\ Undisturbed => Mirrors(chk[k])
    BY DEF IInv, ChecksOK, LiveOK, JInv
  <1>1. CASE Begin(k)
    <2> DEFINE c == [chk[k] EXCEPT !.pc = "list", !.commit = head]
    <2>1. Step(k, c) /\ UNCHANGED <<nomad, queue, differ, ap>>
      BY <1>1 DEF Begin
    <2>2. c.pc = "list"
      BY <1>0 DEF CheckState
    <2> HIDE DEF c
    <2>3. Mirrors(c)
      BY <2>2 DEF Mirrors
    <2> QED
      BY <2>1, <2>3, InsidePublished DEF differ
  <1>2. CASE List(k)
    <2> DEFINE c == [chk[k] EXCEPT !.pc = "gate", !.idx = index, !.running = Running]
               d == [chk[k] EXCEPT !.pc = "gate"]
    <2>1. UNCHANGED <<nomad, queue, differ, ap>> /\ (Step(k, c) \/ (Fault("list") /\ Step(k, d)))
      BY <1>2 DEF List
    <2>2. c.pc = "gate" /\ c.idx = index /\ c.running = Running
      BY <1>0 DEF CheckState
    <2> HIDE DEF c, d
    <2>3. Mirrors(c)
      BY <1>0, <2>2 DEF Mirrors
    <2>4. Undisturbed => ~Fault("list")
      BY NoCallFails DEF CallsOfCheck
    <2> QED
      BY <2>1, <2>3, <2>4, InsidePublished DEF differ
  <1>3. CASE Skip(k)
    <2>1. Step(k, Idle) /\ UNCHANGED <<nomad, queue, differ, ap>>
      BY <1>3 DEF Skip
    <2> QED
      BY <2>1, IdleMirrors, InsidePublished DEF differ
  <1>4. CASE Parse(k)
    <2>1. PICK parsed \in SUBSET Defined(k) :
             /\ parsed = Defined(k) \/ Fault("parse")
             /\ Step(k, [chk[k] EXCEPT !.pc = "job", !.todo = parsed, !.running = {},
                           !.found = (chk[k].running \ parsed) \X {"missing_from_hcl"}])
      BY <1>4 DEF Parse
    <2> DEFINE c == [chk[k] EXCEPT !.pc = "job", !.todo = parsed, !.running = {},
                        !.found = (chk[k].running \ parsed) \X {"missing_from_hcl"}]
    <2>2. chk[k].pc = "gate" /\ UNCHANGED <<nomad, queue, differ, ap>>
      BY <1>4 DEF Parse, At
    <2>3. /\ c.pc = "job" /\ c.todo = parsed /\ c.idx = chk[k].idx /\ c.commit = chk[k].commit
          /\ c.found = (chk[k].running \ parsed) \X {"missing_from_hcl"}
      BY <1>0 DEF CheckState
    <2>4. Step(k, c)
      BY <2>1
    <2> HIDE DEF c
    <2>5. ASSUME Undisturbed
          PROVE  Mirrors(c)
      <3>1. parsed = Defined(k)
        BY <2>1, <2>5, NoCallFails DEF CallsOfCheck
      <3>2. SUFFICES ASSUME c.idx = index, c.commit = head
                     PROVE  /\ Left(c) \subseteq {j \in Jobs : Desired(j) # Absent}
                            /\ c.found = Diffs(Jobs \ Left(c))
        BY <1>0, <2>2, <2>3, <2>5 DEF Mirrors
      <3>3. chk[k].running = Running
        BY <1>0, <2>2, <2>3, <2>5, <3>2 DEF Mirrors
      <3>4. Left(c) = parsed /\ parsed = {j \in Jobs : Desired(j) # Absent}
        BY <2>3, <3>1, <3>2 DEF Left, Defined, Desired
      <3>5. \A j \in Jobs \ parsed : TrueDrift(j) = IF j \in Running THEN {"missing_from_hcl"} ELSE {}
        BY <3>4 DEF TrueDrift
      <3>6. Diffs(Jobs \ parsed) = (Running \ parsed) \X {"missing_from_hcl"}
        <4>1. Running \subseteq Jobs
          BY DEF Running
        <4> QED
          BY <3>5, <4>1 DEF Diffs
      <3> QED
        BY <2>3, <3>3, <3>4, <3>6
    <2> QED
      BY <2>2, <2>4, <2>5, InsidePublished DEF differ
  <1>5. CASE Info(k)
    <2>1. PICK j \in chk[k].todo :
            LET c == [chk[k] EXCEPT !.todo = @ \ {j}]
            IN  /\ At(k, "job")
                /\ \/ /\ live[j].spec = Absent \/ live[j].dead
                      /\ Step(k, Detected(c, j, "missing_from_nomad", live[j].idx, live[j].spec))
                   \/ /\ live[j].spec # Absent /\ ~live[j].dead
                      /\ Step(k, [c EXCEPT !.pc = "plan", !.job = j, !.token = live[j].idx])
                   \/ Fault("info") /\ Step(k, c)
                /\ UNCHANGED <<nomad, queue, differ, ap>>
      BY <1>5 DEF Info
    <2> DEFINE c == [chk[k] EXCEPT !.todo = chk[k].todo \ {j}]
               d == Detected(c, j, "missing_from_nomad", live[j].idx, live[j].spec)
               p == [c EXCEPT !.pc = "plan", !.job = j, !.token = live[j].idx]
    <2>2. /\ chk[k].pc = "job" /\ UNCHANGED <<nomad, queue, differ, ap>>
          /\ \/ (live[j].spec = Absent \/ live[j].dead) /\ Step(k, d)
             \/ live[j].spec # Absent /\ ~live[j].dead /\ Step(k, p)
             \/ Fault("info") /\ Step(k, c)
      BY <1>0, <2>1 DEF At, CheckState
    <2>3. j \in Jobs /\ Left(chk[k]) = chk[k].todo
      BY <1>0, <2>2 DEF CheckState, Left
    <2>4. CASE (live[j].spec = Absent \/ live[j].dead) /\ Step(k, d)
      <3>1. /\ d.pc = "job" /\ d.idx = chk[k].idx /\ d.commit = chk[k].commit
            /\ d.todo = chk[k].todo \ {j}
            /\ d.found = chk[k].found \cup {<<j, "missing_from_nomad">>}
        BY <1>0 DEF Detected, CheckState
      <3> HIDE DEF d
      <3>2. ASSUME Undisturbed
            PROVE  Mirrors(d)
        <4>1. ASSUME d.idx = index, d.commit = head
              PROVE  d.found = chk[k].found \cup ({j} \X TrueDrift(j))
          <5>1. Desired(j) # Absent
            BY <1>0, <2>2, <2>3, <3>1, <3>2, <4>1 DEF Mirrors
          <5>2. TrueDrift(j) = {"missing_from_nomad"}
            BY <2>4, <5>1 DEF TrueDrift, Running
          <5> QED
            BY <3>1, <5>2
        <4> QED
          BY <2>2, <2>3, <3>1, <3>2, <4>1, ComparedMirrors
      <3> QED
        BY <2>2, <2>4, <3>2, InsidePublished DEF differ
    <2>5. CASE live[j].spec # Absent /\ ~live[j].dead /\ Step(k, p)
      <3>1. /\ p.pc = "plan" /\ p.idx = chk[k].idx /\ p.commit = chk[k].commit /\ p.job = j
            /\ p.todo = chk[k].todo \ {j} /\ p.found = chk[k].found
        BY <1>0 DEF CheckState
      <3> HIDE DEF p
      <3>2. j \in Running /\ j \notin p.todo /\ Left(p) = Left(chk[k])
        BY <2>3, <2>5, <3>1 DEF Running, Left
      <3>3. Undisturbed => Mirrors(p)
        BY <1>0, <2>2, <3>1, <3>2 DEF Mirrors
      <3> QED
        BY <2>2, <2>5, <3>3, InsidePublished DEF differ
    <2>6. CASE Fault("info") /\ Step(k, c)
      <3>1. ~Undisturbed
        BY <2>6, NoCallFails DEF CallsOfCheck
      <3> HIDE DEF c
      <3> QED
        BY <2>2, <2>6, <3>1, InsidePublished DEF differ
    <2> HIDE DEF c, d, p
    <2> QED
      BY <2>2, <2>4, <2>5, <2>6
  <1>6. CASE Plan(k)
    <2> DEFINE j == chk[k].job
               c == [chk[k] EXCEPT !.pc = "job", !.job = Absent, !.token = 0]
               d == Detected(chk[k], j, "modified", chk[k].token, live[j].spec)
    <2>1. /\ chk[k].pc = "plan" /\ UNCHANGED <<nomad, queue, differ, ap>>
          /\ \/ /\ IF Changes(repo[chk[k].commit][j], live[j]) THEN Step(k, d) ELSE Step(k, c)
             \/ Fault("plan") /\ Step(k, c)
      BY <1>6 DEF Plan, At
    <2>2. /\ c.pc = "job" /\ c.idx = chk[k].idx /\ c.commit = chk[k].commit
          /\ c.todo = chk[k].todo /\ c.found = chk[k].found
          /\ d.pc = "job" /\ d.idx = chk[k].idx /\ d.commit = chk[k].commit
          /\ d.todo = chk[k].todo /\ d.found = chk[k].found \cup {<<j, "modified">>}
      BY <1>0 DEF CheckState, Detected
    <2> HIDE DEF c, d
    <2>3. j \in Left(chk[k])
      BY <2>1 DEF Left
    <2>4. ASSUME Undisturbed, chk[k].idx = index, chk[k].commit = head
          PROVE  /\ chk[k].todo = Left(chk[k]) \ {j}
                 /\ TrueDrift(j) = IF Changes(repo[chk[k].commit][j], live[j])
                                   THEN {"modified"} ELSE {}
      <3>1. Desired(j) # Absent /\ j \in Running /\ j \notin chk[k].todo
        BY <1>0, <2>1, <2>3, <2>4 DEF Mirrors
      <3>2. chk[k].todo = Left(chk[k]) \ {j}
        BY <2>1, <3>1 DEF Left
      <3>3. ~live[j].dead
        BY <3>1 DEF Running
      <3>4. Desired(j) = repo[chk[k].commit][j]
        BY <2>4 DEF Desired
      <3>5. TrueDrift(j) = IF live[j].spec = Desired(j) THEN {} ELSE {"modified"}
        BY <3>1 DEF TrueDrift
      <3>6. Changes(repo[chk[k].commit][j], live[j]) <=> live[j].spec # Desired(j)
        <4>1. LiveOK /\ j \in Jobs
          BY <3>1 DEF IInv, Running
        <4> QED
          BY <3>3, <3>4 DEF Changes
      <3> QED
        BY <3>2, <3>5, <3>6
    <2>5. CASE Changes(repo[chk[k].commit][j], live[j]) /\ Step(k, d)
      <3>1. Undisturbed => Mirrors(d)
        <4> SUFFICES ASSUME Undisturbed
                     PROVE  Mirrors(d)
          OBVIOUS
        <4>1. d.idx = index /\ d.commit = head =>
                 d.todo = Left(chk[k]) \ {j} /\ d.found = chk[k].found \cup ({j} \X TrueDrift(j))
          BY <2>2, <2>4, <2>5
        <4> HIDE DEF j
        <4> QED
          BY <2>1, <2>2, <2>3, <4>1, ComparedMirrors
      <3> QED
        BY <2>1, <2>5, <3>1, InsidePublished DEF differ
    <2>6. CASE ~Changes(repo[chk[k].commit][j], live[j]) /\ Step(k, c)
      <3>1. Undisturbed => Mirrors(c)
        <4> SUFFICES ASSUME Undisturbed
                     PROVE  Mirrors(c)
          OBVIOUS
        <4>1. c.idx = index /\ c.commit = head =>
                 c.todo = Left(chk[k]) \ {j} /\ c.found = chk[k].found \cup ({j} \X TrueDrift(j))
          BY <2>2, <2>4, <2>6
        <4> HIDE DEF j
        <4> QED
          BY <2>1, <2>2, <2>3, <4>1, ComparedMirrors
      <3> QED
        BY <2>1, <2>6, <3>1, InsidePublished DEF differ
    <2>7. CASE Fault("plan") /\ Step(k, c)
      <3>1. ~Undisturbed
        BY <2>7, NoCallFails DEF CallsOfCheck
      <3> QED
        BY <2>1, <2>7, <3>1, InsidePublished DEF differ
    <2> QED
      BY <2>1, <2>5, <2>6, <2>7
  <1> QED
    BY <1>1, <1>2, <1>3, <1>4, <1>5, <1>6

\* What is published by a Check that is up to date is so.
LEMMA CommitResultsPublished ==
    ASSUME IInv, JInv, NEW k \in Checkers, CommitResults(k)
    PROVE  JInv'
  <1> DEFINE c == Enqueuing(k, chk[k].cands)
  <1>1. /\ chk[k].pc = "job" /\ chk[k].todo = {} /\ Step(k, c) /\ UNCHANGED nomad
        /\ drift' = chk[k].found /\ lastCommit' = chk[k].commit
        /\ lastIndex' = IF chk[k].idx = 0 THEN lastIndex ELSE chk[k].idx
    BY DEF CommitResults, At
  <1>2. c.pc \in {"idle", "enqueue"}
    BY DEF Enqueuing, Idle
  <1> HIDE DEF c
  <1>3. UNCHANGED <<live, index, repo, limit>> /\ chk' = [chk EXCEPT ![k] = c]
    BY <1>1 DEF Step, nomad
  <1>4. Undisturbed' = Undisturbed /\ index' >= 1
    BY <1>3 DEF Undisturbed, JInv
  <1>5. SUFFICES ASSUME Undisturbed
                 PROVE  (\A i \in Checkers : Mirrors(chk[i]))' /\ Published'
    BY <1>4 DEF JInv
  <1>6. PICK cs : cs = chk'
    OBVIOUS
  <1>7. \A i \in Checkers : Mirrors(cs[i])
    <2>1. \A i \in Checkers : cs[i] = IF i = k THEN c ELSE chk[i]
      BY <1>3, <1>6 DEF IInv, ChecksOK
    <2>2. Mirrors(c)
      BY <1>2 DEF Mirrors
    <2> QED
      BY <1>5, <2>1, <2>2 DEF JInv
  <1>8. \A i \in Checkers : Mirrors(cs[i])'
    BY <1>3, <1>7, StillMirrors
  <1>9. Published'
    <2>1. Mirrors(chk[k]) /\ chk[k].idx # 0 /\ Left(chk[k]) = {}
      BY <1>1, <1>5 DEF JInv, Mirrors, Left
    <2>2. chk[k].idx = index /\ chk[k].commit = head => chk[k].found = Diffs(Jobs)
      BY <1>1, <2>1 DEF Mirrors
    <2>3. head' = head /\ Diffs(Jobs)' = Diffs(Jobs)
      BY <1>3, StillMirrors
    <2> QED
      BY <1>1, <1>3, <2>1, <2>2, <2>3 DEF Published, WouldSkip
  <1> QED
    BY <1>6, <1>8, <1>9

\* Every step keeps it.
LEMMA NextJInv == IInv /\ IInv' /\ JInv /\ [Next]_vars => JInv'
  <1> SUFFICES ASSUME IInv, IInv', JInv, [Next]_vars
               PROVE  JInv'
    OBVIOUS
  <1>0. head \in Nat /\ head' \in Nat /\ index \in Nat /\ index' \in Nat
    BY DEF IInv, RepoOK, LiveOK
  <1>1. ASSUME NEW k \in Checkers, CheckStep(k)
        PROVE  JInv'
    <2>1. CASE EnqueueCandidate(k)
      <3>1. PICK u \in chk[k].cands : Step(k, Enqueuing(k, chk[k].cands \ {u}))
        BY <2>1 DEF EnqueueCandidate
      <3>2. PICK c : c = Enqueuing(k, chk[k].cands \ {u})
        OBVIOUS
      <3>3. c.pc \in {"idle", "enqueue"}
        BY <3>2 DEF Enqueuing, Idle
      <3>4. Mirrors(c)
        BY <3>3 DEF Mirrors
      <3>5. UNCHANGED <<nomad, differ>>
        BY <2>1 DEF EnqueueCandidate
      <3> QED
        BY <3>1, <3>2, <3>4, <3>5, InsidePublished DEF differ
    <2> QED
      BY <1>1, <2>1, ReadingPublished, CommitResultsPublished DEF CheckStep
  <1>2. CASE ApplierStep
    <2>1. /\ UNCHANGED <<live, index, repo, chk, limit, lastCommit, drift>>
          /\ lastIndex' \in {0, lastIndex}
      BY <1>2 DEF ApplierStep, NextPending, Apply, CallFails, CompleteUpdate, InvalidateSkip,
                  nomad, differ, budget
    <2> QED
      BY <1>0, <2>1, OutsidePublished
  <1>3. ASSUME NEW r \in wire, Land(r)
        PROVE  JInv'
    <2>1. UNCHANGED <<repo, chk, limit, lastCommit, drift, lastIndex>>
      BY <1>3 DEF Land, differ, budget
    <2>2. \/ UNCHANGED <<live, index, repo>>
          \/ index' = index + 1
      BY <1>3, <2>1 DEF Land, Written
    <2>3. index' = index + 1 => index' > index
      BY <1>0
    <2> QED
      BY <1>0, <2>1, <2>2, <2>3, OutsidePublished
  <1>4. ASSUME NEW tree \in Trees, Commit(tree)
        PROVE  JInv'
    <2>1. UNCHANGED <<live, index, chk, limit, lastCommit, drift, lastIndex>>
      BY <1>4 DEF Commit, nomad, differ, budget
    <2>2. head' > head
      <3>1. PICK n \in Nat : n = head + 1 /\ n >= 1
        BY DEF IInv, RepoOK
      <3>2. DOMAIN repo' = 1 .. n
        BY <1>4, <3>1 DEF Commit
      <3>3. head' = n
        BY <3>1, <3>2, MaxInterval DEF head
      <3> QED
        BY <1>0, <3>1, <3>3
    <2> QED
      BY <1>0, <2>1, <2>2, OutsidePublished
  <1>5. ASSUME Edit, index' = index + 1
        PROVE  JInv'
    <2>1. UNCHANGED <<chk, limit, lastCommit, drift, lastIndex>>
      BY <1>5 DEF Edit, differ
    <2>2. index' > index
      BY <1>0, <1>5
    <2> QED
      BY <1>0, <2>1, <2>2, OutsidePublished
  <1>6. CASE Environment
    <2>1. CASE Crash
      <3>1. /\ UNCHANGED <<live, index, repo, limit>> /\ lastIndex' = 0
            /\ chk' = [k \in Checkers |-> Idle]
        BY <2>1 DEF Crash, nomad
      <3>2. ~WouldSkip'
        BY <1>0, <3>1 DEF WouldSkip, JInv
      <3>3. Mirrors(Idle)'
        BY <3>1, IdleMirrors, StillMirrors
      <3>4. PICK c : c = Idle
        OBVIOUS
      <3>5. \A k \in Checkers : chk'[k] = c
        BY <3>1, <3>4
      <3>6. (\A k \in Checkers : Mirrors(chk[k]))'
        BY <3>1, <3>3 DEF Mirrors, Idle
      <3> QED
        BY <3>1, <3>2, <3>6 DEF JInv, Published
    <2>2. CASE Environment /\ ~Crash
      BY <1>4, <1>5, <2>2
      DEF Environment, OperatorRun, OperatorStop, OperatorPurge, StatusWrite, Written
    <2> QED
      BY <1>6, <2>1, <2>2
  <1>7. CASE UNCHANGED vars
    <2>1. UNCHANGED <<live, index, repo, chk, limit, lastCommit, drift, lastIndex>>
      BY <1>7 DEF vars, nomad, differ, budget
    <2> QED
      BY <1>0, <2>1, OutsidePublished
  <1> QED
    BY <1>1, <1>2, <1>3, <1>6, <1>7 DEF Next

\* Nothing is published at the start, and no Check runs.
LEMMA InitJInv == Init => JInv
  <1> SUFFICES ASSUME Init
               PROVE  JInv
    OBVIOUS
  <1>1. index = 1 /\ lastIndex = 0
    BY DEF Init
  <1>2. \A k \in Checkers : chk[k] = Idle
    BY DEF Init
  <1>3. \A k \in Checkers : Mirrors(chk[k])
    BY <1>2, IdleMirrors
  <1> QED
    BY <1>1, <1>3 DEF JInv, Published, WouldSkip

\* While a Check at HEAD would skip, what is published is the whole truth, of
\* every instance in which no API call of a Check fails: any number of
\* overlapping Checks, crashes, failed applies and other writers of Nomad
\* (the skip test of differ.go:1150).
THEOREM PublishedIsTrue == Spec => []PublishedIsCurrent
  <1>1. Init => IInv /\ JInv
    BY InitIInv, InitJInv
  <1>2. IInv /\ JInv /\ [Next]_vars => (IInv /\ JInv)'
    BY NextIInv, NextJInv
  <1>3. IInv /\ JInv => PublishedIsCurrent
    BY DEF JInv, Published, Undisturbed, Diffs, PublishedIsCurrent
  <1> QED
    BY <1>1, <1>2, <1>3, PTL DEF Spec

-----------------------------------------------------------------------------
(* Who answers a drift.  With one Check at a time and no other writer of    *)
(* Nomad, what is known of a job is known in the order it was read: the     *)
(* tokens of a job's requests, of its row in flight, of its waiting row and *)
(* of a Check's candidate never go back.                                    *)

Unsettled(rows) == DOMAIN rows \ Settled(rows)

\* Nothing of job j that may still be written was read after token t was.
Passed(j, t) ==
    /\ \A r \in wire : r.job = j => r.token <= t
    /\ \A i \in Unsettled(updates) : updates[i].job = j => updates[i].body.token <= t

NobodyElse == \A j \in Jobs : live[j].dead = FALSE /\ Passed(j, live[j].idx)

OneCheck ==
    \A k, m \in Checkers : chk[k].pc # "idle" /\ chk[m].pc # "idle" => k = m

\* What a Check has found, it has a candidate for, read in its turn.
InTurn(c) ==
    /\ c.pc \in {"idle", "list", "gate"} => c.cands = {}
    /\ c.pc \in {"job", "plan"} =>
          /\ \A j \in Left(c) : j \in Jobs /\ repo[c.commit][j] # Absent
          /\ \A f \in c.found : f[2] \in {"modified", "missing_from_nomad"} =>
                \E u \in c.cands : u.job = f[1]
    /\ c.pc = "plan" =>
          c.job \notin c.todo /\ c.token <= live[c.job].idx /\ Passed(c.job, c.token)
    /\ c.pc = "enqueue" => c.commit = lastCommit
    /\ \A u \in c.cands :
          /\ u.spec = repo[c.commit][u.job] /\ u.spec # u.against
          /\ u.token <= live[u.job].idx /\ Passed(u.job, u.token)
          /\ u.job \notin Left(c)
          /\ \A v \in c.cands : v.job = u.job => v = u

\* The row the applier holds.
InFlight(a) == IF a.pc \in {"plan", "reply", "complete"} THEN {a.row} ELSE {}

RowsInTurn ==
    /\ InProgress(updates) = InFlight(ap)
    /\ \A i \in DOMAIN updates :
          /\ updates[i].ref >= 1 /\ updates[i].ref <= head
          /\ updates[i].body.spec = repo[updates[i].ref][updates[i].job]
          /\ updates[i].body.spec # updates[i].body.against
    /\ \A i, m \in Pending(updates) : updates[i].job = updates[m].job => i = m
    /\ \A i \in InProgress(updates), m \in Pending(updates) :
          updates[i].job = updates[m].job => updates[i].body.token <= updates[m].body.token
    /\ \A r \in wire, i \in Unsettled(updates) :
          r.job = updates[i].job => r.token <= updates[i].body.token

\* A request of a row that is still known is what the row says.
WireInTurn ==
    \A r \in wire : r.row \in DOMAIN updates =>
        /\ r.row \notin Pending(updates)
        /\ r.job = updates[r.row].job /\ r.spec = updates[r.row].body.spec
        /\ r.token = updates[r.row].body.token

DoneIsDone ==
    ap.pc = "complete" =>
        /\ ap.outcome \in {"SUCCEEDED", "FAILED"}
        /\ ap.outcome = "SUCCEEDED" =>
              live[Row.job].spec = Row.body.spec /\ Row.body.token < live[Row.job].idx

\* Somebody owes the job of a drift an update of this commit.
Answered(j) ==
    \/ \E k \in Checkers : chk[k].pc = "enqueue" /\ \E u \in chk[k].cands : u.job = j
    \/ \E i \in Unsettled(updates) : updates[i].job = j /\ updates[i].ref = head

Owned ==
    WouldSkip /\ ap.pc # "invalidate" =>
        \A j \in Jobs : TrueDrift(j) \cap {"modified", "missing_from_nomad"} # {} => Answered(j)

TurnsOK ==
    /\ NobodyElse /\ OneCheck /\ RowsInTurn /\ WireInTurn /\ DoneIsDone /\ Owned
    /\ \A k \in Checkers : InTurn(chk[k])

KInv ==
    /\ limit \in Limits /\ edits \in Nat
    /\ OneGoodCheck /\ edits = 0 => TurnsOK

\* A row and what was made of it.
SameRow(r, s) == r.job = s.job /\ r.ref = s.ref /\ r.body = s.body

\* Deleting settled rows.
Thinned(new, rows) ==
    /\ DOMAIN new \subseteq DOMAIN rows
    /\ \A m \in DOMAIN new : new[m] = rows[m]
    /\ Unsettled(rows) \subseteq DOMAIN new

\* What is left then.
LEMMA ThinnedRows ==
    ASSUME NEW rows, NEW new, Thinned(new, rows)
    PROVE  /\ Pending(new) = Pending(rows) /\ InProgress(new) = InProgress(rows)
           /\ Unsettled(new) = Unsettled(rows)
  <1>1. Pending(rows) \subseteq Unsettled(rows) /\ InProgress(rows) \subseteq Unsettled(rows)
    BY DEF Pending, InProgress, Unsettled, Settled, TerminalStatus
  <1> QED
    BY <1>1 DEF Thinned, Pending, InProgress, Unsettled, Settled

\* Keep does, if it keeps what is not settled.
LEMMA KeepThins ==
    ASSUME NEW rows, NEW S, Unsettled(rows) \subseteq S
    PROVE  Thinned(Keep(rows, S), rows)
  BY DEF Keep, Thinned, Unsettled

\* So does prune.
LEMMA PruneThins == ASSUME NEW rows PROVE Thinned(Prune(rows), rows)
  <1> DEFINE S == {i \in DOMAIN rows : i \in Settled(rows) =>
                     Cardinality({k \in Settled(rows) : k >= i}) <= MaxTerminalUpdates}
  <1>1. Unsettled(rows) \subseteq S
    BY DEF Unsettled
  <1> QED
    BY <1>1, KeepThins DEF Prune

\* The first of one.
LEMMA FirstOfOne == ASSUME NEW i \in Nat PROVE First({i}) = {i}
  BY DEF First

\* NextPending takes a row from those that wait.
LEMMA MarkTurns ==
    ASSUME NEW rows, RowsOK(rows), NEW i \in Pending(rows), NEW new, new = MarkInProgress(rows, i)
    PROVE  /\ DOMAIN new = DOMAIN rows
           /\ \A m \in DOMAIN rows : SameRow(new[m], rows[m])
           /\ InProgress(new) = InProgress(rows) \cup {i}
           /\ Pending(new) = Pending(rows) \ {i}
           /\ Unsettled(new) = Unsettled(rows)
  <1>1. i \in DOMAIN rows /\ rows[i].status = "PENDING"
    BY DEF Pending
  <1>2. /\ DOMAIN new = DOMAIN rows
        /\ \A m \in DOMAIN rows :
              new[m] = IF m = i THEN [rows[m] EXCEPT !.status = "IN_PROGRESS"] ELSE rows[m]
    BY DEF MarkInProgress, RowsOK
  <1>3. \A m \in DOMAIN rows :
           /\ SameRow(new[m], rows[m])
           /\ new[m].status = IF m = i THEN "IN_PROGRESS" ELSE rows[m].status
    BY <1>2 DEF RowsOK, UpdateRow, SameRow
  <1> QED
    BY <1>1, <1>2, <1>3 DEF InProgress, Pending, Unsettled, Settled, TerminalStatus

\* Complete settles the only row in flight.
LEMMA CompleteTurns ==
    ASSUME NEW rows, RowsOK(rows), DOMAIN rows \subseteq Nat, NEW i, InProgress(rows) = {i},
           NEW outcome \in {"SUCCEEDED", "FAILED"}, NEW new, new = Complete(rows, rows[i], outcome)
    PROVE  /\ DOMAIN new \subseteq DOMAIN rows
           /\ \A m \in DOMAIN new : SameRow(new[m], rows[m])
           /\ InProgress(new) = {} /\ Pending(new) = Pending(rows)
           /\ Unsettled(new) = Unsettled(rows) \ {i}
  <1> DEFINE mid == [m \in DOMAIN rows |->
                        IF m \in {i} THEN [rows[m] EXCEPT !.status = outcome] ELSE rows[m]]
  <1>1. i \in DOMAIN rows /\ i \in Nat /\ rows[i].status = "IN_PROGRESS"
    BY DEF InProgress
  <1>2. SameUpdateID(rows, rows[i]) \cap InProgress(rows) = {i}
    BY <1>1 DEF SameUpdateID
  <1>3. new = Prune(mid)
    BY <1>1, <1>2, FirstOfOne DEF Complete
  <1>4. /\ DOMAIN mid = DOMAIN rows
        /\ \A m \in DOMAIN rows :
              mid[m] = IF m = i THEN [rows[m] EXCEPT !.status = outcome] ELSE rows[m]
    OBVIOUS
  <1> HIDE DEF mid
  <1>5. \A m \in DOMAIN rows :
           /\ SameRow(mid[m], rows[m])
           /\ mid[m].status = IF m = i THEN outcome ELSE rows[m].status
    BY <1>4 DEF RowsOK, UpdateRow, SameRow
  <1>6. /\ InProgress(mid) = {} /\ Pending(mid) = Pending(rows)
        /\ Unsettled(mid) = Unsettled(rows) \ {i}
    <2>1. InProgress(mid) = {}
      BY <1>4, <1>5 DEF InProgress
    <2>2. Pending(mid) = Pending(rows)
      BY <1>1, <1>4, <1>5 DEF Pending
    <2>3. Unsettled(mid) = Unsettled(rows) \ {i}
      BY <1>1, <1>4, <1>5 DEF Unsettled, Settled, TerminalStatus
    <2> QED
      BY <2>1, <2>2, <2>3
  <1>7. Thinned(new, mid)
    BY <1>3, PruneThins
  <1> QED
    BY <1>4, <1>5, <1>6, <1>7, ThinnedRows DEF Thinned

\* Enqueue of an intent a row has already: it answers, refreshed if it waits.
LEMMA ClaimedTurns ==
    ASSUME NEW rows, RowsOK(rows), NEW u \in Intent, Claiming(rows, u) # {},
           NEW n, NEW new, new = Enqueue(rows, n, u)
    PROVE  /\ DOMAIN new = DOMAIN rows
           /\ \A m \in DOMAIN rows :
                 /\ new[m].job = rows[m].job /\ new[m].ref = rows[m].ref
                 /\ \/ new[m].body = rows[m].body
                    \/ /\ m \in Pending(rows) /\ new[m].body = u.body
                       /\ rows[m].job = u.job /\ rows[m].ref = u.ref
           /\ InProgress(new) = InProgress(rows) /\ Pending(new) = Pending(rows)
           /\ Unsettled(new) = Unsettled(rows)
           /\ \E m \in Unsettled(new) : new[m].job = u.job /\ new[m].ref = u.ref
  <1>1. new = Refresh(rows, u)
    BY DEF Enqueue
  <1>2. /\ DOMAIN new = DOMAIN rows
        /\ \A m \in DOMAIN rows :
              new[m] = IF m \in Claiming(rows, u) \cap Pending(rows)
                       THEN [rows[m] EXCEPT !.body = u.body] ELSE rows[m]
    BY <1>1 DEF Refresh
  <1>3. \A m \in Claiming(rows, u) :
           m \in Unsettled(rows) /\ rows[m].job = u.job /\ rows[m].ref = u.ref
    BY DEF Claiming, First, SameUpdateID, Unsettled
  <1>4. \A m \in DOMAIN rows :
           /\ new[m].job = rows[m].job /\ new[m].ref = rows[m].ref
           /\ new[m].status = rows[m].status
           /\ \/ new[m].body = rows[m].body
              \/ m \in Claiming(rows, u) /\ m \in Pending(rows) /\ new[m].body = u.body
    BY <1>2 DEF RowsOK, UpdateRow
  <1>5. /\ InProgress(new) = InProgress(rows) /\ Pending(new) = Pending(rows)
        /\ Unsettled(new) = Unsettled(rows)
    BY <1>2, <1>4 DEF InProgress, Pending, Unsettled, Settled
  <1>6. \E m \in Unsettled(new) : new[m].job = u.job /\ new[m].ref = u.ref
    <2>1. PICK m : m \in Claiming(rows, u)
      OBVIOUS
    <2>2. m \in DOMAIN rows
      BY <2>1, <1>3 DEF Unsettled
    <2> QED
      BY <1>3, <1>4, <1>5, <2>1, <2>2
  <1> QED
    BY <1>2, <1>3, <1>4, <1>5, <1>6

\* Enqueue of any other: it waits in the place of what waited for the job.
LEMMA AppendTurns ==
    ASSUME NEW rows, RowsOK(rows), NEW u \in Intent, Claiming(rows, u) = {},
           NEW n, n \notin DOMAIN rows, NEW new, new = Enqueue(rows, n, u)
    PROVE  /\ n \in DOMAIN new /\ DOMAIN new \subseteq DOMAIN rows \cup {n}
           /\ new[n] = [job |-> u.job, ref |-> u.ref, op |-> u.op, body |-> u.body,
                        status |-> "PENDING"]
           /\ \A m \in DOMAIN new : m # n => SameRow(new[m], rows[m])
           /\ InProgress(new) = InProgress(rows)
           /\ Pending(new) = {m \in Pending(rows) : rows[m].job # u.job} \cup {n}
           /\ Unsettled(new) = {m \in Unsettled(rows) : m \in Pending(rows) => rows[m].job # u.job}
                                  \cup {n}
  <1> DEFINE mid == Supersede(rows, u)
             left == DropRetried(mid, u)
             added == AppendRow(left, n, u)
  <1>1. new = Prune(added)
    BY DEF Enqueue
  <1>2. /\ DOMAIN mid = DOMAIN rows
        /\ \A m \in DOMAIN rows :
              mid[m] = IF rows[m].job = u.job /\ m \in Pending(rows)
                       THEN [rows[m] EXCEPT !.status = "SUPERSEDED"] ELSE rows[m]
    BY DEF Supersede
  <1>3. Thinned(left, mid)
    <2>1. Unsettled(mid) \subseteq DOMAIN mid \ First(SameUpdateID(mid, u) \cap Settled(mid))
      BY DEF Unsettled, First
    <2> HIDE DEF mid
    <2> QED
      BY <2>1, KeepThins DEF DropRetried
  <1> HIDE DEF mid, left
  <1>4. \A m \in DOMAIN rows :
           /\ SameRow(mid[m], rows[m])
           /\ mid[m].status = IF rows[m].job = u.job /\ m \in Pending(rows)
                              THEN "SUPERSEDED" ELSE rows[m].status
    BY <1>2 DEF RowsOK, UpdateRow, SameRow
  <1>5. /\ InProgress(mid) = InProgress(rows)
        /\ Pending(mid) = {m \in Pending(rows) : rows[m].job # u.job}
        /\ Unsettled(mid) = {m \in Unsettled(rows) : m \in Pending(rows) => rows[m].job # u.job}
    <2>1. InProgress(mid) = InProgress(rows)
      BY <1>2, <1>4 DEF InProgress, Pending
    <2>2. Pending(mid) = {m \in Pending(rows) : rows[m].job # u.job}
      BY <1>2, <1>4 DEF Pending
    <2>3. Unsettled(mid) = {m \in Unsettled(rows) : m \in Pending(rows) => rows[m].job # u.job}
      BY <1>2, <1>4 DEF Unsettled, Settled, TerminalStatus
    <2> QED
      BY <2>1, <2>2, <2>3
  <1>6. /\ InProgress(left) = InProgress(mid) /\ Pending(left) = Pending(mid)
        /\ Unsettled(left) = Unsettled(mid)
    BY <1>3, ThinnedRows
  <1>7. n \notin DOMAIN left
    BY <1>2, <1>3 DEF Thinned
  <1>8. /\ DOMAIN added = DOMAIN left \cup {n}
        /\ added[n] = [job |-> u.job, ref |-> u.ref, op |-> u.op, body |-> u.body,
                       status |-> "PENDING"]
        /\ \A m \in DOMAIN left : m # n /\ added[m] = left[m]
    BY <1>7 DEF AppendRow
  <1> HIDE DEF added
  <1>9. /\ InProgress(added) = InProgress(left)
        /\ Pending(added) = Pending(left) \cup {n}
        /\ Unsettled(added) = Unsettled(left) \cup {n}
    <2>1. added[n].status = "PENDING"
      BY <1>8
    <2>2. InProgress(added) = InProgress(left)
      BY <1>8, <2>1 DEF InProgress
    <2>3. Pending(added) = Pending(left) \cup {n}
      BY <1>8, <2>1 DEF Pending
    <2>4. Unsettled(added) = Unsettled(left) \cup {n}
      BY <1>8, <2>1 DEF Unsettled, Settled, TerminalStatus
    <2> QED
      BY <2>2, <2>3, <2>4
  <1>10. Thinned(new, added)
    BY <1>1, PruneThins
  <1>11. n \in DOMAIN new /\ new[n] = added[n]
    BY <1>9, <1>10 DEF Thinned
  <1>12. \A m \in DOMAIN new : m # n => m \in DOMAIN rows /\ SameRow(new[m], rows[m])
    BY <1>2, <1>3, <1>4, <1>8, <1>10 DEF Thinned, SameRow
  <1>13. /\ InProgress(new) = InProgress(added) /\ Pending(new) = Pending(added)
         /\ Unsettled(new) = Unsettled(added)
    BY <1>10, ThinnedRows
  <1> QED
    BY <1>5, <1>6, <1>8, <1>9, <1>11, <1>12, <1>13

\* No request and no row that was not there before.
LEMMA PassedLater ==
    ASSUME \A r \in wire' : \/ r \in wire
                            \/ \E i \in Unsettled(updates) :
                                  r.job = updates[i].job /\ r.token = updates[i].body.token,
           \A i \in Unsettled(updates') :
              i \in Unsettled(updates) /\ SameRow(updates'[i], updates[i])
    PROVE  \A j, t : Passed(j, t) => Passed(j, t)'
  <1> SUFFICES ASSUME NEW j, NEW t, Passed(j, t)
               PROVE  Passed(j, t)'
    OBVIOUS
  <1>1. PICK new : new = updates'
    OBVIOUS
  <1>2. \A i \in Unsettled(new) : new[i].job = j => new[i].body.token <= t
    BY <1>1 DEF Passed, SameRow
  <1>3. \A r \in wire' : r.job = j => r.token <= t
    BY DEF Passed
  <1>4. \A i \in Unsettled(updates)' : updates'[i].job = j => updates'[i].body.token <= t
    BY <1>1, <1>2 DEF Unsettled, Settled
  <1> QED
    BY <1>3, <1>4 DEF Passed

\* The table of jobs and the branch grow.
Onward ==
    /\ \A j \in Jobs : live[j].idx <= live'[j].idx
    /\ head <= head' /\ \A n \in 1 .. head : repo'[n] = repo[n]
    /\ \A j, t : Passed(j, t) => Passed(j, t)'

\* What a Check holds in its turn stays so.
LEMMA InTurnLater ==
    ASSUME IInv, IInv', Onward, lastCommit' = lastCommit
    PROVE  \A c : CheckOK(c) /\ InTurn(c) => InTurn(c)'
  <1> SUFFICES ASSUME NEW c, CheckOK(c), InTurn(c)
               PROVE  InTurn(c)'
    OBVIOUS
  <1>1. /\ c.todo \subseteq Jobs /\ c.commit \in Nat /\ c.commit <= head
        /\ c.pc # "idle" => c.commit \in 1 .. head
        /\ \A u \in c.cands : u.job \in Jobs /\ u.token \in Nat
        /\ c.pc = "plan" => c.job \in Jobs
        /\ c.token \in Nat
    BY DEF CheckOK, CheckState, Candidate, IInv, RepoOK
  <1>2. \A j \in Jobs, t \in Nat : t <= live[j].idx => t <= live'[j].idx
    BY DEF Onward, IInv, LiveOK, Job
  <1>3. c.pc \in {"job", "plan", "enqueue"} => repo'[c.commit] = repo[c.commit]
    BY <1>1 DEF Onward
  <1>4. c.pc \in {"job", "plan"} =>
           /\ \A j \in Left(c) : j \in Jobs /\ repo'[c.commit][j] # Absent
           /\ \A f \in c.found : f[2] \in {"modified", "missing_from_nomad"} =>
                 \E u \in c.cands : u.job = f[1]
    BY <1>3 DEF InTurn
  <1>5. c.pc = "plan" =>
          c.job \notin c.todo /\ c.token <= live'[c.job].idx /\ Passed(c.job, c.token)'
    BY <1>1, <1>2 DEF InTurn, Onward
  <1>6. ASSUME NEW u \in c.cands
        PROVE  /\ u.spec = repo'[c.commit][u.job] /\ u.spec # u.against
               /\ u.token <= live'[u.job].idx /\ Passed(u.job, u.token)'
               /\ u.job \notin Left(c)
               /\ \A v \in c.cands : v.job = u.job => v = u
    <2>1. c.pc \in {"job", "plan", "enqueue"}
      BY DEF InTurn, CheckOK, CheckState
    <2> QED
      BY <1>1, <1>2, <1>3, <2>1 DEF InTurn, Onward
  <1>7. c.pc = "enqueue" => c.commit = lastCommit'
    BY DEF InTurn
  <1>8. c.pc \in {"idle", "list", "gate"} => c.cands = {}
    BY DEF InTurn
  <1>9. Left(c)' = Left(c)
    BY DEF Left
  <1> QED
    BY <1>4, <1>5, <1>6, <1>7, <1>8, <1>9 DEF InTurn

\* All Checks stay as they are.
LEMMA ChecksInTurn ==
    ASSUME IInv, IInv', TurnsOK, Onward, chk' = chk, lastCommit' = lastCommit
    PROVE  OneCheck' /\ (\A k \in Checkers : InTurn(chk[k]))'
  <1>1. PICK cs : cs = chk
    OBVIOUS
  <1>2. \A k \in Checkers : CheckOK(cs[k]) /\ InTurn(cs[k])
    BY <1>1 DEF IInv, ChecksOK, TurnsOK
  <1>3. \A k \in Checkers : InTurn(cs[k])'
    BY <1>2, InTurnLater
  <1>4. (\A k \in Checkers : InTurn(chk[k]))'
    BY <1>1, <1>3
  <1> QED
    BY <1>4 DEF TurnsOK, OneCheck

\* Jobs stay alive, and what may be written to them was read before.
LEMMA NobodyElseLater ==
    ASSUME IInv, IInv', TurnsOK, Onward, \A j \in Jobs : live'[j].dead = FALSE
    PROVE  NobodyElse'
  <1> SUFFICES ASSUME NEW j \in Jobs
               PROVE  Passed(j, live[j].idx)'
    BY DEF NobodyElse
  <1>1. PICK t : t = live[j].idx
    OBVIOUS
  <1>2. PICK u : u = live'[j].idx
    OBVIOUS
  <1>3. t \in Nat /\ u \in Nat /\ t <= u
    BY <1>1, <1>2 DEF Onward, IInv, LiveOK, Job
  <1>4. Passed(j, t)'
    BY <1>1 DEF TurnsOK, NobodyElse, Onward
  <1>5. (\A r \in wire : r.token \in Nat)' /\ (\A i \in Unsettled(updates) : updates[i].body.token \in Nat)'
    BY DEF IInv, WireOK, Requests, QueueOK, RowsOK, UpdateRow, Body, Unsettled
  <1>6. Passed(j, u)'
    BY <1>3, <1>4, <1>5 DEF Passed
  <1> QED
    BY <1>2, <1>6

\* Nothing new is published, and nobody lets a drift go.
LEMMA OwnedLater ==
    ASSUME TurnsOK, WouldSkip' => WouldSkip, ap.pc = "invalidate" => ap'.pc = "invalidate",
           UNCHANGED <<live, repo>>, \A j \in Jobs : Answered(j) => Answered(j)'
    PROVE  Owned'
  <1>1. head' = head /\ Running' = Running
    BY DEF head, Running
  <1>2. \A j : Desired(j)' = Desired(j)
    BY <1>1 DEF Desired
  <1>3. \A j : TrueDrift(j)' = TrueDrift(j)
    BY <1>1, <1>2 DEF TrueDrift
  <1>4. SUFFICES ASSUME WouldSkip', ap'.pc # "invalidate", NEW j \in Jobs,
                        TrueDrift(j)' \cap {"modified", "missing_from_nomad"} # {}
                 PROVE  Answered(j)'
    BY DEF Owned
  <1>5. TrueDrift(j) \cap {"modified", "missing_from_nomad"} # {}
    BY <1>3, <1>4
  <1> QED
    BY <1>4, <1>5 DEF TurnsOK, Owned

\* Nobody writes, and the branch stays: what is passed is all there is to show.
LEMMA StillOnward ==
    ASSUME IInv, UNCHANGED <<live, repo>>, \A j, t : Passed(j, t) => Passed(j, t)'
    PROVE  Onward
  <1>1. head' = head /\ head \in Nat
    BY DEF head, IInv, RepoOK
  <1>2. \A j \in Jobs : live[j].idx \in Nat
    BY DEF IInv, LiveOK, Job
  <1>3. \A j \in Jobs : live[j].idx <= live[j].idx
    BY <1>2
  <1> QED
    BY <1>1, <1>3 DEF Onward

\* What is not settled waits, or is in flight.
LEMMA UnsettledRows ==
    ASSUME IInv
    PROVE  /\ Unsettled(updates) = Pending(updates) \cup InProgress(updates)
           /\ \A i \in InProgress(updates) : i \notin Pending(updates)
  <1>1. \A i \in DOMAIN updates : updates[i].status \in Status
    BY DEF IInv, QueueOK, RowsOK, UpdateRow
  <1> QED
    BY <1>1 DEF Unsettled, Settled, Pending, InProgress, Status, TerminalStatus

\* The row the applier holds, while it holds it.
LEMMA HeldRow ==
    ASSUME IInv, TurnsOK, ap.pc \in {"plan", "reply", "complete"}
    PROVE  /\ InProgress(updates) = {ap.row} /\ ap.row \in Unsettled(updates)
           /\ ap.row \in DOMAIN updates /\ ap.row \notin Pending(updates)
           /\ Row.job \in Jobs /\ Row.body.token \in Nat /\ Row.body.token <= index
  <1>1. InProgress(updates) = {ap.row}
    BY DEF TurnsOK, RowsInTurn, InFlight
  <1>2. ap.row \in Unsettled(updates) /\ ap.row \notin Pending(updates) /\ ap.row \in DOMAIN updates
    BY <1>1, UnsettledRows DEF InProgress
  <1>3. \A i \in DOMAIN updates : updates[i].job \in Jobs /\ updates[i].body.token \in Nat
                                  /\ updates[i].body.token <= index
    BY DEF IInv, QueueOK, RowsOK, UpdateRow, Body, Sound
  <1> QED
    BY <1>1, <1>2, <1>3 DEF Row

\* The queue stays as it is, and the only new request is its row in flight.
LEMMA SameRows ==
    ASSUME IInv, IInv', TurnsOK, Onward, updates' = updates, InFlight(ap') = InFlight(ap),
           \A r \in wire' : r \in wire \/ (ap.pc = "plan" /\ r = Request(Row.body.token))
    PROVE  RowsInTurn' /\ WireInTurn'
  <1>1. /\ InProgress(updates)' = InProgress(updates) /\ Pending(updates)' = Pending(updates)
        /\ Unsettled(updates)' = Unsettled(updates)
    BY DEF InProgress, Pending, Unsettled, Settled
  <1>2. InProgress(updates)' = InFlight(ap)'
    BY <1>1 DEF InFlight, TurnsOK, RowsInTurn
  <1>3. head \in Nat /\ head' \in Nat /\ head <= head'
    BY DEF Onward, IInv, RepoOK
  <1>4. \A i \in DOMAIN updates : updates[i].ref \in Nat
    BY DEF IInv, QueueOK, RowsOK, UpdateRow
  <1>5. ASSUME NEW i \in DOMAIN updates
        PROVE  /\ updates[i].ref >= 1 /\ updates[i].ref <= head'
               /\ updates[i].body.spec = repo'[updates[i].ref][updates[i].job]
               /\ updates[i].body.spec # updates[i].body.against
    <2>1. /\ updates[i].ref >= 1 /\ updates[i].ref <= head
          /\ updates[i].body.spec = repo[updates[i].ref][updates[i].job]
          /\ updates[i].body.spec # updates[i].body.against
      BY DEF TurnsOK, RowsInTurn
    <2>2. updates[i].ref \in 1 .. head /\ updates[i].ref <= head'
      BY <1>3, <1>4, <2>1
    <2> QED
      BY <2>1, <2>2 DEF Onward
  <1>6. ASSUME NEW r \in wire', NEW i \in Unsettled(updates), r.job = updates[i].job
        PROVE  r.token <= updates[i].body.token
    <2>1. CASE r \in wire
      BY <1>6, <2>1 DEF TurnsOK, RowsInTurn
    <2>2. CASE ap.pc = "plan" /\ r = Request(Row.body.token)
      <3>1. r.job = Row.job /\ r.token = Row.body.token
        BY <2>2 DEF Request
      <3>2. Row.body.token \in Nat /\ InProgress(updates) = {ap.row}
        BY <2>2, HeldRow
      <3>3. i = ap.row \/ i \in Pending(updates)
        BY <3>2, UnsettledRows
      <3>4. CASE i = ap.row
        <4>1. Row.body.token <= Row.body.token
          BY <3>2
        <4> QED
          BY <3>1, <3>4, <4>1 DEF Row
      <3>5. CASE i \in Pending(updates)
        BY <1>6, <3>1, <3>2, <3>5 DEF TurnsOK, RowsInTurn, Row
      <3> QED
        BY <3>3, <3>4, <3>5
    <2> QED
      BY <2>1, <2>2
  <1>7. RowsInTurn'
    BY <1>1, <1>2, <1>5, <1>6 DEF TurnsOK, RowsInTurn
  <1>8. WireInTurn'
    <2> SUFFICES ASSUME NEW r \in wire', r.row \in DOMAIN updates
                 PROVE  /\ r.row \notin Pending(updates)
                        /\ r.job = updates[r.row].job /\ r.spec = updates[r.row].body.spec
                        /\ r.token = updates[r.row].body.token
      BY <1>1 DEF WireInTurn
    <2>1. CASE r \in wire
      BY <2>1 DEF TurnsOK, WireInTurn
    <2>2. CASE ap.pc = "plan" /\ r = Request(Row.body.token)
      BY <2>2, HeldRow DEF Request, Row
    <2> QED
      BY <2>1, <2>2
  <1> QED
    BY <1>7, <1>8

\* A commit comes: no Check at the new HEAD would skip.
LEMMA CommitTurns ==
    ASSUME IInv, IInv', TurnsOK, NEW tree \in Trees, Commit(tree)
    PROVE  TurnsOK'
  <1>1. UNCHANGED <<live, index, wire, updates, chk, ap, lastCommit, lastIndex>>
    BY DEF Commit, nomad, queue, differ
  <1>2. PICK n \in Nat : n = head + 1 /\ n >= 1 /\ head \in Nat
    BY DEF IInv, RepoOK
  <1>3. DOMAIN repo' = 1 .. n /\ \A c \in 1 .. head : repo'[c] = repo[c]
    BY <1>2 DEF Commit
  <1>4. head' = n /\ head <= head'
    <2>1. head' = n
      BY <1>2, <1>3, MaxInterval DEF head
    <2> QED
      BY <1>2, <2>1
  <1>5. \A j, t : Passed(j, t) => Passed(j, t)'
    BY <1>1 DEF Passed, Unsettled, Settled
  <1>6. \A j \in Jobs : live[j].idx \in Nat /\ live[j].idx <= live'[j].idx
    BY <1>1 DEF IInv, LiveOK, Job
  <1>7. Onward
    BY <1>3, <1>4, <1>5, <1>6 DEF Onward
  <1>8. RowsInTurn' /\ WireInTurn'
    BY <1>1, <1>7, SameRows DEF InFlight
  <1>9. OneCheck' /\ (\A k \in Checkers : InTurn(chk[k]))'
    BY <1>1, <1>7, ChecksInTurn
  <1>10. NobodyElse'
    BY <1>1, <1>7, NobodyElseLater DEF TurnsOK, NobodyElse
  <1>11. DoneIsDone'
    BY <1>1 DEF TurnsOK, DoneIsDone, Row
  <1>12. ~WouldSkip'
    <2>1. lastCommit \in Nat /\ lastCommit <= head
      BY DEF IInv, DifferOK
    <2>2. lastCommit # n
      BY <1>2, <2>1
    <2> QED
      BY <1>1, <1>4, <2>2 DEF WouldSkip
  <1>13. Owned'
    BY <1>12 DEF Owned
  <1> QED
    BY <1>8, <1>9, <1>10, <1>11, <1>13 DEF TurnsOK

\* What a register leaves of the jobs.
LEMMA LandWrites ==
    ASSUME IInv, NEW r \in wire, Written(r.job, r.spec, FALSE)
    PROVE  /\ r.job \in Jobs /\ index \in Nat /\ index' \in Nat /\ index < index'
           /\ live'[r.job].idx = index' /\ live'[r.job].spec = r.spec /\ live'[r.job].dead = FALSE
           /\ \A j \in Jobs : j # r.job => live'[j] = live[j]
           /\ \A j \in Jobs : live[j].idx <= live'[j].idx
  <1>1. r.job \in Jobs
    BY DEF IInv, WireOK, Requests
  <1>2. PICK n \in Nat : n = index + 1 /\ index \in Nat /\ index < n
    BY DEF IInv, LiveOK
  <1>3. PICK table : table = [live EXCEPT ![r.job] = [spec |-> r.spec, idx |-> n, dead |-> FALSE]]
    OBVIOUS
  <1>4. index' = n /\ live' = table
    BY <1>2, <1>3 DEF Written
  <1>5. /\ table[r.job] = [spec |-> r.spec, idx |-> n, dead |-> FALSE]
        /\ \A j \in Jobs : j # r.job => table[j] = live[j]
    BY <1>1, <1>3 DEF IInv, LiveOK
  <1>6. \A j \in Jobs : live[j].idx \in Nat /\ live[j].idx <= index
    BY DEF IInv, LiveOK, Job
  <1>7. \A j \in Jobs : live[j].idx <= table[j].idx
    <2>1. \A j \in Jobs : live[j].idx <= n /\ live[j].idx <= live[j].idx
      BY <1>2, <1>6
    <2> QED
      BY <1>5, <2>1
  <1> QED
    BY <1>1, <1>2, <1>4, <1>5, <1>7

\* A request lands, or is refused.
LEMMA LandTurns ==
    ASSUME IInv, IInv', TurnsOK, NEW r \in wire, Land(r)
    PROVE  TurnsOK'
  <1>1. /\ UNCHANGED <<repo, updates, chk, lastCommit, lastIndex>>
        /\ wire' \subseteq wire
    BY DEF Land, queue, differ
  <1>2. /\ r.job \in Jobs /\ r.token \in Nat /\ r.token <= index
        /\ ap.pc \in {"plan", "reply", "complete"} =>
              /\ ap.row \in DOMAIN updates /\ ap.row \in Unsettled(updates)
              /\ Row.job \in Jobs /\ Row.body.token \in Nat /\ Row.body.token <= index
    BY HeldRow DEF IInv, WireOK, Requests, Sound
  <1>3. /\ ap' = ap \/ (ap.pc = "reply" /\ ap'.pc = "complete" /\ ap'.row = ap.row)
        /\ InFlight(ap') = InFlight(ap)
    <2>1. ap' = ap \/ \E status \in {"SUCCEEDED", "FAILED"} :
                         ap.pc = "reply" /\ ap' = [ap EXCEPT !.pc = "complete", !.outcome = status]
      BY DEF Land, Reply, Outcome
    <2> QED
      BY <2>1 DEF IInv, ApplierOK, InFlight
  <1>4. /\ \A j \in Jobs : live[j].idx <= live'[j].idx
        /\ \A j \in Jobs : live'[j].dead = FALSE
        /\ (index' = index /\ live' = live) \/ (index < index')
    <2>1. CASE live[r.job].idx = r.token
      <3>1. /\ index < index' /\ live'[r.job].dead = FALSE
            /\ \A j \in Jobs : j # r.job => live'[j] = live[j]
            /\ \A j \in Jobs : live[j].idx <= live'[j].idx
        BY <2>1, LandWrites DEF Land
      <3>2. \A j \in Jobs : live[j].dead = FALSE
        BY DEF TurnsOK, NobodyElse
      <3>3. \A j \in Jobs : live'[j].dead = FALSE
        <4> SUFFICES ASSUME NEW j \in Jobs
                     PROVE  live'[j].dead = FALSE
          OBVIOUS
        <4> QED
          BY <3>1, <3>2
      <3> QED
        BY <3>1, <3>3
    <2>2. CASE live[r.job].idx # r.token
      <3>1. UNCHANGED <<live, index>>
        BY <2>2 DEF Land
      <3>2. \A j \in Jobs : live[j].idx \in Nat
        BY DEF IInv, LiveOK, Job
      <3> QED
        BY <3>1, <3>2 DEF TurnsOK, NobodyElse
    <2> QED
      BY <2>1, <2>2
  <1>5. Onward
    <2>1. \A j, t : Passed(j, t) => Passed(j, t)'
      BY <1>1 DEF Passed, Unsettled, Settled
    <2>2. head' = head /\ head \in Nat
      BY <1>1 DEF head, IInv, RepoOK
    <2> QED
      BY <1>1, <1>4, <2>1, <2>2 DEF Onward
  <1>6. RowsInTurn' /\ WireInTurn'
    BY <1>1, <1>3, <1>5, SameRows
  <1>7. OneCheck' /\ (\A k \in Checkers : InTurn(chk[k]))'
    BY <1>1, <1>5, ChecksInTurn
  <1>8. NobodyElse'
    BY <1>4, <1>5, NobodyElseLater
  <1>9. DoneIsDone'
    <2>1. CASE live[r.job].idx = r.token
      <3>1. /\ live'[r.job].idx = index' /\ live'[r.job].spec = r.spec
            /\ index \in Nat /\ index' \in Nat /\ index < index'
            /\ \A j \in Jobs : j # r.job => live'[j] = live[j]
        BY <2>1, LandWrites DEF Land
      <3>2. CASE ap.pc = "reply" /\ ap.row = r.row
        <4>1. ap'.pc = "complete" /\ ap'.row = ap.row /\ ap'.outcome = "SUCCEEDED"
          BY <2>1, <3>2 DEF Land, Reply, Outcome, IInv, ApplierOK
        <4>2. r.job = Row.job /\ r.spec = Row.body.spec
          BY <1>2, <3>2 DEF TurnsOK, WireInTurn, Row
        <4>3. Row.body.token < index'
          BY <1>2, <3>1, <3>2
        <4>4. Row' = Row
          BY <1>1, <4>1 DEF Row
        <4> QED
          BY <3>1, <4>1, <4>2, <4>3, <4>4 DEF DoneIsDone
      <3>3. CASE ap' = ap
        <4>1. Row' = Row
          BY <1>1, <3>3 DEF Row
        <4>2. SUFFICES ASSUME ap.pc = "complete", ap.outcome = "SUCCEEDED"
                       PROVE  live'[Row.job] = live[Row.job]
          BY <3>3, <4>1 DEF TurnsOK, DoneIsDone
        <4>3. Row.body.token < live[Row.job].idx
          BY <4>2 DEF TurnsOK, DoneIsDone
        <4>4. r.job = Row.job => r.token <= Row.body.token
          BY <1>2, <4>2 DEF TurnsOK, RowsInTurn, Row
        <4>5. r.job # Row.job
          <5>1. SUFFICES ASSUME r.job = Row.job
                         PROVE  FALSE
            OBVIOUS
          <5>2. Row.body.token < r.token /\ r.token <= Row.body.token
            BY <2>1, <4>3, <4>4, <5>1
          <5> QED
            BY <1>2, <4>2, <5>2
        <4> QED
          BY <1>2, <3>1, <4>2, <4>5
      <3> QED
        BY <2>1, <3>2, <3>3 DEF Land, Reply
    <2>2. CASE live[r.job].idx # r.token
      <3>1. UNCHANGED <<live, index>>
        BY <2>2 DEF Land
      <3>2. ap' = ap \/ ap'.outcome = "FAILED"
        BY <2>2 DEF Land, Reply, Outcome, IInv, ApplierOK
      <3> QED
        BY <1>1, <3>1, <3>2 DEF TurnsOK, DoneIsDone, Row
    <2> QED
      BY <2>1, <2>2
  <1>10. Owned'
    <2>1. CASE index' = index /\ live' = live
      <3>1. \A j \in Jobs : Answered(j) => Answered(j)'
        BY <1>1 DEF Answered, Unsettled, Settled, head
      <3>2. WouldSkip' => WouldSkip
        BY <1>1, <2>1 DEF WouldSkip, head
      <3>3. ap.pc = "invalidate" => ap'.pc = "invalidate"
        BY <1>3
      <3> QED
        BY <1>1, <2>1, <3>1, <3>2, <3>3, OwnedLater
    <2>2. CASE index < index'
      <3>1. lastIndex \in Nat /\ lastIndex <= index /\ index \in Nat /\ index' \in Nat
        BY DEF IInv, DifferOK, LiveOK
      <3>2. lastIndex # index'
        BY <2>2, <3>1
      <3> QED
        BY <1>1, <3>2 DEF Owned, WouldSkip
    <2> QED
      BY <1>4, <2>1, <2>2
  <1> QED
    BY <1>6, <1>7, <1>8, <1>9, <1>10 DEF TurnsOK

\* A job that runs as HEAD says has no drift an update would answer.
LEMMA NoDrift ==
    ASSUME NEW j \in Jobs, live[j].dead = FALSE, live[j].spec = Desired(j)
    PROVE  TrueDrift(j) \cap {"modified", "missing_from_nomad"} = {}
  <1>1. CASE Desired(j) = Absent
    BY <1>1 DEF TrueDrift
  <1>2. CASE Desired(j) # Absent
    <2>1. j \in Running
      BY <1>2 DEF Running
    <2> QED
      BY <1>2, <2>1 DEF TrueDrift
  <1> QED
    BY <1>1, <1>2

\* A step of the applier that leaves the queue: what it may do to the rest.
LEMMA ApplierTurns ==
    ASSUME IInv, IInv', TurnsOK,
           UNCHANGED <<live, index, repo, chk, updates, lastCommit, lastIndex>>,
           \A r \in wire' : r \in wire \/ (ap.pc = "plan" /\ r = Request(Row.body.token)),
           InFlight(ap') = InFlight(ap), ap.pc # "invalidate", DoneIsDone'
    PROVE  TurnsOK'
  <1>1. \A j, t : Passed(j, t) => Passed(j, t)'
    <2>1. \A r \in wire' : \/ r \in wire
                           \/ \E i \in Unsettled(updates) :
                                 r.job = updates[i].job /\ r.token = updates[i].body.token
      BY HeldRow DEF Request, Row
    <2>2. \A i \in Unsettled(updates') : i \in Unsettled(updates) /\ SameRow(updates'[i], updates[i])
      BY DEF SameRow
    <2> QED
      BY <2>1, <2>2, PassedLater
  <1>2. Onward
    BY <1>1, StillOnward
  <1>3. RowsInTurn' /\ WireInTurn'
    BY <1>2, SameRows
  <1>4. OneCheck' /\ (\A k \in Checkers : InTurn(chk[k]))'
    BY <1>2, ChecksInTurn
  <1>5. NobodyElse'
    BY <1>2, NobodyElseLater DEF TurnsOK, NobodyElse
  <1>6. Owned'
    <2>1. \A j \in Jobs : Answered(j) => Answered(j)'
      BY DEF Answered, Unsettled, Settled, head
    <2>2. WouldSkip' => WouldSkip
      BY DEF WouldSkip, head
    <2> QED
      BY <2>1, <2>2, OwnedLater
  <1> QED
    BY <1>3, <1>4, <1>5, <1>6 DEF TurnsOK

\* The plan has nothing to do only where the job was written since the row's
\* token was read.
LEMMA ApplyTurns ==
    ASSUME IInv, IInv', TurnsOK, Apply
    PROVE  TurnsOK'
  <1>1. /\ ap.pc = "plan"
        /\ UNCHANGED <<live, index, repo, chk, updates, lastCommit, lastIndex>>
    BY DEF Apply, queue, differ
  <1>2. /\ InProgress(updates) = {ap.row} /\ ap.row \in Unsettled(updates)
        /\ ap.row \in DOMAIN updates /\ Row.job \in Jobs
        /\ Row.body.token \in Nat /\ Row.body.token <= index
    BY <1>1, HeldRow
  <1>3. \/ /\ wire' = wire \cup {Request(Row.body.token)}
           /\ ap' = [ap EXCEPT !.pc = "reply"]
        \/ /\ wire' = wire
           /\ ap' = [ap EXCEPT !.pc = "complete", !.outcome = "SUCCEEDED"]
           /\ ~Changes(Row.body.spec, live[Row.job])
        \/ /\ wire' = wire
           /\ ap' = [ap EXCEPT !.pc = "complete", !.outcome = "FAILED"]
    BY DEF Apply, Register, Outcome
  <1>4. /\ ap'.row = ap.row
        /\ \/ ap'.pc = "reply"
           \/ ap'.pc = "complete" /\ ap'.outcome = "FAILED"
           \/ /\ ap'.pc = "complete" /\ ap'.outcome = "SUCCEEDED"
              /\ ~Changes(Row.body.spec, live[Row.job])
    BY <1>3 DEF IInv, ApplierOK
  <1>5. InFlight(ap') = InFlight(ap)
    BY <1>1, <1>4 DEF InFlight
  <1>6. Row' = Row
    BY <1>1, <1>4 DEF Row
  <1>7. ~Changes(Row.body.spec, live[Row.job]) =>
           live[Row.job].spec = Row.body.spec /\ Row.body.token < live[Row.job].idx
    <2> SUFFICES ASSUME ~Changes(Row.body.spec, live[Row.job])
                 PROVE  live[Row.job].spec = Row.body.spec /\ Row.body.token < live[Row.job].idx
      OBVIOUS
    <2>1. live[Row.job].spec = Row.body.spec
      BY DEF Changes
    <2>2. Row.body.token <= live[Row.job].idx /\ live[Row.job].idx \in Nat
      BY <1>2 DEF TurnsOK, NobodyElse, Passed, Row, IInv, LiveOK, Job
    <2>3. Row.body.spec # Row.body.against
      BY <1>2 DEF TurnsOK, RowsInTurn, Row
    <2>4. live[Row.job].idx = Row.body.token => live[Row.job].spec = Row.body.against
      BY <1>2 DEF IInv, QueueOK, Sound, Row
    <2>5. live[Row.job].idx # Row.body.token
      BY <2>1, <2>3, <2>4
    <2> QED
      BY <1>2, <2>1, <2>2, <2>5
  <1>8. DoneIsDone'
    BY <1>1, <1>4, <1>6, <1>7 DEF DoneIsDone
  <1>9. \A r \in wire' : r \in wire \/ (ap.pc = "plan" /\ r = Request(Row.body.token))
    BY <1>1, <1>3
  <1> QED
    BY <1>1, <1>5, <1>8, <1>9, ApplierTurns

\* The register's call fails.
LEMMA CallFailsTurns ==
    ASSUME IInv, IInv', TurnsOK, CallFails
    PROVE  TurnsOK'
  <1>1. /\ ap.pc = "reply" /\ wire' \subseteq wire
        /\ UNCHANGED <<live, index, repo, chk, updates, lastCommit, lastIndex>>
    BY DEF CallFails, queue, differ
  <1>2. ap'.pc = "complete" /\ ap'.outcome = "FAILED" /\ ap'.row = ap.row
    BY DEF CallFails, Outcome, IInv, ApplierOK
  <1>3. InFlight(ap') = InFlight(ap) /\ DoneIsDone'
    BY <1>1, <1>2 DEF InFlight, DoneIsDone
  <1> QED
    BY <1>1, <1>3, ApplierTurns

\* After a failure nothing is skipped.
LEMMA InvalidateTurns ==
    ASSUME IInv, IInv', JInv, TurnsOK, InvalidateSkip
    PROVE  TurnsOK'
  <1>1. /\ ap.pc = "invalidate" /\ lastIndex' = 0 /\ ap' = IdleApplier
        /\ UNCHANGED <<live, index, wire, repo, chk, updates, lastCommit>>
    BY DEF InvalidateSkip, nomad, queue
  <1>2. InFlight(ap') = InFlight(ap) /\ DoneIsDone'
    BY <1>1 DEF InFlight, DoneIsDone, IdleApplier
  <1>3. Onward
    <2>1. \A j, t : Passed(j, t) => Passed(j, t)'
      BY <1>1 DEF Passed, Unsettled, Settled
    <2> QED
      BY <1>1, <2>1, StillOnward
  <1>4. RowsInTurn' /\ WireInTurn'
    BY <1>1, <1>2, <1>3, SameRows
  <1>5. OneCheck' /\ (\A k \in Checkers : InTurn(chk[k]))'
    BY <1>1, <1>3, ChecksInTurn
  <1>6. NobodyElse'
    BY <1>1, <1>3, NobodyElseLater DEF TurnsOK, NobodyElse
  <1>7. Owned'
    <2>1. index # 0
      BY DEF JInv
    <2> QED
      BY <1>1, <2>1 DEF Owned, WouldSkip
  <1> QED
    BY <1>2, <1>4, <1>5, <1>6, <1>7 DEF TurnsOK

\* Rows keep their intents, and no row or request is new.
LEMMA OldRows ==
    ASSUME IInv, TurnsOK, NEW new, new = updates', UNCHANGED <<live, repo, wire>>,
           DOMAIN new \subseteq DOMAIN updates,
           \A m \in DOMAIN new : SameRow(new[m], updates[m]),
           Pending(new) \subseteq Pending(updates), Unsettled(new) \subseteq Unsettled(updates)
    PROVE  /\ Onward /\ WireInTurn'
           /\ \A i \in DOMAIN new :
                 /\ new[i].ref >= 1 /\ new[i].ref <= head
                 /\ new[i].body.spec = repo[new[i].ref][new[i].job]
                 /\ new[i].body.spec # new[i].body.against
           /\ \A i, m \in Pending(new) : new[i].job = new[m].job => i = m
           /\ \A r \in wire, i \in Unsettled(new) :
                 r.job = new[i].job => r.token <= new[i].body.token
  <1>1. Onward
    <2>1. \A i \in Unsettled(updates') :
             i \in Unsettled(updates) /\ SameRow(updates'[i], updates[i])
      BY DEF Unsettled
    <2>2. \A j, t : Passed(j, t) => Passed(j, t)'
      BY <2>1, PassedLater
    <2> QED
      BY <2>2, StillOnward
  <1>2. WireInTurn'
    <2> SUFFICES ASSUME NEW r \in wire, r.row \in DOMAIN new
                 PROVE  /\ r.row \notin Pending(new)
                        /\ r.job = new[r.row].job /\ r.spec = new[r.row].body.spec
                        /\ r.token = new[r.row].body.token
      BY DEF WireInTurn, Pending
    <2> QED
      BY DEF TurnsOK, WireInTurn, SameRow
  <1>3. \A i \in DOMAIN new :
           /\ new[i].ref >= 1 /\ new[i].ref <= head
           /\ new[i].body.spec = repo[new[i].ref][new[i].job]
           /\ new[i].body.spec # new[i].body.against
    BY DEF TurnsOK, RowsInTurn, SameRow
  <1>4. \A i, m \in Pending(new) : new[i].job = new[m].job => i = m
    BY DEF TurnsOK, RowsInTurn, SameRow, Pending
  <1>5. \A r \in wire, i \in Unsettled(new) : r.job = new[i].job => r.token <= new[i].body.token
    BY DEF TurnsOK, RowsInTurn, SameRow, Unsettled
  <1> QED
    BY <1>1, <1>2, <1>3, <1>4, <1>5

\* The applier takes the oldest row that waits.
LEMMA NextPendingTurns ==
    ASSUME IInv, IInv', TurnsOK, NextPending
    PROVE  TurnsOK'
  <1>1. /\ ap.pc = "idle"
        /\ UNCHANGED <<live, index, wire, repo, chk, lastCommit, lastIndex>>
    BY DEF NextPending, nomad, differ
  <1>2. PICK i \in Pending(updates) :
           updates' = MarkInProgress(updates, i) /\ ap' = [ap EXCEPT !.pc = "plan", !.row = i]
    BY DEF NextPending, First
  <1>3. PICK new : new = updates'
    OBVIOUS
  <1>4. /\ DOMAIN new = DOMAIN updates
        /\ \A m \in DOMAIN updates : SameRow(new[m], updates[m])
        /\ InProgress(new) = InProgress(updates) \cup {i}
        /\ Pending(new) = Pending(updates) \ {i}
        /\ Unsettled(new) = Unsettled(updates)
    BY <1>2, <1>3, MarkTurns DEF IInv, QueueOK
  <1>5. ap'.pc = "plan" /\ ap'.row = i
    BY <1>2 DEF IInv, ApplierOK
  <1>6. /\ Pending(updates)' = Pending(new) /\ InProgress(updates)' = InProgress(new)
        /\ Unsettled(updates)' = Unsettled(new)
    BY <1>3 DEF Pending, InProgress, Unsettled, Settled
  <1>7. /\ Onward /\ WireInTurn'
        /\ \A m \in DOMAIN new :
              /\ new[m].ref >= 1 /\ new[m].ref <= head
              /\ new[m].body.spec = repo[new[m].ref][new[m].job]
              /\ new[m].body.spec # new[m].body.against
        /\ \A m, n \in Pending(new) : new[m].job = new[n].job => m = n
        /\ \A r \in wire, m \in Unsettled(new) :
              r.job = new[m].job => r.token <= new[m].body.token
    BY <1>1, <1>3, <1>4, OldRows
  <1>8. head' = head
    BY <1>1 DEF head
  <1>9. InProgress(new) = {i} /\ InFlight(ap)' = {i}
    BY <1>1, <1>4, <1>5 DEF InFlight, TurnsOK, RowsInTurn
  <1>10. \A m \in Pending(new) : new[m].job # new[i].job
    <2>1. i \in DOMAIN updates /\ Pending(updates) \subseteq DOMAIN updates
      BY DEF Pending
    <2> QED
      BY <1>4, <2>1 DEF TurnsOK, RowsInTurn, SameRow
  <1>11. RowsInTurn'
    BY <1>1, <1>3, <1>6, <1>7, <1>8, <1>9, <1>10 DEF RowsInTurn
  <1>12. OneCheck' /\ (\A k \in Checkers : InTurn(chk[k]))'
    BY <1>1, <1>7, ChecksInTurn
  <1>13. NobodyElse'
    BY <1>1, <1>7, NobodyElseLater DEF TurnsOK, NobodyElse
  <1>14. DoneIsDone'
    BY <1>5 DEF DoneIsDone
  <1>15. Owned'
    <2>1. \A j \in Jobs : Answered(j) => Answered(j)'
      <3> SUFFICES ASSUME NEW j \in Jobs, NEW m \in Unsettled(updates),
                          updates[m].job = j, updates[m].ref = head
                   PROVE  \E n \in Unsettled(new) : new[n].job = j /\ new[n].ref = head
        BY <1>1, <1>3, <1>6, <1>8 DEF Answered
      <3>1. m \in DOMAIN updates
        BY DEF Unsettled
      <3> QED
        BY <1>4, <3>1 DEF SameRow
    <2>2. WouldSkip' => WouldSkip
      BY <1>1, <1>8 DEF WouldSkip
    <2> QED
      BY <1>1, <2>1, <2>2, OwnedLater
  <1> QED
    BY <1>7, <1>11, <1>12, <1>13, <1>14, <1>15 DEF TurnsOK

\* A row is settled: its drift is gone, or the next Check will not skip.
LEMMA CompleteUpdateTurns ==
    ASSUME IInv, IInv', TurnsOK, CompleteUpdate
    PROVE  TurnsOK'
  <1>1. /\ ap.pc = "complete" /\ updates' = Complete(updates, Row, ap.outcome)
        /\ UNCHANGED <<live, index, wire, repo, chk, lastCommit, lastIndex>>
    BY DEF CompleteUpdate, nomad, differ
  <1>2. ap.outcome \in {"SUCCEEDED", "FAILED"} /\ InProgress(updates) = {ap.row}
    BY <1>1, HeldRow DEF TurnsOK, DoneIsDone
  <1>3. PICK new : new = updates'
    OBVIOUS
  <1>4. /\ DOMAIN new \subseteq DOMAIN updates
        /\ \A m \in DOMAIN new : SameRow(new[m], updates[m])
        /\ InProgress(new) = {} /\ Pending(new) = Pending(updates)
        /\ Unsettled(new) = Unsettled(updates) \ {ap.row}
    <2>1. RowsOK(updates) /\ DOMAIN updates \subseteq Nat
      BY DEF IInv, QueueOK
    <2>2. new = Complete(updates, updates[ap.row], ap.outcome)
      BY <1>1, <1>3 DEF Row
    <2> QED
      BY <1>2, <2>1, <2>2, CompleteTurns
  <1>5. IF ap.outcome = "FAILED" THEN ap'.pc = "invalidate" ELSE ap'.pc = "idle"
    BY DEF CompleteUpdate, IdleApplier, IInv, ApplierOK
  <1>6. /\ Pending(updates)' = Pending(new) /\ InProgress(updates)' = InProgress(new)
        /\ Unsettled(updates)' = Unsettled(new)
    BY <1>3 DEF Pending, InProgress, Unsettled, Settled
  <1>7. /\ Onward /\ WireInTurn'
        /\ \A m \in DOMAIN new :
              /\ new[m].ref >= 1 /\ new[m].ref <= head
              /\ new[m].body.spec = repo[new[m].ref][new[m].job]
              /\ new[m].body.spec # new[m].body.against
        /\ \A m, n \in Pending(new) : new[m].job = new[n].job => m = n
        /\ \A r \in wire, m \in Unsettled(new) :
              r.job = new[m].job => r.token <= new[m].body.token
    BY <1>1, <1>3, <1>4, OldRows
  <1>8. head' = head
    BY <1>1 DEF head
  <1>9. InFlight(ap)' = {}
    BY <1>5 DEF InFlight
  <1>10. RowsInTurn'
    BY <1>1, <1>3, <1>4, <1>6, <1>7, <1>8, <1>9 DEF RowsInTurn
  <1>11. OneCheck' /\ (\A k \in Checkers : InTurn(chk[k]))'
    BY <1>1, <1>7, ChecksInTurn
  <1>12. NobodyElse'
    BY <1>1, <1>7, NobodyElseLater DEF TurnsOK, NobodyElse
  <1>13. DoneIsDone'
    BY <1>5 DEF DoneIsDone
  <1>14. Owned'
    <2> SUFFICES ASSUME WouldSkip', ap'.pc # "invalidate", NEW j \in Jobs,
                        TrueDrift(j)' \cap {"modified", "missing_from_nomad"} # {}
                 PROVE  Answered(j)'
      BY DEF Owned
    <2>1. TrueDrift(j)' = TrueDrift(j) /\ WouldSkip
      BY <1>1, <1>8 DEF TrueDrift, Desired, Running, WouldSkip
    <2>2. Answered(j)
      BY <1>1, <2>1 DEF TurnsOK, Owned
    <2>3. ASSUME NEW m \in Unsettled(updates), updates[m].job = j, updates[m].ref = head
          PROVE  m # ap.row
      <3>1. SUFFICES ASSUME m = ap.row
                     PROVE  FALSE
        OBVIOUS
      <3>2. ap.outcome = "SUCCEEDED"
        BY <1>2, <1>5
      <3>3. live[j].spec = Row.body.spec
        BY <1>1, <2>3, <3>1, <3>2 DEF TurnsOK, DoneIsDone, Row
      <3>4. Row.body.spec = Desired(j)
        BY <2>3, <3>1 DEF TurnsOK, RowsInTurn, Row, Desired, Unsettled
      <3> QED
        BY <2>1, <3>3, <3>4, NoDrift DEF TurnsOK, NobodyElse
    <2>4. ASSUME NEW m \in Unsettled(updates), updates[m].job = j, updates[m].ref = head
          PROVE  \E n \in Unsettled(new) : new[n].job = j /\ new[n].ref = head
      <3>1. m \in Unsettled(new) /\ m \in DOMAIN new
        BY <1>4, <2>3, <2>4 DEF Unsettled
      <3> QED
        BY <1>4, <2>4, <3>1 DEF SameRow
    <2> QED
      BY <1>1, <1>3, <1>6, <1>8, <2>2, <2>4 DEF Answered
  <1> QED
    BY <1>7, <1>10, <1>11, <1>12, <1>13, <1>14 DEF TurnsOK

\* A Check that is over is in its turn.
LEMMA IdleInTurn == InTurn(Idle)
  BY DEF InTurn, Idle

\* After a crash nothing is known, and nothing is skipped.
LEMMA CrashTurns ==
    ASSUME IInv, IInv', JInv, TurnsOK, Crash
    PROVE  TurnsOK'
  <1>1. /\ UNCHANGED <<live, index, wire, repo>> /\ lastIndex' = 0 /\ ap' = IdleApplier
        /\ updates' = [i \in {} |-> 0] /\ chk' = [k \in Checkers |-> Idle]
    BY DEF Crash, nomad
  <1>2. PICK new : new = updates'
    OBVIOUS
  <1>3. DOMAIN new = {} /\ Pending(new) = {} /\ InProgress(new) = {} /\ Unsettled(new) = {}
    BY <1>1, <1>2 DEF Pending, InProgress, Unsettled
  <1>4. ap'.pc = "idle"
    BY <1>1 DEF IdleApplier
  <1>5. Onward /\ WireInTurn'
    BY <1>1, <1>2, <1>3, OldRows
  <1>6. /\ Pending(updates)' = {} /\ InProgress(updates)' = {} /\ Unsettled(updates)' = {}
    BY <1>2, <1>3 DEF Pending, InProgress, Unsettled, Settled
  <1>7. RowsInTurn'
    BY <1>2, <1>3, <1>4, <1>6 DEF RowsInTurn, InFlight
  <1>8. NobodyElse'
    BY <1>1, <1>5, NobodyElseLater DEF TurnsOK, NobodyElse
  <1>9. OneCheck'
    BY <1>1 DEF OneCheck, Idle
  <1>10. (\A k \in Checkers : InTurn(chk[k]))'
    BY <1>1 DEF InTurn, Idle
  <1>11. DoneIsDone'
    BY <1>4 DEF DoneIsDone
  <1>12. Owned'
    <2>1. index # 0
      BY DEF JInv
    <2> QED
      BY <1>1, <2>1 DEF Owned, WouldSkip
  <1> QED
    BY <1>5, <1>7, <1>8, <1>9, <1>10, <1>11, <1>12 DEF TurnsOK

\* A step of the one Check there is.
LEMMA InsideTurns ==
    ASSUME IInv, IInv', TurnsOK, NEW k \in Checkers, NEW c, Step(k, c),
           UNCHANGED <<live, index, wire, updates, ap>>,
           \A m \in Checkers \ {k} : chk[m].pc = "idle", InTurn(c)', Owned'
    PROVE  TurnsOK'
  <1>1. repo' = repo /\ chk' = [chk EXCEPT ![k] = c]
    BY DEF Step
  <1>2. \A m \in Checkers : chk'[m] = IF m = k THEN c ELSE chk[m]
    BY <1>1 DEF IInv, ChecksOK
  <1>3. Onward
    <2>1. \A j, t : Passed(j, t) => Passed(j, t)'
      BY DEF Passed, Unsettled, Settled
    <2> QED
      BY <1>1, <2>1, StillOnward
  <1>4. RowsInTurn' /\ WireInTurn'
    BY <1>3, SameRows DEF InFlight
  <1>5. NobodyElse'
    BY <1>3, NobodyElseLater DEF TurnsOK, NobodyElse
  <1>6. OneCheck'
    BY <1>2 DEF OneCheck
  <1>7. (\A m \in Checkers : InTurn(chk[m]))'
    <2>1. PICK cs : cs = chk'
      OBVIOUS
    <2>2. ASSUME NEW m \in Checkers, m # k
          PROVE  InTurn(cs[m])'
      <3>1. cs[m] = chk[m] /\ chk[m].pc = "idle" /\ chk[m].cands = {}
        BY <1>2, <2>1, <2>2 DEF TurnsOK, InTurn
      <3> QED
        BY <3>1 DEF InTurn
    <2>3. cs[k] = c
      BY <1>2, <2>1
    <2> QED
      BY <2>1, <2>2, <2>3
  <1>8. DoneIsDone'
    BY DEF TurnsOK, DoneIsDone, Row
  <1> QED
    BY <1>4, <1>5, <1>6, <1>7, <1>8 DEF TurnsOK

\* A step of it that only reads.
LEMMA ReadingTurns ==
    ASSUME IInv, IInv', TurnsOK, NEW k \in Checkers, NEW c, Step(k, c),
           UNCHANGED <<nomad, queue, differ, ap>>,
           \A m \in Checkers \ {k} : chk[m].pc = "idle", chk[k].pc # "enqueue", InTurn(c)
    PROVE  TurnsOK'
  <1>1. UNCHANGED <<live, index, wire, updates, repo, lastCommit, lastIndex, ap>>
    BY DEF Step, nomad, queue, differ
  <1>2. InTurn(c)'
    BY <1>1 DEF InTurn, Left, Passed, Unsettled, Settled
  <1>3. Owned'
    <2>1. \A m \in Checkers : m # k => chk'[m] = chk[m]
      BY DEF Step, IInv, ChecksOK
    <2>2. \A j \in Jobs : Answered(j) => Answered(j)'
      BY <1>1, <2>1 DEF Answered, Unsettled, Settled, head
    <2>3. WouldSkip' => WouldSkip
      BY <1>1 DEF WouldSkip, head
    <2> QED
      BY <1>1, <2>2, <2>3, OwnedLater
  <1> QED
    BY <1>1, <1>2, <1>3, InsideTurns

\* While a Check runs, it is the only one.
LEMMA OthersIdle ==
    ASSUME TurnsOK, NEW k \in Checkers, chk[k].pc # "idle"
    PROVE  \A m \in Checkers \ {k} : chk[m].pc = "idle"
  BY DEF TurnsOK, OneCheck

\* A Check begins when no other runs.
LEMMA BeginsAlone ==
    ASSUME limit \in Limits, OneGoodCheck, TurnsOK, NEW k \in Checkers, Begin(k)
    PROVE  \A m \in Checkers : chk[m].pc = "idle"
  <1> DEFINE B == {m \in Checkers : ~At(m, "idle")}
  <1>1. limit.overlap \in Nat /\ limit.overlap <= 1
    BY ConstantsAssumption DEF OneGoodCheck
  <1>2. Cardinality(B) < limit.overlap
    BY DEF Begin
  <1>3. SUFFICES ASSUME NEW m \in B
                 PROVE  FALSE
    BY DEF At
  <1>4. B = {m}
    BY DEF TurnsOK, OneCheck, At
  <1>5. Cardinality(B) = 1
    BY <1>4, FS_Singleton
  <1> QED
    BY <1>1, <1>2, <1>5

\* A job found to differ: its candidate is read in its turn.
LEMMA DetectedInTurn ==
    ASSUME NEW c, NEW d, InTurn(c), c.pc \in {"job", "plan"}, NEW j \in Left(c), NEW u, NEW f,
           d.pc = "job", d.commit = c.commit, d.todo = Left(c) \ {j},
           d.found = c.found \cup {f}, f[1] = j, d.cands = c.cands \cup {u}, u.job = j,
           u.spec = repo[c.commit][j], u.spec # u.against,
           u.token <= live[j].idx, Passed(j, u.token)
    PROVE  InTurn(d)
  <1>1. Left(d) = Left(c) \ {j}
    BY DEF Left
  <1>2. \A i \in Left(d) : i \in Jobs /\ repo[d.commit][i] # Absent
    BY <1>1 DEF InTurn
  <1>3. \A g \in d.found : g[2] \in {"modified", "missing_from_nomad"} =>
           \E v \in d.cands : v.job = g[1]
    BY DEF InTurn
  <1>4. ASSUME NEW v \in d.cands
        PROVE  /\ v.spec = repo[d.commit][v.job] /\ v.spec # v.against
               /\ v.token <= live[v.job].idx /\ Passed(v.job, v.token)
               /\ v.job \notin Left(d)
               /\ \A w \in d.cands : w.job = v.job => w = v
    BY <1>1 DEF InTurn
  <1> QED
    BY <1>2, <1>3, <1>4 DEF InTurn

\* The steps of a Check up to its results.
LEMMA ReadsInTurn ==
    ASSUME IInv, IInv', limit \in Limits, OneGoodCheck, TurnsOK, NEW k \in Checkers,
           Begin(k) \/ List(k) \/ Skip(k) \/ Parse(k) \/ Info(k) \/ Plan(k)
    PROVE  TurnsOK'
  <1>0. chk[k] \in CheckState /\ InTurn(chk[k]) /\ Undisturbed
    BY DEF IInv, ChecksOK, TurnsOK, OneGoodCheck, Undisturbed
  <1>1. CASE Begin(k)
    <2> DEFINE c == [chk[k] EXCEPT !.pc = "list", !.commit = head]
    <2>1. chk[k].pc = "idle" /\ Step(k, c) /\ UNCHANGED <<nomad, queue, differ, ap>>
      BY <1>1 DEF Begin, At
    <2>2. c.pc = "list" /\ c.cands = {}
      BY <1>0, <2>1 DEF CheckState, InTurn
    <2> HIDE DEF c
    <2>3. InTurn(c)
      BY <2>2 DEF InTurn
    <2>4. \A m \in Checkers : chk[m].pc = "idle"
      BY <1>1, BeginsAlone
    <2> QED
      BY <2>1, <2>3, <2>4, ReadingTurns
  <1>2. CASE List(k)
    <2> DEFINE c == [chk[k] EXCEPT !.pc = "gate", !.idx = index, !.running = Running]
               d == [chk[k] EXCEPT !.pc = "gate"]
    <2>1. /\ chk[k].pc = "list" /\ UNCHANGED <<nomad, queue, differ, ap>>
          /\ Step(k, c) \/ (Fault("list") /\ Step(k, d))
      BY <1>2 DEF List, At
    <2>2. c.pc = "gate" /\ c.cands = {}
      BY <1>0, <2>1 DEF CheckState, InTurn
    <2> HIDE DEF c, d
    <2>3. InTurn(c) /\ Step(k, c)
      BY <1>0, <2>1, <2>2, NoCallFails DEF InTurn, CallsOfCheck
    <2> QED
      BY <2>1, <2>3, OthersIdle, ReadingTurns
  <1>3. CASE Skip(k)
    <2>1. chk[k].pc = "gate" /\ Step(k, Idle) /\ UNCHANGED <<nomad, queue, differ, ap>>
      BY <1>3 DEF Skip, At
    <2> QED
      BY <2>1, OthersIdle, IdleInTurn, ReadingTurns
  <1>4. CASE Parse(k)
    <2>1. PICK parsed \in SUBSET Defined(k) :
             Step(k, [chk[k] EXCEPT !.pc = "job", !.todo = parsed, !.running = {},
                        !.found = (chk[k].running \ parsed) \X {"missing_from_hcl"}])
      BY <1>4 DEF Parse
    <2> DEFINE c == [chk[k] EXCEPT !.pc = "job", !.todo = parsed, !.running = {},
                        !.found = (chk[k].running \ parsed) \X {"missing_from_hcl"}]
    <2>2. chk[k].pc = "gate" /\ UNCHANGED <<nomad, queue, differ, ap>>
      BY <1>4 DEF Parse, At
    <2>3. /\ c.pc = "job" /\ c.todo = parsed /\ c.commit = chk[k].commit /\ c.cands = {}
          /\ c.found = (chk[k].running \ parsed) \X {"missing_from_hcl"}
      BY <1>0, <2>2 DEF CheckState, InTurn
    <2>4. Step(k, c)
      BY <2>1
    <2> HIDE DEF c
    <2>5. \A f \in c.found : f[2] = "missing_from_hcl"
      BY <2>3
    <2>6. \A j \in Left(c) : j \in Jobs /\ repo[c.commit][j] # Absent
      BY <2>3 DEF Left, Defined
    <2>7. InTurn(c)
      BY <2>3, <2>5, <2>6 DEF InTurn
    <2> QED
      BY <2>2, <2>4, <2>7, OthersIdle, ReadingTurns
  <1>5. CASE Info(k)
    <2>1. PICK j \in chk[k].todo :
            LET c == [chk[k] EXCEPT !.todo = @ \ {j}]
            IN  /\ At(k, "job")
                /\ \/ /\ live[j].spec = Absent \/ live[j].dead
                      /\ Step(k, Detected(c, j, "missing_from_nomad", live[j].idx, live[j].spec))
                   \/ /\ live[j].spec # Absent /\ ~live[j].dead
                      /\ Step(k, [c EXCEPT !.pc = "plan", !.job = j, !.token = live[j].idx])
                   \/ Fault("info") /\ Step(k, c)
                /\ UNCHANGED <<nomad, queue, differ, ap>>
      BY <1>5 DEF Info
    <2> DEFINE c == [chk[k] EXCEPT !.todo = chk[k].todo \ {j}]
               d == Detected(c, j, "missing_from_nomad", live[j].idx, live[j].spec)
               p == [c EXCEPT !.pc = "plan", !.job = j, !.token = live[j].idx]
               u == [job |-> j, token |-> live[j].idx, spec |-> repo[chk[k].commit][j],
                     against |-> live[j].spec]
    <2>2. /\ chk[k].pc = "job" /\ UNCHANGED <<nomad, queue, differ, ap>>
          /\ \/ (live[j].spec = Absent \/ live[j].dead) /\ Step(k, d)
             \/ live[j].spec # Absent /\ ~live[j].dead /\ Step(k, p)
             \/ Fault("info") /\ Step(k, c)
      BY <1>0, <2>1 DEF At, CheckState
    <2>3. /\ j \in Jobs /\ Left(chk[k]) = chk[k].todo /\ repo[chk[k].commit][j] # Absent
          /\ live[j].dead = FALSE /\ Passed(j, live[j].idx)
          /\ live[j].idx \in Nat /\ live[j].idx <= live[j].idx
      <3>1. j \in Jobs /\ Left(chk[k]) = chk[k].todo /\ repo[chk[k].commit][j] # Absent
        BY <1>0, <2>2 DEF InTurn, Left
      <3>2. live[j].idx \in Nat
        BY <3>1 DEF IInv, LiveOK, Job
      <3> QED
        BY <3>1, <3>2 DEF TurnsOK, NobodyElse
    <2>4. CASE (live[j].spec = Absent \/ live[j].dead) /\ Step(k, d)
      <3>1. /\ d.pc = "job" /\ d.commit = chk[k].commit /\ d.todo = chk[k].todo \ {j}
            /\ d.found = chk[k].found \cup {<<j, "missing_from_nomad">>}
            /\ d.cands = chk[k].cands \cup {u}
        BY <1>0 DEF Detected, CheckState
      <3>2. /\ u.job = j /\ u.spec = repo[chk[k].commit][j] /\ u.against = live[j].spec
            /\ u.token = live[j].idx
        OBVIOUS
      <3>3. u.spec # u.against
        BY <2>3, <2>4, <3>2
      <3> HIDE DEF d, u
      <3>4. PICK f : f = <<j, "missing_from_nomad">>
        OBVIOUS
      <3>5. f[1] = j /\ d.found = chk[k].found \cup {f}
        BY <3>1, <3>4
      <3>6. /\ chk[k].pc \in {"job", "plan"} /\ j \in Left(chk[k])
            /\ d.todo = Left(chk[k]) \ {j} /\ u.token <= live[j].idx /\ Passed(j, u.token)
        BY <2>1, <2>2, <2>3, <3>1, <3>2
      <3>7. InTurn(d)
        BY <1>0, <3>1, <3>2, <3>3, <3>5, <3>6, DetectedInTurn
      <3> QED
        BY <2>2, <2>4, <3>7, OthersIdle, ReadingTurns
    <2>5. CASE live[j].spec # Absent /\ ~live[j].dead /\ Step(k, p)
      <3>1. /\ p.pc = "plan" /\ p.commit = chk[k].commit /\ p.job = j /\ p.token = live[j].idx
            /\ p.todo = chk[k].todo \ {j} /\ p.found = chk[k].found /\ p.cands = chk[k].cands
        BY <1>0 DEF CheckState
      <3> HIDE DEF p
      <3>2. j \notin p.todo /\ Left(p) = Left(chk[k])
        BY <2>3, <3>1 DEF Left
      <3>3. InTurn(p)
        BY <1>0, <2>2, <2>3, <3>1, <3>2 DEF InTurn
      <3> QED
        BY <2>2, <2>5, <3>3, OthersIdle, ReadingTurns
    <2> HIDE DEF c, d, p
    <2> QED
      BY <1>0, <2>2, <2>4, <2>5, NoCallFails DEF CallsOfCheck
  <1>6. CASE Plan(k)
    <2> DEFINE j == chk[k].job
               c == [chk[k] EXCEPT !.pc = "job", !.job = Absent, !.token = 0]
               d == Detected(chk[k], j, "modified", chk[k].token, live[j].spec)
               u == [job |-> j, token |-> chk[k].token, spec |-> repo[chk[k].commit][j],
                     against |-> live[j].spec]
    <2>1. /\ chk[k].pc = "plan" /\ UNCHANGED <<nomad, queue, differ, ap>>
          /\ \/ Changes(repo[chk[k].commit][j], live[j]) /\ Step(k, d)
             \/ Step(k, c)
      BY <1>6 DEF Plan, At
    <2>2. /\ c.pc = "job" /\ c.commit = chk[k].commit /\ c.todo = chk[k].todo
          /\ c.found = chk[k].found /\ c.cands = chk[k].cands
          /\ d.pc = "job" /\ d.commit = chk[k].commit
          /\ d.todo = chk[k].todo /\ d.found = chk[k].found \cup {<<j, "modified">>}
          /\ d.cands = chk[k].cands \cup {u}
      BY <1>0 DEF CheckState, Detected
    <2>3. /\ u.job = j /\ u.spec = repo[chk[k].commit][j] /\ u.against = live[j].spec
          /\ u.token = chk[k].token
      OBVIOUS
    <2> HIDE DEF c, d, u
    <2>4. /\ j \in Left(chk[k]) /\ j \in Jobs /\ j \notin chk[k].todo
          /\ chk[k].todo = Left(chk[k]) \ {j} /\ Left(c) = chk[k].todo
          /\ chk[k].token <= live[j].idx /\ Passed(j, chk[k].token)
          /\ live[j].dead = FALSE
      <3>1. j \in Left(chk[k]) /\ Left(c) = chk[k].todo
        BY <2>1, <2>2 DEF Left
      <3>2. j \in Jobs /\ j \notin chk[k].todo /\ chk[k].token <= live[j].idx /\ Passed(j, chk[k].token)
        BY <1>0, <2>1, <3>1 DEF InTurn
      <3>3. chk[k].todo = Left(chk[k]) \ {j}
        BY <2>1, <3>2 DEF Left
      <3> QED
        BY <3>1, <3>2, <3>3 DEF TurnsOK, NobodyElse
    <2>5. CASE Changes(repo[chk[k].commit][j], live[j]) /\ Step(k, d)
      <3>1. u.spec # u.against
        BY <2>3, <2>4, <2>5 DEF Changes
      <3>2. PICK f : f = <<j, "modified">>
        OBVIOUS
      <3>3. f[1] = j /\ d.found = chk[k].found \cup {f}
        BY <2>2, <3>2
      <3>4. chk[k].pc \in {"job", "plan"} /\ d.todo = Left(chk[k]) \ {j}
        BY <2>1, <2>2, <2>4
      <3>5. u.token <= live[j].idx /\ Passed(j, u.token)
        BY <2>3, <2>4
      <3> HIDE DEF j
      <3>6. InTurn(d)
        BY <1>0, <2>2, <2>3, <2>4, <3>1, <3>3, <3>4, <3>5, DetectedInTurn
      <3> QED
        BY <2>1, <2>5, <3>6, OthersIdle, ReadingTurns
    <2>6. CASE Step(k, c)
      <3>1. InTurn(c)
        BY <1>0, <2>1, <2>2, <2>4 DEF InTurn
      <3> QED
        BY <2>1, <2>6, <3>1, OthersIdle, ReadingTurns
    <2> QED
      BY <2>1, <2>5, <2>6
  <1> QED
    BY <1>1, <1>2, <1>3, <1>4, <1>5, <1>6

\* What a Check publishes at HEAD and at the table's index it has candidates for.
LEMMA CommitResultsTurns ==
    ASSUME IInv, IInv', JInv, limit \in Limits, OneGoodCheck, TurnsOK, NEW k \in Checkers,
           CommitResults(k)
    PROVE  TurnsOK'
  <1>0. PICK c : c = Enqueuing(k, chk[k].cands)
    OBVIOUS
  <1>1. /\ chk[k].pc = "job" /\ chk[k].todo = {} /\ Step(k, c)
        /\ UNCHANGED <<live, index, wire, updates, ap>>
        /\ lastCommit' = chk[k].commit
        /\ lastIndex' = IF chk[k].idx = 0 THEN lastIndex ELSE chk[k].idx
    BY <1>0 DEF CommitResults, At, nomad, queue
  <1>2. /\ chk[k].cands = {} => c = Idle
        /\ chk[k].cands # {} => /\ c.pc = "enqueue" /\ c.commit = chk[k].commit
                                /\ c.cands = chk[k].cands /\ c.todo = {}
    BY <1>0 DEF Enqueuing, Idle
  <1>3. UNCHANGED <<live, wire, updates, repo>>
    BY <1>1 DEF Step
  <1>4. InTurn(c)'
    <2>1. CASE chk[k].cands = {}
      BY <1>2, <2>1 DEF InTurn, Idle
    <2>2. CASE chk[k].cands # {}
      <3>1. Left(c) = {}
        BY <1>2, <2>2 DEF Left
      <3>2. InTurn(chk[k])
        BY DEF TurnsOK
      <3>3. \A u \in c.cands :
               /\ u.spec = repo[c.commit][u.job] /\ u.spec # u.against
               /\ u.token <= live[u.job].idx /\ Passed(u.job, u.token)
               /\ u.job \notin Left(c)
               /\ \A v \in c.cands : v.job = u.job => v = u
        BY <1>2, <2>2, <3>1, <3>2 DEF InTurn
      <3>4. \A j, t : Passed(j, t) => Passed(j, t)'
        BY <1>3 DEF Passed, Unsettled, Settled
      <3> QED
        BY <1>1, <1>2, <1>3, <2>2, <3>1, <3>3, <3>4 DEF InTurn, Left
    <2> QED
      BY <2>1, <2>2
  <1>5. Owned'
    <2> SUFFICES ASSUME WouldSkip', NEW j \in Jobs,
                        TrueDrift(j)' \cap {"modified", "missing_from_nomad"} # {}
                 PROVE  Answered(j)'
      BY DEF Owned
    <2>1. head' = head /\ TrueDrift(j)' = TrueDrift(j)
      BY <1>3 DEF head, TrueDrift, Desired, Running
    <2>2. Mirrors(chk[k]) /\ Left(chk[k]) = {}
      BY <1>1 DEF JInv, Left, Undisturbed, OneGoodCheck
    <2>3. chk[k].idx = index /\ chk[k].commit = head
      BY <1>1, <2>1, <2>2 DEF WouldSkip, Mirrors
    <2>4. chk[k].found = Diffs(Jobs)
      BY <1>1, <2>2, <2>3 DEF Mirrors
    <2>5. PICK type \in {"modified", "missing_from_nomad"} : type \in TrueDrift(j)
      BY <2>1
    <2>6. <<j, type>> \in chk[k].found
      BY <2>4, <2>5 DEF Diffs
    <2>7. PICK u \in chk[k].cands : u.job = j
      BY <1>1, <2>5, <2>6 DEF TurnsOK, InTurn
    <2>8. chk'[k] = c
      BY <1>1 DEF Step, IInv, ChecksOK
    <2>9. c.pc = "enqueue" /\ u \in c.cands
      BY <1>2, <2>7
    <2> QED
      BY <2>7, <2>8, <2>9 DEF Answered
  <1> QED
    BY <1>1, <1>4, <1>5, OthersIdle, InsideTurns

\* Both ways of Enqueue: what is new is the intent, and the rest is old.
LEMMA EnqueuedRows ==
    ASSUME NEW rows, RowsOK(rows), NEW u \in Intent, NEW n, n \notin DOMAIN rows,
           NEW new, new = Enqueue(rows, n, u),
           \A i, m \in Pending(rows) : rows[i].job = rows[m].job => i = m
    PROVE  /\ InProgress(new) = InProgress(rows)
           /\ \A m \in DOMAIN new :
                 \/ m \in DOMAIN rows /\ SameRow(new[m], rows[m])
                 \/ SameRow(new[m], u) /\ m \in Pending(new)
           /\ \A m \in DOMAIN new : m # n /\ m \notin Pending(rows) =>
                 m \in DOMAIN rows /\ m \notin Pending(new) /\ SameRow(new[m], rows[m])
           /\ \A i, m \in Pending(new) : new[i].job = new[m].job => i = m
           /\ \A m \in Unsettled(new) :
                 \/ m \in Unsettled(rows) /\ SameRow(new[m], rows[m])
                 \/ SameRow(new[m], u)
           /\ \A m \in Unsettled(rows) : rows[m].job # u.job =>
                 m \in Unsettled(new) /\ SameRow(new[m], rows[m])
           /\ \E m \in Unsettled(new) : new[m].job = u.job /\ new[m].ref = u.ref
  <1>0. /\ Pending(rows) \subseteq Unsettled(rows) /\ Unsettled(rows) \subseteq DOMAIN rows
        /\ Unsettled(new) \subseteq DOMAIN new /\ Pending(new) \subseteq DOMAIN new
    BY DEF Pending, Unsettled, Settled, TerminalStatus
  <1>1. CASE Claiming(rows, u) # {}
    <2>1. /\ DOMAIN new = DOMAIN rows
          /\ \A m \in DOMAIN rows :
                \/ SameRow(new[m], rows[m])
                \/ /\ m \in Pending(rows) /\ SameRow(new[m], u)
                   /\ rows[m].job = u.job /\ rows[m].ref = u.ref
          /\ InProgress(new) = InProgress(rows) /\ Pending(new) = Pending(rows)
          /\ Unsettled(new) = Unsettled(rows)
          /\ \E m \in Unsettled(new) : new[m].job = u.job /\ new[m].ref = u.ref
      BY <1>1, ClaimedTurns DEF SameRow
    <2>2. \A m \in DOMAIN rows : new[m].job = rows[m].job
      BY <2>1 DEF SameRow
    <2> QED
      BY <1>0, <2>1, <2>2
  <1>2. CASE Claiming(rows, u) = {}
    <2>0. new[n] = [job |-> u.job, ref |-> u.ref, op |-> u.op, body |-> u.body,
                    status |-> "PENDING"]
      BY <1>2, AppendTurns
    <2>1. /\ n \in DOMAIN new /\ DOMAIN new \subseteq DOMAIN rows \cup {n}
          /\ SameRow(new[n], u)
          /\ \A m \in DOMAIN new : m # n => SameRow(new[m], rows[m])
          /\ InProgress(new) = InProgress(rows)
          /\ Pending(new) = {m \in Pending(rows) : rows[m].job # u.job} \cup {n}
          /\ Unsettled(new) = {m \in Unsettled(rows) : m \in Pending(rows) => rows[m].job # u.job}
                                 \cup {n}
      BY <1>2, <2>0, AppendTurns DEF SameRow
    <2>2. \A m \in DOMAIN new : m # n => m \in DOMAIN rows /\ new[m].job = rows[m].job
      BY <2>1 DEF SameRow
    <2>3. new[n].job = u.job /\ new[n].ref = u.ref
      BY <2>1 DEF SameRow
    <2>4. \A i, m \in Pending(new) : new[i].job = new[m].job => i = m
      BY <1>0, <2>1, <2>2, <2>3
    <2>5. \A m \in Unsettled(rows) : rows[m].job # u.job =>
             m \in Unsettled(new) /\ SameRow(new[m], rows[m])
      BY <1>0, <2>1
    <2> QED
      BY <1>0, <2>1, <2>2, <2>3, <2>4, <2>5
  <1> QED
    BY <1>1, <1>2

\* A candidate becomes a row of its job, which answers for it.
LEMMA EnqueueTurns ==
    ASSUME IInv, IInv', TurnsOK, NEW k \in Checkers, EnqueueCandidate(k)
    PROVE  TurnsOK'
  <1>1. /\ chk[k].pc = "enqueue" /\ chk[k].commit = lastCommit
        /\ UNCHANGED <<live, index, wire, lastCommit, lastIndex, ap>>
    BY DEF EnqueueCandidate, At, TurnsOK, InTurn, nomad, differ
  <1>2. PICK u \in chk[k].cands : \E w :
           /\ w = [job |-> u.job, ref |-> chk[k].commit, op |-> "REGISTER",
                   body |-> [token |-> u.token, spec |-> u.spec, against |-> u.against]]
           /\ updates' = Enqueue(updates, stamp, w)
           /\ Step(k, Enqueuing(k, chk[k].cands \ {u}))
    BY DEF EnqueueCandidate
  <1>2a. PICK w :
           /\ w = [job |-> u.job, ref |-> chk[k].commit, op |-> "REGISTER",
                   body |-> [token |-> u.token, spec |-> u.spec, against |-> u.against]]
           /\ updates' = Enqueue(updates, stamp, w)
    BY <1>2
  <1>3. /\ u \in Candidate /\ u.job \in Jobs /\ u.token \in Nat
        /\ chk[k].commit \in Nat /\ chk[k].commit >= 1 /\ chk[k].commit <= head
    BY <1>1, <1>2 DEF IInv, ChecksOK, CheckOK, CheckState, Candidate
  <1>4. w \in Intent /\ w.job = u.job /\ w.ref = chk[k].commit
        /\ w.body.token = u.token /\ w.body.spec = u.spec /\ w.body.against = u.against
    BY <1>3, <1>2a DEF Intent, Body, Candidate
  <1>5. /\ u.spec = repo[chk[k].commit][u.job] /\ u.spec # u.against
        /\ u.token <= live[u.job].idx /\ Passed(u.job, u.token)
        /\ \A v \in chk[k].cands : v.job = u.job => v = u
    BY <1>2 DEF TurnsOK, InTurn
  <1>6. PICK new : new = updates'
    OBVIOUS
  <1>7. stamp \notin DOMAIN updates /\ RowsOK(updates) /\ \A r \in wire : r.row # stamp
    <2>1. \A r \in wire : r.row \in Nat /\ r.row < stamp
      BY DEF IInv, WireOK, Requests
    <2>2. stamp \in Nat /\ RowsOK(updates) /\ \A i \in DOMAIN updates : i \in Nat /\ i < stamp
      BY DEF IInv, QueueOK
    <2> QED
      BY <2>1, <2>2
  <1>8. /\ InProgress(new) = InProgress(updates)
        /\ \A m \in DOMAIN new :
              \/ m \in DOMAIN updates /\ SameRow(new[m], updates[m])
              \/ SameRow(new[m], w) /\ m \in Pending(new)
        /\ \A m \in DOMAIN new : m # stamp /\ m \notin Pending(updates) =>
              m \in DOMAIN updates /\ m \notin Pending(new) /\ SameRow(new[m], updates[m])
        /\ \A i, m \in Pending(new) : new[i].job = new[m].job => i = m
        /\ \A m \in Unsettled(new) :
              \/ m \in Unsettled(updates) /\ SameRow(new[m], updates[m])
              \/ SameRow(new[m], w)
        /\ \A m \in Unsettled(updates) : updates[m].job # w.job =>
              m \in Unsettled(new) /\ SameRow(new[m], updates[m])
        /\ \E m \in Unsettled(new) : new[m].job = w.job /\ new[m].ref = w.ref
    <2>1. \A i, m \in Pending(updates) : updates[i].job = updates[m].job => i = m
      BY DEF TurnsOK, RowsInTurn
    <2> QED
      BY <1>4, <1>6, <1>7, <1>2a, <2>1, EnqueuedRows
  <1>9. /\ Pending(updates)' = Pending(new) /\ InProgress(updates)' = InProgress(new)
        /\ Unsettled(updates)' = Unsettled(new)
    BY <1>6 DEF Pending, InProgress, Unsettled, Settled
  <1>10. /\ repo' = repo /\ head' = head
         /\ \A m \in Checkers \ {k} : chk'[m] = chk[m] /\ chk[m].pc = "idle"
    BY <1>1, <1>2, OthersIdle DEF Step, head, IInv, ChecksOK
  <1>11. PICK c : c = Enqueuing(k, chk[k].cands \ {u})
    OBVIOUS
  <1>12. /\ chk'[k] = c
         /\ chk[k].cands \ {u} = {} => c = Idle
         /\ chk[k].cands \ {u} # {} => /\ c.pc = "enqueue" /\ c.commit = chk[k].commit
                                       /\ c.cands = chk[k].cands \ {u} /\ c.todo = {}
    BY <1>2, <1>11 DEF Step, IInv, ChecksOK, Enqueuing, Idle
  <1>13. \A j, t : Passed(j, t) /\ (j = u.job => u.token <= t) => Passed(j, t)'
    <2> SUFFICES ASSUME NEW j, NEW t, Passed(j, t), j = u.job => u.token <= t
                 PROVE  Passed(j, t)'
      OBVIOUS
    <2>1. \A m \in Unsettled(new) : new[m].job = j => new[m].body.token <= t
      BY <1>4, <1>8 DEF Passed, SameRow
    <2> QED
      BY <1>1, <1>6, <1>9, <2>1 DEF Passed
  <1>14. NobodyElse'
    <2> SUFFICES ASSUME NEW j \in Jobs
                 PROVE  live[j].dead = FALSE /\ Passed(j, live[j].idx)'
      BY <1>1 DEF NobodyElse
    <2>1. PICK t : t = live[j].idx
      OBVIOUS
    <2>2. Passed(j, t) /\ live[j].dead = FALSE /\ (j = u.job => u.token <= t)
      BY <1>5, <2>1 DEF TurnsOK, NobodyElse
    <2>3. Passed(j, t)'
      BY <1>13, <2>2
    <2> QED
      BY <1>1, <2>1, <2>2, <2>3
  <1>15. OneCheck'
    BY <1>10 DEF OneCheck
  <1>16. InTurn(c)'
    <2>1. CASE chk[k].cands \ {u} = {}
      BY <1>12, <2>1 DEF InTurn, Idle
    <2>2. CASE chk[k].cands \ {u} # {}
      <3>1. Left(c) = {}
        BY <1>12, <2>2 DEF Left
      <3>2. ASSUME NEW v \in c.cands
            PROVE  /\ v.spec = repo[c.commit][v.job] /\ v.spec # v.against
                   /\ v.token <= live[v.job].idx /\ Passed(v.job, v.token)'
                   /\ v.job \notin Left(c)
                   /\ \A x \in c.cands : x.job = v.job => x = v
        <4>1. v \in chk[k].cands /\ v # u /\ v.job # u.job
          BY <1>5, <1>12, <2>2
        <4>2. /\ v.spec = repo[c.commit][v.job] /\ v.spec # v.against
              /\ v.token <= live[v.job].idx /\ Passed(v.job, v.token)
              /\ \A x \in c.cands : x.job = v.job => x = v
          BY <1>12, <2>2, <4>1 DEF TurnsOK, InTurn
        <4> QED
          BY <1>13, <3>1, <4>1, <4>2
      <3> QED
        BY <1>1, <1>10, <1>12, <2>2, <3>1, <3>2 DEF InTurn, Left
    <2> QED
      BY <2>1, <2>2
  <1>17. (\A m \in Checkers : InTurn(chk[m]))'
    <2>1. PICK cs : cs = chk'
      OBVIOUS
    <2>2. ASSUME NEW m \in Checkers, m # k
          PROVE  InTurn(cs[m])'
      <3>1. cs[m] = chk[m] /\ chk[m].pc = "idle" /\ chk[m].cands = {}
        BY <1>10, <2>1, <2>2 DEF TurnsOK, InTurn
      <3> QED
        BY <3>1 DEF InTurn
    <2>3. cs[k] = c
      BY <1>12, <2>1
    <2> QED
      BY <1>16, <2>1, <2>2, <2>3
  <1>18. RowsInTurn'
    <2>1. InProgress(new) = InFlight(ap)'
      BY <1>1, <1>8 DEF InFlight, TurnsOK, RowsInTurn
    <2>2. ASSUME NEW i \in DOMAIN new
          PROVE  /\ new[i].ref >= 1 /\ new[i].ref <= head
                 /\ new[i].body.spec = repo[new[i].ref][new[i].job]
                 /\ new[i].body.spec # new[i].body.against
      <3>1. CASE i \in DOMAIN updates /\ SameRow(new[i], updates[i])
        BY <3>1 DEF TurnsOK, RowsInTurn, SameRow
      <3>2. CASE SameRow(new[i], w)
        BY <1>3, <1>4, <1>5, <3>2 DEF SameRow
      <3> QED
        BY <1>8, <3>1, <3>2
    <2>3. ASSUME NEW r \in wire, NEW i \in Unsettled(new), r.job = new[i].job
          PROVE  r.token <= new[i].body.token
      <3>1. CASE i \in Unsettled(updates) /\ SameRow(new[i], updates[i])
        BY <2>3, <3>1 DEF TurnsOK, RowsInTurn, SameRow
      <3>2. CASE SameRow(new[i], w)
        BY <1>4, <1>5, <2>3, <3>2 DEF Passed, SameRow
      <3> QED
        BY <1>8, <3>1, <3>2
    <2>4. ASSUME NEW i \in InProgress(new), NEW m \in Pending(new), new[i].job = new[m].job
          PROVE  new[i].body.token <= new[m].body.token
      <3>1. /\ i \in InProgress(updates) /\ i \in Unsettled(updates) /\ i \notin Pending(updates)
            /\ i \in DOMAIN new /\ i # stamp
        BY <1>7, <1>8, UnsettledRows DEF InProgress
      <3>2. SameRow(new[i], updates[i])
        BY <1>8, <3>1
      <3>3. m \in DOMAIN new
        BY DEF Pending
      <3>4. CASE m \in Pending(updates) /\ SameRow(new[m], updates[m])
        BY <2>4, <3>1, <3>2, <3>4 DEF TurnsOK, RowsInTurn, SameRow
      <3>5. CASE SameRow(new[m], w)
        BY <1>4, <1>5, <2>4, <3>1, <3>2, <3>5 DEF Passed, SameRow
      <3>6. CASE m \in DOMAIN updates /\ SameRow(new[m], updates[m]) /\ m \notin Pending(updates)
        BY <1>7, <1>8, <3>3, <3>6
      <3> QED
        BY <1>8, <3>3, <3>4, <3>5, <3>6
    <2> QED
      BY <1>1, <1>6, <1>8, <1>9, <1>10, <2>1, <2>2, <2>3, <2>4 DEF RowsInTurn
  <1>19. WireInTurn'
    <2> SUFFICES ASSUME NEW r \in wire, r.row \in DOMAIN new
                 PROVE  /\ r.row \notin Pending(new)
                        /\ r.job = new[r.row].job /\ r.spec = new[r.row].body.spec
                        /\ r.token = new[r.row].body.token
      BY <1>1, <1>6, <1>9 DEF WireInTurn
    <2>1. r.row # stamp
      BY <1>7
    <2>2. r.row \in DOMAIN updates => r.row \notin Pending(updates)
      BY DEF TurnsOK, WireInTurn
    <2>3. Pending(updates) \subseteq DOMAIN updates
      BY DEF Pending
    <2>4. r.row \in DOMAIN updates /\ r.row \notin Pending(new) /\ SameRow(new[r.row], updates[r.row])
      BY <1>8, <2>1, <2>2, <2>3
    <2> QED
      BY <2>4 DEF TurnsOK, WireInTurn, SameRow
  <1>20. DoneIsDone'
    <2> SUFFICES ASSUME ap.pc = "complete"
                 PROVE  SameRow(new[ap.row], updates[ap.row])
      BY <1>1, <1>6 DEF TurnsOK, DoneIsDone, Row, SameRow
    <2>1. ap.row \in InProgress(new) /\ ap.row \in DOMAIN updates /\ ap.row \notin Pending(updates)
      BY <1>8, HeldRow
    <2>2. ap.row \in DOMAIN new
      BY <2>1 DEF InProgress
    <2> QED
      BY <1>7, <1>8, <2>1, <2>2
  <1>21. Owned'
    <2>1. WouldSkip' => WouldSkip
      BY <1>1, <1>10 DEF WouldSkip
    <2>2. CASE ~WouldSkip
      BY <2>1, <2>2 DEF Owned
    <2>3. CASE WouldSkip
      <3>1. w.ref = head
        BY <1>1, <1>4, <2>3 DEF WouldSkip
      <3>2. ASSUME NEW j \in Jobs, Answered(j)
            PROVE  Answered(j)'
        <4>1. CASE j = u.job
          BY <1>4, <1>6, <1>8, <1>9, <1>10, <3>1, <4>1 DEF Answered
        <4>2. CASE j # u.job
          <5>1. ASSUME NEW v \in chk[k].cands, v.job = j
                PROVE  Answered(j)'
            <6>1. v \in chk[k].cands \ {u}
              BY <4>2, <5>1
            <6>2. c.pc = "enqueue" /\ v \in c.cands
              BY <1>12, <6>1
            <6> QED
              BY <1>12, <5>1, <6>2 DEF Answered
          <5>2. ASSUME NEW m \in Unsettled(updates), updates[m].job = j, updates[m].ref = head
                PROVE  Answered(j)'
            <6>1. m \in Unsettled(new) /\ SameRow(new[m], updates[m])
              BY <1>4, <1>8, <4>2, <5>2
            <6>2. m \in Unsettled(new) /\ new[m].job = j /\ new[m].ref = head
              BY <5>2, <6>1 DEF SameRow
            <6> QED
              BY <1>6, <1>9, <1>10, <6>2 DEF Answered
          <5> QED
            BY <1>10, <3>2, <5>1, <5>2 DEF Answered
        <4> QED
          BY <4>1, <4>2
      <3> QED
        BY <1>1, <1>10, <2>1, <3>2, OwnedLater
    <2> QED
      BY <2>2, <2>3
  <1> QED
    BY <1>14, <1>15, <1>17, <1>18, <1>19, <1>20, <1>21 DEF TurnsOK

\* At the start no Check runs, nothing waits, and nothing is skipped.
LEMMA InitKInv == Init => KInv
  <1> SUFFICES ASSUME Init
               PROVE  KInv
    OBVIOUS
  <1>1. /\ limit \in Limits /\ edits = 0 /\ index = 1 /\ lastIndex = 0 /\ wire = {}
        /\ updates = [i \in {} |-> 0] /\ chk = [k \in Checkers |-> Idle] /\ ap = IdleApplier
    BY DEF Init
  <1>2. Unsettled(updates) = {} /\ Pending(updates) = {} /\ InProgress(updates) = {}
        /\ DOMAIN updates = {}
    BY <1>1 DEF Unsettled, Pending, InProgress
  <1>3. NobodyElse
    <2>1. \A j \in Jobs : live[j].dead = FALSE
      <3>1. PICK spec \in Trees :
               live = [j \in Jobs |-> IF spec[j] = Absent THEN NotRegistered
                                      ELSE [spec |-> spec[j], idx |-> 1, dead |-> FALSE]]
        BY DEF Init
      <3> QED
        BY <3>1 DEF NotRegistered
    <2> QED
      BY <1>1, <1>2, <2>1 DEF NobodyElse, Passed
  <1>4. OneCheck /\ \A k \in Checkers : InTurn(chk[k])
    BY <1>1, IdleInTurn DEF OneCheck, Idle
  <1>5. RowsInTurn /\ WireInTurn /\ DoneIsDone
    BY <1>1, <1>2 DEF RowsInTurn, WireInTurn, DoneIsDone, InFlight, IdleApplier
  <1>6. Owned
    BY <1>1 DEF Owned, WouldSkip
  <1> QED
    BY <1>1, <1>3, <1>4, <1>5, <1>6 DEF KInv, TurnsOK

\* Every step keeps it.
LEMMA NextKInv == IInv /\ IInv' /\ JInv /\ KInv /\ [Next]_vars => KInv'
  <1> SUFFICES ASSUME IInv, IInv', JInv, KInv, [Next]_vars
               PROVE  KInv'
    OBVIOUS
  <1>1. /\ limit' = limit /\ edits \in Nat
        /\ edits' = edits \/ (edits' = edits + 1 /\ Edit)
    BY DEF KInv, Next, vars, budget, CheckStep, Begin, List, Skip, Parse, Info, Plan, CommitResults,
           EnqueueCandidate, Step, ApplierStep, NextPending, Apply, CallFails, CompleteUpdate,
           InvalidateSkip, Land, Environment, Commit, OperatorRun, OperatorStop, OperatorPurge,
           StatusWrite, Edit, Crash
  <1>2. limit' \in Limits /\ edits' \in Nat
    BY <1>1 DEF KInv
  <1>3. SUFFICES ASSUME OneGoodCheck, edits' = 0
                 PROVE  TurnsOK'
    BY <1>1, <1>2 DEF KInv, OneGoodCheck
  <1>4. edits = 0 /\ edits' = edits
    BY <1>1, <1>3
  <1>5. TurnsOK /\ limit \in Limits
    BY <1>3, <1>4 DEF KInv
  <1>6. ~Edit
    BY <1>4 DEF Edit
  <1>7. ASSUME NEW k \in Checkers, CheckStep(k)
        PROVE  TurnsOK'
    BY <1>3, <1>5, <1>7, ReadsInTurn, CommitResultsTurns, EnqueueTurns DEF CheckStep
  <1>8. CASE ApplierStep
    BY <1>5, <1>8, NextPendingTurns, ApplyTurns, CallFailsTurns, CompleteUpdateTurns, InvalidateTurns
    DEF ApplierStep
  <1>9. CASE \E r \in wire : Land(r)
    BY <1>5, <1>9, LandTurns
  <1>10. CASE Environment
    BY <1>5, <1>6, <1>10, CommitTurns, CrashTurns
    DEF Environment, OperatorRun, OperatorStop, OperatorPurge, StatusWrite
  <1>11. CASE UNCHANGED vars
    <2>1. UNCHANGED <<live, index, repo, chk, updates, lastCommit, lastIndex, wire, ap>>
      BY <1>11 DEF vars, nomad, queue, differ
    <2>2. \A j, t : Passed(j, t) => Passed(j, t)'
      BY <2>1 DEF Passed, Unsettled, Settled
    <2>3. Onward
      BY <2>1, <2>2, StillOnward
    <2>4. RowsInTurn' /\ WireInTurn'
      BY <1>5, <2>1, <2>3, SameRows DEF InFlight
    <2>5. OneCheck' /\ (\A k \in Checkers : InTurn(chk[k]))'
      BY <1>5, <2>1, <2>3, ChecksInTurn
    <2>6. NobodyElse'
      BY <1>5, <2>1, <2>3, NobodyElseLater DEF TurnsOK, NobodyElse
    <2>7. DoneIsDone'
      BY <1>5, <2>1 DEF TurnsOK, DoneIsDone, Row
    <2>8. Owned'
      <3>1. \A j \in Jobs : Answered(j) => Answered(j)'
        BY <2>1 DEF Answered, Unsettled, Settled, head
      <3>2. WouldSkip' => WouldSkip
        BY <2>1 DEF WouldSkip, head
      <3> QED
        BY <1>5, <2>1, <3>1, <3>2, OwnedLater
    <2> QED
      BY <2>4, <2>5, <2>6, <2>7, <2>8 DEF TurnsOK
  <1> QED
    BY <1>7, <1>8, <1>9, <1>10, <1>11 DEF Next

\* Where one Check runs at a time and none of its calls fails, and nobody else
\* has written to Nomad: while a Check at HEAD would skip, an update that waits
\* or is in flight answers every drift an update can answer, or the applier is
\* about to forbid the skip.  So the skip (differ.go:1150) and the queue never
\* lose a drift between them, however commits come, requests are lost or land
\* late, applies fail and the process restarts.
THEOREM EveryDriftIsOwned == Spec => []DriftIsOwned
  <1>1. Init => IInv /\ JInv /\ KInv
    BY InitIInv, InitJInv, InitKInv
  <1>2. IInv /\ JInv /\ KInv /\ [Next]_vars => (IInv /\ JInv /\ KInv)'
    BY NextIInv, NextJInv, NextKInv
  <1>3. KInv => DriftIsOwned
    <2> SUFFICES ASSUME KInv, OneGoodCheck, edits = 0, WouldSkip, \A k \in Checkers : chk[k].pc # "enqueue",
                        ap.pc # "invalidate", NEW j \in Jobs,
                        TrueDrift(j) \cap {"modified", "missing_from_nomad"} # {}
                 PROVE  \E i \in DOMAIN updates \ Settled(updates) : updates[i].job = j
      BY DEF DriftIsOwned
    <2> QED
      BY DEF KInv, TurnsOK, Owned, Answered, Unsettled
  <1> QED
    BY <1>1, <1>2, <1>3, PTL DEF Spec
===============================================================================
