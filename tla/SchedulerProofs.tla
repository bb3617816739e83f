--------------------------- MODULE SchedulerProofs ---------------------------
(***************************************************************************)
(* What the scheduler's records keep to for any timetable, any asks and    *)
(* any bounds: types, that a run which has ended is never rewritten, that  *)
(* one run is active at a time, that an occurrence is run once, that a     *)
(* deleted schedule gives its workspace up, that an instant ticked on time *)
(* is not missed, that a timetable is accounted for, and, where stopping a *)
(* session cannot fail, that an active run is attended.                    *)
(***************************************************************************)
EXTENDS Scheduler, FiniteSetTheorems, TLAPS

(* The next occurrence of a recurring schedule is one of its timetable.     *)
OnTimetable == sched.runAt = Recurring => \E k \in Nat : sched.next = k * Period

Typed == TypeOK /\ OnTimetable

-----------------------------------------------------------------------------
(* The timetable.                                                           *)

(* Latest is the last occurrence so far, Following the one after it.        *)
LEMMA Timetable ==
  ASSUME NEW t \in Nat
  PROVE  /\ \E k \in Nat : Latest(t) = k * Period
         /\ \E k \in Nat : Following(t) = k * Period
         /\ Latest(t) \in Nat /\ Latest(t) <= t
         /\ Following(t) \in Nat /\ Following(t) > t
<1>. DEFINE q == t \div Period
<1>. USE SchedulerAssumption
<1>1. q \in Nat /\ q * Period <= t /\ t < q * Period + Period
  OBVIOUS
<1>. HIDE DEF q
<1>2. q * Period \in Nat /\ q * Period + Period = (q + 1) * Period /\ q + 1 \in Nat
  BY <1>1
<1>3. Latest(t) = q * Period /\ Following(t) = (q + 1) * Period
  BY <1>2 DEF Latest, Following, q
<1>. QED
  BY <1>1, <1>2, <1>3

(* missedOccurrences, from an occurrence that is due: it counts at least    *)
(* that one, and past one there is an earlier occurrence than the latest.   *)
LEMMA Counting ==
  ASSUME NEW t \in Nat, NEW k \in Nat, k * Period <= t
  PROVE  /\ CountSince(k * Period, t) \in Nat
         /\ CountSince(k * Period, t) > 1 => /\ Latest(t) - Period \in Nat
                                             /\ k * Period <= Latest(t) - Period
         /\ k * Period <= Latest(t)
<1>. USE SchedulerAssumption
<1>. DEFINE q == t \div Period
<1>1. q \in Nat /\ t < q * Period + Period
  OBVIOUS
<1>2. Latest(t) = q * Period
  BY DEF Latest
<1>. HIDE DEF q
<1>3. k <= q
  <2>1. k * Period < (q + 1) * Period
    BY <1>1
  <2>2. CASE k >= q + 1
    <3>1. k * Period >= (q + 1) * Period
      BY <1>1, <2>2
    <3>. QED
      BY <2>1, <3>1, <1>1
  <2>. QED
    BY <1>1, <2>2
<1>4. PICK n \in Nat : q = k + n
  <2>1. q - k \in Nat /\ q = k + (q - k)
    BY <1>1, <1>3
  <2>. QED
    BY <2>1
<1>5. Latest(t) - k * Period = n * Period
  BY <1>2, <1>4
<1>6. CountSince(k * Period, t) = n + 1
  <2>1. (n * Period) \div Period = n
    OBVIOUS
  <2>. QED
    BY <1>5, <2>1 DEF CountSince
<1>7. k * Period \in Nat /\ n * Period \in Nat
  OBVIOUS
<1>8. n > 0 => n * Period >= Period
  OBVIOUS
<1>. QED
  BY <1>5, <1>6, <1>7, <1>8, <1>2, <1>1

-----------------------------------------------------------------------------
(* Records.                                                                 *)

(* A record, made or changed in one field, is a record.                     *)
LEMMA NewRunTyped ==
  ASSUME NEW at \in Nat, NEW trigger \in {"cron", "manual", "missed", "catch-up"}
  PROVE  NewRun(at, trigger) \in Row
<1>1. (trigger # "manual") \in BOOLEAN
  OBVIOUS
<1>. QED
  BY <1>1 DEF NewRun, Row, ActiveStatus, FinalStatus

(* So is one whose status is changed.                                       *)
LEMMA StatusTyped ==
  ASSUME NEW r \in Row, NEW status \in ActiveStatus \cup FinalStatus
  PROVE  [r EXCEPT !.status = status] \in Row
BY DEF Row, ActiveStatus, FinalStatus

(* A missed interval is a record.                                           *)
LEMMA MissedTyped ==
  ASSUME NEW first \in Nat, NEW last \in Nat, NEW count \in Nat
  PROVE  MissedRecord(first, last, count) \in Row
<1>1. NewRun(first, "missed") \in Row
  BY NewRunTyped
<1>2. (IF count > MissedCap THEN MissedCap ELSE count) \in Nat
  BY SchedulerAssumption
<1>. QED
  BY <1>1, <1>2 DEF MissedRecord, Row, FinalStatus

(* What claim() makes of a run that overlaps is a record.                   *)
LEMMA OrSkippedTyped ==
  ASSUME NEW r \in Row
  PROVE  OrSkipped(r) \in Row
<1>1. [r EXCEPT !.status = "skipped"] \in Row
  BY StatusTyped DEF FinalStatus
<1>. QED
  BY <1>1 DEF OrSkipped

(* There is something to ask for.                                           *)
LEMMA FirstAskTyped == FirstAsk \in Asks
BY SchedulerAssumption DEF FirstAsk

(* What is left of a dispatch is a task.                                    *)
LEMMA LeftOverTyped ==
  ASSUME NEW pc \in {"prepare", "setup", "delivering", "release", "ended"},
         NEW launch \in {"none", "reserved", "launched", "over"}
  PROVE  LeftOver(pc, launch) \in Task
BY FirstAskTyped DEF LeftOver, Task, Recurring

(* So is a dispatch that starts.                                            *)
LEMMA DispatchedTyped ==
  ASSUME TypeOK
  PROVE  Dispatched \in Task
<1>1. sched.ask \in Asks /\ sched.runAt \in Nat
  BY DEF TypeOK, Sched
<1>. QED
  BY <1>1 DEF Dispatched, Task

-----------------------------------------------------------------------------
(* What the operations do to the two sequences.                             *)

(* The new record in place of the old one, and nothing else.                *)
LEMMA Replaced ==
  ASSUME NEW S, NEW q \in Seq(S), NEW i \in DOMAIN q, NEW x \in S
  PROVE  /\ [q EXCEPT ![i] = x] \in Seq(S)
         /\ Len([q EXCEPT ![i] = x]) = Len(q)
         /\ DOMAIN [q EXCEPT ![i] = x] = DOMAIN q
         /\ [q EXCEPT ![i] = x][i] = x
         /\ \A j \in DOMAIN q \ {i} : [q EXCEPT ![i] = x][j] = q[j]
OBVIOUS

(* What comes after what was there, and nothing else.                       *)
LEMMA Joined ==
  ASSUME NEW S, NEW q \in Seq(S), NEW r \in Seq(S)
  PROVE  /\ q \o r \in Seq(S)
         /\ Len(q \o r) = Len(q) + Len(r)
         /\ \A k \in DOMAIN q : k \in DOMAIN (q \o r) /\ (q \o r)[k] = q[k]
         /\ \A k \in DOMAIN (q \o r) : k \notin DOMAIN q =>
              k - Len(q) \in DOMAIN r /\ (q \o r)[k] = r[k - Len(q)]
OBVIOUS

(* Write adds its records at the end, each with its task.                   *)
LEMMA Written ==
  ASSUME TypeOK, NEW new \in Seq(Row), Write(new)
  PROVE  /\ rows' \in Seq(Row) /\ tasks' \in Seq(Task)
         /\ Len(rows') = Len(rows) + Len(new) /\ Len(tasks') = Len(rows')
         /\ \A k \in DOMAIN rows : k \in DOMAIN rows' /\ rows'[k] = rows[k] /\ tasks'[k] = tasks[k]
         /\ \A k \in DOMAIN rows' : k \notin DOMAIN rows =>
              /\ k - Len(rows) \in DOMAIN new
              /\ rows'[k] = new[k - Len(rows)]
              /\ tasks'[k] = IF new[k - Len(rows)].status = "preparing" THEN Dispatched
                             ELSE LeftOver("ended", "over")
<1>1. Dispatched \in Task /\ LeftOver("ended", "over") \in Task
  BY DispatchedTyped, LeftOverTyped
<1>2. PICK added \in Seq(Task) :
        /\ added = [k \in DOMAIN new |->
                     IF new[k].status = "preparing" THEN Dispatched ELSE LeftOver("ended", "over")]
        /\ DOMAIN added = DOMAIN new
        /\ Len(added) = Len(new)
  <2>. DEFINE a == [k \in DOMAIN new |->
                      IF new[k].status = "preparing" THEN Dispatched ELSE LeftOver("ended", "over")]
  <2>1. a \in Seq(Task) /\ DOMAIN a = DOMAIN new /\ Len(a) = Len(new)
    BY <1>1
  <2>. QED
    BY <2>1
<1>3. rows \in Seq(Row) /\ tasks \in Seq(Task) /\ Len(tasks) = Len(rows)
  BY DEF TypeOK
<1>4. rows' = rows \o new /\ tasks' = tasks \o added
  BY <1>2 DEF Write
<1>5. /\ rows' \in Seq(Row) /\ Len(rows') = Len(rows) + Len(new)
      /\ \A k \in DOMAIN rows : k \in DOMAIN rows' /\ rows'[k] = rows[k]
      /\ \A k \in DOMAIN rows' : k \notin DOMAIN rows =>
           k - Len(rows) \in DOMAIN new /\ rows'[k] = new[k - Len(rows)]
  BY <1>3, <1>4, Joined
<1>6. /\ tasks' \in Seq(Task) /\ Len(tasks') = Len(tasks) + Len(added)
      /\ \A k \in DOMAIN tasks : tasks'[k] = tasks[k]
      /\ \A k \in DOMAIN tasks' : k \notin DOMAIN tasks =>
           k - Len(tasks) \in DOMAIN added /\ tasks'[k] = added[k - Len(tasks)]
  <2>. DEFINE both == tasks \o added
  <2>1. tasks \in Seq(Task)
    BY <1>3
  <2>2. /\ both \in Seq(Task) /\ Len(both) = Len(tasks) + Len(added)
        /\ \A k \in DOMAIN tasks : both[k] = tasks[k]
        /\ \A k \in DOMAIN both : k \notin DOMAIN tasks =>
             k - Len(tasks) \in DOMAIN added /\ both[k] = added[k - Len(tasks)]
    BY <2>1, Joined, Zenon
  <2>3. tasks' = both
    BY <1>4
  <2>. HIDE DEF both
  <2>. QED
    BY <2>2, <2>3, Zenon
<1>7. Len(tasks') = Len(rows')
  BY <1>2, <1>3, <1>5, <1>6
<1>8. DOMAIN tasks = DOMAIN rows /\ DOMAIN tasks' = DOMAIN rows'
  <2>1. tasks' \in Seq(Task) /\ rows' \in Seq(Row)
    BY <1>5, <1>6
  <2>. QED
    BY <2>1, <1>3, <1>7
<1>9. \A k \in DOMAIN new :
        added[k] = IF new[k].status = "preparing" THEN Dispatched ELSE LeftOver("ended", "over")
  BY <1>2, Zenon
<1>10. \A k \in DOMAIN rows' : k \notin DOMAIN rows =>
         tasks'[k] = IF new[k - Len(rows)].status = "preparing" THEN Dispatched
                     ELSE LeftOver("ended", "over")
  <2>1. \A k \in DOMAIN rows' : k \notin DOMAIN rows =>
          k - Len(rows) \in DOMAIN new /\ tasks'[k] = added[k - Len(rows)]
    BY <1>2, <1>3, <1>6, <1>8
  <2>. QED
    BY <1>9, <2>1, Zenon
<1>. QED
  BY <1>5, <1>6, <1>7, <1>8, <1>10

-----------------------------------------------------------------------------
(* What a step does to the run records.                                     *)

(* A record keeps what it is about, is not touched once its run has ended, *)
(* and an ended run does not come back.                                    *)
Kept(r, s) ==
  /\ s.occurrence = r.occurrence /\ s.trigger = r.trigger
  /\ s.until = r.until /\ s.count = r.count
  /\ r.status \in FinalStatus => s = r
  /\ s.status \in ActiveStatus => r.status \in ActiveStatus
  /\ s.key => r.key

(* Of new records one at most is active, and only if none was; those not   *)
(* of the user claim an occurrence nothing else has claimed.               *)
Fresh(new) ==
  /\ \A k \in DOMAIN new : new[k].status \in ActiveStatus =>
       ~Busy /\ \A l \in DOMAIN new \ {k} : new[l].status \notin ActiveStatus
  /\ \A k \in DOMAIN new : new[k].trigger # "manual" => new[k].key
  /\ \A k \in DOMAIN new : new[k].status # "running"
  /\ \A k \in DOMAIN new : new[k].key =>
       /\ ~Claimed(new[k].occurrence)
       /\ \A l \in DOMAIN new \ {k} : new[l].key => new[l].occurrence # new[k].occurrence

(* A record gives up its claim only while its session is set up.            *)
Claims(i) ==
  \/ rows'[i].key = rows[i].key
  \/ rows'[i].status = "skipped" /\ tasks[i].pc = "setup" /\ prompted' = prompted

NotYet == {"prepare", "setup"}

(* A prompt is given once, to a run that is active.                         *)
Prompts ==
  \/ prompted' = prompted
  \/ \E i \in DOMAIN rows : /\ prompted' = prompted \cup {i}
                            /\ rows'[i].status \in ActiveStatus
                            /\ tasks'[i].pc = "delivering"

Added == \E new \in Seq(Row) :
  /\ Fresh(new)
  /\ Len(rows') = Len(rows) + Len(new)
  /\ \A k \in DOMAIN rows' : k \notin DOMAIN rows =>
       /\ k - Len(rows) \in DOMAIN new /\ rows'[k] = new[k - Len(rows)]
       /\ tasks'[k] = IF new[k - Len(rows)].status = "preparing" THEN Dispatched
                      ELSE LeftOver("ended", "over")

Records ==
  /\ rows' \in Seq(Row) /\ tasks' \in Seq(Task) /\ Len(tasks') = Len(rows')
  /\ \A k \in DOMAIN rows : k \in DOMAIN rows' /\ Kept(rows[k], rows'[k]) /\ Claims(k)
  /\ \A k \in DOMAIN rows : tasks'[k].pc \in NotYet => tasks[k].pc \in NotYet
  /\ Added

(* The records there were, and their tasks, are left alone.                 *)
Same == \A k \in DOMAIN rows : rows'[k] = rows[k] /\ tasks'[k] = tasks[k]

(* Types, without the sets they are gathered in.                            *)
LEMMA Types ==
  ASSUME TypeOK
  PROVE  /\ now \in Nat /\ base \in Nat /\ edits \in Nat /\ faults \in Nat
         /\ up \in BOOLEAN /\ fault \in BOOLEAN /\ owned \in BOOLEAN
         /\ releasing \in Cleanup /\ unreleased \in BOOLEAN
         /\ sched \in Sched /\ rows \in Seq(Row) /\ tasks \in Seq(Task)
         /\ Len(tasks) = Len(rows) /\ DOMAIN tasks = DOMAIN rows /\ DOMAIN rows = 1..Len(rows)
         /\ cancelling \subseteq DOMAIN rows /\ prompted \subseteq DOMAIN rows
         /\ offered \subseteq Nat
<1>1. rows \in Seq(Row) /\ tasks \in Seq(Task) /\ Len(tasks) = Len(rows)
  BY DEF TypeOK
<1>2. DOMAIN tasks = DOMAIN rows /\ DOMAIN rows = 1..Len(rows)
  BY <1>1
<1>. QED
  BY <1>1, <1>2 DEF TypeOK

(* A record is a Row, a task a Task.                                        *)
LEMMA Members ==
  ASSUME TypeOK, NEW i \in DOMAIN rows
  PROVE  rows[i] \in Row /\ tasks[i] \in Task
<1>1. rows \in Seq(Row) /\ tasks \in Seq(Task) /\ i \in DOMAIN tasks
  BY Types
<1>. QED
  BY <1>1

(* An unchanged record is kept.                                             *)
LEMMA KeptSame ==
  ASSUME NEW r
  PROVE  Kept(r, r)
BY DEF Kept

(* Nothing is added where there are as many records as before.              *)
LEMMA AddedNone ==
  ASSUME TypeOK, rows' \in Seq(Row), Len(rows') = Len(rows)
  PROVE  Added
<1>1. <<>> \in Seq(Row) /\ Len(<<>>) = 0 /\ DOMAIN <<>> = {}
  OBVIOUS
<1>2. Fresh(<<>>)
  BY <1>1 DEF Fresh
<1>3. DOMAIN rows' = DOMAIN rows /\ Len(rows) \in Nat
  BY Types
<1>4. Len(rows') = Len(rows) + Len(<<>>)
  BY <1>1, <1>3
<1>. QED
  BY <1>1, <1>2, <1>3, <1>4 DEF Added

(* Write leaves what there is as it was.                                    *)
LEMMA WriteRecords ==
  ASSUME TypeOK, NEW new \in Seq(Row), Write(new), Fresh(new)
  PROVE  Records /\ Same
<1>. USE Written
<1>1. rows' \in Seq(Row) /\ tasks' \in Seq(Task) /\ Len(tasks') = Len(rows')
  OBVIOUS
<1>2. \A k \in DOMAIN rows : k \in DOMAIN rows' /\ rows'[k] = rows[k] /\ tasks'[k] = tasks[k]
  OBVIOUS
<1>3. Added
  BY DEF Added
<1>. QED
  BY <1>1, <1>2, <1>3, KeptSame, Zenon DEF Records, Claims, Same

(* So does a step that writes no record.                                    *)
LEMMA IdleRecords ==
  ASSUME TypeOK, UNCHANGED <<rows, tasks>>
  PROVE  Records /\ Same
<1>1. rows' = rows /\ tasks' = tasks
  OBVIOUS
<1>2. rows' \in Seq(Row) /\ tasks' \in Seq(Task) /\ Len(tasks') = Len(rows') /\ Len(rows') = Len(rows)
  BY <1>1, Types
<1>3. Added
  BY <1>2, AddedNone
<1>. QED
  BY <1>1, <1>2, <1>3, KeptSame, Zenon DEF Records, Claims, Same

(* A step that changes one record, and its task.                            *)
LEMMA OneRecord ==
  ASSUME TypeOK, NEW i \in DOMAIN rows, NEW r \in Row, NEW t \in Task,
         rows' = [rows EXCEPT ![i] = r], tasks' = [tasks EXCEPT ![i] = t],
         Kept(rows[i], r),
         \/ r.key = rows[i].key
         \/ r.status = "skipped" /\ tasks[i].pc = "setup" /\ prompted' = prompted,
         t.pc \in NotYet => tasks[i].pc \in NotYet
  PROVE  Records /\ DOMAIN rows' = DOMAIN rows /\ rows'[i] = r /\ tasks'[i] = t
<1>1. rows \in Seq(Row) /\ tasks \in Seq(Task) /\ Len(tasks) = Len(rows) /\ i \in DOMAIN tasks
      /\ DOMAIN tasks = DOMAIN rows
  BY Types
<1>2. /\ rows' \in Seq(Row) /\ Len(rows') = Len(rows) /\ DOMAIN rows' = DOMAIN rows
      /\ rows'[i] = r /\ \A j \in DOMAIN rows \ {i} : rows'[j] = rows[j]
  BY <1>1, Replaced
<1>3. /\ tasks' \in Seq(Task) /\ Len(tasks') = Len(tasks)
      /\ tasks'[i] = t /\ \A j \in DOMAIN tasks \ {i} : tasks'[j] = tasks[j]
  <2>1. tasks \in Seq(Task) /\ i \in DOMAIN tasks
    BY <1>1
  <2>. QED
    BY <2>1, Replaced
<1>4. Added
  BY <1>2, AddedNone
<1>5. Len(tasks') = Len(rows')
  BY <1>1, <1>2, <1>3
<1>6. ASSUME NEW k \in DOMAIN rows
      PROVE  /\ k \in DOMAIN rows' /\ Kept(rows[k], rows'[k]) /\ Claims(k)
             /\ tasks'[k].pc \in NotYet => tasks[k].pc \in NotYet
  <2>1. CASE k = i
    BY <2>1, <1>2, <1>3, Zenon DEF Claims
  <2>2. CASE k # i
    BY <2>2, <1>1, <1>2, <1>3, KeptSame, Zenon DEF Claims
  <2>. QED
    BY <2>1, <2>2
<1>. QED
  BY <1>2, <1>3, <1>4, <1>5, <1>6, Zenon DEF Records

(* finish() and observe(): the record as it was, or with the new status.    *)
LEMMA FinishedIs ==
  ASSUME NEW rs \in Seq(Row), NEW i \in DOMAIN rs, NEW status \in ActiveStatus \cup FinalStatus,
         NEW out \in {Finished(rs, i, status), Observed(rs, i, status), rs}
  PROVE  \E r \in Row : /\ out = [rs EXCEPT ![i] = r]
                        /\ r.key = rs[i].key
                        /\ Kept(rs[i], r)
<1>1. rs[i] \in Row
  OBVIOUS
<1>2. rs = [rs EXCEPT ![i] = rs[i]]
  OBVIOUS
<1>3. CASE out = rs
  BY <1>1, <1>2, <1>3, KeptSame
<1>4. CASE out # rs
  <2>. DEFINE r == [rs[i] EXCEPT !.status = status]
  <2>1. rs[i].status \in ActiveStatus /\ out = [rs EXCEPT ![i].status = status]
    BY <1>4 DEF Finished, Observed
  <2>2. r \in Row
    BY <1>1, StatusTyped
  <2>3. /\ r.status = status /\ r.key = rs[i].key
        /\ r.occurrence = rs[i].occurrence /\ r.trigger = rs[i].trigger
        /\ r.until = rs[i].until /\ r.count = rs[i].count
    BY <1>1 DEF Row
  <2>4. Kept(rs[i], r)
    BY <2>1, <2>3 DEF Kept, ActiveStatus, FinalStatus
  <2>5. out = [rs EXCEPT ![i] = r]
    BY <2>1
  <2>. QED
    BY <2>2, <2>3, <2>4, <2>5
<1>. QED
  BY <1>3, <1>4

-----------------------------------------------------------------------------
(* Steps that write new records.                                            *)

(* One record that may be written, or two.                                  *)
Claimable(r) ==
  /\ r.status \in ActiveStatus => ~Busy
  /\ r.trigger # "manual" => r.key
  /\ r.status # "running"
  /\ r.key => ~Claimed(r.occurrence)

(* A record that may be written is fresh.                                   *)
LEMMA FreshOne ==
  ASSUME NEW r \in Row, Claimable(r)
  PROVE  <<r>> \in Seq(Row) /\ Fresh(<<r>>)
<1>1. <<r>> \in Seq(Row) /\ DOMAIN <<r>> = {1} /\ <<r>>[1] = r
  OBVIOUS
<1>. QED
  BY <1>1 DEF Fresh, Claimable

(* So are a missed interval and the run after it.                           *)
LEMMA FreshTwo ==
  ASSUME NEW m \in Row, NEW r \in Row, Claimable(m), Claimable(r),
         m.status \notin ActiveStatus, m.occurrence # r.occurrence
  PROVE  <<m>> \o <<r>> \in Seq(Row) /\ Fresh(<<m>> \o <<r>>)
<1>. DEFINE a == <<m>>
<1>. DEFINE b == <<r>>
<1>1. a \in Seq(Row) /\ Len(a) = 1 /\ DOMAIN a = {1} /\ a[1] = m
  OBVIOUS
<1>2. b \in Seq(Row) /\ Len(b) = 1 /\ b[1] = r
  OBVIOUS
<1>. HIDE DEF a, b
<1>. DEFINE both == a \o b
<1>3. /\ both \in Seq(Row) /\ Len(both) = Len(a) + Len(b)
      /\ \A k \in DOMAIN a : both[k] = a[k]
      /\ \A k \in DOMAIN both : k \notin DOMAIN a => both[k] = b[k - Len(a)]
  BY <1>1, <1>2, Joined
<1>. HIDE DEF both
<1>4. DOMAIN both = {1, 2}
  <2>1. both \in Seq(Row) /\ Len(both) = 2
    BY <1>1, <1>2, <1>3
  <2>. QED
    BY <2>1
<1>5. both[1] = m /\ both[2] = r
  <2>1. both[1] = a[1]
    BY <1>1, <1>3
  <2>2. both[2] = b[2 - 1]
    BY <1>1, <1>3, <1>4
  <2>. QED
    BY <1>1, <1>2, <2>1, <2>2
<1>6. Fresh(both)
  BY <1>4, <1>5 DEF Fresh, Claimable
<1>. QED
  BY <1>3, <1>6 DEF both, a, b

(* So is no record.                                                         *)
LEMMA FreshNone == <<>> \in Seq(Row) /\ Fresh(<<>>)
<1>1. <<>> \in Seq(Row) /\ DOMAIN <<>> = {}
  OBVIOUS
<1>. QED
  BY <1>1 DEF Fresh

(* The records the scheduler makes.                                         *)
LEMMA MissedIs ==
  ASSUME NEW first \in Nat, NEW last \in Nat, NEW count \in Nat, ~Claimed(first)
  PROVE  /\ MissedRecord(first, last, count) \in Row
         /\ Claimable(MissedRecord(first, last, count))
         /\ MissedRecord(first, last, count).status \notin ActiveStatus
         /\ MissedRecord(first, last, count).occurrence = first
<1>. DEFINE m == MissedRecord(first, last, count)
<1>1. m.status = "skipped" /\ m.occurrence = first
  BY DEF MissedRecord, NewRun
<1>2. m.key
  BY DEF MissedRecord, NewRun
<1>3. m \in Row
  BY MissedTyped
<1>. HIDE DEF m
<1>4. m.status \notin ActiveStatus
  BY <1>1 DEF ActiveStatus
<1>5. Claimable(m)
  BY <1>1, <1>2, <1>4, Zenon DEF Claimable
<1>. QED
  BY <1>1, <1>3, <1>4, <1>5 DEF m

(* A new run, of the timetable or of the user, and what claim() makes of it. *)
LEMMA NewRunIs ==
  ASSUME NEW at \in Nat, NEW trigger \in {"cron", "manual", "missed", "catch-up"},
         trigger # "manual" => ~Claimed(at)
  PROVE  /\ NewRun(at, trigger) \in Row /\ OrSkipped(NewRun(at, trigger)) \in Row
         /\ ~Busy => Claimable(NewRun(at, trigger))
         /\ Claimable(OrSkipped(NewRun(at, trigger)))
         /\ OrSkipped(NewRun(at, trigger)).occurrence = at
<1>. DEFINE r == NewRun(at, trigger)
<1>. DEFINE s == [r EXCEPT !.status = "skipped"]
<1>1. r.occurrence = at /\ r.trigger = trigger /\ r.status = "preparing"
  BY DEF NewRun
<1>2. r.key <=> trigger # "manual"
  BY DEF NewRun
<1>3. r \in Row
  BY NewRunTyped
<1>. HIDE DEF r
<1>4. s.occurrence = at /\ s.trigger = trigger /\ s.status = "skipped" /\ s.key = r.key
  BY <1>1, <1>3 DEF Row
<1>5. s \in Row
  BY <1>3, StatusTyped DEF FinalStatus
<1>. HIDE DEF s
<1>6. ~Busy => Claimable(r)
  BY <1>1, <1>2, Zenon DEF Claimable
<1>7. Claimable(s)
  <2>1. s.status \notin ActiveStatus
    BY <1>4 DEF ActiveStatus
  <2>2. s.key <=> trigger # "manual"
    BY <1>4, <1>2
  <2>. QED
    BY <1>4, <2>1, <2>2, Zenon DEF Claimable
<1>8. CASE Busy
  <2>1. OrSkipped(r) = s
    BY <1>8 DEF OrSkipped, s
  <2>. QED
    BY <1>3, <1>4, <1>5, <1>6, <1>7, <2>1 DEF r
<1>9. CASE ~Busy
  <2>1. OrSkipped(r) = r
    BY <1>9 DEF OrSkipped
  <2>. QED
    BY <1>1, <1>3, <1>6, <1>9, <2>1 DEF r
<1>. QED
  BY <1>8, <1>9

(* The types of a next state, one by one.                                   *)
LEMMA Carries ==
  ASSUME TypeOK, Records,
         now' \in Nat, base' \in Nat, edits' \in Nat, faults' \in Nat,
         up' \in BOOLEAN, fault' \in BOOLEAN, owned' \in BOOLEAN,
         releasing' \in Cleanup, unreleased' \in BOOLEAN,
         sched' \in Sched, offered' \subseteq Nat,
         cancelling' \subseteq DOMAIN rows, prompted' \subseteq DOMAIN rows
  PROVE  TypeOK'
<1>1. rows' \in Seq(Row) /\ tasks' \in Seq(Task) /\ Len(tasks') = Len(rows')
  BY Zenon DEF Records
<1>2. DOMAIN rows \subseteq DOMAIN rows'
  BY Zenon DEF Records
<1>3. cancelling' \subseteq DOMAIN rows' /\ prompted' \subseteq DOMAIN rows'
  BY <1>2
<1>. QED
  BY <1>1, <1>3 DEF TypeOK

Good == Typed' /\ Records /\ Prompts

(* runNow: a run of the user claims no occurrence.                          *)
LEMMA RunNowGood ==
  ASSUME Typed, RunNow
  PROVE  Good /\ Same
<1>. USE DEF Typed
<1>1. Claimable(OrSkipped(NewRun(Unplanned, "manual"))) /\ OrSkipped(NewRun(Unplanned, "manual")) \in Row
  BY NewRunIs DEF Unplanned
<1>2. Records /\ Same
  BY <1>1, FreshOne, WriteRecords DEF RunNow
<1>3. TypeOK'
  BY <1>2, Types, Carries DEF RunNow, history
<1>4. OnTimetable' /\ Prompts
  BY DEF RunNow, OnTimetable, Prompts, history
<1>. QED
  BY <1>2, <1>3, <1>4 DEF Good

(* A one-off defers, or claims its one occurrence.                          *)
LEMMA TickOneOffGood ==
  ASSUME Typed, TickOneOff
  PROVE  Good /\ Same
<1>. USE DEF Typed
<1>1. sched \in Sched /\ sched.runAt \in Nat
  BY Types DEF Sched
<1>2. Records /\ Same
  <2>1. CASE Busy
    BY <2>1, IdleRecords DEF TickOneOff
  <2>2. CASE ~Busy
    <3>. DEFINE trigger == IF IsOnTime(sched.runAt) THEN "cron" ELSE "catch-up"
    <3>. DEFINE r == IF WrittenOff(sched.runAt) THEN MissedRecord(sched.runAt, sched.runAt, 1)
                     ELSE NewRun(sched.runAt, trigger)
    <3>1. ~Claimed(sched.runAt) /\ Write(<<r>>)
      BY <2>2 DEF TickOneOff
    <3>2. trigger \in {"cron", "catch-up"}
      OBVIOUS
    <3>. HIDE DEF trigger
    <3>3. NewRun(sched.runAt, trigger) \in Row /\ Claimable(NewRun(sched.runAt, trigger))
      BY <1>1, <2>2, <3>1, <3>2, NewRunIs
    <3>4. /\ MissedRecord(sched.runAt, sched.runAt, 1) \in Row
          /\ Claimable(MissedRecord(sched.runAt, sched.runAt, 1))
      BY <1>1, <3>1, MissedIs
    <3>5. r \in Row /\ Claimable(r)
      BY <3>3, <3>4
    <3>. QED
      BY <3>1, <3>5, FreshOne, WriteRecords
  <2>. QED
    BY <2>1, <2>2
<1>3. sched' \in Sched
  <2>1. Len(rows) + 1 \in Nat
    BY Types
  <2>2. \/ sched' = [sched EXCEPT !.deferred = TRUE]
        \/ sched' = [sched EXCEPT !.deferred = FALSE, !.fired = Len(rows) + 1]
    BY DEF TickOneOff
  <2>. QED
    BY <1>1, <2>1, <2>2 DEF Sched
<1>4. sched'.runAt = sched.runAt /\ sched.runAt # Recurring
  BY <1>1 DEF TickOneOff, Sched
<1>5. offered' \subseteq Nat
  BY <1>1, Types DEF TickOneOff
<1>6. TypeOK'
  BY <1>2, <1>3, <1>5, Types, Carries DEF TickOneOff
<1>7. OnTimetable' /\ Prompts
  BY <1>4 DEF TickOneOff, OnTimetable, Prompts
<1>. QED
  BY <1>2, <1>6, <1>7 DEF Good

(* What is due since the next occurrence, as the timetable counts it.       *)
LEMMA DueIs ==
  ASSUME Typed, sched.runAt = Recurring, sched.next <= now
  PROVE  /\ sched.next \in Nat /\ now \in Nat
         /\ CountSince(sched.next, now) \in Nat
         /\ CountSince(sched.next, now) > 1 => /\ Latest(now) - Period \in Nat
                                               /\ CountSince(sched.next, now) - 1 \in Nat
                                               /\ sched.next # Latest(now)
         /\ Latest(now) \in Nat
<1>1. sched.next \in Nat /\ now \in Nat
  BY Types DEF Typed, Sched
<1>2. PICK k \in Nat : sched.next = k * Period
  BY DEF Typed, OnTimetable
<1>3. /\ CountSince(k * Period, now) \in Nat
      /\ CountSince(k * Period, now) > 1 => /\ Latest(now) - Period \in Nat
                                            /\ k * Period <= Latest(now) - Period
  BY <1>1, <1>2, Counting
<1>4. Latest(now) \in Nat
  BY <1>1, Timetable
<1>. QED
  BY <1>1, <1>2, <1>3, <1>4, SchedulerAssumption

(* A schedule moved to the following occurrence is on its timetable.        *)
LEMMA MovedOn ==
  ASSUME Typed, NEW s \in Sched
  PROVE  /\ [s EXCEPT !.next = Following(now)] \in Sched
         /\ [s EXCEPT !.next = Following(now)].runAt = s.runAt
         /\ \E k \in Nat : [s EXCEPT !.next = Following(now)].next = k * Period
<1>1. Following(now) \in Nat /\ \E k \in Nat : Following(now) = k * Period
  BY Types, Timetable DEF Typed
<1>. QED
  BY <1>1 DEF Sched

(* A timetable claims its latest occurrence, and what came before.          *)
LEMMA TickRecurringGood ==
  ASSUME Typed, TickRecurring
  PROVE  Good /\ Same
<1>. DEFINE latest == Latest(now)
<1>. DEFINE catchUp == /\ ~IsOnTime(latest)
                       /\ sched.catchUp = "latest"
                       /\ Following(now) - now >= Lead
<1>. DEFINE trigger == IF catchUp THEN "catch-up" ELSE "cron"
<1>. DEFINE run == NewRun(latest, trigger)
<1>. DEFINE runs == IsOnTime(latest) \/ catchUp
<1>1. sched.runAt = Recurring /\ sched.next <= now
  BY DEF TickRecurring, Due
<1>2. /\ ~Claimed(IF runs THEN latest ELSE sched.next)
      /\ Write(IF runs THEN EarlierMissed \o <<OrSkipped(run)>>
               ELSE <<MissedRecord(sched.next, latest, CountSince(sched.next, now))>>)
  BY DEF TickRecurring
<1>3. trigger \in {"cron", "catch-up"}
  OBVIOUS
<1>. HIDE DEF trigger, runs
<1>4. Records /\ Same
  <2>1. CASE ~runs
    <3>. DEFINE m == MissedRecord(sched.next, latest, CountSince(sched.next, now))
    <3>1. m \in Row /\ Claimable(m)
      BY <1>1, <1>2, <2>1, DueIs, MissedIs
    <3>2. Write(<<m>>)
      BY <1>2, <2>1
    <3>. HIDE DEF m
    <3>. QED
      BY <3>1, <3>2, FreshOne, WriteRecords DEF Typed
  <2>2. CASE runs
    <3>1. latest \in Nat /\ ~Claimed(latest)
      BY <1>1, <1>2, <2>2, DueIs
    <3>2. OrSkipped(run) \in Row /\ Claimable(OrSkipped(run)) /\ OrSkipped(run).occurrence = latest
      BY <1>3, <3>1, NewRunIs
    <3>3. Write(EarlierMissed \o <<OrSkipped(run)>>)
      BY <1>2, <2>2
    <3>. HIDE DEF run
    <3>4. CASE CountSince(sched.next, now) > 1 /\ ~Claimed(sched.next)
      <4>. DEFINE m == MissedRecord(sched.next, latest - Period, CountSince(sched.next, now) - 1)
      <4>1. m \in Row /\ Claimable(m) /\ m.status \notin ActiveStatus /\ m.occurrence = sched.next
        BY <1>1, <3>4, DueIs, MissedIs
      <4>2. EarlierMissed = <<m>> /\ sched.next # latest
        BY <1>1, <3>4, DueIs DEF EarlierMissed
      <4>. HIDE DEF m, latest
      <4>3. /\ <<m>> \o <<OrSkipped(run)>> \in Seq(Row)
            /\ Fresh(<<m>> \o <<OrSkipped(run)>>)
        BY <3>2, <4>1, <4>2, FreshTwo
      <4>. QED
        BY <3>3, <4>2, <4>3, WriteRecords DEF Typed
    <3>5. CASE ~(CountSince(sched.next, now) > 1 /\ ~Claimed(sched.next))
      <4>1. EarlierMissed = <<>>
        BY <3>5 DEF EarlierMissed
      <4>2. <<>> \o <<OrSkipped(run)>> = <<OrSkipped(run)>>
        BY <3>2
      <4>. QED
        BY <3>2, <3>3, <4>1, <4>2, FreshOne, WriteRecords DEF Typed
    <3>. QED
      BY <3>4, <3>5
  <2>. QED
    BY <2>1, <2>2
<1>5. sched' \in Sched /\ OnTimetable'
  <2>1. sched \in Sched
    BY Types DEF Typed
  <2>2. sched' = [sched EXCEPT !.next = Following(now)]
    BY DEF TickRecurring
  <2>. QED
    BY <2>1, <2>2, MovedOn DEF OnTimetable
<1>6. TypeOK'
  BY <1>4, <1>5, Types, Carries DEF Typed, TickRecurring, history
<1>7. Prompts
  BY DEF TickRecurring, Prompts, history
<1>. QED
  BY <1>4, <1>5, <1>6, <1>7 DEF Good, Typed

(* What an edit makes of the schedule.                                      *)
LEMMA EditedIs ==
  ASSUME Typed, NEW ask \in Asks, NEW runAt \in Nat, NEW enabled \in BOOLEAN, NEW catchUp \in Policies
  PROVE  /\ Edited(ask, runAt, enabled, catchUp) \in Sched
         /\ Edited(ask, runAt, enabled, catchUp).runAt = runAt
         /\ runAt = Recurring =>
              \E k \in Nat : Edited(ask, runAt, enabled, catchUp).next = k * Period
         /\ runAt = Recurring /\ Edited(ask, runAt, enabled, catchUp).next <= now =>
              sched.runAt = Recurring /\ sched.next <= now
<1>. DEFINE e == Edited(ask, runAt, enabled, catchUp)
<1>1. sched \in Sched /\ now \in Nat
  BY Types DEF Typed
<1>2. Following(now) \in Nat /\ Following(now) > now /\ \E k \in Nat : Following(now) = k * Period
  BY <1>1, Timetable
<1>3. /\ (IF runAt # Recurring THEN runAt
          ELSE IF sched.runAt # Recurring THEN Following(now) ELSE sched.next) \in Nat
      /\ (IF runAt # sched.runAt THEN NoRun ELSE sched.fired) \in Nat
  BY <1>1, <1>2 DEF Sched, NoRun
<1>4. (sched.deferred /\ runAt = sched.runAt) \in BOOLEAN
  OBVIOUS
<1>5. e \in Sched
  BY <1>1, <1>3, <1>4 DEF Edited, Sched
<1>6. e.runAt = runAt
  BY <1>1 DEF Edited, Sched
<1>7. e.next = IF runAt # Recurring THEN runAt
               ELSE IF sched.runAt # Recurring THEN Following(now) ELSE sched.next
  BY <1>1 DEF Edited, Sched
<1>. HIDE DEF e
<1>8. runAt = Recurring => \E k \in Nat : e.next = k * Period
  BY <1>2, <1>7 DEF Typed, OnTimetable
<1>9. runAt = Recurring /\ e.next <= now => sched.runAt = Recurring /\ sched.next <= now
  BY <1>1, <1>2, <1>7
<1>. QED
  BY <1>5, <1>6, <1>8, <1>9 DEF e

(* An edit, and what a resumed schedule records as missed.                  *)
LEMMA UpdateGood ==
  ASSUME Typed, NEW ask \in Asks, NEW runAt \in Nat, NEW enabled \in BOOLEAN,
         NEW catchUp \in Policies, Update(ask, runAt, enabled, catchUp)
  PROVE  Good /\ Same
<1>. DEFINE edited == Edited(ask, runAt, enabled, catchUp)
<1>. DEFINE resumed == Resumes(runAt, enabled) /\ runAt = Recurring /\ edited.next <= now
<1>. DEFINE new == IF Claimed(sched.next) THEN <<>> ELSE <<Paused>>
<1>1. /\ edited \in Sched /\ edited.runAt = runAt
      /\ runAt = Recurring => \E k \in Nat : edited.next = k * Period
      /\ resumed => sched.runAt = Recurring /\ sched.next <= now
  BY EditedIs
<1>2. /\ \/ ~resumed /\ sched' = edited /\ UNCHANGED <<rows, tasks, fault>>
         \/ resumed /\ Write(new) /\ sched' = [edited EXCEPT !.next = Following(now)] /\ UNCHANGED fault
         \/ /\ resumed /\ Write(new)
            /\ sched' = IF Claimed(sched.next) THEN sched
                        ELSE [sched EXCEPT !.next = Following(now)]
            /\ fault' = TRUE
      /\ base' = IF runAt = Recurring /\ sched.runAt # Recurring THEN sched'.next ELSE base
      /\ edits' = edits + 1
      /\ UNCHANGED <<now, up, owned, cancelling, releasing, unreleased, offered, prompted, faults>>
  BY Zenon DEF Update
<1>. HIDE DEF edited
<1>3. resumed => new \in Seq(Row) /\ Fresh(new)
  <2>1. CASE Claimed(sched.next)
    BY <2>1, FreshNone
  <2>2. CASE ~Claimed(sched.next) /\ resumed
    <3>1. Paused \in Row /\ Claimable(Paused)
      BY <1>1, <2>2, DueIs, MissedIs DEF Paused
    <3>. QED
      BY <2>2, <3>1, FreshOne
  <2>. QED
    BY <2>1, <2>2
<1>. HIDE DEF new, resumed
<1>4. Records /\ Same
  <2>1. CASE UNCHANGED <<rows, tasks>>
    BY <2>1, IdleRecords DEF Typed
  <2>2. CASE resumed /\ Write(new)
    BY <2>2, <1>3, WriteRecords DEF Typed
  <2>. QED
    BY <1>2, <2>1, <2>2
<1>5. sched' \in Sched /\ OnTimetable'
  <2>1. sched \in Sched /\ OnTimetable
    BY Types DEF Typed
  <2>2. CASE sched' = edited
    BY <1>1, <2>2 DEF OnTimetable
  <2>3. CASE sched' = [edited EXCEPT !.next = Following(now)]
    BY <1>1, <2>3, MovedOn DEF OnTimetable
  <2>4. CASE sched' = sched
    BY <2>1, <2>4 DEF OnTimetable
  <2>5. CASE sched' = [sched EXCEPT !.next = Following(now)]
    BY <2>1, <2>5, MovedOn DEF OnTimetable
  <2>. QED
    BY <1>2, <2>2, <2>3, <2>4, <2>5
<1>6. base' \in Nat /\ edits' \in Nat /\ fault' \in BOOLEAN
  <2>1. edits \in Nat /\ base \in Nat /\ fault \in BOOLEAN
    BY Types DEF Typed
  <2>2. sched'.next \in Nat
    BY <1>5 DEF Sched
  <2>3. base' \in {base, sched'.next}
    BY <1>2
  <2>4. fault' = fault \/ fault' = TRUE
    BY <1>2, Zenon
  <2>5. fault' \in BOOLEAN
    BY <2>1, <2>4, Zenon
  <2>6. edits' = edits + 1
    BY <1>2
  <2>. QED
    BY <2>1, <2>2, <2>3, <2>5, <2>6
<1>7. TypeOK'
  BY <1>2, <1>4, <1>5, <1>6, Types, Carries DEF Typed
<1>8. Prompts
  BY <1>2 DEF Prompts
<1>. QED
  BY <1>4, <1>5, <1>7, <1>8 DEF Good, Typed

(* Steps that leave the records alone.                                      *)
LEMMA IdleGood ==
  ASSUME Typed,
         \/ \E runAt \in Instants, c \in Policies, e \in BOOLEAN : Create(runAt, c, e)
         \/ Retime \/ Delete \/ Release \/ StorageFails \/ TimePasses
  PROVE  Good /\ Same
<1>. USE DEF Typed
<1>1. UNCHANGED <<rows, tasks>>
  BY DEF Create, Retime, Delete, Release, StorageFails, TimePasses, memory, stored
<1>2. Records /\ Same
  BY <1>1, IdleRecords
<1>3. Prompts
  BY DEF Create, Retime, Delete, Release, StorageFails, TimePasses, history, Prompts
<1>4. CASE \E runAt \in Instants, c \in Policies, e \in BOOLEAN : Create(runAt, c, e)
  <2>1. PICK runAt \in Nat, c \in Policies, e \in BOOLEAN : Create(runAt, c, e)
    BY <1>4, SchedulerAssumption
  <2>2. now \in Nat /\ Following(now) \in Nat /\ \E k \in Nat : Following(now) = k * Period
    BY Types, Timetable
  <2>3. (IF runAt = Recurring THEN Following(now) ELSE runAt) \in Nat
    BY <2>2
  <2>4. sched' = [phase |-> "live", ask |-> FirstAsk, runAt |-> runAt, catchUp |-> c,
                  next |-> IF runAt = Recurring THEN Following(now) ELSE runAt,
                  enabled |-> e, fired |-> NoRun, deferred |-> FALSE]
    BY <2>1 DEF Create
  <2>5. sched' \in Sched
    BY <2>3, <2>4, FirstAskTyped DEF Sched, NoRun
  <2>6. OnTimetable'
    BY <2>2, <2>4 DEF OnTimetable
  <2>7. base' \in Nat
    BY <2>1, <2>5 DEF Create, Sched
  <2>8. TypeOK'
    BY <1>2, <2>1, <2>5, <2>7, Types, Carries DEF Create, memory
  <2>. QED
    BY <1>2, <1>3, <2>6, <2>8 DEF Good
<1>5. CASE Delete
  <2>1. sched \in Sched
    BY Types
  <2>2. sched' \in Sched /\ sched'.runAt = sched.runAt /\ sched'.next = sched.next
    BY <1>5, <2>1 DEF Delete, Sched
  <2>3. TypeOK'
    BY <1>2, <1>5, <2>2, Types, Carries DEF Delete, history, Cleanup
  <2>4. OnTimetable'
    BY <2>2 DEF OnTimetable
  <2>. QED
    BY <1>2, <1>3, <2>3, <2>4 DEF Good
<1>6. CASE Release
  <2>1. owned' \in BOOLEAN /\ unreleased' \in BOOLEAN /\ faults' \in Nat
    <3>1. owned \in BOOLEAN /\ unreleased \in BOOLEAN /\ faults \in Nat
      BY Types
    <3>2. owned' \in BOOLEAN /\ unreleased' \in BOOLEAN
      BY <1>6, <3>1, Zenon DEF Release, ReleaseDeleted
    <3>3. faults' = faults \/ faults' = faults + 1
      BY <1>6 DEF Release, ReleaseDeleted
    <3>. QED
      BY <3>1, <3>2, <3>3
  <2>2. TypeOK'
    BY <1>2, <1>6, <2>1, Types, Carries DEF Release, history, Cleanup
  <2>3. OnTimetable'
    BY <1>6 DEF OnTimetable, Release
  <2>. QED
    BY <1>2, <1>3, <2>2, <2>3 DEF Good
<1>7. CASE StorageFails
  <2>1. TypeOK'
    BY <1>2, <1>7, Types, Carries DEF StorageFails, stored, history
  <2>2. OnTimetable'
    BY <1>7 DEF OnTimetable, StorageFails, stored
  <2>. QED
    BY <1>2, <1>3, <2>1, <2>2 DEF Good
<1>8. CASE TimePasses
  <2>1. now' \in Nat
    BY <1>8, Types DEF TimePasses
  <2>2. TypeOK'
    BY <1>2, <1>8, <2>1, Types, Carries DEF TimePasses, stored, memory, history
  <2>3. OnTimetable'
    BY <1>8 DEF OnTimetable, TimePasses, stored
  <2>. QED
    BY <1>2, <1>3, <2>2, <2>3 DEF Good
<1>9. CASE Retime
  <2>1. sched \in Sched /\ now \in Nat /\ edits \in Nat
    BY Types
  <2>2. sched' = [sched EXCEPT !.next = Following(now)] /\ base' = Following(now) /\ edits' = edits + 1
    BY <1>9 DEF Retime
  <2>3. sched' \in Sched /\ OnTimetable'
    BY <2>1, <2>2, MovedOn DEF OnTimetable
  <2>4. base' \in Nat /\ edits' \in Nat
    BY <2>1, <2>2, Timetable
  <2>5. TypeOK'
    BY <1>2, <1>9, <2>3, <2>4, Types, Carries DEF Retime, memory
  <2>. QED
    BY <1>2, <1>3, <2>3, <2>5 DEF Good
<1>. QED
  BY <1>4, <1>5, <1>6, <1>7, <1>8, <1>9

-----------------------------------------------------------------------------
(* Steps that change records: dispatch() and what reaches a run.            *)

(* A dispatch that gives up has a task no more.                             *)
LEMMA GivesUpIs ==
  ASSUME Typed, NEW i \in DOMAIN rows, GivesUp(i)
  PROVE  \E t \in Task : tasks' = [tasks EXCEPT ![i] = t] /\ t.pc \notin NotYet
<1>1. LeftOver("release", "over") \in Task
  BY LeftOverTyped
<1>2. LeftOver("release", "over").pc \notin NotYet
  BY DEF LeftOver, NotYet
<1>. QED
  BY <1>1, <1>2 DEF GivesUp

(* A failure changes the run's record and ends its task.                    *)
LEMMA ThrewRecords ==
  ASSUME Typed, NEW i \in DOMAIN rows, Threw(i)
  PROVE  Records /\ DOMAIN rows' = DOMAIN rows
<1>1. rows \in Seq(Row)
  BY Types DEF Typed
<1>2. PICK r \in Row : rows' = [rows EXCEPT ![i] = r] /\ r.key = rows[i].key /\ Kept(rows[i], r)
  <2>1. rows' \in {Finished(rows, i, "done"), Observed(rows, i, "done"), rows}
    BY DEF Threw
  <2>. QED
    BY <1>1, <2>1, FinishedIs DEF FinalStatus
<1>3. PICK t \in Task : tasks' = [tasks EXCEPT ![i] = t] /\ t.pc \notin NotYet
  BY GivesUpIs DEF Threw
<1>. QED
  BY <1>2, <1>3, OneRecord DEF Typed

(* The steps of a dispatch that change neither the prompts given nor the   *)
(* schedule.                                                               *)
LEMMA CarriesOn ==
  ASSUME Typed, Records, UNCHANGED <<sched, unreleased, prompted, restOfDispatch>>,
         owned' \in BOOLEAN
  PROVE  Good
<1>1. TypeOK'
  BY Types, Carries DEF Typed, restOfDispatch
<1>2. OnTimetable' /\ Prompts
  BY DEF Typed, OnTimetable, Prompts
<1>. QED
  BY <1>1, <1>2 DEF Good, Typed

(* The session is bound to a run that is active.                            *)
LEMMA PrepareGood ==
  ASSUME Typed, NEW i \in DOMAIN rows, Prepare(i)
  PROVE  Good
<1>1. UNCHANGED <<sched, unreleased, prompted, restOfDispatch>>
  BY DEF Prepare
<1>2. owned' \in BOOLEAN
  <2>1. owned \in BOOLEAN
    BY Types DEF Typed
  <2>. QED
    BY <2>1, Zenon DEF Prepare
<1>3. Records
  <2>1. rows[i] \in Row /\ tasks[i] \in Task
    BY Members DEF Typed
  <2>2. CASE Threw(i)
    BY <2>2, ThrewRecords
  <2>3. CASE ~Threw(i)
    <3>. DEFINE r == [rows[i] EXCEPT !.bound = TRUE]
    <3>. DEFINE t == [tasks[i] EXCEPT !.pc = "setup", !.launch = "reserved"]
    <3>1. /\ IsActive(i) /\ tasks[i].pc = "prepare"
          /\ rows' = [rows EXCEPT ![i].bound = TRUE]
          /\ tasks' = [tasks EXCEPT ![i].pc = "setup", ![i].launch = "reserved"]
      BY <2>3 DEF Prepare
    <3>2. r \in Row /\ t \in Task
      BY <2>1 DEF Row, Task
    <3>3. /\ r.key = rows[i].key /\ r.status = rows[i].status
          /\ r.occurrence = rows[i].occurrence /\ r.trigger = rows[i].trigger
          /\ r.until = rows[i].until /\ r.count = rows[i].count
      BY <2>1 DEF Row
    <3>4. Kept(rows[i], r)
      BY <3>1, <3>3 DEF Kept, IsActive, ActiveStatus, FinalStatus
    <3>5. rows' = [rows EXCEPT ![i] = r]
      BY <3>1
    <3>6. tasks' = [tasks EXCEPT ![i] = t]
      BY <3>1
    <3>7. tasks[i].pc \in NotYet
      BY <3>1 DEF NotYet
    <3>. HIDE DEF r, t
    <3>. QED
      BY <3>2, <3>3, <3>4, <3>5, <3>6, <3>7, OneRecord DEF Typed
  <2>. QED
    BY <2>2, <2>3
<1>. QED
  BY <1>1, <1>2, <1>3, CarriesOn

(* The session is not set up.                                               *)
LEMMA SetupFailsGood ==
  ASSUME Typed, NEW i \in DOMAIN rows, SetupFails(i)
  PROVE  Good
<1>1. UNCHANGED <<sched, unreleased, prompted, restOfDispatch>> /\ owned' = owned /\ Threw(i)
  BY DEF SetupFails
<1>2. owned' \in BOOLEAN
  BY <1>1, Types DEF Typed
<1>. QED
  BY <1>1, <1>2, ThrewRecords, CarriesOn

(* A run is handed back before its prompt is given.                         *)
LEMMA GiveBackGood ==
  ASSUME Typed, NEW i \in DOMAIN rows, GiveBack(i)
  PROVE  Good
<1>1. rows[i] \in Row /\ tasks[i] \in Task /\ sched \in Sched
  BY Members, Types DEF Typed
<1>2. UNCHANGED <<owned, unreleased, prompted, restOfDispatch>>
  BY DEF GiveBack
<1>3. Records
  <2>1. CASE Threw(i)
    BY <2>1, ThrewRecords
  <2>2. CASE ~Threw(i)
    <3>1. PICK t \in Task : tasks' = [tasks EXCEPT ![i] = t] /\ t.pc \notin NotYet
      BY <2>2, GivesUpIs DEF GiveBack
    <3>2. CASE rows' = rows
      <4>1. rows' = [rows EXCEPT ![i] = rows[i]]
        BY <3>2, Types DEF Typed
      <4>. QED
        BY <1>1, <3>1, <4>1, KeptSame, OneRecord DEF Typed
    <3>3. CASE rows' # rows
      <4>. DEFINE r == [rows[i] EXCEPT !.status = "skipped", !.key = @ /\ ~IsOneOff(i)]
      <4>1. /\ ~Spent(i) /\ tasks[i].pc = "setup" /\ prompted' = prompted
            /\ rows' = [rows EXCEPT ![i].status = "skipped", ![i].key = @ /\ ~IsOneOff(i)]
        BY <2>2, <3>3 DEF GiveBack
      <4>2. (rows[i].key /\ ~IsOneOff(i)) \in BOOLEAN
        OBVIOUS
      <4>3. r \in Row
        BY <1>1, <4>2 DEF Row, FinalStatus
      <4>4. r.status = "skipped" /\ r.occurrence = rows[i].occurrence /\ r.trigger = rows[i].trigger
            /\ r.until = rows[i].until /\ r.count = rows[i].count
        BY <1>1 DEF Row
      <4>5. r.key => rows[i].key
        BY <1>1 DEF Row
      <4>6. Kept(rows[i], r)
        BY <4>1, <4>4, <4>5 DEF Kept, Spent, IsActive, ActiveStatus, FinalStatus
      <4>7. rows' = [rows EXCEPT ![i] = r]
        BY <4>1
      <4>. HIDE DEF r
      <4>. QED
        BY <3>1, <4>1, <4>3, <4>4, <4>6, <4>7, OneRecord DEF Typed
    <3>. QED
      BY <3>2, <3>3
  <2>. QED
    BY <2>1, <2>2
<1>4. sched' \in Sched /\ sched'.runAt = sched.runAt /\ sched'.next = sched.next
  <2>1. \/ sched' = sched
        \/ sched' = [sched EXCEPT !.fired = NoRun, !.deferred = TRUE]
    BY Zenon DEF GiveBack, Rearmed
  <2>2. CASE sched' = sched
    BY <1>1, <2>2
  <2>3. CASE sched' = [sched EXCEPT !.fired = NoRun, !.deferred = TRUE]
    BY <1>1, <2>3 DEF Sched, NoRun
  <2>. QED
    BY <2>1, <2>2, <2>3
<1>5. TypeOK'
  BY <1>2, <1>3, <1>4, Types, Carries DEF Typed, restOfDispatch
<1>6. OnTimetable' /\ Prompts
  BY <1>2, <1>4 DEF Typed, OnTimetable, Prompts
<1>. QED
  BY <1>3, <1>5, <1>6 DEF Good, Typed

(* The prompt is given to a run that is active.                             *)
LEMMA DeliverGood ==
  ASSUME Typed, NEW i \in DOMAIN rows, Deliver(i)
  PROVE  Good
<1>. DEFINE t == [tasks[i] EXCEPT !.pc = "delivering", !.launch = "launched"]
<1>1. rows[i] \in Row /\ tasks[i] \in Task /\ sched \in Sched /\ rows \in Seq(Row)
  BY Members, Types DEF Typed
<1>2. /\ ~Spent(i) /\ prompted' = prompted \cup {i} /\ rows' = rows
      /\ UNCHANGED <<sched, owned, unreleased, restOfDispatch>>
      /\ tasks' = [tasks EXCEPT ![i].pc = "delivering", ![i].launch = "launched"]
  BY DEF Deliver
<1>3. t \in Task /\ t.pc = "delivering"
  BY <1>1 DEF Task
<1>4. tasks' = [tasks EXCEPT ![i] = t]
  BY <1>2
<1>5. rows' = [rows EXCEPT ![i] = rows[i]]
  BY <1>1, <1>2
<1>. HIDE DEF t
<1>6. Records /\ tasks'[i] = t
  <2>1. t.pc \notin NotYet
    BY <1>3 DEF NotYet
  <2>. QED
    BY <1>1, <1>3, <1>4, <1>5, <2>1, KeptSame, OneRecord DEF Typed
<1>7. prompted' \subseteq DOMAIN rows
  BY <1>2, Types DEF Typed
<1>8. TypeOK'
  BY <1>2, <1>6, <1>7, Types, Carries DEF Typed, restOfDispatch
<1>9. Prompts
  BY <1>2, <1>3, <1>6 DEF Prompts, Spent, IsActive
<1>10. OnTimetable'
  BY <1>2 DEF Typed, OnTimetable
<1>. QED
  BY <1>6, <1>8, <1>9, <1>10 DEF Good, Typed

(* The launch has been reported, or was rejected.                           *)
LEMMA DeliveredGood ==
  ASSUME Typed, NEW i \in DOMAIN rows, Delivered(i)
  PROVE  Good
<1>. DEFINE seen == IF tasks[i].launch = "launched" THEN Observed(rows, i, "running") ELSE rows
<1>1. rows \in Seq(Row) /\ rows[i] \in Row /\ tasks[i] \in Task
  BY Members, Types DEF Typed
<1>2. UNCHANGED <<sched, owned, unreleased, prompted, restOfDispatch>>
  BY DEF Delivered
<1>3. Records
  <2>1. CASE Threw(i)
    BY <2>1, ThrewRecords
  <2>2. CASE ~Threw(i)
    <3>1. /\ rows' = IF seen[i].status = "preparing" THEN Finished(seen, i, "running") ELSE seen
          /\ tasks' = [tasks EXCEPT ![i] = LeftOver("release", @.launch)]
      BY <2>2 DEF Delivered
    <3>2. PICK r \in Row : seen = [rows EXCEPT ![i] = r] /\ r.key = rows[i].key /\ Kept(rows[i], r)
      <4>1. seen \in {Finished(rows, i, "running"), Observed(rows, i, "running"), rows}
        OBVIOUS
      <4>. QED
        BY <1>1, <4>1, FinishedIs DEF ActiveStatus
    <3>. HIDE DEF seen
    <3>3. PICK mid \in Seq(Row) : mid = seen
      <4>1. seen \in Seq(Row)
        BY <1>1, <3>2, Replaced
      <4>. QED
        BY <4>1
    <3>4. i \in DOMAIN mid /\ mid[i] = r
      BY <1>1, <3>2, <3>3, Replaced
    <3>5. PICK s \in Row : rows' = [mid EXCEPT ![i] = s] /\ s.key = mid[i].key /\ Kept(mid[i], s)
      <4>1. rows' \in {Finished(mid, i, "running"), Observed(mid, i, "running"), mid}
        BY <3>1, <3>3
      <4>2. i \in DOMAIN mid /\ "running" \in ActiveStatus \cup FinalStatus
        BY <3>4 DEF ActiveStatus
      <4>3. \A out \in {Finished(mid, i, "running"), Observed(mid, i, "running"), mid} :
              \E s \in Row : out = [mid EXCEPT ![i] = s] /\ s.key = mid[i].key /\ Kept(mid[i], s)
        BY <4>2, FinishedIs, SMTT(30)
      <4>. QED
        BY <4>1, <4>3, Zenon
    <3>6. rows' = [rows EXCEPT ![i] = s]
      BY <1>1, <3>2, <3>3, <3>5
    <3>7. s.key = rows[i].key /\ Kept(rows[i], s)
      BY <3>2, <3>4, <3>5 DEF Kept
    <3>8. LeftOver("release", tasks[i].launch) \in Task
      BY <1>1, LeftOverTyped DEF Task
    <3>9. LeftOver("release", tasks[i].launch).pc \notin NotYet
      BY DEF LeftOver, NotYet
    <3>10. tasks' = [tasks EXCEPT ![i] = LeftOver("release", tasks[i].launch)]
      BY <3>1
    <3>. QED
      BY <3>6, <3>7, <3>8, <3>9, <3>10, OneRecord DEF Typed
  <2>. QED
    BY <2>1, <2>2
<1>4. owned' \in BOOLEAN
  BY <1>2, Types DEF Typed
<1>. QED
  BY <1>2, <1>3, <1>4, CarriesOn

(* The end of a dispatch.                                                   *)
LEMMA ReleaseAfterGood ==
  ASSUME Typed, NEW i \in DOMAIN rows, ReleaseAfter(i)
  PROVE  Good
<1>. DEFINE t == [tasks[i] EXCEPT !.pc = "ended"]
<1>1. rows \in Seq(Row) /\ rows[i] \in Row /\ tasks[i] \in Task
  BY Members, Types DEF Typed
<1>2. /\ tasks' = [tasks EXCEPT ![i].pc = "ended"]
      /\ UNCHANGED <<sched, rows, prompted, now, up, fault, cancelling, releasing, base, offered, edits>>
  BY DEF ReleaseAfter
<1>3. t \in Task /\ t.pc = "ended"
  BY <1>1 DEF Task
<1>4. tasks' = [tasks EXCEPT ![i] = t]
  BY <1>2
<1>5. rows' = [rows EXCEPT ![i] = rows[i]]
  BY <1>1, <1>2
<1>. HIDE DEF t
<1>6. Records
  <2>1. t.pc \notin NotYet
    BY <1>3 DEF NotYet
  <2>. QED
    BY <1>1, <1>3, <1>4, <1>5, <2>1, KeptSame, OneRecord DEF Typed
<1>7. owned' \in BOOLEAN /\ unreleased' \in BOOLEAN /\ faults' \in Nat
  <2>1. owned \in BOOLEAN /\ unreleased \in BOOLEAN /\ faults \in Nat
    BY Types DEF Typed
  <2>2. owned' \in BOOLEAN /\ unreleased' \in BOOLEAN
    BY <2>1, Zenon DEF ReleaseAfter, ReleaseDeleted
  <2>3. faults' = faults \/ faults' = faults + 1
    BY DEF ReleaseAfter, ReleaseDeleted
  <2>. QED
    BY <2>1, <2>2, <2>3
<1>8. TypeOK'
  BY <1>2, <1>6, <1>7, Types, Carries DEF Typed
<1>9. OnTimetable' /\ Prompts
  BY <1>2 DEF Typed, OnTimetable, Prompts
<1>. QED
  BY <1>6, <1>8, <1>9 DEF Good, Typed

(* A task whose session is over or called off is a task.                    *)
LEMMA TaskWith ==
  ASSUME NEW t \in Task, NEW c \in BOOLEAN, NEW l \in {"none", "reserved", "launched", "over"}
  PROVE  /\ [t EXCEPT !.cancelled = c, !.launch = l] \in Task
         /\ [t EXCEPT !.cancelled = c, !.launch = l].pc = t.pc
         /\ [t EXCEPT !.launch = l] \in Task
         /\ [t EXCEPT !.launch = l].pc = t.pc
BY DEF Task

(* A report of the agent, or the end of its session.                        *)
LEMMA SessionReportsGood ==
  ASSUME Typed, NEW i \in DOMAIN rows, NEW status \in {"running", "done", "interrupted"},
         SessionReports(i, status)
  PROVE  Good
<1>1. rows \in Seq(Row) /\ rows[i] \in Row /\ tasks[i] \in Task
  BY Members, Types DEF Typed
<1>2. UNCHANGED <<sched, owned, unreleased, prompted, restOfDispatch>> /\ rows' = Observed(rows, i, status)
  BY DEF SessionReports
<1>3. PICK r \in Row : rows' = [rows EXCEPT ![i] = r] /\ r.key = rows[i].key /\ Kept(rows[i], r)
  <2>1. rows' \in {Finished(rows, i, status), Observed(rows, i, status), rows}
    BY <1>2
  <2>. QED
    BY <1>1, <2>1, FinishedIs DEF ActiveStatus, FinalStatus
<1>4. PICK c \in BOOLEAN, l \in {"none", "reserved", "launched", "over"} :
        tasks' = [tasks EXCEPT ![i] = [tasks[i] EXCEPT !.cancelled = c, !.launch = l]]
  <2>1. PICK calledOff :
          tasks' = [tasks EXCEPT ![i].cancelled = @ \/ calledOff,
                                 ![i].launch = IF status \in FinalStatus THEN "over" ELSE @]
    BY DEF SessionReports
  <2>. DEFINE c == tasks[i].cancelled \/ calledOff
  <2>. DEFINE l == IF status \in FinalStatus THEN "over" ELSE tasks[i].launch
  <2>2. c \in BOOLEAN
    OBVIOUS
  <2>3. l \in {"none", "reserved", "launched", "over"}
    BY <1>1 DEF Task
  <2>4. tasks' = [tasks EXCEPT ![i] = [tasks[i] EXCEPT !.cancelled = c, !.launch = l]]
    BY <2>1
  <2>. HIDE DEF c, l
  <2>. QED
    BY <2>2, <2>3, <2>4
<1>5. Records
  BY <1>1, <1>3, <1>4, TaskWith, OneRecord DEF Typed
<1>6. owned' \in BOOLEAN
  BY <1>2, Types DEF Typed
<1>. QED
  BY <1>2, <1>5, <1>6, CarriesOn

(* stop(), up to its wait for the session.                                  *)
LEMMA StopGood ==
  ASSUME Typed, NEW i \in DOMAIN rows, Stop(i)
  PROVE  Good
<1>1. rows \in Seq(Row) /\ rows[i] \in Row /\ tasks[i] \in Task /\ tasks \in Seq(Task)
      /\ i \in DOMAIN tasks
  BY Members, Types DEF Typed
<1>2. UNCHANGED <<now, sched, owned, up, fault, releasing, unreleased, history, edits, faults>>
  BY DEF Stop
<1>3. Records /\ cancelling' \subseteq DOMAIN rows
  <2>1. CASE ~rows[i].bound
    <3>1. rows' = Finished(rows, i, "interrupted") /\ tasks' = tasks /\ cancelling' = cancelling
      BY <2>1 DEF Stop
    <3>2. PICK r \in Row : rows' = [rows EXCEPT ![i] = r] /\ r.key = rows[i].key /\ Kept(rows[i], r)
      <4>1. rows' \in {Finished(rows, i, "interrupted"), Observed(rows, i, "interrupted"), rows}
        BY <3>1
      <4>. QED
        BY <1>1, <4>1, FinishedIs DEF FinalStatus
    <3>3. tasks' = [tasks EXCEPT ![i] = tasks[i]]
      BY <1>1, <3>1
    <3>. QED
      BY <1>1, <3>1, <3>2, <3>3, OneRecord, Types DEF Typed
  <2>2. CASE rows[i].bound
    <3>. DEFINE c == \/ tasks[i].cancelled
                     \/ tasks[i].launch # "over" /\ tasks[i].pc \in {"setup", "delivering"}
    <3>1. /\ rows' = rows /\ cancelling' = cancelling \cup {i}
          /\ tasks' = [tasks EXCEPT ![i].launch = "over",
                          ![i].cancelled = @ \/ (tasks[i].launch # "over"
                                                 /\ tasks[i].pc \in {"setup", "delivering"})]
      BY <2>2 DEF Stop
    <3>2. c \in BOOLEAN
      OBVIOUS
    <3>3. tasks' = [tasks EXCEPT ![i] = [tasks[i] EXCEPT !.cancelled = c, !.launch = "over"]]
      BY <1>1, <3>1 DEF Task
    <3>. HIDE DEF c
    <3>4. PICK t \in Task : tasks' = [tasks EXCEPT ![i] = t] /\ t.pc = tasks[i].pc
      BY <1>1, <3>2, <3>3, TaskWith
    <3>5. rows' = [rows EXCEPT ![i] = rows[i]]
      BY <1>1, <3>1
    <3>6. Records
      BY <1>1, <3>4, <3>5, KeptSame, OneRecord DEF Typed
    <3>. QED
      BY <3>1, <3>6, Types DEF Typed
  <2>. QED
    BY <2>1, <2>2
<1>4. TypeOK'
  BY <1>2, <1>3, Types, Carries DEF Typed, history
<1>5. OnTimetable' /\ Prompts
  BY <1>2 DEF Typed, OnTimetable, Prompts, history
<1>. QED
  BY <1>3, <1>4, <1>5 DEF Good, Typed

(* The end of stop().                                                       *)
LEMMA StopEndsGood ==
  ASSUME Typed, NEW i \in DOMAIN rows, StopEnds(i)
  PROVE  Good
<1>1. rows \in Seq(Row) /\ rows[i] \in Row /\ tasks[i] \in Task /\ tasks \in Seq(Task)
      /\ i \in DOMAIN tasks
  BY Members, Types DEF Typed
<1>2. /\ UNCHANGED <<now, sched, owned, up, fault, tasks, releasing, unreleased, history, edits, faults>>
      /\ cancelling' = cancelling \ {i}
  BY DEF StopEnds
<1>3. Records
  <2>1. PICK r \in Row : rows' = [rows EXCEPT ![i] = r] /\ r.key = rows[i].key /\ Kept(rows[i], r)
    <3>1. rows' \in {Finished(rows, i, "interrupted"), Observed(rows, i, "interrupted"), rows}
      BY DEF StopEnds
    <3>. QED
      BY <1>1, <3>1, FinishedIs DEF FinalStatus
  <2>2. tasks' = [tasks EXCEPT ![i] = tasks[i]]
    BY <1>1, <1>2
  <2>. QED
    BY <1>1, <2>1, <2>2, OneRecord DEF Typed
<1>4. TypeOK'
  BY <1>2, <1>3, Types, Carries DEF Typed, history
<1>5. OnTimetable' /\ Prompts
  BY <1>2 DEF Typed, OnTimetable, Prompts, history
<1>. QED
  BY <1>3, <1>4, <1>5 DEF Good, Typed

(* Every active run is interrupted at once, or every task ended.            *)
LEMMA AllRecords ==
  ASSUME Typed,
         \/ rows' = rows
         \/ rows' = [i \in DOMAIN rows |->
                       IF IsActive(i) THEN [rows[i] EXCEPT !.status = "interrupted"] ELSE rows[i]],
         \/ tasks' = tasks
         \/ tasks' = [i \in DOMAIN tasks |-> LeftOver("ended", "over")]
         \/ tasks' = [i \in DOMAIN tasks |->
                        IF tasks[i].launch = "none" THEN tasks[i]
                        ELSE [tasks[i] EXCEPT !.launch = "over"]]
  PROVE  Records
<1>1. /\ rows \in Seq(Row) /\ tasks \in Seq(Task) /\ Len(tasks) = Len(rows)
      /\ DOMAIN tasks = DOMAIN rows /\ DOMAIN rows = 1..Len(rows)
  BY Types DEF Typed
<1>2. ASSUME NEW i \in DOMAIN rows
      PROVE  /\ [rows[i] EXCEPT !.status = "interrupted"] \in Row
             /\ [rows[i] EXCEPT !.status = "interrupted"].key = rows[i].key
             /\ IsActive(i) => Kept(rows[i], [rows[i] EXCEPT !.status = "interrupted"])
  <2>. DEFINE r == [rows[i] EXCEPT !.status = "interrupted"]
  <2>1. rows[i] \in Row
    BY <1>1
  <2>2. r \in Row
    BY <2>1, StatusTyped DEF FinalStatus
  <2>3. /\ r.key = rows[i].key /\ r.status = "interrupted"
        /\ r.occurrence = rows[i].occurrence /\ r.trigger = rows[i].trigger
        /\ r.until = rows[i].until /\ r.count = rows[i].count
    BY <2>1 DEF Row
  <2>. HIDE DEF r
  <2>4. IsActive(i) => Kept(rows[i], r)
    BY <2>3 DEF IsActive, Kept, ActiveStatus, FinalStatus
  <2>. QED
    BY <2>2, <2>3, <2>4 DEF r
<1>3. DOMAIN rows' = DOMAIN rows /\ \A i \in DOMAIN rows :
         \/ rows'[i] = rows[i]
         \/ IsActive(i) /\ rows'[i] = [rows[i] EXCEPT !.status = "interrupted"]
  BY Zenon
<1>4. /\ rows' \in Seq(Row) /\ Len(rows') = Len(rows)
      /\ \A i \in DOMAIN rows : i \in DOMAIN rows' /\ Kept(rows[i], rows'[i]) /\ Claims(i)
  <2>1. \A i \in DOMAIN rows : rows'[i] \in Row /\ Kept(rows[i], rows'[i]) /\ rows'[i].key = rows[i].key
    <3>1. SUFFICES ASSUME NEW i \in DOMAIN rows
                   PROVE  rows'[i] \in Row /\ Kept(rows[i], rows'[i]) /\ rows'[i].key = rows[i].key
      OBVIOUS
    <3>2. CASE rows'[i] = rows[i]
      BY <1>1, <3>2, KeptSame
    <3>3. CASE rows'[i] # rows[i]
      BY <1>2, <1>3, <3>3, Zenon
    <3>. QED
      BY <3>2, <3>3
  <2>2. rows' \in Seq(Row) /\ Len(rows') = Len(rows)
    <3>1. CASE rows' = rows
      BY <1>1, <3>1
    <3>2. CASE rows' # rows
      <4>1. rows' = [k \in 1..Len(rows) |-> rows'[k]]
        BY <1>1, <3>2
      <4>2. rows' \in [1..Len(rows) -> Row]
        BY <1>1, <2>1, <4>1
      <4>. QED
        BY <1>1, <4>2
    <3>. QED
      BY <3>1, <3>2
  <2>. QED
    BY <1>3, <2>1, <2>2, Zenon DEF Claims
<1>5. tasks' \in Seq(Task) /\ Len(tasks') = Len(tasks)
      /\ \A i \in DOMAIN tasks : tasks'[i].pc \in NotYet => tasks[i].pc \in NotYet
  <2>1. CASE tasks' = tasks
    BY <1>1, <2>1
  <2>2. CASE tasks' # tasks
    <3>1. DOMAIN tasks' = 1..Len(tasks) /\ tasks' = [k \in 1..Len(tasks) |-> tasks'[k]]
      BY <1>1, <2>2
    <3>2. ASSUME NEW i \in DOMAIN tasks
          PROVE  tasks'[i] \in Task /\ (tasks'[i].pc \in NotYet => tasks[i].pc \in NotYet)
      <4>1. tasks[i] \in Task
        BY <1>1
      <4>2. \/ tasks'[i] = tasks[i] \/ tasks'[i] = LeftOver("ended", "over")
            \/ tasks'[i] = [tasks[i] EXCEPT !.launch = "over"]
        BY Zenon
      <4>3. LeftOver("ended", "over") \in Task /\ LeftOver("ended", "over").pc \notin NotYet
        BY LeftOverTyped DEF LeftOver, NotYet
      <4>4. [tasks[i] EXCEPT !.launch = "over"] \in Task /\ [tasks[i] EXCEPT !.launch = "over"].pc = tasks[i].pc
        BY <4>1, TaskWith
      <4>. QED
        BY <4>1, <4>2, <4>3, <4>4
    <3>3. tasks' \in [1..Len(tasks) -> Task]
      BY <1>1, <3>1, <3>2
    <3>. QED
      BY <1>1, <3>2, <3>3
  <2>. QED
    BY <2>1, <2>2
<1>6. Added
  BY <1>4, AddedNone DEF Typed
<1>7. Len(tasks') = Len(rows')
  BY <1>1, <1>4, <1>5
<1>. QED
  BY <1>1, <1>4, <1>5, <1>6, <1>7, Zenon DEF Records

(* What ends every run at once.                                             *)
LEMMA AllGood ==
  ASSUME Typed, InterruptProject \/ Crash \/ Restart
  PROVE  Good
<1>. USE DEF Typed
<1>1. CASE InterruptProject
  <2>1. Records
    BY <1>1, AllRecords DEF InterruptProject
  <2>2. TypeOK'
    BY <1>1, <2>1, Types, Carries DEF InterruptProject, history
  <2>3. OnTimetable' /\ Prompts
    BY <1>1 DEF InterruptProject, OnTimetable, Prompts, history
  <2>. QED
    BY <2>1, <2>2, <2>3 DEF Good
<1>2. CASE Crash
  <2>1. Records
    BY <1>2, AllRecords DEF Crash, stored
  <2>2. faults' \in Nat /\ cancelling' \subseteq DOMAIN rows
    BY <1>2, Types DEF Crash
  <2>3. up' \in BOOLEAN /\ fault' \in BOOLEAN /\ releasing' \in Cleanup /\ unreleased' \in BOOLEAN
    BY <1>2 DEF Crash, Cleanup
  <2>4. TypeOK'
    BY <1>2, <2>1, <2>2, <2>3, Types, Carries DEF Crash, history, stored
  <2>5. OnTimetable' /\ Prompts
    BY <1>2 DEF Crash, OnTimetable, Prompts, history, stored
  <2>. QED
    BY <2>1, <2>4, <2>5 DEF Good
<1>3. CASE Restart
  <2>1. Records
    BY <1>3, AllRecords DEF Restart
  <2>2. up' \in BOOLEAN /\ releasing' \in Cleanup
    BY <1>3 DEF Restart, Cleanup
  <2>3. TypeOK'
    BY <1>3, <2>1, <2>2, Types, Carries DEF Restart, history
  <2>4. OnTimetable' /\ Prompts
    BY <1>3 DEF Restart, OnTimetable, Prompts, history
  <2>. QED
    BY <2>1, <2>3, <2>4 DEF Good
<1>. QED
  BY <1>1, <1>2, <1>3

-----------------------------------------------------------------------------
(* Every step, and the invariants it keeps.                                 *)

(* Every step of the scheduler.                                             *)
LEMMA NextGood ==
  ASSUME Typed, [Next]_vars
  PROVE  Good
<1>1. CASE UNCHANGED vars
  <2>1. /\ UNCHANGED <<rows, tasks>> /\ UNCHANGED <<sched, unreleased, prompted, restOfDispatch>>
        /\ owned' = owned
    BY <1>1 DEF vars, stored, memory, history, restOfDispatch
  <2>2. owned' \in BOOLEAN
    BY <2>1, Types DEF Typed
  <2>. QED
    BY <2>1, <2>2, IdleRecords, CarriesOn DEF Typed
<1>2. CASE User
  <2>1. sched.ask \in Asks /\ sched.runAt \in Nat /\ sched.enabled \in BOOLEAN /\ sched.catchUp \in Policies
    BY Types DEF Typed, Sched
  <2>2. (~sched.enabled) \in BOOLEAN
    OBVIOUS
  <2>3. CASE Patch
    <3>1. PICK ask \in Asks, runAt \in Nat, enabled \in BOOLEAN, catchUp \in Policies :
            Update(ask, runAt, enabled, catchUp)
      BY <2>1, <2>2, <2>3, SchedulerAssumption DEF Patch
    <3>. QED
      BY <3>1, UpdateGood
  <2>4. CASE RunNow
    BY <2>4, RunNowGood
  <2>5. CASE InterruptProject
    BY <2>5, AllGood
  <2>6. CASE \/ \E runAt \in Instants, c \in Policies, e \in BOOLEAN : Create(runAt, c, e)
             \/ Retime \/ Delete
    BY <2>6, IdleGood
  <2>. QED
    BY <1>2, <2>3, <2>4, <2>5, <2>6 DEF User
<1>3. CASE Release \/ StorageFails \/ TimePasses
  BY <1>3, IdleGood
<1>4. CASE TickOneOff
  BY <1>4, TickOneOffGood
<1>5. CASE TickRecurring
  BY <1>5, TickRecurringGood
<1>6. CASE Crash \/ Restart
  BY <1>6, AllGood
<1>7. ASSUME NEW i \in DOMAIN rows, Dispatch(i)
      PROVE  Good
  BY <1>7, PrepareGood, SetupFailsGood, GiveBackGood, DeliverGood, DeliveredGood, ReleaseAfterGood
     DEF Dispatch
<1>8. ASSUME NEW i \in DOMAIN rows,
             \/ \E s \in {"running", "done", "interrupted"} : SessionReports(i, s)
             \/ Stop(i) \/ StopEnds(i)
      PROVE  Good
  BY <1>8, SessionReportsGood, StopGood, StopEndsGood
<1>. QED
  BY <1>1, <1>2, <1>3, <1>4, <1>5, <1>6, <1>7, <1>8 DEF Next

(* The claims of two records are of two occurrences.                        *)
KeyOnce ==
  \A i, j \in DOMAIN rows :
    rows[i].key /\ rows[j].key /\ rows[i].occurrence = rows[j].occurrence => i = j

(* A record of the timetable without a claim was handed back unprompted.    *)
HandedBack ==
  \A i \in DOMAIN rows :
    rows[i].trigger # "manual" /\ ~rows[i].key => rows[i].status = "skipped" /\ i \notin prompted

(* No prompt is given before the session is set up.                         *)
Unprompted == \A i \in DOMAIN rows : tasks[i].pc \in NotYet => i \notin prompted

(* What every step keeps: OccurrenceOnce rests on the claims, and that a   *)
(* claim is given up before the prompt rests on the order of a dispatch.   *)
IInv == Typed /\ OneActiveRun /\ KeyOnce /\ HandedBack /\ Unprompted

(* The invariant holds at first.                                            *)
LEMMA InitIInv ==
  ASSUME Init
  PROVE  IInv
<1>1. DOMAIN rows = {} /\ rows \in Seq(Row) /\ tasks \in Seq(Task) /\ Len(tasks) = Len(rows)
  BY DEF Init
<1>2. sched \in Sched /\ sched.next = 0
  BY FirstAskTyped DEF Init, Sched, Recurring, NoRun, Policies
<1>3. OnTimetable
  <2>1. 0 \in Nat /\ 0 * Period = 0
    BY SchedulerAssumption
  <2>. QED
    BY <1>2, <2>1 DEF OnTimetable
<1>4. TypeOK
  <2>1. {up, fault, owned, unreleased} \subseteq BOOLEAN /\ releasing \in Cleanup
    BY DEF Init, Cleanup
  <2>2. {cancelling, prompted} \subseteq SUBSET DOMAIN rows /\ offered \subseteq Nat
    BY <1>1 DEF Init
  <2>3. now \in Nat /\ base \in Nat /\ {edits, faults} \subseteq Nat
    BY DEF Init
  <2>. QED
    BY <1>1, <1>2, <2>1, <2>2, <2>3 DEF TypeOK
<1>. QED
  BY <1>1, <1>3, <1>4 DEF IInv, Typed, OneActiveRun, KeyOnce, HandedBack, Unprompted

(* Facts about the new records, by their place.                             *)
LEMMA NewRecords ==
  ASSUME TypeOK, Records
  PROVE  /\ \A k \in DOMAIN rows' : k \notin DOMAIN rows =>
              /\ rows'[k].status \in ActiveStatus =>
                   /\ ~Busy
                   /\ \A l \in DOMAIN rows' : l \notin DOMAIN rows /\ l # k =>
                        rows'[l].status \notin ActiveStatus
              /\ rows'[k].trigger # "manual" => rows'[k].key
              /\ rows'[k].key =>
                   /\ ~Claimed(rows'[k].occurrence)
                   /\ \A l \in DOMAIN rows' : l \notin DOMAIN rows /\ l # k /\ rows'[l].key =>
                        rows'[l].occurrence # rows'[k].occurrence
<1>1. PICK new \in Seq(Row) :
        /\ Fresh(new)
        /\ \A k \in DOMAIN rows' : k \notin DOMAIN rows =>
             /\ k - Len(rows) \in DOMAIN new /\ rows'[k] = new[k - Len(rows)]
             /\ tasks'[k] = IF new[k - Len(rows)].status = "preparing" THEN Dispatched
                            ELSE LeftOver("ended", "over")
  BY Zenon DEF Records, Added
<1>2. Len(rows) \in Nat /\ rows' \in Seq(Row) /\ DOMAIN rows' \subseteq Nat
  <2>1. rows' \in Seq(Row)
    BY Zenon DEF Records
  <2>2. rows \in Seq(Row)
    BY Types
  <2>. QED
    BY <2>1, <2>2
<1>3. \A k, l \in DOMAIN rows' : k # l => k - Len(rows) # l - Len(rows)
  BY <1>2
<1>4. SUFFICES ASSUME NEW k \in DOMAIN rows', k \notin DOMAIN rows
      PROVE  /\ rows'[k].status \in ActiveStatus =>
                   /\ ~Busy
                   /\ \A l \in DOMAIN rows' : l \notin DOMAIN rows /\ l # k =>
                        rows'[l].status \notin ActiveStatus
             /\ rows'[k].trigger # "manual" => rows'[k].key
             /\ rows'[k].key =>
                   /\ ~Claimed(rows'[k].occurrence)
                   /\ \A l \in DOMAIN rows' : l \notin DOMAIN rows /\ l # k /\ rows'[l].key =>
                        rows'[l].occurrence # rows'[k].occurrence
  BY Zenon
<1>5. k - Len(rows) \in DOMAIN new /\ rows'[k] = new[k - Len(rows)]
  BY <1>1, <1>4
<1>6. \A l \in DOMAIN rows' : l \notin DOMAIN rows /\ l # k =>
        l - Len(rows) \in DOMAIN new \ {k - Len(rows)} /\ rows'[l] = new[l - Len(rows)]
  BY <1>1, <1>3
<1>7. Fresh(new)
  BY <1>1
<1>. QED
  BY <1>5, <1>6, <1>7, Zenon DEF Fresh

(* And every step keeps it.                                                 *)
LEMMA NextIInv ==
  ASSUME IInv, [Next]_vars
  PROVE  IInv'
<1>1. Typed' /\ Records /\ Prompts /\ TypeOK
  BY NextGood DEF IInv, Good, Typed
<1>2. \A k \in DOMAIN rows : k \in DOMAIN rows' /\ Kept(rows[k], rows'[k]) /\ Claims(k)
  BY <1>1, Zenon DEF Records
<1>3. OneActiveRun'
  <2>1. SUFFICES ASSUME NEW i \in DOMAIN rows', NEW j \in DOMAIN rows',
                        rows'[i].status \in ActiveStatus, rows'[j].status \in ActiveStatus
                 PROVE  i = j
    BY DEF OneActiveRun, IsActive
  <2>2. CASE i \in DOMAIN rows /\ j \in DOMAIN rows
    BY <1>2, <2>1, <2>2, Zenon DEF IInv, OneActiveRun, IsActive, Kept
  <2>3. CASE i \notin DOMAIN rows
    BY <1>1, <1>2, <2>1, <2>3, NewRecords, Zenon DEF Busy, IsActive, Kept
  <2>4. CASE j \notin DOMAIN rows
    BY <1>1, <1>2, <2>1, <2>4, NewRecords, Zenon DEF Busy, IsActive, Kept
  <2>. QED
    BY <2>2, <2>3, <2>4
<1>4. KeyOnce'
  <2>1. SUFFICES ASSUME NEW i \in DOMAIN rows', NEW j \in DOMAIN rows',
                        rows'[i].key, rows'[j].key, rows'[i].occurrence = rows'[j].occurrence
                 PROVE  i = j
    BY DEF KeyOnce
  <2>2. CASE i \in DOMAIN rows /\ j \in DOMAIN rows
    BY <1>2, <2>1, <2>2, Zenon DEF IInv, KeyOnce, Kept
  <2>3. CASE i \notin DOMAIN rows
    <3>1. /\ ~Claimed(rows'[i].occurrence)
          /\ j \notin DOMAIN rows /\ j # i => rows'[j].occurrence # rows'[i].occurrence
      BY <1>1, <2>1, <2>3, NewRecords, Zenon
    <3>2. j \in DOMAIN rows => rows[j].key /\ rows[j].occurrence = rows'[j].occurrence
      BY <1>2, <2>1, Zenon DEF Kept
    <3>3. j \notin DOMAIN rows
      BY <2>1, <3>1, <3>2, Zenon DEF Claimed
    <3>. QED
      BY <2>1, <3>1, <3>3
  <2>4. CASE j \notin DOMAIN rows
    <3>1. /\ ~Claimed(rows'[j].occurrence)
          /\ i \notin DOMAIN rows /\ i # j => rows'[i].occurrence # rows'[j].occurrence
      BY <1>1, <2>1, <2>4, NewRecords, Zenon
    <3>2. i \in DOMAIN rows => rows[i].key /\ rows[i].occurrence = rows'[i].occurrence
      BY <1>2, <2>1, Zenon DEF Kept
    <3>3. i \notin DOMAIN rows
      BY <2>1, <3>1, <3>2, Zenon DEF Claimed
    <3>. QED
      BY <2>1, <3>1, <3>3
  <2>. QED
    BY <2>2, <2>3, <2>4
<1>5. prompted' \subseteq DOMAIN rows
  BY <1>1, Types DEF Prompts
<1>6. HandedBack'
  <2>1. SUFFICES ASSUME NEW k \in DOMAIN rows', rows'[k].trigger # "manual", ~rows'[k].key
                 PROVE  rows'[k].status = "skipped" /\ k \notin prompted'
    BY DEF HandedBack
  <2>2. CASE k \notin DOMAIN rows
    BY <1>1, <2>1, <2>2, NewRecords, Zenon
  <2>3. CASE k \in DOMAIN rows /\ ~rows[k].key
    <3>1. rows[k].trigger # "manual" /\ (rows[k].status \in FinalStatus => rows'[k] = rows[k])
      BY <1>2, <2>1, <2>3, Zenon DEF Kept
    <3>2. rows[k].status = "skipped" /\ k \notin prompted
      BY <2>3, <3>1, Zenon DEF IInv, HandedBack
    <3>3. rows'[k].status = "skipped" /\ rows'[k].status \notin ActiveStatus
      BY <3>1, <3>2 DEF FinalStatus, ActiveStatus
    <3>. QED
      BY <1>1, <3>2, <3>3, Zenon DEF Prompts
  <2>4. CASE k \in DOMAIN rows /\ rows[k].key
    <3>1. rows'[k].status = "skipped" /\ tasks[k].pc = "setup" /\ prompted' = prompted
      BY <1>2, <2>1, <2>4, Zenon DEF Claims
    <3>2. k \notin prompted
      BY <2>4, <3>1 DEF IInv, Unprompted, NotYet
    <3>. QED
      BY <3>1, <3>2
  <2>. QED
    BY <2>2, <2>3, <2>4
<1>7. Unprompted'
  <2>1. SUFFICES ASSUME NEW k \in DOMAIN rows', tasks'[k].pc \in NotYet
                 PROVE  k \notin prompted'
    BY DEF Unprompted, NotYet
  <2>2. CASE k \notin DOMAIN rows
    BY <1>5, <2>2
  <2>3. CASE k \in DOMAIN rows
    <3>1. tasks[k].pc \in NotYet
      BY <1>1, <2>1, <2>3, Zenon DEF Records
    <3>2. k \notin prompted
      BY <2>3, <3>1 DEF IInv, Unprompted
    <3>3. tasks'[k].pc # "delivering"
      BY <2>1 DEF NotYet
    <3>. QED
      BY <1>1, <3>2, <3>3, Zenon DEF Prompts
  <2>. QED
    BY <2>2, <2>3
<1>. QED
  BY <1>1, <1>3, <1>4, <1>6, <1>7 DEF IInv

(* The inductive invariant holds of every behaviour of the scheduler.       *)
THEOREM IInvHolds == Spec => []IInv
BY InitIInv, NextIInv, PTL DEF Spec

(* The records and the tasks of the scheduler have their types, and there  *)
(* is a task for every record.                                             *)
THEOREM TypeCorrect == Spec => []TypeOK
<1>1. IInv => TypeOK
  BY DEF IInv, Typed
<1>. QED
  BY <1>1, IInvHolds, PTL

(* claim()'s overlap rule: whatever ticks, runs of the user, edits, stops, *)
(* storage failures and restarts come, one run is active at most.          *)
THEOREM OneActiveRunHolds == Spec => []OneActiveRun
<1>1. IInv => OneActiveRun
  BY DEF IInv
<1>. QED
  BY <1>1, IInvHolds, PTL

(* claim(), rearm() and the restart pass: an occurrence is run once, for   *)
(* any timetable and any number of edits, stops and restarts.              *)
THEOREM OccurrenceOnceHolds == Spec => []OccurrenceOnce
<1>1. ASSUME IInv
      PROVE  OccurrenceOnce
  <2>1. SUFFICES ASSUME NEW i \in DOMAIN rows, NEW j \in DOMAIN rows, i # j,
                        rows[i].trigger # "manual", rows[j].trigger # "manual",
                        rows[i].occurrence = rows[j].occurrence
                 PROVE  \E k \in {i, j} : rows[k].status = "skipped" /\ k \notin prompted
    BY DEF OccurrenceOnce
  <2>2. ~rows[i].key \/ ~rows[j].key
    BY <1>1, <2>1, Zenon DEF IInv, KeyOnce
  <2>. QED
    BY <1>1, <2>1, <2>2, Zenon DEF IInv, HandedBack
<1>. QED
  BY <1>1, IInvHolds, PTL

(* finish() and the restart pass: a run that has ended keeps its record,   *)
(* whoever reports, stops or gives it back later.                          *)
THEOREM TerminalIsFinalHolds == Spec => TerminalIsFinal
<1>1. ASSUME IInv, [Next]_vars
      PROVE  [\A i \in DOMAIN rows : rows[i].status \in FinalStatus => rows'[i] = rows[i]]_vars
  <2>1. Records
    BY <1>1, NextGood DEF IInv, Good
  <2>. QED
    BY <2>1, Zenon DEF Records, Kept
<1>. QED
  BY <1>1, IInvHolds, PTL DEF Spec, TerminalIsFinal

-----------------------------------------------------------------------------
(* Who is left to end an active run.                                        *)

(* A session that is held for a run, and the record that names it.          *)
Lives(t) == t.launch \in {"reserved", "launched"} \/ t.pc \in {"setup", "delivering"}

BoundFirst == \A i \in DOMAIN rows : Lives(tasks[i]) => rows[i].bound

(* Stronger than ActiveIsAttended: a dispatch that is delivering is left   *)
(* out, its session has to be there.                                       *)
Tended(i) == tasks[i].pc \in NotYet \/ tasks[i].launch = "launched" \/ i \in cancelling

Attended == Executable => \A i \in DOMAIN rows : IsActive(i) => Tended(i)

AInv == IInv /\ BoundFirst /\ Attended

(* A new record has no session yet, and its dispatch if it is active.       *)
LEMMA NewTended ==
  ASSUME TypeOK, Records, NEW k \in DOMAIN rows', k \notin DOMAIN rows
  PROVE  /\ ~Lives(tasks'[k])
         /\ rows'[k].status \in ActiveStatus => tasks'[k].pc \in NotYet
<1>1. PICK new \in Seq(Row) :
        /\ Fresh(new)
        /\ k - Len(rows) \in DOMAIN new /\ rows'[k] = new[k - Len(rows)]
        /\ tasks'[k] = IF new[k - Len(rows)].status = "preparing" THEN Dispatched
                       ELSE LeftOver("ended", "over")
  BY Zenon DEF Records, Added
<1>2. rows'[k].status # "running"
  BY <1>1, Zenon DEF Fresh
<1>3. CASE rows'[k].status = "preparing"
  <2>1. tasks'[k] = Dispatched
    BY <1>1, <1>3, Zenon
  <2>. QED
    BY <2>1 DEF Dispatched, Lives, NotYet
<1>4. CASE rows'[k].status # "preparing"
  <2>1. tasks'[k] = LeftOver("ended", "over")
    BY <1>1, <1>4, Zenon
  <2>2. ~Lives(tasks'[k])
    BY <2>1 DEF LeftOver, Lives
  <2>3. rows'[k].status \notin ActiveStatus
    BY <1>2, <1>4 DEF ActiveStatus
  <2>. QED
    BY <2>2, <2>3
<1>. QED
  BY <1>3, <1>4

(* A step that leaves the records there were, and their tasks, alone.       *)
LEMMA IdleWatch ==
  ASSUME AInv, Records, Same, cancelling' = cancelling, Executable' => Executable
  PROVE  BoundFirst' /\ Attended'
<1>1. TypeOK
  BY DEF AInv, IInv, Typed
<1>2. BoundFirst'
  <2>1. SUFFICES ASSUME NEW k \in DOMAIN rows', Lives(tasks'[k])
                 PROVE  rows'[k].bound
    BY DEF BoundFirst, Lives
  <2>. QED
    BY <1>1, <2>1, NewTended, Zenon DEF AInv, BoundFirst, Same
<1>3. Attended'
  <2>1. SUFFICES ASSUME Executable, Executable', NEW k \in DOMAIN rows', rows'[k].status \in ActiveStatus
                 PROVE  tasks'[k].pc \in NotYet \/ tasks'[k].launch = "launched" \/ k \in cancelling'
    BY DEF Attended, IsActive, Tended, NotYet
  <2>. QED
    BY <1>1, <2>1, NewTended, Zenon DEF AInv, Attended, IsActive, Tended, Same
<1>. QED
  BY <1>2, <1>3

(* A step about one run.                                                    *)
LEMMA OneWatch ==
  ASSUME AInv, Records, NEW i \in DOMAIN rows, up' = up, fault' = fault, DOMAIN rows' = DOMAIN rows,
         \A k \in DOMAIN rows \ {i} :
           rows'[k] = rows[k] /\ tasks'[k] = tasks[k] /\ (k \in cancelling => k \in cancelling'),
         Lives(tasks'[i]) => rows'[i].bound,
         Executable /\ rows'[i].status \in ActiveStatus =>
           tasks'[i].pc \in NotYet \/ tasks'[i].launch = "launched" \/ i \in cancelling'
  PROVE  BoundFirst' /\ Attended'
<1>1. BoundFirst'
  <2>1. SUFFICES ASSUME NEW k \in DOMAIN rows, Lives(tasks'[k])
                 PROVE  rows'[k].bound
    BY DEF BoundFirst, Lives
  <2>2. CASE k = i
    BY <2>1, <2>2
  <2>3. CASE k # i
    BY <2>1, <2>3, Zenon DEF AInv, BoundFirst
  <2>. QED
    BY <2>2, <2>3
<1>2. Attended'
  <2>1. SUFFICES ASSUME Executable, NEW k \in DOMAIN rows, rows'[k].status \in ActiveStatus
                 PROVE  tasks'[k].pc \in NotYet \/ tasks'[k].launch = "launched" \/ k \in cancelling'
    BY DEF Attended, Executable, IsActive, Tended, NotYet
  <2>2. CASE k = i
    BY <2>1, <2>2
  <2>3. CASE k # i
    BY <2>1, <2>3, Zenon DEF AInv, Attended, IsActive, Tended
  <2>. QED
    BY <2>2, <2>3
<1>. QED
  BY <1>1, <1>2

(* finish() and observe() of run i: the session stays bound, other runs    *)
(* are not touched, and a final status ends the run.                       *)
LEMMA EndedIs ==
  ASSUME NEW rs \in Seq(Row), NEW i \in DOMAIN rs, NEW status \in ActiveStatus \cup FinalStatus,
         NEW out \in {Finished(rs, i, status), Observed(rs, i, status), rs}
  PROVE  /\ out[i].bound = rs[i].bound
         /\ \A k \in DOMAIN rs \ {i} : out[k] = rs[k]
         /\ status \in FinalStatus /\ ~fault /\ out = Finished(rs, i, status) =>
              out[i].status \notin ActiveStatus
<1>1. rs[i] \in Row
  OBVIOUS
<1>2. CASE out = rs
  <2>1. ~fault /\ out = Finished(rs, i, status) /\ rs[i].status \in ActiveStatus => rs[i].status = status
    <3>1. SUFFICES ASSUME ~fault, rs = Finished(rs, i, status), rs[i].status \in ActiveStatus
                   PROVE  rs[i].status = status
      BY <1>2
    <3>2. rs = [rs EXCEPT ![i].status = status]
      BY <3>1 DEF Finished
    <3>3. rs[i] = [rs[i] EXCEPT !.status = status]
      BY <3>2
    <3>. QED
      BY <1>1, <3>3 DEF Row
  <2>. QED
    BY <1>2, <2>1 DEF ActiveStatus, FinalStatus
<1>3. CASE out # rs
  <2>1. out = [rs EXCEPT ![i].status = status]
    BY <1>3 DEF Finished, Observed
  <2>2. out[i] = [rs[i] EXCEPT !.status = status] /\ \A k \in DOMAIN rs \ {i} : out[k] = rs[k]
    BY <2>1
  <2>3. out[i].status = status /\ out[i].bound = rs[i].bound
    BY <1>1, <2>2 DEF Row
  <2>. QED
    BY <2>2, <2>3 DEF ActiveStatus, FinalStatus
<1>. QED
  BY <1>2, <1>3

(* Threw: the run has ended, is being stopped, or storage has failed.       *)
LEMMA ThrewWatch ==
  ASSUME AInv, NEW i \in DOMAIN rows, Threw(i), up' = up, fault' = fault, cancelling' = cancelling
  PROVE  BoundFirst' /\ Attended'
<1>1. Typed /\ rows \in Seq(Row) /\ tasks \in Seq(Task) /\ DOMAIN tasks = DOMAIN rows
  BY Types DEF AInv, IInv, Typed
<1>2. Records /\ DOMAIN rows' = DOMAIN rows
  BY <1>1, ThrewRecords
<1>3. /\ \A k \in DOMAIN rows \ {i} : rows'[k] = rows[k]
      /\ ~fault /\ i \notin cancelling => rows'[i].status \notin ActiveStatus
  <2>1. CASE rows' = rows /\ i \in cancelling
    BY <2>1
  <2>2. CASE rows' = Finished(rows, i, "done")
    <3>1. rows' \in {Finished(rows, i, "done"), Observed(rows, i, "done"), rows}
      BY <2>2
    <3>. QED
      BY <1>1, <2>2, <3>1, EndedIs DEF FinalStatus
  <2>. QED
    BY <2>1, <2>2 DEF Threw
<1>4. tasks'[i] = LeftOver("release", "over") /\ \A k \in DOMAIN rows \ {i} : tasks'[k] = tasks[k]
  BY <1>1 DEF Threw, GivesUp
<1>5. ~Lives(tasks'[i])
  BY <1>4 DEF LeftOver, Lives
<1>. QED
  BY <1>2, <1>3, <1>4, <1>5, OneWatch, Zenon DEF Executable

(* What a step leaves alone of the tasks and records it is not about.       *)
LEMMA OthersSame ==
  ASSUME NEW S, NEW q \in Seq(S), NEW i \in DOMAIN q, NEW x
  PROVE  /\ [q EXCEPT ![i] = x][i] = x
         /\ \A k \in DOMAIN q \ {i} : [q EXCEPT ![i] = x][k] = q[k]
OBVIOUS

(* The dispatch goes on, with a session bound first.                        *)
LEMMA PrepareWatch ==
  ASSUME AInv, NEW i \in DOMAIN rows, Prepare(i)
  PROVE  BoundFirst' /\ Attended'
<1>1. /\ Typed /\ rows \in Seq(Row) /\ tasks \in Seq(Task) /\ DOMAIN tasks = DOMAIN rows
      /\ rows[i] \in Row /\ tasks[i] \in Task
  BY Types, Members DEF AInv, IInv, Typed
<1>2. up' = up /\ fault' = fault /\ cancelling' = cancelling
  BY DEF Prepare, restOfDispatch
<1>3. CASE Threw(i)
  BY <1>2, <1>3, ThrewWatch
<1>4. CASE ~Threw(i)
  <2>. DEFINE r == [rows[i] EXCEPT !.bound = TRUE]
  <2>. DEFINE t == [tasks[i] EXCEPT !.pc = "setup", !.launch = "reserved"]
  <2>1. /\ rows' = [rows EXCEPT ![i].bound = TRUE]
        /\ tasks' = [tasks EXCEPT ![i].pc = "setup", ![i].launch = "reserved"]
    BY <1>4 DEF Prepare
  <2>2. rows' = [rows EXCEPT ![i] = r] /\ DOMAIN rows' = DOMAIN rows
    BY <2>1
  <2>3. tasks' = [tasks EXCEPT ![i] = t]
    BY <2>1
  <2>4. r.bound
    BY <1>1 DEF Row
  <2>5. t.pc \in NotYet
    BY <1>1 DEF Task, NotYet
  <2>. HIDE DEF r, t
  <2>6. rows'[i] = r /\ \A k \in DOMAIN rows \ {i} : rows'[k] = rows[k]
    BY <1>1, <2>2, OthersSame
  <2>7. tasks'[i] = t /\ \A k \in DOMAIN tasks \ {i} : tasks'[k] = tasks[k]
    BY <1>1, <2>3, OthersSame
  <2>8. Records
    BY <1>1, PrepareGood DEF Good
  <2>. QED
    BY <1>1, <1>2, <2>2, <2>4, <2>5, <2>6, <2>7, <2>8, OneWatch, Zenon
<1>. QED
  BY <1>3, <1>4

(* A run that is given back has ended, or is being stopped.                 *)
LEMMA GiveBackWatch ==
  ASSUME AInv, NEW i \in DOMAIN rows, GiveBack(i)
  PROVE  BoundFirst' /\ Attended'
<1>1. /\ Typed /\ rows \in Seq(Row) /\ tasks \in Seq(Task) /\ DOMAIN tasks = DOMAIN rows
      /\ rows[i] \in Row /\ tasks[i] \in Task
  BY Types, Members DEF AInv, IInv, Typed
<1>2. up' = up /\ fault' = fault /\ cancelling' = cancelling
  BY DEF GiveBack, restOfDispatch
<1>3. CASE Threw(i)
  BY <1>2, <1>3, ThrewWatch
<1>4. CASE ~Threw(i)
  <2>1. /\ GivesUp(i)
        /\ \/ Spent(i) /\ rows' = rows
           \/ rows' = [rows EXCEPT ![i].status = "skipped", ![i].key = @ /\ ~IsOneOff(i)]
    BY <1>4 DEF GiveBack
  <2>2. tasks'[i] = LeftOver("release", "over") /\ \A k \in DOMAIN rows \ {i} : tasks'[k] = tasks[k]
    BY <1>1, <2>1 DEF GivesUp
  <2>3. ~Lives(tasks'[i])
    BY <2>2 DEF LeftOver, Lives
  <2>4. /\ \A k \in DOMAIN rows \ {i} : rows'[k] = rows[k]
        /\ i \notin cancelling => rows'[i].status \notin ActiveStatus
        /\ DOMAIN rows' = DOMAIN rows
    <3>1. CASE Spent(i) /\ rows' = rows
      BY <3>1 DEF Spent, IsActive
    <3>2. CASE rows' = [rows EXCEPT ![i].status = "skipped", ![i].key = @ /\ ~IsOneOff(i)]
      <4>. DEFINE r == [rows[i] EXCEPT !.status = "skipped", !.key = @ /\ ~IsOneOff(i)]
      <4>1. rows' = [rows EXCEPT ![i] = r]
        BY <3>2
      <4>2. r.status = "skipped"
        BY <1>1 DEF Row
      <4>3. r.status \notin ActiveStatus
        BY <4>2 DEF ActiveStatus
      <4>. HIDE DEF r
      <4>. QED
        BY <1>1, <4>1, <4>3, OthersSame
    <3>. QED
      BY <2>1, <3>1, <3>2
  <2>5. Records
    BY <1>1, GiveBackGood DEF Good
  <2>. QED
    BY <1>2, <2>2, <2>3, <2>4, <2>5, OneWatch, Zenon
<1>. QED
  BY <1>3, <1>4

(* The session takes over from the dispatch.                                *)
LEMMA DeliverWatch ==
  ASSUME AInv, NEW i \in DOMAIN rows, Deliver(i) \/ ReleaseAfter(i)
  PROVE  BoundFirst' /\ Attended'
<1>1. /\ Typed /\ rows \in Seq(Row) /\ tasks \in Seq(Task) /\ DOMAIN tasks = DOMAIN rows
      /\ rows[i] \in Row /\ tasks[i] \in Task
  BY Types, Members DEF AInv, IInv, Typed
<1>2. up' = up /\ fault' = fault /\ cancelling' = cancelling /\ rows' = rows
  BY DEF Deliver, ReleaseAfter, restOfDispatch
<1>3. Records
  BY <1>1, DeliverGood, ReleaseAfterGood DEF Good
<1>4. CASE Deliver(i)
  <2>. DEFINE t == [tasks[i] EXCEPT !.pc = "delivering", !.launch = "launched"]
  <2>1. tasks' = [tasks EXCEPT ![i] = t]
    BY <1>4 DEF Deliver
  <2>2. t.launch = "launched"
    BY <1>1 DEF Task
  <2>3. Lives(tasks[i])
    BY <1>4 DEF Deliver, Lives
  <2>4. rows[i].bound
    BY <2>3, Zenon DEF AInv, BoundFirst
  <2>. HIDE DEF t
  <2>5. tasks'[i] = t /\ \A k \in DOMAIN tasks \ {i} : tasks'[k] = tasks[k]
    BY <1>1, <2>1, OthersSame
  <2>. QED
    BY <1>1, <1>2, <1>3, <2>2, <2>4, <2>5, OneWatch, Zenon
<1>5. CASE ReleaseAfter(i)
  <2>. DEFINE t == [tasks[i] EXCEPT !.pc = "ended"]
  <2>1. tasks' = [tasks EXCEPT ![i] = t] /\ tasks[i].pc = "release"
    BY <1>5 DEF ReleaseAfter
  <2>2. t.launch = tasks[i].launch /\ t.pc = "ended"
    BY <1>1 DEF Task
  <2>. HIDE DEF t
  <2>3. tasks'[i] = t /\ \A k \in DOMAIN tasks \ {i} : tasks'[k] = tasks[k]
    BY <1>1, <2>1, OthersSame
  <2>4. Lives(t) => Lives(tasks[i])
    BY <2>2 DEF Lives
  <2>5. tasks[i].pc \notin NotYet
    BY <2>1 DEF NotYet
  <2>6. Lives(tasks'[i]) => rows'[i].bound
    BY <1>2, <2>3, <2>4, Zenon DEF AInv, BoundFirst
  <2>7. Executable /\ rows'[i].status \in ActiveStatus =>
          tasks'[i].launch = "launched" \/ i \in cancelling'
    BY <1>2, <2>2, <2>3, <2>5, Zenon DEF AInv, Attended, Tended, IsActive
  <2>. QED
    BY <1>1, <1>2, <1>3, <2>3, <2>6, <2>7, OneWatch, Zenon
<1>. QED
  BY <1>4, <1>5

(* And is there when the dispatch is over.                                  *)
LEMMA DeliveredWatch ==
  ASSUME AInv, NEW i \in DOMAIN rows, Delivered(i)
  PROVE  BoundFirst' /\ Attended'
<1>. DEFINE seen == IF tasks[i].launch = "launched" THEN Observed(rows, i, "running") ELSE rows
<1>1. /\ Typed /\ rows \in Seq(Row) /\ tasks \in Seq(Task) /\ DOMAIN tasks = DOMAIN rows
      /\ rows[i] \in Row /\ tasks[i] \in Task
  BY Types, Members DEF AInv, IInv, Typed
<1>2. up' = up /\ fault' = fault /\ cancelling' = cancelling
  BY DEF Delivered, restOfDispatch
<1>3. CASE Threw(i)
  BY <1>2, <1>3, ThrewWatch
<1>4. CASE ~Threw(i)
  <2>1. /\ rows' = IF seen[i].status = "preparing" THEN Finished(seen, i, "running") ELSE seen
        /\ tasks' = [tasks EXCEPT ![i] = LeftOver("release", tasks[i].launch)]
        /\ tasks[i].pc = "delivering"
    BY <1>4 DEF Delivered
  <2>2. /\ seen \in Seq(Row) /\ DOMAIN seen = DOMAIN rows /\ seen[i].bound = rows[i].bound
        /\ \A k \in DOMAIN rows \ {i} : seen[k] = rows[k]
    <3>1. seen \in {Finished(rows, i, "running"), Observed(rows, i, "running"), rows}
      OBVIOUS
    <3>2. PICK r \in Row : seen = [rows EXCEPT ![i] = r]
      <4>1. \A out \in {Finished(rows, i, "running"), Observed(rows, i, "running"), rows} :
              \E r \in Row : out = [rows EXCEPT ![i] = r]
        BY <1>1, FinishedIs DEF ActiveStatus
      <4>. QED
        BY <3>1, <4>1, Zenon
    <3>3. seen[i].bound = rows[i].bound /\ \A k \in DOMAIN rows \ {i} : seen[k] = rows[k]
      BY <1>1, <3>1, EndedIs DEF ActiveStatus
    <3>. HIDE DEF seen
    <3>. QED
      BY <1>1, <3>2, <3>3, Replaced
  <2>. HIDE DEF seen
  <2>3. PICK mid \in Seq(Row) : mid = seen
    BY <2>2
  <2>4. rows'[i].bound = mid[i].bound /\ \A k \in DOMAIN mid \ {i} : rows'[k] = mid[k]
    <3>1. rows' \in {Finished(mid, i, "running"), Observed(mid, i, "running"), mid}
      BY <2>1, <2>3
    <3>2. i \in DOMAIN mid
      BY <2>2, <2>3
    <3>. QED
      BY <3>1, <3>2, EndedIs DEF ActiveStatus
  <2>5. rows'[i].bound = rows[i].bound /\ \A k \in DOMAIN rows \ {i} : rows'[k] = rows[k]
    BY <2>2, <2>3, <2>4
  <2>6. tasks'[i] = LeftOver("release", tasks[i].launch) /\ \A k \in DOMAIN tasks \ {i} : tasks'[k] = tasks[k]
    BY <1>1, <2>1, OthersSame
  <2>7. tasks'[i].pc = "release" /\ tasks'[i].launch = tasks[i].launch
    BY <2>6 DEF LeftOver
  <2>8. Records
    BY <1>1, DeliveredGood DEF Good
  <2>9. rows'[i].status \in ActiveStatus => rows[i].status \in ActiveStatus
    BY <2>8, Zenon DEF Records, Kept
  <2>10. Lives(tasks'[i]) => Lives(tasks[i])
    BY <2>7 DEF Lives
  <2>11. Lives(tasks'[i]) => rows'[i].bound
    BY <2>5, <2>10, Zenon DEF AInv, BoundFirst
  <2>12. tasks[i].pc \notin NotYet
    BY <2>1 DEF NotYet
  <2>13. Executable /\ rows'[i].status \in ActiveStatus => tasks'[i].launch = "launched" \/ i \in cancelling'
    BY <1>2, <2>7, <2>9, <2>12, Zenon DEF AInv, Attended, Tended, IsActive
  <2>14. DOMAIN rows' = DOMAIN rows
    <3>1. PICK s \in Row : rows' = [mid EXCEPT ![i] = s]
      <4>1. rows' \in {Finished(mid, i, "running"), Observed(mid, i, "running"), mid}
        BY <2>1, <2>3
      <4>2. i \in DOMAIN mid /\ "running" \in ActiveStatus \cup FinalStatus
        BY <2>2, <2>3 DEF ActiveStatus
      <4>3. \A out \in {Finished(mid, i, "running"), Observed(mid, i, "running"), mid} :
              \E s \in Row : out = [mid EXCEPT ![i] = s]
        BY <4>2, FinishedIs, SMTT(30)
      <4>. QED
        BY <4>1, <4>3, Zenon
    <3>. QED
      BY <2>2, <2>3, <3>1
  <2>. QED
    BY <1>1, <1>2, <2>5, <2>6, <2>8, <2>11, <2>13, <2>14, OneWatch, Zenon
<1>. QED
  BY <1>3, <1>4

(* The domain of the records after finish() or observe().                   *)
LEMMA SameLength ==
  ASSUME Typed, NEW i \in DOMAIN rows, NEW status \in ActiveStatus \cup FinalStatus,
         rows' \in {Finished(rows, i, status), Observed(rows, i, status), rows}
  PROVE  DOMAIN rows' = DOMAIN rows
<1>1. rows \in Seq(Row)
  BY Types DEF Typed
<1>2. PICK r \in Row : rows' = [rows EXCEPT ![i] = r]
  BY <1>1, FinishedIs
<1>. QED
  BY <1>1, <1>2

(* A session that is over has ended its run.                                *)
LEMMA SessionReportsWatch ==
  ASSUME AInv, NEW i \in DOMAIN rows, NEW status \in {"running", "done", "interrupted"},
         SessionReports(i, status)
  PROVE  BoundFirst' /\ Attended'
<1>1. /\ Typed /\ rows \in Seq(Row) /\ tasks \in Seq(Task) /\ DOMAIN tasks = DOMAIN rows
      /\ rows[i] \in Row /\ tasks[i] \in Task
  BY Types, Members DEF AInv, IInv, Typed
<1>2. /\ up' = up /\ fault' = fault /\ cancelling' = cancelling
      /\ rows' = Observed(rows, i, status)
  BY DEF SessionReports, restOfDispatch
<1>3. Records
  BY <1>1, SessionReportsGood DEF Good
<1>4. PICK c \in BOOLEAN, l \in {"none", "reserved", "launched", "over"} :
        /\ tasks' = [tasks EXCEPT ![i] = [tasks[i] EXCEPT !.cancelled = c, !.launch = l]]
        /\ l = IF status \in FinalStatus THEN "over" ELSE tasks[i].launch
  <2>1. PICK calledOff :
          tasks' = [tasks EXCEPT ![i].cancelled = @ \/ calledOff,
                                 ![i].launch = IF status \in FinalStatus THEN "over" ELSE @]
    BY DEF SessionReports
  <2>. DEFINE c == tasks[i].cancelled \/ calledOff
  <2>. DEFINE l == IF status \in FinalStatus THEN "over" ELSE tasks[i].launch
  <2>2. c \in BOOLEAN
    OBVIOUS
  <2>3. l \in {"none", "reserved", "launched", "over"}
    BY <1>1 DEF Task
  <2>4. tasks' = [tasks EXCEPT ![i] = [tasks[i] EXCEPT !.cancelled = c, !.launch = l]]
    BY <2>1
  <2>5. l = IF status \in FinalStatus THEN "over" ELSE tasks[i].launch
    OBVIOUS
  <2>. HIDE DEF c, l
  <2>. QED
    BY <2>2, <2>3, <2>4, <2>5
<1>5. PICK t \in Task : /\ tasks' = [tasks EXCEPT ![i] = t] /\ t.pc = tasks[i].pc
                        /\ t.launch = IF status \in FinalStatus THEN "over" ELSE tasks[i].launch
  <2>. DEFINE t == [tasks[i] EXCEPT !.cancelled = c, !.launch = l]
  <2>1. t \in Task /\ t.pc = tasks[i].pc
    BY <1>1, TaskWith
  <2>2. t.launch = l
    BY <1>1 DEF Task
  <2>. QED
    BY <1>4, <2>1, <2>2
<1>6. tasks'[i] = t /\ \A k \in DOMAIN tasks \ {i} : tasks'[k] = tasks[k]
  BY <1>1, <1>5, OthersSame
<1>7. /\ rows' \in {Finished(rows, i, status), Observed(rows, i, status), rows}
      /\ status \in ActiveStatus \cup FinalStatus
  BY <1>2 DEF ActiveStatus, FinalStatus
<1>8. rows'[i].bound = rows[i].bound /\ \A k \in DOMAIN rows \ {i} : rows'[k] = rows[k]
  BY <1>1, <1>7, EndedIs
<1>9. DOMAIN rows' = DOMAIN rows
  BY <1>1, <1>7, SameLength
<1>10. Lives(t) => Lives(tasks[i])
  BY <1>5 DEF Lives
<1>11. Lives(tasks'[i]) => rows'[i].bound
  BY <1>6, <1>8, <1>10, Zenon DEF AInv, BoundFirst
<1>12. rows'[i].status \in ActiveStatus => rows[i].status \in ActiveStatus
  BY <1>3, Zenon DEF Records, Kept
<1>13. ASSUME Executable, rows'[i].status \in ActiveStatus
       PROVE  tasks'[i].pc \in NotYet \/ tasks'[i].launch = "launched" \/ i \in cancelling'
  <2>1. tasks[i].pc \in NotYet \/ tasks[i].launch = "launched" \/ i \in cancelling
    BY <1>12, <1>13, Zenon DEF AInv, Attended, Tended, IsActive
  <2>2. CASE tasks[i].launch = "launched" /\ i \notin cancelling
    <3>1. Lives(tasks[i])
      BY <2>2 DEF Lives
    <3>2. rows[i].bound
      BY <3>1, Zenon DEF AInv, BoundFirst
    <3>3. rows' = Finished(rows, i, status)
      BY <1>2, <2>2, <3>2 DEF Observed
    <3>4. status \notin FinalStatus
      BY <1>1, <1>7, <1>13, <3>3, EndedIs DEF Executable
    <3>. QED
      BY <1>5, <1>6, <2>2, <3>4
  <2>. QED
    BY <1>2, <1>5, <1>6, <2>1, <2>2
<1>. QED
  BY <1>1, <1>2, <1>3, <1>6, <1>8, <1>9, <1>11, <1>13, OneWatch, Zenon

(* stop() takes over from the session.                                      *)
LEMMA StopWatch ==
  ASSUME AInv, NEW i \in DOMAIN rows, Stop(i)
  PROVE  BoundFirst' /\ Attended'
<1>1. /\ Typed /\ rows \in Seq(Row) /\ tasks \in Seq(Task) /\ DOMAIN tasks = DOMAIN rows
      /\ rows[i] \in Row /\ tasks[i] \in Task
  BY Types, Members DEF AInv, IInv, Typed
<1>2. up' = up /\ fault' = fault /\ Executable
  BY DEF Stop
<1>3. Records
  BY <1>1, StopGood DEF Good
<1>4. CASE ~rows[i].bound
  <2>1. rows' = Finished(rows, i, "interrupted") /\ tasks' = tasks /\ cancelling' = cancelling
    BY <1>4 DEF Stop
  <2>2. /\ rows' \in {Finished(rows, i, "interrupted"), Observed(rows, i, "interrupted"), rows}
        /\ "interrupted" \in FinalStatus /\ ~fault
    BY <1>2, <2>1 DEF FinalStatus, Executable
  <2>3. /\ \A k \in DOMAIN rows \ {i} : rows'[k] = rows[k]
        /\ rows'[i].status \notin ActiveStatus
    BY <1>1, <2>1, <2>2, EndedIs
  <2>4. DOMAIN rows' = DOMAIN rows
    BY <1>1, <2>2, SameLength
  <2>5. ~Lives(tasks'[i])
    BY <1>4, <2>1, Zenon DEF AInv, BoundFirst
  <2>. QED
    BY <1>1, <1>2, <1>3, <2>1, <2>3, <2>4, <2>5, OneWatch, Zenon
<1>5. CASE rows[i].bound
  <2>1. /\ rows' = rows /\ cancelling' = cancelling \cup {i}
        /\ tasks' = [tasks EXCEPT ![i].launch = "over",
                        ![i].cancelled = @ \/ (tasks[i].launch # "over"
                                               /\ tasks[i].pc \in {"setup", "delivering"})]
    BY <1>5 DEF Stop
  <2>2. \A k \in DOMAIN tasks \ {i} : tasks'[k] = tasks[k]
    BY <1>1, <2>1
  <2>. QED
    BY <1>1, <1>2, <1>3, <1>5, <2>1, <2>2, OneWatch, Zenon
<1>. QED
  BY <1>4, <1>5

(* And ends the run.                                                        *)
LEMMA StopEndsWatch ==
  ASSUME AInv, NEW i \in DOMAIN rows, StopEnds(i), StopMayFail = FALSE
  PROVE  BoundFirst' /\ Attended'
<1>1. /\ Typed /\ rows \in Seq(Row) /\ tasks \in Seq(Task) /\ DOMAIN tasks = DOMAIN rows
      /\ rows[i] \in Row /\ tasks[i] \in Task
  BY Types, Members DEF AInv, IInv, Typed
<1>2. /\ up' = up /\ fault' = fault /\ cancelling' = cancelling \ {i} /\ tasks' = tasks
      /\ rows' = Finished(rows, i, "interrupted")
  BY DEF StopEnds
<1>3. Records
  BY <1>1, StopEndsGood DEF Good
<1>4. /\ rows' \in {Finished(rows, i, "interrupted"), Observed(rows, i, "interrupted"), rows}
      /\ "interrupted" \in FinalStatus
  BY <1>2 DEF FinalStatus
<1>5. /\ \A k \in DOMAIN rows \ {i} : rows'[k] = rows[k]
      /\ rows'[i].bound = rows[i].bound
      /\ ~fault => rows'[i].status \notin ActiveStatus
  BY <1>1, <1>2, <1>4, EndedIs
<1>6. DOMAIN rows' = DOMAIN rows
  BY <1>1, <1>4, SameLength
<1>7. Lives(tasks'[i]) => rows'[i].bound
  BY <1>2, <1>5, Zenon DEF AInv, BoundFirst
<1>8. \A k \in DOMAIN rows \ {i} : k \in cancelling => k \in cancelling'
  BY <1>2
<1>9. ~(Executable /\ rows'[i].status \in ActiveStatus)
  BY <1>5, Zenon DEF Executable
<1>. QED
  BY <1>1, <1>2, <1>3, <1>5, <1>6, <1>7, <1>8, <1>9, OneWatch, Zenon

(* Nothing is active after an interruption of the project, or a restart.    *)
LEMMA AllWatch ==
  ASSUME AInv, InterruptProject \/ Crash \/ Restart
  PROVE  BoundFirst' /\ Attended'
<1>1. /\ Typed /\ rows \in Seq(Row) /\ tasks \in Seq(Task) /\ DOMAIN tasks = DOMAIN rows
  BY Types DEF AInv, IInv, Typed
<1>2. CASE Crash
  <2>1. ~Executable' /\ rows' = rows /\ tasks' = [k \in DOMAIN tasks |-> LeftOver("ended", "over")]
    BY <1>2 DEF Crash, Executable, stored
  <2>2. \A k \in DOMAIN rows' : ~Lives(tasks'[k])
    BY <1>1, <2>1 DEF LeftOver, Lives
  <2>3. BoundFirst'
    BY <2>2 DEF BoundFirst, Lives
  <2>. QED
    BY <2>1, <2>3 DEF Attended
<1>3. CASE InterruptProject \/ Restart
  <2>1. rows' = [k \in DOMAIN rows |->
                   IF IsActive(k) THEN [rows[k] EXCEPT !.status = "interrupted"] ELSE rows[k]]
    BY <1>3 DEF InterruptProject, Restart
  <2>2. \/ tasks' = tasks
        \/ tasks' = [k \in DOMAIN tasks |->
                       IF tasks[k].launch = "none" THEN tasks[k]
                       ELSE [tasks[k] EXCEPT !.launch = "over"]]
    BY <1>3 DEF InterruptProject, Restart
  <2>3. ASSUME NEW k \in DOMAIN rows
        PROVE  /\ rows'[k].bound = rows[k].bound /\ rows'[k].status \notin ActiveStatus
               /\ Lives(tasks'[k]) => Lives(tasks[k])
    <3>1. rows[k] \in Row /\ tasks[k] \in Task
      BY <1>1
    <3>2. rows'[k] = IF IsActive(k) THEN [rows[k] EXCEPT !.status = "interrupted"] ELSE rows[k]
      BY <2>1
    <3>3. CASE IsActive(k)
      <4>1. rows'[k].status = "interrupted" /\ rows'[k].bound = rows[k].bound
        BY <3>1, <3>2, <3>3 DEF Row
      <4>2. rows'[k].status \notin ActiveStatus
        BY <4>1 DEF ActiveStatus
      <4>. QED
        BY <2>2, <3>1, <4>1, <4>2, <1>1 DEF Lives, Task
    <3>4. CASE ~IsActive(k)
      BY <1>1, <2>2, <3>1, <3>2, <3>4 DEF Lives, IsActive, Task
    <3>. QED
      BY <3>3, <3>4
  <2>4. DOMAIN rows' = DOMAIN rows
    BY <2>1
  <2>5. BoundFirst'
    <3>1. SUFFICES ASSUME NEW k \in DOMAIN rows, Lives(tasks'[k])
                   PROVE  rows'[k].bound
      BY <2>4 DEF BoundFirst, Lives
    <3>. QED
      BY <2>3, <3>1, Zenon DEF AInv, BoundFirst
  <2>6. Attended'
    BY <2>3, <2>4 DEF Attended, IsActive
  <2>. QED
    BY <2>5, <2>6
<1>. QED
  BY <1>2, <1>3

(* Every step keeps an active run attended, if a stop cannot fail.          *)
LEMMA NextAInv ==
  ASSUME AInv, [Next]_vars, StopMayFail = FALSE
  PROVE  AInv'
<1>1. IInv' /\ Typed /\ Records
  BY NextIInv, NextGood DEF AInv, IInv, Good
<1>. SUFFICES BoundFirst' /\ Attended'
  BY <1>1 DEF AInv
<1>2. CASE UNCHANGED vars
  <2>1. Same
    BY <1>2 DEF vars, stored, memory, Same
  <2>2. cancelling' = cancelling /\ (Executable' => Executable)
    BY <1>2, Zenon DEF vars, memory, Executable
  <2>. QED
    BY <1>1, <2>1, <2>2, IdleWatch
<1>3. CASE RunNow
  <2>1. Same
    BY <1>1, <1>3, RunNowGood
  <2>2. cancelling' = cancelling /\ (Executable' => Executable)
    BY <1>3, Zenon DEF RunNow, Executable
  <2>. QED
    BY <1>1, <2>1, <2>2, IdleWatch
<1>4. CASE TickOneOff
  <2>1. Same
    BY <1>1, <1>4, TickOneOffGood
  <2>2. cancelling' = cancelling /\ (Executable' => Executable)
    BY <1>4, Zenon DEF TickOneOff, Executable
  <2>. QED
    BY <1>1, <2>1, <2>2, IdleWatch
<1>5. CASE TickRecurring
  <2>1. Same
    BY <1>1, <1>5, TickRecurringGood
  <2>2. cancelling' = cancelling /\ (Executable' => Executable)
    BY <1>5, Zenon DEF TickRecurring, Executable
  <2>. QED
    BY <1>1, <2>1, <2>2, IdleWatch
<1>6. CASE Patch
  <2>1. sched.ask \in Asks /\ sched.runAt \in Nat /\ sched.enabled \in BOOLEAN /\ sched.catchUp \in Policies
    BY <1>1, Types DEF Typed, Sched
  <2>2. (~sched.enabled) \in BOOLEAN
    OBVIOUS
  <2>3. PICK ask \in Asks, runAt \in Nat, enabled \in BOOLEAN, catchUp \in Policies :
          Update(ask, runAt, enabled, catchUp)
    BY <1>6, <2>1, <2>2, SchedulerAssumption DEF Patch
  <2>4. Same
    BY <1>1, <2>3, UpdateGood
  <2>5. cancelling' = cancelling /\ Executable
    BY <2>3, Zenon DEF Update
  <2>. QED
    BY <1>1, <2>4, <2>5, IdleWatch
<1>7. CASE \/ \E runAt \in Instants, c \in Policies, e \in BOOLEAN : Create(runAt, c, e)
           \/ Retime \/ Delete
  <2>1. Same
    BY <1>1, <1>7, IdleGood
  <2>2. cancelling' = cancelling /\ Executable
    BY <1>7 DEF Create, Retime, Delete, memory
  <2>. QED
    BY <1>1, <2>1, <2>2, IdleWatch
<1>8. CASE Release \/ StorageFails \/ TimePasses
  <2>1. Same
    BY <1>1, <1>8, IdleGood
  <2>2. cancelling' = cancelling /\ (Executable' => Executable)
    <3>1. CASE Release
      BY <3>1, Zenon DEF Release, Executable
    <3>2. CASE StorageFails
      BY <3>2, Zenon DEF StorageFails
    <3>3. CASE TimePasses
      BY <3>3, Zenon DEF TimePasses, memory, Executable
    <3>. QED
      BY <1>8, <3>1, <3>2, <3>3
  <2>. QED
    BY <1>1, <2>1, <2>2, IdleWatch
<1>9. CASE InterruptProject \/ Crash \/ Restart
  BY <1>9, AllWatch
<1>10. ASSUME NEW i \in DOMAIN rows, Dispatch(i)
       PROVE  BoundFirst' /\ Attended'
  <2>1. CASE SetupFails(i)
    BY <2>1, ThrewWatch DEF SetupFails, restOfDispatch
  <2>. QED
    BY <1>10, <2>1, PrepareWatch, GiveBackWatch, DeliverWatch, DeliveredWatch DEF Dispatch
<1>11. ASSUME NEW i \in DOMAIN rows,
              \/ \E s \in {"running", "done", "interrupted"} : SessionReports(i, s)
              \/ Stop(i) \/ StopEnds(i)
       PROVE  BoundFirst' /\ Attended'
  BY <1>11, SessionReportsWatch, StopWatch, StopEndsWatch
<1>. QED
  BY <1>2, <1>3, <1>4, <1>5, <1>6, <1>7, <1>8, <1>9, <1>10, <1>11 DEF Next, User

(* dispatch(), stop(), observe() and the restart pass: where stopping a    *)
(* session cannot be rejected, an active run is never left with nobody who *)
(* will end it.  (With StopMayFail a rejected stop() does leave one.)      *)
THEOREM ActiveIsAttendedHolds == StopMayFail = FALSE => (Spec => []ActiveIsAttended)
<1>1. SUFFICES ASSUME StopMayFail = FALSE
               PROVE  Spec => []ActiveIsAttended
  OBVIOUS
<1>2. Init => AInv
  <2>1. Init => DOMAIN rows = {}
    BY DEF Init
  <2>. QED
    BY <2>1, InitIInv DEF AInv, BoundFirst, Attended
<1>3. AInv /\ [Next]_vars => AInv'
  BY <1>1, NextAInv
<1>4. AInv => ActiveIsAttended
  BY DEF AInv, Attended, Tended, NotYet, ActiveIsAttended, Executable
<1>. QED
  BY <1>2, <1>3, <1>4, PTL DEF Spec

-----------------------------------------------------------------------------
(* The workspace of a deleted schedule.                                     *)

(* A step that lets no work end and changes nothing else of the workspace.  *)
LEMMA StillReleased ==
  ASSUME Typed, DeletedIsReleased,
         UNCHANGED <<sched, owned, up, fault, releasing, unreleased>>,
         \A k \in DOMAIN tasks : k \in DOMAIN tasks' /\ (tasks'[k].pc = "ended" => tasks[k].pc = "ended")
  PROVE  DeletedIsReleased'
BY DEF DeletedIsReleased

(* A step after which a dispatch is still at work.                          *)
LEMMA StillAtWork ==
  ASSUME NEW i \in DOMAIN tasks', tasks'[i].pc # "ended"
  PROVE  DeletedIsReleased'
BY DEF DeletedIsReleased

(* dispatch() of a run.                                                     *)
LEMMA DispatchReleased ==
  ASSUME Typed, DeletedIsReleased, NEW i \in DOMAIN rows, Dispatch(i)
  PROVE  DeletedIsReleased'
<1>1. tasks \in Seq(Task) /\ DOMAIN tasks = DOMAIN rows /\ tasks[i] \in Task
  BY Types, Members DEF Typed
<1>2. CASE GivesUp(i)
  <2>1. i \in DOMAIN tasks' /\ tasks'[i] = LeftOver("release", "over")
    BY <1>1, <1>2 DEF GivesUp
  <2>2. tasks'[i].pc = "release"
    BY <2>1 DEF LeftOver
  <2>. QED
    BY <2>1, <2>2, StillAtWork
<1>3. CASE ~GivesUp(i) /\ (Prepare(i) \/ Deliver(i))
  <2>1. \/ tasks' = [tasks EXCEPT ![i].pc = "setup", ![i].launch = "reserved"]
        \/ tasks' = [tasks EXCEPT ![i].pc = "delivering", ![i].launch = "launched"]
    BY <1>3 DEF Prepare, Deliver, Threw
  <2>2. i \in DOMAIN tasks' /\ tasks'[i].pc \in {"setup", "delivering"}
    BY <1>1, <2>1 DEF Task
  <2>. QED
    BY <2>2, StillAtWork
<1>4. CASE ~GivesUp(i) /\ Delivered(i)
  <2>1. tasks' = [tasks EXCEPT ![i] = LeftOver("release", @.launch)]
    BY <1>4 DEF Delivered, Threw
  <2>2. i \in DOMAIN tasks' /\ tasks'[i].pc = "release"
    BY <1>1, <2>1 DEF LeftOver
  <2>. QED
    BY <2>2, StillAtWork
<1>5. CASE ReleaseAfter(i)
  <2>1. sched' = sched /\ up' = up /\ fault' = fault /\ releasing' = releasing
    BY <1>5 DEF ReleaseAfter
  <2>2. CASE fault \/ sched.phase # "deleted"
    BY <2>1, <2>2 DEF DeletedIsReleased
  <2>3. CASE ReleaseDeleted
    <3>1. owned' = FALSE \/ unreleased' = TRUE
      BY <2>3 DEF ReleaseDeleted
    <3>. QED
      BY <3>1, Zenon DEF DeletedIsReleased
  <2>. QED
    BY <1>5, <2>2, <2>3 DEF ReleaseAfter
<1>. QED
  BY <1>2, <1>3, <1>4, <1>5 DEF Dispatch, SetupFails, Threw, GiveBack

(* What reaches a run from outside ends no dispatch.                        *)
LEMMA OutsideReleased ==
  ASSUME Typed, DeletedIsReleased, NEW i \in DOMAIN rows,
         \/ \E s \in {"running", "done", "interrupted"} : SessionReports(i, s)
         \/ Stop(i) \/ StopEnds(i)
  PROVE  DeletedIsReleased'
<1>1. tasks \in Seq(Task) /\ DOMAIN tasks = DOMAIN rows /\ tasks[i] \in Task
  BY Types, Members DEF Typed
<1>2. UNCHANGED <<sched, owned, up, fault, releasing, unreleased>>
  BY DEF SessionReports, Stop, StopEnds, restOfDispatch
<1>3. \A k \in DOMAIN tasks : k \in DOMAIN tasks' /\ (tasks'[k].pc = "ended" => tasks[k].pc = "ended")
  <2>1. CASE tasks' = tasks
    BY <2>1
  <2>2. CASE Stop(i) /\ tasks' # tasks
    <3>1. PICK c : tasks' = [tasks EXCEPT ![i].launch = "over", ![i].cancelled = c]
      BY <2>2 DEF Stop
    <3>. QED
      BY <1>1, <3>1 DEF Task
  <2>3. CASE \E s \in {"running", "done", "interrupted"} : SessionReports(i, s)
    <3>1. PICK c, l : tasks' = [tasks EXCEPT ![i].cancelled = c, ![i].launch = l]
      <4>1. PICK s \in {"running", "done", "interrupted"} : SessionReports(i, s)
        BY <2>3
      <4>2. PICK calledOff :
              tasks' = [tasks EXCEPT ![i].cancelled = @ \/ calledOff,
                                     ![i].launch = IF s \in FinalStatus THEN "over" ELSE @]
        BY <4>1 DEF SessionReports
      <4>. DEFINE c == tasks[i].cancelled \/ calledOff
      <4>. DEFINE l == IF s \in FinalStatus THEN "over" ELSE tasks[i].launch
      <4>3. tasks' = [tasks EXCEPT ![i].cancelled = c, ![i].launch = l]
        BY <4>2
      <4>. HIDE DEF c, l
      <4>. QED
        BY <4>3
    <3>. QED
      BY <1>1, <3>1 DEF Task
  <2>. QED
    BY <2>1, <2>2, <2>3 DEF StopEnds
<1>. QED
  BY <1>2, <1>3, StillReleased

(* Every step keeps the workspace of a deleted schedule accounted for.      *)
LEMMA NextReleased ==
  ASSUME Typed, DeletedIsReleased, [Next]_vars
  PROVE  DeletedIsReleased'
<1>1. sched \in Sched /\ tasks \in Seq(Task) /\ DOMAIN tasks = DOMAIN rows
  BY Types DEF Typed
<1>2. CASE UNCHANGED vars
  BY <1>2 DEF vars, stored, memory, DeletedIsReleased
<1>3. CASE RunNow \/ TickOneOff \/ TickRecurring
  <2>1. sched.phase = "live"
    BY <1>3 DEF RunNow, TickOneOff, TickRecurring, Due
  <2>2. sched'.phase = "live"
    <3>1. CASE RunNow
      BY <2>1, <3>1 DEF RunNow
    <3>2. CASE TickOneOff
      BY <1>1, <2>1, <3>2 DEF TickOneOff, Sched
    <3>3. CASE TickRecurring
      <4>1. sched' = [sched EXCEPT !.next = Following(now)]
        BY <3>3 DEF TickRecurring
      <4>. QED
        BY <1>1, <2>1, <4>1 DEF Sched
    <3>. QED
      BY <1>3, <3>1, <3>2, <3>3
  <2>. QED
    BY <2>2 DEF DeletedIsReleased
<1>4. CASE Patch
  <2>1. PICK ask, runAt, enabled, catchUp : Update(ask, runAt, enabled, catchUp)
    BY <1>4, Zenon DEF Patch
  <2>. DEFINE e == Edited(ask, runAt, enabled, catchUp)
  <2>2. /\ sched.phase = "live"
        /\ \/ sched' = e \/ sched' = [e EXCEPT !.next = Following(now)]
           \/ sched' = sched \/ sched' = [sched EXCEPT !.next = Following(now)]
    BY <2>1 DEF Update
  <2>3. e.phase = "live" /\ [e EXCEPT !.next = Following(now)].phase = "live"
    BY <1>1, <2>2 DEF Edited, Sched
  <2>4. [sched EXCEPT !.next = Following(now)].phase = "live"
    BY <1>1, <2>2 DEF Sched
  <2>. HIDE DEF e
  <2>5. sched'.phase = "live"
    BY <2>2, <2>3, <2>4
  <2>. QED
    BY <2>5 DEF DeletedIsReleased
<1>5. CASE \E runAt \in Instants, c \in Policies, e \in BOOLEAN : Create(runAt, c, e)
  <2>1. sched'.phase = "live"
    BY <1>5 DEF Create
  <2>. QED
    BY <2>1 DEF DeletedIsReleased
<1>6. CASE Delete
  BY <1>6 DEF Delete, DeletedIsReleased
<1>7. CASE Release
  <2>1. owned' = FALSE \/ unreleased' = TRUE
    BY <1>7 DEF Release, ReleaseDeleted
  <2>. QED
    BY <2>1, Zenon DEF DeletedIsReleased
<1>8. CASE StorageFails
  BY <1>8 DEF StorageFails, DeletedIsReleased
<1>9. CASE Crash
  BY <1>9 DEF Crash, DeletedIsReleased
<1>10. CASE Restart
  <2>1. sched' = sched /\ (sched.phase = "deleted" => releasing' \in {"running", "unread"})
    BY <1>10 DEF Restart
  <2>. QED
    BY <2>1, Zenon DEF DeletedIsReleased
<1>11. CASE TimePasses
  BY <1>11 DEF TimePasses, stored, memory, DeletedIsReleased
<1>12. CASE InterruptProject
  <2>1. /\ UNCHANGED <<sched, owned, up, fault, releasing, unreleased>>
        /\ tasks' = [k \in DOMAIN tasks |->
                       IF tasks[k].launch = "none" THEN tasks[k]
                       ELSE [tasks[k] EXCEPT !.launch = "over"]]
    BY <1>12 DEF InterruptProject
  <2>2. ASSUME NEW k \in DOMAIN tasks
        PROVE  k \in DOMAIN tasks' /\ tasks'[k].pc = tasks[k].pc
    <3>1. tasks[k] \in Task
      BY <1>1
    <3>. QED
      BY <2>1, <3>1 DEF Task
  <2>. QED
    BY <2>1, <2>2, StillReleased
<1>13. CASE \E i \in DOMAIN rows :
              \/ Dispatch(i)
              \/ \E s \in {"running", "done", "interrupted"} : SessionReports(i, s)
              \/ Stop(i) \/ StopEnds(i)
  BY <1>13, DispatchReleased, OutsideReleased
<1>14. CASE Retime
  <2>1. sched.phase = "live" /\ sched' = [sched EXCEPT !.next = Following(now)]
    BY <1>14 DEF Retime
  <2>2. sched'.phase = "live"
    BY <1>1, <2>1 DEF Sched
  <2>. QED
    BY <2>2 DEF DeletedIsReleased
<1>. QED
  BY <1>2, <1>3, <1>4, <1>5, <1>6, <1>7, <1>8, <1>9, <1>10, <1>11, <1>12, <1>13, <1>14 DEF Next, User

(* releaseDeleted: whatever dispatches, stops, failures and restarts come  *)
(* between the delete and its end, the workspace of a deleted schedule is  *)
(* left without an owner, or the failure to release it is reported, unless *)
(* the start() since could not even read which schedules are deleted.      *)
THEOREM DeletedIsReleasedHolds == Spec => []DeletedIsReleased
<1>1. Init => DeletedIsReleased
  BY DEF Init, DeletedIsReleased
<1>2. IInv /\ DeletedIsReleased /\ [Next]_vars => DeletedIsReleased'
  BY NextReleased DEF IInv
<1>. QED
  BY <1>1, <1>2, IInvHolds, PTL DEF Spec

-----------------------------------------------------------------------------
(* The arithmetic of a timetable.                                           *)

(* The occurrences are in the order of their numbers.                       *)
LEMMA InOrder ==
  ASSUME NEW j \in Nat, NEW k \in Nat
  PROVE  /\ j * Period \in Nat /\ k * Period \in Nat
         /\ j <= k => j * Period <= k * Period
         /\ j < k => j * Period < k * Period
         /\ j * Period <= k * Period => j <= k
         /\ j * Period < k * Period => j < k
<1>. USE SchedulerAssumption
<1>1. ASSUME NEW a \in Nat, NEW b \in Nat, a < b
      PROVE  a * Period < b * Period
  <2>1. PICK d \in Nat \ {0} : b = a + d
    <3>1. b - a \in Nat \ {0} /\ b = a + (b - a)
      BY <1>1
    <3>. QED
      BY <3>1
  <2>2. b * Period = a * Period + d * Period
    BY <2>1
  <2>3. d * Period > 0 /\ a * Period \in Nat /\ d * Period \in Nat
    BY <2>1
  <2>. QED
    BY <2>2, <2>3
<1>2. j * Period \in Nat /\ k * Period \in Nat
  OBVIOUS
<1>3. j < k \/ j = k \/ k < j
  OBVIOUS
<1>. QED
  BY <1>1, <1>2, <1>3

(* An occurrence has a number.                                              *)
LEMMA Numbered ==
  ASSUME NEW t \in Nat, t % Period = 0
  PROVE  \E k \in Nat : t = k * Period
<1>1. \A p \in Nat \ {0} : t % p = 0 => t \div p \in Nat /\ t = (t \div p) * p
  OBVIOUS
<1>2. Period \in Nat \ {0}
  BY SchedulerAssumption
<1>3. t \div Period \in Nat /\ t = (t \div Period) * Period
  BY <1>1, <1>2
<1>. QED
  BY <1>3

(* And a multiple of the period is an occurrence.                           *)
LEMMA Multiple ==
  ASSUME NEW k \in Nat
  PROVE  (k * Period) % Period = 0
BY SchedulerAssumption

(* There are n + 1 occurrences from the m-th to the n-th after it.          *)
LEMMA IntervalSize ==
  ASSUME NEW m \in Nat, NEW n \in Nat
  PROVE  Cardinality(Occurrences(m * Period, (m + n) * Period)) = n + 1
<1>. DEFINE S == Occurrences(m * Period, (m + n) * Period)
<1>. DEFINE f == [j \in m..(m + n) |-> j * Period]
<1>1. m * Period \in Nat /\ (m + n) * Period \in Nat
  BY InOrder
<1>2. \A j \in m..(m + n) : j \in Nat /\ f[j] = j * Period /\ f[j] \in S
  <2>1. SUFFICES ASSUME NEW j \in m..(m + n)
                 PROVE  j \in Nat /\ j * Period \in S
    OBVIOUS
  <2>2. j \in Nat /\ m <= j /\ j <= m + n /\ m + n \in Nat
    OBVIOUS
  <2>3. j * Period \in Nat /\ m * Period <= j * Period /\ j * Period <= (m + n) * Period
    BY <2>2, InOrder
  <2>4. (j * Period) % Period = 0
    BY <2>2, Multiple
  <2>. QED
    BY <1>1, <2>2, <2>3, <2>4 DEF Occurrences
<1>3. \A i, j \in m..(m + n) : f[i] = f[j] => i = j
  <2>1. SUFFICES ASSUME NEW i \in m..(m + n), NEW j \in m..(m + n), i * Period = j * Period
                 PROVE  i = j
    BY <1>2
  <2>2. i \in Nat /\ j \in Nat
    OBVIOUS
  <2>3. i * Period \in Nat /\ i <= j /\ j <= i
    BY <2>1, <2>2, InOrder
  <2>. QED
    BY <2>2, <2>3
<1>4. \A t \in S : \E j \in m..(m + n) : f[j] = t
  <2>1. SUFFICES ASSUME NEW t \in S
                 PROVE  \E j \in m..(m + n) : f[j] = t
    OBVIOUS
  <2>2. t \in Nat /\ m * Period <= t /\ t <= (m + n) * Period /\ t % Period = 0
    BY <1>1 DEF Occurrences
  <2>3. PICK j \in Nat : t = j * Period
    BY <2>2, Numbered
  <2>4. m + n \in Nat
    OBVIOUS
  <2>5. m <= j /\ j <= m + n
    BY <2>2, <2>3, <2>4, InOrder
  <2>. QED
    BY <2>3, <2>5
<1>5. f \in Bijection(m..(m + n), S)
  <2>1. f \in [m..(m + n) -> S]
    BY <1>2
  <2>. HIDE DEF f, S
  <2>2. f \in Injection(m..(m + n), S)
    BY <1>3, <2>1 DEF Injection, IsInjective
  <2>3. f \in Surjection(m..(m + n), S)
    BY <1>4, <2>1 DEF Surjection
  <2>. QED
    BY <2>2, <2>3 DEF Bijection
<1>. HIDE DEF f, S
<1>6. ExistsBijection(m..(m + n), S)
  BY <1>5 DEF ExistsBijection
<1>7. IsFiniteSet(m..(m + n)) /\ Cardinality(m..(m + n)) = n + 1
  <2>1. m \in Int /\ m + n \in Int /\ ~(m > m + n) /\ (m + n) - m + 1 = n + 1
    OBVIOUS
  <2>. QED
    BY <2>1, FS_Interval
<1>8. Cardinality(S) = Cardinality(m..(m + n))
  BY <1>6, <1>7, FS_Bijection
<1>. QED
  BY <1>7, <1>8 DEF S

(* What falls due since the k-th occurrence: n more, and which.             *)
LEMMA DueSince ==
  ASSUME NEW t \in Nat, NEW k \in Nat, k * Period <= t
  PROVE  \E n \in Nat : /\ Latest(t) = (k + n) * Period
                        /\ Following(t) = (k + n + 1) * Period
                        /\ (k + n) * Period <= t
                        /\ CountSince(k * Period, t) = n + 1
                        /\ n > 0 => Latest(t) - Period = (k + (n - 1)) * Period
<1>. USE SchedulerAssumption
<1>. DEFINE q == t \div Period
<1>1. q \in Nat /\ q * Period <= t /\ t < q * Period + Period
  OBVIOUS
<1>2. Latest(t) = q * Period /\ Following(t) = q * Period + Period
  BY DEF Latest, Following
<1>3. CountSince(k * Period, t) = (Latest(t) - k * Period) \div Period + 1
  BY DEF CountSince
<1>. HIDE DEF q
<1>4. q * Period + Period = (q + 1) * Period /\ q + 1 \in Nat /\ q * Period \in Nat /\ k * Period \in Nat
  BY <1>1
<1>5. k < q + 1
  <2>1. k * Period < (q + 1) * Period
    BY <1>1, <1>4
  <2>. QED
    BY <2>1, <1>4, InOrder
<1>6. PICK n \in Nat : q = k + n
  <2>1. q - k \in Nat /\ q = k + (q - k)
    BY <1>1, <1>5
  <2>. QED
    BY <2>1
<1>7. Latest(t) - k * Period = n * Period
  BY <1>2, <1>6
<1>8. (n * Period) \div Period = n
  OBVIOUS
<1>9. n > 0 => q * Period - Period = (k + (n - 1)) * Period
  BY <1>6
<1>. QED
  BY <1>1, <1>2, <1>3, <1>4, <1>6, <1>7, <1>8, <1>9

-----------------------------------------------------------------------------
(* A one-off that fell due while the desktop was open.                      *)

(* Nothing on record is of the future.  A missed record ended as it was    *)
(* written, is of no instant ticked on time, and, unless it is what the    *)
(* one-off was spent on, of another instant than the one-off waits for.    *)
RowFine(k) ==
  /\ rows[k].occurrence <= now
  /\ rows[k].trigger = "missed" =>
       /\ rows[k].status = "skipped"
       /\ rows[k].occurrence \notin offered
       /\ sched.runAt # Recurring /\ k # sched.fired => rows[k].occurrence # sched.runAt

(* An instant ticked on time has gone by; a one-off still waiting for it   *)
(* is deferred, and a timetable adopted since has no occurrence that old.  *)
SchedFine ==
  /\ \A t \in offered : t <= now
  /\ sched.runAt # Recurring =>
       /\ sched.next = sched.runAt
       /\ sched.fired = NoRun /\ sched.runAt \in offered => sched.deferred
  /\ sched.runAt = Recurring => \A t \in offered : t < sched.next

DInv == SchedFine /\ \A k \in DOMAIN rows : RowFine(k)

-----------------------------------------------------------------------------
(* The history of a timetable.                                              *)

(* What a record of an interval counts.                                     *)
Capped(n) == IF n > MissedCap THEN MissedCap ELSE n

(* The record is of the n + 1 occurrences from the m-th on.                 *)
Counts(r, m, n) ==
  r.occurrence = m * Period /\ r.until = (m + n) * Period /\ r.count = Capped(n + 1)

(* A record ends by now and begins no later; a run of the user claims no   *)
(* occurrence.                                                             *)
Bygone(r) == r.occurrence <= r.until /\ r.until <= now /\ (r.key => r.trigger # "manual")

(* A record is older than the timetable, or is of an interval of it that   *)
(* ends before what comes next.                                            *)
InPlace(r) ==
  r.trigger # "manual" =>
    \/ r.until < base
    \/ /\ r.occurrence >= base /\ r.until < sched.next
       /\ \E m, n \in Nat : Counts(r, m, n)

(* One record covers the occurrence.                                        *)
CoveredOnce(t) ==
  \E i \in DOMAIN rows : /\ Covers(rows[i], t)
                         /\ \A j \in DOMAIN rows \ {i} : ~Covers(rows[j], t)

OnHistory == sched.phase # "none" /\ sched.runAt = Recurring

NInv ==
  /\ \A i \in DOMAIN rows : Bygone(rows[i])
  /\ OnHistory => /\ base <= sched.next
                  /\ \A i \in DOMAIN rows : InPlace(rows[i])
                  /\ \A t \in Occurrences(base, sched.next - 1) : CoveredOnce(t)

-----------------------------------------------------------------------------
(* What a step does to the timetable.                                       *)

SameRule ==
  /\ sched'.runAt = sched.runAt /\ sched'.next = sched.next
  /\ sched'.phase = "none" <=> sched.phase = "none"

(* The claim of a one-off stays, or its run, still active, hands it back.   *)
SameClaim == sched'.fired = sched.fired /\ sched'.deferred = sched.deferred

HandsBack ==
  /\ sched'.fired = NoRun /\ sched'.deferred = TRUE
  /\ sched.fired \in DOMAIN rows /\ rows[sched.fired].status \in ActiveStatus

(* A step that writes no record and leaves the timetable alone.             *)
Keeps ==
  /\ DOMAIN rows' = DOMAIN rows /\ offered' = offered /\ base' = base
  /\ now' \in Nat /\ now <= now'
  /\ SameRule /\ (SameClaim \/ HandsBack)

(* A record of the timetable, from its m-th occurrence to the n-th after.   *)
Interval(r, m, n) ==
  /\ Counts(r, m, n)
  /\ r.trigger # "manual"
  /\ r.trigger = "missed" => r.status = "skipped"

(* A step that records what has fallen due, the k-th occurrence to the n-th *)
(* after it, in one record or in two, and moves the schedule on.            *)
Advances ==
  /\ OnHistory /\ OnHistory'
  /\ now' = now /\ offered' = offered /\ base' = base
  /\ \A i \in DOMAIN rows : rows'[i] = rows[i]
  /\ \E k, n \in Nat :
       /\ sched.next = k * Period /\ sched'.next = (k + n + 1) * Period /\ (k + n) * Period <= now
       /\ \/ \E p \in Nat : /\ p \notin DOMAIN rows /\ DOMAIN rows' = DOMAIN rows \cup {p}
                            /\ Interval(rows'[p], k, n)
          \/ /\ n > 0
             /\ \E p, q \in Nat : /\ {p, q} \cap DOMAIN rows = {} /\ p # q
                                  /\ DOMAIN rows' = DOMAIN rows \cup {p, q}
                                  /\ Interval(rows'[p], k, n - 1)
                                  /\ Interval(rows'[q], k + n, 0)

(* A step that gives the schedule a new instant, or a new timetable.        *)
Renews ==
  /\ rows' = rows /\ now' = now /\ offered' = offered
  /\ sched'.runAt # Recurring => sched'.runAt > now /\ sched'.next = sched'.runAt
  /\ sched'.runAt = Recurring => sched'.next > now /\ base' = sched'.next

(* The instants of a record, one by one.                                    *)
LEMMA RowTimes ==
  ASSUME NEW r \in Row
  PROVE  r.occurrence \in Nat /\ r.until \in Nat /\ r.count \in Nat
BY DEF Row

(* What a step keeps of the records it does not write.                      *)
LEMMA StillThere ==
  ASSUME Typed, Records, NEW k \in DOMAIN rows
  PROVE  /\ rows[k] \in Row /\ rows'[k] \in Row
         /\ rows'[k].occurrence = rows[k].occurrence /\ rows'[k].trigger = rows[k].trigger
         /\ rows'[k].until = rows[k].until /\ rows'[k].count = rows[k].count
         /\ rows[k].status = "skipped" => rows'[k].status = "skipped"
         /\ rows'[k].key => rows[k].key
<1>1. rows[k] \in Row
  BY Members DEF Typed
<1>2. rows' \in Seq(Row) /\ k \in DOMAIN rows' /\ Kept(rows[k], rows'[k])
  BY Zenon DEF Records
<1>3. rows'[k] \in Row
  BY <1>2
<1>. QED
  BY <1>1, <1>2, <1>3 DEF Kept, FinalStatus

(* Such a step keeps the one-off's part.                                    *)
LEMMA KeepsDue ==
  ASSUME Typed, Records, DInv, Keeps
  PROVE  DInv'
<1>1. sched \in Sched /\ now \in Nat /\ offered \subseteq Nat /\ DOMAIN rows = 1..Len(rows) /\ Len(rows) \in Nat
  BY Types DEF Typed
<1>2. /\ offered' = offered /\ now' \in Nat /\ now <= now'
      /\ sched'.runAt = sched.runAt /\ sched'.next = sched.next
      /\ SameClaim \/ HandsBack
  BY DEF Keeps, SameRule
<1>3. SchedFine'
  <2>1. \A t \in offered' : t <= now'
    BY <1>1, <1>2 DEF DInv, SchedFine
  <2>2. sched'.runAt # Recurring => sched'.next = sched'.runAt
    BY <1>2, Zenon DEF DInv, SchedFine
  <2>3. sched'.runAt # Recurring /\ sched'.fired = NoRun /\ sched'.runAt \in offered' => sched'.deferred
    <3>1. CASE SameClaim
      BY <1>2, <3>1, Zenon DEF DInv, SchedFine, SameClaim
    <3>2. CASE HandsBack
      BY <3>2, Zenon DEF HandsBack
    <3>. QED
      BY <1>2, <3>1, <3>2
  <2>4. sched'.runAt = Recurring => \A t \in offered' : t < sched'.next
    BY <1>2, Zenon DEF DInv, SchedFine
  <2>. QED
    BY <2>1, <2>2, <2>3, <2>4, Zenon DEF SchedFine
<1>4. ASSUME NEW k \in DOMAIN rows
      PROVE  RowFine(k)'
  <2>1. /\ rows[k] \in Row /\ rows'[k] \in Row
        /\ rows'[k].occurrence = rows[k].occurrence /\ rows'[k].trigger = rows[k].trigger
        /\ rows[k].status = "skipped" => rows'[k].status = "skipped"
    BY StillThere
  <2>2. RowFine(k)
    BY DEF DInv
  <2>3. rows'[k].occurrence <= now'
    <3>1. rows[k].occurrence \in Nat /\ rows[k].occurrence <= now
      BY <2>1, <2>2, RowTimes DEF RowFine
    <3>. QED
      BY <1>1, <1>2, <2>1, <3>1
  <2>4. ASSUME rows'[k].trigger = "missed"
        PROVE  /\ rows'[k].status = "skipped"
               /\ rows'[k].occurrence \notin offered'
               /\ sched'.runAt # Recurring /\ k # sched'.fired => rows'[k].occurrence # sched'.runAt
    <3>1. /\ rows[k].status = "skipped"
          /\ rows[k].occurrence \notin offered
          /\ sched.runAt # Recurring /\ k # sched.fired => rows[k].occurrence # sched.runAt
      BY <2>1, <2>2, <2>4, Zenon DEF RowFine
    <3>2. CASE SameClaim
      BY <1>2, <2>1, <3>1, <3>2, Zenon DEF SameClaim
    <3>3. CASE HandsBack
      <4>1. rows[sched.fired].status # "skipped"
        BY <3>3 DEF HandsBack, ActiveStatus
      <4>2. k # sched.fired
        BY <3>1, <4>1
      <4>. QED
        BY <1>2, <2>1, <3>1, <4>2, Zenon
    <3>. QED
      BY <1>2, <3>2, <3>3
  <2>. QED
    BY <2>3, <2>4, Zenon DEF RowFine
<1>5. DOMAIN rows' = DOMAIN rows
  BY DEF Keeps
<1>. QED
  BY <1>3, <1>4, <1>5, Zenon DEF DInv

(* And the timetable's.                                                     *)
LEMMA KeepsHistory ==
  ASSUME Typed, Records, NInv, Keeps
  PROVE  NInv'
<1>1. sched \in Sched /\ now \in Nat
  BY Types DEF Typed
<1>2. /\ base' = base /\ now' \in Nat /\ now <= now' /\ DOMAIN rows' = DOMAIN rows
      /\ sched'.next = sched.next /\ (OnHistory' <=> OnHistory)
  BY DEF Keeps, SameRule, OnHistory
<1>3. ASSUME NEW k \in DOMAIN rows
      PROVE  Bygone(rows[k])' /\ (InPlace(rows[k]) => InPlace(rows[k])')
  <2>1. /\ rows[k] \in Row
        /\ rows'[k].occurrence = rows[k].occurrence /\ rows'[k].trigger = rows[k].trigger
        /\ rows'[k].until = rows[k].until /\ rows'[k].count = rows[k].count
        /\ rows'[k].key => rows[k].key
    BY StillThere
  <2>2. Bygone(rows[k])
    BY DEF NInv
  <2>3. rows[k].until \in Nat /\ rows[k].until <= now
    BY <2>1, <2>2, RowTimes DEF Bygone
  <2>4. rows[k].until <= now'
    BY <1>1, <1>2, <2>3
  <2>5. Bygone(rows[k])'
    BY <2>1, <2>2, <2>4, Zenon DEF Bygone
  <2>6. InPlace(rows[k]) => InPlace(rows[k])'
    BY <1>2, <2>1, Zenon DEF InPlace, Counts
  <2>. QED
    BY <2>5, <2>6
<1>4. ASSUME NEW t
      PROVE  CoveredOnce(t) => CoveredOnce(t)'
  <2>1. \A k \in DOMAIN rows : Covers(rows[k], t) <=> Covers(rows'[k], t)
    BY StillThere DEF Covers
  <2>. QED
    BY <1>2, <2>1, Zenon DEF CoveredOnce, Covers
<1>5. Occurrences(base, sched.next - 1)' = Occurrences(base, sched.next - 1)
  BY <1>2 DEF Occurrences
<1>. QED
  BY <1>2, <1>3, <1>4, <1>5, Zenon DEF NInv

(* A new instant or timetable is of the future.                             *)
LEMMA RenewsBoth ==
  ASSUME Typed, Typed', DInv, NInv, Renews
  PROVE  DInv' /\ NInv'
<1>1. now \in Nat /\ offered \subseteq Nat /\ DOMAIN rows = 1..Len(rows) /\ Len(rows) \in Nat
      /\ \A k \in DOMAIN rows : rows[k] \in Row
  BY Types, Members DEF Typed
<1>2. /\ rows' = rows /\ now' = now /\ offered' = offered
      /\ sched'.runAt # Recurring => sched'.runAt > now /\ sched'.next = sched'.runAt
      /\ sched'.runAt = Recurring => sched'.next > now /\ base' = sched'.next
  BY DEF Renews
<1>3. sched'.runAt \in Nat /\ sched'.next \in Nat
  <2>1. sched' \in Sched
    BY DEF Typed, TypeOK
  <2>. QED
    BY <2>1 DEF Sched
<1>4. SchedFine'
  <2>1. \A t \in offered' : t \in Nat /\ t <= now
    BY <1>1, <1>2 DEF DInv, SchedFine
  <2>2. sched'.runAt # Recurring => sched'.runAt \notin offered'
    BY <1>1, <1>2, <1>3, <2>1
  <2>3. sched'.runAt = Recurring => \A t \in offered' : t < sched'.next
    BY <1>1, <1>2, <1>3, <2>1
  <2>. QED
    BY <1>2, <2>1, <2>2, <2>3 DEF SchedFine
<1>5. ASSUME NEW k \in DOMAIN rows
      PROVE  RowFine(k)' /\ Bygone(rows[k])' /\ rows[k].until <= now /\ rows[k].until \in Nat
  <2>1. rows[k] \in Row /\ RowFine(k) /\ Bygone(rows[k])
    BY <1>1 DEF DInv, NInv
  <2>2. /\ rows[k].occurrence \in Nat /\ rows[k].occurrence <= now
        /\ rows[k].until \in Nat /\ rows[k].until <= now
    BY <2>1, RowTimes DEF RowFine, Bygone
  <2>3. sched'.runAt # Recurring => rows[k].occurrence # sched'.runAt
    BY <1>1, <1>2, <1>3, <2>2
  <2>4. RowFine(k)'
    BY <1>2, <2>1, <2>3, Zenon DEF RowFine
  <2>. QED
    BY <1>2, <2>1, <2>2, <2>4 DEF Bygone
<1>6. DInv'
  BY <1>2, <1>4, <1>5, Zenon DEF DInv
<1>7. ASSUME OnHistory'
      PROVE  /\ (base <= sched.next)'
             /\ \A i \in DOMAIN rows' : InPlace(rows[i])'
             /\ \A t \in Occurrences(base, sched.next - 1)' : CoveredOnce(t)'
  <2>1. sched'.next > now /\ base' = sched'.next
    BY <1>2, <1>7 DEF OnHistory
  <2>2. Occurrences(base, sched.next - 1)' = {}
    BY <1>3, <2>1 DEF Occurrences
  <2>3. \A i \in DOMAIN rows : rows[i].until < base'
    BY <1>1, <1>3, <1>5, <2>1
  <2>. QED
    BY <1>2, <1>3, <2>1, <2>2, <2>3 DEF InPlace
<1>. QED
  BY <1>2, <1>5, <1>6, <1>7, Zenon DEF NInv

(* A record of the timetable, by its numbers.                               *)
LEMMA IntervalIs ==
  ASSUME NEW r \in Row, NEW m \in Nat, NEW n \in Nat, Interval(r, m, n)
  PROVE  /\ r.occurrence = m * Period /\ r.until = (m + n) * Period
         /\ r.occurrence \in Nat /\ r.until \in Nat /\ r.occurrence <= r.until
         /\ r.trigger # "manual" /\ (r.trigger = "missed" => r.status = "skipped")
         /\ \A j \in Nat : Covers(r, j * Period) <=> (m <= j /\ j <= m + n)
<1>1. r.occurrence = m * Period /\ r.until = (m + n) * Period /\ m + n \in Nat
  BY DEF Interval, Counts
<1>2. m * Period \in Nat /\ (m + n) * Period \in Nat /\ m * Period <= (m + n) * Period
  <2>1. m <= m + n
    OBVIOUS
  <2>. QED
    BY <1>1, <2>1, InOrder
<1>3. ASSUME NEW j \in Nat
      PROVE  Covers(r, j * Period) <=> (m <= j /\ j <= m + n)
  <2>1. m * Period <= j * Period <=> m <= j
    BY InOrder
  <2>2. j * Period <= (m + n) * Period <=> j <= m + n
    BY <1>1, InOrder
  <2>. QED
    BY <1>1, <2>1, <2>2 DEF Covers, Interval
<1>. QED
  BY <1>1, <1>2, <1>3 DEF Interval

(* A record written for what has fallen due.                                *)
LEMMA NewcomerIs ==
  ASSUME Typed, DInv, NInv, OnHistory, OnHistory', now' = now, offered' = offered, base' = base,
         NEW k \in Nat, NEW n \in Nat, sched.next = k * Period, sched'.next = (k + n + 1) * Period,
         (k + n) * Period <= now,
         NEW p, rows'[p] \in Row, NEW m \in Nat, NEW l \in Nat, Interval(rows'[p], m, l),
         k <= m, m + l <= k + n
  PROVE  RowFine(p)' /\ Bygone(rows[p])' /\ InPlace(rows[p])'
<1>. DEFINE r == rows'[p]
<1>1. /\ r.occurrence = m * Period /\ r.until = (m + l) * Period
      /\ r.occurrence \in Nat /\ r.until \in Nat /\ r.occurrence <= r.until
      /\ r.trigger # "manual" /\ (r.trigger = "missed" => r.status = "skipped")
  BY IntervalIs
<1>2. now \in Nat /\ offered \subseteq Nat /\ base \in Nat /\ sched.next \in Nat
  BY Types DEF Typed, Sched
<1>3. m + l \in Nat /\ k + n \in Nat /\ k + n + 1 \in Nat /\ m + l < k + n + 1
  OBVIOUS
<1>4. /\ k * Period \in Nat /\ (k + n) * Period \in Nat /\ (k + n + 1) * Period \in Nat
      /\ k * Period <= m * Period /\ (m + l) * Period <= (k + n) * Period
      /\ (m + l) * Period < (k + n + 1) * Period
  BY <1>3, InOrder
<1>5. r.until <= now /\ r.occurrence <= now
  BY <1>1, <1>2, <1>4
<1>6. r.occurrence \notin offered
  <2>1. \A t \in offered : t \in Nat /\ t < k * Period
    BY <1>2 DEF DInv, SchedFine, OnHistory
  <2>. QED
    BY <1>1, <1>4, <2>1
<1>7. sched'.runAt = Recurring
  BY DEF OnHistory
<1>8. RowFine(p)'
  BY <1>1, <1>5, <1>6, <1>7 DEF RowFine
<1>9. Bygone(rows[p])'
  BY <1>1, <1>5 DEF Bygone
<1>10. base <= r.occurrence
  <2>1. base <= k * Period
    BY DEF NInv
  <2>. QED
    BY <1>1, <1>2, <1>4, <2>1
<1>11. Counts(r, m, l)
  BY DEF Interval
<1>12. InPlace(rows[p])'
  BY <1>1, <1>4, <1>10, <1>11 DEF InPlace
<1>. QED
  BY <1>8, <1>9, <1>12

(* What was on record before is of before.                                  *)
LEMMA OldIs ==
  ASSUME Typed, DInv, NInv, Advances, NEW i \in DOMAIN rows
  PROVE  /\ RowFine(i)' /\ Bygone(rows[i])' /\ InPlace(rows[i])'
         /\ \A t \in Nat : base <= t /\ sched.next <= t => ~Covers(rows'[i], t)
<1>1. rows[i] \in Row /\ now \in Nat /\ base \in Nat /\ sched.next \in Nat
  BY Types, Members DEF Typed, Sched
<1>2. /\ rows'[i] = rows[i] /\ now' = now /\ offered' = offered /\ base' = base
      /\ OnHistory /\ OnHistory'
  BY DEF Advances
<1>3. RowFine(i) /\ Bygone(rows[i]) /\ InPlace(rows[i])
  BY <1>2 DEF DInv, NInv
<1>4. sched.next < sched'.next /\ sched'.next \in Nat
  <2>1. PICK k \in Nat, n \in Nat : sched.next = k * Period /\ sched'.next = (k + n + 1) * Period
    BY DEF Advances
  <2>2. k + n + 1 \in Nat /\ k < k + n + 1
    OBVIOUS
  <2>. QED
    BY <2>1, <2>2, InOrder
<1>5. RowFine(i)'
  <2>1. sched'.runAt = Recurring
    BY <1>2 DEF OnHistory
  <2>. QED
    BY <1>2, <1>3, <2>1, Zenon DEF RowFine
<1>6. Bygone(rows[i])'
  BY <1>2, <1>3, Zenon DEF Bygone
<1>7. rows[i].until \in Nat /\ rows[i].occurrence \in Nat
  BY <1>1, RowTimes
<1>8. rows[i].until < sched.next => rows[i].until < sched'.next
  BY <1>1, <1>4, <1>7
<1>9. InPlace(rows[i])'
  BY <1>2, <1>3, <1>8, Zenon DEF InPlace, Counts
<1>10. ASSUME NEW t \in Nat, base <= t, sched.next <= t
       PROVE  ~Covers(rows'[i], t)
  BY <1>1, <1>2, <1>3, <1>7, <1>10 DEF InPlace, Covers
<1>. QED
  BY <1>5, <1>6, <1>9, <1>10

(* The history is brought up to now.                                        *)
LEMMA AdvancesBoth ==
  ASSUME Typed, Typed', DInv, NInv, Advances
  PROVE  DInv' /\ NInv'
<1>1. now \in Nat /\ base \in Nat /\ sched.next \in Nat
  BY Types DEF Typed, Sched
<1>2. /\ now' = now /\ offered' = offered /\ base' = base /\ OnHistory /\ OnHistory'
      /\ \A i \in DOMAIN rows : rows'[i] = rows[i]
  BY DEF Advances
<1>3. PICK k \in Nat, n \in Nat :
        /\ sched.next = k * Period /\ sched'.next = (k + n + 1) * Period /\ (k + n) * Period <= now
        /\ \/ \E p \in Nat : /\ p \notin DOMAIN rows /\ DOMAIN rows' = DOMAIN rows \cup {p}
                             /\ Interval(rows'[p], k, n)
           \/ /\ n > 0
              /\ \E p, q \in Nat : /\ {p, q} \cap DOMAIN rows = {} /\ p # q
                                   /\ DOMAIN rows' = DOMAIN rows \cup {p, q}
                                   /\ Interval(rows'[p], k, n - 1)
                                   /\ Interval(rows'[q], k + n, 0)
  BY DEF Advances
<1>4. \A i \in DOMAIN rows' : rows'[i] \in Row
  <2>1. rows' \in Seq(Row)
    BY DEF Typed, TypeOK
  <2>. QED
    BY <2>1
<1>5. /\ k + n \in Nat /\ k + n + 1 \in Nat /\ k < k + n + 1
      /\ k * Period \in Nat /\ (k + n + 1) * Period \in Nat /\ k * Period < (k + n + 1) * Period
  <2>1. k + n \in Nat /\ k + n + 1 \in Nat /\ k < k + n + 1
    OBVIOUS
  <2>. QED
    BY <2>1, InOrder
<1>6. SchedFine'
  <2>1. sched'.runAt = Recurring /\ sched.runAt = Recurring
    BY <1>2 DEF OnHistory
  <2>2. \A t \in offered : t \in Nat /\ t < sched.next
    BY <2>1, Types DEF DInv, SchedFine, Typed
  <2>3. \A t \in offered : t < sched'.next
    BY <1>3, <1>5, <2>2
  <2>4. \A t \in offered : t <= now
    BY DEF DInv, SchedFine
  <2>. QED
    BY <1>2, <2>1, <2>3, <2>4, Zenon DEF SchedFine
<1>7. base' <= sched'.next
  <2>1. base <= sched.next
    BY <1>2 DEF NInv
  <2>. QED
    BY <1>1, <1>2, <1>3, <1>5, <2>1
<1>8. ASSUME NEW t \in Occurrences(base, sched.next - 1)'
      PROVE  \E j \in Nat : t = j * Period /\ base <= t /\ j <= k + n
  <2>1. t \in Nat /\ base <= t /\ t <= sched'.next - 1 /\ t % Period = 0
    BY <1>1, <1>2, <1>3, <1>5 DEF Occurrences
  <2>2. PICK j \in Nat : t = j * Period
    BY <2>1, Numbered
  <2>3. j * Period < (k + n + 1) * Period
    BY <1>3, <1>5, <2>1, <2>2
  <2>4. j < k + n + 1
    BY <1>5, <2>3, InOrder
  <2>5. j <= k + n
    BY <2>4
  <2>. QED
    BY <2>1, <2>2, <2>5
<1>9. ASSUME NEW j \in Nat, base <= j * Period, j < k
      PROVE  \E i \in DOMAIN rows : /\ Covers(rows[i], j * Period)
                                    /\ \A h \in DOMAIN rows \ {i} : ~Covers(rows[h], j * Period)
  <2>1. j * Period \in Nat /\ j * Period < k * Period
    BY <1>9, InOrder
  <2>2. (j * Period) % Period = 0
    BY Multiple
  <2>3. j * Period \in Occurrences(base, sched.next - 1)
    BY <1>1, <1>3, <1>5, <1>9, <2>1, <2>2 DEF Occurrences
  <2>. QED
    BY <1>2, <2>3, Zenon DEF NInv, CoveredOnce
<1>10. ASSUME NEW j \in Nat, base <= j * Period, k <= j, NEW i \in DOMAIN rows
       PROVE  ~Covers(rows'[i], j * Period)
  <2>1. j * Period \in Nat /\ sched.next <= j * Period
    BY <1>3, <1>10, InOrder
  <2>. QED
    BY <1>10, <2>1, OldIs
<1>11. CASE \E p \in Nat : /\ p \notin DOMAIN rows /\ DOMAIN rows' = DOMAIN rows \cup {p}
                           /\ Interval(rows'[p], k, n)
  <2>1. PICK p \in Nat : /\ p \notin DOMAIN rows /\ DOMAIN rows' = DOMAIN rows \cup {p}
                         /\ Interval(rows'[p], k, n)
    BY <1>11
  <2>2. rows'[p] \in Row /\ k <= k /\ k + n <= k + n
    BY <1>4, <1>5, <2>1
  <2>3. RowFine(p)' /\ Bygone(rows[p])' /\ InPlace(rows[p])'
    BY <1>2, <1>3, <2>1, <2>2, NewcomerIs
  <2>4. \A i \in DOMAIN rows' : RowFine(i)' /\ Bygone(rows[i])' /\ InPlace(rows[i])'
    BY <2>1, <2>3, OldIs
  <2>5. \A j \in Nat : Covers(rows'[p], j * Period) <=> (k <= j /\ j <= k + n)
    BY <2>1, <2>2, IntervalIs
  <2>6. ASSUME NEW j \in Nat, base <= j * Period, j <= k + n
        PROVE  CoveredOnce(j * Period)'
    <3>1. CASE j < k
      <4>1. ~Covers(rows'[p], j * Period)
        BY <2>5, <3>1
      <4>2. PICK i \in DOMAIN rows :
              /\ Covers(rows[i], j * Period)
              /\ \A h \in DOMAIN rows \ {i} : ~Covers(rows[h], j * Period)
        BY <1>9, <2>6, <3>1
      <4>3. /\ i \in DOMAIN rows' /\ Covers(rows'[i], j * Period)
            /\ \A h \in DOMAIN rows' \ {i} : ~Covers(rows'[h], j * Period)
        BY <1>2, <2>1, <4>1, <4>2
      <4>. QED
        BY <4>3, Zenon DEF CoveredOnce
    <3>2. CASE k <= j
      <4>1. Covers(rows'[p], j * Period)
        BY <2>5, <2>6, <3>2
      <4>. QED
        BY <1>10, <2>1, <2>6, <3>2, <4>1, Zenon DEF CoveredOnce
    <3>. QED
      BY <3>1, <3>2
  <2>7. \A t \in Occurrences(base, sched.next - 1)' : CoveredOnce(t)'
    BY <1>8, <2>6, Zenon
  <2>. QED
    BY <1>6, <1>7, <2>4, <2>7, Zenon DEF DInv, NInv
<1>12. CASE /\ n > 0
            /\ \E p, q \in Nat : /\ {p, q} \cap DOMAIN rows = {} /\ p # q
                                 /\ DOMAIN rows' = DOMAIN rows \cup {p, q}
                                 /\ Interval(rows'[p], k, n - 1)
                                 /\ Interval(rows'[q], k + n, 0)
  <2>1. PICK p \in Nat, q \in Nat : /\ p \notin DOMAIN rows /\ q \notin DOMAIN rows /\ p # q
                                    /\ DOMAIN rows' = DOMAIN rows \cup {p, q}
                                    /\ Interval(rows'[p], k, n - 1)
                                    /\ Interval(rows'[q], k + n, 0)
    BY <1>12
  <2>2. /\ rows'[p] \in Row /\ rows'[q] \in Row
        /\ n - 1 \in Nat /\ k <= k /\ k + (n - 1) <= k + n
        /\ k <= k + n /\ (k + n) + 0 <= k + n
    BY <1>4, <1>5, <1>12, <2>1
  <2>3. RowFine(p)' /\ Bygone(rows[p])' /\ InPlace(rows[p])'
    BY <1>2, <1>3, <2>1, <2>2, NewcomerIs
  <2>4. RowFine(q)' /\ Bygone(rows[q])' /\ InPlace(rows[q])'
    BY <1>2, <1>3, <1>5, <2>1, <2>2, NewcomerIs
  <2>5. \A i \in DOMAIN rows' : RowFine(i)' /\ Bygone(rows[i])' /\ InPlace(rows[i])'
    BY <2>1, <2>3, <2>4, OldIs
  <2>6. \A j \in Nat : Covers(rows'[p], j * Period) <=> (k <= j /\ j <= k + (n - 1))
    BY <2>1, <2>2, IntervalIs
  <2>7. \A j \in Nat : Covers(rows'[q], j * Period) <=> (k + n <= j /\ j <= (k + n) + 0)
    BY <1>5, <2>1, <2>2, IntervalIs
  <2>8. ASSUME NEW j \in Nat, base <= j * Period, j <= k + n
        PROVE  CoveredOnce(j * Period)'
    <3>1. CASE j < k
      <4>1. ~Covers(rows'[p], j * Period) /\ ~Covers(rows'[q], j * Period)
        BY <2>6, <2>7, <3>1
      <4>. QED
        BY <1>2, <1>9, <2>1, <2>8, <3>1, <4>1, Zenon DEF CoveredOnce
    <3>2. CASE k <= j /\ j # k + n
      <4>1. Covers(rows'[p], j * Period) /\ ~Covers(rows'[q], j * Period)
        BY <2>6, <2>7, <2>8, <3>2
      <4>. QED
        BY <1>10, <2>1, <2>8, <3>2, <4>1, Zenon DEF CoveredOnce
    <3>3. CASE j = k + n
      <4>1. ~Covers(rows'[p], j * Period) /\ Covers(rows'[q], j * Period) /\ k <= j
        BY <2>6, <2>7, <3>3
      <4>. QED
        BY <1>10, <2>1, <2>8, <4>1, Zenon DEF CoveredOnce
    <3>. QED
      BY <3>1, <3>2, <3>3
  <2>9. \A t \in Occurrences(base, sched.next - 1)' : CoveredOnce(t)'
    BY <1>8, <2>8, Zenon
  <2>. QED
    BY <1>6, <1>7, <2>5, <2>9, Zenon DEF DInv, NInv
<1>. QED
  BY <1>3, <1>11, <1>12

-----------------------------------------------------------------------------
(* Steps that record what has fallen due.                                   *)

(* One record is written.                                                   *)
LEMMA WroteOne ==
  ASSUME TypeOK, NEW r \in Row, Write(<<r>>)
  PROVE  /\ Len(rows) + 1 \in Nat /\ Len(rows) + 1 \notin DOMAIN rows
         /\ DOMAIN rows' = DOMAIN rows \cup {Len(rows) + 1}
         /\ rows'[Len(rows) + 1] = r
         /\ \A i \in DOMAIN rows : rows'[i] = rows[i]
<1>1. <<r>> \in Seq(Row) /\ Len(<<r>>) = 1 /\ <<r>>[1] = r
  OBVIOUS
<1>2. DOMAIN rows = 1..Len(rows) /\ Len(rows) \in Nat
  BY Types
<1>3. /\ rows' \in Seq(Row) /\ Len(rows') = Len(rows) + Len(<<r>>)
      /\ \A k \in DOMAIN rows : rows'[k] = rows[k]
      /\ \A k \in DOMAIN rows' : k \notin DOMAIN rows => rows'[k] = <<r>>[k - Len(rows)]
  BY <1>1, Written
<1>4. DOMAIN rows' = 1..(Len(rows) + 1)
  BY <1>1, <1>2, <1>3
<1>5. Len(rows) + 1 \in DOMAIN rows' /\ Len(rows) + 1 \notin DOMAIN rows /\ (Len(rows) + 1) - Len(rows) = 1
  BY <1>2, <1>4
<1>6. rows'[Len(rows) + 1] = r
  BY <1>1, <1>3, <1>5
<1>. QED
  BY <1>2, <1>3, <1>4, <1>5, <1>6

(* Two are.                                                                 *)
LEMMA WroteTwo ==
  ASSUME TypeOK, NEW m \in Row, NEW r \in Row, Write(<<m>> \o <<r>>)
  PROVE  /\ Len(rows) + 1 \in Nat /\ Len(rows) + 2 \in Nat /\ Len(rows) + 1 # Len(rows) + 2
         /\ {Len(rows) + 1, Len(rows) + 2} \cap DOMAIN rows = {}
         /\ DOMAIN rows' = DOMAIN rows \cup {Len(rows) + 1, Len(rows) + 2}
         /\ rows'[Len(rows) + 1] = m /\ rows'[Len(rows) + 2] = r
         /\ \A i \in DOMAIN rows : rows'[i] = rows[i]
<1>. DEFINE both == <<m>> \o <<r>>
<1>1. both \in Seq(Row) /\ Len(both) = 2 /\ both[1] = m /\ both[2] = r
  OBVIOUS
<1>. HIDE DEF both
<1>2. DOMAIN rows = 1..Len(rows) /\ Len(rows) \in Nat
  BY Types
<1>3. /\ rows' \in Seq(Row) /\ Len(rows') = Len(rows) + Len(both)
      /\ \A k \in DOMAIN rows : rows'[k] = rows[k]
      /\ \A k \in DOMAIN rows' : k \notin DOMAIN rows => rows'[k] = both[k - Len(rows)]
  <2>1. Write(both)
    BY DEF both
  <2>. QED
    BY <1>1, <2>1, Written
<1>4. DOMAIN rows' = 1..(Len(rows) + 2)
  BY <1>1, <1>2, <1>3
<1>5. /\ Len(rows) + 1 \in DOMAIN rows' /\ Len(rows) + 1 \notin DOMAIN rows /\ (Len(rows) + 1) - Len(rows) = 1
      /\ Len(rows) + 2 \in DOMAIN rows' /\ Len(rows) + 2 \notin DOMAIN rows /\ (Len(rows) + 2) - Len(rows) = 2
  BY <1>2, <1>4
<1>6. rows'[Len(rows) + 1] = m /\ rows'[Len(rows) + 2] = r
  BY <1>1, <1>3, <1>5
<1>. QED
  BY <1>2, <1>3, <1>4, <1>5, <1>6

(* The fields of a missed interval.                                         *)
LEMMA MissedFields ==
  ASSUME NEW first, NEW last, NEW count
  PROVE  /\ MissedRecord(first, last, count).occurrence = first
         /\ MissedRecord(first, last, count).until = last
         /\ MissedRecord(first, last, count).count = Capped(count)
         /\ MissedRecord(first, last, count).trigger = "missed"
         /\ MissedRecord(first, last, count).status = "skipped"
BY DEF MissedRecord, NewRun, Capped

(* And of a run.                                                            *)
LEMMA RunFields ==
  ASSUME NEW at, NEW trigger, NEW r \in {NewRun(at, trigger), OrSkipped(NewRun(at, trigger))}
  PROVE  /\ r.occurrence = at /\ r.until = at /\ r.count = 1
         /\ r.trigger = trigger /\ r.key = (trigger # "manual")
<1>. DEFINE a == NewRun(at, trigger)
<1>. DEFINE b == [a EXCEPT !.status = "skipped"]
<1>1. a.occurrence = at /\ a.until = at /\ a.count = 1 /\ a.trigger = trigger /\ a.key = (trigger # "manual")
  BY DEF NewRun
<1>2. b.occurrence = at /\ b.until = at /\ b.count = 1 /\ b.trigger = trigger /\ b.key = (trigger # "manual")
  BY DEF NewRun
<1>3. r = a \/ r = b
  BY DEF OrSkipped
<1>. HIDE DEF a, b
<1>. QED
  BY <1>1, <1>2, <1>3, Zenon

(* One occurrence counts as one.                                            *)
LEMMA CappedOne == Capped(1) = 1
<1>1. MissedCap \in Nat \ {0}
  BY SchedulerAssumption
<1>. QED
  BY <1>1 DEF Capped

(* Nothing on record claims what comes next.                                *)
LEMMA NextIsFree ==
  ASSUME Typed, NInv, OnHistory
  PROVE  ~Claimed(sched.next)
<1>1. SUFFICES ASSUME NEW i \in DOMAIN rows, rows[i].key, rows[i].occurrence = sched.next
               PROVE  FALSE
  BY DEF Claimed
<1>2. rows[i] \in Row /\ base \in Nat /\ sched.next \in Nat
  BY Types, Members DEF Typed, Sched
<1>3. rows[i].occurrence \in Nat /\ rows[i].until \in Nat
  BY <1>2, RowTimes
<1>4. rows[i].occurrence <= rows[i].until /\ rows[i].trigger # "manual"
  BY <1>1 DEF NInv, Bygone
<1>5. base <= sched.next /\ (rows[i].until < base \/ rows[i].until < sched.next)
  BY <1>4 DEF NInv, InPlace
<1>. QED
  BY <1>1, <1>2, <1>3, <1>4, <1>5

(* The records of what has fallen due since the k-th occurrence.            *)
LEMMA MissedInterval ==
  ASSUME NEW m \in Nat, NEW n \in Nat
  PROVE  /\ MissedRecord(m * Period, (m + n) * Period, n + 1) \in Row
         /\ Interval(MissedRecord(m * Period, (m + n) * Period, n + 1), m, n)
<1>1. m * Period \in Nat /\ (m + n) * Period \in Nat /\ n + 1 \in Nat /\ m + n \in Nat
  <2>1. m + n \in Nat /\ n + 1 \in Nat
    OBVIOUS
  <2>. QED
    BY <2>1, InOrder
<1>. QED
  BY <1>1, MissedTyped, MissedFields DEF Interval, Counts

LEMMA RunInterval ==
  ASSUME NEW m \in Nat, NEW trigger \in {"cron", "catch-up"}
  PROVE  /\ OrSkipped(NewRun(m * Period, trigger)) \in Row
         /\ Interval(OrSkipped(NewRun(m * Period, trigger)), m, 0)
<1>. DEFINE r == OrSkipped(NewRun(m * Period, trigger))
<1>1. m * Period \in Nat /\ m + 0 = m /\ 0 + 1 = 1
  BY InOrder
<1>2. r \in Row
  BY <1>1, NewRunTyped, OrSkippedTyped
<1>3. r.occurrence = m * Period /\ r.until = m * Period /\ r.count = 1 /\ r.trigger = trigger
  BY RunFields
<1>. HIDE DEF r
<1>4. Interval(r, m, 0)
  BY <1>1, <1>3, CappedOne DEF Interval, Counts
<1>. QED
  BY <1>2, <1>4 DEF r

(* reconcile: the timetable is brought up to now.                           *)
LEMMA TickAdvances ==
  ASSUME Typed, NInv, TickRecurring
  PROVE  Advances
<1>. DEFINE latest == Latest(now)
<1>. DEFINE catchUp == /\ ~IsOnTime(latest)
                       /\ sched.catchUp = "latest"
                       /\ Following(now) - now >= Lead
<1>. DEFINE trigger == IF catchUp THEN "catch-up" ELSE "cron"
<1>. DEFINE run == NewRun(latest, trigger)
<1>. DEFINE runs == IsOnTime(latest) \/ catchUp
<1>1. /\ sched.runAt = Recurring /\ sched.next <= now /\ sched.phase = "live"
      /\ sched' = [sched EXCEPT !.next = Following(now)]
      /\ now' = now /\ offered' = offered /\ base' = base
  BY DEF TickRecurring, Due, history
<1>2. Write(IF runs THEN EarlierMissed \o <<OrSkipped(run)>>
            ELSE <<MissedRecord(sched.next, latest, CountSince(sched.next, now))>>)
  BY DEF TickRecurring
<1>3. trigger \in {"cron", "catch-up"}
  OBVIOUS
<1>. HIDE DEF trigger, runs
<1>4. TypeOK /\ sched \in Sched /\ now \in Nat
  BY Types DEF Typed
<1>5. OnHistory /\ OnHistory' /\ sched'.next = Following(now)
  BY <1>1, <1>4 DEF OnHistory, Sched
<1>6. ~Claimed(sched.next)
  BY <1>5, NextIsFree
<1>7. PICK k \in Nat : sched.next = k * Period
  BY <1>1 DEF Typed, OnTimetable
<1>8. PICK n \in Nat : /\ latest = (k + n) * Period
                       /\ Following(now) = (k + n + 1) * Period
                       /\ (k + n) * Period <= now
                       /\ CountSince(k * Period, now) = n + 1
                       /\ n > 0 => latest - Period = (k + (n - 1)) * Period
  BY <1>1, <1>4, <1>7, DueSince
<1>. HIDE DEF latest
<1>9. k + n \in Nat
  OBVIOUS
<1>10. OrSkipped(run) \in Row /\ Interval(OrSkipped(run), k + n, 0)
  BY <1>3, <1>8, <1>9, RunInterval
<1>. HIDE DEF run
<1>11. CASE ~runs
  <2>. DEFINE m == MissedRecord(sched.next, latest, CountSince(sched.next, now))
  <2>1. Write(<<m>>)
    BY <1>2, <1>11
  <2>2. m \in Row /\ Interval(m, k, n)
    BY <1>7, <1>8, MissedInterval
  <2>. HIDE DEF m
  <2>3. /\ Len(rows) + 1 \in Nat /\ Len(rows) + 1 \notin DOMAIN rows
        /\ DOMAIN rows' = DOMAIN rows \cup {Len(rows) + 1}
        /\ rows'[Len(rows) + 1] = m
        /\ \A i \in DOMAIN rows : rows'[i] = rows[i]
    BY <1>4, <2>1, <2>2, WroteOne
  <2>. QED
    BY <1>1, <1>5, <1>7, <1>8, <2>2, <2>3, Zenon DEF Advances
<1>12. CASE runs /\ n = 0
  <2>1. EarlierMissed = <<>>
    BY <1>7, <1>8, <1>12 DEF EarlierMissed
  <2>2. <<>> \o <<OrSkipped(run)>> = <<OrSkipped(run)>>
    BY <1>10
  <2>3. Write(<<OrSkipped(run)>>)
    BY <1>2, <1>12, <2>1, <2>2
  <2>4. /\ Len(rows) + 1 \in Nat /\ Len(rows) + 1 \notin DOMAIN rows
        /\ DOMAIN rows' = DOMAIN rows \cup {Len(rows) + 1}
        /\ rows'[Len(rows) + 1] = OrSkipped(run)
        /\ \A i \in DOMAIN rows : rows'[i] = rows[i]
    BY <1>4, <1>10, <2>3, WroteOne
  <2>5. Interval(OrSkipped(run), k, n)
    BY <1>10, <1>12
  <2>. QED
    BY <1>1, <1>5, <1>7, <1>8, <2>4, <2>5, Zenon DEF Advances
<1>13. CASE runs /\ n > 0
  <2>. DEFINE m == MissedRecord(sched.next, latest - Period, CountSince(sched.next, now) - 1)
  <2>1. EarlierMissed = <<m>>
    <3>1. CountSince(sched.next, now) > 1
      BY <1>7, <1>8, <1>13
    <3>. QED
      BY <1>6, <3>1 DEF EarlierMissed, latest
  <2>2. m \in Row /\ Interval(m, k, n - 1)
    <3>1. n - 1 \in Nat /\ (n - 1) + 1 = n /\ (n + 1) - 1 = n
      BY <1>13
    <3>2. m = MissedRecord(k * Period, (k + (n - 1)) * Period, (n - 1) + 1)
      BY <1>7, <1>8, <1>13, <3>1
    <3>. QED
      BY <3>1, <3>2, MissedInterval
  <2>. HIDE DEF m
  <2>3. Write(<<m>> \o <<OrSkipped(run)>>)
    BY <1>2, <1>13, <2>1
  <2>4. /\ Len(rows) + 1 \in Nat /\ Len(rows) + 2 \in Nat /\ Len(rows) + 1 # Len(rows) + 2
        /\ {Len(rows) + 1, Len(rows) + 2} \cap DOMAIN rows = {}
        /\ DOMAIN rows' = DOMAIN rows \cup {Len(rows) + 1, Len(rows) + 2}
        /\ rows'[Len(rows) + 1] = m /\ rows'[Len(rows) + 2] = OrSkipped(run)
        /\ \A i \in DOMAIN rows : rows'[i] = rows[i]
    BY <1>4, <1>10, <2>2, <2>3, WroteTwo
  <2>. QED
    <3>1. Interval(rows'[Len(rows) + 1], k, n - 1) /\ Interval(rows'[Len(rows) + 2], k + n, 0)
      BY <1>10, <2>2, <2>4, Zenon
    <3>. DEFINE p == Len(rows) + 1
    <3>. DEFINE q == Len(rows) + 2
    <3>2. /\ p \in Nat /\ q \in Nat /\ {p, q} \cap DOMAIN rows = {} /\ p # q
          /\ DOMAIN rows' = DOMAIN rows \cup {p, q}
          /\ Interval(rows'[p], k, n - 1) /\ Interval(rows'[q], k + n, 0)
      BY <2>4, <3>1, Zenon
    <3>. HIDE DEF p, q
    <3>3. sched.next = k * Period /\ sched'.next = (k + n + 1) * Period /\ (k + n) * Period <= now /\ n > 0
      BY <1>5, <1>7, <1>8, <1>13, Zenon
    <3>. QED
      BY <1>1, <1>5, <2>4, <3>2, <3>3, Zenon DEF Advances
<1>. QED
  BY <1>11, <1>12, <1>13

(* recordMissed: so is that of a schedule that is resumed.                  *)
LEMMA ResumeAdvances ==
  ASSUME Typed, NInv, OnHistory, OnHistory', sched.next <= now,
         Write(IF Claimed(sched.next) THEN <<>> ELSE <<Paused>>),
         sched'.next = Following(now), now' = now, offered' = offered, base' = base
  PROVE  Advances
<1>1. TypeOK /\ now \in Nat
  BY Types DEF Typed
<1>2. Write(<<Paused>>)
  BY NextIsFree
<1>3. PICK k \in Nat : sched.next = k * Period
  BY DEF Typed, OnTimetable, OnHistory
<1>4. PICK n \in Nat : /\ Latest(now) = (k + n) * Period
                       /\ Following(now) = (k + n + 1) * Period
                       /\ (k + n) * Period <= now
                       /\ CountSince(k * Period, now) = n + 1
  BY <1>1, <1>3, DueSince
<1>5. Paused \in Row /\ Interval(Paused, k, n)
  BY <1>3, <1>4, MissedInterval DEF Paused
<1>6. /\ Len(rows) + 1 \in Nat /\ Len(rows) + 1 \notin DOMAIN rows
      /\ DOMAIN rows' = DOMAIN rows \cup {Len(rows) + 1}
      /\ rows'[Len(rows) + 1] = Paused
      /\ \A i \in DOMAIN rows : rows'[i] = rows[i]
  BY <1>1, <1>2, <1>5, WroteOne
<1>. QED
  BY <1>3, <1>4, <1>5, <1>6, Zenon DEF Advances

(* An edit.                                                                 *)
LEMMA UpdateBoth ==
  ASSUME Typed, Typed', DInv, NInv, Records,
         NEW ask \in Asks, NEW runAt \in Nat, NEW enabled \in BOOLEAN, NEW catchUp \in Policies,
         Update(ask, runAt, enabled, catchUp)
  PROVE  DInv' /\ NInv'
<1>. DEFINE e == Edited(ask, runAt, enabled, catchUp)
<1>. DEFINE resumed == Resumes(runAt, enabled) /\ runAt = Recurring /\ e.next <= now
<1>. DEFINE new == IF Claimed(sched.next) THEN <<>> ELSE <<Paused>>
<1>1. TypeOK /\ sched \in Sched /\ now \in Nat /\ sched.phase = "live"
  BY Types DEF Typed, Update
<1>2. /\ e.runAt = runAt /\ e.phase = "live"
      /\ e.next = IF runAt # Recurring THEN runAt
                  ELSE IF sched.runAt # Recurring THEN Following(now) ELSE sched.next
      /\ e.fired = IF runAt # sched.runAt THEN NoRun ELSE sched.fired
      /\ runAt = sched.runAt => e.deferred = sched.deferred
  BY <1>1 DEF Edited, Sched
<1>3. /\ \/ ~resumed /\ sched' = e /\ UNCHANGED <<rows, tasks, fault>>
         \/ resumed /\ Write(new) /\ sched' = [e EXCEPT !.next = Following(now)] /\ UNCHANGED fault
         \/ /\ resumed /\ Write(new)
            /\ sched' = IF Claimed(sched.next) THEN sched
                        ELSE [sched EXCEPT !.next = Following(now)]
            /\ fault' = TRUE
      /\ base' = IF runAt = Recurring /\ sched.runAt # Recurring THEN sched'.next ELSE base
      /\ now' = now /\ offered' = offered
  BY Zenon DEF Update
<1>4. runAt # Recurring /\ runAt # sched.runAt => runAt >= now + Floor
  BY DEF Update
<1>5. /\ e \in Sched
      /\ resumed => sched.runAt = Recurring /\ sched.next <= now
  BY EditedIs
<1>. HIDE DEF e
<1>6. CASE ~resumed /\ sched' = e /\ rows' = rows /\ runAt = sched.runAt
  <2>1. sched'.next = sched.next
    BY <1>2, <1>6 DEF DInv, SchedFine
  <2>2. sched'.fired = sched.fired /\ sched'.deferred = sched.deferred /\ sched'.runAt = sched.runAt
    BY <1>2, <1>6, Zenon
  <2>3. base' = base
    BY <1>3, <1>6
  <2>4. Keeps
    BY <1>1, <1>2, <1>3, <1>6, <2>1, <2>2, <2>3 DEF Keeps, SameRule, SameClaim
  <2>. QED
    BY <2>4, KeepsDue, KeepsHistory
<1>7. CASE ~resumed /\ sched' = e /\ rows' = rows /\ runAt # sched.runAt
  <2>1. Following(now) > now
    BY <1>1, Timetable
  <2>2. runAt # Recurring => runAt > now
    BY <1>1, <1>4, <1>7, SchedulerAssumption
  <2>3. Renews
    BY <1>2, <1>3, <1>7, <2>1, <2>2 DEF Renews
  <2>. QED
    BY <2>3, RenewsBoth
<1>8. CASE resumed /\ Write(new)
  <2>1. sched.runAt = Recurring /\ runAt = Recurring /\ sched.next <= now
    BY <1>5, <1>8
  <2>2. OnHistory
    BY <1>1, <2>1 DEF OnHistory
  <2>3. ~Claimed(sched.next)
    BY <2>2, NextIsFree
  <2>4. sched' = [e EXCEPT !.next = Following(now)] \/ sched' = [sched EXCEPT !.next = Following(now)]
    BY <1>3, <1>8, <2>3
  <2>5. sched'.next = Following(now) /\ OnHistory'
    BY <1>1, <1>2, <1>5, <2>1, <2>4 DEF OnHistory, Sched
  <2>6. base' = base
    BY <1>3, <2>1
  <2>7. Advances
    BY <1>3, <1>8, <2>1, <2>2, <2>5, <2>6, ResumeAdvances
  <2>. QED
    BY <2>7, AdvancesBoth
<1>. HIDE DEF new, resumed
<1>. QED
  BY <1>3, <1>6, <1>7, <1>8

(* A schedule begins with an instant or a timetable of the future.          *)
LEMMA CreateBoth ==
  ASSUME Typed, Typed', DInv, NInv,
         NEW runAt \in Instants, NEW c \in Policies, NEW e \in BOOLEAN, Create(runAt, c, e)
  PROVE  DInv' /\ NInv'
<1>1. now \in Nat /\ runAt \in Nat
  BY Types, SchedulerAssumption DEF Typed
<1>2. Following(now) > now
  BY <1>1, Timetable
<1>3. /\ rows' = rows /\ now' = now /\ offered' = offered /\ base' = sched'.next
      /\ runAt # Recurring => runAt >= now + Floor
      /\ sched'.runAt = runAt /\ sched'.fired = NoRun
      /\ sched'.next = IF runAt = Recurring THEN Following(now) ELSE runAt
  BY DEF Create
<1>4. runAt # Recurring => runAt > now
  BY <1>1, <1>3, SchedulerAssumption
<1>5. Renews
  BY <1>2, <1>3, <1>4 DEF Renews
<1>. QED
  BY <1>5, RenewsBoth

(* Another timetable begins in the future too.                              *)
LEMMA RetimeBoth ==
  ASSUME Typed, Typed', DInv, NInv, Retime
  PROVE  DInv' /\ NInv'
<1>1. sched \in Sched /\ now \in Nat
  BY Types DEF Typed
<1>2. Following(now) > now
  BY <1>1, Timetable
<1>3. /\ rows' = rows /\ now' = now /\ offered' = offered /\ base' = Following(now)
      /\ sched' = [sched EXCEPT !.next = Following(now)] /\ sched.runAt = Recurring
  BY DEF Retime
<1>4. sched'.runAt = Recurring /\ sched'.next = Following(now)
  BY <1>1, <1>3 DEF Sched
<1>5. Renews
  BY <1>2, <1>3, <1>4 DEF Renews
<1>. QED
  BY <1>5, RenewsBoth

(* A run of the user is no occurrence.                                      *)
LEMMA RunNowBoth ==
  ASSUME Typed, DInv, NInv, RunNow
  PROVE  DInv' /\ NInv'
<1>. DEFINE r == OrSkipped(NewRun(Unplanned, "manual"))
<1>1. TypeOK /\ now \in Nat
  BY Types DEF Typed
<1>2. r \in Row
  BY NewRunTyped, OrSkippedTyped DEF Unplanned
<1>3. r.occurrence = 0 /\ r.until = 0 /\ r.trigger = "manual" /\ r.key = FALSE
  <2>1. r \in {NewRun(0, "manual"), OrSkipped(NewRun(0, "manual"))}
    BY DEF Unplanned
  <2>. HIDE DEF r
  <2>2. r.occurrence = 0 /\ r.until = 0 /\ r.trigger = "manual" /\ r.key = ("manual" # "manual")
    BY <2>1, RunFields
  <2>. QED
    BY <2>2
<1>4. Write(<<r>>) /\ now' = now /\ sched' = sched /\ base' = base /\ offered' = offered
  BY DEF RunNow, history
<1>. HIDE DEF r
<1>5. PICK p : /\ p \notin DOMAIN rows /\ DOMAIN rows' = DOMAIN rows \cup {p} /\ rows'[p] = r
               /\ \A i \in DOMAIN rows : rows'[i] = rows[i]
  BY <1>1, <1>2, <1>4, WroteOne
<1>6. RowFine(p)' /\ Bygone(rows[p])' /\ InPlace(rows[p])' /\ \A t : ~Covers(rows'[p], t)
  <2>1. RowFine(p)'
    BY <1>1, <1>3, <1>4, <1>5 DEF RowFine
  <2>2. Bygone(rows[p])'
    BY <1>1, <1>3, <1>4, <1>5 DEF Bygone
  <2>3. InPlace(rows[p])'
    BY <1>3, <1>5, Zenon DEF InPlace
  <2>4. \A t : ~Covers(rows'[p], t)
    BY <1>3, <1>5, Zenon DEF Covers
  <2>. QED
    BY <2>1, <2>2, <2>3, <2>4
<1>7. ASSUME NEW i \in DOMAIN rows
      PROVE  RowFine(i)' /\ Bygone(rows[i])' /\ (InPlace(rows[i]) => InPlace(rows[i])')
  <2>1. RowFine(i) /\ Bygone(rows[i])
    BY DEF DInv, NInv
  <2>. QED
    <3>1. RowFine(i)'
      BY <1>4, <1>5, <2>1, Zenon DEF RowFine
    <3>2. Bygone(rows[i])'
      BY <1>4, <1>5, <2>1, Zenon DEF Bygone
    <3>3. InPlace(rows[i]) => InPlace(rows[i])'
      <4>1. rows'[i] = rows[i] /\ sched'.next = sched.next /\ base' = base
        BY <1>4, <1>5
      <4>. QED
        BY <4>1 DEF InPlace, Counts
    <3>. QED
      BY <3>1, <3>2, <3>3
<1>8. SchedFine'
  BY <1>4, Zenon DEF DInv, SchedFine
<1>9. ASSUME NEW t, CoveredOnce(t)
      PROVE  CoveredOnce(t)'
  <2>1. PICK i \in DOMAIN rows : /\ Covers(rows[i], t)
                                 /\ \A h \in DOMAIN rows \ {i} : ~Covers(rows[h], t)
    BY <1>9 DEF CoveredOnce
  <2>2. /\ i \in DOMAIN rows' /\ Covers(rows'[i], t)
        /\ \A h \in DOMAIN rows' \ {i} : ~Covers(rows'[h], t)
    BY <1>5, <1>6, <2>1
  <2>. QED
    BY <2>2, Zenon DEF CoveredOnce
<1>10. OnHistory' <=> OnHistory
  BY <1>4 DEF OnHistory
<1>11. Occurrences(base, sched.next - 1)' = Occurrences(base, sched.next - 1)
  BY <1>4 DEF Occurrences
<1>12. DInv'
  <2>1. \A i \in DOMAIN rows' : RowFine(i)'
    BY <1>5, <1>6, <1>7, Zenon
  <2>. QED
    BY <1>8, <2>1, Zenon DEF DInv
<1>13. \A i \in DOMAIN rows' : Bygone(rows[i])'
  BY <1>5, <1>6, <1>7, Zenon
<1>14. OnHistory => \A i \in DOMAIN rows' : InPlace(rows[i])'
  BY <1>5, <1>6, <1>7, Zenon DEF NInv
<1>. QED
  BY <1>4, <1>9, <1>10, <1>11, <1>12, <1>13, <1>14, Zenon DEF NInv

(* A one-off that is due waits, is written off or is run.                   *)
LEMMA TickOneOffBoth ==
  ASSUME Typed, DInv, NInv, TickOneOff
  PROVE  DInv' /\ NInv'
<1>1. /\ TypeOK /\ now \in Nat /\ offered \subseteq Nat /\ sched \in Sched /\ sched.runAt \in Nat
      /\ Len(rows) \in Nat /\ DOMAIN rows = 1..Len(rows)
  BY Types DEF Typed, Sched
<1>2. /\ sched.runAt # Recurring /\ sched.next <= now /\ sched.fired = NoRun
      /\ now' = now /\ base' = base
      /\ offered' = IF IsOnTime(sched.runAt) THEN offered \cup {sched.runAt} ELSE offered
  BY DEF TickOneOff, Due
<1>3. sched.next = sched.runAt /\ sched.runAt <= now
  BY <1>2 DEF DInv, SchedFine
<1>4. \/ sched' = [sched EXCEPT !.deferred = TRUE]
      \/ sched' = [sched EXCEPT !.deferred = FALSE, !.fired = Len(rows) + 1]
  BY DEF TickOneOff
<1>5. /\ sched'.runAt = sched.runAt /\ sched'.next = sched.next
      /\ sched'.deferred = TRUE \/ sched'.fired = Len(rows) + 1
  BY <1>1, <1>4 DEF Sched
<1>6. ~OnHistory'
  BY <1>2, <1>5 DEF OnHistory
<1>7. SchedFine'
  <2>1. \A t \in offered' : t <= now'
    BY <1>2, <1>3 DEF DInv, SchedFine
  <2>2. sched'.fired = NoRun => sched'.deferred = TRUE
    BY <1>1, <1>5 DEF NoRun
  <2>. QED
    BY <1>2, <1>3, <1>5, <2>1, <2>2 DEF SchedFine
<1>8. ASSUME NEW k \in DOMAIN rows, rows'[k] = rows[k]
      PROVE  RowFine(k)' /\ Bygone(rows[k])'
  <2>1. RowFine(k) /\ Bygone(rows[k]) /\ rows[k] \in Row
    BY <1>1, Members DEF DInv, NInv
  <2>2. k # sched.fired
    BY <1>1, <1>2 DEF NoRun
  <2>3. rows[k].trigger = "missed" => /\ rows[k].status = "skipped" /\ rows[k].occurrence \notin offered
                                      /\ rows[k].occurrence # sched.runAt
    BY <1>2, <2>1, <2>2, Zenon DEF RowFine
  <2>4. rows[k].trigger = "missed" => rows[k].occurrence \notin offered'
    BY <1>2, <2>3
  <2>5. RowFine(k)'
    BY <1>2, <1>5, <1>8, <2>1, <2>3, <2>4, Zenon DEF RowFine
  <2>6. Bygone(rows[k])'
    BY <1>2, <1>8, <2>1, Zenon DEF Bygone
  <2>. QED
    BY <2>5, <2>6
<1>9. CASE Busy
  <2>1. rows' = rows
    BY <1>9 DEF TickOneOff
  <2>2. \A k \in DOMAIN rows' : RowFine(k)' /\ Bygone(rows[k])'
    BY <1>8, <2>1
  <2>. QED
    BY <1>6, <1>7, <2>2, Zenon DEF DInv, NInv
<1>10. CASE ~Busy
  <2>. DEFINE trigger == IF IsOnTime(sched.runAt) THEN "cron" ELSE "catch-up"
  <2>. DEFINE r == IF WrittenOff(sched.runAt) THEN MissedRecord(sched.runAt, sched.runAt, 1)
                   ELSE NewRun(sched.runAt, trigger)
  <2>1. Write(<<r>>) /\ sched' = [sched EXCEPT !.deferred = FALSE, !.fired = Len(rows) + 1]
    BY <1>10 DEF TickOneOff
  <2>2. trigger \in {"cron", "catch-up"}
    OBVIOUS
  <2>. HIDE DEF trigger
  <2>3. /\ r \in Row /\ r.occurrence = sched.runAt /\ r.until = sched.runAt /\ r.trigger # "manual"
        /\ r.trigger = "missed" => r.status = "skipped" /\ WrittenOff(sched.runAt)
    <3>1. CASE WrittenOff(sched.runAt)
      <4>1. r = MissedRecord(sched.runAt, sched.runAt, 1)
        BY <3>1
      <4>. HIDE DEF r
      <4>2. r \in Row
        BY <1>1, <4>1, MissedTyped
      <4>. QED
        BY <3>1, <4>1, <4>2, MissedFields
    <3>2. CASE ~WrittenOff(sched.runAt)
      <4>1. r = NewRun(sched.runAt, trigger)
        BY <3>2
      <4>. HIDE DEF r
      <4>2. r \in Row
        BY <1>1, <2>2, <4>1, NewRunTyped
      <4>3. r.occurrence = sched.runAt /\ r.until = sched.runAt /\ r.trigger = trigger
        BY <4>1 DEF NewRun
      <4>. QED
        BY <2>2, <4>2, <4>3
    <3>. QED
      BY <3>1, <3>2
  <2>. HIDE DEF r
  <2>4. PICK p : /\ p = Len(rows) + 1 /\ p \notin DOMAIN rows /\ DOMAIN rows' = DOMAIN rows \cup {p}
                 /\ rows'[p] = r /\ \A i \in DOMAIN rows : rows'[i] = rows[i]
    BY <1>1, <2>1, <2>3, WroteOne
  <2>5. p = sched'.fired
    BY <1>1, <2>1, <2>4 DEF Sched
  <2>6. r.trigger = "missed" => r.occurrence \notin offered'
    <3>1. ASSUME WrittenOff(sched.runAt)
          PROVE  sched.runAt \notin offered'
      <4>1. offered' = offered /\ ~sched.deferred
        BY <1>2, <3>1 DEF WrittenOff
      <4>. QED
        BY <1>2, <4>1, Zenon DEF DInv, SchedFine
    <3>. QED
      BY <2>3, <3>1
  <2>7. RowFine(p)'
    <3>1. rows'[p].occurrence <= now'
      BY <1>2, <1>3, <2>3, <2>4
    <3>. QED
      BY <2>3, <2>4, <2>5, <2>6, <3>1, Zenon DEF RowFine
  <2>8. Bygone(rows[p])'
    BY <1>1, <1>2, <1>3, <2>3, <2>4 DEF Bygone
  <2>9. \A k \in DOMAIN rows' : RowFine(k)' /\ Bygone(rows[k])'
    BY <1>8, <2>4, <2>7, <2>8, Zenon
  <2>. QED
    BY <1>6, <1>7, <2>9, Zenon DEF DInv, NInv
<1>. QED
  BY <1>9, <1>10

-----------------------------------------------------------------------------
(* The other steps leave the timetable alone.                               *)

(* A schedule is as it was.                                                 *)
LEMMA KeepsAll ==
  ASSUME Typed, DOMAIN rows' = DOMAIN rows, UNCHANGED <<sched, offered, base, now>>
  PROVE  Keeps
<1>1. now \in Nat
  BY Types DEF Typed
<1>. QED
  BY <1>1 DEF Keeps, SameRule, SameClaim

(* finish() and observe() write no record.                                  *)
LEMMA FinishedDomain ==
  ASSUME NEW rs, NEW i, NEW status
  PROVE  DOMAIN Finished(rs, i, status) = DOMAIN rs /\ DOMAIN Observed(rs, i, status) = DOMAIN rs
BY DEF Finished, Observed

(* What is not about one run.                                               *)
LEMMA IdleKeeps ==
  ASSUME Typed,
         \/ UNCHANGED vars \/ Delete \/ Release \/ InterruptProject
         \/ StorageFails \/ Crash \/ Restart \/ TimePasses
  PROVE  Keeps
<1>1. now \in Nat /\ sched \in Sched
  BY Types DEF Typed
<1>2. CASE UNCHANGED vars \/ Release \/ InterruptProject \/ StorageFails \/ Crash \/ Restart
  <2>1. UNCHANGED <<sched, offered, base, now>>
    BY <1>2 DEF vars, Release, InterruptProject, StorageFails, Crash, Restart, stored, history
  <2>2. DOMAIN rows' = DOMAIN rows
    BY <1>2 DEF vars, Release, InterruptProject, StorageFails, Crash, Restart, stored, history
  <2>. QED
    BY <2>1, <2>2, KeepsAll
<1>3. CASE TimePasses
  <2>1. now' = now + 1 /\ UNCHANGED <<sched, rows, offered, base>>
    BY <1>3 DEF TimePasses, stored, history
  <2>2. now' \in Nat /\ now <= now'
    BY <1>1, <2>1
  <2>. QED
    BY <2>1, <2>2 DEF Keeps, SameRule, SameClaim
<1>4. CASE Delete
  <2>1. /\ UNCHANGED <<now, rows, offered, base>> /\ sched.phase # "none"
        /\ sched' = IF sched.phase = "live"
                    THEN [sched EXCEPT !.phase = "deleted", !.enabled = FALSE] ELSE sched
    BY <1>4 DEF Delete, history
  <2>2. /\ sched'.runAt = sched.runAt /\ sched'.next = sched.next /\ sched'.phase # "none"
        /\ sched'.fired = sched.fired /\ sched'.deferred = sched.deferred
    BY <1>1, <2>1 DEF Sched
  <2>. QED
    BY <1>1, <2>1, <2>2 DEF Keeps, SameRule, SameClaim
<1>. QED
  BY <1>2, <1>3, <1>4

(* What is: only a run handed back gives up the claim of its one-off.       *)
LEMMA RunKeeps ==
  ASSUME Typed, NEW i \in DOMAIN rows,
         \/ Dispatch(i)
         \/ \E s \in {"running", "done", "interrupted"} : SessionReports(i, s)
         \/ Stop(i) \/ StopEnds(i)
  PROVE  Keeps
<1>1. now \in Nat /\ sched \in Sched
  BY Types DEF Typed
<1>2. offered' = offered /\ base' = base /\ now' = now
  BY DEF Dispatch, Prepare, SetupFails, GiveBack, Deliver, Delivered, ReleaseAfter,
         SessionReports, Stop, StopEnds, restOfDispatch, history
<1>3. DOMAIN rows' = DOMAIN rows
  <2>1. CASE Prepare(i) \/ SetupFails(i) \/ GiveBack(i) \/ Deliver(i) \/ ReleaseAfter(i)
    <3>1. \/ rows' = rows \/ rows' = Finished(rows, i, "done")
          \/ rows' = [rows EXCEPT ![i].bound = TRUE]
          \/ rows' = [rows EXCEPT ![i].status = "skipped", ![i].key = @ /\ ~IsOneOff(i)]
      BY <2>1, Zenon DEF Prepare, SetupFails, GiveBack, Deliver, ReleaseAfter, Threw
    <3>. QED
      BY <3>1, FinishedDomain
  <2>2. CASE Delivered(i)
    <3>. DEFINE seen == IF tasks[i].launch = "launched" THEN Observed(rows, i, "running") ELSE rows
    <3>1. \/ rows' = IF seen[i].status = "preparing" THEN Finished(seen, i, "running") ELSE seen
          \/ rows' = rows \/ rows' = Finished(rows, i, "done")
      BY <2>2 DEF Delivered, Threw
    <3>2. DOMAIN seen = DOMAIN rows
      BY FinishedDomain
    <3>. HIDE DEF seen
    <3>. QED
      BY <3>1, <3>2, FinishedDomain
  <2>3. CASE (\E s \in {"running", "done", "interrupted"} : SessionReports(i, s)) \/ Stop(i) \/ StopEnds(i)
    <3>1. \/ rows' = rows \/ rows' = Finished(rows, i, "interrupted")
          \/ \E s \in {"running", "done", "interrupted"} : rows' = Observed(rows, i, s)
      BY <2>3, Zenon DEF SessionReports, Stop, StopEnds
    <3>. QED
      BY <3>1, FinishedDomain
  <2>. QED
    BY <2>1, <2>2, <2>3 DEF Dispatch
<1>4. CASE sched' = sched
  BY <1>2, <1>3, <1>4, KeepsAll
<1>5. CASE sched' # sched
  <2>1. GiveBack(i)
    BY <1>5 DEF Dispatch, Prepare, SetupFails, Deliver, Delivered, ReleaseAfter,
                SessionReports, Stop, StopEnds
  <2>2. ~Spent(i) /\ sched' = Rearmed(i)
    BY <1>5, <2>1 DEF GiveBack
  <2>3. sched.fired = i /\ sched' = [sched EXCEPT !.fired = NoRun, !.deferred = TRUE]
    BY <1>5, <2>2 DEF Rearmed
  <2>4. /\ sched'.runAt = sched.runAt /\ sched'.next = sched.next /\ sched'.phase = sched.phase
        /\ sched'.fired = NoRun /\ sched'.deferred = TRUE
    BY <1>1, <2>3 DEF Sched
  <2>5. HandsBack
    BY <2>2, <2>3, <2>4 DEF HandsBack, Spent, IsActive
  <2>. QED
    BY <1>1, <1>2, <1>3, <2>4, <2>5 DEF Keeps, SameRule
<1>. QED
  BY <1>4, <1>5

(* Every step keeps both parts.                                             *)
LEMMA NextBoth ==
  ASSUME Typed, DInv, NInv, [Next]_vars
  PROVE  DInv' /\ NInv'
<1>1. Typed' /\ Records
  BY NextGood DEF Good
<1>2. CASE Keeps
  BY <1>1, <1>2, KeepsDue, KeepsHistory
<1>3. CASE Patch
  <2>1. sched.ask \in Asks /\ sched.runAt \in Nat /\ sched.enabled \in BOOLEAN /\ sched.catchUp \in Policies
    BY Types DEF Typed, Sched
  <2>2. (~sched.enabled) \in BOOLEAN
    OBVIOUS
  <2>3. PICK ask \in Asks, runAt \in Nat, enabled \in BOOLEAN, catchUp \in Policies :
          Update(ask, runAt, enabled, catchUp)
    BY <1>3, <2>1, <2>2, SchedulerAssumption DEF Patch
  <2>. QED
    BY <1>1, <2>3, UpdateBoth
<1>4. CASE \E runAt \in Instants, c \in Policies, e \in BOOLEAN : Create(runAt, c, e)
  BY <1>1, <1>4, CreateBoth
<1>5. CASE RunNow
  BY <1>5, RunNowBoth
<1>6. CASE TickOneOff
  BY <1>6, TickOneOffBoth
<1>7. CASE TickRecurring
  BY <1>1, <1>7, TickAdvances, AdvancesBoth
<1>8. CASE Retime
  BY <1>1, <1>8, RetimeBoth
<1>. QED
  BY <1>2, <1>3, <1>4, <1>5, <1>6, <1>7, <1>8, IdleKeeps, RunKeeps DEF Next, User

(* Both hold at the start.                                                  *)
LEMMA InitBoth ==
  ASSUME Init
  PROVE  DInv /\ NInv
<1>1. DOMAIN rows = {} /\ offered = {} /\ sched.runAt = Recurring /\ sched.phase = "none"
  BY DEF Init
<1>. QED
  BY <1>1 DEF DInv, SchedFine, NInv, OnHistory

(* deferredAt: an instant ticked on time is never on record as missed,     *)
(* whatever edits, overlaps, hand-backs and restarts came after the tick.  *)
THEOREM DueWhileOpenRunsHolds == Spec => []DueWhileOpenRuns
<1>1. Init => DInv /\ NInv
  BY InitBoth
<1>2. IInv /\ DInv /\ NInv /\ [Next]_vars => DInv' /\ NInv'
  BY NextBoth DEF IInv
<1>3. DInv => DueWhileOpenRuns
  BY DEF DInv, RowFine, DueWhileOpenRuns
<1>. QED
  BY <1>1, <1>2, <1>3, IInvHolds, PTL DEF Spec

(* reconcile and recordMissed: every occurrence of the timetable that has  *)
(* gone by is on record once, and each interval has the count of its       *)
(* occurrences up to the cap, for every period, cap and pattern of sleep,  *)
(* pause, failure and restart.                                             *)
THEOREM AccountedHolds == Spec => []Accounted
<1>1. Init => DInv /\ NInv
  BY InitBoth
<1>2. IInv /\ DInv /\ NInv /\ [Next]_vars => DInv' /\ NInv'
  BY NextBoth DEF IInv
<1>3. IInv /\ NInv => Accounted
  <2>1. SUFFICES ASSUME Typed, NInv, OnHistory, NEW t \in Occurrences(base, sched.next - 1)
                 PROVE  \E i \in DOMAIN rows :
                          /\ Covers(rows[i], t)
                          /\ \A j \in DOMAIN rows \ {i} : ~Covers(rows[j], t)
                          /\ rows[i].count =
                               LET n == Cardinality(Occurrences(rows[i].occurrence, rows[i].until))
                               IN  IF n > MissedCap THEN MissedCap ELSE n
    BY DEF IInv, Accounted, OnHistory
  <2>2. PICK i \in DOMAIN rows : /\ Covers(rows[i], t)
                                 /\ \A j \in DOMAIN rows \ {i} : ~Covers(rows[j], t)
    BY <2>1, Zenon DEF NInv, CoveredOnce
  <2>3. base \in Nat /\ sched.next \in Nat /\ rows[i] \in Row
    BY <2>1, Types, Members DEF Typed, Sched
  <2>4. t \in Int /\ base <= t /\ rows[i].until \in Nat /\ t <= rows[i].until /\ rows[i].trigger # "manual"
    BY <2>2, <2>3, RowTimes DEF Occurrences, Covers
  <2>5. PICK m \in Nat, n \in Nat : Counts(rows[i], m, n)
    BY <2>1, <2>3, <2>4 DEF NInv, InPlace
  <2>6. Cardinality(Occurrences(rows[i].occurrence, rows[i].until)) = n + 1
    BY <2>5, IntervalSize DEF Counts
  <2>. QED
    BY <2>2, <2>5, <2>6 DEF Counts, Capped
<1>. QED
  BY <1>1, <1>2, <1>3, IInvHolds, PTL DEF Spec

=============================================================================
