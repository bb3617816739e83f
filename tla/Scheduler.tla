------------------------------ MODULE Scheduler ------------------------------
(***************************************************************************)
(* Scheduled prompts (scheduler/service.ts, scheduler/store.ts) and the    *)
(* session launches they drive (session-manager.ts).  A schedule is either *)
(* recurring, with a timetable, or a one-off with a single instant.  Each  *)
(* second tick() claims what has fallen due: one SQLite transaction writes *)
(* the run and moves the schedule on, and an asynchronous dispatch then    *)
(* prepares a session and gives it the prompt.  While it awaits, the user  *)
(* edits, pauses, deletes or stops, the agent reports, storage fails, the  *)
(* host dies.                                                              *)
(*                                                                         *)
(* Every rule of the code is per schedule, so there is one.  A time is a   *)
(* number of ticks, the timetable the multiples of Period; time may pass   *)
(* with no tick, the computer asleep.  What execution depends on (project, *)
(* agent, mode, prompt, approvals, workspace, branch) is one value, ask.   *)
(***************************************************************************)
EXTENDS Naturals, Sequences, FiniteSets

CONSTANTS
  Asks,         \* what a schedule may ask for
  Instants,     \* the one-off times, and Recurring for a timetable
  Period,       \* the distance of two occurrences of the timetable
  OnTime,       \* ON_TIME_MS: an occurrence this recent is due, not missed
  Lead,         \* CATCH_UP_MIN_LEAD_MS
  Floor,        \* ONE_OFF_FLOOR_MS
  MissedCap,    \* MISSED_COUNT_CAP
  StopMayFail,  \* whether stopping a session may be rejected
  MaxTime,      \* bound: instants
  MaxRuns,      \* bound: run records
  MaxEdits,     \* bound: updates of the schedule
  MaxFaults    \* bound: deaths of the host, releases that fail

ASSUME SchedulerAssumption ==
  /\ Instants \subseteq Nat
  /\ Asks # {}
  /\ {Period, OnTime, Floor, MissedCap} \subseteq Nat \ {0}
  /\ {Lead, MaxTime, MaxRuns, MaxEdits, MaxFaults} \subseteq Nat
  /\ StopMayFail \in BOOLEAN

VARIABLES
  now,         \* the wall clock
  up,          \* whether the host runs
  fault,       \* the latch of guarded(): storage failed, or the service is closed
  sched,       \* the schedule's record, on disk
  rows,        \* the run records, on disk, oldest first
  owned,       \* the checkout record names the schedule as its owner, on disk
  tasks,       \* per run: its dispatch and its session launch, in memory
  cancelling,  \* runs a user's stop() is at work on
  releasing,   \* "running": a delete() or start() is at the workspace's release;
               \* "unread": start() could not read what is deleted
  unreleased,  \* cleanupFailures holds the schedule
  base,        \* history: the first occurrence of the present timetable
  offered,     \* history: one-off instants ticked on time
  prompted,    \* history: runs whose deliverPrompt was called
  edits, faults

stored == <<sched, rows, owned>>
memory == <<up, fault, tasks, cancelling, releasing, unreleased>>
history == <<base, offered, prompted>>
vars == <<now, stored, memory, history, edits, faults>>

-----------------------------------------------------------------------------
(* The timetable.                                                          *)

Occurrences(first, last) == {t \in first..last : t % Period = 0}

(* missedOccurrences: what is due since first, itself an occurrence.       *)
Latest(t) == (t \div Period) * Period
Following(t) == Latest(t) + Period
CountSince(first, t) == (Latest(t) - first) \div Period + 1

-----------------------------------------------------------------------------
(* Records.                                                                *)

(* No code tells running and needs-input apart, or completed and failed:   *)
(* they are "running" and "done".                                          *)
ActiveStatus == {"preparing", "running"}
FinalStatus == {"done", "interrupted", "skipped"}
NoRun == 0        \* firedRunId is not set
Recurring == 0    \* runAt is not set
Unplanned == 0    \* the occurrence of a manual run: an instant nothing depends on
FirstAsk == CHOOSE ask \in Asks : TRUE    \* asks are interchangeable

NewRun(at, trigger) ==
  [occurrence |-> at, trigger |-> trigger, status |-> "preparing",
   until |-> at, count |-> 1, key |-> trigger # "manual", bound |-> FALSE]

MissedRecord(first, last, count) ==
  [NewRun(first, "missed") EXCEPT
     !.status = "skipped", !.until = last,
     !.count = IF count > MissedCap THEN MissedCap ELSE count]

Dispatched ==
  [pc |-> "prepare", ask |-> sched.ask, runAt |-> sched.runAt,
   launch |-> "none", cancelled |-> FALSE]

(* What is left of a dispatch past its last use of the schedule it read.    *)
LeftOver(pc, launch) ==
  [pc |-> pc, ask |-> FirstAsk, runAt |-> Recurring,
   launch |-> launch, cancelled |-> FALSE]

IsActive(i) == rows[i].status \in ActiveStatus
Busy == \E i \in DOMAIN rows : IsActive(i)
Claimed(at) == \E i \in DOMAIN rows : rows[i].key /\ rows[i].occurrence = at

(* Mutant of Write: only an active record is given a task.                  *)
WriteUntasked(new) ==
  /\ Len(rows) + Len(new) <= MaxRuns
  /\ rows' = rows \o new
  /\ tasks' = IF \E k \in DOMAIN new : new[k].status = "preparing"
              THEN Append(tasks, Dispatched) ELSE tasks

(* Records written in one transaction, and the dispatch of an active one.  *)
Write(new) ==
  /\ Len(rows) + Len(new) <= MaxRuns
  /\ rows' = rows \o new
  /\ tasks' = tasks \o [k \in DOMAIN new |->
                          IF new[k].status = "preparing" THEN Dispatched ELSE LeftOver("ended", "over")]

Executable == up /\ ~fault

-----------------------------------------------------------------------------
(* create, update, delete, runNow.  Each awaits before it reads, and does  *)
(* not between its reads and its last write.                               *)

Create(runAt, catchUp, enabled) ==
  /\ Executable
  /\ sched.phase = "none"
  /\ runAt # Recurring => runAt >= now + Floor
  /\ sched' = [phase |-> "live", ask |-> FirstAsk, runAt |-> runAt, catchUp |-> catchUp,
               next |-> IF runAt = Recurring THEN Following(now) ELSE runAt,
               enabled |-> enabled, fired |-> NoRun, deferred |-> FALSE]
  /\ base' = sched'.next
  /\ UNCHANGED <<now, rows, owned, memory, offered, prompted, edits, faults>>

Resumes(runAt, enabled) == ~sched.enabled /\ enabled

(* A different instant, or a switch of kind, makes a spent one-off pending. *)
Edited(ask, runAt, enabled, catchUp) ==
  [sched EXCEPT !.ask = ask, !.runAt = runAt, !.enabled = enabled, !.catchUp = catchUp,
     !.next = IF runAt # Recurring THEN runAt
              ELSE IF sched.runAt # Recurring THEN Following(now) ELSE @,
     !.deferred = @ /\ runAt = sched.runAt,
     !.fired = IF runAt # sched.runAt THEN NoRun ELSE @]

(* recordMissed: the occurrences a paused schedule passed over, as one.    *)
Paused == MissedRecord(sched.next, Latest(now), CountSince(sched.next, now))

Update(ask, runAt, enabled, catchUp) ==
  LET edited == Edited(ask, runAt, enabled, catchUp)
      resumed == Resumes(runAt, enabled) /\ runAt = Recurring /\ edited.next <= now
  IN  /\ Executable
      /\ sched.phase = "live"
      /\ edits < MaxEdits
      /\ (runAt # Recurring
          /\ (runAt # sched.runAt \/ (Resumes(runAt, enabled) /\ sched.fired = NoRun)))
         => runAt >= now + Floor
      /\ \/ /\ ~resumed
            /\ sched' = edited
            /\ UNCHANGED <<rows, tasks, fault>>
         \/ /\ resumed
            /\ Write(IF Claimed(sched.next) THEN <<>> ELSE <<Paused>>)
            /\ sched' = [edited EXCEPT !.next = Following(now)]
            /\ UNCHANGED fault
         \/ \* the second of the two writes fails
            /\ resumed
            /\ Write(IF Claimed(sched.next) THEN <<>> ELSE <<Paused>>)
            /\ sched' = IF Claimed(sched.next) THEN sched
                        ELSE [sched EXCEPT !.next = Following(now)]
            /\ fault' = TRUE
      /\ base' = IF runAt = Recurring /\ sched.runAt # Recurring THEN sched'.next ELSE base
      /\ edits' = edits + 1
      /\ UNCHANGED <<now, up, owned, cancelling, releasing, unreleased, offered, prompted, faults>>

(* update() from one cron or timezone to another: what the old timetable   *)
(* had overdue is let go, and the new one begins with its next occurrence. *)
Retime ==
  /\ Executable
  /\ sched.phase = "live"
  /\ sched.runAt = Recurring
  /\ edits < MaxEdits
  /\ sched' = [sched EXCEPT !.next = Following(now)]
  /\ base' = Following(now)
  /\ edits' = edits + 1
  /\ UNCHANGED <<now, rows, owned, memory, offered, prompted, faults>>

(* delete() of a schedule already deleted tries the release again.         *)
Delete ==
  /\ Executable
  /\ sched.phase # "none"
  /\ releasing # "running"
  /\ sched' = IF sched.phase = "live"
              THEN [sched EXCEPT !.phase = "deleted", !.enabled = FALSE] ELSE sched
  /\ releasing' = "running"
  /\ UNCHANGED <<now, rows, owned, up, fault, tasks, cancelling, unreleased, history, edits, faults>>

(* releaseDeleted: a failure is reported until a release succeeds.          *)
ReleaseDeleted ==
  \/ owned' = FALSE /\ unreleased' = FALSE /\ UNCHANGED faults
  \/ /\ faults < MaxFaults
     /\ faults' = faults + 1
     /\ unreleased' = TRUE
     /\ UNCHANGED owned

(* The release of delete() and of start()'s cleanupDeleted.                 *)
Release ==
  /\ up
  /\ releasing = "running"
  /\ releasing' = "none"
  /\ ReleaseDeleted
  /\ UNCHANGED <<now, sched, rows, up, fault, tasks, cancelling, history, edits>>

(* Mutant of OrSkipped: a run in preparation is not seen.                   *)
OrSkippedWhileRunning(run) ==
  IF \E i \in DOMAIN rows : rows[i].status = "running"
  THEN [run EXCEPT !.status = "skipped"] ELSE run

(* The overlap rule of claim(): what finds a run active is only recorded.  *)
OrSkipped(run) == IF Busy THEN [run EXCEPT !.status = "skipped"] ELSE run

RunNow ==
  /\ Executable
  /\ sched.phase = "live"
  /\ Write(<<OrSkipped(NewRun(Unplanned, "manual"))>>)
  /\ UNCHANGED <<now, sched, owned, up, fault, cancelling, releasing, unreleased, history, edits, faults>>

-----------------------------------------------------------------------------
(* tick().                                                                 *)

Due ==
  /\ Executable
  /\ sched.phase = "live"
  /\ sched.enabled
  /\ sched.next <= now
  /\ sched.fired = NoRun

IsOnTime(at) == now - at < OnTime

(* skipped in reconcileOneOff.                                              *)
WrittenOff(at) == ~IsOnTime(at) /\ sched.catchUp = "skip" /\ ~sched.deferred

(* reconcileOneOff and claim(..., oneOff): an active run of the schedule   *)
(* only defers the one occurrence there is; else it is spent.              *)
TickOneOff ==
  /\ Due
  /\ sched.runAt # Recurring
  /\ offered' = IF IsOnTime(sched.runAt) THEN offered \cup {sched.runAt} ELSE offered
  /\ \/ /\ Busy
        /\ sched' = [sched EXCEPT !.deferred = TRUE]
        /\ UNCHANGED <<rows, tasks>>
     \/ /\ ~Busy
        /\ ~Claimed(sched.runAt)
        /\ Write(<<IF WrittenOff(sched.runAt) THEN MissedRecord(sched.runAt, sched.runAt, 1)
                   ELSE NewRun(sched.runAt, IF IsOnTime(sched.runAt) THEN "cron" ELSE "catch-up")>>)
        /\ sched' = [sched EXCEPT !.deferred = FALSE, !.fired = Len(rows) + 1]
  /\ UNCHANGED <<now, owned, up, fault, cancelling, releasing, unreleased, base, prompted, edits, faults>>

(* Mutant of EarlierMissed: the count takes in the run itself.             *)
EarlierMissedOffByOne ==
  IF CountSince(sched.next, now) > 1 /\ ~Claimed(sched.next)
  THEN <<MissedRecord(sched.next, Latest(now), CountSince(sched.next, now) - 1)>>
  ELSE <<>>

(* The occurrences before the one that runs, as one missed interval.       *)
EarlierMissed ==
  IF CountSince(sched.next, now) > 1 /\ ~Claimed(sched.next)
  THEN <<MissedRecord(sched.next, Latest(now) - Period, CountSince(sched.next, now) - 1)>>
  ELSE <<>>

(* reconcile: run the latest occurrence if it is on time or may be caught  *)
(* up, and record the others; or record them all.                          *)
TickRecurring ==
  LET latest == Latest(now)
      catchUp == /\ ~IsOnTime(latest)
                 /\ sched.catchUp = "latest"
                 /\ Following(now) - now >= Lead
      run == NewRun(latest, IF catchUp THEN "catch-up" ELSE "cron")
      runs == IsOnTime(latest) \/ catchUp
  IN  /\ Due
      /\ sched.runAt = Recurring
      /\ ~Claimed(IF runs THEN latest ELSE sched.next)
      /\ Write(IF runs THEN EarlierMissed \o <<OrSkipped(run)>>
               ELSE <<MissedRecord(sched.next, latest, CountSince(sched.next, now))>>)
      /\ sched' = [sched EXCEPT !.next = Following(now)]
      /\ UNCHANGED <<now, owned, up, fault, cancelling, releasing, unreleased, history, edits, faults>>

-----------------------------------------------------------------------------
(* dispatch() of run i, between its awaits.  A write after the storage     *)
(* fault throws instead, and finish() leaves a run that has ended alone.   *)

(* Mutant of Finished: the status is written whatever the run's own.        *)
FinishedAnyway(rs, i, status) == IF fault THEN rs ELSE [rs EXCEPT ![i].status = status]

Finished(rs, i, status) ==
  IF fault \/ rs[i].status \notin ActiveStatus THEN rs ELSE [rs EXCEPT ![i].status = status]

(* observe(): only for a bound run nobody is stopping.                      *)
Observed(rs, i, status) ==
  IF i \in cancelling \/ ~rs[i].bound THEN rs ELSE Finished(rs, i, status)

(* finally: options.stop(reservation) calls the session off at once, and   *)
(* the release of the workspace waits for it.  The run has ended by then,  *)
(* is being stopped, or storage has failed, so the report is not heeded.   *)
GivesUp(i) == tasks' = [tasks EXCEPT ![i] = LeftOver("release", "over")]

(* Mutant of Threw: the failure is left to the session to report.           *)
ThrewUnrecorded(i) ==
  /\ rows' = rows
  /\ GivesUp(i)

(* catch: the failure, unless a stop() is at work and settles the run.      *)
Threw(i) ==
  /\ rows' = IF i \in cancelling THEN rows ELSE Finished(rows, i, "done")
  /\ GivesUp(i)

restOfDispatch == <<now, up, fault, cancelling, releasing, base, offered, edits, faults>>

(* supportedAgents, then prepareScheduledSession up to bind.  It finds or  *)
(* makes the checkout, which names the schedule as its owner, and the bind *)
(* callback durably associates the run and its session.                    *)
Prepare(i) ==
  /\ up
  /\ tasks[i].pc = "prepare"
  /\ \/ /\ ~fault /\ i \notin cancelling /\ IsActive(i)
        /\ owned' = TRUE
        /\ rows' = [rows EXCEPT ![i].bound = TRUE]
        /\ tasks' = [tasks EXCEPT ![i].pc = "setup", ![i].launch = "reserved"]
     \/ /\ owned' \in {owned, TRUE}
        /\ Threw(i)
  /\ UNCHANGED <<sched, unreleased, prompted, restOfDispatch>>

(* A one-off's own occurrence, not a manual run of it.                      *)
IsOneOff(i) == tasks[i].runAt # Recurring /\ rows[i].trigger # "manual"

SettingsChanged(i) ==
  tasks[i].ask # sched.ask \/ (IsOneOff(i) /\ tasks[i].runAt # sched.runAt)

(* Mutant of Rearmed: the occurrence is handed back to be missed.          *)
RearmedUndeferred(i) ==
  IF sched.fired = i THEN [sched EXCEPT !.fired = NoRun] ELSE sched

(* rearm(): the one-off is pending again, if this run still is its claim.  *)
Rearmed(i) ==
  IF sched.fired = i THEN [sched EXCEPT !.fired = NoRun, !.deferred = TRUE] ELSE sched

(* The run ended, or is being stopped, while its session was prepared.     *)
Spent(i) == i \in cancelling \/ ~IsActive(i)

(* prepare() is rejected: setup failed, or the session was called off.     *)
SetupFails(i) ==
  /\ up
  /\ tasks[i].pc = "setup"
  /\ Threw(i)
  /\ UNCHANGED <<sched, owned, unreleased, prompted, restOfDispatch>>

(* prepare() resolves, and dispatch() checks in this order that it may go  *)
(* on: storage, the run, the settings.                                     *)
GiveBack(i) ==
  /\ up
  /\ tasks[i].pc = "setup"
  /\ ~tasks[i].cancelled
  /\ \/ fault /\ Threw(i) /\ UNCHANGED sched
     \/ ~fault /\ Spent(i) /\ GivesUp(i) /\ UNCHANGED <<sched, rows>>
     \/ /\ ~fault /\ ~Spent(i) /\ SettingsChanged(i)
        /\ rows' = [rows EXCEPT ![i].status = "skipped", ![i].key = @ /\ ~IsOneOff(i)]
        /\ sched' = IF IsOneOff(i) THEN Rearmed(i) ELSE sched
        /\ GivesUp(i)
  /\ UNCHANGED <<owned, unreleased, prompted, restOfDispatch>>

Deliver(i) ==
  /\ up
  /\ tasks[i].pc = "setup"
  /\ ~tasks[i].cancelled
  /\ ~fault /\ ~Spent(i) /\ ~SettingsChanged(i)
  /\ tasks' = [tasks EXCEPT ![i].pc = "delivering", ![i].launch = "launched"]
  /\ prompted' = prompted \cup {i}
  /\ UNCHANGED <<sched, rows, owned, unreleased, restOfDispatch>>

(* The launch starts and reports the run as running, or is rejected.       *)
Delivered(i) ==
  LET seen == IF tasks[i].launch = "launched" THEN Observed(rows, i, "running") ELSE rows IN
  /\ up
  /\ tasks[i].pc = "delivering"
  /\ \/ /\ ~tasks[i].cancelled
        /\ rows' = IF seen[i].status = "preparing" THEN Finished(seen, i, "running") ELSE seen
        /\ tasks' = [tasks EXCEPT ![i] = LeftOver("release", @.launch)]
     \/ Threw(i)
  /\ UNCHANGED <<sched, owned, unreleased, prompted, restOfDispatch>>

(* Mutant of ReleaseAfter: only a delete() releases.                        *)
ReleaseAfterNothing(i) ==
  /\ up
  /\ tasks[i].pc = "release"
  /\ tasks' = [tasks EXCEPT ![i].pc = "ended"]
  /\ UNCHANGED <<sched, rows, owned, unreleased, prompted, restOfDispatch>>

(* The end of finally: a schedule deleted meanwhile is released again.     *)
ReleaseAfter(i) ==
  /\ up
  /\ tasks[i].pc = "release"
  /\ tasks' = [tasks EXCEPT ![i].pc = "ended"]
  /\ \/ /\ fault \/ sched.phase # "deleted"
        /\ UNCHANGED <<owned, unreleased, faults>>
     \/ ~fault /\ sched.phase = "deleted" /\ ReleaseDeleted
  /\ UNCHANGED <<sched, rows, prompted, now, up, fault, cancelling, releasing, base, offered, edits>>

Dispatch(i) ==
  \/ Prepare(i)
  \/ SetupFails(i)
  \/ GiveBack(i)
  \/ Deliver(i)
  \/ Delivered(i)
  \/ ReleaseAfter(i)

-----------------------------------------------------------------------------
(* What reaches a run from outside its dispatch.                            *)

(* observeScheduledSession: the agent's reports, and a session that exits  *)
(* or is stopped in the app, before its launch or after.                   *)
SessionReports(i, status) ==
  LET working == tasks[i].pc \in {"setup", "delivering"} IN
  /\ up
  /\ \/ tasks[i].launch = "launched"
     \/ tasks[i].launch = "reserved" /\ status = "interrupted"
  /\ rows' = Observed(rows, i, status)
  /\ \E calledOff \in IF tasks[i].launch = "reserved" THEN {TRUE}
                     ELSE {FALSE, status = "interrupted" /\ working} :
       tasks' = [tasks EXCEPT ![i].cancelled = @ \/ calledOff,
                              ![i].launch = IF status \in FinalStatus THEN "over" ELSE @]
  /\ UNCHANGED <<sched, owned, unreleased, prompted, restOfDispatch>>

(* stop(): a run that has a session waits for it to be stopped.             *)
Stop(i) ==
  /\ Executable
  /\ IsActive(i)
  /\ i \notin cancelling
  /\ \/ /\ ~rows[i].bound
        /\ rows' = Finished(rows, i, "interrupted")
        /\ UNCHANGED <<tasks, cancelling>>
     \/ /\ rows[i].bound
        /\ cancelling' = cancelling \cup {i}
        /\ tasks' = [tasks EXCEPT ![i].launch = "over",
                        ![i].cancelled = @ \/ (tasks[i].launch # "over"
                                               /\ tasks[i].pc \in {"setup", "delivering"})]
        /\ UNCHANGED rows
  /\ UNCHANGED <<now, sched, owned, up, fault, releasing, unreleased, history, edits, faults>>

StopEnds(i) ==
  /\ up
  /\ i \in cancelling
  /\ cancelling' = cancelling \ {i}
  /\ \/ rows' = Finished(rows, i, "interrupted")
     \/ StopMayFail /\ rows' = rows
  /\ UNCHANGED <<now, sched, owned, up, fault, tasks, releasing, unreleased, history, edits, faults>>

(* interruptProject, when the project is stopped: no session of its core   *)
(* is heard of again.                                                      *)
InterruptProject ==
  /\ Executable
  /\ Busy
  /\ rows' = [i \in DOMAIN rows |->
                IF IsActive(i) THEN [rows[i] EXCEPT !.status = "interrupted"] ELSE rows[i]]
  /\ tasks' = [i \in DOMAIN tasks |->
                 IF tasks[i].launch = "none" THEN tasks[i] ELSE [tasks[i] EXCEPT !.launch = "over"]]
  /\ UNCHANGED <<now, sched, owned, up, fault, cancelling, releasing, unreleased, history, edits, faults>>

(* A guarded read or write fails, or the service is closed.                 *)
StorageFails ==
  /\ Executable
  /\ faults < MaxFaults
  /\ fault' = TRUE
  /\ UNCHANGED <<now, stored, up, tasks, cancelling, releasing, unreleased, history, edits, faults>>

Crash ==
  /\ up
  /\ faults < MaxFaults
  /\ faults' = faults + 1
  /\ up' = FALSE
  /\ fault' = FALSE
  /\ tasks' = [i \in DOMAIN tasks |-> LeftOver("ended", "over")]
  /\ cancelling' = {}
  /\ releasing' = "none"
  /\ unreleased' = FALSE
  /\ UNCHANGED <<now, stored, history, edits>>

(* Mutant of Restart: what was cut short is claimed again.                  *)
RestartHandsBack ==
  /\ ~up
  /\ up' = TRUE
  /\ rows' = [i \in DOMAIN rows |->
                IF IsActive(i) THEN [rows[i] EXCEPT !.status = "interrupted", !.key = FALSE] ELSE rows[i]]
  /\ sched' = IF Busy THEN [sched EXCEPT !.fired = NoRun] ELSE sched
  /\ releasing' \in IF sched.phase = "deleted" THEN {"running", "unread"} ELSE {"none"}
  /\ UNCHANGED <<now, owned, fault, tasks, cancelling, unreleased, history, edits, faults>>

(* The constructor ends what was active; start() releases what is deleted, *)
(* unless the read that cleanupDeleted() opens with throws: read() latches *)
(* no fault, start() swallows the error, and nothing is tried again.       *)
Restart ==
  /\ ~up
  /\ up' = TRUE
  /\ rows' = [i \in DOMAIN rows |->
                IF IsActive(i) THEN [rows[i] EXCEPT !.status = "interrupted"] ELSE rows[i]]
  /\ releasing' \in IF sched.phase = "deleted" THEN {"running", "unread"} ELSE {"none"}
  /\ UNCHANGED <<now, sched, owned, fault, tasks, cancelling, unreleased, history, edits, faults>>

TimePasses ==
  /\ now < MaxTime
  /\ now' = now + 1
  /\ UNCHANGED <<stored, memory, history, edits, faults>>

-----------------------------------------------------------------------------
Policies == {"latest", "skip"}

Init ==
  /\ now = 0
  /\ up = TRUE
  /\ fault = FALSE
  /\ sched = [phase |-> "none", ask |-> FirstAsk, runAt |-> Recurring, catchUp |-> "latest",
              next |-> 0, enabled |-> FALSE, fired |-> NoRun, deferred |-> FALSE]
  /\ rows = <<>>
  /\ owned = FALSE
  /\ tasks = <<>>
  /\ cancelling = {}
  /\ releasing = "none"
  /\ unreleased = FALSE
  /\ base = 0
  /\ offered = {}
  /\ prompted = {}
  /\ edits = 0
  /\ faults = 0

(* A patch changes one thing: what is asked, the timetable, whether the    *)
(* schedule is enabled, or its catch-up policy.                            *)
Patch ==
  \/ \E ask \in Asks \ {sched.ask} : Update(ask, sched.runAt, sched.enabled, sched.catchUp)
  \/ \E runAt \in Instants \ {sched.runAt} : Update(sched.ask, runAt, sched.enabled, sched.catchUp)
  \/ Update(sched.ask, sched.runAt, ~sched.enabled, sched.catchUp)
  \/ \E c \in Policies \ {sched.catchUp} : Update(sched.ask, sched.runAt, sched.enabled, c)

User ==
  \/ \E runAt \in Instants, c \in Policies, e \in BOOLEAN : Create(runAt, c, e)
  \/ Patch
  \/ Retime
  \/ Delete
  \/ RunNow
  \/ InterruptProject

Next ==
  \/ User
  \/ Release
  \/ TickOneOff
  \/ TickRecurring
  \/ \E i \in DOMAIN rows :
       \/ Dispatch(i)
       \/ \E s \in {"running", "done", "interrupted"} : SessionReports(i, s)
       \/ Stop(i)
       \/ StopEnds(i)
  \/ StorageFails
  \/ Crash
  \/ Restart
  \/ TimePasses

Spec == Init /\ [][Next]_vars

-----------------------------------------------------------------------------
(* Properties.                                                              *)

Row == [occurrence : Nat, trigger : {"cron", "manual", "missed", "catch-up"},
        status : ActiveStatus \cup FinalStatus, until : Nat, count : Nat,
        key : BOOLEAN, bound : BOOLEAN]

Task == [pc : {"prepare", "setup", "delivering", "release", "ended"},
         ask : Asks, runAt : Nat,
         launch : {"none", "reserved", "launched", "over"}, cancelled : BOOLEAN]

Sched == [phase : {"none", "live", "deleted"}, ask : Asks, runAt : Nat, next : Nat,
          catchUp : Policies, enabled : BOOLEAN, fired : Nat, deferred : BOOLEAN]

Cleanup == {"none", "running", "unread"}

TypeOK ==
  /\ now \in Nat
  /\ {up, fault, owned, unreleased} \subseteq BOOLEAN
  /\ releasing \in Cleanup
  /\ sched \in Sched
  /\ rows \in Seq(Row)
  /\ tasks \in Seq(Task)
  /\ Len(tasks) = Len(rows)
  /\ {cancelling, prompted} \subseteq SUBSET DOMAIN rows
  /\ base \in Nat
  /\ offered \subseteq Nat
  /\ {edits, faults} \subseteq Nat

(* claim()'s overlap rule: at most one run of a schedule is active.         *)
OneActiveRun ==
  \A i, j \in DOMAIN rows : IsActive(i) /\ IsActive(j) => i = j

(* claim(), rearm() and the restart pass: an occurrence is run once.  Of   *)
(* two records of one occurrence, one was handed back before its prompt    *)
(* went to an agent, whatever edits, stops and restarts came between.      *)
OccurrenceOnce ==
  \A i, j \in DOMAIN rows :
    /\ i # j
    /\ rows[i].trigger # "manual" /\ rows[j].trigger # "manual"
    /\ rows[i].occurrence = rows[j].occurrence
    => \E k \in {i, j} : rows[k].status = "skipped" /\ k \notin prompted

Covers(row, t) == row.trigger # "manual" /\ row.occurrence <= t /\ t <= row.until

(* reconcile and recordMissed: every occurrence of the timetable that has  *)
(* gone by is in the history once, as a run or in one missed interval, and *)
(* an interval counts its occurrences up to the cap.                       *)
Accounted ==
  sched.phase # "none" /\ sched.runAt = Recurring =>
    \A t \in Occurrences(base, sched.next - 1) :
      \E i \in DOMAIN rows :
        /\ Covers(rows[i], t)
        /\ \A j \in DOMAIN rows \ {i} : ~Covers(rows[j], t)
        /\ LET n == Cardinality(Occurrences(rows[i].occurrence, rows[i].until))
           IN  rows[i].count = IF n > MissedCap THEN MissedCap ELSE n

(* deferredAt: a one-off that fell due while the desktop was open, and     *)
(* waited for another run or for new settings, is never written off as     *)
(* missed.                                                                 *)
DueWhileOpenRuns ==
  \A i \in DOMAIN rows :
    rows[i].trigger = "missed" => rows[i].occurrence \notin offered

(* releaseDeleted: when nothing of a deleted schedule is at work any more, *)
(* its workspace has no owner, or the failure to release it is reported.   *)
(* The exception: a start() whose read of the deleted schedules failed     *)
(* leaves the owner and reports nothing, until the host starts again or    *)
(* the schedule is deleted again.                                          *)
DeletedIsReleased ==
  /\ sched.phase = "deleted" /\ up /\ ~fault /\ releasing # "running"
  /\ \A i \in DOMAIN tasks : tasks[i].pc = "ended"
  => ~owned \/ unreleased \/ releasing = "unread"

(* finish(): a run that has ended keeps its status for ever.                *)
TerminalIsFinal ==
  [][\A i \in DOMAIN rows : rows[i].status \in FinalStatus => rows'[i] = rows[i]]_vars

(* dispatch(), stop(), observe() and the restart pass: while a run is      *)
(* active somebody is left who will end it, its dispatch, its session or a *)
(* user's stop, unless storage has failed.  An active run with nobody left *)
(* would have every later occurrence skipped.                              *)
ActiveIsAttended ==
  up /\ ~fault =>
    \A i \in DOMAIN rows :
      IsActive(i) => \/ tasks[i].pc \in {"prepare", "setup", "delivering"}
                     \/ tasks[i].launch = "launched"
                     \/ i \in cancelling
=============================================================================
