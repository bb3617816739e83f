---------------------------- MODULE DeliveryQueue ----------------------------
(***************************************************************************)
(* Turn-boundary delivery (session-bus/delivery-queue.ts).  A line that    *)
(* arrives for a session waits in a persisted queue until no turn and no   *)
(* unanswered question is open there, and then goes into the agent.  An    *)
(* agent that announces its turns keeps its line queued, stamped, until    *)
(* the turn opens; if none opens in time the line goes in again, and after *)
(* MaxAttempts it is dropped.  The queue of one project serves several     *)
(* sessions and is driven by commitWork (project-core.ts), the one place   *)
(* where the project's turns and blocks change.                            *)
(*                                                                         *)
(* A line handed to an agent is only ever read asynchronously (the submit  *)
(* queue of a terminal, the driver of a chat), so no turn opens inside     *)
(* inject, and the drains of different sessions do not touch each other.   *)
(***************************************************************************)
EXTENDS Naturals, Sequences, FiniteSets, SequencesExt, Selection

CONSTANTS
  Session,        \* the sessions of one project
  Line,           \* the lines that arrive, by message id
  SessionOf,      \* the session each line is for
  Announcing,     \* sessions whose agent announces the start of a turn
  TurnKeys,       \* the keys turns are reported under
  Unattributed,   \* UNATTRIBUTED_TURN
  MaxLines,       \* MAX_QUEUED_LINES
  MaxAttempts,    \* MAX_SUBMIT_ATTEMPTS
  MaxArrivals,    \* bound: calls of queue, repeats included
  MaxRestarts,    \* bound: restarts of the bridge
  MaxStops,       \* bound: sessions stopped
  MaxFaults       \* bound: adapters that throw

ASSUME QueueAssumption ==
  /\ SessionOf \in [Line -> Session]
  /\ Announcing \subseteq Session
  /\ TurnKeys \subseteq Session \cup {Unattributed}
  /\ Unattributed \notin Session
  /\ MaxLines \in Nat \ {0}
  /\ MaxAttempts \in Nat \ {0}
  /\ {MaxArrivals, MaxRestarts, MaxStops, MaxFaults} \subseteq Nat

VARIABLES
  lines,       \* the queued lines in order; the copy on disk is the same
  attempts,    \* submits attempted, per line
  sent,        \* sentAt: "no", "waiting" inside the confirm window, "overdue" past it
  timers,      \* confirmTimers: "off", "armed", or "due": expired, not yet run
  turns,       \* activeTurns
  blocked,     \* sessions with an open request or a call to action
  running,     \* sessions with a live agent
  composer,    \* history: lines given to the live agent and not read yet
  orphaned,    \* history: queued lines whose agent was stopped before it read
               \* them, not given to another since
  fresh,       \* history: sessions given a line, with no turn and no confirm
               \* window passed since
  arrivals, restarts, stops, faults

queueVars == <<lines, attempts, sent, timers, composer, fresh>>
workVars == <<turns, blocked, running>>
counters == <<arrivals, restarts, stops, faults>>
vars == <<queueVars, orphaned, workVars, counters>>

-----------------------------------------------------------------------------
(* The queue as a value: the operations below build on one another within  *)
(* one step.                                                               *)

Queue == [lines |-> lines, attempts |-> attempts, sent |-> sent,
          timers |-> timers, composer |-> composer, fresh |-> fresh]

Becomes(q) ==
  /\ lines' = q.lines
  /\ attempts' = q.attempts
  /\ sent' = q.sent
  /\ timers' = q.timers
  /\ composer' = q.composer
  /\ fresh' = q.fresh

Without(ls, L) == Only(ls, Line \ L)

LinesOf(S) == {l \in Line : SessionOf[l] \in S}

(* linesFor(s)[0] of every session in S.                                    *)
Heads(ls, S) ==
  {ls[i] : i \in {j \in DOMAIN ls :
                    /\ SessionOf[ls[j]] \in S
                    /\ \A k \in 1..(j - 1) : SessionOf[ls[k]] # SessionOf[ls[j]]}}

(* A line that leaves takes its stamp with it, and the timer of a session  *)
(* whose head is not stamped is cleared.                                   *)
Commit(q, ls) ==
  LET stamped == {SessionOf[l] : l \in {m \in Heads(ls, Session) : q.sent[m] # "no"}}
  IN  [q EXCEPT
        !.lines    = ls,
        !.attempts = [l \in Line |-> IF l \in ToSet(ls) THEN @[l] ELSE 0],
        !.sent     = [l \in Line |-> IF l \in ToSet(ls) THEN @[l] ELSE "no"],
        !.timers   = [s \in Session |-> IF s \in stamped THEN @[s] ELSE "off"]]

(* Mutant of Submitted: a timer that is pending is kept.                    *)
SubmittedOnOldTimer(q, L) ==
  LET waits == {l \in L : SessionOf[l] \in Announcing}
      left  == Commit(q, Without(q.lines, L \ waits))
  IN  [left EXCEPT
        !.attempts = [l \in Line |-> IF l \in waits THEN @[l] + 1 ELSE @[l]],
        !.sent     = [l \in Line |-> IF l \in waits THEN "waiting" ELSE @[l]],
        !.timers   = [s \in Session |-> IF @[s] = "off" /\ \E l \in waits : SessionOf[l] = s
                                        THEN "armed" ELSE @[s]],
        !.composer = [s \in Session |-> @[s] \cup {l \in L : SessionOf[l] = s}],
        !.fresh    = @ \cup {SessionOf[l] : l \in L}]

(* The lines L went into their agents: stamped and timed where a turn will *)
(* be announced, removed where the write is the only answer there is.      *)
Submitted(q, L) ==
  LET waits == {l \in L : SessionOf[l] \in Announcing}
      left  == Commit(q, Without(q.lines, L \ waits))
  IN  [left EXCEPT
        !.attempts = [l \in Line |-> IF l \in waits THEN @[l] + 1 ELSE @[l]],
        !.sent     = [l \in Line |-> IF l \in waits THEN "waiting" ELSE @[l]],
        !.timers   = [s \in Session |-> IF \E l \in waits : SessionOf[l] = s
                                        THEN "armed" ELSE @[s]],
        !.composer = [s \in Session |-> @[s] \cup {l \in L : SessionOf[l] = s}],
        !.fresh    = @ \cup {SessionOf[l] : l \in L}]

(* Mutant of Spent: one attempt too many.                                   *)
SpentLate(q, l) == q.sent[l] = "overdue" /\ q.attempts[l] > MaxAttempts

(* A head the agent never took up, at its last attempt.                     *)
Spent(q, l) == q.sent[l] = "overdue" /\ q.attempts[l] >= MaxAttempts

(* Mutant of Drain: a line that waits for its turn is passed over.          *)
DrainPastWaiting(q, S, open, thrown) ==
  LET spent == {l \in Heads(q.lines, S) : Spent(q, l)}
      kept  == Commit(q, Without(q.lines, spent))
      goes  == {l \in Heads(Without(kept.lines, {m \in Line : kept.sent[m] = "waiting"}), S) :
                  SessionOf[l] \in open}
  IN  Submitted(kept, goes \ thrown)

(* Mutant of Drain: a drop ends the drain.                                  *)
DrainStopsAtDrop(q, S, open, thrown) ==
  LET spent == {l \in Heads(q.lines, S) : Spent(q, l)}
      goes  == {l \in Heads(q.lines, S) \ spent :
                  q.sent[l] # "waiting" /\ SessionOf[l] \in open}
  IN  Submitted(Commit(q, Without(q.lines, spent)), goes \ thrown)

(* drain of every session in S.  open are the sessions that can take a     *)
(* line, thrown the lines whose adapter throws.  A drop is followed by a    *)
(* second drain of the session, whose head is then not stamped.             *)
Drain(q, S, open, thrown) ==
  LET spent == {l \in Heads(q.lines, S) : Spent(q, l)}
      kept  == Commit(q, Without(q.lines, spent))
      goes  == {l \in Heads(kept.lines, S) :
                  kept.sent[l] # "waiting" /\ SessionOf[l] \in open}
  IN  Submitted(kept, goes \ thrown)

(* confirm of every session in S: the turn retires the head submitted for it, *)
(* and the agent takes up what it was given.                                *)
Confirm(q, S) ==
  LET taken == {l \in Heads(q.lines, S) : q.sent[l] # "no"}
  IN  [Commit(q, Without(q.lines, taken)) EXCEPT
        !.composer = [s \in Session |-> IF s \in S THEN {} ELSE @[s]],
        !.fresh    = @ \ S]

-----------------------------------------------------------------------------
(* The work-status reduction, as far as the queue reads it.                *)

TurnOpenFor(ts, s) == s \in ts \/ Unattributed \in ts

BusDeliverable(ts, bs, s) == ~TurnOpenFor(ts, s) /\ s \notin bs

(* canDeliver, and the check of injectBusLine that the session runs.        *)
Open(ts, bs, rs) == {s \in rs : BusDeliverable(ts, bs, s)}

BecameDeliverable(ts, bs) ==
  {s \in Session : ~BusDeliverable(turns, blocked, s) /\ BusDeliverable(ts, bs, s)}

OpenedTurns(ts) == (ts \ turns) \ {Unattributed}

Throws == {T \in SUBSET Line : IsFiniteSet(T) /\ faults + Cardinality(T) <= MaxFaults}

(* commitWork: the turns opened confirm, then the sessions released drain.  *)
(* The close of the anonymous turn drains every session; those with a      *)
(* notification on record, again, are drained once more in their own right. *)
CommitWork(q, ts, bs, rs, again, thrown) ==
  LET confirmed == Confirm(q, OpenedTurns(ts))
      open      == Open(ts, bs, rs)
  IN  IF Unattributed \in turns \ ts
      THEN Drain(Drain(confirmed, Session, open, thrown), again, open, thrown)
      ELSE Drain(confirmed, BecameDeliverable(ts, bs), open, thrown)

(* The lines a stopped agent took with it, with rs the sessions that run    *)
(* on, until they are given again or leave the queue.                       *)
Orphans(rs) ==
  {l \in orphaned \cup UNION {composer[s] : s \in running \ rs} :
     l \in ToSet(lines') /\ l \notin composer'[SessionOf[l]]}

(* The reduction moves to turns ts, blocks bs and running sessions rs.  A  *)
(* session:updated frame (listed) ends in drainAll.                        *)
WorkMoves(q, ts, bs, rs, listed) ==
  /\ turns' = ts
  /\ blocked' = bs
  /\ running' = rs
  /\ \E again \in SUBSET BecameDeliverable(ts, bs), thrown \in Throws :
       LET done == CommitWork(q, ts, bs, rs, again, thrown)
       IN  /\ Becomes(IF listed THEN Drain(done, Session, Open(ts, bs, rs), thrown)
                                ELSE done)
           /\ faults' = faults + Cardinality(thrown)
  /\ orphaned' = Orphans(rs)

(* A drain that no change of the work status brought about.                *)
DrainOnly(q, S) ==
  /\ \E thrown \in Throws :
       /\ Becomes(Drain(q, S, Open(turns, blocked, running), thrown))
       /\ faults' = faults + Cardinality(thrown)
  /\ orphaned' = Orphans(running)
  /\ UNCHANGED workVars

-----------------------------------------------------------------------------
Init ==
  /\ lines = <<>>
  /\ attempts = [l \in Line |-> 0]
  /\ sent = [l \in Line |-> "no"]
  /\ timers = [s \in Session |-> "off"]
  /\ turns = {} /\ blocked = {} /\ running = {}
  /\ composer = [s \in Session |-> {}]
  /\ orphaned = {}
  /\ fresh = {}
  /\ arrivals = 0 /\ restarts = 0 /\ stops = 0 /\ faults = 0

(* Mutant of Enqueued: the id is not looked up.                             *)
EnqueuedAgain(q, l) ==
  LET ls == Append(q.lines, l)
  IN  Commit(q, IF Len(ls) > MaxLines THEN Tail(ls) ELSE ls)

(* enqueueLine: a line already held is not queued again, and past the cap   *)
(* the oldest line of any session goes.                                    *)
Enqueued(q, l) ==
  LET ls == Append(q.lines, l)
  IN  IF l \in ToSet(q.lines) THEN q
      ELSE Commit(q, IF Len(ls) > MaxLines THEN Tail(ls) ELSE ls)

Arrive(l) ==
  /\ arrivals < MaxArrivals
  /\ DrainOnly(Enqueued(Queue, l), {SessionOf[l]})
  /\ arrivals' = arrivals + 1
  /\ UNCHANGED <<restarts, stops>>

(* A start clears what the session was blocked on, renewed activity does not. *)
TurnOpens(k) ==
  /\ k \in TurnKeys \ turns
  /\ running # {} /\ (k # Unattributed => k \in running)
  /\ \E bs \in {blocked, blocked \ {k}} : WorkMoves(Queue, turns \cup {k}, bs, running, FALSE)
  /\ UNCHANGED <<arrivals, restarts, stops>>

(* A turn's end, an interrupt, a retraction or the idle limit.              *)
TurnCloses(k) ==
  /\ k \in turns
  /\ \E bs \in {blocked, blocked \ {k}} : WorkMoves(Queue, turns \ {k}, bs, running, FALSE)
  /\ UNCHANGED <<arrivals, restarts, stops>>

(* A permission request, a question or a call to action.                    *)
Blocks(s) ==
  /\ s \in running \ blocked
  /\ WorkMoves(Queue, turns, blocked \cup {s}, running, FALSE)
  /\ UNCHANGED <<arrivals, restarts, stops>>

(* Answered at the keyboard, or retracted: no turn opens.                   *)
Unblocks(s) ==
  /\ s \in blocked
  /\ WorkMoves(Queue, turns, blocked \ {s}, running, FALSE)
  /\ UNCHANGED <<arrivals, restarts, stops>>

(* The list that shows the session running promotes a turn held for it.     *)
SessionStarts(s) ==
  /\ s \notin running
  /\ \E ts \in {turns, turns \cup ({s} \cap TurnKeys)} :
       WorkMoves(Queue, ts, blocked, running \cup {s}, TRUE)
  /\ UNCHANGED <<arrivals, restarts, stops>>

(* The agent and its composer are gone; foldSessions prunes what the       *)
(* session kept, and the anonymous turn with the last session.             *)
SessionStops(s) ==
  /\ s \in running
  /\ stops < MaxStops
  /\ LET live == running \ {s}
     IN  WorkMoves([Queue EXCEPT !.composer[s] = {}, !.fresh = @ \ {s}],
                   {k \in turns : IF k = Unattributed THEN live # {} ELSE k \in live},
                   blocked \ {s}, live, TRUE)
  /\ stops' = stops + 1
  /\ UNCHANGED <<arrivals, restarts>>

(* The list is also sent when a status it shows has changed.                *)
SessionUpdated ==
  /\ DrainOnly(Queue, Session)
  /\ UNCHANGED <<arrivals, restarts, stops>>

(* CONFIRM_TIMEOUT_MS after the last submit into s.                         *)
WindowPasses(s) ==
  /\ s \in fresh \/ timers[s] = "armed"
  /\ fresh' = fresh \ {s}
  /\ sent' = [l \in Line |-> IF SessionOf[l] = s /\ sent[l] = "waiting"
                             THEN "overdue" ELSE sent[l]]
  /\ timers' = [timers EXCEPT ![s] = IF @ = "armed" THEN "due" ELSE @]
  /\ UNCHANGED <<lines, attempts, composer, orphaned, workVars, counters>>

(* The callback of armConfirm.                                             *)
TimerFires(s) ==
  /\ timers[s] = "due"
  /\ DrainOnly([Queue EXCEPT !.timers[s] = "off"], {s})
  /\ UNCHANGED <<arrivals, restarts, stops>>

(* The session was deleted.                                                *)
Forget(s) ==
  /\ s \notin running
  /\ Becomes(Commit(Queue, Without(lines, LinesOf({s}))))
  /\ orphaned' = Orphans(running)
  /\ UNCHANGED <<workVars, counters>>

(* Mutant of AsUnsubmitted: the stamps survive the restart.                 *)
AsUnsubmittedNot(q) == q

(* The bridge ends, its agents and timers with it, and the queue is loaded  *)
(* from disk with no submit outstanding.                                   *)
AsUnsubmitted(q) == [q EXCEPT !.sent = [l \in Line |-> "no"]]

Restart ==
  /\ restarts < MaxRestarts
  /\ Becomes([AsUnsubmitted(Queue) EXCEPT
                !.timers = [s \in Session |-> "off"],
                !.composer = [s \in Session |-> {}],
                !.fresh = {}])
  /\ orphaned' = {}
  /\ turns' = {} /\ blocked' = {} /\ running' = {}
  /\ restarts' = restarts + 1
  /\ UNCHANGED <<arrivals, stops, faults>>

Next ==
  \/ \E l \in Line : Arrive(l)
  \/ \E k \in TurnKeys : TurnOpens(k) \/ TurnCloses(k)
  \/ \E s \in Session :
       \/ Blocks(s) \/ Unblocks(s)
       \/ SessionStarts(s) \/ SessionStops(s)
       \/ WindowPasses(s) \/ TimerFires(s)
       \/ Forget(s)
  \/ SessionUpdated
  \/ Restart

Spec == Init /\ [][Next]_vars

(* The event loop runs: a confirm window passes and its callback is called. *)
FairSpec ==
  Spec /\ \A s \in Session : WF_vars(WindowPasses(s) \/ TimerFires(s))

-----------------------------------------------------------------------------
(* Properties                                                              *)

Queued == ToSet(lines)

(* Every variable has its type, and the queue holds each line once, within  *)
(* its cap.                                                                *)
TypeOK ==
  /\ lines \in Seq(Line) /\ Len(lines) <= MaxLines
  /\ \A i, j \in DOMAIN lines : lines[i] = lines[j] => i = j
  /\ attempts \in [Line -> Nat]
  /\ sent \in [Line -> {"no", "waiting", "overdue"}]
  /\ timers \in [Session -> {"off", "armed", "due"}]
  /\ turns \subseteq TurnKeys /\ blocked \subseteq Session /\ running \subseteq Session
  /\ composer \in [Session -> SUBSET Line] /\ orphaned \subseteq Line /\ fresh \subseteq Session
  /\ arrivals \in 0..MaxArrivals /\ restarts \in 0..MaxRestarts
  /\ stops \in 0..MaxStops /\ faults \in 0..MaxFaults

(* Only the first line of a session is ever outstanding: confirm and drain  *)
(* look at the head alone, so a stamped line further back would be retired  *)
(* by no turn and retried by no timer.                                     *)
StampedIsHead ==
  \A l \in Line : sent[l] # "no" => l \in Heads(lines, Announcing)

(* A line waiting for its turn always has a running confirm timer, and a   *)
(* timer never outlives the stamp it was armed for: the callback is the     *)
(* only thing that comes back for a line whose turn never opens.           *)
WaitIsTimed ==
  \A s \in Session :
    /\ (\E l \in LinesOf({s}) : sent[l] = "waiting") <=> timers[s] = "armed"
    /\ timers[s] = "due" => \E l \in LinesOf({s}) : sent[l] = "overdue"

(* A line is handed over at most MaxAttempts times, and once more for each  *)
(* restart of the bridge: drain reads the count only of a stamped line, and *)
(* a restart takes the stamp away.                                         *)
HandedAtMost == \A l \in Line : attempts[l] <= MaxAttempts + restarts

(* Between two lines into one session its agent, if it announces turns,    *)
(* opens one, or the first line's confirm window passes: lines do not pile  *)
(* up in a composer because several events drain the same session.         *)
OneLinePerTurn ==
  [][\A s \in Announcing :
       composer'[s] \ composer[s] # {} =>
         /\ s \notin fresh
         /\ Cardinality(composer'[s] \ composer[s]) = 1]_vars

(* A turn retires a line only if the agent that opened the turn was given   *)
(* that line, through restarts of the bridge and whatever drained it.  The  *)
(* exception: a line given to an agent that was stopped before reading it   *)
(* keeps its stamp, and the first turn of the session's next agent takes it *)
(* for read; confirm cannot tell the two agents apart.                      *)
RetiredIsRead ==
  [][\A l \in Queued \ ToSet(lines') :
       SessionOf[l] \in turns' \ turns => l \in composer[SessionOf[l]] \cup orphaned]_vars

(* No line waits for ever for a session that comes to a boundary again and  *)
(* again: a turn, a timer or a drop always leads back to it, without the     *)
(* help of an unrelated event.                                             *)
EventuallyGoesIn ==
  \A l \in Line : []<>(SessionOf[l] \in Open(turns, blocked, running))
                      => []<>(l \notin Queued)
=============================================================================
