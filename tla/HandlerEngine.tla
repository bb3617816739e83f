---------------------------- MODULE HandlerEngine ----------------------------
(***************************************************************************)
(* The Handler (bridge/src/handler/engine.ts): the supervisor of one       *)
(* terminal's agent.  Each pause of the agent goes on the terminal's chain *)
(* and is put to a judge, which lets it rest, answers it, or asks the      *)
(* user; a provider limit or an outage parks the session until a timer.    *)
(*                                                                         *)
(* The chain (enqueue) runs one entry at a time, and everything else the   *)
(* engine does is synchronous and comes in between: while an entry awaits  *)
(* its context, its judge, its snapshots or its extraction the user may    *)
(* type, answer, instruct, disarm or re-arm, the agent may ask or withdraw *)
(* a prompt, and the park timer may fire.  An entry that waits behind no   *)
(* other starts in a microtask, before any of these.                       *)
(*                                                                         *)
(* Left out: the words of rows, pushes and the activity feed, the judge's  *)
(* and the lens's choice, authorization, undo, prompts without an id, and  *)
(* session:set-mode and session:restart, which keep the session armed.     *)
(***************************************************************************)
EXTENDS Naturals, Sequences, SequencesExt, FiniteSets, Selection

CONSTANTS
  Prompt,            \* permission requests and questions of the agent
  Item,              \* backlog items
  Reply,             \* lines a judge may want typed
  None,
  TransientCeiling, LimitCeiling, MaxReasks,
  MaxConsecutive,    \* RunawayGuard: replies in a row
  RepeatWindow,      \* RunawayGuard: replies remembered
  MaxReports,        \* MAX_BLOCKED_REPORTS
  MaxTurns,          \* bound: pauses of the agent
  MaxActs,           \* bound: acts of the user
  MaxTroubles,       \* bound: limits, failed turns, lost lines, failed acts
                     \* and saves, pauses with nothing new
  MaxArms,           \* bound: sessions armed on the terminal
  MaxCrashes         \* bound: crashes of the bridge

ASSUME HandlerAssumption ==
  /\ {TransientCeiling, LimitCeiling, MaxReports, MaxConsecutive, RepeatWindow} \subseteq Nat \ {0}
  /\ {MaxReasks, MaxTurns, MaxActs, MaxTroubles, MaxArms, MaxCrashes} \subseteq Nat
  /\ None \notin Prompt /\ None \notin Nat

VARIABLES
  s,        \* the armed session, with the terminal's park timer
  guard,    \* the terminal's GuardState
  chain,    \* what waits on the terminal's chain
  running,  \* the chain's entry that is being awaited
  latest,   \* the newest pause, 0 when there is none
  queued,   \* queuedPrompts
  disk,     \* the session's record
  agent,    \* external: "idle", "working", "retrying" by itself, "cancelled",
            \* "unheard": the last line typed to it was lost
  open,     \* external: the prompts the agent is stopped on
  told,     \* history: prompts asked since the session was armed
  ctx,      \* external: how far transcript and terminal have come
  turns, acts, troubles, arms, crashes   \* counted against the bounds

engine == <<s, guard, chain, running, latest, queued, disk>>
world == <<agent, open, told, ctx>>
vars == <<engine, world, turns, acts, troubles, arms, crashes>>

-----------------------------------------------------------------------------
(* Entries of the chain.                                                    *)
Turn(n) == [kind |-> "turn", of |-> n]
Asks(p) == [kind |-> "prompt", of |-> p]
Extraction == [kind |-> "extract", of |-> 0]
Seeding == [kind |-> "seed", of |-> 0]     \* onlyIfEmpty

(* Escalations: a question of a pass, an ask that stops nothing, the same   *)
(* once promoted, a prompt to be resolved in the session, a report.         *)
Row(kind, p, unblocked) == [kind |-> kind, of |-> p, unblocked |-> unblocked]
Question == Row("question", None, {})
Report == Row("report", None, {})

(* The places of the rows of some kinds.                                    *)
Rows(h, kinds) == {k \in DOMAIN h.rows : h.rows[k].kind \in kinds}
pendingQuestions(h) == Cardinality(Rows(h, {"question", "ask", "promoted", "prompt"}))
blockingQuestions(h) == Cardinality(Rows(h, {"question", "promoted", "prompt"}))
restingState(h) == IF h.rows = <<>> THEN "watching" ELSE "needs_you"
Rested(h) == [h EXCEPT !.state = restingState(h)]

Running(h) == {i \in Item : h.backlog[i] = "running"}
Present(h) == {i \in Item : h.backlog[i] # "absent"}
allTerminal(h) == Present(h) # {} /\ \A i \in Present(h) : h.backlog[i] = "closed"

Unarmed ==
  [armed |-> FALSE, id |-> 0, state |-> "watching", rows |-> <<>>,
   backlog |-> [i \in Item |-> "absent"], transient |-> 0, limits |-> 0, reasks |-> 0,
   judged |-> None, parkKind |-> None, selfResuming |-> FALSE, retry |-> 0,
   owed |-> FALSE, answer |-> None, promptGen |-> 0, awaiting |-> FALSE,
   timer |-> FALSE]

NoGuard == [consecutive |-> 0, recent |-> <<>>]
Idle == [pc |-> "idle"]

(* persist: what of a session its record keeps.                             *)
Record(h, armed, suspended) ==
  [armed |-> armed, suspended |-> suspended, rows |-> h.rows, backlog |-> h.backlog,
   transient |-> h.transient, parkKind |-> h.parkKind, owed |-> h.owed,
   answer |-> h.answer, reasks |-> h.reasks]
Persist(h) == disk' = Record(h, TRUE, FALSE)

-----------------------------------------------------------------------------
(* Parks.                                                                   *)

unparkIfParked(h) ==
  IF h.state # "parked" THEN h
  ELSE Rested([h EXCEPT !.timer = FALSE, !.parkKind = None, !.selfResuming = FALSE,
                        !.retry = 0, !.owed = FALSE])

enterPark(h, kind, selfResuming, retry) ==
  [h EXCEPT !.state = "parked", !.parkKind = kind, !.selfResuming = selfResuming,
            !.retry = retry, !.owed = (retry # 0), !.timer = ~selfResuming]

(* escalate, for a row that is not a report.                                *)
Escalated(h, row) == [h EXCEPT !.rows = Append(@, row), !.state = "needs_you"]

(* Mutant: a report that is not repeated leaves the session as it was.      *)
WithReportUnrested(h) ==
  LET standing == Rows(h, {"report"})
  IN  IF standing = {} THEN {[h EXCEPT !.rows = Append(@, Report), !.state = "needs_you"]}
      ELSE {h}

(* escalate, for a report: an identical one is not repeated, and the oldest *)
(* gives way.                                                               *)
WithReport(h) ==
  LET standing == Rows(h, {"report"})
      kept == IF Cardinality(standing) < MaxReports THEN h.rows ELSE RemoveAt(h.rows, Min(standing))
  IN  {[h EXCEPT !.rows = Append(kept, Report), !.state = "needs_you"]}
      \cup (IF standing = {} THEN {} ELSE {[h EXCEPT !.state = "needs_you"]})

registerTransientFailure(h, retry) ==
  LET g == [h EXCEPT !.transient = IF @ < TransientCeiling THEN @ + 1 ELSE @]
  IN  IF g.transient < TransientCeiling THEN enterPark(g, "outage", FALSE, retry)
      ELSE IF pendingQuestions(g) = 0 THEN Escalated(g, Question)
      ELSE [g EXCEPT !.state = "needs_you"]

-----------------------------------------------------------------------------
(* reconcileAsks: an ask whose work is over now holds the session.          *)
reconcileAsks(h) ==
  LET still(r) == r.unblocked \cap Running(h)
  IN  [h EXCEPT !.rows = [k \in DOMAIN h.rows |->
         IF h.rows[k].kind # "ask" THEN h.rows[k]
         ELSE IF still(h.rows[k]) = {} THEN Row("promoted", None, {})
         ELSE [h.rows[k] EXCEPT !.unblocked = still(h.rows[k])]]]

(* raiseAsk: one question of the Handler's at a time.                       *)
raiseAsk(h, unblocked) ==
  IF Rows(h, {"ask", "promoted"}) # {} THEN h
  ELSE [h EXCEPT !.rows = Append(@, Row("ask", None, unblocked \cap Running(h)))]

(* parkAskAnswer: the row goes, the answer waits for a judge.               *)
parkAskAnswer(h, k, how) ==
  LET g == [h EXCEPT !.rows = RemoveAt(@, k), !.answer = [n |-> acts, how |-> how, session |-> h.id],
                     !.judged = None, !.promptGen = @ + 1]
  IN  IF h.state = "parked" THEN g ELSE Rested(g)

(* disarm, from any of its callers.                                         *)
Disarmed(h) == [Unarmed EXCEPT !.id = h.id, !.timer = unparkIfParked(h).timer]

Disarm(h, suspended) ==
  /\ s' = Disarmed(h)
  /\ disk' = Record(unparkIfParked(h), FALSE, suspended)
  /\ latest' = 0
  /\ queued' = {}
  /\ guard' = NoGuard

(* handleEvent, for a pause.                                                *)
handleTurn(n) ==
  /\ latest' = n
  /\ chain' = Append(chain, Turn(n))

(* maybeRelayNow: re-enter on the last pause, or make one up.               *)
maybeRelayNow(h) ==
  IF h.awaiting THEN UNCHANGED <<chain, latest, turns>>
  ELSE IF latest # 0 THEN handleTurn(latest) /\ UNCHANGED turns
  ELSE turns' = turns + 1 /\ handleTurn(turns + 1)

-----------------------------------------------------------------------------
(* The user.                                                                *)

Working == {"working", "retrying"}

(* injectReply, or a line of the user's: it opens a turn or joins one.      *)
Prompted == IF agent = "retrying" THEN agent ELSE "working"

(* A line that its terminal drops, or that the driver rejects: the app may  *)
(* be shown an error, and no event of the handler's follows.                *)
Lost == IF agent \in Working THEN agent ELSE "unheard"

Typed == agent' \in {Prompted, Lost}

(* Counts a step that went wrong.  Bound: before the last pause.            *)
Trouble(wrong) ==
  IF wrong THEN turns < MaxTurns /\ troubles < MaxTroubles /\ troubles' = troubles + 1
  ELSE UNCHANGED troubles

(* Other work comes only when the chain is awaiting something or is empty.  *)
Quiet == running.pc # "idle" \/ chain = <<>>

UserActs ==
  /\ Quiet
  /\ acts < MaxActs
  /\ acts' = acts + 1
  /\ UNCHANGED <<running, ctx, crashes>>

(* Mutant: the park of the last process is restored without its timer.      *)
rehydrateParkUntimed(h, rec, past) ==
  IF rec.parkKind = None THEN h
  ELSE IF past THEN [h EXCEPT !.timer = FALSE]
  ELSE [h EXCEPT !.state = "parked", !.parkKind = rec.parkKind, !.owed = rec.owed]

(* rehydratePark: a park of the last process, unless its time has passed.   *)
rehydratePark(h, rec, past) ==
  IF rec.parkKind = None THEN h
  ELSE IF past THEN [h EXCEPT !.timer = FALSE]
  ELSE [h EXCEPT !.state = "parked", !.parkKind = rec.parkKind, !.owed = rec.owed, !.timer = TRUE]

(* The list the app sent along, statuses and all, or else the one there is. *)
Status == {"absent", "running", "stuck", "closed"}
Given(items, backlog) == IF items = None THEN backlog ELSE items

(* A goal is made into items, unless the app sent them.                     *)
Seeded(goal, items) == chain' = IF goal /\ items = None THEN Append(chain, Seeding) ELSE chain

(* arm, on a terminal with no session: a record that was armed or suspended *)
(* is resumed, without the prompts of the runtime that is gone.             *)
Arm(goal, items, past) ==
  /\ UserActs
  /\ ~s.armed
  /\ arms < MaxArms
  /\ LET resumed == disk.armed \/ disk.suspended
         carried == Only(disk.rows, {r \in ToSet(disk.rows) : r.kind # "prompt"})
         fresh == [Unarmed EXCEPT !.armed = TRUE, !.id = arms + 1, !.timer = s.timer]
         loaded == Rested([fresh EXCEPT !.rows = carried, !.backlog = Given(items, disk.backlog),
                     !.transient = disk.transient, !.answer = disk.answer,
                     !.reasks = IF \E i \in Item : Given(items, disk.backlog)[i] \in {"running", "stuck"}
                                THEN disk.reasks ELSE 0])
         h == IF resumed THEN rehydratePark(loaded, disk, past)
              ELSE [fresh EXCEPT !.backlog = Given(items, @)]
     IN  s' = h /\ Persist(h)
  /\ arms' = arms + 1
  /\ Seeded(goal, items)
  /\ told' = {}
  /\ UNCHANGED <<guard, latest, queued, agent, open, turns, troubles>>

(* arm, on a live session.                                                  *)
Configure(goal, items) ==
  /\ UserActs
  /\ s.armed
  /\ LET h == [s EXCEPT !.judged = None, !.backlog = Given(items, @)] IN s' = h /\ Persist(h)
  /\ Seeded(goal, items)
  /\ UNCHANGED <<guard, latest, queued, agent, open, told, turns, troubles, arms>>

(* handler:configure with armed false.                                      *)
UserDisarms ==
  /\ UserActs
  /\ s.armed
  /\ Disarm(s, FALSE)
  /\ UNCHANGED <<chain, agent, open, told, turns, troubles, arms>>

(* Mutant: a line takes the rows of unresolved prompts with it.             *)
KeptByLine(p, r) == r.kind \in {"ask", "report"}

(* onUserReply: a submitted line (p is None), or a prompt resolved.         *)
KeptBy(p, r) ==
  \/ r.kind \in {"ask", "report"}
  \/ r.kind = "prompt" /\ r.of # p

Replied(h, p) ==
  LET u == unparkIfParked([h EXCEPT !.judged = None])
      kept == Only(u.rows, {r \in ToSet(u.rows) : KeptBy(p, r)})
      g == [u EXCEPT !.transient = 0, !.limits = 0, !.reasks = 0]
  IN  IF h.state # "parked" /\ kept = h.rows THEN g
      ELSE Rested([g EXCEPT !.rows = kept, !.promptGen = @ + 1])

UserReplies(p) ==
  /\ UserActs
  /\ p \in open \cup {None}
  /\ guard' = NoGuard
  /\ queued' = queued \ {p}
  /\ IF ~s.armed THEN UNCHANGED <<s, disk>>
     ELSE LET h == Replied(s, p)
          IN  /\ s' = h
              /\ IF h.promptGen = s.promptGen THEN UNCHANGED disk ELSE Persist(h)
  /\ open' = open \ {p}
  /\ Typed
  /\ Trouble(agent' = "unheard")
  /\ UNCHANGED <<chain, latest, told, turns, arms>>

(* onTurnCancelled: the agent stops, and the end of a cancelled turn is no  *)
(* event of the handler's.                                                  *)
UserCancels ==
  /\ UserActs
  /\ agent \in Working
  /\ agent' = "cancelled"
  /\ LET h == unparkIfParked(s) IN s' = h /\ IF h = s THEN UNCHANGED disk ELSE Persist(h)
  /\ UNCHANGED <<guard, chain, latest, queued, open, told, turns, troubles, arms>>

(* answerAsk, and instruct that names an ask: the answer is for the judge.  *)
(* "late" (history): given in a park of the last process that owes a pass.  *)
AnswerAsk(k) ==
  /\ UserActs
  /\ k \in DOMAIN s.rows
  /\ s.rows[k].kind = "ask"
  /\ LET late == s.owed /\ s.retry = 0
         h == parkAskAnswer(s, k, IF late THEN "late" ELSE "relay")
     IN  s' = h /\ Persist(h) /\ maybeRelayNow(h)
  /\ UNCHANGED <<guard, queued, agent, open, told, troubles, arms>>

(* instruct that was delivered: the words went to the agent as well, by the *)
(* ordinary reply beside it.                                                *)
AnswerDelivered(k) ==
  /\ UserActs
  /\ k \in DOMAIN s.rows
  /\ s.rows[k].kind \in {"question", "promoted"}
  /\ LET h == parkAskAnswer(s, k, "delivered") IN s' = h /\ Persist(h)
  /\ Typed
  /\ Trouble(agent' = "unheard")
  /\ UNCHANGED <<guard, chain, latest, queued, open, told, turns, arms>>

(* dismissEscalation: a report is read, an ask is declined.                 *)
Dismiss(k) ==
  /\ UserActs
  /\ k \in DOMAIN s.rows
  /\ s.rows[k].kind \in {"report", "ask"}
  /\ LET read == [s EXCEPT !.rows = RemoveAt(@, k)]
         h == IF s.rows[k].kind = "ask" THEN parkAskAnswer(s, k, "declined")
              ELSE IF s.state = "parked" THEN read ELSE Rested(read)
     IN  s' = h /\ Persist(h)
  /\ UNCHANGED <<guard, chain, latest, queued, agent, open, told, turns, troubles, arms>>

(* instruct: the sentence goes to the extractor, the questions it takes the *)
(* place of go, and a pass is started if nothing else would.                *)
Instruct ==
  /\ UserActs
  /\ s.armed
  /\ guard' = NoGuard
  /\ LET kept == Only(s.rows, {r \in ToSet(s.rows) : r.kind \in {"ask", "report", "prompt"}})
         superseded == kept # s.rows
         g == [s EXCEPT !.judged = None, !.promptGen = @ + 1, !.rows = kept]
         h == IF superseded /\ s.state # "parked" THEN Rested(g) ELSE g
         wakes == /\ h.state # "parked"
                  /\ superseded \/ Rows(h, {"report"}) # {}
                  /\ ~h.awaiting
     IN  /\ s' = h
         /\ Persist(h)
         /\ IF ~wakes THEN chain' = Append(chain, Extraction) /\ UNCHANGED <<latest, turns>>
            ELSE /\ latest' = IF latest # 0 THEN latest ELSE turns + 1
                 /\ turns' = IF latest # 0 THEN turns ELSE turns + 1
                 /\ chain' = chain \o <<Extraction, Turn(latest')>>
  /\ UNCHANGED <<queued, agent, open, told, troubles, arms>>

-----------------------------------------------------------------------------
(* The agent, and what its driver or its hooks report.                      *)

AgentActs == Quiet /\ UNCHANGED <<running, guard, acts, arms, crashes>>

(* onPromptRetracted: p, or with None every prompt.                         *)
Retracted(h, p) ==
  LET u == unparkIfParked(h)
      kept == Only(u.rows, {r \in ToSet(u.rows) :
                IF p = None THEN r.kind \in {"report", "ask"} ELSE r.of # p})
  IN  IF h.state # "parked" /\ kept = h.rows THEN h
      ELSE Rested([u EXCEPT !.rows = kept])

AfterRetraction(p) ==
  /\ queued' = IF p = None THEN {} ELSE queued \ {p}
  /\ open' = IF p = None THEN {} ELSE open \ {p}
  /\ IF ~s.armed THEN UNCHANGED <<s, disk>>
     ELSE LET h == Retracted(s, p)
          IN  s' = h /\ IF h = s THEN UNCHANGED disk ELSE Persist(h)

(* A permission request or a question.                                      *)
AgentAsks(p) ==
  /\ AgentActs
  /\ agent = "working"
  /\ p \notin open \cup told
  /\ s.armed
  /\ open' = open \cup {p}
  /\ told' = told \cup {p}
  /\ queued' = queued \cup {p}
  /\ chain' = Append(chain, Asks(p))
  /\ UNCHANGED <<s, latest, disk, agent, ctx, turns, troubles>>

(* A prompt withdrawn, or answered in the terminal.                         *)
AgentWithdraws(p) ==
  /\ AgentActs
  /\ p \in open
  /\ AfterRetraction(p)
  /\ UNCHANGED <<chain, latest, agent, told, ctx, turns, troubles>>

(* The end of a turn; a driver then sweeps the prompts still pending.       *)
AgentStops ==
  /\ AgentActs
  /\ agent = "working"
  /\ turns < MaxTurns
  /\ agent' = "idle"
  /\ ctx' = ctx + 1
  /\ turns' = turns + 1
  /\ handleTurn(turns + 1)
  /\ IF open = {} THEN UNCHANGED <<s, disk, queued, open>> ELSE AfterRetraction(None)
  /\ UNCHANGED <<told, troubles>>

(* awaiting_input, which ends no turn: a pause the context has not moved    *)
(* for.  One it has moved for is as the end of a turn with nothing to sweep. *)
AgentAwaitsInput ==
  /\ AgentActs
  /\ agent = "working"
  /\ open = {}
  /\ Trouble(TRUE)
  /\ agent' = "idle"
  /\ turns' = turns + 1
  /\ handleTurn(turns + 1)
  /\ UNCHANGED <<s, disk, queued, open, told, ctx>>

(* A provider limit, with or without a driver that retries by itself, the   *)
(* end of one, or a failed turn.  A driver that gives up retrying reports   *)
(* the end of its turn as well.                                             *)
Lifecycle == {"limit_hit", "limit_hit_self", "limit_cleared", "turn_failed"}

AgentReports(kind) ==
  LET report == [kind |-> kind, of |-> 0]
      gone == kind \in {"limit_hit", "turn_failed"}
  IN  /\ AgentActs
      /\ Trouble(kind # "limit_cleared")
      /\ s.armed
      /\ agent \in Working
      /\ kind = "limit_cleared" => agent = "retrying"
      /\ gone => open = {}
      /\ agent' = CASE kind = "limit_hit_self" -> "retrying"
                    [] kind = "limit_cleared" -> "working"
                    [] OTHER -> "idle"
      /\ IF gone /\ agent = "retrying"
         THEN /\ turns' = turns + 1
              /\ latest' = turns + 1
              /\ chain' = chain \o <<report, Turn(turns + 1)>>
         ELSE chain' = Append(chain, report) /\ UNCHANGED <<latest, turns>>
      /\ UNCHANGED <<s, queued, disk, open, told, ctx>>

(* Another writer sets the agent to work: the session bus, the scheduler.   *)
OthersPrompt ==
  /\ Quiet
  /\ acts < MaxActs
  /\ acts' = acts + 1
  /\ agent \notin Working
  /\ agent' = "working"
  /\ UNCHANGED <<engine, open, told, ctx, turns, troubles, arms, crashes>>

(* onTerminalExit: the runtime is gone, and its prompts with it.            *)
TerminalExits ==
  /\ Quiet
  /\ s.armed
  /\ Disarm(s, TRUE)
  /\ agent' = "idle"
  /\ open' = {}
  /\ UNCHANGED <<chain, running, told, ctx, turns, acts, troubles, arms, crashes>>

-----------------------------------------------------------------------------
(* The chain: one entry at a time.                                          *)

Starting ==
  /\ running = Idle
  /\ chain # <<>>
  /\ UNCHANGED <<acts, troubles, arms, crashes, turns>>

(* handleEvent's check at its turn: superseded or withdrawn meanwhile.      *)
Live(e) ==
  CASE e.kind = "turn" -> latest = e.of
    [] e.kind = "prompt" -> e.of \in queued
    [] OTHER -> TRUE

Dropped ==
  LET e == Head(chain)
  IN  /\ Starting
      /\ \/ ~Live(e)
         \/ ~s.armed
         \/ e.kind = "seed" /\ Present(s) # {}
      /\ chain' = Tail(chain)
      /\ queued' = IF e.kind = "prompt" THEN queued \ {e.of} ELSE queued
      /\ UNCHANGED <<s, guard, running, latest, disk, world>>

Starts(kind) == Starting /\ Head(chain).kind = kind /\ Live(Head(chain)) /\ s.armed

(* What every event begins with; a change of rows is persisted.             *)
Entered(h) == reconcileAsks([h EXCEPT !.awaiting = FALSE])
SaveRows(h) == IF h.rows = s.rows THEN UNCHANGED disk ELSE Persist(h)

(* The account is not entitled any more.                                    *)
Suspended ==
  /\ \E kind \in Lifecycle \cup {"turn", "prompt"} : Starts(kind)
  /\ Disarm(Entered(s), TRUE)
  /\ chain' = Tail(chain)
  /\ UNCHANGED <<running, world>>

(* handleLifecycle.  A pause a judge still owes a verdict on is re-judged.  *)
LimitCleared ==
  LET h == Entered(s)
      u == unparkIfParked(h)
      again == h.state = "parked" /\ h.retry # 0
  IN  /\ Starts("limit_cleared")
      /\ s' = u
      /\ IF u.state = h.state THEN SaveRows(h) ELSE Persist(u)
      /\ chain' = IF again THEN Append(Tail(chain), Turn(h.retry)) ELSE Tail(chain)
      /\ latest' = IF again THEN h.retry ELSE latest
      /\ UNCHANGED <<guard, running, queued, world>>

AfterLimit(h, selfResuming) ==
  LET refresh == h.state = "parked" /\ h.parkKind = "limit"
      g == IF refresh \/ h.limits = LimitCeiling THEN h ELSE [h EXCEPT !.limits = @ + 1]
      u == unparkIfParked(g)
  IN  IF refresh \/ g.limits < LimitCeiling THEN enterPark(g, "limit", selfResuming, h.retry)
      ELSE IF pendingQuestions(u) = 0 THEN Escalated(u, Question)
      ELSE u

AfterFailure(h) == IF h.state = "parked" THEN h ELSE registerTransientFailure(h, 0)

LimitOrFailure(kind) ==
  LET h == Entered(s)
      g == CASE kind = "limit_hit" -> AfterLimit(h, FALSE)
             [] kind = "limit_hit_self" -> AfterLimit(h, TRUE)
             [] kind = "turn_failed" -> AfterFailure(h)
  IN  /\ Starts(kind)
      /\ s' = g
      /\ IF g = h THEN SaveRows(h) ELSE Persist(g)
      /\ chain' = Tail(chain)
      /\ UNCHANGED <<guard, running, latest, queued, world>>

(* A blocking prompt ends a park and is the user's to resolve.              *)
PromptEscalates ==
  LET p == Head(chain).of
      h == Escalated(unparkIfParked(Entered(s)), Row("prompt", p, {}))
  IN  /\ Starts("prompt")
      /\ queued' = queued \ {p}
      /\ s' = h
      /\ Persist(h)
      /\ chain' = Tail(chain)
      /\ UNCHANGED <<guard, running, latest, world>>

(* A pause of a parked session is not judged, unless the agent has resumed. *)
ParkedPause ==
  LET h == Entered(s)
  IN  /\ Starts("turn")
      /\ s.state = "parked"
      /\ ~s.selfResuming
      /\ s' = h
      /\ SaveRows(h)
      /\ chain' = Tail(chain)
      /\ UNCHANGED <<guard, running, latest, queued, world>>

Pass(pc, n, h) == [pc |-> pc, of |-> n, id |-> h.id, promptGen |-> h.promptGen]

Begin ==
  LET h == unparkIfParked(Entered(s))
      n == Head(chain).of
  IN  /\ Starts("turn")
      /\ s.state = "parked" => s.selfResuming
      /\ s' = [h EXCEPT !.state = "handling"]
      /\ IF s.state = "parked" THEN Persist(h) ELSE SaveRows(h)
      /\ running' = Pass("context", n, h)
      /\ chain' = Tail(chain)
      /\ UNCHANGED <<guard, latest, queued, world>>

-----------------------------------------------------------------------------
(* A pass, from await to await.                                             *)

Awaited(pc) ==
  /\ running.pc = pc
  /\ UNCHANGED <<acts, arms, crashes, turns, open, told, ctx>>

(* The session of the pass is still the terminal's.                         *)
SameSession == s.armed /\ s.id = running.id

(* The session was disarmed or replaced during the await.                   *)
Abandoned ==
  /\ \E pc \in {"context", "judge", "snapshots", "extract"} : Awaited(pc)
  /\ ~SameSession
  /\ running' = Idle
  /\ UNCHANGED <<s, guard, chain, latest, queued, disk, agent, troubles>>

(* Nothing has moved since the last verdict.                                *)
Unmoved ==
  /\ Awaited("context")
  /\ SameSession
  /\ s.judged = ctx
  /\ s' = Rested(s)
  /\ running' = Idle
  /\ UNCHANGED <<guard, chain, latest, queued, disk, agent, troubles>>

Judge ==
  /\ Awaited("context")
  /\ SameSession
  /\ s.judged # ctx
  /\ running' = [pc |-> "judge", of |-> running.of, id |-> running.id,
                 promptGen |-> running.promptGen, hash |-> ctx, answer |-> s.answer]
  /\ UNCHANGED <<s, guard, chain, latest, queued, disk, agent, troubles>>

(* onJudgeUnavailable: the judge, or the context, could not be had.         *)
JudgeFails ==
  /\ \E pc \in {"context", "judge"} : Awaited(pc)
  /\ SameSession
  /\ LET h == registerTransientFailure(s, running.of) IN s' = h /\ Persist(h)
  /\ running' = Idle
  /\ UNCHANGED <<guard, chain, latest, queued, agent, troubles>>

(* Mutant: a context is judged though its prompt went stale meanwhile.      *)
HeardAnyway(h) ==
  [h EXCEPT !.transient = 0, !.limits = 0, !.judged = running.hash,
            !.answer = IF @ = running.answer THEN None ELSE @]

(* What any verdict does first: the answer it was shown is spent, and the   *)
(* context is judged unless its prompt went stale meanwhile.                *)
Heard(h) ==
  [h EXCEPT !.transient = 0, !.limits = 0,
            !.judged = IF h.promptGen = running.promptGen THEN running.hash ELSE @,
            !.answer = IF @ = running.answer THEN None ELSE @]

(* absorbTransitions: what a verdict may do to the backlog.  Of two         *)
(* completions of one item one may be refused for its evidence.             *)
Transitions ==
  {t \in [backlog : [Item -> Status], refused : BOOLEAN, progressed : BOOLEAN] :
     /\ \A i \in Item : s.backlog[i] \in {"absent", "closed"} => t.backlog[i] = s.backlog[i]
     /\ \A i \in Item : s.backlog[i] # "absent" => t.backlog[i] # "absent"
     /\ t.refused => Present(s) # {}
     /\ t.progressed => \E i \in Item : t.backlog[i] = "closed" /\ s.backlog[i] # "closed"}

Absorbed(h, t) ==
  LET closed == \E i \in Item : t.backlog[i] = "closed" /\ h.backlog[i] # "closed"
  IN  [h EXCEPT !.backlog = t.backlog, !.reasks = IF closed /\ ~t.refused THEN 0 ELSE @]

recordProgress(t) == IF t.progressed THEN [guard EXCEPT !.consecutive = 0] ELSE guard

Verdict ==
  /\ Awaited("judge")
  /\ SameSession

(* A save that may throw.  The catch round the act on a verdict rests the   *)
(* session, and what was done to it stays.                                  *)
MaySave(h) == Persist(h) \/ UNCHANGED disk

Unsaved == s'.armed /\ disk' # Record(s', TRUE, FALSE)

(* maybeWrapUp, and where a pass that did not wrap up comes to rest.        *)
WrapsUp(h) == allTerminal(h) /\ pendingQuestions(reconcileAsks(h)) = 0

Settle(h) ==
  IF WrapsUp(h) THEN Disarm(h, FALSE)
  ELSE LET g == Rested(IF allTerminal(h) THEN reconcileAsks(h) ELSE h)
       IN  s' = g /\ MaySave(g) /\ UNCHANGED <<latest, queued>>

(* RunawayGuard.check.                                                      *)
Refuses(g, reply) ==
  \/ g.consecutive >= MaxConsecutive
  \/ \E k \in DOMAIN g.recent : g.recent[k] = reply

(* The reply was refused, by its shape, the floor or the guard.             *)
Blocked(t) ==
  /\ Verdict
  /\ LET h == [Absorbed(Heard(s), t) EXCEPT !.reasks = 0]
     IN  \E r \in WithReport(h) : s' = r /\ MaySave(r)
  /\ guard' = recordProgress(t)
  /\ running' = Idle
  /\ Trouble(Unsaved)
  /\ UNCHANGED <<chain, latest, queued, agent>>

(* The reply may go: at once, or after the snapshots it calls for.          *)
Accepted(t, reply) ==
  /\ Verdict
  /\ ~Refuses(recordProgress(t), reply)
  /\ LET h == Absorbed(Heard(s), t)
     IN  /\ s' = [h EXCEPT !.reasks = 0]
         /\ IF t.backlog = s.backlog THEN MaySave(h) ELSE Persist(h)
  /\ guard' = recordProgress(t)
  /\ running' = [pc |-> "snapshots", id |-> running.id, reply |-> reply]
  /\ UNCHANGED <<chain, latest, queued, agent, troubles>>

recordAutoReply(g, reply) ==
  [consecutive |-> g.consecutive + 1,
   recent |-> LET all == Append(g.recent, reply)
              IN  IF Len(all) > RepeatWindow THEN Tail(all) ELSE all]

(* The reply is typed, and may come with a question for the user.           *)
Send(asks, unblocked) ==
  /\ Awaited("snapshots")
  /\ SameSession
  /\ Typed
  /\ LET h == [s EXCEPT !.awaiting = TRUE]
         g == IF asks THEN raiseAsk(h, unblocked) ELSE h
     IN  /\ Settle(g)
         /\ IF WrapsUp(g) THEN TRUE ELSE guard' = recordAutoReply(guard, running.reply)
  /\ running' = Idle
  /\ Trouble(Unsaved \/ agent' = "unheard")
  /\ UNCHANGED chain

(* wakeSourcePending: another pass or a prompt waits behind this one.       *)
wakeSourcePending == latest # running.of \/ queued # {}

Reasking(h, t) == (t.refused \/ h.reasks > 0) /\ blockingQuestions(h) = 0 /\ ~wakeSourcePending

Reasked(h) == [h EXCEPT !.reasks = @ + 1, !.judged = None]

(* continue: the agent may go on resting.                                   *)
Continue(t) ==
  /\ Verdict
  /\ LET h == Absorbed(Heard(s), t)
     IN  /\ ~Reasking(h, t)
         /\ Settle(h)
         /\ IF WrapsUp(h) THEN TRUE ELSE guard' = recordProgress(t)
  /\ running' = Idle
  /\ Trouble(Unsaved)
  /\ UNCHANGED <<chain, agent>>

(* continue over a refused completion: the judge is asked again, or, its    *)
(* budget spent, the user is.                                               *)
AskAgain(t) ==
  /\ Verdict
  /\ guard' = recordProgress(t)
  /\ LET h == Absorbed(Heard(s), t)
         again == Entered(Reasked(h))
     IN  /\ Reasking(h, t)
         /\ h.reasks < MaxReasks
         /\ s' = [again EXCEPT !.state = "handling"]
         /\ Persist(again)
         /\ running' = Pass("context", running.of, again)
  /\ UNCHANGED <<chain, latest, queued, agent, troubles>>

GiveUpAsking(t) ==
  /\ Verdict
  /\ guard' = recordProgress(t)
  /\ LET h == Absorbed(Heard(s), t)
         g == Escalated([h EXCEPT !.reasks = 0], Question)
     IN  /\ Reasking(h, t)
         /\ h.reasks >= MaxReasks
         /\ s' = g
         /\ MaySave(g)
  /\ running' = Idle
  /\ Trouble(Unsaved)
  /\ UNCHANGED <<chain, latest, queued, agent>>

(* escalate: the question is the user's.                                    *)
Escalate(t) ==
  /\ Verdict
  /\ guard' = recordProgress(t)
  /\ LET h == Escalated([Absorbed(Heard(s), t) EXCEPT !.reasks = 0], Question)
     IN  s' = h /\ MaySave(h)
  /\ running' = Idle
  /\ Trouble(Unsaved)
  /\ UNCHANGED <<chain, latest, queued, agent>>

(* The save of the transitions threw, or that of a re-ask.                  *)
ActFails(t) ==
  /\ Verdict
  /\ guard' = recordProgress(t)
  /\ LET h == Absorbed(Heard(s), t)
     IN  \/ s' = Rested(h)
         \/ Reasking(h, t) /\ h.reasks < MaxReasks /\ s' = Rested(Reasked(h))
  /\ running' = Idle
  /\ Trouble(TRUE)
  /\ UNCHANGED <<chain, latest, queued, disk, agent>>

(* injectReply threw: nothing was typed.                                    *)
SendFails ==
  /\ Awaited("snapshots")
  /\ SameSession
  /\ s' = Rested(s)
  /\ running' = Idle
  /\ Trouble(TRUE)
  /\ UNCHANGED <<guard, chain, latest, queued, disk, agent>>

-----------------------------------------------------------------------------
(* Extraction: a sentence becomes items, or takes items back.               *)

BeginExtraction ==
  /\ \E kind \in {"extract", "seed"} : Starts(kind)
  /\ Head(chain).kind = "seed" => Present(s) = {}
  /\ running' = [pc |-> "extract", id |-> s.id]
  /\ chain' = Tail(chain)
  /\ UNCHANGED <<s, guard, latest, queued, disk, world>>

(* appendItems.  None is added to a full backlog, or for a sentence that    *)
(* takes back what is not open any more.                                    *)
Append1(new) ==
  /\ Awaited("extract")
  /\ SameSession
  /\ new \subseteq Item \ Present(s)
  /\ IF new = {} THEN UNCHANGED <<s, disk>>
     ELSE LET h == [s EXCEPT !.judged = None,
                      !.backlog = [i \in Item |-> IF i \in new THEN "running" ELSE @[i]]]
          IN  s' = h /\ MaySave(h)
  /\ running' = Idle
  /\ Trouble(new # {} /\ Unsaved)
  /\ UNCHANGED <<guard, chain, latest, queued, agent>>

(* applyAmendments: open items are taken away, or only reworded, with what  *)
(* was blocked by them revived; then appendItems, or escalateIfEmptied.     *)
Amend(gone, revived, new) ==
  /\ Awaited("extract")
  /\ SameSession
  /\ \E i \in Item : s.backlog[i] \in {"running", "stuck"}
  /\ gone \subseteq {i \in Item : s.backlog[i] \in {"running", "stuck"}}
  /\ revived \subseteq {i \in Item \ gone : s.backlog[i] = "stuck"}
  /\ gone \cap {i \in Item : s.backlog[i] = "stuck"} = {} => revived = {}
  /\ new \subseteq Item \ (Present(s) \ gone)
  /\ LET g == [s EXCEPT !.judged = None,
                 !.backlog = [i \in Item |-> CASE i \in new \cup revived -> "running"
                                               [] i \in gone \ new -> "absent"
                                               [] OTHER -> @[i]]]
         h == IF Present(g) = {} THEN Escalated(g, Question) ELSE g
     IN  s' = h /\ MaySave(h)
  /\ running' = Idle
  /\ Trouble(Unsaved)
  /\ UNCHANGED <<guard, chain, latest, queued, agent>>

-----------------------------------------------------------------------------
(* onParkTimer: re-judge the pause that is owed, or have the agent go on,   *)
(* unless a question holds it.                                              *)
TimerFires ==
  /\ Quiet
  /\ s.timer
  /\ UNCHANGED <<guard, running, queued, open, told, ctx, acts, arms, crashes, turns>>

StaleTimer ==
  /\ TimerFires
  /\ ~s.armed \/ s.state # "parked"
  /\ s' = [s EXCEPT !.timer = FALSE]
  /\ UNCHANGED <<chain, latest, disk, agent, troubles>>

Wake(h) == s' = h /\ Persist(h)

Rejudge ==
  /\ TimerFires
  /\ s.state = "parked"
  /\ s.retry # 0
  /\ Wake(unparkIfParked(s))
  /\ handleTurn(s.retry)
  /\ UNCHANGED <<agent, troubles>>

Nudges == ~s.owed /\ blockingQuestions(s) = 0

WakeQuietly ==
  /\ TimerFires
  /\ s.state = "parked"
  /\ s.retry = 0
  /\ ~Nudges
  /\ Wake(unparkIfParked(s))
  /\ UNCHANGED <<chain, latest, agent, troubles>>

Nudge ==
  /\ TimerFires
  /\ s.state = "parked"
  /\ s.retry = 0
  /\ Nudges
  /\ Wake(unparkIfParked(s))
  /\ Typed
  /\ Trouble(agent' = "unheard")
  /\ UNCHANGED <<chain, latest>>

(* The bridge dies, and the agents it spawned with it.                      *)
Crash ==
  /\ crashes < MaxCrashes
  /\ crashes' = crashes + 1
  /\ s' = [Unarmed EXCEPT !.id = s.id]
  /\ guard' = NoGuard
  /\ chain' = <<>>
  /\ running' = Idle
  /\ latest' = 0
  /\ queued' = {}
  /\ agent' = "idle"
  /\ open' = {}
  /\ UNCHANGED <<disk, told, ctx, turns, acts, troubles, arms>>

-----------------------------------------------------------------------------
Init ==
  /\ s = Unarmed
  /\ guard = NoGuard
  /\ chain = <<>>
  /\ running = Idle
  /\ latest = 0
  /\ queued = {}
  /\ disk = Record(Unarmed, FALSE, FALSE)
  /\ agent \in {"idle", "working"}
  /\ open = {}
  /\ told = {}
  /\ ctx = 0
  /\ turns = 0 /\ acts = 0 /\ troubles = 0 /\ arms = 0 /\ crashes = 0

User ==
  \/ \E items \in [Item -> Status] \cup {None} : \E goal \in {FALSE, items = None} :
       Configure(goal, items) \/ \E past \in {FALSE, disk.parkKind # None} : Arm(goal, items, past)
  \/ UserDisarms \/ UserCancels \/ Instruct
  \/ \E p \in Prompt \cup {None} : UserReplies(p)
  \/ \E k \in DOMAIN s.rows : AnswerAsk(k) \/ AnswerDelivered(k) \/ Dismiss(k)

Agent ==
  \/ \E p \in Prompt : AgentAsks(p) \/ AgentWithdraws(p)
  \/ AgentStops \/ AgentAwaitsInput \/ TerminalExits \/ OthersPrompt
  \/ \E kind \in Lifecycle : AgentReports(kind)

Chain ==
  \/ Dropped \/ Suspended \/ LimitCleared \/ PromptEscalates \/ ParkedPause \/ Begin
  \/ \E kind \in Lifecycle \ {"limit_cleared"} : LimitOrFailure(kind)
  \/ BeginExtraction

PassStep ==
  \/ Abandoned \/ Unmoved \/ Judge \/ JudgeFails
  \/ /\ running.pc = "judge"
     /\ \E t \in Transitions :
          \/ \E reply \in Reply : Accepted(t, reply)
          \/ Blocked(t) \/ Continue(t) \/ AskAgain(t) \/ GiveUpAsking(t) \/ Escalate(t) \/ ActFails(t)
  \/ \E asks \in BOOLEAN, unblocked \in SUBSET Item : Send(asks, unblocked)
  \/ SendFails
  \/ /\ running.pc = "extract"
     /\ \E new \in SUBSET Item :
          Append1(new) \/ \E gone, revived \in SUBSET Item : Amend(gone, revived, new)

Timer == StaleTimer \/ Rejudge \/ WakeQuietly \/ Nudge

Next == User \/ Agent \/ Chain \/ PassStep \/ Timer \/ Crash

Spec == Init /\ [][Next]_vars

-----------------------------------------------------------------------------
(* A parked session has a way out: the timer that ends its park, unless the *)
(* driver is trusted to resume by itself.  enterPark, unparkIfParked, the   *)
(* re-arm after a crash and every path that ends a park keep the two apart. *)
ParkIsTimed == s.armed /\ s.state = "parked" => s.timer \/ s.selfResuming

(* "handling" is shown only while a pass of this session is at work: no     *)
(* verdict, failure, refusal or interruption leaves it behind.              *)
HandlingIsAPass ==
  s.armed /\ s.state = "handling" => running.pc \in {"context", "judge", "snapshots"} /\ running.id = s.id

(* A prompt the agent is stopped on is on the user's screen or on its way   *)
(* there, and one that was answered or withdrawn is not: whatever order the *)
(* prompt, its answer, and the passes before it came in.                    *)
RowPrompts == {s.rows[k].of : k \in DOMAIN s.rows} \ {None}

PromptsAreRows ==
  /\ RowPrompts \cup queued \subseteq open
  /\ s.armed => open \cap told \subseteq RowPrompts \cup queued

(* An answer the user gave to an ask, for a judge to relay.                 *)
AnswerWaits == s.armed /\ s.answer # None /\ s.answer.how \in {"relay", "late"}

HasProducer ==
  \/ running.pc # "idle"
  \/ chain # <<>>
  \/ agent \in Working
  \/ s.timer
  \/ s.state = "parked" /\ s.selfResuming
  \/ s.rows # <<>>

(* The code leaves an answer to whatever makes the agent pause again in     *)
(* these cases: the user cancelled the turn; the last line that was typed,  *)
(* by the engine or the user, was lost, so no turn came of it; arm took the *)
(* answer over from the record, which starts no pass; it was given in a     *)
(* park so restored, which knows that a judgement is owed and not of what.  *)
LeftAlone ==
  \/ agent \in {"cancelled", "unheard"}
  \/ s.answer.session # s.id
  \/ s.answer.how = "late"

(* Otherwise an answer never waits on nothing: a pass is under way or       *)
(* queued, the agent is working and will pause, a park will end (by its     *)
(* timer, or by the driver that is trusted to resume), or a row holds the   *)
(* session for the user.  The answers parked under an in-flight judge, and  *)
(* in a park, are what this is about.                                       *)
AnswerHasProducer == AnswerWaits => HasProducer \/ LeftAlone

(* engine.ts:1766-1768, of an answer to an ask: "when a reply is still      *)
(* outstanding the agent's own turn_end is in flight and IS the pass that   *)
(* relays".  The reply was heard, and the answer is of this session.        *)
RelayedThoughCancelled ==
  AnswerWaits /\ s.answer.how = "relay" /\ s.answer.session = s.id /\ agent # "unheard" => HasProducer
=============================================================================
