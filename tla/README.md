# A TLA+ model of AntGrid's bridge and relay

AntGrid lets a person drive coding agents that run on several of their machines.
Each machine runs a *bridge* (`bridge/`), a long-lived host process that owns the
agent sessions; bridges reach each other, and the apps reach bridges, through a
*relay* (`relay/`), a stateless-by-design message switch. The project models the
parts of the two that carry a protocol of their own:

* the *session bus* (`bridge/src/session-bus/`), over which sessions send each other
  messages across machines. A message is sealed, held in the sender's outbox, passed to
  the relay, queued there in memory, handed to the receiving bridge, folded into the
  receiving session's stores and acknowledged end to end: at-least-once delivery over
  links that drop, a relay that forgets everything when it restarts, and two bridges that can
  die between any two writes. A line for the agent then waits for the end of its current
  turn, goes in, and is retired by the turn it opens;
* the *relay's sockets* (`relay/src/server.ts`, `connections.ts`): who holds a device,
  who is told that it is there, and what a late close may touch;
* the *scheduler* (`bridge/src/scheduler/`): prompts given to an agent at a time, once each,
  across edits, stops, sleep and crashes;
* the *handler* (`bridge/src/handler/engine.ts`): the supervisor that puts each pause of
  an agent to a judge and parks the session when its provider is out.

## 1. Inventory

### Components, their state and operations

| Component | Source | State | Operations |
|---|---|---|---|
| Outbox | `session-bus/coordinator.ts`, `held-store.ts`, `message-log.ts` | per session, persisted: the outbound log with its stamps (`at`, `relayedAt`, `deliveredAt`, `refusedAt` + code) and the held messages with attempt counts and next attempt times | `message` (log, hold, evict past the cap, offer), `flushHeld` (expire, offer what is due), `pump` (timer), `retryNow` (link back, peer online), `onTransportOutcome` (receipt, ack, refusal), `commit` (two writes) |
| Transport | `relay-transport.ts`, `seen-store.ts` | in memory: inbound chain, deferred flag, drain timer, queued acks, token bucket; persisted: `bus_seen` verdicts | `send`, `handleFrame`, `enqueueDeliver`/`processDeliver`, `ack`/`flushAcks`, `requestDrain`, `onAuthenticated`; `SeenStore.record` prunes |
| Relay bus handlers | `relay/src/server.ts` | authenticated sockets | `bus:send`, `bus:ack`, `bus:drain`, hello, close, `sweepBus` |
| Relay bus queue | `relay/src/bus-queue.ts` | in memory: entries by recipient and by key, tallies per recipient, per sender, total | `enqueue`, `pending`, `markDelivered`, `redeliverable`, `ack`, `sweep`, `purgeDevice`, `purgeUser`, `clear` |
| Receiving host | `bridge/src/host-server.ts` `handleBusInbound`, `coordinator.onMessage` | the session's inbound log, threads, mailbox | fold, refuse, or ask for later |
| Pair budget | `pair-budget.ts`, `request-policy.ts` | per pair of sessions: halt, exchange window | charge, halt, lift, mirror of a peer's halt |
| Delivery queue | `delivery-queue.ts` | persisted: lines waiting for a turn boundary of an agent, with attempts and stamp; in memory: a confirm timer per session | `queue`, `drain`, `drainAll`, `confirm`, `forget`, timer callback, load |
| Work status | `work-status.ts`, `project-core.ts` `commitWork` | open turns, blocks and running sessions of a project | turn starts and ends, requests and answers, session lists |
| Bus requests | `bus-requests.ts`, `request-rate.ts`, `remote-directory.ts` | pending requests, answered requests | request, respond, time out, answer a repeat |
| Mailbox, threads, artifacts | `mailbox.ts`, `thread-store.ts`, `artifact-store.ts` | bounded lists with a time to live | add, trim, expire, read |
| Relay connections | `relay/src/server.ts`, `connections.ts`, `socket-admissions.ts`, `connection-liveness.ts` | in memory: slots per address, hello timers, entries by socket, device and account, last signs of life | upgrade, hello (awaits the licence gate), arbitrate by epoch and timestamp, supersede, fan out presence, ping, revoke, expire, close |
| Relay limits | `relay/src/rate-limiter.ts`, `replay-cache.ts` | token buckets, recent nonces | take, refill, check-and-remember |
| Scheduler | `scheduler/service.ts`, `store.ts`, `cron.ts`; the scheduled launches of `session-manager.ts` | persisted: schedules with their next occurrence, run records, the owner of a workspace; in memory: dispatches at an await, runs being stopped, a storage fault | create, update, delete, run now, tick (claim, record missed, catch up), dispatch, observe, stop, restart |
| Handler | `handler/engine.ts` | per terminal: the armed session (state, rows, backlog, park), a chain of pauses, the pass at an await, queued prompts, the runaway guard, a park timer; persisted: the session's record | arm, configure, disarm, reply, answer, dismiss, instruct, pass, park, wake, extract, re-arm |

The rest of the repository (terminals, agent adapters, peer transport, worktrees,
the Flutter app, the account web site, the evaluation harness) is listed with the
reason it is not modelled under `components` in `PROJECT.json`.

### How they interact

    session A                                                            session B
       | message                                                             ^ fold
    coordinator A -- outbox, log (SQLite)              inbox, bus_seen -- host B
       |  ^ outcome                                                      ^   | verdict
    transport A  == upA ==>  relay handlers  == downB ==>  transport B --+   |
                 <= downA ==   bus queue     <== upB ===   (chain, acks) <---+

* `upA` carries `bus:send`; `downA` carries `bus:receipt`, `bus:acked` and
  `bus:refused` (expiry). A receipt means *the relay handed a copy to a socket*, an
  ack means *the receiving host has a verdict*; only the ack settles a message.
* `downB` carries `bus:deliver`; `upB` carries `bus:ack` and `bus:drain`.
* Each socket delivers in order, and what was on it is gone when it drops.
* The relay keeps an entry until an ack, its expiry, or a purge, and hands it over
  again from hello, drain, a resend and its sweep.

The scheduler, the handler and the delivery queue all end in an agent's terminal and share
no state: the scheduler opens sessions of its own, the handler writes to a session it was armed
on, the delivery queue waits for a turn boundary. The relay's connections carry the four half-links
of the picture; the bus needs of them that a socket is in order, and that an entry of a device
is its live socket.

### What is hard here

* **Redundant retries.** Three parties retry (outbox timer, relay sweep, drain), so
  a message is normally seen more than once; only `bus_seen` keeps it from being folded twice.
* **Crash windows.** `commit` writes log and outbox separately; the fold and its
  `bus_seen` row are separate writes; the relay forgets its queue on restart.
* **Lost acks.** The relay drops its entry on an ack even if the sender is offline,
  so a lost `acked` frame is repaired only by a resend that is re-acked.
* **Expiry against late answers.** The sender, the relay and the receiver each decide expiry
  on their own, the receiver with a skew; `bus_seen` is pruned on yet another clock.
* **Bounds.** Outbox, relay queue, inbound chain and ack queue each have a cap, and
  each drops, evicts or refuses in its own way.
* **Drains from everywhere.** A line can be submitted by an arrival, the end of a turn, the
  anonymous turn, a session list or a timer; one turn's end causes several of these at once.
* **Evidence by edge.** A line counts as read when a turn opens, an edge that may
  come late, never, or from another agent than the one that was given the line.
* **Incremental books.** Admission to the relay queue reads running tallies that
  seven operations maintain.
* **Close is not closed.** `ws.close()` and its callback are two events, and a hello waits for
  the licence gate between them: a device may have an old, a new and a third socket at once.
* **Settings edited under way.** A dispatch of the scheduler awaits a workspace, a session and a
  prompt, while the schedule it read is edited, paused, deleted or stopped.
* **Occurrences that pass unseen.** The desktop sleeps, is closed or is busy with another run; what
  is missed, what is late and what is still due differ by one comparison.
* **A supervisor with one chain.** Everything the handler decides is awaited, and everything
  the user and the agent do is not: any verdict may be about a session that has moved on.

### What makes each component correct

* Outbox: nothing that was logged drops out of sight; what a sender was told does not
  change; *delivered* is said only of what the receiver holds; every message is
  settled in the end.
* Transport and seen store: no copy is folded twice while another can arrive.
* Relay queue: tallies equal the contents, limits hold, both indexes agree, order
  of arrival is kept, a resend does not prolong an entry's life.
* Pair budget: a halt survives restart and reaches both ends. Delivery queue: lines go in one per turn, a
  waiting line is timed, attempts are bounded, a turn retires only what its agent was given, and no line is stuck. Bus requests: every request
  ends once, a repeat is answered from the stored response.
* Connections: one holder per device, tables that agree, slots that are those of the sockets, presence that
  is true of the account, and a timer for every socket that is silent.
* Scheduler: an occurrence is prompted once, is in the history once, and is not written off if it
  fell due while the desktop was open; one run is active at a time, somebody is left to end it, an
  ended one stays ended, and a deleted schedule gives its workspace back.
* Handler: a park ends, a session shows a pass only while there is one, a prompt is on screen exactly
  while the agent is stopped on it, and an answer waits for a judge that will come.

The `hazards` list of `PROJECT.json` names each of these dangers at its line, with
the properties that cover it.

## 2. Modules

| Module | Models |
|---|---|
| `SessionBus` | one direction of the bus, both bridges, the relay's bus handlers and the four half-links, with failures |
| `AtLeastOnce` | the contract the bus keeps towards a sender, without any machinery |
| `BusQueue` | the relay's queue data structure with its indexes and tallies |
| `DeliveryQueue` | the lines waiting for the agents of one project, and the work status that drives them |
| `RelayConnections` | the relay's sockets from upgrade to close, and presence |
| `Scheduler` | one schedule with its runs, dispatches and workspace |
| `HandlerEngine` | the supervisor of one terminal, its user and its agent |
| `Selection` | `Array.prototype.filter`, with which queues, lists and rows are edited, by counting positions rather than by recursion, so that it can be reasoned about |
| `MCSessionBus`, `MCBusQueue`, `MCDeliveryQueue`, `MCRelayConnections`, `MCScheduler`, `MCHandlerEngine` | the instances TLC checks |
| `SessionBusProofs`, `SessionBusSafety`, `BusQueueProofs`, `DeliveryQueueProofs`, `RelayConnectionsProofs`, `SchedulerProofs`, `HandlerEngineProofs` | theorems and their proofs |
| `SelectionProofs` | the lemmas about filtering that the queues' and the handler's proofs share |

### SessionBus

Messages are `1..N` in the order written. Variables and the code's state:

| Variable | Code |
|---|---|
| `stamps`, `code` | the stamps and `refusedCode` of the log entry (`message-log.ts`) |
| `held` | the outbox (`held-store.ts`); it appends and never reorders, so a set of numbers is enough |
| `link`, `upA`, `downA`, `upB`, `downB` | the two web sockets, one FIFO per direction |
| `queue` | `BusQueue.pending` of the recipient |
| `chain`, `stage` | `inboundChain`: deliveries accepted and not finished, and how far the first one is across its awaits |
| `acks`, `drainWanted`, `drainTimer` | `queuedAcks`, `deferredSinceDrain`, `drainTimer` |
| `inbox`, `seen` | the inbound log; the `bus_seen` table |
| `age` | the clock, as far as a verdict depends on it (0 live, 1 expired for sender and relay, 2 expired for the receiver too) |
| `tornSend`, `tornFold` | history: messages whose two writes a crash separated |

Actions: `Message`, `Pump`, `SenderFrame` and `ConnectA` are the sender;
`RelaySend`, `RelayAck`, `RelayDrain`, `RelaySweep` the relay; `ConnectB`,
`EnqueueDeliver`, `ProcessDeliver`, `HandleInbound`, `RecordVerdict`, `FlushAcks`,
`SendDrain` the receiver; `DropA`, `DropB`, `RelayRestart`, `CrashInMessage`,
`CrashInSettle`, `CrashInFlush`, `CrashB` and `Age` failures and time. A handler that runs
without an await is one action; `processDeliver`, which awaits, is three.

Abstractions, each of which only adds behaviours or removes ones that change nothing:

* intervals shorter than the six-hour life of a message (backoff, the five-minute
  resend, the minute before a redelivery, the drain interval, token buckets) become a free
  choice of what is due or allowed;
* directory lookups, keys and signatures become a free choice among *defer*,
  *refuse*, *cannot open* and *go on*, counted by `trouble`;
* a receipt its sender is bound to ignore is not put in flight;
* a crash that separates no two writes is a lost socket (`DropA`) for the sender;
  for the receiver `CrashB` may strike anywhere.

### BusQueue

`byKey` and `byRecipient` are the two indexes, `recipientTally`, `senderTally` and
`totalBytes` the running totals; every method of the class is an action, and `Tick`
moves its clock. `Remove` is `remove` applied to a set of entries, as `sweep`, `purge*` and `ack` use it.
`SessionBus` uses the queue of one recipient by its order and its cap only, which is
what `BusQueue` shows the class to keep (`IndexesAgree`, `ArrivalOrder`, `WithinLimits`).

### DeliveryQueue

`lines`, `attempts` and `sent` are the rows of the queue (`sentAt` as *no*, *waiting*
inside the confirm window, *overdue* past it), `timers` the confirm timers; `turns`, `blocked` and `running`
are what `busDeliverable` reads of the work status. `Drain`, `Confirm` and
`Commit` work on the queue as a value, because one event often runs several of
them: `CommitWork` is `commitWork`, confirms and then drains, and every change of the work status
(`TurnOpens`, `TurnCloses`, `Blocks`, `Unblocks`, `SessionStarts`, `SessionStops`) goes through it.
`Arrive` is `queue`, `SessionUpdated` the drain after a session list, `TimerFires` the callback.
Three history variables carry the properties: `composer`, the lines the live agent of a
session was given and has not read; `orphaned`, the queued lines whose agent was stopped before reading them and that no
agent was given again since; and `fresh`, the sessions given a line with neither a turn nor a confirm window since.

Abstractions: requests and calls to action are one block per session; whether a session has a
notification on record, which makes `becameDeliverable` name it beside the anonymous turn,
is a free choice (`again`); an agent either always or never announces its turns; `setTimeout` and
`Date.now` pass the confirm window together; the queue's file is always written.

### RelayConnections

`ready` and `phase` are a socket's `readyState` and `ws.data.phase`, `hello` what it claimed, `timers` the
hello timers, `reservations` and `byIp` the two maps of `SocketAdmissions`, `byConnection`, `byDevice` and
`byUid` those of `Connections`, `liveness` the tracked sockets (*fresh*, or *late* past the window). `view` is
history: the agents each socket was told are online.

Actions: `Upgrade` reserves a slot; `Hello` moves a socket to the gate's await, after which `GateRefuses`,
`HelloOutranked` or `HelloAdmitted` runs the rest of `handleHello` (arbitration, superseding, insertion,
presence) if the socket is still open; `Misuse`, `HelloTimeout`, `PingInterval`, `Revoke` and
`Expire` call `ws.close()`, and `Close` is the callback, which may come much later. `Heard` and
`Quiet` are signs of life and their absence.

Abstractions: signature, clock, nonce and licence are one verdict; the device determines its account,
type and key; close codes are left out.

### Scheduler

`sched`, `rows` and `owned` are what SQLite and the checkout record hold, `tasks` the dispatch and the session
launch of each run, `cancelling`, `releasing`, `unreleased` and `fault` the service's own sets and
latch. `base`, `offered` and `prompted` are history: where the present timetable starts, the one-off
instants ticked on time, the runs whose prompt went to an agent.

`releasing` says what became of the clean-up of a deleted schedule: *none*, *running*, or *unread* where `start()` could
not read the deleted ones: `cleanupDeleted` opens with a `read` that latches no fault, `start()` swallows its error, and
nothing is released, reported or tried again before another start or another delete.

Actions: `Create`, `Update`, `Retime`, `Delete`, `RunNow` and `Stop` are the user's; `TickOneOff` and `TickRecurring`
the two halves of `tick`, each with its reconciliation and its claim; a dispatch goes through `Prepare`, `SetupFails`,
`GiveBack`, `Deliver`, `Delivered` and `ReleaseAfter`, one action for each stretch between two awaits;
`SessionReports` is `observe`; `StopEnds` and `Release` finish what was awaited; `StorageFails`, `Crash`,
`Restart` and `TimePasses` are failures and time. A transaction of the store is part of one action.

Abstractions: every rule is per schedule, so there is one; a time is a number of ticks and the
timetable the multiples of `Period`; what an execution depends on is one value, `ask`; statuses that
no code tells apart are one. `Retime`, a change of cron expression or timezone, moves to another timetable that again
has the multiples of `Period` as its occurrences, so what it changes is where the timetable starts and which occurrence is
next; an edit changes one thing at a time.

### HandlerEngine

`s` is the armed session with its park timer, `guard` the runaway guard, `chain` what `enqueue` has
waiting, `running` the entry being awaited and where it stands, `latest` the newest pause, `queued` the prompts not
yet shown, `disk` the record. `agent`, `open` and `ctx` are external: what the agent does, the prompts it is
stopped on, how far its transcript has come. `told` is history: prompts asked since the session was armed.

`User` (arm, configure, disarm, reply, cancel, answer, dismiss, instruct) and `Agent` (ask, withdraw,
stop, pause with nothing new to show, exit, report a limit or a failed turn) are synchronous and interleave with everything. `Chain` starts the next
entry: a pause, a prompt, a provider's limit, an extraction. `PassStep` is a pass at one of its
awaits (context, judge, snapshots, extraction): abandoned, failed, or a verdict of each kind. The catch round the act on a
verdict is modelled: a save or `injectReply` that throws rests the session and keeps what was done to it (`MaySave`, `ActFails`,
`SendFails`). A line that is typed, by the engine or beside it, may be lost (`Typed`): the terminal does not know it, or
the driver rejects it and the app is shown an `agent:error`, which is no event of the handler's; the agent is then *unheard*. `Timer` is the
park's callback, `Crash` the death of the bridge; arming again reads the record.

Abstractions: the judge's verdict is a free choice; rows are told apart by kind and by the
prompt they carry; an entry that waits behind no other starts before anything else happens, as a microtask does.

## 3. What TLC checks

| Run | Bounds | Shows |
|---|---|---|
| `bus_one_message` | 1 message, every queue of length 1, one dropped link, one crash, one trouble, full ageing, at most 3 frames in flight | `DeliveredIsApplied`, `AppliedOnce`, `NothingSilentlyLost`, `HostRefusalIsFinal`, `SettledIsFinal`, `NoFoldAfterDelivered`, and that the bus implements `AtLeastOnce` |
| `bus_three_messages` | 3 messages, the last oversized, room for 2 in the outbox and 1 everywhere else, one crash, no ageing | `AppliedOnce` and the refinement when messages compete for places, evict each other and are refused by the sender itself |
| `bus_liveness` | 1 message, one dropped link, one restart, one trouble, no ageing | `EventuallySettled` |
| `bus_queue` | 2 accounts whose 3 devices have the same ids, sizes 1 and 2, all limits reachable | books, indexes, limits, order and expiry of the relay queue; purges and acks do not cross accounts |
| `delivery` | 2 sessions, one of which announces nothing, 3 lines, room for 2, 4 arrivals, attributed and anonymous turns, blocks, one restart, one stop, one throwing adapter | `StampedIsHead`, `WaitIsTimed`, `HandedAtMost` |
| `delivery_turns` | 1 session that announces its turns, 2 lines, 4 arrivals, one restart, one stop | `OneLinePerTurn`, `RetiredIsRead`, `EventuallyGoesIn` |
| `relay_connections` | 3 sockets, an agent and an app of one account and an agent of another, 2 addresses, 2 sockets per address and 3 in all, 2 epochs, 2 timestamps; sockets and addresses are symmetric | `OneHolder`, `SlotsAreSockets`, `PresenceAgrees`, `SilentIsWatched` |
| `scheduler_one_off` | 2 things to ask for, instant 2 or a timetable of period 2, time up to 3, 2 runs, one edit, one fault; stops succeed | `OccurrenceOnce`, `DueWhileOpenRuns`, `ActiveIsAttended` |
| `scheduler_recurring` | 1 thing to ask for, period 3, time up to 6, catch-up lead 2, missed counts capped at 1, 2 runs, one edit, one fault; stops may be rejected | `TypeOK`, `OneActiveRun`, `Accounted`, `DeletedIsReleased`, `TerminalIsFinal` |
| `handler` | 1 prompt, 1 backlog item, 1 reply, ceilings of 2, 2 pauses, 3 acts of the user, one trouble (a limit, a failed turn, a lost line, an act or save that throws, a pause with nothing new), 2 arms, one crash | `ParkIsTimed`, `HandlingIsAPass`, `PromptsAreRows`, `AnswerHasProducer` |
| `refused_yet_applied`, `answer_lost_to_cancel` | | violations, see below |

Why the bounds are enough to be interesting: the protocol treats messages
independently except where they share a bound, so one message meets every
combination of failures and three messages meet every shared bound at its limit. One
failure of each kind reaches every window between two writes, and their combinations
cover a failure during the recovery from another. The flight bound only delays new
offers, acks, drains and redeliveries, never the handling of a frame, so it
cannot hide a stuck state; three frames are enough for a resend, a redelivery and an
answer to cross.

For the delivery queue two sessions are enough for a sibling's eviction, two lines
of one session for a line behind another, four arrivals for a repeat. Three sockets are an old
holder, its successor and one that tells the others apart, or a device that is superseded twice. Two
runs are one that is active and one that is deferred, skipped or claimed beside it; one edit changes the
settings under a dispatch at any of its awaits; two periods hold a missed, a caught-up and a planned
occurrence. With missed counts capped at 1 the count in `Accounted` is always 1 in the run; the theorem has every cap. For the handler two pauses are one in flight and one behind it, three acts of the user an arming,
an answer and one more in between, and the second arm is the one after a crash or a disarming. One prompt meets every order of asking, answering, withdrawing and
showing; two prompts at once are in the theorem `RowsAreThePrompts` only, as is the eviction from the outbox for the one message of
`bus_one_message` in `NothingIsSilentlyLost` and `SettledForGood` (and in `bus_three_messages` for the contract).

`CHECK_DEADLOCK FALSE` in all runs but `bus_queue`: the numbers of messages, sockets, runs, turns and failures
are bounded, and a system with nothing left to do legitimately rests. `bus_liveness` and
`delivery_turns` are what show that these two do not rest too early.

**Fairness** (`FairSpec`). Weak fairness for the handlers of frames that have arrived, the
inbound chain and redialling: event loops keep running and both bridges dial
again for ever. Strong fairness for acks, drains, the outbox timer and the relay's
sweep: they repeat for as long as there is something to send, so something sendable
again and again is sent; weak fairness would be too little because the flight bound and the
link switch them off for a while. No fairness is assumed for failures, for troubles, or
for expiry: `EventuallySettled` is checked with messages that never expire, so it is
delivery itself that settles them and not the clock.

`DeliveryQueue` assumes of fairness only that a confirm window passes and its callback runs.
`EventuallyGoesIn` is conditional on the session coming to a boundary again and again, so nothing is
assumed of agents or users, and nothing of session lists that would happen to help.

### Where comments and code differ

Two runs show TLC violating what a comment says; each is a `finding` in `PROJECT.json`.

* `refused_yet_applied`: *"The message will never be delivered"* (`message-log.ts:28`) of a refused
  message. A message that expires or is evicted while its ack is under way is
  stamped refused although the receiver holds it.
* `answer_lost_to_cancel`: *"when a reply is still outstanding the agent's own turn_end is in flight and IS the
  pass that relays"* (`engine.ts:1766-1767`). If the user cancels the turn there is no turn end, the
  flag stays set, and an answer to the ask that rode the reply starts no pass.

TLC also showed the following; they are no longer kept as runs.

* *"the order a sender wrote in is the order the target reads"* (`held-store.ts:57-58`): a new message is
  offered while an older one waits for its retry (two messages, one trouble).
* A verdict's row outlives every acceptable copy (`seen-store.ts:7-9`): expiry is judged on the
  relay-corrected clock, pruning on `Date.now()` (`SeenClockLead = 1`).
* `attempts` bounds the submits of a line *"however many processes do it"* (`delivery-queue.ts:168-169`): it
  is read only of a stamped line, and a restart takes the stamp away.
* *"The session opened a turn, so the line it was submitted is being read"* (`delivery-queue.ts:323`): not
  if the agent that was given it stopped and another one runs now. `RetiredIsRead` excepts exactly the lines left so (`orphaned`).
* A drop needs a re-entry or *"the line behind it waits for an unrelated event"*
  (`delivery-queue.ts:289-291`): an eviction by a sibling session is a drop without one.
* Scheduler: with `StopMayFail`, a session that cannot be stopped leaves its run active with
  nobody at work on it, so `ActiveIsAttended` needs stops that succeed. A deferred one-off *"fell due
  while the desktop was open"* (`service.ts:373-374`), but one that fell due during a sleep and is first ticked while a manual run
  is active is deferred as well, and then runs whatever `catchUp` says; `DueWhileOpenRuns` states the direction that holds. Of a failed
  `read` *"a failure there leaves nothing behind, so it is reported until the next successful read"* (`service.ts:179-180`): the
  one that `cleanupDeleted` makes at start leaves a deleted schedule's workspace owned, and after the next successful read unreported.
* Handler: the wake-up nudge *"must never land while a question is waiting on the human"*
  (`engine.ts:3180-3186`), yet a prompt queued behind an extraction while the session is parked is not a
  row yet and does not hold it back; an extraction that empties the backlog of a parked session leaves
  its timer and park kind behind, which `StaleTimer` absorbs; a `handle` verdict may be typed over a prompt that came during the judge's
  await; a reply that is lost sets `awaitingAgent` all the same, and an answer to the ask that rode it then waits on nothing; an
  answer that `arm` takes over from the record starts no pass; one given in a park that was restored with a judgement owed is kept
  and not relayed;
  a `limit_hit` of a self-resuming driver that is handled after the agent has gone idle parks the session without a timer, to wait for a
  resumption nobody is at work on (`AnswerHasProducer`, like the code, trusts the driver).

Two limits come from constants of the model. The wall clock does not go back: set back, and followed by an edit, it
would have `claim` find the occurrence's key taken. A device does not change its account: while its old socket is up
the old account would not be told that it has gone.

Further limits are part of the design and appear as exceptions in the properties. A crash of the
receiver between a fold and its `bus_seen` row makes the next copy fold again (`tornFold`), and one
of the sender between log and outbox leaves a message logged and never sent (`tornSend`). An agent that announces no
turns is given the next line at the next event of any kind, so `OneLinePerTurn` is about agents that do.

The passing properties are stated with exactly these exceptions and no others: `tornFold`,
`tornSend` and `SeenClockLead = 0` on the bus; in the delivery queue a restart counted in
`HandedAtMost`, a line whose agent was stopped before reading it in `RetiredIsRead`, and no eviction in `delivery_turns`; in
`AnswerHasProducer` a cancelled turn, a last line that was lost, an answer taken over by `arm`, an answer given in a restored park
that owes a judgement (these four are `LeftAlone`), and the trust in a driver that resumes by itself; in `DeletedIsReleased` a
start that could not read the deleted schedules; storage that has failed, and stops that are rejected, in `ActiveIsAttended`.

## 4. What TLAPS proves

Every safety property that a passing run checks, invariant, action property or refinement, is also a theorem, for every
number of messages and failures, every limit, every set of devices, lines, prompts and items. The runs
show it on a small instance first; the last and largest inductive invariant, the handler's `AInv`, was model-checked as well before it was proved.

Hypotheses beyond the named assumptions on the constants are stated in the theorem and are the exceptions listed above:
`SeenClockLead = 0` (four theorems of the bus), a place in the queue for every line (`OneLineAtATime`)
and `StopMayFail = FALSE` (`ActiveIsAttendedHolds`). TLC finds a counterexample without each of them.

* **`SessionBusProofs`**, from `BusAssumption`. `TypeCorrect`: `Spec => []TypeOK`. `TypeOK` is
  inductive; it includes that a delivery is in progress only while the inbound chain
  has one. One lemma per process, one step per action.
* **`SessionBusSafety`**, from the same. `SenderMove(m)` sums up what any step of the system can do to one
  message at its sender; `EveryStepMoves` proves it of every action, and from it follow
  `NothingIsSilentlyLost` (an invariant: a logged message is held, settled or torn by a crash) and
  `SettledForGood` (an action property). `DeliveredMeansApplied` is not inductive by itself: a
  sender stamps *delivered* on the strength of a frame, which came from an ack, which came from a verdict
  on disk or a fold just made. `Provenance` says that each of these, wherever it is, speaks of a
  message already in the inbox; it is proved inductive from the fact that the inbox only grows.

  What the receiver remembers is the other half. `Memory` says that a fold is remembered in `bus_seen`, is being
  recorded, or is of a message too old to be let in again, and that what is past the check is new; it gives `FoldedAtMostOnce`.
  `Decided(m, v)` says that every further copy of `m` will be answered `v` without a fold; `Finality` says that whatever any
  ack, frame or stamp says of a message is decided, and gives `HostRefusalsAreFinal` and `NothingFoldsAfterDelivered`.
  With `Written` (what travels was logged first), these show step by step that the bus
  implements `AtLeastOnce` (`BusImplementsContract`).
* **`BusQueueProofs`**, from `LimitsAssumption`. The inductive invariant `Books` says that the shape of
  the two maps is right and that the tallies of each recipient, each sender and the whole equal the counts and byte
  sums of what is held. `TalliesAreExact`, `LimitsHold` (admission compares the tallies, so
  exact tallies within limits stay within limits), `ExpiryIsFixed` and `QueueTypeCorrect` follow. `Lists` adds the lists of the recipients:
  `IndexesAlwaysAgree`, and `MailKeepsItsPlace` because filtering keeps the order of what it keeps.
* **`SelectionProofs`**. `Only(s, K)` has the members of `s` in `K` and no others, as often and in the
  order they had. The proofs count positions, since an induction over sequences is not available.
* **`DeliveryQueueProofs`**, from `QueueAssumption`. The operations of the queue are functions from queues to queues, and each has a lemma about
  what it makes of a `Calm` queue: typed, each line once, only heads stamped, timers exactly where a line waits (`Good`), attempts
  within their budget (`Counted`: a line without a stamp has one left, which is why a restart, which takes stamps away, costs one more).
  `OneLineAtATime` adds `Settled`: a session that was given a line and has shown no turn since runs and, if it announces
  turns, still has the stamped line that holds the next one back. `TurnsRetireWhatWasRead` adds `Handed`: a stamped line is
  with the agent of its session, or its agent was stopped before reading it. It needs no bound on stops, because a line is stamped only when
  it is given to a running agent, and one that is orphaned leaves that set when it is given again.
* **`RelayConnectionsProofs`**, from `ConnectionsAssumption`. `OneHolder`, `SilentIsWatched` and `SlotsAreSockets` are proved
  together, because the tables are kept true by what is known of a socket's phase: the inductive invariant adds
  `FiledUnderItsOwn` (an entry is filed under its own account and no other), `PhaseOfReady` (which
  phases go with which ready states) and `FiniteSlots` (which counting needs). `PresenceAgrees` is then proved on top of it: every step
  that changes who holds a device tells exactly the sockets that share its account. `Socket` and `Device` may be any sets.
* **`SchedulerProofs`**, from `SchedulerAssumption`. Every action is first shown to make a `Records` step: records that have
  ended are untouched, runs that have ended do not come back, new records are fresh. `TerminalIsFinal` is part of
  it. `OneActiveRun` is inductive with the types; `OccurrenceOnce` is not: it needs `KeyOnce` (two
  claims are of two occurrences, because the claim moves the schedule on), `HandedBack` (a record of the timetable without
  a claim was skipped before its prompt), `Unprompted` (no prompt goes out before the setup is over), and in
  the types `OnTimetable` (the next occurrence of a recurring schedule is on its timetable). `ActiveIsAttended` is
  proved for `StopMayFail = FALSE` from two further facts: `BoundFirst` (a session held for a run is named by its
  record, so that `stop` and `observe` find it) and `Attended`, which does not count a dispatch that
  is only waiting for its prompt to be delivered: its session is what ends the run.

  `DeletedIsReleased`, with the unread start among its cases, is inductive with the types. `DueWhileOpenRuns` needs `DInv`, which says of an instant that was ticked on time that
  it is claimed, or deferred with nothing on record against it, through every edit and hand-back. `Accounted` needs `NInv`: each record
  covers a stretch of the timetable from its own first to its last occurrence and has their number up to the cap, and the stretches cover
  everything before the next occurrence once.
* **`HandlerEngineProofs`**, from `HandlerAssumption`. `ParkIsTimed`, `HandlingIsAPass` and `PromptsAreRows` are
  inductive together with the shape of the session (`Inv`); a lemma for each operator on sessions says what it leaves alone.
  `AnswerHasProducer` is far from inductive. `AInv` adds `Numbered` (sessions and the changes that make a verdict
  stale are numbered), `Fresh` (an answer has reopened the context, has outdated a judge under way that was not shown it, and is in no park that
  owes a judgement), and `Attentive`, about an agent that is idle: an awaited pause is on the chain; an answer has an entry of the chain that
  starts a pass or parks the session, a pass still before its verdict, a park, or a row; and a pass that was not shown the answer,
  or a `limit_cleared` on the chain, is followed by such an entry. The last two are what a finishing pass and an ending park
  fall back on. `AnswersArePassedOn` follows.

## 5. What is only model-checked

* `EventuallySettled` and `EventuallyGoesIn`: liveness under fairness is beyond the prover.
* The two violations: a counterexample needs no proof.

## 6. What is not modelled, and the plan

Most of the repository is not a protocol: the Flutter app, the web site, wire schemas, adapters to coding agents, PTY and git
I/O, command line and HTTP routing. Their correctness is in text, layout and the behaviour of external programs, and a
module of them would restate them; the models therefore cover the small part of the lines that keeps state across
awaits, processes or restarts.

Not modelled of the parts above:

* session bus: the cap of 10,000 verdicts of the seen store and the ring of 500 entries of the message log (both need
  volumes no small instance has), failing disk writes, same-machine delivery (an in-process call), schema
  validation and cryptography; a `bus:ack` that the relay's rate limiter drops with the socket up (`server.ts:461-464`), whose
  effect on the bus is that of an ack lost with its link; a delivery that arrives before the bridge knows its own device
  (`relay-transport.ts:338`, dropped without an answer, like one the chain had no room for) or that is malformed (383); a crash
  inside the commit of an oversize refusal (`coordinator.ts:614`, `1190`), which
  leaves it stamped and in the outbox, where the next offer refuses it again without moving the stamp; in the delivery queue a wall clock set back against the confirm timer, which
  makes the callback find its window not yet over;
* relay connections: push, peer signalling, the licence cache; a revocation that names the account as well as the
  device (`internal-routes.ts:125-127`), which narrows nothing while a device keeps one account;
* scheduler: parsing of cron expressions and daylight saving, names and their clashes, dry runs, chat-mode carry-over, the
  workspace lock, pruning at 500 runs, a second stop while one is at work;
* handler: the words of rows, pushes and the feed, the choice of judge and lens, authorization, undo, an entitlement that lapses at a re-ask;
  prompts that carry no id, whose rows any reply takes down (`engine.ts:2256-2259`); a save that throws inside `disarm` or a
  wrap-up; and `session:set-mode` and `session:restart`, which swap the runtime under a session that stays armed (`keepArmed`,
  `engine.ts:2448-2457`): `PromptsAreRows` and `AnswerHasProducer` say nothing of what such a swap leaves behind.

Plan, most important first:

1. `PairBudget`: the two ends of a pair with halts mirrored over an at-least-once bus
   (composing with `AtLeastOnce`). Invariants: a halt is never lost by a restart or by eviction
   of another pair.
2. `BusRequests`: requests with timeouts against late and repeated answers.
3. `RelayLimits`: token buckets and the replay cache as operators against reference definitions.
4. `Mailbox` and threads: bounded lists with a time to live.

The safety properties of the modules above are all proved; a new module comes with its own proofs.
