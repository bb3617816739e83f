------------------------------ MODULE SessionBus ------------------------------
(***************************************************************************)
(* One direction of the cross-machine session bus: the outbox of a sending *)
(* bridge (bridge/src/session-bus/coordinator.ts, held-store.ts,           *)
(* message-log.ts), the transport at both ends (relay-transport.ts,        *)
(* seen-store.ts), the relay's bus handlers (relay/src/server.ts over      *)
(* bus-queue.ts), the four half-links of the two web sockets, and the      *)
(* receiving host (bridge/src/host-server.ts handleBusInbound).            *)
(*                                                                         *)
(* Messages are the numbers 1..N in the order the sender wrote them, so    *)
(* the outbox, which appends and never reorders, is a set.                 *)
(*                                                                         *)
(* Time is kept only as far as a verdict depends on it: age[m] is 0 while  *)
(* m is younger than BUS_MESSAGE_TTL_MS, 1 once its sender and the relay   *)
(* count it expired, 2 once the receiver does too (expiry plus             *)
(* BUS_CLOCK_SKEW_MS).  Every shorter interval (retry backoff, the five    *)
(* minute resend, the minute before a redelivery, the drain interval, the  *)
(* token buckets) may or may not have passed between two steps, so what it *)
(* gates is a nondeterministic choice.                                     *)
(***************************************************************************)
EXTENDS Integers, Sequences, FiniteSets

CONSTANTS
  N,             \* messages the sender writes
  MaxHeld,       \* MAX_HELD_MESSAGES
  RelayCap,      \* the relay's messages per recipient
  MaxInbound,    \* MAX_PENDING_INBOUND
  MaxAcks,       \* MAX_QUEUED_ACKS
  Oversize,      \* messages whose sealed body is too large
  MaxAge,        \* bound on age: 2 lets messages expire, 0 keeps them young
  SeenClockLead, \* how far (in ages) the receiver's wall clock, which prunes
                 \* bus_seen, runs ahead of the relay-corrected clock
  FlightBound,   \* bound: frames in flight, see InFlight
  MaxDrops, MaxRestarts, MaxCrashes,   \* bounds on failures
  MaxTrouble     \* bound: deferrals and refusals of the receiving host,
                 \* unverified acks, relay rate limiting

ASSUME BusAssumption ==
  /\ {N, MaxHeld, RelayCap, MaxInbound, MaxAcks, FlightBound,
      MaxDrops, MaxRestarts, MaxCrashes, MaxTrouble} \subseteq Nat
  /\ MaxHeld > 0 /\ MaxInbound > 0 /\ MaxAcks > 0
  /\ MaxAge \in 0..2 /\ SeenClockLead \in 0..2
  /\ Oversize \subseteq 1..N

Msgs == 1..N
Stamps == {"logged", "relayed", "delivered", "refused"}
Codes == {"none", "OUTBOX_FULL", "EXPIRED", "PLAINTEXT_TOO_LARGE",
          "HOST", "STALE", "UNKNOWN_SENDER"}

VARIABLES
  \* sender: persisted
  stamps,      \* m -> stamps on the outbound log entry
  code,        \* m -> refusedCode of the log entry
  held,        \* the outbox
  \* wires
  link,        \* peer -> is its socket authenticated at the relay
  upA, downA,  \* sender <-> relay
  upB, downB,  \* receiver <-> relay
  \* relay
  queue,       \* entries pending for the receiver, oldest first
  \* receiver: volatile
  chain,       \* deliveries not yet finished, the first one in progress
  stage,       \* how far the first one is
  acks,        \* acks waiting for the link
  drainWanted, drainTimer,
  \* receiver: persisted
  inbox,       \* inbound log of the session, one row per fold
  seen,        \* bus_seen: m -> verdict
  \* environment
  age, drops, restarts, crashes, trouble,
  \* history
  tornSend,    \* logged, and the process died before the outbox row
  tornFold     \* folded, and the process died before the bus_seen row

senderVars == <<stamps, code, held>>
wireVars == <<link, upA, downA, upB, downB>>
recvVars == <<chain, stage, acks, drainWanted, drainTimer>>
storeVars == <<inbox, seen>>
envVars == <<age, drops, restarts, crashes, trouble, tornSend, tornFold>>
vars == <<senderVars, wireVars, queue, recvVars, storeVars, envVars>>

Peers == {"A", "B"}
Acks == [kind : {"ack"}, id : Msgs, outcome : {"applied", "refused"}, code : Codes \cup {"UNOPENABLE"}]
Drain == [kind |-> "drain"]
Notices == [kind : {"receipt", "expired"}, id : Msgs]
Acked == [kind : {"acked"}, id : Msgs, outcome : {"applied", "refused"}, code : Codes \cup {"UNOPENABLE"}]
Stages == {"idle", "inbound", "applied", "refused"}
-----------------------------------------------------------------------------
(* Helpers.                                                                 *)

(* Frames in flight; an unhandled bus:send counts for the two frames it     *)
(* turns into.  Only new offers, acks, drains and redeliveries wait for     *)
(* room, never the handling of a frame, so the bound blocks nothing for     *)
(* good.                                                                    *)
InFlight == 2 * Len(upA) + Len(downA) + Len(upB) + Len(downB)
Room(n) == InFlight + n <= FlightBound

(* The sequences that list the members of K in the order they have in s,   *)
(* or in ascending order: what a filter or a loop in order produces.        *)
Lists(K) == {t \in UNION {[1..n -> K] : n \in 0..Cardinality(K)} :
               \A x \in K : Cardinality({i \in DOMAIN t : t[i] = x}) = 1}
Positions(s, x) == {i \in DOMAIN s : s[i] = x}
Kept(s, K) == {t \in Lists({x \in K : Positions(s, x) # {}}) :
                 \A i, j \in DOMAIN t : i < j =>
                    \A p \in Positions(s, t[i]), q \in Positions(s, t[j]) : p < q}
Ascending(K) == {t \in Lists(K) : \A i, j \in DOMAIN t : i < j => t[i] < t[j]}

InQueue(m) == \E i \in DOMAIN queue : queue[i] = m
Applied(m) == \E i \in DOMAIN inbox : inbox[i] = m
Settled(m) == stamps[m] \cap {"delivered", "refused"} # {}

-----------------------------------------------------------------------------
(* The sender's message log (message-log.ts).                               *)

(* The slip: a receipt of the relay taken for the recipient's ack.          *)
MarkRelayedAsDelivered(m) ==
  IF Settled(m) THEN stamps ELSE [stamps EXCEPT ![m] = @ \cup {"delivered"}]
MarkRelayed(m) ==
  IF Settled(m) THEN stamps ELSE [stamps EXCEPT ![m] = @ \cup {"relayed"}]

(* The slip: the outbox row goes and the log is not told.                   *)
MarkDeliveredNot(m) == stamps
MarkDelivered(m) == [stamps EXCEPT ![m] = @ \cup {"delivered"}]

(* The entries of K that a refusal stamps: a settled one stays as it is.    *)
(* The slip: the refusal stamps it too.                                     *)
RefusableAll(K) == K
Refusable(K) == {m \in K : ~Settled(m)}
(* The slip: evicted and expired messages are dropped unstamped.            *)
MarkRefusedNot(K) == stamps
MarkRefused(K) ==
  [m \in Msgs |-> IF m \in Refusable(K) THEN stamps[m] \cup {"refused"} ELSE stamps[m]]
RefusedCode(K, c) ==
  [m \in Msgs |-> IF m \in Refusable(K) THEN c ELSE code[m]]

(* Both ends of a dead or replaced socket forget what was on it.            *)
CutA == /\ link' = [link EXCEPT !["A"] = FALSE]
        /\ upA' = <<>>
        /\ downA' = <<>>
        /\ UNCHANGED <<upB, downB>>
CutB == /\ link' = [link EXCEPT !["B"] = FALSE]
        /\ upB' = <<>>
        /\ downB' = <<>>
        /\ UNCHANGED <<upA, downA>>
-----------------------------------------------------------------------------
(* The sending host (coordinator.ts over relay-transport.ts send).          *)

Fresh(m) == /\ stamps[m] = {}
            /\ \A x \in Msgs : x < m => stamps[x] # {}

(* The oldest entries the cap pushes out when m is held (holdMessage).      *)
Evicted ==
  {x \in held : Cardinality({y \in held : y > x}) + 1 >= MaxHeld}

(* What one offer makes of the due messages of a pass: the transport takes *)
(* them in order until one does not leave, and that one blocks the rest.    *)
Offered(due, up) ==
  {S \in SUBSET due :
     /\ \A x \in S, y \in due : y < x => y \in S
     /\ ~up => S = {}}

Paced(S, due, up) == up /\ S # due

NoteTrouble(happened) ==
  /\ happened => trouble < MaxTrouble
  /\ trouble' = IF happened THEN trouble + 1 ELSE trouble

(* message: log, hold (evicting past the cap), then offer to the relay.     *)
Message(m) ==
  /\ Fresh(m)
  /\ Room(2)
  /\ LET out == Evicted
     IN  \E S \in Offered({m}, link["A"]) :
           /\ NoteTrouble(Paced(S, {m}, link["A"]))
           /\ LET big == S \cap Oversize
              IN  /\ stamps' = [MarkRefused(out) EXCEPT
                                  ![m] = IF m \in big THEN {"logged", "refused"} ELSE {"logged"}]
                  /\ code' = [RefusedCode(out, "OUTBOX_FULL") EXCEPT
                                ![m] = IF m \in big THEN "PLAINTEXT_TOO_LARGE" ELSE "none"]
                  /\ held' = (held \ out) \cup ({m} \ big)
                  /\ \E t \in Ascending(S \ big) : upA' = upA \o t
  /\ UNCHANGED <<link, downA, upB, downB, queue, recvVars, storeVars,
                 age, drops, restarts, crashes, tornSend, tornFold>>

(* What a pass over the outbox offers of the messages whose time has come,  *)
(* relayed ones included.  The slip: what the relay has is not resent.      *)
UnrelayedDue(D) == {m \in D : age[m] = 0 /\ "relayed" \notin stamps[m]}
Due(D) == {m \in D : age[m] = 0}

(* flushHeld: expire what is past its time, then offer what is due.         *)
FlushHeld(D, up) ==
  LET expired == {m \in held : age[m] > 0}
      due == Due(D)
  IN  \E S \in Offered(due, up) :
        /\ NoteTrouble(Paced(S, due, up))
        /\ LET big == S \cap Oversize
           IN  /\ stamps' = MarkRefused(expired \cup big)
               /\ code' = [m \in Msgs |-> IF m \in big THEN RefusedCode(big, "PLAINTEXT_TOO_LARGE")[m]
                                          ELSE RefusedCode(expired, "EXPIRED")[m]]
               /\ held' = held \ (expired \cup big)
               /\ \E t \in Ascending(S \ big) : upA' = upA \o t

(* pump, from the outbox timer (any of the held messages may be due) or     *)
(* from retryNow (all of them are).                                         *)
Pump ==
  /\ held # {}
  /\ \E D \in SUBSET held : Room(2 * Cardinality(D)) /\ FlushHeld(D, link["A"])
  /\ UNCHANGED <<link, downA, upB, downB, queue, recvVars, storeVars,
                 age, drops, restarts, crashes, tornSend, tornFold>>

(* onTransportOutcome for a frame about a message still in the outbox; an  *)
(* outcome for any other message changes nothing.                           *)
Outcome(f) ==
  \/ /\ f.id \notin held
     /\ UNCHANGED <<senderVars, trouble>>
  \/ /\ f.id \in held /\ f.kind = "receipt"
     /\ stamps' = MarkRelayed(f.id)
     /\ UNCHANGED <<code, held, trouble>>
  \/ /\ f.id \in held /\ f.kind = "expired"
     /\ stamps' = MarkRefused({f.id})
     /\ code' = RefusedCode({f.id}, "EXPIRED")
     /\ held' = held \ {f.id}
     /\ UNCHANGED trouble
  \/ /\ f.id \in held /\ f.kind = "acked" /\ f.outcome = "applied"
     /\ stamps' = MarkDelivered(f.id)
     /\ held' = held \ {f.id}
     /\ UNCHANGED <<code, trouble>>
  \/ /\ f.id \in held /\ f.kind = "acked" /\ f.outcome = "refused" /\ f.code # "UNOPENABLE"
     /\ stamps' = MarkRefused({f.id})
     /\ code' = RefusedCode({f.id}, f.code)
     /\ held' = held \ {f.id}
     /\ UNCHANGED trouble
  \/ /\ f.id \in held /\ f.kind = "acked" /\ f.outcome = "refused" /\ f.code = "UNOPENABLE"
     /\ UNCHANGED <<senderVars, trouble>>
  \/ /\ f.id \in held /\ f.kind = "acked"       \* the signer is not in the directory
     /\ NoteTrouble(TRUE)
     /\ UNCHANGED senderVars

(* handleFrame of receipts, acks and refusals.                              *)
SenderFrame ==
  /\ downA # <<>>
  /\ Outcome(Head(downA))
  /\ downA' = Tail(downA)
  /\ UNCHANGED <<link, upA, upB, downB, queue, recvVars, storeVars,
                 age, drops, restarts, crashes, tornSend, tornFold>>

(* onAuthenticated: the link is back, and retryNow makes everything due.    *)
(* (The retryNow a peer-online frame causes is a Pump.)                     *)
ConnectA ==
  /\ ~link["A"]
  /\ link' = [link EXCEPT !["A"] = TRUE]
  /\ FlushHeld(held, TRUE)
  /\ UNCHANGED <<downA, upB, downB, queue, recvVars, storeVars,
                 age, drops, restarts, crashes, tornSend, tornFold>>
-----------------------------------------------------------------------------
(* The relay (relay/src/server.ts).  A frame for a peer whose socket is     *)
(* gone goes nowhere.  A receipt the sender is bound to ignore (it has one  *)
(* already, or has settled the message) is not put in flight.               *)

ToA(frames) == IF link["A"] THEN downA \o frames ELSE downA
Matters(m) == m \in held /\ "relayed" \notin stamps[m]
ToB(frames) == IF link["B"] THEN downB \o frames ELSE downB

Receipt(m) == [kind |-> "receipt", id |-> m]
Receipts(out) == {[i \in DOMAIN t |-> Receipt(t[i])] : t \in Kept(out, {m \in Msgs : Matters(m)})}

(* bus:send.  A retryable refusal (rate-limited, recipient-outdated, queue  *)
(* full) changes nothing but a diagnostic at the sender.  A resend of a     *)
(* queued message is handed to the recipient again when the last hand-over  *)
(* is a minute old or was on another socket.                                *)
RelaySend ==
  /\ upA # <<>>
  /\ LET m == Head(upA)
     IN  \/ /\ NoteTrouble(TRUE)              \* rate-limited, recipient-outdated
            /\ UNCHANGED <<queue, downA, downB>>
         \/ /\ ~InQueue(m) /\ Len(queue) >= RelayCap
            /\ UNCHANGED <<queue, downA, downB, trouble>>
         \/ /\ ~InQueue(m) /\ Len(queue) < RelayCap
            /\ queue' = Append(queue, m)
            /\ downB' \in {downB, ToB(<<m>>)}   \* the socket may drop the frame
            /\ \E r \in Receipts(<<m>>) : downA' = ToA(r)
            /\ UNCHANGED trouble
         \/ /\ InQueue(m)
            /\ downB' \in {downB, ToB(<<m>>)}
            /\ \E r \in Receipts(<<m>>) : downA' = ToA(r)
            /\ UNCHANGED <<queue, trouble>>
  /\ upA' = Tail(upA)
  /\ UNCHANGED <<senderVars, link, upB, recvVars, storeVars,
                 age, drops, restarts, crashes, tornSend, tornFold>>

(* bus:ack.  The entry goes whether or not its sender can be told.          *)
RelayAck ==
  /\ upB # <<>> /\ Head(upB) # Drain
  /\ LET a == Head(upB)
     IN  IF InQueue(a.id)
         THEN /\ queue' \in Kept(queue, Msgs \ {a.id})
              /\ downA' = ToA(<<[a EXCEPT !.kind = "acked"]>>)
         ELSE UNCHANGED <<queue, downA>>
  /\ upB' = Tail(upB)
  /\ UNCHANGED <<senderVars, link, upA, downB, recvVars, storeVars, envVars>>

(* The receiver's mail goes out on its socket in order, as far as the       *)
(* redelivery budget reaches, less what the socket drops; each hand-over is *)
(* receipted to the sender.                                                 *)
HandOver(out) ==
  /\ out # <<>> => Room(2 * Len(out))
  /\ downB' = downB \o out
  /\ \E r \in Receipts(out) : downA' = ToA(r)

(* bus:drain: ignored when the last one was a moment ago.                   *)
RelayDrain ==
  /\ upB # <<>> /\ Head(upB) = Drain
  /\ \E K \in SUBSET Msgs : \E out \in Kept(queue, K) : HandOver(out)
  /\ upB' = Tail(upB)
  /\ UNCHANGED <<senderVars, link, upA, queue, recvVars, storeVars, envVars>>

(* sweepBus, first half: expired entries go and their sender is told.       *)
(* Second half: entries handed over long ago, or on a socket since gone,    *)
(* are handed over again.                                                   *)
RelaySweep ==
  /\ queue # <<>>
  /\ \E live \in Kept(queue, {m \in Msgs : age[m] = 0}),
        dead \in Kept(queue, {m \in Msgs : age[m] > 0}),
        K \in SUBSET Msgs :
       \E again \in Kept(live, K) :
         /\ link["B"] \/ again = <<>>
         /\ dead # <<>> \/ again # <<>>
         /\ Room(Len(dead) + 2 * Len(again))
         /\ queue' = live
         /\ downB' = downB \o again
         /\ \E r \in Receipts(again) :
              downA' = ToA([i \in 1..Len(dead) |-> [kind |-> "expired", id |-> dead[i]]] \o r)
  /\ UNCHANGED <<senderVars, link, upA, upB, recvVars, storeVars, envVars>>
-----------------------------------------------------------------------------
(* The receiving transport (relay-transport.ts) and host.                   *)

(* handleHello admits the receiver and hands it the mail that queued        *)
(* meanwhile; the receiver asks for a drain of its own.                     *)
ConnectB ==
  /\ ~link["B"]
  /\ \E K \in SUBSET Msgs : \E out \in Kept(queue, K) : HandOver(out)
  /\ link' = [link EXCEPT !["B"] = TRUE]
  /\ upB' = <<Drain>>
  /\ UNCHANGED <<senderVars, upA, queue, recvVars, storeVars, envVars>>

(* enqueueDeliver: past the bound the frame is left to a later drain.       *)
EnqueueDeliver ==
  /\ downB # <<>>
  /\ IF Len(chain) >= MaxInbound
     THEN drainTimer' = TRUE /\ UNCHANGED chain
     ELSE chain' = Append(chain, Head(downB)) /\ UNCHANGED drainTimer
  /\ downB' = Tail(downB)
  /\ UNCHANGED <<senderVars, link, upA, downA, upB, queue, stage, acks, drainWanted, storeVars, envVars>>

(* The end of processDeliver: the last one out asks for a drain if any      *)
(* delivery since the last drain was deferred.                              *)
FinishInStage(deferred) ==        \* the slip: stage is not reset
  LET last == Len(chain) = 1
  IN  /\ chain' = Tail(chain)
      /\ UNCHANGED stage
      /\ drainWanted' = ((drainWanted \/ deferred) /\ ~last)
      /\ drainTimer' = (drainTimer \/ ((drainWanted \/ deferred) /\ last))
Finish(deferred) ==
  LET wanted == drainWanted \/ deferred
      last == Len(chain) = 1
  IN  /\ chain' = Tail(chain)
      /\ stage' = "idle"
      /\ drainWanted' = (wanted /\ ~last)
      /\ drainTimer' = (drainTimer \/ (wanted /\ last))

Defer == Finish(TRUE) /\ UNCHANGED acks

(* ack: past the bound the oldest waiting ack is dropped.                   *)
AckWith(m, outcome, c) ==
  /\ acks' = Append(IF Len(acks) >= MaxAcks THEN Tail(acks) ELSE acks,
                    [kind |-> "ack", id |-> m, outcome |-> outcome, code |-> c])
  /\ Finish(FALSE)

(* processDeliver up to the host handler: the directory, the seal, the seen *)
(* store and the clock decide whether the message gets that far.            *)
ProcessDeliver ==
  /\ chain # <<>> /\ stage = "idle"
  /\ LET m == Head(chain)
     IN  \/ NoteTrouble(TRUE) /\ Defer        \* no seed, directory or key yet
         \/ NoteTrouble(TRUE) /\ AckWith(m, "refused", "UNKNOWN_SENDER")
         \/ NoteTrouble(TRUE) /\ AckWith(m, "refused", "UNOPENABLE")
         \/ /\ seen[m] # "none"
            /\ AckWith(m, seen[m], IF seen[m] = "refused" THEN "HOST" ELSE "none")
            /\ UNCHANGED trouble
         \/ /\ seen[m] = "none" /\ age[m] = 2
            /\ AckWith(m, "refused", "STALE")
            /\ UNCHANGED trouble
         \/ /\ seen[m] = "none" /\ age[m] < 2
            /\ stage' = "inbound"
            /\ UNCHANGED <<chain, acks, drainWanted, drainTimer, trouble>>
  /\ UNCHANGED <<senderVars, wireVars, queue, storeVars,
                 age, drops, restarts, crashes, tornSend, tornFold>>

(* The host's gate and handleInbound: fold the message into the session's   *)
(* stores, refuse it, or leave it for later.                                *)
HandleInbound ==
  /\ stage = "inbound"
  /\ \/ /\ stage' = "applied"
        /\ inbox' = Append(inbox, Head(chain))
        /\ UNCHANGED <<chain, acks, drainWanted, drainTimer, trouble>>
     \/ /\ NoteTrouble(TRUE)
        /\ stage' = "refused"
        /\ UNCHANGED <<chain, acks, drainWanted, drainTimer, inbox>>
     \/ /\ NoteTrouble(TRUE)
        /\ Defer
        /\ UNCHANGED inbox
  /\ UNCHANGED <<senderVars, wireVars, queue, seen,
                 age, drops, restarts, crashes, tornSend, tornFold>>

(* seen.record and the ack.  Every so often a record prunes the rows that   *)
(* are past their expiry and skew on the wall clock.                        *)
PrunableEarly == {m \in Msgs : age[m] + SeenClockLead >= 1}   \* the slip: no skew
Prunable == {m \in Msgs : age[m] + SeenClockLead >= 2}
(* The slips: no verdict is recorded; only an application is.               *)
RecordedNot == seen
RecordedApplied == IF stage = "applied" THEN [seen EXCEPT ![Head(chain)] = stage] ELSE seen
Recorded == [seen EXCEPT ![Head(chain)] = stage]
RecordVerdict ==
  /\ stage \in {"applied", "refused"}
  /\ \/ seen' = Recorded
     \/ seen' = [x \in Msgs |-> IF x \in Prunable THEN "none" ELSE Recorded[x]]
  /\ \/ /\ AckWith(Head(chain), stage, IF stage = "refused" THEN "HOST" ELSE "none")
        /\ UNCHANGED trouble
     \/ NoteTrouble(TRUE) /\ Defer           \* nothing to sign the ack with
  /\ UNCHANGED <<senderVars, wireVars, queue, inbox, age, drops, restarts, crashes, tornSend, tornFold>>

(* flushAcks: as many as the token bucket allows.                           *)
FlushAcks ==
  /\ link["B"]
  /\ \E n \in 1..Len(acks) :
       /\ Room(n)
       /\ upB' = upB \o SubSeq(acks, 1, n)
       /\ acks' = SubSeq(acks, n + 1, Len(acks))
  /\ UNCHANGED <<senderVars, link, upA, downA, downB, queue, chain, stage, drainWanted, drainTimer,
                 storeVars, envVars>>

(* requestDrain's timer: written to the link if there is one.               *)
SendDrain ==
  /\ drainTimer
  /\ drainTimer' = FALSE
  /\ \/ link["B"] /\ Room(1) /\ upB' = Append(upB, Drain)
     \/ ~link["B"] /\ UNCHANGED upB
  /\ UNCHANGED <<senderVars, link, upA, downA, downB, queue, chain, stage, acks, drainWanted,
                 storeVars, envVars>>
-----------------------------------------------------------------------------
(* Failures and time.                                                       *)

DropA ==
  /\ link["A"] /\ drops < MaxDrops
  /\ CutA
  /\ drops' = drops + 1
  /\ UNCHANGED <<senderVars, queue, recvVars, storeVars,
                 age, restarts, crashes, trouble, tornSend, tornFold>>

DropB ==
  /\ link["B"] /\ drops < MaxDrops
  /\ CutB
  /\ drops' = drops + 1
  /\ UNCHANGED <<senderVars, queue, recvVars, storeVars,
                 age, restarts, crashes, trouble, tornSend, tornFold>>

(* The relay's queue is in memory only.                                     *)
RelayRestart ==
  /\ restarts < MaxRestarts
  /\ restarts' = restarts + 1
  /\ queue' = <<>>
  /\ link' = [p \in Peers |-> FALSE]
  /\ upA' = <<>> /\ downA' = <<>> /\ upB' = <<>> /\ downB' = <<>>
  /\ UNCHANGED <<senderVars, recvVars, storeVars,
                 age, drops, crashes, trouble, tornSend, tornFold>>

NoteCrash == crashes < MaxCrashes /\ crashes' = crashes + 1

(* The sending process dies inside message: the log row is on disk (and,    *)
(* if it got that far, the stamps of what the cap evicted), the outbox row  *)
(* is not.  A process that dies anywhere else loses only its socket.        *)
CrashInMessage(m) ==
  /\ Fresh(m)
  /\ NoteCrash
  /\ CutA
  /\ \E out \in {{}, Evicted} :
       /\ stamps' = [MarkRefused(out) EXCEPT ![m] = {"logged"}]
       /\ code' = RefusedCode(out, "OUTBOX_FULL")
  /\ tornSend' = tornSend \cup {m}
  /\ UNCHANGED <<held, queue, recvVars, storeVars, age, drops, restarts, trouble, tornFold>>

(* It dies inside the commit that settles a message: commit writes the log  *)
(* before the outbox, so the stamp is on disk and the outbox row too.       *)
CrashInSettle ==
  /\ downA # <<>> /\ Head(downA).kind \in {"acked", "expired"}
  /\ NoteCrash
  /\ CutA
  /\ LET f == Head(downA)
         refusal == IF f.kind = "expired" THEN "EXPIRED" ELSE f.code
     IN  /\ f.id \in held
         /\ \/ /\ f.kind = "acked" /\ f.outcome = "applied"
               /\ stamps' = MarkDelivered(f.id)
               /\ UNCHANGED code
            \/ /\ f.kind = "acked" => f.outcome = "refused" /\ f.code # "UNOPENABLE"
               /\ stamps' = MarkRefused({f.id})
               /\ code' = RefusedCode({f.id}, refusal)
  /\ UNCHANGED <<held, queue, recvVars, storeVars, age, drops, restarts, trouble, tornSend, tornFold>>

(* It dies inside the commit that ends flushHeld: the expiry stamps are on  *)
(* disk, the outbox still has the rows.                                     *)
CrashInFlush ==
  LET expired == {m \in held : age[m] > 0}
  IN  /\ Refusable(expired) # {}
      /\ NoteCrash
      /\ CutA
      /\ stamps' = MarkRefused(expired)
      /\ code' = RefusedCode(expired, "EXPIRED")
      /\ UNCHANGED <<held, queue, recvVars, storeVars, age, drops, restarts, trouble, tornSend, tornFold>>

(* The receiving process dies: everything not on disk is gone.  A message   *)
(* folded but not yet recorded in bus_seen is the window that matters.      *)
CrashB ==
  /\ NoteCrash
  /\ CutB
  /\ chain' = <<>> /\ stage' = "idle" /\ acks' = <<>>
  /\ drainWanted' = FALSE /\ drainTimer' = FALSE
  /\ tornFold' = IF stage = "applied" THEN tornFold \cup {Head(chain)} ELSE tornFold
  /\ UNCHANGED <<senderVars, queue, storeVars, age, drops, restarts, trouble, tornSend>>

(* Time passes; a message never gets older than one written before it.      *)
Age(m) ==
  /\ stamps[m] # {} /\ age[m] < MaxAge
  /\ \A x \in Msgs : x < m => age[x] > age[m]
  /\ age' = [age EXCEPT ![m] = @ + 1]
  /\ UNCHANGED <<senderVars, wireVars, queue, recvVars, storeVars,
                 drops, restarts, crashes, trouble, tornSend, tornFold>>
-----------------------------------------------------------------------------
Init ==
  /\ stamps = [m \in Msgs |-> {}]
  /\ code = [m \in Msgs |-> "none"]
  /\ held = {}
  /\ link = [p \in Peers |-> FALSE]
  /\ upA = <<>> /\ downA = <<>> /\ upB = <<>> /\ downB = <<>>
  /\ queue = <<>>
  /\ chain = <<>> /\ stage = "idle" /\ acks = <<>>
  /\ drainWanted = FALSE /\ drainTimer = FALSE
  /\ inbox = <<>>
  /\ seen = [m \in Msgs |-> "none"]
  /\ age = [m \in Msgs |-> 0]
  /\ drops = 0 /\ restarts = 0 /\ crashes = 0 /\ trouble = 0
  /\ tornSend = {} /\ tornFold = {}

SenderNext == (\E m \in Msgs : Message(m)) \/ Pump \/ SenderFrame \/ ConnectA
RelayNext == RelaySend \/ RelayAck \/ RelayDrain \/ RelaySweep
ReceiverNext ==
  \/ ConnectB \/ EnqueueDeliver \/ ProcessDeliver \/ HandleInbound \/ RecordVerdict
  \/ FlushAcks \/ SendDrain
Failure ==
  \/ DropA \/ DropB \/ RelayRestart
  \/ (\E m \in Msgs : CrashInMessage(m)) \/ CrashInSettle \/ CrashInFlush \/ CrashB
  \/ (\E m \in Msgs : Age(m))

Next == SenderNext \/ RelayNext \/ ReceiverNext \/ Failure

Spec == Init /\ [][Next]_vars
-----------------------------------------------------------------------------
SenderType ==
  /\ stamps \in [Msgs -> SUBSET Stamps]
  /\ code \in [Msgs -> Codes]
  /\ held \in SUBSET Msgs
WireType ==
  /\ link \in [Peers -> BOOLEAN]
  /\ upA \in Seq(Msgs) /\ downB \in Seq(Msgs)
  /\ downA \in Seq(Notices \cup Acked)
  /\ upB \in Seq(Acks \cup {Drain})
  /\ queue \in Seq(Msgs)
ReceiverType ==
  /\ chain \in Seq(Msgs) /\ stage \in Stages
  /\ stage # "idle" => chain # <<>>
  /\ acks \in Seq(Acks)
  /\ drainWanted \in BOOLEAN /\ drainTimer \in BOOLEAN
StoreType ==
  /\ inbox \in Seq(Msgs)
  /\ seen \in [Msgs -> {"none", "applied", "refused"}]
EnvType ==
  /\ age \in [Msgs -> 0..2]
  /\ drops \in Nat /\ restarts \in Nat /\ crashes \in Nat /\ trouble \in Nat
  /\ tornSend \in SUBSET Msgs /\ tornFold \in SUBSET Msgs

(* Every variable has its type, and a delivery is in progress only while    *)
(* the chain has one: processDeliver always runs to its end or is cut off   *)
(* with the whole chain.                                                    *)
TypeOK == SenderType /\ WireType /\ ReceiverType /\ StoreType /\ EnvType

(* The rung a caller is told (rungOf): a refusal outranks a delivery.       *)
Rung(m) ==
  CASE "refused" \in stamps[m] -> "refused"
    [] "refused" \notin stamps[m] /\ "delivered" \in stamps[m] -> "delivered"
    [] ~Settled(m) /\ stamps[m] # {} -> "pending"
    [] OTHER -> "unsent"

(* A message is stamped delivered only if the receiving session holds it:   *)
(* every ack the sender acts on was preceded by the fold it speaks of,      *)
(* across lost links, restarts and crashes of either process.               *)
DeliveredIsApplied ==
  \A m \in Msgs : "delivered" \in stamps[m] => Applied(m)

(* A message is folded into the receiving session at most once however      *)
(* often the outbox resends it or the relay hands it over, unless the       *)
(* receiving process died between the fold and the bus_seen row.            *)
AppliedOnce ==
  \A i, j \in DOMAIN inbox : i # j /\ inbox[i] = inbox[j] => inbox[i] \in tornFold

(* Nothing the sender logged drops out of sight: until it is stamped        *)
(* delivered or refused its outbox row survives (held-store.ts: "Nothing is *)
(* dropped silently"), unless the process died between the two writes.      *)
NothingSilentlyLost ==
  \A m \in Msgs : stamps[m] # {} /\ ~Settled(m) => m \in held \cup tornSend

(* When the receiving host itself refused a message, no copy of it was ever *)
(* folded there: the recorded verdict answers every later copy (a fold that *)
(* a crash tore from its bus_seen row excepted).                            *)
HostRefusalIsFinal ==
  \A m \in Msgs : code[m] = "HOST" /\ Applied(m) => m \in tornFold

(* A settled rung never changes: a late receipt, ack or refusal, a resend   *)
(* or a restart does not move a message the sender was told about.          *)
SettledIsFinal ==
  [][\A m \in Msgs : Rung(m) \in {"delivered", "refused"} => Rung(m)' = Rung(m)]_vars

(* Once the sender has been told a message was delivered, no further copy   *)
(* is folded, even when the receiving process has crashed since.            *)
NoFoldAfterDelivered ==
  [][\A m \in Msgs : Rung(m) = "delivered" =>
       \A i \in DOMAIN inbox' \ DOMAIN inbox : inbox'[i] # m]_vars

(* The protocol keeps the at-least-once contract: a delivery is reported    *)
(* only of a message the receiving session holds, a settled report never    *)
(* changes, and nothing is folded after a delivery was reported.            *)
Contract == INSTANCE AtLeastOnce WITH Msg <- Msgs, rung <- [m \in Msgs |-> Rung(m)], inbox <- inbox
ImplementsAtLeastOnce == Contract!Spec
-----------------------------------------------------------------------------
(* Fairness: the processes and timers keep running and a dropped link is    *)
(* dialled again; the relay's sweep hands over what it still holds.         *)
PumpDue(m) ==
  /\ m \in held /\ Room(2)
  /\ FlushHeld({m}, link["A"])
  /\ UNCHANGED <<link, downA, upB, downB, queue, recvVars, storeVars,
                 age, drops, restarts, crashes, tornSend, tornFold>>

Redeliver(m) == RelaySweep /\ Len(downB') > Len(downB) /\ downB'[Len(downB) + 1] = m

Fairness ==
  /\ WF_vars(ConnectA) /\ WF_vars(ConnectB)
  /\ WF_vars(SenderFrame)
  /\ WF_vars(RelaySend) /\ WF_vars(RelayAck) /\ WF_vars(RelayDrain)
  /\ WF_vars(EnqueueDeliver) /\ WF_vars(ProcessDeliver) /\ WF_vars(HandleInbound)
  /\ WF_vars(RecordVerdict) /\ SF_vars(FlushAcks) /\ SF_vars(SendDrain)
  /\ \A m \in Msgs : SF_vars(PumpDue(m)) /\ SF_vars(Redeliver(m))

FairSpec == Spec /\ Fairness

(* Every message the sender logs is settled, without waiting for its six    *)
(* hours to run out, once the links, the relay and the receiving host stop  *)
(* failing: no state of the two outboxes, queues and timers is stuck.       *)
EventuallySettled ==
  \A m \in Msgs : (stamps[m] # {}) ~> (Settled(m) \/ m \in tornSend)
====
