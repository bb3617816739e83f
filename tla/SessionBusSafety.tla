-------------------------- MODULE SessionBusSafety --------------------------
(***************************************************************************)
(* What the sender of a message may rely on, proved for any number of      *)
(* messages, any limits and any number of failures: nothing it logged      *)
(* drops out of sight, what it was told never changes, and "delivered" is  *)
(* said only of messages the receiving session holds.  With receiver       *)
(* clocks that agree, a message is folded once, a refusal is final, and    *)
(* the bus implements the contract of AtLeastOnce.                         *)
(***************************************************************************)
EXTENDS SessionBusProofs

(* The first frame the sender has not handled is the ack of m's application. *)
AckedFirst(m) ==
  /\ downA # <<>>
  /\ Head(downA).kind = "acked" /\ Head(downA).outcome = "applied" /\ Head(downA).id = m

(* What a step may do to one message at the sender.                         *)
SenderMove(m) ==
  /\ stamps[m] \subseteq stamps'[m]
  /\ "delivered" \in stamps[m] /\ "refused" \notin stamps[m] => "refused" \notin stamps'[m]
  /\ m \in held => m \in held' \/ Settled(m)'
  /\ stamps[m] = {} /\ stamps'[m] # {} => Settled(m)' \/ m \in held' \/ m \in tornSend'
  /\ m \in tornSend => m \in tornSend'
  /\ "delivered" \in stamps'[m] => "delivered" \in stamps[m] \/ AckedFirst(m)

(* A refusal adds its stamp to what is not settled and touches nothing else. *)
LEMMA RefusalStamps ==
  ASSUME SenderType, NEW K, NEW m \in Msgs
  PROVE  /\ stamps[m] \subseteq MarkRefused(K)[m]
         /\ "delivered" \in stamps[m] => MarkRefused(K)[m] = stamps[m]
         /\ m \in K => MarkRefused(K)[m] \cap {"delivered", "refused"} # {}
         /\ m \notin K => MarkRefused(K)[m] = stamps[m]
         /\ "delivered" \in MarkRefused(K)[m] => "delivered" \in stamps[m]
<1>1. MarkRefused(K)[m] = IF m \in K /\ ~Settled(m) THEN stamps[m] \cup {"refused"} ELSE stamps[m]
  BY DEF MarkRefused, Refusable
<1> QED BY <1>1 DEF Settled

(* A pass over the outbox moves a message only by expiring or refusing it.  *)
LEMMA FlushMoves ==
  ASSUME SenderType, NEW D \in SUBSET held, NEW up, FlushHeld(D, up), UNCHANGED tornSend, NEW m \in Msgs
  PROVE  SenderMove(m)
<1> DEFINE expired == {x \in held : age[x] > 0}
<1>1. PICK S \in Offered(Due(D), up) :
        LET big == S \cap Oversize
        IN  /\ stamps' = MarkRefused(expired \cup big)
            /\ held' = held \ (expired \cup big)
  BY DEF FlushHeld
<1> DEFINE K == expired \cup (S \cap Oversize)
<1>2. stamps' = MarkRefused(K) /\ held' = held \ K BY <1>1
<1>3. K \subseteq held BY DEF Offered, Due
<1> HIDE DEF K
<1>4. stamps[m] = {} /\ m \notin K => stamps'[m] = {} BY <1>2, RefusalStamps
<1>5. m \in K => Settled(m)' BY <1>2, RefusalStamps DEF Settled
<1> QED BY <1>2, <1>4, <1>5, RefusalStamps DEF SenderMove

LEMMA SenderNextMoves ==
  ASSUME TypeOK, SenderNext, NEW m \in Msgs
  PROVE  SenderMove(m)
<1>0. SenderType /\ WireType BY DEF TypeOK
<1>1. ASSUME NEW x \in Msgs, Message(x) PROVE SenderMove(m)
  <2>1. PICK S \in Offered({x}, link["A"]) :
          LET big == S \cap Oversize
          IN  /\ stamps' = [MarkRefused(Evicted) EXCEPT
                              ![x] = IF x \in big THEN {"logged", "refused"} ELSE {"logged"}]
              /\ held' = (held \ Evicted) \cup ({x} \ big)
    BY <1>1 DEF Message
  <2>2. stamps[x] = {} /\ tornSend' = tornSend BY <1>1 DEF Message, Fresh
  <2>3. MarkRefused(Evicted) \in [Msgs -> SUBSET Stamps] BY <1>0, StampsTyped
  <2>4. CASE m = x
    <3>1. stamps'[m] = IF x \in S \cap Oversize THEN {"logged", "refused"} ELSE {"logged"}
      BY <2>1, <2>3, <2>4
    <3>2. x \notin S \cap Oversize => m \in held' BY <2>1, <2>4
    <3> QED BY <2>2, <2>4, <3>1, <3>2 DEF SenderMove, Settled
  <2>5. CASE m # x
    <3>1. stamps'[m] = MarkRefused(Evicted)[m] BY <2>1, <2>3, <2>5
    <3>2. m \in held /\ m \notin Evicted => m \in held' BY <2>1
    <3>3. m \in Evicted => Settled(m)' BY <1>0, <3>1, RefusalStamps DEF Settled
    <3>4. stamps[m] = {} /\ m \notin Evicted => stamps'[m] = {} BY <1>0, <3>1, RefusalStamps
    <3> QED BY <1>0, <2>2, <3>1, <3>2, <3>3, <3>4, RefusalStamps DEF SenderMove
  <2> QED BY <2>4, <2>5
<1>2. CASE Pump BY <1>0, <1>2, FlushMoves DEF Pump
<1>3. CASE SenderFrame
  <2> DEFINE f == Head(downA)
  <2>1. downA # <<>> /\ Outcome(f) /\ tornSend' = tornSend BY <1>3 DEF SenderFrame
  <2>2. f.id \in Msgs BY <1>0, <2>1, SeqHeadTail DEF WireType, Notices, Acked
  <2>3. CASE senderVars' = senderVars BY <2>1, <2>3 DEF SenderMove, senderVars, Settled
  <2>4. CASE f.id \in held /\ stamps' = MarkRelayed(f.id) /\ held' = held
    <3>1. stamps'[m] \in {stamps[m], stamps[m] \cup {"relayed"}}
          /\ (stamps[m] = {} => stamps'[m] = {} \/ m = f.id)
      BY <1>0, <2>2, <2>4 DEF MarkRelayed, SenderType
    <3> QED BY <2>1, <2>4, <3>1 DEF SenderMove
  <2>5. CASE stamps' = MarkRefused({f.id}) /\ held' = held \ {f.id}
    <3>1. m = f.id => Settled(m)' BY <1>0, <2>5, RefusalStamps DEF Settled
    <3>2. m # f.id => stamps'[m] = stamps[m] BY <1>0, <2>5, RefusalStamps
    <3> QED BY <1>0, <2>1, <2>5, <3>1, <3>2, RefusalStamps DEF SenderMove
  <2>6. CASE /\ f.kind = "acked" /\ f.outcome = "applied"
             /\ stamps' = MarkDelivered(f.id) /\ held' = held \ {f.id}
    <3>1. stamps'[m] = IF m = f.id THEN stamps[m] \cup {"delivered"} ELSE stamps[m]
      BY <1>0, <2>2, <2>6 DEF MarkDelivered, SenderType
    <3> QED BY <2>1, <2>6, <3>1 DEF SenderMove, Settled, AckedFirst
  <2>7. \/ senderVars' = senderVars
        \/ f.id \in held /\ stamps' = MarkRelayed(f.id) /\ held' = held
        \/ stamps' = MarkRefused({f.id}) /\ held' = held \ {f.id}
        \/ /\ f.kind = "acked" /\ f.outcome = "applied"
           /\ stamps' = MarkDelivered(f.id) /\ held' = held \ {f.id}
    BY <2>1 DEF Outcome, senderVars
  <2> QED BY <2>3, <2>4, <2>5, <2>6, <2>7
<1>4. CASE ConnectA BY <1>0, <1>4, FlushMoves DEF ConnectA
<1> QED BY <1>1, <1>2, <1>3, <1>4 DEF SenderNext

LEMMA FailureMoves ==
  ASSUME TypeOK, Failure, NEW m \in Msgs
  PROVE  SenderMove(m)
<1>0. SenderType /\ WireType BY DEF TypeOK
<1>1. CASE DropA \/ DropB \/ RelayRestart \/ CrashB \/ \E x \in Msgs : Age(x)
  <2>1. UNCHANGED <<senderVars, tornSend>>
    BY <1>1 DEF DropA, DropB, RelayRestart, CrashB, Age
  <2> QED BY <2>1 DEF SenderMove, senderVars, Settled
<1>2. ASSUME NEW x \in Msgs, CrashInMessage(x) PROVE SenderMove(m)
  <2>1. PICK out \in {{}, Evicted} : stamps' = [MarkRefused(out) EXCEPT ![x] = {"logged"}]
    BY <1>2 DEF CrashInMessage
  <2>2. stamps[x] = {} /\ tornSend' = tornSend \cup {x} /\ held' = held
    BY <1>2 DEF CrashInMessage, Fresh
  <2>3. MarkRefused(out) \in [Msgs -> SUBSET Stamps] BY <1>0, StampsTyped
  <2>4. CASE m = x
    <3>1. stamps'[m] = {"logged"} BY <2>1, <2>3, <2>4
    <3> QED BY <2>2, <2>4, <3>1 DEF SenderMove
  <2>5. CASE m # x
    <3>1. stamps'[m] = MarkRefused(out)[m] BY <2>1, <2>3, <2>5
    <3>2. m \in out => Settled(m)' BY <1>0, <3>1, RefusalStamps DEF Settled
    <3>3. stamps[m] = {} /\ m \notin out => stamps'[m] = {} BY <1>0, <3>1, RefusalStamps
    <3> QED BY <1>0, <2>2, <3>1, <3>2, <3>3, RefusalStamps DEF SenderMove
  <2> QED BY <2>4, <2>5
<1>3. CASE CrashInSettle
  <2> DEFINE f == Head(downA)
  <2>1. downA # <<>> /\ held' = held /\ tornSend' = tornSend BY <1>3 DEF CrashInSettle
  <2>2. f.id \in Msgs BY <1>0, <2>1, SeqHeadTail DEF WireType, Notices, Acked
  <2>3. CASE f.kind = "acked" /\ f.outcome = "applied" /\ stamps' = MarkDelivered(f.id)
    <3>1. stamps'[m] = IF m = f.id THEN stamps[m] \cup {"delivered"} ELSE stamps[m]
      BY <1>0, <2>2, <2>3 DEF MarkDelivered, SenderType
    <3> QED BY <2>1, <2>3, <3>1 DEF SenderMove, Settled, AckedFirst
  <2>4. CASE stamps' = MarkRefused({f.id})
    <3>1. m = f.id => Settled(m)' BY <1>0, <2>4, RefusalStamps DEF Settled
    <3>2. m # f.id => stamps'[m] = stamps[m] BY <1>0, <2>4, RefusalStamps
    <3> QED BY <1>0, <2>1, <2>4, <3>1, <3>2, RefusalStamps DEF SenderMove
  <2> QED BY <1>3, <2>3, <2>4 DEF CrashInSettle
<1>4. CASE CrashInFlush
  <2> DEFINE K == {x \in held : age[x] > 0}
  <2>1. stamps' = MarkRefused(K) /\ held' = held /\ tornSend' = tornSend BY <1>4 DEF CrashInFlush
  <2> HIDE DEF K
  <2>2. m \in K => Settled(m)' BY <1>0, <2>1, RefusalStamps DEF Settled
  <2>3. stamps[m] = {} /\ m \notin K => stamps'[m] = {} BY <1>0, <2>1, RefusalStamps
  <2> QED BY <1>0, <2>1, <2>2, <2>3, RefusalStamps DEF SenderMove
<1> QED BY <1>1, <1>2, <1>3, <1>4 DEF Failure

(* The relay and the receiver never write the sender's stores.              *)
LEMMA EveryStepMoves ==
  ASSUME TypeOK, [Next]_vars, NEW m \in Msgs
  PROVE  SenderMove(m)
<1>1. CASE RelayNext \/ ReceiverNext \/ UNCHANGED vars
  <2>1. UNCHANGED <<senderVars, tornSend>>
    BY <1>1 DEF RelayNext, RelaySend, RelayAck, RelayDrain, RelaySweep,
       ReceiverNext, ConnectB, EnqueueDeliver, ProcessDeliver, HandleInbound, RecordVerdict,
       FlushAcks, SendDrain, vars, envVars
  <2> QED BY <2>1 DEF SenderMove, senderVars, Settled
<1> QED BY <1>1, SenderNextMoves, FailureMoves DEF Next
-----------------------------------------------------------------------------
(* Until a logged message is settled its outbox row survives, through       *)
(* evictions, expiry and every restart (coordinator.ts commit, settleHeld), *)
(* unless the process died between the two writes of message().             *)
THEOREM NothingIsSilentlyLost == Spec => []NothingSilentlyLost
<1>1. Init => NothingSilentlyLost BY DEF Init, NothingSilentlyLost
<1>2. TypeOK /\ NothingSilentlyLost /\ [Next]_vars => NothingSilentlyLost'
  <2> SUFFICES ASSUME TypeOK, NothingSilentlyLost, [Next]_vars,
                      NEW m \in Msgs, stamps'[m] # {}, ~Settled(m)'
               PROVE  m \in held' \/ m \in tornSend'
    BY DEF NothingSilentlyLost, Settled
  <2>1. SenderMove(m) BY EveryStepMoves
  <2>2. CASE stamps[m] = {} BY <2>1, <2>2 DEF SenderMove
  <2>3. CASE stamps[m] # {}
    <3>1. ~Settled(m) BY <2>1 DEF SenderMove, Settled
    <3>2. m \in held \/ m \in tornSend BY <2>3, <3>1 DEF NothingSilentlyLost
    <3> QED BY <2>1, <3>2 DEF SenderMove
  <2> QED BY <2>2, <2>3
<1> QED BY <1>1, <1>2, TypeCorrect, PTL DEF Spec

(* The rung a sender was told of a settled message never changes: markRefused *)
(* passes over settled entries, and a late ack cannot outrank a refusal.    *)
THEOREM SettledForGood == Spec => SettledIsFinal
<1> DEFINE Kept1 == \A m \in Msgs : Rung(m) \in {"delivered", "refused"} => Rung(m)' = Rung(m)
<1>1. TypeOK /\ [Next]_vars => [Kept1]_vars
  <2> SUFFICES ASSUME TypeOK, [Next]_vars, NEW m \in Msgs, Rung(m) \in {"delivered", "refused"}
               PROVE  Rung(m)' = Rung(m)
    OBVIOUS
  <2>1. SenderMove(m) BY EveryStepMoves
  <2>2. CASE "refused" \in stamps[m]
    <3>1. "refused" \in stamps'[m] BY <2>1, <2>2 DEF SenderMove
    <3> QED BY <2>2, <3>1 DEF Rung, Settled
  <2>3. CASE "refused" \notin stamps[m]
    <3>1. "delivered" \in stamps[m] BY <2>3 DEF Rung, Settled
    <3>2. "delivered" \in stamps'[m] /\ "refused" \notin stamps'[m] BY <2>1, <2>3, <3>1 DEF SenderMove
    <3> QED BY <2>3, <3>1, <3>2 DEF Rung, Settled
  <2> QED BY <2>2, <2>3
<1> QED BY <1>1, TypeCorrect, PTL DEF Spec, SettledIsFinal
-----------------------------------------------------------------------------
(* Why "delivered" can be believed: an application is spoken of by an ack   *)
(* waiting, an ack in flight, a verdict on disk or a delivery in progress   *)
(* only after the fold itself.                                              *)
Truthful(S) == {a \in S : a.outcome = "applied" => Applied(a.id)}
Provenance ==
  /\ acks \in Seq(Truthful(Acks))
  /\ upB \in Seq(Truthful(Acks) \cup {Drain})
  /\ downA \in Seq(Notices \cup Truthful(Acked))
  /\ \A m \in Msgs : seen[m] = "applied" => Applied(m)
  /\ stage = "applied" => Applied(Head(chain))
  /\ DeliveredIsApplied

(* The inbound log only grows.                                              *)
LEMMA InboxGrows ==
  ASSUME TypeOK, [Next]_vars
  PROVE  inbox' = inbox \/ (stage = "inbound" /\ inbox' = Append(inbox, Head(chain)))
<1>1. CASE SenderNext \/ RelayNext \/ Failure \/ UNCHANGED vars
  BY <1>1 DEF SenderNext, Message, Pump, SenderFrame, ConnectA,
     RelayNext, RelaySend, RelayAck, RelayDrain, RelaySweep,
     Failure, DropA, DropB, RelayRestart, CrashInMessage, CrashInSettle, CrashInFlush, CrashB, Age,
     vars, storeVars
<1>2. CASE ReceiverNext
  BY <1>2 DEF ReceiverNext, ConnectB, EnqueueDeliver, ProcessDeliver, HandleInbound, RecordVerdict,
     FlushAcks, SendDrain, storeVars
<1> QED BY <1>1, <1>2 DEF Next

LEMMA AppliedStays ==
  ASSUME TypeOK, [Next]_vars
  PROVE  \A m : Applied(m) => Applied(m)'
<1> SUFFICES ASSUME NEW m, Applied(m) PROVE Applied(m)' OBVIOUS
<1>0. inbox \in Seq(Msgs) BY DEF TypeOK, StoreType
<1>1. CASE inbox' = inbox BY <1>1 DEF Applied
<1>2. CASE stage = "inbound" /\ inbox' = Append(inbox, Head(chain))
  <2>1. Head(chain) \in Msgs BY <1>2, SeqHeadTail DEF TypeOK, ReceiverType
  <2>2. PICK i \in 1..Len(inbox) : inbox[i] = m BY <1>0 DEF Applied
  <2>3. inbox'[i] = m /\ i \in DOMAIN inbox' BY <1>0, <1>2, <2>1, <2>2, AppendProperties
  <2> QED BY <2>3 DEF Applied
<1> QED BY <1>1, <1>2, InboxGrows

LEMMA TruthStays ==
  ASSUME TypeOK, [Next]_vars
  PROVE  /\ Truthful(Acks) \subseteq Truthful(Acks)'
         /\ Truthful(Acked) \subseteq Truthful(Acked)'
  BY AppliedStays DEF Truthful, Acks, Acked

(* The last conjunct, from what a step may do at the sender.                *)
LEMMA DeliveredStep ==
  ASSUME TypeOK, Provenance, [Next]_vars
  PROVE  DeliveredIsApplied'
<1> SUFFICES ASSUME NEW m \in Msgs, "delivered" \in stamps'[m] PROVE Applied(m)'
  BY DEF DeliveredIsApplied, Applied
<1>1. SenderMove(m) BY EveryStepMoves
<1>2. CASE "delivered" \in stamps[m]
  BY <1>2, AppliedStays DEF Provenance, DeliveredIsApplied
<1>3. CASE AckedFirst(m)
  <2>1. Head(downA) \in Notices \cup Truthful(Acked) BY <1>3, SeqHeadTail DEF Provenance, AckedFirst
  <2>2. Applied(m) BY <1>3, <2>1 DEF AckedFirst, Notices, Truthful
  <2> QED BY <2>2, AppliedStays
<1> QED BY <1>1, <1>2, <1>3 DEF SenderMove

(* How frames travel, for any set T of them.  What processDeliver and       *)
(* seen.record may answer of the delivery in progress: a refusal of the     *)
(* transport's own, the recorded verdict, or the one just reached.          *)
Verdicts ==
  {a \in Acks :
     /\ a.id = Head(chain)
     /\ \/ a.outcome = "refused" /\ a.code # "HOST"
        \/ stage = "idle" /\ seen[a.id] = a.outcome
        \/ stage = a.outcome}

LEMMA AckJoins ==
  ASSUME TypeOK, NEW T, acks \in Seq(T), NEW m, NEW o, NEW c, AckWith(m, o, c),
         [kind |-> "ack", id |-> m, outcome |-> o, code |-> c] \in T
  PROVE  acks' \in Seq(T)
<1> DEFINE a == [kind |-> "ack", id |-> m, outcome |-> o, code |-> c]
<1>1. acks' = Append(IF Len(acks) >= MaxAcks THEN Tail(acks) ELSE acks, a) /\ a \in T BY DEF AckWith
<1> HIDE DEF a
<1>2. (IF Len(acks) >= MaxAcks THEN Tail(acks) ELSE acks) \in Seq(T)
  <2>1. Len(acks) >= MaxAcks => acks # <<>> BY BusAssumption
  <2> QED BY <2>1, SeqHeadTail
<1> QED BY <1>1, <1>2, SeqAppend

LEMMA AcksFlow ==
  ASSUME TypeOK, [Next]_vars, NEW T, acks \in Seq(T),
         ProcessDeliver \/ RecordVerdict => Verdicts \subseteq T
  PROVE  acks' \in Seq(T)
<1>0. ReceiverType /\ StoreType BY DEF TypeOK
<1> DEFINE A(m, o, c) == [kind |-> "ack", id |-> m, outcome |-> o, code |-> c]
<1>1. CASE ProcessDeliver
  <2> DEFINE m == Head(chain)
  <2>1. m \in Msgs /\ stage = "idle" BY <1>0, <1>1, SeqHeadTail DEF ProcessDeliver, ReceiverType
  <2>2. seen[m] \in {"none", "applied", "refused"} BY <1>0, <2>1 DEF StoreType
  <2>3. {"UNKNOWN_SENDER", "HOST", "none", "STALE"} \subseteq Codes BY DEF Codes
  <2>4. \/ acks' = acks
        \/ \E c \in {"UNKNOWN_SENDER", "STALE", "UNOPENABLE"} : AckWith(m, "refused", c)
        \/ /\ seen[m] # "none"
           /\ AckWith(m, seen[m], IF seen[m] = "refused" THEN "HOST" ELSE "none")
    BY <1>1 DEF ProcessDeliver, Defer
  <2>5. ASSUME NEW c \in {"UNKNOWN_SENDER", "STALE", "UNOPENABLE"}
        PROVE  A(m, "refused", c) \in T
    BY <1>1, <2>1, <2>3 DEF Verdicts, Acks
  <2>6. seen[m] # "none" => A(m, seen[m], IF seen[m] = "refused" THEN "HOST" ELSE "none") \in T
    BY <1>1, <2>1, <2>2, <2>3 DEF Verdicts, Acks
  <2> HIDE DEF m
  <2> QED BY <2>4, <2>5, <2>6, AckJoins
<1>2. CASE RecordVerdict
  <2> DEFINE m == Head(chain)
             c == IF stage = "refused" THEN "HOST" ELSE "none"
  <2>1. m \in Msgs /\ stage \in {"applied", "refused"}
    BY <1>0, <1>2, SeqHeadTail DEF RecordVerdict, ReceiverType
  <2>2. c \in Codes BY DEF Codes
  <2>3. A(m, stage, c) \in T BY <1>2, <2>1, <2>2 DEF Verdicts, Acks
  <2>4. acks' = acks \/ AckWith(m, stage, c) BY <1>2 DEF RecordVerdict, Defer
  <2> HIDE DEF m, c
  <2> QED BY <2>3, <2>4, AckJoins
<1>3. CASE FlushAcks
  <2>1. PICK n \in 1..Len(acks) : acks' = SubSeq(acks, n + 1, Len(acks)) BY <1>3 DEF FlushAcks
  <2> QED BY <2>1, SeqPart
<1>4. CASE CrashB BY <1>4, SeqEmpty DEF CrashB
<1>5. CASE \/ SenderNext \/ RelayNext \/ UNCHANGED vars
           \/ ConnectB \/ EnqueueDeliver \/ HandleInbound \/ SendDrain
  <2>1. acks' = acks
    BY <1>5 DEF SenderNext, Message, Pump, SenderFrame, ConnectA,
       RelayNext, RelaySend, RelayAck, RelayDrain, RelaySweep,
       ConnectB, EnqueueDeliver, HandleInbound, SendDrain, Defer, vars, recvVars
  <2> QED BY <2>1
<1>6. CASE \/ DropA \/ DropB \/ RelayRestart \/ CrashInSettle \/ CrashInFlush
           \/ (\E m \in Msgs : CrashInMessage(m)) \/ (\E m \in Msgs : Age(m))
  <2>1. acks' = acks
    BY <1>6 DEF DropA, DropB, RelayRestart, CrashInMessage, CrashInSettle, CrashInFlush, Age, recvVars
  <2> QED BY <2>1
<1> QED BY <1>1, <1>2, <1>3, <1>4, <1>5, <1>6 DEF Next, ReceiverNext, Failure

LEMMA UpBFlow ==
  ASSUME TypeOK, [Next]_vars, NEW T, Drain \in T, upB \in Seq(T), acks \in Seq(T)
  PROVE  upB' \in Seq(T)
<1>2. CASE RelayAck \/ RelayDrain BY <1>2, SeqHeadTail DEF RelayAck, RelayDrain
<1>3. CASE ConnectB
  <2>1. upB' = <<Drain>> BY <1>3 DEF ConnectB
  <2> QED BY <2>1
<1>4. CASE SendDrain
  <2>1. upB' = upB \/ upB' = Append(upB, Drain) BY <1>4 DEF SendDrain
  <2> QED BY <2>1, SeqAppend
<1>5. CASE FlushAcks
  <2>1. PICK n \in 1..Len(acks) : upB' = upB \o SubSeq(acks, 1, n) BY <1>5 DEF FlushAcks
  <2> QED BY <2>1, SeqPart, SeqConcat
<1>6. CASE DropB \/ CrashB \/ RelayRestart BY <1>6, SeqEmpty DEF DropB, CrashB, CutB, RelayRestart
<1>7. CASE \/ SenderNext \/ RelaySend \/ RelaySweep \/ UNCHANGED vars
           \/ EnqueueDeliver \/ ProcessDeliver \/ HandleInbound \/ RecordVerdict
  <2>1. upB' = upB
    BY <1>7 DEF SenderNext, Message, Pump, SenderFrame, ConnectA, RelaySend, RelaySweep,
       EnqueueDeliver, ProcessDeliver, HandleInbound, RecordVerdict, vars, wireVars
  <2> QED BY <2>1
<1>8. CASE \/ DropA \/ CrashInSettle \/ CrashInFlush
           \/ (\E m \in Msgs : CrashInMessage(m)) \/ (\E m \in Msgs : Age(m))
  <2>1. upB' = upB
    BY <1>8 DEF DropA, CrashInMessage, CrashInSettle, CrashInFlush, CutA, Age, wireVars
  <2> QED BY <2>1
<1> QED BY <1>2, <1>3, <1>4, <1>5, <1>6, <1>7, <1>8 DEF Next, RelayNext, ReceiverNext, Failure

(* Only the relay's handling of an ack puts an acked frame on the wire.     *)
LEMMA DownAFlow ==
  ASSUME TypeOK, [Next]_vars, NEW T, Notices \subseteq T, downA \in Seq(T),
         RelayAck => [Head(upB) EXCEPT !.kind = "acked"] \in T
  PROVE  downA' \in Seq(T)
<1>1. \A r \in Seq(Notices) : r \in Seq(T) BY SeqWider
<1>3. \A r \in Seq(T) : ToA(r) \in Seq(T) BY SeqConcat DEF ToA
<1>4. \A out : \A r \in Receipts(out) : ToA(r) \in Seq(T) BY <1>1, <1>3, ReceiptsAreNotices
<1>5. CASE RelayAck
  <2> DEFINE a == [Head(upB) EXCEPT !.kind = "acked"]
  <2>1. a \in T BY <1>5
  <2>2. downA' = downA \/ downA' = ToA(<<a>>) BY <1>5 DEF RelayAck
  <2> HIDE DEF a
  <2>3. <<a>> \in Seq(T) BY <2>1
  <2> QED BY <1>3, <2>2, <2>3
<1>6. CASE RelaySend
  <2>1. downA' = downA \/ \E r \in Receipts(<<Head(upA)>>) : downA' = ToA(r) BY <1>6 DEF RelaySend
  <2> QED BY <1>4, <2>1
<1>7. CASE RelayDrain \/ ConnectB
  <2>1. \E out : \E r \in Receipts(out) : downA' = ToA(r) BY <1>7 DEF RelayDrain, ConnectB, HandOver
  <2> QED BY <1>4, <2>1
<1>8. CASE RelaySweep
  <2>1. PICK dead \in Kept(queue, {m \in Msgs : age[m] > 0}) :
          \E again : \E r \in Receipts(again) :
            downA' = ToA([i \in 1..Len(dead) |-> [kind |-> "expired", id |-> dead[i]]] \o r)
    BY <1>8 DEF RelaySweep
  <2>2. PICK again : \E r \in Receipts(again) :
          downA' = ToA([i \in 1..Len(dead) |-> [kind |-> "expired", id |-> dead[i]]] \o r)
    BY <2>1
  <2>3. PICK r \in Receipts(again) :
          downA' = ToA([i \in 1..Len(dead) |-> [kind |-> "expired", id |-> dead[i]]] \o r)
    BY <2>2
  <2>4. dead \in Seq(Msgs) BY KeptAreSeqs, SeqWider
  <2>5. [i \in 1..Len(dead) |-> [kind |-> "expired", id |-> dead[i]]] \in Seq(Notices)
    BY <2>4 DEF Notices
  <2>6. r \in Seq(Notices) BY ReceiptsAreNotices
  <2> QED BY <1>1, <1>3, <2>3, <2>5, <2>6, SeqConcat
<1>9. CASE SenderFrame BY <1>9, SeqHeadTail DEF SenderFrame
<1>10. CASE \/ DropA \/ RelayRestart \/ CrashInSettle \/ CrashInFlush
            \/ \E m \in Msgs : CrashInMessage(m)
  BY <1>10, SeqEmpty DEF DropA, RelayRestart, CrashInSettle, CrashInFlush, CrashInMessage, CutA
<1>11. CASE \/ (\E m \in Msgs : Message(m)) \/ Pump \/ ConnectA \/ UNCHANGED vars
            \/ EnqueueDeliver \/ ProcessDeliver \/ HandleInbound \/ RecordVerdict
            \/ FlushAcks \/ SendDrain
            \/ DropB \/ CrashB \/ \E m \in Msgs : Age(m)
  <2>1. downA' = downA
    BY <1>11 DEF Message, Pump, ConnectA, EnqueueDeliver, ProcessDeliver, HandleInbound,
       RecordVerdict, FlushAcks, SendDrain, DropB, CrashB, CutB, Age, vars, wireVars
  <2> QED BY <2>1
<1> QED BY <1>5, <1>6, <1>7, <1>8, <1>9, <1>10, <1>11
        DEF Next, SenderNext, RelayNext, ReceiverNext, Failure

(* Acks are queued with the verdict on disk or the fold just made.          *)
LEMMA TruthFlows ==
  ASSUME TypeOK, Provenance, [Next]_vars
  PROVE  /\ acks' \in Seq(Truthful(Acks))
         /\ upB' \in Seq(Truthful(Acks) \cup {Drain})
         /\ downA' \in Seq(Notices \cup Truthful(Acked))
<1>0. ReceiverType BY DEF TypeOK
<1>1. acks' \in Seq(Truthful(Acks))
  <2>1. chain # <<>> => Verdicts \subseteq Truthful(Acks)
    <3>1. chain # <<>> => Head(chain) \in Msgs BY <1>0, SeqHeadTail DEF ReceiverType
    <3> QED BY <3>1 DEF Verdicts, Truthful, Provenance
  <2>2. ProcessDeliver \/ RecordVerdict => chain # <<>>
    BY <1>0 DEF ProcessDeliver, RecordVerdict, ReceiverType
  <2> QED BY <2>1, <2>2, AcksFlow DEF Provenance
<1>2. upB' \in Seq(Truthful(Acks) \cup {Drain})
  <2>1. acks \in Seq(Truthful(Acks) \cup {Drain}) BY SeqWider DEF Provenance
  <2> QED BY <2>1, UpBFlow DEF Provenance
<1>3. downA' \in Seq(Notices \cup Truthful(Acked))
  <2>1. RelayAck => [Head(upB) EXCEPT !.kind = "acked"] \in Truthful(Acked)
    <3> SUFFICES ASSUME RelayAck PROVE [Head(upB) EXCEPT !.kind = "acked"] \in Truthful(Acked) OBVIOUS
    <3>1. Head(upB) \in Truthful(Acks) BY SeqHeadTail DEF RelayAck, Provenance
    <3> QED BY <3>1 DEF Truthful, Acks, Acked
  <2> QED BY <2>1, DownAFlow DEF Provenance
<1> QED BY <1>1, <1>2, <1>3

(* A verdict on disk or in progress follows the fold.                       *)
LEMMA VerdictStep ==
  ASSUME TypeOK, Provenance, [Next]_vars
  PROVE  /\ \A m \in Msgs : seen'[m] = "applied" => Applied(m)'
         /\ stage' = "applied" => Applied(Head(chain))'
<1>0. ReceiverType /\ StoreType BY DEF TypeOK
<1>1. CASE HandleInbound
  <2>1. Head(chain) \in Msgs /\ seen' = seen BY <1>0, <1>1, SeqHeadTail DEF HandleInbound, ReceiverType
  <2>2. \A m \in Msgs : seen'[m] = "applied" => Applied(m)' BY <2>1, AppliedStays DEF Provenance
  <2>3. stage' = "applied" => chain' = chain /\ inbox' = Append(inbox, Head(chain))
    BY <1>1 DEF HandleInbound, Defer, Finish
  <2>4. stage' = "applied" => Applied(Head(chain))'
    <3> SUFFICES ASSUME stage' = "applied" PROVE Applied(Head(chain))' OBVIOUS
    <3>1. inbox \in Seq(Msgs) BY <1>0 DEF StoreType
    <3>2. Len(inbox) + 1 \in DOMAIN inbox' /\ inbox'[Len(inbox) + 1] = Head(chain)
      BY <2>1, <2>3, <3>1, AppendProperties
    <3> QED BY <2>3, <3>2 DEF Applied
  <2> QED BY <2>2, <2>4
<1>2. CASE RecordVerdict
  <2>1. Head(chain) \in Msgs /\ stage \in {"applied", "refused"}
    BY <1>0, <1>2, SeqHeadTail DEF RecordVerdict, ReceiverType
  <2>2. stage' = "idle" BY <1>2 DEF RecordVerdict, AckWith, Defer, Finish
  <2>3. \A m \in Msgs : seen'[m] = "applied" => seen[m] = "applied" \/ (m = Head(chain) /\ stage = "applied")
    <3>1. \A m \in Msgs : Recorded[m] = IF m = Head(chain) THEN stage ELSE seen[m]
      BY <1>0, <2>1 DEF Recorded, StoreType
    <3> QED BY <1>2, <3>1 DEF RecordVerdict
  <2> QED BY <2>1, <2>2, <2>3, AppliedStays DEF Provenance
<1>3. CASE ProcessDeliver
  <2>1. seen' = seen /\ stage' \in {"idle", "inbound"}
    BY <1>3 DEF ProcessDeliver, AckWith, Defer, Finish, storeVars
  <2> QED BY <2>1, AppliedStays DEF Provenance
<1>4. CASE EnqueueDeliver
  <2>1. seen' = seen /\ stage' = stage /\ (chain' = chain \/ chain' = Append(chain, Head(downB)))
    BY <1>4 DEF EnqueueDeliver, storeVars
  <2>2. Head(downB) \in Msgs BY <1>4, SeqHeadTail DEF EnqueueDeliver, TypeOK, WireType
  <2>3. stage' = "applied" => Head(chain') = Head(chain)
    BY <1>0, <2>1, <2>2, AppendProperties DEF ReceiverType
  <2> QED BY <2>1, <2>3, AppliedStays DEF Provenance, Applied
<1>5. CASE CrashB
  <2>1. seen' = seen /\ stage' = "idle" BY <1>5 DEF CrashB, storeVars
  <2> QED BY <2>1, AppliedStays DEF Provenance
<1>6. CASE SenderNext \/ RelayNext \/ ConnectB \/ FlushAcks \/ SendDrain \/ UNCHANGED vars
  <2>1. seen' = seen /\ stage' = stage /\ chain' = chain
    BY <1>6 DEF SenderNext, Message, Pump, SenderFrame, ConnectA,
       RelayNext, RelaySend, RelayAck, RelayDrain, RelaySweep,
       ConnectB, FlushAcks, SendDrain, vars, recvVars, storeVars
  <2> QED BY <2>1, AppliedStays DEF Provenance, Applied
<1>7. CASE \/ DropA \/ DropB \/ RelayRestart \/ CrashInSettle \/ CrashInFlush
           \/ (\E m \in Msgs : CrashInMessage(m)) \/ (\E m \in Msgs : Age(m))
  <2>1. seen' = seen /\ stage' = stage /\ chain' = chain
    BY <1>7 DEF DropA, DropB, RelayRestart, CrashInMessage, CrashInSettle, CrashInFlush, Age,
       recvVars, storeVars
  <2> QED BY <2>1, AppliedStays DEF Provenance, Applied
<1> QED BY <1>1, <1>2, <1>3, <1>4, <1>5, <1>6, <1>7 DEF Next, ReceiverNext, Failure

LEMMA ProvenanceStep == TypeOK /\ Provenance /\ [Next]_vars => Provenance'
<1> SUFFICES ASSUME TypeOK, Provenance, [Next]_vars PROVE Provenance' OBVIOUS
<1>1. acks' \in Seq(Truthful(Acks)') BY TruthFlows, TruthStays, SeqWider
<1>2. upB' \in Seq(Truthful(Acks)' \cup {Drain}) BY TruthFlows, TruthStays, SeqWider
<1>3. downA' \in Seq(Notices \cup Truthful(Acked)') BY TruthFlows, TruthStays, SeqWider
<1> QED BY <1>1, <1>2, <1>3, VerdictStep, DeliveredStep DEF Provenance, Drain, Notices

(* Every message stamped delivered is one the receiving session holds:      *)
(* every ack the sender acts on was preceded by the fold it speaks of,      *)
(* whatever links, relay and processes did in between.                      *)
THEOREM DeliveredMeansApplied == Spec => []DeliveredIsApplied
<1>1. Init => Provenance
  BY SeqEmpty DEF Init, Provenance, DeliveredIsApplied
<1>2. Provenance => DeliveredIsApplied BY DEF Provenance
<1> QED BY <1>1, <1>2, ProvenanceStep, TypeCorrect, PTL DEF Spec
-----------------------------------------------------------------------------
(* At most one fold, final refusals and no fold after a delivery rest on    *)
(* what the receiver remembers.  A message is decided v when every further  *)
(* copy will be answered v, or refused as stale, without being folded: the  *)
(* bus_seen row says so, or the message is too old to be let in, and no     *)
(* other copy of it is past that check already.                             *)
Decided(m, v) ==
  /\ seen[m] = v \/ age[m] = 2
  /\ stage \in {"idle", v} \/ Head(chain) # m

Unfolded(m) == Applied(m) => m \in tornFold

(* What an ack speaks of is decided.                                        *)
SoundVerdict(a) ==
  /\ a.outcome = "applied" => Decided(a.id, "applied")
  /\ a.outcome = "refused" /\ a.code = "HOST" => Decided(a.id, "refused") /\ Unfolded(a.id)
Sound(S) == {a \in S : SoundVerdict(a)}

(* A fold is remembered until its message is stale, or a crash tears it     *)
(* from its bus_seen row.                                                   *)
Remembered ==
  \A m \in Msgs : Applied(m) /\ m \notin tornFold =>
    seen[m] = "applied" \/ age[m] = 2 \/ (stage = "applied" /\ Head(chain) = m)

(* What is let past the check is new to the receiver.                       *)
NewInProgress ==
  /\ stage \in {"inbound", "refused"} => Unfolded(Head(chain))
  /\ stage = "inbound" => seen[Head(chain)] = "none"

Memory ==
  /\ AppliedOnce
  /\ Remembered
  /\ NewInProgress
  /\ \A m \in Msgs : seen[m] = "refused" => Unfolded(m)

(* The receiver's stores change only in these ways.                         *)
LEMMA ReceiverMoves ==
  ASSUME TypeOK, [Next]_vars
  PROVE  /\ tornFold \subseteq tornFold'
         /\ \A m \in Msgs : age[m] = 2 => age'[m] = 2
         /\ \/ ProcessDeliver \/ HandleInbound \/ RecordVerdict \/ CrashB
            \/ /\ UNCHANGED <<inbox, seen, stage, tornFold>>
               /\ stage # "idle" => Head(chain') = Head(chain)
<1>0. ReceiverType /\ EnvType BY DEF TypeOK
<1>1. tornFold \subseteq tornFold'
  <2>1. CASE SenderNext \/ RelayNext \/ ReceiverNext \/ UNCHANGED vars
    BY <2>1 DEF SenderNext, Message, Pump, SenderFrame, ConnectA,
       RelayNext, RelaySend, RelayAck, RelayDrain, RelaySweep,
       ReceiverNext, ConnectB, EnqueueDeliver, ProcessDeliver, HandleInbound, RecordVerdict,
       FlushAcks, SendDrain, vars, envVars
  <2>2. CASE Failure
    BY <2>2 DEF Failure, DropA, DropB, RelayRestart, CrashInMessage, CrashInSettle, CrashInFlush,
       CrashB, Age
  <2> QED BY <2>1, <2>2 DEF Next
<1>2. \A m \in Msgs : age[m] = 2 => age'[m] = 2
  <2>1. ASSUME NEW x \in Msgs, Age(x) PROVE \A m \in Msgs : age[m] = 2 => age'[m] = 2
    BY <1>0, <2>1, BusAssumption DEF Age, EnvType
  <2>2. CASE SenderNext \/ RelayNext \/ ReceiverNext \/ UNCHANGED vars
    <3>1. age' = age
      BY <2>2 DEF SenderNext, Message, Pump, SenderFrame, ConnectA,
         RelayNext, RelaySend, RelayAck, RelayDrain, RelaySweep,
         ReceiverNext, ConnectB, EnqueueDeliver, ProcessDeliver, HandleInbound, RecordVerdict,
         FlushAcks, SendDrain, vars, envVars
    <3> QED BY <3>1
  <2>3. CASE \/ DropA \/ DropB \/ RelayRestart \/ CrashInSettle \/ CrashInFlush \/ CrashB
             \/ \E m \in Msgs : CrashInMessage(m)
    <3>1. age' = age
      BY <2>3 DEF DropA, DropB, RelayRestart, CrashInMessage, CrashInSettle, CrashInFlush, CrashB
    <3> QED BY <3>1
  <2> QED BY <2>1, <2>2, <2>3 DEF Next, Failure
<1>3. \/ ProcessDeliver \/ HandleInbound \/ RecordVerdict \/ CrashB
      \/ /\ UNCHANGED <<inbox, seen, stage, tornFold>>
         /\ stage # "idle" => Head(chain') = Head(chain)
  <2>1. CASE EnqueueDeliver
    <3>1. UNCHANGED <<inbox, seen, stage, tornFold>>
          /\ (chain' = chain \/ chain' = Append(chain, Head(downB)))
      BY <2>1 DEF EnqueueDeliver, storeVars, envVars
    <3>2. Head(downB) \in Msgs BY <2>1, SeqHeadTail DEF EnqueueDeliver, TypeOK, WireType
    <3>3. stage # "idle" => Head(chain') = Head(chain)
      BY <1>0, <3>1, <3>2, AppendProperties DEF ReceiverType
    <3> QED BY <3>1, <3>3
  <2>2. CASE SenderNext \/ RelayNext \/ ConnectB \/ FlushAcks \/ SendDrain \/ UNCHANGED vars
    BY <2>2 DEF SenderNext, Message, Pump, SenderFrame, ConnectA,
       RelayNext, RelaySend, RelayAck, RelayDrain, RelaySweep,
       ConnectB, FlushAcks, SendDrain, vars, recvVars, storeVars, envVars
  <2>3. CASE \/ DropA \/ DropB \/ RelayRestart \/ CrashInSettle \/ CrashInFlush
             \/ (\E m \in Msgs : CrashInMessage(m)) \/ (\E m \in Msgs : Age(m))
    BY <2>3 DEF DropA, DropB, RelayRestart, CrashInMessage, CrashInSettle, CrashInFlush, Age,
       recvVars, storeVars
  <2> QED BY <2>1, <2>2, <2>3 DEF Next, ReceiverNext, Failure
<1> QED BY <1>1, <1>2, <1>3

(* The four steps of the receiver, by what they do to its memory.           *)
LEMMA ProcessMoves ==
  ASSUME TypeOK, ProcessDeliver
  PROVE  /\ UNCHANGED <<inbox, seen, age, tornFold>> /\ stage = "idle"
         /\ \/ stage' = "idle"
            \/ /\ stage' = "inbound" /\ chain' = chain
               /\ Head(chain) \in Msgs /\ seen[Head(chain)] = "none" /\ age[Head(chain)] # 2
<1>1. Head(chain) \in Msgs BY SeqHeadTail DEF ProcessDeliver, TypeOK, ReceiverType
<1>2. age[Head(chain)] \in 0..2 BY <1>1 DEF TypeOK, EnvType
<1>3. Defer => stage' = "idle" BY DEF Defer, Finish
<1>4. \A m, o, c : AckWith(m, o, c) => stage' = "idle" BY DEF AckWith, Finish
<1>5. \/ stage' = "idle"
      \/ stage' = "inbound" /\ chain' = chain /\ seen[Head(chain)] = "none" /\ age[Head(chain)] < 2
  BY <1>3, <1>4 DEF ProcessDeliver
<1>6. UNCHANGED <<inbox, seen, age, tornFold>> /\ stage = "idle" BY DEF ProcessDeliver, storeVars
<1> QED BY <1>1, <1>2, <1>5, <1>6

LEMMA InboundMoves ==
  ASSUME TypeOK, HandleInbound
  PROVE  /\ UNCHANGED <<seen, age, tornFold>> /\ stage = "inbound" /\ Head(chain) \in Msgs
         /\ \/ stage' = "applied" /\ chain' = chain /\ inbox' = Append(inbox, Head(chain))
            \/ stage' = "refused" /\ chain' = chain /\ inbox' = inbox
            \/ stage' = "idle" /\ inbox' = inbox
<1>1. Head(chain) \in Msgs BY SeqHeadTail DEF HandleInbound, TypeOK, ReceiverType
<1> QED BY <1>1 DEF HandleInbound, Defer, Finish

LEMMA RecordMoves ==
  ASSUME TypeOK, RecordVerdict, SeenClockLead = 0
  PROVE  /\ UNCHANGED <<inbox, age, tornFold>> /\ stage \in {"applied", "refused"} /\ stage' = "idle"
         /\ Head(chain) \in Msgs
         /\ \A m \in Msgs : \/ seen'[m] = IF m = Head(chain) THEN stage ELSE seen[m]
                            \/ seen'[m] = "none" /\ age[m] = 2
<1>1. Head(chain) \in Msgs /\ stage \in {"applied", "refused"}
  BY SeqHeadTail DEF RecordVerdict, TypeOK, ReceiverType
<1>2. UNCHANGED <<inbox, age, tornFold>> /\ stage' = "idle"
  BY DEF RecordVerdict, AckWith, Defer, Finish
<1>3. \A m \in Msgs : Recorded[m] = IF m = Head(chain) THEN stage ELSE seen[m]
  BY <1>1 DEF Recorded, TypeOK, StoreType
<1>4. \A m \in Prunable : age[m] = 2 BY DEF Prunable, TypeOK, EnvType
<1>5. seen' = Recorded \/ seen' = [x \in Msgs |-> IF x \in Prunable THEN "none" ELSE Recorded[x]]
  BY DEF RecordVerdict
<1> QED BY <1>1, <1>2, <1>3, <1>4, <1>5

LEMMA CrashMoves ==
  ASSUME CrashB
  PROVE  /\ UNCHANGED <<inbox, seen, age>> /\ stage' = "idle"
         /\ tornFold' = IF stage = "applied" THEN tornFold \cup {Head(chain)} ELSE tornFold
  BY DEF CrashB, storeVars

(* No step undoes a decision or folds a decided message again.              *)
LEMMA DecidedStays ==
  ASSUME TypeOK, [Next]_vars, SeenClockLead = 0, NEW m \in Msgs, NEW v \in {"applied", "refused"},
         Decided(m, v)
  PROVE  Decided(m, v)'
<1>1. CASE ProcessDeliver BY <1>1, ProcessMoves DEF Decided
<1>2. CASE HandleInbound BY <1>2, InboundMoves DEF Decided
<1>3. CASE RecordVerdict BY <1>3, RecordMoves DEF Decided
<1>4. CASE CrashB BY <1>4, CrashMoves DEF Decided
<1>5. CASE UNCHANGED <<inbox, seen, stage, tornFold>> /\ (stage # "idle" => Head(chain') = Head(chain))
  BY <1>5, ReceiverMoves DEF Decided
<1> QED BY <1>1, <1>2, <1>3, <1>4, <1>5, ReceiverMoves

LEMMA FoldsOf ==
  ASSUME TypeOK, [Next]_vars, NEW m \in Msgs
  PROVE  Applied(m)' => Applied(m) \/ (stage = "inbound" /\ Head(chain) = m)
<1>0. inbox \in Seq(Msgs) BY DEF TypeOK, StoreType
<1>1. CASE inbox' = inbox BY <1>1 DEF Applied
<1>2. CASE stage = "inbound" /\ inbox' = Append(inbox, Head(chain))
  <2>1. Head(chain) \in Msgs BY <1>2, SeqHeadTail DEF TypeOK, ReceiverType
  <2> QED BY <1>0, <1>2, <2>1, AppendProperties DEF Applied
<1> QED BY <1>1, <1>2, InboxGrows

LEMMA UnfoldedStays ==
  ASSUME TypeOK, [Next]_vars, NEW m \in Msgs, Unfolded(m), ~(stage = "inbound" /\ Head(chain) = m)
  PROVE  Unfolded(m)'
  BY FoldsOf, ReceiverMoves DEF Unfolded

LEMMA SoundStays ==
  ASSUME TypeOK, [Next]_vars, SeenClockLead = 0
  PROVE  Sound(Acks) \subseteq Sound(Acks)' /\ Sound(Acked) \subseteq Sound(Acked)'
<1>1. \A m \in Msgs : Decided(m, "refused") /\ Unfolded(m) => Unfolded(m)'
  BY UnfoldedStays DEF Decided
<1>2. ASSUME NEW a, a.id \in Msgs, SoundVerdict(a) PROVE SoundVerdict(a)'
  BY <1>1, <1>2, DecidedStays DEF SoundVerdict
<1> QED BY <1>2 DEF Sound, Acks, Acked

LEMMA MemoryStep ==
  ASSUME TypeOK, Memory, [Next]_vars, SeenClockLead = 0
  PROVE  Memory'
<1>0. ReceiverType /\ StoreType BY DEF TypeOK
<1>1. AppliedOnce'
  <2>1. CASE inbox' = inbox BY <2>1, ReceiverMoves DEF Memory, AppliedOnce
  <2>2. CASE stage = "inbound" /\ inbox' = Append(inbox, Head(chain))
    <3>1. Head(chain) \in Msgs BY <1>0, <2>2, SeqHeadTail DEF ReceiverType
    <3>2. /\ DOMAIN inbox = 1..Len(inbox) /\ Len(inbox) \in Nat
          /\ DOMAIN inbox' = 1..(Len(inbox) + 1)
          /\ inbox'[Len(inbox) + 1] = Head(chain)
          /\ \A i \in 1..Len(inbox) : inbox'[i] = inbox[i]
      BY <1>0, <2>2, <3>1, AppendProperties DEF StoreType
    <3>3. \A i \in DOMAIN inbox : inbox[i] = Head(chain) => Head(chain) \in tornFold
      BY <2>2 DEF Memory, NewInProgress, Unfolded, Applied
    <3> SUFFICES ASSUME NEW i \in DOMAIN inbox', NEW j \in DOMAIN inbox', i # j, inbox'[i] = inbox'[j]
                 PROVE  inbox'[i] \in tornFold
      BY ReceiverMoves DEF AppliedOnce
    <3>4. CASE i \in DOMAIN inbox /\ j \in DOMAIN inbox
      BY <3>2, <3>4 DEF Memory, AppliedOnce
    <3>5. CASE i = Len(inbox) + 1
      <4>1. j \in DOMAIN inbox /\ inbox[j] = Head(chain) BY <3>2, <3>5
      <4> QED BY <3>2, <3>3, <3>5, <4>1
    <3>6. CASE j = Len(inbox) + 1
      <4>1. i \in DOMAIN inbox /\ inbox[i] = Head(chain) BY <3>2, <3>6
      <4> QED BY <3>2, <3>3, <3>6, <4>1
    <3> QED BY <3>2, <3>4, <3>5, <3>6
  <2> QED BY <2>1, <2>2, InboxGrows
<1>2. Remembered'
  <2> SUFFICES ASSUME NEW m \in Msgs, Applied(m)', m \notin tornFold'
               PROVE  seen'[m] = "applied" \/ age'[m] = 2 \/ (stage' = "applied" /\ Head(chain') = m)
    BY DEF Remembered, Applied
  <2>1. m \notin tornFold BY ReceiverMoves
  <2>2. \/ seen[m] = "applied" \/ age[m] = 2 \/ (stage = "applied" /\ Head(chain) = m)
        \/ (stage = "inbound" /\ Head(chain) = m /\ inbox' # inbox)
    <3>1. CASE Applied(m) BY <2>1, <3>1 DEF Memory, Remembered
    <3>2. CASE ~Applied(m) BY <3>2, FoldsOf DEF Applied
    <3> QED BY <3>1, <3>2
  <2>3. CASE ProcessDeliver BY <2>2, <2>3, ProcessMoves
  <2>4. CASE HandleInbound BY <2>2, <2>4, InboundMoves
  <2>5. CASE RecordVerdict
    <3>1. stage = "refused" /\ Head(chain) = m => ~Applied(m) BY <2>1 DEF Memory, NewInProgress, Unfolded
    <3>2. Applied(m) BY <2>5, RecordMoves DEF Applied
    <3> QED BY <2>2, <2>5, <3>1, <3>2, RecordMoves
  <2>6. CASE CrashB BY <2>2, <2>6, CrashMoves
  <2>7. CASE UNCHANGED <<inbox, seen, stage, tornFold>> /\ (stage # "idle" => Head(chain') = Head(chain))
    BY <2>2, <2>7, ReceiverMoves
  <2> QED BY <2>3, <2>4, <2>5, <2>6, <2>7, ReceiverMoves
<1>3. NewInProgress'
  <2>1. CASE ProcessDeliver
    <3>1. stage' = "inbound" => Unfolded(Head(chain))
      BY <2>1, ProcessMoves DEF Memory, Remembered, Unfolded
    <3> QED BY <2>1, <3>1, ProcessMoves DEF NewInProgress, Unfolded, Applied
  <2>2. CASE HandleInbound
    <3>1. Unfolded(Head(chain)) BY <2>2, InboundMoves DEF Memory, NewInProgress
    <3> QED BY <2>2, <3>1, InboundMoves DEF NewInProgress, Unfolded, Applied
  <2>3. CASE RecordVerdict BY <2>3, RecordMoves DEF NewInProgress
  <2>4. CASE CrashB BY <2>4, CrashMoves DEF NewInProgress
  <2>5. CASE UNCHANGED <<inbox, seen, stage, tornFold>> /\ (stage # "idle" => Head(chain') = Head(chain))
    BY <2>5 DEF Memory, NewInProgress, Unfolded, Applied
  <2> QED BY <2>1, <2>2, <2>3, <2>4, <2>5, ReceiverMoves
<1>4. ASSUME NEW m \in Msgs, seen'[m] = "refused" PROVE Unfolded(m)'
  <2>1. seen[m] = "refused" \/ (stage = "refused" /\ Head(chain) = m)
    BY <1>4, ProcessMoves, InboundMoves, RecordMoves, CrashMoves, ReceiverMoves
  <2>2. Unfolded(m) BY <2>1 DEF Memory, NewInProgress
  <2>3. ~(stage = "inbound" /\ Head(chain) = m) BY <2>1 DEF Memory, NewInProgress
  <2> QED BY <2>2, <2>3, UnfoldedStays
<1> QED BY <1>1, <1>2, <1>3, <1>4 DEF Memory

LEMMA InitMemory == Init => Memory
  BY DEF Init, Memory, AppliedOnce, Remembered, NewInProgress, Unfolded, Applied

(* A message is folded at most once however often it is resent or handed    *)
(* over, unless a crash tore a fold from its bus_seen row: the receiver     *)
(* forgets a verdict (seen-store.ts prune) only once the clock refuses the  *)
(* message anyway, provided the clock that prunes does not run ahead of the *)
(* one that judges.                                                         *)
THEOREM FoldedAtMostOnce == SeenClockLead = 0 => (Spec => []AppliedOnce)
<1> SUFFICES ASSUME SeenClockLead = 0 PROVE Spec => []AppliedOnce OBVIOUS
<1>1. TypeOK /\ Memory /\ [Next]_vars => Memory' BY MemoryStep
<1>2. Memory => AppliedOnce BY DEF Memory
<1> QED BY InitMemory, <1>1, <1>2, TypeCorrect, PTL DEF Spec
-----------------------------------------------------------------------------
(* What is said of a message, on the wires and in the sender's log, is      *)
(* decided.                                                                 *)
Finality ==
  /\ acks \in Seq(Sound(Acks))
  /\ upB \in Seq(Sound(Acks) \cup {Drain})
  /\ downA \in Seq(Notices \cup Sound(Acked))
  /\ \A m \in Msgs : "delivered" \in stamps[m] => Decided(m, "applied")
  /\ \A m \in Msgs : code[m] = "HOST" => Decided(m, "refused") /\ Unfolded(m)

(* The first frame the sender has not handled is a refusal of m's host.     *)
HostRefusedFirst(m) ==
  /\ downA # <<>>
  /\ Head(downA).kind = "acked" /\ Head(downA).outcome = "refused"
  /\ Head(downA).code = "HOST" /\ Head(downA).id = m

(* The host's code is stamped by its ack alone.                             *)
LEMMA HostCode ==
  ASSUME TypeOK, [Next]_vars, NEW m \in Msgs, code'[m] = "HOST"
  PROVE  code[m] = "HOST" \/ HostRefusedFirst(m)
<1>0. SenderType BY DEF TypeOK
<1> DEFINE f == Head(downA)
<1>1. \A K, c : RefusedCode(K, c)[m] = c \/ RefusedCode(K, c)[m] = code[m] BY DEF RefusedCode
<1>2. \A K, c : RefusedCode(K, c)[m] = code[m] \/ m \in K BY DEF RefusedCode, Refusable
<1>3. ASSUME NEW x \in Msgs, Message(x) PROVE code[m] = "HOST"
  <2>1. PICK S \in Offered({x}, link["A"]) :
          code' = [RefusedCode(Evicted, "OUTBOX_FULL") EXCEPT
                     ![x] = IF x \in S \cap Oversize THEN "PLAINTEXT_TOO_LARGE" ELSE "none"]
    BY <1>3 DEF Message
  <2>2. RefusedCode(Evicted, "OUTBOX_FULL") \in [Msgs -> Codes]
    <3>1. "OUTBOX_FULL" \in Codes BY DEF Codes
    <3> QED BY <1>0, <3>1, StampsTyped
  <2>3. code'[m] \in {"PLAINTEXT_TOO_LARGE", "none", RefusedCode(Evicted, "OUTBOX_FULL")[m]}
    BY <2>1, <2>2
  <2> QED BY <1>1, <2>3
<1>4. ASSUME NEW D, NEW up, FlushHeld(D, up) PROVE code[m] = "HOST"
  <2>1. PICK S \in Offered(Due(D), up) :
          code' = [x \in Msgs |-> IF x \in S \cap Oversize
                                  THEN RefusedCode(S \cap Oversize, "PLAINTEXT_TOO_LARGE")[x]
                                  ELSE RefusedCode({y \in held : age[y] > 0}, "EXPIRED")[x]]
    BY <1>4 DEF FlushHeld
  <2>2. \/ code'[m] = RefusedCode(S \cap Oversize, "PLAINTEXT_TOO_LARGE")[m]
        \/ code'[m] = RefusedCode({y \in held : age[y] > 0}, "EXPIRED")[m]
    BY <2>1
  <2> QED BY <1>1, <2>2
<1>5. CASE Pump \/ ConnectA BY <1>4, <1>5 DEF Pump, ConnectA
<1>6. CASE SenderFrame
  <2>1. downA # <<>> /\ Outcome(f) BY <1>6 DEF SenderFrame
  <2>2. \/ code' = code
        \/ code' = RefusedCode({f.id}, "EXPIRED")
        \/ f.kind = "acked" /\ f.outcome = "refused" /\ code' = RefusedCode({f.id}, f.code)
    BY <2>1 DEF Outcome, senderVars
  <2> HIDE DEF f
  <2>3. code[m] = "HOST" \/ (f.kind = "acked" /\ f.outcome = "refused" /\ f.code = "HOST" /\ m = f.id)
    BY <1>1, <1>2, <2>2
  <2> QED BY <2>1, <2>3 DEF f, HostRefusedFirst
<1>7. ASSUME NEW x \in Msgs, CrashInMessage(x) PROVE code[m] = "HOST"
  BY <1>1, <1>7 DEF CrashInMessage
<1>8. CASE CrashInSettle
  <2>1. downA # <<>> /\ f.kind \in {"acked", "expired"} BY <1>8 DEF CrashInSettle
  <2>2. \/ code' = code
        \/ code' = RefusedCode({f.id}, "EXPIRED")
        \/ f.kind = "acked" /\ f.outcome = "refused" /\ code' = RefusedCode({f.id}, f.code)
    BY <1>8 DEF CrashInSettle
  <2> HIDE DEF f
  <2>3. code[m] = "HOST" \/ (f.kind = "acked" /\ f.outcome = "refused" /\ f.code = "HOST" /\ m = f.id)
    BY <1>1, <1>2, <2>2
  <2> QED BY <2>1, <2>3 DEF f, HostRefusedFirst
<1>9. CASE CrashInFlush BY <1>1, <1>9 DEF CrashInFlush
<1>10. CASE \/ RelayNext \/ ReceiverNext \/ UNCHANGED vars
            \/ DropA \/ DropB \/ RelayRestart \/ CrashB \/ \E x \in Msgs : Age(x)
  <2>1. code' = code
    BY <1>10 DEF RelayNext, RelaySend, RelayAck, RelayDrain, RelaySweep,
       ReceiverNext, ConnectB, EnqueueDeliver, ProcessDeliver, HandleInbound, RecordVerdict,
       FlushAcks, SendDrain, DropA, DropB, RelayRestart, CrashB, Age, vars, senderVars
  <2> QED BY <2>1
<1> QED BY <1>3, <1>5, <1>6, <1>7, <1>8, <1>9, <1>10 DEF Next, SenderNext, Failure

(* A verdict is decided by the time its ack is queued.                      *)
LEMMA VerdictsSound ==
  ASSUME TypeOK, Memory, [Next]_vars, SeenClockLead = 0, ProcessDeliver \/ RecordVerdict
  PROVE  Verdicts \subseteq Sound(Acks)'
<1> SUFFICES ASSUME NEW a \in Verdicts PROVE SoundVerdict(a)'
  BY DEF Verdicts, Sound, Acks
<1>1. a.id = Head(chain) /\ a.id \in Msgs /\ a.outcome \in {"applied", "refused"}
  BY DEF Verdicts, Acks
<1>2. CASE a.outcome = "refused" /\ a.code # "HOST" BY <1>2 DEF SoundVerdict
<1>3. CASE ProcessDeliver /\ seen[a.id] = a.outcome
  <2>1. stage = "idle" BY <1>3 DEF ProcessDeliver
  <2>2. Decided(a.id, a.outcome) BY <1>3, <2>1 DEF Decided
  <2>3. Decided(a.id, a.outcome)' BY <1>1, <2>2, DecidedStays
  <2>4. a.outcome = "refused" => Unfolded(a.id)'
    BY <1>1, <1>3, <2>1, UnfoldedStays DEF Memory
  <2> QED BY <1>1, <2>3, <2>4 DEF SoundVerdict
<1>4. CASE RecordVerdict /\ stage = a.outcome
  <2>1. Decided(a.id, a.outcome)' BY <1>1, <1>4, RecordMoves DEF Decided
  <2>2. a.outcome = "refused" => Unfolded(a.id)'
    BY <1>1, <1>4, UnfoldedStays DEF Memory, NewInProgress
  <2> QED BY <1>1, <2>1, <2>2 DEF SoundVerdict
<1> QED BY <1>1, <1>2, <1>3, <1>4 DEF Verdicts, ProcessDeliver, RecordVerdict

LEMMA FinalityStep ==
  ASSUME TypeOK, Memory, Finality, [Next]_vars, SeenClockLead = 0
  PROVE  Finality'
<1>1. /\ acks \in Seq(Sound(Acks)') /\ acks \in Seq(Sound(Acks)' \cup {Drain})
      /\ upB \in Seq(Sound(Acks)' \cup {Drain})
      /\ downA \in Seq(Notices \cup Sound(Acked)')
  <2>1. acks \in Seq(Sound(Acks)') BY SoundStays, SeqWider DEF Finality
  <2>2. acks \in Seq(Sound(Acks)' \cup {Drain}) BY <2>1, SeqWider
  <2>3. upB \in Seq(Sound(Acks)' \cup {Drain}) BY SoundStays, SeqWider DEF Finality
  <2>4. downA \in Seq(Notices \cup Sound(Acked)') BY SoundStays, SeqWider DEF Finality
  <2> QED BY <2>1, <2>2, <2>3, <2>4
<1>2. acks' \in Seq(Sound(Acks)') BY <1>1, VerdictsSound, AcksFlow
<1>3. upB' \in Seq(Sound(Acks)' \cup {Drain}) BY <1>1, UpBFlow
<1>4. downA' \in Seq(Notices \cup Sound(Acked)')
  <2>1. RelayAck => [Head(upB) EXCEPT !.kind = "acked"] \in Sound(Acked)'
    <3> SUFFICES ASSUME RelayAck PROVE [Head(upB) EXCEPT !.kind = "acked"] \in Sound(Acked)' OBVIOUS
    <3>1. Head(upB) \in Sound(Acks)' BY <1>1, SeqHeadTail DEF RelayAck
    <3> QED BY <3>1 DEF Sound, SoundVerdict, Acks, Acked
  <2> QED BY <1>1, <2>1, DownAFlow
<1>5. downA # <<>> => Head(downA) \in Notices \cup Sound(Acked)' BY <1>1, SeqHeadTail
<1>6. ASSUME NEW m \in Msgs, "delivered" \in stamps'[m] PROVE Decided(m, "applied")'
  <2>1. CASE "delivered" \in stamps[m] BY <2>1, DecidedStays DEF Finality
  <2>2. CASE AckedFirst(m) BY <1>5, <2>2 DEF AckedFirst, Notices, Sound, SoundVerdict
  <2> QED BY <1>6, <2>1, <2>2, EveryStepMoves DEF SenderMove
<1>7. ASSUME NEW m \in Msgs, code'[m] = "HOST" PROVE Decided(m, "refused")' /\ Unfolded(m)'
  <2>1. CASE code[m] = "HOST"
    <3>1. Decided(m, "refused") /\ Unfolded(m) BY <2>1 DEF Finality
    <3>2. ~(stage = "inbound" /\ Head(chain) = m) BY <3>1 DEF Decided
    <3> QED BY <3>1, <3>2, DecidedStays, UnfoldedStays
  <2>2. CASE HostRefusedFirst(m) BY <1>5, <2>2 DEF HostRefusedFirst, Notices, Sound, SoundVerdict
  <2> QED BY <1>7, <2>1, <2>2, HostCode
<1> QED BY <1>2, <1>3, <1>4, <1>6, <1>7 DEF Finality, Drain, Notices

LEMMA InitFinality == Init => Finality
  BY SeqEmpty DEF Init, Finality, SoundVerdict

(* What the receiving host refused it never folded, before or after (a torn *)
(* fold excepted): its verdict is on disk before the ack is queued, and     *)
(* processDeliver answers every later copy from it.                         *)
THEOREM HostRefusalsAreFinal == SeenClockLead = 0 => (Spec => []HostRefusalIsFinal)
<1> SUFFICES ASSUME SeenClockLead = 0 PROVE Spec => []HostRefusalIsFinal OBVIOUS
<1>1. TypeOK /\ Memory /\ [Next]_vars => Memory' BY MemoryStep
<1>2. TypeOK /\ Memory /\ Finality /\ [Next]_vars => Finality' BY FinalityStep
<1>3. Finality => HostRefusalIsFinal BY DEF Finality, HostRefusalIsFinal, Unfolded
<1> QED BY InitMemory, InitFinality, <1>1, <1>2, <1>3, TypeCorrect, PTL DEF Spec

LEMMA NoFoldOfDecided ==
  ASSUME TypeOK, Finality, [Next]_vars, NEW m \in Msgs, "delivered" \in stamps[m]
  PROVE  \A i \in DOMAIN inbox' \ DOMAIN inbox : inbox'[i] # m
<1>0. inbox \in Seq(Msgs) BY DEF TypeOK, StoreType
<1>1. CASE inbox' = inbox BY <1>1
<1>2. CASE stage = "inbound" /\ inbox' = Append(inbox, Head(chain))
  <2>1. Head(chain) \in Msgs BY <1>2, SeqHeadTail DEF TypeOK, ReceiverType
  <2>2. Head(chain) # m BY <1>2 DEF Finality, Decided
  <2> QED BY <1>0, <1>2, <2>1, <2>2, AppendProperties
<1> QED BY <1>1, <1>2, InboxGrows

(* Once the sender was told "delivered", no step folds a further copy: the  *)
(* copies still in the outbox, at the relay or in the chain are answered    *)
(* from bus_seen or refused as stale.                                       *)
THEOREM NothingFoldsAfterDelivered == SeenClockLead = 0 => (Spec => NoFoldAfterDelivered)
<1> SUFFICES ASSUME SeenClockLead = 0 PROVE Spec => NoFoldAfterDelivered OBVIOUS
<1> DEFINE Still == \A m \in Msgs : Rung(m) = "delivered" =>
                      \A i \in DOMAIN inbox' \ DOMAIN inbox : inbox'[i] # m
<1>1. TypeOK /\ Memory /\ [Next]_vars => Memory' BY MemoryStep
<1>2. TypeOK /\ Memory /\ Finality /\ [Next]_vars => Finality' BY FinalityStep
<1>3. TypeOK /\ Finality /\ [Next]_vars => [Still]_vars
  <2> SUFFICES ASSUME TypeOK, Finality, [Next]_vars, NEW m \in Msgs, Rung(m) = "delivered"
               PROVE  \A i \in DOMAIN inbox' \ DOMAIN inbox : inbox'[i] # m
    OBVIOUS
  <2>1. "delivered" \in stamps[m] BY DEF Rung, Settled
  <2> QED BY <2>1, NoFoldOfDecided
<1> QED BY InitMemory, InitFinality, <1>1, <1>2, <1>3, TypeCorrect, PTL DEF Spec, NoFoldAfterDelivered
-----------------------------------------------------------------------------
(* The contract.  What travels or is folded was written first.              *)
Sent == {m \in Msgs : stamps[m] # {}}

Written ==
  /\ held \subseteq Sent
  /\ upA \in Seq(Sent) /\ queue \in Seq(Sent) /\ downB \in Seq(Sent)
  /\ chain \in Seq(Sent) /\ inbox \in Seq(Sent)

(* Messages of a sequence over T travel as messages of T.                   *)
LEMMA KeptOfSeq ==
  ASSUME NEW T, NEW s \in Seq(T), NEW K, NEW t \in Kept(s, K)
  PROVE  t \in Seq(T)
<1>1. t \in Seq({x \in K : Positions(s, x) # {}}) BY ListsAreSeqs DEF Kept
<1>2. {x \in K : Positions(s, x) # {}} \subseteq T BY DEF Positions
<1> QED BY <1>1, <1>2, SeqWider

LEMMA FlushOffers ==
  ASSUME NEW T, held \subseteq T, upA \in Seq(T), NEW D \in SUBSET held, NEW up, FlushHeld(D, up)
  PROVE  held' \subseteq T /\ upA' \in Seq(T)
<1>1. PICK S \in Offered(Due(D), up) :
        /\ held' \subseteq held
        /\ \E t \in Ascending(S \ (S \cap Oversize)) : upA' = upA \o t
  BY DEF FlushHeld
<1>2. PICK t \in Ascending(S \ (S \cap Oversize)) : upA' = upA \o t BY <1>1
<1>3. S \ (S \cap Oversize) \subseteq T BY DEF Offered, Due
<1>4. t \in Seq(T) BY <1>3, AscendingAreSeqs, SeqWider
<1> QED BY <1>1, <1>2, <1>4, SeqConcat

LEMMA WrittenStep ==
  ASSUME TypeOK, Written, [Next]_vars
  PROVE  Written'
<1> DEFINE T == Sent'
<1>1. Sent \subseteq T BY EveryStepMoves DEF Sent, SenderMove
<1>2. /\ held \subseteq T
      /\ upA \in Seq(T) /\ queue \in Seq(T) /\ downB \in Seq(T)
      /\ chain \in Seq(T) /\ inbox \in Seq(T)
  BY <1>1, SeqWider DEF Written
<1>3. \A m \in Msgs : Message(m) => m \in T
  <2> SUFFICES ASSUME NEW m \in Msgs, Message(m) PROVE stamps'[m] # {} BY DEF Sent
  <2>1. MarkRefused(Evicted) \in [Msgs -> SUBSET Stamps] BY StampsTyped DEF TypeOK
  <2>2. stamps'[m] \in {{"logged", "refused"}, {"logged"}} BY <2>1 DEF Message
  <2> QED BY <2>2
<1> HIDE DEF T
<1>4. held' \subseteq T /\ upA' \in Seq(T)
  <2>1. ASSUME NEW m \in Msgs, Message(m) PROVE held' \subseteq T /\ upA' \in Seq(T)
    <3>1. PICK S \in Offered({m}, link["A"]) :
            /\ held' = (held \ Evicted) \cup ({m} \ (S \cap Oversize))
            /\ \E t \in Ascending(S \ (S \cap Oversize)) : upA' = upA \o t
      BY <2>1 DEF Message
    <3>2. PICK t \in Ascending(S \ (S \cap Oversize)) : upA' = upA \o t BY <3>1
    <3>3. m \in T BY <1>3, <2>1
    <3>4. S \ (S \cap Oversize) \subseteq T BY <3>3 DEF Offered
    <3>5. t \in Seq(T) BY <3>4, AscendingAreSeqs, SeqWider
    <3> QED BY <1>2, <3>1, <3>2, <3>3, <3>5, SeqConcat
  <2>2. CASE Pump BY <1>2, <2>2, FlushOffers DEF Pump
  <2>3. CASE ConnectA BY <1>2, <2>3, FlushOffers DEF ConnectA
  <2>4. CASE SenderFrame BY <1>2, <2>4 DEF SenderFrame, Outcome, senderVars
  <2>5. CASE RelayNext \/ ReceiverNext \/ UNCHANGED vars
    <3>1. held' = held BY <2>5 DEF RelayNext, RelaySend, RelayAck, RelayDrain, RelaySweep,
       ReceiverNext, ConnectB, EnqueueDeliver, ProcessDeliver, HandleInbound, RecordVerdict,
       FlushAcks, SendDrain, vars, senderVars
    <3>2. upA' = upA \/ (upA # <<>> /\ upA' = Tail(upA))
      BY <2>5 DEF RelayNext, RelaySend, RelayAck, RelayDrain, RelaySweep,
         ReceiverNext, ConnectB, EnqueueDeliver, ProcessDeliver, HandleInbound, RecordVerdict,
         FlushAcks, SendDrain, vars, wireVars
    <3> QED BY <1>2, <3>1, <3>2, SeqHeadTail
  <2>6. CASE Failure
    <3>1. held' = held
      BY <2>6 DEF Failure, DropA, DropB, RelayRestart, CrashInMessage, CrashInSettle, CrashInFlush,
         CrashB, Age, senderVars
    <3>2. upA' = upA \/ upA' = <<>>
      BY <2>6 DEF Failure, DropA, DropB, RelayRestart, CrashInMessage, CrashInSettle, CrashInFlush,
         CrashB, Age, CutA, CutB, wireVars
    <3> QED BY <1>2, <3>1, <3>2, SeqEmpty
  <2> QED BY <2>1, <2>2, <2>3, <2>4, <2>5, <2>6 DEF Next, SenderNext
<1>5. queue' \in Seq(T) /\ downB' \in Seq(T)
  <2>1. CASE RelaySend
    <3>1. upA # <<>> /\ Head(upA) \in T BY <1>2, <2>1, SeqHeadTail DEF RelaySend
    <3>2. queue' = queue \/ queue' = Append(queue, Head(upA)) BY <2>1 DEF RelaySend
    <3>3. downB' = downB \/ downB' = downB \o <<Head(upA)>> BY <2>1 DEF RelaySend, ToB
    <3>4. <<Head(upA)>> \in Seq(T) BY <3>1
    <3> QED BY <1>2, <3>1, <3>2, <3>3, <3>4, SeqAppend, SeqConcat
  <2>2. CASE RelayAck
    <3>1. downB' = downB /\ (queue' = queue \/ \E K : queue' \in Kept(queue, K)) BY <2>2 DEF RelayAck
    <3> QED BY <1>2, <3>1, KeptOfSeq
  <2>3. CASE RelayDrain \/ ConnectB
    <3>1. queue' = queue /\ \E K : \E out \in Kept(queue, K) : downB' = downB \o out
      BY <2>3 DEF RelayDrain, ConnectB, HandOver
    <3> QED BY <1>2, <3>1, KeptOfSeq, SeqConcat
  <2>4. CASE RelaySweep
    <3>1. PICK live \in Kept(queue, {m \in Msgs : age[m] = 0}) :
            queue' = live /\ \E K : \E again \in Kept(live, K) : downB' = downB \o again
      BY <2>4 DEF RelaySweep
    <3>2. live \in Seq(T) BY <1>2, KeptOfSeq
    <3> QED BY <1>2, <3>1, <3>2, KeptOfSeq, SeqConcat
  <2>5. CASE EnqueueDeliver BY <1>2, <2>5, SeqHeadTail DEF EnqueueDeliver
  <2>6. CASE RelayRestart \/ DropB \/ CrashB BY <1>2, <2>6, SeqEmpty DEF RelayRestart, DropB, CrashB, CutB
  <2>7. CASE \/ SenderNext \/ UNCHANGED vars \/ ProcessDeliver \/ HandleInbound \/ RecordVerdict
             \/ FlushAcks \/ SendDrain
    <3>1. queue' = queue /\ downB' = downB
      BY <2>7 DEF SenderNext, Message, Pump, SenderFrame, ConnectA,
         ProcessDeliver, HandleInbound, RecordVerdict, FlushAcks, SendDrain, vars, wireVars
    <3> QED BY <1>2, <3>1
  <2>8. CASE \/ DropA \/ CrashInSettle \/ CrashInFlush
             \/ (\E m \in Msgs : CrashInMessage(m)) \/ (\E m \in Msgs : Age(m))
    <3>1. queue' = queue /\ downB' = downB
      BY <2>8 DEF DropA, CrashInSettle, CrashInFlush, CrashInMessage, CutA, Age, wireVars
    <3> QED BY <1>2, <3>1
  <2> QED BY <2>1, <2>2, <2>3, <2>4, <2>5, <2>6, <2>7, <2>8 DEF Next, RelayNext, ReceiverNext, Failure
<1>6. chain' \in Seq(T)
  <2>1. CASE EnqueueDeliver
    <3>1. Head(downB) \in T BY <1>2, <2>1, SeqHeadTail DEF EnqueueDeliver
    <3> QED BY <1>2, <2>1, <3>1, SeqAppend DEF EnqueueDeliver
  <2>2. CASE ProcessDeliver \/ HandleInbound \/ RecordVerdict
    <3>1. chain # <<>> BY <2>2 DEF ProcessDeliver, HandleInbound, RecordVerdict, TypeOK, ReceiverType
    <3>2. Defer => chain' = Tail(chain) BY DEF Defer, Finish
    <3>3. \A m, o, c : AckWith(m, o, c) => chain' = Tail(chain) BY DEF AckWith, Finish
    <3>4. chain' = chain \/ chain' = Tail(chain)
      BY <2>2, <3>2, <3>3 DEF ProcessDeliver, HandleInbound, RecordVerdict
    <3> QED BY <1>2, <3>1, <3>4, SeqHeadTail
  <2>3. CASE CrashB BY <2>3, SeqEmpty DEF CrashB
  <2>4. CASE \/ SenderNext \/ RelayNext \/ UNCHANGED vars
             \/ ConnectB \/ FlushAcks \/ SendDrain
    <3>1. chain' = chain
      BY <2>4 DEF SenderNext, Message, Pump, SenderFrame, ConnectA,
         RelayNext, RelaySend, RelayAck, RelayDrain, RelaySweep,
         ConnectB, FlushAcks, SendDrain, vars, recvVars
    <3> QED BY <1>2, <3>1
  <2>5. CASE \/ DropA \/ DropB \/ RelayRestart \/ CrashInSettle \/ CrashInFlush
             \/ (\E m \in Msgs : CrashInMessage(m)) \/ (\E m \in Msgs : Age(m))
    <3>1. chain' = chain
      BY <2>5 DEF DropA, DropB, RelayRestart, CrashInMessage, CrashInSettle, CrashInFlush, Age, recvVars
    <3> QED BY <1>2, <3>1
  <2> QED BY <2>1, <2>2, <2>3, <2>4, <2>5 DEF Next, ReceiverNext, Failure
<1>7. inbox' \in Seq(T)
  <2>1. stage = "inbound" => Head(chain) \in T BY <1>2, SeqHeadTail DEF TypeOK, ReceiverType
  <2> QED BY <1>2, <2>1, InboxGrows, SeqAppend
<1> QED BY <1>4, <1>5, <1>6, <1>7 DEF T, Written

(* Every step is a step of the contract, or leaves what it speaks of alone. *)
LEMMA ContractStep ==
  ASSUME TypeOK, Provenance, Finality, Written, [Next]_vars
  PROVE  [Contract!Next]_(Contract!vars)
<1> DEFINE rung == [m \in Msgs |-> Rung(m)]
<1>0. inbox \in Seq(Msgs) BY DEF TypeOK, StoreType
<1>1. CASE inbox' = inbox
  <2> DEFINE new == [m \in Msgs |-> Rung(m)']
  <2>1. ASSUME NEW m \in Msgs
        PROVE  new[m] \in Contract!Rungs /\ Contract!MayBecome(m, new[m])
    <3>1. SenderMove(m) BY EveryStepMoves
    <3>2. AckedFirst(m) => Applied(m)
      <4> SUFFICES ASSUME AckedFirst(m) PROVE Applied(m) OBVIOUS
      <4>1. Head(downA) \in Notices \cup Truthful(Acked) BY SeqHeadTail DEF Provenance, AckedFirst
      <4> QED BY <4>1 DEF AckedFirst, Notices, Truthful
    <3>3. Applied(m) => stamps[m] # {} BY DEF Applied, Written, Sent
    <3>4. new[m] = Rung(m)' /\ rung[m] = Rung(m) OBVIOUS
    <3>5. Rung(m)' \in {"refused", "delivered", "pending", "unsent"} BY DEF Rung
    <3>6. Contract!Holds(m) <=> Applied(m) BY DEF Contract!Holds, Applied
    <3>7. CASE "refused" \in stamps[m]
      <4>1. Rung(m) = "refused" /\ Rung(m)' = "refused" BY <3>1, <3>7 DEF SenderMove, Rung, Settled
      <4> QED BY <3>4, <3>5, <4>1 DEF Contract!MayBecome, Contract!Rungs
    <3>8. CASE "refused" \notin stamps[m] /\ "delivered" \in stamps[m]
      <4>1. Rung(m) = "delivered" /\ Rung(m)' = "delivered" BY <3>1, <3>8 DEF SenderMove, Rung, Settled
      <4> QED BY <3>4, <3>5, <4>1 DEF Contract!MayBecome, Contract!Rungs
    <3>9. CASE ~Settled(m) /\ stamps[m] # {}
      <4>1. Rung(m) = "pending" BY <3>9 DEF Rung, Settled
      <4>2. Rung(m)' # "unsent" BY <3>1, <3>9 DEF SenderMove, Rung, Settled
      <4>3. Rung(m)' = "delivered" => Applied(m)
        <5>1. Rung(m)' = "delivered" => "delivered" \in stamps'[m] BY DEF Rung, Settled
        <5> QED BY <3>1, <3>2, <3>9, <5>1 DEF SenderMove, Settled
      <4> QED BY <3>4, <3>5, <3>6, <4>1, <4>2, <4>3 DEF Contract!MayBecome, Contract!Rungs
    <3>10. CASE stamps[m] = {}
      <4>1. Rung(m) = "unsent" BY <3>10 DEF Rung, Settled
      <4>2. Rung(m)' # "delivered"
        <5>1. Rung(m)' = "delivered" => "delivered" \in stamps'[m] BY DEF Rung, Settled
        <5> QED BY <3>1, <3>2, <3>3, <3>10, <5>1 DEF SenderMove
      <4> QED BY <3>4, <3>5, <4>1, <4>2 DEF Contract!MayBecome, Contract!Rungs
    <3> QED BY <3>7, <3>8, <3>9, <3>10 DEF Settled
  <2>2. new \in [Msgs -> Contract!Rungs] BY <2>1
  <2>3. \A m \in Msgs : Contract!MayBecome(m, new[m]) BY <2>1
  <2>4. rung' = new OBVIOUS
  <2> HIDE DEF new
  <2>5. Contract!Report BY <1>1, <2>2, <2>3, <2>4 DEF Contract!Report
  <2> QED BY <2>5 DEF Contract!Next
<1>2. CASE inbox' # inbox
  <2>1. HandleInbound
    BY <1>2 DEF Next, SenderNext, Message, Pump, SenderFrame, ConnectA,
       RelayNext, RelaySend, RelayAck, RelayDrain, RelaySweep,
       ReceiverNext, ConnectB, EnqueueDeliver, ProcessDeliver, RecordVerdict, FlushAcks, SendDrain,
       Failure, DropA, DropB, RelayRestart, CrashInMessage, CrashInSettle, CrashInFlush, CrashB, Age,
       vars, storeVars
  <2> DEFINE m == Head(chain)
  <2>2. stage = "inbound" /\ m \in Msgs /\ inbox' = Append(inbox, m) BY <1>2, <2>1, InboundMoves
  <2>3. m \in Sent BY <2>2, SeqHeadTail DEF Written, TypeOK, ReceiverType
  <2>4. "delivered" \notin stamps[m] BY <2>2 DEF Finality, Decided
  <2>5. Rung(m) \in {"pending", "refused"} BY <2>3, <2>4 DEF Sent, Rung, Settled
  <2>6. rung' = rung
    <3>1. stamps' = stamps BY <2>1 DEF HandleInbound, senderVars
    <3> QED BY <3>1 DEF Rung, Settled
  <2>7. rung[m] \in {"pending", "refused"} BY <2>2, <2>5
  <2> HIDE DEF m
  <2>8. Contract!Fold(m) BY <2>2, <2>6, <2>7 DEF Contract!Fold
  <2> QED BY <2>2, <2>8 DEF Contract!Next
<1> QED BY <1>1, <1>2

(* The session bus keeps the at-least-once contract of held-store.ts and    *)
(* relay-transport.ts, for any number of messages, any limits and any       *)
(* failures: each step reports or folds as the contract allows, or shows    *)
(* its user nothing.                                                        *)
THEOREM BusImplementsContract == SeenClockLead = 0 => (Spec => ImplementsAtLeastOnce)
<1> SUFFICES ASSUME SeenClockLead = 0 PROVE Spec => ImplementsAtLeastOnce OBVIOUS
<1>1. TypeOK /\ Memory /\ [Next]_vars => Memory' BY MemoryStep
<1>2. TypeOK /\ Memory /\ Finality /\ [Next]_vars => Finality' BY FinalityStep
<1>3. Init => Written BY SeqEmpty DEF Init, Written
<1>4. TypeOK /\ Written /\ [Next]_vars => Written' BY WrittenStep
<1>5. Init => Provenance BY SeqEmpty DEF Init, Provenance, DeliveredIsApplied
<1>6. Init => Contract!Init
  <2> SUFFICES ASSUME Init PROVE Contract!Init OBVIOUS
  <2>1. \A m \in Msgs : Rung(m) = "unsent" BY DEF Init, Rung, Settled
  <2> QED BY <2>1 DEF Init, Contract!Init
<1>7. TypeOK /\ Provenance /\ Finality /\ Written /\ [Next]_vars => [Contract!Next]_(Contract!vars)
  BY ContractStep
<1> QED BY InitMemory, InitFinality, ProvenanceStep, <1>1, <1>2, <1>3, <1>4, <1>5, <1>6, <1>7,
           TypeCorrect, PTL DEF Spec, ImplementsAtLeastOnce, Contract!Spec
=============================================================================
