-------------------------- MODULE SessionBusProofs --------------------------
(***************************************************************************)
(* Type correctness of the session bus, for any number of messages, any    *)
(* limits and any number of failures.                                      *)
(***************************************************************************)
EXTENDS SessionBus, SequenceTheorems, TLAPS

(* Sequence facts, in the form the action proofs use them.                  *)
LEMMA SeqAppend ==
  ASSUME NEW S, NEW s \in Seq(S), NEW x \in S
  PROVE  Append(s, x) \in Seq(S)
  BY AppendProperties

LEMMA SeqConcat ==
  ASSUME NEW S, NEW s \in Seq(S), NEW t \in Seq(S)
  PROVE  s \o t \in Seq(S)
  BY ConcatProperties

LEMMA SeqHeadTail ==
  ASSUME NEW S, NEW s \in Seq(S), s # <<>>
  PROVE  Head(s) \in S /\ Tail(s) \in Seq(S)
  BY HeadTailProperties

LEMMA SeqWider ==
  ASSUME NEW S, NEW T, S \subseteq T, NEW s \in Seq(S)
  PROVE  s \in Seq(T)
  OBVIOUS

LEMMA SeqPart ==
  ASSUME NEW S, NEW s \in Seq(S), NEW n \in 1..Len(s)
  PROVE  SubSeq(s, 1, n) \in Seq(S) /\ SubSeq(s, n + 1, Len(s)) \in Seq(S)
<1>1. \A i \in 1..n : s[i] \in S OBVIOUS
<1>2. \A i \in (n+1)..Len(s) : s[i] \in S OBVIOUS
<1> QED BY <1>1, <1>2, SubSeqProperties

LEMMA SeqEmpty == \A S : <<>> \in Seq(S)
  OBVIOUS

(* A listing of K is a sequence over K.                                     *)
LEMMA ListsAreSeqs ==
  ASSUME NEW K, NEW t \in Lists(K)
  PROVE  t \in Seq(K)
<1>1. PICK n \in 0..Cardinality(K) : t \in [1..n -> K] BY DEF Lists
<1>2. n \in Nat OBVIOUS
<1> QED BY <1>1, <1>2

LEMMA KeptAreSeqs ==
  ASSUME NEW s, NEW K, NEW t \in Kept(s, K)
  PROVE  t \in Seq(K)
<1>1. t \in Seq({x \in K : Positions(s, x) # {}}) BY ListsAreSeqs DEF Kept
<1> QED BY <1>1

LEMMA AscendingAreSeqs ==
  ASSUME NEW K, NEW t \in Ascending(K)
  PROVE  t \in Seq(K)
  BY ListsAreSeqs DEF Ascending

(* Receipts go to the sender as notices.                                    *)
LEMMA ReceiptsAreNotices ==
  ASSUME NEW out, NEW r \in Receipts(out)
  PROVE  r \in Seq(Notices)
<1>1. PICK t \in Kept(out, {m \in Msgs : Matters(m)}) : r = [i \in DOMAIN t |-> Receipt(t[i])]
  BY DEF Receipts
<1>2. t \in Seq({m \in Msgs : Matters(m)}) BY KeptAreSeqs
<1>3. \A i \in DOMAIN t : Receipt(t[i]) \in Notices BY <1>2 DEF Receipt, Notices
<1> QED BY <1>1, <1>2, <1>3
-----------------------------------------------------------------------------
(* What the helpers of the actions return.                                  *)

LEMMA StampsTyped ==
  ASSUME SenderType
  PROVE  /\ \A m \in Msgs : MarkRelayed(m) \in [Msgs -> SUBSET Stamps]
         /\ \A m \in Msgs : MarkDelivered(m) \in [Msgs -> SUBSET Stamps]
         /\ \A K : MarkRefused(K) \in [Msgs -> SUBSET Stamps]
         /\ \A K : \A c \in Codes : RefusedCode(K, c) \in [Msgs -> Codes]
<1>1. \A m \in Msgs : stamps[m] \in SUBSET Stamps BY DEF SenderType
<1>2. "relayed" \in Stamps /\ "delivered" \in Stamps /\ "refused" \in Stamps BY DEF Stamps
<1>3. \A m \in Msgs : MarkRelayed(m) \in [Msgs -> SUBSET Stamps]
  BY <1>1, <1>2 DEF SenderType, MarkRelayed
<1>4. \A m \in Msgs : MarkDelivered(m) \in [Msgs -> SUBSET Stamps]
  BY <1>1, <1>2 DEF SenderType, MarkDelivered
<1>5. \A K : MarkRefused(K) \in [Msgs -> SUBSET Stamps] BY <1>1, <1>2 DEF MarkRefused
<1>6. \A K : \A c \in Codes : RefusedCode(K, c) \in [Msgs -> Codes]
  BY DEF SenderType, RefusedCode
<1> QED BY <1>3, <1>4, <1>5, <1>6

LEMMA CutsTyped ==
  ASSUME WireType, CutA \/ CutB, UNCHANGED queue
  PROVE  WireType'
  BY SeqEmpty DEF WireType, CutA, CutB, Peers

LEMMA TroubleTyped ==
  ASSUME trouble \in Nat, NEW happened, NoteTrouble(happened)
  PROVE  trouble' \in Nat
  BY DEF NoteTrouble

LEMMA FlushTyped ==
  ASSUME TypeOK, NEW D \in SUBSET Msgs, NEW up, FlushHeld(D, up)
  PROVE  SenderType' /\ upA' \in Seq(Msgs) /\ trouble' \in Nat
<1> DEFINE expired == {m \in held : age[m] > 0}
           due == Due(D)
<1>1. PICK S \in Offered(due, up) :
        /\ NoteTrouble(Paced(S, due, up))
        /\ LET big == S \cap Oversize
           IN  /\ stamps' = MarkRefused(expired \cup big)
               /\ code' = [m \in Msgs |-> IF m \in big THEN RefusedCode(big, "PLAINTEXT_TOO_LARGE")[m]
                                          ELSE RefusedCode(expired, "EXPIRED")[m]]
               /\ held' = held \ (expired \cup big)
               /\ \E t \in Ascending(S \ big) : upA' = upA \o t
  BY DEF FlushHeld
<1>2. trouble' \in Nat BY <1>1, TroubleTyped DEF TypeOK, EnvType
<1>3. S \subseteq Msgs BY DEF Offered, Due
<1>4. stamps' \in [Msgs -> SUBSET Stamps] BY <1>1, StampsTyped DEF TypeOK
<1>5. code' \in [Msgs -> Codes]
  <2>1. "PLAINTEXT_TOO_LARGE" \in Codes /\ "EXPIRED" \in Codes BY DEF Codes
  <2>2. \A K : /\ RefusedCode(K, "PLAINTEXT_TOO_LARGE") \in [Msgs -> Codes]
               /\ RefusedCode(K, "EXPIRED") \in [Msgs -> Codes]
    BY <2>1, StampsTyped DEF TypeOK
  <2> QED BY <1>1, <2>2
<1>6. held' \in SUBSET Msgs BY <1>1 DEF TypeOK, SenderType
<1>7. upA' \in Seq(Msgs)
  <2>1. PICK t \in Ascending(S \ (S \cap Oversize)) : upA' = upA \o t BY <1>1
  <2>2. t \in Seq(Msgs) BY <1>3, AscendingAreSeqs, SeqWider
  <2> QED BY <2>1, <2>2, SeqConcat DEF TypeOK, WireType
<1> QED BY <1>2, <1>4, <1>5, <1>6, <1>7 DEF SenderType

(* The end of a delivery, with or without an ack.                           *)
LEMMA FinishTyped ==
  ASSUME ReceiverType, chain # <<>>, NEW deferred \in BOOLEAN, Finish(deferred)
  PROVE  /\ chain' \in Seq(Msgs) /\ stage' = "idle"
         /\ drainWanted' \in BOOLEAN /\ drainTimer' \in BOOLEAN
<1>1. chain' \in Seq(Msgs) BY SeqHeadTail DEF ReceiverType, Finish
<1>2. stage' = "idle" BY DEF Finish
<1>3. drainWanted' \in BOOLEAN /\ drainTimer' \in BOOLEAN BY DEF ReceiverType, Finish
<1> QED BY <1>1, <1>2, <1>3

LEMMA DeferTyped ==
  ASSUME ReceiverType, chain # <<>>, Defer
  PROVE  ReceiverType'
  BY FinishTyped DEF Defer, ReceiverType, Stages

LEMMA AckTyped ==
  ASSUME ReceiverType, chain # <<>>, NEW m \in Msgs, NEW o \in {"applied", "refused"},
         NEW c \in Codes \cup {"UNOPENABLE"}, AckWith(m, o, c)
  PROVE  ReceiverType'
<1>1. [kind |-> "ack", id |-> m, outcome |-> o, code |-> c] \in Acks BY DEF Acks
<1>2. (IF Len(acks) >= MaxAcks THEN Tail(acks) ELSE acks) \in Seq(Acks)
  <2>1. CASE Len(acks) >= MaxAcks
    <3>1. acks # <<>> BY <2>1, BusAssumption DEF ReceiverType
    <3> QED BY <2>1, <3>1, SeqHeadTail DEF ReceiverType
  <2>2. CASE ~(Len(acks) >= MaxAcks) BY <2>2 DEF ReceiverType
  <2> QED BY <2>1, <2>2
<1>3. acks' \in Seq(Acks) BY <1>1, <1>2, SeqAppend DEF AckWith
<1>4. Finish(FALSE) BY DEF AckWith
<1> QED BY <1>3, <1>4, FinishTyped DEF ReceiverType, Stages
-----------------------------------------------------------------------------
(* Type correctness, action by action.                                      *)

LEMMA SenderStepsTyped ==
  ASSUME TypeOK, SenderNext
  PROVE  TypeOK'
<1>1. ASSUME NEW m \in Msgs, Message(m) PROVE TypeOK'
  <2>1. PICK S \in Offered({m}, link["A"]) :
          /\ NoteTrouble(Paced(S, {m}, link["A"]))
          /\ LET big == S \cap Oversize
             IN  /\ stamps' = [MarkRefused(Evicted) EXCEPT
                                 ![m] = IF m \in big THEN {"logged", "refused"} ELSE {"logged"}]
                 /\ code' = [RefusedCode(Evicted, "OUTBOX_FULL") EXCEPT
                               ![m] = IF m \in big THEN "PLAINTEXT_TOO_LARGE" ELSE "none"]
                 /\ held' = (held \ Evicted) \cup ({m} \ big)
                 /\ \E t \in Ascending(S \ big) : upA' = upA \o t
    BY <1>1 DEF Message
  <2>2. trouble' \in Nat BY <2>1, TroubleTyped DEF TypeOK, EnvType
  <2>3. stamps' \in [Msgs -> SUBSET Stamps]
    <3>1. MarkRefused(Evicted) \in [Msgs -> SUBSET Stamps] BY StampsTyped DEF TypeOK
    <3>2. {"logged", "refused"} \in SUBSET Stamps /\ {"logged"} \in SUBSET Stamps BY DEF Stamps
    <3> QED BY <2>1, <3>1, <3>2
  <2>4. code' \in [Msgs -> Codes]
    <3>1. "OUTBOX_FULL" \in Codes /\ "PLAINTEXT_TOO_LARGE" \in Codes /\ "none" \in Codes BY DEF Codes
    <3>2. RefusedCode(Evicted, "OUTBOX_FULL") \in [Msgs -> Codes] BY <3>1, StampsTyped DEF TypeOK
    <3> QED BY <2>1, <3>1, <3>2
  <2>5. held' \in SUBSET Msgs BY <2>1 DEF TypeOK, SenderType
  <2>6. upA' \in Seq(Msgs)
    <3>1. PICK t \in Ascending(S \ (S \cap Oversize)) : upA' = upA \o t BY <2>1
    <3>2. t \in Seq(Msgs)
      <4>1. S \subseteq Msgs BY DEF Offered
      <4> QED BY <4>1, AscendingAreSeqs, SeqWider
    <3> QED BY <3>1, <3>2, SeqConcat DEF TypeOK, WireType
  <2> QED BY <1>1, <2>2, <2>3, <2>4, <2>5, <2>6
      DEF Message, TypeOK, SenderType, WireType, ReceiverType, StoreType, EnvType, recvVars, storeVars
<1>2. CASE Pump
  <2>1. PICK D \in SUBSET held : FlushHeld(D, link["A"]) BY <1>2 DEF Pump
  <2>2. D \in SUBSET Msgs BY DEF TypeOK, SenderType
  <2>3. SenderType' /\ upA' \in Seq(Msgs) /\ trouble' \in Nat BY <2>1, <2>2, FlushTyped
  <2> QED BY <1>2, <2>3
      DEF Pump, TypeOK, WireType, ReceiverType, StoreType, EnvType, recvVars, storeVars
<1>3. CASE SenderFrame
  <2> DEFINE f == Head(downA)
  <2>1. f \in Notices \cup Acked /\ downA' \in Seq(Notices \cup Acked)
    BY <1>3, SeqHeadTail DEF SenderFrame, TypeOK, WireType
  <2>2. /\ f.id \in Msgs
        /\ f.kind = "acked" => f.code \in Codes \cup {"UNOPENABLE"}
    BY <2>1 DEF Notices, Acked
  <2>3. Outcome(f) BY <1>3 DEF SenderFrame
  <2> HIDE DEF f
  <2>4. SenderType' /\ trouble' \in Nat
    <3>1. "EXPIRED" \in Codes BY DEF Codes
    <3>2. f.kind = "acked" /\ f.code # "UNOPENABLE" => f.code \in Codes BY <2>2
    <3>3. trouble \in Nat /\ SenderType BY DEF TypeOK, EnvType
    <3>4. stamps' \in {stamps, MarkRelayed(f.id), MarkDelivered(f.id), MarkRefused({f.id})}
      BY <2>3 DEF Outcome, senderVars
    <3>5. code' = code \/ \E c \in Codes : code' = RefusedCode({f.id}, c)
      BY <2>3, <3>1, <3>2 DEF Outcome, senderVars
    <3>6. held' \subseteq held BY <2>3 DEF Outcome, senderVars
    <3>7. trouble' = trouble \/ NoteTrouble(TRUE) BY <2>3 DEF Outcome
    <3>8. stamps' \in [Msgs -> SUBSET Stamps] BY <2>2, <3>3, <3>4, StampsTyped DEF SenderType
    <3>9. code' \in [Msgs -> Codes] BY <3>3, <3>5, StampsTyped DEF SenderType
    <3>10. trouble' \in Nat BY <3>3, <3>7, TroubleTyped
    <3> QED BY <3>3, <3>6, <3>8, <3>9, <3>10 DEF SenderType
  <2> QED BY <1>3, <2>1, <2>4
      DEF SenderFrame, TypeOK, WireType, ReceiverType, StoreType, EnvType, recvVars, storeVars
<1>4. CASE ConnectA
  <2>1. SenderType' /\ upA' \in Seq(Msgs) /\ trouble' \in Nat
    BY <1>4, FlushTyped DEF ConnectA, TypeOK, SenderType
  <2>2. link' \in [Peers -> BOOLEAN] BY <1>4 DEF ConnectA, TypeOK, WireType
  <2> QED BY <1>4, <2>1, <2>2
      DEF ConnectA, TypeOK, WireType, ReceiverType, StoreType, EnvType, recvVars, storeVars
<1> QED BY <1>1, <1>2, <1>3, <1>4 DEF SenderNext

(* Frames for a peer are of its kind whether or not it is connected.        *)
LEMMA ToTyped ==
  ASSUME WireType
  PROVE  /\ \A r \in Seq(Notices \cup Acked) : ToA(r) \in Seq(Notices \cup Acked)
         /\ \A r \in Seq(Msgs) : ToB(r) \in Seq(Msgs)
  BY SeqConcat DEF ToA, ToB, WireType

LEMMA HandOverTyped ==
  ASSUME WireType, NEW out \in Seq(Msgs), HandOver(out)
  PROVE  downB' \in Seq(Msgs) /\ downA' \in Seq(Notices \cup Acked)
<1>1. downB' \in Seq(Msgs) BY SeqConcat DEF HandOver, WireType
<1>2. PICK r \in Receipts(out) : downA' = ToA(r) BY DEF HandOver
<1>3. r \in Seq(Notices \cup Acked) BY ReceiptsAreNotices, SeqWider
<1> QED BY <1>1, <1>2, <1>3, ToTyped

LEMMA RelayStepsTyped ==
  ASSUME TypeOK, RelayNext
  PROVE  TypeOK'
<1>1. CASE RelaySend
  <2> DEFINE m == Head(upA)
  <2>1. m \in Msgs /\ upA' \in Seq(Msgs) BY <1>1, SeqHeadTail DEF RelaySend, TypeOK, WireType
  <2>2. queue' \in Seq(Msgs)
    <3>1. queue' = queue \/ queue' = Append(queue, m) BY <1>1 DEF RelaySend
    <3> QED BY <2>1, <3>1, SeqAppend DEF TypeOK, WireType
  <2>3. downB' \in Seq(Msgs)
    <3>1. downB' = downB \/ downB' = ToB(<<m>>) BY <1>1 DEF RelaySend
    <3>2. <<m>> \in Seq(Msgs) BY <2>1
    <3> QED BY <3>1, <3>2, ToTyped DEF TypeOK, WireType
  <2>4. downA' \in Seq(Notices \cup Acked)
    <3>1. downA' = downA \/ \E r \in Receipts(<<m>>) : downA' = ToA(r) BY <1>1 DEF RelaySend
    <3>2. \A r \in Receipts(<<m>>) : r \in Seq(Notices \cup Acked) BY ReceiptsAreNotices, SeqWider
    <3> QED BY <3>1, <3>2, ToTyped DEF TypeOK, WireType
  <2>5. trouble' \in Nat
    <3>1. trouble' = trouble \/ NoteTrouble(TRUE) BY <1>1 DEF RelaySend
    <3> QED BY <3>1, TroubleTyped DEF TypeOK, EnvType
  <2> QED BY <1>1, <2>1, <2>2, <2>3, <2>4, <2>5
      DEF RelaySend, TypeOK, SenderType, WireType, ReceiverType, StoreType, EnvType,
          senderVars, recvVars, storeVars
<1>2. CASE RelayAck
  <2> DEFINE a == Head(upB)
  <2>1. a \in Acks /\ upB' \in Seq(Acks \cup {Drain})
    BY <1>2, SeqHeadTail DEF RelayAck, TypeOK, WireType
  <2>2. queue' \in Seq(Msgs)
    <3>1. queue' = queue \/ queue' \in Kept(queue, Msgs \ {a.id}) BY <1>2 DEF RelayAck
    <3> QED BY <3>1, KeptAreSeqs, SeqWider DEF TypeOK, WireType
  <2>3. downA' \in Seq(Notices \cup Acked)
    <3>1. [a EXCEPT !.kind = "acked"] \in Acked BY <2>1 DEF Acks, Acked
    <3>2. <<[a EXCEPT !.kind = "acked"]>> \in Seq(Notices \cup Acked) BY <3>1
    <3>3. downA' = downA \/ downA' = ToA(<<[a EXCEPT !.kind = "acked"]>>) BY <1>2 DEF RelayAck
    <3> QED BY <3>2, <3>3, ToTyped DEF TypeOK, WireType
  <2> QED BY <1>2, <2>1, <2>2, <2>3
      DEF RelayAck, TypeOK, SenderType, WireType, ReceiverType, StoreType, EnvType,
          senderVars, recvVars, storeVars, envVars
<1>3. CASE RelayDrain
  <2>0. PICK K \in SUBSET Msgs : \E out \in Kept(queue, K) : HandOver(out) BY <1>3 DEF RelayDrain
  <2>1. PICK out \in Kept(queue, K) : HandOver(out) BY <2>0
  <2>2. out \in Seq(Msgs) BY KeptAreSeqs, SeqWider
  <2>3. downB' \in Seq(Msgs) /\ downA' \in Seq(Notices \cup Acked)
    BY <2>1, <2>2, HandOverTyped DEF TypeOK
  <2>4. upB' \in Seq(Acks \cup {Drain}) BY <1>3, SeqHeadTail DEF RelayDrain, TypeOK, WireType
  <2> QED BY <1>3, <2>3, <2>4
      DEF RelayDrain, TypeOK, SenderType, WireType, ReceiverType, StoreType, EnvType,
          senderVars, recvVars, storeVars, envVars
<1>4. CASE RelaySweep
  <2>1. PICK live \in Kept(queue, {m \in Msgs : age[m] = 0}),
             dead \in Kept(queue, {m \in Msgs : age[m] > 0}),
             K \in SUBSET Msgs :
          \E again \in Kept(live, K) :
            /\ queue' = live
            /\ downB' = downB \o again
            /\ \E r \in Receipts(again) :
                 downA' = ToA([i \in 1..Len(dead) |-> [kind |-> "expired", id |-> dead[i]]] \o r)
    BY <1>4 DEF RelaySweep
  <2>0. PICK again \in Kept(live, K) :
          /\ queue' = live
          /\ downB' = downB \o again
          /\ \E r \in Receipts(again) :
               downA' = ToA([i \in 1..Len(dead) |-> [kind |-> "expired", id |-> dead[i]]] \o r)
    BY <2>1
  <2>2. PICK r \in Receipts(again) :
          downA' = ToA([i \in 1..Len(dead) |-> [kind |-> "expired", id |-> dead[i]]] \o r)
    BY <2>0
  <2>3. live \in Seq(Msgs) /\ dead \in Seq(Msgs) /\ again \in Seq(Msgs) BY KeptAreSeqs, SeqWider
  <2>4. r \in Seq(Notices \cup Acked) BY ReceiptsAreNotices, SeqWider
  <2>5. [i \in 1..Len(dead) |-> [kind |-> "expired", id |-> dead[i]]] \in Seq(Notices \cup Acked)
    BY <2>3 DEF Notices
  <2>6. downA' \in Seq(Notices \cup Acked) BY <2>2, <2>4, <2>5, SeqConcat, ToTyped DEF TypeOK
  <2>7. downB' \in Seq(Msgs) BY <2>0, <2>3, SeqConcat DEF TypeOK, WireType
  <2> QED BY <1>4, <2>0, <2>3, <2>6, <2>7
      DEF RelaySweep, TypeOK, SenderType, WireType, ReceiverType, StoreType, EnvType,
          senderVars, recvVars, storeVars, envVars
<1> QED BY <1>1, <1>2, <1>3, <1>4 DEF RelayNext

LEMMA ReceiverStepsTyped ==
  ASSUME TypeOK, ReceiverNext
  PROVE  TypeOK'
<1>0. ReceiverType /\ WireType /\ StoreType /\ EnvType BY DEF TypeOK
<1>1. CASE ConnectB
  <2>0. PICK K \in SUBSET Msgs : \E out \in Kept(queue, K) : HandOver(out) BY <1>1 DEF ConnectB
  <2>1. PICK out \in Kept(queue, K) : HandOver(out) BY <2>0
  <2>2. out \in Seq(Msgs) BY KeptAreSeqs, SeqWider
  <2>3. downB' \in Seq(Msgs) /\ downA' \in Seq(Notices \cup Acked)
    BY <2>1, <2>2, HandOverTyped DEF TypeOK
  <2>4. link' \in [Peers -> BOOLEAN] BY <1>0, <1>1 DEF ConnectB, WireType
  <2>5. <<Drain>> \in Seq(Acks \cup {Drain}) OBVIOUS
  <2>6. upB' = <<Drain>> BY <1>1 DEF ConnectB
  <2> QED BY <1>1, <2>3, <2>4, <2>5, <2>6
      DEF ConnectB, TypeOK, SenderType, WireType, ReceiverType, StoreType, EnvType,
          senderVars, recvVars, storeVars, envVars
<1>2. CASE EnqueueDeliver
  <2>1. Head(downB) \in Msgs /\ downB' \in Seq(Msgs)
    BY <1>0, <1>2, SeqHeadTail DEF EnqueueDeliver, WireType
  <2>2. chain' \in Seq(Msgs) /\ (chain # <<>> => chain' # <<>>)
    <3>1. chain' = chain \/ chain' = Append(chain, Head(downB)) BY <1>2 DEF EnqueueDeliver
    <3>2. Append(chain, Head(downB)) # <<>> BY <1>0, <2>1, AppendProperties DEF ReceiverType
    <3> QED BY <1>0, <2>1, <3>1, <3>2, SeqAppend DEF ReceiverType
  <2>3. drainTimer' \in BOOLEAN BY <1>0, <1>2 DEF EnqueueDeliver, ReceiverType
  <2> QED BY <1>2, <2>1, <2>2, <2>3
      DEF EnqueueDeliver, TypeOK, SenderType, WireType, ReceiverType, StoreType, EnvType,
          senderVars, storeVars, envVars
<1>3. CASE ProcessDeliver
  <2>1. chain # <<>> /\ Head(chain) \in Msgs
    BY <1>0, <1>3, SeqHeadTail DEF ProcessDeliver, ReceiverType
  <2>2. seen[Head(chain)] \in {"none", "applied", "refused"} BY <1>0, <2>1 DEF StoreType
  <2>3. {"UNKNOWN_SENDER", "HOST", "none", "STALE"} \subseteq Codes BY DEF Codes
  <2>4. ReceiverType'
    <3>1. CASE Defer BY <1>0, <2>1, <3>1, DeferTyped
    <3>2. ASSUME NEW c \in Codes \cup {"UNOPENABLE"}, NEW o \in {"applied", "refused"},
                 AckWith(Head(chain), o, c)
          PROVE  ReceiverType'
      BY <1>0, <2>1, <3>2, AckTyped
    <3>3. CASE seen[Head(chain)] # "none"
               /\ AckWith(Head(chain), seen[Head(chain)],
                          IF seen[Head(chain)] = "refused" THEN "HOST" ELSE "none")
      BY <2>2, <2>3, <3>2, <3>3
    <3>4. CASE stage' = "inbound" /\ UNCHANGED <<chain, acks, drainWanted, drainTimer>>
      BY <1>0, <2>1, <3>4 DEF ReceiverType, Stages
    <3> QED BY <1>3, <2>3, <3>1, <3>2, <3>3, <3>4 DEF ProcessDeliver
  <2>5. trouble' \in Nat
    <3>1. trouble' = trouble \/ NoteTrouble(TRUE) BY <1>3 DEF ProcessDeliver
    <3> QED BY <1>0, <3>1, TroubleTyped DEF EnvType
  <2> QED BY <1>3, <2>4, <2>5
      DEF ProcessDeliver, TypeOK, SenderType, WireType, StoreType, EnvType,
          senderVars, wireVars, storeVars
<1>4. CASE HandleInbound
  <2>1. chain # <<>> /\ Head(chain) \in Msgs
    BY <1>0, <1>4, SeqHeadTail DEF HandleInbound, ReceiverType
  <2>2. ReceiverType'
    <3>1. CASE Defer BY <1>0, <2>1, <3>1, DeferTyped
    <3>2. CASE stage' \in {"applied", "refused"} /\ UNCHANGED <<chain, acks, drainWanted, drainTimer>>
      BY <1>0, <2>1, <3>2 DEF ReceiverType, Stages
    <3> QED BY <1>4, <3>1, <3>2 DEF HandleInbound
  <2>3. inbox' \in Seq(Msgs)
    <3>1. inbox' = inbox \/ inbox' = Append(inbox, Head(chain)) BY <1>4 DEF HandleInbound
    <3> QED BY <1>0, <2>1, <3>1, SeqAppend DEF StoreType
  <2>4. trouble' \in Nat
    <3>1. trouble' = trouble \/ NoteTrouble(TRUE) BY <1>4 DEF HandleInbound
    <3> QED BY <1>0, <3>1, TroubleTyped DEF EnvType
  <2> QED BY <1>4, <2>2, <2>3, <2>4
      DEF HandleInbound, TypeOK, SenderType, WireType, StoreType, EnvType, senderVars, wireVars
<1>5. CASE RecordVerdict
  <2>1. chain # <<>> /\ Head(chain) \in Msgs /\ stage \in {"applied", "refused"}
    BY <1>0, <1>5, SeqHeadTail DEF RecordVerdict, ReceiverType
  <2>2. ReceiverType'
    <3>1. CASE Defer BY <1>0, <2>1, <3>1, DeferTyped
    <3>2. CASE AckWith(Head(chain), stage, IF stage = "refused" THEN "HOST" ELSE "none")
      <4>1. (IF stage = "refused" THEN "HOST" ELSE "none") \in Codes \cup {"UNOPENABLE"} BY DEF Codes
      <4> QED BY <1>0, <2>1, <3>2, <4>1, AckTyped
    <3> QED BY <1>5, <3>1, <3>2 DEF RecordVerdict
  <2>3. seen' \in [Msgs -> {"none", "applied", "refused"}]
    <3>1. Recorded \in [Msgs -> {"none", "applied", "refused"}]
      BY <1>0, <2>1 DEF Recorded, StoreType
    <3> QED BY <1>5, <3>1 DEF RecordVerdict
  <2>4. trouble' \in Nat
    <3>1. trouble' = trouble \/ NoteTrouble(TRUE) BY <1>5 DEF RecordVerdict
    <3> QED BY <1>0, <3>1, TroubleTyped DEF EnvType
  <2> QED BY <1>5, <2>2, <2>3, <2>4
      DEF RecordVerdict, TypeOK, SenderType, WireType, StoreType, EnvType, senderVars, wireVars
<1>6. CASE FlushAcks
  <2>1. PICK n \in 1..Len(acks) : /\ upB' = upB \o SubSeq(acks, 1, n)
                                  /\ acks' = SubSeq(acks, n + 1, Len(acks))
    BY <1>6 DEF FlushAcks
  <2>2. acks' \in Seq(Acks) /\ SubSeq(acks, 1, n) \in Seq(Acks) BY <1>0, <2>1, SeqPart DEF ReceiverType
  <2>3. upB' \in Seq(Acks \cup {Drain})
    <3>1. SubSeq(acks, 1, n) \in Seq(Acks \cup {Drain}) BY <2>2, SeqWider
    <3> QED BY <1>0, <2>1, <3>1, SeqConcat DEF WireType
  <2> QED BY <1>6, <2>2, <2>3
      DEF FlushAcks, TypeOK, SenderType, WireType, ReceiverType, StoreType, EnvType,
          senderVars, storeVars, envVars
<1>7. CASE SendDrain
  <2>1. upB' \in Seq(Acks \cup {Drain})
    <3>1. upB' = upB \/ upB' = Append(upB, Drain) BY <1>7 DEF SendDrain
    <3> QED BY <1>0, <3>1, SeqAppend DEF WireType
  <2> QED BY <1>7, <2>1
      DEF SendDrain, TypeOK, SenderType, WireType, ReceiverType, StoreType, EnvType,
          senderVars, storeVars, envVars
<1> QED BY <1>1, <1>2, <1>3, <1>4, <1>5, <1>6, <1>7 DEF ReceiverNext

LEMMA FailureStepsTyped ==
  ASSUME TypeOK, Failure
  PROVE  TypeOK'
<1>0. SenderType /\ WireType /\ ReceiverType /\ EnvType BY DEF TypeOK
<1>1. CASE DropA
  BY <1>0, <1>1, CutsTyped
     DEF DropA, TypeOK, SenderType, ReceiverType, StoreType, EnvType, senderVars, recvVars, storeVars
<1>2. CASE DropB
  BY <1>0, <1>2, CutsTyped
     DEF DropB, TypeOK, SenderType, ReceiverType, StoreType, EnvType, senderVars, recvVars, storeVars
<1>3. CASE RelayRestart
  <2>1. WireType' BY <1>3, SeqEmpty DEF RelayRestart, WireType
  <2> QED BY <1>3, <2>1
      DEF RelayRestart, TypeOK, SenderType, ReceiverType, StoreType, EnvType,
          senderVars, recvVars, storeVars
<1>4. ASSUME NEW m \in Msgs, CrashInMessage(m) PROVE TypeOK'
  <2>1. PICK out \in {{}, Evicted} : /\ stamps' = [MarkRefused(out) EXCEPT ![m] = {"logged"}]
                                     /\ code' = RefusedCode(out, "OUTBOX_FULL")
    BY <1>4 DEF CrashInMessage
  <2>2. stamps' \in [Msgs -> SUBSET Stamps]
    <3>1. MarkRefused(out) \in [Msgs -> SUBSET Stamps] BY <1>0, StampsTyped
    <3>2. {"logged"} \in SUBSET Stamps BY DEF Stamps
    <3> QED BY <2>1, <3>1, <3>2
  <2>3. code' \in [Msgs -> Codes]
    <3>1. "OUTBOX_FULL" \in Codes BY DEF Codes
    <3> QED BY <1>0, <2>1, <3>1, StampsTyped
  <2>4. WireType' BY <1>0, <1>4, CutsTyped DEF CrashInMessage
  <2>5. EnvType' BY <1>0, <1>4 DEF CrashInMessage, NoteCrash, EnvType
  <2> QED BY <1>4, <2>2, <2>3, <2>4, <2>5
      DEF CrashInMessage, TypeOK, SenderType, ReceiverType, StoreType, recvVars, storeVars
<1>5. CASE CrashInSettle
  <2> DEFINE f == Head(downA)
             refusal == IF f.kind = "expired" THEN "EXPIRED" ELSE f.code
  <2>1. f \in Notices \cup Acked BY <1>0, <1>5, SeqHeadTail DEF CrashInSettle, WireType
  <2>2. /\ f.id \in Msgs
        /\ f.kind = "acked" => f.code \in Codes \cup {"UNOPENABLE"}
    BY <2>1 DEF Notices, Acked
  <2>3. \/ stamps' = MarkDelivered(f.id) /\ code' = code
        \/ /\ f.kind = "acked" => f.code # "UNOPENABLE"
           /\ stamps' = MarkRefused({f.id})
           /\ code' = RefusedCode({f.id}, refusal)
    BY <1>5 DEF CrashInSettle
  <2>4. f.kind \in {"acked", "expired"} BY <1>5 DEF CrashInSettle
  <2> HIDE DEF f
  <2>5. (f.kind = "acked" => f.code # "UNOPENABLE") => refusal \in Codes
    BY <2>2, <2>4 DEF Codes
  <2> HIDE DEF refusal
  <2>6. SenderType'
    <3>1. stamps' \in [Msgs -> SUBSET Stamps] BY <1>0, <2>2, <2>3, StampsTyped
    <3>2. code' \in [Msgs -> Codes] BY <1>0, <2>3, <2>5, StampsTyped DEF SenderType
    <3> QED BY <1>0, <1>5, <3>1, <3>2 DEF SenderType, CrashInSettle
  <2>7. WireType' BY <1>0, <1>5, CutsTyped DEF CrashInSettle
  <2>8. EnvType' BY <1>0, <1>5 DEF CrashInSettle, NoteCrash, EnvType
  <2> QED BY <1>5, <2>6, <2>7, <2>8
      DEF CrashInSettle, TypeOK, ReceiverType, StoreType, recvVars, storeVars
<1>6. CASE CrashInFlush
  <2>1. "EXPIRED" \in Codes BY DEF Codes
  <2>2. SenderType' BY <1>0, <1>6, <2>1, StampsTyped DEF CrashInFlush, SenderType
  <2>3. WireType' BY <1>0, <1>6, CutsTyped DEF CrashInFlush
  <2>4. EnvType' BY <1>0, <1>6 DEF CrashInFlush, NoteCrash, EnvType
  <2> QED BY <1>6, <2>2, <2>3, <2>4
      DEF CrashInFlush, TypeOK, ReceiverType, StoreType, recvVars, storeVars
<1>7. CASE CrashB
  <2>1. WireType' BY <1>0, <1>7, CutsTyped DEF CrashB
  <2>2. ReceiverType' BY <1>7, SeqEmpty DEF CrashB, ReceiverType, Stages
  <2>3. stage = "applied" => Head(chain) \in Msgs BY <1>0, SeqHeadTail DEF ReceiverType
  <2>4. EnvType' BY <1>0, <1>7, <2>3 DEF CrashB, NoteCrash, EnvType
  <2> QED BY <1>7, <2>1, <2>2, <2>4 DEF CrashB, TypeOK, SenderType, StoreType, senderVars, storeVars
<1>8. ASSUME NEW m \in Msgs, Age(m) PROVE TypeOK'
  <2>1. age[m] \in 0..2 /\ age[m] < MaxAge /\ MaxAge \in 0..2
    BY <1>0, <1>8, BusAssumption DEF Age, EnvType
  <2>2. age' = [age EXCEPT ![m] = @ + 1] BY <1>8 DEF Age
  <2>3. age' \in [Msgs -> 0..2] BY <1>0, <2>1, <2>2 DEF EnvType
  <2> QED BY <1>8, <2>3
      DEF Age, TypeOK, SenderType, WireType, ReceiverType, StoreType, EnvType,
          senderVars, wireVars, recvVars, storeVars
<1> QED BY <1>1, <1>2, <1>3, <1>4, <1>5, <1>6, <1>7, <1>8 DEF Failure

LEMMA TypeStep == TypeOK /\ [Next]_vars => TypeOK'
<1>1. ASSUME TypeOK, Next PROVE TypeOK'
  BY <1>1, SenderStepsTyped, RelayStepsTyped, ReceiverStepsTyped, FailureStepsTyped DEF Next
<1>2. ASSUME TypeOK, UNCHANGED vars PROVE TypeOK'
  BY <1>2 DEF vars, TypeOK, SenderType, WireType, ReceiverType, StoreType, EnvType,
              senderVars, wireVars, recvVars, storeVars, envVars
<1> QED BY <1>1, <1>2

LEMMA InitTyped == Init => TypeOK
<1> SUFFICES ASSUME Init PROVE TypeOK OBVIOUS
<1>1. SenderType BY DEF Init, SenderType, Codes
<1>2. WireType BY SeqEmpty DEF Init, WireType
<1>3. ReceiverType BY SeqEmpty DEF Init, ReceiverType, Stages
<1>4. StoreType BY SeqEmpty DEF Init, StoreType
<1>5. EnvType BY DEF Init, EnvType
<1> QED BY <1>1, <1>2, <1>3, <1>4, <1>5 DEF TypeOK

(* The types hold for any number of messages, limits and failures; in       *)
(* particular the inbound chain and its stage never come apart.             *)
THEOREM TypeCorrect == Spec => []TypeOK
  BY InitTyped, TypeStep, PTL DEF Spec
=============================================================================
