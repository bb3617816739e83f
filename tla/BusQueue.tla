------------------------------- MODULE BusQueue -------------------------------
(***************************************************************************)
(* The relay's in-memory queue of sealed session-bus blobs                 *)
(* (relay/src/bus-queue.ts).  An entry is held for its recipient until the *)
(* recipient acks it, its time to live runs out, or the device or account  *)
(* is purged.  The queue keeps the same entries in two indexes (a list per *)
(* recipient and a map by key) and keeps running tallies per recipient,    *)
(* per sender and in total; admission reads the tallies only.              *)
(***************************************************************************)
EXTENDS Integers, Sequences, FiniteSets, Selection

CONSTANTS
  Uid,             \* accounts
  Device,          \* device ids (unique per account, not globally)
  Id,              \* message ids
  Conn,            \* connection ids of live agent sockets
  EntryBytes,      \* blob sizes a sender may produce
  Ttl,             \* requested times to live
  MaxMessagesPerRecipient, MaxBytesPerRecipient,
  MaxMessagesPerSender, MaxBytesPerSender, MaxBytesTotal,
  MaxTtl,
  RedeliverAfter,  \* BUS_REDELIVER_AFTER_MS
  MaxTime          \* bound: the clock stops here

NoConn == "none"   \* deliveredConn === null

ASSUME LimitsAssumption ==
  /\ EntryBytes \subseteq Nat
  /\ Ttl \subseteq Nat
  /\ \A n \in {MaxMessagesPerRecipient, MaxBytesPerRecipient, MaxMessagesPerSender,
               MaxBytesPerSender, MaxBytesTotal, MaxTtl, RedeliverAfter, MaxTime} : n \in Nat
  /\ NoConn \notin Conn

Box == Uid \X Device                     \* recipientKey / senderKey
Key == [uid : Uid, from : Device, to : Device, id : Id]
RKey(k) == <<k.uid, k.to>>
SKey(k) == <<k.uid, k.from>>

Entry == [bytes : EntryBytes, expiresAt : Nat, 
          deliveredConn : Conn \cup {NoConn}, deliveredAt : Nat]
Tally == [count : Nat, bytes : Nat]
NoTally == [count |-> 0, bytes |-> 0]    \* a key the tally map does not hold

VARIABLES
  byKey,           \* key -> entry, defined on the keys held
  byRecipient,     \* recipient -> sequence of the keys of its entries, oldest first
  recipientTally, senderTally, totalBytes,
  now

vars == <<byKey, byRecipient, recipientTally, senderTally, totalBytes, now>>
-----------------------------------------------------------------------------
(* bump: a tally whose count falls to zero is deleted, whatever its bytes.  *)
BumpedEarly(t, count, bytes) ==        \* the slip: deleted at one
  IF t.count + count <= 1 THEN NoTally ELSE [count |-> t.count + count, bytes |-> t.bytes + bytes]
Bumped(t, count, bytes) ==
  IF t.count + count <= 0 THEN NoTally ELSE [count |-> t.count + count, bytes |-> t.bytes + bytes]

Held == DOMAIN byKey

(* The bytes of the entries of K in the map f, one element for each byte.   *)
BytesOf(f, K) == UNION {{k} \X (1..f[k].bytes) : k \in K}
Bytes(K) == BytesOf(byKey, K)

(* The entries of K to, and from, one device.                               *)
To(K, b) == {k \in K : RKey(k) = b}
From(K, b) == {k \in K : SKey(k) = b}

Pending(box) == byRecipient[box]

FitsOneMore(k, bytes) ==               \* the slip: the new entry is not counted
  LET r == recipientTally[RKey(k)]
      s == senderTally[SKey(k)]
  IN  /\ r.count <= MaxMessagesPerRecipient /\ r.bytes <= MaxBytesPerRecipient
      /\ s.count <= MaxMessagesPerSender /\ s.bytes <= MaxBytesPerSender
      /\ totalBytes <= MaxBytesTotal
Fits(k, bytes) ==
  LET r == recipientTally[RKey(k)]
      s == senderTally[SKey(k)]
  IN  /\ r.count + 1 <= MaxMessagesPerRecipient
      /\ r.bytes + bytes <= MaxBytesPerRecipient
      /\ s.count + 1 <= MaxMessagesPerSender
      /\ s.bytes + bytes <= MaxBytesPerSender
      /\ totalBytes + bytes <= MaxBytesTotal

(* The entry as enqueue makes it.  deliveredAt === null goes with           *)
(* deliveredConn === null, so its value there is immaterial.                *)
NewEntryUncapped(bytes, ttl) ==        \* the slip: the requested ttl is trusted
  [bytes |-> bytes, expiresAt |-> now + ttl, deliveredConn |-> NoConn, deliveredAt |-> 0]
NewEntry(bytes, ttl) ==
  [bytes |-> bytes, expiresAt |-> now + (IF ttl <= MaxTtl THEN ttl ELSE MaxTtl),
   deliveredConn |-> NoConn, deliveredAt |-> 0]

(* Due again: never handed over, handed over on another socket, or a while  *)
(* ago.                                                                     *)
Redeliverable(k, conn) ==
  \/ byKey[k].deliveredConn # conn
  \/ now - byKey[k].deliveredAt >= RedeliverAfter

(* remove, for every entry of K: out of both indexes and off the tallies.   *)
Remove(K) ==
  LET gone == K \cap Held
  IN  /\ byKey' = [k \in Held \ K |-> byKey[k]]
      /\ byRecipient' = [b \in Box |-> Only(byRecipient[b], Key \ K)]
      /\ recipientTally' = [b \in Box |->
           Bumped(recipientTally[b], -Cardinality(To(gone, b)), -Cardinality(Bytes(To(gone, b))))]
      /\ senderTally' = [b \in Box |->
           Bumped(senderTally[b], -Cardinality(From(gone, b)), -Cardinality(Bytes(From(gone, b))))]
      /\ totalBytes' = totalBytes - Cardinality(Bytes(gone))
      /\ UNCHANGED now
-----------------------------------------------------------------------------
Init ==
  /\ byKey = [k \in {} |-> NewEntry(0, 0)]
  /\ byRecipient = [b \in Box |-> <<>>]
  /\ recipientTally = [b \in Box |-> NoTally]
  /\ senderTally = [b \in Box |-> NoTally]
  /\ totalBytes = 0
  /\ now = 0

(* The second half of enqueue: admit or refuse, and count.                  *)
Queued(k, bytes, ttl, list, total) ==
  /\ Fits(k, bytes)
  /\ byKey' = [x \in Held \cup {k} |-> IF x = k THEN NewEntry(bytes, ttl) ELSE byKey[x]]
  /\ byRecipient' = [byRecipient EXCEPT ![RKey(k)] = list]
  /\ recipientTally' = [recipientTally EXCEPT ![RKey(k)] = Bumped(@, 1, bytes)]
  /\ senderTally' = [senderTally EXCEPT ![SKey(k)] = Bumped(@, 1, bytes)]
  /\ totalBytes' = total
  /\ UNCHANGED now

(* The slips: a resend is queued again; new mail jumps the queue; the total *)
(* is not kept.                                                             *)
EnqueueAgain(k, bytes, ttl) ==
  k.from # k.to /\ Queued(k, bytes, ttl, Append(Pending(RKey(k)), k), totalBytes + bytes)
EnqueueFirst(k, bytes, ttl) ==
  /\ k.from # k.to /\ k \notin Held
  /\ Queued(k, bytes, ttl, <<k>> \o Pending(RKey(k)), totalBytes + bytes)
EnqueueUntotalled(k, bytes, ttl) ==
  /\ k.from # k.to /\ k \notin Held
  /\ Queued(k, bytes, ttl, Append(Pending(RKey(k)), k), totalBytes)

(* enqueue: a duplicate and a refusal change nothing.  The bus:send handler *)
(* turns away mail to oneself first.                                        *)
Enqueue(k, bytes, ttl) ==
  /\ k.from # k.to
  /\ k \notin Held
  /\ Queued(k, bytes, ttl, Append(Pending(RKey(k)), k), totalBytes + bytes)

MarkDelivered(k, conn) ==
  /\ byKey' = [byKey EXCEPT ![k].deliveredConn = conn, ![k].deliveredAt = now]
  /\ UNCHANGED <<byRecipient, recipientTally, senderTally, totalBytes, now>>

(* hello and bus:drain hand over every pending entry the budget allows;     *)
(* a resend and the sweep hand over only what is redeliverable.             *)
HandOver(box, conn) ==
  \E i \in DOMAIN Pending(box) : Pending(box)[i] \in Held /\ MarkDelivered(Pending(box)[i], conn)
Redeliver(k, conn) ==
  k \in Held /\ Redeliverable(k, conn) /\ MarkDelivered(k, conn)

(* ack: the acker's first entry with that id.                               *)
Ack(box, id) ==
  \E i \in DOMAIN Pending(box) :
    /\ Pending(box)[i].id = id
    /\ \A j \in 1..(i - 1) : Pending(box)[j].id # id
    /\ Remove({Pending(box)[i]})

Sweep == Remove({k \in Held : byKey[k].expiresAt <= now})

(* Without an account the device id is purged from every account.           *)
PurgeDevice(us, d) == Remove({k \in Held : k.uid \in us /\ d \in {k.to, k.from}})
PurgeUser(u) == Remove({k \in Held : k.uid = u})

Clear ==
  /\ byKey' = [k \in {} |-> NewEntry(0, 0)]
  /\ byRecipient' = [b \in Box |-> <<>>]
  /\ recipientTally' = [b \in Box |-> NoTally]
  /\ senderTally' = [b \in Box |-> NoTally]
  /\ totalBytes' = 0
  /\ UNCHANGED now

Tick ==
  /\ now < MaxTime
  /\ now' = now + 1
  /\ UNCHANGED <<byKey, byRecipient, recipientTally, senderTally, totalBytes>>

Next ==
  \/ \E k \in Key, bytes \in EntryBytes, ttl \in Ttl : Enqueue(k, bytes, ttl)
  \/ \E box \in Box, conn \in Conn : HandOver(box, conn)
  \/ \E k \in Key, conn \in Conn : Redeliver(k, conn)
  \/ \E box \in Box, id \in Id : Ack(box, id)
  \/ Sweep
  \/ \E us \in {{u} : u \in Uid} \cup {Uid}, d \in Device : PurgeDevice(us, d)
  \/ \E u \in Uid : PurgeUser(u)
  \/ Clear
  \/ Tick

Spec == Init /\ [][Next]_vars
-----------------------------------------------------------------------------
(* Every index, tally and entry has its type; in particular no tally of     *)
(* bytes or messages, and not the total, ever goes below zero.              *)
TypeOK ==
  /\ Held \subseteq Key
  /\ byKey \in [Held -> Entry]
  /\ byRecipient \in [Box -> Seq(Key)]
  /\ recipientTally \in [Box -> Tally]
  /\ senderTally \in [Box -> Tally]
  /\ totalBytes \in Nat
  /\ now \in Nat

(* The two indexes hold the same mail: a recipient's list has each of its   *)
(* entries exactly once and nothing else, so no entry can be acked that is  *)
(* not held, nor held where hello, drain and sweep never find it.           *)
IndexesAgree ==
  \A b \in Box :
    /\ {byRecipient[b][i] : i \in DOMAIN byRecipient[b]} = To(Held, b)
    /\ \A i, j \in DOMAIN byRecipient[b] : i # j => byRecipient[b][i] # byRecipient[b][j]

(* The running tallies admission reads never drift from what is held,       *)
(* whatever sequence of acks, expiries, purges and clears ran: bump's       *)
(* deletion of a tally at zero never throws bytes away.                     *)
ExactFor(t, K) == t.count = Cardinality(K) /\ t.bytes = Cardinality(Bytes(K))
TalliesExact ==
  /\ \A b \in Box :
       /\ ExactFor(recipientTally[b], To(Held, b))
       /\ ExactFor(senderTally[b], From(Held, b))
  /\ totalBytes = Cardinality(Bytes(Held))

(* What is really held respects every bound: no recipient, no sender and    *)
(* not the process as a whole can pin more than its limit.                  *)
WithinLimits ==
  /\ \A b \in Box :
       /\ Cardinality(To(Held, b)) <= MaxMessagesPerRecipient
       /\ Cardinality(Bytes(To(Held, b))) <= MaxBytesPerRecipient
       /\ Cardinality(From(Held, b)) <= MaxMessagesPerSender
       /\ Cardinality(Bytes(From(Held, b))) <= MaxBytesPerSender
  /\ Cardinality(Bytes(Held)) <= MaxBytesTotal

(* Mail keeps its place: whatever leaves, the rest of a recipient's list    *)
(* stays in the order it arrived and new mail goes behind it (pending:      *)
(* "Oldest first").                                                         *)
ArrivalOrder ==
  [][\A b \in Box : \A i, j \in DOMAIN byRecipient'[b] :
       LET old == byRecipient[b]
           new == byRecipient'[b]
       IN  i < j /\ (\E q \in DOMAIN old : old[q] = new[j]) =>
             \E p, q \in DOMAIN old : p < q /\ old[p] = new[i] /\ old[q] = new[j]]_vars

(* What a step does to expiries: those of held entries stay or shrink.      *)
Unextended ==
  \A k \in DOMAIN byKey' :
    byKey'[k].expiresAt <= IF k \in Held THEN byKey[k].expiresAt ELSE now + MaxTtl
(* No resend and no hand-over keeps an entry alive: its expiry is fixed     *)
(* when it is queued, at most maxTtlMs ahead.                               *)
ExpiryNeverExtended == [][Unextended]_vars
=============================================================================
