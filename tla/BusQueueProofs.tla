--------------------------- MODULE BusQueueProofs ---------------------------
(***************************************************************************)
(* Proofs about the relay's bus queue, for any accounts, devices, ids,     *)
(* sizes and limits: the two indexes hold the same mail in the order it    *)
(* came, the running tallies are exact, and therefore the limits that      *)
(* admission checks on the tallies hold of the contents.                   *)
(***************************************************************************)
EXTENDS BusQueue, SelectionProofs

(* The bytes of a subset and of the rest add up.                            *)
LEMMA BytesSplit ==
  ASSUME NEW f, NEW H, NEW G \in SUBSET H, IsFiniteSet(BytesOf(f, H))
  PROVE  /\ IsFiniteSet(BytesOf(f, G)) /\ IsFiniteSet(BytesOf(f, H \ G))
         /\ Cardinality(BytesOf(f, G)) \in Nat
         /\ Cardinality(BytesOf(f, H \ G)) = Cardinality(BytesOf(f, H)) - Cardinality(BytesOf(f, G))
<1>1. BytesOf(f, G) \subseteq BytesOf(f, H) BY DEF BytesOf
<1>2. BytesOf(f, H \ G) = BytesOf(f, H) \ BytesOf(f, G)
  <2>1. ASSUME NEW c \in BytesOf(f, H \ G) PROVE c \in BytesOf(f, H) \ BytesOf(f, G)
    BY DEF BytesOf
  <2>2. ASSUME NEW c \in BytesOf(f, H), c \notin BytesOf(f, G) PROVE c \in BytesOf(f, H \ G)
    BY <2>2 DEF BytesOf
  <2> QED BY <2>1, <2>2
<1>3. BytesOf(f, H) \cap BytesOf(f, G) = BytesOf(f, G) BY <1>1
<1>4. IsFiniteSet(BytesOf(f, G)) BY <1>1, FS_Subset
<1> QED BY <1>2, <1>3, <1>4, FS_Difference, FS_CardinalityType

(* The bytes of one entry.                                                  *)
LEMMA BytesOfOne ==
  ASSUME NEW k, NEW n \in Nat
  PROVE  IsFiniteSet({k} \X (1..n)) /\ Cardinality({k} \X (1..n)) = n
<1>1. IsFiniteSet({k}) /\ Cardinality({k}) = 1 BY FS_Singleton
<1>2. IsFiniteSet(1..n) /\ Cardinality(1..n) = n
  <2>1. IsFiniteSet(1..n) /\ Cardinality(1..n) = IF 1 > n THEN 0 ELSE n - 1 + 1
    BY FS_Interval
  <2> QED BY <2>1
<1>3. IsFiniteSet({k} \X (1..n)) /\ Cardinality({k} \X (1..n)) = Cardinality({k}) * Cardinality(1..n)
  BY <1>1, <1>2, FS_Product, Zenon
<1> QED BY <1>1, <1>2, <1>3

(* One more entry of n bytes adds n.                                        *)
LEMMA BytesAdd ==
  ASSUME NEW f, NEW g, NEW H, NEW k, k \notin H, NEW n \in Nat, IsFiniteSet(BytesOf(f, H)),
         \A x \in H : g[x].bytes = f[x].bytes, g[k].bytes = n
  PROVE  /\ IsFiniteSet(BytesOf(g, H \cup {k}))
         /\ Cardinality(BytesOf(g, H \cup {k})) = Cardinality(BytesOf(f, H)) + n
<1> DEFINE new == {k} \X (1..n)
           old == BytesOf(f, H)
<1>1. IsFiniteSet(new) /\ Cardinality(new) = n BY BytesOfOne
<1>2. BytesOf(g, H \cup {k}) = old \cup new
  <2>1. BytesOf(g, H) = old BY DEF BytesOf
  <2> QED BY <2>1 DEF BytesOf
<1>3. old \cap new = {} BY DEF BytesOf
<1>4. IsFiniteSet(old) /\ Cardinality(old) \in Nat BY FS_CardinalityType
<1> HIDE DEF new, old
<1>5. /\ IsFiniteSet(old \cup new)
      /\ Cardinality(old \cup new) = Cardinality(old) + Cardinality(new) - Cardinality(old \cap new)
  BY <1>1, <1>4, FS_Union
<1>6. Cardinality(old \cap new) = 0 BY <1>3, FS_EmptySet
<1>7. Cardinality(old \cup new) = Cardinality(old) + n BY <1>1, <1>4, <1>5, <1>6
<1> QED BY <1>2, <1>5, <1>7 DEF old
-----------------------------------------------------------------------------
(* A tally that was exact for H is exact for what is left of H after bump   *)
(* took off the entries G, and it is no larger.                             *)
LEMMA BumpedDown ==
  ASSUME NEW f, NEW H, NEW G \in SUBSET H, IsFiniteSet(H), IsFiniteSet(BytesOf(f, H)),
         NEW t \in Tally, t.count = Cardinality(H), t.bytes = Cardinality(BytesOf(f, H)),
         NEW u, u = Bumped(t, -Cardinality(G), -Cardinality(BytesOf(f, G)))
  PROVE  /\ u \in Tally
         /\ u.count = Cardinality(H \ G)
         /\ u.bytes = Cardinality(BytesOf(f, H \ G))
         /\ u.count <= t.count /\ u.bytes <= t.bytes
<1> DEFINE c == Cardinality(G)
           b == Cardinality(BytesOf(f, G))
           left == Cardinality(H \ G)
           over == Cardinality(BytesOf(f, H \ G))
<1>1. c \in Nat /\ left \in Nat /\ left = t.count - c
  <2>1. IsFiniteSet(G) /\ IsFiniteSet(H \ G) BY FS_Subset
  <2>2. H \cap G = G OBVIOUS
  <2>3. Cardinality(H \ G) = Cardinality(H) - Cardinality(H \cap G) BY FS_Difference
  <2> QED BY <2>1, <2>2, <2>3, FS_CardinalityType
<1>2. b \in Nat /\ over \in Nat /\ over = t.bytes - b
  <2>1. /\ IsFiniteSet(BytesOf(f, H \ G)) /\ b \in Nat
        /\ over = Cardinality(BytesOf(f, H)) - b
    BY BytesSplit
  <2> QED BY <2>1, FS_CardinalityType
<1>3. left = 0 => over = 0
  <2>1. SUFFICES ASSUME left = 0 PROVE over = 0 OBVIOUS
  <2>2. IsFiniteSet(H \ G) BY FS_Subset
  <2>3. H \ G = {} BY <2>1, <2>2, FS_EmptySet
  <2>4. BytesOf(f, H \ G) = {} BY <2>3 DEF BytesOf
  <2> QED BY <2>4, FS_EmptySet
<1>4. t.count \in Nat /\ t.bytes \in Nat BY DEF Tally
<1>5. u = Bumped(t, -c, -b) OBVIOUS
<1> HIDE DEF c, b, left, over
<1>6. /\ u \in Tally /\ u.count = left /\ u.bytes = over
      /\ u.count <= t.count /\ u.bytes <= t.bytes
  <2>1. CASE left = 0
    <3>1. u = NoTally BY <1>1, <1>4, <1>5, <2>1 DEF Bumped
    <3> QED BY <3>1, <1>3, <1>4, <2>1 DEF NoTally, Tally
  <2>2. CASE left # 0
    <3>1. u = [count |-> left, bytes |-> over] BY <1>1, <1>2, <1>4, <1>5, <2>2 DEF Bumped
    <3> QED BY <3>1, <1>1, <1>2, <1>4 DEF Tally
  <2> QED BY <2>1, <2>2
<1> QED BY <1>6 DEF left, over

(* Adding never deletes a tally.                                            *)
LEMMA BumpedUp ==
  ASSUME NEW t \in Tally, NEW n \in Nat
  PROVE  /\ Bumped(t, 1, n) \in Tally
         /\ Bumped(t, 1, n).count = t.count + 1
         /\ Bumped(t, 1, n).bytes = t.bytes + n
  BY DEF Bumped, Tally

-----------------------------------------------------------------------------
(* The inductive invariant: what is held is finite, the tallies are exact,  *)
(* and the tallies respect the limits.                                      *)
Shape ==
  /\ Held \subseteq Key
  /\ byKey \in [Held -> Entry]
  /\ IsFiniteSet(Held) /\ IsFiniteSet(Bytes(Held))
  /\ recipientTally \in [Box -> Tally]
  /\ senderTally \in [Box -> Tally]
  /\ totalBytes \in Nat
  /\ now \in Nat

RecipientBooks ==
  \A b \in Box :
    /\ ExactFor(recipientTally[b], To(Held, b))
    /\ recipientTally[b].count <= MaxMessagesPerRecipient
    /\ recipientTally[b].bytes <= MaxBytesPerRecipient

SenderBooks ==
  \A b \in Box :
    /\ ExactFor(senderTally[b], From(Held, b))
    /\ senderTally[b].count <= MaxMessagesPerSender
    /\ senderTally[b].bytes <= MaxBytesPerSender

TotalBooks == totalBytes = Cardinality(Bytes(Held)) /\ totalBytes <= MaxBytesTotal

Books == Shape /\ RecipientBooks /\ SenderBooks /\ TotalBooks

LEMMA KeyBox == \A k \in Key : RKey(k) \in Box /\ SKey(k) \in Box
  BY DEF Key, RKey, SKey, Box

(* The entries of one device are finite, and so are their bytes.            *)
LEMMA PartsFinite ==
  ASSUME Shape, NEW G \in SUBSET Held
  PROVE  IsFiniteSet(G) /\ IsFiniteSet(Bytes(G))
<1>1. Bytes(G) \subseteq Bytes(Held) BY DEF Bytes, BytesOf
<1> QED BY <1>1, FS_Subset DEF Shape

(* Empty books, before the first message and after clear.                   *)
Empty ==
  /\ DOMAIN byKey = {} /\ byKey \in [{} -> Entry]
  /\ recipientTally = [b \in Box |-> NoTally] /\ senderTally = [b \in Box |-> NoTally]
  /\ totalBytes = 0 /\ now \in Nat

LEMMA EmptyBooks == Empty => Books
<1> SUFFICES ASSUME Empty PROVE Books OBVIOUS
<1> USE DEF Empty
<1>1. Held = {} BY DEF Held
<1>2. \A K : K \subseteq Held => /\ IsFiniteSet(K) /\ Cardinality(K) = 0
                                 /\ IsFiniteSet(Bytes(K)) /\ Cardinality(Bytes(K)) = 0
  BY <1>1, FS_EmptySet DEF Bytes, BytesOf
<1>3. Shape
  <2>1. byKey \in [Held -> Entry] BY <1>1
  <2> QED BY <1>1, <1>2, <2>1 DEF Shape, NoTally, Tally
<1>4. \A b \in Box : To(Held, b) \subseteq Held /\ From(Held, b) \subseteq Held BY DEF To, From
<1>5. RecipientBooks BY <1>2, <1>4, LimitsAssumption DEF RecipientBooks, ExactFor, NoTally
<1>6. SenderBooks BY <1>2, <1>4, LimitsAssumption DEF SenderBooks, ExactFor, NoTally
<1>7. TotalBooks BY <1>2, LimitsAssumption DEF TotalBooks
<1> QED BY <1>3, <1>5, <1>6, <1>7 DEF Books

(* Every way mail leaves goes through remove.                               *)
LEMMA RemoveKeepsBooks ==
  ASSUME Books, NEW K, Remove(K)
  PROVE  Books'
<1> DEFINE gone == K \cap Held
<1> USE DEF Books
<1>1. /\ Held' = Held \ gone /\ gone \subseteq Held
      /\ byKey' = [k \in Held \ gone |-> byKey[k]]
  BY DEF Remove, Held
<1>2. \A G : G \subseteq Held' => BytesOf(byKey', G) = BytesOf(byKey, G)
  BY <1>1 DEF BytesOf
<1>3. IsFiniteSet(Held) /\ IsFiniteSet(Bytes(Held)) BY DEF Shape
<1>4. /\ IsFiniteSet(Bytes(Held \ gone)) /\ Cardinality(Bytes(gone)) \in Nat
      /\ Cardinality(Bytes(Held \ gone)) = Cardinality(Bytes(Held)) - Cardinality(Bytes(gone))
  BY <1>1, <1>3, BytesSplit DEF Bytes
<1>5. ASSUME NEW b \in Box
      PROVE  /\ recipientTally'[b] \in Tally
             /\ recipientTally'[b].count = Cardinality(To(Held', b))
             /\ recipientTally'[b].bytes = Cardinality(BytesOf(byKey', To(Held', b)))
             /\ recipientTally'[b].count <= recipientTally[b].count
             /\ recipientTally'[b].bytes <= recipientTally[b].bytes
  <2>1. To(gone, b) \in SUBSET To(Held, b) /\ To(Held', b) = To(Held, b) \ To(gone, b)
    BY <1>1 DEF To
  <2>2. IsFiniteSet(To(Held, b)) /\ IsFiniteSet(Bytes(To(Held, b))) BY PartsFinite DEF To
  <2>3. recipientTally'[b] = Bumped(recipientTally[b], -Cardinality(To(gone, b)), -Cardinality(Bytes(To(gone, b))))
    BY DEF Remove
  <2>4. /\ recipientTally[b] \in Tally
        /\ recipientTally[b].count = Cardinality(To(Held, b))
        /\ recipientTally[b].bytes = Cardinality(Bytes(To(Held, b)))
    BY DEF Shape, RecipientBooks, ExactFor
  <2>5. BytesOf(byKey', To(Held', b)) = BytesOf(byKey, To(Held', b)) BY <1>1, <1>2 DEF To
  <2> HIDE DEF gone
  <2> QED BY <2>1, <2>2, <2>3, <2>4, <2>5, BumpedDown DEF Bytes
<1>6. ASSUME NEW b \in Box
      PROVE  /\ senderTally'[b] \in Tally
             /\ senderTally'[b].count = Cardinality(From(Held', b))
             /\ senderTally'[b].bytes = Cardinality(BytesOf(byKey', From(Held', b)))
             /\ senderTally'[b].count <= senderTally[b].count
             /\ senderTally'[b].bytes <= senderTally[b].bytes
  <2>1. From(gone, b) \in SUBSET From(Held, b) /\ From(Held', b) = From(Held, b) \ From(gone, b)
    BY <1>1 DEF From
  <2>2. IsFiniteSet(From(Held, b)) /\ IsFiniteSet(Bytes(From(Held, b))) BY PartsFinite DEF From
  <2>3. senderTally'[b] = Bumped(senderTally[b], -Cardinality(From(gone, b)), -Cardinality(Bytes(From(gone, b))))
    BY DEF Remove
  <2>4. /\ senderTally[b] \in Tally
        /\ senderTally[b].count = Cardinality(From(Held, b))
        /\ senderTally[b].bytes = Cardinality(Bytes(From(Held, b)))
    BY DEF Shape, SenderBooks, ExactFor
  <2>5. BytesOf(byKey', From(Held', b)) = BytesOf(byKey, From(Held', b)) BY <1>1, <1>2 DEF From
  <2> HIDE DEF gone
  <2> QED BY <2>1, <2>2, <2>3, <2>4, <2>5, BumpedDown DEF Bytes
<1>7. TotalBooks'
  <2>1. totalBytes' = totalBytes - Cardinality(Bytes(gone)) BY DEF Remove
  <2>2. totalBytes' = Cardinality(Bytes(Held \ gone)) BY <1>4, <2>1 DEF TotalBooks
  <2>3. totalBytes' <= MaxBytesTotal BY <1>4, <2>1, LimitsAssumption DEF TotalBooks, Shape
  <2> QED BY <1>1, <1>2, <2>2, <2>3 DEF TotalBooks, Bytes
<1>8. Shape'
  <2>1. Held' \subseteq Key /\ byKey' \in [Held' -> Entry] BY <1>1 DEF Shape
  <2>2. IsFiniteSet(Held') BY <1>1, <1>3, FS_Subset
  <2>3. IsFiniteSet(Bytes(Held)') BY <1>1, <1>2, <1>4 DEF Bytes
  <2>4. recipientTally' \in [Box -> Tally] BY <1>5 DEF Remove
  <2>5. senderTally' \in [Box -> Tally] BY <1>6 DEF Remove
  <2>6. now' \in Nat BY DEF Remove, Shape
  <2>7. totalBytes' \in Nat BY <1>7, <2>3, FS_CardinalityType DEF TotalBooks
  <2> QED BY <2>1, <2>2, <2>3, <2>4, <2>5, <2>6, <2>7 DEF Shape
<1>9. RecipientBooks'
  BY <1>5, LimitsAssumption DEF RecipientBooks, ExactFor, Bytes, Shape, Tally
<1>10. SenderBooks'
  BY <1>6, LimitsAssumption DEF SenderBooks, ExactFor, Bytes, Shape, Tally
<1> QED BY <1>7, <1>8, <1>9, <1>10

(* A new entry is counted once at its recipient, its sender and in total,   *)
(* and only if all three have room for it.                                  *)
LEMMA EnqueueKeepsBooks ==
  ASSUME Books, NEW k \in Key, NEW bytes \in EntryBytes, NEW ttl \in Ttl, Enqueue(k, bytes, ttl)
  PROVE  Books'
<1> USE DEF Books
<1>1. bytes \in Nat /\ ttl \in Nat BY LimitsAssumption
<1>2. k \notin Held /\ Fits(k, bytes) BY DEF Enqueue, Queued
<1>3. byKey' = [x \in Held \cup {k} |-> IF x = k THEN NewEntry(bytes, ttl) ELSE byKey[x]]
  BY DEF Enqueue, Queued
<1>4. Held' = Held \cup {k} BY <1>3 DEF Held
<1>5. byKey'[k] = NewEntry(bytes, ttl) /\ \A x \in Held : byKey'[x] = byKey[x] BY <1>2, <1>3
<1>6. byKey'[k].bytes = bytes BY <1>5 DEF NewEntry
<1>7. IsFiniteSet(Held) /\ IsFiniteSet(BytesOf(byKey, Held)) BY DEF Shape, Bytes
<1>8. \A G : G \subseteq Held => BytesOf(byKey', G) = BytesOf(byKey, G) BY <1>5 DEF BytesOf
<1>9. /\ IsFiniteSet(BytesOf(byKey', Held'))
      /\ Cardinality(BytesOf(byKey', Held')) = Cardinality(BytesOf(byKey, Held)) + bytes
  BY <1>1, <1>2, <1>4, <1>5, <1>6, <1>7, BytesAdd
<1>10. RKey(k) \in Box /\ SKey(k) \in Box BY KeyBox
<1>11. ASSUME NEW b \in Box
       PROVE  /\ recipientTally'[b] \in Tally
              /\ recipientTally'[b].count = Cardinality(To(Held', b))
              /\ recipientTally'[b].bytes = Cardinality(BytesOf(byKey', To(Held', b)))
              /\ recipientTally'[b].count <= MaxMessagesPerRecipient
              /\ recipientTally'[b].bytes <= MaxBytesPerRecipient
  <2>1. /\ recipientTally[b] \in Tally
        /\ recipientTally[b].count = Cardinality(To(Held, b))
        /\ recipientTally[b].bytes = Cardinality(BytesOf(byKey, To(Held, b)))
        /\ recipientTally[b].count <= MaxMessagesPerRecipient
        /\ recipientTally[b].bytes <= MaxBytesPerRecipient
    BY DEF Shape, RecipientBooks, ExactFor, Bytes
  <2>2. CASE b = RKey(k)
    <3>1. recipientTally'[b] = Bumped(recipientTally[b], 1, bytes)
      BY <1>10, <2>2 DEF Enqueue, Queued, Shape
    <3>2. To(Held', b) = To(Held, b) \cup {k} /\ k \notin To(Held, b) BY <1>2, <1>4, <2>2 DEF To
    <3>3. IsFiniteSet(To(Held, b)) /\ IsFiniteSet(BytesOf(byKey, To(Held, b)))
      BY PartsFinite DEF To, Bytes
    <3>4. \A x \in To(Held, b) : byKey'[x].bytes = byKey[x].bytes BY <1>5 DEF To
    <3>5. Cardinality(To(Held', b)) = recipientTally[b].count + 1
      BY <2>1, <3>2, <3>3, FS_AddElement
    <3>6. Cardinality(BytesOf(byKey', To(Held', b))) = recipientTally[b].bytes + bytes
      BY <1>1, <1>6, <2>1, <3>2, <3>3, <3>4, BytesAdd
    <3> QED BY <1>1, <1>2, <2>1, <2>2, <3>1, <3>5, <3>6, BumpedUp DEF Fits
  <2>3. CASE b # RKey(k)
    <3>1. recipientTally'[b] = recipientTally[b] BY <2>3 DEF Enqueue, Queued, Shape
    <3>2. To(Held', b) = To(Held, b) /\ To(Held, b) \subseteq Held BY <1>4, <2>3 DEF To
    <3> QED BY <1>8, <2>1, <3>1, <3>2
  <2> QED BY <2>2, <2>3
<1>12. ASSUME NEW b \in Box
       PROVE  /\ senderTally'[b] \in Tally
              /\ senderTally'[b].count = Cardinality(From(Held', b))
              /\ senderTally'[b].bytes = Cardinality(BytesOf(byKey', From(Held', b)))
              /\ senderTally'[b].count <= MaxMessagesPerSender
              /\ senderTally'[b].bytes <= MaxBytesPerSender
  <2>1. /\ senderTally[b] \in Tally
        /\ senderTally[b].count = Cardinality(From(Held, b))
        /\ senderTally[b].bytes = Cardinality(BytesOf(byKey, From(Held, b)))
        /\ senderTally[b].count <= MaxMessagesPerSender
        /\ senderTally[b].bytes <= MaxBytesPerSender
    BY DEF Shape, SenderBooks, ExactFor, Bytes
  <2>2. CASE b = SKey(k)
    <3>1. senderTally'[b] = Bumped(senderTally[b], 1, bytes)
      BY <1>10, <2>2 DEF Enqueue, Queued, Shape
    <3>2. From(Held', b) = From(Held, b) \cup {k} /\ k \notin From(Held, b) BY <1>2, <1>4, <2>2 DEF From
    <3>3. IsFiniteSet(From(Held, b)) /\ IsFiniteSet(BytesOf(byKey, From(Held, b)))
      BY PartsFinite DEF From, Bytes
    <3>4. \A x \in From(Held, b) : byKey'[x].bytes = byKey[x].bytes BY <1>5 DEF From
    <3>5. Cardinality(From(Held', b)) = senderTally[b].count + 1
      BY <2>1, <3>2, <3>3, FS_AddElement
    <3>6. Cardinality(BytesOf(byKey', From(Held', b))) = senderTally[b].bytes + bytes
      BY <1>1, <1>6, <2>1, <3>2, <3>3, <3>4, BytesAdd
    <3> QED BY <1>1, <1>2, <2>1, <2>2, <3>1, <3>5, <3>6, BumpedUp DEF Fits
  <2>3. CASE b # SKey(k)
    <3>1. senderTally'[b] = senderTally[b] BY <2>3 DEF Enqueue, Queued, Shape
    <3>2. From(Held', b) = From(Held, b) /\ From(Held, b) \subseteq Held BY <1>4, <2>3 DEF From
    <3> QED BY <1>8, <2>1, <3>1, <3>2
  <2> QED BY <2>2, <2>3
<1>13. TotalBooks'
  <2>1. totalBytes' = totalBytes + bytes BY DEF Enqueue, Queued
  <2> QED BY <1>2, <1>9, <2>1 DEF TotalBooks, Fits, Bytes
<1>14. Shape'
  <2>1. NewEntry(bytes, ttl) \in Entry
    BY <1>1, LimitsAssumption DEF NewEntry, Entry, Shape
  <2>2. Held' \subseteq Key /\ byKey' \in [Held' -> Entry] BY <1>3, <1>4, <2>1 DEF Shape
  <2>3. IsFiniteSet(Held') BY <1>4, <1>7, FS_AddElement
  <2>4. IsFiniteSet(Bytes(Held)') BY <1>9 DEF Bytes
  <2>5. recipientTally' \in [Box -> Tally] BY <1>11 DEF Enqueue, Queued, Shape
  <2>6. senderTally' \in [Box -> Tally] BY <1>12 DEF Enqueue, Queued, Shape
  <2>7. now' \in Nat BY DEF Enqueue, Queued, Shape
  <2>8. totalBytes' \in Nat BY <1>13, <2>4, FS_CardinalityType DEF TotalBooks
  <2> QED BY <2>2, <2>3, <2>4, <2>5, <2>6, <2>7, <2>8 DEF Shape
<1>15. RecipientBooks' BY <1>11 DEF RecipientBooks, ExactFor, Bytes
<1>16. SenderBooks' BY <1>12 DEF SenderBooks, ExactFor, Bytes
<1> QED BY <1>13, <1>14, <1>15, <1>16

(* A hand-over only touches the delivery marks of an entry.                 *)
LEMMA MarkKeepsBooks ==
  ASSUME Books, NEW k \in Held, NEW conn \in Conn, MarkDelivered(k, conn)
  PROVE  Books'
<1> USE DEF Books
<1>1. byKey \in [Held -> Entry] /\ now \in Nat BY DEF Shape
<1>2. byKey' = [byKey EXCEPT ![k].deliveredConn = conn, ![k].deliveredAt = now] BY DEF MarkDelivered
<1>3. Held' = Held BY <1>2 DEF Held
<1>4. byKey' \in [Held -> Entry] BY <1>1, <1>2 DEF Entry
<1>5. \A x \in Held : byKey'[x].bytes = byKey[x].bytes BY <1>1, <1>2 DEF Entry
<1>6. \A G : G \subseteq Held => BytesOf(byKey', G) = BytesOf(byKey, G) BY <1>5 DEF BytesOf
<1>7. UNCHANGED <<recipientTally, senderTally, totalBytes, now>> BY DEF MarkDelivered
<1>8. Shape' /\ TotalBooks' BY <1>3, <1>4, <1>6, <1>7 DEF Shape, TotalBooks, Bytes
<1>9. \A b \in Box : To(Held, b) \subseteq Held /\ From(Held, b) \subseteq Held BY DEF To, From
<1>10. RecipientBooks' BY <1>3, <1>6, <1>7, <1>9 DEF RecipientBooks, ExactFor, Bytes
<1>11. SenderBooks' BY <1>3, <1>6, <1>7, <1>9 DEF SenderBooks, ExactFor, Bytes
<1> QED BY <1>8, <1>10, <1>11

LEMMA BooksInductive == Books /\ [Next]_vars => Books'
<1> SUFFICES ASSUME Books, [Next]_vars PROVE Books' OBVIOUS
<1>1. ASSUME NEW k \in Key, NEW bytes \in EntryBytes, NEW ttl \in Ttl, Enqueue(k, bytes, ttl)
      PROVE  Books'
  BY <1>1, EnqueueKeepsBooks
<1>2. ASSUME NEW box \in Box, NEW conn \in Conn, HandOver(box, conn) PROVE Books'
  BY <1>2, MarkKeepsBooks DEF HandOver
<1>3. ASSUME NEW k \in Key, NEW conn \in Conn, Redeliver(k, conn) PROVE Books'
  BY <1>3, MarkKeepsBooks DEF Redeliver
<1>4. ASSUME NEW box \in Box, NEW id \in Id, Ack(box, id) PROVE Books'
  <2>1. PICK i \in DOMAIN Pending(box) : Remove({Pending(box)[i]}) BY <1>4 DEF Ack
  <2> QED BY <2>1, RemoveKeepsBooks
<1>5. CASE Sweep BY <1>5, RemoveKeepsBooks DEF Sweep
<1>6. ASSUME NEW us, NEW d \in Device, PurgeDevice(us, d) PROVE Books'
  BY <1>6, RemoveKeepsBooks DEF PurgeDevice
<1>7. ASSUME NEW u \in Uid, PurgeUser(u) PROVE Books'
  BY <1>7, RemoveKeepsBooks DEF PurgeUser
<1>8. CASE Clear
  <2>1. Empty' BY <1>8 DEF Clear, Empty, Books, Shape
  <2> QED BY <2>1, EmptyBooks, PTL
<1>9. CASE Tick
  BY <1>9 DEF Tick, Books, Shape, RecipientBooks, SenderBooks, TotalBooks, ExactFor, Held, Bytes
<1>10. CASE UNCHANGED vars
  BY <1>10 DEF vars, Books, Shape, RecipientBooks, SenderBooks, TotalBooks, ExactFor, Held, Bytes
<1> QED BY <1>1, <1>2, <1>3, <1>4, <1>5, <1>6, <1>7, <1>8, <1>9, <1>10 DEF Next

LEMMA BooksHold == Spec => []Books
<1>1. Init => Books BY EmptyBooks DEF Init, Empty
<1> QED BY <1>1, BooksInductive, PTL DEF Spec

(* bump keeps the tallies of bus-queue.ts exact on every path mail takes    *)
(* out of the queue.                                                        *)
THEOREM TalliesAreExact == Spec => []TalliesExact
<1>1. Books => TalliesExact
  BY DEF Books, RecipientBooks, SenderBooks, TotalBooks, TalliesExact
<1> QED BY <1>1, BooksHold, PTL

(* Because they are, the bounds that enqueue checks on the tallies hold of  *)
(* what the relay really keeps, for every choice of limits.                 *)
THEOREM LimitsHold == Spec => []WithinLimits
<1>1. Books => WithinLimits
  BY DEF Books, RecipientBooks, SenderBooks, TotalBooks, ExactFor, WithinLimits
<1> QED BY <1>1, BooksHold, PTL

(* No resend, hand-over or removal ever extends the life of an entry.       *)
THEOREM ExpiryIsFixed == Spec => ExpiryNeverExtended
<1>1. ASSUME Books, Next PROVE Unextended
  <2> USE DEF Unextended, Held
  <2>0. \A k \in Held : byKey[k] \in Entry /\ byKey[k].expiresAt \in Nat
    BY <1>1 DEF Books, Shape, Entry
  <2>1. ASSUME NEW K, Remove(K) PROVE Unextended
    BY <2>0, <2>1 DEF Remove
  <2>2. ASSUME NEW k \in Held, NEW conn \in Conn, MarkDelivered(k, conn) PROVE Unextended
    <3>1. byKey \in [Held -> Entry] BY <1>1 DEF Books, Shape
    <3>2. byKey' = [byKey EXCEPT ![k].deliveredConn = conn, ![k].deliveredAt = now]
      BY <2>2 DEF MarkDelivered
    <3>3. \A x \in Held : byKey'[x].expiresAt = byKey[x].expiresAt BY <3>1, <3>2 DEF Entry
    <3> QED BY <2>0, <3>2, <3>3
  <2>3. ASSUME NEW k \in Key, NEW bytes \in EntryBytes, NEW ttl \in Ttl, Enqueue(k, bytes, ttl)
        PROVE  Unextended
    <3>1. k \notin Held BY <2>3 DEF Enqueue
    <3>2. byKey' = [x \in Held \cup {k} |-> IF x = k THEN NewEntry(bytes, ttl) ELSE byKey[x]]
      BY <2>3 DEF Enqueue, Queued
    <3>3. NewEntry(bytes, ttl).expiresAt <= now + MaxTtl
      BY <1>1, LimitsAssumption DEF NewEntry, Books, Shape
    <3> QED BY <2>0, <3>1, <3>2, <3>3
  <2>4. CASE Clear BY <2>4 DEF Clear
  <2>5. CASE Tick BY <2>0, <2>5 DEF Tick
  <2>6. ASSUME NEW box \in Box, NEW conn \in Conn, HandOver(box, conn) PROVE Unextended
    BY <2>2, <2>6 DEF HandOver
  <2>7. ASSUME NEW k \in Key, NEW conn \in Conn, Redeliver(k, conn) PROVE Unextended
    BY <2>2, <2>7 DEF Redeliver
  <2>8. ASSUME NEW box \in Box, NEW id \in Id, Ack(box, id) PROVE Unextended
    BY <2>1, <2>8 DEF Ack
  <2>9. CASE Sweep BY <2>1, <2>9 DEF Sweep
  <2>10. ASSUME NEW us, NEW d \in Device, PurgeDevice(us, d) PROVE Unextended
    BY <2>1, <2>10 DEF PurgeDevice
  <2>11. ASSUME NEW u \in Uid, PurgeUser(u) PROVE Unextended
    BY <2>1, <2>11 DEF PurgeUser
  <2> QED BY <1>1, <2>3, <2>4, <2>5, <2>6, <2>7, <2>8, <2>9, <2>10, <2>11 DEF Next
<1> QED BY <1>1, BooksHold, PTL DEF Spec, ExpiryNeverExtended
-----------------------------------------------------------------------------
(* The lists of the recipients: typed, and the same mail as the map.        *)
Lists == byRecipient \in [Box -> Seq(Key)] /\ IndexesAgree

(* remove takes an entry out of its list and leaves the others in place.    *)
LEMMA RemoveKeepsLists ==
  ASSUME Books, Lists, NEW K, Remove(K)
  PROVE  Lists'
<1>1. Held' = Held \ K /\ byRecipient' = [b \in Box |-> Only(byRecipient[b], Key \ K)]
  BY DEF Remove, Held
<1>2. byRecipient \in [Box -> Seq(Key)] BY DEF Lists
<1>3. byRecipient' \in [Box -> Seq(Key)] BY <1>1, <1>2, OnlyIsSeq
<1>4. ASSUME NEW b \in Box
      PROVE  /\ Members(byRecipient'[b]) = To(Held', b)
             /\ Distinct(byRecipient'[b])
  <2> DEFINE s == byRecipient[b]
             t == Only(s, Key \ K)
  <2>1. s \in Seq(Key) /\ byRecipient'[b] = t BY <1>1, <1>2
  <2>2. Distinct(s) /\ Members(s) = To(Held, b) BY DEF Lists, IndexesAgree, Distinct, Members
  <2> HIDE DEF s
  <2>3. Members(t) = Members(s) \cap (Key \ K) BY <2>1, OnlyMembers
  <2>4. Held \subseteq Key BY DEF Books, Shape
  <2>5. Members(t) = To(Held', b) BY <1>1, <2>2, <2>3, <2>4 DEF To
  <2> QED BY <2>1, <2>2, <2>5, OnlyDistinct
<1> QED BY <1>3, <1>4 DEF Lists, IndexesAgree, Distinct, Members

(* enqueue puts a new entry in both.                                        *)
LEMMA EnqueueKeepsLists ==
  ASSUME Books, Lists, NEW k \in Key, NEW bytes, NEW ttl, Enqueue(k, bytes, ttl)
  PROVE  Lists'
<1> DEFINE r == RKey(k)
<1>1. k \notin Held /\ byRecipient' = [byRecipient EXCEPT ![r] = Append(byRecipient[r], k)]
  BY DEF Enqueue, Queued, Pending
<1>2. Held' = Held \cup {k} BY DEF Enqueue, Queued, Held
<1>3. byRecipient \in [Box -> Seq(Key)] /\ r \in Box BY KeyBox DEF Lists
<1>4. byRecipient[r] \in Seq(Key) BY <1>3
<1>5. byRecipient' \in [Box -> Seq(Key)]
  <2>1. Append(byRecipient[r], k) \in Seq(Key) BY <1>4, AppendProperties
  <2> QED BY <1>1, <1>3, <2>1
<1>6. ASSUME NEW b \in Box
      PROVE  /\ Members(byRecipient'[b]) = To(Held', b)
             /\ Distinct(byRecipient'[b])
  <2>1. Members(byRecipient[b]) = To(Held, b) /\ Distinct(byRecipient[b])
    BY DEF Lists, IndexesAgree, Distinct, Members
  <2>2. CASE b = r
    <3> DEFINE s == byRecipient[b]
               n == Len(s)
    <3>1. byRecipient'[b] = Append(s, k) BY <1>1, <1>3, <2>2
    <3>2. k \notin Members(s) BY <1>1, <2>1 DEF To
    <3>3. /\ s \in Seq(Key) /\ DOMAIN s = 1..n /\ n \in Nat /\ DOMAIN Append(s, k) = 1..(n + 1)
          /\ \A i \in 1..n : Append(s, k)[i] = s[i]
          /\ Append(s, k)[n + 1] = k
      BY <1>4, <2>2, AppendProperties
    <3>4. \A i \in 1..n : s[i] # k BY <3>2, <3>3 DEF Members
    <3>5. Members(Append(s, k)) = Members(s) \cup {k}
      <4>1. ASSUME NEW x \in Members(Append(s, k)) PROVE x \in Members(s) \cup {k} BY <3>3 DEF Members
      <4>2. ASSUME NEW x \in Members(s) PROVE x \in Members(Append(s, k)) BY <3>3 DEF Members
      <4>3. k \in Members(Append(s, k)) BY <3>3 DEF Members
      <4> QED BY <4>1, <4>2, <4>3
    <3>6. Distinct(Append(s, k)) BY <2>1, <3>3, <3>4 DEF Distinct
    <3>7. To(Held', b) = To(Held, b) \cup {k} BY <1>2, <2>2 DEF To
    <3> QED BY <2>1, <3>1, <3>5, <3>6, <3>7
  <2>3. CASE b # r
    <3>1. byRecipient'[b] = byRecipient[b] BY <1>1, <1>3, <2>3
    <3>2. To(Held', b) = To(Held, b) BY <1>2, <2>3 DEF To
    <3> QED BY <2>1, <3>1, <3>2
  <2> QED BY <2>2, <2>3
<1> QED BY <1>5, <1>6 DEF Lists, IndexesAgree, Distinct, Members

(* What a step does to the lists, in one place.                             *)
ListMove ==
  \/ \E K : Remove(K)
  \/ \E k \in Key, bytes \in EntryBytes, ttl \in Ttl : Enqueue(k, bytes, ttl)
  \/ byRecipient' = byRecipient /\ Held' = Held
  \/ Clear

LEMMA StepsMoveLists ==
  ASSUME Books, [Next]_vars
  PROVE  ListMove
<1>1. ASSUME NEW k \in Held, NEW conn \in Conn, MarkDelivered(k, conn) PROVE ListMove
  <2>1. byKey' = [byKey EXCEPT ![k].deliveredConn = conn, ![k].deliveredAt = now]
        /\ byRecipient' = byRecipient
    BY <1>1 DEF MarkDelivered
  <2>2. Held' = Held BY <2>1 DEF Held
  <2> QED BY <2>1, <2>2 DEF ListMove
<1>2. ASSUME NEW box \in Box, NEW conn \in Conn, HandOver(box, conn) PROVE ListMove
  BY <1>1, <1>2 DEF HandOver
<1>3. ASSUME NEW k \in Key, NEW conn \in Conn, Redeliver(k, conn) PROVE ListMove
  BY <1>1, <1>3 DEF Redeliver
<1>4. ASSUME NEW box \in Box, NEW id \in Id, Ack(box, id) PROVE ListMove
  BY <1>4 DEF Ack, ListMove
<1>5. ASSUME NEW us, NEW d \in Device, PurgeDevice(us, d) PROVE ListMove
  BY <1>5 DEF PurgeDevice, ListMove
<1>6. ASSUME NEW u \in Uid, PurgeUser(u) PROVE ListMove BY <1>6 DEF PurgeUser, ListMove
<1>7. CASE Sweep BY <1>7 DEF Sweep, ListMove
<1>8. CASE Tick \/ UNCHANGED vars BY <1>8 DEF Tick, vars, ListMove, Held
<1> QED BY <1>2, <1>3, <1>4, <1>5, <1>6, <1>7, <1>8 DEF Next, ListMove

LEMMA ListsInductive == Books /\ Lists /\ [Next]_vars => Lists'
<1> SUFFICES ASSUME Books, Lists, [Next]_vars PROVE Lists' OBVIOUS
<1>1. CASE byRecipient' = byRecipient /\ Held' = Held BY <1>1 DEF Lists, IndexesAgree
<1>2. CASE Clear
  <2>1. Held' = {} /\ byRecipient' = [b \in Box |-> <<>>] BY <1>2 DEF Clear, Held
  <2> QED BY <2>1 DEF Lists, IndexesAgree, To
<1> QED BY <1>1, <1>2, RemoveKeepsLists, EnqueueKeepsLists, StepsMoveLists DEF ListMove

LEMMA ListsHold == Spec => []Lists
<1>1. Init => Lists
  <2> SUFFICES ASSUME Init PROVE Lists OBVIOUS
  <2>1. Held = {} /\ byRecipient = [b \in Box |-> <<>>] BY DEF Init, Held
  <2> QED BY <2>1 DEF Lists, IndexesAgree, To
<1> QED BY <1>1, ListsInductive, BooksHold, PTL DEF Spec

(* Every index, tally and entry keeps its type: no tally and not the total  *)
(* ever goes below zero, whatever bump takes off.                           *)
THEOREM QueueTypeCorrect == Spec => []TypeOK
<1>1. Books /\ Lists => TypeOK BY DEF Books, Shape, Lists, TypeOK
<1> QED BY <1>1, BooksHold, ListsHold, PTL

(* The list of a recipient and the map by key hold the same mail, each      *)
(* entry once: enqueue and remove of bus-queue.ts keep both in step.        *)
THEOREM IndexesAlwaysAgree == Spec => []IndexesAgree
<1>1. Lists => IndexesAgree BY DEF Lists
<1> QED BY <1>1, ListsHold, PTL

(* No step moves mail ahead of mail that came before it: remove filters in  *)
(* place and enqueue appends.                                               *)
THEOREM MailKeepsItsPlace == Spec => ArrivalOrder
<1> DEFINE Ordered(b) ==
      \A i, j \in DOMAIN byRecipient'[b] :
        LET old == byRecipient[b]
            new == byRecipient'[b]
        IN  i < j /\ (\E q \in DOMAIN old : old[q] = new[j]) =>
              \E p, q \in DOMAIN old : p < q /\ old[p] = new[i] /\ old[q] = new[j]
<1>1. ASSUME Books, Lists, [Next]_vars, NEW b \in Box PROVE Ordered(b)
  <2> DEFINE old == byRecipient[b]
             new == byRecipient'[b]
  <2>0. old \in Seq(Key) BY <1>1 DEF Lists
  <2>1. ASSUME NEW K, Remove(K) PROVE Ordered(b)
    <3>1. new = Only(old, Key \ K) BY <2>1 DEF Remove
    <3> HIDE DEF old, new
    <3>2. \A i, j \in DOMAIN new : i < j => \E p, q \in DOMAIN old : p < q /\ old[p] = new[i] /\ old[q] = new[j]
      BY <2>0, <3>1, OnlyOrdered
    <3> QED BY <3>2 DEF old, new
  <2>2. ASSUME NEW k \in Key, NEW bytes \in EntryBytes, NEW ttl \in Ttl, Enqueue(k, bytes, ttl)
        PROVE  Ordered(b)
    <3>1. k \notin Held /\ byRecipient' = [byRecipient EXCEPT ![RKey(k)] = Append(byRecipient[RKey(k)], k)]
      BY <2>2 DEF Enqueue, Queued, Pending
    <3>2. CASE b = RKey(k)
      <4>1. new = Append(old, k) BY <1>1, <3>1, <3>2 DEF Lists
      <4>2. \A q \in DOMAIN old : old[q] # k BY <1>1, <3>1 DEF Lists, IndexesAgree, To
      <4>3. /\ DOMAIN old = 1..Len(old) /\ Len(old) \in Nat /\ DOMAIN new = 1..(Len(old) + 1)
            /\ \A i \in 1..Len(old) : new[i] = old[i]
            /\ new[Len(old) + 1] = k
        BY <2>0, <4>1, AppendProperties
      <4> HIDE DEF old, new
      <4> SUFFICES ASSUME NEW i \in DOMAIN new, NEW j \in DOMAIN new, i < j,
                          \E q \in DOMAIN old : old[q] = new[j]
                   PROVE  \E p, q \in DOMAIN old : p < q /\ old[p] = new[i] /\ old[q] = new[j]
        BY DEF old, new
      <4>4. j # Len(old) + 1 BY <4>2, <4>3
      <4>5. i \in DOMAIN old /\ j \in DOMAIN old BY <4>3, <4>4
      <4> QED BY <4>3, <4>5
    <3>3. CASE b # RKey(k)
      <4>1. new = old BY <1>1, <3>1, <3>3 DEF Lists
      <4> HIDE DEF old, new
      <4> QED BY <4>1 DEF old, new
    <3> QED BY <3>2, <3>3
  <2>3. CASE byRecipient' = byRecipient BY <2>3
  <2>4. CASE Clear
    <3>1. DOMAIN new = {} BY <2>4 DEF Clear
    <3> QED BY <3>1
  <2> QED BY <1>1, <2>1, <2>2, <2>3, <2>4, StepsMoveLists DEF ListMove
<1>2. Books /\ Lists /\ [Next]_vars => [\A b \in Box : Ordered(b)]_vars BY <1>1
<1> QED BY <1>2, BooksHold, ListsHold, PTL DEF Spec, ArrivalOrder
=============================================================================
