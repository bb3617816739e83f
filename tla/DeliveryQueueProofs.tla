------------------------ MODULE DeliveryQueueProofs ------------------------
(***************************************************************************)
(* Proofs about the delivery queue, for any sessions, lines, turn keys and *)
(* bounds.  The operations of the queue are functions from queues to       *)
(* queues, so they are reasoned about as such: each lemma says what one    *)
(* operation makes of a good queue, and a step of the system is a chain of *)
(* a few of them.                                                          *)
(***************************************************************************)
EXTENDS DeliveryQueue, SelectionProofs

Stamps == {"no", "waiting", "overdue"}
Timing == {"off", "armed", "due"}

QueueType ==
  [lines : Seq(Line), attempts : [Line -> Nat], sent : [Line -> Stamps],
   timers : [Session -> Timing], composer : [Session -> SUBSET Line],
   fresh : SUBSET Session]

(* A queue that holds each line once, within its cap.                       *)
Listed(ls) == ls \in Seq(Line) /\ Len(ls) <= MaxLines /\ Distinct(ls)

Stamped(q) == \A l \in Line : q.sent[l] # "no" => l \in Heads(q.lines, Announcing)

Waits(q, s) == \E l \in Line : SessionOf[l] = s /\ q.sent[l] = "waiting"
Lapsed(q, s) == \E l \in Line : SessionOf[l] = s /\ q.sent[l] = "overdue"

Timed(q) ==
  \A s \in Session :
    /\ Waits(q, s) <=> q.timers[s] = "armed"
    /\ q.timers[s] = "due" => Lapsed(q, s)

(* R restarts so far: a line without a stamp has an attempt left.           *)
Counted(q, R) ==
  \A l \in Line :
    /\ q.attempts[l] <= MaxAttempts + R
    /\ q.sent[l] = "no" => q.attempts[l] < MaxAttempts + R

Good(q) == q \in QueueType /\ Listed(q.lines) /\ Stamped(q) /\ Timed(q)

-----------------------------------------------------------------------------
(* Heads.                                                                   *)

LEMMA HeadIs ==
  ASSUME NEW ls \in Seq(Line), NEW S, NEW l
  PROVE  l \in Heads(ls, S) <=>
           \E j \in DOMAIN ls : /\ ls[j] = l /\ SessionOf[l] \in S
                                /\ \A k \in DOMAIN ls : k < j => SessionOf[ls[k]] # SessionOf[l]
<1>1. DOMAIN ls = 1..Len(ls) /\ Len(ls) \in Nat BY LenProperties
<1>2. \A j \in DOMAIN ls : \A k : k \in 1..(j - 1) <=> k \in DOMAIN ls /\ k < j BY <1>1
<1>3. \A j \in DOMAIN ls :
        (\A k \in 1..(j - 1) : SessionOf[ls[k]] # SessionOf[ls[j]]) <=>
        (\A k \in DOMAIN ls : k < j => SessionOf[ls[k]] # SessionOf[ls[j]])
  BY <1>2
<1>4. l \in Heads(ls, S) <=> \E j \in DOMAIN ls : 
         /\ l = ls[j] /\ SessionOf[ls[j]] \in S
         /\ \A k \in 1..(j - 1) : SessionOf[ls[k]] # SessionOf[ls[j]]
  BY DEF Heads
<1> QED BY <1>3, <1>4

LEMMA HeadFacts ==
  ASSUME NEW ls \in Seq(Line), NEW S
  PROVE  /\ \A l \in Heads(ls, S) : l \in Line /\ l \in Members(ls) /\ SessionOf[l] \in S
         /\ \A l \in Heads(ls, S) : \A T : SessionOf[l] \in T => l \in Heads(ls, T)
         /\ \A l, m \in Heads(ls, S) : SessionOf[l] = SessionOf[m] => l = m
<1>1. DOMAIN ls = 1..Len(ls) /\ Len(ls) \in Nat /\ \A i \in DOMAIN ls : i \in Int BY LenProperties
<1>2. \A l \in Heads(ls, S) : l \in Line /\ l \in Members(ls) /\ SessionOf[l] \in S
  BY HeadIs DEF Members
<1>3. ASSUME NEW l \in Heads(ls, S), NEW T, SessionOf[l] \in T PROVE l \in Heads(ls, T)
  BY <1>3, HeadIs
<1>4. ASSUME NEW l \in Heads(ls, S), NEW m \in Heads(ls, S), SessionOf[l] = SessionOf[m] PROVE l = m
  <2>1. PICK i \in DOMAIN ls : ls[i] = l /\ \A k \in DOMAIN ls : k < i => SessionOf[ls[k]] # SessionOf[l]
    BY HeadIs
  <2>2. PICK j \in DOMAIN ls : ls[j] = m /\ \A k \in DOMAIN ls : k < j => SessionOf[ls[k]] # SessionOf[m]
    BY HeadIs
  <2>3. ~(i < j) /\ ~(j < i) BY <1>4, <2>1, <2>2
  <2>4. i = j BY <1>1, <2>3
  <2> QED BY <2>1, <2>2, <2>4
<1> QED BY <1>2, <1>3, <1>4

(* t lists what is left of ls in its order, and perhaps more behind it.     *)
Follows(t, ls) ==
  \A j \in DOMAIN t, k \in DOMAIN t :
    k < j /\ t[j] \in Members(ls) =>
      \E p, q \in DOMAIN ls : p < q /\ ls[p] = t[k] /\ ls[q] = t[j]

(* A head that stays is still a head.                                       *)
LEMMA HeadKept ==
  ASSUME NEW ls \in Seq(Line), Distinct(ls), NEW t \in Seq(Line), Follows(t, ls), NEW S,
         NEW l \in Heads(ls, S), l \in Members(t)
  PROVE  l \in Heads(t, S)
<1>1. PICK i \in DOMAIN ls : /\ ls[i] = l /\ SessionOf[l] \in S
                             /\ \A k \in DOMAIN ls : k < i => SessionOf[ls[k]] # SessionOf[l]
  BY HeadIs
<1>2. PICK j \in DOMAIN t : t[j] = l BY DEF Members
<1>3. l \in Members(ls) BY <1>1 DEF Members
<1>4. ASSUME NEW k \in DOMAIN t, k < j PROVE SessionOf[t[k]] # SessionOf[l]
  <2>1. PICK p \in DOMAIN ls, q \in DOMAIN ls : p < q /\ ls[p] = t[k] /\ ls[q] = t[j]
    BY <1>2, <1>3, <1>4 DEF Follows
  <2>2. q = i BY <1>1, <1>2, <2>1 DEF Distinct
  <2> QED BY <1>1, <2>1, <2>2
<1> QED BY <1>1, <1>2, <1>4, HeadIs

-----------------------------------------------------------------------------
(* The new lists an operation commits.                                      *)

Shortened(t, ls) == Listed(t) /\ Follows(t, ls)

LEMMA WithoutShortens ==
  ASSUME NEW ls, Listed(ls), NEW L
  PROVE  /\ Shortened(Without(ls, L), ls)
         /\ Members(Without(ls, L)) = Members(ls) \ L
<1>0. ls \in Seq(Line) /\ Len(ls) <= MaxLines /\ Distinct(ls) BY DEF Listed
<1> DEFINE t == Only(ls, Line \ L)
<1>1. t \in Seq(Line) /\ Len(t) <= Len(ls) BY <1>0, OnlyIsSeq
<1>2. Distinct(t) BY <1>0, OnlyDistinct
<1>3. Members(t) = Members(ls) \cap (Line \ L) BY <1>0, OnlyMembers
<1>4. Members(ls) \subseteq Line BY <1>0 DEF Members
<1>5. Follows(t, ls)
  <2> SUFFICES ASSUME NEW j \in DOMAIN t, NEW k \in DOMAIN t, k < j
               PROVE  \E p, q \in DOMAIN ls : p < q /\ ls[p] = t[k] /\ ls[q] = t[j]
    BY DEF Follows
  <2> QED BY <1>0, OnlyOrdered
<1>6. Len(t) <= MaxLines
  <2>1. Len(t) \in Nat /\ Len(ls) \in Nat BY <1>0, <1>1, LenProperties
  <2> QED BY <1>0, <1>1, <2>1, QueueAssumption
<1> HIDE DEF t
<1>7. Without(ls, L) = t BY DEF Without, t
<1> QED BY <1>1, <1>2, <1>3, <1>4, <1>5, <1>6, <1>7 DEF Shortened, Listed

Lengthened(ls, l) ==
  IF Len(Append(ls, l)) > MaxLines THEN Tail(Append(ls, l)) ELSE Append(ls, l)

LEMMA AppendShortens ==
  ASSUME NEW ls, Listed(ls), NEW l \in Line, l \notin Members(ls)
  PROVE  /\ Shortened(Lengthened(ls, l), ls)
         /\ Members(Lengthened(ls, l)) \subseteq Members(ls) \cup {l}
         /\ Len(ls) < MaxLines => Members(ls) \subseteq Members(Lengthened(ls, l))
<1> DEFINE t == Lengthened(ls, l)
           a == Append(ls, l)
           d == IF Len(a) > MaxLines THEN 1 ELSE 0
           n == Len(ls)
           m == Len(t)
           w == Len(a)
<1>0. ls \in Seq(Line) /\ n <= MaxLines /\ Distinct(ls) BY DEF Listed
<1>1. /\ n \in Nat /\ MaxLines \in Nat
      /\ DOMAIN ls = 1..n
  BY <1>0, LenProperties, QueueAssumption
<1>2. /\ a \in Seq(Line) /\ w = n + 1
      /\ \A i \in 1..n : a[i] = ls[i]
      /\ a[n + 1] = l
  BY <1>0, AppendProperties
<1>3. /\ d \in Int /\ d \in {0, 1} /\ (d = 1 <=> n = MaxLines)
  <2> HIDE DEF a
  <2>1. w > MaxLines <=> n = MaxLines BY <1>0, <1>1, <1>2
  <2> QED BY <2>1
<1>4. /\ t \in Seq(Line) /\ m = w - d /\ DOMAIN t = 1..m
      /\ \A i \in 1..m : t[i] = a[i + d]
  <2>1. CASE w > MaxLines
    <3>1. t = Tail(a) /\ d = 1 BY <2>1 DEF Lengthened
    <3>0. a # <<>> BY <1>0, AppendProperties
    <3> HIDE DEF a, t, d
    <3>2. Tail(a) \in Seq(Line) /\ Len(Tail(a)) = w - 1
          /\ \A i \in 1..Len(Tail(a)) : Tail(a)[i] = a[i + 1]
      BY <1>2, <3>0, HeadTailProperties
    <3> QED BY <3>1, <3>2, LenProperties
  <2>2. CASE ~(w > MaxLines)
    <3>1. t = a /\ d = 0 BY <2>2 DEF Lengthened
    <3> HIDE DEF a, d, t
    <3>2. w \in Nat /\ DOMAIN a = 1..w BY <1>2, LenProperties
    <3>3. \A i \in 1..w : i + 0 = i BY <3>2
    <3>4. w - 0 = w BY <3>2
    <3> QED BY <1>2, <3>1, <3>2, <3>3, <3>4
  <2> QED BY <2>1, <2>2
<1> HIDE DEF a, d, t, n, m, w
<1>5. /\ m \in Nat /\ m = n + 1 - d /\ m <= MaxLines
  <2>1. m = n + 1 - d
    <3>1. w = n + 1 BY <1>2
    <3>2. m = w - d BY <1>4
    <3>3. n \in Int /\ d \in Int BY <1>1, <1>3
    <3> QED BY <3>1, <3>2, <3>3
  <2>2. d = 0 \/ d = 1 BY <1>3
  <2>3. n < MaxLines \/ d = 1 BY <1>0, <1>1, <1>3
  <2> QED BY <1>0, <1>1, <2>1, <2>2, <2>3
<1>6. \A i \in DOMAIN t : /\ i + d \in 1..(n + 1) /\ i \in Int
                          /\ t[i] = IF i + d = n + 1 THEN l ELSE ls[i + d]
  <2> SUFFICES ASSUME NEW i \in DOMAIN t
               PROVE  /\ i + d \in 1..(n + 1) /\ i \in Int
                      /\ t[i] = IF i + d = n + 1 THEN l ELSE ls[i + d]
    OBVIOUS
  <2>1. i \in 1..m /\ i \in Int BY <1>4, <1>5
  <2>2. i + d \in 1..(n + 1) BY <1>1, <1>3, <1>5, <2>1
  <2>3. i + d # n + 1 => i + d \in 1..n BY <1>1, <2>2
  <2> QED BY <1>2, <1>4, <2>1, <2>2, <2>3
<1>7. \A i \in DOMAIN t : t[i] # l => i + d \in DOMAIN ls /\ t[i] = ls[i + d]
  BY <1>1, <1>6
<1>8. \A i \in DOMAIN t : t[i] = l <=> i + d = n + 1
  <2>1. \A j \in DOMAIN ls : ls[j] # l BY DEF Members
  <2> QED BY <1>1, <1>6, <2>1
<1>9. Distinct(t)
  <2> SUFFICES ASSUME NEW i \in DOMAIN t, NEW j \in DOMAIN t, t[i] = t[j] PROVE i = j BY DEF Distinct
  <2>0. i \in Int /\ j \in Int BY <1>6
  <2>1. CASE t[i] = l
    <3>1. i + d = j + d BY <1>8, <2>1
    <3>2. d \in Int BY <1>3
    <3> QED BY <2>0, <3>1, <3>2
  <2>2. CASE t[i] # l
    <3>1. i + d = j + d BY <1>0, <1>7, <2>2 DEF Distinct
    <3>2. d \in Int BY <1>3
    <3> QED BY <2>0, <3>1, <3>2
  <2> QED BY <2>1, <2>2
<1>10. Follows(t, ls)
  <2> SUFFICES ASSUME NEW j \in DOMAIN t, NEW k \in DOMAIN t, k < j, t[j] \in Members(ls)
               PROVE  \E p, q \in DOMAIN ls : p < q /\ ls[p] = t[k] /\ ls[q] = t[j]
    BY DEF Follows
  <2>1. t[j] # l OBVIOUS
  <2>2. j + d \in DOMAIN ls /\ t[j] = ls[j + d] BY <1>7, <2>1
  <2>3. k + d < j + d /\ k + d # n + 1
    <3>1. k \in Int /\ j \in Int /\ j + d <= n BY <1>1, <1>6, <2>2
    <3> QED BY <1>1, <1>3, <3>1
  <2>4. k + d \in DOMAIN ls /\ t[k] = ls[k + d] BY <1>7, <1>8, <2>3
  <2> QED BY <2>2, <2>3, <2>4
<1>11. Members(t) \subseteq Members(ls) \cup {l} BY <1>7 DEF Members
<1>12. ASSUME n < MaxLines, NEW i \in DOMAIN ls PROVE ls[i] \in Members(t)
  <2>0. n # MaxLines BY <1>1, <1>12
  <2>1. d = 0 BY <1>3, <2>0
  <2>2. i \in DOMAIN t /\ i + d = i /\ i # n + 1 BY <1>1, <1>4, <1>5, <2>1
  <2> QED BY <1>6, <2>2 DEF Members
<1>13. n < MaxLines => Members(ls) \subseteq Members(t) BY <1>12 DEF Members
<1> QED BY <1>4, <1>5, <1>9, <1>10, <1>11, <1>13 DEF Shortened, Listed, t, n, m

-----------------------------------------------------------------------------
(* Commit.                                                                  *)

LEMMA CommitFields ==
  ASSUME NEW q \in QueueType, NEW t \in Seq(Line)
  PROVE  LET c == Commit(q, t)
         IN  /\ c \in QueueType
             /\ c.lines = t /\ c.composer = q.composer /\ c.fresh = q.fresh
             /\ \A l \in Line :
                  /\ l \in Members(t) => c.attempts[l] = q.attempts[l] /\ c.sent[l] = q.sent[l]
                  /\ l \notin Members(t) => c.attempts[l] = 0 /\ c.sent[l] = "no"
             /\ \A s \in Session :
                  c.timers[s] = IF \E m \in Heads(t, Session) : SessionOf[m] = s /\ q.sent[m] # "no"
                                THEN q.timers[s] ELSE "off"
<1> DEFINE stamped == {SessionOf[l] : l \in {m \in Heads(t, Session) : q.sent[m] # "no"}}
           c == Commit(q, t)
<1>1. ToSet(t) = Members(t) BY DEF ToSet, Members
<1>2. c = [q EXCEPT
            !.lines    = t,
            !.attempts = [l \in Line |-> IF l \in Members(t) THEN q.attempts[l] ELSE 0],
            !.sent     = [l \in Line |-> IF l \in Members(t) THEN q.sent[l] ELSE "no"],
            !.timers   = [s \in Session |-> IF s \in stamped THEN q.timers[s] ELSE "off"]]
  BY <1>1 DEF Commit, QueueType
<1>3. \A s : s \in stamped <=> \E m \in Heads(t, Session) : SessionOf[m] = s /\ q.sent[m] # "no"
  OBVIOUS
<1> HIDE DEF stamped, c
<1>4. /\ c.lines = t /\ c.composer = q.composer /\ c.fresh = q.fresh
      /\ c.attempts = [l \in Line |-> IF l \in Members(t) THEN q.attempts[l] ELSE 0]
      /\ c.sent = [l \in Line |-> IF l \in Members(t) THEN q.sent[l] ELSE "no"]
      /\ c.timers = [s \in Session |-> IF s \in stamped THEN q.timers[s] ELSE "off"]
  BY <1>2 DEF QueueType
<1>5. c.attempts \in [Line -> Nat] /\ c.sent \in [Line -> Stamps] /\ c.timers \in [Session -> Timing]
  BY <1>4 DEF QueueType, Stamps, Timing
<1>6. c \in QueueType BY <1>2, <1>4, <1>5 DEF QueueType
<1>7. \A l \in Line :
        /\ l \in Members(t) => c.attempts[l] = q.attempts[l] /\ c.sent[l] = q.sent[l]
        /\ l \notin Members(t) => c.attempts[l] = 0 /\ c.sent[l] = "no"
  BY <1>4
<1>8. \A s \in Session :
         c.timers[s] = IF \E m \in Heads(t, Session) : SessionOf[m] = s /\ q.sent[m] # "no"
                       THEN q.timers[s] ELSE "off"
  BY <1>3, <1>4
<1> QED BY <1>4, <1>6, <1>7, <1>8 DEF c

(* Committing what is left of a good queue leaves a good queue: a stamp     *)
(* stays on a head, and its timer with it.                                  *)
LEMMA CommitGood ==
  ASSUME NEW q, Good(q), NEW t, Shortened(t, q.lines)
  PROVE  Good(Commit(q, t))
<1> DEFINE c == Commit(q, t)
<1>0. q \in QueueType /\ t \in Seq(Line) /\ q.lines \in Seq(Line) /\ Distinct(q.lines)
  BY DEF Good, Shortened, Listed
<1>1. /\ c \in QueueType /\ c.lines = t
      /\ \A l \in Line :
           /\ l \in Members(t) => c.attempts[l] = q.attempts[l] /\ c.sent[l] = q.sent[l]
           /\ l \notin Members(t) => c.attempts[l] = 0 /\ c.sent[l] = "no"
      /\ \A s \in Session :
           c.timers[s] = IF \E m \in Heads(t, Session) : SessionOf[m] = s /\ q.sent[m] # "no"
                         THEN q.timers[s] ELSE "off"
  BY <1>0, CommitFields
<1> HIDE DEF c
<1>2. Listed(c.lines) BY <1>1 DEF Shortened
<1>3. ASSUME NEW l \in Line, c.sent[l] # "no"
      PROVE  /\ l \in Members(t) /\ c.sent[l] = q.sent[l]
             /\ l \in Heads(q.lines, Announcing) /\ l \in Heads(t, Announcing)
  <2>1. l \in Members(t) /\ c.sent[l] = q.sent[l] BY <1>1, <1>3
  <2>2. l \in Heads(q.lines, Announcing) BY <1>3, <2>1 DEF Good, Stamped
  <2>3. l \in Heads(t, Announcing) BY <1>0, <2>1, <2>2, HeadKept DEF Shortened
  <2> QED BY <2>1, <2>2, <2>3
<1>4. Stamped(c) BY <1>1, <1>3 DEF Stamped
<1>5. Timed(c)
  <2> SUFFICES ASSUME NEW s \in Session
               PROVE  /\ Waits(c, s) <=> c.timers[s] = "armed"
                      /\ c.timers[s] = "due" => Lapsed(c, s)
    BY DEF Timed
  <2>0. (Waits(q, s) <=> q.timers[s] = "armed") /\ (q.timers[s] = "due" => Lapsed(q, s))
    BY DEF Good, Timed
  <2>1. ASSUME Waits(c, s) PROVE c.timers[s] = "armed"
    <3>1. PICK l \in Line : SessionOf[l] = s /\ c.sent[l] = "waiting" BY <2>1 DEF Waits
    <3>2. q.sent[l] = "waiting" /\ l \in Heads(t, Announcing) BY <1>3, <3>1
    <3>3. l \in Heads(t, Session) BY <1>0, <3>1, <3>2, HeadFacts
    <3>4. Waits(q, s) BY <3>1, <3>2 DEF Waits
    <3> QED BY <1>1, <2>0, <3>1, <3>2, <3>3, <3>4
  <2>2. ASSUME c.timers[s] # "off"
        PROVE  /\ c.timers[s] = q.timers[s]
               /\ \A l \in Line : SessionOf[l] = s /\ q.sent[l] # "no" => c.sent[l] = q.sent[l]
    <3>1. PICK m \in Heads(t, Session) : SessionOf[m] = s /\ q.sent[m] # "no" BY <1>1, <2>2
    <3>2. m \in Line /\ m \in Members(t) BY <1>0, <3>1, HeadFacts
    <3>3. c.timers[s] = q.timers[s] BY <1>1, <2>2
    <3>4. ASSUME NEW l \in Line, SessionOf[l] = s, q.sent[l] # "no" PROVE c.sent[l] = q.sent[l]
      <4>1. l \in Heads(q.lines, Announcing) /\ m \in Heads(q.lines, Announcing)
        BY <3>1, <3>2, <3>4 DEF Good, Stamped
      <4>2. l = m BY <1>0, <3>1, <3>4, <4>1, HeadFacts
      <4> QED BY <1>1, <3>2, <4>2
    <3> QED BY <3>3, <3>4
  <2>3. ASSUME c.timers[s] = "armed" PROVE Waits(c, s)
    <3>1. Waits(q, s) BY <2>0, <2>2, <2>3
    <3> QED BY <2>2, <2>3, <3>1 DEF Waits
  <2>4. ASSUME c.timers[s] = "due" PROVE Lapsed(c, s)
    <3>1. Lapsed(q, s) BY <2>0, <2>2, <2>4
    <3> QED BY <2>2, <2>4, <3>1 DEF Lapsed
  <2> QED BY <2>1, <2>3, <2>4
<1> QED BY <1>1, <1>2, <1>4, <1>5 DEF Good, c

LEMMA CommitCounted ==
  ASSUME NEW q, Good(q), NEW t \in Seq(Line), NEW R \in Nat, Counted(q, R)
  PROVE  Counted(Commit(q, t), R)
<1> DEFINE c == Commit(q, t)
<1>1. \A l \in Line :
        /\ l \in Members(t) => c.attempts[l] = q.attempts[l] /\ c.sent[l] = q.sent[l]
        /\ l \notin Members(t) => c.attempts[l] = 0 /\ c.sent[l] = "no"
  BY CommitFields DEF Good
<1> HIDE DEF c
<1>2. MaxAttempts \in Nat \ {0} BY QueueAssumption
<1>3. Counted(c, R) BY <1>1, <1>2 DEF Counted
<1> QED BY <1>3 DEF c

-----------------------------------------------------------------------------
(* Submitted.                                                               *)

AreDue(q, L) ==
  L \subseteq Heads(q.lines, Session) /\ \A l \in L : q.sent[l] # "waiting"

(* The lines of L that stay for their turn, and the queue without the rest. *)
Waiters(L) == {l \in L : SessionOf[l] \in Announcing}
Left(q, L) == Commit(q, Without(q.lines, L \ Waiters(L)))

(* What a submit changes: the lines that went in, nothing else.             *)
LEMMA SubmittedFields ==
  ASSUME NEW q, Good(q), NEW L, AreDue(q, L)
  PROVE  LET r == Submitted(q, L)
         IN  /\ r \in QueueType
             /\ Good(Left(q, L)) /\ r.lines = Left(q, L).lines
             /\ Members(r.lines) = Members(q.lines) \ (L \ Waiters(L))
             /\ \A l \in Line :
                  /\ l \in Waiters(L) => r.sent[l] = "waiting" /\ r.attempts[l] = q.attempts[l] + 1
                  /\ l \notin Waiters(L) => r.sent[l] = Left(q, L).sent[l] /\ r.attempts[l] = Left(q, L).attempts[l]
                  /\ l \notin L => r.sent[l] = q.sent[l]
             /\ \A s \in Session :
                  r.timers[s] = IF \E l \in Waiters(L) : SessionOf[l] = s THEN "armed" ELSE Left(q, L).timers[s]
             /\ \A s \in Session : r.composer[s] = q.composer[s] \cup {l \in L : SessionOf[l] = s}
             /\ r.fresh = q.fresh \cup {SessionOf[l] : l \in L}
<1> DEFINE w == {l \in L : SessionOf[l] \in Announcing}
           t == Without(q.lines, L \ w)
           c == Commit(q, t)
           r == Submitted(q, L)
<1>0. q \in QueueType /\ Listed(q.lines) /\ q.lines \in Seq(Line) BY DEF Good, Listed
<1>1. /\ L \subseteq Line /\ L \subseteq Members(q.lines)
      /\ \A l \in L : SessionOf[l] \in Session
  BY <1>0, HeadFacts DEF AreDue
<1>2. w \subseteq L /\ \A l \in L : l \in w <=> SessionOf[l] \in Announcing OBVIOUS
<1>3. Shortened(t, q.lines) /\ Members(t) = Members(q.lines) \ (L \ w) /\ t \in Seq(Line)
  <2> HIDE DEF w
  <2> QED BY <1>0, WithoutShortens DEF Shortened, Listed
<1>4. r = [c EXCEPT
            !.attempts = [l \in Line |-> IF l \in w THEN c.attempts[l] + 1 ELSE c.attempts[l]],
            !.sent     = [l \in Line |-> IF l \in w THEN "waiting" ELSE c.sent[l]],
            !.timers   = [s \in Session |-> IF \E l \in w : SessionOf[l] = s
                                            THEN "armed" ELSE c.timers[s]],
            !.composer = [s \in Session |-> c.composer[s] \cup {l \in L : SessionOf[l] = s}],
            !.fresh    = c.fresh \cup {SessionOf[l] : l \in L}]
  <2>1. c \in QueueType
    <3> HIDE DEF t
    <3> QED BY <1>0, <1>3, CommitFields
  <2> HIDE DEF t, w
  <2> QED BY <2>1 DEF Submitted, QueueType, w, t
<1> HIDE DEF w, t, r
<1>5. /\ c \in QueueType /\ c.lines = t /\ c.composer = q.composer /\ c.fresh = q.fresh
      /\ \A l \in Line :
           /\ l \in Members(t) => c.attempts[l] = q.attempts[l] /\ c.sent[l] = q.sent[l]
           /\ l \notin Members(t) => c.attempts[l] = 0 /\ c.sent[l] = "no"
  BY <1>0, <1>3, CommitFields
<1>6. Good(c) BY <1>3, CommitGood
<1> HIDE DEF c
<1>7. /\ r.lines = t
      /\ r.attempts = [l \in Line |-> IF l \in w THEN c.attempts[l] + 1 ELSE c.attempts[l]]
      /\ r.sent = [l \in Line |-> IF l \in w THEN "waiting" ELSE c.sent[l]]
      /\ r.timers = [s \in Session |-> IF \E l \in w : SessionOf[l] = s THEN "armed" ELSE c.timers[s]]
      /\ r.composer = [s \in Session |-> q.composer[s] \cup {l \in L : SessionOf[l] = s}]
      /\ r.fresh = q.fresh \cup {SessionOf[l] : l \in L}
  BY <1>4, <1>5 DEF QueueType
<1>8. /\ r.attempts \in [Line -> Nat] /\ r.sent \in [Line -> Stamps]
      /\ r.timers \in [Session -> Timing]
  BY <1>5, <1>7 DEF QueueType, Stamps, Timing
<1>9. r.composer \in [Session -> SUBSET Line] /\ r.fresh \in SUBSET Session
  BY <1>0, <1>1, <1>7 DEF QueueType
<1>10. r \in QueueType BY <1>3, <1>4, <1>5, <1>7, <1>8, <1>9 DEF QueueType
<1>11. ASSUME NEW l \in Line, l \notin L PROVE r.sent[l] = q.sent[l]
  <2>1. r.sent[l] = c.sent[l] BY <1>2, <1>7, <1>11
  <2>2. CASE l \in Members(t) BY <1>5, <2>1, <2>2
  <2>3. CASE l \notin Members(t)
    <3>1. l \notin Members(q.lines) BY <1>3, <1>11, <2>3
    <3>2. q.sent[l] = "no"
      <4>1. l \notin Heads(q.lines, Announcing) BY <1>0, <3>1, HeadFacts
      <4> QED BY <4>1 DEF Good, Stamped
    <3> QED BY <1>5, <2>1, <2>3, <3>2
  <2> QED BY <2>2, <2>3
<1>12. ASSUME NEW l \in w
       PROVE  l \in Line /\ r.sent[l] = "waiting" /\ r.attempts[l] = q.attempts[l] + 1
  <2>1. l \in Line /\ l \in Members(t) BY <1>1, <1>2, <1>3
  <2> QED BY <1>5, <1>7, <2>1
<1>13. \A l \in Line : l \notin w => r.sent[l] = c.sent[l] /\ r.attempts[l] = c.attempts[l] BY <1>7
<1>14. \A s \in Session :
          /\ r.timers[s] = IF \E l \in w : SessionOf[l] = s THEN "armed" ELSE c.timers[s]
          /\ r.composer[s] = q.composer[s] \cup {l \in L : SessionOf[l] = s}
  BY <1>7
<1>15. w = Waiters(L) /\ c = Left(q, L) BY DEF w, c, t, Left, Waiters
<1> QED BY <1>3, <1>5, <1>6, <1>7, <1>10, <1>11, <1>12, <1>13, <1>14, <1>15 DEF r

(* A submit of due lines leaves a good queue: what went in is a head with a *)
(* stamp and a timer.                                                       *)
LEMMA SubmittedGood ==
  ASSUME NEW q, Good(q), NEW L, AreDue(q, L)
  PROVE  Good(Submitted(q, L))
<1> DEFINE w == Waiters(L)
           c == Left(q, L)
           r == Submitted(q, L)
<1>1. /\ r \in QueueType /\ Good(c) /\ r.lines = c.lines
      /\ Members(r.lines) = Members(q.lines) \ (L \ w)
      /\ \A l \in Line : l \in w => r.sent[l] = "waiting"
      /\ \A l \in Line : l \notin w => r.sent[l] = c.sent[l]
      /\ \A s \in Session :
           r.timers[s] = IF \E l \in w : SessionOf[l] = s THEN "armed" ELSE c.timers[s]
  BY SubmittedFields
<1>2. Shortened(Without(q.lines, L \ w), q.lines)
  <2> HIDE DEF w
  <2> QED BY WithoutShortens DEF Good
<1>3. c.lines = Without(q.lines, L \ w)
  <2> HIDE DEF w
  <2> QED BY <1>2, CommitFields DEF Good, Shortened, Listed, Left, w
<1>4. Shortened(c.lines, q.lines) BY <1>2, <1>3
<1>5. L \subseteq Line /\ L \subseteq Members(q.lines) /\ w \subseteq L
  BY HeadFacts DEF AreDue, Good, Listed, Waiters
<1>6. w \subseteq Heads(c.lines, Announcing)
  <2> SUFFICES ASSUME NEW l \in w PROVE l \in Heads(c.lines, Announcing) OBVIOUS
  <2>1. l \in Members(c.lines) BY <1>1, <1>5
  <2>2. l \in Heads(q.lines, Announcing)
    <3>1. l \in Heads(q.lines, Session) /\ SessionOf[l] \in Announcing BY DEF AreDue, Waiters
    <3> QED BY <3>1, HeadFacts DEF Good, Listed
  <2> HIDE DEF c, w
  <2> QED BY <1>4, <2>1, <2>2, HeadKept DEF Good, Shortened, Listed
<1> HIDE DEF w, c, r
<1>7. Listed(r.lines) BY <1>1 DEF Good
<1>8. Stamped(r)
  <2>1. Stamped(c) BY <1>1 DEF Good
  <2> QED BY <1>1, <1>6, <2>1 DEF Stamped
<1>9. Timed(r)
  <2> SUFFICES ASSUME NEW s \in Session
               PROVE  /\ Waits(r, s) <=> r.timers[s] = "armed"
                      /\ r.timers[s] = "due" => Lapsed(r, s)
    BY DEF Timed
  <2>1. (Waits(c, s) <=> c.timers[s] = "armed") /\ (c.timers[s] = "due" => Lapsed(c, s))
    BY <1>1 DEF Good, Timed
  <2>2. CASE \E l \in w : SessionOf[l] = s
    <3>1. r.timers[s] = "armed" BY <1>1, <2>2
    <3>2. Waits(r, s) BY <1>1, <1>5, <2>2 DEF Waits
    <3> QED BY <3>1, <3>2
  <2>3. CASE ~\E l \in w : SessionOf[l] = s
    <3>1. r.timers[s] = c.timers[s] BY <1>1, <2>3
    <3>2. \A l \in Line : SessionOf[l] = s => r.sent[l] = c.sent[l] BY <1>1, <2>3
    <3>3. (Waits(r, s) <=> Waits(c, s)) /\ (Lapsed(r, s) <=> Lapsed(c, s)) BY <3>2 DEF Waits, Lapsed
    <3> QED BY <2>1, <3>1, <3>3
  <2> QED BY <2>2, <2>3
<1> QED BY <1>1, <1>7, <1>8, <1>9 DEF Good, r

LEMMA SubmittedCounted ==
  ASSUME NEW q, Good(q), NEW L, AreDue(q, L), NEW R \in Nat, Counted(q, R),
         \A l \in L : ~Spent(q, l)
  PROVE  Counted(Submitted(q, L), R)
<1> DEFINE w == Waiters(L)
           c == Left(q, L)
           r == Submitted(q, L)
<1>1. \A l \in Line :
        /\ l \in w => r.sent[l] = "waiting" /\ r.attempts[l] = q.attempts[l] + 1
        /\ l \notin w => r.sent[l] = c.sent[l] /\ r.attempts[l] = c.attempts[l]
  BY SubmittedFields
<1>2. Counted(c, R)
  <2>1. Without(q.lines, L \ w) \in Seq(Line)
    <3> HIDE DEF w
    <3> QED BY WithoutShortens DEF Good, Shortened, Listed
  <2> HIDE DEF w
  <2> QED BY <2>1, CommitCounted DEF Left, w
<1>3. w \subseteq L BY DEF Waiters
<1> HIDE DEF w, c, r
<1>4. MaxAttempts \in Nat /\ \A l \in Line : q.attempts[l] \in Nat /\ q.sent[l] \in Stamps
  BY QueueAssumption DEF Good, QueueType
<1>5. ASSUME NEW l \in Line, l \in w PROVE q.attempts[l] < MaxAttempts + R
  <2>1. l \in L /\ q.sent[l] # "waiting" /\ ~Spent(q, l) BY <1>3, <1>5 DEF AreDue
  <2>2. CASE q.sent[l] = "no" BY <2>2 DEF Counted
  <2>3. CASE q.sent[l] = "overdue"
    <3>1. ~(q.attempts[l] >= MaxAttempts) BY <2>1, <2>3 DEF Spent
    <3>2. q.attempts[l] \in Nat /\ MaxAttempts \in Nat BY <1>4
    <3> QED BY <3>1, <3>2
  <2> QED BY <1>4, <2>1, <2>2, <2>3 DEF Stamps
<1>6. Counted(r, R)
  <2> SUFFICES ASSUME NEW l \in Line
               PROVE  /\ r.attempts[l] <= MaxAttempts + R
                      /\ r.sent[l] = "no" => r.attempts[l] < MaxAttempts + R
    BY DEF Counted
  <2>1. CASE l \in w
    <3>1. r.sent[l] = "waiting" /\ r.attempts[l] = q.attempts[l] + 1 BY <1>1, <2>1
    <3>2. q.attempts[l] < MaxAttempts + R BY <1>5, <2>1
    <3>3. q.attempts[l] \in Nat /\ MaxAttempts \in Nat BY <1>4
    <3> QED BY <3>1, <3>2, <3>3
  <2>2. CASE l \notin w BY <1>1, <1>2, <2>2 DEF Counted
  <2> QED BY <2>1, <2>2
<1> QED BY <1>6 DEF r

-----------------------------------------------------------------------------
(* Drain, as a drop of what is spent and a submit of what is due.           *)

Dropped(q, S) == {l \in Heads(q.lines, S) : Spent(q, l)}
Kept(q, S) == Commit(q, Without(q.lines, Dropped(q, S)))
Goes(q, S, O, T) ==
  {l \in Heads(Kept(q, S).lines, S) :
     Kept(q, S).sent[l] # "waiting" /\ SessionOf[l] \in O} \ T

(* A line that is not in the queue has no stamp.                            *)
LEMMA UnqueuedUnstamped ==
  ASSUME NEW q, Good(q), NEW l \in Line, l \notin Members(q.lines)
  PROVE  q.sent[l] = "no"
<1>1. q.lines \in Seq(Line) BY DEF Good, Listed
<1>2. l \notin Heads(q.lines, Announcing) BY <1>1, HeadFacts
<1> QED BY <1>2 DEF Good, Stamped

LEMMA CommitWithout ==
  ASSUME NEW q, Good(q), NEW L
  PROVE  /\ Good(Commit(q, Without(q.lines, L)))
         /\ Commit(q, Without(q.lines, L)).composer = q.composer
         /\ Commit(q, Without(q.lines, L)).fresh = q.fresh
         /\ Members(Commit(q, Without(q.lines, L)).lines) = Members(q.lines) \ L
         /\ \A l \in Line :
              Commit(q, Without(q.lines, L)).sent[l] = IF l \in L THEN "no" ELSE q.sent[l]
<1> DEFINE t == Without(q.lines, L)
           c == Commit(q, t)
<1>1. Shortened(t, q.lines) /\ Members(t) = Members(q.lines) \ L /\ t \in Seq(Line)
  BY WithoutShortens DEF Good, Shortened, Listed
<1> HIDE DEF t
<1>2. Good(c) BY <1>1, CommitGood
<1>3. /\ c.lines = t /\ c.composer = q.composer /\ c.fresh = q.fresh
      /\ \A l \in Line :
           /\ l \in Members(t) => c.sent[l] = q.sent[l]
           /\ l \notin Members(t) => c.sent[l] = "no"
  BY <1>1, CommitFields DEF Good
<1> HIDE DEF c
<1>4. ASSUME NEW l \in Line PROVE c.sent[l] = IF l \in L THEN "no" ELSE q.sent[l]
  <2>1. CASE l \in Members(q.lines) BY <1>1, <1>3, <2>1
  <2>2. CASE l \notin Members(q.lines)
    <3>1. q.sent[l] = "no" BY <2>2, UnqueuedUnstamped
    <3> QED BY <1>1, <1>3, <2>2, <3>1
  <2> QED BY <2>1, <2>2
<1> QED BY <1>1, <1>2, <1>3, <1>4 DEF c, t

LEMMA DrainParts ==
  ASSUME NEW q, Good(q), NEW S \in SUBSET Session, NEW O, NEW T
  PROVE  LET k == Kept(q, S)
             g == Goes(q, S, O, T)
         IN  /\ Drain(q, S, O, T) = Submitted(k, g)
             /\ Good(k) /\ AreDue(k, g)
             /\ \A l \in g : ~Spent(k, l) /\ SessionOf[l] \in O
             /\ k.composer = q.composer /\ k.fresh = q.fresh
             /\ Members(k.lines) = Members(q.lines) \ Dropped(q, S)
             /\ \A l \in Line : k.sent[l] = IF l \in Dropped(q, S) THEN "no" ELSE q.sent[l]
<1> DEFINE k == Kept(q, S)
           g == Goes(q, S, O, T)
           d == Dropped(q, S)
<1>1. Drain(q, S, O, T) = Submitted(k, g) BY DEF Drain, Kept, Goes, Dropped
<1>2. /\ Good(k) /\ k.composer = q.composer /\ k.fresh = q.fresh
      /\ Members(k.lines) = Members(q.lines) \ d
      /\ \A l \in Line : k.sent[l] = IF l \in d THEN "no" ELSE q.sent[l]
  <2>1. k = Commit(q, Without(q.lines, d)) BY DEF Kept
  <2> HIDE DEF k, d
  <2>2. Good(k) BY <2>1, CommitWithout
  <2>3. k.composer = q.composer BY <2>1, CommitWithout
  <2>4. k.fresh = q.fresh BY <2>1, CommitWithout
  <2>5. Members(k.lines) = Members(q.lines) \ d BY <2>1, CommitWithout
  <2>6. \A l \in Line : k.sent[l] = IF l \in d THEN "no" ELSE q.sent[l]
    <3>1. \A l \in Line : Commit(q, Without(q.lines, d)).sent[l] = IF l \in d THEN "no" ELSE q.sent[l]
      BY CommitWithout
    <3> QED BY <2>1, <3>1
  <2> QED BY <2>2, <2>3, <2>4, <2>5, <2>6
<1>5. \A l \in Line : l \in Members(k.lines) => k.attempts[l] = q.attempts[l]
  <2> DEFINE t == Without(q.lines, d)
  <2>1. k = Commit(q, t) BY DEF Kept
  <2>2. t \in Seq(Line) /\ q \in QueueType
    <3> HIDE DEF d
    <3> QED BY WithoutShortens DEF Good, Shortened, Listed
  <2> HIDE DEF t, k
  <2> QED BY <2>1, <2>2, CommitFields
<1>3. ASSUME NEW l \in g
      PROVE  /\ l \in Heads(k.lines, Session) /\ k.sent[l] # "waiting"
             /\ SessionOf[l] \in O /\ ~Spent(k, l)
  <2>1. l \in Heads(k.lines, S) /\ k.sent[l] # "waiting" /\ SessionOf[l] \in O BY DEF Goes
  <2>2. k.lines \in Seq(Line) /\ q.lines \in Seq(Line) BY <1>2 DEF Good, Listed
  <2>3. l \in Line /\ l \in Members(k.lines) /\ SessionOf[l] \in S BY <2>1, <2>2, HeadFacts
  <2>4. l \in Heads(k.lines, Session) BY <2>1, <2>2, <2>3, HeadFacts
  <2>5. ASSUME Spent(k, l) PROVE FALSE
    <3>1. l \notin d /\ q.sent[l] = "overdue" /\ q.attempts[l] >= MaxAttempts
      BY <1>2, <1>5, <2>3, <2>5 DEF Spent
    <3>2. l \in Heads(q.lines, Announcing) BY <2>3, <3>1 DEF Good, Stamped
    <3>3. l \in Heads(q.lines, S) BY <2>2, <2>3, <3>2, HeadFacts
    <3> QED BY <3>1, <3>3 DEF Dropped, Spent
  <2> QED BY <2>1, <2>4, <2>5
<1>4. AreDue(k, g) BY <1>3 DEF AreDue
<1> QED BY <1>1, <1>2, <1>3, <1>4

(* A drain leaves a good queue, and no line handed over too often.          *)
LEMMA DrainGood ==
  ASSUME NEW q, Good(q), NEW S \in SUBSET Session, NEW O, NEW T
  PROVE  /\ Good(Drain(q, S, O, T))
         /\ \A R \in Nat : Counted(q, R) => Counted(Drain(q, S, O, T), R)
<1> DEFINE k == Kept(q, S)
           g == Goes(q, S, O, T)
<1>1. Drain(q, S, O, T) = Submitted(k, g) /\ Good(k) /\ AreDue(k, g) /\ \A l \in g : ~Spent(k, l)
  BY DrainParts
<1>2. ASSUME NEW R \in Nat, Counted(q, R) PROVE Counted(k, R)
  <2>1. Without(q.lines, Dropped(q, S)) \in Seq(Line)
    BY WithoutShortens DEF Good, Shortened, Listed
  <2> QED BY <1>2, <2>1, CommitCounted DEF Kept
<1> HIDE DEF k, g
<1>3. Good(Submitted(k, g)) BY <1>1, SubmittedGood
<1>4. ASSUME NEW R \in Nat, Counted(q, R) PROVE Counted(Submitted(k, g), R)
  <2>1. Counted(k, R) BY <1>2, <1>4
  <2> QED BY <1>1, <2>1, SubmittedCounted
<1> QED BY <1>1, <1>3, <1>4

(* A turn's confirm.                                                        *)
LEMMA ConfirmGood ==
  ASSUME NEW q, Good(q), NEW S \in SUBSET Session
  PROVE  LET r == Confirm(q, S)
             taken == {l \in Heads(q.lines, S) : q.sent[l] # "no"}
         IN  /\ Good(r)
             /\ \A R \in Nat : Counted(q, R) => Counted(r, R)
             /\ Members(r.lines) = Members(q.lines) \ taken
             /\ \A l \in Line : r.sent[l] = IF l \in taken THEN "no" ELSE q.sent[l]
             /\ r.composer = [s \in Session |-> IF s \in S THEN {} ELSE q.composer[s]]
             /\ r.fresh = q.fresh \ S
<1> DEFINE taken == {l \in Heads(q.lines, S) : q.sent[l] # "no"}
           c == Commit(q, Without(q.lines, taken))
           r == Confirm(q, S)
<1>1. /\ Good(c) /\ c.composer = q.composer /\ c.fresh = q.fresh
      /\ Members(c.lines) = Members(q.lines) \ taken
      /\ \A l \in Line : c.sent[l] = IF l \in taken THEN "no" ELSE q.sent[l]
  <2> HIDE DEF taken
  <2>1. Good(c) BY CommitWithout
  <2>2. c.composer = q.composer BY CommitWithout
  <2>3. c.fresh = q.fresh BY CommitWithout
  <2>4. Members(c.lines) = Members(q.lines) \ taken BY CommitWithout
  <2>5. \A l \in Line : c.sent[l] = IF l \in taken THEN "no" ELSE q.sent[l] BY CommitWithout
  <2> QED BY <2>1, <2>2, <2>3, <2>4, <2>5
<1>2. ASSUME NEW R \in Nat, Counted(q, R) PROVE Counted(c, R)
  <2> HIDE DEF taken
  <2>1. Without(q.lines, taken) \in Seq(Line) BY WithoutShortens DEF Good, Shortened, Listed
  <2> QED BY <1>2, <2>1, CommitCounted
<1>3. r = [c EXCEPT !.composer = [s \in Session |-> IF s \in S THEN {} ELSE c.composer[s]],
                    !.fresh    = c.fresh \ S]
  <2> HIDE DEF taken, c
  <2> QED BY <1>1 DEF Confirm, Good, QueueType, taken, c
<1> HIDE DEF c, r, taken
<1>4. /\ r \in QueueType /\ r.lines = c.lines /\ r.sent = c.sent /\ r.attempts = c.attempts
      /\ r.timers = c.timers
      /\ r.composer = [s \in Session |-> IF s \in S THEN {} ELSE q.composer[s]]
      /\ r.fresh = q.fresh \ S
  BY <1>1, <1>3 DEF Good, QueueType
<1>5. Good(r)
  <2>1. Stamped(r) BY <1>1, <1>4 DEF Good, Stamped
  <2>2. Timed(r) BY <1>1, <1>4 DEF Good, Timed, Waits, Lapsed
  <2> QED BY <1>1, <1>4, <2>1, <2>2 DEF Good
<1>6. \A R \in Nat : Counted(q, R) => Counted(r, R) BY <1>2, <1>4 DEF Counted
<1> QED BY <1>1, <1>4, <1>5, <1>6 DEF r, taken

(* An arrival.                                                              *)
LEMMA EnqueuedGood ==
  ASSUME NEW q, Good(q), NEW l \in Line
  PROVE  LET r == Enqueued(q, l)
         IN  /\ Good(r)
             /\ \A R \in Nat : Counted(q, R) => Counted(r, R)
             /\ r.composer = q.composer /\ r.fresh = q.fresh
             /\ \A m \in Line : r.sent[m] \in {q.sent[m], "no"}
             /\ Len(q.lines) < MaxLines \/ l \in Members(q.lines) =>
                  \A m \in Line : r.sent[m] = q.sent[m]
<1>0. ToSet(q.lines) = Members(q.lines) BY DEF ToSet, Members
<1>1. CASE l \in Members(q.lines)
  <2>1. Enqueued(q, l) = q BY <1>0, <1>1 DEF Enqueued
  <2> QED BY <2>1
<1>2. CASE l \notin Members(q.lines)
  <2> DEFINE t == Lengthened(q.lines, l)
             r == Commit(q, t)
  <2>1. Enqueued(q, l) = r BY <1>0, <1>2 DEF Enqueued, Lengthened
  <2>2. /\ Shortened(t, q.lines) /\ t \in Seq(Line)
        /\ Len(q.lines) < MaxLines => Members(q.lines) \subseteq Members(t)
    BY <1>2, AppendShortens DEF Good, Shortened, Listed
  <2> HIDE DEF t
  <2>3. Good(r) BY <2>2, CommitGood
  <2>4. ASSUME NEW R \in Nat, Counted(q, R) PROVE Counted(r, R) BY <2>2, <2>4, CommitCounted
  <2>5. /\ r.composer = q.composer /\ r.fresh = q.fresh
        /\ \A m \in Line :
             /\ m \in Members(t) => r.sent[m] = q.sent[m]
             /\ m \notin Members(t) => r.sent[m] = "no"
    BY <2>2, CommitFields DEF Good
  <2> HIDE DEF r
  <2>6. ASSUME NEW m \in Line, Len(q.lines) < MaxLines PROVE r.sent[m] = q.sent[m]
    <3>1. CASE m \in Members(q.lines) BY <2>2, <2>5, <2>6, <3>1
    <3>2. CASE m \notin Members(q.lines)
      <4>1. q.sent[m] = "no" BY <3>2, UnqueuedUnstamped
      <4> QED BY <2>5, <4>1
    <3> QED BY <3>1, <3>2
  <2> QED BY <1>2, <2>1, <2>3, <2>4, <2>5, <2>6
<1> QED BY <1>1, <1>2

-----------------------------------------------------------------------------
(* The steps of the system.                                                 *)

LEMMA BecomesIs ==
  ASSUME NEW r \in QueueType, Becomes(r)
  PROVE  Queue' = r
<1>1. r = [lines |-> r.lines, attempts |-> r.attempts, sent |-> r.sent,
           timers |-> r.timers, composer |-> r.composer, fresh |-> r.fresh]
  BY DEF QueueType
<1> QED BY <1>1 DEF Becomes, Queue

Calm(q, R) == Good(q) /\ Counted(q, R)

WorkTyped ==
  /\ turns \subseteq TurnKeys /\ blocked \subseteq Session /\ running \subseteq Session
  /\ arrivals \in 0..MaxArrivals /\ restarts \in 0..MaxRestarts
  /\ stops \in 0..MaxStops /\ faults \in 0..MaxFaults

(* The inductive invariant.                                                 *)
Inv == Calm(Queue, restarts) /\ WorkTyped

LEMMA Throwing ==
  ASSUME WorkTyped, NEW T \in Throws
  PROVE  faults + Cardinality(T) \in 0..MaxFaults
<1>1. IsFiniteSet(T) /\ faults + Cardinality(T) <= MaxFaults BY DEF Throws
<1>2. Cardinality(T) \in Nat BY <1>1, FS_CardinalityType
<1>3. faults \in Nat BY DEF WorkTyped
<1>4. MaxFaults \in Nat BY QueueAssumption
<1> QED BY <1>1, <1>2, <1>3, <1>4

LEMMA DrainCalm ==
  ASSUME NEW R \in Nat, NEW q, Calm(q, R), NEW S \in SUBSET Session, NEW O, NEW T
  PROVE  Calm(Drain(q, S, O, T), R)
  BY DrainGood DEF Calm

LEMMA ReleasedAreSessions ==
  ASSUME NEW ts \in SUBSET TurnKeys, NEW bs
  PROVE  OpenedTurns(ts) \in SUBSET Session /\ BecameDeliverable(ts, bs) \in SUBSET Session
  BY QueueAssumption DEF OpenedTurns, BecameDeliverable

LEMMA CommitWorkCalm ==
  ASSUME NEW R \in Nat, NEW q, Calm(q, R), NEW ts \in SUBSET TurnKeys, NEW bs, NEW rs,
         NEW A \in SUBSET Session, NEW T
  PROVE  Calm(CommitWork(q, ts, bs, rs, A, T), R)
<1> DEFINE c == Confirm(q, OpenedTurns(ts))
           O == Open(ts, bs, rs)
           B == BecameDeliverable(ts, bs)
<1>1. OpenedTurns(ts) \in SUBSET Session /\ B \in SUBSET Session /\ Session \in SUBSET Session
  BY ReleasedAreSessions
<1>2. Calm(c, R) BY <1>1, ConfirmGood DEF Calm
<1> HIDE DEF c, O, B
<1>3. Calm(Drain(c, Session, O, T), R) BY <1>1, <1>2, DrainCalm
<1>4. Calm(Drain(Drain(c, Session, O, T), A, O, T), R) BY <1>3, DrainCalm
<1>5. Calm(Drain(c, B, O, T), R) BY <1>1, <1>2, DrainCalm
<1> QED BY <1>4, <1>5 DEF CommitWork, c, O, B

LEMMA WorkMovesCalm ==
  ASSUME NEW R \in Nat, NEW q, Calm(q, R), WorkTyped,
         NEW ts \in SUBSET TurnKeys, NEW bs \in SUBSET Session, NEW rs \in SUBSET Session,
         NEW listed \in BOOLEAN, WorkMoves(q, ts, bs, rs, listed)
  PROVE  /\ Calm(Queue', R)
         /\ turns' = ts /\ blocked' = bs /\ running' = rs /\ faults' \in 0..MaxFaults
<1>1. PICK A \in SUBSET BecameDeliverable(ts, bs), T \in Throws :
        LET done == CommitWork(q, ts, bs, rs, A, T)
        IN  /\ Becomes(IF listed THEN Drain(done, Session, Open(ts, bs, rs), T) ELSE done)
            /\ faults' = faults + Cardinality(T)
  BY DEF WorkMoves
<1> DEFINE d == CommitWork(q, ts, bs, rs, A, T)
           O == Open(ts, bs, rs)
           r == IF listed THEN Drain(d, Session, O, T) ELSE d
<1>2. Calm(d, R) BY ReleasedAreSessions, CommitWorkCalm
<1>3. Becomes(r) /\ faults' = faults + Cardinality(T) BY <1>1
<1> HIDE DEF d, O
<1>4. Calm(Drain(d, Session, O, T), R) BY <1>2, DrainCalm
<1>5. Calm(r, R) BY <1>2, <1>4
<1> HIDE DEF r
<1>6. Queue' = r BY <1>3, <1>5, BecomesIs DEF Calm, Good
<1>7. faults' \in 0..MaxFaults BY <1>3, Throwing
<1> QED BY <1>5, <1>6, <1>7 DEF WorkMoves

LEMMA DrainOnlyCalm ==
  ASSUME NEW R \in Nat, NEW q, Calm(q, R), WorkTyped, NEW S \in SUBSET Session, DrainOnly(q, S)
  PROVE  /\ Calm(Queue', R)
         /\ UNCHANGED workVars /\ faults' \in 0..MaxFaults
<1>1. PICK T \in Throws :
        /\ Becomes(Drain(q, S, Open(turns, blocked, running), T))
        /\ faults' = faults + Cardinality(T)
  BY DEF DrainOnly
<1> DEFINE r == Drain(q, S, Open(turns, blocked, running), T)
<1>2. Calm(r, R) BY DrainCalm
<1> HIDE DEF r
<1>3. Queue' = r BY <1>1, <1>2, BecomesIs DEF Calm, Good, r
<1>4. faults' \in 0..MaxFaults BY <1>1, Throwing
<1> QED BY <1>2, <1>3, <1>4 DEF DrainOnly

LEMMA InitInv == Init => Inv
<1> SUFFICES ASSUME Init PROVE Inv OBVIOUS
<1>1. Queue \in QueueType BY DEF Init, Queue, QueueType, Stamps, Timing
<1>2. Listed(Queue.lines)
  <2>1. Queue.lines = <<>> BY DEF Init, Queue
  <2>2. MaxLines \in Nat BY QueueAssumption
  <2> QED BY <2>1, <2>2 DEF Listed, Distinct
<1>3. \A l \in Line : Queue.sent[l] = "no" /\ Queue.attempts[l] = 0 BY DEF Init, Queue
<1>4. \A s \in Session : Queue.timers[s] = "off" BY DEF Init, Queue
<1>5. Good(Queue) BY <1>1, <1>2, <1>3, <1>4 DEF Good, Stamped, Timed, Waits, Lapsed
<1>6. Counted(Queue, restarts)
  <2>1. MaxAttempts \in Nat \ {0} /\ restarts = 0 BY QueueAssumption DEF Init
  <2> QED BY <1>3, <2>1 DEF Counted
<1>7. WorkTyped BY QueueAssumption DEF Init, WorkTyped
<1> QED BY <1>5, <1>6, <1>7 DEF Inv, Calm

(* The steps that touch the queue without a drain.                          *)
LEMMA WindowCalm ==
  ASSUME Inv, NEW s \in Session, WindowPasses(s)
  PROVE  Calm(Queue', restarts)
<1> DEFINE q == Queue
           r == Queue'
<1>0. Good(q) /\ Counted(q, restarts) BY DEF Inv, Calm
<1>1. /\ q \in QueueType
      /\ r.lines = q.lines /\ r.attempts = q.attempts /\ r.composer = q.composer
      /\ r.fresh = q.fresh \ {s}
      /\ r.sent = [l \in Line |-> IF SessionOf[l] = s /\ q.sent[l] = "waiting"
                                  THEN "overdue" ELSE q.sent[l]]
      /\ r.timers = [q.timers EXCEPT ![s] = IF @ = "armed" THEN "due" ELSE @]
      /\ r = [lines |-> r.lines, attempts |-> r.attempts, sent |-> r.sent,
              timers |-> r.timers, composer |-> r.composer, fresh |-> r.fresh]
  BY <1>0 DEF WindowPasses, Queue, Good
<1> HIDE DEF q, r
<1>2. r \in QueueType
  <2>1. r.sent \in [Line -> Stamps] BY <1>1 DEF QueueType, Stamps
  <2>2. r.timers \in [Session -> Timing] BY <1>1 DEF QueueType, Timing
  <2> QED BY <1>1, <2>1, <2>2 DEF QueueType
<1>3. Stamped(r) BY <1>0, <1>1 DEF Good, Stamped
<1>4. Timed(r)
  <2> SUFFICES ASSUME NEW x \in Session
               PROVE  /\ Waits(r, x) <=> r.timers[x] = "armed"
                      /\ r.timers[x] = "due" => Lapsed(r, x)
    BY DEF Timed
  <2>0. (Waits(q, x) <=> q.timers[x] = "armed") /\ (q.timers[x] = "due" => Lapsed(q, x))
    BY <1>0 DEF Good, Timed
  <2>1. CASE x # s
    <3>1. r.timers[x] = q.timers[x] BY <1>1, <2>1 DEF QueueType
    <3>2. \A l \in Line : SessionOf[l] = x => r.sent[l] = q.sent[l] BY <1>1, <2>1
    <3> QED BY <2>0, <3>1, <3>2 DEF Waits, Lapsed
  <2>2. CASE x = s
    <3>1. r.timers[x] = IF q.timers[x] = "armed" THEN "due" ELSE q.timers[x]
      BY <1>1, <2>2 DEF QueueType
    <3>2. \A l \in Line : SessionOf[l] = x =>
             r.sent[l] = IF q.sent[l] = "waiting" THEN "overdue" ELSE q.sent[l]
      BY <1>1, <2>2
    <3>3. ~Waits(r, x) BY <3>2 DEF Waits
    <3>4. Waits(q, x) \/ Lapsed(q, x) => Lapsed(r, x) BY <3>2 DEF Waits, Lapsed
    <3> QED BY <2>0, <3>1, <3>3, <3>4
  <2> QED BY <2>1, <2>2
<1>5. Counted(r, restarts)
  <2>1. \A l \in Line : r.attempts[l] = q.attempts[l] /\ (r.sent[l] = "no" => q.sent[l] = "no") BY <1>1
  <2> QED BY <1>0, <2>1 DEF Counted
<1> QED BY <1>0, <1>1, <1>2, <1>3, <1>4, <1>5 DEF Calm, Good, r

LEMMA RestartCalm ==
  ASSUME Inv, Restart
  PROVE  Calm(Queue', restarts')
<1> DEFINE q == Queue
           r == Queue'
<1>0. Good(q) /\ Counted(q, restarts) /\ restarts \in Nat /\ restarts' = restarts + 1
  BY DEF Inv, Calm, WorkTyped, Restart
<1>1. /\ q \in QueueType
      /\ r = [lines |-> q.lines, attempts |-> q.attempts, sent |-> [l \in Line |-> "no"],
              timers |-> [s \in Session |-> "off"], composer |-> [s \in Session |-> {}],
              fresh |-> {}]
  BY <1>0 DEF Restart, Becomes, AsUnsubmitted, Queue, Good
<1> HIDE DEF q, r
<1>2. r \in QueueType BY <1>1 DEF QueueType, Stamps, Timing
<1>3. Good(r) BY <1>0, <1>1, <1>2 DEF Good, Stamped, Timed, Waits, Lapsed
<1>4. Counted(r, restarts')
  <2>1. MaxAttempts \in Nat /\ q.attempts \in [Line -> Nat] BY <1>1, QueueAssumption DEF QueueType
  <2>2. r.attempts = q.attempts BY <1>1
  <2> SUFFICES ASSUME NEW l \in Line PROVE r.attempts[l] < MaxAttempts + restarts'
    BY <1>0, <2>1, <2>2 DEF Counted
  <2>3. q.attempts[l] <= MaxAttempts + restarts /\ q.attempts[l] \in Nat BY <1>0, <2>1 DEF Counted
  <2> QED BY <1>0, <2>1, <2>2, <2>3
<1> QED BY <1>3, <1>4 DEF Calm, r

(* A stop takes the agent's composer, an expired timer is off.              *)
LEMMA EditedCalm ==
  ASSUME Inv, NEW s \in Session
  PROVE  /\ Calm([Queue EXCEPT !.composer[s] = {}, !.fresh = @ \ {s}], restarts)
         /\ timers[s] = "due" => Calm([Queue EXCEPT !.timers[s] = "off"], restarts)
<1> DEFINE q == Queue
<1>0. Good(q) /\ Counted(q, restarts) /\ q \in QueueType /\ q.timers = timers
  BY DEF Inv, Calm, Good, Queue
<1> HIDE DEF q
<1>1. Calm([q EXCEPT !.composer[s] = {}, !.fresh = @ \ {s}], restarts)
  <2> DEFINE r == [q EXCEPT !.composer[s] = {}, !.fresh = @ \ {s}]
  <2>1. /\ r \in QueueType /\ r.lines = q.lines /\ r.sent = q.sent /\ r.attempts = q.attempts
        /\ r.timers = q.timers
    BY <1>0 DEF QueueType
  <2> HIDE DEF r
  <2>2. Good(r) BY <1>0, <2>1 DEF Good, Stamped, Timed, Waits, Lapsed
  <2>3. Counted(r, restarts) BY <1>0, <2>1 DEF Counted
  <2> QED BY <2>2, <2>3 DEF Calm, r
<1>2. ASSUME timers[s] = "due" PROVE Calm([q EXCEPT !.timers[s] = "off"], restarts)
  <2> DEFINE r == [q EXCEPT !.timers[s] = "off"]
  <2>1. /\ r \in QueueType /\ r.lines = q.lines /\ r.sent = q.sent /\ r.attempts = q.attempts
        /\ r.timers = [q.timers EXCEPT ![s] = "off"]
    BY <1>0 DEF QueueType, Timing
  <2> HIDE DEF r
  <2>2. Timed(r)
    <3> SUFFICES ASSUME NEW x \in Session
                 PROVE  /\ Waits(r, x) <=> r.timers[x] = "armed"
                        /\ r.timers[x] = "due" => Lapsed(r, x)
      BY DEF Timed
    <3>1. (Waits(q, x) <=> q.timers[x] = "armed") /\ (q.timers[x] = "due" => Lapsed(q, x))
      BY <1>0 DEF Good, Timed
    <3>2. (Waits(r, x) <=> Waits(q, x)) /\ (Lapsed(r, x) <=> Lapsed(q, x))
      BY <2>1 DEF Waits, Lapsed
    <3>3. r.timers[x] = IF x = s THEN "off" ELSE q.timers[x] BY <1>0, <2>1 DEF QueueType
    <3> QED BY <1>0, <1>2, <3>1, <3>2, <3>3
  <2>3. Good(r) BY <1>0, <2>1, <2>2 DEF Good, Stamped
  <2>4. Counted(r, restarts) BY <1>0, <2>1 DEF Counted
  <2> QED BY <2>3, <2>4 DEF Calm, r
<1> QED BY <1>1, <1>2 DEF q

LEMMA NextInv == Inv /\ [Next]_vars => Inv'
<1> SUFFICES ASSUME Inv, [Next]_vars PROVE Inv' OBVIOUS
<1> USE DEF Inv
<1>0. /\ Calm(Queue, restarts) /\ Good(Queue) /\ WorkTyped /\ restarts \in Nat
      /\ turns \in SUBSET TurnKeys /\ blocked \in SUBSET Session /\ running \in SUBSET Session
  BY DEF Calm, WorkTyped
<1>a. MaxArrivals \in Nat /\ MaxStops \in Nat /\ MaxRestarts \in Nat BY QueueAssumption
<1>1. ASSUME NEW l \in Line, Arrive(l) PROVE Inv'
  <2>1. Calm(Enqueued(Queue, l), restarts) BY <1>0, EnqueuedGood DEF Calm
  <2>2. {SessionOf[l]} \in SUBSET Session BY QueueAssumption
  <2>3. Calm(Queue', restarts) /\ UNCHANGED workVars /\ faults' \in 0..MaxFaults
    BY <1>0, <1>1, <2>1, <2>2, DrainOnlyCalm DEF Arrive
  <2> QED BY <1>0, <1>1, <1>a, <2>3 DEF Arrive, WorkTyped, workVars
<1>2. ASSUME NEW k \in TurnKeys, TurnOpens(k) PROVE Inv'
  <2>1. PICK bs \in {blocked, blocked \ {k}} : WorkMoves(Queue, turns \cup {k}, bs, running, FALSE)
    BY <1>2 DEF TurnOpens
  <2>2. bs \in SUBSET Session /\ turns \cup {k} \in SUBSET TurnKeys BY <1>0
  <2>3. /\ Calm(Queue', restarts) /\ faults' \in 0..MaxFaults
        /\ turns' = turns \cup {k} /\ blocked' = bs /\ running' = running
    BY <1>0, <2>1, <2>2, WorkMovesCalm
  <2> QED BY <1>0, <1>2, <2>2, <2>3 DEF TurnOpens, WorkTyped
<1>3. ASSUME NEW k \in TurnKeys, TurnCloses(k) PROVE Inv'
  <2>1. PICK bs \in {blocked, blocked \ {k}} : WorkMoves(Queue, turns \ {k}, bs, running, FALSE)
    BY <1>3 DEF TurnCloses
  <2>2. bs \in SUBSET Session /\ turns \ {k} \in SUBSET TurnKeys BY <1>0
  <2>3. /\ Calm(Queue', restarts) /\ faults' \in 0..MaxFaults
        /\ turns' = turns \ {k} /\ blocked' = bs /\ running' = running
    BY <1>0, <2>1, <2>2, WorkMovesCalm
  <2> QED BY <1>0, <1>3, <2>2, <2>3 DEF TurnCloses, WorkTyped
<1>4. ASSUME NEW s \in Session, Blocks(s) PROVE Inv'
  <2>1. blocked \cup {s} \in SUBSET Session BY <1>0
  <2>2. /\ Calm(Queue', restarts) /\ faults' \in 0..MaxFaults
        /\ turns' = turns /\ blocked' = blocked \cup {s} /\ running' = running
    BY <1>0, <1>4, <2>1, WorkMovesCalm DEF Blocks
  <2> QED BY <1>0, <1>4, <2>1, <2>2 DEF Blocks, WorkTyped
<1>5. ASSUME NEW s \in Session, Unblocks(s) PROVE Inv'
  <2>1. blocked \ {s} \in SUBSET Session BY <1>0
  <2>2. /\ Calm(Queue', restarts) /\ faults' \in 0..MaxFaults
        /\ turns' = turns /\ blocked' = blocked \ {s} /\ running' = running
    BY <1>0, <1>5, <2>1, WorkMovesCalm DEF Unblocks
  <2> QED BY <1>0, <1>5, <2>1, <2>2 DEF Unblocks, WorkTyped
<1>6. ASSUME NEW s \in Session, SessionStarts(s) PROVE Inv'
  <2>1. PICK ts \in {turns, turns \cup ({s} \cap TurnKeys)} :
          WorkMoves(Queue, ts, blocked, running \cup {s}, TRUE)
    BY <1>6 DEF SessionStarts
  <2>2. ts \in SUBSET TurnKeys /\ running \cup {s} \in SUBSET Session BY <1>0
  <2>3. /\ Calm(Queue', restarts) /\ faults' \in 0..MaxFaults
        /\ turns' = ts /\ blocked' = blocked /\ running' = running \cup {s}
    BY <1>0, <2>1, <2>2, WorkMovesCalm
  <2> QED BY <1>0, <1>6, <2>2, <2>3 DEF SessionStarts, WorkTyped
<1>7. ASSUME NEW s \in Session, SessionStops(s) PROVE Inv'
  <2> DEFINE live == running \ {s}
             ts == {k \in turns : IF k = Unattributed THEN live # {} ELSE k \in live}
             q == [Queue EXCEPT !.composer[s] = {}, !.fresh = @ \ {s}]
  <2>1. WorkMoves(q, ts, blocked \ {s}, live, TRUE) BY <1>7 DEF SessionStops
  <2>2. ts \in SUBSET TurnKeys /\ blocked \ {s} \in SUBSET Session /\ live \in SUBSET Session BY <1>0
  <2>3. Calm(q, restarts) BY EditedCalm
  <2> HIDE DEF q, ts, live
  <2>4. /\ Calm(Queue', restarts) /\ faults' \in 0..MaxFaults
        /\ turns' = ts /\ blocked' = blocked \ {s} /\ running' = live
    BY <1>0, <2>1, <2>2, <2>3, WorkMovesCalm
  <2> QED BY <1>0, <1>7, <1>a, <2>2, <2>4 DEF SessionStops, WorkTyped
<1>8. ASSUME NEW s \in Session, WindowPasses(s) PROVE Inv'
  <2>1. Calm(Queue', restarts) BY <1>8, WindowCalm
  <2> QED BY <1>0, <1>8, <2>1 DEF WindowPasses, WorkTyped, workVars, counters
<1>9. ASSUME NEW s \in Session, TimerFires(s) PROVE Inv'
  <2> DEFINE q == [Queue EXCEPT !.timers[s] = "off"]
  <2>1. Calm(q, restarts) BY <1>9, EditedCalm DEF TimerFires
  <2>2. DrainOnly(q, {s}) /\ {s} \in SUBSET Session BY <1>9 DEF TimerFires
  <2> HIDE DEF q
  <2>3. Calm(Queue', restarts) /\ UNCHANGED workVars /\ faults' \in 0..MaxFaults
    BY <1>0, <2>1, <2>2, DrainOnlyCalm
  <2> QED BY <1>0, <1>9, <2>3 DEF TimerFires, WorkTyped, workVars
<1>10. ASSUME NEW s \in Session, Forget(s) PROVE Inv'
  <2> DEFINE t == Without(lines, LinesOf({s}))
             r == Commit(Queue, t)
  <2>1. lines = Queue.lines BY DEF Queue
  <2>2. Shortened(t, Queue.lines) /\ t \in Seq(Line)
    BY <1>0, <2>1, WithoutShortens DEF Good, Shortened, Listed
  <2>3. Becomes(r) BY <1>10 DEF Forget
  <2> HIDE DEF t
  <2>4. Good(r) BY <1>0, <2>2, CommitGood
  <2>5. Counted(r, restarts) BY <1>0, <2>2, CommitCounted DEF Calm
  <2> HIDE DEF r
  <2>6. Queue' = r BY <2>3, <2>4, BecomesIs DEF Good
  <2>7. Calm(Queue', restarts) BY <2>4, <2>5, <2>6 DEF Calm
  <2> QED BY <1>0, <1>10, <2>7 DEF Forget, WorkTyped, workVars, counters
<1>11. ASSUME SessionUpdated PROVE Inv'
  <2>1. Session \in SUBSET Session OBVIOUS
  <2>2. Calm(Queue', restarts) /\ UNCHANGED workVars /\ faults' \in 0..MaxFaults
    BY <1>0, <1>11, <2>1, DrainOnlyCalm DEF SessionUpdated
  <2> QED BY <1>0, <1>11, <2>2 DEF SessionUpdated, WorkTyped, workVars
<1>12. ASSUME Restart PROVE Inv'
  <2>1. Calm(Queue', restarts') BY <1>12, RestartCalm
  <2> QED BY <1>0, <1>12, <1>a, <2>1 DEF Restart, WorkTyped
<1>13. ASSUME UNCHANGED vars PROVE Inv'
  <2>1. Queue' = Queue /\ UNCHANGED <<workVars, counters>> BY <1>13 DEF vars, queueVars, Queue
  <2> QED BY <1>0, <2>1 DEF workVars, counters, WorkTyped
<1> QED
  BY <1>1, <1>2, <1>3, <1>4, <1>5, <1>6, <1>7, <1>8, <1>9, <1>10, <1>11, <1>12, <1>13 DEF Next

LEMMA AlwaysInv == Spec => []Inv
<1>1. Init => Inv BY InitInv
<1>2. Inv /\ [Next]_vars => Inv' BY NextInv
<1> QED BY <1>1, <1>2, PTL DEF Spec

(* Orphaned lines are queued lines, so they are lines.                      *)
LEMMA NextOrphans ==
  ASSUME Inv', orphaned \subseteq Line, [Next]_vars
  PROVE  orphaned' \subseteq Line
<1>1. ToSet(lines') \subseteq Line
  <2>1. lines' \in Seq(Line) BY DEF Inv, Calm, Good, Listed, Queue
  <2> QED BY <2>1 DEF ToSet
<1>2. \A rs : Orphans(rs) \subseteq Line BY <1>1 DEF Orphans
<1>3. \A q, ts, bs, rs, listed : WorkMoves(q, ts, bs, rs, listed) => orphaned' \subseteq Line
  BY <1>2, Zenon DEF WorkMoves
<1>4. \A q, S : DrainOnly(q, S) => orphaned' \subseteq Line BY <1>2, Zenon DEF DrainOnly
<1>5. ASSUME NEW l \in Line, Arrive(l) PROVE orphaned' \subseteq Line BY <1>4, <1>5, Zenon DEF Arrive
<1>6. ASSUME NEW k \in TurnKeys, TurnOpens(k) \/ TurnCloses(k) PROVE orphaned' \subseteq Line
  BY <1>3, <1>6, Zenon DEF TurnOpens, TurnCloses
<1>7. ASSUME NEW s \in Session, Blocks(s) \/ Unblocks(s) \/ SessionStarts(s) \/ SessionStops(s)
      PROVE  orphaned' \subseteq Line
  BY <1>3, <1>7, Zenon DEF Blocks, Unblocks, SessionStarts, SessionStops
<1>8. ASSUME NEW s \in Session, WindowPasses(s) \/ Forget(s) PROVE orphaned' \subseteq Line
  BY <1>2, <1>8, Zenon DEF WindowPasses, Forget
<1>9. ASSUME NEW s \in Session, TimerFires(s) PROVE orphaned' \subseteq Line BY <1>4, <1>9, Zenon DEF TimerFires
<1>10. ASSUME SessionUpdated PROVE orphaned' \subseteq Line BY <1>4, <1>10, Zenon DEF SessionUpdated
<1>11. ASSUME Restart PROVE orphaned' \subseteq Line BY <1>11 DEF Restart
<1>12. ASSUME UNCHANGED vars PROVE orphaned' \subseteq Line BY <1>12 DEF vars
<1> QED BY <1>5, <1>6, <1>7, <1>8, <1>9, <1>10, <1>11, <1>12 DEF Next

LEMMA AlwaysOrphans == Spec => [](orphaned \subseteq Line)
<1>1. Init => orphaned \subseteq Line BY DEF Init
<1>2. Inv' /\ orphaned \subseteq Line /\ [Next]_vars => (orphaned \subseteq Line)' BY NextOrphans
<1> QED BY <1>1, <1>2, AlwaysInv, PTL DEF Spec

(* The queue holds each line once and within its cap, whatever arrives and  *)
(* whatever the drains take out or put back (enqueueLine, commit).          *)
THEOREM DeliveryTypeCorrect == Spec => []TypeOK
<1>1. ASSUME Inv, orphaned \subseteq Line PROVE TypeOK
  <2>1. Queue \in QueueType /\ Listed(lines) BY <1>1 DEF Inv, Calm, Good, Queue
  <2>2. /\ attempts \in [Line -> Nat] /\ sent \in [Line -> Stamps] /\ timers \in [Session -> Timing]
        /\ composer \in [Session -> SUBSET Line] /\ fresh \in SUBSET Session
    BY <2>1 DEF Queue, QueueType
  <2>3. lines \in Seq(Line) /\ Len(lines) <= MaxLines /\ \A i, j \in DOMAIN lines : lines[i] = lines[j] => i = j
    BY <2>1 DEF Listed, Distinct
  <2> QED BY <1>1, <2>2, <2>3 DEF TypeOK, Inv, WorkTyped, Stamps, Timing
<1> QED BY <1>1, AlwaysInv, AlwaysOrphans, PTL

(* Only the first line of a session is ever outstanding (drain, confirm).   *)
THEOREM OnlyHeadsAreStamped == Spec => []StampedIsHead
<1>1. ASSUME Inv PROVE StampedIsHead
  BY <1>1 DEF Inv, Calm, Good, Stamped, Queue, StampedIsHead
<1> QED BY <1>1, AlwaysInv, PTL

(* A line that waits for its turn has a running confirm timer, and a timer  *)
(* has a line (armConfirm, and the clearing of timers in commit).           *)
THEOREM WaitsAreTimed == Spec => []WaitIsTimed
<1>1. ASSUME Inv PROVE WaitIsTimed
  <2>1. Timed(Queue) /\ Queue.sent = sent /\ Queue.timers = timers BY <1>1 DEF Inv, Calm, Good, Queue
  <2>2. \A s \in Session : \A l : l \in LinesOf({s}) <=> l \in Line /\ SessionOf[l] = s BY DEF LinesOf
  <2> QED BY <2>1, <2>2 DEF Timed, Waits, Lapsed, WaitIsTimed
<1> QED BY <1>1, AlwaysInv, PTL

(* A line is handed over at most MaxAttempts times, and once more for each  *)
(* restart (the attempts check of drain).                                   *)
THEOREM HandedOverAtMost == Spec => []HandedAtMost
<1>1. ASSUME Inv PROVE HandedAtMost
  <2>1. Counted(Queue, restarts) /\ Queue.attempts = attempts BY <1>1 DEF Inv, Calm, Queue
  <2> QED BY <2>1 DEF Counted, HandedAtMost
<1> QED BY <1>1, AlwaysInv, PTL

-----------------------------------------------------------------------------
(* What goes into the composers.                                            *)

(* From q to r lines went only into sessions of O, and into an announcing   *)
(* session at most one, which it now waits for, and none while it waited;   *)
(* elsewhere a line has left the queue or carries a stamp only if it did.   *)
Gives(q, r, O) ==
  /\ \A s \in Session : q.composer[s] \subseteq r.composer[s]
  /\ \A s \in Session : s \notin O => r.composer[s] = q.composer[s]
  /\ \A s \in Announcing : Waits(q, s) => Waits(r, s) /\ r.composer[s] = q.composer[s]
  /\ \A s \in Announcing :
       \/ r.composer[s] = q.composer[s]
       \/ Waits(r, s) /\ \E l \in Line : r.composer[s] = q.composer[s] \cup {l}
  /\ \A s \in r.fresh : s \in q.fresh \/ (s \in O /\ (s \in Announcing => Waits(r, s)))
  /\ \A l \in Line : SessionOf[l] \notin O /\ r.sent[l] # "no" => q.sent[l] # "no"
  /\ \A l \in Line : l \in Members(q.lines) /\ l \notin Members(r.lines) /\ SessionOf[l] \notin O
                       => q.sent[l] # "no"
  /\ \A l \in Line : r.sent[l] # "no" => q.sent[l] # "no" \/ l \in r.composer[SessionOf[l]]

LEMMA GivesTwice ==
  ASSUME NEW a, NEW b, NEW c, NEW O, Gives(a, b, O), Gives(b, c, O)
  PROVE  Gives(a, c, O)
<1>0. Announcing \subseteq Session /\ \A l \in Line : SessionOf[l] \in Session BY QueueAssumption
<1>1. \A s \in Session : a.composer[s] \subseteq c.composer[s] BY DEF Gives
<1>2. \A s \in Session : s \notin O => c.composer[s] = a.composer[s] BY DEF Gives
<1>3. \A s \in Announcing : Waits(a, s) => Waits(c, s) /\ c.composer[s] = a.composer[s] BY DEF Gives
<1>4. ASSUME NEW s \in Announcing
      PROVE  \/ c.composer[s] = a.composer[s]
             \/ Waits(c, s) /\ \E l \in Line : c.composer[s] = a.composer[s] \cup {l}
  <2>1. CASE b.composer[s] = a.composer[s] BY <2>1 DEF Gives
  <2>2. CASE Waits(b, s) /\ \E l \in Line : b.composer[s] = a.composer[s] \cup {l}
    <3>1. Waits(c, s) /\ c.composer[s] = b.composer[s] BY <2>2 DEF Gives
    <3> QED BY <2>2, <3>1
  <2> QED BY <2>1, <2>2 DEF Gives
<1>5. \A s \in c.fresh : s \in a.fresh \/ (s \in O /\ (s \in Announcing => Waits(c, s))) BY DEF Gives
<1>6. \A l \in Line : SessionOf[l] \notin O /\ c.sent[l] # "no" => a.sent[l] # "no" BY DEF Gives
<1>7. ASSUME NEW l \in Line, l \in Members(a.lines), l \notin Members(c.lines), SessionOf[l] \notin O
      PROVE  a.sent[l] # "no"
  <2>1. CASE l \in Members(b.lines)
    <3>1. b.sent[l] # "no" BY <1>7, <2>1 DEF Gives
    <3> QED BY <1>7, <3>1 DEF Gives
  <2>2. CASE l \notin Members(b.lines) BY <1>7, <2>2 DEF Gives
  <2> QED BY <2>1, <2>2
<1>8. ASSUME NEW l \in Line, c.sent[l] # "no" PROVE a.sent[l] # "no" \/ l \in c.composer[SessionOf[l]]
  <2>1. b.sent[l] # "no" \/ l \in c.composer[SessionOf[l]] BY <1>8 DEF Gives
  <2>2. b.sent[l] # "no" => a.sent[l] # "no" \/ l \in b.composer[SessionOf[l]] BY DEF Gives
  <2>3. b.composer[SessionOf[l]] \subseteq c.composer[SessionOf[l]] BY <1>0 DEF Gives
  <2> QED BY <2>1, <2>2, <2>3
<1> QED BY <1>1, <1>2, <1>3, <1>4, <1>5, <1>6, <1>7, <1>8 DEF Gives

LEMMA DrainGives ==
  ASSUME NEW q, Good(q), NEW S \in SUBSET Session, NEW O, NEW T
  PROVE  Gives(q, Drain(q, S, O, T), O)
<1> DEFINE k == Kept(q, S)
           g == Goes(q, S, O, T)
           d == Dropped(q, S)
           r == Drain(q, S, O, T)
<1>1. /\ r = Submitted(k, g) /\ Good(k) /\ AreDue(k, g) /\ \A l \in g : SessionOf[l] \in O
      /\ k.composer = q.composer /\ k.fresh = q.fresh
      /\ Members(k.lines) = Members(q.lines) \ d
      /\ \A l \in Line : k.sent[l] = IF l \in d THEN "no" ELSE q.sent[l]
  BY DrainParts
<1>2. \A l \in d : q.sent[l] = "overdue" BY DEF Dropped, Spent
<1> HIDE DEF k, g, d, r
<1>3. /\ Members(r.lines) = Members(k.lines) \ (g \ Waiters(g))
      /\ \A l \in Line : l \in Waiters(g) => r.sent[l] = "waiting"
      /\ \A l \in Line : l \notin Waiters(g) => r.sent[l] = Left(k, g).sent[l]
      /\ \A l \in Line : l \notin g => r.sent[l] = k.sent[l]
      /\ \A s \in Session : r.composer[s] = k.composer[s] \cup {l \in g : SessionOf[l] = s}
      /\ r.fresh = k.fresh \cup {SessionOf[l] : l \in g}
  BY <1>1, SubmittedFields
<1>4. /\ Announcing \subseteq Session /\ \A l \in Line : SessionOf[l] \in Session
      /\ k.lines \in Seq(Line)
  BY <1>1, QueueAssumption DEF Good, Listed
<1>5. /\ g \subseteq Heads(k.lines, Session) /\ g \subseteq Line
      /\ \A l \in g : k.sent[l] # "waiting"
  BY <1>1, <1>4, HeadFacts DEF AreDue
<1>6. \A l \in g : l \in Waiters(g) <=> SessionOf[l] \in Announcing BY DEF Waiters
<1>7. \A l \in g : l \notin Waiters(g) => r.sent[l] = "no"
  <2> SUFFICES ASSUME NEW l \in g, l \notin Waiters(g) PROVE r.sent[l] = "no" OBVIOUS
  <2>1. l \in Line /\ r.sent[l] = Left(k, g).sent[l] BY <1>3, <1>5
  <2>2. Left(k, g).sent[l] = "no"
    <3> DEFINE L == g \ Waiters(g)
    <3>1. l \in L OBVIOUS
    <3> HIDE DEF L
    <3>2. \A x \in Line : Commit(k, Without(k.lines, L)).sent[x] = IF x \in L THEN "no" ELSE k.sent[x]
      BY <1>1, CommitWithout
    <3>3. Left(k, g) = Commit(k, Without(k.lines, L)) BY DEF Left, L
    <3> QED BY <2>1, <3>1, <3>2, <3>3
  <2> QED BY <2>1, <2>2
<1>8. \A l, m \in g : SessionOf[l] = SessionOf[m] => l = m BY <1>4, <1>5, HeadFacts
<1>9. \A s \in Session : q.composer[s] \subseteq r.composer[s] BY <1>1, <1>3
<1>10. ASSUME NEW s \in Session, \A l \in g : SessionOf[l] # s PROVE r.composer[s] = q.composer[s]
  <2>1. {l \in g : SessionOf[l] = s} = {} BY <1>10
  <2>2. r.composer[s] = q.composer[s] \cup {l \in g : SessionOf[l] = s} BY <1>1, <1>3
  <2> QED BY <2>1, <2>2
<1>11. \A s \in Session : s \notin O => r.composer[s] = q.composer[s] BY <1>1, <1>10
<1>12. ASSUME NEW s \in Announcing, Waits(q, s) PROVE Waits(r, s) /\ r.composer[s] = q.composer[s]
  <2>1. PICK l \in Line : SessionOf[l] = s /\ q.sent[l] = "waiting" BY <1>12 DEF Waits
  <2>2. k.sent[l] = "waiting" BY <1>1, <1>2, <2>1
  <2>3. l \in Heads(k.lines, Announcing) BY <1>1, <2>2 DEF Good, Stamped
  <2>4. l \in Heads(k.lines, Session) BY <1>4, <2>1, <2>3, HeadFacts
  <2>5. \A m \in g : SessionOf[m] # s BY <1>4, <1>5, <2>1, <2>2, <2>4, HeadFacts
  <2>6. l \notin g /\ r.sent[l] = "waiting" BY <1>3, <2>1, <2>2, <2>5
  <2> QED BY <1>4, <1>10, <2>1, <2>5, <2>6 DEF Waits
<1>13. ASSUME NEW s \in Announcing, NEW m \in g, SessionOf[m] = s
       PROVE  Waits(r, s) /\ r.composer[s] = q.composer[s] \cup {m}
  <2>1. m \in Line /\ r.sent[m] = "waiting" BY <1>3, <1>5, <1>6, <1>13
  <2>2. {l \in g : SessionOf[l] = s} = {m} BY <1>8, <1>13
  <2> QED BY <1>1, <1>3, <1>4, <1>13, <2>1, <2>2 DEF Waits
<1>14. \A s \in Announcing :
         \/ r.composer[s] = q.composer[s]
         \/ Waits(r, s) /\ \E l \in Line : r.composer[s] = q.composer[s] \cup {l}
  BY <1>4, <1>5, <1>10, <1>13
<1>15. \A s \in r.fresh : s \in q.fresh \/ (s \in O /\ (s \in Announcing => Waits(r, s)))
  BY <1>1, <1>3, <1>13
<1>16. \A l \in Line : SessionOf[l] \notin O /\ r.sent[l] # "no" => q.sent[l] # "no"
  BY <1>1, <1>3
<1>17. \A l \in Line : l \in Members(q.lines) /\ l \notin Members(r.lines) /\ SessionOf[l] \notin O
                         => q.sent[l] # "no"
  BY <1>1, <1>2, <1>3
<1>18. ASSUME NEW l \in Line, r.sent[l] # "no" PROVE q.sent[l] # "no" \/ l \in r.composer[SessionOf[l]]
  <2>1. CASE l \in g BY <1>3, <1>4, <2>1
  <2>2. CASE l \notin g BY <1>1, <1>3, <1>18, <2>2
  <2> QED BY <2>1, <2>2
<1>19. Gives(q, r, O)
  BY <1>9, <1>11, <1>12, <1>14, <1>15, <1>16, <1>17, <1>18 DEF Gives
<1> QED BY <1>19 DEF r

(* The drains of a work-status change, after its confirm.                   *)
LEMMA WorkMovesGives ==
  ASSUME NEW R \in Nat, NEW q, Calm(q, R), WorkTyped,
         NEW ts \in SUBSET TurnKeys, NEW bs \in SUBSET Session, NEW rs \in SUBSET Session,
         NEW listed \in BOOLEAN, WorkMoves(q, ts, bs, rs, listed)
  PROVE  Gives(Confirm(q, OpenedTurns(ts)), Queue', Open(ts, bs, rs))
<1>1. PICK A \in SUBSET BecameDeliverable(ts, bs), T \in Throws :
        Becomes(IF listed THEN Drain(CommitWork(q, ts, bs, rs, A, T), Session, Open(ts, bs, rs), T)
                ELSE CommitWork(q, ts, bs, rs, A, T))
  BY DEF WorkMoves
<1> DEFINE d == CommitWork(q, ts, bs, rs, A, T)
           O == Open(ts, bs, rs)
           r == IF listed THEN Drain(d, Session, O, T) ELSE d
           c == Confirm(q, OpenedTurns(ts))
           B == BecameDeliverable(ts, bs)
<1>2. Calm(d, R) BY ReleasedAreSessions, CommitWorkCalm
<1>3. OpenedTurns(ts) \in SUBSET Session /\ B \in SUBSET Session /\ A \in SUBSET Session
  BY ReleasedAreSessions
<1>4. Good(c) BY <1>3, ConfirmGood DEF Calm
<1>5. d = IF Unattributed \in turns \ ts
          THEN Drain(Drain(c, Session, O, T), A, O, T) ELSE Drain(c, B, O, T)
  BY DEF CommitWork
<1>6. Becomes(r) BY <1>1
<1> HIDE DEF d, O, c, B
<1>7. Gives(c, d, O)
  <2>1. Good(Drain(c, Session, O, T)) BY <1>4, DrainGood
  <2>2. Gives(c, Drain(c, Session, O, T), O) BY <1>4, DrainGives
  <2>3. Gives(Drain(c, Session, O, T), Drain(Drain(c, Session, O, T), A, O, T), O)
    BY <1>3, <2>1, DrainGives
  <2>4. Gives(c, Drain(Drain(c, Session, O, T), A, O, T), O) BY <2>2, <2>3, GivesTwice
  <2>5. Gives(c, Drain(c, B, O, T), O) BY <1>3, <1>4, DrainGives
  <2> QED BY <1>5, <2>4, <2>5
<1>8. Good(d) BY <1>2 DEF Calm
<1>9. Gives(d, Drain(d, Session, O, T), O) /\ Good(Drain(d, Session, O, T)) BY <1>8, DrainGives, DrainGood
<1>10. Gives(c, Drain(d, Session, O, T), O) BY <1>7, <1>9, GivesTwice
<1>11. Gives(c, r, O) /\ Good(r) BY <1>7, <1>8, <1>9, <1>10
<1> HIDE DEF r
<1>12. Queue' = r BY <1>6, <1>11, BecomesIs DEF Good
<1> QED BY <1>11, <1>12 DEF c, O

LEMMA DrainOnlyGives ==
  ASSUME NEW R \in Nat, NEW q, Calm(q, R), NEW S \in SUBSET Session, DrainOnly(q, S)
  PROVE  Gives(q, Queue', Open(turns, blocked, running))
<1>1. PICK T \in Throws : Becomes(Drain(q, S, Open(turns, blocked, running), T)) BY DEF DrainOnly
<1> DEFINE O == Open(turns, blocked, running)
           r == Drain(q, S, O, T)
<1>2. Good(r) /\ Gives(q, r, O) BY DrainGood, DrainGives DEF Calm
<1> HIDE DEF r
<1>3. Queue' = r BY <1>1, <1>2, BecomesIs DEF Good, r
<1> QED BY <1>2, <1>3

(* A session that was given a line and has shown no turn since runs, and,   *)
(* if it announces turns, waits for that line.                              *)
Settled(q, rs) ==
  q.fresh \subseteq rs /\ \A s \in q.fresh \cap Announcing : Waits(q, s)

(* The agent of a stamped line has it, unless the line is one of L.         *)
Handed(q, L) == \A l \in Line : q.sent[l] # "no" => l \in q.composer[SessionOf[l]] \cup L

OneEach(q, r) ==
  \A s \in Announcing :
    r.composer[s] \ q.composer[s] # {} =>
      s \notin q.fresh /\ Cardinality(r.composer[s] \ q.composer[s]) = 1

LEMMA GivesSettles ==
  ASSUME NEW q, NEW r, NEW O, NEW rs, O \subseteq rs, Gives(q, r, O)
  PROVE  /\ Settled(q, rs) => Settled(r, rs) /\ OneEach(q, r)
         /\ \A L : Handed(q, L) => Handed(r, L)
<1>0. Announcing \subseteq Session /\ \A l \in Line : SessionOf[l] \in Session BY QueueAssumption
<1>1. ASSUME Settled(q, rs) PROVE Settled(r, rs)
  <2>1. ASSUME NEW s \in r.fresh PROVE s \in rs /\ (s \in Announcing => Waits(r, s))
    <3>1. CASE s \in q.fresh BY <1>1, <3>1 DEF Settled, Gives
    <3>2. CASE s \in O /\ (s \in Announcing => Waits(r, s)) BY <3>2
    <3> QED BY <3>1, <3>2 DEF Gives
  <2> QED BY <2>1 DEF Settled
<1>2. ASSUME Settled(q, rs) PROVE OneEach(q, r)
  <2> SUFFICES ASSUME NEW s \in Announcing, r.composer[s] \ q.composer[s] # {}
               PROVE  s \notin q.fresh /\ Cardinality(r.composer[s] \ q.composer[s]) = 1
    BY DEF OneEach
  <2>1. r.composer[s] # q.composer[s] OBVIOUS
  <2>2. s \notin q.fresh BY <1>2, <2>1 DEF Settled, Gives
  <2>3. PICK l \in Line : r.composer[s] = q.composer[s] \cup {l} BY <2>1 DEF Gives
  <2>4. r.composer[s] \ q.composer[s] = {l} BY <2>3
  <2>5. Cardinality({l}) = 1 BY FS_Singleton
  <2> QED BY <2>2, <2>4, <2>5
<1>3. ASSUME NEW L, Handed(q, L) PROVE Handed(r, L)
  <2> SUFFICES ASSUME NEW l \in Line, r.sent[l] # "no" PROVE l \in r.composer[SessionOf[l]] \cup L BY DEF Handed
  <2>1. q.sent[l] # "no" \/ l \in r.composer[SessionOf[l]] BY DEF Gives
  <2>2. q.composer[SessionOf[l]] \subseteq r.composer[SessionOf[l]] BY <1>0 DEF Gives
  <2> QED BY <1>3, <2>1, <2>2 DEF Handed
<1> QED BY <1>1, <1>2, <1>3

(* A change of the work status, as a confirm and what follows it.           *)
LEMMA MoveSettles ==
  ASSUME NEW q, Good(q), NEW r, NEW ts \in SUBSET TurnKeys, NEW bs, NEW rs,
         Gives(Confirm(q, OpenedTurns(ts)), r, Open(ts, bs, rs))
  PROVE  /\ Settled(q, rs) => Settled(r, rs) /\ OneEach(q, r)
         /\ \A L : Handed(q, L) => Handed(r, L)
         /\ \A s \in Session : s \notin rs => r.composer[s] \subseteq q.composer[s]
         /\ \A l \in Line :
              l \in Members(q.lines) /\ l \notin Members(r.lines) /\ SessionOf[l] \in OpenedTurns(ts)
                => q.sent[l] # "no"
<1> DEFINE N == OpenedTurns(ts)
           c == Confirm(q, N)
           O == Open(ts, bs, rs)
           taken == {l \in Heads(q.lines, N) : q.sent[l] # "no"}
<1>0. /\ Announcing \subseteq Session /\ \A l \in Line : SessionOf[l] \in Session
      /\ q.lines \in Seq(Line)
  BY QueueAssumption DEF Good, Listed
<1>1. N \in SUBSET Session BY ReleasedAreSessions
<1>2. O \subseteq rs BY DEF Open
<1>3. N \cap O = {} BY DEF OpenedTurns, Open, BusDeliverable, TurnOpenFor
<1>5. \A l \in taken : l \in Line /\ SessionOf[l] \in N /\ q.sent[l] # "no" BY <1>0, HeadFacts
<1>6. ASSUME NEW l \in Line, q.sent[l] # "no", SessionOf[l] \in N PROVE l \in taken
  <2>1. l \in Heads(q.lines, Announcing) BY <1>6 DEF Good, Stamped
  <2> HIDE DEF N
  <2>2. l \in Heads(q.lines, N) BY <1>0, <1>6, <2>1, HeadFacts
  <2> QED BY <1>6, <2>2
<1>4. /\ Members(c.lines) = Members(q.lines) \ taken
      /\ \A l \in Line : c.sent[l] = IF l \in taken THEN "no" ELSE q.sent[l]
      /\ c.composer = [s \in Session |-> IF s \in N THEN {} ELSE q.composer[s]]
      /\ c.fresh = q.fresh \ N
  <2> HIDE DEF N
  <2> QED BY <1>1, ConfirmGood
<1>7. Gives(c, r, O) OBVIOUS
<1> HIDE DEF N, c, O, taken
<1>8. ASSUME NEW s \in Session, s \notin N PROVE Waits(q, s) => Waits(c, s)
  BY <1>4, <1>5, <1>8 DEF Waits
<1>9. ASSUME Settled(q, rs) PROVE Settled(r, rs) /\ OneEach(q, r)
  <2>1. Settled(c, rs)
    <3>1. c.fresh \subseteq rs BY <1>4, <1>9 DEF Settled
    <3>2. \A s \in c.fresh \cap Announcing : Waits(c, s) BY <1>0, <1>4, <1>8, <1>9 DEF Settled
    <3> QED BY <3>1, <3>2 DEF Settled
  <2>2. Settled(r, rs) /\ OneEach(c, r) BY <1>2, <1>7, <2>1, GivesSettles
  <2>3. ASSUME NEW s \in Announcing, r.composer[s] \ q.composer[s] # {}
        PROVE  s \notin q.fresh /\ Cardinality(r.composer[s] \ q.composer[s]) = 1
    <3>1. s \in Session BY <1>0
    <3>2. s \notin N
      <4>1. SUFFICES ASSUME s \in N PROVE FALSE OBVIOUS
      <4>2. s \notin O BY <1>3, <4>1
      <4>3. r.composer[s] = {} BY <1>4, <1>7, <3>1, <4>1, <4>2 DEF Gives
      <4> QED BY <2>3, <4>3
    <3>3. c.composer[s] = q.composer[s] /\ (s \in q.fresh => s \in c.fresh) BY <1>4, <3>1, <3>2
    <3> QED BY <2>2, <2>3, <3>3 DEF OneEach
  <2> QED BY <2>2, <2>3 DEF OneEach
<1>10. ASSUME NEW L, Handed(q, L) PROVE Handed(r, L)
  <2>1. Handed(c, L)
    <3> SUFFICES ASSUME NEW l \in Line, c.sent[l] # "no" PROVE l \in c.composer[SessionOf[l]] \cup L BY DEF Handed
    <3>1. l \notin taken /\ q.sent[l] # "no" BY <1>4
    <3>2. SessionOf[l] \notin N BY <1>6, <3>1
    <3>3. c.composer[SessionOf[l]] = q.composer[SessionOf[l]] BY <1>0, <1>4, <3>2
    <3> QED BY <1>10, <3>1, <3>3 DEF Handed
  <2> QED BY <1>2, <1>7, <2>1, GivesSettles
<1>11. ASSUME NEW s \in Session, s \notin rs PROVE r.composer[s] \subseteq q.composer[s]
  <2>1. s \notin O BY <1>2, <1>11
  <2>2. r.composer[s] = c.composer[s] BY <1>7, <2>1 DEF Gives
  <2>3. c.composer[s] \subseteq q.composer[s] BY <1>4
  <2> QED BY <2>2, <2>3
<1>12. ASSUME NEW l \in Line, l \in Members(q.lines), l \notin Members(r.lines), SessionOf[l] \in N
       PROVE  q.sent[l] # "no"
  <2>1. CASE l \in taken BY <1>5, <2>1
  <2>2. CASE l \notin taken
    <3>1. l \in Members(c.lines) BY <1>4, <1>12, <2>2
    <3>2. SessionOf[l] \notin O BY <1>3, <1>12
    <3>3. c.sent[l] # "no" BY <1>7, <1>12, <3>1, <3>2 DEF Gives
    <3> QED BY <1>4, <2>2, <3>3
  <2> QED BY <2>1, <2>2
<1> QED BY <1>9, <1>10, <1>11, <1>12 DEF N

(* With a place for every line, no arrival pushes one out.                  *)
Fits == IsFiniteSet(Line) /\ Cardinality(Line) <= MaxLines

LEMMA RoomLeft ==
  ASSUME Fits, NEW ls, Listed(ls), NEW l \in Line, l \notin Members(ls)
  PROVE  Len(ls) < MaxLines
<1> DEFINE n == Len(ls)
           L == Line \ {l}
<1>0. ls \in Seq(Line) /\ Distinct(ls) BY DEF Listed
<1>1. n \in Nat /\ DOMAIN ls = 1..n /\ ls \in [1..n -> Line] BY <1>0, LenProperties
<1>2. ls \in [1..n -> L]
  <2>1. \A i \in 1..n : ls[i] # l BY <1>1 DEF Members
  <2> HIDE DEF n
  <2> QED BY <1>1, <2>1
<1>3. ls \in Injection(1..n, L)
  <2> HIDE DEF n, L
  <2> QED BY <1>0, <1>1, <1>2 DEF Distinct, Injection, IsInjective
<1>4. IsFiniteSet(L) /\ Cardinality(L) = Cardinality(Line) - 1 BY FS_RemoveElement DEF Fits
<1>5. Cardinality(Line) \in Nat /\ MaxLines \in Nat BY FS_CardinalityType, QueueAssumption DEF Fits
<1>6. Cardinality(1..n) <= Cardinality(L)
  <2> HIDE DEF n, L
  <2> QED BY <1>3, <1>4, FS_Injection
<1>7. Cardinality(1..n) = n
  <2> HIDE DEF n
  <2>1. Cardinality(1..n) = IF 1 > n THEN 0 ELSE n - 1 + 1 BY <1>1, FS_Interval
  <2> QED BY <1>1, <2>1
<1> HIDE DEF n, L
<1>8. n < MaxLines BY <1>1, <1>4, <1>5, <1>6, <1>7 DEF Fits
<1> QED BY <1>8 DEF n

Settling == Settled(Queue, running)

(* What a step does to the composers, when no line is pushed out.           *)
LEMMA StepSettles ==
  ASSUME Fits, Inv, Settling, [Next]_vars
  PROVE  Settling' /\ OneEach(Queue, Queue')
<1> DEFINE q == Queue
           r == Queue'
<1>0. /\ Calm(q, restarts) /\ Good(q) /\ WorkTyped /\ restarts \in Nat
      /\ turns \in SUBSET TurnKeys /\ blocked \in SUBSET Session /\ running \in SUBSET Session
      /\ Settled(q, running) /\ Announcing \subseteq Session
  BY QueueAssumption DEF Inv, Calm, WorkTyped, Settling
<1>d. Open(turns, blocked, running) \subseteq running BY DEF Open
<1>m. ASSUME NEW x, Calm(x, restarts), NEW ts \in SUBSET TurnKeys, NEW bs \in SUBSET Session,
             NEW rs \in SUBSET Session, NEW listed \in BOOLEAN, WorkMoves(x, ts, bs, rs, listed),
             Settled(x, rs)
      PROVE  /\ Settling' /\ OneEach(x, r)
             /\ \A s \in Session : s \notin rs => r.composer[s] \subseteq x.composer[s]
  <2>1. Gives(Confirm(x, OpenedTurns(ts)), r, Open(ts, bs, rs)) BY <1>0, <1>m, WorkMovesGives
  <2> HIDE DEF r
  <2>2. /\ Settled(r, rs) /\ OneEach(x, r)
        /\ \A s \in Session : s \notin rs => r.composer[s] \subseteq x.composer[s]
    BY <1>m, <2>1, MoveSettles DEF Calm
  <2>3. running' = rs BY <1>m DEF WorkMoves
  <2> QED BY <2>2, <2>3 DEF Settling, r
<1>n. ASSUME NEW x, Calm(x, restarts), NEW S \in SUBSET Session, DrainOnly(x, S), Settled(x, running)
      PROVE  Settling' /\ OneEach(x, r)
  <2>1. Gives(x, r, Open(turns, blocked, running)) BY <1>0, <1>n, DrainOnlyGives
  <2> HIDE DEF r
  <2>2. Settled(r, running) /\ OneEach(x, r) BY <1>d, <1>n, <2>1, GivesSettles
  <2>3. running' = running BY <1>n DEF DrainOnly, workVars
  <2> QED BY <2>2, <2>3 DEF Settling, r
<1>s. \A x, y : (\A l \in Line : x.sent[l] = y.sent[l]) => \A s : Waits(x, s) <=> Waits(y, s) BY DEF Waits
<1>1. ASSUME NEW l \in Line, Arrive(l) PROVE Settling' /\ OneEach(q, r)
  <2> DEFINE x == Enqueued(q, l)
  <2>1. Calm(x, restarts) /\ x.composer = q.composer /\ x.fresh = q.fresh
    BY <1>0, EnqueuedGood DEF Calm
  <2>2. \A m \in Line : x.sent[m] = q.sent[m]
    <3>1. Len(q.lines) < MaxLines \/ l \in Members(q.lines) BY <1>0, RoomLeft DEF Good
    <3> HIDE DEF q
    <3> QED BY <1>0, <3>1, EnqueuedGood
  <2>3. DrainOnly(x, {SessionOf[l]}) /\ {SessionOf[l]} \in SUBSET Session
    BY <1>1, QueueAssumption DEF Arrive
  <2> HIDE DEF x, q, r
  <2>4. Settled(x, running) BY <1>0, <1>s, <2>1, <2>2 DEF Settled
  <2>5. Settling' /\ OneEach(x, r) BY <1>n, <2>1, <2>3, <2>4
  <2> QED BY <2>1, <2>5 DEF OneEach
<1>2. ASSUME NEW k \in TurnKeys, TurnOpens(k) PROVE Settling' /\ OneEach(q, r)
  <2>1. PICK bs \in {blocked, blocked \ {k}} : WorkMoves(q, turns \cup {k}, bs, running, FALSE)
    BY <1>2 DEF TurnOpens
  <2>2. bs \in SUBSET Session /\ turns \cup {k} \in SUBSET TurnKeys BY <1>0
  <2> QED BY <1>0, <1>m, <2>1, <2>2
<1>3. ASSUME NEW k \in TurnKeys, TurnCloses(k) PROVE Settling' /\ OneEach(q, r)
  <2>1. PICK bs \in {blocked, blocked \ {k}} : WorkMoves(q, turns \ {k}, bs, running, FALSE)
    BY <1>3 DEF TurnCloses
  <2>2. bs \in SUBSET Session /\ turns \ {k} \in SUBSET TurnKeys BY <1>0
  <2> QED BY <1>0, <1>m, <2>1, <2>2
<1>4. ASSUME NEW s \in Session, Blocks(s) PROVE Settling' /\ OneEach(q, r)
  <2>1. blocked \cup {s} \in SUBSET Session BY <1>0
  <2> QED BY <1>0, <1>4, <1>m, <2>1 DEF Blocks
<1>5. ASSUME NEW s \in Session, Unblocks(s) PROVE Settling' /\ OneEach(q, r)
  <2>1. blocked \ {s} \in SUBSET Session BY <1>0
  <2> QED BY <1>0, <1>5, <1>m, <2>1 DEF Unblocks
<1>6. ASSUME NEW s \in Session, SessionStarts(s) PROVE Settling' /\ OneEach(q, r)
  <2>1. PICK ts \in {turns, turns \cup ({s} \cap TurnKeys)} :
          WorkMoves(q, ts, blocked, running \cup {s}, TRUE)
    BY <1>6 DEF SessionStarts
  <2>2. ts \in SUBSET TurnKeys /\ running \cup {s} \in SUBSET Session BY <1>0
  <2>3. Settled(q, running \cup {s}) BY <1>0 DEF Settled
  <2> QED BY <1>0, <1>m, <2>1, <2>2, <2>3
<1>7. ASSUME NEW s \in Session, SessionStops(s) PROVE Settling' /\ OneEach(q, r)
  <2> DEFINE live == running \ {s}
             ts == {k \in turns : IF k = Unattributed THEN live # {} ELSE k \in live}
             x == [q EXCEPT !.composer[s] = {}, !.fresh = @ \ {s}]
  <2>1. WorkMoves(x, ts, blocked \ {s}, live, TRUE) BY <1>7 DEF SessionStops
  <2>2. ts \in SUBSET TurnKeys /\ blocked \ {s} \in SUBSET Session /\ live \in SUBSET Session BY <1>0
  <2>3. Calm(x, restarts) BY EditedCalm
  <2>4. /\ x.sent = q.sent /\ x.fresh = q.fresh \ {s}
        /\ x.composer = [q.composer EXCEPT ![s] = {}] /\ q.composer \in [Session -> SUBSET Line]
    <3> HIDE DEF q
    <3> QED BY <1>0 DEF Good, QueueType
  <2>5. s \notin live OBVIOUS
  <2>6. Settled(x, live)
    <3> HIDE DEF x, q
    <3>1. x.fresh \subseteq live BY <1>0, <2>4 DEF Settled
    <3>2. \A y \in x.fresh \cap Announcing : Waits(x, y) BY <1>0, <1>s, <2>4 DEF Settled
    <3> QED BY <3>1, <3>2 DEF Settled
  <2> HIDE DEF x, ts, live
  <2>7. Settling' /\ OneEach(x, r) /\ \A y \in Session : y \notin live => r.composer[y] \subseteq x.composer[y]
    BY <1>m, <2>1, <2>2, <2>3, <2>6
  <2> HIDE DEF q, r
  <2>8. OneEach(q, r)
    <3> SUFFICES ASSUME NEW y \in Announcing, r.composer[y] \ q.composer[y] # {}
                 PROVE  y \notin q.fresh /\ Cardinality(r.composer[y] \ q.composer[y]) = 1
      BY DEF OneEach
    <3>1. y # s
      <4>1. SUFFICES ASSUME y = s PROVE FALSE OBVIOUS
      <4>2. r.composer[s] \subseteq x.composer[s] BY <2>5, <2>7
      <4>3. x.composer[s] = {} BY <2>4
      <4> QED BY <4>1, <4>2, <4>3
    <3>2. x.composer[y] = q.composer[y] /\ (y \in q.fresh => y \in x.fresh) BY <1>0, <2>4, <3>1
    <3> QED BY <2>7, <3>2 DEF OneEach
  <2> QED BY <2>7, <2>8
<1>8. ASSUME NEW s \in Session, WindowPasses(s) PROVE Settling' /\ OneEach(q, r)
  <2>1. /\ r.composer = q.composer /\ r.fresh = q.fresh \ {s} /\ running' = running
        /\ \A l \in Line : r.sent[l] = IF SessionOf[l] = s /\ q.sent[l] = "waiting"
                                       THEN "overdue" ELSE q.sent[l]
    BY <1>8 DEF WindowPasses, Queue, workVars
  <2> HIDE DEF q, r
  <2>2. \A y \in q.fresh : y # s /\ Waits(q, y) => Waits(r, y) BY <2>1 DEF Waits
  <2>3. Settled(r, running) BY <1>0, <2>1, <2>2 DEF Settled
  <2>4. OneEach(q, r) BY <2>1 DEF OneEach
  <2> QED BY <2>1, <2>3, <2>4 DEF Settling, r
<1>9. ASSUME NEW s \in Session, TimerFires(s) PROVE Settling' /\ OneEach(q, r)
  <2> DEFINE x == [q EXCEPT !.timers[s] = "off"]
  <2>1. Calm(x, restarts) BY <1>9, EditedCalm DEF TimerFires
  <2>2. DrainOnly(x, {s}) /\ {s} \in SUBSET Session BY <1>9 DEF TimerFires
  <2>3. x.sent = q.sent /\ x.fresh = q.fresh /\ x.composer = q.composer
    <3> HIDE DEF q
    <3> QED BY <1>0 DEF Good, QueueType
  <2> HIDE DEF x, q, r
  <2>4. Settled(x, running) BY <1>0, <1>s, <2>3 DEF Settled
  <2>5. Settling' /\ OneEach(x, r) BY <1>n, <2>1, <2>2, <2>4
  <2> QED BY <2>3, <2>5 DEF OneEach
<1>10. ASSUME NEW s \in Session, Forget(s) PROVE Settling' /\ OneEach(q, r)
  <2> DEFINE L == LinesOf({s})
             x == Commit(q, Without(q.lines, L))
  <2>1. Becomes(x) /\ s \notin running /\ running' = running
    <3>1. lines = q.lines BY DEF Queue
    <3> HIDE DEF q
    <3> QED BY <1>10, <3>1 DEF Forget, workVars, q
  <2>2. \A l \in Line : l \in L <=> SessionOf[l] = s BY DEF LinesOf
  <2> HIDE DEF L
  <2>3. Good(x) BY <1>0, CommitWithout
  <2>4. x.composer = q.composer /\ x.fresh = q.fresh BY <1>0, CommitWithout
  <2>5. \A l \in Line : x.sent[l] = IF l \in L THEN "no" ELSE q.sent[l] BY <1>0, CommitWithout
  <2> HIDE DEF x
  <2>6. r = x BY <2>1, <2>3, BecomesIs DEF Good
  <2> HIDE DEF q, r
  <2>7. Settled(x, running)
    <3>1. \A y \in q.fresh : y # s BY <1>0, <2>1 DEF Settled
    <3>2. \A y : y # s /\ Waits(q, y) => Waits(x, y) BY <2>2, <2>5 DEF Waits
    <3> QED BY <1>0, <2>4, <3>1, <3>2 DEF Settled
  <2>8. OneEach(q, r) BY <2>4, <2>6 DEF OneEach
  <2> QED BY <2>1, <2>6, <2>7, <2>8 DEF Settling, r
<1>11. ASSUME SessionUpdated PROVE Settling' /\ OneEach(q, r)
  BY <1>0, <1>11, <1>n DEF SessionUpdated
<1>12. ASSUME Restart PROVE Settling' /\ OneEach(q, r)
  <2>1. r.fresh = {} /\ \A s \in Session : r.composer[s] = {} BY <1>12 DEF Restart, Becomes, Queue
  <2> HIDE DEF q, r
  <2>2. Settled(r, running') BY <2>1 DEF Settled
  <2>3. OneEach(q, r) BY <1>0, <2>1 DEF OneEach
  <2> QED BY <2>2, <2>3 DEF Settling, r
<1>13. ASSUME UNCHANGED vars PROVE Settling' /\ OneEach(q, r)
  <2>1. r = q /\ running' = running BY <1>13 DEF vars, queueVars, workVars, Queue
  <2> HIDE DEF q, r
  <2>2. OneEach(q, r) BY <2>1 DEF OneEach
  <2> QED BY <1>0, <2>1, <2>2 DEF Settling, r
<1> QED
  BY <1>1, <1>2, <1>3, <1>4, <1>5, <1>6, <1>7, <1>8, <1>9, <1>10, <1>11, <1>12, <1>13 DEF Next

LEMMA AlwaysSettling == Fits => (Spec => []Settling)
<1> SUFFICES ASSUME Fits PROVE Spec => []Settling OBVIOUS
<1>1. Init => Settling BY DEF Init, Settling, Settled, Queue
<1>2. Inv /\ Settling /\ [Next]_vars => Settling' BY StepSettles
<1> QED BY <1>1, <1>2, AlwaysInv, PTL DEF Spec

(* However many events drain a session at once (the close of a turn, the    *)
(* anonymous turn, the session list), an agent that announces its turns is  *)
(* given one line and then none until a turn opens or the confirm window    *)
(* has passed, as long as the queue never overflows.  Overflow removes the  *)
(* oldest line, and with it the stamp that holds the next line back.        *)
THEOREM OneLineAtATime ==
  ASSUME IsFiniteSet(Line), Cardinality(Line) <= MaxLines
  PROVE  Spec => OneLinePerTurn
<1>0. Fits BY DEF Fits
<1>1. ASSUME Inv, Settling, [Next]_vars
      PROVE  \A s \in Announcing :
               composer'[s] \ composer[s] # {} =>
                 /\ s \notin fresh
                 /\ Cardinality(composer'[s] \ composer[s]) = 1
  <2>1. OneEach(Queue, Queue') BY <1>0, <1>1, StepSettles
  <2>2. Queue.composer = composer /\ Queue'.composer = composer' /\ Queue.fresh = fresh BY DEF Queue
  <2> QED BY <2>1, <2>2 DEF OneEach
<1>2. Spec => []Settling BY <1>0, AlwaysSettling
<1> QED BY <1>1, <1>2, AlwaysInv, PTL DEF Spec, OneLinePerTurn

-----------------------------------------------------------------------------
(* What a turn retires.                                                     *)

Holding == Handed(Queue, orphaned)

(* Of the stamped lines no agent has, those still queued are orphaned.      *)
LEMMA OrphansHeld ==
  ASSUME NEW R, Calm(Queue', R), NEW rs, orphaned' = Orphans(rs),
         Handed(Queue', orphaned \cup UNION {composer[s] : s \in running \ rs})
  PROVE  Holding'
<1> DEFINE r == Queue'
           L == orphaned \cup UNION {composer[s] : s \in running \ rs}
<1>1. Good(r) /\ r.lines \in Seq(Line) /\ \A l \in Line : SessionOf[l] \in Session
  BY QueueAssumption DEF Calm, Good, Listed
<1>2. r.lines = lines' /\ r.sent = sent' /\ r.composer = composer' BY DEF Queue
<1>3. ToSet(lines') = Members(lines') BY DEF ToSet, Members
<1> HIDE DEF r
<1>4. ASSUME NEW l \in Line, r.sent[l] # "no" PROVE l \in r.composer[SessionOf[l]] \cup orphaned'
  <2>1. l \in Heads(r.lines, Announcing) BY <1>1, <1>4 DEF Good, Stamped
  <2>2. l \in Members(r.lines) BY <1>1, <2>1, HeadFacts
  <2>3. l \in r.composer[SessionOf[l]] \cup L BY <1>4 DEF Handed, r
  <2> HIDE DEF L
  <2> QED BY <1>2, <1>3, <2>2, <2>3 DEF Orphans, L
<1> QED BY <1>4 DEF Holding, Handed, r

LEMMA StepHolds ==
  ASSUME Inv, Holding, [Next]_vars
  PROVE  /\ Holding'
         /\ \A l \in Line : l \in Members(lines) /\ l \notin Members(lines') /\ SessionOf[l] \in turns' \ turns
                              => sent[l] # "no"
<1> DEFINE q == Queue
           r == Queue'
           Lost == \A l \in Line :
                     l \in Members(lines) /\ l \notin Members(lines') /\ SessionOf[l] \in turns' \ turns
                       => sent[l] # "no"
<1>0. /\ Calm(q, restarts) /\ Good(q) /\ WorkTyped /\ restarts \in Nat
      /\ turns \in SUBSET TurnKeys /\ blocked \in SUBSET Session /\ running \in SUBSET Session
      /\ Handed(q, orphaned) /\ \A l \in Line : SessionOf[l] \in Session
  BY QueueAssumption DEF Inv, Calm, WorkTyped, Holding
<1>m. ASSUME NEW x, Calm(x, restarts), x.lines = lines, x.sent = sent,
             NEW ts \in SUBSET TurnKeys, NEW bs \in SUBSET Session, NEW rs \in SUBSET Session,
             NEW listed \in BOOLEAN, WorkMoves(x, ts, bs, rs, listed),
             Handed(x, orphaned \cup UNION {composer[s] : s \in running \ rs})
      PROVE  Holding' /\ Lost
  <2> DEFINE L == orphaned \cup UNION {composer[s] : s \in running \ rs}
  <2>1. Gives(Confirm(x, OpenedTurns(ts)), r, Open(ts, bs, rs)) /\ Calm(r, restarts)
    BY <1>0, <1>m, WorkMovesGives, WorkMovesCalm
  <2> HIDE DEF r, q, L
  <2>2. /\ Handed(r, L)
        /\ \A l \in Line :
             l \in Members(x.lines) /\ l \notin Members(r.lines) /\ SessionOf[l] \in OpenedTurns(ts)
               => x.sent[l] # "no"
    <3>1. Good(x) /\ Handed(x, L) BY <1>m DEF Calm, L
    <3> QED BY <2>1, <3>1, MoveSettles
  <2>3. turns' = ts /\ orphaned' = Orphans(rs) BY <1>m DEF WorkMoves
  <2>4. x.lines = lines /\ r.lines = lines' /\ x.sent = sent BY <1>m DEF Queue, r
  <2>5. \A l \in Line : SessionOf[l] \in turns' \ turns => SessionOf[l] \in OpenedTurns(ts)
    <3>1. \A l \in Line : SessionOf[l] # Unattributed BY <1>0, QueueAssumption
    <3> QED BY <2>3, <3>1 DEF OpenedTurns
  <2>6. Lost BY <2>2, <2>4, <2>5
  <2>7. Holding' BY <2>1, <2>2, <2>3, OrphansHeld DEF r, L
  <2> QED BY <2>6, <2>7
<1>o. ASSUME NEW x, Handed(x, orphaned), NEW L PROVE Handed(x, orphaned \cup L) BY <1>o DEF Handed
<1>q. /\ q.lines = lines /\ q.sent = sent
      /\ \A rs : Handed(q, orphaned \cup UNION {composer[s] : s \in running \ rs})
  <2>1. q.lines = lines /\ q.sent = sent BY DEF Queue
  <2> HIDE DEF q
  <2> QED BY <1>0, <1>o, <2>1
<1>n. ASSUME NEW x, Calm(x, restarts), NEW S \in SUBSET Session, DrainOnly(x, S), Handed(x, orphaned)
      PROVE  Holding' /\ Lost
  <2>1. Gives(x, r, Open(turns, blocked, running)) /\ Calm(r, restarts)
    BY <1>0, <1>n, DrainOnlyGives, DrainOnlyCalm
  <2> HIDE DEF r
  <2>0. Open(turns, blocked, running) \subseteq running BY DEF Open
  <2>2. Handed(r, orphaned) BY <1>n, <2>0, <2>1, GivesSettles
  <2>3. turns' = turns /\ orphaned' = Orphans(running) BY <1>n DEF DrainOnly, workVars
  <2>4. Handed(r, orphaned \cup UNION {composer[s] : s \in running \ running}) BY <1>o, <2>2
  <2>5. Holding' BY <2>1, <2>3, <2>4, OrphansHeld DEF r
  <2> QED BY <2>3, <2>5
<1>1. ASSUME NEW l \in Line, Arrive(l) PROVE Holding' /\ Lost
  <2> DEFINE x == Enqueued(q, l)
  <2>1. Calm(x, restarts) /\ x.composer = q.composer BY <1>0, EnqueuedGood DEF Calm
  <2>2. \A m \in Line : x.sent[m] \in {q.sent[m], "no"} BY <1>0, EnqueuedGood
  <2>3. DrainOnly(x, {SessionOf[l]}) /\ {SessionOf[l]} \in SUBSET Session
    BY <1>1, QueueAssumption DEF Arrive
  <2> HIDE DEF x, q, r
  <2>4. Handed(x, orphaned) BY <1>0, <2>1, <2>2 DEF Handed
  <2> QED BY <1>n, <2>1, <2>3, <2>4
<1>2. ASSUME NEW k \in TurnKeys, TurnOpens(k) PROVE Holding' /\ Lost
  <2>1. PICK bs \in {blocked, blocked \ {k}} : WorkMoves(q, turns \cup {k}, bs, running, FALSE)
    BY <1>2 DEF TurnOpens
  <2>2. bs \in SUBSET Session /\ turns \cup {k} \in SUBSET TurnKeys BY <1>0
  <2> QED BY <1>0, <1>m, <1>q, <2>1, <2>2
<1>3. ASSUME NEW k \in TurnKeys, TurnCloses(k) PROVE Holding' /\ Lost
  <2>1. PICK bs \in {blocked, blocked \ {k}} : WorkMoves(q, turns \ {k}, bs, running, FALSE)
    BY <1>3 DEF TurnCloses
  <2>2. bs \in SUBSET Session /\ turns \ {k} \in SUBSET TurnKeys BY <1>0
  <2> QED BY <1>0, <1>m, <1>q, <2>1, <2>2
<1>4. ASSUME NEW s \in Session, Blocks(s) PROVE Holding' /\ Lost
  <2>1. blocked \cup {s} \in SUBSET Session BY <1>0
  <2> QED BY <1>0, <1>4, <1>m, <1>q, <2>1 DEF Blocks
<1>5. ASSUME NEW s \in Session, Unblocks(s) PROVE Holding' /\ Lost
  <2>1. blocked \ {s} \in SUBSET Session BY <1>0
  <2> QED BY <1>0, <1>5, <1>m, <1>q, <2>1 DEF Unblocks
<1>6. ASSUME NEW s \in Session, SessionStarts(s) PROVE Holding' /\ Lost
  <2>1. PICK ts \in {turns, turns \cup ({s} \cap TurnKeys)} :
          WorkMoves(q, ts, blocked, running \cup {s}, TRUE)
    BY <1>6 DEF SessionStarts
  <2>2. ts \in SUBSET TurnKeys /\ running \cup {s} \in SUBSET Session BY <1>0
  <2> QED BY <1>0, <1>m, <1>q, <2>1, <2>2
<1>7. ASSUME NEW s \in Session, SessionStops(s) PROVE Holding' /\ Lost
  <2> DEFINE live == running \ {s}
             ts == {k \in turns : IF k = Unattributed THEN live # {} ELSE k \in live}
             x == [q EXCEPT !.composer[s] = {}, !.fresh = @ \ {s}]
             L == orphaned \cup UNION {composer[y] : y \in running \ live}
  <2>1. WorkMoves(x, ts, blocked \ {s}, live, TRUE) /\ s \in running BY <1>7 DEF SessionStops
  <2>2. ts \in SUBSET TurnKeys /\ blocked \ {s} \in SUBSET Session /\ live \in SUBSET Session BY <1>0
  <2>3. Calm(x, restarts) BY EditedCalm
  <2>4. /\ x.sent = q.sent /\ x.lines = q.lines
        /\ x.composer = [q.composer EXCEPT ![s] = {}] /\ q.composer \in [Session -> SUBSET Line]
    <3> HIDE DEF q
    <3> QED BY <1>0 DEF Good, QueueType
  <2>5. composer[s] \subseteq L /\ orphaned \subseteq L BY <2>1
  <2>6. q.composer = composer BY DEF Queue
  <2> HIDE DEF x, q, r, L
  <2>7. Handed(x, L)
    <3> SUFFICES ASSUME NEW l \in Line, x.sent[l] # "no" PROVE l \in x.composer[SessionOf[l]] \cup L
      BY DEF Handed
    <3>1. l \in composer[SessionOf[l]] \cup orphaned BY <1>0, <2>4, <2>6 DEF Handed
    <3>2. SessionOf[l] # s => x.composer[SessionOf[l]] = composer[SessionOf[l]] BY <1>0, <2>4, <2>6
    <3> QED BY <2>5, <3>1, <3>2
  <2> HIDE DEF ts, live
  <2> QED BY <1>m, <1>q, <2>1, <2>2, <2>3, <2>4, <2>7 DEF L
<1>8. ASSUME NEW s \in Session, WindowPasses(s) PROVE Holding' /\ Lost
  <2>1. /\ r.composer = q.composer /\ turns' = turns /\ orphaned' = orphaned
        /\ \A l \in Line : r.sent[l] # "no" => q.sent[l] # "no"
    BY <1>8 DEF WindowPasses, Queue, workVars
  <2> HIDE DEF q, r
  <2>2. Handed(r, orphaned) BY <1>0, <2>1 DEF Handed
  <2> QED BY <2>1, <2>2 DEF Holding, r
<1>9. ASSUME NEW s \in Session, TimerFires(s) PROVE Holding' /\ Lost
  <2> DEFINE x == [q EXCEPT !.timers[s] = "off"]
  <2>1. Calm(x, restarts) BY <1>9, EditedCalm DEF TimerFires
  <2>2. DrainOnly(x, {s}) /\ {s} \in SUBSET Session BY <1>9 DEF TimerFires
  <2>3. x.sent = q.sent /\ x.composer = q.composer
    <3> HIDE DEF q
    <3> QED BY <1>0 DEF Good, QueueType
  <2> HIDE DEF x, q, r
  <2>4. Handed(x, orphaned) BY <1>0, <2>3 DEF Handed
  <2> QED BY <1>n, <2>1, <2>2, <2>4
<1>10. ASSUME NEW s \in Session, Forget(s) PROVE Holding' /\ Lost
  <2> DEFINE L == LinesOf({s})
             x == Commit(q, Without(q.lines, L))
  <2>1. Becomes(x) /\ turns' = turns /\ orphaned' = Orphans(running)
    <3>1. lines = q.lines BY DEF Queue
    <3> HIDE DEF q
    <3> QED BY <1>10, <3>1 DEF Forget, workVars, q
  <2> HIDE DEF L
  <2>3. Good(x) BY <1>0, CommitWithout
  <2>4. x.composer = q.composer BY <1>0, CommitWithout
  <2>5. \A l \in Line : x.sent[l] = IF l \in L THEN "no" ELSE q.sent[l] BY <1>0, CommitWithout
  <2> HIDE DEF x
  <2>6. r = x BY <2>1, <2>3, BecomesIs DEF Good
  <2> HIDE DEF q, r
  <2>7. Handed(r, orphaned) BY <1>0, <2>4, <2>5, <2>6 DEF Handed
  <2>8. Handed(r, orphaned \cup UNION {composer[y] : y \in running \ running}) BY <1>o, <2>7
  <2>9. Calm(r, restarts)
    <3>1. Inv' BY NextInv
    <3>2. restarts' = restarts BY <1>10 DEF Forget, counters
    <3> QED BY <3>1, <3>2 DEF Inv, r
  <2>10. Holding' BY <2>1, <2>8, <2>9, OrphansHeld DEF r
  <2> QED BY <2>1, <2>10
<1>11. ASSUME SessionUpdated PROVE Holding' /\ Lost
  BY <1>0, <1>11, <1>n DEF SessionUpdated
<1>12. ASSUME Restart PROVE Holding' /\ Lost
  <2>1. turns' = {} /\ \A l \in Line : r.sent[l] = "no"
    BY <1>12 DEF Restart, Becomes, AsUnsubmitted, Queue
  <2> HIDE DEF q, r
  <2>2. Handed(r, orphaned') BY <2>1 DEF Handed
  <2> QED BY <2>1, <2>2 DEF Holding, r
<1>13. ASSUME UNCHANGED vars PROVE Holding' /\ Lost
  <2>1. r = q /\ turns' = turns /\ orphaned' = orphaned BY <1>13 DEF vars, queueVars, workVars, Queue
  <2> HIDE DEF q, r
  <2> QED BY <1>0, <2>1 DEF Holding, r
<1> QED
  BY <1>1, <1>2, <1>3, <1>4, <1>5, <1>6, <1>7, <1>8, <1>9, <1>10, <1>11, <1>12, <1>13 DEF Next

LEMMA AlwaysHolding == Spec => []Holding
<1>1. Init => Holding BY DEF Init, Holding, Handed, Queue
<1>2. Inv /\ Holding /\ [Next]_vars => Holding' BY StepHolds
<1> QED BY <1>1, <1>2, AlwaysInv, PTL DEF Spec

(* confirm(): a turn retires a line only if the agent that opened it was    *)
(* given that line, or the agent it was given to was stopped before it read *)
(* the line and no other has been given it since: a stop empties the        *)
(* composer and leaves the stamp.                                           *)
THEOREM TurnsRetireWhatWasRead == Spec => RetiredIsRead
<1>1. ASSUME Inv, Holding, [Next]_vars
      PROVE  \A l \in Queued \ ToSet(lines') :
               SessionOf[l] \in turns' \ turns => l \in composer[SessionOf[l]] \cup orphaned
  <2>1. Queued = Members(lines) /\ ToSet(lines') = Members(lines') BY DEF Queued, ToSet, Members
  <2>2. Members(lines) \subseteq Line
    <3>1. lines \in Seq(Line) BY <1>1 DEF Inv, Calm, Good, Listed, Queue
    <3> QED BY <3>1 DEF Members
  <2>3. \A l \in Line : l \in Members(lines) /\ l \notin Members(lines') /\ SessionOf[l] \in turns' \ turns
                          => sent[l] # "no"
    BY <1>1, StepHolds
  <2>4. \A l \in Line : sent[l] # "no" => l \in composer[SessionOf[l]] \cup orphaned
    BY <1>1 DEF Holding, Handed, Queue
  <2> QED BY <2>1, <2>2, <2>3, <2>4
<1>2. Spec => []Holding BY AlwaysHolding
<1> QED BY <1>1, <1>2, AlwaysInv, PTL DEF Spec, RetiredIsRead
=============================================================================
