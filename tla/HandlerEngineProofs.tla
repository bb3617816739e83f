------------------------- MODULE HandlerEngineProofs -------------------------
(***************************************************************************)
(* What the handler engine keeps true, for every set of prompts, items and *)
(* replies and every bound: a park has its timer, the handling state has   *)
(* its pass, the rows are the prompts the agent is stopped on, and an      *)
(* answer for the judge has something that will bring it to one.  The      *)
(* first three are inductive together (Inv); the last needs what is said   *)
(* of the chain, the passes and the agent in AInv.                         *)
(***************************************************************************)
EXTENDS HandlerEngine, SelectionProofs, WellFoundedInduction

Fields == {"armed", "id", "state", "rows", "backlog", "transient", "limits", "reasks", "judged",
           "parkKind", "selfResuming", "retry", "owed", "answer", "promptGen", "awaiting", "timer"}

(* A row carries a prompt exactly when it is for one.                       *)
PlainRow == [kind : {"question", "ask", "promoted", "report"}, of : {None}, unblocked : SUBSET Item]
PromptRow == [kind : {"prompt"}, of : Prompt, unblocked : SUBSET Item]
AnyRow == PlainRow \cup PromptRow

Session(h) ==
  /\ DOMAIN h = Fields
  /\ h.armed \in BOOLEAN /\ h.timer \in BOOLEAN /\ h.selfResuming \in BOOLEAN
  /\ h.rows \in Seq(AnyRow)

(* The prompts among some rows.                                             *)
PromptsIn(rows) == {rows[k].of : k \in DOMAIN rows} \ {None}

Resting == {"watching", "needs_you"}

(* g is h, as far as the terminal and its prompts are concerned.            *)
Modest(h, g) ==
  /\ Session(g)
  /\ g.armed = h.armed /\ g.id = h.id
  /\ PromptsIn(g.rows) = PromptsIn(h.rows)

(* g is as h was, or has come to rest.                                      *)
Rests(h, g) ==
  \/ g.state \in Resting
  \/ g.state = h.state /\ g.timer = h.timer /\ g.selfResuming = h.selfResuming

Gentle(h, g) == Modest(h, g) /\ Rests(h, g)

(* g differs from h in nothing of this.                                     *)
Like(h, g) ==
  /\ DOMAIN g = Fields
  /\ g.armed = h.armed /\ g.id = h.id /\ g.rows = h.rows
  /\ g.state = h.state /\ g.timer = h.timer /\ g.selfResuming = h.selfResuming

-----------------------------------------------------------------------------
LEMMA LikeIsGentle == ASSUME NEW h, NEW g, Session(h), Like(h, g) PROVE Gentle(h, g)
BY DEF Session, Like, Gentle, Modest, Rests

LEMMA GentleTrans ==
  ASSUME NEW h, NEW g, NEW f, Gentle(h, g), Gentle(g, f) PROVE Gentle(h, f)
BY DEF Gentle, Modest, Rests

LEMMA GentleIsSession == ASSUME NEW h, NEW g, Gentle(h, g) PROVE Session(g)
BY DEF Gentle, Modest

(* A session that is not armed.                                             *)
LEMMA UnarmedIsSession ==
  /\ Session(Unarmed) /\ ~Unarmed.armed /\ Unarmed.rows = <<>> /\ ~Unarmed.timer
  /\ Unarmed.state = "watching" /\ ~Unarmed.selfResuming
<1>1. DOMAIN Unarmed = Fields BY DEF Unarmed, Fields
<1>2. /\ Unarmed.armed = FALSE /\ Unarmed.rows = <<>> /\ Unarmed.timer = FALSE
      /\ Unarmed.state = "watching" /\ Unarmed.selfResuming = FALSE
  BY DEF Unarmed
<1>3. <<>> \in Seq(AnyRow) BY EmptySeq
<1> QED BY <1>1, <1>2, <1>3 DEF Session

LEMMA RowsPlain ==
  /\ Question \in PlainRow /\ Report \in PlainRow /\ Row("promoted", None, {}) \in PlainRow
  /\ \A U \in SUBSET Item : Row("ask", None, U) \in PlainRow
  /\ \A p \in Prompt : Row("prompt", p, {}) \in PromptRow
BY DEF Question, Report, Row, PlainRow, PromptRow

(* Rows and the prompts in them.                                            *)
LEMMA RowFields ==
  ASSUME NEW r \in AnyRow
  PROVE  /\ r.kind # "prompt" => r.of = None /\ r \in PlainRow
         /\ r.kind = "prompt" => r.of \in Prompt /\ r.of # None
BY HandlerAssumption DEF AnyRow, PlainRow, PromptRow

LEMMA AppendPrompts ==
  ASSUME NEW q \in Seq(AnyRow), NEW r \in AnyRow
  PROVE  /\ Append(q, r) \in Seq(AnyRow)
         /\ PromptsIn(Append(q, r)) = PromptsIn(q) \cup ({r.of} \ {None})
<1> DEFINE a == Append(q, r)
<1>1. /\ a \in Seq(AnyRow) /\ DOMAIN a = 1..Len(q)+1 /\ DOMAIN q = 1..Len(q) /\ Len(q) \in Nat
      /\ \A k \in 1..Len(q) : a[k] = q[k]
      /\ a[Len(q)+1] = r
  OBVIOUS
<1> HIDE DEF a
<1>2. \A k \in DOMAIN a : k \in DOMAIN q \/ k = Len(q)+1 BY <1>1
<1>3. \A k \in DOMAIN q : k \in DOMAIN a /\ a[k] = q[k] BY <1>1
<1>4. Len(q)+1 \in DOMAIN a BY <1>1
<1> DEFINE n == Len(q)+1
<1>5. a[n] = r BY <1>1
<1> HIDE DEF n
<1>6. PromptsIn(a) = PromptsIn(q) \cup ({r.of} \ {None})
  BY <1>2, <1>3, <1>4, <1>5 DEF PromptsIn, n
<1> QED BY <1>1, <1>6 DEF a

(* A row that is taken out leaves all the others.                           *)
LEMMA RemoveMembers ==
  ASSUME NEW q \in Seq(AnyRow), NEW k \in DOMAIN q
  PROVE  LET a == RemoveAt(q, k)
         IN  /\ a \in Seq(AnyRow)
             /\ \A j \in DOMAIN a : \E i \in DOMAIN q : a[j] = q[i]
             /\ \A i \in DOMAIN q : i # k => \E j \in DOMAIN a : a[j] = q[i]
<1> DEFINE n == Len(q)
           a == RemoveAt(q, k)
<1>1. n \in Nat /\ k \in 1..n /\ DOMAIN q = 1..n /\ k \in Int OBVIOUS
<1>2. /\ a \in Seq(AnyRow) /\ Len(a) = n - 1
      /\ \A j \in 1..n-1 : a[j] = IF j < k THEN q[j] ELSE q[j+1]
  <2> DEFINE b == SubSeq(q, 1, k-1)
             c == SubSeq(q, k+1, n)
  <2>1. b \in Seq(AnyRow) /\ Len(b) = k-1 /\ \A j \in 1..k-1 : b[j] = q[j]
    BY <1>1
  <2>2. c \in Seq(AnyRow) /\ Len(c) = n-k /\ \A j \in 1..n-k : c[j] = q[k+j]
    BY <1>1
  <2>3. a = b \o c BY DEF RemoveAt
  <2> HIDE DEF b, c, a, n
  <2>4. a \in Seq(AnyRow) /\ Len(a) = (k-1) + (n-k)
    <3>1. b \o c \in Seq(AnyRow) /\ Len(b \o c) = Len(b) + Len(c) BY <2>1, <2>2, ConcatProperties
    <3> QED BY <3>1, <2>1, <2>2, <2>3
  <2>5. ASSUME NEW j \in 1..n-1 PROVE a[j] = IF j < k THEN q[j] ELSE q[j+1]
    <3>1. CASE j < k
      <4>1. j \in 1..Len(b) BY <2>1, <3>1, <1>1
      <4>2. a[j] = b[j] BY <4>1, <2>1, <2>2, <2>3
      <4> QED BY <4>1, <4>2, <2>1, <3>1, <1>1
    <3>2. CASE ~(j < k)
      <4>1. j \in Len(b)+1..Len(b)+Len(c) /\ j - (k-1) \in 1..n-k /\ j - Len(b) = j - (k-1)
        BY <2>1, <2>2, <3>2, <1>1
      <4>2. ~(j <= Len(b)) /\ j \in 1..Len(b)+Len(c) BY <4>1, <2>1, <2>2, <1>1
      <4>4. a[j] = c[j - Len(b)] BY <4>2, <2>1, <2>2, <2>3, ConcatProperties
      <4>3. k + (j - (k-1)) = j+1 BY <1>1
      <4> QED BY <4>1, <4>4, <4>3, <2>2, <3>2
    <3> QED BY <3>1, <3>2
  <2> QED BY <2>4, <2>5, <1>1
<1>3. DOMAIN a = 1..n-1 BY <1>1, <1>2
<1> HIDE DEF a, n
<1>4. ASSUME NEW j \in DOMAIN a PROVE \E i \in DOMAIN q : a[j] = q[i]
  <2>1. j \in DOMAIN q /\ j+1 \in DOMAIN q BY <1>1, <1>3
  <2> QED BY <2>1, <1>2, <1>3
<1>5. ASSUME NEW i \in DOMAIN q, i # k PROVE \E j \in DOMAIN a : a[j] = q[i]
  <2>1. CASE i < k
    <3>1. i \in DOMAIN a BY <2>1, <1>1, <1>3
    <3>2. a[i] = q[i] BY <3>1, <2>1, <1>2, <1>3
    <3> QED BY <3>1, <3>2
  <2>2. CASE i > k
    <3>1. i-1 \in DOMAIN a /\ ~(i-1 < k) /\ (i-1)+1 = i BY <2>2, <1>1, <1>3
    <3>2. a[i-1] = q[i] BY <3>1, <1>2, <1>3
    <3> QED BY <3>1, <3>2
  <2> QED BY <2>1, <2>2, <1>1, <1>5
<1> QED BY <1>2, <1>4, <1>5 DEF a

LEMMA RemovePrompts ==
  ASSUME NEW q \in Seq(AnyRow), NEW k \in DOMAIN q, q[k].of = None
  PROVE  RemoveAt(q, k) \in Seq(AnyRow) /\ PromptsIn(RemoveAt(q, k)) = PromptsIn(q)
<1> DEFINE a == RemoveAt(q, k)
<1>1. /\ a \in Seq(AnyRow)
      /\ \A j \in DOMAIN a : \E i \in DOMAIN q : a[j] = q[i]
      /\ \A i \in DOMAIN q : i # k => \E j \in DOMAIN a : a[j] = q[i]
  BY RemoveMembers
<1> HIDE DEF a
<1>2. PromptsIn(a) = PromptsIn(q) BY <1>1 DEF PromptsIn
<1> QED BY <1>1, <1>2 DEF a

LEMMA OnlyPrompts ==
  ASSUME NEW q \in Seq(AnyRow), NEW K
  PROVE  /\ Only(q, K) \in Seq(AnyRow)
         /\ \A p : p \in PromptsIn(Only(q, K)) <=>
              p # None /\ \E k \in DOMAIN q : q[k] \in K /\ q[k].of = p
<1>1. Only(q, K) \in Seq(AnyRow) BY OnlyIsSeq
<1>2. \A x : (\E m \in DOMAIN Only(q, K) : Only(q, K)[m] = x) <=> x \in K /\ \E i \in DOMAIN q : q[i] = x
  BY OnlyKeeps
<1> DEFINE t == Only(q, K)
<1> HIDE DEF t
<1>3. \A x : (\E m \in DOMAIN t : t[m] = x) <=> x \in K /\ \E i \in DOMAIN q : q[i] = x BY <1>2 DEF t
<1>4. ASSUME NEW p, p \in PromptsIn(t) PROVE p # None /\ \E k \in DOMAIN q : q[k] \in K /\ q[k].of = p
  BY <1>3, <1>4 DEF PromptsIn
<1>5. ASSUME NEW p, p # None, NEW k \in DOMAIN q, q[k] \in K, q[k].of = p PROVE p \in PromptsIn(t)
  <2>1. PICK m \in DOMAIN t : t[m] = q[k] BY <1>3, <1>5
  <2> QED BY <2>1, <1>5 DEF PromptsIn
<1> QED BY <1>1, <1>4, <1>5 DEF t

(* The least of some positions is one of them.                              *)
LEMMA MinIsThere ==
  ASSUME NEW I, I \subseteq Nat, I # {}
  PROVE  Min(I) \in I
<1> DEFINE R == OpToRel(<, Nat)
<1>1. IsWellFoundedOn(R, Nat) BY NatLessThanWellFounded
<1> HIDE DEF R
<1>2. PICK x \in I : \A y \in I : ~(<<y, x>> \in R) BY <1>1, WFMin
<1>3. \A y \in I : ~(y < x) BY <1>2 DEF R, OpToRel
<1>4. \A y \in I : x <= y BY <1>3
<1> QED BY <1>4 DEF Min

-----------------------------------------------------------------------------
(* What the operators of a session do to it.                                *)

LEMMA ExceptMinor ==
  ASSUME NEW h, Session(h)
  PROVE  /\ \A v : Like(h, [h EXCEPT !.judged = v])
         /\ \A v : Like(h, [h EXCEPT !.awaiting = v])
         /\ \A v : Like(h, [h EXCEPT !.backlog = v])
         /\ \A v : Like(h, [h EXCEPT !.reasks = v])
         /\ \A v : Like(h, [h EXCEPT !.transient = v])
         /\ \A v : Like(h, [h EXCEPT !.limits = v])
BY DEF Session, Like, Fields

LEMMA RestedGentle ==
  ASSUME NEW h, Session(h)
  PROVE  Gentle(h, Rested(h)) /\ Rested(h).state \in Resting /\ Rested(h).rows = h.rows
<1>1. restingState(h) \in Resting BY DEF restingState, Resting
<1> HIDE DEF restingState
<1>2. /\ DOMAIN Rested(h) = Fields /\ Rested(h).armed = h.armed /\ Rested(h).id = h.id
      /\ Rested(h).rows = h.rows /\ Rested(h).timer = h.timer /\ Rested(h).selfResuming = h.selfResuming
      /\ Rested(h).state = restingState(h)
  BY DEF Rested, Session, Fields
<1> HIDE DEF Rested
<1> QED BY <1>1, <1>2 DEF Gentle, Modest, Rests, Session

(* An assignment of rows that keeps the prompts.                            *)
LEMMA ReRowed ==
  ASSUME NEW h, NEW q, Session(h), q \in Seq(AnyRow)
  PROVE  LET g == [h EXCEPT !.rows = q]
         IN  /\ Session(g) /\ g.rows = q /\ g.armed = h.armed /\ g.id = h.id
             /\ g.state = h.state /\ g.timer = h.timer /\ g.selfResuming = h.selfResuming
             /\ PromptsIn(q) = PromptsIn(h.rows) => Gentle(h, g)
<1> DEFINE g == [h EXCEPT !.rows = q]
<1>1. /\ DOMAIN g = Fields /\ g.rows = q /\ g.armed = h.armed /\ g.id = h.id
      /\ g.state = h.state /\ g.timer = h.timer /\ g.selfResuming = h.selfResuming
  BY DEF Session, Fields
<1> HIDE DEF g
<1>2. Session(g) BY <1>1 DEF Session
<1>3. PromptsIn(q) = PromptsIn(h.rows) => Gentle(h, g) BY <1>1, <1>2 DEF Gentle, Modest, Rests
<1> QED BY <1>1, <1>2, <1>3 DEF g

LEMMA UnparkGentle ==
  ASSUME NEW h, Session(h)
  PROVE  LET g == unparkIfParked(h)
         IN  /\ Gentle(h, g) /\ g.rows = h.rows /\ g.state # "parked"
             /\ h.state # "parked" => g = h
             /\ h.state = "parked" => g.state \in Resting
<1>1. CASE h.state # "parked"
  <2>1. unparkIfParked(h) = h BY <1>1 DEF unparkIfParked
  <2>2. Like(h, h) BY DEF Like, Session
  <2> QED BY <2>1, <2>2, <1>1, LikeIsGentle
<1>2. CASE h.state = "parked"
  <2> DEFINE f == [h EXCEPT !.timer = FALSE, !.parkKind = None, !.selfResuming = FALSE,
                            !.retry = 0, !.owed = FALSE]
             g == Rested(f)
  <2>1. unparkIfParked(h) = g BY <1>2 DEF unparkIfParked
  <2>2. /\ DOMAIN f = Fields /\ f.armed = h.armed /\ f.id = h.id /\ f.rows = h.rows
        /\ f.timer = FALSE /\ f.selfResuming = FALSE
    BY DEF Session, Fields
  <2> HIDE DEF f
  <2>3. Session(f) BY <2>2 DEF Session
  <2>4. Gentle(f, g) /\ g.state \in Resting /\ g.rows = f.rows BY <2>3, RestedGentle
  <2> HIDE DEF g
  <2>5. Gentle(h, g) BY <2>2, <2>4 DEF Gentle, Modest, Rests
  <2>6. g.state # "parked" BY <2>4 DEF Resting
  <2> QED BY <2>1, <2>2, <2>4, <2>5, <2>6, <1>2
<1> QED BY <1>1, <1>2

LEMMA ParkTimed ==
  ASSUME NEW h, NEW kind, NEW b \in BOOLEAN, NEW retry, Session(h)
  PROVE  LET g == enterPark(h, kind, b, retry)
         IN  Modest(h, g) /\ g.rows = h.rows /\ g.state = "parked" /\ (g.timer \/ g.selfResuming)
<1> DEFINE g == enterPark(h, kind, b, retry)
<1>1. /\ DOMAIN g = Fields /\ g.armed = h.armed /\ g.id = h.id /\ g.rows = h.rows
      /\ g.timer = ~b /\ g.selfResuming = b /\ g.state = "parked"
  BY DEF enterPark, Session, Fields
<1> HIDE DEF g
<1>2. g.timer \in BOOLEAN /\ g.selfResuming \in BOOLEAN /\ (g.timer \/ g.selfResuming) BY <1>1
<1>3. Modest(h, g) BY <1>1, <1>2 DEF Modest, Session
<1> QED BY <1>1, <1>2, <1>3 DEF g

LEMMA EscalatedRests ==
  ASSUME NEW h, NEW r \in AnyRow, Session(h)
  PROVE  LET g == Escalated(h, r)
         IN  /\ Session(g) /\ g.armed = h.armed /\ g.id = h.id /\ g.state = "needs_you"
             /\ PromptsIn(g.rows) = PromptsIn(h.rows) \cup ({r.of} \ {None})
             /\ r \in PlainRow => Gentle(h, g)
<1> DEFINE g == Escalated(h, r)
<1>1. /\ DOMAIN g = Fields /\ g.armed = h.armed /\ g.id = h.id /\ g.rows = Append(h.rows, r)
      /\ g.timer = h.timer /\ g.selfResuming = h.selfResuming /\ g.state = "needs_you"
  BY DEF Escalated, Session, Fields
<1>2. h.rows \in Seq(AnyRow) BY DEF Session
<1>3. /\ Append(h.rows, r) \in Seq(AnyRow)
      /\ PromptsIn(Append(h.rows, r)) = PromptsIn(h.rows) \cup ({r.of} \ {None})
  BY <1>2, AppendPrompts
<1> HIDE DEF g
<1>4. Session(g) BY <1>1, <1>3 DEF Session
<1>5. PromptsIn(g.rows) = PromptsIn(h.rows) \cup ({r.of} \ {None}) BY <1>1, <1>3
<1>6. ASSUME r \in PlainRow PROVE Gentle(h, g)
  <2>1. r.of = None BY <1>6 DEF PlainRow
  <2> QED BY <2>1, <1>1, <1>4, <1>5 DEF Gentle, Modest, Rests, Resting
<1> QED BY <1>1, <1>4, <1>5, <1>6 DEF g

LEMMA FailureParks ==
  ASSUME NEW h, NEW retry, Session(h)
  PROVE  LET g == registerTransientFailure(h, retry)
         IN  /\ Modest(h, g) /\ g.state \in {"parked", "needs_you"}
             /\ g.state = "parked" => g.timer \/ g.selfResuming
<1> DEFINE v == IF h.transient < TransientCeiling THEN h.transient + 1 ELSE h.transient
           f == [h EXCEPT !.transient = v]
           g == registerTransientFailure(h, retry)
<1>1. g = IF f.transient < TransientCeiling THEN enterPark(f, "outage", FALSE, retry)
          ELSE IF pendingQuestions(f) = 0 THEN Escalated(f, Question)
          ELSE [f EXCEPT !.state = "needs_you"]
  BY DEF registerTransientFailure
<1>2. Like(h, f)
  <2> HIDE DEF v
  <2> QED BY ExceptMinor
<1> HIDE DEF f, g
<1>3. Gentle(h, f) /\ Session(f) BY <1>2, LikeIsGentle, GentleIsSession
<1>4. CASE g = enterPark(f, "outage", FALSE, retry)
  <2>1. FALSE \in BOOLEAN OBVIOUS
  <2>2. Modest(f, g) /\ g.state = "parked" /\ (g.timer \/ g.selfResuming) BY <2>1, <1>3, <1>4, ParkTimed
  <2> QED BY <2>2, <1>3 DEF Gentle, Modest, g
<1>5. CASE g = Escalated(f, Question)
  <2>1. Question \in AnyRow /\ Question \in PlainRow BY RowsPlain DEF AnyRow
  <2>2. Gentle(f, g) /\ g.state = "needs_you" BY <2>1, <1>3, <1>5, EscalatedRests
  <2> QED BY <2>2, <1>3 DEF Gentle, Modest, g
<1>6. CASE g = [f EXCEPT !.state = "needs_you"]
  <2>1. /\ DOMAIN g = Fields /\ g.armed = f.armed /\ g.id = f.id /\ g.rows = f.rows
        /\ g.timer = f.timer /\ g.selfResuming = f.selfResuming /\ g.state = "needs_you"
    BY <1>6, <1>3 DEF Session, Fields
  <2>2. Modest(f, g) BY <2>1, <1>3 DEF Modest, Session
  <2> QED BY <2>1, <2>2, <1>3 DEF Gentle, Modest, g
<1> QED BY <1>1, <1>4, <1>5, <1>6

LEMMA NeedsYouGentle ==
  ASSUME NEW h, NEW q, Session(h), q \in Seq(AnyRow), PromptsIn(q) = PromptsIn(h.rows)
  PROVE  LET g == [h EXCEPT !.rows = q, !.state = "needs_you"]
         IN  Gentle(h, g) /\ g.state = "needs_you"
<1> DEFINE g == [h EXCEPT !.rows = q, !.state = "needs_you"]
<1>1. /\ DOMAIN g = Fields /\ g.rows = q /\ g.armed = h.armed /\ g.id = h.id
      /\ g.state = "needs_you" /\ g.timer = h.timer /\ g.selfResuming = h.selfResuming
  BY DEF Session, Fields
<1> HIDE DEF g
<1>2. Gentle(h, g) BY <1>1 DEF Session, Gentle, Modest, Rests, Resting
<1> QED BY <1>1, <1>2 DEF g

LEMMA ReportGentle ==
  ASSUME NEW h, Session(h)
  PROVE  \A g \in WithReport(h) : Gentle(h, g) /\ g.state = "needs_you"
<1> DEFINE I == Rows(h, {"report"})
           kept == IF Cardinality(I) < MaxReports THEN h.rows ELSE RemoveAt(h.rows, Min(I))
<1>1. h.rows \in Seq(AnyRow) BY DEF Session
<1>2. kept \in Seq(AnyRow) /\ PromptsIn(kept) = PromptsIn(h.rows)
  <2>1. CASE Cardinality(I) < MaxReports BY <2>1, <1>1
  <2>2. CASE ~(Cardinality(I) < MaxReports)
    <3>1. I # {}
      <4>1. ASSUME I = {} PROVE FALSE
        <5>1. Cardinality(I) = 0 BY <4>1, FS_EmptySet
        <5>2. MaxReports \in Nat \ {0} BY HandlerAssumption
        <5> HIDE DEF I
        <5> QED BY <5>1, <5>2, <2>2
      <4> QED BY <4>1
    <3>2. I \subseteq DOMAIN h.rows /\ \A k \in I : h.rows[k].kind = "report" BY DEF Rows
    <3>3. DOMAIN h.rows \subseteq Nat BY <1>1
    <3> HIDE DEF I
    <3>4. Min(I) \in I BY <3>1, <3>2, <3>3, MinIsThere
    <3>5. h.rows[Min(I)] \in AnyRow /\ h.rows[Min(I)].kind = "report" BY <1>1, <3>2, <3>4
    <3>6. h.rows[Min(I)].of = None BY <3>5, RowFields
    <3>7. /\ RemoveAt(h.rows, Min(I)) \in Seq(AnyRow)
          /\ PromptsIn(RemoveAt(h.rows, Min(I))) = PromptsIn(h.rows)
      BY <1>1, <3>2, <3>4, <3>6, RemovePrompts
    <3> QED BY <3>7, <2>2
  <2> QED BY <2>1, <2>2
<1> DEFINE q == Append(kept, Report)
<1>3. q \in Seq(AnyRow) /\ PromptsIn(q) = PromptsIn(h.rows)
  <2>1. Report \in AnyRow /\ Report.of = None BY RowsPlain DEF AnyRow, PlainRow
  <2> HIDE DEF kept
  <2>2. q \in Seq(AnyRow) /\ PromptsIn(q) = PromptsIn(kept) \cup ({Report.of} \ {None})
    BY <2>1, <1>2, AppendPrompts
  <2> HIDE DEF q
  <2> QED BY <2>1, <2>2, <1>2
<1>4. \A g \in WithReport(h) : \/ g = [h EXCEPT !.rows = q, !.state = "needs_you"]
                               \/ g = [h EXCEPT !.state = "needs_you"]
  BY DEF WithReport
<1> HIDE DEF q
<1>5. LET g == [h EXCEPT !.rows = q, !.state = "needs_you"] IN Gentle(h, g) /\ g.state = "needs_you"
  BY <1>3, NeedsYouGentle
<1>6. LET g == [h EXCEPT !.state = "needs_you"] IN Gentle(h, g) /\ g.state = "needs_you"
  <2> DEFINE g == [h EXCEPT !.state = "needs_you"]
  <2>1. /\ DOMAIN g = Fields /\ g.armed = h.armed /\ g.id = h.id /\ g.rows = h.rows
        /\ g.timer = h.timer /\ g.selfResuming = h.selfResuming /\ g.state = "needs_you"
    BY DEF Session, Fields
  <2> HIDE DEF g
  <2>2. Gentle(h, g) BY <2>1 DEF Session, Gentle, Modest, Rests, Resting
  <2> QED BY <2>1, <2>2 DEF g
<1> QED BY <1>4, <1>5, <1>6

(* A promoted ask is still no prompt.                                       *)
LEMMA ReconcileGentle ==
  ASSUME NEW h, Session(h)
  PROVE  /\ Gentle(h, reconcileAsks(h))
         /\ reconcileAsks(h).state = h.state
         /\ reconcileAsks(h).timer = h.timer
         /\ reconcileAsks(h).selfResuming = h.selfResuming
<1> DEFINE still(r) == r.unblocked \cap Running(h)
           new(r) == IF r.kind # "ask" THEN r
                     ELSE IF still(r) = {} THEN Row("promoted", None, {})
                     ELSE [r EXCEPT !.unblocked = still(r)]
           q == [k \in DOMAIN h.rows |-> new(h.rows[k])]
<1>1. reconcileAsks(h) = [h EXCEPT !.rows = q] BY DEF reconcileAsks
<1>2. h.rows \in Seq(AnyRow) BY DEF Session
<1>3. ASSUME NEW r \in AnyRow PROVE new(r) \in AnyRow /\ new(r).of = r.of
  <2>1. CASE r.kind # "ask" BY <2>1
  <2>2. CASE r.kind = "ask"
    <3>1. r \in PlainRow /\ r.of = None BY <2>2, RowFields
    <3>2. Row("promoted", None, {}) \in PlainRow /\ Row("promoted", None, {}).of = None
      BY RowsPlain DEF Row
    <3>3. still(r) \in SUBSET Item BY DEF Running
    <3>4. [r EXCEPT !.unblocked = still(r)] \in PlainRow /\ [r EXCEPT !.unblocked = still(r)].of = None
      <4> HIDE DEF still
      <4> QED BY <3>1, <3>3 DEF PlainRow
    <3> QED BY <2>2, <3>1, <3>2, <3>4 DEF AnyRow
  <2> QED BY <2>1, <2>2
<1> HIDE DEF new
<1>4. \A k \in DOMAIN h.rows : h.rows[k] \in AnyRow BY <1>2
<1>5. \A k \in DOMAIN h.rows : q[k] \in AnyRow /\ q[k].of = h.rows[k].of BY <1>3, <1>4
<1>6. DOMAIN q = DOMAIN h.rows OBVIOUS
<1>7. q \in Seq(AnyRow)
  <2>1. DOMAIN h.rows = 1..Len(h.rows) /\ Len(h.rows) \in Nat BY <1>2
  <2>2. q = [k \in 1..Len(h.rows) |-> q[k]] BY <2>1
  <2> HIDE DEF q
  <2>3. \A k \in 1..Len(h.rows) : q[k] \in AnyRow BY <1>5, <2>1
  <2>4. q \in [1..Len(h.rows) -> AnyRow] BY <2>2, <2>3
  <2> QED BY <2>1, <2>4, SeqDef
<1> HIDE DEF q
<1>8. PromptsIn(q) = PromptsIn(h.rows) BY <1>5, <1>6 DEF PromptsIn
<1> QED BY <1>1, <1>7, <1>8, ReRowed

LEMMA EnteredGentle ==
  ASSUME NEW h, Session(h)
  PROVE  /\ Gentle(h, Entered(h)) /\ Entered(h).state = h.state
         /\ Entered(h).timer = h.timer /\ Entered(h).selfResuming = h.selfResuming
<1> DEFINE f == [h EXCEPT !.awaiting = FALSE]
<1>1. Like(h, f) BY ExceptMinor
<1> HIDE DEF f
<1>2. Gentle(h, f) /\ Session(f) BY <1>1, LikeIsGentle, GentleIsSession
<1>3. Gentle(f, reconcileAsks(f)) /\ reconcileAsks(f).state = f.state
      /\ reconcileAsks(f).timer = f.timer /\ reconcileAsks(f).selfResuming = f.selfResuming
  BY <1>2, ReconcileGentle
<1>4. Entered(h) = reconcileAsks(f) BY DEF Entered, f
<1>5. Gentle(h, reconcileAsks(f)) BY <1>2, <1>3, GentleTrans
<1> QED BY <1>1, <1>3, <1>4, <1>5 DEF Like

LEMMA RaiseGentle ==
  ASSUME NEW h, NEW U \in SUBSET Item, Session(h)
  PROVE  Gentle(h, raiseAsk(h, U))
<1>1. CASE Rows(h, {"ask", "promoted"}) # {}
  <2>1. raiseAsk(h, U) = h BY <1>1 DEF raiseAsk
  <2>2. Like(h, h) BY DEF Like, Session
  <2> QED BY <2>1, <2>2, LikeIsGentle
<1>2. CASE Rows(h, {"ask", "promoted"}) = {}
  <2> DEFINE r == Row("ask", None, U \cap Running(h))
             q == Append(h.rows, r)
  <2>1. raiseAsk(h, U) = [h EXCEPT !.rows = q] BY <1>2 DEF raiseAsk
  <2>2. U \cap Running(h) \in SUBSET Item OBVIOUS
  <2>3. r \in AnyRow /\ r.of = None BY <2>2, RowsPlain DEF AnyRow, Row
  <2>4. h.rows \in Seq(AnyRow) BY DEF Session
  <2> HIDE DEF r
  <2>6. q \in Seq(AnyRow) /\ PromptsIn(q) = PromptsIn(h.rows) \cup ({r.of} \ {None})
    BY <2>3, <2>4, AppendPrompts
  <2> HIDE DEF q
  <2>5. q \in Seq(AnyRow) /\ PromptsIn(q) = PromptsIn(h.rows) BY <2>3, <2>6
  <2> QED BY <2>1, <2>5, ReRowed
<1> QED BY <1>1, <1>2

(* parkAskAnswer and a read report: a row that is no prompt goes.           *)
LEMMA RowGone ==
  ASSUME NEW h, NEW k \in DOMAIN h.rows, Session(h), h.rows[k].kind # "prompt"
  PROVE  Gentle(h, [h EXCEPT !.rows = RemoveAt(@, k)])
<1>1. h.rows \in Seq(AnyRow) BY DEF Session
<1>2. h.rows[k] \in AnyRow BY <1>1
<1>3. h.rows[k].of = None BY <1>2, RowFields
<1> DEFINE q == RemoveAt(h.rows, k)
<1>4. q \in Seq(AnyRow) /\ PromptsIn(q) = PromptsIn(h.rows) BY <1>1, <1>3, RemovePrompts
<1>5. [h EXCEPT !.rows = RemoveAt(@, k)] = [h EXCEPT !.rows = q] OBVIOUS
<1> HIDE DEF q
<1>6. Gentle(h, [h EXCEPT !.rows = q]) BY <1>4, ReRowed
<1> QED BY <1>5, <1>6

LEMMA AnswerGentle ==
  ASSUME NEW h, NEW k \in DOMAIN h.rows, NEW how, Session(h), h.rows[k].kind # "prompt"
  PROVE  Gentle(h, parkAskAnswer(h, k, how))
<1> DEFINE f == [h EXCEPT !.rows = RemoveAt(@, k)]
           a == [n |-> acts, how |-> how, session |-> h.id]
           g == [h EXCEPT !.rows = RemoveAt(@, k), !.answer = a, !.judged = None, !.promptGen = @ + 1]
<1>1. Gentle(h, f) /\ Session(f) BY RowGone, GentleIsSession
<1>2. Like(f, g)
  <2> HIDE DEF a
  <2> DEFINE q == RemoveAt(h.rows, k)
  <2>1. /\ f = [h EXCEPT !.rows = q]
        /\ g = [h EXCEPT !.rows = q, !.answer = a, !.judged = None, !.promptGen = @ + 1]
    OBVIOUS
  <2> HIDE DEF f, g, q
  <2> QED BY <2>1 DEF Like, Session, Fields
<1> HIDE DEF f
<1>3. Gentle(f, g)
  <2> HIDE DEF g
  <2> QED BY <1>1, <1>2, LikeIsGentle
<1>4. parkAskAnswer(h, k, how) = IF h.state = "parked" THEN g ELSE Rested(g) BY DEF parkAskAnswer
<1> HIDE DEF g
<1>5. Gentle(h, g) /\ Session(g) BY <1>1, <1>3, GentleTrans, GentleIsSession
<1>6. Gentle(g, Rested(g)) BY <1>5, RestedGentle
<1>7. Gentle(h, Rested(g)) BY <1>5, <1>6, GentleTrans
<1> QED BY <1>4, <1>5, <1>7

(* A filter that takes the prompt p, and no other, away.                    *)
LEMMA FilteredPrompts ==
  ASSUME NEW q \in Seq(AnyRow), NEW K, NEW p,
         \A r \in Members(q) : r.kind = "prompt" => (r \in K <=> r.of # p)
  PROVE  Only(q, K) \in Seq(AnyRow) /\ PromptsIn(Only(q, K)) = PromptsIn(q) \ {p}
<1>1. /\ Only(q, K) \in Seq(AnyRow)
      /\ \A x : x \in PromptsIn(Only(q, K)) <=> x # None /\ \E k \in DOMAIN q : q[k] \in K /\ q[k].of = x
  BY OnlyPrompts
<1>2. \A k \in DOMAIN q : q[k] \in AnyRow /\ q[k] \in Members(q) BY DEF Members
<1>3. \A k \in DOMAIN q : q[k].of # None => q[k].kind = "prompt" BY <1>2, RowFields
<1>4. ASSUME NEW x PROVE x \in PromptsIn(Only(q, K)) <=> x \in PromptsIn(q) \ {p}
  <2>1. x \in PromptsIn(q) <=> x # None /\ \E k \in DOMAIN q : q[k].of = x BY DEF PromptsIn
  <2>2. ASSUME x # None, NEW k \in DOMAIN q, q[k].of = x PROVE q[k] \in K <=> x # p
    BY <2>2, <1>2, <1>3
  <2> QED BY <2>1, <2>2, <1>1
<1>5. PromptsIn(Only(q, K)) = PromptsIn(q) \ {p} BY <1>4
<1> QED BY <1>1, <1>5

LEMMA RepliedTakes ==
  ASSUME NEW h, NEW p, Session(h)
  PROVE  LET g == Replied(h, p)
         IN  /\ Session(g) /\ g.armed = h.armed /\ g.id = h.id /\ Rests(h, g)
             /\ PromptsIn(g.rows) = PromptsIn(h.rows) \ {p}
<1> DEFINE e == [h EXCEPT !.judged = None]
           u == unparkIfParked(e)
           K == {r \in ToSet(u.rows) : KeptBy(p, r)}
           kept == Only(u.rows, K)
           g == [u EXCEPT !.transient = 0, !.limits = 0, !.reasks = 0]
           f == [g EXCEPT !.rows = kept, !.promptGen = @ + 1]
<1>1. Replied(h, p) = IF h.state # "parked" /\ kept = h.rows THEN g ELSE Rested(f)
  BY DEF Replied
<1>2. Like(h, e) BY ExceptMinor
<1> HIDE DEF e
<1>3. Gentle(h, e) /\ Session(e) BY <1>2, LikeIsGentle, GentleIsSession
<1>4. Gentle(e, u) /\ u.rows = e.rows BY <1>3, UnparkGentle
<1>5. Gentle(h, u) /\ Session(u) /\ u.rows = h.rows BY <1>2, <1>3, <1>4, GentleTrans, GentleIsSession DEF Like
<1> HIDE DEF u
<1>6. kept \in Seq(AnyRow) /\ PromptsIn(kept) = PromptsIn(h.rows) \ {p}
  <2>1. u.rows \in Seq(AnyRow) BY <1>5 DEF Session
  <2>2. \A r \in Members(u.rows) : r \in ToSet(u.rows) BY DEF Members, ToSet
  <2>3. \A r \in Members(u.rows) : r.kind = "prompt" => (r \in K <=> r.of # p)
    BY <2>2 DEF KeptBy
  <2> HIDE DEF K
  <2>4. kept \in Seq(AnyRow) /\ PromptsIn(kept) = PromptsIn(u.rows) \ {p} BY <2>1, <2>3, FilteredPrompts
  <2> HIDE DEF kept
  <2> QED BY <2>4, <1>5
<1> HIDE DEF kept
<1>7. Like(u, g) BY <1>5 DEF Like, Session, Fields
<1>8. Gentle(h, g) /\ Session(g) /\ g.rows = h.rows
  <2> HIDE DEF g
  <2>1. Gentle(u, g) /\ g.rows = h.rows BY <1>5, <1>7, LikeIsGentle DEF Like
  <2> QED BY <2>1, <1>5, GentleTrans, GentleIsSession
<1> HIDE DEF g
<1>9. /\ DOMAIN f = Fields /\ f.rows = kept /\ f.armed = g.armed /\ f.id = g.id /\ f.state = g.state
      /\ f.timer = g.timer /\ f.selfResuming = g.selfResuming
  BY <1>8 DEF Session, Fields
<1> HIDE DEF f
<1>10. Session(f) BY <1>6, <1>8, <1>9 DEF Session
<1>11. Gentle(f, Rested(f)) /\ Rested(f).state \in Resting /\ Rested(f).rows = f.rows BY <1>10, RestedGentle
<1> DEFINE t == Rested(f)
<1> HIDE DEF t
<1>12. /\ Session(t) /\ t.armed = h.armed /\ t.id = h.id /\ Rests(h, t)
       /\ PromptsIn(t.rows) = PromptsIn(h.rows) \ {p}
  BY <1>6, <1>8, <1>9, <1>11 DEF Gentle, Modest, Rests, t
<1>13. CASE h.state # "parked" /\ kept = h.rows
  <2>1. PromptsIn(g.rows) = PromptsIn(h.rows) \ {p} BY <1>6, <1>8, <1>13
  <2> QED BY <2>1, <1>1, <1>8, <1>13 DEF Gentle, Modest
<1>14. CASE ~(h.state # "parked" /\ kept = h.rows)
  <2>1. Replied(h, p) = t BY <1>1, <1>14 DEF t
  <2> QED BY <2>1, <1>12
<1> QED BY <1>13, <1>14

LEMMA RetractedTakes ==
  ASSUME NEW h, NEW p, Session(h), p \in Prompt \cup {None}
  PROVE  LET g == Retracted(h, p)
         IN  /\ Session(g) /\ g.armed = h.armed /\ g.id = h.id /\ Rests(h, g)
             /\ p # None => PromptsIn(g.rows) = PromptsIn(h.rows) \ {p}
             /\ p = None => PromptsIn(g.rows) = {}
<1> DEFINE u == unparkIfParked(h)
           K == {r \in ToSet(u.rows) : IF p = None THEN r.kind \in {"report", "ask"} ELSE r.of # p}
           kept == Only(u.rows, K)
           f == [u EXCEPT !.rows = kept]
<1>1. Retracted(h, p) = IF h.state # "parked" /\ kept = h.rows THEN h ELSE Rested(f)
  BY DEF Retracted
<1>2. Gentle(h, u) /\ Session(u) /\ u.rows = h.rows BY UnparkGentle, GentleIsSession
<1> HIDE DEF u
<1>3. h.rows \in Seq(AnyRow) BY DEF Session
<1>4. \A r \in Members(h.rows) : r \in ToSet(u.rows) BY <1>2 DEF Members, ToSet
<1>5. kept \in Seq(AnyRow) BY <1>2, <1>3, OnlyIsSeq
<1>6. ASSUME p # None PROVE PromptsIn(kept) = PromptsIn(h.rows) \ {p}
  <2>1. \A r \in Members(u.rows) : r.kind = "prompt" => (r \in K <=> r.of # p) BY <1>2, <1>4, <1>6
  <2>2. u.rows \in Seq(AnyRow) BY <1>2, <1>3
  <2> HIDE DEF K
  <2>3. PromptsIn(kept) = PromptsIn(u.rows) \ {p} BY <2>1, <2>2, FilteredPrompts
  <2> HIDE DEF kept
  <2> QED BY <2>3, <1>2
<1>7. ASSUME p = None PROVE PromptsIn(kept) = {}
  <2>1. \A x : x \in PromptsIn(kept) <=> x # None /\ \E k \in DOMAIN h.rows : h.rows[k] \in K /\ h.rows[k].of = x
    <3> HIDE DEF K
    <3> QED BY <1>2, <1>3, OnlyPrompts
  <2>2. \A k \in DOMAIN h.rows : h.rows[k] \in AnyRow BY <1>3
  <2>3. \A k \in DOMAIN h.rows : h.rows[k] \in K => h.rows[k].kind # "prompt" BY <1>7
  <2>4. \A k \in DOMAIN h.rows : h.rows[k] \in K => h.rows[k].of = None BY <2>2, <2>3, RowFields
  <2> HIDE DEF K, kept
  <2> QED BY <2>1, <2>4
<1> HIDE DEF kept
<1>8. /\ Session(f) /\ f.rows = kept /\ f.armed = u.armed /\ f.id = u.id
  <2>1. Session(u) BY <1>2
  <2> QED BY <2>1, <1>5, ReRowed
<1> HIDE DEF f
<1>9. Gentle(f, Rested(f)) /\ Rested(f).state \in Resting /\ Rested(f).rows = f.rows BY <1>8, RestedGentle
<1> DEFINE t == Rested(f)
<1> HIDE DEF t
<1>10. Session(t) /\ t.armed = h.armed /\ t.id = h.id /\ Rests(h, t) /\ t.rows = kept
  BY <1>2, <1>8, <1>9 DEF Gentle, Modest, Rests, t
<1>11. CASE h.state # "parked" /\ kept = h.rows
  <2>1. Retracted(h, p) = h BY <1>1, <1>11
  <2>2. Rests(h, h) BY DEF Rests
  <2> QED BY <2>1, <2>2, <1>6, <1>7, <1>11
<1>12. CASE ~(h.state # "parked" /\ kept = h.rows)
  <2>1. Retracted(h, p) = t BY <1>1, <1>12 DEF t
  <2> QED BY <2>1, <1>6, <1>7, <1>10
<1> QED BY <1>11, <1>12

(* handleLifecycle.                                                         *)
LEMMA LimitParks ==
  ASSUME NEW h, NEW b \in BOOLEAN, Session(h)
  PROVE  LET g == AfterLimit(h, b)
         IN  /\ Modest(h, g)
             /\ g.state = "parked" => g.timer \/ g.selfResuming
             /\ g.state = "handling" => h.state = "handling"
<1> DEFINE f == IF (h.state = "parked" /\ h.parkKind = "limit") \/ h.limits = LimitCeiling THEN h
                ELSE [h EXCEPT !.limits = @ + 1]
           u == unparkIfParked(f)
           g == AfterLimit(h, b)
<1>1. \/ g = enterPark(f, "limit", b, h.retry)
      \/ g = Escalated(u, Question)
      \/ g = u
  BY DEF AfterLimit
<1>2. Like(h, f)
  <2>1. Like(h, h) BY DEF Like, Session
  <2>2. Like(h, [h EXCEPT !.limits = h.limits + 1]) BY ExceptMinor
  <2> QED BY <2>1, <2>2
<1> HIDE DEF f, g
<1>3. Gentle(h, f) /\ Session(f) BY <1>2, LikeIsGentle, GentleIsSession
<1>4. Gentle(f, u) /\ u.state # "parked" BY <1>3, UnparkGentle
<1> HIDE DEF u
<1>5. Gentle(h, u) /\ Session(u) BY <1>3, <1>4, GentleTrans, GentleIsSession
<1>6. CASE g = enterPark(f, "limit", b, h.retry)
  <2>1. Modest(f, g) /\ g.state = "parked" /\ (g.timer \/ g.selfResuming) BY <1>3, <1>6, ParkTimed
  <2> QED BY <2>1, <1>3 DEF Gentle, Modest, g
<1>7. CASE g = Escalated(u, Question)
  <2>1. Question \in AnyRow /\ Question \in PlainRow BY RowsPlain DEF AnyRow
  <2>2. Gentle(u, g) /\ g.state = "needs_you" BY <2>1, <1>5, <1>7, EscalatedRests
  <2> QED BY <2>2, <1>5 DEF Gentle, Modest, g
<1>8. CASE g = u BY <1>8, <1>4, <1>5 DEF Gentle, Modest, Rests, Resting, g
<1> QED BY <1>1, <1>6, <1>7, <1>8

-----------------------------------------------------------------------------
Passes == {"context", "judge", "snapshots"}

(* The inductive invariant: the three properties, and that a session that   *)
(* is not armed has no rows and nothing queued.                             *)
Inv ==
  /\ Session(s)
  /\ disk.rows \in Seq(AnyRow)
  /\ open \subseteq Prompt
  /\ ~s.armed => s.rows = <<>> /\ queued = {}
  /\ ParkIsTimed
  /\ HandlingIsAPass
  /\ PromptsAreRows

LEMMA InitInv == Init => Inv
<1> SUFFICES ASSUME Init PROVE Inv OBVIOUS
<1>1. s = Unarmed /\ queued = {} /\ open = {} BY DEF Init
<1>2. /\ Session(Unarmed) /\ Unarmed.armed = FALSE /\ Unarmed.rows = <<>> BY UnarmedIsSession
<1>3. disk.rows = <<>> BY <1>2 DEF Init, Record
<1>4. <<>> \in Seq(AnyRow) BY EmptySeq
<1>5. RowPrompts = {}
  <2>1. DOMAIN s.rows = {} BY <1>1, <1>2
  <2> QED BY <2>1 DEF RowPrompts
<1> HIDE DEF Unarmed
<1> QED BY <1>1, <1>2, <1>3, <1>4, <1>5 DEF Inv, ParkIsTimed, HandlingIsAPass, PromptsAreRows

LEMMA NothingIn == PromptsIn(<<>>) = {}
<1>1. DOMAIN <<>> = {} OBVIOUS
<1> QED BY <1>1 DEF PromptsIn

(* The record of a session.                                                 *)
LEMMA DiskKept ==
  ASSUME Inv, NEW h, Session(h), Persist(h) \/ UNCHANGED disk
  PROVE  disk'.rows \in Seq(AnyRow)
<1>1. CASE Persist(h)
  <2>1. disk'.rows = h.rows BY <1>1 DEF Persist, Record
  <2> QED BY <2>1 DEF Session
<1>2. CASE UNCHANGED disk BY <1>2 DEF Inv
<1> QED BY <1>1, <1>2

(* A step of the session that leaves the prompts alone.                     *)
LEMMA ModestStep ==
  ASSUME Inv, Modest(s, s'), disk'.rows \in Seq(AnyRow), UNCHANGED <<open, told, queued>>,
         ~s.armed => s'.rows = <<>>,
         s'.armed /\ s'.state = "parked" => s'.timer \/ s'.selfResuming,
         s'.armed /\ s'.state = "handling" => running'.pc \in Passes /\ running'.id = s'.id
  PROVE  Inv'
<1>1. Session(s') /\ s'.armed = s.armed /\ PromptsIn(s'.rows) = PromptsIn(s.rows) BY DEF Modest
<1>2. RowPrompts = PromptsIn(s.rows) /\ RowPrompts' = PromptsIn(s'.rows) BY DEF RowPrompts, PromptsIn
<1>3. PromptsAreRows' BY <1>1, <1>2 DEF Inv, PromptsAreRows
<1>4. ParkIsTimed' BY DEF ParkIsTimed
<1>5. HandlingIsAPass' BY DEF HandlingIsAPass, Passes
<1> QED BY <1>1, <1>3, <1>4, <1>5 DEF Inv

LEMMA GentleStep ==
  ASSUME Inv, Gentle(s, s'), disk'.rows \in Seq(AnyRow), UNCHANGED <<open, told, queued>>,
         ~s.armed => s'.rows = <<>>,
         s'.armed /\ s'.state = "handling" => running'.pc \in Passes /\ running'.id = s'.id
  PROVE  Inv'
<1>1. Modest(s, s') BY DEF Gentle
<1>2. s'.armed /\ s'.state = "parked" => s'.timer \/ s'.selfResuming
  BY DEF Inv, ParkIsTimed, Gentle, Modest, Rests, Resting
<1> QED BY <1>1, <1>2, ModestStep

LEMMA QuietStep ==
  ASSUME Inv, Gentle(s, s'), disk'.rows \in Seq(AnyRow), UNCHANGED <<open, told, queued, running>>,
         ~s.armed => s'.rows = <<>>
  PROVE  Inv'
<1>1. s'.armed /\ s'.state = "handling" => running'.pc \in Passes /\ running'.id = s'.id
  BY DEF Inv, HandlingIsAPass, Gentle, Modest, Rests, Resting, Passes
<1> QED BY <1>1, GentleStep

(* A pass or an extraction that is over.                                    *)
LEMMA RestStep ==
  ASSUME Inv, s.armed, Gentle(s, s'), s'.state # "handling",
         disk'.rows \in Seq(AnyRow), UNCHANGED <<open, told, queued>>
  PROVE  Inv'
BY GentleStep

LEMMA DisarmStep ==
  ASSUME Inv, NEW h, NEW b, Session(h), Disarm(h, b), open' \subseteq Prompt
  PROVE  Inv'
<1> DEFINE u == unparkIfParked(h)
<1>1. Session(u) /\ u.rows = h.rows BY UnparkGentle, GentleIsSession
<1>2. s' = [Unarmed EXCEPT !.id = h.id, !.timer = u.timer] /\ queued' = {} /\ disk' = Record(u, FALSE, b)
  BY DEF Disarm, Disarmed
<1> HIDE DEF u
<1>3. /\ Session(Unarmed) /\ Unarmed.armed = FALSE /\ Unarmed.rows = <<>>
  BY UnarmedIsSession
<1> HIDE DEF Unarmed
<1>4. /\ DOMAIN s' = Fields /\ s'.armed = FALSE /\ s'.rows = <<>> /\ s'.timer = u.timer
      /\ s'.selfResuming = Unarmed.selfResuming
  BY <1>2, <1>3 DEF Session, Fields
<1>5. Session(s') BY <1>1, <1>3, <1>4 DEF Session
<1>6. disk'.rows \in Seq(AnyRow) BY <1>1, <1>2 DEF Record, Session
<1>7. RowPrompts' = {} BY <1>4, NothingIn DEF RowPrompts, PromptsIn
<1> QED BY <1>2, <1>4, <1>5, <1>6, <1>7 DEF Inv, ParkIsTimed, HandlingIsAPass, PromptsAreRows

LEMMA SettleStep ==
  ASSUME Inv, s.armed, NEW h, Gentle(s, h), Settle(h), UNCHANGED <<open, told>>
  PROVE  Inv'
<1>0. Session(h) BY GentleIsSession
<1>1. CASE WrapsUp(h)
  <2>1. Disarm(h, FALSE) BY <1>1 DEF Settle
  <2>2. open' \subseteq Prompt BY DEF Inv
  <2> QED BY <2>1, <2>2, <1>0, DisarmStep
<1>2. CASE ~WrapsUp(h)
  <2> DEFINE e == IF allTerminal(h) THEN reconcileAsks(h) ELSE h
             g == Rested(e)
  <2>1. s' = g /\ (Persist(g) \/ UNCHANGED disk) /\ UNCHANGED queued BY <1>2 DEF Settle, MaySave
  <2>2. Gentle(h, e)
    <3>1. Like(h, h) BY <1>0 DEF Like, Session
    <3>2. Gentle(h, h) BY <3>1, <1>0, LikeIsGentle
    <3> QED BY <3>2, <1>0, ReconcileGentle
  <2> HIDE DEF e
  <2>3. Session(e) BY <2>2, GentleIsSession
  <2>4. Gentle(e, g) /\ g.state \in Resting BY <2>3, RestedGentle
  <2> HIDE DEF g
  <2>5. Gentle(s, g) /\ Session(g) BY <2>2, <2>4, GentleTrans, GentleIsSession
  <2>6. disk'.rows \in Seq(AnyRow) BY <2>1, <2>5, DiskKept
  <2>7. s'.state # "handling" /\ Gentle(s, s') BY <2>1, <2>4, <2>5 DEF Resting
  <2> QED BY <2>1, <2>6, <2>7, RestStep
<1> QED BY <1>1, <1>2

-----------------------------------------------------------------------------
(* The user.                                                                *)

LEMMA ArmInv ==
  ASSUME Inv, NEW goal, NEW items, NEW past, Arm(goal, items, past) PROVE Inv'
<1> DEFINE carried == Only(disk.rows, {r \in ToSet(disk.rows) : r.kind # "prompt"})
           fresh == [Unarmed EXCEPT !.armed = TRUE, !.id = arms + 1, !.timer = s.timer]
           v == IF \E i \in Item : Given(items, disk.backlog)[i] \in {"running", "stuck"}
                THEN disk.reasks ELSE 0
           full == [fresh EXCEPT !.rows = carried, !.backlog = Given(items, disk.backlog),
                     !.transient = disk.transient, !.answer = disk.answer, !.reasks = v]
           loaded == Rested(full)
           h == IF disk.armed \/ disk.suspended THEN rehydratePark(loaded, disk, past)
                ELSE [fresh EXCEPT !.backlog = Given(items, @)]
<1>1. s' = h /\ Persist(h) /\ told' = {} /\ UNCHANGED <<queued, open, running>> /\ ~s.armed
  BY DEF Arm, UserActs
<1>2. queued = {} /\ disk.rows \in Seq(AnyRow) /\ open \subseteq Prompt /\ s.timer \in BOOLEAN
  BY <1>1 DEF Inv, Session
<1>3. carried \in Seq(AnyRow) /\ PromptsIn(carried) = {}
  <2> DEFINE K == {r \in ToSet(disk.rows) : r.kind # "prompt"}
  <2>1. \A k \in DOMAIN disk.rows : disk.rows[k] \in AnyRow BY <1>2
  <2>2. \A k \in DOMAIN disk.rows : disk.rows[k] \in K => disk.rows[k].kind # "prompt" OBVIOUS
  <2>3. \A k \in DOMAIN disk.rows : disk.rows[k] \in K => disk.rows[k].of = None BY <2>1, <2>2, RowFields
  <2>4. carried = Only(disk.rows, K) OBVIOUS
  <2> HIDE DEF K, carried
  <2>5. /\ carried \in Seq(AnyRow)
        /\ \A p : p \in PromptsIn(carried) <=>
             p # None /\ \E k \in DOMAIN disk.rows : disk.rows[k] \in K /\ disk.rows[k].of = p
    BY <1>2, <2>4, OnlyPrompts
  <2> QED BY <2>3, <2>5
<1> HIDE DEF carried, v
<1>4. /\ Session(Unarmed) /\ Unarmed.rows = <<>> /\ Unarmed.state = "watching" BY UnarmedIsSession
<1> HIDE DEF Unarmed
<1>5. /\ DOMAIN fresh = Fields /\ fresh.armed = TRUE /\ fresh.rows = <<>>
      /\ fresh.timer = s.timer /\ fresh.selfResuming \in BOOLEAN /\ fresh.state = "watching"
  BY <1>4 DEF Session, Fields
<1> HIDE DEF fresh
<1>6. Session(fresh) BY <1>2, <1>5, EmptySeq DEF Session
<1>7. /\ DOMAIN full = Fields /\ full.armed = TRUE /\ full.rows = carried
      /\ full.timer = fresh.timer /\ full.selfResuming = fresh.selfResuming
  <2> DEFINE w == Given(items, disk.backlog)
  <2> HIDE DEF w
  <2>1. full = [fresh EXCEPT !.rows = carried, !.backlog = w,
                     !.transient = disk.transient, !.answer = disk.answer, !.reasks = v]
    BY DEF w
  <2> HIDE DEF full
  <2> QED BY <2>1, <1>5 DEF Fields
<1> HIDE DEF full
<1>8. Session(full) BY <1>3, <1>6, <1>7 DEF Session
<1>9. Gentle(full, loaded) /\ loaded.state \in Resting /\ loaded.rows = full.rows BY <1>8, RestedGentle
<1> HIDE DEF loaded
<1>10. /\ Session(loaded) /\ loaded.armed = TRUE /\ loaded.rows = carried
  BY <1>7, <1>9 DEF Gentle, Modest
<1>11. /\ Session(h) /\ h.armed = TRUE /\ (h.rows = carried \/ h.rows = <<>>)
       /\ h.state # "handling" /\ (h.state = "parked" => h.timer)
  <2>1. CASE ~(disk.armed \/ disk.suspended)
    <3> DEFINE w == Given(items, fresh.backlog)
    <3>1. h = [fresh EXCEPT !.backlog = w] BY <2>1
    <3> HIDE DEF w
    <3>2. Like(fresh, h)
      <4> HIDE DEF h
      <4> QED BY <3>1, <1>6, ExceptMinor
    <3> HIDE DEF h
    <3> QED BY <3>2, <1>5, <1>6 DEF Like, Session
  <2>2. CASE disk.armed \/ disk.suspended
    <3>1. h = rehydratePark(loaded, disk, past) BY <2>2
    <3>2. CASE rehydratePark(loaded, disk, past) = loaded BY <3>1, <3>2, <1>9, <1>10 DEF Resting
    <3>3. CASE rehydratePark(loaded, disk, past) = [loaded EXCEPT !.timer = FALSE]
      <4> HIDE DEF h
      <4>1. /\ DOMAIN h = Fields /\ h.armed = TRUE /\ h.rows = carried /\ h.timer = FALSE
            /\ h.selfResuming = loaded.selfResuming /\ h.state = loaded.state
        BY <3>1, <3>3, <1>10 DEF Session, Fields
      <4> QED BY <4>1, <1>9, <1>10 DEF Session, Resting
    <3>4. CASE rehydratePark(loaded, disk, past) =
                 [loaded EXCEPT !.state = "parked", !.parkKind = disk.parkKind, !.owed = disk.owed, !.timer = TRUE]
      <4> HIDE DEF h
      <4>1. /\ DOMAIN h = Fields /\ h.armed = TRUE /\ h.rows = carried /\ h.timer = TRUE
            /\ h.selfResuming = loaded.selfResuming /\ h.state = "parked"
        BY <3>1, <3>4, <1>10 DEF Session, Fields
      <4> QED BY <4>1, <1>10 DEF Session
    <3> QED BY <3>2, <3>3, <3>4 DEF rehydratePark
  <2> QED BY <2>1, <2>2
<1> HIDE DEF h
<1>12. disk'.rows \in Seq(AnyRow) BY <1>1, <1>11, DiskKept
<1>13. RowPrompts' = {}
  <2>1. RowPrompts' = PromptsIn(s'.rows) BY DEF RowPrompts, PromptsIn
  <2> QED BY <2>1, <1>1, <1>3, <1>11, NothingIn
<1>14. PromptsAreRows' BY <1>1, <1>2, <1>13 DEF PromptsAreRows
<1>15. ParkIsTimed' /\ HandlingIsAPass' BY <1>1, <1>11 DEF ParkIsTimed, HandlingIsAPass
<1> QED BY <1>1, <1>2, <1>11, <1>12, <1>14, <1>15 DEF Inv

LEMMA ConfigureInv == ASSUME Inv, NEW goal, NEW items, Configure(goal, items) PROVE Inv'
<1> DEFINE w == Given(items, s.backlog)
           h == [s EXCEPT !.judged = None, !.backlog = w]
<1>1. s' = h /\ Persist(h) /\ UNCHANGED <<open, told, queued, running>> /\ s.armed
  BY DEF Configure, UserActs
<1>2. Session(s) BY DEF Inv
<1> HIDE DEF w
<1>3. Like(s, h) BY <1>2 DEF Like, Session, Fields
<1> HIDE DEF h
<1>4. Gentle(s, h) /\ Session(h) BY <1>2, <1>3, LikeIsGentle, GentleIsSession
<1>5. disk'.rows \in Seq(AnyRow) BY <1>1, <1>4, DiskKept
<1> QED BY <1>1, <1>4, <1>5, QuietStep

LEMMA UserDisarmsInv == ASSUME Inv, UserDisarms PROVE Inv'
<1>1. Disarm(s, FALSE) /\ UNCHANGED open /\ Session(s) /\ open \subseteq Prompt BY DEF UserDisarms, Inv
<1> QED BY <1>1, DisarmStep

LEMMA UserCancelsInv == ASSUME Inv, UserCancels PROVE Inv'
<1> DEFINE h == unparkIfParked(s)
<1>1. s' = h /\ (Persist(h) \/ UNCHANGED disk) /\ UNCHANGED <<open, told, queued, running>>
  BY DEF UserCancels, UserActs
<1>2. Session(s) /\ (~s.armed => s.rows = <<>>) BY DEF Inv
<1>3. Gentle(s, h) /\ Session(h) /\ h.rows = s.rows BY <1>2, UnparkGentle, GentleIsSession
<1> HIDE DEF h
<1>4. disk'.rows \in Seq(AnyRow) BY <1>1, <1>3, DiskKept
<1> QED BY <1>1, <1>2, <1>3, <1>4, QuietStep

(* A row that there is belongs to an armed session.                         *)
LEMMA RowMeansArmed == ASSUME Inv, NEW k \in DOMAIN s.rows PROVE s.armed /\ Session(s)
<1>1. ASSUME ~s.armed PROVE FALSE
  <2>1. s.rows = <<>> BY <1>1 DEF Inv
  <2>2. DOMAIN s.rows = {} BY <2>1
  <2> QED BY <2>2
<1> QED BY <1>1 DEF Inv, Session

LEMMA AnswerAskInv == ASSUME Inv, NEW k \in DOMAIN s.rows, AnswerAsk(k) PROVE Inv'
<1>0. PICK how : how = IF s.owed /\ s.retry = 0 THEN "late" ELSE "relay" OBVIOUS
<1> DEFINE h == parkAskAnswer(s, k, how)
<1>1. s' = h /\ Persist(h) /\ UNCHANGED <<open, told, queued, running>> /\ s.rows[k].kind = "ask"
  BY <1>0 DEF AnswerAsk, UserActs
<1>2. s.armed /\ Session(s) BY RowMeansArmed
<1>3. Gentle(s, h) /\ Session(h) BY <1>1, <1>2, AnswerGentle, GentleIsSession
<1> HIDE DEF h
<1>4. disk'.rows \in Seq(AnyRow) BY <1>1, <1>3, DiskKept
<1> QED BY <1>1, <1>2, <1>3, <1>4, QuietStep

LEMMA AnswerDeliveredInv == ASSUME Inv, NEW k \in DOMAIN s.rows, AnswerDelivered(k) PROVE Inv'
<1> DEFINE h == parkAskAnswer(s, k, "delivered")
<1>1. /\ s' = h /\ Persist(h) /\ UNCHANGED <<open, told, queued, running>>
      /\ s.rows[k].kind # "prompt"
  BY DEF AnswerDelivered, UserActs
<1>2. s.armed /\ Session(s) BY RowMeansArmed
<1>3. Gentle(s, h) /\ Session(h) BY <1>1, <1>2, AnswerGentle, GentleIsSession
<1> HIDE DEF h
<1>4. disk'.rows \in Seq(AnyRow) BY <1>1, <1>3, DiskKept
<1> QED BY <1>1, <1>2, <1>3, <1>4, QuietStep

LEMMA DismissInv == ASSUME Inv, NEW k \in DOMAIN s.rows, Dismiss(k) PROVE Inv'
<1> DEFINE read == [s EXCEPT !.rows = RemoveAt(@, k)]
           h == IF s.rows[k].kind = "ask" THEN parkAskAnswer(s, k, "declined")
                ELSE IF s.state = "parked" THEN read ELSE Rested(read)
<1>1. /\ s' = h /\ Persist(h) /\ UNCHANGED <<open, told, queued, running>>
      /\ s.rows[k].kind # "prompt"
  BY DEF Dismiss, UserActs
<1>2. s.armed /\ Session(s) BY RowMeansArmed
<1>3. Gentle(s, parkAskAnswer(s, k, "declined")) BY <1>1, <1>2, AnswerGentle
<1>4. Gentle(s, read) /\ Session(read) BY <1>1, <1>2, RowGone, GentleIsSession
<1> HIDE DEF read
<1>5. Gentle(s, Rested(read)) BY <1>4, RestedGentle, GentleTrans
<1>6. Gentle(s, h) /\ Session(h) BY <1>3, <1>4, <1>5, GentleIsSession
<1> HIDE DEF h
<1>7. disk'.rows \in Seq(AnyRow) BY <1>1, <1>6, DiskKept
<1> QED BY <1>1, <1>2, <1>6, <1>7, QuietStep

LEMMA InstructInv == ASSUME Inv, Instruct PROVE Inv'
<1> DEFINE K == {r \in ToSet(s.rows) : r.kind \in {"ask", "report", "prompt"}}
           kept == Only(s.rows, K)
           g == [s EXCEPT !.judged = None, !.promptGen = @ + 1, !.rows = kept]
           h == IF kept # s.rows /\ s.state # "parked" THEN Rested(g) ELSE g
<1>1. s' = h /\ Persist(h) /\ UNCHANGED <<open, told, queued, running>> /\ s.armed
  BY DEF Instruct, UserActs
<1>2. Session(s) BY DEF Inv
<1>3. kept \in Seq(AnyRow) /\ PromptsIn(kept) = PromptsIn(s.rows)
  <2>1. s.rows \in Seq(AnyRow) BY <1>2 DEF Session
  <2>2. \A r \in Members(s.rows) : r \in ToSet(s.rows) BY DEF Members, ToSet
  <2>3. \A r \in Members(s.rows) : r \in AnyRow BY <2>1 DEF Members
  <2>4. \A r \in Members(s.rows) : r.kind = "prompt" => (r \in K <=> r.of # None)
    BY <2>2, <2>3, RowFields
  <2> HIDE DEF K
  <2>5. kept \in Seq(AnyRow) /\ PromptsIn(kept) = PromptsIn(s.rows) \ {None}
    BY <2>1, <2>4, FilteredPrompts
  <2> HIDE DEF kept
  <2> QED BY <2>5 DEF PromptsIn
<1> HIDE DEF kept
<1>4. /\ DOMAIN g = Fields /\ g.rows = kept /\ g.armed = s.armed /\ g.id = s.id /\ g.state = s.state
      /\ g.timer = s.timer /\ g.selfResuming = s.selfResuming
  BY <1>2 DEF Session, Fields
<1> HIDE DEF g
<1>5. Gentle(s, g) /\ Session(g) BY <1>2, <1>3, <1>4 DEF Gentle, Modest, Rests, Session
<1>6. Gentle(s, Rested(g)) BY <1>5, RestedGentle, GentleTrans
<1>7. Gentle(s, h) /\ Session(h) BY <1>5, <1>6, GentleIsSession
<1> HIDE DEF h
<1>8. disk'.rows \in Seq(AnyRow) BY <1>1, <1>7, DiskKept
<1> QED BY <1>1, <1>7, <1>8, QuietStep

LEMMA UserRepliesInv ==
  ASSUME Inv, NEW p \in Prompt \cup {None}, UserReplies(p) PROVE Inv'
<1>1. /\ queued' = queued \ {p} /\ open' = open \ {p} /\ UNCHANGED <<running, told>>
  BY DEF UserReplies, UserActs
<1>2. Session(s) /\ open \subseteq Prompt /\ RowPrompts = PromptsIn(s.rows)
  BY DEF Inv, RowPrompts, PromptsIn
<1>3. RowPrompts' = PromptsIn(s'.rows) BY DEF RowPrompts, PromptsIn
<1>4. CASE ~s.armed
  <2>1. s' = s /\ UNCHANGED disk BY <1>4 DEF UserReplies
  <2>2. s.rows = <<>> /\ queued = {} BY <1>4 DEF Inv
  <2>3. PromptsAreRows' BY <2>1, <2>2, <1>1, <1>3, <1>4, NothingIn DEF PromptsAreRows
  <2>4. ParkIsTimed' /\ HandlingIsAPass' BY <2>1, <1>1 DEF Inv, ParkIsTimed, HandlingIsAPass
  <2> QED BY <2>1, <2>2, <2>3, <2>4, <1>1, <1>2 DEF Inv
<1>5. CASE s.armed
  <2> DEFINE h == Replied(s, p)
  <2>1. s' = h /\ (Persist(h) \/ UNCHANGED disk) BY <1>5 DEF UserReplies
  <2>2. /\ Session(h) /\ h.armed = s.armed /\ h.id = s.id /\ Rests(s, h)
        /\ PromptsIn(h.rows) = PromptsIn(s.rows) \ {p}
    BY <1>2, RepliedTakes
  <2> HIDE DEF h
  <2>3. disk'.rows \in Seq(AnyRow) BY <2>1, <2>2, DiskKept
  <2>4. PromptsAreRows' BY <2>1, <2>2, <1>1, <1>2, <1>3, <1>5 DEF Inv, PromptsAreRows
  <2>5. ParkIsTimed' /\ HandlingIsAPass'
    BY <2>1, <2>2, <1>1 DEF Inv, ParkIsTimed, HandlingIsAPass, Rests, Resting
  <2> QED BY <2>1, <2>2, <2>3, <2>4, <2>5, <1>1, <1>2, <1>5 DEF Inv
<1> QED BY <1>4, <1>5

-----------------------------------------------------------------------------
(* The agent.                                                               *)

LEMMA RetractionInv ==
  ASSUME Inv, NEW p \in Prompt \cup {None}, AfterRetraction(p), UNCHANGED <<running, told>>
  PROVE  Inv'
<1> DEFINE gone == IF p = None THEN open ELSE {p}
<1>1. /\ Session(s) /\ open \subseteq Prompt /\ RowPrompts = PromptsIn(s.rows)
      /\ RowPrompts \cup queued \subseteq open
  BY DEF Inv, RowPrompts, PromptsIn, PromptsAreRows
<1>2. queued' = queued \ gone /\ open' = open \ gone BY <1>1 DEF AfterRetraction
<1>3. RowPrompts' = PromptsIn(s'.rows) BY DEF RowPrompts, PromptsIn
<1>4. CASE ~s.armed
  <2>1. s' = s /\ UNCHANGED disk BY <1>4 DEF AfterRetraction
  <2>2. s.rows = <<>> /\ queued = {} BY <1>4 DEF Inv
  <2>3. PromptsAreRows' BY <2>1, <2>2, <1>2, <1>3, <1>4, NothingIn DEF PromptsAreRows
  <2>4. ParkIsTimed' /\ HandlingIsAPass' BY <2>1 DEF Inv, ParkIsTimed, HandlingIsAPass
  <2> QED BY <2>1, <2>2, <2>3, <2>4, <1>1, <1>2 DEF Inv
<1>5. CASE s.armed
  <2> DEFINE h == Retracted(s, p)
  <2>1. s' = h /\ (Persist(h) \/ UNCHANGED disk) BY <1>5 DEF AfterRetraction
  <2>2. /\ Session(h) /\ h.armed = s.armed /\ h.id = s.id /\ Rests(s, h)
        /\ p # None => PromptsIn(h.rows) = PromptsIn(s.rows) \ {p}
        /\ p = None => PromptsIn(h.rows) = {}
    BY <1>1, RetractedTakes
  <2> HIDE DEF h
  <2>3. disk'.rows \in Seq(AnyRow) BY <2>1, <2>2, DiskKept
  <2>4. PromptsIn(h.rows) = PromptsIn(s.rows) \ gone BY <2>2, <1>1
  <2> HIDE DEF gone
  <2>5. PromptsAreRows' BY <2>1, <2>2, <2>4, <1>1, <1>2, <1>3, <1>5 DEF Inv, PromptsAreRows
  <2>6. ParkIsTimed' /\ HandlingIsAPass'
    BY <2>1, <2>2 DEF Inv, ParkIsTimed, HandlingIsAPass, Rests, Resting
  <2> QED BY <2>1, <2>2, <2>3, <2>5, <2>6, <1>1, <1>2, <1>5 DEF Inv
<1> QED BY <1>4, <1>5

(* Nothing of what the invariant speaks of changes.                         *)
LEMMA NothingInv == ASSUME Inv, UNCHANGED <<s, disk, open, told, queued, running>> PROVE Inv'
BY DEF Inv, ParkIsTimed, HandlingIsAPass, PromptsAreRows, RowPrompts

LEMMA AgentInv == ASSUME Inv, Agent PROVE Inv'
<1>1. ASSUME NEW p \in Prompt, AgentAsks(p) PROVE Inv'
  <2>1. /\ UNCHANGED <<s, disk, running>> /\ s.armed
        /\ open' = open \cup {p} /\ told' = told \cup {p} /\ queued' = queued \cup {p}
    BY <1>1 DEF AgentAsks, AgentActs
  <2>2. RowPrompts' = RowPrompts BY <2>1 DEF RowPrompts
  <2>3. PromptsAreRows' BY <2>1, <2>2 DEF Inv, PromptsAreRows
  <2> QED BY <2>1, <2>3 DEF Inv, ParkIsTimed, HandlingIsAPass
<1>2. ASSUME NEW p \in Prompt, AgentWithdraws(p) PROVE Inv'
  BY <1>2, RetractionInv DEF AgentWithdraws, AgentActs
<1>3. CASE AgentStops
  <2>1. CASE open = {}
    <3>1. UNCHANGED <<s, disk, open, told, queued, running>> BY <1>3, <2>1 DEF AgentStops, AgentActs
    <3> QED BY <3>1, NothingInv
  <2>2. CASE open # {}
    <3>1. AfterRetraction(None) /\ UNCHANGED <<running, told>> BY <1>3, <2>2 DEF AgentStops, AgentActs
    <3> QED BY <3>1, RetractionInv
  <2> QED BY <2>1, <2>2
<1>7. CASE AgentAwaitsInput
  <2>1. UNCHANGED <<s, disk, open, told, queued, running>> BY <1>7 DEF AgentAwaitsInput, AgentActs
  <2> QED BY <2>1, NothingInv
<1>4. CASE TerminalExits
  <2>1. Disarm(s, TRUE) /\ open' = {} /\ Session(s) BY <1>4 DEF TerminalExits, Inv
  <2> QED BY <2>1, DisarmStep
<1>5. CASE OthersPrompt
  <2>1. UNCHANGED <<s, disk, open, told, queued, running>> BY <1>5 DEF OthersPrompt, engine
  <2> QED BY <2>1, NothingInv
<1>6. ASSUME NEW kind \in Lifecycle, AgentReports(kind) PROVE Inv'
  <2>1. UNCHANGED <<s, disk, open, told, queued, running>> BY <1>6 DEF AgentReports, AgentActs
  <2> QED BY <2>1, NothingInv
<1> QED BY <1>1, <1>2, <1>3, <1>4, <1>5, <1>6, <1>7 DEF Agent

LEMMA UserInv == ASSUME Inv, User PROVE Inv'
<1> QED BY ArmInv, ConfigureInv, UserDisarmsInv, UserCancelsInv, InstructInv, UserRepliesInv,
        AnswerAskInv, AnswerDeliveredInv, DismissInv DEF User

-----------------------------------------------------------------------------
(* The chain.  No pass is under way when an entry starts.                   *)

LEMMA StartsCalm ==
  ASSUME Inv, Starting, s.armed
  PROVE  Session(s) /\ s.state # "handling" /\ Gentle(s, Entered(s)) /\ Session(Entered(s))
         /\ Entered(s).state = s.state
<1>1. running.pc = "idle" BY DEF Starting, Idle
<1>2. Session(s) /\ s.state # "handling" BY <1>1 DEF Inv, HandlingIsAPass
<1>3. Gentle(s, Entered(s)) /\ Entered(s).state = s.state BY <1>2, EnteredGentle
<1> QED BY <1>2, <1>3, GentleIsSession

LEMMA ChainInv == ASSUME Inv, Chain PROVE Inv'
<1>1. CASE Dropped
  <2> DEFINE e == Head(chain)
  <2>1. /\ UNCHANGED <<s, disk, running, open, told>>
        /\ queued' = IF e.kind = "prompt" THEN queued \ {e.of} ELSE queued
        /\ ~Live(e) \/ ~s.armed \/ e.kind = "seed"
    BY <1>1 DEF Dropped, world
  <2>2. queued' = queued
    <3>1. CASE ~s.armed BY <2>1, <3>1 DEF Inv
    <3>2. CASE e.kind # "prompt" BY <2>1, <3>2
    <3>3. CASE e.kind = "prompt" /\ s.armed
      <4>1. ~Live(e) BY <2>1, <3>3
      <4>2. Live(e) = (e.of \in queued) BY <3>3 DEF Live
      <4> HIDE DEF e
      <4> QED BY <4>1, <4>2, <2>1, <3>3
    <3> QED BY <3>1, <3>2, <3>3
  <2> QED BY <2>1, <2>2, NothingInv
<1>2. CASE Suspended
  <2>1. Starting /\ s.armed /\ Disarm(Entered(s), TRUE) /\ UNCHANGED open
    BY <1>2 DEF Suspended, Starts, world
  <2>2. Session(Entered(s)) BY <2>1, StartsCalm
  <2>3. open' \subseteq Prompt BY <2>1 DEF Inv
  <2> QED BY <2>1, <2>2, <2>3, DisarmStep
<1>3. CASE LimitCleared
  <2> DEFINE h == Entered(s)
             u == unparkIfParked(h)
  <2>1. Starting /\ s.armed /\ s' = u /\ (Persist(u) \/ SaveRows(h)) /\ UNCHANGED <<running, queued, open, told>>
    BY <1>3 DEF LimitCleared, Starts, world
  <2>2. Gentle(s, h) /\ Session(h) BY <2>1, StartsCalm
  <2> HIDE DEF h
  <2>3. Gentle(s, u) /\ Session(u) BY <2>2, UnparkGentle, GentleTrans, GentleIsSession
  <2> HIDE DEF u
  <2>4. Persist(u) \/ Persist(h) \/ UNCHANGED disk BY <2>1 DEF SaveRows
  <2>5. disk'.rows \in Seq(AnyRow) BY <2>2, <2>3, <2>4, DiskKept
  <2> QED BY <2>1, <2>3, <2>5, QuietStep
<1>4. CASE PromptEscalates
  <2> DEFINE p == Head(chain).of
             e == Entered(s)
             u == unparkIfParked(e)
             h == Escalated(u, Row("prompt", p, {}))
  <2>1. /\ Starting /\ s.armed /\ s' = h /\ Persist(h) /\ queued' = queued \ {p}
        /\ UNCHANGED <<running, open, told>> /\ Head(chain).kind = "prompt" /\ Live(Head(chain))
    BY <1>4 DEF PromptEscalates, Starts, world
  <2>2. p \in queued BY <2>1 DEF Live
  <2> HIDE DEF p
  <2>3. queued \subseteq open /\ open \subseteq Prompt BY DEF Inv, PromptsAreRows
  <2>4. Gentle(s, e) /\ Session(e) BY <2>1, StartsCalm
  <2> HIDE DEF e
  <2>5. Gentle(s, u) /\ Session(u) BY <2>4, UnparkGentle, GentleTrans, GentleIsSession
  <2> HIDE DEF u
  <2>6. p \in Prompt /\ p # None BY <2>2, <2>3, HandlerAssumption
  <2>7. Row("prompt", p, {}) \in AnyRow /\ Row("prompt", p, {}).of = p
    BY <2>6, RowsPlain DEF AnyRow, Row
  <2>8. /\ Session(h) /\ h.armed = u.armed /\ h.id = u.id /\ h.state = "needs_you"
        /\ PromptsIn(h.rows) = PromptsIn(u.rows) \cup ({p} \ {None})
    BY <2>5, <2>7, EscalatedRests
  <2> HIDE DEF h
  <2>9. PromptsIn(h.rows) = PromptsIn(s.rows) \cup {p} BY <2>5, <2>6, <2>8 DEF Gentle, Modest
  <2>10. RowPrompts = PromptsIn(s.rows) /\ RowPrompts' = PromptsIn(s'.rows) BY DEF RowPrompts, PromptsIn
  <2>11. PromptsAreRows' BY <2>1, <2>2, <2>3, <2>9, <2>10 DEF Inv, PromptsAreRows
  <2>12. disk'.rows \in Seq(AnyRow) BY <2>1, <2>8, DiskKept
  <2>13. s'.armed BY <2>1, <2>5, <2>8 DEF Gentle, Modest
  <2>14. ParkIsTimed' /\ HandlingIsAPass' BY <2>1, <2>8 DEF ParkIsTimed, HandlingIsAPass
  <2> QED BY <2>1, <2>3, <2>8, <2>11, <2>12, <2>13, <2>14 DEF Inv
<1>5. CASE ParkedPause
  <2> DEFINE h == Entered(s)
  <2>1. Starting /\ s.armed /\ s' = h /\ SaveRows(h) /\ UNCHANGED <<running, queued, open, told>>
    BY <1>5 DEF ParkedPause, Starts, world
  <2>2. Gentle(s, h) /\ Session(h) BY <2>1, StartsCalm
  <2> HIDE DEF h
  <2>3. disk'.rows \in Seq(AnyRow) BY <2>1, <2>2, DiskKept DEF SaveRows
  <2> QED BY <2>1, <2>2, <2>3, QuietStep
<1>6. CASE Begin
  <2> DEFINE e == Entered(s)
             h == unparkIfParked(e)
             g == [h EXCEPT !.state = "handling"]
  <2>1. /\ Starting /\ s.armed /\ s' = g /\ (Persist(h) \/ SaveRows(h))
        /\ running' = Pass("context", Head(chain).of, h) /\ UNCHANGED <<queued, open, told>>
    BY <1>6 DEF Begin, Starts, world
  <2>2. Gentle(s, e) /\ Session(e) BY <2>1, StartsCalm
  <2> HIDE DEF e
  <2>3. Gentle(s, h) /\ Session(h) BY <2>2, UnparkGentle, GentleTrans, GentleIsSession
  <2> HIDE DEF h
  <2>4. disk'.rows \in Seq(AnyRow) BY <2>1, <2>3, DiskKept DEF SaveRows
  <2>5. /\ DOMAIN g = Fields /\ g.rows = h.rows /\ g.armed = h.armed /\ g.id = h.id /\ g.state = "handling"
        /\ g.timer = h.timer /\ g.selfResuming = h.selfResuming
    BY <2>3 DEF Session, Fields
  <2>6. running'.pc = "context" /\ running'.id = h.id BY <2>1 DEF Pass
  <2> HIDE DEF g
  <2>7. Modest(s, s') BY <2>1, <2>3, <2>5 DEF Gentle, Modest, Session
  <2>8. s'.state = "handling" /\ running'.pc \in Passes /\ running'.id = s'.id BY <2>1, <2>5, <2>6 DEF Passes
  <2> QED BY <2>1, <2>4, <2>7, <2>8, ModestStep
<1>7. ASSUME NEW kind \in Lifecycle \ {"limit_cleared"}, LimitOrFailure(kind) PROVE Inv'
  <2> DEFINE h == Entered(s)
             g == CASE kind = "limit_hit" -> AfterLimit(h, FALSE)
                    [] kind = "limit_hit_self" -> AfterLimit(h, TRUE)
                    [] kind = "turn_failed" -> AfterFailure(h)
  <2>1. /\ Starting /\ s.armed /\ s' = g /\ (Persist(g) \/ SaveRows(h))
        /\ UNCHANGED <<running, queued, open, told>>
    BY <1>7 DEF LimitOrFailure, Starts, world
  <2>2. \/ g = AfterLimit(h, FALSE) \/ g = AfterLimit(h, TRUE)
        \/ (g = h /\ h.state = "parked") \/ g = registerTransientFailure(h, 0)
    BY <1>7 DEF Lifecycle, AfterFailure
  <2>3. Gentle(s, h) /\ Session(h) /\ h.state = s.state /\ s.state # "handling" BY <2>1, StartsCalm
  <2> HIDE DEF h, g
  <2>4. h.state = "parked" => h.timer \/ h.selfResuming
    BY <2>1, <2>3 DEF Inv, ParkIsTimed, Gentle, Rests, Resting
  <2>5. Modest(h, g) /\ (g.state = "parked" => g.timer \/ g.selfResuming) /\ g.state # "handling"
    <3>1. CASE g = AfterLimit(h, FALSE) BY <3>1, <2>3, LimitParks
    <3>2. CASE g = AfterLimit(h, TRUE) BY <3>2, <2>3, LimitParks
    <3>3. CASE g = h /\ h.state = "parked" BY <3>3, <2>3, <2>4 DEF Modest
    <3>4. CASE g = registerTransientFailure(h, 0)
      <4>1. Modest(h, g) /\ g.state \in {"parked", "needs_you"} /\ (g.state = "parked" => g.timer \/ g.selfResuming)
        BY <3>4, <2>3, FailureParks
      <4> QED BY <4>1
    <3> QED BY <3>1, <3>2, <3>3, <3>4, <2>2
  <2>6. Modest(s, g) /\ Session(g) BY <2>3, <2>5 DEF Gentle, Modest
  <2>7. Persist(g) \/ Persist(h) \/ UNCHANGED disk BY <2>1 DEF SaveRows
  <2>8. disk'.rows \in Seq(AnyRow) BY <2>3, <2>6, <2>7, DiskKept
  <2> QED BY <2>1, <2>5, <2>6, <2>8, ModestStep
<1>8. CASE BeginExtraction
  <2>1. Starting /\ s.armed /\ UNCHANGED <<s, disk, queued, open, told>>
    BY <1>8 DEF BeginExtraction, Starts, world
  <2>2. s.state # "handling" BY <2>1, StartsCalm
  <2> QED BY <2>1, <2>2 DEF Inv, ParkIsTimed, HandlingIsAPass, PromptsAreRows, RowPrompts
<1> QED BY <1>1, <1>2, <1>3, <1>4, <1>5, <1>6, <1>7, <1>8 DEF Chain

-----------------------------------------------------------------------------
(* A pass.                                                                  *)

LEMMA AwaitedKeeps == ASSUME NEW pc, Awaited(pc) PROVE running.pc = pc /\ UNCHANGED <<open, told>>
BY DEF Awaited

(* What a verdict does to the session first.                                *)
LEMMA HeardLike ==
  ASSUME NEW h, NEW t, Session(h)
  PROVE  /\ Like(h, Absorbed(Heard(h), t))
         /\ Like(h, [Absorbed(Heard(h), t) EXCEPT !.reasks = 0])
<1> DEFINE j == IF h.promptGen = running.promptGen THEN running.hash ELSE h.judged
           a == IF h.answer = running.answer THEN None ELSE h.answer
           f == Heard(h)
           c == IF (\E i \in Item : t.backlog[i] = "closed" /\ f.backlog[i] # "closed") /\ ~t.refused
                THEN 0 ELSE f.reasks
           g == Absorbed(f, t)
<1>1. f = [h EXCEPT !.transient = 0, !.limits = 0, !.judged = j, !.answer = a] BY DEF Heard
<1> HIDE DEF f, j, a
<1>2. Like(h, f) BY <1>1 DEF Like, Session, Fields
<1>3. g = [f EXCEPT !.backlog = t.backlog, !.reasks = c] BY DEF Absorbed
<1> HIDE DEF g, c
<1>4. Like(h, g) BY <1>2, <1>3 DEF Like, Fields
<1>5. Like(h, [g EXCEPT !.reasks = 0]) BY <1>4 DEF Like, Fields
<1> QED BY <1>4, <1>5 DEF g, f

LEMMA VerdictHeard ==
  ASSUME Inv, NEW t, Verdict
  PROVE  /\ s.armed /\ Session(s) /\ running.id = s.id /\ running.pc = "judge" /\ UNCHANGED <<open, told>>
         /\ Like(s, Absorbed(Heard(s), t)) /\ Like(s, [Absorbed(Heard(s), t) EXCEPT !.reasks = 0])
         /\ Gentle(s, Absorbed(Heard(s), t)) /\ Gentle(s, [Absorbed(Heard(s), t) EXCEPT !.reasks = 0])
<1>1. s.armed /\ running.id = s.id /\ running.pc = "judge" /\ UNCHANGED <<open, told>>
  BY DEF Verdict, Awaited, SameSession
<1>2. Session(s) BY DEF Inv
<1>3. Like(s, Absorbed(Heard(s), t)) /\ Like(s, [Absorbed(Heard(s), t) EXCEPT !.reasks = 0])
  BY <1>2, HeardLike
<1> QED BY <1>1, <1>2, <1>3, LikeIsGentle

LEMMA ReaskedLike == ASSUME NEW h, NEW g, Like(h, g) PROVE Like(h, Reasked(g))
BY DEF Like, Fields, Reasked

LEMMA VerdictsInv ==
  ASSUME Inv, NEW t,
         \/ \E reply \in Reply : Accepted(t, reply)
         \/ Blocked(t) \/ Continue(t) \/ AskAgain(t) \/ GiveUpAsking(t) \/ Escalate(t) \/ ActFails(t)
  PROVE  Inv'
<1> DEFINE h == Absorbed(Heard(s), t)
           h0 == [Absorbed(Heard(s), t) EXCEPT !.reasks = 0]
<1>0. Verdict BY DEF Accepted, Blocked, Continue, AskAgain, GiveUpAsking, Escalate, ActFails
<1>1. /\ s.armed /\ Session(s) /\ running.id = s.id /\ running.pc = "judge" /\ UNCHANGED <<open, told>>
      /\ Like(s, h) /\ Like(s, h0) /\ Gentle(s, h) /\ Gentle(s, h0)
  BY <1>0, VerdictHeard
<1>2. Session(h) /\ Session(h0) BY <1>1, GentleIsSession
<1>3. ASSUME NEW reply \in Reply, Accepted(t, reply) PROVE Inv'
  <2>1. /\ s' = h0 /\ (Persist(h) \/ UNCHANGED disk)
        /\ running' = [pc |-> "snapshots", id |-> running.id, reply |-> reply] /\ UNCHANGED queued
    BY <1>3 DEF Accepted, MaySave
  <2>2. running'.pc = "snapshots" /\ running'.id = running.id BY <2>1
  <2> HIDE DEF h0, h
  <2>4. disk'.rows \in Seq(AnyRow) BY <2>1, <1>2, DiskKept
  <2>5. running'.pc \in Passes /\ running'.id = s'.id BY <2>1, <2>2, <1>1 DEF Passes, Like
  <2> QED BY <2>1, <2>4, <2>5, <1>1, GentleStep
<1>4. CASE Blocked(t)
  <2>1. PICK r \in WithReport(h0) : s' = r /\ (Persist(r) \/ UNCHANGED disk) BY <1>4 DEF Blocked, MaySave
  <2>2. UNCHANGED queued BY <1>4 DEF Blocked
  <2> HIDE DEF h0
  <2>3. Gentle(h0, r) /\ r.state = "needs_you" BY <1>2, ReportGentle
  <2>4. Gentle(s, r) /\ Session(r) BY <2>3, <1>1, GentleTrans, GentleIsSession
  <2>5. disk'.rows \in Seq(AnyRow) BY <2>1, <2>4, DiskKept
  <2> QED BY <2>1, <2>2, <2>3, <2>4, <2>5, <1>1, RestStep
<1>5. CASE Continue(t)
  <2>1. Settle(h) BY <1>5 DEF Continue
  <2> HIDE DEF h
  <2> QED BY <2>1, <1>1, SettleStep
<1>6. CASE AskAgain(t)
  <2> DEFINE f == Reasked(h)
             again == Entered(f)
             g == [again EXCEPT !.state = "handling"]
  <2>1. s' = g /\ Persist(again) /\ running' = Pass("context", running.of, again) /\ UNCHANGED queued
    BY <1>6 DEF AskAgain
  <2> HIDE DEF h
  <2>2. Like(s, f) BY <1>1, ReaskedLike
  <2> HIDE DEF f
  <2>3. Gentle(s, f) /\ Session(f) BY <2>2, <1>1, LikeIsGentle, GentleIsSession
  <2>4. Gentle(s, again) /\ Session(again) BY <2>3, EnteredGentle, GentleTrans, GentleIsSession
  <2> HIDE DEF again
  <2>5. /\ DOMAIN g = Fields /\ g.rows = again.rows /\ g.armed = again.armed /\ g.id = again.id
        /\ g.state = "handling" /\ g.timer = again.timer /\ g.selfResuming = again.selfResuming
    BY <2>4 DEF Session, Fields
  <2>6. running'.pc = "context" /\ running'.id = again.id BY <2>1 DEF Pass
  <2> HIDE DEF g
  <2>7. Modest(s, s') BY <2>1, <2>4, <2>5 DEF Gentle, Modest, Session
  <2>8. s'.state = "handling" /\ running'.pc \in Passes /\ running'.id = s'.id BY <2>1, <2>5, <2>6 DEF Passes
  <2>9. disk'.rows \in Seq(AnyRow) BY <2>1, <2>4, DiskKept
  <2> QED BY <2>1, <2>7, <2>8, <2>9, <1>1, ModestStep
<1>7. CASE GiveUpAsking(t) \/ Escalate(t)
  <2> DEFINE g == Escalated(h0, Question)
  <2>1. s' = g /\ (Persist(g) \/ UNCHANGED disk) /\ UNCHANGED queued
    BY <1>7 DEF GiveUpAsking, Escalate, MaySave
  <2> HIDE DEF h0
  <2>2. Question \in AnyRow /\ Question \in PlainRow BY RowsPlain DEF AnyRow
  <2>3. Gentle(h0, g) /\ g.state = "needs_you" BY <2>2, <1>2, EscalatedRests
  <2> HIDE DEF g
  <2>4. Gentle(s, g) /\ Session(g) BY <2>3, <1>1, GentleTrans, GentleIsSession
  <2>5. disk'.rows \in Seq(AnyRow) BY <2>1, <2>4, DiskKept
  <2> QED BY <2>1, <2>3, <2>4, <2>5, <1>1, RestStep
<1>8. CASE ActFails(t)
  <2>1. (s' = Rested(h) \/ s' = Rested(Reasked(h))) /\ UNCHANGED <<queued, disk>> BY <1>8 DEF ActFails
  <2> HIDE DEF h
  <2>2. PICK f : s' = Rested(f) /\ Like(s, f) BY <2>1, <1>1, ReaskedLike
  <2>3. Gentle(s, f) /\ Session(f) BY <2>2, <1>1, LikeIsGentle, GentleIsSession
  <2>4. Gentle(f, s') /\ s'.state \in Resting BY <2>2, <2>3, RestedGentle
  <2>5. Gentle(s, s') BY <2>3, <2>4, GentleTrans
  <2>6. disk'.rows \in Seq(AnyRow) BY <2>1 DEF Inv
  <2> QED BY <2>1, <2>4, <2>5, <2>6, <1>1, RestStep DEF Resting
<1> QED BY <1>3, <1>4, <1>5, <1>6, <1>7, <1>8

LEMMA PassStepInv == ASSUME Inv, PassStep PROVE Inv'
<1>0. Session(s) BY DEF Inv
<1>1. CASE Abandoned
  <2>1. /\ ~(s.armed /\ s.id = running.id) /\ UNCHANGED <<s, disk, queued, open, told>>
    BY <1>1 DEF Abandoned, Awaited, SameSession
  <2>2. ~(s.armed /\ s.state = "handling") BY <2>1 DEF Inv, HandlingIsAPass
  <2> QED BY <2>1, <2>2 DEF Inv, ParkIsTimed, HandlingIsAPass, PromptsAreRows, RowPrompts
<1>2. CASE Unmoved
  <2>1. s.armed /\ s' = Rested(s) /\ UNCHANGED <<disk, queued, open, told>>
    BY <1>2 DEF Unmoved, Awaited, SameSession
  <2>2. Gentle(s, s') /\ s'.state \in Resting BY <2>1, <1>0, RestedGentle
  <2>3. disk'.rows \in Seq(AnyRow) BY <2>1 DEF Inv
  <2> QED BY <2>1, <2>2, <2>3, RestStep DEF Resting
<1>3. CASE Judge
  <2>1. /\ s.id = running.id /\ UNCHANGED <<s, disk, queued, open, told>>
        /\ running' = [pc |-> "judge", of |-> running.of, id |-> running.id,
                       promptGen |-> running.promptGen, hash |-> ctx, answer |-> s.answer]
    BY <1>3 DEF Judge, Awaited, SameSession
  <2>2. running'.pc = "judge" /\ running'.id = s.id BY <2>1
  <2> QED BY <2>1, <2>2 DEF Inv, ParkIsTimed, HandlingIsAPass, PromptsAreRows, RowPrompts
<1>4. CASE JudgeFails
  <2> DEFINE h == registerTransientFailure(s, running.of)
  <2>1. s.armed /\ s' = h /\ Persist(h) /\ UNCHANGED <<queued, open, told>>
    BY <1>4 DEF JudgeFails, Awaited, SameSession
  <2>2. /\ Modest(s, h) /\ h.state \in {"parked", "needs_you"}
        /\ h.state = "parked" => h.timer \/ h.selfResuming
    BY <1>0, FailureParks
  <2> HIDE DEF h
  <2>3. disk'.rows \in Seq(AnyRow) BY <2>1, <2>2, DiskKept DEF Modest
  <2> QED BY <2>1, <2>2, <2>3, ModestStep
<1>5. ASSUME NEW t \in Transitions,
             \/ \E reply \in Reply : Accepted(t, reply)
             \/ Blocked(t) \/ Continue(t) \/ AskAgain(t) \/ GiveUpAsking(t) \/ Escalate(t) \/ ActFails(t)
      PROVE  Inv'
  BY <1>5, VerdictsInv
<1>6. ASSUME NEW asks \in BOOLEAN, NEW U \in SUBSET Item, Send(asks, U) PROVE Inv'
  <2> DEFINE h == [s EXCEPT !.awaiting = TRUE]
             g == IF asks THEN raiseAsk(h, U) ELSE h
  <2>1. s.armed /\ Settle(g) /\ UNCHANGED <<open, told>> BY <1>6 DEF Send, Awaited, SameSession
  <2>2. Like(s, h) BY <1>0, ExceptMinor
  <2> HIDE DEF h
  <2>3. Gentle(s, h) /\ Session(h) BY <2>2, <1>0, LikeIsGentle, GentleIsSession
  <2>4. Gentle(s, raiseAsk(h, U)) BY <2>3, RaiseGentle, GentleTrans
  <2>5. Gentle(s, g) BY <2>3, <2>4
  <2> HIDE DEF g
  <2> QED BY <2>1, <2>5, SettleStep
<1>7. ASSUME NEW new \in SUBSET Item, Append1(new) PROVE Inv'
  <2>1. s.armed /\ running.pc = "extract" /\ UNCHANGED <<queued, open, told>>
    BY <1>7 DEF Append1, Awaited, SameSession
  <2>2. s.state # "handling" BY <2>1 DEF Inv, HandlingIsAPass
  <2>3. CASE new = {}
    <3>1. UNCHANGED <<s, disk>> BY <1>7, <2>3 DEF Append1
    <3>2. Like(s, s') BY <3>1, <1>0 DEF Like, Session
    <3>3. disk'.rows \in Seq(AnyRow) BY <3>1 DEF Inv
    <3> QED BY <2>1, <2>2, <3>1, <3>2, <3>3, <1>0, LikeIsGentle, RestStep
  <2>4. CASE new # {}
    <3> DEFINE w == [i \in Item |-> IF i \in new THEN "running" ELSE s.backlog[i]]
               h == [s EXCEPT !.judged = None, !.backlog = w]
    <3>1. s' = h /\ (Persist(h) \/ UNCHANGED disk) BY <1>7, <2>4 DEF Append1, MaySave
    <3> HIDE DEF w
    <3>2. Like(s, h) BY <1>0 DEF Like, Session, Fields
    <3> HIDE DEF h
    <3>3. Gentle(s, h) /\ Session(h) /\ h.state = s.state BY <3>2, <1>0, LikeIsGentle, GentleIsSession DEF Like
    <3>4. disk'.rows \in Seq(AnyRow) BY <3>1, <3>3, DiskKept
    <3> QED BY <2>1, <2>2, <3>1, <3>3, <3>4, RestStep
  <2> QED BY <2>3, <2>4
<1>8. ASSUME NEW gone, NEW revived, NEW new, Amend(gone, revived, new) PROVE Inv'
  <2>1. s.armed /\ running.pc = "extract" /\ UNCHANGED <<queued, open, told>>
    BY <1>8 DEF Amend, Awaited, SameSession
  <2>2. s.state # "handling" BY <2>1 DEF Inv, HandlingIsAPass
  <2> DEFINE w == [i \in Item |-> CASE i \in new \cup revived -> "running"
                                     [] i \in gone \ new -> "absent"
                                     [] OTHER -> s.backlog[i]]
             g == [s EXCEPT !.judged = None, !.backlog = w]
             h == IF Present(g) = {} THEN Escalated(g, Question) ELSE g
  <2>3. s' = h /\ (Persist(h) \/ UNCHANGED disk) BY <1>8 DEF Amend, MaySave
  <2> HIDE DEF w
  <2>4. Like(s, g) BY <1>0 DEF Like, Session, Fields
  <2> HIDE DEF g
  <2>5. Gentle(s, g) /\ Session(g) /\ g.state = s.state BY <2>4, <1>0, LikeIsGentle, GentleIsSession DEF Like
  <2>6. Question \in AnyRow /\ Question \in PlainRow BY RowsPlain DEF AnyRow
  <2>7. Gentle(g, Escalated(g, Question)) /\ Escalated(g, Question).state = "needs_you"
    BY <2>5, <2>6, EscalatedRests
  <2>8. Gentle(s, Escalated(g, Question)) BY <2>5, <2>7, GentleTrans
  <2>9. Gentle(s, h) /\ h.state # "handling" BY <2>2, <2>5, <2>7, <2>8
  <2> HIDE DEF h
  <2>10. Session(h) BY <2>9, GentleIsSession
  <2>11. disk'.rows \in Seq(AnyRow) BY <2>3, <2>10, DiskKept
  <2> QED BY <2>1, <2>3, <2>9, <2>11, RestStep
<1>9. CASE SendFails
  <2>1. s.armed /\ s' = Rested(s) /\ UNCHANGED <<disk, queued, open, told>>
    BY <1>9 DEF SendFails, Awaited, SameSession
  <2>2. Gentle(s, s') /\ s'.state \in Resting BY <2>1, <1>0, RestedGentle
  <2>3. disk'.rows \in Seq(AnyRow) BY <2>1 DEF Inv
  <2> QED BY <2>1, <2>2, <2>3, RestStep DEF Resting
<1> QED BY <1>1, <1>2, <1>3, <1>4, <1>5, <1>6, <1>7, <1>8, <1>9 DEF PassStep

-----------------------------------------------------------------------------
(* The park timer, and a crash.                                             *)

LEMMA TimerInv == ASSUME Inv, Timer PROVE Inv'
<1>0. Session(s) /\ (~s.armed => s.rows = <<>>) BY DEF Inv
<1>1. CASE StaleTimer
  <2> DEFINE g == [s EXCEPT !.timer = FALSE]
  <2>1. s' = g /\ UNCHANGED <<disk, queued, open, told, running>> /\ (~s.armed \/ s.state # "parked")
    BY <1>1 DEF StaleTimer, TimerFires
  <2>2. /\ DOMAIN g = Fields /\ g.rows = s.rows /\ g.armed = s.armed /\ g.id = s.id /\ g.state = s.state
        /\ g.timer = FALSE /\ g.selfResuming = s.selfResuming
    BY <1>0 DEF Session, Fields
  <2> HIDE DEF g
  <2>3. Modest(s, s') BY <2>1, <2>2, <1>0 DEF Modest, Session
  <2>4. disk'.rows \in Seq(AnyRow) BY <2>1 DEF Inv
  <2>5. s'.armed /\ s'.state = "handling" => running'.pc \in Passes /\ running'.id = s'.id
    BY <2>1, <2>2 DEF Inv, HandlingIsAPass, Passes
  <2> QED BY <2>1, <2>2, <2>3, <2>4, <2>5, <1>0, ModestStep
<1>2. CASE Rejudge \/ WakeQuietly \/ Nudge
  <2> DEFINE h == unparkIfParked(s)
  <2>1. s' = h /\ Persist(h) /\ UNCHANGED <<queued, open, told, running>>
    BY <1>2 DEF Rejudge, WakeQuietly, Nudge, Wake, TimerFires
  <2>2. Gentle(s, h) /\ Session(h) /\ h.rows = s.rows BY <1>0, UnparkGentle, GentleIsSession
  <2> HIDE DEF h
  <2>3. disk'.rows \in Seq(AnyRow) BY <2>1, <2>2, DiskKept
  <2> QED BY <2>1, <2>2, <2>3, <1>0, QuietStep
<1> QED BY <1>1, <1>2 DEF Timer

LEMMA CrashInv == ASSUME Inv, Crash PROVE Inv'
<1>1. s' = [Unarmed EXCEPT !.id = s.id] /\ queued' = {} /\ open' = {} /\ UNCHANGED disk BY DEF Crash
<1>2. Session(Unarmed) /\ Unarmed.armed = FALSE /\ Unarmed.rows = <<>> BY UnarmedIsSession
<1> HIDE DEF Unarmed
<1>3. /\ DOMAIN s' = Fields /\ s'.armed = FALSE /\ s'.rows = <<>> /\ s'.timer = Unarmed.timer
      /\ s'.selfResuming = Unarmed.selfResuming
  BY <1>1, <1>2 DEF Session, Fields
<1>4. Session(s') BY <1>2, <1>3 DEF Session
<1>5. RowPrompts' = {} BY <1>3, NothingIn DEF RowPrompts, PromptsIn
<1> QED BY <1>1, <1>3, <1>4, <1>5 DEF Inv, ParkIsTimed, HandlingIsAPass, PromptsAreRows

LEMMA NextInv == Inv /\ [Next]_vars => Inv'
<1> SUFFICES ASSUME Inv, [Next]_vars PROVE Inv' OBVIOUS
<1>1. CASE UNCHANGED vars
  <2>1. UNCHANGED <<s, disk, open, told, queued, running>> BY <1>1 DEF vars, engine, world
  <2> QED BY <2>1, NothingInv
<1> QED BY <1>1, UserInv, AgentInv, ChainInv, PassStepInv, TimerInv, CrashInv DEF Next

LEMMA InvHolds == Spec => []Inv
BY InitInv, NextInv, PTL DEF Spec

-----------------------------------------------------------------------------
(* Every park of an armed session has the timer that ends it, or a driver   *)
(* trusted to resume: through limits, outages, failed judges, restarts and  *)
(* every user act of engine.ts.                                             *)
THEOREM ParksAreTimed == Spec => []ParkIsTimed
<1>1. Inv => ParkIsTimed BY DEF Inv
<1> QED BY <1>1, InvHolds, PTL

(* Every way out of a pass takes the handling state back: verdict, refusal, *)
(* failure, wrap-up, disarm and a session replaced under the pass.          *)
THEOREM HandlingMeansAPass == Spec => []HandlingIsAPass
<1>1. Inv => HandlingIsAPass BY DEF Inv
<1> QED BY <1>1, InvHolds, PTL

(* The rows and the queue hold exactly the prompts the agent is stopped on, *)
(* whatever was answered, withdrawn, swept, dropped or filtered meanwhile.  *)
THEOREM RowsAreThePrompts == Spec => []PromptsAreRows
<1>1. Inv => PromptsAreRows BY DEF Inv
<1> QED BY <1>1, InvHolds, PTL

-----------------------------------------------------------------------------
(* What follows is about the answers.  The fields they depend on: g is h in *)
(* all of them, or has gone on from h without a new answer.                 *)
Silent(h, g) ==
  /\ g.answer = h.answer /\ g.awaiting = h.awaiting /\ g.judged = h.judged
  /\ g.promptGen = h.promptGen /\ g.owed = h.owed /\ g.retry = h.retry

Bears(h, g) ==
  /\ g.answer = h.answer
  /\ g.awaiting => h.awaiting
  /\ g.judged = h.judged \/ g.judged = None
  /\ g.promptGen \in Nat /\ h.promptGen <= g.promptGen
  /\ g.owed /\ g.retry = 0 => h.owed /\ h.retry = 0

(* The rows that hold a session for the user, other than prompts.           *)
Holding(h) == \E k \in DOMAIN h.rows : h.rows[k].kind \in {"question", "ask", "promoted"}

(* The session waits for the end of a park, or for the user.                *)
Kept(h) == h.state = "parked" \/ Holding(h)

LEMMA SilentBears ==
  ASSUME NEW h, NEW g, h.promptGen \in Nat, Silent(h, g) PROVE Bears(h, g)
BY DEF Silent, Bears

LEMMA BearsTrans ==
  ASSUME NEW h, NEW g, NEW f, h.promptGen \in Nat, Bears(h, g), Bears(g, f) PROVE Bears(h, f)
<1>1. f.promptGen \in Nat /\ g.promptGen \in Nat /\ h.promptGen <= g.promptGen /\ g.promptGen <= f.promptGen
  BY DEF Bears
<1>2. h.promptGen <= f.promptGen BY <1>1
<1> QED BY <1>1, <1>2 DEF Bears

(* Assignments to the other fields.                                         *)
LEMMA ExceptSilent ==
  ASSUME NEW h, Session(h)
  PROVE  /\ \A v : Silent(h, [h EXCEPT !.state = v])
         /\ \A v : Silent(h, [h EXCEPT !.rows = v])
         /\ \A v, w : Silent(h, [h EXCEPT !.rows = v, !.state = w])
         /\ \A v : Silent(h, [h EXCEPT !.backlog = v])
         /\ \A v : Silent(h, [h EXCEPT !.reasks = v])
         /\ \A v : Silent(h, [h EXCEPT !.transient = v])
         /\ \A v : Silent(h, [h EXCEPT !.limits = v])
         /\ \A v : Silent(h, [h EXCEPT !.timer = v])
         /\ \A v, w : Silent(h, [h EXCEPT !.backlog = v, !.reasks = w])
BY DEF Session, Silent, Fields

LEMMA RestedSilent == ASSUME NEW h, Session(h) PROVE Silent(h, Rested(h))
BY ExceptSilent DEF Rested

LEMMA EscalatedSilent == ASSUME NEW h, NEW r, Session(h) PROVE Silent(h, Escalated(h, r))
<1> DEFINE q == Append(h.rows, r)
<1>1. Escalated(h, r) = [h EXCEPT !.rows = q, !.state = "needs_you"] BY DEF Escalated
<1> HIDE DEF q
<1> QED BY <1>1, SMT DEF Session, Silent, Fields

LEMMA ReportSilent == ASSUME NEW h, Session(h) PROVE \A g \in WithReport(h) : Silent(h, g)
<1> DEFINE I == Rows(h, {"report"})
           kept == IF Cardinality(I) < MaxReports THEN h.rows ELSE RemoveAt(h.rows, Min(I))
           q == Append(kept, Report)
<1>1. \A g \in WithReport(h) : g = [h EXCEPT !.rows = q, !.state = "needs_you"] \/ g = [h EXCEPT !.state = "needs_you"]
  BY DEF WithReport
<1> HIDE DEF q
<1>2. Silent(h, [h EXCEPT !.rows = q, !.state = "needs_you"]) BY DEF Session, Silent, Fields
<1>3. Silent(h, [h EXCEPT !.state = "needs_you"]) BY DEF Session, Silent, Fields
<1> QED BY <1>1, <1>2, <1>3, Zenon

LEMMA ReconcileSilent == ASSUME NEW h, Session(h) PROVE Silent(h, reconcileAsks(h))
<1>1. PICK q : reconcileAsks(h) = [h EXCEPT !.rows = q] BY DEF reconcileAsks
<1> QED BY <1>1, SMT DEF Session, Silent, Fields

LEMMA RaiseSilent == ASSUME NEW h, NEW U, Session(h) PROVE Silent(h, raiseAsk(h, U))
<1>1. CASE raiseAsk(h, U) = h BY <1>1 DEF Silent
<1>2. CASE raiseAsk(h, U) # h
  <2>1. PICK q : raiseAsk(h, U) = [h EXCEPT !.rows = q] BY <1>2 DEF raiseAsk
  <2> QED BY <2>1, SMT DEF Session, Silent, Fields
<1> QED BY <1>1, <1>2

(* The end and the start of a park.                                         *)
LEMMA UnparkBears ==
  ASSUME NEW h, Session(h), h.promptGen \in Nat
  PROVE  Bears(h, unparkIfParked(h)) /\ unparkIfParked(h).awaiting = h.awaiting
         /\ unparkIfParked(h).judged = h.judged /\ unparkIfParked(h).promptGen = h.promptGen
<1>1. CASE h.state # "parked"
  <2>1. unparkIfParked(h) = h BY <1>1 DEF unparkIfParked
  <2> QED BY <2>1 DEF Bears
<1>2. CASE h.state = "parked"
  <2> DEFINE f == [h EXCEPT !.timer = FALSE, !.parkKind = None, !.selfResuming = FALSE,
                            !.retry = 0, !.owed = FALSE]
  <2>1. unparkIfParked(h) = Rested(f) BY <1>2 DEF unparkIfParked
  <2>2. /\ DOMAIN f = Fields /\ f.armed = h.armed /\ f.rows = h.rows
        /\ f.timer = FALSE /\ f.selfResuming = FALSE /\ f.owed = FALSE
        /\ f.answer = h.answer /\ f.awaiting = h.awaiting /\ f.judged = h.judged /\ f.promptGen = h.promptGen
    BY DEF Session, Fields
  <2> HIDE DEF f
  <2>3. Session(f) BY <2>2 DEF Session
  <2>4. Silent(f, Rested(f)) BY <2>3, RestedSilent
  <2> QED BY <2>1, <2>2, <2>4 DEF Silent, Bears
<1> QED BY <1>1, <1>2

LEMMA ParkBears ==
  ASSUME NEW h, NEW kind, NEW b, NEW retry, Session(h), h.promptGen \in Nat
  PROVE  Bears(h, enterPark(h, kind, b, retry)) /\ enterPark(h, kind, b, retry).state = "parked"
<1> DEFINE g == enterPark(h, kind, b, retry)
<1>1. /\ g.answer = h.answer /\ g.awaiting = h.awaiting /\ g.judged = h.judged /\ g.promptGen = h.promptGen
      /\ g.owed = (retry # 0) /\ g.retry = retry /\ g.state = "parked"
  BY DEF enterPark, Session, Fields
<1> HIDE DEF g
<1>2. Bears(h, g) 
  <2>1. CASE retry = 0
    <3>1. g.owed = FALSE BY <1>1, <2>1
    <3>2. ~(g.owed /\ g.retry = 0) BY <3>1
    <3> QED BY <1>1, <3>2 DEF Bears
  <2>2. CASE retry # 0 BY <1>1, <2>2 DEF Bears
  <2> QED BY <2>1, <2>2
<1> QED BY <1>1, <1>2 DEF g

-----------------------------------------------------------------------------
(* Rows that hold the session.                                              *)

LEMMA AppendHolds ==
  ASSUME NEW h, NEW r \in AnyRow, Session(h)
  PROVE  LET g == Escalated(h, r)
         IN  (r.kind \in {"question", "ask", "promoted"} => Holding(g)) /\ (Holding(h) => Holding(g))
<1> DEFINE q == h.rows
           a == Append(q, r)
           g == Escalated(h, r)
<1>1. g.rows = a BY DEF Escalated, Session, Fields
<1>2. q \in Seq(AnyRow) BY DEF Session
<1>3. /\ DOMAIN a = 1..Len(q)+1 /\ DOMAIN q = 1..Len(q) /\ Len(q) \in Nat
      /\ (\A k \in 1..Len(q) : a[k] = q[k]) /\ a[Len(q)+1] = r
  BY <1>2
<1>4. \A k \in DOMAIN q : k \in DOMAIN a /\ a[k] = q[k] BY <1>3
<1>5. Len(q)+1 \in DOMAIN a /\ a[Len(q)+1] = r BY <1>3
<1> HIDE DEF g, a
<1> QED BY <1>1, <1>4, <1>5 DEF Holding, g

(* A question that is pending holds the session, or is a prompt.            *)
LEMMA PendingHolds ==
  ASSUME NEW h, Session(h), pendingQuestions(h) # 0 \/ blockingQuestions(h) # 0
  PROVE  Holding(h) \/ PromptsIn(h.rows) # {}
<1> DEFINE I == Rows(h, {"question", "ask", "promoted", "prompt"})
           J == Rows(h, {"question", "promoted", "prompt"})
<1>1. Cardinality(I) # 0 \/ Cardinality(J) # 0 BY DEF pendingQuestions, blockingQuestions
<1>2. I # {} \/ J # {}
  <2> HIDE DEF I, J
  <2> QED BY <1>1, FS_EmptySet
<1>3. J \subseteq I BY DEF Rows
<1>4. PICK k \in I : TRUE BY <1>2, <1>3
<1>5. k \in DOMAIN h.rows /\ h.rows[k].kind \in {"question", "ask", "promoted", "prompt"} BY <1>4 DEF Rows
<1>6. CASE h.rows[k].kind = "prompt"
  <2>1. h.rows \in Seq(AnyRow) BY DEF Session
  <2>2. h.rows[k] \in AnyRow BY <2>1, <1>5
  <2>3. h.rows[k].of # None BY <2>2, <1>6, RowFields
  <2> QED BY <2>3, <1>5 DEF PromptsIn
<1> QED BY <1>5, <1>6 DEF Holding

LEMMA ReconcileHolds ==
  ASSUME NEW h, Session(h), Holding(h) PROVE Holding(reconcileAsks(h))
<1> DEFINE still(r) == r.unblocked \cap Running(h)
           new(r) == IF r.kind # "ask" THEN r
                     ELSE IF still(r) = {} THEN Row("promoted", None, {})
                     ELSE [r EXCEPT !.unblocked = still(r)]
           q == [k \in DOMAIN h.rows |-> new(h.rows[k])]
<1>1. reconcileAsks(h) = [h EXCEPT !.rows = q] BY DEF reconcileAsks
<1>2. reconcileAsks(h).rows = q
  <2> HIDE DEF q
  <2> QED BY <1>1 DEF Session, Fields
<1>3. PICK k \in DOMAIN h.rows : h.rows[k].kind \in {"question", "ask", "promoted"} BY DEF Holding
<1>4. h.rows \in Seq(AnyRow) BY DEF Session
<1>5. h.rows[k] \in AnyRow BY <1>4
<1>6. new(h.rows[k]).kind \in {"question", "ask", "promoted"}
  <2> DEFINE r == h.rows[k]
  <2>1. CASE r.kind # "ask" BY <2>1, <1>3
  <2>2. CASE r.kind = "ask"
    <3>1. r \in PlainRow BY <2>2, <1>5, RowFields
    <3>2. Row("promoted", None, {}).kind = "promoted" BY DEF Row
    <3>3. [r EXCEPT !.unblocked = still(r)].kind = "ask"
      <4> DEFINE w == still(r)
      <4> HIDE DEF w
      <4>1. [r EXCEPT !.unblocked = w].kind = "ask" BY <3>1, <2>2 DEF PlainRow
      <4> QED BY <4>1 DEF w
    <3> QED BY <2>2, <3>2, <3>3
  <2> QED BY <2>1, <2>2
<1>7. q[k] = new(h.rows[k]) /\ k \in DOMAIN q OBVIOUS
<1> HIDE DEF new, q
<1> QED BY <1>2, <1>6, <1>7 DEF Holding

(* The session waits for a park, the user, or a prompt of the agent's.      *)
Waits(h) == Kept(h) \/ PromptsIn(h.rows) # {}

(* Every outcome of a failure, a limit, an event, a reply or a retraction.  *)
LEMMA FailureBears ==
  ASSUME NEW h, NEW retry, Session(h), h.promptGen \in Nat
  PROVE  Bears(h, registerTransientFailure(h, retry)) /\ Waits(registerTransientFailure(h, retry))
<1> DEFINE v == IF h.transient < TransientCeiling THEN h.transient + 1 ELSE h.transient
           f == [h EXCEPT !.transient = v]
           g == registerTransientFailure(h, retry)
<1>1. g = IF f.transient < TransientCeiling THEN enterPark(f, "outage", FALSE, retry)
          ELSE IF pendingQuestions(f) = 0 THEN Escalated(f, Question)
          ELSE [f EXCEPT !.state = "needs_you"]
  BY DEF registerTransientFailure
<1>2. Like(h, f) /\ Silent(h, f)
  <2> HIDE DEF v
  <2> QED BY ExceptMinor, ExceptSilent
<1> HIDE DEF f, g
<1>3. Session(f) /\ f.promptGen \in Nat /\ Bears(h, f) BY <1>2, LikeIsGentle, GentleIsSession, SilentBears DEF Silent
<1>4. CASE g = enterPark(f, "outage", FALSE, retry)
  <2>1. Bears(f, g) /\ g.state = "parked" BY <1>3, <1>4, ParkBears
  <2> QED BY <2>1, <1>3, BearsTrans DEF Waits, Kept, g
<1>5. CASE g = Escalated(f, Question)
  <2>1. Question \in AnyRow /\ Question.kind = "question" BY RowsPlain DEF AnyRow, Question, Row
  <2>2. Silent(f, g) BY <1>3, <1>5, EscalatedSilent
  <2>3. Holding(g) BY <2>1, <1>3, <1>5, AppendHolds
  <2> QED BY <2>2, <2>3, <1>3, SilentBears, BearsTrans DEF Waits, Kept, g
<1>6. CASE pendingQuestions(f) # 0 /\ g = [f EXCEPT !.state = "needs_you"]
  <2>1. Silent(f, g) /\ g.rows = f.rows BY <1>3, <1>6, ExceptSilent DEF Session, Fields
  <2>2. Holding(f) \/ PromptsIn(f.rows) # {} BY <1>3, <1>6, PendingHolds
  <2>3. Waits(g) BY <2>1, <2>2 DEF Waits, Kept, Holding
  <2> QED BY <2>1, <2>3, <1>3, SilentBears, BearsTrans DEF g
<1> QED BY <1>1, <1>4, <1>5, <1>6

LEMMA LimitBears ==
  ASSUME NEW h, NEW b, Session(h), h.promptGen \in Nat
  PROVE  Bears(h, AfterLimit(h, b)) /\ Waits(AfterLimit(h, b))
<1> DEFINE f == IF (h.state = "parked" /\ h.parkKind = "limit") \/ h.limits = LimitCeiling THEN h
                ELSE [h EXCEPT !.limits = @ + 1]
           u == unparkIfParked(f)
           g == AfterLimit(h, b)
<1>1. \/ g = enterPark(f, "limit", b, h.retry)
      \/ g = Escalated(u, Question)
      \/ g = u /\ pendingQuestions(u) # 0
  BY DEF AfterLimit
<1>2. Like(h, f) /\ Silent(h, f)
  <2>1. Like(h, h) /\ Silent(h, h) BY DEF Like, Session, Silent
  <2>2. Like(h, [h EXCEPT !.limits = h.limits + 1]) /\ Silent(h, [h EXCEPT !.limits = h.limits + 1])
    BY ExceptMinor, ExceptSilent
  <2> QED BY <2>1, <2>2
<1> HIDE DEF f, g
<1>3. Session(f) /\ f.promptGen \in Nat /\ Bears(h, f) BY <1>2, LikeIsGentle, GentleIsSession, SilentBears DEF Silent
<1>4. Session(u) /\ Bears(f, u) BY <1>3, UnparkGentle, UnparkBears, GentleIsSession
<1> HIDE DEF u
<1>5. Bears(h, u) /\ u.promptGen \in Nat BY <1>3, <1>4, BearsTrans DEF Bears
<1>6. CASE g = enterPark(f, "limit", b, h.retry)
  <2>1. Bears(f, g) /\ g.state = "parked" BY <1>3, <1>6, ParkBears
  <2> QED BY <2>1, <1>3, BearsTrans DEF Waits, Kept, g
<1>7. CASE g = Escalated(u, Question)
  <2>1. Question \in AnyRow /\ Question.kind = "question" BY RowsPlain DEF AnyRow, Question, Row
  <2>2. Silent(u, g) BY <1>4, <1>7, EscalatedSilent
  <2>3. Holding(g) BY <2>1, <1>4, <1>7, AppendHolds
  <2>4. Bears(u, g) BY <2>2, <1>5, SilentBears
  <2> QED BY <2>3, <2>4, <1>5, BearsTrans DEF Waits, Kept, g
<1>8. CASE g = u /\ pendingQuestions(u) # 0
  <2>1. Holding(u) \/ PromptsIn(u.rows) # {} BY <1>4, <1>8, PendingHolds
  <2> QED BY <2>1, <1>5, <1>8 DEF Waits, Kept, g
<1> QED BY <1>1, <1>6, <1>7, <1>8

LEMMA EnteredBears ==
  ASSUME NEW h, Session(h), h.promptGen \in Nat
  PROVE  /\ Bears(h, Entered(h)) /\ ~Entered(h).awaiting /\ Session(Entered(h))
         /\ Entered(h).state = h.state /\ Entered(h).owed = h.owed /\ Entered(h).retry = h.retry
         /\ Entered(h).judged = h.judged /\ Entered(h).promptGen = h.promptGen
         /\ Holding(h) => Holding(Entered(h))
<1> DEFINE f == [h EXCEPT !.awaiting = FALSE]
           g == reconcileAsks(f)
<1>1. Like(h, f) BY ExceptMinor
<1>2. /\ f.answer = h.answer /\ f.awaiting = FALSE /\ f.judged = h.judged /\ f.promptGen = h.promptGen
      /\ f.owed = h.owed /\ f.retry = h.retry /\ f.rows = h.rows /\ f.state = h.state
  BY DEF Session, Fields
<1> HIDE DEF f
<1>3. Session(f) BY <1>1, LikeIsGentle, GentleIsSession
<1>4. Silent(f, g) /\ g.state = f.state /\ Session(g) BY <1>3, ReconcileSilent, ReconcileGentle, GentleIsSession
<1>5. Holding(f) => Holding(g) BY <1>3, ReconcileHolds
<1>6. Entered(h) = g BY DEF Entered, f
<1> HIDE DEF g
<1>7. Bears(h, g) BY <1>2, <1>4 DEF Silent, Bears
<1> QED BY <1>2, <1>4, <1>5, <1>6, <1>7 DEF Silent, Holding

LEMMA RepliedBears ==
  ASSUME NEW h, NEW p, Session(h), h.promptGen \in Nat PROVE Bears(h, Replied(h, p))
<1> DEFINE e == [h EXCEPT !.judged = None]
           u == unparkIfParked(e)
           kept == Only(u.rows, {r \in ToSet(u.rows) : KeptBy(p, r)})
           g == [u EXCEPT !.transient = 0, !.limits = 0, !.reasks = 0]
           f == [g EXCEPT !.rows = kept, !.promptGen = @ + 1]
<1>1. Replied(h, p) = IF h.state # "parked" /\ kept = h.rows THEN g ELSE Rested(f)
  BY DEF Replied
<1>2. Like(h, e) BY ExceptMinor
<1>3. /\ e.answer = h.answer /\ e.awaiting = h.awaiting /\ e.judged = None /\ e.promptGen = h.promptGen
      /\ e.owed = h.owed /\ e.retry = h.retry
  BY DEF Session, Fields
<1> HIDE DEF e
<1>4. Session(e) /\ Bears(h, e) /\ e.promptGen \in Nat BY <1>2, <1>3, LikeIsGentle, GentleIsSession DEF Bears
<1>5. Session(u) /\ Bears(e, u) /\ u.rows = e.rows BY <1>4, UnparkGentle, UnparkBears, GentleIsSession
<1>6. kept \in Seq(AnyRow)
  <2>1. u.rows \in Seq(AnyRow) BY <1>5 DEF Session
  <2> QED BY <2>1, OnlyIsSeq
<1> HIDE DEF u, kept
<1>7. Bears(h, u) /\ u.promptGen \in Nat BY <1>4, <1>5, BearsTrans DEF Bears
<1>8. Silent(u, g) /\ Session(g) BY <1>5 DEF Session, Silent, Fields
<1> HIDE DEF g
<1>9. Bears(h, g) /\ g.promptGen \in Nat BY <1>7, <1>8, SilentBears, BearsTrans DEF Silent
<1>10. /\ DOMAIN f = Fields /\ f.armed = g.armed /\ f.timer = g.timer /\ f.selfResuming = g.selfResuming
       /\ f.rows = kept /\ f.answer = g.answer /\ f.awaiting = g.awaiting /\ f.judged = g.judged
       /\ f.promptGen = g.promptGen + 1 /\ f.owed = g.owed /\ f.retry = g.retry
  BY <1>8 DEF Session, Fields
<1> HIDE DEF f
<1>11. Session(f) BY <1>6, <1>8, <1>10 DEF Session
<1>12. f.promptGen \in Nat /\ g.promptGen <= f.promptGen BY <1>9, <1>10
<1>13. Bears(g, f) BY <1>10, <1>12 DEF Bears
<1>14. Bears(f, Rested(f)) BY <1>11, <1>12, RestedSilent, SilentBears
<1>15. Bears(h, Rested(f)) BY <1>9, <1>13, <1>14, BearsTrans
<1> QED BY <1>1, <1>9, <1>15

LEMMA RetractedBears ==
  ASSUME NEW h, NEW p, Session(h), h.promptGen \in Nat PROVE Bears(h, Retracted(h, p))
<1> DEFINE u == unparkIfParked(h)
           kept == Only(u.rows, {r \in ToSet(u.rows) : IF p = None THEN r.kind \in {"report", "ask"} ELSE r.of # p})
           f == [u EXCEPT !.rows = kept]
<1>1. Retracted(h, p) = IF h.state # "parked" /\ kept = h.rows THEN h ELSE Rested(f)
  BY DEF Retracted
<1>2. Session(u) /\ Bears(h, u) BY UnparkGentle, UnparkBears, GentleIsSession
<1>3. kept \in Seq(AnyRow)
  <2>1. u.rows \in Seq(AnyRow) BY <1>2 DEF Session
  <2> QED BY <2>1, OnlyIsSeq
<1> HIDE DEF u, kept
<1>4. Session(f) /\ Silent(u, f) BY <1>2, <1>3, ReRowed, ExceptSilent
<1> HIDE DEF f
<1>5. Silent(f, Rested(f)) BY <1>4, RestedSilent
<1>6. u.promptGen \in Nat /\ Silent(u, Rested(f)) BY <1>2, <1>4, <1>5 DEF Silent, Bears
<1>7. Bears(h, Rested(f)) BY <1>2, <1>6, SilentBears, BearsTrans
<1>8. Bears(h, h) BY DEF Bears
<1> QED BY <1>1, <1>7, <1>8

(* An answer.                                                               *)
LEMMA AnswerFields ==
  ASSUME NEW h, NEW k \in DOMAIN h.rows, NEW how, Session(h), h.promptGen \in Nat, h.rows[k].kind # "prompt"
  PROVE  LET g == parkAskAnswer(h, k, how)
         IN  /\ g.answer = [n |-> acts, how |-> how, session |-> h.id] /\ g.judged = None
             /\ g.promptGen = h.promptGen + 1 /\ g.awaiting = h.awaiting
             /\ g.owed = h.owed /\ g.retry = h.retry
<1> DEFINE a == [n |-> acts, how |-> how, session |-> h.id]
           q == RemoveAt(h.rows, k)
           g == [h EXCEPT !.rows = q, !.answer = a, !.judged = None, !.promptGen = @ + 1]
<1>1. parkAskAnswer(h, k, how) = IF h.state = "parked" THEN g ELSE Rested(g) BY DEF parkAskAnswer
<1>2. q \in Seq(AnyRow)
  <2>1. h.rows \in Seq(AnyRow) BY DEF Session
  <2>2. h.rows[k] \in AnyRow BY <2>1
  <2> QED BY <2>1, <2>2, RowFields, RemovePrompts
<1> HIDE DEF a, q
<1>3. /\ DOMAIN g = Fields /\ g.armed = h.armed /\ g.timer = h.timer /\ g.selfResuming = h.selfResuming
      /\ g.rows = q /\ g.answer = a /\ g.judged = None /\ g.promptGen = h.promptGen + 1
      /\ g.awaiting = h.awaiting /\ g.owed = h.owed /\ g.retry = h.retry
  BY DEF Session, Fields
<1> HIDE DEF g
<1>4. Session(g) BY <1>2, <1>3 DEF Session
<1>5. Silent(g, Rested(g)) BY <1>4, RestedSilent
<1> QED BY <1>1, <1>3, <1>5 DEF Silent, a

-----------------------------------------------------------------------------
(* The chain.  An entry is coming that starts a pass or holds the session,  *)
(* and no limit_cleared stands behind it.                                   *)
Serves(e, n) == e = Turn(n) \/ e.kind \in {"limit_hit", "turn_failed"}
Cleared(q) == \E j \in DOMAIN q : q[j].kind = "limit_cleared"
Awaits(q, n) ==
  \E k \in DOMAIN q : Serves(q[k], n) /\ \A j \in DOMAIN q : q[j].kind = "limit_cleared" => j < k

IsSequence(q) == \E S : q \in Seq(S)

(* The three ways the chain changes: an entry more, two more, one less.     *)
LEMMA ServesIsNotClearing == ASSUME NEW e, NEW n, Serves(e, n) PROVE e.kind # "limit_cleared"
BY DEF Serves, Turn

LEMMA Appending ==
  ASSUME NEW q, NEW e, IsSequence(q)
  PROVE  /\ IsSequence(Append(q, e))
         /\ \A n : Serves(e, n) => Awaits(Append(q, e), n)
         /\ e.kind # "limit_cleared" => (Cleared(Append(q, e)) => Cleared(q))
         /\ e.kind # "limit_cleared" => \A n : Awaits(q, n) => Awaits(Append(q, e), n)
<1>1. PICK S : q \in Seq(S) BY DEF IsSequence
<1> DEFINE T == S \cup {e}
           a == Append(q, e)
<1>2. q \in Seq(T) BY <1>1, SeqDef
<1>3. /\ a \in Seq(T) /\ DOMAIN a = 1..Len(q)+1 /\ DOMAIN q = 1..Len(q) /\ Len(q) \in Nat
      /\ (\A k \in 1..Len(q) : a[k] = q[k]) /\ a[Len(q)+1] = e
  BY <1>2
<1>4. \A k \in DOMAIN q : k \in DOMAIN a /\ a[k] = q[k] BY <1>3
<1>5. \A k \in DOMAIN a : k \in DOMAIN q \/ k = Len(q)+1 BY <1>3
<1>6. Len(q)+1 \in DOMAIN a /\ a[Len(q)+1] = e /\ \A k \in DOMAIN q : k < Len(q)+1 BY <1>3
<1> HIDE DEF a, T
<1>7. IsSequence(a) BY <1>3 DEF IsSequence
<1>8. ASSUME NEW n, Serves(e, n) PROVE Awaits(a, n)
  <2>1. e.kind # "limit_cleared" BY <1>8, ServesIsNotClearing
  <2>2. \A j \in DOMAIN a : a[j].kind = "limit_cleared" => j < Len(q)+1 BY <2>1, <1>5, <1>6
  <2> QED BY <2>2, <1>6, <1>8 DEF Awaits
<1>9. ASSUME e.kind # "limit_cleared" PROVE Cleared(a) => Cleared(q)
  BY <1>4, <1>5, <1>6, <1>9 DEF Cleared
<1>10. ASSUME e.kind # "limit_cleared", NEW n, Awaits(q, n) PROVE Awaits(a, n)
  BY <1>4, <1>5, <1>6, <1>10 DEF Awaits
<1> QED BY <1>7, <1>8, <1>9, <1>10 DEF a

LEMMA AppendTwo ==
  ASSUME NEW q, NEW d, NEW e, IsSequence(q) PROVE q \o <<d, e>> = Append(Append(q, d), e)
<1>1. PICK S : q \in Seq(S) BY DEF IsSequence
<1> DEFINE T == S \cup {d, e}
<1>2. q \in Seq(T) BY <1>1, SeqDef
<1>3. d \in T /\ e \in T OBVIOUS
<1> HIDE DEF T
<1> QED BY <1>2, <1>3

LEMMA TailOf ==
  ASSUME NEW q, IsSequence(q), q # <<>>
  PROVE  /\ IsSequence(Tail(q))
         /\ Cleared(Tail(q)) => Cleared(q)
         /\ \A n : Awaits(q, n) => Awaits(Tail(q), n) \/ (Serves(Head(q), n) /\ ~Cleared(Tail(q)))
<1>1. PICK S : q \in Seq(S) BY DEF IsSequence
<1> DEFINE t == Tail(q)
<1>2. /\ t \in Seq(S) /\ DOMAIN q = 1..Len(q) /\ Len(q) \in Nat /\ Len(q) >= 1 /\ DOMAIN t = 1..Len(q)-1
      /\ \A k \in 1..Len(q)-1 : t[k] = q[k+1]
  BY <1>1
<1>3. Head(q) = q[1] BY <1>1
<1> HIDE DEF t
<1>4. IsSequence(t) BY <1>2 DEF IsSequence
<1>5. \A k \in DOMAIN t : k \in Int /\ k+1 \in DOMAIN q /\ t[k] = q[k+1] BY <1>2
<1>6. Cleared(t) => Cleared(q) BY <1>5 DEF Cleared
<1>7. ASSUME NEW n, Awaits(q, n) PROVE Awaits(t, n) \/ (Serves(Head(q), n) /\ ~Cleared(t))
  <2>1. PICK k \in DOMAIN q : Serves(q[k], n) /\ \A j \in DOMAIN q : q[j].kind = "limit_cleared" => j < k
    BY <1>7 DEF Awaits
  <2>2. CASE k = 1
    <3>1. ~Cleared(t)
      <4>1. SUFFICES ASSUME NEW j \in DOMAIN t, t[j].kind = "limit_cleared" PROVE FALSE BY DEF Cleared
      <4>2. j+1 < 1 BY <4>1, <1>5, <2>1, <2>2
      <4> QED BY <4>2, <1>2, <4>1
    <3> QED BY <3>1, <2>1, <2>2, <1>3
  <2>3. CASE k # 1
    <3>1. k-1 \in DOMAIN t /\ (k-1)+1 = k BY <2>3, <1>2, <2>1
    <3>2. t[k-1] = q[k] BY <3>1, <1>5
    <3>3. ASSUME NEW j \in DOMAIN t, t[j].kind = "limit_cleared" PROVE j < k-1
      <4>1. j+1 < k /\ j \in Int /\ k \in Int BY <3>3, <1>5, <2>1, <1>2
      <4> QED BY <4>1
    <3> QED BY <3>1, <3>2, <3>3, <2>1 DEF Awaits
  <2> QED BY <2>2, <2>3
<1> QED BY <1>4, <1>6, <1>7 DEF t

-----------------------------------------------------------------------------
(* The invariant.  An answer to be relayed in this session.                 *)
Relaying == AnswerWaits /\ s.answer.how = "relay" /\ s.answer.session = s.id
Coming == Awaits(chain, latest)

(* A pass of this session is at one of these awaits.                        *)
Mine(pcs) == running.pc \in pcs /\ SameSession

(* Sessions are numbered, and so are the changes that make a verdict stale. *)
Numbered ==
  /\ arms \in Nat /\ ctx \in Nat /\ s.promptGen \in Nat
  /\ s.id \in Nat /\ s.id <= arms
  /\ running.pc # "idle" => running.id \in Nat /\ running.id <= arms
  /\ Mine({"context", "judge"}) => running.promptGen \in Nat /\ running.promptGen <= s.promptGen
  /\ s.answer # None => s.answer.session \in Nat /\ s.answer.session <= arms
  /\ disk.answer # None => disk.answer.session \in Nat /\ disk.answer.session <= arms

(* What is external, and the shape of the chain.                            *)
Outside ==
  /\ IsSequence(chain)
  /\ agent \in {"idle", "working", "retrying", "cancelled", "unheard"}
  /\ open # {} => agent # "idle"

(* A pass has taken the awaiting mark away; an answer has reopened the      *)
(* context, made a verdict under way stale unless it was shown the answer,  *)
(* and is not in a park that owes a judgement it cannot give.               *)
Fresh ==
  /\ Mine(Passes) => ~s.awaiting
  /\ ~s.armed => ~s.awaiting
  /\ Relaying => s.judged = None
  /\ Relaying /\ Mine({"judge"}) /\ s.answer # running.answer => running.promptGen < s.promptGen
  /\ Relaying => ~(s.owed /\ s.retry = 0)

(* A pass that was not shown the answer.                                    *)
Unshown == Mine({"snapshots"}) \/ (Mine({"judge"}) /\ s.answer # running.answer)

(* While the agent is idle, an awaited pause is on the chain, and what an   *)
(* answer waits for is there.                                               *)
Attentive ==
  agent = "idle" =>
    /\ s.awaiting => Coming
    /\ Relaying /\ Cleared(chain) => Coming
    /\ Relaying /\ Unshown => Coming
    /\ Relaying => Coming \/ Mine({"context", "judge"}) \/ Kept(s)

Answering == Numbered /\ Outside /\ Fresh /\ Attentive

AInv == Inv /\ Numbered /\ Outside /\ Fresh /\ Attentive

(* The invariant says what the property asks for.                           *)
LEMMA AnswerIsAttended == AInv => AnswerHasProducer
<1> SUFFICES ASSUME AInv, Relaying, agent \notin {"cancelled", "unheard"} PROVE HasProducer
  BY DEF AnswerHasProducer, AnswerWaits, LeftAlone, Relaying
<1>1. CASE agent # "idle" BY <1>1 DEF AInv, Outside, HasProducer, Working
<1>2. CASE agent = "idle"
  <2>1. Coming \/ Mine({"context", "judge"}) \/ Kept(s) BY <1>2 DEF AInv, Attentive
  <2>2. CASE Coming
    <3>1. DOMAIN chain # {} BY <2>2 DEF Coming, Awaits
    <3> QED BY <3>1 DEF HasProducer
  <2>3. CASE Mine({"context", "judge"}) BY <2>3 DEF Mine, HasProducer
  <2>4. CASE Kept(s)
    <3>1. CASE s.state = "parked"
      <4>1. s.armed BY DEF Relaying, AnswerWaits
      <4> QED BY <3>1, <4>1 DEF AInv, Inv, ParkIsTimed, HasProducer
    <3>2. CASE Holding(s)
      <4>1. DOMAIN s.rows # {} BY <3>2 DEF Holding
      <4> QED BY <4>1 DEF HasProducer
    <3> QED BY <3>1, <3>2, <2>4 DEF Kept
  <2> QED BY <2>1, <2>2, <2>3, <2>4
<1> QED BY <1>1, <1>2

-----------------------------------------------------------------------------
(* Steps.  A session that carries no new answer.                            *)
Carries(g) ==
  /\ g.armed = s.armed /\ g.id = s.id
  /\ g.promptGen \in Nat /\ s.promptGen <= g.promptGen
  /\ g.answer = None \/ g.answer = s.answer
  /\ g.awaiting => s.awaiting
  /\ g.owed /\ g.retry = 0 => s.owed /\ s.retry = 0
  /\ Relaying /\ g.answer = s.answer => g.judged = None

(* What goes on from the session, or from one that does, carries it on.     *)
LEMMA BearsCarries ==
  ASSUME AInv, NEW g, Bears(s, g), g.armed = s.armed, g.id = s.id PROVE Carries(g)
BY DEF AInv, Numbered, Fresh, Bears, Carries

LEMMA CarriesBears ==
  ASSUME AInv, NEW g, NEW f, Carries(g), Bears(g, f), f.armed = g.armed, f.id = g.id PROVE Carries(f)
<1>1. f.promptGen \in Nat /\ s.promptGen \in Nat /\ g.promptGen \in Nat
      /\ s.promptGen <= g.promptGen /\ g.promptGen <= f.promptGen
  BY DEF AInv, Numbered, Bears, Carries
<1>2. s.promptGen <= f.promptGen BY <1>1
<1> QED BY <1>1, <1>2 DEF Bears, Carries

(* The answer that is relayed after such a step was relayed before it.      *)
LEMMA StillRelaying ==
  ASSUME Carries(s'), Relaying' PROVE Relaying /\ s'.answer = s.answer /\ s'.judged = None
BY DEF Carries, Relaying, AnswerWaits

(* The record holds an answer of the session, or the one it held.           *)
Saved == disk'.answer = None \/ disk'.answer = disk.answer \/ disk'.answer = s.answer

LEMMA PersistSaves ==
  ASSUME NEW g, Carries(g), Persist(g) \/ UNCHANGED disk PROVE Saved
BY DEF Persist, Record, Carries, Saved

(* Numbers and freshness after a step that carries the session on.          *)
LEMMA RunningStep ==
  ASSUME AInv, Carries(s'), UNCHANGED arms, ctx' \in Nat, Saved,
         running'.pc # "idle" => running'.id \in Nat /\ running'.id <= arms,
         Mine({"context", "judge"})' => running'.promptGen \in Nat /\ running'.promptGen <= s'.promptGen,
         Mine(Passes)' => ~s'.awaiting,
         Relaying' /\ Mine({"judge"})' /\ s'.answer # running'.answer => running'.promptGen < s'.promptGen
  PROVE  Numbered' /\ Fresh'
<1>1. /\ arms' \in Nat /\ s'.promptGen \in Nat /\ s'.id \in Nat /\ s'.id <= arms'
      /\ s'.answer # None => s'.answer.session \in Nat /\ s'.answer.session <= arms'
      /\ disk'.answer # None => disk'.answer.session \in Nat /\ disk'.answer.session <= arms'
  BY DEF AInv, Numbered, Carries, Saved
<1>2. Numbered' BY <1>1 DEF Numbered
<1>3. ~s'.armed => ~s'.awaiting BY DEF AInv, Fresh, Carries
<1>4. ASSUME Relaying' PROVE s'.judged = None /\ ~(s'.owed /\ s'.retry = 0)
  BY <1>4, StillRelaying DEF AInv, Fresh, Carries
<1>5. Fresh' BY <1>3, <1>4 DEF Fresh
<1> QED BY <1>2, <1>5

LEMMA CarryStep ==
  ASSUME AInv, Carries(s'), UNCHANGED arms, ctx' \in Nat, Saved, running' = running \/ running' = Idle
  PROVE  Numbered' /\ Fresh'
<1>1. CASE running' = running
  <2>1. \A pcs : Mine(pcs)' => Mine(pcs) BY <1>1 DEF Mine, SameSession, Carries
  <2>2. s.promptGen \in Nat /\ s'.promptGen \in Nat /\ s.promptGen <= s'.promptGen
    BY DEF AInv, Numbered, Carries
  <2>3. ASSUME Mine({"context", "judge"})'
        PROVE  running'.promptGen \in Nat /\ running'.promptGen <= s'.promptGen
    <3>1. running.promptGen \in Nat /\ running.promptGen <= s.promptGen BY <2>1, <2>3 DEF AInv, Numbered
    <3> QED BY <3>1, <2>2, <1>1
  <2>4. ASSUME Relaying', Mine({"judge"})', s'.answer # running'.answer
        PROVE  running'.promptGen < s'.promptGen
    <3>1. Mine({"judge"}) /\ Mine({"context", "judge"}) BY <2>1, <2>4 DEF Mine
    <3>2. Relaying /\ s.answer # running.answer BY <2>4, <1>1, StillRelaying
    <3>3. running.promptGen < s.promptGen /\ running.promptGen \in Nat BY <3>1, <3>2 DEF AInv, Fresh, Numbered
    <3> QED BY <3>3, <2>2, <1>1
  <2>5. Mine(Passes)' => ~s'.awaiting BY <2>1 DEF AInv, Fresh, Carries
  <2>6. running'.pc # "idle" => running'.id \in Nat /\ running'.id <= arms BY <1>1 DEF AInv, Numbered
  <2> QED BY <2>3, <2>4, <2>5, <2>6, RunningStep
<1>2. CASE running' = Idle
  <2>1. running'.pc = "idle" BY <1>2 DEF Idle
  <2>2. ~Mine({"context", "judge"})' /\ ~Mine(Passes)' /\ ~Mine({"judge"})' BY <2>1 DEF Mine, Passes
  <2> QED BY <2>1, <2>2, RunningStep
<1> QED BY <1>1, <1>2

(* The three ways in which nothing is left to be shown of Attentive.        *)
LEMMA ComesStep == ASSUME Coming' PROVE Attentive'
BY DEF Attentive

LEMMA WorksStep == ASSUME agent' # "idle" PROVE Attentive'
BY DEF Attentive

LEMMA NoNeedStep == ASSUME ~s'.awaiting, ~Relaying' PROVE Attentive'
BY DEF Attentive

(* The session is over.                                                     *)
LEMMA OverStep ==
  ASSUME AInv, UNCHANGED arms, ctx' \in Nat, Saved, running' = running \/ running' = Idle,
         s'.armed = FALSE, s'.id = s.id, s'.awaiting = FALSE, s'.answer = None, s'.promptGen = 0
  PROVE  Numbered' /\ Fresh' /\ Attentive'
<1>1. ~Relaying' BY DEF Relaying, AnswerWaits
<1>2. \A pcs : ~Mine(pcs)' BY DEF Mine, SameSession
<1>3. running'.pc # "idle" => running'.id \in Nat /\ running'.id <= arms
  BY DEF AInv, Numbered, Idle
<1>4. Fresh' BY <1>1, <1>2 DEF Fresh
<1>5. Attentive' BY <1>1, NoNeedStep
<1>6. Numbered' BY <1>2, <1>3 DEF AInv, Numbered, Saved
<1> QED BY <1>4, <1>5, <1>6

LEMMA UnarmedFields ==
  /\ DOMAIN Unarmed = Fields /\ Unarmed.armed = FALSE /\ Unarmed.awaiting = FALSE
  /\ Unarmed.answer = None /\ Unarmed.promptGen = 0 /\ Unarmed.judged = None
  /\ Unarmed.owed = FALSE /\ Unarmed.retry = 0
BY DEF Unarmed, Fields

(* disarm, from any of its callers.                                         *)
LEMMA DisarmAttends ==
  ASSUME AInv, NEW h, NEW b, Session(h), h.promptGen \in Nat, h.id = s.id,
         h.answer = None \/ h.answer = s.answer, Disarm(h, b), UNCHANGED arms, ctx' \in Nat,
         running' = running \/ running' = Idle
  PROVE  Numbered' /\ Fresh' /\ Attentive'
<1> DEFINE u == unparkIfParked(h)
<1>1. s' = [Unarmed EXCEPT !.id = h.id, !.timer = u.timer] /\ disk' = Record(u, FALSE, b)
  BY DEF Disarm, Disarmed
<1>2. u.answer = h.answer BY UnparkBears DEF Bears
<1> HIDE DEF u
<1>3. /\ s'.armed = FALSE /\ s'.awaiting = FALSE /\ s'.answer = None /\ s'.promptGen = 0 /\ s'.id = h.id
  <2> HIDE DEF Unarmed
  <2> QED BY <1>1, UnarmedFields DEF Fields
<1>4. disk'.answer = u.answer BY <1>1 DEF Record
<1>5. Saved /\ s'.id = s.id BY <1>2, <1>3, <1>4 DEF Saved
<1> QED BY <1>3, <1>5, OverStep

(* Nothing has changed in what the session waits for.                       *)
LEMMA SameNeedStep ==
  ASSUME AInv, Carries(s'), agent' = agent, latest' = latest,
         chain' = chain \/ \E e : e.kind # "limit_cleared" /\ chain' = Append(chain, e),
         running' = running \/ (running' = Idle /\ ~Mine(Passes)),
         Kept(s) => Kept(s')
  PROVE  Attentive'
<1>1. Coming => Coming'
  <2>1. CASE chain' = chain BY <2>1 DEF Coming
  <2>2. CASE \E e : e.kind # "limit_cleared" /\ chain' = Append(chain, e)
    <3>1. PICK e : e.kind # "limit_cleared" /\ chain' = Append(chain, e) BY <2>2
    <3>2. IsSequence(chain) BY DEF AInv, Outside
    <3> QED BY <3>1, <3>2, Appending DEF Coming
  <2> QED BY <2>1, <2>2
<1>2. Cleared(chain') => Cleared(chain)
  <2>1. CASE chain' = chain BY <2>1
  <2>2. CASE \E e : e.kind # "limit_cleared" /\ chain' = Append(chain, e)
    <3>1. PICK e : e.kind # "limit_cleared" /\ chain' = Append(chain, e) BY <2>2
    <3>2. IsSequence(chain) BY DEF AInv, Outside
    <3> QED BY <3>1, <3>2, Appending
  <2> QED BY <2>1, <2>2
<1>3. Relaying' => Relaying /\ s'.answer = s.answer BY StillRelaying
<1>4. \A pcs : pcs \subseteq Passes => (Mine(pcs)' <=> Mine(pcs)) /\ (Mine(pcs) => running' = running)
  <2>1. CASE running' = running BY <2>1 DEF Mine, SameSession, Carries
  <2>2. CASE running' = Idle /\ ~Mine(Passes)
    <3>1. running'.pc = "idle" BY <2>2 DEF Idle
    <3> QED BY <3>1, <2>2 DEF Mine, Passes
  <2> QED BY <2>1, <2>2
<1>5. /\ Mine({"context", "judge"})' <=> Mine({"context", "judge"})
      /\ Mine({"snapshots"})' <=> Mine({"snapshots"})
      /\ Mine({"judge"})' <=> Mine({"judge"})
      /\ Mine({"judge"}) => running' = running
  <2>1. {"context", "judge"} \subseteq Passes /\ {"snapshots"} \subseteq Passes /\ {"judge"} \subseteq Passes
    BY DEF Passes
  <2> QED BY <2>1, <1>4
<1>6. Relaying' /\ Unshown' => Unshown BY <1>3, <1>5 DEF Unshown
<1>7. s'.awaiting => s.awaiting BY DEF Carries
<1> QED BY <1>1, <1>2, <1>3, <1>5, <1>6, <1>7 DEF AInv, Attentive

-----------------------------------------------------------------------------
(* The user.                                                                *)

(* What every action starts from.                                           *)
LEMMA Standing ==
  ASSUME AInv
  PROVE  /\ Session(s) /\ s.promptGen \in Nat /\ ctx \in Nat /\ IsSequence(chain)
         /\ Bears(s, s) /\ Carries(s)
<1>1. Session(s) /\ s.promptGen \in Nat /\ ctx \in Nat /\ IsSequence(chain) BY DEF AInv, Inv, Numbered, Outside
<1>2. Bears(s, s) BY <1>1 DEF Bears
<1> QED BY <1>1, <1>2, BearsCarries

LEMMA TypedWorks ==
  ASSUME Typed PROVE agent' # "idle" /\ agent' \in {"working", "retrying", "cancelled", "unheard"}
BY DEF Typed, Prompted, Lost, Working

LEMMA ConfigureAnswers ==
  ASSUME AInv, NEW goal, NEW items, Configure(goal, items) PROVE Answering'
<1> DEFINE v == Given(items, s.backlog)
           h == [s EXCEPT !.judged = None, !.backlog = v]
<1>1. /\ s.armed /\ s' = h /\ Persist(h) /\ Seeded(goal, items)
      /\ UNCHANGED <<running, ctx, arms, latest, agent, open>>
  BY DEF Configure, UserActs
<1>2. Session(s) /\ s.promptGen \in Nat /\ ctx \in Nat /\ IsSequence(chain) BY Standing
<1> HIDE DEF v
<1>3. /\ h.answer = s.answer /\ h.awaiting = s.awaiting /\ h.judged = None /\ h.promptGen = s.promptGen
      /\ h.owed = s.owed /\ h.retry = s.retry /\ h.armed = s.armed /\ h.id = s.id
      /\ h.rows = s.rows /\ h.state = s.state
  BY <1>2 DEF Session, Fields
<1> HIDE DEF h
<1>4. Bears(s, h) BY <1>2, <1>3 DEF Bears
<1>5. Carries(s') /\ Saved BY <1>1, <1>3, <1>4, BearsCarries, PersistSaves
<1>6. Numbered' /\ Fresh' BY <1>1, <1>2, <1>5, CarryStep
<1>7. Seeding.kind # "limit_cleared" BY DEF Seeding
<1>8. chain' = chain \/ chain' = Append(chain, Seeding) BY <1>1 DEF Seeded
<1>9. chain' = chain \/ \E e : e.kind # "limit_cleared" /\ chain' = Append(chain, e) BY <1>7, <1>8
<1>10. Kept(s) => Kept(s') BY <1>1, <1>3 DEF Kept, Holding
<1>11. Attentive' BY <1>1, <1>5, <1>9, <1>10, SameNeedStep
<1>12. IsSequence(chain') BY <1>2, <1>8, Appending
<1>13. Outside' BY <1>1, <1>12 DEF AInv, Outside
<1> QED BY <1>6, <1>11, <1>13 DEF Answering

LEMMA UserDisarmsAnswers == ASSUME AInv, UserDisarms PROVE Answering'
<1>1. Disarm(s, FALSE) /\ UNCHANGED <<running, ctx, arms, chain, agent, open>> BY DEF UserDisarms, UserActs
<1>2. Session(s) /\ ctx' \in Nat /\ s.promptGen \in Nat BY <1>1, Standing
<1>3. Numbered' /\ Fresh' /\ Attentive' BY <1>1, <1>2, DisarmAttends
<1>4. Outside' BY <1>1 DEF AInv, Outside
<1> QED BY <1>3, <1>4 DEF Answering

LEMMA UserRepliesAnswers ==
  ASSUME AInv, NEW p, UserReplies(p) PROVE Answering'
<1> DEFINE h == Replied(s, p)
<1>1. /\ UNCHANGED <<running, ctx, arms, chain, latest>> /\ Typed
      /\ (s' = s /\ disk' = disk) \/ (s' = h /\ (Persist(h) \/ UNCHANGED disk))
  BY DEF UserReplies, UserActs
<1>2. Session(s) /\ s.promptGen \in Nat /\ ctx \in Nat /\ IsSequence(chain) /\ Carries(s) BY Standing
<1>3. Bears(s, h) BY <1>2, RepliedBears
<1>4. h.armed = s.armed /\ h.id = s.id BY <1>2, RepliedTakes
<1> HIDE DEF h
<1>5. Carries(h) BY <1>3, <1>4, BearsCarries
<1>6. Carries(s') /\ Saved BY <1>1, <1>2, <1>5, PersistSaves DEF Saved
<1>7. Numbered' /\ Fresh' BY <1>1, <1>2, <1>6, CarryStep
<1>8. agent' # "idle" /\ agent' \in {"working", "retrying", "cancelled", "unheard"}
  BY <1>1, TypedWorks
<1>9. Attentive' BY <1>8, WorksStep
<1>10. Outside' BY <1>1, <1>2, <1>8 DEF Outside
<1> QED BY <1>7, <1>9, <1>10 DEF Answering

LEMMA UserCancelsAnswers == ASSUME AInv, UserCancels PROVE Answering'
<1> DEFINE h == unparkIfParked(s)
<1>1. /\ UNCHANGED <<running, ctx, arms, chain, latest>> /\ agent' = "cancelled"
      /\ s' = h /\ (Persist(h) \/ UNCHANGED disk)
  BY DEF UserCancels, UserActs
<1>2. Session(s) /\ s.promptGen \in Nat /\ ctx \in Nat /\ IsSequence(chain) BY Standing
<1>3. Bears(s, h) /\ Gentle(s, h) BY <1>2, UnparkBears, UnparkGentle
<1> HIDE DEF h
<1>4. Carries(h) BY <1>3, BearsCarries DEF Gentle, Modest
<1>5. Carries(s') /\ Saved BY <1>1, <1>4, PersistSaves
<1>6. Numbered' /\ Fresh' BY <1>1, <1>2, <1>5, CarryStep
<1>7. Attentive' BY <1>1, WorksStep
<1>8. Outside' BY <1>1, <1>2 DEF Outside
<1> QED BY <1>6, <1>7, <1>8 DEF Answering

(* A new answer.                                                            *)
LEMMA AnswerStep ==
  ASSUME AInv, s.armed, NEW k \in DOMAIN s.rows, NEW how, s.rows[k].kind # "prompt",
         s' = parkAskAnswer(s, k, how), Persist(s'), UNCHANGED <<arms, ctx, running>>,
         how = "relay" => ~(s.owed /\ s.retry = 0)
  PROVE  /\ Numbered' /\ Fresh' /\ s'.awaiting = s.awaiting
         /\ how # "relay" => ~Relaying'
<1> DEFINE a == [n |-> acts, how |-> how, session |-> s.id]
<1>1. Session(s) /\ s.promptGen \in Nat /\ ctx \in Nat BY Standing
<1>2. /\ s'.answer = a /\ s'.judged = None /\ s'.promptGen = s.promptGen + 1 /\ s'.awaiting = s.awaiting
      /\ s'.owed = s.owed /\ s'.retry = s.retry
  BY <1>1, AnswerFields
<1>3. s'.armed = s.armed /\ s'.id = s.id BY <1>1, AnswerGentle DEF Gentle, Modest
<1>4. a.session = s.id /\ a.how = how OBVIOUS
<1> HIDE DEF a
<1>5. disk'.answer = s'.answer BY DEF Persist, Record
<1>6. s'.promptGen \in Nat /\ s.promptGen < s'.promptGen BY <1>1, <1>2
<1>7. \A pcs : Mine(pcs)' <=> Mine(pcs) BY <1>3 DEF Mine, SameSession
<1>8. ASSUME Mine({"context", "judge"}) PROVE running.promptGen \in Nat /\ running.promptGen < s'.promptGen
  <2>1. running.promptGen \in Nat /\ running.promptGen <= s.promptGen BY <1>8 DEF AInv, Numbered
  <2> QED BY <2>1, <1>1, <1>6
<1>9. Mine({"judge"}) => Mine({"context", "judge"}) BY DEF Mine
<1>10. s.id \in Nat /\ s.id <= arms /\ arms \in Nat BY DEF AInv, Numbered
<1>11. s'.answer.session \in Nat /\ s'.answer.session <= arms' /\ s'.answer.how = how BY <1>2, <1>4, <1>10
<1>12. running'.pc # "idle" => running'.id \in Nat /\ running'.id <= arms' BY DEF AInv, Numbered
<1>13. Mine({"context", "judge"})' => running'.promptGen \in Nat /\ running'.promptGen <= s'.promptGen
  BY <1>7, <1>8, <1>6
<1>14. Numbered' BY <1>1, <1>3, <1>5, <1>6, <1>10, <1>11, <1>12, <1>13 DEF Numbered
<1>15. Mine(Passes)' => ~s'.awaiting BY <1>2, <1>7 DEF AInv, Fresh
<1>16. Mine({"judge"})' => running'.promptGen < s'.promptGen BY <1>7, <1>8, <1>9
<1>17. Relaying' => how = "relay" BY <1>11 DEF Relaying, AnswerWaits
<1>18. Fresh' BY <1>2, <1>3, <1>15, <1>16, <1>17 DEF Fresh
<1> QED BY <1>2, <1>14, <1>17, <1>18

LEMMA AnswerAskAnswers ==
  ASSUME AInv, NEW k \in DOMAIN s.rows, AnswerAsk(k) PROVE Answering'
<1> DEFINE late == s.owed /\ s.retry = 0
           how == IF late THEN "late" ELSE "relay"
           h == parkAskAnswer(s, k, how)
<1>1. /\ s.rows[k].kind = "ask" /\ s' = h /\ Persist(h) /\ maybeRelayNow(h)
      /\ UNCHANGED <<running, ctx, arms, agent, open>>
  BY DEF AnswerAsk, UserActs
<1>2. s.armed BY RowMeansArmed DEF AInv
<1>3. how = "relay" => ~(s.owed /\ s.retry = 0) OBVIOUS
<1> HIDE DEF how
<1>4. s' = parkAskAnswer(s, k, how) /\ Persist(s') BY <1>1
<1>5. Numbered' /\ Fresh' /\ s'.awaiting = s.awaiting BY <1>1, <1>2, <1>3, <1>4, AnswerStep
<1> HIDE DEF h
<1>6. IsSequence(chain) BY Standing
<1>7. CASE h.awaiting
  <2>1. UNCHANGED <<chain, latest>> BY <1>1, <1>7 DEF maybeRelayNow
  <2>2. agent = "idle" => Coming BY <1>1, <1>5, <1>7 DEF AInv, Attentive
  <2>3. agent' = "idle" => Coming' BY <2>1, <2>2, <1>1 DEF Coming
  <2>4. Attentive' BY <2>3, ComesStep, WorksStep
  <2>5. Outside' BY <2>1, <1>1 DEF AInv, Outside
  <2> QED BY <1>5, <2>4, <2>5 DEF Answering
<1>8. CASE ~h.awaiting
  <2>1. chain' = Append(chain, Turn(latest')) BY <1>1, <1>8 DEF maybeRelayNow, handleTurn
  <2>2. Serves(Turn(latest'), latest') BY DEF Serves
  <2>3. Coming' /\ IsSequence(chain') BY <2>1, <2>2, <1>6, Appending DEF Coming
  <2>4. Outside' BY <2>3, <1>1 DEF AInv, Outside
  <2> QED BY <1>5, <2>3, <2>4, ComesStep DEF Answering
<1> QED BY <1>7, <1>8

LEMMA AnswerDeliveredAnswers ==
  ASSUME AInv, NEW k \in DOMAIN s.rows, AnswerDelivered(k) PROVE Answering'
<1>1. /\ s.rows[k].kind \in {"question", "promoted"} /\ s' = parkAskAnswer(s, k, "delivered") /\ Persist(s')
      /\ UNCHANGED <<running, ctx, arms, chain, open>> /\ Typed
  BY DEF AnswerDelivered, UserActs
<1>2. s.armed BY RowMeansArmed DEF AInv
<1>3. Numbered' /\ Fresh' BY <1>1, <1>2, AnswerStep
<1>4. agent' # "idle" /\ agent' \in {"working", "retrying", "cancelled", "unheard"}
  BY <1>1, TypedWorks
<1>5. IsSequence(chain) BY Standing
<1>6. Outside' BY <1>1, <1>4, <1>5 DEF Outside
<1> QED BY <1>3, <1>4, <1>6, WorksStep DEF Answering

LEMMA DismissAnswers ==
  ASSUME AInv, NEW k \in DOMAIN s.rows, Dismiss(k) PROVE Answering'
<1> DEFINE q == RemoveAt(s.rows, k)
           read == [s EXCEPT !.rows = q]
           h == IF s.rows[k].kind = "ask" THEN parkAskAnswer(s, k, "declined")
                ELSE IF s.state = "parked" THEN read ELSE Rested(read)
<1>1. /\ s.rows[k].kind \in {"report", "ask"} /\ s' = h /\ Persist(h)
      /\ UNCHANGED <<running, ctx, arms, chain, latest, agent, open>>
  BY DEF Dismiss, UserActs
<1>2. s.armed BY RowMeansArmed DEF AInv
<1>3. Session(s) /\ s.promptGen \in Nat /\ ctx \in Nat /\ IsSequence(chain) BY Standing
<1>4. Outside' BY <1>1 DEF AInv, Outside
<1>5. CASE s.rows[k].kind = "ask"
  <2>1. s' = parkAskAnswer(s, k, "declined") /\ Persist(s') BY <1>1, <1>5
  <2>2. Numbered' /\ Fresh' /\ s'.awaiting = s.awaiting /\ ~Relaying' BY <2>1, <1>1, <1>2, <1>5, AnswerStep
  <2>3. Coming => Coming' BY <1>1 DEF Coming
  <2>4. Attentive' BY <2>2, <2>3, <1>1 DEF AInv, Attentive
  <2> QED BY <1>4, <2>2, <2>4 DEF Answering
<1>6. CASE s.rows[k].kind = "report"
  <2>1. /\ q \in Seq(AnyRow)
        /\ \A i \in DOMAIN s.rows : i # k => \E j \in DOMAIN q : q[j] = s.rows[i]
    <3>1. s.rows \in Seq(AnyRow) BY <1>3 DEF Session
    <3> QED BY <3>1, RemoveMembers
  <2> HIDE DEF q
  <2>2. /\ Session(read) /\ Silent(s, read) /\ read.rows = q /\ read.armed = s.armed /\ read.id = s.id
        /\ read.state = s.state
    <3>1. Silent(s, read) BY <1>3, ExceptSilent
    <3>2. /\ DOMAIN read = Fields /\ read.rows = q /\ read.armed = s.armed /\ read.id = s.id
          /\ read.state = s.state /\ read.timer = s.timer /\ read.selfResuming = s.selfResuming
      BY <1>3 DEF Session, Fields
    <3>3. Session(read)
      <4> HIDE DEF read
      <4> QED BY <3>2, <2>1, <1>3 DEF Session
    <3> QED BY <3>1, <3>2, <3>3
  <2> HIDE DEF read
  <2>3. Silent(read, Rested(read)) /\ Gentle(read, Rested(read)) /\ Rested(read).rows = read.rows
    BY <2>2, RestedSilent, RestedGentle
  <2>4. h = IF s.state = "parked" THEN read ELSE Rested(read) BY <1>6
  <2> HIDE DEF h
  <2>5. Silent(s, h) /\ h.armed = s.armed /\ h.id = s.id /\ h.rows = q /\ (s.state = "parked" => h.state = "parked")
    BY <2>2, <2>3, <2>4 DEF Silent, Gentle, Modest
  <2>6. Carries(s') /\ Saved BY <1>1, <1>3, <2>5, SilentBears, BearsCarries, PersistSaves
  <2>7. Holding(s) => Holding(s')
    <3>1. SUFFICES ASSUME NEW i \in DOMAIN s.rows, s.rows[i].kind \in {"question", "ask", "promoted"}
                   PROVE  Holding(s')
      BY DEF Holding
    <3>2. i # k BY <1>6, <3>1
    <3>3. PICK j \in DOMAIN q : q[j] = s.rows[i] BY <3>2, <2>1
    <3> QED BY <3>1, <3>3, <2>5, <1>1 DEF Holding
  <2>8. Kept(s) => Kept(s') BY <2>5, <2>7, <1>1 DEF Kept
  <2>9. Attentive' BY <1>1, <2>6, <2>8, SameNeedStep
  <2>10. Numbered' /\ Fresh' BY <1>1, <1>3, <2>6, CarryStep
  <2> QED BY <1>4, <2>9, <2>10 DEF Answering
<1> QED BY <1>1, <1>5, <1>6

LEMMA InstructAnswers == ASSUME AInv, Instruct PROVE Answering'
<1> DEFINE kept == Only(s.rows, {r \in ToSet(s.rows) : r.kind \in {"ask", "report", "prompt"}})
           superseded == kept # s.rows
           g == [s EXCEPT !.judged = None, !.promptGen = @ + 1, !.rows = kept]
           h == IF superseded /\ s.state # "parked" THEN Rested(g) ELSE g
           wakes == /\ h.state # "parked"
                    /\ superseded \/ Rows(h, {"report"}) # {}
                    /\ ~h.awaiting
<1>1. /\ s' = h /\ Persist(h) /\ UNCHANGED <<running, ctx, arms, agent, open>>
      /\ IF ~wakes THEN chain' = Append(chain, Extraction) /\ UNCHANGED latest
         ELSE chain' = chain \o <<Extraction, Turn(latest')>>
  BY DEF Instruct, UserActs
<1>2. Session(s) /\ s.promptGen \in Nat /\ ctx \in Nat /\ IsSequence(chain) BY Standing
<1>3. kept \in Seq(AnyRow)
  <2>1. s.rows \in Seq(AnyRow) BY <1>2 DEF Session
  <2> QED BY <2>1, OnlyIsSeq
<1>4. superseded = (kept # s.rows) OBVIOUS
<1> HIDE DEF kept, superseded
<1>5. /\ DOMAIN g = Fields /\ g.armed = s.armed /\ g.id = s.id /\ g.timer = s.timer /\ g.selfResuming = s.selfResuming
      /\ g.rows = kept /\ g.state = s.state /\ g.answer = s.answer /\ g.awaiting = s.awaiting /\ g.judged = None
      /\ g.promptGen = s.promptGen + 1 /\ g.owed = s.owed /\ g.retry = s.retry
  BY <1>2 DEF Session, Fields
<1> HIDE DEF g
<1>6. Session(g) /\ g.promptGen \in Nat /\ s.promptGen <= g.promptGen BY <1>2, <1>3, <1>5 DEF Session
<1>7. Bears(s, g) BY <1>5, <1>6 DEF Bears
<1>8. Silent(g, Rested(g)) /\ Gentle(g, Rested(g)) /\ Rested(g).rows = g.rows BY <1>6, RestedSilent, RestedGentle
<1>9. Silent(g, h) /\ h.armed = g.armed /\ h.id = g.id /\ h.rows = kept
      /\ (s.state = "parked" \/ ~superseded => h.state = s.state)
  BY <1>5, <1>8 DEF Silent, Gentle, Modest
<1>10. wakes = (h.state # "parked" /\ (superseded \/ Rows(h, {"report"}) # {}) /\ ~h.awaiting) OBVIOUS
<1> HIDE DEF h, wakes
<1>11. Bears(s, h) /\ h.awaiting = s.awaiting BY <1>2, <1>5, <1>6, <1>7, <1>9, SilentBears, BearsTrans DEF Silent
<1>12. Carries(s') /\ Saved BY <1>1, <1>5, <1>9, <1>11, BearsCarries, PersistSaves
<1>13. Numbered' /\ Fresh' BY <1>1, <1>2, <1>12, CarryStep
<1>14. Extraction.kind # "limit_cleared" BY DEF Extraction
<1>15. CASE wakes
  <2> DEFINE c == Append(chain, Extraction)
  <2>1. chain' = Append(c, Turn(latest')) BY <1>1, <1>2, <1>15, AppendTwo
  <2>2. IsSequence(c) BY <1>2, Appending
  <2> HIDE DEF c
  <2>3. Serves(Turn(latest'), latest') BY DEF Serves
  <2>4. Coming' /\ IsSequence(chain') BY <2>1, <2>2, <2>3, Appending DEF Coming
  <2>5. Outside' BY <2>4, <1>1 DEF AInv, Outside
  <2> QED BY <1>13, <2>4, <2>5, ComesStep DEF Answering
<1>16. CASE ~wakes
  <2>1. chain' = Append(chain, Extraction) /\ latest' = latest BY <1>1, <1>16
  <2>2. IsSequence(chain') /\ (Coming => Coming') BY <2>1, <1>2, <1>14, Appending DEF Coming
  <2>3. Outside' BY <2>2, <1>1 DEF AInv, Outside
  <2>4. CASE s.awaiting
    <3>1. agent = "idle" => Coming BY <2>4 DEF AInv, Attentive
    <3>2. Attentive' BY <3>1, <2>2, <1>1, ComesStep, WorksStep
    <3> QED BY <3>2, <2>3, <1>13 DEF Answering
  <2>5. CASE s.state = "parked" \/ ~superseded
    <3>1. Kept(s) => Kept(s')
      <4>1. CASE s.state = "parked" BY <4>1, <1>9, <1>1 DEF Kept
      <4>2. CASE ~superseded BY <4>2, <1>4, <1>9, <1>1 DEF Kept, Holding
      <4> QED BY <4>1, <4>2, <2>5
    <3>2. chain' = chain \/ \E e : e.kind # "limit_cleared" /\ chain' = Append(chain, e) BY <2>1, <1>14
    <3>3. Attentive' BY <3>1, <3>2, <2>1, <1>1, <1>12, SameNeedStep
    <3> QED BY <3>3, <2>3, <1>13 DEF Answering
  <2>6. CASE ~s.awaiting /\ s.state # "parked" /\ superseded
    <3>1. h.state # "parked"
      <4>1. h = Rested(g) BY <2>6 DEF h
      <4>2. h.state \in Resting BY <4>1, <1>6, RestedGentle
      <4> QED BY <4>2 DEF Resting
    <3>2. wakes BY <3>1, <2>6, <1>10, <1>11
    <3> QED BY <3>2, <1>16
  <2> QED BY <2>4, <2>5, <2>6
<1> QED BY <1>15, <1>16

LEMMA ArmAnswers ==
  ASSUME AInv, NEW goal, NEW items, NEW past, Arm(goal, items, past) PROVE Answering'
<1> DEFINE carried == Only(disk.rows, {r \in ToSet(disk.rows) : r.kind # "prompt"})
           fresh == [Unarmed EXCEPT !.armed = TRUE, !.id = arms + 1, !.timer = s.timer]
           v == IF \E i \in Item : Given(items, disk.backlog)[i] \in {"running", "stuck"}
                THEN disk.reasks ELSE 0
           w == Given(items, disk.backlog)
           full == [fresh EXCEPT !.rows = carried, !.backlog = w,
                     !.transient = disk.transient, !.answer = disk.answer, !.reasks = v]
           loaded == Rested(full)
           h == IF disk.armed \/ disk.suspended THEN rehydratePark(loaded, disk, past)
                ELSE [fresh EXCEPT !.backlog = Given(items, @)]
<1>1. /\ s' = h /\ Persist(h) /\ arms' = arms + 1 /\ Seeded(goal, items)
      /\ UNCHANGED <<agent, open, running, latest, ctx>>
  BY DEF Arm, UserActs
<1>2. ctx \in Nat /\ IsSequence(chain) /\ arms \in Nat BY Standing DEF AInv, Numbered
<1> HIDE DEF carried, v, w
<1>4. /\ fresh.armed = TRUE /\ fresh.id = arms + 1 /\ DOMAIN fresh = Fields
      /\ fresh.awaiting = FALSE /\ fresh.answer = None /\ fresh.promptGen = 0
  <2> HIDE DEF Unarmed
  <2> QED BY UnarmedFields DEF Fields
<1> HIDE DEF fresh
<1>5. /\ full.armed = TRUE /\ full.id = arms + 1 /\ DOMAIN full = Fields
      /\ full.awaiting = FALSE /\ full.answer = disk.answer /\ full.promptGen = 0
  BY <1>4 DEF Fields
<1> HIDE DEF full
<1>6. /\ loaded.armed = TRUE /\ loaded.id = arms + 1 /\ DOMAIN loaded = Fields
      /\ loaded.awaiting = FALSE /\ loaded.answer = disk.answer /\ loaded.promptGen = 0
  <2> HIDE DEF restingState
  <2> QED BY <1>5 DEF Rested, Fields
<1> HIDE DEF loaded
<1>7. /\ h.armed = TRUE /\ h.id = arms + 1 /\ h.awaiting = FALSE /\ h.promptGen = 0
      /\ h.answer = None \/ h.answer = disk.answer
  <2>1. CASE ~(disk.armed \/ disk.suspended)
    <3> DEFINE b == Given(items, fresh.backlog)
    <3>1. h = [fresh EXCEPT !.backlog = b] BY <2>1
    <3> HIDE DEF b, h
    <3> QED BY <3>1, <1>4 DEF Fields
  <2>2. CASE disk.armed \/ disk.suspended
    <3>1. \/ h = loaded \/ h = [loaded EXCEPT !.timer = FALSE]
          \/ h = [loaded EXCEPT !.state = "parked", !.parkKind = disk.parkKind, !.owed = disk.owed, !.timer = TRUE]
      BY <2>2 DEF rehydratePark
    <3> HIDE DEF h
    <3> QED BY <3>1, <1>6 DEF Fields
  <2> QED BY <2>1, <2>2
<1> HIDE DEF h
<1>8. disk'.answer = h.answer BY <1>1 DEF Persist, Record
<1>9. h.answer # None => h.answer.session \in Nat /\ h.answer.session <= arms BY <1>7 DEF AInv, Numbered
<1>10. ~Relaying'
  <2>1. SUFFICES ASSUME Relaying' PROVE FALSE OBVIOUS
  <2>2. h.answer # None /\ h.answer.session = arms + 1 BY <2>1, <1>1, <1>7 DEF Relaying, AnswerWaits
  <2> QED BY <2>2, <1>9, <1>2
<1>11. running.pc # "idle" => running.id \in Nat /\ running.id <= arms BY DEF AInv, Numbered
<1>12. ASSUME NEW pcs, "idle" \notin pcs, Mine(pcs)' PROVE FALSE
  <2>1. running.pc # "idle" /\ running.id = arms + 1 BY <1>12, <1>1, <1>7 DEF Mine, SameSession
  <2> QED BY <2>1, <1>11, <1>2
<1>13. ~Mine({"context", "judge"})' /\ ~Mine({"judge"})' /\ ~Mine(Passes)' BY <1>12 DEF Passes
<1>14. arms' \in Nat /\ s'.id \in Nat /\ s'.id <= arms' /\ s'.promptGen \in Nat BY <1>1, <1>2, <1>7
<1>15. running'.pc # "idle" => running'.id \in Nat /\ running'.id <= arms' BY <1>1, <1>2, <1>11
<1>16. h.answer # None => h.answer.session \in Nat /\ h.answer.session <= arms' BY <1>1, <1>2, <1>9
<1>17. Numbered' BY <1>1, <1>2, <1>8, <1>13, <1>14, <1>15, <1>16 DEF Numbered
<1>18. Fresh' BY <1>1, <1>7, <1>10, <1>13 DEF Fresh
<1>19. Attentive' BY <1>1, <1>7, <1>10, NoNeedStep
<1>20. IsSequence(chain') BY <1>1, <1>2, Appending DEF Seeded
<1>21. Outside' BY <1>1, <1>20 DEF AInv, Outside
<1> QED BY <1>17, <1>18, <1>19, <1>21 DEF Answering

LEMMA UserAnswers == ASSUME AInv, User PROVE Answering'
BY ArmAnswers, ConfigureAnswers, UserDisarmsAnswers, UserCancelsAnswers, UserRepliesAnswers, InstructAnswers,
   AnswerAskAnswers, AnswerDeliveredAnswers, DismissAnswers DEF User

-----------------------------------------------------------------------------
(* The agent.                                                               *)

LEMMA AgentAnswers == ASSUME AInv, Agent PROVE Answering'
<1>0. /\ Session(s) /\ s.promptGen \in Nat /\ ctx \in Nat /\ IsSequence(chain) /\ Carries(s)
      /\ agent \in {"idle", "working", "retrying", "cancelled", "unheard"} /\ (open # {} => agent # "idle")
  BY Standing DEF AInv, Outside
<1>1. ASSUME NEW p \in Prompt, AgentAsks(p) PROVE Answering'
  <2>1. UNCHANGED <<s, disk, running, ctx, arms, agent>> /\ agent = "working" /\ chain' = Append(chain, Asks(p))
    BY <1>1 DEF AgentAsks, AgentActs
  <2>2. Carries(s') /\ Saved BY <2>1, <1>0 DEF Saved
  <2>3. Numbered' /\ Fresh' BY <2>1, <2>2, <1>0, CarryStep
  <2>4. Outside' BY <2>1, <1>0, Appending DEF Outside
  <2> QED BY <2>1, <2>3, <2>4, WorksStep DEF Answering
<1>2. ASSUME NEW p \in Prompt, AgentWithdraws(p) PROVE Answering'
  <2> DEFINE h == Retracted(s, p)
  <2>1. /\ UNCHANGED <<running, ctx, arms, agent, chain>> /\ p \in open
        /\ (s' = s /\ disk' = disk) \/ (s' = h /\ (Persist(h) \/ UNCHANGED disk))
    BY <1>2 DEF AgentWithdraws, AgentActs, AfterRetraction
  <2>2. Bears(s, h) /\ h.armed = s.armed /\ h.id = s.id BY <1>0, <1>2, RetractedBears, RetractedTakes
  <2> HIDE DEF h
  <2>3. Carries(h) BY <2>2, BearsCarries
  <2>4. Carries(s') /\ Saved BY <2>1, <2>3, <1>0, PersistSaves DEF Saved
  <2>5. Numbered' /\ Fresh' BY <2>1, <2>4, <1>0, CarryStep
  <2>6. agent' # "idle" /\ agent' = agent BY <2>1, <1>0
  <2>7. Outside' BY <2>1, <2>6, <1>0 DEF Outside
  <2> QED BY <2>5, <2>6, <2>7, WorksStep DEF Answering
<1>3. CASE AgentStops
  <2> DEFINE h == Retracted(s, None)
  <2>1. /\ UNCHANGED <<running, arms>> /\ ctx' = ctx + 1 /\ agent' = "idle" /\ open' = {}
        /\ chain' = Append(chain, Turn(latest'))
        /\ (s' = s /\ disk' = disk) \/ (s' = h /\ (Persist(h) \/ UNCHANGED disk))
    BY <1>3 DEF AgentStops, AgentActs, AfterRetraction, handleTurn
  <2>2. Bears(s, h) /\ h.armed = s.armed /\ h.id = s.id BY <1>0, RetractedBears, RetractedTakes
  <2> HIDE DEF h
  <2>3. Carries(h) BY <2>2, BearsCarries
  <2>4. Carries(s') /\ Saved BY <2>1, <2>3, <1>0, PersistSaves DEF Saved
  <2>5. ctx' \in Nat BY <2>1, <1>0
  <2>6. Numbered' /\ Fresh' BY <2>1, <2>4, <2>5, CarryStep
  <2>7. Serves(Turn(latest'), latest') BY DEF Serves
  <2>8. Coming' /\ IsSequence(chain') BY <2>1, <2>7, <1>0, Appending DEF Coming
  <2>9. Outside' BY <2>1, <2>8 DEF Outside
  <2> QED BY <2>6, <2>8, <2>9, ComesStep DEF Answering
<1>7. CASE AgentAwaitsInput
  <2>1. /\ UNCHANGED <<s, disk, running, ctx, arms, open>> /\ open = {} /\ agent' = "idle"
        /\ chain' = Append(chain, Turn(latest'))
    BY <1>7 DEF AgentAwaitsInput, AgentActs, handleTurn
  <2>2. Carries(s') /\ Saved BY <2>1, <1>0 DEF Saved
  <2>3. Numbered' /\ Fresh' BY <2>1, <2>2, <1>0, CarryStep
  <2>4. Serves(Turn(latest'), latest') BY DEF Serves
  <2>5. Coming' /\ IsSequence(chain') BY <2>1, <2>4, <1>0, Appending DEF Coming
  <2>6. Outside' BY <2>1, <2>5 DEF Outside
  <2> QED BY <2>3, <2>5, <2>6, ComesStep DEF Answering
<1>4. CASE TerminalExits
  <2>1. Disarm(s, TRUE) /\ UNCHANGED <<running, ctx, arms, chain>> /\ agent' = "idle" /\ open' = {}
    BY <1>4 DEF TerminalExits
  <2>2. ctx' \in Nat BY <2>1, <1>0
  <2>3. Numbered' /\ Fresh' /\ Attentive' BY <2>1, <2>2, <1>0, DisarmAttends
  <2>4. Outside' BY <2>1, <1>0 DEF Outside
  <2> QED BY <2>3, <2>4 DEF Answering
<1>5. CASE OthersPrompt
  <2>1. UNCHANGED <<s, disk, running, ctx, arms, chain>> /\ agent' = "working" BY <1>5 DEF OthersPrompt, engine
  <2>2. Carries(s') /\ Saved BY <2>1, <1>0 DEF Saved
  <2>3. Numbered' /\ Fresh' BY <2>1, <2>2, <1>0, CarryStep
  <2>4. Outside' BY <2>1, <1>0 DEF Outside
  <2> QED BY <2>1, <2>3, <2>4, WorksStep DEF Answering
<1>6. ASSUME NEW kind \in Lifecycle, AgentReports(kind) PROVE Answering'
  <2> DEFINE report == [kind |-> kind, of |-> 0]
             gone == kind \in {"limit_hit", "turn_failed"}
  <2>1. /\ UNCHANGED <<s, disk, running, ctx, arms, open>> /\ (gone => open = {})
        /\ agent' = CASE kind = "limit_hit_self" -> "retrying"
                      [] kind = "limit_cleared" -> "working"
                      [] OTHER -> "idle"
        /\ IF gone /\ agent = "retrying" THEN chain' = chain \o <<report, Turn(latest')>>
           ELSE chain' = Append(chain, report)
    BY <1>6 DEF AgentReports, AgentActs
  <2>2. Carries(s') /\ Saved BY <2>1, <1>0 DEF Saved
  <2>3. Numbered' /\ Fresh' BY <2>1, <2>2, <1>0, CarryStep
  <2>4. report.kind = kind OBVIOUS
  <2>5. IsSequence(Append(chain, report)) BY <1>0, Appending
  <2>6. CASE gone
    <3>1. open' = {} /\ agent' = "idle" BY <2>1, <2>6
    <3>2. Coming' /\ IsSequence(chain')
      <4> HIDE DEF report
      <4>1. CASE agent = "retrying"
        <5> DEFINE c == Append(chain, report)
        <5>1. chain' = Append(c, Turn(latest')) BY <2>1, <2>6, <4>1, <1>0, AppendTwo
        <5>2. Serves(Turn(latest'), latest') BY DEF Serves
        <5>3. IsSequence(c) BY <2>5
        <5> HIDE DEF c
        <5> QED BY <5>1, <5>2, <5>3, Appending DEF Coming
      <4>2. CASE agent # "retrying"
        <5>1. chain' = Append(chain, report) BY <2>1, <4>2
        <5>2. Serves(report, latest') BY <2>4, <2>6 DEF Serves
        <5> QED BY <5>1, <5>2, <1>0, Appending DEF Coming
      <4> QED BY <4>1, <4>2
    <3>3. Outside' BY <3>1, <3>2 DEF Outside
    <3> QED BY <2>3, <3>2, <3>3, ComesStep DEF Answering
  <2>7. CASE ~gone
    <3>1. agent' \in {"retrying", "working"} BY <2>1, <2>7, <1>6 DEF Lifecycle
    <3>2. IsSequence(chain') BY <2>1, <2>5, <2>7
    <3>3. Outside' BY <3>1, <3>2 DEF Outside
    <3>4. agent' # "idle" BY <3>1
    <3> QED BY <2>3, <3>3, <3>4, WorksStep DEF Answering
  <2> QED BY <2>6, <2>7
<1> QED BY <1>1, <1>2, <1>3, <1>4, <1>5, <1>6, <1>7 DEF Agent

-----------------------------------------------------------------------------
(* The chain.                                                               *)

(* An entry that comes to its turn and leaves what an answer waits for.     *)
LEMMA TurnStep ==
  ASSUME AInv, chain # <<>>, chain' = Tail(chain), latest' = latest, agent' = agent,
         Carries(s'), ~s'.awaiting, running'.pc \notin {"judge", "snapshots"},
         agent = "idle" /\ Relaying' => Mine({"context", "judge"})' \/ Kept(s')
  PROVE  Attentive'
<1>1. Relaying' => Relaying BY StillRelaying
<1>2. IsSequence(chain) BY Standing
<1>3. ASSUME agent = "idle", Relaying', Cleared(chain') PROVE Coming'
  <2>1. Cleared(chain) BY <1>2, <1>3, TailOf
  <2>2. Awaits(chain, latest) BY <2>1, <1>1, <1>3 DEF AInv, Attentive, Coming
  <2> QED BY <2>2, <1>2, <1>3, TailOf DEF Coming
<1>4. ~Unshown' BY DEF Unshown, Mine
<1> QED BY <1>3, <1>4 DEF Attentive

(* An entry that is none of those an answer waits for.                      *)
LEMMA SkipStep ==
  ASSUME AInv, running = Idle, chain # <<>>, chain' = Tail(chain), UNCHANGED <<s, latest, agent>>,
         ~Serves(Head(chain), latest) \/ ~s.armed, running'.pc \notin Passes
  PROVE  Attentive'
<1>1. IsSequence(chain) BY Standing
<1>2. CASE ~s.armed
  <2>1. ~Relaying' /\ ~s'.awaiting BY <1>2 DEF Relaying, AnswerWaits, AInv, Fresh
  <2> QED BY <2>1, NoNeedStep
<1>3. CASE ~Serves(Head(chain), latest)
  <2>1. Coming => Coming' BY <1>1, <1>3, TailOf DEF Coming
  <2>2. Cleared(chain') => Cleared(chain) BY <1>1, TailOf
  <2>3. Relaying' <=> Relaying BY DEF Relaying, AnswerWaits
  <2>4. ~Mine({"context", "judge"}) /\ ~Unshown' BY DEF Idle, Mine, Unshown, Passes
  <2>5. Kept(s) => Kept(s') OBVIOUS
  <2> QED BY <2>1, <2>2, <2>3, <2>4, <2>5 DEF AInv, Attentive
<1> QED BY <1>2, <1>3

(* What every entry of the chain begins with.                               *)
LEMMA EnteredCarries ==
  ASSUME AInv, Starting, s.armed
  PROVE  /\ Session(Entered(s)) /\ Carries(Entered(s)) /\ ~Entered(s).awaiting
         /\ Gentle(s, Entered(s)) /\ Entered(s).state = s.state /\ Entered(s).promptGen \in Nat
         /\ Holding(s) => Holding(Entered(s))
<1>1. Session(s) /\ s.promptGen \in Nat BY Standing
<1>2. Gentle(s, Entered(s)) BY <1>1, EnteredGentle
<1>3. /\ Bears(s, Entered(s)) /\ ~Entered(s).awaiting /\ Session(Entered(s)) /\ Entered(s).state = s.state
      /\ Entered(s).promptGen = s.promptGen /\ (Holding(s) => Holding(Entered(s)))
  BY <1>1, EnteredBears
<1>4. Entered(s).armed = s.armed /\ Entered(s).id = s.id BY <1>2 DEF Gentle, Modest
<1>5. Carries(Entered(s)) BY <1>3, <1>4, BearsCarries
<1> QED BY <1>1, <1>2, <1>3, <1>5

LEMMA SaveRowsSaves == ASSUME NEW h, Carries(h), SaveRows(h) PROVE Saved
BY PersistSaves DEF SaveRows

LEMMA RunningIsIdle == ASSUME Starting PROVE running = Idle /\ running.pc = "idle" /\ chain # <<>> /\ UNCHANGED arms
BY DEF Starting, Idle

(* The end of a limit: the pause that is owed comes, or one was coming.     *)
LEMMA LimitClearedAnswers == ASSUME AInv, LimitCleared PROVE Answering'
<1> DEFINE h == Entered(s)
           u == unparkIfParked(h)
           again == h.state = "parked" /\ h.retry # 0
<1>1. /\ Starting /\ s.armed /\ s' = u /\ (Persist(u) \/ SaveRows(h)) /\ Head(chain).kind = "limit_cleared"
      /\ chain' = IF again THEN Append(Tail(chain), Turn(h.retry)) ELSE Tail(chain)
      /\ latest' = IF again THEN h.retry ELSE latest
      /\ UNCHANGED <<running, agent, open, ctx>>
  BY DEF LimitCleared, Starts, world
<1>2. Session(h) /\ Carries(h) /\ ~h.awaiting /\ Gentle(s, h) /\ h.promptGen \in Nat BY <1>1, EnteredCarries
<1>3. running = Idle /\ chain # <<>> /\ UNCHANGED arms BY <1>1, RunningIsIdle
<1>4. ctx \in Nat /\ IsSequence(chain) BY Standing
<1> HIDE DEF h
<1>5. Bears(h, u) /\ u.awaiting = h.awaiting /\ Gentle(h, u) BY <1>2, UnparkBears, UnparkGentle
<1> HIDE DEF u
<1>6. Carries(u) BY <1>2, <1>5, CarriesBears DEF Gentle, Modest
<1>7. Saved BY <1>1, <1>2, <1>6, PersistSaves, SaveRowsSaves
<1>8. Carries(s') /\ ~s'.awaiting BY <1>1, <1>2, <1>5, <1>6
<1>9. Numbered' /\ Fresh' BY <1>1, <1>3, <1>4, <1>7, <1>8, CarryStep
<1>10. IsSequence(Tail(chain)) BY <1>3, <1>4, TailOf
<1>11. CASE again
  <2>1. chain' = Append(Tail(chain), Turn(latest')) BY <1>1, <1>11
  <2>2. Serves(Turn(latest'), latest') BY DEF Serves
  <2>3. Coming' /\ IsSequence(chain') BY <2>1, <2>2, <1>10, Appending DEF Coming
  <2>4. Outside' BY <2>3, <1>1 DEF AInv, Outside
  <2> QED BY <1>9, <2>3, <2>4, ComesStep DEF Answering
<1>12. CASE ~again
  <2>1. chain' = Tail(chain) /\ latest' = latest BY <1>1, <1>12
  <2>2. Outside' BY <2>1, <1>1, <1>10 DEF AInv, Outside
  <2>3. ~Serves(Head(chain), latest) BY <1>1, ServesIsNotClearing
  <2>4. Coming => Coming' BY <2>1, <2>3, <1>3, <1>4, TailOf DEF Coming
  <2>5. Cleared(chain)
    <3>1. PICK S : chain \in Seq(S) BY <1>4 DEF IsSequence
    <3>2. 1 \in DOMAIN chain /\ Head(chain) = chain[1] BY <3>1, <1>3
    <3> QED BY <3>2, <1>1 DEF Cleared
  <2>6. Relaying' => Relaying BY <1>8, StillRelaying
  <2>7. agent = "idle" /\ Relaying' => Coming' BY <2>4, <2>5, <2>6 DEF AInv, Attentive
  <2>8. Attentive' BY <2>7, <1>1, <1>8, ComesStep, NoNeedStep, WorksStep
  <2> QED BY <1>9, <2>2, <2>8 DEF Answering
<1> QED BY <1>11, <1>12

(* A limit or a failure parks the session, or a question holds it.          *)
LEMMA LimitOrFailureAnswers ==
  ASSUME AInv, NEW kind \in Lifecycle \ {"limit_cleared"}, LimitOrFailure(kind) PROVE Answering'
<1> DEFINE h == Entered(s)
           g == CASE kind = "limit_hit" -> AfterLimit(h, FALSE)
                  [] kind = "limit_hit_self" -> AfterLimit(h, TRUE)
                  [] kind = "turn_failed" -> AfterFailure(h)
<1>1. /\ Starting /\ s.armed /\ s' = g /\ (Persist(g) \/ SaveRows(h)) /\ chain' = Tail(chain)
      /\ UNCHANGED <<running, latest, agent, open, ctx>>
  BY DEF LimitOrFailure, Starts, world
<1>2. \/ g = AfterLimit(h, FALSE) \/ g = AfterLimit(h, TRUE)
      \/ (g = h /\ h.state = "parked") \/ g = registerTransientFailure(h, 0)
  BY DEF Lifecycle, AfterFailure
<1>3. Session(h) /\ Carries(h) /\ ~h.awaiting /\ Gentle(s, h) /\ h.promptGen \in Nat BY <1>1, EnteredCarries
<1>4. running = Idle /\ running.pc = "idle" /\ chain # <<>> /\ UNCHANGED arms BY <1>1, RunningIsIdle
<1>5. ctx \in Nat /\ IsSequence(chain) BY Standing
<1> HIDE DEF h, g
<1>6. Bears(h, g) /\ Waits(g) /\ Modest(h, g)
  <2>1. CASE g = AfterLimit(h, FALSE)
    <3>1. FALSE \in BOOLEAN OBVIOUS
    <3> QED BY <3>1, <2>1, <1>3, LimitBears, LimitParks
  <2>2. CASE g = AfterLimit(h, TRUE)
    <3>1. TRUE \in BOOLEAN OBVIOUS
    <3> QED BY <3>1, <2>2, <1>3, LimitBears, LimitParks
  <2>3. CASE g = h /\ h.state = "parked" BY <2>3, <1>3 DEF Bears, Waits, Kept, Modest
  <2>4. CASE g = registerTransientFailure(h, 0) BY <2>4, <1>3, FailureBears, FailureParks
  <2> QED BY <1>2, <2>1, <2>2, <2>3, <2>4
<1>7. Carries(g) BY <1>3, <1>6, CarriesBears DEF Modest
<1>8. Saved BY <1>1, <1>3, <1>7, PersistSaves, SaveRowsSaves
<1>9. Carries(s') /\ ~s'.awaiting BY <1>1, <1>3, <1>6, <1>7 DEF Bears
<1>10. Numbered' /\ Fresh' BY <1>1, <1>4, <1>5, <1>8, <1>9, CarryStep
<1>11. Outside' BY <1>1, <1>4, <1>5, TailOf DEF AInv, Outside
<1>12. agent = "idle" => Kept(s')
  <2>1. PromptsIn(g.rows) = PromptsIn(s.rows) BY <1>3, <1>6 DEF Gentle, Modest
  <2>2. PromptsIn(s.rows) \subseteq open BY DEF AInv, Inv, PromptsAreRows, RowPrompts, PromptsIn
  <2>3. PromptsIn(g.rows) # {} => agent # "idle" BY <2>1, <2>2 DEF AInv, Outside
  <2> QED BY <2>3, <1>6, <1>1 DEF Waits
<1>13. running'.pc \notin {"judge", "snapshots"} BY <1>1, <1>4
<1>14. Attentive' BY <1>1, <1>4, <1>9, <1>12, <1>13, TurnStep
<1> QED BY <1>10, <1>11, <1>14 DEF Answering

(* A pause starts a pass.                                                   *)
LEMMA BeginAnswers == ASSUME AInv, Begin PROVE Answering'
<1> DEFINE e == Entered(s)
           h == unparkIfParked(e)
           g == [h EXCEPT !.state = "handling"]
           n == Head(chain).of
<1>1. /\ Starting /\ s.armed /\ s' = g /\ (Persist(h) \/ SaveRows(h)) /\ chain' = Tail(chain)
      /\ running' = Pass("context", n, h) /\ UNCHANGED <<latest, agent, open, ctx>>
  BY DEF Begin, Starts, world
<1>2. Session(e) /\ Carries(e) /\ ~e.awaiting /\ Gentle(s, e) /\ e.promptGen \in Nat BY <1>1, EnteredCarries
<1>3. running = Idle /\ chain # <<>> /\ UNCHANGED arms BY <1>1, RunningIsIdle
<1>4. ctx \in Nat /\ IsSequence(chain) BY Standing
<1> HIDE DEF e
<1>5. Bears(e, h) /\ h.awaiting = e.awaiting /\ Gentle(e, h) /\ Session(h)
  BY <1>2, UnparkBears, UnparkGentle, GentleIsSession
<1> HIDE DEF h
<1>6. Carries(h) /\ h.promptGen \in Nat BY <1>2, <1>5, CarriesBears DEF Gentle, Modest, Bears
<1>7. Silent(h, g) /\ g.armed = h.armed /\ g.id = h.id BY <1>5, ExceptSilent DEF Session, Fields
<1> HIDE DEF g
<1>8. Carries(s') /\ ~s'.awaiting BY <1>1, <1>2, <1>5, <1>6, <1>7, SilentBears, CarriesBears DEF Silent
<1>9. Saved BY <1>1, <1>6, PersistSaves, SaveRowsSaves
<1>10. running'.pc = "context" /\ running'.id = h.id /\ running'.promptGen = h.promptGen BY <1>1 DEF Pass
<1>11. h.id = s.id /\ s'.promptGen = h.promptGen /\ s'.armed /\ s'.id = s.id
  BY <1>1, <1>6, <1>7 DEF Carries, Silent
<1>12. running'.id \in Nat /\ running'.id <= arms BY <1>10, <1>11 DEF AInv, Numbered
<1>13. running'.promptGen \in Nat /\ running'.promptGen <= s'.promptGen BY <1>6, <1>10, <1>11
<1>14. ~Mine({"judge"})' BY <1>10 DEF Mine
<1>15. Numbered' /\ Fresh' BY <1>1, <1>3, <1>4, <1>8, <1>9, <1>12, <1>13, <1>14, RunningStep
<1>16. Mine({"context", "judge"})' BY <1>10, <1>11 DEF Mine, SameSession
<1>17. running'.pc \notin {"judge", "snapshots"} BY <1>10
<1>18. Attentive' BY <1>1, <1>3, <1>8, <1>16, <1>17, TurnStep
<1>19. Outside' BY <1>1, <1>3, <1>4, TailOf DEF AInv, Outside
<1> QED BY <1>15, <1>18, <1>19 DEF Answering

LEMMA ChainAnswers == ASSUME AInv, Chain PROVE Answering'
<1>0. Session(s) /\ s.promptGen \in Nat /\ ctx \in Nat /\ IsSequence(chain) /\ Carries(s) BY Standing
<1>1. CASE Dropped
  <2> DEFINE e == Head(chain)
  <2>1. /\ Starting /\ UNCHANGED <<s, disk, running, latest, agent, open, ctx>> /\ chain' = Tail(chain)
        /\ ~Live(e) \/ ~s.armed \/ e.kind = "seed"
    BY <1>1 DEF Dropped, world
  <2>2. running = Idle /\ running.pc = "idle" /\ chain # <<>> /\ UNCHANGED arms BY <2>1, RunningIsIdle
  <2>3. Carries(s') /\ Saved BY <2>1, <1>0 DEF Saved
  <2>4. Numbered' /\ Fresh' BY <2>1, <2>2, <2>3, <1>0, CarryStep
  <2>5. ~Serves(Head(chain), latest) \/ ~s.armed
    <3>1. ASSUME Serves(e, latest) PROVE Live(e) /\ e.kind # "seed"
      <4>1. CASE e = Turn(latest)
        <5>1. e.kind = "turn" /\ e.of = latest BY <4>1 DEF Turn
        <5> HIDE DEF e
        <5> QED BY <5>1 DEF Live
      <4>2. CASE e.kind \in {"limit_hit", "turn_failed"}
        <5> HIDE DEF e
        <5> QED BY <4>2 DEF Live
      <4> QED BY <3>1, <4>1, <4>2 DEF Serves
    <3> QED BY <3>1, <2>1
  <2>6. running'.pc \notin Passes BY <2>1, <2>2 DEF Passes
  <2>7. Attentive' BY <2>1, <2>2, <2>5, <2>6, SkipStep
  <2>8. Outside' BY <2>1, <2>2, <1>0, TailOf DEF AInv, Outside
  <2> QED BY <2>4, <2>7, <2>8 DEF Answering
<1>2. CASE Suspended
  <2>1. /\ Starting /\ s.armed /\ Disarm(Entered(s), TRUE) /\ UNCHANGED <<running, agent, open, ctx>>
        /\ chain' = Tail(chain)
    BY <1>2 DEF Suspended, Starts, world
  <2>2. Session(Entered(s)) /\ Carries(Entered(s)) /\ Entered(s).promptGen \in Nat BY <2>1, EnteredCarries
  <2>3. chain # <<>> /\ UNCHANGED arms BY <2>1, RunningIsIdle
  <2>4. Entered(s).id = s.id /\ (Entered(s).answer = None \/ Entered(s).answer = s.answer) BY <2>2 DEF Carries
  <2>5. Numbered' /\ Fresh' /\ Attentive' BY <2>1, <2>2, <2>3, <2>4, <1>0, DisarmAttends
  <2>6. Outside' BY <2>1, <2>3, <1>0, TailOf DEF AInv, Outside
  <2> QED BY <2>5, <2>6 DEF Answering
<1>3. CASE LimitCleared BY <1>3, LimitClearedAnswers
<1>4. CASE PromptEscalates
  <2> DEFINE p == Head(chain).of
             e == Entered(s)
             u == unparkIfParked(e)
             r == Row("prompt", p, {})
             h == Escalated(u, r)
  <2>1. /\ Starting /\ s.armed /\ s' = h /\ Persist(h) /\ chain' = Tail(chain)
        /\ UNCHANGED <<running, latest, agent, open, ctx>> /\ Head(chain).kind = "prompt" /\ Live(Head(chain))
    BY <1>4 DEF PromptEscalates, Starts, world
  <2>2. p \in queued BY <2>1 DEF Live
  <2> HIDE DEF p
  <2>3. agent # "idle" BY <2>2 DEF AInv, Inv, PromptsAreRows, Outside
  <2>4. Session(e) /\ Carries(e) /\ e.promptGen \in Nat BY <2>1, EnteredCarries
  <2> HIDE DEF e
  <2>5. Bears(e, u) /\ Gentle(e, u) /\ Session(u) BY <2>4, UnparkBears, UnparkGentle, GentleIsSession
  <2> HIDE DEF u, r
  <2>6. Carries(u) /\ u.promptGen \in Nat BY <2>4, <2>5, CarriesBears DEF Gentle, Modest, Bears
  <2>7. Silent(u, h) BY <2>5, EscalatedSilent
  <2>8. h.armed = u.armed /\ h.id = u.id BY <2>5 DEF Escalated, Session, Fields
  <2> HIDE DEF h
  <2>9. Carries(s') /\ Saved BY <2>1, <2>6, <2>7, <2>8, SilentBears, CarriesBears, PersistSaves
  <2>10. running = Idle /\ chain # <<>> /\ UNCHANGED arms BY <2>1, RunningIsIdle
  <2>11. Numbered' /\ Fresh' BY <2>1, <2>9, <2>10, <1>0, CarryStep
  <2>12. Outside' BY <2>1, <2>10, <1>0, TailOf DEF AInv, Outside
  <2> QED BY <2>1, <2>3, <2>11, <2>12, WorksStep DEF Answering
<1>5. CASE ParkedPause
  <2> DEFINE h == Entered(s)
  <2>1. /\ Starting /\ s.armed /\ s.state = "parked" /\ s' = h /\ SaveRows(h) /\ chain' = Tail(chain)
        /\ UNCHANGED <<running, latest, agent, open, ctx>>
    BY <1>5 DEF ParkedPause, Starts, world
  <2>2. Carries(h) /\ ~h.awaiting /\ h.state = s.state BY <2>1, EnteredCarries
  <2> HIDE DEF h
  <2>3. running = Idle /\ running.pc = "idle" /\ chain # <<>> /\ UNCHANGED arms BY <2>1, RunningIsIdle
  <2>4. Carries(s') /\ Saved /\ ~s'.awaiting /\ Kept(s') BY <2>1, <2>2, SaveRowsSaves DEF Kept
  <2>5. Numbered' /\ Fresh' BY <2>1, <2>3, <2>4, <1>0, CarryStep
  <2>6. running'.pc \notin {"judge", "snapshots"} BY <2>1, <2>3
  <2>7. Attentive' BY <2>1, <2>3, <2>4, <2>6, TurnStep
  <2>8. Outside' BY <2>1, <2>3, <1>0, TailOf DEF AInv, Outside
  <2> QED BY <2>5, <2>7, <2>8 DEF Answering
<1>6. CASE Begin BY <1>6, BeginAnswers
<1>7. ASSUME NEW kind \in Lifecycle \ {"limit_cleared"}, LimitOrFailure(kind) PROVE Answering'
  BY <1>7, LimitOrFailureAnswers
<1>8. CASE BeginExtraction
  <2>1. /\ Starting /\ s.armed /\ UNCHANGED <<s, disk, latest, agent, open, ctx>> /\ chain' = Tail(chain)
        /\ running' = [pc |-> "extract", id |-> s.id] /\ Head(chain).kind \in {"extract", "seed"}
    BY <1>8 DEF BeginExtraction, Starts, world
  <2>2. running = Idle /\ chain # <<>> /\ UNCHANGED arms BY <2>1, RunningIsIdle
  <2>3. Carries(s') /\ Saved BY <2>1, <1>0 DEF Saved
  <2>4. running'.pc = "extract" /\ running'.id = s.id BY <2>1
  <2>5. running'.id \in Nat /\ running'.id <= arms BY <2>4 DEF AInv, Numbered
  <2>6. ~Mine({"context", "judge"})' /\ ~Mine(Passes)' /\ ~Mine({"judge"})' BY <2>4 DEF Mine, Passes
  <2>7. Numbered' /\ Fresh' BY <2>1, <2>2, <2>3, <2>5, <2>6, <1>0, RunningStep
  <2>8. ~Serves(Head(chain), latest) BY <2>1 DEF Serves, Turn
  <2>9. running'.pc \notin Passes BY <2>4 DEF Passes
  <2>10. Attentive' BY <2>1, <2>2, <2>8, <2>9, SkipStep
  <2>11. Outside' BY <2>1, <2>2, <1>0, TailOf DEF AInv, Outside
  <2> QED BY <2>7, <2>10, <2>11 DEF Answering
<1> QED BY <1>1, <1>2, <1>3, <1>4, <1>5, <1>6, <1>7, <1>8 DEF Chain

-----------------------------------------------------------------------------
(* A pass.                                                                  *)

LEMMA AwaitedIdles ==
  ASSUME AInv, NEW pc, Awaited(pc), chain' = chain, agent' = agent
  PROVE  UNCHANGED <<arms, open, ctx>> /\ running.pc = pc /\ ctx' \in Nat /\ Outside'
<1>1. UNCHANGED <<arms, open, ctx>> /\ running.pc = pc BY DEF Awaited
<1>2. ctx' \in Nat BY <1>1, Standing
<1>3. Outside' BY <1>1 DEF AInv, Outside
<1> QED BY <1>1, <1>2, <1>3

LEMMA AbandonedAnswers == ASSUME AInv, Abandoned PROVE Answering'
<1>1. PICK pc : Awaited(pc) BY DEF Abandoned
<1>2. ~SameSession /\ running' = Idle /\ UNCHANGED <<s, chain, latest, disk, agent>> BY DEF Abandoned
<1>3. UNCHANGED <<arms, ctx>> /\ ctx' \in Nat /\ Outside' BY <1>1, <1>2, AwaitedIdles
<1>4. Carries(s') /\ Saved BY <1>2, Standing DEF Saved
<1>5. Numbered' /\ Fresh' BY <1>2, <1>3, <1>4, CarryStep
<1>6. ~Mine(Passes) BY <1>2 DEF Mine
<1>7. Attentive' BY <1>2, <1>4, <1>6, SameNeedStep
<1> QED BY <1>3, <1>5, <1>7 DEF Answering

(* A context that was judged before has no answer waiting on it.            *)
LEMMA UnmovedAnswers == ASSUME AInv, Unmoved PROVE Answering'
<1>1. /\ Awaited("context") /\ SameSession /\ s.judged = ctx /\ s' = Rested(s) /\ running' = Idle
      /\ UNCHANGED <<chain, latest, disk, agent>>
  BY DEF Unmoved
<1>2. UNCHANGED <<arms, ctx>> /\ ctx' \in Nat /\ Outside' /\ running.pc = "context" BY <1>1, AwaitedIdles
<1>3. ctx \in Nat /\ Session(s) /\ s.promptGen \in Nat BY Standing
<1>4. ~Relaying BY <1>1, <1>3, HandlerAssumption DEF AInv, Fresh
<1>5. ~s.awaiting BY <1>1, <1>2 DEF AInv, Fresh, Mine, Passes
<1>6. Silent(s, s') /\ Gentle(s, s') BY <1>1, <1>3, RestedSilent, RestedGentle
<1>7. Carries(s') /\ Saved BY <1>1, <1>3, <1>6, SilentBears, BearsCarries DEF Gentle, Modest, Saved
<1>8. Numbered' /\ Fresh' BY <1>1, <1>2, <1>7, CarryStep
<1>9. ~Relaying' /\ ~s'.awaiting BY <1>4, <1>5, <1>6, <1>7, StillRelaying DEF Silent
<1> QED BY <1>2, <1>8, <1>9, NoNeedStep DEF Answering

(* The judge is shown the answer that waits.                                *)
LEMMA JudgeAnswers == ASSUME AInv, Judge PROVE Answering'
<1>1. /\ Awaited("context") /\ SameSession /\ UNCHANGED <<s, chain, latest, disk, agent>>
      /\ running' = [pc |-> "judge", of |-> running.of, id |-> running.id,
                     promptGen |-> running.promptGen, hash |-> ctx, answer |-> s.answer]
  BY DEF Judge
<1>2. UNCHANGED <<arms, ctx>> /\ ctx' \in Nat /\ Outside' /\ running.pc = "context" BY <1>1, AwaitedIdles
<1>3. /\ running'.pc = "judge" /\ running'.id = running.id /\ running'.promptGen = running.promptGen
      /\ running'.answer = s.answer
  BY <1>1
<1>4. Carries(s') /\ Saved BY <1>1, Standing DEF Saved
<1>5. Mine({"context", "judge"}) /\ Mine(Passes) BY <1>1, <1>2 DEF Mine, Passes
<1>6. /\ running'.id \in Nat /\ running'.id <= arms
      /\ running'.promptGen \in Nat /\ running'.promptGen <= s'.promptGen
  BY <1>1, <1>2, <1>3, <1>5 DEF AInv, Numbered
<1>7. ~s'.awaiting BY <1>1, <1>5 DEF AInv, Fresh
<1>8. s'.answer = running'.answer BY <1>1, <1>3
<1>9. Numbered' /\ Fresh' BY <1>2, <1>4, <1>6, <1>7, <1>8, RunningStep
<1>10. Mine({"context", "judge"})' BY <1>1, <1>3 DEF Mine, SameSession
<1>11. ~Unshown' BY <1>3, <1>8 DEF Unshown, Mine
<1>12. Relaying' <=> Relaying BY <1>1 DEF Relaying, AnswerWaits
<1>13. Coming' <=> Coming BY <1>1 DEF Coming
<1>14. Attentive' BY <1>1, <1>7, <1>10, <1>11, <1>12, <1>13 DEF AInv, Attentive
<1> QED BY <1>2, <1>9, <1>14 DEF Answering

(* A judge that failed leaves a park or a question.                         *)
LEMMA JudgeFailsAnswers == ASSUME AInv, JudgeFails PROVE Answering'
<1> DEFINE h == registerTransientFailure(s, running.of)
<1>1. /\ SameSession /\ s' = h /\ Persist(h) /\ running' = Idle /\ UNCHANGED <<chain, latest, agent>>
  BY DEF JudgeFails
<1>2. PICK pc \in {"context", "judge"} : Awaited(pc) BY DEF JudgeFails
<1>3. UNCHANGED <<arms, ctx>> /\ ctx' \in Nat /\ Outside' /\ running.pc = pc BY <1>1, <1>2, AwaitedIdles
<1>4. Session(s) /\ s.promptGen \in Nat BY Standing
<1>5. Bears(s, h) /\ Waits(h) /\ Modest(s, h) BY <1>4, FailureBears, FailureParks
<1> HIDE DEF h
<1>6. Carries(s') /\ Saved BY <1>1, <1>5, BearsCarries, PersistSaves DEF Modest
<1>7. Numbered' /\ Fresh' BY <1>1, <1>3, <1>6, CarryStep
<1>8. ~s.awaiting BY <1>1, <1>3 DEF AInv, Fresh, Mine, Passes
<1>9. ~s'.awaiting BY <1>6, <1>8 DEF Carries
<1>10. agent = "idle" => Kept(s')
  <2>1. PromptsIn(h.rows) = PromptsIn(s.rows) BY <1>5 DEF Modest
  <2>2. PromptsIn(s.rows) \subseteq open BY DEF AInv, Inv, PromptsAreRows, RowPrompts, PromptsIn
  <2>3. PromptsIn(h.rows) # {} => agent # "idle" BY <2>1, <2>2 DEF AInv, Outside
  <2> QED BY <2>3, <1>5, <1>1 DEF Waits
<1>11. Relaying' => Relaying BY <1>6, StillRelaying
<1>12. Coming' <=> Coming BY <1>1 DEF Coming
<1>13. ~Unshown' BY <1>1 DEF Unshown, Mine, Idle
<1>14. Attentive' BY <1>1, <1>9, <1>10, <1>11, <1>12, <1>13 DEF AInv, Attentive
<1> QED BY <1>3, <1>7, <1>14 DEF Answering

(* What a verdict leaves: the answer it was shown is spent, and one it was  *)
(* not shown has kept the context open.                                     *)
Spends(g) == Carries(g) /\ ~g.awaiting /\ (Relaying /\ g.answer = s.answer => s.answer # running.answer)

LEMMA HeardFields ==
  ASSUME NEW h, NEW t, Session(h)
  PROVE  \A g \in {Absorbed(Heard(h), t), [Absorbed(Heard(h), t) EXCEPT !.reasks = 0]} :
           /\ g.answer = IF h.answer = running.answer THEN None ELSE h.answer
           /\ g.judged = IF h.promptGen = running.promptGen THEN running.hash ELSE h.judged
           /\ g.promptGen = h.promptGen /\ g.awaiting = h.awaiting /\ g.owed = h.owed /\ g.retry = h.retry
           /\ Like(h, g)
<1> DEFINE j == IF h.promptGen = running.promptGen THEN running.hash ELSE h.judged
           a == IF h.answer = running.answer THEN None ELSE h.answer
           f == Heard(h)
           c == IF (\E i \in Item : t.backlog[i] = "closed" /\ f.backlog[i] # "closed") /\ ~t.refused
                THEN 0 ELSE f.reasks
           g == Absorbed(f, t)
           g0 == [g EXCEPT !.reasks = 0]
<1>1. f = [h EXCEPT !.transient = 0, !.limits = 0, !.judged = j, !.answer = a] BY DEF Heard
<1>2. g = [f EXCEPT !.backlog = t.backlog, !.reasks = c] BY DEF Absorbed
<1>3. Like(h, g) /\ Like(h, g0) BY HeardLike
<1> HIDE DEF f, j, a, c, g
<1>4. /\ DOMAIN f = Fields /\ f.answer = a /\ f.judged = j /\ f.promptGen = h.promptGen
      /\ f.awaiting = h.awaiting /\ f.owed = h.owed /\ f.retry = h.retry
  BY <1>1 DEF Session, Fields
<1>5. /\ DOMAIN g = Fields /\ g.answer = a /\ g.judged = j /\ g.promptGen = h.promptGen
      /\ g.awaiting = h.awaiting /\ g.owed = h.owed /\ g.retry = h.retry
  BY <1>2, <1>4 DEF Fields
<1>6. /\ g0.answer = a /\ g0.judged = j /\ g0.promptGen = h.promptGen
      /\ g0.awaiting = h.awaiting /\ g0.owed = h.owed /\ g0.retry = h.retry
  BY <1>5 DEF Fields
<1> HIDE DEF g0
<1>7. \A x \in {g, g0} : /\ x.answer = a /\ x.judged = j /\ x.promptGen = h.promptGen
                         /\ x.awaiting = h.awaiting /\ x.owed = h.owed /\ x.retry = h.retry /\ Like(h, x)
  BY <1>3, <1>5, <1>6
<1> QED BY <1>7 DEF g, g0, f, a, j

LEMMA VerdictSpends ==
  ASSUME AInv, NEW t, Verdict
  PROVE  \A g \in {Absorbed(Heard(s), t), [Absorbed(Heard(s), t) EXCEPT !.reasks = 0]} :
           Spends(g) /\ Session(g) /\ Gentle(s, g) /\ g.promptGen \in Nat
<1> TAKE g \in {Absorbed(Heard(s), t), [Absorbed(Heard(s), t) EXCEPT !.reasks = 0]}
<1>1. Session(s) /\ s.promptGen \in Nat BY Standing
<1>2. /\ g.answer = IF s.answer = running.answer THEN None ELSE s.answer
      /\ g.judged = IF s.promptGen = running.promptGen THEN running.hash ELSE s.judged
      /\ g.promptGen = s.promptGen /\ g.awaiting = s.awaiting /\ g.owed = s.owed /\ g.retry = s.retry
      /\ Like(s, g)
  BY <1>1, HeardFields
<1>3. Gentle(s, g) /\ Session(g) /\ g.armed = s.armed /\ g.id = s.id BY <1>1, <1>2, LikeIsGentle, GentleIsSession DEF Like
<1>4. running.pc = "judge" /\ SameSession BY DEF Verdict, Awaited
<1>5. Mine({"judge"}) /\ Mine({"context", "judge"}) /\ Mine(Passes) BY <1>4 DEF Mine, Passes
<1>6. ~s.awaiting /\ running.promptGen \in Nat BY <1>5 DEF AInv, Fresh, Numbered
<1>7. ASSUME Relaying, g.answer = s.answer PROVE s.answer # running.answer /\ g.judged = None
  <2>1. s.answer # None BY <1>7 DEF Relaying, AnswerWaits
  <2>2. s.answer # running.answer BY <2>1, <1>2, <1>7
  <2>3. running.promptGen < s.promptGen BY <2>2, <1>5, <1>7 DEF AInv, Fresh
  <2>4. running.promptGen # s.promptGen BY <2>3, <1>6, <1>1
  <2> QED BY <2>2, <2>4, <1>2, <1>7 DEF AInv, Fresh
<1>8. Carries(g) BY <1>1, <1>2, <1>3, <1>7 DEF Carries
<1> QED BY <1>1, <1>2, <1>3, <1>6, <1>7, <1>8 DEF Spends

LEMMA SpendsBears ==
  ASSUME AInv, NEW g, NEW f, Spends(g), Bears(g, f), f.armed = g.armed, f.id = g.id PROVE Spends(f)
BY CarriesBears DEF Spends, Bears

(* The answer left over has a pause of its own coming.                      *)
LEMMA VerdictStep ==
  ASSUME AInv, Verdict, Spends(s'), UNCHANGED <<chain, latest, agent>> PROVE Attentive'
<1>1. CASE agent # "idle" BY <1>1, WorksStep
<1>2. CASE ~Relaying' BY <1>2, NoNeedStep DEF Spends
<1>3. CASE agent = "idle" /\ Relaying'
  <2>1. Relaying /\ s'.answer = s.answer BY <1>3, StillRelaying DEF Spends
  <2>2. s.answer # running.answer BY <2>1 DEF Spends
  <2>3. Unshown BY <2>2 DEF Verdict, Awaited, Unshown, Mine
  <2>4. Coming BY <2>1, <2>3, <1>3 DEF AInv, Attentive
  <2>5. Coming' BY <2>4 DEF Coming
  <2> QED BY <2>5, ComesStep
<1> QED BY <1>1, <1>2, <1>3

(* A verdict that ends the pass.                                            *)
LEMMA VerdictEnds ==
  ASSUME AInv, Verdict, Spends(s'), Saved, running' = Idle, UNCHANGED <<chain, latest, agent>>
  PROVE  Answering'
<1>1. Awaited("judge") BY DEF Verdict
<1>2. UNCHANGED <<arms, ctx>> /\ ctx' \in Nat /\ Outside' BY <1>1, AwaitedIdles
<1>3. Numbered' /\ Fresh' BY <1>2, CarryStep DEF Spends
<1> QED BY <1>2, <1>3, VerdictStep DEF Answering

(* Where a session comes to rest.                                           *)
LEMMA SettleEnds ==
  ASSUME NEW h, Session(h), h.promptGen \in Nat, Settle(h), ~WrapsUp(h)
  PROVE  /\ Silent(h, s') /\ s'.armed = h.armed /\ s'.id = h.id /\ (Persist(s') \/ UNCHANGED disk) /\ UNCHANGED latest
<1> DEFINE e == IF allTerminal(h) THEN reconcileAsks(h) ELSE h
           g == Rested(e)
<1>1. s' = g /\ (Persist(g) \/ UNCHANGED disk) /\ UNCHANGED latest BY DEF Settle, MaySave
<1>2. Silent(h, e) /\ Session(e) /\ e.armed = h.armed /\ e.id = h.id
  <2>1. Silent(h, h) BY DEF Silent
  <2>2. Silent(h, reconcileAsks(h)) /\ Gentle(h, reconcileAsks(h)) BY ReconcileSilent, ReconcileGentle
  <2> QED BY <2>1, <2>2, GentleIsSession DEF Gentle, Modest
<1> HIDE DEF e
<1>3. Silent(e, g) /\ Gentle(e, g) BY <1>2, RestedSilent, RestedGentle
<1> HIDE DEF g
<1>4. Silent(h, g) /\ g.armed = h.armed /\ g.id = h.id BY <1>2, <1>3 DEF Silent, Gentle, Modest
<1>5. Persist(s') \/ UNCHANGED disk BY <1>1 DEF Persist
<1> QED BY <1>1, <1>4, <1>5

LEMMA SpendsSaves == ASSUME NEW g, Spends(g), Persist(g) \/ UNCHANGED disk PROVE Saved
BY PersistSaves DEF Spends

LEMMA ContinueAnswers == ASSUME AInv, NEW t, Continue(t) PROVE Answering'
<1> DEFINE h == Absorbed(Heard(s), t)
<1>1. Verdict /\ Settle(h) /\ running' = Idle /\ UNCHANGED <<chain, agent>> BY DEF Continue
<1>2. Spends(h) /\ Session(h) /\ h.promptGen \in Nat BY <1>1, VerdictSpends
<1> HIDE DEF h
<1>3. UNCHANGED <<arms, ctx>> /\ ctx' \in Nat /\ Outside' BY <1>1, AwaitedIdles DEF Verdict
<1>4. CASE WrapsUp(h)
  <2>1. Disarm(h, FALSE) BY <1>1, <1>4 DEF Settle
  <2>2. h.id = s.id /\ (h.answer = None \/ h.answer = s.answer) BY <1>2 DEF Spends, Carries
  <2>3. Numbered' /\ Fresh' /\ Attentive' BY <1>1, <1>2, <1>3, <2>1, <2>2, DisarmAttends
  <2> QED BY <2>3, <1>3 DEF Answering
<1>5. CASE ~WrapsUp(h)
  <2>1. /\ Silent(h, s') /\ s'.armed = h.armed /\ s'.id = h.id
        /\ (Persist(s') \/ UNCHANGED disk) /\ UNCHANGED latest
    BY <1>1, <1>2, <1>5, SettleEnds
  <2>2. Spends(s') BY <2>1, <1>2, SilentBears, SpendsBears
  <2>3. Saved BY <2>1, <2>2, SpendsSaves
  <2> QED BY <2>1, <2>2, <2>3, <1>1, VerdictEnds
<1> QED BY <1>4, <1>5

LEMMA ReaskedSpends ==
  ASSUME AInv, NEW h, Spends(h), Session(h), h.promptGen \in Nat
  PROVE  Session(Reasked(h)) /\ Spends(Reasked(h)) /\ Reasked(h).promptGen \in Nat
<1> DEFINE f == Reasked(h)
<1>1. /\ DOMAIN f = Fields /\ f.armed = h.armed /\ f.timer = h.timer /\ f.selfResuming = h.selfResuming
      /\ f.rows = h.rows /\ f.id = h.id /\ f.answer = h.answer /\ f.awaiting = h.awaiting /\ f.judged = None
      /\ f.promptGen = h.promptGen /\ f.owed = h.owed /\ f.retry = h.retry
  BY DEF Session, Fields, Reasked
<1> HIDE DEF f
<1>2. Session(f) /\ Bears(h, f) /\ f.promptGen \in Nat BY <1>1 DEF Session, Bears
<1>3. Spends(f) BY <1>1, <1>2, SpendsBears
<1> QED BY <1>2, <1>3 DEF f

(* The act on a verdict failed: the answer it was shown is spent all the    *)
(* same, and the session rests.                                             *)
LEMMA ActFailsAnswers == ASSUME AInv, NEW t, ActFails(t) PROVE Answering'
<1> DEFINE h == Absorbed(Heard(s), t)
<1>1. /\ Verdict /\ running' = Idle /\ UNCHANGED <<chain, latest, disk, agent>>
      /\ s' = Rested(h) \/ s' = Rested(Reasked(h))
  BY DEF ActFails
<1>2. Spends(h) /\ Session(h) /\ h.promptGen \in Nat BY <1>1, VerdictSpends
<1> HIDE DEF h
<1>3. PICK f : s' = Rested(f) /\ Session(f) /\ Spends(f) /\ f.promptGen \in Nat BY <1>1, <1>2, ReaskedSpends
<1>4. Silent(f, s') /\ Gentle(f, s') BY <1>3, RestedSilent, RestedGentle
<1>5. Spends(s') BY <1>3, <1>4, SilentBears, SpendsBears DEF Gentle, Modest
<1>6. Saved BY <1>1 DEF Saved
<1> QED BY <1>1, <1>5, <1>6, VerdictEnds

(* The judge is asked again, with a fresh look at the answer.               *)
LEMMA AskAgainAnswers == ASSUME AInv, NEW t, AskAgain(t) PROVE Answering'
<1> DEFINE h == Absorbed(Heard(s), t)
           f == Reasked(h)
           again == Entered(f)
           g == [again EXCEPT !.state = "handling"]
<1>1. /\ Verdict /\ s' = g /\ Persist(again) /\ running' = Pass("context", running.of, again)
      /\ UNCHANGED <<chain, latest, agent>>
  BY DEF AskAgain
<1>2. Spends(h) /\ Session(h) /\ h.promptGen \in Nat BY <1>1, VerdictSpends
<1> HIDE DEF h
<1>4. Session(f) /\ Spends(f) /\ f.promptGen \in Nat BY <1>2, ReaskedSpends
<1> HIDE DEF f
<1>6. Bears(f, again) /\ Session(again) /\ Gentle(f, again) /\ again.promptGen \in Nat
  BY <1>4, EnteredBears, EnteredGentle DEF Bears
<1> HIDE DEF again
<1>7. Spends(again) BY <1>4, <1>6, SpendsBears DEF Gentle, Modest
<1>8. Silent(again, g) /\ g.armed = again.armed /\ g.id = again.id BY <1>6, ExceptSilent DEF Session, Fields
<1> HIDE DEF g
<1>9. Spends(s') /\ s'.promptGen = again.promptGen /\ s'.id = again.id
  BY <1>1, <1>6, <1>7, <1>8, SilentBears, SpendsBears DEF Silent
<1>10. Saved BY <1>1, <1>7, SpendsSaves
<1>11. UNCHANGED <<arms, ctx>> /\ ctx' \in Nat /\ Outside' BY <1>1, AwaitedIdles DEF Verdict
<1>12. running'.pc = "context" /\ running'.id = again.id /\ running'.promptGen = again.promptGen BY <1>1 DEF Pass
<1>13. again.id = s.id BY <1>7 DEF Spends, Carries
<1>14. running'.id \in Nat /\ running'.id <= arms BY <1>12, <1>13 DEF AInv, Numbered
<1>15. running'.promptGen \in Nat /\ running'.promptGen <= s'.promptGen BY <1>6, <1>9, <1>12
<1>16. ~Mine({"judge"})' BY <1>12 DEF Mine
<1>17. Carries(s') /\ ~s'.awaiting BY <1>9 DEF Spends
<1>18. Numbered' /\ Fresh' BY <1>10, <1>11, <1>14, <1>15, <1>16, <1>17, RunningStep
<1> QED BY <1>1, <1>9, <1>11, <1>18, VerdictStep DEF Answering

(* A reply that waits for its snapshots was not shown a later answer.       *)
LEMMA AcceptedAnswers == ASSUME AInv, NEW t, NEW reply, Accepted(t, reply) PROVE Answering'
<1> DEFINE f == Absorbed(Heard(s), t)
           h == [Absorbed(Heard(s), t) EXCEPT !.reasks = 0]
<1>1. /\ Verdict /\ s' = h /\ UNCHANGED <<chain, latest, agent>>
      /\ Persist(f) \/ UNCHANGED disk
      /\ running' = [pc |-> "snapshots", id |-> running.id, reply |-> reply]
  BY DEF Accepted, MaySave
<1>2. Spends(h) /\ Spends(f) BY <1>1, VerdictSpends
<1> HIDE DEF h, f
<1>3. Spends(s') BY <1>1, <1>2
<1>5. Saved BY <1>1, <1>2, SpendsSaves
<1>6. UNCHANGED <<arms, ctx>> /\ ctx' \in Nat /\ Outside' BY <1>1, AwaitedIdles DEF Verdict
<1>7. running'.pc = "snapshots" /\ running'.id = running.id BY <1>1
<1>8. running.pc = "judge" BY <1>1 DEF Verdict, Awaited
<1>9. running'.id \in Nat /\ running'.id <= arms BY <1>7, <1>8 DEF AInv, Numbered
<1>10. ~Mine({"judge"})' /\ ~Mine({"context", "judge"})' BY <1>7 DEF Mine
<1>11. Carries(s') /\ ~s'.awaiting BY <1>3 DEF Spends
<1>12. Numbered' /\ Fresh' BY <1>5, <1>6, <1>9, <1>10, <1>11, RunningStep
<1> QED BY <1>1, <1>3, <1>6, <1>12, VerdictStep DEF Answering

LEMMA VerdictsAnswer ==
  ASSUME AInv, NEW t,
         \/ \E reply \in Reply : Accepted(t, reply)
         \/ Blocked(t) \/ Continue(t) \/ AskAgain(t) \/ GiveUpAsking(t) \/ Escalate(t) \/ ActFails(t)
  PROVE  Answering'
<1>1. CASE Blocked(t)
  <2> DEFINE h == [Absorbed(Heard(s), t) EXCEPT !.reasks = 0]
  <2>1. Verdict /\ running' = Idle /\ UNCHANGED <<chain, latest, agent>> BY <1>1 DEF Blocked
  <2>2. Spends(h) /\ Session(h) /\ h.promptGen \in Nat BY <2>1, VerdictSpends
  <2>3. s' \in WithReport(h) /\ (Persist(s') \/ UNCHANGED disk)
    <3>1. PICK r \in WithReport(h) : s' = r /\ (Persist(r) \/ UNCHANGED disk) BY <1>1 DEF Blocked, MaySave
    <3> QED BY <3>1 DEF Persist
  <2> HIDE DEF h
  <2>4. Silent(h, s') /\ Gentle(h, s') BY <2>2, <2>3, ReportSilent, ReportGentle
  <2>5. Spends(s') BY <2>2, <2>4, SilentBears, SpendsBears DEF Gentle, Modest
  <2> QED BY <2>1, <2>3, <2>5, SpendsSaves, VerdictEnds
<1>2. CASE Continue(t) BY <1>2, ContinueAnswers
<1>3. CASE AskAgain(t) BY <1>3, AskAgainAnswers
<1>4. CASE GiveUpAsking(t) \/ Escalate(t)
  <2> DEFINE h == [Absorbed(Heard(s), t) EXCEPT !.reasks = 0]
             g == Escalated(h, Question)
  <2>1. Verdict /\ running' = Idle /\ UNCHANGED <<chain, latest, agent>> /\ s' = g
        /\ (Persist(g) \/ UNCHANGED disk)
    BY <1>4 DEF GiveUpAsking, Escalate, MaySave
  <2>2. Spends(h) /\ Session(h) /\ h.promptGen \in Nat BY <2>1, VerdictSpends
  <2> HIDE DEF h
  <2>3. Silent(h, g) BY <2>2, EscalatedSilent
  <2>4. g.armed = h.armed /\ g.id = h.id BY <2>2 DEF Escalated, Session, Fields
  <2> HIDE DEF g
  <2>5. Spends(s') BY <2>1, <2>2, <2>3, <2>4, SilentBears, SpendsBears
  <2>6. Persist(s') \/ UNCHANGED disk BY <2>1 DEF Persist
  <2> QED BY <2>1, <2>5, <2>6, SpendsSaves, VerdictEnds
<1>5. ASSUME NEW reply \in Reply, Accepted(t, reply) PROVE Answering' BY <1>5, AcceptedAnswers
<1>6. CASE ActFails(t) BY <1>6, ActFailsAnswers
<1> QED BY <1>1, <1>2, <1>3, <1>4, <1>5, <1>6

(* Nothing was typed: a later answer has a pause of its own coming.         *)
LEMMA SendFailsAnswers == ASSUME AInv, SendFails PROVE Answering'
<1>1. /\ Awaited("snapshots") /\ SameSession /\ s' = Rested(s) /\ running' = Idle
      /\ UNCHANGED <<chain, latest, disk, agent>>
  BY DEF SendFails
<1>2. UNCHANGED <<arms, ctx>> /\ ctx' \in Nat /\ Outside' /\ running.pc = "snapshots" BY <1>1, AwaitedIdles
<1>3. Session(s) /\ s.promptGen \in Nat BY Standing
<1>4. Mine({"snapshots"}) /\ Mine(Passes) BY <1>1, <1>2 DEF Mine, Passes
<1>5. ~s.awaiting BY <1>4 DEF AInv, Fresh
<1>6. Silent(s, s') /\ Gentle(s, s') BY <1>1, <1>3, RestedSilent, RestedGentle
<1>7. Carries(s') /\ Saved BY <1>1, <1>3, <1>6, SilentBears, BearsCarries DEF Gentle, Modest, Saved
<1>8. Numbered' /\ Fresh' BY <1>1, <1>2, <1>7, CarryStep
<1>9. ~s'.awaiting BY <1>5, <1>7 DEF Carries
<1>10. Attentive'
  <2>1. CASE agent # "idle" BY <2>1, <1>1, WorksStep
  <2>2. CASE ~Relaying' BY <2>2, <1>9, NoNeedStep
  <2>3. CASE agent = "idle" /\ Relaying'
    <3>1. Relaying BY <2>3, <1>7, StillRelaying
    <3>2. Coming BY <2>3, <3>1, <1>4 DEF AInv, Attentive, Unshown
    <3>3. Coming' BY <3>2, <1>1 DEF Coming
    <3> QED BY <3>3, ComesStep
  <2> QED BY <2>1, <2>2, <2>3
<1> QED BY <1>2, <1>8, <1>10 DEF Answering

(* A reply sets the agent to work.                                          *)
LEMMA SendAnswers ==
  ASSUME AInv, NEW asks, NEW unblocked \in SUBSET Item, Send(asks, unblocked) PROVE Answering'
<1> DEFINE h == [s EXCEPT !.awaiting = TRUE]
           g == IF asks THEN raiseAsk(h, unblocked) ELSE h
<1>1. /\ Awaited("snapshots") /\ SameSession /\ Typed /\ Settle(g) /\ running' = Idle
      /\ UNCHANGED chain
  BY DEF Send
<1>2. UNCHANGED <<arms, open, ctx>> BY <1>1 DEF Awaited
<1>3. Session(s) /\ s.promptGen \in Nat /\ ctx \in Nat BY Standing
<1>4. agent' # "idle" /\ Outside'
  <2>1. agent' # "idle" /\ agent' \in {"working", "retrying", "cancelled", "unheard"}
    BY <1>1, TypedWorks
  <2> QED BY <2>1, <1>1, <1>2 DEF AInv, Outside
<1>5. /\ Like(s, h) /\ h.answer = s.answer /\ h.judged = s.judged /\ h.promptGen = s.promptGen
      /\ h.owed = s.owed /\ h.retry = s.retry
  BY <1>3, ExceptMinor DEF Session, Fields
<1> HIDE DEF h
<1>6. Session(h) /\ h.armed = s.armed /\ h.id = s.id BY <1>3, <1>5, LikeIsGentle, GentleIsSession DEF Like
<1>7. Session(g) /\ Silent(h, g) /\ g.armed = h.armed /\ g.id = h.id
  <2>1. Silent(h, h) BY DEF Silent
  <2>2. Silent(h, raiseAsk(h, unblocked)) /\ Gentle(h, raiseAsk(h, unblocked)) BY <1>6, RaiseSilent, RaiseGentle
  <2> QED BY <2>1, <2>2, <1>6, GentleIsSession DEF Gentle, Modest
<1> HIDE DEF g
<1>8. /\ g.promptGen = s.promptGen /\ g.id = s.id /\ g.answer = s.answer /\ g.judged = s.judged
      /\ g.armed = s.armed /\ g.owed = s.owed /\ g.retry = s.retry
  BY <1>5, <1>6, <1>7 DEF Silent
<1>9. CASE WrapsUp(g)
  <2>1. Disarm(g, FALSE) BY <1>1, <1>9 DEF Settle
  <2>2. Numbered' /\ Fresh' BY <1>1, <1>2, <1>3, <1>7, <1>8, <2>1, DisarmAttends
  <2> QED BY <2>2, <1>4, WorksStep DEF Answering
<1>10. CASE ~WrapsUp(g)
  <2>1. Silent(g, s') /\ s'.armed = g.armed /\ s'.id = g.id /\ (Persist(s') \/ UNCHANGED disk)
    BY <1>1, <1>3, <1>7, <1>8, <1>10, SettleEnds
  <2>2. /\ s'.promptGen = s.promptGen /\ s'.id = s.id /\ s'.answer = s.answer /\ s'.judged = s.judged
        /\ s'.armed = s.armed /\ s'.owed = s.owed /\ s'.retry = s.retry /\ s'.armed
    BY <1>1, <1>8, <2>1 DEF Silent, SameSession
  <2>3. disk'.answer = s'.answer \/ disk'.answer = disk.answer BY <2>1 DEF Persist, Record
  <2>4. running'.pc = "idle" BY <1>1 DEF Idle
  <2>5. ~Mine(Passes)' /\ ~Mine({"judge"})' /\ ~Mine({"context", "judge"})' BY <2>4 DEF Mine, Passes
  <2>6. Numbered' BY <1>2, <2>2, <2>3, <2>4, <2>5 DEF AInv, Numbered
  <2>7. Relaying' => Relaying BY <2>2 DEF Relaying, AnswerWaits
  <2>8. Fresh' BY <2>2, <2>5, <2>7 DEF AInv, Fresh
  <2> QED BY <2>6, <2>8, <1>4, WorksStep DEF Answering
<1> QED BY <1>9, <1>10

(* An extraction is no pass: what the answer waits for is elsewhere.        *)
LEMMA ExtractAnswers ==
  ASSUME AInv, Awaited("extract"), SameSession, running' = Idle, UNCHANGED <<chain, latest, agent>>,
         Bears(s, s'), s'.armed = s.armed, s'.id = s.id, Persist(s') \/ UNCHANGED disk,
         Kept(s) => Kept(s')
  PROVE  Answering'
<1>1. UNCHANGED <<arms, ctx>> /\ ctx' \in Nat /\ Outside' /\ running.pc = "extract" BY AwaitedIdles
<1>2. Carries(s') BY BearsCarries
<1>3. Saved BY <1>2, PersistSaves
<1>4. Numbered' /\ Fresh' BY <1>1, <1>2, <1>3, CarryStep
<1>5. ~Mine(Passes) BY <1>1 DEF Mine, Passes
<1>6. Attentive' BY <1>2, <1>5, SameNeedStep
<1> QED BY <1>1, <1>4, <1>6 DEF Answering

LEMMA Append1Answers == ASSUME AInv, NEW new, Append1(new) PROVE Answering'
<1> DEFINE v == [i \in Item |-> IF i \in new THEN "running" ELSE s.backlog[i]]
           h == [s EXCEPT !.judged = None, !.backlog = v]
<1>1. /\ Awaited("extract") /\ SameSession /\ running' = Idle /\ UNCHANGED <<chain, latest, agent>>
      /\ (s' = s /\ UNCHANGED disk) \/ (s' = h /\ (Persist(h) \/ UNCHANGED disk))
  BY DEF Append1, MaySave
<1>2. Session(s) /\ s.promptGen \in Nat /\ Bears(s, s) BY Standing
<1> HIDE DEF v
<1>3. /\ h.answer = s.answer /\ h.awaiting = s.awaiting /\ h.judged = None /\ h.promptGen = s.promptGen
      /\ h.owed = s.owed /\ h.retry = s.retry /\ h.armed = s.armed /\ h.id = s.id
      /\ h.rows = s.rows /\ h.state = s.state
  BY <1>2 DEF Session, Fields
<1> HIDE DEF h
<1>4. Bears(s, h) /\ (Kept(s) => Kept(h)) BY <1>2, <1>3 DEF Bears, Kept, Holding
<1>5. Bears(s, s') /\ s'.armed = s.armed /\ s'.id = s.id /\ (Persist(s') \/ UNCHANGED disk) /\ (Kept(s) => Kept(s'))
  BY <1>1, <1>2, <1>3, <1>4 DEF Persist
<1> QED BY <1>1, <1>5, ExtractAnswers

LEMMA AmendAnswers ==
  ASSUME AInv, NEW gone, NEW revived, NEW new, Amend(gone, revived, new) PROVE Answering'
<1> DEFINE v == [i \in Item |-> CASE i \in new \cup revived -> "running"
                                  [] i \in gone \ new -> "absent"
                                  [] OTHER -> s.backlog[i]]
           g == [s EXCEPT !.judged = None, !.backlog = v]
           h == IF Present(g) = {} THEN Escalated(g, Question) ELSE g
<1>1. /\ Awaited("extract") /\ SameSession /\ running' = Idle /\ UNCHANGED <<chain, latest, agent>>
      /\ s' = h /\ (Persist(h) \/ UNCHANGED disk)
  BY DEF Amend, MaySave
<1>2. Session(s) /\ s.promptGen \in Nat BY Standing
<1> HIDE DEF v
<1>3. /\ DOMAIN g = Fields /\ g.timer = s.timer /\ g.selfResuming = s.selfResuming
      /\ g.answer = s.answer /\ g.awaiting = s.awaiting /\ g.judged = None /\ g.promptGen = s.promptGen
      /\ g.owed = s.owed /\ g.retry = s.retry /\ g.armed = s.armed /\ g.id = s.id
      /\ g.rows = s.rows /\ g.state = s.state
  BY <1>2 DEF Session, Fields
<1> HIDE DEF g
<1>4. Bears(s, g) /\ (Kept(s) => Kept(g)) /\ Session(g) BY <1>2, <1>3 DEF Bears, Kept, Holding, Session
<1> DEFINE f == Escalated(g, Question)
<1>5. /\ Bears(s, f) /\ Kept(f) /\ f.armed = s.armed /\ f.id = s.id
  <2>1. Question \in AnyRow /\ Question.kind = "question" BY RowsPlain DEF AnyRow, Question, Row
  <2>2. Holding(f) BY <2>1, <1>4, AppendHolds
  <2>3. Silent(g, f) BY <1>4, EscalatedSilent
  <2>4. f.armed = g.armed /\ f.id = g.id BY <1>4 DEF Escalated, Session, Fields
  <2> HIDE DEF f
  <2>5. Bears(g, f) BY <2>3, <1>2, <1>3, SilentBears
  <2> QED BY <2>2, <2>4, <2>5, <1>2, <1>3, <1>4, BearsTrans DEF Kept
<1>6. h = f \/ h = g OBVIOUS
<1> HIDE DEF f, h
<1>7. /\ Bears(s, s') /\ s'.armed = s.armed /\ s'.id = s.id /\ (Persist(s') \/ UNCHANGED disk)
      /\ (Kept(s) => Kept(s'))
  BY <1>1, <1>3, <1>4, <1>5, <1>6 DEF Persist
<1> QED BY <1>1, <1>7, ExtractAnswers

LEMMA PassStepAnswers == ASSUME AInv, PassStep PROVE Answering'
<1>1. CASE Abandoned BY <1>1, AbandonedAnswers
<1>2. CASE Unmoved BY <1>2, UnmovedAnswers
<1>3. CASE Judge BY <1>3, JudgeAnswers
<1>4. CASE JudgeFails BY <1>4, JudgeFailsAnswers
<1>5. ASSUME NEW t \in Transitions,
             \/ \E reply \in Reply : Accepted(t, reply)
             \/ Blocked(t) \/ Continue(t) \/ AskAgain(t) \/ GiveUpAsking(t) \/ Escalate(t) \/ ActFails(t)
      PROVE  Answering'
  BY <1>5, VerdictsAnswer
<1>6. ASSUME NEW asks \in BOOLEAN, NEW unblocked \in SUBSET Item, Send(asks, unblocked) PROVE Answering'
  BY <1>6, SendAnswers
<1>7. ASSUME NEW new, Append1(new) \/ \E gone, revived \in SUBSET Item : Amend(gone, revived, new)
      PROVE  Answering'
  BY <1>7, Append1Answers, AmendAnswers
<1>8. CASE SendFails BY <1>8, SendFailsAnswers
<1> QED BY <1>1, <1>2, <1>3, <1>4, <1>5, <1>6, <1>7, <1>8 DEF PassStep

-----------------------------------------------------------------------------
(* The timer, a crash, and every step.                                      *)

LEMMA StaleTimerAnswers == ASSUME AInv, StaleTimer PROVE Answering'
<1> DEFINE g == [s EXCEPT !.timer = FALSE]
<1>1. s' = g /\ UNCHANGED <<chain, latest, disk, agent, running, open, ctx, arms>> BY DEF StaleTimer, TimerFires
<1>2. Session(s) /\ s.promptGen \in Nat /\ ctx \in Nat BY Standing
<1>3. Silent(s, g) /\ g.rows = s.rows /\ g.state = s.state /\ g.armed = s.armed /\ g.id = s.id
  BY <1>2, ExceptSilent DEF Session, Fields
<1> HIDE DEF g
<1>4. Carries(s') /\ Saved /\ (Kept(s) => Kept(s'))
  BY <1>1, <1>2, <1>3, SilentBears, BearsCarries DEF Saved, Kept, Holding
<1>5. Numbered' /\ Fresh' BY <1>1, <1>2, <1>4, CarryStep
<1>6. Attentive' BY <1>1, <1>4, SameNeedStep
<1>7. Outside' BY <1>1 DEF AInv, Outside
<1> QED BY <1>5, <1>6, <1>7 DEF Answering

(* A park ends: its pause is judged again, the agent goes on, or a question *)
(* of the user's is why it does not.                                        *)
LEMMA WakeAnswers == ASSUME AInv, Rejudge \/ WakeQuietly \/ Nudge PROVE Answering'
<1> DEFINE h == unparkIfParked(s)
<1>1. s' = h /\ Persist(h) /\ UNCHANGED <<running, open, ctx, arms>>
  BY DEF Rejudge, WakeQuietly, Nudge, Wake, TimerFires
<1>2. Session(s) /\ s.promptGen \in Nat /\ ctx \in Nat /\ IsSequence(chain) BY Standing
<1>3. Gentle(s, h) /\ h.rows = s.rows /\ Bears(s, h) BY <1>2, UnparkGentle, UnparkBears
<1> HIDE DEF h
<1>4. Carries(s') /\ Saved BY <1>1, <1>3, BearsCarries, PersistSaves DEF Gentle, Modest
<1>5. Numbered' /\ Fresh' BY <1>1, <1>2, <1>4, CarryStep
<1>6. CASE Rejudge
  <2>1. chain' = Append(chain, Turn(latest')) /\ UNCHANGED agent BY <1>6 DEF Rejudge, handleTurn
  <2>2. Serves(Turn(latest'), latest') BY DEF Serves
  <2>3. Coming' /\ IsSequence(chain') BY <2>1, <2>2, <1>2, Appending DEF Coming
  <2>4. Outside' BY <2>1, <2>3, <1>1 DEF AInv, Outside
  <2> QED BY <2>3, <2>4, <1>5, ComesStep DEF Answering
<1>7. CASE WakeQuietly
  <2>1. UNCHANGED <<chain, latest, agent>> /\ s.retry = 0 /\ ~Nudges BY <1>7 DEF WakeQuietly
  <2>2. Outside' BY <2>1, <1>1 DEF AInv, Outside
  <2>3. Relaying' => Relaying /\ s'.answer = s.answer BY <1>4, StillRelaying
  <2>4. ASSUME agent = "idle", Relaying PROVE Kept(s')
    <3>1. ~s.owed BY <2>1, <2>4 DEF AInv, Fresh
    <3>2. blockingQuestions(s) # 0 BY <3>1, <2>1 DEF Nudges
    <3>3. Holding(s) \/ PromptsIn(s.rows) # {} BY <3>2, <1>2, PendingHolds
    <3>4. PromptsIn(s.rows) \subseteq open BY DEF AInv, Inv, PromptsAreRows, RowPrompts, PromptsIn
    <3>5. Holding(s) BY <3>3, <3>4, <2>4 DEF AInv, Outside
    <3> QED BY <3>5, <1>1, <1>3 DEF Kept, Holding
  <2>5. Coming' <=> Coming BY <2>1 DEF Coming
  <2>6. Relaying' /\ Unshown' => Unshown BY <1>1, <1>4, <2>3 DEF Unshown, Mine, SameSession, Carries
  <2>7. s'.awaiting => s.awaiting BY <1>4 DEF Carries
  <2>8. Attentive' BY <2>1, <2>3, <2>4, <2>5, <2>6, <2>7 DEF AInv, Attentive
  <2> QED BY <2>2, <2>8, <1>5 DEF Answering
<1>8. CASE Nudge
  <2>1. Typed /\ UNCHANGED chain BY <1>8 DEF Nudge
  <2>2. agent' # "idle" /\ agent' \in {"working", "retrying", "cancelled", "unheard"}
    BY <2>1, TypedWorks
  <2>3. Outside' BY <2>1, <2>2, <1>1 DEF AInv, Outside
  <2> QED BY <2>2, <2>3, <1>5, WorksStep DEF Answering
<1> QED BY <1>6, <1>7, <1>8

LEMMA EmptyIsSequence == IsSequence(<<>>)
BY EmptySeq DEF IsSequence

(* A crash takes the session with it.                                       *)
LEMMA CrashAnswers == ASSUME AInv, Crash PROVE Answering'
<1>1. /\ s' = [Unarmed EXCEPT !.id = s.id] /\ chain' = <<>> /\ running' = Idle /\ agent' = "idle"
      /\ open' = {} /\ UNCHANGED <<disk, ctx, arms>>
  BY DEF Crash
<1>2. ctx \in Nat BY Standing
<1>3. /\ s'.armed = FALSE /\ s'.awaiting = FALSE /\ s'.answer = None /\ s'.promptGen = 0 /\ s'.id = s.id
  <2> HIDE DEF Unarmed
  <2> QED BY <1>1, UnarmedFields DEF Fields
<1>4. Saved BY <1>1 DEF Saved
<1>5. Numbered' /\ Fresh' /\ Attentive' BY <1>1, <1>2, <1>3, <1>4, OverStep
<1>6. Outside' BY <1>1, EmptyIsSequence DEF Outside
<1> QED BY <1>5, <1>6 DEF Answering

LEMMA InitAnswers == Init => AInv
<1> SUFFICES ASSUME Init PROVE AInv OBVIOUS
<1>1. Inv BY InitInv
<1>2. /\ s = Unarmed /\ chain = <<>> /\ running = Idle /\ agent \in {"idle", "working"} /\ open = {}
      /\ ctx = 0 /\ arms = 0 /\ disk = Record(Unarmed, FALSE, FALSE)
  BY DEF Init
<1>3. Unarmed.id = 0 BY DEF Unarmed
<1>4. disk.answer = None BY <1>2, UnarmedFields DEF Record
<1>5. running.pc = "idle" BY <1>2 DEF Idle
<1>6. s.armed = FALSE /\ s.awaiting = FALSE /\ s.answer = None /\ s.promptGen = 0 /\ s.id = 0
  BY <1>2, <1>3, UnarmedFields
<1>7. (\A pcs : ~Mine(pcs)) /\ ~Relaying BY <1>6 DEF Mine, SameSession, Relaying, AnswerWaits
<1>8. Numbered
  <2>1. ~Mine({"context", "judge"}) BY <1>7
  <2>2. arms \in Nat /\ ctx \in Nat /\ s.promptGen \in Nat /\ s.id \in Nat /\ s.id <= arms BY <1>2, <1>6
  <2> QED BY <1>4, <1>5, <1>6, <2>1, <2>2 DEF Numbered
<1>9. Outside BY <1>2, EmptyIsSequence DEF Outside
<1>10. Fresh BY <1>6, <1>7 DEF Fresh
<1>11. Attentive BY <1>6, <1>7 DEF Attentive
<1> QED BY <1>1, <1>8, <1>9, <1>10, <1>11 DEF AInv

LEMMA NextAnswers == AInv /\ [Next]_vars => AInv'
<1> SUFFICES ASSUME AInv, [Next]_vars PROVE AInv' OBVIOUS
<1>1. Inv' BY NextInv DEF AInv
<1>2. CASE UNCHANGED vars
  <2>1. UNCHANGED <<s, disk, chain, running, latest, agent, open, ctx, arms>> BY <1>2 DEF vars, engine, world
  <2>2. Carries(s') /\ Saved /\ ctx' \in Nat BY <2>1, Standing DEF Saved
  <2>3. Numbered' /\ Fresh' BY <2>1, <2>2, CarryStep
  <2>4. Kept(s) => Kept(s') BY <2>1
  <2>5. Attentive' BY <2>1, <2>2, <2>4, SameNeedStep
  <2>6. Outside' BY <2>1 DEF AInv, Outside
  <2> QED BY <1>1, <2>3, <2>5, <2>6 DEF AInv
<1>3. CASE Next
  <2>1. Answering'
    BY <1>3, UserAnswers, AgentAnswers, ChainAnswers, PassStepAnswers, StaleTimerAnswers, WakeAnswers, CrashAnswers
    DEF Next, Timer
  <2> QED BY <1>1, <2>1 DEF AInv, Answering
<1> QED BY <1>2, <1>3

-----------------------------------------------------------------------------
(* An answer given to an ask is never left with nothing that would relay    *)
(* it: whichever judge, snapshot, park, crash, re-arm, prompt or limit it   *)
(* came in between of (parkAskAnswer, maybeRelayNow, onParkTimer).          *)
THEOREM AnswersArePassedOn == Spec => []AnswerHasProducer
<1>1. Spec => []AInv BY InitAnswers, NextAnswers, PTL DEF Spec
<1> QED BY <1>1, AnswerIsAttended, PTL
=============================================================================
