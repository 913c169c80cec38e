-------------------------- MODULE TeacherTabProofs --------------------------
(***************************************************************************)
(* Proofs about the browser tab of app/src/App.tsx, for all lessons,       *)
(* revisions, clicks, failures, requests under way and timers without a    *)
(* handle, and for answers in every order. Four inductive invariants:      *)
(*                                                                         *)
(*   Typed          the types, and which requests and answers there can be *)
(*   PollingIsAlive a poll has a timer or a request                        *)
(*   Buttons        a flag is set while its request is under way           *)
(*   Content        an empty page has asked for its lesson                 *)
(***************************************************************************)
EXTENDS TeacherTab, SequenceTheorems, FiniteSetTheorems, TLAPS
-----------------------------------------------------------------------------
(* Types. *)

Message == [kind : Kinds, lesson : Lessons, revision : Nat, answer : Answered]

Docs == [of : Lessons, revision : Nat \ {0}] \cup {NoDoc}
Cards == [status : {"none", "absent", "ready"} \cup Open \cup Closed, revision : Nat]

Exists(l) == row[l].status # "absent"

(* The answer tells the state of the lesson. *)
Tells(m) == m.kind \notin Lists /\ m.answer.outcome = "ok"

Sound(m) ==
  Tells(m) => m.answer.status \in {"ready"} \cup Open \cup Closed /\ m.answer.revision # 0

Queue == Seq({m \in Message : Sound(m)})

RowsBegin ==
  \A l \in Lessons : /\ Exists(l) <=> row[l].revision # 0
                     /\ row[l].source # 0 => Exists(l)

(* Only a lesson that is there is reviewed. *)
ReviewsHere == \A i \in DOMAIN net : net[i].kind \in Reviews => current # NoLesson

Typed ==
  /\ TypeOK
  /\ RowsBegin
  /\ net \in Queue
  /\ ReviewsHere

(* The place in s of the k-th element of s without its i-th. *)
Place(i, k) == IF k < i THEN k ELSE k + 1

LEMMA WithoutOne ==
  ASSUME NEW S, NEW s \in Seq(S), NEW i \in DOMAIN s
  PROVE  /\ RemoveAt(s, i) \in Seq(S)
         /\ Len(RemoveAt(s, i)) = Len(s) - 1
         /\ \A k \in 1 .. Len(s) - 1 : /\ Place(i, k) \in DOMAIN s \ {i}
                                       /\ RemoveAt(s, i)[k] = s[Place(i, k)]
         /\ \A k \in DOMAIN s \ {i} :
              \E c \in 1 .. Len(s) - 1 : Place(i, c) = k
<1> DEFINE a == SubSeq(s, 1, i - 1)
           b == SubSeq(s, i + 1, Len(s))
<1>1. Len(s) \in Nat /\ i \in Nat /\ i >= 1 /\ i <= Len(s) /\ DOMAIN s = 1 .. Len(s)
  BY LenProperties
<1>2. \A k \in 1 .. i - 1 : s[k] \in S
  BY <1>1, ElementOfSeq
<1>3. /\ a \in Seq(S) /\ Len(a) = i - 1
      /\ \A k \in 1 .. i - 1 : a[k] = s[k]
  BY <1>1, <1>2, SubSeqProperties
<1>4. \A k \in i + 1 .. Len(s) : s[k] \in S
  BY <1>1, ElementOfSeq
<1>5. /\ b \in Seq(S) /\ Len(b) = Len(s) - i
      /\ \A k \in 1 .. Len(s) - i : b[k] = s[i + k]
  <2>1. /\ b \in Seq(S) /\ Len(b) = (IF i + 1 <= Len(s) THEN Len(s) - (i + 1) + 1 ELSE 0)
        /\ \A k \in 1 .. Len(s) - (i + 1) + 1 : b[k] = s[(i + 1) + k - 1]
    BY <1>1, <1>4, SubSeqProperties
  <2> HIDE DEF b
  <2>2. Len(s) - (i + 1) + 1 = Len(s) - i /\ (i + 1 > Len(s) => Len(s) - i = 0)
    BY <1>1
  <2>3. \A k \in 1 .. Len(s) - i : (i + 1) + k - 1 = i + k
    BY <1>1
  <2> QED BY <2>1, <2>2, <2>3
<1> HIDE DEF a, b
<1>6. /\ a \o b \in Seq(S) /\ Len(a \o b) = Len(s) - 1
      /\ \A k \in 1 .. Len(s) - 1 : (a \o b)[k] = IF k <= i - 1 THEN a[k] ELSE b[k - (i - 1)]
  <2>1. /\ a \o b \in Seq(S) /\ Len(a \o b) = Len(a) + Len(b)
        /\ \A k \in 1 .. Len(a) + Len(b) :
             (a \o b)[k] = IF k <= Len(a) THEN a[k] ELSE b[k - Len(a)]
    BY <1>3, <1>5, ConcatProperties
  <2>2. Len(a) + Len(b) = Len(s) - 1
    BY <1>1, <1>3, <1>5
  <2> QED BY <1>3, <2>1, <2>2
<1>7. ASSUME NEW k \in 1 .. Len(s) - 1
      PROVE  Place(i, k) \in DOMAIN s \ {i} /\ (a \o b)[k] = s[Place(i, k)]
  <2>0. k \in Nat /\ k >= 1 /\ k <= Len(s) - 1 /\ (k < i \/ k >= i)
    BY <1>1
  <2>1. CASE k < i
    BY <1>1, <1>3, <1>6, <2>0, <2>1 DEF Place
  <2>2. CASE k >= i
    <3>1. k - (i - 1) \in 1 .. Len(s) - i /\ i + (k - (i - 1)) = k + 1
      BY <1>1, <2>0, <2>2
    <3>2. b[k - (i - 1)] = s[k + 1]
      BY <1>5, <3>1
    <3> QED BY <1>1, <1>6, <2>0, <2>2, <3>2 DEF Place
  <2> QED BY <2>0, <2>1, <2>2
<1>8. ASSUME NEW k \in DOMAIN s \ {i}
      PROVE  \E c \in 1 .. Len(s) - 1 : Place(i, c) = k
  <2>1. CASE k < i
    BY <1>1, <2>1 DEF Place
  <2>2. CASE k > i
    <3>1. k - 1 \in 1 .. Len(s) - 1 /\ Place(i, k - 1) = k
      BY <1>1, <2>2 DEF Place
    <3> QED BY <3>1
  <2> QED BY <1>1, <2>1, <2>2
<1> QED BY <1>6, <1>7, <1>8 DEF RemoveAt, a, b

-----------------------------------------------------------------------------
(* The queue. *)

(* The queue after a step: m is new, the others are those of "queue". *)
Joined(queue, m) ==
  /\ net' \in Queue
  /\ Len(net') = Len(queue) + 1
  /\ \A k \in 1 .. Len(queue) : net'[k] = queue[k]
  /\ net'[Len(queue) + 1] = m

LEMMA QueueIsTyped ==
  ASSUME NEW queue \in Queue
  PROVE  /\ queue \in Seq(Message) /\ Len(queue) \in Nat /\ DOMAIN queue = 1 .. Len(queue)
         /\ \A k \in 1 .. Len(queue) : queue[k] \in Message /\ Sound(queue[k])
<1>1. /\ Len(queue) \in Nat /\ DOMAIN queue = 1 .. Len(queue)
      /\ \A k \in 1 .. Len(queue) : queue[k] \in {m \in Message : Sound(m)}
  BY LenProperties, ElementOfSeq DEF Queue
<1>2. queue = [k \in 1 .. Len(queue) |-> queue[k]]
  BY <1>1 DEF Queue
<1> QED BY <1>1, <1>2, IsASeq

LEMMA Joins ==
  ASSUME NEW queue \in Queue, NEW m \in Message, Sound(m), Sent(queue, m)
  PROVE  Joined(queue, m)
  BY AppendProperties DEF Queue, Sent, Joined

LEMMA OthersAre ==
  ASSUME net \in Queue, NEW i \in DOMAIN net
  PROVE  /\ Others(i) \in Queue
         /\ Len(Others(i)) = Len(net) - 1
         /\ \A k \in 1 .. Len(net) - 1 : /\ Place(i, k) \in DOMAIN net \ {i}
                                         /\ Others(i)[k] = net[Place(i, k)]
         /\ \A k \in DOMAIN net \ {i} : \E c \in 1 .. Len(net) - 1 : Place(i, c) = k
  BY WithoutOne DEF Queue, Others

LEMMA AnswerKeeps ==
  ASSUME net \in Queue, NEW i \in DOMAIN net, NEW a \in Answered, Answers(i, a),
         Sound([net[i] EXCEPT !.answer = a])
  PROVE  /\ net' \in Queue
         /\ DOMAIN net' = DOMAIN net
         /\ Len(net') = Len(net)
         /\ net'[i].answer = a
         /\ \A k \in DOMAIN net : k # i => net'[k] = net[k]
         /\ \A k \in DOMAIN net : /\ net'[k].kind = net[k].kind
                                  /\ net'[k].lesson = net[k].lesson
                                  /\ net'[k].revision = net[k].revision
<1> DEFINE m == [net[i] EXCEPT !.answer = a]
<1>1. net[i] \in Message /\ Len(net) \in Nat /\ DOMAIN net = 1 .. Len(net)
  BY ElementOfSeq, LenProperties DEF Queue
<1>2. m \in Message /\ m.answer = a /\ m.kind = net[i].kind
      /\ m.lesson = net[i].lesson /\ m.revision = net[i].revision
  BY <1>1 DEF Message
<1>3. Sound(m)
  OBVIOUS
<1> HIDE DEF m
<1>4. net' = [net EXCEPT ![i] = m]
  BY DEF Answers, m
<1>5. net' \in Queue /\ Len(net') = Len(net)
  BY <1>1, <1>2, <1>3, <1>4, ExceptSeq DEF Queue
<1> QED BY <1>1, <1>2, <1>4, <1>5

-----------------------------------------------------------------------------
(* The server. *)

LEMMA Advances ==
  ASSUME row \in [Lessons -> Rows], RowsBegin, NEW l \in Lessons,
         NEW s \in {"ready"} \cup Open \cup Closed, Advance(l, s)
  PROVE  /\ row' \in [Lessons -> Rows] /\ RowsBegin'
         /\ row'[l] = [status |-> s, revision |-> row[l].revision + 1, source |-> row[l].source]
         /\ \A k \in Lessons : k # l => row'[k] = row[k]
         /\ row'[l] \in Rows /\ row'[l].status \notin Gone /\ row'[l].revision # 0
<1>1. row[l] \in Rows
  OBVIOUS
<1>2. row' = [row EXCEPT ![l] = [status |-> s, revision |-> row[l].revision + 1,
                                source |-> row[l].source]]
  BY <1>1 DEF Advance, Rows
<1>3. s \notin Gone
  BY DEF Open, Closed, Gone
<1> QED BY <1>1, <1>2, <1>3 DEF Rows, Gone, RowsBegin, Exists

LEMMA RequestFits ==
  ASSUME Typed, NEW i \in DOMAIN net
  PROVE  /\ net[i] \in Message /\ Sound(net[i])
         /\ net[i].lesson \in Lessons
         /\ row[net[i].lesson] \in Rows
         /\ net[i].answer \in Answered
  BY ElementOfSeq, LenProperties DEF Typed, TypeOK, Queue, Message

(* What an answer to a request is, and what it does to the lesson. *)
LEMMA HandleTyped ==
  ASSUME Typed, NEW i \in DOMAIN net, Handle(i)
  PROVE  /\ row' \in [Lessons -> Rows] /\ RowsBegin'
         /\ \E a \in Answered : Answers(i, a) /\ Sound([net[i] EXCEPT !.answer = a])
<1> DEFINE m == net[i]
           l == m.lesson
<1>1. /\ m \in Message /\ Sound(m) /\ l \in Lessons /\ row[l] \in Rows
      /\ row \in [Lessons -> Rows] /\ RowsBegin
  BY RequestFits DEF Typed, TypeOK
<1>2. /\ Refused \in Answered /\ Missing \in Answered /\ Failed \in Answered
      /\ Refused.outcome # "ok" /\ Missing.outcome # "ok" /\ Failed.outcome # "ok"
  BY DEF Refused, Missing, Failed, Pending, Answered
<1>3. ASSUME NEW r \in Rows, r.status \notin Gone, r.revision # 0
      PROVE  /\ Payload(r) \in Answered
             /\ Payload(r).status \in {"ready"} \cup Open \cup Closed
             /\ Payload(r).revision # 0
  BY <1>3 DEF Payload, Answered, Rows, Gone, Open, Closed
<1>4. ASSUME NEW a \in Answered,
             a.outcome = "ok" /\ m.kind \notin Lists =>
               a.status \in {"ready"} \cup Open \cup Closed /\ a.revision # 0
      PROVE  Sound([m EXCEPT !.answer = a])
  BY <1>1, <1>4 DEF Sound, Tells, Message
<1>15. row[l].status \notin Gone => row[l].revision # 0
  BY <1>1 DEF RowsBegin, Exists, Gone
<1> HIDE DEF m
<1>5. CASE HandleRead(i)
  BY <1>1, <1>2, <1>3, <1>4, <1>5, <1>15 DEF HandleRead, RowsBegin, Exists, m
<1>16. CASE HandleGone(i)
  BY <1>1, <1>2, <1>4, <1>16 DEF HandleGone, RowsBegin, Exists, m
<1>6. CASE HandleCancel(i)
  <2>1. CASE UNCHANGED row /\ Answers(i, Refused)
    BY <1>1, <1>2, <1>4, <2>1 DEF m, RowsBegin, Exists
  <2>2. CASE UNCHANGED row /\ row[l].status = "cancelled" /\ Answers(i, Payload(row[l]))
    BY <1>1, <1>3, <1>4, <1>6, <1>15, <2>2 DEF m, HandleCancel, RowsBegin, Exists
  <2>3. CASE Advance(l, "cancelled") /\ Answers(i, Payload(row'[l]))
    <3>1. row' \in [Lessons -> Rows] /\ RowsBegin' /\ row'[l] \in Rows
          /\ row'[l].status \notin Gone /\ row'[l].revision # 0
      BY <1>1, <2>3, Advances DEF Closed
    <3> QED BY <1>3, <1>4, <2>3, <3>1 DEF m
  <2> QED BY <1>6, <2>1, <2>2, <2>3 DEF HandleCancel, m
<1>7. CASE HandleRetry(i)
  <2>1. CASE UNCHANGED row /\ Answers(i, Refused)
    BY <1>1, <1>2, <1>4, <2>1 DEF m, RowsBegin, Exists
  <2>2. CASE UNCHANGED row /\ row[l].source = m.revision /\ Answers(i, Payload(row[l]))
    BY <1>1, <1>3, <1>4, <1>7, <1>15, <2>2 DEF HandleRetry, m, RowsBegin, Exists
  <2>3. CASE row' = [row EXCEPT ![l] = Requeued(@)] /\ Answers(i, Payload(row'[l]))
    <3>1. row' = [row EXCEPT ![l] = Requeued(row[l])] /\ Requeued(row[l]) \in Rows
          /\ Requeued(row[l]).status = "draft" /\ Requeued(row[l]).revision # 0
          /\ row[l].status \notin Gone
      BY <1>1, <1>7, <2>3 DEF HandleRetry, Requeued, Rows, Open, m
    <3>2. row' \in [Lessons -> Rows] /\ RowsBegin' /\ row'[l] \in Rows
          /\ row'[l].status \notin Gone /\ row'[l].revision # 0
      BY <1>1, <3>1 DEF RowsBegin, Exists, Gone
    <3> QED BY <1>3, <1>4, <2>3, <3>2 DEF m
  <2> QED BY <1>7, <2>1, <2>2, <2>3 DEF HandleRetry, m
<1>8. CASE HandleReview(i)
  <2>1. CASE UNCHANGED row /\ (Answers(i, Refused) \/ Answers(i, Failed))
    BY <1>1, <1>2, <1>4, <2>1 DEF m, RowsBegin, Exists
  <2>2. CASE Advance(l, "ready") /\ Answers(i, Payload(row'[l]))
    <3>1. row' \in [Lessons -> Rows] /\ RowsBegin' /\ row'[l] \in Rows
          /\ row'[l].status \notin Gone /\ row'[l].revision # 0
      BY <1>1, <2>2, Advances
    <3> QED BY <1>3, <1>4, <2>2, <3>1 DEF m
  <2> QED BY <1>8, <2>1, <2>2 DEF HandleReview, m
<1>9. CASE HandleCreate(i)
  <2>1. row' \in [Lessons -> Rows] /\ RowsBegin' /\ row'[l] \in Rows
        /\ row'[l].status \notin Gone /\ row'[l].revision # 0
    <3>1. Advance(l, "draft")
      BY <1>9 DEF HandleCreate, m
    <3> QED BY <1>1, <3>1, Advances DEF Open
  <2> QED BY <1>3, <1>4, <1>9, <2>1 DEF HandleCreate, m
<1> QED BY <1>5, <1>6, <1>7, <1>8, <1>9, <1>16 DEF Handle

LEMMA HandleKeepsTypes ==
  ASSUME Typed, NEW i \in DOMAIN net, Handle(i)
  PROVE  Typed'
<1>1. PICK a \in Answered : Answers(i, a) /\ Sound([net[i] EXCEPT !.answer = a])
  BY HandleTyped
<1>2. net' \in Queue /\ DOMAIN net' = DOMAIN net /\ \A k \in DOMAIN net : net'[k].kind = net[k].kind
  BY <1>1, AnswerKeeps DEF Typed
<1>3. row' \in [Lessons -> Rows] /\ RowsBegin'
  BY HandleTyped
<1>4. net' \in Seq(Message)
  BY <1>2, QueueIsTyped
<1>5. TypeOK'
  BY <1>3, <1>4 DEF Handle, Typed, TypeOK, shown, poll, Message
<1> QED BY <1>2, <1>3, <1>5 DEF Handle, Typed, ReviewsHere, shown

-----------------------------------------------------------------------------
(* The tab. *)

(* Nothing in the queue is new. *)
Kept(queue) ==
  queue \in Queue /\ \A k \in 1 .. Len(queue) : \E j \in DOMAIN net : queue[k] = net[j]

LEMMA QueuesKept ==
  ASSUME Typed
  PROVE  Kept(net) /\ \A i \in DOMAIN net : Kept(Others(i))
<1>1. Kept(net)
  BY QueueIsTyped DEF Kept, Typed
<1>2. ASSUME NEW i \in DOMAIN net
      PROVE  Kept(Others(i))
  <2>1. /\ Others(i) \in Queue /\ Len(Others(i)) = Len(net) - 1
        /\ \A k \in 1 .. Len(net) - 1 : /\ Place(i, k) \in DOMAIN net
                                        /\ Others(i)[k] = net[Place(i, k)]
    BY OthersAre DEF Typed
  <2> HIDE DEF Others
  <2> QED BY <2>1 DEF Kept
<1> QED BY <1>1, <1>2

Arrived == current # NoLesson => current' # NoLesson

LEMMA QueueShrinks ==
  ASSUME Typed, NEW queue, Kept(queue), net' = queue, Arrived
  PROVE  net' \in Queue /\ net' \in Seq(Message) /\ ReviewsHere'
  BY QueueIsTyped DEF Kept, Typed, ReviewsHere, Arrived

LEMMA QueueGrows ==
  ASSUME Typed, NEW queue, Kept(queue), NEW m \in Message, Sound(m), Sent(queue, m), Arrived,
         m.kind \in Reviews => current' # NoLesson
  PROVE  net' \in Queue /\ net' \in Seq(Message) /\ ReviewsHere'
<1>1. Joined(queue, m)
  BY Joins DEF Kept
<1>2. net' \in Seq(Message) /\ DOMAIN net' = 1 .. Len(net')
  BY <1>1, QueueIsTyped DEF Joined
<1>3. Len(queue) \in Nat
  BY QueueIsTyped DEF Kept
<1>4. \A k \in DOMAIN net' : net'[k].kind \in Reviews => current' # NoLesson
  BY <1>1, <1>2, <1>3 DEF Joined, Kept, Typed, ReviewsHere, Arrived
<1> QED BY <1>1, <1>2, <1>4 DEF Joined, ReviewsHere

(* What the tab sends in passing. *)
Ask(k, l) == IF k \in Lists THEN Listing(k, l) ELSE Request(k, l)

LEMMA PendingIsSound == Pending \in Answered /\ Pending.outcome # "ok"
  BY DEF Pending, Answered

LEMMA PlainRequest ==
  ASSUME NEW k \in Looks \cup {"get", "create"}, NEW l \in Lessons
  PROVE  /\ Request(k, l) \in Message /\ Sound(Request(k, l))
         /\ Request(k, l).kind = k /\ Request(k, l).lesson = l
         /\ k \notin Reviews
<1>1. k \in Kinds /\ k \notin Reviews
  BY DEF Kinds, Looks, Reviews
<1> HIDE DEF Pending
<1> QED BY <1>1, PendingIsSound DEF Request, Mutation, Message, Sound, Tells

LEMMA ListRequest ==
  ASSUME NEW k \in Lists, NEW l \in Lessons
  PROVE  /\ Listing(k, l) \in Message /\ Sound(Listing(k, l))
         /\ Listing(k, l).kind = k /\ Listing(k, l).lesson = l
         /\ k \notin Reviews
<1>1. k \in Kinds /\ k \notin Reviews
  BY DEF Kinds, Lists, Reviews
<1>2. Listing(k, l) = [kind |-> k, lesson |-> l, revision |-> 0,
                       answer |-> [outcome |-> "ok", status |-> "none", revision |-> 0]]
  BY DEF Listing, Request, Mutation, Pending
<1> QED BY <1>1, <1>2 DEF Message, Answered, Sound, Tells

LEMMA Asks ==
  ASSUME NEW l
  PROVE  /\ \A k \in Looks \cup {"get"} : Ask(k, l) = Request(k, l)
         /\ \A k \in Lists : Ask(k, l) = Listing(k, l)
  BY DEF Ask, Looks, Lists

LEMMA AskedRequest ==
  ASSUME NEW k \in Looks \cup Lists \cup {"get"}, NEW l \in Lessons
  PROVE  /\ Ask(k, l) \in Message /\ Sound(Ask(k, l))
         /\ Ask(k, l).kind = k /\ Ask(k, l).lesson = l
         /\ k \notin Reviews
  BY PlainRequest, ListRequest DEF Ask

LEMMA MutationRequest ==
  ASSUME NEW k \in Reviews \cup {"cancel", "retry"}, NEW l \in Lessons, NEW r \in Nat
  PROVE  Mutation(k, l, r) \in Message /\ Sound(Mutation(k, l, r))
         /\ Mutation(k, l, r).kind = k
<1>1. k \in Kinds
  BY DEF Kinds
<1> HIDE DEF Pending
<1> QED BY <1>1, PendingIsSound DEF Mutation, Message, Sound, Tells

LEMMA TabFits ==
  ASSUME Typed
  PROVE  /\ NoLesson \notin Lessons
         /\ page \in Lessons \cup {NoLesson} /\ current \in Lessons \cup {NoLesson}
         /\ active \in Lessons \cup {NoLesson} /\ timer \in Lessons \cup {NoLesson}
         /\ lesson \in Docs
         /\ card \in Cards
         /\ strays \in [Lessons -> Nat]
         /\ loading \in BOOLEAN /\ mutating \in BOOLEAN
         /\ dirty \subseteq {"page", "poll"} /\ clicks \in Nat /\ failures \in Nat
         /\ Len(net) \in Nat /\ DOMAIN net = 1 .. Len(net)
  BY TabBoundsAssumption, QueueIsTyped DEF Typed, TypeOK, Docs, Cards

(* What a step of the tab must leave behind. *)
LEMMA TabKeepsTypes ==
  ASSUME Typed, UNCHANGED row, net' \in Queue, net' \in Seq(Message), ReviewsHere',
         page' \in Lessons \cup {NoLesson}, current' \in Lessons \cup {NoLesson},
         active' \in Lessons \cup {NoLesson}, timer' \in Lessons \cup {NoLesson},
         lesson' \in Docs,
         card' \in Cards,
         strays' \in [Lessons -> Nat], loading' \in BOOLEAN, mutating' \in BOOLEAN,
         dirty' \subseteq {"page", "poll"}, clicks' \in Nat, failures' \in Nat
  PROVE  Typed'
<1>1. RowsBegin'
  BY DEF Typed, RowsBegin, Exists
<1> QED BY <1>1 DEF Typed, TypeOK, Message, Docs, Cards

LEMMA CommitsFits ==
  ASSUME NEW waiting \in SUBSET {"page", "poll"}, Commits(waiting)
  PROVE  dirty' \subseteq {"page", "poll"}
  BY DEF Commits

LEMMA OpenLessonTyped ==
  ASSUME Typed, NEW l \in Lessons, NEW captured, NEW d, NEW c, NEW queue,
         d \in Docs,
         c \in Cards,
         Kept(queue), Arrived, OpenLesson(l, captured, d, c, queue)
  PROVE  /\ net' \in Queue /\ net' \in Seq(Message) /\ ReviewsHere'
         /\ lesson' \in Docs
         /\ card' \in Cards
         /\ loading' \in BOOLEAN
<1>1. /\ Request("get", l) \in Message /\ Sound(Request("get", l))
      /\ Request("get", l).kind = "get"
  BY PlainRequest
<1>2. Request("get", l).kind \notin Reviews
  BY <1>1 DEF Reviews
<1>3. Sent(queue, Request("get", l))
  BY DEF OpenLesson
<1>4. net' \in Queue /\ net' \in Seq(Message) /\ ReviewsHere'
  BY <1>1, <1>2, <1>3, QueueGrows
<1>5. NoDoc \in Docs /\ NoCard \in Cards
  BY DEF Docs, NoCard, Cards
<1> QED BY <1>4, <1>5 DEF OpenLesson

LEMMA AnswerTyped ==
  ASSUME Typed, NEW i \in DOMAIN net, net[i].answer.outcome = "ok", net[i].kind \notin Lists
  PROVE  /\ net[i].answer.status \in {"ready"} \cup Open \cup Closed
         /\ net[i].answer.revision \in Nat \ {0}
  BY RequestFits DEF Sound, Tells, Answered

LEMMA DeliverKeepsTypes ==
  ASSUME Typed, NEW i \in DOMAIN net, Deliver(i)
  PROVE  Typed'
<1> DEFINE m == net[i]
           l == m.lesson
<1>1. l \in Lessons /\ Kept(Others(i))
  BY RequestFits, QueuesKept
<1>2. /\ UNCHANGED row /\ dirty' \subseteq {"page", "poll"} /\ clicks' \in Nat /\ failures' \in Nat
  BY TabFits, CommitsFits DEF Deliver, Ends
<1>3. ASSUME m.answer.outcome = "ok", m.kind \notin Lists
      PROVE  m.answer.status \in {"ready"} \cup Open \cup Closed /\ m.answer.revision \in Nat \ {0}
  BY <1>3, AnswerTyped
<1>4. CASE GetReturns(i)
  <2>1. CASE m.answer.outcome = "ok" /\ Shows(l, m.answer.revision) /\ Finally(i)
    <3>1. Arrived
      BY <1>1, <2>1, TabFits DEF Shows, Arrived
    <3>2. net' \in Queue /\ net' \in Seq(Message) /\ ReviewsHere'
      BY <1>1, <2>1, <3>1, QueueShrinks DEF Finally
    <3>3. m.kind \notin Lists
      BY <1>4 DEF GetReturns, Lists
    <3>4. Resource(l, m.answer.revision) \in [of : Lessons, revision : Nat \ {0}]
      BY <1>1, <1>3, <2>1, <3>3 DEF Resource
    <3>5. lesson' \in Docs /\ card' \in Cards
      BY <2>1, <3>4 DEF Shows, Docs, NoCard, Cards
    <3> QED BY <1>1, <1>2, <1>4, <2>1, <3>2, <3>5, TabFits, TabKeepsTypes
            DEF GetReturns, Shows, Finally, poll
  <2>2. CASE /\ lesson' = NoDoc /\ current' = l /\ page' = l
             /\ Sent(Others(i), Request("state", l)) /\ UNCHANGED <<card, loading>>
    <3>1. Arrived
      BY <1>1, <2>2, TabFits DEF Arrived
    <3>2. Request("state", l) \in Message /\ Sound(Request("state", l))
          /\ Request("state", l).kind \notin Reviews
      BY <1>1, PlainRequest DEF Looks, Reviews
    <3>3. net' \in Queue /\ net' \in Seq(Message) /\ ReviewsHere'
      BY <1>1, <2>2, <3>1, <3>2, QueueGrows
    <3>4. lesson' \in Docs
      BY <2>2 DEF Docs
    <3> QED BY <1>1, <1>2, <1>4, <2>2, <3>3, <3>4, TabFits, TabKeepsTypes DEF GetReturns, poll
  <2>3. CASE Finally(i) /\ UNCHANGED shown
    <3>1. net' \in Queue /\ net' \in Seq(Message) /\ ReviewsHere'
      BY <1>1, <2>3, QueueShrinks DEF Finally, shown, Arrived
    <3> QED BY <1>2, <1>4, <2>3, <3>1, TabFits, TabKeepsTypes DEF GetReturns, Finally, shown, poll
  <2> QED BY <1>4, <2>1, <2>2, <2>3 DEF GetReturns
<1>5. CASE StateReturns(i)
  <2>1. net' \in Queue /\ net' \in Seq(Message) /\ ReviewsHere'
    BY <1>1, <1>5, QueueShrinks DEF StateReturns, Finally, Arrived
  <2>2. m.kind \notin Lists
    BY <1>5 DEF StateReturns, Lists
  <2>3. card' \in Cards
    BY <1>1, <1>3, <1>5, <2>2 DEF StateReturns, Card, Guess, Open, Closed, Over, Cards
  <2>4. active' \in Lessons \cup {NoLesson} /\ timer' \in Lessons \cup {NoLesson} /\ strays' = strays
    BY <1>1, <1>5, TabFits DEF StateReturns, PollStatus, poll
  <2> QED BY <1>2, <1>5, <2>1, <2>3, <2>4, TabFits, TabKeepsTypes DEF StateReturns, Finally
<1>6. CASE TickReturns(i)
  <2>0. m.kind \notin Lists /\ UNCHANGED <<page, current, mutating>> /\ Arrived
    BY <1>6 DEF TickReturns, Lists, Arrived
  <2>1. CASE net' = Others(i) /\ UNCHANGED <<lesson, card, poll, loading>>
    <3>1. net' \in Queue /\ net' \in Seq(Message) /\ ReviewsHere'
      BY <1>1, <2>0, <2>1, QueueShrinks
    <3> QED BY <1>2, <2>0, <2>1, <3>1, TabFits, TabKeepsTypes DEF poll
  <2>2. Heard(m.answer) \in Cards
    BY <1>3, <2>0, TabFits, RequestFits DEF Heard, Blank, Guess, Card, Cards, Open
  <2>3. CASE /\ ClearPoll
             /\ \E captured \in {l, NoLesson} :
                  OpenLesson(l, captured, lesson, Heard(m.answer), Others(i))
    <3>1. PICK captured : OpenLesson(l, captured, lesson, Heard(m.answer), Others(i))
      BY <2>3
    <3>2. /\ net' \in Queue /\ net' \in Seq(Message) /\ ReviewsHere'
          /\ lesson' \in Docs /\ card' \in Cards /\ loading' \in BOOLEAN
      BY <1>1, <2>0, <2>2, <3>1, TabFits, OpenLessonTyped
    <3> QED BY <1>2, <2>0, <2>3, <3>2, TabFits, TabKeepsTypes DEF ClearPoll
  <2>4. CASE /\ net' = Others(i) /\ UNCHANGED <<lesson, loading>>
             /\ ClearPoll \/ Schedule(l)
             /\ card' = Heard(m.answer)
    <3>1. net' \in Queue /\ net' \in Seq(Message) /\ ReviewsHere'
      BY <1>1, <2>0, <2>4, QueueShrinks
    <3>2. /\ active' \in Lessons \cup {NoLesson} /\ timer' \in Lessons \cup {NoLesson}
          /\ strays' \in [Lessons -> Nat]
      BY <1>1, <2>4, TabFits DEF ClearPoll, Schedule
    <3> QED BY <1>2, <2>0, <2>2, <2>4, <3>1, <3>2, TabFits, TabKeepsTypes
  <2> QED BY <1>6, <2>1, <2>3, <2>4 DEF TickReturns
<1>7. CASE MutationReturns(i)
  <2>0. m.kind \notin Lists /\ UNCHANGED <<page, poll, loading>>
    BY <1>7 DEF MutationReturns, Lists
  <2>1. CASE /\ m.answer.outcome = "ok" /\ card' = Card(m.answer.status, m.answer.revision)
             /\ current' = l /\ lesson' = NoDoc /\ UNCHANGED mutating
             /\ \E k \in Lists : Sent(Others(i), Listing(k, l))
    <3>1. PICK k \in Lists : Sent(Others(i), Listing(k, l))
      BY <2>1
    <3>2. Listing(k, l) \in Message /\ Sound(Listing(k, l)) /\ Listing(k, l).kind \notin Reviews
      BY <1>1, ListRequest
    <3>3. Arrived
      BY <1>1, <2>1, TabFits DEF Arrived
    <3>4. net' \in Queue /\ net' \in Seq(Message) /\ ReviewsHere'
      BY <1>1, <3>1, <3>2, <3>3, QueueGrows
    <3>5. card' \in Cards /\ lesson' \in Docs
      BY <1>1, <1>3, <2>0, <2>1 DEF Card, Cards, Docs
    <3> QED BY <1>1, <1>2, <2>0, <2>1, <3>4, <3>5, TabFits, TabKeepsTypes DEF poll
  <2>2. CASE Sent(Others(i), Request("recheck", l)) /\ UNCHANGED <<card, current, lesson, mutating>>
    <3>1. Request("recheck", l) \in Message /\ Sound(Request("recheck", l))
          /\ Request("recheck", l).kind \notin Reviews
      BY <1>1, PlainRequest DEF Looks, Reviews
    <3>2. net' \in Queue /\ net' \in Seq(Message) /\ ReviewsHere'
      BY <1>1, <2>2, <3>1, QueueGrows DEF Arrived
    <3> QED BY <1>2, <2>0, <2>2, <3>2, TabFits, TabKeepsTypes DEF poll
  <2>3. CASE mutating' = FALSE /\ net' = Others(i) /\ UNCHANGED <<card, current, lesson>>
    <3>1. net' \in Queue /\ net' \in Seq(Message) /\ ReviewsHere'
      BY <1>1, <2>3, QueueShrinks DEF Arrived
    <3> QED BY <1>2, <2>0, <2>3, <3>1, TabFits, TabKeepsTypes DEF poll
  <2>4. \A k \in {"listOpen", "listClosed"} : k \in Lists
    BY DEF Lists
  <2> QED BY <1>7, <2>1, <2>2, <2>3, <2>4 DEF MutationReturns
<1>8. CASE MutationEnds(i)
  <2>0. /\ UNCHANGED <<page, current, lesson, loading>> /\ net' = Others(i) /\ mutating' = FALSE
    BY <1>8 DEF MutationEnds
  <2>1. net' \in Queue /\ net' \in Seq(Message) /\ ReviewsHere'
    BY <1>1, <2>0, QueueShrinks DEF Arrived
  <2>2. active' \in Lessons \cup {NoLesson} /\ timer' \in Lessons \cup {NoLesson} /\ strays' = strays
    BY <1>1, <1>8, TabFits DEF MutationEnds, PollStatus, ClearPoll, poll
  <2>3. card' \in Cards
    <3>1. CASE m.kind = "recheck" /\ m.answer.outcome = "ok"
      BY <1>1, <1>3, <1>8, <3>1 DEF MutationEnds, Card, Lists, Cards
    <3>2. CASE card' = card
      BY <3>2, TabFits
    <3> QED BY <1>8, <3>1, <3>2 DEF MutationEnds
  <2> QED BY <1>2, <2>0, <2>1, <2>2, <2>3, TabFits, TabKeepsTypes
<1>9. CASE ReviewReturns(i)
  <2>0. m.kind \notin Lists /\ UNCHANGED <<page, current, poll, mutating>> /\ Arrived /\ m.kind \in Reviews
    BY <1>9 DEF ReviewReturns, Lists, Reviews, Arrived
  <2>1. CASE /\ m.answer.outcome = "ok" /\ lesson' = Resource(l, m.answer.revision)
             /\ UNCHANGED card
             /\ \/ Finally(i)
                \/ Sent(Others(i), Listing("list", l)) /\ UNCHANGED loading
    <3>1. Listing("list", l) \in Message /\ Sound(Listing("list", l))
          /\ Listing("list", l).kind \notin Reviews
      BY <1>1, ListRequest DEF Lists
    <3>2. net' \in Queue /\ net' \in Seq(Message) /\ ReviewsHere' /\ loading' \in BOOLEAN
      BY <1>1, <2>0, <2>1, <3>1, QueueGrows, QueueShrinks, TabFits DEF Finally
    <3>3. lesson' \in Docs
      BY <1>1, <1>3, <2>0, <2>1 DEF Resource, Docs
    <3> QED BY <1>2, <2>0, <2>1, <3>2, <3>3, TabFits, TabKeepsTypes DEF poll
  <2>2. CASE \E k \in {l, current} : OpenLesson(k, l, lesson, card, Others(i))
    <3>1. current \in Lessons
      BY <2>0, TabFits DEF Typed, ReviewsHere
    <3>2. PICK k \in {l, current} : OpenLesson(k, l, lesson, card, Others(i))
      BY <2>2
    <3>3. /\ net' \in Queue /\ net' \in Seq(Message) /\ ReviewsHere'
          /\ lesson' \in Docs
          /\ card' \in Cards
          /\ loading' \in BOOLEAN
      BY <1>1, <2>0, <3>1, <3>2, TabFits, OpenLessonTyped
    <3> QED BY <1>2, <2>0, <3>3, TabFits, TabKeepsTypes DEF poll
  <2>3. CASE Finally(i) /\ UNCHANGED <<lesson, card>>
    <3>1. net' \in Queue /\ net' \in Seq(Message) /\ ReviewsHere'
      BY <1>1, <2>0, <2>3, QueueShrinks DEF Finally
    <3> QED BY <1>2, <2>0, <2>3, <3>1, TabFits, TabKeepsTypes DEF Finally, poll
  <2> QED BY <1>9, <2>1, <2>2, <2>3 DEF ReviewReturns
<1>10. CASE ListReturns(i)
  <2>1. net' \in Queue /\ net' \in Seq(Message) /\ ReviewsHere'
    BY <1>1, <1>10, QueueShrinks DEF ListReturns, Finally, Arrived, shown
  <2> QED BY <1>2, <1>10, <2>1, TabFits, TabKeepsTypes DEF ListReturns, Finally, shown, poll
<1>11. CASE CreateReturns(i)
  <2>0. /\ m.kind \notin Lists /\ Finally(i) /\ UNCHANGED <<lesson, mutating>> /\ Arrived
        /\ page' \in Lessons \cup {NoLesson} /\ current' \in Lessons \cup {NoLesson}
    BY <1>1, <1>11, TabFits DEF CreateReturns, Lists, Arrived
  <2>1. net' \in Queue /\ net' \in Seq(Message) /\ ReviewsHere'
    BY <1>1, <2>0, QueueShrinks DEF Finally
  <2>2. card' \in Cards
    <3>1. CASE m.answer.outcome = "ok"
      BY <1>1, <1>3, <1>11, <2>0, <3>1 DEF CreateReturns, Card, Cards
    <3>2. CASE m.answer.outcome # "ok"
      BY <1>11, <3>2, TabFits DEF CreateReturns
    <3> QED BY <3>1, <3>2
  <2>3. active' \in Lessons \cup {NoLesson} /\ timer' \in Lessons \cup {NoLesson} /\ strays' = strays
    BY <1>1, <1>11, TabFits DEF CreateReturns, PollStatus, poll
  <2> QED BY <1>2, <2>0, <2>1, <2>2, <2>3, TabFits, TabKeepsTypes DEF Finally
<1> QED BY <1>4, <1>5, <1>6, <1>7, <1>8, <1>9, <1>10, <1>11 DEF Deliver

LEMMA TickTyped ==
  ASSUME Typed, NEW l \in Lessons, Tick(l), current' = current
  PROVE  net' \in Queue /\ net' \in Seq(Message) /\ ReviewsHere'
<1>1. Kept(net) /\ Arrived
  BY QueuesKept DEF Arrived
<1>2. CASE Sent(net, Request("tick", l))
  <2>1. Request("tick", l) \in Message /\ Sound(Request("tick", l))
        /\ Request("tick", l).kind \notin Reviews
    BY PlainRequest DEF Looks, Reviews
  <2> QED BY <1>1, <1>2, <2>1, QueueGrows
<1>3. CASE UNCHANGED net
  BY <1>1, <1>3, QueueShrinks
<1> QED BY <1>2, <1>3 DEF Tick

LEMMA TimersKeepTypes ==
  ASSUME Typed, FireTimer \/ \E l \in Lessons : FireStray(l)
  PROVE  Typed'
<1>1. CASE FireTimer
  <2>1. /\ UNCHANGED <<row, shown, active, strays, loading, mutating, clicks, failures>> /\ timer' = NoLesson
        /\ dirty' \subseteq {"page", "poll"} /\ timer \in Lessons /\ Tick(timer)
    BY <1>1, TabFits, CommitsFits DEF FireTimer, Ends
  <2>2. net' \in Queue /\ net' \in Seq(Message) /\ ReviewsHere'
    BY <2>1, TickTyped DEF shown
  <2> QED BY <2>1, <2>2, TabFits, TabKeepsTypes DEF shown
<1>2. ASSUME NEW l \in Lessons, FireStray(l)
      PROVE  Typed'
  <2>1. /\ UNCHANGED <<row, shown, active, timer, loading, mutating, clicks, failures>>
        /\ dirty' \subseteq {"page", "poll"} /\ Tick(l)
    BY <1>2, CommitsFits DEF FireStray, Ends
  <2>2. strays' \in [Lessons -> Nat]
    BY <1>2, TabFits DEF FireStray
  <2>3. net' \in Queue /\ net' \in Seq(Message) /\ ReviewsHere'
    BY <2>1, TickTyped DEF shown
  <2> QED BY <2>1, <2>2, <2>3, TabFits, TabKeepsTypes DEF shown
<1> QED BY <1>1, <1>2

LEMMA EffectsKeepTypes ==
  ASSUME Typed, PageEffect \/ PollEffect
  PROVE  Typed'
<1>1. Kept(net)
  BY QueuesKept
<1>2. CASE PageEffect
  <2>1. /\ UNCHANGED <<row, page, poll, mutating, clicks, failures>>
        /\ dirty' \subseteq {"page", "poll"}
    <3>1. dirty \ {"page"} \in SUBSET {"page", "poll"} /\ Commits(dirty \ {"page"})
      BY <1>2, TabFits DEF PageEffect
    <3> QED BY <1>2, <3>1, CommitsFits DEF PageEffect
  <2>2. CASE /\ page # NoLesson /\ OpenLesson(page, current, lesson, card, net)
             /\ current' = IF current = NoLesson THEN page ELSE current
    <3>1. page \in Lessons /\ Arrived /\ current' \in Lessons
      BY <2>2, TabFits DEF Arrived
    <3>2. /\ net' \in Queue /\ net' \in Seq(Message) /\ ReviewsHere'
          /\ lesson' \in Docs
          /\ card' \in Cards
          /\ loading' \in BOOLEAN
      BY <1>1, <2>2, <3>1, TabFits, OpenLessonTyped
    <3> QED BY <2>1, <3>1, <3>2, TabFits, TabKeepsTypes DEF poll
  <2>3. CASE UNCHANGED <<current, lesson, card, loading, net>>
    <3>1. net' \in Queue /\ net' \in Seq(Message) /\ ReviewsHere'
      BY <1>1, <2>3, QueueShrinks DEF Arrived
    <3> QED BY <2>1, <2>3, <3>1, TabFits, TabKeepsTypes DEF poll
  <2> QED BY <1>2, <2>2, <2>3 DEF PageEffect
<1>3. CASE PollEffect
  <2>1. net' \in Queue /\ net' \in Seq(Message) /\ ReviewsHere'
    BY <1>1, <1>3, QueueShrinks DEF PollEffect, Arrived, shown
  <2>2. active' \in Lessons \cup {NoLesson} /\ timer' \in Lessons \cup {NoLesson} /\ strays' = strays
    BY <1>3, TabFits DEF PollEffect, ClearPoll, poll
  <2> QED BY <1>3, <2>1, <2>2, TabFits, TabKeepsTypes DEF PollEffect, shown
<1> QED BY <1>2, <1>3

LEMMA TeacherKeepsTypes ==
  ASSUME Typed, Teacher
  PROVE  Typed'
<1>1. Kept(net)
  BY QueuesKept
<1>2. UNCHANGED <<row, failures>> /\ dirty' \subseteq {"page", "poll"} /\ clicks' \in Nat
  BY TabFits, CommitsFits DEF Teacher, Ends
<1>3. CASE LeavePage
  <2>1. net' \in Queue /\ net' \in Seq(Message) /\ ReviewsHere'
    BY <1>1, <1>3, QueueShrinks DEF LeavePage, Arrived
  <2> QED BY <1>2, <1>3, <2>1, TabFits, TabKeepsTypes DEF LeavePage, poll
<1>4. ASSUME NEW k \in {"cancel", "retry"}, NEW statuses \in {Open, Closed}, Bakes(k, statuses)
      PROVE  Typed'
  <2> DEFINE l == IF current = NoLesson THEN page ELSE current
  <2>1. UNCHANGED <<shown, poll, loading>> /\ Sent(net, Mutation(k, l, card.revision)) /\ mutating' = TRUE
    BY <1>4 DEF Bakes
  <2>2. l \in Lessons
    BY <1>4, TabFits DEF Bakes
  <2>3. card.revision \in Nat
    BY TabFits DEF Cards
  <2>4. Mutation(k, l, card.revision) \in Message /\ Sound(Mutation(k, l, card.revision))
        /\ Mutation(k, l, card.revision).kind = k
    <3>1. k \in Reviews \cup {"cancel", "retry"}
      OBVIOUS
    <3> HIDE DEF l
    <3> QED BY <2>2, <2>3, <3>1, MutationRequest
  <2>5. k \notin Reviews
    BY DEF Reviews
  <2>6. net' \in Queue /\ net' \in Seq(Message) /\ ReviewsHere'
    BY <1>1, <2>1, <2>4, <2>5, QueueGrows DEF shown, Arrived
  <2> QED BY <1>2, <2>1, <2>6, TabFits, TabKeepsTypes DEF shown, poll
<1>5. ASSUME NEW l \in Lessons, History(l)
      PROVE  Typed'
  <2>1. net' \in Queue /\ net' \in Seq(Message) /\ ReviewsHere'
    BY <1>1, <1>5, QueueShrinks DEF History, Arrived
  <2> QED BY <1>2, <1>5, <2>1, TabFits, TabKeepsTypes DEF History, poll
<1>6. ASSUME NEW l \in Lessons, OpenClicked(l)
      PROVE  Typed'
  <2>1. OpenLesson(l, current, lesson, card, net) /\ UNCHANGED <<page, current, poll, mutating>>
    BY <1>6 DEF OpenClicked
  <2>2. /\ net' \in Queue /\ net' \in Seq(Message) /\ ReviewsHere'
        /\ lesson' \in Docs
        /\ card' \in Cards
        /\ loading' \in BOOLEAN
    BY <1>1, <2>1, TabFits, OpenLessonTyped DEF Arrived
  <2> QED BY <1>2, <2>1, <2>2, TabFits, TabKeepsTypes DEF poll
<1>7. ASSUME NEW l \in Lessons, CreateClicked(l)
      PROVE  Typed'
  <2>1. Request("create", l) \in Message /\ Sound(Request("create", l))
        /\ Request("create", l).kind \notin Reviews
    BY PlainRequest DEF Reviews
  <2>2. net' \in Queue /\ net' \in Seq(Message) /\ ReviewsHere'
    BY <1>1, <1>7, <2>1, QueueGrows DEF CreateClicked, Arrived
  <2>3. lesson' \in Docs
    BY <1>7 DEF CreateClicked, Docs
  <2> QED BY <1>2, <1>7, <2>2, <2>3, TabFits, TabKeepsTypes DEF CreateClicked, poll
<1>8. ASSUME NEW k \in Reviews, ReviewClicked(k)
      PROVE  Typed'
  <2>1. /\ UNCHANGED <<shown, poll, mutating>> /\ Sent(net, Mutation(k, current, lesson.revision))
        /\ loading' = TRUE /\ current # NoLesson /\ lesson # NoDoc
    BY <1>8 DEF ReviewClicked
  <2>2. Mutation(k, current, lesson.revision) \in Message /\ Sound(Mutation(k, current, lesson.revision))
    BY <2>1, TabFits, MutationRequest DEF Docs
  <2>3. net' \in Queue /\ net' \in Seq(Message) /\ ReviewsHere'
    BY <1>1, <2>1, <2>2, QueueGrows DEF shown, Arrived
  <2> QED BY <1>2, <2>1, <2>3, TabFits, TabKeepsTypes DEF shown, poll
<1> QED BY <1>3, <1>4, <1>5, <1>6, <1>7, <1>8 DEF Teacher, CancelClicked, RetryClicked

LEMMA ServerKeepsTypes ==
  ASSUME Typed, NEW l \in Lessons, ServerMoves(l)
  PROVE  Typed'
<1>1. row' \in [Lessons -> Rows] /\ RowsBegin'
  <2>0. row \in [Lessons -> Rows] /\ RowsBegin /\ row[l] \in Rows
    BY DEF Typed, TypeOK
  <2>1. CASE \E s \in {"ready"} \cup Open \cup Closed : Advance(l, s)
    BY <2>0, <2>1, Advances
  <2>2. CASE row[l].status \in Closed /\ row' = [row EXCEPT ![l] = Requeued(@)]
    <3>1. Requeued(row[l]) \in Rows /\ Requeued(row[l]).status = "draft"
          /\ Requeued(row[l]).revision # 0 /\ row' = [row EXCEPT ![l] = Requeued(row[l])]
      BY <2>0, <2>2 DEF Requeued, Rows, Open
    <3> QED BY <2>0, <2>2, <3>1 DEF RowsBegin, Exists, Closed
  <2>3. CASE row[l].status \in Closed \cup {"ready"} /\ row' = [row EXCEPT ![l].status = "deleted"]
    <3>1. row' = [row EXCEPT ![l] = [row[l] EXCEPT !.status = "deleted"]]
      BY <2>3
    <3>2. /\ [row[l] EXCEPT !.status = "deleted"] \in Rows
          /\ [row[l] EXCEPT !.status = "deleted"].status = "deleted"
          /\ [row[l] EXCEPT !.status = "deleted"].revision = row[l].revision
      BY <2>0 DEF Rows, Gone
    <3>3. Exists(l)
      BY <2>3 DEF Exists, Closed
    <3> QED BY <2>0, <3>1, <3>2, <3>3 DEF RowsBegin, Exists
  <2>4. CASE BakeMoves(l)
    BY <2>1, <2>4 DEF BakeMoves, Open, Closed
  <2>5. CASE OtherTab(l)
    <3>1. \/ Advance(l, "ready") \/ Advance(l, "cancelled")
          \/ row[l].status \in Closed /\ row' = [row EXCEPT ![l] = Requeued(@)]
          \/ row[l].status \in Closed \cup {"ready"} /\ row' = [row EXCEPT ![l].status = "deleted"]
      BY <2>5 DEF OtherTab
    <3> QED BY <2>1, <2>2, <2>3, <3>1 DEF Closed
  <2> QED BY <2>4, <2>5 DEF ServerMoves
<1>2. clicks' \in Nat
  BY TabFits DEF ServerMoves, OtherTab
<1> QED BY <1>1, <1>2 DEF ServerMoves, Typed, TypeOK, ReviewsHere, shown, poll

LEMMA FailTyped ==
  ASSUME Typed, NEW i \in DOMAIN net, Fail(i)
  PROVE  \E a \in Answered : Answers(i, a) /\ Sound([net[i] EXCEPT !.answer = a])
<1>1. PICK a \in {Failed, Errored} : Answers(i, a)
  BY DEF Fail, Failures
<1>2. a \in Answered /\ a.outcome # "ok"
  BY DEF Failed, Errored, Pending, Answered
<1>3. Sound([net[i] EXCEPT !.answer = a])
  <2> HIDE DEF Failed, Errored
  <2> QED BY <1>2, RequestFits DEF Sound, Tells, Message
<1> QED BY <1>1, <1>2, <1>3

LEMMA FailKeepsTypes ==
  ASSUME Typed, NEW i \in DOMAIN net, Fail(i)
  PROVE  Typed'
<1>1. PICK a \in Answered : Answers(i, a) /\ Sound([net[i] EXCEPT !.answer = a])
  BY FailTyped
<1>2. UNCHANGED <<row, shown, poll, loading, mutating, dirty, clicks>> /\ failures' = failures + 1
  BY DEF Fail
<1>3. net' \in Queue /\ DOMAIN net' = DOMAIN net /\ \A k \in DOMAIN net : net'[k].kind = net[k].kind
  BY <1>1, AnswerKeeps DEF Typed
<1>4. net' \in Seq(Message)
  BY <1>3, QueueIsTyped
<1>5. ReviewsHere'
  BY <1>2, <1>3 DEF Typed, ReviewsHere, shown
<1> QED BY <1>2, <1>3, <1>4, <1>5, TabFits, TabKeepsTypes DEF shown, poll

LEMMA InitTyped == Init => Typed
<1> SUFFICES ASSUME Init PROVE Typed
  OBVIOUS
<1>1. net \in Queue /\ net \in Seq(Message) /\ DOMAIN net = {}
  BY DEF Init, Queue
<1>2. TypeOK
  <2>1. row \in [Lessons -> Rows]
    BY DEF Init, Rows, Open, Gone
  <2>2. strays \in [Lessons -> Nat] /\ clicks \in Nat /\ failures \in Nat
        /\ lesson \in Docs /\ card \in Cards
    BY DEF Init, Docs, NoCard, Cards
  <2> QED BY <1>1, <2>1, <2>2 DEF Init, TypeOK, Message, Docs, Cards
<1>3. RowsBegin
  BY DEF Init, RowsBegin, Exists
<1> QED BY <1>1, <1>2, <1>3 DEF Typed, ReviewsHere

LEMMA StepTyped == Typed /\ [Next]_vars => Typed'
<1> SUFFICES ASSUME Typed, [Next]_vars PROVE Typed'
  OBVIOUS
<1>1. CASE UNCHANGED vars
  BY <1>1 DEF Typed, TypeOK, RowsBegin, Exists, ReviewsHere, vars, shown, poll
<1>2. CASE Next
  BY <1>2, TeacherKeepsTypes, ServerKeepsTypes, TimersKeepTypes, HandleKeepsTypes,
     DeliverKeepsTypes, FailKeepsTypes, EffectsKeepTypes DEF Next
<1> QED BY <1>1, <1>2

(* Every variable of the tab has its type, a lesson that is there has a      *)
(* revision, an answer to a request that is not for the list says a status   *)
(* of the lesson, and a review is sent only from a lesson's page (App.tsx    *)
(* 1621-1629).                                                               *)
THEOREM TypedHolds == Spec => []Typed
<1> QED BY InitTyped, StepTyped, PTL DEF Spec

(* The rows, the requests and what the tab keeps in its refs and states have *)
(* their types, whatever answers come in which order.                        *)
THEOREM TypeCorrect == Spec => []TypeOK
<1>1. Typed => TypeOK
  BY DEF Typed
<1> QED BY <1>1, TypedHolds, PTL
-----------------------------------------------------------------------------
(* What is where in the queue after a step. *)

LEMMA AfterDrop ==
  ASSUME Typed, NEW i \in DOMAIN net, net' = Others(i)
  PROVE  /\ DOMAIN net' = 1 .. Len(net) - 1
         /\ \A c \in DOMAIN net' : Place(i, c) \in DOMAIN net \ {i} /\ net'[c] = net[Place(i, c)]
         /\ \A k \in DOMAIN net \ {i} : \E c \in DOMAIN net' : Place(i, c) = k
<1>1. Len(net') = Len(net) - 1 /\ net' \in Queue
  BY OthersAre DEF Typed
<1>2. DOMAIN net' = 1 .. Len(net) - 1
  BY <1>1, QueueIsTyped
<1> QED BY <1>2, OthersAre DEF Typed

LEMMA AfterPass ==
  ASSUME Typed, NEW i \in DOMAIN net, NEW m \in Message, Sound(m), Sent(Others(i), m)
  PROVE  /\ DOMAIN net' = 1 .. Len(net) /\ Len(net) \in Nat \ {0}
         /\ \A c \in 1 .. Len(net) - 1 : Place(i, c) \in DOMAIN net \ {i} /\ net'[c] = net[Place(i, c)]
         /\ \A k \in DOMAIN net \ {i} : \E c \in 1 .. Len(net) - 1 : Place(i, c) = k
         /\ net'[Len(net)] = m
<1>1. Len(net) \in Nat \ {0}
  BY TabFits
<1>2. Others(i) \in Queue /\ Len(Others(i)) = Len(net) - 1
  BY OthersAre DEF Typed
<1>3. Joined(Others(i), m)
  BY <1>2, Joins
<1>4. Len(net') = Len(net) /\ net' \in Queue /\ net'[Len(net)] = m
      /\ \A c \in 1 .. Len(net) - 1 : net'[c] = Others(i)[c]
  BY <1>1, <1>2, <1>3 DEF Joined
<1>5. DOMAIN net' = 1 .. Len(net)
  BY <1>4, QueueIsTyped
<1> QED BY <1>1, <1>4, <1>5, OthersAre DEF Typed

LEMMA AfterSend ==
  ASSUME Typed, NEW m \in Message, Sound(m), Sent(net, m)
  PROVE  /\ DOMAIN net' = 1 .. Len(net) + 1 /\ Len(net) \in Nat /\ DOMAIN net = 1 .. Len(net)
         /\ \A c \in 1 .. Len(net) : net'[c] = net[c]
         /\ net'[Len(net) + 1] = m
<1>1. Joined(net, m)
  BY Joins DEF Typed
<1>2. DOMAIN net' = 1 .. Len(net')
  BY <1>1, QueueIsTyped DEF Joined
<1> QED BY <1>1, <1>2, TabFits DEF Joined

(* Handle and Fail change nothing but one answer. *)
LEMMA AfterAnswer ==
  ASSUME Typed, NEW i \in DOMAIN net, Handle(i) \/ Fail(i)
  PROVE  /\ DOMAIN net' = DOMAIN net
         /\ \A k \in DOMAIN net : /\ k # i => net'[k] = net[k]
                                  /\ net'[k].kind = net[k].kind
                                  /\ net'[k].lesson = net[k].lesson
                                  /\ net'[k].revision = net[k].revision
<1>1. \E a \in Answered : Answers(i, a) /\ Sound([net[i] EXCEPT !.answer = a])
  BY HandleTyped, FailTyped
<1> QED BY <1>1, AnswerKeeps DEF Typed
-----------------------------------------------------------------------------
(* Polls. *)

(* A request that is not the i-th stays under way. *)
LEMMA TickWaits ==
  ASSUME Typed, NEW i \in DOMAIN net, NEW l, Waits({"tick"}, l),
         net[i].kind # "tick" \/ net[i].lesson # l,
         \/ net' = Others(i)
         \/ \E m \in Message : Sound(m) /\ Sent(Others(i), m)
  PROVE  Waits({"tick"}, l)'
<1>1. PICK k \in DOMAIN net \ {i} : net[k].kind = "tick" /\ net[k].lesson = l
  BY DEF Waits
<1>2. CASE net' = Others(i)
  BY <1>1, <1>2, AfterDrop DEF Waits
<1>3. ASSUME NEW m \in Message, Sound(m), Sent(Others(i), m)
      PROVE  Waits({"tick"}, l)'
  <2>1. /\ DOMAIN net' = 1 .. Len(net) /\ Len(net) \in Nat
        /\ \E c \in 1 .. Len(net) - 1 : net'[c] = net[k]
    BY <1>1, <1>3, AfterPass
  <2> QED BY <1>1, <2>1 DEF Waits
<1> QED BY <1>2, <1>3

(* The kinds of requests that mutateBake sends, and those under "loading". *)
Chain == {"cancel", "retry", "recheck", "listOpen", "listClosed"}
Loads == Reviews \cup {"get", "state", "list", "create"}

(* The answer to the i-th request makes the tab send another one. *)
Follows(i, k, l) ==
  /\ k \in Looks \cup Lists \cup {"get"} /\ l \in Lessons
  /\ k # "tick"
  /\ k = "state" => /\ net[i].kind = "get" /\ net[i].lesson = l
                    /\ net[i].answer.outcome = "conflict"
  /\ k \in Chain <=> net[i].kind \in Chain
  /\ net[i].kind \in Loads => k \in Loads
  /\ Sent(Others(i), Ask(k, l))

LEMMA DeliverSends ==
  ASSUME Typed, NEW i \in DOMAIN net, Deliver(i)
  PROVE  net' = Others(i) \/ \E k, l : Follows(i, k, l)
<1> DEFINE m == net[i]
           l == m.lesson
<1>1. l \in Lessons
  BY RequestFits
<1>2. CASE GetReturns(i)
  <2>1. Sent(Others(i), Request("state", l)) /\ m.answer.outcome = "conflict"
          => Follows(i, "state", l)
    BY <1>1, <1>2, Asks DEF GetReturns, Follows, Looks, Chain, Loads
  <2> QED BY <1>2, <2>1 DEF GetReturns, Finally
<1>3. CASE StateReturns(i) \/ MutationEnds(i) \/ ListReturns(i) \/ CreateReturns(i)
  BY <1>3 DEF StateReturns, MutationEnds, ListReturns, CreateReturns, Finally
<1>4. CASE TickReturns(i)
  <2>1. Sent(Others(i), Request("get", l)) => Follows(i, "get", l)
    BY <1>1, <1>4, Asks DEF TickReturns, Follows, Looks, Chain, Loads, Reviews
  <2> QED BY <1>4, <2>1 DEF TickReturns, OpenLesson
<1>5. CASE MutationReturns(i)
  <2>1. ASSUME NEW k \in {"listOpen", "listClosed", "recheck"}, Sent(Others(i), Ask(k, l))
        PROVE  Follows(i, k, l)
    BY <1>1, <1>5, <2>1 DEF MutationReturns, Follows, Looks, Lists, Chain, Loads, Reviews
  <2> QED BY <1>5, <2>1, Asks DEF MutationReturns, Looks, Lists
<1>6. CASE ReviewReturns(i)
  <2>1. current \in Lessons
    BY <1>6, TabFits DEF ReviewReturns, Typed, ReviewsHere
  <2>2. ASSUME NEW k \in {"list", "get"}, NEW r \in {l, current}, Sent(Others(i), Ask(k, r))
        PROVE  Follows(i, k, r)
    BY <1>1, <1>6, <2>1, <2>2 DEF ReviewReturns, Follows, Looks, Lists, Chain, Loads, Reviews
  <2> QED BY <1>6, <2>2, Asks DEF ReviewReturns, OpenLesson, Finally, Lists
<1> QED BY <1>2, <1>3, <1>4, <1>5, <1>6 DEF Deliver

LEMMA FollowsIsSound ==
  ASSUME NEW i, NEW k, NEW l, Follows(i, k, l)
  PROVE  /\ Ask(k, l) \in Message /\ Sound(Ask(k, l))
         /\ Ask(k, l).kind = k /\ Ask(k, l).lesson = l
  BY AskedRequest DEF Follows

LEMMA DeliverKeepsPolls ==
  ASSUME Typed, PollingIsAlive, NEW i \in DOMAIN net, Deliver(i)
  PROVE  PollingIsAlive'
<1> DEFINE m == net[i]
           l == m.lesson
<1>1. l \in Lessons /\ l # NoLesson /\ Looks = {"state", "tick", "recheck"}
  BY RequestFits, TabFits DEF Looks
<1>2. CASE active' # NoLesson => timer' = active'
  BY <1>2 DEF PollingIsAlive
<1>3. CASE UNCHANGED poll /\ (m.kind # "tick" \/ m.lesson # active)
  <2>1. \/ net' = Others(i)
        \/ \E r \in Message : Sound(r) /\ Sent(Others(i), r)
    BY DeliverSends, FollowsIsSound DEF Follows
  <2>2. Waits({"tick"}, active) => Waits({"tick"}, active)'
    <3>1. active' = active
      BY <1>3 DEF poll
    <3> DEFINE a == active
    <3>2. Waits({"tick"}, a) => (\E c \in DOMAIN net' : net'[c].kind = "tick" /\ net'[c].lesson = a)
      <4>1. \A x : Waits({"tick"}, x) /\ (m.kind # "tick" \/ m.lesson # x)
              => \E c \in DOMAIN net' : net'[c].kind = "tick" /\ net'[c].lesson = x
        BY <2>1, TickWaits DEF Waits
      <4> QED BY <1>3, <4>1
    <3> QED BY <3>1, <3>2 DEF Waits
  <2> QED BY <1>3, <2>2 DEF PollingIsAlive, poll
<1>4. UNCHANGED poll \/ (active' # NoLesson => timer' = active')
  BY DEF Deliver, GetReturns, StateReturns, TickReturns, MutationReturns, MutationEnds,
         ReviewReturns, ListReturns, CreateReturns, PollStatus, ClearPoll, Schedule, poll
<1>5. m.kind = "tick" /\ l = active => (active' # NoLesson => timer' = active')
  <2>1. m.kind = "tick" => TickReturns(i)
    BY DEF Deliver, GetReturns, StateReturns, TickReturns, MutationReturns, MutationEnds,
         ReviewReturns, ListReturns, CreateReturns, Reviews
  <2>2. TickReturns(i) /\ active = l => active' = NoLesson \/ (timer' = l /\ active' = active)
    BY DEF TickReturns, ClearPoll, Schedule
  <2> QED BY <2>1, <2>2
<1> QED BY <1>2, <1>3, <1>4, <1>5

LEMMA TimersKeepPolls ==
  ASSUME Typed, PollingIsAlive, FireTimer \/ \E l \in Lessons : FireStray(l)
  PROVE  PollingIsAlive'
<1>1. ASSUME NEW l \in Lessons, active = l, Tick(l)
      PROVE  Waits({"tick"}, l)'
  <2>1. /\ Request("tick", l) \in Message /\ Sound(Request("tick", l))
        /\ Request("tick", l).kind = "tick" /\ Request("tick", l).lesson = l
    BY PlainRequest DEF Looks
  <2>2. Sent(net, Request("tick", l))
    BY <1>1 DEF Tick
  <2> QED BY <2>1, <2>2, AfterSend DEF Waits
<1>2. ASSUME NEW l \in Lessons, active # l, Tick(l)
      PROVE  UNCHANGED net
  BY <1>2 DEF Tick
<1>3. CASE FireTimer
  <2>1. timer \in Lessons /\ Tick(timer) /\ UNCHANGED <<active, strays>>
    BY <1>3, TabFits DEF FireTimer
  <2>2. CASE active = timer
    BY <1>1, <2>1, <2>2 DEF PollingIsAlive, Waits
  <2>3. CASE active # timer
    BY <1>2, <2>1, <2>3 DEF PollingIsAlive, Waits
  <2> QED BY <2>2, <2>3
<1>4. ASSUME NEW l \in Lessons, FireStray(l)
      PROVE  PollingIsAlive'
  <2>1. Tick(l) /\ UNCHANGED <<active, timer>> /\ strays' = [strays EXCEPT ![l] = @ - 1]
    BY <1>4 DEF FireStray
  <2>2. CASE active = l
    BY <1>1, <2>1, <2>2 DEF PollingIsAlive, Waits
  <2>3. CASE active # l
    <3>1. active # NoLesson => strays'[active] = strays[active]
      BY <2>1, <2>3, TabFits
    <3> QED BY <1>2, <2>1, <2>3, <3>1 DEF PollingIsAlive, Waits
  <2> QED BY <2>2, <2>3
<1> QED BY <1>3, <1>4

(* A step that only sends leaves the poll as alive as it was. *)
LEMMA SendingKeepsPolls ==
  ASSUME Typed, PollingIsAlive, UNCHANGED poll,
         UNCHANGED net \/ \E m \in Message : Sound(m) /\ Sent(net, m)
  PROVE  PollingIsAlive'
<1>1. CASE UNCHANGED net
  BY <1>1 DEF PollingIsAlive, Waits, poll
<1>2. ASSUME NEW m \in Message, Sound(m), Sent(net, m)
      PROVE  PollingIsAlive'
  <2>1. \A x : Waits({"tick"}, x)
          => \E c \in DOMAIN net' : net'[c].kind = "tick" /\ net'[c].lesson = x
    BY <1>2, AfterSend DEF Waits
  <2> QED BY <2>1 DEF PollingIsAlive, Waits, poll
<1> QED BY <1>1, <1>2

(* What the teacher's clicks and the effect of the page send. *)
LEMMA TeacherSends ==
  ASSUME Typed, Teacher \/ PageEffect
  PROVE  /\ UNCHANGED poll
         /\ UNCHANGED net \/ \E m \in Message : Sound(m) /\ Sent(net, m)
<1>1. CASE LeavePage \/ \E l \in Lessons : History(l)
  BY <1>1 DEF LeavePage, History
<1>2. ASSUME NEW k \in {"cancel", "retry"}, NEW statuses \in {Open, Closed}, Bakes(k, statuses)
      PROVE  UNCHANGED poll /\ \E m \in Message : Sound(m) /\ Sent(net, m)
  <2> DEFINE l == IF current = NoLesson THEN page ELSE current
  <2>1. UNCHANGED poll /\ Sent(net, Mutation(k, l, card.revision)) /\ page # NoLesson
    BY <1>2 DEF Bakes
  <2>2. l \in Lessons /\ card.revision \in Nat
        /\ k \in Reviews \cup {"cancel", "retry"}
    BY <2>1, TabFits DEF Cards
  <2> HIDE DEF l
  <2> QED BY <2>1, <2>2, MutationRequest
<1>3. ASSUME NEW l \in Lessons, NEW c, NEW d, NEW e, UNCHANGED poll, OpenLesson(l, c, d, e, net)
      PROVE  UNCHANGED poll /\ \E m \in Message : Sound(m) /\ Sent(net, m)
  BY <1>3, PlainRequest DEF OpenLesson
<1>4. ASSUME NEW l \in Lessons, CreateClicked(l)
      PROVE  UNCHANGED poll /\ \E m \in Message : Sound(m) /\ Sent(net, m)
  BY <1>4, PlainRequest DEF CreateClicked
<1>5. ASSUME NEW k \in Reviews, ReviewClicked(k)
      PROVE  UNCHANGED poll /\ \E m \in Message : Sound(m) /\ Sent(net, m)
  <2>1. lesson # NoDoc /\ current # NoLesson /\ UNCHANGED poll
        /\ Sent(net, Mutation(k, current, lesson.revision))
    BY <1>5 DEF ReviewClicked
  <2> QED BY <2>1, TabFits, MutationRequest DEF Docs
<1>6. CASE PageEffect
  BY <1>3, <1>6, TabFits DEF PageEffect
<1> QED BY <1>1, <1>2, <1>3, <1>4, <1>5, <1>6 DEF Teacher, CancelClicked, RetryClicked, OpenClicked

LEMMA StepKeepsPolls == Typed /\ PollingIsAlive /\ [Next]_vars => PollingIsAlive'
<1> SUFFICES ASSUME Typed, PollingIsAlive, [Next]_vars PROVE PollingIsAlive'
  OBVIOUS
<1>1. CASE UNCHANGED vars
  BY <1>1 DEF PollingIsAlive, Waits, vars, poll
<1>2. CASE Teacher \/ PageEffect
  BY <1>2, TeacherSends, SendingKeepsPolls
<1>3. ASSUME NEW l \in Lessons, ServerMoves(l)
      PROVE  PollingIsAlive'
  BY <1>3 DEF ServerMoves, PollingIsAlive, Waits, poll
<1>4. ASSUME NEW i \in DOMAIN net, Handle(i) \/ Fail(i)
      PROVE  PollingIsAlive'
  BY <1>4, AfterAnswer DEF PollingIsAlive, Waits, Handle, Fail, poll
<1>5. CASE PollEffect
  BY <1>5 DEF PollEffect, PollingIsAlive, Waits, ClearPoll, poll
<1> QED BY <1>1, <1>2, <1>3, <1>4, <1>5, DeliverKeepsPolls, TimersKeepPolls DEF Next

(* A tab that says it polls a lesson has a timer or a request of that poll,  *)
(* although openLesson, mutateBake, pollStatus and the effects clear and set *)
(* the one timer handle (App.tsx 420-427, 1193-1246) at any time.            *)
THEOREM PollsStayAlive == Spec => []PollingIsAlive
<1>1. Init => PollingIsAlive
  BY DEF Init, PollingIsAlive
<1>2. Typed /\ PollingIsAlive /\ [Next]_vars => PollingIsAlive'
  BY StepKeepsPolls
<1> QED BY <1>1, <1>2, TypedHolds, PTL DEF Spec
-----------------------------------------------------------------------------
(* Buttons. *)

Buttons ==
  /\ loading => \E i \in DOMAIN net : net[i].kind \in Loads
  /\ mutating <=> \E i \in DOMAIN net : net[i].kind \in Chain
  /\ \A i, j \in DOMAIN net : net[i].kind \in Chain /\ net[j].kind \in Chain => i = j

LEMMA ChainHasOne ==
  ASSUME Typed, Buttons
  PROVE  ButtonsComeBack
<1> DEFINE chain == {i \in DOMAIN net : net[i].kind \in Chain}
<1>1. CASE mutating
  <2>1. PICK i \in DOMAIN net : net[i].kind \in Chain
    BY <1>1 DEF Buttons
  <2>2. chain = {i}
    BY <2>1 DEF Buttons
  <2> QED BY <1>1, <2>2, FS_Singleton DEF Buttons, ButtonsComeBack, Chain, Loads
<1>2. CASE ~mutating
  <2>1. chain = {}
    BY <1>2 DEF Buttons
  <2> QED BY <1>2, <2>1, FS_EmptySet DEF Buttons, ButtonsComeBack, Chain, Loads
<1> QED BY <1>1, <1>2

(* A step that sends a request of its own. *)
LEMMA SendingKeepsButtons ==
  ASSUME Typed, Buttons, NEW m \in Message, Sound(m), Sent(net, m),
         loading' => loading \/ m.kind \in Loads,
         IF m.kind \in Chain THEN ~mutating /\ mutating' = TRUE ELSE mutating' = mutating
  PROVE  Buttons'
<1>1. /\ DOMAIN net' = 1 .. Len(net) + 1 /\ Len(net) \in Nat /\ DOMAIN net = 1 .. Len(net)
      /\ \A c \in 1 .. Len(net) : net'[c] = net[c]
      /\ net'[Len(net) + 1] = m
  BY AfterSend
<1>2. loading' => \E i \in DOMAIN net' : net'[i].kind \in Loads
  BY <1>1 DEF Buttons
<1>3. mutating' <=> \E i \in DOMAIN net' : net'[i].kind \in Chain
  BY <1>1 DEF Buttons
<1>4. \A i, j \in DOMAIN net' : net'[i].kind \in Chain /\ net'[j].kind \in Chain => i = j
  BY <1>1 DEF Buttons
<1> QED BY <1>2, <1>3, <1>4 DEF Buttons

(* A step that ends with the i-th request. *)
LEMMA EndingKeepsButtons ==
  ASSUME Typed, Buttons, NEW i \in DOMAIN net, net' = Others(i),
         loading' => loading /\ net[i].kind \notin Loads,
         mutating' = IF net[i].kind \in Chain THEN FALSE ELSE mutating
  PROVE  Buttons'
<1>1. /\ \A c \in DOMAIN net' : Place(i, c) \in DOMAIN net \ {i} /\ net'[c] = net[Place(i, c)]
      /\ \A k \in DOMAIN net \ {i} : \E c \in DOMAIN net' : net'[c] = net[k]
      /\ \A c, d \in DOMAIN net' : Place(i, c) = Place(i, d) => c = d
  <2>1. /\ DOMAIN net' = 1 .. Len(net) - 1
        /\ \A c \in DOMAIN net' : Place(i, c) \in DOMAIN net \ {i} /\ net'[c] = net[Place(i, c)]
        /\ \A k \in DOMAIN net \ {i} : \E c \in DOMAIN net' : Place(i, c) = k
    BY AfterDrop
  <2>2. i \in Nat /\ \A c, d \in DOMAIN net' : c \in Nat /\ d \in Nat
    BY <2>1, TabFits
  <2> QED BY <2>1, <2>2 DEF Place
<1>2. loading' => \E k \in DOMAIN net' : net'[k].kind \in Loads
  BY <1>1 DEF Buttons
<1>3. mutating' <=> \E k \in DOMAIN net' : net'[k].kind \in Chain
  BY <1>1 DEF Buttons
<1>4. \A c, d \in DOMAIN net' : net'[c].kind \in Chain /\ net'[d].kind \in Chain => c = d
  BY <1>1 DEF Buttons
<1> QED BY <1>2, <1>3, <1>4 DEF Buttons

(* A step that goes on from the i-th request to another. *)
LEMMA FollowingKeepsButtons ==
  ASSUME Typed, Buttons, NEW i \in DOMAIN net, NEW k, NEW l, Follows(i, k, l),
         loading' => loading \/ k \in Loads,
         mutating' = mutating
  PROVE  Buttons'
<1>1. /\ DOMAIN net' = 1 .. Len(net) /\ Len(net) \in Nat \ {0}
      /\ \A c \in 1 .. Len(net) - 1 : Place(i, c) \in DOMAIN net \ {i} /\ net'[c] = net[Place(i, c)]
      /\ \A j \in DOMAIN net \ {i} : \E c \in 1 .. Len(net) - 1 : Place(i, c) = j
      /\ net'[Len(net)].kind = k
  BY FollowsIsSound, AfterPass DEF Follows
<1>2. i \in Nat
  BY TabFits
<1>3. \A c, d \in 1 .. Len(net) - 1 : Place(i, c) = Place(i, d) => c = d
  BY <1>1, <1>2 DEF Place
<1>4. (k \in Chain <=> net[i].kind \in Chain) /\ (net[i].kind \in Loads => k \in Loads)
  BY DEF Follows
<1>5. \A c \in DOMAIN net' : c \in 1 .. Len(net) - 1 \/ c = Len(net)
  BY <1>1
<1>9. \A j \in DOMAIN net : j # i => \E c \in DOMAIN net' : net'[c] = net[j]
  <2>1. \A c \in 1 .. Len(net) - 1 : c \in DOMAIN net'
    BY <1>1
  <2> QED BY <1>1, <2>1
<1>6. loading' => \E c \in DOMAIN net' : net'[c].kind \in Loads
  <2>1. CASE k \in Loads
    BY <1>1, <2>1
  <2>2. CASE k \notin Loads
    BY <1>4, <1>9, <2>2 DEF Buttons
  <2> QED BY <2>1, <2>2
<1>7. mutating' <=> \E c \in DOMAIN net' : net'[c].kind \in Chain
  <2>1. CASE k \in Chain
    BY <1>1, <1>4, <2>1 DEF Buttons
  <2>2. CASE k \notin Chain
    <3>1. mutating => \E c \in DOMAIN net' : net'[c].kind \in Chain
      BY <1>4, <1>9, <2>2 DEF Buttons
    <3>2. ASSUME NEW c \in DOMAIN net', net'[c].kind \in Chain
          PROVE  mutating
      <4>1. c \in 1 .. Len(net) - 1
        BY <1>1, <1>5, <2>2, <3>2
      <4> QED BY <1>1, <3>2, <4>1 DEF Buttons
    <3> QED BY <3>1, <3>2
  <2> QED BY <2>1, <2>2
<1>8. \A c, d \in DOMAIN net' : net'[c].kind \in Chain /\ net'[d].kind \in Chain => c = d
  BY <1>1, <1>3, <1>4, <1>5 DEF Buttons
<1> QED BY <1>6, <1>7, <1>8 DEF Buttons

LEMMA DeliverKeepsButtons ==
  ASSUME Typed, Buttons, NEW i \in DOMAIN net, Deliver(i)
  PROVE  Buttons'
<1> DEFINE m == net[i]
<1> USE DEF Follows
<1>1. CASE \E k, l : Follows(i, k, l) /\ (loading' => loading \/ k \in Loads) /\ mutating' = mutating
  BY <1>1, FollowingKeepsButtons
<1>2. CASE /\ net' = Others(i) /\ (loading' => loading /\ m.kind \notin Loads)
           /\ mutating' = IF m.kind \in Chain THEN FALSE ELSE mutating
  BY <1>2, EndingKeepsButtons
<1>3. CASE GetReturns(i)
  <2>1. m.kind = "get" /\ "get" \notin Chain /\ mutating' = mutating
    BY <1>3 DEF GetReturns, Chain
  <2>2. CASE Finally(i)
    BY <1>2, <2>1, <2>2 DEF Finally
  <2>3. CASE /\ Sent(Others(i), Request("state", m.lesson)) /\ loading' = loading
             /\ m.answer.outcome = "conflict"
    <3>1. Follows(i, "state", m.lesson)
      BY <2>1, <2>3, RequestFits, Asks DEF Looks, Loads, Chain
    <3> QED BY <1>1, <2>1, <2>3, <3>1
  <2> QED BY <1>3, <2>2, <2>3 DEF GetReturns
<1>4. CASE StateReturns(i) \/ ListReturns(i) \/ CreateReturns(i)
  <2>1. m.kind \in {"state", "list", "create"} /\ mutating' = mutating /\ Finally(i)
    BY <1>4 DEF StateReturns, ListReturns, CreateReturns
  <2> QED BY <1>2, <2>1 DEF Finally, Chain
<1>5. CASE TickReturns(i)
  <2>1. m.kind = "tick" /\ "tick" \notin Chain /\ "tick" \notin Loads /\ mutating' = mutating
    BY <1>5 DEF TickReturns, Chain, Loads, Reviews
  <2>2. CASE net' = Others(i) /\ loading' = loading
    BY <1>2, <2>1, <2>2
  <2>3. CASE Sent(Others(i), Request("get", m.lesson))
    <3>1. Follows(i, "get", m.lesson) /\ "get" \in Loads
      BY <2>1, <2>3, RequestFits, Asks DEF Looks, Loads, Chain
    <3> QED BY <1>1, <2>1, <3>1
  <2> QED BY <1>5, <2>2, <2>3 DEF TickReturns, OpenLesson
<1>6. CASE MutationReturns(i)
  <2>1. m.kind \in {"cancel", "retry"} /\ m.kind \in Chain /\ m.kind \notin Loads /\ loading' = loading
    BY <1>6 DEF MutationReturns, Chain, Loads, Reviews
  <2>2. CASE net' = Others(i) /\ mutating' = FALSE
    BY <1>2, <2>1, <2>2
  <2>3. ASSUME NEW k \in {"listOpen", "listClosed", "recheck"}, Sent(Others(i), Ask(k, m.lesson)),
               mutating' = mutating
        PROVE  Buttons'
    <3>1. Follows(i, k, m.lesson)
      BY <2>1, <2>3, RequestFits DEF Looks, Lists, Chain
    <3> QED BY <1>1, <2>1, <2>3, <3>1
  <2> QED BY <1>6, <2>2, <2>3, Asks DEF MutationReturns, Looks, Lists
<1>7. CASE MutationEnds(i)
  <2>1. m.kind \in Chain /\ m.kind \notin Loads /\ loading' = loading /\ mutating' = FALSE
        /\ net' = Others(i)
    BY <1>7 DEF MutationEnds, Chain, Loads, Reviews
  <2> QED BY <1>2, <2>1
<1>8. CASE ReviewReturns(i)
  <2>1. m.kind \in Reviews /\ m.kind \notin Chain /\ mutating' = mutating
    BY <1>8 DEF ReviewReturns, Reviews, Chain
  <2>2. CASE Finally(i)
    BY <1>2, <2>1, <2>2 DEF Finally
  <2>3. CASE Sent(Others(i), Listing("list", m.lesson)) /\ loading' = loading
    <3>1. Follows(i, "list", m.lesson)
      BY <2>1, <2>3, RequestFits, Asks DEF Lists, Loads, Chain
    <3> QED BY <1>1, <2>1, <2>3, <3>1
  <2>4. ASSUME NEW l \in {m.lesson, current}, Sent(Others(i), Request("get", l))
        PROVE  Buttons'
    <3>1. current \in Lessons
      BY <2>1, TabFits DEF Typed, ReviewsHere
    <3>2. Follows(i, "get", l) /\ "get" \in Loads
      BY <2>1, <2>4, <3>1, RequestFits, Asks DEF Loads, Chain
    <3> QED BY <1>1, <2>1, <3>2
  <2> QED BY <1>8, <2>2, <2>3, <2>4 DEF ReviewReturns, OpenLesson
<1> QED BY <1>3, <1>4, <1>5, <1>6, <1>7, <1>8 DEF Deliver

LEMMA StepKeepsButtons == Typed /\ Buttons /\ [Next]_vars => Buttons'
<1> SUFFICES ASSUME Typed, Buttons, [Next]_vars PROVE Buttons'
  OBVIOUS
<1>1. CASE UNCHANGED <<net, loading, mutating>>
  BY <1>1 DEF Buttons
<1>2. ASSUME NEW l \in Lessons, NEW c, NEW d, NEW e, OpenLesson(l, c, d, e, net), UNCHANGED mutating
      PROVE  Buttons'
  <2>1. Request("get", l).kind = "get" /\ Request("get", l) \in Message /\ Sound(Request("get", l))
        /\ Sent(net, Request("get", l))
    BY <1>2, PlainRequest DEF OpenLesson
  <2> QED BY <1>2, <2>1, SendingKeepsButtons DEF Loads, Chain
<1>3. CASE LeavePage \/ \E l \in Lessons : History(l)
  BY <1>1, <1>3 DEF LeavePage, History
<1>4. ASSUME NEW k \in {"cancel", "retry"}, NEW statuses \in {Open, Closed}, Bakes(k, statuses)
      PROVE  Buttons'
  <2> DEFINE l == IF current = NoLesson THEN page ELSE current
  <2>1. Sent(net, Mutation(k, l, card.revision)) /\ page # NoLesson /\ loading' = loading
        /\ mutating' = TRUE /\ ~mutating /\ k \in Chain
    BY <1>4 DEF Bakes, Chain
  <2>2. l \in Lessons /\ card.revision \in Nat
        /\ k \in Reviews \cup {"cancel", "retry"}
    BY <2>1, TabFits DEF Cards
  <2> HIDE DEF l
  <2>3. Mutation(k, l, card.revision) \in Message /\ Sound(Mutation(k, l, card.revision))
        /\ Mutation(k, l, card.revision).kind = k
    BY <2>2, MutationRequest
  <2> QED BY <2>1, <2>3, SendingKeepsButtons
<1>5. ASSUME NEW l \in Lessons, CreateClicked(l)
      PROVE  Buttons'
  <2>1. /\ Request("create", l).kind = "create" /\ Request("create", l) \in Message
        /\ Sound(Request("create", l)) /\ Sent(net, Request("create", l)) /\ UNCHANGED mutating
    BY <1>5, PlainRequest DEF CreateClicked
  <2> QED BY <2>1, SendingKeepsButtons DEF Loads, Chain
<1>6. ASSUME NEW k \in Reviews, ReviewClicked(k)
      PROVE  Buttons'
  <2>1. lesson # NoDoc /\ current # NoLesson /\ UNCHANGED mutating
        /\ Sent(net, Mutation(k, current, lesson.revision))
    BY <1>6 DEF ReviewClicked
  <2>2. /\ Mutation(k, current, lesson.revision) \in Message /\ Sound(Mutation(k, current, lesson.revision))
        /\ Mutation(k, current, lesson.revision).kind = k
    BY <2>1, TabFits, MutationRequest DEF Docs
  <2>3. k \in Loads /\ k \notin Chain
    BY DEF Loads, Reviews, Chain
  <2> QED BY <2>1, <2>2, <2>3, SendingKeepsButtons
<1>7. ASSUME NEW l \in Lessons, Tick(l), UNCHANGED <<loading, mutating>>
      PROVE  Buttons'
  <2>1. /\ Request("tick", l).kind = "tick" /\ Request("tick", l) \in Message
        /\ Sound(Request("tick", l))
    BY PlainRequest DEF Looks
  <2>2. "tick" \notin Chain
    BY DEF Chain
  <2> QED BY <1>1, <1>7, <2>1, <2>2, SendingKeepsButtons DEF Tick
<1>8. CASE FireTimer
  <2>1. timer \in Lessons
    BY <1>8, TabFits DEF FireTimer
  <2> QED BY <1>7, <1>8, <2>1 DEF FireTimer
<1>9. ASSUME NEW l \in Lessons, FireStray(l)
      PROVE  Buttons'
  BY <1>7, <1>9 DEF FireStray
<1>10. CASE PageEffect
  BY <1>1, <1>2, <1>10, TabFits DEF PageEffect
<1>11. CASE PollEffect
  BY <1>1, <1>11 DEF PollEffect
<1>12. ASSUME NEW i \in DOMAIN net, Handle(i) \/ Fail(i)
       PROVE  Buttons'
  <2>1. UNCHANGED <<loading, mutating>>
    BY <1>12 DEF Handle, Fail
  <2> QED BY <1>12, <2>1, AfterAnswer DEF Buttons
<1>13. ASSUME NEW l \in Lessons, ServerMoves(l)
       PROVE  Buttons'
  BY <1>1, <1>13 DEF ServerMoves
<1>14. CASE UNCHANGED vars
  BY <1>1, <1>14 DEF vars
<1>15. ASSUME NEW l \in Lessons, OpenClicked(l)
       PROVE  Buttons'
  BY <1>2, <1>15 DEF OpenClicked
<1> QED BY <1>3, <1>4, <1>5, <1>6, <1>8, <1>9, <1>10, <1>11, <1>12, <1>13, <1>14, <1>15,
           DeliverKeepsButtons DEF Next, Teacher, CancelClicked, RetryClicked

(* While a button is disabled, a request is under way whose finally clause   *)
(* enables it again, whatever fails and wherever the teacher goes            *)
(* (App.tsx 1103-1130, 1326-1328).                                           *)
THEOREM ButtonsReturn == Spec => []ButtonsComeBack
<1>1. Init => Buttons
  BY DEF Init, Buttons
<1>2. Typed /\ Buttons /\ [Next]_vars => Buttons'
  BY StepKeepsButtons
<1>3. Typed /\ Buttons => ButtonsComeBack
  BY ChainHasOne
<1> QED BY <1>1, <1>2, <1>3, TypedHolds, PTL DEF Spec
-----------------------------------------------------------------------------
(* Pages. *)

Empty ==
  /\ page # NoLesson /\ row[page].status \notin Gone /\ failures = 0
  /\ lesson = NoDoc /\ card = NoCard

(* The answer to the request gives the page something to show. *)
Brings(m) ==
  \/ m.kind = "state"
  \/ m.kind = "create" /\ m.answer.outcome = "ok"
  \/ m.kind = "get" /\ m.lesson = page /\ m.answer.outcome \in {"pending", "ok", "conflict"}

(* Either the effect of the page has still to run, or an empty page has      *)
(* asked, although the answers to others may come first.                     *)
Content == Empty /\ "page" \notin dirty => \E i \in DOMAIN net : Brings(net[i])

(* A step of the tab that loses none of these requests: if it empties the    *)
(* page, the effect runs.                                                    *)
LEMMA QuietKeepsContent ==
  ASSUME Typed, Content, dirty = {}, Ends,
         \A k \in DOMAIN net : Brings(net[k]) => \E c \in DOMAIN net' : net'[c] = net[k]
  PROVE  Content'
<1>1. CASE shown' # shown
  <2>1. "page" \in dirty'
    BY <1>1 DEF Ends, Commits
  <2> QED BY <2>1 DEF Content
<1>2. CASE shown' = shown
  <2>1. /\ UNCHANGED <<page, lesson, card, row, failures>>
    BY <1>2 DEF Ends, shown
  <2>2. Empty' => \E k \in DOMAIN net : Brings(net[k])
    BY <2>1 DEF Content, Empty
  <2>3. \A m : Brings(m) => (Brings(m))'
    BY <2>1 DEF Brings
  <2>4. ASSUME NEW k \in DOMAIN net, Brings(net[k])
        PROVE  \E c \in DOMAIN net' : (Brings(net[c]))'
    <3>1. PICK c \in DOMAIN net' : net'[c] = net[k]
      BY <2>4
    <3>2. (Brings(net[c]))'
      BY <2>1, <2>4, <3>1 DEF Brings
    <3> QED BY <3>2
  <2> QED BY <2>2, <2>4 DEF Content
<1> QED BY <1>1, <1>2

LEMMA DeliverKeepsContent ==
  ASSUME Typed, Content, NEW i \in DOMAIN net, Deliver(i)
  PROVE  Content'
<1> DEFINE m == net[i]
           l == m.lesson
<1>1. l \in Lessons /\ l # NoLesson /\ dirty = {} /\ Ends
  BY RequestFits, TabFits DEF Deliver
<1>2. CASE ~Brings(m)
  <2>1. \A k \in DOMAIN net \ {i} : \E c \in DOMAIN net' : net'[c] = net[k]
    <3>1. CASE net' = Others(i)
      BY <3>1, AfterDrop
    <3>2. ASSUME NEW k, NEW r, Follows(i, k, r)
          PROVE  \A j \in DOMAIN net \ {i} : \E c \in DOMAIN net' : net'[c] = net[j]
      <4>1. Ask(k, r) \in Message /\ Sound(Ask(k, r)) /\ Sent(Others(i), Ask(k, r))
        BY <3>2, FollowsIsSound DEF Follows
      <4> QED BY <4>1, AfterPass
    <3> QED BY <3>1, <3>2, DeliverSends
  <2> QED BY <1>1, <1>2, <2>1, QuietKeepsContent
<1>3. CASE m.kind = "state"
  <2>1. StateReturns(i)
    BY <1>3 DEF Deliver, GetReturns, StateReturns, TickReturns, MutationReturns, MutationEnds,
         ReviewReturns, ListReturns, CreateReturns, Reviews
  <2>2. m.answer.outcome = "ok" => m.answer.revision # 0
    BY <1>3, AnswerTyped DEF Lists
  <2>3. card' # NoCard
    BY <2>1, <2>2 DEF StateReturns, Over, Card, Guess, NoCard
  <2> QED BY <2>3 DEF Content, Empty
<1>4. CASE m.kind = "create" /\ m.answer.outcome = "ok"
  <2>1. CreateReturns(i)
    BY <1>4 DEF Deliver, GetReturns, StateReturns, TickReturns, MutationReturns, MutationEnds,
         ReviewReturns, ListReturns, CreateReturns, Reviews
  <2>2. m.answer.revision # 0
    BY <1>4, AnswerTyped DEF Lists
  <2>3. card' # NoCard
    BY <1>4, <2>1, <2>2 DEF CreateReturns, Card, NoCard
  <2> QED BY <2>3 DEF Content, Empty
<1>5. CASE m.kind = "get" /\ m.answer.outcome \in {"pending", "ok", "conflict"}
  <2>1. GetReturns(i)
    BY <1>5 DEF Deliver, GetReturns, StateReturns, TickReturns, MutationReturns, MutationEnds,
         ReviewReturns, ListReturns, CreateReturns, Reviews
  <2>2. CASE Shows(l, m.answer.revision)
    <3>1. lesson' # NoDoc
      BY <1>1, <2>2 DEF Shows, Resource, NoDoc
    <3> QED BY <3>1 DEF Content, Empty
  <2>3. CASE Sent(Others(i), Request("state", l))
    <3>1. /\ Request("state", l) \in Message /\ Sound(Request("state", l))
          /\ Request("state", l).kind = "state"
      BY <1>1, PlainRequest DEF Looks
    <3>2. Len(net) \in DOMAIN net' /\ net'[Len(net)].kind = "state"
      BY <2>3, <3>1, AfterPass
    <3>3. \E c \in DOMAIN net' : (Brings(net[c]))'
      BY <3>2 DEF Brings
    <3> QED BY <3>3 DEF Content
  <2> QED BY <1>5, <2>1, <2>2, <2>3 DEF GetReturns
<1> QED BY <1>2, <1>3, <1>4, <1>5 DEF Brings

LEMMA AnswerIsThere ==
  ASSUME Typed, NEW i \in DOMAIN net, NEW a, Answers(i, a)
  PROVE  net'[i].answer = a
<1>1. net[i] \in Message /\ net = [k \in DOMAIN net |-> net[k]]
  BY RequestFits DEF Typed, Queue
<1>2. net' = [net EXCEPT ![i] = [net[i] EXCEPT !.answer = a]]
  BY DEF Answers
<1>3. [net[i] EXCEPT !.answer = a].answer = a
  BY <1>1 DEF Message
<1> QED BY <1>1, <1>2, <1>3

LEMMA HandleKeepsContent ==
  ASSUME Typed, Content, NEW i \in DOMAIN net, Handle(i)
  PROVE  Content'
<1> DEFINE m == net[i]
<1>1. UNCHANGED <<shown, dirty, failures>> /\ m.answer = Pending
  BY DEF Handle
<1>2. /\ DOMAIN net' = DOMAIN net
      /\ \A k \in DOMAIN net : /\ k # i => net'[k] = net[k]
                               /\ net'[k].kind = net[k].kind
                               /\ net'[k].lesson = net[k].lesson
  BY AfterAnswer
<1>3. CASE HandleCreate(i)
  <2>1. m.kind = "create" /\ Answers(i, Payload(row'[m.lesson]))
    BY <1>3 DEF HandleCreate
  <2>2. net'[i].answer.outcome = "ok"
    BY <2>1, AnswerIsThere DEF Payload
  <2>3. (Brings(net[i]))'
    BY <1>2, <2>1, <2>2 DEF Brings
  <2> QED BY <1>2, <2>3 DEF Content
<1>4. CASE ~HandleCreate(i)
  <2>1. ASSUME Empty'
        PROVE  Empty
    <3>1. row[page].status \notin Gone
      <4>1. page \in Lessons /\ row'[page].status \notin Gone
        BY <1>1, <2>1, TabFits DEF Empty, shown
      <4>2. row' = row \/ row[m.lesson].status \notin Gone
        BY <1>4 DEF Handle, HandleRead, HandleGone, HandleCancel, HandleRetry, HandleReview
      <4>3. \A k \in Lessons : k # m.lesson => row'[k] = row[k]
        <5>1. row \in [Lessons -> Rows]
          BY DEF Typed, TypeOK
        <5> QED BY <1>4, <5>1 DEF Handle, HandleRead, HandleGone, HandleCancel, HandleRetry,
               HandleReview, Advance
      <4> QED BY <4>1, <4>2, <4>3
    <3> QED BY <1>1, <2>1, <3>1 DEF Empty, shown
  <2>2. ASSUME Empty, NEW k \in DOMAIN net, Brings(net[k])
        PROVE  (Brings(net[k]))'
    <3>1. page' = page
      BY <1>1 DEF shown
    <3>2. CASE k # i
      BY <1>2, <2>2, <3>1, <3>2 DEF Brings
    <3>3. CASE k = i /\ m.kind = "state"
      BY <1>2, <3>3 DEF Brings
    <3>4. CASE k = i /\ m.kind = "get" /\ m.lesson = page
      <4>1. HandleRead(i)
        BY <3>4 DEF Handle, HandleRead, HandleGone, HandleCancel, HandleRetry, HandleReview,
               HandleCreate, Reviews
      <4>2. Answers(i, Refused) \/ Answers(i, Payload(row[page]))
        BY <2>2, <3>4, <4>1 DEF HandleRead, Empty
      <4>3. net'[i].answer.outcome \in {"ok", "conflict"}
        BY <4>2, AnswerIsThere DEF Refused, Pending, Payload
      <4> QED BY <1>2, <3>1, <3>4, <4>3 DEF Brings
    <3>5. m.answer.outcome = "pending"
      BY <1>1 DEF Pending
    <3> QED BY <2>2, <3>2, <3>3, <3>4, <3>5 DEF Brings
  <2> QED BY <1>1, <1>2, <2>1, <2>2 DEF Content
<1> QED BY <1>3, <1>4

LEMMA StepKeepsContent == Typed /\ Content /\ [Next]_vars => Content'
<1> SUFFICES ASSUME Typed, Content, [Next]_vars PROVE Content'
  OBVIOUS
<1>1. CASE UNCHANGED vars
  BY <1>1 DEF Content, Empty, Brings, vars, shown
<1>2. ASSUME dirty = {}, Ends, UNCHANGED net \/ \E m \in Message : Sound(m) /\ Sent(net, m)
      PROVE  Content'
  <2>1. \A k \in DOMAIN net : \E c \in DOMAIN net' : net'[c] = net[k]
    BY <1>2, AfterSend
  <2> QED BY <1>2, <2>1, QuietKeepsContent
<1>3. CASE Teacher
  BY <1>2, <1>3, TeacherSends DEF Teacher
<1>4. CASE FireTimer \/ \E l \in Lessons : FireStray(l)
  <2>1. \A l \in Lessons : Tick(l) =>
          UNCHANGED net \/ \E m \in Message : Sound(m) /\ Sent(net, m)
    BY PlainRequest DEF Tick, Looks
  <2> QED BY <1>2, <1>4, <2>1, TabFits DEF FireTimer, FireStray
<1>5. CASE PageEffect
  <2>1. UNCHANGED <<row, page, failures>>
    BY <1>5 DEF PageEffect
  <2>2. CASE page # NoLesson /\ OpenLesson(page, current, lesson, card, net)
    <3>1. /\ Request("get", page) \in Message /\ Sound(Request("get", page))
          /\ Request("get", page).kind = "get" /\ Request("get", page).lesson = page
      BY <2>2, TabFits, PlainRequest
    <3>2. Request("get", page).answer.outcome = "pending"
      BY DEF Request, Mutation, Pending
    <3>3. Len(net) + 1 \in DOMAIN net' /\ net'[Len(net) + 1] = Request("get", page)
      BY <2>2, <3>1, AfterSend DEF OpenLesson
    <3>4. \E c \in DOMAIN net' : (Brings(net[c]))'
      BY <2>1, <3>1, <3>2, <3>3 DEF Brings
    <3> QED BY <3>4 DEF Content
  <2>3. CASE /\ page = NoLesson \/ (current = page /\ Has(page))
             /\ UNCHANGED <<lesson, card>>
    <3>1. ~Empty'
      BY <2>1, <2>3 DEF Empty, Has, NoDoc
    <3> QED BY <3>1 DEF Content
  <2> QED BY <1>5, <2>2, <2>3 DEF PageEffect
<1>6. CASE PollEffect
  <2>1. UNCHANGED <<row, shown, net, failures>> /\ "page" \notin dirty
    BY <1>6 DEF PollEffect
  <2> QED BY <2>1 DEF Content, Empty, Brings, shown
<1>7. ASSUME NEW l \in Lessons, ServerMoves(l)
      PROVE  Content'
  <2>1. UNCHANGED <<shown, dirty, net, failures>>
    BY <1>7 DEF ServerMoves
  <2>2. ASSUME NEW k \in Lessons, row'[k].status \notin Gone
        PROVE  row[k].status \notin Gone
    <3>1. row \in [Lessons -> Rows]
      BY DEF Typed, TypeOK
    <3>2. k # l => row'[k] = row[k]
      BY <1>7, <3>1 DEF ServerMoves, BakeMoves, OtherTab, Advance
    <3>3. row[l].status \notin Gone
      BY <1>7 DEF ServerMoves, BakeMoves, OtherTab, Open, Closed, Gone
    <3> QED BY <2>2, <3>2, <3>3
  <2>3. Empty' => Empty
    BY <2>1, <2>2, TabFits DEF Empty, shown
  <2> QED BY <2>1, <2>3 DEF Content, Brings, shown
<1>8. ASSUME NEW i \in DOMAIN net, Fail(i)
      PROVE  Content'
  <2>1. failures' = failures + 1 /\ failures \in Nat
    BY <1>8, TabFits DEF Fail
  <2> QED BY <2>1 DEF Content, Empty
<1> QED BY <1>1, <1>3, <1>4, <1>5, <1>6, <1>7, <1>8, DeliverKeepsContent, HandleKeepsContent
        DEF Next

(* A page of a lesson that is there does not stay empty while no request     *)
(* fails (App.tsx:938-956), although openLesson clears the document and the  *)
(* card that the answer to another page's request has just set, and answers  *)
(* come in any order.                                                        *)
THEOREM PagesHaveContent == Spec => []PageHasContent
<1>1. Init => Content
  BY DEF Init, Content, Empty
<1>2. Typed /\ Content /\ [Next]_vars => Content'
  BY StepKeepsContent
<1>3. Typed /\ Content => PageHasContent
  <2> SUFFICES ASSUME Content, dirty = {}, net = <<>>, Empty PROVE FALSE
    BY DEF PageHasContent, Empty
  <2>1. DOMAIN net = {}
    OBVIOUS
  <2> QED BY <2>1 DEF Content
<1> QED BY <1>1, <1>2, <1>3, TypedHolds, PTL DEF Spec
=============================================================================
