----------------------------- MODULE TeacherTab -----------------------------
(***************************************************************************)
(* One browser tab of a teacher (App.tsx), as the event loop runs it: a    *)
(* function between two awaits is one step, a request is on its way in     *)
(* between, and any other function may run meanwhile. React commits after  *)
(* each step, and the effects that follow a commit run before the next one *)
(* (dirty).                                                                *)
(*                                                                         *)
(* The tab shows one page. Beside the page's address it keeps the lesson   *)
(* it works on (current), a lesson document, and a status card for a       *)
(* lesson that is not ready; the card does not say whose it is. A poll is  *)
(* a chain of timers and requests: the tab remembers the lesson it polls   *)
(* (active) and its last timer, and a timer whose handle was overwritten   *)
(* is a stray.                                                             *)
(***************************************************************************)
EXTENDS Naturals, FiniteSets, Sequences, SequencesExt

CONSTANTS
  Lessons,
  NoLesson,
  MaxClicks,     (* what the teacher does, here and in other tabs *)
  MaxNet,        (* requests under way when a tick sends its own  *)
  MaxFailures,   (* bounds the requests that fail                 *)
  GivesUp        (* whether bakes outlast the 260 ticks of a poll *)

ASSUME TabBoundsAssumption ==
  /\ NoLesson \notin Lessons
  /\ {MaxClicks, MaxNet, MaxFailures} \subseteq Nat
  /\ GivesUp \in BOOLEAN

VARIABLES
  row,        (* the lessons at the server                                *)
  page,       (* route: the lesson of the page, NoLesson for other pages  *)
  current,    (* currentLessonId, and its ref                             *)
  lesson,     (* the document                                             *)
  card,       (* bakeStatus                                               *)
  active,     (* activePollIdRef                                          *)
  timer,      (* the poll timer pollTimerRef can still cancel             *)
  strays,     (* poll timers nobody can cancel                            *)
  loading,
  mutating,   (* bakeMutationInFlightRef                                  *)
  dirty,      (* effects that have to run                                 *)
  net,        (* requests under way, in the order they were sent          *)
  clicks,
  failures

poll == <<active, timer, strays>>
shown == <<page, current, lesson, card>>
vars == <<row, shown, poll, loading, mutating, dirty, net, clicks, failures>>

Open == {"draft", "baking"}
Closed == {"failed", "cancelled"}
Gone == {"absent", "deleted"}
Rows == [status : {"ready"} \cup Gone \cup Open \cup Closed, revision : Nat, source : Nat]

NoDoc == [of |-> NoLesson, revision |-> 0]
NoCard == [status |-> "absent", revision |-> 0]
Resource(l, r) == [of |-> l, revision |-> r]
Card(s, r) == [status |-> s, revision |-> r]
(* The card of a tab that knows only that the lesson is not ready. *)
Guess == Card("baking", 1)
(* The card a poll makes of an error's body, which has no status.  *)
Blank == Card("none", 0)

Pending == [outcome |-> "pending", status |-> "none", revision |-> 0]
Refused == [Pending EXCEPT !.outcome = "conflict"]
Missing == [Pending EXCEPT !.outcome = "missing"]
Errored == [Pending EXCEPT !.outcome = "error"]   (* any other status of HTTP *)
Failed == [Pending EXCEPT !.outcome = "failed"]   (* the fetch is rejected    *)
Payload(r) == [outcome |-> "ok", status |-> r.status, revision |-> r.revision]

Mutation(k, l, r) == [kind |-> k, lesson |-> l, revision |-> r, answer |-> Pending]
Request(k, l) == Mutation(k, l, 0)
(* What the list of lessons says is left out: it is answered when it is sent. *)
Listing(k, l) == [Request(k, l) EXCEPT !.answer.outcome = "ok"]

Looks == {"state", "tick", "recheck"}
Lists == {"list", "listOpen", "listClosed"}
Reviews == {"edit", "accept", "draft"}

Init ==
  /\ row \in [Lessons -> {[status |-> "absent", revision |-> 0, source |-> 0],
                          [status |-> "draft", revision |-> 1, source |-> 0],
                          [status |-> "ready", revision |-> 3, source |-> 0]}]
  /\ page = NoLesson /\ current = NoLesson
  /\ lesson = NoDoc /\ card = NoCard
  /\ active = NoLesson /\ timer = NoLesson /\ strays = [l \in Lessons |-> 0]
  /\ loading = FALSE /\ mutating = FALSE
  /\ dirty = {} /\ net = <<>> /\ clicks = 0 /\ failures = 0
-----------------------------------------------------------------------------
(* The server. *)

Answers(i, a) == net' = [net EXCEPT ![i].answer = a]

Advance(l, s) == row' = [row EXCEPT ![l].status = s, ![l].revision = @ + 1]

HandleRead(i) ==
  LET r == row[net[i].lesson]
  IN  /\ net[i].kind \in Looks \cup {"get"}
      /\ Answers(i, IF r.status \in Gone THEN Missing
                    ELSE IF net[i].kind = "get" /\ r.status # "ready" THEN Refused
                    ELSE Payload(r))
      /\ UNCHANGED row

(* A button may carry the revision of another lesson, or of one that is gone. *)
HandleGone(i) ==
  /\ net[i].kind \in {"cancel", "retry"} \cup Reviews
  /\ row[net[i].lesson].status \in Gone
  /\ Answers(i, Missing)
  /\ UNCHANGED row

HandleCancel(i) ==
  LET l == net[i].lesson
      fits == row[l].revision = net[i].revision
  IN  /\ net[i].kind = "cancel"
      /\ row[l].status \notin Gone
      /\ \/ /\ fits /\ row[l].status \in Open
            /\ Advance(l, "cancelled")
            /\ Answers(i, Payload(row'[l]))
         \/ /\ fits /\ row[l].status = "cancelled"
            /\ Answers(i, Payload(row[l]))
            /\ UNCHANGED row
         \/ /\ ~fits \/ row[l].status \notin Open \cup {"cancelled"}
            /\ Answers(i, Refused)
            /\ UNCHANGED row

Requeued(r) == [status |-> "draft", revision |-> r.revision + 1, source |-> r.revision]

(* The previous attempt may still be finishing: then a retry is refused. *)
HandleRetry(i) ==
  LET l == net[i].lesson
      replay == row[l].source = net[i].revision
  IN  /\ net[i].kind = "retry"
      /\ row[l].status \notin Gone
      /\ \/ /\ replay
            /\ Answers(i, Payload(row[l]))
            /\ UNCHANGED row
         \/ /\ ~replay /\ row[l].revision = net[i].revision /\ row[l].status \in Closed
            /\ row' = [row EXCEPT ![l] = Requeued(@)]
            /\ Answers(i, Payload(row'[l]))
         \/ /\ ~replay
            /\ Answers(i, Refused)
            /\ UNCHANGED row

(* A review request may also be refused for what the lesson is. *)
HandleReview(i) ==
  LET l == net[i].lesson
      fits == row[l].revision = net[i].revision
  IN  /\ net[i].kind \in Reviews
      /\ row[l].status \notin Gone
      /\ \/ fits /\ row[l].status = "ready" /\ Advance(l, "ready") /\ Answers(i, Payload(row'[l]))
         \/ ~fits /\ Answers(i, Refused) /\ UNCHANGED row
         \/ fits /\ Answers(i, Failed) /\ UNCHANGED row

HandleCreate(i) ==
  /\ net[i].kind = "create"
  /\ Advance(net[i].lesson, "draft")
  /\ Answers(i, Payload(row'[net[i].lesson]))

Handle(i) ==
  /\ net[i].answer = Pending
  /\ \/ HandleRead(i) \/ HandleGone(i) \/ HandleCancel(i) \/ HandleRetry(i)
     \/ HandleReview(i) \/ HandleCreate(i)
  /\ UNCHANGED <<shown, poll, loading, mutating, dirty, clicks, failures>>

(* A request fails: the fetch is rejected, or the answer is an error (the     *)
(* session has ended, the database is locked), which only a tick and          *)
(* mutateBake's loadCatalog tell from a rejected fetch.                       *)
Failures(kind) ==
  IF kind \in {"tick", "listOpen", "listClosed"} THEN {Failed, Errored} ELSE {Failed}

(* Before the server has acted on it, or after. *)
Fail(i) ==
  /\ failures < MaxFailures
  /\ \E a \in Failures(net[i].kind) : net[i].answer # a /\ Answers(i, a)
  /\ failures' = failures + 1
  /\ UNCHANGED <<row, shown, poll, loading, mutating, dirty, clicks>>

BakeMoves(l) ==
  \/ row[l].status = "draft" /\ Advance(l, "baking")
  \/ row[l].status = "baking" /\ \E s \in {"ready", "failed"} : Advance(l, s)

(* Another tab edits a ready lesson, cancels a bake, bakes again, deletes. *)
OtherTab(l) ==
  /\ clicks < MaxClicks /\ clicks' = clicks + 1
  /\ \/ row[l].status = "ready" /\ Advance(l, "ready")
     \/ row[l].status \in Open /\ Advance(l, "cancelled")
     \/ row[l].status \in Closed /\ row' = [row EXCEPT ![l] = Requeued(@)]
     \/ /\ row[l].status \in Closed \cup {"ready"}
        /\ row' = [row EXCEPT ![l].status = "deleted"]

ServerMoves(l) ==
  /\ (BakeMoves(l) /\ UNCHANGED clicks) \/ OtherTab(l)
  /\ UNCHANGED <<shown, poll, loading, mutating, dirty, net, failures>>
-----------------------------------------------------------------------------
(* What the tab's functions do between two awaits.                         *)
(* Definitions named X_<fault> are seeded faults: each is X with one mistake, *)
(* kept to show that the property named in PROJECT.json notices it.          *)

ClearPoll_TimerOnly == timer' = NoLesson /\ UNCHANGED <<active, strays>>
ClearPoll == active' = NoLesson /\ timer' = NoLesson /\ UNCHANGED strays

PollStatus(l) == active' = l /\ timer' = l /\ UNCHANGED strays

(* A tick plans the next one; the handle of another pending timer is lost. *)
Schedule(l) ==
  /\ timer' = l
  /\ strays' = IF timer = NoLesson THEN strays ELSE [strays EXCEPT ![timer] = @ + 1]
  /\ UNCHANGED active

Sent(queue, m) == net' = Append(queue, m)

(* The part of openLesson before its first await, in a closure that has      *)
(* seen "captured" as the current lesson, after the function that called it  *)
(* has set the document to d and the card to c.                              *)
OpenLesson(l, captured, d, c, queue) ==
  /\ lesson' = IF captured # l THEN NoDoc ELSE d
  /\ card' = IF captured # l THEN NoCard ELSE c
  /\ loading' = TRUE
  /\ Sent(queue, Request("get", l))

(* The effects whose dependencies a step has changed. *)
Commits(waiting) ==
  dirty' = waiting \cup (IF current' # current THEN {"page", "poll"}
                         ELSE IF shown' # shown THEN {"page"} ELSE {})

(* The end of a step of the tab, which runs when the effects of the last     *)
(* step have.                                                                *)
Ends == Commits({}) /\ UNCHANGED <<row, failures>>
-----------------------------------------------------------------------------
(* Answers. *)

Others(i) == RemoveAt(net, i)

(* The "finally" of a function that has set loading. *)
Finally_Answered(i) ==
  /\ loading' = (loading /\ net[i].answer = Failed)
  /\ net' = Others(i)
Finally(i) == loading' = FALSE /\ net' = Others(i)

Shows(l, r) ==
  /\ lesson' = Resource(l, r) /\ card' = NoCard
  /\ current' = l /\ page' = l

GetReturns(i) ==
  LET m == net[i]
      l == m.lesson
  IN  /\ m.kind = "get"
      /\ \/ /\ m.answer.outcome = "ok"
            /\ Shows(l, m.answer.revision)
            /\ Finally(i)
         \/ /\ m.answer.outcome = "conflict"
            /\ Len(net) <= MaxNet
            /\ lesson' = NoDoc /\ current' = l /\ page' = l
            /\ Sent(Others(i), Request("state", l))
            /\ UNCHANGED <<card, loading>>
         \/ /\ m.answer.outcome \in {"missing", "failed"}
            /\ Finally(i)
            /\ UNCHANGED shown
      /\ UNCHANGED <<poll, mutating>>

Over(answer) == answer.outcome = "ok" /\ answer.status \in Closed

StateReturns(i) ==
  LET m == net[i]
      l == m.lesson
      s == m.answer.status
      known == m.answer.outcome = "ok"
  IN  /\ m.kind = "state"
      /\ IF Over(m.answer)
         THEN card' = Card(s, m.answer.revision) /\ UNCHANGED poll
         ELSE /\ card' = IF known THEN Card(IF s = "ready" THEN "baking" ELSE s,
                                            m.answer.revision)
                                  ELSE Guess
              /\ PollStatus(l)
      /\ Finally(i)
      /\ UNCHANGED <<page, current, lesson, mutating>>

(* The statuses a poll ends with. *)
Final == Closed

(* What a tick shows: the status, the body of an error as if it were one, or *)
(* what was there before.                                                    *)
Heard(answer) ==
  CASE answer.outcome = "ok" -> Card(answer.status, answer.revision)
    [] answer.outcome = "failed" -> IF card = NoCard THEN Guess ELSE card
    [] OTHER -> Blank

(* The closure that opens a lesson that has become ready is the one that     *)
(* began the poll: it may have seen an earlier current lesson. A poll that   *)
(* has not met the end of the bake is given up after its last tick.          *)
TickReturns(i) ==
  LET m == net[i]
      l == m.lesson
      s == m.answer.status
  IN  /\ m.kind = "tick"
      /\ \/ /\ active # l
            /\ net' = Others(i)
            /\ UNCHANGED <<lesson, card, poll, loading>>
         \/ /\ active = l /\ s = "ready"
            /\ ClearPoll
            /\ \E captured \in {l, NoLesson} :
                 OpenLesson(l, captured, lesson, Heard(m.answer), Others(i))
         \/ /\ active = l /\ s # "ready"
            /\ card' = Heard(m.answer)
            /\ \/ s \in Final /\ ClearPoll
               \/ s \notin Final /\ Schedule(l)
               \/ s \notin Final /\ GivesUp /\ ClearPoll
            /\ net' = Others(i)
            /\ UNCHANGED <<lesson, loading>>
      /\ UNCHANGED <<page, current, mutating>>

(* mutateBake: the answer, the new list (whatever its status, but for a      *)
(* rejected fetch), and the second look at a conflict.                       *)
MutationReturns(i) ==
  LET m == net[i]
      l == m.lesson
      s == m.answer.status
  IN  /\ m.kind \in {"cancel", "retry"}
      /\ \/ /\ m.answer.outcome = "ok"
            /\ card' = Card(s, m.answer.revision)
            /\ current' = l /\ lesson' = NoDoc
            /\ Sent(Others(i), Listing(IF s \in Open THEN "listOpen" ELSE "listClosed", l))
            /\ UNCHANGED mutating
         \/ /\ m.answer.outcome = "conflict"
            /\ Sent(Others(i), Request("recheck", l))
            /\ UNCHANGED <<card, current, lesson, mutating>>
         \/ /\ m.answer.outcome \in {"missing", "failed"}
            /\ mutating' = FALSE
            /\ net' = Others(i)
            /\ UNCHANGED <<card, current, lesson>>
      /\ UNCHANGED <<page, poll, loading>>

MutationEnds(i) ==
  LET m == net[i]
      l == m.lesson
      s == m.answer.status
      known == m.answer.outcome = "ok"
      goesOn == m.answer.outcome # "failed"
  IN  /\ \/ /\ m.kind = "listOpen"
            /\ IF goesOn THEN PollStatus(l) ELSE UNCHANGED poll
            /\ UNCHANGED card
         \/ /\ m.kind = "listClosed"
            /\ IF goesOn THEN ClearPoll ELSE UNCHANGED poll
            /\ UNCHANGED card
         \/ /\ m.kind = "recheck"
            /\ card' = IF known THEN Card(s, m.answer.revision) ELSE card
            /\ IF known /\ s \in Open THEN PollStatus(l) ELSE UNCHANGED poll
      /\ mutating' = FALSE
      /\ net' = Others(i)
      /\ UNCHANGED <<page, current, lesson, loading>>

(* reviewMutation, acceptLesson and returnToDraft: after a conflict accept   *)
(* reloads the lesson it was called for, the others the one current by now.  *)
ReviewReturns(i) ==
  LET m == net[i]
      l == m.lesson
      reload == IF m.kind = "accept" THEN l ELSE current
  IN  /\ m.kind \in Reviews
      /\ \/ /\ m.answer.outcome = "ok"
            /\ lesson' = Resource(l, m.answer.revision)
            /\ IF m.kind = "edit"
               THEN Finally(i)
               ELSE Sent(Others(i), Listing("list", l)) /\ UNCHANGED loading
            /\ UNCHANGED card
         \/ /\ m.answer.outcome = "conflict"
            /\ OpenLesson(reload, l, lesson, card, Others(i))
         \/ /\ m.answer.outcome \in {"missing", "failed"}
            /\ Finally(i)
            /\ UNCHANGED <<lesson, card>>
      /\ UNCHANGED <<page, current, poll, mutating>>

ListReturns(i) ==
  /\ net[i].kind = "list"
  /\ Finally(i)
  /\ UNCHANGED <<shown, poll, mutating>>

CreateReturns(i) ==
  LET m == net[i]
      l == m.lesson
  IN  /\ m.kind = "create"
      /\ IF m.answer.outcome = "ok"
         THEN /\ current' = l /\ page' = l
              /\ card' = Card(m.answer.status, m.answer.revision)
              /\ PollStatus(l)
         ELSE UNCHANGED <<current, page, card, poll>>
      /\ Finally(i)
      /\ UNCHANGED <<lesson, mutating>>

Deliver(i) ==
  LET m == net[i]
  IN  /\ dirty = {} /\ m.answer # Pending
      /\ \/ GetReturns(i) \/ StateReturns(i) \/ TickReturns(i) \/ MutationReturns(i)
         \/ MutationEnds(i) \/ ReviewReturns(i) \/ ListReturns(i) \/ CreateReturns(i)
      /\ Ends /\ UNCHANGED clicks
-----------------------------------------------------------------------------
(* Timers. *)

Tick(l) ==
  IF active = l THEN Sent(net, Request("tick", l)) ELSE UNCHANGED net

FireTimer ==
  /\ dirty = {} /\ timer # NoLesson
  /\ active = timer => Len(net) < MaxNet
  /\ Tick(timer)
  /\ timer' = NoLesson
  /\ UNCHANGED <<shown, active, strays, loading, mutating>>
  /\ Ends /\ UNCHANGED clicks

FireStray(l) ==
  /\ dirty = {} /\ strays[l] > 0
  /\ active = l => Len(net) < MaxNet
  /\ Tick(l)
  /\ strays' = [strays EXCEPT ![l] = @ - 1]
  /\ UNCHANGED <<shown, active, timer, loading, mutating>>
  /\ Ends /\ UNCHANGED clicks
-----------------------------------------------------------------------------
(* Effects. *)

Has_Current(l) == lesson.of = l \/ current = l
Has(l) == lesson.of = l \/ (card # NoCard /\ current = l)

(* The page of a lesson opens it, unless it is there already. *)
PageEffect ==
  /\ "page" \in dirty
  /\ UNCHANGED <<row, page, poll, mutating, clicks, failures>>
  /\ IF page # NoLesson /\ (current # page \/ ~Has(page))
     THEN /\ OpenLesson(page, current, lesson, card, net)
          /\ current' = IF current = NoLesson THEN page ELSE current
     ELSE UNCHANGED <<current, lesson, card, loading, net>>
  /\ Commits(dirty \ {"page"})

(* A change of the current lesson ends the poll of another one. *)
PollEffect ==
  /\ dirty = {"poll"}
  /\ dirty' = {}
  /\ IF active \notin {NoLesson, current} THEN ClearPoll ELSE UNCHANGED poll
  /\ UNCHANGED <<row, shown, loading, mutating, net, clicks, failures>>
-----------------------------------------------------------------------------
(* The teacher. *)

LeavePage ==
  /\ page # NoLesson /\ page' = NoLesson
  /\ UNCHANGED <<current, lesson, card, poll, loading, mutating, net>>

(* Back and forward, a bookmark, a link. *)
History(l) ==
  /\ page # l /\ page' = l
  /\ UNCHANGED <<current, lesson, card, poll, loading, mutating, net>>

(* A row of the list, or a button of the lesson's page. *)
OpenClicked(l) ==
  /\ row[l].status # "absent"
  /\ page = NoLesson \/ l = IF current = NoLesson THEN page ELSE current
  /\ OpenLesson(l, current, lesson, card, net)
  /\ UNCHANGED <<page, current, poll, mutating>>

Bakes(kind, statuses) ==
  /\ page # NoLesson /\ lesson = NoDoc
  /\ card.status \in statuses
  /\ ~mutating
  /\ mutating' = TRUE
  /\ Sent(net, Mutation(kind, IF current = NoLesson THEN page ELSE current, card.revision))
  /\ UNCHANGED <<shown, poll, loading>>

CancelClicked == Bakes("cancel", Open)
RetryClicked == Bakes("retry", Closed)

ReviewClicked(kind) ==
  /\ page # NoLesson /\ lesson # NoDoc /\ current # NoLesson
  /\ ~loading
  /\ loading' = TRUE
  /\ Sent(net, Mutation(kind, current, lesson.revision))
  /\ UNCHANGED <<shown, poll, mutating>>

CreateClicked(l) ==
  /\ page = NoLesson
  /\ row[l].status = "absent"
  /\ ~loading
  /\ \A i \in DOMAIN net : ~(net[i].kind = "create" /\ net[i].lesson = l)
  /\ lesson' = NoDoc
  /\ loading' = TRUE
  /\ Sent(net, Request("create", l))
  /\ UNCHANGED <<page, current, card, poll, mutating>>

Teacher ==
  /\ dirty = {} /\ clicks < MaxClicks
  /\ \/ LeavePage \/ CancelClicked \/ RetryClicked
     \/ \E l \in Lessons : History(l) \/ OpenClicked(l) \/ CreateClicked(l)
     \/ \E kind \in Reviews : ReviewClicked(kind)
  /\ clicks' = clicks + 1
  /\ Ends

Next ==
  \/ Teacher
  \/ \E l \in Lessons : ServerMoves(l) \/ FireStray(l)
  \/ \E i \in DOMAIN net : Handle(i) \/ Deliver(i) \/ Fail(i)
  \/ FireTimer \/ PageEffect \/ PollEffect

Spec == Init /\ [][Next]_vars
-----------------------------------------------------------------------------
Kinds == Looks \cup Lists \cup Reviews \cup {"get", "cancel", "retry", "create"}
Answered == [outcome : {"pending", "ok", "conflict", "missing", "error", "failed"},
             status : {"none", "ready"} \cup Open \cup Closed, revision : Nat]

TypeOK ==
  /\ row \in [Lessons -> Rows]
  /\ {page, current, active, timer} \subseteq Lessons \cup {NoLesson}
  /\ lesson \in [of : Lessons, revision : Nat \ {0}] \cup {NoDoc}
  /\ card \in [status : {"none", "absent", "ready"} \cup Open \cup Closed, revision : Nat]
  /\ strays \in [Lessons -> Nat]
  /\ {loading, mutating} \subseteq BOOLEAN
  /\ dirty \subseteq {"page", "poll"}
  /\ net \in Seq([kind : Kinds, lesson : Lessons, revision : Nat, answer : Answered])
  /\ {clicks, failures} \subseteq Nat

Waits(kinds, l) == \E i \in DOMAIN net : net[i].kind \in kinds /\ net[i].lesson = l

(* A tab that says it is polling really is (App.tsx:1187, "robust poll"):    *)
(* whatever was started, overwritten or dropped meanwhile, a timer of that   *)
(* lesson will fire or a request of it is under way.                         *)
PollingIsAlive ==
  active # NoLesson => timer = active \/ strays[active] > 0 \/ Waits({"tick"}, active)

(* Buttons do not stay disabled, although every function that shares         *)
(* "loading" clears it for all of them: while one is disabled, something is  *)
(* under way whose end enables it. And mutateBake has one chain of requests  *)
(* at a time, however often it is clicked.                                   *)
ButtonsComeBack ==
  LET chain == {i \in DOMAIN net :
                  net[i].kind \in {"cancel", "retry", "recheck", "listOpen", "listClosed"}}
  IN  /\ loading => \E i \in DOMAIN net :
                      net[i].kind \in Reviews \cup {"get", "state", "list", "create"}
      /\ Cardinality(chain) = IF mutating THEN 1 ELSE 0

(* A page of a lesson does not stay empty (App.tsx:938, "prevents empty page *)
(* (route lesson but no currentLessonId/lesson rendered)"): at rest, unless  *)
(* the lesson is gone or a request has failed, it shows a document or a      *)
(* card, although whatever opens another lesson meanwhile clears both.       *)
PageHasContent ==
  /\ dirty = {} /\ net = <<>> /\ failures = 0
  /\ page # NoLesson /\ row[page].status \notin Gone
  => lesson # NoDoc \/ card # NoCard
=============================================================================
