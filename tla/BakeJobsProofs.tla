--------------------------- MODULE BakeJobsProofs ---------------------------
(***************************************************************************)
(* Theorems about BakeJobs, for every set of lessons, workers and tabs and *)
(* every bound: type correctness first, then the invariant that keeps the  *)
(* attempts of a lesson apart and what it takes for a blocked lesson to    *)
(* have its worker; then what a row remembers and what a tab               *)
(* may conclude from it (the attempt history, the retry requests, the      *)
(* revision), from one lemma, RowsStep, that says which of nine things a   *)
(* step does to a row; last the refinement.                                *)
(***************************************************************************)
EXTENDS BakeJobs, TLAPS, SequenceTheorems
-----------------------------------------------------------------------------
(* What the row operators return. *)

(* Archiving keeps the history a sequence of dispositions. *)
LEMMA ArchiveType ==
  ASSUME NEW r \in Row, NEW status \in Terminal, NEW retried \in Nat
  PROVE  Archive(r, status, retried) \in Seq(Disposition)
<1> DEFINE mine == {i \in DOMAIN r.history : r.history[i].attempt = r.attempt}
           entry == [attempt |-> r.attempt, status |-> status, retried |-> retried]
<1>1. r.history \in Seq(Disposition) /\ entry \in Disposition
  BY DEF Row, Disposition
<1>2. CASE mine = {}
  BY <1>1, <1>2 DEF Archive
<1>3. CASE mine # {}
  <2> DEFINE n == Len(r.history)
             e(i) == IF i \in mine /\ retried # NoRevision
                     THEN [r.history[i] EXCEPT !.retried = retried]
                     ELSE r.history[i]
  <2>1. n \in Nat /\ DOMAIN r.history = 1 .. n
    BY <1>1
  <2>2. ASSUME NEW i \in 1 .. n
        PROVE  e(i) \in Disposition
    <3>1. r.history[i] \in Disposition
      BY <1>1, ElementOfSeq
    <3> QED BY <3>1 DEF Disposition
  <2>3. [i \in 1 .. n |-> e(i)] \in Seq(Disposition)
    BY <2>1, <2>2
  <2>4. Archive(r, status, retried) = [i \in 1 .. n |-> e(i)]
    BY <1>3, <2>1 DEF Archive
  <2> QED BY <2>3, <2>4
<1> QED BY <1>2, <1>3

(* Ending an attempt yields a row that differs in the listed columns only. *)
LEMMA EndedFields ==
  ASSUME NEW r \in Row, NEW status \in Terminal, NEW quiesced \in BOOLEAN,
         NEW h \in Seq(Disposition), h = Archive(r, status, NoRevision),
         NEW e, e = Ended(r, status, quiesced)
  PROVE  /\ e \in Row
         /\ e = [status |-> status, revision |-> r.revision + 1,
                 attempt |-> r.attempt, token |-> r.token, leased |-> r.leased,
                 quiesced |-> quiesced, history |-> h,
                 retryRevision |-> r.retryRevision]
<1>1. status \in Statuses
  BY DEF Terminal, Closed, Statuses
<1>2. e = [status |-> status, revision |-> r.revision + 1,
           attempt |-> r.attempt, token |-> r.token, leased |-> r.leased,
           quiesced |-> quiesced, history |-> h,
           retryRevision |-> r.retryRevision]
  BY DEF Ended, Row
<1>3. e \in Row
  BY <1>1, <1>2 DEF Row
<1> QED BY <1>2, <1>3

LEMMA EndedType ==
  ASSUME NEW r \in Row, NEW status \in Terminal, NEW quiesced \in BOOLEAN
  PROVE  /\ Ended(r, status, quiesced) \in Row
         /\ Ended(r, status, quiesced) =
              [status |-> status, revision |-> r.revision + 1,
               attempt |-> r.attempt, token |-> r.token, leased |-> r.leased,
               quiesced |-> quiesced, history |-> Archive(r, status, NoRevision),
               retryRevision |-> r.retryRevision]
<1>1. Archive(r, status, NoRevision) \in Seq(Disposition)
  BY ArchiveType DEF NoRevision
<1> QED BY <1>1, EndedFields

(* A retry yields the draft of the next attempt. *)
LEMMA RequeuedFields ==
  ASSUME NEW r \in Row, r.status \in Closed, NEW expected \in Nat,
         NEW h \in Seq(Disposition), h = Archive(r, r.status, expected),
         NEW q, q = Requeued(r, expected)
  PROVE  /\ q \in Row
         /\ q = [status |-> "draft", revision |-> r.revision + 1,
                 attempt |-> r.attempt + 1, token |-> NoToken, leased |-> FALSE,
                 quiesced |-> FALSE, history |-> h, retryRevision |-> expected]
<1>1. q = [status |-> "draft", revision |-> r.revision + 1,
           attempt |-> r.attempt + 1, token |-> NoToken, leased |-> FALSE,
           quiesced |-> FALSE, history |-> h, retryRevision |-> expected]
  BY DEF Requeued, Row
<1>2. q \in Row
  BY <1>1 DEF Row, Statuses, NoToken
<1> QED BY <1>1, <1>2

LEMMA RequeuedType ==
  ASSUME NEW r \in Row, r.status \in Closed, NEW expected \in Nat
  PROVE  /\ Requeued(r, expected) \in Row
         /\ Requeued(r, expected) =
              [status |-> "draft", revision |-> r.revision + 1,
               attempt |-> r.attempt + 1, token |-> NoToken, leased |-> FALSE,
               quiesced |-> FALSE, history |-> Archive(r, r.status, expected),
               retryRevision |-> expected]
<1>1. Archive(r, r.status, expected) \in Seq(Disposition)
  BY ArchiveType DEF Terminal
<1> QED BY <1>1, RequeuedFields

(* A claim turns a draft into a baking row with a token of its own. *)
LEMMA ClaimedFields ==
  ASSUME NEW r \in Row, NEW token \in Nat,
         NEW h \in Seq(Disposition), h = r.history,
         NEW q, q = Claimed(r, token)
  PROVE  /\ q \in Row
         /\ q = [status |-> "baking", revision |-> r.revision + 1,
                 attempt |-> r.attempt, token |-> token, leased |-> FALSE,
                 quiesced |-> FALSE, history |-> h,
                 retryRevision |-> r.retryRevision]
<1>1. q = [status |-> "baking", revision |-> r.revision + 1,
           attempt |-> r.attempt, token |-> token, leased |-> FALSE,
           quiesced |-> FALSE, history |-> h,
           retryRevision |-> r.retryRevision]
  BY DEF Claimed, Row
<1>2. q \in Row
  BY <1>1 DEF Row, Statuses
<1> QED BY <1>1, <1>2

LEMMA ClaimedType ==
  ASSUME NEW r \in Row, NEW token \in Nat
  PROVE  /\ Claimed(r, token) \in Row
         /\ Claimed(r, token) =
              [status |-> "baking", revision |-> r.revision + 1,
               attempt |-> r.attempt, token |-> token, leased |-> FALSE,
               quiesced |-> FALSE, history |-> r.history,
               retryRevision |-> r.retryRevision]
<1>1. r.history \in Seq(Disposition)
  BY DEF Row
<1> QED BY <1>1, ClaimedFields

(* Recovery at startup leaves no row baking and no closed row unquiesced. *)
LEMMA RecoveredType ==
  ASSUME NEW r \in Row
  PROVE  /\ Recovered(r) \in Row
         /\ Recovered(r).status = IF r.status = "baking" THEN "failed" ELSE r.status
         /\ Recovered(r).status \in Closed => Recovered(r).quiesced
         /\ Recovered(r).attempt = r.attempt /\ Recovered(r).token = r.token
         /\ Recovered(r).leased = r.leased
         /\ Recovered(r).revision \in {r.revision, r.revision + 1}
         /\ Recovered(r).revision = r.revision => Recovered(r).status = r.status
<1>1. CASE r.status = "baking"
  <2>1. PICK h \in Seq(Disposition) : h = Archive(r, "failed", NoRevision)
    BY ArchiveType DEF NoRevision, Terminal, Closed
  <2>2. Recovered(r) =
          [status |-> "failed", revision |-> r.revision + 1,
           attempt |-> r.attempt, token |-> r.token, leased |-> r.leased,
           quiesced |-> TRUE, history |-> h, retryRevision |-> r.retryRevision]
    BY <1>1, <2>1 DEF Recovered, Ended, Row
  <2>3. Recovered(r) \in Row
    BY <2>2 DEF Row, Statuses
  <2>4. r.revision \in Nat
    BY DEF Row
  <2> QED BY <1>1, <2>2, <2>3, <2>4
<1>2. CASE r.status \in Closed
  BY <1>2 DEF Recovered, Closed, Row
<1>3. CASE r.status \notin Closed \cup {"baking"}
  BY <1>3 DEF Recovered, Closed
<1> QED BY <1>1, <1>2, <1>3

LEMMA NewRowType ==
  /\ NoRow \in Row /\ NoRow.status = "absent"
  /\ NewRow \in Row /\ NewRow.status = "draft" /\ NewRow.token = NoToken
  /\ NewRow.attempt = 1 /\ NewRow.revision = 1
<1>1. <<>> \in Seq(Disposition)
  BY EmptySeq
<1> QED BY <1>1 DEF NoRow, NewRow, Row, Statuses, NoToken, NoRevision

(* EndAll changes exactly the rows of S, each as Ended says. *)
LEMMA EndAllRows ==
  ASSUME row \in [Lessons -> Row], NEW S \in SUBSET Lessons,
         NEW status \in Terminal, NEW quiesced \in BOOLEAN,
         EndAll(S, status, quiesced)
  PROVE  /\ row' \in [Lessons -> Row]
         /\ \A l \in Lessons : row'[l] = IF l \in S THEN Ended(row[l], status, quiesced)
                                         ELSE row[l]
  BY EndedType DEF EndAll
-----------------------------------------------------------------------------
(* Type correctness. *)

LEMMA InitType == Init => TypeOK
<1> SUFFICES ASSUME Init PROVE TypeOK
  OBVIOUS
<1>1. row \in [Lessons -> Row]
  BY NewRowType DEF Init
<1>2. claim \in [Workers -> JobRecord] /\ view \in [Clients -> StatusPayload]
  BY DEF Init, NoClaim, NoView, JobRecord, StatusPayload, NoToken, NoRevision, Statuses
<1>3. pc \in [Workers -> Labels]
  BY DEF Init, Labels
<1> QED BY <1>1, <1>2, <1>3 DEF Init, TypeOK

LEMMA TeacherType == TypeOK /\ Teacher => TypeOK'
<1> SUFFICES ASSUME TypeOK, Teacher PROVE TypeOK'
  OBVIOUS
<1>1. ASSUME NEW l \in Lessons, Create(l)
      PROVE  TypeOK'
  <2>1. row' \in [Lessons -> Row]
    BY <1>1, NewRowType DEF Create, TypeOK
  <2>2. before' \in SUBSET (Lessons \X Lessons)
    <3>1. PICK older \in SUBSET {k \in Lessons : Exists(k)} :
            before' = before \cup (older \X {l})
                        \cup ({l} \X {k \in Lessons \ older : Exists(k)})
      BY <1>1 DEF Create
    <3> QED BY <3>1 DEF TypeOK
  <2>3. born' \in [Lessons -> Nat]
    BY <1>1 DEF Create, TypeOK
  <2> QED BY <1>1, <2>1, <2>2, <2>3 DEF Create, TypeOK, processVars, workerVars
<1>2. ASSUME NEW l \in Lessons, Delete(l)
      PROVE  TypeOK'
  <2>1. row' \in [Lessons -> Row]
    BY <1>2, NewRowType DEF Delete, TypeOK
  <2>2. before' \in SUBSET (Lessons \X Lessons)
    BY <1>2 DEF Delete, TypeOK
  <2> QED BY <1>2, <2>1, <2>2 DEF Delete, TypeOK, processVars, workerVars
<1>3. ASSUME NEW c \in Clients, NEW l \in Lessons, Refresh(c, l)
      PROVE  TypeOK'
  <2>1. [lesson |-> l, born |-> born[l], revision |-> row[l].revision,
         status |-> row[l].status, attempt |-> row[l].attempt] \in StatusPayload
    BY DEF TypeOK, Row, StatusPayload
  <2>2. view' \in [Clients -> StatusPayload]
    BY <1>3, <2>1 DEF Refresh, TypeOK
  <2> QED BY <1>3, <2>2 DEF Refresh, TypeOK, rowVars, processVars, workerVars
<1>4. ASSUME NEW c \in Clients, NEW l \in Lessons, Cancel(c, l)
      PROVE  TypeOK'
  <2> DEFINE q == row[l].status = "draft" \/ row[l].token = NoToken
  <2>1. q \in BOOLEAN /\ "cancelled" \in Terminal /\ {l} \in SUBSET Lessons
    BY DEF Terminal, Closed
  <2>2. EndAll({l}, "cancelled", q)
    BY <1>4 DEF Cancel
  <2> HIDE DEF q
  <2>3. row' \in [Lessons -> Row]
    BY <2>1, <2>2, EndAllRows DEF TypeOK
  <2> QED BY <1>4, <2>2, <2>3 DEF Cancel, EndAll, TypeOK, processVars, workerVars
<1>5. ASSUME NEW c \in Clients, NEW l \in Lessons, Retry(c, l)
      PROVE  TypeOK'
  <2>1. row[l] \in Row /\ row[l].status \in Closed /\ view[c].revision \in Nat
    BY <1>5 DEF Retry, MayRetry, TypeOK, StatusPayload
  <2>2. row' \in [Lessons -> Row]
    BY <1>5, <2>1, RequeuedType DEF Retry, TypeOK
  <2> QED BY <1>5, <2>2 DEF Retry, TypeOK, processVars, workerVars
<1> QED BY <1>1, <1>2, <1>3, <1>4, <1>5 DEF Teacher

(* A worker at any label but "idle" was given the lesson it works on. *)
LEMMA WorkType ==
  ASSUME TypeOK, NEW w \in Workers, Work(w),
         pc[w] # "idle" => claim[w].lesson \in Lessons
  PROVE  TypeOK'
<1> DEFINE l == claim[w].lesson
<1>1. ASSUME NEW k \in Lessons, Claim(w, k)
      PROVE  TypeOK'
  <2> DEFINE c == [lesson |-> k, attempt |-> row[k].attempt,
                   token |-> tokens + 1, calls |-> 0]
  <2>1. Claimed(row[k], tokens + 1) \in Row
    <3>1. row[k] \in Row /\ tokens + 1 \in Nat
      BY DEF TypeOK
    <3> QED BY <3>1, ClaimedType
  <2>2. row' \in [Lessons -> Row]
    BY <1>1, <2>1 DEF Claim, TypeOK
  <2>3. c \in JobRecord
    BY DEF JobRecord, Row, TypeOK
  <2>4. claim' \in [Workers -> JobRecord]
    BY <1>1, <2>3 DEF Claim, TypeOK
  <2>5. pc' \in [Workers -> Labels]
    BY <1>1 DEF Claim, Goto, TypeOK, Labels, Holding, TryLabels
  <2> QED BY <1>1, <2>2, <2>4, <2>5 DEF Claim, TypeOK, processVars
<1>2. ASSUME \/ CheckBeforeWork(w) \/ ProviderReturns(w) \/ ConfirmAnswer(w)
             \/ Validate(w) \/ Handle(w)
      PROVE  TypeOK'
  <2>1. ReadOnly /\ \E label \in Labels : Goto(w, label)
    BY <1>2 DEF CheckBeforeWork, ProviderReturns, ConfirmAnswer, Validate, Handle,
                Labels, Holding, TryLabels, HandlerLabels
  <2>2. pc' \in [Workers -> Labels]
    BY <2>1 DEF Goto, TypeOK
  <2> QED BY <2>1, <2>2 DEF ReadOnly, TypeOK, rowVars, processVars
<1>3. ASSUME BeginProviderCall(w)
      PROVE  TypeOK'
  <2>1. l \in Lessons /\ row[l] \in Row /\ claim[w] \in JobRecord
    BY <1>3 DEF BeginProviderCall, TypeOK
  <2>2. [row[l] EXCEPT !.leased = TRUE] \in Row
    BY <2>1 DEF Row
  <2>3. row' \in [Lessons -> Row]
    BY <1>3, <2>1, <2>2 DEF BeginProviderCall, TypeOK
  <2>4. [claim[w] EXCEPT !.calls = @ + 1] \in JobRecord
    BY <2>1 DEF JobRecord
  <2>5. claim' \in [Workers -> JobRecord]
    BY <1>3, <2>4 DEF BeginProviderCall, TypeOK
  <2>6. pc' \in [Workers -> Labels]
    BY <1>3 DEF BeginProviderCall, Goto, TypeOK, Labels, Holding, TryLabels
  <2> QED BY <1>3, <2>3, <2>5, <2>6 DEF BeginProviderCall, TypeOK, processVars
<1>4. ASSUME SetStep(w)
      PROVE  TypeOK'
  <2>1. l \in Lessons /\ row[l] \in Row
    BY <1>4 DEF SetStep, TypeOK
  <2>2. [row[l] EXCEPT !.revision = @ + 1] \in Row
    BY <2>1 DEF Row
  <2>3. row' \in [Lessons -> Row]
    BY <1>4, <2>1, <2>2 DEF SetStep, TypeOK
  <2>4. pc' \in [Workers -> Labels]
    BY <1>4 DEF SetStep, Goto, TypeOK, Labels, Holding, TryLabels
  <2> QED BY <1>4, <2>3, <2>4 DEF SetStep, TypeOK, processVars
<1>5. ASSUME NEW status \in {"ready", "failed"}, pc[w] # "idle", EndOwn(w, status)
      PROVE  TypeOK'
  <2>1. status \in Terminal /\ TRUE \in BOOLEAN /\ {l} \in SUBSET Lessons
    BY <1>5 DEF Terminal, Closed
  <2>2. row' \in [Lessons -> Row] /\ overdue' \in SUBSET Lessons
    <3>1. CASE Current(w)
      <4>1. EndAll({l}, status, TRUE)
        BY <1>5, <3>1 DEF EndOwn
      <4>2. row' \in [Lessons -> Row]
        BY <2>1, <4>1, EndAllRows DEF TypeOK
      <4> QED BY <4>1, <4>2 DEF EndAll, TypeOK
    <3>2. CASE ~Current(w)
      BY <1>5, <3>2 DEF EndOwn, rowVars, TypeOK
    <3> QED BY <3>1, <3>2
  <2>3. before' = before /\ born' = born
    BY <1>5 DEF EndOwn, EndAll, rowVars
  <2>4. pc' \in [Workers -> Labels]
    BY <1>5 DEF EndOwn, Goto, TypeOK, Labels
  <2> QED BY <1>5, <2>2, <2>3, <2>4 DEF EndOwn, TypeOK, processVars
<1>6. ASSUME pc[w] # "idle", Acknowledge(w)
      PROVE  row' \in [Lessons -> Row]
  <2>1. l \in Lessons /\ row[l] \in Row
    BY <1>6 DEF TypeOK
  <2>2. [row[l] EXCEPT !.quiesced = TRUE] \in Row
    BY <2>1 DEF Row
  <2> QED BY <1>6, <2>1, <2>2 DEF Acknowledge, TypeOK
<1>7. ASSUME GiveUp(w)
      PROVE  TypeOK'
  <2>1. row' \in [Lessons -> Row]
    BY <1>6, <1>7 DEF GiveUp
  <2>2. pc' \in [Workers -> Labels]
    BY <1>7 DEF GiveUp, Goto, TypeOK, Labels
  <2> QED BY <1>7, <2>1, <2>2 DEF GiveUp, TypeOK, processVars
<1>8. ASSUME Finish(w)
      PROVE  TypeOK'
  <2>1. row' \in [Lessons -> Row]
    BY <1>6, <1>8 DEF Finish
  <2>2. pc' \in [Workers -> Labels]
    BY <1>8 DEF Finish, Goto, TypeOK, Labels
  <2>3. claim' \in [Workers -> JobRecord]
    BY <1>8 DEF Finish, TypeOK, NoClaim, JobRecord, NoToken
  <2> QED BY <1>8, <2>1, <2>2, <2>3 DEF Finish, TypeOK, processVars
<1>9. CASE Complete(w)
  BY <1>5, <1>9 DEF Complete
<1>10. CASE Fail(w)
  BY <1>5, <1>10 DEF Fail
<1> QED BY <1>1, <1>2, <1>3, <1>4, <1>7, <1>8, <1>9, <1>10 DEF Work

(* Everything else keeps the types without help from another invariant. *)
LEMMA StoreFailsType ==
  ASSUME TypeOK, NEW w \in Workers, StoreFails(w)
  PROVE  TypeOK'
<1>1. pc' \in [Workers -> Labels]
  BY DEF StoreFails, Goto, Landing, TypeOK, Labels, Holding, HandlerLabels
<1>2. claim' \in [Workers -> JobRecord]
  BY DEF StoreFails, TypeOK, NoClaim, JobRecord, NoToken
<1> QED BY <1>1, <1>2 DEF StoreFails, TypeOK, rowVars, processVars

LEMMA EnvironmentType ==
  ASSUME TypeOK,
         \/ \E l \in Lessons : BecomeOverdue(l)
         \/ Sweep \/ CloseAdmission \/ FailQueued \/ Crash \/ Startup
  PROVE  TypeOK'
<1>1. ASSUME NEW l \in Lessons, BecomeOverdue(l)
      PROVE  TypeOK'
  BY <1>1 DEF BecomeOverdue, TypeOK, processVars, workerVars
<1>2. ASSUME NEW S \in SUBSET Lessons, NEW q \in BOOLEAN, EndAll(S, "failed", q),
             UNCHANGED <<processVars, workerVars, view>>
      PROVE  TypeOK'
  <2>1. "failed" \in Terminal
    BY DEF Terminal, Closed
  <2>2. row' \in [Lessons -> Row]
    BY <1>2, <2>1, EndAllRows DEF TypeOK
  <2> QED BY <1>2, <2>2 DEF EndAll, TypeOK, processVars, workerVars
<1>3. CASE Sweep
  BY <1>2, <1>3 DEF Sweep, Expired, Having
<1>4. CASE FailQueued
  BY <1>2, <1>4 DEF FailQueued, Having
<1>5. CASE CloseAdmission
  BY <1>5 DEF CloseAdmission, TypeOK, rowVars, workerVars
<1>6. CASE Crash
  <2>1. pc' \in [Workers -> Labels]
    BY <1>6 DEF Crash, Labels
  <2>2. claim' \in [Workers -> JobRecord]
    BY <1>6 DEF Crash, NoClaim, JobRecord, NoToken
  <2>3. up' \in BOOLEAN
    BY <1>6 DEF Crash
  <2>4. crashes' \in Nat
    BY <1>6 DEF Crash, TypeOK
  <2>5. UNCHANGED <<row, before, overdue, born, admission, tokens, faults, view>>
    BY <1>6 DEF Crash, rowVars
  <2> QED BY <2>1, <2>2, <2>3, <2>4, <2>5 DEF TypeOK
<1>7. CASE Startup
  <2>1. row' \in [Lessons -> Row]
    BY <1>7, RecoveredType DEF Startup, TypeOK
  <2> QED BY <1>7, <2>1 DEF Startup, TypeOK, workerVars
<1> QED BY <1>1, <1>3, <1>4, <1>5, <1>6, <1>7

(* TypeOK needs one fact about the workers to be inductive. *)
LEMMA NextType ==
  ASSUME TypeOK, Next,
         \A w \in Workers : pc[w] # "idle" => claim[w].lesson \in Lessons
  PROVE  TypeOK'
BY TeacherType, WorkType, StoreFailsType, EnvironmentType DEF Next

-----------------------------------------------------------------------------
(* The invariant that keeps the attempts of a lesson apart.                 *)
(*                                                                          *)
(* Ownership of a row is by attempt and token, so the argument needs that   *)
(* no two workers were ever given the same token, that a worker which is    *)
(* not idle has a token, and that a baking row has one: then a cancel or a  *)
(* sweep of a baking row leaves it waiting for its worker, and only that    *)
(* worker's acknowledgement can end the wait.                               *)

ClaimsAreReal ==
  \A w \in Workers :
    pc[w] # "idle" => /\ claim[w].lesson \in Lessons
                      /\ claim[w].token # NoToken
                      /\ claim[w].token <= tokens

ClaimsDiffer ==
  \A v, w \in Workers :
    v # w /\ pc[v] # "idle" /\ pc[w] # "idle" => claim[v].token # claim[w].token

BakingHasToken == \A l \in Lessons : row[l].status = "baking" => row[l].token # NoToken

NobodyWorksWhenDown == ~up => \A w \in Workers : pc[w] = "idle"

Safe ==
  /\ TypeOK
  /\ ClaimsAreReal
  /\ ClaimsDiffer
  /\ BakingHasToken
  /\ NobodyWorksWhenDown
  /\ HoldersOwnTheirRow
  /\ LeaseIsTruthful

(* A step leaves the row of an unfinished attempt to its owner. *)
Undisturbed(l) ==
  /\ Unfinished(row'[l])
  /\ row'[l].attempt = row[l].attempt
  /\ row'[l].token = row[l].token
  /\ row'[l].leased = row[l].leased

LEMMA HoldersAreBusy ==
  /\ "idle" \notin Holding
  /\ "final" \notin Holding
  /\ PastTheLease \in SUBSET Holding
BY DEF Holding, TryLabels, HandlerLabels, PastTheLease

LEMMA InitSafe == Init => Safe
<1> SUFFICES ASSUME Init PROVE Safe
  OBVIOUS
<1>1. \A w \in Workers : pc[w] = "idle"
  BY DEF Init
<1>2. \A l \in Lessons : row[l].status # "baking"
  BY NewRowType DEF Init
<1> QED BY <1>1, <1>2, InitType, HoldersAreBusy
        DEF Safe, ClaimsAreReal, ClaimsDiffer, BakingHasToken, NobodyWorksWhenDown,
            HoldersOwnTheirRow, LeaseIsTruthful

(* Steps of others are safe when they leave unfinished rows to their owners. *)
LEMMA OthersAreSafe ==
  ASSUME Safe, TypeOK', UNCHANGED <<pc, claim, tokens>>,
         ~up' => ~up,
         \A l \in Lessons : Unfinished(row[l]) => Undisturbed(l),
         \A l \in Lessons : row'[l].status = "baking" => row[l].status = "baking"
  PROVE  Safe'
<1>1. ClaimsAreReal' /\ ClaimsDiffer' /\ NobodyWorksWhenDown'
  BY DEF Safe, ClaimsAreReal, ClaimsDiffer, NobodyWorksWhenDown
<1>2. BakingHasToken'
  BY DEF Safe, BakingHasToken, Unfinished, Undisturbed
<1>3. ASSUME NEW w \in Workers, pc[w] \in Holding
      PROVE  /\ claim[w].lesson \in Lessons
             /\ Owns(w)'
             /\ row'[claim[w].lesson].leased = row[claim[w].lesson].leased
  BY <1>3 DEF Safe, HoldersOwnTheirRow, Owns, Matches, Undisturbed
<1>4. HoldersOwnTheirRow'
  BY <1>3 DEF HoldersOwnTheirRow
<1>5. LeaseIsTruthful'
  BY <1>3, HoldersAreBusy DEF Safe, LeaseIsTruthful
<1> QED BY <1>1, <1>2, <1>4, <1>5 DEF Safe

LEMMA TeacherSafe == Safe /\ Teacher => Safe'
<1> SUFFICES ASSUME Safe, Teacher PROVE Safe'
  OBVIOUS
<1> USE DEF Safe
<1>1. TypeOK'
  BY TeacherType
<1>2. ASSUME NEW l \in Lessons, Create(l)
      PROVE  Safe'
  <2>1. row' = [row EXCEPT ![l] = NewRow] /\ row[l].status = "absent"
    BY <1>2 DEF Create, Exists
  <2>2. \A k \in Lessons : Unfinished(row[k]) => k # l /\ row'[k] = row[k]
    BY <2>1 DEF Unfinished, Closed, TypeOK
  <2>3. \A k \in Lessons : row'[k].status = "baking" => row[k].status = "baking"
    BY <2>1, NewRowType DEF TypeOK
  <2> QED BY <1>1, <1>2, <2>2, <2>3, OthersAreSafe
          DEF Create, processVars, workerVars, Undisturbed
<1>3. ASSUME NEW l \in Lessons, Delete(l)
      PROVE  Safe'
  <2>1. row' = [row EXCEPT ![l] = NoRow] /\ ~Unfinished(row[l])
    BY <1>3 DEF Delete, MayDelete, Unfinished, Terminal, Closed
  <2>2. \A k \in Lessons : Unfinished(row[k]) => k # l /\ row'[k] = row[k]
    BY <2>1 DEF TypeOK
  <2>3. \A k \in Lessons : row'[k].status = "baking" => row[k].status = "baking"
    BY <2>1, NewRowType DEF TypeOK
  <2> QED BY <1>1, <1>3, <2>2, <2>3, OthersAreSafe
          DEF Delete, processVars, workerVars, Undisturbed
<1>4. ASSUME NEW c \in Clients, NEW l \in Lessons, Refresh(c, l)
      PROVE  Safe'
  BY <1>1, <1>4, OthersAreSafe
     DEF Refresh, rowVars, processVars, workerVars, Undisturbed
<1>5. ASSUME NEW c \in Clients, NEW l \in Lessons, Cancel(c, l)
      PROVE  Safe'
  <2> DEFINE q == row[l].status = "draft" \/ row[l].token = NoToken
  <2>1. q \in BOOLEAN /\ "cancelled" \in Terminal /\ {l} \in SUBSET Lessons
    BY DEF Terminal, Closed
  <2>2. EndAll({l}, "cancelled", q)
    BY <1>5 DEF Cancel
  <2>3. Unfinished(row[l]) => ~q
    BY <1>5 DEF Cancel, Unfinished, Closed, BakingHasToken
  <2> HIDE DEF q
  <2>4. /\ \A k \in Lessons \ {l} : row'[k] = row[k]
        /\ row'[l] = Ended(row[l], "cancelled", q)
    BY <2>2 DEF EndAll
  <2>5. /\ row'[l].status = "cancelled" /\ row'[l].quiesced = q
        /\ row'[l].attempt = row[l].attempt /\ row'[l].token = row[l].token
        /\ row'[l].leased = row[l].leased
    BY <2>1, <2>4, EndedType DEF TypeOK
  <2>6. Unfinished(row[l]) => Undisturbed(l)
    BY <2>3, <2>5 DEF Undisturbed, Unfinished, Closed
  <2>7. \A k \in Lessons : Unfinished(row[k]) => Undisturbed(k)
    BY <2>4, <2>6 DEF Undisturbed
  <2> QED BY <1>1, <1>5, <2>4, <2>5, <2>7, OthersAreSafe
          DEF Cancel, processVars, workerVars
<1>6. ASSUME NEW c \in Clients, NEW l \in Lessons, Retry(c, l)
      PROVE  Safe'
  <2>1. /\ row' = [row EXCEPT ![l] = Requeued(row[l], view[c].revision)]
        /\ ~Unfinished(row[l])
        /\ row[l] \in Row /\ row[l].status \in Closed /\ view[c].revision \in Nat
    BY <1>6 DEF Retry, MayRetry, Unfinished, Closed, TypeOK, StatusPayload
  <2>2. \A k \in Lessons : Unfinished(row[k]) => k # l /\ row'[k] = row[k]
    BY <2>1 DEF TypeOK
  <2>3. \A k \in Lessons : row'[k].status = "baking" => row[k].status = "baking"
    BY <2>1, RequeuedType DEF TypeOK
  <2> QED BY <1>1, <1>6, <2>2, <2>3, OthersAreSafe
          DEF Retry, processVars, workerVars, Undisturbed
<1> QED BY <1>2, <1>3, <1>4, <1>5, <1>6 DEF Teacher

(* A worker that writes only a row it matches disturbs no other worker: the *)
(* tokens differ, so no other worker matches that row.                      *)
LEMMA OwnRowIsSafe ==
  ASSUME Safe, TypeOK', UNCHANGED <<up, tokens>>,
         NEW w \in Workers, pc[w] # "idle",
         \A v \in Workers \ {w} : pc'[v] = pc[v] /\ claim'[v] = claim[v],
         \A l \in Lessons : \/ row'[l] = row[l]
                            \/ l = claim[w].lesson /\ Matches(row[l], claim[w]),
         \A l \in Lessons : row'[l].status = "baking" => /\ row[l].status = "baking"
                                                         /\ row'[l].token = row[l].token,
         pc'[w] # "idle" => /\ claim'[w].lesson = claim[w].lesson
                            /\ claim'[w].attempt = claim[w].attempt
                            /\ claim'[w].token = claim[w].token,
         pc'[w] \in Holding => Owns(w)',
         pc'[w] \in PastTheLease => row'[claim[w].lesson].leased
  PROVE  Safe'
<1> USE DEF Safe
<1>1. ClaimsAreReal'
  BY DEF ClaimsAreReal
<1>2. ClaimsDiffer'
  BY DEF ClaimsDiffer
<1>3. BakingHasToken'
  BY DEF BakingHasToken
<1>4. NobodyWorksWhenDown'
  BY DEF NobodyWorksWhenDown
<1>5. ASSUME NEW v \in Workers \ {w}, pc[v] \in Holding
      PROVE  claim[v].lesson \in Lessons /\ row'[claim[v].lesson] = row[claim[v].lesson]
  <2>1. claim[v].lesson \in Lessons /\ Matches(row[claim[v].lesson], claim[v])
    BY <1>5 DEF HoldersOwnTheirRow, Owns
  <2>2. claim[v].token # claim[w].token
    BY <1>5, HoldersAreBusy DEF ClaimsDiffer
  <2> QED BY <2>1, <2>2 DEF Matches
<1>6. HoldersOwnTheirRow'
  <2> SUFFICES ASSUME NEW v \in Workers, pc'[v] \in Holding PROVE Owns(v)'
    BY DEF HoldersOwnTheirRow
  <2>1. CASE v = w
    BY <2>1
  <2>2. CASE v # w
    BY <1>5, <2>2 DEF HoldersOwnTheirRow, Owns
  <2> QED BY <2>1, <2>2
<1>7. LeaseIsTruthful'
  <2> SUFFICES ASSUME NEW v \in Workers, pc'[v] \in PastTheLease
               PROVE  row'[claim'[v].lesson].leased
    BY DEF LeaseIsTruthful
  <2>1. CASE v = w
    BY <2>1, HoldersAreBusy
  <2>2. CASE v # w
    BY <1>5, <2>2, HoldersAreBusy DEF LeaseIsTruthful
  <2> QED BY <2>1, <2>2
<1> QED BY <1>1, <1>2, <1>3, <1>4, <1>6, <1>7

(* A claim takes a draft, which no worker owns, with a fresh token. *)
LEMMA ClaimIsSafe ==
  ASSUME Safe, TypeOK', NEW w \in Workers, NEW l \in Lessons, Claim(w, l)
  PROVE  Safe'
<1> USE DEF Safe
<1>1. /\ row' = [row EXCEPT ![l] = Claimed(row[l], tokens + 1)]
      /\ up /\ up' = up /\ tokens' = tokens + 1
      /\ pc[w] = "idle" /\ pc' = [pc EXCEPT ![w] = "check"]
      /\ claim' = [claim EXCEPT ![w] = [lesson |-> l, attempt |-> row[l].attempt,
                                        token |-> tokens + 1, calls |-> 0]]
      /\ row[l].status = "draft" /\ ~Unfinished(row[l])
      /\ tokens \in Nat
  BY DEF Claim, Goto, processVars, Unfinished, Closed, TypeOK
<1>2. /\ row'[l].status = "baking" /\ row'[l].token = tokens + 1
      /\ row'[l].attempt = row[l].attempt
      /\ \A k \in Lessons \ {l} : row'[k] = row[k]
  <2>1. row[l] \in Row /\ tokens + 1 \in Nat
    BY <1>1 DEF TypeOK
  <2>2. /\ Claimed(row[l], tokens + 1).status = "baking"
        /\ Claimed(row[l], tokens + 1).token = tokens + 1
        /\ Claimed(row[l], tokens + 1).attempt = row[l].attempt
    BY <2>1, ClaimedType
  <2> QED BY <1>1, <2>2 DEF TypeOK
<1>3. /\ pc'[w] = "check" /\ claim'[w].lesson = l
      /\ claim'[w].token = tokens + 1 /\ claim'[w].attempt = row[l].attempt
      /\ \A v \in Workers \ {w} : pc'[v] = pc[v] /\ claim'[v] = claim[v]
  BY <1>1 DEF TypeOK
<1>4. ASSUME NEW v \in Workers, pc[v] # "idle"
      PROVE  claim[v].token \in Nat /\ claim[v].token <= tokens
  BY <1>4 DEF ClaimsAreReal, TypeOK, JobRecord
<1>5. ClaimsAreReal'
  BY <1>1, <1>3, <1>4 DEF ClaimsAreReal, NoToken
<1>6. ClaimsDiffer'
  BY <1>1, <1>3, <1>4 DEF ClaimsDiffer
<1>7. BakingHasToken'
  BY <1>1, <1>2 DEF BakingHasToken, NoToken
<1>8. NobodyWorksWhenDown'
  BY <1>1 DEF NobodyWorksWhenDown
<1>9. ASSUME NEW v \in Workers \ {w}, pc[v] \in Holding
      PROVE  /\ claim[v].lesson \in Lessons /\ claim[v].lesson # l
             /\ row'[claim[v].lesson] = row[claim[v].lesson]
  BY <1>1, <1>2, <1>9 DEF HoldersOwnTheirRow, Owns
<1>10. HoldersOwnTheirRow'
  <2>1. Owns(w)'
    BY <1>2, <1>3 DEF Owns, Matches, Unfinished
  <2> QED BY <1>3, <1>9, <2>1 DEF HoldersOwnTheirRow, Owns
<1>11. LeaseIsTruthful'
  <2>1. pc'[w] \notin PastTheLease
    BY <1>3 DEF PastTheLease
  <2> QED BY <1>3, <1>9, <2>1, HoldersAreBusy DEF LeaseIsTruthful
<1> QED BY <1>5, <1>6, <1>7, <1>8, <1>10, <1>11

LEMMA WorkSafe ==
  ASSUME Safe, NEW w \in Workers, Work(w)
  PROVE  Safe'
<1> USE DEF Safe
<1> DEFINE l == claim[w].lesson
<1>1. TypeOK'
  BY WorkType DEF ClaimsAreReal
<1>2. ASSUME pc[w] # "idle"
      PROVE  l \in Lessons /\ row[l] \in Row
  BY <1>2 DEF ClaimsAreReal, TypeOK
<1>3. ASSUME pc[w] \in Holding
      PROVE  Matches(row[l], claim[w]) /\ Unfinished(row[l])
  BY <1>3 DEF HoldersOwnTheirRow, Owns
<1>4. ASSUME ReadOnly, NEW label \in Holding, Goto(w, label), pc[w] \in Holding,
             label \in PastTheLease => pc[w] \in PastTheLease
      PROVE  Safe'
  <2>1. /\ UNCHANGED <<row, up, tokens, claim>>
        /\ pc'[w] = label
        /\ \A v \in Workers \ {w} : pc'[v] = pc[v]
    BY <1>4 DEF ReadOnly, rowVars, processVars, Goto, TypeOK
  <2>2. Owns(w)'
    BY <1>4, <2>1 DEF HoldersOwnTheirRow, Owns
  <2>3. pc'[w] \in PastTheLease => row'[l].leased
    BY <1>4, <2>1 DEF LeaseIsTruthful
  <2> QED BY <1>1, <1>4, <2>1, <2>2, <2>3, OwnRowIsSafe, HoldersAreBusy
<1>5. CASE CheckBeforeWork(w)
  <2>1. \E label \in {"lease", "back"} : Goto(w, label)
    BY <1>5 DEF CheckBeforeWork
  <2> QED BY <1>4, <1>5, <2>1
          DEF CheckBeforeWork, Holding, TryLabels, PastTheLease
<1>6. CASE ProviderReturns(w)
  <2>1. \E label \in {"confirm", "lease", "handler"} : Goto(w, label)
    BY <1>6 DEF ProviderReturns
  <2> QED BY <1>4, <1>6, <2>1
          DEF ProviderReturns, Holding, TryLabels, HandlerLabels, PastTheLease
<1>7. CASE ConfirmAnswer(w)
  <2>1. \E label \in {"step", "back"} : Goto(w, label)
    BY <1>7 DEF ConfirmAnswer
  <2> QED BY <1>4, <1>7, <2>1
          DEF ConfirmAnswer, Holding, TryLabels, PastTheLease
<1>8. CASE Validate(w)
  <2>1. \E label \in {"handler", "publish", "back"} : Goto(w, label)
    BY <1>8 DEF Validate
  <2> QED BY <1>4, <1>8, <2>1
          DEF Validate, Holding, TryLabels, HandlerLabels, PastTheLease
<1>9. CASE Handle(w)
  <2>1. \E label \in {"failing", "quit"} : Goto(w, label)
    BY <1>9 DEF Handle
  <2> QED BY <1>4, <1>9, <2>1 DEF Handle, Holding, HandlerLabels, PastTheLease
<1>10. CASE BeginProviderCall(w)
  <2>1. CASE Current(w)
    <3>1. /\ row' = [row EXCEPT ![l].leased = TRUE]
          /\ claim' = [claim EXCEPT ![w].calls = @ + 1]
          /\ pc' = [pc EXCEPT ![w] = "provider"]
          /\ UNCHANGED <<up, tokens>>
          /\ pc[w] = "lease" /\ l \in Lessons
      BY <1>2, <1>10, <2>1 DEF BeginProviderCall, Goto, processVars
    <3>2. Matches(row[l], claim[w]) /\ row[l].status = "baking"
      BY <2>1 DEF Current
    <3>3. /\ claim'[w].lesson = l /\ claim'[w].attempt = claim[w].attempt
          /\ claim'[w].token = claim[w].token
          /\ pc'[w] = "provider"
          /\ \A v \in Workers \ {w} : pc'[v] = pc[v] /\ claim'[v] = claim[v]
      BY <3>1 DEF TypeOK, JobRecord
    <3>4. /\ row'[l].status = "baking" /\ row'[l].attempt = row[l].attempt
          /\ row'[l].token = row[l].token /\ row'[l].leased = TRUE
          /\ \A k \in Lessons \ {l} : row'[k] = row[k]
      BY <3>1, <3>2 DEF TypeOK, Row
    <3>5. Owns(w)'
      BY <3>1, <3>2, <3>3, <3>4 DEF Owns, Matches, Unfinished
    <3> QED BY <1>1, <3>1, <3>2, <3>3, <3>4, <3>5, OwnRowIsSafe
  <2>2. CASE ~Current(w)
    <3>1. ReadOnly /\ Goto(w, "back") /\ pc[w] \in Holding
      BY <1>10, <2>2 DEF BeginProviderCall, ReadOnly, rowVars, Holding, TryLabels
    <3> QED BY <1>4, <3>1 DEF Holding, TryLabels, PastTheLease
  <2> QED BY <2>1, <2>2
<1>11. CASE SetStep(w)
  <2>1. CASE Current(w)
    <3>1. /\ row' = [row EXCEPT ![l].revision = @ + 1]
          /\ pc' = [pc EXCEPT ![w] = "validate"]
          /\ UNCHANGED <<up, tokens, claim>>
          /\ pc[w] = "step" /\ l \in Lessons
      BY <1>2, <1>11, <2>1 DEF SetStep, Goto, processVars
    <3>2. Matches(row[l], claim[w]) /\ row[l].status = "baking" /\ row[l].leased
      BY <2>1, <3>1 DEF Current, LeaseIsTruthful, PastTheLease
    <3>3. /\ pc'[w] = "validate"
          /\ \A v \in Workers \ {w} : pc'[v] = pc[v]
      BY <3>1 DEF TypeOK
    <3>4. /\ row'[l].status = "baking" /\ row'[l].attempt = row[l].attempt
          /\ row'[l].token = row[l].token /\ row'[l].leased
          /\ \A k \in Lessons \ {l} : row'[k] = row[k]
      BY <3>1, <3>2 DEF TypeOK, Row
    <3>5. Owns(w)'
      BY <3>1, <3>2, <3>4 DEF Owns, Matches, Unfinished
    <3> QED BY <1>1, <3>1, <3>2, <3>3, <3>4, <3>5, OwnRowIsSafe
  <2>2. CASE ~Current(w)
    <3>1. ReadOnly /\ Goto(w, "back") /\ pc[w] \in Holding
      BY <1>11, <2>2 DEF SetStep, ReadOnly, rowVars, Holding, TryLabels
    <3> QED BY <1>4, <3>1 DEF Holding, TryLabels, PastTheLease
  <2> QED BY <2>1, <2>2
<1>12. ASSUME NEW status \in {"ready", "failed"}, pc[w] # "idle", EndOwn(w, status)
       PROVE  Safe'
  <2>1. /\ pc'[w] = "final" /\ UNCHANGED <<up, tokens, claim>>
        /\ \A v \in Workers \ {w} : pc'[v] = pc[v]
    BY <1>12 DEF EndOwn, Goto, processVars, TypeOK
  <2>2. /\ \A k \in Lessons : \/ row'[k] = row[k]
                              \/ k = l /\ Matches(row[k], claim[w])
        /\ \A k \in Lessons : row'[k].status = "baking" => row'[k] = row[k]
    <3>1. CASE Current(w)
      <4>1. /\ \A k \in Lessons \ {l} : row'[k] = row[k]
            /\ row'[l] = Ended(row[l], status, TRUE)
        BY <1>2, <1>12, <3>1 DEF EndOwn, EndAll
      <4>2. row'[l].status = status
        BY <1>2, <1>12, <4>1 DEF Ended, Row
      <4> QED BY <1>12, <3>1, <4>1, <4>2 DEF Current
    <3>2. CASE ~Current(w)
      BY <1>12, <3>2 DEF EndOwn, rowVars
    <3> QED BY <3>1, <3>2
  <2> QED BY <1>1, <1>12, <2>1, <2>2, OwnRowIsSafe, HoldersAreBusy
<1>13. ASSUME pc[w] # "idle", Acknowledge(w)
       PROVE  /\ \A k \in Lessons : \/ row'[k] = row[k]
                                    \/ k = l /\ Matches(row[k], claim[w])
              /\ \A k \in Lessons : row'[k].status = "baking" => row'[k] = row[k]
  <2>1. CASE row[l].status \in Closed /\ Matches(row[l], claim[w])
    <3>1. row' = [row EXCEPT ![l].quiesced = TRUE]
      BY <1>13, <2>1 DEF Acknowledge
    <3> QED BY <1>2, <1>13, <2>1, <3>1 DEF TypeOK, Row, Closed
  <2>2. CASE ~(row[l].status \in Closed /\ Matches(row[l], claim[w]))
    BY <1>13, <2>2 DEF Acknowledge
  <2> QED BY <2>1, <2>2
<1>14. CASE GiveUp(w)
  <2>1. /\ pc'[w] = "final" /\ UNCHANGED <<up, tokens, claim>>
        /\ \A v \in Workers \ {w} : pc'[v] = pc[v]
        /\ pc[w] # "idle" /\ Acknowledge(w)
    BY <1>14 DEF GiveUp, Goto, processVars, TypeOK
  <2> QED BY <1>1, <1>13, <2>1, OwnRowIsSafe, HoldersAreBusy
<1>15. CASE Finish(w)
  <2>1. /\ pc'[w] = "idle" /\ UNCHANGED <<up, tokens>>
        /\ \A v \in Workers \ {w} : pc'[v] = pc[v] /\ claim'[v] = claim[v]
        /\ pc[w] # "idle" /\ Acknowledge(w)
    BY <1>15 DEF Finish, Goto, processVars, TypeOK
  <2> QED BY <1>1, <1>13, <2>1, OwnRowIsSafe, HoldersAreBusy
<1>16. CASE Complete(w)
  BY <1>12, <1>16 DEF Complete
<1>17. CASE Fail(w)
  BY <1>12, <1>17 DEF Fail
<1>18. CASE \E k \in Lessons : Claim(w, k)
  BY <1>1, <1>18, ClaimIsSafe
<1> QED BY <1>5, <1>6, <1>7, <1>8, <1>9, <1>10, <1>11, <1>14, <1>15, <1>16, <1>17,
           <1>18 DEF Work

LEMMA StoreFailsSafe ==
  ASSUME Safe, NEW w \in Workers, StoreFails(w)
  PROVE  Safe'
<1> USE DEF Safe
<1>1. TypeOK'
  BY StoreFailsType
<1>2. /\ UNCHANGED <<row, up, tokens>> /\ pc[w] # "idle"
      /\ pc'[w] = Landing(pc[w])
      /\ \A v \in Workers \ {w} : pc'[v] = pc[v] /\ claim'[v] = claim[v]
  BY DEF StoreFails, Goto, TypeOK, rowVars, processVars, Holding, TryLabels, HandlerLabels
<1>3. pc'[w] \notin PastTheLease
  BY <1>2 DEF Landing, PastTheLease
<1>4. CASE pc[w] = "final"
  BY <1>1, <1>2, <1>3, <1>4, OwnRowIsSafe
     DEF Landing, Holding, TryLabels, HandlerLabels
<1>5. CASE pc[w] \in Holding
  <2>1. claim'[w] = claim[w]
    BY <1>5, HoldersAreBusy DEF StoreFails, TypeOK
  <2>2. Owns(w)'
    BY <1>2, <1>5, <2>1 DEF HoldersOwnTheirRow, Owns
  <2> QED BY <1>1, <1>2, <1>3, <2>1, <2>2, OwnRowIsSafe
<1> QED BY <1>4, <1>5 DEF StoreFails

LEMMA EnvironmentSafe ==
  ASSUME Safe,
         \/ \E l \in Lessons : BecomeOverdue(l)
         \/ Sweep \/ CloseAdmission \/ FailQueued \/ Crash \/ Startup
  PROVE  Safe'
<1> USE DEF Safe
<1>1. TypeOK'
  BY EnvironmentType
<1>2. CASE \E l \in Lessons : BecomeOverdue(l)
  BY <1>1, <1>2, OthersAreSafe DEF BecomeOverdue, processVars, workerVars, Undisturbed
<1>3. CASE CloseAdmission
  BY <1>1, <1>3, OthersAreSafe DEF CloseAdmission, rowVars, workerVars, Undisturbed
<1>4. CASE Sweep
  <2>1. /\ \A l \in Lessons \ Expired : row'[l] = row[l]
        /\ \A l \in Expired : row'[l] = Ended(row[l], "failed", FALSE)
        /\ UNCHANGED <<pc, claim, tokens, up>>
    BY <1>4 DEF Sweep, EndAll, processVars, workerVars, Expired, Having
  <2>2. ASSUME NEW l \in Expired
        PROVE  Undisturbed(l) /\ row'[l].status = "failed"
    <3>1. l \in Lessons /\ row[l] \in Row
      BY DEF Expired, Having, TypeOK
    <3>2. /\ row'[l].status = "failed" /\ row'[l].quiesced = FALSE
          /\ row'[l].attempt = row[l].attempt /\ row'[l].token = row[l].token
          /\ row'[l].leased = row[l].leased
      BY <2>1, <3>1 DEF Ended, Row
    <3> QED BY <3>2 DEF Undisturbed, Unfinished, Closed
  <2>3. \A l \in Lessons : Unfinished(row[l]) => Undisturbed(l)
    BY <2>1, <2>2 DEF Undisturbed
  <2>4. \A l \in Lessons : row'[l].status = "baking" => row[l].status = "baking"
    BY <2>1, <2>2
  <2> QED BY <1>1, <2>1, <2>3, <2>4, OthersAreSafe
<1>5. CASE FailQueued
  <2>1. /\ \A l \in Lessons \ Having("draft") : row'[l] = row[l]
        /\ \A l \in Having("draft") : row'[l] = Ended(row[l], "failed", TRUE)
        /\ UNCHANGED <<pc, claim, tokens, up>>
    BY <1>5 DEF FailQueued, EndAll, processVars, workerVars, Having
  <2>2. ASSUME NEW l \in Having("draft")
        PROVE  ~Unfinished(row[l]) /\ row'[l].status = "failed"
    <3>1. /\ l \in Lessons /\ row[l] \in Row /\ row[l].status = "draft"
          /\ row'[l] = Ended(row[l], "failed", TRUE)
      BY <2>1, <2>2 DEF Having, TypeOK
    <3>2. row'[l].status = "failed"
      BY <3>1 DEF Ended, Row
    <3> QED BY <3>1, <3>2 DEF Unfinished, Closed
  <2>3. \A l \in Lessons : Unfinished(row[l]) => Undisturbed(l)
    BY <2>1, <2>2 DEF Undisturbed
  <2>4. \A l \in Lessons : row'[l].status = "baking" => row[l].status = "baking"
    BY <2>1, <2>2
  <2> QED BY <1>1, <2>1, <2>3, <2>4, OthersAreSafe
<1>6. CASE Crash
  <2>1. (\A w \in Workers : pc'[w] = "idle") /\ UNCHANGED <<row, tokens>>
    BY <1>6 DEF Crash, rowVars
  <2>3. ClaimsAreReal' /\ ClaimsDiffer' /\ NobodyWorksWhenDown'
    BY <2>1 DEF ClaimsAreReal, ClaimsDiffer, NobodyWorksWhenDown
  <2>4. HoldersOwnTheirRow' /\ LeaseIsTruthful'
    BY <2>1, HoldersAreBusy DEF HoldersOwnTheirRow, LeaseIsTruthful
  <2>5. BakingHasToken'
    BY <2>1 DEF BakingHasToken
  <2> QED BY <1>1, <2>3, <2>4, <2>5
<1>7. CASE Startup
  <2>1. \A w \in Workers : pc[w] = "idle" /\ pc'[w] = "idle"
    BY <1>7 DEF Startup, workerVars, NobodyWorksWhenDown
  <2>2. \A l \in Lessons : row'[l].status # "baking"
    <3> SUFFICES ASSUME NEW l \in Lessons PROVE row'[l].status # "baking"
      OBVIOUS
    <3>1. row[l] \in Row /\ row'[l] = Recovered(row[l])
      BY <1>7 DEF Startup, TypeOK
    <3> QED BY <3>1, RecoveredType
  <2> QED BY <1>1, <2>1, <2>2, HoldersAreBusy
          DEF ClaimsAreReal, ClaimsDiffer, BakingHasToken, NobodyWorksWhenDown,
              HoldersOwnTheirRow, LeaseIsTruthful
<1> QED BY <1>2, <1>3, <1>4, <1>5, <1>6, <1>7

LEMMA StepSafe == Safe /\ [Next]_vars => Safe'
<1> SUFFICES ASSUME Safe, [Next]_vars PROVE Safe'
  OBVIOUS
<1>1. CASE Next
  BY <1>1, TeacherSafe, WorkSafe, StoreFailsSafe, EnvironmentSafe DEF Next
<1>2. CASE UNCHANGED vars
  BY <1>2 DEF vars, rowVars, processVars, workerVars, Safe, TypeOK, ClaimsAreReal,
              ClaimsDiffer, BakingHasToken, NobodyWorksWhenDown, HoldersOwnTheirRow,
              Owns, Matches, LeaseIsTruthful
<1> QED BY <1>1, <1>2

LEMMA SafeInvariant == Spec => []Safe
BY InitSafe, StepSafe, PTL DEF Spec
-----------------------------------------------------------------------------
(* The theorems. *)

(* The variables of the job store and the pool keep their types. *)
THEOREM TypeCorrect == Spec => []TypeOK
<1>1. Safe => TypeOK
  BY DEF Safe
<1> QED BY <1>1, SafeInvariant, PTL

(* A worker that holds a claim owns the row it will write. *)
THEOREM OwnershipHolds == Spec => []HoldersOwnTheirRow
<1>1. Safe => HoldersOwnTheirRow
  BY DEF Safe
<1> QED BY <1>1, SafeInvariant, PTL

(* No worker is past a provider call the row does not know of. *)
THEOREM LeaseHolds == Spec => []LeaseIsTruthful
<1>1. Safe => LeaseIsTruthful
  BY DEF Safe
<1> QED BY <1>1, SafeInvariant, PTL

(* Two holders of one lesson would both match its row, so their tokens would *)
(* be equal: attempts of one lesson never overlap.                           *)
THEOREM NoOverlap == Spec => []AttemptsDoNotOverlap
<1>1. Safe => AttemptsDoNotOverlap
  <2> SUFFICES ASSUME Safe, NEW v \in Workers, NEW w \in Workers, v # w,
                      pc[v] \in Holding, pc[w] \in Holding,
                      claim[v].lesson = claim[w].lesson
               PROVE  FALSE
    BY DEF AttemptsDoNotOverlap
  <2>1. claim[v].token # claim[w].token
    BY HoldersAreBusy DEF Safe, ClaimsDiffer
  <2>2. /\ Matches(row[claim[v].lesson], claim[v])
        /\ Matches(row[claim[w].lesson], claim[w])
    BY DEF Safe, HoldersOwnTheirRow, Owns
  <2> QED BY <2>1, <2>2 DEF Matches
<1> QED BY <1>1, SafeInvariant, PTL
-----------------------------------------------------------------------------
(* Who a blocked lesson waits for.                                         *)
(*                                                                         *)
(* An unfinished attempt is attended: a worker holds the claim the row     *)
(* carries. While the row is baking that worker has not given up yet, for  *)
(* it gives up only when it has seen that its attempt is over; once the    *)
(* row is closed the worker may be as far as the finally clause. Only a    *)
(* refused access of the store takes the worker away before it has         *)
(* acknowledged, so a row is never left without one while faults = 0.      *)

Attends(w, l) ==
  /\ claim[w].lesson = l
  /\ Matches(row[l], claim[w])
  /\ pc[w] \in Holding \cup {"final"}
  /\ row[l].status = "baking" => pc[w] \notin {"back", "quit", "final"}

Attended ==
  up /\ faults = 0 =>
    \A l \in Lessons : Unfinished(row[l]) => \E w \in Workers : Attends(w, l)

(* The step makes no row unfinished, and hands over none that is. *)
StillOwned(l) ==
  Unfinished(row'[l]) =>
    /\ Unfinished(row[l])
    /\ row'[l].attempt = row[l].attempt /\ row'[l].token = row[l].token
    /\ row'[l].status = "baking" => row[l].status = "baking"

LEMMA InitAttended == Init => Attended
BY DEF Init, Attended, Unfinished, NoRow, Closed

(* Steps in which no worker moves. *)
LEMMA OthersAttend ==
  ASSUME Attended, UNCHANGED <<pc, claim, up, faults>>,
         \A l \in Lessons : StillOwned(l)
  PROVE  Attended'
<1> SUFFICES ASSUME up, faults = 0, NEW l \in Lessons, Unfinished(row'[l])
             PROVE  \E w \in Workers : Attends(w, l)'
  BY DEF Attended, Unfinished
<1>1. PICK w \in Workers : Attends(w, l)
  BY DEF Attended, StillOwned
<1>2. Attends(w, l)'
  BY <1>1 DEF Attends, StillOwned, Matches
<1> QED BY <1>2

(* An attempt that ends keeps its claim. *)
LEMMA EndedOwner ==
  ASSUME NEW r \in Row, NEW status \in Terminal, NEW q \in BOOLEAN,
         NEW e, e = Ended(r, status, q)
  PROVE  e.status = status /\ e.quiesced = q /\ e.attempt = r.attempt /\ e.token = r.token
<1>1. PICK h \in Seq(Disposition) : h = Archive(r, status, NoRevision)
  BY ArchiveType DEF NoRevision
<1>2. e = [status |-> status, revision |-> r.revision + 1,
           attempt |-> r.attempt, token |-> r.token, leased |-> r.leased,
           quiesced |-> q, history |-> h, retryRevision |-> r.retryRevision]
  BY <1>1, EndedFields
<1> QED BY <1>2

(* The end of a set of rows leaves a row waiting for its worker, or for      *)
(* nobody.                                                                   *)
LEMMA EndAllKeepsOwners ==
  ASSUME TypeOK, NEW S \in SUBSET Lessons, NEW status \in Terminal, NEW q \in BOOLEAN,
         EndAll(S, status, q), \A l \in S : q \/ row[l].status = "baking"
  PROVE  \A l \in Lessons : StillOwned(l)
<1> SUFFICES ASSUME NEW l \in Lessons PROVE StillOwned(l)
  OBVIOUS
<1>1. CASE l \notin S
  BY <1>1 DEF EndAll, StillOwned
<1>2. CASE l \in S
  <2>1. row[l] \in Row /\ row'[l] = Ended(row[l], status, q)
    BY <1>2 DEF EndAll, TypeOK
  <2>2. /\ row'[l].status = status /\ row'[l].quiesced = q
        /\ row'[l].attempt = row[l].attempt /\ row'[l].token = row[l].token
    BY <2>1, EndedOwner
  <2>3. status # "baking" /\ (q \/ row[l].status = "baking")
    BY <1>2 DEF Terminal, Closed
  <2> QED BY <2>2, <2>3 DEF StillOwned, Unfinished
<1> QED BY <1>1, <1>2

LEMMA TeacherAttended == Safe /\ Attended /\ Teacher => Attended'
<1> SUFFICES ASSUME Safe, Attended, Teacher PROVE Attended'
  OBVIOUS
<1> USE DEF processVars, workerVars
<1>1. TypeOK /\ BakingHasToken
  BY DEF Safe
<1>2. UNCHANGED <<pc, claim, up, faults>>
  BY DEF Teacher, Create, Delete, Refresh, Cancel, Retry
<1>3. ASSUME NEW l \in Lessons, Create(l) \/ Delete(l)
      PROVE  \A k \in Lessons : StillOwned(k)
  <2>1. row'[l].status \in {"draft", "absent"}
    BY <1>1, <1>3, NewRowType DEF Create, Delete, TypeOK
  <2>2. \A k \in Lessons \ {l} : row'[k] = row[k]
    BY <1>1, <1>3 DEF Create, Delete, TypeOK
  <2> QED BY <2>1, <2>2 DEF StillOwned, Unfinished, Closed
<1>4. ASSUME NEW c \in Clients, NEW l \in Lessons, Refresh(c, l)
      PROVE  \A k \in Lessons : StillOwned(k)
  BY <1>4 DEF Refresh, rowVars, StillOwned
<1>5. ASSUME NEW c \in Clients, NEW l \in Lessons, Cancel(c, l)
      PROVE  \A k \in Lessons : StillOwned(k)
  <2> DEFINE q == row[l].status = "draft" \/ row[l].token = NoToken
  <2>1. q \in BOOLEAN /\ "cancelled" \in Terminal /\ {l} \in SUBSET Lessons
    BY DEF Terminal, Closed
  <2>2. EndAll({l}, "cancelled", q) /\ (q \/ row[l].status = "baking")
    BY <1>5 DEF Cancel
  <2> HIDE DEF q
  <2> QED BY <1>1, <2>1, <2>2, EndAllKeepsOwners
<1>6. ASSUME NEW c \in Clients, NEW l \in Lessons, Retry(c, l)
      PROVE  \A k \in Lessons : StillOwned(k)
  <2>1. row[l] \in Row /\ row[l].status \in Closed /\ view[c].revision \in Nat
    BY <1>1, <1>6 DEF Retry, MayRetry, TypeOK, StatusPayload
  <2>2. row'[l].status = "draft"
    BY <1>1, <1>6, <2>1, RequeuedType DEF Retry, TypeOK
  <2>3. \A k \in Lessons \ {l} : row'[k] = row[k]
    BY <1>1, <1>6 DEF Retry, TypeOK
  <2> QED BY <2>2, <2>3 DEF StillOwned, Unfinished, Closed
<1> QED BY <1>2, <1>3, <1>4, <1>5, <1>6, OthersAttend DEF Teacher

LEMMA EnvironmentAttended ==
  ASSUME Safe, Attended,
         \/ \E w \in Workers : StoreFails(w)
         \/ \E l \in Lessons : BecomeOverdue(l)
         \/ Sweep \/ CloseAdmission \/ FailQueued \/ Crash \/ Startup
  PROVE  Attended'
<1> USE DEF processVars, workerVars
<1>1. TypeOK /\ "failed" \in Terminal /\ TRUE \in BOOLEAN /\ FALSE \in BOOLEAN
  BY DEF Safe, Terminal, Closed
<1>2. ASSUME NEW w \in Workers, StoreFails(w)
      PROVE  Attended'
  <2>1. faults' # 0
    BY <1>1, <1>2 DEF StoreFails, TypeOK
  <2> QED BY <2>1 DEF Attended
<1>3. CASE Crash
  BY <1>3 DEF Crash, Attended
<1>4. CASE Startup
  <2>1. \A l \in Lessons : row'[l] = Recovered(row[l]) /\ row[l] \in Row
    BY <1>1, <1>4 DEF Startup, TypeOK
  <2>2. \A l \in Lessons : ~Unfinished(row'[l])
    BY <2>1, RecoveredType DEF Unfinished
  <2> QED BY <2>2 DEF Attended, Unfinished
<1>5. CASE Sweep
  <2>1. EndAll(Expired, "failed", FALSE)
    BY <1>5 DEF Sweep
  <2>2. Expired \in SUBSET Lessons /\ \A l \in Expired : row[l].status = "baking"
    BY DEF Expired, Having
  <2>3. \A l \in Lessons : StillOwned(l)
    BY <1>1, <2>1, <2>2, EndAllKeepsOwners
  <2> QED BY <1>5, <2>3, OthersAttend DEF Sweep
<1>6. CASE FailQueued
  <2>1. EndAll(Having("draft"), "failed", TRUE) /\ Having("draft") \in SUBSET Lessons
    BY <1>6 DEF FailQueued, Having
  <2>2. \A l \in Lessons : StillOwned(l)
    BY <1>1, <2>1, EndAllKeepsOwners
  <2> QED BY <1>6, <2>2, OthersAttend DEF FailQueued
<1>7. CASE CloseAdmission \/ \E l \in Lessons : BecomeOverdue(l)
  <2>1. UNCHANGED <<row, pc, claim, up, faults>>
    BY <1>7 DEF CloseAdmission, BecomeOverdue, rowVars
  <2>2. \A l \in Lessons : StillOwned(l)
    BY <2>1 DEF StillOwned
  <2> QED BY <2>1, <2>2, OthersAttend
<1> QED BY <1>2, <1>3, <1>4, <1>5, <1>6, <1>7

(* A worker that moves leaves no row but its own, and that one only when it  *)
(* is finished.                                                              *)
LEMMA OneAttends ==
  ASSUME Attended, NEW w \in Workers, UNCHANGED <<up, faults>>,
         \A v \in Workers \ {w} : pc'[v] = pc[v] /\ claim'[v] = claim[v],
         \A l \in Lessons : StillOwned(l),
         \A l \in Lessons : Attends(w, l) /\ Unfinished(row'[l]) => Attends(w, l)'
  PROVE  Attended'
<1> SUFFICES ASSUME up, faults = 0, NEW l \in Lessons, Unfinished(row'[l])
             PROVE  \E v \in Workers : Attends(v, l)'
  BY DEF Attended, Unfinished
<1>1. PICK v \in Workers : Attends(v, l)
  BY DEF Attended, StillOwned
<1>2. CASE v = w
  BY <1>1, <1>2
<1>3. CASE v # w
  <2>1. Attends(v, l)'
    BY <1>1, <1>3 DEF Attends, StillOwned, Matches
  <2> QED BY <2>1
<1> QED BY <1>2, <1>3

LEMMA WorkAttended ==
  ASSUME Safe, Attended, NEW w \in Workers, Work(w)
  PROVE  Attended'
<1> DEFINE l == claim[w].lesson
<1> USE DEF processVars
<1>1. TypeOK /\ (pc[w] # "idle" => l \in Lessons)
  BY DEF Safe, ClaimsAreReal
<1>2. ASSUME NEW m \in Lessons, Claim(w, m)
      PROVE  Attended'
  <2> SUFFICES ASSUME up', faults' = 0, NEW k \in Lessons, Unfinished(row'[k])
               PROVE  \E v \in Workers : Attends(v, k)'
    BY DEF Attended, Unfinished
  <2>1. CASE k = m
    <3>1. row[m] \in Row /\ tokens + 1 \in Nat /\ row'[m] = Claimed(row[m], tokens + 1)
      BY <1>1, <1>2 DEF Claim, TypeOK
    <3>2. row'[m].attempt = row[m].attempt /\ row'[m].token = tokens + 1
      BY <3>1, ClaimedType
    <3>3. claim'[w] = [lesson |-> m, attempt |-> row[m].attempt,
                       token |-> tokens + 1, calls |-> 0]
      BY <1>1, <1>2 DEF Claim, TypeOK
    <3>4. pc'[w] = "check"
      BY <1>1, <1>2 DEF Claim, Goto, TypeOK
    <3>5. Attends(w, m)'
      BY <3>2, <3>3, <3>4 DEF Attends, Matches, Holding, TryLabels
    <3> QED BY <2>1, <3>5
  <2>2. CASE k # m
    <3>1. row'[k] = row[k] /\ up /\ faults = 0
      BY <1>1, <1>2, <2>2 DEF Claim, TypeOK
    <3>2. PICK v \in Workers : Attends(v, k)
      BY <3>1 DEF Attended
    <3>3. v # w
      BY <1>2, <3>2 DEF Claim, Attends, Holding, TryLabels, HandlerLabels
    <3>4. claim'[v] = claim[v] /\ pc'[v] = pc[v]
      BY <1>1, <1>2, <3>3 DEF Claim, Goto, TypeOK
    <3>5. Attends(v, k)'
      BY <3>1, <3>2, <3>4 DEF Attends, Matches
    <3> QED BY <3>5
  <2> QED BY <2>1, <2>2
<1>3. ASSUME NEW label, Goto(w, label), UNCHANGED <<row, up, claim, faults>>,
             label \in Holding \cup {"final"},
             label \in {"back", "quit", "final"} => ~Current(w)
      PROVE  Attended'
  <2>1. \A k \in Lessons : StillOwned(k)
    BY <1>3 DEF StillOwned
  <2>2. \A v \in Workers \ {w} : pc'[v] = pc[v] /\ claim'[v] = claim[v]
    BY <1>1, <1>3 DEF Goto, TypeOK
  <2>3. pc'[w] = label
    BY <1>1, <1>3 DEF Goto, TypeOK
  <2>4. ASSUME NEW k \in Lessons, Attends(w, k)
        PROVE  Attends(w, k)'
    BY <1>3, <2>3, <2>4 DEF Attends, Matches, Current
  <2> QED BY <1>3, <2>1, <2>2, <2>4, OneAttends
<1>4. CASE CheckBeforeWork(w) \/ ConfirmAnswer(w)
  <2>1. PICK label \in Holding : Goto(w, label) /\ (label \in {"back", "quit"} => ~Current(w))
    BY <1>4 DEF CheckBeforeWork, ConfirmAnswer, Holding, TryLabels
  <2>2. label # "final"
    BY DEF Holding, TryLabels, HandlerLabels
  <2> QED BY <1>3, <1>4, <2>1, <2>2 DEF CheckBeforeWork, ConfirmAnswer, ReadOnly, rowVars
<1>5. CASE ProviderReturns(w) \/ Validate(w) \/ Handle(w)
  <2>1. PICK label \in Holding : Goto(w, label) /\ (label \in {"back", "quit"} => ~Current(w))
    BY <1>5 DEF ProviderReturns, Validate, Handle, Holding, TryLabels, HandlerLabels
  <2>2. label # "final"
    BY DEF Holding, TryLabels, HandlerLabels
  <2> QED BY <1>3, <1>5, <2>1, <2>2 DEF ProviderReturns, Validate, Handle, ReadOnly, rowVars
<1>6. ASSUME pc[w] # "idle", UNCHANGED <<up, faults>>, NEW label, Goto(w, label),
             label \in Holding \ {"back", "quit"},
             \/ row' = [row EXCEPT ![l].leased = TRUE]
             \/ row' = [row EXCEPT ![l].revision = @ + 1],
             \/ claim' = claim
             \/ claim' = [claim EXCEPT ![w].calls = @ + 1]
      PROVE  Attended'
  <2>1. \A k \in Lessons : /\ row'[k].status = row[k].status
                           /\ row'[k].attempt = row[k].attempt
                           /\ row'[k].token = row[k].token
                           /\ row'[k].quiesced = row[k].quiesced
    <3>1. row \in [Lessons -> Row] /\ l \in Lessons
      BY <1>1, <1>6 DEF TypeOK
    <3>2. \A k \in Lessons \ {l} : row'[k] = row[k]
      BY <1>6, <3>1
    <3>3. \/ row'[l] = [row[l] EXCEPT !.leased = TRUE]
          \/ row'[l] = [row[l] EXCEPT !.revision = @ + 1]
      BY <1>6, <3>1
    <3>4. row[l] \in Row
      BY <3>1
    <3>5. /\ row'[l].status = row[l].status /\ row'[l].attempt = row[l].attempt
          /\ row'[l].token = row[l].token /\ row'[l].quiesced = row[l].quiesced
      BY <3>3, <3>4 DEF Row
    <3> QED BY <3>2, <3>5
  <2>2. \A k \in Lessons : StillOwned(k)
    BY <2>1 DEF StillOwned, Unfinished
  <2>3. /\ claim'[w].lesson = l /\ claim'[w].attempt = claim[w].attempt
        /\ claim'[w].token = claim[w].token
    BY <1>1, <1>6 DEF TypeOK, JobRecord
  <2>4. pc'[w] = label /\ label # "final"
    BY <1>1, <1>6 DEF Goto, TypeOK, Holding, TryLabels, HandlerLabels
  <2>5. \A v \in Workers \ {w} : pc'[v] = pc[v] /\ claim'[v] = claim[v]
    BY <1>1, <1>6 DEF Goto, TypeOK
  <2>6. ASSUME NEW k \in Lessons, Attends(w, k)
        PROVE  Attends(w, k)'
    BY <1>6, <2>1, <2>3, <2>4, <2>6 DEF Attends, Matches
  <2> QED BY <1>6, <2>2, <2>5, <2>6, OneAttends
<1>7. CASE BeginProviderCall(w)
  <2>1. CASE Current(w)
    BY <1>6, <1>7, <2>1 DEF BeginProviderCall, Holding, TryLabels
  <2>2. CASE ~Current(w)
    BY <1>3, <1>7, <2>2 DEF BeginProviderCall, Holding, TryLabels
  <2> QED BY <2>1, <2>2
<1>8. CASE SetStep(w)
  <2>1. CASE Current(w)
    BY <1>6, <1>8, <2>1 DEF SetStep, Holding, TryLabels
  <2>2. CASE ~Current(w)
    BY <1>3, <1>8, <2>2 DEF SetStep, Holding, TryLabels
  <2> QED BY <2>1, <2>2
<1>9. ASSUME NEW status \in {"ready", "failed"}, pc[w] # "idle", EndOwn(w, status)
      PROVE  Attended'
  <2>1. CASE Current(w)
    <3>1. EndAll({l}, status, TRUE) /\ status \in Terminal /\ {l} \in SUBSET Lessons
      BY <1>1, <1>9, <2>1 DEF EndOwn, Terminal, Closed
    <3>2. \A k \in Lessons : StillOwned(k)
      BY <1>1, <3>1, EndAllKeepsOwners
    <3>3. ~Unfinished(row'[l])
      <4>1. row[l] \in Row /\ row'[l] = Ended(row[l], status, TRUE)
        BY <1>1, <1>9, <3>1 DEF EndAll, TypeOK
      <4>2. PICK h : h = Archive(row[l], status, NoRevision)
        OBVIOUS
      <4>3. row'[l] = [status |-> status, revision |-> row[l].revision + 1,
                       attempt |-> row[l].attempt, token |-> row[l].token,
                       leased |-> row[l].leased, quiesced |-> TRUE, history |-> h,
                       retryRevision |-> row[l].retryRevision]
        BY <4>1, <4>2 DEF Ended, Row
      <4> QED BY <4>3 DEF Unfinished
    <3>4. \A k \in Lessons : ~(Attends(w, k) /\ Unfinished(row'[k]))
      BY <3>3 DEF Attends
    <3>5. \A v \in Workers \ {w} : pc'[v] = pc[v] /\ claim'[v] = claim[v]
      BY <1>1, <1>9 DEF EndOwn, Goto, TypeOK
    <3>6. UNCHANGED <<up, faults>>
      BY <1>9 DEF EndOwn
    <3> QED BY <3>2, <3>4, <3>5, <3>6, OneAttends
  <2>2. CASE ~Current(w)
    BY <1>3, <1>9, <2>2 DEF EndOwn, rowVars
  <2> QED BY <2>1, <2>2
<1>10. CASE Complete(w)
  BY <1>9, <1>10 DEF Complete
<1>11. CASE Fail(w)
  BY <1>9, <1>11 DEF Fail
<1>12. ASSUME pc[w] \in {"back", "quit", "final"}, Acknowledge(w), UNCHANGED <<up, faults>>,
              \A v \in Workers \ {w} : pc'[v] = pc[v] /\ claim'[v] = claim[v]
       PROVE  Attended'
  <2>1. l \in Lessons
    BY <1>1, <1>12
  <2>2. CASE row[l].status \in Closed /\ Matches(row[l], claim[w])
    <3>1. row' = [row EXCEPT ![l].quiesced = TRUE]
      BY <1>12, <2>2 DEF Acknowledge
    <3>2. row'[l].status = row[l].status /\ row'[l].quiesced
      BY <1>1, <2>1, <3>1 DEF TypeOK, Row
    <3>3. ~Unfinished(row'[l])
      BY <2>2, <3>2 DEF Unfinished, Closed
    <3>4. \A k \in Lessons \ {l} : row'[k] = row[k]
      BY <1>1, <3>1 DEF TypeOK
    <3>5. \A k \in Lessons : StillOwned(k)
      BY <3>3, <3>4 DEF StillOwned
    <3>6. \A k \in Lessons : ~(Attends(w, k) /\ Unfinished(row'[k]))
      BY <3>3 DEF Attends
    <3> QED BY <1>12, <3>5, <3>6, OneAttends
  <2>3. CASE ~(row[l].status \in Closed /\ Matches(row[l], claim[w]))
    <3>1. row' = row
      BY <1>12, <2>3 DEF Acknowledge
    <3>2. \A k \in Lessons : StillOwned(k)
      BY <3>1 DEF StillOwned
    <3>3. \A k \in Lessons : ~(Attends(w, k) /\ Unfinished(row'[k]))
      BY <1>12, <2>3, <3>1 DEF Attends, Unfinished
    <3> QED BY <1>12, <3>2, <3>3, OneAttends
  <2> QED BY <2>2, <2>3
<1>13. CASE GiveUp(w)
  <2>1. \A v \in Workers \ {w} : pc'[v] = pc[v] /\ claim'[v] = claim[v]
    BY <1>1, <1>13 DEF GiveUp, Goto, TypeOK
  <2> QED BY <1>12, <1>13, <2>1 DEF GiveUp
<1>14. CASE Finish(w)
  <2>1. \A v \in Workers \ {w} : pc'[v] = pc[v] /\ claim'[v] = claim[v]
    BY <1>1, <1>14 DEF Finish, Goto, TypeOK
  <2> QED BY <1>12, <1>14, <2>1 DEF Finish
<1> QED BY <1>2, <1>4, <1>5, <1>7, <1>8, <1>10, <1>11, <1>13, <1>14 DEF Work

LEMMA AttendedInvariant == Spec => []Attended
<1>1. Safe /\ Attended /\ [Next]_vars => Attended'
  <2> SUFFICES ASSUME Safe, Attended, [Next]_vars PROVE Attended'
    OBVIOUS
  <2>1. CASE Next
    BY <2>1, TeacherAttended, WorkAttended, EnvironmentAttended DEF Next
  <2>2. CASE UNCHANGED vars
    BY <2>2 DEF vars, rowVars, processVars, workerVars, Attended, Attends, Unfinished, Matches
  <2> QED BY <2>1, <2>2
<1> QED BY <1>1, InitAttended, SafeInvariant, PTL DEF Spec

(* As long as SQLite has refused no access of a worker, a lesson whose       *)
(* previous attempt is still finishing has a worker that will acknowledge    *)
(* it: the refused access is the only way to the answer that app.py:1463     *)
(* gives for ever.                                                           *)
THEOREM BlockedUnlessRefused == Spec => [](faults = 0 => BlockedMeansWorking)
<1>1. Attended => (faults = 0 => BlockedMeansWorking)
  BY DEF Attended, Attends, BlockedMeansWorking, Unfinished
<1> QED BY <1>1, AttendedInvariant, PTL
-----------------------------------------------------------------------------
(* What a step may do to the row of one lesson. *)

Open == {"draft", "baking"}

Kept(l) == row'[l] = row[l] /\ born'[l] = born[l]

Made(l) ==
  /\ row[l].status = "absent"
  /\ row'[l] = NewRow
  /\ born'[l] = born[l] + 1

Gone(l) ==
  /\ row[l].status \in Terminal
  /\ row'[l] = NoRow
  /\ born'[l] = born[l]

Ends(l) ==
  /\ row[l].status \in Open
  /\ \E status \in Terminal, q \in BOOLEAN : row'[l] = Ended(row[l], status, q)
  /\ born'[l] = born[l]

Reopens(l) ==
  /\ row[l].status \in Closed
  /\ row'[l] = Requeued(row[l], row[l].revision)
  /\ born'[l] = born[l]

Starts(l) ==
  /\ row[l].status = "draft"
  /\ \E token \in Nat : row'[l] = Claimed(row[l], token)
  /\ born'[l] = born[l]

Leases(l) ==
  /\ row[l].status = "baking"
  /\ row'[l] = [row[l] EXCEPT !.leased = TRUE]
  /\ born'[l] = born[l]

Quiets(l) ==
  /\ row[l].status \in Closed
  /\ row'[l] = [row[l] EXCEPT !.quiesced = TRUE]
  /\ born'[l] = born[l]

Advances(l) ==
  /\ row[l].status = "baking"
  /\ row'[l] = [row[l] EXCEPT !.revision = @ + 1]
  /\ born'[l] = born[l]

RowStep(l) ==
  \/ Kept(l) \/ Made(l) \/ Gone(l) \/ Ends(l) \/ Reopens(l)
  \/ Starts(l) \/ Leases(l) \/ Quiets(l) \/ Advances(l)

(* A step that ends the attempts of a set of open rows. *)
LEMMA EndAllSteps ==
  ASSUME TypeOK, NEW S \in SUBSET Lessons, NEW status \in Terminal, NEW q \in BOOLEAN,
         EndAll(S, status, q), \A l \in S : row[l].status \in Open
  PROVE  \A l \in Lessons : RowStep(l)
<1> SUFFICES ASSUME NEW l \in Lessons PROVE RowStep(l)
  OBVIOUS
<1>1. row'[l] = IF l \in S THEN Ended(row[l], status, q) ELSE row[l]
  BY DEF EndAll
<1>2. born'[l] = born[l]
  BY DEF EndAll
<1>3. CASE l \in S
  BY <1>1, <1>2, <1>3 DEF RowStep, Ends
<1>4. CASE l \notin S
  BY <1>1, <1>2, <1>4 DEF RowStep, Kept
<1> QED BY <1>3, <1>4

LEMMA KeptSteps ==
  ASSUME UNCHANGED <<row, born>>
  PROVE  \A l \in Lessons : RowStep(l)
BY DEF RowStep, Kept

LEMMA TeacherSteps ==
  ASSUME TypeOK, Teacher
  PROVE  \A l \in Lessons : RowStep(l)
<1>1. ASSUME NEW l \in Lessons, Create(l)
      PROVE  \A k \in Lessons : RowStep(k)
  <2>1. Made(l)
    BY <1>1 DEF Create, Exists, Made, TypeOK
  <2>2. \A k \in Lessons \ {l} : Kept(k)
    BY <1>1 DEF Create, Kept, TypeOK
  <2> QED BY <2>1, <2>2 DEF RowStep
<1>2. ASSUME NEW l \in Lessons, Delete(l)
      PROVE  \A k \in Lessons : RowStep(k)
  <2>1. Gone(l)
    BY <1>2 DEF Delete, MayDelete, Gone, TypeOK
  <2>2. \A k \in Lessons \ {l} : Kept(k)
    BY <1>2 DEF Delete, Kept, TypeOK
  <2> QED BY <2>1, <2>2 DEF RowStep
<1>3. ASSUME NEW c \in Clients, NEW l \in Lessons, Refresh(c, l)
      PROVE  \A k \in Lessons : RowStep(k)
  BY <1>3, KeptSteps DEF Refresh, rowVars
<1>4. ASSUME NEW c \in Clients, NEW l \in Lessons, Cancel(c, l)
      PROVE  \A k \in Lessons : RowStep(k)
  <2> DEFINE q == row[l].status = "draft" \/ row[l].token = NoToken
  <2>1. q \in BOOLEAN /\ "cancelled" \in Terminal /\ {l} \in SUBSET Lessons
    BY DEF Terminal, Closed
  <2>2. EndAll({l}, "cancelled", q) /\ row[l].status \in Open
    BY <1>4 DEF Cancel, Open
  <2> HIDE DEF q
  <2> QED BY <2>1, <2>2, EndAllSteps
<1>5. ASSUME NEW c \in Clients, NEW l \in Lessons, Retry(c, l)
      PROVE  \A k \in Lessons : RowStep(k)
  <2>1. Reopens(l)
    BY <1>5 DEF Retry, MayRetry, ExpectedRevision, Reopens, TypeOK
  <2>2. \A k \in Lessons \ {l} : Kept(k)
    BY <1>5 DEF Retry, Kept, TypeOK
  <2> QED BY <2>1, <2>2 DEF RowStep
<1> QED BY <1>1, <1>2, <1>3, <1>4, <1>5 DEF Teacher

(* Only a worker that is at a label other than "idle" writes to a row it     *)
(* did not just claim, and such a worker has a lesson.                       *)
LEMMA WorkSteps ==
  ASSUME TypeOK, NEW w \in Workers, Work(w),
         pc[w] # "idle" => claim[w].lesson \in Lessons
  PROVE  \A k \in Lessons : RowStep(k)
<1> DEFINE l == claim[w].lesson
<1>1. ASSUME NEW m \in Lessons, Claim(w, m)
      PROVE  \A k \in Lessons : RowStep(k)
  <2>1. row' = [row EXCEPT ![m] = Claimed(row[m], tokens + 1)] /\ tokens + 1 \in Nat
    BY <1>1 DEF Claim, TypeOK
  <2>2. Starts(m)
    BY <1>1, <2>1 DEF Claim, Starts, TypeOK
  <2>3. \A k \in Lessons \ {m} : Kept(k)
    BY <1>1 DEF Claim, Kept, TypeOK
  <2> QED BY <2>2, <2>3 DEF RowStep
<1>2. ASSUME \/ CheckBeforeWork(w) \/ ProviderReturns(w) \/ ConfirmAnswer(w)
             \/ Validate(w) \/ Handle(w)
      PROVE  \A k \in Lessons : RowStep(k)
  BY <1>2, KeptSteps
     DEF CheckBeforeWork, ProviderReturns, ConfirmAnswer, Validate, Handle, ReadOnly, rowVars
<1>3. CASE BeginProviderCall(w)
  <2>1. l \in Lessons /\ born' = born
    BY <1>3 DEF BeginProviderCall
  <2>2. CASE Current(w)
    <3>1. row' = [row EXCEPT ![l].leased = TRUE] /\ row[l].status = "baking"
      BY <1>3, <2>2 DEF BeginProviderCall, Current
    <3>2. Leases(l)
      BY <2>1, <3>1 DEF Leases, TypeOK
    <3>3. \A k \in Lessons \ {l} : Kept(k)
      BY <2>1, <3>1 DEF Kept, TypeOK
    <3> QED BY <2>1, <3>2, <3>3 DEF RowStep
  <2>3. CASE ~Current(w)
    BY <1>3, <2>1, <2>3, KeptSteps DEF BeginProviderCall
  <2> QED BY <2>2, <2>3
<1>4. CASE SetStep(w)
  <2>1. l \in Lessons /\ born' = born
    BY <1>4 DEF SetStep
  <2>2. CASE Current(w)
    <3>1. row' = [row EXCEPT ![l].revision = @ + 1] /\ row[l].status = "baking"
      BY <1>4, <2>2 DEF SetStep, Current
    <3>2. Advances(l)
      BY <2>1, <3>1 DEF Advances, TypeOK
    <3>3. \A k \in Lessons \ {l} : Kept(k)
      BY <2>1, <3>1 DEF Kept, TypeOK
    <3> QED BY <2>1, <3>2, <3>3 DEF RowStep
  <2>3. CASE ~Current(w)
    BY <1>4, <2>1, <2>3, KeptSteps DEF SetStep
  <2> QED BY <2>2, <2>3
<1>5. ASSUME NEW status \in {"ready", "failed"}, pc[w] # "idle", EndOwn(w, status)
      PROVE  \A k \in Lessons : RowStep(k)
  <2>1. status \in Terminal /\ {l} \in SUBSET Lessons
    BY <1>5 DEF Terminal, Closed
  <2>2. CASE Current(w)
    <3>1. EndAll({l}, status, TRUE) /\ row[l].status \in Open
      BY <1>5, <2>2 DEF EndOwn, Current, Open
    <3> QED BY <2>1, <3>1, EndAllSteps
  <2>3. CASE ~Current(w)
    BY <1>5, <2>3, KeptSteps DEF EndOwn, rowVars
  <2> QED BY <2>2, <2>3
<1>6. ASSUME pc[w] # "idle", Acknowledge(w), born' = born
      PROVE  \A k \in Lessons : RowStep(k)
  <2>1. l \in Lessons
    BY <1>6
  <2>2. CASE row[l].status \in Closed /\ Matches(row[l], claim[w])
    <3>1. row' = [row EXCEPT ![l].quiesced = TRUE]
      BY <1>6, <2>2 DEF Acknowledge
    <3>2. Quiets(l)
      BY <1>6, <2>1, <2>2, <3>1 DEF Quiets, TypeOK
    <3>3. \A k \in Lessons \ {l} : Kept(k)
      BY <1>6, <2>1, <3>1 DEF Kept, TypeOK
    <3> QED BY <2>1, <3>2, <3>3 DEF RowStep
  <2>3. CASE ~(row[l].status \in Closed /\ Matches(row[l], claim[w]))
    BY <1>6, <2>3, KeptSteps DEF Acknowledge
  <2> QED BY <2>2, <2>3
<1>7. CASE GiveUp(w)
  BY <1>6, <1>7 DEF GiveUp
<1>8. CASE Finish(w)
  BY <1>6, <1>8 DEF Finish
<1>9. CASE Complete(w)
  BY <1>5, <1>9 DEF Complete
<1>10. CASE Fail(w)
  BY <1>5, <1>10 DEF Fail
<1> QED BY <1>1, <1>2, <1>3, <1>4, <1>7, <1>8, <1>9, <1>10 DEF Work

LEMMA EnvironmentSteps ==
  ASSUME TypeOK,
         \/ \E w \in Workers : StoreFails(w)
         \/ \E l \in Lessons : BecomeOverdue(l)
         \/ Sweep \/ CloseAdmission \/ FailQueued \/ Crash \/ Startup
  PROVE  \A k \in Lessons : RowStep(k)
<1> USE DEF rowVars
<1>1. "failed" \in Terminal /\ TRUE \in BOOLEAN /\ FALSE \in BOOLEAN
  BY DEF Terminal, Closed
<1>2. CASE Sweep
  <2>1. EndAll(Expired, "failed", FALSE)
    BY <1>2 DEF Sweep
  <2>2. Expired \in SUBSET Lessons /\ \A l \in Expired : row[l].status \in Open
    BY DEF Expired, Having, Open
  <2> QED BY <1>1, <2>1, <2>2, EndAllSteps
<1>3. CASE FailQueued
  <2>1. EndAll(Having("draft"), "failed", TRUE)
    BY <1>3 DEF FailQueued
  <2>2. Having("draft") \in SUBSET Lessons /\ \A l \in Having("draft") : row[l].status \in Open
    BY DEF Having, Open
  <2> QED BY <1>1, <2>1, <2>2, EndAllSteps
<1>4. CASE Startup
  <2> SUFFICES ASSUME NEW l \in Lessons PROVE RowStep(l)
    OBVIOUS
  <2>1. row'[l] = Recovered(row[l]) /\ born'[l] = born[l]
    BY <1>4 DEF Startup
  <2>2. CASE row[l].status = "baking"
    <3>1. row'[l] = Ended(row[l], "failed", TRUE) /\ row[l].status \in Open
      BY <2>1, <2>2 DEF Recovered, Open
    <3> QED BY <1>1, <2>1, <3>1 DEF RowStep, Ends
  <2>3. CASE row[l].status \in Closed
    BY <2>1, <2>3 DEF Recovered, Closed, RowStep, Quiets
  <2>4. CASE row[l].status \notin Closed \cup {"baking"}
    BY <2>1, <2>4 DEF Recovered, RowStep, Kept
  <2> QED BY <2>2, <2>3, <2>4
<1>5. CASE \/ \E w \in Workers : StoreFails(w)
           \/ \E l \in Lessons : BecomeOverdue(l)
           \/ CloseAdmission \/ Crash
  BY <1>5, KeptSteps DEF StoreFails, BecomeOverdue, CloseAdmission, Crash
<1> QED BY <1>2, <1>3, <1>4, <1>5

(* Every step does one of the nine things to every row. *)
LEMMA RowsStep ==
  ASSUME Safe, [Next]_vars
  PROVE  \A l \in Lessons : RowStep(l)
<1>1. TypeOK /\ \A w \in Workers : pc[w] # "idle" => claim[w].lesson \in Lessons
  BY DEF Safe, ClaimsAreReal
<1>2. CASE Next
  BY <1>1, <1>2, TeacherSteps, WorkSteps, EnvironmentSteps DEF Next
<1>3. CASE UNCHANGED vars
  BY <1>3, KeptSteps DEF vars, rowVars
<1> QED BY <1>2, <1>3
-----------------------------------------------------------------------------
(* The history and the retry requests of one row.                           *)
(*                                                                          *)
(* Both properties are inductive together with two facts: a row that is     *)
(* there has a positive revision and attempt, and one that is not is NoRow. *)
(* What a retry adds to the history is its own revision, and every request  *)
(* already there is older than the row.                                     *)

Begun(r) ==
  /\ r.status = "absent" => r = NoRow
  /\ r.status # "absent" => r.revision > 0 /\ r.attempt > 0

HistoryFits(r) ==
  /\ Len(r.history) = IF r.status \in Terminal \cup {"absent"} THEN r.attempt
                      ELSE r.attempt - 1
  /\ \A i \in DOMAIN r.history : r.history[i].attempt = i
  /\ r.status \in Terminal => r.history[r.attempt].status = r.status

RequestsFit(r) ==
  /\ \A i \in 1 .. r.attempt - 1 :
       /\ r.history[i].retried # NoRevision
       /\ r.history[i].retried < r.revision
       /\ \A j \in 1 .. i - 1 : r.history[j].retried < r.history[i].retried
  /\ r.attempt > 1 => r.retryRevision = r.history[r.attempt - 1].retried

Sound(r) == r \in Row /\ Begun(r) /\ HistoryFits(r) /\ RequestsFit(r)

(* The columns of a row have their types. *)
LEMMA RowFields ==
  ASSUME NEW r \in Row
  PROVE  /\ r.status \in Statuses /\ r.revision \in Nat /\ r.attempt \in Nat
         /\ r.retryRevision \in Nat
         /\ r.history \in Seq(Disposition) /\ Len(r.history) \in Nat
         /\ DOMAIN r.history = 1 .. Len(r.history)
         /\ \A i \in 1 .. Len(r.history) : r.history[i] \in Disposition
                                            /\ r.history[i].retried \in Nat
<1>1. r.history \in Seq(Disposition)
  BY DEF Row
<1>2. \A i \in 1 .. Len(r.history) : r.history[i] \in Disposition
  BY <1>1, ElementOfSeq
<1>3. \A d \in Disposition : d.retried \in Nat
  BY DEF Disposition
<1> QED BY <1>1, <1>2, <1>3 DEF Row

(* A step that leaves history and attempt alone keeps a row sound. *)
LEMMA SameHistory ==
  ASSUME NEW r, Sound(r), NEW q \in Row,
         q.history = r.history, q.attempt = r.attempt, q.revision >= r.revision,
         q.retryRevision = r.retryRevision,
         r.status \in Open \cup Terminal,
         r.status \in Open => q.status \in Open,
         r.status \in Terminal => q.status = r.status
  PROVE  Sound(q)
<1>1. r \in Row /\ q.revision \in Nat /\ r.revision \in Nat /\ r.attempt \in Nat
  BY RowFields DEF Sound
<1>2. r.status # "absent" /\ q.status # "absent"
  BY DEF Open, Terminal, Closed
<1>3. (q.status \in Terminal \cup {"absent"}) <=> (r.status \in Terminal \cup {"absent"})
  BY DEF Open, Terminal, Closed
<1>4. Begun(q)
  BY <1>1, <1>2 DEF Sound, Begun
<1>5. HistoryFits(q)
  <2>1. r.status \in Terminal => q.status = r.status
    BY DEF Open, Terminal, Closed
  <2> QED BY <1>2, <1>3, <2>1 DEF Sound, HistoryFits
<1>6. RequestsFit(q)
  <2>1. \A i \in 1 .. r.attempt - 1 : i \in 1 .. Len(r.history)
    BY <1>1, RowFields DEF Sound, HistoryFits
  <2>2. \A i \in 1 .. r.attempt - 1 : r.history[i].retried \in Nat
    BY <1>1, <2>1, RowFields
  <2> QED BY <1>1, <2>2 DEF Sound, RequestsFit
<1> QED BY <1>4, <1>5, <1>6 DEF Sound

(* An open attempt that ends is appended. *)
LEMMA EndedIsSound ==
  ASSUME NEW r, Sound(r), r.status \in Open, NEW status \in Terminal, NEW quiesced \in BOOLEAN
  PROVE  Sound(Ended(r, status, quiesced))
<1> DEFINE n == r.attempt
           e == [attempt |-> n, status |-> status, retried |-> NoRevision]
           h == Append(r.history, e)
           q == Ended(r, status, quiesced)
<1>1. /\ r \in Row /\ n \in Nat /\ n > 0 /\ Len(r.history) = n - 1 /\ r.revision \in Nat
      /\ r.history \in Seq(Disposition) /\ DOMAIN r.history = 1 .. n - 1
  BY RowFields DEF Sound, Begun, HistoryFits, Open, Terminal, Closed
<1>2. e \in Disposition
  BY <1>1 DEF Disposition, NoRevision
<1>3. Archive(r, status, NoRevision) = h
  BY <1>1 DEF Archive, Sound, HistoryFits
<1>4. /\ q \in Row /\ q.status = status /\ q.revision = r.revision + 1 /\ q.attempt = n
      /\ q.history = h /\ q.retryRevision = r.retryRevision
  BY <1>1, <1>3, EndedType
<1> HIDE DEF q
<1>5. /\ Len(h) = n /\ DOMAIN h = 1 .. n /\ h[n] = e
      /\ \A i \in 1 .. n - 1 : h[i] = r.history[i]
  BY <1>1, <1>2
<1> HIDE DEF h
<1>6. Begun(q)
  BY <1>1, <1>4 DEF Begun, Terminal, Closed
<1>7. HistoryFits(q)
  <2>1. \A i \in 1 .. n : h[i].attempt = i
    <3>1. \A i \in 1 .. n - 1 : h[i].attempt = i
      BY <1>1, <1>5 DEF Sound, HistoryFits
    <3>2. \A i \in 1 .. n : i = n \/ i \in 1 .. n - 1
      BY <1>1
    <3> QED BY <1>5, <3>1, <3>2
  <2> QED BY <1>4, <1>5, <2>1 DEF HistoryFits
<1>8. RequestsFit(q)
  <2>1. \A i \in 1 .. n - 1 : /\ h[i] = r.history[i]
                              /\ r.history[i].retried \in Nat
                              /\ \A j \in 1 .. i - 1 : h[j] = r.history[j]
    BY <1>1, <1>5, RowFields
  <2>2. ASSUME NEW i \in 1 .. n - 1
        PROVE  /\ h[i].retried # NoRevision /\ h[i].retried < q.revision
               /\ \A j \in 1 .. i - 1 : h[j].retried < h[i].retried
    <3>1. /\ r.history[i].retried # NoRevision /\ r.history[i].retried < r.revision
          /\ \A j \in 1 .. i - 1 : r.history[j].retried < r.history[i].retried
      BY DEF Sound, RequestsFit
    <3>2. h[i] = r.history[i] /\ \A j \in 1 .. i - 1 : h[j] = r.history[j]
      BY <2>1
    <3>3. r.history[i].retried \in Nat
      BY <2>1
    <3>4. r.history[i].retried < q.revision
      BY <1>1, <1>4, <3>1, <3>3
    <3> QED BY <3>1, <3>2, <3>4
  <2>3. n > 1 => q.retryRevision = h[n - 1].retried
    BY <1>1, <1>4, <1>5 DEF Sound, RequestsFit
  <2> QED BY <1>4, <2>2, <2>3 DEF RequestsFit
<1>9. Sound(q)
  BY <1>4, <1>6, <1>7, <1>8 DEF Sound
<1> QED BY <1>9 DEF q

(* A retry writes its revision next to the attempt it repeats. *)
LEMMA RequeuedIsSound ==
  ASSUME NEW r, Sound(r), r.status \in Closed
  PROVE  Sound(Requeued(r, r.revision))
<1> DEFINE n == r.attempt
           h == Archive(r, r.status, r.revision)
           q == Requeued(r, r.revision)
<1>1. /\ r \in Row /\ n \in Nat /\ n > 0 /\ Len(r.history) = n
      /\ r.revision \in Nat /\ r.revision > 0
      /\ r.history \in Seq(Disposition) /\ DOMAIN r.history = 1 .. n
  BY RowFields DEF Sound, Begun, HistoryFits, Terminal, Closed
<1>2. \A i \in 1 .. n : r.history[i].attempt = i /\ r.history[i] \in Disposition
  BY <1>1, RowFields DEF Sound, HistoryFits
<1>3. {i \in DOMAIN r.history : r.history[i].attempt = r.attempt} = {n}
  BY <1>1, <1>2
<1>4. h = [i \in 1 .. n |-> IF i = n THEN [r.history[i] EXCEPT !.retried = r.revision]
                            ELSE r.history[i]]
  BY <1>1, <1>3 DEF Archive, NoRevision
<1>5. /\ q \in Row /\ q.status = "draft" /\ q.revision = r.revision + 1
      /\ q.attempt = n + 1 /\ q.history = h /\ q.retryRevision = r.revision
  BY <1>1, RequeuedType
<1> HIDE DEF q
<1>6. /\ DOMAIN h = 1 .. n /\ h \in Seq(Disposition)
      /\ \A i \in 1 .. n - 1 : h[i] = r.history[i]
      /\ h[n] = [r.history[n] EXCEPT !.retried = r.revision]
  <2>1. h \in Seq(Disposition)
    BY <1>1, ArchiveType DEF Terminal
  <2> QED BY <1>1, <1>4, <2>1
<1>7. Len(h) = n
  BY <1>1, <1>6
<1> HIDE DEF h
<1>8. h[n].retried = r.revision /\ h[n].attempt = n
  <2>1. r.history[n] \in Disposition /\ r.history[n].attempt = n
    BY <1>1, <1>2
  <2> QED BY <1>6, <2>1 DEF Disposition
<1>9. Begun(q)
  BY <1>1, <1>5 DEF Begun
<1>10. HistoryFits(q)
  <2>1. \A i \in 1 .. n : h[i].attempt = i
    <3>1. \A i \in 1 .. n : i = n \/ i \in 1 .. n - 1
      BY <1>1
    <3> QED BY <1>2, <1>6, <1>8, <3>1
  <2> QED BY <1>1, <1>5, <1>6, <1>7, <2>1 DEF HistoryFits, Terminal, Closed
<1>11. RequestsFit(q)
  <2>1. \A i \in 1 .. n - 1 : r.history[i].retried \in Nat
    BY <1>1, RowFields
  <2>2. \A i \in 1 .. n - 1 :
          /\ h[i].retried # NoRevision /\ h[i].retried < r.revision /\ h[i].retried \in Nat
          /\ \A j \in 1 .. i - 1 : h[j].retried < h[i].retried
    <3> SUFFICES ASSUME NEW i \in 1 .. n - 1
                 PROVE  /\ h[i].retried # NoRevision /\ h[i].retried < r.revision
                        /\ h[i].retried \in Nat
                        /\ \A j \in 1 .. i - 1 : h[j].retried < h[i].retried
      OBVIOUS
    <3>1. h[i] = r.history[i] /\ \A j \in 1 .. i - 1 : h[j] = r.history[j]
      BY <1>1, <1>6
    <3> QED BY <2>1, <3>1 DEF Sound, RequestsFit
  <2>3. /\ h[n].retried # NoRevision /\ h[n].retried < q.revision
        /\ \A j \in 1 .. n - 1 : h[j].retried < h[n].retried
    BY <1>1, <1>5, <1>8, <2>2 DEF NoRevision
  <2>4. \A i \in 1 .. n :
          /\ h[i].retried # NoRevision /\ h[i].retried < q.revision
          /\ \A j \in 1 .. i - 1 : h[j].retried < h[i].retried
    <3>1. \A i \in 1 .. n : i = n \/ i \in 1 .. n - 1
      BY <1>1
    <3> QED BY <1>1, <1>5, <2>2, <2>3, <3>1
  <2>5. (n + 1) - 1 = n
    BY <1>1
  <2> QED BY <1>5, <1>8, <2>4, <2>5 DEF RequestsFit
<1>12. Sound(q)
  BY <1>5, <1>9, <1>10, <1>11 DEF Sound
<1> QED BY <1>12 DEF q

(* The steps of a row that only move its status, lease, quiescence mark or   *)
(* revision.                                                                 *)
LEMMA ClaimedIsSound ==
  ASSUME NEW r, Sound(r), r.status \in {"draft"}, NEW token \in Nat,
         NEW q, q \in {Claimed(r, token)}
  PROVE  Sound(q)
<1>1. r \in Row /\ r.revision \in Nat
  BY RowFields DEF Sound
<1>2. q = [status |-> "baking", revision |-> r.revision + 1, attempt |-> r.attempt,
           token |-> token, leased |-> FALSE, quiesced |-> FALSE, history |-> r.history,
           retryRevision |-> r.retryRevision]
  BY <1>1, ClaimedType
<1>3. q \in Row
  BY <1>1, ClaimedType
<1>4. q.revision >= r.revision /\ r.status \in Open /\ q.status \in Open
  BY <1>1, <1>2 DEF Open
<1>5. /\ q.history = r.history /\ q.attempt = r.attempt
      /\ q.retryRevision = r.retryRevision
  BY <1>2
<1>6. /\ r.status \in Open \cup Terminal
      /\ r.status \in Open => q.status \in Open
      /\ r.status \in Terminal => q.status = r.status
  BY <1>4 DEF Open, Terminal, Closed
<1> QED BY <1>3, <1>4, <1>5, <1>6, SameHistory

LEMMA MarkedIsSound ==
  ASSUME NEW r, Sound(r), r.status \in {"baking"} \cup Closed, NEW q,
         \/ q = [r EXCEPT !.leased = TRUE]
         \/ q = [r EXCEPT !.quiesced = TRUE]
         \/ q = [r EXCEPT !.revision = @ + 1]
  PROVE  Sound(q)
<1>1. r \in Row /\ r.revision \in Nat
  BY RowFields DEF Sound
<1>2. /\ q \in Row /\ q.history = r.history /\ q.attempt = r.attempt
      /\ q.revision >= r.revision /\ q.retryRevision = r.retryRevision
      /\ q.status = r.status
  <2>1. CASE q = [r EXCEPT !.leased = TRUE]
    <3>1. [r EXCEPT !.leased = TRUE] \in Row
      BY <1>1 DEF Row
    <3> QED BY <1>1, <2>1, <3>1 DEF Row
  <2>2. CASE q = [r EXCEPT !.quiesced = TRUE]
    <3>1. [r EXCEPT !.quiesced = TRUE] \in Row
      BY <1>1 DEF Row
    <3> QED BY <1>1, <2>2, <3>1 DEF Row
  <2>3. CASE q = [r EXCEPT !.revision = @ + 1]
    BY <1>1, <2>3 DEF Row
  <2> QED BY <2>1, <2>2, <2>3
<1>3. /\ r.status \in Open \cup Terminal
      /\ r.status \in Open => q.status \in Open
      /\ r.status \in Terminal => q.status = r.status
  BY <1>2 DEF Open, Terminal
<1> QED BY <1>2, <1>3, SameHistory

LEMMA NoRowIsSound == Sound(NoRow) /\ Sound(NewRow)
<1>1. /\ NoRow.history = <<>> /\ NoRow.attempt = 0 /\ NoRow.status = "absent"
      /\ NewRow.history = <<>> /\ NewRow.attempt = 1 /\ NewRow.status = "draft"
      /\ NewRow.revision = 1 /\ Len(<<>>) = 0 /\ DOMAIN <<>> = {}
      /\ 1 .. 0 - 1 = {} /\ 1 .. 1 - 1 = {}
  BY DEF NoRow, NewRow
<1>2. HistoryFits(NoRow) /\ HistoryFits(NewRow)
  BY <1>1 DEF HistoryFits, Terminal, Closed
<1>3. RequestsFit(NoRow) /\ RequestsFit(NewRow)
  BY <1>1 DEF RequestsFit
<1>4. Begun(NoRow) /\ Begun(NewRow)
  BY <1>1 DEF Begun
<1> QED BY <1>2, <1>3, <1>4, NewRowType DEF Sound

LEMMA StepIsSound ==
  ASSUME NEW l \in Lessons, Sound(row[l]), RowStep(l)
  PROVE  Sound(row'[l])
<1>1. CASE Starts(l)
  BY <1>1, ClaimedIsSound DEF Starts
<1>2. CASE Leases(l) \/ Quiets(l) \/ Advances(l)
  BY <1>2, MarkedIsSound DEF Leases, Quiets, Advances
<1>3. CASE Ends(l)
  BY <1>3, EndedIsSound DEF Ends
<1>4. CASE Reopens(l)
  BY <1>4, RequeuedIsSound DEF Reopens
<1>5. CASE Kept(l) \/ Made(l) \/ Gone(l)
  BY <1>5, NoRowIsSound DEF Kept, Made, Gone
<1> QED BY <1>1, <1>2, <1>3, <1>4, <1>5 DEF RowStep

RecordsAreSound == \A l \in Lessons : Sound(row[l])

LEMMA RecordsInvariant == Spec => []RecordsAreSound
<1>1. Init => RecordsAreSound
  BY NoRowIsSound DEF Init, RecordsAreSound
<1>2. Safe /\ RecordsAreSound /\ [Next]_vars => RecordsAreSound'
  BY RowsStep, StepIsSound DEF RecordsAreSound
<1> QED BY <1>1, <1>2, SafeInvariant, PTL DEF Spec

(* Each attempt that ended is in the history of its row once and in order,   *)
(* with the way it ended, whoever ended it: the teacher, the worker, the     *)
(* sweep, a closed pool or the next process (_attempt_history_json).         *)
THEOREM HistoryHolds == Spec => []HistoryIsExact
<1>1. RecordsAreSound => HistoryIsExact
  BY DEF RecordsAreSound, Sound, HistoryFits, HistoryIsExact
<1> QED BY <1>1, RecordsInvariant, PTL

(* Every attempt but the first was queued by a retry request of its own, at  *)
(* a later revision than the request before, and replays are recognised by   *)
(* the last of them.                                                         *)
THEOREM RequestsHold == Spec => []OneAttemptPerRequest
<1>1. RecordsAreSound => OneAttemptPerRequest
  BY DEF RecordsAreSound, Sound, RequestsFit, OneAttemptPerRequest
<1> QED BY <1>1, RecordsInvariant, PTL
-----------------------------------------------------------------------------
(* What a tab may conclude from a revision.                                 *)
(*                                                                          *)
(* A tab that read the present incarnation of a lesson has not read the     *)
(* future: its revision is at most the row's, and where they are equal      *)
(* nothing it can see has changed, because every change of a status or an   *)
(* attempt raises the revision in the same transaction.                     *)

(* A step never takes a revision back while the lesson lives, and raises it  *)
(* whenever the status or the attempt changes.                               *)
LEMMA RevisionsGrow ==
  ASSUME NEW l \in Lessons, Sound(row[l]), born[l] \in Nat, RowStep(l)
  PROVE  /\ born'[l] \in Nat /\ born'[l] >= born[l]
         /\ born'[l] = born[l] /\ row'[l].status # "absent"
              => /\ row[l].status # "absent"
                 /\ row[l].revision \in Nat /\ row'[l].revision \in Nat
                 /\ row'[l].revision >= row[l].revision
                 /\ row'[l].revision = row[l].revision
                      => row'[l].status = row[l].status /\ row'[l].attempt = row[l].attempt
<1>1. row[l] \in Row /\ row[l].revision \in Nat /\ row[l].history \in Seq(Disposition)
  BY RowFields DEF Sound
<1>2. CASE Kept(l)
  BY <1>1, <1>2 DEF Kept
<1>3. CASE Made(l)
  BY <1>3 DEF Made
<1>4. CASE Gone(l)
  BY <1>4, NewRowType DEF Gone
<1>5. CASE Ends(l)
  <2>1. PICK status \in Terminal, q \in BOOLEAN : row'[l] = Ended(row[l], status, q)
    BY <1>5 DEF Ends
  <2>2. row'[l].revision = row[l].revision + 1
    BY <1>1, <2>1, EndedType
  <2> QED BY <1>1, <1>5, <2>2 DEF Ends, Open
<1>6. CASE Reopens(l)
  <2>1. row'[l].revision = row[l].revision + 1
    BY <1>1, <1>6, RequeuedType DEF Reopens
  <2> QED BY <1>1, <1>6, <2>1 DEF Reopens, Closed
<1>7. CASE Starts(l)
  <2>1. PICK token \in Nat : row'[l] = Claimed(row[l], token)
    BY <1>7 DEF Starts
  <2>2. Claimed(row[l], token).revision = row[l].revision + 1
    BY <1>1 DEF Claimed, Row
  <2>3. row'[l].revision = row[l].revision + 1
    BY <2>1, <2>2
  <2> QED BY <1>1, <1>7, <2>3 DEF Starts
<1>8. CASE Leases(l)
  BY <1>1, <1>8 DEF Leases, Row
<1>9. CASE Quiets(l)
  BY <1>1, <1>9 DEF Quiets, Row, Closed
<1>10. CASE Advances(l)
  BY <1>1, <1>10 DEF Advances, Row
<1> QED BY <1>2, <1>3, <1>4, <1>5, <1>6, <1>7, <1>8, <1>9, <1>10 DEF RowStep

(* Only GET status tells a tab anything, and it tells it the row. *)
LEMMA ViewsChange ==
  ASSUME TypeOK, [Next]_vars, NEW c \in Clients
  PROVE  \/ view'[c] = view[c]
         \/ \E l \in Lessons : /\ UNCHANGED <<row, born>>
                               /\ view'[c] = [lesson |-> l, born |-> born[l],
                                             revision |-> row[l].revision,
                                             status |-> row[l].status,
                                             attempt |-> row[l].attempt]
<1>1. CASE \E b \in Clients, l \in Lessons : Refresh(b, l)
  BY <1>1 DEF Refresh, TypeOK, rowVars
<1>2. ASSUME NEW w \in Workers, Work(w)
      PROVE  view' = view
  BY <1>2 DEF Work, Claim, CheckBeforeWork, BeginProviderCall, ProviderReturns, ConfirmAnswer,
              SetStep, Validate, Complete, Handle, Fail, EndOwn, GiveUp, Finish, ReadOnly
<1>3. CASE \/ \E l \in Lessons : Create(l) \/ Delete(l) \/ BecomeOverdue(l)
           \/ \E b \in Clients, l \in Lessons : Cancel(b, l) \/ Retry(b, l)
           \/ \E w \in Workers : StoreFails(w)
           \/ Sweep \/ CloseAdmission \/ FailQueued \/ Crash \/ Startup
           \/ UNCHANGED vars
  BY <1>3 DEF Create, Delete, BecomeOverdue, Cancel, Retry, StoreFails, Sweep, CloseAdmission,
              FailQueued, Crash, Startup, vars
<1> QED BY <1>1, <1>2, <1>3 DEF Next, Teacher

Remembers(c, l) ==
  view[c].lesson = l =>
    /\ view[c].born <= born[l]
    /\ view[c].born = born[l] /\ Exists(l) =>
         /\ view[c].revision <= row[l].revision
         /\ view[c].revision = row[l].revision =>
              view[c].status = row[l].status /\ view[c].attempt = row[l].attempt

ViewsAreOfThePast == \A c \in Clients, l \in Lessons : Remembers(c, l)

LEMMA ViewsInvariant == Spec => []ViewsAreOfThePast
<1>1. Init => ViewsAreOfThePast
  BY NoLessonAssumption DEF Init, ViewsAreOfThePast, Remembers, NoView
<1>2. Safe /\ RecordsAreSound /\ ViewsAreOfThePast /\ [Next]_vars => ViewsAreOfThePast'
  <2> SUFFICES ASSUME Safe, RecordsAreSound, ViewsAreOfThePast, [Next]_vars,
                      NEW c \in Clients, NEW l \in Lessons
               PROVE  Remembers(c, l)'
    BY DEF ViewsAreOfThePast
  <2>1. TypeOK /\ Sound(row[l]) /\ born[l] \in Nat /\ RowStep(l)
    BY RowsStep DEF Safe, TypeOK, RecordsAreSound
  <2>2. view[c] \in StatusPayload
    BY <2>1 DEF TypeOK
  <2>3. view[c].born \in Nat /\ view[c].revision \in Nat
    BY <2>2 DEF StatusPayload
  <2>4. row[l].revision \in Nat
    BY <2>1, RowFields DEF Sound
  <2>5. CASE view'[c] = view[c]
    <3>1. Remembers(c, l)
      BY DEF ViewsAreOfThePast
    <3> QED BY <2>1, <2>3, <2>4, <2>5, <3>1, RevisionsGrow DEF Remembers, Exists
  <2>6. CASE \E m \in Lessons : /\ UNCHANGED <<row, born>>
                                /\ view'[c] = [lesson |-> m, born |-> born[m],
                                              revision |-> row[m].revision,
                                              status |-> row[m].status,
                                              attempt |-> row[m].attempt]
    BY <2>1, <2>4, <2>6 DEF Remembers
  <2> QED BY <2>1, <2>5, <2>6, ViewsChange
<1> QED BY <1>1, <1>2, SafeInvariant, RecordsInvariant, PTL DEF Spec

(* A tab whose expected_revision is accepted is looking at the status and    *)
(* the attempt the row has (_require_expected_revision), as long as the key  *)
(* was not deleted and created again.                                        *)
THEOREM RevisionsIdentify == Spec => []RevisionIdentifiesState
<1>1. ViewsAreOfThePast => RevisionIdentifiesState
  BY DEF ViewsAreOfThePast, Remembers, RevisionIdentifiesState, ExpectedRevision
<1> QED BY <1>1, ViewsInvariant, PTL
-----------------------------------------------------------------------------
(* The promise of LessonLifecycle is kept.                                  *)
(*                                                                          *)
(* The mapping looks at the status and the attempt of a row and at the      *)
(* workers inside a provider call. A step that changes neither is a stutter *)
(* of the promise; the others are told apart below. Two facts of Safe carry *)
(* the argument: a worker in a call owns its row, so that no call is under  *)
(* way when a lesson is reopened or removed; and calls of one lesson never  *)
(* overlap, so that a worker's answer ends the only one.                    *)

LEMMA StatesOfRows ==
  ASSUME NEW r
  PROVE  /\ r.status = "absent" => StateOf(r) = "absent"
         /\ r.status = "draft" => StateOf(r) = "queued"
         /\ r.status = "baking" => StateOf(r) = "running"
         /\ r.status = "ready" => StateOf(r) = "published"
         /\ r.status \in Closed => StateOf(r) = "closed"
BY DEF StateOf, Closed

LEMMA NoRowMapped == NoRow.attempt = 0 /\ StateOf(NoRow) = "absent" /\ StateOf(NewRow) = "queued"
BY NewRowType, StatesOfRows DEF NoRow

LEMMA PromisedInit == Init => Promise!Init
<1> SUFFICES ASSUME Init PROVE Promise!Init
  OBVIOUS
<1>1. lifecycleState = [l \in Lessons |-> "absent"]
  BY NoRowMapped DEF Init, lifecycleState
<1>2. lifecycleAttempt = [l \in Lessons |-> 0]
  BY NoRowMapped DEF Init, lifecycleAttempt
<1>3. lifecycleCalling = [l \in Lessons |-> FALSE]
  <2>1. \A l \in Lessons : Calling(l) = FALSE
    BY DEF Init, Calling
  <2> QED BY <2>1 DEF lifecycleCalling
<1> QED BY <1>1, <1>2, <1>3 DEF Promise!Init

(* What leaves the mapped variables alone. *)
LEMMA RowsStutter ==
  ASSUME \A l \in Lessons : row'[l].status = row[l].status /\ row'[l].attempt = row[l].attempt
  PROVE  lifecycleState' = lifecycleState /\ lifecycleAttempt' = lifecycleAttempt
<1>1. \A l \in Lessons : StateOf(row'[l]) = StateOf(row[l])
  BY DEF StateOf
<1> QED BY <1>1 DEF lifecycleState, lifecycleAttempt

LEMMA CallsStutter ==
  ASSUME UNCHANGED <<pc, claim>>
  PROVE  lifecycleCalling' = lifecycleCalling
BY DEF lifecycleCalling, Calling

(* The worker w moves, and is in no call before or after. *)
LEMMA OtherCalls ==
  ASSUME TypeOK, NEW w \in Workers, NEW label, Goto(w, label),
         pc[w] # "provider", label # "provider",
         \A v \in Workers \ {w} : claim'[v] = claim[v]
  PROVE  lifecycleCalling' = lifecycleCalling
<1>1. \A v \in Workers \ {w} : pc'[v] = pc[v]
  BY DEF Goto, TypeOK
<1>2. pc'[w] = label
  BY DEF Goto, TypeOK
<1>3. \A l \in Lessons : Calling(l)' <=> Calling(l)
  BY <1>1, <1>2 DEF Calling
<1>4. \A l \in Lessons : Calling(l)' = Calling(l)
  BY <1>3 DEF Calling
<1> QED BY <1>4 DEF lifecycleCalling

(* What changes the mapped state of one lesson. *)
LEMMA OneMoves ==
  ASSUME NEW l \in Lessons, NEW to, StateOf(row'[l]) = to,
         \A k \in Lessons \ {l} : row'[k] = row[k]
  PROVE  /\ lifecycleState' = [lifecycleState EXCEPT ![l] = to]
         /\ lifecycleState[l] = StateOf(row[l])
BY DEF lifecycleState

LEMMA OneCounts ==
  ASSUME NEW l \in Lessons, \A k \in Lessons \ {l} : row'[k] = row[k]
  PROVE  /\ lifecycleAttempt' = [lifecycleAttempt EXCEPT ![l] = row'[l].attempt]
         /\ lifecycleAttempt[l] = row[l].attempt
         /\ row'[l].attempt = row[l].attempt => lifecycleAttempt' = lifecycleAttempt
BY DEF lifecycleAttempt

(* No call is under way for a lesson whose attempt is finished, *)
LEMMA NobodyCalls ==
  ASSUME Safe, NEW l \in Lessons, ~Unfinished(row[l])
  PROVE  lifecycleCalling[l] = FALSE
<1>1. ~Calling(l)
  BY DEF Safe, HoldersOwnTheirRow, Owns, Calling, Holding, TryLabels
<1> QED BY <1>1 DEF lifecycleCalling

(* and a worker that holds a lesson is the only one that may be in a call    *)
(* for it.                                                                   *)
LEMMA NobodyElseCalls ==
  ASSUME Safe, NEW w \in Workers, pc[w] \in Holding, NEW v \in Workers \ {w},
         pc[v] = "provider"
  PROVE  claim[v].lesson # claim[w].lesson
<1> SUFFICES ASSUME claim[v].lesson = claim[w].lesson PROVE FALSE
  OBVIOUS
<1>1. pc[v] \in Holding
  BY DEF Holding, TryLabels
<1>2. claim[v].token # claim[w].token
  BY <1>1, HoldersAreBusy DEF Safe, ClaimsDiffer
<1>3. /\ Matches(row[claim[v].lesson], claim[v])
      /\ Matches(row[claim[w].lesson], claim[w])
  BY <1>1 DEF Safe, HoldersOwnTheirRow, Owns
<1> QED BY <1>2, <1>3 DEF Matches

(* Attempts that end together are closed together. *)
LEMMA ClosePromised ==
  ASSUME TypeOK, NEW S \in SUBSET Lessons, NEW status \in Closed, NEW q \in BOOLEAN,
         EndAll(S, status, q), \A l \in S : row[l].status \in Open,
         lifecycleCalling' = lifecycleCalling
  PROVE  Promise!Next
<1>1. status \in Terminal
  BY DEF Terminal
<1>2. \A l \in Lessons : row'[l] = IF l \in S THEN Ended(row[l], status, q) ELSE row[l]
  BY DEF EndAll
<1>3. \A l \in Lessons : row[l] \in Row
  BY DEF TypeOK
<1>4. \A l \in S : row'[l].status = status /\ row'[l].attempt = row[l].attempt
  BY <1>1, <1>2, <1>3, EndedType
<1>5. \A l \in S : StateOf(row'[l]) = "closed" /\ StateOf(row[l]) \in {"queued", "running"}
  BY <1>4, StatesOfRows DEF Open
<1>6. lifecycleState' = [l \in Lessons |-> IF l \in S THEN "closed" ELSE lifecycleState[l]]
  BY <1>2, <1>5 DEF lifecycleState
<1>7. lifecycleAttempt' = lifecycleAttempt
  BY <1>2, <1>4 DEF lifecycleAttempt
<1>8. \A l \in S : lifecycleState[l] \in {"queued", "running"}
  BY <1>5 DEF lifecycleState
<1>9. Promise!Close(S)
  BY <1>6, <1>7, <1>8 DEF Promise!Close
<1> QED BY <1>9 DEF Promise!Next

Promised == Promise!Next \/ UNCHANGED Promise!lifecycle

LEMMA StutterPromised ==
  ASSUME lifecycleState' = lifecycleState, lifecycleAttempt' = lifecycleAttempt,
         lifecycleCalling' = lifecycleCalling
  PROVE  Promised
BY DEF Promised, Promise!lifecycle

LEMMA TeacherPromised ==
  ASSUME Safe, RecordsAreSound, Teacher
  PROVE  Promised
<1> USE DEF workerVars, rowVars
<1>0. TypeOK /\ \A l \in Lessons : row[l] \in Row /\ Sound(row[l])
  BY DEF Safe, TypeOK, RecordsAreSound
<1>1. ASSUME NEW l \in Lessons, Create(l)
      PROVE  Promised
  <2>1. row' = [row EXCEPT ![l] = NewRow] /\ row[l].status = "absent"
    BY <1>1 DEF Create, Exists
  <2>2. row'[l] = NewRow /\ \A k \in Lessons \ {l} : row'[k] = row[k]
    BY <1>0, <2>1 DEF TypeOK
  <2>3. /\ lifecycleState' = [lifecycleState EXCEPT ![l] = "queued"]
        /\ lifecycleState[l] = "absent"
    BY <2>1, <2>2, OneMoves, NoRowMapped, StatesOfRows
  <2>4. lifecycleAttempt' = [lifecycleAttempt EXCEPT ![l] = 1]
    BY <2>2, OneCounts, NewRowType
  <2>5. lifecycleCalling' = lifecycleCalling
    BY <1>1, CallsStutter DEF Create
  <2>6. Promise!Create(l)
    BY <2>3, <2>4, <2>5 DEF Promise!Create, Promise!Move
  <2> QED BY <2>6 DEF Promise!Next, Promised
<1>2. ASSUME NEW l \in Lessons, Delete(l)
      PROVE  Promised
  <2>1. /\ row' = [row EXCEPT ![l] = NoRow] /\ row[l].status \in Terminal
        /\ ~Unfinished(row[l])
    BY <1>2 DEF Delete, MayDelete, Unfinished, Terminal, Closed
  <2>2. row'[l] = NoRow /\ \A k \in Lessons \ {l} : row'[k] = row[k]
    BY <1>0, <2>1 DEF TypeOK
  <2>3. StateOf(row[l]) \in {"published", "closed"}
    BY <2>1, StatesOfRows DEF Terminal
  <2>4. /\ lifecycleState' = [lifecycleState EXCEPT ![l] = "absent"]
        /\ lifecycleState[l] \in {"published", "closed"}
    BY <2>2, <2>3, OneMoves, NoRowMapped
  <2>5. lifecycleAttempt' = [lifecycleAttempt EXCEPT ![l] = 0]
    BY <2>2, OneCounts, NoRowMapped
  <2>6. lifecycleCalling' = lifecycleCalling
    BY <1>2, CallsStutter DEF Delete
  <2>7. ~lifecycleCalling[l]
    BY <2>1, NobodyCalls
  <2>8. Promise!Remove(l)
    BY <2>4, <2>5, <2>6, <2>7 DEF Promise!Remove, Promise!Move
  <2> QED BY <2>8 DEF Promise!Next, Promised
<1>3. ASSUME NEW c \in Clients, NEW l \in Lessons, Refresh(c, l)
      PROVE  Promised
  BY <1>3, RowsStutter, CallsStutter, StutterPromised DEF Refresh
<1>4. ASSUME NEW c \in Clients, NEW l \in Lessons, Cancel(c, l)
      PROVE  Promised
  <2> DEFINE q == row[l].status = "draft" \/ row[l].token = NoToken
  <2>1. q \in BOOLEAN /\ "cancelled" \in Closed /\ {l} \in SUBSET Lessons
    BY DEF Closed
  <2>2. EndAll({l}, "cancelled", q) /\ \A k \in {l} : row[k].status \in Open
    BY <1>4 DEF Cancel, Open
  <2>3. lifecycleCalling' = lifecycleCalling
    BY <1>4, CallsStutter DEF Cancel
  <2> HIDE DEF q
  <2> QED BY <1>0, <2>1, <2>2, <2>3, ClosePromised DEF Promised
<1>5. ASSUME NEW c \in Clients, NEW l \in Lessons, Retry(c, l)
      PROVE  Promised
  <2>1. /\ row' = [row EXCEPT ![l] = Requeued(row[l], view[c].revision)]
        /\ view[c].revision = row[l].revision
        /\ row[l].status \in Closed /\ ~Unfinished(row[l])
    BY <1>5 DEF Retry, MayRetry, ExpectedRevision, Unfinished, Closed
  <2>2. /\ row'[l] = Requeued(row[l], row[l].revision)
        /\ \A k \in Lessons \ {l} : row'[k] = row[k]
    BY <1>0, <2>1 DEF TypeOK
  <2>3. row[l] \in Row /\ row[l].revision \in Nat /\ row[l].attempt \in Nat
    BY <1>0, RowFields
  <2>4. row'[l].status = "draft" /\ row'[l].attempt = row[l].attempt + 1
    BY <2>1, <2>2, <2>3, RequeuedType
  <2>5. /\ lifecycleState' = [lifecycleState EXCEPT ![l] = "queued"]
        /\ lifecycleState[l] = "closed"
    BY <2>1, <2>2, <2>4, OneMoves, StatesOfRows
  <2>6. /\ lifecycleAttempt' = [lifecycleAttempt EXCEPT ![l] = row[l].attempt + 1]
        /\ lifecycleAttempt[l] = row[l].attempt
    BY <2>2, <2>4, OneCounts
  <2>7. lifecycleCalling' = lifecycleCalling
    BY <1>5, CallsStutter DEF Retry
  <2>8. ~lifecycleCalling[l]
    BY <2>1, NobodyCalls
  <2>9. Promise!Reopen(l)
    BY <2>5, <2>6, <2>7, <2>8 DEF Promise!Reopen, Promise!Move
  <2> QED BY <2>9 DEF Promise!Next, Promised
<1> QED BY <1>1, <1>2, <1>3, <1>4, <1>5 DEF Teacher

LEMMA EnvironmentPromised ==
  ASSUME Safe, RecordsAreSound,
         \/ \E l \in Lessons : BecomeOverdue(l)
         \/ Sweep \/ CloseAdmission \/ FailQueued \/ Crash \/ Startup
  PROVE  Promised
<1> USE DEF workerVars, rowVars
<1>1. TypeOK /\ \A l \in Lessons : row[l] \in Row
  BY DEF Safe, TypeOK
<1>2. "failed" \in Closed
  BY DEF Closed
<1>3. CASE Sweep
  <2>1. Expired \in SUBSET Lessons /\ \A l \in Expired : row[l].status \in Open
    BY DEF Expired, Having, Open
  <2>2. EndAll(Expired, "failed", FALSE) /\ lifecycleCalling' = lifecycleCalling
    BY <1>3, CallsStutter DEF Sweep
  <2> QED BY <1>1, <1>2, <2>1, <2>2, ClosePromised DEF Promised
<1>4. CASE FailQueued
  <2>1. /\ Having("draft") \in SUBSET Lessons
        /\ \A l \in Having("draft") : row[l].status \in Open
    BY DEF Having, Open
  <2>2. EndAll(Having("draft"), "failed", TRUE) /\ lifecycleCalling' = lifecycleCalling
    BY <1>4, CallsStutter DEF FailQueued
  <2> QED BY <1>1, <1>2, <2>1, <2>2, ClosePromised DEF Promised
<1>5. CASE CloseAdmission \/ \E l \in Lessons : BecomeOverdue(l)
  BY <1>5, RowsStutter, CallsStutter, StutterPromised DEF CloseAdmission, BecomeOverdue
<1>6. CASE Crash
  <2>1. lifecycleState' = lifecycleState /\ lifecycleAttempt' = lifecycleAttempt
    BY <1>6, RowsStutter DEF Crash
  <2>2. \A l \in Lessons : Calling(l)' = FALSE
    BY <1>6 DEF Crash, Calling
  <2>3. lifecycleCalling' = [l \in Lessons |-> FALSE]
    BY <2>2 DEF lifecycleCalling
  <2>4. lifecycleCalling' = [l \in Lessons |-> lifecycleCalling[l] /\ l \notin Lessons]
    BY <2>3
  <2>5. Promise!EndCalls(Lessons)
    BY <2>1, <2>4 DEF Promise!EndCalls
  <2> QED BY <2>5 DEF Promise!Next, Promised
<1>7. CASE Startup
  <2> DEFINE S == Having("baking")
  <2>1. \A l \in Lessons : row'[l] = Recovered(row[l])
    BY <1>7 DEF Startup
  <2>2. \A l \in Lessons : /\ row'[l].attempt = row[l].attempt
                           /\ row'[l].status = IF row[l].status = "baking" THEN "failed"
                                               ELSE row[l].status
    BY <1>1, <2>1, RecoveredType
  <2>3. \A l \in Lessons : StateOf(row'[l]) = IF l \in S THEN "closed" ELSE StateOf(row[l])
    <3> SUFFICES ASSUME NEW l \in Lessons
                 PROVE  StateOf(row'[l]) = IF l \in S THEN "closed" ELSE StateOf(row[l])
      OBVIOUS
    <3>1. CASE row[l].status = "baking"
      BY <1>2, <2>2, <3>1, StatesOfRows DEF Having
    <3>2. CASE row[l].status # "baking"
      BY <2>2, <3>2 DEF Having, StateOf
    <3> QED BY <3>1, <3>2
  <2>4. \A l \in S : l \in Lessons /\ StateOf(row[l]) = "running"
    BY StatesOfRows DEF Having
  <2>5. lifecycleState' = [l \in Lessons |-> IF l \in S THEN "closed" ELSE lifecycleState[l]]
    BY <2>3 DEF lifecycleState
  <2>6. \A l \in S : lifecycleState[l] \in {"queued", "running"}
    BY <2>4 DEF lifecycleState
  <2>7. lifecycleAttempt' = lifecycleAttempt
    BY <2>2 DEF lifecycleAttempt
  <2>8. lifecycleCalling' = lifecycleCalling
    BY <1>7, CallsStutter DEF Startup
  <2>9. S \in SUBSET Lessons
    BY DEF Having
  <2> HIDE DEF S
  <2>10. Promise!Close(S)
    BY <2>5, <2>6, <2>7, <2>8 DEF Promise!Close
  <2> QED BY <2>9, <2>10 DEF Promise!Next, Promised
<1> QED BY <1>3, <1>4, <1>5, <1>6, <1>7

(* A worker's step that neither starts nor ends a call. *)
LEMMA WorkPromised ==
  ASSUME Safe, RecordsAreSound, NEW w \in Workers, Work(w) \/ StoreFails(w)
  PROVE  Promised
<1> DEFINE l == claim[w].lesson
<1> USE DEF rowVars
<1>1. /\ TypeOK /\ \A k \in Lessons : row[k] \in Row
      /\ pc[w] # "idle" => l \in Lessons
  BY DEF Safe, TypeOK, ClaimsAreReal
<1>2. ASSUME NEW m \in Lessons, Claim(w, m)
      PROVE  Promised
  <2>1. /\ row' = [row EXCEPT ![m] = Claimed(row[m], tokens + 1)]
        /\ row[m].status = "draft" /\ tokens + 1 \in Nat
    BY <1>1, <1>2 DEF Claim, TypeOK
  <2>2. row'[m] = Claimed(row[m], tokens + 1) /\ \A k \in Lessons \ {m} : row'[k] = row[k]
    BY <1>1, <2>1 DEF TypeOK
  <2>3. row'[m].status = "baking" /\ row'[m].attempt = row[m].attempt
    <3>1. row[m] \in Row
      BY <1>1
    <3> QED BY <2>2, <3>1 DEF Claimed, Row
  <2>4. /\ lifecycleState' = [lifecycleState EXCEPT ![m] = "running"]
        /\ lifecycleState[m] = "queued"
    BY <2>1, <2>2, <2>3, OneMoves, StatesOfRows
  <2>5. lifecycleAttempt' = lifecycleAttempt
    BY <2>2, <2>3, OneCounts
  <2>6. lifecycleCalling' = lifecycleCalling
    <3>1. /\ Goto(w, "check") /\ pc[w] # "provider" /\ "check" # "provider"
          /\ \A v \in Workers \ {w} : claim'[v] = claim[v]
      BY <1>1, <1>2 DEF Claim, TypeOK
    <3> QED BY <1>1, <3>1, OtherCalls
  <2>7. Promise!Start(m)
    BY <2>4, <2>5, <2>6 DEF Promise!Start, Promise!Move
  <2> QED BY <2>7 DEF Promise!Next, Promised
<1>3. ASSUME UNCHANGED row, NEW label, Goto(w, label), pc[w] # "provider", label # "provider",
             \A v \in Workers \ {w} : claim'[v] = claim[v]
      PROVE  Promised
  BY <1>1, <1>3, RowsStutter, OtherCalls, StutterPromised
<1>4. CASE CheckBeforeWork(w) \/ ConfirmAnswer(w) \/ Validate(w) \/ Handle(w)
  <2>1. /\ UNCHANGED row /\ UNCHANGED claim /\ pc[w] # "provider"
        /\ \E label : Goto(w, label) /\ label # "provider"
    BY <1>4 DEF CheckBeforeWork, ConfirmAnswer, Validate, Handle, ReadOnly
  <2> QED BY <1>3, <2>1
<1>5. ASSUME l \in Lessons, row' = [row EXCEPT ![l].leased = TRUE]
             \/ row' = [row EXCEPT ![l].quiesced = TRUE]
             \/ row' = [row EXCEPT ![l].revision = @ + 1] \/ row' = row
      PROVE  lifecycleState' = lifecycleState /\ lifecycleAttempt' = lifecycleAttempt
  <2>1. row[l] \in Row /\ \A k \in Lessons \ {l} : row'[k] = row[k]
    BY <1>1, <1>5 DEF TypeOK
  <2>2. row'[l].status = row[l].status /\ row'[l].attempt = row[l].attempt
    <3>1. CASE row' = [row EXCEPT ![l].leased = TRUE]
      BY <1>1, <1>5, <2>1, <3>1 DEF TypeOK, Row
    <3>2. CASE row' = [row EXCEPT ![l].quiesced = TRUE]
      BY <1>1, <1>5, <2>1, <3>2 DEF TypeOK, Row
    <3>3. CASE row' = [row EXCEPT ![l].revision = @ + 1]
      BY <1>1, <1>5, <2>1, <3>3 DEF TypeOK, Row
    <3>4. CASE row' = row
      BY <3>4
    <3> QED BY <1>5, <3>1, <3>2, <3>3, <3>4
  <2> QED BY <2>1, <2>2, RowsStutter
<1>6. CASE BeginProviderCall(w)
  <2>1. pc[w] = "lease" /\ pc[w] \in Holding /\ l \in Lessons
    BY <1>1, <1>6 DEF BeginProviderCall, Holding, TryLabels
  <2>2. CASE ~Current(w)
    <3>1. UNCHANGED <<row, claim>> /\ Goto(w, "back") /\ pc[w] # "provider"
      BY <1>6, <2>2 DEF BeginProviderCall
    <3> QED BY <1>3, <3>1
  <2>3. CASE Current(w)
    <3>1. /\ row' = [row EXCEPT ![l].leased = TRUE] /\ row[l].status = "baking"
          /\ claim' = [claim EXCEPT ![w].calls = @ + 1] /\ Goto(w, "provider")
      BY <1>6, <2>3 DEF BeginProviderCall, Current
    <3>2. lifecycleState' = lifecycleState /\ lifecycleAttempt' = lifecycleAttempt
      BY <1>5, <2>1, <3>1
    <3>3. lifecycleState[l] = "running"
      BY <2>1, <3>1, StatesOfRows DEF lifecycleState
    <3>4. /\ \A v \in Workers \ {w} : pc'[v] = pc[v] /\ claim'[v] = claim[v]
          /\ pc'[w] = "provider" /\ claim'[w].lesson = l
      <4>1. claim[w] \in JobRecord
        BY <1>1 DEF TypeOK
      <4> QED BY <1>1, <3>1, <4>1 DEF Goto, TypeOK, JobRecord
    <3>5. ASSUME NEW k \in Lessons, k = l
          PROVE  Calling(k)' = TRUE /\ Calling(k) = FALSE
      <4>1. Calling(k)'
        BY <3>4, <3>5 DEF Calling
      <4>2. ~Calling(k)
        BY <2>1, <3>5, NobodyElseCalls DEF Calling
      <4> QED BY <4>1, <4>2 DEF Calling
    <3>6. \A k \in Lessons \ {l} : Calling(k)' = Calling(k)
      <4> SUFFICES ASSUME NEW k \in Lessons \ {l} PROVE Calling(k)' = Calling(k)
        OBVIOUS
      <4>1. Calling(k)' <=> Calling(k)
        BY <2>1, <3>4 DEF Calling
      <4> QED BY <4>1 DEF Calling
    <3>7. /\ lifecycleCalling' = [lifecycleCalling EXCEPT ![l] = TRUE]
          /\ ~lifecycleCalling[l]
      <4>2. lifecycleCalling[l] = FALSE
        BY <2>1, <3>5 DEF lifecycleCalling
      <4>3. \A k \in Lessons : Calling(k)' = IF k = l THEN TRUE ELSE Calling(k)
        BY <3>5, <3>6
      <4>4. lifecycleCalling' = [k \in Lessons |-> IF k = l THEN TRUE ELSE Calling(k)]
        BY <4>3 DEF lifecycleCalling
      <4>6. [lifecycleCalling EXCEPT ![l] = TRUE]
              = [k \in Lessons |-> IF k = l THEN TRUE ELSE Calling(k)]
        BY <2>1 DEF lifecycleCalling
      <4> QED BY <4>2, <4>4, <4>6
    <3>8. Promise!BeginCall(l)
      BY <3>2, <3>3, <3>7 DEF Promise!BeginCall
    <3> QED BY <2>1, <3>8 DEF Promise!Next, Promised
  <2> QED BY <2>2, <2>3
<1>7. CASE ProviderReturns(w)
  <2>1. pc[w] = "provider" /\ pc[w] \in Holding /\ l \in Lessons
    BY <1>1, <1>7 DEF ProviderReturns, Holding, TryLabels
  <2>2. UNCHANGED <<row, claim>> /\ \E label : Goto(w, label) /\ label # "provider"
    BY <1>7 DEF ProviderReturns, ReadOnly
  <2>3. /\ \A v \in Workers \ {w} : pc'[v] = pc[v]
        /\ pc'[w] # "provider"
    BY <1>1, <2>2 DEF Goto, TypeOK
  <2>4. ASSUME NEW k \in Lessons, k = l
        PROVE  Calling(k)' = FALSE
    <3>1. ~Calling(k)'
      BY <2>1, <2>2, <2>3, <2>4, NobodyElseCalls DEF Calling
    <3> QED BY <3>1 DEF Calling
  <2>5. \A k \in Lessons : Calling(k)' = (Calling(k) /\ k \notin {l})
    <3> SUFFICES ASSUME NEW k \in Lessons
                 PROVE  Calling(k)' = (Calling(k) /\ k \notin {l})
      OBVIOUS
    <3>1. CASE k = l
      <4>1. Calling(k)' = FALSE
        BY <2>4, <3>1
      <4>2. (Calling(k) /\ k \notin {l}) = FALSE
        BY <3>1
      <4> QED BY <4>1, <4>2
    <3>2. CASE k # l
      <4>1. Calling(k)' <=> Calling(k)
        BY <2>2, <2>3, <3>2 DEF Calling
      <4> QED BY <3>2, <4>1 DEF Calling
    <3> QED BY <3>1, <3>2
  <2>6. lifecycleCalling' = [k \in Lessons |-> lifecycleCalling[k] /\ k \notin {l}]
    BY <2>5 DEF lifecycleCalling
  <2>7. lifecycleState' = lifecycleState /\ lifecycleAttempt' = lifecycleAttempt
    BY <2>2, RowsStutter
  <2>8. Promise!EndCalls({l})
    BY <2>6, <2>7 DEF Promise!EndCalls
  <2>9. {l} \in SUBSET Lessons
    BY <2>1
  <2> QED BY <2>8, <2>9 DEF Promise!Next, Promised
<1>8. CASE SetStep(w)
  <2>1. /\ l \in Lessons /\ pc[w] # "provider" /\ UNCHANGED claim
        /\ row' = [row EXCEPT ![l].revision = @ + 1] \/ row' = row
        /\ Goto(w, "validate") \/ Goto(w, "back")
    BY <1>1, <1>8 DEF SetStep
  <2>2. lifecycleCalling' = lifecycleCalling
    BY <1>1, <2>1, OtherCalls
  <2>3. lifecycleState' = lifecycleState /\ lifecycleAttempt' = lifecycleAttempt
    BY <1>5, <2>1
  <2> QED BY <2>2, <2>3, StutterPromised
<1>9. CASE Complete(w)
  <2>1. /\ pc[w] = "publish" /\ pc[w] \in Holding /\ l \in Lessons
        /\ EndOwn(w, "ready") /\ UNCHANGED claim /\ Goto(w, "final")
    BY <1>1, <1>9 DEF Complete, EndOwn, Holding, TryLabels
  <2>2. CASE ~Current(w)
    BY <1>3, <2>1, <2>2 DEF EndOwn
  <2>3. CASE Current(w)
    <3>1. /\ row[l].status = "baking" /\ row'[l] = Ended(row[l], "ready", TRUE)
          /\ \A k \in Lessons \ {l} : row'[k] = row[k]
      BY <2>1, <2>3 DEF EndOwn, EndAll, Current
    <3>2. row'[l].status = "ready" /\ row'[l].attempt = row[l].attempt
      <4>1. row[l] \in Row /\ "ready" \in Terminal
        BY <1>1, <2>1 DEF Terminal
      <4> QED BY <3>1, <4>1 DEF Ended, Row
    <3>3. /\ lifecycleState' = [lifecycleState EXCEPT ![l] = "published"]
          /\ lifecycleState[l] = "running"
      BY <2>1, <3>1, <3>2, OneMoves, StatesOfRows
    <3>4. lifecycleAttempt' = lifecycleAttempt
      BY <2>1, <3>1, <3>2, OneCounts
    <3>5. lifecycleCalling' = lifecycleCalling
      BY <1>1, <2>1, OtherCalls
    <3>6. ~lifecycleCalling[l]
      <4>1. \A v \in Workers \ {w} : pc[v] = "provider" => claim[v].lesson # l
        BY <2>1, NobodyElseCalls
      <4>2. ~Calling(l)
        BY <2>1, <4>1 DEF Calling
      <4> QED BY <2>1, <4>2 DEF lifecycleCalling
    <3>7. Promise!Publish(l)
      BY <3>3, <3>4, <3>5, <3>6 DEF Promise!Publish, Promise!Move
    <3> QED BY <2>1, <3>7 DEF Promise!Next, Promised
  <2> QED BY <2>2, <2>3
<1>10. CASE Fail(w)
  <2>1. /\ pc[w] = "failing" /\ l \in Lessons
        /\ EndOwn(w, "failed") /\ UNCHANGED claim /\ Goto(w, "final")
    BY <1>1, <1>10 DEF Fail, EndOwn
  <2>2. CASE ~Current(w)
    BY <1>3, <2>1, <2>2 DEF EndOwn
  <2>3. CASE Current(w)
    <3>1. /\ EndAll({l}, "failed", TRUE) /\ {l} \in SUBSET Lessons
          /\ \A k \in {l} : row[k].status \in Open
      BY <2>1, <2>3 DEF EndOwn, Current, Open
    <3>2. lifecycleCalling' = lifecycleCalling
      BY <1>1, <2>1, OtherCalls
    <3>3. "failed" \in Closed
      BY DEF Closed
    <3> QED BY <1>1, <3>1, <3>2, <3>3, ClosePromised DEF Promised
  <2> QED BY <2>2, <2>3
<1>11. CASE GiveUp(w) \/ Finish(w)
  <2>1. /\ l \in Lessons /\ pc[w] # "provider"
        /\ row' = [row EXCEPT ![l].quiesced = TRUE] \/ row' = row
        /\ Goto(w, "final") \/ Goto(w, "idle")
        /\ \A v \in Workers \ {w} : claim'[v] = claim[v]
    BY <1>1, <1>11 DEF GiveUp, Finish, Acknowledge, TypeOK
  <2>2. lifecycleCalling' = lifecycleCalling
    BY <1>1, <2>1, OtherCalls
  <2>3. lifecycleState' = lifecycleState /\ lifecycleAttempt' = lifecycleAttempt
    BY <1>5, <2>1
  <2> QED BY <2>2, <2>3, StutterPromised
<1>12. CASE StoreFails(w)
  <2>1. /\ UNCHANGED row /\ pc[w] # "provider" /\ Goto(w, Landing(pc[w]))
        /\ \A v \in Workers \ {w} : claim'[v] = claim[v]
    BY <1>1, <1>12 DEF StoreFails, TypeOK
  <2>2. Landing(pc[w]) # "provider"
    BY DEF Landing
  <2> QED BY <1>3, <2>1, <2>2
<1> QED BY <1>2, <1>4, <1>6, <1>7, <1>8, <1>9, <1>10, <1>11, <1>12 DEF Work

(* The job store and the pool keep the promise of LessonLifecycle, with any  *)
(* number of lessons, workers, attempts, crashes and refused store accesses. *)
THEOREM PromiseKept == Spec => ImplementsLifecycle
<1>1. Safe /\ RecordsAreSound /\ [Next]_vars => [Promise!Next]_Promise!lifecycle
  <2> SUFFICES ASSUME Safe, RecordsAreSound, [Next]_vars PROVE Promised
    BY DEF Promised
  <2>1. CASE Next
    BY <2>1, TeacherPromised, WorkPromised, EnvironmentPromised DEF Next
  <2>2. CASE UNCHANGED vars
    BY <2>2, RowsStutter, CallsStutter, StutterPromised DEF vars, rowVars, workerVars
  <2> QED BY <2>1, <2>2
<1> QED BY <1>1, PromisedInit, SafeInvariant, RecordsInvariant, PTL
        DEF Spec, ImplementsLifecycle, Promise!Spec
=============================================================================
