------------------------------ MODULE BakeJobs ------------------------------
(***************************************************************************)
(* The life of a lesson job: the rows of lesson_jobs (api/store.py), the   *)
(* worker pool and the timeout watchdog (api/runner.py), the teacher's     *)
(* requests, and the crash and restart of the one API process.             *)
(*                                                                         *)
(* Every store method is one BEGIN IMMEDIATE transaction, so it is one     *)
(* atomic step here. A worker is not atomic: it reads the row, calls the   *)
(* provider and writes the row in separate steps, one pc label per store   *)
(* access, and anything may happen in between.                             *)
(*                                                                         *)
(* Abstractions. Wall-clock time is the set of overdue rows (started_at    *)
(* before the sweep's cutoff); the order of (created_at, id) is the        *)
(* relation `before'; the lesson document, the steps shown to the teacher  *)
(* and the failure codes are left out. Two reads of the same row with no   *)
(* write between them by the same worker are one read.                     *)
(***************************************************************************)
EXTENDS Naturals, Sequences

CONSTANTS
  Lessons,      (* lesson keys: one (teacher_id, id) pair each              *)
  Workers,      (* the threads of the bake pool                             *)
  Clients,      (* browser tabs, each with its last (perhaps stale) read    *)
  NoLesson,     (* no lesson: what an idle worker and a fresh tab hold      *)
  MaxAttempt,   (* bound: attempts of one lesson                            *)
  MaxBorn,      (* bound: times one lesson key is created                   *)
  MaxCrashes,   (* bound: process crashes                                   *)
  MaxFaults     (* bound: store accesses of a worker that SQLite refuses    *)

ASSUME NoLessonAssumption == NoLesson \notin Lessons
ASSUME BoundsAssumption ==
  /\ MaxAttempt \in Nat
  /\ MaxBorn \in Nat
  /\ MaxCrashes \in Nat
  /\ MaxFaults \in Nat

VARIABLES
  row,        (* the lesson_jobs rows                                       *)
  before,     (* <<k, l>>: row k has the earlier (created_at, id)           *)
  overdue,    (* the baking rows whose started_at is before the cutoff      *)
  born,       (* how often each key was created (no column: for properties) *)
  up,         (* is the API process running?                                *)
  admission,  (* may workers claim: "open", "closed", or "paused" (no generation) *)
  pc,         (* where each worker stands in _work and _run_job             *)
  claim,      (* the JobRecord each worker was given when it claimed        *)
  view,       (* each tab's last answer of GET status                       *)
  tokens,     (* attempt tokens issued so far: uuid4 never repeats          *)
  crashes,
  faults

rowVars == <<row, before, overdue, born>>
processVars == <<up, admission, crashes>>
workerVars == <<pc, claim, tokens, faults>>
vars == <<rowVars, processVars, workerVars, view>>
-----------------------------------------------------------------------------
(* Rows. *)

Statuses == {"absent", "draft", "baking", "ready", "failed", "cancelled"}
Closed == {"failed", "cancelled"}
Terminal == Closed \cup {"ready"}
NoToken == 0
NoRevision == 0

Disposition == [attempt : Nat, status : Terminal, retried : Nat]

Row == [status : Statuses, revision : Nat, attempt : Nat, token : Nat,
        leased : BOOLEAN,          (* provider_started_at IS NOT NULL  *)
        quiesced : BOOLEAN,        (* attempt_quiesced_at IS NOT NULL  *)
        history : Seq(Disposition),
        retryRevision : Nat]       (* retry_requested_revision         *)

NoRow == [status |-> "absent", revision |-> NoRevision, attempt |-> 0,
          token |-> NoToken, leased |-> FALSE, quiesced |-> FALSE,
          history |-> <<>>, retryRevision |-> NoRevision]

NewRow == [NoRow EXCEPT !.status = "draft", !.revision = 1, !.attempt = 1]

Exists(l) == row[l].status # "absent"
Having(s) == {l \in Lessons : row[l].status = s}

(* Definitions named X_<fault> are seeded faults: each is X with one mistake, *)
(* kept to show that the property named in PROJECT.json notices it.          *)

Archive_Twice(r, status, retried) ==
  Append(r.history, [attempt |-> r.attempt, status |-> status, retried |-> retried])

Archive_NeverRetried(r, status, retried) ==
  IF \E i \in DOMAIN r.history : r.history[i].attempt = r.attempt
  THEN r.history
  ELSE Append(r.history,
              [attempt |-> r.attempt, status |-> status, retried |-> retried])

(* The history with the current attempt's disposition appended exactly once; *)
(* an entry that is already there only learns which revision retried it.     *)
Archive(r, status, retried) ==
  LET mine == {i \in DOMAIN r.history : r.history[i].attempt = r.attempt}
  IN  IF mine = {}
      THEN Append(r.history,
                  [attempt |-> r.attempt, status |-> status, retried |-> retried])
      ELSE [i \in DOMAIN r.history |->
              IF i \in mine /\ retried # NoRevision
              THEN [r.history[i] EXCEPT !.retried = retried]
              ELSE r.history[i]]

(* The row after its attempt ended. *)
Ended(r, status, quiesced) ==
  [r EXCEPT !.status = status, !.history = Archive(r, status, NoRevision),
            !.quiesced = quiesced, !.revision = @ + 1]

(* End the attempts of all rows in S in one transaction. *)
EndAll(S, status, quiesced) ==
  /\ row' = [l \in Lessons |->
               IF l \in S THEN Ended(row[l], status, quiesced) ELSE row[l]]
  /\ overdue' = overdue \ S
  /\ UNCHANGED <<before, born>>

(* is_current_attempt: may this exact claim still write? *)
Matches(r, c) == r.attempt = c.attempt /\ r.token = c.token
Current_AnyStatus(w) == Matches(row[claim[w].lesson], claim[w])
Current(w) ==
  /\ row[claim[w].lesson].status = "baking"
  /\ Matches(row[claim[w].lesson], claim[w])

(* What a worker and a tab remember: the JobRecord, the status payload. *)
JobRecord == [lesson : Lessons \cup {NoLesson}, attempt : Nat, token : Nat, calls : Nat]
StatusPayload == [lesson : Lessons \cup {NoLesson}, born : Nat, revision : Nat,
                  status : Statuses, attempt : Nat]

NoClaim == [lesson |-> NoLesson, attempt |-> 0, token |-> NoToken, calls |-> 0]
NoView == [lesson |-> NoLesson, born |-> 0, revision |-> NoRevision,
           status |-> "absent", attempt |-> 0]
-----------------------------------------------------------------------------
(* The teacher's requests. *)

Init ==
  /\ row = [l \in Lessons |-> NoRow]
  /\ before = {}
  /\ overdue = {}
  /\ born = [l \in Lessons |-> 0]
  /\ up = TRUE
  /\ admission = "open"
  /\ pc = [w \in Workers |-> "idle"]
  /\ claim = [w \in Workers |-> NoClaim]
  /\ view = [c \in Clients |-> NoView]
  /\ tokens = 0
  /\ crashes = 0
  /\ faults = 0

(* create_or_get: an INSERT for a new key. An existing key is a replay that  *)
(* changes nothing, whether the inputs agree or not. created_at counts whole *)
(* seconds and ties are broken by id, so the new row may come before rows    *)
(* that are already there.                                                   *)
Create(l) ==
  /\ up
  /\ admission # "paused"
  /\ ~Exists(l)
  /\ born[l] < MaxBorn
  /\ row' = [row EXCEPT ![l] = NewRow]
  /\ \E older \in SUBSET {k \in Lessons : Exists(k)} :
       /\ \A p \in before : p[2] \in older => p[1] \in older
       /\ before' = before \cup (older \X {l})
                         \cup ({l} \X {k \in Lessons \ older : Exists(k)})
  /\ born' = [born EXCEPT ![l] = @ + 1]
  /\ UNCHANGED <<overdue, processVars, workerVars, view>>

(* GET status: the tab learns the row's revision and what it stands for. *)
Refresh(c, l) ==
  /\ up
  /\ Exists(l)
  /\ view' = [view EXCEPT ![c] =
                [lesson |-> l, born |-> born[l], revision |-> row[l].revision,
                 status |-> row[l].status, attempt |-> row[l].attempt]]
  /\ UNCHANGED <<rowVars, processVars, workerVars>>

(* _require_expected_revision, for a request the tab built from its last     *)
(* read, however old that read is by now.                                    *)
ExpectedRevision(c, l) ==
  /\ view[c].lesson = l
  /\ Exists(l)
  /\ view[c].revision = row[l].revision

(* cancel: terminal for a draft or baking row. Only a claimed attempt has a  *)
(* worker to wait for. A repeated cancel at the new revision is a no-op.     *)
Cancel(c, l) ==
  /\ up
  /\ ExpectedRevision(c, l)
  /\ row[l].status \in {"draft", "baking"}
  /\ EndAll({l}, "cancelled", row[l].status = "draft" \/ row[l].token = NoToken)
  /\ UNCHANGED <<processVars, workerVars, view>>

(* The row that retry writes: the next attempt, archived history. *)
Requeued(r, expected) ==
  [r EXCEPT !.status = "draft", !.attempt = @ + 1, !.token = NoToken,
            !.leased = FALSE, !.quiesced = FALSE,
            !.history = Archive(r, r.status, expected),
            !.retryRevision = expected, !.revision = @ + 1]

(* retry replays the request that already queued this attempt. *)
IsReplay(r, expected) == r.retryRevision = expected /\ r.attempt > 1

MayRetry_NotQuiet(r) == r.status \in Closed
MayRetry(r) == r.status \in Closed /\ r.quiesced

(* retry: a failed or cancelled row, once its last attempt is quiescent. *)
Retry(c, l) ==
  /\ up
  /\ admission # "paused"
  /\ Exists(l)
  /\ ~IsReplay(row[l], view[c].revision)
  /\ ExpectedRevision(c, l)
  /\ MayRetry(row[l])
  /\ row[l].attempt < MaxAttempt
  /\ row' = [row EXCEPT ![l] = Requeued(row[l], view[c].revision)]
  /\ UNCHANGED <<before, overdue, born, processVars, workerVars, view>>

MayDelete(r) == r.status \in Terminal /\ r.quiesced

(* delete_lesson: an inactive row with no worker left. *)
Delete(l) ==
  /\ up
  /\ MayDelete(row[l])
  /\ row' = [row EXCEPT ![l] = NoRow]
  /\ before' = {p \in before : l \notin {p[1], p[2]}}
  /\ UNCHANGED <<overdue, born, processVars, workerVars, view>>

Teacher ==
  \/ \E l \in Lessons : Create(l) \/ Delete(l)
  \/ \E c \in Clients, l \in Lessons : Refresh(c, l) \/ Cancel(c, l) \/ Retry(c, l)
-----------------------------------------------------------------------------
(* The workers. *)

(* The labels a worker may be at while it holds a claim, in the order of     *)
(* _run_job: "back" and "quit" acknowledge a lost attempt from the body and  *)
(* from an exception handler, "final" is the finally clause.                 *)
TryLabels == {"check", "lease", "provider", "confirm", "step", "validate",
              "publish", "back"}
HandlerLabels == {"handler", "failing", "quit"}
Holding == TryLabels \cup HandlerLabels
Labels == Holding \cup {"final", "idle"}

Goto(w, label) == pc' = [pc EXCEPT ![w] = label]

(* A step that only reads the row of worker w, or no row at all. *)
ReadOnly == UNCHANGED <<rowVars, processVars, claim, tokens, faults, view>>

(* The row that claim_next_draft writes. *)
Claimed(r, token) ==
  [r EXCEPT !.status = "baking", !.token = token, !.leased = FALSE,
            !.quiesced = FALSE, !.revision = @ + 1]

(* claim_next_draft, under the claim lock: the oldest draft gets a token. *)
Claim(w, l) ==
  /\ up
  /\ admission = "open"
  /\ pc[w] = "idle"
  /\ row[l].status = "draft"
  /\ \A k \in Having("draft") : <<k, l>> \notin before
  /\ row' = [row EXCEPT ![l] = Claimed(row[l], tokens + 1)]
  /\ overdue' = overdue \ {l}
  /\ tokens' = tokens + 1
  /\ claim' = [claim EXCEPT ![w] = [lesson |-> l, attempt |-> row[l].attempt,
                                    token |-> tokens + 1, calls |-> 0]]
  /\ Goto(w, "check")
  /\ UNCHANGED <<before, born, processVars, faults, view>>

(* The check before any provider work. *)
CheckBeforeWork(w) ==
  /\ pc[w] = "check"
  /\ Goto(w, IF Current(w) THEN "lease" ELSE "back")
  /\ ReadOnly

(* begin_provider_call: lease the call and make it, or learn that the        *)
(* attempt is over. At most two calls are made.                              *)
BeginProviderCall(w) ==
  /\ pc[w] = "lease"
  /\ IF Current(w)
     THEN /\ row' = [row EXCEPT ![claim[w].lesson].leased = TRUE]
          /\ claim' = [claim EXCEPT ![w].calls = @ + 1]
          /\ Goto(w, "provider")
     ELSE /\ Goto(w, "back")
          /\ UNCHANGED <<row, claim>>
  /\ UNCHANGED <<before, overdue, born, processVars, tokens, faults, view>>

(* The provider answers, is unavailable (one more try), or fails the bake. *)
ProviderReturns(w) ==
  /\ pc[w] = "provider"
  /\ \/ Goto(w, "confirm")
     \/ claim[w].calls < 2 /\ Goto(w, "lease")
     \/ Goto(w, "handler")
  /\ ReadOnly

(* The checks between the provider's answer and the first write. *)
ConfirmAnswer(w) ==
  /\ pc[w] = "confirm"
  /\ Goto(w, IF Current(w) THEN "step" ELSE "back")
  /\ ReadOnly

(* set_step: a visible transition of a current attempt. *)
SetStep(w) ==
  /\ pc[w] = "step"
  /\ IF Current(w)
     THEN /\ row' = [row EXCEPT ![claim[w].lesson].revision = @ + 1]
          /\ Goto(w, "validate")
     ELSE Goto(w, "back") /\ UNCHANGED row
  /\ UNCHANGED <<before, overdue, born, processVars, claim, tokens, faults, view>>

(* Materialize and validate the lesson, then check once more. *)
Validate(w) ==
  /\ pc[w] = "validate"
  /\ \/ Goto(w, "handler")
     \/ Goto(w, IF Current(w) THEN "publish" ELSE "back")
  /\ ReadOnly

(* A terminal write of the worker: only a current attempt is changed. *)
EndOwn(w, status) ==
  /\ IF Current(w)
     THEN EndAll({claim[w].lesson}, status, TRUE)
     ELSE UNCHANGED rowVars
  /\ Goto(w, "final")
  /\ UNCHANGED <<processVars, claim, tokens, faults, view>>

(* complete *)
Complete(w) == pc[w] = "publish" /\ EndOwn(w, "ready")

(* The exception handlers: a failure is recorded for a current attempt. *)
Handle(w) ==
  /\ pc[w] = "handler"
  /\ Goto(w, IF Current(w) THEN "failing" ELSE "quit")
  /\ ReadOnly

(* fail *)
Fail(w) == pc[w] = "failing" /\ EndOwn(w, "failed")

Acknowledge_OnlyCancelled(w) ==
  LET l == claim[w].lesson
  IN  IF row[l].status = "cancelled" /\ Matches(row[l], claim[w])
      THEN row' = [row EXCEPT ![l].quiesced = TRUE]
      ELSE UNCHANGED row

(* acknowledge_attempt_quiescence: only a closed row of this exact attempt. *)
Acknowledge(w) ==
  LET l == claim[w].lesson
  IN  IF row[l].status \in Closed /\ Matches(row[l], claim[w])
      THEN row' = [row EXCEPT ![l].quiesced = TRUE]
      ELSE UNCHANGED row

(* The attempt is over: acknowledge, and return. *)
GiveUp(w) ==
  /\ pc[w] \in {"back", "quit"}
  /\ Acknowledge(w)
  /\ Goto(w, "final")
  /\ UNCHANGED <<before, overdue, born, processVars, claim, tokens, faults, view>>

(* The finally clause acknowledges once more, then the thread is free. *)
Finish(w) ==
  /\ pc[w] = "final"
  /\ Acknowledge(w)
  /\ Goto(w, "idle")
  /\ claim' = [claim EXCEPT ![w] = NoClaim]
  /\ UNCHANGED <<before, overdue, born, processVars, tokens, faults, view>>

(* Where PersistenceUnavailable lands: the body's `except Exception', a      *)
(* handler's or the finally clause's caller.                                 *)
Landing(label) ==
  IF label \in TryLabels THEN "handler"
  ELSE IF label \in HandlerLabels THEN "final" ELSE "idle"

(* SQLite refuses one store access of a worker: nothing is written. *)
StoreFails(w) ==
  /\ faults < MaxFaults
  /\ pc[w] \in (Holding \cup {"final"}) \ {"provider"}
  /\ faults' = faults + 1
  /\ Goto(w, Landing(pc[w]))
  /\ claim' = [claim EXCEPT ![w] = IF pc[w] = "final" THEN NoClaim ELSE @]
  /\ UNCHANGED <<rowVars, processVars, tokens, view>>

Work(w) ==
  \/ \E l \in Lessons : Claim(w, l)
  \/ CheckBeforeWork(w) \/ BeginProviderCall(w) \/ ProviderReturns(w)
  \/ ConfirmAnswer(w) \/ SetStep(w) \/ Validate(w) \/ Complete(w)
  \/ Handle(w) \/ Fail(w) \/ GiveUp(w) \/ Finish(w)
-----------------------------------------------------------------------------
(* The watchdog, a closed pool, and the process. *)

(* Time passes: the row's claim is older than the hard timeout. *)
BecomeOverdue(l) ==
  /\ row[l].status = "baking"
  /\ l \notin overdue
  /\ overdue' = overdue \cup {l}
  /\ UNCHANGED <<row, before, born, processVars, workerVars, view>>

Expired_BeforeLease == {l \in Having("baking") \cap overdue : ~row[l].leased}
Expired == Having("baking") \cap overdue

(* sweep_expired_bakes: fail every overdue row; its worker may still run. *)
Sweep ==
  /\ up
  /\ Expired # {}
  /\ EndAll(Expired, "failed", FALSE)
  /\ UNCHANGED <<processVars, workerVars, view>>

(* stop, or quarantine when the threads cannot start: no draft is claimed    *)
(* any more. Either way the process is about to exit, so the bound on        *)
(* crashes must leave it that exit.                                          *)
CloseAdmission ==
  /\ up
  /\ admission = "open"
  /\ crashes < MaxCrashes
  /\ admission' = "closed"
  /\ UNCHANGED <<rowVars, up, crashes, workerVars, view>>

(* fail_queued_drafts, by quarantine or by a route whose submit was refused: *)
(* a pool that claims nothing fails what is queued.                          *)
FailQueued ==
  /\ up
  /\ admission = "closed"
  /\ Having("draft") # {}
  /\ EndAll(Having("draft"), "failed", TRUE)
  /\ UNCHANGED <<processVars, workerVars, view>>

(* The process dies at any point and takes its threads with it. *)
Crash ==
  /\ up
  /\ crashes < MaxCrashes
  /\ up' = FALSE
  /\ crashes' = crashes + 1
  /\ pc' = [w \in Workers |-> "idle"]
  /\ claim' = [w \in Workers |-> NoClaim]
  /\ UNCHANGED <<rowVars, admission, tokens, faults, view>>

(* The row after recover_baking_jobs. *)
Recovered(r) ==
  IF r.status = "baking" THEN Ended(r, "failed", TRUE)
  ELSE IF r.status \in Closed THEN [r EXCEPT !.quiesced = TRUE] ELSE r

Startup_StaysClosed ==
  /\ ~up
  /\ row' = [l \in Lessons |-> Recovered(row[l])]
  /\ overdue' = {}
  /\ up' = TRUE
  /\ UNCHANGED <<before, born, admission, crashes, workerVars, view>>

(* lifespan: recover the rows, then start the pool: admission is open, or    *)
(* paused for the life of this process when generation is disabled.          *)
Startup ==
  /\ ~up
  /\ row' = [l \in Lessons |-> Recovered(row[l])]
  /\ overdue' = {}
  /\ up' = TRUE
  /\ \/ admission' = "open"
     \/ crashes < MaxCrashes /\ admission' = "paused"
  /\ UNCHANGED <<before, born, crashes, workerVars, view>>

Next ==
  \/ Teacher
  \/ \E w \in Workers : Work(w) \/ StoreFails(w)
  \/ \E l \in Lessons : BecomeOverdue(l)
  \/ Sweep \/ CloseAdmission \/ FailQueued \/ Crash \/ Startup

Spec == Init /\ [][Next]_vars

(* The code's scheduling: worker threads run, and a provider call returns    *)
(* because every transport has a timeout; the clock and the watchdog go on;  *)
(* a process whose pool is closed is stopping and exits, a pause ends with a *)
(* restart, and systemd (on a failure) or the operator starts the next       *)
(* process. Nothing makes a refused request come: FailQueued has no fairness.*)
Exit == admission # "open" /\ Crash

Fairness ==
  /\ \A w \in Workers : WF_vars(Work(w))
  /\ \A l \in Lessons : WF_vars(BecomeOverdue(l))
  /\ WF_vars(Sweep)
  /\ WF_vars(Exit)
  /\ WF_vars(Startup)

FairSpec == Spec /\ Fairness
-----------------------------------------------------------------------------
(* Type correctness. *)

(* Every variable has its type; the types of rows, claims and views are the  *)
(* columns and fields of the records in the code.                            *)
TypeOK ==
  /\ row \in [Lessons -> Row]
  /\ before \in SUBSET (Lessons \X Lessons)
  /\ overdue \in SUBSET Lessons
  /\ born \in [Lessons -> Nat]
  /\ up \in BOOLEAN
  /\ admission \in {"open", "closed", "paused"}
  /\ pc \in [Workers -> Labels]
  /\ claim \in [Workers -> JobRecord]
  /\ view \in [Clients -> StatusPayload]
  /\ tokens \in Nat
  /\ crashes \in Nat
  /\ faults \in Nat

(* Safety. *)

(* Two workers never hold attempts of the same lesson: a retry waits for     *)
(* quiescence, so a new attempt never overlaps an older worker or provider   *)
(* call, whatever was cancelled, swept, deleted or created again meanwhile   *)
(* (persistence-contract.md:156-158).                                        *)
AttemptsDoNotOverlap ==
  \A v, w \in Workers :
    v # w /\ pc[v] \in Holding /\ pc[w] \in Holding => claim[v].lesson # claim[w].lesson

(* A worker that has neither published nor acknowledged still owns the row:  *)
(* the row exists, carries its attempt and token, and is baking or is closed *)
(* and waits for this worker. No other request reuses the row under it.      *)
Unfinished(r) ==
  \/ r.status = "baking"
  \/ r.status \in Closed /\ ~r.quiesced

Owns(w) ==
  /\ claim[w].lesson \in Lessons
  /\ Matches(row[claim[w].lesson], claim[w])
  /\ Unfinished(row[claim[w].lesson])

HoldersOwnTheirRow == \A w \in Workers : pc[w] \in Holding => Owns(w)

(* begin_provider_call linearizes with cancel: when a cancelled row says     *)
(* that no call was leased, no worker is past the lease for that lesson.     *)
PastTheLease == {"provider", "confirm", "step", "validate", "publish"}
LeaseIsTruthful ==
  \A w \in Workers : pc[w] \in PastTheLease => row[claim[w].lesson].leased

(* Each attempt that ended is in the history once, in order, with the way it *)
(* ended; an attempt that is still open is not (_attempt_history_json).      *)
HistoryIsExact ==
  \A l \in Lessons :
    LET r == row[l]
        ended == IF r.status \in Terminal \cup {"absent"} THEN r.attempt ELSE r.attempt - 1
    IN  /\ Len(r.history) = ended
        /\ \A i \in DOMAIN r.history : r.history[i].attempt = i
        /\ r.status \in Terminal => r.history[r.attempt].status = r.status

(* Optimistic concurrency is sound: a tab whose revision is still the row's  *)
(* revision is looking at the row's status and attempt. So no accepted       *)
(* cancel or retry acts on an attempt its sender has not seen. The promise   *)
(* ends when the key is deleted and created again: revisions restart at 1.   *)
RevisionIdentifiesState ==
  \A c \in Clients, l \in Lessons :
    ExpectedRevision(c, l) /\ view[c].born = born[l]
      => view[c].status = row[l].status /\ view[c].attempt = row[l].attempt

(* Retry requests and attempts correspond: every attempt but the first was   *)
(* queued by a request at a revision of its own, later than the one before,  *)
(* and the row remembers the last of them for replays.                       *)
OneAttemptPerRequest ==
  \A l \in Lessons :
    LET r == row[l]
        source(i) == r.history[i].retried
    IN  /\ \A i \in 1 .. r.attempt - 1 :
             /\ source(i) # NoRevision
             /\ source(i) < r.revision
             /\ \A j \in 1 .. i - 1 : source(j) < source(i)
        /\ r.attempt > 1 => r.retryRevision = source(r.attempt - 1)

(* When the API answers that the previous attempt is still finishing (a      *)
(* closed row without attempt_quiesced_at), a worker of this process really  *)
(* is on its way to acknowledge it. Promised by app.py:1463-1469; holds when *)
(* SQLite accepts every write.                                               *)
BlockedMeansWorking ==
  up => \A l \in Lessons :
          row[l].status \in Closed /\ ~row[l].quiesced
            => \E w \in Workers :
                 /\ pc[w] \in Holding \cup {"final"}
                 /\ claim[w].lesson = l
                 /\ Matches(row[l], claim[w])

(* The abstract promise, kept: see LessonLifecycle. *)
StateOf(r) ==
  CASE r.status = "draft" -> "queued"
    [] r.status = "baking" -> "running"
    [] r.status = "ready" -> "published"
    [] r.status \in Closed -> "closed"
    [] OTHER -> "absent"

Calling(l) == \E w \in Workers : pc[w] = "provider" /\ claim[w].lesson = l

lifecycleState == [l \in Lessons |-> StateOf(row[l])]
lifecycleAttempt == [l \in Lessons |-> row[l].attempt]
lifecycleCalling == [l \in Lessons |-> Calling(l)]

Promise == INSTANCE LessonLifecycle WITH
  NoAttempt <- 0, state <- lifecycleState, attempt <- lifecycleAttempt,
  calling <- lifecycleCalling

ImplementsLifecycle == Promise!Spec

(* Liveness. *)

(* A draft is not left in the queue for ever: it is claimed, cancelled, or   *)
(* failed with the rest of the queue of a closed pool, if need be by the     *)
(* next process.                                                             *)
EveryDraftIsServed == \A l \in Lessons : row[l].status = "draft" ~> row[l].status # "draft"

(* A baking row always ends: published, failed, cancelled, or swept by the   *)
(* watchdog when its worker could not write.                                 *)
EveryBakeEnds == \A l \in Lessons : row[l].status = "baking" ~> row[l].status # "baking"

(* A closed attempt becomes quiescent (or is gone), so retry and delete are  *)
(* not refused for ever, unless SQLite refused the worker's last write: then *)
(* only the next process acknowledges for it.                                *)
EveryClosedAttemptGoesQuiet ==
  \A l \in Lessons :
    row[l].status \in Closed ~> row[l].quiesced \/ ~Exists(l) \/ faults > 0
=============================================================================
