---------------------------- MODULE Regeneration ----------------------------
(***************************************************************************)
(* Replacing one block of a ready lesson by the engine, while the teacher  *)
(* goes on reviewing it: the activity_regenerations rows (api/store.py),   *)
(* the workers that generate a replacement (api/runner.py), the timeout    *)
(* sweep, and the crash and restart of the process. It composes with       *)
(* LessonReview: the document, the revision and the acknowledgements are   *)
(* the same columns, and every review request may come between two steps   *)
(* of a worker.                                                            *)
(*                                                                         *)
(* Abstractions. A block's hash is the block. Wall-clock time is the set   *)
(* of overdue jobs. The provider's one retry is part of its answer. The    *)
(* replacement has new content, the target's id and phase, and may carry a *)
(* warning; a replacement the engine gives no such slot is a failure.      *)
(***************************************************************************)
EXTENDS LessonReview

CONSTANTS
  Jobs,         (* regeneration ids chosen by the browser                   *)
  Workers,      (* the threads of the bake pool                             *)
  NoJob,        (* what an idle worker holds                                *)
  MaxAttempt,   (* bound: attempts of one job                               *)
  MaxCrashes,   (* bound: process crashes                                   *)
  MaxFaults     (* bound: store accesses of a worker that SQLite refuses    *)

ASSUME NoJobAssumption == NoJob \notin Jobs
ASSUME RegenerationBoundsAssumption ==
  MaxAttempt \in Nat /\ MaxCrashes \in Nat /\ MaxFaults \in Nat

VARIABLES
  job,        (* the activity_regenerations rows                            *)
  overdue,    (* the running jobs whose started_at is before the cutoff     *)
  up,         (* is the API process running?                                *)
  admission,  (* may workers claim: "open", "closed", or "paused" (no generation) *)
  pc,         (* where each worker stands in _run_activity_regeneration     *)
  claim,      (* the record each worker was given when it claimed           *)
  crashes,
  faults

processVars == <<up, admission, crashes>>
workerVars == <<pc, claim, faults>>
regenerationVars == <<job, overdue, processVars, workerVars>>
allVars == <<lessonVars, regenerationVars>>
-----------------------------------------------------------------------------
(* Rows. *)

Active == {"queued", "running"}
JobStatuses == Active \cup {"absent", "succeeded", "failed"}
NoBlock == [id |-> FocusId, phase |-> 1, content |-> 0, warn |-> FALSE,
            flagged |-> FALSE, edited |-> FALSE, generated |-> FALSE]
Job == [status : JobStatuses, old : Block \cup {NoBlock}, base : Nat,
        attempt : Nat, applied : Nat]
Absent == [status |-> "absent", old |-> NoBlock, base |-> NoRevision, attempt |-> 0,
           applied |-> NoRevision]

Claim == [job : Jobs \cup {NoJob}, attempt : Nat, old : Block \cup {NoBlock}]
NoClaim == [job |-> NoJob, attempt |-> 0, old |-> NoBlock]

(* A submitted job is queued, or failed at once by a closed pool. *)
Submitted == IF admission = "open" THEN "queued" ELSE "failed"

(* _regenerable_block: an unchanged block the engine generated. *)
Regenerable(id) ==
  /\ id \in Ids(doc)
  /\ LET b == doc.blocks[IndexOf(doc, id)] IN b.generated /\ ~b.edited

NoOtherActive_Unchecked(j) == TRUE

(* activity_regenerations_one_active_lesson, and the SELECT of retry *)
NoOtherActive(j) == \A k \in Jobs \ {j} : job[k].status \notin Active

SetStatus(S, status) ==
  job' = [j \in Jobs |-> IF j \in S THEN [job[j] EXCEPT !.status = status] ELSE job[j]]
-----------------------------------------------------------------------------
(* The teacher's requests. *)

Init ==
  /\ LessonInit
  /\ job = [j \in Jobs |-> Absent]
  /\ overdue = {}
  /\ up = TRUE
  /\ admission = "open"
  /\ pc = [w \in Workers |-> "idle"]
  /\ claim = [w \in Workers |-> NoClaim]
  /\ crashes = 0
  /\ faults = 0

(* A review request, as in LessonReview. *)
ReviewStep ==
  /\ up
  /\ \E t \in Tabs : Review(t)
  /\ UNCHANGED regenerationVars

(* create_or_get_activity_regeneration and its route, which holds the claim  *)
(* lock until the job is submitted. An accepted lesson is no obstacle.       *)
Create(t, j, id) ==
  /\ up
  /\ admission # "paused"
  /\ job[j].status = "absent"
  /\ UpToDate(t)
  /\ Regenerable(id)
  /\ NoOtherActive(j)
  /\ job' = [job EXCEPT ![j] =
               [status |-> Submitted, old |-> doc.blocks[IndexOf(doc, id)],
                base |-> revision, attempt |-> 1, applied |-> NoRevision]]
  /\ UNCHANGED <<lessonVars, overdue, processVars, workerVars>>

(* retry_activity_regeneration: a failed job, against the block as it is now.*)
Retry(t, j) ==
  /\ up
  /\ admission # "paused"
  /\ job[j].status = "failed"
  /\ UpToDate(t)
  /\ Regenerable(job[j].old.id)
  /\ NoOtherActive(j)
  /\ job[j].attempt < MaxAttempt
  /\ job' = [job EXCEPT ![j] =
               [status |-> Submitted, old |-> doc.blocks[IndexOf(doc, job[j].old.id)],
                base |-> revision, attempt |-> job[j].attempt + 1, applied |-> NoRevision]]
  /\ overdue' = overdue \ {j}
  /\ UNCHANGED <<lessonVars, processVars, workerVars>>

(* A replayed retry of a job that is still active changes nothing, unless    *)
(* the pool is closed: then the route fails the job as if it were new.       *)
RefusedReplay(t, j) ==
  /\ up
  /\ admission = "closed"
  /\ job[j].status \in Active
  /\ job[j].base = view[t].revision
  /\ SetStatus({j}, "failed")
  /\ UNCHANGED <<lessonVars, overdue, processVars, workerVars>>

(* delete_lesson: the jobs of the lesson go with it (ON DELETE CASCADE). *)
Delete ==
  /\ up
  /\ DeleteLesson
  /\ job' = [j \in Jobs |-> Absent]
  /\ overdue' = {}
  /\ UNCHANGED <<processVars, workerVars>>

Teacher ==
  \/ ReviewStep \/ Delete
  \/ \E t \in Tabs, j \in Jobs :
       Retry(t, j) \/ RefusedReplay(t, j) \/ \E id \in Ids(doc) : Create(t, j, id)
-----------------------------------------------------------------------------
(* The workers. *)

Goto(w, label) == pc' = [pc EXCEPT ![w] = label]

(* claim_next_activity_regeneration *)
ClaimJob(w, j) ==
  /\ up
  /\ admission = "open"
  /\ pc[w] = "idle"
  /\ job[j].status = "queued"
  /\ SetStatus({j}, "running")
  /\ overdue' = overdue \ {j}
  /\ claim' = [claim EXCEPT ![w] =
                 [job |-> j, attempt |-> job[j].attempt, old |-> job[j].old]]
  /\ Goto(w, "read")
  /\ UNCHANGED <<lessonVars, processVars, faults>>

(* The lesson, for the siblings of the block; it may have been deleted. *)
ReadLesson(w) ==
  /\ pc[w] = "read"
  /\ Goto(w, IF exists THEN "provider" ELSE "fail")
  /\ UNCHANGED <<lessonVars, job, overdue, processVars, claim, faults>>

(* The provider answers, or fails after its retry. *)
ProviderReturns(w) ==
  /\ pc[w] = "provider"
  /\ Goto(w, "complete") \/ Goto(w, "fail")
  /\ UNCHANGED <<lessonVars, job, overdue, processVars, claim, faults>>

Leave(w) ==
  /\ Goto(w, "idle")
  /\ claim' = [claim EXCEPT ![w] = NoClaim]

Untouched_Unchecked(j) == job[j].old.id \in Ids(doc)

(* The target is still what the job was asked to replace. *)
Untouched(j) ==
  /\ revision = job[j].base
  /\ job[j].old.id \in Ids(doc)
  /\ doc.blocks[IndexOf(doc, job[j].old.id)] = job[j].old

AcksAfterRegeneration(id) == acks \ {id}

ClearAcceptance ==
  /\ accepted' = FALSE
  /\ acceptedRevision' = NoRevision

Apply_SameRevision(j, replacement) ==
  /\ doc' = [doc EXCEPT !.blocks[IndexOf(doc, job[j].old.id)] = replacement,
                        !.accepted = FALSE]
  /\ acks' = AcksAfterRegeneration(job[j].old.id)
  /\ ClearAcceptance
  /\ fresh' = fresh + 1
  /\ job' = [job EXCEPT ![j].status = "succeeded", ![j].applied = revision + 1]
  /\ UNCHANGED <<exists, view, seen, revision>>

(* The replacement takes the target's place; the lesson is a draft again and *)
(* the block's acknowledgement is void.                                      *)
Apply(j, replacement) ==
  /\ doc' = [doc EXCEPT !.blocks[IndexOf(doc, job[j].old.id)] = replacement,
                        !.accepted = FALSE]
  /\ acks' = AcksAfterRegeneration(job[j].old.id)
  /\ ClearAcceptance
  /\ revision' = revision + 1
  /\ fresh' = fresh + 1
  /\ job' = [job EXCEPT ![j].status = "succeeded", ![j].applied = revision + 1]
  /\ UNCHANGED <<exists, view, seen>>

(* complete_activity_regeneration, for a job that is still running: applied, *)
(* refused because the lesson or the block changed, or, when the replacement *)
(* does not fit the slot any more, left to the handler.                      *)
CompleteRunning(w) ==
  LET j == claim[w].job
  IN  \/ /\ Untouched(j)
         /\ claim[w].old.phase = job[j].old.phase
         /\ \E warn \in BOOLEAN :
              Apply(j, [claim[w].old EXCEPT !.content = fresh, !.warn = warn, !.flagged = FALSE])
         /\ Leave(w)
      \/ /\ Untouched(j)
         /\ claim[w].old.phase # job[j].old.phase
         /\ Goto(w, "fail")
         /\ UNCHANGED <<lessonVars, job, claim>>
      \/ /\ ~Untouched(j)
         /\ SetStatus({j}, "failed")
         /\ Leave(w)
         /\ UNCHANGED lessonVars

(* A job that ended is left alone; one that is gone is an exception. *)
Complete(w) ==
  /\ pc[w] = "complete"
  /\ LET status == job[claim[w].job].status
     IN  \/ status = "running" /\ CompleteRunning(w)
         \/ status = "absent" /\ Goto(w, "fail") /\ UNCHANGED <<lessonVars, job, claim>>
         \/ status \notin {"running", "absent"} /\ Leave(w) /\ UNCHANGED <<lessonVars, job>>
  /\ UNCHANGED <<overdue, processVars, faults>>

(* fail_activity_regeneration: whatever active attempt the job is at. *)
Fail(w) ==
  LET j == claim[w].job
  IN  /\ pc[w] = "fail"
      /\ IF job[j].status \in Active THEN SetStatus({j}, "failed") ELSE UNCHANGED job
      /\ Leave(w)
      /\ UNCHANGED <<lessonVars, overdue, processVars, faults>>

(* SQLite refuses one access: the handlers record a failure, and if they are *)
(* refused too the job stays running.                                        *)
StoreFails(w) ==
  /\ faults < MaxFaults
  /\ faults' = faults + 1
  /\ \/ pc[w] \in {"read", "complete"} /\ Goto(w, "fail") /\ UNCHANGED claim
     \/ pc[w] = "fail" /\ Leave(w)
  /\ UNCHANGED <<lessonVars, job, overdue, processVars>>

Work(w) ==
  \/ \E j \in Jobs : ClaimJob(w, j)
  \/ ReadLesson(w) \/ ProviderReturns(w) \/ Complete(w) \/ Fail(w)
-----------------------------------------------------------------------------
(* The watchdog, a closed pool, and the process. *)

BecomeOverdue(j) ==
  /\ job[j].status = "running"
  /\ j \notin overdue
  /\ overdue' = overdue \cup {j}
  /\ UNCHANGED <<lessonVars, job, processVars, workerVars>>

ExpiredJobs_QueuedOnly == {j \in overdue : job[j].status = "queued"}
ExpiredJobs == {j \in overdue : job[j].status = "running"}

(* sweep_expired_activity_regenerations: the worker may still be running. *)
Sweep ==
  /\ up
  /\ ExpiredJobs # {}
  /\ SetStatus(ExpiredJobs, "failed")
  /\ overdue' = overdue \ ExpiredJobs
  /\ UNCHANGED <<lessonVars, processVars, workerVars>>

(* stop or quarantine; the process is about to exit. *)
CloseAdmission ==
  /\ up
  /\ admission = "open"
  /\ crashes < MaxCrashes
  /\ admission' = "closed"
  /\ UNCHANGED <<lessonVars, job, overdue, up, crashes, workerVars>>

(* fail_queued_activity_regenerations, by quarantine *)
FailQueued ==
  LET queued == {j \in Jobs : job[j].status = "queued"}
  IN  /\ up
      /\ admission = "closed"
      /\ queued # {}
      /\ SetStatus(queued, "failed")
      /\ UNCHANGED <<lessonVars, overdue, processVars, workerVars>>

Crash ==
  /\ up
  /\ crashes < MaxCrashes
  /\ up' = FALSE
  /\ crashes' = crashes + 1
  /\ pc' = [w \in Workers |-> "idle"]
  /\ claim' = [w \in Workers |-> NoClaim]
  /\ UNCHANGED <<lessonVars, job, overdue, admission, faults>>

(* lifespan: recover_activity_regenerations, then the pool starts. *)
Startup ==
  /\ ~up
  /\ SetStatus({j \in Jobs : job[j].status = "running"}, "failed")
  /\ overdue' = {}
  /\ up' = TRUE
  /\ \/ admission' = "open"
     \/ crashes < MaxCrashes /\ admission' = "paused"
  /\ UNCHANGED <<lessonVars, crashes, workerVars>>

Next ==
  \/ Teacher
  \/ \E w \in Workers : Work(w) \/ StoreFails(w)
  \/ \E j \in Jobs : BecomeOverdue(j)
  \/ Sweep \/ CloseAdmission \/ FailQueued \/ Crash \/ Startup

Spec == Init /\ [][Next]_allVars

Exit == admission # "open" /\ Crash

(* As in BakeJobs: threads run and provider calls return, the clock and the  *)
(* watchdog go on, a closed or paused process exits and is started again.    *)
Fairness ==
  /\ \A w \in Workers : WF_allVars(Work(w))
  /\ \A j \in Jobs : WF_allVars(BecomeOverdue(j))
  /\ WF_allVars(Sweep)
  /\ WF_allVars(Exit)
  /\ WF_allVars(Startup)

FairSpec == Spec /\ Fairness
-----------------------------------------------------------------------------
Labels == {"idle", "read", "provider", "complete", "fail"}

(* Every variable has its type. *)
TypeOK ==
  /\ ReviewTypeOK
  /\ job \in [Jobs -> Job]
  /\ overdue \subseteq Jobs
  /\ up \in BOOLEAN
  /\ admission \in {"open", "closed", "paused"}
  /\ pc \in [Workers -> Labels]
  /\ claim \in [Workers -> Claim]
  /\ crashes \in Nat
  /\ faults \in Nat

(* At most one replacement job is queued or running per lesson, through      *)
(* retries of older jobs too (openapi.yaml:812-813).                         *)
OneActiveRegeneration == Cardinality({j \in Jobs : job[j].status \in Active}) <= 1

Succeeds(j) == job[j].status = "running" /\ job'[j].status = "succeeded"

(* A replacement only ever takes the place of the very block the teacher     *)
(* asked to replace: an edit, a move or a removal made while the provider    *)
(* was working survives, and so does every other block.                      *)
TeacherEditsSurvive ==
  [][\A j \in Jobs : Succeeds(j) =>
       /\ Len(doc'.blocks) = Len(doc.blocks)
       /\ doc'.rejected = doc.rejected
       /\ \A i \in DOMAIN doc.blocks :
            doc'.blocks[i] # doc.blocks[i] => doc.blocks[i] = job[j].old]_allVars

(* Every job ends: applied, failed, or gone with its lesson. *)
EveryRegenerationEnds ==
  \A j \in Jobs : job[j].status \in Active ~> job[j].status \notin Active

(* What the sweep assumes: it fails running replacements "whose worker can   *)
(* no longer finish them" (store.py:3264), so a worker ends no attempt but   *)
(* the one it claimed.                                                       *)
SweptWorkersNeverFinish ==
  [][\A w \in Workers :
       pc[w] \in {"complete", "fail"} /\ pc'[w] = "idle" /\ up' /\ job' # job
         => job[claim[w].job].attempt = claim[w].attempt]_allVars

(* DELETE never removes a row while provider work may still be in flight     *)
(* (persistence-contract.md:150-151).                                            *)
NoCallOutlivesItsLesson == \A w \in Workers : pc[w] = "provider" => exists
=============================================================================
