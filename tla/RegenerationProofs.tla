-------------------------- MODULE RegenerationProofs --------------------------
(***************************************************************************)
(* What Regeneration promises, for every number of tabs, jobs, workers,    *)
(* crashes and faults.                                                     *)
(*                                                                         *)
(* The invariant is the one of the review (ReviewSafe) and three facts     *)
(* about the jobs. Two jobs are never active together (OneActive). A       *)
(* worker that holds a claim names a job whose slot is the one it claimed, *)
(* through any retry of that job; or the job is gone, and then the lesson  *)
(* is gone for good (ClaimsMatch). So a replacement has the id of the      *)
(* block whose acknowledgement it withdraws, and applying it is one more   *)
(* way to rewrite the document (Rewritten), as an edit is.                 *)
(***************************************************************************)
EXTENDS Regeneration, LessonReviewProofs, FiniteSetTheorems

RegenerationTypeOK ==
  /\ job \in [Jobs -> Job]
  /\ overdue \subseteq Jobs
  /\ up \in BOOLEAN
  /\ admission \in {"open", "closed", "paused"}
  /\ pc \in [Workers -> Labels]
  /\ claim \in [Workers -> Claim]
  /\ crashes \in Nat
  /\ faults \in Nat

OneActive ==
  \A j, k \in Jobs : job[j].status \in Active /\ job[k].status \in Active => j = k

ClaimsMatch ==
  \A w \in Workers : pc[w] # "idle" =>
    /\ claim[w].job \in Jobs
    /\ job[claim[w].job].status = "absent" => ~exists
    /\ job[claim[w].job].status # "absent" => job[claim[w].job].old.id = claim[w].old.id

Safe ==
  /\ ReviewSafe
  /\ RegenerationTypeOK
  /\ OneActive
  /\ ClaimsMatch
-----------------------------------------------------------------------------
(* Steps of jobs. *)

(* No job becomes active, none appears or disappears, and none changes its   *)
(* slot.                                                                     *)
Calm ==
  /\ job' \in [Jobs -> Job]
  /\ \A j \in Jobs :
       /\ job'[j].old = job[j].old
       /\ job'[j].status \in Active => job[j].status \in Active
       /\ job'[j].status = "absent" <=> job[j].status = "absent"

(* A worker keeps its claim, drops it, or takes the one of an active job. *)
ClaimsFollow ==
  \A w \in Workers : pc'[w] # "idle" =>
    \/ pc[w] # "idle" /\ claim'[w] = claim[w]
    \/ /\ claim'[w].job \in Jobs
       /\ job[claim'[w].job].status \in Active
       /\ claim'[w].old = job[claim'[w].job].old

LEMMA SetStatusIsCalm ==
  ASSUME job \in [Jobs -> Job], NEW S, NEW status \in {"running", "failed"},
         SetStatus(S, status), \A j \in S \cap Jobs : job[j].status \in Active
  PROVE  /\ Calm
         /\ \A j \in Jobs : job'[j].status = IF j \in S THEN status ELSE job[j].status
<1>1. job' = [j \in Jobs |-> IF j \in S THEN [job[j] EXCEPT !.status = status] ELSE job[j]]
  BY DEF SetStatus
<1>2. ASSUME NEW j \in Jobs
      PROVE  /\ job'[j] \in Job
             /\ job'[j].old = job[j].old
             /\ job'[j].status = IF j \in S THEN status ELSE job[j].status
  <2>1. job[j] \in Job /\ status \in JobStatuses
    BY DEF JobStatuses, Active
  <2>2. job'[j] = IF j \in S THEN [job[j] EXCEPT !.status = status] ELSE job[j]
    BY <1>1
  <2> QED BY <2>1, <2>2 DEF Job
<1>3. job' \in [Jobs -> Job]
  BY <1>1, <1>2
<1>4. \A j \in Jobs : job[j].status \in Active => job[j].status # "absent"
  BY DEF Active
<1>5. status # "absent"
  OBVIOUS
<1> QED BY <1>2, <1>3, <1>4, <1>5 DEF Calm

LEMMA SameJobsAreCalm ==
  ASSUME job \in [Jobs -> Job], UNCHANGED job
  PROVE  Calm
BY DEF Calm

LEMMA CalmStep ==
  ASSUME OneActive, ClaimsMatch, Calm, ClaimsFollow, UNCHANGED exists
  PROVE  OneActive' /\ ClaimsMatch'
<1>1. OneActive'
  BY DEF OneActive, Calm
<1>2. ClaimsMatch'
  <2> SUFFICES ASSUME NEW w \in Workers, pc'[w] # "idle"
               PROVE  /\ claim'[w].job \in Jobs
                      /\ job'[claim'[w].job].status = "absent" => ~exists'
                      /\ job'[claim'[w].job].status # "absent"
                           => job'[claim'[w].job].old.id = claim'[w].old.id
    BY DEF ClaimsMatch
  <2>1. CASE pc[w] # "idle" /\ claim'[w] = claim[w]
    BY <2>1 DEF ClaimsMatch, Calm
  <2>2. CASE /\ claim'[w].job \in Jobs
             /\ job[claim'[w].job].status \in Active
             /\ claim'[w].old = job[claim'[w].job].old
    BY <2>2 DEF Calm, Active
  <2> QED BY <2>1, <2>2 DEF ClaimsFollow
<1> QED BY <1>1, <1>2

LEMMA LeaveFollows ==
  ASSUME RegenerationTypeOK, NEW w \in Workers, Leave(w)
  PROVE  ClaimsFollow /\ pc' \in [Workers -> Labels] /\ claim' \in [Workers -> Claim]
<1>1. NoClaim \in Claim /\ "idle" \in Labels
  BY DEF NoClaim, Claim, NoBlock, Labels
<1> QED BY <1>1 DEF RegenerationTypeOK, Leave, Goto, ClaimsFollow

LEMMA GotoFollows ==
  ASSUME RegenerationTypeOK, NEW w \in Workers, NEW label \in Labels, Goto(w, label),
         pc[w] # "idle", UNCHANGED claim
  PROVE  ClaimsFollow /\ pc' \in [Workers -> Labels] /\ claim' \in [Workers -> Claim]
BY DEF RegenerationTypeOK, Goto, ClaimsFollow

LEMMA SameWorkersFollow ==
  ASSUME RegenerationTypeOK, UNCHANGED <<pc, claim>>
  PROVE  ClaimsFollow /\ pc' \in [Workers -> Labels] /\ claim' \in [Workers -> Claim]
BY DEF RegenerationTypeOK, ClaimsFollow

LEMMA SameLessonSafe ==
  ASSUME ReviewSafe, UNCHANGED lessonVars
  PROVE  ReviewSafe' /\ UNCHANGED exists
<1>1. exists' \in BOOLEAN /\ UNCHANGED <<reviewVars, view>> /\ exists' = exists
  BY DEF lessonVars, ReviewSafe, ReviewTypeOK
<1> QED BY <1>1, SameColumnsSafe

LEMMA ReviewKeepsExists ==
  ASSUME NEW t \in Tabs, ReviewSafe, Review(t)
  PROVE  exists' = exists
<1>1. CASE Edit(t)
  BY <1>1, EditRewrites DEF Rewritten
<1> QED BY <1>1 DEF Review, Show, Accept, ReturnToDraft, Acknowledge
-----------------------------------------------------------------------------
(* The initial state and the teacher's requests. *)

LEMMA InitSafe == Init => Safe
<1> SUFFICES ASSUME Init PROVE Safe
  OBVIOUS
<1>1. ReviewSafe
  BY ReviewInitSafe DEF Init
<1>2. Absent \in Job /\ NoClaim \in Claim
  BY DEF Absent, Job, JobStatuses, NoBlock, NoRevision, NoClaim, Claim
<1>3. RegenerationTypeOK
  BY <1>2 DEF Init, RegenerationTypeOK, Labels
<1>4. OneActive /\ ClaimsMatch
  BY DEF Init, OneActive, ClaimsMatch, Absent, Active
<1> QED BY <1>1, <1>3, <1>4 DEF Safe

(* The row a request submits is the only active one. *)
LEMMA SubmittedSafe ==
  ASSUME Safe, NEW j \in Jobs, NEW row \in Job, NoOtherActive(j), row.status # "absent",
         job' = [job EXCEPT ![j] = row],
         job[j].status = "absent" => exists,
         job[j].status # "absent" => row.old.id = job[j].old.id,
         UNCHANGED <<exists, pc, claim>>
  PROVE  job' \in [Jobs -> Job] /\ OneActive' /\ ClaimsMatch'
<1>1. job \in [Jobs -> Job]
  BY DEF Safe, RegenerationTypeOK
<1>2. job' \in [Jobs -> Job] /\ \A k \in Jobs : job'[k] = IF k = j THEN row ELSE job[k]
  BY <1>1
<1>3. OneActive'
  BY <1>2 DEF OneActive, NoOtherActive
<1>4. ClaimsMatch'
  <2> SUFFICES ASSUME NEW w \in Workers, pc[w] # "idle"
               PROVE  /\ claim[w].job \in Jobs
                      /\ job'[claim[w].job].status = "absent" => ~exists
                      /\ job'[claim[w].job].status # "absent"
                           => job'[claim[w].job].old.id = claim[w].old.id
    BY DEF ClaimsMatch
  <2>1. /\ claim[w].job \in Jobs
        /\ job[claim[w].job].status = "absent" => ~exists
        /\ job[claim[w].job].status # "absent" => job[claim[w].job].old.id = claim[w].old.id
    BY DEF Safe, ClaimsMatch
  <2>2. CASE claim[w].job = j
    BY <1>2, <2>1, <2>2
  <2>3. CASE claim[w].job # j
    BY <1>2, <2>1, <2>3
  <2> QED BY <2>2, <2>3
<1> QED BY <1>2, <1>3, <1>4

LEMMA RowOfBlock ==
  ASSUME ReviewSafe, NEW id \in Ids(doc), NEW n \in Nat
  PROVE  /\ [status |-> Submitted, old |-> doc.blocks[IndexOf(doc, id)],
             base |-> revision, attempt |-> n, applied |-> NoRevision] \in Job
         /\ doc.blocks[IndexOf(doc, id)].id = id
<1>1. doc.blocks[IndexOf(doc, id)] \in Block /\ doc.blocks[IndexOf(doc, id)].id = id
  BY IndexOfFinds DEF ReviewSafe, ReviewTypeOK
<1>2. Submitted \in JobStatuses /\ revision \in Nat /\ NoRevision \in Nat
  BY DEF Submitted, JobStatuses, Active, ReviewSafe, ReviewTypeOK, NoRevision
<1> QED BY <1>1, <1>2 DEF Job

LEMMA CreateSafe ==
  ASSUME Safe, NEW t \in Tabs, NEW j \in Jobs, NEW id \in Ids(doc), Create(t, j, id)
  PROVE  Safe'
<1> DEFINE row == [status |-> Submitted, old |-> doc.blocks[IndexOf(doc, id)],
                   base |-> revision, attempt |-> 1, applied |-> NoRevision]
<1>1. ReviewSafe' /\ UNCHANGED <<exists, pc, claim>>
  BY SameLessonSafe DEF Safe, Create, workerVars
<1>2. row \in Job /\ row.status # "absent"
  BY RowOfBlock DEF Safe, Submitted
<1>3. /\ job' = [job EXCEPT ![j] = row] /\ job[j].status = "absent" /\ exists /\ NoOtherActive(j)
      /\ UNCHANGED <<overdue, up, admission, crashes, pc, claim, faults>>
  BY DEF Create, UpToDate, processVars, workerVars
<1> HIDE DEF row
<1>4. job' \in [Jobs -> Job] /\ OneActive' /\ ClaimsMatch'
  BY <1>1, <1>2, <1>3, SubmittedSafe
<1>5. RegenerationTypeOK'
  BY <1>3, <1>4 DEF Safe, RegenerationTypeOK
<1> QED BY <1>1, <1>4, <1>5 DEF Safe

LEMMA RetrySafe ==
  ASSUME Safe, NEW t \in Tabs, NEW j \in Jobs, Retry(t, j)
  PROVE  Safe'
<1> DEFINE id == job[j].old.id
           row == [status |-> Submitted, old |-> doc.blocks[IndexOf(doc, id)],
                   base |-> revision, attempt |-> job[j].attempt + 1, applied |-> NoRevision]
<1>1. ReviewSafe' /\ UNCHANGED <<exists, pc, claim>>
  BY SameLessonSafe DEF Safe, Retry, workerVars
<1>2. id \in Ids(doc) /\ job[j].attempt + 1 \in Nat
  BY DEF Retry, Regenerable, Safe, RegenerationTypeOK, Job
<1>3. row \in Job /\ row.old.id = id /\ row.status # "absent"
  BY <1>2, RowOfBlock DEF Safe, Submitted
<1>4. /\ job' = [job EXCEPT ![j] = row] /\ job[j].status = "failed" /\ NoOtherActive(j)
      /\ overdue' = overdue \ {j} /\ UNCHANGED <<up, admission, crashes, pc, claim, faults>>
  BY DEF Retry, processVars, workerVars
<1> HIDE DEF row
<1>5. job' \in [Jobs -> Job] /\ OneActive' /\ ClaimsMatch'
  BY <1>1, <1>3, <1>4, SubmittedSafe
<1>6. RegenerationTypeOK'
  BY <1>4, <1>5 DEF Safe, RegenerationTypeOK
<1> QED BY <1>1, <1>5, <1>6 DEF Safe

LEMMA DeleteSafe ==
  ASSUME Safe, Delete
  PROVE  Safe'
<1>1. /\ exists' = FALSE /\ UNCHANGED <<reviewVars, view>>
      /\ job' = [j \in Jobs |-> Absent] /\ overdue' = {}
      /\ UNCHANGED <<up, admission, crashes, pc, claim, faults>>
  BY DEF Delete, DeleteLesson, processVars, workerVars
<1>2. ReviewSafe'
  BY <1>1, SameColumnsSafe DEF Safe
<1>3. Absent \in Job
  BY DEF Absent, Job, JobStatuses, NoBlock, NoRevision
<1>4. RegenerationTypeOK'
  BY <1>1, <1>3 DEF Safe, RegenerationTypeOK
<1>5. OneActive' /\ ClaimsMatch'
  BY <1>1 DEF Safe, OneActive, ClaimsMatch, Absent, Active
<1> QED BY <1>2, <1>4, <1>5 DEF Safe

(* Everything else is calm. *)
LEMMA CalmSafe ==
  ASSUME Safe, ReviewSafe', UNCHANGED exists, Calm, ClaimsFollow,
         overdue' \subseteq Jobs, up' \in BOOLEAN, admission' \in {"open", "closed", "paused"},
         pc' \in [Workers -> Labels], claim' \in [Workers -> Claim], crashes' \in Nat, faults' \in Nat
  PROVE  Safe'
<1>1. OneActive' /\ ClaimsMatch'
  BY CalmStep DEF Safe
<1>2. RegenerationTypeOK'
  BY DEF Calm, RegenerationTypeOK
<1> QED BY <1>1, <1>2 DEF Safe

LEMMA TeacherSafe ==
  ASSUME Safe, Teacher
  PROVE  Safe'
<1>1. CASE ReviewStep
  <2>1. PICK t \in Tabs : Review(t)
    BY <1>1 DEF ReviewStep
  <2>2. UNCHANGED <<job, overdue, up, admission, crashes, pc, claim, faults>>
    BY <1>1 DEF ReviewStep, regenerationVars, processVars, workerVars
  <2>3. ReviewSafe' /\ UNCHANGED exists
    BY <2>1, ReviewKeepsSafe, ReviewKeepsExists DEF Safe
  <2>4. Calm /\ ClaimsFollow
    BY <2>2, SameJobsAreCalm, SameWorkersFollow DEF Safe, RegenerationTypeOK
  <2> QED BY <2>2, <2>3, <2>4, CalmSafe DEF Safe, RegenerationTypeOK
<1>2. CASE Delete
  BY <1>2, DeleteSafe
<1>3. ASSUME NEW t \in Tabs, NEW j \in Jobs, RefusedReplay(t, j)
      PROVE  Safe'
  <2>1. /\ SetStatus({j}, "failed") /\ job[j].status \in Active /\ UNCHANGED lessonVars
        /\ UNCHANGED <<overdue, up, admission, crashes, pc, claim, faults>>
    BY <1>3 DEF RefusedReplay, processVars, workerVars
  <2>2. Calm /\ ClaimsFollow
    BY <2>1, SetStatusIsCalm, SameWorkersFollow DEF Safe, RegenerationTypeOK
  <2>3. ReviewSafe' /\ UNCHANGED exists
    BY <2>1, SameLessonSafe DEF Safe
  <2> QED BY <2>1, <2>2, <2>3, CalmSafe DEF Safe, RegenerationTypeOK
<1> QED BY <1>1, <1>2, <1>3, CreateSafe, RetrySafe DEF Teacher
-----------------------------------------------------------------------------
(* The workers. *)

(* Applying a replacement rewrites the document as an edit does: the block   *)
(* keeps its id, and its acknowledgement goes.                               *)
LEMMA ApplyRewrites ==
  ASSUME Safe, NEW w \in Workers, pc[w] # "idle", NEW warn \in BOOLEAN,
         job[claim[w].job].status = "running", Untouched(claim[w].job),
         Apply(claim[w].job,
               [claim[w].old EXCEPT !.content = fresh, !.warn = warn, !.flagged = FALSE])
  PROVE  Rewritten
<1> DEFINE j == claim[w].job
           id == job[j].old.id
           i == IndexOf(doc, id)
           new == [claim[w].old EXCEPT !.content = fresh, !.warn = warn, !.flagged = FALSE]
           newDoc == [doc EXCEPT !.blocks[i] = new, !.accepted = FALSE]
<1>1. doc \in Document /\ fresh \in Nat
  BY DEF Safe, ReviewSafe, ReviewTypeOK
<1>2. id \in Ids(doc) /\ claim[w].old.id = id
  BY DEF Untouched, Safe, ClaimsMatch
<1>3. claim[w].old \in Block
  <2>1. claim[w].old \in Block \cup {NoBlock}
    BY DEF Safe, RegenerationTypeOK, Claim
  <2>2. FocusId \notin Ids(doc)
    BY <1>1, DocumentFields DEF Ids, Block
  <2> QED BY <1>2, <2>1, <2>2 DEF NoBlock
<1>4. new \in Block /\ new.id = id
  BY <1>1, <1>2, <1>3 DEF Block
<1>5. i \in 1 .. Len(doc.blocks) /\ DOMAIN doc.blocks = 1 .. Len(doc.blocks)
      /\ doc.blocks \in Seq(Block)
  BY <1>1, <1>2, IndexOfFinds, DocumentFields
<1>6. /\ doc' = newDoc /\ acks' = acks \ {id} /\ accepted' = FALSE
      /\ acceptedRevision' = NoRevision /\ revision' = revision + 1 /\ fresh' = fresh + 1
      /\ UNCHANGED <<exists, view, seen>>
  BY DEF Apply, AcksAfterRegeneration, ClearAcceptance
<1>7. Rewrites(new, acks', fresh')
  <2>1. new.id \in Ids(doc) /\ new.id \notin acks'
    BY <1>2, <1>4, <1>6
  <2> HIDE DEF new
  <2> QED BY <2>1 DEF Rewrites
<1> HIDE DEF new, i, id, j
<1>8. [doc.blocks EXCEPT ![i] = new] \in Seq(Block)
      /\ DOMAIN [doc.blocks EXCEPT ![i] = new] = DOMAIN doc.blocks
  BY <1>4, <1>5
<1>9. newDoc \in Document /\ newDoc.accepted = FALSE
      /\ newDoc.blocks = [doc.blocks EXCEPT ![i] = new]
  BY <1>1, <1>8 DEF Document
<1>10. ASSUME NEW k \in DOMAIN newDoc.blocks
       PROVE  k \in DOMAIN doc.blocks /\ newDoc.blocks[k] = IF k = i THEN new ELSE doc.blocks[k]
  BY <1>8, <1>9
<1> HIDE DEF newDoc
<1>11. \A k \in DOMAIN newDoc.blocks : Rewrites(newDoc.blocks[k], acks', fresh')
  <2> SUFFICES ASSUME NEW k \in DOMAIN newDoc.blocks
               PROVE  Rewrites(newDoc.blocks[k], acks', fresh')
    OBVIOUS
  <2>1. CASE k = i
    BY <1>7, <1>10, <2>1
  <2>2. CASE k # i
    BY <1>10, <2>2, OldBlocksRewrite
  <2> QED BY <2>1, <2>2
<1> QED BY <1>6, <1>9, <1>11 DEF Rewritten

(* The job that was applied has ended. *)
LEMMA ApplyIsCalm ==
  ASSUME RegenerationTypeOK, ReviewSafe, NEW j \in Jobs, NEW replacement,
         job[j].status = "running", Apply(j, replacement)
  PROVE  /\ Calm
         /\ \A k \in Jobs : job'[k].status = IF k = j THEN "succeeded" ELSE job[k].status
<1>1. job \in [Jobs -> Job] /\ revision + 1 \in Nat
  BY DEF RegenerationTypeOK, ReviewSafe, ReviewTypeOK
<1>2. job' = [job EXCEPT ![j].status = "succeeded", ![j].applied = revision + 1]
  BY DEF Apply
<1>3. [job[j] EXCEPT !.status = "succeeded", !.applied = revision + 1] \in Job
  BY <1>1 DEF Job, JobStatuses
<1>4. /\ job' \in [Jobs -> Job]
      /\ \A k \in Jobs :
           job'[k] = IF k = j THEN [job[j] EXCEPT !.status = "succeeded", !.applied = revision + 1]
                              ELSE job[k]
  BY <1>1, <1>2, <1>3
<1>5. ASSUME NEW k \in Jobs
      PROVE  /\ job'[k].old = job[k].old
             /\ job'[k].status = IF k = j THEN "succeeded" ELSE job[k].status
  BY <1>1, <1>4 DEF Job
<1> QED BY <1>4, <1>5 DEF Calm, Active

LEMMA CompleteRunningSafe ==
  ASSUME Safe, NEW w \in Workers, pc[w] = "complete", CompleteRunning(w),
         job[claim[w].job].status = "running",
         UNCHANGED <<overdue, processVars, faults>>
  PROVE  Safe'
<1> DEFINE j == claim[w].job
<1>1. j \in Jobs /\ pc[w] # "idle"
  BY DEF Safe, ClaimsMatch
<1>2. UNCHANGED <<overdue, up, admission, crashes, faults>>
  BY DEF processVars
<1>3. CASE /\ Untouched(j)
           /\ \E warn \in BOOLEAN :
                Apply(j, [claim[w].old EXCEPT !.content = fresh, !.warn = warn, !.flagged = FALSE])
           /\ Leave(w)
  <2>1. Rewritten
    BY <1>1, <1>3, ApplyRewrites
  <2>2. ReviewSafe' /\ UNCHANGED exists
    BY <2>1, RewrittenSafe DEF Safe, Rewritten
  <2>3. Calm
    BY <1>1, <1>3, ApplyIsCalm DEF Safe
  <2>4. ClaimsFollow /\ pc' \in [Workers -> Labels] /\ claim' \in [Workers -> Claim]
    BY <1>3, LeaveFollows DEF Safe
  <2> QED BY <1>2, <2>2, <2>3, <2>4, CalmSafe DEF Safe, RegenerationTypeOK
<1>4. CASE Goto(w, "fail") /\ UNCHANGED <<lessonVars, job, claim>>
  <2>1. ReviewSafe' /\ UNCHANGED exists
    BY <1>4, SameLessonSafe DEF Safe
  <2>2. Calm /\ ClaimsFollow /\ pc' \in [Workers -> Labels] /\ claim' \in [Workers -> Claim]
    BY <1>1, <1>4, SameJobsAreCalm, GotoFollows DEF Safe, RegenerationTypeOK, Labels
  <2> QED BY <1>2, <2>1, <2>2, CalmSafe DEF Safe, RegenerationTypeOK
<1>5. CASE SetStatus({j}, "failed") /\ Leave(w) /\ UNCHANGED lessonVars
  <2>1. ReviewSafe' /\ UNCHANGED exists
    BY <1>5, SameLessonSafe DEF Safe
  <2>2. Calm
    BY <1>5, SetStatusIsCalm DEF Safe, RegenerationTypeOK, Active
  <2>3. ClaimsFollow /\ pc' \in [Workers -> Labels] /\ claim' \in [Workers -> Claim]
    BY <1>5, LeaveFollows DEF Safe
  <2> QED BY <1>2, <2>1, <2>2, <2>3, CalmSafe DEF Safe, RegenerationTypeOK
<1> QED BY <1>3, <1>4, <1>5 DEF CompleteRunning

LEMMA CompleteSafe ==
  ASSUME Safe, NEW w \in Workers, Complete(w)
  PROVE  Safe'
<1>1. /\ pc[w] = "complete" /\ pc[w] # "idle"
      /\ UNCHANGED <<overdue, processVars, faults>> /\ UNCHANGED <<up, admission, crashes>>
  BY DEF Complete, processVars
<1>2. CASE job[claim[w].job].status = "running" /\ CompleteRunning(w)
  BY <1>1, <1>2, CompleteRunningSafe
<1>3. CASE Goto(w, "fail") /\ UNCHANGED <<lessonVars, job, claim>>
  <2>1. ReviewSafe' /\ UNCHANGED exists
    BY <1>3, SameLessonSafe DEF Safe
  <2>2. Calm /\ ClaimsFollow /\ pc' \in [Workers -> Labels] /\ claim' \in [Workers -> Claim]
    BY <1>1, <1>3, SameJobsAreCalm, GotoFollows DEF Safe, RegenerationTypeOK, Labels
  <2> QED BY <1>1, <2>1, <2>2, CalmSafe DEF Safe, RegenerationTypeOK
<1>4. CASE Leave(w) /\ UNCHANGED <<lessonVars, job>>
  <2>1. ReviewSafe' /\ UNCHANGED exists
    BY <1>4, SameLessonSafe DEF Safe
  <2>2. Calm /\ ClaimsFollow /\ pc' \in [Workers -> Labels] /\ claim' \in [Workers -> Claim]
    BY <1>4, SameJobsAreCalm, LeaveFollows DEF Safe, RegenerationTypeOK
  <2> QED BY <1>1, <2>1, <2>2, CalmSafe DEF Safe, RegenerationTypeOK
<1> QED BY <1>2, <1>3, <1>4 DEF Complete

LEMMA ClaimJobSafe ==
  ASSUME Safe, NEW w \in Workers, NEW j \in Jobs, ClaimJob(w, j)
  PROVE  Safe'
<1>1. /\ job[j].status = "queued" /\ SetStatus({j}, "running") /\ overdue' = overdue \ {j}
      /\ claim' = [claim EXCEPT ![w] = [job |-> j, attempt |-> job[j].attempt, old |-> job[j].old]]
      /\ pc' = [pc EXCEPT ![w] = "read"]
      /\ UNCHANGED lessonVars /\ UNCHANGED <<up, admission, crashes, faults>>
  BY DEF ClaimJob, Goto, processVars
<1>2. /\ job[j] \in Job /\ claim \in [Workers -> Claim] /\ pc \in [Workers -> Labels]
      /\ job \in [Jobs -> Job]
  BY DEF Safe, RegenerationTypeOK
<1>3. [job |-> j, attempt |-> job[j].attempt, old |-> job[j].old] \in Claim
  BY <1>2 DEF Job, Claim
<1>4. claim' \in [Workers -> Claim] /\ pc' \in [Workers -> Labels]
  BY <1>1, <1>2, <1>3 DEF Labels
<1>5. ClaimsFollow
  BY <1>1, <1>2 DEF ClaimsFollow, Active
<1>6. Calm
  BY <1>1, <1>2, SetStatusIsCalm DEF Active
<1>7. ReviewSafe' /\ UNCHANGED exists
  BY <1>1, SameLessonSafe DEF Safe
<1> QED BY <1>1, <1>4, <1>5, <1>6, <1>7, CalmSafe DEF Safe, RegenerationTypeOK

LEMMA WorkerSafe ==
  ASSUME Safe, NEW w \in Workers, Work(w) \/ StoreFails(w)
  PROVE  Safe'
<1>0. Labels = {"idle", "read", "provider", "complete", "fail"} /\ job \in [Jobs -> Job]
  BY DEF Labels, Safe, RegenerationTypeOK
<1>1. ASSUME NEW label \in Labels, Goto(w, label), pc[w] # "idle", faults' \in Nat,
             UNCHANGED <<lessonVars, job, overdue, processVars, claim>>
      PROVE  Safe'
  <2>1. ReviewSafe' /\ UNCHANGED exists
    BY <1>1, SameLessonSafe DEF Safe
  <2>2. Calm /\ ClaimsFollow /\ pc' \in [Workers -> Labels] /\ claim' \in [Workers -> Claim]
    BY <1>0, <1>1, SameJobsAreCalm, GotoFollows DEF Safe
  <2>3. UNCHANGED <<overdue, up, admission, crashes>>
    BY <1>1 DEF processVars
  <2> QED BY <1>1, <2>1, <2>2, <2>3, CalmSafe DEF Safe, RegenerationTypeOK
<1>2. CASE ReadLesson(w)
  BY <1>0, <1>1, <1>2 DEF ReadLesson, Safe, RegenerationTypeOK
<1>3. CASE ProviderReturns(w)
  BY <1>0, <1>1, <1>3 DEF ProviderReturns, Safe, RegenerationTypeOK
<1>4. CASE Complete(w)
  BY <1>4, CompleteSafe
<1>5. ASSUME pc[w] = "fail", Leave(w), Calm, faults' \in Nat,
             UNCHANGED <<lessonVars, overdue, processVars>>
      PROVE  Safe'
  <2>1. ReviewSafe' /\ UNCHANGED exists
    BY <1>5, SameLessonSafe DEF Safe
  <2>2. ClaimsFollow /\ pc' \in [Workers -> Labels] /\ claim' \in [Workers -> Claim]
    BY <1>5, LeaveFollows DEF Safe
  <2>3. UNCHANGED <<overdue, up, admission, crashes>>
    BY <1>5 DEF processVars
  <2> QED BY <1>5, <2>1, <2>2, <2>3, CalmSafe DEF Safe, RegenerationTypeOK
<1>6. CASE Fail(w)
  <2>1. Calm
    <3>1. CASE job[claim[w].job].status \in Active
      BY <1>0, <1>6, <3>1, SetStatusIsCalm DEF Fail
    <3>2. CASE job[claim[w].job].status \notin Active
      BY <1>0, <1>6, <3>2, SameJobsAreCalm DEF Fail
    <3> QED BY <3>1, <3>2
  <2> QED BY <1>5, <1>6, <2>1 DEF Fail, Safe, RegenerationTypeOK
<1>7. CASE StoreFails(w)
  <2>1. faults' \in Nat /\ UNCHANGED <<lessonVars, job, overdue, processVars>>
    BY <1>7 DEF StoreFails, Safe, RegenerationTypeOK
  <2>2. CASE pc[w] \in {"read", "complete"} /\ Goto(w, "fail") /\ UNCHANGED claim
    BY <1>0, <1>1, <2>1, <2>2
  <2>3. CASE pc[w] = "fail" /\ Leave(w)
    BY <1>0, <1>5, <2>1, <2>3, SameJobsAreCalm
  <2> QED BY <1>7, <2>2, <2>3 DEF StoreFails
<1> QED BY <1>2, <1>3, <1>4, <1>6, <1>7, ClaimJobSafe DEF Work
-----------------------------------------------------------------------------
(* The watchdog and the process. *)

LEMMA ProcessSafe ==
  ASSUME Safe,
         \/ \E j \in Jobs : BecomeOverdue(j)
         \/ Sweep \/ CloseAdmission \/ FailQueued \/ Crash \/ Startup
  PROVE  Safe'
<1> DEFINE typed == /\ UNCHANGED lessonVars
                    /\ overdue' \subseteq Jobs /\ up' \in BOOLEAN
                    /\ admission' \in {"open", "closed", "paused"}
                    /\ crashes' \in Nat /\ faults' \in Nat
<1>1. typed
  <2>1. /\ overdue \subseteq Jobs /\ up \in BOOLEAN /\ crashes \in Nat /\ faults \in Nat
        /\ admission \in {"open", "closed", "paused"}
    BY DEF Safe, RegenerationTypeOK
  <2>2. ASSUME NEW j \in Jobs, BecomeOverdue(j)
        PROVE  typed
    BY <2>1, <2>2 DEF BecomeOverdue, processVars, workerVars
  <2>3. CASE Sweep
    BY <2>1, <2>3 DEF Sweep, processVars, workerVars
  <2>4. CASE CloseAdmission
    BY <2>1, <2>4 DEF CloseAdmission, workerVars
  <2>5. CASE FailQueued
    BY <2>1, <2>5 DEF FailQueued, processVars, workerVars
  <2>6. CASE Crash
    <3>1. /\ UNCHANGED lessonVars /\ UNCHANGED overdue /\ UNCHANGED admission
          /\ UNCHANGED faults /\ up' = FALSE /\ crashes' = crashes + 1
      BY <2>6 DEF Crash
    <3>2. crashes' \in Nat
      BY <2>1, <3>1
    <3>3. up' \in BOOLEAN
      BY <3>1
    <3> QED BY <2>1, <3>1, <3>2, <3>3
  <2>7. CASE Startup
    BY <2>1, <2>7 DEF Startup, workerVars
  <2> QED BY <2>2, <2>3, <2>4, <2>5, <2>6, <2>7
<1>2. ReviewSafe' /\ UNCHANGED exists
  BY <1>1, SameLessonSafe DEF Safe
<1>3. job \in [Jobs -> Job]
  BY DEF Safe, RegenerationTypeOK
<1>4. Calm
  <2>1. ASSUME NEW j \in Jobs, BecomeOverdue(j) PROVE Calm
    BY <1>3, <2>1, SameJobsAreCalm DEF BecomeOverdue
  <2>2. CASE Sweep
    BY <1>3, <2>2, SetStatusIsCalm DEF Sweep, ExpiredJobs, Active
  <2>3. CASE CloseAdmission
    BY <1>3, <2>3, SameJobsAreCalm DEF CloseAdmission
  <2>4. CASE FailQueued
    BY <1>3, <2>4, SetStatusIsCalm DEF FailQueued, Active
  <2>5. CASE Crash
    BY <1>3, <2>5, SameJobsAreCalm DEF Crash
  <2>6. CASE Startup
    BY <1>3, <2>6, SetStatusIsCalm DEF Startup, Active
  <2> QED BY <2>1, <2>2, <2>3, <2>4, <2>5, <2>6
<1>5. ClaimsFollow /\ pc' \in [Workers -> Labels] /\ claim' \in [Workers -> Claim]
  <2>1. CASE Crash
    <3>1. NoClaim \in Claim /\ "idle" \in Labels
      BY DEF NoClaim, Claim, NoBlock, Labels
    <3> QED BY <2>1, <3>1 DEF Crash, ClaimsFollow
  <2>2. CASE ~Crash
    <3>1. UNCHANGED <<pc, claim>>
      BY <2>2 DEF BecomeOverdue, Sweep, CloseAdmission, FailQueued, Startup, workerVars
    <3> QED BY <3>1, SameWorkersFollow DEF Safe
  <2> QED BY <2>1, <2>2
<1> QED BY <1>1, <1>2, <1>4, <1>5, CalmSafe

LEMMA StepSafe ==
  ASSUME Safe, [Next]_allVars
  PROVE  Safe'
<1>1. CASE UNCHANGED allVars
  <2>1. UNCHANGED lessonVars
        /\ UNCHANGED <<job, overdue, up, admission, pc, claim, crashes, faults>>
    BY <1>1 DEF allVars, regenerationVars, processVars, workerVars
  <2>2. ReviewSafe' /\ UNCHANGED exists
    BY <2>1, SameLessonSafe DEF Safe
  <2>3. Calm /\ ClaimsFollow
    BY <2>1, SameJobsAreCalm, SameWorkersFollow DEF Safe, RegenerationTypeOK
  <2> QED BY <2>1, <2>2, <2>3, CalmSafe DEF Safe, RegenerationTypeOK
<1> QED BY <1>1, TeacherSafe, WorkerSafe, ProcessSafe DEF Next

LEMMA SafetyHolds == Spec => []Safe
<1> QED BY InitSafe, StepSafe, PTL DEF Spec
-----------------------------------------------------------------------------
(* Theorems. *)

(* Every column, every tab's view and every worker's claim has its type,     *)
(* through restarts, deletions and replacements.                             *)
THEOREM TypeCorrect == Spec => []TypeOK
<1>1. Safe => TypeOK
  BY DEF Safe, ReviewSafe, RegenerationTypeOK, TypeOK
<1> QED BY <1>1, SafetyHolds, PTL

(* A lesson is accepted only as it was reviewed, whatever is regenerated     *)
(* meanwhile (accept_lesson, complete_activity_regeneration).                *)
THEOREM ReviewedBeforeAccepted == Spec => []AcceptedIsReviewed
<1>1. Safe => AcceptedIsReviewed
  BY SafeIsReviewed DEF Safe
<1> QED BY <1>1, SafetyHolds, PTL

(* The acceptance columns, the flag in the document and the revision agree,  *)
(* although a replacement withdraws an acceptance without looking at it.     *)
THEOREM AcceptanceAgrees == Spec => []AcceptanceIsCurrent
<1>1. Safe => AcceptanceIsCurrent
  BY DEF Safe, ReviewSafe
<1> QED BY <1>1, SafetyHolds, PTL

(* A request whose expected_revision matches was sent from what the lesson   *)
(* still is, although workers raise the revision too.                        *)
THEOREM RequestsSeeTheLesson == Spec => []RevisionIdentifiesDocument
<1>1. Safe => RevisionIdentifiesDocument
  BY SafeIsReviewed DEF Safe
<1> QED BY <1>1, SafetyHolds, PTL

(* Never two active jobs, through creations, retries and replays             *)
(* (activity_regenerations_one_active_lesson).                               *)
THEOREM OneAtATime == Spec => []OneActiveRegeneration
<1>1. Safe => OneActiveRegeneration
  <2> SUFFICES ASSUME Safe PROVE OneActiveRegeneration
    OBVIOUS
  <2> DEFINE S == {j \in Jobs : job[j].status \in Active}
  <2>1. CASE S = {}
    BY <2>1, FS_EmptySet DEF OneActiveRegeneration
  <2>2. CASE S # {}
    <3>1. PICK j \in Jobs : S = {j}
      BY <2>2 DEF Safe, OneActive
    <3>2. Cardinality(S) = 1
      BY <3>1, FS_Singleton
    <3> QED BY <3>2 DEF OneActiveRegeneration
  <2> QED BY <2>1, <2>2
<1> QED BY <1>1, SafetyHolds, PTL
-----------------------------------------------------------------------------
(* What a replacement replaces. *)

LEMMA AppliedToTarget ==
  ASSUME Safe, NEW j \in Jobs, NEW replacement, Untouched(j), Apply(j, replacement)
  PROVE  /\ Len(doc'.blocks) = Len(doc.blocks)
         /\ doc'.rejected = doc.rejected
         /\ \A i \in DOMAIN doc.blocks :
              doc'.blocks[i] # doc.blocks[i] => doc.blocks[i] = job[j].old
<1> DEFINE at == IndexOf(doc, job[j].old.id)
<1>1. doc \in Document
  BY DEF Safe, ReviewSafe, ReviewTypeOK
<1>2. /\ at \in 1 .. Len(doc.blocks) /\ DOMAIN doc.blocks = 1 .. Len(doc.blocks)
      /\ doc.blocks[at] = job[j].old /\ doc.blocks \in Seq(Block) /\ Len(doc.blocks) \in Nat
  BY <1>1, IndexOfFinds, DocumentFields DEF Untouched
<1>3. doc' = [doc EXCEPT !.blocks[at] = replacement, !.accepted = FALSE]
  BY DEF Apply
<1> HIDE DEF at
<1>4. doc'.blocks = [doc.blocks EXCEPT ![at] = replacement] /\ doc'.rejected = doc.rejected
  BY <1>1, <1>3 DEF Document
<1>5. Len(doc'.blocks) = Len(doc.blocks)
  <2>1. DOMAIN doc'.blocks = 1 .. Len(doc.blocks)
    BY <1>2, <1>4
  <2>2. \A k \in 1 .. Len(doc.blocks) : doc'.blocks[k] = IF k = at THEN replacement ELSE doc.blocks[k]
    BY <1>2, <1>4
  <2>3. doc.blocks \in Seq(Block \cup {replacement}) /\ replacement \in Block \cup {replacement}
    BY <1>2
  <2> QED BY <1>2, <1>4, <2>3, ExceptSeq
<1> QED BY <1>2, <1>4, <1>5

LEMMA SuccessIsApplied ==
  ASSUME Safe, [Next]_allVars, NEW j \in Jobs, Succeeds(j)
  PROVE  Untouched(j) /\ \E replacement : Apply(j, replacement)
<1>1. /\ job[j].status = "running" /\ job'[j].status = "succeeded"
      /\ job \in [Jobs -> Job]
  BY DEF Succeeds, Safe, RegenerationTypeOK
<1>2. ASSUME NEW S, NEW status \in {"running", "failed"}, SetStatus(S, status)
      PROVE  FALSE
  <2>1. job'[j] = IF j \in S THEN [job[j] EXCEPT !.status = status] ELSE job[j]
    BY <1>2 DEF SetStatus
  <2>2. [job[j] EXCEPT !.status = status].status = status
    BY <1>1 DEF Job
  <2> QED BY <1>1, <2>1, <2>2
<1>3. ~ UNCHANGED job
  BY <1>1
<1>4. ASSUME NEW k \in Jobs, NEW row, row.status = Submitted, job' = [job EXCEPT ![k] = row]
      PROVE  FALSE
  <2>1. job'[j] = IF j = k THEN row ELSE job[j]
    BY <1>1, <1>4
  <2> QED BY <1>1, <1>4, <2>1 DEF Submitted
<1>5. CASE Teacher
  <2>1. ~ReviewStep
    BY <1>3 DEF ReviewStep, regenerationVars
  <2>2. ~Delete
    BY <1>1 DEF Delete, Absent
  <2>3. ASSUME NEW t \in Tabs, NEW k \in Jobs PROVE ~Retry(t, k)
    BY <1>4 DEF Retry
  <2>4. ASSUME NEW t \in Tabs, NEW k \in Jobs PROVE ~RefusedReplay(t, k)
    BY <1>2 DEF RefusedReplay
  <2>5. ASSUME NEW t \in Tabs, NEW k \in Jobs, NEW id PROVE ~Create(t, k, id)
    BY <1>4 DEF Create
  <2> QED BY <1>5, <2>1, <2>2, <2>3, <2>4, <2>5 DEF Teacher
<1>6. ASSUME NEW w \in Workers, Work(w) \/ StoreFails(w)
      PROVE  Untouched(j) /\ \E replacement : Apply(j, replacement)
  <2>1. \A k \in Jobs : ~ClaimJob(w, k)
    BY <1>2 DEF ClaimJob
  <2>2. ~ReadLesson(w) /\ ~ProviderReturns(w) /\ ~StoreFails(w)
    BY <1>3 DEF ReadLesson, ProviderReturns, StoreFails
  <2>3. ~Fail(w)
    BY <1>2, <1>3 DEF Fail
  <2>4. Complete(w)
    BY <1>6, <2>1, <2>2, <2>3 DEF Work
  <2>5. CompleteRunning(w) /\ pc[w] # "idle" /\ job[claim[w].job].status = "running"
    BY <1>3, <2>4 DEF Complete
  <2>6. claim[w].job \in Jobs
    BY <2>5 DEF Safe, ClaimsMatch
  <2>7. Untouched(claim[w].job) /\ \E replacement : Apply(claim[w].job, replacement)
    BY <1>2, <1>3, <2>5 DEF CompleteRunning
  <2>8. claim[w].job = j
    BY <1>1, <2>5, <2>6 DEF Safe, OneActive, Active
  <2> QED BY <2>7, <2>8
<1>7. /\ \A k \in Jobs : ~BecomeOverdue(k)
      /\ ~Sweep /\ ~CloseAdmission /\ ~FailQueued /\ ~Crash /\ ~Startup
  BY <1>2, <1>3 DEF BecomeOverdue, Sweep, CloseAdmission, FailQueued, Crash, Startup
<1>8. ~ UNCHANGED allVars
  BY <1>3 DEF allVars, regenerationVars
<1> QED BY <1>5, <1>6, <1>7, <1>8 DEF Next

(* For every number of workers, jobs and tabs, a replacement changes the one *)
(* block it was asked for, and only while that block is still the same       *)
(* (complete_activity_regeneration).                                         *)
THEOREM EditsSurvive == Spec => TeacherEditsSurvive
<1>1. Safe /\ [Next]_allVars =>
        [\A j \in Jobs : Succeeds(j) =>
          /\ Len(doc'.blocks) = Len(doc.blocks)
          /\ doc'.rejected = doc.rejected
          /\ \A i \in DOMAIN doc.blocks :
               doc'.blocks[i] # doc.blocks[i] => doc.blocks[i] = job[j].old]_allVars
  BY SuccessIsApplied, AppliedToTarget
<1> QED BY <1>1, SafetyHolds, PTL DEF Spec, TeacherEditsSurvive
-----------------------------------------------------------------------------
(* What the lesson holds, with workers that replace blocks.                  *)

(* A replacement is one more exchange of an activity for a new one, in the   *)
(* phase in which the block was when it was asked for and still is.          *)
LEMMA ApplyKeepsThings ==
  ASSUME Safe, SlotsAreDistinct, HeldIsOld, BlocksInPhaseOrder,
         NEW w \in Workers, pc[w] # "idle", NEW warn \in BOOLEAN,
         job[claim[w].job].status = "running", Untouched(claim[w].job),
         claim[w].old.phase = job[claim[w].job].old.phase,
         Apply(claim[w].job,
               [claim[w].old EXCEPT !.content = fresh, !.warn = warn, !.flagged = FALSE])
  PROVE  SlotsAreDistinct' /\ HeldIsOld' /\ BlocksInPhaseOrder' /\ Exchanged
<1> DEFINE j == claim[w].job
           i == IndexOf(doc, job[j].old.id)
           new == [claim[w].old EXCEPT !.content = fresh, !.warn = warn, !.flagged = FALSE]
<1>1. doc \in Document /\ fresh \in Nat
  BY DEF Safe, ReviewSafe, ReviewTypeOK
<1>2. doc' \in Document
  BY ApplyRewrites DEF Rewritten
<1>3. /\ job[j].old.id \in Ids(doc) /\ claim[w].old.id = job[j].old.id
      /\ doc.blocks[i] = job[j].old
  BY DEF Untouched, Safe, ClaimsMatch
<1>4. i \in DOMAIN doc.blocks /\ doc.blocks[i] \in Block
  BY <1>1, <1>3, IndexOfFinds, DocumentFields
<1>5. claim[w].old \in Block
  <2>1. claim[w].old \in Block \cup {NoBlock}
    BY DEF Safe, RegenerationTypeOK, Claim
  <2>2. FocusId \notin Ids(doc)
    BY <1>1, DocumentFields DEF Ids, Block
  <2> QED BY <1>3, <2>1, <2>2 DEF NoBlock
<1>6. /\ new.id = doc.blocks[i].id /\ new.phase = doc.blocks[i].phase
      /\ new.content = fresh
  BY <1>3, <1>5 DEF Block
<1>7. /\ doc'.blocks = [doc.blocks EXCEPT ![i] = new]
      /\ doc'.rejected = doc.rejected
      /\ fresh' = fresh + 1
  BY <1>1 DEF Apply, Document
<1> HIDE DEF i, new
<1>8. SlotsAreDistinct' /\ HeldIsOld' /\ Exchanged
  BY <1>1, <1>2, <1>4, <1>6, <1>7, ExchangeAt
<1>9. DOMAIN doc'.blocks = DOMAIN doc.blocks
      /\ \A k \in DOMAIN doc.blocks : doc'.blocks[k].phase = doc.blocks[k].phase
  BY <1>4, <1>6, <1>7
<1>10. BlocksInPhaseOrder'
  BY <1>9 DEF BlocksInPhaseOrder, InPhaseOrder
<1> QED BY <1>8, <1>10

Whole == SlotsAreDistinct /\ HeldIsOld /\ BlocksInPhaseOrder

LEMMA StepKeepsThings ==
  ASSUME Safe, Whole, [Next]_allVars
  PROVE  Whole' /\ (Held(doc') = Held(doc) \/ Exchanged)
<1>1. CASE [ReviewNext]_lessonVars
  BY <1>1, ReviewKeepsThings, ReviewIsOrdered DEF Safe, Whole
<1>2. CASE Teacher
  <2>1. CASE ReviewStep
    BY <1>1, <2>1 DEF ReviewStep, ReviewNext
  <2>2. CASE Delete
    BY <1>1, <2>2 DEF Delete, ReviewNext
  <2>3. ASSUME NEW t \in Tabs, NEW k \in Jobs,
               Retry(t, k) \/ RefusedReplay(t, k) \/ \E id : Create(t, k, id)
        PROVE  UNCHANGED lessonVars
    BY <2>3 DEF Retry, RefusedReplay, Create
  <2> QED BY <1>1, <1>2, <2>1, <2>2, <2>3 DEF Teacher
<1>3. ASSUME NEW w \in Workers, Complete(w)
      PROVE  Whole' /\ (Held(doc') = Held(doc) \/ Exchanged)
  <2>1. CASE UNCHANGED lessonVars
    BY <1>1, <2>1
  <2>2. CASE ~ UNCHANGED lessonVars
    <3>1. CompleteRunning(w) /\ pc[w] # "idle" /\ job[claim[w].job].status = "running"
      BY <1>3, <2>2 DEF Complete
    <3>2. PICK warn \in BOOLEAN :
            Apply(claim[w].job,
                  [claim[w].old EXCEPT !.content = fresh, !.warn = warn, !.flagged = FALSE])
      BY <2>2, <3>1 DEF CompleteRunning
    <3>3. Untouched(claim[w].job) /\ claim[w].old.phase = job[claim[w].job].old.phase
      BY <2>2, <3>1 DEF CompleteRunning
    <3> QED BY <3>1, <3>2, <3>3, ApplyKeepsThings DEF Whole
  <2> QED BY <2>1, <2>2
<1>4. ASSUME NEW w \in Workers, Work(w) \/ StoreFails(w), ~Complete(w)
      PROVE  UNCHANGED lessonVars
  BY <1>4 DEF Work, ClaimJob, ReadLesson, ProviderReturns, Fail, StoreFails
<1>5. CASE \/ \E j \in Jobs : BecomeOverdue(j)
           \/ Sweep \/ CloseAdmission \/ FailQueued \/ Crash \/ Startup
  BY <1>1, <1>5 DEF BecomeOverdue, Sweep, CloseAdmission, FailQueued, Crash, Startup
<1>6. CASE UNCHANGED allVars
  BY <1>1, <1>6 DEF allVars
<1> QED BY <1>1, <1>2, <1>3, <1>4, <1>5, <1>6 DEF Next

LEMMA WholeHolds == Spec => [](Safe /\ Whole)
<1>1. Init => Whole
  BY InitIsDistinct, PublishedAssumption DEF Init, LessonInit, Whole, BlocksInPhaseOrder
<1>2. Safe /\ Whole /\ [Next]_allVars => Whole'
  BY StepKeepsThings
<1> QED BY <1>1, <1>2, SafetyHolds, PTL DEF Spec

(* Block ids stay unique and no activity is held twice with any number of    *)
(* workers that write replacements: complete_activity_regeneration puts its  *)
(* block under the id it was asked for, and that block is still there.       *)
THEOREM SlotsStayDistinctWithWorkers == Spec => []SlotsAreDistinct
<1>1. Whole => SlotsAreDistinct
  BY DEF Whole
<1> QED BY <1>1, WholeHolds, PTL

(* The plan stays in phase order although a replacement comes from a         *)
(* snapshot taken before a move (store.py compares the phases).              *)
THEOREM PlanStaysInOrderWithWorkers == Spec => []BlocksInPhaseOrder
<1>1. Whole => BlocksInPhaseOrder
  BY DEF Whole
<1> QED BY <1>1, WholeHolds, PTL

(* No edit, no replacement and no interleaving of both loses an activity or  *)
(* a notice: at most one is exchanged for a new one in a step.               *)
THEOREM NothingIsLostToWorkers == Spec => ActivitiesAreKept
<1>1. Safe /\ Whole /\ [Next]_allVars
        => [LET lost == Held(doc) \ Held(doc')
                new == Held(doc') \ Held(doc)
            IN  Cardinality(lost) = Cardinality(new) /\ Cardinality(lost) <= 1]_lessonVars
  BY StepKeepsThings, ExchangeIsOfOne DEF Safe, ReviewSafe, ReviewTypeOK
<1> QED BY <1>1, WholeHolds, PTL DEF Spec, ActivitiesAreKept
=============================================================================
