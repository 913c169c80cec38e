--------------------------- MODULE LessonLifecycle ---------------------------
(***************************************************************************)
(* What the job store promises a teacher about one lesson, with no worker, *)
(* no token, no lease and no revision in sight:                            *)
(*                                                                         *)
(*   - a lesson is tried by numbered attempts, one after the other;        *)
(*   - an attempt is closed (failed or cancelled) or published, never      *)
(*     both, and a closed attempt is never published afterwards;           *)
(*   - a provider call only starts for an attempt that is running;         *)
(*   - the next attempt, and the removal of the lesson, wait until the     *)
(*     provider calls of the previous attempt are over.                    *)
(*                                                                         *)
(* persistence-contract.md states these promises in prose; BakeJobs shows  *)
(* how store.py and runner.py keep them, and implements this module.       *)
(***************************************************************************)
EXTENDS Naturals

CONSTANTS
  Lessons,   (* the lesson keys: one (teacher_id, id) pair each *)
  NoAttempt  (* the attempt of a lesson that does not exist     *)

VARIABLES
  state,    (* what the teacher may conclude about each lesson            *)
  attempt,  (* the current attempt of each lesson                         *)
  calling   (* is a provider call running on behalf of the lesson?        *)

lifecycle == <<state, attempt, calling>>

States == {"absent", "queued", "running", "published", "closed"}

Init ==
  /\ state = [l \in Lessons |-> "absent"]
  /\ attempt = [l \in Lessons |-> NoAttempt]
  /\ calling = [l \in Lessons |-> FALSE]

Move(l, from, to) ==
  /\ state[l] \in from
  /\ state' = [state EXCEPT ![l] = to]

(* The teacher asks for a lesson that is not there. *)
Create(l) ==
  /\ Move(l, {"absent"}, "queued")
  /\ attempt' = [attempt EXCEPT ![l] = 1]
  /\ UNCHANGED calling

(* A worker takes the queued attempt. *)
Start(l) ==
  /\ Move(l, {"queued"}, "running")
  /\ UNCHANGED <<attempt, calling>>

(* A provider call starts, for a running attempt only. *)
BeginCall(l) ==
  /\ state[l] = "running"
  /\ ~calling[l]
  /\ calling' = [calling EXCEPT ![l] = TRUE]
  /\ UNCHANGED <<state, attempt>>

(* Calls end one at a time, or together when the process dies. *)
EndCalls(S) ==
  /\ calling' = [l \in Lessons |-> calling[l] /\ l \notin S]
  /\ UNCHANGED <<state, attempt>>

(* The running attempt's lesson becomes visible. *)
Publish(l) ==
  /\ Move(l, {"running"}, "published")
  /\ ~calling[l]
  /\ UNCHANGED <<attempt, calling>>

(* Attempts end without a lesson: a cancellation, a failure, or a sweep over *)
(* many rows at once. A call already started may still be running.           *)
Close(S) ==
  /\ \A l \in S : state[l] \in {"queued", "running"}
  /\ state' = [l \in Lessons |-> IF l \in S THEN "closed" ELSE state[l]]
  /\ UNCHANGED <<attempt, calling>>

(* The next attempt starts only once the previous one has gone quiet. *)
Reopen(l) ==
  /\ Move(l, {"closed"}, "queued")
  /\ ~calling[l]
  /\ attempt' = [attempt EXCEPT ![l] = @ + 1]
  /\ UNCHANGED calling

(* The teacher deletes an inactive lesson. *)
Remove(l) ==
  /\ Move(l, {"published", "closed"}, "absent")
  /\ ~calling[l]
  /\ attempt' = [attempt EXCEPT ![l] = NoAttempt]
  /\ UNCHANGED calling

Next ==
  \/ \E l \in Lessons :
       \/ Create(l) \/ Start(l) \/ BeginCall(l) \/ Publish(l)
       \/ Reopen(l) \/ Remove(l)
  \/ \E S \in SUBSET Lessons : Close(S) \/ EndCalls(S)

Spec == Init /\ [][Next]_lifecycle
=============================================================================
