------------------------------ MODULE WorkPool ------------------------------
(***************************************************************************)
(* How request threads and pool threads share BakeRunner (api/runner.py):  *)
(* the claim lock that hold_admission takes around "insert a row, decide   *)
(* whether the pool will run it", the stop event that is set without it,   *)
(* and the turn flag that lets bakes and replacements alternate.           *)
(*                                                                         *)
(* BakeJobs and Regeneration take a claim for one step and a submitted row *)
(* for one step; here both are the sequences of steps the lock protects.   *)
(* A row is its status only, and any queued row of a class may be the      *)
(* oldest one: retried rows keep their created_at. A thread waits for work *)
(* at most one second, so a lost wake-up delays it and no more.            *)
(***************************************************************************)
EXTENDS Naturals, FiniteSets

CONSTANTS
  Bakes,          (* lesson jobs                                            *)
  Replacements,   (* activity regenerations                                 *)
  Workers,        (* the threads of the pool                                *)
  Routes,         (* the request threads that submit work                   *)
  Nobody,         (* the holder of a free lock                              *)
  NoRow,          (* what an idle thread works on                           *)
  MaxFaults       (* bound: claims that SQLite refuses                      *)

ASSUME ClassesAssumption == Bakes \cap Replacements = {}
ASSUME ThreadsAssumption == Nobody \notin Workers \cup Routes /\ Workers \cap Routes = {}
ASSUME NoRowAssumption == NoRow \notin Bakes \cup Replacements
ASSUME MaxFaultsAssumption == MaxFaults \in Nat

VARIABLES
  status,     (* of each row                                                *)
  prefer,     (* _prefer_regeneration                                       *)
  holder,     (* who holds _claim_lock                                      *)
  stopped,    (* _stop                                                      *)
  closed,     (* _admission_closed                                          *)
  at,         (* where each thread stands                                   *)
  working,    (* the row each thread works on                               *)
  inserted,   (* the requests that queued their row themselves ("created",  *)
              (* "queued"; a retry of a replacement does not look)          *)
  faults,
  passed      (* claims of the other class since a class waits (no code)    *)

vars == <<status, prefer, holder, stopped, closed, at, working, inserted, faults, passed>>

Rows == Bakes \cup Replacements
Classes == {Bakes, Replacements}
Threads == Workers \cup Routes
Other(class) == Rows \ class

Queued(class) == {i \in class : status[i] = "queued"}

(* _accepting_work *)
Accepting == ~stopped /\ ~closed

Init ==
  /\ status = [i \in Rows |-> "ended"]
  /\ prefer = FALSE
  /\ holder = Nobody
  /\ stopped = FALSE
  /\ closed = FALSE
  /\ at = [t \in Threads |-> "idle"]
  /\ working = [t \in Threads |-> NoRow]
  /\ inserted = {}
  /\ faults = 0
  /\ passed = [c \in Classes |-> 0]

Goto(t, label) == at' = [at EXCEPT ![t] = label]
Take(t) == holder = Nobody /\ holder' = t
Release(t) == holder' = IF holder = t THEN Nobody ELSE holder
(* Definitions named X_<fault> are seeded faults: each is X with one mistake, *)
(* kept to show that the property named in PROJECT.json notices it.          *)
Forget(t) == working' = [working EXCEPT ![t] = NoRow]
SetStatus(S, s) == status' = [i \in Rows |-> IF i \in S THEN s ELSE status[i]]

(* The count stops where BoundedOvertaking is already violated. *)
Overtaken(n) == IF n <= 1 + MaxFaults THEN n + 1 ELSE n

(* A class nobody waits in has not been passed over. *)
Counted(count) ==
  passed' = [c \in Classes |-> IF {i \in c : status'[i] = "queued"} = {} THEN 0 ELSE count[c]]
-----------------------------------------------------------------------------
(* The routes. *)

LockToSubmit_NoLock(r) == UNCHANGED holder
LockToSubmit(r) == Take(r)

(* hold_admission: a request to create or retry a row. *)
HoldAdmission(r, i) ==
  /\ at[r] = "idle"
  /\ LockToSubmit(r)
  /\ working' = [working EXCEPT ![r] = i]
  /\ Goto(r, "insert")
  /\ UNCHANGED <<status, prefer, stopped, closed, inserted, faults, passed>>

(* The request is answered. *)
Leave(r) ==
  /\ inserted' = inserted \ {r}
  /\ Goto(r, "idle")
  /\ Forget(r)
  /\ Release(r)

(* The transaction of the request. A row that has ended is queued; what the  *)
(* store answers from a row that is there, or refuses, goes no further, but  *)
(* for a retry of a replacement: it asks the pool whatever row it is given.  *)
Insert(r) ==
  /\ at[r] = "insert"
  /\ \/ /\ status[working[r]] = "ended"
        /\ SetStatus({working[r]}, "queued")
        /\ inserted' = inserted \cup {r}
        /\ Goto(r, "submit")
        /\ UNCHANGED <<holder, working>>
     \/ /\ working[r] \in Replacements
        /\ Goto(r, "submit")
        /\ UNCHANGED <<status, holder, working, inserted>>
     \/ /\ Leave(r)
        /\ UNCHANGED status
  /\ UNCHANGED <<prefer, stopped, closed, faults, passed>>

(* submit: will the pool run it? *)
Submit(r) ==
  /\ at[r] = "submit"
  /\ \/ /\ Accepting
        /\ Leave(r)
     \/ /\ ~Accepting
        /\ Goto(r, "refused")
        /\ UNCHANGED <<holder, working, inserted>>
  /\ UNCHANGED <<status, prefer, stopped, closed, faults, passed>>

(* refuse_unclaimed_admission *)
RefuseUnclaimed(r) ==
  /\ at[r] = "refused"
  /\ closed' = TRUE
  /\ Goto(r, "fail")
  /\ UNCHANGED <<status, prefer, holder, stopped, working, inserted, faults, passed>>

(* A refused bake fails with every queued bake; a replacement fails on its   *)
(* own, and also when it is not queued but running.                          *)
FailRefused(r) ==
  /\ at[r] = "fail"
  /\ SetStatus(IF working[r] \in Bakes THEN Queued(Bakes) ELSE {working[r]}, "ended")
  /\ Counted(passed)
  /\ Leave(r)
  /\ UNCHANGED <<prefer, stopped, closed, faults>>

(* A queued bake is cancelled; no lock is taken. *)
Cancel(i) ==
  /\ i \in Queued(Bakes)
  /\ SetStatus({i}, "ended")
  /\ Counted(passed)
  /\ UNCHANGED <<prefer, holder, stopped, closed, at, working, inserted, faults>>
-----------------------------------------------------------------------------
(* The workers. *)

(* _work enters _claim_next_work. *)
Enter(w) ==
  /\ at[w] = "idle"
  /\ ~stopped
  /\ Take(w)
  /\ Goto(w, "gate")
  /\ UNCHANGED <<status, prefer, stopped, closed, working, inserted, faults, passed>>

Alternated_Never(flag) == flag

(* Every attempt to claim takes the turn, whether it finds work or not. *)
Alternated(flag) == ~flag

Gate(w) ==
  /\ at[w] = "gate"
  /\ \/ Accepting /\ Goto(w, "first") /\ prefer' = Alternated(prefer) /\ UNCHANGED holder
     \/ ~Accepting /\ Goto(w, "idle") /\ Release(w) /\ UNCHANGED prefer
  /\ UNCHANGED <<status, stopped, closed, working, inserted, faults, passed>>

(* The class a worker tries: the flag is already the next attempt's. *)
Preferred(flag) == IF flag THEN Bakes ELSE Replacements
Trying(w) == IF at[w] = "first" THEN Preferred(prefer) ELSE Other(Preferred(prefer))

(* _claim_next_job, _claim_next_activity_regeneration *)
ClaimFrom(w, class) ==
  /\ at[w] \in {"first", "second"}
  /\ class = Trying(w)
  /\ Accepting
  /\ \E i \in Queued(class) :
       /\ SetStatus({i}, "running")
       /\ working' = [working EXCEPT ![w] = i]
  /\ Counted([c \in Classes |-> IF c = class THEN 0 ELSE Overtaken(passed[c])])
  /\ Goto(w, "running")
  /\ Release(w)
  /\ UNCHANGED <<prefer, stopped, closed, inserted, faults>>

(* Nothing to claim: try the other class, then give up for now. *)
NothingToClaim(w) ==
  /\ at[w] \in {"first", "second"}
  /\ ~Accepting \/ Queued(Trying(w)) = {}
  /\ IF at[w] = "first"
     THEN Goto(w, "second") /\ UNCHANGED holder
     ELSE Goto(w, "idle") /\ Release(w)
  /\ UNCHANGED <<status, prefer, stopped, closed, working, inserted, faults, passed>>

(* PersistenceUnavailable: the attempt is over, and the turn is spent. *)
ClaimFails(w) ==
  /\ at[w] \in {"first", "second"}
  /\ Accepting
  /\ faults < MaxFaults
  /\ faults' = faults + 1
  /\ Goto(w, "idle")
  /\ Release(w)
  /\ UNCHANGED <<status, prefer, stopped, closed, working, inserted, passed>>

(* The row ends; see BakeJobs and Regeneration for how. A replacement that   *)
(* was failed meanwhile may be queued again: its old worker leaves it alone  *)
(* when it has succeeded, and fails it when it has not.                      *)
Finish(w) ==
  /\ at[w] = "running"
  /\ \/ SetStatus({working[w]}, "ended")
     \/ status[working[w]] # "running" /\ UNCHANGED status
  /\ Counted(passed)
  /\ Goto(w, "idle")
  /\ Forget(w)
  /\ UNCHANGED <<prefer, holder, stopped, closed, inserted, faults>>

(* stop: the event is set without the lock. *)
Stop ==
  /\ ~stopped
  /\ stopped' = TRUE
  /\ UNCHANGED <<status, prefer, holder, closed, at, working, inserted, faults, passed>>

Route(r) ==
  Insert(r) \/ Submit(r) \/ RefuseUnclaimed(r) \/ FailRefused(r)

Work(w) ==
  \/ Gate(w) \/ NothingToClaim(w) \/ Finish(w)
  \/ \E class \in Classes : ClaimFrom(w, class)

Next ==
  \/ \E r \in Routes : Route(r) \/ \E i \in Rows : HoldAdmission(r, i)
  \/ \E i \in Bakes : Cancel(i)
  \/ \E w \in Workers : Enter(w) \/ Work(w) \/ ClaimFails(w)
  \/ Stop

Spec == Init /\ [][Next]_vars

(* Threads run on, and a worker that asks for the lock again and again gets  *)
(* it in the end: a route holds it for two transactions and requests come at *)
(* the pace of people. Nothing makes a request come.                         *)
Fairness ==
  /\ \A r \in Routes : WF_vars(Route(r))
  /\ \A w \in Workers : WF_vars(Work(w)) /\ SF_vars(Enter(w))

FairSpec == Spec /\ Fairness
-----------------------------------------------------------------------------
(* Every variable has its type. *)
TypeOK ==
  /\ status \in [Rows -> {"queued", "running", "ended"}]
  /\ prefer \in BOOLEAN
  /\ holder \in Threads \cup {Nobody}
  /\ stopped \in BOOLEAN
  /\ closed \in BOOLEAN
  /\ at \in [Threads -> {"idle", "insert", "submit", "refused", "fail",
                         "gate", "first", "second", "running"}]
  /\ working \in [Threads -> Rows \cup {NoRow}]
  /\ inserted \subseteq Routes
  /\ faults \in Nat
  /\ passed \in [Classes -> Nat]

(* A request that has queued a row and is told that the pool is unavailable  *)
(* never leaves a running row behind: although the pool may stop between the *)
(* insertion and submit, other requests close it, and idle workers poll      *)
(* every second, no worker takes the row in between (the hazard named in     *)
(* close_admission, runner.py:163-169).                                      *)
RefusedWorkNeverRuns ==
  \A r \in inserted : at[r] \in {"refused", "fail"} => status[working[r]] # "running"

(* A class that has work waiting is passed over once, and once more for each *)
(* claim SQLite refused, because a refused claim has spent its turn.         *)
BoundedOvertaking == \A c \in Classes : passed[c] <= 1 + faults

(* "Neither durable work class can starve" (runner.py:237): while the pool   *)
(* accepts work, a class with a queue is claimed from again and again.       *)
NeitherClassStarves ==
  \A c \in Classes :
    \/ []<>(Queued(c) = {} \/ ~Accepting)
    \/ []<><<\E w \in Workers : ClaimFrom(w, c)>>_vars
=============================================================================
