--------------------------- MODULE WorkPoolProofs ---------------------------
(***************************************************************************)
(* The safety properties of WorkPool for any number of rows, workers and   *)
(* routes, and any number of claims that SQLite refuses.                   *)
(***************************************************************************)
EXTENDS WorkPool, TLAPS

Inside == {"gate", "first", "second"}
Asking == {"insert", "submit", "refused", "fail"}

(* Whoever stands between the two ends of a locked region holds the lock, and *)
(* a thread works on a row from its claim or request to its end.              *)
LockIsHeld ==
  /\ \A r \in Routes : at[r] \in {"idle"} \cup Asking
  /\ \A w \in Workers : at[w] \in {"idle", "running"} \cup Inside
  /\ \A t \in Threads : at[t] \in Inside \cup Asking => holder = t
  /\ \A t \in Threads : at[t] \in {"running"} \cup Asking => working[t] \in Rows

(* A row between its insertion and the answer of its request is not claimed. *)
SubmittedWaits ==
  \A r \in inserted :
    at[r] \in {"submit", "refused", "fail"} /\ status[working[r]] # "running"

(* A running row has one thread that runs it. Only a refused request ends it  *)
(* before that thread does, and then the pool is closed.                      *)
RunnersDiffer ==
  /\ \A r \in Routes : at[r] = "fail" => closed
  /\ ~closed => \A w \in Workers : at[w] = "running" => status[working[w]] = "running"
  /\ \A v, w \in Workers :
       at[v] = "running" /\ at[w] = "running" /\ working[v] = working[w] => v = w

Safe ==
  /\ TypeOK
  /\ LockIsHeld
  /\ SubmittedWaits
  /\ RunnersDiffer

USE DEF Threads, Rows

LEMMA SafeInitially ==
  ASSUME Init
  PROVE  Safe
BY NoRowAssumption, ThreadsAssumption
   DEF Init, Safe, TypeOK, LockIsHeld, SubmittedWaits, RunnersDiffer, Inside, Asking

(* The count of a class is a natural number and grows by one at most. *)
LEMMA CountedFits ==
  ASSUME TypeOK, NEW count \in [Classes -> Nat], Counted(count)
  PROVE  passed' \in [Classes -> Nat]
BY DEF Counted

LEMMA SafeStep ==
  ASSUME Safe, [Next]_vars
  PROVE  Safe'
<1> USE DEF Safe, TypeOK, LockIsHeld, SubmittedWaits, RunnersDiffer, Inside, Asking, Goto, Forget, Release, Take
<1>1. CASE UNCHANGED vars
  BY <1>1 DEF vars
<1>2. ASSUME NEW r \in Routes, NEW i \in Rows, HoldAdmission(r, i)
      PROVE  Safe'
  BY <1>2, ThreadsAssumption DEF HoldAdmission, LockToSubmit
<1>3. ASSUME NEW r \in Routes, Insert(r)
      PROVE  Safe'
  <2>1. TypeOK'
    BY <1>3, ThreadsAssumption DEF Insert, SetStatus, Leave
  <2>2. LockIsHeld'
    BY <1>3, ThreadsAssumption DEF Insert, SetStatus, Leave
  <2>3. SubmittedWaits'
    <3>1. \A q \in inserted : q # r /\ holder = r /\ holder = q
      BY <1>3 DEF Insert
    <3> QED BY <1>3, <3>1, ThreadsAssumption DEF Insert, SetStatus, Leave
  <2>4. RunnersDiffer'
    BY <1>3, ThreadsAssumption DEF Insert, SetStatus, Leave
  <2> QED BY <2>1, <2>2, <2>3, <2>4
<1>4. ASSUME NEW r \in Routes, Submit(r)
      PROVE  Safe'
  <2>1. TypeOK'
    BY <1>4, ThreadsAssumption DEF Submit, Leave
  <2>2. LockIsHeld'
    BY <1>4, ThreadsAssumption DEF Submit, Leave
  <2>3. SubmittedWaits'
    <3>1. CASE Leave(r) /\ UNCHANGED status
      BY <3>1, ThreadsAssumption DEF Leave
    <3>2. CASE at' = [at EXCEPT ![r] = "refused"] /\ UNCHANGED <<status, working, inserted>>
      BY <3>2
    <3> QED BY <1>4, <3>1, <3>2 DEF Submit
  <2>4. RunnersDiffer'
    BY <1>4, ThreadsAssumption DEF Submit, Leave
  <2> QED BY <2>1, <2>2, <2>3, <2>4
<1>5. ASSUME NEW r \in Routes, RefuseUnclaimed(r)
      PROVE  Safe'
  BY <1>5, ThreadsAssumption DEF RefuseUnclaimed
<1>6. ASSUME NEW r \in Routes, FailRefused(r)
      PROVE  Safe'
  <2>1. passed' \in [Classes -> Nat]
    BY <1>6, CountedFits DEF FailRefused
  <2>2. TypeOK'
    BY <1>6, <2>1, ThreadsAssumption DEF FailRefused, SetStatus, Queued, Leave
  <2>3. LockIsHeld'
    BY <1>6, <2>1, ThreadsAssumption DEF FailRefused, SetStatus, Queued, Leave
  <2>4. SubmittedWaits'
    BY <1>6, <2>1, ThreadsAssumption DEF FailRefused, SetStatus, Queued, Leave
  <2>5. RunnersDiffer'
    BY <1>6, <2>1, ThreadsAssumption DEF FailRefused, SetStatus, Queued, Leave
  <2> QED BY <2>2, <2>3, <2>4, <2>5
<1>7. ASSUME NEW i \in Bakes, Cancel(i)
      PROVE  Safe'
  <2>1. passed' \in [Classes -> Nat]
    BY <1>7, CountedFits DEF Cancel
  <2>2. TypeOK'
    BY <1>7, <2>1 DEF Cancel, SetStatus, Queued
  <2>3. LockIsHeld'
    BY <1>7, <2>1 DEF Cancel, SetStatus, Queued
  <2>4. SubmittedWaits'
    BY <1>7, <2>1 DEF Cancel, SetStatus, Queued
  <2>5. RunnersDiffer'
    BY <1>7, <2>1 DEF Cancel, SetStatus, Queued
  <2> QED BY <2>2, <2>3, <2>4, <2>5
<1>8. ASSUME NEW w \in Workers, Enter(w)
      PROVE  Safe'
  BY <1>8, ThreadsAssumption DEF Enter
<1>9. ASSUME NEW w \in Workers, Gate(w)
      PROVE  Safe'
  <2>1. TypeOK'
    BY <1>9, ThreadsAssumption DEF Gate, Alternated
  <2>2. LockIsHeld'
    BY <1>9, ThreadsAssumption DEF Gate, Alternated
  <2>3. SubmittedWaits'
    BY <1>9, ThreadsAssumption DEF Gate, Alternated
  <2>4. RunnersDiffer'
    BY <1>9, ThreadsAssumption DEF Gate, Alternated
  <2> QED BY <2>1, <2>2, <2>3, <2>4
<1>10. ASSUME NEW w \in Workers, NothingToClaim(w)
       PROVE  Safe'
  BY <1>10, ThreadsAssumption DEF NothingToClaim
<1>11. ASSUME NEW w \in Workers, ClaimFails(w)
       PROVE  Safe'
  BY <1>11, ThreadsAssumption DEF ClaimFails
<1>12. ASSUME NEW w \in Workers, Finish(w)
       PROVE  Safe'
  <2>1. passed' \in [Classes -> Nat]
    BY <1>12, CountedFits DEF Finish
  <2>2. TypeOK'
    BY <1>12, <2>1, ThreadsAssumption DEF Finish, SetStatus
  <2>3. LockIsHeld'
    BY <1>12, <2>1, ThreadsAssumption DEF Finish, SetStatus
  <2>4. SubmittedWaits'
    BY <1>12, <2>1, ThreadsAssumption DEF Finish, SetStatus
  <2>5. RunnersDiffer'
    BY <1>12, <2>1, ThreadsAssumption DEF Finish, SetStatus
  <2> QED BY <2>2, <2>3, <2>4, <2>5
<1>13. ASSUME NEW w \in Workers, NEW class \in Classes, ClaimFrom(w, class)
       PROVE  Safe'
  <2>1. passed' \in [Classes -> Nat]
    <3>1. [c \in Classes |-> IF c = class THEN 0 ELSE Overtaken(passed[c])] \in [Classes -> Nat]
      BY MaxFaultsAssumption DEF Overtaken
    <3> QED BY <1>13, <3>1, CountedFits DEF ClaimFrom
  <2>2. PICK i \in Queued(class) :
          SetStatus({i}, "running") /\ working' = [working EXCEPT ![w] = i]
    BY <1>13 DEF ClaimFrom
  <2>3. i \in Rows
    BY <2>2 DEF Queued, Classes
  <2>4. holder = w /\ \A r \in Routes : at[r] = "idle"
    BY <1>13, ThreadsAssumption DEF ClaimFrom
  <2>5. TypeOK'
    BY <1>13, <2>1, <2>2, <2>3, <2>4, ThreadsAssumption DEF ClaimFrom, SetStatus, Queued
  <2>6. LockIsHeld'
    BY <1>13, <2>1, <2>2, <2>3, <2>4, ThreadsAssumption DEF ClaimFrom, SetStatus, Queued
  <2>7. SubmittedWaits'
    BY <1>13, <2>1, <2>2, <2>3, <2>4, ThreadsAssumption DEF ClaimFrom, SetStatus, Queued
  <2>8. RunnersDiffer'
    <3>1. ~closed /\ ~closed' /\ at' = [at EXCEPT ![w] = "running"] /\ status[i] = "queued"
      BY <1>13, <2>2 DEF ClaimFrom, Accepting, Queued
    <3>2. \A v \in Workers : at'[v] = "running" =>
            \/ v = w /\ working'[v] = i
            \/ v # w /\ at[v] = "running" /\ working'[v] = working[v] /\ working[v] # i
      BY <2>2, <3>1
    <3>3. \A v \in Workers : at'[v] = "running" => status'[working'[v]] = "running"
      BY <2>2, <2>3, <3>1, <3>2 DEF SetStatus
    <3> QED BY <2>4, <3>1, <3>2, <3>3, ThreadsAssumption
  <2> QED BY <2>5, <2>6, <2>7, <2>8
<1>14. CASE Stop
  BY <1>14 DEF Stop
<1> QED
  BY <1>1, <1>2, <1>3, <1>4, <1>5, <1>6, <1>7, <1>8, <1>9, <1>10, <1>11, <1>12, <1>13, <1>14
     DEF Next, Route, Work

(* Every variable keeps its type. *)
THEOREM TypeCorrect == Spec => []TypeOK
<1>1. Safe => TypeOK
  BY DEF Safe
<1> QED BY <1>1, SafeInitially, SafeStep, PTL DEF Spec

(* A request that has queued a row and is told that the pool is unavailable  *)
(* never leaves a running row behind, for any number of workers and requests. *)
THEOREM RefusalHolds == Spec => []RefusedWorkNeverRuns
<1>1. Safe => RefusedWorkNeverRuns
  BY DEF Safe, SubmittedWaits, RefusedWorkNeverRuns
<1> QED BY <1>1, SafeInitially, SafeStep, PTL DEF Spec
-----------------------------------------------------------------------------
(* Turns. The attempt that is under way, if there is one, prefers             *)
(* Preferred(prefer); the next one prefers the other class. The class whose   *)
(* turn comes next may have been passed over once; the other one only as often *)
(* as claims were refused.                                                     *)

Trial == {"first", "second"}
UnderWay == \E w \in Workers : at[w] \in Trial

WaitingCounts == \A c \in Classes : Queued(c) = {} => passed[c] = 0
TurnsCount ==
  Accepting =>
    /\ UnderWay => /\ passed[Preferred(prefer)] <= 1 + faults
                   /\ passed[Preferred(~prefer)] <= faults
    /\ ~UnderWay => /\ passed[Preferred(~prefer)] <= 1 + faults
                    /\ passed[Preferred(prefer)] <= faults
    /\ \A w \in Workers : at[w] = "second" => Queued(Preferred(prefer)) = {}
Turns ==
  /\ WaitingCounts
  /\ TurnsCount
  /\ BoundedOvertaking

LEMMA Classes2 ==
  ASSUME TypeOK, NEW flag \in BOOLEAN
  PROVE  /\ Preferred(flag) \in Classes
         /\ Other(Preferred(flag)) = Preferred(~flag)
         /\ \A c \in Classes : c = Preferred(flag) \/ c = Preferred(~flag)
         /\ ~~flag = flag
BY ClassesAssumption DEF Preferred, Other, Classes

LEMMA Counts ==
  ASSUME TypeOK
  PROVE  /\ passed[Preferred(prefer)] \in Nat
         /\ passed[Preferred(~prefer)] \in Nat
         /\ faults \in Nat
         /\ Preferred(prefer) \in Classes
         /\ Preferred(~prefer) \in Classes
BY DEF TypeOK, Preferred, Classes

LEMMA TurnsInitially ==
  ASSUME Init
  PROVE  Turns
BY DEF Init, Turns, WaitingCounts, TurnsCount, BoundedOvertaking, Preferred, Classes,
   Queued, UnderWay, Trial

(* Turns stay right when nobody is claimed, no count grows and no attempt     *)
(* begins or ends.                                                            *)
LEMMA TurnsKept ==
  ASSUME Safe, Turns, Safe', Counted(passed), faults' = faults, prefer' = prefer,
         Accepting' => Accepting, UnderWay' = UnderWay,
         \A w \in Workers : at'[w] = "second" => at[w] = "second",
         \A c \in Classes : {i \in c : status'[i] = "queued"} \subseteq Queued(c)
  PROVE  Turns'
<1> USE DEF Safe, TypeOK
<1>1. \A c \in Classes : passed'[c] \in Nat /\ passed'[c] <= passed[c]
  BY DEF Counted
<1>2. WaitingCounts'
  BY DEF WaitingCounts, Counted, Queued
<1>3. BoundedOvertaking'
  BY <1>1 DEF Turns, BoundedOvertaking
<1>4. TurnsCount'
  <2>1. /\ passed'[Preferred(prefer)] <= passed[Preferred(prefer)]
        /\ passed'[Preferred(prefer)] \in Nat
        /\ passed'[Preferred(~prefer)] <= passed[Preferred(~prefer)]
        /\ passed'[Preferred(~prefer)] \in Nat
    BY <1>1, Counts
  <2>2. Queued(Preferred(prefer)) = {} => {i \in Preferred(prefer) : status'[i] = "queued"} = {}
    BY Counts
  <2> QED BY <2>1, <2>2, Counts DEF Turns, TurnsCount, Queued
<1> QED BY <1>2, <1>3, <1>4 DEF Turns

(* The same when the counts are left alone. *)
LEMMA TurnsUntouched ==
  ASSUME Safe, Turns, Safe', UNCHANGED <<passed, faults, prefer>>,
         Accepting' => Accepting, UnderWay' = UnderWay,
         \A w \in Workers : at'[w] = "second" => at[w] = "second",
         \A c \in Classes : {i \in c : status'[i] = "queued"} = Queued(c)
  PROVE  Turns'
<1> USE DEF Safe, TypeOK
<1>1. WaitingCounts' /\ BoundedOvertaking'
  BY DEF Turns, WaitingCounts, BoundedOvertaking, Queued
<1>2. TurnsCount'
  BY Classes2 DEF Turns, TurnsCount, Queued
<1> QED BY <1>1, <1>2 DEF Turns

LEMMA TurnsStep ==
  ASSUME Safe, Turns, [Next]_vars
  PROVE  Turns'
<1>0. Safe'
  BY SafeStep
<1> USE DEF Safe, TypeOK, LockIsHeld, Inside, Asking, Trial, UnderWay, Goto
<1>1. CASE UNCHANGED vars
  BY <1>1 DEF vars, Turns, WaitingCounts, TurnsCount, BoundedOvertaking, Queued, Accepting
<1>2. ASSUME NEW r \in Routes, NEW i \in Rows, HoldAdmission(r, i)
      PROVE  Turns'
  BY <1>0, <1>2, TurnsUntouched, ThreadsAssumption DEF HoldAdmission, Queued, Accepting
<1>3. ASSUME NEW r \in Routes, Insert(r)
      PROVE  Turns'
  <2>1. ~UnderWay /\ ~UnderWay'
    BY <1>3, ThreadsAssumption DEF Insert, Leave
  <2>2. \A w \in Workers : at'[w] # "second"
    BY <2>1
  <2>3. \A c \in Classes : Queued(c) \subseteq {i \in c : status'[i] = "queued"}
    BY <1>3 DEF Insert, SetStatus, Queued, Classes, Leave
  <2>4. WaitingCounts' /\ BoundedOvertaking'
    BY <1>3, <2>3 DEF Insert, Turns, WaitingCounts, BoundedOvertaking, Queued
  <2>5. TurnsCount'
    BY <1>3, <2>1, <2>2 DEF Insert, Turns, TurnsCount, Accepting
  <2> QED BY <2>4, <2>5 DEF Turns
<1>4. ASSUME NEW r \in Routes, Submit(r)
      PROVE  Turns'
  BY <1>0, <1>4, TurnsUntouched, ThreadsAssumption DEF Submit, Queued, Accepting, Leave
<1>5. ASSUME NEW r \in Routes, RefuseUnclaimed(r)
      PROVE  Turns'
  BY <1>0, <1>5, TurnsUntouched, ThreadsAssumption DEF RefuseUnclaimed, Queued, Accepting
<1>6. ASSUME NEW r \in Routes, FailRefused(r)
      PROVE  Turns'
  BY <1>0, <1>6, TurnsKept, ThreadsAssumption
     DEF FailRefused, SetStatus, Queued, Accepting, Classes, Leave
<1>7. ASSUME NEW i \in Bakes, Cancel(i)
      PROVE  Turns'
  BY <1>0, <1>7, TurnsKept DEF Cancel, SetStatus, Queued, Accepting, Classes
<1>8. ASSUME NEW w \in Workers, Enter(w)
      PROVE  Turns'
  BY <1>0, <1>8, TurnsUntouched DEF Enter, Queued, Accepting
<1>9. ASSUME NEW w \in Workers, Gate(w)
      PROVE  Turns'
  <2>1. ~UnderWay
    BY <1>9 DEF Gate
  <2>2. CASE at' = [at EXCEPT ![w] = "idle"] /\ UNCHANGED prefer
    BY <1>0, <1>9, <2>1, <2>2, TurnsUntouched DEF Gate, Queued, Accepting
  <2>3. CASE at' = [at EXCEPT ![w] = "first"] /\ prefer' = ~prefer
    <3>1. UnderWay' /\ \A v \in Workers : at'[v] # "second"
      BY <2>1, <2>3
    <3>2. WaitingCounts' /\ BoundedOvertaking'
      BY <1>9 DEF Gate, Turns, WaitingCounts, BoundedOvertaking, Queued
    <3>3. TurnsCount'
      BY <1>9, <2>1, <2>3, <3>1, Classes2 DEF Gate, Turns, TurnsCount, Accepting
    <3> QED BY <3>2, <3>3 DEF Turns
  <2> QED BY <1>9, <2>2, <2>3 DEF Gate, Alternated
<1>10. ASSUME NEW w \in Workers, NothingToClaim(w)
       PROVE  Turns'
  <2>1. UnderWay /\ UNCHANGED <<passed, faults, prefer, status, stopped, closed>>
    BY <1>10 DEF NothingToClaim
  <2>2. WaitingCounts' /\ BoundedOvertaking'
    BY <2>1 DEF Turns, WaitingCounts, BoundedOvertaking, Queued
  <2>3. CASE at[w] = "first"
    <3>1. at' = [at EXCEPT ![w] = "second"] /\ UnderWay'
      BY <1>10, <2>3 DEF NothingToClaim
    <3>2. Accepting => Queued(Preferred(prefer)) = {}
      BY <1>10, <2>3 DEF NothingToClaim, Trying
    <3>3. TurnsCount'
      BY <2>1, <3>1, <3>2 DEF Turns, TurnsCount, Accepting, Queued
    <3> QED BY <2>2, <3>3 DEF Turns
  <2>4. CASE at[w] = "second"
    <3>1. at' = [at EXCEPT ![w] = "idle"]
      BY <1>10, <2>4 DEF NothingToClaim
    <3>2. ~UnderWay' /\ \A v \in Workers : at'[v] # "second"
      BY <1>0, <1>10, <2>4, <3>1, ThreadsAssumption DEF NothingToClaim
    <3>3. Accepting => passed[Preferred(prefer)] = 0 /\ passed[Preferred(~prefer)] <= faults
      BY <2>1, <2>4, Classes2 DEF Turns, TurnsCount, WaitingCounts
    <3>4. TurnsCount'
      BY <2>1, <3>2, <3>3, Counts DEF TurnsCount, Accepting
    <3> QED BY <2>2, <3>4 DEF Turns
  <2> QED BY <1>10, <2>3, <2>4 DEF NothingToClaim
<1>11. ASSUME NEW w \in Workers, ClaimFails(w)
       PROVE  Turns'
  <2>1. /\ UnderWay
        /\ faults' = faults + 1
        /\ at' = [at EXCEPT ![w] = "idle"]
        /\ UNCHANGED <<passed, prefer, status, stopped, closed>>
    BY <1>11 DEF ClaimFails
  <2>2. ~UnderWay' /\ \A v \in Workers : at'[v] # "second"
    BY <1>11, <2>1, ThreadsAssumption DEF ClaimFails
  <2>3. WaitingCounts' /\ BoundedOvertaking'
    BY <2>1 DEF Turns, WaitingCounts, BoundedOvertaking, Queued
  <2>4. TurnsCount'
    <3>1. Accepting => /\ passed[Preferred(prefer)] <= 1 + faults
                       /\ passed[Preferred(~prefer)] <= faults
      BY <2>1 DEF Turns, TurnsCount
    <3> QED BY <2>1, <2>2, <3>1, Counts DEF TurnsCount, Accepting
  <2> QED BY <2>3, <2>4 DEF Turns
<1>12. ASSUME NEW w \in Workers, Finish(w)
       PROVE  Turns'
  <2>1. working[w] \in Rows /\ UNCHANGED <<faults, prefer, stopped, closed>> /\ Counted(passed)
    BY <1>12 DEF Finish
  <2>2. UnderWay' = UnderWay /\ \A v \in Workers : at'[v] = "second" => at[v] = "second"
    BY <1>12 DEF Finish
  <2>3. \A c \in Classes : {i \in c : status'[i] = "queued"} \subseteq Queued(c)
    BY <1>12 DEF Finish, SetStatus, Queued, Classes
  <2> HIDE DEF Safe, TypeOK, LockIsHeld
  <2> QED BY <1>0, <2>1, <2>2, <2>3, TurnsKept DEF Accepting
<1>13. ASSUME NEW w \in Workers, NEW class \in Classes, ClaimFrom(w, class)
       PROVE  Turns'
  <2>1. /\ UnderWay /\ Accepting /\ UNCHANGED <<faults, prefer, stopped, closed>>
        /\ class = Trying(w)
        /\ at[w] \in Trial
        /\ at' = [at EXCEPT ![w] = "running"]
    BY <1>13 DEF ClaimFrom
  <2>2. ~UnderWay' /\ \A v \in Workers : at'[v] # "second"
    BY <1>13, <2>1, ThreadsAssumption DEF ClaimFrom
  <2>3. \E i \in Queued(class) : SetStatus({i}, "running")
    BY <1>13 DEF ClaimFrom
  <2>4. \A c \in Classes :
          /\ Queued(c) = {} => {i \in c : status'[i] = "queued"} = {}
          /\ {i \in c : status'[i] = "queued"} = {} => passed'[c] = 0
          /\ passed'[class] = 0
          /\ passed'[c] \in Nat /\ passed'[c] <= 1 + passed[c]
    <3>1. Counted([c \in Classes |-> IF c = class THEN 0 ELSE Overtaken(passed[c])])
      BY <1>13 DEF ClaimFrom
    <3>2. \A c \in Classes : Queued(c) = {} => {i \in c : status'[i] = "queued"} = {}
      BY <2>3 DEF SetStatus, Queued, Classes
    <3>3. \A c \in Classes : Overtaken(passed[c]) \in Nat /\ Overtaken(passed[c]) <= 1 + passed[c]
      BY DEF Overtaken
    <3> QED BY <3>1, <3>2, <3>3 DEF Counted
  <2>5. CASE at[w] = "first"
    <3>1. class = Preferred(prefer)
      BY <2>1, <2>5 DEF Trying
    <3>2. /\ passed'[Preferred(prefer)] = 0
          /\ passed'[Preferred(~prefer)] <= 1 + faults
      BY <2>1, <2>4, <3>1, Counts DEF Turns, TurnsCount
    <3>3. WaitingCounts' /\ TurnsCount'
      BY <2>1, <2>2, <2>4, <3>2, Counts DEF WaitingCounts, TurnsCount, Queued
    <3>4. BoundedOvertaking'
      BY <2>1, <3>2, Classes2 DEF BoundedOvertaking
    <3> QED BY <3>3, <3>4 DEF Turns
  <2>6. CASE at[w] = "second"
    <3>1. class = Preferred(~prefer)
      BY <2>1, <2>6, Classes2 DEF Trying
    <3>2. /\ passed'[Preferred(prefer)] = 0
          /\ passed'[Preferred(~prefer)] = 0
      BY <2>1, <2>4, <2>6, <3>1, Counts DEF Turns, TurnsCount
    <3>3. WaitingCounts' /\ TurnsCount'
      BY <2>1, <2>2, <2>4, <3>2, Counts DEF WaitingCounts, TurnsCount, Queued
    <3>4. BoundedOvertaking'
      BY <2>1, <3>2, Classes2 DEF BoundedOvertaking
    <3> QED BY <3>3, <3>4 DEF Turns
  <2> QED BY <2>1, <2>5, <2>6
<1>14. CASE Stop
  BY <1>0, <1>14, TurnsUntouched DEF Stop, Queued, Accepting
<1> QED
  BY <1>1, <1>2, <1>3, <1>4, <1>5, <1>6, <1>7, <1>8, <1>9, <1>10, <1>11, <1>12, <1>13, <1>14
     DEF Next, Route, Work

(* A class with work waiting is passed over once, and once more for each      *)
(* claim that SQLite refused, for any number of threads and rows.             *)
THEOREM OvertakingIsBounded == Spec => []BoundedOvertaking
<1>1. Turns => BoundedOvertaking
  BY DEF Turns
<1> QED BY <1>1, SafeInitially, SafeStep, TurnsInitially, TurnsStep, PTL DEF Spec
=============================================================================
