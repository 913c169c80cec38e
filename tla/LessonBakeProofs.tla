-------------------------- MODULE LessonBakeProofs --------------------------
(***************************************************************************)
(* A bake keeps its types, ships only whole lessons, starts afresh only    *)
(* after an outage of every host and spends a bounded number of posts, for *)
(* any number of slots, phases, hosts, attempts, repair rounds,            *)
(* replacements and bakes.                                                 *)
(***************************************************************************)
EXTENDS LessonBake, FiniteSetTheorems, WellFoundedInduction, TLAPS

Inside == Stages \ {"begin", "over"}
Closed == Accepted \cup {"dropped"}

(* Earlier phases are closed and later ones untouched. *)
PhasesInOrder ==
  stage \in Inside =>
    /\ phase \in Phases
    /\ \A s \in Slots :
         /\ PhaseOf[s] > phase => final[s] = "none"
         /\ PhaseOf[s] < phase => final[s] \in Closed

(* Under repair the slots of the phase have a verdict and those still to be *)
(* treated a fault; under replacement all others are closed.                *)
RoundInOrder ==
  stage \in {"repair", "replace"} =>
    /\ todo # {}
    /\ todo \subseteq PhaseSlots(phase)
    /\ \A s \in todo : final[s] \in Faults
    /\ \A s \in PhaseSlots(phase) :
         /\ final[s] \in Closed \cup Faults
         /\ stage = "replace" => s \in todo \/ final[s] \in Closed

(* Nothing is lost between the judgement and the end. *)
JudgedIsWhole ==
  stage \in {"review", "assemble"} \/ result = "shipped" =>
    \A s \in Slots : final[s] \in Accepted

ResultIsLast == stage # "over" => result = "none"

Orderly == TypeOK /\ PhasesInOrder /\ RoundInOrder /\ JudgedIsWhole /\ ResultIsLast

(* A set of numbers has a least one. *)
LEMMA LeastExists ==
  ASSUME NEW T \in SUBSET Nat, T # {}
  PROVE  Min(T) \in T /\ \A y \in T : Min(T) <= y
<1>1. PICK x \in T : \A y \in T : ~ (<<y, x>> \in OpToRel(<, Nat))
  BY NatLessThanWellFounded, WFMin
<1>2. \A y \in T : x <= y
  <2>1. SUFFICES ASSUME NEW y \in T
                 PROVE  x <= y
    OBVIOUS
  <2>2. ~ (y < x)
    BY <1>1 DEF OpToRel
  <2>3. QED
    BY <2>2
<1>3. QED
  BY <1>2 DEF Min

LEMMA PhasesAreNumbers == Phases \subseteq Nat /\ \A s \in Slots : PhaseOf[s] \in Phases
BY BakeAssumption DEF Phases

LEMMA CurrentIsToDo ==
  ASSUME TypeOK, todo # {}
  PROVE  Current \in todo
BY LeastExists, BakeAssumption DEF TypeOK, Current

Verdict == {"none"} \cup Closed \cup Faults

(* What a step that settles the phase, a round or a slot does to the types. *)
Moves ==
  /\ stage' \in Stages
  /\ phase' \in {0} \cup Phases
  /\ final' \in [Slots -> Verdict]
  /\ todo' \subseteq Slots
  /\ round' \in 0 .. MaxRounds
  /\ option' \in Nat

LEMMA NextPhaseMoves ==
  ASSUME TypeOK, NEW f \in [Slots -> Verdict], NextPhase(f)
  PROVE  Moves
<1> DEFINE later == {p \in Phases : p > phase}
<1>1. later # {} => Min(later) \in Phases
  BY LeastExists, PhasesAreNumbers
<1>2. QED
  BY <1>1, BakeAssumption DEF NextPhase, Moves, TypeOK, Stages

LEMMA NextRoundMoves ==
  ASSUME TypeOK, NEW f \in [Slots -> Verdict], NEW r \in Nat, NextRound(f, r)
  PROVE  Moves
<1>1. CASE OpenSlots(f, phase) = {}
  BY <1>1, NextPhaseMoves DEF NextRound
<1>2. CASE OpenSlots(f, phase) # {}
  BY <1>2, BakeAssumption DEF NextRound, OpenSlots, PhaseSlots, Moves, TypeOK, Stages
<1>3. QED
  BY <1>1, <1>2

LEMMA TreatedMoves ==
  ASSUME TypeOK, NEW f \in [Slots -> Verdict], Treated(f)
  PROVE  Moves
<1>1. CASE todo = {Current}
  <2>1. round + 1 \in Nat
    BY BakeAssumption DEF TypeOK
  <2>2. NextRound(f, round + 1)
    BY <1>1 DEF Treated
  <2>3. QED
    BY <2>1, <2>2, NextRoundMoves
<1>2. CASE todo # {Current}
  BY <1>2 DEF Treated, Moves, TypeOK
<1>3. QED
  BY <1>1, <1>2

LEMMA SettledMoves ==
  ASSUME TypeOK, NEW v \in Closed, Settled(v)
  PROVE  Moves
<1> DEFINE f == [final EXCEPT ![Current] = v]
<1>1. f \in [Slots -> Verdict]
  BY DEF TypeOK, Verdict, Closed
<1>2. CASE todo = {Current}
  BY <1>1, <1>2, NextPhaseMoves DEF Settled
<1>3. CASE todo # {Current}
  BY <1>1, <1>3 DEF Settled, Moves, TypeOK
<1>4. QED
  BY <1>2, <1>3

Calls == [host : Hosts \cup {NoHost}, spare : Hosts \cup {NoHost}, tries : Nat, json : BOOLEAN]

LEMMA CallFits ==
  ASSUME NEW h \in Hosts, NEW s \in Hosts \cup {NoHost}
  PROVE  CallOn(h, s) \in Calls
<1>1. (h \in JsonHosts) \in BOOLEAN
  OBVIOUS
<1>2. QED
  BY <1>1, 0 \in Nat, Zenon DEF CallOn, Calls

LEMMA HostsFit ==
  /\ Reviewer \in Hosts
  /\ \A r \in Routes : r \in Hosts /\ FallbackOf[r] \in Hosts \cup {NoHost}
BY DEF Hosts

LEMMA TypeInitially ==
  ASSUME Init
  PROVE  TypeOK
<1>1. NoCall \in Calls
  BY DEF NoCall, Calls
<1>2. QED
  BY <1>1, BakeAssumption DEF Init, TypeOK, Stages, Results, Calls

(* One step keeps every type. *)
LEMMA TypeStep ==
  ASSUME TypeOK, RoundInOrder, [Next]_vars
  PROVE  TypeOK'
<1>0. NoCall \in Calls /\ call \in Calls
  BY DEF NoCall, Calls, TypeOK
<1> SUFFICES /\ bake' \in 1 .. MaxBakes
             /\ Moves
             /\ eligible' \subseteq Slots
             /\ call' \in Calls
             /\ result' \in Results
  BY DEF TypeOK, Moves, Verdict, Closed, Calls
<1>s. ASSUME UNCHANGED <<stage, phase, final, todo, round, option>>
      PROVE  Moves
  BY <1>s DEF Moves, TypeOK, Verdict, Closed
<1>r. ASSUME NEW r \in Results, Return(r)
      PROVE  /\ bake' \in 1 .. MaxBakes
             /\ Moves
             /\ eligible' \subseteq Slots
             /\ call' \in Calls
             /\ result' \in Results
  BY <1>r, <1>0 DEF Return, Moves, TypeOK, Stages, Verdict, Closed
<1>1. CASE UNCHANGED vars
  BY <1>1, <1>0, <1>s DEF vars, TypeOK
<1>2. CASE Begin
  <2>1. Min(Phases) \in Phases
    BY PhasesAreNumbers, LeastExists, BakeAssumption DEF Phases
  <2>2. QED
    BY <1>2, <1>0, <2>1 DEF Begin, Moves, TypeOK, Stages, Verdict
<1>3. CASE RefuseSource
  BY <1>3, <1>r DEF RefuseSource, Results
<1>4. CASE Abandon
  BY <1>4, <1>r DEF Abandon, Results
<1>5. CASE Dial
  <2>1. call' \in Calls
    BY <1>5, HostsFit, CallFits DEF Dial
  <2>2. QED
    BY <1>5, <2>1, <1>s DEF Dial, TypeOK
<1>6. CASE PostAgain
  <2>1. call' \in Calls
    BY <1>6, <1>0 DEF PostAgain, Calls
  <2>2. QED
    BY <1>6, <2>1, <1>s DEF PostAgain, TypeOK
<1>7. CASE LeaveJsonMode
  <2>1. call' \in Calls
    BY <1>7, <1>0 DEF LeaveJsonMode, Calls
  <2>2. QED
    BY <1>7, <2>1, <1>s DEF LeaveJsonMode, TypeOK
<1>8. CASE FailOver
  <2>1. call.spare \in Hosts
    BY <1>8, <1>0 DEF FailOver, Calls
  <2>2. call' \in Calls
    BY <1>8, <2>1, CallFits DEF FailOver
  <2>3. QED
    BY <1>8, <2>2, <1>s DEF FailOver, TypeOK
<1>9. ASSUME NEW how \in {"out", "refused"}, ProviderFails(how)
      PROVE  /\ bake' \in 1 .. MaxBakes
             /\ Moves
             /\ eligible' \subseteq Slots
             /\ call' \in Calls
             /\ result' \in Results
  <2>1. CASE Return("provider_unavailable")
    BY <2>1, <1>r DEF Results
  <2>2. CASE ~ Return("provider_unavailable")
    <3>1. bake' = bake + 1 /\ bake < MaxBakes
      BY <2>2, <1>9 DEF ProviderFails, MayRetry
    <3>2. bake' \in 1 .. MaxBakes
      BY <3>1, BakeAssumption DEF TypeOK
    <3>3. /\ stage' = "begin"
          /\ phase' = 0
          /\ call' = NoCall
          /\ UNCHANGED <<final, eligible, todo, round, option, result>>
      BY <2>2, <1>9 DEF ProviderFails
    <3>4. Moves
      BY <3>3 DEF Moves, TypeOK, Stages, Verdict, Closed
    <3>5. QED
      BY <3>2, <3>3, <3>4, <1>0 DEF TypeOK
  <2>3. QED
    BY <2>1, <2>2
<1>10. CASE AnswerUnusable
  BY <1>10, <1>r DEF AnswerUnusable, Results
<1>11. CASE EngineBreaks
  BY <1>11, <1>r DEF EngineBreaks, Results
<1>12. CASE PhaseDelivered
  <2>1. PICK v \in [PhaseSlots(phase) -> {"ready"} \cup Faults] :
          /\ eligible' = eligible \cup {s \in PhaseSlots(phase) : v[s] \in {"rule", "items"}}
          /\ NextRound([s \in Slots |-> IF s \in PhaseSlots(phase) THEN v[s] ELSE final[s]], 1)
    BY <1>12 DEF PhaseDelivered
  <2>2. [s \in Slots |-> IF s \in PhaseSlots(phase) THEN v[s] ELSE final[s]] \in [Slots -> Verdict]
    BY DEF TypeOK, Verdict, Closed, Accepted
  <2>3. Moves
    BY <2>1, <2>2, NextRoundMoves
  <2>4. eligible' \subseteq Slots
    BY <2>1 DEF TypeOK, PhaseSlots
  <2>5. QED
    BY <1>12, <1>0, <2>3, <2>4 DEF PhaseDelivered, TypeOK
<1>13. CASE RepairDelivered
  <2>1. PICK v \in Verdicts(Current) :
          /\ eligible' = eligible \cup {s \in {Current} : v \in {"rule", "items"}}
          /\ Treated([final EXCEPT ![Current] = v])
    BY <1>13 DEF RepairDelivered
  <2>2. [final EXCEPT ![Current] = v] \in [Slots -> Verdict]
    BY DEF TypeOK, Verdict, Closed, Accepted, Verdicts, Faults
  <2>3. Moves
    BY <2>1, <2>2, TreatedMoves
  <2>4. eligible' \subseteq Slots
    <3>1. Current \in Slots
      BY <1>13, CurrentIsToDo DEF RepairDelivered, RoundInOrder, TypeOK
    <3>2. QED
      BY <2>1, <3>1 DEF TypeOK
  <2>5. QED
    BY <1>13, <1>0, <2>3, <2>4 DEF RepairDelivered, TypeOK
<1>14. CASE RepairLost
  <2>1. [final EXCEPT ![Current] = IF @ = "items" THEN "rule" ELSE @] \in [Slots -> Verdict]
    BY DEF TypeOK, Verdict, Closed, Faults
  <2>2. Moves
    BY <1>14, <2>1, TreatedMoves DEF RepairLost
  <2>3. QED
    BY <1>14, <1>0, <2>2 DEF RepairLost, TypeOK
<1>15. CASE ReplacementTried
  <2>1. ASSUME Settled("spare")
        PROVE  Moves
    BY <2>1, SettledMoves DEF Closed, Accepted
  <2>2. Moves
    BY <1>15, <2>1 DEF ReplacementTried, Moves, TypeOK, Verdict, Closed
  <2>3. QED
    BY <1>15, <1>0, <2>2 DEF ReplacementTried, TypeOK
<1>16. CASE SlotDropped
  <2>1. Moves
    BY <1>16, SettledMoves DEF SlotDropped, Closed
  <2>2. QED
    BY <1>16, <1>0, <2>1 DEF SlotDropped, TypeOK
<1>17. CASE Judge
  <2>1. CASE Return("floor_unmet")
    BY <2>1, <1>r DEF Results
  <2>2. CASE ~ Return("floor_unmet")
    BY <1>17, <2>2, <1>0 DEF Judge, TypeOK, Moves, Stages, Verdict, Closed
  <2>3. QED
    BY <2>1, <2>2
<1>18. CASE ReviewDelivered
  <2>1. CASE Return("floor_unmet")
    BY <2>1, <1>r DEF Results
  <2>2. CASE ~ Return("floor_unmet")
    BY <1>18, <2>2, <1>0 DEF ReviewDelivered, TypeOK, Moves, Stages, Verdict, Closed
  <2>3. QED
    BY <2>1, <2>2
<1>19. CASE ReviewUnasked
  <2>1. ASSUME NEW r \in {"floor_unmet", "generation_failed"}, Return(r)
        PROVE  /\ bake' \in 1 .. MaxBakes
               /\ Moves
               /\ eligible' \subseteq Slots
               /\ call' \in Calls
               /\ result' \in Results
    BY <2>1, <1>r DEF Results
  <2>2. ASSUME stage' = "assemble",
               UNCHANGED <<bake, phase, final, eligible, todo, round, option, call, result>>
        PROVE  /\ bake' \in 1 .. MaxBakes
               /\ Moves
               /\ eligible' \subseteq Slots
               /\ call' \in Calls
               /\ result' \in Results
    BY <2>2, <1>0 DEF TypeOK, Moves, Stages, Verdict, Closed
  <2>3. QED
    BY <1>19, <2>1, <2>2 DEF ReviewUnasked
<1>20. CASE Ship
  BY <1>20, <1>r DEF Ship, Results
<1>21. QED
  BY <1>1, <1>2, <1>3, <1>4, <1>5, <1>6, <1>7, <1>8, <1>9, <1>10, <1>11, <1>12, <1>13,
     <1>14, <1>15, <1>16, <1>17, <1>18, <1>19, <1>20 DEF Next

(* The verdicts f respect the order of the phases, up to the current one. *)
Ordered(f) ==
  /\ phase \in Phases
  /\ \A s \in Slots :
       /\ PhaseOf[s] > phase => f[s] = "none"
       /\ PhaseOf[s] < phase => f[s] \in Closed
       /\ PhaseOf[s] = phase => f[s] \in Closed \cup Faults

LEMMA NextPhaseInOrder ==
  ASSUME TypeOK, NEW f \in [Slots -> Verdict], Ordered(f), NextPhase(f),
         \A s \in PhaseSlots(phase) : f[s] \in Closed
  PROVE  PhasesInOrder' /\ RoundInOrder'
<1> DEFINE later == {p \in Phases : p > phase}
<1>0. /\ Phases \subseteq Nat
      /\ phase \in Nat
      /\ \A s \in Slots : PhaseOf[s] \in Phases /\ PhaseOf[s] \in Nat
  BY PhasesAreNumbers DEF Ordered
<1>1. final' = f /\ stage' \in {"judge", "generate"}
  BY DEF NextPhase
<1>2. RoundInOrder'
  BY <1>1 DEF RoundInOrder
<1>3. \A s \in Slots : PhaseOf[s] <= phase => f[s] \in Closed
  BY <1>0 DEF Ordered, PhaseSlots
<1>4. CASE later = {}
  <2>1. phase' = phase
    BY <1>4 DEF NextPhase
  <2>2. \A s \in Slots : PhaseOf[s] <= phase
    BY <1>0, <1>4
  <2>3. QED
    BY <1>0, <1>1, <1>2, <1>3, <2>1, <2>2 DEF PhasesInOrder, Ordered
<1>5. CASE later # {}
  <2>1. phase' \in later /\ \A p \in later : phase' <= p
    <3>1. phase' = Min(later)
      BY <1>5 DEF NextPhase
    <3>2. later \in SUBSET Nat
      BY <1>0
    <3>3. QED
      BY <1>5, <3>1, <3>2, LeastExists
  <2>2. \A s \in Slots : PhaseOf[s] < phase' => PhaseOf[s] <= phase
    BY <1>0, <2>1
  <2>3. \A s \in Slots : PhaseOf[s] > phase' => PhaseOf[s] > phase
    BY <1>0, <2>1
  <2>4. phase' \in Phases
    BY <2>1
  <2>5. QED
    BY <1>1, <1>2, <1>3, <2>2, <2>3, <2>4 DEF PhasesInOrder, Ordered
<1>6. QED
  BY <1>4, <1>5

LEMMA NextRoundInOrder ==
  ASSUME TypeOK, NEW f \in [Slots -> Verdict], NEW r \in Nat, Ordered(f), NextRound(f, r)
  PROVE  PhasesInOrder' /\ RoundInOrder'
<1>0. \A s \in Slots : PhaseOf[s] \in Nat
  BY PhasesAreNumbers
<1>1. CASE OpenSlots(f, phase) = {}
  <2>1. \A s \in PhaseSlots(phase) : f[s] \in Closed
    BY <1>1 DEF OpenSlots, Ordered, PhaseSlots
  <2>2. QED
    BY <1>1, <2>1, NextPhaseInOrder DEF NextRound
<1>2. CASE OpenSlots(f, phase) # {}
  <2>1. /\ final' = f
        /\ phase' = phase
        /\ stage' \in {"repair", "replace"}
        /\ todo' = OpenSlots(f, phase)
    BY <1>2 DEF NextRound
  <2>2. PhasesInOrder'
    BY <2>1 DEF PhasesInOrder, Ordered
  <2>3. RoundInOrder'
    BY <1>2, <2>1 DEF RoundInOrder, Ordered, OpenSlots, PhaseSlots
  <2>4. QED
    BY <2>2, <2>3
<1>3. QED
  BY <1>1, <1>2

LEMMA TreatedInOrder ==
  ASSUME TypeOK, stage = "repair", PhasesInOrder, RoundInOrder,
         NEW v \in {"ready"} \cup Faults,
         Treated([final EXCEPT ![Current] = v])
  PROVE  PhasesInOrder' /\ RoundInOrder'
<1> DEFINE f == [final EXCEPT ![Current] = v]
<1>1. Current \in todo /\ todo \subseteq PhaseSlots(phase)
  BY CurrentIsToDo DEF RoundInOrder
<1>2. f \in [Slots -> Verdict]
  BY DEF TypeOK, Verdict, Closed, Accepted
<1>3. Ordered(f)
  BY <1>1, PhasesAreNumbers
     DEF PhasesInOrder, RoundInOrder, Ordered, Inside, Stages, PhaseSlots, TypeOK, Closed, Accepted
<1>4. CASE todo = {Current}
  <2>1. NextRound(f, round + 1)
    BY <1>4 DEF Treated
  <2>2. round + 1 \in Nat
    BY BakeAssumption DEF TypeOK
  <2>3. QED
    BY <1>2, <1>3, <2>1, <2>2, NextRoundInOrder
<1>5. CASE todo # {Current}
  <2>1. /\ final' = f
        /\ todo' = todo \ {Current}
        /\ stage' = stage
        /\ phase' = phase
    BY <1>5 DEF Treated
  <2>2. PhasesInOrder'
    BY <1>3, <2>1 DEF PhasesInOrder, Ordered
  <2>3. RoundInOrder'
    <3>1. todo' # {} /\ todo' \subseteq PhaseSlots(phase)
      BY <1>1, <1>5, <2>1
    <3>2. QED
      BY <1>3, <2>1, <3>1 DEF RoundInOrder, Ordered, PhaseSlots
  <2>4. QED
    BY <2>2, <2>3
<1>6. QED
  BY <1>4, <1>5

LEMMA SettledInOrder ==
  ASSUME TypeOK, stage = "replace", PhasesInOrder, RoundInOrder,
         NEW v \in Closed, Settled(v)
  PROVE  PhasesInOrder' /\ RoundInOrder'
<1> DEFINE f == [final EXCEPT ![Current] = v]
<1>1. Current \in todo /\ todo \subseteq PhaseSlots(phase)
  BY CurrentIsToDo DEF RoundInOrder
<1>2. f \in [Slots -> Verdict]
  BY DEF TypeOK, Verdict, Closed
<1>3. Ordered(f)
  BY <1>1, PhasesAreNumbers
     DEF PhasesInOrder, RoundInOrder, Ordered, Inside, Stages, PhaseSlots, TypeOK
<1>4. CASE todo = {Current}
  <2>1. \A s \in PhaseSlots(phase) : f[s] \in Closed
    BY <1>1, <1>4 DEF RoundInOrder, TypeOK, PhaseSlots
  <2>2. NextPhase(f)
    BY <1>4 DEF Settled
  <2>3. QED
    BY <1>2, <1>3, <2>1, <2>2, NextPhaseInOrder
<1>5. CASE todo # {Current}
  <2>1. /\ final' = f
        /\ todo' = todo \ {Current}
        /\ stage' = stage
        /\ phase' = phase
    BY <1>5 DEF Settled
  <2>2. PhasesInOrder'
    BY <1>3, <2>1 DEF PhasesInOrder, Ordered
  <2>3. RoundInOrder'
    <3>1. todo' # {} /\ todo' \subseteq PhaseSlots(phase)
      BY <1>1, <1>5, <2>1
    <3>2. \A s \in PhaseSlots(phase) : s \in todo' \/ f[s] \in Closed
      BY <1>1, <2>1 DEF RoundInOrder, TypeOK, PhaseSlots
    <3>3. QED
      BY <1>3, <2>1, <3>1, <3>2 DEF RoundInOrder, Ordered, PhaseSlots
  <2>4. QED
    BY <2>2, <2>3
<1>6. QED
  BY <1>4, <1>5

LEMMA OrderlyInitially ==
  ASSUME Init
  PROVE  Orderly
<1>1. TypeOK
  BY TypeInitially
<1>2. QED
  BY <1>1 DEF Init, Orderly, PhasesInOrder, RoundInOrder, JudgedIsWhole, ResultIsLast, Inside

Undisturbed == UNCHANGED <<stage, phase, final, todo, result>>

(* One step keeps the order of the phases, the rounds and the judgement. *)
LEMMA OrderStep ==
  ASSUME Orderly, [Next]_vars
  PROVE  PhasesInOrder' /\ RoundInOrder' /\ JudgedIsWhole' /\ ResultIsLast'
<1> USE DEF Orderly
<1> DEFINE Goal == PhasesInOrder' /\ RoundInOrder' /\ JudgedIsWhole' /\ ResultIsLast'
<1>u. ASSUME Undisturbed
      PROVE  Goal
  BY <1>u DEF Undisturbed, PhasesInOrder, RoundInOrder, JudgedIsWhole, ResultIsLast
<1>r. ASSUME NEW r \in Results, Return(r), r # "shipped"
      PROVE  Goal
  <2>1. stage' = "over" /\ result' = r
    BY <1>r DEF Return
  <2>2. QED
    BY <1>r, <2>1 DEF PhasesInOrder, RoundInOrder, JudgedIsWhole, ResultIsLast, Inside
<1>n. ASSUME PhasesInOrder', RoundInOrder', result' = result, stage # "over",
             stage' \in {"generate", "repair", "replace", "judge"}
      PROVE  Goal
  BY <1>n DEF JudgedIsWhole, ResultIsLast
<1>p. ASSUME stage = "review", stage' = "assemble", UNCHANGED <<phase, final, todo, result>>
      PROVE  Goal
  BY <1>p DEF PhasesInOrder, RoundInOrder, JudgedIsWhole, ResultIsLast, Inside, Stages
<1>s. ASSUME NEW f, NEW r, NextPhase(f) \/ NextRound(f, r)
      PROVE  stage' \in {"generate", "repair", "replace", "judge"}
  BY <1>s DEF NextPhase, NextRound
<1>1. CASE UNCHANGED vars
  BY <1>1, <1>u DEF vars, Undisturbed
<1>2. CASE Begin
  <2>1. Min(Phases) \in Phases /\ \A p \in Phases : Min(Phases) <= p
    BY PhasesAreNumbers, LeastExists, BakeAssumption DEF Phases
  <2>2. \A s \in Slots : ~ (PhaseOf[s] < Min(Phases))
    <3>1. Min(Phases) \in Nat /\ \A s \in Slots : PhaseOf[s] \in Phases /\ PhaseOf[s] \in Nat
      BY <2>1, PhasesAreNumbers
    <3>2. QED
      BY <2>1, <3>1
  <2>3. /\ stage = "begin" /\ stage' = "generate" /\ phase' = Min(Phases)
        /\ \A s \in Slots : final'[s] = "none"
        /\ result' = result
    BY <1>2 DEF Begin
  <2>4. PhasesInOrder' /\ RoundInOrder'
    BY <2>1, <2>2, <2>3 DEF PhasesInOrder, RoundInOrder
  <2>5. QED
    BY <2>3, <2>4, <1>n
<1>3. CASE RefuseSource
  BY <1>3, <1>r DEF RefuseSource, Results
<1>4. CASE Abandon
  BY <1>4, <1>r DEF Abandon, Results
<1>5. CASE Dial \/ PostAgain \/ LeaveJsonMode \/ FailOver
  BY <1>5, <1>u DEF Dial, PostAgain, LeaveJsonMode, FailOver, Undisturbed
<1>6. ASSUME NEW how \in {"out", "refused"}, ProviderFails(how)
      PROVE  Goal
  <2>1. CASE Return("provider_unavailable")
    BY <2>1, <1>r DEF Results
  <2>2. CASE ~ Return("provider_unavailable")
    <3>1. stage # "over" /\ stage' = "begin" /\ result' = result
      BY <2>2, <1>6 DEF ProviderFails
    <3>2. QED
      BY <3>1 DEF PhasesInOrder, RoundInOrder, JudgedIsWhole, ResultIsLast, Inside
  <2>3. QED
    BY <2>1, <2>2
<1>7. CASE AnswerUnusable
  BY <1>7, <1>r DEF AnswerUnusable, Results
<1>8. CASE EngineBreaks
  BY <1>8, <1>r DEF EngineBreaks, Results
<1>9. CASE PhaseDelivered
  <2>1. PICK v \in [PhaseSlots(phase) -> {"ready"} \cup Faults] :
          NextRound([s \in Slots |-> IF s \in PhaseSlots(phase) THEN v[s] ELSE final[s]], 1)
    BY <1>9 DEF PhaseDelivered
  <2> DEFINE f == [s \in Slots |-> IF s \in PhaseSlots(phase) THEN v[s] ELSE final[s]]
  <2>2. f \in [Slots -> Verdict]
    BY DEF TypeOK, Verdict, Closed, Accepted
  <2>3. stage = "generate"
    BY <1>9 DEF PhaseDelivered
  <2>4. Ordered(f)
    BY <2>3, PhasesAreNumbers
       DEF Ordered, PhasesInOrder, Inside, Stages, PhaseSlots, Closed, Accepted
  <2>5. PhasesInOrder' /\ RoundInOrder'
    BY <2>1, <2>2, <2>4, NextRoundInOrder
  <2>6. result' = result
    BY <1>9 DEF PhaseDelivered
  <2>7. stage' \in {"generate", "repair", "replace", "judge"}
    BY <2>1, <1>s
  <2>8. QED
    BY <2>3, <2>5, <2>6, <2>7, <1>n
<1>10. ASSUME stage = "repair", result' = result,
              NEW v \in {"ready"} \cup Faults, Treated([final EXCEPT ![Current] = v])
       PROVE  Goal
  <2>1. PhasesInOrder' /\ RoundInOrder'
    BY <1>10, TreatedInOrder
  <2>2. stage' \in {"generate", "repair", "replace", "judge"}
    BY <1>10, <1>s DEF Treated
  <2>3. QED
    BY <1>10, <2>1, <2>2, <1>n
<1>11. CASE RepairDelivered
  <2>1. PICK v \in Verdicts(Current) : Treated([final EXCEPT ![Current] = v])
    BY <1>11 DEF RepairDelivered
  <2>2. v \in {"ready"} \cup Faults
    BY DEF Verdicts, Faults
  <2>3. QED
    BY <1>11, <2>1, <2>2, <1>10 DEF RepairDelivered
<1>12. CASE RepairLost
  <2> DEFINE v == IF final[Current] = "items" THEN "rule" ELSE final[Current]
  <2>0. stage = "repair" /\ result' = result
    BY <1>12 DEF RepairLost
  <2>1. Current \in todo /\ todo \subseteq PhaseSlots(phase)
    BY <2>0, CurrentIsToDo DEF RoundInOrder
  <2>2. Current \in Slots
    BY <2>1 DEF PhaseSlots
  <2>3. Treated([final EXCEPT ![Current] = v])
    BY <1>12, <2>2 DEF RepairLost, TypeOK
  <2>4. QED
    BY <2>0, <2>1, <2>3, <1>10 DEF RoundInOrder, Faults
<1>13. ASSUME stage = "replace", result' = result, NEW v \in Closed, Settled(v)
       PROVE  Goal
  <2>1. PhasesInOrder' /\ RoundInOrder'
    BY <1>13, SettledInOrder
  <2>2. stage' \in {"generate", "repair", "replace", "judge"}
    BY <1>13, <1>s DEF Settled
  <2>3. QED
    BY <1>13, <2>1, <2>2, <1>n
<1>14. CASE ReplacementTried
  <2>1. CASE Settled("spare")
    BY <1>14, <2>1, <1>13 DEF ReplacementTried, Closed, Accepted
  <2>2. CASE ~ Settled("spare")
    BY <1>14, <2>2, <1>u DEF ReplacementTried, Undisturbed
  <2>3. QED
    BY <2>1, <2>2
<1>15. CASE SlotDropped
  BY <1>15, <1>13 DEF SlotDropped, Closed
<1>16. CASE Judge
  <2>1. CASE Return("floor_unmet")
    BY <2>1, <1>r DEF Results
  <2>2. CASE ~ Return("floor_unmet")
    BY <1>16, <2>2
       DEF Judge, WholeDraft, PhasesInOrder, RoundInOrder, JudgedIsWhole, ResultIsLast, Inside, Stages
  <2>3. QED
    BY <2>1, <2>2
<1>17. CASE ReviewDelivered \/ ReviewUnasked
  <2>1. ASSUME NEW r \in {"floor_unmet", "generation_failed"}, Return(r)
        PROVE  Goal
    BY <2>1, <1>r DEF Results
  <2>2. \/ \E r \in {"floor_unmet", "generation_failed"} : Return(r)
        \/ /\ stage = "review"
           /\ stage' = "assemble"
           /\ UNCHANGED <<phase, final, todo, result>>
    BY <1>17 DEF ReviewDelivered, ReviewUnasked
  <2>3. QED
    BY <2>1, <2>2, <1>p
<1>18. CASE Ship
  <2>1. /\ stage = "assemble" /\ stage' = "over"
        /\ UNCHANGED <<phase, final, todo>>
    BY <1>18 DEF Ship, Return
  <2>2. QED
    BY <2>1 DEF PhasesInOrder, RoundInOrder, JudgedIsWhole, ResultIsLast, Inside
<1>19. QED
  BY <1>1, <1>2, <1>3, <1>4, <1>5, <1>6, <1>7, <1>8, <1>9, <1>11, <1>12, <1>14, <1>15,
     <1>16, <1>17, <1>18 DEF Next

(* At every moment of a bake the phases, the repair rounds and the judgement *)
(* are in order: the invariant the next theorems rest on.                    *)
THEOREM OrderlyAlways == Spec => []Orderly
<1>1. Init => Orderly
  BY OrderlyInitially
<1>2. Orderly /\ [Next]_vars => Orderly'
  BY TypeStep, OrderStep DEF Orderly
<1>3. QED
  BY <1>1, <1>2, PTL DEF Spec

(* The bake, its call and its verdicts keep their types. *)
THEOREM TypeCorrect == Spec => []TypeOK
<1>1. Orderly => TypeOK
  BY DEF Orderly
<1>2. QED
  BY <1>1, OrderlyAlways, PTL

(* A lesson with a hole is neither reviewed nor shipped, and no phase is left *)
(* before each of its slots is accepted or given up (the judgement of         *)
(* engine_adapter_v3.py over every phase's evaluation).                       *)
THEOREM OnlyWholeLessons == Spec => []WholeLessonsOnly
<1>1. Orderly => WholeLessonsOnly
  BY DEF Orderly, TypeOK, PhasesInOrder, JudgedIsWhole, WholeLessonsOnly, Inside, Closed
<1>2. QED
  BY <1>1, OrderlyAlways, PTL

-----------------------------------------------------------------------------
(* The budget of posts.                                                    *)

(* A finite set of numbers has an upper bound. *)
LEMMA BoundExists ==
  ASSUME NEW S \in SUBSET Nat, IsFiniteSet(S)
  PROVE  \E b \in Nat : \A x \in S : x <= b
<1> DEFINE Bounded(T) == \E b \in Nat : \A x \in T : x <= b
           Bad == {T \in SUBSET S : ~ Bounded(T)}
<1>1. SUFFICES ASSUME Bad # {}
               PROVE  FALSE
  BY DEF Bad
<1>2. Bad \subseteq FiniteSubsetsOf(S)
  BY FS_FiniteSubsetsOfFinite
<1>3. PICK T \in Bad : \A U \in Bad : ~ (<<U, T>> \in StrictSubsetOrdering(S))
  BY <1>1, <1>2, FS_StrictSubsetOrderingWellFounded, WFMin
<1>4. PICK t \in T : TRUE
  BY <1>3, 0 \in Nat
<1>5. T \ {t} \notin Bad
  <2>1. <<T \ {t}, T>> \in StrictSubsetOrdering(S)
    BY <1>3, <1>4 DEF StrictSubsetOrdering
  <2>2. QED
    BY <1>3, <2>1
<1>6. PICK b \in Nat : \A x \in T \ {t} : x <= b
  BY <1>3, <1>5
<1>7. T \subseteq Nat /\ t \in Nat
  BY <1>3, <1>4
<1>8. \A x \in T : x <= b + t
  BY <1>6, <1>7
<1>9. b + t \in Nat
  BY <1>6, <1>7
<1>10. Bounded(T)
  BY <1>8, <1>9
<1>11. QED
  BY <1>3, <1>10

(* A finite set of numbers has a greatest one. *)
LEMMA GreatestExists ==
  ASSUME NEW S \in SUBSET Nat, IsFiniteSet(S), S # {}
  PROVE  Max(S) \in S /\ \A x \in S : Max(S) >= x
<1> DEFINE B == {b \in Nat : \A x \in S : x <= b}
           m == Min(B)
<1>1. B \in SUBSET Nat /\ B # {}
  BY BoundExists
<1>2. m \in B /\ \A b \in B : m <= b
  BY <1>1, LeastExists
<1>3. m \in S
  <2>1. SUFFICES ASSUME m \notin S
                 PROVE  FALSE
    OBVIOUS
  <2>2. PICK x \in S : TRUE
    OBVIOUS
  <2>3. \A y \in S : y \in Nat /\ y < m
    BY <1>2, <2>1
  <2>4. m \in Nat /\ m > 0
    BY <1>2, <2>2, <2>3
  <2>5. m - 1 \in B
    <3>1. \A y \in S : y <= m - 1
      BY <2>3, <2>4
    <3>2. m - 1 \in Nat
      BY <2>4
    <3>3. QED
      BY <3>1, <3>2
  <2>6. m <= m - 1
    BY <1>2, <2>5
  <2>7. QED
    BY <2>4, <2>6
<1>4. \A x \in S : m >= x
  BY <1>2
<1>5. QED
  BY <1>3, <1>4 DEF Max

(* What one call may take is bounded, and the bound is a number. *)
LEMMA MostPostsBounds ==
  /\ MostPosts \in Nat
  /\ CallPosts(CallOn(Reviewer, NoHost)) <= MostPosts
  /\ \A r \in Routes : CallPosts(CallOn(r, FallbackOf[r])) <= MostPosts
<1> DEFINE F(r) == CallPosts(CallOn(r, FallbackOf[r]))
           R == {F(r) : r \in Routes}
           S == R \cup {CallPosts(CallOn(Reviewer, NoHost))}
<1>0. \A h \in Hosts : Attempts[h] \in Nat
  BY BakeAssumption
<1>1. \A h \in Hosts, s \in Hosts \cup {NoHost} : CallPosts(CallOn(h, s)) \in Nat
  BY <1>0 DEF CallPosts, CallOn
<1>2. S \in SUBSET Nat
  BY <1>1, HostsFit, NoHost \in Hosts \cup {NoHost}
<1>3. IsFiniteSet(R)
  <2> DEFINE f == [r \in Routes |-> F(r)]
  <2> HIDE DEF F
  <2>1. f \in Surjection(Routes, R)
    BY DEF Surjection
  <2>2. QED
    BY <2>1, BakeAssumption, FS_Surjection
<1>4. IsFiniteSet(S)
  <2> HIDE DEF R
  <2>1. QED
    BY <1>3, FS_AddElement
<1>5. Max(S) \in S /\ \A x \in S : Max(S) >= x
  <2> HIDE DEF S
  <2>1. S # {}
    BY DEF S
  <2>2. QED
    BY <1>2, <1>4, <2>1, GreatestExists
<1>6. MostPosts = Max(S)
  BY DEF MostPosts
<1>7. \A x \in S : x <= MostPosts
  BY <1>2, <1>5, <1>6
<1>8. QED
  BY <1>2, <1>5, <1>6, <1>7

LEMMA OptionsHaveLength == \A s \in Slots : Len(Options(s)) \in Nat
<1>1. \A s \in Slots : Spares[s] \in Seq({"asked", "built"})
  BY BakeAssumption
<1>2. ASSUME NEW s \in Slots
      PROVE  Len(Options(s)) \in Nat
  <2>1. CASE s \in Questions
    <3>1. Options(s) = <<"asked">> \o Spares[s]
      BY <2>1 DEF Options
    <3>2. <<"asked">> \in Seq({"asked", "built"})
      OBVIOUS
    <3>3. QED
      BY <1>1, <3>1, <3>2
  <2>2. CASE s \notin Questions
    <3>1. Options(s) = <<>> \o Spares[s]
      BY <2>2 DEF Options
    <3>2. <<>> \in Seq({"asked", "built"})
      OBVIOUS
    <3>3. QED
      BY <1>1, <3>1, <3>2
  <2>3. QED
    BY <2>1, <2>2
<1>3. QED
  BY <1>2

(* One bake has a finite number of calls to make. *)
LEMMA CallsAreFinite == IsFiniteSet(BakeCalls)
<1> DEFINE G == [kind : {"generate"}, of : Phases, turn : {0}]
           E == [kind : {"repair"}, of : Slots, turn : 1 .. MaxRounds]
           P(s) == [kind : {"replace"}, of : {s}, turn : Asked(s)]
           PP == {P(s) : s \in Slots}
           V == [kind : {"review"}, of : {0}, turn : {0}]
<1>1. IsFiniteSet(G)
  <2>1. IsFiniteSet(Phases)
    <3> DEFINE f == [s \in Slots |-> PhaseOf[s]]
    <3>1. f \in Surjection(Slots, Phases)
      BY DEF Surjection, Phases
    <3>2. QED
      BY <3>1, BakeAssumption, FS_Surjection
  <2> DEFINE g == [c \in G |-> c.of]
  <2>2. g \in Injection(G, Phases)
    BY DEF Injection, IsInjective
  <2>3. QED
    BY <2>1, <2>2, FS_Injection
<1>2. IsFiniteSet(E)
  <2> DEFINE R == 1 .. MaxRounds
             g == [c \in E |-> <<c.of, c.turn>>]
  <2>0. IsFiniteSet(R)
    BY BakeAssumption, FS_Interval, 1 \in Int
  <2>1. IsFiniteSet(Slots \X R)
    <3> HIDE DEF R
    <3>1. QED
      BY <2>0, BakeAssumption, FS_Product
  <2>2. g \in Injection(E, Slots \X R)
    BY DEF Injection, IsInjective
  <2>3. QED
    BY <2>1, <2>2, FS_Injection
<1>3. IsFiniteSet(UNION PP)
  <2>1. ASSUME NEW s \in Slots
        PROVE  IsFiniteSet(P(s))
    <3> DEFINE L == 1 .. Len(Options(s))
    <3>1. IsFiniteSet(L)
      BY OptionsHaveLength, FS_Interval
    <3>2. IsFiniteSet(Asked(s))
      <4>1. Asked(s) \in SUBSET L
        BY DEF Asked
      <4>2. QED
        BY <3>1, <4>1, FS_Subset
    <3> DEFINE g == [c \in P(s) |-> c.turn]
    <3>3. g \in Injection(P(s), Asked(s))
      BY DEF Injection, IsInjective
    <3>4. QED
      BY <3>2, <3>3, FS_Injection
  <2> HIDE DEF P
  <2> DEFINE f == [s \in Slots |-> P(s)]
  <2>2. f \in Surjection(Slots, PP)
    BY DEF Surjection
  <2>3. IsFiniteSet(PP)
    BY <2>2, BakeAssumption, FS_Surjection
  <2>4. QED
    BY <2>1, <2>3, FS_UNION
<1>4. IsFiniteSet(V)
  <2> DEFINE g == [c \in V |-> c.of]
  <2>1. g \in Injection(V, {0})
    BY DEF Injection, IsInjective
  <2>2. QED
    BY <2>1, FS_Singleton, FS_Injection
<1>5. BakeCalls = G \cup E \cup (UNION PP) \cup V
  BY DEF BakeCalls
<1> HIDE DEF G, E, PP, V
<1>6. IsFiniteSet(G \cup E)
  BY <1>1, <1>2, FS_Union
<1>7. IsFiniteSet(G \cup E \cup (UNION PP))
  BY <1>3, <1>6, FS_Union
<1>8. IsFiniteSet(G \cup E \cup (UNION PP) \cup V)
  <2> DEFINE W == G \cup E \cup (UNION PP)
  <2>1. IsFiniteSet(W)
    BY <1>7
  <2> HIDE DEF W
  <2>2. IsFiniteSet(W \cup V)
    BY <1>4, <2>1, FS_Union
  <2>3. QED
    BY <2>2 DEF W
<1>9. QED
  BY <1>5, <1>8

(* An open call is one the stage makes, at a host with an attempt left, and *)
(* has at most the posts of any call left.                                  *)
CallInOrder ==
  call # NoCall =>
    /\ AsksProvider
    /\ call.host \in Hosts
    /\ call.tries < Attempts[call.host]
    /\ CallPosts(call) <= MostPosts

(* Rounds and replacements are counted from one. *)
TurnsInOrder ==
  /\ stage = "repair" => round >= 1
  /\ stage = "replace" => option >= 1

Budgeted == Orderly /\ CallInOrder /\ TurnsInOrder

(* The call the stage at hand makes. *)
AtHand ==
  CASE stage = "generate" -> [kind |-> "generate", of |-> phase, turn |-> 0]
    [] stage = "repair" -> [kind |-> "repair", of |-> Current, turn |-> round]
    [] stage = "replace" -> [kind |-> "replace", of |-> Current, turn |-> option]
    [] OTHER -> [kind |-> "review", of |-> 0, turn |-> 0]

LEMMA CallKinds ==
  \A c \in BakeCalls :
    \/ c.kind = "generate" /\ c.of \in Phases /\ c.turn = 0
    \/ c.kind = "repair" /\ c.of \in Slots /\ c.turn \in 1 .. MaxRounds
    \/ c.kind = "replace" /\ c.of \in Slots /\ c.turn \in Asked(c.of)
    \/ c.kind = "review" /\ c.of = 0 /\ c.turn = 0
BY DEF BakeCalls

(* The stage's call is one of those still ahead. *)
LEMMA AtHandIsAhead ==
  ASSUME Budgeted, AsksProvider
  PROVE  AtHand \in CallsLeft
<1> USE DEF Budgeted, Orderly
<1>1. CASE stage = "generate"
  <2>1. phase \in Phases
    BY <1>1 DEF PhasesInOrder, Inside, Stages
  <2>2. AtHand \in [kind : {"generate"}, of : Phases, turn : {0}]
    BY <1>1, <2>1 DEF AtHand
  <2>3. AtHand \in BakeCalls
    BY <2>2 DEF BakeCalls
  <2>4. Ahead(AtHand)
    BY <1>1 DEF Ahead, AtHand, PhaseAsked
  <2>5. QED
    BY <2>3, <2>4 DEF CallsLeft
<1>2. CASE stage = "repair"
  <2>1. /\ Current \in todo /\ Current \in Slots
        /\ Current \in OpenSlots(final, phase)
    BY <1>2, CurrentIsToDo DEF RoundInOrder, TypeOK, OpenSlots, PhaseSlots
  <2>2. round \in 1 .. MaxRounds
    BY <1>2, BakeAssumption DEF TurnsInOrder, TypeOK
  <2>3. AtHand = [kind |-> "repair", of |-> Current, turn |-> round]
    BY <1>2 DEF AtHand
  <2>4. AtHand \in BakeCalls
    BY <2>1, <2>2, <2>3 DEF BakeCalls
  <2>5. Ahead(AtHand)
    BY <1>2, <2>1, <2>3 DEF Ahead
  <2>6. QED
    BY <2>4, <2>5 DEF CallsLeft
<1>3. CASE stage = "replace"
  <2>1. Current \in todo /\ Current \in Slots
    BY <1>3, CurrentIsToDo DEF RoundInOrder, TypeOK
  <2>2. option \in Asked(Current)
    <3>1. option <= Len(Options(Current)) /\ Options(Current)[option] = "asked"
      BY <1>3 DEF AsksProvider, MayReplace
    <3>2. option \in Nat /\ option >= 1 /\ Len(Options(Current)) \in Nat
      BY <1>3, <2>1, OptionsHaveLength DEF TurnsInOrder, TypeOK
    <3>3. QED
      BY <3>1, <3>2 DEF Asked
  <2>3. AtHand = [kind |-> "replace", of |-> Current, turn |-> option]
    BY <1>3 DEF AtHand
  <2>4. AtHand \in BakeCalls
    <3>1. AtHand \in [kind : {"replace"}, of : {Current}, turn : Asked(Current)]
      BY <2>2, <2>3
    <3>2. QED
      BY <2>1, <3>1 DEF BakeCalls
  <2>5. Ahead(AtHand)
    <3>1. option >= option
      BY DEF TypeOK
    <3>2. QED
      BY <1>3, <2>1, <2>3, <3>1 DEF Ahead
  <2>6. QED
    BY <2>4, <2>5 DEF CallsLeft
<1>4. CASE stage = "review"
  <2>1. AtHand = [kind |-> "review", of |-> 0, turn |-> 0]
    BY <1>4 DEF AtHand
  <2>2. QED
    BY <1>4, <2>1 DEF BakeCalls, Ahead, CallsLeft
<1>5. QED
  BY <1>1, <1>2, <1>3, <1>4 DEF AsksProvider

InPhase == stage \in {"generate", "repair", "replace"}

LEMMA AtHandIsOfPhase ==
  ASSUME Budgeted, InPhase
  PROVE  AtHand.kind # "review" /\ PhaseAsked(AtHand) = phase
<1> USE DEF Budgeted, Orderly
<1>1. CASE stage = "generate"
  BY <1>1 DEF AtHand, PhaseAsked
<1>2. CASE stage \in {"repair", "replace"}
  <2>1. PhaseOf[Current] = phase
    BY <1>2, CurrentIsToDo DEF RoundInOrder, PhaseSlots
  <2>2. AtHand.kind \in {"repair", "replace"} /\ AtHand.of = Current
    BY <1>2 DEF AtHand
  <2>3. QED
    BY <2>1, <2>2 DEF PhaseAsked
<1>3. QED
  BY <1>1, <1>2 DEF InPhase

(* A call of a later phase, or of the review, is ahead and not at hand. *)
LEMMA LaterIsAhead ==
  ASSUME Budgeted, InPhase, NEW c \in BakeCalls, c.kind = "review" \/ PhaseAsked(c) > phase
  PROVE  Ahead(c) /\ c # AtHand
<1>1. Ahead(c)
  BY DEF Ahead, InPhase
<1>2. phase \in Nat
  BY BakeAssumption DEF Budgeted, Orderly, TypeOK, Phases
<1>3. ~ (phase > phase)
  BY <1>2
<1>4. QED
  BY <1>1, <1>3, AtHandIsOfPhase

LEMMA NextPhaseDwindles ==
  ASSUME Budgeted, InPhase, NEW f, NextPhase(f), NEW c \in BakeCalls, Ahead(c)'
  PROVE  Ahead(c) /\ c # AtHand
<1> DEFINE later == {p \in Phases : p > phase}
<1>0. phase \in Nat /\ Phases \subseteq Nat
  BY PhasesAreNumbers, BakeAssumption DEF Budgeted, Orderly, TypeOK
<1>1. CASE later = {}
  <2>1. stage' = "judge"
    BY <1>1 DEF NextPhase
  <2>2. c.kind = "review"
    BY <2>1 DEF Ahead
  <2>3. QED
    BY <2>2, LaterIsAhead
<1>2. CASE later # {}
  <2>1. stage' = "generate" /\ phase' = Min(later)
    BY <1>2 DEF NextPhase
  <2>2. phase' \in Nat /\ phase' > phase
    BY <1>0, <1>2, <2>1, LeastExists
  <2>3. c.kind = "review" \/ PhaseAsked(c) > phase' \/ PhaseAsked(c) = phase'
    BY <2>1 DEF Ahead
  <2>4. c.kind = "review" \/ PhaseAsked(c) > phase
    <3>1. c.kind = "review" \/ PhaseAsked(c) \in Nat
      BY <1>0, CallKinds, PhasesAreNumbers DEF PhaseAsked
    <3>2. QED
      BY <1>0, <2>2, <2>3, <3>1
  <2>5. QED
    BY <2>4, LaterIsAhead
<1>3. QED
  BY <1>1, <1>2

(* The verdicts f leave no slot open that was not. *)
Opens(f) == stage = "generate" \/ OpenSlots(f, phase) \subseteq OpenSlots(final, phase)

LEMMA NextRoundDwindles ==
  ASSUME Budgeted, stage \in {"generate", "repair"}, NEW f, Opens(f),
         NEW r \in Nat, stage = "repair" => r > round,
         NextRound(f, r), NEW c \in BakeCalls, Ahead(c)'
  PROVE  Ahead(c) /\ c # AtHand
<1>0. InPhase
  BY DEF InPhase
<1>1. CASE OpenSlots(f, phase) = {}
  BY <1>0, <1>1, NextPhaseDwindles DEF NextRound
<1>2. CASE OpenSlots(f, phase) # {}
  <2>1. /\ final' = f /\ phase' = phase /\ todo' = OpenSlots(f, phase)
        /\ stage' \in {"repair", "replace"}
        /\ stage' = "repair" => round' = r
    BY <1>2 DEF NextRound
  <2>2. CASE c.kind = "review" \/ PhaseAsked(c) > phase
    BY <1>0, <2>2, LaterIsAhead
  <2>3. CASE ~ (c.kind = "review" \/ PhaseAsked(c) > phase)
    <3>1. /\ c.kind \in {"repair", "replace"}
          /\ c.of \in OpenSlots(f, phase)
          /\ c.kind = "repair" => stage' = "repair" /\ (c.turn > r \/ c.turn = r)
      BY <2>1, <2>3 DEF Ahead
    <3>2. PhaseAsked(c) = phase
      BY <3>1 DEF PhaseAsked, OpenSlots, PhaseSlots
    <3>3. CASE stage = "generate"
      <4>1. Ahead(c)
        BY <3>1, <3>2, <3>3 DEF Ahead
      <4>2. AtHand.kind = "generate"
        BY <3>3 DEF AtHand
      <4>3. QED
        BY <3>1, <4>1, <4>2
    <3>4. CASE stage = "repair"
      <4>1. c.of \in OpenSlots(final, phase)
        BY <3>1, <3>4 DEF Opens
      <4>2. c.kind = "repair" => c.turn > round /\ c.turn # round
        <5>1. round \in Nat
          BY BakeAssumption DEF Budgeted, Orderly, TypeOK
        <5>2. c.kind = "repair" => c.turn \in Nat
          BY CallKinds, BakeAssumption
        <5>3. QED
          BY <3>1, <3>4, <5>1, <5>2
      <4>3. Ahead(c)
        BY <3>1, <3>4, <4>1, <4>2 DEF Ahead
      <4>4. AtHand.kind = "repair" /\ AtHand.turn = round
        BY <3>4 DEF AtHand
      <4>5. QED
        BY <3>1, <4>2, <4>3, <4>4
    <3>5. QED
      BY <3>3, <3>4
  <2>4. QED
    BY <2>2, <2>3
<1>3. QED
  BY <1>1, <1>2

LEMMA TreatedDwindles ==
  ASSUME Budgeted, stage = "repair", NEW v, Treated([final EXCEPT ![Current] = v]),
         NEW c \in BakeCalls, Ahead(c)'
  PROVE  Ahead(c) /\ c # AtHand
<1> DEFINE f == [final EXCEPT ![Current] = v]
<1>0. InPhase
  BY DEF InPhase
<1>1. Current \in todo /\ Current \in OpenSlots(final, phase)
  BY CurrentIsToDo DEF Budgeted, Orderly, RoundInOrder, OpenSlots
<1>2. Opens(f)
  BY <1>1 DEF Opens, OpenSlots, Budgeted, Orderly, TypeOK, PhaseSlots
<1>3. round \in Nat /\ round + 1 \in Nat /\ round + 1 > round
  BY BakeAssumption DEF Budgeted, Orderly, TypeOK
<1>4. CASE todo = {Current}
  BY <1>2, <1>3, <1>4, NextRoundDwindles DEF Treated
<1>5. CASE todo # {Current}
  <2>1. /\ final' = f /\ todo' = todo \ {Current}
        /\ stage' = "repair" /\ phase' = phase /\ round' = round
    BY <1>5 DEF Treated
  <2>2. CASE c.kind = "review" \/ PhaseAsked(c) > phase
    BY <1>0, <2>2, LaterIsAhead
  <2>3. CASE ~ (c.kind = "review" \/ PhaseAsked(c) > phase)
    <3>1. /\ c.kind \in {"repair", "replace"}
          /\ c.of \in OpenSlots(f, phase)
          /\ c.kind = "repair" => c.turn > round \/ (c.turn = round /\ c.of \in todo \ {Current})
      BY <2>1, <2>3 DEF Ahead
    <3>2. c.of \in OpenSlots(final, phase)
      BY <1>2, <3>1 DEF Opens
    <3>3. Ahead(c)
      BY <3>1, <3>2 DEF Ahead
    <3>4. AtHand = [kind |-> "repair", of |-> Current, turn |-> round]
      BY DEF AtHand
    <3>5. c # AtHand
      <4>1. ~ (round > round)
        BY <1>3
      <4>2. QED
        BY <3>1, <3>4, <4>1
    <3>6. QED
      BY <3>3, <3>5
  <2>4. QED
    BY <2>2, <2>3
<1>6. QED
  BY <1>4, <1>5

LEMMA SettledDwindles ==
  ASSUME Budgeted, stage = "replace", NEW v, Settled(v), NEW c \in BakeCalls, Ahead(c)'
  PROVE  Ahead(c) /\ c # AtHand
<1>0. InPhase
  BY DEF InPhase
<1>1. CASE todo = {Current}
  BY <1>0, <1>1, NextPhaseDwindles DEF Settled
<1>2. CASE todo # {Current}
  <2>1. stage' = "replace" /\ phase' = phase /\ todo' = todo \ {Current}
    BY <1>2 DEF Settled
  <2>2. CASE c.kind = "review" \/ PhaseAsked(c) > phase
    BY <1>0, <2>2, LaterIsAhead
  <2>3. CASE ~ (c.kind = "review" \/ PhaseAsked(c) > phase)
    <3>1. c.kind = "replace" /\ c.of \in todo /\ c.of # Current
      BY <2>1, <2>3 DEF Ahead
    <3>2. AtHand.of = Current
      BY DEF AtHand
    <3>3. QED
      BY <3>1, <3>2 DEF Ahead
  <2>4. QED
    BY <2>2, <2>3
<1>3. QED
  BY <1>1, <1>2

(* A step of the call in progress: the transports' own. *)
CallStep == Dial \/ PostAgain \/ LeaveJsonMode \/ FailOver

LEMMA NoCallMeansNoHost ==
  ASSUME NEW c, c.host \in Hosts
  PROVE  c # NoCall
BY BakeAssumption DEF NoCall, Hosts

LEMMA HostsAnswer ==
  /\ \A h \in Hosts : Attempts[h] \in Nat /\ Attempts[h] >= 1
  /\ NoHost \notin Hosts
BY BakeAssumption DEF Hosts

(* A call uses up its posts, and stays within its bounds. *)
LEMMA CallStepSpends ==
  ASSUME Budgeted, CallStep
  PROVE  /\ call'.host \in Hosts
         /\ call'.tries < Attempts[call'.host]
         /\ CallPosts(call') <= MostPosts
         /\ call # NoCall => CallPosts(call') < CallPosts(call)
         /\ UNCHANGED <<bake, stage, phase, final, eligible, todo, round, option, result>>
<1> USE DEF Budgeted, Orderly
<1>0. UNCHANGED <<bake, stage, phase, final, eligible, todo, round, option, result>>
  BY DEF CallStep, Dial, PostAgain, LeaveJsonMode, FailOver
<1>1. CASE Dial
  <2>1. PICK h \in Hosts, s \in Hosts \cup {NoHost} :
          call' = CallOn(h, s) /\ CallPosts(CallOn(h, s)) <= MostPosts
    BY <1>1, HostsFit, MostPostsBounds DEF Dial
  <2>2. call'.host = h /\ call'.tries = 0
    BY <2>1 DEF CallOn
  <2>3. call = NoCall
    BY <1>1 DEF Dial
  <2>4. QED
    BY <1>0, <2>1, <2>2, <2>3, HostsAnswer
<1>t. ASSUME call # NoCall
      PROVE  /\ call.host \in Hosts /\ call.spare \in Hosts \cup {NoHost}
             /\ call.tries \in Nat /\ call.json \in BOOLEAN
             /\ call.tries < Attempts[call.host]
             /\ Attempts[call.host] \in Nat
             /\ call.spare # NoHost => Attempts[call.spare] \in Nat
             /\ CallPosts(call) \in Nat /\ CallPosts(call) <= MostPosts
  <2>1. /\ call.host \in Hosts /\ call.spare \in Hosts \cup {NoHost}
        /\ call.tries \in Nat /\ call.json \in BOOLEAN
        /\ call.tries < Attempts[call.host]
        /\ CallPosts(call) <= MostPosts
    BY <1>t DEF CallInOrder, TypeOK
  <2>2. QED
    BY <2>1, HostsAnswer DEF CallPosts
<1>2. CASE PostAgain
  <2>1. call # NoCall
    BY <1>2 DEF PostAgain
  <2>2. /\ call'.host = call.host /\ call'.spare = call.spare
        /\ call'.tries = call.tries + 1 /\ call'.json = call.json
        /\ call.tries + 1 < Attempts[call.host]
    BY <1>2 DEF PostAgain, TypeOK
  <2>3. CallPosts(call') = CallPosts(call) - 1
    BY <1>t, <2>1, <2>2 DEF CallPosts
  <2>4. QED
    BY <1>0, <1>t, <2>1, <2>2, <2>3, MostPostsBounds
<1>3. CASE LeaveJsonMode
  <2>1. call.json /\ call # NoCall
    BY <1>3 DEF LeaveJsonMode, NoCall
  <2>2. /\ call'.host = call.host /\ call'.spare = call.spare
        /\ call'.tries = call.tries /\ call'.json = FALSE
    BY <1>3 DEF LeaveJsonMode, TypeOK
  <2>3. CallPosts(call') = CallPosts(call) - 1
    BY <1>t, <2>1, <2>2 DEF CallPosts
  <2>4. QED
    BY <1>0, <1>t, <2>1, <2>2, <2>3, MostPostsBounds
<1>4. CASE FailOver
  <2>1. call.spare # NoHost /\ call # NoCall
    BY <1>4 DEF FailOver, NoCall
  <2>2. /\ call'.host = call.spare /\ call'.spare = NoHost /\ call'.tries = 0
        /\ call'.json = (call.spare \in JsonHosts)
    BY <1>4 DEF FailOver, CallOn
  <2>3. call.spare \in Hosts
    BY <1>t, <2>1
  <2>4. CallPosts(call') < CallPosts(call)
    BY <1>t, <2>1, <2>2, <2>3 DEF CallPosts
  <2>5. CallPosts(call') \in Nat
    BY <1>t, <2>1, <2>2, <2>3 DEF CallPosts
  <2>6. QED
    BY <1>0, <1>t, <2>1, <2>2, <2>3, <2>4, <2>5, HostsAnswer, MostPostsBounds
<1>5. QED
  BY <1>1, <1>2, <1>3, <1>4 DEF CallStep

(* A step that ends no bake leaves no call ahead that was not, and the call *)
(* it ends behind.                                                          *)
Dwindles == \A c \in BakeCalls : Ahead(c)' => Ahead(c) /\ (call # NoCall => c # AtHand)

LEMMA StepDwindles ==
  ASSUME Budgeted, Next, ~ CallStep, bake' = bake, stage' # "over"
  PROVE  call' = NoCall /\ Dwindles
<1> USE DEF Budgeted, Orderly
<1>a. ~ AsksProvider => call = NoCall
  BY DEF CallInOrder
<1>b. \A r : ~ Return(r)
  BY DEF Return
<1>1. CASE Begin
  <2>1. stage = "begin" /\ call = NoCall
    BY <1>1, <1>a DEF Begin, AsksProvider
  <2>2. QED
    BY <1>1, <2>1 DEF Begin, Dwindles, Ahead
<1>2. ASSUME NEW how \in {"out", "refused"}, ProviderFails(how)
      PROVE  FALSE
  <2>1. bake' = bake + 1
    BY <1>2, <1>b DEF ProviderFails
  <2>2. QED
    BY <2>1 DEF TypeOK
<1>3. CASE PhaseDelivered
  <2>1. PICK v \in [PhaseSlots(phase) -> {"ready"} \cup Faults] :
          NextRound([s \in Slots |-> IF s \in PhaseSlots(phase) THEN v[s] ELSE final[s]], 1)
    BY <1>3 DEF PhaseDelivered
  <2> DEFINE f == [s \in Slots |-> IF s \in PhaseSlots(phase) THEN v[s] ELSE final[s]]
  <2>2. stage = "generate" /\ call' = NoCall
    BY <1>3 DEF PhaseDelivered
  <2>3. NextRound(f, 1) /\ Opens(f)
    BY <2>1, <2>2 DEF Opens
  <2> HIDE DEF f
  <2>4. QED
    BY <2>2, <2>3, NextRoundDwindles, 1 \in Nat DEF Dwindles
<1>4. CASE RepairDelivered
  <2>1. PICK v \in Verdicts(Current) : Treated([final EXCEPT ![Current] = v])
    BY <1>4 DEF RepairDelivered
  <2>2. stage = "repair" /\ call' = NoCall
    BY <1>4 DEF RepairDelivered
  <2>3. QED
    BY <2>1, <2>2, TreatedDwindles DEF Dwindles
<1>5. CASE RepairLost
  <2> DEFINE v == IF final[Current] = "items" THEN "rule" ELSE final[Current]
  <2>1. stage = "repair" /\ call' = NoCall
    BY <1>5 DEF RepairLost
  <2>2. Current \in Slots
    BY <2>1, CurrentIsToDo DEF RoundInOrder, TypeOK
  <2>3. Treated([final EXCEPT ![Current] = v])
    BY <1>5, <2>2 DEF RepairLost, TypeOK
  <2>4. QED
    BY <2>1, <2>3, TreatedDwindles DEF Dwindles
<1>6. CASE ReplacementTried
  <2>1. stage = "replace" /\ call' = NoCall
    BY <1>6 DEF ReplacementTried
  <2>2. CASE Settled("spare")
    BY <2>1, <2>2, SettledDwindles DEF Dwindles
  <2>3. CASE ~ Settled("spare")
    <3>1. option' = option + 1 /\ UNCHANGED <<stage, phase, final, todo, round>>
      BY <1>6, <2>3 DEF ReplacementTried
    <3>2. Current' = Current
      BY <3>1 DEF Current
    <3>3. option \in Nat
      BY DEF TypeOK
    <3>4. ASSUME NEW c \in BakeCalls, Ahead(c)'
          PROVE  Ahead(c) /\ c # AtHand
      <4>1. CASE c.kind = "review" \/ PhaseAsked(c) > phase
        BY <2>1, <4>1, LaterIsAhead DEF InPhase
      <4>2. CASE ~ (c.kind = "review" \/ PhaseAsked(c) > phase)
        <5>1. c.kind = "replace" /\ c.of \in todo /\ (c.of = Current => c.turn >= option + 1)
          BY <2>1, <3>1, <3>2, <3>4, <4>2 DEF Ahead
        <5>2. c.turn \in Nat
          BY <5>1, CallKinds, OptionsHaveLength DEF Asked
        <5>3. c.of = Current => c.turn >= option /\ c.turn # option
          BY <3>3, <5>1, <5>2
        <5>4. AtHand = [kind |-> "replace", of |-> Current, turn |-> option]
          BY <2>1 DEF AtHand
        <5>5. QED
          BY <2>1, <5>1, <5>3, <5>4 DEF Ahead
      <4>3. QED
        BY <4>1, <4>2
    <3>5. QED
      BY <2>1, <3>4 DEF Dwindles
  <2>4. QED
    BY <2>2, <2>3
<1>7. CASE SlotDropped
  <2>1. stage = "replace" /\ call = NoCall /\ call' = NoCall
    BY <1>7, <1>a DEF SlotDropped, AsksProvider
  <2>2. QED
    BY <1>7, <2>1, SettledDwindles DEF SlotDropped, Dwindles
<1>8. CASE Judge
  <2>1. stage = "judge" /\ stage' = "review" /\ call = NoCall /\ call' = NoCall
    BY <1>8, <1>a, <1>b DEF Judge, AsksProvider
  <2>2. QED
    BY <2>1 DEF Dwindles, Ahead
<1>9. CASE ReviewDelivered \/ ReviewUnasked
  <2>1. stage' = "assemble" /\ call' = NoCall
    BY <1>9, <1>b DEF ReviewDelivered, ReviewUnasked
  <2>2. QED
    BY <2>1 DEF Dwindles, Ahead
<1>10. CASE RefuseSource \/ Abandon \/ AnswerUnusable \/ EngineBreaks \/ Ship
  BY <1>10, <1>b DEF RefuseSource, Abandon, AnswerUnusable, EngineBreaks, Ship
<1>11. QED
  BY <1>1, <1>2, <1>3, <1>4, <1>5, <1>6, <1>7, <1>8, <1>9, <1>10 DEF Next, CallStep

LEMMA BudgetedInitially ==
  ASSUME Init
  PROVE  Budgeted
<1>1. Orderly
  BY OrderlyInitially
<1>2. CallInOrder /\ TurnsInOrder
  BY DEF Init, CallInOrder, TurnsInOrder
<1>3. QED
  BY <1>1, <1>2 DEF Budgeted

(* Where the turns stand after a step that settles a phase, round or slot. *)
LEMMA TurnsAdvance ==
  ASSUME Budgeted
  PROVE  /\ \A f : NextPhase(f) => TurnsInOrder'
         /\ \A f : \A r \in Nat : r >= 1 /\ NextRound(f, r) => TurnsInOrder'
         /\ \A f : Treated(f) => TurnsInOrder'
         /\ \A v : Settled(v) => TurnsInOrder'
<1> USE DEF Budgeted, Orderly
<1>1. ASSUME NEW f, NextPhase(f)
      PROVE  TurnsInOrder'
  <2>1. stage' \in {"judge", "generate"}
    BY <1>1 DEF NextPhase
  <2>2. QED
    BY <2>1 DEF TurnsInOrder
<1>2. ASSUME NEW f, NEW r \in Nat, r >= 1, NextRound(f, r)
      PROVE  TurnsInOrder'
  <2>1. CASE OpenSlots(f, phase) = {}
    BY <1>1, <1>2, <2>1 DEF NextRound
  <2>2. CASE OpenSlots(f, phase) # {}
    <3>1. (stage' = "repair" /\ round' = r) \/ (stage' = "replace" /\ option' = 1)
      BY <1>2, <2>2 DEF NextRound
    <3>2. QED
      BY <1>2, <3>1 DEF TurnsInOrder
  <2>3. QED
    BY <2>1, <2>2
<1>3. ASSUME NEW f, Treated(f)
      PROVE  TurnsInOrder'
  <2>1. round + 1 \in Nat /\ round + 1 >= 1
    BY BakeAssumption DEF TypeOK
  <2>2. CASE todo = {Current}
    BY <1>2, <1>3, <2>1, <2>2 DEF Treated
  <2>3. CASE todo # {Current}
    BY <1>3, <2>3 DEF Treated, TurnsInOrder
  <2>4. QED
    BY <2>2, <2>3
<1>4. ASSUME NEW v, Settled(v)
      PROVE  TurnsInOrder'
  <2>1. CASE todo = {Current}
    BY <1>1, <1>4, <2>1 DEF Settled
  <2>2. CASE todo # {Current}
    BY <1>4, <2>2 DEF Settled, TurnsInOrder
  <2>3. QED
    BY <2>1, <2>2
<1>5. QED
  BY <1>1, <1>2, <1>3, <1>4

LEMMA TurnsStep ==
  ASSUME Budgeted, Next
  PROVE  TurnsInOrder'
<1> USE DEF Budgeted, Orderly
<1>r. ASSUME NEW r, Return(r)
      PROVE  TurnsInOrder'
  BY <1>r DEF Return, TurnsInOrder
<1>1. CASE CallStep
  BY <1>1, CallStepSpends DEF TurnsInOrder
<1>2. CASE Begin
  BY <1>2 DEF Begin, TurnsInOrder
<1>3. ASSUME NEW how \in {"out", "refused"}, ProviderFails(how)
      PROVE  TurnsInOrder'
  <2>1. CASE Return("provider_unavailable")
    BY <2>1, <1>r
  <2>2. CASE ~ Return("provider_unavailable")
    BY <1>3, <2>2 DEF ProviderFails, TurnsInOrder
  <2>3. QED
    BY <2>1, <2>2
<1>4. CASE PhaseDelivered
  BY <1>4, TurnsAdvance, 1 \in Nat, 1 >= 1 DEF PhaseDelivered
<1>5. CASE RepairDelivered \/ RepairLost
  BY <1>5, TurnsAdvance DEF RepairDelivered, RepairLost
<1>6. CASE ReplacementTried
  <2>1. CASE Settled("spare")
    BY <2>1, TurnsAdvance
  <2>2. CASE ~ Settled("spare")
    <3>1. option' = option + 1 /\ stage' = "replace"
      BY <1>6, <2>2 DEF ReplacementTried
    <3>2. option \in Nat
      BY DEF TypeOK
    <3>3. QED
      BY <3>1, <3>2 DEF TurnsInOrder
  <2>3. QED
    BY <2>1, <2>2
<1>7. CASE SlotDropped
  BY <1>7, TurnsAdvance DEF SlotDropped
<1>8. CASE RefuseSource \/ Abandon \/ AnswerUnusable \/ EngineBreaks \/ Ship
  BY <1>8, <1>r DEF RefuseSource, Abandon, AnswerUnusable, EngineBreaks, Ship
<1>9. CASE Judge \/ ReviewDelivered \/ ReviewUnasked
  <2>1. (\E r : Return(r)) \/ stage' \in {"review", "assemble"}
    BY <1>9 DEF Judge, ReviewDelivered, ReviewUnasked
  <2>2. QED
    BY <2>1, <1>r DEF TurnsInOrder
<1>10. QED
  BY <1>1, <1>2, <1>3, <1>4, <1>5, <1>6, <1>7, <1>8, <1>9 DEF Next, CallStep

(* A fresh bake: the runner has one fewer left, and no call. *)
LEMMA FreshBake ==
  ASSUME Budgeted, Next, bake' # bake
  PROVE  bake' = bake + 1 /\ bake < MaxBakes /\ stage' = "begin" /\ call # NoCall /\ call' = NoCall
<1>1. ASSUME NEW how \in {"out", "refused"}, ProviderFails(how)
      PROVE  bake' = bake + 1 /\ bake < MaxBakes /\ stage' = "begin" /\ call # NoCall /\ call' = NoCall
  BY <1>1 DEF ProviderFails, Return, MayRetry, CallEnds
<1>2. CASE ~ \E how \in {"out", "refused"} : ProviderFails(how)
  BY <1>2
     DEF Next, Begin, RefuseSource, Abandon, Dial, PostAgain, LeaveJsonMode, FailOver,
         AnswerUnusable, EngineBreaks, PhaseDelivered, RepairDelivered, RepairLost,
         ReplacementTried, SlotDropped, Judge, ReviewDelivered, ReviewUnasked, Ship, Return
<1>3. QED
  BY <1>1, <1>2

(* No step leaves an attempt that is over. *)
LEMMA OverIsOver ==
  ASSUME Budgeted, Next
  PROVE  stage # "over"
<1>1. stage = "over" => call = NoCall /\ ~ AsksProvider
  BY DEF Budgeted, CallInOrder, AsksProvider
<1>2. QED
  BY <1>1
     DEF Next, Begin, RefuseSource, Abandon, Dial, PostAgain, LeaveJsonMode, FailOver, ProviderFails,
         AnswerUnusable, EngineBreaks, PhaseDelivered, RepairDelivered, RepairLost, NoCall,
         ReplacementTried, SlotDropped, Judge, ReviewDelivered, ReviewUnasked, Ship, CallEnds

(* The attempt is over: the call is hung up. *)
LEMMA OverHangsUp ==
  ASSUME Budgeted, Next, stage' = "over"
  PROVE  call' = NoCall /\ bake' = bake
<1>1. (\E r : Return(r)) \/ stage' # "over" \/ stage = "over"
  BY DEF Next, Begin, RefuseSource, Abandon, Dial, PostAgain, LeaveJsonMode, FailOver, ProviderFails,
         AnswerUnusable, EngineBreaks, PhaseDelivered, RepairDelivered, RepairLost,
         ReplacementTried, SlotDropped, Judge, ReviewDelivered, ReviewUnasked, Ship,
         NextPhase, NextRound, Treated, Settled
<1>2. stage # "over"
  BY OverIsOver
<1>3. QED
  BY <1>1, <1>2 DEF Return

LEMMA BudgetedStep ==
  ASSUME Budgeted, [Next]_vars
  PROVE  Budgeted'
<1>1. Orderly'
  BY TypeStep, OrderStep DEF Budgeted, Orderly
<1>2. CASE UNCHANGED vars
  <2>1. CallInOrder' /\ TurnsInOrder'
    BY <1>2 DEF vars, Budgeted, CallInOrder, CallPosts, TurnsInOrder, AsksProvider, MayReplace, Current
  <2>2. QED
    BY <1>1, <2>1 DEF Budgeted
<1>3. CASE Next
  <2>1. TurnsInOrder'
    BY <1>3, TurnsStep
  <2>2. CASE CallStep
    <3>1. AsksProvider
      BY <2>2 DEF CallStep, Budgeted, CallInOrder, Dial, PostAgain, LeaveJsonMode, FailOver, NoCall
    <3>2. AsksProvider'
      BY <2>2, <3>1, CallStepSpends DEF AsksProvider, MayReplace, Current
    <3>3. CallInOrder'
      BY <2>2, <3>2, CallStepSpends DEF CallInOrder
    <3>4. QED
      BY <1>1, <2>1, <3>3 DEF Budgeted
  <2>3. CASE ~ CallStep
    <3>1. call' = NoCall
      BY <1>3, <2>3, FreshBake, OverHangsUp, StepDwindles
    <3>2. QED
      BY <1>1, <2>1, <3>1 DEF Budgeted, CallInOrder
  <2>4. QED
    BY <2>2, <2>3
<1>4. QED
  BY <1>2, <1>3

(* Products of numbers, kept apart from the rest of the argument. *)
LEMMA ProductsGrow ==
  ASSUME NEW a \in Nat, NEW b \in Nat, NEW m \in Nat, a <= b
  PROVE  a * m \in Nat /\ b * m \in Nat /\ a * m <= b * m
<1>1. b * m = a * m + (b - a) * m
  OBVIOUS
<1>2. \A x \in Nat : x * m \in Nat
  OBVIOUS
<1>3. (b - a) * m \in Nat /\ a * m \in Nat /\ b * m \in Nat
  BY <1>2
<1>4. QED
  BY <1>1, <1>3

K == Cardinality(BakeCalls)
Left == Cardinality(CallsLeft)

LEMMA CountsAreNumbers ==
  ASSUME Budgeted
  PROVE  /\ K \in Nat /\ Left \in Nat /\ Left <= K
         /\ MaxBakes - bake \in Nat
         /\ (MaxBakes - bake) * K \in Nat
         /\ AsksProvider => Left >= 1
<1>1. CallsLeft \in SUBSET BakeCalls
  BY DEF CallsLeft
<1>2. K \in Nat
  BY CallsAreFinite, FS_CardinalityType DEF K
<1>3. IsFiniteSet(CallsLeft) /\ Left \in Nat /\ Left <= K
  BY <1>1, CallsAreFinite, FS_Subset, FS_CardinalityType DEF K, Left
<1>4. MaxBakes - bake \in Nat
  BY BakeAssumption DEF Budgeted, Orderly, TypeOK
<1>5. (MaxBakes - bake) * K \in Nat
  <2> DEFINE b == MaxBakes - bake
  <2>1. b \in Nat
    BY <1>4
  <2> HIDE DEF b
  <2>2. b * K \in Nat
    BY <1>2, <2>1, ProductsGrow, 0 \in Nat
  <2>3. QED
    BY <2>2 DEF b
<1>6. ASSUME AsksProvider
      PROVE  Left >= 1
  <2>1. CallsLeft # {}
    BY <1>6, AtHandIsAhead
  <2>2. Left # 0
    BY <1>3, <2>1, FS_EmptySet DEF Left
  <2>3. QED
    BY <1>3, <2>2
<1>7. QED
  BY <1>2, <1>3, <1>4, <1>5, <1>6

(* The calls and posts left, as numbers. *)
LEMMA PostsLeftIs ==
  ASSUME Budgeted, stage # "over"
  PROVE  /\ (MaxBakes - bake) * K + Left \in Nat
         /\ ((MaxBakes - bake) * K + Left) * MostPosts \in Nat
         /\ call = NoCall => PostsLeft = ((MaxBakes - bake) * K + Left) * MostPosts
         /\ call # NoCall =>
              PostsLeft = ((MaxBakes - bake) * K + Left) * MostPosts - (MostPosts - CallPosts(call))
<1> DEFINE n == (MaxBakes - bake) * K + Left
<1>1. n \in Nat
  BY CountsAreNumbers
<1>2. n * MostPosts \in Nat
  <2> HIDE DEF n
  <2>1. QED
    BY <1>1, MostPostsBounds, ProductsGrow
<1>3. PostsLeft = n * MostPosts - (IF call = NoCall THEN 0 ELSE MostPosts - CallPosts(call))
  BY DEF PostsLeft, K, Left
<1>4. call = NoCall => PostsLeft = n * MostPosts
  <2> HIDE DEF n
  <2>1. QED
    BY <1>2, <1>3
<1>5. QED
  BY <1>1, <1>2, <1>3, <1>4

(* With a call open there is at least one post left. *)
LEMMA PostsLeftIsNatural ==
  ASSUME Budgeted
  PROVE  PostsLeft \in Nat /\ (call # NoCall => PostsLeft >= 1)
<1>1. CASE stage = "over"
  <2>1. call = NoCall
    BY <1>1 DEF Budgeted, CallInOrder, AsksProvider
  <2>2. QED
    BY <1>1, <2>1 DEF PostsLeft
<1>2. CASE stage # "over" /\ call = NoCall
  BY <1>2, PostsLeftIs
<1>3. CASE stage # "over" /\ call # NoCall
  <2> DEFINE n == (MaxBakes - bake) * K + Left
             p == CallPosts(call)
             m == MostPosts
  <2>1. n \in Nat /\ n >= 1
    BY <1>3, CountsAreNumbers DEF Budgeted, CallInOrder
  <2>2. p \in Nat /\ p >= 1 /\ p <= m /\ m \in Nat
    BY <1>3, HostsAnswer, MostPostsBounds DEF Budgeted, Orderly, CallInOrder, TypeOK, CallPosts
  <2>3. PostsLeft = n * m - (m - p)
    BY <1>3, PostsLeftIs
  <2> HIDE DEF n, p, m
  <2>4. n * m \in Nat /\ n * m >= m
    <3>1. 1 * m <= n * m /\ n * m \in Nat
      BY <2>1, <2>2, ProductsGrow, 1 \in Nat
    <3>2. 1 * m = m
      BY <2>2
    <3>3. QED
      BY <2>2, <3>1, <3>2
  <2>5. QED
    BY <2>2, <2>3, <2>4
<1>4. QED
  BY <1>1, <1>2, <1>3

(* The budget in numbers, said of a state. *)
Numbers ==
  /\ PostsLeft \in Nat /\ (call # NoCall => PostsLeft >= 1)
  /\ stage = "over" => PostsLeft = 0
  /\ stage # "over" /\ call = NoCall =>
       PostsLeft = ((MaxBakes - bake) * K + Left) * MostPosts
  /\ stage # "over" /\ call # NoCall =>
       PostsLeft = ((MaxBakes - bake) * K + Left) * MostPosts - (MostPosts - CallPosts(call))

LEMMA NumbersHold ==
  ASSUME Budgeted
  PROVE  Numbers
<1>1. stage = "over" => PostsLeft = 0
  BY DEF PostsLeft
<1>2. QED
  BY <1>1, PostsLeftIs, PostsLeftIsNatural DEF Numbers

Spends ==
  /\ PostsLeft' <= PostsLeft
  /\ call # NoCall => PostsLeft' < PostsLeft

(* Every step that takes a post, or ends a call, is paid from the budget. *)
LEMMA SpendStep ==
  ASSUME Budgeted, Next, Numbers, Numbers'
  PROVE  Spends
<1> DEFINE m == MostPosts
           r == (MaxBakes - bake) * K
           p == CallPosts(call)
<1>0. /\ m \in Nat /\ r \in Nat /\ K \in Nat /\ Left \in Nat
      /\ call # NoCall => p \in Nat /\ p >= 1 /\ p <= m /\ Left >= 1
  BY CountsAreNumbers, HostsAnswer, MostPostsBounds
     DEF Budgeted, Orderly, CallInOrder, TypeOK, CallPosts
<1>c. BakeCalls' = BakeCalls /\ K' = K /\ MostPosts' = m
  BY DEF BakeCalls, K, MostPosts, Asked, Options, CallPosts, CallOn, Phases, Hosts
<1>1. CASE stage' = "over"
  BY <1>1 DEF Numbers, Spends
<1>2. stage # "over"
  BY OverIsOver
<1>3. CASE CallStep
  <2> DEFINE n == r + Left
             q == CallPosts(call')
  <2>1. /\ call' # NoCall /\ q <= m /\ (call # NoCall => q < p)
        /\ UNCHANGED <<bake, stage, phase, final, eligible, todo, round, option>>
    BY <1>3, CallStepSpends, NoCallMeansNoHost
  <2>2. Left' = Left
    BY <1>c, <2>1 DEF Left, CallsLeft, Ahead, Current
  <2>3. PostsLeft' = n * m - (m - q)
    BY <1>2, <1>c, <2>1, <2>2 DEF Numbers, CallPosts
  <2>4. /\ call = NoCall => PostsLeft = n * m
        /\ call # NoCall => PostsLeft = n * m - (m - p)
    BY <1>2 DEF Numbers
  <2>5. n \in Nat /\ PostsLeft' \in Nat /\ PostsLeft \in Nat
    BY <1>0 DEF Numbers
  <2>6. q \in Int
    <3>1. TypeOK' => call'.tries \in Nat /\ call'.json \in BOOLEAN
      BY DEF TypeOK
    <3>2. QED
      BY <1>3, <3>1, CallStepSpends, HostsAnswer, TypeStep, BudgetedStep
         DEF Budgeted, Orderly, TypeOK, CallPosts
  <2>7. n * m \in Nat
    <3> HIDE DEF n, m
    <3>1. QED
      BY <1>0, <2>5, ProductsGrow
  <2> HIDE DEF n, m, p, q
  <2>8. QED
    BY <1>0, <2>1, <2>3, <2>4, <2>5, <2>6, <2>7 DEF Spends
<1>4. CASE ~ CallStep /\ bake' = bake /\ stage' # "over"
  <2> DEFINE n == r + Left
             k == r + Left'
  <2>1. call' = NoCall /\ Dwindles
    BY <1>4, StepDwindles
  <2>2. Left' \in Nat /\ (IF call = NoCall THEN Left' <= Left ELSE Left' <= Left - 1)
    <3>1. IsFiniteSet(CallsLeft)
      BY CallsAreFinite, FS_Subset DEF CallsLeft
    <3>2. CASE call = NoCall
      <4>1. CallsLeft' \in SUBSET CallsLeft
        BY <1>c, <2>1 DEF Dwindles, CallsLeft
      <4>2. QED
        BY <3>1, <3>2, <4>1, FS_Subset, FS_CardinalityType DEF Left
    <3>3. CASE call # NoCall
      <4>1. CallsLeft' \in SUBSET (CallsLeft \ {AtHand})
        BY <1>c, <2>1, <3>3 DEF Dwindles, CallsLeft
      <4>2. AtHand \in CallsLeft
        BY <3>3, AtHandIsAhead DEF Budgeted, CallInOrder
      <4>3. /\ IsFiniteSet(CallsLeft \ {AtHand})
            /\ Cardinality(CallsLeft \ {AtHand}) = Left - 1
        BY <3>1, <4>2, FS_RemoveElement DEF Left
      <4>4. QED
        BY <3>3, <4>1, <4>3, FS_Subset, FS_CardinalityType DEF Left
    <3>4. QED
      BY <3>2, <3>3
  <2>3. PostsLeft' = k * m
    BY <1>4, <1>c, <2>1 DEF Numbers
  <2>4. /\ call = NoCall => PostsLeft = n * m
        /\ call # NoCall => PostsLeft = n * m - (m - p)
    BY <1>2 DEF Numbers
  <2>5. k \in Nat /\ n \in Nat /\ k <= n /\ (call # NoCall => k <= n - 1 /\ n - 1 \in Nat)
    BY <1>0, <2>2
  <2> HIDE DEF n, m, k
  <2>6. CASE call = NoCall
    <3>1. k * m <= n * m
      BY <1>0, <2>5, ProductsGrow
    <3>2. QED
      BY <2>3, <2>4, <2>6, <3>1 DEF Spends
  <2>7. CASE call # NoCall
    <3>1. k * m <= (n - 1) * m /\ k * m \in Nat /\ n * m \in Nat
      BY <1>0, <2>5, <2>7, ProductsGrow
    <3>2. (n - 1) * m = n * m - m
      BY <1>0, <2>5
    <3> HIDE DEF p
    <3>3. k * m < n * m - (m - p)
      BY <1>0, <2>7, <3>1, <3>2
    <3>4. QED
      BY <2>3, <2>4, <2>7, <3>3, <3>1, <1>0 DEF Spends
  <2>8. QED
    BY <2>6, <2>7
<1>5. CASE ~ CallStep /\ bake' # bake /\ stage' # "over"
  <2> DEFINE n == r + Left
             b == MaxBakes - bake
  <2>1. bake' = bake + 1 /\ bake < MaxBakes /\ stage' = "begin" /\ call # NoCall /\ call' = NoCall
    BY <1>5, FreshBake
  <2>2. Left' = K
    <3>1. CallsLeft' = BakeCalls
      BY <1>c, <2>1 DEF CallsLeft, Ahead
    <3>2. QED
      BY <3>1 DEF Left, K
  <2>3. b \in Nat /\ b >= 1 /\ MaxBakes - bake' = b - 1
    BY <2>1, BakeAssumption DEF Budgeted, Orderly, TypeOK
  <2>4. PostsLeft' = ((b - 1) * K + K) * m
    BY <1>c, <2>1, <2>2, <2>3 DEF Numbers
  <2>5. PostsLeft = n * m - (m - p) /\ r = b * K
    BY <1>2, <2>1 DEF Numbers
  <2>6. n \in Nat /\ n - 1 \in Nat /\ r <= n - 1
    BY <1>0, <2>1
  <2> HIDE DEF n, m, b, p
  <2>7. (b - 1) * K + K = b * K
    BY <1>0, <2>3
  <2> HIDE DEF r
  <2>8. r * m <= (n - 1) * m /\ r * m \in Nat /\ n * m \in Nat
    BY <1>0, <2>6, ProductsGrow
  <2>9. (n - 1) * m = n * m - m
    BY <1>0, <2>6
  <2>10. PostsLeft' = r * m
    BY <2>4, <2>5, <2>7
  <2>11. QED
    BY <1>0, <2>1, <2>5, <2>8, <2>9, <2>10 DEF Spends
<1>6. QED
  BY <1>1, <1>3, <1>4, <1>5

(* Attempts, failover, repair rounds, replacements and the second bake       *)
(* multiply, but not without end: every post is paid from a budget fixed     *)
(* when the attempt begins, whatever the hosts and the model answer (the     *)
(* nested loops of runner.py, engine_adapter_v3.py, density_evaluator_v3.py  *)
(* and provider_transports.py).                                              *)
THEOREM SpendHolds == Spec => SpendIsBounded
<1>1. Init => Budgeted
  BY BudgetedInitially
<1>2. Budgeted /\ [Next]_vars => Budgeted'
  BY BudgetedStep
<1>3. Budgeted => Numbers
  BY NumbersHold
<1>4. Budgeted /\ Budgeted' /\ Numbers /\ Numbers' /\ [Next]_vars =>
        [/\ PostsLeft' \in Nat
         /\ PostsLeft' <= PostsLeft
         /\ call # NoCall => PostsLeft' < PostsLeft]_vars
  BY SpendStep DEF Numbers, Spends
<1>5. QED
  BY <1>1, <1>2, <1>3, <1>4, PTL DEF Spec, SpendIsBounded
=============================================================================
