----------------------------- MODULE LessonBake -----------------------------
(***************************************************************************)
(* One worker baking one lesson: the runner's two bakes (runner.py), the   *)
(* adapter's phases, judgement and semantic review (engine_adapter_v3.py), *)
(* the evaluator's repair rounds and replacements                          *)
(* (density_evaluator_v3.py) and the transports' attempts and failover     *)
(* (provider_transports.py).  These four loops are nested, so what one     *)
(* lesson may cost the provider is their product; the module counts the    *)
(* POSTS of a provider call one by one.                                    *)
(*                                                                         *)
(* A slot's record is reduced to its verdict.  "shape" is an answer that   *)
(* holds no record of the slot, "items" a record whose only faults are     *)
(* single questions (the next repair is then aimed at those questions),    *)
(* "rule" any other repairable fault, a density shortfall included.  All   *)
(* ten gates of a bake are registered, so every fault is repairable and    *)
(* the evaluator's not_repairable drop cannot be reached from here.        *)
(***************************************************************************)
EXTENDS Integers, Sequences, FiniteSets, FiniteSetsExt

CONSTANTS
  Slots,       \* the slots of the lesson's allocation, numbered in their order
  PhaseOf,     \* PhaseOf[s] is the phase of slot s
  Questions,   \* the slots scheduled as text-questions
  Spares,      \* Spares[s]: conditional replacements, "asked" of the provider or "built" here
  Routes,      \* the primary hosts the generator chooses among
  FallbackOf,  \* FallbackOf[r]: the configured fallback host of route r, or NoHost
  Reviewer,    \* the host of the semantic reviewer, which has no fallback
  NoHost,
  Attempts,    \* Attempts[h] is max_attempts of host h
  JsonHosts,   \* the hosts asked in JSON mode
  MaxRounds,   \* MAX_REPAIR_ROUNDS
  MaxBakes     \* range(2) of _bake_with_one_provider_retry

Hosts == Routes \cup {Reviewer} \cup ({FallbackOf[r] : r \in Routes} \ {NoHost})

ASSUME BakeAssumption ==
  /\ IsFiniteSet(Slots) /\ Slots # {} /\ Slots \subseteq Nat
  /\ PhaseOf \in [Slots -> Nat \ {0}]
  /\ Questions \subseteq Slots
  /\ Spares \in [Slots -> Seq({"asked", "built"})]
  /\ Routes # {} /\ IsFiniteSet(Routes) /\ NoHost \notin Routes \cup {Reviewer}
  /\ DOMAIN FallbackOf = Routes
  /\ Attempts \in [Hosts -> Nat \ {0}]
  /\ JsonHosts \subseteq Hosts
  /\ MaxRounds \in Nat /\ MaxBakes \in Nat \ {0}

VARIABLES
  bake,      \* which bake of this attempt is running
  stage,     \* what the worker is doing
  phase,     \* the phase being generated or repaired
  final,     \* final[s]: the verdict on slot s
  eligible,  \* the slots for which some answer had the slot's shape
  todo,      \* the slots this round, or the replacements, have still to treat
  round,     \* the repair round
  option,    \* the replacement being tried for the first slot of todo
  call,      \* the provider call in progress, or NoCall
  result     \* how the attempt ended

vars == <<bake, stage, phase, final, eligible, todo, round, option, call, result>>

Faults == {"shape", "rule", "items"}
Accepted == {"ready", "spare"}
NoCall == [host |-> NoHost, spare |-> NoHost, tries |-> 0, json |-> FALSE]
Phases == {PhaseOf[s] : s \in Slots}
PhaseSlots(p) == {s \in Slots : PhaseOf[s] = p}
Verdicts(s) == {"ready", "rule", "shape"} \cup {v \in {"items"} : s \in Questions}

(* An exhausted text-questions slot is first asked for again on its own plan. *)
Options(s) == (IF s \in Questions THEN <<"asked">> ELSE <<>>) \o Spares[s]

Current == Min(todo)
OpenSlots(f, p) == {s \in PhaseSlots(p) : f[s] \in Faults}

(* Whether the evaluator may try option o of slot s. *)
MayReplace(s, o) == s \in eligible /\ o <= Len(Options(s))

AsksProvider ==
  \/ stage \in {"generate", "repair", "review"}
  \/ stage = "replace" /\ MayReplace(Current, option) /\ Options(Current)[option] = "asked"
-----------------------------------------------------------------------------
(* A call through one host; spare is the host to turn to when it is out. *)
CallOn(host, spare) ==
  [host |-> host, spare |-> spare, tries |-> 0, json |-> host \in JsonHosts]

(* The runner returns: the lesson is shipped or fails with a typed error. *)
Return(r) ==
  /\ stage' = "over"
  /\ result' = r
  /\ call' = NoCall
  /\ UNCHANGED <<bake, phase, final, eligible, todo, round, option>>

(* The phase is settled: generate the next one, or judge the draft. *)
NextPhase(f) ==
  /\ final' = f
  /\ LET later == {p \in Phases : p > phase}
     IN  IF later = {}
         THEN stage' = "judge" /\ phase' = phase
         ELSE stage' = "generate" /\ phase' = Min(later)
  /\ todo' = {}
  /\ round' = 0
  /\ option' = 0

(* A batch is evaluated: the slots that failed go to round r, or after the *)
(* last round to their replacements.                                       *)
NextRound(f, r) ==
  IF OpenSlots(f, phase) = {}
  THEN NextPhase(f)
  ELSE /\ final' = f
       /\ todo' = OpenSlots(f, phase)
       /\ IF r <= MaxRounds
          THEN stage' = "repair" /\ round' = r /\ option' = 0
          ELSE stage' = "replace" /\ round' = 0 /\ option' = 1
       /\ phase' = phase

(* The slot at hand has been treated in this round. *)
Treated(f) ==
  IF todo = {Current}
  THEN NextRound(f, round + 1)
  ELSE /\ final' = f
       /\ todo' = todo \ {Current}
       /\ UNCHANGED <<stage, phase, round, option>>

(* The slot at hand is settled, by a replacement or by dropping it. *)
Settled(verdict) ==
  LET f == [final EXCEPT ![Current] = verdict]
  IN  IF todo = {Current}
      THEN NextPhase(f)
      ELSE /\ final' = f
           /\ todo' = todo \ {Current}
           /\ option' = 1
           /\ UNCHANGED <<stage, phase, round>>
-----------------------------------------------------------------------------
Init ==
  /\ bake = 1
  /\ stage = "begin"
  /\ phase = 0
  /\ final = [s \in Slots |-> "none"]
  /\ eligible = {}
  /\ todo = {}
  /\ round = 0
  /\ option = 0
  /\ call = NoCall
  /\ result = "none"

(* begin_provider_call accepts and preflight finds an allocation. *)
Begin ==
  /\ stage = "begin"
  /\ stage' = "generate"
  /\ phase' = Min(Phases)
  /\ final' = [s \in Slots |-> "none"]
  /\ eligible' = {}
  /\ UNCHANGED <<bake, todo, round, option, call, result>>

(* Before any call: the data bundle is missing or has drifted, the text has *)
(* no capacity, or the certified plan breaks the quality rules.  A second   *)
(* bake meets the bundle, the text and the plan of the first.               *)
RefuseSource ==
  /\ stage = "begin"
  /\ bake = 1
  /\ \E r \in {"generation_failed", "source_refused", "floor_unmet"} : Return(r)

(* The lease is gone: begin_provider_call refuses, or the lesson is baked *)
(* for an attempt that is no longer current.                              *)
Abandon == stage \in {"begin", "assemble"} /\ Return("abandoned")

(* The generator picks a route for this call; the reviewer has its own. *)
Dial ==
  /\ AsksProvider
  /\ call = NoCall
  /\ IF stage = "review"
     THEN call' = CallOn(Reviewer, NoHost)
     ELSE \E r \in Routes : call' = CallOn(r, FallbackOf[r])
  /\ UNCHANGED <<bake, stage, phase, final, eligible, todo, round, option, result>>

(* A timeout, a lost connection or a 5xx with attempts left. *)
PostAgain ==
  /\ call # NoCall
  /\ call.tries + 1 < Attempts[call.host]
  /\ call' = [call EXCEPT !.tries = @ + 1]
  /\ UNCHANGED <<bake, stage, phase, final, eligible, todo, round, option, result>>

(* A 400 in JSON mode is posted once more without it, in the same attempt. *)
LeaveJsonMode ==
  /\ call.json
  /\ call' = [call EXCEPT !.json = FALSE]
  /\ UNCHANGED <<bake, stage, phase, final, eligible, todo, round, option, result>>

(* Definitions named X_<fault> are seeded faults: each is X with one mistake, *)
(* kept to show that the property named in PROJECT.json notices it.  Here    *)
(* the fallback falls back in its turn.                                      *)
FailOver_BackAndForth ==
  /\ call.spare # NoHost
  /\ call' = CallOn(call.spare, call.host)
  /\ UNCHANGED <<bake, stage, phase, final, eligible, todo, round, option, result>>

(* The host is out, by a 429 or after its last attempt, and a fallback is *)
(* configured.                                                            *)
FailOver ==
  /\ call.spare # NoHost
  /\ call' = CallOn(call.spare, NoHost)
  /\ UNCHANGED <<bake, stage, phase, final, eligible, todo, round, option, result>>

(* The call fails: "out" is retry_exhausted, "refused" another 4xx or a    *)
(* malformed envelope.  Only an outage turns to the fallback first.        *)
CallEnds(how) == call # NoCall /\ (how = "out" => call.spare = NoHost)

(* The runner bakes afresh after an outage, once, unless it is stopping. *)
MayRetry(how) == how = "out" /\ stage # "review" /\ bake < MaxBakes

ProviderFails(how) ==
  /\ stage \in {"generate", "review"}
  /\ CallEnds(how)
  /\ \/ Return("provider_unavailable")
     \/ /\ MayRetry(how)
        /\ bake' = bake + 1
        /\ stage' = "begin"
        /\ phase' = 0
        /\ call' = NoCall
        /\ UNCHANGED <<final, eligible, todo, round, option, result>>

(* The answer cannot be read: invalid JSON of a phase, or a review that is *)
(* malformed, ambiguous or from another route.                             *)
AnswerUnusable ==
  /\ stage \in {"generate", "review"}
  /\ call # NoCall
  /\ Return("generation_failed")

(* An error no boundary types: a 200 whose body is not JSON, or a block    *)
(* that cannot be assembled.                                               *)
EngineBreaks ==
  /\ \/ stage \in {"generate", "review"} /\ call # NoCall
     \/ stage = "assemble"
  /\ Return("engine_error")

(* The phase's answer is evaluated slot by slot. *)
PhaseDelivered ==
  /\ stage = "generate"
  /\ call # NoCall
  /\ \E v \in [PhaseSlots(phase) -> {"ready"} \cup Faults] :
       /\ \A s \in PhaseSlots(phase) : v[s] \in Verdicts(s)
       /\ eligible' = eligible \cup {s \in PhaseSlots(phase) : v[s] \in {"rule", "items"}}
       /\ NextRound([s \in Slots |-> IF s \in PhaseSlots(phase) THEN v[s] ELSE final[s]], 1)
  /\ call' = NoCall
  /\ UNCHANGED <<bake, result>>

(* A repaired record is evaluated.  An answer aimed at single questions is *)
(* merged into the prior record, so it keeps the slot's shape.             *)
RepairDelivered ==
  /\ stage = "repair"
  /\ call # NoCall
  /\ \E v \in Verdicts(Current) :
       /\ final[Current] = "items" => v # "shape"
       /\ eligible' = eligible \cup {s \in {Current} : v \in {"rule", "items"}}
       /\ Treated([final EXCEPT ![Current] = v])
  /\ call' = NoCall
  /\ UNCHANGED <<bake, result>>

(* A renderer that fails has not used up a round. *)
RepairLost_Uncounted ==
  /\ stage = "repair"
  /\ call # NoCall
  /\ call' = NoCall
  /\ UNCHANGED <<bake, stage, phase, final, eligible, todo, round, option, result>>

(* The renderer fails: an outage, an unreadable answer, another slot's     *)
(* record, or a change outside the questions asked for.  The previous      *)
(* block stays, with an error that is not about single questions.          *)
RepairLost ==
  /\ stage = "repair"
  /\ call # NoCall
  /\ Treated([final EXCEPT ![Current] = IF @ = "items" THEN "rule" ELSE @])
  /\ call' = NoCall
  /\ UNCHANGED <<bake, eligible, result>>

(* A replacement, asked for or built, is accepted; or the next is tried. *)
ReplacementTried ==
  /\ stage = "replace"
  /\ MayReplace(Current, option)
  /\ AsksProvider => call # NoCall
  /\ \/ Settled("spare")
     \/ /\ option' = option + 1
        /\ UNCHANGED <<stage, phase, final, todo, round>>
  /\ call' = NoCall
  /\ UNCHANGED <<bake, eligible, result>>

(* No answer ever had the slot's shape, or no replacement passed. *)
SlotDropped ==
  /\ stage = "replace"
  /\ ~MayReplace(Current, option)
  /\ Settled("dropped")
  /\ UNCHANGED <<bake, eligible, call, result>>

(* Only the evaluation of the last phase is looked at. *)
WholeDraft_LastPhase == \A s \in PhaseSlots(phase) : final[s] \in Accepted

WholeDraft == \A s \in Slots : final[s] \in Accepted

(* Every slot must be accepted, and a 45-minute lesson meet its quality    *)
(* contract, before the reviewer reads the teacher samples.  Which samples *)
(* the lesson has depends on its replacements; it may have none.           *)
Judge ==
  /\ stage = "judge"
  /\ \/ Return("floor_unmet")
     \/ /\ WholeDraft
        /\ stage' = "review"
        /\ UNCHANGED <<bake, phase, final, eligible, todo, round, option, call, result>>

ReviewDelivered ==
  /\ stage = "review"
  /\ call # NoCall
  /\ \/ Return("floor_unmet")
     \/ /\ stage' = "assemble"
        /\ call' = NoCall
        /\ UNCHANGED <<bake, phase, final, eligible, todo, round, option, result>>

(* No sample to read, a verdict remembered for the very same batch, or no *)
(* reviewer configured.                                                   *)
ReviewUnasked ==
  /\ stage = "review"
  /\ call = NoCall
  /\ \/ \E r \in {"floor_unmet", "generation_failed"} : Return(r)
     \/ /\ stage' = "assemble"
        /\ UNCHANGED <<bake, phase, final, eligible, todo, round, option, call, result>>

Ship == stage = "assemble" /\ Return("shipped")

Next ==
  \/ Begin \/ RefuseSource \/ Abandon
  \/ Dial \/ PostAgain \/ LeaveJsonMode \/ FailOver
  \/ \E how \in {"out", "refused"} : ProviderFails(how)
  \/ AnswerUnusable \/ EngineBreaks
  \/ PhaseDelivered \/ RepairDelivered \/ RepairLost
  \/ ReplacementTried \/ SlotDropped
  \/ Judge \/ ReviewDelivered \/ ReviewUnasked \/ Ship

Spec == Init /\ [][Next]_vars

(* The worker thread runs, and every post returns or times out. *)
FairSpec == Spec /\ WF_vars(Next)
-----------------------------------------------------------------------------
(* The calls of one bake, by what they ask for: the records of a phase, the *)
(* repair of a slot in a round, a replacement, the review of the samples.   *)
Asked(s) == {o \in 1 .. Len(Options(s)) : Options(s)[o] = "asked"}
BakeCalls ==
  [kind : {"generate"}, of : Phases, turn : {0}]
    \cup [kind : {"repair"}, of : Slots, turn : 1 .. MaxRounds]
    \cup (UNION {[kind : {"replace"}, of : {s}, turn : Asked(s)] : s \in Slots})
    \cup [kind : {"review"}, of : {0}, turn : {0}]

PhaseAsked(c) == IF c.kind = "generate" THEN c.of ELSE PhaseOf[c.of]

(* The bake may still come to call c. *)
Ahead(c) ==
  \/ stage = "begin"
  \/ stage \in {"generate", "repair", "replace", "judge", "review"} /\ c.kind = "review"
  \/ /\ stage \in {"generate", "repair", "replace"}
     /\ c.kind # "review"
     /\ PhaseAsked(c) > phase
  \/ /\ stage = "generate"
     /\ c.kind # "review"
     /\ PhaseAsked(c) = phase
  \/ /\ stage = "repair"
     /\ c.kind = "repair"
     /\ c.of \in OpenSlots(final, phase)
     /\ c.turn > round \/ (c.turn = round /\ c.of \in todo)
  \/ /\ stage = "repair"
     /\ c.kind = "replace"
     /\ c.of \in OpenSlots(final, phase)
  \/ /\ stage = "replace"
     /\ c.kind = "replace"
     /\ c.of \in todo
     /\ c.of = Current => c.turn >= option

CallsLeft == {c \in BakeCalls : Ahead(c)}

(* The posts that call c, or any call, may still take. *)
CallPosts(c) == Attempts[c.host] - c.tries + (IF c.json THEN 1 ELSE 0)
                + (IF c.spare = NoHost THEN 0
                   ELSE Attempts[c.spare] + (IF c.spare \in JsonHosts THEN 1 ELSE 0))
MostPosts == Max({CallPosts(CallOn(r, FallbackOf[r])) : r \in Routes}
                 \cup {CallPosts(CallOn(Reviewer, NoHost))})

(* An upper bound on the posts this attempt can still make. *)
PostsLeft ==
  IF stage = "over" THEN 0
  ELSE ((MaxBakes - bake) * Cardinality(BakeCalls) + Cardinality(CallsLeft)) * MostPosts
       - (IF call = NoCall THEN 0 ELSE MostPosts - CallPosts(call))
-----------------------------------------------------------------------------
Stages == {"begin", "generate", "repair", "replace", "judge", "review", "assemble", "over"}
Results == {"none", "source_refused", "abandoned", "provider_unavailable", "generation_failed",
            "engine_error", "floor_unmet", "shipped"}

(* Every variable has its type. *)
TypeOK ==
  /\ bake \in 1 .. MaxBakes
  /\ stage \in Stages
  /\ phase \in {0} \cup Phases
  /\ final \in [Slots -> {"none", "dropped"} \cup Accepted \cup Faults]
  /\ eligible \subseteq Slots
  /\ todo \subseteq Slots
  /\ round \in 0 .. MaxRounds
  /\ option \in Nat
  /\ call \in [host : Hosts \cup {NoHost}, spare : Hosts \cup {NoHost}, tries : Nat, json : BOOLEAN]
  /\ result \in Results

(* Attempts, failover, repair rounds, replacements and the second bake      *)
(* multiply, but not without end: every post of a provider call uses up a  *)
(* part of a budget fixed when the attempt begins, whatever the hosts and  *)
(* the model answer.                                                       *)
SpendIsBounded ==
  [][/\ PostsLeft' \in Nat
     /\ PostsLeft' <= PostsLeft
     /\ call # NoCall => PostsLeft' < PostsLeft]_vars

(* A lesson with a hole is neither reviewed nor shipped: past the judgement *)
(* every slot of every phase is accepted, and a phase is left only when    *)
(* each of its slots is accepted or given up for good.                     *)
WholeLessonsOnly ==
  /\ stage \in {"review", "assemble"} \/ result = "shipped" =>
       \A s \in Slots : final[s] \in Accepted
  /\ stage \notin {"begin", "over"} =>
       \A s \in Slots :
         /\ PhaseOf[s] > phase => final[s] = "none"
         /\ PhaseOf[s] < phase => final[s] \in Accepted \cup {"dropped"}

(* Whatever the provider does, the runner gets an answer. *)
EveryBakeReturns == <>(stage = "over")
=============================================================================
