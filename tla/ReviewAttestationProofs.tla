----------------------- MODULE ReviewAttestationProofs -----------------------
(***************************************************************************)
(* Theorems about ReviewAttestation, for every set of processes, tokens,   *)
(* inputs and keys and every length of the recovery chain: types, the      *)
(* lifecycle lock, what may be charged, and what a receipt rests on.       *)
(***************************************************************************)
EXTENDS ReviewAttestation, WellFoundedInduction, TLAPS
-----------------------------------------------------------------------------
(* The keys a request can reserve, and where it owns its token. *)
Reservable == Inputs \cup Spare
Holding == InFlight \cup {"signing"}

(* The operator's grant that a recovery's key was made with is consumed. *)
HasGrant(k) == k \in Inputs \/ \E old \in consumed : Grants(old) /\ newKey[old] = k

(* Recoveries do not share a key, a grant draws a fresh one, and only *)
(* grants are consumed.                                               *)
RecoveriesAreLinked ==
  \A k \in Keys :
    /\ Grants(k) => newKey[k] \in Spare
    /\ k \in consumed => Grants(k)
    /\ \A j \in Keys : newKey[j] = newKey[k] /\ newKey[k] # None => j = k

(* A key without a row was never charged. *)
RowsComeFirst == \A k \in Keys : result[k] = "none" => calls[k] = 0

(* A request between its reservation and its outcome is to make, or has *)
(* made, the one call of its key.                                       *)
CallsAreReserved ==
  \A p \in Procs : at[p] \in InFlight =>
    /\ req[p].key \in Reservable
    /\ HasGrant(req[p].key)
    /\ calls[req[p].key] = IF at[p] = "reserved" THEN 0 ELSE 1

SpendIsGranted ==
  \A k \in Keys : calls[k] \in {0, 1} /\ (calls[k] = 1 => HasGrant(k))

(* What a verdict that is signed rests on. *)
Rests(key, asked, got) ==
  \/ result[key] = "success" /\ reviewed[key] = got /\ calls[key] = 1
  \/ key = Narrow(asked) /\ sealed[key] # None /\ got = asked

VerdictsRest ==
  /\ \A k \in Keys \ Heads : result[k] = "success" => calls[k] = 1
  /\ \A p \in Procs : at[p] = "sealed" => sealed[Narrow(req[p].input)] # None
  /\ \A p \in Procs : at[p] = "signing" => Rests(req[p].key, req[p].input, req[p].got)
  /\ \A r \in receipts : Rests(r.key, r.asked, r.got)

(* A token in use is spent, by one request only, and has no receipt yet. *)
TokensAreOwned ==
  /\ \A p \in Procs : at[p] \in Holding =>
       /\ req[p].token \in spent
       /\ \A r \in receipts : r.token # req[p].token
       /\ at[p] = "reserved" => charged[req[p].token] = 0
       /\ \A q \in Procs : at[q] \in Holding /\ req[q].token = req[p].token => q = p
  /\ \A r \in receipts : r.token \in spent
  /\ \A t \in Tokens : t \notin spent => charged[t] = 0

Safe ==
  /\ TypeOK
  /\ LockCoversTheCall
  /\ RecoveriesAreLinked
  /\ RecoveriesAreSound
  /\ RowsComeFirst
  /\ CallsAreReserved
  /\ SpendIsGranted
  /\ VerdictsRest
  /\ TokensAreOwned
  /\ TokensWorkOnce
-----------------------------------------------------------------------------
(* Keys, chains and the cases of a step. *)

(* The loop over the recoveries of i stops at k. *)
OnChain(i, k) ==
  \E n \in 0 .. MaxHops - 1 : \E hop \in [0 .. n -> {Source(i)} \cup Spare] :
    Chain(i, n, hop) /\ k = hop[n]

(* The request ends and leaves nothing but what was committed before. *)
Quits(p) ==
  /\ at[p] # "idle"
  /\ End(p)
  /\ UNCHANGED <<database, calls, charged, receipts>>

(* The key of an input, its old key and the row its chain starts from. *)
LEMMA KeyFacts ==
  ASSUME NEW i \in Inputs
  PROVE  /\ Key(i) = i /\ i \in Keys /\ i \notin Heads
         /\ Narrow(i) \in Heads /\ Narrow(i) \in Keys
         /\ Source(i) \in Keys
         /\ Source(i) # i => Source(i) = Narrow(i) /\ result[Narrow(i)] \in Stranded
         /\ Untouched(Source(i)) => Untouched(i)
<1>1. i \in Keys /\ i \notin Heads /\ Narrow(i) \in Heads /\ Narrow(i) \in Keys
  BY InputsAssumption, KeysAssumption DEF Keys, Narrow
<1>2. Key(i) = i
  BY DEF Key
<1>3. Source(i) = i \/ (Source(i) = Narrow(i) /\ result[Narrow(i)] \in Stranded)
  BY <1>2 DEF Source
<1>4. Source(i) # i => ~Untouched(Source(i))
  BY <1>3 DEF Untouched, Stranded
<1> QED BY <1>1, <1>2, <1>3, <1>4

(* A chain stops at the key it starts from, or at a granted key that was *)
(* charged without a review.                                             *)
LEMMA ChainStops ==
  ASSUME TypeOK, NEW i \in Inputs, NEW k, OnChain(i, k)
  PROVE  k \in Keys /\ (k = Source(i) \/ result[k] \in Stranded)
<1>1. PICK n \in 0 .. MaxHops - 1 :
        \E hop \in [0 .. n -> {Source(i)} \cup Spare] : Chain(i, n, hop) /\ k = hop[n]
  BY DEF OnChain
<1>2. PICK hop \in [0 .. n -> {Source(i)} \cup Spare] : Chain(i, n, hop) /\ k = hop[n]
  BY <1>1
<1>3. n \in Nat /\ n \in 0 .. n /\ (n # 0 => n \in 1 .. n /\ n - 1 \in 0 .. n)
  BY MaxHopsAssumption
<1>4. k \in Keys
  BY <1>2, <1>3, KeyFacts DEF Keys
<1>5. CASE n = 0
  BY <1>2, <1>4, <1>5 DEF Chain
<1>6. CASE n # 0
  <2>1. Moves(hop[n - 1]) /\ k = newKey[hop[n - 1]]
    BY <1>2, <1>3, <1>6 DEF Chain
  <2> QED BY <1>4, <2>1 DEF Moves
<1> QED BY <1>5, <1>6

(* A step of the program is one of these. *)
LEMMA Cases ==
  ASSUME TypeOK, [Next]_vars
  PROVE  \/ UNCHANGED vars
         \/ \E p \in Procs, t \in Tokens, i \in Inputs : Begin(p, t, i)
         \/ \E p \in Procs :
              \/ SealedReview(p)
              \/ Lock(p)
              \/ Quits(p)
              \/ Reserve(p)
              \/ \E k \in Keys :
                   OnChain(req[p].input, k) /\ (Replay(p, k) \/ ReserveGrant(p, k))
              \/ Call(p)
              \/ FinishReview(p)
              \/ FinishFailure(p)
              \/ Sign(p)
         \/ \E k \in Keys : Recover(k)
         \/ \E h \in Heads, c \in Comments : Seal(h, c)
<1>1. ASSUME NEW p \in Procs, GiveUp(p) \/ FinishRaises(p) \/ Crash(p)
      PROVE  Quits(p)
  BY <1>1 DEF GiveUp, FinishRaises, Crash, Quits
<1>2. ASSUME NEW p \in Procs, Reservation(p)
      PROVE  \/ Reserve(p) \/ Quits(p)
             \/ \E k \in Keys :
                  OnChain(req[p].input, k) /\ (Replay(p, k) \/ ReserveGrant(p, k))
  <2>1. at[p] = "locked" /\ req[p].input \in Inputs
    BY <1>2 DEF TypeOK, Reservation, Requests
  <2>2. CASE ~Reserve(p)
    <3>1. PICK n \in 0 .. MaxHops - 1 :
            \E hop \in [0 .. n -> {Source(req[p].input)} \cup Spare] :
              /\ Chain(req[p].input, n, hop)
              /\ Replay(p, hop[n]) \/ ReserveGrant(p, hop[n]) \/ Refuse(p, hop[n])
      BY <1>2, <2>2 DEF Reservation
    <3>. PICK hop \in [0 .. n -> {Source(req[p].input)} \cup Spare] :
           /\ Chain(req[p].input, n, hop)
           /\ Replay(p, hop[n]) \/ ReserveGrant(p, hop[n]) \/ Refuse(p, hop[n])
      BY <3>1
    <3>2. hop[n] \in Keys /\ OnChain(req[p].input, hop[n])
      BY <2>1, ChainStops DEF OnChain
    <3>3. Refuse(p, hop[n]) => Quits(p)
      BY DEF Refuse, Quits
    <3> QED BY <3>2, <3>3
  <2> QED BY <2>2
<1>3. ASSUME NEW p \in Procs, Progress(p)
      PROVE  \/ SealedReview(p) \/ Lock(p) \/ Quits(p) \/ Reservation(p) \/ Call(p)
             \/ FinishReview(p) \/ FinishFailure(p) \/ Sign(p)
  BY <1>1, <1>3 DEF Progress
<1>4. CASE UNCHANGED vars
  BY <1>4
<1>5. CASE Next
  <2>1. CASE \E p \in Procs : Progress(p)
    BY <1>2, <1>3, <2>1
  <2>2. CASE \E p \in Procs : Crash(p)
    BY <1>1, <2>2
  <2> QED BY <1>5, <2>1, <2>2 DEF Next
<1> QED BY <1>4, <1>5
-----------------------------------------------------------------------------
(* Types. *)

DatabaseOK ==
  /\ result \in [Keys -> States]
  /\ reviewed \in [Keys -> Inputs \cup {None}]
  /\ disposition \in [Keys -> Dispositions \cup {"none"}]
  /\ newKey \in [Keys -> Keys \cup {None}]
  /\ consumed \subseteq Keys
  /\ spent \subseteq Tokens
  /\ sealed \in [Heads -> Comments \cup {None}]
  /\ \A k \in Keys : disposition[k] # "none" <=> newKey[k] # None
  /\ \A k \in Keys : result[k] = "success" <=> reviewed[k] # None

RequestsOK ==
  /\ lock \in Procs \cup {None}
  /\ at \in [Procs -> Places]
  /\ req \in [Procs -> Requests]
  /\ \A p \in Procs : at[p] # "idle" => req[p].token # None /\ req[p].input # None
  /\ \A p \in Procs : at[p] \in InFlight => req[p].key # None
  /\ \A p \in Procs : at[p] = "signing" => req[p].key # None /\ req[p].got # None

CountsOK ==
  /\ calls \in [Keys -> Nat]
  /\ charged \in [Tokens -> Nat]
  /\ receipts \subseteq [token: Tokens, asked: Inputs, key: Keys, got: Inputs]

LEMMA TypeParts == TypeOK <=> DatabaseOK /\ RequestsOK /\ CountsOK
BY DEF TypeOK, DatabaseOK, RequestsOK, CountsOK

(* Distinct kinds of values are distinct from None. *)
LEMMA NoneFacts ==
  /\ None \notin Keys /\ None \notin Inputs /\ None \notin Tokens
  /\ None \notin Procs /\ None \notin Comments
BY NoneAssumption DEF Keys

(* A request that is under way has a token and an input, and a key and a *)
(* verdict where it needs them.                                          *)
LEMMA RequestFacts ==
  ASSUME TypeOK, NEW p \in Procs
  PROVE  /\ at[p] # "idle" => req[p].token \in Tokens /\ req[p].input \in Inputs
         /\ at[p] \in InFlight \cup {"signing"} => req[p].key \in Keys
         /\ at[p] = "signing" => req[p].got \in Inputs
BY DEF TypeOK, Requests, InFlight

(* One request moves on: the others stay where they are. *)
LEMMA OneMoves ==
  ASSUME RequestsOK, NEW p \in Procs, NEW label \in Places, NEW r \in Requests,
         at' = [at EXCEPT ![p] = label], req' = [req EXCEPT ![p] = r],
         lock' \in {lock, None, p},
         label # "idle" => r.token # None /\ r.input # None,
         label \in InFlight => r.key # None,
         label = "signing" => r.key # None /\ r.got # None
  PROVE  RequestsOK'
<1>1. lock' \in Procs \cup {None}
  BY DEF RequestsOK
<1>2. at' \in [Procs -> Places] /\ req' \in [Procs -> Requests]
  BY DEF RequestsOK
<1>3. \A q \in Procs :
        /\ at'[q] = IF q = p THEN label ELSE at[q]
        /\ req'[q] = IF q = p THEN r ELSE req[q]
  BY DEF RequestsOK
<1> QED BY <1>1, <1>2, <1>3 DEF RequestsOK

LEMMA EndType ==
  ASSUME RequestsOK, NEW p \in Procs, End(p)
  PROVE  RequestsOK'
<1>1. Blank \in Requests
  BY DEF Blank, Request, Requests
<1> QED BY <1>1, OneMoves DEF End, Goto, Unlock, Places, InFlight

LEMMA ReserveType ==
  ASSUME TypeOK, NEW p \in Procs, NEW k \in Keys, at[p] = "locked",
         result[k] = "none", ReserveKey(p, k), consumed' \subseteq Keys
  PROVE  TypeOK'
<1>1. req[p].token \in Tokens /\ req[p].input \in Inputs
  BY RequestFacts
<1>2. DatabaseOK'
  <2>1. \A j \in Keys : result'[j] = IF j = k THEN "pending" ELSE result[j]
    BY DEF TypeOK, ReserveKey
  <2>2. result' \in [Keys -> States]
    BY DEF TypeOK, ReserveKey, States
  <2>3. spent' \subseteq Tokens
    BY <1>1 DEF TypeOK, ReserveKey, SpendToken
  <2> QED BY <2>1, <2>2, <2>3 DEF TypeOK, DatabaseOK, ReserveKey
<1>3. RequestsOK'
  <2> DEFINE r == [req[p] EXCEPT !.key = k]
  <2>1. r \in Requests /\ r.token = req[p].token /\ r.input = req[p].input /\ r.key = k
    BY DEF TypeOK, Requests
  <2>2. at' = [at EXCEPT ![p] = "reserved"] /\ req' = [req EXCEPT ![p] = r] /\ lock' = lock
    BY DEF ReserveKey, Goto, TypeOK
  <2>3. RequestsOK /\ "reserved" \in Places
    BY TypeParts DEF Places
  <2> HIDE DEF r
  <2> QED BY <1>1, <2>1, <2>2, <2>3, NoneFacts, OneMoves
<1>4. CountsOK'
  BY DEF TypeOK, CountsOK, ReserveKey
<1> QED BY <1>2, <1>3, <1>4 DEF TypeOK, DatabaseOK, RequestsOK, CountsOK

(* Every variable keeps its type, step by step. *)
LEMMA TypeStep ==
  ASSUME TypeOK, [Next]_vars
  PROVE  TypeOK'
<1>1. DatabaseOK /\ RequestsOK /\ CountsOK
  BY DEF TypeOK, DatabaseOK, RequestsOK, CountsOK
<1>2. ASSUME DatabaseOK', RequestsOK', CountsOK'
      PROVE  TypeOK'
  BY <1>2 DEF TypeOK, DatabaseOK, RequestsOK, CountsOK
<1>3. UNCHANGED database => DatabaseOK'
  BY <1>1 DEF DatabaseOK, database
<1>4. UNCHANGED <<calls, charged, receipts>> => CountsOK'
  BY <1>1 DEF CountsOK
<1>5. UNCHANGED <<lock, at, req>> => RequestsOK'
  BY <1>1 DEF RequestsOK
<1>6. CASE UNCHANGED vars
  BY <1>2, <1>3, <1>4, <1>5, <1>6 DEF vars
<1>7. ASSUME NEW p \in Procs, NEW t \in Tokens, NEW i \in Inputs, Begin(p, t, i)
      PROVE  TypeOK'
  <2> DEFINE r == [token |-> t, input |-> i, key |-> None, got |-> None]
             label == IF sealed[Narrow(i)] # None THEN "sealed" ELSE "paid"
  <2>1. r \in Requests /\ r.token # None /\ r.input # None
    BY NoneFacts DEF Requests
  <2>2. at' = [at EXCEPT ![p] = label] /\ lock' = lock
    BY <1>7 DEF Begin, Goto
  <2>6. req' = [req EXCEPT ![p] = r]
    BY <1>7 DEF Begin, Request
  <2>3. label \in Places /\ label \notin InFlight /\ label # "signing"
    BY DEF Places, InFlight
  <2> HIDE DEF r, label
  <2>4. RequestsOK'
    BY <1>1, <2>1, <2>2, <2>3, <2>6, OneMoves
  <2> QED BY <1>2, <1>3, <1>4, <1>7, <2>4 DEF Begin
<1>8. ASSUME NEW p \in Procs, SealedReview(p)
      PROVE  TypeOK'
  <2> DEFINE i == req[p].input
             r == [token |-> req[p].token, input |-> i, key |-> Narrow(i), got |-> i]
  <2>1. i \in Inputs /\ req[p].token \in Tokens
    BY <1>8, RequestFacts DEF SealedReview
  <2>2. Narrow(i) \in Keys
    BY <2>1, KeyFacts
  <2>3. r \in Requests /\ r.token # None /\ r.input # None /\ r.key # None /\ r.got # None
    BY <2>1, <2>2, NoneFacts DEF Requests
  <2>4. at' = [at EXCEPT ![p] = "signing"] /\ lock' = lock
    BY <1>8 DEF SealedReview, Goto
  <2>5. req' = [req EXCEPT ![p] = r]
    BY <1>8 DEF SealedReview, Request
  <2>6. "signing" \in Places /\ "signing" \notin InFlight
    BY DEF Places, InFlight
  <2> HIDE DEF r
  <2>7. RequestsOK'
    BY <1>1, <2>3, <2>4, <2>5, <2>6, OneMoves
  <2>8. DatabaseOK'
    BY <1>1, <1>8, <2>1 DEF SealedReview, DatabaseOK
  <2> QED BY <1>2, <1>4, <1>8, <2>7, <2>8 DEF SealedReview
<1>9. ASSUME NEW p \in Procs, Lock(p)
      PROVE  TypeOK'
  <2>1. req[p] \in Requests /\ req[p].token # None /\ req[p].input # None
    BY <1>1, <1>9 DEF RequestsOK, Lock
  <2>2. at' = [at EXCEPT ![p] = "locked"] /\ req' = [req EXCEPT ![p] = req[p]] /\ lock' = p
    BY <1>1, <1>9 DEF RequestsOK, Lock, Goto
  <2>3. "locked" \in Places /\ "locked" \notin InFlight
    BY DEF Places, InFlight
  <2>4. RequestsOK'
    BY <1>1, <2>1, <2>2, <2>3, OneMoves
  <2> QED BY <1>2, <1>3, <1>4, <1>9, <2>4 DEF Lock
<1>10. ASSUME NEW p \in Procs, Quits(p)
       PROVE  TypeOK'
  BY <1>1, <1>2, <1>3, <1>4, <1>10, EndType DEF Quits
<1>11. ASSUME NEW p \in Procs, Reserve(p)
       PROVE  TypeOK'
  <2>1. at[p] = "locked" /\ req[p].input \in Inputs
    BY <1>11, RequestFacts DEF Reserve, Fresh
  <2>2. Key(req[p].input) = req[p].input /\ req[p].input \in Keys
        /\ Untouched(req[p].input)
    BY <1>11, <2>1, KeyFacts DEF Reserve
  <2>3. consumed' \subseteq Keys
    BY <1>1, <1>11 DEF Reserve, DatabaseOK
  <2> QED BY <1>11, <2>1, <2>2, <2>3, ReserveType DEF Reserve, Untouched
<1>12. ASSUME NEW p \in Procs, NEW k \in Keys, ReserveGrant(p, k)
       PROVE  TypeOK'
  <2>1. newKey[k] \in Keys /\ result[newKey[k]] = "none" /\ at[p] = "locked"
    BY <1>1, <1>12 DEF ReserveGrant, Unused, Grants, DatabaseOK, Fresh
  <2>2. consumed' \subseteq Keys /\ ReserveKey(p, newKey[k])
    BY <1>1, <1>12 DEF ReserveGrant, DatabaseOK
  <2> QED BY <2>1, <2>2, ReserveType
<1>13. ASSUME NEW p \in Procs, NEW k \in Keys, Replay(p, k)
       PROVE  TypeOK'
  <2>1. /\ at[p] = "locked" /\ req[p].input \in Inputs /\ req[p].token \in Tokens
        /\ Row(k) \in Keys
    BY <1>1, <1>13, RequestFacts DEF Replay, Fresh, Row, Grants, DatabaseOK
  <2>2. DatabaseOK'
    BY <1>1, <1>13, <2>1 DEF Replay, SpendToken, DatabaseOK
  <2>3. CASE result[Row(k)] = "success"
    <3> DEFINE r == [token |-> req[p].token, input |-> req[p].input,
                     key |-> Row(k), got |-> reviewed[Row(k)]]
    <3>1. reviewed[Row(k)] \in Inputs
      BY <1>1, <2>1, <2>3 DEF DatabaseOK
    <3>2. r \in Requests /\ r.token # None /\ r.input # None /\ r.key # None /\ r.got # None
      BY <2>1, <3>1, NoneFacts DEF Requests
    <3>3. at' = [at EXCEPT ![p] = "signing"] /\ lock' \in {lock, None}
      BY <1>13, <2>3 DEF Replay, Goto, Unlock
    <3>4. req' = [req EXCEPT ![p] = r]
      BY <1>13, <2>3 DEF Replay, Request
    <3>5. "signing" \in Places /\ "signing" \notin InFlight
      BY DEF Places, InFlight
    <3> HIDE DEF r
    <3>6. RequestsOK'
      BY <1>1, <3>2, <3>3, <3>4, <3>5, OneMoves
    <3> QED BY <1>2, <1>4, <1>13, <2>2, <3>6 DEF Replay
  <2>4. CASE result[Row(k)] # "success"
    <3>1. End(p)
      BY <1>13, <2>4 DEF Replay
    <3> QED BY <1>1, <1>2, <1>4, <1>13, <2>2, <3>1, EndType DEF Replay
  <2> QED BY <2>3, <2>4
<1>14. ASSUME NEW p \in Procs, Call(p)
       PROVE  TypeOK'
  <2>1. /\ at[p] = "reserved" /\ req[p] \in Requests
        /\ req[p].token # None /\ req[p].input # None /\ req[p].key # None
        /\ req[p].token \in Tokens /\ req[p].key \in Keys
    BY <1>1, <1>14, NoneFacts, RequestFacts DEF RequestsOK, Call, InFlight
  <2>2. at' = [at EXCEPT ![p] = "calling"] /\ req' = [req EXCEPT ![p] = req[p]] /\ lock' = lock
    BY <1>1, <1>14 DEF RequestsOK, Call, Goto
  <2>3. "calling" \in Places
    BY DEF Places
  <2>4. RequestsOK'
    BY <1>1, <2>1, <2>2, <2>3, OneMoves
  <2>5. CountsOK'
    BY <1>1, <1>14, <2>1 DEF CountsOK, Call
  <2> QED BY <1>2, <1>3, <1>14, <2>4, <2>5 DEF Call
<1>15. ASSUME NEW p \in Procs, FinishReview(p)
       PROVE  TypeOK'
  <2> DEFINE r == [token |-> req[p].token, input |-> req[p].input,
                   key |-> req[p].key, got |-> req[p].input]
  <2>1. /\ at[p] = "calling" /\ req[p].token \in Tokens /\ req[p].input \in Inputs
        /\ req[p].key \in Keys
    BY <1>15, RequestFacts DEF FinishReview, InFlight
  <2>2. r \in Requests /\ r.token # None /\ r.input # None /\ r.key # None /\ r.got # None
    BY <2>1, NoneFacts DEF Requests
  <2>3. at' = [at EXCEPT ![p] = "signing"] /\ lock' \in {lock, None}
    BY <1>15 DEF FinishReview, Goto, Unlock
  <2>4. req' = [req EXCEPT ![p] = r]
    BY <1>15 DEF FinishReview, Request
  <2>5. "signing" \in Places /\ "signing" \notin InFlight
    BY DEF Places, InFlight
  <2> HIDE DEF r
  <2>6. RequestsOK'
    BY <1>1, <2>2, <2>3, <2>4, <2>5, OneMoves
  <2>7. DatabaseOK'
    <3>1. \A k \in Keys :
            /\ result'[k] = IF k = req[p].key THEN "success" ELSE result[k]
            /\ reviewed'[k] = IF k = req[p].key THEN req[p].input ELSE reviewed[k]
      BY <1>1, <1>15 DEF FinishReview, DatabaseOK
    <3>2. result' \in [Keys -> States] /\ reviewed' \in [Keys -> Inputs \cup {None}]
      BY <1>1, <1>15, <2>1 DEF FinishReview, DatabaseOK, States
    <3> QED BY <1>1, <1>15, <2>1, <3>1, <3>2, NoneFacts DEF FinishReview, DatabaseOK
  <2> QED BY <1>2, <1>4, <1>15, <2>6, <2>7 DEF FinishReview
<1>16. ASSUME NEW p \in Procs, FinishFailure(p)
       PROVE  TypeOK'
  <2>1. DatabaseOK'
    <3>1. /\ \A k \in Keys : result'[k] = IF k = req[p].key THEN "failure" ELSE result[k]
          /\ result[req[p].key] = "pending"
      BY <1>1, <1>16 DEF FinishFailure, DatabaseOK
    <3>2. result' \in [Keys -> States]
      BY <1>1, <1>16 DEF FinishFailure, DatabaseOK, States
    <3> QED BY <1>1, <1>16, <3>1, <3>2 DEF FinishFailure, DatabaseOK
  <2>2. RequestsOK'
    BY <1>1, <1>16, EndType DEF FinishFailure
  <2> QED BY <1>2, <1>4, <1>16, <2>1, <2>2 DEF FinishFailure
<1>17. ASSUME NEW p \in Procs, Sign(p)
       PROVE  TypeOK'
  <2>1. /\ req[p].token \in Tokens /\ req[p].input \in Inputs /\ req[p].key \in Keys
        /\ req[p].got \in Inputs
    BY <1>17, RequestFacts DEF Sign
  <2>2. CountsOK'
    BY <1>1, <1>17, <2>1 DEF CountsOK, Sign
  <2>3. RequestsOK'
    BY <1>1, <1>17, EndType DEF Sign
  <2> QED BY <1>2, <1>3, <1>17, <2>2, <2>3 DEF Sign
<1>18. ASSUME NEW k \in Keys, Recover(k)
       PROVE  TypeOK'
  <2>1. PICK d \in Dispositions, n \in {k} \cup Spare :
          /\ disposition' = [disposition EXCEPT ![k] = d]
          /\ newKey' = [newKey EXCEPT ![k] = n]
    BY <1>18 DEF Recover
  <2>2. n \in Keys /\ n # None /\ d # "none"
    BY <2>1, NoneFacts DEF Keys, Dispositions
  <2>3. DatabaseOK'
    <3>1. \A j \in Keys :
            /\ disposition'[j] = IF j = k THEN d ELSE disposition[j]
            /\ newKey'[j] = IF j = k THEN n ELSE newKey[j]
      BY <1>1, <2>1 DEF DatabaseOK
    <3>2. /\ disposition' \in [Keys -> Dispositions \cup {"none"}]
          /\ newKey' \in [Keys -> Keys \cup {None}]
      BY <1>1, <2>1, <2>2 DEF DatabaseOK
    <3> QED BY <1>1, <1>18, <2>2, <3>1, <3>2 DEF Recover, DatabaseOK
  <2> QED BY <1>2, <1>4, <1>5, <1>18, <2>3 DEF Recover
<1>19. ASSUME NEW h \in Heads, NEW c \in Comments, Seal(h, c)
       PROVE  TypeOK'
  <2>1. DatabaseOK'
    BY <1>1, <1>19 DEF Seal, DatabaseOK
  <2> QED BY <1>2, <1>4, <1>5, <1>19, <2>1 DEF Seal
<1> QED
  BY <1>6, <1>7, <1>8, <1>9, <1>10, <1>11, <1>12, <1>13, <1>14, <1>15, <1>16, <1>17, <1>18,
     <1>19, Cases

LEMMA TypeInitially == Init => TypeOK
<1> SUFFICES ASSUME Init PROVE TypeOK
  OBVIOUS
<1>1. PICK old \in [OldHeads -> States] :
        result = [k \in Keys |-> IF k \in OldHeads THEN old[k] ELSE "none"]
  BY DEF Init
<1>2. PICK told \in [OldHeads -> Inputs] :
        reviewed = [k \in Keys |-> IF k \in OldHeads /\ result[k] = "success"
                                     THEN told[k] ELSE None]
  BY DEF Init
<1>3. \A k \in Keys : result[k] = IF k \in OldHeads THEN old[k] ELSE "none"
  BY <1>1
<1>4. result \in [Keys -> States]
  BY <1>1 DEF States
<1>5. /\ reviewed \in [Keys -> Inputs \cup {None}]
      /\ \A k \in Keys : result[k] = "success" <=> reviewed[k] # None
  BY <1>2, <1>3, NoneFacts
<1>6. DatabaseOK
  BY <1>4, <1>5 DEF Init, DatabaseOK
<1>7. RequestsOK
  BY DEF Init, RequestsOK, Blank, Request, Requests, Places, InFlight
<1>8. CountsOK
  BY DEF Init, CountsOK
<1> QED BY <1>6, <1>7, <1>8, TypeParts

(* TypeOK is an invariant: every variable keeps its type, and a request has *)
(* the token, input, key and verdict that its place needs.                  *)
THEOREM TypeCorrect == Spec => []TypeOK
<1>1. TypeOK /\ [Next]_vars => TypeOK'
  BY TypeStep
<1> QED BY <1>1, TypeInitially, PTL DEF Spec
-----------------------------------------------------------------------------
(* The lifecycle lock. *)

Busy == {"locked"} \cup InFlight

(* Where a step takes its request, and what that leaves to the others. *)
LEMMA Moved ==
  ASSUME TypeOK, NEW p \in Procs, NEW label, Goto(p, label)
  PROVE  \A q \in Procs : at'[q] = IF q = p THEN label ELSE at[q]
BY DEF TypeOK, Goto

LEMMA Ended ==
  ASSUME TypeOK, NEW p \in Procs, End(p)
  PROVE  /\ \A q \in Procs : at'[q] = IF q = p THEN "idle" ELSE at[q]
         /\ \A q \in Procs : req'[q] = IF q = p THEN Blank ELSE req[q]
         /\ lock' = IF lock = p THEN None ELSE lock
BY DEF TypeOK, End, Goto, Unlock

(* Only the holder of the lock is between its reservation and its outcome. *)
LEMMA AloneInside ==
  ASSUME LockCoversTheCall, NEW p \in Procs, at[p] \in Busy
  PROVE  lock = p /\ \A q \in Procs : at[q] \in Busy => q = p
BY DEF LockCoversTheCall, Busy

LEMMA LockStep ==
  ASSUME TypeOK, LockCoversTheCall, [Next]_vars
  PROVE  LockCoversTheCall'
(* A request that leaves the lock, or never had it, changes only rows it *)
(* had reserved.                                                         *)
<1>1. ASSUME NEW p \in Procs, NEW label, label \notin Busy, Goto(p, label), Unlock(p),
             \A q \in Procs \ {p} : req'[q] = req[q],
             at[p] \in Busy \/ result' = result, disposition' = disposition
      PROVE  LockCoversTheCall'
  <2>1. \A q \in Procs : at'[q] = IF q = p THEN label ELSE at[q]
    BY <1>1, Moved
  <2>2. \A q \in Procs : at'[q] \in Busy =>
          q # p /\ at[q] \in Busy /\ at'[q] = at[q] /\ req'[q] = req[q] /\ result' = result
    BY <1>1, <2>1, AloneInside
  <2>3. \A q \in Procs : at'[q] \in InFlight =>
          result'[req'[q].key] = "pending" /\ disposition'[req'[q].key] = "none"
    BY <1>1, <2>2 DEF LockCoversTheCall, Busy
  <2>4. \A q \in Procs : at'[q] \in Busy => lock' = q
    BY <1>1, <2>2 DEF LockCoversTheCall, Busy, Unlock
  <2>5. lock' # None => at'[lock'] \in Busy
    BY <1>1, <2>1 DEF LockCoversTheCall, Busy, TypeOK, Unlock
  <2> QED BY <2>3, <2>4, <2>5 DEF LockCoversTheCall, Busy
<1>2. ASSUME NEW p \in Procs, NEW k \in Keys, at[p] = "locked", Untouched(k), ReserveKey(p, k)
      PROVE  LockCoversTheCall'
  <2>1. /\ \A q \in Procs : at'[q] = IF q = p THEN "reserved" ELSE at[q]
        /\ \A q \in Procs : at[q] \in Busy => q = p
        /\ lock' = p /\ req'[p].key = k /\ result'[k] = "pending" /\ disposition'[k] = "none"
    BY <1>2, AloneInside DEF ReserveKey, Goto, TypeOK, Untouched, Busy, Requests
  <2> QED BY <2>1, NoneFacts DEF LockCoversTheCall, Busy, InFlight
<1>3. ASSUME NEW p \in Procs, End(p), at[p] \in Busy \/ result' = result,
             disposition' = disposition
      PROVE  LockCoversTheCall'
  <2>1. "idle" \notin Busy /\ Goto(p, "idle") /\ Unlock(p)
    BY <1>3 DEF Busy, InFlight, End
  <2>2. \A q \in Procs \ {p} : req'[q] = req[q]
    BY <1>3, Ended
  <2> QED BY <1>1, <1>3, <2>1, <2>2
<1>4. ASSUME UNCHANGED <<lock, at, req, result, disposition>>
      PROVE  LockCoversTheCall'
  BY <1>4 DEF LockCoversTheCall
<1>5. ASSUME NEW p \in Procs, NEW t \in Tokens, NEW i \in Inputs, Begin(p, t, i)
      PROVE  LockCoversTheCall'
  <2> DEFINE label == IF sealed[Narrow(i)] # None THEN "sealed" ELSE "paid"
  <2>1. label \notin Busy /\ Goto(p, label)
    BY <1>5 DEF Begin, Busy, InFlight
  <2>2. Unlock(p)
    BY <1>5, NoneFacts DEF Begin, Unlock, LockCoversTheCall, InFlight
  <2>3. \A q \in Procs \ {p} : req'[q] = req[q]
    BY <1>5 DEF Begin, TypeOK
  <2> HIDE DEF label
  <2> QED BY <1>1, <1>5, <2>1, <2>2, <2>3 DEF Begin, database
<1>6. ASSUME NEW p \in Procs, SealedReview(p)
      PROVE  LockCoversTheCall'
  <2>1. "signing" \notin Busy /\ Goto(p, "signing")
    BY <1>6 DEF SealedReview, Busy, InFlight
  <2>2. Unlock(p)
    BY <1>6, NoneFacts DEF SealedReview, Unlock, LockCoversTheCall, InFlight
  <2>3. \A q \in Procs \ {p} : req'[q] = req[q]
    BY <1>6 DEF SealedReview, TypeOK
  <2> QED BY <1>1, <1>6, <2>1, <2>2, <2>3 DEF SealedReview
<1>7. ASSUME NEW p \in Procs, Lock(p)
      PROVE  LockCoversTheCall'
  <2>1. \A q \in Procs : at'[q] = IF q = p THEN "locked" ELSE at[q]
    BY <1>7, Moved DEF Lock
  <2>2. \A q \in Procs : at[q] \notin Busy
    BY <1>7, NoneFacts DEF Lock, LockCoversTheCall, Busy
  <2> QED BY <1>7, <2>1, <2>2, NoneFacts DEF Lock, LockCoversTheCall, Busy, InFlight
<1>8. ASSUME NEW p \in Procs, Quits(p)
      PROVE  LockCoversTheCall'
  BY <1>3, <1>8 DEF Quits, database
<1>9. ASSUME NEW p \in Procs, Reserve(p)
      PROVE  LockCoversTheCall'
  <2>1. at[p] = "locked" /\ req[p].input \in Inputs
    BY <1>9, RequestFacts DEF Reserve, Fresh
  <2>2. Key(req[p].input) \in Keys /\ Untouched(Key(req[p].input))
    BY <1>9, <2>1, KeyFacts DEF Reserve
  <2> QED BY <1>2, <1>9, <2>1, <2>2 DEF Reserve
<1>10. ASSUME NEW p \in Procs, NEW k \in Keys, ReserveGrant(p, k)
       PROVE  LockCoversTheCall'
  <2>1. newKey[k] \in Keys /\ Untouched(newKey[k]) /\ at[p] = "locked"
    BY <1>10 DEF ReserveGrant, Unused, Untouched, Grants, TypeOK, Fresh
  <2> QED BY <1>2, <1>10, <2>1 DEF ReserveGrant
<1>11. ASSUME NEW p \in Procs, NEW k \in Keys, Replay(p, k)
       PROVE  LockCoversTheCall'
  <2>1. CASE result[Row(k)] = "success"
    <3>1. "signing" \notin Busy /\ Goto(p, "signing") /\ Unlock(p)
      BY <1>11, <2>1 DEF Replay, Busy, InFlight
    <3>2. \A q \in Procs \ {p} : req'[q] = req[q]
      BY <1>11, <2>1 DEF Replay, TypeOK
    <3> QED BY <1>1, <1>11, <3>1, <3>2 DEF Replay
  <2>2. CASE result[Row(k)] # "success"
    BY <1>3, <1>11, <2>2 DEF Replay
  <2> QED BY <2>1, <2>2
<1>12. ASSUME NEW p \in Procs, Call(p)
       PROVE  LockCoversTheCall'
  <2>1. \A q \in Procs : at'[q] = IF q = p THEN "calling" ELSE at[q]
    BY <1>12, Moved DEF Call
  <2> QED BY <1>12, <2>1, NoneFacts DEF Call, database, LockCoversTheCall, InFlight
<1>13. ASSUME NEW p \in Procs, FinishReview(p)
       PROVE  LockCoversTheCall'
  <2>1. "signing" \notin Busy /\ at[p] \in Busy /\ Goto(p, "signing") /\ Unlock(p)
    BY <1>13 DEF FinishReview, Busy, InFlight
  <2>2. \A q \in Procs \ {p} : req'[q] = req[q]
    BY <1>13 DEF FinishReview, TypeOK
  <2> QED BY <1>1, <1>13, <2>1, <2>2 DEF FinishReview
<1>14. ASSUME NEW p \in Procs, FinishFailure(p)
       PROVE  LockCoversTheCall'
  BY <1>3, <1>14 DEF FinishFailure, Busy, InFlight
<1>15. ASSUME NEW p \in Procs, Sign(p)
       PROVE  LockCoversTheCall'
  BY <1>3, <1>15 DEF Sign, database
<1>16. ASSUME NEW k \in Keys, Recover(k)
       PROVE  LockCoversTheCall'
  <2>1. \A q \in Procs : at[q] \notin Busy
    BY <1>16, NoneFacts DEF Recover, MayRecover, LockCoversTheCall, Busy
  <2> QED BY <1>16, <2>1 DEF Recover, MayRecover, LockCoversTheCall, Busy
<1>17. ASSUME NEW h \in Heads, NEW c \in Comments, Seal(h, c)
       PROVE  LockCoversTheCall'
  BY <1>4, <1>17 DEF Seal
<1>18. CASE UNCHANGED vars
  BY <1>4, <1>18 DEF vars, database
<1> QED
  BY <1>5, <1>6, <1>7, <1>8, <1>9, <1>10, <1>11, <1>12, <1>13, <1>14, <1>15, <1>16, <1>17,
     <1>18, Cases
-----------------------------------------------------------------------------
(* The operator's recoveries. *)

(* A reservation makes one row that was not there, for the input or for a *)
(* granted key; the grant is consumed in the same step.                   *)
LEMMA ReservationFacts ==
  ASSUME TypeOK, NEW p \in Procs,
         Reserve(p) \/ \E k \in Keys : ReserveGrant(p, k)
  PROVE  /\ at[p] = "locked" /\ req[p].token \notin spent
         /\ req[p].token \in Tokens /\ req[p].input \in Inputs
         /\ \E n \in Keys :
              /\ ReserveKey(p, n) /\ Untouched(n)
              /\ \A j \in Keys : result'[j] = IF j = n THEN "pending" ELSE result[j]
              /\ \/ n \in Inputs /\ consumed' = consumed
                 \/ \E k \in Keys :
                      Grants(k) /\ newKey[k] = n /\ consumed' = consumed \cup {k}
<1>1. at[p] = "locked" /\ req[p].token \notin spent
  BY DEF Reserve, ReserveGrant, Fresh
<1>2. req[p].token \in Tokens /\ req[p].input \in Inputs
  BY <1>1, RequestFacts
<1>3. ASSUME NEW n \in Keys, ReserveKey(p, n)
      PROVE  \A j \in Keys : result'[j] = IF j = n THEN "pending" ELSE result[j]
  BY <1>3 DEF TypeOK, ReserveKey
<1>4. CASE Reserve(p)
  <2> DEFINE n == Key(req[p].input)
  <2>1. n \in Keys /\ n \in Inputs /\ Untouched(n) /\ ReserveKey(p, n) /\ consumed' = consumed
    BY <1>2, <1>4, KeyFacts DEF Reserve
  <2> HIDE DEF n
  <2> QED BY <1>1, <1>2, <1>3, <2>1
<1>5. ASSUME NEW k \in Keys, ReserveGrant(p, k)
      PROVE  \E n \in Keys :
              /\ ReserveKey(p, n) /\ Untouched(n)
              /\ \A j \in Keys : result'[j] = IF j = n THEN "pending" ELSE result[j]
              /\ Grants(k) /\ newKey[k] = n /\ consumed' = consumed \cup {k}
  <2> DEFINE n == newKey[k]
  <2>1. n \in Keys /\ ReserveKey(p, n) /\ Untouched(n) /\ Grants(k)
        /\ consumed' = consumed \cup {k}
    BY <1>5 DEF ReserveGrant, Unused, Untouched, Grants, TypeOK
  <2> QED BY <1>3, <2>1
<1> QED BY <1>1, <1>2, <1>4, <1>5

(* An operator's command disposes of one stranded row that had no recovery. *)
LEMMA RecoverFacts ==
  ASSUME TypeOK, NEW k \in Keys, Recover(k)
  PROVE  /\ result[k] \in Stranded /\ disposition[k] = "none" /\ newKey[k] = None
         /\ result' = result /\ consumed' = consumed
         /\ \E d \in Dispositions, n \in Keys :
              /\ NewKey(k, d, n)
              /\ \A j \in Keys : disposition'[j] = IF j = k THEN d ELSE disposition[j]
              /\ \A j \in Keys : newKey'[j] = IF j = k THEN n ELSE newKey[j]
<1>1. PICK d \in Dispositions, n \in {k} \cup Spare :
        /\ NewKey(k, d, n)
        /\ disposition' = [disposition EXCEPT ![k] = d]
        /\ newKey' = [newKey EXCEPT ![k] = n]
  BY DEF Recover
<1>2. n \in Keys
  BY DEF Keys
<1>3. /\ \A j \in Keys : disposition'[j] = IF j = k THEN d ELSE disposition[j]
      /\ \A j \in Keys : newKey'[j] = IF j = k THEN n ELSE newKey[j]
  BY <1>1 DEF TypeOK
<1>4. result[k] \in Stranded /\ disposition[k] = "none" /\ newKey[k] = None
  BY DEF Recover, MayRecover, TypeOK
<1> QED BY <1>1, <1>2, <1>3, <1>4 DEF Recover

LEMMA RecoveryStep ==
  ASSUME TypeOK, LockCoversTheCall, RecoveriesAreLinked, RecoveriesAreSound, [Next]_vars
  PROVE  RecoveriesAreLinked' /\ RecoveriesAreSound'
<1>1. ASSUME UNCHANGED <<result, disposition, newKey, consumed>>
      PROVE  RecoveriesAreLinked' /\ RecoveriesAreSound'
  BY <1>1 DEF RecoveriesAreLinked, RecoveriesAreSound, Grants
<1>2. ASSUME NEW p \in Procs, Reserve(p) \/ \E k \in Keys : ReserveGrant(p, k)
      PROVE  RecoveriesAreLinked' /\ RecoveriesAreSound'
  <2>1. PICK n \in Keys :
          /\ ReserveKey(p, n) /\ Untouched(n)
          /\ \A j \in Keys : result'[j] = IF j = n THEN "pending" ELSE result[j]
          /\ \/ n \in Inputs /\ consumed' = consumed
             \/ \E k \in Keys :
                  Grants(k) /\ newKey[k] = n /\ consumed' = consumed \cup {k}
    BY <1>2, ReservationFacts
  <2>2. disposition' = disposition /\ newKey' = newKey
    BY <2>1 DEF ReserveKey
  <2>3. CASE n \in Inputs /\ consumed' = consumed
    <3>1. \A j \in Keys : Grants(j) => newKey[j] \in Keys /\ newKey[j] # n
      BY <2>3, KeysAssumption DEF RecoveriesAreLinked, Keys
    <3> QED BY <2>1, <2>2, <2>3, <3>1
            DEF RecoveriesAreLinked, RecoveriesAreSound, Grants, Untouched, Stranded
  <2>4. ASSUME NEW k \in Keys, Grants(k), newKey[k] = n, consumed' = consumed \cup {k}
        PROVE  RecoveriesAreLinked' /\ RecoveriesAreSound'
    <3>1. \A j \in Keys : Grants(j) => newKey[j] \in Keys /\ (newKey[j] = n => j = k)
      BY <2>4, NoneFacts DEF RecoveriesAreLinked, Keys
    <3>2. RecoveriesAreLinked'
      BY <2>2, <2>4 DEF RecoveriesAreLinked, Grants
    <3>3. RecoveriesAreSound'
      BY <2>1, <2>2, <2>4, <3>1 DEF RecoveriesAreSound, Grants, Untouched, Stranded
    <3> QED BY <3>2, <3>3
  <2> QED BY <2>1, <2>3, <2>4
<1>3. ASSUME NEW p \in Procs, FinishReview(p) \/ FinishFailure(p)
      PROVE  RecoveriesAreLinked' /\ RecoveriesAreSound'
  <2>1. /\ req[p].key \in Keys /\ disposition[req[p].key] = "none"
        /\ result[req[p].key] = "pending"
        /\ result'[req[p].key] # "none"
        /\ \A j \in Keys \ {req[p].key} : result'[j] = result[j]
    BY <1>3, RequestFacts DEF FinishReview, FinishFailure, LockCoversTheCall, TypeOK, InFlight
  <2>2. disposition' = disposition /\ newKey' = newKey /\ consumed' = consumed
    BY <1>3 DEF FinishReview, FinishFailure
  <2>3. \A j \in Keys : Grants(j) => newKey[j] \in Keys
    BY DEF RecoveriesAreLinked, Keys
  <2> QED BY <2>1, <2>2, <2>3 DEF RecoveriesAreLinked, RecoveriesAreSound, Grants, Stranded
<1>4. ASSUME NEW k \in Keys, Recover(k)
      PROVE  RecoveriesAreLinked' /\ RecoveriesAreSound'
  <2>1. /\ result[k] \in Stranded /\ disposition[k] = "none" /\ newKey[k] = None
        /\ result' = result /\ consumed' = consumed
    BY <1>4, RecoverFacts
  <2>2. PICK d \in Dispositions, n \in Keys :
          /\ NewKey(k, d, n)
          /\ \A j \in Keys : disposition'[j] = IF j = k THEN d ELSE disposition[j]
          /\ \A j \in Keys : newKey'[j] = IF j = k THEN n ELSE newKey[j]
    BY <1>4, RecoverFacts
  <2>3. k \notin consumed
    BY <2>1 DEF RecoveriesAreLinked, Grants
  <2>4. /\ d = "authorize_one_paid_attempt" => n \in Spare /\ result[n] = "none"
        /\ \A j \in Keys : newKey[j] # n
    BY <2>2 DEF NewKey, Untouched
  <2>5. \A j \in Keys : j # k => (Grants(j)' <=> Grants(j))
    BY <2>2 DEF Grants
  <2>6. Grants(k)' => d = "authorize_one_paid_attempt"
    BY <2>2 DEF Grants
  <2>7. RecoveriesAreLinked'
    BY <2>1, <2>2, <2>3, <2>4, <2>5, <2>6 DEF RecoveriesAreLinked
  <2>8. RecoveriesAreSound'
    BY <2>1, <2>2, <2>3, <2>4, <2>5, <2>6 DEF RecoveriesAreSound
  <2> QED BY <2>7, <2>8
<1>5. CASE \E p \in Procs, t \in Tokens, i \in Inputs : Begin(p, t, i)
  BY <1>1, <1>5 DEF Begin, database
<1>6. ASSUME NEW p \in Procs,
             SealedReview(p) \/ Lock(p) \/ Quits(p) \/ Call(p) \/ Sign(p)
             \/ \E k \in Keys : Replay(p, k)
      PROVE  UNCHANGED <<result, disposition, newKey, consumed>>
  BY <1>6 DEF SealedReview, Lock, Quits, Call, Sign, Replay, database
<1>7. CASE \E h \in Heads, c \in Comments : Seal(h, c)
  BY <1>1, <1>7 DEF Seal
<1>8. CASE UNCHANGED vars
  BY <1>1, <1>8 DEF vars, database
<1> QED BY <1>1, <1>2, <1>3, <1>4, <1>5, <1>6, <1>7, <1>8, Cases
-----------------------------------------------------------------------------
(* What may be charged. *)

Spend == RowsComeFirst /\ CallsAreReserved /\ SpendIsGranted

(* A consumed grant stays one, whatever happens next. *)
LEMMA GrantsLast ==
  ASSUME TypeOK, LockCoversTheCall, RecoveriesAreLinked, [Next]_vars,
         NEW k \in Keys, HasGrant(k)
  PROVE  HasGrant(k)'
<1>1. CASE k \in Inputs
  BY <1>1 DEF HasGrant
<1>2. ASSUME NEW old \in consumed, Grants(old), newKey[old] = k
      PROVE  HasGrant(k)'
  <2>1. old \in Keys
    BY <1>2 DEF TypeOK
  <2>2. ASSUME UNCHANGED <<disposition, newKey>>, consumed \subseteq consumed'
        PROVE  HasGrant(k)'
    BY <1>2, <2>2 DEF HasGrant, Grants
  <2>3. ASSUME NEW j \in Keys, Recover(j)
        PROVE  HasGrant(k)'
    <3>1. disposition[j] = "none" /\ consumed' = consumed
      BY <2>3, RecoverFacts
    <3>2. PICK d \in Dispositions, n \in Keys :
            /\ NewKey(j, d, n)
            /\ \A i \in Keys : disposition'[i] = IF i = j THEN d ELSE disposition[i]
            /\ \A i \in Keys : newKey'[i] = IF i = j THEN n ELSE newKey[i]
      BY <2>3, RecoverFacts
    <3>3. old # j
      BY <1>2, <3>1 DEF Grants
    <3> QED BY <1>2, <2>1, <3>1, <3>2, <3>3 DEF HasGrant, Grants
  <2>4. ASSUME NEW p \in Procs, NEW t \in Tokens, NEW i \in Inputs, Begin(p, t, i)
        PROVE  UNCHANGED <<disposition, newKey>> /\ consumed \subseteq consumed'
    BY <2>4 DEF Begin, database
  <2>5. ASSUME NEW p \in Procs,
               \/ SealedReview(p) \/ Lock(p) \/ Quits(p) \/ Reserve(p) \/ Call(p)
               \/ FinishReview(p) \/ FinishFailure(p) \/ Sign(p)
               \/ \E j \in Keys : Replay(p, j) \/ ReserveGrant(p, j)
        PROVE  UNCHANGED <<disposition, newKey>> /\ consumed \subseteq consumed'
    BY <2>5 DEF SealedReview, Lock, Quits, Reserve, ReserveKey, ReserveGrant, Call,
                FinishReview, FinishFailure, Sign, Replay, database
  <2>6. CASE \E h \in Heads, c \in Comments : Seal(h, c)
    BY <2>2, <2>6 DEF Seal
  <2>7. CASE UNCHANGED vars
    BY <2>2, <2>7 DEF vars, database
  <2> QED BY <2>2, <2>3, <2>4, <2>5, <2>6, <2>7, Cases
<1> QED BY <1>1, <1>2 DEF HasGrant

LEMMA SpendStep ==
  ASSUME TypeOK, LockCoversTheCall, RecoveriesAreLinked, Spend, [Next]_vars
  PROVE  Spend'
<1>1. \A k \in Keys : HasGrant(k) => HasGrant(k)'
  BY GrantsLast
<1>2. ASSUME calls' = calls, \A k \in Keys : result[k] # "none" => result'[k] # "none",
             \A p \in Procs : at'[p] \in InFlight => at'[p] = at[p] /\ req'[p] = req[p]
      PROVE  Spend'
  <2>1. \A p \in Procs : at'[p] \in InFlight => req[p].key \in Keys
    BY <1>2, RequestFacts
  <2>2. RowsComeFirst' /\ SpendIsGranted'
    BY <1>1, <1>2 DEF Spend, RowsComeFirst, SpendIsGranted
  <2>3. CallsAreReserved'
    BY <1>1, <1>2, <2>1 DEF Spend, CallsAreReserved
  <2> QED BY <2>2, <2>3 DEF Spend
<1>3. ASSUME NEW p \in Procs, NEW label, label \notin InFlight, Goto(p, label),
             \A q \in Procs \ {p} : req'[q] = req[q]
      PROVE  \A q \in Procs : at'[q] \in InFlight => at'[q] = at[q] /\ req'[q] = req[q]
  BY <1>3, Moved
<1>4. ASSUME NEW p \in Procs, End(p)
      PROVE  \A q \in Procs : at'[q] \in InFlight => at'[q] = at[q] /\ req'[q] = req[q]
  BY <1>4, Ended DEF InFlight
<1>5. ASSUME NEW p \in Procs, NEW t \in Tokens, NEW i \in Inputs, Begin(p, t, i)
      PROVE  Spend'
  <2> DEFINE label == IF sealed[Narrow(i)] # None THEN "sealed" ELSE "paid"
  <2>1. Goto(p, label) /\ label \notin InFlight
    BY <1>5 DEF Begin, InFlight
  <2>2. \A q \in Procs \ {p} : req'[q] = req[q]
    BY <1>5 DEF Begin, TypeOK
  <2> HIDE DEF label
  <2> QED BY <1>2, <1>3, <1>5, <2>1, <2>2 DEF Begin, database
<1>6. ASSUME NEW p \in Procs, SealedReview(p)
      PROVE  Spend'
  <2>1. Goto(p, "signing") /\ "signing" \notin InFlight
    BY <1>6 DEF SealedReview, InFlight
  <2>2. \A q \in Procs \ {p} : req'[q] = req[q]
    BY <1>6 DEF SealedReview, TypeOK
  <2> QED BY <1>2, <1>3, <1>6, <2>1, <2>2 DEF SealedReview
<1>7. ASSUME NEW p \in Procs, Lock(p)
      PROVE  Spend'
  <2>1. Goto(p, "locked") /\ "locked" \notin InFlight
    BY <1>7 DEF Lock, InFlight
  <2> QED BY <1>2, <1>3, <1>7, <2>1 DEF Lock, database
<1>8. ASSUME NEW p \in Procs, Quits(p)
      PROVE  Spend'
  BY <1>2, <1>4, <1>8 DEF Quits, database
<1>9. ASSUME NEW p \in Procs, Reserve(p) \/ \E k \in Keys : ReserveGrant(p, k)
      PROVE  Spend'
  <2>1. PICK n \in Keys :
          /\ ReserveKey(p, n) /\ Untouched(n)
          /\ \A j \in Keys : result'[j] = IF j = n THEN "pending" ELSE result[j]
          /\ \/ n \in Inputs /\ consumed' = consumed
             \/ \E k \in Keys :
                  Grants(k) /\ newKey[k] = n /\ consumed' = consumed \cup {k}
    BY <1>9, ReservationFacts
  <2>2. at[p] = "locked"
    BY <1>9, ReservationFacts
  <2>3. /\ calls' = calls /\ disposition' = disposition /\ newKey' = newKey
        /\ req'[p].key = n /\ \A q \in Procs \ {p} : req'[q] = req[q]
        /\ \A q \in Procs : at'[q] = IF q = p THEN "reserved" ELSE at[q]
    BY <2>1, Moved DEF ReserveKey, TypeOK, Requests
  <2>4. n \in Reservable /\ HasGrant(n)'
    BY <2>1, <2>3 DEF HasGrant, Grants, Reservable, RecoveriesAreLinked
  <2>5. calls[n] = 0
    BY <2>1 DEF Spend, RowsComeFirst, Untouched
  <2>6. RowsComeFirst' /\ SpendIsGranted'
    BY <1>1, <2>1, <2>3 DEF Spend, RowsComeFirst, SpendIsGranted
  <2>7. \A q \in Procs : q # p => at[q] \notin InFlight
    BY <2>2, AloneInside DEF Busy
  <2>8. CallsAreReserved'
    BY <2>3, <2>4, <2>5, <2>7 DEF CallsAreReserved
  <2> QED BY <2>6, <2>8 DEF Spend
<1>10. ASSUME NEW p \in Procs, NEW k \in Keys, Replay(p, k)
       PROVE  Spend'
  <2>1. CASE result[Row(k)] = "success"
    <3>1. Goto(p, "signing") /\ "signing" \notin InFlight
      BY <1>10, <2>1 DEF Replay, InFlight
    <3>2. \A q \in Procs \ {p} : req'[q] = req[q]
      BY <1>10, <2>1 DEF Replay, TypeOK
    <3> QED BY <1>2, <1>3, <1>10, <3>1, <3>2 DEF Replay
  <2>2. CASE result[Row(k)] # "success"
    BY <1>2, <1>4, <1>10, <2>2 DEF Replay
  <2> QED BY <2>1, <2>2
<1>11. ASSUME NEW p \in Procs, Call(p)
       PROVE  Spend'
  <2> DEFINE k == req[p].key
  <2>1. /\ at[p] = "reserved" /\ k \in Keys /\ k \in Reservable /\ HasGrant(k)
        /\ calls[k] = 0 /\ result[k] = "pending"
    BY <1>11, RequestFacts DEF Call, Spend, CallsAreReserved, LockCoversTheCall, InFlight
  <2>2. /\ \A q \in Procs : at'[q] = IF q = p THEN "calling" ELSE at[q]
        /\ req' = req /\ result' = result
        /\ \A j \in Keys : calls'[j] = IF j = k THEN calls[j] + 1 ELSE calls[j]
    BY <1>11, Moved DEF Call, database, TypeOK
  <2>3. \A q \in Procs : q # p => at[q] \notin InFlight
    BY <2>1, AloneInside DEF Busy, InFlight
  <2>4. RowsComeFirst' /\ SpendIsGranted'
    BY <1>1, <2>1, <2>2 DEF Spend, RowsComeFirst, SpendIsGranted
  <2>5. CallsAreReserved'
    BY <1>1, <2>1, <2>2, <2>3 DEF CallsAreReserved
  <2> QED BY <2>4, <2>5 DEF Spend
<1>12. ASSUME NEW p \in Procs, FinishReview(p)
       PROVE  Spend'
  <2>1. Goto(p, "signing") /\ "signing" \notin InFlight
    BY <1>12 DEF FinishReview, InFlight
  <2>2. \A q \in Procs \ {p} : req'[q] = req[q]
    BY <1>12 DEF FinishReview, TypeOK
  <2>3. \A k \in Keys : result[k] # "none" => result'[k] # "none"
    BY <1>12 DEF FinishReview, TypeOK
  <2> QED BY <1>2, <1>3, <1>12, <2>1, <2>2, <2>3 DEF FinishReview
<1>13. ASSUME NEW p \in Procs, FinishFailure(p)
       PROVE  Spend'
  <2>1. \A k \in Keys : result[k] # "none" => result'[k] # "none"
    BY <1>13 DEF FinishFailure, TypeOK
  <2> QED BY <1>2, <1>4, <1>13, <2>1 DEF FinishFailure
<1>14. ASSUME NEW p \in Procs, Sign(p)
       PROVE  Spend'
  BY <1>2, <1>4, <1>14 DEF Sign, database
<1>15. CASE \E k \in Keys : Recover(k)
  BY <1>2, <1>15 DEF Recover
<1>16. CASE \E h \in Heads, c \in Comments : Seal(h, c)
  BY <1>2, <1>16 DEF Seal
<1>17. CASE UNCHANGED vars
  BY <1>2, <1>17 DEF vars, database
<1> QED
  BY <1>5, <1>6, <1>7, <1>8, <1>9, <1>10, <1>11, <1>12, <1>13, <1>14, <1>15, <1>16, <1>17, Cases
-----------------------------------------------------------------------------
(* What a receipt rests on. *)

(* Reviews and seals are never taken back, and a reviewed key is not called *)
(* again.                                                                   *)
Lasting ==
  /\ \A k \in Keys : result[k] = "success" /\ calls[k] = 1 =>
       result'[k] = "success" /\ reviewed'[k] = reviewed[k] /\ calls'[k] = 1
  /\ \A h \in Heads : sealed[h] # None => sealed'[h] = sealed[h]

LEMMA VerdictsLast ==
  ASSUME TypeOK, LockCoversTheCall, Spend, [Next]_vars
  PROVE  Lasting
<1>1. ASSUME UNCHANGED <<result, reviewed, calls, sealed>>
      PROVE  Lasting
  BY <1>1 DEF Lasting
<1>2. ASSUME NEW p \in Procs, NEW t \in Tokens, NEW i \in Inputs, Begin(p, t, i)
      PROVE  Lasting
  BY <1>1, <1>2 DEF Begin, database
<1>3. ASSUME NEW p \in Procs,
             SealedReview(p) \/ Lock(p) \/ Quits(p) \/ Sign(p) \/ \E k \in Keys : Replay(p, k)
      PROVE  Lasting
  BY <1>1, <1>3 DEF SealedReview, Lock, Quits, Sign, Replay, database
<1>4. ASSUME NEW p \in Procs, Reserve(p) \/ \E k \in Keys : ReserveGrant(p, k)
      PROVE  Lasting
  <2>1. PICK n \in Keys :
          /\ ReserveKey(p, n) /\ Untouched(n)
          /\ \A j \in Keys : result'[j] = IF j = n THEN "pending" ELSE result[j]
    BY <1>4, ReservationFacts
  <2> QED BY <2>1 DEF ReserveKey, Untouched, Lasting
<1>5. ASSUME NEW p \in Procs, Call(p)
      PROVE  Lasting
  <2>1. req[p].key \in Keys /\ calls[req[p].key] = 0
    BY <1>5, RequestFacts DEF Call, Spend, CallsAreReserved, InFlight
  <2> QED BY <1>5, <2>1 DEF Call, database, Lasting, TypeOK
<1>6. ASSUME NEW p \in Procs, FinishReview(p) \/ FinishFailure(p)
      PROVE  Lasting
  BY <1>6 DEF FinishReview, FinishFailure, Lasting, TypeOK
<1>7. ASSUME NEW k \in Keys, Recover(k)
      PROVE  Lasting
  BY <1>1, <1>7 DEF Recover
<1>8. ASSUME NEW h \in Heads, NEW c \in Comments, Seal(h, c)
      PROVE  Lasting
  BY <1>8 DEF Seal, MaySeal, Lasting, TypeOK
<1>9. CASE UNCHANGED vars
  BY <1>1, <1>9 DEF vars, database
<1> QED BY <1>2, <1>3, <1>4, <1>5, <1>6, <1>7, <1>8, <1>9, Cases

LEMMA RestsLast ==
  ASSUME Lasting, NEW k \in Keys, NEW i \in Inputs, NEW g, Rests(k, i, g)
  PROVE  Rests(k, i, g)'
BY KeyFacts DEF Lasting, Rests

LEMMA VerdictStep ==
  ASSUME TypeOK, LockCoversTheCall, RecoveriesAreLinked, Spend, VerdictsRest, [Next]_vars
  PROVE  VerdictsRest'
<1>1. Lasting
  BY VerdictsLast
<1> DEFINE NewReviews ==
             \A k \in Keys \ Heads : result'[k] = "success" => result[k] = "success" \/ calls'[k] = 1
           NewSeals ==
             \A p \in Procs : at'[p] = "sealed" =>
               \/ at[p] = "sealed" /\ req'[p] = req[p]
               \/ req'[p].input \in Inputs /\ sealed'[Narrow(req'[p].input)] # None
           NewSignatures ==
             \A p \in Procs : at'[p] = "signing" =>
               \/ at[p] = "signing" /\ req'[p] = req[p]
               \/ Rests(req[p].key, req[p].input, req[p].got)'
           NewReceipts ==
             \A r \in receipts' : r \in receipts \/ Rests(r.key, r.asked, r.got)
(* A step has to account for what it makes: all that was there lasts. *)
<1>2. ASSUME NewReviews, NewSeals, NewSignatures, NewReceipts
      PROVE  VerdictsRest'
  <2>1. \A k \in Keys \ Heads : result'[k] = "success" => calls'[k] = 1
    BY <1>1, <1>2 DEF VerdictsRest, Lasting
  <2>2. \A p \in Procs : at'[p] = "sealed" => sealed'[Narrow(req'[p].input)] # None
    <3> SUFFICES ASSUME NEW p \in Procs, at'[p] = "sealed"
                 PROVE  sealed'[Narrow(req'[p].input)] # None
      OBVIOUS
    <3>1. CASE at[p] = "sealed" /\ req'[p] = req[p]
      <4>1. req[p].input \in Inputs
        BY <3>1, RequestFacts
      <4>2. Narrow(req[p].input) \in Heads
        BY <4>1, KeyFacts
      <4> QED BY <1>1, <3>1, <4>2 DEF VerdictsRest, Lasting
    <3> QED BY <1>2, <3>1
  <2>3. \A p \in Procs : at'[p] = "signing" => Rests(req[p].key, req[p].input, req[p].got)'
    <3> SUFFICES ASSUME NEW p \in Procs, at'[p] = "signing"
                 PROVE  Rests(req[p].key, req[p].input, req[p].got)'
      OBVIOUS
    <3>1. CASE at[p] = "signing" /\ req'[p] = req[p]
      <4>1. req[p].input \in Inputs /\ req[p].key \in Keys
        BY <3>1, RequestFacts
      <4>2. Rests(req[p].key, req[p].input, req[p].got)
        BY <3>1 DEF VerdictsRest
      <4> QED BY <1>1, <3>1, <4>1, <4>2, KeyFacts DEF Lasting, Rests
    <3> QED BY <1>2, <3>1
  <2>4. \A r \in receipts' : Rests(r.key, r.asked, r.got)'
    <3> SUFFICES ASSUME NEW r \in receipts'
                 PROVE  Rests(r.key, r.asked, r.got)'
      OBVIOUS
    <3>1. Rests(r.key, r.asked, r.got)
      BY <1>2 DEF VerdictsRest
    <3>2. r.key \in Keys /\ r.asked \in Inputs
      BY TypeStep DEF TypeOK
    <3> QED BY <1>1, <3>1, <3>2, RestsLast
  <2> QED BY <2>1, <2>2, <2>3, <2>4 DEF VerdictsRest
<1>3. UNCHANGED <<at, req>> => NewSeals /\ NewSignatures
  OBVIOUS
<1>4. (result' = result => NewReviews) /\ (receipts' = receipts => NewReceipts)
  OBVIOUS
<1>5. ASSUME NEW p \in Procs, End(p)
      PROVE  NewSeals /\ NewSignatures
  BY <1>5, Ended
<1>6. ASSUME NEW p \in Procs, NEW label, Goto(p, label), label \notin {"sealed", "signing"},
             \A q \in Procs \ {p} : req'[q] = req[q]
      PROVE  NewSeals /\ NewSignatures
  BY <1>6, Moved
<1>7. ASSUME NEW p \in Procs, Goto(p, "signing"), \A q \in Procs \ {p} : req'[q] = req[q],
             Rests(req[p].key, req[p].input, req[p].got)'
      PROVE  NewSeals /\ NewSignatures
  BY <1>7, Moved
<1> HIDE DEF NewReviews, NewSignatures, NewReceipts
<1>8. ASSUME NEW p \in Procs, NEW t \in Tokens, NEW i \in Inputs, Begin(p, t, i)
      PROVE  VerdictsRest'
  <2>1. CASE sealed[Narrow(i)] # None
    <3>1. \A q \in Procs : at'[q] = IF q = p THEN "sealed" ELSE at[q]
      BY <1>8, <2>1, Moved DEF Begin
    <3>2. /\ sealed' = sealed /\ req'[p].input = i
          /\ \A q \in Procs \ {p} : req'[q] = req[q]
      BY <1>8 DEF Begin, database, TypeOK, Request
    <3>3. NewSeals
      BY <2>1, <3>1, <3>2
    <3>4. NewSignatures
      BY <3>1, <3>2 DEF NewSignatures
    <3> QED BY <1>2, <1>4, <1>8, <3>3, <3>4 DEF Begin, database
  <2>2. CASE sealed[Narrow(i)] = None
    <3>1. Goto(p, "paid") /\ \A q \in Procs \ {p} : req'[q] = req[q]
      BY <1>8, <2>2 DEF Begin, TypeOK
    <3> QED BY <1>2, <1>4, <1>6, <1>8, <3>1 DEF Begin, database
  <2> QED BY <2>1, <2>2
<1>9. ASSUME NEW p \in Procs, SealedReview(p)
      PROVE  VerdictsRest'
  <2> DEFINE i == req[p].input
  <2>1. i \in Inputs /\ sealed[Narrow(i)] # None /\ sealed' = sealed
    BY <1>9, RequestFacts DEF SealedReview, VerdictsRest
  <2>2. /\ req'[p].key = Narrow(i) /\ req'[p].input = i /\ req'[p].got = i
        /\ \A q \in Procs \ {p} : req'[q] = req[q]
    BY <1>9 DEF SealedReview, Request, TypeOK
  <2>3. Rests(req[p].key, req[p].input, req[p].got)'
    BY <2>1, <2>2 DEF Rests
  <2> QED BY <1>2, <1>4, <1>7, <1>9, <2>2, <2>3 DEF SealedReview
<1>10. ASSUME NEW p \in Procs, Lock(p)
       PROVE  VerdictsRest'
  BY <1>2, <1>4, <1>6, <1>10 DEF Lock, database
<1>11. ASSUME NEW p \in Procs, Quits(p)
       PROVE  VerdictsRest'
  BY <1>2, <1>4, <1>5, <1>11 DEF Quits, database
<1>12. ASSUME NEW p \in Procs, Reserve(p) \/ \E k \in Keys : ReserveGrant(p, k)
       PROVE  VerdictsRest'
  <2>1. PICK n \in Keys :
          /\ ReserveKey(p, n)
          /\ \A j \in Keys : result'[j] = IF j = n THEN "pending" ELSE result[j]
    BY <1>12, ReservationFacts
  <2>2. NewReviews
    BY <2>1 DEF NewReviews
  <2>3. Goto(p, "reserved") /\ \A q \in Procs \ {p} : req'[q] = req[q]
    BY <2>1 DEF ReserveKey, TypeOK
  <2> QED BY <1>2, <1>4, <1>6, <2>1, <2>2, <2>3 DEF ReserveKey
<1>13. ASSUME NEW p \in Procs, NEW k \in Keys, Replay(p, k), OnChain(req[p].input, k)
       PROVE  VerdictsRest'
  <2>1. CASE result[Row(k)] = "success"
    <3>1. Row(k) \in Keys \ Heads
      <4>1. CASE Grants(k)
        BY <4>1, KeysAssumption DEF Row, RecoveriesAreLinked, Keys
      <4>2. CASE ~Grants(k)
        <5>1. req[p].input \in Inputs
          BY <1>13, RequestFacts DEF Replay, Fresh
        <5>2. k = Source(req[p].input) /\ result[k] = "success"
          BY <1>13, <2>1, <4>2, <5>1, ChainStops DEF Row, Stranded
        <5> QED BY <4>2, <5>1, <5>2, KeyFacts DEF Row, Stranded
      <4> QED BY <4>1, <4>2
    <3>2. /\ Goto(p, "signing") /\ req'[p].key = Row(k) /\ req'[p].got = reviewed[Row(k)]
          /\ \A q \in Procs \ {p} : req'[q] = req[q]
      BY <1>13, <2>1 DEF Replay, Request, TypeOK
    <3>3. Rests(req[p].key, req[p].input, req[p].got)'
      BY <1>13, <2>1, <3>1, <3>2 DEF Replay, Rests, VerdictsRest
    <3> QED BY <1>2, <1>4, <1>7, <1>13, <3>2, <3>3 DEF Replay
  <2>2. CASE result[Row(k)] # "success"
    BY <1>2, <1>4, <1>5, <1>13, <2>2 DEF Replay
  <2> QED BY <2>1, <2>2
<1>14. ASSUME NEW p \in Procs, Call(p)
       PROVE  VerdictsRest'
  BY <1>2, <1>4, <1>6, <1>14 DEF Call, database
<1>15. ASSUME NEW p \in Procs, FinishReview(p)
       PROVE  VerdictsRest'
  <2> DEFINE k == req[p].key
  <2>1. k \in Keys /\ calls[k] = 1
    BY <1>15, RequestFacts DEF FinishReview, Spend, CallsAreReserved, InFlight
  <2>2. /\ result'[k] = "success" /\ reviewed'[k] = req[p].input /\ calls' = calls
        /\ \A j \in Keys \ {k} : result'[j] = result[j]
    BY <1>15, <2>1 DEF FinishReview, TypeOK
  <2>3. /\ req'[p].key = k /\ req'[p].got = req[p].input
        /\ \A q \in Procs \ {p} : req'[q] = req[q]
    BY <1>15 DEF FinishReview, Request, TypeOK
  <2>4. Rests(req[p].key, req[p].input, req[p].got)'
    BY <2>1, <2>2, <2>3 DEF Rests
  <2>5. NewReviews
    BY <2>1, <2>2 DEF NewReviews
  <2> QED BY <1>2, <1>4, <1>7, <1>15, <2>3, <2>4, <2>5 DEF FinishReview
<1>16. ASSUME NEW p \in Procs, FinishFailure(p)
       PROVE  VerdictsRest'
  <2>1. NewReviews
    BY <1>16 DEF FinishFailure, NewReviews, TypeOK
  <2> QED BY <1>2, <1>4, <1>5, <1>16, <2>1 DEF FinishFailure
<1>17. ASSUME NEW p \in Procs, Sign(p)
       PROVE  VerdictsRest'
  <2>1. NewReceipts
    BY <1>17 DEF Sign, NewReceipts, VerdictsRest
  <2> QED BY <1>2, <1>4, <1>5, <1>17, <2>1 DEF Sign, database
<1>18. CASE \E k \in Keys : Recover(k)
  BY <1>2, <1>3, <1>4, <1>18 DEF Recover
<1>19. CASE \E h \in Heads, c \in Comments : Seal(h, c)
  BY <1>2, <1>3, <1>4, <1>19 DEF Seal
<1>20. CASE UNCHANGED vars
  BY <1>2, <1>3, <1>4, <1>20 DEF vars, database
<1> QED
  BY <1>8, <1>9, <1>10, <1>11, <1>12, <1>13, <1>14, <1>15, <1>16, <1>17, <1>18, <1>19, <1>20,
     Cases
-----------------------------------------------------------------------------
(* What a token is good for. *)

LEMMA TokenStep ==
  ASSUME TypeOK, TokensAreOwned, TokensWorkOnce, [Next]_vars
  PROVE  TokensAreOwned' /\ TokensWorkOnce'
(* A step by which no request gets hold of a token. *)
<1>1. ASSUME charged' = charged, receipts' = receipts, spent \subseteq spent',
             \A p \in Procs : at'[p] \in Holding => at'[p] = at[p] /\ req'[p] = req[p]
      PROVE  TokensAreOwned' /\ TokensWorkOnce'
  BY <1>1 DEF TokensAreOwned, TokensWorkOnce
(* A step by which one does: the token is spent in the same transaction. *)
<1>2. ASSUME NEW p \in Procs, NEW label \in Holding, at[p] \notin Holding, Goto(p, label),
             req[p].token \notin spent, SpendToken(p), req'[p].token = req[p].token,
             req[p].token \in Tokens, \A q \in Procs \ {p} : req'[q] = req[q],
             charged' = charged, receipts' = receipts
      PROVE  TokensAreOwned' /\ TokensWorkOnce'
  <2>1. \A q \in Procs : at'[q] = IF q = p THEN label ELSE at[q]
    BY <1>2, Moved
  <2>2. /\ charged[req[p].token] = 0
        /\ \A r \in receipts : r.token # req[p].token
        /\ \A q \in Procs : at[q] \in Holding => req[q].token # req[p].token
    BY <1>2 DEF TokensAreOwned
  <2>3. \A q \in Procs : at'[q] \in Holding =>
          /\ req'[q].token \in spent'
          /\ \A r \in receipts' : r.token # req'[q].token
          /\ at'[q] = "reserved" => charged'[req'[q].token] = 0
    BY <1>2, <2>1, <2>2 DEF TokensAreOwned, SpendToken
  <2>4. \A q, u \in Procs :
          at'[q] \in Holding /\ at'[u] \in Holding /\ req'[u].token = req'[q].token => u = q
    BY <1>2, <2>1, <2>2 DEF TokensAreOwned
  <2> QED BY <1>2, <2>3, <2>4 DEF TokensAreOwned, TokensWorkOnce, SpendToken
<1>3. ASSUME NEW p \in Procs, End(p)
      PROVE  \A q \in Procs : at'[q] \in Holding => at'[q] = at[q] /\ req'[q] = req[q]
  BY <1>3, Ended DEF Holding, InFlight
<1>4. ASSUME NEW p \in Procs, NEW t \in Tokens, NEW i \in Inputs, Begin(p, t, i)
      PROVE  TokensAreOwned' /\ TokensWorkOnce'
  <2> DEFINE label == IF sealed[Narrow(i)] # None THEN "sealed" ELSE "paid"
  <2>1. label \notin Holding
    BY DEF Holding, InFlight
  <2>2. \A q \in Procs : at'[q] = IF q = p THEN label ELSE at[q]
    BY <1>4, Moved DEF Begin
  <2>3. \A q \in Procs \ {p} : req'[q] = req[q]
    BY <1>4 DEF Begin, TypeOK
  <2> HIDE DEF label
  <2> QED BY <1>1, <1>4, <2>1, <2>2, <2>3 DEF Begin, database
<1>5. ASSUME NEW p \in Procs, SealedReview(p)
      PROVE  TokensAreOwned' /\ TokensWorkOnce'
  <2>1. /\ at[p] \notin Holding /\ "signing" \in Holding /\ Goto(p, "signing")
        /\ req[p].token \notin spent /\ SpendToken(p) /\ req[p].token \in Tokens
    BY <1>5, RequestFacts DEF SealedReview, Holding, InFlight, SpendToken
  <2>2. req'[p].token = req[p].token /\ \A q \in Procs \ {p} : req'[q] = req[q]
    BY <1>5 DEF SealedReview, Request, TypeOK
  <2> QED BY <1>2, <1>5, <2>1, <2>2 DEF SealedReview
<1>6. ASSUME NEW p \in Procs, Lock(p)
      PROVE  TokensAreOwned' /\ TokensWorkOnce'
  <2>1. \A q \in Procs : at'[q] = IF q = p THEN "locked" ELSE at[q]
    BY <1>6, Moved DEF Lock
  <2>2. "locked" \notin Holding
    BY DEF Holding, InFlight
  <2> QED BY <1>1, <1>6, <2>1, <2>2 DEF Lock, database
<1>7. ASSUME NEW p \in Procs, Quits(p)
      PROVE  TokensAreOwned' /\ TokensWorkOnce'
  BY <1>1, <1>3, <1>7 DEF Quits, database
<1>8. ASSUME NEW p \in Procs, Reserve(p) \/ \E k \in Keys : ReserveGrant(p, k)
      PROVE  TokensAreOwned' /\ TokensWorkOnce'
  <2>1. PICK n \in Keys : ReserveKey(p, n)
    BY <1>8, ReservationFacts
  <2>2. /\ at[p] \notin Holding /\ req[p].token \notin spent /\ req[p].token \in Tokens
        /\ "reserved" \in Holding
    BY <1>8, ReservationFacts DEF Holding, InFlight
  <2>3. req'[p].token = req[p].token /\ \A q \in Procs \ {p} : req'[q] = req[q]
    BY <2>1 DEF ReserveKey, TypeOK, Requests
  <2> QED BY <1>2, <2>1, <2>2, <2>3 DEF ReserveKey
<1>9. ASSUME NEW p \in Procs, NEW k \in Keys, Replay(p, k)
      PROVE  TokensAreOwned' /\ TokensWorkOnce'
  <2>1. /\ at[p] \notin Holding /\ req[p].token \notin spent /\ req[p].token \in Tokens
        /\ SpendToken(p) /\ charged' = charged /\ receipts' = receipts
    BY <1>9, RequestFacts DEF Replay, Fresh, Holding, InFlight
  <2>2. CASE result[Row(k)] = "success"
    <3>1. /\ "signing" \in Holding /\ Goto(p, "signing") /\ req'[p].token = req[p].token
          /\ \A q \in Procs \ {p} : req'[q] = req[q]
      BY <1>9, <2>2 DEF Replay, Holding, Request, TypeOK
    <3> QED BY <1>2, <2>1, <3>1
  <2>3. CASE result[Row(k)] # "success"
    <3>1. End(p)
      BY <1>9, <2>3 DEF Replay
    <3> QED BY <1>1, <1>3, <2>1, <3>1 DEF SpendToken
  <2> QED BY <2>2, <2>3
<1>10. ASSUME NEW p \in Procs, Call(p)
       PROVE  TokensAreOwned' /\ TokensWorkOnce'
  <2> DEFINE t == req[p].token
  <2>1. /\ at[p] = "reserved" /\ at[p] \in Holding /\ "calling" \in Holding
        /\ t \in Tokens /\ t \in spent /\ charged[t] = 0
    BY <1>10, RequestFacts DEF Call, Holding, InFlight, TokensAreOwned
  <2>2. /\ \A q \in Procs : at'[q] = IF q = p THEN "calling" ELSE at[q]
        /\ \A u \in Tokens : charged'[u] = IF u = t THEN charged[u] + 1 ELSE charged[u]
        /\ req' = req /\ spent' = spent /\ receipts' = receipts
    BY <1>10, Moved DEF Call, database, TypeOK
  <2>3. \A q \in Procs : at'[q] \in Holding =>
          /\ at[q] \in Holding
          /\ at'[q] = "reserved" => at[q] = "reserved" /\ req[q].token # t
    BY <2>1, <2>2 DEF TokensAreOwned
  <2>4. \A q \in Procs : at[q] \in Holding => req[q].token \in Tokens
    BY RequestFacts DEF Holding, InFlight
  <2> HIDE DEF t
  <2>5. TokensAreOwned'
    BY <2>1, <2>2, <2>3, <2>4 DEF TokensAreOwned
  <2>6. TokensWorkOnce'
    BY <2>1, <2>2 DEF TokensWorkOnce
  <2> QED BY <2>5, <2>6
<1>11. ASSUME NEW p \in Procs, FinishReview(p)
       PROVE  TokensAreOwned' /\ TokensWorkOnce'
  <2>1. /\ \A q \in Procs : at'[q] = IF q = p THEN "signing" ELSE at[q]
        /\ \A q \in Procs \ {p} : req'[q] = req[q]
        /\ req'[p].token = req[p].token /\ at[p] \in Holding
        /\ charged' = charged /\ receipts' = receipts /\ spent' = spent
    BY <1>11, Moved DEF FinishReview, Request, TypeOK, Holding, InFlight
  <2> QED BY <2>1 DEF TokensAreOwned, TokensWorkOnce
<1>12. ASSUME NEW p \in Procs, FinishFailure(p)
       PROVE  TokensAreOwned' /\ TokensWorkOnce'
  BY <1>1, <1>3, <1>12 DEF FinishFailure
<1>13. ASSUME NEW p \in Procs, Sign(p)
       PROVE  TokensAreOwned' /\ TokensWorkOnce'
  <2> DEFINE s == [token |-> req[p].token, asked |-> req[p].input,
                   key |-> req[p].key, got |-> req[p].got]
  <2>1. /\ at[p] \in Holding /\ receipts' = receipts \cup {s} /\ s.token = req[p].token
        /\ spent' = spent /\ charged' = charged
    BY <1>13 DEF Sign, Holding, database
  <2>2. /\ s.token \in spent /\ \A r \in receipts : r.token # s.token
        /\ \A q \in Procs : at[q] \in Holding /\ req[q].token = s.token => q = p
    BY <2>1 DEF TokensAreOwned
  <2> HIDE DEF s
  <2>3. \A q \in Procs : at'[q] \in Holding =>
          q # p /\ at'[q] = at[q] /\ req'[q] = req[q]
    BY <1>13, Ended DEF Sign, Holding, InFlight
  <2> QED BY <2>1, <2>2, <2>3 DEF TokensAreOwned, TokensWorkOnce
<1>14. CASE \E k \in Keys : Recover(k)
  BY <1>1, <1>14 DEF Recover
<1>15. CASE \E h \in Heads, c \in Comments : Seal(h, c)
  BY <1>1, <1>15 DEF Seal
<1>16. CASE UNCHANGED vars
  BY <1>1, <1>16 DEF vars, database
<1> QED
  BY <1>4, <1>5, <1>6, <1>7, <1>8, <1>9, <1>10, <1>11, <1>12, <1>13, <1>14, <1>15, <1>16, Cases
-----------------------------------------------------------------------------
(* Which request a receipt answers. *)

(* Every key descends from an input or a head: through the recoveries from *)
(* the key whose row was disposed of. origin is such a descent.            *)
Asks(o, i) == o = i \/ (o = Narrow(i) /\ result[Narrow(i)] # "none")

Descends(origin) ==
  /\ \A k \in Keys \ Spare : origin[k] = k
  /\ \A k \in Keys : Grants(k) => origin[newKey[k]] = origin[k]
  /\ \A k \in Keys \ Heads : result[k] = "success" =>
       origin[k] = reviewed[k] \/ origin[k] = Narrow(reviewed[k])
  /\ \A p \in Procs : at[p] \in InFlight => Asks(origin[req[p].key], req[p].input)

Fits(asked, got) ==
  /\ Narrow(got) = Narrow(asked)
  /\ result[Narrow(asked)] = "none" => got = asked

AnswersFit ==
  /\ \E origin \in [Keys -> Keys] : Descends(origin)
  /\ \A p \in Procs : at[p] = "signing" => Fits(req[p].input, req[p].got)
  /\ \A r \in receipts : Fits(r.asked, r.got)

(* A set of natural numbers that is not empty has a least member. *)
LEMMA Least ==
  ASSUME NEW T \in SUBSET Nat, T # {}
  PROVE  \E x \in T : \A y \in T : ~(y < x)
<1> DEFINE R == OpToRel(<, Nat)
<1>1. IsWellFoundedOn(R, Nat)
  BY NatLessThanWellFounded
<1>2. PICK x \in T : \A y \in T : <<y, x>> \notin R
  <2> HIDE DEF R
  <2> QED BY <1>1, WFMin
<1>3. \A y \in T : y < x => <<y, x>> \in R
  BY DEF OpToRel
<1> QED BY <1>2, <1>3

(* All the keys of a chain descend from where it starts: the first that did *)
(* not would descend from the one before it.                                *)
LEMMA ChainDescends ==
  ASSUME TypeOK, RecoveriesAreLinked, NEW origin \in [Keys -> Keys], Descends(origin),
         NEW i \in Inputs, NEW k, OnChain(i, k)
  PROVE  origin[k] = Source(i)
<1>1. PICK n \in 0 .. MaxHops - 1 :
        \E hop \in [0 .. n -> {Source(i)} \cup Spare] : Chain(i, n, hop) /\ k = hop[n]
  BY DEF OnChain
<1>2. PICK hop \in [0 .. n -> {Source(i)} \cup Spare] : Chain(i, n, hop) /\ k = hop[n]
  BY <1>1
<1>3. n \in Nat
  BY MaxHopsAssumption
<1>4. origin[Source(i)] = Source(i)
  BY KeyFacts, KeysAssumption DEF Descends, Keys
<1> DEFINE Strays == {m \in 0 .. n : origin[hop[m]] # Source(i)}
<1>5. ASSUME Strays # {}
      PROVE  FALSE
  <2>1. Strays \in SUBSET Nat
    BY <1>3
  <2>2. PICK m \in Strays : \A j \in Strays : ~(j < m)
    <3> HIDE DEF Strays
    <3> QED BY <1>5, <2>1, Least
  <2>3. m # 0
    BY <1>2, <1>4 DEF Chain
  <2>4. m \in 1 .. n /\ m - 1 \in 0 .. n /\ m - 1 < m
    BY <1>3, <2>3
  <2>5. origin[hop[m - 1]] = Source(i)
    BY <2>2, <2>4
  <2>6. Moves(hop[m - 1]) /\ hop[m] = newKey[hop[m - 1]]
    BY <1>2, <2>4 DEF Chain
  <2>7. hop[m - 1] \in Keys
    BY <2>4, KeyFacts DEF Keys
  <2> QED BY <2>2, <2>5, <2>6, <2>7 DEF Descends, Moves
<1> QED BY <1>2, <1>3, <1>5

(* So what a chain ends in fits the input that it was looked up for. *)
LEMMA OriginFits ==
  ASSUME NEW i \in Inputs, NEW g \in Inputs, NEW o, Asks(o, i),
         o = g \/ o = Narrow(g)
  PROVE  Fits(i, g)
<1>1. /\ i \notin Heads /\ g \notin Heads /\ Narrow(i) \in Heads /\ Narrow(g) \in Heads
  BY KeyFacts
<1> QED BY <1>1 DEF Asks, Fits

LEMMA SourceAsks ==
  ASSUME NEW i \in Inputs
  PROVE  Asks(Source(i), i)
BY KeyFacts DEF Asks, Stranded

(* Rows are never removed. *)
LEMMA RowsLast ==
  ASSUME TypeOK, [Next]_vars, NEW k \in Keys, result[k] # "none"
  PROVE  result'[k] # "none"
<1>1. CASE result' = result
  BY <1>1
<1>2. ASSUME NEW p \in Procs, Reserve(p) \/ \E j \in Keys : ReserveGrant(p, j)
      PROVE  result'[k] # "none"
  BY <1>2, ReservationFacts
<1>3. ASSUME NEW p \in Procs, FinishReview(p) \/ FinishFailure(p)
      PROVE  result'[k] # "none"
  BY <1>3 DEF FinishReview, FinishFailure, TypeOK
<1>4. ASSUME NEW p \in Procs,
             \/ SealedReview(p) \/ Lock(p) \/ Quits(p) \/ Call(p) \/ Sign(p)
             \/ \E j \in Keys : Replay(p, j)
             \/ \E t \in Tokens, i \in Inputs : Begin(p, t, i)
      PROVE  result' = result
  BY <1>4 DEF SealedReview, Lock, Quits, Call, Sign, Replay, Begin, database
<1>5. CASE \E j \in Keys : Recover(j)
  BY <1>1, <1>5 DEF Recover
<1>6. CASE \E h \in Heads, c \in Comments : Seal(h, c)
  BY <1>1, <1>6 DEF Seal
<1>7. CASE UNCHANGED vars
  BY <1>1, <1>7 DEF vars, database
<1> QED BY <1>1, <1>2, <1>3, <1>4, <1>5, <1>6, <1>7, Cases

LEMMA AnswerStep ==
  ASSUME TypeOK, LockCoversTheCall, RecoveriesAreLinked, AnswersFit, [Next]_vars
  PROVE  AnswersFit'
<1>1. PICK origin \in [Keys -> Keys] : Descends(origin)
  BY DEF AnswersFit
<1>2. \A i \in Inputs : /\ result[Narrow(i)] # "none" => result'[Narrow(i)] # "none"
                       /\ \A g \in Inputs : Fits(i, g) => Fits(i, g)'
  BY RowsLast, KeyFacts DEF Fits
<1>3. ASSUME NEW o, NEW i \in Inputs, Asks(o, i)
      PROVE  Asks(o, i)'
  BY <1>2, <1>3 DEF Asks
<1> DEFINE Kept ==
             /\ disposition' = disposition /\ newKey' = newKey
             /\ \A k \in Keys \ Heads : result'[k] = "success" =>
                  result[k] = "success" /\ reviewed'[k] = reviewed[k]
             /\ \A p \in Procs : at'[p] \in InFlight => at[p] \in InFlight /\ req'[p] = req[p]
           NewSignatures ==
             \A p \in Procs : at'[p] = "signing" =>
               \/ at[p] = "signing" /\ req'[p] = req[p]
               \/ Fits(req[p].input, req[p].got)'
           NewReceipts == \A r \in receipts' : r \in receipts \/ Fits(r.asked, r.got)
<1>4. ASSUME Kept
      PROVE  Descends(origin)'
  <2>1. \A p \in Procs : at'[p] \in InFlight => Asks(origin[req[p].key], req[p].input)'
    <3> SUFFICES ASSUME NEW p \in Procs, at'[p] \in InFlight
                 PROVE  Asks(origin[req[p].key], req[p].input)'
      OBVIOUS
    <3>1. /\ at[p] \in InFlight /\ req'[p] = req[p] /\ req[p].input \in Inputs
          /\ Asks(origin[req[p].key], req[p].input)
      BY <1>1, <1>4, RequestFacts DEF Descends, InFlight
    <3> QED BY <1>3, <3>1
  <2> QED BY <1>1, <1>4, <2>1 DEF Descends, Grants
<1>5. ASSUME (\E o \in [Keys -> Keys] : Descends(o))', NewSignatures, NewReceipts
      PROVE  AnswersFit'
  <2>1. \A p \in Procs : at'[p] = "signing" => Fits(req[p].input, req[p].got)'
    <3> SUFFICES ASSUME NEW p \in Procs, at'[p] = "signing", at[p] = "signing", req'[p] = req[p]
                 PROVE  Fits(req[p].input, req[p].got)'
      BY <1>5
    <3>1. req[p].input \in Inputs /\ req[p].got \in Inputs /\ Fits(req[p].input, req[p].got)
      BY RequestFacts DEF AnswersFit
    <3> QED BY <1>2, <3>1
  <2>2. \A r \in receipts' : Fits(r.asked, r.got)'
    <3> SUFFICES ASSUME NEW r \in receipts'
                 PROVE  Fits(r.asked, r.got)'
      OBVIOUS
    <3>1. r.asked \in Inputs /\ r.got \in Inputs /\ Fits(r.asked, r.got)
      BY <1>5, TypeStep DEF TypeOK, AnswersFit
    <3> QED BY <1>2, <3>1
  <2> QED BY <1>5, <2>1, <2>2 DEF AnswersFit
<1>6. (UNCHANGED <<at, req>> => NewSignatures) /\ (receipts' = receipts => NewReceipts)
  OBVIOUS
<1>7. UNCHANGED <<result, reviewed, disposition, newKey, at, req>> => Kept
  OBVIOUS
<1>8. ASSUME NEW p \in Procs, End(p)
      PROVE  /\ NewSignatures
             /\ \A q \in Procs : at'[q] \in InFlight => at[q] \in InFlight /\ req'[q] = req[q]
  BY <1>8, Ended DEF InFlight
<1>9. ASSUME NEW p \in Procs, NEW label, Goto(p, label), label \notin InFlight,
             \A q \in Procs \ {p} : req'[q] = req[q]
      PROVE  \A q \in Procs : at'[q] \in InFlight => at[q] \in InFlight /\ req'[q] = req[q]
  BY <1>9, Moved
<1>10. ASSUME NEW p \in Procs, NEW label, Goto(p, label),
              label # "signing" \/ Fits(req[p].input, req[p].got)',
              \A q \in Procs \ {p} : req'[q] = req[q]
       PROVE  NewSignatures
  BY <1>10, Moved
<1> HIDE DEF Kept, NewSignatures, NewReceipts
<1>11. ASSUME NEW p \in Procs, NEW n \in Keys, ReserveKey(p, n), req[p].input \in Inputs,
              \A j \in Keys : result'[j] = IF j = n THEN "pending" ELSE result[j],
              Asks(origin[n], req[p].input)
       PROVE  AnswersFit'
  <2>1. /\ Goto(p, "reserved") /\ \A q \in Procs \ {p} : req'[q] = req[q]
        /\ req'[p].key = n /\ req'[p].input = req[p].input
        /\ UNCHANGED <<disposition, newKey, reviewed, receipts>>
    BY <1>11 DEF ReserveKey, TypeOK, Requests
  <2>2. \A q \in Procs : at'[q] \in InFlight => Asks(origin[req[q].key], req[q].input)'
    <3> SUFFICES ASSUME NEW q \in Procs, at'[q] \in InFlight
                 PROVE  Asks(origin[req[q].key], req[q].input)'
      OBVIOUS
    <3>1. CASE q = p
      BY <1>3, <1>11, <2>1, <3>1
    <3>2. CASE q # p
      <4>1. at[q] \in InFlight /\ req'[q] = req[q]
        BY <2>1, <3>2, Moved
      <4>2. req[q].input \in Inputs /\ Asks(origin[req[q].key], req[q].input)
        BY <1>1, <4>1, RequestFacts DEF Descends, InFlight
      <4> QED BY <1>3, <4>1, <4>2
    <3> QED BY <3>1, <3>2
  <2>3. Descends(origin)'
    BY <1>1, <1>11, <2>1, <2>2 DEF Descends, Grants
  <2>4. NewSignatures
    BY <1>10, <2>1
  <2> QED BY <1>5, <1>6, <2>1, <2>3, <2>4
<1>12. ASSUME NEW p \in Procs, NEW t \in Tokens, NEW i \in Inputs, Begin(p, t, i)
       PROVE  AnswersFit'
  <2> DEFINE label == IF sealed[Narrow(i)] # None THEN "sealed" ELSE "paid"
  <2>1. /\ Goto(p, label) /\ \A q \in Procs \ {p} : req'[q] = req[q]
        /\ UNCHANGED <<result, reviewed, disposition, newKey, receipts>>
    BY <1>12 DEF Begin, database, TypeOK
  <2>2. label \notin InFlight /\ label # "signing"
    BY DEF InFlight
  <2> HIDE DEF label
  <2>3. Kept /\ NewSignatures
    BY <1>9, <1>10, <2>1, <2>2 DEF Kept
  <2> QED BY <1>4, <1>5, <1>6, <2>1, <2>3
<1>13. ASSUME NEW p \in Procs, SealedReview(p)
       PROVE  AnswersFit'
  <2>1. /\ Goto(p, "signing") /\ \A q \in Procs \ {p} : req'[q] = req[q]
        /\ req'[p].input = req[p].input /\ req'[p].got = req[p].input
        /\ UNCHANGED <<result, reviewed, disposition, newKey, receipts>>
    BY <1>13 DEF SealedReview, Request, TypeOK
  <2>2. Fits(req[p].input, req[p].got)'
    BY <2>1 DEF Fits
  <2>3. Kept /\ NewSignatures
    BY <1>9, <1>10, <2>1, <2>2 DEF Kept, InFlight
  <2> QED BY <1>4, <1>5, <1>6, <2>1, <2>3
<1>14. ASSUME NEW p \in Procs, Lock(p)
       PROVE  AnswersFit'
  <2>1. Kept /\ NewSignatures
    BY <1>9, <1>10, <1>14 DEF Lock, Kept, InFlight, database
  <2> QED BY <1>4, <1>5, <1>6, <1>14, <2>1 DEF Lock
<1>15. ASSUME NEW p \in Procs, Quits(p)
       PROVE  AnswersFit'
  <2>1. Kept /\ NewSignatures
    BY <1>8, <1>15 DEF Quits, Kept, database
  <2> QED BY <1>4, <1>5, <1>6, <1>15, <2>1 DEF Quits
<1>16. ASSUME NEW p \in Procs, Reserve(p)
       PROVE  AnswersFit'
  <2> DEFINE i == req[p].input
  <2>1. /\ i \in Inputs /\ i \in Keys /\ i \notin Spare /\ ReserveKey(p, i)
    BY <1>16, RequestFacts, KeyFacts, KeysAssumption DEF Reserve, Fresh
  <2>2. \A j \in Keys : result'[j] = IF j = i THEN "pending" ELSE result[j]
    BY <2>1 DEF ReserveKey, TypeOK
  <2>3. Asks(origin[i], i)
    BY <1>1, <2>1 DEF Descends, Asks
  <2> QED BY <1>11, <2>1, <2>2, <2>3
<1>17. ASSUME NEW p \in Procs, NEW k \in Keys, ReserveGrant(p, k), OnChain(req[p].input, k)
       PROVE  AnswersFit'
  <2> DEFINE i == req[p].input
             n == newKey[k]
  <2>1. i \in Inputs /\ Grants(k) /\ n \in Keys /\ ReserveKey(p, n)
    BY <1>17, RequestFacts DEF ReserveGrant, Fresh, Unused, Grants, TypeOK
  <2>2. \A j \in Keys : result'[j] = IF j = n THEN "pending" ELSE result[j]
    BY <2>1 DEF ReserveKey, TypeOK
  <2>3. origin[n] = Source(i)
    BY <1>1, <1>17, <2>1, ChainDescends DEF Descends
  <2>4. Asks(origin[n], i)
    BY <2>1, <2>3, SourceAsks
  <2> HIDE DEF n
  <2> QED BY <1>11, <2>1, <2>2, <2>4
<1>18. ASSUME NEW p \in Procs, NEW k \in Keys, Replay(p, k), OnChain(req[p].input, k)
       PROVE  AnswersFit'
  <2> DEFINE i == req[p].input
             r == Row(k)
  <2>1. i \in Inputs /\ UNCHANGED <<result, reviewed, disposition, newKey, receipts>>
    BY <1>18, RequestFacts DEF Replay, Fresh
  <2>2. CASE result[r] = "success"
    <3>1. r \in Keys \ Heads
      <4>1. CASE Grants(k)
        BY <4>1, KeysAssumption DEF Row, RecoveriesAreLinked, Keys
      <4>2. CASE ~Grants(k)
        <5>1. k = Source(i) /\ result[k] = "success"
          BY <1>18, <2>1, <2>2, <4>2, ChainStops DEF Row, Stranded
        <5> QED BY <2>1, <4>2, <5>1, KeyFacts DEF Row, Stranded
      <4> QED BY <4>1, <4>2
    <3>2. origin[r] = Source(i)
      BY <1>1, <1>18, <2>1, ChainDescends DEF Descends, Row
    <3>3. reviewed[r] \in Inputs /\ (Source(i) = reviewed[r] \/ Source(i) = Narrow(reviewed[r]))
      BY <1>1, <2>2, <3>1, <3>2 DEF Descends, TypeOK
    <3>4. Fits(i, reviewed[r])
      BY <2>1, <3>3, SourceAsks, OriginFits
    <3>5. /\ Goto(p, "signing") /\ \A q \in Procs \ {p} : req'[q] = req[q]
          /\ req'[p].input = i /\ req'[p].got = reviewed[r]
      BY <1>18, <2>2 DEF Replay, Request, TypeOK
    <3>6. Fits(req[p].input, req[p].got)'
      BY <1>2, <2>1, <3>3, <3>4, <3>5
    <3> HIDE DEF r
    <3>7. Kept /\ NewSignatures
      BY <1>9, <1>10, <2>1, <3>5, <3>6 DEF Kept, InFlight
    <3> QED BY <1>4, <1>5, <1>6, <2>1, <3>7
  <2>3. CASE result[r] # "success"
    <3>1. Kept /\ NewSignatures
      BY <1>8, <1>18, <2>1, <2>3 DEF Replay, Kept
    <3> QED BY <1>4, <1>5, <1>6, <2>1, <3>1
  <2> QED BY <2>2, <2>3
<1>19. ASSUME NEW p \in Procs, Call(p)
       PROVE  AnswersFit'
  <2>1. \A q \in Procs : at'[q] \in InFlight => at[q] \in InFlight /\ req'[q] = req[q]
    BY <1>19, Moved DEF Call, InFlight
  <2>2. Kept /\ NewSignatures
    BY <1>10, <1>19, <2>1 DEF Call, Kept, database
  <2> QED BY <1>4, <1>5, <1>6, <1>19, <2>2 DEF Call
<1>20. ASSUME NEW p \in Procs, FinishReview(p)
       PROVE  AnswersFit'
  <2> DEFINE i == req[p].input
             k == req[p].key
  <2>1. /\ i \in Inputs /\ k \in Keys /\ at[p] \in InFlight
        /\ UNCHANGED <<disposition, newKey, receipts>>
    BY <1>20, RequestFacts DEF FinishReview, InFlight
  <2>2. /\ \A j \in Keys : result'[j] = IF j = k THEN "success" ELSE result[j]
        /\ \A j \in Keys : reviewed'[j] = IF j = k THEN i ELSE reviewed[j]
    BY <1>20, <2>1 DEF FinishReview, TypeOK
  <2>3. origin[k] = i \/ origin[k] = Narrow(i)
    BY <1>1, <2>1 DEF Descends, Asks
  <2>4. /\ Goto(p, "signing") /\ \A q \in Procs \ {p} : req'[q] = req[q]
        /\ req'[p].input = i /\ req'[p].got = i
    BY <1>20 DEF FinishReview, Request, TypeOK
  <2>5. NewSignatures
    BY <1>10, <2>4 DEF Fits
  <2>6. \A q \in Procs : at'[q] \in InFlight => at[q] \in InFlight /\ req'[q] = req[q]
    BY <1>9, <2>4 DEF InFlight
  <2>7. \A q \in Procs : at'[q] \in InFlight => Asks(origin[req[q].key], req[q].input)'
    <3> SUFFICES ASSUME NEW q \in Procs, at'[q] \in InFlight
                 PROVE  Asks(origin[req[q].key], req[q].input)'
      OBVIOUS
    <3>1. /\ at[q] \in InFlight /\ req'[q] = req[q] /\ req[q].input \in Inputs
          /\ Asks(origin[req[q].key], req[q].input)
      BY <1>1, <2>6, RequestFacts DEF Descends, InFlight
    <3> QED BY <1>3, <3>1
  <2>8. Descends(origin)'
    BY <1>1, <2>1, <2>2, <2>3, <2>7 DEF Descends, Grants
  <2> QED BY <1>5, <1>6, <2>1, <2>5, <2>8
<1>21. ASSUME NEW p \in Procs, FinishFailure(p)
       PROVE  AnswersFit'
  <2>1. \A j \in Keys : result'[j] = "success" => result[j] = "success"
    BY <1>21 DEF FinishFailure, TypeOK
  <2>2. Kept /\ NewSignatures
    BY <1>8, <1>21, <2>1 DEF FinishFailure, Kept
  <2> QED BY <1>4, <1>5, <1>6, <1>21, <2>2 DEF FinishFailure
<1>22. ASSUME NEW p \in Procs, Sign(p)
       PROVE  AnswersFit'
  <2>1. Kept /\ NewSignatures
    BY <1>8, <1>22 DEF Sign, Kept, database
  <2>2. NewReceipts
    BY <1>22 DEF Sign, NewReceipts, AnswersFit
  <2> QED BY <1>4, <1>5, <2>1, <2>2
<1>23. ASSUME NEW k \in Keys, Recover(k)
       PROVE  AnswersFit'
  <2>1. /\ UNCHANGED <<result, reviewed, at, req, receipts>> /\ disposition[k] = "none"
        /\ result[k] # "none" /\ newKey[k] = None /\ \A p \in Procs : at[p] \notin InFlight
    BY <1>23, NoneFacts, RecoverFacts DEF Recover, MayRecover, LockCoversTheCall, Stranded
  <2>2. PICK d \in Dispositions, n \in Keys :
          /\ NewKey(k, d, n)
          /\ \A j \in Keys : disposition'[j] = IF j = k THEN d ELSE disposition[j]
          /\ \A j \in Keys : newKey'[j] = IF j = k THEN n ELSE newKey[j]
    BY <1>23, RecoverFacts
  <2>3. NewSignatures /\ NewReceipts
    BY <1>6, <2>1
  <2>4. CASE d # "authorize_one_paid_attempt"
    <3>1. Descends(origin)'
      BY <1>1, <2>1, <2>2, <2>4 DEF Descends, Grants
    <3> QED BY <1>5, <2>3, <3>1
  <2>5. CASE d = "authorize_one_paid_attempt"
    <3> DEFINE new == [origin EXCEPT ![n] = origin[k]]
    <3>1. n \in Spare /\ Untouched(n) /\ \A j \in Keys : newKey[j] # n
      BY <2>2, <2>5 DEF NewKey
    <3>2. new \in [Keys -> Keys] /\ \A j \in Keys : new[j] = IF j = n THEN origin[k] ELSE origin[j]
      OBVIOUS
    <3> HIDE DEF new
    <3>3. \A j \in Keys : Grants(j)' => new[newKey'[j]] = new[j]
      <4> SUFFICES ASSUME NEW j \in Keys, Grants(j)'
                   PROVE  new[newKey'[j]] = new[j]
        OBVIOUS
      <4>1. CASE j = k
        BY <2>1, <2>2, <3>1, <3>2, <4>1 DEF Untouched
      <4>2. CASE j # k
        <5>1. Grants(j) /\ newKey'[j] = newKey[j]
          BY <2>2, <4>2 DEF Grants
        <5>2. newKey[j] \in Keys /\ newKey[j] # n /\ j # n
          BY <3>1, <5>1 DEF Grants, TypeOK, Untouched
        <5> QED BY <1>1, <3>2, <5>1, <5>2 DEF Descends
      <4> QED BY <4>1, <4>2
    <3>4. Descends(new)'
      BY <1>1, <2>1, <3>1, <3>2, <3>3 DEF Descends, Untouched
    <3>5. (\E o \in [Keys -> Keys] : Descends(o))'
      BY <3>2, <3>4
    <3> QED BY <1>5, <2>3, <3>5
  <2> QED BY <2>4, <2>5
<1>24. CASE \E h \in Heads, c \in Comments : Seal(h, c)
  BY <1>4, <1>5, <1>6, <1>7, <1>24 DEF Seal
<1>25. CASE UNCHANGED vars
  BY <1>4, <1>5, <1>6, <1>7, <1>25 DEF vars, database
<1> QED
  BY <1>12, <1>13, <1>14, <1>15, <1>16, <1>17, <1>18, <1>19, <1>20, <1>21, <1>22, <1>23, <1>24,
     <1>25, Cases
-----------------------------------------------------------------------------
(* The invariant, and what follows from it. *)

LEMMA SafeInitially == Init => Safe
<1> SUFFICES ASSUME Init PROVE Safe
  OBVIOUS
<1>1. TypeOK
  BY TypeInitially
<1>2. PICK old \in [OldHeads -> States] :
        result = [k \in Keys |-> IF k \in OldHeads THEN old[k] ELSE "none"]
  BY DEF Init
<1>3. \A k \in Keys \ Heads : result[k] = "none"
  BY <1>2, OldHeadsAssumption
<1>4. \A p \in Procs : at[p] = "idle"
  BY DEF Init
<1>5. /\ \A k \in Keys : disposition[k] = "none" /\ newKey[k] = None /\ calls[k] = 0
      /\ \A t \in Tokens : charged[t] = 0
      /\ lock = None /\ receipts = {} /\ consumed = {}
  BY DEF Init
<1>6. LockCoversTheCall
  BY <1>4, <1>5 DEF LockCoversTheCall, InFlight
<1>7. RecoveriesAreLinked /\ RecoveriesAreSound
  BY <1>5 DEF RecoveriesAreLinked, RecoveriesAreSound, Grants
<1>8. RowsComeFirst /\ CallsAreReserved /\ SpendIsGranted
  BY <1>4, <1>5 DEF RowsComeFirst, CallsAreReserved, SpendIsGranted, InFlight
<1>9. VerdictsRest
  BY <1>3, <1>4, <1>5 DEF VerdictsRest
<1>10. TokensAreOwned /\ TokensWorkOnce
  BY <1>4, <1>5 DEF TokensAreOwned, TokensWorkOnce, Holding, InFlight
<1> QED BY <1>1, <1>6, <1>7, <1>8, <1>9, <1>10 DEF Safe

LEMMA SafeStep == Safe /\ [Next]_vars => Safe'
<1> SUFFICES ASSUME Safe, [Next]_vars PROVE Safe'
  OBVIOUS
<1>1. /\ TypeOK /\ LockCoversTheCall /\ RecoveriesAreLinked /\ RecoveriesAreSound
      /\ Spend /\ VerdictsRest /\ TokensAreOwned /\ TokensWorkOnce
  BY DEF Safe, Spend
<1>2. TypeOK' /\ LockCoversTheCall'
  BY <1>1, TypeStep, LockStep
<1>3. RecoveriesAreLinked' /\ RecoveriesAreSound'
  BY <1>1, RecoveryStep
<1>4. Spend'
  BY <1>1, SpendStep
<1>5. VerdictsRest'
  BY <1>1, VerdictStep
<1>6. TokensAreOwned' /\ TokensWorkOnce'
  BY <1>1, TokenStep
<1> QED BY <1>2, <1>3, <1>4, <1>5, <1>6 DEF Safe, Spend

LEMMA AlwaysSafe == Spec => []Safe
BY SafeInitially, SafeStep, PTL DEF Spec

(* AnswersFit joins Safe: it needs Safe to be preserved, not the reverse. *)
LEMMA AnswersInitially == Init => AnswersFit
<1> SUFFICES ASSUME Init PROVE AnswersFit
  OBVIOUS
<1>1. TypeOK
  BY TypeInitially
<1>2. /\ \A k \in Keys : disposition[k] = "none"
      /\ \A p \in Procs : at[p] = "idle"
      /\ receipts = {}
  BY DEF Init
<1>3. \A k \in Keys \ Heads : result[k] = "none"
  BY OldHeadsAssumption DEF Init
<1> DEFINE origin == [k \in Keys |-> k]
<1>4. Descends(origin)
  BY <1>2, <1>3 DEF Descends, Grants, InFlight
<1>5. origin \in [Keys -> Keys]
  OBVIOUS
<1> HIDE DEF origin
<1> QED BY <1>2, <1>4, <1>5 DEF AnswersFit

LEMMA AlwaysFit == Spec => []AnswersFit
<1>1. Safe /\ AnswersFit /\ [Next]_vars => AnswersFit'
  BY AnswerStep DEF Safe
<1> QED BY <1>1, AnswersInitially, AlwaysSafe, PTL DEF Spec

(* LockCoversTheCall: no way out of a request keeps the lifecycle lock, and *)
(* while a call may be under way nobody else reserves, calls or recovers.   *)
THEOREM LockHolds == Spec => []LockCoversTheCall
<1>1. Safe => LockCoversTheCall
  BY DEF Safe
<1> QED BY <1>1, AlwaysSafe, PTL

(* RecoveriesAreSound: an operator's disposition is final, and no chain of *)
(* recoveries is in a state that the service refuses as a conflict.        *)
THEOREM RecoveriesHold == Spec => []RecoveriesAreSound
<1>1. Safe => RecoveriesAreSound
  BY DEF Safe
<1> QED BY <1>1, AlwaysSafe, PTL

(* SpendIsAuthorized: one provider call for a key at most, and for a key of *)
(* a recovery only with a grant that is consumed by it.                     *)
THEOREM SpendHolds == Spec => []SpendIsAuthorized
<1>1. Safe => SpendIsAuthorized
  BY DEF Safe, SpendIsGranted, HasGrant, SpendIsAuthorized
<1> QED BY <1>1, AlwaysSafe, PTL

(* ReceiptsRestOnAReview: behind every receipt there is a paid verdict or a *)
(* sealed comment for what it reports.                                      *)
THEOREM ReceiptsHold == Spec => []ReceiptsRestOnAReview
<1>1. Safe => ReceiptsRestOnAReview
  BY DEF Safe, VerdictsRest, Rests, ReceiptsRestOnAReview
<1> QED BY <1>1, AlwaysSafe, PTL

(* TokensWorkOnce: a workflow token pays for one call and one receipt. *)
THEOREM TokensHold == Spec => []TokensWorkOnce
<1>1. Safe => TokensWorkOnce
  BY DEF Safe
<1> QED BY <1>1, AlwaysSafe, PTL

(* ReceiptsAnswerTheirRun: a receipt is about the head it was asked for, and *)
(* about the very input unless a row under the old key stands behind it.     *)
THEOREM AnswersHold == Spec => []ReceiptsAnswerTheirRun
<1>1. AnswersFit => ReceiptsAnswerTheirRun
  BY DEF AnswersFit, Fits, ReceiptsAnswerTheirRun
<1> QED BY <1>1, AlwaysFit, PTL
=============================================================================
