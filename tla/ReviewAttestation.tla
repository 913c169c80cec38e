-------------------------- MODULE ReviewAttestation --------------------------
(***************************************************************************)
(* The paid review of a pull request (api/review_attestation.py): service  *)
(* processes answer workflow runs, reserve at most one provider call per   *)
(* key in SQLite, keep a host-wide file lock from the reservation to the   *)
(* end of the call, and sign a receipt; a root operator, under the same    *)
(* lock, gives a stranded reservation one final disposition.               *)
(*                                                                         *)
(* An input stands for everything the key of a request hashes (base,       *)
(* author, model, prompt, diff) besides the head; a row written before     *)
(* that key existed is filed under the head alone. GitHub, the OIDC        *)
(* issuer and the signature are outside: a request that they refuse never  *)
(* starts here.                                                            *)
(***************************************************************************)
EXTENDS Naturals

CONSTANTS
  Procs,        (* service processes: each answers one request at a time    *)
  Tokens,       (* OIDC tokens, each with its own jti                       *)
  Heads,        (* heads of the pull requests                               *)
  Bases,        (* what distinguishes two requests for one head             *)
  Inputs,       (* the (head, base) pairs that runs ask about               *)
  OldHeads,     (* heads that may have a row under the old, narrow key      *)
  Spare,        (* fresh keys the operator's command can draw               *)
  Comments,     (* review comments an operator can seal                     *)
  None,
  MaxHops       (* _MAX_RECOVERY_CHAIN_HOPS, 32 in the code                 *)

ASSUME InputsAssumption == Inputs \subseteq Heads \X Bases
ASSUME OldHeadsAssumption == OldHeads \subseteq Heads
ASSUME KeysAssumption ==
  Heads \cap Spare = {} /\ Inputs \cap Heads = {} /\ Inputs \cap Spare = {}
ASSUME NoneAssumption ==
  None \notin Procs \cup Tokens \cup Inputs \cup Heads \cup Spare \cup Comments
ASSUME MaxHopsAssumption == MaxHops \in Nat \ {0}

VARIABLES
  result,       (* review_attestation_results: the state of each key        *)
  reviewed,     (* semantic_json of a success row: the input it reports     *)
  disposition,  (* review_attestation_recoveries, by old_semantic_key       *)
  newKey,       (* new_semantic_key of that recovery                        *)
  consumed,     (* old keys whose recovery has a consumed_at                *)
  spent,        (* review_attestation_jtis                                  *)
  sealed,       (* sealed_review_records, by head                           *)
  lock,         (* who holds the flock on .lifecycle.lock                   *)
  at,           (* where the request of each process stands                 *)
  req,          (* its token, input, reserved key and the input reported    *)
  calls,        (* provider calls made for each key (no code)               *)
  charged,      (* provider calls made for each token (no code)             *)
  receipts      (* the receipts handed out (no code)                        *)

database == <<result, reviewed, disposition, newKey, consumed, spent, sealed>>
vars == <<database, lock, at, req, calls, charged, receipts>>

Keys == Inputs \cup Heads \cup Spare
Narrow(i) == i[1]
(* Definitions named X_<fault> are seeded faults: each is X with one mistake, *)
(* kept to show that the property named in PROJECT.json notices it.          *)
Key_HeadOnly(i) == CHOOSE j \in Inputs : j[1] = i[1]
Key(i) == i
States == {"none", "pending", "success", "failure"}
Stranded == {"pending", "failure"}
Dispositions == {"preserve", "rebind_without_spend", "authorize_one_paid_attempt"}
Grants(k) == disposition[k] = "authorize_one_paid_attempt"

Request(token, input, key, got) ==
  [token |-> token, input |-> input, key |-> key, got |-> got]
Blank == Request(None, None, None, None)

Init ==
  /\ \E old \in [OldHeads -> States] :
       result = [k \in Keys |-> IF k \in OldHeads THEN old[k] ELSE "none"]
  /\ \E old \in [OldHeads -> Inputs] :
       /\ \A h \in OldHeads : Narrow(old[h]) = h
       /\ reviewed = [k \in Keys |-> IF k \in OldHeads /\ result[k] = "success"
                                       THEN old[k] ELSE None]
  /\ disposition = [k \in Keys |-> "none"]
  /\ newKey = [k \in Keys |-> None]
  /\ consumed = {}
  /\ spent = {}
  /\ sealed = [h \in Heads |-> None]
  /\ lock = None
  /\ at = [p \in Procs |-> "idle"]
  /\ req = [p \in Procs |-> Blank]
  /\ calls = [k \in Keys |-> 0]
  /\ charged = [t \in Tokens |-> 0]
  /\ receipts = {}

Goto(p, label) == at' = [at EXCEPT ![p] = label]
Unlock_OnlyAfterACall(p) ==
  lock' = IF lock = p /\ at[p] # "locked" THEN None ELSE lock
Unlock(p) == lock' = IF lock = p THEN None ELSE lock

(* The request ends, with an answer or an error; every way out unlocks. *)
End(p) == Goto(p, "idle") /\ req' = [req EXCEPT ![p] = Blank] /\ Unlock(p)
-----------------------------------------------------------------------------
(* The request, up to the lock. *)

(* attest: the process takes one request at a time, its token and the pull *)
(* request are verified, and the sealed record of the head is looked up.   *)
Begin(p, t, i) ==
  /\ at[p] = "idle"
  /\ Goto(p, IF sealed[Narrow(i)] # None THEN "sealed" ELSE "paid")
  /\ req' = [req EXCEPT ![p] = Request(t, i, None, None)]
  /\ UNCHANGED <<database, lock, calls, charged, receipts>>

(* The comment is fetched again and matches its seal; the token is spent. *)
SealedReview(p) ==
  /\ at[p] = "sealed"
  /\ req[p].token \notin spent
  /\ spent' = spent \cup {req[p].token}
  /\ Goto(p, "signing")
  /\ LET i == req[p].input
     IN  req' = [req EXCEPT ![p] = Request(req[p].token, i, Narrow(i), i)]
  /\ UNCHANGED <<result, reviewed, disposition, newKey, consumed, sealed, lock, calls,
                 charged, receipts>>

(* lifecycle_lock, LOCK_NB: at once or not at all. *)
Lock(p) ==
  /\ at[p] = "paid"
  /\ lock = None
  /\ lock' = p
  /\ Goto(p, "locked")
  /\ UNCHANGED <<database, req, calls, charged, receipts>>

(* The comment differs or its token is spent, the diff cannot be fetched, or *)
(* the lock is held: the request ends before it reserved anything.           *)
GiveUp(p) ==
  /\ at[p] \in {"sealed", "paid"}
  /\ End(p)
  /\ UNCHANGED <<database, calls, charged, receipts>>
-----------------------------------------------------------------------------
(* consume_and_reserve, one transaction. *)

(* Only a stranded row under the old key counts, and only if the key has none. *)
Source_AnyOldRow(i) ==
  IF result[Key(i)] = "none" /\ result[Narrow(i)] # "none" THEN Narrow(i) ELSE Key(i)
Source(i) ==
  IF result[Key(i)] = "none" /\ result[Narrow(i)] \in Stranded THEN Narrow(i) ELSE Key(i)

(* The granted attempt was made, stranded too, and was recovered in its turn. *)
Moves(k) ==
  /\ Grants(k)
  /\ k \in consumed
  /\ result[newKey[k]] \in Stranded
  /\ disposition[newKey[k]] # "none"

(* The loop over the recoveries of i went through hop and stops at its end. *)
Chain(i, n, hop) ==
  /\ hop[0] = Source(i)
  /\ \A m \in 1..n : Moves(hop[m - 1]) /\ hop[m] = newKey[hop[m - 1]]
  /\ n = MaxHops - 1 \/ ~Moves(hop[n])

(* The row a chain that stops at k answers from, and whether it may. *)
Row(k) == IF Grants(k) THEN newKey[k] ELSE k
Answers(k) ==
  /\ result[Row(k)] # "none"
  /\ Grants(k) => k \in consumed /\ disposition[newKey[k]] = "none"

(* A granted attempt that nobody has made yet. *)
Unused_Unmarked(k) ==
  Grants(k) /\ disposition[newKey[k]] = "none"
Unused(k) ==
  /\ Grants(k)
  /\ k \notin consumed
  /\ result[newKey[k]] = "none"
  /\ disposition[newKey[k]] = "none"

Untouched(k) == result[k] = "none" /\ disposition[k] = "none"

Fresh_Unchecked(p) == at[p] = "locked"
Fresh(p) == at[p] = "locked" /\ req[p].token \notin spent

SpendToken(p) == spent' = spent \cup {req[p].token}

(* _cached_semantic: a success is signed again, anything else is an error. *)
Replay(p, k) ==
  /\ Fresh(p)
  /\ Answers(k)
  /\ SpendToken(p)
  /\ IF result[Row(k)] = "success"
       THEN /\ Goto(p, "signing")
            /\ req' = [req EXCEPT ![p] =
                 Request(req[p].token, req[p].input, Row(k), reviewed[Row(k)])]
            /\ Unlock(p)
       ELSE End(p)
  /\ UNCHANGED <<result, reviewed, disposition, newKey, consumed, sealed, calls, charged,
                 receipts>>

ReserveKey(p, k) ==
  /\ result' = [result EXCEPT ![k] = "pending"]
  /\ req' = [req EXCEPT ![p].key = k]
  /\ Goto(p, "reserved")
  /\ SpendToken(p)
  /\ UNCHANGED <<reviewed, disposition, newKey, sealed, lock, calls, charged, receipts>>

(* There is neither a row nor a recovery: the loop ends where it began. *)
Reserve(p) ==
  /\ Fresh(p)
  /\ Untouched(Source(req[p].input))
  /\ ReserveKey(p, Key(req[p].input))
  /\ UNCHANGED consumed

(* The grant is consumed and the new row inserted in the same transaction. *)
ReserveGrant(p, k) ==
  /\ Fresh(p)
  /\ Unused(k)
  /\ consumed' = consumed \cup {k}
  /\ ReserveKey(p, newKey[k])

(* oidc_replay, recovery_chain_too_long or recovery_state_conflict: rolled back. *)
Refuse(p, k) ==
  /\ at[p] = "locked"
  /\ Fresh(p) => ~Untouched(Source(req[p].input)) /\ ~Answers(k) /\ ~Unused(k)
  /\ End(p)
  /\ UNCHANGED <<database, calls, charged, receipts>>

Reservation(p) ==
  /\ at[p] = "locked"
  /\ \/ Reserve(p)
     \/ \E n \in 0..MaxHops - 1 : \E hop \in [0..n -> {Source(req[p].input)} \cup Spare] :
          /\ Chain(req[p].input, n, hop)
          /\ Replay(p, hop[n]) \/ ReserveGrant(p, hop[n]) \/ Refuse(p, hop[n])
-----------------------------------------------------------------------------
(* The call, its outcome and the receipt. *)

Call(p) ==
  /\ at[p] = "reserved"
  /\ Goto(p, "calling")
  /\ calls' = [calls EXCEPT ![req[p].key] = @ + 1]
  /\ charged' = [charged EXCEPT ![req[p].token] = @ + 1]
  /\ UNCHANGED <<database, lock, req, receipts>>

(* A well-formed verdict, and finish: only a pending row is closed. The lock *)
(* is released on the way out.                                               *)
FinishReview(p) ==
  /\ at[p] = "calling"
  /\ result[req[p].key] = "pending"
  /\ result' = [result EXCEPT ![req[p].key] = "success"]
  /\ reviewed' = [reviewed EXCEPT ![req[p].key] = req[p].input]
  /\ LET i == req[p].input
     IN  req' = [req EXCEPT ![p] = Request(req[p].token, i, req[p].key, i)]
  /\ Goto(p, "signing")
  /\ Unlock(p)
  /\ UNCHANGED <<disposition, newKey, consumed, spent, sealed, calls, charged, receipts>>

(* An error, a timeout or an answer out of form, and finish. *)
FinishFailure(p) ==
  /\ at[p] = "calling"
  /\ result[req[p].key] = "pending"
  /\ result' = [result EXCEPT ![req[p].key] = "failure"]
  /\ End(p)
  /\ UNCHANGED <<reviewed, disposition, newKey, consumed, spent, sealed, calls, charged,
                 receipts>>

(* finish raises (SQLite, or attestation_state_conflict): the row stays. *)
FinishRaises(p) ==
  /\ at[p] = "calling"
  /\ End(p)
  /\ UNCHANGED <<database, calls, charged, receipts>>

(* _receipt and _response, after the lock is gone. *)
Sign(p) ==
  /\ at[p] = "signing"
  /\ receipts' = receipts \cup
       {[token |-> req[p].token, asked |-> req[p].input, key |-> req[p].key, got |-> req[p].got]}
  /\ End(p)
  /\ UNCHANGED <<database, calls, charged>>

(* The process dies: the kernel releases its lock. *)
Crash(p) ==
  /\ at[p] # "idle"
  /\ End(p)
  /\ UNCHANGED <<database, calls, charged, receipts>>
-----------------------------------------------------------------------------
(* The operator. *)

(* recover takes the lock, so it never meets a request between its *)
(* reservation and the end of its call.                            *)
MayRecover_InFlight(k) == result[k] \in Stranded /\ disposition[k] = "none"
MayRecover(k) == lock = None /\ result[k] \in Stranded /\ disposition[k] = "none"

(* preserve keeps the key (and fails on UNIQUE if that key is itself a *)
(* recovery's); the other two draw a fresh one.                        *)
NewKey(k, d, n) ==
  IF d = "preserve"
    THEN n = k /\ \A j \in Keys : newKey[j] # k
    ELSE n \in Spare /\ Untouched(n) /\ \A j \in Keys : newKey[j] # n

Recover(k) ==
  /\ MayRecover(k)
  /\ \E d \in Dispositions, n \in {k} \cup Spare :
       /\ NewKey(k, d, n)
       /\ disposition' = [disposition EXCEPT ![k] = d]
       /\ newKey' = [newKey EXCEPT ![k] = n]
  /\ UNCHANGED <<result, reviewed, consumed, spent, sealed, lock, at, req, calls, charged,
                 receipts>>

(* seal: one immutable record per head, one head per comment. No lock. *)
MaySeal(h, c) == sealed[h] = None /\ \A g \in Heads : sealed[g] # c

Seal(h, c) ==
  /\ MaySeal(h, c)
  /\ sealed' = [sealed EXCEPT ![h] = c]
  /\ UNCHANGED <<result, reviewed, disposition, newKey, consumed, spent, lock, at, req,
                 calls, charged, receipts>>
-----------------------------------------------------------------------------
Progress(p) ==
  \/ SealedReview(p)
  \/ Lock(p)
  \/ GiveUp(p)
  \/ Reservation(p)
  \/ Call(p)
  \/ FinishReview(p)
  \/ FinishFailure(p)
  \/ FinishRaises(p)
  \/ Sign(p)

Next ==
  \/ \E p \in Procs, t \in Tokens, i \in Inputs : Begin(p, t, i)
  \/ \E p \in Procs : Progress(p)
  \/ \E p \in Procs : Crash(p)
  \/ \E k \in Keys : Recover(k)
  \/ \E h \in Heads, c \in Comments : Seal(h, c)

Spec == Init /\ [][Next]_vars
-----------------------------------------------------------------------------
Places == {"idle", "sealed", "paid", "locked", "reserved", "calling", "signing"}
InFlight == {"reserved", "calling"}
Requests == [token: Tokens \cup {None}, input: Inputs \cup {None}, key: Keys \cup {None},
             got: Inputs \cup {None}]

(* Each variable has its type, and a request has what its place needs. *)
TypeOK ==
  /\ result \in [Keys -> States]
  /\ reviewed \in [Keys -> Inputs \cup {None}]
  /\ disposition \in [Keys -> Dispositions \cup {"none"}]
  /\ newKey \in [Keys -> Keys \cup {None}]
  /\ consumed \subseteq Keys
  /\ spent \subseteq Tokens
  /\ sealed \in [Heads -> Comments \cup {None}]
  /\ lock \in Procs \cup {None}
  /\ at \in [Procs -> Places]
  /\ req \in [Procs -> Requests]
  /\ calls \in [Keys -> Nat]
  /\ charged \in [Tokens -> Nat]
  /\ receipts \subseteq [token: Tokens, asked: Inputs, key: Keys, got: Inputs]
  /\ \A p \in Procs : at[p] # "idle" => req[p].token # None /\ req[p].input # None
  /\ \A p \in Procs : at[p] \in InFlight => req[p].key # None
  /\ \A p \in Procs : at[p] = "signing" => req[p].key # None /\ req[p].got # None
  /\ \A k \in Keys : disposition[k] # "none" <=> newKey[k] # None
  /\ \A k \in Keys : result[k] = "success" <=> reviewed[k] # None

(* Whatever crashes, is retried or recovered, the provider is called at most *)
(* once for a key, and for a recovery's key only with an operator's grant,   *)
(* which is then consumed. RUNBOOK.md 192-195 promises this for the grant.   *)
SpendIsAuthorized ==
  \A k \in Keys :
    /\ calls[k] <= 1
    /\ calls[k] = 1 /\ k \notin Inputs =>
         \E old \in consumed : Grants(old) /\ newKey[old] = k

(* A row that an operator disposed of stays stranded for ever: the command   *)
(* cannot meet a call in flight (RUNBOOK.md 197-199: rather than risking two *)
(* charges), and no later request closes the row. And no chain of recoveries *)
(* is one that consume_and_reserve would call a conflict: a grant is         *)
(* consumed exactly when its row exists.                                     *)
RecoveriesAreSound ==
  \A k \in Keys :
    /\ disposition[k] # "none" => result[k] \in Stranded
    /\ Grants(k) => (k \in consumed <=> result[newKey[k]] # "none")

(* A receipt rests on a verdict that a provider call of this service gave    *)
(* for exactly the input it reports, or on a sealed comment for the head it  *)
(* was asked about; a success under the old key is never replayed            *)
(* (review_attestation.py 1097-1098).                                        *)
ReceiptsRestOnAReview ==
  \A r \in receipts :
    \/ /\ result[r.key] = "success"
       /\ reviewed[r.key] = r.got
       /\ calls[r.key] = 1
    \/ /\ r.key = Narrow(r.asked)
       /\ sealed[r.key] # None
       /\ r.got = r.asked

(* Receipts are head-bound, and where no row under the old key exists they   *)
(* report the very input the run asked about, through every recovery.        *)
ReceiptsAnswerTheirRun ==
  \A r \in receipts :
    /\ Narrow(r.got) = Narrow(r.asked)
    /\ result[Narrow(r.asked)] = "none" => r.got = r.asked

(* One token buys at most one call and one receipt. *)
TokensWorkOnce ==
  /\ \A t \in Tokens : charged[t] <= 1
  /\ \A r, s \in receipts : r.token = s.token => r = s

(* The lifecycle lock belongs to a request that has not answered yet, and   *)
(* whose reservation nobody disposed of: no error path, crash or ambiguous  *)
(* outcome locks out the next run or the operator, and nobody else calls    *)
(* the provider meanwhile.                                                  *)
LockCoversTheCall ==
  /\ lock # None => at[lock] \in {"locked"} \cup InFlight
  /\ \A p \in Procs : at[p] \in {"locked"} \cup InFlight => lock = p
  /\ \A p \in Procs : at[p] \in InFlight =>
       result[req[p].key] = "pending" /\ disposition[req[p].key] = "none"
=============================================================================
