---------------------------- MODULE StaffAccess ----------------------------
(***************************************************************************)
(* Who may enter, in production: the operator's teachers, grants, invites  *)
(* and Google reservations, and the doors that end in the one cookie       *)
(* session: an invite, a Google sign-in or link, a passkey, a recovery     *)
(* code (api/store.py 640-1998 and the session routes of api/app.py).      *)
(*                                                                         *)
(* Each method of the store is one transaction; a Google or passkey        *)
(* request is several of them, and the operator's commands and other       *)
(* requests come in between. A time limit is a change of state that may    *)
(* come at any moment; a Google account stands for its subject and its     *)
(* verified email. Signatures, digests and roles are left out.             *)
(***************************************************************************)
EXTENDS Naturals

CONSTANTS
  Teachers,     (* rows of pilot_teachers that can come to exist            *)
  Accounts,     (* Google accounts                                          *)
  Allowed,      (* accounts on the allowlist of the environment             *)
  AllowedAs,    (* google_allowed_email_teacher_id, or None                 *)
  Enrolled,     (* a teacher who may have come through Google before, or    *)
  EnrolledAs,   (* None, and the account                                    *)
  Invites,
  Tabs,         (* browser tabs, each with its entry nonce                  *)
  Proofs,       (* Google nonces and WebAuthn challenges                    *)
  Requests,     (* Google and passkey requests in the server                *)
  None,
  MaxSessions,  (* bound: sessions minted                                   *)
  MaxSets,      (* bound: sets of recovery codes of a teacher               *)
  MaxCount,     (* bound: an authenticator's signature counter              *)
  MaxReissues   (* bound: secrets given out for an invite's session         *)

ASSUME AllowedAssumption == Allowed \subseteq Accounts /\ AllowedAs \in Teachers \cup {None}
ASSUME EnrolledAssumption == Enrolled \in Teachers \cup {None} /\ EnrolledAs \in Accounts
ASSUME NoneAssumption == None \notin Teachers \cup Accounts \cup Invites \cup Tabs \cup Proofs
ASSUME BoundsAssumption ==
  /\ MaxSessions \in Nat
  /\ MaxSets \in Nat \ {0}
  /\ MaxCount \in Nat
  /\ MaxReissues \in Nat

VARIABLES
  standing,     (* of a teacher: absent, active or deactivated              *)
  grant,        (* staff_authorization_grants                               *)
  account,      (* google_teacher_identities                                *)
  reserved,     (* google_email_preauthorizations: the email of a teacher   *)
  bound,        (* teachers whose reservation is consumed                   *)
  invite,       (* pilot_invites                                            *)
  session,      (* pilot_sessions, in the order they were minted            *)
  proof,        (* google_login_nonces and webauthn_challenges              *)
  counter,      (* webauthn_credentials: the sign_count of a teacher's key  *)
  codes,        (* recovery_codes: the current set, and whether it is spent *)
  req,          (* where each request stands and what it has read           *)
  tab           (* the cookie of each tab and whether it kept its nonce     *)

people == <<standing, grant, account, reserved, bound>>
doors == <<invite, proof, counter, codes>>
vars == <<people, doors, session, req, tab>>

Ids == 1..MaxSessions
NoSession == [teacher |-> None, door |-> "none", by |-> None, account |-> None,
              state |-> "none", secret |-> 0]
NoProof == [kind |-> "none", session |-> 0, used |-> FALSE]
NoCookie == [id |-> 0, secret |-> 0]
Asking(at, c, t, g, n) ==
  [at |-> at, proof |-> c, teacher |-> t, account |-> g, count |-> n]
Idle == Asking("idle", None, None, None, 0)

(* Nobody came yet, or one teacher came with a Google account and has a *)
(* passkey and recovery codes since.                                    *)
Init ==
  \E came \in SUBSET ({Enrolled} \ {None}) :
    /\ standing = [t \in Teachers |-> IF t \in came THEN "active" ELSE "absent"]
    /\ grant = [t \in Teachers |-> IF t \in came THEN "active" ELSE "none"]
    /\ account = [t \in Teachers |-> IF t \in came THEN EnrolledAs ELSE None]
    /\ reserved = [t \in Teachers |-> None]
    /\ bound = {}
    /\ invite = [v \in Invites |-> [state |-> "none", teacher |-> None]]
    /\ session = [s \in Ids |-> NoSession]
    /\ proof = [c \in Proofs |-> NoProof]
    /\ counter = [t \in Teachers |-> IF t \in came THEN 0 ELSE None]
    /\ codes = [t \in Teachers |-> [set |-> IF t \in came THEN 1 ELSE 0, spent |-> {}]]
    /\ req = [r \in Requests |-> Idle]
    /\ tab = [b \in Tabs |-> [cookie |-> NoCookie, keeps |-> TRUE]]

Active(t) == standing[t] = "active"
Granted(t) == Active(t) /\ grant[t] = "active"
(* authorized_staff_role, and the condition of every mint but the invite's *)
Authorized(t) == Granted(t) /\ account[t] # None

Open(s) == session[s].state \in {"live", "idle"}
Usable(s) == session[s].state = "live" /\ Active(session[s].teacher)
(* require_session *)
MayEnter(s) == Usable(s) /\ Authorized(session[s].teacher)

(* The sessions after those in S are over. *)
Revoked(S) == [s \in Ids |-> IF s \in S THEN [session[s] EXCEPT !.state = "over"] ELSE session[s]]
SessionsOf(t) == {s \in Ids : session[s].teacher = t}

(* Definitions named X_<fault> are seeded faults: each is X with one mistake, *)
(* kept to show that the property named in PROJECT.json notices it.          *)
Minted(s, t, door, by, g) ==
  /\ session[s].state = "none"
  /\ \A u \in Ids : session[u].state = "none" => s <= u
  /\ session' = [session EXCEPT ![s] =
       [teacher |-> t, door |-> door, by |-> by, account |-> g,
        state |-> "live", secret |-> 1]]
Mint(t, door, by, g) == \E s \in Ids : Minted(s, t, door, by, g)
-----------------------------------------------------------------------------
(* The operator. *)

CreateTeacher(t) ==
  /\ standing[t] = "absent"
  /\ standing' = [standing EXCEPT ![t] = "active"]
  /\ UNCHANGED <<grant, account, reserved, bound, doors, session, req, tab>>

GrantRole(t) ==
  /\ Active(t)
  /\ grant' = [grant EXCEPT ![t] = "active"]
  /\ UNCHANGED <<standing, account, reserved, bound, doors, session, req, tab>>

(* revoke_staff_role: with the grant go the sessions and an unused reservation. *)
RevokedReservation(t) ==
  IF t \in bound THEN reserved ELSE [reserved EXCEPT ![t] = None]

RevokeRole(t) ==
  /\ grant[t] = "active"
  /\ grant' = [grant EXCEPT ![t] = "revoked"]
  /\ session' = Revoked(SessionsOf(t))
  /\ reserved' = RevokedReservation(t)
  /\ UNCHANGED <<standing, account, bound, doors, req, tab>>

(* An email is reserved once, a teacher has one reservation (UNIQUE, both). *)
MayReserve(t, g) == reserved[t] = None /\ \A u \in Teachers : reserved[u] # g

(* preauthorize_google_email, or create_preauthorized_google_teacher *)
Preauthorize(t, g) ==
  /\ standing[t] \in {"absent", "active"}
  /\ account[t] = None
  /\ MayReserve(t, g)
  /\ standing' = [standing EXCEPT ![t] = "active"]
  /\ grant' = [grant EXCEPT ![t] = "active"]
  /\ reserved' = [reserved EXCEPT ![t] = g]
  /\ UNCHANGED <<account, bound, doors, session, req, tab>>

CreateInvite(v, t) ==
  /\ invite[v].state = "none"
  /\ Active(t)
  /\ invite' = [invite EXCEPT ![v] = [state |-> "open", teacher |-> t]]
  /\ UNCHANGED <<people, proof, counter, codes, session, req, tab>>

(* revoke_invite, or its time limit: a redeemed invite is left alone. *)
CloseInvite(v) ==
  /\ invite[v].state = "open"
  /\ invite' = [invite EXCEPT ![v].state = "closed"]
  /\ UNCHANGED <<people, proof, counter, codes, session, req, tab>>

(* deactivate_teacher: for good, with its open invites and its sessions. *)
Deactivate(t) ==
  /\ Active(t)
  /\ standing' = [standing EXCEPT ![t] = "deactivated"]
  /\ invite' = [v \in Invites |->
                  IF invite[v].teacher = t /\ invite[v].state = "open"
                    THEN [invite[v] EXCEPT !.state = "closed"] ELSE invite[v]]
  /\ session' = Revoked(SessionsOf(t))
  /\ UNCHANGED <<grant, account, reserved, bound, proof, counter, codes, req, tab>>

(* revoke_session, revoke_teacher_sessions for one of them, or logout_session *)
RevokeSession(s) ==
  /\ Open(s)
  /\ session' = Revoked({s})
  /\ UNCHANGED <<people, doors, req, tab>>

(* Seven days after the redemption, or a day without use: for good, unless *)
(* it is an invite's, which a second redemption can wake.                  *)
TimePasses(s) ==
  /\ Open(s)
  /\ \/ session' = Revoked({s})
     \/ session[s].door = "invite" /\ session' = [session EXCEPT ![s].state = "idle"]
  /\ UNCHANGED <<people, doors, req, tab>>
-----------------------------------------------------------------------------
(* The invite. *)

SessionOf(v) == {s \in Ids : session[s].door = "invite" /\ session[s].by.invite = v}

(* The tab reads the answer: it has the cookie and drops its nonce. Or it is *)
(* lost, and the tab still has its nonce.                                    *)
Answered(b, id, secret) ==
  \/ tab' = [tab EXCEPT ![b] = [cookie |-> [id |-> id, secret |-> secret], keeps |-> FALSE]]
  \/ UNCHANGED tab

Redeem(v, b) ==
  /\ tab[b].keeps
  /\ invite[v].state = "open"
  /\ Granted(invite[v].teacher)
  /\ invite' = [invite EXCEPT ![v].state = "redeemed"]
  /\ \E s \in Ids :
       /\ Minted(s, invite[v].teacher, "invite", [invite |-> v, tab |-> b], None)
       /\ Answered(b, s, 1)
  /\ UNCHANGED <<people, proof, counter, codes, req>>

(* Only the tab whose nonce redeemed the invite; not after a revocation or *)
(* the absolute limit. The idle limit is not compared.                     *)
MayReissue_AnyTab(v, b, s) ==
  /\ invite[v].state = "redeemed"
  /\ Granted(invite[v].teacher)
  /\ Open(s)
MayReissue(v, b, s) ==
  /\ invite[v].state = "redeemed"
  /\ Granted(invite[v].teacher)
  /\ session[s].by.tab = b
  /\ Open(s)

(* A second redemption gives the session a new secret and a new idle limit. *)
Reissue(v, b) ==
  /\ tab[b].keeps
  /\ \E s \in SessionOf(v) :
       /\ MayReissue(v, b, s)
       /\ session[s].secret < MaxReissues
       /\ session' = [session EXCEPT ![s] =
            [teacher |-> @.teacher, door |-> @.door, by |-> @.by, account |-> @.account,
             state |-> "live", secret |-> @.secret + 1]]
       /\ Answered(b, s, session[s].secret + 1)
  /\ UNCHANGED <<people, doors, req>>
-----------------------------------------------------------------------------
(* Google. *)

Goto(r, label) == req' = [req EXCEPT ![r].at = label]

(* A new row of google_login_nonces or of webauthn_challenges. *)
Issue(c, kind, s) ==
  proof' = [proof EXCEPT ![c] = [kind |-> kind, session |-> s, used |-> FALSE]]

(* google_sign_in_options: no usable session, or a usable one that may link. *)
IssueNonce(c, s) ==
  /\ proof[c].kind = "none"
  /\ \/ s = 0 /\ Issue(c, "signin", s)
     \/ /\ s # 0
        /\ Usable(s)
        /\ session[s].door = "invite" \/ Authorized(session[s].teacher)
        /\ Granted(session[s].teacher)
        /\ account[session[s].teacher] = None
        /\ Issue(c, "link", s)
  /\ UNCHANGED <<people, invite, counter, codes, session, req, tab>>

Unused(c, kind) == proof[c].kind = kind /\ ~proof[c].used
Use_Unmarked(c) == proof' = proof
Use(c) == proof' = [proof EXCEPT ![c].used = TRUE]

(* The ten minutes of a nonce or the hour of a challenge are over. *)
ExpireProof(c) ==
  /\ proof[c].kind # "none" /\ ~proof[c].used
  /\ proof' = [proof EXCEPT ![c].used = TRUE]
  /\ UNCHANGED <<people, invite, counter, codes, session, req, tab>>

(* consume_google_login_nonce, before anything else is believed. *)
GoogleComplete(r, c, g) ==
  /\ req[r].at = "idle"
  /\ \E kind \in {"signin", "link"} :
       /\ Unused(c, kind)
       /\ req' = [req EXCEPT ![r] = Asking(kind, c, None, g, 0)]
  /\ Use(c)
  /\ UNCHANGED <<people, invite, counter, codes, session, tab>>

(* link_google_identity: the session is still usable and granted; neither *)
(* side has another partner; a link that exists already is fine.          *)
MayLink_AnySession(t, g) ==
  /\ Granted(t)
  /\ \A u \in Teachers : account[u] = g => u = t
MayLink(t, g) ==
  /\ Granted(t)
  /\ \A u \in Teachers : account[u] = g => u = t
  /\ account[t] \in {None, g}

Link(r) ==
  LET s == proof[req[r].proof].session
      t == session[s].teacher
  IN  /\ req[r].at = "link"
      /\ Usable(s)
      /\ MayLink(t, req[r].account)
      /\ account' = [account EXCEPT ![t] = IF @ = None THEN req[r].account ELSE @]
      /\ req' = [req EXCEPT ![r] = Asking("mint", @.proof, t, @.account, 0)]
      /\ UNCHANGED <<standing, grant, reserved, bound, doors, session, tab>>

(* authenticate_google_identity; without a match, the next door. *)
Authenticate(r) ==
  /\ req[r].at = "signin"
  /\ \/ \E t \in Teachers :
          /\ account[t] = req[r].account
          /\ Granted(t)
          /\ req' = [req EXCEPT ![r] = Asking("mint", @.proof, t, @.account, 0)]
     \/ /\ \A t \in Teachers : account[t] = req[r].account => ~Granted(t)
        /\ Goto(r, IF req[r].account \in Allowed THEN "admit" ELSE "bind")
  /\ UNCHANGED <<people, doors, session, tab>>

(* admit_allowlisted_google_identity: the configured teacher or a new one; *)
(* a first grant is made, a revoked one is not revived.                    *)
Admit(r, t) ==
  LET g == req[r].account
  IN  /\ req[r].at = "admit"
      /\ IF AllowedAs = None THEN standing[t] = "absent" ELSE t = AllowedAs /\ Active(t)
      /\ \A u \in Teachers : account[u] = g => u = t
      /\ account[t] \in {None, g}
      /\ grant[t] # "revoked"
      /\ standing' = [standing EXCEPT ![t] = "active"]
      /\ account' = [account EXCEPT ![t] = g]
      /\ grant' = [grant EXCEPT ![t] = "active"]
      /\ req' = [req EXCEPT ![r] = Asking("mint", @.proof, t, g, 0)]
      /\ UNCHANGED <<reserved, bound, doors, session, tab>>

(* bind_google_email_preauthorization: reservation, identity and session in *)
(* one transaction.                                                         *)
Bind(r, t) ==
  LET g == req[r].account
  IN  /\ req[r].at = "bind"
      /\ \A u \in Teachers : account[u] # g
      /\ reserved[t] = g
      /\ t \notin bound
      /\ Granted(t)
      /\ account[t] = None
      /\ bound' = bound \cup {t}
      /\ account' = [account EXCEPT ![t] = g]
      /\ Mint(t, "google", [proof |-> req[r].proof], g)
      /\ req' = [req EXCEPT ![r] = Idle]
      /\ UNCHANGED <<standing, grant, reserved, doors, tab>>

(* mint_reentry_session asks again: the grant may be gone since. *)
MayMint_Unchecked(t) == Active(t)
MayMint(t) == Authorized(t)

MintGoogle(r) ==
  /\ req[r].at = "mint"
  /\ MayMint(req[r].teacher)
  /\ Mint(req[r].teacher, "google", [proof |-> req[r].proof], req[r].account)
  /\ req' = [req EXCEPT ![r] = Idle]
  /\ UNCHANGED <<people, doors, tab>>

(* A step is refused, the store fails, or the process dies. *)
GiveUp(r) ==
  /\ req[r].at # "idle"
  /\ req' = [req EXCEPT ![r] = Idle]
  /\ UNCHANGED <<people, doors, session, tab>>
-----------------------------------------------------------------------------
(* Passkeys and recovery codes. *)

(* Enrollment is for a session that came through Google; an assertion has *)
(* no session yet.                                                        *)
IssueChallenge(c, s) ==
  /\ proof[c].kind = "none"
  /\ \/ s = 0 /\ Issue(c, "assertion", s)
     \/ /\ s # 0
        /\ MayEnter(s)
        /\ session[s].door = "google"
        /\ Issue(c, "enrollment", s)
  /\ UNCHANGED <<people, invite, counter, codes, session, req, tab>>

Enroll(r, c) ==
  /\ req[r].at = "idle"
  /\ Unused(c, "enrollment")
  /\ MayEnter(proof[c].session)
  /\ Use(c)
  /\ req' = [req EXCEPT ![r] =
       Asking("credential", None, session[proof[c].session].teacher, None, 0)]
  /\ UNCHANGED <<people, invite, counter, codes, session, tab>>

AddCredential(r) ==
  /\ req[r].at = "credential"
  /\ Active(req[r].teacher)
  /\ counter[req[r].teacher] = None
  /\ counter' = [counter EXCEPT ![req[r].teacher] = 0]
  /\ Goto(r, "codes")
  /\ UNCHANGED <<people, invite, proof, codes, session, tab>>

(* The route for a signed-in teacher who wants new codes. *)
AskForCodes(r, s) ==
  /\ req[r].at = "idle"
  /\ MayEnter(s)
  /\ req' = [req EXCEPT ![r] = Asking("codes", None, session[s].teacher, None, 0)]
  /\ UNCHANGED <<people, doors, session, tab>>

(* regenerate_recovery_codes: the unused codes of older sets are superseded. *)
RegenerateCodes(r) ==
  LET t == req[r].teacher
  IN  /\ req[r].at = "codes"
      /\ codes[t].set < MaxSets
      /\ codes' = [codes EXCEPT ![t].set = @ + 1]
      /\ req' = [req EXCEPT ![r] = Idle]
      /\ UNCHANGED <<people, invite, proof, counter, session, tab>>

(* A teacher holds a code of set k; a set stands for its ten codes. *)
MayRedeemCode(t, k) == k = codes[t].set /\ k > 0 /\ k \notin codes[t].spent

RedeemCode(t, k) ==
  /\ MayRedeemCode(t, k)
  /\ MayMint(t)
  /\ codes' = [codes EXCEPT ![t].spent = @ \cup {k}]
  /\ Mint(t, "recovery", [code |-> <<t, k>>], account[t])
  /\ UNCHANGED <<people, invite, proof, counter, req, tab>>

(* The signature is verified against the counter read here: it is higher, *)
(* or the authenticator does not count at all. The challenge is checked   *)
(* when it is consumed: one that is spent already would change nothing.   *)
Advances(n, seen) == n > seen \/ (n = 0 /\ seen = 0)

LookUpCredential(r, c, t, n) ==
  /\ req[r].at = "idle"
  /\ Unused(c, "assertion")
  /\ counter[t] # None
  /\ Active(t)
  /\ Advances(n, counter[t])
  /\ req' = [req EXCEPT ![r] = Asking("challenge", c, t, None, n)]
  /\ UNCHANGED <<people, doors, session, tab>>

ConsumeChallenge(r) ==
  /\ req[r].at = "challenge"
  /\ Unused(req[r].proof, "assertion")
  /\ Use(req[r].proof)
  /\ Goto(r, "asserted")
  /\ UNCHANGED <<people, invite, counter, codes, session, tab>>

(* record_webauthn_use_and_mint_session compares the counter once more. *)
MintPasskey(r) ==
  LET t == req[r].teacher
  IN  /\ req[r].at = "asserted"
      /\ MayMint(t)
      /\ Advances(req[r].count, counter[t])
      /\ counter' = [counter EXCEPT ![t] = req[r].count]
      /\ Mint(t, "passkey", [proof |-> req[r].proof], account[t])
      /\ req' = [req EXCEPT ![r] = Idle]
      /\ UNCHANGED <<people, invite, proof, codes, tab>>
-----------------------------------------------------------------------------
Operator ==
  \/ \E t \in Teachers :
       \/ CreateTeacher(t)
       \/ GrantRole(t)
       \/ RevokeRole(t)
       \/ Deactivate(t)
       \/ \E g \in Accounts : Preauthorize(t, g)
       \/ \E v \in Invites : CreateInvite(v, t)
  \/ \E v \in Invites : CloseInvite(v)
  \/ \E s \in Ids : RevokeSession(s)

Clock ==
  \/ \E s \in Ids : TimePasses(s)
  \/ \E c \in Proofs : ExpireProof(c)

Browser ==
  \/ \E v \in Invites, b \in Tabs : Redeem(v, b) \/ Reissue(v, b)
  \/ \E c \in Proofs, s \in {0} \cup Ids : IssueNonce(c, s) \/ IssueChallenge(c, s)
  \/ \E t \in Teachers, k \in 1..MaxSets : RedeemCode(t, k)

Server(r) ==
  \/ \E c \in Proofs :
       \/ \E g \in Accounts : GoogleComplete(r, c, g)
       \/ Enroll(r, c)
       \/ \E t \in Teachers, n \in 0..MaxCount : LookUpCredential(r, c, t, n)
  \/ \E s \in Ids : AskForCodes(r, s)
  \/ Link(r) \/ Authenticate(r) \/ MintGoogle(r)
  \/ \E t \in Teachers : Admit(r, t) \/ Bind(r, t)
  \/ AddCredential(r) \/ RegenerateCodes(r)
  \/ ConsumeChallenge(r) \/ MintPasskey(r)
  \/ GiveUp(r)

Next ==
  \/ Operator
  \/ Clock
  \/ Browser
  \/ \E r \in Requests : Server(r)

Spec == Init /\ [][Next]_vars
-----------------------------------------------------------------------------
(* Each variable has its type, and one account is one teacher's. *)
TypeOK ==
  /\ standing \in [Teachers -> {"absent", "active", "deactivated"}]
  /\ grant \in [Teachers -> {"none", "active", "revoked"}]
  /\ account \in [Teachers -> Accounts \cup {None}]
  /\ reserved \in [Teachers -> Accounts \cup {None}]
  /\ bound \subseteq Teachers
  /\ \A v \in Invites : invite[v].state \in {"none", "open", "redeemed", "closed"}
  /\ \A s \in Ids : session[s].state \in {"none", "live", "idle", "over"}
  /\ \A c \in Proofs :
       proof[c].kind \in {"none", "signin", "link", "enrollment", "assertion"}
  /\ counter \in [Teachers -> 0..MaxCount \cup {None}]
  /\ \A t \in Teachers : codes[t].set \in 0..MaxSets /\ codes[t].spent \subseteq 1..codes[t].set
  /\ \A r \in Requests : req[r].at = "idle" => req[r] = Idle
  /\ \A t, u \in Teachers : account[t] = account[u] /\ account[t] # None => t = u

(* Revoking a grant or deactivating a teacher ends everything that was       *)
(* opened under it, and no request that was already under way opens anything *)
(* afterwards: an open session always belongs to a granted teacher, linked   *)
(* to Google unless it came from an invite; an unused reservation never      *)
(* survives its grant, an open invite never its teacher (store.py 738-749).  *)
NothingOutlivesARevocation ==
  /\ \A s \in Ids : Open(s) =>
       /\ Granted(session[s].teacher)
       /\ session[s].door # "invite" => account[session[s].teacher] # None
  /\ \A t \in Teachers : reserved[t] # None /\ t \notin bound => grant[t] = "active"
  /\ \A v \in Invites : invite[v].state = "open" => Active(invite[v].teacher)

(* A proof opens one session and no more, whatever is retried or sent twice: *)
(* an invite, a Google nonce, an assertion challenge, a recovery code.       *)
OneSessionPerProof ==
  \A s, u \in Ids :
    /\ session[s].door # "none" /\ session[s].door = session[u].door
    /\ IF session[s].door = "invite" THEN session[s].by.invite = session[u].by.invite
       ELSE session[s].by = session[u].by
    => s = u

(* Between the transactions of a Google request nobody is exchanged: a       *)
(* session that came through Google is that of the teacher to whom the       *)
(* posted account is linked.                                                 *)
SessionsMatchTheirAccount ==
  \A s \in Ids : session[s].door = "google" =>
    account[session[s].teacher] = session[s].account

(* The answer to a redemption may be lost. While the session is open and its *)
(* teacher granted, the tab that redeemed has the working secret, or still   *)
(* has its nonce and the next redemption gives it one                        *)
(* (teacher-access-contract.md 49-51), unless it has entered by another      *)
(* invite in the meantime and dropped its nonce with that answer.            *)
LostAnswersAreRecoverable ==
  \A s \in Ids : session[s].door = "invite" /\ Open(s) =>
    LET b == session[s].by.tab
    IN  \/ tab[b].cookie = [id |-> s, secret |-> session[s].secret]
        \/ tab[b].keeps /\ MayReissue(session[s].by.invite, b, s)
        \/ tab[b].cookie.id \notin {0, s}
=============================================================================
