------------------------- MODULE StaffAccessProofs -------------------------
(***************************************************************************)
(* The properties of StaffAccess for all sets of teachers, accounts,       *)
(* invites, tabs, proofs and requests, and all values of the bounds.       *)
(***************************************************************************)
EXTENDS StaffAccess, TLAPS

ByInvite == [invite: Invites, tab: Tabs]
ByProof == [proof: Proofs]
ByCode == [code: Teachers \X (1..MaxSets)]
Sessions ==
  [teacher: Teachers \cup {None},
   door: {"none", "invite", "google", "passkey", "recovery"},
   by: {None} \cup ByInvite \cup ByProof \cup ByCode,
   account: Accounts \cup {None},
   state: {"none", "live", "idle", "over"},
   secret: Nat]
InviteRows == [state: {"none", "open", "redeemed", "closed"}, teacher: Teachers \cup {None}]
ProofRows ==
  [kind: {"none", "signin", "link", "enrollment", "assertion"},
   session: {0} \cup Ids, used: BOOLEAN]
CodeRows == [set: 0..MaxSets, spent: SUBSET (1..MaxSets)]
Labels == {"idle", "signin", "link", "admit", "bind", "mint", "credential", "codes",
           "challenge", "asserted"}
Asked ==
  [at: Labels, proof: Proofs \cup {None}, teacher: Teachers \cup {None},
   account: Accounts \cup {None}, count: 0..MaxCount]
TabStates == [cookie: [id: {0} \cup Ids, secret: Nat], keeps: BOOLEAN]

PeopleTypes ==
  /\ standing \in [Teachers -> {"absent", "active", "deactivated"}]
  /\ grant \in [Teachers -> {"none", "active", "revoked"}]
  /\ account \in [Teachers -> Accounts \cup {None}]
  /\ reserved \in [Teachers -> Accounts \cup {None}]
  /\ bound \subseteq Teachers
DoorTypes ==
  /\ invite \in [Invites -> InviteRows]
  /\ counter \in [Teachers -> 0..MaxCount \cup {None}]
  /\ codes \in [Teachers -> CodeRows]
ProofTypes == proof \in [Proofs -> ProofRows]
SessionTypes == session \in [Ids -> Sessions]
ReqTypes == req \in [Requests -> Asked]
TabTypes == tab \in [Tabs -> TabStates]

(* What a door leaves behind it in the session it opened. *)
Fits(x) ==
  /\ x.state = "none" => x = NoSession
  /\ x.door = "none" => x.state = "none"
  /\ x.state # "none" => x.teacher \in Teachers
  /\ x.door = "invite" => x.by \in ByInvite
  /\ x.door \in {"google", "passkey"} => x.by \in ByProof
  /\ x.door = "recovery" => x.by \in ByCode
  /\ x.door = "google" => x.account \in Accounts
DoorsFit == \A s \in Ids : Fits(session[s])

(* An invite that is not new has a teacher; an enrollment and a link name *)
(* a session that was minted.                                             *)
RowsFit ==
  /\ \A v \in Invites : invite[v].state # "none" => invite[v].teacher \in Teachers
  /\ \A c \in Proofs :
       /\ proof[c].kind \in {"link", "enrollment"} =>
            proof[c].session \in Ids /\ session[proof[c].session].state # "none"
       /\ proof[c].used => proof[c].kind # "none"
  /\ \A t \in Teachers : codes[t].spent \subseteq 1..codes[t].set

GoogleLabels == {"signin", "link", "admit", "bind", "mint"}
(* What a request has read when it stands after one of its transactions; *)
(* rows is the table of the proofs.                                      *)
RequestFits(x, rows) ==
  /\ x.at = "idle" => x = Idle
  /\ x.at \in GoogleLabels => x.proof \in Proofs /\ x.account \in Accounts
  /\ x.at = "link" => rows[x.proof].kind = "link"
  /\ x.at \in {"mint", "credential", "codes", "challenge", "asserted"} => x.teacher \in Teachers
  /\ x.at \in {"challenge", "asserted"} => x.proof \in Proofs
RequestsFit == \A r \in Requests : RequestFits(req[r], proof)

OneTeacherPerAccount ==
  \A t, u \in Teachers : account[t] = account[u] /\ account[t] # None => t = u

Types ==
  /\ PeopleTypes
  /\ DoorTypes
  /\ ProofTypes
  /\ SessionTypes
  /\ ReqTypes
  /\ TabTypes
Shapes ==
  /\ DoorsFit
  /\ RowsFit
  /\ RequestsFit
-----------------------------------------------------------------------------
(* Who writes which table. *)

LEMMA PeopleSteps ==
  ASSUME [Next]_vars
  PROVE  \/ UNCHANGED people
         \/ \E t \in Teachers :
              \/ CreateTeacher(t) \/ GrantRole(t) \/ RevokeRole(t) \/ Deactivate(t)
              \/ \E g \in Accounts : Preauthorize(t, g)
         \/ \E r \in Requests :
              Link(r) \/ \E t \in Teachers : Admit(r, t) \/ Bind(r, t)
<1>1. CASE UNCHANGED vars
  BY <1>1 DEF vars
<1>2. CASE Operator
  BY <1>2 DEF Operator, people, CreateInvite, CloseInvite, RevokeSession
<1>3. CASE Clock
  BY <1>3 DEF Clock, people, TimePasses, ExpireProof
<1>4. CASE Browser
  BY <1>4 DEF Browser, people, Redeem, Reissue, IssueNonce, IssueChallenge, RedeemCode
<1>5. ASSUME NEW r \in Requests, Server(r)
      PROVE  UNCHANGED people \/ Link(r) \/ \E t \in Teachers : Admit(r, t) \/ Bind(r, t)
  BY <1>5 DEF Server, people, GoogleComplete, Enroll, LookUpCredential, AskForCodes,
     Authenticate, MintGoogle, AddCredential, RegenerateCodes, ConsumeChallenge,
     MintPasskey, GiveUp
<1> QED BY <1>1, <1>2, <1>3, <1>4, <1>5 DEF Next

LEMMA InviteSteps ==
  ASSUME [Next]_vars
  PROVE  \/ UNCHANGED invite
         \/ \E t \in Teachers : Deactivate(t) \/ \E v \in Invites : CreateInvite(v, t)
         \/ \E v \in Invites : CloseInvite(v) \/ \E b \in Tabs : Redeem(v, b)
<1>1. CASE UNCHANGED vars
  BY <1>1 DEF vars, doors
<1>2. CASE Operator
  BY <1>2 DEF Operator, doors, CreateTeacher, GrantRole, RevokeRole, Preauthorize,
     RevokeSession
<1>3. CASE Clock
  BY <1>3 DEF Clock, doors, TimePasses, ExpireProof
<1>4. CASE Browser
  BY <1>4 DEF Browser, doors, Reissue, IssueNonce, IssueChallenge, RedeemCode
<1>5. ASSUME NEW r \in Requests, Server(r)
      PROVE  UNCHANGED invite
  BY <1>5 DEF Server, doors, GoogleComplete, Enroll, LookUpCredential, AskForCodes,
     Link, Admit, Bind, Authenticate, MintGoogle, AddCredential, RegenerateCodes,
     ConsumeChallenge, MintPasskey, GiveUp
<1> QED BY <1>1, <1>2, <1>3, <1>4, <1>5 DEF Next

LEMMA SessionSteps ==
  ASSUME [Next]_vars
  PROVE  \/ UNCHANGED session
         \/ \E t \in Teachers :
              RevokeRole(t) \/ Deactivate(t) \/ \E k \in 1..MaxSets : RedeemCode(t, k)
         \/ \E s \in Ids : RevokeSession(s) \/ TimePasses(s)
         \/ \E v \in Invites, b \in Tabs : Redeem(v, b) \/ Reissue(v, b)
         \/ \E r \in Requests :
              MintGoogle(r) \/ MintPasskey(r) \/ \E t \in Teachers : Bind(r, t)
<1>1. CASE UNCHANGED vars
  BY <1>1 DEF vars
<1>2. CASE Operator
  BY <1>2 DEF Operator, CreateTeacher, GrantRole, Preauthorize, CreateInvite, CloseInvite
<1>3. CASE Clock
  BY <1>3 DEF Clock, ExpireProof
<1>4. CASE Browser
  BY <1>4 DEF Browser, IssueNonce, IssueChallenge
<1>5. ASSUME NEW r \in Requests, Server(r)
      PROVE  \/ UNCHANGED session
             \/ MintGoogle(r) \/ MintPasskey(r) \/ \E t \in Teachers : Bind(r, t)
  BY <1>5 DEF Server, GoogleComplete, Enroll, LookUpCredential, AskForCodes, Link, Admit,
     Authenticate, AddCredential, RegenerateCodes, ConsumeChallenge, GiveUp
<1> QED BY <1>1, <1>2, <1>3, <1>4, <1>5 DEF Next

LEMMA ProofSteps ==
  ASSUME [Next]_vars
  PROVE  \/ UNCHANGED proof
         \/ \E c \in Proofs, s \in {0} \cup Ids : IssueNonce(c, s) \/ IssueChallenge(c, s)
         \/ \E c \in Proofs : ExpireProof(c)
         \/ \E r \in Requests :
              \/ ConsumeChallenge(r)
              \/ \E c \in Proofs : Enroll(r, c) \/ \E g \in Accounts : GoogleComplete(r, c, g)
<1>1. CASE UNCHANGED vars
  BY <1>1 DEF vars, doors
<1>2. CASE Operator
  BY <1>2 DEF Operator, doors, CreateTeacher, GrantRole, RevokeRole, Preauthorize,
     CreateInvite, CloseInvite, Deactivate, RevokeSession
<1>3. CASE Clock
  BY <1>3 DEF Clock, doors, TimePasses
<1>4. CASE Browser
  BY <1>4 DEF Browser, doors, Redeem, Reissue, RedeemCode
<1>5. ASSUME NEW r \in Requests, Server(r)
      PROVE  \/ UNCHANGED proof
             \/ ConsumeChallenge(r)
             \/ \E c \in Proofs : Enroll(r, c) \/ \E g \in Accounts : GoogleComplete(r, c, g)
  BY <1>5 DEF Server, doors, LookUpCredential, AskForCodes, Link, Admit, Bind,
     Authenticate, MintGoogle, AddCredential, RegenerateCodes, MintPasskey, GiveUp
<1> QED BY <1>1, <1>2, <1>3, <1>4, <1>5 DEF Next

LEMMA KeySteps ==
  ASSUME [Next]_vars
  PROVE  \/ UNCHANGED <<counter, codes>>
         \/ \E t \in Teachers, k \in 1..MaxSets : RedeemCode(t, k)
         \/ \E r \in Requests : AddCredential(r) \/ RegenerateCodes(r) \/ MintPasskey(r)
<1>1. CASE UNCHANGED vars
  BY <1>1 DEF vars, doors
<1>2. CASE Operator
  BY <1>2 DEF Operator, doors, CreateTeacher, GrantRole, RevokeRole, Preauthorize,
     CreateInvite, CloseInvite, Deactivate, RevokeSession
<1>3. CASE Clock
  BY <1>3 DEF Clock, doors, TimePasses, ExpireProof
<1>4. CASE Browser
  BY <1>4 DEF Browser, doors, Redeem, Reissue, IssueNonce, IssueChallenge
<1>5. ASSUME NEW r \in Requests, Server(r)
      PROVE  \/ UNCHANGED <<counter, codes>>
             \/ AddCredential(r) \/ RegenerateCodes(r) \/ MintPasskey(r)
  BY <1>5 DEF Server, doors, GoogleComplete, Enroll, LookUpCredential, AskForCodes, Link,
     Admit, Bind, Authenticate, MintGoogle, ConsumeChallenge, GiveUp
<1> QED BY <1>1, <1>2, <1>3, <1>4, <1>5 DEF Next

LEMMA ReqSteps ==
  ASSUME [Next]_vars
  PROVE  UNCHANGED req \/ \E r \in Requests : Server(r)
<1>1. CASE UNCHANGED vars
  BY <1>1 DEF vars
<1>2. CASE Operator
  BY <1>2 DEF Operator, CreateTeacher, GrantRole, RevokeRole, Preauthorize,
     CreateInvite, CloseInvite, Deactivate, RevokeSession
<1>3. CASE Clock
  BY <1>3 DEF Clock, TimePasses, ExpireProof
<1>4. CASE Browser
  BY <1>4 DEF Browser, Redeem, Reissue, IssueNonce, IssueChallenge, RedeemCode
<1> QED BY <1>1, <1>2, <1>3, <1>4 DEF Next

LEMMA TabSteps ==
  ASSUME [Next]_vars
  PROVE  UNCHANGED tab \/ \E v \in Invites, b \in Tabs : Redeem(v, b) \/ Reissue(v, b)
<1>1. CASE UNCHANGED vars
  BY <1>1 DEF vars
<1>2. CASE Operator
  BY <1>2 DEF Operator, CreateTeacher, GrantRole, RevokeRole, Preauthorize,
     CreateInvite, CloseInvite, Deactivate, RevokeSession
<1>3. CASE Clock
  BY <1>3 DEF Clock, TimePasses, ExpireProof
<1>4. CASE Browser
  BY <1>4 DEF Browser, IssueNonce, IssueChallenge, RedeemCode
<1>5. ASSUME NEW r \in Requests, Server(r)
      PROVE  UNCHANGED tab
  BY <1>5 DEF Server, GoogleComplete, Enroll, LookUpCredential, AskForCodes, Link, Admit,
     Bind, Authenticate, MintGoogle, AddCredential, RegenerateCodes, ConsumeChallenge,
     MintPasskey, GiveUp
<1> QED BY <1>1, <1>2, <1>3, <1>4, <1>5 DEF Next
-----------------------------------------------------------------------------
(* A session keeps its teacher, its door and its proof, and one that is over *)
(* is over.                                                                  *)
LEMMA OldSessions ==
  ASSUME SessionTypes, DoorsFit, [Next]_vars, NEW s \in Ids, session[s].state # "none"
  PROVE  /\ session'[s].teacher = session[s].teacher
         /\ session'[s].door = session[s].door
         /\ session'[s].by = session[s].by
         /\ session'[s].account = session[s].account
         /\ session'[s].state # "none"
         /\ session'[s].state \in {"live", "idle"} => Open(s)
         /\ session'[s] \in Sessions
<1> USE DEF SessionTypes, Sessions, Open
<1>1. CASE UNCHANGED session
  BY <1>1
<1>2. ASSUME NEW S \in SUBSET Ids, session' = Revoked(S)
      PROVE  /\ session'[s].teacher = session[s].teacher
             /\ session'[s].door = session[s].door
             /\ session'[s].by = session[s].by
             /\ session'[s].account = session[s].account
             /\ session'[s].state # "none"
             /\ session'[s].state \in {"live", "idle"} => Open(s)
             /\ session'[s] \in Sessions
  BY <1>2 DEF Revoked
<1>3. ASSUME NEW t \in Teachers, RevokeRole(t) \/ Deactivate(t)
      PROVE  \E S \in SUBSET Ids : session' = Revoked(S)
  BY <1>3 DEF RevokeRole, Deactivate, SessionsOf
<1>4. ASSUME NEW u \in Ids, RevokeSession(u)
      PROVE  \E S \in SUBSET Ids : session' = Revoked(S)
  BY <1>4 DEF RevokeSession
<1>5. ASSUME NEW u \in Ids, TimePasses(u)
      PROVE  \/ \E S \in SUBSET Ids : session' = Revoked(S)
             \/ Open(u) /\ session' = [session EXCEPT ![u].state = "idle"]
  BY <1>5 DEF TimePasses
<1>6. ASSUME NEW v \in Invites, NEW b \in Tabs, Reissue(v, b)
      PROVE  \E u \in Ids : Open(u) /\ session' = [session EXCEPT ![u] =
               [teacher |-> @.teacher, door |-> @.door, by |-> @.by, account |-> @.account,
                state |-> "live", secret |-> @.secret + 1]]
  BY <1>6 DEF Reissue, SessionOf, MayReissue
<1>7. ASSUME NEW u \in Ids, NEW t, NEW door, NEW by, NEW g, Minted(u, t, door, by, g)
      PROVE  session'[s] = session[s]
  BY <1>7 DEF Minted
<1>8. ASSUME NEW v \in Invites, NEW b \in Tabs, Redeem(v, b)
      PROVE  session'[s] = session[s]
  BY <1>7, <1>8 DEF Redeem
<1>9. ASSUME NEW r \in Requests, MintGoogle(r) \/ MintPasskey(r) \/ \E t \in Teachers : Bind(r, t)
      PROVE  session'[s] = session[s]
  BY <1>7, <1>9 DEF MintGoogle, MintPasskey, Bind, Mint
<1>10. ASSUME NEW t \in Teachers, NEW k \in 1..MaxSets, RedeemCode(t, k)
       PROVE  session'[s] = session[s]
  BY <1>7, <1>10 DEF RedeemCode, Mint
<1>11. CASE \E u \in Ids : Open(u) /\ session' = [session EXCEPT ![u].state = "idle"]
  BY <1>11
<1>12. CASE \E u \in Ids : Open(u) /\ session' = [session EXCEPT ![u] =
              [teacher |-> @.teacher, door |-> @.door, by |-> @.by, account |-> @.account,
               state |-> "live", secret |-> @.secret + 1]]
  BY <1>12
<1> HIDE DEF SessionTypes, Sessions, Open
<1>13. CASE session'[s] = session[s]
  BY <1>13 DEF SessionTypes, Sessions, Open
<1> QED
  BY <1>1, <1>2, <1>3, <1>4, <1>5, <1>6, <1>8, <1>9, <1>10, <1>11, <1>12, <1>13, SessionSteps

NewSession(t, door, by, g) ==
  [teacher |-> t, door |-> door, by |-> by, account |-> g, state |-> "live", secret |-> 1]

(* The doors through which a session can come to exist; the others stay as *)
(* they are.                                                               *)
LEMMA NewSessions ==
  ASSUME SessionTypes, DoorsFit, [Next]_vars, NEW s \in Ids,
         session[s].state = "none", session'[s] # session[s]
  PROVE  /\ \A u \in Ids \ {s} : session'[u] = session[u]
         /\ \/ \E v \in Invites, b \in Tabs :
                 /\ Redeem(v, b)
                 /\ session'[s] =
                      NewSession(invite[v].teacher, "invite", [invite |-> v, tab |-> b], None)
            \/ \E r \in Requests, t \in Teachers :
                 /\ Bind(r, t)
                 /\ session'[s] =
                      NewSession(t, "google", [proof |-> req[r].proof], req[r].account)
            \/ \E r \in Requests :
                 /\ MintGoogle(r)
                 /\ session'[s] = NewSession(req[r].teacher, "google",
                                             [proof |-> req[r].proof], req[r].account)
            \/ \E r \in Requests :
                 /\ MintPasskey(r)
                 /\ session'[s] = NewSession(req[r].teacher, "passkey",
                                    [proof |-> req[r].proof], account[req[r].teacher])
            \/ \E t \in Teachers, k \in 1..MaxSets :
                 /\ RedeemCode(t, k)
                 /\ session'[s] = NewSession(t, "recovery", [code |-> <<t, k>>], account[t])
<1> DEFINE Alone == \A u \in Ids \ {s} : session'[u] = session[u]
<1>1. session[s] = NoSession /\ ~Open(s)
  BY DEF DoorsFit, Fits, Open
<1>2. ASSUME NEW t, NEW door, NEW by, NEW g, Mint(t, door, by, g)
      PROVE  Alone /\ session'[s] = NewSession(t, door, by, g)
  BY <1>2 DEF Mint, Minted, SessionTypes, NewSession
<1>3. ASSUME NEW v \in Invites, NEW b \in Tabs, Redeem(v, b)
      PROVE  Mint(invite[v].teacher, "invite", [invite |-> v, tab |-> b], None)
  BY <1>3 DEF Redeem, Mint
<1>4. ASSUME NEW r \in Requests, NEW t \in Teachers, Bind(r, t)
      PROVE  Mint(t, "google", [proof |-> req[r].proof], req[r].account)
  BY <1>4 DEF Bind
<1>5. ASSUME NEW r \in Requests, MintGoogle(r)
      PROVE  Mint(req[r].teacher, "google", [proof |-> req[r].proof], req[r].account)
  BY <1>5 DEF MintGoogle
<1>6. ASSUME NEW r \in Requests, MintPasskey(r)
      PROVE  Mint(req[r].teacher, "passkey", [proof |-> req[r].proof], account[req[r].teacher])
  BY <1>6 DEF MintPasskey
<1>7. ASSUME NEW t \in Teachers, NEW k \in 1..MaxSets, RedeemCode(t, k)
      PROVE  Mint(t, "recovery", [code |-> <<t, k>>], account[t])
  BY <1>7 DEF RedeemCode
<1>8. ASSUME NEW t \in Teachers, RevokeRole(t) \/ Deactivate(t)
      PROVE  FALSE
  BY <1>1, <1>8, NoneAssumption
     DEF RevokeRole, Deactivate, SessionsOf, Revoked, NoSession, SessionTypes
<1>9. ASSUME NEW u \in Ids, RevokeSession(u) \/ TimePasses(u)
      PROVE  FALSE
  BY <1>1, <1>9 DEF RevokeSession, TimePasses, Revoked, SessionTypes
<1>10. ASSUME NEW v \in Invites, NEW b \in Tabs, Reissue(v, b)
       PROVE  FALSE
  BY <1>1, <1>10 DEF Reissue, MayReissue, SessionOf, SessionTypes
<1> HIDE DEF Alone
<1>11. \/ \E v \in Invites, b \in Tabs : Redeem(v, b)
       \/ \E r \in Requests :
            MintGoogle(r) \/ MintPasskey(r) \/ \E t \in Teachers : Bind(r, t)
       \/ \E t \in Teachers, k \in 1..MaxSets : RedeemCode(t, k)
  BY <1>8, <1>9, <1>10, SessionSteps
<1>12. Alone
  BY <1>2, <1>3, <1>4, <1>5, <1>6, <1>7, <1>11
<1> QED BY <1>2, <1>3, <1>4, <1>5, <1>6, <1>7, <1>11, <1>12 DEF Alone

LEMMA NewSessionsFit ==
  ASSUME Types, Shapes, [Next]_vars, NEW s \in Ids,
         session[s].state = "none", session'[s] # session[s]
  PROVE  session'[s] \in Sessions /\ Fits(session'[s])
<1>1. ASSUME NEW t \in Teachers, NEW g \in Accounts \cup {None},
             NEW door \in {"invite", "google", "passkey", "recovery"}, NEW by,
             door = "invite" => by \in ByInvite,
             door \in {"google", "passkey"} => by \in ByProof,
             door = "recovery" => by \in ByCode,
             door = "google" => g \in Accounts
      PROVE  NewSession(t, door, by, g) \in Sessions /\ Fits(NewSession(t, door, by, g))
  BY <1>1 DEF NewSession, Sessions, Fits
<1>2. ASSUME NEW v \in Invites, NEW b \in Tabs, Redeem(v, b)
      PROVE  invite[v].teacher \in Teachers /\ [invite |-> v, tab |-> b] \in ByInvite
  BY <1>2 DEF Redeem, Shapes, RowsFit, ByInvite
<1>3. ASSUME NEW r \in Requests, NEW t \in Teachers, Bind(r, t)
      PROVE  [proof |-> req[r].proof] \in ByProof /\ req[r].account \in Accounts
  BY <1>3 DEF Bind, Shapes, RequestsFit, RequestFits, GoogleLabels, ByProof
<1>4. ASSUME NEW r \in Requests, MintGoogle(r)
      PROVE  /\ [proof |-> req[r].proof] \in ByProof
             /\ req[r].account \in Accounts
             /\ req[r].teacher \in Teachers
  BY <1>4 DEF MintGoogle, Shapes, RequestsFit, RequestFits, GoogleLabels, ByProof
<1>5. ASSUME NEW r \in Requests, MintPasskey(r)
      PROVE  /\ [proof |-> req[r].proof] \in ByProof
             /\ req[r].teacher \in Teachers
             /\ account[req[r].teacher] \in Accounts \cup {None}
  BY <1>5 DEF MintPasskey, Shapes, RequestsFit, RequestFits, ByProof, Types, PeopleTypes
<1>6. ASSUME NEW t \in Teachers, NEW k \in 1..MaxSets
      PROVE  [code |-> <<t, k>>] \in ByCode /\ account[t] \in Accounts \cup {None}
  BY <1>6 DEF ByCode, Types, PeopleTypes
<1> DEFINE Good(x) == x \in Sessions /\ Fits(x)
<1>7. ASSUME NEW v \in Invites, NEW b \in Tabs, Redeem(v, b)
      PROVE  Good(NewSession(invite[v].teacher, "invite", [invite |-> v, tab |-> b], None))
  BY <1>1, <1>2, <1>7
<1>8. ASSUME NEW r \in Requests, NEW t \in Teachers, Bind(r, t)
      PROVE  Good(NewSession(t, "google", [proof |-> req[r].proof], req[r].account))
  BY <1>1, <1>3, <1>8
<1>9. ASSUME NEW r \in Requests, MintGoogle(r)
      PROVE  Good(NewSession(req[r].teacher, "google", [proof |-> req[r].proof],
                             req[r].account))
  BY <1>1, <1>4, <1>9
<1>10. ASSUME NEW r \in Requests, MintPasskey(r)
       PROVE  Good(NewSession(req[r].teacher, "passkey", [proof |-> req[r].proof],
                              account[req[r].teacher]))
  BY <1>1, <1>5, <1>10
<1>11. ASSUME NEW t \in Teachers, NEW k \in 1..MaxSets
       PROVE  Good(NewSession(t, "recovery", [code |-> <<t, k>>], account[t]))
  BY <1>1, <1>6
<1>12. SessionTypes /\ DoorsFit
  BY DEF Types, Shapes
<1> HIDE DEF Good
<1>13. Good(session'[s])
  BY <1>7, <1>8, <1>9, <1>10, <1>11, <1>12, NewSessions
<1> QED BY <1>13 DEF Good

LEMMA SessionsStep ==
  ASSUME Types, Shapes, [Next]_vars
  PROVE  SessionTypes' /\ DoorsFit'
<1>1. session' = [s \in Ids |-> session'[s]]
  <2> USE DEF Types, SessionTypes
  <2>1. CASE UNCHANGED session
    BY <2>1
  <2>2. ASSUME NEW t \in Teachers,
               RevokeRole(t) \/ Deactivate(t) \/ \E k \in 1..MaxSets : RedeemCode(t, k)
        PROVE  session' = [s \in Ids |-> session'[s]]
    BY <2>2 DEF RevokeRole, Deactivate, RedeemCode, Mint, Minted, Revoked
  <2>3. ASSUME NEW s \in Ids, RevokeSession(s) \/ TimePasses(s)
        PROVE  session' = [u \in Ids |-> session'[u]]
    BY <2>3 DEF RevokeSession, TimePasses, Revoked
  <2>4. ASSUME NEW v \in Invites, NEW b \in Tabs, Redeem(v, b) \/ Reissue(v, b)
        PROVE  session' = [u \in Ids |-> session'[u]]
    BY <2>4 DEF Redeem, Reissue, Minted
  <2>5. ASSUME NEW r \in Requests, MintGoogle(r) \/ MintPasskey(r) \/ \E t \in Teachers : Bind(r, t)
        PROVE  session' = [u \in Ids |-> session'[u]]
    BY <2>5 DEF MintGoogle, MintPasskey, Bind, Mint, Minted
  <2> QED BY <2>1, <2>2, <2>3, <2>4, <2>5, SessionSteps
<1>2. ASSUME NEW s \in Ids
      PROVE  session'[s] \in Sessions /\ Fits(session'[s])
  <2>1. CASE session[s].state # "none"
    <3>1. Fits(session[s])
      BY DEF Shapes, DoorsFit
    <3> QED BY <2>1, <3>1, OldSessions DEF Types, Shapes, Fits
  <2>2. CASE session[s].state = "none" /\ session'[s] # session[s]
    BY <2>2, NewSessionsFit
  <2>3. CASE session'[s] = session[s]
    BY <2>3 DEF Types, SessionTypes, Shapes, DoorsFit
  <2> QED BY <2>1, <2>2, <2>3
<1> QED BY <1>1, <1>2 DEF SessionTypes, DoorsFit

LEMMA PeopleStep ==
  ASSUME Types, Shapes, OneTeacherPerAccount, [Next]_vars
  PROVE  PeopleTypes' /\ OneTeacherPerAccount'
<1> USE DEF Types, PeopleTypes, OneTeacherPerAccount
<1>1. CASE UNCHANGED people
  BY <1>1 DEF people
<1>2. ASSUME NEW t \in Teachers,
             CreateTeacher(t) \/ GrantRole(t) \/ RevokeRole(t) \/ Deactivate(t)
      PROVE  PeopleTypes' /\ OneTeacherPerAccount'
  BY <1>2 DEF CreateTeacher, GrantRole, RevokeRole, RevokedReservation, Deactivate
<1>3. ASSUME NEW t \in Teachers, NEW g \in Accounts, Preauthorize(t, g)
      PROVE  PeopleTypes' /\ OneTeacherPerAccount'
  BY <1>3 DEF Preauthorize
<1>4. ASSUME NEW r \in Requests, Link(r)
      PROVE  PeopleTypes' /\ OneTeacherPerAccount'
  <2> DEFINE t == session[proof[req[r].proof].session].teacher
  <2>1. req[r].account \in Accounts /\ t \in Teachers
    BY <1>4 DEF Link, Shapes, RequestsFit, RequestFits, GoogleLabels, RowsFit, DoorsFit, Fits
  <2>2. /\ account' = [account EXCEPT ![t] = IF @ = None THEN req[r].account ELSE @]
        /\ \A u \in Teachers : account[u] = req[r].account => u = t
        /\ UNCHANGED <<standing, grant, reserved, bound>>
    BY <1>4 DEF Link, MayLink
  <2> HIDE DEF t
  <2> QED BY <2>1, <2>2
<1>5. ASSUME NEW r \in Requests, NEW t \in Teachers, Admit(r, t)
      PROVE  PeopleTypes' /\ OneTeacherPerAccount'
  BY <1>5 DEF Admit, Shapes, RequestsFit, RequestFits, GoogleLabels
<1>6. ASSUME NEW r \in Requests, NEW t \in Teachers, Bind(r, t)
      PROVE  PeopleTypes' /\ OneTeacherPerAccount'
  BY <1>6 DEF Bind, Shapes, RequestsFit, RequestFits, GoogleLabels
<1> QED BY <1>1, <1>2, <1>3, <1>4, <1>5, <1>6, PeopleSteps

LEMMA DoorsStep ==
  ASSUME Types, Shapes, [Next]_vars
  PROVE  DoorTypes'
<1> USE DEF Types, DoorTypes
<1>1. invite' \in [Invites -> InviteRows]
  <2>1. ASSUME NEW t \in Teachers, Deactivate(t) \/ \E v \in Invites : CreateInvite(v, t)
        PROVE  invite' \in [Invites -> InviteRows]
    BY <2>1 DEF Deactivate, CreateInvite, InviteRows
  <2>2. ASSUME NEW v \in Invites, CloseInvite(v)
        PROVE  invite' \in [Invites -> InviteRows]
    BY <2>2 DEF CloseInvite, InviteRows
  <2>3. ASSUME NEW v \in Invites, NEW b \in Tabs, Redeem(v, b)
        PROVE  invite' \in [Invites -> InviteRows]
    <3>1. invite' = [invite EXCEPT ![v].state = "redeemed"]
      BY <2>3 DEF Redeem
    <3> QED BY <3>1 DEF InviteRows
  <2> QED BY <2>1, <2>2, <2>3, InviteSteps
<1>2. counter' \in [Teachers -> 0..MaxCount \cup {None}] /\ codes' \in [Teachers -> CodeRows]
  <2>1. ASSUME NEW t \in Teachers, NEW k \in 1..MaxSets, RedeemCode(t, k)
        PROVE  counter' = counter /\ codes' \in [Teachers -> CodeRows]
    BY <2>1 DEF RedeemCode, CodeRows
  <2>2. ASSUME NEW r \in Requests, AddCredential(r) \/ MintPasskey(r)
        PROVE  counter' \in [Teachers -> 0..MaxCount \cup {None}] /\ codes' = codes
    BY <2>2, BoundsAssumption DEF AddCredential, MintPasskey, ReqTypes, Asked
  <2>3. ASSUME NEW r \in Requests, RegenerateCodes(r)
        PROVE  counter' = counter /\ codes' \in [Teachers -> CodeRows]
    <3> DEFINE t == req[r].teacher
    <3>1. t \in Teachers
      BY <2>3 DEF RegenerateCodes, Shapes, RequestsFit, RequestFits
    <3>2. counter' = counter /\ codes[t].set < MaxSets
      BY <2>3 DEF RegenerateCodes
    <3>3. codes' = [codes EXCEPT ![t].set = @ + 1]
      BY <2>3 DEF RegenerateCodes
    <3> HIDE DEF t
    <3>4. codes[t].set + 1 \in 0..MaxSets
      BY <3>1, <3>2, BoundsAssumption DEF CodeRows
    <3> QED BY <3>1, <3>2, <3>3, <3>4 DEF CodeRows
  <2> QED BY <2>1, <2>2, <2>3, KeySteps
<1> QED BY <1>1, <1>2

LEMMA TabsStep ==
  ASSUME Types, Shapes, [Next]_vars
  PROVE  TabTypes'
<1> USE DEF Types, TabTypes
<1>1. ASSUME NEW b \in Tabs, NEW id \in Ids, NEW secret \in Nat, Answered(b, id, secret)
      PROVE  TabTypes'
  <2> DEFINE x == [cookie |-> [id |-> id, secret |-> secret], keeps |-> FALSE]
  <2>1. x \in TabStates
    BY DEF TabStates
  <2>2. tab' = [tab EXCEPT ![b] = x] \/ UNCHANGED tab
    BY <1>1 DEF Answered
  <2> HIDE DEF x
  <2> QED BY <2>1, <2>2
<1>2. ASSUME NEW v \in Invites, NEW b \in Tabs, Redeem(v, b)
      PROVE  TabTypes'
  BY <1>1, <1>2 DEF Redeem
<1>3. ASSUME NEW v \in Invites, NEW b \in Tabs, Reissue(v, b)
      PROVE  TabTypes'
  <2>1. PICK s \in Ids : Answered(b, s, session[s].secret + 1)
    BY <1>3 DEF Reissue, SessionOf
  <2>2. session[s].secret + 1 \in Nat
    BY DEF SessionTypes, Sessions
  <2> QED BY <1>1, <2>1, <2>2
<1> QED BY <1>2, <1>3, TabSteps

(* A proof that was issued keeps its purpose, and one that is used is used. *)
LEMMA ProofsStep ==
  ASSUME Types, Shapes, [Next]_vars
  PROVE  /\ ProofTypes'
         /\ \A c \in Proofs : proof[c].kind # "none" =>
              /\ proof'[c].kind = proof[c].kind
              /\ proof'[c].session = proof[c].session
         /\ \A c \in Proofs : proof[c].used => proof'[c].used
         /\ \A c \in Proofs : proof'[c].used => proof'[c].kind # "none"
         /\ \A c \in Proofs :
              proof[c].kind = "none" /\ proof'[c].kind \in {"link", "enrollment"} =>
                proof'[c].session \in Ids /\ session[proof'[c].session].state # "none"
<1> DEFINE Lasts ==
      /\ ProofTypes'
      /\ \A c \in Proofs : proof[c].kind # "none" =>
           /\ proof'[c].kind = proof[c].kind
           /\ proof'[c].session = proof[c].session
      /\ \A c \in Proofs : proof[c].used => proof'[c].used
      /\ \A c \in Proofs : proof'[c].used => proof'[c].kind # "none"
      /\ \A c \in Proofs :
           proof[c].kind = "none" /\ proof'[c].kind \in {"link", "enrollment"} =>
             proof'[c].session \in Ids /\ session[proof'[c].session].state # "none"
<1> USE DEF Types, ProofTypes
<1>0. \A c \in Proofs : proof[c].used => proof[c].kind # "none"
  BY DEF Shapes, RowsFit
<1>1. ASSUME UNCHANGED proof
      PROVE  Lasts
  BY <1>0, <1>1
<1>2. ASSUME NEW c \in Proofs, NEW kind \in {"signin", "link", "enrollment", "assertion"},
             NEW s \in {0} \cup Ids, proof[c].kind = "none", Issue(c, kind, s),
             kind \in {"link", "enrollment"} => s \in Ids /\ session[s].state # "none"
      PROVE  Lasts
  BY <1>0, <1>2 DEF Issue, ProofRows
<1>3. ASSUME NEW c \in Proofs, proof' = [proof EXCEPT ![c].used = TRUE], proof[c].kind # "none"
      PROVE  Lasts
  BY <1>0, <1>3 DEF ProofRows
<1>4. ASSUME NEW c \in Proofs, NEW s \in {0} \cup Ids, IssueNonce(c, s) \/ IssueChallenge(c, s)
      PROVE  Lasts
  <2>1. \E kind \in {"signin", "link", "enrollment", "assertion"} :
          /\ proof[c].kind = "none"
          /\ Issue(c, kind, s)
          /\ kind \in {"link", "enrollment"} => s \in Ids /\ session[s].state # "none"
    BY <1>4 DEF IssueNonce, IssueChallenge, MayEnter, Usable, Ids
  <2> HIDE DEF Lasts
  <2> QED BY <1>2, <2>1
<1>5. ASSUME NEW c \in Proofs, ExpireProof(c)
      PROVE  Lasts
  BY <1>3, <1>5 DEF ExpireProof
<1>6. ASSUME NEW r \in Requests, ConsumeChallenge(r)
      PROVE  Lasts
  <2>1. req[r].proof \in Proofs
    BY <1>6 DEF ConsumeChallenge, Shapes, RequestsFit, RequestFits
  <2> HIDE DEF Lasts
  <2> QED BY <1>3, <1>6, <2>1 DEF ConsumeChallenge, Unused, Use
<1>7. ASSUME NEW r \in Requests, NEW c \in Proofs,
             Enroll(r, c) \/ \E g \in Accounts : GoogleComplete(r, c, g)
      PROVE  Lasts
  <2> HIDE DEF Lasts
  <2> QED BY <1>3, <1>7 DEF Enroll, GoogleComplete, Unused, Use
<1> HIDE DEF Lasts
<1>8. Lasts
  BY <1>1, <1>4, <1>5, <1>6, <1>7, ProofSteps
<1> QED BY <1>8 DEF Lasts

LEMMA RowsStep ==
  ASSUME Types, Shapes, [Next]_vars
  PROVE  RowsFit'
<1> USE DEF Types, Shapes, RowsFit
<1>1. \A v \in Invites : invite'[v].state # "none" => invite'[v].teacher \in Teachers
  <2> USE DEF DoorTypes, InviteRows
  <2>1. ASSUME NEW t \in Teachers, Deactivate(t) \/ \E v \in Invites : CreateInvite(v, t)
        PROVE  \A v \in Invites : invite'[v].state # "none" => invite'[v].teacher \in Teachers
    BY <2>1 DEF Deactivate, CreateInvite
  <2>2. ASSUME NEW v \in Invites, CloseInvite(v)
        PROVE  \A w \in Invites : invite'[w].state # "none" => invite'[w].teacher \in Teachers
    BY <2>2 DEF CloseInvite
  <2>3. ASSUME NEW v \in Invites, NEW b \in Tabs, Redeem(v, b)
        PROVE  \A w \in Invites : invite'[w].state # "none" => invite'[w].teacher \in Teachers
    <3>1. invite[v].state = "open" /\ invite' = [invite EXCEPT ![v].state = "redeemed"]
      BY <2>3 DEF Redeem
    <3> QED BY <3>1
  <2> QED BY <2>1, <2>2, <2>3, InviteSteps
<1>2. ASSUME NEW c \in Proofs, proof'[c].kind \in {"link", "enrollment"}
      PROVE  proof'[c].session \in Ids /\ session'[proof'[c].session].state # "none"
  <2>1. proof'[c].session \in Ids /\ session[proof'[c].session].state # "none"
    BY <1>2, ProofsStep
  <2> QED BY <2>1, OldSessions
<1>3. \A t \in Teachers : codes'[t].spent \subseteq 1..codes'[t].set
  <2>1. ASSUME NEW t \in Teachers, NEW k \in 1..MaxSets, RedeemCode(t, k)
        PROVE  \A u \in Teachers : codes'[u].spent \subseteq 1..codes'[u].set
    BY <2>1 DEF RedeemCode, MayRedeemCode, DoorTypes, CodeRows
  <2>2. ASSUME NEW r \in Requests, RegenerateCodes(r)
        PROVE  \A u \in Teachers : codes'[u].spent \subseteq 1..codes'[u].set
    BY <2>2, BoundsAssumption DEF RegenerateCodes, DoorTypes, CodeRows
  <2>3. ASSUME NEW r \in Requests, AddCredential(r) \/ MintPasskey(r)
        PROVE  codes' = codes
    BY <2>3 DEF AddCredential, MintPasskey
  <2> QED BY <2>1, <2>2, <2>3, KeySteps
<1>4. \A c \in Proofs : proof'[c].used => proof'[c].kind # "none"
  BY ProofsStep
<1> QED BY <1>1, <1>2, <1>3, <1>4

(* A step of a request changes that request only. *)
LEMMA ServerStep ==
  ASSUME Types, Shapes, [Next]_vars, NEW r \in Requests, Server(r)
  PROVE  \/ UNCHANGED req
         \/ \E x \in Asked : RequestFits(x, proof') /\ req' = [req EXCEPT ![r] = x]
<1> USE DEF Types, ReqTypes
<1> DEFINE Moves == {<<"signin", "admit">>, <<"signin", "bind">>,
                     <<"challenge", "asserted">>, <<"credential", "codes">>}
<1> DEFINE Fitting == \E x \in Asked : RequestFits(x, proof') /\ req' = [req EXCEPT ![r] = x]
<1> USE DEF Labels, GoogleLabels
<1>1. req[r] \in Asked /\ RequestFits(req[r], proof)
  BY DEF Shapes, RequestsFit
<1>2. Idle \in Asked /\ RequestFits(Idle, proof')
  BY BoundsAssumption DEF Idle, Asking, Asked, RequestFits
<1>3. ASSUME NEW c \in Proofs, NEW g \in Accounts, GoogleComplete(r, c, g)
      PROVE  Fitting
  <2>1. PICK kind \in {"signin", "link"} :
          Unused(c, kind) /\ req' = [req EXCEPT ![r] = Asking(kind, c, None, g, 0)]
    BY <1>3 DEF GoogleComplete
  <2>2. proof'[c].kind = kind
    BY <2>1, ProofsStep DEF Unused
  <2>3. Asking(kind, c, None, g, 0) \in Asked
    BY BoundsAssumption DEF Asking, Asked
  <2>4. RequestFits(Asking(kind, c, None, g, 0), proof')
    BY <2>2 DEF RequestFits, Asking
  <2> QED BY <2>1, <2>3, <2>4
<1>4. ASSUME NEW c \in Proofs, Enroll(r, c)
      PROVE  Fitting
  <2> DEFINE t == session[proof[c].session].teacher
  <2>1. t \in Teachers /\ req' = [req EXCEPT ![r] = Asking("credential", None, t, None, 0)]
    BY <1>4 DEF Enroll, Unused, Shapes, RowsFit, DoorsFit, Fits
  <2> HIDE DEF t
  <2>2. Asking("credential", None, t, None, 0) \in Asked
    BY <2>1, BoundsAssumption DEF Asking, Asked
  <2>3. RequestFits(Asking("credential", None, t, None, 0), proof')
    BY <2>1 DEF RequestFits, Asking
  <2> QED BY <2>1, <2>2, <2>3
<1>5. ASSUME NEW c \in Proofs, NEW t \in Teachers, NEW n \in 0..MaxCount,
             LookUpCredential(r, c, t, n)
      PROVE  Fitting
  <2>1. Asking("challenge", c, t, None, n) \in Asked
    BY DEF Asking, Asked
  <2>2. RequestFits(Asking("challenge", c, t, None, n), proof')
    BY DEF RequestFits, Asking
  <2> QED BY <1>5, <2>1, <2>2 DEF LookUpCredential
<1>6. ASSUME NEW s \in Ids, AskForCodes(r, s)
      PROVE  Fitting
  <2> DEFINE t == session[s].teacher
  <2>1. t \in Teachers /\ req' = [req EXCEPT ![r] = Asking("codes", None, t, None, 0)]
    BY <1>6 DEF AskForCodes, MayEnter, Usable, Shapes, DoorsFit, Fits
  <2> HIDE DEF t
  <2>2. Asking("codes", None, t, None, 0) \in Asked
    BY <2>1, BoundsAssumption DEF Asking, Asked
  <2>3. RequestFits(Asking("codes", None, t, None, 0), proof')
    BY <2>1 DEF RequestFits, Asking
  <2> QED BY <2>1, <2>2, <2>3
<1>7. ASSUME NEW t \in Teachers, req[r].at \in GoogleLabels,
             req' = [req EXCEPT ![r] = Asking("mint", @.proof, t, @.account, 0)]
      PROVE  Fitting
  <2> DEFINE x == Asking("mint", req[r].proof, t, req[r].account, 0)
  <2>1. x \in Asked
    BY <1>1, BoundsAssumption DEF Asking, Asked
  <2>2. RequestFits(x, proof')
    BY <1>1, <1>7 DEF RequestFits, Asking
  <2>3. req' = [req EXCEPT ![r] = x]
    BY <1>7
  <2> HIDE DEF x
  <2> QED BY <2>1, <2>2, <2>3
<1>8. ASSUME Link(r)
      PROVE  \E t \in Teachers :
               req' = [req EXCEPT ![r] = Asking("mint", @.proof, t, @.account, 0)]
  <2> DEFINE t == session[proof[req[r].proof].session].teacher
  <2>1. t \in Teachers
    BY <1>1, <1>8 DEF Link, Usable, Shapes, RowsFit, DoorsFit, Fits, RequestFits
  <2> QED BY <1>8, <2>1 DEF Link
<1>9. ASSUME NEW label \in Labels, Goto(r, label),
             <<req[r].at, label>> \in Moves
      PROVE  Fitting
  <2> DEFINE x == [req[r] EXCEPT !.at = label]
  <2>1. x \in Asked /\ req' = [req EXCEPT ![r] = x]
    BY <1>1, <1>9 DEF Goto, Asked
  <2>2. x.at = label /\ x.proof = req[r].proof /\ x.teacher = req[r].teacher /\ x.account = req[r].account
    BY <1>1 DEF Asked
  <2>3. RequestFits(x, proof')
    BY <1>1, <1>9, <2>2 DEF RequestFits
  <2> HIDE DEF x
  <2> QED BY <2>1, <2>3
<1>10. ASSUME Authenticate(r)
       PROVE  \/ \E t \in Teachers :
                   req' = [req EXCEPT ![r] = Asking("mint", @.proof, t, @.account, 0)]
              \/ Goto(r, "admit") \/ Goto(r, "bind")
  BY <1>10 DEF Authenticate
<1>11. ASSUME NEW t \in Teachers, Admit(r, t)
       PROVE  req' = [req EXCEPT ![r] = Asking("mint", @.proof, t, @.account, 0)]
  BY <1>11 DEF Admit
<1>12. ASSUME MintGoogle(r) \/ MintPasskey(r) \/ RegenerateCodes(r) \/ GiveUp(r)
              \/ \E t \in Teachers : Bind(r, t)
       PROVE  req' = [req EXCEPT ![r] = Idle]
  BY <1>12 DEF MintGoogle, MintPasskey, RegenerateCodes, GiveUp, Bind
<1>13. Authenticate(r) => req[r].at = "signin"
  BY DEF Authenticate
<1>14. Link(r) \/ (\E t \in Teachers : Admit(r, t)) => req[r].at \in GoogleLabels
  BY DEF Link, Admit
<1>15. AddCredential(r) => Goto(r, "codes") /\ req[r].at = "credential"
  BY DEF AddCredential
<1>16. ConsumeChallenge(r) => Goto(r, "asserted") /\ req[r].at = "challenge"
  BY DEF ConsumeChallenge
<1> HIDE DEF Fitting
<1>17. ASSUME Authenticate(r)
       PROVE  Fitting
  <2>1. CASE Goto(r, "admit")
    <3>1. "admit" \in Labels /\ <<req[r].at, "admit">> \in Moves
      BY <1>13, <1>17
    <3> QED BY <1>9, <2>1, <3>1
  <2>2. CASE Goto(r, "bind")
    <3>1. "bind" \in Labels /\ <<req[r].at, "bind">> \in Moves
      BY <1>13, <1>17
    <3> QED BY <1>9, <2>2, <3>1
  <2>3. CASE \E t \in Teachers :
               req' = [req EXCEPT ![r] = Asking("mint", @.proof, t, @.account, 0)]
    BY <1>7, <1>13, <1>17, <2>3
  <2> QED BY <1>10, <1>17, <2>1, <2>2, <2>3
<1>18. ASSUME Link(r) \/ \E t \in Teachers : Admit(r, t)
       PROVE  Fitting
  BY <1>7, <1>8, <1>11, <1>14, <1>18
<1>19. ASSUME AddCredential(r) \/ ConsumeChallenge(r)
       PROVE  Fitting
  <2>1. CASE Goto(r, "codes") /\ req[r].at = "credential"
    <3>1. "codes" \in Labels /\ <<req[r].at, "codes">> \in Moves
      BY <2>1
    <3> QED BY <1>9, <2>1, <3>1
  <2>2. CASE Goto(r, "asserted") /\ req[r].at = "challenge"
    <3>1. "asserted" \in Labels /\ <<req[r].at, "asserted">> \in Moves
      BY <2>2
    <3> QED BY <1>9, <2>2, <3>1
  <2> QED BY <1>15, <1>16, <1>19, <2>1, <2>2
<1>20. ASSUME req' = [req EXCEPT ![r] = Idle]
       PROVE  Fitting
  BY <1>2, <1>20 DEF Fitting
<1>21. Fitting
  BY <1>3, <1>4, <1>5, <1>6, <1>12, <1>17, <1>18, <1>19, <1>20 DEF Server
<1> QED BY <1>21 DEF Fitting

LEMMA RequestsStep ==
  ASSUME Types, Shapes, [Next]_vars
  PROVE  ReqTypes' /\ RequestsFit'
<1> USE DEF Types, ReqTypes
<1>2. \A r \in Requests : RequestFits(req[r], proof')
  <2> TAKE r \in Requests
  <2>1. RequestFits(req[r], proof)
    BY DEF Shapes, RequestsFit
  <2>2. req[r].at = "link" => proof'[req[r].proof].kind = "link"
    BY <2>1, ProofsStep DEF RequestFits, GoogleLabels
  <2> QED BY <2>1, <2>2 DEF RequestFits
<1>3. CASE UNCHANGED req
  BY <1>2, <1>3 DEF RequestsFit
<1>4. ASSUME NEW r \in Requests, NEW x \in Asked, RequestFits(x, proof'),
             req' = [req EXCEPT ![r] = x]
      PROVE  ReqTypes' /\ RequestsFit'
  BY <1>2, <1>4 DEF RequestsFit
<1> QED BY <1>3, <1>4, ReqSteps, ServerStep
-----------------------------------------------------------------------------
Base ==
  /\ Types
  /\ Shapes
  /\ OneTeacherPerAccount

LEMMA BaseInitially ==
  ASSUME Init
  PROVE  Base
<1>1. PICK came \in SUBSET ({Enrolled} \ {None}) :
        /\ standing = [t \in Teachers |-> IF t \in came THEN "active" ELSE "absent"]
        /\ grant = [t \in Teachers |-> IF t \in came THEN "active" ELSE "none"]
        /\ account = [t \in Teachers |-> IF t \in came THEN EnrolledAs ELSE None]
        /\ reserved = [t \in Teachers |-> None]
        /\ bound = {}
        /\ invite = [v \in Invites |-> [state |-> "none", teacher |-> None]]
        /\ session = [s \in Ids |-> NoSession]
        /\ proof = [c \in Proofs |-> NoProof]
        /\ counter = [t \in Teachers |-> IF t \in came THEN 0 ELSE None]
        /\ codes = [t \in Teachers |-> [set |-> IF t \in came THEN 1 ELSE 0, spent |-> {}]]
        /\ req = [r \in Requests |-> Idle]
        /\ tab = [b \in Tabs |-> [cookie |-> NoCookie, keeps |-> TRUE]]
  BY DEF Init
<1>2. PeopleTypes /\ OneTeacherPerAccount
  BY <1>1, EnrolledAssumption DEF PeopleTypes, OneTeacherPerAccount
<1>3. invite \in [Invites -> InviteRows] /\ proof \in [Proofs -> ProofRows]
  BY <1>1 DEF InviteRows, ProofRows, NoProof
<1>4. counter \in [Teachers -> 0..MaxCount \cup {None}] /\ codes \in [Teachers -> CodeRows]
  BY <1>1, BoundsAssumption DEF CodeRows
<1>5. session \in [Ids -> Sessions] /\ DoorsFit
  BY <1>1 DEF Sessions, NoSession, DoorsFit, Fits
<1>6. req \in [Requests -> Asked] /\ RequestsFit
  <2>1. Idle \in Asked /\ RequestFits(Idle, proof)
    BY BoundsAssumption DEF Idle, Asking, Asked, RequestFits, Labels, GoogleLabels
  <2> QED BY <1>1, <2>1 DEF RequestsFit
<1>7. tab \in [Tabs -> TabStates]
  <2>1. [cookie |-> NoCookie, keeps |-> TRUE] \in TabStates
    BY DEF TabStates, NoCookie
  <2> QED BY <1>1, <2>1
<1>8. RowsFit
  BY <1>1 DEF RowsFit, NoProof
<1> QED
  BY <1>2, <1>3, <1>4, <1>5, <1>6, <1>7, <1>8
     DEF Base, Types, DoorTypes, ProofTypes, SessionTypes, ReqTypes, TabTypes, Shapes

LEMMA BaseStep ==
  ASSUME Base, [Next]_vars
  PROVE  Base'
BY SessionsStep, PeopleStep, DoorsStep, TabsStep, ProofsStep, RowsStep, RequestsStep
   DEF Base, Types, Shapes

(* Every table keeps its type, and one account is one teacher's. *)
THEOREM TypeCorrect == Spec => []TypeOK
<1>1. Base => TypeOK
  BY DEF Base, Types, PeopleTypes, DoorTypes, ProofTypes, SessionTypes, ReqTypes, TabTypes,
     Shapes, RowsFit, RequestsFit, RequestFits, InviteRows, Sessions, ProofRows, CodeRows,
     OneTeacherPerAccount, TypeOK
<1> QED BY <1>1, BaseInitially, BaseStep, PTL DEF Spec
-----------------------------------------------------------------------------
(* Revocation. *)

(* Only the two revocations take a grant away; an account stays linked. *)
LEMMA PeopleLast ==
  ASSUME Base, [Next]_vars, NEW t \in Teachers
  PROVE  /\ Granted(t) => Granted(t)' \/ RevokeRole(t) \/ Deactivate(t)
         /\ Active(t) => Active(t)' \/ Deactivate(t)
         /\ account[t] # None => account'[t] = account[t]
         /\ grant[t] = "active" => grant'[t] = "active" \/ RevokeRole(t)
<1> USE DEF Base, Types, PeopleTypes, Granted, Active
<1>1. CASE UNCHANGED people
  BY <1>1 DEF people
<1>2. ASSUME NEW u \in Teachers,
             CreateTeacher(u) \/ GrantRole(u) \/ RevokeRole(u) \/ Deactivate(u)
      PROVE  /\ Granted(t) => Granted(t)' \/ RevokeRole(t) \/ Deactivate(t)
             /\ Active(t) => Active(t)' \/ Deactivate(t)
             /\ account'[t] = account[t]
             /\ grant[t] = "active" => grant'[t] = "active" \/ RevokeRole(t)
  BY <1>2 DEF CreateTeacher, GrantRole, RevokeRole, Deactivate
<1>3. ASSUME NEW u \in Teachers, NEW g \in Accounts, Preauthorize(u, g)
      PROVE  /\ Granted(t) => Granted(t)'
             /\ Active(t) => Active(t)'
             /\ account'[t] = account[t]
             /\ grant[t] = "active" => grant'[t] = "active"
  BY <1>3 DEF Preauthorize
<1>4. ASSUME NEW r \in Requests, Link(r)
      PROVE  /\ UNCHANGED <<standing, grant>>
             /\ account[t] # None => account'[t] = account[t]
  BY <1>4 DEF Link
<1>5. ASSUME NEW r \in Requests, NEW u \in Teachers, Admit(r, u) \/ Bind(r, u)
      PROVE  /\ Granted(t) => Granted(t)'
             /\ Active(t) => Active(t)'
             /\ account[t] # None => account'[t] = account[t]
             /\ grant[t] = "active" => grant'[t] = "active"
  BY <1>5 DEF Admit, Bind
<1> QED BY <1>1, <1>2, <1>3, <1>4, <1>5, PeopleSteps

LEMMA RevocationStep ==
  ASSUME Base, NothingOutlivesARevocation, [Next]_vars
  PROVE  NothingOutlivesARevocation'
<1>1. ASSUME NEW s \in Ids, Open(s)'
      PROVE  /\ Granted(session[s].teacher)'
             /\ session'[s].door # "invite" => account'[session'[s].teacher] # None
  <2>1. CASE session[s].state # "none"
    <3>0. PICK t \in Teachers : t = session[s].teacher
      BY <2>1 DEF Base, Shapes, DoorsFit, Fits
    <3>1. /\ Open(s)
          /\ session'[s].teacher = t
          /\ session'[s].door = session[s].door
      BY <1>1, <2>1, <3>0, OldSessions DEF Base, Types, Shapes, Open
    <3>2. /\ Granted(t)
          /\ session[s].door # "invite" => account[t] # None
      BY <3>0, <3>1 DEF NothingOutlivesARevocation
    <3>3. ~RevokeRole(t) /\ ~Deactivate(t)
      BY <1>1, <3>0 DEF RevokeRole, Deactivate, SessionsOf, Revoked, Open,
         Base, Types, SessionTypes, Sessions
    <3>4. Granted(t)' /\ (account[t] # None => account'[t] = account[t])
      BY <3>2, <3>3, PeopleLast
    <3> QED BY <3>1, <3>2, <3>4 DEF Granted, Active
  <2>2. CASE session[s].state = "none"
    <3>1. session'[s] # session[s] /\ SessionTypes /\ DoorsFit
      BY <1>1, <2>2 DEF Open, Base, Types, Shapes
    <3> DEFINE Right == /\ Granted(session[s].teacher)'
                        /\ session'[s].door # "invite" => account'[session'[s].teacher] # None
    <3> USE DEF Granted, Active, NewSession
    <3>2. ASSUME NEW v \in Invites, NEW b \in Tabs, Redeem(v, b),
                 session'[s] = NewSession(invite[v].teacher, "invite",
                                          [invite |-> v, tab |-> b], None)
          PROVE  Right
      BY <3>2 DEF Redeem, people
    <3>3. ASSUME NEW r \in Requests, NEW t \in Teachers, Bind(r, t),
                 session'[s] = NewSession(t, "google", [proof |-> req[r].proof],
                                          req[r].account)
          PROVE  Right
      <4>1. req[r].account # None
        BY <3>3, NoneAssumption
           DEF Bind, Base, Shapes, RequestsFit, RequestFits, GoogleLabels
      <4> QED BY <3>3, <4>1 DEF Bind, Base, Types, PeopleTypes
    <3>4. ASSUME NEW t, MayMint(t), UNCHANGED people, session'[s].teacher = t
          PROVE  Right
      BY <3>4 DEF MayMint, Authorized, people
    <3>5. ASSUME NEW r \in Requests, MintGoogle(r) \/ MintPasskey(r)
          PROVE  MayMint(req[r].teacher) /\ UNCHANGED people
      BY <3>5 DEF MintGoogle, MintPasskey
    <3>6. ASSUME NEW t \in Teachers, NEW k \in 1..MaxSets, RedeemCode(t, k)
          PROVE  MayMint(t) /\ UNCHANGED people
      BY <3>6 DEF RedeemCode
    <3>7. ASSUME NEW t, NEW door, NEW by, NEW g
          PROVE  NewSession(t, door, by, g).teacher = t
      OBVIOUS
    <3> HIDE DEF Right, NewSession, Granted, Active
    <3>8. ASSUME NEW r \in Requests, MintGoogle(r),
                 session'[s] = NewSession(req[r].teacher, "google", [proof |-> req[r].proof],
                                          req[r].account)
          PROVE  Right
      BY <3>4, <3>5, <3>7, <3>8
    <3>9. ASSUME NEW r \in Requests, MintPasskey(r),
                 session'[s] = NewSession(req[r].teacher, "passkey",
                                 [proof |-> req[r].proof], account[req[r].teacher])
          PROVE  Right
      BY <3>4, <3>5, <3>7, <3>9
    <3>10. ASSUME NEW t \in Teachers, NEW k \in 1..MaxSets, RedeemCode(t, k),
                  session'[s] = NewSession(t, "recovery", [code |-> <<t, k>>], account[t])
           PROVE  Right
      BY <3>4, <3>6, <3>7, <3>10
    <3>11. Right
      BY <2>2, <3>1, <3>2, <3>3, <3>8, <3>9, <3>10, NewSessions
    <3> QED BY <3>11 DEF Right
  <2> QED BY <2>1, <2>2
<1>2. ASSUME NEW t \in Teachers, reserved'[t] # None, t \notin bound'
      PROVE  grant'[t] = "active"
  <2> USE DEF Base, Types, PeopleTypes
  <2>1. CASE reserved'[t] = reserved[t] /\ bound \subseteq bound'
    <3>1. grant[t] = "active"
      BY <1>2, <2>1 DEF NothingOutlivesARevocation
    <3>2. ~RevokeRole(t)
      BY <1>2, <2>1 DEF RevokeRole, RevokedReservation
    <3> QED BY <3>1, <3>2, PeopleLast
  <2>2. CASE UNCHANGED people
    BY <2>1, <2>2 DEF people
  <2>3. ASSUME NEW u \in Teachers, CreateTeacher(u) \/ GrantRole(u) \/ Deactivate(u)
        PROVE  UNCHANGED <<reserved, bound>>
    BY <2>3 DEF CreateTeacher, GrantRole, Deactivate
  <2>4. ASSUME NEW u \in Teachers, RevokeRole(u)
        PROVE  reserved'[t] = reserved[t] /\ bound' = bound
    BY <1>2, <2>4 DEF RevokeRole, RevokedReservation
  <2>5. ASSUME NEW u \in Teachers, NEW g \in Accounts, Preauthorize(u, g)
        PROVE  \/ grant'[t] = "active"
               \/ reserved'[t] = reserved[t] /\ bound' = bound
    BY <2>5 DEF Preauthorize
  <2>6. ASSUME NEW r \in Requests,
               Link(r) \/ \E u \in Teachers : Admit(r, u) \/ Bind(r, u)
        PROVE  reserved' = reserved /\ bound \subseteq bound'
    BY <2>6 DEF Link, Admit, Bind
  <2> QED BY <2>1, <2>2, <2>3, <2>4, <2>5, <2>6, PeopleSteps
<1>3. ASSUME NEW v \in Invites, invite'[v].state = "open"
      PROVE  Active(invite[v].teacher)'
  <2> USE DEF Base, Types, DoorTypes, InviteRows
  <2>1. CASE invite'[v] = invite[v]
    <3>1. invite[v].teacher \in Teachers /\ Active(invite[v].teacher)
      BY <1>3, <2>1 DEF NothingOutlivesARevocation, Shapes, RowsFit
    <3>2. ~Deactivate(invite[v].teacher)
      BY <1>3, <2>1 DEF Deactivate
    <3> QED BY <2>1, <3>1, <3>2, PeopleLast DEF Active
  <2>2. ASSUME NEW t \in Teachers, Deactivate(t)
        PROVE  invite'[v] = invite[v]
    BY <1>3, <2>2 DEF Deactivate
  <2>3. ASSUME NEW t \in Teachers, NEW w \in Invites, CreateInvite(w, t)
        PROVE  invite'[v] = invite[v] \/ Active(invite[v].teacher)'
    BY <2>3 DEF CreateInvite, Active, people
  <2>4. ASSUME NEW w \in Invites, CloseInvite(w)
        PROVE  invite'[v] = invite[v]
    BY <1>3, <2>4 DEF CloseInvite
  <2>5. ASSUME NEW w \in Invites, NEW b \in Tabs, Redeem(w, b)
        PROVE  invite'[v] = invite[v]
    <3>1. invite' = [invite EXCEPT ![w].state = "redeemed"]
      BY <2>5 DEF Redeem
    <3> QED BY <1>3, <3>1
  <2> QED BY <2>1, <2>2, <2>3, <2>4, <2>5, InviteSteps
<1> QED BY <1>1, <1>2, <1>3 DEF NothingOutlivesARevocation

(* Everything that was opened under a grant ends with it, and no request that *)
(* was already under way opens anything afterwards.                          *)
THEOREM RevocationsHold == Spec => []NothingOutlivesARevocation
<1>1. Init => NothingOutlivesARevocation
  <2>1. Init => /\ session = [s \in Ids |-> NoSession]
                /\ reserved = [t \in Teachers |-> None]
                /\ invite = [v \in Invites |-> [state |-> "none", teacher |-> None]]
    BY DEF Init
  <2> QED BY <2>1 DEF NothingOutlivesARevocation, Open, NoSession
<1> QED BY <1>1, BaseInitially, BaseStep, RevocationStep, PTL DEF Spec
-----------------------------------------------------------------------------
(* Proofs of entry. *)

(* The request has spent the proof it carries and opened nothing with it yet. *)
HeldLabels == {"signin", "link", "admit", "bind", "mint", "asserted"}

ProofsAreOwned ==
  /\ \A r \in Requests : req[r].at \in HeldLabels => proof[req[r].proof].used
  /\ \A r, q \in Requests :
       /\ req[r].at \in HeldLabels
       /\ req[q].at \in HeldLabels
       /\ req[r].proof = req[q].proof
       => r = q
  /\ \A s \in Ids : session[s].door \in {"google", "passkey"} =>
       /\ proof[session[s].by.proof].used
       /\ \A r \in Requests :
            req[r].at \in HeldLabels => req[r].proof # session[s].by.proof
InvitesAreSpent ==
  \A s \in Ids : session[s].door = "invite" =>
    /\ invite[session[s].by.invite].state = "redeemed"
    /\ invite[session[s].by.invite].teacher = session[s].teacher
CodesAreSpent ==
  \A s \in Ids : session[s].door = "recovery" =>
    session[s].by.code[2] \in codes[session[s].by.code[1]].spent

Owned ==
  /\ ProofsAreOwned
  /\ InvitesAreSpent
  /\ CodesAreSpent
  /\ OneSessionPerProof

LEMMA HeldSteps ==
  ASSUME Base, [Next]_vars, NEW r \in Requests, req'[r].at \in HeldLabels
  PROVE  \/ req[r].at \in HeldLabels /\ req'[r].proof = req[r].proof
         \/ /\ req'[r].proof \in Proofs
            /\ ~proof[req'[r].proof].used
            /\ proof'[req'[r].proof].used
            /\ UNCHANGED session
            /\ \A q \in Requests \ {r} : req'[q] = req[q]
<1> USE DEF Base, Types, ReqTypes, HeldLabels
<1>1. CASE UNCHANGED req
  BY <1>1
<1>2. ASSUME NEW q \in Requests, Server(q), q # r
      PROVE  req'[r] = req[r]
  BY <1>2, ServerStep
<1>3. CASE Server(r)
  <2>1. ASSUME NEW c \in Proofs, NEW g \in Accounts, GoogleComplete(r, c, g)
        PROVE  /\ req'[r].proof = c
               /\ ~proof[c].used
               /\ proof'[c].used
               /\ UNCHANGED session
               /\ \A q \in Requests \ {r} : req'[q] = req[q]
    BY <2>1 DEF GoogleComplete, Unused, Use, Asking, ProofTypes, ProofRows
  <2>2. ASSUME ConsumeChallenge(r)
        PROVE  /\ req'[r].proof = req[r].proof
               /\ req[r].proof \in Proofs
               /\ ~proof[req[r].proof].used
               /\ proof'[req[r].proof].used
               /\ UNCHANGED session
               /\ \A q \in Requests \ {r} : req'[q] = req[q]
    <3>1. req[r].proof \in Proofs
      BY <2>2 DEF ConsumeChallenge, Shapes, RequestsFit, RequestFits
    <3> QED BY <2>2, <3>1 DEF ConsumeChallenge, Unused, Use, Goto, ProofTypes, ProofRows, Asked
  <2>3. ASSUME Link(r) \/ Authenticate(r) \/ \E t \in Teachers : Admit(r, t)
        PROVE  req[r].at \in HeldLabels /\ req'[r].proof = req[r].proof
    <3>1. req[r].at \in {"link", "signin", "admit"}
      BY <2>3 DEF Link, Authenticate, Admit
    <3>2. CASE \E t : req' = [req EXCEPT ![r] = Asking("mint", @.proof, t, @.account, 0)]
      BY <3>1, <3>2 DEF Asking
    <3>3. CASE \E label : req' = [req EXCEPT ![r].at = label]
      BY <3>1, <3>3 DEF Asked
    <3> QED BY <2>3, <3>2, <3>3 DEF Link, Authenticate, Admit, Goto
  <2>4. ASSUME \/ MintGoogle(r) \/ MintPasskey(r) \/ RegenerateCodes(r) \/ GiveUp(r)
               \/ \E t \in Teachers : Bind(r, t)
        PROVE  req'[r].at = "idle"
    BY <2>4 DEF MintGoogle, MintPasskey, RegenerateCodes, GiveUp, Bind, Idle, Asking
  <2>5. ASSUME \/ AddCredential(r)
               \/ \E c \in Proofs :
                    \/ Enroll(r, c)
                    \/ \E t \in Teachers, n \in 0..MaxCount : LookUpCredential(r, c, t, n)
               \/ \E s \in Ids : AskForCodes(r, s)
        PROVE  req'[r].at \in {"codes", "credential", "challenge"}
    BY <2>5 DEF AddCredential, Enroll, LookUpCredential, AskForCodes, Goto, Asking, Asked
  <2> QED BY <1>3, <2>1, <2>2, <2>3, <2>4, <2>5 DEF Server
<1> QED BY <1>1, <1>2, <1>3, ReqSteps

LEMMA InvitesLast ==
  ASSUME Base, [Next]_vars, NEW v \in Invites, invite[v].state = "redeemed"
  PROVE  invite'[v] = invite[v]
<1> USE DEF Base, Types, DoorTypes, InviteRows
<1>1. ASSUME NEW t \in Teachers, Deactivate(t) \/ \E w \in Invites : CreateInvite(w, t)
      PROVE  invite'[v] = invite[v]
  BY <1>1 DEF Deactivate, CreateInvite
<1>2. ASSUME NEW w \in Invites, CloseInvite(w)
      PROVE  invite'[v] = invite[v]
  BY <1>2 DEF CloseInvite
<1>3. ASSUME NEW w \in Invites, NEW b \in Tabs, Redeem(w, b)
      PROVE  invite'[v] = invite[v]
  <2>1. invite[w].state = "open" /\ invite' = [invite EXCEPT ![w].state = "redeemed"]
    BY <1>3 DEF Redeem
  <2> QED BY <2>1
<1> QED BY <1>1, <1>2, <1>3, InviteSteps

LEMMA CodesLast ==
  ASSUME Base, [Next]_vars, NEW t \in Teachers
  PROVE  codes[t].spent \subseteq codes'[t].spent
<1> USE DEF Base, Types, DoorTypes, CodeRows
<1>1. ASSUME NEW u \in Teachers, NEW k \in 1..MaxSets, RedeemCode(u, k)
      PROVE  codes[t].spent \subseteq codes'[t].spent
  BY <1>1 DEF RedeemCode
<1>2. ASSUME NEW r \in Requests, AddCredential(r) \/ MintPasskey(r)
      PROVE  codes' = codes
  BY <1>2 DEF AddCredential, MintPasskey
<1>3. ASSUME NEW r \in Requests, RegenerateCodes(r)
      PROVE  codes[t].spent \subseteq codes'[t].spent
  BY <1>3 DEF RegenerateCodes
<1> QED BY <1>1, <1>2, <1>3, KeySteps

(* What a door takes before it opens a session, and takes for good. *)
LEMMA NewSessionsTake ==
  ASSUME Base, Owned, [Next]_vars, NEW s \in Ids,
         session[s].state = "none", session'[s] # session[s]
  PROVE  \/ /\ session'[s].door = "invite"
            /\ session'[s].by \in ByInvite
            /\ invite[session'[s].by.invite].state = "open"
            /\ invite'[session'[s].by.invite].state = "redeemed"
            /\ invite'[session'[s].by.invite].teacher = session'[s].teacher
         \/ /\ session'[s].door \in {"google", "passkey"}
            /\ session'[s].by \in ByProof
            /\ UNCHANGED proof
            /\ \E r \in Requests :
                 /\ req[r].at \in HeldLabels
                 /\ req[r].proof = session'[s].by.proof
                 /\ req' = [req EXCEPT ![r] = Idle]
         \/ /\ session'[s].door = "recovery"
            /\ session'[s].by \in ByCode
            /\ session'[s].by.code[2] \notin codes[session'[s].by.code[1]].spent
            /\ session'[s].by.code[2] \in codes'[session'[s].by.code[1]].spent
<1> USE DEF Base, Types
<1>1. Fits(session'[s])
  BY NewSessionsFit
<1>2. ASSUME NEW v \in Invites, NEW b \in Tabs, Redeem(v, b),
             session'[s] = NewSession(invite[v].teacher, "invite",
                                      [invite |-> v, tab |-> b], None)
      PROVE  /\ session'[s].door = "invite"
             /\ session'[s].by \in ByInvite
             /\ invite[session'[s].by.invite].state = "open"
             /\ invite'[session'[s].by.invite].state = "redeemed"
             /\ invite'[session'[s].by.invite].teacher = session'[s].teacher
  <2>1. invite[v].state = "open" /\ invite' = [invite EXCEPT ![v].state = "redeemed"]
    BY <1>2 DEF Redeem
  <2> QED BY <1>1, <1>2, <2>1 DEF NewSession, Fits, DoorTypes, InviteRows
<1>3. ASSUME NEW r \in Requests, NEW t, NEW door \in {"google", "passkey"}, NEW g,
             session'[s] = NewSession(t, door, [proof |-> req[r].proof], g),
             req[r].at \in HeldLabels, req' = [req EXCEPT ![r] = Idle], UNCHANGED proof
      PROVE  /\ session'[s].door \in {"google", "passkey"}
             /\ session'[s].by \in ByProof
             /\ UNCHANGED proof
             /\ \E q \in Requests :
                  /\ req[q].at \in HeldLabels
                  /\ req[q].proof = session'[s].by.proof
                  /\ req' = [req EXCEPT ![q] = Idle]
  <2>1. /\ session'[s].door = door
        /\ session'[s].by = [proof |-> req[r].proof]
        /\ session'[s].by.proof = req[r].proof
    BY <1>3 DEF NewSession
  <2> QED BY <1>1, <1>3, <2>1 DEF Fits
<1>4. ASSUME NEW r \in Requests, MintGoogle(r) \/ MintPasskey(r) \/ \E t \in Teachers : Bind(r, t)
      PROVE  req[r].at \in HeldLabels /\ req' = [req EXCEPT ![r] = Idle] /\ UNCHANGED proof
  BY <1>4 DEF MintGoogle, MintPasskey, Bind, HeldLabels, doors
<1>5. ASSUME NEW t \in Teachers, NEW k \in 1..MaxSets, RedeemCode(t, k),
             session'[s] = NewSession(t, "recovery", [code |-> <<t, k>>], account[t])
      PROVE  /\ session'[s].door = "recovery"
             /\ session'[s].by \in ByCode
             /\ session'[s].by.code[2] \notin codes[session'[s].by.code[1]].spent
             /\ session'[s].by.code[2] \in codes'[session'[s].by.code[1]].spent
  <2>1. session'[s].by.code = <<t, k>> /\ session'[s].door = "recovery"
    BY <1>5 DEF NewSession
  <2>2. k \notin codes[t].spent /\ codes' = [codes EXCEPT ![t].spent = @ \cup {k}]
    BY <1>5 DEF RedeemCode, MayRedeemCode
  <2> QED BY <1>1, <2>1, <2>2 DEF Fits, DoorTypes, CodeRows
<1> DEFINE Google == \E r \in Requests : \E t, g : \E door \in {"google", "passkey"} :
      /\ session'[s] = NewSession(t, door, [proof |-> req[r].proof], g)
      /\ MintGoogle(r) \/ MintPasskey(r) \/ \E u \in Teachers : Bind(r, u)
<1>6. ASSUME NEW r \in Requests, NEW t \in Teachers, Bind(r, t),
             session'[s] = NewSession(t, "google", [proof |-> req[r].proof], req[r].account)
      PROVE  Google
  BY <1>6
<1>7. ASSUME NEW r \in Requests, MintGoogle(r),
             session'[s] = NewSession(req[r].teacher, "google", [proof |-> req[r].proof],
                                      req[r].account)
      PROVE  Google
  BY <1>7
<1>8. ASSUME NEW r \in Requests, MintPasskey(r),
             session'[s] = NewSession(req[r].teacher, "passkey", [proof |-> req[r].proof],
                                      account[req[r].teacher])
      PROVE  Google
  BY <1>8
<1>9. CASE Google
  BY <1>3, <1>4, <1>9
<1> HIDE DEF Google
<1>10. SessionTypes /\ DoorsFit
  BY DEF Shapes
<1> QED BY <1>2, <1>5, <1>6, <1>7, <1>8, <1>9, <1>10, NewSessions

LEMMA OwnedStep ==
  ASSUME Base, Owned, [Next]_vars
  PROVE  Owned'
<1> USE DEF Base, Types
<1>1. ASSUME NEW s \in Ids, session[s].state # "none"
      PROVE  /\ session'[s].door = session[s].door
             /\ session'[s].by = session[s].by
             /\ session'[s].teacher = session[s].teacher
             /\ Fits(session[s])
  BY <1>1, OldSessions DEF Shapes, DoorsFit
<1>2. ASSUME NEW s \in Ids, session'[s].door # "none", session'[s] = session[s]
      PROVE  session[s].state # "none"
  BY <1>2 DEF Shapes, DoorsFit, Fits, NoSession
<1>3. ProofsAreOwned'
  <2>1. ASSUME NEW r \in Requests, req'[r].at \in HeldLabels
        PROVE  proof'[req'[r].proof].used
    <3>1. CASE req[r].at \in HeldLabels /\ req'[r].proof = req[r].proof
      <4>1. req[r].proof \in Proofs
        BY <3>1 DEF Shapes, RequestsFit, RequestFits, HeldLabels, GoogleLabels
      <4>2. proof[req[r].proof].used
        BY <3>1 DEF Owned, ProofsAreOwned
      <4> QED BY <3>1, <4>1, <4>2, ProofsStep
    <3> QED BY <2>1, <3>1, HeldSteps
  <2>2. ASSUME NEW r \in Requests, NEW q \in Requests, r # q,
               req'[r].at \in HeldLabels, req'[q].at \in HeldLabels
        PROVE  req'[r].proof # req'[q].proof
    <3>1. CASE /\ req[r].at \in HeldLabels
               /\ req'[r].proof = req[r].proof
               /\ req[q].at \in HeldLabels
               /\ req'[q].proof = req[q].proof
      BY <2>2, <3>1 DEF Owned, ProofsAreOwned
    <3>2. ASSUME NEW x \in Requests, NEW y \in Requests, x # y,
                 ~proof[req'[x].proof].used, req'[y] = req[y], req'[y].at \in HeldLabels
          PROVE  req'[x].proof # req'[y].proof
      BY <3>2 DEF Owned, ProofsAreOwned
    <3> QED BY <2>2, <3>1, <3>2, HeldSteps
  <2>3. ASSUME NEW s \in Ids, session'[s].door \in {"google", "passkey"}
        PROVE  /\ proof'[session'[s].by.proof].used
               /\ \A r \in Requests :
                    req'[r].at \in HeldLabels => req'[r].proof # session'[s].by.proof
    <3>1. CASE session[s].state # "none"
      <4> DEFINE c == session[s].by.proof
      <4>1. session'[s].by = session[s].by /\ session[s].door \in {"google", "passkey"}
        BY <1>1, <2>3, <3>1
      <4>2. /\ c \in Proofs
            /\ proof[c].used
            /\ \A r \in Requests : req[r].at \in HeldLabels => req[r].proof # c
        BY <1>1, <3>1, <4>1 DEF Fits, ByProof, Owned, ProofsAreOwned
      <4> HIDE DEF c
      <4>3. proof'[c].used
        BY <4>2, ProofsStep
      <4>4. \A r \in Requests : req'[r].at \in HeldLabels => req'[r].proof # c
        BY <4>2, HeldSteps
      <4> QED BY <4>1, <4>3, <4>4 DEF c
    <3>2. CASE session[s].state = "none"
      <4>1. session'[s] # session[s]
        BY <1>2, <2>3, <3>2
      <4>2. PICK r \in Requests :
              /\ req[r].at \in HeldLabels
              /\ req[r].proof = session'[s].by.proof
              /\ req' = [req EXCEPT ![r] = Idle]
              /\ UNCHANGED proof
        BY <2>3, <3>2, <4>1, NewSessionsTake
      <4>3. proof'[session'[s].by.proof].used
        BY <4>2 DEF Owned, ProofsAreOwned
      <4>4. ASSUME NEW q \in Requests, req'[q].at \in HeldLabels
            PROVE  req'[q].proof # session'[s].by.proof
        <5>1. q # r /\ req'[q] = req[q]
          BY <4>2, <4>4 DEF ReqTypes, Idle, Asking, HeldLabels
        <5> QED BY <4>2, <4>4, <5>1 DEF Owned, ProofsAreOwned
      <4> QED BY <4>3, <4>4
    <3> QED BY <3>1, <3>2
  <2> QED BY <2>1, <2>2, <2>3 DEF ProofsAreOwned
<1>4. InvitesAreSpent'
  <2> SUFFICES ASSUME NEW s \in Ids, session'[s].door = "invite"
               PROVE  /\ invite'[session'[s].by.invite].state = "redeemed"
                      /\ invite'[session'[s].by.invite].teacher = session'[s].teacher
    BY DEF InvitesAreSpent
  <2>1. CASE session[s].state # "none"
    <3>1. /\ session[s].door = "invite"
          /\ session[s].by.invite \in Invites
          /\ session'[s].by = session[s].by
          /\ session'[s].teacher = session[s].teacher
      BY <1>1, <2>1 DEF Fits, ByInvite
    <3> QED BY <3>1, InvitesLast DEF Owned, InvitesAreSpent
  <2>2. CASE session[s].state = "none"
    <3>1. session'[s] # session[s]
      BY <1>2, <2>2
    <3> QED BY <2>2, <3>1, NewSessionsTake
  <2> QED BY <2>1, <2>2
<1>5. CodesAreSpent'
  <2> SUFFICES ASSUME NEW s \in Ids, session'[s].door = "recovery"
               PROVE  session'[s].by.code[2] \in codes'[session'[s].by.code[1]].spent
    BY DEF CodesAreSpent
  <2>1. CASE session[s].state # "none"
    <3>1. /\ session[s].door = "recovery"
          /\ session[s].by.code[1] \in Teachers
          /\ session'[s].by = session[s].by
      BY <1>1, <2>1 DEF Fits, ByCode
    <3> QED BY <3>1, CodesLast DEF Owned, CodesAreSpent
  <2>2. CASE session[s].state = "none"
    <3>1. session'[s] # session[s]
      BY <1>2, <2>2
    <3> QED BY <2>2, <3>1, NewSessionsTake
  <2> QED BY <2>1, <2>2
<1>6. OneSessionPerProof'
  <2> DEFINE Same(x, y) ==
        /\ x.door # "none" /\ x.door = y.door
        /\ IF x.door = "invite" THEN x.by.invite = y.by.invite ELSE x.by = y.by
  <2>1. ASSUME NEW s \in Ids, NEW u \in Ids, s # u, Same(session[s], session[u])
        PROVE  FALSE
    BY <2>1 DEF Owned, OneSessionPerProof
  <2>2. ASSUME NEW s \in Ids, NEW u \in Ids, s # u,
               session[s].state = "none", session'[s] # session[s],
               session[u].state # "none", Same(session'[s], session'[u])
        PROVE  FALSE
    <3>1. session'[u].door = session[u].door /\ session'[u].by = session[u].by
      BY <1>1, <2>2
    <3>2. CASE session'[s].door = "invite"
      <4>1. invite[session'[s].by.invite].state = "open"
        BY <2>2, <3>2, NewSessionsTake
      <4> QED BY <2>2, <3>1, <3>2, <4>1 DEF Owned, InvitesAreSpent
    <3>3. CASE session'[s].door \in {"google", "passkey"}
      <4>1. PICK r \in Requests :
              req[r].at \in HeldLabels /\ req[r].proof = session'[s].by.proof
        BY <2>2, <3>3, NewSessionsTake
      <4> QED BY <2>2, <3>1, <3>3, <4>1 DEF Owned, ProofsAreOwned
    <3>4. CASE session'[s].door = "recovery"
      <4>1. session'[s].by.code[2] \notin codes[session'[s].by.code[1]].spent
        BY <2>2, <3>4, NewSessionsTake
      <4> QED BY <2>2, <3>1, <3>4, <4>1 DEF Owned, CodesAreSpent
    <3>5. session'[s].door \in {"invite", "google", "passkey", "recovery"}
      BY <2>2, NewSessionsTake
    <3> QED BY <3>2, <3>3, <3>4, <3>5
  <2>3. ASSUME NEW s \in Ids, NEW u \in Ids, s # u, Same(session'[s], session'[u])
        PROVE  FALSE
    <3>1. session'[s].door # "none" /\ session'[u].door # "none"
      BY <2>3
    <3>2. Same(session'[u], session'[s])
      BY <2>3
    <3>3. CASE session[s].state # "none" /\ session[u].state # "none"
      BY <1>1, <2>1, <2>3, <3>3
    <3>4. CASE session[s].state = "none" /\ session[u].state # "none"
      BY <1>2, <2>2, <2>3, <3>1, <3>4
    <3>5. CASE session[s].state # "none" /\ session[u].state = "none"
      BY <1>2, <2>2, <2>3, <3>1, <3>2, <3>5
    <3>6. CASE session[s].state = "none" /\ session[u].state = "none"
      <4>1. session'[s] # session[s] /\ session'[u] # session[u]
        BY <1>2, <3>1, <3>6
      <4> QED BY <2>3, <3>6, <4>1, NewSessions DEF Shapes
    <3> QED BY <3>3, <3>4, <3>5, <3>6
  <2> QED BY <2>3 DEF OneSessionPerProof
<1> QED BY <1>3, <1>4, <1>5, <1>6 DEF Owned

LEMMA OwnedInitially ==
  ASSUME Init
  PROVE  Owned
<1>1. session = [s \in Ids |-> NoSession] /\ req = [r \in Requests |-> Idle]
  BY DEF Init
<1> QED
  BY <1>1 DEF Owned, ProofsAreOwned, InvitesAreSpent, CodesAreSpent, OneSessionPerProof,
     NoSession, Idle, Asking, HeldLabels

(* An invite, a Google nonce, an assertion challenge and a recovery code open *)
(* one session each, whatever is retried, sent twice or interleaved.         *)
THEOREM OneSessionHolds == Spec => []OneSessionPerProof
<1>1. Owned => OneSessionPerProof
  BY DEF Owned
<1> QED BY <1>1, BaseInitially, BaseStep, OwnedInitially, OwnedStep, PTL DEF Spec
-----------------------------------------------------------------------------
(* Google accounts. *)

(* A request that may mint has read the teacher of the account it was posted. *)
AboutToMatch ==
  \A r \in Requests : req[r].at = "mint" => account[req[r].teacher] = req[r].account

LEMMA MatchStep ==
  ASSUME Base, AboutToMatch, SessionsMatchTheirAccount, [Next]_vars
  PROVE  AboutToMatch' /\ SessionsMatchTheirAccount'
<1> USE DEF Base, Types
<1>1. ASSUME NEW t \in Teachers, NEW g \in Accounts, account[t] = g
      PROVE  account'[t] = g
  BY <1>1, PeopleLast, NoneAssumption
<1>2. ASSUME NEW r \in Requests, req'[r].at = "mint"
      PROVE  account'[req'[r].teacher] = req'[r].account
  <2> USE DEF ReqTypes
  <2>1. CASE req'[r] = req[r]
    <3>1. /\ req[r].teacher \in Teachers
          /\ req[r].account \in Accounts
          /\ account[req[r].teacher] = req[r].account
      BY <1>2, <2>1 DEF AboutToMatch, Shapes, RequestsFit, RequestFits, GoogleLabels
    <3> QED BY <1>1, <2>1, <3>1
  <2>2. ASSUME NEW q \in Requests, Server(q), q # r
        PROVE  req'[r] = req[r]
    BY <2>2, ServerStep
  <2>3. req[r].at \in GoogleLabels => req[r].account \in Accounts
    BY DEF Shapes, RequestsFit, RequestFits
  <2>4. CASE Link(r)
    <3> DEFINE t == session[proof[req[r].proof].session].teacher
    <3>1. /\ account[t] \in {None, req[r].account}
          /\ account' = [account EXCEPT ![t] = IF @ = None THEN req[r].account ELSE @]
          /\ req' = [req EXCEPT ![r] = Asking("mint", @.proof, t, @.account, 0)]
      BY <2>4 DEF Link, MayLink
    <3>2. t \in Teachers
      BY <2>4 DEF Link, Shapes, RequestsFit, RequestFits, RowsFit, DoorsFit, Fits,
         GoogleLabels
    <3> HIDE DEF t
    <3> QED BY <3>1, <3>2 DEF Asking, PeopleTypes
  <2>5. CASE Authenticate(r)
    <3>1. PICK t \in Teachers :
            /\ account[t] = req[r].account
            /\ req' = [req EXCEPT ![r] = Asking("mint", @.proof, t, @.account, 0)]
            /\ UNCHANGED people
      BY <1>2, <2>5 DEF Authenticate, Goto, Asked
    <3> QED BY <3>1 DEF people, Asking
  <2>6. ASSUME NEW t \in Teachers, Admit(r, t)
        PROVE  account'[req'[r].teacher] = req'[r].account
    <3>1. /\ account' = [account EXCEPT ![t] = req[r].account]
          /\ req' = [req EXCEPT ![r] = Asking("mint", @.proof, t, @.account, 0)]
      BY <2>6 DEF Admit
    <3> QED BY <3>1 DEF Asking, PeopleTypes
  <2>7. ASSUME \/ MintGoogle(r) \/ MintPasskey(r) \/ RegenerateCodes(r) \/ GiveUp(r)
               \/ \E t \in Teachers : Bind(r, t)
        PROVE  req'[r].at = "idle"
    BY <2>7 DEF MintGoogle, MintPasskey, RegenerateCodes, GiveUp, Bind, Idle, Asking
  <2>8. ASSUME \/ AddCredential(r) \/ ConsumeChallenge(r)
               \/ \E c \in Proofs :
                    \/ \E g \in Accounts : GoogleComplete(r, c, g)
                    \/ Enroll(r, c)
                    \/ \E t \in Teachers, n \in 0..MaxCount : LookUpCredential(r, c, t, n)
               \/ \E s \in Ids : AskForCodes(r, s)
        PROVE  req'[r].at # "mint"
    BY <2>8 DEF AddCredential, ConsumeChallenge, GoogleComplete, Enroll, LookUpCredential,
       AskForCodes, Goto, Asking, Asked
  <2>9. CASE Server(r)
    BY <1>2, <2>4, <2>5, <2>6, <2>7, <2>8, <2>9 DEF Server
  <2> QED BY <2>1, <2>2, <2>9, ReqSteps
<1>3. ASSUME NEW s \in Ids, session'[s].door = "google"
      PROVE  account'[session'[s].teacher] = session'[s].account
  <2>1. CASE session[s].state # "none"
    <3>1. /\ session'[s].teacher = session[s].teacher
          /\ session'[s].account = session[s].account
          /\ session[s].door = "google"
          /\ Fits(session[s])
      BY <1>3, <2>1, OldSessions DEF Shapes, DoorsFit
    <3> QED BY <1>1, <2>1, <3>1 DEF Fits, SessionsMatchTheirAccount
  <2>2. CASE session[s].state = "none"
    <3>1. session'[s] # session[s] /\ SessionTypes /\ DoorsFit
      BY <1>3, <2>2 DEF Shapes, DoorsFit, Fits, NoSession
    <3>2. ASSUME NEW r \in Requests, NEW t \in Teachers, Bind(r, t),
                 session'[s] = NewSession(t, "google", [proof |-> req[r].proof],
                                          req[r].account)
          PROVE  account'[session'[s].teacher] = session'[s].account
      BY <3>2 DEF Bind, NewSession, PeopleTypes
    <3>3. ASSUME NEW r \in Requests, MintGoogle(r),
                 session'[s] = NewSession(req[r].teacher, "google",
                                          [proof |-> req[r].proof], req[r].account)
          PROVE  account'[session'[s].teacher] = session'[s].account
      BY <3>3 DEF MintGoogle, NewSession, people, AboutToMatch
    <3>4. \A v \in Invites, b \in Tabs : session'[s] #
              NewSession(invite[v].teacher, "invite", [invite |-> v, tab |-> b], None)
      BY <1>3 DEF NewSession
    <3>5. \A r \in Requests : session'[s] #
              NewSession(req[r].teacher, "passkey", [proof |-> req[r].proof],
                         account[req[r].teacher])
      BY <1>3 DEF NewSession
    <3>6. \A t \in Teachers, k \in 1..MaxSets : session'[s] #
              NewSession(t, "recovery", [code |-> <<t, k>>], account[t])
      BY <1>3 DEF NewSession
    <3> QED BY <2>2, <3>1, <3>2, <3>3, <3>4, <3>5, <3>6, NewSessions
  <2> QED BY <2>1, <2>2
<1> QED BY <1>2, <1>3 DEF AboutToMatch, SessionsMatchTheirAccount

(* A session that came through Google is that of the teacher to whom the     *)
(* posted account is linked, for all interleavings of Google requests.       *)
THEOREM AccountsMatch == Spec => []SessionsMatchTheirAccount
<1>1. Init => AboutToMatch /\ SessionsMatchTheirAccount
  <2>1. Init => session = [s \in Ids |-> NoSession] /\ req = [r \in Requests |-> Idle]
    BY DEF Init
  <2> QED BY <2>1 DEF AboutToMatch, SessionsMatchTheirAccount, NoSession, Idle, Asking
<1> QED BY <1>1, BaseInitially, BaseStep, MatchStep, PTL DEF Spec
-----------------------------------------------------------------------------
(* Lost answers. *)

(* A tab that has dropped its nonce read an answer: the present secret of the *)
(* session it redeemed, or that of another one.                              *)
AnswersReach ==
  \A s \in Ids : session[s].door = "invite" /\ Open(s) =>
    LET b == session[s].by.tab
    IN  \/ tab[b].keeps
        \/ tab[b].cookie = [id |-> s, secret |-> session[s].secret]
        \/ tab[b].cookie.id \notin {0, s}

(* Only the tab that redeemed an invite makes its session change its secret. *)
LEMMA SecretsLast ==
  ASSUME Base, [Next]_vars, NEW s \in Ids, session[s].state # "none",
         session'[s].secret # session[s].secret
  PROVE  \E v \in Invites, b \in Tabs :
           /\ Reissue(v, b)
           /\ tab[b].keeps
           /\ session[s].by.tab = b
           /\ Answered(b, s, session'[s].secret)
<1> USE DEF Base, Types, SessionTypes, Sessions
<1>1. ASSUME NEW S \in SUBSET Ids, session' = Revoked(S)
      PROVE  session'[s].secret = session[s].secret
  BY <1>1 DEF Revoked
<1>2. ASSUME NEW t \in Teachers, RevokeRole(t) \/ Deactivate(t)
      PROVE  FALSE
  BY <1>1, <1>2 DEF RevokeRole, Deactivate, SessionsOf
<1>3. ASSUME NEW u \in Ids, RevokeSession(u) \/ TimePasses(u)
      PROVE  FALSE
  BY <1>1, <1>3 DEF RevokeSession, TimePasses
<1>4. ASSUME NEW t, NEW door, NEW by, NEW g, NEW u \in Ids, Minted(u, t, door, by, g)
      PROVE  FALSE
  BY <1>4 DEF Minted
<1>5. ASSUME NEW r \in Requests, MintGoogle(r) \/ MintPasskey(r) \/ \E t \in Teachers : Bind(r, t)
      PROVE  FALSE
  BY <1>4, <1>5 DEF MintGoogle, MintPasskey, Bind, Mint
<1>6. ASSUME NEW v \in Invites, NEW b \in Tabs, Redeem(v, b)
      PROVE  FALSE
  BY <1>4, <1>6 DEF Redeem
<1>7. ASSUME NEW t \in Teachers, NEW k \in 1..MaxSets, RedeemCode(t, k)
      PROVE  FALSE
  BY <1>4, <1>7 DEF RedeemCode, Mint
<1>8. ASSUME NEW v \in Invites, NEW b \in Tabs, Reissue(v, b)
      PROVE  /\ tab[b].keeps
             /\ session[s].by.tab = b
             /\ Answered(b, s, session'[s].secret)
  BY <1>8 DEF Reissue, MayReissue, SessionOf
<1> QED BY <1>2, <1>3, <1>5, <1>6, <1>7, <1>8, SessionSteps

LEMMA AnswersStep ==
  ASSUME Base, AnswersReach, [Next]_vars
  PROVE  AnswersReach'
<1> USE DEF Base, Types, TabTypes, TabStates
<1>1. ASSUME NEW b \in Tabs, tab'[b] # tab[b]
      PROVE  \E u \in Ids :
               /\ tab'[b].cookie.id = u
               /\ session[u].state = "none" \/ session'[u].secret # session[u].secret
  <2>1. ASSUME NEW c \in Tabs, NEW u \in Ids, NEW secret, Answered(c, u, secret)
        PROVE  tab'[b].cookie.id = u
    BY <1>1, <2>1 DEF Answered
  <2>2. ASSUME NEW v \in Invites, NEW c \in Tabs, Redeem(v, c)
        PROVE  \E u \in Ids : Answered(c, u, 1) /\ session[u].state = "none"
    BY <2>2 DEF Redeem, Minted
  <2>3. ASSUME NEW v \in Invites, NEW c \in Tabs, Reissue(v, c)
        PROVE  \E u \in Ids :
                 /\ Answered(c, u, session[u].secret + 1)
                 /\ session'[u].secret # session[u].secret
    BY <2>3 DEF Reissue, SessionOf, SessionTypes, Sessions
  <2> QED BY <1>1, <2>1, <2>2, <2>3, TabSteps
<1>2. SUFFICES ASSUME NEW s \in Ids, session'[s].door = "invite", Open(s)'
               PROVE  LET b == session'[s].by.tab
                      IN  \/ tab'[b].keeps
                          \/ tab'[b].cookie = [id |-> s, secret |-> session'[s].secret]
                          \/ tab'[b].cookie.id \notin {0, s}
  BY DEF AnswersReach
<1>3. PICK b \in Tabs : b = session'[s].by.tab
  BY <1>2, SessionsStep DEF DoorsFit, Fits, ByInvite
<1>4. ASSUME NEW secret, Answered(b, s, secret), secret = session'[s].secret, tab[b].keeps
      PROVE  \/ tab'[b].keeps
             \/ tab'[b].cookie = [id |-> s, secret |-> session'[s].secret]
  BY <1>4 DEF Answered
<1>5. CASE session[s].state # "none"
  <2>1. /\ Open(s)
        /\ session[s].door = "invite"
        /\ session[s].by.tab = b
    BY <1>2, <1>3, <1>5, OldSessions DEF Open, Shapes
  <2>2. CASE session'[s].secret # session[s].secret
    BY <1>3, <1>4, <1>5, <2>1, <2>2, SecretsLast
  <2>3. CASE session'[s].secret = session[s].secret
    <3>1. CASE tab'[b] = tab[b]
      BY <1>3, <2>1, <2>3, <3>1 DEF AnswersReach
    <3>2. CASE tab'[b] # tab[b]
      <4>1. tab'[b].cookie.id \in Ids \ {s}
        BY <1>1, <1>5, <2>3, <3>2
      <4> QED BY <1>3, <4>1 DEF Ids
    <3> QED BY <3>1, <3>2
  <2> QED BY <2>2, <2>3
<1>6. CASE session[s].state = "none"
  <2>1. session'[s] # session[s] /\ SessionTypes /\ DoorsFit
    BY <1>2, <1>6 DEF Open, Shapes
  <2>2. \A r \in Requests, t \in Teachers : session'[s] #
            NewSession(t, "google", [proof |-> req[r].proof], req[r].account)
    BY <1>2 DEF NewSession
  <2>3. \A r \in Requests : session'[s] #
            NewSession(req[r].teacher, "google", [proof |-> req[r].proof], req[r].account)
    BY <1>2 DEF NewSession
  <2>4. \A r \in Requests : session'[s] #
            NewSession(req[r].teacher, "passkey", [proof |-> req[r].proof],
                       account[req[r].teacher])
    BY <1>2 DEF NewSession
  <2>5. \A t \in Teachers, k \in 1..MaxSets : session'[s] #
            NewSession(t, "recovery", [code |-> <<t, k>>], account[t])
    BY <1>2 DEF NewSession
  <2>6. PICK v \in Invites, c \in Tabs :
          /\ Redeem(v, c)
          /\ session'[s] = NewSession(invite[v].teacher, "invite", [invite |-> v, tab |-> c], None)
    BY <1>6, <2>1, <2>2, <2>3, <2>4, <2>5, NewSessions
  <2>7. session'[s].by.tab = c /\ session'[s].secret = 1 /\ c = b
    BY <1>3, <2>6 DEF NewSession
  <2>8. tab[c].keeps /\ \E u \in Ids : session'[u] # session[u] /\ Answered(c, u, 1)
    BY <2>6 DEF Redeem, Minted, SessionTypes
  <2>9. Answered(c, s, 1)
    BY <1>6, <2>1, <2>8, NewSessions
  <2> QED BY <1>3, <1>4, <2>7, <2>8, <2>9
<1> QED BY <1>5, <1>6

(* While its session is open and its teacher granted, a tab whose answer was *)
(* lost gets a working secret from the next redemption, for any number of    *)
(* invites and tabs; a tab that has entered by another invite is another's.  *)
THEOREM AnswersAreRecoverable == Spec => []LostAnswersAreRecoverable
<1>1. Base /\ NothingOutlivesARevocation /\ Owned /\ AnswersReach => LostAnswersAreRecoverable
  BY DEF LostAnswersAreRecoverable, AnswersReach, MayReissue, NothingOutlivesARevocation,
     Owned, InvitesAreSpent
<1>2. Init => AnswersReach /\ NothingOutlivesARevocation
  <2>1. Init => /\ session = [s \in Ids |-> NoSession]
                /\ reserved = [t \in Teachers |-> None]
                /\ invite = [v \in Invites |-> [state |-> "none", teacher |-> None]]
    BY DEF Init
  <2> QED BY <2>1 DEF AnswersReach, NothingOutlivesARevocation, Open, NoSession
<1> QED
  BY <1>1, <1>2, BaseInitially, BaseStep, OwnedInitially, OwnedStep, RevocationStep,
     AnswersStep, PTL DEF Spec
=============================================================================
