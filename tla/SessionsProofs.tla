--------------------------- MODULE SessionsProofs ---------------------------
(***************************************************************************)
(* What Sessions promises for any students, keys, browsers and requests.   *)
(***************************************************************************)
EXTENDS Sessions, TLAPS

(* A request that was let in has left its nonce behind.                    *)
NoncesLeft ==
  \A r \in Requests :
    request[r] \in {"authenticated", "done"} => Signed[r].nonce \in usedNonces

AdmittedOnce ==
  \A r, q \in Requests :
    /\ r # q /\ Signed[r].nonce = Signed[q].nonce
    /\ request[r] \in {"authenticated", "done"}
    => request[q] \notin {"authenticated", "done"}

(* An identity that names a key names the student it is bound for.         *)
Honest(who) == who.key \in Keys => Owner[who.key] = who.student

HonestIdentities ==
  \A b \in Browsers :
    /\ Honest(issuing[b]) /\ Honest(session[b].who) /\ Honest(click[b])
    /\ click[b] # Nobody => click[b].key \in Keys

IInv == TypeOK /\ NoncesLeft /\ AdmittedOnce /\ HonestIdentities

-----------------------------------------------------------------------------
(* The initial state: nobody is let in and no session exists.              *)
LEMMA InitInv == Init => IInv
  <1> SUFFICES ASSUME Init PROVE IInv
    OBVIOUS
  <1> USE SessionsAssumption DEF Init
  <1>1. TypeOK
    BY DEF TypeOK, Identities, NoSession, Nobody, Identity
  <1>2. NoncesLeft /\ AdmittedOnce
    BY DEF NoncesLeft, AdmittedOnce
  <1>3. HonestIdentities
    BY DEF HonestIdentities, Honest, NoSession, Nobody, Identity
  <1> QED
    BY <1>1, <1>2, <1>3 DEF IInv

(* What the steps of signed requests and browsers make of the variables is *)
(* of the right type.                                                      *)
LEMMA TypeStep == TypeOK /\ [Next]_vars => TypeOK'
  <1> SUFFICES ASSUME TypeOK, [Next]_vars PROVE TypeOK'
    OBVIOUS
  <1> USE SessionsAssumption DEF TypeOK
  <1>1. ASSUME NEW r \in Requests,
               \/ GetUserKey(r) \/ VerifyFails(r) \/ ReserveNonce(r) \/ Fail(r)
        PROVE  TypeOK'
    BY <1>1 DEF GetUserKey, VerifyFails, ReserveNonce, Fail, Becomes, browserVars,
                Nonces
  <1>2. ASSUME NEW r \in Requests, UpdateNickname(r) PROVE TypeOK'
    <2>1. Signer(r) \in Students
      BY DEF Signer
    <2> QED
      BY <1>2, <2>1 DEF UpdateNickname, Becomes, browserVars
  <1>3. ASSUME NEW r \in Requests, RevokeKey(r) PROVE TypeOK'
    BY <1>3 DEF RevokeKey, Becomes, browserVars
  <1>4. ASSUME NEW r \in Requests, CreateTicket(r) PROVE TypeOK'
    BY <1>4 DEF CreateTicket, Becomes, browserVars
  <1>5. ASSUME NEW b \in Browsers, NEW k \in Keys, BindKey(b, k) PROVE TypeOK'
    <2>1. Identity(Owner[k], k) \in Identities
      BY DEF Identity, Identities
    <2> QED
      BY <1>5, <2>1 DEF BindKey
  <1>6. ASSUME NEW b \in Browsers, NEW r \in Requests, ConsumeTicket(b, r) PROVE TypeOK'
    <2>1. Identity(Signer(r), Signed[r].key) \in Identities
      BY DEF Identity, Identities, Signer
    <2> QED
      BY <1>6, <2>1 DEF ConsumeTicket
  <1>7. ASSUME NEW b \in Browsers, StartLogin(b) PROVE TypeOK'
    BY <1>7 DEF StartLogin, signedVars
  <1>8. ASSUME NEW b \in Browsers, NEW s \in Students, LoginCallback(b, s) PROVE TypeOK'
    <2>1. Identity(s, None) \in Identities
      BY DEF Identity, Identities
    <2> QED
      BY <1>8, <2>1 DEF LoginCallback, signedVars
  <1>9. ASSUME NEW b \in Browsers, IssueSession(b) PROVE TypeOK'
    <2>1. Nobody \in Identities /\ SessionLife \in 0 .. SessionTTL
      BY DEF Identities, SessionLife
    <2> QED
      BY <1>9, <2>1 DEF IssueSession, signedVars
  <1>10. ASSUME NEW b \in Browsers, LookUpExpired(b) PROVE TypeOK'
    <2>1. NoSession \in [who : Identities, left : 0 .. SessionTTL]
      BY DEF NoSession, Identities
    <2> QED
      BY <1>10, <2>1 DEF LookUpExpired, signedVars
  <1>11. ASSUME NEW b \in Browsers, AuthenticateWrite(b) PROVE TypeOK'
    BY <1>11 DEF AuthenticateWrite, LifeAfterUse, signedVars
  <1>12. ASSUME NEW b \in Browsers, WriteNickname(b) PROVE TypeOK'
    <2>1. Nobody \in Identities
      BY DEF Identities
    <2> QED
      BY <1>12, <2>1 DEF WriteNickname
  <1>13. CASE ApiRestart
    <2>1. Nobody \in Identities
          /\ NoSession \in [who : Identities, left : 0 .. SessionTTL]
      BY DEF Identities, NoSession
    <2> QED
      BY <1>13, <2>1 DEF ApiRestart
  <1>14. CASE Tick
    <2>1. \A n \in Nat : \A m \in 0 .. n : Less(m) \in 0 .. n
      BY DEF Less
    <2>2. ticket' \in [Requests -> 0 .. TicketTTL] /\ state' \in [Browsers -> 0 .. 1]
      BY <1>14, <2>1 DEF Tick
    <2>3. session' \in [Browsers -> [who : Identities, left : 0 .. SessionTTL]]
      BY <1>14, <2>1 DEF Tick
    <2> QED
      BY <1>14, <2>2, <2>3 DEF Tick
  <1>15. CASE UNCHANGED vars
    BY <1>15 DEF vars, signedVars, browserVars
  <1> QED
    BY <1>1, <1>2, <1>3, <1>4, <1>5, <1>6, <1>7, <1>8, <1>9, <1>10, <1>11, <1>12,
       <1>13, <1>14, <1>15 DEF Next, Act

-----------------------------------------------------------------------------
(* Only ReserveNonce lets a request in, and it inserts the nonce or finds  *)
(* it; nothing ever deletes one.                                           *)
LEMMA NonceStep ==
    TypeOK /\ NoncesLeft /\ AdmittedOnce /\ [Next]_vars => (NoncesLeft /\ AdmittedOnce)'
  <1> SUFFICES ASSUME TypeOK, NoncesLeft, AdmittedOnce, [Next]_vars
               PROVE  NoncesLeft' /\ AdmittedOnce'
    OBVIOUS
  <1> DEFINE In(r) == request[r] \in {"authenticated", "done"}
  <1>1. ASSUME NEW r \in Requests, ReserveNonce(r) PROVE NoncesLeft' /\ AdmittedOnce'
    <2>1. usedNonces' = usedNonces \cup {Signed[r].nonce}
      BY <1>1 DEF ReserveNonce
    <2>2. \A q \in Requests : q # r => request'[q] = request[q]
      BY <1>1 DEF ReserveNonce, Becomes, TypeOK
    <2>3. In(r)' => Signed[r].nonce \notin usedNonces
      BY <1>1 DEF ReserveNonce, Becomes, Reserved, TypeOK
    <2>4. NoncesLeft'
      BY <2>1, <2>2 DEF NoncesLeft
    <2>5. ASSUME NEW p \in Requests, NEW q \in Requests, p # q,
                 Signed[p].nonce = Signed[q].nonce, In(p)'
          PROVE  ~In(q)'
      <3>1. CASE p = r
        BY <3>1, <2>2, <2>3, <2>5 DEF NoncesLeft
      <3>2. CASE q = r
        BY <3>2, <2>2, <2>3, <2>5 DEF NoncesLeft
      <3>3. CASE p # r /\ q # r
        BY <3>3, <2>2, <2>5 DEF AdmittedOnce
      <3> QED
        BY <3>1, <3>2, <3>3
    <2> QED
      BY <2>4, <2>5 DEF AdmittedOnce
  <1>2. CASE usedNonces' = usedNonces /\ \A q \in Requests : In(q)' => In(q)
    BY <1>2 DEF NoncesLeft, AdmittedOnce
  <1>3. ASSUME NEW r \in Requests, GetUserKey(r) \/ VerifyFails(r) \/ Fail(r) \/ Act(r)
        PROVE  usedNonces' = usedNonces /\ \A q \in Requests : In(q)' => In(q)
    BY <1>3 DEF GetUserKey, VerifyFails, Fail, Act, UpdateNickname, RevokeKey, CreateTicket,
                Becomes, TypeOK
  <1>4. ASSUME NEW b \in Browsers,
               \/ \E k \in Keys : BindKey(b, k)
               \/ \E r \in Requests : ConsumeTicket(b, r)
               \/ StartLogin(b)
               \/ \E s \in Students : LoginCallback(b, s)
               \/ IssueSession(b)
               \/ LookUpExpired(b) \/ AuthenticateWrite(b) \/ WriteNickname(b)
        PROVE  usedNonces' = usedNonces /\ \A q \in Requests : In(q)' => In(q)
    BY <1>4 DEF BindKey, ConsumeTicket, StartLogin, LoginCallback, IssueSession,
                LookUpExpired, AuthenticateWrite, WriteNickname, signedVars
  <1>5. CASE ApiRestart
    BY <1>2, <1>5 DEF ApiRestart
  <1>6. CASE Tick
    BY <1>2, <1>6 DEF Tick
  <1>7. CASE UNCHANGED vars
    BY <1>2, <1>7 DEF vars, signedVars
  <1> QED
    BY <1>1, <1>2, <1>3, <1>4, <1>5, <1>6, <1>7 DEF Next

(* Identities are made by the three ways to a session, and then handed on  *)
(* from the callback to the session and from the session to a write.       *)
LEMMA HonestStep ==
    TypeOK /\ HonestIdentities /\ [Next]_vars => HonestIdentities'
  <1> SUFFICES ASSUME TypeOK, HonestIdentities, [Next]_vars PROVE HonestIdentities'
    OBVIOUS
  <1> USE SessionsAssumption
  <1> DEFINE Fine(b) == /\ Honest(issuing[b]) /\ Honest(session[b].who) /\ Honest(click[b])
                        /\ click[b] # Nobody => click[b].key \in Keys
  <1>1. \A b \in Browsers : Fine(b)
    BY DEF HonestIdentities
  <1>2. Honest(Nobody)
    BY DEF Honest, Nobody, Identity
  <1>3. \A k \in Keys : Honest(Identity(Owner[k], k))
    BY DEF Honest, Identity
  <1>4. \A s \in Students : Honest(Identity(s, None))
    BY DEF Honest, Identity
  <1>5. CASE UNCHANGED <<issuing, session, click>>
    BY <1>1, <1>5 DEF HonestIdentities, Honest
  <1>6. ASSUME NEW b \in Browsers, NEW who, Honest(who),
               issuing' = [issuing EXCEPT ![b] = who], UNCHANGED <<session, click>>
        PROVE  HonestIdentities'
    BY <1>1, <1>6 DEF HonestIdentities, Honest, TypeOK
  <1>7. ASSUME NEW r \in Requests,
               GetUserKey(r) \/ VerifyFails(r) \/ ReserveNonce(r) \/ Act(r) \/ Fail(r)
        PROVE  HonestIdentities'
    BY <1>5, <1>7 DEF GetUserKey, VerifyFails, ReserveNonce, Act, Fail, UpdateNickname,
                      RevokeKey, CreateTicket, browserVars
  <1>8. ASSUME NEW b \in Browsers, NEW k \in Keys, BindKey(b, k) PROVE HonestIdentities'
    BY <1>3, <1>6, <1>8 DEF BindKey
  <1>9. ASSUME NEW b \in Browsers, NEW r \in Requests, ConsumeTicket(b, r)
        PROVE  HonestIdentities'
    BY <1>3, <1>6, <1>9 DEF ConsumeTicket, Signer
  <1>10. ASSUME NEW b \in Browsers, NEW s \in Students, LoginCallback(b, s)
         PROVE  HonestIdentities'
    BY <1>4, <1>6, <1>10 DEF LoginCallback
  <1>11. ASSUME NEW b \in Browsers, IssueSession(b) PROVE HonestIdentities'
    <2>1. session'[b].who = issuing[b] /\ issuing'[b] = Nobody
      BY <1>11 DEF IssueSession, TypeOK
    <2>2. \A c \in Browsers : /\ c # b => session'[c] = session[c] /\ issuing'[c] = issuing[c]
                              /\ click'[c] = click[c]
      BY <1>11 DEF IssueSession, TypeOK
    <2> QED
      BY <1>1, <1>2, <2>1, <2>2 DEF HonestIdentities, Honest
  <1>12. ASSUME NEW b \in Browsers, LookUpExpired(b) PROVE HonestIdentities'
    <2>1. session'[b].who = Nobody
      BY <1>12 DEF LookUpExpired, NoSession, TypeOK
    <2>2. \A c \in Browsers : /\ c # b => session'[c] = session[c]
                              /\ issuing'[c] = issuing[c] /\ click'[c] = click[c]
      BY <1>12 DEF LookUpExpired, TypeOK
    <2> QED
      BY <1>1, <1>2, <2>1, <2>2 DEF HonestIdentities, Honest
  <1>13. ASSUME NEW b \in Browsers, AuthenticateWrite(b) PROVE HonestIdentities'
    <2>1. click'[b] = session[b].who /\ session'[b].who = session[b].who
      BY <1>13 DEF AuthenticateWrite, TypeOK
    <2>2. session[b].who.key \in Keys
      BY <1>13 DEF AuthenticateWrite, Writable, TypeOK, Identities, Nobody, Identity
    <2>3. \A c \in Browsers : /\ c # b => session'[c] = session[c] /\ click'[c] = click[c]
                              /\ issuing'[c] = issuing[c]
      BY <1>13 DEF AuthenticateWrite, TypeOK
    <2> QED
      BY <1>1, <2>1, <2>2, <2>3 DEF HonestIdentities, Honest
  <1>14. ASSUME NEW b \in Browsers, WriteNickname(b) PROVE HonestIdentities'
    BY <1>1, <1>2, <1>14 DEF WriteNickname, HonestIdentities, Honest, TypeOK
  <1>15. CASE ApiRestart
    BY <1>2, <1>15 DEF ApiRestart, HonestIdentities, NoSession
  <1>16. CASE Tick
    <2>1. \A b \in Browsers : session'[b].who = session[b].who
      BY <1>16 DEF Tick, TypeOK
    <2> QED
      BY <1>1, <1>16, <2>1 DEF Tick, HonestIdentities, Honest
  <1>17. CASE UNCHANGED vars \/ \E b \in Browsers : StartLogin(b)
    BY <1>5, <1>17 DEF StartLogin, vars, browserVars
  <1> QED
    BY <1>7, <1>8, <1>9, <1>10, <1>11, <1>12, <1>13, <1>14, <1>15, <1>16, <1>17 DEF Next

-----------------------------------------------------------------------------
(* IInv holds in every state the portal reaches: types, spent nonces, one  *)
(* admission for each nonce, and sessions that are their student's.        *)
THEOREM Invariance == Spec => []IInv
  <1>1. IInv /\ [Next]_vars => IInv'
    BY TypeStep, NonceStep, HonestStep DEF IInv
  <1> QED
    BY InitInv, <1>1, PTL DEF Spec

(* However often a signed request is delivered and however the deliveries  *)
(* overlap in Authenticate, at most one of those with a nonce is let in.   *)
THEOREM NoncesAdmitOnce == Spec => []NonceAdmitsOnce
  <1>1. IInv => NonceAdmitsOnce
    BY DEF IInv, AdmittedOnce, NonceAdmitsOnce
  <1> QED
    BY Invariance, <1>1, PTL

(* A student's nickname changes only in the name of one of his own keys    *)
(* that is active or lives on in a request, a ticket or a session, however *)
(* sessions are issued, shared, expired and lost (UpdateNickname).         *)
THEOREM WritesHaveKeys == Spec => WritesNeedAKey
  <1> DEFINE Named(s) == \E k \in Keys : Owner[k] = s /\ Lives(k)
  <1>1. ASSUME IInv, [Next]_vars, NEW s \in Students, nickname'[s] # nickname[s]
        PROVE  Named(s)
    <2> USE <1>1, SessionsAssumption DEF IInv, TypeOK
    <2>1. CASE \E r \in Requests : UpdateNickname(r)
      <3>1. PICK r \in Requests : UpdateNickname(r)
        BY <2>1
      <3>2. s = Signer(r) /\ request[r] = "authenticated"
        BY <3>1 DEF UpdateNickname
      <3> QED
        BY <3>2 DEF Signer, Lives
    <2>2. CASE \E b \in Browsers : WriteNickname(b)
      <3>1. PICK b \in Browsers : WriteNickname(b)
        BY <2>2
      <3>2. s = click[b].student /\ click[b] # Nobody
        BY <3>1 DEF WriteNickname
      <3>3. click[b].key \in Keys /\ Owner[click[b].key] = s
        BY <3>2 DEF HonestIdentities, Honest
      <3> QED
        BY <3>3 DEF Lives
    <2>3. CASE \E r \in Requests : GetUserKey(r) \/ VerifyFails(r) \/ ReserveNonce(r)
                                   \/ RevokeKey(r) \/ CreateTicket(r) \/ Fail(r)
      BY <2>3 DEF GetUserKey, VerifyFails, ReserveNonce, RevokeKey, CreateTicket, Fail
    <2>4. CASE \E b \in Browsers :
                 \/ \E k \in Keys : BindKey(b, k)
                 \/ \E r \in Requests : ConsumeTicket(b, r)
                 \/ StartLogin(b)
                 \/ \E u \in Students : LoginCallback(b, u)
                 \/ IssueSession(b)
                 \/ LookUpExpired(b) \/ AuthenticateWrite(b)
      BY <2>4 DEF BindKey, ConsumeTicket, StartLogin, LoginCallback, IssueSession,
                  LookUpExpired, AuthenticateWrite, signedVars
    <2>5. CASE ApiRestart \/ Tick \/ UNCHANGED vars
      BY <2>5 DEF ApiRestart, Tick, vars, signedVars
    <2> QED
      BY <2>1, <2>2, <2>3, <2>4, <2>5 DEF Next, Act
  <1>2. IInv /\ [Next]_vars => [\A s \in Students : nickname'[s] # nickname[s] => Named(s)]_vars
    BY <1>1
  <1> QED
    BY Invariance, <1>2, PTL DEF WritesNeedAKey, Spec

(* Nothing brings a revoked key back to life once it is silent: no retry,  *)
(* callback, ticket, session or restart (DeleteUserKey sets revoked_at,    *)
(* and everything else starts from a key that is active or unbound).       *)
THEOREM RevokedStaysRevoked == Spec => RevocationIsFinal
  <1>1. ASSUME TypeOK, [Next]_vars, NEW k \in Keys, Silent(k)
        PROVE  Silent(k)'
    <2> USE <1>1, SessionsAssumption DEF TypeOK
    <2>1. /\ key[k] = "revoked"
          /\ \A r \in Requests : Signed[r].key = k =>
               ticket[r] = 0 /\ request[r] \notin {"known", "authenticated"}
          /\ \A b \in Browsers : /\ issuing[b].key # k /\ click[b].key # k
                                 /\ session[b].who.key = k => session[b].left = 0
      BY DEF Silent, Lives
    <2> DEFINE Quiet(r) == Signed[r].key = k =>
                 ticket'[r] = 0 /\ request'[r] \notin {"known", "authenticated"}
               Still(b) == /\ issuing'[b].key # k /\ click'[b].key # k
                           /\ session'[b].who.key = k => session'[b].left = 0
    <2> SUFFICES /\ key'[k] = "revoked"
                 /\ \A r \in Requests : Quiet(r)
                 /\ \A b \in Browsers : Still(b)
      BY DEF Silent, Lives
    <2>2. Nobody.key # k
      BY DEF Nobody, Identity
    <2>3. ASSUME NEW r \in Requests,
                 GetUserKey(r) \/ VerifyFails(r) \/ ReserveNonce(r) \/ Act(r) \/ Fail(r)
          PROVE  /\ key'[k] = "revoked"
                 /\ \A q \in Requests : Quiet(q)
                 /\ \A b \in Browsers : Still(b)
      <3>1. key'[k] = "revoked"
        BY <2>1, <2>3 DEF GetUserKey, VerifyFails, ReserveNonce, Act, Fail, UpdateNickname,
                          RevokeKey, CreateTicket
      <3>2. \A q \in Requests : Quiet(q)
        BY <2>1, <2>3 DEF GetUserKey, VerifyFails, ReserveNonce, Act, Fail, UpdateNickname,
                          RevokeKey, CreateTicket, Becomes, KeyFound
      <3>3. \A b \in Browsers : Still(b)
        <4>1. issuing' = issuing /\ session' = session /\ click' = click
          BY <2>3 DEF GetUserKey, VerifyFails, ReserveNonce, Act, Fail, UpdateNickname,
                      RevokeKey, CreateTicket, browserVars
        <4> QED BY <2>1, <4>1
      <3> QED
        BY <3>1, <3>2, <3>3
    <2>4. ASSUME NEW b \in Browsers,
                 \/ \E j \in Keys : BindKey(b, j)
                 \/ \E r \in Requests : ConsumeTicket(b, r)
                 \/ StartLogin(b)
                 \/ \E s \in Students : LoginCallback(b, s)
          PROVE  /\ key'[k] = "revoked"
                 /\ \A q \in Requests : Quiet(q)
                 /\ \A c \in Browsers : Still(c)
      <3>1. key'[k] = "revoked"
        BY <2>1, <2>4 DEF BindKey, ConsumeTicket, StartLogin, LoginCallback, signedVars
      <3>2. \A q \in Requests : Quiet(q)
        BY <2>1, <2>4 DEF BindKey, ConsumeTicket, StartLogin, LoginCallback, signedVars
      <3>3. \A c \in Browsers : Still(c)
        <4>1. ASSUME NEW j \in Keys, BindKey(b, j)
              PROVE  \A c \in Browsers : Still(c)
          BY <2>1, <4>1 DEF BindKey, Identity
        <4>2. ASSUME NEW r \in Requests, ConsumeTicket(b, r)
              PROVE  \A c \in Browsers : Still(c)
          BY <2>1, <4>2 DEF ConsumeTicket, Identity
        <4>3. CASE StartLogin(b)
          BY <2>1, <4>3 DEF StartLogin
        <4>4. ASSUME NEW s \in Students, LoginCallback(b, s)
              PROVE  \A c \in Browsers : Still(c)
          BY <2>1, <4>4 DEF LoginCallback, Identity
        <4> QED BY <2>4, <4>1, <4>2, <4>3, <4>4
      <3> QED
        BY <3>1, <3>2, <3>3
    <2>5. ASSUME NEW b \in Browsers,
                 IssueSession(b) \/ LookUpExpired(b) \/ AuthenticateWrite(b) \/ WriteNickname(b)
          PROVE  /\ key'[k] = "revoked"
                 /\ \A q \in Requests : Quiet(q)
                 /\ \A c \in Browsers : Still(c)
      <3>1. key' = key /\ request' = request /\ ticket' = ticket
        BY <2>5 DEF IssueSession, LookUpExpired, AuthenticateWrite, WriteNickname, signedVars
      <3>2. CASE IssueSession(b)
        BY <2>1, <2>2, <3>1, <3>2 DEF IssueSession
      <3>3. CASE LookUpExpired(b)
        BY <2>1, <2>2, <3>1, <3>3 DEF LookUpExpired, NoSession
      <3>4. CASE AuthenticateWrite(b)
        <4>1. session[b].who.key # k
          BY <2>1, <3>4 DEF AuthenticateWrite
        <4>2. click' = [click EXCEPT ![b] = session[b].who] /\ issuing' = issuing
          BY <3>4 DEF AuthenticateWrite
        <4>3. \A c \in Browsers : session'[c].who = session[c].who
                                  /\ session'[c].left = session[c].left
          BY <3>4 DEF AuthenticateWrite, LifeAfterUse
        <4> QED
          BY <2>1, <3>1, <4>1, <4>2, <4>3
      <3>5. CASE WriteNickname(b)
        BY <2>1, <2>2, <3>1, <3>5 DEF WriteNickname
      <3> QED
        BY <2>5, <3>2, <3>3, <3>4, <3>5
    <2>6. CASE ApiRestart
      BY <2>1, <2>2, <2>6 DEF ApiRestart, NoSession
    <2>7. CASE Tick
      <3>1. Less(0) = 0
        BY DEF Less
      <3>2. \A b \in Browsers : /\ session'[b].who = session[b].who
                                /\ session[b].left = 0 => session'[b].left = 0
        BY <2>7, <3>1 DEF Tick
      <3> QED
        BY <2>1, <2>7, <3>1, <3>2 DEF Tick
    <2>8. CASE UNCHANGED vars
      BY <2>1, <2>8 DEF vars, signedVars, browserVars
    <2> QED
      BY <2>3, <2>4, <2>5, <2>6, <2>7, <2>8 DEF Next
  <1>2. IInv /\ [Next]_vars => [\A k \in Keys : Silent(k) => Silent(k)']_vars
    BY <1>1 DEF IInv
  <1> QED
    BY Invariance, <1>2, PTL DEF RevocationIsFinal, Spec
=============================================================================
