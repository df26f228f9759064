------------------------------ MODULE Sessions ------------------------------
(***************************************************************************)
(* Who may act for a student: signed requests of the CLI (service/personal *)
(* and packages/go/auth), browser sessions in the memory of the API        *)
(* (http/browser_session.go) and the three ways to get one: the callback   *)
(* of the device flow, a ticket of `labkit web`, and the school's login.   *)
(* Keys are revoked meanwhile.  Lives are counted down by Tick; what lives *)
(* 0 is expired.  Nonces, keys and tickets are rows and survive a restart, *)
(* sessions do not.  Each key is bound once; see Devices for rebinding and *)
(* WebSessions for the transactions of a ticket.                           *)
(***************************************************************************)
EXTENDS Naturals

CONSTANTS
  Students,
  Keys,        \* device keys
  Owner,       \* the student each key is bound for
  Browsers,
  Requests,    \* signed requests that are sent
  Signed,      \* what each was signed for: key, nonce and operation
  SessionTTL, TicketTTL,
  None         \* no key: a session of the school's login

Operations == {"rename", "ticket", "revoke"}

ASSUME SessionsAssumption ==
  /\ Owner \in [Keys -> Students]
  /\ \A r \in Requests : Signed[r].key \in Keys /\ Signed[r].op \in Operations
  /\ SessionTTL \in Nat \ {0} /\ TicketTTL \in Nat \ {0}
  /\ None \notin Keys

VARIABLES
  key,         \* user_keys: unbound, active or revoked
  nickname,    \* users.nickname
  usedNonces,  \* used_nonces
  request,     \* how far the API is with each signed request
  ticket,      \* life of the ticket a request created
  state,       \* life of a browser's labkit_oauth_state cookie
  issuing,     \* who a browser's callback or exchange is about to let in
  session,     \* the entry of browserSessions that a browser's cookie names
  click        \* who a browser's write was authenticated as

signedVars  == <<key, nickname, usedNonces, request, ticket>>
browserVars == <<state, issuing, session, click>>
vars        == <<signedVars, browserVars>>

Nonces == {Signed[r].nonce : r \in Requests}

Identity(s, k) == [student |-> s, key |-> k]

Nobody == Identity(None, None)

NoSession == [who |-> Nobody, left |-> 0]

Init ==
  /\ key = [k \in Keys |-> "unbound"]
  /\ nickname = [s \in Students |-> "default"]
  /\ usedNonces = {}
  /\ request = [r \in Requests |-> "unsent"]
  /\ ticket = [r \in Requests |-> 0]
  /\ state = [b \in Browsers |-> 0]
  /\ issuing = [b \in Browsers |-> Nobody]
  /\ session = [b \in Browsers |-> NoSession]
  /\ click = [b \in Browsers |-> Nobody]

-----------------------------------------------------------------------------
(* A signed request: personal.Service.Authenticate finds the key, checks   *)
(* signature and freshness and reserves the nonce, one statement each.     *)
KeyEverBound(k) == key[k] # "unbound"   \* mutation: revoked_at is not looked at
KeyFound(k) == key[k] = "active"

Becomes(r, pc) == request' = [request EXCEPT ![r] = pc]

GetUserKey(r) ==
  /\ request[r] = "unsent"
  /\ Becomes(r, IF KeyFound(Signed[r].key) THEN "known" ELSE "refused")
  /\ UNCHANGED <<key, nickname, usedNonces, ticket, browserVars>>

(* Verify: a bad signature or an old timestamp.                            *)
VerifyFails(r) ==
  /\ request[r] = "known"
  /\ Becomes(r, "refused")
  /\ UNCHANGED <<key, nickname, usedNonces, ticket, browserVars>>

AlwaysReserved(n) == TRUE   \* mutation: RowsAffected is not looked at
Reserved(n) == n \notin usedNonces

ReserveNonce(r) ==
  LET n == Signed[r].nonce IN
  /\ request[r] = "known"
  /\ Becomes(r, IF Reserved(n) THEN "authenticated" ELSE "refused")
  /\ usedNonces' = usedNonces \cup {n}
  /\ UNCHANGED <<key, nickname, ticket, browserVars>>

Signer(r) == Owner[Signed[r].key]

(* UpdateUserProfile.                                                      *)
UpdateNickname(r) ==
  /\ request[r] = "authenticated" /\ Signed[r].op = "rename"
  /\ nickname' = [nickname EXCEPT ![Signer(r)] = "signed"]
  /\ Becomes(r, "done")
  /\ UNCHANGED <<key, usedNonces, ticket, browserVars>>

(* RevokeKey: any key, which may be the signing one.  DeleteUserKey passes *)
(* over those that are not the signer's or not active.                     *)
RevokeKey(r) ==
  /\ request[r] = "authenticated" /\ Signed[r].op = "revoke"
  /\ \E k \in Keys :
       key' = IF Owner[k] = Signer(r) /\ key[k] = "active"
              THEN [key EXCEPT ![k] = "revoked"] ELSE key
  /\ Becomes(r, "done")
  /\ UNCHANGED <<nickname, usedNonces, ticket, browserVars>>

(* CreateSessionTicket.                                                    *)
CreateTicket(r) ==
  /\ request[r] = "authenticated" /\ Signed[r].op = "ticket"
  /\ ticket' = [ticket EXCEPT ![r] = TicketTTL]
  /\ Becomes(r, "done")
  /\ UNCHANGED <<key, nickname, usedNonces, browserVars>>

(* The client goes away or a statement fails.                              *)
Fail(r) ==
  /\ request[r] \in {"known", "authenticated"}
  /\ Becomes(r, "refused")
  /\ UNCHANGED <<key, nickname, usedNonces, ticket, browserVars>>

Act(r) == UpdateNickname(r) \/ RevokeKey(r) \/ CreateTicket(r)

-----------------------------------------------------------------------------
(* OAuthCallbackHandler, the transaction that binds the key of a device.   *)
BindKey(b, k) ==
  /\ issuing[b] = Nobody
  /\ key[k] = "unbound"
  /\ key' = [key EXCEPT ![k] = "active"]
  /\ issuing' = [issuing EXCEPT ![b] = Identity(Owner[k], k)]
  /\ UNCHANGED <<nickname, usedNonces, request, ticket, state, session, click>>

(* ExchangeSessionTicket, its transaction.  Nothing looks at the key.      *)
ConsumeTicket(b, r) ==
  /\ issuing[b] = Nobody
  /\ ticket[r] > 0
  /\ ticket' = [ticket EXCEPT ![r] = 0]
  /\ issuing' = [issuing EXCEPT ![b] = Identity(Signer(r), Signed[r].key)]
  /\ UNCHANGED <<key, nickname, usedNonces, request, state, session, click>>

(* WebLoginHandler.Start, and the callback that carries its state back.    *)
StartLogin(b) ==
  /\ state[b] = 0
  /\ state' = [state EXCEPT ![b] = 1]
  /\ UNCHANGED <<signedVars, issuing, session, click>>

LoginCallback(b, s) ==
  /\ issuing[b] = Nobody
  /\ state[b] > 0
  /\ state' = [state EXCEPT ![b] = 0]
  /\ issuing' = [issuing EXCEPT ![b] = Identity(s, None)]
  /\ UNCHANGED <<signedVars, session, click>>

SessionLife == SessionTTL

(* issueBrowserSession: the cookie of the browser names the new entry.     *)
IssueSession(b) ==
  /\ issuing[b] # Nobody
  /\ session' = [session EXCEPT ![b] = [who |-> issuing[b], left |-> SessionLife]]
  /\ issuing' = [issuing EXCEPT ![b] = Nobody]
  /\ UNCHANGED <<signedVars, state, click>>

-----------------------------------------------------------------------------
(* lookupBrowserSession forgets an entry that it finds expired.            *)
LookUpExpired(b) ==
  /\ session[b] # NoSession /\ session[b].left = 0
  /\ session' = [session EXCEPT ![b] = NoSession]
  /\ UNCHANGED <<signedVars, state, issuing, click>>

SlidingLife(b) == SessionTTL   \* mutation: a look-up prolongs the session
LifeAfterUse(b) == session[b].left

(* authenticateWritableRequest: the school's login only reads.             *)
AnySession(who) == TRUE   \* mutation: the source is not looked at
Writable(who) == who.key # None

AuthenticateWrite(b) ==
  /\ click[b] = Nobody
  /\ session[b].left > 0
  /\ Writable(session[b].who)
  /\ click' = [click EXCEPT ![b] = session[b].who]
  /\ session' = [session EXCEPT ![b].left = LifeAfterUse(b)]
  /\ UNCHANGED <<signedVars, state, issuing>>

WriteNickname(b) ==
  /\ click[b] # Nobody
  /\ nickname' = [nickname EXCEPT ![click[b].student] = "clicked"]
  /\ click' = [click EXCEPT ![b] = Nobody]
  /\ UNCHANGED <<key, usedNonces, request, ticket, state, issuing, session>>

-----------------------------------------------------------------------------
ApiRestart ==
  /\ request' = [r \in Requests |->
                   IF request[r] \in {"known", "authenticated"} THEN "refused"
                   ELSE request[r]]
  /\ issuing' = [b \in Browsers |-> Nobody]
  /\ session' = [b \in Browsers |-> NoSession]
  /\ click' = [b \in Browsers |-> Nobody]
  /\ UNCHANGED <<key, nickname, usedNonces, ticket, state>>

Less(n) == IF n > 0 THEN n - 1 ELSE 0

Tick ==
  /\ ticket' = [r \in Requests |-> Less(ticket[r])]
  /\ state' = [b \in Browsers |-> Less(state[b])]
  /\ session' = [b \in Browsers |-> [session[b] EXCEPT !.left = Less(@)]]
  /\ UNCHANGED <<key, nickname, usedNonces, request, issuing, click>>

Next ==
  \/ \E r \in Requests : GetUserKey(r) \/ VerifyFails(r) \/ ReserveNonce(r)
                         \/ Act(r) \/ Fail(r)
  \/ \E b \in Browsers :
       \/ \E k \in Keys : BindKey(b, k)
       \/ \E r \in Requests : ConsumeTicket(b, r)
       \/ StartLogin(b)
       \/ \E s \in Students : LoginCallback(b, s)
       \/ IssueSession(b)
       \/ LookUpExpired(b) \/ AuthenticateWrite(b) \/ WriteNickname(b)
  \/ ApiRestart
  \/ Tick

Spec == Init /\ [][Next]_vars

(* Handlers run on, and time passes.  Nobody has to send a request or to   *)
(* exchange a ticket.                                                      *)
FairSpec ==
  /\ Spec
  /\ WF_vars(Tick)
  /\ \A r \in Requests : WF_vars(ReserveNonce(r) \/ Act(r) \/ Fail(r))
  /\ \A b \in Browsers : WF_vars(IssueSession(b)) /\ WF_vars(WriteNickname(b))

-----------------------------------------------------------------------------
Identities == [student : Students, key : Keys \cup {None}] \cup {Nobody}

(* Every variable has its type; a student acts with keys of his own.       *)
TypeOK ==
  /\ key \in [Keys -> {"unbound", "active", "revoked"}]
  /\ nickname \in [Students -> {"default", "signed", "clicked"}]
  /\ usedNonces \subseteq Nonces
  /\ request \in [Requests -> {"unsent", "known", "authenticated", "done", "refused"}]
  /\ ticket \in [Requests -> 0 .. TicketTTL]
  /\ state \in [Browsers -> 0 .. 1]
  /\ issuing \in [Browsers -> Identities]
  /\ session \in [Browsers -> [who : Identities, left : 0 .. SessionTTL]]
  /\ click \in [Browsers -> Identities]

(* What is still on its way, or alive, in the name of a key.               *)
Lives(k) ==
  \/ key[k] = "active"
  \/ \E r \in Requests : Signed[r].key = k /\ (ticket[r] > 0 \/ request[r] \in {"known", "authenticated"})
  \/ \E b \in Browsers : \/ k \in {issuing[b].key, click[b].key}
                         \/ session[b].left > 0 /\ session[b].who.key = k

Silent(k) == key[k] = "revoked" /\ ~Lives(k)

(* A signed request that is repeated, by a retry of the client or by the   *)
(* network, is let in at most once: between the look-up of the key and the *)
(* nonce the requests overlap, and the insert decides.                     *)
NonceAdmitsOnce ==
  /\ TypeOK
  /\ \A r, q \in Requests :
       /\ r # q /\ Signed[r].nonce = Signed[q].nonce
       /\ request[r] \in {"authenticated", "done"}
       => request[q] \notin {"authenticated", "done"}

(* A revoked key that has nothing left on its way has nothing ever again:  *)
(* no request, ticket, session or restart brings it back.                  *)
RevocationIsFinal ==
  [][\A k \in Keys : Silent(k) => Silent(k)']_vars

(* And it comes to that: a key is revoked while requests it signed are     *)
(* being handled, tickets wait to be exchanged, callbacks are about to     *)
(* issue sessions and sessions last on; all of it ends.                    *)
RevocationTakesHold ==
  \A k \in Keys : key[k] = "revoked" ~> Silent(k)

(* "Read-only": what a student is called changes only in the name of one   *)
(* of his keys, whoever else logs in on his browser and however a session  *)
(* ends or changes hands between a write's authentication and its effect.  *)
WritesNeedAKey ==
  [][\A s \in Students : nickname'[s] # nickname[s] =>
       \E k \in Keys : Owner[k] = s /\ Lives(k)]_vars
=============================================================================
