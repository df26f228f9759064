------------------------------ MODULE Devices ------------------------------
(***************************************************************************)
(* Binding machines to students: `labkit auth` and `labkit revoke` on the  *)
(* machines, the device authorization requests, OAuth callbacks and user   *)
(* keys of the servers they authorize with.                                *)
(***************************************************************************)
EXTENDS Naturals, Sequences, FiniteSets

CONSTANTS Students, Machines, Servers,
          Runs,       \* executions of `labkit auth`
          Callbacks,  \* executions of the OAuth callback handler
          Legacy,     \* a key bound before user_keys had a fingerprint
          None

ASSUME DevicesAssumption ==
  /\ None \notin Students \cup Servers \cup Runs \cup {Legacy}
  /\ Legacy \notin Runs

VARIABLES
  run,       \* the state of each `labkit auth`
  keyFile,   \* the private key file of a machine for a server
  config,    \* the keyring entries of a machine's config.toml
  request,   \* device_auth_requests, one row for each run
  callback,  \* the state of each callback
  userKeys,  \* user_keys in the order of their ids
  signer     \* the id of the row that identified a machine's signed request, 0 for none

machineVars == <<run, keyFile, config>>
vars == <<machineVars, request, callback, userKeys, signer>>

(* A run generates at most one key pair, which is named after it.          *)
Keys == Runs \cup {Legacy}

Idle == [pc |-> "idle", machine |-> None, server |-> None, key |-> None,
         entries |-> [sv \in Servers |-> None]]

NoRequest == [status |-> "none", server |-> None, key |-> None,
              student |-> None, live |-> FALSE]

Row(sv, u, k, stamped) ==
  [server |-> sv, owner |-> u, key |-> k, active |-> TRUE, stamped |-> stamped]

-----------------------------------------------------------------------------
(* `labkit auth`                                                           *)

(* The key file of the server is used unless there is none or the command  *)
(* is given --rotate-key.                                                  *)
Reuses(m, sv, rotate) == ~rotate /\ keyFile[m][sv] # None

(* The command reads config.toml and the key file.                         *)
StartAuth(r, m, sv, rotate) ==
  /\ run[r].pc = "idle"
  /\ run' = [run EXCEPT ![r] =
       [pc |-> IF Reuses(m, sv, rotate) THEN "selected" ELSE "creating",
        machine |-> m, server |-> sv,
        key |-> IF Reuses(m, sv, rotate) THEN keyFile[m][sv] ELSE None,
        entries |-> config[m]]]
  /\ UNCHANGED <<keyFile, config, request, callback, userKeys, signer>>

(* Once the passphrase questions are answered the new key replaces the     *)
(* file, before the server knows of it.                                    *)
CreateKey(r) ==
  /\ run[r].pc = "creating"
  /\ run' = [run EXCEPT ![r].pc = "selected", ![r].key = r]
  /\ keyFile' = [keyFile EXCEPT ![run[r].machine][run[r].server] = r]
  /\ UNCHANGED <<config, request, callback, userKeys, signer>>

Authorize(r) ==
  /\ run[r].pc = "selected"
  /\ run' = [run EXCEPT ![r].pc = "polling"]
  /\ request' = [request EXCEPT ![r] =
       [status |-> "pending", server |-> run[r].server, key |-> run[r].key,
        student |-> None, live |-> TRUE]]
  /\ UNCHANGED <<keyFile, config, callback, userKeys, signer>>

(* A request that is pending when its time is over is answered "expired";  *)
(* its row keeps the status "pending".                                     *)
StoredStatus(q) == q.status   \* mutation: the status as it is stored
PollStatus(q) == IF q.status = "pending" /\ ~q.live THEN "expired" ELSE q.status

Poll(r) ==
  /\ run[r].pc = "polling"
  /\ PollStatus(request[r]) # "pending"
  /\ run' = [run EXCEPT ![r].pc = PollStatus(request[r])]
  /\ UNCHANGED <<keyFile, config, request, callback, userKeys, signer>>

(* The entries read when the command started are written back with that of *)
(* this server.                                                            *)
NewEntries(r) == [run[r].entries EXCEPT ![run[r].server] = run[r].key]

PersistEntry(r) ==
  /\ run[r].pc = "approved"
  /\ run' = [run EXCEPT ![r].pc = "authorized"]
  /\ config' = [config EXCEPT ![run[r].machine] = NewEntries(r)]
  /\ UNCHANGED <<keyFile, request, callback, userKeys, signer>>

(* An error or the user ends the command.                                  *)
Interrupt(r) ==
  /\ run[r].pc \in {"creating", "selected", "polling", "approved"}
  /\ run' = [run EXCEPT ![r].pc = "failed"]
  /\ UNCHANGED <<keyFile, config, request, callback, userKeys, signer>>

-----------------------------------------------------------------------------
(* The server                                                              *)

RequestExpires(r) ==
  /\ request[r].status = "pending" /\ request[r].live
  /\ request' = [request EXCEPT ![r].live = FALSE]
  /\ UNCHANGED <<machineVars, callback, userKeys, signer>>

CompletableWhateverStatus(r) == request[r].live   \* mutation: no check of the status
Completable(r) == request[r].status = "pending" /\ request[r].live

(* The user code of a pending request sends a browser to the school with   *)
(* the request's state.                                                    *)
BeginVerification(c, r) ==
  /\ callback[c].pc = "idle"
  /\ Completable(r)
  /\ callback' = [callback EXCEPT ![c].pc = "away", ![c].of = r]
  /\ UNCHANGED <<machineVars, request, userKeys, signer>>

(* It returns, the request is still pending, and the code it brings is     *)
(* exchanged for the identity of whoever is logged in there.               *)
BeginCallback(c, u) ==
  /\ callback[c].pc = "away"
  /\ Completable(callback[c].of)
  /\ callback' = [callback EXCEPT ![c].pc = "exchanging", ![c].student = u]
  /\ UNCHANGED <<machineVars, request, userKeys, signer>>

Holders(sv, k) ==
  {i \in DOMAIN userKeys : /\ userKeys[i].server = sv
                           /\ userKeys[i].key = k
                           /\ userKeys[i].active}

Held(q) == Holders(q.server, q.key)

(* A row without a fingerprint is missed by ON CONFLICT (fingerprint) and  *)
(* hit by the unique index on public_key: the statement fails.             *)
IndexedOnFingerprintOnly(q) == FALSE   \* mutation: public_key is not unique
InsertFails(q) == \E i \in Held(q) : ~userKeys[i].stamped

(* Mutation: on conflict the row goes to the student who authorizes.       *)
Reassigned(q, u) ==
  IF Held(q) = {} THEN Append(userKeys, Row(q.server, u, q.key, TRUE))
  ELSE [i \in DOMAIN userKeys |->
          IF i \in Held(q) THEN [userKeys[i] EXCEPT !.owner = u] ELSE userKeys[i]]
Inserted(q, u) ==
  IF \A i \in Held(q) : ~userKeys[i].stamped THEN Append(userKeys, Row(q.server, u, q.key, TRUE)) ELSE userKeys

(* The one statement CompleteDeviceAuthRequest approves the request even   *)
(* when the key is another student's; it then returns no row.              *)
CompleteCallback(c) ==
  LET r == callback[c].of
      u == callback[c].student
      q == request[r]
      completes == Completable(r) /\ ~InsertFails(q)
      resolved == completes /\ \A i \in Held(q) : userKeys[i].owner = u
  IN
  /\ callback[c].pc = "exchanging"
  /\ callback' = [callback EXCEPT ![c].pc = IF resolved THEN "bound" ELSE "refused"]
  /\ IF completes
       THEN /\ request' = [request EXCEPT ![r].status = "approved", ![r].student = u]
            /\ userKeys' = Inserted(q, u)
       ELSE UNCHANGED <<request, userKeys>>
  /\ UNCHANGED <<machineVars, signer>>

ExchangeFails(c) ==
  /\ callback[c].pc = "exchanging"
  /\ callback' = [callback EXCEPT ![c].pc = "refused"]
  /\ UNCHANGED <<machineVars, request, userKeys, signer>>

(* A machine with an entry for the server signs with its key file; the     *)
(* server takes the signer from the active row of that key.                *)
Authenticate(m, sv) ==
  /\ signer[m] = 0
  /\ config[m][sv] # None
  /\ \E i \in Holders(sv, keyFile[m][sv]) : signer' = [signer EXCEPT ![m] = i]
  /\ UNCHANGED <<machineVars, request, callback, userKeys>>

(* Then it gives a row that has no fingerprint its own, if it can, though  *)
(* the row may have been revoked since.                                    *)
StampKey(m) ==
  LET i == signer[m] IN
  /\ i # 0
  /\ ~userKeys[i].stamped
  /\ userKeys' = [userKeys EXCEPT ![i].stamped = TRUE]
  /\ UNCHANGED <<machineVars, request, callback, signer>>

(* It answers with the keys of the signer's student, or with nothing.      *)
ListKeys(m) ==
  /\ signer[m] # 0
  /\ signer' = [signer EXCEPT ![m] = 0]
  /\ UNCHANGED <<machineVars, request, callback, userKeys>>

Revoke(m, j) ==
  LET i == signer[m] IN
  /\ i # 0
  /\ userKeys[j].server = userKeys[i].server
  /\ userKeys[j].owner = userKeys[i].owner
  /\ userKeys' = [userKeys EXCEPT ![j].active = FALSE]
  /\ signer' = [signer EXCEPT ![m] = 0]
  /\ UNCHANGED <<machineVars, request, callback>>

-----------------------------------------------------------------------------
(* A machine may have been bound before fingerprints were stored.          *)
Init ==
  /\ run = [r \in Runs |-> Idle]
  /\ signer = [m \in Machines |-> 0]
  /\ request = [r \in Runs |-> NoRequest]
  /\ callback = [c \in Callbacks |-> [pc |-> "idle", of |-> None, student |-> None]]
  /\ \/ /\ userKeys = <<>>
        /\ keyFile = [m \in Machines |-> [sv \in Servers |-> None]]
        /\ config = keyFile
     \/ \E m \in Machines, sv \in Servers, u \in Students :
          /\ userKeys = <<Row(sv, u, Legacy, FALSE)>>
          /\ keyFile = [n \in Machines |-> [s \in Servers |->
                          IF n = m /\ s = sv THEN Legacy ELSE None]]
          /\ config = keyFile

ServerNext ==
  \/ \E r \in Runs : RequestExpires(r)
  \/ \E c \in Callbacks, r \in Runs : BeginVerification(c, r)
  \/ \E c \in Callbacks, u \in Students : BeginCallback(c, u)
  \/ \E c \in Callbacks : CompleteCallback(c) \/ ExchangeFails(c)
  \/ \E m \in Machines :
       \/ \E sv \in Servers : Authenticate(m, sv)
       \/ StampKey(m) \/ ListKeys(m)
       \/ \E j \in DOMAIN userKeys : Revoke(m, j)

AuthNext ==
  \/ \E r \in Runs, m \in Machines, sv \in Servers, rotate \in BOOLEAN :
       StartAuth(r, m, sv, rotate)
  \/ \E r \in Runs : CreateKey(r) \/ Authorize(r) \/ Poll(r) \/ PersistEntry(r)
                                  \/ Interrupt(r)

Next == AuthNext \/ ServerNext

Spec == Init /\ [][Next]_vars

(* The command polls every second and the ten minutes of a request pass.   *)
FairSpec == /\ Spec
            /\ \A r \in Runs : WF_vars(Poll(r)) /\ WF_vars(RequestExpires(r))

-----------------------------------------------------------------------------
(* Every variable has its type.                                            *)
TypeOK ==
  /\ run \in [Runs -> [pc : {"idle", "creating", "selected", "polling", "approved",
                             "expired", "authorized", "failed"},
                       machine : Machines \cup {None}, server : Servers \cup {None},
                       key : Keys \cup {None}, entries : [Servers -> Keys \cup {None}]]]
  /\ signer \in [Machines -> Nat]
  /\ keyFile \in [Machines -> [Servers -> Keys \cup {None}]]
  /\ config \in [Machines -> [Servers -> Keys \cup {None}]]
  /\ request \in [Runs -> [status : {"none", "pending", "approved"},
                           server : Servers \cup {None}, key : Keys \cup {None},
                           student : Students \cup {None}, live : BOOLEAN]]
  /\ callback \in [Callbacks -> [pc : {"idle", "away", "exchanging", "bound", "refused"},
                                 of : Runs \cup {None}, student : Students \cup {None}]]
  /\ userKeys \in Seq([server : Servers, owner : Students, key : Keys,
                       active : BOOLEAN, stamped : BOOLEAN])
  /\ \A m \in Machines : signer[m] \in {0} \cup DOMAIN userKeys

(* Of all the browsers that return with the state of one request, one is   *)
(* told that it bound the device; the request is approved for the student  *)
(* logged in there, to whom the machine's key then belongs.  And a         *)
(* signature identifies one student: no key has two active rows on a       *)
(* server, whoever binds it, revokes it and binds it again.                *)
BoundForOneStudent ==
  /\ TypeOK
  /\ \A sv \in Servers, k \in Keys : Cardinality(Holders(sv, k)) <= 1
  /\ \A c, d \in Callbacks :
       callback[c].pc = "bound" /\ callback[d].pc = "bound" /\ c # d =>
         callback[c].of # callback[d].of
  /\ \A c \in Callbacks : callback[c].pc = "bound" =>
       LET q == request[callback[c].of] IN
       /\ q.status = "approved"
       /\ q.student = callback[c].student
       /\ \E i \in DOMAIN userKeys : /\ userKeys[i].owner = q.student
                                     /\ userKeys[i].key = q.key
                                     /\ userKeys[i].server = q.server

(* The rows submissions refer to are an audit trail: binding a key again   *)
(* or revoking it never gives a row another owner or brings it back.       *)
KeyRowsAreHistory ==
  [][\A i \in DOMAIN userKeys :
       /\ i \in DOMAIN userKeys'
       /\ userKeys'[i].owner = userKeys[i].owner
       /\ userKeys'[i].key = userKeys[i].key
       /\ userKeys'[i].active => userKeys[i].active]_vars

(* The command does not poll for ever: it is told of an approval or of the *)
(* expiry, although no one updates the rows of expired requests.           *)
PollingEnds == \A r \in Runs : run[r].pc = "polling" ~> run[r].pc # "polling"
=============================================================================
