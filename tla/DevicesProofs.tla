--------------------------- MODULE DevicesProofs ---------------------------
(***************************************************************************)
(* What Devices promises for any students, machines, servers, authorizing  *)
(* commands and callbacks.                                                 *)
(***************************************************************************)
EXTENDS Devices, FiniteSetTheorems, TLAPS

-----------------------------------------------------------------------------
(* The inductive invariant.                                                *)

(* A command that has chosen a key has a server, and a request only once   *)
(* it has asked for one.                                                   *)
RunOK(r) ==
  /\ run[r].pc # "idle" => run[r].machine \in Machines /\ run[r].server \in Servers
  /\ run[r].pc \in {"selected", "polling", "approved", "expired", "authorized"} => run[r].key \in Keys
  /\ run[r].pc \in {"idle", "creating", "selected"} => request[r].status = "none"
  /\ run[r].pc = "polling" => request[r].status # "none"

RequestOK(r) ==
  request[r].status # "none" => request[r].server \in Servers /\ request[r].key \in Keys

(* A callback that has bound a key was the only one to complete its        *)
(* request.                                                                *)
Bound(c) == callback[c].pc = "bound"

Owned(q) ==
  \E i \in DOMAIN userKeys : /\ userKeys[i].owner = q.student
                             /\ userKeys[i].key = q.key
                             /\ userKeys[i].server = q.server

CallbackOK(c) ==
  /\ callback[c].pc # "idle" => callback[c].of \in Runs /\ request[callback[c].of].status # "none"
  /\ callback[c].pc \in {"exchanging", "bound"} => callback[c].student \in Students
  /\ Bound(c) => LET q == request[callback[c].of] IN
                 q.status = "approved" /\ q.student = callback[c].student /\ Owned(q)

BoundOnce ==
  \A c, d \in Callbacks : Bound(c) /\ Bound(d) /\ c # d => callback[c].of # callback[d].of

(* The unique indexes on active fingerprints and public keys.              *)
OneHolder ==
  \A sv \in Servers, k \in Keys : \A i, j \in Holders(sv, k) : i = j

IInv ==
  /\ TypeOK
  /\ \A r \in Runs : RunOK(r) /\ RequestOK(r)
  /\ \A c \in Callbacks : CallbackOK(c)
  /\ BoundOnce
  /\ OneHolder

(* What a step of a command or of a callback changes.                      *)
RunType ==
  [pc : {"idle", "creating", "selected", "polling", "approved",
         "expired", "authorized", "failed"},
   machine : Machines \cup {None}, server : Servers \cup {None},
   key : Keys \cup {None}, entries : [Servers -> Keys \cup {None}]]

RequestType == [status : {"none", "pending", "approved"},
                server : Servers \cup {None}, key : Keys \cup {None},
                student : Students \cup {None}, live : BOOLEAN]

CallbackType == [pc : {"idle", "away", "exchanging", "bound", "refused"},
                 of : Runs \cup {None}, student : Students \cup {None}]

RowType == [server : Servers, owner : Students, key : Keys, active : BOOLEAN, stamped : BOOLEAN]

LEMMA Types ==
  ASSUME TypeOK
  PROVE  /\ run \in [Runs -> RunType] /\ request \in [Runs -> RequestType]
         /\ callback \in [Callbacks -> CallbackType] /\ userKeys \in Seq(RowType)
         /\ keyFile \in [Machines -> [Servers -> Keys \cup {None}]]
         /\ config \in [Machines -> [Servers -> Keys \cup {None}]]
  BY DEF TypeOK, RunType, RequestType, CallbackType, RowType

LEMMA InitInv == Init => IInv
  <1> SUFFICES ASSUME Init PROVE IInv
    OBVIOUS
  <1>1. /\ run = [r \in Runs |-> Idle] /\ signer = [m \in Machines |-> 0]
        /\ request = [r \in Runs |-> NoRequest]
        /\ callback = [c \in Callbacks |-> [pc |-> "idle", of |-> None, student |-> None]]
    BY DEF Init
  <1>2. /\ userKeys \in Seq(RowType)
        /\ keyFile \in [Machines -> [Servers -> Keys \cup {None}]] /\ config = keyFile
        /\ \A i, j \in DOMAIN userKeys : i = j
    <2>1. CASE userKeys = <<>> /\ keyFile = [m \in Machines |-> [sv \in Servers |-> None]] /\ config = keyFile
      BY <2>1
    <2>2. ASSUME NEW m \in Machines, NEW sv \in Servers, NEW u \in Students,
                 userKeys = <<Row(sv, u, Legacy, FALSE)>>,
                 keyFile = [n \in Machines |-> [s \in Servers |->
                              IF n = m /\ s = sv THEN Legacy ELSE None]],
                 config = keyFile
          PROVE  /\ userKeys \in Seq(RowType)
                 /\ keyFile \in [Machines -> [Servers -> Keys \cup {None}]]
                 /\ \A i, j \in DOMAIN userKeys : i = j
      <3>1. Row(sv, u, Legacy, FALSE) \in RowType
        BY DEF Row, RowType, Keys
      <3>2. userKeys \in Seq(RowType) /\ DOMAIN userKeys = {1}
        <4> DEFINE row == Row(sv, u, Legacy, FALSE)
        <4>1. row \in RowType
          BY <3>1
        <4>2. userKeys = <<row>>
          BY <2>2
        <4> HIDE DEF row
        <4>3. userKeys = [i \in 1 .. 1 |-> row]
          BY <4>2
        <4> QED BY <4>1, <4>3
      <3>3. keyFile \in [Machines -> [Servers -> Keys \cup {None}]]
        BY <2>2 DEF Keys
      <3> QED BY <2>2, <3>2, <3>3
    <2> QED BY <2>1, <2>2 DEF Init
  <1>3. TypeOK
    BY <1>1, <1>2 DEF TypeOK, RowType, Idle, NoRequest
  <1>4. OneHolder
    BY <1>2 DEF OneHolder, Holders
  <1> QED BY <1>1, <1>3, <1>4 DEF IInv, RunOK, RequestOK, CallbackOK, Bound, BoundOnce, Idle, NoRequest

-----------------------------------------------------------------------------
(* `labkit auth`: one command takes a step.                                *)
LEMMA AuthStepKeeps ==
  ASSUME IInv, NEW r \in Runs, NEW p \in RunType, run' = [run EXCEPT ![r] = p],
         keyFile' \in [Machines -> [Servers -> Keys \cup {None}]],
         config' \in [Machines -> [Servers -> Keys \cup {None}]],
         UNCHANGED <<request, callback, userKeys, signer>>,
         p.pc # "idle" => p.machine \in Machines /\ p.server \in Servers,
         p.pc \in {"selected", "polling", "approved", "expired", "authorized"} => p.key \in Keys,
         p.pc \in {"idle", "creating", "selected"} => request[r].status = "none",
         p.pc = "polling" => request[r].status # "none"
  PROVE  IInv'
  <1>1. run \in [Runs -> RunType]
    BY Types DEF IInv
  <1>2. run' \in [Runs -> RunType] /\ run'[r] = p /\ \A q \in Runs \ {r} : run'[q] = run[q]
    BY <1>1
  <1>3. TypeOK'
    BY <1>2 DEF IInv, TypeOK, RunType
  <1>4. \A q \in Runs : RunOK(q)' /\ RequestOK(q)'
    <2> TAKE q \in Runs
    <2>1. RunOK(q) /\ RequestOK(q)
      BY DEF IInv
    <2> QED BY <1>2, <2>1 DEF RunOK, RequestOK
  <1>5. (\A c \in Callbacks : CallbackOK(c)') /\ BoundOnce' /\ OneHolder'
    BY DEF IInv, CallbackOK, Bound, BoundOnce, OneHolder, Holders, Owned
  <1> QED BY <1>3, <1>4, <1>5 DEF IInv

LEMMA StartAuthKeeps ==
  ASSUME IInv, NEW r \in Runs, NEW m \in Machines, NEW sv \in Servers, NEW rotate \in BOOLEAN,
         StartAuth(r, m, sv, rotate)
  PROVE  IInv'
  <1> DEFINE p == [pc |-> IF Reuses(m, sv, rotate) THEN "selected" ELSE "creating",
                   machine |-> m, server |-> sv,
                   key |-> IF Reuses(m, sv, rotate) THEN keyFile[m][sv] ELSE None,
                   entries |-> config[m]]
  <1>1. keyFile[m][sv] \in Keys \cup {None} /\ config[m] \in [Servers -> Keys \cup {None}]
    BY DEF IInv, TypeOK
  <1>2. /\ p \in RunType /\ p.machine = m /\ p.server = sv /\ p.pc \in {"selected", "creating"}
        /\ p.pc = "selected" => p.key \in Keys
    BY <1>1 DEF RunType, Reuses
  <1>3. /\ run' = [run EXCEPT ![r] = p] /\ UNCHANGED <<keyFile, config, request, callback, userKeys, signer>>
        /\ request[r].status = "none"
    BY DEF StartAuth, IInv, RunOK
  <1> HIDE DEF p
  <1> QED BY <1>2, <1>3, AuthStepKeeps DEF IInv, TypeOK

LEMMA CommandKeeps ==
  ASSUME IInv, NEW r \in Runs, CreateKey(r) \/ Poll(r) \/ PersistEntry(r) \/ Interrupt(r)
  PROVE  IInv'
  <1>1. run[r] \in RunType /\ RunOK(r) /\ run \in [Runs -> RunType]
    BY Types DEF IInv
  <1>2. CASE CreateKey(r)
    <2> DEFINE p == [run[r] EXCEPT !.pc = "selected", !.key = r]
    <2>1. p \in RunType /\ p.machine = run[r].machine /\ p.server = run[r].server
          /\ p.pc = "selected" /\ p.key = r /\ r \in Keys
      BY <1>1 DEF RunType, Keys
    <2>2. run' = [run EXCEPT ![r] = p]
      BY <1>1, <1>2 DEF CreateKey
    <2>3. run[r].machine \in Machines /\ run[r].server \in Servers /\ request[r].status = "none"
      BY <1>1, <1>2 DEF CreateKey, RunOK
    <2>4. keyFile' \in [Machines -> [Servers -> Keys \cup {None}]]
      BY <1>2, <2>1, <2>3 DEF CreateKey, IInv, TypeOK
    <2>5. config' \in [Machines -> [Servers -> Keys \cup {None}]]
          /\ UNCHANGED <<request, callback, userKeys, signer>>
      BY <1>2 DEF CreateKey, IInv, TypeOK
    <2>6. p.machine \in Machines /\ p.server \in Servers /\ p.key \in Keys
          /\ p.pc # "idle" /\ p.pc # "polling"
      BY <2>1, <2>3
    <2> HIDE DEF p
    <2> QED BY <2>1, <2>2, <2>3, <2>4, <2>5, <2>6, AuthStepKeeps
  <1>3. CASE Poll(r)
    <2> DEFINE st == PollStatus(request[r])
               p == [run[r] EXCEPT !.pc = st]
    <2>1. st \in {"approved", "expired"}
      BY <1>1, <1>3 DEF Poll, PollStatus, RunOK, IInv, TypeOK
    <2> HIDE DEF st
    <2>2. p \in RunType /\ p.machine = run[r].machine /\ p.server = run[r].server
          /\ p.pc = st /\ p.key = run[r].key
      BY <1>1, <2>1 DEF RunType
    <2>3. run' = [run EXCEPT ![r] = p]
      BY <1>1, <1>3 DEF Poll, st
    <2>4. run[r].machine \in Machines /\ run[r].server \in Servers /\ run[r].key \in Keys
      BY <1>1, <1>3 DEF Poll, RunOK
    <2>5. /\ keyFile' \in [Machines -> [Servers -> Keys \cup {None}]]
          /\ config' \in [Machines -> [Servers -> Keys \cup {None}]]
          /\ UNCHANGED <<request, callback, userKeys, signer>>
      BY <1>3 DEF Poll, IInv, TypeOK
    <2>6. /\ p.machine \in Machines /\ p.server \in Servers /\ p.key \in Keys
          /\ p.pc # "idle" /\ p.pc # "creating" /\ p.pc # "selected" /\ p.pc # "polling"
      BY <2>1, <2>2, <2>4
    <2> HIDE DEF p
    <2> QED BY <2>2, <2>3, <2>5, <2>6, AuthStepKeeps
  <1>4. CASE PersistEntry(r)
    <2> DEFINE p == [run[r] EXCEPT !.pc = "authorized"]
    <2>1. p \in RunType /\ p.machine = run[r].machine /\ p.server = run[r].server
          /\ p.pc = "authorized" /\ p.key = run[r].key
      BY <1>1 DEF RunType
    <2>2. run' = [run EXCEPT ![r] = p]
      BY <1>1, <1>4 DEF PersistEntry
    <2>3. run[r].machine \in Machines /\ run[r].server \in Servers /\ run[r].key \in Keys
      BY <1>1, <1>4 DEF PersistEntry, RunOK
    <2>4. NewEntries(r) \in [Servers -> Keys \cup {None}]
      BY <1>1, <2>3 DEF NewEntries, RunType
    <2>5. config' \in [Machines -> [Servers -> Keys \cup {None}]]
      BY <1>4, <2>4 DEF PersistEntry, IInv, TypeOK
    <2>6. keyFile' \in [Machines -> [Servers -> Keys \cup {None}]]
          /\ UNCHANGED <<request, callback, userKeys, signer>>
      BY <1>4 DEF PersistEntry, IInv, TypeOK
    <2>7. /\ p.machine \in Machines /\ p.server \in Servers /\ p.key \in Keys
          /\ p.pc # "idle" /\ p.pc # "creating" /\ p.pc # "selected" /\ p.pc # "polling"
      BY <2>1, <2>3
    <2> HIDE DEF p
    <2> QED BY <2>1, <2>2, <2>5, <2>6, <2>7, AuthStepKeeps
  <1>5. CASE Interrupt(r)
    <2> DEFINE p == [run[r] EXCEPT !.pc = "failed"]
    <2>1. p \in RunType /\ p.machine = run[r].machine /\ p.server = run[r].server /\ p.pc = "failed"
      BY <1>1 DEF RunType
    <2>2. run' = [run EXCEPT ![r] = p]
      BY <1>1, <1>5 DEF Interrupt
    <2>3. run[r].machine \in Machines /\ run[r].server \in Servers
      BY <1>1, <1>5 DEF Interrupt, RunOK
    <2>4. /\ keyFile' \in [Machines -> [Servers -> Keys \cup {None}]]
          /\ config' \in [Machines -> [Servers -> Keys \cup {None}]]
          /\ UNCHANGED <<request, callback, userKeys, signer>>
      BY <1>5 DEF Interrupt, IInv, TypeOK
    <2>5. p.machine \in Machines /\ p.server \in Servers /\ p.pc = "failed"
      BY <2>1, <2>3
    <2> HIDE DEF p
    <2> QED BY <2>1, <2>2, <2>4, <2>5, AuthStepKeeps
  <1> QED BY <1>2, <1>3, <1>4, <1>5

(* A request is asked for once, before any browser can have its user code. *)
LEMMA AuthorizeKeeps ==
  ASSUME IInv, NEW r \in Runs, Authorize(r)
  PROVE  IInv'
  <1> DEFINE p == [run[r] EXCEPT !.pc = "polling"]
             q == [status |-> "pending", server |-> run[r].server, key |-> run[r].key,
                   student |-> None, live |-> TRUE]
  <1>1. /\ run \in [Runs -> RunType] /\ request \in [Runs -> RequestType]
        /\ run[r] \in RunType /\ RunOK(r) /\ run[r].pc = "selected"
    BY Types DEF IInv, Authorize
  <1>2. /\ run[r].machine \in Machines /\ run[r].server \in Servers /\ run[r].key \in Keys
        /\ request[r].status = "none"
    BY <1>1 DEF RunOK
  <1>3. /\ p \in RunType /\ p.machine = run[r].machine /\ p.server = run[r].server
        /\ p.pc = "polling" /\ p.key = run[r].key
        /\ q \in RequestType
    BY <1>1, <1>2 DEF RunType, RequestType
  <1>4. run' = [run EXCEPT ![r] = p] /\ request' = [request EXCEPT ![r] = q]
        /\ UNCHANGED <<keyFile, config, callback, userKeys, signer>>
    BY <1>1 DEF Authorize
  <1>5. /\ run' \in [Runs -> RunType] /\ request' \in [Runs -> RequestType]
        /\ run'[r] = p /\ request'[r] = q
        /\ \A t \in Runs \ {r} : run'[t] = run[t] /\ request'[t] = request[t]
    BY <1>1, <1>3, <1>4
  <1> HIDE DEF p
  <1>6. TypeOK'
    BY <1>4, <1>5 DEF IInv, TypeOK, RunType, RequestType
  <1>7. \A t \in Runs : RunOK(t)' /\ RequestOK(t)'
    <2> TAKE t \in Runs
    <2>1. CASE t = r
      BY <1>2, <1>3, <1>5, <2>1 DEF RunOK, RequestOK
    <2>2. CASE t # r
      BY <1>5, <2>2 DEF IInv, RunOK, RequestOK
    <2> QED BY <2>1, <2>2
  <1>8. \A c \in Callbacks : CallbackOK(c)'
    <2> TAKE c \in Callbacks
    <2>1. CallbackOK(c)
      BY DEF IInv
    <2>2. callback[c].pc # "idle" => request'[callback[c].of] = request[callback[c].of]
      BY <1>2, <1>5, <2>1 DEF CallbackOK
    <2> QED BY <1>4, <2>1, <2>2 DEF CallbackOK, Bound, Owned
  <1>9. BoundOnce' /\ OneHolder'
    BY <1>4 DEF IInv, BoundOnce, Bound, OneHolder, Holders
  <1> QED BY <1>6, <1>7, <1>8, <1>9 DEF IInv

-----------------------------------------------------------------------------
(* The server.                                                             *)

(* Time passes, or a callback takes a step that binds no key.              *)
LEMMA ExpiryKeeps ==
  ASSUME IInv, NEW r \in Runs, RequestExpires(r)
  PROVE  IInv'
  <1> DEFINE q == [request[r] EXCEPT !.live = FALSE]
  <1>1. request \in [Runs -> RequestType] /\ request[r] \in RequestType /\ request[r].status = "pending"
    BY Types DEF IInv, RequestExpires
  <1>2. /\ q \in RequestType /\ q.status = request[r].status /\ q.server = request[r].server
        /\ q.key = request[r].key /\ q.student = request[r].student
    BY <1>1 DEF RequestType
  <1>3. request' = [request EXCEPT ![r] = q] /\ UNCHANGED <<run, keyFile, config, callback, userKeys, signer>>
    BY <1>1 DEF RequestExpires, machineVars
  <1> HIDE DEF q
  <1>4. /\ request' \in [Runs -> RequestType] /\ request'[r] = q
        /\ \A t \in Runs \ {r} : request'[t] = request[t]
    BY <1>1, <1>2, <1>3
  <1>5. TypeOK'
    BY <1>3, <1>4 DEF IInv, TypeOK, RequestType
  <1>6. \A t \in Runs : /\ request'[t].status = request[t].status
                        /\ request'[t].server = request[t].server
                        /\ request'[t].key = request[t].key
                        /\ request'[t].student = request[t].student
    BY <1>2, <1>4
  <1>7. \A t \in Runs : RunOK(t)' /\ RequestOK(t)'
    BY <1>3, <1>6 DEF IInv, RunOK, RequestOK
  <1>8. \A c \in Callbacks : CallbackOK(c)'
    <2> TAKE c \in Callbacks
    <2>1. CallbackOK(c)
      BY DEF IInv
    <2> QED BY <1>3, <1>6, <2>1 DEF CallbackOK, Bound, Owned
  <1>9. BoundOnce' /\ OneHolder'
    BY <1>3 DEF IInv, BoundOnce, Bound, OneHolder, Holders
  <1> QED BY <1>5, <1>7, <1>8, <1>9 DEF IInv

LEMMA CallbackStepKeeps ==
  ASSUME IInv, NEW c \in Callbacks, NEW p \in CallbackType, p.pc # "bound",
         callback' = [callback EXCEPT ![c] = p],
         UNCHANGED <<run, keyFile, config, request, userKeys, signer>>,
         p.pc # "idle" => p.of \in Runs /\ request[p.of].status # "none",
         p.pc = "exchanging" => p.student \in Students
  PROVE  IInv'
  <1>1. /\ callback \in [Callbacks -> CallbackType] /\ callback' \in [Callbacks -> CallbackType]
        /\ callback'[c] = p /\ \A d \in Callbacks \ {c} : callback'[d] = callback[d]
    BY Types DEF IInv
  <1>2. TypeOK'
    BY <1>1 DEF IInv, TypeOK, CallbackType
  <1>3. (\A t \in Runs : RunOK(t)' /\ RequestOK(t)') /\ OneHolder'
    BY DEF IInv, RunOK, RequestOK, OneHolder, Holders
  <1>4. \A d \in Callbacks : CallbackOK(d)'
    <2> TAKE d \in Callbacks
    <2>1. CallbackOK(d)
      BY DEF IInv
    <2> QED BY <1>1, <2>1 DEF CallbackOK, Bound, Owned
  <1>5. BoundOnce'
    BY <1>1 DEF IInv, BoundOnce, Bound
  <1> QED BY <1>2, <1>3, <1>4, <1>5 DEF IInv

LEMMA BrowserKeeps ==
  ASSUME IInv, NEW c \in Callbacks,
         \/ \E r \in Runs : BeginVerification(c, r)
         \/ \E u \in Students : BeginCallback(c, u)
         \/ ExchangeFails(c)
  PROVE  IInv'
  <1>1. callback \in [Callbacks -> CallbackType] /\ callback[c] \in CallbackType /\ CallbackOK(c)
    BY Types DEF IInv
  <1>2. ASSUME NEW r \in Runs, BeginVerification(c, r)
        PROVE  IInv'
    <2> DEFINE p == [callback[c] EXCEPT !.pc = "away", !.of = r]
    <2>1. p \in CallbackType /\ p.pc = "away" /\ p.of = r
      BY <1>1 DEF CallbackType
    <2>2. callback' = [callback EXCEPT ![c] = p] /\ request[r].status # "none"
          /\ UNCHANGED <<run, keyFile, config, request, userKeys, signer>>
      BY <1>1, <1>2 DEF BeginVerification, Completable, machineVars
    <2> HIDE DEF p
    <2> QED BY <2>1, <2>2, CallbackStepKeeps
  <1>3. ASSUME NEW u \in Students, BeginCallback(c, u)
        PROVE  IInv'
    <2> DEFINE p == [callback[c] EXCEPT !.pc = "exchanging", !.student = u]
    <2>1. p \in CallbackType /\ p.pc = "exchanging" /\ p.of = callback[c].of /\ p.student = u
      BY <1>1 DEF CallbackType
    <2>2. callback' = [callback EXCEPT ![c] = p]
          /\ callback[c].of \in Runs /\ request[callback[c].of].status # "none"
          /\ UNCHANGED <<run, keyFile, config, request, userKeys, signer>>
      BY <1>1, <1>3 DEF BeginCallback, CallbackOK, machineVars
    <2> HIDE DEF p
    <2> QED BY <2>1, <2>2, CallbackStepKeeps
  <1>4. CASE ExchangeFails(c)
    <2> DEFINE p == [callback[c] EXCEPT !.pc = "refused"]
    <2>1. p \in CallbackType /\ p.pc = "refused" /\ p.of = callback[c].of
      BY <1>1 DEF CallbackType
    <2>2. callback' = [callback EXCEPT ![c] = p]
          /\ callback[c].of \in Runs /\ request[callback[c].of].status # "none"
          /\ UNCHANGED <<run, keyFile, config, request, userKeys, signer>>
      BY <1>1, <1>4 DEF ExchangeFails, CallbackOK, machineVars
    <2> HIDE DEF p
    <2> QED BY <2>1, <2>2, CallbackStepKeeps
  <1> QED BY <1>2, <1>3, <1>4

(* A row keeps its server, its owner and its key, and is not made active   *)
(* again.                                                                  *)
Ages(old, new) ==
  /\ DOMAIN new = DOMAIN old
  /\ \A i \in DOMAIN old : /\ new[i].server = old[i].server
                           /\ new[i].owner = old[i].owner
                           /\ new[i].key = old[i].key
                           /\ new[i].active => old[i].active

Signed(m) == StampKey(m) \/ ListKeys(m) \/ \E j \in DOMAIN userKeys : Revoke(m, j)

LEMMA KeyUseAges ==
  ASSUME IInv, NEW m \in Machines, Signed(m)
  PROVE  userKeys' \in Seq(RowType) /\ Ages(userKeys, userKeys')
  <1> DEFINE n == Len(userKeys)
  <1>1. userKeys \in [1 .. n -> RowType] /\ n \in Nat
    BY Types DEF IInv
  <1>2. CASE StampKey(m)
    <2> DEFINE i == signer[m]
    <2>1. i \in DOMAIN userKeys /\ userKeys' = [userKeys EXCEPT ![i].stamped = TRUE]
      BY <1>2 DEF StampKey, IInv, TypeOK
    <2> HIDE DEF i
    <2>2. userKeys' \in [1 .. n -> RowType]
      BY <1>1, <2>1 DEF RowType
    <2>3. Ages(userKeys, userKeys')
      BY <1>1, <2>1 DEF RowType, Ages
    <2> QED BY <2>2, <2>3, <1>1
  <1>3. CASE ListKeys(m)
    BY <1>1, <1>3, Types DEF ListKeys, Ages, IInv
  <1>4. ASSUME NEW j \in DOMAIN userKeys, Revoke(m, j)
        PROVE  userKeys' \in Seq(RowType) /\ Ages(userKeys, userKeys')
    <2>1. userKeys' = [userKeys EXCEPT ![j].active = FALSE]
      BY <1>4 DEF Revoke
    <2>2. userKeys' \in [1 .. n -> RowType]
      BY <1>1, <2>1 DEF RowType
    <2>3. Ages(userKeys, userKeys')
      BY <1>1, <2>1 DEF RowType, Ages
    <2> QED BY <2>2, <2>3, <1>1
  <1> QED BY <1>2, <1>3, <1>4 DEF Signed

LEMMA KeyUseKeeps ==
  ASSUME IInv, NEW m \in Machines, Signed(m)
  PROVE  IInv'
  <1>1. userKeys' \in Seq(RowType) /\ Ages(userKeys, userKeys')
    BY KeyUseAges
  <1>2. UNCHANGED <<run, keyFile, config, request, callback>>
    BY DEF Signed, StampKey, ListKeys, Revoke, machineVars
  <1>3. signer' = signer \/ signer' = [signer EXCEPT ![m] = 0]
    BY DEF Signed, StampKey, ListKeys, Revoke
  <1>4. TypeOK'
    <2>1. /\ signer \in [Machines -> Nat] /\ DOMAIN userKeys' = DOMAIN userKeys
          /\ \A n \in Machines : signer[n] \in {0} \cup DOMAIN userKeys
      BY <1>1 DEF IInv, TypeOK, Ages
    <2>2. /\ signer' \in [Machines -> Nat]
          /\ \A n \in Machines : signer'[n] \in {0} \cup DOMAIN userKeys'
      <3>1. CASE signer' = signer
        BY <2>1, <3>1
      <3>2. CASE signer' = [signer EXCEPT ![m] = 0]
        BY <2>1, <3>2
      <3> QED BY <1>3, <3>1, <3>2
    <2> QED BY <1>1, <1>2, <2>2 DEF IInv, TypeOK, RowType
  <1>5. \A t \in Runs : RunOK(t)' /\ RequestOK(t)'
    BY <1>2 DEF IInv, RunOK, RequestOK
  <1>6. \A c \in Callbacks : CallbackOK(c)'
    BY <1>1, <1>2 DEF IInv, CallbackOK, Bound, Owned, Ages
  <1>7. BoundOnce' /\ OneHolder'
    BY <1>1, <1>2 DEF IInv, BoundOnce, Bound, OneHolder, Holders, Ages
  <1> QED BY <1>4, <1>5, <1>6, <1>7 DEF IInv

(* The row of a signer's key is found; nothing is written yet.             *)
LEMMA AuthenticateKeeps ==
  ASSUME IInv, NEW m \in Machines, NEW sv \in Servers, Authenticate(m, sv)
  PROVE  IInv'
  <1>1. PICK i \in Holders(sv, keyFile[m][sv]) : signer' = [signer EXCEPT ![m] = i]
    BY DEF Authenticate
  <1>2. i \in DOMAIN userKeys /\ userKeys \in Seq(RowType)
    BY Types DEF IInv, Holders
  <1>3. UNCHANGED <<run, keyFile, config, request, callback, userKeys>>
    BY DEF Authenticate, machineVars
  <1>4. TypeOK'
    <2>1. i \in Nat
      BY <1>2
    <2> QED BY <1>1, <1>2, <1>3, <2>1 DEF IInv, TypeOK
  <1> QED BY <1>3, <1>4 DEF IInv, RunOK, RequestOK, CallbackOK, Bound, BoundOnce, Owned, OneHolder, Holders

(* The statement that completes a request leaves the rows as they are or   *)
(* appends one for a key that no active row holds.                         *)
LEMMA InsertAppends ==
  ASSUME IInv, NEW q, q.server \in Servers, q.key \in Keys, NEW u \in Students, ~InsertFails(q)
  PROVE  LET new == Inserted(q, u) IN
         /\ new \in Seq(RowType)
         /\ \A i \in DOMAIN userKeys : i \in DOMAIN new /\ new[i] = userKeys[i]
         /\ \/ new = userKeys /\ Held(q) # {}
            \/ /\ Held(q) = {}
               /\ DOMAIN new = DOMAIN userKeys \cup {Len(userKeys) + 1}
               /\ new[Len(userKeys) + 1] = Row(q.server, u, q.key, TRUE)
  <1> DEFINE row == Row(q.server, u, q.key, TRUE)
  <1>1. userKeys \in Seq(RowType) /\ row \in RowType
    BY Types DEF IInv, Row, RowType
  <1> HIDE DEF row
  <1>2. /\ Append(userKeys, row) \in Seq(RowType)
        /\ DOMAIN Append(userKeys, row) = DOMAIN userKeys \cup {Len(userKeys) + 1}
        /\ Append(userKeys, row)[Len(userKeys) + 1] = row
        /\ \A i \in DOMAIN userKeys : Append(userKeys, row)[i] = userKeys[i]
    BY <1>1
  <1>3. Inserted(q, u) = IF Held(q) = {} THEN Append(userKeys, row) ELSE userKeys
    BY DEF Inserted, InsertFails, row
  <1> QED BY <1>1, <1>2, <1>3 DEF row

LEMMA CompletionKeeps ==
  ASSUME IInv, NEW c \in Callbacks, CompleteCallback(c)
  PROVE  IInv'
  <1> DEFINE r == callback[c].of
             u == callback[c].student
             q == request[r]
             completes == Completable(r) /\ ~InsertFails(q)
             resolved == completes /\ \A i \in Held(q) : userKeys[i].owner = u
             p == [callback[c] EXCEPT !.pc = IF resolved THEN "bound" ELSE "refused"]
             a == [q EXCEPT !.status = "approved", !.student = u]
  <1>1. /\ callback \in [Callbacks -> CallbackType] /\ callback[c] \in CallbackType
        /\ callback[c].pc = "exchanging" /\ CallbackOK(c)
        /\ request \in [Runs -> RequestType]
    BY Types DEF IInv, CompleteCallback
  <1>2. r \in Runs /\ u \in Students /\ q.status # "none" /\ RequestOK(r) /\ q \in RequestType
    BY <1>1 DEF CallbackOK, IInv
  <1>3. q.server \in Servers /\ q.key \in Keys
    BY <1>2 DEF RequestOK
  <1>4. /\ p \in CallbackType /\ p.of = r /\ p.student = u
        /\ p.pc = IF resolved THEN "bound" ELSE "refused"
    <2> HIDE DEF resolved
    <2> QED BY <1>1 DEF CallbackType
  <1>5. /\ a \in RequestType /\ a.status = "approved" /\ a.student = u
        /\ a.server = q.server /\ a.key = q.key
    BY <1>2 DEF RequestType
  <1>6. /\ callback' = [callback EXCEPT ![c] = p]
        /\ UNCHANGED <<run, keyFile, config, signer>>
        /\ completes => request' = [request EXCEPT ![r] = a] /\ userKeys' = Inserted(q, u)
        /\ ~completes => UNCHANGED <<request, userKeys>>
    BY <1>1, <1>2 DEF CompleteCallback, machineVars
  <1>7. CASE ~completes
    <2>1. p.pc = "refused" /\ q.status # "none"
      BY <1>2, <1>4, <1>7
    <2> HIDE DEF p
    <2> QED BY <1>2, <1>4, <1>6, <1>7, <2>1, CallbackStepKeeps
  <1>8. CASE completes
    <2>1. /\ userKeys' \in Seq(RowType)
          /\ \A i \in DOMAIN userKeys : i \in DOMAIN userKeys' /\ userKeys'[i] = userKeys[i]
          /\ \/ userKeys' = userKeys /\ Held(q) # {}
             \/ /\ Held(q) = {}
                /\ DOMAIN userKeys' = DOMAIN userKeys \cup {Len(userKeys) + 1}
                /\ userKeys'[Len(userKeys) + 1] = Row(q.server, u, q.key, TRUE)
      <3>1. ~InsertFails(q) /\ userKeys' = Inserted(q, u)
        BY <1>6, <1>8
      <3> HIDE DEF q, u
      <3> QED BY <1>2, <1>3, <3>1, InsertAppends
    <2>2. q.status = "pending"
      BY <1>8 DEF Completable
    <2>3. resolved => \E i \in DOMAIN userKeys' : /\ userKeys'[i].owner = u
                                                  /\ userKeys'[i].key = q.key
                                                  /\ userKeys'[i].server = q.server
      <3>1. CASE userKeys' = userKeys /\ Held(q) # {}
        BY <3>1 DEF Held, Holders
      <3>2. CASE Held(q) = {}
        <4>1. Len(userKeys) + 1 \in DOMAIN userKeys'
          BY <2>1, <3>2
        <4> HIDE DEF q, u
        <4> QED BY <2>1, <3>2, <4>1 DEF Row
      <3> QED BY <2>1, <3>1, <3>2
    <2> HIDE DEF p, a, resolved, completes
    <2>4. /\ callback' \in [Callbacks -> CallbackType] /\ callback'[c] = p
          /\ \A d \in Callbacks \ {c} : callback'[d] = callback[d]
          /\ request' \in [Runs -> RequestType] /\ request'[r] = a
          /\ \A t \in Runs \ {r} : request'[t] = request[t]
      BY <1>1, <1>2, <1>4, <1>5, <1>6, <1>8
    <2>5. TypeOK'
      BY <1>6, <2>1, <2>4 DEF IInv, TypeOK, CallbackType, RequestType, RowType
    <2>6. \A t \in Runs : RunOK(t)' /\ RequestOK(t)'
      <3> TAKE t \in Runs
      <3>1. RunOK(t) /\ RequestOK(t)
        BY DEF IInv
      <3>2. CASE t = r
        BY <1>2, <1>3, <1>5, <1>6, <2>4, <3>1, <3>2 DEF RunOK, RequestOK
      <3>3. CASE t # r
        BY <1>6, <2>4, <3>1, <3>3 DEF RunOK, RequestOK
      <3> QED BY <3>2, <3>3
    (* No other callback has bound this request, which was pending.        *)
    <2>7. \A d \in Callbacks \ {c} : Bound(d) => callback[d].of # r /\ callback[d].of \in Runs
      <3> TAKE d \in Callbacks \ {c}
      <3>1. CallbackOK(d)
        BY DEF IInv
      <3> QED BY <2>2, <3>1 DEF CallbackOK, Bound
    <2>8. \A d \in Callbacks : CallbackOK(d)'
      <3> TAKE d \in Callbacks
      <3>1. CASE d = c
        <4>1. callback'[c].of = r /\ callback'[c].student = u
          BY <1>4, <2>4
        <4>2. resolved => \E i \in DOMAIN userKeys' : /\ userKeys'[i].owner = request'[r].student
                                                       /\ userKeys'[i].key = request'[r].key
                                                       /\ userKeys'[i].server = request'[r].server
          BY <1>5, <2>3, <2>4
        <4> QED BY <1>2, <1>4, <1>5, <2>4, <3>1, <4>1, <4>2 DEF CallbackOK, Bound, Owned
      <3>2. CASE d # c
        <4>1. CallbackOK(d) /\ callback'[d] = callback[d]
          BY <2>4, <3>2 DEF IInv
        <4>2. callback[d].pc # "idle" => request'[callback[d].of].status # "none"
          BY <1>5, <2>4, <4>1 DEF CallbackOK
        <4>3. Bound(d) => request'[callback[d].of] = request[callback[d].of]
          BY <2>4, <2>7, <3>2
        <4>4. Bound(d) => Owned(request[callback[d].of])'
          BY <2>1, <4>1, <4>3 DEF CallbackOK, Owned
        <4> QED BY <4>1, <4>2, <4>3, <4>4 DEF CallbackOK, Bound
      <3> QED BY <3>1, <3>2
    <2>9. BoundOnce'
      BY <1>4, <2>4, <2>7 DEF IInv, BoundOnce, Bound
    <2>10. OneHolder'
      <3> SUFFICES ASSUME NEW sv \in Servers, NEW k \in Keys,
                          NEW i \in Holders(sv, k)', NEW j \in Holders(sv, k)'
                   PROVE  i = j
        BY DEF OneHolder
      <3>1. \A h \in Holders(sv, k)' : h \in DOMAIN userKeys => h \in Holders(sv, k)
        BY <2>1 DEF Holders
      <3>2. CASE i \in DOMAIN userKeys /\ j \in DOMAIN userKeys
        BY <3>1, <3>2 DEF IInv, OneHolder
      <3>3. CASE ~(i \in DOMAIN userKeys /\ j \in DOMAIN userKeys)
        <4>1. i \in DOMAIN userKeys' /\ j \in DOMAIN userKeys'
          BY DEF Holders
        <4>2. /\ Held(q) = {}
              /\ DOMAIN userKeys' = DOMAIN userKeys \cup {Len(userKeys) + 1}
              /\ userKeys'[Len(userKeys) + 1] = Row(q.server, u, q.key, TRUE)
          BY <2>1, <3>3, <4>1
        <4>3. sv = q.server /\ k = q.key
          BY <3>3, <4>1, <4>2 DEF Holders, Row
        <4>4. Holders(sv, k) = {}
          BY <4>2, <4>3 DEF Held
        <4> QED BY <3>1, <4>1, <4>2, <4>4
      <3> QED BY <3>2, <3>3
    <2> QED BY <2>5, <2>6, <2>8, <2>9, <2>10 DEF IInv
  <1> QED BY <1>7, <1>8

-----------------------------------------------------------------------------
(* For any students, machines, servers, commands and callbacks a request   *)
(* that is polled was asked for by that command, and a key that a callback *)
(* bound has a row of the student it was bound for.                        *)
THEOREM Invariance == Spec => []IInv
  <1>1. IInv /\ Next => IInv'
    <2> SUFFICES ASSUME IInv, Next PROVE IInv'
      OBVIOUS
    <2>1. ASSUME NEW r \in Runs, NEW m \in Machines, NEW sv \in Servers, NEW rotate \in BOOLEAN,
                 StartAuth(r, m, sv, rotate)
          PROVE  IInv'
      BY <2>1, StartAuthKeeps
    <2>2. ASSUME NEW r \in Runs, CreateKey(r) \/ Poll(r) \/ PersistEntry(r) \/ Interrupt(r)
          PROVE  IInv'
      BY <2>2, CommandKeeps
    <2>3. ASSUME NEW r \in Runs, Authorize(r)
          PROVE  IInv'
      BY <2>3, AuthorizeKeeps
    <2>4. ASSUME NEW r \in Runs, RequestExpires(r)
          PROVE  IInv'
      BY <2>4, ExpiryKeeps
    <2>5. ASSUME NEW c \in Callbacks, \/ \E r \in Runs : BeginVerification(c, r)
                                      \/ \E u \in Students : BeginCallback(c, u)
                                      \/ ExchangeFails(c)
          PROVE  IInv'
      BY <2>5, BrowserKeeps
    <2>6. ASSUME NEW c \in Callbacks, CompleteCallback(c)
          PROVE  IInv'
      BY <2>6, CompletionKeeps
    <2>7. ASSUME NEW m \in Machines, Signed(m)
          PROVE  IInv'
      BY <2>7, KeyUseKeeps
    <2>8. ASSUME NEW m \in Machines, NEW sv \in Servers, Authenticate(m, sv)
          PROVE  IInv'
      BY <2>8, AuthenticateKeeps
    <2> QED BY <2>1, <2>2, <2>3, <2>4, <2>5, <2>6, <2>7, <2>8 DEF Next, AuthNext, ServerNext, Signed
  <1>2. IInv /\ UNCHANGED vars => IInv'
    BY DEF vars, machineVars, IInv, TypeOK, RunOK, RequestOK, CallbackOK, Bound, BoundOnce, Owned,
           OneHolder, Holders
  <1> QED BY <1>1, <1>2, InitInv, PTL DEF Spec

(* One of the browsers that return with a request's state binds the        *)
(* device, for the student logged in there, and a signature identifies at  *)
(* most one student.                                                       *)
THEOREM DevicesBindOnce == Spec => []BoundForOneStudent
  <1>1. IInv => BoundForOneStudent
    <2> SUFFICES ASSUME IInv PROVE BoundForOneStudent
      OBVIOUS
    <2>1. ASSUME NEW sv \in Servers, NEW k \in Keys
          PROVE  Cardinality(Holders(sv, k)) <= 1
      <3>1. \A i, j \in Holders(sv, k) : i = j
        BY DEF IInv, OneHolder
      <3>2. CASE Holders(sv, k) = {}
        BY <3>2, FS_EmptySet
      <3>3. CASE Holders(sv, k) # {}
        <4> PICK i \in Holders(sv, k) : Holders(sv, k) = {i}
          BY <3>1, <3>3
        <4>1. Cardinality({i}) = 1
          BY FS_Singleton
        <4> QED BY <4>1
      <3> QED BY <3>2, <3>3
    <2> QED BY <2>1 DEF BoundForOneStudent, IInv, BoundOnce, CallbackOK, Bound, Owned
  <1> QED BY <1>1, Invariance, PTL

(* Binding a key again or revoking it never gives a row to another student *)
(* or brings it back.                                                      *)
THEOREM RowsStayHistory == Spec => KeyRowsAreHistory
  <1> DEFINE A == \A i \in DOMAIN userKeys :
                    /\ i \in DOMAIN userKeys'
                    /\ userKeys'[i].owner = userKeys[i].owner
                    /\ userKeys'[i].key = userKeys[i].key
                    /\ userKeys'[i].active => userKeys[i].active
  <1>1. IInv /\ Next => A \/ UNCHANGED vars
    <2> SUFFICES ASSUME IInv, Next PROVE A
      OBVIOUS
    <2>1. CASE UNCHANGED userKeys
      BY <2>1
    <2>2. ASSUME NEW c \in Callbacks, CompleteCallback(c)
          PROVE  A
      <3> DEFINE q == request[callback[c].of]
                 u == callback[c].student
      <3>1. CallbackOK(c) /\ callback[c].pc = "exchanging"
        BY <2>2 DEF IInv, CompleteCallback
      <3>2. u \in Students /\ q.server \in Servers /\ q.key \in Keys
        BY <3>1 DEF IInv, CallbackOK, RequestOK
      <3>3. userKeys' = userKeys \/ (~InsertFails(q) /\ userKeys' = Inserted(q, u))
        BY <2>2 DEF CompleteCallback
      <3> HIDE DEF q, u
      <3>4. CASE ~InsertFails(q) /\ userKeys' = Inserted(q, u)
        BY <3>2, <3>4, InsertAppends
      <3> QED BY <2>1, <3>3, <3>4
    <2>3. ASSUME NEW m \in Machines, Signed(m)
          PROVE  A
      BY <2>3, KeyUseAges DEF Ages
    <2> QED BY <2>1, <2>2, <2>3 DEF Next, Signed, Authenticate, AuthNext, ServerNext, StartAuth, CreateKey, Authorize, Poll,
               PersistEntry, Interrupt, RequestExpires, BeginVerification, BeginCallback, ExchangeFails
  <1>2. IInv /\ [Next]_vars => [A]_vars
    BY <1>1
  <1> QED BY <1>2, Invariance, PTL DEF Spec, KeyRowsAreHistory
=============================================================================
