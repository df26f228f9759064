---------------------------- MODULE LabKitProofs ----------------------------
(***************************************************************************)
(* LabKit implements Pipeline: seen from the database, a request with all  *)
(* its statements is the one step of Admission, for any number of          *)
(* requests, students, uploads, nonces, workers, submissions and days.     *)
(*                                                                         *)
(* P is the Pipeline that LabKit names.  Q is the same module together     *)
(* with what PipelineProofs proves of it; since a step of LabKit is a step *)
(* of Q, CInv is an invariant of LabKit too.                               *)
(***************************************************************************)
EXTENDS Submitting, FiniteSetTheorems, TLAPS

Q == INSTANCE PipelineProofs

-----------------------------------------------------------------------------
(* What a request may rely on between its statements, and why its commit   *)
(* is a legal admission.                                                   *)

(* The day on which the transaction of an id began: of a committed one, of *)
(* an open request, or of an open re-evaluation.                           *)
Began(s, d) ==
  \/ status[s] # "none" /\ row[s].created = d
  \/ \E r \in Requests : req[r].pc \in Open /\ req[r].id = s /\ req[r].created = d
  \/ copyOf[s] # 0 /\ listDay = d

StartsInOrder ==
  /\ \A s \in Ids, d \in Days : Began(s, d) => d <= today
  /\ \A s, t \in Ids, d, e \in Days : Began(s, d) /\ Began(t, e) /\ s < t => d <= e

OwnIds ==
  \A r \in Requests : req[r].pc \in Open =>
    /\ status[req[r].id] = "none" /\ copyOf[req[r].id] = 0
    /\ \A q \in Requests : q # r /\ req[q].pc \in Open => req[q].id # req[r].id

Counted == Locking \ {"full"}

(* The room that was counted under the lock is still there.                *)
RequestOK(r) ==
  /\ req[r].pc \in Open \ {"begun"} =>
       req[r].created <= req[r].window /\ req[r].window <= today
  /\ req[r].pc \in {"begun", "windowed", "full"} => req[r].pays = "pending"
  /\ req[r].pc \in Counted /\ req[r].pays = "pending" =>
       Cardinality(Paid(req[r].user, req[r].window)) < Daily
  /\ req[r].pc \in Open /\ req[r].pays = "bonus" => bonus[req[r].user] > 0

LocksApart ==
  \A q, r \in Requests : q # r =>
    /\ req[q].pc \in Locking /\ req[r].pc \in Locking =>
         req[q].user # req[r].user \/ req[q].window # req[r].window
    /\ req[q].pc \in Open /\ req[q].pays = "bonus" /\ req[r].pc \in Open /\ req[r].pays = "bonus" =>
         req[q].user # req[r].user

NoncesApart ==
  \A r \in Requests : req[r].pc = "reserved" =>
    /\ req[r].nonce \notin usedNonces
    /\ \A q \in Requests : q # r /\ req[q].pc = "reserved" => req[q].nonce # req[r].nonce

NoListing == Reserved = {} => listDay = 0

LInv ==
  /\ Q!CInv
  /\ IntakeTypeOK
  /\ StartsInOrder
  /\ OwnIds
  /\ \A r \in Requests : RequestOK(r)
  /\ LocksApart
  /\ NoncesApart
  /\ NoListing

-----------------------------------------------------------------------------
(* The two instances of Pipeline, and Pipeline's lemmas with their         *)
(* assumptions discharged.                                                 *)
LEMMA SameNext == Q!Next <=> P!Next
<1>1. Q!AdminNext <=> P!AdminNext
  BY DEF P!AdminNext, Q!AdminNext, P!ResetLabQuota, Q!ResetLabQuota, P!AdjustBonusQuota,
         Q!AdjustBonusQuota, P!ResetBonusQuota, Q!ResetBonusQuota, P!ReevaluateList,
         Q!ReevaluateList, P!ReevaluateCommit, Q!ReevaluateCommit, P!ReevaluateAbort,
         Q!ReevaluateAbort, P!SetBonus, Q!SetBonus, P!ReevaluateEnd, Q!ReevaluateEnd,
         P!Resettable, Q!Resettable, P!CreateRows, Q!CreateRows, P!Upload, Q!Upload,
         P!Participants, Q!Participants, P!AtLeastZero, Q!AtLeastZero, P!Committed,
         Q!Committed, P!Reserved, Q!Reserved, P!Ids, Q!Ids, P!Days, Q!Days, P!Counting,
         Q!Counting, P!submissionVars, Q!submissionVars, P!jobVars, Q!jobVars,
         P!historyVars, Q!historyVars, P!adminVars, Q!adminVars, P!tableVars, Q!tableVars
<1>2. Q!Submit <=> P!Submit
  <2>1. ASSUME NEW s \in Ids, NEW u, NEW c, NEW created, NEW window
        PROVE  /\ Q!AdmitDaily(s, u, c, created, window) <=> P!AdmitDaily(s, u, c, created, window)
               /\ Q!AdmitBonus(s, u, c, created, window) <=> P!AdmitBonus(s, u, c, created, window)
    <3>1. Q!Paid(u, window) = P!Paid(u, window)
      BY DEF Q!Paid, Q!QuotaUsage, Q!Counting, Q!Ids, P!Paid, P!QuotaUsage, P!Counting, P!Ids
    <3>2. /\ Q!CreateRows([t \in {s} |-> Q!Upload(u, c, created, window)], "pending")
                <=> P!CreateRows([t \in {s} |-> P!Upload(u, c, created, window)], "pending")
          /\ Q!CreateRows([t \in {s} |-> Q!Upload(u, c, created, window)], "bonus")
                <=> P!CreateRows([t \in {s} |-> P!Upload(u, c, created, window)], "bonus")
      BY DEF Q!CreateRows, Q!Ids, Q!Upload, P!CreateRows, P!Ids, P!Upload
    <3>3. Q!InOrder(s, created) <=> P!InOrder(s, created)
      BY DEF Q!InOrder, Q!Committed, Q!Ids, P!InOrder, P!Committed, P!Ids
    <3>4. Q!WithinDaily(u, window) <=> P!WithinDaily(u, window)
      BY <3>1 DEF Q!WithinDaily, P!WithinDaily, Q!Cardinality, P!Cardinality
    <3>5. Q!historyVars' = P!historyVars' /\ Q!historyVars = P!historyVars
      BY DEF Q!historyVars, P!historyVars
    <3>6. Q!AdmitDaily(s, u, c, created, window) <=> P!AdmitDaily(s, u, c, created, window)
      BY <3>2, <3>3, <3>4, <3>5, Zenon DEF Q!AdmitDaily, P!AdmitDaily
    <3>7. Q!AdmitBonus(s, u, c, created, window) <=> P!AdmitBonus(s, u, c, created, window)
      BY <3>2, <3>3, <3>5, Zenon DEF Q!AdmitBonus, P!AdmitBonus
    <3> QED
      BY <3>6, <3>7
  <2> QED
    BY <2>1 DEF Ids, Q!Submit, Q!Admit, Q!Ids, Q!Days, Q!Reserved, Q!adminVars, Q!workerVars,
       P!Submit, P!Admit, P!Ids, P!Days, P!Reserved, P!adminVars, P!workerVars
<1>3. ASSUME NEW w \in Workers
      PROVE  /\ Q!WorkerStep(w) <=> P!WorkerStep(w)
             /\ Q!WorkerFault(w) <=> P!WorkerFault(w)
  BY DEF P!WorkerStep, Q!WorkerStep, P!WorkerFault, Q!WorkerFault, P!ClaimSelect,
         Q!ClaimSelect, P!ClaimLocked, Q!ClaimLocked, P!ClaimCommit, Q!ClaimCommit,
         P!Load, Q!Load, P!MarkRunning, Q!MarkRunning, P!Evaluate, Q!Evaluate, P!Verdicts,
         Q!Verdicts, P!Persist, Q!Persist, P!SettleQuota, Q!SettleQuota, P!Refunds,
         Q!Refunds, P!Settlement, Q!Settlement, P!QuotaStateFor, Q!QuotaStateFor,
         P!RefreshLeaderboard, Q!RefreshLeaderboard, P!Acknowledge, Q!Acknowledge,
         P!OwnsRunning, Q!OwnsRunning, P!JobStatusFor, Q!JobStatusFor, P!Die, Q!Die,
         P!Restart, Q!Restart, P!Drop, Q!Drop, P!Goto, Q!Goto, P!Ids, Q!Ids,
         P!submissionVars, Q!submissionVars, P!jobVars, Q!jobVars, P!historyVars,
         Q!historyVars, P!adminVars, Q!adminVars, P!tableVars, Q!tableVars
<1> QED
  BY <1>1, <1>2, <1>3 DEF P!Next, Q!Next, P!SteadyNext, Q!SteadyNext, P!Administer, Q!Administer,
         P!Midnight, Q!Midnight, P!Tick, Q!Tick, P!adminVars, Q!adminVars, P!workerVars,
         Q!workerVars, P!submissionVars, Q!submissionVars, P!jobVars, Q!jobVars,
         P!historyVars, Q!historyVars

LEMMA SameRows == Q!Rows = Rows
  BY DEF Q!Rows, Rows, Q!Days, Days

LEMMA CountsKeep == Q!CInv /\ [Q!Next]_(Q!vars) => Q!CInv'
  BY SameRows, TablesAssumption, AdminAssumption, WorkerAssumption, Q!CKeeps

LEMMA CountsInit == Q!Init => Q!CInv
  BY SameRows, TablesAssumption, AdminAssumption, WorkerAssumption, Q!CInit

LEMMA PaidGrows ==
  ASSUME Q!CInv, [Q!Next]_(Q!vars), NEW u \in Users, NEW d \in Days,
         NEW s \in Paid(u, d)', s \notin Paid(u, d)
  PROVE  quotaState[s] = "none" /\ quotaState'[s] = "pending"
<1>1. Paid(u, d) = Q!Paid(u, d) /\ Paid(u, d)' = Q!Paid(u, d)' /\ d \in Q!Days
  BY DEF Paid, QuotaUsage, Counting, Ids, Days, Q!Paid, Q!QuotaUsage, Q!Counting, Q!Ids, Q!Days
<1> QED
  BY <1>1, SameRows, TablesAssumption, AdminAssumption, WorkerAssumption, Q!PaidGrows

(* What Pipeline's invariant says of the tables.                           *)
LEMMA Tabled ==
  ASSUME Q!CInv
  PROVE  /\ TablesTypeOK(Workers) /\ WorkerTypeOK
         /\ copyOf \in [Ids -> Ids \cup {0}] /\ listDay \in Days
         /\ \A s \in Ids : status[s] = "none" <=> quotaState[s] = "none"
         /\ \A s \in Ids : status[s] # "none" => row[s] \in Rows
         /\ \A s \in Ids : copyOf[s] # 0 => status[s] = "none"
<1>1. /\ Q!TypeOK /\ Q!CopiesOK /\ \A s \in Ids : Q!SubmissionOK(s)
  BY DEF Q!CInv, Q!IInv, Ids, Q!Ids
<1>2. /\ Ids = Q!Ids /\ Days = Q!Days /\ Rows = Q!Rows /\ Verdicts = Q!Verdicts
      /\ QuotaStates = Q!QuotaStates /\ Phases = Q!Phases
  BY SameRows DEF Ids, Q!Ids, Days, Q!Days, Verdicts, Q!Verdicts, QuotaStates, Q!QuotaStates,
     Counting, Q!Counting, Phases, Q!Phases
<1>3. TablesTypeOK(Workers) /\ WorkerTypeOK
  BY <1>1, <1>2 DEF Q!TypeOK, Q!TablesTypeOK, TablesTypeOK, Q!WorkerTypeOK, WorkerTypeOK
<1>4. copyOf \in [Ids -> Ids \cup {0}] /\ listDay \in Days
  BY <1>1, <1>2 DEF Q!TypeOK
<1>5. \A s \in Ids : /\ status[s] = "none" <=> quotaState[s] = "none"
                     /\ status[s] # "none" => row[s] \in Rows
  BY <1>1, <1>2 DEF Q!SubmissionOK
<1>6. \A s \in Ids : copyOf[s] # 0 => status[s] = "none"
  BY <1>1, <1>2 DEF Q!CopiesOK
<1> QED
  BY <1>3, <1>4, <1>5, <1>6

(* What an open request carries.                                           *)
LEMMA Carried ==
  ASSUME IntakeTypeOK, NEW r \in Requests, req[r].pc # "idle"
  PROVE  /\ req[r].pc \in Open \cup {"undoing"}
         /\ req[r].user \in Users /\ req[r].content \in Contents /\ req[r].nonce \in Nonces
         /\ req[r].id \in Ids /\ req[r].created \in Days /\ req[r].window \in Days
         /\ req[r].pays \in {"pending", "bonus"}
         /\ req[r] = [pc |-> req[r].pc, user |-> req[r].user, content |-> req[r].content,
                      nonce |-> req[r].nonce, id |-> req[r].id, created |-> req[r].created,
                      window |-> req[r].window, pays |-> req[r].pays]
<1>1. req[r] # Idle
  BY DEF Idle
<1>2. req[r] \in [pc: Open \cup {"undoing"}, user: Users, content: Contents, nonce: Nonces,
                  id: Ids, created: Days, window: Days, pays: {"pending", "bonus"}]
  BY <1>1 DEF IntakeTypeOK
<1> QED
  BY <1>2

(* What a commit writes.                                                   *)
LEMMA CommitWrites ==
  ASSUME LInv, NEW r \in Requests, CommitRows(r)
  PROVE  LET me == req[r] IN
         /\ me.pc = "reserved" /\ me.id \in Ids
         /\ row' = [row EXCEPT ![me.id] =
                      Upload(me.user, me.content, me.created, me.window)]
         /\ status' = [status EXCEPT ![me.id] = "queued"]
         /\ quotaState' = [quotaState EXCEPT ![me.id] = me.pays]
         /\ bonus' = IF me.pays = "bonus" THEN [bonus EXCEPT ![me.user] = @ - 1] ELSE bonus
         /\ usedNonces' = usedNonces \cup {me.nonce}
         /\ UNCHANGED <<today, wasReset, artifact>>
<1>1. /\ req[r].pc = "reserved"
      /\ CreateRows([s \in {req[r].id} |-> Upload(req[r].user, req[r].content,
                                                  req[r].created, req[r].window)], req[r].pays)
      /\ bonus' = IF req[r].pays = "bonus" THEN [bonus EXCEPT ![req[r].user] = @ - 1] ELSE bonus
      /\ usedNonces' = usedNonces \cup {req[r].nonce}
      /\ UNCHANGED <<today, wasReset, artifact>>
  BY DEF CommitRows, historyVars
<1>2. req[r].id \in Ids
  BY <1>1, Carried DEF LInv
<1>3. /\ row \in [Ids -> Rows \cup {NoRow}]
      /\ status \in [Ids -> {"none", "queued", "running", "done", "error"}]
      /\ quotaState \in [Ids -> QuotaStates \cup {"none"}]
  BY Tabled DEF LInv, TablesTypeOK
<1>4. /\ row' = [row EXCEPT ![req[r].id] = Upload(req[r].user, req[r].content,
                                                  req[r].created, req[r].window)]
      /\ status' = [status EXCEPT ![req[r].id] = "queued"]
      /\ quotaState' = [quotaState EXCEPT ![req[r].id] = req[r].pays]
  BY <1>1, <1>2, <1>3 DEF CreateRows
<1> QED
  BY <1>1, <1>2, <1>4

(* A commit is an admission: the room counted under the advisory lock or   *)
(* the credit held by the row lock is still there, and the ids and days    *)
(* are in the order the transactions began.                                *)
LEMMA CommitIsSubmit ==
  ASSUME LInv, NEW r \in Requests, CommitRows(r), UNCHANGED <<adminVars, workerVars>>
  PROVE  Q!Submit
<1> DEFINE s == req[r].id  u == req[r].user  c == req[r].content
           created == req[r].created  window == req[r].window
<1>1. /\ req[r].pc = "reserved" /\ req[r].pc \in Open \ {"begun"} /\ req[r].pc \in Counted
  BY CommitWrites DEF Open, Locking, Counted
<1>2. /\ s \in Ids /\ u \in Users /\ c \in Contents /\ created \in Days /\ window \in Days
      /\ req[r].pays \in {"pending", "bonus"}
  BY <1>1, Carried DEF LInv
<1>3. /\ status[s] = "none" /\ copyOf[s] = 0
      /\ created <= window /\ window <= today
      /\ req[r].pays = "pending" => Cardinality(Paid(u, window)) < Daily
      /\ req[r].pays = "bonus" => bonus[u] > 0
  BY <1>1 DEF LInv, OwnIds, RequestOK
<1>4. Q!InOrder(s, created)
  <2>1. Began(s, created)
    BY <1>1 DEF Began
  <2>2. ASSUME NEW t \in Ids, status[t] # "none"
        PROVE  Began(t, row[t].created) /\ row[t].created \in Days
    BY <2>2, Tabled DEF LInv, Began, Rows
  <2> QED
    BY <1>2, <2>1, <2>2 DEF LInv, StartsInOrder, Q!InOrder, Q!Committed, Q!Ids, Ids
<1>5. /\ CreateRows([t \in {s} |-> Upload(u, c, created, window)], req[r].pays)
      /\ bonus' = IF req[r].pays = "bonus" THEN [bonus EXCEPT ![u] = @ - 1] ELSE bonus
      /\ UNCHANGED <<board, today, wasReset, issued>>
  BY DEF CommitRows, historyVars
<1>6. Q!CreateRows([t \in {s} |-> Q!Upload(u, c, created, window)], req[r].pays)
  BY <1>5 DEF CreateRows, Ids, Upload, Q!CreateRows, Q!Ids, Q!Upload
<1>7. ASSUME req[r].pays = "pending"
      PROVE  Q!AdmitDaily(s, u, c, created, window)
  <2>1. Q!WithinDaily(u, window)
    BY <1>3, <1>7 DEF Q!WithinDaily, Q!Cardinality, Cardinality, Paid, QuotaUsage, Counting, Ids,
       Q!Paid, Q!QuotaUsage, Q!Counting, Q!Ids
  <2>2. Q!CreateRows([t \in {s} |-> Q!Upload(u, c, created, window)], "pending")
    BY <1>6, <1>7
  <2>3. UNCHANGED <<bonus, board, today, Q!historyVars>>
    BY <1>5, <1>7 DEF Q!historyVars
  <2> HIDE DEF s, u, c, created, window
  <2> QED
    BY <1>3, <1>4, <1>7, <2>1, <2>2, <2>3 DEF Q!AdmitDaily
<1>8. ASSUME req[r].pays = "bonus"
      PROVE  Q!AdmitBonus(s, u, c, created, window)
  <2>1. Q!CreateRows([t \in {s} |-> Q!Upload(u, c, created, window)], "bonus")
    BY <1>6, <1>8
  <2>2. UNCHANGED <<board, today, Q!historyVars>> /\ bonus' = [bonus EXCEPT ![u] = @ - 1]
    BY <1>5, <1>8 DEF Q!historyVars
  <2> HIDE DEF s, u, c, created, window
  <2> QED
    BY <1>3, <1>4, <1>8, <2>1, <2>2 DEF Q!AdmitBonus
<1>9. UNCHANGED <<Q!adminVars, Q!workerVars>> /\ s \in Q!Ids \ Q!Reserved
  BY <1>2, <1>3 DEF adminVars, workerVars, Q!adminVars, Q!workerVars, Q!Ids, Ids, Q!Reserved
<1> HIDE DEF s, u, c, created, window
<1>10. Q!Admit(s)
  BY <1>2, <1>7, <1>8 DEF Q!Admit, Q!Days, Days
<1> QED
  BY <1>9, <1>10 DEF Q!Submit

(* The statements of a request other than its commit leave the rows alone. *)
LEMMA QuietRequest ==
  ASSUME NEW r \in Requests, RequestStep(r, Taken) \/ Abort(r), ~CommitRows(r)
  PROVE  UNCHANGED tableVars
BY DEF RequestStep, Begin, ReadWindow, CheckQuota, ConsumeBonus, SaveTruncate, SaveWrite,
   ReserveNonce, Commit, DeleteArtifact, Abort

(* Every step of LabKit is a step of Pipeline, or none.                    *)
LEMMA Implements ==
  ASSUME LInv, [Next]_vars
  PROVE  [Q!Next]_(Q!vars)
<1> DEFINE unseen == UNCHANGED <<tableVars, adminVars, workerVars>>
<1>0. unseen => UNCHANGED Q!vars
  BY DEF Q!vars, Q!tableVars, Q!adminVars, Q!workerVars, tableVars, adminVars, workerVars
<1>1. ASSUME NEW r \in Requests, UNCHANGED <<adminVars, workerVars>>,
             RequestStep(r, Taken) \/ Abort(r) \/ CommitLost(r)
      PROVE  [Q!Next]_(Q!vars)
  <2>1. CASE CommitRows(r)
    BY <1>1, <2>1, CommitIsSubmit DEF Q!Next, Q!SteadyNext
  <2>2. CASE ~CommitRows(r)
    BY <1>0, <1>1, <2>2, QuietRequest DEF CommitLost
  <2> QED
    BY <2>1, <2>2
<1>2. CASE Administer
  <2>1. Q!AdminNext
    BY <1>2 DEF Administer,
       AdminNext, Q!AdminNext, ResetLabQuota, Q!ResetLabQuota, AdjustBonusQuota,
       Q!AdjustBonusQuota, ResetBonusQuota, Q!ResetBonusQuota, ReevaluateList,
       Q!ReevaluateList, ReevaluateCommit, Q!ReevaluateCommit, ReevaluateAbort,
       Q!ReevaluateAbort, SetBonus, Q!SetBonus, ReevaluateEnd, Q!ReevaluateEnd,
       Resettable, Q!Resettable, CreateRows, Q!CreateRows, Upload, Q!Upload, Participants,
       Q!Participants, AtLeastZero, Q!AtLeastZero, Committed, Q!Committed, Reserved,
       Q!Reserved, Ids, Q!Ids, Days, Q!Days, Counting, Q!Counting, submissionVars,
       Q!submissionVars, jobVars, Q!jobVars, historyVars, Q!historyVars, adminVars,
       Q!adminVars, tableVars, Q!tableVars
  <2> QED
    BY <1>2, <2>1 DEF Administer, Q!Next, Q!SteadyNext, Q!Administer, workerVars, Q!workerVars
<1>3. CASE Midnight
  BY <1>3 DEF Midnight, Q!Midnight, Tick, Q!Tick, Q!Next, Q!SteadyNext, adminVars, workerVars,
     submissionVars, jobVars, historyVars, Q!adminVars, Q!workerVars, Q!submissionVars,
     Q!jobVars, Q!historyVars
<1>4. ASSUME NEW w \in Workers, WorkerStep(w)
      PROVE  Q!WorkerStep(w)
  <2>1. Readable(current[w]) \in BOOLEAN
    BY DEF Readable
  <2>2. PICK readable \in BOOLEAN :
          /\ \/ ClaimSelect(w) \/ ClaimCommit(w) \/ Load(w) \/ MarkRunning(w)
             \/ Evaluate(w, readable) \/ Persist(w) \/ Acknowledge(w)
          /\ UNCHANGED adminVars
    BY <1>4, <2>1 DEF WorkerStep
  <2> QED
    BY <2>2 DEF Q!WorkerStep,
       ClaimSelect, Q!ClaimSelect, ClaimLocked, Q!ClaimLocked, ClaimCommit, Q!ClaimCommit,
       Load, Q!Load, MarkRunning, Q!MarkRunning, Evaluate, Q!Evaluate, Verdicts,
       Q!Verdicts, Persist, Q!Persist, SettleQuota, Q!SettleQuota, Refunds, Q!Refunds,
       Settlement, Q!Settlement, QuotaStateFor, Q!QuotaStateFor, RefreshLeaderboard,
       Q!RefreshLeaderboard, Acknowledge, Q!Acknowledge, OwnsRunning, Q!OwnsRunning,
       JobStatusFor, Q!JobStatusFor, Drop, Q!Drop, Goto, Q!Goto, Ids, Q!Ids,
       submissionVars, Q!submissionVars, jobVars, Q!jobVars, historyVars, Q!historyVars,
       adminVars, Q!adminVars, tableVars, Q!tableVars
<1>5. ASSUME NEW w \in Workers, Die(w) \/ Restart(w), UNCHANGED adminVars
      PROVE  Q!WorkerFault(w)
  BY <1>5 DEF Q!WorkerFault, Die, Restart, Drop, Goto, Q!Die, Q!Restart, Q!Drop, Q!Goto,
     tableVars, adminVars, Q!tableVars, Q!adminVars
<1>6. CASE ApiCrash /\ copyOf' = [s \in Ids |-> 0] /\ listDay' = 0 /\ UNCHANGED workerVars
  <2>1. UNCHANGED tableVars
    BY <1>6 DEF ApiCrash
  <2>2. CASE Reserved = {}
    <3>1. UNCHANGED adminVars
      BY <1>6, <2>2, Tabled DEF LInv, NoListing, Reserved, adminVars
    <3> QED
      BY <1>0, <1>6, <2>1, <3>1
  <2>3. CASE Reserved # {}
    <3>1. Q!ReevaluateAbort
      BY <1>6, <2>1, <2>3 DEF Q!ReevaluateAbort, Q!ReevaluateEnd, Q!Reserved, Reserved, Q!Ids, Ids,
         Q!tableVars, tableVars
    <3> QED
      BY <1>6, <3>1 DEF Q!Next, Q!SteadyNext, Q!Administer, Q!AdminNext, Q!workerVars, workerVars
  <2> QED
    BY <2>2, <2>3
<1>7. CASE UNCHANGED vars
  BY <1>0, <1>7 DEF vars
<1> QED
  BY <1>1, <1>2, <1>3, <1>4, <1>5, <1>6, <1>7 DEF Next, SmoothNext, Faults, Handle, Q!Next,
     Q!SteadyNext

-----------------------------------------------------------------------------
(* The requests.                                                           *)

(* A request that does not move; its file may be deleted under it.         *)
Waits(q) ==
  \/ req'[q] = req[q]
  \/ req[q].pc = "saving" /\ req'[q] = [req[q] EXCEPT !.pc = "unlinked"]

(* A request that goes on with what it carries.                            *)
GoesOn(r, pcs, next) ==
  /\ req[r].pc \in pcs /\ req'[r].pc = next
  /\ req'[r].user = req[r].user /\ req'[r].nonce = req[r].nonce
  /\ req'[r].id = req[r].id /\ req'[r].created = req[r].created

SameAccount(r) == req'[r].window = req[r].window /\ req'[r].pays = req[r].pays

Starts(r) ==
  /\ req'[r].pc = "begun" /\ req'[r].pays = "pending"
  /\ req'[r].created = today /\ req'[r].id \in Ids
  /\ \A t \in Taken : t < req'[r].id

LocksDay(r) ==
  /\ GoesOn(r, {"windowed"}, req'[r].pc) /\ SameAccount(r)
  /\ QuotaLockFree(req[r].user, req[r].window)
  /\ \/ req'[r].pc = "full"
     \/ /\ req'[r].pc = "admitted"
        /\ Cardinality(QuotaUsage(req[r].user, req[r].window)) < Daily

TakesCredit(r) ==
  /\ GoesOn(r, {"full"}, "admitted") /\ req'[r].window = req[r].window
  /\ req'[r].pays = "bonus" /\ BonusFree(req[r].user) /\ bonus[req[r].user] > 0

Reserves(r) ==
  /\ GoesOn(r, {"saved"}, "reserved") /\ SameAccount(r)
  /\ req[r].nonce \notin usedNonces
  /\ \A q \in Requests : ~(req[q].pc = "reserved" /\ req[q].nonce = req[r].nonce)

Moves(r) ==
  \/ Starts(r)
  \/ GoesOn(r, {"begun"}, "windowed") /\ req'[r].window = today /\ req'[r].pays = req[r].pays
  \/ LocksDay(r)
  \/ TakesCredit(r)
  \/ GoesOn(r, {"admitted"}, "saving") /\ SameAccount(r)
  \/ GoesOn(r, {"saving", "unlinked"}, "saved") /\ SameAccount(r)
  \/ Reserves(r)
  \/ req'[r].pc \notin Open

LEMMA FiniteIds ==
  ASSUME NEW S \in SUBSET Ids
  PROVE  IsFiniteSet(S) /\ Cardinality(S) \in Nat
<1>1. IsFiniteSet(Ids)
  BY TablesAssumption, FS_Interval DEF Ids
<1> QED
  BY <1>1, FS_Subset, FS_CardinalityType

LEMMA RequestMoves ==
  ASSUME IntakeTypeOK, today \in Days, NEW r \in Requests,
         RequestStep(r, Taken) \/ Abort(r) \/ CommitLost(r)
  PROVE  IntakeTypeOK' /\ (\A q \in Requests \ {r} : Waits(q)) /\ Moves(r)
<1> DEFINE Carries == [pc: Open \cup {"undoing"}, user: Users, content: Contents, nonce: Nonces,
                       id: Ids, created: Days, window: Days, pays: {"pending", "bonus"}]
<1>0. /\ req \in [Requests -> {Idle} \cup Carries] /\ usedNonces \subseteq Nonces
      /\ artifact \in [Users -> [Contents -> {"absent", "torn", "whole"}]]
      /\ "idle" \notin Open /\ "undoing" \notin Open
  BY DEF IntakeTypeOK, Open
<1>1. ASSUME NEW x \in {Idle} \cup Carries, req' = [req EXCEPT ![r] = x],
             usedNonces' \subseteq Nonces,
             artifact' \in [Users -> [Contents -> {"absent", "torn", "whole"}]]
      PROVE  IntakeTypeOK' /\ (\A q \in Requests \ {r} : Waits(q)) /\ req'[r] = x
  BY <1>0, <1>1 DEF IntakeTypeOK, Waits
<1> DEFINE at(pc) == [pc |-> pc, user |-> req[r].user, content |-> req[r].content,
                      nonce |-> req[r].nonce, id |-> req[r].id, created |-> req[r].created,
                      window |-> req[r].window, pays |-> req[r].pays]
<1>2. ASSUME NEW pc \in Open \cup {"undoing"}, req[r].pc # "idle", Goes(r, pc),
             usedNonces' \subseteq Nonces,
             artifact' \in [Users -> [Contents -> {"absent", "torn", "whole"}]]
      PROVE  /\ IntakeTypeOK' /\ (\A q \in Requests \ {r} : Waits(q))
             /\ req'[r] = at(pc)
  <2>1. at(pc) \in Carries /\ req[r] = at(req[r].pc)
    BY <1>2, Carried
  <2>2. req' = [req EXCEPT ![r] = at(pc)]
    <3>1. [req[r] EXCEPT !.pc = pc] = at(pc)
      BY <2>1
    <3>2. req' = [req EXCEPT ![r] = [req[r] EXCEPT !.pc = pc]]
      BY <1>2 DEF Goes
    <3> HIDE DEF at
    <3> QED
      BY <3>1, <3>2
  <2> QED
    BY <1>1, <1>2, <2>1, <2>2
<1>3. ASSUME Ends(r), usedNonces' \subseteq Nonces,
             artifact' \in [Users -> [Contents -> {"absent", "torn", "whole"}]]
      PROVE  IntakeTypeOK' /\ (\A q \in Requests \ {r} : Waits(q)) /\ Moves(r)
  <2>1. req' = [req EXCEPT ![r] = Idle]
    BY <1>3 DEF Ends
  <2>2. IntakeTypeOK' /\ (\A q \in Requests \ {r} : Waits(q)) /\ req'[r] = Idle
    BY <1>1, <1>3, <2>1
  <2> QED
    BY <1>0, <2>2 DEF Moves, Idle
<1>4. CASE Begin(r, Taken)
  <2>1. PICK s \in Ids, u \in Users, c \in Contents, n \in Nonces :
          /\ \A t \in Taken : t < s
          /\ req' = [req EXCEPT ![r] =
               [pc |-> "begun", user |-> u, content |-> c, nonce |-> n,
                id |-> s, created |-> today, window |-> 0, pays |-> "pending"]]
    BY <1>4 DEF Begin
  <2>2. [pc |-> "begun", user |-> u, content |-> c, nonce |-> n,
         id |-> s, created |-> today, window |-> 0, pays |-> "pending"] \in Carries
    BY TablesAssumption DEF Open, Days
  <2>3. usedNonces' = usedNonces /\ artifact' = artifact
    BY <1>4 DEF Begin
  <2>4. /\ IntakeTypeOK' /\ (\A q \in Requests \ {r} : Waits(q))
        /\ req'[r] = [pc |-> "begun", user |-> u, content |-> c, nonce |-> n,
                      id |-> s, created |-> today, window |-> 0, pays |-> "pending"]
    BY <1>0, <1>1, <2>1, <2>2, <2>3
  <2> QED
    BY <2>1, <2>4 DEF Moves, Starts
<1>5. CASE ReadWindow(r)
  <2> DEFINE x == [pc |-> "windowed", user |-> req[r].user, content |-> req[r].content,
                   nonce |-> req[r].nonce, id |-> req[r].id, created |-> req[r].created,
                   window |-> today, pays |-> req[r].pays]
  <2>1. req[r].pc = "begun" /\ req[r] \in Carries /\ req[r] = at("begun")
    <3>1. req[r].pc = "begun"
      BY <1>5 DEF ReadWindow
    <3>2. req[r] \in Carries
      BY <1>0, <3>1 DEF Idle
    <3> QED
      BY <3>1, <3>2
  <2>2. x \in Carries
    BY <2>1 DEF Open
  <2>3. req' = [req EXCEPT ![r] = x]
    <3>1. [req[r] EXCEPT !.window = today, !.pc = "windowed"] = x
      <4> DEFINE y == [pc |-> "begun", user |-> req[r].user, content |-> req[r].content,
                       nonce |-> req[r].nonce, id |-> req[r].id, created |-> req[r].created,
                       window |-> today, pays |-> req[r].pays]
      <4>1. [req[r] EXCEPT !.window = today, !.pc = "windowed"]
              = [[req[r] EXCEPT !.window = today] EXCEPT !.pc = "windowed"]
        OBVIOUS
      <4>2. [req[r] EXCEPT !.window = today] = y
        BY <2>1
      <4>3. [y EXCEPT !.pc = "windowed"] = x
        OBVIOUS
      <4> HIDE DEF x, y
      <4> QED
        BY <4>1, <4>2, <4>3
    <3>2. req' = [req EXCEPT ![r] = [req[r] EXCEPT !.window = today, !.pc = "windowed"]]
      BY <1>5 DEF ReadWindow
    <3> HIDE DEF x
    <3> QED
      BY <3>1, <3>2
  <2>4. usedNonces' = usedNonces /\ artifact' = artifact
    BY <1>5 DEF ReadWindow
  <2>5. IntakeTypeOK' /\ (\A q \in Requests \ {r} : Waits(q)) /\ req'[r] = x
    <3> HIDE DEF x
    <3> QED
      BY <1>0, <1>1, <2>2, <2>3, <2>4
  <2> QED
    BY <2>1, <2>5 DEF Moves, GoesOn
<1>6. CASE CheckQuota(r)
  <2> DEFINE usage == Cardinality(QuotaUsage(req[r].user, req[r].window))
             pc == IF usage >= Daily THEN "full" ELSE "admitted"
  <2>1. /\ req[r].pc = "windowed" /\ Goes(r, pc)
        /\ QuotaLockFree(req[r].user, req[r].window)
        /\ usedNonces' = usedNonces /\ artifact' = artifact
    BY <1>6 DEF CheckQuota
  <2>2. pc \in Open
    BY DEF Open
  <2>3. pc = "admitted" => usage < Daily
    BY FiniteIds, TablesAssumption DEF QuotaUsage
  <2> HIDE DEF pc
  <2>4. IntakeTypeOK' /\ (\A q \in Requests \ {r} : Waits(q)) /\ req'[r] = at(pc)
    BY <1>0, <1>2, <2>1, <2>2
  <2>5. pc \in {"full", "admitted"}
    BY DEF pc
  <2> QED
    BY <2>1, <2>3, <2>4, <2>5 DEF Moves, LocksDay, GoesOn, SameAccount
<1>7. CASE ConsumeBonus(r)
  <2>1. CASE HasCredit(req[r].user)
    <3> DEFINE x == [pc |-> "admitted", user |-> req[r].user, content |-> req[r].content,
                     nonce |-> req[r].nonce, id |-> req[r].id, created |-> req[r].created,
                     window |-> req[r].window, pays |-> "bonus"]
    <3>1. req[r].pc = "full" /\ req[r] \in Carries /\ req[r] = at("full")
      <4>1. req[r].pc = "full"
        BY <1>7 DEF ConsumeBonus
      <4>2. req[r] \in Carries
        BY <1>0, <4>1 DEF Idle
      <4> QED
        BY <4>1, <4>2
    <3>2. x \in Carries
      BY <3>1 DEF Open
    <3>3. req' = [req EXCEPT ![r] = x]
      <4>1. [req[r] EXCEPT !.pays = "bonus", !.pc = "admitted"] = x
        <5> DEFINE y == [pc |-> "full", user |-> req[r].user, content |-> req[r].content,
                         nonce |-> req[r].nonce, id |-> req[r].id, created |-> req[r].created,
                         window |-> req[r].window, pays |-> "bonus"]
        <5>1. [req[r] EXCEPT !.pays = "bonus", !.pc = "admitted"]
                = [[req[r] EXCEPT !.pays = "bonus"] EXCEPT !.pc = "admitted"]
          OBVIOUS
        <5>2. [req[r] EXCEPT !.pays = "bonus"] = y
          BY <3>1
        <5>3. [y EXCEPT !.pc = "admitted"] = x
          OBVIOUS
        <5> HIDE DEF x, y
        <5> QED
          BY <5>1, <5>2, <5>3
      <4>2. req' = [req EXCEPT ![r] = [req[r] EXCEPT !.pays = "bonus", !.pc = "admitted"]]
        BY <1>7, <2>1 DEF ConsumeBonus
      <4> HIDE DEF x
      <4> QED
        BY <4>1, <4>2
    <3>4. usedNonces' = usedNonces /\ artifact' = artifact
      BY <1>7 DEF ConsumeBonus
    <3>5. IntakeTypeOK' /\ (\A q \in Requests \ {r} : Waits(q)) /\ req'[r] = x
      <4> HIDE DEF x
      <4> QED
        BY <1>0, <1>1, <3>2, <3>3, <3>4
    <3>6. BonusFree(req[r].user) /\ bonus[req[r].user] > 0
      BY <1>7, <2>1 DEF ConsumeBonus, HasCredit
    <3> QED
      BY <3>1, <3>5, <3>6 DEF Moves, TakesCredit, GoesOn
  <2>2. CASE ~HasCredit(req[r].user)
    BY <1>0, <1>3, <1>7, <2>2 DEF ConsumeBonus
  <2> QED
    BY <2>1, <2>2
<1>8. CASE SaveTruncate(r) \/ SaveWrite(r)
  <2>1. artifact' \in [Users -> [Contents -> {"absent", "torn", "whole"}]]
    <3>1. req[r].user \in Users /\ req[r].content \in Contents
      BY <1>8, Carried DEF SaveTruncate, SaveWrite
    <3>2. \E new \in {"absent", "torn", "whole"} : Write(r, new)
      BY <1>0, <1>8, <3>1 DEF SaveTruncate, SaveWrite, File
    <3> QED
      BY <1>0, <3>1, <3>2 DEF Write
  <2>2. /\ usedNonces' \subseteq Nonces
        /\ \/ req[r].pc = "admitted" /\ Goes(r, "saving")
           \/ req[r].pc \in {"saving", "unlinked"} /\ Goes(r, "saved")
    BY <1>0, <1>8 DEF SaveTruncate, SaveWrite
  <2>3. "saving" \in Open /\ "saved" \in Open
    BY DEF Open
  <2>4. CASE Goes(r, "saving") /\ req[r].pc = "admitted"
    <3>1. IntakeTypeOK' /\ (\A q \in Requests \ {r} : Waits(q)) /\ req'[r] = at("saving")
      BY <1>2, <2>1, <2>2, <2>3, <2>4
    <3> QED
      BY <2>4, <3>1 DEF Moves, GoesOn, SameAccount
  <2>5. CASE Goes(r, "saved") /\ req[r].pc \in {"saving", "unlinked"}
    <3>1. IntakeTypeOK' /\ (\A q \in Requests \ {r} : Waits(q)) /\ req'[r] = at("saved")
      BY <1>2, <2>1, <2>2, <2>3, <2>5
    <3> QED
      BY <2>5, <3>1 DEF Moves, GoesOn, SameAccount
  <2> QED
    BY <2>2, <2>4, <2>5
<1>9. CASE ReserveNonce(r)
  <2> DEFINE pc == IF Replayed(r) THEN "undoing" ELSE "reserved"
  <2>1. /\ req[r].pc = "saved" /\ Goes(r, pc)
        /\ \A q \in Requests : ~(req[q].pc = "reserved" /\ req[q].nonce = req[r].nonce)
        /\ usedNonces' = usedNonces /\ artifact' = artifact
    BY <1>9 DEF ReserveNonce
  <2>2. /\ pc \in Open \cup {"undoing"} /\ pc \in {"undoing", "reserved"}
        /\ pc = "reserved" => req[r].nonce \notin usedNonces
    BY DEF Open, Replayed
  <2> HIDE DEF pc
  <2>3. IntakeTypeOK' /\ (\A q \in Requests \ {r} : Waits(q)) /\ req'[r] = at(pc)
    BY <1>0, <1>2, <2>1, <2>2
  <2> QED
    BY <1>0, <2>1, <2>2, <2>3 DEF Moves, Reserves, GoesOn, SameAccount
<1>10. ASSUME CommitRows(r)
       PROVE  /\ usedNonces' \subseteq Nonces /\ artifact' = artifact /\ req[r].pc # "idle"
  BY <1>0, <1>10, Carried DEF CommitRows
<1>11. ASSUME Goes(r, "undoing"), req[r].pc # "idle", usedNonces' \subseteq Nonces,
              artifact' = artifact
       PROVE  IntakeTypeOK' /\ (\A q \in Requests \ {r} : Waits(q)) /\ Moves(r)
  <2>1. IntakeTypeOK' /\ (\A q \in Requests \ {r} : Waits(q)) /\ req'[r] = at("undoing")
    BY <1>0, <1>2, <1>11
  <2> QED
    BY <1>0, <2>1 DEF Moves
<1>12. CASE Commit(r) \/ CommitLost(r)
  BY <1>0, <1>3, <1>10, <1>11, <1>12 DEF Commit, CommitLost
<1>13. CASE Abort(r)
  BY <1>0, <1>3, <1>11, <1>13 DEF Abort
<1>14. CASE DeleteArtifact(r)
  <2>1. /\ req[r].pc = "undoing" /\ Write(r, "absent") /\ usedNonces' = usedNonces
        /\ req' = [q \in Requests |->
             IF q = r THEN Idle
             ELSE IF req[q].pc = "saving" /\ req[q].user = req[r].user
                       /\ req[q].content = req[r].content
                  THEN [req[q] EXCEPT !.pc = "unlinked"]
                  ELSE req[q]]
    BY <1>14 DEF DeleteArtifact
  <2>2. req[r].user \in Users /\ req[r].content \in Contents
    BY <2>1, Carried
  <2>3. artifact' \in [Users -> [Contents -> {"absent", "torn", "whole"}]]
    BY <1>0, <2>1, <2>2 DEF Write
  <2>4. ASSUME NEW q \in Requests, req[q].pc = "saving"
        PROVE  [req[q] EXCEPT !.pc = "unlinked"] \in Carries
    <3>1. req[q] \in Carries
      BY <1>0, <2>4 DEF Idle
    <3>2. "unlinked" \in Open
      BY DEF Open
    <3> QED
      BY <3>1, <3>2
  <2> HIDE DEF Carries
  <2>5. req' \in [Requests -> {Idle} \cup Carries]
    BY <1>0, <2>1, <2>4
  <2>6. (\A q \in Requests \ {r} : Waits(q)) /\ req'[r] = Idle
    BY <2>1 DEF Waits
  <2>7. IntakeTypeOK'
    BY <1>0, <2>1, <2>3, <2>5 DEF IntakeTypeOK, Carries
  <2> QED
    BY <1>0, <2>6, <2>7 DEF Moves, Idle
<1> QED
  BY <1>4, <1>5, <1>6, <1>7, <1>8, <1>9, <1>12, <1>13, <1>14 DEF RequestStep

-----------------------------------------------------------------------------
(* Ids and days in the order the transactions began.                       *)
LEMMA StartsKeep ==
  ASSUME StartsInOrder, today \in Days, today' \in Days, today <= today', NEW fresh \in SUBSET Ids,
         \A s \in Ids, d \in Days : Began(s, d)' => Began(s, d) \/ (s \in fresh /\ d = today),
         \A s \in fresh, t \in Ids, d \in Days : Began(t, d) => t < s
  PROVE  StartsInOrder'
<1>1. \A d \in Days : d \in Int
  BY TablesAssumption DEF Days
<1>2. \A s \in Ids : s \in Int
  BY TablesAssumption DEF Ids
<1>3. ASSUME NEW s \in Ids, NEW d \in Days, Began(s, d)' PROVE d <= today'
  BY <1>1, <1>3 DEF StartsInOrder
<1>4. ASSUME NEW s \in Ids, NEW t \in Ids, NEW d \in Days, NEW e \in Days,
             Began(s, d)', Began(t, e)', s < t
      PROVE  d <= e
  <2>1. CASE Began(s, d) /\ Began(t, e)
    BY <1>4, <2>1 DEF StartsInOrder
  <2>2. CASE s \in fresh /\ Began(t, e)
    BY <1>2, <1>4, <2>2
  <2>3. CASE d <= today /\ e = today
    BY <2>3
  <2>4. Began(s, d) => d <= today
    BY DEF StartsInOrder
  <2> QED
    BY <1>1, <1>4, <2>1, <2>2, <2>3, <2>4
<1> QED
  BY <1>3, <1>4 DEF StartsInOrder

LEMMA StartsStay ==
  ASSUME StartsInOrder, today \in Days, today' \in Days, today <= today',
         \A s \in Ids, d \in Days : Began(s, d)' => Began(s, d)
  PROVE  StartsInOrder'
<1>1. \A s \in Ids, d \in Days : Began(s, d)' => Began(s, d) \/ (s \in {} /\ d = today)
  OBVIOUS
<1>2. \A s \in {}, t \in Ids, d \in Days : Began(t, d) => t < s
  OBVIOUS
<1>3. {} \in SUBSET Ids
  OBVIOUS
<1> QED
  BY <1>1, <1>2, <1>3, StartsKeep

KeepsId(r) ==
  req'[r].pc \in Open =>
    req[r].pc \in Open /\ req'[r].id = req[r].id /\ req'[r].created = req[r].created

(* Nothing begins and nothing is committed.                                *)
LEMMA IdsShrink ==
  ASSUME LInv, today' \in Days, today <= today', row' = row,
         \A s \in Ids : status'[s] # "none" => status[s] # "none",
         \A s \in Ids : copyOf'[s] # 0 => copyOf[s] # 0 /\ listDay' = listDay,
         \A s \in Ids : copyOf'[s] # 0 \/ copyOf'[s] = 0,
         \A r \in Requests : KeepsId(r)
  PROVE  StartsInOrder' /\ OwnIds'
<1>1. today \in Days /\ StartsInOrder /\ OwnIds /\ IntakeTypeOK
  BY Tabled DEF LInv, TablesTypeOK
<1>2. \A s \in Ids, d \in Days : Began(s, d)' => Began(s, d)
  BY DEF Began, KeepsId
<1>3. StartsInOrder'
  BY <1>1, <1>2, StartsStay
<1>4. \A r \in Requests : req[r].pc \in Open => req[r].id \in Ids
  BY <1>1, Carried DEF Open
<1> QED
  BY <1>1, <1>3, <1>4 DEF OwnIds, KeepsId

LEMMA BeginIds ==
  ASSUME LInv, NEW r \in Requests, Starts(r), UNCHANGED <<tableVars, adminVars>>,
         \A q \in Requests \ {r} : KeepsId(q)
  PROVE  StartsInOrder' /\ OwnIds'
<1>1. today \in Days /\ StartsInOrder /\ OwnIds /\ IntakeTypeOK
  BY Tabled DEF LInv, TablesTypeOK
<1> DEFINE s == req'[r].id
<1>2. s \in Ids /\ (\A t \in Taken : t < s) /\ req'[r].created = today /\ req'[r].pc = "begun"
  BY DEF Starts
<1>3. ASSUME NEW t \in Ids, NEW d \in Days, Began(t, d)
      PROVE  t \in Taken
  BY <1>3 DEF Began, Taken, Committed, InFlight, Reserved
<1> HIDE DEF s
<1>4. \A t \in Ids, d \in Days : Began(t, d)' => Began(t, d) \/ (t \in {s} /\ d = today)
  BY <1>2 DEF Began, KeepsId, tableVars, adminVars, s
<1>5. StartsInOrder'
  <2>1. \A x \in {s}, t \in Ids, d \in Days : Began(t, d) => t < x
    BY <1>2, <1>3
  <2>2. {s} \in SUBSET Ids
    BY <1>2
  <2>3. today' = today /\ today <= today
    BY <1>1, TablesAssumption DEF Days, tableVars
  <2> QED
    BY <1>1, <1>4, <2>1, <2>2, <2>3, StartsKeep
<1>6. s \notin Taken
  BY <1>2, TablesAssumption DEF Ids
<1>7. /\ status[s] = "none" /\ copyOf[s] = 0
      /\ \A q \in Requests : req[q].pc \in Open => req[q].id # s
  BY <1>2, <1>6 DEF Taken, Committed, InFlight, Reserved
<1> QED
  BY <1>1, <1>2, <1>5, <1>7 DEF OwnIds, KeepsId, tableVars, adminVars, s

LEMMA CommitIds ==
  ASSUME LInv, NEW r \in Requests, CommitRows(r), req'[r].pc \notin Open, UNCHANGED adminVars,
         \A q \in Requests \ {r} : KeepsId(q)
  PROVE  StartsInOrder' /\ OwnIds'
<1>1. /\ today \in Days /\ StartsInOrder /\ OwnIds /\ IntakeTypeOK
      /\ row \in [Ids -> Rows \cup {NoRow}]
      /\ status \in [Ids -> {"none", "queued", "running", "done", "error"}]
  BY Tabled DEF LInv, TablesTypeOK
<1> DEFINE s == req[r].id
<1>2. /\ s \in Ids /\ req[r].pc \in Open
      /\ status' = [status EXCEPT ![s] = "queued"]
      /\ row' = [row EXCEPT ![s] = Upload(req[r].user, req[r].content, req[r].created,
                                          req[r].window)]
      /\ today' = today
  BY CommitWrites DEF Open
<1>3. Began(s, req[r].created) /\ row'[s].created = req[r].created
  BY <1>1, <1>2 DEF Began, Upload
<1>4. \A q \in Requests \ {r} : req[q].pc \in Open => req[q].id # s /\ req[q].id \in Ids
  BY <1>1, <1>2, Carried DEF OwnIds, Open
<1> HIDE DEF s
<1>5. \A t \in Ids, d \in Days : Began(t, d)' => Began(t, d)
  <2> TAKE t \in Ids, d \in Days
  <2>1. CASE t = s
    BY <1>1, <1>2, <1>3, <1>4, <2>1 DEF Began, KeepsId, adminVars, OwnIds, s
  <2>2. CASE t # s
    BY <1>1, <1>2, <2>2 DEF Began, KeepsId, adminVars
  <2> QED
    BY <2>1, <2>2
<1>6. StartsInOrder'
  BY <1>1, <1>2, <1>5, StartsStay, TablesAssumption DEF Days
<1> QED
  BY <1>1, <1>2, <1>4, <1>6 DEF OwnIds, KeepsId, adminVars

LEMMA AdminIds ==
  ASSUME LInv, Administer
  PROVE  StartsInOrder' /\ OwnIds'
<1>1. /\ today \in Days /\ StartsInOrder /\ OwnIds /\ IntakeTypeOK
      /\ row \in [Ids -> Rows \cup {NoRow}]
      /\ copyOf \in [Ids -> Ids \cup {0}] /\ listDay \in Days
  BY Tabled DEF LInv, TablesTypeOK
<1>2. req' = req
  BY DEF Administer, intakeVars
<1>3. \A q \in Requests : KeepsId(q)
  BY <1>2 DEF KeepsId
<1>4. CASE \/ \E day \in Days : ResetLabQuota(day)
           \/ \E delta \in Deltas : AdjustBonusQuota(delta)
           \/ ResetBonusQuota \/ ReevaluateAbort
  <2>1. /\ row' = row /\ status' = status /\ today' = today
        /\ \A s \in Ids : copyOf'[s] # 0 => copyOf[s] # 0 /\ listDay' = listDay
    BY <1>4 DEF ResetLabQuota, AdjustBonusQuota, ResetBonusQuota, SetBonus, ReevaluateAbort,
       ReevaluateEnd, submissionVars, adminVars, tableVars
  <2> QED
    BY <1>1, <1>3, <2>1, IdsShrink, TablesAssumption DEF Days
<1>5. CASE ReevaluateList
  <2> DEFINE fresh == {s \in Ids : copyOf'[s] # 0}
  <2>1. /\ UNCHANGED tableVars /\ listDay' = today /\ Reserved = {}
        /\ copyOf' \in [Ids -> {board[u] : u \in Users} \cup {0}]
        /\ \A s \in fresh : \A t \in Committed : t < s
    BY <1>5 DEF ReevaluateList
  <2>2. \A s \in Ids : copyOf[s] = 0
    BY <2>1 DEF Reserved
  <2>3. \A s \in fresh : \A t \in InFlight : t < s
    BY <2>2 DEF Administer
  <2>4. ASSUME NEW t \in Ids, NEW d \in Days, Began(t, d) PROVE t \in Committed \cup InFlight
    BY <2>2, <2>4 DEF Began, Committed, InFlight
  <2>5. \A t \in Ids, d \in Days : Began(t, d)' => Began(t, d) \/ (t \in fresh /\ d = today)
    BY <1>2, <2>1 DEF Began, tableVars
  <2>6. StartsInOrder'
    <3> HIDE DEF fresh
    <3>1. fresh \in SUBSET Ids
      BY DEF fresh
    <3>2. today' = today /\ today <= today
      BY <1>1, <2>1, TablesAssumption DEF tableVars, Days
    <3>3. \A s \in fresh, t \in Ids, d \in Days : Began(t, d) => t < s
      BY <2>1, <2>3, <2>4
    <3> QED
      BY <1>1, <2>5, <3>1, <3>2, <3>3, StartsKeep
  <2>7. ASSUME NEW q \in Requests, req[q].pc \in Open PROVE copyOf'[req[q].id] = 0
    <3>1. req[q].id \in InFlight /\ req[q].id \in Ids
      BY <1>1, <2>7, Carried DEF InFlight, Open
    <3> QED
      BY <2>3, <3>1, TablesAssumption DEF Ids
  <2> QED
    BY <1>1, <1>2, <2>1, <2>6, <2>7 DEF OwnIds, tableVars
<1>6. CASE ReevaluateCommit
  <2> DEFINE new == [s \in Reserved |->
                       Upload(row[copyOf[s]].user, row[copyOf[s]].content, listDay, listDay)]
  <2>1. CreateRows(new, "free") /\ today' = today /\ \A s \in Ids : copyOf'[s] = 0
    BY <1>6 DEF ReevaluateCommit, ReevaluateEnd
  <2>2. DOMAIN new = Reserved /\ \A s \in Reserved : new[s].created = listDay
    BY DEF Upload
  <2> HIDE DEF new
  <2>3. \A s \in Ids :
          /\ row'[s] = IF s \in Reserved THEN new[s] ELSE row[s]
          /\ status'[s] = IF s \in Reserved THEN "queued" ELSE status[s]
    BY <2>1, <2>2 DEF CreateRows
  <2>4. \A t \in Ids, d \in Days : Began(t, d)' => Began(t, d)
    BY <1>2, <2>1, <2>2, <2>3 DEF Began, Reserved
  <2>5. StartsInOrder'
    BY <1>1, <2>1, <2>4, StartsStay, TablesAssumption DEF Days
  <2>6. \A q \in Requests : req[q].pc \in Open => req[q].id \in Ids
    BY <1>1, Carried DEF Open
  <2> QED
    BY <1>1, <1>2, <2>1, <2>3, <2>5, <2>6 DEF OwnIds, Reserved
<1> QED
  BY <1>4, <1>5, <1>6 DEF Administer, AdminNext

-----------------------------------------------------------------------------
(* What was counted and locked stays so.                                   *)

(* Only the commit of an upload paid from the day adds to what is paid.    *)
LEMMA PaidStays ==
  ASSUME LInv, [Next]_vars, NEW u \in Users, NEW d \in Days,
         \A s \in Ids : quotaState[s] = "none" => quotaState'[s] # "pending"
  PROVE  Paid(u, d)' \subseteq Paid(u, d)
<1>1. Q!CInv /\ [Q!Next]_(Q!vars)
  BY Implements DEF LInv
<1>2. \A s \in Paid(u, d)' : s \in Ids
  BY DEF Paid, QuotaUsage
<1> QED
  BY <1>1, <1>2, PaidGrows

LEMMA PaidElsewhere ==
  ASSUME LInv, NEW r \in Requests, CommitRows(r), NEW u \in Users, NEW d \in Days,
         req[r].user # u \/ req[r].window # d \/ req[r].pays = "bonus"
  PROVE  Paid(u, d)' \subseteq Paid(u, d)
<1> DEFINE s == req[r].id
           new == Upload(req[r].user, req[r].content, req[r].created, req[r].window)
<1>1. /\ row \in [Ids -> Rows \cup {NoRow}] /\ quotaState \in [Ids -> QuotaStates \cup {"none"}]
  BY Tabled DEF LInv, TablesTypeOK
<1>2. /\ s \in Ids /\ wasReset' = wasReset
      /\ row' = [row EXCEPT ![s] = new]
      /\ quotaState' = [quotaState EXCEPT ![s] = req[r].pays]
  BY CommitWrites
<1>3. new.user = req[r].user /\ new.window = req[r].window
  BY DEF Upload
<1> HIDE DEF s, new
<1>4. ASSUME NEW t \in Paid(u, d)'
      PROVE  t \in Paid(u, d)
  <2>1. t \in Ids /\ quotaState'[t] \in Counting /\ row'[t].user = u /\ row'[t].window = d
    BY DEF Paid, QuotaUsage
  <2>2. t # s
    <3> SUFFICES ASSUME t = s PROVE FALSE
      OBVIOUS
    <3>1. row'[s] = new /\ quotaState'[s] = req[r].pays
      BY <1>1, <1>2
    <3> QED
      BY <1>3, <2>1, <3>1 DEF Counting
  <2>3. row'[t] = row[t] /\ quotaState'[t] = quotaState[t]
    BY <1>1, <1>2, <2>1, <2>2
  <2> QED
    BY <1>2, <2>1, <2>3 DEF Paid, QuotaUsage
<1> QED
  BY <1>4

LEMMA WaitsAs ==
  ASSUME IntakeTypeOK, NEW q \in Requests, Waits(q)
  PROVE  /\ \/ req'[q].pc = req[q].pc
            \/ req[q].pc = "saving" /\ req'[q].pc = "unlinked"
         /\ req'[q].user = req[q].user /\ req'[q].nonce = req[q].nonce
         /\ req'[q].id = req[q].id /\ req'[q].created = req[q].created
         /\ req'[q].window = req[q].window /\ req'[q].pays = req[q].pays
<1>1. CASE req'[q] = req[q]
  BY <1>1
<1>2. CASE req[q].pc = "saving" /\ req'[q] = [req[q] EXCEPT !.pc = "unlinked"]
  <2>1. [req[q] EXCEPT !.pc = "unlinked"] =
          [pc |-> "unlinked", user |-> req[q].user, content |-> req[q].content,
           nonce |-> req[q].nonce, id |-> req[q].id, created |-> req[q].created,
           window |-> req[q].window, pays |-> req[q].pays]
    BY <1>2, Carried
  <2> QED
    BY <1>2, <2>1
<1> QED
  BY <1>1, <1>2 DEF Waits

LEMMA StaysOK ==
  ASSUME LInv, NEW q \in Requests, Waits(q), today \in Days, today' \in Days, today <= today',
         NEW u, u = req[q].user, NEW d, d = req[q].window,
         req[q].pc \in Counted /\ req[q].pays = "pending" => Paid(u, d)' \subseteq Paid(u, d),
         req[q].pc \in Open /\ req[q].pays = "bonus" => bonus'[u] > 0
  PROVE  RequestOK(q)'
<1>1. /\ RequestOK(q) /\ IntakeTypeOK
      /\ \/ req'[q].pc = req[q].pc
         \/ req[q].pc = "saving" /\ req'[q].pc = "unlinked"
      /\ req'[q].user = u /\ req'[q].window = d
      /\ req'[q].created = req[q].created /\ req'[q].pays = req[q].pays
  BY WaitsAs DEF LInv
<1>2. /\ req'[q].pc \in Open \ {"begun"} => req[q].pc \in Open \ {"begun"}
      /\ req'[q].pc \in Counted => req[q].pc \in Counted
      /\ req'[q].pc \in {"begun", "windowed", "full"} => req[q].pc \in {"begun", "windowed", "full"}
      /\ req'[q].pc \in Open => req[q].pc \in Open
  BY <1>1 DEF Open, Counted, Locking
<1>3. ASSUME req'[q].pc \in Open \ {"begun"}
      PROVE  req'[q].created <= req'[q].window /\ req'[q].window <= today'
  <2>1. req[q].created <= d /\ d <= today /\ d \in Days
    BY <1>1, <1>2, <1>3, Carried DEF RequestOK, Open
  <2> QED
    BY <1>1, <2>1, TablesAssumption DEF Days
<1>4. ASSUME req'[q].pc \in Counted, req'[q].pays = "pending"
      PROVE  Cardinality(Paid(u, d)') < Daily
  <2>1. Paid(u, d)' \subseteq Paid(u, d) /\ Cardinality(Paid(u, d)) < Daily
    BY <1>1, <1>2, <1>4 DEF RequestOK
  <2>2. IsFiniteSet(Paid(u, d)) /\ Cardinality(Paid(u, d)) \in Nat
    BY FiniteIds DEF Paid, QuotaUsage
  <2>3. Cardinality(Paid(u, d)') <= Cardinality(Paid(u, d)) /\ Cardinality(Paid(u, d)') \in Nat
    BY <2>1, <2>2, FS_Subset, FS_CardinalityType
  <2> QED
    BY <2>1, <2>2, <2>3, TablesAssumption
<1>5. Cardinality(Paid(u, d)')  < Daily
        => Cardinality(Paid(req[q].user, req[q].window)') < Daily
  BY <1>1 DEF Paid, QuotaUsage
<1> QED
  BY <1>1, <1>2, <1>3, <1>4, <1>5 DEF RequestOK

LEMMA MoverOK ==
  ASSUME LInv, NEW r \in Requests, Moves(r), IntakeTypeOK',
         req'[r].pc \in Open => UNCHANGED tableVars
  PROVE  RequestOK(r)'
<1> SUFFICES ASSUME req'[r].pc \in Open PROVE RequestOK(r)'
  BY DEF RequestOK, Counted, Locking, Open
<1>1. /\ RequestOK(r) /\ today \in Days /\ today' = today /\ bonus' = bonus
      /\ \A u, d : Paid(u, d)' = Paid(u, d)
  BY Tabled DEF LInv, TablesTypeOK, tableVars, Paid, QuotaUsage
<1> USE DEF Open, Counted, Locking
<1>2. CASE Starts(r)
  BY <1>2 DEF Starts, RequestOK
<1>3. CASE GoesOn(r, {"begun"}, "windowed") /\ req'[r].window = today /\ req'[r].pays = req[r].pays
  <2>1. Began(req[r].id, req[r].created) /\ req[r].id \in Ids /\ req[r].created \in Days
    BY <1>3, Carried DEF GoesOn, Began, LInv
  <2>2. req[r].created <= today
    BY <2>1 DEF LInv, StartsInOrder
  <2> QED
    BY <1>1, <1>3, <2>2, TablesAssumption DEF GoesOn, RequestOK, Days
<1>4. CASE LocksDay(r)
  <2> DEFINE u == req[r].user  d == req[r].window
  <2>1. /\ req[r].pc = "windowed" /\ req'[r].pc \in {"full", "admitted"}
        /\ req'[r].user = u /\ req'[r].window = d /\ req'[r].pays = "pending"
        /\ req'[r].created = req[r].created
        /\ req[r].created <= d /\ d <= today
    BY <1>1, <1>4 DEF LocksDay, GoesOn, SameAccount, RequestOK
  <2>2. req'[r].pc = "admitted" => Cardinality(Paid(u, d)) < Daily
    <3>1. SUFFICES ASSUME req'[r].pc = "admitted" PROVE Cardinality(Paid(u, d)) < Daily
      OBVIOUS
    <3>2. Cardinality(QuotaUsage(u, d)) < Daily
      BY <1>4, <3>1 DEF LocksDay
    <3>3. IsFiniteSet(QuotaUsage(u, d)) /\ Cardinality(QuotaUsage(u, d)) \in Nat
      BY FiniteIds DEF QuotaUsage
    <3>4. Paid(u, d) \in SUBSET QuotaUsage(u, d)
      BY DEF Paid
    <3>5. /\ Cardinality(Paid(u, d)) <= Cardinality(QuotaUsage(u, d))
          /\ Cardinality(Paid(u, d)) \in Nat
      BY <3>3, <3>4, FS_Subset, FS_CardinalityType
    <3> QED
      BY <3>2, <3>3, <3>5, TablesAssumption
  <2>3. Paid(req[r].user, req[r].window)' = Paid(u, d)
    BY <1>1, <2>1 DEF Paid, QuotaUsage, tableVars
  <2> QED
    BY <1>1, <2>1, <2>2, <2>3 DEF RequestOK
<1>5. CASE TakesCredit(r)
  BY <1>1, <1>5 DEF TakesCredit, GoesOn, RequestOK
<1>6. ASSUME req[r].pc \in Counted, req'[r].pc \in Counted, req'[r].user = req[r].user,
             req'[r].created = req[r].created, SameAccount(r)
      PROVE  RequestOK(r)'
  <2>1. Paid(req[r].user, req[r].window)' = Paid(req[r].user, req[r].window)
    BY <1>6 DEF Paid, QuotaUsage, tableVars, SameAccount
  <2> QED
    BY <1>1, <1>6, <2>1 DEF RequestOK, SameAccount
<1>7. CASE \/ GoesOn(r, {"admitted"}, "saving") /\ SameAccount(r)
           \/ GoesOn(r, {"saving", "unlinked"}, "saved") /\ SameAccount(r)
           \/ Reserves(r)
  BY <1>6, <1>7 DEF GoesOn, Reserves
<1> QED
  BY <1>2, <1>3, <1>4, <1>5, <1>7 DEF Moves

-----------------------------------------------------------------------------
(* The locks.                                                              *)

(* Waiting releases and takes nothing; moving takes a lock only when it is *)
(* free.                                                                   *)
LEMMA LocksTaken ==
  ASSUME IntakeTypeOK, NEW r \in Requests, Moves(r)
  PROVE  /\ req'[r].pc \in Locking =>
              /\ \/ req[r].pc \in Locking
                 \/ QuotaLockFree(req[r].user, req[r].window)
              /\ req'[r].user = req[r].user /\ req'[r].window = req[r].window
         /\ req'[r].pc \in Open /\ req'[r].pays = "bonus" =>
              /\ \/ req[r].pc \in Open /\ req[r].pays = "bonus"
                 \/ BonusFree(req[r].user)
              /\ req'[r].user = req[r].user
BY DEF Moves, Starts, GoesOn, LocksDay, TakesCredit, Reserves, SameAccount, Open, Locking

LEMMA LocksStay ==
  ASSUME IntakeTypeOK, NEW q \in Requests, Waits(q)
  PROVE  /\ req'[q].pc \in Locking => req[q].pc \in Locking
         /\ req'[q].pc \in Open => req[q].pc \in Open
         /\ req'[q].pc = "reserved" => req[q].pc = "reserved"
         /\ req'[q].user = req[q].user /\ req'[q].window = req[q].window
         /\ req'[q].pays = req[q].pays /\ req'[q].nonce = req[q].nonce
BY WaitsAs DEF Open, Locking

LEMMA LocksKeep ==
  ASSUME LInv, NEW r \in Requests, Moves(r), \A q \in Requests \ {r} : Waits(q)
  PROVE  LocksApart'
<1>1. LocksApart /\ IntakeTypeOK
  BY DEF LInv
<1> DEFINE apart(q, t) ==
      /\ req'[q].pc \in Locking /\ req'[t].pc \in Locking =>
           req'[q].user # req'[t].user \/ req'[q].window # req'[t].window
      /\ req'[q].pc \in Open /\ req'[q].pays = "bonus" /\ req'[t].pc \in Open
           /\ req'[t].pays = "bonus" => req'[q].user # req'[t].user
<1>2. ASSUME NEW q \in Requests \ {r}
      PROVE  apart(q, r)
  <2>1. Waits(q)
    BY <1>2
  <2>2. ASSUME req'[q].pc \in Locking, req'[r].pc \in Locking
        PROVE  req'[q].user # req'[r].user \/ req'[q].window # req'[r].window
    BY <1>1, <1>2, <2>1, <2>2, LocksStay, LocksTaken DEF LocksApart, QuotaLockFree
  <2>3. ASSUME req'[q].pc \in Open, req'[q].pays = "bonus", req'[r].pc \in Open,
               req'[r].pays = "bonus"
        PROVE  req'[q].user # req'[r].user
    BY <1>1, <1>2, <2>1, <2>3, LocksStay, LocksTaken DEF LocksApart, BonusFree
  <2> QED
    BY <2>2, <2>3
<1>3. ASSUME NEW q \in Requests \ {r}, NEW t \in Requests \ {r}, q # t
      PROVE  apart(q, t)
  <2>1. Waits(q) /\ Waits(t)
    BY <1>3
  <2> QED
    BY <1>1, <1>3, <2>1, LocksStay DEF LocksApart
<1> QED
  BY <1>2, <1>3 DEF LocksApart

LEMMA NoncesKeep ==
  ASSUME LInv, NEW r \in Requests, Moves(r), \A q \in Requests \ {r} : Waits(q),
         \/ usedNonces' = usedNonces
         \/ req[r].pc = "reserved" /\ usedNonces' = usedNonces \cup {req[r].nonce}
  PROVE  NoncesApart'
<1>1. NoncesApart /\ IntakeTypeOK
  BY DEF LInv
<1>2. ASSUME req'[r].pc = "reserved"
      PROVE  /\ req[r].pc = "saved" /\ req'[r].nonce = req[r].nonce
             /\ req[r].nonce \notin usedNonces
             /\ \A q \in Requests : ~(req[q].pc = "reserved" /\ req[q].nonce = req[r].nonce)
  BY <1>2 DEF Moves, Starts, GoesOn, LocksDay, Reserves, TakesCredit, Open
<1>3. ASSUME NEW q \in Requests \ {r}, req'[q].pc = "reserved"
      PROVE  req[q].pc = "reserved" /\ req'[q].nonce = req[q].nonce
  BY <1>1, <1>3, LocksStay
<1> QED
  BY <1>1, <1>2, <1>3 DEF NoncesApart

LEMMA ListingKeeps ==
  ASSUME LInv,
         UNCHANGED adminVars \/ Administer \/ (copyOf' = [s \in Ids |-> 0] /\ listDay' = 0)
  PROVE  NoListing'
<1>1. NoListing
  BY DEF LInv
<1>2. CASE UNCHANGED adminVars
  BY <1>1, <1>2 DEF NoListing, Reserved, adminVars
<1>3. CASE listDay' = 0
  BY <1>3 DEF NoListing
<1>4. CASE ReevaluateList
  <2> DEFINE listed == {board[u] : u \in Users} \ {0}
             fresh  == {s \in Ids : \A t \in Committed : t < s}
  <2>1. listed # {} /\ \A t \in listed : \E s \in fresh : copyOf'[s] = t
    BY <1>4 DEF ReevaluateList
  <2>2. PICK t \in listed : t # 0
    BY <2>1
  <2>3. \E s \in Ids : copyOf'[s] = t
    BY <2>1, <2>2
  <2> QED
    BY <2>2, <2>3 DEF NoListing, Reserved
<1> QED
  BY <1>2, <1>3, <1>4 DEF Administer, AdminNext, ResetLabQuota, AdjustBonusQuota, ResetBonusQuota,
     SetBonus, ReevaluateCommit, ReevaluateAbort, ReevaluateEnd

-----------------------------------------------------------------------------
(* The invariant is kept.                                                  *)

LEMMA WaitsKeepsId ==
  ASSUME IntakeTypeOK, NEW q \in Requests, Waits(q)
  PROVE  KeepsId(q)
BY WaitsAs DEF KeepsId, Open

(* Counting and locking before a commit make room for that commit alone.   *)
LEMMA CommitKeeps ==
  ASSUME LInv, NEW r \in Requests, CommitRows(r), Commit(r) \/ Goes(r, "undoing"),
         UNCHANGED adminVars, IntakeTypeOK', Q!CInv', Moves(r),
         \A q \in Requests \ {r} : Waits(q)
  PROVE  LInv'
<1>1. IntakeTypeOK /\ LocksApart /\ bonus \in [Users -> Nat] /\ today \in Days /\ today \in Int
  BY Tabled, TablesAssumption DEF LInv, TablesTypeOK, Days
<1>2. /\ req[r].pc = "reserved" /\ req[r].pc \in Locking /\ req[r].pc \in Open
      /\ req[r].user \in Users
      /\ bonus' = IF req[r].pays = "bonus" THEN [bonus EXCEPT ![req[r].user] = @ - 1] ELSE bonus
      /\ usedNonces' = usedNonces \cup {req[r].nonce} /\ today' = today
  BY <1>1, CommitWrites, Carried DEF Open, Locking
<1>3. req'[r].pc \notin Open
  BY <1>1 DEF Commit, Ends, Goes, Idle, Open, IntakeTypeOK
<1>4. StartsInOrder' /\ OwnIds'
  BY <1>1, <1>3, CommitIds, WaitsKeepsId
<1>5. ASSUME NEW q \in Requests \ {r}
      PROVE  RequestOK(q)'
  <2>0. PICK u, d : u = req[q].user /\ d = req[q].window
    OBVIOUS
  <2>1. ASSUME req[q].pc \in Counted, req[q].pays = "pending"
        PROVE  Paid(u, d)' \subseteq Paid(u, d)
    <3>1. req[q].pc \in Locking /\ req[q].pc # "idle"
      BY <2>1 DEF Counted, Locking, Open
    <3>2. u \in Users /\ d \in Days
      BY <1>1, <2>0, <3>1, Carried
    <3>3. req[r].user # u \/ req[r].window # d
      BY <1>1, <1>2, <1>5, <2>0, <3>1 DEF LocksApart
    <3> QED
      BY <3>2, <3>3, PaidElsewhere
  <2>2. ASSUME req[q].pc \in Open, req[q].pays = "bonus"
        PROVE  bonus'[u] > 0
    <3>1. bonus[u] > 0 /\ u \in Users
      BY <1>1, <2>0, <2>2, Carried DEF LInv, RequestOK, Open
    <3>2. req[r].pays = "bonus" => req[r].user # u
      BY <1>1, <1>2, <1>5, <2>0, <2>2 DEF LocksApart
    <3> QED
      BY <1>1, <1>2, <3>1, <3>2
  <2>3. Waits(q) /\ today <= today' /\ today' \in Days
    BY <1>1, <1>2, <1>5
  <2> QED
    BY <1>1, <2>0, <2>1, <2>2, <2>3, StaysOK
<1>6. RequestOK(r)'
  BY <1>3 DEF RequestOK, Counted, Locking, Open
<1>7. LocksApart' /\ NoncesApart' /\ NoListing'
  BY <1>2, LocksKeep, NoncesKeep, ListingKeeps
<1> QED
  BY <1>4, <1>5, <1>6, <1>7 DEF LInv

LEMMA QuietKeeps ==
  ASSUME LInv, [Next]_vars, NEW r \in Requests, UNCHANGED <<tableVars, adminVars, usedNonces>>,
         IntakeTypeOK', Q!CInv', Moves(r), \A q \in Requests \ {r} : Waits(q)
  PROVE  LInv'
<1>1. /\ IntakeTypeOK /\ today \in Days /\ today \in Int
      /\ copyOf \in [Ids -> Ids \cup {0}]
  BY Tabled, TablesAssumption DEF LInv, TablesTypeOK, Days
<1>2. /\ today' = today /\ row' = row /\ status' = status /\ quotaState' = quotaState
      /\ bonus' = bonus /\ copyOf' = copyOf /\ listDay' = listDay
  BY DEF tableVars, adminVars
<1>3. StartsInOrder' /\ OwnIds'
  <2>1. CASE Starts(r)
    BY <1>1, <2>1, BeginIds, WaitsKeepsId
  <2>2. CASE ~Starts(r)
    <3>1. KeepsId(r)
      BY <2>2 DEF Moves, KeepsId, GoesOn, LocksDay, TakesCredit, Reserves, Open
    <3> QED
      BY <1>1, <1>2, <3>1, IdsShrink, WaitsKeepsId
  <2> QED
    BY <2>1, <2>2
<1>4. ASSUME NEW q \in Requests \ {r}
      PROVE  RequestOK(q)'
  <2>0. PICK u, d : u = req[q].user /\ d = req[q].window
    OBVIOUS
  <2>1. Paid(u, d)' \subseteq Paid(u, d)
    BY <1>2 DEF Paid, QuotaUsage, tableVars
  <2>2. req[q].pc \in Open /\ req[q].pays = "bonus" => bonus'[u] > 0
    BY <1>2, <2>0 DEF LInv, RequestOK
  <2>3. Waits(q) /\ today <= today' /\ today' \in Days
    BY <1>1, <1>2, <1>4
  <2> QED
    BY <1>1, <2>0, <2>1, <2>2, <2>3, StaysOK
<1>5. RequestOK(r)'
  BY MoverOK
<1>6. LocksApart' /\ NoncesApart' /\ NoListing'
  BY LocksKeep, NoncesKeep, ListingKeeps
<1> QED
  BY <1>3, <1>4, <1>5, <1>6 DEF LInv

LEMMA RequestKeeps ==
  ASSUME LInv, [Next]_vars, NEW r \in Requests, UNCHANGED <<adminVars, workerVars>>,
         RequestStep(r, Taken) \/ Abort(r) \/ CommitLost(r)
  PROVE  LInv'
<1>1. Q!CInv'
  BY Implements, CountsKeep DEF LInv
<1>2. IntakeTypeOK' /\ (\A q \in Requests \ {r} : Waits(q)) /\ Moves(r)
  BY RequestMoves, Tabled DEF LInv, TablesTypeOK
<1>3. CASE Commit(r) \/ CommitLost(r)
  BY <1>1, <1>2, <1>3, CommitKeeps DEF Commit, CommitLost
<1>4. CASE ~(Commit(r) \/ CommitLost(r))
  <2>1. UNCHANGED <<tableVars, usedNonces>>
    BY <1>4 DEF RequestStep, Begin, ReadWindow, CheckQuota, ConsumeBonus, SaveTruncate,
       SaveWrite, ReserveNonce, DeleteArtifact, Abort
  <2> QED
    BY <1>1, <1>2, <2>1, QuietKeeps
<1> QED
  BY <1>3, <1>4

(* Administrators and workers take no room that was counted and no credit  *)
(* that is held.                                                           *)
LEMMA RestKeeps ==
  ASSUME LInv, [Next]_vars, UNCHANGED intakeVars,
         UNCHANGED adminVars \/ Administer,
         StartsInOrder' /\ OwnIds', today' \in Days, today <= today',
         \A s \in Ids : quotaState[s] = "none" => quotaState'[s] # "pending",
         \A u \in Users : bonus'[u] # bonus[u] => BonusFree(u) \/ bonus'[u] > bonus[u]
  PROVE  LInv'
<1>1. /\ IntakeTypeOK /\ LocksApart /\ NoncesApart /\ today \in Days /\ bonus \in [Users -> Nat]
  BY Tabled DEF LInv, TablesTypeOK
<1>2. Q!CInv'
  BY Implements, CountsKeep DEF LInv
<1>3. bonus' \in [Users -> Nat]
  <2>1. TablesTypeOK(Workers)'
    BY <1>2, SameRows, Tabled, PTL
  <2> QED
    BY <2>1 DEF TablesTypeOK
<1>4. ASSUME NEW q \in Requests
      PROVE  RequestOK(q)'
  <2>0. PICK u, d : u = req[q].user /\ d = req[q].window
    OBVIOUS
  <2>1. ASSUME req[q].pc \in Counted
        PROVE  Paid(u, d)' \subseteq Paid(u, d)
    <3>1. u \in Users /\ d \in Days
      BY <1>1, <2>0, <2>1, Carried DEF Counted, Locking, Open
    <3> QED
      BY <3>1, PaidStays
  <2>2. ASSUME req[q].pc \in Open, req[q].pays = "bonus"
        PROVE  bonus'[u] > 0
    <3>1. bonus[u] > 0 /\ u \in Users /\ ~BonusFree(u)
      BY <1>1, <2>0, <2>2, Carried DEF LInv, RequestOK, Open, BonusFree
    <3> QED
      BY <1>1, <1>3, <3>1
  <2>3. Waits(q)
    BY DEF Waits, intakeVars
  <2> QED
    BY <1>1, <2>0, <2>1, <2>2, <2>3, StaysOK
<1>5. IntakeTypeOK' /\ LocksApart' /\ NoncesApart'
  BY <1>1 DEF IntakeTypeOK, LocksApart, NoncesApart, intakeVars
<1>6. NoListing'
  BY ListingKeeps
<1> QED
  BY <1>2, <1>4, <1>5, <1>6 DEF LInv

LEMMA AdminKeeps ==
  ASSUME LInv, [Next]_vars, Administer
  PROVE  LInv'
<1>1. /\ today \in Days /\ today \in Int /\ quotaState \in [Ids -> QuotaStates \cup {"none"}]
  BY Tabled, TablesAssumption DEF LInv, TablesTypeOK, Days
<1>2. today' = today
  BY DEF Administer, AdminNext, ResetLabQuota, AdjustBonusQuota, ResetBonusQuota, SetBonus,
     ReevaluateList, ReevaluateCommit, ReevaluateAbort, tableVars
<1>3. ASSUME NEW s \in Ids, quotaState[s] = "none"
      PROVE  quotaState'[s] # "pending"
  <2>1. CASE \E day \in Days : ResetLabQuota(day)
    BY <1>3, <2>1 DEF ResetLabQuota
  <2>2. CASE ReevaluateCommit
    <3>1. \E new : CreateRows(new, "free")
      BY <2>2 DEF ReevaluateCommit
    <3> QED
      BY <1>3, <3>1 DEF CreateRows
  <2>3. CASE UNCHANGED quotaState
    BY <1>3, <2>3
  <2> QED
    BY <2>1, <2>2, <2>3 DEF Administer, AdminNext, AdjustBonusQuota, ResetBonusQuota, SetBonus,
       ReevaluateList, ReevaluateAbort, tableVars, submissionVars
<1>4. \A u \in Users : bonus'[u] # bonus[u] => BonusFree(u)
  BY DEF Administer
<1>5. UNCHANGED intakeVars
  BY DEF Administer
<1> QED
  BY <1>1, <1>2, <1>3, <1>4, <1>5, AdminIds, RestKeeps

(* A worker settles rows that are there and only ever gives a credit back. *)
LEMMA WorkerKeeps ==
  ASSUME LInv, [Next]_vars, UNCHANGED <<adminVars, intakeVars>>, NEW w \in Workers,
         WorkerStep(w) \/ Die(w) \/ Restart(w)
  PROVE  LInv'
<1>1. /\ today \in Days /\ today \in Int /\ bonus \in [Users -> Nat]
      /\ quotaState \in [Ids -> QuotaStates \cup {"none"}]
      /\ status \in [Ids -> {"none", "queued", "running", "done", "error"}]
      /\ copyOf \in [Ids -> Ids \cup {0}]
  BY Tabled, TablesAssumption DEF LInv, TablesTypeOK, Days
<1>2. today' = today /\ row' = row
  BY DEF WorkerStep, ClaimSelect, ClaimCommit, Load, MarkRunning, Evaluate, Persist, Acknowledge,
     Die, Restart, tableVars, submissionVars
<1>3. UNCHANGED <<status, quotaState, bonus>> \/ MarkRunning(w) \/ Persist(w)
  BY DEF WorkerStep, ClaimSelect, ClaimCommit, Load, Evaluate, Acknowledge, Die, Restart,
     tableVars, submissionVars
<1>4. ASSUME NEW s \in Ids, quotaState[s] = "none"
      PROVE  quotaState'[s] # "pending"
  <2>1. CASE Persist(w)
    <3>1. \/ UNCHANGED quotaState
          \/ quotaState' = [quotaState EXCEPT ![current[w]] = "free"]
          \/ quotaState' = [quotaState EXCEPT ![current[w]] = Settlement(snapshot[w], result[w])]
      BY <2>1 DEF Persist, SettleQuota
    <3> QED
      BY <1>1, <1>4, <3>1 DEF Settlement
  <2> QED
    BY <1>3, <1>4, <2>1 DEF MarkRunning
<1>5. ASSUME NEW u \in Users, bonus'[u] # bonus[u]
      PROVE  bonus'[u] > bonus[u]
  <2>1. \E x : bonus' = [bonus EXCEPT ![x] = @ + 1]
    BY <1>3, <1>5 DEF MarkRunning, Persist, SettleQuota
  <2> QED
    BY <1>1, <1>5, <2>1
<1>6. ASSUME NEW s \in Ids, status'[s] # "none"
      PROVE  status[s] # "none"
  <2>1. Q!WorkerOK(w)
    BY DEF LInv, Q!CInv, Q!IInv
  <2>2. CASE MarkRunning(w)
    <3>1. status[current[w]] = "queued"
      BY <2>1, <2>2 DEF MarkRunning, Q!WorkerOK
    <3> QED
      BY <1>1, <1>6, <2>2, <3>1 DEF MarkRunning
  <2>3. CASE Persist(w)
    <3>1. status[current[w]] = "running"
      BY <2>1, <2>3 DEF Persist, Q!WorkerOK
    <3> QED
      BY <1>1, <1>6, <2>3, <3>1 DEF Persist
  <2> QED
    BY <1>3, <1>6, <2>2, <2>3
<1>7. \A q \in Requests : KeepsId(q)
  BY DEF KeepsId, intakeVars
<1>8. StartsInOrder' /\ OwnIds'
  BY <1>1, <1>2, <1>6, <1>7, IdsShrink DEF adminVars
<1> QED
  BY <1>1, <1>2, <1>4, <1>5, <1>8, RestKeeps

(* The API's death undoes what was open.                                   *)
LEMMA CrashKeeps ==
  ASSUME LInv, [Next]_vars, ApiCrash, copyOf' = [s \in Ids |-> 0], listDay' = 0
  PROVE  LInv'
<1>1. /\ IntakeTypeOK /\ today \in Days /\ today \in Int
  BY Tabled, TablesAssumption DEF LInv, TablesTypeOK, Days
<1>2. /\ UNCHANGED <<tableVars, artifact, usedNonces>>
      /\ \A q \in Requests : req'[q] = Idle /\ req'[q].pc = "idle"
  BY DEF ApiCrash, Idle
<1>3. today' = today /\ row' = row /\ status' = status
  BY <1>2 DEF tableVars
<1>4. "idle" \notin Open /\ "idle" \notin Locking /\ "idle" \notin Counted
  BY DEF Open, Locking, Counted
<1>5. \A q \in Requests : KeepsId(q)
  BY <1>2, <1>4 DEF KeepsId
<1>6. StartsInOrder' /\ OwnIds'
  BY <1>1, <1>3, <1>5, IdsShrink
<1>7. IntakeTypeOK'
  BY <1>1, <1>2 DEF IntakeTypeOK, ApiCrash
<1>8. (\A q \in Requests : RequestOK(q)') /\ LocksApart' /\ NoncesApart'
  BY <1>2, <1>4 DEF RequestOK, LocksApart, NoncesApart
<1>9. NoListing'
  BY ListingKeeps
<1>10. Q!CInv'
  BY Implements, CountsKeep DEF LInv
<1> QED
  BY <1>6, <1>7, <1>8, <1>9, <1>10 DEF LInv

LEMMA LKeeps ==
  ASSUME LInv, [Next]_vars
  PROVE  LInv'
<1>1. CASE Administer
  BY <1>1, AdminKeeps
<1>2. CASE Midnight \/ UNCHANGED vars
  <2>1. /\ today \in Days /\ today \in Int /\ copyOf \in [Ids -> Ids \cup {0}]
    BY Tabled, TablesAssumption DEF LInv, TablesTypeOK, Days
  <2>2. /\ UNCHANGED <<row, status, quotaState, bonus, adminVars, intakeVars>>
        /\ today' \in Days /\ today <= today'
    BY <1>2, <2>1, TablesAssumption DEF Midnight, Tick, Days, vars, tableVars, submissionVars
  <2>3. \A q \in Requests : KeepsId(q)
    BY <2>2 DEF KeepsId, intakeVars
  <2>4. StartsInOrder' /\ OwnIds'
    BY <2>1, <2>2, <2>3, IdsShrink DEF adminVars
  <2> QED
    BY <2>1, <2>2, <2>4, RestKeeps
<1>3. CASE \E w \in Workers : WorkerStep(w)
  BY <1>3, WorkerKeeps DEF WorkerStep
<1>4. CASE (\E w \in Workers : Die(w) \/ Restart(w)) /\ UNCHANGED <<adminVars, intakeVars>>
  BY <1>4, WorkerKeeps
<1>5. CASE ApiCrash /\ copyOf' = [s \in Ids |-> 0] /\ listDay' = 0 /\ UNCHANGED workerVars
  BY <1>5, CrashKeeps
<1>6. ASSUME NEW r \in Requests, RequestStep(r, Taken) \/ Abort(r) \/ CommitLost(r),
             UNCHANGED <<adminVars, workerVars>>
      PROVE  LInv'
  BY <1>6, RequestKeeps
<1> QED
  BY <1>1, <1>2, <1>3, <1>4, <1>5, <1>6 DEF Next, SmoothNext, Faults, Handle

LEMMA LInit == Init => LInv
<1> SUFFICES ASSUME Init PROVE LInv
  OBVIOUS
<1>1. Q!Init
  BY DEF Init, Q!Init, TablesInit, Q!TablesInit, AdminInit, Q!AdminInit, WorkerInit, Q!WorkerInit,
     Ids, Q!Ids
<1>2. Q!CInv
  BY <1>1, CountsInit
<1>3. /\ \A s \in Ids : status[s] = "none" /\ copyOf[s] = 0
      /\ \A r \in Requests : req[r] = Idle /\ req[r].pc = "idle"
      /\ listDay = 0
  BY DEF Init, TablesInit, AdminInit, IntakeInit, Idle
<1>4. "idle" \notin Open /\ "idle" \notin Locking /\ "idle" \notin Counted
  BY DEF Open, Locking, Counted
<1>5. IntakeTypeOK
  BY DEF Init, IntakeInit, IntakeTypeOK
<1>6. \A s \in Ids, d \in Days : ~Began(s, d)
  BY <1>3, <1>4 DEF Began
<1>7. StartsInOrder
  BY <1>6 DEF StartsInOrder
<1>8. OwnIds /\ (\A r \in Requests : RequestOK(r)) /\ LocksApart /\ NoncesApart
  BY <1>3, <1>4 DEF OwnIds, RequestOK, LocksApart, NoncesApart
<1>9. NoListing
  BY <1>3 DEF NoListing
<1> QED
  BY <1>2, <1>5, <1>7, <1>8, <1>9 DEF LInv

-----------------------------------------------------------------------------
(* What a request was given under its locks stays true until it commits,   *)
(* for any number of requests, workers and administrators' operations.     *)
THEOREM Invariance == Spec => []LInv
  BY LInit, LKeeps, PTL DEF Spec

(* Every behaviour of the requests' statements, with their waits, failures *)
(* and retries, is one of Pipeline, in which a request is one step.        *)
THEOREM IntakeIsOneStep == Spec => ImplementsPipeline
<1>1. Init => P!Init
  BY DEF Init, P!Init, TablesInit, P!TablesInit, AdminInit, P!AdminInit, WorkerInit, P!WorkerInit,
     Ids, P!Ids
<1>2. LInv /\ [Next]_vars => [P!Next]_(P!vars)
  <2>1. Q!vars = P!vars /\ Q!vars' = P!vars'
    BY DEF Q!vars, P!vars, Q!tableVars, P!tableVars, Q!adminVars, P!adminVars, Q!workerVars,
       P!workerVars
  <2> QED
    BY <2>1, Implements, SameNext
<1> QED
  BY <1>1, <1>2, Invariance, PTL DEF Spec, ImplementsPipeline, P!Spec

(* What Pipeline promises of jobs, verdicts, costs, credits, days and the  *)
(* leaderboard holds in every state between the statements of a request,   *)
(* not only where intake is one step.                                      *)
THEOREM RowsKeepPromises ==
  Spec => [](/\ P!ClaimedOnce /\ P!JobTellsVerdict /\ P!VerdictDecidesCost
             /\ P!BoardShowsScored /\ P!BonusConserved /\ P!DailyRespected)
<1>1. ASSUME LInv
      PROVE  /\ P!ClaimedOnce /\ P!JobTellsVerdict /\ P!VerdictDecidesCost
             /\ P!BoardShowsScored /\ P!BonusConserved /\ P!DailyRespected
  <2>1. Q!CInv /\ Q!IInv
    BY <1>1 DEF LInv, Q!CInv
  <2>2. /\ Q!ClaimedOnce
        /\ Q!JobTellsVerdict
    BY <2>1, SameRows, TablesAssumption, AdminAssumption, WorkerAssumption, Q!OneClaim, Q!OneStory
  <2>3. P!ClaimedOnce
    BY <2>2 DEF Q!ClaimedOnce, P!ClaimedOnce, Q!Holding, P!Holding, Q!Ids, P!Ids
  <2>4. P!JobTellsVerdict
    BY <2>2 DEF Q!JobTellsVerdict, P!JobTellsVerdict, Q!Ids, P!Ids, Q!Verdicts, P!Verdicts
  <2>5. P!VerdictDecidesCost
    BY <2>1 DEF Q!IInv, Q!SubmissionOK, P!VerdictDecidesCost, Q!Ids, P!Ids
  <2>6. P!BoardShowsScored
    BY <2>1 DEF Q!IInv, Q!BoardShowsScored, P!BoardShowsScored, Q!Ids, P!Ids
  <2>7. P!BonusConserved
    BY <2>1 DEF Q!CInv, Q!BonusConserved, P!BonusConserved, Q!Ids, P!Ids, Q!Cardinality,
       P!Cardinality
  <2>8. P!DailyRespected
    BY <2>1 DEF Q!CInv, Q!DailyRespected, P!DailyRespected, Q!Paid, P!Paid, Q!QuotaUsage,
       P!QuotaUsage, Q!Counting, P!Counting, Q!Ids, P!Ids, Q!Days, P!Days, Q!Cardinality,
       P!Cardinality
  <2> QED
    BY <2>3, <2>4, <2>5, <2>6, <2>7, <2>8
<1> QED
  BY <1>1, Invariance, PTL

(* A request that pays with a bonus credit has one until it commits or is  *)
(* rolled back, whatever administrators and other requests do meanwhile.   *)
THEOREM CreditsAreHeld == Spec => []CreditHeld
<1>1. ASSUME LInv
      PROVE  CreditHeld
  <2>1. TypeOK
    BY <1>1, Tabled DEF LInv, TypeOK
  <2>2. ASSUME NEW u \in Users
        PROVE  Cardinality({r \in Requests : /\ req[r].pc \in Open
                                             /\ req[r].user = u
                                             /\ req[r].pays = "bonus"}) <= bonus[u]
    <3> DEFINE S == {r \in Requests : /\ req[r].pc \in Open
                                      /\ req[r].user = u
                                      /\ req[r].pays = "bonus"}
    <3>1. bonus[u] \in Nat
      BY <2>1, <2>2 DEF TypeOK, TablesTypeOK
    <3>2. CASE S = {}
      <4> HIDE DEF S
      <4>1. Cardinality(S) = 0
        BY <3>2, FS_EmptySet
      <4> QED
        BY <3>1, <4>1 DEF S
    <3>3. CASE S # {}
      <4>1. PICK r : r \in S
        BY <3>3
      <4>2. S = {r}
        BY <1>1, <4>1 DEF LInv, LocksApart
      <4>3. bonus[u] > 0
        BY <1>1, <4>1 DEF LInv, RequestOK
      <4>4. Cardinality({r}) = 1
        BY FS_Singleton
      <4> HIDE DEF S
      <4>5. Cardinality(S) = 1
        BY <4>2, <4>4
      <4> QED
        BY <3>1, <4>3, <4>5 DEF S
    <3> QED
      BY <3>2, <3>3
  <2> QED
    BY <2>1, <2>2 DEF CreditHeld
<1> QED
  BY <1>1, Invariance, PTL

(* Only a commit admits an upload.                                         *)
LEMMA AdmitsByCommit ==
  ASSUME LInv, [Next]_vars, NEW s \in Ids, status[s] = "none",
         quotaState'[s] \in {"pending", "bonus"}
  PROVE  \E r \in Requests : CommitRows(r)
<1>1. /\ quotaState[s] = "none"
      /\ quotaState \in [Ids -> QuotaStates \cup {"none"}]
  BY Tabled DEF LInv, TablesTypeOK
<1>2. CASE UNCHANGED quotaState
  BY <1>1, <1>2
<1>3. CASE Administer
  <2>1. CASE \E day \in Days : ResetLabQuota(day)
    BY <1>1, <2>1 DEF ResetLabQuota
  <2>2. CASE ReevaluateCommit
    <3>1. \E new : CreateRows(new, "free")
      BY <2>2 DEF ReevaluateCommit
    <3> QED
      BY <1>1, <3>1 DEF CreateRows
  <2> QED
    BY <1>2, <1>3, <2>1, <2>2 DEF Administer, AdminNext, AdjustBonusQuota, ResetBonusQuota,
       SetBonus, ReevaluateList, ReevaluateAbort, tableVars, submissionVars
<1>4. ASSUME NEW w \in Workers, Persist(w)
      PROVE  FALSE
  <2>1. Q!WorkerOK(w)
    BY DEF LInv, Q!CInv, Q!IInv
  <2>2. status[current[w]] = "running"
    BY <1>4, <2>1 DEF Persist, Q!WorkerOK
  <2>3. \/ UNCHANGED quotaState
        \/ quotaState' = [quotaState EXCEPT ![current[w]] = "free"]
        \/ quotaState' = [quotaState EXCEPT ![current[w]] = Settlement(snapshot[w], result[w])]
    BY <1>4 DEF Persist, SettleQuota
  <2> QED
    BY <1>1, <2>2, <2>3
<1>5. ASSUME NEW w \in Workers, WorkerStep(w) \/ Die(w) \/ Restart(w), ~Persist(w)
      PROVE  UNCHANGED quotaState
  BY <1>5 DEF WorkerStep, ClaimSelect, ClaimCommit, Load, MarkRunning, Evaluate, Acknowledge,
     Die, Restart, tableVars, submissionVars
<1>6. CASE Midnight \/ ApiCrash \/ UNCHANGED vars
  BY <1>2, <1>6 DEF Midnight, Tick, ApiCrash, vars, tableVars, submissionVars
<1>7. ASSUME NEW r \in Requests, RequestStep(r, Taken) \/ Abort(r) \/ CommitLost(r)
      PROVE  CommitRows(r) \/ UNCHANGED quotaState
  BY <1>7, QuietRequest DEF CommitLost, tableVars
<1> QED
  BY <1>2, <1>3, <1>4, <1>5, <1>6, <1>7 DEF Next, SmoothNext, Faults, Handle

(* Every admission uses up a nonce that none used before, although other   *)
(* requests commit between the look-up and the commit.                     *)
THEOREM NoncesAreUsedOnce == Spec => NonceUsedOnce
<1>1. LInv /\ [Next]_vars =>
        \A s \in Ids : status[s] = "none" /\ quotaState'[s] \in {"pending", "bonus"} =>
          usedNonces' # usedNonces
  <2>1. ASSUME LInv, NEW r \in Requests, CommitRows(r)
        PROVE  usedNonces' # usedNonces
    BY <2>1, CommitWrites DEF LInv, NoncesApart
  <2> QED
    BY <2>1, AdmitsByCommit
<1> QED
  BY <1>1, Invariance, PTL DEF Spec, NonceUsedOnce

-----------------------------------------------------------------------------
(* `labkit submit': a command that waits follows rows that only go forward.*)

(* Whatever the commands do, the server's part of their steps is LabKit's. *)
LEMMA CliSteps == [CliNext]_cliVars => [Next]_vars
<1> SUFFICES ASSUME [CliNext]_cliVars PROVE [Next]_vars
  OBVIOUS
<1>1. ASSUME NEW r \in Requests, Cancel(r) \/ Poll(r) \/ Interrupt(r)
      PROVE  UNCHANGED vars
  BY <1>1 DEF Cancel, Poll, ReadSubmission, ReadScores, Interrupt
<1>2. ASSUME NEW r \in Requests, Post(r) \/ Replay(r) \/ Serve(r)
      PROVE  Handle(r)
  BY <1>2 DEF Post, Replay, Serve, Served, Handle, RequestStep
<1>3. ASSUME NEW r \in Requests, ServeFails(r)
      PROVE  (Abort(r) \/ CommitLost(r)) /\ UNCHANGED <<adminVars, workerVars>>
  BY <1>3 DEF ServeFails, Served
<1>4. CASE UNCHANGED cliVars
  BY <1>4 DEF cliVars
<1> QED
  BY <1>1, <1>2, <1>3, <1>4 DEF CliNext, Next, SmoothNext, Faults

(* A command and its replays are requests of LabKit and nothing more:      *)
(* every theorem about LabKit holds while students submit.                 *)
THEOREM CommandsAreRequests == CliSpec => Spec
<1>1. CliInit => Init
  BY DEF CliInit
<1> QED
  BY <1>1, CliSteps, PTL DEF CliSpec, Spec

(* Rows that exist go forward, and a verdict stays.                        *)
LEMMA Stages ==
  /\ StageIndex("submitting") = 0 /\ StageIndex("queued") = 1 /\ StageIndex("running") = 2
  /\ StageIndex("done") = 3 /\ StageIndex("error") = 3
BY DEF StageIndex

LEMMA RowsForward ==
  ASSUME LInv, [Next]_vars, NEW s \in Ids, status[s] # "none"
  PROVE  /\ status[s] \in {"queued", "running", "done", "error"}
         /\ status'[s] \in {"queued", "running", "done", "error"}
         /\ StageIndex(status[s]) <= StageIndex(status'[s])
         /\ verdict[s] # "null" => verdict'[s] = verdict[s] /\ status'[s] = status[s]
<1>1. Q!IInv /\ [Q!Next]_(Q!vars) /\ s \in Q!Ids
  BY Implements DEF LInv, Q!CInv, Ids, Q!Ids
<1>2. status[s] \in {"queued", "running", "done", "error"}
  BY Tabled DEF LInv, TablesTypeOK
<1>3. \/ status'[s] = status[s]
      \/ status[s] = "queued" /\ status'[s] = "running"
      \/ status[s] = "running" /\ status'[s] \in {"done", "error"}
  BY <1>1, SameRows, TablesAssumption, AdminAssumption, WorkerAssumption, Q!StatusForward
<1>4. verdict[s] # "null" => verdict'[s] = verdict[s] /\ status'[s] = status[s]
  BY <1>1, SameRows, TablesAssumption, AdminAssumption, WorkerAssumption, Q!VerdictKept
<1> QED
  BY <1>2, <1>3, <1>4, Stages

(* A row has a verdict when its status is one the command stops at.        *)
LEMMA TerminalRows ==
  ASSUME LInv, NEW s \in Ids, status[s] # "none", IsTerminal(status[s])
  PROVE  verdict[s] # "null"
<1>1. Q!SubmissionOK(s)
  BY DEF LInv, Q!CInv, Q!IInv, Ids, Q!Ids
<1>2. status[s] \in {"done", "error"}
  BY Tabled DEF LInv, TablesTypeOK, IsTerminal
<1> QED
  BY <1>1, <1>2 DEF Q!SubmissionOK, Q!Verdicts

(* What a step tells the student of one command.                           *)
CliRecord ==
  [pc: {"ready", "cancelled", "sent", "waiting", "reading", "reported", "failed"},
   id: Ids \cup {0}, status: {"submitting", "queued", "running", "done", "error"},
   verdict: Verdicts \cup {"null"}, scores: BOOLEAN]

Told(pc, id, st, v, sc) ==
  [pc |-> pc, id |-> id, status |-> st, verdict |-> v, scores |-> sc]

Tells(r, x) ==
  LET c == cli[r] IN
  \/ x = [Ready EXCEPT !.pc = "failed"]
  \/ c.pc = "ready" /\ x = [Ready EXCEPT !.pc = "cancelled"]
  \/ c.pc = "ready" /\ x = Told("sent", c.id, c.status, c.verdict, c.scores)
  \/ /\ c.pc = "sent"
     /\ \E s \in Ids : /\ status'[s] = "queued"
                     /\ x = Told("waiting", s, "queued", c.verdict, c.scores)
  \/ /\ c.pc = "waiting" /\ UNCHANGED <<status, verdict>>
     /\ x = Told("reading", c.id, status[c.id], verdict[c.id], c.scores)
  \/ /\ c.pc = "reading" /\ IsTerminal(c.status) /\ UNCHANGED <<status, verdict>>
     /\ \E b \in BOOLEAN : /\ b <=> verdict[c.id] = "scored"
                           /\ x = Told("reported", c.id, c.status, c.verdict, b)
  \/ /\ c.pc = "reading" /\ ~IsTerminal(c.status)
     /\ x = Told("waiting", c.id, c.status, c.verdict, c.scores)

Tell == UNCHANGED cli \/ \E r \in Requests : \E x : cli' = [cli EXCEPT ![r] = x] /\ Tells(r, x)

LEMMA CommandRecord ==
  ASSUME CliTypeOK, NEW r \in Requests
  PROVE  /\ cli \in [Requests -> CliRecord] /\ cli[r] \in CliRecord
         /\ cli[r] = Told(cli[r].pc, cli[r].id, cli[r].status, cli[r].verdict, cli[r].scores)
<1>1. cli \in [Requests -> CliRecord] /\ cli[r] \in CliRecord
  BY DEF CliTypeOK, CliRecord
<1> QED
  BY <1>1 DEF CliRecord, Told

(* A request that is answered with a submission has committed it.          *)
LEMMA AnswerLearned ==
  ASSUME LInv, CliTypeOK, NEW r \in Requests, Serve(r) \/ ServeFails(r)
  PROVE  Tell
<1>1. Learns(r) /\ UNCHANGED <<adminVars, workerVars>>
  BY DEF Serve, ServeFails, Served
<1>2. CASE UNCHANGED cli
  BY <1>2 DEF Tell
<1>3. CASE Ended(r, "failed")
  BY <1>3 DEF Ended, Tell, Tells
<1>4. CASE cli[r].pc = "sent" /\ Waiting(r) /\ status' # status
  <2>1. RequestStep(r, Taken) \/ Abort(r) \/ CommitLost(r)
    BY DEF Serve, ServeFails, RequestStep
  <2>2. CommitRows(r)
    BY <1>4, <2>1, QuietRequest DEF CommitLost, tableVars
  <2>3. req[r].id \in Ids /\ status' = [status EXCEPT ![req[r].id] = "queued"]
    BY <2>2, CommitWrites
  <2>4. status'[req[r].id] = "queued"
    BY <2>3, Tabled DEF LInv, TablesTypeOK
  <2> PICK x : x = Told("waiting", req[r].id, "queued", cli[r].verdict, cli[r].scores)
    OBVIOUS
  <2>5. cli' = [cli EXCEPT ![r] = x]
    <3> PICK c \in CliRecord : c = cli[r]
      BY CommandRecord
    <3>1. c = Told(c.pc, c.id, c.status, c.verdict, c.scores)
      BY CommandRecord
    <3> PICK c1 : c1 = [c EXCEPT !.pc = "waiting"]
      OBVIOUS
    <3>2. c1 = Told("waiting", c.id, c.status, c.verdict, c.scores)
      BY <3>1 DEF Told
    <3> PICK c2 : c2 = [c1 EXCEPT !.id = req[r].id]
      OBVIOUS
    <3>3. c2 = Told("waiting", req[r].id, c.status, c.verdict, c.scores)
      BY <3>2 DEF Told
    <3> PICK c3 : c3 = [c2 EXCEPT !.status = "queued"]
      OBVIOUS
    <3>4. c3 = Told("waiting", req[r].id, "queued", c.verdict, c.scores)
      BY <3>3 DEF Told
    <3>5. cli' = [cli EXCEPT ![r] = c3]
      BY <1>4, CommandRecord DEF Waiting
    <3> QED
      BY <3>4, <3>5
  <2>6. Tells(r, x)
    BY <1>4, <2>3, <2>4 DEF Tells
  <2> QED
    BY <2>5, <2>6 DEF Tell
<1> QED
  BY <1>1, <1>2, <1>3, <1>4 DEF Learns

LEMMA Tellings ==
  ASSUME LInv, CliTypeOK, [CliNext]_cliVars
  PROVE  Tell
<1>1. ASSUME NEW r \in Requests, Cancel(r) \/ Replay(r)
      PROVE  Tell
  BY <1>1 DEF Cancel, Replay, Ended, Tell, Tells
<1>2. ASSUME NEW r \in Requests, Post(r)
      PROVE  Tell
  <2> PICK x : x = Told("sent", cli[r].id, cli[r].status, cli[r].verdict, cli[r].scores)
    OBVIOUS
  <2>1. cli' = [cli EXCEPT ![r] = x]
    <3> PICK c \in CliRecord : c = cli[r]
      BY CommandRecord
    <3>1. c = Told(c.pc, c.id, c.status, c.verdict, c.scores)
      BY CommandRecord
    <3> PICK c1 : c1 = [c EXCEPT !.pc = "sent"]
      OBVIOUS
    <3>2. c1 = Told("sent", c.id, c.status, c.verdict, c.scores)
      BY <3>1 DEF Told
    <3>3. cli' = [cli EXCEPT ![r] = c1]
      BY <1>2, CommandRecord DEF Post
    <3> QED
      BY <3>2, <3>3
  <2>2. Tells(r, x)
    BY <1>2 DEF Post, Tells
  <2> QED
    BY <2>1, <2>2 DEF Tell
<1>3. ASSUME NEW r \in Requests, Serve(r) \/ ServeFails(r)
      PROVE  Tell
  BY <1>3, AnswerLearned
<1>4. ASSUME NEW r \in Requests, ReadSubmission(r)
      PROVE  Tell
  <2> PICK s : s = cli[r].id
    OBVIOUS
  <2> PICK x : x = Told("reading", s, status[s], verdict[s], cli[r].scores)
    OBVIOUS
  <2>1. cli' = [cli EXCEPT ![r] = x]
    <3> PICK c \in CliRecord : c = cli[r]
      BY CommandRecord
    <3>1. c = Told(c.pc, c.id, c.status, c.verdict, c.scores)
      BY CommandRecord
    <3> PICK c1 : c1 = [c EXCEPT !.pc = "reading"]
      OBVIOUS
    <3>2. c1 = Told("reading", c.id, c.status, c.verdict, c.scores)
      BY <3>1 DEF Told
    <3> PICK c2 : c2 = [c1 EXCEPT !.status = status[s]]
      OBVIOUS
    <3>3. c2 = Told("reading", c.id, status[s], c.verdict, c.scores)
      BY <3>2 DEF Told
    <3> PICK c3 : c3 = [c2 EXCEPT !.verdict = verdict[s]]
      OBVIOUS
    <3>4. c3 = Told("reading", c.id, status[s], verdict[s], c.scores)
      BY <3>3 DEF Told
    <3>5. cli' = [cli EXCEPT ![r] = c3]
      BY <1>4, CommandRecord DEF ReadSubmission, Fetched
    <3> QED
      BY <3>4, <3>5
  <2>2. UNCHANGED <<status, verdict>> /\ cli[r].pc = "waiting"
    BY <1>4 DEF ReadSubmission, vars, tableVars
  <2>3. Tells(r, x)
    BY <2>2 DEF Tells
  <2> QED
    BY <2>1, <2>3 DEF Tell
<1>5. ASSUME NEW r \in Requests, ReadScores(r)
      PROVE  Tell
  <2>1. UNCHANGED <<status, verdict>> /\ cli[r].pc = "reading"
    BY <1>5 DEF ReadScores, vars, tableVars
  <2>2. CASE IsTerminal(cli[r].status)
    <3> PICK b \in BOOLEAN : b = (verdict[cli[r].id] = "scored")
      OBVIOUS
    <3> PICK x : x = Told("reported", cli[r].id, cli[r].status, cli[r].verdict, b)
      OBVIOUS
    <3>1. cli' = [cli EXCEPT ![r].pc = "reported", ![r].scores = b]
      BY <1>5, <2>2 DEF ReadScores, Fetched
    <3>2. cli' = [cli EXCEPT ![r] = x]
      <4> PICK c \in CliRecord : c = cli[r]
        BY CommandRecord
      <4>1. c = Told(c.pc, c.id, c.status, c.verdict, c.scores)
        BY CommandRecord
      <4> PICK c1 : c1 = [c EXCEPT !.pc = "reported"]
        OBVIOUS
      <4>2. c1 = Told("reported", c.id, c.status, c.verdict, c.scores)
        BY <4>1 DEF Told
      <4> PICK c2 : c2 = [c1 EXCEPT !.scores = b]
        OBVIOUS
      <4>3. c2 = Told("reported", c.id, c.status, c.verdict, b)
        BY <4>2 DEF Told
      <4>4. cli' = [cli EXCEPT ![r] = c2]
        BY <3>1, CommandRecord
      <4> QED
        BY <4>3, <4>4
    <3>3. Tells(r, x)
      BY <2>1, <2>2 DEF Tells
    <3> QED
      BY <3>2, <3>3 DEF Tell
  <2>3. CASE ~IsTerminal(cli[r].status)
    <3> PICK x : x = Told("waiting", cli[r].id, cli[r].status, cli[r].verdict, cli[r].scores)
      OBVIOUS
    <3>1. cli' = [cli EXCEPT ![r].pc = "waiting"]
      BY <1>5, <2>3 DEF ReadScores
    <3>2. cli' = [cli EXCEPT ![r] = x]
      <4> PICK c \in CliRecord : c = cli[r]
        BY CommandRecord
      <4>1. c = Told(c.pc, c.id, c.status, c.verdict, c.scores)
        BY CommandRecord
      <4> PICK c1 : c1 = [c EXCEPT !.pc = "waiting"]
        OBVIOUS
      <4>2. c1 = Told("waiting", c.id, c.status, c.verdict, c.scores)
        BY <4>1 DEF Told
      <4>3. cli' = [cli EXCEPT ![r] = c1]
        BY <3>1, CommandRecord
      <4> QED
        BY <4>2, <4>3
    <3>3. Tells(r, x)
      BY <2>1, <2>3 DEF Tells
    <3> QED
      BY <3>2, <3>3 DEF Tell
  <2> QED
    BY <2>2, <2>3
<1>6. ASSUME NEW r \in Requests, Interrupt(r)
      PROVE  Tell
  BY <1>6 DEF Interrupt, Ended, Tell, Tells
<1>7. CASE UNCHANGED cli
  BY <1>7 DEF Tell
<1> QED
  BY <1>1, <1>2, <1>3, <1>4, <1>5, <1>6, <1>7 DEF CliNext, Poll, cliVars

(* What a command knows of its submission: a stage the submission reached, *)
(* and the verdict as soon as the status it read is one to stop at.        *)
Following == {"waiting", "reading", "reported"}

FollowOK(r) ==
  LET c == cli[r] IN
  /\ c.pc \notin Following => c.status = "submitting"
  /\ c.pc \in Following => /\ c.id \in Ids /\ status[c.id] # "none"
                           /\ StageIndex(c.status) <= StageIndex(status[c.id])
  /\ c.pc \in {"reading", "reported"} /\ IsTerminal(c.status) =>
       /\ c.verdict # "null" /\ c.verdict = verdict[c.id]
       /\ c.status = status[c.id]
  /\ c.pc = "reported" => IsTerminal(c.status) /\ (c.scores <=> c.verdict = "scored")

FollowInv == CliTypeOK /\ \A r \in Requests : FollowOK(r)

LEMMA ToldIs ==
  ASSUME NEW pc, NEW id, NEW st, NEW v, NEW sc, NEW x, x = Told(pc, id, st, v, sc)
  PROVE  x.pc = pc /\ x.id = id /\ x.status = st /\ x.verdict = v /\ x.scores = sc
BY DEF Told

LEMMA StageOrder ==
  ASSUME NEW a \in {"submitting", "queued", "running", "done", "error"}
  PROVE  StageIndex(a) \in 0..3
BY Stages

(* A command that learns nothing still knows what it knew.                 *)
LEMMA FollowStays ==
  ASSUME LInv, FollowInv, [Next]_vars, NEW r \in Requests, cli'[r] = cli[r]
  PROVE  FollowOK(r)'
<1> PICK c : c = cli[r]
  OBVIOUS
<1>1. FollowOK(r) /\ cli'[r] = c /\ c \in CliRecord
  BY CommandRecord DEF FollowInv
<1>2. c.status \in {"submitting", "queued", "running", "done", "error"}
  BY <1>1 DEF CliRecord
<1>3. ASSUME c.pc \in Following
      PROVE  /\ c.id \in Ids /\ status'[c.id] # "none"
             /\ StageIndex(c.status) <= StageIndex(status'[c.id])
             /\ verdict[c.id] # "null" =>
                  verdict'[c.id] = verdict[c.id] /\ status'[c.id] = status[c.id]
  <2> PICK s : s = c.id
    OBVIOUS
  <2>1. s \in Ids /\ status[s] # "none" /\ StageIndex(c.status) <= StageIndex(status[s])
    BY <1>1, <1>3 DEF FollowOK
  <2>2. /\ status[s] \in {"queued", "running", "done", "error"}
        /\ status'[s] \in {"queued", "running", "done", "error"}
        /\ StageIndex(status[s]) <= StageIndex(status'[s])
        /\ verdict[s] # "null" => verdict'[s] = verdict[s] /\ status'[s] = status[s]
    BY <2>1, RowsForward
  <2>3. StageIndex(c.status) \in 0..3 /\ StageIndex(status[s]) \in 0..3
        /\ StageIndex(status'[s]) \in 0..3
    BY <1>2, <2>2, StageOrder
  <2> QED
    BY <2>1, <2>2, <2>3
<1>4. c.pc \in {"reading", "reported"} => c.pc \in Following
  BY DEF Following
<1> QED
  BY <1>1, <1>3, <1>4 DEF FollowOK, IsTerminal

(* One step of one command, and what its progress bar makes of it.         *)
LEMMA FollowMoves ==
  ASSUME LInv, FollowInv, [Next]_vars, NEW r \in Requests, NEW x, Tells(r, x), cli'[r] = x
  PROVE  /\ x \in CliRecord /\ FollowOK(r)'
         /\ x.pc # "failed" => StageIndex(x.status) >= StageIndex(cli[r].status)
<1> PICK c : c = cli[r]
  OBVIOUS
<1>0. /\ FollowOK(r) /\ c \in CliRecord
      /\ c = Told(c.pc, c.id, c.status, c.verdict, c.scores)
      /\ status \in [Ids -> {"none", "queued", "running", "done", "error"}]
      /\ verdict \in [Ids -> Verdicts \cup {"null"}]
  BY CommandRecord, Tabled DEF FollowInv, LInv, TablesTypeOK
<1>1. /\ c.id \in Ids \cup {0} /\ c.verdict \in Verdicts \cup {"null"} /\ c.scores \in BOOLEAN
      /\ c.status \in {"submitting", "queued", "running", "done", "error"}
      /\ StageIndex(c.status) \in 0..3
  BY <1>0, StageOrder DEF CliRecord
<1>2. ASSUME NEW how \in {"failed", "cancelled"}, x = [Ready EXCEPT !.pc = how],
             how = "failed" \/ c.pc = "ready"
      PROVE  /\ x \in CliRecord /\ FollowOK(r)'
             /\ x.pc # "failed" => StageIndex(x.status) >= StageIndex(c.status)
  <2>1. x = Told(how, 0, "submitting", "null", FALSE)
    BY <1>2 DEF Ready, Told
  <2>2. x.pc = how /\ x.status = "submitting"
    BY <2>1 DEF Told
  <2>3. x \in CliRecord
    BY <2>1 DEF Told, CliRecord
  <2>4. c.pc = "ready" => c.status = "submitting"
    BY <1>0 DEF FollowOK, Following
  <2> QED
    BY <1>1, <1>2, <2>2, <2>3, <2>4 DEF FollowOK, Following
<1>3. ASSUME c.pc = "ready", x = Told("sent", c.id, c.status, c.verdict, c.scores)
      PROVE  /\ x \in CliRecord /\ FollowOK(r)'
             /\ StageIndex(x.status) >= StageIndex(c.status)
  <2>1. c.status = "submitting"
    BY <1>0, <1>3 DEF FollowOK, Following
  <2>2. x.pc = "sent" /\ x.status = c.status
    BY <1>3 DEF Told
  <2>3. x \in CliRecord
    BY <1>1, <1>3 DEF Told, CliRecord
  <2> QED
    BY <1>1, <2>1, <2>2, <2>3 DEF FollowOK, Following
<1>4. ASSUME NEW s \in Ids, c.pc = "sent", status'[s] = "queued",
             x = Told("waiting", s, "queued", c.verdict, c.scores)
      PROVE  /\ x \in CliRecord /\ FollowOK(r)'
             /\ StageIndex(x.status) >= StageIndex(c.status)
  <2>1. c.status = "submitting"
    BY <1>0, <1>4 DEF FollowOK, Following
  <2>2. x.pc = "waiting" /\ x.status = "queued" /\ x.id = s
    BY <1>4 DEF Told
  <2>3. x \in CliRecord
    BY <1>1, <1>4 DEF Told, CliRecord
  <2> QED
    BY <1>4, <2>1, <2>2, <2>3, Stages DEF FollowOK, Following
<1>5. ASSUME c.pc = "waiting", UNCHANGED <<status, verdict>>,
             x = Told("reading", c.id, status[c.id], verdict[c.id], c.scores)
      PROVE  /\ x \in CliRecord /\ FollowOK(r)'
             /\ StageIndex(x.status) >= StageIndex(c.status)
  <2> PICK s : s = c.id
    OBVIOUS
  <2>1. s \in Ids /\ status[s] # "none" /\ StageIndex(c.status) <= StageIndex(status[s])
    BY <1>0, <1>5 DEF FollowOK, Following
  <2>2. x.pc = "reading" /\ x.id = s /\ x.status = status[s] /\ x.verdict = verdict[s]
    BY <1>5 DEF Told
  <2>3. status[s] \in {"queued", "running", "done", "error"} /\ StageIndex(status[s]) \in 0..3
    BY <1>0, <2>1, StageOrder
  <2>4. x \in CliRecord
    BY <1>0, <1>1, <1>5, <2>1, <2>3 DEF Told, CliRecord
  <2>5. IsTerminal(status[s]) => verdict[s] # "null"
    BY <2>1, TerminalRows
  <2>6. status' = status /\ verdict' = verdict
    BY <1>5
  <2>7. FollowOK(r)'
    <3>1. /\ x.pc \in Following /\ x.pc # "reported"
          /\ x.id \in Ids /\ status'[x.id] # "none"
          /\ StageIndex(x.status) <= StageIndex(status'[x.id])
      BY <2>1, <2>2, <2>3, <2>6 DEF Following
    <3>2. IsTerminal(x.status) => /\ x.verdict # "null" /\ x.verdict = verdict'[x.id]
                                  /\ x.status = status'[x.id]
      BY <2>2, <2>5, <2>6
    <3> QED
      BY <3>1, <3>2 DEF FollowOK, IsTerminal
  <2>8. StageIndex(x.status) >= StageIndex(c.status)
    BY <1>1, <2>1, <2>2, <2>3
  <2> QED
    BY <2>4, <2>7, <2>8
<1>6. ASSUME NEW b \in BOOLEAN, c.pc = "reading", IsTerminal(c.status),
             UNCHANGED <<status, verdict>>, b <=> verdict[c.id] = "scored",
             x = Told("reported", c.id, c.status, c.verdict, b)
      PROVE  /\ x \in CliRecord /\ FollowOK(r)'
             /\ StageIndex(x.status) >= StageIndex(c.status)
  <2> PICK s : s = c.id
    OBVIOUS
  <2>1. /\ s \in Ids /\ status[s] # "none" /\ StageIndex(c.status) <= StageIndex(status[s])
        /\ c.verdict # "null" /\ c.verdict = verdict[s] /\ c.status = status[s]
    BY <1>0, <1>6 DEF FollowOK, Following
  <2>2. /\ x.pc = "reported" /\ x.id = s /\ x.status = c.status /\ x.verdict = c.verdict
        /\ x.scores = b
    BY <1>6, ToldIs
  <2>3. x \in CliRecord
    BY <1>1, <1>6 DEF Told, CliRecord
  <2>4. x.scores <=> x.verdict = "scored"
    BY <1>6, <2>1, <2>2
  <2> QED
    BY <1>1, <1>6, <2>1, <2>2, <2>3, <2>4 DEF FollowOK, Following
<1>7. ASSUME c.pc = "reading", x = Told("waiting", c.id, c.status, c.verdict, c.scores)
      PROVE  /\ x \in CliRecord /\ FollowOK(r)'
             /\ StageIndex(x.status) >= StageIndex(c.status)
  <2> PICK s : s = c.id
    OBVIOUS
  <2>1. s \in Ids /\ status[s] # "none" /\ StageIndex(c.status) <= StageIndex(status[s])
    BY <1>0, <1>7 DEF FollowOK, Following
  <2>2. x.pc = "waiting" /\ x.id = s /\ x.status = c.status
    BY <1>7 DEF Told
  <2>3. x \in CliRecord
    BY <1>1, <1>7 DEF Told, CliRecord
  <2>4. /\ status[s] \in {"queued", "running", "done", "error"}
        /\ status'[s] \in {"queued", "running", "done", "error"}
        /\ StageIndex(status[s]) <= StageIndex(status'[s])
    BY <2>1, RowsForward
  <2>5. StageIndex(status[s]) \in 0..3 /\ StageIndex(status'[s]) \in 0..3
    BY <2>4, StageOrder
  <2>6. StageIndex(c.status) <= StageIndex(status'[s])
    BY <1>1, <2>1, <2>4, <2>5
  <2> QED
    BY <1>1, <2>1, <2>2, <2>3, <2>4, <2>6 DEF FollowOK, Following
<1> QED
  BY <1>2, <1>3, <1>4, <1>5, <1>6, <1>7 DEF Tells

LEMMA FollowKeeps ==
  ASSUME LInv, FollowInv, [CliNext]_cliVars
  PROVE  /\ FollowInv'
         /\ \A r \in Requests : cli'[r].pc # "failed" =>
              StageIndex(cli'[r].status) >= StageIndex(cli[r].status)
<1>0. [Next]_vars /\ Tell /\ cli \in [Requests -> CliRecord]
  BY CliSteps, Tellings DEF FollowInv, CliTypeOK, CliRecord
<1>1. \A r \in Requests : StageIndex(cli[r].status) \in 0..3
  BY <1>0, StageOrder DEF CliRecord
<1>2. CASE UNCHANGED cli
  <2>1. \A r \in Requests : FollowOK(r)'
    BY <1>0, <1>2, FollowStays
  <2> QED
    BY <1>1, <1>2, <2>1 DEF FollowInv, CliTypeOK
<1>3. ASSUME NEW q \in Requests, NEW x, cli' = [cli EXCEPT ![q] = x], Tells(q, x)
      PROVE  /\ FollowInv'
             /\ \A r \in Requests : cli'[r].pc # "failed" =>
                  StageIndex(cli'[r].status) >= StageIndex(cli[r].status)
  <2>1. cli'[q] = x /\ \A r \in Requests : r # q => cli'[r] = cli[r]
    BY <1>0, <1>3
  <2>2. /\ x \in CliRecord /\ FollowOK(q)'
        /\ x.pc # "failed" => StageIndex(x.status) >= StageIndex(cli[q].status)
    BY <1>0, <1>3, <2>1, FollowMoves
  <2>3. \A r \in Requests : FollowOK(r)'
    BY <1>0, <2>1, <2>2, FollowStays
  <2>4. cli' \in [Requests -> CliRecord]
    BY <1>0, <1>3, <2>2
  <2>5. CliTypeOK'
    BY <2>4 DEF CliTypeOK, CliRecord, Ids, Verdicts
  <2> QED
    BY <1>1, <2>1, <2>2, <2>3, <2>5 DEF FollowInv
<1> QED
  BY <1>0, <1>2, <1>3 DEF Tell

LEMMA FollowInit == CliInit => FollowInv
<1> SUFFICES ASSUME CliInit PROVE FollowInv
  OBVIOUS
<1>1. Ready \in CliRecord /\ Ready.pc = "ready" /\ Ready.status = "submitting"
  BY DEF Ready, CliRecord
<1>2. cli = [r \in Requests |-> Ready]
  BY DEF CliInit
<1>3. cli \in [Requests -> CliRecord] /\ \A r \in Requests : cli[r] = Ready
  BY <1>1, <1>2
<1>4. CliTypeOK
  BY <1>3 DEF CliTypeOK, CliRecord
<1>5. \A r \in Requests : FollowOK(r)
  BY <1>1, <1>3 DEF FollowOK, Following
<1> QED
  BY <1>4, <1>5 DEF FollowInv

(* A command knows of its submission what stays true, for any number of    *)
(* commands, replays, workers and administrators' operations.              *)
THEOREM CommandsFollow == CliSpec => []FollowInv
<1>1. LInv /\ FollowInv /\ [CliNext]_cliVars => FollowInv'
  BY FollowKeeps
<1> QED
  BY <1>1, FollowInit, CommandsAreRequests, Invariance, PTL DEF CliSpec

(* What is reported is the submission's verdict for good, with its scores. *)
THEOREM ReportsAreFinal == CliSpec => []ReportIsFinal
<1>1. FollowInv => ReportIsFinal
  BY DEF FollowInv, FollowOK, Following, ReportIsFinal
<1> QED
  BY <1>1, CommandsFollow, PTL

(* No step of anybody moves a command's progress bar back.                 *)
THEOREM ProgressNeverBack == CliSpec => ProgressOnlyForward
<1> DEFINE Forward == \A r \in Requests : cli'[r].pc # "failed" =>
                        StageIndex(cli'[r].status) >= StageIndex(cli[r].status)
<1>1. LInv /\ FollowInv /\ [CliNext]_cliVars => [Forward]_cliVars
  BY FollowKeeps
<1> QED
  BY <1>1, CommandsFollow, CommandsAreRequests, Invariance, PTL DEF CliSpec, ProgressOnlyForward
=============================================================================
