--------------------------- MODULE PipelineProofs ---------------------------
(***************************************************************************)
(* Proofs about Pipeline, for any number of students, uploads, workers,    *)
(* submissions and days.  The first part rests on the inductive invariant  *)
(* IInv; each action has a lemma that says it keeps IInv.  The second part *)
(* is about what the columns add up to, and adds to IInv what the counts   *)
(* need (CInv).                                                            *)
(***************************************************************************)
EXTENDS Pipeline, FiniteSetTheorems, TLAPS

LEMMA InitKeeps == Init => IInv
<1> SUFFICES ASSUME Init PROVE IInv
  OBVIOUS
<1> USE DEF Init, TablesInit, AdminInit, WorkerInit
<1>1. TypeOK
  BY TablesAssumption DEF TypeOK, TablesTypeOK, WorkerTypeOK, Days, Ids, Phases
<1>2. ASSUME NEW s \in Ids PROVE SubmissionOK(s)
  BY DEF SubmissionOK, Verdicts
<1>3. ASSUME NEW w \in Workers PROVE WorkerOK(w)
  BY DEF WorkerOK, Holding
<1>4. ClaimsApart /\ CopiesOK /\ BoardShowsScored
  BY DEF ClaimsApart, CopiesOK, BoardShowsScored
<1> QED
  BY <1>1, <1>2, <1>3, <1>4 DEF IInv

-----------------------------------------------------------------------------
(* Inserting rows and jobs under ids that were free.                       *)
LEMMA CreateKeeps ==
  ASSUME IInv,
         NEW D \in SUBSET Ids, NEW new \in [D -> Rows],
         NEW q \in {"pending", "bonus", "free"},
         \A s \in D : status[s] = "none",
         CreateRows(new, q),
         UNCHANGED <<board, today, historyVars, workerVars>>,
         bonus' \in [Users -> Nat],
         copyOf' \in [Ids -> Ids \cup {0}],
         listDay' \in Days,
         \A s \in Ids : copyOf'[s] # 0 => copyOf'[s] = copyOf[s] /\ s \notin D
  PROVE  IInv'
<1> USE DEF IInv, historyVars, workerVars
<1>0. DOMAIN new = D
  OBVIOUS
<1>1. /\ row' = [s \in Ids |-> IF s \in D THEN new[s] ELSE row[s]]
      /\ status' = [s \in Ids |-> IF s \in D THEN "queued" ELSE status[s]]
      /\ quotaState' = [s \in Ids |-> IF s \in D THEN q ELSE quotaState[s]]
      /\ job' = [s \in Ids |-> IF s \in D THEN "queued" ELSE job[s]]
      /\ verdict' = verdict /\ workerId' = workerId /\ attempts' = attempts
  BY <1>0, Zenon DEF CreateRows
<1>2. TypeOK'
  BY <1>1 DEF TypeOK, TablesTypeOK, WorkerTypeOK, QuotaStates, Counting
<1>3. ASSUME NEW s \in Ids PROVE SubmissionOK(s)'
  <2>1. SubmissionOK(s)
    OBVIOUS
  <2>2. CASE s \in D
    BY <1>1, <2>1, <2>2 DEF SubmissionOK, Verdicts
  <2>3. CASE s \notin D
    BY <1>1, <2>1, <2>3 DEF SubmissionOK
  <2> QED
    BY <2>2, <2>3
<1>4. ASSUME NEW w \in Workers PROVE WorkerOK(w)'
  <2>1. WorkerOK(w)
    OBVIOUS
  <2>2. CASE phase[w] \in {"idle", "down"}
    BY <1>1, <2>1, <2>2 DEF WorkerOK, Holding
  <2>3. CASE phase[w] \notin {"idle", "down"}
    <3>1. current[w] \in Ids /\ job[current[w]] # "none"
      BY <2>1, <2>3 DEF WorkerOK, Holding, TypeOK, WorkerTypeOK, Phases
    <3>2. current[w] \notin D
      BY <3>1 DEF SubmissionOK
    <3> QED
      BY <1>1, <2>1, <3>1, <3>2 DEF WorkerOK
  <2> QED
    BY <2>2, <2>3
<1>5. ClaimsApart'
  BY DEF ClaimsApart
<1>6. BoardShowsScored'
  <2>1. ASSUME NEW s \in Ids, verdict[s] # "null" PROVE row'[s] = row[s]
    BY <1>1, <2>1 DEF SubmissionOK
  <2> QED
    BY <1>1, <2>1 DEF BoardShowsScored, TypeOK, TablesTypeOK
<1>7. CopiesOK'
  BY <1>1 DEF CopiesOK, TypeOK
<1> QED
  BY <1>2, <1>3, <1>4, <1>5, <1>6, <1>7

(* Submit: one fresh id, never one that Reevaluate has reserved.           *)
LEMMA SubmitKeeps == IInv /\ Submit => IInv'
<1> SUFFICES ASSUME IInv, Submit PROVE IInv'
  OBVIOUS
<1>1. PICK s \in Ids \ Reserved : Admit(s)
  BY DEF Submit
<1>2. PICK u \in Users, c \in Contents, created \in Days, window \in Days :
        AdmitDaily(s, u, c, created, window) \/ AdmitBonus(s, u, c, created, window)
  BY <1>1 DEF Admit
<1> DEFINE new == [t \in {s} |-> Upload(u, c, created, window)]
<1>3. new \in [{s} -> Rows]
  BY DEF Upload, Rows
<1>4. /\ status[s] = "none"
      /\ UNCHANGED <<board, today, historyVars, workerVars, adminVars>>
      /\ \E q \in {"pending", "bonus", "free"} : CreateRows(new, q)
      /\ bonus' \in [Users -> Nat]
  <2>1. UNCHANGED <<workerVars, adminVars>>
    BY DEF Submit
  <2>2. bonus \in [Users -> Nat]
    BY DEF IInv, TypeOK, TablesTypeOK
  <2>3. CASE AdmitDaily(s, u, c, created, window)
    BY <2>1, <2>2, <2>3 DEF AdmitDaily
  <2>4. CASE AdmitBonus(s, u, c, created, window)
    BY <2>1, <2>2, <2>4 DEF AdmitBonus
  <2> QED
    BY <1>2, <2>3, <2>4
<1>5. PICK q \in {"pending", "bonus", "free"} : CreateRows(new, q)
  BY <1>4
<1>6. /\ copyOf' \in [Ids -> Ids \cup {0}] /\ listDay' \in Days
      /\ \A t \in Ids : copyOf'[t] # 0 => copyOf'[t] = copyOf[t] /\ t \notin {s}
  BY <1>4 DEF IInv, TypeOK, Reserved, adminVars
<1> HIDE DEF new
<1> QED
  BY <1>3, <1>4, <1>5, <1>6, CreateKeeps

(* Steps that leave submissions, jobs and workers as they are.             *)
LEMMA QuietKeeps ==
  ASSUME IInv, TypeOK', CopiesOK',
         UNCHANGED <<submissionVars, jobVars, board, workerVars>>
  PROVE  IInv'
<1> USE DEF IInv, submissionVars, jobVars, workerVars
<1>1. ASSUME NEW s \in Ids PROVE SubmissionOK(s)'
  BY DEF SubmissionOK
<1>2. ASSUME NEW w \in Workers PROVE WorkerOK(w)'
  BY DEF WorkerOK
<1> QED
  BY <1>1, <1>2 DEF ClaimsApart, BoardShowsScored

LEMMA MidnightKeeps == IInv /\ Midnight => IInv'
<1> SUFFICES ASSUME IInv, Midnight PROVE IInv'
  OBVIOUS
<1>1. TypeOK'
  BY TablesAssumption DEF IInv, Midnight, Tick, TypeOK, TablesTypeOK, WorkerTypeOK, Days,
     submissionVars, jobVars, historyVars, adminVars, workerVars
<1>2. CopiesOK'
  BY DEF IInv, Midnight, Tick, CopiesOK, submissionVars, adminVars
<1> QED
  BY <1>1, <1>2, QuietKeeps DEF Midnight, Tick

-----------------------------------------------------------------------------
(* The administrator.                                                      *)
LEMMA ResetKeeps ==
  ASSUME IInv, UNCHANGED workerVars, NEW day \in Days, ResetLabQuota(day)
  PROVE  IInv'
<1> USE DEF IInv, jobVars, workerVars, adminVars
<1> DEFINE hit == {s \in Ids : quotaState[s] \in Counting /\ row[s].created >= day}
<1>1. /\ quotaState' = [s \in Ids |-> IF s \in hit THEN "admin_reset" ELSE quotaState[s]]
      /\ wasReset' = [s \in Ids |-> s \in hit \/ wasReset[s]]
      /\ UNCHANGED <<row, status, verdict, jobVars, bonus, board, today, issued,
                     adminVars, workerVars>>
  BY DEF ResetLabQuota, Resettable
<1> HIDE DEF hit
<1>2. \A s \in hit : s \in Ids /\ quotaState[s] \in {"pending", "charged"}
  BY DEF hit, Counting
<1>3. TypeOK'
  <2>1. quotaState' \in [Ids -> QuotaStates \cup {"none"}]
    BY <1>1 DEF TypeOK, TablesTypeOK, QuotaStates
  <2>2. wasReset' \in [Ids -> BOOLEAN]
    BY <1>1 DEF TypeOK, TablesTypeOK
  <2> QED
    BY <1>1, <2>1, <2>2 DEF TypeOK, TablesTypeOK, WorkerTypeOK
<1>4. ASSUME NEW s \in Ids PROVE SubmissionOK(s)'
  BY <1>1, <1>2 DEF SubmissionOK
<1>5. ASSUME NEW w \in Workers PROVE WorkerOK(w)'
  <2>1. WorkerOK(w) /\ current[w] \in Ids \cup {0}
    BY DEF TypeOK, WorkerTypeOK
  <2>2. current[w] \in Ids => (quotaState[current[w]] \in {"free", "bonus"}
                                => quotaState'[current[w]] = quotaState[current[w]])
    BY <1>1, <1>2
  <2>3. phase[w] \in {"loaded", "running", "evaluated"} => current[w] \in Ids
    BY <2>1 DEF WorkerOK
  <2> QED
    BY <1>1, <2>1, <2>2, <2>3 DEF WorkerOK
<1> QED
  BY <1>1, <1>3, <1>4, <1>5 DEF ClaimsApart, CopiesOK, BoardShowsScored

LEMMA SetBonusKeeps ==
  ASSUME IInv, UNCHANGED workerVars, NEW new \in [Users -> Nat], SetBonus(new)
  PROVE  IInv'
<1>1. TypeOK'
  <2>1. issued' \in [Users -> Int]
    BY DEF IInv, TypeOK, TablesTypeOK, SetBonus
  <2> QED
    BY <2>1 DEF IInv, SetBonus, TypeOK, TablesTypeOK, WorkerTypeOK, submissionVars, jobVars,
       adminVars, workerVars
<1>2. CopiesOK'
  BY DEF IInv, SetBonus, CopiesOK, submissionVars, adminVars
<1> QED
  BY <1>1, <1>2, QuietKeeps DEF SetBonus

LEMMA ReevaluateKeeps ==
  ASSUME IInv, UNCHANGED workerVars, ReevaluateList \/ ReevaluateCommit \/ ReevaluateAbort
  PROVE  IInv'
<1>0. TypeOK /\ CopiesOK /\ TablesTypeOK(Workers)
  BY DEF IInv, TypeOK
<1>1. CASE ReevaluateList
  <2> DEFINE listed == {board[u] : u \in Users} \ {0}
             fresh  == {s \in Ids : \A t \in Committed : t < s}
  <2>1. /\ copyOf' \in [Ids -> listed \cup {0}]
        /\ \A s \in Ids \ fresh : copyOf'[s] = 0
        /\ listDay' = today
        /\ UNCHANGED tableVars
    BY <1>1 DEF ReevaluateList
  <2>2. \A s \in fresh : status[s] = "none"
    BY DEF Committed, Ids
  <2>3. \A t \in listed : t \in Ids /\ status[t] # "none"
    <3>1. ASSUME NEW u \in Users, board[u] # 0 PROVE board[u] \in Ids /\ verdict[board[u]] = "scored"
      BY <1>0, <3>1 DEF IInv, BoardShowsScored, TablesTypeOK
    <3> QED
      BY <3>1 DEF IInv, SubmissionOK, Verdicts
  <2> HIDE DEF listed, fresh
  <2>4. TypeOK'
    <3>1. copyOf' \in [Ids -> Ids \cup {0}]
      BY <2>1, <2>3
    <3> QED
      BY <1>0, <2>1, <3>1 DEF TypeOK, TablesTypeOK, WorkerTypeOK, tableVars, workerVars
  <2>5. CopiesOK'
    BY <2>1, <2>2, <2>3 DEF CopiesOK, tableVars
  <2> QED
    BY <2>1, <2>4, <2>5, QuietKeeps DEF tableVars, submissionVars, jobVars
<1>2. CASE ReevaluateCommit
  <2> DEFINE new == [s \in Reserved |->
                       Upload(row[copyOf[s]].user, row[copyOf[s]].content, listDay, listDay)]
  <2>1. \A s \in Reserved : row[copyOf[s]] \in Rows /\ status[s] = "none" /\ s \in Ids
    BY <1>0 DEF IInv, Reserved, CopiesOK, SubmissionOK, TypeOK
  <2>2. new \in [Reserved -> Rows]
    BY <1>0, <2>1 DEF TypeOK, Rows, Upload
  <2>3. CreateRows(new, "free") /\ UNCHANGED <<bonus, board, today, historyVars>>
    BY <1>2 DEF ReevaluateCommit
  <2> HIDE DEF new
  <2>4. /\ copyOf' \in [Ids -> Ids \cup {0}] /\ \A s \in Ids : copyOf'[s] = 0
        /\ listDay' \in Days
    BY <1>2, TablesAssumption DEF ReevaluateCommit, ReevaluateEnd, Days
  <2>5. bonus' \in [Users -> Nat] /\ Reserved \in SUBSET Ids
    BY <1>0, <2>3 DEF TablesTypeOK, Reserved
  <2> QED
    BY <2>1, <2>2, <2>3, <2>4, <2>5, CreateKeeps
<1>3. CASE ReevaluateAbort
  <2>1. copyOf' = [s \in Ids |-> 0] /\ listDay' = 0 /\ UNCHANGED tableVars
    BY <1>3 DEF ReevaluateAbort, ReevaluateEnd
  <2>2. TypeOK' /\ CopiesOK'
    BY <1>0, <2>1, TablesAssumption DEF TypeOK, TablesTypeOK, WorkerTypeOK, CopiesOK, Days,
       tableVars, workerVars
  <2> QED
    BY <2>1, <2>2, QuietKeeps DEF tableVars, submissionVars, jobVars
<1> QED
  BY <1>1, <1>2, <1>3

LEMMA AdministerKeeps == IInv /\ Administer => IInv'
<1> SUFFICES ASSUME IInv, Administer PROVE IInv'
  OBVIOUS
<1>0. UNCHANGED workerVars /\ bonus \in [Users -> Nat]
  BY DEF Administer, IInv, TypeOK, TablesTypeOK
<1>1. ASSUME NEW day \in Days, ResetLabQuota(day) PROVE IInv'
  BY <1>0, <1>1, ResetKeeps
<1>2. ASSUME NEW delta \in Deltas, AdjustBonusQuota(delta) PROVE IInv'
  <2> DEFINE new == [u \in Users |->
                       IF u \in Participants THEN AtLeastZero(bonus[u] + delta) ELSE bonus[u]]
  <2>1. new \in [Users -> Nat]
    BY <1>0, AdminAssumption DEF AtLeastZero
  <2>2. SetBonus(new)
    BY <1>2 DEF AdjustBonusQuota
  <2> QED
    BY <1>0, <2>1, <2>2, SetBonusKeeps
<1>3. CASE ResetBonusQuota
  <2>1. [u \in Users |-> 0] \in [Users -> Nat]
    OBVIOUS
  <2> QED
    BY <1>0, <1>3, <2>1, SetBonusKeeps DEF ResetBonusQuota
<1>4. CASE ReevaluateList \/ ReevaluateCommit \/ ReevaluateAbort
  BY <1>0, <1>4, ReevaluateKeeps
<1> QED
  BY <1>1, <1>2, <1>3, <1>4 DEF Administer, AdminNext

-----------------------------------------------------------------------------
(* The workers.  A step of a worker touches its own variables and the      *)
(* submission it holds; since claims are apart, no other worker notices.   *)
LEMMA Frame ==
  ASSUME IInv, NEW w \in Workers, current[w] # 0,
         row' = row,
         \A t \in Ids \ {current[w]} :
            /\ status'[t] = status[t] /\ verdict'[t] = verdict[t]
            /\ quotaState'[t] = quotaState[t] /\ job'[t] = job[t]
            /\ workerId'[t] = workerId[t] /\ attempts'[t] = attempts[t],
         \A v \in Workers \ {w} :
            /\ phase'[v] = phase[v] /\ current'[v] = current[v]
            /\ snapshot'[v] = snapshot[v] /\ result'[v] = result[v]
  PROVE  /\ \A t \in Ids \ {current[w]} : SubmissionOK(t)'
         /\ \A v \in Workers \ {w} : WorkerOK(v)'
<1>1. ASSUME NEW t \in Ids \ {current[w]} PROVE SubmissionOK(t)'
  BY DEF IInv, SubmissionOK
<1>2. ASSUME NEW v \in Workers \ {w} PROVE WorkerOK(v)'
  <2>1. WorkerOK(v) /\ (current[v] = 0 \/ current[v] \in Ids \ {current[w]})
    BY DEF IInv, ClaimsApart, TypeOK, WorkerTypeOK
  <2>2. CASE current[v] = 0
    BY <2>1, <2>2 DEF WorkerOK, Holding
  <2>3. CASE current[v] # 0
    BY <2>1, <2>3 DEF WorkerOK
  <2> QED
    BY <2>2, <2>3
<1> QED
  BY <1>1, <1>2

(* What the invariant says of the job in a worker's hands.                 *)
LEMMA Held ==
  ASSUME IInv, NEW w \in Workers, phase[w] \notin {"idle", "down"}
  PROVE  /\ current[w] \in Ids /\ SubmissionOK(current[w]) /\ WorkerOK(w)
         /\ status[current[w]] # "none"
<1>1. WorkerOK(w) /\ current[w] \in Ids \cup {0} /\ phase[w] \in Phases
  BY DEF IInv, TypeOK, WorkerTypeOK
<1>2. current[w] \in Ids /\ SubmissionOK(current[w])
  BY <1>1 DEF WorkerOK, IInv
<1> QED
  BY <1>1, <1>2 DEF SubmissionOK, WorkerOK, Holding, Phases

LEMMA ClaimSelectKeeps ==
  ASSUME IInv, NEW w \in Workers, ClaimSelect(w), UNCHANGED adminVars
  PROVE  IInv'
<1> USE DEF IInv, tableVars, adminVars
<1>1. PICK s \in Ids : /\ job[s] = "queued" /\ s \notin ClaimLocked
                       /\ current' = [current EXCEPT ![w] = s]
  BY DEF ClaimSelect
<1>2. /\ phase[w] = "idle" /\ phase' = [phase EXCEPT ![w] = "claiming"]
      /\ UNCHANGED <<tableVars, snapshot, result>>
  BY DEF ClaimSelect, Goto
<1>3. TypeOK'
  BY <1>1, <1>2 DEF TypeOK, TablesTypeOK, WorkerTypeOK, Phases
<1>4. ASSUME NEW t \in Ids PROVE SubmissionOK(t)'
  BY <1>2 DEF SubmissionOK
<1>5. ASSUME NEW v \in Workers PROVE WorkerOK(v)'
  <2>1. WorkerOK(v)
    OBVIOUS
  <2>2. CASE v = w
    BY <1>1, <1>2, <2>2 DEF WorkerOK, Holding, TypeOK, WorkerTypeOK, Ids
  <2>3. CASE v # w
    BY <1>1, <1>2, <2>1, <2>3 DEF WorkerOK, TypeOK, WorkerTypeOK
  <2> QED
    BY <2>2, <2>3
<1>6. ClaimsApart'
  <2>1. ASSUME NEW v \in Workers, v # w PROVE current[v] # s
    <3>1. WorkerOK(v) /\ phase[v] \in Phases
      BY DEF TypeOK, WorkerTypeOK
    <3>2. CASE phase[v] = "claiming"
      BY <1>1, <3>2 DEF ClaimLocked
    <3>3. CASE phase[v] \in Holding
      BY <1>1, <3>1, <3>3 DEF WorkerOK
    <3>4. CASE phase[v] \in {"idle", "down"}
      BY <3>1, <3>4 DEF WorkerOK, Ids
    <3> QED
      BY <3>1, <3>2, <3>3, <3>4 DEF Phases, Holding
  <2> QED
    BY <1>1, <2>1 DEF ClaimsApart, TypeOK, WorkerTypeOK
<1> QED
  BY <1>2, <1>3, <1>4, <1>5, <1>6 DEF CopiesOK, BoardShowsScored

LEMMA ClaimCommitKeeps ==
  ASSUME IInv, NEW w \in Workers, ClaimCommit(w), UNCHANGED adminVars
  PROVE  IInv'
<1>0. PICK s \in Ids : /\ s = current[w] /\ phase[w] = "claiming"
                       /\ SubmissionOK(s) /\ WorkerOK(w) /\ TypeOK
  BY Held DEF ClaimCommit, IInv
<1>1. /\ job' = [job EXCEPT ![s] = "running"] /\ workerId' = [workerId EXCEPT ![s] = w]
      /\ attempts' = [attempts EXCEPT ![s] = @ + 1]
      /\ phase' = [phase EXCEPT ![w] = "claimed"]
      /\ UNCHANGED <<submissionVars, bonus, board, today, historyVars, adminVars,
                     current, snapshot, result>>
  BY <1>0 DEF ClaimCommit, Goto
<1>2. /\ \A t \in Ids \ {s} : SubmissionOK(t)'
      /\ \A v \in Workers \ {w} : WorkerOK(v)'
  BY <1>0, <1>1, Frame DEF WorkerOK, TypeOK, TablesTypeOK, WorkerTypeOK, submissionVars
<1>3. TypeOK'
  BY <1>0, <1>1 DEF TypeOK, TablesTypeOK, WorkerTypeOK, Phases, submissionVars, historyVars,
     adminVars
<1>4. ASSUME NEW t \in Ids PROVE SubmissionOK(t)'
  <2>1. CASE t = s
    BY <1>0, <1>1, <2>1 DEF SubmissionOK, WorkerOK, TypeOK, TablesTypeOK, submissionVars
  <2> QED
    BY <1>2, <2>1
<1>6. ASSUME NEW v \in Workers PROVE WorkerOK(v)'
  <2>1. CASE v = w
    BY <1>0, <1>1, <2>1 DEF SubmissionOK, WorkerOK, Holding, TypeOK, TablesTypeOK,
       WorkerTypeOK, submissionVars
  <2> QED
    BY <1>2, <2>1
<1>5. ClaimsApart' /\ CopiesOK' /\ BoardShowsScored'
  BY <1>1 DEF IInv, ClaimsApart, CopiesOK, BoardShowsScored, submissionVars, adminVars
<1> QED
  BY <1>3, <1>4, <1>5, <1>6 DEF IInv

(* Load, Evaluate, Die and Restart leave the tables alone.                 *)
LEMMA LoadEvaluateKeeps ==
  ASSUME IInv, NEW w \in Workers, UNCHANGED adminVars,
         Load(w) \/ \E readable \in BOOLEAN : Evaluate(w, readable)
  PROVE  IInv'
<1>0. /\ phase[w] \in {"claimed", "running"} /\ current[w] \in Ids /\ TypeOK
      /\ SubmissionOK(current[w]) /\ WorkerOK(w) /\ status[current[w]] # "none"
  BY Held DEF Load, Evaluate, IInv
<1>1. UNCHANGED <<tableVars, adminVars, current>>
  BY DEF Load, Evaluate
<1>2. CASE Load(w)
  <2>1. WorkerTypeOK' /\ WorkerOK(w)'
    BY <1>0, <1>1, <1>2 DEF Load, Goto, SubmissionOK, WorkerOK, Holding, TypeOK, TablesTypeOK,
       WorkerTypeOK, Phases, QuotaStates, tableVars
  <2>2. \A v \in Workers \ {w} : WorkerOK(v)'
    BY <1>0, <1>1, <1>2, Frame DEF Load, Goto, WorkerOK, TypeOK, WorkerTypeOK, tableVars, Ids
  <2> QED
    BY <1>0, <1>1, <2>1, <2>2 DEF IInv, TypeOK, TablesTypeOK, SubmissionOK, ClaimsApart,
       CopiesOK, BoardShowsScored, tableVars, adminVars
<1>3. ASSUME NEW readable \in BOOLEAN, Evaluate(w, readable) PROVE IInv'
  <2>0. PICK new \in Verdicts : result' = [result EXCEPT ![w] = new]
    BY <1>3 DEF Evaluate
  <2>1. WorkerTypeOK' /\ WorkerOK(w)'
    BY <1>0, <1>1, <1>3, <2>0 DEF Evaluate, Goto, WorkerOK, Holding, TypeOK, WorkerTypeOK,
       Phases, Verdicts, tableVars
  <2>2. \A v \in Workers \ {w} : WorkerOK(v)'
    BY <1>0, <1>1, <1>3, <2>0, Frame DEF Evaluate, Goto, WorkerOK, TypeOK, WorkerTypeOK,
       tableVars, Ids
  <2> QED
    BY <1>0, <1>1, <2>1, <2>2 DEF IInv, TypeOK, TablesTypeOK, SubmissionOK, ClaimsApart,
       CopiesOK, BoardShowsScored, tableVars, adminVars
<1> QED
  BY <1>2, <1>3

LEMMA FaultKeeps ==
  ASSUME IInv, NEW w \in Workers, UNCHANGED adminVars, Die(w) \/ Restart(w)
  PROVE  IInv'
<1>0. TypeOK /\ WorkerOK(w)
  BY DEF IInv
<1>1. UNCHANGED <<tableVars, adminVars>>
  BY DEF Die, Restart
<1>2. PICK p \in {"idle", "down"} :
        /\ phase' = [phase EXCEPT ![w] = p]
        /\ current' = [current EXCEPT ![w] = 0]
        /\ \A v \in Workers \ {w} : snapshot'[v] = snapshot[v] /\ result'[v] = result[v]
  <2>1. CASE Die(w)
    BY <1>0, <2>1 DEF Die, Drop, Goto, TypeOK, WorkerTypeOK
  <2>2. CASE Restart(w)
    <3>1. current[w] = 0
      BY <1>0, <2>2 DEF Restart, WorkerOK
    <3> QED
      BY <1>0, <2>2, <3>1 DEF Restart, Goto, TypeOK, WorkerTypeOK
  <2> QED
    BY <2>1, <2>2
<1>3. WorkerTypeOK'
  BY <1>0, <1>2 DEF Die, Restart, Drop, Goto, TypeOK, WorkerTypeOK, Phases
<1>4. ASSUME NEW v \in Workers PROVE WorkerOK(v)'
  <2>1. CASE v = w
    BY <1>0, <1>2, <2>1 DEF WorkerOK, Holding, TypeOK, WorkerTypeOK
  <2>2. CASE v # w
    BY <1>0, <1>1, <1>2, <2>2 DEF IInv, WorkerOK, TypeOK, WorkerTypeOK, tableVars
  <2> QED
    BY <2>1, <2>2
<1>5. ClaimsApart'
  BY <1>0, <1>2 DEF IInv, ClaimsApart, TypeOK, WorkerTypeOK
<1> QED
  BY <1>0, <1>1, <1>3, <1>4, <1>5 DEF IInv, TypeOK, TablesTypeOK, SubmissionOK, CopiesOK,
     BoardShowsScored, tableVars, adminVars

LEMMA MarkRunningKeeps ==
  ASSUME IInv, NEW w \in Workers, MarkRunning(w), UNCHANGED adminVars
  PROVE  IInv'
<1>0. PICK s \in Ids : /\ s = current[w] /\ phase[w] = "loaded"
                       /\ SubmissionOK(s) /\ WorkerOK(w) /\ TypeOK
  BY Held DEF MarkRunning, IInv
<1>1. /\ status' = [status EXCEPT ![s] = "running"]
      /\ phase' = [phase EXCEPT ![w] = "running"]
      /\ UNCHANGED <<row, verdict, quotaState, jobVars, bonus, board, today, historyVars,
                     adminVars, current, snapshot, result>>
  BY <1>0 DEF MarkRunning, Goto
<1>2. /\ \A t \in Ids \ {s} : SubmissionOK(t)'
      /\ \A v \in Workers \ {w} : WorkerOK(v)'
  <2>1. /\ row' = row /\ s # 0
        /\ \A t \in Ids \ {s} :
             /\ status'[t] = status[t] /\ verdict'[t] = verdict[t]
             /\ quotaState'[t] = quotaState[t] /\ job'[t] = job[t]
             /\ workerId'[t] = workerId[t] /\ attempts'[t] = attempts[t]
    BY <1>0, <1>1 DEF TypeOK, TablesTypeOK, jobVars, Ids
  <2>2. \A v \in Workers \ {w} :
          /\ phase'[v] = phase[v] /\ current'[v] = current[v]
          /\ snapshot'[v] = snapshot[v] /\ result'[v] = result[v]
    BY <1>0, <1>1 DEF TypeOK, WorkerTypeOK
  <2> QED
    BY <1>0, <2>1, <2>2, Frame
<1>3. TypeOK'
  BY <1>0, <1>1 DEF TypeOK, TablesTypeOK, WorkerTypeOK, Phases, jobVars, historyVars, adminVars
<1> job[s] = "running" /\ status[s] = "queued" /\ verdict[s] = "null"
  BY <1>0 DEF SubmissionOK, WorkerOK, Holding, TypeOK, TablesTypeOK
<1>4. ASSUME NEW t \in Ids PROVE SubmissionOK(t)'
  <2>1. CASE t = s
    BY <1>0, <1>1, <2>1 DEF SubmissionOK, TypeOK, TablesTypeOK, jobVars, Verdicts
  <2> QED
    BY <1>2, <2>1
<1>6. ASSUME NEW v \in Workers PROVE WorkerOK(v)'
  <2>1. CASE v = w
    BY <1>0, <1>1, <2>1 DEF WorkerOK, Holding, TypeOK, TablesTypeOK, WorkerTypeOK, jobVars
  <2> QED
    BY <1>2, <2>1
<1>5. ClaimsApart' /\ CopiesOK' /\ BoardShowsScored'
  BY <1>0, <1>1 DEF IInv, ClaimsApart, CopiesOK, BoardShowsScored, SubmissionOK, WorkerOK,
     TypeOK, TablesTypeOK, adminVars
<1> QED
  BY <1>3, <1>4, <1>5, <1>6 DEF IInv

(* What Persist makes of quota_state: a platform error frees the row, a    *)
(* row that costs was neither free before nor judged free.                 *)
LEMMA Settled ==
  ASSUME IInv, NEW w \in Workers, NEW s \in Ids, s = current[w],
         phase[w] = "evaluated", SettleQuota(w, s)
  PROVE  /\ \E q \in QuotaStates \ {"pending"} :
               /\ quotaState' = [quotaState EXCEPT ![s] = q]
               /\ result[w] = "error" => q = "free"
               /\ q = "charged" => result[w] \notin FreeVerdicts \cup {"error"}
         /\ bonus' \in [Users -> Nat]
<1>1. /\ SubmissionOK(s) /\ WorkerOK(w) /\ status[s] = "running" /\ TypeOK
      /\ snapshot[w] \in QuotaStates /\ result[w] \in Verdicts
  <2>1. SubmissionOK(s) /\ WorkerOK(w) /\ TypeOK
    BY DEF IInv
  <2> QED
    BY <2>1 DEF WorkerOK, TypeOK, WorkerTypeOK
<1>2. quotaState[s] \in QuotaStates /\ row[s].user \in Users
  BY <1>1 DEF SubmissionOK, TypeOK, TablesTypeOK, Rows
<1> DEFINE v == result[w]
           paid == Settlement(snapshot[w], v)
<1>3. /\ paid \in {"free", "bonus", "charged"}
      /\ v = "error" => paid = "free"
      /\ paid = "charged" => v \notin FreeVerdicts \cup {"error"}
  BY DEF Settlement, QuotaStateFor
<1>4. CASE Refunds(w)
  <2>1. quotaState[s] = "bonus" /\ paid = "free"
    BY <1>1, <1>4 DEF Refunds, WorkerOK
  <2>2. /\ quotaState' = [quotaState EXCEPT ![s] = "free"]
        /\ bonus' = [bonus EXCEPT ![row[s].user] = @ + 1]
    BY <1>4, <2>1 DEF SettleQuota
  <2>3. bonus' \in [Users -> Nat]
    BY <1>1, <1>2, <2>2 DEF TypeOK, TablesTypeOK
  <2>4. "free" \in QuotaStates \ {"pending"}
    BY DEF QuotaStates
  <2> QED
    BY <2>2, <2>3, <2>4
<1>5. CASE ~Refunds(w)
  <2>1. quotaState' = [quotaState EXCEPT ![s] = paid] /\ bonus' = bonus
    BY <1>5 DEF SettleQuota
  <2> QED
    BY <1>1, <1>3, <2>1 DEF TypeOK, TablesTypeOK, QuotaStates, Counting
<1> QED
  BY <1>4, <1>5

LEMMA PersistKeeps ==
  ASSUME IInv, NEW w \in Workers, Persist(w), UNCHANGED adminVars
  PROVE  IInv'
<1>0. PICK s \in Ids : /\ s = current[w] /\ phase[w] = "evaluated"
                       /\ SubmissionOK(s) /\ WorkerOK(w) /\ TypeOK
  BY Held DEF Persist, IInv
<1> DEFINE v == result[w]
<1>1. /\ status' = [status EXCEPT ![s] = IF v = "error" THEN "error" ELSE "done"]
      /\ verdict' = [verdict EXCEPT ![s] = v]
      /\ SettleQuota(w, s)
      /\ board' = IF v = "scored" THEN [board EXCEPT ![row[s].user] = s] ELSE board
      /\ phase' = [phase EXCEPT ![w] = "persisted"]
      /\ UNCHANGED <<row, jobVars, today, historyVars, adminVars, current, snapshot, result>>
  BY <1>0 DEF Persist, Goto, RefreshLeaderboard
<1>2. PICK q \in QuotaStates \ {"pending"} :
        /\ quotaState' = [quotaState EXCEPT ![s] = q]
        /\ v = "error" => q = "free"
        /\ q = "charged" => v \notin FreeVerdicts \cup {"error"}
        /\ bonus' \in [Users -> Nat]
  BY <1>0, <1>1, Settled
<1>3. /\ v \in Verdicts /\ v # "null" /\ job[s] = "running" /\ verdict[s] = "null"
      /\ row[s] \in Rows /\ row[s].user \in Users
  BY <1>0 DEF SubmissionOK, WorkerOK, Holding, TypeOK, TablesTypeOK, WorkerTypeOK, Rows, Verdicts
<1>4. /\ \A t \in Ids \ {s} : SubmissionOK(t)'
      /\ \A x \in Workers \ {w} : WorkerOK(x)'
  <2>1. /\ row' = row /\ s # 0
        /\ \A t \in Ids \ {s} :
             /\ status'[t] = status[t] /\ verdict'[t] = verdict[t]
             /\ quotaState'[t] = quotaState[t] /\ job'[t] = job[t]
             /\ workerId'[t] = workerId[t] /\ attempts'[t] = attempts[t]
    BY <1>0, <1>1, <1>2 DEF TypeOK, TablesTypeOK, jobVars, Ids
  <2>2. \A x \in Workers \ {w} :
          /\ phase'[x] = phase[x] /\ current'[x] = current[x]
          /\ snapshot'[x] = snapshot[x] /\ result'[x] = result[x]
    BY <1>0, <1>1, <1>2 DEF TypeOK, WorkerTypeOK
  <2> QED
    BY <1>0, <2>1, <2>2, Frame
<1>5. TypeOK'
  <2>1. board' \in [Users -> Ids \cup {0}]
    BY <1>0, <1>1, <1>3 DEF TypeOK, TablesTypeOK
  <2>2. verdict' \in [Ids -> Verdicts \cup {"null"}] /\ quotaState' \in [Ids -> QuotaStates \cup {"none"}]
    BY <1>0, <1>1, <1>2, <1>3 DEF TypeOK, TablesTypeOK
  <2> QED
    BY <1>0, <1>1, <1>2, <2>1, <2>2 DEF TypeOK, TablesTypeOK, WorkerTypeOK, Phases, jobVars,
       historyVars, adminVars
<1>6. ASSUME NEW t \in Ids PROVE SubmissionOK(t)'
  <2>1. CASE t = s
    BY <1>0, <1>1, <1>2, <1>3, <2>1 DEF SubmissionOK, TypeOK, TablesTypeOK, jobVars,
       Verdicts, QuotaStates, Counting
  <2> QED
    BY <1>4, <2>1
<1>9. ASSUME NEW x \in Workers PROVE WorkerOK(x)'
  <2>1. CASE x = w
    BY <1>0, <1>1, <1>2, <1>3, <2>1 DEF WorkerOK, Holding, TypeOK, TablesTypeOK,
       WorkerTypeOK, jobVars
  <2> QED
    BY <1>4, <2>1
<1>7. ClaimsApart' /\ CopiesOK'
  BY <1>0, <1>1, <1>3 DEF IInv, ClaimsApart, CopiesOK, SubmissionOK, TypeOK, TablesTypeOK,
     adminVars
<1>8. BoardShowsScored'
  <2>1. ASSUME NEW u \in Users, board'[u] # 0
        PROVE  verdict'[board'[u]] = "scored" /\ row[board'[u]].user = u
    <3>1. CASE board'[u] = s
      <4>1. v = "scored" /\ row[s].user = u
        BY <1>0, <1>1, <1>3, <2>1, <3>1 DEF IInv, BoardShowsScored, TypeOK, TablesTypeOK
      <4> QED
        BY <1>0, <1>1, <3>1, <4>1 DEF TypeOK, TablesTypeOK
    <3>2. CASE board'[u] # s
      <4>1. board'[u] = board[u] /\ board[u] \in Ids
        BY <1>0, <1>1, <1>3, <2>1, <3>2 DEF TypeOK, TablesTypeOK
      <4> QED
        BY <1>0, <1>1, <2>1, <3>2, <4>1 DEF IInv, BoardShowsScored, TypeOK, TablesTypeOK
    <3> QED
      BY <3>1, <3>2
  <2>2. ASSUME NEW t \in Ids, verdict'[t] = "scored" PROVE board'[row[t].user] # 0
    <3>1. CASE t = s
      BY <1>0, <1>1, <1>3, <2>2, <3>1 DEF TypeOK, TablesTypeOK, Ids
    <3>2. CASE t # s
      <4>1. verdict[t] = "scored" /\ row[t].user \in Users /\ board[row[t].user] # 0
        BY <1>0, <1>1, <2>2, <3>2 DEF IInv, BoardShowsScored, SubmissionOK, Verdicts, TypeOK,
           TablesTypeOK, Rows
      <4> QED
        BY <1>0, <1>1, <1>3, <4>1 DEF TypeOK, TablesTypeOK, Ids
    <3> QED
      BY <3>1, <3>2
  <2> QED
    BY <1>1, <2>1, <2>2 DEF BoardShowsScored
<1> QED
  BY <1>5, <1>6, <1>7, <1>8, <1>9 DEF IInv

LEMMA AcknowledgeKeeps ==
  ASSUME IInv, NEW w \in Workers, Acknowledge(w), UNCHANGED adminVars
  PROVE  IInv'
<1>0. PICK s \in Ids : /\ s = current[w] /\ phase[w] = "persisted"
                       /\ SubmissionOK(s) /\ WorkerOK(w) /\ TypeOK
  BY Held DEF Acknowledge, IInv
<1>1. /\ job[s] = "running" /\ workerId[s] = w
      /\ verdict[s] = result[w] /\ result[w] \in Verdicts
  BY <1>0 DEF WorkerOK, Holding, TypeOK, WorkerTypeOK
<1>2. /\ job' = [job EXCEPT ![s] = IF result[w] = "error" THEN "error" ELSE "done"]
      /\ phase' = [phase EXCEPT ![w] = "idle"]
      /\ current' = [current EXCEPT ![w] = 0]
      /\ snapshot' = [snapshot EXCEPT ![w] = "none"]
      /\ result' = [result EXCEPT ![w] = "null"]
      /\ UNCHANGED <<submissionVars, workerId, attempts, bonus, board, today, historyVars,
                     adminVars>>
  BY <1>0, <1>1 DEF Acknowledge, Drop, Goto, OwnsRunning, JobStatusFor
<1>3. /\ \A t \in Ids \ {s} : SubmissionOK(t)'
      /\ \A x \in Workers \ {w} : WorkerOK(x)'
  <2>1. /\ row' = row /\ s # 0
        /\ \A t \in Ids \ {s} :
             /\ status'[t] = status[t] /\ verdict'[t] = verdict[t]
             /\ quotaState'[t] = quotaState[t] /\ job'[t] = job[t]
             /\ workerId'[t] = workerId[t] /\ attempts'[t] = attempts[t]
    BY <1>0, <1>2 DEF TypeOK, TablesTypeOK, submissionVars, Ids
  <2>2. \A x \in Workers \ {w} :
          /\ phase'[x] = phase[x] /\ current'[x] = current[x]
          /\ snapshot'[x] = snapshot[x] /\ result'[x] = result[x]
    BY <1>0, <1>2 DEF TypeOK, WorkerTypeOK
  <2> QED
    BY <1>0, <2>1, <2>2, Frame
<1>4. TypeOK'
  BY <1>0, <1>2 DEF TypeOK, TablesTypeOK, WorkerTypeOK, Phases, submissionVars, historyVars,
     adminVars
<1>5. ASSUME NEW t \in Ids PROVE SubmissionOK(t)'
  <2>1. CASE t = s
    BY <1>0, <1>1, <1>2, <2>1 DEF SubmissionOK, TypeOK, TablesTypeOK, submissionVars, Verdicts
  <2> QED
    BY <1>3, <2>1
<1>6. ASSUME NEW x \in Workers PROVE WorkerOK(x)'
  <2>1. CASE x = w
    BY <1>0, <1>2, <2>1 DEF WorkerOK, Holding, TypeOK, WorkerTypeOK
  <2> QED
    BY <1>3, <2>1
<1>7. ClaimsApart' /\ CopiesOK' /\ BoardShowsScored'
  BY <1>0, <1>2 DEF IInv, ClaimsApart, CopiesOK, BoardShowsScored, TypeOK, WorkerTypeOK,
     submissionVars, adminVars
<1> QED
  BY <1>4, <1>5, <1>6, <1>7 DEF IInv

-----------------------------------------------------------------------------
LEMMA WorkerKeeps ==
  ASSUME IInv, NEW w \in Workers, WorkerStep(w) \/ WorkerFault(w)
  PROVE  IInv'
<1>0. UNCHANGED adminVars
  BY DEF WorkerStep, WorkerFault
<1>1. CASE ClaimSelect(w) \/ ClaimCommit(w)
  BY <1>0, <1>1, ClaimSelectKeeps, ClaimCommitKeeps
<1>2. CASE Load(w) \/ \E readable \in BOOLEAN : Evaluate(w, readable)
  BY <1>0, <1>2, LoadEvaluateKeeps
<1>3. CASE MarkRunning(w)
  BY <1>0, <1>3, MarkRunningKeeps
<1>4. CASE Persist(w)
  BY <1>0, <1>4, PersistKeeps
<1>5. CASE Acknowledge(w)
  BY <1>0, <1>5, AcknowledgeKeeps
<1>6. CASE Die(w) \/ Restart(w)
  BY <1>0, <1>6, FaultKeeps
<1> QED
  BY <1>1, <1>2, <1>3, <1>4, <1>5, <1>6 DEF WorkerStep, WorkerFault

LEMMA StutterKeeps == IInv /\ UNCHANGED vars => IInv'
<1> SUFFICES ASSUME IInv, UNCHANGED vars PROVE IInv'
  OBVIOUS
<1> USE DEF vars, tableVars, adminVars, workerVars
<1>1. TypeOK' /\ CopiesOK'
  BY DEF IInv, TypeOK, TablesTypeOK, WorkerTypeOK, CopiesOK
<1> QED
  BY <1>1, QuietKeeps DEF submissionVars, jobVars

LEMMA NextKeeps == IInv /\ [Next]_vars => IInv'
<1> SUFFICES ASSUME IInv, [Next]_vars PROVE IInv'
  OBVIOUS
<1>1. CASE Submit
  BY <1>1, SubmitKeeps
<1>2. CASE Administer
  BY <1>2, AdministerKeeps
<1>3. CASE Midnight
  BY <1>3, MidnightKeeps
<1>4. ASSUME NEW w \in Workers, WorkerStep(w) \/ WorkerFault(w) PROVE IInv'
  BY <1>4, WorkerKeeps
<1>5. CASE UNCHANGED vars
  BY <1>5, StutterKeeps
<1> QED
  BY <1>1, <1>2, <1>3, <1>4, <1>5 DEF Next, SteadyNext

(* IInv holds in every reachable state of every deployment.                *)
THEOREM Invariance == Spec => []IInv
<1>1. IInv /\ [Next]_vars => IInv'
  BY NextKeeps
<1> QED
  BY InitKeeps, <1>1, PTL DEF Spec

(* The rows and the workers' variables keep their types: no admission,     *)
(* refund, reset or revocation makes a bonus row negative.                 *)
THEOREM TypeCorrect == Spec => []TypeOK
<1>1. IInv => TypeOK
  BY DEF IInv
<1> QED
  BY Invariance, <1>1, PTL

LEMMA OneClaim == IInv => ClaimedOnce
<1> SUFFICES ASSUME IInv PROVE ClaimedOnce
  OBVIOUS
<1>1. ASSUME NEW s \in Ids PROVE attempts[s] <= 1
  BY DEF IInv, SubmissionOK, TypeOK, TablesTypeOK
<1> QED
  BY <1>1 DEF IInv, ClaimedOnce, WorkerOK, ClaimsApart

(* Claim hands a job out once, and only its worker can end it.             *)
THEOREM JobsClaimedOnce == Spec => []ClaimedOnce
  BY Invariance, OneClaim, PTL

LEMMA OneStory == IInv => JobTellsVerdict
<1> SUFFICES ASSUME IInv, NEW s \in Ids
             PROVE  /\ job[s] = "none" <=> status[s] = "none"
                    /\ job[s] = "queued" => status[s] = "queued" /\ verdict[s] = "null"
                    /\ job[s] = "done" => status[s] = "done" /\ verdict[s] \in Verdicts \ {"error"}
                    /\ job[s] = "error" => status[s] = "error" /\ verdict[s] = "error"
                    /\ verdict[s] # "null" <=> status[s] \in {"done", "error"}
  BY DEF JobTellsVerdict
<1>1. SubmissionOK(s) /\ verdict[s] \in Verdicts \cup {"null"}
  BY DEF IInv, TypeOK, TablesTypeOK
<1> QED
  BY <1>1 DEF SubmissionOK, Verdicts

(* Persist and Acknowledge never leave a job and its submission telling    *)
(* different stories.                                                      *)
THEOREM JobsTellVerdicts == Spec => []JobTellsVerdict
  BY Invariance, OneStory, PTL

(* No interleaving of Persist with a reset, a refund or a re-evaluation    *)
(* makes a student pay for a platform error.                               *)
THEOREM ErrorsAreFree == Spec => []VerdictDecidesCost
<1>1. IInv => VerdictDecidesCost
  BY DEF IInv, VerdictDecidesCost, SubmissionOK
<1> QED
  BY Invariance, <1>1, PTL

(* The leaderboard has a row exactly for the users with a scored           *)
(* submission, and the row is one of theirs.                               *)
THEOREM BoardIsScored == Spec => []BoardShowsScored
<1>1. IInv => BoardShowsScored
  BY DEF IInv
<1> QED
  BY Invariance, <1>1, PTL

(* Admissions, re-evaluations and administrators leave the submissions     *)
(* that exist as they are.                                                 *)
LEMMA OldRowsStay ==
  ASSUME IInv, Submit \/ Administer \/ Midnight \/ UNCHANGED vars,
         NEW s \in Ids, status[s] # "none"
  PROVE  verdict'[s] = verdict[s] /\ status'[s] = status[s]
<1>0. TypeOK
  BY DEF IInv
<1>1. ASSUME NEW D \in SUBSET Ids, NEW new \in [D -> Rows], NEW q, CreateRows(new, q),
             \A t \in D : status[t] = "none"
      PROVE  verdict'[s] = verdict[s] /\ status'[s] = status[s]
  <2>1. DOMAIN new = D /\ s \notin D
    BY <1>1
  <2> QED
    BY <1>1, <2>1 DEF CreateRows
<1>2. CASE Submit
  <2>1. PICK t \in Ids \ Reserved : Admit(t)
    BY <1>2 DEF Submit
  <2>2. PICK u \in Users, c \in Contents, created \in Days, window \in Days :
          AdmitDaily(t, u, c, created, window) \/ AdmitBonus(t, u, c, created, window)
    BY <2>1 DEF Admit
  <2> DEFINE new == [x \in {t} |-> Upload(u, c, created, window)]
  <2>3. /\ status[t] = "none"
        /\ CreateRows(new, "pending") \/ CreateRows(new, "bonus")
    BY <2>2 DEF AdmitDaily, AdmitBonus
  <2>4. new \in [{t} -> Rows]
    BY DEF Upload, Rows
  <2> HIDE DEF new
  <2> QED
    BY <1>1, <2>3, <2>4
<1>3. CASE Administer
  <2>1. CASE ReevaluateCommit
    <3> DEFINE new == [t \in Reserved |->
                         Upload(row[copyOf[t]].user, row[copyOf[t]].content, listDay, listDay)]
    <3>1. \A t \in Reserved : row[copyOf[t]] \in Rows /\ status[t] = "none" /\ t \in Ids
      BY <1>0 DEF IInv, Reserved, CopiesOK, SubmissionOK, TypeOK
    <3>2. new \in [Reserved -> Rows] /\ Reserved \in SUBSET Ids
      BY <1>0, <3>1 DEF TypeOK, Rows, Upload
    <3>3. CreateRows(new, "free")
      BY <2>1 DEF ReevaluateCommit
    <3> HIDE DEF new
    <3> QED
      BY <1>1, <3>1, <3>2, <3>3
  <2>2. CASE ReevaluateList \/ ReevaluateAbort \/ ResetBonusQuota
    BY <2>2 DEF ReevaluateList, ReevaluateAbort, ResetBonusQuota, SetBonus, tableVars, submissionVars
  <2>3. CASE \/ \E day \in Days : ResetLabQuota(day)
            \/ \E delta \in Deltas : AdjustBonusQuota(delta)
    BY <2>3 DEF ResetLabQuota, AdjustBonusQuota, SetBonus, submissionVars
  <2> QED
    BY <1>3, <2>1, <2>2, <2>3 DEF Administer, AdminNext
<1>4. CASE Midnight \/ UNCHANGED vars
  BY <1>4 DEF Midnight, Tick, vars, tableVars, submissionVars
<1> QED
  BY <1>2, <1>3, <1>4

(* One step leaves a persisted verdict and its status alone.               *)
LEMMA VerdictKept ==
  ASSUME IInv, [Next]_vars, NEW s \in Ids, verdict[s] # "null"
  PROVE  verdict'[s] = verdict[s] /\ status'[s] = status[s]
<1>0. SubmissionOK(s) /\ TypeOK /\ status[s] \in {"done", "error"}
  BY DEF IInv, SubmissionOK, TypeOK, TablesTypeOK
<1>1. CASE Submit \/ Administer \/ Midnight \/ UNCHANGED vars
  BY <1>0, <1>1, OldRowsStay
<1>2. ASSUME NEW w \in Workers, WorkerStep(w) \/ WorkerFault(w)
      PROVE  verdict'[s] = verdict[s] /\ status'[s] = status[s]
  <2>1. CASE MarkRunning(w) \/ Persist(w)
    <3>1. current[w] # s
      <4>1. phase[w] \in {"loaded", "evaluated"} /\ WorkerOK(w)
        BY <2>1 DEF MarkRunning, Persist, IInv
      <4> QED
        BY <1>0, <4>1 DEF WorkerOK
    <3> QED
      BY <1>0, <2>1, <3>1 DEF MarkRunning, Persist, TypeOK, TablesTypeOK
  <2>2. CASE \/ ClaimSelect(w) \/ ClaimCommit(w) \/ Load(w) \/ Acknowledge(w)
            \/ Die(w) \/ Restart(w) \/ \E readable \in BOOLEAN : Evaluate(w, readable)
    BY <2>2 DEF ClaimSelect, ClaimCommit, Load, Acknowledge, Die, Restart, Evaluate,
       tableVars, submissionVars
  <2> QED
    BY <1>2, <2>1, <2>2 DEF WorkerStep, WorkerFault
<1> QED
  BY <1>1, <1>2 DEF Next, SteadyNext

(* A persisted verdict is never replaced, although Persist, MarkRunning    *)
(* and UpdateSubmissionRunning do not look at what they overwrite.         *)
THEOREM VerdictsAreFinal == Spec => VerdictIsFinal
<1>1. IInv /\ [Next]_vars => KeepsVerdicts
  BY VerdictKept DEF KeepsVerdicts
<1> QED
  BY Invariance, <1>1, PTL DEF Spec, VerdictIsFinal

(* A submission is queued, then running, then settled, and no step takes   *)
(* it back: UpdateSubmissionRunning and UpdateSubmissionResult set the     *)
(* status without looking at it.                                           *)
LEMMA StatusForward ==
  ASSUME IInv, [Next]_vars, NEW s \in Ids, status[s] # "none"
  PROVE  \/ status'[s] = status[s]
         \/ status[s] = "queued" /\ status'[s] = "running"
         \/ status[s] = "running" /\ status'[s] \in {"done", "error"}
<1>0. TypeOK
  BY DEF IInv
<1>1. CASE Submit \/ Administer \/ Midnight \/ UNCHANGED vars
  BY <1>1, OldRowsStay
<1>2. ASSUME NEW w \in Workers, WorkerStep(w) \/ WorkerFault(w)
      PROVE  \/ status'[s] = status[s]
             \/ status[s] = "queued" /\ status'[s] = "running"
             \/ status[s] = "running" /\ status'[s] \in {"done", "error"}
  <2>0. WorkerOK(w) /\ status \in [Ids -> {"none", "queued", "running", "done", "error"}]
    BY <1>0 DEF IInv, TypeOK, TablesTypeOK
  <2>1. CASE MarkRunning(w)
    <3>1. status' = [status EXCEPT ![current[w]] = "running"] /\ phase[w] = "loaded"
      BY <2>1 DEF MarkRunning
    <3>2. status[current[w]] = "queued"
      BY <2>0, <3>1 DEF WorkerOK
    <3> QED
      BY <2>0, <3>1, <3>2
  <2>2. CASE Persist(w)
    <3>1. /\ phase[w] = "evaluated"
          /\ status' = [status EXCEPT ![current[w]] =
                          IF result[w] = "error" THEN "error" ELSE "done"]
      BY <2>2 DEF Persist
    <3>2. status[current[w]] = "running"
      BY <2>0, <3>1 DEF WorkerOK
    <3> QED
      BY <2>0, <3>1, <3>2
  <2>3. CASE \/ ClaimSelect(w) \/ ClaimCommit(w) \/ Load(w) \/ Acknowledge(w)
            \/ Die(w) \/ Restart(w) \/ \E readable \in BOOLEAN : Evaluate(w, readable)
    BY <2>3 DEF ClaimSelect, ClaimCommit, Load, Acknowledge, Die, Restart, Evaluate,
       tableVars, submissionVars
  <2> QED
    BY <1>2, <2>1, <2>2, <2>3 DEF WorkerStep, WorkerFault
<1> QED
  BY <1>1, <1>2 DEF Next, SteadyNext

-----------------------------------------------------------------------------
(* What the columns add up to: no bonus credit is lost or made, no day's   *)
(* quota is overdrawn, and a cost is settled once.                         *)
(*                                                                         *)
(* Persist decides from the quota_state a worker read in Load, while       *)
(* administrators' resets change the column meanwhile.  IInv says that a   *)
(* row loaded as free or bonus still is; the counts need the converse, and *)
(* that a row found in 'admin_reset' was put there by a reset.             *)

Evaluating == {"loaded", "running", "evaluated"}

(* A row that costs nothing or a credit is known as such to its worker.    *)
LoadedAsIs ==
  \A w \in Workers :
    phase[w] \in Evaluating /\ quotaState[current[w]] \in {"free", "bonus"}
      => snapshot[w] = quotaState[current[w]]

ResetsRecorded == \A s \in Ids : quotaState[s] = "admin_reset" => wasReset[s]

CInv ==
  /\ IInv
  /\ LoadedAsIs
  /\ ResetsRecorded
  /\ BonusConserved
  /\ DailyRespected
-----------------------------------------------------------------------------
(* What steps do to the columns that are counted.                          *)
counted == <<row, verdict, quotaState, wasReset, bonus, issued>>

(* Every step leaves them alone, or is one of these.                       *)
LEMMA Kinds ==
  ASSUME IInv, [Next]_vars
  PROVE  \/ UNCHANGED counted
         \/ \E s \in Ids, u \in Users, c \in Contents, created \in Days, window \in Days :
               AdmitDaily(s, u, c, created, window) \/ AdmitBonus(s, u, c, created, window)
         \/ \E day \in Days : ResetLabQuota(day)
         \/ \E new \in [Users -> Nat] : SetBonus(new)
         \/ ReevaluateCommit
         \/ \E w \in Workers : Persist(w)
<1> USE DEF counted
<1>1. CASE Submit
  BY <1>1 DEF Submit, Admit, Reserved
<1>2. CASE Administer
  <2>1. bonus \in [Users -> Nat]
    BY DEF IInv, TypeOK, TablesTypeOK
  <2>2. ASSUME NEW delta \in Deltas, AdjustBonusQuota(delta)
        PROVE  \E new \in [Users -> Nat] : SetBonus(new)
    <3> DEFINE new == [u \in Users |->
                         IF u \in Participants THEN AtLeastZero(bonus[u] + delta) ELSE bonus[u]]
    <3>1. new \in [Users -> Nat]
      BY <2>1, AdminAssumption DEF AtLeastZero
    <3>2. SetBonus(new)
      BY <2>2 DEF AdjustBonusQuota
    <3> QED
      BY <3>1, <3>2
  <2>3. CASE ResetBonusQuota
    <3>1. [u \in Users |-> 0] \in [Users -> Nat]
      OBVIOUS
    <3> QED
      BY <2>3, <3>1 DEF ResetBonusQuota
  <2>4. CASE ReevaluateList \/ ReevaluateAbort
    BY <2>4 DEF ReevaluateList, ReevaluateAbort, tableVars
  <2> QED
    BY <1>2, <2>2, <2>3, <2>4 DEF Administer, AdminNext
<1>3. CASE Midnight \/ UNCHANGED vars
  BY <1>3 DEF Midnight, Tick, vars, tableVars, submissionVars, historyVars
<1>4. ASSUME NEW w \in Workers, WorkerStep(w) \/ WorkerFault(w)
      PROVE  UNCHANGED counted \/ Persist(w)
  BY <1>4 DEF WorkerStep, WorkerFault, ClaimSelect, ClaimCommit, Load, MarkRunning, Evaluate,
     Acknowledge, Die, Restart, tableVars, submissionVars, historyVars
<1> QED
  BY <1>1, <1>2, <1>3, <1>4 DEF Next, SteadyNext

(* An admission writes one row that was free.                              *)
LEMMA AdmitWrites ==
  ASSUME IInv, NEW s \in Ids, NEW u \in Users, NEW c \in Contents,
         NEW created \in Days, NEW window \in Days,
         AdmitDaily(s, u, c, created, window) \/ AdmitBonus(s, u, c, created, window)
  PROVE  /\ row' = [row EXCEPT ![s] = Upload(u, c, created, window)]
         /\ \E q \in {"pending", "bonus"} : quotaState' = [quotaState EXCEPT ![s] = q]
         /\ AdmitDaily(s, u, c, created, window) =>
              quotaState' = [quotaState EXCEPT ![s] = "pending"] /\ UNCHANGED bonus
         /\ AdmitBonus(s, u, c, created, window) =>
              /\ quotaState' = [quotaState EXCEPT ![s] = "bonus"]
              /\ bonus[u] > 0 /\ bonus' = [bonus EXCEPT ![u] = @ - 1]
         /\ UNCHANGED <<verdict, wasReset, issued>>
         /\ quotaState[s] = "none"
<1>1. quotaState[s] = "none"
  BY DEF AdmitDaily, AdmitBonus, IInv, SubmissionOK
<1>2. ASSUME NEW q, CreateRows([t \in {s} |-> Upload(u, c, created, window)], q)
      PROVE  /\ row' = [row EXCEPT ![s] = Upload(u, c, created, window)]
             /\ quotaState' = [quotaState EXCEPT ![s] = q]
             /\ verdict' = verdict
  BY <1>2 DEF CreateRows, IInv, TypeOK, TablesTypeOK
<1> DEFINE written == row' = [row EXCEPT ![s] = Upload(u, c, created, window)]
<1>3. ASSUME AdmitDaily(s, u, c, created, window)
      PROVE  /\ written /\ UNCHANGED <<verdict, wasReset, issued>>
             /\ quotaState' = [quotaState EXCEPT ![s] = "pending"] /\ UNCHANGED bonus
  <2>1. CreateRows([t \in {s} |-> Upload(u, c, created, window)], "pending")
    BY <1>3 DEF AdmitDaily
  <2> QED
    BY <1>1, <1>2, <1>3, <2>1 DEF AdmitDaily, historyVars
<1>4. ASSUME AdmitBonus(s, u, c, created, window)
      PROVE  /\ written /\ UNCHANGED <<verdict, wasReset, issued>>
             /\ quotaState' = [quotaState EXCEPT ![s] = "bonus"]
             /\ bonus[u] > 0 /\ bonus' = [bonus EXCEPT ![u] = @ - 1]
  <2>1. CreateRows([t \in {s} |-> Upload(u, c, created, window)], "bonus")
    BY <1>4 DEF AdmitBonus
  <2> QED
    BY <1>1, <1>2, <1>4, <2>1 DEF AdmitBonus, historyVars
<1> QED
  BY <1>1, <1>3, <1>4

(* A re-evaluation writes rows that are free of charge.                    *)
LEMMA CopyWrites ==
  ASSUME IInv, ReevaluateCommit
  PROVE  /\ \A s \in Ids : \/ quotaState'[s] = quotaState[s] /\ row'[s] = row[s]
                           \/ quotaState[s] = "none" /\ quotaState'[s] = "free"
         /\ UNCHANGED <<verdict, wasReset, bonus, issued>>
<1>1. \A s \in Reserved : s \in Ids /\ status[s] = "none"
  BY DEF IInv, Reserved, CopiesOK
<1>2. \A s \in Reserved : quotaState[s] = "none"
  BY <1>1 DEF IInv, SubmissionOK
<1> DEFINE new == [s \in Reserved |->
                     Upload(row[copyOf[s]].user, row[copyOf[s]].content, listDay, listDay)]
<1>3. CreateRows(new, "free") /\ DOMAIN new = Reserved
  BY DEF ReevaluateCommit
<1> HIDE DEF new
<1>4. \A s \in Ids : /\ quotaState'[s] = IF s \in Reserved THEN "free" ELSE quotaState[s]
                     /\ row'[s] = IF s \in Reserved THEN new[s] ELSE row[s]
  BY <1>3 DEF CreateRows
<1>5. UNCHANGED <<verdict, wasReset, bonus, issued>>
  BY <1>3 DEF ReevaluateCommit, CreateRows, historyVars
<1> QED
  BY <1>2, <1>4, <1>5

(* What Persist writes, given what the worker may rely on.                 *)
LEMMA PersistWrites ==
  ASSUME IInv, LoadedAsIs, NEW w \in Workers, Persist(w), NEW s, s = current[w]
  PROVE  /\ s \in Ids /\ row[s] \in Rows
         /\ UNCHANGED <<row, wasReset, issued>>
         /\ verdict[s] = "null" /\ verdict'[s] # "null"
         /\ \A t \in Ids \ {s} : quotaState'[t] = quotaState[t] /\ verdict'[t] = verdict[t]
         /\ \/ quotaState[s] = "bonus" /\ quotaState'[s] = "bonus" /\ bonus' = bonus
            \/ /\ quotaState[s] = "bonus" /\ quotaState'[s] = "free"
               /\ bonus' = [bonus EXCEPT ![row[s].user] = @ + 1]
            \/ quotaState[s] = "free" /\ quotaState'[s] = "free" /\ bonus' = bonus
            \/ /\ quotaState[s] \in {"pending", "charged", "admin_reset"}
               /\ quotaState'[s] \in {"free", "charged"} /\ bonus' = bonus
<1>1. phase[w] = "evaluated" /\ result[w] # "null" /\ TypeOK
  BY DEF Persist, IInv, WorkerOK
<1>2. s \in Ids /\ SubmissionOK(s) /\ WorkerOK(w) /\ status[s] = "running"
  BY <1>1, Held DEF WorkerOK
<1>3. row[s] \in Rows /\ verdict[s] = "null" /\ quotaState[s] \in QuotaStates
  BY <1>1, <1>2 DEF SubmissionOK, TypeOK, TablesTypeOK
<1>4. /\ verdict' = [verdict EXCEPT ![s] = result[w]]
      /\ SettleQuota(w, s)
      /\ UNCHANGED <<row, wasReset, issued>>
  BY DEF Persist, historyVars
<1>5. /\ verdict'[s] # "null"
      /\ \A t \in Ids \ {s} : quotaState'[t] = quotaState[t] /\ verdict'[t] = verdict[t]
  BY <1>1, <1>2, <1>4 DEF SettleQuota, TypeOK, TablesTypeOK
<1>6. /\ snapshot[w] \in {"free", "bonus"} <=> quotaState[s] \in {"free", "bonus"}
      /\ snapshot[w] \in {"free", "bonus"} => quotaState[s] = snapshot[w]
  BY <1>1, <1>2 DEF WorkerOK, LoadedAsIs, Evaluating
<1>7. /\ Settlement(snapshot[w], result[w]) \in {"free", "bonus", "charged"}
      /\ snapshot[w] = "free" => Settlement(snapshot[w], result[w]) = "free"
      /\ Settlement(snapshot[w], result[w]) = "bonus" => snapshot[w] = "bonus"
      /\ Settlement(snapshot[w], result[w]) = "charged" => snapshot[w] # "bonus"
  BY DEF Settlement
<1>8. CASE Refunds(w)
  BY <1>1, <1>2, <1>3, <1>4, <1>5, <1>6, <1>8 DEF SettleQuota, Refunds, TypeOK, TablesTypeOK
<1>9. CASE ~Refunds(w)
  <2>1. /\ quotaState'[s] = Settlement(snapshot[w], result[w])
        /\ bonus' = bonus
    BY <1>1, <1>2, <1>4, <1>9 DEF SettleQuota, TypeOK, TablesTypeOK
  <2> QED
    BY <1>2, <1>3, <1>4, <1>5, <1>6, <1>7, <1>9, <2>1 DEF Refunds, QuotaStates, Counting
<1> QED
  BY <1>8, <1>9
-----------------------------------------------------------------------------
(* The worker's view and the resets.                                       *)
LEMMA LoadedKeeps ==
  ASSUME CInv, [Next]_vars
  PROVE  LoadedAsIs'
<1> USE DEF CInv
<1>0. TypeOK
  BY DEF IInv
<1> SUFFICES ASSUME NEW v \in Workers, phase'[v] \in Evaluating,
                    quotaState'[current'[v]] \in {"free", "bonus"}
             PROVE  snapshot'[v] = quotaState'[current'[v]]
  BY DEF LoadedAsIs
<1> DEFINE s == current[v]
(* A worker whose job is not written to and which does not move.           *)
<1>1. ASSUME phase'[v] = phase[v], current'[v] = s, snapshot'[v] = snapshot[v],
             quotaState'[s] \in {"free", "bonus"} => quotaState'[s] = quotaState[s]
      PROVE  snapshot'[v] = quotaState'[current'[v]]
  BY <1>1 DEF LoadedAsIs
<1>2. phase[v] \in Evaluating => s \in Ids /\ status[s] # "none" /\ SubmissionOK(s)
  BY Held DEF Evaluating
<1>4. CASE Submit
  <2>1. PICK t \in Ids, u \in Users, c \in Contents, created \in Days, window \in Days :
          AdmitDaily(t, u, c, created, window) \/ AdmitBonus(t, u, c, created, window)
    BY <1>4 DEF Submit, Admit, Reserved
  <2>2. PICK q \in {"pending", "bonus"} : quotaState' = [quotaState EXCEPT ![t] = q]
    BY <2>1, AdmitWrites
  <2>3. status[t] = "none"
    BY <2>1 DEF AdmitDaily, AdmitBonus
  <2>4. phase[v] \in Evaluating /\ UNCHANGED workerVars
    BY <1>4 DEF Submit, workerVars
  <2>5. quotaState'[s] = quotaState[s]
    BY <1>0, <1>2, <2>2, <2>3, <2>4 DEF TypeOK, TablesTypeOK
  <2> QED
    BY <1>1, <2>4, <2>5 DEF workerVars
<1>5. CASE Administer
  <2>1. UNCHANGED workerVars /\ phase[v] \in Evaluating
    BY <1>5 DEF Administer, workerVars
  <2>2. CASE ReevaluateCommit
    <3>1. quotaState'[s] = quotaState[s]
      BY <1>2, <2>1, <2>2, CopyWrites DEF SubmissionOK
    <3> QED
      BY <1>1, <2>1, <3>1 DEF workerVars
  <2>3. ASSUME NEW day \in Days, ResetLabQuota(day)
        PROVE  snapshot'[v] = quotaState'[current'[v]]
    <3>1. quotaState'[s] \in {"free", "bonus"} => quotaState'[s] = quotaState[s]
      BY <1>2, <2>1, <2>3 DEF ResetLabQuota
    <3> QED
      BY <1>1, <2>1, <3>1 DEF workerVars
  <2>4. CASE UNCHANGED quotaState
    BY <1>1, <2>1, <2>4 DEF workerVars
  <2>5. ReevaluateList \/ ReevaluateAbort \/ ResetBonusQuota
          \/ (\E delta \in Deltas : AdjustBonusQuota(delta)) => UNCHANGED quotaState
    BY DEF ReevaluateList, ReevaluateAbort, ResetBonusQuota, AdjustBonusQuota, SetBonus,
       tableVars, submissionVars
  <2> QED
    BY <1>5, <2>2, <2>3, <2>4, <2>5 DEF Administer, AdminNext
<1>6. CASE Midnight \/ UNCHANGED vars
  BY <1>1, <1>6 DEF Midnight, Tick, vars, tableVars, submissionVars, workerVars
<1>7. ASSUME NEW w \in Workers, WorkerStep(w) \/ WorkerFault(w)
      PROVE  snapshot'[v] = quotaState'[current'[v]]
  <2>1. CASE Persist(w)
    <3>1. v # w /\ phase'[v] = phase[v] /\ UNCHANGED <<current, snapshot>>
      BY <1>0, <2>1 DEF Persist, Goto, Evaluating, TypeOK, WorkerTypeOK
    <3>2. current[v] # current[w]
      BY <1>2, <3>1 DEF IInv, ClaimsApart, Ids
    <3>3. quotaState'[s] = quotaState[s]
      BY <1>2, <2>1, <3>1, <3>2, PersistWrites
    <3> QED
      BY <1>1, <3>1, <3>3
  <2>2. CASE Load(w)
    <3>1. CASE v = w
      BY <1>0, <2>2, <3>1 DEF Load, tableVars, TypeOK, WorkerTypeOK
    <3>2. CASE v # w
      BY <1>0, <1>1, <2>2, <3>2 DEF Load, Goto, tableVars, TypeOK, WorkerTypeOK
    <3> QED
      BY <3>1, <3>2
  <2>3. CASE MarkRunning(w) \/ \E readable \in BOOLEAN : Evaluate(w, readable)
    <3>1. /\ UNCHANGED <<quotaState, current, snapshot>>
          /\ phase[w] \in Evaluating
          /\ \A x \in Workers \ {w} : phase'[x] = phase[x]
      BY <1>0, <2>3 DEF MarkRunning, Evaluate, Goto, tableVars, Evaluating, TypeOK, WorkerTypeOK
    <3> QED
      BY <3>1 DEF LoadedAsIs
  <2>4. CASE \/ ClaimSelect(w) \/ ClaimCommit(w) \/ Acknowledge(w) \/ Die(w) \/ Restart(w)
    <3>1. v # w
      BY <1>0, <2>4 DEF ClaimSelect, ClaimCommit, Acknowledge, Die, Restart, Drop, Goto,
         Evaluating, TypeOK, WorkerTypeOK
    <3> QED
      BY <1>0, <1>1, <2>4, <3>1 DEF ClaimSelect, ClaimCommit, Acknowledge, Die, Restart, Drop,
         Goto, tableVars, submissionVars, TypeOK, WorkerTypeOK
  <2> QED
    BY <1>7, <2>1, <2>2, <2>3, <2>4 DEF WorkerStep, WorkerFault
<1> QED
  BY <1>4, <1>5, <1>6, <1>7 DEF Next, SteadyNext

LEMMA ResetsKeep ==
  ASSUME CInv, [Next]_vars
  PROVE  /\ ResetsRecorded'
         /\ \A s \in Ids : wasReset[s] => wasReset'[s]
<1> USE DEF CInv
<1>0. TypeOK
  BY DEF IInv
<1>1. CASE UNCHANGED counted
  BY <1>1 DEF counted, ResetsRecorded
<1>2. ASSUME NEW s \in Ids, NEW u \in Users, NEW c \in Contents,
             NEW created \in Days, NEW window \in Days,
             AdmitDaily(s, u, c, created, window) \/ AdmitBonus(s, u, c, created, window)
      PROVE  ResetsRecorded' /\ wasReset' = wasReset
  <2>1. /\ \E q \in {"pending", "bonus"} : quotaState' = [quotaState EXCEPT ![s] = q]
        /\ wasReset' = wasReset
    BY <1>2, AdmitWrites
  <2> QED
    BY <1>0, <2>1 DEF ResetsRecorded, TypeOK, TablesTypeOK
<1>3. ASSUME NEW day \in Days, ResetLabQuota(day)
      PROVE  ResetsRecorded' /\ \A s \in Ids : wasReset[s] => wasReset'[s]
  BY <1>3 DEF ResetLabQuota, ResetsRecorded
<1>4. ASSUME NEW new \in [Users -> Nat], SetBonus(new)
      PROVE  UNCHANGED <<quotaState, wasReset>>
  BY <1>4 DEF SetBonus, submissionVars
<1>5. CASE ReevaluateCommit
  <2>1. /\ \A s \in Ids : quotaState'[s] = quotaState[s] \/ quotaState'[s] = "free"
        /\ wasReset' = wasReset
    BY <1>5, CopyWrites
  <2> QED
    BY <2>1 DEF ResetsRecorded
<1>6. ASSUME NEW w \in Workers, Persist(w)
      PROVE  ResetsRecorded' /\ wasReset' = wasReset
  <2>1. /\ \A t \in Ids : quotaState'[t] = quotaState[t] \/ quotaState'[t] # "admin_reset"
        /\ wasReset' = wasReset
    BY <1>6, PersistWrites
  <2> QED
    BY <2>1 DEF ResetsRecorded
<1> QED
  BY <1>1, <1>2, <1>3, <1>4, <1>5, <1>6, Kinds DEF ResetsRecorded
-----------------------------------------------------------------------------
(* Counting.                                                               *)
BonusRows(u) == {s \in Ids : quotaState[s] = "bonus" /\ row[s].user = u}

LEMMA Finite ==
  ASSUME NEW S \in SUBSET Ids
  PROVE  IsFiniteSet(S) /\ Cardinality(S) \in Nat
<1>1. IsFiniteSet(Ids)
  BY TablesAssumption, FS_Interval DEF Ids
<1> QED
  BY <1>1, FS_Subset, FS_CardinalityType

(* Each credit that leaves the bonus row goes to one bonus submission, and *)
(* comes back from one.                                                    *)
LEMMA BonusKeeps ==
  ASSUME CInv, [Next]_vars
  PROVE  BonusConserved'
<1> USE DEF CInv
<1>0. TypeOK
  BY DEF IInv
<1> SUFFICES ASSUME NEW u \in Users
             PROVE  issued'[u] = bonus'[u] + Cardinality(BonusRows(u)')
  BY DEF BonusConserved, BonusRows
<1>1. issued[u] = bonus[u] + Cardinality(BonusRows(u))
  BY DEF BonusConserved, BonusRows
<1>2. /\ IsFiniteSet(BonusRows(u)) /\ Cardinality(BonusRows(u)) \in Nat
      /\ bonus[u] \in Nat /\ issued[u] \in Int
  BY <1>0, Finite DEF BonusRows, TypeOK, TablesTypeOK
<1>3. CASE UNCHANGED counted
  BY <1>1, <1>3 DEF counted, BonusRows
<1>4. ASSUME NEW s \in Ids, NEW x \in Users, NEW c \in Contents,
             NEW created \in Days, NEW window \in Days,
             AdmitDaily(s, x, c, created, window)
      PROVE  issued'[u] = bonus'[u] + Cardinality(BonusRows(u)')
  <2>1. /\ row' = [row EXCEPT ![s] = Upload(x, c, created, window)]
        /\ quotaState' = [quotaState EXCEPT ![s] = "pending"]
        /\ quotaState[s] = "none" /\ UNCHANGED <<bonus, issued>>
    BY <1>4, AdmitWrites
  <2>2. BonusRows(u)' = BonusRows(u)
    BY <1>0, <2>1 DEF BonusRows, TypeOK, TablesTypeOK
  <2> QED
    BY <1>1, <2>1, <2>2
<1>5. ASSUME NEW s \in Ids, NEW x \in Users, NEW c \in Contents,
             NEW created \in Days, NEW window \in Days,
             AdmitBonus(s, x, c, created, window)
      PROVE  issued'[u] = bonus'[u] + Cardinality(BonusRows(u)')
  <2>1. /\ row' = [row EXCEPT ![s] = Upload(x, c, created, window)]
        /\ quotaState' = [quotaState EXCEPT ![s] = "bonus"]
        /\ quotaState[s] = "none" /\ issued' = issued
        /\ bonus' = [bonus EXCEPT ![x] = @ - 1]
    BY <1>5, AdmitWrites
  <2>2. CASE x = u
    <3>1. BonusRows(u)' = BonusRows(u) \cup {s} /\ s \notin BonusRows(u)
      BY <1>0, <2>1, <2>2 DEF BonusRows, TypeOK, TablesTypeOK, Upload
    <3>2. Cardinality(BonusRows(u)') = Cardinality(BonusRows(u)) + 1
      BY <1>2, <3>1, FS_AddElement
    <3>3. bonus'[u] = bonus[u] - 1
      BY <1>0, <2>1, <2>2 DEF TypeOK, TablesTypeOK
    <3> QED
      BY <1>1, <1>2, <2>1, <3>2, <3>3
  <2>3. CASE x # u
    <3>1. BonusRows(u)' = BonusRows(u) /\ bonus'[u] = bonus[u]
      BY <1>0, <2>1, <2>3 DEF BonusRows, TypeOK, TablesTypeOK, Upload
    <3> QED
      BY <1>1, <2>1, <3>1
  <2> QED
    BY <2>2, <2>3
<1>6. ASSUME NEW day \in Days, ResetLabQuota(day)
      PROVE  issued'[u] = bonus'[u] + Cardinality(BonusRows(u)')
  <2>1. BonusRows(u)' = BonusRows(u) /\ UNCHANGED <<bonus, issued>>
    BY <1>6 DEF ResetLabQuota, Resettable, Counting, BonusRows
  <2> QED
    BY <1>1, <2>1
<1>7. ASSUME NEW new \in [Users -> Nat], SetBonus(new)
      PROVE  issued'[u] = bonus'[u] + Cardinality(BonusRows(u)')
  <2>1. /\ BonusRows(u)' = BonusRows(u)
        /\ bonus'[u] = new[u] /\ issued'[u] = issued[u] + new[u] - bonus[u]
    BY <1>7 DEF SetBonus, submissionVars, BonusRows
  <2> QED
    BY <1>1, <1>2, <2>1
<1>8. CASE ReevaluateCommit
  <2>1. BonusRows(u)' = BonusRows(u) /\ UNCHANGED <<bonus, issued>>
    BY <1>8, CopyWrites DEF BonusRows
  <2> QED
    BY <1>1, <2>1
<1>9. ASSUME NEW w \in Workers, Persist(w)
      PROVE  issued'[u] = bonus'[u] + Cardinality(BonusRows(u)')
  <2> DEFINE s == current[w]
  <2> HIDE DEF s
  <2>1. /\ s \in Ids /\ row[s] \in Rows /\ UNCHANGED <<row, issued>>
        /\ \A t \in Ids \ {s} : quotaState'[t] = quotaState[t]
        /\ \/ quotaState[s] = "bonus" /\ quotaState'[s] = "bonus" /\ bonus' = bonus
           \/ /\ quotaState[s] = "bonus" /\ quotaState'[s] = "free"
              /\ bonus' = [bonus EXCEPT ![row[s].user] = @ + 1]
           \/ quotaState[s] # "bonus" /\ quotaState'[s] # "bonus" /\ bonus' = bonus
    BY <1>9, PersistWrites DEF s
  <2>2. CASE (quotaState'[s] = quotaState[s] /\ bonus' = bonus) \/ quotaState[s] # "bonus"
    <3>1. BonusRows(u)' = BonusRows(u) /\ UNCHANGED <<bonus, issued>>
      BY <2>1, <2>2 DEF BonusRows
    <3> QED
      BY <1>1, <3>1
  <2>3. CASE quotaState[s] = "bonus" /\ quotaState'[s] # "bonus"
    <3>1. bonus' = [bonus EXCEPT ![row[s].user] = @ + 1]
      BY <2>1, <2>3
    <3>2. CASE row[s].user = u
      <4>1. BonusRows(u)' = BonusRows(u) \ {s} /\ s \in BonusRows(u)
        BY <2>1, <2>3, <3>2 DEF BonusRows
      <4>2. Cardinality(BonusRows(u)') = Cardinality(BonusRows(u)) - 1
        BY <1>2, <4>1, FS_RemoveElement
      <4>3. bonus'[u] = bonus[u] + 1
        BY <1>0, <3>1, <3>2 DEF TypeOK, TablesTypeOK
      <4> QED
        BY <1>1, <1>2, <2>1, <4>2, <4>3
    <3>3. CASE row[s].user # u
      <4>1. BonusRows(u)' = BonusRows(u) /\ bonus'[u] = bonus[u]
        BY <1>0, <2>1, <2>3, <3>1, <3>3 DEF BonusRows, TypeOK, TablesTypeOK
      <4> QED
        BY <1>1, <2>1, <4>1
    <3> QED
      BY <3>2, <3>3
  <2> QED
    BY <2>1, <2>2, <2>3
<1> QED
  BY <1>3, <1>4, <1>5, <1>6, <1>7, <1>8, <1>9, Kinds

(* Only an admission under WithinDaily adds to what a day has paid for.    *)
LEMMA PaidGrows ==
  ASSUME CInv, [Next]_vars, NEW u \in Users, NEW d \in Days,
         NEW s \in Paid(u, d)', s \notin Paid(u, d)
  PROVE  /\ quotaState[s] = "none" /\ quotaState'[s] = "pending"
         /\ \E x \in Users, c \in Contents, created \in Days, window \in Days :
              AdmitDaily(s, x, c, created, window)
<1> USE DEF CInv
<1>0. TypeOK /\ s \in Ids
  BY DEF IInv, Paid, QuotaUsage
<1>1. ~UNCHANGED counted
  BY DEF counted, Paid, QuotaUsage
<1>2. ASSUME NEW t \in Ids, NEW x \in Users, NEW c \in Contents,
             NEW created \in Days, NEW window \in Days,
             AdmitDaily(t, x, c, created, window)
      PROVE  s = t /\ quotaState[s] = "none" /\ quotaState'[s] = "pending"
  <2>1. /\ row' = [row EXCEPT ![t] = Upload(x, c, created, window)]
        /\ quotaState' = [quotaState EXCEPT ![t] = "pending"]
        /\ wasReset' = wasReset /\ quotaState[t] = "none"
    BY <1>2, AdmitWrites
  <2> QED
    BY <1>0, <2>1 DEF Paid, QuotaUsage, TypeOK, TablesTypeOK
<1>3. ASSUME NEW t \in Ids, NEW x \in Users, NEW c \in Contents,
             NEW created \in Days, NEW window \in Days,
             AdmitBonus(t, x, c, created, window)
      PROVE  FALSE
  <2>1. /\ row' = [row EXCEPT ![t] = Upload(x, c, created, window)]
        /\ quotaState' = [quotaState EXCEPT ![t] = "bonus"]
        /\ wasReset' = wasReset
    BY <1>3, AdmitWrites
  <2> QED
    BY <1>0, <2>1 DEF Paid, QuotaUsage, Counting, TypeOK, TablesTypeOK
<1>4. ASSUME NEW day \in Days, ResetLabQuota(day)
      PROVE  FALSE
  BY <1>4 DEF ResetLabQuota, Counting, Paid, QuotaUsage
<1>5. ASSUME NEW new \in [Users -> Nat], SetBonus(new)
      PROVE  FALSE
  BY <1>5 DEF SetBonus, submissionVars, Paid, QuotaUsage
<1>6. CASE ReevaluateCommit
  BY <1>0, <1>6, CopyWrites DEF Paid, QuotaUsage, Counting
<1>7. ASSUME NEW w \in Workers, Persist(w)
      PROVE  FALSE
  <2> DEFINE t == current[w]
  <2> HIDE DEF t
  <2>1. /\ t \in Ids /\ UNCHANGED <<row, wasReset>>
        /\ \A x \in Ids \ {t} : quotaState'[x] = quotaState[x]
        /\ quotaState'[t] \in Counting =>
             quotaState[t] \in Counting \/ quotaState[t] = "admin_reset"
    BY <1>7, PersistWrites DEF t, Counting
  <2>2. quotaState[t] = "admin_reset" => wasReset[t]
    BY <2>1 DEF ResetsRecorded
  <2> QED
    BY <2>1, <2>2 DEF Paid, QuotaUsage
<1> QED
  BY <1>1, <1>2, <1>3, <1>4, <1>5, <1>6, <1>7, Kinds

LEMMA DailyKeeps ==
  ASSUME CInv, [Next]_vars
  PROVE  DailyRespected'
<1> USE DEF CInv
<1> SUFFICES ASSUME NEW u \in Users, NEW d \in Days
             PROVE  Cardinality(Paid(u, d)') <= Daily
  BY DEF DailyRespected
<1>0. TypeOK
  BY DEF IInv
<1>1. /\ Cardinality(Paid(u, d)) <= Daily
      /\ IsFiniteSet(Paid(u, d)) /\ Cardinality(Paid(u, d)) \in Nat /\ Daily \in Nat
  BY Finite, TablesAssumption DEF DailyRespected, Paid, QuotaUsage
<1>2. CASE Paid(u, d)' \subseteq Paid(u, d)
  <2>1. /\ Cardinality(Paid(u, d)') <= Cardinality(Paid(u, d))
        /\ Cardinality(Paid(u, d)') \in Nat
    BY <1>1, <1>2, FS_Subset, FS_CardinalityType
  <2> QED
    BY <1>1, <2>1
<1>3. ASSUME NEW s \in Paid(u, d)', s \notin Paid(u, d)
      PROVE  Cardinality(Paid(u, d)') <= Daily
  <2>1. PICK x \in Users, c \in Contents, created \in Days, window \in Days :
          AdmitDaily(s, x, c, created, window)
    BY <1>3, PaidGrows
  <2>2. s \in Ids
    BY DEF Paid, QuotaUsage
  <2>3. /\ row' = [row EXCEPT ![s] = Upload(x, c, created, window)]
        /\ quotaState' = [quotaState EXCEPT ![s] = "pending"]
        /\ wasReset' = wasReset
    BY <2>1, <2>2, AdmitWrites
  <2>4. x = u /\ window = d
    BY <1>0, <2>2, <2>3 DEF Paid, QuotaUsage, Upload, TypeOK, TablesTypeOK
  <2>5. Paid(u, d)' \subseteq Paid(u, d) \cup {s}
    BY <1>0, <2>3 DEF Paid, QuotaUsage, TypeOK, TablesTypeOK
  <2>6. /\ Cardinality(Paid(u, d) \cup {s}) = Cardinality(Paid(u, d)) + 1
        /\ IsFiniteSet(Paid(u, d) \cup {s})
    BY <1>1, <1>3, FS_AddElement
  <2>7. /\ Cardinality(Paid(u, d)') <= Cardinality(Paid(u, d) \cup {s})
        /\ Cardinality(Paid(u, d)') \in Nat
    BY <2>5, <2>6, FS_Subset, FS_CardinalityType
  <2>8. Cardinality(Paid(u, d)) < Daily
    BY <2>1, <2>4 DEF AdmitDaily, WithinDaily
  <2> QED
    BY <1>1, <2>6, <2>7, <2>8
<1> QED
  BY <1>2, <1>3

LEMMA CInit == Init => CInv
<1> SUFFICES ASSUME Init PROVE CInv
  OBVIOUS
<1> USE DEF Init, TablesInit, AdminInit, WorkerInit
<1>1. IInv
  BY InitKeeps
<1>2. LoadedAsIs /\ ResetsRecorded
  BY DEF LoadedAsIs, ResetsRecorded, Evaluating
<1>3. ASSUME NEW u \in Users, NEW d \in Days
      PROVE  Paid(u, d) = {} /\ BonusRows(u) = {}
  BY DEF Paid, QuotaUsage, BonusRows, Counting
<1>4. BonusConserved
  BY <1>3, FS_EmptySet, TablesAssumption DEF BonusConserved, BonusRows, Days
<1>5. DailyRespected
  BY <1>3, FS_EmptySet, TablesAssumption DEF DailyRespected
<1> QED
  BY <1>1, <1>2, <1>4, <1>5 DEF CInv

LEMMA CKeeps == CInv /\ [Next]_vars => CInv'
<1>1. CInv /\ [Next]_vars => IInv'
  BY NextKeeps DEF CInv
<1> QED
  BY <1>1, LoadedKeeps, ResetsKeep, BonusKeeps, DailyKeeps DEF CInv

(* The counts hold together in every reachable state of every deployment.  *)
THEOREM CountsInvariance == Spec => []CInv
  BY CInit, CKeeps, PTL DEF Spec

(* Whatever order intake, refunds, settlements, grants and revocations     *)
(* come in, no bonus credit is lost and none is made.                      *)
THEOREM CreditsConserved == Spec => []BonusConserved
<1>1. CInv => BonusConserved
  BY DEF CInv
<1> QED
  BY CountsInvariance, <1>1, PTL

(* No day is overdrawn: not by a settlement from a stale quota_state, not  *)
(* by a re-evaluation, not by a request that began on another day.         *)
THEOREM DaysNotOverdrawn == Spec => []DailyRespected
<1>1. CInv => DailyRespected
  BY DEF CInv
<1> QED
  BY CountsInvariance, <1>1, PTL

(* A submission is settled when its verdict is written and never again;    *)
(* what Persist read before a reset does not settle it twice.              *)
LEMMA SettledOnce ==
  ASSUME CInv, [Next]_vars, NEW s \in Ids, quotaState'[s] # quotaState[s]
  PROVE  \/ quotaState[s] = "none"
         \/ quotaState[s] \in Counting /\ quotaState'[s] = "admin_reset"
         \/ verdict[s] = "null" /\ verdict'[s] # "null"
<1> USE DEF CInv
<1>0. TypeOK
  BY DEF IInv
<1>1. ~UNCHANGED counted
  BY DEF counted
<1>2. ASSUME NEW t \in Ids, NEW u \in Users, NEW c \in Contents,
             NEW created \in Days, NEW window \in Days,
             AdmitDaily(t, u, c, created, window) \/ AdmitBonus(t, u, c, created, window)
      PROVE  quotaState[s] = "none"
  <2>1. quotaState[t] = "none" /\ \E q : quotaState' = [quotaState EXCEPT ![t] = q]
    BY <1>2, AdmitWrites
  <2> QED
    BY <1>0, <2>1 DEF TypeOK, TablesTypeOK
<1>3. ASSUME NEW day \in Days, ResetLabQuota(day)
      PROVE  quotaState[s] \in Counting /\ quotaState'[s] = "admin_reset"
  BY <1>3 DEF ResetLabQuota, Resettable
<1>4. ASSUME NEW new \in [Users -> Nat], SetBonus(new)
      PROVE  FALSE
  BY <1>4 DEF SetBonus, submissionVars
<1>5. CASE ReevaluateCommit
  BY <1>5, CopyWrites
<1>6. ASSUME NEW w \in Workers, Persist(w)
      PROVE  verdict[s] = "null" /\ verdict'[s] # "null"
  BY <1>6, PersistWrites
<1> QED
  BY <1>1, <1>2, <1>3, <1>4, <1>5, <1>6, Kinds

(* UpdateSubmissionResult overwrites quota_state unconditionally; it does  *)
(* so once, with the verdict.                                              *)
THEOREM CostsAreSettledOnce == Spec => CostIsSettledOnce
<1>1. CInv /\ [Next]_vars =>
        \A s \in Ids : quotaState'[s] # quotaState[s] =>
          \/ quotaState[s] = "none"
          \/ quotaState[s] \in Counting /\ quotaState'[s] = "admin_reset"
          \/ verdict[s] = "null" /\ verdict'[s] # "null"
  BY SettledOnce
<1> QED
  BY CountsInvariance, <1>1, PTL DEF Spec, CostIsSettledOnce
=============================================================================
