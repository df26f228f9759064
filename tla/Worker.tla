------------------------------- MODULE Worker -------------------------------
(***************************************************************************)
(* labkit-worker: the polling loop (apps/worker/internal/runtime/loop.go), *)
(* jobs.Queue.Claim and Acknowledge (packages/go/jobs), and the handler    *)
(* with its MarkRunning and Persist (cmd/labkit-worker/runtime_handler.go, *)
(* internal/service/evaluation/service.go).  A worker handles one job at a *)
(* time.  Any error the handler returns ends Loop.Run and with it the      *)
(* process; the container is then restarted (restart: unless-stopped).     *)
(***************************************************************************)
EXTENDS Tables

CONSTANT Workers   \* worker processes, each with its own worker id

ASSUME WorkerAssumption == NoWorker \notin Workers

VARIABLES
  phase,     \* how far a worker is with its job
  current,   \* the job it claimed, 0 if none
  snapshot,  \* quota_state in the submission it loaded
  result     \* verdict of the evaluation

workerVars == <<phase, current, snapshot, result>>

Phases == {"idle", "claiming", "claimed", "loaded", "running", "evaluated",
           "persisted", "down"}

WorkerInit ==
  /\ phase = [w \in Workers |-> "idle"]
  /\ current = [w \in Workers |-> 0]
  /\ snapshot = [w \in Workers |-> "none"]
  /\ result = [w \in Workers |-> "null"]

WorkerTypeOK ==
  /\ phase \in [Workers -> Phases]
  /\ current \in [Workers -> Ids \cup {0}]
  /\ snapshot \in [Workers -> QuotaStates \cup {"none"}]
  /\ result \in [Workers -> Verdicts \cup {"null"}]

Goto(w, p) == phase' = [phase EXCEPT ![w] = p]

(* The worker forgets its job: Handle returned, or the process died.       *)
Drop(w, p) ==
  /\ Goto(w, p)
  /\ current' = [current EXCEPT ![w] = 0]
  /\ snapshot' = [snapshot EXCEPT ![w] = "none"]
  /\ result' = [result EXCEPT ![w] = "null"]

(* FOR UPDATE: the rows that other claim transactions hold.                *)
NoClaimLocks == {}   \* mutation: the SELECT takes no row lock
ClaimLocked == {current[w] : w \in {v \in Workers : phase[v] = "claiming"}}

(* Claim, first statement: the oldest queued job that nobody is claiming   *)
(* (ORDER BY available_at, created_at ... SKIP LOCKED).                    *)
ClaimSelect(w) ==
  LET waiting == {s \in Ids : job[s] = "queued"} \ ClaimLocked
  IN  /\ phase[w] = "idle"
      /\ \E s \in waiting :
           /\ \A t \in waiting : s <= t
           /\ current' = [current EXCEPT ![w] = s]
      /\ Goto(w, "claiming")
      /\ UNCHANGED <<tableVars, snapshot, result>>

(* Claim, second statement and commit: MarkEvaluationJobRunning does not   *)
(* look at the status again.                                               *)
ClaimCommit(w) ==
  LET s == current[w]
  IN  /\ phase[w] = "claiming"
      /\ job' = [job EXCEPT ![s] = "running"]
      /\ workerId' = [workerId EXCEPT ![s] = w]
      /\ attempts' = [attempts EXCEPT ![s] = @ + 1]
      /\ Goto(w, "claimed")
      /\ UNCHANGED <<submissionVars, bonus, board, today, historyVars,
                     current, snapshot, result>>

(* loadSubmission.                                                         *)
Load(w) ==
  /\ phase[w] = "claimed"
  /\ snapshot' = [snapshot EXCEPT ![w] = quotaState[current[w]]]
  /\ Goto(w, "loaded")
  /\ UNCHANGED <<tableVars, current, result>>

(* UpdateSubmissionRunning is unconditional.                               *)
MarkRunning(w) ==
  /\ phase[w] = "loaded"
  /\ status' = [status EXCEPT ![current[w]] = "running"]
  /\ Goto(w, "running")
  /\ UNCHANGED <<row, verdict, quotaState, jobVars, bonus, board, today, historyVars,
                 current, snapshot, result>>

(* evaluate: an artifact that cannot be read or extracted, a failing       *)
(* container, a timeout and malformed output all become VerdictError.      *)
Evaluate(w, readable) ==
  /\ phase[w] = "running"
  /\ \E v \in Verdicts :
       /\ readable \/ v = "error"
       /\ result' = [result EXCEPT ![w] = v]
  /\ Goto(w, "evaluated")
  /\ UNCHANGED <<tableVars, current, snapshot>>

(* quotaStateFor.                                                          *)
QuotaStateByManifest(v) ==   \* mutation: a platform error is not special
  IF v \in FreeVerdicts THEN "free" ELSE "charged"
QuotaStateFor(v) == IF v \in FreeVerdicts \cup {"error"} THEN "free" ELSE "charged"

(* The state Persist writes, from the loaded submission's quota state.     *)
SettlementByVerdict(loaded, v) ==   \* mutation: a free submission is charged
  IF QuotaStateFor(v) = "free" THEN "free"
  ELSE IF loaded = "bonus" THEN "bonus"
  ELSE "charged"
Settlement(loaded, v) ==
  IF loaded = "free" \/ QuotaStateFor(v) = "free" THEN "free"
  ELSE IF loaded = "bonus" THEN "bonus"
  ELSE "charged"

(* RefundBonusSubmission only acts on a row that is still 'bonus'.         *)
NeverRefunds(w) == FALSE   \* mutation: quota_state is set free, no refund
Refunds(w) ==
  /\ snapshot[w] = "bonus"
  /\ Settlement(snapshot[w], result[w]) = "free"

SettleQuota(w, s) ==
  IF Refunds(w)
  THEN IF quotaState[s] = "bonus"
       THEN /\ quotaState' = [quotaState EXCEPT ![s] = "free"]
            /\ bonus' = [bonus EXCEPT ![row[s].user] = @ + 1]
       ELSE UNCHANGED <<quotaState, bonus>>
  ELSE /\ quotaState' = [quotaState EXCEPT ![s] = Settlement(snapshot[w], result[w])]
       /\ UNCHANGED bonus

(* refreshLeaderboard: the entry of the user always moves to this          *)
(* submission.                                                             *)
RefreshOnAnyVerdict(v, s) ==   \* mutation: not only when scored
  board' = [board EXCEPT ![row[s].user] = s]
RefreshLeaderboard(v, s) ==
  board' = IF v = "scored" THEN [board EXCEPT ![row[s].user] = s] ELSE board

(* Persist, one transaction.                                               *)
Persist(w) ==
  LET s == current[w]
      v == result[w]
  IN  /\ phase[w] = "evaluated"
      /\ status' = [status EXCEPT ![s] = IF v = "error" THEN "error" ELSE "done"]
      /\ verdict' = [verdict EXCEPT ![s] = v]
      /\ SettleQuota(w, s)
      /\ RefreshLeaderboard(v, s)
      /\ Goto(w, "persisted")
      /\ UNCHANGED <<row, jobVars, today, historyVars, current, snapshot, result>>

(* The terminal status Handle acknowledges with.                           *)
AlwaysDone(v) == "done"   \* mutation: an error is acknowledged as done
JobStatusFor(v) == IF v = "error" THEN "error" ELSE "done"

(* MarkEvaluationJobDone matches the status and the worker id.             *)
OwnsQueued(w, s) == job[s] = "queued" /\ workerId[s] = w   \* mutation: wrong status
OwnsRunning(w, s) == job[s] = "running" /\ workerId[s] = w

(* Acknowledge: when no row matches, the worker's process ends.            *)
Acknowledge(w) ==
  LET s == current[w]
  IN  /\ phase[w] = "persisted"
      /\ IF OwnsRunning(w, s)
         THEN /\ job' = [job EXCEPT ![s] = JobStatusFor(result[w])]
              /\ Drop(w, "idle")
         ELSE UNCHANGED job /\ Drop(w, "down")
      /\ UNCHANGED <<submissionVars, workerId, attempts, bonus, board, today, historyVars>>

(* The process ends with a job in hand or without: a crash, SIGTERM, or an *)
(* error from Claim, loadSubmission, MarkRunning, Persist or Acknowledge.  *)
(* An open transaction is rolled back; nothing puts a claimed job back.    *)
Die(w) ==
  /\ phase[w] # "down"
  /\ Drop(w, "down")
  /\ UNCHANGED tableVars

Restart(w) ==
  /\ phase[w] = "down"
  /\ Goto(w, "idle")
  /\ UNCHANGED <<tableVars, current, snapshot, result>>
=============================================================================
