------------------------------- MODULE Tables -------------------------------
(***************************************************************************)
(* The PostgreSQL rows of one lab that the API and the workers share:      *)
(* submissions, evaluation_jobs, user_lab_bonus_quota and leaderboard      *)
(* (db/migrations).  Quota, bonus and leaderboard rows are keyed by        *)
(* (user_id, lab_id), so the labs do not interact through them and one lab *)
(* is enough.  A transaction is one step of the model at its commit; what  *)
(* a transaction holds before it commits (row locks, advisory locks) is    *)
(* kept by the component that runs it.                                     *)
(*                                                                         *)
(* A submission is identified by the position of its transaction in the    *)
(* order of transaction starts, because created_at and available_at both   *)
(* default to NOW(), the start of the inserting transaction.               *)
(* evaluation_jobs.submission_id is UNIQUE, so a job has the identity of   *)
(* its submission.                                                         *)
(***************************************************************************)
EXTENDS Integers, FiniteSets

CONSTANTS
  Users,         \* users.id of the students of the lab
  Contents,      \* distinct uploads; a user's upload fixes its artifact key
  MaxTx,         \* bound: transactions that insert a submission
  LastDay,       \* bound: days the clock may reach
  Daily,         \* manifest quota.daily
  FreeVerdicts,  \* manifest quota.free
  NoRow,         \* an id that has no submissions row
  NoWorker       \* worker_id IS NULL

Ids  == 1 .. MaxTx
Days == 0 .. LastDay

Verdicts    == {"scored", "build_failed", "rejected", "error"}
Counting    == {"pending", "charged"}
QuotaStates == Counting \cup {"free", "bonus", "admin_reset"}

(* `window` is the day whose quota the row was admitted against; the       *)
(* column does not exist, the properties need it.                          *)
Rows == [user: Users, content: Contents, created: Days, window: Days]

ASSUME TablesAssumption ==
  /\ MaxTx \in Nat \ {0}
  /\ LastDay \in Nat
  /\ Daily \in Nat \ {0}
  /\ FreeVerdicts \subseteq {"build_failed", "rejected"}
  /\ NoRow \notin Rows

VARIABLES
  row,         \* user, artifact and created_at of a submission
  status,      \* submissions.status
  verdict,     \* submissions.verdict
  quotaState,  \* submissions.quota_state
  job,         \* evaluation_jobs.status
  workerId,    \* evaluation_jobs.worker_id
  attempts,    \* evaluation_jobs.attempts
  bonus,       \* user_lab_bonus_quota.remaining, 0 when there is no row
  board,       \* leaderboard.submission_id, 0 when there is no row
  today,       \* the day on the one host clock of the deployment
  wasReset,    \* history: rows an administrator's quota reset has hit
  issued       \* history: bonus credits granted minus credits revoked

submissionVars == <<row, status, verdict, quotaState>>
jobVars        == <<job, workerId, attempts>>
historyVars    == <<wasReset, issued>>
tableVars      == <<row, status, verdict, quotaState, job, workerId, attempts,
                    bonus, board, today, wasReset, issued>>

Committed == {s \in Ids : status[s] # "none"}

(* CountSubmissionQuotaUsage.                                              *)
QuotaUsage(u, d) ==
  {s \in Ids : /\ quotaState[s] \in Counting
               /\ row[s].user = u
               /\ row[s].created = d}

(* Of those, the ones whose own day was the day checked, resets aside.     *)
Paid(u, d) == {s \in QuotaUsage(u, d) : row[s].window = d /\ ~wasReset[s]}

(* Transactions that began later do not have an earlier day.               *)
InOrder(s, created) ==
  /\ created <= today
  /\ \A t \in Committed : /\ t < s => row[t].created <= created
                          /\ t > s => created <= row[t].created

(* SELECT DISTINCT user_id FROM submissions WHERE lab_id = $1.             *)
Participants == {row[s].user : s \in Committed}

(* The row of an upload.  The day of created_at is the day the transaction *)
(* began; the day whose quota was checked is read from the API clock       *)
(* afterwards, so it is the same day or a later one.                       *)
Upload(u, c, created, window) ==
  [user |-> u, content |-> c, created |-> created, window |-> window]

(* CreateSubmission, CreateBonusSubmission or CreateFreeSubmission, each   *)
(* followed by CreateEvaluationJob in the same transaction: `new` maps the *)
(* inserted ids to their rows, q is the quota state they are inserted in.  *)
CreateRows(new, q) ==
  LET added(f, value) == [s \in Ids |-> IF s \in DOMAIN new THEN value ELSE f[s]]
  IN  /\ row' = [s \in Ids |-> IF s \in DOMAIN new THEN new[s] ELSE row[s]]
      /\ status' = added(status, "queued")
      /\ quotaState' = added(quotaState, q)
      /\ job' = added(job, "queued")
      /\ UNCHANGED <<verdict, workerId, attempts>>

(* Midnight in the quota time zone.                                        *)
Tick ==
  /\ today < LastDay
  /\ today' = today + 1
  /\ UNCHANGED <<submissionVars, jobVars, bonus, board, historyVars>>

TablesInit ==
  /\ row = [s \in Ids |-> NoRow]
  /\ status = [s \in Ids |-> "none"]
  /\ verdict = [s \in Ids |-> "null"]
  /\ quotaState = [s \in Ids |-> "none"]
  /\ job = [s \in Ids |-> "none"]
  /\ workerId = [s \in Ids |-> NoWorker]
  /\ attempts = [s \in Ids |-> 0]
  /\ bonus = [u \in Users |-> 0]
  /\ board = [u \in Users |-> 0]
  /\ today = 0
  /\ wasReset = [s \in Ids |-> FALSE]
  /\ issued = [u \in Users |-> 0]

TablesTypeOK(Workers) ==
  /\ row \in [Ids -> Rows \cup {NoRow}]
  /\ status \in [Ids -> {"none", "queued", "running", "done", "error"}]
  /\ verdict \in [Ids -> Verdicts \cup {"null"}]
  /\ quotaState \in [Ids -> QuotaStates \cup {"none"}]
  /\ job \in [Ids -> {"none", "queued", "running", "done", "error"}]
  /\ workerId \in [Ids -> Workers \cup {NoWorker}]
  /\ attempts \in [Ids -> Nat]
  /\ bonus \in [Users -> Nat]
  /\ board \in [Users -> Ids \cup {0}]
  /\ today \in Days
  /\ wasReset \in [Ids -> BOOLEAN]
  /\ issued \in [Users -> Int]
=============================================================================
