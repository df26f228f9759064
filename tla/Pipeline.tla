------------------------------ MODULE Pipeline ------------------------------
(***************************************************************************)
(* A submission's life from admission to leaderboard: students submit,     *)
(* workers evaluate and settle, administrators reset quotas, hand out      *)
(* bonus credits and order re-evaluations, all on the same rows.  Intake   *)
(* is the single step of Admission; LabKit puts the steps of Intake in its *)
(* place.                                                                  *)
(***************************************************************************)
EXTENDS Admission, Admin, Worker

vars == <<tableVars, adminVars, workerVars>>

Init == TablesInit /\ AdminInit /\ WorkerInit

(* The ids of a running Reevaluate are taken.                              *)
Submit ==
  /\ \E s \in Ids \ Reserved : Admit(s)
  /\ UNCHANGED <<adminVars, workerVars>>

Administer == AdminNext /\ UNCHANGED workerVars

Midnight == Tick /\ UNCHANGED <<adminVars, workerVars>>

(* The statements of one worker, in the order Loop.Run and Handle run      *)
(* them.  Whether the uploaded file is readable is Intake's business.      *)
WorkerStep(w) ==
  /\ \/ ClaimSelect(w)
     \/ ClaimCommit(w)
     \/ Load(w)
     \/ MarkRunning(w)
     \/ \E readable \in BOOLEAN : Evaluate(w, readable)
     \/ Persist(w)
     \/ Acknowledge(w)
  /\ UNCHANGED adminVars

WorkerFault(w) == (Die(w) \/ Restart(w)) /\ UNCHANGED adminVars

(* A deployment whose workers stay up.                                     *)
SteadyNext ==
  \/ Submit
  \/ Administer
  \/ Midnight
  \/ \E w \in Workers : WorkerStep(w)

Next == SteadyNext \/ \E w \in Workers : WorkerFault(w)

Spec == Init /\ [][Next]_vars

(* Loop.Run never stops polling and every statement of the handler is      *)
(* bounded: docker runs under the manifest's timeout.                      *)
WorkersRun == \A w \in Workers : WF_vars(WorkerStep(w))

(* Workers may die, and compose restarts them.                             *)
FaultySpec ==
  /\ Spec
  /\ WorkersRun
  /\ \A w \in Workers : WF_vars(Restart(w) /\ UNCHANGED adminVars)

-----------------------------------------------------------------------------
(* Every variable has its type.                                            *)
TypeOK ==
  /\ TablesTypeOK(Workers)
  /\ copyOf \in [Ids -> Ids \cup {0}]
  /\ listDay \in Days
  /\ WorkerTypeOK

Holding == {"claimed", "loaded", "running", "evaluated", "persisted"}

(* A job is handed out at most once, to one worker: Claim's row lock and   *)
(* SKIP LOCKED keep two workers off the same job, and the worker that      *)
(* claimed a job is the one that can acknowledge it (worker_id).           *)
ClaimedOnce ==
  /\ \A s \in Ids : attempts[s] <= 1
  /\ \A w \in Workers : phase[w] \in Holding =>
       job[current[w]] = "running" /\ workerId[current[w]] = w
  /\ \A v, w \in Workers : v # w /\ current[v] = current[w] => current[v] = 0

(* Persist and Acknowledge are two transactions on two tables, yet the     *)
(* job, the submission and the verdict tell one story: a finished job has  *)
(* a settled submission with the matching verdict, and a submission that   *)
(* was not claimed yet has no verdict.                                     *)
JobTellsVerdict ==
  \A s \in Ids :
    /\ job[s] = "none" <=> status[s] = "none"
    /\ job[s] = "queued" => status[s] = "queued" /\ verdict[s] = "null"
    /\ job[s] = "done" => status[s] = "done" /\ verdict[s] \in Verdicts \ {"error"}
    /\ job[s] = "error" => status[s] = "error" /\ verdict[s] = "error"
    /\ verdict[s] # "null" <=> status[s] \in {"done", "error"}

(* A platform error is never the student's cost: whatever was loaded,      *)
(* reset or refunded meanwhile, a submission that ended in "error" counts  *)
(* against no day and holds no bonus credit.  A submission that still      *)
(* counts as pending has no verdict yet, and one that is charged has a     *)
(* verdict the manifest charges for.                                       *)
VerdictDecidesCost ==
  \A s \in Ids :
    /\ verdict[s] = "error" => quotaState[s] = "free"
    /\ quotaState[s] = "pending" => verdict[s] = "null"
    /\ quotaState[s] = "charged" => verdict[s] \notin {"null", "error"} \cup FreeVerdicts

(* A leaderboard row shows a scored submission of that user, and every     *)
(* user with a scored submission has a row: scores and leaderboard move in *)
(* Persist's transaction.                                                  *)
BoardShowsScored ==
  /\ \A u \in Users : board[u] # 0 =>
       verdict[board[u]] = "scored" /\ row[board[u]].user = u
  /\ \A s \in Ids : verdict[s] = "scored" => board[row[s].user] # 0

(* Every bonus credit that was granted and not revoked is either left to   *)
(* spend or spent on one submission: intake that fails gives the credit    *)
(* back, a free verdict refunds it once.                                   *)
BonusConserved ==
  \A u \in Users :
    issued[u] = bonus[u] + Cardinality({s \in Ids : quotaState[s] = "bonus" /\ row[s].user = u})

(* No day's quota is overdrawn: of the submissions admitted on the day     *)
(* they began, at most Daily count against it, administrator's resets      *)
(* aside.                                                                  *)
DailyRespected ==
  \A u \in Users, d \in Days :
    Cardinality(Paid(u, d)) <= Daily

(* A persisted verdict and its status stay as they are.                    *)
KeepsVerdicts ==
  \A s \in Ids : verdict[s] # "null" =>
    /\ verdict'[s] = verdict[s]
    /\ status'[s] = status[s]

(* A verdict, once persisted, is never replaced: UpdateSubmissionRunning   *)
(* and UpdateSubmissionResult are unconditional, so this rests on Claim.   *)
VerdictIsFinal == [][KeepsVerdicts]_vars

(* After settlement only an administrator's reset changes what a           *)
(* submission costs, and a free one stays free.                            *)
CostIsSettledOnce ==
  [][\A s \in Ids : quotaState'[s] # quotaState[s] =>
       \/ quotaState[s] = "none"
       \/ quotaState[s] \in Counting /\ quotaState'[s] = "admin_reset"
       \/ verdict[s] = "null" /\ verdict'[s] # "null"]_vars

(* While workers stay up, every admitted submission is evaluated and its   *)
(* job acknowledged.                                                       *)
EverySubmissionSettles ==
  \A s \in Ids : job[s] = "queued" ~> job[s] \in {"done", "error"}

-----------------------------------------------------------------------------
(* "Support crash recovery and retries": however often workers die before  *)
(* they come up for good, every admitted submission is evaluated.          *)
JobsSurviveCrashes ==
  <>[](\A w \in Workers : phase[w] # "down") => EverySubmissionSettles

(* "The leaderboard always uses the latest `verdict = scored` submission". *)
BoardShowsLatest ==
  \A s \in Ids : verdict[s] = "scored" => board[row[s].user] >= s

-----------------------------------------------------------------------------
(* The inductive invariant: what the tables say of a submission, what a    *)
(* worker may rely on while it holds one, and what an open Reevaluate      *)
(* transaction has reserved.                                               *)
SubmissionOK(s) ==
  /\ status[s] = "none" <=> job[s] = "none"
  /\ status[s] = "none" <=> quotaState[s] = "none"
  /\ status[s] # "none" => row[s] \in Rows
  /\ job[s] \in {"none", "queued"} => attempts[s] = 0 /\ verdict[s] = "null"
  /\ job[s] \notin {"none", "queued"} => attempts[s] = 1
  /\ job[s] = "queued" => status[s] = "queued"
  /\ job[s] = "done" => status[s] = "done"
  /\ job[s] = "error" => status[s] = "error"
  /\ status[s] = "error" <=> verdict[s] = "error"
  /\ status[s] = "done" <=> verdict[s] \in Verdicts \ {"error"}
  /\ verdict[s] = "null" => quotaState[s] # "charged"
  /\ verdict[s] # "null" => quotaState[s] # "pending"
  /\ verdict[s] = "error" => quotaState[s] = "free"
  /\ quotaState[s] = "charged" => verdict[s] \notin FreeVerdicts

WorkerOK(w) ==
  /\ phase[w] \in {"idle", "down"} <=> current[w] = 0
  /\ phase[w] = "claiming" => job[current[w]] = "queued"
  /\ phase[w] \in Holding => job[current[w]] = "running" /\ workerId[current[w]] = w
  /\ phase[w] \in {"claimed", "loaded"} => status[current[w]] = "queued"
  /\ phase[w] \in {"running", "evaluated"} => status[current[w]] = "running"
  /\ phase[w] = "evaluated" => result[w] # "null"
  /\ phase[w] = "persisted" => result[w] # "null" /\ verdict[current[w]] = result[w]
  /\ phase[w] \in {"loaded", "running", "evaluated"} =>
       /\ snapshot[w] # "none"
       /\ snapshot[w] \in {"free", "bonus"} => quotaState[current[w]] = snapshot[w]

ClaimsApart ==
  \A v, w \in Workers : v # w /\ current[v] = current[w] => current[v] = 0

CopiesOK ==
  \A s \in Ids : copyOf[s] # 0 => status[s] = "none" /\ status[copyOf[s]] # "none"

IInv ==
  /\ TypeOK
  /\ \A s \in Ids : SubmissionOK(s)
  /\ \A w \in Workers : WorkerOK(w)
  /\ ClaimsApart
  /\ BoardShowsScored
  /\ CopiesOK
=============================================================================
