------------------------------- MODULE LabKit -------------------------------
(***************************************************************************)
(* The API's intake requests and administrator operations and the workers, *)
(* on one database and one artifact directory.  It implements Pipeline,    *)
(* where intake is one step.                                               *)
(***************************************************************************)
EXTENDS Intake, Admin, Worker

vars == <<tableVars, adminVars, workerVars, intakeVars>>

Init == TablesInit /\ AdminInit /\ WorkerInit /\ IntakeInit

Taken == Committed \cup InFlight \cup Reserved

Handle(r) == RequestStep(r, Taken) /\ UNCHANGED <<adminVars, workerVars>>

(* Statements that update bonus rows wait for the requests that hold them; *)
(* a re-evaluation begins after the transactions that are open.            *)
Administer ==
  /\ AdminNext
  /\ bonus' # bonus => \A u \in Users : BonusFree(u)
  /\ \A s \in Ids : copyOf[s] = 0 /\ copyOf'[s] # 0 => \A t \in InFlight : t < s
  /\ UNCHANGED <<workerVars, intakeVars>>

Midnight == Tick /\ UNCHANGED <<adminVars, workerVars, intakeVars>>

(* The artifact the worker reads is the file of its submission.            *)
Readable(s) == artifact[row[s].user][row[s].content] = "whole"

WorkerStep(w) ==
  /\ \/ ClaimSelect(w)
     \/ ClaimCommit(w)
     \/ Load(w)
     \/ MarkRunning(w)
     \/ current[w] # 0 /\ Evaluate(w, Readable(current[w]))
     \/ Persist(w)
     \/ Acknowledge(w)
  /\ bonus' # bonus => BonusFree(row[current[w]].user)
  /\ UNCHANGED <<adminVars, intakeVars>>

(* Nothing fails: requests are refused only for quota or a replay.         *)
SmoothNext ==
  \/ \E r \in Requests : Handle(r)
  \/ Administer
  \/ Midnight
  \/ \E w \in Workers : WorkerStep(w)

Faults ==
  \/ (\E r \in Requests : Abort(r) \/ CommitLost(r)) /\ UNCHANGED <<adminVars, workerVars>>
  \/ ApiCrash /\ copyOf' = [s \in Ids |-> 0] /\ listDay' = 0 /\ UNCHANGED workerVars
  \/ (\E w \in Workers : Die(w) \/ Restart(w)) /\ UNCHANGED <<adminVars, intakeVars>>

Next == SmoothNext \/ Faults

Spec       == Init /\ [][Next]_vars
SmoothSpec == Init /\ [][SmoothNext]_vars

-----------------------------------------------------------------------------
(* Every variable has its type.                                            *)
TypeOK ==
  /\ TablesTypeOK(Workers)
  /\ copyOf \in [Ids -> Ids \cup {0}]
  /\ listDay \in Days
  /\ WorkerTypeOK
  /\ IntakeTypeOK

(* A signed request takes effect at most once, however often it is sent:   *)
(* a commit that admits an upload uses up a nonce no commit had used, even *)
(* though the nonce is looked up long after the quota was counted and the  *)
(* file written, and other requests commit in between.                     *)
NonceUsedOnce ==
  [][\A s \in Ids : status[s] = "none" /\ quotaState'[s] \in {"pending", "bonus"} =>
       usedNonces' # usedNonces]_vars

(* Requests that hold a bonus credit have one to spend: consuming locks    *)
(* the row, so no reset, revocation or other request takes it from them.   *)
CreditHeld ==
  /\ TypeOK
  /\ \A u \in Users :
       Cardinality({r \in Requests : /\ req[r].pc \in Open
                                     /\ req[r].user = u
                                     /\ req[r].pays = "bonus"}) <= bonus[u]

(* Seen from the database, intake is the single step of Admission: all the *)
(* interleavings of its statements, its waits, failures and retries with   *)
(* workers and administrators are behaviours of Pipeline.                  *)
P == INSTANCE Pipeline
ImplementsPipeline == P!Spec

(* Every request is answered: no two of them, with the locks they take,    *)
(* wait on each other for ever.                                            *)
RequestsAnswered == \A r \in Requests : req[r].pc # "idle" ~> req[r].pc = "idle"

-----------------------------------------------------------------------------
(* Archiving before queueing "ensures that submissions are persisted": a   *)
(* submission that still awaits its verdict has its file.                  *)
ArtifactKept ==
  \A s \in Committed : verdict[s] = "null" =>
    artifact[row[s].user][row[s].content] # "absent"
=============================================================================
