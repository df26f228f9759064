------------------------------- MODULE Intake -------------------------------
(***************************************************************************)
(* Service.Intake (apps/api/internal/service/submissions/service.go), the  *)
(* statements of one POST after the checks that touch nothing: one         *)
(* database transaction interleaved with a file written to a directory     *)
(* that the database knows nothing of (internal/storage/artifacts.go).     *)
(* Go runs the deferred calls last in, first out: a request that fails     *)
(* rolls its transaction back first and deletes its file afterwards.       *)
(***************************************************************************)
EXTENDS Tables

CONSTANTS
  Requests,  \* requests the API handles at a time
  Nonces     \* nonces signed into requests; a replayed request repeats one

VARIABLES
  req,       \* where each request is, and what it carries
  artifact,  \* the file of a user's upload: the key is made of the user and
             \* the content, so equal uploads of one user share a file
  usedNonces \* used_nonces

intakeVars == <<req, artifact, usedNonces>>

Idle == [pc |-> "idle", user |-> NoRow, content |-> NoRow, nonce |-> NoRow,
         id |-> 0, created |-> 0, window |-> 0, pays |-> "pending"]

(* The pcs at which the request's transaction is open.                     *)
Open    == {"begun", "windowed", "full", "admitted", "saving", "unlinked", "saved", "reserved"}
Locking == Open \ {"begun", "windowed"}

IntakeInit ==
  /\ req = [r \in Requests |-> Idle]
  /\ artifact = [u \in Users |-> [c \in Contents |-> "absent"]]
  /\ usedNonces = {}

IntakeTypeOK ==
  /\ req \in [Requests -> {Idle} \cup
       [pc: Open \cup {"undoing"}, user: Users, content: Contents, nonce: Nonces,
        id: Ids, created: Days, window: Days, pays: {"pending", "bonus"}]]
  /\ artifact \in [Users -> [Contents -> {"absent", "torn", "whole"}]]
  /\ usedNonces \subseteq Nonces

InFlight == {req[r].id : r \in {q \in Requests : req[q].pc \in Open}}

(* pg_advisory_xact_lock on (user, lab, day), held to the end of the       *)
(* transaction.                                                            *)
NoQuotaLock(u, d) == TRUE   \* mutation: no advisory lock
QuotaLockSession(u, d) ==     \* mutation: a session's lock, which commits do not release
  /\ \A q \in Requests : ~(req[q].pc \in Locking /\ req[q].user = u /\ req[q].window = d)
  /\ \A s \in Committed : ~(row[s].user = u /\ row[s].window = d)
QuotaLockFree(u, d) ==
  \A q \in Requests : ~(req[q].pc \in Locking /\ req[q].user = u /\ req[q].window = d)

(* The row of user_lab_bonus_quota is locked by the transaction that has   *)
(* consumed a credit; whoever else updates the row waits.                  *)
NoBonusLock(u) == TRUE   \* mutation: read, then write, without a lock
BonusFree(u) ==
  \A q \in Requests : ~(req[q].pc \in Open /\ req[q].user = u /\ req[q].pays = "bonus")

Goes(r, pc)   == req' = [req EXCEPT ![r].pc = pc]
Ends(r)       == req' = [req EXCEPT ![r] = Idle]
File(r)       == artifact[req[r].user][req[r].content]
Write(r, new) == artifact' = [artifact EXCEPT ![req[r].user][req[r].content] = new]

(* BeginTx.  The next id goes to the transaction that begins next.         *)
Begin(r, taken) ==
  /\ req[r].pc = "idle"
  /\ \E s \in Ids, u \in Users, c \in Contents, n \in Nonces :
       /\ \A t \in taken : t < s
       /\ s = 1 \/ s - 1 \in taken
       /\ req' = [req EXCEPT ![r] =
            [pc |-> "begun", user |-> u, content |-> c, nonce |-> n,
             id |-> s, created |-> today, window |-> 0, pays |-> "pending"]]
  /\ UNCHANGED <<tableVars, artifact, usedNonces>>

(* quotaWindowForTime reads the clock again.                               *)
ReadWindow(r) ==
  /\ req[r].pc = "begun"
  /\ req' = [req EXCEPT ![r].window = today, ![r].pc = "windowed"]
  /\ UNCHANGED <<tableVars, artifact, usedNonces>>

(* LockSubmissionQuota and checkDailyQuota.                                *)
CheckQuota(r) ==
  /\ req[r].pc = "windowed"
  /\ QuotaLockFree(req[r].user, req[r].window)
  /\ Goes(r, IF Cardinality(QuotaUsage(req[r].user, req[r].window)) >= Daily
             THEN "full" ELSE "admitted")
  /\ UNCHANGED <<tableVars, artifact, usedNonces>>

HasCredit(u) == bonus[u] > 0

(* ConsumeBonusQuota; without a credit the request is refused.  The row    *)
(* keeps its committed value until the transaction commits.                *)
ConsumeBonus(r) ==
  /\ req[r].pc = "full"
  /\ BonusFree(req[r].user)
  /\ IF HasCredit(req[r].user)
     THEN req' = [req EXCEPT ![r].pays = "bonus", ![r].pc = "admitted"]
     ELSE Ends(r)
  /\ UNCHANGED <<tableVars, artifact, usedNonces>>

(* artifacts.Save: os.WriteFile truncates the file, then writes it.        *)
SaveTruncate(r) ==
  /\ req[r].pc = "admitted"
  /\ Write(r, "torn")
  /\ Goes(r, "saving")
  /\ UNCHANGED <<tableVars, usedNonces>>

(* What is written to a file that was removed meanwhile is gone.           *)
SaveWrite(r) ==
  /\ req[r].pc \in {"saving", "unlinked"}
  /\ Write(r, IF req[r].pc = "saving" THEN "whole" ELSE File(r))
  /\ Goes(r, "saved")
  /\ UNCHANGED <<tableVars, usedNonces>>

NeverReplayed(r) == FALSE   \* mutation: the affected-rows count is ignored
Replayed(r) == req[r].nonce \in usedNonces

(* ReserveNonce waits for another transaction inserting the same nonce.    *)
(* The deferred rollback of a replay runs before its deferred Delete.      *)
ReserveNonce(r) ==
  /\ req[r].pc = "saved"
  /\ \A q \in Requests : ~(req[q].pc = "reserved" /\ req[q].nonce = req[r].nonce)
  /\ Goes(r, IF Replayed(r) THEN "undoing" ELSE "reserved")
  /\ UNCHANGED <<tableVars, artifact, usedNonces>>

(* The database side of Commit, after CreateSubmission or                  *)
(* CreateBonusSubmission and CreateEvaluationJob.                          *)
CommitRows(r) ==
  LET me == req[r]
  IN  /\ me.pc = "reserved"
      /\ CreateRows([s \in {me.id} |-> Upload(me.user, me.content, me.created, me.window)],
                    me.pays)
      /\ bonus' = IF me.pays = "bonus" THEN [bonus EXCEPT ![me.user] = @ - 1] ELSE bonus
      /\ usedNonces' = usedNonces \cup {me.nonce}
      /\ UNCHANGED <<board, today, historyVars, artifact>>

Commit(r) == CommitRows(r) /\ Ends(r)

(* The deferred Delete of a saved artifact.                                *)
DeleteArtifact(r) ==
  LET sameFile(q) == req[q].user = req[r].user /\ req[q].content = req[r].content
  IN  /\ req[r].pc = "undoing"
      /\ Write(r, "absent")
      /\ req' = [q \in Requests |->
           IF q = r THEN Idle
           ELSE IF req[q].pc = "saving" /\ sameFile(q)
                THEN [req[q] EXCEPT !.pc = "unlinked"]
                ELSE req[q]]
      /\ UNCHANGED <<tableVars, usedNonces>>

RequestStep(r, taken) ==
  \/ Begin(r, taken)
  \/ ReadWindow(r)
  \/ CheckQuota(r)
  \/ ConsumeBonus(r)
  \/ SaveTruncate(r)
  \/ SaveWrite(r)
  \/ ReserveNonce(r)
  \/ Commit(r)
  \/ DeleteArtifact(r)

(* A statement fails or the client goes away (every call takes the         *)
(* request's context): rollback, then Delete if Save had succeeded.  A     *)
(* Save that failed leaves what it wrote.                                  *)
Abort(r) ==
  /\ req[r].pc \in Open
  /\ IF req[r].pc \in {"saved", "reserved"} THEN Goes(r, "undoing") ELSE Ends(r)
  /\ UNCHANGED <<tableVars, artifact, usedNonces>>

(* The server commits but Commit returns an error.                         *)
CommitLost(r) == CommitRows(r) /\ Goes(r, "undoing")

(* The API process dies: the database rolls back, nobody deletes.          *)
ApiCrash ==
  /\ req' = [r \in Requests |-> Idle]
  /\ UNCHANGED <<tableVars, artifact, usedNonces>>
=============================================================================
