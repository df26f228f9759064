------------------------------ MODULE Admission ------------------------------
(***************************************************************************)
(* What submission intake promises, with Service.Intake                    *)
(* (apps/api/internal/service/submissions/service.go) as a single step: a  *)
(* submission is either admitted whole, against one unit of a day's quota  *)
(* or against one bonus credit, or leaves no trace in the database.        *)
(***************************************************************************)
EXTENDS Tables

(* What the count under the advisory lock is still good for when the       *)
(* transaction commits: rows checked against another day and rows a reset  *)
(* has hit may have come into the count meanwhile.                         *)
WithinDaily(u, window) == Cardinality(Paid(u, window)) < Daily

(* The daily path: CreateSubmission with the default quota_state.          *)
AdmitDaily(s, u, c, created, window) ==
  /\ status[s] = "none"
  /\ created <= window /\ window <= today /\ InOrder(s, created)
  /\ WithinDaily(u, window)
  /\ CreateRows([t \in {s} |-> Upload(u, c, created, window)], "pending")
  /\ UNCHANGED <<bonus, board, today, historyVars>>

(* The bonus path: ConsumeBonusQuota and CreateBonusSubmission.  The day   *)
(* was full when the request was counted; a refund, a free verdict or a    *)
(* reset may have made room before it commits.                             *)
AdmitBonus(s, u, c, created, window) ==
  /\ status[s] = "none"
  /\ created <= window /\ window <= today /\ InOrder(s, created)
  /\ bonus[u] > 0
  /\ bonus' = [bonus EXCEPT ![u] = @ - 1]
  /\ CreateRows([t \in {s} |-> Upload(u, c, created, window)], "bonus")
  /\ UNCHANGED <<board, today, historyVars>>

Admit(s) ==
  \E u \in Users, c \in Contents, created \in Days, window \in Days :
    AdmitDaily(s, u, c, created, window) \/ AdmitBonus(s, u, c, created, window)
=============================================================================
