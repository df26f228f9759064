-------------------------------- MODULE Admin --------------------------------
(***************************************************************************)
(* The administrator's operations that change a lab's submissions, bonus   *)
(* rows or jobs: apps/api/internal/service/admin/service.go.               *)
(***************************************************************************)
EXTENDS Tables

CONSTANTS
  Deltas,    \* the amounts an administrator adds to everybody's bonus
  MaxBonus   \* bound: bonus credits of one user

ASSUME AdminAssumption ==
  /\ Deltas \subseteq Int \ {0}
  /\ MaxBonus \in Nat

VARIABLES
  copyOf,  \* the open Reevaluate transaction: copyOf[s] = t when it is about
           \* to insert s as a fresh copy of t, 0 for every other id
  listDay  \* the day that transaction began

adminVars == <<copyOf, listDay>>

AdminInit == copyOf = [s \in Ids |-> 0] /\ listDay = 0

Reserved == {s \in Ids : copyOf[s] # 0}

(* What AdminResetLabQuotaToday matches.                                   *)
ResettableWhateverState(s, windowStart) ==   \* mutation: no filter on quota_state
  quotaState[s] # "none" /\ row[s].created >= windowStart
Resettable(s, windowStart) ==
  quotaState[s] \in Counting /\ row[s].created >= windowStart

(* ResetLabQuota.  The start of the window is computed before the UPDATE   *)
(* runs, so a reset issued just before midnight still names the old day.   *)
ResetLabQuota(windowStart) ==
  LET hit == {s \in Ids : Resettable(s, windowStart)}
  IN  /\ windowStart \in {today - 1, today}
      /\ quotaState' = [s \in Ids |-> IF s \in hit THEN "admin_reset" ELSE quotaState[s]]
      /\ wasReset' = [s \in Ids |-> s \in hit \/ wasReset[s]]
      /\ UNCHANGED <<row, status, verdict, jobVars, bonus, board, today, issued, adminVars>>

(* The effect of one statement on user_lab_bonus_quota; `issued` records   *)
(* what it granted or revoked.                                             *)
SetBonus(new) ==
  /\ bonus' = new
  /\ issued' = [u \in Users |-> issued[u] + new[u] - bonus[u]]
  /\ UNCHANGED <<submissionVars, jobVars, board, today, wasReset, adminVars>>

(* GREATEST(0, n).                                                         *)
AtLeastZero(n) == IF n > 0 THEN n ELSE 0

(* AdjustBonusQuota: every participant, never below zero.                  *)
AdjustBonusQuota(delta) ==
  /\ \A u \in Participants : bonus[u] + delta <= MaxBonus
  /\ SetBonus([u \in Users |->
       IF u \in Participants THEN AtLeastZero(bonus[u] + delta) ELSE bonus[u]])

ResetBonusQuota == SetBonus([u \in Users |-> 0])

(* Reevaluate: the transaction lists the leaderboard and reads each listed *)
(* submission.  Its copies will be younger than anything committed yet ... *)
ReevaluateList ==
  LET listed == {board[u] : u \in Users} \ {0}
      fresh  == {s \in Ids : \A t \in Committed : t < s}
  IN  /\ Reserved = {}
      /\ listed # {}
      /\ copyOf' \in [Ids -> listed \cup {0}]
      /\ \A s \in Ids \ fresh : copyOf'[s] = 0
      /\ \A t \in listed : \E s \in fresh : copyOf'[s] = t
      /\ \A s, t \in fresh : copyOf'[s] = copyOf'[t] /\ copyOf'[s] # 0 => s = t
      /\ listDay' = today
      /\ UNCHANGED tableVars

ReevaluateEnd ==
  /\ Reserved # {}
  /\ copyOf' = [s \in Ids |-> 0]
  /\ listDay' = 0

(* ... and inserts a copy of each, which no quota pays for, when it        *)
(* commits.                                                                *)
ReevaluateCommit ==
  /\ ReevaluateEnd
  /\ CreateRows([s \in Reserved |->
       Upload(row[copyOf[s]].user, row[copyOf[s]].content, listDay, listDay)], "free")
  /\ UNCHANGED <<bonus, board, today, historyVars>>

(* A read or an insert fails, or the API dies: nothing was written.        *)
ReevaluateAbort == ReevaluateEnd /\ UNCHANGED tableVars

AdminNext ==
  \/ \E day \in Days : ResetLabQuota(day)
  \/ \E delta \in Deltas : AdjustBonusQuota(delta)
  \/ ResetBonusQuota
  \/ ReevaluateList
  \/ ReevaluateCommit
  \/ ReevaluateAbort
=============================================================================
