------------------------------ MODULE Judging ------------------------------
(***************************************************************************)
(* What evaluation promises of each submission, whatever happens between:  *)
(* it is taken once, and then it gets one verdict, or it is given up       *)
(* without any.                                                            *)
(***************************************************************************)
CONSTANTS Submissions, Permitted, NoVerdict

VARIABLES state, verdict

vars == <<state, verdict>>

Init ==
  /\ state = [s \in Submissions |-> "waiting"]
  /\ verdict = [s \in Submissions |-> NoVerdict]

Take(s) ==
  /\ state[s] = "waiting"
  /\ state' = [state EXCEPT ![s] = "taken"]
  /\ UNCHANGED verdict

Judge(s) ==
  /\ state[s] = "taken"
  /\ state' = [state EXCEPT ![s] = "judged"]
  /\ \E v \in Permitted : verdict' = [verdict EXCEPT ![s] = v]

GiveUp(s) ==
  /\ state[s] = "taken"
  /\ state' = [state EXCEPT ![s] = "abandoned"]
  /\ UNCHANGED verdict

Next == \E s \in Submissions : Take(s) \/ Judge(s) \/ GiveUp(s)

(* What has been taken does not stay without an end.                       *)
Spec ==
  /\ Init /\ [][Next]_vars
  /\ \A s \in Submissions : WF_vars(Judge(s) \/ GiveUp(s))
=============================================================================
