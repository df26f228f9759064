------------------------------- MODULE Course -------------------------------
(***************************************************************************)
(* Instructors who register and update a lab while its students pick       *)
(* tracks and upload, and workers evaluate what they uploaded: what the    *)
(* parts rely on is that the structure of a lab never changes.             *)
(***************************************************************************)
EXTENDS Evaluation

vars == <<now, registryVars, studentVars, evaluationVars>>

Init == RegistryInit /\ EvaluationInit

Next ==
  \/ RegistryNext /\ UNCHANGED evaluationVars
  \/ EvaluationNext /\ UNCHANGED <<now, registryVars, studentVars>>

Spec == Init /\ [][Next]_vars

(* The handler runs on, and eval.timeout ends what a container does not.   *)
(* Nothing makes a container exit or anybody stop, kill or start a worker. *)
FairSpec ==
  /\ Spec
  /\ \A w \in Workers : WF_vars(Step(w) /\ UNCHANGED <<now, registryVars, studentVars>>)

-----------------------------------------------------------------------------
Manifest(m) == Valid(m) /\ Normalize(m) = m

(* Every variable has its type; manifests are those that Normalize makes.  *)
TypeOK ==
  LET Stored  == {Normalize(m) : m \in Raw}
      Metrics == UNION {MetricIds(m) : m \in Raw}
  IN
  /\ now \in 0 .. LastTime
  /\ lab \in [LabIds -> Stored \cup {None}]
  /\ call \in [Instructors -> [pc : {"idle", "absent", "compared"},
                               id : LabIds \cup {None}, next : Stored \cup {None}]]
  /\ track \in [Students -> Metrics \cup {None}]
  /\ pick \in [Students -> Metrics \cup {None}]
  /\ upload \in [Students -> Uploads \cup {None}]
  /\ accepted \in [Students -> {Range(up.names) : up \in Uploads} \cup {None}]
  /\ run \in [Workers -> [pc : Holding \cup {"idle", "down"}, sub : Students \cup {None},
                          lab : Stored \cup {None},
                          owes : SUBSET {"workspace", "stage", "container"},
                          result : Outputs \cup {Failed, Interrupted, None}]]
  /\ stopping \in [Workers -> BOOLEAN]
  /\ claimed \subseteq Students
  /\ dirs \in [Students -> SUBSET {"workspace", "stage"}]
  /\ container \in [Students -> {"none", "ready", "running", "exited"}]
  /\ output \in [Students -> [line : Outputs \cup {None}, ok : BOOLEAN]]
  /\ judgement \in [Students -> Outputs \cup {Failed, Interrupted, None}]
  /\ orphans \in [Students -> SUBSET {"workspace", "stage", "container"}]

(* A declared track is a metric of the lab as it is now, although it was   *)
(* checked against a manifest that may have been replaced since.           *)
TracksAreMetrics ==
  /\ TypeOK
  /\ \A u \in Students : track[u] # None => track[u] \in MetricIds(lab[Lab])

(* An accepted submission is one that the worker can stage, whichever      *)
(* manifest it loads later.                                                *)
AcceptedIsStageable ==
  \A u \in Students : accepted[u] # None => Stages(lab[Lab], accepted[u])

(* Scores are those of the board: one for each metric of the lab as it is  *)
(* now, or none.                                                           *)
ScoresMatchBoard ==
  \A s \in Students : judgement[s] # None =>
    judgement[s].scores =
      IF judgement[s].verdict = "scored" THEN MetricIds(lab[Lab]) ELSE {}

(* Outside the process nothing of an evaluation outlives it, unless docker *)
(* rm or os.RemoveAll failed, docker create was cut off or the process was *)
(* killed: every other error and every stop takes the deferred calls along. *)
NothingLeftBehind ==
  \A s \in Students : (\A w \in Workers : run[w].sub # s) =>
    /\ dirs[s] \subseteq orphans[s]
    /\ container[s] # "none" => "container" \in orphans[s]

(* A stored verdict is the evaluation's own: the last line of a container  *)
(* that ended with status 0, or the error of this evaluation.  It is never *)
(* what was printed before a timeout, a stop or a failing exit, nor the    *)
(* error that stopping the worker made of an evaluation it cut short.      *)
VerdictIsEarned ==
  \A s \in Students : judgement[s] \notin {None, Failed} =>
    output[s].ok /\ output[s].line = judgement[s]

(* Whatever a submission's program does, its container does not run on.    *)
EveryRunEnds ==
  \A s \in Students : container[s] = "running" ~>
    container[s] # "running" \/ "container" \in orphans[s]

(* Between its claim and its end every submission is judged once, with a   *)
(* verdict of the protocol, or abandoned.                                  *)
StateOf(s) ==
  IF judgement[s] # None THEN "judged"
  ELSE IF s \notin claimed THEN "waiting"
  ELSE IF \E w \in Workers : run[w].sub = s THEN "taken" ELSE "abandoned"

J == INSTANCE Judging WITH
       Submissions <- Students,
       Permitted <- Verdicts,
       NoVerdict <- None,
       state <- [s \in Students |-> StateOf(s)],
       verdict <- [s \in Students |->
                     IF judgement[s] = None THEN None ELSE judgement[s].verdict]
ImplementsJudging == J!Spec
=============================================================================
