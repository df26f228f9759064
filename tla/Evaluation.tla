----------------------------- MODULE Evaluation -----------------------------
(***************************************************************************)
(* What a worker does between claiming a job and acknowledging it, outside *)
(* the database: it unpacks the artifact into one temporary directory,     *)
(* stages the declared files in another, and has Docker run them in a      *)
(* container (runtime_handler.go, docker_runner.go, tempdir.go).  The      *)
(* directories and containers live outside the process: a worker that is   *)
(* asked to stop, times out or is killed may leave them behind.            *)
(* A submission is named by its student; Worker.tla has the rows.          *)
(***************************************************************************)
EXTENDS Registry

CONSTANTS
  Workers,
  Outputs    \* lines of stdout that are results

VARIABLES
  run,        \* each worker process
  stopping,   \* its context is cancelled (SIGTERM)
  claimed,    \* submissions whose job is not queued any more
  dirs,       \* temporary directories that exist for a submission
  container,  \* and its container
  output,     \* its last line, None when that is no result, and if it ended with status 0
  judgement,  \* the verdict and scores stored for the submission
  orphans     \* history: what a fault left behind

evaluationVars == <<run, stopping, claimed, dirs, container, output, judgement, orphans>>

Holding == {"claimed", "loaded", "running", "unpacking", "extracted", "staged",
            "created", "copied", "started", "undoing", "judged", "persisted"}

(* What the deferred calls of a handler have yet to remove is what it owes. *)
Resting(pc) == [pc |-> pc, sub |-> None, lab |-> None, owes |-> {}, result |-> None]

(* The errors of evaluate: of the evaluation, and of its interruption.     *)
Failed == [verdict |-> "error", scores |-> {}, cause |-> "evaluation"]
Interrupted == [verdict |-> "error", scores |-> {}, cause |-> "stop"]

Silent == [line |-> None, ok |-> FALSE]

ASSUME EvaluationAssumption ==
  /\ None \notin Students \cup Outputs \cup {Failed, Interrupted}
  /\ Outputs \cap {Failed, Interrupted} = {}

EvaluationInit ==
  /\ run = [w \in Workers |-> Resting("idle")]
  /\ stopping = [w \in Workers |-> FALSE]
  /\ claimed = {}
  /\ dirs = [s \in Students |-> {}]
  /\ container = [s \in Students |-> "none"]
  /\ output = [s \in Students |-> Silent]
  /\ judgement = [s \in Students |-> None]
  /\ orphans = [s \in Students |-> {}]

Sub(w) == run[w].sub

Goes(w, pc) == run' = [run EXCEPT ![w].pc = pc]

(* The process ends: the deferred calls of the handler have run.           *)
Exits(w) == run' = [run EXCEPT ![w] = Resting("down")]

(* A step makes something, and defers the call that removes it.            *)
Makes(w, pc, thing) ==
  run' = [run EXCEPT ![w].pc = pc, ![w].owes = @ \cup {thing}]

(* evaluate ends with a result or with the error of a step: its deferred   *)
(* calls run, then Persist.                                                *)
Ends(w, result) == run' = [run EXCEPT ![w].pc = "undoing", ![w].result = result]

(* The error of a docker command, which runs under the worker's context.   *)
Cause(w) == IF stopping[w] THEN Interrupted ELSE Failed

-----------------------------------------------------------------------------
ClaimableAgain(s) ==   \* mutation: a job whose worker is gone is taken again
  accepted[s] # None /\ \A w \in Workers : Sub(w) # s
Claimable(s) == accepted[s] # None /\ s \notin claimed

Claim(w, s) ==
  /\ run[w].pc = "idle" /\ ~stopping[w]
  /\ Claimable(s)
  /\ claimed' = claimed \cup {s}
  /\ run' = [run EXCEPT ![w].pc = "claimed", ![w].sub = s]
  /\ UNCHANGED <<stopping, dirs, container, output, judgement, orphans>>

(* loadSubmission validates the stored manifest again; an error ends the   *)
(* process, as a cancelled context does.                                   *)
Load(w) ==
  /\ run[w].pc = "claimed"
  /\ IF stopping[w] \/ ~Valid(lab[Lab])
     THEN Exits(w)
     ELSE run' = [run EXCEPT ![w].pc = "loaded", ![w].lab = lab[Lab]]
  /\ UNCHANGED <<stopping, claimed, dirs, container, output, judgement, orphans>>

MarkRunning(w) ==
  /\ run[w].pc = "loaded"
  /\ IF stopping[w] THEN Exits(w) ELSE Goes(w, "running")
  /\ UNCHANGED <<stopping, claimed, dirs, container, output, judgement, orphans>>

(* os.ReadFile and CreateWorkspace.  The artifact may be unreadable (see   *)
(* ArtifactKept in LabKit), and the disk full.                             *)
CreateWorkspace(w) ==
  /\ run[w].pc = "running"
  /\ \/ Ends(w, Failed) /\ UNCHANGED dirs
     \/ /\ Makes(w, "unpacking", "workspace")
        /\ dirs' = [dirs EXCEPT ![Sub(w)] = {"workspace"}]
  /\ UNCHANGED <<stopping, claimed, container, output, judgement, orphans>>

(* EnsureSubmissionDir and extractArchiveToDir.                            *)
Extract(w) ==
  /\ run[w].pc = "unpacking"
  /\ Goes(w, "extracted") \/ Ends(w, Failed)
  /\ UNCHANGED <<stopping, claimed, dirs, container, output, judgement, orphans>>

(* StageSubmissionDir copies the declared files into a second directory.   *)
(* When it fails it removes that itself, and ignores that it cannot.       *)
Stage(w) ==
  LET dirsThen == [dirs EXCEPT ![Sub(w)] = @ \cup {"stage"}] IN
  /\ run[w].pc = "extracted"
  /\ \/ /\ Stages(run[w].lab, accepted[Sub(w)])
        /\ Makes(w, "staged", "stage")
        /\ dirs' = dirsThen /\ UNCHANGED orphans
     \/ Ends(w, Failed) /\ UNCHANGED <<dirs, orphans>>
     \/ /\ Ends(w, Failed)
        /\ dirs' = dirsThen
        /\ orphans' = [orphans EXCEPT ![Sub(w)] = @ \cup {"stage"}]
  /\ UNCHANGED <<stopping, claimed, container, output, judgement>>

(* docker create.  A client that is cancelled half way does not learn the  *)
(* id of the container the daemon makes for it.                            *)
CreateContainer(w) ==
  LET made == container' = [container EXCEPT ![Sub(w)] = "ready"] IN
  /\ run[w].pc = "staged"
  /\ \/ ~stopping[w] /\ Makes(w, "created", "container") /\ made /\ UNCHANGED orphans
     \/ /\ stopping[w]
        /\ Ends(w, Interrupted) /\ made
        /\ orphans' = [orphans EXCEPT ![Sub(w)] = @ \cup {"container"}]
     \/ Ends(w, Cause(w)) /\ UNCHANGED <<container, orphans>>
  /\ UNCHANGED <<stopping, claimed, dirs, output, judgement>>

(* docker cp.                                                              *)
CopySubmission(w) ==
  /\ run[w].pc = "created"
  /\ \/ ~stopping[w] /\ Goes(w, "copied")
     \/ Ends(w, Cause(w))
  /\ UNCHANGED <<stopping, claimed, dirs, container, output, judgement, orphans>>

(* docker start -a, under the context that times out.                      *)
StartContainer(w) ==
  /\ run[w].pc = "copied"
  /\ \/ /\ ~stopping[w] /\ Goes(w, "started")
        /\ container' = [container EXCEPT ![Sub(w)] = "running"]
     \/ Ends(w, Cause(w)) /\ UNCHANGED container
  /\ UNCHANGED <<stopping, claimed, dirs, output, judgement, orphans>>

(* The evaluator image prints what it likes, and runs as long as it likes: *)
(* what it has printed says nothing of how it will end.                    *)
ContainerPrints(s) ==
  /\ container[s] = "running"
  /\ \E line \in Outputs \cup {None} : output' = [output EXCEPT ![s].line = line]
  /\ UNCHANGED <<run, stopping, claimed, dirs, container, judgement, orphans>>

ContainerExits(s) ==
  /\ container[s] = "running"
  /\ container' = [container EXCEPT ![s] = "exited"]
  /\ \E ok \in BOOLEAN : output' = [output EXCEPT ![s].ok = ok]
  /\ UNCHANGED <<run, stopping, claimed, dirs, judgement, orphans>>

(* An exit status other than 0 is an error, whatever was printed; then     *)
(* ParseResult: a result the manifest permits, or an error.                *)
ResultOfPrinted(m, out) ==   \* mutation: the exit status is not looked at
  IF out.line # None /\ Permits(m, out.line) THEN out.line ELSE Failed
ResultOf(m, out) ==
  IF out.ok /\ out.line # None /\ Permits(m, out.line) THEN out.line ELSE Failed

ReadOutput(w) ==
  /\ run[w].pc = "started" /\ container[Sub(w)] = "exited" /\ ~stopping[w]
  /\ Ends(w, ResultOf(run[w].lab, output[Sub(w)]))
  /\ UNCHANGED <<stopping, claimed, dirs, container, output, judgement, orphans>>

(* The attached client is killed by the timeout, or with the worker; a     *)
(* container that has exited meanwhile makes no difference.                *)
TimeOut(w) ==
  /\ run[w].pc = "started"
  /\ Ends(w, Failed)
  /\ UNCHANGED <<stopping, claimed, dirs, container, output, judgement, orphans>>

Interrupt(w) ==
  /\ run[w].pc = "started" /\ stopping[w]
  /\ Ends(w, Interrupted)
  /\ UNCHANGED <<stopping, claimed, dirs, container, output, judgement, orphans>>

-----------------------------------------------------------------------------
(* The deferred calls, last in, first out: docker rm -f with a context of  *)
(* its own (which may fail), then the two directories (so may these).      *)
Removed(s) == container' = [container EXCEPT ![s] = "none"]

RemovedWithin(w) ==   \* mutation: docker rm under the worker's context
  IF stopping[w] THEN UNCHANGED container ELSE Removed(Sub(w))
RemovedBy(w) == Removed(Sub(w))

RemoveContainer(w) ==
  /\ run[w].pc = "undoing" /\ "container" \in run[w].owes
  /\ run' = [run EXCEPT ![w].owes = @ \ {"container"}]
  /\ \/ RemovedBy(w) /\ UNCHANGED orphans
     \/ /\ orphans' = [orphans EXCEPT ![Sub(w)] = @ \cup {"container"}]
        /\ UNCHANGED container
  /\ UNCHANGED <<stopping, claimed, dirs, output, judgement>>

(* The error of os.RemoveAll is ignored.                                   *)
RemoveDirectory(w) ==
  LET last == IF "stage" \in run[w].owes THEN "stage" ELSE "workspace" IN
  /\ run[w].pc = "undoing" /\ run[w].owes # {} /\ "container" \notin run[w].owes
  /\ run' = [run EXCEPT ![w].owes = @ \ {last}]
  /\ \/ dirs' = [dirs EXCEPT ![Sub(w)] = @ \ {last}] /\ UNCHANGED orphans
     \/ orphans' = [orphans EXCEPT ![Sub(w)] = @ \cup {last}] /\ UNCHANGED dirs
  /\ UNCHANGED <<stopping, claimed, container, output, judgement>>

EvaluateReturns(w) ==
  /\ run[w].pc = "undoing" /\ run[w].owes = {}
  /\ Goes(w, "judged")
  /\ UNCHANGED <<stopping, claimed, dirs, container, output, judgement, orphans>>

(* Persist fails under a cancelled context; then the process ends.         *)
Persist(w) ==
  /\ run[w].pc = "judged"
  /\ IF stopping[w]
     THEN Exits(w) /\ UNCHANGED judgement
     ELSE /\ Goes(w, "persisted")
          /\ judgement' = [judgement EXCEPT ![Sub(w)] = run[w].result]
  /\ UNCHANGED <<stopping, claimed, dirs, container, output, orphans>>

Acknowledge(w) ==
  /\ run[w].pc = "persisted"
  /\ run' = [run EXCEPT ![w] = Resting(IF stopping[w] THEN "down" ELSE "idle")]
  /\ UNCHANGED <<stopping, claimed, dirs, container, output, judgement, orphans>>

-----------------------------------------------------------------------------
(* SIGTERM cancels the context of everything the worker does.              *)
RequestStop(w) ==
  /\ run[w].pc # "down" /\ ~stopping[w]
  /\ stopping' = [stopping EXCEPT ![w] = TRUE]
  /\ UNCHANGED <<run, claimed, dirs, container, output, judgement, orphans>>

LeaveLoop(w) ==
  /\ run[w].pc = "idle" /\ stopping[w]
  /\ Exits(w)
  /\ UNCHANGED <<stopping, claimed, dirs, container, output, judgement, orphans>>

(* The process is killed, and nothing deferred runs.                       *)
Kill(w) ==
  /\ run[w].pc \in Holding
  /\ Exits(w)
  /\ orphans' = [orphans EXCEPT ![Sub(w)] = @ \cup dirs[Sub(w)]
       \cup (IF container[Sub(w)] = "none" THEN {} ELSE {"container"})]
  /\ UNCHANGED <<stopping, claimed, dirs, container, output, judgement>>

(* A new process starts with an empty memory and looks for nothing.        *)
Restart(w) ==
  /\ run[w].pc = "down"
  /\ run' = [run EXCEPT ![w] = Resting("idle")]
  /\ stopping' = [stopping EXCEPT ![w] = FALSE]
  /\ UNCHANGED <<claimed, dirs, container, output, judgement, orphans>>

(* What the handler does of itself once it holds a job.                    *)
Step(w) ==
  \/ Load(w) \/ MarkRunning(w) \/ CreateWorkspace(w) \/ Extract(w) \/ Stage(w)
  \/ CreateContainer(w) \/ CopySubmission(w) \/ StartContainer(w)
  \/ ReadOutput(w) \/ TimeOut(w) \/ Interrupt(w)
  \/ RemoveContainer(w) \/ RemoveDirectory(w) \/ EvaluateReturns(w)
  \/ Persist(w) \/ Acknowledge(w)

EvaluationNext ==
  \/ \E w \in Workers :
       \/ \E s \in Students : Claim(w, s)
       \/ Step(w)
       \/ RequestStop(w) \/ LeaveLoop(w) \/ Kill(w) \/ Restart(w)
  \/ \E s \in Students : ContainerPrints(s) \/ ContainerExits(s)
=============================================================================
