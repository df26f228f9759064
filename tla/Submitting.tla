----------------------------- MODULE Submitting -----------------------------
(***************************************************************************)
(* `labkit submit` from end to end: the command signs and sends the        *)
(* upload, and then polls its submission until it has a verdict            *)
(* (runSubmit, apps/cli/internal/commands/lab_commands.go), against the    *)
(* API's intake, the detail it serves (personal/service.go) and the        *)
(* workers that change the rows meanwhile.  A request of LabKit is the     *)
(* POST of one command, or somebody's replay of another's.                 *)
(***************************************************************************)
EXTENDS LabKit

VARIABLE cli   \* where each command is, and what it has told the student

cliVars == <<vars, cli>>

(* `status`, `verdict` and `scores` are the detail fetched last.           *)
Ready == [pc |-> "ready", id |-> 0, status |-> "submitting", verdict |-> "null",
          scores |-> FALSE]

CliInit == Init /\ cli = [r \in Requests |-> Ready]

Ended(r, how) == cli' = [cli EXCEPT ![r] = [Ready EXCEPT !.pc = how]]

(* GetLatestSubmissionByUserLab, ORDER BY created_at DESC LIMIT 1.         *)
IsLatest(s, u) ==
  /\ s \in Committed /\ row[s].user = u
  /\ \A t \in Committed : row[t].user = u => t <= s

(* GetSubmitPrecheck reports the contents of the latest submission, ...    *)
LatestContents(u) == {row[s].content : s \in {t \in Ids : IsLatest(t, u)}}

(* ... and the command compares them with those of its own archive.        *)
Duplicates(u, c) == c \in LatestContents(u)

(* A duplicate of the latest submission is sent only if the student says   *)
(* so; a precheck that fails is passed over.                               *)
Cancel(r) ==
  /\ cli[r].pc = "ready"
  /\ \E u \in Users, c \in Contents : Duplicates(u, c)
  /\ Ended(r, "cancelled")
  /\ UNCHANGED vars

KnownNonces == usedNonces \cup {req[r].nonce : r \in Requests}

(* The command signs its upload with a nonce of its own and sends it.      *)
Post(r) ==
  /\ cli[r].pc = "ready"
  /\ Begin(r, Taken)
  /\ req'[r].nonce = CHOOSE n \in Nonces : n \notin KnownNonces
  /\ cli' = [cli EXCEPT ![r].pc = "sent"]
  /\ UNCHANGED <<adminVars, workerVars>>

(* Somebody sends a signed request again and does not wait for the answer. *)
Replay(r) ==
  /\ cli[r].pc = "ready"
  /\ Begin(r, Taken)
  /\ req'[r].nonce \in KnownNonces
  /\ Ended(r, "cancelled")
  /\ UNCHANGED <<adminVars, workerVars>>

Waiting(r) ==
  cli' = [cli EXCEPT ![r].pc = "waiting", ![r].id = req[r].id, ![r].status = "queued"]

(* What the command learns from a step of its request: nothing until the   *)
(* request ends, then its submission or an error.                          *)
Learns(r) ==
  IF req'[r].pc # "idle" \/ cli[r].pc # "sent" THEN UNCHANGED cli
  ELSE IF status' = status THEN Ended(r, "failed")
  ELSE Waiting(r)

Served(r) == Learns(r) /\ UNCHANGED <<adminVars, workerVars>>

(* The statements of a request when none fails.                            *)
Serve(r) ==
  /\ \/ ReadWindow(r)
     \/ CheckQuota(r)
     \/ ConsumeBonus(r)
     \/ SaveTruncate(r)
     \/ SaveWrite(r)
     \/ ReserveNonce(r)
     \/ Commit(r)
     \/ DeleteArtifact(r)
  /\ Served(r)

ServeFails(r) == (Abort(r) \/ CommitLost(r)) /\ Served(r)

(* The submission whose detail is asked for.                               *)
LatestFetched(r) ==   \* mutation: the student's latest submission
  CHOOSE s \in Committed : \A t \in Committed : t <= s
Fetched(r) == cli[r].id

(* GetSubmissionDetail reads the submission ...                            *)
ReadSubmission(r) ==
  /\ cli[r].pc = "waiting"
  /\ cli' = [cli EXCEPT ![r].pc = "reading", ![r].status = status[Fetched(r)],
                        ![r].verdict = verdict[Fetched(r)]]
  /\ UNCHANGED vars

(* submissionIsTerminal.                                                   *)
TerminalUnlessQueued(st) == st # "queued"   \* mutation: running is forgotten
TerminalWhenDone(st) == st = "done"   \* mutation: an error is waited for
IsTerminal(st) == st \notin {"queued", "running"}

(* ... and then its scores, which Persist inserts with a scored verdict;   *)
(* the command shows the status and polls again unless it is terminal.     *)
ReadScores(r) ==
  LET st == cli[r].status
  IN  /\ cli[r].pc = "reading"
      /\ cli' = IF IsTerminal(st)
                THEN [cli EXCEPT ![r].pc = "reported",
                                 ![r].scores = (verdict[Fetched(r)] = "scored")]
                ELSE [cli EXCEPT ![r].pc = "waiting"]
      /\ UNCHANGED vars

Poll(r) == ReadSubmission(r) \/ ReadScores(r)

(* Ctrl-C, an answer that is lost or a poll that fails; the server goes on.*)
Interrupt(r) ==
  /\ cli[r].pc \in {"sent", "waiting", "reading"}
  /\ Ended(r, "failed")
  /\ UNCHANGED vars

(* Within a day, and with no reset of the day's quota: both only change     *)
(* which request is refused, as LabKit shows, and a command that is refused *)
(* ends at once.                                                            *)
CliNext ==
  \/ \E r \in Requests :
       Cancel(r) \/ Post(r) \/ Replay(r) \/ Serve(r) \/ ServeFails(r) \/ Poll(r) \/ Interrupt(r)
  \/ Administer /\ wasReset' = wasReset /\ UNCHANGED cli
  \/ \E w \in Workers : WorkerStep(w) /\ UNCHANGED cli

(* Requests run on, and a lock is handed to its waiters in turn (strong    *)
(* fairness), as in LabKit; workers run on as in Pipeline; a command polls *)
(* every PollInterval until it is interrupted.                             *)
CliSpec ==
  /\ CliInit
  /\ [][CliNext]_cliVars
  /\ \A r \in Requests : SF_cliVars(Serve(r)) /\ WF_cliVars(Poll(r))
  /\ \A w \in Workers : WF_cliVars(WorkerStep(w) /\ UNCHANGED cli)

-----------------------------------------------------------------------------
(* Every variable has its type.                                            *)
CliTypeOK ==
  cli \in [Requests ->
    [pc: {"ready", "cancelled", "sent", "waiting", "reading", "reported", "failed"},
     id: Ids \cup {0}, status: {"submitting", "queued", "running", "done", "error"},
     verdict: Verdicts \cup {"null"}, scores: BOOLEAN]]

(* The last thing a student reads stays true: the detail is put together   *)
(* from rows read one after another while a worker writes them, and yet a  *)
(* report has a verdict that is never replaced, and it has the scores if   *)
(* and only if the verdict is "scored".                                    *)
ReportIsFinal ==
  /\ CliTypeOK
  /\ \A r \in Requests : cli[r].pc = "reported" =>
       /\ cli[r].verdict # "null"
       /\ cli[r].verdict = verdict[cli[r].id]
       /\ cli[r].status = status[cli[r].id]
       /\ cli[r].scores <=> cli[r].verdict = "scored"

(* submitStatusToStageIndex.                                               *)
StageIndex(st) ==
  CASE st = "submitting" -> 0 [] st = "queued" -> 1 [] st = "running" -> 2 [] OTHER -> 3

(* The progress bar of a command never runs backwards, whatever is         *)
(* submitted, re-evaluated or restarted next to it.                        *)
ProgressOnlyForward ==
  [][\A r \in Requests : cli'[r].pc # "failed" =>
       StageIndex(cli'[r].status) >= StageIndex(cli[r].status)]_cliVars

(* A command that waits comes to an end: its submission is evaluated, and  *)
(* no status the workers write last is one the loop goes on waiting for.   *)
WaitEnds == \A r \in Requests : cli[r].pc = "waiting" ~> cli[r].pc \in {"reported", "failed"}

(* While workers stay up, every submission a request or a re-evaluation    *)
(* admits is evaluated and its job acknowledged.                           *)
EverySubmissionSettles == P!EverySubmissionSettles
=============================================================================
