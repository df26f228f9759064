# LabKit in TLA+

LabKit runs programming labs as a competition: instructors register labs, students
submit files with a CLI, workers evaluate them in containers, a board ranks the latest
scores, and assistants publish final grades. This directory models the parts of it that
share state, checks them with TLC, and proves their safety with TLAPS.

All paths below are relative to the repository root.

## 1. Inventory

| Component | State | Operations | Hard part | What makes it correct |
|---|---|---|---|---|
| Submission intake (`apps/api/internal/service/submissions`) | `submissions`, `evaluation_jobs`, `user_lab_bonus_quota`, `used_nonces` | `Intake` | one transaction interleaved with a file, an advisory lock and other requests; midnight | quota never overdrawn, a credit pays once, a nonce is accepted once, the file of an accepted submission exists |
| Artifact store (`apps/api/internal/storage`) | files named by lab, user and contents | `Save`, `Delete` | shared by equal submissions; not transactional | as above |
| Job queue (`packages/go/jobs`) | `evaluation_jobs` | `Claim`, `Acknowledge`; `Enqueue` and `Retry` have no caller | several workers, a transaction that may die | a job is claimed by one worker |
| Worker (`apps/worker`) | its copy of the submission | `Loop.Run`, `Handle`, `MarkRunning`, `Persist` | three transactions and a container in a row; crashes; copies that grow old | verdicts final, costs settled once, everything settles |
| Docker runner, staging (`apps/worker/internal/runtime`) | temporary directories, containers | `docker create`, `cp`, `start`, `rm`; extract, stage | SIGTERM, a timeout or a kill between any two steps; deferred calls | nothing outlives an evaluation, a verdict is what the container ended well with |
| Administration (`apps/api/internal/service/admin`) | the rows of intake | `ResetLabQuota`, `AdjustBonusQuota`, `ResetBonusQuota`, `Reevaluate` | races with intake and workers | credits conserved, costs settled once |
| Board and grade export (`service/leaderboard`, `service/admin`) | none | `GetBoard`, `ExportGrades` | several statements without a transaction | undisturbed answers are exact, nobody drops off |
| Labs registry (`service/labs`), manifests (`packages/go/manifest`) | `labs` | register, update; `Validate`, `normalize` | an update is compared with an old read; others check against an old manifest and act later | the structure of a lab is fixed, so old checks still fit |
| Evaluator protocol (`packages/go/evaluator`) | none | `ParseResult` | the manifest may be newer than the evaluation | scores are those of the board |
| Personal service (`service/personal`, `http/personal_auth.go`) | `user_keys`, `lab_profiles`, `used_nonces`, `users` | authenticate, track, nickname, keys, submission detail | repeated and overlapping signed requests | a nonce lets in once, writes need a key of the student |
| Browser sessions, web login (`http/browser_session.go`, `service/auth/web_login.go`) | a map in memory | issue, look up, expire | sessions outlive keys; three ways to get one; restarts | revocation takes hold and stays |
| Web session tickets (`service/websession`) | `web_session_tickets` | create, exchange | counting and inserting; row locks and a deadlock detector | limit, single use, no loss, answers |
| Device authorization (`service/auth`, `db/queries/auth.sql`) | `device_auth_requests`, `user_keys` | create, OAuth callback, poll, expire, revoke | concurrent callbacks, keys that change hands | one holder per key, history kept |
| CLI authorization (`apps/cli`) | key files, keyring file | `labkit auth`, `revoke` | two commands on one file; rotation | polling ends |
| CLI submissions (`lab_commands.go`, `submit_live.go`) | none | `labkit submit`: precheck, upload, poll, report | reads a submission row by row while workers write it; replays, lost answers | the wait ends, progress only forward, what is reported stays true |
| Final grades (`service/grade`) | `final_grades` | import, publish, delete, read | an import is one upsert per row and no transaction, beside others | grades are records of files, nothing appears unpublished, nothing published vanishes |
| Migrations, web application, CLI rendering, HTTP routing, database access, identity providers | - | - | - | see section 8 |

How they interact: intake, administration and workers meet only in PostgreSQL
rows; the API and the workers also share the artifact directory. The board reads
what workers persist. Every reader of a manifest (upload checks, tracks, workers,
board) reads its own copy of `labs.manifest`. The CLI polls the API during
authorization and after a submission, and hands a ticket to a browser; a bound key, a
ticket or the school's login gives a browser its session.

## 2. Modules

| Module | Models | Used by |
|---|---|---|
| `Tables` | the rows of one lab, the clock in days, the two inserts of a submission | all of the pipeline |
| `Admission` | intake as one step: what it promises | `Pipeline` |
| `Intake` | intake statement by statement, with locks, the file and failures | `LabKit` |
| `Worker` | polling loop, claim, handler, persistence | `Pipeline`, `LabKit` |
| `Admin` | the administrator's operations | `Pipeline`, `LabKit` |
| `Pipeline` | `Admission` + `Worker` + `Admin` | `LabKit` as its abstraction, `PipelineProofs` |
| `LabKit` | `Intake` + `Worker` + `Admin`, refining `Pipeline` | `Submitting` |
| `Submitting` | `labkit submit` in front of `LabKit` | `LabKitProofs` |
| `Manifests` | what the code makes of a `lab.toml`: `normalize`, `Validate`, `sameStructure`, the questions services ask | `Registry` |
| `Registry` | registrations and updates of labs, tracks and upload checks beside them | `Evaluation` |
| `Evaluation` | the steps of a worker outside the database | `Course` |
| `Judging` | what an evaluation promises of a submission | `Course` as its abstraction |
| `Course` | `Registry` + `Evaluation`, refining `Judging` | `CourseProofs` |
| `FinalGrades` | imports, publication, deletion, reading of final grades | `FinalGradesProofs` |
| `Sessions` | signed requests, sessions, logins and revocation | `SessionsProofs` |
| `WebSessions` | tickets, as transactions | `WebSessionsProofs` |
| `Devices` | `labkit auth`, device requests, callbacks, keys, keyrings | `DevicesProofs` |
| `Board` | `GetBoard` and `ExportGrades` beside `Persist` and `UpdateTrack` | `BoardProofs` |
| `*Proofs` | the theorems about the module they are named after; `LabKitProofs` also those about `Submitting`, and it takes from `PipelineProofs` what holds of `Pipeline` | - |
| `MC*` | symmetry sets and constants for TLC; `Devices` and `WebSessions` need none and are checked directly | - |

How state and actions correspond to the code:

* **Transactions.** PostgreSQL runs at READ COMMITTED. A transaction whose
  statements nobody can observe half done is one action at its commit. Where the
  order of statements matters (intake, tickets, signed requests, imports, the board)
  there is one action per statement, and locks are derived from the steps that hold them.
* **Identity and time.** In the pipeline a submission is named by the position of its
  transaction in the order of transaction starts, because `created_at` and
  `available_at` are `NOW()`, which is that start; `Claim` takes the first that is
  visible. Time there is the number of midnights passed. `Sessions` counts lives down
  instead of comparing instants.
* **Intake.** `Begin`, `ReadWindow` (window computed, after `BEGIN`), `CheckQuota`
  (advisory lock and count), `ConsumeBonus`, `SaveTruncate` and `SaveWrite`
  (`os.WriteFile`), `ReserveNonce`, `Commit`, and `DeleteArtifact` for the deferred
  call, which runs after the rollback. `Abort`, `CommitLost` and `ApiCrash` are
  the failures.
* **Worker.** `ClaimSelect` and `ClaimCommit` are the two halves of `Claim` (`FOR
  UPDATE SKIP LOCKED`), then `Load`, `MarkRunning`, `Evaluate` (any verdict, or an
  error, with a missing artifact always an error), `Persist`, `Acknowledge`. A handler
  error ends the process, as `Loop.Run` does (`Die`); the container restarts it
  (`Restart`).
* **Admin.** `Reevaluate` lists the board, then inserts in its transaction:
  `ReevaluateList` ... `ReevaluateCommit` or `ReevaluateAbort`.
* **Submitting.** A request of `LabKit` is the POST of one command (`Post`) or somebody's
  replay of another's (`Replay`). The command learns nothing until its request ends,
  then polls: `ReadSubmission` and `ReadScores` are the two statements of
  `GetSubmissionDetail`, and the second ends the loop when `submissionIsTerminal`.
* **Manifests, Registry.** A manifest is a record; fields that only the display uses are
  left out, an absent optional field is `None`. `UpdateLab` is a read and comparison and
  later an unconditional write; `UpdateTrack` and the upload checks likewise read first
  and act later.
* **Evaluation.** One action per call of `runtimeHandler.Handle`, `evaluate` and
  `docker_runner.go` that reaches outside the process. What a step makes it also `owes`
  to the deferred calls; `Ends` jumps to those, which run last in, first out
  (`RemoveContainer`, `RemoveDirectory`). Every step may fail, for want of space or because
  docker reports an error. `stopping` is the cancelled context of SIGTERM, and every call
  that takes the context sees it; `docker rm` and the directories do not. `Kill` runs
  nothing deferred. `orphans` is a history variable: what a failed `docker rm`, an ignored
  error of `os.RemoveAll`, a cancelled `docker create` or a kill left behind. The container
  prints (`ContainerPrints`) before it ends with a status (`ContainerExits`), so a worker may
  be stopped, or its client time out, between a result and the status that makes it count.
* **FinalGrades.** `ImportGrades` computes the columns of the header once and then
  handles one record per step; a malformed record ends it with an error. A cell is a
  string of which only emptiness and its place matter.
* **Sessions.** `Authenticate` is three steps (`GetUserKey`, verification, `ReserveNonce`),
  followed by what the request asks for. `issuing` is a callback or exchange between its
  transaction and `issueBrowserSession`; `click` is a write between its authentication
  and its effect. A restart empties what is in memory.
* **Board.** A reader takes the leaderboard rows, then the scores, then the
  profiles (`GetBoard`), or rows, profiles, scores (`loadGradeInputs`). Scores that
  were not read count as 0, as `metricValueFor` has it.
* **Devices.** `BeginVerification` sends a browser to the school, `BeginCallback` is
  everything before the transaction of the callback (the code is exchanged with the
  school), `CompleteCallback` the one statement of
  `CompleteDeviceAuthRequestAndBindKey` with its indexes. A signed `labkit keys` or `revoke`
  is the look-up of its key (`Authenticate`), the fingerprint given to a row that has none
  (`StampKey`) and the statement it asks for (`ListKeys`, `Revoke`); others may revoke or
  rebind the key in between. `signer` is the row the look-up found.

## 3. Runs

Passing runs:

| Run | Question | Distinct states |
|---|---|---|
| `pipeline_rows` | Do jobs, verdicts, costs, credits and the board agree, with two users, two workers, crashes, a midnight and every administrator operation? Is the daily quota respected? | 784,196 |
| `labkit_requests` | Do two concurrent requests around a midnight, failures, a worker and an administrator implement `Pipeline`? Are consumed credits held, nonces used once? | 1,495,318 |
| `submit_waits` | Is every request answered, every submission evaluated, and does `labkit submit` come to an end, with progress that never runs backwards and a report that stays true? | 123,539 |
| `course` | Does what was checked against an older manifest still fit? Does an evaluation that may be stopped, time out or be killed at any step leave nothing behind, give no verdict but what its container ended well with, and implement `Judging`? | 649,872 |
| `grades` | What do concurrent and broken imports, publication and deletion make of final grades, and when do students see them? | 230,053 |
| `portal` | Is a signed request let in once? Do writes need a key, and does revoking it take hold and stay, over sessions, tickets, logins and restarts? | 288,336 |
| `board_reads` | Is an undisturbed board or export the exact standing, and does nobody drop off? | 1,022,188 |
| `devices` | Does a request bind for one student, has a key one active row, is key history kept under racing callbacks? Does the CLI stop polling? | 891,417 |
| `tickets` | Are tickets bounded, used once and not lost? Is every ticket request answered, with deadlocks broken by PostgreSQL? | 111,048 |

Runs that show where the code departs from what the repository says of it:

| Run | What happens |
|---|---|
| `crash_strands_job` | A worker dies after `Claim`; the job stays `running` for ever, since `Retry` has no caller. |
| `board_goes_back` | Two workers finish in the other order; the board goes back to the older submission. |
| `replay_deletes_artifact` | A refused repeat of an accepted request deletes the file both share. |

PROJECT.json quotes the sentences these contradict. `replay_deletes_artifact` exhibits the
repeat only: a lost commit and a crash while the file is written are steps of `Intake` that
endanger the same file, but `ArtifactKept` fails before they come into play. `CHECK_DEADLOCK FALSE` is set
because instances end: submission ids, days, nonces, commands and requests are used up.
The type invariant of a module is a conjunct of one of the invariants its run checks
(`TypeOK` of `Devices` in `BoundForOneStudent`, of `Course` in `TracksAreMetrics`,
...); that of `Pipeline` is left to the proofs.

Departures seen while modelling that no run checks; most are steps the models take as
the code does:

* `CompleteDeviceAuthRequestAndBindKey` (`db/queries/auth.sql:99`) approves a request
  although its key is held by another student and nothing is bound;
  `docs/plans/2026-03-31-labkit-formal-design.md:77` says that authorization binds
  student and key (`CompleteCallback`, where `request` changes and `userKeys` may not).
* `persistAuthKeyringEntry` (`apps/cli/internal/commands/auth.go:778`) writes back a
  keyring read before the browser login, so one of two concurrent `labkit auth` loses the
  other's entry; `docs/plans/2026-04-01-cli-key-fingerprint-design.md:260` says that
  identities do not overwrite each other (`PersistEntry`).
* `UpdateTrack` (`service/personal/service.go:304`) works after `schedule.close`, which
  `docs/reference/labkit-design.md:944` says locks the track (`UpdateTrack` of `Board`).
* A request begun before midnight is counted against the new day and dated on the old
  one, so more than `Daily` submissions can carry one date;
  `docs/reference/labkit-design.md:926` says the quota goes by calendar day.
  `DailyRespected` therefore speaks of submissions admitted on the day they began.
* `Persist` settles the quota state of a copy loaded before the evaluation, and so
  overwrites an administrator's reset in between (`Persist` and `ResetLabQuota`).
  `CostIsSettledOnce` lets a settlement write any quota state, so it says nothing of this.
* `GetBoard` reads rows and scores in two statements; a result persisted in between
  shows the student with zeros, which rank first on an ascending metric
  (`ListScores` of `Board`). `QuietReadIsExact` therefore speaks of undisturbed reads.
* A failed `docker image inspect` is ignored and the evaluation goes on without a digest.
* `Validate` accepts a manifest whose `max_size` cannot be parsed; it refuses every
  submission, and `sameStructure` forbids correcting it (`Manifests`).
* `service/grade/service.go:153-154` says imported rows are left unpublished; importing a
  row again keeps its `published_at`, so a published grade changes at once
  (`ImportRow` of `FinalGrades`). The administrator's page, too, calls every import not yet
  published (`apps/web/src/components/admin/GradesDrawer.vue:164`); the fake of the service's
  test (`service_test.go:36`, "upsert preserves visibility") agrees with the statement, and
  `PublishedStays` says what the statement does.
* A verdict whose text PostgreSQL cannot store (a NUL byte) makes `Persist` fail and ends
  the worker; texts are not modelled.

### Bounds, and why they are enough

* *Two workers, two users, two submissions* (`MaxTx`): every race in the pipeline is
  between two holders of one row or between one row and an administrator. Users meet
  only in `ResetLabQuota`, bonus adjustments and the claim order.
* *One midnight* (`LastDay = 1`) with `Daily = 1` lets a day fill up, the next one begin
  and a result arrive late; the second submission is the first one over the limit.
  `Deltas` of 1 and -1 with `MaxBonus = 1` reach the bonus row's zero and its clamp.
* *Two requests, two nonces, two transactions* over a midnight: two requests can
  share the lock, the nonce and the file, and one can be refused by quota, nonce or failure.
* *Two commands on one day* in `submit_waits`: one can replay the other, be refused by
  its quota or be paid by a credit granted meanwhile. It has no midnight and no quota
  reset: both change only which request is refused, as `labkit_requests` shows. One worker
  settles everything; that a second one cannot hold it up is not exercised.
* *Two instructors, one student, one worker, four manifests* in `course`: one update that
  is allowed, one that changes the structure and one that is not valid, two of them in
  flight at once; uploads that are right, name another file or are too large; results
  with the scores of the lab's structure, with those of another, and with none. Two
  instants open the lab; nothing an update or a worker does depends on its closing.
* *Two imports, three spreadsheets, two students* in `grades`: a student twice in a file, a
  row of nobody, another order of columns, a record that cannot be parsed and a file
  without student ids. Requests are reused, so the number of imports is not bounded.
* *One device, one browser, four signed requests* in `portal`: a rename sent twice, a
  ticket, a revocation. One browser is enough, since sessions do not meet; a session
  lives two ticks and a ticket one, so each can end before and after the other.
* *Two callbacks, two runs, two students* on one machine with one server: enough for a request that
  is completed twice, a key that two students claim and a rebind after revocation.
* *Two creators and two exchanges, three instants, `TTL` 1, limits of one and two*: two transactions with
  different `NOW()` and two expired rows, which a deadlock of clean-ups needs.
* *Two students, two metrics of opposite directions, two values, two instants, two
  results* on the board: one result may replace or tie with another. Readers change nothing
  and do not meet, so there is one; what `NobodyDropsOff` says is of answers that one client
  gets one after the other. `board.pick` is on
  and `rank_all` off, the setting in which all branches of the ranking run.

Symmetry (of users, workers, requests, nonces) is used only in `pipeline_rows`,
`labkit_requests` and `board_goes_back`, which check no liveness.

## 4. Fairness

* Weak fairness on a worker's step: the loop polls until it is told to stop, and the
  evaluation is bounded by `eval.timeout`. No fairness makes a worker claim a particular
  job, evaluate it well or die. In `course` nothing makes a container exit: the timeout
  is what ends `docker start`.
* `crash_strands_job` adds weak fairness on `Restart`: `restart: unless-stopped` in
  `deploy/docker-compose.yml`.
* `submit_waits`: the statements of a request are strongly fair together. A goroutine
  runs on, PostgreSQL queues waiters and grants a released lock to one of them. `Poll`
  is weakly fair: the command polls every `PollInterval` until it is interrupted.
* `portal`: time passes, and handlers that have begun run on. Nobody has to send a
  request, exchange a ticket or log in.
* `devices`: `Poll` and the expiry of a request are weakly fair. The CLI polls
  every second, and a request lives ten minutes. Callbacks are not fair: a
  student may never finish the login.
* `tickets`: weak fairness for each request, strong for the creation lock.

## 5. Refinements

* `LabKit` implements `Pipeline` (`ImplementsPipeline` in `labkit_requests`): seen from
  the database, the statements of an intake with its lock, file and failures are the
  single step `Submit` of `Admission`. Rows become visible with `Commit` or `CommitLost`;
  everything before maps to a stutter. This is proved (`IntakeIsOneStep`): in every step
  that commits, the room counted and the credit taken some statements ago are still there.
* `Course` implements `Judging` (`ImplementsJudging` in `course`): each submission is
  waiting, taken, then judged once with a verdict the protocol permits or abandoned. The
  state is computed from `claimed`, `run` and `judgement`. That the initial states map to
  initial states and every step to a step or a stutter is proved (`JudgedOnce`); that a
  taken submission does not stay taken needs fairness and is checked by TLC.

* The commands of `Submitting` are requests of `LabKit`: every behaviour of `CliSpec` is one
  of `LabKit`'s `Spec`. Proved (`CommandsAreRequests`), so what is proved of `LabKit`,
  and through it of `Pipeline`, holds while students submit, poll and replay.

## 6. What is proved

For every value of the constants. The assumptions are the named `ASSUME`s of the modules,
each of which TLC evaluates in the run of that module.

| Module | Theorem | Property |
|---|---|---|
| `PipelineProofs` | `Invariance`, `TypeCorrect` | `IInv`, `TypeOK`; a bonus balance is never negative |
| | `JobsClaimedOnce` | `ClaimedOnce` |
| | `JobsTellVerdicts` | `JobTellsVerdict` |
| | `ErrorsAreFree` | `VerdictDecidesCost` |
| | `BoardIsScored` | `BoardShowsScored` |
| | `VerdictsAreFinal` | `VerdictIsFinal` |
| | `CountsInvariance` | `CInv` |
| | `CreditsConserved` | `BonusConserved` |
| | `DaysNotOverdrawn` | `DailyRespected` |
| | `CostsAreSettledOnce` | `CostIsSettledOnce` |
| `LabKitProofs` | `Invariance` | `LInv` |
| | `IntakeIsOneStep` | `ImplementsPipeline` |
| | `CreditsAreHeld` | `CreditHeld` |
| | `NoncesAreUsedOnce` | `NonceUsedOnce` |
| | `RowsKeepPromises` | the six state properties of `Pipeline` above, in every state of `LabKit` |
| | `CommandsAreRequests` | `CliSpec` implies `Spec` |
| | `CommandsFollow` | `FollowInv` |
| | `ReportsAreFinal` | `ReportIsFinal` |
| | `ProgressNeverBack` | `ProgressOnlyForward` |
| `BoardProofs` | `Invariance` | `BInv` |
| | `QuietReadsAreExact` | `QuietReadIsExact` |
| | `NobodyDisappears` | `NobodyDropsOff` |
| `CourseProofs` | `Invariance` | `IInv` |
| | `TracksStayMetrics` | `TracksAreMetrics` |
| | `AcceptedStaysStageable` | `AcceptedIsStageable` |
| | `ScoresStayMatched` | `ScoresMatchBoard` |
| | `EvaluationsCleanUp` | `NothingLeftBehind` |
| | `VerdictsAreEarned` | `VerdictIsEarned` |
| | `JudgedOnce` | `Judging` without its fairness |
| `SessionsProofs` | `Invariance` | `IInv` |
| | `NoncesAdmitOnce` | `NonceAdmitsOnce` |
| | `WritesHaveKeys` | `WritesNeedAKey` |
| | `RevokedStaysRevoked` | `RevocationIsFinal` |
| `FinalGradesProofs` | `Invariance` | `IInv` |
| | `GradesComeFromFiles` | `GradesAreRecords` |
| | `ImportsAreExact` | `ImportIsExact` |
| | `VisibleStays` | `PublishedStays` |
| | `GradesAppearTogether` | `AppearTogether` |
| `DevicesProofs` | `Invariance` | `IInv` |
| | `DevicesBindOnce` | `BoundForOneStudent` |
| | `RowsStayHistory` | `KeyRowsAreHistory` |
| `WebSessionsProofs` | `Invariance` | `IInv` |
| | `LimitHolds` | `OutstandingBounded` |
| | `TicketsWorkOnce` | `TicketUsedOnce` |
| | `FailuresKeepTickets` | `TicketsSurvive` |

Hardly any of these properties is inductive alone. The inductive invariants add:

* **Pipeline.** That a worker does not overwrite a verdict depends on what else can hold
  its job. `SubmissionOK(s)` relates status, verdict, cost, job status and claiming
  worker of one submission; `WorkerOK(w)` says in which phase a worker may hold which
  submission and that the quota state it loaded, if `free` or `bonus`, is still the
  row's (without which `Persist` could charge what costs nothing); `ClaimsApart` keeps
  two workers off one submission; `CopiesOK` is about an open re-evaluation.
  Preservation is one lemma per action; `Frame` carries the parts about other
  submissions.
* **Counts.** `Persist` decides from the `quota_state` that was read in `Load`, while resets
  change the column. `LoadedAsIs` says that a row which is `free` or `bonus` was loaded as such,
  and `ResetsRecorded` that `admin_reset` was written by a reset. So a settlement takes at
  most one row out of the bonus count, gives back one credit for it, and never puts a row
  back into a day's count unless a reset had hit it (`PaidGrows`: only an admission adds to
  what is paid).
* **LabKit.** What a request read must hold until it commits. `RequestOK` says that a request
  past its count has room left in its day, or a credit left in its row; `LocksApart` that no
  two requests hold one user's day or one user's credit, so that a commit takes only its own
  room (`PaidElsewhere`); `NoncesApart` the same of nonces; `StartsInOrder` and `OwnIds` that
  ids follow the days on which transactions began, including those still open, which is what
  `Admission` demands of a new row. `Moves` lists what the statements do to a request, and the
  invariant of `Pipeline` is carried along: a step of `LabKit` is one of `Pipeline`.
* **Submitting.** A command reads the status of its submission, and in a later statement the
  scores, while workers write both. `FollowInv` says that the stage a command knows is one its
  submission reached, and that once it read a status to stop at, it has the stored
  verdict. This needs that a submission never goes back a stage and that its verdict is
  final (`StatusForward`, `VerdictKept`), which are facts about a step of `Pipeline`; since a
  step of `LabKit` is one, they serve here too (`OldRowsStay`, `FollowStays`). It is one lemma
  that a command which learns nothing still knows what it knew, and one per action
  that a command learns from.
* **Board.** The code sorts and numbers; the model gives a row the number of rows before it,
  plus one. `RankGrows` and `RanksFill` show that under a strict total order such ranks are
  exactly 1..n: n different numbers between 1 and n. That
  both comparisons of the code are strict total orders (`BoardOrders`, `ExportOrders`)
  rests on their last key, the user's id. `ReaderOK` says that the rows a reader holds,
  if they are the current ones, were current at each of its statements, since a row that
  changes names a new submission; `PageOK` that whoever is on the answer is on the board
  and with the reader that makes the next answer, which gives `NobodyDropsOff`.
* **Course.** All follows from the structure of a lab never changing although `UpdateLab`
  writes unconditionally: `sameStructure` is an equivalence, so an update compared with an
  older manifest (`CallOK`) still has the structure of the present one, and so do the copies a
  student's request (`StudentOK`) and a worker (`WorkerOK`) hold. `Known` and `Traces` say
  what a worker remembers of its container and which directories exist at each step, which
  gives `NothingLeftBehind`: what exists is owed by the worker or was left by a named fault.
  `VerdictIsEarned` needs that no container runs before its worker starts it (`Early`) and none
  starts again once it ended (`Ended`), so what it printed cannot change after it was read.
  `StepKeeps` is the frame lemma for one worker's step.
* **Sessions.** `NoncesLeft`: a request that was let in left its nonce; `AdmittedOnce`; and
  `HonestIdentities`: whoever a session, a callback or a write acts for owns the key it names.
* **FinalGrades.** `ImportsHaveFiles`, `PublishedAreStored` (what is published is stored),
  and for an undisturbed import that the rows so far are there. The column plan takes the least
  column with a name; that there is one is by well-foundedness of the naturals (`WFMin`).
* **Devices.** A command has a request only once it asked for one (`RunOK`), a callback that
  bound a device approved a request that was pending, so no other did (`BoundOnce`), and no
  two active rows have one key on one server (`OneHolder`, the unique indexes), which
  `InsertAppends` shows the one statement keeps.
* **WebSessions.** The limit counts with the clock of a transaction's start and without the
  rows it deleted itself; `HoldsOK` says that those were out of date already, so what is
  counted contains all that is outstanding (`CreateKeeps`). `OneCreates` is the advisory lock,
  `Counted` says that whoever has inserted left room for it, and `ExchangeOK` with `Apart`
  (one transaction locks a row) gives single use.

## 7. What is only model-checked, and what the models assume

Liveness (`EverySubmissionSettles`, `RequestsAnswered`, `WaitEnds`, `EveryRunEnds`,
`RevocationTakesHold`, `PollingEnds`, `EveryoneAnswered`, the fairness of `Judging`), and
nothing else, is left to TLC: they rest on fairness and ENABLED, which the prover used here
does not handle. Every invariant and every action property of the passing runs is also a
theorem, so liveness is all that the bounds of the instances could hide.

Assumptions:

* One lab in the pipeline: quota, bonus and board rows are keyed by user and lab.
  `Daily >= 1` and a set of free verdicts, as `Manifest.Validate` demands; the manifest
  does not change there. `Course` has manifests that change, and one submission per
  student.
* The checks of `Intake` that only read before `BeginTx` (schedule, files, size) are in
  `Registry`, the signature in `Sessions`; `Intake` begins at `BeginTx`. One API process. Hash
  collisions of advisory locks are ignored.
* `ApiCrash` may come between any two statements; PostgreSQL then rolls back.
* `Board`: the manifest's `visible` time is past, scores are finite and non-zero (0 is
  what a reader shows for a missing score), `updated_at` is the start of a transaction and
  so need not follow the order of commits.
* `Devices`: a key's text and fingerprint stand for each other; a key bound before
  fingerprints existed is `Legacy`. Device names, `default_server_url` and encryption of
  key files are left out. The school's login names a student or fails.
* `Sessions`: bytes verify under a key only if its holder signed them; each key is bound
  once (rebinding is in `Devices`) and a ticket is one row (its transactions are in
  `WebSessions`).
* `WebSessions`: the clocks of API and database agree.
* `Evaluation`: docker does what it is asked or reports an error; nobody else removes
  containers or temporary directories. `FinalGrades`: files are shorter than the 8 MiB that are
  read.

## 8. Not modelled

* **Migrations** run once, alone, before the services start.
* **Web application, CLI rendering, prompts and self-update** keep no state others rely on.
  `labkit nick`, `track`, `history` and `board` send one request each.
* **HTTP decoding and routing, generated queries, the connection pool**: queries are translated
  where they are called. That as many re-evaluations as the pool has connections wait for
  ever (`service/admin/service.go:309`) is therefore not seen.
* **Identity providers, docker, the evaluator image, PostgreSQL** are external and modelled
  by how the code uses them.
* **Development fakes** of the worker go through the same `Persist`.
* **`Enqueue` and `Retry`** of the job queue have no caller in the repository.
* **Formats**: TOML, JSON and CSV syntax, tar and gzip, float32 rounding, texts.

Worth doing next: the connection pool as a resource of `Reevaluate`; rebinding of keys and
signed requests in one module.

## 9. Running

    tlc -config pipeline_rows.cfg MCPipeline.tla
    tlapm PipelineProofs.tla

Each configuration names its specification, constants and properties; PROJECT.json
lists which module goes with which. For every property it also names a small
change of a definition that makes the property fail; the changed definitions stand
beside the originals, marked `mutation`.
