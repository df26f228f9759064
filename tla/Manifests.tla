----------------------------- MODULE Manifests -----------------------------
(***************************************************************************)
(* What the code makes of an uploaded lab.toml: packages/go/manifest, and  *)
(* the questions the services ask of a manifest.  Names, tags, units and   *)
(* the evaluation timeout are left out.  A size limit is a number and a    *)
(* unit, a missing optional field is None and a missing time is 0.         *)
(***************************************************************************)
EXTENDS Integers, Sequences, Functions

CONSTANT None   \* a field that is not given

DefaultSize == [n |-> 1, unit |-> "MB"]

(* Manifest.normalize.                                                     *)
Normalize(m) ==
  [m EXCEPT !.maxSize = IF @ = None THEN DefaultSize ELSE @,
            !.rankBy  = IF @ = None /\ m.metrics # <<>> THEN m.metrics[1].id ELSE @,
            !.rankAll = IF m.pick /\ @ = None THEN TRUE ELSE @,
            !.visible = IF @ = 0 THEN m.open ELSE @]

MetricIds(m) == {m.metrics[i].id : i \in DOMAIN m.metrics}

(* Manifest.Validate, of a normalized manifest.                            *)
ValidRanking(m) ==
  /\ m.metrics # <<>>
  /\ \A i \in DOMAIN m.metrics :
       /\ m.metrics[i].sort \in {"asc", "desc"}
       /\ \A j \in DOMAIN m.metrics : m.metrics[i].id = m.metrics[j].id => i = j
  /\ m.rankBy \in MetricIds(m)

ValidSchedule(m) ==
  /\ m.open # 0 /\ m.close # 0
  /\ m.open <= m.close
  /\ m.visible # 0 => m.visible <= m.open

Valid(m) ==
  /\ m.files # <<>>
  /\ m.image # None
  /\ m.daily > 0
  /\ m.free \subseteq {"build_failed", "rejected"}
  /\ ValidRanking(m)
  /\ ValidSchedule(m)

(* When the lab is shown to students, and when it takes submissions.       *)
IsVisible(m, now) == m.visible = 0 \/ m.visible <= now

LabOpen(m, now) ==
  /\ m.open # 0 => m.open <= now
  /\ m.close # 0 => now <= m.close

(* sameStructure: what an update may not change.                           *)
SameStructure(current, next) ==
  /\ current.maxSize = next.maxSize
  /\ current.files = next.files
  /\ current.rankBy = next.rankBy
  /\ current.metrics = next.metrics

(* parseMaxSize: the largest file in bytes, None when the unit is unknown. *)
Scale == [B |-> 1, KB |-> 1000, MB |-> 1000000, GB |-> 1000000000]

MaxBytes(m) ==
  IF m.maxSize.unit \in DOMAIN Scale /\ m.maxSize.n > 0
  THEN m.maxSize.n * Scale[m.maxSize.unit] ELSE None

(* validateFiles: exactly the declared files, each once, none too large.   *)
AcceptsFewer(m, upload) ==   \* mutation: a declared file may be missing
  upload.names # <<>> /\ Range(upload.names) \subseteq Range(m.files)
Accepts(m, upload) ==
  /\ MaxBytes(m) # None
  /\ upload.names # <<>>
  /\ IsInjective(upload.names)
  /\ Range(upload.names) = Range(m.files)
  /\ upload.bytes <= MaxBytes(m)

(* evaluator.ValidateResult: a verdict of the protocol, with a score for   *)
(* every declared metric and for no other, or with none.                   *)
Verdicts == {"scored", "build_failed", "rejected", "error"}

PermitsAnyScores(m, result) == result.verdict \in Verdicts   \* mutation: scores are not compared
Permits(m, result) ==
  /\ result.verdict \in Verdicts
  /\ result.scores = IF result.verdict = "scored" THEN MetricIds(m) ELSE {}

(* StageSubmissionDir: the extracted files are exactly the declared ones.  *)
Stages(m, names) == names = Range(m.files)
=============================================================================
