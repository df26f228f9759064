---------------------------- MODULE CourseProofs ----------------------------
(***************************************************************************)
(* What Course promises for any manifests, students, instructors, workers  *)
(* and outputs of evaluators.                                              *)
(***************************************************************************)
EXTENDS Course, TLAPS

-----------------------------------------------------------------------------
(* The inductive invariant, first for the registry.                        *)

(* An update that was compared with the structure still has it, whatever   *)
(* update was written in between.                                          *)
CallOK(i) ==
  LET c == call[i] IN
  /\ c.pc # "idle" => c.id \in LabIds /\ c.next \in {Normalize(m) : m \in Raw} /\ Valid(c.next)
  /\ c.pc = "compared" => lab[c.id] # None /\ SameStructure(lab[c.id], c.next)

LabsValid == \A l \in LabIds : lab[l] # None => Valid(lab[l])

(* What was checked against the manifest holds of the one there is.        *)
StudentOK(u) ==
  /\ pick[u] # None => lab[Lab] # None /\ pick[u] \in MetricIds(lab[Lab])
  /\ track[u] # None => lab[Lab] # None /\ track[u] \in MetricIds(lab[Lab])
  /\ upload[u] # None => lab[Lab] # None /\ Stages(lab[Lab], Range(upload[u].names))
  /\ accepted[u] # None => lab[Lab] # None /\ Stages(lab[Lab], accepted[u])

(* Then for the workers.  A worker has loaded a manifest with the lab's    *)
(* structure, its result is one the manifest permits, and what exists      *)
(* outside the process is what its step says.                              *)
Verdict(r, m) ==
  /\ r # None
  /\ r.verdict \in Verdicts
  /\ r.scores = IF r.verdict = "scored" THEN MetricIds(m) ELSE {}

(* A result is the last line of a container that ended with status 0.      *)
Earned(r, out) == out.ok /\ out.line = r

Known(w) ==
  /\ run[w].pc # "claimed" =>
       run[w].lab # None /\ SameStructure(lab[Lab], run[w].lab)
  /\ run[w].pc \in {"undoing", "judged", "persisted"} =>
       /\ Verdict(run[w].result, run[w].lab)
       /\ run[w].result = Interrupted => stopping[w]
       /\ run[w].result \notin {Failed, Interrupted} => Earned(run[w].result, output[run[w].sub])

Early == {"claimed", "loaded", "running", "unpacking", "extracted", "staged", "created", "copied"}

(* What exists and is not owed was left behind; no container runs before   *)
(* the worker starts it.                                                   *)
Traces(w) ==
  LET s == run[w].sub IN
  /\ run[w].pc \in {"claimed", "loaded", "running", "judged", "persisted"} => run[w].owes = {}
  /\ "container" \in run[w].owes => run[w].pc \in {"created", "copied", "started", "undoing"}
  /\ run[w].pc \in {"created", "copied", "started"} => "container" \in run[w].owes
  /\ dirs[s] \subseteq run[w].owes \cup orphans[s]
  /\ container[s] # "none" => "container" \in run[w].owes \cup orphans[s]
  /\ run[w].pc \in Early => ~output[s].ok /\ container[s] # "running"

WorkerOK(w) ==
  /\ run[w].sub \in Students <=> run[w].pc \in Holding
  /\ run[w].pc \notin Holding => run[w].owes = {}
  /\ run[w].pc \in Holding =>
       /\ run[w].sub \in claimed
       /\ run[w].pc # "persisted" => judgement[run[w].sub] = None
       /\ Known(w) /\ Traces(w)

ClaimsApart == \A w, v \in Workers : w # v /\ Sub(w) = Sub(v) => Sub(w) = None

(* What nobody has claimed has left no trace.                              *)
Unclaimed(s) ==
  s \notin claimed =>
    dirs[s] = {} /\ container[s] = "none" /\ ~output[s].ok /\ judgement[s] = None

Left(s) ==
  /\ dirs[s] \subseteq orphans[s]
  /\ container[s] # "none" => "container" \in orphans[s]

(* A container that has ended does not start again.                        *)
Ended(s) == output[s].ok => container[s] \notin {"ready", "running"}

Judged(r, m, out) == r # None => Verdict(r, m) /\ (r # Failed => Earned(r, out))

SubmissionOK(s) ==
  /\ s \in claimed => lab[Lab] # None
  /\ Unclaimed(s) /\ Ended(s)
  /\ Judged(judgement[s], lab[Lab], output[s])
  /\ (\A w \in Workers : run[w].sub # s) => Left(s)

RegistryInv ==
  /\ LabsValid
  /\ \A i \in Instructors : CallOK(i)
  /\ \A u \in Students : StudentOK(u)

EvaluationInv ==
  /\ \A w \in Workers : WorkerOK(w)
  /\ ClaimsApart
  /\ \A s \in Students : SubmissionOK(s)

IInv == TypeOK /\ RegistryInv /\ EvaluationInv

-----------------------------------------------------------------------------
(* Structure.                                                              *)

LEMMA SameStructureIsEquivalence ==
  ASSUME NEW a, NEW b, NEW c
  PROVE  /\ SameStructure(a, a)
         /\ SameStructure(a, b) => SameStructure(b, a)
         /\ SameStructure(a, b) /\ SameStructure(b, c) => SameStructure(a, c)
  BY DEF SameStructure

LEMMA StructureDecides ==
  ASSUME NEW a, NEW b, SameStructure(a, b)
  PROVE  /\ MetricIds(a) = MetricIds(b)
         /\ \A names : Stages(a, names) <=> Stages(b, names)
  BY DEF SameStructure, MetricIds, Stages

(* Normalize fills fields in; the id and the metrics are not among them.   *)
LEMMA NormalizeKeeps ==
  ASSUME NEW m \in Raw
  PROVE  /\ Normalize(m).id = m.id /\ Normalize(m).metrics = m.metrics
         /\ MetricIds(Normalize(m)) = MetricIds(m)
         /\ Normalize(m) # None
         /\ Normalize(m).id \in LabIds
  <1>1. {"id", "metrics"} \subseteq DOMAIN m /\ Normalize(m) # None
    BY RegistryAssumption
  <1>2. Normalize(m).id = m.id /\ Normalize(m).metrics = m.metrics
    BY <1>1 DEF Normalize
  <1> QED BY <1>1, <1>2 DEF MetricIds, LabIds

-----------------------------------------------------------------------------
(* The initial state.                                                      *)
LEMMA InitInv == Init => IInv
  <1> SUFFICES ASSUME Init PROVE IInv
    OBVIOUS
  <1> USE DEF Init, RegistryInit, EvaluationInit, NoCall, Resting, Silent
  <1>1. TypeOK
    BY RegistryAssumption DEF TypeOK, Holding
  <1>2. RegistryInv
    BY DEF RegistryInv, LabsValid, CallOK, StudentOK
  <1>3. EvaluationInv
    <2>1. \A w \in Workers : WorkerOK(w)
      BY EvaluationAssumption DEF WorkerOK, Holding
    <2>2. ClaimsApart
      BY DEF ClaimsApart, Sub
    <2>3. \A s \in Students : SubmissionOK(s)
      BY DEF SubmissionOK, Unclaimed, Left, Ended, Judged
    <2> QED BY <2>1, <2>2, <2>3 DEF EvaluationInv
  <1> QED BY <1>1, <1>2, <1>3 DEF IInv

-----------------------------------------------------------------------------
(* The steps of the registry.                                              *)

(* A lab that exists is never replaced by one of another structure.        *)
StructureStays ==
  lab[Lab] # None => lab'[Lab] # None /\ SameStructure(lab[Lab], lab'[Lab])

LEMMA EvaluationFollows ==
  ASSUME IInv, StructureStays, UNCHANGED evaluationVars
  PROVE  EvaluationInv'
  <1> USE DEF evaluationVars
  <1>1. \A s \in Students : s \in claimed \/ judgement[s] # None => lab[Lab] # None
    BY DEF IInv, EvaluationInv, SubmissionOK, Unclaimed
  <1>2. ASSUME NEW r, lab[Lab] # None, Verdict(r, lab[Lab])
        PROVE  Verdict(r, lab'[Lab])
    BY <1>2, StructureDecides DEF StructureStays, Verdict
  <1>3. \A s \in Students : SubmissionOK(s)'
    BY <1>1, <1>2 DEF IInv, EvaluationInv, SubmissionOK, Unclaimed, Left, Ended, Judged, StructureStays
  <1>4. \A w \in Workers : WorkerOK(w)'
    <2> SUFFICES ASSUME NEW w \in Workers PROVE WorkerOK(w)'
      OBVIOUS
    <2>1. WorkerOK(w)
      BY DEF IInv, EvaluationInv
    <2>2. ASSUME run[w].pc \in Holding
          PROVE  Known(w)'
      <3>1. lab[Lab] # None
        BY <1>1, <2>1, <2>2 DEF WorkerOK
      <3>2. SameStructure(lab'[Lab], lab[Lab])
        BY <3>1, SameStructureIsEquivalence DEF StructureStays
      <3>3. ASSUME run[w].pc # "claimed"
            PROVE  SameStructure(lab'[Lab], run[w].lab)
        BY <2>1, <2>2, <3>2, <3>3, SameStructureIsEquivalence DEF WorkerOK, Known
      <3> QED BY <2>1, <2>2, <3>3 DEF WorkerOK, Known, Verdict, Earned
    <2>3. Traces(w) => Traces(w)'
      BY DEF Traces
    <2> QED BY <2>1, <2>2, <2>3 DEF WorkerOK
  <1>5. ClaimsApart'
    BY DEF IInv, EvaluationInv, ClaimsApart, Sub
  <1> QED BY <1>3, <1>4, <1>5 DEF EvaluationInv

LEMMA StudentsFollow ==
  ASSUME IInv, StructureStays, UNCHANGED studentVars
  PROVE  \A u \in Students : StudentOK(u)'
  <1> SUFFICES ASSUME NEW u \in Students PROVE StudentOK(u)'
    OBVIOUS
  <1>1. StudentOK(u)
    BY DEF IInv, RegistryInv
  <1>2. lab[Lab] # None => /\ MetricIds(lab'[Lab]) = MetricIds(lab[Lab])
                          /\ \A names : Stages(lab'[Lab], names) <=> Stages(lab[Lab], names)
    BY StructureDecides DEF StructureStays
  <1> QED BY <1>1, <1>2 DEF StudentOK, studentVars, StructureStays

LEMMA CallsKeep ==
  ASSUME IInv, NEW i \in Instructors, UNCHANGED <<now, lab, studentVars, evaluationVars>>,
         NEW c, call' = [call EXCEPT ![i] = c],
         c \in [pc : {"idle", "absent", "compared"}, id : LabIds \cup {None},
                next : {Normalize(m) : m \in Raw} \cup {None}],
         c.pc # "idle" => c.id \in LabIds /\ c.next \in {Normalize(m) : m \in Raw} /\ Valid(c.next),
         c.pc = "compared" => lab[c.id] # None /\ SameStructure(lab[c.id], c.next)
  PROVE  IInv'
  <1>1. TypeOK'
    BY DEF IInv, TypeOK, studentVars, evaluationVars
  <1>2. StructureStays
    BY SameStructureIsEquivalence DEF StructureStays
  <1>3. \A j \in Instructors : CallOK(j)'
    BY DEF IInv, RegistryInv, CallOK, TypeOK
  <1>4. LabsValid'
    BY DEF IInv, RegistryInv, LabsValid
  <1> QED BY <1>1, <1>2, <1>3, <1>4, StudentsFollow, EvaluationFollows DEF IInv, RegistryInv

LEMMA RegisterLabKeeps ==
  ASSUME IInv, NEW i \in Instructors, NEW m \in Raw,
         RegisterLab(i, m) \/ UpdateLab(i, Lab, m), UNCHANGED evaluationVars
  PROVE  IInv'
  <1>1. Normalize(m).id \in LabIds /\ Lab \in LabIds
    BY NormalizeKeeps, RegistryAssumption
  <1>2. CASE call' = [call EXCEPT ![i] = NoCall]
    <2>1. /\ NoCall \in [pc : {"idle", "absent", "compared"}, id : LabIds \cup {None},
                         next : {Normalize(n) : n \in Raw} \cup {None}]
          /\ NoCall.pc = "idle"
      BY DEF NoCall
    <2>2. UNCHANGED <<now, lab, studentVars, evaluationVars>>
      BY DEF RegisterLab, UpdateLab
    <2> QED BY <1>2, <2>1, <2>2, CallsKeep
  <1>3. CASE /\ RegisterLab(i, m) /\ Valid(Normalize(m))
             /\ call' = [call EXCEPT ![i] = [pc |-> "absent", id |-> Normalize(m).id, next |-> Normalize(m)]]
    <2> DEFINE c == [pc |-> "absent", id |-> Normalize(m).id, next |-> Normalize(m)]
    <2>1. UNCHANGED <<now, lab, studentVars, evaluationVars>>
      BY <1>3 DEF RegisterLab
    <2>2. /\ c \in [pc : {"idle", "absent", "compared"}, id : LabIds \cup {None},
                    next : {Normalize(n) : n \in Raw} \cup {None}]
          /\ c.pc = "absent" /\ c.id \in LabIds /\ c.next \in {Normalize(n) : n \in Raw} /\ Valid(c.next)
      BY <1>1, <1>3
    <2> QED BY <1>3, <2>1, <2>2, CallsKeep
  <1>4. CASE /\ UpdateLab(i, Lab, m) /\ Updatable(Lab, Normalize(m))
             /\ call' = [call EXCEPT ![i] = [pc |-> "compared", id |-> Lab, next |-> Normalize(m)]]
    <2> DEFINE c == [pc |-> "compared", id |-> Lab, next |-> Normalize(m)]
    <2>1. UNCHANGED <<now, lab, studentVars, evaluationVars>>
      BY <1>4 DEF UpdateLab
    <2>2. /\ c \in [pc : {"idle", "absent", "compared"}, id : LabIds \cup {None},
                    next : {Normalize(n) : n \in Raw} \cup {None}]
          /\ c.pc = "compared" /\ c.id \in LabIds /\ c.next \in {Normalize(n) : n \in Raw} /\ Valid(c.next)
          /\ lab[c.id] # None /\ SameStructure(lab[c.id], c.next)
      BY <1>1, <1>4 DEF Updatable
    <2> QED BY <1>4, <2>1, <2>2, CallsKeep
  <1> QED BY <1>2, <1>3, <1>4 DEF RegisterLab, UpdateLab, Answers

(* CreateLab writes where there was no row, UpdateLabManifest a manifest   *)
(* of the structure that was there.                                        *)
LEMMA WriteLabKeeps ==
  ASSUME IInv, NEW i \in Instructors, CreateLab(i) \/ UpdateLabManifest(i),
         UNCHANGED evaluationVars
  PROVE  IInv'
  <1> DEFINE c == call[i]
  <1>1. /\ UNCHANGED <<now, studentVars, evaluationVars>>
        /\ call' = [call EXCEPT ![i] = NoCall]
    BY DEF CreateLab, UpdateLabManifest, Answers
  <1>2. c.id \in LabIds /\ c.next \in {Normalize(m) : m \in Raw} /\ Valid(c.next) /\ c.next # None
    <2>1. CallOK(i) /\ c.pc # "idle"
      BY DEF IInv, RegistryInv, CreateLab, UpdateLabManifest
    <2> QED BY <2>1, NormalizeKeeps DEF CallOK
  <1>3. \/ lab' = lab
        \/ /\ lab' = [lab EXCEPT ![c.id] = c.next]
           /\ lab[c.id] # None => SameStructure(lab[c.id], c.next)
    <2>1. CASE CreateLab(i)
      BY <2>1 DEF CreateLab, Taken
    <2>2. CASE UpdateLabManifest(i)
      BY <2>2 DEF UpdateLabManifest, IInv, RegistryInv, CallOK
    <2> QED BY <2>1, <2>2
  <1> DEFINE Stored == {Normalize(m) : m \in Raw}
  <1>a. lab \in [LabIds -> Stored \cup {None}]
    BY DEF IInv, TypeOK
  <1>b. c.next \in Stored
    BY <1>2
  <1> HIDE DEF Stored
  <1>c. \A l \in LabIds : \/ lab'[l] = lab[l]
                          \/ /\ lab'[l] = c.next
                             /\ lab[l] # None => SameStructure(lab[l], c.next)
    BY <1>3, <1>a
  <1>4. \A l \in LabIds : lab[l] # None => lab'[l] # None /\ SameStructure(lab[l], lab'[l])
    BY <1>2, <1>c, SameStructureIsEquivalence
  <1>5. StructureStays
    BY <1>4, RegistryAssumption DEF StructureStays
  <1>6. TypeOK'
    <2>1. NoCall \in [pc : {"idle", "absent", "compared"}, id : LabIds \cup {None},
                      next : {Normalize(m) : m \in Raw} \cup {None}]
      BY DEF NoCall
    <2>2. lab' \in [LabIds -> Stored \cup {None}]
      BY <1>3, <1>a, <1>b
    <2>3. call' \in [Instructors -> [pc : {"idle", "absent", "compared"}, id : LabIds \cup {None},
                                    next : {Normalize(m) : m \in Raw} \cup {None}]]
      BY <1>1, <2>1 DEF IInv, TypeOK
    <2> QED BY <1>1, <2>2, <2>3 DEF IInv, TypeOK, studentVars, evaluationVars, Stored
  <1>7. LabsValid'
    BY <1>2, <1>c DEF IInv, RegistryInv, LabsValid
  <1>8. \A j \in Instructors : CallOK(j)'
    <2> SUFFICES ASSUME NEW j \in Instructors PROVE CallOK(j)'
      OBVIOUS
    <2>1. CASE j = i
      <3>1. call'[j].pc = "idle"
        BY <1>1, <2>1 DEF IInv, TypeOK, NoCall
      <3> QED BY <3>1 DEF CallOK
    <2>2. CASE j # i
      <3>1. call'[j] = call[j] /\ CallOK(j)
        BY <1>1, <2>2 DEF IInv, TypeOK, RegistryInv
      <3>2. ASSUME call[j].pc = "compared"
            PROVE  /\ lab'[call[j].id] # None
                   /\ SameStructure(lab'[call[j].id], call[j].next)
        <4>1. /\ call[j].id \in LabIds /\ lab[call[j].id] # None
              /\ SameStructure(lab[call[j].id], call[j].next)
          BY <3>1, <3>2 DEF CallOK
        <4> QED BY <1>4, <4>1, SameStructureIsEquivalence
      <3> QED BY <3>1, <3>2 DEF CallOK
    <2> QED BY <2>1, <2>2
  <1> QED BY <1>1, <1>5, <1>6, <1>7, <1>8, StudentsFollow, EvaluationFollows DEF IInv, RegistryInv

(* Of a student only what was checked is stored.                           *)
LEMMA StudentStepKeeps ==
  ASSUME IInv, NEW u \in Students, UNCHANGED evaluationVars,
         \/ \E t \in UNION {MetricIds(m) : m \in Raw} : CheckTrack(u, t)
         \/ \E up \in Uploads : CheckUpload(u, up)
         \/ UpsertTrack(u) \/ StoreUpload(u)
  PROVE  IInv'
  <1> DEFINE Metrics == UNION {MetricIds(m) : m \in Raw}
             Names == {Range(up.names) : up \in Uploads}
  <1>1. UNCHANGED <<now, registryVars, evaluationVars>>
    BY DEF CheckTrack, CheckUpload, UpsertTrack, StoreUpload
  <1>2. /\ track \in [Students -> Metrics \cup {None}] /\ pick \in [Students -> Metrics \cup {None}]
        /\ upload \in [Students -> Uploads \cup {None}] /\ accepted \in [Students -> Names \cup {None}]
    BY DEF IInv, TypeOK
  <1>3. /\ track' \in [Students -> Metrics \cup {None}] /\ pick' \in [Students -> Metrics \cup {None}]
        /\ upload' \in [Students -> Uploads \cup {None}] /\ accepted' \in [Students -> Names \cup {None}]
        /\ \A v \in Students : StudentOK(v)'
    <2>1. CASE \E t \in Metrics : CheckTrack(u, t)
      <3> PICK t \in Metrics : CheckTrack(u, t)
        BY <2>1
      <3>1. /\ pick' = [pick EXCEPT ![u] = t] /\ UNCHANGED <<lab, track, upload, accepted>>
            /\ lab[Lab] # None /\ t \in MetricIds(lab[Lab])
        BY DEF CheckTrack, registryVars
      <3> QED BY <1>2, <3>1 DEF IInv, RegistryInv, StudentOK
    <2>2. CASE \E up \in Uploads : CheckUpload(u, up)
      <3> PICK up \in Uploads : CheckUpload(u, up)
        BY <2>2
      <3>1. /\ upload' = [upload EXCEPT ![u] = up] /\ UNCHANGED <<lab, track, pick, accepted>>
            /\ lab[Lab] # None /\ Stages(lab[Lab], Range(up.names))
        BY DEF CheckUpload, registryVars, Accepts, Stages
      <3> QED BY <1>2, <3>1 DEF IInv, RegistryInv, StudentOK
    <2>3. CASE UpsertTrack(u)
      BY <1>2, <2>3 DEF UpsertTrack, registryVars, IInv, RegistryInv, StudentOK
    <2>4. CASE StoreUpload(u)
      <3>1. /\ upload' = [upload EXCEPT ![u] = None] /\ UNCHANGED <<lab, track, pick>>
            /\ accepted' \in {accepted, [accepted EXCEPT ![u] = Range(upload[u].names)]}
            /\ upload[u] # None
        BY <2>4 DEF StoreUpload, registryVars
      <3>2. upload[u] \in Uploads
        BY <1>2, <3>1
      <3>3. Range(upload[u].names) \in Names
        BY <3>2
      <3>4. lab[Lab] # None /\ Stages(lab[Lab], Range(upload[u].names))
        BY <3>1 DEF IInv, RegistryInv, StudentOK
      <3> HIDE DEF Names
      <3> QED BY <1>2, <3>1, <3>3, <3>4 DEF IInv, RegistryInv, StudentOK
    <2> QED BY <2>1, <2>2, <2>3, <2>4
  <1>4. TypeOK'
    BY <1>1, <1>3 DEF IInv, TypeOK, registryVars, evaluationVars
  <1>5. StructureStays /\ LabsValid' /\ \A i \in Instructors : CallOK(i)'
    BY <1>1, SameStructureIsEquivalence DEF IInv, RegistryInv, StructureStays, LabsValid, CallOK, registryVars
  <1> QED BY <1>1, <1>3, <1>4, <1>5, EvaluationFollows DEF IInv, RegistryInv

LEMMA RegistryStepKeeps ==
  ASSUME IInv, RegistryNext, UNCHANGED evaluationVars
  PROVE  IInv'
  <1>1. CASE Advance
    <2>1. now' \in 0 .. LastTime /\ UNCHANGED <<registryVars, studentVars, evaluationVars>>
      BY <1>1, RegistryAssumption DEF Advance, IInv, TypeOK
    <2>2. TypeOK'
      BY <2>1 DEF IInv, TypeOK, registryVars, studentVars, evaluationVars
    <2>3. StructureStays /\ LabsValid' /\ \A i \in Instructors : CallOK(i)'
      BY <2>1, SameStructureIsEquivalence DEF IInv, RegistryInv, StructureStays, LabsValid, CallOK, registryVars
    <2> QED BY <2>1, <2>2, <2>3, StudentsFollow, EvaluationFollows DEF IInv, RegistryInv
  <1> QED BY <1>1, RegisterLabKeeps, WriteLabKeeps, StudentStepKeeps DEF RegistryNext

-----------------------------------------------------------------------------
(* The steps of a worker that holds a submission.                          *)

Process ==
  [pc : Holding \cup {"idle", "down"}, sub : Students \cup {None},
   lab : {Normalize(m) : m \in Raw} \cup {None},
   owes : SUBSET {"workspace", "stage", "container"},
   result : Outputs \cup {Failed, Interrupted, None}]

EffectsTyped ==
  /\ dirs \in [Students -> SUBSET {"workspace", "stage"}]
  /\ container \in [Students -> {"none", "ready", "running", "exited"}]
  /\ output \in [Students -> [line : Outputs \cup {None}, ok : BOOLEAN]]
  /\ judgement \in [Students -> Outputs \cup {Failed, Interrupted, None}]
  /\ orphans \in [Students -> SUBSET {"workspace", "stage", "container"}]

Untouched(s) ==
  /\ dirs'[s] = dirs[s] /\ container'[s] = container[s]
  /\ judgement'[s] = judgement[s] /\ orphans'[s] = orphans[s]

LeftThen(s) ==
  /\ dirs'[s] \subseteq orphans'[s]
  /\ container'[s] # "none" => "container" \in orphans'[s]

(* The worker changes its own state and what belongs to its submission.    *)
LEMMA StepKeeps ==
  ASSUME IInv, NEW w \in Workers, run[w].pc \in Holding,
         NEW r \in Process, run' = [run EXCEPT ![w] = r], r.sub \in {Sub(w), None},
         UNCHANGED <<now, registryVars, studentVars, stopping, claimed, output>>,
         EffectsTyped', \A s \in Students \ {Sub(w)} : Untouched(s),
         WorkerOK(w)',
         r.sub = None => LeftThen(Sub(w)),
         Judged(judgement'[Sub(w)], lab[Lab], output[Sub(w)]),
         output[Sub(w)].ok => container'[Sub(w)] \notin {"ready", "running"}
  PROVE  IInv'
  <1>1. run \in [Workers -> Process]
    BY DEF IInv, TypeOK, Process
  <1>2. run'[w] = r /\ \A v \in Workers \ {w} : run'[v] = run[v]
    BY <1>1
  <1>3. TypeOK'
    <2>1. run' \in [Workers -> Process]
      BY <1>1
    <2> QED BY <2>1 DEF IInv, TypeOK, EffectsTyped, Process, registryVars, studentVars
  <1>4. RegistryInv'
    BY DEF IInv, RegistryInv, LabsValid, CallOK, StudentOK, registryVars, studentVars
  <1>5. Sub(w) \in Students /\ Sub(w) \in claimed /\ Sub(w) # None
    BY EvaluationAssumption DEF IInv, EvaluationInv, WorkerOK, Sub
  <1>6. \A v \in Workers \ {w} : run[v].sub # Sub(w)
    BY <1>5 DEF IInv, EvaluationInv, ClaimsApart, Sub
  <1>7. lab' = lab
    BY DEF registryVars
  <1>8. \A v \in Workers : WorkerOK(v)'
    <2> SUFFICES ASSUME NEW v \in Workers, v # w PROVE WorkerOK(v)'
      OBVIOUS
    <2>1. run'[v] = run[v] /\ WorkerOK(v) /\ (run[v].sub \in Students => Untouched(run[v].sub))
      BY <1>2, <1>6 DEF IInv, EvaluationInv
    <2> QED BY <1>7, <2>1 DEF WorkerOK, Known, Traces, Untouched, Verdict, Earned
  <1>9. ClaimsApart'
    BY <1>2, <1>5, <1>6 DEF IInv, EvaluationInv, ClaimsApart, Sub
  <1>10. \A s \in Students : SubmissionOK(s)'
    <2> SUFFICES ASSUME NEW s \in Students PROVE SubmissionOK(s)'
      OBVIOUS
    <2>1. SubmissionOK(s)
      BY DEF IInv, EvaluationInv
    <2>2. CASE s = Sub(w)
      <3>1. r.sub # None => run'[w].sub = s
        BY <1>2, <2>2
      <3> QED BY <1>5, <1>7, <2>1, <2>2, <3>1
        DEF SubmissionOK, Unclaimed, Left, LeftThen, Ended, Judged, Earned, Verdict
    <2>3. CASE s # Sub(w)
      <3>1. (\A v \in Workers : run'[v].sub # s) => \A v \in Workers : run[v].sub # s
        BY <1>2, <2>3 DEF Sub
      <3>2. Untouched(s)
        BY <2>3
      <3> QED BY <1>7, <2>1, <3>1, <3>2
        DEF SubmissionOK, Unclaimed, Left, Untouched, Ended, Judged, Earned, Verdict
    <2> QED BY <2>2, <2>3
  <1> QED BY <1>3, <1>4, <1>8, <1>9, <1>10 DEF IInv, EvaluationInv

(* The same, when nothing but the worker changes.                          *)
LEMMA QuietStepKeeps ==
  ASSUME IInv, NEW w \in Workers, run[w].pc \in Holding,
         NEW r \in Process, run' = [run EXCEPT ![w] = r], r.sub \in {Sub(w), None},
         UNCHANGED <<now, registryVars, studentVars, stopping, claimed>>,
         UNCHANGED <<dirs, container, output, judgement, orphans>>,
         WorkerOK(w)',
         r.sub = None => Left(Sub(w))
  PROVE  IInv'
  <1>1. EffectsTyped' /\ \A s \in Students : Untouched(s)
    BY DEF IInv, TypeOK, EffectsTyped, Untouched
  <1>2. /\ Judged(judgement'[Sub(w)], lab[Lab], output[Sub(w)])
        /\ output[Sub(w)].ok => container'[Sub(w)] \notin {"ready", "running"}
    BY DEF IInv, EvaluationInv, SubmissionOK, Ended, WorkerOK, Sub
  <1>3. Left(Sub(w)) => LeftThen(Sub(w))
    BY DEF Left, LeftThen
  <1> QED BY <1>1, <1>2, <1>3, StepKeeps

(* What is known of a worker that holds a submission.                      *)
LEMMA Holder ==
  ASSUME IInv, NEW w \in Workers, run[w].pc \in Holding
  PROVE  /\ run \in [Workers -> Process] /\ run[w] \in Process
         /\ Sub(w) \in Students /\ Sub(w) \in claimed /\ Sub(w) # None /\ Sub(w) = run[w].sub
         /\ run[w].pc # "persisted" => judgement[Sub(w)] = None
         /\ Known(w) /\ Traces(w)
         /\ lab[Lab] # None /\ lab[Lab] \in {Normalize(m) : m \in Raw} /\ Valid(lab[Lab])
         /\ EffectsTyped /\ Ended(Sub(w))
  <1>1. Lab \in LabIds
    BY RegistryAssumption
  <1>2. run \in [Workers -> Process] /\ EffectsTyped
    BY DEF IInv, TypeOK, Process, EffectsTyped
  <1>3. WorkerOK(w) /\ Sub(w) = run[w].sub
    BY DEF IInv, EvaluationInv, Sub
  <1>4. Sub(w) \in Students /\ Sub(w) \in claimed /\ Sub(w) # None
    BY <1>3, EvaluationAssumption DEF WorkerOK
  <1>5. lab[Lab] # None /\ Ended(Sub(w))
    BY <1>4 DEF IInv, EvaluationInv, SubmissionOK
  <1>6. lab[Lab] \in {Normalize(m) : m \in Raw} /\ Valid(lab[Lab])
    BY <1>1, <1>5 DEF IInv, TypeOK, RegistryInv, LabsValid
  <1> QED BY <1>2, <1>3, <1>4, <1>5, <1>6 DEF WorkerOK

(* A process that ends with nothing of its submission left.                *)
LEMMA ExitKeeps ==
  ASSUME IInv, NEW w \in Workers, run[w].pc \in Holding,
         NEW pc \in {"idle", "down"}, run' = [run EXCEPT ![w] = Resting(pc)],
         UNCHANGED <<now, registryVars, studentVars, stopping, claimed>>,
         UNCHANGED <<dirs, container, output, judgement, orphans>>,
         Left(Sub(w))
  PROVE  IInv'
  <1>1. Resting(pc) \in Process /\ Resting(pc).sub = None /\ Resting(pc).pc \notin Holding
        /\ Resting(pc).owes = {}
    BY DEF Resting, Process, Holding
  <1>2. WorkerOK(w)'
    BY <1>1, Holder, EvaluationAssumption DEF WorkerOK
  <1> QED BY <1>1, <1>2, QuietStepKeeps

(* What the deferred calls and Persist may find when evaluate has ended.   *)
Fits(w, v) ==
  /\ v \in Outputs \cup {Failed, Interrupted}
  /\ Verdict(v, run[w].lab)
  /\ v = Interrupted => stopping[w]
  /\ v \notin {Failed, Interrupted} => Earned(v, output[Sub(w)])

LEMMA ErrorsFit ==
  ASSUME NEW w \in Workers
  PROVE  /\ Fits(w, Failed) /\ Fits(w, Cause(w))
         /\ stopping[w] => Fits(w, Interrupted)
  <1>1. Failed # Interrupted
    BY DEF Failed, Interrupted
  <1>2. Verdict(Failed, run[w].lab) /\ Verdict(Interrupted, run[w].lab)
    BY EvaluationAssumption DEF Verdict, Failed, Interrupted, Verdicts
  <1> QED BY <1>1, <1>2 DEF Fits, Cause

(* evaluate ends: what the worker is then, whatever else happens.          *)
LEMMA EndsMeans ==
  ASSUME IInv, NEW w \in Workers, run[w].pc \in Holding \ {"persisted", "claimed"},
         NEW v, Fits(w, v), Ends(w, v),
         UNCHANGED <<lab, stopping, claimed, output, judgement>>,
         dirs'[Sub(w)] \subseteq run[w].owes \cup orphans'[Sub(w)],
         container'[Sub(w)] # "none" => "container" \in run[w].owes \cup orphans'[Sub(w)]
  PROVE  \E r \in Process : /\ run' = [run EXCEPT ![w] = r] /\ r.sub = Sub(w)
                            /\ WorkerOK(w)'
  <1> DEFINE r == [run[w] EXCEPT !.pc = "undoing", !.result = v]
  <1>1. run' = [run EXCEPT ![w] = r]
    BY Holder DEF Ends
  <1>2. r \in Process /\ r.sub = Sub(w) /\ r.pc = "undoing" /\ r.result = v
        /\ r.lab = run[w].lab /\ r.owes = run[w].owes
    BY Holder, ZenonT(60) DEF Process, Holding, Fits
  <1> HIDE DEF r
  <1>3. run'[w] = r
    BY <1>1, Holder
  <1>4. Known(w)'
    BY <1>2, <1>3, Holder DEF Known, Verdict, Fits, Earned
  <1>5. Traces(w)'
    BY <1>2, <1>3, Holder DEF Traces, Early
  <1>6. WorkerOK(w)'
    BY <1>2, <1>3, <1>4, <1>5, Holder DEF WorkerOK, Holding
  <1> QED BY <1>1, <1>2, <1>6

(* evaluate ends and nothing else happens.                                 *)
LEMMA EndKeeps ==
  ASSUME IInv, NEW w \in Workers, run[w].pc \in Holding \ {"persisted", "claimed"},
         NEW v, Fits(w, v), Ends(w, v),
         UNCHANGED <<now, registryVars, studentVars, stopping, claimed>>,
         UNCHANGED <<dirs, container, output, judgement, orphans>>
  PROVE  IInv'
  <1>1. /\ lab' = lab
        /\ dirs'[Sub(w)] \subseteq run[w].owes \cup orphans'[Sub(w)]
        /\ container'[Sub(w)] # "none" => "container" \in run[w].owes \cup orphans'[Sub(w)]
    BY Holder DEF Traces, registryVars
  <1>2. PICK r \in Process : /\ run' = [run EXCEPT ![w] = r] /\ r.sub = Sub(w)
                            /\ WorkerOK(w)'
    BY <1>1, EndsMeans
  <1> QED BY <1>2, Holder, QuietStepKeeps

(* The next step of evaluate has nothing to do outside the process.        *)
LEMMA GoesKeeps ==
  ASSUME IInv, NEW w \in Workers, NEW pc \in Holding,
         <<run[w].pc, pc>> \in {<<"loaded", "running">>, <<"unpacking", "extracted">>,
                              <<"created", "copied">>},
         Goes(w, pc),
         UNCHANGED <<now, registryVars, studentVars, stopping, claimed>>,
         UNCHANGED <<dirs, container, output, judgement, orphans>>
  PROVE  IInv'
  <1> DEFINE r == [run[w] EXCEPT !.pc = pc]
  <1>0. run[w].pc \in Holding
    BY DEF Holding
  <1>1. run' = [run EXCEPT ![w] = r]
    BY <1>0, Holder DEF Goes
  <1>2. r \in Process /\ r.sub = Sub(w) /\ r.pc = pc /\ r.lab = run[w].lab /\ r.owes = run[w].owes
    BY <1>0, Holder DEF Process
  <1> HIDE DEF r
  <1>3. run'[w] = r
    BY <1>0, <1>1, Holder
  <1>4. WorkerOK(w)'
    <2>1. Known(w)'
      BY <1>0, <1>2, <1>3, Holder DEF Known, registryVars
    <2>2. Traces(w)'
      BY <1>0, <1>2, <1>3, Holder DEF Traces, Early
    <2> QED BY <1>0, <1>2, <1>3, <2>1, <2>2, Holder DEF WorkerOK, Holding
  <1> QED BY <1>0, <1>1, <1>2, <1>4, Holder, QuietStepKeeps

-----------------------------------------------------------------------------
(* The handler, step by step.                                              *)

Aside == UNCHANGED <<now, registryVars, studentVars>>

LEMMA LoadKeeps ==
  ASSUME IInv, NEW w \in Workers, Load(w), Aside
  PROVE  IInv'
  <1>1. run[w].pc = "claimed" /\ run[w].pc \in Holding
    BY DEF Load, Holding
  <1>2. CASE Exits(w)
    <2>1. Left(Sub(w))
      BY <1>1, Holder DEF Left, Traces
    <2> QED BY <1>1, <1>2, <2>1, ExitKeeps DEF Load, Exits, Aside
  <1>3. CASE run' = [run EXCEPT ![w].pc = "loaded", ![w].lab = lab[Lab]]
    <2> DEFINE r == [run[w] EXCEPT !.pc = "loaded", !.lab = lab[Lab]]
    <2>1. run' = [run EXCEPT ![w] = r]
      BY <1>1, <1>3, Holder
    <2>2. /\ r \in Process /\ r.sub = Sub(w) /\ r.pc = "loaded" /\ r.lab = lab[Lab]
          /\ r.owes = run[w].owes
      BY <1>1, Holder, ZenonT(60) DEF Process, Holding
    <2> HIDE DEF r
    <2>3. run'[w] = r
      BY <1>1, <2>1, Holder
    <2>4. WorkerOK(w)'
      <3>1. Known(w)'
        BY <1>1, <2>2, <2>3, Holder, SameStructureIsEquivalence DEF Known, registryVars, Aside
      <3>2. Traces(w)'
        BY <1>1, <2>2, <2>3, Holder DEF Traces, Early, Load
      <3> QED BY <1>1, <2>2, <2>3, <3>1, <3>2, Holder DEF WorkerOK, Load, Holding
    <2> QED BY <1>1, <2>1, <2>2, <2>4, Holder, QuietStepKeeps DEF Load, Aside
  <1> QED BY <1>2, <1>3 DEF Load

LEMMA MarkRunningKeeps ==
  ASSUME IInv, NEW w \in Workers, MarkRunning(w), Aside
  PROVE  IInv'
  <1>1. run[w].pc = "loaded" /\ run[w].pc \in Holding /\ "running" \in Holding
    BY DEF MarkRunning, Holding
  <1>2. CASE Exits(w)
    <2>1. Left(Sub(w))
      BY <1>1, Holder DEF Left, Traces
    <2> QED BY <1>1, <1>2, <2>1, ExitKeeps DEF MarkRunning, Exits, Aside
  <1>3. CASE Goes(w, "running")
    BY <1>1, <1>3, GoesKeeps DEF MarkRunning, Aside
  <1> QED BY <1>2, <1>3 DEF MarkRunning

(* CreateWorkspace, Stage and CreateContainer make what the deferred calls *)
(* remove.                                                                 *)
LEMMA MakesMeans ==
  ASSUME IInv, NEW w \in Workers, NEW pc, NEW thing,
         <<run[w].pc, pc, thing>> \in {<<"running", "unpacking", "workspace">>,
                                     <<"extracted", "staged", "stage">>,
                                     <<"staged", "created", "container">>},
         Makes(w, pc, thing),
         UNCHANGED <<lab, stopping, claimed, output, judgement, orphans>>,
         dirs'[Sub(w)] \subseteq run[w].owes \cup {thing} \cup orphans[Sub(w)],
         container'[Sub(w)] # "running",
         container'[Sub(w)] # "none" =>
           "container" \in run[w].owes \cup {thing} \cup orphans[Sub(w)]
  PROVE  \E r \in Process : /\ run' = [run EXCEPT ![w] = r] /\ r.sub = Sub(w)
                            /\ WorkerOK(w)'
  <1> DEFINE r == [run[w] EXCEPT !.pc = pc, !.owes = run[w].owes \cup {thing}]
  <1>0. /\ run[w].pc \in Holding \ {"persisted", "claimed", "undoing", "judged"}
        /\ run[w].pc \in Early /\ pc \in Holding
    BY DEF Holding, Early
  <1>1. run' = [run EXCEPT ![w] = r]
    BY <1>0, Holder DEF Makes
  <1>2. r \in Process /\ r.sub = Sub(w) /\ r.pc = pc /\ r.owes = run[w].owes \cup {thing}
        /\ r.lab = run[w].lab
    BY <1>0, Holder, ZenonT(60) DEF Process
  <1> HIDE DEF r
  <1>3. run'[w] = r
    BY <1>0, <1>1, Holder
  <1>4. Known(w)'
    BY <1>0, <1>2, <1>3, Holder DEF Known
  <1>5. Traces(w)'
    BY <1>0, <1>2, <1>3, Holder DEF Traces
  <1>6. WorkerOK(w)'
    BY <1>0, <1>2, <1>3, <1>4, <1>5, Holder DEF WorkerOK
  <1> QED BY <1>1, <1>2, <1>6

LEMMA CreateWorkspaceKeeps ==
  ASSUME IInv, NEW w \in Workers, CreateWorkspace(w), Aside
  PROVE  IInv'
  <1>1. run[w].pc = "running" /\ run[w].pc \in Holding \ {"persisted", "claimed"}
        /\ run[w].pc \in Early
    BY DEF CreateWorkspace, Holding, Early
  <1>2. CASE Ends(w, Failed) /\ dirs' = dirs
    BY <1>1, <1>2, ErrorsFit, EndKeeps DEF CreateWorkspace, Aside
  <1>3. CASE /\ Makes(w, "unpacking", "workspace")
             /\ dirs' = [dirs EXCEPT ![Sub(w)] = {"workspace"}]
    <2>1. UNCHANGED <<now, registryVars, studentVars, stopping, claimed, container, output, judgement, orphans>>
      BY DEF CreateWorkspace, Aside
    <2>2. EffectsTyped' /\ \A s \in Students \ {Sub(w)} : Untouched(s)
      BY <1>1, <1>3, <2>1, Holder DEF EffectsTyped, Untouched
    <2>3. dirs'[Sub(w)] = {"workspace"} /\ lab' = lab /\ judgement'[Sub(w)] = None
      BY <1>1, <1>3, <2>1, Holder DEF EffectsTyped, registryVars
    <2>4. PICK r \in Process : run' = [run EXCEPT ![w] = r] /\ r.sub = Sub(w) /\ WorkerOK(w)'
      BY <1>1, <1>3, <2>1, <2>3, Holder, MakesMeans DEF Traces
    <2>5. /\ Judged(judgement'[Sub(w)], lab[Lab], output[Sub(w)])
          /\ output[Sub(w)].ok => container'[Sub(w)] \notin {"ready", "running"}
      BY <1>1, <2>1, <2>3, Holder DEF Judged, Ended
    <2> QED BY <1>1, <2>1, <2>2, <2>4, <2>5, Holder, StepKeeps
  <1> QED BY <1>2, <1>3 DEF CreateWorkspace

LEMMA ExtractKeeps ==
  ASSUME IInv, NEW w \in Workers, Extract(w), Aside
  PROVE  IInv'
  <1>1. run[w].pc = "unpacking" /\ run[w].pc \in Holding \ {"persisted", "claimed"}
        /\ "extracted" \in Holding
    BY DEF Extract, Holding
  <1> QED BY <1>1, GoesKeeps, ErrorsFit, EndKeeps DEF Extract, Aside

LEMMA StageKeeps ==
  ASSUME IInv, NEW w \in Workers, Stage(w), Aside
  PROVE  IInv'
  <1>1. run[w].pc = "extracted" /\ run[w].pc \in Holding \ {"persisted", "claimed"}
        /\ run[w].pc \in Early
    BY DEF Stage, Holding, Early
  <1>2. UNCHANGED <<now, registryVars, studentVars, stopping, claimed, container, output, judgement>>
    BY DEF Stage, Aside
  <1>3. /\ lab' = lab /\ judgement'[Sub(w)] = None
        /\ Judged(judgement'[Sub(w)], lab[Lab], output[Sub(w)])
        /\ output[Sub(w)].ok => container'[Sub(w)] \notin {"ready", "running"}
    BY <1>1, <1>2, Holder DEF Judged, Ended, registryVars
  <1>4. CASE Ends(w, Failed) /\ UNCHANGED <<dirs, orphans>>
    BY <1>1, <1>2, <1>4, ErrorsFit, EndKeeps
  <1>5. CASE /\ Makes(w, "staged", "stage")
             /\ dirs' = [dirs EXCEPT ![Sub(w)] = @ \cup {"stage"}] /\ orphans' = orphans
    <2>1. EffectsTyped' /\ \A s \in Students \ {Sub(w)} : Untouched(s)
      BY <1>1, <1>2, <1>5, Holder DEF EffectsTyped, Untouched
    <2>2. dirs'[Sub(w)] = dirs[Sub(w)] \cup {"stage"}
      BY <1>1, <1>5, Holder DEF EffectsTyped
    <2>3. PICK r \in Process : run' = [run EXCEPT ![w] = r] /\ r.sub = Sub(w) /\ WorkerOK(w)'
      BY <1>1, <1>2, <1>3, <1>5, <2>2, Holder, MakesMeans DEF Traces
    <2> QED BY <1>1, <1>2, <1>3, <2>1, <2>3, Holder, StepKeeps
  <1>6. CASE /\ Ends(w, Failed)
             /\ dirs' = [dirs EXCEPT ![Sub(w)] = @ \cup {"stage"}]
             /\ orphans' = [orphans EXCEPT ![Sub(w)] = @ \cup {"stage"}]
    <2>1. EffectsTyped' /\ \A s \in Students \ {Sub(w)} : Untouched(s)
      BY <1>1, <1>2, <1>6, Holder DEF EffectsTyped, Untouched
    <2>2. /\ dirs'[Sub(w)] = dirs[Sub(w)] \cup {"stage"}
          /\ orphans'[Sub(w)] = orphans[Sub(w)] \cup {"stage"}
      BY <1>1, <1>6, Holder DEF EffectsTyped
    <2>3. PICK r \in Process : run' = [run EXCEPT ![w] = r] /\ r.sub = Sub(w) /\ WorkerOK(w)'
      BY <1>1, <1>2, <1>3, <1>6, <2>2, Holder, ErrorsFit, EndsMeans DEF Traces
    <2> QED BY <1>1, <1>2, <1>3, <2>1, <2>3, Holder, StepKeeps
  <1> QED BY <1>4, <1>5, <1>6 DEF Stage

(* docker create, copy and start: what the client does not know of it has  *)
(* been cut off from.                                                      *)
LEMMA CreateContainerKeeps ==
  ASSUME IInv, NEW w \in Workers, CreateContainer(w), Aside
  PROVE  IInv'
  <1>1. run[w].pc = "staged" /\ run[w].pc \in Holding \ {"persisted", "claimed"}
        /\ run[w].pc \in Early
    BY DEF CreateContainer, Holding, Early
  <1>2. UNCHANGED <<now, registryVars, studentVars, stopping, claimed, dirs, output, judgement>>
    BY DEF CreateContainer, Aside
  <1>3. /\ lab' = lab /\ judgement'[Sub(w)] = None
        /\ Judged(judgement'[Sub(w)], lab[Lab], output[Sub(w)])
        /\ ~output[Sub(w)].ok
    BY <1>1, <1>2, Holder DEF Judged, Traces, registryVars
  <1>4. CASE Ends(w, Cause(w)) /\ UNCHANGED <<container, orphans>>
    BY <1>1, <1>2, <1>4, ErrorsFit, EndKeeps
  <1>5. CASE /\ Makes(w, "created", "container")
             /\ container' = [container EXCEPT ![Sub(w)] = "ready"] /\ orphans' = orphans
    <2>1. EffectsTyped' /\ \A s \in Students \ {Sub(w)} : Untouched(s)
      BY <1>1, <1>2, <1>5, Holder DEF EffectsTyped, Untouched
    <2>2. container'[Sub(w)] = "ready"
      BY <1>1, <1>5, Holder DEF EffectsTyped
    <2>3. PICK r \in Process : run' = [run EXCEPT ![w] = r] /\ r.sub = Sub(w) /\ WorkerOK(w)'
      BY <1>1, <1>2, <1>3, <1>5, <2>2, Holder, MakesMeans DEF Traces
    <2> QED BY <1>1, <1>2, <1>3, <2>1, <2>3, Holder, StepKeeps
  <1>6. CASE /\ stopping[w] /\ Ends(w, Interrupted)
             /\ container' = [container EXCEPT ![Sub(w)] = "ready"]
             /\ orphans' = [orphans EXCEPT ![Sub(w)] = @ \cup {"container"}]
    <2>1. EffectsTyped' /\ \A s \in Students \ {Sub(w)} : Untouched(s)
      BY <1>1, <1>2, <1>6, Holder DEF EffectsTyped, Untouched
    <2>2. orphans'[Sub(w)] = orphans[Sub(w)] \cup {"container"}
      BY <1>1, <1>6, Holder DEF EffectsTyped
    <2>3. PICK r \in Process : run' = [run EXCEPT ![w] = r] /\ r.sub = Sub(w) /\ WorkerOK(w)'
      BY <1>1, <1>2, <1>3, <1>6, <2>2, Holder, ErrorsFit, EndsMeans DEF Traces
    <2> QED BY <1>1, <1>2, <1>3, <2>1, <2>3, Holder, StepKeeps
  <1> QED BY <1>4, <1>5, <1>6 DEF CreateContainer

LEMMA CopySubmissionKeeps ==
  ASSUME IInv, NEW w \in Workers, CopySubmission(w), Aside
  PROVE  IInv'
  <1>1. run[w].pc = "created" /\ run[w].pc \in Holding \ {"persisted", "claimed"}
        /\ "copied" \in Holding
    BY DEF CopySubmission, Holding
  <1> QED BY <1>1, GoesKeeps, ErrorsFit, EndKeeps DEF CopySubmission, Aside

LEMMA StartContainerKeeps ==
  ASSUME IInv, NEW w \in Workers, StartContainer(w), Aside
  PROVE  IInv'
  <1>1. run[w].pc = "copied" /\ run[w].pc \in Holding \ {"persisted", "claimed"}
        /\ run[w].pc \in Early /\ "started" \in Holding
    BY DEF StartContainer, Holding, Early
  <1>2. "container" \in run[w].owes /\ ~output[Sub(w)].ok
    BY <1>1, Holder DEF Traces
  <1>3. CASE Ends(w, Cause(w)) /\ UNCHANGED container
    BY <1>1, <1>3, ErrorsFit, EndKeeps DEF StartContainer, Aside
  <1>4. CASE Goes(w, "started") /\ container' = [container EXCEPT ![Sub(w)] = "running"]
    <2> DEFINE r == [run[w] EXCEPT !.pc = "started"]
    <2>1. run' = [run EXCEPT ![w] = r]
      BY <1>1, <1>4, Holder DEF Goes
    <2>2. /\ r \in Process /\ r.sub = Sub(w) /\ r.pc = "started" /\ r.lab = run[w].lab
          /\ r.owes = run[w].owes
      BY <1>1, Holder DEF Process, Holding
    <2> HIDE DEF r
    <2>3. run'[w] = r
      BY <1>1, <2>1, Holder
    <2>4. UNCHANGED <<now, registryVars, studentVars, stopping, claimed, dirs, output, judgement, orphans>>
      BY DEF StartContainer, Aside
    <2>5. /\ EffectsTyped' /\ \A s \in Students \ {Sub(w)} : Untouched(s)
          /\ Judged(judgement'[Sub(w)], lab[Lab], output[Sub(w)])
      BY <1>1, <1>4, <2>4, Holder DEF EffectsTyped, Untouched, Judged
    <2>6. WorkerOK(w)'
      <3>1. Known(w)' /\ Traces(w)'
        BY <1>1, <1>2, <2>2, <2>3, <2>4, Holder DEF Known, Traces, Early, registryVars
      <3> QED BY <1>1, <2>2, <2>3, <2>4, <3>1, Holder DEF WorkerOK, Holding
    <2> QED BY <1>1, <1>2, <2>1, <2>2, <2>4, <2>5, <2>6, Holder, StepKeeps
  <1> QED BY <1>3, <1>4 DEF StartContainer

(* The output is taken for a result only when the manifest permits it and  *)
(* the container ended well.                                               *)
LEMMA ReadOutputKeeps ==
  ASSUME IInv, NEW w \in Workers, ReadOutput(w), Aside
  PROVE  IInv'
  <1> DEFINE out == output[Sub(w)]
             v == ResultOf(run[w].lab, out)
  <1>1. run[w].pc = "started" /\ run[w].pc \in Holding \ {"persisted", "claimed"}
    BY DEF ReadOutput, Holding
  <1>2. out.line \in Outputs \cup {None}
    BY <1>1, Holder DEF EffectsTyped
  <1>3. Fits(w, v)
    <2>1. CASE v = Failed
      BY <2>1, ErrorsFit
    <2>2. CASE v = out.line /\ out.ok /\ v # None /\ Permits(run[w].lab, v)
      BY <1>2, <2>2, EvaluationAssumption DEF Fits, Earned, Verdict, Permits
    <2> QED BY <2>1, <2>2 DEF ResultOf
  <1>4. Ends(w, v)
    BY DEF ReadOutput
  <1> HIDE DEF v
  <1> QED BY <1>1, <1>3, <1>4, EndKeeps DEF ReadOutput, Aside

LEMMA TimeOutKeeps ==
  ASSUME IInv, NEW w \in Workers, TimeOut(w) \/ Interrupt(w), Aside
  PROVE  IInv'
  <1>1. run[w].pc = "started" /\ run[w].pc \in Holding \ {"persisted", "claimed"}
    BY DEF TimeOut, Interrupt, Holding
  <1> QED BY <1>1, ErrorsFit, EndKeeps DEF TimeOut, Interrupt, Aside

-----------------------------------------------------------------------------
(* The deferred calls, and what is left when the handler is done.          *)

(* One of the deferred calls has run, whatever became of what it removes.  *)
LEMMA RemovesMeans ==
  ASSUME IInv, NEW w \in Workers, run[w].pc = "undoing", NEW thing,
         thing = "container" \/ "container" \notin run[w].owes,
         run' = [run EXCEPT ![w].owes = @ \ {thing}],
         UNCHANGED <<lab, stopping, claimed, output, judgement>>,
         dirs'[Sub(w)] \subseteq (run[w].owes \ {thing}) \cup orphans'[Sub(w)],
         container'[Sub(w)] # "none" => "container" \in (run[w].owes \ {thing}) \cup orphans'[Sub(w)]
  PROVE  \E r \in Process : /\ run' = [run EXCEPT ![w] = r] /\ r.sub = Sub(w)
                            /\ WorkerOK(w)'
  <1> DEFINE r == [run[w] EXCEPT !.owes = run[w].owes \ {thing}]
  <1>0. run[w].pc \in Holding
    BY DEF Holding
  <1>1. run' = [run EXCEPT ![w] = r]
    BY <1>0, Holder
  <1>2. r \in Process /\ r.sub = Sub(w) /\ r.pc = "undoing" /\ r.lab = run[w].lab
        /\ r.owes = run[w].owes \ {thing} /\ r.result = run[w].result
    BY <1>0, Holder DEF Process, Holding
  <1> HIDE DEF r
  <1>3. run'[w] = r
    BY <1>0, <1>1, Holder
  <1>4. Known(w)'
    BY <1>0, <1>2, <1>3, Holder DEF Known, Verdict, Earned
  <1>5. Traces(w)'
    BY <1>0, <1>2, <1>3, Holder DEF Traces, Early
  <1>6. WorkerOK(w)'
    BY <1>0, <1>2, <1>3, <1>4, <1>5, Holder DEF WorkerOK
  <1> QED BY <1>1, <1>2, <1>6

LEMMA RemoveContainerKeeps ==
  ASSUME IInv, NEW w \in Workers, RemoveContainer(w), Aside
  PROVE  IInv'
  <1>1. run[w].pc = "undoing" /\ run[w].pc \in Holding
    BY DEF RemoveContainer, Holding
  <1>2. /\ UNCHANGED <<now, registryVars, studentVars, stopping, claimed, dirs, output, judgement>>
        /\ lab' = lab
    BY DEF RemoveContainer, Aside, registryVars
  <1>3. \/ container' = [container EXCEPT ![Sub(w)] = "none"] /\ orphans' = orphans
        \/ container' = container /\ orphans' = [orphans EXCEPT ![Sub(w)] = @ \cup {"container"}]
    BY DEF RemoveContainer, RemovedBy, Removed
  <1>4. /\ EffectsTyped' /\ \A s \in Students \ {Sub(w)} : Untouched(s)
        /\ container'[Sub(w)] = "none" \/ "container" \in orphans'[Sub(w)]
        /\ orphans[Sub(w)] \subseteq orphans'[Sub(w)]
        /\ container'[Sub(w)] \in {"none", container[Sub(w)]}
    BY <1>1, <1>2, <1>3, Holder DEF EffectsTyped, Untouched
  <1>5. /\ Judged(judgement'[Sub(w)], lab[Lab], output[Sub(w)])
        /\ output[Sub(w)].ok => container'[Sub(w)] \notin {"ready", "running"}
    BY <1>1, <1>2, <1>4, Holder DEF Judged, Ended
  <1>6. dirs[Sub(w)] \subseteq (run[w].owes \ {"container"}) \cup orphans'[Sub(w)]
    BY <1>1, <1>4, Holder DEF Traces, EffectsTyped
  <1>7. PICK r \in Process : run' = [run EXCEPT ![w] = r] /\ r.sub = Sub(w) /\ WorkerOK(w)'
    BY <1>1, <1>2, <1>4, <1>6, RemovesMeans DEF RemoveContainer
  <1> QED BY <1>1, <1>2, <1>4, <1>5, <1>7, Holder, StepKeeps

LEMMA RemoveDirectoryKeeps ==
  ASSUME IInv, NEW w \in Workers, RemoveDirectory(w), Aside
  PROVE  IInv'
  <1>1. run[w].pc = "undoing" /\ run[w].pc \in Holding /\ "container" \notin run[w].owes
    BY DEF RemoveDirectory, Holding
  <1>2. /\ UNCHANGED <<now, registryVars, studentVars, stopping, claimed, container, output, judgement>>
        /\ lab' = lab
    BY DEF RemoveDirectory, Aside, registryVars
  <1>3. PICK last \in {"stage", "workspace"} :
          /\ run' = [run EXCEPT ![w].owes = @ \ {last}]
          /\ \/ dirs' = [dirs EXCEPT ![Sub(w)] = @ \ {last}] /\ orphans' = orphans
             \/ orphans' = [orphans EXCEPT ![Sub(w)] = @ \cup {last}] /\ dirs' = dirs
    BY DEF RemoveDirectory
  <1>4. /\ EffectsTyped' /\ \A s \in Students \ {Sub(w)} : Untouched(s)
        /\ \/ dirs'[Sub(w)] = dirs[Sub(w)] \ {last} /\ orphans'[Sub(w)] = orphans[Sub(w)]
           \/ /\ dirs'[Sub(w)] = dirs[Sub(w)]
              /\ orphans'[Sub(w)] = orphans[Sub(w)] \cup {last}
    <2>1. Sub(w) \in Students /\ EffectsTyped
      BY <1>1, Holder
    <2>2. CASE dirs' = [dirs EXCEPT ![Sub(w)] = @ \ {last}] /\ orphans' = orphans
      BY <1>2, <2>1, <2>2 DEF EffectsTyped, Untouched
    <2>3. CASE orphans' = [orphans EXCEPT ![Sub(w)] = @ \cup {last}] /\ dirs' = dirs
      BY <1>2, <2>1, <2>3 DEF EffectsTyped, Untouched
    <2> QED BY <1>3, <2>2, <2>3
  <1>5. /\ Judged(judgement'[Sub(w)], lab[Lab], output[Sub(w)])
        /\ output[Sub(w)].ok => container'[Sub(w)] \notin {"ready", "running"}
    BY <1>1, <1>2, Holder DEF Judged, Ended
  <1>6. /\ dirs'[Sub(w)] \subseteq (run[w].owes \ {last}) \cup orphans'[Sub(w)]
        /\ container'[Sub(w)] # "none" => "container" \in (run[w].owes \ {last}) \cup orphans'[Sub(w)]
    BY <1>1, <1>2, <1>4, Holder DEF Traces
  <1>7. PICK r \in Process : run' = [run EXCEPT ![w] = r] /\ r.sub = Sub(w) /\ WorkerOK(w)'
    BY <1>1, <1>2, <1>3, <1>6, RemovesMeans
  <1> QED BY <1>1, <1>2, <1>4, <1>5, <1>7, Holder, StepKeeps

LEMMA EvaluateReturnsKeeps ==
  ASSUME IInv, NEW w \in Workers, EvaluateReturns(w), Aside
  PROVE  IInv'
  <1> DEFINE r == [run[w] EXCEPT !.pc = "judged"]
  <1>1. run[w].pc = "undoing" /\ run[w].pc \in Holding /\ run[w].owes = {}
    BY DEF EvaluateReturns, Holding
  <1>2. run' = [run EXCEPT ![w] = r]
    BY <1>1, Holder DEF EvaluateReturns, Goes
  <1>3. /\ r \in Process /\ r.sub = Sub(w) /\ r.pc = "judged" /\ r.lab = run[w].lab
        /\ r.owes = {} /\ r.result = run[w].result
    BY <1>1, Holder DEF Process, Holding
  <1> HIDE DEF r
  <1>4. run'[w] = r
    BY <1>1, <1>2, Holder
  <1>5. /\ UNCHANGED <<now, registryVars, studentVars, stopping, claimed>>
        /\ UNCHANGED <<dirs, container, output, judgement, orphans>>
    BY DEF EvaluateReturns, Aside
  <1>6. WorkerOK(w)'
    <2>1. Known(w)'
      BY <1>1, <1>3, <1>4, <1>5, Holder DEF Known, Verdict, Earned, registryVars
    <2>2. Traces(w)'
      BY <1>1, <1>3, <1>4, <1>5, Holder DEF Traces, Early
    <2> QED BY <1>1, <1>3, <1>4, <1>5, <2>1, <2>2, Holder DEF WorkerOK, Holding
  <1> QED BY <1>1, <1>2, <1>3, <1>5, <1>6, Holder, QuietStepKeeps

(* The result that the loaded manifest permits is one the manifest of the  *)
(* lab permits by now, for they have the same structure.                   *)
LEMMA PersistKeeps ==
  ASSUME IInv, NEW w \in Workers, Persist(w), Aside
  PROVE  IInv'
  <1>1. run[w].pc = "judged" /\ run[w].pc \in Holding
    BY DEF Persist, Holding
  <1>2. CASE Exits(w) /\ UNCHANGED judgement
    <2>1. Left(Sub(w))
      BY <1>1, Holder DEF Left, Traces
    <2> QED BY <1>1, <1>2, <2>1, ExitKeeps DEF Persist, Exits, Aside
  <1>3. CASE ~stopping[w] /\ Goes(w, "persisted") /\ judgement' = [judgement EXCEPT ![Sub(w)] = run[w].result]
    <2> DEFINE r == [run[w] EXCEPT !.pc = "persisted"]
    <2>1. run' = [run EXCEPT ![w] = r]
      BY <1>1, <1>3, Holder DEF Goes
    <2>2. /\ r \in Process /\ r.sub = Sub(w) /\ r.pc = "persisted" /\ r.lab = run[w].lab
          /\ r.owes = run[w].owes /\ r.result = run[w].result
      BY <1>1, Holder DEF Process, Holding
    <2> HIDE DEF r
    <2>3. run'[w] = r
      BY <1>1, <2>1, Holder
    <2>4. UNCHANGED <<now, registryVars, studentVars, stopping, claimed, dirs, container, output, orphans>>
      BY DEF Persist, Aside
    <2>5. Verdict(run[w].result, run[w].lab) /\ SameStructure(lab[Lab], run[w].lab)
      BY <1>1, Holder DEF Known
    <2>6. run[w].result \in Outputs \cup {Failed, Interrupted}
      BY <1>1, <2>5, Holder DEF Process, Verdict
    <2>7. Judged(run[w].result, lab[Lab], output[Sub(w)])
      <3>1. run[w].result # Failed => Earned(run[w].result, output[Sub(w)])
        BY <1>1, <1>3, Holder DEF Known
      <3> QED BY <2>5, <3>1, StructureDecides DEF Judged, Verdict
    <2>8. /\ EffectsTyped' /\ \A s \in Students \ {Sub(w)} : Untouched(s)
          /\ judgement'[Sub(w)] = run[w].result
          /\ output[Sub(w)].ok => container'[Sub(w)] \notin {"ready", "running"}
      BY <1>1, <1>3, <2>4, <2>6, Holder DEF EffectsTyped, Untouched, Ended
    <2>9. WorkerOK(w)'
      <3>1. Known(w)'
        BY <1>1, <2>2, <2>3, <2>4, Holder DEF Known, Verdict, Earned, registryVars
      <3>2. Traces(w)'
        BY <1>1, <2>2, <2>3, <2>4, Holder DEF Traces, Early
      <3> QED BY <1>1, <2>2, <2>3, <2>4, <3>1, <3>2, Holder DEF WorkerOK, Holding
    <2> QED BY <1>1, <2>1, <2>2, <2>4, <2>7, <2>8, <2>9, Holder, StepKeeps
  <1> QED BY <1>2, <1>3 DEF Persist

LEMMA AcknowledgeKeeps ==
  ASSUME IInv, NEW w \in Workers, Acknowledge(w), Aside
  PROVE  IInv'
  <1>1. run[w].pc = "persisted" /\ run[w].pc \in Holding
    BY DEF Acknowledge, Holding
  <1>2. Left(Sub(w))
    BY <1>1, Holder DEF Left, Traces
  <1> QED BY <1>1, <1>2, ExitKeeps DEF Acknowledge, Aside

LEMMA HandlerKeeps ==
  ASSUME IInv, NEW w \in Workers, Step(w), Aside
  PROVE  IInv'
  BY LoadKeeps, MarkRunningKeeps, CreateWorkspaceKeeps, ExtractKeeps, StageKeeps, CreateContainerKeeps, CopySubmissionKeeps,
     StartContainerKeeps, ReadOutputKeeps, TimeOutKeeps, RemoveContainerKeeps,
     RemoveDirectoryKeeps, EvaluateReturnsKeeps, PersistKeeps, AcknowledgeKeeps DEF Step

(* A process that is killed leaves everything behind.                      *)
LEMMA KillKeeps ==
  ASSUME IInv, NEW w \in Workers, Kill(w), Aside
  PROVE  IInv'
  <1>1. run[w].pc \in Holding
    BY DEF Kill
  <1>2. Resting("down") \in Process /\ Resting("down").sub = None /\ Resting("down").pc \notin Holding
        /\ Resting("down").owes = {}
    BY DEF Resting, Process, Holding
  <1>3. run' = [run EXCEPT ![w] = Resting("down")] /\ run'[w] = Resting("down")
    BY <1>1, Holder DEF Kill, Exits
  <1>4. UNCHANGED <<now, registryVars, studentVars, stopping, claimed, dirs, container, output, judgement>>
    BY DEF Kill, Aside
  <1>5. /\ EffectsTyped' /\ \A s \in Students \ {Sub(w)} : Untouched(s)
        /\ LeftThen(Sub(w))
    BY <1>1, <1>4, Holder DEF Kill, EffectsTyped, Untouched, LeftThen
  <1>6. WorkerOK(w)'
    BY <1>2, <1>3, EvaluationAssumption DEF WorkerOK
  <1>7. /\ Judged(judgement'[Sub(w)], lab[Lab], output[Sub(w)])
        /\ output[Sub(w)].ok => container'[Sub(w)] \notin {"ready", "running"}
    BY <1>1, <1>4, Holder DEF IInv, EvaluationInv, SubmissionOK, Ended
  <1> QED BY <1>1, <1>2, <1>3, <1>4, <1>5, <1>6, <1>7, StepKeeps

(* What a worker without a submission does, and what others do to it.      *)
LEMMA ClaimKeeps ==
  ASSUME IInv, NEW w \in Workers, NEW s \in Students, Claim(w, s), Aside
  PROVE  IInv'
  <1> DEFINE r == [run[w] EXCEPT !.pc = "claimed", !.sub = s]
  <1>1. /\ run[w].pc = "idle" /\ run[w].pc \notin Holding
        /\ accepted[s] # None /\ s \notin claimed
        /\ claimed' = claimed \cup {s}
        /\ UNCHANGED <<now, registryVars, studentVars, stopping, dirs, container, output, judgement, orphans>>
    BY DEF Claim, Claimable, Aside, Holding
  <1>2. run \in [Workers -> Process] /\ s # None
    BY EvaluationAssumption DEF IInv, TypeOK, Process
  <1>3. run' = [run EXCEPT ![w] = r]
    BY <1>2 DEF Claim
  <1>4. r \in Process /\ r.sub = s /\ r.pc = "claimed" /\ r.owes = run[w].owes
    BY <1>2 DEF Process, Holding
  <1> HIDE DEF r
  <1>5. run'[w] = r /\ \A v \in Workers \ {w} : run'[v] = run[v]
    BY <1>2, <1>3
  <1>6. TypeOK'
    <2>1. run' \in [Workers -> Process]
      BY <1>2, <1>3, <1>4
    <2>2. claimed' \subseteq Students
      BY <1>1 DEF IInv, TypeOK
    <2> QED BY <1>1, <2>1, <2>2 DEF IInv, TypeOK, Process, registryVars, studentVars
  <1>7. RegistryInv'
    BY <1>1 DEF IInv, RegistryInv, LabsValid, CallOK, StudentOK, registryVars, studentVars
  <1>8. lab' = lab /\ lab[Lab] # None
    BY <1>1 DEF registryVars, IInv, RegistryInv, StudentOK
  <1>9. \A v \in Workers : run[v].sub # s
    BY <1>1 DEF IInv, EvaluationInv, WorkerOK
  <1>10. \A v \in Workers : WorkerOK(v)'
    <2> SUFFICES ASSUME NEW v \in Workers PROVE WorkerOK(v)'
      OBVIOUS
    <2>1. CASE v = w
      <3>1. dirs[s] = {} /\ container[s] = "none" /\ ~output[s].ok /\ judgement[s] = None
        BY <1>1 DEF IInv, EvaluationInv, SubmissionOK, Unclaimed
      <3>2. run[w].owes = {}
        BY <1>1, <1>2 DEF IInv, EvaluationInv, WorkerOK
      <3>3. Known(w)' /\ Traces(w)'
        BY <1>1, <1>4, <1>5, <3>1, <3>2 DEF Known, Traces, Early
      <3> QED BY <1>1, <1>4, <1>5, <2>1, <3>1, <3>3 DEF WorkerOK, Holding
    <2>2. CASE v # w
      <3>1. run'[v] = run[v] /\ WorkerOK(v)
        BY <1>5, <2>2 DEF IInv, EvaluationInv
      <3> QED BY <1>1, <1>8, <3>1 DEF WorkerOK, Known, Traces, Verdict, Earned
    <2> QED BY <2>1, <2>2
  <1>11. ClaimsApart'
    BY <1>4, <1>5, <1>9 DEF IInv, EvaluationInv, ClaimsApart, Sub
  <1>12. \A t \in Students : SubmissionOK(t)'
    <2> SUFFICES ASSUME NEW t \in Students PROVE SubmissionOK(t)'
      OBVIOUS
    <2>1. SubmissionOK(t) /\ run[w].sub # t
      BY <1>1 DEF IInv, EvaluationInv, WorkerOK
    <2>2. (\A v \in Workers : run'[v].sub # t) => \A v \in Workers : run[v].sub # t
      BY <1>5, <2>1
    <2> QED BY <1>1, <1>8, <2>1, <2>2
      DEF SubmissionOK, Unclaimed, Left, Ended, Judged, Earned, Verdict
  <1> QED BY <1>6, <1>7, <1>10, <1>11, <1>12 DEF IInv, EvaluationInv

LEMMA IdleStepKeeps ==
  ASSUME IInv, NEW w \in Workers, RequestStop(w) \/ LeaveLoop(w) \/ Restart(w), Aside
  PROVE  IInv'
  <1>1. run \in [Workers -> Process] /\ stopping \in [Workers -> BOOLEAN]
    BY DEF IInv, TypeOK, Process
  <1>2. /\ stopping' \in [Workers -> BOOLEAN]
        /\ \A v \in Workers \ {w} : stopping'[v] = stopping[v]
        /\ UNCHANGED <<now, registryVars, studentVars, claimed, dirs, container, output, judgement, orphans>>
        /\ \/ run' = run /\ \A v \in Workers : stopping[v] => stopping'[v]
           \/ /\ run[w].pc \in {"idle", "down"}
              /\ \E pc \in {"idle", "down"} : run' = [run EXCEPT ![w] = Resting(pc)]
    BY <1>1 DEF RequestStop, LeaveLoop, Restart, Exits, Aside
  <1>3. \A pc \in {"idle", "down"} :
          Resting(pc) \in Process /\ Resting(pc).sub = None /\ Resting(pc).pc = pc /\ Resting(pc).owes = {}
    BY DEF Resting, Process, Holding
  <1>4. /\ run' \in [Workers -> Process]
        /\ \A v \in Workers :
             \/ run'[v] = run[v] /\ (stopping[v] => stopping'[v])
             \/ /\ run[v].pc \in {"idle", "down"} /\ run'[v].pc \in {"idle", "down"}
                /\ run'[v].sub = None /\ run'[v].owes = {}
    <2>1. CASE run' = run /\ \A v \in Workers : stopping[v] => stopping'[v]
      BY <1>1, <2>1
    <2>2. ASSUME NEW pc \in {"idle", "down"}, run' = [run EXCEPT ![w] = Resting(pc)],
                 run[w].pc \in {"idle", "down"}
          PROVE  /\ run' \in [Workers -> Process]
                 /\ \A v \in Workers \ {w} : run'[v] = run[v]
                 /\ run'[w] = Resting(pc)
      BY <1>1, <1>3, <2>2
    <2> QED BY <1>2, <1>3, <2>1, <2>2
  <1>5. TypeOK'
    BY <1>2, <1>4 DEF IInv, TypeOK, Process, registryVars, studentVars
  <1>6. RegistryInv'
    BY <1>2 DEF IInv, RegistryInv, LabsValid, CallOK, StudentOK, registryVars, studentVars
  <1>7. lab' = lab
    BY <1>2 DEF registryVars
  <1>8. \A v \in Workers : run[v].pc \in {"idle", "down"} => run[v].sub \notin Students
    BY DEF IInv, EvaluationInv, WorkerOK, Holding
  <1>9. \A v \in Workers : WorkerOK(v)'
    <2> SUFFICES ASSUME NEW v \in Workers PROVE WorkerOK(v)'
      OBVIOUS
    <2>1. CASE run'[v] = run[v] /\ (stopping[v] => stopping'[v])
      <3>1. WorkerOK(v)
        BY DEF IInv, EvaluationInv
      <3> QED BY <1>2, <1>7, <2>1, <3>1 DEF WorkerOK, Known, Traces, Verdict, Earned
    <2>2. CASE run'[v].pc \in {"idle", "down"} /\ run'[v].sub = None /\ run'[v].owes = {}
      BY <2>2, EvaluationAssumption DEF WorkerOK, Holding
    <2> QED BY <1>4, <2>1, <2>2
  <1>10. ClaimsApart'
    BY <1>4 DEF IInv, EvaluationInv, ClaimsApart, Sub
  <1>11. \A s \in Students : SubmissionOK(s)'
    <2> SUFFICES ASSUME NEW s \in Students PROVE SubmissionOK(s)'
      OBVIOUS
    <2>1. (\A v \in Workers : run'[v].sub # s) => \A v \in Workers : run[v].sub # s
      BY <1>4, <1>8
    <2> QED BY <1>2, <1>7, <2>1
      DEF IInv, EvaluationInv, SubmissionOK, Unclaimed, Left, Ended, Judged, Earned, Verdict
  <1> QED BY <1>5, <1>6, <1>9, <1>10, <1>11 DEF IInv, EvaluationInv

(* The container of the evaluator image prints and exits by itself; what   *)
(* has been judged or will be was printed by one that does not run any more. *)
LEMMA ContainerKeeps ==
  ASSUME IInv, NEW s \in Students, ContainerPrints(s) \/ ContainerExits(s), Aside
  PROVE  IInv'
  <1>1. /\ container[s] = "running"
        /\ UNCHANGED <<now, registryVars, studentVars, run, stopping, claimed, dirs, judgement, orphans>>
    BY DEF ContainerPrints, ContainerExits, Aside
  <1>2. container \in [Students -> {"none", "ready", "running", "exited"}]
        /\ output \in [Students -> [line : Outputs \cup {None}, ok : BOOLEAN]]
    BY DEF IInv, TypeOK
  <1>3. PICK out \in [line : Outputs \cup {None}, ok : BOOLEAN] :
          /\ output' = [output EXCEPT ![s] = out]
          /\ \/ container' = container /\ out.ok = output[s].ok
             \/ container' = [container EXCEPT ![s] = "exited"]
    <2>1. CASE ContainerPrints(s)
      <3> PICK line \in Outputs \cup {None} : output' = [output EXCEPT ![s].line = line]
        BY <2>1 DEF ContainerPrints
      <3> DEFINE out == [output[s] EXCEPT !.line = line]
      <3>1. /\ out \in [line : Outputs \cup {None}, ok : BOOLEAN]
            /\ output' = [output EXCEPT ![s] = out] /\ out.ok = output[s].ok
        BY <1>2
      <3>2. container' = container
        BY <2>1 DEF ContainerPrints
      <3> QED BY <3>1, <3>2
    <2>2. CASE ContainerExits(s)
      <3> PICK ok \in BOOLEAN : output' = [output EXCEPT ![s].ok = ok]
        BY <2>2 DEF ContainerExits
      <3> DEFINE out == [output[s] EXCEPT !.ok = ok]
      <3>1. /\ out \in [line : Outputs \cup {None}, ok : BOOLEAN]
            /\ output' = [output EXCEPT ![s] = out]
        BY <1>2
      <3>2. container' = [container EXCEPT ![s] = "exited"]
        BY <2>2 DEF ContainerExits
      <3> QED BY <3>1, <3>2
    <2> QED BY <2>1, <2>2
  <1>4. /\ \A t \in Students : container'[t] = "none" <=> container[t] = "none"
        /\ \A t \in Students \ {s} : container'[t] = container[t] /\ output'[t] = output[t]
        /\ output'[s] = out
        /\ \/ container'[s] = "exited"
           \/ container'[s] = container[s] /\ out.ok = output[s].ok
        /\ container' \in [Students -> {"none", "ready", "running", "exited"}]
        /\ output' \in [Students -> [line : Outputs \cup {None}, ok : BOOLEAN]]
    BY <1>1, <1>2, <1>3
  <1>5. SubmissionOK(s) /\ ~output[s].ok /\ s \in claimed
    BY <1>1 DEF IInv, EvaluationInv, SubmissionOK, Unclaimed, Ended
  <1>6. TypeOK'
    BY <1>1, <1>4 DEF IInv, TypeOK, registryVars, studentVars
  <1>7. RegistryInv'
    BY <1>1 DEF IInv, RegistryInv, LabsValid, CallOK, StudentOK, registryVars, studentVars
  <1>8. lab' = lab
    BY <1>1 DEF registryVars
  <1>9. \A v \in Workers : WorkerOK(v)'
    <2> SUFFICES ASSUME NEW v \in Workers PROVE WorkerOK(v)'
      OBVIOUS
    <2>1. WorkerOK(v)
      BY DEF IInv, EvaluationInv
    <2>2. CASE run[v].sub = s
      <3>1. run[v].pc \in Holding => run[v].pc \notin Early
        BY <1>1, <2>1, <2>2 DEF WorkerOK, Traces
      <3> QED BY <1>1, <1>4, <1>5, <1>8, <2>1, <2>2, <3>1 DEF WorkerOK, Known, Traces, Verdict, Earned
    <2>3. CASE run[v].sub # s
      BY <1>1, <1>4, <1>8, <2>1, <2>3 DEF WorkerOK, Known, Traces, Verdict, Earned
    <2> QED BY <2>2, <2>3
  <1>10. ClaimsApart'
    BY <1>1 DEF IInv, EvaluationInv, ClaimsApart, Sub
  <1>11. \A t \in Students : SubmissionOK(t)'
    <2> SUFFICES ASSUME NEW t \in Students PROVE SubmissionOK(t)'
      OBVIOUS
    <2>1. SubmissionOK(t)
      BY DEF IInv, EvaluationInv
    <2>2. CASE t = s
      BY <1>1, <1>4, <1>5, <1>8, <2>2 DEF SubmissionOK, Unclaimed, Left, Ended, Judged, Earned, Verdict
    <2>3. CASE t # s
      BY <1>1, <1>4, <1>8, <2>1, <2>3 DEF SubmissionOK, Unclaimed, Left, Ended, Judged, Earned, Verdict
    <2> QED BY <2>2, <2>3
  <1> QED BY <1>6, <1>7, <1>9, <1>10, <1>11 DEF IInv, EvaluationInv

LEMMA NextKeeps == IInv /\ [Next]_vars => IInv'
  <1> SUFFICES ASSUME IInv, [Next]_vars PROVE IInv'
    OBVIOUS
  <1>1. CASE RegistryNext /\ UNCHANGED evaluationVars
    BY <1>1, RegistryStepKeeps
  <1>2. CASE EvaluationNext /\ UNCHANGED <<now, registryVars, studentVars>>
    <2>1. Aside
      BY <1>2 DEF Aside
    <2>2. CASE \E w \in Workers : \E s \in Students : Claim(w, s)
      BY <2>1, <2>2, ClaimKeeps
    <2>3. CASE \E w \in Workers : Step(w)
      BY <2>1, <2>3, HandlerKeeps
    <2>4. CASE \E w \in Workers : RequestStop(w) \/ LeaveLoop(w) \/ Restart(w)
      BY <2>1, <2>4, IdleStepKeeps
    <2>5. CASE \E w \in Workers : Kill(w)
      BY <2>1, <2>5, KillKeeps
    <2>6. CASE \E s \in Students : ContainerPrints(s) \/ ContainerExits(s)
      BY <2>1, <2>6, ContainerKeeps
    <2> QED BY <1>2, <2>2, <2>3, <2>4, <2>5, <2>6 DEF EvaluationNext
  <1>3. CASE UNCHANGED vars
    <2>1. UNCHANGED evaluationVars /\ StructureStays /\ UNCHANGED <<now, registryVars, studentVars>>
      BY <1>3, SameStructureIsEquivalence DEF vars, StructureStays, registryVars
    <2>2. TypeOK'
      BY <2>1 DEF IInv, TypeOK, registryVars, studentVars, evaluationVars
    <2>3. RegistryInv'
      BY <2>1 DEF IInv, RegistryInv, LabsValid, CallOK, StudentOK, registryVars, studentVars
    <2> QED BY <2>1, <2>2, <2>3, EvaluationFollows DEF IInv
  <1> QED BY <1>1, <1>2, <1>3 DEF Next

-----------------------------------------------------------------------------
(* Invariance: checks made against an earlier manifest hold of the present *)
(* one, a worker holds its submission alone, and what it leaves outside    *)
(* its process is known.                                                   *)
THEOREM Invariance == Spec => []IInv
  BY InitInv, NextKeeps, PTL DEF Spec

(* UpdateTrack checks a track against a manifest that UpdateLab may replace *)
(* before the track is stored, or after: it is a metric of the lab always. *)
THEOREM TracksStayMetrics == Spec => []TracksAreMetrics
  <1>1. IInv => TracksAreMetrics
    BY DEF IInv, RegistryInv, StudentOK, TracksAreMetrics
  <1> QED BY <1>1, Invariance, PTL

(* What validateFiles accepted is what StageSubmissionDir expects, whatever *)
(* manifest the worker loads.                                              *)
THEOREM AcceptedStaysStageable == Spec => []AcceptedIsStageable
  <1>1. IInv => AcceptedIsStageable
    BY DEF IInv, RegistryInv, StudentOK, AcceptedIsStageable
  <1> QED BY <1>1, Invariance, PTL

(* Persist stores a score for each metric of the lab, although ParseResult *)
(* compared the scores with the manifest loaded before the evaluation.     *)
THEOREM ScoresStayMatched == Spec => []ScoresMatchBoard
  <1>1. IInv => ScoresMatchBoard
    BY DEF IInv, EvaluationInv, SubmissionOK, Judged, Verdict, ScoresMatchBoard
  <1> QED BY <1>1, Invariance, PTL

(* The deferred calls of evaluate leave no directory and no container.     *)
THEOREM EvaluationsCleanUp == Spec => []NothingLeftBehind
  <1>1. IInv => NothingLeftBehind
    BY DEF IInv, EvaluationInv, SubmissionOK, Left, NothingLeftBehind
  <1> QED BY <1>1, Invariance, PTL

(* No verdict stems from what was printed before a stop, a timeout or a    *)
(* failing exit, and none from the interruption of an evaluation.          *)
THEOREM VerdictsAreEarned == Spec => []VerdictIsEarned
  <1>1. IInv => VerdictIsEarned
    BY DEF IInv, EvaluationInv, SubmissionOK, Judged, Earned, VerdictIsEarned
  <1> QED BY <1>1, Invariance, PTL

(* Only Persist stores a verdict, and not under a cancelled context.       *)
LEMMA JudgementStep ==
  ASSUME IInv, Next, judgement' # judgement
  PROVE  \E w \in Workers : /\ Persist(w) /\ ~stopping[w] /\ run[w].pc = "judged"
                            /\ Goes(w, "persisted")
                            /\ judgement' = [judgement EXCEPT ![Sub(w)] = run[w].result]
  <1>1. CASE RegistryNext /\ UNCHANGED evaluationVars
    BY <1>1 DEF evaluationVars
  <1>2. CASE EvaluationNext
    <2>1. CASE \E w \in Workers : Step(w)
      <3> PICK w \in Workers : Step(w)
        BY <2>1
      <3>1. Persist(w)
        BY DEF Step, Load, MarkRunning, CreateWorkspace, Extract, Stage, CreateContainer, CopySubmission,
           StartContainer, ReadOutput, TimeOut, Interrupt, RemoveContainer, RemoveDirectory,
           EvaluateReturns, Acknowledge
      <3> QED BY <3>1 DEF Persist
    <2>2. CASE \E w \in Workers : \/ \E s \in Students : Claim(w, s)
                                  \/ RequestStop(w) \/ LeaveLoop(w) \/ Kill(w) \/ Restart(w)
      BY <2>2 DEF Claim, RequestStop, LeaveLoop, Kill, Restart
    <2>3. CASE \E s \in Students : ContainerPrints(s) \/ ContainerExits(s)
      BY <2>3 DEF ContainerPrints, ContainerExits
    <2> QED BY <1>2, <2>1, <2>2, <2>3 DEF EvaluationNext
  <1> QED BY <1>1, <1>2 DEF Next

-----------------------------------------------------------------------------
(* The course implements the promise of Judging.                           *)

state == [s \in Students |-> StateOf(s)]
verdict == [s \in Students |-> IF judgement[s] = None THEN None ELSE judgement[s].verdict]

(* A step of a worker keeps its submission or lets it go.                  *)
LEMMA KeepsOrLetsGo ==
  ASSUME IInv, NEW w \in Workers, Step(w) \/ Kill(w) \/ RequestStop(w) \/ LeaveLoop(w) \/ Restart(w)
  PROVE  /\ claimed' = claimed
         /\ \A v \in Workers \ {w} : run'[v] = run[v]
         /\ run'[w].sub \in {run[w].sub, None}
  <1>1. run \in [Workers -> Process]
    BY DEF IInv, TypeOK, Process
  <1> USE <1>1 DEF Ends, Makes, Goes, Exits, Resting, Process
  <1>2. CASE Load(w) \/ MarkRunning(w) \/ CreateWorkspace(w) \/ Extract(w) \/ Stage(w)
    BY <1>2 DEF Load, MarkRunning, CreateWorkspace, Extract, Stage
  <1>3. CASE CreateContainer(w)
    BY <1>3 DEF CreateContainer
  <1>4. CASE \/ CopySubmission(w) \/ StartContainer(w) \/ ReadOutput(w)
             \/ TimeOut(w) \/ Interrupt(w)
    BY <1>4 DEF CopySubmission, StartContainer, ReadOutput, TimeOut, Interrupt
  <1>5. CASE RemoveContainer(w) \/ RemoveDirectory(w) \/ EvaluateReturns(w)
    BY <1>5 DEF RemoveContainer, RemoveDirectory, EvaluateReturns
  <1>6. CASE Persist(w) \/ Acknowledge(w)
    BY <1>6 DEF Persist, Acknowledge
  <1>7. CASE Kill(w) \/ RequestStop(w) \/ LeaveLoop(w) \/ Restart(w)
    BY <1>7 DEF Kill, RequestStop, LeaveLoop, Restart
  <1> QED BY <1>2, <1>3, <1>4, <1>5, <1>6, <1>7 DEF Step

(* What becomes of the submissions when a worker does.                     *)
LEMMA WorkerStepMaps ==
  ASSUME IInv, NEW w \in Workers, Step(w) \/ Kill(w) \/ RequestStop(w) \/ LeaveLoop(w) \/ Restart(w),
         Next
  PROVE  J!Next \/ UNCHANGED J!vars
  <1>1. /\ claimed' = claimed
        /\ \A v \in Workers \ {w} : run'[v] = run[v]
        /\ run'[w].sub \in {run[w].sub, None}
    BY KeepsOrLetsGo
  <1>2. \A v \in Workers \ {w} : Sub(w) # None => run[v].sub # Sub(w)
    BY DEF IInv, EvaluationInv, ClaimsApart, Sub
  <1>3. judgement \in [Students -> Outputs \cup {Failed, Interrupted, None}] /\ None \notin Students
    BY EvaluationAssumption DEF IInv, TypeOK
  <1>4. \A t \in Students : t # Sub(w) =>
          ((\E v \in Workers : run'[v].sub = t) <=> (\E v \in Workers : run[v].sub = t))
    BY <1>1, <1>3 DEF Sub
  <1>5. CASE judgement' # judgement
    <2>1. PICK v \in Workers :
            /\ Persist(v) /\ run[v].pc = "judged" /\ Goes(v, "persisted")
            /\ judgement' = [judgement EXCEPT ![Sub(v)] = run[v].result]
      BY <1>5, JudgementStep
    <2>2. run[v].pc \in Holding /\ run[v].pc # "persisted"
      BY <2>1 DEF Holding
    <2>3. /\ Sub(v) \in Students /\ Sub(v) \in claimed /\ judgement[Sub(v)] = None
          /\ run[v].sub = Sub(v) /\ run \in [Workers -> Process]
          /\ run[v].result # None /\ run[v].result.verdict \in Verdicts
      BY <2>1, <2>2, Holder DEF Known, Verdict
    <2>4. claimed' = claimed /\ \A x \in Workers : run'[x].sub = run[x].sub
      BY <2>1, <2>3 DEF Persist, Goes, Process
    <2>5. /\ judgement'[Sub(v)] = run[v].result
          /\ \A t \in Students \ {Sub(v)} : judgement'[t] = judgement[t]
      BY <1>3, <2>1, <2>3
    <2>6. StateOf(Sub(v)) = "taken"
      BY <2>3 DEF StateOf
    <2>7. state' = [state EXCEPT ![Sub(v)] = "judged"]
      BY <2>3, <2>4, <2>5 DEF state, StateOf
    <2>8. verdict' = [verdict EXCEPT ![Sub(v)] = run[v].result.verdict]
      BY <2>3, <2>5 DEF verdict
    <2>9. J!Judge(Sub(v))
      BY <2>3, <2>6, <2>7, <2>8 DEF J!Judge, state, verdict
    <2>10. Sub(v) \in Students
      BY <2>3
    <2> QED BY <2>9, <2>10 DEF J!Next, J!Judge
  <1>6. CASE judgement' = judgement /\ (run'[w].sub = run[w].sub \/ judgement[Sub(w)] # None \/ Sub(w) \notin Students)
    <2>1. \A t \in Students : StateOf(t)' = StateOf(t)
      BY <1>1, <1>4, <1>6 DEF StateOf, Sub
    <2>2. state' = state /\ verdict' = verdict
      BY <1>6, <2>1 DEF state, verdict
    <2> QED BY <2>2 DEF J!vars, state, verdict
  <1>7. CASE judgement' = judgement /\ run'[w].sub = None /\ judgement[Sub(w)] = None /\ Sub(w) \in Students
    <2>1. Sub(w) \in claimed
      BY <1>7 DEF IInv, EvaluationInv, WorkerOK, Sub
    <2>2. StateOf(Sub(w)) = "taken"
      BY <1>7, <2>1 DEF StateOf, Sub
    <2>3. \A v \in Workers : run'[v].sub # Sub(w)
      BY <1>1, <1>2, <1>3, <1>7
    <2>4. state' = [state EXCEPT ![Sub(w)] = "abandoned"]
      <3>1. \A t \in Students : state'[t] = IF t = Sub(w) THEN "abandoned" ELSE state[t]
        BY <1>1, <1>4, <1>7, <2>1, <2>3 DEF state, StateOf
      <3> QED BY <3>1 DEF state
    <2>5. verdict' = verdict
      BY <1>7 DEF verdict
    <2>6. J!GiveUp(Sub(w))
      BY <1>7, <2>2, <2>4, <2>5 DEF J!GiveUp, state, verdict
    <2> QED BY <1>7, <2>6 DEF J!Next
  <1> QED BY <1>1, <1>5, <1>6, <1>7 DEF Sub

LEMMA ClaimMaps ==
  ASSUME IInv, NEW w \in Workers, NEW s \in Students, Claim(w, s)
  PROVE  J!Next
  <1>1. run \in [Workers -> Process]
    BY DEF IInv, TypeOK, Process
  <1>2. /\ s \notin claimed /\ claimed' = claimed \cup {s} /\ judgement' = judgement
        /\ run'[w].sub = s /\ \A v \in Workers \ {w} : run'[v] = run[v]
        /\ run[w].pc = "idle"
    BY <1>1 DEF Claim, Claimable, Process
  <1>3. run[w].sub \notin Students
    BY <1>2 DEF IInv, EvaluationInv, WorkerOK, Holding
  <1>4. judgement[s] = None
    BY <1>2 DEF IInv, EvaluationInv, SubmissionOK, Unclaimed
  <1>5. StateOf(s) = "waiting"
    BY <1>2, <1>4 DEF StateOf
  <1>6. state' = [state EXCEPT ![s] = "taken"]
    <2>1. \A t \in Students \ {s} :
            (\E v \in Workers : run'[v].sub = t) <=> (\E v \in Workers : run[v].sub = t)
      BY <1>2, <1>3
    <2>2. \A t \in Students : state'[t] = IF t = s THEN "taken" ELSE state[t]
      BY <1>2, <1>4, <2>1 DEF state, StateOf
    <2> QED BY <2>2 DEF state
  <1>7. verdict' = verdict
    BY <1>2 DEF verdict
  <1>8. J!Take(s)
    BY <1>5, <1>6, <1>7 DEF J!Take, state, verdict
  <1> QED BY <1>8 DEF J!Next

(* Whatever happens to processes, containers and manifests: a submission is *)
(* taken once and then judged once with a verdict of the protocol, or given *)
(* up without one.  (That a taken one comes to an end needs fairness, which *)
(* ImplementsJudging adds.)                                                *)
THEOREM JudgedOnce == Spec => J!Init /\ [][J!Next]_(J!vars)
  <1>1. Init => J!Init
    <2> SUFFICES ASSUME Init PROVE J!Init
      OBVIOUS
    <2>1. \A s \in Students : StateOf(s) = "waiting" /\ judgement[s] = None
      BY DEF Init, EvaluationInit, StateOf
    <2> QED BY <2>1 DEF J!Init
  <1>2. IInv /\ [Next]_vars => [J!Next]_(J!vars)
    <2> SUFFICES ASSUME IInv, [Next]_vars PROVE J!Next \/ UNCHANGED J!vars
      OBVIOUS
    <2>1. CASE UNCHANGED evaluationVars
      <3>1. \A s \in Students : StateOf(s)' = StateOf(s)
        BY <2>1 DEF evaluationVars, StateOf
      <3> QED BY <2>1, <3>1 DEF evaluationVars, J!vars
    <2>2. CASE Next /\ EvaluationNext
      <3>1. CASE \E w \in Workers : \E s \in Students : Claim(w, s)
        BY <3>1, ClaimMaps
      <3>2. CASE \E w \in Workers : Step(w) \/ RequestStop(w) \/ LeaveLoop(w) \/ Kill(w) \/ Restart(w)
        BY <2>2, <3>2, WorkerStepMaps
      <3>3. CASE \E s \in Students : ContainerPrints(s) \/ ContainerExits(s)
        <4>1. UNCHANGED <<run, claimed, judgement>>
          BY <3>3 DEF ContainerPrints, ContainerExits
        <4>2. \A s \in Students : StateOf(s)' = StateOf(s)
          BY <4>1 DEF StateOf
        <4> QED BY <4>1, <4>2 DEF J!vars
      <3> QED BY <2>2, <3>1, <3>2, <3>3 DEF EvaluationNext
    <2> QED BY <2>1, <2>2 DEF Next, vars
  <1> QED BY <1>1, <1>2, Invariance, PTL DEF Spec
=============================================================================
