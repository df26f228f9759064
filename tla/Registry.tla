------------------------------ MODULE Registry ------------------------------
(***************************************************************************)
(* The labs table under concurrent registrations and updates               *)
(* (apps/api/internal/service/labs), and the services that read a manifest *)
(* first and act on it later: the choice of a track (service/personal) and *)
(* the checks of an upload (service/submissions).  None of them runs in a  *)
(* transaction, so every statement is a step.                              *)
(***************************************************************************)
EXTENDS Manifests, FiniteSets

CONSTANTS
  Raw,          \* manifests that instructors upload
  Lab,          \* the lab the students work on
  Instructors,  \* requests to register or update a lab
  Students,
  Uploads,      \* what a student may send: names and the largest size
  LastTime      \* bound on the clock

LabIds == {m.id : m \in Raw}

ASSUME RegistryAssumption ==
  /\ Lab \in LabIds
  /\ LastTime \in Nat
  /\ \A m \in Raw : {"id", "metrics"} \subseteq DOMAIN m /\ Normalize(m) # None

VARIABLES
  now,
  lab,      \* labs.manifest, None when there is no row
  call,     \* the instructors' requests
  track,    \* lab_profiles.track
  pick,     \* UpdateTrack requests that have passed their checks
  upload,   \* Intake requests that have passed their checks
  accepted  \* the file names of the student's submission

registryVars == <<lab, call>>
studentVars  == <<track, pick, upload, accepted>>

NoCall == [pc |-> "idle", id |-> None, next |-> None]

RegistryInit ==
  /\ now = 0
  /\ lab = [l \in LabIds |-> None]
  /\ call = [i \in Instructors |-> NoCall]
  /\ track = [u \in Students |-> None]
  /\ pick = [u \in Students |-> None]
  /\ upload = [u \in Students |-> None]
  /\ accepted = [u \in Students |-> None]

(* The request is answered, and its place is free for another one.         *)
Answers(i) == call' = [call EXCEPT ![i] = NoCall]

-----------------------------------------------------------------------------
(* RegisterLab: parse, look whether the lab exists, then insert.           *)
RegisterLab(i, m) ==
  LET next == Normalize(m) IN
  /\ call[i].pc = "idle"
  /\ IF ~Valid(next) \/ lab[next.id] # None
     THEN Answers(i)
     ELSE call' = [call EXCEPT ![i] = [pc |-> "absent", id |-> next.id, next |-> next]]
  /\ UNCHANGED <<now, lab, studentVars>>

(* The primary key of labs decides between two registrations.              *)
Taken(id) == lab[id] # None

CreateLab(i) ==
  LET c == call[i] IN
  /\ c.pc = "absent"
  /\ IF Taken(c.id)
     THEN Answers(i) /\ UNCHANGED lab
     ELSE Answers(i) /\ lab' = [lab EXCEPT ![c.id] = c.next]
  /\ UNCHANGED <<now, studentVars>>

(* UpdateLab: parse, compare with the manifest there is, and then replace  *)
(* whatever manifest there is by now.                                      *)
UpdatableFreely(id, next) ==   \* mutation: the structure is not compared
  /\ Valid(next)
  /\ next.id = id
  /\ lab[id] # None
Updatable(id, next) ==
  /\ Valid(next)
  /\ next.id = id
  /\ lab[id] # None
  /\ SameStructure(lab[id], next)

UpdateLab(i, id, m) ==
  LET next == Normalize(m) IN
  /\ call[i].pc = "idle"
  /\ IF Updatable(id, next)
     THEN call' = [call EXCEPT ![i] = [pc |-> "compared", id |-> id, next |-> next]]
     ELSE Answers(i)
  /\ UNCHANGED <<now, lab, studentVars>>

UpdateLabManifest(i) ==
  /\ call[i].pc = "compared"
  /\ lab' = [lab EXCEPT ![call[i].id] = call[i].next]
  /\ Answers(i)
  /\ UNCHANGED <<now, studentVars>>

-----------------------------------------------------------------------------
(* UpdateTrack: the lab lets students pick, and the track is a metric.     *)
CheckTrack(u, t) ==
  /\ pick[u] = None
  /\ lab[Lab] # None
  /\ lab[Lab].pick
  /\ t \in MetricIds(lab[Lab])
  /\ pick' = [pick EXCEPT ![u] = t]
  /\ UNCHANGED <<now, registryVars, track, upload, accepted>>

UpsertTrack(u) ==
  /\ pick[u] # None
  /\ track' = [track EXCEPT ![u] = pick[u]]
  /\ pick' = [pick EXCEPT ![u] = None]
  /\ UNCHANGED <<now, registryVars, upload, accepted>>

(* Intake, up to its transaction: the lab is open and the files are those  *)
(* it asks for.                                                            *)
CheckUpload(u, up) ==
  /\ upload[u] = None /\ accepted[u] = None
  /\ lab[Lab] # None
  /\ LabOpen(lab[Lab], now)
  /\ Accepts(lab[Lab], up)
  /\ upload' = [upload EXCEPT ![u] = up]
  /\ UNCHANGED <<now, registryVars, track, pick, accepted>>

(* The transaction of Intake, which Intake.tla spells out: it commits or   *)
(* is refused.                                                             *)
StoreUpload(u) ==
  /\ upload[u] # None
  /\ upload' = [upload EXCEPT ![u] = None]
  /\ \/ accepted' = [accepted EXCEPT ![u] = Range(upload[u].names)]
     \/ UNCHANGED accepted
  /\ UNCHANGED <<now, registryVars, track, pick>>

Advance ==
  /\ now < LastTime
  /\ now' = now + 1
  /\ UNCHANGED <<registryVars, studentVars>>

RegistryNext ==
  \/ \E i \in Instructors :
       \/ \E m \in Raw : RegisterLab(i, m) \/ UpdateLab(i, Lab, m)
       \/ CreateLab(i)
       \/ UpdateLabManifest(i)
  \/ \E u \in Students :
       \/ \E t \in UNION {MetricIds(m) : m \in Raw} : CheckTrack(u, t)
       \/ \E up \in Uploads : CheckUpload(u, up)
       \/ UpsertTrack(u)
       \/ StoreUpload(u)
  \/ Advance
=============================================================================
