------------------------------- MODULE Board -------------------------------
(***************************************************************************)
(* The two readers of the leaderboard: GET /board, which ranks by one      *)
(* metric, and the administrator's grade export, which ranks every student *)
(* by the metric of the declared track.  Each reads several tables with a  *)
(* statement per table and no transaction, while workers persist scored    *)
(* results and students change tracks.  A submission that gives scores is  *)
(* named by its place in the scores table; ranks come from the comparison  *)
(* the code sorts with, which orders any two rows.                         *)
(***************************************************************************)
EXTENDS Integers, Sequences, FiniteSets

CONSTANTS Users,      \* users.id, numbers: the last tie-break
          Metrics,    \* metric ids of the manifest
          SortOf,     \* "asc" or "desc" for each metric
          RankBy,     \* board.rank_by
          Pick,       \* board.pick
          RankAll,    \* board.rank_all
          Values,     \* scores an evaluator gives; 0 is what a reader shows for none
          Times,      \* values of updated_at
          MaxScored,  \* bound on the scored submissions
          None

ASSUME BoardAssumption ==
  /\ Users \subseteq Nat /\ IsFiniteSet(Users)
  /\ SortOf \in [Metrics -> {"asc", "desc"}] /\ RankBy \in Metrics
  /\ Pick \in BOOLEAN /\ RankAll \in BOOLEAN
  /\ Values \subseteq Int \ {0} /\ Times \subseteq Nat
  /\ None \notin Metrics

VARIABLES scores,       \* the scores rows of each scored submission
          leaderboard,  \* rows of the leaderboard, for the users that have one
          tracks,       \* lab_profiles.track
          reader,       \* a request that reads the board
          page          \* the last answer

vars == <<scores, leaderboard, tracks, reader, page>>

Idle == [pc |-> "idle", by |-> None, rows |-> <<>>, scored |-> {}, tracks |-> <<>>]

Init ==
  /\ scores = <<>> /\ leaderboard = <<>>
  /\ tracks = [u \in Users |-> None]
  /\ reader = Idle /\ page = None

-----------------------------------------------------------------------------
(* mutation: the row is left at the submission before this one             *)

Row(u, at) == [submission |-> Len(scores) + 1, at |-> at]

(* Persist of a scored verdict: the scores and the row of the leaderboard  *)
(* in one transaction.  updated_at is when that transaction began, so two  *)
(* transactions may commit in the other order, or share it.                *)
PersistScored(u) ==
  /\ Len(scores) < MaxScored
  /\ \E value \in [Metrics -> Values], at \in Times :
       /\ scores' = Append(scores, [user |-> u, value |-> value])
       /\ leaderboard' = [v \in DOMAIN leaderboard \cup {u} |->
                            IF v = u THEN Row(u, at) ELSE leaderboard[v]]
  /\ UNCHANGED <<tracks, reader, page>>

UpdateTrack(u) ==
  /\ Pick
  /\ \E track \in Metrics : tracks' = [tracks EXCEPT ![u] = track]
  /\ UNCHANGED <<scores, leaderboard, reader, page>>

-----------------------------------------------------------------------------
(* The statements of GetBoard and ExportGrades, in the order of the calls. *)
ListLeaderboard(kind, by) ==
  /\ reader.pc = "idle"
  /\ reader' = [Idle EXCEPT
       !.pc = IF kind = "board" THEN "board_scores" ELSE "export_profiles",
       !.by = by, !.rows = leaderboard]
  /\ UNCHANGED <<scores, leaderboard, tracks, page>>

(* ListScoresByLab joins the leaderboard as it is by then.                 *)
Scored == {leaderboard[u].submission : u \in DOMAIN leaderboard}

(* mutation: rows whose scores were not read are left out                  *)
ListedIfScored(r) == {u \in DOMAIN r.rows : r.rows[u].submission \in r.scored}

Listed(r) == DOMAIN r.rows

Value(r, u, m) ==
  IF r.rows[u].submission \in r.scored
  THEN scores[r.rows[u].submission].value[m] ELSE 0

Better(m, x, y) == IF SortOf[m] = "asc" THEN x < y ELSE x > y

(* mutation: every metric is sorted as if more were better                 *)
MoreIsBetter(r, a, b) ==
  \/ Value(r, a, r.by) > Value(r, b, r.by)
  \/ Value(r, a, r.by) = Value(r, b, r.by) /\ a < b

BoardBefore(r, a, b) ==
  LET x == Value(r, a, r.by)  y == Value(r, b, r.by)
      s == r.rows[a].at       t == r.rows[b].at
  IN  \/ Better(r.by, x, y)
      \/ x = y /\ (IF SortOf[r.by] = "asc" THEN s < t ELSE s > t)
      \/ x = y /\ s = t /\ a < b

MetricOf(r, u) == IF Pick /\ r.tracks[u] # None THEN r.tracks[u] ELSE r.by

Normalized(r, u) ==
  LET m == MetricOf(r, u)
  IN  IF SortOf[m] = "asc" THEN -Value(r, u, m) ELSE Value(r, u, m)

ExportBefore(r, a, b) ==
  LET x == Normalized(r, a)  y == Normalized(r, b)
      s == r.rows[a].at      t == r.rows[b].at
  IN  x > y \/ (x = y /\ (s > t \/ (s = t /\ a < b)))

Ranked(r, u) == RankAll \/ ~Pick \/ r.tracks[u] = r.by

(* One more than the rows before it; 0 for a row without a rank.           *)
BoardRank(r, u) ==
  IF Ranked(r, u)
  THEN Cardinality({v \in Listed(r) : Ranked(r, v) /\ BoardBefore(r, v, u)}) + 1
  ELSE 0

ExportRank(r, u) == Cardinality({v \in Listed(r) : ExportBefore(r, v, u)}) + 1

Answer(kind, r) ==
  [kind |-> kind, by |-> r.by, read |-> r.rows,
   lines |-> [u \in Listed(r) |->
     [rank  |-> IF kind = "board" THEN BoardRank(r, u) ELSE ExportRank(r, u),
      score |-> [m \in Metrics |-> Value(r, u, m)],
      track |-> r.tracks[u]]]]

ListScores ==
  /\ reader.pc = "board_scores"
  /\ reader' = [reader EXCEPT !.pc = "board_profiles", !.scored = Scored]
  /\ UNCHANGED <<scores, leaderboard, tracks, page>>

GetBoard ==
  /\ reader.pc = "board_profiles"
  /\ page' = Answer("board", [reader EXCEPT !.tracks = tracks])
  /\ reader' = Idle
  /\ UNCHANGED <<scores, leaderboard, tracks>>

ListProfiles ==
  /\ reader.pc = "export_profiles"
  /\ reader' = [reader EXCEPT !.pc = "export_scores", !.tracks = tracks]
  /\ UNCHANGED <<scores, leaderboard, tracks, page>>

ExportGrades ==
  /\ reader.pc = "export_scores"
  /\ page' = Answer("export", [reader EXCEPT !.scored = Scored])
  /\ reader' = Idle
  /\ UNCHANGED <<scores, leaderboard, tracks>>

Next ==
  \/ \E u \in Users : PersistScored(u) \/ UpdateTrack(u)
  \/ \E by \in Metrics : ListLeaderboard("board", by)
  \/ ListLeaderboard("export", RankBy)
  \/ ListScores \/ GetBoard \/ ListProfiles \/ ExportGrades

Spec == Init /\ [][Next]_vars

-----------------------------------------------------------------------------
Submissions == 1..Len(scores)
Lines == DOMAIN page.lines

(* Types.  A row of the leaderboard names a scored submission of its user, *)
(* as UpsertLeaderboardEntry is called for.                                *)
TypeOK ==
  /\ \A i \in Submissions : scores[i] \in [user : Users, value : [Metrics -> Values]]
  /\ DOMAIN leaderboard \subseteq Users
  /\ \A u \in DOMAIN leaderboard :
       /\ leaderboard[u].submission \in Submissions /\ leaderboard[u].at \in Times
       /\ scores[leaderboard[u].submission].user = u
  /\ tracks \in [Users -> Metrics \cup {None}]
  /\ page # None => \A u \in Lines : page.lines[u].rank \in 0..Cardinality(Users)

(* GetBoard and ExportGrades: an answer made from a leaderboard that has   *)
(* not changed since its first statement shows every student's scores as   *)
(* they are, leaves unranked only the students of another track, numbers   *)
(* the others without a gap, and never puts a worse score of one metric    *)
(* before a better one.                                                    *)
QuietReadIsExact ==
  /\ TypeOK
  /\ (page # None /\ page.read = leaderboard) =>
       LET ranked == {u \in Lines : page.lines[u].rank > 0}
           Metric(u) == IF page.kind = "export" /\ Pick /\ page.lines[u].track # None
                        THEN page.lines[u].track ELSE page.by
       IN  /\ Lines = DOMAIN leaderboard
           /\ \A u \in Lines :
                /\ page.lines[u].score = scores[leaderboard[u].submission].value
                /\ u \in ranked <=> \/ page.kind = "export" \/ RankAll \/ ~Pick
                                    \/ page.lines[u].track = page.by
           /\ {page.lines[u].rank : u \in ranked} = 1..Cardinality(ranked)
           /\ \A u, v \in ranked :
                (/\ Metric(u) = Metric(v)
                 /\ Better(Metric(u), page.lines[u].score[Metric(u)],
                                      page.lines[v].score[Metric(v)]))
                  => page.lines[u].rank < page.lines[v].rank

(* Whoever was on one answer is on every later one: nothing takes a row    *)
(* off the leaderboard, and a result persisted between two statements of a *)
(* reader does not make it lose the row.                                   *)
NobodyDropsOff == [][page # None => Lines \subseteq DOMAIN page'.lines]_vars
=============================================================================
