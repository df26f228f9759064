----------------------------- MODULE BoardProofs -----------------------------
(***************************************************************************)
(* What Board promises for any students, metrics, directions, scores,      *)
(* times and number of submissions: a board or a grade export made while   *)
(* nothing changed is exact, and nobody who was on one is missing from a   *)
(* later one.                                                              *)
(*                                                                         *)
(* The ranks of the model count the rows before a row.  The first part     *)
(* shows that such ranks have no gap and no tie when the comparison is a   *)
(* strict total order; the second, that both comparisons of the code are;  *)
(* the third is about what a reader's statements see.                      *)
(***************************************************************************)
EXTENDS Board, SequenceTheorems, FiniteSetTheorems, FunctionTheorems, TLAPS

-----------------------------------------------------------------------------
(* Ranks by counting.                                                      *)

(* `before' is a set of pairs; it orders S strictly and totally.           *)
Orders(before, S) ==
  /\ \A a \in S : <<a, a>> \notin before
  /\ \A a, b \in S : a # b => <<a, b>> \in before \/ <<b, a>> \in before
  /\ \A a, b, c \in S : <<a, b>> \in before /\ <<b, c>> \in before => <<a, c>> \in before

Preceding(before, S, u) == {v \in S : <<v, u>> \in before}
RankIn(before, S, u) == Cardinality(Preceding(before, S, u)) + 1

LEMMA SmallerSets ==
  ASSUME NEW S, IsFiniteSet(S), NEW T, T \subseteq S, NEW x \in S, x \notin T
  PROVE  /\ IsFiniteSet(T) /\ Cardinality(T) \in Nat /\ Cardinality(S) \in Nat
         /\ Cardinality(T) < Cardinality(S)
  <1>1. /\ IsFiniteSet(T) /\ Cardinality(T) <= Cardinality(S)
        /\ Cardinality(S) = Cardinality(T) => S = T
    BY FS_Subset
  <1>2. Cardinality(T) \in Nat /\ Cardinality(S) \in Nat
    BY <1>1, FS_CardinalityType
  <1> QED BY <1>1, <1>2

LEMMA RankBounds ==
  ASSUME NEW S, IsFiniteSet(S), NEW before, Orders(before, S), NEW u \in S
  PROVE  RankIn(before, S, u) \in 1..Cardinality(S)
  <1>1. Preceding(before, S, u) \subseteq S /\ u \notin Preceding(before, S, u)
    BY DEF Preceding, Orders
  <1>2. /\ Cardinality(Preceding(before, S, u)) \in Nat /\ Cardinality(S) \in Nat
        /\ Cardinality(Preceding(before, S, u)) < Cardinality(S)
    BY <1>1, SmallerSets
  <1> QED BY <1>2 DEF RankIn

LEMMA RankGrows ==
  ASSUME NEW S, IsFiniteSet(S), NEW before, Orders(before, S),
         NEW u \in S, NEW v \in S, <<u, v>> \in before
  PROVE  RankIn(before, S, u) < RankIn(before, S, v)
  <1>1. /\ Preceding(before, S, u) \subseteq Preceding(before, S, v)
        /\ u \in Preceding(before, S, v) /\ u \notin Preceding(before, S, u)
    BY DEF Preceding, Orders
  <1>2. IsFiniteSet(Preceding(before, S, v))
    BY FS_Subset DEF Preceding
  <1>3. /\ Cardinality(Preceding(before, S, u)) \in Nat
        /\ Cardinality(Preceding(before, S, v)) \in Nat
        /\ Cardinality(Preceding(before, S, u)) < Cardinality(Preceding(before, S, v))
    BY <1>1, <1>2, SmallerSets
  <1> QED BY <1>3 DEF RankIn

(* Everybody has a rank of their own, so that every rank up to the number  *)
(* of rows is taken.                                                       *)
LEMMA RanksFill ==
  ASSUME NEW S, IsFiniteSet(S), NEW before, Orders(before, S)
  PROVE  {RankIn(before, S, u) : u \in S} = 1..Cardinality(S)
  <1> DEFINE n == Cardinality(S)
             f == [u \in S |-> RankIn(before, S, u)]
  <1>1. n \in Nat
    BY FS_CardinalityType
  <1>2. \A u \in S : RankIn(before, S, u) \in 1..n
    BY RankBounds
  <1>3. f \in [S -> 1..n]
    BY <1>2
  <1>4. \A u, v \in S : f[u] = f[v] => u = v
    <2> SUFFICES ASSUME NEW u \in S, NEW v \in S, u # v, f[u] = f[v] PROVE FALSE
      OBVIOUS
    <2>1. <<u, v>> \in before \/ <<v, u>> \in before
      BY DEF Orders
    <2>2. RankIn(before, S, u) < RankIn(before, S, v) \/ RankIn(before, S, v) < RankIn(before, S, u)
      BY <2>1, RankGrows
    <2>3. RankIn(before, S, u) \in Int /\ RankIn(before, S, v) \in Int
      BY <1>2
    <2> QED BY <2>2, <2>3
  <1>5. f \in Injection(S, 1..n)
    BY <1>3, <1>4 DEF Injection, IsInjective
  <1>6. IsFiniteSet(1..n) /\ Cardinality(1..n) = n
    BY <1>1, FS_Interval
  <1>7. f \in Surjection(S, 1..n)
    <2> HIDE DEF f
    <2>1. Cardinality(S) = Cardinality(1..n)
      BY <1>6
    <2> QED BY <1>5, <1>6, <2>1, FS_Injection
  <1>8. \A k \in 1..n : \E u \in S : f[u] = k
    BY <1>7 DEF Surjection
  <1> QED BY <1>2, <1>8

-----------------------------------------------------------------------------
(* The comparisons of GetBoard and ExportGrades.                           *)

Row0 == [submission : Submissions, at : Times]
Scores0 == [user : Users, value : [Metrics -> Values]]

StoredOK ==
  /\ scores \in Seq(Scores0)
  /\ DOMAIN leaderboard \subseteq Users
  /\ leaderboard \in [DOMAIN leaderboard -> Row0]
  /\ \A u \in DOMAIN leaderboard : scores[leaderboard[u].submission].user = u
  /\ tracks \in [Users -> Metrics \cup {None}]

(* What a reader has when it makes its answer.                             *)
Complete(r) ==
  /\ r.by \in Metrics
  /\ DOMAIN r.rows \subseteq Users /\ r.rows \in [DOMAIN r.rows -> Row0]
  /\ r.tracks \in [Users -> Metrics \cup {None}]

LEMMA Values0 ==
  ASSUME StoredOK, NEW r, Complete(r), NEW u \in Listed(r)
  PROVE  /\ \A m \in Metrics : Value(r, u, m) \in Int
         /\ r.rows[u].submission \in Submissions /\ r.rows[u].at \in Int
         /\ u \in Int /\ u \in Users
  <1>1. r.rows[u] \in Row0 /\ u \in Users
    BY DEF Listed, Complete
  <1>2. r.rows[u].submission \in Submissions /\ r.rows[u].at \in Int /\ u \in Int
    <2>1. (\A n \in Users : n \in Int) /\ (\A n \in Times : n \in Int)
      BY BoardAssumption
    <2>2. r.rows[u].submission \in Submissions /\ r.rows[u].at \in Times
      BY <1>1 DEF Row0
    <2> QED BY <1>1, <2>1, <2>2, Zenon
  <1>3. scores[r.rows[u].submission] \in Scores0
    <2>1. \A i \in Submissions : scores[i] \in Scores0
      <3> HIDE DEF Scores0
      <3> QED BY ElementOfSeq DEF StoredOK, Submissions
    <2> QED BY <1>2, <2>1
  <1>4. \A m \in Metrics : scores[r.rows[u].submission].value[m] \in Int
    BY <1>3, BoardAssumption DEF Scores0
  <1> QED BY <1>1, <1>2, <1>4 DEF Value

BoardPairs(r) == {p \in Listed(r) \X Listed(r) : BoardBefore(r, p[1], p[2])}
ExportPairs(r) == {p \in Listed(r) \X Listed(r) : ExportBefore(r, p[1], p[2])}

LEMMA Paired ==
  ASSUME NEW r, NEW a \in Listed(r), NEW b \in Listed(r)
  PROVE  /\ <<a, b>> \in BoardPairs(r) <=> BoardBefore(r, a, b)
         /\ <<a, b>> \in ExportPairs(r) <=> ExportBefore(r, a, b)
  BY DEF BoardPairs, ExportPairs

(* The board sorts by one metric, then by the time, then by the student.   *)
LEMMA BoardOrders ==
  ASSUME StoredOK, NEW r, Complete(r), NEW S, S \subseteq Listed(r)
  PROVE  Orders(BoardPairs(r), S)
  <1> DEFINE x(a) == Value(r, a, r.by)
             t(a) == r.rows[a].at
  <1>1. \A a \in S : a \in Listed(r) /\ x(a) \in Int /\ t(a) \in Int /\ a \in Int
    BY Values0 DEF Complete
  <1>2. CASE SortOf[r.by] = "asc"
    <2>1. \A a, b \in S : BoardBefore(r, a, b) <=>
            \/ x(a) < x(b)
            \/ x(a) = x(b) /\ t(a) < t(b)
            \/ x(a) = x(b) /\ t(a) = t(b) /\ a < b
      BY <1>2 DEF BoardBefore, Better
    <2>2. \A a, b \in S : <<a, b>> \in BoardPairs(r) <=>
            \/ x(a) < x(b)
            \/ x(a) = x(b) /\ t(a) < t(b)
            \/ x(a) = x(b) /\ t(a) = t(b) /\ a < b
      BY <1>1, <2>1, Paired
    <2> HIDE DEF x, t
    <2> QED BY <1>1, <2>2 DEF Orders
  <1>3. CASE SortOf[r.by] # "asc"
    <2>1. \A a, b \in S : BoardBefore(r, a, b) <=>
            \/ x(a) > x(b)
            \/ x(a) = x(b) /\ t(a) > t(b)
            \/ x(a) = x(b) /\ t(a) = t(b) /\ a < b
      BY <1>3 DEF BoardBefore, Better
    <2>2. \A a, b \in S : <<a, b>> \in BoardPairs(r) <=>
            \/ x(a) > x(b)
            \/ x(a) = x(b) /\ t(a) > t(b)
            \/ x(a) = x(b) /\ t(a) = t(b) /\ a < b
      BY <1>1, <2>1, Paired
    <2> HIDE DEF x, t
    <2> QED BY <1>1, <2>2 DEF Orders
  <1> QED BY <1>2, <1>3

LEMMA MetricsOf ==
  ASSUME NEW r, Complete(r), NEW u \in Listed(r)
  PROVE  MetricOf(r, u) \in Metrics
  BY DEF Complete, Listed, MetricOf

(* The export sorts by each student's own metric, more being better.       *)
LEMMA ExportOrders ==
  ASSUME StoredOK, NEW r, Complete(r)
  PROVE  Orders(ExportPairs(r), Listed(r))
  <1> DEFINE S == Listed(r)
             x(a) == Normalized(r, a)
             t(a) == r.rows[a].at
  <1>1. \A a \in S : x(a) \in Int /\ t(a) \in Int /\ a \in Int
    BY Values0, MetricsOf DEF Normalized
  <1>2. \A a, b \in S : <<a, b>> \in ExportPairs(r) <=>
          \/ x(a) > x(b)
          \/ x(a) = x(b) /\ t(a) > t(b)
          \/ x(a) = x(b) /\ t(a) = t(b) /\ a < b
    <2>1. \A a, b \in S : ExportBefore(r, a, b) <=>
            \/ x(a) > x(b)
            \/ x(a) = x(b) /\ t(a) > t(b)
            \/ x(a) = x(b) /\ t(a) = t(b) /\ a < b
      BY DEF ExportBefore
    <2> HIDE DEF x, t
    <2> QED BY <2>1, Paired
  <1> HIDE DEF x, t
  <1> QED BY <1>1, <1>2 DEF Orders

(* A board ranks the students of the metric, an export all.                *)
Competing(r) == {u \in Listed(r) : Ranked(r, u)}

LEMMA CountedRanks ==
  ASSUME NEW r
  PROVE  /\ \A u \in Competing(r) : BoardRank(r, u) = RankIn(BoardPairs(r), Competing(r), u)
         /\ \A u \in Listed(r) : ExportRank(r, u) = RankIn(ExportPairs(r), Listed(r), u)
  <1>1. ASSUME NEW u \in Competing(r)
        PROVE  BoardRank(r, u) = RankIn(BoardPairs(r), Competing(r), u)
    <2>1. {v \in Listed(r) : Ranked(r, v) /\ BoardBefore(r, v, u)}
            = Preceding(BoardPairs(r), Competing(r), u)
      BY <1>1, Paired DEF Preceding, Competing
    <2> QED BY <1>1, <2>1 DEF BoardRank, RankIn, Competing
  <1>2. ASSUME NEW u \in Listed(r)
        PROVE  ExportRank(r, u) = RankIn(ExportPairs(r), Listed(r), u)
    <2>1. {v \in Listed(r) : ExportBefore(r, v, u)} = Preceding(ExportPairs(r), Listed(r), u)
      BY Paired DEF Preceding
    <2> QED BY <2>1 DEF ExportRank, RankIn
  <1> QED BY <1>1, <1>2

-----------------------------------------------------------------------------
(* What an answer says by itself, whatever has happened since.             *)

Placed(p) == {u \in DOMAIN p.lines : p.lines[u].rank > 0}

OwnMetric(p, u) ==
  IF p.kind = "export" /\ Pick /\ p.lines[u].track # None THEN p.lines[u].track ELSE p.by

RanksRight(p) ==
  /\ \A u \in DOMAIN p.lines :
       u \in Placed(p) <=> \/ p.kind = "export" \/ RankAll \/ ~Pick
                           \/ p.lines[u].track = p.by
  /\ {p.lines[u].rank : u \in Placed(p)} = 1..Cardinality(Placed(p))
  /\ \A u, v \in Placed(p) :
       (/\ OwnMetric(p, u) = OwnMetric(p, v)
        /\ Better(OwnMetric(p, u), p.lines[u].score[OwnMetric(p, u)],
                                   p.lines[v].score[OwnMetric(p, v)]))
         => p.lines[u].rank < p.lines[v].rank

AnswerOK(p) ==
  /\ DOMAIN p.read \subseteq Users /\ p.read \in [DOMAIN p.read -> Row0]
  /\ DOMAIN p.lines = DOMAIN p.read
  /\ \A u \in DOMAIN p.lines : p.lines[u].rank \in 0..Cardinality(Users)
  /\ RanksRight(p)

LEMMA AnswerIs ==
  ASSUME NEW kind, NEW r, Complete(r)
  PROVE  LET p == Answer(kind, r) IN
         /\ p.kind = kind /\ p.by = r.by /\ p.read = r.rows /\ DOMAIN p.lines = Listed(r)
         /\ \A u \in Listed(r) :
              /\ p.lines[u].rank = IF kind = "board" THEN BoardRank(r, u) ELSE ExportRank(r, u)
              /\ p.lines[u].score = [m \in Metrics |-> Value(r, u, m)]
              /\ p.lines[u].track = r.tracks[u]
  BY DEF Answer

LEMMA FewUsers ==
  ASSUME NEW S, S \subseteq Users
  PROVE  /\ IsFiniteSet(S) /\ Cardinality(S) \in Nat /\ Cardinality(Users) \in Nat
         /\ 1..Cardinality(S) \subseteq 0..Cardinality(Users)
  <1>1. IsFiniteSet(Users)
    BY BoardAssumption
  <1>2. IsFiniteSet(S) /\ Cardinality(S) <= Cardinality(Users)
    BY <1>1, FS_Subset
  <1>3. Cardinality(S) \in Nat /\ Cardinality(Users) \in Nat
    BY <1>1, <1>2, FS_CardinalityType
  <1> QED BY <1>2, <1>3

LEMMA BoardAnswer ==
  ASSUME StoredOK, NEW r, Complete(r), NEW p, p = Answer("board", r)
  PROVE  /\ \A u \in DOMAIN p.lines : p.lines[u].rank \in 0..Cardinality(Users)
         /\ RanksRight(p)
  <1> DEFINE C == Competing(r)
             rank(u) == RankIn(BoardPairs(r), C, u)
  <1>1. /\ p.kind = "board" /\ p.by = r.by /\ DOMAIN p.lines = Listed(r)
        /\ \A u \in Listed(r) :
             /\ p.lines[u].rank = BoardRank(r, u)
             /\ p.lines[u].score = [m \in Metrics |-> Value(r, u, m)]
             /\ p.lines[u].track = r.tracks[u]
    BY AnswerIs
  <1>2. C \subseteq Listed(r) /\ C \subseteq Users
    BY DEF Competing, Complete, Listed
  <1>3. IsFiniteSet(C) /\ 1..Cardinality(C) \subseteq 0..Cardinality(Users)
        /\ Cardinality(C) \in Nat /\ Cardinality(Users) \in Nat
    BY <1>2, FewUsers
  <1>4. Orders(BoardPairs(r), C)
    BY <1>2, BoardOrders
  <1>5. \A u \in C : p.lines[u].rank = rank(u) /\ rank(u) \in 1..Cardinality(C)
    BY <1>1, <1>2, <1>3, <1>4, RankBounds, CountedRanks
  <1>6. \A u \in Listed(r) : u \notin C => p.lines[u].rank = 0
    BY <1>1 DEF BoardRank, Competing
  <1>7. Placed(p) = C
    <2> HIDE DEF rank, C
    <2> QED BY <1>1, <1>2, <1>3, <1>5, <1>6 DEF Placed
  <1>8. \A u \in Listed(r) : u \in C <=> RankAll \/ ~Pick \/ p.lines[u].track = p.by
    BY <1>1 DEF Competing, Ranked
  <1>9. {p.lines[u].rank : u \in C} = 1..Cardinality(C)
    <2>1. {rank(u) : u \in C} = 1..Cardinality(C)
      BY <1>3, <1>4, RanksFill
    <2> HIDE DEF rank, C
    <2> QED BY <1>5, <2>1
  <1>10. ASSUME NEW u \in C, NEW v \in C,
                Better(r.by, p.lines[u].score[r.by], p.lines[v].score[r.by])
         PROVE  p.lines[u].rank < p.lines[v].rank
    <2>1. Better(r.by, Value(r, u, r.by), Value(r, v, r.by))
      <3>1. r.by \in Metrics /\ u \in Listed(r) /\ v \in Listed(r)
        BY <1>2 DEF Complete
      <3>2. /\ p.lines[u].score = [m \in Metrics |-> Value(r, u, m)]
            /\ p.lines[v].score = [m \in Metrics |-> Value(r, v, m)]
        BY <1>1, <3>1, Zenon
      <3>3. ASSUME NEW m \in Metrics
            PROVE  p.lines[u].score[m] = Value(r, u, m) /\ p.lines[v].score[m] = Value(r, v, m)
        BY <3>2
      <3>4. /\ p.lines[u].score[r.by] = Value(r, u, r.by)
            /\ p.lines[v].score[r.by] = Value(r, v, r.by)
        BY <3>1, <3>3
      <3> QED BY <1>10, <3>4
    <2>2. <<u, v>> \in BoardPairs(r)
      BY <1>2, <2>1, Paired DEF BoardBefore
    <2>3. rank(u) < rank(v)
      BY <1>3, <1>4, <2>2, RankGrows
    <2> QED BY <1>5, <2>3
  <1> HIDE DEF C, rank
  <1>11. \A u \in DOMAIN p.lines : p.lines[u].rank \in 0..Cardinality(Users)
    BY <1>1, <1>3, <1>5, <1>6
  <1>12. \A u \in C : OwnMetric(p, u) = r.by
    BY <1>1 DEF OwnMetric
  <1> QED BY <1>1, <1>7, <1>8, <1>9, <1>10, <1>11, <1>12 DEF RanksRight

LEMMA ExportAnswer ==
  ASSUME StoredOK, NEW r, Complete(r), NEW p, p = Answer("export", r)
  PROVE  /\ \A u \in DOMAIN p.lines : p.lines[u].rank \in 0..Cardinality(Users)
         /\ RanksRight(p)
  <1> DEFINE L == Listed(r)
             rank(u) == RankIn(ExportPairs(r), L, u)
  <1>1. /\ p.kind = "export" /\ p.by = r.by /\ DOMAIN p.lines = L
        /\ \A u \in L :
             /\ p.lines[u].rank = ExportRank(r, u)
             /\ p.lines[u].score = [m \in Metrics |-> Value(r, u, m)]
             /\ p.lines[u].track = r.tracks[u]
    BY AnswerIs
  <1>2. L \subseteq Users
    BY DEF Complete, Listed
  <1>3. IsFiniteSet(L) /\ 1..Cardinality(L) \subseteq 0..Cardinality(Users)
        /\ Cardinality(L) \in Nat
    BY <1>2, FewUsers
  <1>4. Orders(ExportPairs(r), L)
    BY ExportOrders
  <1>5. \A u \in L : p.lines[u].rank = rank(u) /\ rank(u) \in 1..Cardinality(L)
    BY <1>1, <1>3, <1>4, RankBounds, CountedRanks
  <1>6. Placed(p) = L
    <2> HIDE DEF rank, L
    <2> QED BY <1>1, <1>3, <1>5 DEF Placed
  <1>7. {p.lines[u].rank : u \in L} = 1..Cardinality(L)
    <2>1. {rank(u) : u \in L} = 1..Cardinality(L)
      BY <1>3, <1>4, RanksFill
    <2> HIDE DEF rank, L
    <2> QED BY <1>5, <2>1
  <1>8. \A u \in L : OwnMetric(p, u) = MetricOf(r, u)
    BY <1>1 DEF OwnMetric, MetricOf
  <1>9. ASSUME NEW u \in L, NEW v \in L, NEW m \in Metrics,
               MetricOf(r, u) = m, MetricOf(r, v) = m,
               Better(m, p.lines[u].score[m], p.lines[v].score[m])
        PROVE  p.lines[u].rank < p.lines[v].rank
    <2>1. Better(m, Value(r, u, m), Value(r, v, m))
      <3>1. /\ p.lines[u].score = [n \in Metrics |-> Value(r, u, n)]
            /\ p.lines[v].score = [n \in Metrics |-> Value(r, v, n)]
        BY <1>1, Zenon
      <3>2. /\ p.lines[u].score[m] = Value(r, u, m)
            /\ p.lines[v].score[m] = Value(r, v, m)
        BY <3>1
      <3> QED BY <1>9, <3>2
    <2>2. Value(r, u, m) \in Int /\ Value(r, v, m) \in Int
      BY Values0
    <2>3. Normalized(r, u) > Normalized(r, v)
      BY <1>9, <2>1, <2>2 DEF Normalized, Better
    <2>4. <<u, v>> \in ExportPairs(r)
      BY <2>3, Paired DEF ExportBefore
    <2>5. rank(u) < rank(v)
      BY <1>3, <1>4, <2>4, RankGrows
    <2> QED BY <1>5, <2>5
  <1>10. \A u \in L : MetricOf(r, u) \in Metrics
    BY MetricsOf
  <1> HIDE DEF L, rank
  <1>11. \A u \in DOMAIN p.lines : p.lines[u].rank \in 0..Cardinality(Users)
    BY <1>1, <1>3, <1>5
  <1> QED BY <1>1, <1>6, <1>7, <1>8, <1>9, <1>10, <1>11 DEF RanksRight

-----------------------------------------------------------------------------
(* The inductive invariant: what the statements of a reader have in common *)
(* with the tables, which go on changing.                                  *)

ReaderPcs == {"idle", "board_scores", "board_profiles", "export_profiles", "export_scores"}

(* The rows read first stay rows of users who are on the leaderboard.  If  *)
(* they are its rows still, no row has changed between the first statement *)
(* and the second, since a row that changes names a new submission.        *)
ReaderOK ==
  /\ reader = [pc |-> reader.pc, by |-> reader.by, rows |-> reader.rows,
               scored |-> reader.scored, tracks |-> reader.tracks]
  /\ reader.pc \in ReaderPcs
  /\ reader.pc # "idle" =>
       /\ reader.by \in Metrics
       /\ DOMAIN reader.rows \subseteq DOMAIN leaderboard
       /\ reader.rows \in [DOMAIN reader.rows -> Row0]
  /\ reader.pc = "board_profiles" /\ reader.rows = leaderboard => reader.scored = Scored
  /\ reader.pc = "export_scores" => reader.tracks \in [Users -> Metrics \cup {None}]

(* Whoever is on the answer is on the leaderboard, and with the reader     *)
(* that makes the next one; the scores are those of the rows it was made   *)
(* from, as long as these are current.                                     *)
PageOK ==
  page # None =>
    /\ AnswerOK(page)
    /\ Lines \subseteq DOMAIN leaderboard
    /\ reader.pc # "idle" => Lines \subseteq DOMAIN reader.rows
    /\ page.read = leaderboard =>
         \A u \in Lines : page.lines[u].score = scores[leaderboard[u].submission].value

BInv == StoredOK /\ ReaderOK /\ PageOK

-----------------------------------------------------------------------------
LEMMA BInit == Init => BInv
  <1> SUFFICES ASSUME Init PROVE BInv
    OBVIOUS
  <1>1. leaderboard = <<>> /\ DOMAIN leaderboard = {}
    BY DEF Init
  <1>2. scores \in Seq(Scores0)
    BY DEF Init
  <1>3. leaderboard \in [DOMAIN leaderboard -> Row0]
    BY <1>1
  <1>4. tracks \in [Users -> Metrics \cup {None}]
    BY DEF Init
  <1>5. StoredOK
    BY <1>1, <1>2, <1>3, <1>4 DEF StoredOK
  <1>6. ReaderOK
    BY DEF Init, Idle, ReaderOK, ReaderPcs
  <1> QED BY <1>5, <1>6 DEF Init, BInv, PageOK

(* A persisted result is a new submission: no row that was read names it.  *)
LEMMA Persisted ==
  ASSUME StoredOK, NEW u \in Users, PersistScored(u)
  PROVE  /\ StoredOK'
         /\ Row0 \subseteq Row0'
         /\ \A i \in Submissions : i \in Submissions' /\ scores'[i] = scores[i]
         /\ DOMAIN leaderboard \subseteq DOMAIN leaderboard'
         /\ u \in DOMAIN leaderboard' /\ leaderboard'[u].submission \notin Submissions
  <1> PICK value \in [Metrics -> Values], at \in Times :
        /\ scores' = Append(scores, [user |-> u, value |-> value])
        /\ leaderboard' = [v \in DOMAIN leaderboard \cup {u} |->
                             IF v = u THEN Row(u, at) ELSE leaderboard[v]]
    BY DEF PersistScored
  <1> PICK new : new = [user |-> u, value |-> value]
    OBVIOUS
  <1>1. new \in Scores0 /\ new.user = u
    BY DEF Scores0
  <1>2. scores \in Seq(Scores0) /\ scores' = Append(scores, new)
    BY DEF StoredOK
  <1>3. /\ scores' \in Seq(Scores0) /\ Len(scores) \in Nat /\ Len(scores') = Len(scores) + 1
        /\ \A i \in 1..Len(scores) : scores'[i] = scores[i]
        /\ scores'[Len(scores) + 1] = new
    <2> HIDE DEF Scores0
    <2> QED BY <1>1, <1>2
  <1>4. /\ Submissions \subseteq Submissions'
        /\ Len(scores) + 1 \in Submissions' /\ Len(scores) + 1 \notin Submissions
    BY <1>3 DEF Submissions
  <1>5. Row0 \subseteq Row0'
    BY <1>4 DEF Row0
  <1>6. Row(u, at) \in Row0' /\ Row(u, at).submission = Len(scores) + 1
    BY <1>4 DEF Row, Row0
  <1>7. DOMAIN leaderboard' = DOMAIN leaderboard \cup {u}
    OBVIOUS
  <1>8. \A v \in DOMAIN leaderboard : leaderboard[v] \in Row0
    BY DEF StoredOK
  <1>9. leaderboard' \in [DOMAIN leaderboard' -> Row0']
    <2> HIDE DEF Row0, Row
    <2> QED BY <1>5, <1>6, <1>7, <1>8
  <1>10. \A v \in DOMAIN leaderboard' : scores'[leaderboard'[v].submission].user = v
    <2>1. scores'[leaderboard'[u].submission].user = u
      BY <1>1, <1>3, <1>6
    <2>2. ASSUME NEW v \in DOMAIN leaderboard, v # u
          PROVE  scores'[leaderboard'[v].submission].user = v
      <3>1. leaderboard[v].submission \in 1..Len(scores)
        BY <1>8 DEF Row0, Submissions
      <3>2. leaderboard'[v] = leaderboard[v] /\ scores[leaderboard[v].submission].user = v
        BY <2>2 DEF StoredOK
      <3> QED BY <1>3, <3>1, <3>2
    <2> QED BY <1>7, <2>1, <2>2
  <1>11. tracks' \in [Users -> Metrics \cup {None}] /\ DOMAIN leaderboard' \subseteq Users
    BY <1>7 DEF PersistScored, StoredOK
  <1>12. StoredOK'
    BY <1>3, <1>9, <1>10, <1>11 DEF StoredOK, Scores0
  <1>13. leaderboard'[u].submission = Len(scores) + 1
    BY <1>6
  <1> QED BY <1>3, <1>4, <1>5, <1>7, <1>12, <1>13 DEF Submissions

(* Rows that were read do not become current again.                        *)
LEMMA NeverAgain ==
  ASSUME StoredOK, NEW u \in Users, PersistScored(u), NEW rows, rows \in [DOMAIN rows -> Row0]
  PROVE  rows # leaderboard'
  <1> SUFFICES ASSUME rows = leaderboard' PROVE FALSE
    OBVIOUS
  <1>1. u \in DOMAIN rows /\ rows[u].submission \notin Submissions
    BY Persisted
  <1> QED BY <1>1 DEF Row0

LEMMA PersistKeeps == ASSUME BInv, NEW u \in Users, PersistScored(u) PROVE BInv'
  <1>1. /\ StoredOK' /\ Row0 \subseteq Row0' /\ DOMAIN leaderboard \subseteq DOMAIN leaderboard'
    BY Persisted DEF BInv
  <1>2. reader' = reader /\ page' = page
    BY DEF PersistScored
  <1>3. ReaderOK'
    <2>1. reader.pc # "idle" => reader.rows # leaderboard'
      BY NeverAgain DEF BInv, ReaderOK
    <2>2. reader.pc # "idle" => /\ DOMAIN reader.rows \subseteq DOMAIN leaderboard'
                                /\ reader.rows \in [DOMAIN reader.rows -> Row0']
      <3> HIDE DEF Row0
      <3> QED BY <1>1 DEF BInv, ReaderOK
    <2> QED BY <1>2, <2>1, <2>2 DEF BInv, ReaderOK
  <1>4. PageOK'
    <2> SUFFICES ASSUME page # None PROVE PageOK'
      BY <1>2 DEF PageOK
    <2>1. /\ AnswerOK(page) /\ Lines \subseteq DOMAIN leaderboard
          /\ reader.pc # "idle" => Lines \subseteq DOMAIN reader.rows
      BY DEF BInv, PageOK
    <2>2. page.read # leaderboard'
      BY <2>1, NeverAgain DEF BInv, AnswerOK
    <2>3. AnswerOK(page)'
      <3>1. page.read \in [DOMAIN page.read -> Row0']
        <4> HIDE DEF Row0
        <4> QED BY <1>1, <2>1 DEF AnswerOK
      <3>2. RanksRight(page)'
        BY <1>2, <2>1 DEF AnswerOK
      <3> QED BY <1>2, <2>1, <3>1, <3>2 DEF AnswerOK
    <2> QED BY <1>1, <1>2, <2>1, <2>2, <2>3 DEF PageOK, Lines
  <1> QED BY <1>1, <1>3, <1>4 DEF BInv

(* An answer stays right when the tables stay as they are.                 *)
LEMMA PageStays ==
  ASSUME PageOK, UNCHANGED <<scores, leaderboard, page>>,
         reader'.pc # "idle" => \/ reader'.rows = leaderboard
                                \/ reader.pc # "idle" /\ reader'.rows = reader.rows
  PROVE  PageOK'
  <1> SUFFICES ASSUME page # None PROVE PageOK'
    BY DEF PageOK
  <1>1. /\ AnswerOK(page) /\ Lines \subseteq DOMAIN leaderboard
        /\ reader.pc # "idle" => Lines \subseteq DOMAIN reader.rows
        /\ page.read = leaderboard =>
             \A u \in Lines : page.lines[u].score = scores[leaderboard[u].submission].value
    BY DEF PageOK
  <1>2. Lines' = Lines /\ Row0' = Row0
    BY DEF Lines, Row0, Submissions
  <1>3. RanksRight(page)'
    BY <1>1 DEF AnswerOK
  <1>4. AnswerOK(page)'
    BY <1>1, <1>2, <1>3 DEF AnswerOK
  <1> QED BY <1>1, <1>2, <1>4 DEF PageOK

LEMMA UpdateTrackKeeps == ASSUME BInv, NEW u \in Users, UpdateTrack(u) PROVE BInv'
  <1>1. tracks' \in [Users -> Metrics \cup {None}]
    BY DEF UpdateTrack, BInv, StoredOK
  <1>2. UNCHANGED <<scores, leaderboard, reader, page>>
    BY DEF UpdateTrack
  <1>3. StoredOK'
    BY <1>1, <1>2 DEF BInv, StoredOK, Row0, Submissions
  <1>4. ReaderOK'
    BY <1>2 DEF BInv, ReaderOK, Row0, Submissions, Scored
  <1>5. PageOK'
    BY <1>2, PageStays DEF BInv
  <1> QED BY <1>3, <1>4, <1>5 DEF BInv

LEMMA ListLeaderboardKeeps ==
  ASSUME BInv, NEW kind, NEW by \in Metrics, ListLeaderboard(kind, by)
  PROVE  BInv'
  <1>1. UNCHANGED <<scores, leaderboard, tracks, page>>
    BY DEF ListLeaderboard
  <1>2. /\ reader' = [pc |-> IF kind = "board" THEN "board_scores" ELSE "export_profiles",
                      by |-> by, rows |-> leaderboard, scored |-> {}, tracks |-> <<>>]
    BY DEF ListLeaderboard, Idle
  <1>3. StoredOK' /\ Row0' = Row0
    BY <1>1 DEF BInv, StoredOK, Row0, Submissions
  <1>4. ReaderOK'
    BY <1>1, <1>2, <1>3 DEF BInv, StoredOK, ReaderOK, ReaderPcs
  <1>5. PageOK'
    <2>1. reader'.rows = leaderboard
      BY <1>2
    <2> QED BY <1>1, <2>1, PageStays DEF BInv
  <1> QED BY <1>3, <1>4, <1>5 DEF BInv

(* The second statement of either request reads nothing of the rows.       *)
LEMMA ReadsKeep == ASSUME BInv, ListScores \/ ListProfiles PROVE BInv'
  <1>1. UNCHANGED <<scores, leaderboard, tracks, page>>
    BY DEF ListScores, ListProfiles
  <1>2. /\ reader'.rows = reader.rows /\ reader'.by = reader.by /\ reader.pc # "idle"
        /\ reader' = [pc |-> reader'.pc, by |-> reader'.by, rows |-> reader'.rows,
                      scored |-> reader'.scored, tracks |-> reader'.tracks]
        /\ \/ reader'.pc = "board_profiles" /\ reader'.scored = Scored
           \/ reader'.pc = "export_scores" /\ reader'.tracks = tracks
    <2>1. reader = [pc |-> reader.pc, by |-> reader.by, rows |-> reader.rows,
                    scored |-> reader.scored, tracks |-> reader.tracks]
      BY DEF BInv, ReaderOK
    <2>2. CASE ListScores
      BY <2>1, <2>2 DEF ListScores
    <2>3. CASE ListProfiles
      BY <2>1, <2>3 DEF ListProfiles
    <2> QED BY <2>2, <2>3
  <1>3. StoredOK' /\ Row0' = Row0 /\ Scored' = Scored
    BY <1>1 DEF BInv, StoredOK, Row0, Submissions, Scored
  <1>4. ReaderOK'
    <2>1. /\ reader.by \in Metrics /\ DOMAIN reader.rows \subseteq DOMAIN leaderboard
          /\ reader.rows \in [DOMAIN reader.rows -> Row0]
          /\ tracks \in [Users -> Metrics \cup {None}]
      BY <1>2 DEF BInv, StoredOK, ReaderOK
    <2> HIDE DEF Row0
    <2> QED BY <1>1, <1>2, <1>3, <2>1 DEF ReaderOK, ReaderPcs
  <1>5. PageOK'
    BY <1>1, <1>2, PageStays DEF BInv
  <1> QED BY <1>3, <1>4, <1>5 DEF BInv

(* The last statement of a request makes the answer, which has the rows of *)
(* the first one.                                                          *)
Answers(kind, r) ==
  /\ page' = Answer(kind, r) /\ reader' = Idle
  /\ UNCHANGED <<scores, leaderboard, tracks>>
  /\ reader.pc # "idle" /\ r.rows = reader.rows

LEMMA AnswersKeep ==
  ASSUME BInv, NEW kind \in {"board", "export"}, NEW r, Complete(r), Answers(kind, r),
         r.rows = leaderboard => r.scored = Scored
  PROVE  BInv' /\ (page # None => Lines \subseteq DOMAIN page'.lines)
  <1>1. UNCHANGED <<scores, leaderboard, tracks>> /\ r.rows = reader.rows /\ reader.pc # "idle"
    BY DEF Answers
  <1>2. StoredOK' /\ Row0' = Row0
    BY <1>1 DEF BInv, StoredOK, Row0, Submissions
  <1>3. ReaderOK'
    BY DEF Answers, Idle, ReaderOK, ReaderPcs
  <1> PICK p : p = Answer(kind, r)
    OBVIOUS
  <1>4. /\ p.read = r.rows /\ DOMAIN p.lines = Listed(r)
        /\ \A u \in Listed(r) : p.lines[u].score = [m \in Metrics |-> Value(r, u, m)]
    BY AnswerIs
  <1>5. page' = p /\ reader'.pc = "idle"
    BY DEF Answers, Idle
  <1>6. AnswerOK(p)
    <2>1. /\ \A u \in DOMAIN p.lines : p.lines[u].rank \in 0..Cardinality(Users)
          /\ RanksRight(p)
      BY BoardAnswer, ExportAnswer DEF BInv
    <2> QED BY <1>4, <2>1 DEF AnswerOK, Complete, Listed
  <1>7. ASSUME p.read = leaderboard, NEW u \in DOMAIN p.lines
        PROVE  p.lines[u].score = scores[leaderboard[u].submission].value
    <2> DEFINE s == leaderboard[u].submission
    <2>1. r.rows = leaderboard /\ r.scored = Scored /\ u \in DOMAIN leaderboard /\ u \in Listed(r)
      BY <1>4, <1>7 DEF Listed
    <2>2. r.rows[u].submission = s /\ s \in r.scored
      BY <2>1 DEF Scored
    <2>3. scores[s] \in Scores0
      <3>1. s \in Submissions
        BY <2>1 DEF BInv, StoredOK, Row0
      <3>2. scores \in Seq(Scores0)
        BY DEF BInv, StoredOK
      <3> HIDE DEF Scores0, s
      <3> QED BY <3>1, <3>2, ElementOfSeq DEF Submissions
    <2>4. \A m \in Metrics : Value(r, u, m) = scores[s].value[m]
      BY <2>2 DEF Value
    <2>5. p.lines[u].score = [m \in Metrics |-> Value(r, u, m)]
      BY <1>4, <2>1
    <2>6. scores[s].value \in [Metrics -> Values]
      BY <2>3 DEF Scores0
    <2> QED BY <2>4, <2>5, <2>6
  <1>8. DOMAIN p.lines = DOMAIN reader.rows /\ DOMAIN reader.rows \subseteq DOMAIN leaderboard
    BY <1>1, <1>4 DEF Listed, BInv, ReaderOK
  <1>9. AnswerOK(p)'
    BY <1>2, <1>6 DEF AnswerOK, RanksRight, Placed, OwnMetric, Better
  <1>10. PageOK'
    <2>1. AnswerOK(page)'
      BY <1>5, <1>9 DEF AnswerOK
    <2>2. /\ Lines' = DOMAIN p.lines /\ reader'.pc = "idle"
          /\ leaderboard' = leaderboard /\ scores' = scores
      BY <1>1, <1>5 DEF Lines
    <2> QED BY <1>5, <1>7, <1>8, <2>1, <2>2 DEF PageOK
  <1>11. page # None => Lines \subseteq DOMAIN page'.lines
    BY <1>1, <1>5, <1>8 DEF BInv, PageOK
  <1> QED BY <1>2, <1>3, <1>10, <1>11 DEF BInv

LEMMA GetBoardAnswers ==
  ASSUME BInv, GetBoard
  PROVE  BInv' /\ (page # None => Lines \subseteq DOMAIN page'.lines)
  <1> PICK r : r = [reader EXCEPT !.tracks = tracks]
    OBVIOUS
  <1>1. /\ r.by = reader.by /\ r.rows = reader.rows /\ r.scored = reader.scored
        /\ r.tracks = tracks /\ reader.pc = "board_profiles"
    BY DEF BInv, ReaderOK, GetBoard
  <1>2. Complete(r)
    BY <1>1 DEF BInv, StoredOK, ReaderOK, Complete
  <1>3. r.rows = leaderboard => r.scored = Scored
    BY <1>1 DEF BInv, ReaderOK
  <1>4. Answers("board", r)
    BY <1>1 DEF GetBoard, Answers
  <1> QED BY <1>2, <1>3, <1>4, AnswersKeep

LEMMA ExportAnswers ==
  ASSUME BInv, ExportGrades
  PROVE  BInv' /\ (page # None => Lines \subseteq DOMAIN page'.lines)
  <1> PICK r : r = [reader EXCEPT !.scored = Scored]
    OBVIOUS
  <1>1. /\ r.by = reader.by /\ r.rows = reader.rows /\ r.scored = Scored
        /\ r.tracks = reader.tracks /\ reader.pc = "export_scores"
    BY DEF BInv, ReaderOK, ExportGrades
  <1>2. Complete(r)
    BY <1>1 DEF BInv, StoredOK, ReaderOK, Complete
  <1>3. Answers("export", r)
    BY <1>1 DEF ExportGrades, Answers
  <1> QED BY <1>1, <1>2, <1>3, AnswersKeep

LEMMA BKeeps == BInv /\ [Next]_vars => BInv'
  <1> SUFFICES ASSUME BInv, [Next]_vars PROVE BInv'
    OBVIOUS
  <1>1. ASSUME NEW u \in Users, PersistScored(u) PROVE BInv'
    BY <1>1, PersistKeeps
  <1>2. ASSUME NEW u \in Users, UpdateTrack(u) PROVE BInv'
    BY <1>2, UpdateTrackKeeps
  <1>3. ASSUME NEW by \in Metrics, ListLeaderboard("board", by) PROVE BInv'
    BY <1>3, ListLeaderboardKeeps
  <1>4. CASE ListLeaderboard("export", RankBy)
    BY <1>4, ListLeaderboardKeeps, BoardAssumption
  <1>5. CASE ListScores \/ ListProfiles
    BY <1>5, ReadsKeep
  <1>6. CASE GetBoard
    BY <1>6, GetBoardAnswers
  <1>7. CASE ExportGrades
    BY <1>7, ExportAnswers
  <1>8. CASE UNCHANGED vars
    <2>1. UNCHANGED <<scores, leaderboard, tracks, reader, page>>
      BY <1>8 DEF vars
    <2>2. StoredOK' /\ ReaderOK'
      BY <2>1 DEF BInv, StoredOK, ReaderOK, Row0, Submissions, Scored
    <2>3. PageOK'
      BY <2>1, PageStays DEF BInv
    <2> QED BY <2>2, <2>3 DEF BInv
  <1> QED BY <1>1, <1>2, <1>3, <1>4, <1>5, <1>6, <1>7, <1>8 DEF Next

(* What the readers' statements have in common with the tables, and what   *)
(* an answer says, in every reachable state.                               *)
THEOREM Invariance == Spec => []BInv
  BY BInit, BKeeps, PTL DEF Spec

(* Every variable has its type.                                            *)
LEMMA Typed == BInv => TypeOK
  <1> SUFFICES ASSUME BInv PROVE TypeOK
    OBVIOUS
  <1>1. \A i \in Submissions : scores[i] \in Scores0
    <2> HIDE DEF Scores0
    <2> QED BY ElementOfSeq DEF BInv, StoredOK, Submissions
  <1>2. \A u \in DOMAIN leaderboard :
          /\ leaderboard[u].submission \in Submissions /\ leaderboard[u].at \in Times
          /\ scores[leaderboard[u].submission].user = u
    <2>1. \A u \in DOMAIN leaderboard : leaderboard[u] \in Row0
      BY DEF BInv, StoredOK
    <2> QED BY <2>1 DEF Row0, BInv, StoredOK
  <1>3. page # None => \A u \in Lines : page.lines[u].rank \in 0..Cardinality(Users)
    BY DEF BInv, PageOK, AnswerOK, Lines
  <1> QED BY <1>1, <1>2, <1>3 DEF TypeOK, BInv, StoredOK, Scores0

(* An answer made from rows that are current shows every student's scores  *)
(* and ranks them by them, whatever was persisted while it was made.       *)
THEOREM QuietReadsAreExact == Spec => []QuietReadIsExact
  <1>1. BInv => QuietReadIsExact
    <2> SUFFICES ASSUME BInv PROVE QuietReadIsExact
      OBVIOUS
    <2>1. TypeOK
      BY Typed
    <2>2. ASSUME page # None, page.read = leaderboard
          PROVE  /\ Lines = DOMAIN leaderboard /\ RanksRight(page)
                 /\ \A u \in Lines :
                      page.lines[u].score = scores[leaderboard[u].submission].value
      BY <2>2 DEF BInv, PageOK, AnswerOK, Lines
    <2> QED BY <2>1, <2>2 DEF QuietReadIsExact, RanksRight, Placed, OwnMetric, Lines
  <1> QED BY <1>1, Invariance, PTL

(* Whoever was on one answer is on every later one, although the answer is *)
(* put together from tables read one after another.                        *)
THEOREM NobodyDisappears == Spec => NobodyDropsOff
  <1> DEFINE Stays == page # None => Lines \subseteq DOMAIN page'.lines
  <1>1. BInv /\ [Next]_vars => Stays
    <2> SUFFICES ASSUME BInv, [Next]_vars PROVE Stays
      OBVIOUS
    <2>1. CASE GetBoard \/ ExportGrades
      BY <2>1, GetBoardAnswers, ExportAnswers
    <2>2. CASE page' = page
      BY <2>2 DEF Lines
    <2> QED BY <2>1, <2>2 DEF Next, vars, PersistScored, UpdateTrack, ListLeaderboard, ListScores,
               ListProfiles
  <1>2. BInv /\ [Next]_vars => [Stays]_vars
    BY <1>1
  <1> QED BY <1>2, Invariance, PTL DEF Spec, NobodyDropsOff
=============================================================================
