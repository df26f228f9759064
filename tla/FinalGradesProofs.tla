------------------------- MODULE FinalGradesProofs -------------------------
(***************************************************************************)
(* What FinalGrades promises for any files, students and imports.          *)
(***************************************************************************)
EXTENDS FinalGrades, WellFoundedInduction, TLAPS

-----------------------------------------------------------------------------
(* Reading a header.                                                       *)

LEMMA Least ==
  ASSUME NEW T, T \subseteq Nat, T # {}
  PROVE  \E x \in T : \A y \in T : x <= y
  <1> DEFINE R == OpToRel(<, Nat)
  <1>1. IsWellFoundedOn(R, Nat)
    BY NatLessThanWellFounded
  <1>2. PICK x \in T : \A y \in T : <<y, x>> \notin R
    <2> HIDE DEF R
    <2> QED BY <1>1, WFMin
  <1>3. \A y \in T : ~(y < x)
    BY <1>2 DEF OpToRel
  <1> QED BY <1>3

(* When the columns of a role are the first of a kind, the cell of the role *)
(* is the first cell of the kind.                                          *)
LEMMA FirstIsRead ==
  ASSUME NEW f, f.header \in Seq(STRING),
         NEW k \in DOMAIN f.records,
         NEW kind, NEW role,
         \A i \in DOMAIN f.header : Role(f.header, i) = role <=>
           f.header[i] \in kind /\ \A j \in 1 .. i - 1 : f.header[j] \notin kind
  PROVE  Under(f.header, f.records[k], role) = FirstCell(f, k, kind)
  <1> DEFINE h == f.header
             C == {i \in DOMAIN h : h[i] \in kind}
             R == Columns(h, role)
  <1>1. DOMAIN h = 1 .. Len(h) /\ Len(h) \in Nat
    OBVIOUS
  <1>2. R = {i \in C : \A j \in 1 .. i - 1 : h[j] \notin kind}
    BY DEF Columns
  <1>3. CASE C = {}
    BY <1>2, <1>3 DEF Under, FirstCell
  <1>4. CASE C # {}
    <2>1. C \subseteq 1 .. Len(h)
      BY <1>1
    <2>2. PICK x \in C : \A y \in C : x <= y
      <3>1. C \subseteq Nat /\ C # {}
        BY <2>1, <1>1, <1>4
      <3> HIDE DEF C
      <3> QED BY <3>1, Least
    <2>3. R = {x}
      <3>1. ASSUME NEW j \in 1 .. x - 1 PROVE h[j] \notin kind
        <4>1. x \in 1 .. Len(h) /\ j \in DOMAIN h
          BY <2>1, <2>2, <1>1
        <4>2. j \in Nat /\ ~(x <= j)
          BY <4>1, <1>1
        <4>3. j \notin C
          BY <2>2, <4>2
        <4> QED BY <4>1, <4>3
      <3>2. \A y \in R : y = x
        BY <1>2, <2>1, <2>2, <1>1
      <3>3. x \in R
        BY <1>2, <2>2, <3>1
      <3> HIDE DEF R
      <3> QED BY <3>2, <3>3
    <2>4. (CHOOSE i \in R : \A j \in R : j <= i) = x
      BY <2>1, <2>3, <1>1
    <2>5. (CHOOSE i \in C : \A j \in C : i <= j) = x
      BY <2>1, <2>2, <1>1
    <2>6. Under(h, f.records[k], role) = Cell(f.records[k], x)
      BY <2>3, <2>4 DEF Under
    <2>7. FirstCell(f, k, kind) = Cell(f.records[k], x)
      BY <1>4, <2>5 DEF FirstCell
    <2> QED BY <2>6, <2>7
  <1> QED BY <1>3, <1>4

LEMMA StudentIsRead ==
  ASSUME NEW f \in Files, NEW k \in DOMAIN f.records
  PROVE  StudentOf(f.header, f.records[k]) = FirstCell(f, k, {"student_id"})
  <1>1. f.header \in Seq(STRING)
    BY FinalGradesAssumption
  <1>2. \A i \in DOMAIN f.header : Role(f.header, i) = "student" <=>
          /\ f.header[i] \in {"student_id"}
          /\ \A j \in 1 .. i - 1 : f.header[j] \notin {"student_id"}
    BY DEF Role, TotalAliases, RemarkAliases
  <1> QED BY <1>1, <1>2, FirstIsRead DEF StudentOf

LEMMA TotalIsRead ==
  ASSUME NEW f \in Files, NEW k \in DOMAIN f.records
  PROVE  GradeOf(f.header, f.records[k]).total = FirstCell(f, k, TotalAliases)
  <1>1. f.header \in Seq(STRING)
    BY FinalGradesAssumption
  <1>2. \A i \in DOMAIN f.header : Role(f.header, i) = "total" <=>
          /\ f.header[i] \in TotalAliases
          /\ \A j \in 1 .. i - 1 : f.header[j] \notin TotalAliases
    BY DEF Role, TotalAliases, RemarkAliases
  <1>3. GradeOf(f.header, f.records[k]).total = Under(f.header, f.records[k], "total")
    BY DEF GradeOf
  <1> QED BY <1>1, <1>2, <1>3, FirstIsRead

(* Of the rows before k + 1 about a student, k is the last one.            *)
LEMMA LastOfNext ==
  ASSUME NEW f \in Files, NEW k \in Nat \ {0}, NEW s
  PROVE  /\ LastOf(f, s, 1) = 0
         /\ FirstCell(f, k, {"student_id"}) = s => LastOf(f, s, k + 1) = k
         /\ FirstCell(f, k, {"student_id"}) # s => LastOf(f, s, k + 1) = LastOf(f, s, k)
  <1> DEFINE mine(n) == {j \in 1 .. n - 1 : FirstCell(f, j, {"student_id"}) = s}
  <1>1. mine(1) = {}
    OBVIOUS
  <1>2. mine(k + 1) = mine(k) \cup {j \in {k} : FirstCell(f, j, {"student_id"}) = s}
    <2> HIDE DEF FirstCell
    <2>1. 1 .. (k + 1) - 1 = (1 .. k - 1) \cup {k}
      OBVIOUS
    <2> QED BY <2>1
  <1>3. \A n : LastOf(f, s, n) = IF mine(n) = {} THEN 0
                                ELSE CHOOSE j \in mine(n) : \A l \in mine(n) : l <= j
    BY DEF LastOf
  <1>4. ASSUME FirstCell(f, k, {"student_id"}) = s
        PROVE  LastOf(f, s, k + 1) = k
    <2>1. k \in mine(k + 1) /\ \A l \in mine(k + 1) : l \in Nat /\ l <= k
      BY <1>4
    <2>2. (CHOOSE j \in mine(k + 1) : \A l \in mine(k + 1) : l <= j) = k
      <3> HIDE DEF mine
      <3> QED BY <2>1
    <2> HIDE DEF mine
    <2> QED BY <1>3, <2>1, <2>2
  <1>5. ASSUME FirstCell(f, k, {"student_id"}) # s
        PROVE  LastOf(f, s, k + 1) = LastOf(f, s, k)
    <2>1. mine(k + 1) = mine(k)
      BY <1>2, <1>5
    <2> HIDE DEF mine
    <2> QED BY <1>3, <2>1
  <1> QED
    <2> HIDE DEF mine
    <2> QED BY <1>1, <1>3, <1>4, <1>5

-----------------------------------------------------------------------------
(* The inductive invariant: an import that is not at rest has a file, and  *)
(* nothing is published that is not stored.                                *)
ImportsHaveFiles ==
  /\ import \in [Imports -> [pc : {"idle", "reading", "ended"},
                            file : Files \cup {None}, next : Nat \ {0}]]
  /\ \A i \in Imports : Importing(i) \/ alone[i] => import[i].file \in Files

PublishedAreStored == published \subseteq Stored

IInv ==
  /\ ImportsHaveFiles
  /\ PublishedAreStored
  /\ GradesAreRecords
  /\ ImportIsExact

LEMMA FileRecords ==
  ASSUME NEW f \in Files
  PROVE  /\ Len(f.records) \in Nat /\ DOMAIN f.records = 1 .. Len(f.records)
         /\ f # None
  <1>1. f.records \in Seq(Seq(STRING) \cup {Malformed}) /\ f # None
    BY FinalGradesAssumption
  <1> QED BY <1>1

(* The next record of an import that is read.                              *)
LEMMA NextRecord ==
  ASSUME IInv, NEW i \in Imports, Importing(i),
         import[i].next <= Len(import[i].file.records)
  PROVE  /\ import[i].file \in Files
         /\ import[i].next \in DOMAIN import[i].file.records
         /\ Len(import[i].file.records) \in Nat
  <1>1. import[i].file \in Files /\ import[i].next \in Nat \ {0}
    BY DEF IInv, ImportsHaveFiles
  <1> QED BY <1>1, FileRecords

(* Initially there is no grade.                                            *)
LEMMA InitInv == Init => IInv
  <1> SUFFICES ASSUME Init PROVE IInv
    OBVIOUS
  <1> USE DEF Init, Resting
  <1>1. ImportsHaveFiles
    BY DEF ImportsHaveFiles, Importing
  <1>2. PublishedAreStored
    BY DEF PublishedAreStored
  <1>3. GradesAreRecords
    <2>1. TypeOK
      <3>1. \A i \in Imports :
              /\ import[i].pc = "idle" /\ import[i].file = None /\ import[i].next = 1
              /\ alone[i] = FALSE /\ base[i] = grade
        OBVIOUS
      <3>2. Len(<<>>) + 1 = 1 /\ 1 \in 1 .. 1
        OBVIOUS
      <3>3. published \subseteq Students /\ alone \in [Imports -> BOOLEAN]
        OBVIOUS
      <3>4. /\ grade \in [Students -> (UNION {GradesIn(f) : f \in Files}) \cup {None}]
            /\ base \in [Imports -> [Students -> (UNION {GradesIn(f) : f \in Files}) \cup {None}]]
        OBVIOUS
      <3> QED BY <3>1, <3>2, <3>3, <3>4 DEF TypeOK
    <2> QED BY <2>1 DEF GradesAreRecords
  <1>4. ImportIsExact
    BY DEF ImportIsExact
  <1> QED BY <1>1, <1>2, <1>3, <1>4 DEF IInv

(* A row that is imported is stored as it is.                              *)
LEMMA ImportRowKeeps ==
  ASSUME IInv, NEW i \in Imports, ImportRow(i)
  PROVE  IInv'
  <1> DEFINE f == import[i].file
             k == import[i].next
             r == f.records[k]
             u == StudentOf(f.header, r)
  <1>1. f \in Files /\ k \in DOMAIN f.records /\ Len(f.records) \in Nat /\ k \in Nat \ {0}
    BY NextRecord DEF ImportRow, IInv, ImportsHaveFiles
  <1>2. r \in Records(f) /\ GradeOf(f.header, r) \in GradesIn(f) /\ GradeOf(f.header, r) # None
    BY <1>1, NoneIsNoGrade DEF ImportRow, Records, GradesIn
  <1>3. /\ grade' = [grade EXCEPT ![u] = GradeOf(f.header, r)]
        /\ published' = published /\ base' = base
        /\ import' = [import EXCEPT ![i].next = k + 1]
        /\ alone' = [j \in Imports |-> alone[j] /\ j \notin Imports \ {i}]
    BY DEF ImportRow, Replaced, PublishedAfter, Advances, Disturb
  <1> HIDE DEF u, r
  <1>4. ImportsHaveFiles'
    <2>1. /\ import \in [Imports -> [pc : {"idle", "reading", "ended"},
                                    file : Files \cup {None}, next : Nat \ {0}]]
          /\ \A j \in Imports : Importing(j) \/ alone[j] => import[j].file \in Files
      BY DEF IInv, ImportsHaveFiles
    <2>2. import' \in [Imports -> [pc : {"idle", "reading", "ended"},
                                  file : Files \cup {None}, next : Nat \ {0}]]
      <3>1. k + 1 \in Nat \ {0}
        BY <1>1
      <3>2. [import[i] EXCEPT !.next = k + 1] \in
              [pc : {"idle", "reading", "ended"}, file : Files \cup {None}, next : Nat \ {0}]
        BY <2>1, <3>1
      <3> QED BY <1>3, <2>1, <3>2
    <2>3. \A j \in Imports : import'[j].pc = import[j].pc /\ import'[j].file = import[j].file
      BY <1>3, <2>1
    <2> QED BY <1>1, <1>3, <2>1, <2>2, <2>3 DEF ImportsHaveFiles, Importing
  <1>5. PublishedAreStored'
    BY <1>2, <1>3 DEF IInv, PublishedAreStored, Stored, GradesAreRecords, TypeOK
  <1>6. TypeOK'
    <2> DEFINE Grades == UNION {GradesIn(g) : g \in Files}
    <2>1. grade' \in [Students -> Grades \cup {None}]
      <3>1. grade \in [Students -> Grades \cup {None}]
        BY DEF IInv, GradesAreRecords, TypeOK
      <3>2. GradeOf(f.header, r) \in Grades
        BY <1>1, <1>2
      <3> QED BY <1>3, <3>1, <3>2
    <2>2. published' \subseteq Students /\ base' \in [Imports -> [Students -> Grades \cup {None}]]
      BY <1>3 DEF IInv, GradesAreRecords, TypeOK
    <2>3. alone' \in [Imports -> BOOLEAN]
      BY <1>3
    <2>4. \A j \in Imports :
            /\ import'[j].pc \in {"idle", "reading", "ended"}
            /\ import'[j].file \in Files \cup {None}
            /\ import'[j].next \in 1 .. Len(IF import'[j].file = None THEN <<>>
                                            ELSE import'[j].file.records) + 1
      <3> TAKE j \in Imports
      <3>1. CASE j = i
        <4>1. import'[i].file = f /\ import'[i].next = k + 1 /\ import'[i].pc = import[i].pc
          BY <1>3 DEF IInv, ImportsHaveFiles
        <4>2. k + 1 \in 1 .. Len(f.records) + 1 /\ f # None
          BY <1>1, FileRecords
        <4>3. import[i].pc \in {"idle", "reading", "ended"}
          BY DEF IInv, ImportsHaveFiles
        <4> QED BY <3>1, <4>1, <4>2, <4>3, <1>1
      <3>2. CASE j # i
        <4>1. import'[j] = import[j]
          BY <1>3, <3>2 DEF IInv, ImportsHaveFiles
        <4> QED BY <4>1 DEF IInv, GradesAreRecords, TypeOK
      <3> QED BY <3>1, <3>2
    <2> QED BY <2>1, <2>2, <2>3, <2>4 DEF TypeOK
  <1>7. GradesAreRecords'
    <2> SUFFICES ASSUME NEW s \in Students, grade'[s] # None
                 PROVE  \E g \in Files : \E q \in Records(g) :
                          StudentOf(g.header, q) = s /\ grade'[s] = GradeOf(g.header, q)
      BY <1>6 DEF GradesAreRecords
    <2>1. CASE s = u
      BY <1>1, <1>2, <1>3, <2>1 DEF IInv, GradesAreRecords, TypeOK, u
    <2>2. CASE s # u
      BY <1>3, <2>2 DEF IInv, GradesAreRecords, TypeOK
    <2> QED BY <2>1, <2>2
  <1>8. ImportIsExact'
    <2>1. SUFFICES ASSUME NEW s \in Students, alone[i]
                   PROVE  LET l == LastOf(f, s, k + 1) IN
                          IF l = 0 THEN grade'[s] = base[i][s]
                          ELSE /\ grade'[s] = GradeOf(f.header, f.records[l])
                               /\ grade'[s].total = FirstCell(f, l, TotalAliases)
      <3>1. import'[i].file = f /\ import'[i].next = k + 1
        BY <1>3 DEF IInv, ImportsHaveFiles
      <3>2. \A j \in Imports : alone'[j] => j = i /\ alone[i]
        BY <1>3
      <3> QED BY <1>3, <3>1, <3>2 DEF ImportIsExact
    <2>2. FirstCell(f, k, {"student_id"}) = u
      BY <1>1, StudentIsRead DEF u, r
    <2>3. CASE s = u
      <3>1. LastOf(f, s, k + 1) = k
        BY <1>1, <2>2, <2>3, LastOfNext
      <3>2. grade'[s] = GradeOf(f.header, f.records[k])
        BY <1>3, <2>3 DEF IInv, GradesAreRecords, TypeOK, r
      <3> QED BY <1>1, <3>1, <3>2, TotalIsRead
    <2>4. CASE s # u
      <3>1. LastOf(f, s, k + 1) = LastOf(f, s, k)
        BY <1>1, <2>2, <2>4, LastOfNext
      <3>2. grade'[s] = grade[s]
        BY <1>3, <2>4 DEF IInv, GradesAreRecords, TypeOK
      <3> QED BY <2>1, <3>1, <3>2 DEF IInv, ImportIsExact
    <2> QED BY <2>3, <2>4
  <1> QED BY <1>4, <1>5, <1>7, <1>8 DEF IInv

(* A row without a student is passed over: nobody's last row is another.   *)
LEMMA SkipRowKeeps ==
  ASSUME IInv, NEW i \in Imports, SkipRow(i)
  PROVE  IInv'
  <1> DEFINE f == import[i].file
             k == import[i].next
  <1>1. f \in Files /\ k \in DOMAIN f.records /\ Len(f.records) \in Nat /\ k \in Nat \ {0}
    BY NextRecord DEF SkipRow, IInv, ImportsHaveFiles
  <1>2. /\ import' = [import EXCEPT ![i].next = k + 1]
        /\ UNCHANGED <<grade, published, base, alone>>
    BY DEF SkipRow, Advances
  <1>3. FirstCell(f, k, {"student_id"}) = ""
    BY <1>1, StudentIsRead DEF SkipRow, Counts
  <1>4. /\ import'[i].file = f /\ import'[i].next = k + 1 /\ import'[i].pc = import[i].pc
        /\ \A j \in Imports \ {i} : import'[j] = import[j]
    BY <1>2 DEF IInv, ImportsHaveFiles
  <1>5. ImportsHaveFiles'
    <2>1. [import[i] EXCEPT !.next = k + 1] \in
            [pc : {"idle", "reading", "ended"}, file : Files \cup {None}, next : Nat \ {0}]
      BY <1>1 DEF IInv, ImportsHaveFiles
    <2>2. import' \in [Imports -> [pc : {"idle", "reading", "ended"},
                                  file : Files \cup {None}, next : Nat \ {0}]]
      BY <1>2, <2>1 DEF IInv, ImportsHaveFiles
    <2>3. \A j \in Imports : import'[j].pc = import[j].pc /\ import'[j].file = import[j].file
      BY <1>4
    <2> QED BY <1>2, <2>2, <2>3 DEF IInv, ImportsHaveFiles, Importing
  <1>6. PublishedAreStored'
    BY <1>2 DEF IInv, PublishedAreStored, Stored
  <1>7. TypeOK'
    <2>1. k + 1 \in 1 .. Len(f.records) + 1 /\ f # None
      BY <1>1, FileRecords
    <2>2. \A j \in Imports :
            /\ import'[j].pc \in {"idle", "reading", "ended"}
            /\ import'[j].file \in Files \cup {None}
            /\ import'[j].next \in 1 .. Len(IF import'[j].file = None THEN <<>>
                                            ELSE import'[j].file.records) + 1
      <3> TAKE j \in Imports
      <3>1. CASE j = i
        BY <3>1, <2>1, <1>1, <1>4 DEF IInv, ImportsHaveFiles
      <3>2. CASE j # i
        BY <3>2, <1>4 DEF IInv, GradesAreRecords, TypeOK
      <3> QED BY <3>1, <3>2
    <2> QED BY <1>2, <2>2 DEF IInv, GradesAreRecords, TypeOK
  <1>8. GradesAreRecords'
    BY <1>2, <1>7 DEF IInv, GradesAreRecords
  <1>9. ImportIsExact'
    <2>1. ASSUME NEW s \in Students
          PROVE  LastOf(f, s, k + 1) = LastOf(f, s, k)
      <3>1. FirstCell(f, k, {"student_id"}) # s
        BY <1>3, FinalGradesAssumption
      <3> HIDE DEF f, k
      <3> QED BY <1>1, <3>1, LastOfNext
    <2>2. ASSUME NEW j \in Imports, alone[j], NEW s \in Students
          PROVE  LastOf(import'[j].file, s, import'[j].next)
                   = LastOf(import[j].file, s, import[j].next)
      BY <1>4, <2>1
    <2>3. \A j \in Imports : import'[j].file = import[j].file
      BY <1>4
    <2> QED BY <1>2, <2>2, <2>3 DEF IInv, ImportIsExact
  <1> QED BY <1>5, <1>6, <1>8, <1>9 DEF IInv

(* The other steps of an import change no grade.                           *)
LEMMA StartImportKeeps ==
  ASSUME IInv, NEW i \in Imports, NEW f \in Files, StartImport(i, f)
  PROVE  IInv'
  <1>1. /\ import' = [import EXCEPT ![i] = [pc |-> "reading", file |-> f, next |-> 1]]
        /\ base' = [base EXCEPT ![i] = grade]
        /\ alone' = [alone EXCEPT ![i] = TRUE]
        /\ UNCHANGED <<grade, published>>
    BY DEF StartImport
  <1>2. /\ import'[i] = [pc |-> "reading", file |-> f, next |-> 1]
        /\ \A j \in Imports \ {i} : import'[j] = import[j] /\ alone'[j] = alone[j] /\ base'[j] = base[j]
        /\ base'[i] = grade
    BY <1>1 DEF IInv, ImportsHaveFiles, GradesAreRecords, TypeOK
  <1>3. ImportsHaveFiles'
    BY <1>1, <1>2 DEF IInv, ImportsHaveFiles, Importing
  <1>4. PublishedAreStored'
    BY <1>1 DEF IInv, PublishedAreStored, Stored
  <1>5. TypeOK'
    <2>1. 1 \in 1 .. Len(f.records) + 1 /\ f # None
      BY FileRecords
    <2>2. \A j \in Imports :
            /\ import'[j].pc \in {"idle", "reading", "ended"}
            /\ import'[j].file \in Files \cup {None}
            /\ import'[j].next \in 1 .. Len(IF import'[j].file = None THEN <<>>
                                            ELSE import'[j].file.records) + 1
      <3> TAKE j \in Imports
      <3>1. CASE j = i
        BY <3>1, <2>1, <1>2
      <3>2. CASE j # i
        BY <3>2, <1>2 DEF IInv, GradesAreRecords, TypeOK
      <3> QED BY <3>1, <3>2
    <2>3. /\ base' \in [Imports -> [Students -> (UNION {GradesIn(g) : g \in Files}) \cup {None}]]
          /\ alone' \in [Imports -> BOOLEAN]
      BY <1>1 DEF IInv, GradesAreRecords, TypeOK
    <2> QED BY <1>1, <2>2, <2>3 DEF IInv, GradesAreRecords, TypeOK
  <1>6. GradesAreRecords'
    BY <1>1, <1>5 DEF IInv, GradesAreRecords
  <1>7. ImportIsExact'
    <2>1. \A s \in Students : LastOf(f, s, 1) = 0
      BY LastOfNext
    <2> QED BY <1>1, <1>2, <2>1 DEF IInv, ImportIsExact
  <1> QED BY <1>3, <1>4, <1>6, <1>7 DEF IInv

LEMMA LeavesKeep ==
  ASSUME IInv, NEW i \in Imports, EndImport(i) \/ BreakOff(i)
  PROVE  IInv'
  <1>1. /\ import' = [import EXCEPT ![i].pc = "ended"]
        /\ UNCHANGED <<grade, published, base, alone>>
    BY DEF EndImport, BreakOff
  <1>2. \A j \in Imports : /\ import'[j].file = import[j].file
                           /\ import'[j].next = import[j].next
                           /\ import'[j].pc \in {import[j].pc, "ended"}
    BY <1>1 DEF IInv, ImportsHaveFiles
  <1>3. ImportsHaveFiles'
    <2>1. import' \in [Imports -> [pc : {"idle", "reading", "ended"},
                                  file : Files \cup {None}, next : Nat \ {0}]]
      BY <1>1 DEF IInv, ImportsHaveFiles
    <2> QED BY <1>1, <1>2, <2>1 DEF IInv, ImportsHaveFiles, Importing
  <1>4. PublishedAreStored' /\ GradesAreRecords' /\ ImportIsExact'
    <2>1. PublishedAreStored'
      BY <1>1 DEF IInv, PublishedAreStored, Stored
    <2>2. TypeOK'
      BY <1>1, <1>2 DEF IInv, GradesAreRecords, TypeOK
    <2>3. ImportIsExact'
      BY <1>1, <1>2 DEF IInv, ImportIsExact
    <2> QED BY <1>1, <2>1, <2>2, <2>3 DEF IInv, GradesAreRecords
  <1> QED BY <1>3, <1>4 DEF IInv

LEMMA AgainKeeps ==
  ASSUME IInv, NEW i \in Imports, Again(i)
  PROVE  IInv'
  <1>1. /\ import' = [import EXCEPT ![i] = Resting]
        /\ alone' = [alone EXCEPT ![i] = FALSE]
        /\ base' = [base EXCEPT ![i] = [s \in Students |-> None]]
        /\ UNCHANGED <<grade, published>>
    BY DEF Again
  <1>2. /\ import'[i] = Resting /\ ~alone'[i]
        /\ \A j \in Imports \ {i} : import'[j] = import[j] /\ alone'[j] = alone[j] /\ base'[j] = base[j]
    BY <1>1 DEF IInv, ImportsHaveFiles, GradesAreRecords, TypeOK
  <1>3. ImportsHaveFiles'
    BY <1>1, <1>2 DEF IInv, ImportsHaveFiles, Importing, Resting
  <1>4. PublishedAreStored'
    BY <1>1 DEF IInv, PublishedAreStored, Stored
  <1>5. TypeOK'
    <2>1. Len(<<>>) + 1 = 1 /\ 1 \in 1 .. 1
      OBVIOUS
    <2>2. \A j \in Imports :
            /\ import'[j].pc \in {"idle", "reading", "ended"}
            /\ import'[j].file \in Files \cup {None}
            /\ import'[j].next \in 1 .. Len(IF import'[j].file = None THEN <<>>
                                            ELSE import'[j].file.records) + 1
      <3> TAKE j \in Imports
      <3>1. CASE j = i
        BY <3>1, <2>1, <1>2 DEF Resting
      <3>2. CASE j # i
        BY <3>2, <1>2 DEF IInv, GradesAreRecords, TypeOK
      <3> QED BY <3>1, <3>2
    <2>3. /\ base' \in [Imports -> [Students -> (UNION {GradesIn(g) : g \in Files}) \cup {None}]]
          /\ alone' \in [Imports -> BOOLEAN]
      BY <1>1 DEF IInv, GradesAreRecords, TypeOK
    <2> QED BY <1>1, <2>2, <2>3 DEF IInv, GradesAreRecords, TypeOK
  <1>6. GradesAreRecords'
    BY <1>1, <1>5 DEF IInv, GradesAreRecords
  <1>7. ImportIsExact'
    BY <1>1, <1>2 DEF IInv, ImportIsExact
  <1> QED BY <1>3, <1>4, <1>6, <1>7 DEF IInv

LEMMA PublishGradesKeeps ==
  ASSUME IInv, PublishGrades
  PROVE  IInv'
  <1>1. published' = Stored /\ UNCHANGED <<grade, import, base, alone>>
    BY DEF PublishGrades
  <1>2. ImportsHaveFiles' /\ PublishedAreStored'
    BY <1>1 DEF IInv, ImportsHaveFiles, Importing, PublishedAreStored, Stored
  <1>3. TypeOK'
    BY <1>1 DEF IInv, GradesAreRecords, TypeOK, Stored
  <1>4. GradesAreRecords'
    BY <1>1, <1>3 DEF IInv, GradesAreRecords
  <1>5. ImportIsExact'
    BY <1>1 DEF IInv, ImportIsExact
  <1> QED BY <1>2, <1>4, <1>5 DEF IInv

LEMMA DeleteGradesKeeps ==
  ASSUME IInv, DeleteGrades
  PROVE  IInv'
  <1>1. /\ grade' = [s \in Students |-> None] /\ published' = {}
        /\ alone' = [j \in Imports |-> FALSE]
        /\ UNCHANGED <<import, base>>
    <2>1. alone' = [j \in Imports |-> alone[j] /\ j \notin Imports]
      BY DEF DeleteGrades, Disturb
    <2> QED BY <2>1 DEF DeleteGrades
  <1>2. ImportsHaveFiles' /\ PublishedAreStored' /\ ImportIsExact'
    BY <1>1 DEF IInv, ImportsHaveFiles, Importing, PublishedAreStored, ImportIsExact
  <1>3. TypeOK'
    BY <1>1 DEF IInv, GradesAreRecords, TypeOK
  <1>4. GradesAreRecords'
    BY <1>1, <1>3 DEF GradesAreRecords
  <1> QED BY <1>2, <1>4 DEF IInv

LEMMA NextKeeps == IInv /\ [Next]_vars => IInv'
  <1> SUFFICES ASSUME IInv, [Next]_vars PROVE IInv'
    OBVIOUS
  <1>1. CASE \E i \in Imports : \E f \in Files : StartImport(i, f)
    BY <1>1, StartImportKeeps
  <1>2. CASE \E i \in Imports : ImportRow(i)
    BY <1>2, ImportRowKeeps
  <1>3. CASE \E i \in Imports : SkipRow(i)
    BY <1>3, SkipRowKeeps
  <1>4. CASE \E i \in Imports : EndImport(i) \/ BreakOff(i)
    BY <1>4, LeavesKeep
  <1>5. CASE \E i \in Imports : Again(i)
    BY <1>5, AgainKeeps
  <1>6. CASE PublishGrades
    BY <1>6, PublishGradesKeeps
  <1>7. CASE DeleteGrades
    BY <1>7, DeleteGradesKeeps
  <1>8. CASE UNCHANGED vars
    BY <1>8 DEF vars, IInv, ImportsHaveFiles, Importing, PublishedAreStored, Stored,
         GradesAreRecords, TypeOK, ImportIsExact
  <1> QED BY <1>1, <1>2, <1>3, <1>4, <1>5, <1>6, <1>7, <1>8 DEF Next

-----------------------------------------------------------------------------
(* Invariance: imports under way have files, what is published is stored,  *)
(* grades are records, and an undisturbed import is exact.                 *)
THEOREM Invariance == Spec => []IInv
  BY InitInv, NextKeeps, PTL DEF Spec

(* However imports interleave, break off or repeat a student (ImportRow,   *)
(* EndImport, BreakOff), a grade is one record of one file.                *)
THEOREM GradesComeFromFiles == Spec => []GradesAreRecords
  <1>1. IInv => GradesAreRecords
    BY DEF IInv
  <1> QED BY <1>1, Invariance, PTL

(* An import that nobody disturbs leaves exactly what its rows so far say. *)
THEOREM ImportsAreExact == Spec => []ImportIsExact
  <1>1. IInv => ImportIsExact
    BY DEF IInv
  <1> QED BY <1>1, Invariance, PTL

(* UpsertFinalGrade keeps published_at, so a student who has seen a grade  *)
(* keeps seeing one until the grades of the lab are deleted.               *)
THEOREM VisibleStays == Spec => PublishedStays
  <1>1. IInv /\ [Next]_vars =>
          [\A s \in Students : Visible(s) => Visible(s)' \/ Stored' = {}]_vars
    <2> SUFFICES ASSUME IInv, Next, NEW s \in Students, Visible(s)
                 PROVE  Visible(s)' \/ Stored' = {}
      OBVIOUS
    <2> USE DEF Visible, PublishedGrade
    <2>1. CASE \E i \in Imports : ImportRow(i)
      <3> PICK i \in Imports : ImportRow(i)
        BY <2>1
      <3> DEFINE f == import[i].file
                 r == f.records[import[i].next]
      <3>1. GradeOf(f.header, r) # None
        <4>1. f \in Files /\ import[i].next \in DOMAIN f.records
          BY NextRecord DEF ImportRow
        <4>2. GradeOf(f.header, r) \in GradesIn(f)
          BY <4>1 DEF ImportRow, GradesIn, Records
        <4> QED BY <4>1, <4>2, NoneIsNoGrade
      <3>2. grade'[s] \in {grade[s], GradeOf(f.header, r)} /\ published' = published
        BY DEF ImportRow, Replaced, PublishedAfter, IInv, GradesAreRecords, TypeOK
      <3> QED BY <3>1, <3>2
    <2>2. CASE \E i \in Imports :
                 \/ \E f \in Files : StartImport(i, f)
                 \/ SkipRow(i) \/ EndImport(i) \/ BreakOff(i) \/ Again(i)
      BY <2>2 DEF StartImport, SkipRow, EndImport, BreakOff, Again
    <2>3. CASE PublishGrades
      BY <2>3 DEF PublishGrades, Stored
    <2>4. CASE DeleteGrades
      BY <2>4 DEF DeleteGrades, Stored
    <2> QED BY <2>1, <2>2, <2>3, <2>4 DEF Next
  <1> QED BY <1>1, Invariance, PTL DEF Spec, PublishedStays

(* Only PublishGrades makes grades visible, and it makes all of them so.   *)
THEOREM GradesAppearTogether == Spec => AppearTogether
  <1>1. IInv /\ [Next]_vars =>
          [(\E s \in Students : ~Visible(s) /\ Visible(s)') =>
             UNCHANGED grade /\ \A s \in Stored : Visible(s)']_vars
    <2> SUFFICES ASSUME IInv, Next, NEW s \in Students, ~Visible(s), Visible(s)'
                 PROVE  UNCHANGED grade /\ \A t \in Stored : Visible(t)'
      OBVIOUS
    <2> USE DEF Visible, PublishedGrade
    <2>1. CASE \E i \in Imports : ImportRow(i)
      <3>1. published' = published
        BY <2>1 DEF ImportRow, PublishedAfter
      <3> QED BY <3>1 DEF IInv, PublishedAreStored, Stored
    <2>2. CASE \E i \in Imports :
                 \/ \E f \in Files : StartImport(i, f)
                 \/ SkipRow(i) \/ EndImport(i) \/ BreakOff(i) \/ Again(i)
      BY <2>2 DEF StartImport, SkipRow, EndImport, BreakOff, Again
    <2>3. CASE PublishGrades
      BY <2>3 DEF PublishGrades, Stored
    <2>4. CASE DeleteGrades
      BY <2>4 DEF DeleteGrades
    <2> QED BY <2>1, <2>2, <2>3, <2>4 DEF Next
  <1> QED BY <1>1, Invariance, PTL DEF Spec, AppearTogether
=============================================================================
