---------------------------- MODULE FinalGrades ----------------------------
(***************************************************************************)
(* The final grades of a lab (apps/api/internal/service/grade): assistants *)
(* import CSV files, one upsert per row and no transaction around them,    *)
(* while others import, publish or delete the lab's grades.  A cell is a   *)
(* string of which only "" is special; a record that encoding/csv cannot   *)
(* parse is Malformed.  Files are smaller than the 8 MiB that are read.    *)
(***************************************************************************)
EXTENDS Naturals, Sequences

CONSTANTS
  Students,   \* student ids
  Imports,    \* import requests
  Files,      \* uploaded files: a header and the records below it
  Malformed,
  None        \* no row, no file

TotalAliases  == {"total", "score"}
RemarkAliases == {"remark", "note"}

ASSUME FinalGradesAssumption ==
  /\ None \notin Files
  /\ "" \notin Students
  /\ \A f \in Files : /\ f.header \in Seq(STRING)
                      /\ f.records \in Seq(Seq(STRING) \cup {Malformed})

VARIABLES
  grade,      \* final_grades: total, remark and items of a student, or None
  published,  \* students whose row has a published_at
  import,     \* the import requests
  base,       \* history: the grades when an import began,
  alone       \* and whether nobody else has changed a grade since

vars == <<grade, published, import, base, alone>>

Resting == [pc |-> "idle", file |-> None, next |-> 1]

Init ==
  /\ grade = [s \in Students |-> None]
  /\ published = {}
  /\ import = [i \in Imports |-> Resting]
  /\ base = [i \in Imports |-> grade]
  /\ alone = [i \in Imports |-> FALSE]

-----------------------------------------------------------------------------
(* planColumns: the first column of each kind counts, later ones are items *)
(* under their header.                                                     *)
RoleOfAny(header, i) ==   \* mutation: every column of a kind counts
  IF header[i] = "" THEN "ignore"
  ELSE IF header[i] = "student_id" THEN "student"
  ELSE IF header[i] \in TotalAliases THEN "total"
  ELSE IF header[i] \in RemarkAliases THEN "remark"
  ELSE "item"
Role(header, i) ==
  LET first(kind) == header[i] \in kind /\ \A j \in 1 .. i - 1 : header[j] \notin kind
  IN  IF header[i] = "" THEN "ignore"
      ELSE IF first({"student_id"}) THEN "student"
      ELSE IF first(TotalAliases) THEN "total"
      ELSE IF first(RemarkAliases) THEN "remark"
      ELSE "item"

Columns(header, role) == {i \in DOMAIN header : Role(header, i) = role}

(* Records may be shorter than the header.                                 *)
Cell(record, i) == IF i <= Len(record) THEN record[i] ELSE ""

(* The cell in the column of a role: the last one assigned, "" if none is. *)
Under(header, record, role) ==
  IF Columns(header, role) = {} THEN ""
  ELSE Cell(record, CHOOSE i \in Columns(header, role) :
                      \A j \in Columns(header, role) : j <= i)

(* buildGradeParams; items keep the order of their columns.                *)
GradeOf(header, record) ==
  LET given(i) == Role(header, i) = "item" /\ Cell(record, i) # ""
      columns == SelectSeq([i \in DOMAIN header |-> i], given)
  IN  [total  |-> Under(header, record, "total"),
       remark |-> Under(header, record, "remark"),
       items  |-> [k \in DOMAIN columns |->
                     <<header[columns[k]], Cell(record, columns[k])>>]]

StudentOf(header, record) == Under(header, record, "student")

(* Rows without a student, blank ones among them, are skipped.             *)
Counts(header, record) == StudentOf(header, record) # ""

(* What a file can make of its students.                                   *)
Records(f) == {f.records[k] : k \in DOMAIN f.records} \ {Malformed}

GradesIn(f) == {GradeOf(f.header, r) : r \in Records(f)}

ASSUME NoneIsNoGrade == \A f \in Files : None \notin GradesIn(f)

-----------------------------------------------------------------------------
Importing(i) == import[i].pc = "reading"

(* What the others do while an import is under way.                        *)
Disturb(others) == alone' = [i \in Imports |-> alone[i] /\ i \notin others]

(* A file without a student_id column is refused before its first row.     *)
StartImport(i, f) ==
  /\ import[i].pc = "idle"
  /\ Columns(f.header, "student") # {}
  /\ import' = [import EXCEPT ![i] = [pc |-> "reading", file |-> f, next |-> 1]]
  /\ base' = [base EXCEPT ![i] = grade]
  /\ alone' = [alone EXCEPT ![i] = TRUE]
  /\ UNCHANGED <<grade, published>>

(* UpsertFinalGrade replaces total, remark and items and leaves            *)
(* published_at alone.                                                     *)
MergedInto(old, new) ==   \* mutation: COALESCE(EXCLUDED.total, total)
  IF old # None /\ new.total = "" THEN [new EXCEPT !.total = old.total] ELSE new
Replaced(old, new) == new

HiddenBy(s) == published \ {s}   \* mutation: published_at = NULL
ShownBy(s) ==                    \* mutation: a published lab takes published rows
  IF published = {} THEN published ELSE published \cup {s}
PublishedAfter(s) == published

Advances(i) == import' = [import EXCEPT ![i].next = @ + 1]

ImportRow(i) ==
  LET f == import[i].file
      record == f.records[import[i].next]
      s == StudentOf(f.header, record)
  IN  /\ Importing(i)
      /\ import[i].next <= Len(f.records)
      /\ record # Malformed
      /\ Counts(f.header, record)
      /\ grade' = [grade EXCEPT ![s] = Replaced(@, GradeOf(f.header, record))]
      /\ published' = PublishedAfter(s)
      /\ Advances(i)
      /\ Disturb(Imports \ {i})
      /\ UNCHANGED base

SkipRow(i) ==
  LET f == import[i].file
      record == f.records[import[i].next]
  IN  /\ Importing(i)
      /\ import[i].next <= Len(f.records)
      /\ record # Malformed
      /\ ~Counts(f.header, record)
      /\ Advances(i)
      /\ UNCHANGED <<grade, published, base, alone>>

(* io.EOF, or a record that cannot be parsed: the rows so far are kept     *)
(* either way.                                                             *)
EndImport(i) ==
  LET f == import[i].file IN
  /\ Importing(i)
  /\ \/ import[i].next > Len(f.records)
     \/ import[i].next <= Len(f.records) /\ f.records[import[i].next] = Malformed
  /\ import' = [import EXCEPT ![i].pc = "ended"]
  /\ UNCHANGED <<grade, published, base, alone>>

(* An upsert fails, the client goes away or the API dies.                  *)
BreakOff(i) ==
  /\ Importing(i)
  /\ import' = [import EXCEPT ![i].pc = "ended"]
  /\ UNCHANGED <<grade, published, base, alone>>

(* The same request slot takes the next upload.                            *)
Again(i) ==
  /\ import[i].pc = "ended"
  /\ import' = [import EXCEPT ![i] = Resting]
  /\ alone' = [alone EXCEPT ![i] = FALSE]
  /\ base' = [base EXCEPT ![i] = [s \in Students |-> None]]
  /\ UNCHANGED <<grade, published>>

-----------------------------------------------------------------------------
Stored == {s \in Students : grade[s] # None}

PublishGrades ==
  /\ published' = Stored
  /\ UNCHANGED <<grade, import, base, alone>>

DeleteGrades ==
  /\ grade' = [s \in Students |-> None]
  /\ published' = {}
  /\ Disturb(Imports)
  /\ UNCHANGED <<import, base>>

(* GetFinalGrade and ListPublishedFinalGradesByStudent.                    *)
PublishedGrade(s) == IF s \in published THEN grade[s] ELSE None

(* GetMyGrade and ListMyGrades show it to the student who asks, or say     *)
(* that there is none yet.                                                 *)
Visible(s) == PublishedGrade(s) # None

Next ==
  \/ \E i \in Imports :
       \/ \E f \in Files : StartImport(i, f)
       \/ ImportRow(i) \/ SkipRow(i) \/ EndImport(i) \/ BreakOff(i) \/ Again(i)
  \/ PublishGrades
  \/ DeleteGrades

Spec == Init /\ [][Next]_vars

-----------------------------------------------------------------------------
(* Every variable has its type.                                            *)
TypeOK ==
  LET Grades == UNION {GradesIn(f) : f \in Files} IN
  /\ grade \in [Students -> Grades \cup {None}]
  /\ published \subseteq Students
  /\ \A i \in Imports :
       /\ import[i].pc \in {"idle", "reading", "ended"}
       /\ import[i].file \in Files \cup {None}
       /\ import[i].next \in 1 .. Len(IF import[i].file = None THEN <<>>
                                      ELSE import[i].file.records) + 1
  /\ base \in [Imports -> [Students -> Grades \cup {None}]]
  /\ alone \in [Imports -> BOOLEAN]

(* A file read by hand: the cell below the first header of a kind, and the *)
(* last of the records before a position that is about a student.          *)
FirstCell(f, k, kind) ==
  LET columns == {i \in DOMAIN f.header : f.header[i] \in kind} IN
  IF columns = {} THEN ""
  ELSE Cell(f.records[k], CHOOSE i \in columns : \A j \in columns : i <= j)

LastOf(f, s, next) ==
  LET mine == {k \in 1 .. next - 1 : FirstCell(f, k, {"student_id"}) = s} IN
  IF mine = {} THEN 0 ELSE CHOOSE k \in mine : \A j \in mine : j <= k

(* An import that nobody disturbs leaves, at every moment and wherever it  *)
(* ends, exactly what its rows so far say: a student's last row replaces   *)
(* what there was, with the first total of the header, and nobody else's   *)
(* grade changes.                                                          *)
ImportIsExact ==
  \A i \in Imports : alone[i] => \A s \in Students :
    LET f == import[i].file
        k == LastOf(f, s, import[i].next)
    IN  IF k = 0 THEN grade[s] = base[i][s]
        ELSE /\ grade[s] = GradeOf(f.header, f.records[k])
             /\ grade[s].total = FirstCell(f, k, TotalAliases)

(* However imports interleave, break off or repeat a student, a grade is   *)
(* one record of one file about that student, with the total of the same   *)
(* record as the remark and the items.                                     *)
GradesAreRecords ==
  /\ TypeOK
  /\ \A s \in Students : grade[s] # None =>
       \E f \in Files : \E r \in Records(f) :
         /\ StudentOf(f.header, r) = s
         /\ grade[s] = GradeOf(f.header, r)

(* A student who has seen a grade keeps seeing one, through corrections    *)
(* and repeated imports, until the grades of the whole lab are deleted.    *)
PublishedStays ==
  [][\A s \in Students : Visible(s) => Visible(s)' \/ Stored' = {}]_vars

(* Nobody's grade appears alone or unseen by the staff: a row that an      *)
(* import inserts, even into a published lab, stays hidden until all the   *)
(* rows that are stored by then are published.                             *)
AppearTogether ==
  [][(\E s \in Students : ~Visible(s) /\ Visible(s)') =>
       UNCHANGED grade /\ \A s \in Stored : Visible(s)']_vars
=============================================================================
