--------------------------- MODULE MCFinalGrades ---------------------------
(* Instances of FinalGrades for TLC.                                       *)
EXTENDS FinalGrades

(* A total and an item, with one student twice and a row of nobody.        *)
Midterm ==
  [header  |-> <<"student_id", "total", "lab1", "score">>,
   records |-> <<<<"alice", "90", "45", "A">>, <<"", "7">>, <<"alice", "95">>,
                 <<"bob", "80", "40", "B">>>>]

(* No total, another order of columns, and a row that cannot be parsed.    *)
Broken ==
  [header  |-> <<"note", "student_id">>,
   records |-> <<<<"late", "bob">>, Malformed, <<"late", "alice">>>>]

(* Somebody's list without student ids.                                    *)
Nameless == [header |-> <<"name", "total">>, records |-> <<<<"Bob", "1">>>>]

Spreadsheets == {Midterm, Broken, Nameless}
=============================================================================
