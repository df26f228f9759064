------------------------------ MODULE MCCourse ------------------------------
(* Instances of Course for TLC.                                            *)
EXTENDS Course

Latency    == [id |-> "latency", sort |-> "asc"]
Throughput == [id |-> "throughput", sort |-> "desc"]

(* A lab.toml that leaves out what may be left out.                        *)
Plain == [id |-> "os", files |-> <<"main.c">>, maxSize |-> None, image |-> "eval:1",
          daily |-> 3, free |-> {}, metrics |-> <<Latency>>,
          rankBy |-> None, pick |-> TRUE, rankAll |-> None,
          visible |-> 0, open |-> 1, close |-> 1]

(* An update that is allowed, one that changes the structure and one that  *)
(* is not valid.                                                           *)
Revisions ==
  { [Plain EXCEPT !.pick = FALSE, !.close = 2],
    [Plain EXCEPT !.metrics = <<Throughput>>, !.files = <<"main.c", "util.c">>, !.pick = FALSE],
    [Plain EXCEPT !.visible = 2] }

LabTomls == {Plain} \cup Revisions

Sent == { [names |-> <<"main.c">>, bytes |-> 1000],
          [names |-> <<"main.c", "util.c">>, bytes |-> 1000],
          [names |-> <<"main.c">>, bytes |-> 2000000] }

(* Results that fit one structure, the other, or both.                     *)
Printed == { [verdict |-> "scored", scores |-> {"latency"}],
             [verdict |-> "scored", scores |-> {"throughput"}],
             [verdict |-> "rejected", scores |-> {}] }
=============================================================================
