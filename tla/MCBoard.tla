------------------------------ MODULE MCBoard ------------------------------
(* Instances of Board for TLC.                                             *)
EXTENDS Board

(* One metric of each direction.                                           *)
BothDirections == [m \in {"latency", "throughput"} |->
                     IF m = "latency" THEN "asc" ELSE "desc"]
=============================================================================
