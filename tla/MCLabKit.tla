------------------------------ MODULE MCLabKit ------------------------------
(* Instances of LabKit for TLC.                                            *)
EXTENDS LabKit, TLC

(* Requests are interchangeable, and so are workers and uploads.           *)
Interchangeable ==
  Permutations(Requests) \cup Permutations(Workers) \cup Permutations(Nonces)
=============================================================================
