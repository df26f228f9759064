----------------------------- MODULE MCPipeline -----------------------------
(* Instances of Pipeline for TLC.                                          *)
EXTENDS Pipeline, TLC

(* An administrator grants or revokes one credit at a time.                *)
GrantOrRevoke == {1, -1}

(* Students and workers are interchangeable.                               *)
Interchangeable == Permutations(Users) \cup Permutations(Workers)

AnyWorker == Permutations(Workers)
=============================================================================
