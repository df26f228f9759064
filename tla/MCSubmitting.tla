---------------------------- MODULE MCSubmitting ----------------------------
(* Instances of Submitting for TLC.                                        *)
EXTENDS Submitting
=============================================================================
