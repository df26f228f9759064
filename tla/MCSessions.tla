----------------------------- MODULE MCSessions -----------------------------
(* Instances of Sessions for TLC.                                          *)
EXTENDS Sessions

(* Alice has a device, Bob only the school's login.                        *)
OneDevice == [k \in {"laptop"} |-> "alice"]

(* A rename that is sent twice, `labkit web` and the end of the key.       *)
Commands ==
  LET by(n, op) == [key |-> "laptop", nonce |-> n, op |-> op]
  IN  [first |-> by("n1", "rename"), again |-> by("n1", "rename"),
       web |-> by("n2", "ticket"), end |-> by("n3", "revoke")]
=============================================================================
