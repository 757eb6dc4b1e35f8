----------------------------- MODULE MCTeardown -----------------------------
(* Instances of Teardown for TLC; every configuration sets the constants. *)
EXTENDS Teardown
=============================================================================
