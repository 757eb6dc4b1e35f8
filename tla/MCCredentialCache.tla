------------------------- MODULE MCCredentialCache -------------------------
(* Instances of CredentialCache for TLC. *)
EXTENDS CredentialCache

(* Two Machines of one cluster, the second one created later. *)
MCClusterOf == [m \in {1, 2} |-> 1]
=============================================================================
