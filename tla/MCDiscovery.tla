---------------------------- MODULE MCDiscovery ----------------------------
(* An instance of Discovery for TLC. *)
EXTENDS Discovery

(* One BMC advertises; the other one is silent, and may come to have its    *)
(* address.  Both take the pair of the Secret, and the first one, which is  *)
(* still as it was delivered, the default too.                              *)
MCBmcOf == [k \in {1} |-> 1]
MCAccepts == [b \in {1, 2} |-> IF b = 1 THEN {1, 2} ELSE {2}]
MCDefaults == [k \in {1} |-> 1]

Report(f, m) == [form |-> f, mac |-> m]

(* No adapter of a BMC has a MAC; the interfaces of its Systems have a      *)
(* malformed one, an upper-case one that is its own, and a lower-case one.  *)
MCAdapters == [b \in {1, 2} |-> <<Empty>>]
MCInterfaces ==
    [b \in {1, 2} |->
        <<[permanent |-> Empty, current |-> Report("malformed", b)],
          [permanent |-> Report("upper", b), current |-> Report("lower", 2)],
          [permanent |-> Empty, current |-> Empty],
          [permanent |-> Empty, current |-> Report("lower", 2)]>>]
=============================================================================
