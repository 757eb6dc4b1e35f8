-------------------------- MODULE PreTerminateGate --------------------------
(***************************************************************************)
(* What a pre-terminate hook owner promises the machine controller: it     *)
(* takes its hook off a Machine only after it has recorded a verdict on    *)
(* the node, and the verdict "wiped" only after the node is.               *)
(* The machine controller, in turn, only passes a Machine without a hook.  *)
(***************************************************************************)
CONSTANT Machines

VARIABLES
    hook,      \* Machines that carry the hook
    wiped,     \* Machines whose node was wiped
    verdict,   \* the recorded verdict of each Machine
    passed     \* Machines whose infrastructure is let go

vars == <<hook, wiped, verdict, passed>>

Verdicts == {"wiped", "waived"}

Init ==
    /\ hook \subseteq Machines
    /\ wiped = {}
    /\ verdict = [m \in Machines |-> "none"]
    /\ passed = {}

Stamp(m) ==
    /\ hook' = hook \union {m}
    /\ UNCHANGED <<wiped, verdict, passed>>

Wipe(m) ==
    /\ wiped' = wiped \union {m}
    /\ UNCHANGED <<hook, verdict, passed>>

(* A verdict is recorded; a later attempt may replace it, never take it back. *)
Conclude(m) ==
    /\ \E v \in Verdicts : /\ v = "wiped" => m \in wiped
                           /\ verdict' = [verdict EXCEPT ![m] = v]
    /\ UNCHANGED <<hook, wiped, passed>>

Release(m) ==
    /\ verdict[m] # "none"
    /\ hook' = hook \ {m}
    /\ UNCHANGED <<wiped, verdict, passed>>

Pass(m) ==
    /\ m \notin hook
    /\ passed' = passed \union {m}
    /\ UNCHANGED <<hook, wiped, verdict>>

Next == \E m \in Machines :
    Stamp(m) \/ Wipe(m) \/ Conclude(m) \/ Release(m) \/ Pass(m)

Spec == Init /\ [][Next]_vars
=============================================================================
