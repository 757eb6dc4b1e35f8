--------------------------- MODULE MachineObject ---------------------------
(***************************************************************************)
(* What the teardown controller reads of a CAPI Machine, and the           *)
(* predicates of internal/teardown/qualify.go over it.                     *)
(*                                                                         *)
(* An annotation is abstracted to what the controller tests of it: the     *)
(* hook keys to presence bits, the phase keys to the recorded conclusion   *)
(* ("none" when the key is absent), and the observed-at timestamp to its   *)
(* age in clock ticks (NotObserved when absent or unparseable).            *)
(***************************************************************************)
EXTENDS Integers

CONSTANTS
    EtcdTimeout,    \* --etcd-timeout, in clock ticks
    ResetTimeout    \* --reset-timeout, in clock ticks

ASSUME TimeoutAssumption == EtcdTimeout \in Nat /\ ResetTimeout \in Nat

(***************************************************************************)
(* Reasons of the Deleting condition that the code tells apart: absent, a  *)
(* phase before the pre-terminate wait (deleting, pre-drain, draining,     *)
(* volume detach are one value), the wait itself, and any later phase.     *)
(***************************************************************************)
NotStarted == ""
Draining == "Draining"
Early == {NotStarted, Draining}
PreTerminate == "WaitingForPreTerminateHook"
Later == "WaitingForInfrastructureDeletion"
Reasons == Early \union {PreTerminate, Later}

EtcdConclusions ==
    {"not-member", "left", "removed", "orphaned", "skipped-cluster-delete"}
ResetConclusions == {"done", "skipped-timeout", "skipped-no-address"}

(***************************************************************************)
(* Ages saturate one tick past the longer deadline: from there on every    *)
(* comparison with a deadline has the same answer.                         *)
(***************************************************************************)
MaxAge == 1 + (IF EtcdTimeout > ResetTimeout THEN EtcdTimeout ELSE ResetTimeout)
NotObserved == -1
Ages == {NotObserved} \union (0 .. MaxAge)

Machine ==
    [ qual    : BOOLEAN,    \* a TalosConfig on a TinkerbellMachine
      del     : Nat,        \* deletionTimestamp in seconds, 0 when unset
      reason  : Reasons,    \* reason of the true Deleting condition
      hook    : BOOLEAN,    \* HookAnnotation is present
      legacy  : BOOLEAN,    \* a pre-rename hook key of this controller is present
      other   : BOOLEAN,    \* a pre-terminate hook of another controller is present
      leaving : BOOLEAN,    \* CACPPT's etcd-leaving annotation is present
      obs     : Ages,       \* age of ObservedAtAnnotation
      etcd    : EtcdConclusions \union {"none"},
      reset   : ResetConclusions \union {"none"} ]

(* The in-memory object of a worker that reconciles nothing. *)
NoMachine ==
    [ qual |-> FALSE, del |-> 0, reason |-> NotStarted, hook |-> FALSE, legacy |-> FALSE,
      other |-> FALSE, leaving |-> FALSE, obs |-> NotObserved,
      etcd |-> "none", reset |-> "none" ]

-----------------------------------------------------------------------------

Qualifies(o) == o.qual
HasHook(o) == o.hook
Deleting(o) == o.del > 0

(* The watch predicate, and the first guard of Reconcile. *)
Admitted(o) == Qualifies(o) \/ HasHook(o)

StampAllowed(o) == ~Deleting(o) \/ o.reason \in Early \union {PreTerminate}

AtPreTerminate(o) == o.reason = PreTerminate

(* Nobody else's hooks are looked at. *)
Bug_HasOtherPreTerminateHooks(o) == FALSE

(* A leftover key that carries this controller's own value is not foreign. *)
HasOtherPreTerminateHooks(o) == o.other

(* What the CAPI machine controller's gate looks for: any key of the prefix. *)
AnyPreTerminateHook(o) == o.hook \/ o.legacy \/ o.other

(* The deadline itself counts as expired. *)
Bug_Expired(o, timeout) == o.obs >= timeout

(* now().After(observedAt + timeout). *)
Expired(o, timeout) == o.obs > timeout

(* A clock tick, seen from a recorded timestamp. *)
AgeByOne(o) ==
    [o EXCEPT !.obs = IF @ = NotObserved \/ @ = MaxAge THEN @ ELSE @ + 1]
=============================================================================
