--------------------------- MODULE TeardownProofs ---------------------------
(***************************************************************************)
(* The safety of the teardown state machine for every set of Machines, any *)
(* deadlines, any number of faults and every environment.                  *)
(***************************************************************************)
EXTENDS Teardown, TLAPS

(* The conclusion a reconcile holds is one of the phase it stamps. *)
OutcomeFits ==
    \A m \in Machines :
        /\ pc[m] = "stampEtcd" => outcome[m] \in EtcdConclusions
        /\ pc[m] = "stampReset" => outcome[m] \in ResetConclusions

(***************************************************************************)
(* What the controller reads never says more than the API server knows:    *)
(* deletion, progress past the drain, the end of the other hooks and the   *)
(* phase conclusions are never taken back.                                 *)
(***************************************************************************)
Older(a, b) ==
    /\ Deleting(a) => Deleting(b)
    /\ a.reason \notin Early => b.reason \notin Early
    /\ b.other => a.other
    /\ a.etcd # "none" => b.etcd # "none"
    /\ a.reset # "none" => b.reset # "none"

ViewsOlder ==
    \A m \in Machines :
        /\ Older(cache[m], api[m])
        /\ pc[m] # "idle" => Older(obj[m], api[m])
        /\ Deleting(obj[m]) => Deleting(cache[m])

(* What a reconcile has already established when it makes its next call. *)
DeletionSteps == Steps \ {"idle", "stamp", "creds"}
Departed == {"not-member", "left", "removed"}

StepFacts ==
    \A m \in Machines :
        /\ pc[m] \in DeletionSteps =>
              Deleting(obj[m]) /\ obj[m].reason = PreTerminate /\ ~obj[m].other
        /\ pc[m] \in {"reset", "stampReset", "release"} /\ m \in ControlPlane =>
              obj[m].etcd # "none"
        /\ pc[m] = "release" => obj[m].reset # "none"
        /\ pc[m] = "stampEtcd" /\ outcome[m] \in Departed => m \notin members
        /\ pc[m] = "stampReset" /\ outcome[m] = "done" => m \in wiped

(* The hook goes, and the gate opens, only after the reset is recorded. *)
GateFacts ==
    \A m \in gated :
        /\ ~api[m].hook => api[m].reset # "none"
        /\ infra[m] # "present" => api[m].reset # "none"

(* A removal that is under way, or may get under way: some peer that is     *)
(* still a member is left on the list that it asks.                         *)
Going(m) ==
    \/ pc[m] \in {"leave", "remove"}
    \/ pc[m] = "probePeer" /\ peers[m] \intersect members # {}

(* Some member is in no such removal. *)
EtcdKept == \E p \in members : ~Going(p)

(* The cache never shows a deletion of the Cluster that did not happen, and *)
(* neither does a reconcile.                                                *)
ClusterFacts ==
    /\ clusterSeen => cluster
    /\ \A m \in Machines :
          pc[m] = "stampEtcd" /\ outcome[m] = "skipped-cluster-delete" => cluster

(* The inductive invariant. *)
IInv ==
    /\ TypeOK
    /\ OutcomeFits
    /\ ViewsOlder
    /\ StepFacts
    /\ ClusterFacts
    /\ GateFacts
    /\ ConclusionsTruthful
    /\ WipedMemberExcused
    /\ EtcdKept

(* What the control-flow operators have to keep typed. *)
ConcludedType ==
    /\ pc' \in [Machines -> Steps]
    /\ obj' \in [Machines -> Machine]
    /\ peers' \in [Machines -> SUBSET ControlPlane]
    /\ outcome' \in [Machines -> EtcdConclusions \union ResetConclusions \union {"none"}]
    /\ OutcomeFits'

-----------------------------------------------------------------------------
(* Types. *)

(* Storing well-typed Machines keeps the store, the cache and the queue typed. *)
LEMMA StoreType ==
    ASSUME TypeOK, NEW new \in [Machines -> Machine], Store(new)
    PROVE  /\ api' \in [Machines -> Machine]
           /\ cache' \in [Machines -> Machine]
           /\ queue' \subseteq Machines
  BY DEF TypeOK, EnvTypeOK, Store, Notified

(* A Machine object stays one when a field gets a value of the field's type. *)
LEMMA FieldTypes ==
    ASSUME NEW f \in [Machines -> Machine], NEW m \in Machines
    PROVE  /\ f[m] \in Machine
           /\ NoMachine \in Machine
           /\ \A v \in Nat : [f EXCEPT ![m].del = v] \in [Machines -> Machine]
           /\ \A v \in Reasons : [f EXCEPT ![m].reason = v] \in [Machines -> Machine]
           /\ \A v \in BOOLEAN : [f EXCEPT ![m].qual = v] \in [Machines -> Machine]
           /\ \A v \in BOOLEAN : [f EXCEPT ![m].other = v] \in [Machines -> Machine]
           /\ \A v \in BOOLEAN : [f EXCEPT ![m].leaving = v] \in [Machines -> Machine]
           /\ \A v \in Ages : [f EXCEPT ![m].obs = v] \in [Machines -> Machine]
           /\ \A v \in EtcdConclusions :
                [f EXCEPT ![m].etcd = v] \in [Machines -> Machine]
           /\ \A v \in ResetConclusions :
                [f EXCEPT ![m].reset = v] \in [Machines -> Machine]
           /\ \A o \in Machine : [f EXCEPT ![m] = o] \in [Machines -> Machine]
           /\ AgeByOne(f[m]) \in Machine
  <1>1. f[m] \in Machine
    OBVIOUS
  <1>2. NoMachine \in Machine
    BY DEF NoMachine, Machine, Reasons, Early, NotStarted, Ages, NotObserved
  <1>3. \A v \in Nat : [f EXCEPT ![m].del = v] \in [Machines -> Machine]
    BY DEF Machine
  <1>4. \A v \in Reasons : [f EXCEPT ![m].reason = v] \in [Machines -> Machine]
    BY DEF Machine
  <1>5. /\ \A v \in BOOLEAN : [f EXCEPT ![m].qual = v] \in [Machines -> Machine]
        /\ \A v \in BOOLEAN : [f EXCEPT ![m].other = v] \in [Machines -> Machine]
        /\ \A v \in BOOLEAN : [f EXCEPT ![m].leaving = v] \in [Machines -> Machine]
    BY DEF Machine
  <1>6. \A v \in Ages : [f EXCEPT ![m].obs = v] \in [Machines -> Machine]
    BY DEF Machine
  <1>7. \A v \in EtcdConclusions : [f EXCEPT ![m].etcd = v] \in [Machines -> Machine]
    BY DEF Machine
  <1>8. \A v \in ResetConclusions : [f EXCEPT ![m].reset = v] \in [Machines -> Machine]
    BY DEF Machine
  <1>9. AgeByOne(f[m]) \in Machine
    BY TimeoutAssumption DEF AgeByOne, Machine, Ages, NotObserved, MaxAge
  <1>. QED
    BY <1>1, <1>2, <1>3, <1>4, <1>5, <1>6, <1>7, <1>8, <1>9

(* Moving on in the control flow keeps pc and the in-memory object typed. *)
LEMMA GotoType ==
    ASSUME TypeOK, NEW m \in Machines, NEW step \in Steps, NEW o \in Machine,
           Goto(m, step, o)
    PROVE  /\ pc' \in [Machines -> Steps]
           /\ obj' \in [Machines -> Machine]
           /\ peers' \in [Machines -> SUBSET ControlPlane]
           /\ pc' = [pc EXCEPT ![m] = step]
  BY FieldTypes DEF TypeOK, Goto

(* The control-flow operators name steps of the reconcile, or a requeue. *)
LEMMA FlowSteps ==
    ASSUME NEW o
    PROVE  /\ AfterHook(o) \in {"idle", "requeue", "observe", "cluster"}
           /\ ReconcileDeleting(o) \in {"idle", "requeue", "observe", "cluster", "stamp"}
           /\ ReconcileNormal(o) \in {"creds", "stamp"}
           /\ AfterEtcd(o) \in {"release", "reset"}
  BY DEF AfterHook, ReconcileDeleting, ReconcileNormal, AfterEtcd

(* Every step of the environment preserves its types. *)
LEMMA EnvType ==
    ASSUME TypeOK, EnvNext
    PROVE  EnvTypeOK'
  <1>. USE DEF EnvTypeOK
  <1>1. CASE SyncMachines
    BY <1>1 DEF TypeOK, SyncMachines, Notified
  <1>2. CASE SyncCluster
    BY <1>2 DEF TypeOK, SyncCluster, ClusterToMachines
  <1>3. CASE DeleteCluster
    BY <1>3 DEF TypeOK, DeleteCluster, ClusterToMachines
  <1>4. CASE SecretCollected
    BY <1>4 DEF TypeOK, SecretCollected
  <1>5. ASSUME NEW m \in Machines, DeleteMachine(m) PROVE EnvTypeOK'
    <2>0. second' \in Nat
      BY <1>5 DEF TypeOK, DeleteMachine, NextSeconds
    <2>1. [api EXCEPT ![m].del = second'] \in [Machines -> Machine]
      BY <2>0, FieldTypes DEF TypeOK
    <2>2. /\ api' \in [Machines -> Machine]
          /\ cache' \in [Machines -> Machine]
          /\ queue' \subseteq Machines
      BY <1>5, <2>1, StoreType DEF DeleteMachine
    <2>. QED  BY <1>5, <2>0, <2>2 DEF TypeOK, DeleteMachine
  <1>6. ASSUME NEW m \in Machines, CapiNext(m) PROVE EnvTypeOK'
    <2>1. \A v \in Reasons : [api EXCEPT ![m].reason = v] \in [Machines -> Machine]
      BY FieldTypes DEF TypeOK
    <2>2. CASE CapiStart(m)
      BY <2>1, <2>2, StoreType DEF TypeOK, CapiStart, Reasons, Early
    <2>3. CASE CapiPark(m)
      BY <2>1, <2>3, StoreType DEF TypeOK, CapiPark, Reasons
    <2>4. CASE CapiPassGate(m)
      BY <2>4 DEF TypeOK, CapiPassGate, InfraMachineToMachine
    <2>5. CASE CapiPublish(m)
      BY <2>1, <2>5, StoreType DEF TypeOK, CapiPublish, Reasons
    <2>6. CASE PowerOff(m)
      BY <2>6 DEF TypeOK, PowerOff, InfraMachineToMachine
    <2>. QED  BY <1>6, <2>2, <2>3, <2>4, <2>5, <2>6 DEF CapiNext
  <1>7. ASSUME NEW m \in Machines, RemoveOtherHook(m) PROVE EnvTypeOK'
    <2>1. [api EXCEPT ![m].other = FALSE] \in [Machines -> Machine]
      BY FieldTypes DEF TypeOK
    <2>. QED  BY <1>7, <2>1, StoreType DEF TypeOK, RemoveOtherHook
  <1>8. ASSUME NEW m \in Machines, ScaleDown(m) PROVE EnvTypeOK'
    <2>1. [api EXCEPT ![m].leaving = TRUE] \in [Machines -> Machine]
      BY FieldTypes DEF TypeOK
    <2>. QED  BY <1>8, <2>1, StoreType DEF TypeOK, ScaleDown
  <1>9. ASSUME NEW m \in Machines, EditObservedAt(m) PROVE EnvTypeOK'
    <2>1. [api EXCEPT ![m].obs = NotObserved] \in [Machines -> Machine]
      BY FieldTypes DEF TypeOK, Ages
    <2>2. /\ api' \in [Machines -> Machine]
          /\ cache' \in [Machines -> Machine]
          /\ queue' \subseteq Machines
      BY <1>9, <2>1, StoreType DEF EditObservedAt
    <2>3. faults' \in 0 .. MaxFaults
      BY <1>9, MaxFaultsAssumption DEF TypeOK, EditObservedAt
    <2>. QED  BY <1>9, <2>2, <2>3 DEF TypeOK, EditObservedAt
  <1>10. ASSUME NEW m \in Machines, BreakQualification(m) PROVE EnvTypeOK'
    <2>1. [api EXCEPT ![m].qual = FALSE] \in [Machines -> Machine]
      BY FieldTypes DEF TypeOK
    <2>2. /\ api' \in [Machines -> Machine]
          /\ cache' \in [Machines -> Machine]
          /\ queue' \subseteq Machines
      BY <1>10, <2>1, StoreType DEF BreakQualification
    <2>3. faults' \in 0 .. MaxFaults
      BY <1>10, MaxFaultsAssumption DEF TypeOK, BreakQualification
    <2>. QED  BY <1>10, <2>2, <2>3 DEF TypeOK, BreakQualification
  <1>. QED
    BY <1>1, <1>2, <1>3, <1>4, <1>5, <1>6, <1>7, <1>8, <1>9, <1>10 DEF EnvNext

(* Concluding a phase, or failing an attempt at it, keeps the types. *)
LEMMA ConcludeType ==
    ASSUME TypeOK, OutcomeFits, NEW m \in Machines
    PROVE  /\ \A v \in EtcdConclusions :
                Conclude(m, "stampEtcd", v) => ConcludedType
           /\ \A v \in ResetConclusions :
                Conclude(m, "stampReset", v) => ConcludedType
           /\ \A step \in Steps \ {"stampEtcd", "stampReset"} : \A o \in Machine :
                Goto(m, step, o) /\ UNCHANGED outcome => ConcludedType
           /\ \A step \in Steps \ {"stampEtcd", "stampReset"} : \A ps \in SUBSET ControlPlane :
                Ask(m, step, ps) /\ UNCHANGED outcome => ConcludedType
           /\ Requeue(m) => queue' \subseteq Machines
  <1>. USE DEF ConcludedType
  <1>1. \A v \in EtcdConclusions : Conclude(m, "stampEtcd", v) => ConcludedType
    BY FieldTypes DEF TypeOK, OutcomeFits, Conclude, Goto, Steps
  <1>2. \A v \in ResetConclusions : Conclude(m, "stampReset", v) => ConcludedType
    BY FieldTypes DEF TypeOK, OutcomeFits, Conclude, Goto, Steps
  <1>3. \A step \in Steps \ {"stampEtcd", "stampReset"} : \A o \in Machine :
            Goto(m, step, o) /\ UNCHANGED outcome => ConcludedType
    BY FieldTypes DEF TypeOK, OutcomeFits, Goto
  <1>4. Requeue(m) => queue' \subseteq Machines
    BY DEF TypeOK, EnvTypeOK, Requeue
  <1>5. \A step \in Steps \ {"stampEtcd", "stampReset"} : \A ps \in SUBSET ControlPlane :
            Ask(m, step, ps) /\ UNCHANGED outcome => ConcludedType
    BY DEF TypeOK, OutcomeFits, Ask
  <1>. QED  BY <1>1, <1>2, <1>3, <1>4, <1>5

(* Every call of a reconcile preserves the types. *)
LEMMA StepType ==
    ASSUME TypeOK, OutcomeFits, NEW m \in Machines,
           Reconcile(m) \/ Step(m) \/ Abort(m)
    PROVE  TypeOK' /\ OutcomeFits'
  <1>. DEFINE StoreTyped == /\ api' \in [Machines -> Machine]
                            /\ cache' \in [Machines -> Machine]
                            /\ queue' \subseteq Machines
  <1>0. /\ api \in [Machines -> Machine]
        /\ cache[m] \in Machine /\ obj[m] \in Machine /\ NoMachine \in Machine
    BY FieldTypes DEF TypeOK, EnvTypeOK
  <1>1. CASE Reconcile(m)
    <2>1. PICK step \in {"idle", "requeue", "observe", "cluster", "stamp", "creds"} :
              Resume(m, step, cache[m], queue \ {m})
      BY <1>1, FlowSteps DEF Reconcile
    <2>2. ConcludedType
      BY <1>0, <1>1, <2>1, ConcludeType DEF Resume, Reconcile, Steps
    <2>3. queue' \subseteq Machines
      BY <2>1 DEF TypeOK, EnvTypeOK, Resume
    <2>. QED  BY <1>1, <2>2, <2>3 DEF TypeOK, EnvTypeOK, Reconcile, ConcludedType
  <1>2. CASE Stamp(m)
    <2>. DEFINE Stamped(o) == [o EXCEPT !.hook = TRUE,
                                        !.legacy = @ /\ ~obj[m].legacy]
    <2>1. Stamped(api[m]) \in Machine /\ Stamped(obj[m]) \in Machine
      <3>1. ASSUME NEW o \in Machine PROVE Stamped(o) \in Machine
        BY DEF Machine
      <3>. QED  BY <1>0, <3>1
    <2>2. [api EXCEPT ![m] = Stamped(api[m])] \in [Machines -> Machine]
      BY <1>0, <2>1, FieldTypes
    <2>3. StoreTyped
      BY <1>2, <2>2, StoreType DEF Stamp
    <2>4. ConcludedType
      BY <1>2, <2>1, ConcludeType DEF Stamp, Steps
    <2>. QED  BY <1>2, <2>3, <2>4 DEF TypeOK, EnvTypeOK, Stamp, ConcludedType
  <1>3. CASE EnsureCredentials(m)
    <2>1. PICK step \in {"idle", "requeue", "observe", "cluster"} :
              Resume(m, step, obj[m], queue)
      BY <1>3, FlowSteps DEF EnsureCredentials
    <2>2. ConcludedType
      BY <1>0, <1>3, <2>1, ConcludeType DEF Resume, EnsureCredentials, Steps
    <2>3. queue' \subseteq Machines
      BY <2>1 DEF TypeOK, EnvTypeOK, Resume
    <2>. QED
      BY <1>3, <2>2, <2>3 DEF TypeOK, EnvTypeOK, EnsureCredentials, Ensure, ConcludedType
  <1>4. CASE Observe(m)
    <2>1. 0 \in Ages
      BY TimeoutAssumption DEF Ages, MaxAge
    <2>2. StoreTyped
      BY <1>0, <1>4, <2>1, StoreType, FieldTypes DEF Observe
    <2>3. [obj[m] EXCEPT !.obs = 0] \in Machine
      BY <1>0, <2>1 DEF Machine
    <2>4. ConcludedType
      BY <1>4, <2>3, ConcludeType DEF Observe, Steps
    <2>. QED  BY <1>4, <2>2, <2>4 DEF TypeOK, EnvTypeOK, Observe, ConcludedType
  <1>5. CASE ReadCluster(m)
    <2>1. ConcludedType
      BY <1>0, <1>5, ConcludeType, FlowSteps DEF ReadCluster, Steps, EtcdConclusions, ResetSteps
    <2>. QED  BY <1>5, <2>1 DEF TypeOK, EnvTypeOK, envVars, ReadCluster, ConcludedType
  <1>6. CASE SerializeControlPlane(m)
    <2>1. ConcludedType
      BY <1>0, <1>6, ConcludeType DEF SerializeControlPlane, Requeue, Steps, EtcdSteps
    <2>2. queue' \subseteq Machines
      BY <1>6, ConcludeType DEF TypeOK, EnvTypeOK, SerializeControlPlane
    <2>. QED
      BY <1>6, <2>1, <2>2 DEF TypeOK, EnvTypeOK, SerializeControlPlane, ConcludedType
  <1>7. ASSUME EtcdAttemptFailed(m) PROVE ConcludedType /\ queue' \subseteq Machines
    <2>1. CASE Expired(obj[m], EtcdTimeout)
      BY <1>7, <2>1, ConcludeType
        DEF EtcdAttemptFailed, EtcdConclusions, TypeOK, EnvTypeOK
    <2>2. CASE ~Expired(obj[m], EtcdTimeout)
      BY <1>0, <1>7, <2>2, ConcludeType DEF EtcdAttemptFailed, Requeue, Steps
    <2>. QED  BY <2>1, <2>2
  <1>8. CASE FindPeer(m)
    <2>1. ConcludedType /\ queue' \subseteq Machines
      BY <1>0, <1>7, <1>8, ConcludeType
        DEF FindPeer, Peers, Steps, EtcdSteps, TypeOK, EnvTypeOK
    <2>. QED  BY <1>8, <2>1 DEF TypeOK, EnvTypeOK, FindPeer, ConcludedType
  <1>17. CASE ProbePeer(m)
    <2>0. peers[m] \subseteq ControlPlane
      BY DEF TypeOK
    <2>1. ConcludedType /\ queue' \subseteq Machines
      <3>1. CASE /\ \E p \in peers[m] : \/ Ask(m, "leave", {p})
                                        \/ Ask(m, "probePeer", peers[m] \ {p})
                 /\ UNCHANGED <<queue, outcome>>
        BY <2>0, <3>1, ConcludeType DEF Steps, EtcdSteps, TypeOK, EnvTypeOK
      <3>2. CASE Conclude(m, "stampEtcd", "not-member") /\ UNCHANGED queue
        BY <3>2, ConcludeType DEF EtcdConclusions, TypeOK, EnvTypeOK
      <3>. QED  BY <1>7, <1>17, <3>1, <3>2 DEF ProbePeer
    <2>. QED  BY <1>17, <2>1 DEF TypeOK, EnvTypeOK, ProbePeer, ConcludedType
  <1>9. CASE LeaveViaVictim(m)
    <2>1. ConcludedType
      BY <1>0, <1>9, ConcludeType DEF LeaveViaVictim, EtcdConclusions, Steps, EtcdSteps, TypeOK
    <2>. QED  BY <1>9, <2>1 DEF TypeOK, EnvTypeOK, LeaveViaVictim, ConcludedType
  <1>10. CASE RemoveViaPeer(m)
    <2>1. ConcludedType /\ queue' \subseteq Machines
      BY <1>7, <1>10, ConcludeType DEF RemoveViaPeer, EtcdConclusions, TypeOK, EnvTypeOK
    <2>. QED  BY <1>10, <2>1 DEF TypeOK, EnvTypeOK, RemoveViaPeer, ConcludedType
  <1>11. CASE StampEtcd(m)
    <2>. DEFINE o == [obj[m] EXCEPT !.etcd = outcome[m]]
    <2>1. outcome[m] \in EtcdConclusions
      BY <1>11 DEF OutcomeFits, StampEtcd
    <2>2. o \in Machine
      BY <1>0, <2>1 DEF Machine
    <2>3. StoreTyped
      BY <1>0, <1>11, <2>1, StoreType, FieldTypes DEF StampEtcd
    <2>4. /\ pc' \in [Machines -> Steps] /\ obj' \in [Machines -> Machine]
          /\ peers' \in [Machines -> SUBSET ControlPlane]
      BY <1>11, <2>2, FlowSteps, GotoType DEF StampEtcd, Steps, ResetSteps
    <2>5. OutcomeFits'
      BY <1>11, FlowSteps DEF StampEtcd, Goto, OutcomeFits, TypeOK
    <2>. QED  BY <1>11, <2>3, <2>4, <2>5 DEF TypeOK, EnvTypeOK, StampEtcd
  <1>12. ASSUME ResetAttemptFailed(m) PROVE ConcludedType /\ queue' \subseteq Machines
    <2>1. CASE Expired(obj[m], ResetTimeout)
      BY <1>12, <2>1, ConcludeType
        DEF ResetAttemptFailed, ResetConclusions, TypeOK, EnvTypeOK
    <2>2. CASE ~Expired(obj[m], ResetTimeout)
      BY <1>0, <1>12, <2>2, ConcludeType DEF ResetAttemptFailed, Requeue, Steps
    <2>. QED  BY <2>1, <2>2
  <1>13. CASE TryReset(m)
    <2>1. ConcludedType /\ queue' \subseteq Machines
      BY <1>12, <1>13, ConcludeType DEF TryReset, ResetConclusions, TypeOK, EnvTypeOK
    <2>. QED  BY <1>13, <2>1 DEF TypeOK, EnvTypeOK, TryReset, ConcludedType
  <1>14. CASE StampReset(m)
    <2>1. outcome[m] \in ResetConclusions
      BY <1>14 DEF OutcomeFits, StampReset
    <2>2. [obj[m] EXCEPT !.reset = outcome[m]] \in Machine
      BY <1>0, <2>1 DEF Machine
    <2>3. StoreTyped
      BY <1>0, <1>14, <2>1, StoreType, FieldTypes DEF StampReset
    <2>4. /\ pc' \in [Machines -> Steps] /\ obj' \in [Machines -> Machine]
          /\ peers' \in [Machines -> SUBSET ControlPlane]
      BY <1>14, <2>2, GotoType DEF StampReset, Steps
    <2>5. OutcomeFits'
      BY <1>14 DEF StampReset, Goto, OutcomeFits, TypeOK
    <2>. QED  BY <1>14, <2>3, <2>4, <2>5 DEF TypeOK, EnvTypeOK, StampReset
  <1>15. CASE Release(m)
    <2>. DEFINE new == [api EXCEPT ![m].hook = FALSE,
                                   ![m].legacy = @ /\ ~obj[m].legacy]
    <2>. DEFINE o == [api[m] EXCEPT !.hook = FALSE,
                                    !.legacy = @ /\ ~obj[m].legacy]
    <2>1. o \in Machine
      BY <1>0 DEF Machine
    <2>2. new = [api EXCEPT ![m] = o]
      BY <1>0
    <2>3. new \in [Machines -> Machine]
      BY <1>0, <2>1, <2>2, FieldTypes
    <2>4. StoreTyped
      BY <1>15, <2>3, StoreType DEF Release
    <2>5. ConcludedType
      BY <1>0, <1>15, ConcludeType DEF Release, Steps
    <2>. QED  BY <1>15, <2>4, <2>5 DEF TypeOK, EnvTypeOK, Release, ConcludedType
  <1>16. CASE Abort(m)
    <2>1. /\ pc' \in [Machines -> Steps] /\ obj' \in [Machines -> Machine]
          /\ peers' \in [Machines -> SUBSET ControlPlane]
      BY <1>0, <1>16, GotoType DEF Abort, Requeue, Steps
    <2>2. queue' \subseteq Machines /\ OutcomeFits'
      BY <1>16 DEF Abort, Requeue, Goto, OutcomeFits, TypeOK, EnvTypeOK
    <2>3. faults' \in 0 .. MaxFaults
      BY <1>16, MaxFaultsAssumption DEF Abort, TypeOK, EnvTypeOK
    <2>. QED  BY <1>16, <2>1, <2>2, <2>3 DEF TypeOK, EnvTypeOK, Abort
  <1>. QED
    BY <1>1, <1>2, <1>3, <1>4, <1>5, <1>6, <1>8, <1>9, <1>10, <1>11, <1>13,
       <1>14, <1>15, <1>16, <1>17 DEF Step

-----------------------------------------------------------------------------
(* Safety. *)

(* What a step of the environment may do to the state the controller's      *)
(* promises are about.                                                      *)
EnvEffect ==
    /\ \A m \in Machines :
        /\ Older(api[m], api'[m])
        /\ api'[m].hook = api[m].hook
        /\ api'[m].etcd = api[m].etcd
        /\ api'[m].reset = api[m].reset
        /\ cache'[m] = cache[m] \/ cache'[m] = api'[m]
        /\ infra'[m] = infra[m] \/ infra[m] # "present" \/ ~api[m].hook
    /\ wiped' = wiped
    /\ members' \subseteq members
    /\ members' = members \/ \E p \in members' : ~Deleting(api[p])
    /\ cluster => cluster'
    /\ clusterSeen' => clusterSeen \/ cluster'

(* Every step of the environment has at most that effect. *)
LEMMA EnvEffects ==
    ASSUME TypeOK, EnvNext
    PROVE  EnvEffect
  <1>. USE DEF EnvEffect, TypeOK, EnvTypeOK, Older, Deleting
  <1>1. CASE SyncMachines
    BY <1>1 DEF SyncMachines
  <1>2. CASE SyncCluster
    BY <1>2 DEF SyncCluster
  <1>3. CASE DeleteCluster
    BY <1>3 DEF DeleteCluster
  <1>4. CASE SecretCollected
    BY <1>4 DEF SecretCollected
  <1>5. ASSUME NEW m \in Machines, DeleteMachine(m) PROVE EnvEffect
    <2>1. second' \in Nat \ {0}
      BY <1>5 DEF DeleteMachine, NextSeconds
    <2>. QED  BY <1>5, <2>1 DEF DeleteMachine, Store, Machine
  <1>6. ASSUME NEW m \in Machines, CapiStart(m) PROVE EnvEffect
    <2>1. api[m].reason \in Early
      BY <1>6 DEF CapiStart, Early
    <2>. QED  BY <1>6, <2>1 DEF CapiStart, Store, Machine
  <1>7. ASSUME NEW m \in Machines, CapiPark(m) PROVE EnvEffect
    <2>1. PreTerminate \notin Early
      BY DEF Early, NotStarted, Draining, PreTerminate
    <2>. QED  BY <1>7, <2>1 DEF CapiPark, Store, Machine
  <1>8. ASSUME NEW m \in Machines, CapiPassGate(m) PROVE EnvEffect
    BY <1>8 DEF CapiPassGate, AnyPreTerminateHook
  <1>9. ASSUME NEW m \in Machines, CapiPublish(m) PROVE EnvEffect
    <2>1. Later \notin Early
      BY DEF Early, NotStarted, Draining, Later
    <2>. QED  BY <1>9, <2>1 DEF CapiPublish, Store, Machine
  <1>10. ASSUME NEW m \in Machines, PowerOff(m) PROVE EnvEffect
    BY <1>10 DEF PowerOff
  <1>11. ASSUME NEW m \in Machines, RemoveOtherHook(m) PROVE EnvEffect
    BY <1>11 DEF RemoveOtherHook, Store, Machine
  <1>12. ASSUME NEW m \in Machines, ScaleDown(m) PROVE EnvEffect
    BY <1>12 DEF ScaleDown, Store, Machine
  <1>13. ASSUME NEW m \in Machines, EditObservedAt(m) PROVE EnvEffect
    BY <1>13 DEF EditObservedAt, Store, Machine
  <1>14. ASSUME NEW m \in Machines, BreakQualification(m) PROVE EnvEffect
    BY <1>14 DEF BreakQualification, Store, Machine
  <1>. QED
    BY <1>1, <1>2, <1>3, <1>4, <1>5, <1>6, <1>7, <1>8, <1>9,
       <1>10, <1>11, <1>12, <1>13, <1>14 DEF EnvNext, CapiNext

(* A view older than an older view is older. *)
LEMMA OlderTransitive ==
    ASSUME NEW a, NEW b, NEW c, Older(a, b), Older(b, c)
    PROVE  Older(a, c)
  BY DEF Older

(* A fresh read of a Machine is an older view of it. *)
LEMMA OlderReflexive ==
    ASSUME NEW a
    PROVE  Older(a, a)
  BY DEF Older

(* The control plane's last etcd member is never in its own removal: a      *)
(* Machine that is not being deleted is in no etcd removal.                 *)
LEMMA LiveMemberStays ==
    ASSUME ViewsOlder, StepFacts, NEW p \in Machines, ~Deleting(api[p]) \/ ~Deleting(cache[p])
    PROVE  ~Going(p)
  BY DEF Going, ViewsOlder, StepFacts, Older, DeletionSteps, Steps, EtcdSteps

(* The environment preserves the invariant. *)
LEMMA EnvSafe ==
    ASSUME IInv, EnvNext, UNCHANGED ctlVars
    PROVE  IInv'
  <1>1. EnvEffect
    BY EnvEffects DEF IInv
  <1>2. TypeOK' /\ OutcomeFits'
    BY EnvType DEF IInv, TypeOK, OutcomeFits, ctlVars
  <1>3. ViewsOlder'
    <2>. SUFFICES ASSUME NEW m \in Machines
                  PROVE  /\ Older(cache'[m], api'[m])
                         /\ pc[m] # "idle" => Older(obj[m], api'[m])
                         /\ Deleting(obj[m]) => Deleting(cache'[m])
      BY DEF ViewsOlder, ctlVars
    <2>1. Older(api[m], api'[m]) /\ (cache'[m] = cache[m] \/ cache'[m] = api'[m])
      BY <1>1 DEF EnvEffect
    <2>2. Older(cache'[m], api'[m])
      BY <2>1, OlderTransitive, OlderReflexive DEF IInv, ViewsOlder
    <2>3. pc[m] # "idle" => Older(obj[m], api'[m])
      BY <2>1, OlderTransitive DEF IInv, ViewsOlder
    <2>4. Deleting(obj[m]) => Deleting(cache'[m])
      BY <2>1 DEF IInv, ViewsOlder, Older
    <2>. QED  BY <2>2, <2>3, <2>4
  <1>4. StepFacts'
    BY <1>1 DEF IInv, StepFacts, EnvEffect, ctlVars
  <1>5. GateFacts'
    BY <1>1 DEF IInv, TypeOK, GateFacts, EnvEffect, ctlVars
  <1>6. ConclusionsTruthful'
    BY <1>1 DEF IInv, ConclusionsTruthful, EnvEffect
  <1>7. WipedMemberExcused'
    BY <1>1 DEF IInv, TypeOK, EnvTypeOK, WipedMemberExcused, EnvEffect
  <1>8. EtcdKept'
    BY <1>1, LiveMemberStays, SubsetsAssumption
      DEF IInv, TypeOK, EnvTypeOK, EtcdKept, Going, EnvEffect, ctlVars
  <1>9. ClusterFacts'
    BY <1>1 DEF IInv, ClusterFacts, EnvEffect, ctlVars
  <1>. QED  BY <1>2, <1>3, <1>4, <1>5, <1>6, <1>7, <1>8, <1>9 DEF IInv

(* The invariant, one Machine at a time. *)
SafeAt(m) ==
    /\ Older(cache[m], api[m])
    /\ pc[m] # "idle" => Older(obj[m], api[m])
    /\ Deleting(obj[m]) => Deleting(cache[m])
    /\ pc[m] \in DeletionSteps =>
          Deleting(obj[m]) /\ obj[m].reason = PreTerminate /\ ~obj[m].other
    /\ pc[m] \in {"reset", "stampReset", "release"} /\ m \in ControlPlane =>
          obj[m].etcd # "none"
    /\ pc[m] = "release" => obj[m].reset # "none"
    /\ pc[m] = "stampEtcd" /\ outcome[m] \in Departed => m \notin members
    /\ pc[m] = "stampReset" /\ outcome[m] = "done" => m \in wiped
    /\ m \in gated /\ ~api[m].hook => api[m].reset # "none"
    /\ m \in gated /\ infra[m] # "present" => api[m].reset # "none"
    /\ api[m].etcd \in Departed => m \notin members
    /\ api[m].reset = "done" => m \in wiped
    /\ pc[m] = "stampEtcd" /\ outcome[m] = "skipped-cluster-delete" => cluster
    /\ api[m].etcd = "skipped-cluster-delete" => cluster
    /\ m \in wiped /\ m \in members =>
          api[m].etcd \in {"orphaned", "skipped-cluster-delete"}

(* SafeAt is the per-Machine part of the invariant. *)
LEMMA SafeEverywhere ==
    ASSUME TypeOK
    PROVE  /\ ViewsOlder /\ StepFacts /\ ClusterFacts /\ GateFacts
           /\ ConclusionsTruthful /\ WipedMemberExcused
           <=> (clusterSeen => cluster) /\ \A m \in Machines : SafeAt(m)
  BY DEF TypeOK, EnvTypeOK, ViewsOlder, StepFacts,
         ClusterFacts, GateFacts, ConclusionsTruthful, WipedMemberExcused, SafeAt, Departed

(* A call of the reconcile of m leaves the other Machines alone. *)
StepFrame(m) ==
    /\ \A n \in Machines \ {m} :
        /\ api'[n] = api[n] /\ pc'[n] = pc[n] /\ obj'[n] = obj[n]
        /\ outcome'[n] = outcome[n]
        /\ n \in gated' <=> n \in gated
        /\ n \in members' <=> n \in members
        /\ n \in wiped' <=> n \in wiped
    /\ \A n \in Machines : cache'[n] = cache[n] \/ cache'[n] = api'[n]
    /\ infra' = infra
    /\ cluster' = cluster /\ clusterSeen' = clusterSeen

(* A call of the reconcile of m that leaves the other Machines alone keeps  *)
(* them safe: only m itself is left to look at.                             *)
LEMMA FrameSafe ==
    ASSUME IInv, TypeOK', OutcomeFits', NEW m \in Machines,
           StepFrame(m), SafeAt(m)', EtcdKept'
    PROVE  IInv'
  <1>1. \A n \in Machines : SafeAt(n)
    BY SafeEverywhere DEF IInv
  <1>2. ASSUME NEW n \in Machines, n # m PROVE SafeAt(n)'
    <2>1. /\ api'[n] = api[n] /\ pc'[n] = pc[n] /\ obj'[n] = obj[n]
          /\ outcome'[n] = outcome[n] /\ infra'[n] = infra[n] /\ cluster' = cluster
          /\ n \in gated' <=> n \in gated
          /\ n \in members' <=> n \in members
          /\ n \in wiped' <=> n \in wiped
          /\ cache'[n] = cache[n] \/ cache'[n] = api[n]
      BY <1>2 DEF StepFrame
    <2>2. Older(cache'[n], api[n]) /\ (Deleting(obj[n]) => Deleting(cache'[n]))
      BY <1>1, <2>1, OlderReflexive DEF SafeAt, Older
    <2>. QED  BY <1>1, <2>1, <2>2 DEF SafeAt
  <1>3. \A n \in Machines : SafeAt(n)'
    BY <1>2
  <1>4. clusterSeen' => cluster'
    BY DEF IInv, ClusterFacts, StepFrame
  <1>5. (/\ ViewsOlder /\ StepFacts /\ ClusterFacts /\ GateFacts
         /\ ConclusionsTruthful /\ WipedMemberExcused)'
    BY <1>3, <1>4 DEF TypeOK, EnvTypeOK, ViewsOlder, StepFacts,
         ClusterFacts, GateFacts, ConclusionsTruthful, WipedMemberExcused, SafeAt, Departed
  <1>. QED  BY <1>5 DEF IInv

(* The calls that only read Machines, or end the reconcile. *)
LEMMA ReadSafe ==
    ASSUME IInv, TypeOK', OutcomeFits', NEW m \in Machines,
           \/ Reconcile(m) \/ EnsureCredentials(m) \/ ReadCluster(m)
           \/ SerializeControlPlane(m) \/ Abort(m)
    PROVE  IInv'
  <1>0. SafeAt(m) /\ TypeOK /\ EtcdKept
    BY SafeEverywhere DEF IInv
  <1>. DEFINE Moves(step, o) == /\ Goto(m, step, o)
                                /\ UNCHANGED <<api, cache, infra, members, wiped, gated,
                                               cluster, clusterSeen>>
                                /\ \A n \in Machines \ {m} : outcome'[n] = outcome[n]
  <1>1. ASSUME NEW step \in Steps \ {"leave", "remove"}, NEW o, Moves(step, o)
        PROVE  StepFrame(m) /\ EtcdKept'
    <2>1. StepFrame(m)
      BY <1>0, <1>1 DEF StepFrame, Goto, TypeOK
    <2>2. EtcdKept'
      BY <1>0, <1>1, SubsetsAssumption DEF EtcdKept, Going, Goto, TypeOK, EnvTypeOK
    <2>. QED  BY <2>1, <2>2
  <1>2. ASSUME NEW o, Moves("idle", o) PROVE SafeAt(m)'
    BY <1>0, <1>2 DEF SafeAt, Goto, TypeOK, NoMachine, Deleting, DeletionSteps
  <1>3. ASSUME NEW step \in {"stamp", "creds", "observe", "cluster", "serialize", "findPeer"},
               Moves(step, obj[m]) \/ Moves(step, cache[m]),
                pc[m] # "idle" \/ Moves(step, cache[m]),
               step \in DeletionSteps =>
                   Deleting(obj'[m]) /\ obj'[m].reason = PreTerminate /\ ~obj'[m].other
        PROVE  SafeAt(m)'
    <2>1. obj'[m] = cache[m] \/ (pc[m] # "idle" /\ obj'[m] = obj[m])
      BY <1>0, <1>3 DEF Goto, TypeOK
    <2>2. Older(obj'[m], api[m]) /\ (Deleting(obj'[m]) => Deleting(cache[m]))
      BY <1>0, <2>1 DEF SafeAt
    <2>3. pc'[m] = step /\ UNCHANGED <<api, cache, infra, members, wiped, gated, cluster>>
      BY <1>0, <1>3 DEF Goto, TypeOK
    <2>. QED  BY <1>0, <1>3, <2>2, <2>3 DEF SafeAt
  <1>4. CASE Reconcile(m)
    <2>. DEFINE step == IF ~Admitted(cache[m]) THEN "idle"
                        ELSE IF Deleting(cache[m]) THEN ReconcileDeleting(cache[m])
                        ELSE ReconcileNormal(cache[m])
    <2>1. Moves(IF step = "requeue" THEN "idle" ELSE step, cache[m])
      BY <1>4 DEF Reconcile, Resume
    <2>2. step \in {"idle", "requeue", "observe", "cluster", "stamp", "creds"}
      BY FlowSteps
    <2>3. step \in {"observe", "cluster"} =>
              Deleting(cache[m]) /\ cache[m].reason = PreTerminate /\ ~cache[m].other
      BY DEF ReconcileDeleting, ReconcileNormal, AfterHook, AtPreTerminate,
             HasOtherPreTerminateHooks
    <2>4. CASE step \in {"idle", "requeue"}
      BY <1>1, <1>2, <2>1, <2>4, FrameSafe DEF Steps
    <2>5. CASE step \in {"observe", "cluster", "stamp", "creds"}
      <3>1. obj'[m] = cache[m]
        BY <1>0, <2>1, <2>5 DEF Goto, TypeOK
      <3>2. SafeAt(m)'
        BY <1>3, <2>1, <2>3, <2>5, <3>1 DEF DeletionSteps
      <3>. QED  BY <1>1, <2>1, <2>5, <3>2, FrameSafe DEF Steps
    <2>. QED  BY <2>2, <2>4, <2>5
  <1>5. CASE EnsureCredentials(m)
    <2>. DEFINE step == IF Deleting(obj[m]) THEN AfterHook(obj[m]) ELSE "idle"
    <2>1. Moves(IF step = "requeue" THEN "idle" ELSE step, obj[m])
      BY <1>5 DEF EnsureCredentials, Resume
    <2>2. step \in {"idle", "requeue", "observe", "cluster"}
      BY FlowSteps
    <2>3. step \in {"observe", "cluster"} =>
              Deleting(obj[m]) /\ obj[m].reason = PreTerminate /\ ~obj[m].other
      BY DEF AfterHook, AtPreTerminate, HasOtherPreTerminateHooks
    <2>4. CASE step \in {"idle", "requeue"}
      BY <1>1, <1>2, <2>1, <2>4, FrameSafe DEF Steps
    <2>5. CASE step \in {"observe", "cluster"}
      <3>1. obj'[m] = obj[m] /\ pc[m] # "idle"
        BY <1>0, <1>5, <2>1, <2>5 DEF Goto, TypeOK, EnsureCredentials
      <3>2. SafeAt(m)'
        BY <1>3, <2>1, <2>3, <2>5, <3>1 DEF DeletionSteps
      <3>. QED  BY <1>1, <2>1, <2>5, <3>2, FrameSafe DEF Steps
    <2>. QED  BY <2>2, <2>4, <2>5
  <1>6. CASE ReadCluster(m)
    <2>0. pc[m] = "cluster" /\ pc[m] \in DeletionSteps /\ pc[m] # "idle"
      BY <1>6 DEF ReadCluster, DeletionSteps, Steps
    <2>1. CASE Moves("serialize", obj[m])
      <3>1. obj'[m] = obj[m]
        BY <1>0, <2>1 DEF Goto, TypeOK
      <3>2. SafeAt(m)'
        BY <1>0, <1>3, <2>0, <2>1, <3>1 DEF SafeAt
      <3>. QED  BY <1>1, <2>1, <3>2, FrameSafe DEF Steps
    <2>2. CASE /\ Conclude(m, "stampEtcd", "skipped-cluster-delete")
               /\ UNCHANGED <<envVars, gated>>
      <3>1. Moves("stampEtcd", obj[m])
        BY <1>0, <2>2 DEF Conclude, envVars, TypeOK
      <3>2. /\ pc'[m] = "stampEtcd" /\ obj'[m] = obj[m]
            /\ outcome'[m] \notin Departed
        BY <1>0, <2>2 DEF Conclude, Goto, TypeOK, Departed
      <3>3. cluster'
        BY <1>0, <1>6, <2>2, <3>2 DEF ReadCluster, ClusterDeleting, IInv, ClusterFacts, envVars,
             Conclude, Goto, AfterEtcd, TypeOK
      <3>4. SafeAt(m)'
        BY <1>0, <2>0, <3>1, <3>2, <3>3 DEF SafeAt
      <3>. QED  BY <1>1, <3>1, <3>4, FrameSafe DEF Steps
    <2>3. CASE /\ obj[m].etcd # "none" \/ m \notin ControlPlane
               /\ Moves(AfterEtcd(obj[m]), obj[m])
      <3>1. /\ obj'[m] = obj[m] /\ pc'[m] = AfterEtcd(obj[m])
            /\ pc'[m] \in {"reset", "release"}
        BY <1>0, <2>3, FlowSteps DEF Goto, TypeOK
      <3>2. pc'[m] = "release" => obj[m].reset # "none"
        BY <3>1 DEF AfterEtcd
      <3>3. SafeAt(m)'
        BY <1>0, <2>0, <2>3, <3>1, <3>2 DEF SafeAt
      <3>. QED  BY <1>1, <2>3, <3>1, <3>3, FlowSteps, FrameSafe DEF Steps, ResetSteps
    <2>. QED
      BY <1>6, <2>1, <2>2, <2>3 DEF ReadCluster, envVars
  <1>7. CASE SerializeControlPlane(m)
    <2>1. CASE Moves("idle", NoMachine)
      BY <1>1, <1>2, <2>1, FrameSafe DEF Steps
    <2>2. CASE Moves("findPeer", obj[m])
      <3>1. obj'[m] = obj[m] /\ pc[m] = "serialize"
        BY <1>0, <1>7, <2>2 DEF Goto, TypeOK, SerializeControlPlane
      <3>2. SafeAt(m)'
        BY <1>0, <1>3, <2>2, <3>1 DEF SafeAt, DeletionSteps, Steps
      <3>. QED  BY <1>1, <2>2, <3>2, FrameSafe DEF Steps, EtcdSteps
    <2>. QED  BY <1>7, <2>1, <2>2 DEF SerializeControlPlane, Requeue
  <1>8. CASE Abort(m)
    <2>1. Moves("idle", NoMachine)
      BY <1>0, <1>8 DEF Abort, Requeue, TypeOK
    <2>. QED  BY <1>1, <1>2, <2>1, FrameSafe DEF Steps
  <1>. QED  BY <1>4, <1>5, <1>6, <1>7, <1>8

(* The calls to Talos nodes. *)
LEMMA RpcSafe ==
    ASSUME IInv, TypeOK', OutcomeFits', NEW m \in Machines,
           \/ FindPeer(m) \/ ProbePeer(m) \/ LeaveViaVictim(m) \/ RemoveViaPeer(m)
           \/ TryReset(m)
    PROVE  IInv'
  <1>0. /\ SafeAt(m) /\ TypeOK /\ EtcdKept /\ ViewsOlder /\ StepFacts
        /\ members \subseteq Machines
    BY SafeEverywhere, SubsetsAssumption DEF IInv, TypeOK, EnvTypeOK
  <1>1. /\ UNCHANGED <<api, cache, infra, gated, cluster, clusterSeen>>
        /\ members' \in {members, members \ {m}}
        /\ wiped' \in {wiped, wiped \union {m}}
        /\ pc[m] \in {"findPeer", "probePeer", "leave", "remove", "reset"}
        /\ \A n \in Machines \ {m} :
              /\ pc'[n] = pc[n] /\ obj'[n] = obj[n] /\ outcome'[n] = outcome[n]
              /\ peers'[n] = peers[n]
        /\ \/ pc'[m] = "idle" /\ obj'[m] = NoMachine
           \/ /\ pc'[m] \in {"probePeer", "leave", "remove", "stampEtcd", "stampReset"}
              /\ obj'[m] = obj[m]
    <2>. USE <1>0 DEF TypeOK, Goto, Ask, Conclude, Requeue
    <2>1. CASE FindPeer(m)
      BY <2>1 DEF FindPeer, EtcdAttemptFailed
    <2>5. CASE ProbePeer(m)
      BY <2>5 DEF ProbePeer, EtcdAttemptFailed
    <2>2. CASE LeaveViaVictim(m)
      BY <2>2 DEF LeaveViaVictim
    <2>3. CASE RemoveViaPeer(m)
      BY <2>3 DEF RemoveViaPeer, EtcdAttemptFailed
    <2>4. CASE TryReset(m)
      BY <2>4 DEF TryReset, ResetAttemptFailed
    <2>. QED  BY <2>1, <2>2, <2>3, <2>4, <2>5
  <1>2. StepFrame(m)
    BY <1>1 DEF StepFrame
  <1>3. /\ pc'[m] = "stampEtcd" /\ outcome'[m] \in Departed => m \notin members'
        /\ pc'[m] = "stampReset" /\ outcome'[m] = "done" => m \in wiped'
        /\ pc'[m] = "stampReset" => pc[m] = "reset"
        /\ wiped' # wiped => pc[m] = "reset"
        /\ pc'[m] = "stampEtcd" => outcome'[m] # "skipped-cluster-delete"
    <2>. USE <1>0 DEF TypeOK, Goto, Ask, Conclude, Requeue, Departed
    <2>1. CASE FindPeer(m)
      BY <2>1 DEF FindPeer, EtcdAttemptFailed
    <2>5. CASE ProbePeer(m)
      BY <2>5 DEF ProbePeer, FindMember, EtcdAttemptFailed
    <2>2. CASE LeaveViaVictim(m)
      BY <2>2 DEF LeaveViaVictim
    <2>3. CASE RemoveViaPeer(m)
      BY <2>3 DEF RemoveViaPeer, EtcdAttemptFailed
    <2>4. CASE TryReset(m)
      BY <2>4 DEF TryReset, ResetAttemptFailed
    <2>. QED  BY <2>1, <2>2, <2>3, <2>4, <2>5
  <1>4. SafeAt(m)'
    <2>1. /\ pc[m] \in DeletionSteps
          /\ m \in wiped' /\ m \in members' => api[m].etcd \in {"orphaned", "skipped-cluster-delete"}
      <3>1. pc[m] \in DeletionSteps
        BY <1>1 DEF DeletionSteps, Steps, EtcdSteps, ResetSteps
      <3>2. ASSUME pc[m] = "reset", m \in members
            PROVE  api[m].etcd \in {"orphaned", "skipped-cluster-delete"}
        <4>1. m \in ControlPlane /\ api[m].etcd # "none"
          BY <1>0, <3>2 DEF TypeOK, EnvTypeOK, SafeAt, Older
        <4>2. api[m].etcd \notin Departed
          BY <1>0, <3>2 DEF SafeAt
        <4>. QED  BY <1>0, <4>1, <4>2 DEF TypeOK, EnvTypeOK, Machine, EtcdConclusions, Departed
      <3>. QED  BY <1>0, <1>1, <1>3, <3>1, <3>2 DEF SafeAt
    <2>2. CASE pc'[m] = "idle" /\ obj'[m] = NoMachine
      BY <1>0, <1>1, <2>1, <2>2 DEF SafeAt, NoMachine, Deleting, DeletionSteps
    <2>3. CASE /\ pc'[m] \in {"probePeer", "leave", "remove", "stampEtcd", "stampReset"}
               /\ obj'[m] = obj[m]
      BY <1>0, <1>1, <1>3, <2>1, <2>3 DEF SafeAt
    <2>. QED  BY <1>1, <2>2, <2>3
  <1>5. EtcdKept'
    <2>0. /\ members' # members => pc[m] \in {"leave", "remove"}
          /\ ~Going(m) /\ Going(m)' => FindPeer(m) /\ peers'[m] = Peers(m) /\ members' = members
      <3>. USE <1>0 DEF TypeOK, Goto, Ask, Conclude, Requeue
      <3>1. CASE FindPeer(m)
        BY <3>1 DEF FindPeer, EtcdAttemptFailed, Going
      <3>2. CASE ProbePeer(m)
        <4>1. members' = members /\ pc[m] = "probePeer"
          BY <3>2 DEF ProbePeer
        <4>2. ASSUME NEW p \in peers[m], EtcdHealthy(p) PROVE Going(m)
          BY <4>1, <4>2 DEF EtcdHealthy, Going
        <4>3. CASE \E p \in peers[m] : Ask(m, "probePeer", peers[m] \ {p})
          BY <4>1, <4>3 DEF Going
        <4>4. CASE Conclude(m, "stampEtcd", "not-member") \/ EtcdAttemptFailed(m)
          BY <4>1, <4>4 DEF EtcdAttemptFailed, Going
        <4>. QED  BY <3>2, <4>1, <4>2, <4>3, <4>4 DEF ProbePeer
      <3>3. CASE LeaveViaVictim(m)
        BY <3>3 DEF LeaveViaVictim, Going
      <3>4. CASE RemoveViaPeer(m)
        BY <3>4 DEF RemoveViaPeer, EtcdAttemptFailed, Going
      <3>5. CASE TryReset(m)
        BY <3>5 DEF TryReset, ResetAttemptFailed, Going
      <3>. QED  BY <3>1, <3>2, <3>3, <3>4, <3>5
    <2>1. \A n \in Machines \ {m} : Going(n)' => Going(n)
      BY <1>1 DEF Going
    <2>2. CASE ~Going(m) /\ Going(m)'
      <3>1. PICK p \in Peers(m) : p \in members
        BY <1>0, <2>0, <2>2 DEF Going, FindPeer, EtcdAttemptFailed, Conclude,
             Goto, Requeue, Ask, TypeOK
      <3>2. p \in Machines \ {m} /\ ~Going(p)
        BY <1>0, <3>1, LiveMemberStays DEF Peers
      <3>. QED  BY <2>0, <2>1, <2>2, <3>1, <3>2 DEF EtcdKept
    <2>3. CASE Going(m) \/ ~Going(m)'
      <3>1. PICK p \in members : ~Going(p)
        BY <1>0 DEF EtcdKept
      <3>2. p \in members'
        BY <1>1, <2>0, <3>1 DEF Going
      <3>3. ~Going(p)'
        BY <1>0, <2>1, <2>3, <3>1
      <3>. QED  BY <3>2, <3>3 DEF EtcdKept
    <2>. QED  BY <2>2, <2>3
  <1>. QED  BY <1>2, <1>4, <1>5, FrameSafe

(* The patches of the Machine. *)
LEMMA PatchSafe ==
    ASSUME IInv, TypeOK', OutcomeFits', NEW m \in Machines,
           Stamp(m) \/ Observe(m) \/ StampEtcd(m) \/ StampReset(m) \/ Release(m)
    PROVE  IInv'
  <1>0. /\ SafeAt(m) /\ TypeOK /\ EtcdKept
        /\ api \in [Machines -> Machine] /\ cache \in [Machines -> Machine]
        /\ api[m] \in Machine /\ obj[m] \in Machine
        /\ members \subseteq Machines
    BY SafeEverywhere, SubsetsAssumption DEF IInv, TypeOK, EnvTypeOK
  <1>1. ASSUME NEW step \in Steps \ {"leave", "remove"}, NEW o, NEW new,
               Goto(m, step, o), Store(new),
               \A n \in Machines \ {m} : new[n] = api[n] /\ outcome'[n] = outcome[n],
               UNCHANGED <<infra, members, wiped, cluster, clusterSeen>>,
               gated' \in {gated, gated \union {m}}
        PROVE  StepFrame(m) /\ EtcdKept'
    <2>1. StepFrame(m)
      BY <1>0, <1>1 DEF StepFrame, Goto, Store, TypeOK
    <2>2. EtcdKept'
      BY <1>0, <1>1 DEF EtcdKept, Going, Goto, TypeOK
    <2>. QED  BY <2>1, <2>2
  (* What a patch must keep true of m: it takes nothing back. *)
  <1>2. ASSUME Older(api[m], api'[m]), cache'[m] = cache[m] \/ cache'[m] = api'[m],
               Deleting(obj'[m]) => Deleting(obj[m])
        PROVE  /\ Older(cache'[m], api'[m])
               /\ Deleting(obj'[m]) => Deleting(cache'[m])
    BY <1>0, <1>2, OlderTransitive, OlderReflexive DEF SafeAt, Older
  <1>3. CASE Stamp(m)
    <2>1. /\ pc'[m] = "creds" /\ pc[m] = "stamp"
          /\ api'[m] = [api[m] EXCEPT !.hook = TRUE, !.legacy = @ /\ ~obj[m].legacy]
          /\ obj'[m] = [obj[m] EXCEPT !.hook = TRUE, !.legacy = @ /\ ~obj[m].legacy]
          /\ gated' = IF infra[m] = "present" THEN gated \union {m} ELSE gated
          /\ UNCHANGED <<infra, members, wiped, cluster>>
          /\ cache'[m] = cache[m] \/ cache'[m] = api'[m]
      BY <1>0, <1>3 DEF Stamp, Store, Goto, TypeOK
    <2>2. /\ api'[m].hook = TRUE
          /\ api'[m].del = api[m].del /\ api'[m].reason = api[m].reason
          /\ api'[m].other = api[m].other /\ api'[m].etcd = api[m].etcd
          /\ api'[m].reset = api[m].reset
          /\ obj'[m].del = obj[m].del /\ obj'[m].reason = obj[m].reason
          /\ obj'[m].other = obj[m].other /\ obj'[m].etcd = obj[m].etcd
          /\ obj'[m].reset = obj[m].reset
      BY <1>0, <2>1 DEF Machine
    <2>3. Older(api[m], api'[m]) /\ Older(obj'[m], api'[m])
          /\ (Deleting(obj'[m]) => Deleting(obj[m]))
      BY <1>0, <2>1, <2>2 DEF Older, Deleting, SafeAt
    <2>4. SafeAt(m)'
      BY <1>0, <1>2, <2>1, <2>2, <2>3 DEF SafeAt, DeletionSteps
    <2>5. StepFrame(m) /\ EtcdKept'
      BY <1>0, <1>1, <1>3 DEF Stamp, Steps
    <2>. QED  BY <2>4, <2>5, FrameSafe
  <1>4. CASE Observe(m)
    <2>1. /\ pc'[m] = "cluster" /\ pc[m] = "observe"
          /\ api'[m] = [api[m] EXCEPT !.obs = 0]
          /\ obj'[m] = [obj[m] EXCEPT !.obs = 0]
          /\ UNCHANGED <<infra, members, wiped, gated, cluster>>
          /\ cache'[m] = cache[m] \/ cache'[m] = api'[m]
      BY <1>0, <1>4 DEF Observe, Store, Goto, TypeOK
    <2>2. /\ api'[m].hook = api[m].hook
          /\ api'[m].del = api[m].del /\ api'[m].reason = api[m].reason
          /\ api'[m].other = api[m].other /\ api'[m].etcd = api[m].etcd
          /\ api'[m].reset = api[m].reset
          /\ obj'[m].del = obj[m].del /\ obj'[m].reason = obj[m].reason
          /\ obj'[m].other = obj[m].other /\ obj'[m].etcd = obj[m].etcd
          /\ obj'[m].reset = obj[m].reset
      BY <1>0, <2>1 DEF Machine
    <2>3. /\ Older(api[m], api'[m]) /\ Older(obj'[m], api'[m])
          /\ Deleting(obj'[m]) => Deleting(obj[m])
      BY <1>0, <2>1, <2>2 DEF Older, Deleting, SafeAt
    <2>4. pc[m] \in DeletionSteps
      BY <2>1 DEF DeletionSteps, Steps
    <2>5. SafeAt(m)'
      BY <1>0, <1>2, <2>1, <2>2, <2>3, <2>4 DEF SafeAt, Deleting
    <2>6. StepFrame(m) /\ EtcdKept'
      BY <1>0, <1>1, <1>4 DEF Observe, Steps
    <2>. QED  BY <2>5, <2>6, FrameSafe
  <1>5. CASE StampEtcd(m)
    <2>1. /\ pc'[m] = AfterEtcd(obj'[m]) /\ pc[m] = "stampEtcd"
          /\ api'[m] = [api[m] EXCEPT !.etcd = outcome[m]]
          /\ obj'[m] = [obj[m] EXCEPT !.etcd = outcome[m]]
          /\ UNCHANGED <<infra, members, wiped, gated, cluster>>
          /\ cache'[m] = cache[m] \/ cache'[m] = api'[m]
      BY <1>0, <1>5, FlowSteps DEF StampEtcd, Store, Goto, TypeOK
    <2>2. /\ api'[m].hook = api[m].hook
          /\ api'[m].del = api[m].del /\ api'[m].reason = api[m].reason
          /\ api'[m].other = api[m].other /\ api'[m].etcd = outcome[m]
          /\ api'[m].reset = api[m].reset
          /\ obj'[m].del = obj[m].del /\ obj'[m].reason = obj[m].reason
          /\ obj'[m].other = obj[m].other /\ obj'[m].etcd = outcome[m]
          /\ obj'[m].reset = obj[m].reset
      BY <1>0, <2>1 DEF Machine
    <2>3. /\ outcome[m] \in EtcdConclusions /\ outcome[m] # "none"
          /\ m \in members => outcome[m] \in {"orphaned", "skipped-cluster-delete"}
          /\ outcome[m] = "skipped-cluster-delete" => cluster
      BY <1>0, <2>1 DEF IInv, OutcomeFits, EtcdConclusions, SafeAt, Departed
    <2>4. /\ Older(api[m], api'[m]) /\ Older(obj'[m], api'[m])
          /\ Deleting(obj'[m]) => Deleting(obj[m])
      BY <1>0, <2>1, <2>2, <2>3 DEF Older, Deleting, SafeAt
    <2>5. /\ pc'[m] \in {"release", "reset"}
          /\ pc'[m] = "release" => obj'[m].reset # "none"
          /\ pc[m] \in DeletionSteps
      BY <2>1, FlowSteps DEF AfterEtcd, DeletionSteps, Steps
    <2>6. SafeAt(m)'
      BY <1>0, <1>2, <2>1, <2>2, <2>3, <2>4, <2>5 DEF SafeAt, Deleting
    <2>7. StepFrame(m) /\ EtcdKept'
      BY <1>0, <1>1, <1>5, FlowSteps DEF StampEtcd, Steps, ResetSteps, TypeOK
    <2>. QED  BY <2>6, <2>7, FrameSafe
  <1>6. CASE StampReset(m)
    <2>1. /\ pc'[m] = "release" /\ pc[m] = "stampReset"
          /\ api'[m] = [api[m] EXCEPT !.reset = outcome[m]]
          /\ obj'[m] = [obj[m] EXCEPT !.reset = outcome[m]]
          /\ UNCHANGED <<infra, members, wiped, gated, cluster>>
          /\ cache'[m] = cache[m] \/ cache'[m] = api'[m]
      BY <1>0, <1>6 DEF StampReset, Store, Goto, TypeOK
    <2>2. /\ api'[m].hook = api[m].hook
          /\ api'[m].del = api[m].del /\ api'[m].reason = api[m].reason
          /\ api'[m].other = api[m].other /\ api'[m].etcd = api[m].etcd
          /\ api'[m].reset = outcome[m]
          /\ obj'[m].del = obj[m].del /\ obj'[m].reason = obj[m].reason
          /\ obj'[m].other = obj[m].other /\ obj'[m].etcd = obj[m].etcd
          /\ obj'[m].reset = outcome[m]
      BY <1>0, <2>1 DEF Machine
    <2>3. outcome[m] # "none" /\ (outcome[m] = "done" => m \in wiped)
      BY <1>0, <2>1 DEF IInv, OutcomeFits, ResetConclusions, SafeAt
    <2>4. /\ Older(api[m], api'[m]) /\ Older(obj'[m], api'[m])
          /\ Deleting(obj'[m]) => Deleting(obj[m])
      BY <1>0, <2>1, <2>2, <2>3 DEF Older, Deleting, SafeAt
    <2>5. pc[m] \in DeletionSteps
      BY <2>1 DEF DeletionSteps, Steps
    <2>6. SafeAt(m)'
      BY <1>0, <1>2, <2>1, <2>2, <2>3, <2>4, <2>5 DEF SafeAt, Deleting
    <2>7. StepFrame(m) /\ EtcdKept'
      BY <1>0, <1>1, <1>6 DEF StampReset, Steps, TypeOK
    <2>. QED  BY <2>6, <2>7, FrameSafe
  <1>7. CASE Release(m)
    <2>1. /\ pc'[m] = "idle" /\ pc[m] = "release" /\ obj'[m] = NoMachine
          /\ api'[m] = [api[m] EXCEPT !.hook = FALSE, !.legacy = @ /\ ~obj[m].legacy]
          /\ UNCHANGED <<infra, members, wiped, gated, cluster>>
          /\ cache'[m] = cache[m] \/ cache'[m] = api'[m]
      BY <1>0, <1>7 DEF Release, Store, Goto, TypeOK
    <2>2. /\ api'[m].del = api[m].del /\ api'[m].reason = api[m].reason
          /\ api'[m].other = api[m].other /\ api'[m].etcd = api[m].etcd
          /\ api'[m].reset = api[m].reset
      BY <1>0, <2>1 DEF Machine
    <2>3. Older(api[m], api'[m]) /\ ~Deleting(obj'[m]) /\ api[m].reset # "none"
      BY <1>0, <2>1, <2>2 DEF Older, Deleting, SafeAt, NoMachine
    <2>4. SafeAt(m)'
      BY <1>0, <1>2, <2>1, <2>2, <2>3 DEF SafeAt, DeletionSteps
    <2>5. StepFrame(m) /\ EtcdKept'
      BY <1>0, <1>1, <1>7 DEF Release, Steps
    <2>. QED  BY <2>4, <2>5, FrameSafe
  <1>. QED  BY <1>3, <1>4, <1>5, <1>6, <1>7

(* A restart drops every in-memory object and reads everything anew. *)
LEMMA CrashSafe ==
    ASSUME IInv, Crash
    PROVE  IInv'
  <1>0. TypeOK /\ members \subseteq Machines /\ \A m \in Machines : SafeAt(m)
    BY SafeEverywhere, SubsetsAssumption DEF IInv, TypeOK, EnvTypeOK
  <1>1. TypeOK' /\ OutcomeFits'
    <2>1. faults' \in 0 .. MaxFaults
      BY <1>0, MaxFaultsAssumption DEF Crash, TypeOK, EnvTypeOK
    <2>2. NoMachine \in Machine
      BY DEF NoMachine, Machine, Reasons, Early, NotStarted, Ages, NotObserved
    <2>. QED  BY <1>0, <2>1, <2>2 DEF Crash, TypeOK, EnvTypeOK, OutcomeFits, Steps
  <1>2. ASSUME NEW m \in Machines PROVE SafeAt(m)'
    BY <1>0, OlderReflexive DEF Crash, SafeAt, NoMachine, Deleting, DeletionSteps
  <1>3. EtcdKept'
    BY <1>0 DEF IInv, Crash, EtcdKept, Going
  <1>4. clusterSeen' => cluster'
    BY DEF Crash
  <1>. QED
    BY <1>1, <1>2, <1>3, <1>4 DEF IInv, TypeOK, EnvTypeOK, ViewsOlder, StepFacts,
         ClusterFacts, GateFacts, ConclusionsTruthful, WipedMemberExcused, SafeAt, Departed

(* Time makes a recorded observation older, and changes nothing else. *)
LEMMA AgeByOneFacts ==
    ASSUME NEW o \in Machine
    PROVE  LET a == AgeByOne(o) IN
           /\ a.del = o.del /\ a.hook = o.hook /\ a.etcd = o.etcd /\ a.reset = o.reset
           /\ a.reason = o.reason /\ a.qual = o.qual /\ a.other = o.other
           /\ a.obs \in Int /\ o.obs \in Int
           /\ a.obs >= o.obs
           /\ o.obs = NotObserved => a.obs = NotObserved
           /\ a.obs = IF o.obs = NotObserved \/ o.obs = MaxAge THEN o.obs ELSE o.obs + 1
  <1>1. o.obs \in Int /\ NotObserved \in Int /\ MaxAge \in Int
    BY TimeoutAssumption DEF Machine, Ages, NotObserved, MaxAge
  <1>. QED  BY <1>1 DEF AgeByOne, Machine

(* The passage of time changes only ages, which the safety does not rest on. *)
LEMMA TickSafe ==
    ASSUME IInv, Tick
    PROVE  IInv'
  <1>0. TypeOK /\ \A m \in Machines : SafeAt(m)
    BY SafeEverywhere DEF IInv
  <1>1. TypeOK' /\ OutcomeFits'
    <2>1. \A m \in Machines : /\ AgeByOne(api[m]) \in Machine
                              /\ AgeByOne(cache[m]) \in Machine
                              /\ AgeByOne(obj[m]) \in Machine
      BY <1>0, FieldTypes DEF TypeOK, EnvTypeOK
    <2>. QED  BY <1>0, <2>1 DEF IInv, Tick, TypeOK, EnvTypeOK, OutcomeFits
  <1>2. ASSUME NEW m \in Machines PROVE SafeAt(m)'
    <2>1. api[m] \in Machine /\ cache[m] \in Machine /\ obj[m] \in Machine
      BY <1>0 DEF TypeOK, EnvTypeOK
    <2>2. /\ api'[m] = AgeByOne(api[m]) /\ cache'[m] = AgeByOne(cache[m])
          /\ obj'[m] = AgeByOne(obj[m])
          /\ UNCHANGED <<infra, members, wiped, cluster, pc, outcome, gated>>
      BY DEF Tick
    <2>. QED  BY <1>0, <2>1, <2>2, AgeByOneFacts DEF SafeAt, Older, Deleting
  <1>3. EtcdKept'
    BY DEF IInv, Tick, EtcdKept, Going
  <1>4. clusterSeen' => cluster'
    BY DEF IInv, ClusterFacts, Tick
  <1>. QED
    BY <1>1, <1>2, <1>3, <1>4 DEF IInv, TypeOK, EnvTypeOK, ViewsOlder, StepFacts,
         ClusterFacts, GateFacts, ConclusionsTruthful, WipedMemberExcused, SafeAt, Departed

(* A process starts in the invariant. *)
LEMMA InitSafe ==
    ASSUME Init
    PROVE  IInv
  <1>1. PICK hooked, leftover, foreign : api = HealthyFleet(hooked, leftover, foreign)
    BY DEF Init, EnvInit
  <1>2. NoMachine \in Machine /\ NoMachine.etcd = "none" /\ NoMachine.reset = "none"
    BY DEF NoMachine, Machine, Reasons, Early, NotStarted, Ages, NotObserved
  <1>3. ASSUME NEW m \in Machines
        PROVE  api[m] \in Machine /\ api[m].etcd = "none" /\ api[m].reset = "none"
    <2>1. api[m] = [NoMachine EXCEPT !.qual = m \in Managed, !.hook = m \in hooked,
                                     !.legacy = m \in leftover, !.other = m \in foreign]
      BY <1>1, Zenon DEF HealthyFleet
    <2>2. /\ (m \in Managed) \in BOOLEAN /\ (m \in hooked) \in BOOLEAN
          /\ (m \in leftover) \in BOOLEAN /\ (m \in foreign) \in BOOLEAN
      OBVIOUS
    <2>3. PICK q \in BOOLEAN, h \in BOOLEAN, l \in BOOLEAN, f \in BOOLEAN :
            api[m] = [NoMachine EXCEPT !.qual = q, !.hook = h, !.legacy = l, !.other = f]
      BY <2>1, <2>2, Zenon
    <2>. QED  BY <1>2, <2>3 DEF Machine
  <1>4. api \in [Machines -> Machine] /\ cache = api
    <2>1. api = [m \in Machines |-> api[m]]
      BY <1>1, Zenon DEF HealthyFleet
    <2>. QED  BY <1>3, <2>1 DEF Init, EnvInit
  <1>5. TypeOK /\ OutcomeFits
    <2>1. NoMachine \in Machine
      BY DEF NoMachine, Machine, Reasons, Early, NotStarted, Ages, NotObserved
    <2>2. second \in Nat /\ faults \in 0 .. MaxFaults
      BY MaxFaultsAssumption DEF Init, EnvInit
    <2>3. EnvTypeOK
      BY <1>4, <2>2 DEF Init, EnvInit, EnvTypeOK
    <2>. QED  BY <2>1, <2>3 DEF Init, TypeOK, OutcomeFits, Steps
  <1>6. ASSUME NEW m \in Machines PROVE SafeAt(m)
    <2>1. /\ pc[m] = "idle" /\ obj[m] = NoMachine /\ infra[m] = "present" /\ wiped = {}
          /\ m \in gated => HasHook(api[m])
      BY DEF Init, EnvInit
    <2>2. ~Deleting(obj[m])
      BY <2>1 DEF NoMachine, Deleting
    <2>. QED
      BY <1>3, <1>4, <2>1, <2>2, OlderReflexive DEF SafeAt, DeletionSteps, HasHook, Departed
  <1>7. EtcdKept
    BY ControlPlaneAssumption, SubsetsAssumption DEF Init, EnvInit, EtcdKept, Going
  <1>8. clusterSeen => cluster
    BY DEF Init, EnvInit
  <1>. QED  BY <1>5, <1>6, <1>7, <1>8, SafeEverywhere DEF IInv

(* The invariant is inductive. *)
LEMMA NextSafe ==
    ASSUME IInv, [Next]_vars
    PROVE  IInv'
  <1>1. CASE EnvNext /\ UNCHANGED ctlVars
    BY <1>1, EnvSafe
  <1>2. ASSUME NEW m \in Machines, Reconcile(m) \/ Step(m) \/ Abort(m) PROVE IInv'
    <2>1. TypeOK' /\ OutcomeFits'
      BY <1>2, StepType DEF IInv
    <2>. QED  BY <1>2, <2>1, ReadSafe, RpcSafe, PatchSafe DEF Step
  <1>3. CASE Crash
    BY <1>3, CrashSafe
  <1>4. CASE Tick
    BY <1>4, TickSafe
  <1>5. CASE UNCHANGED vars
    BY <1>5 DEF vars, envVars, ctlVars, IInv, TypeOK, EnvTypeOK, OutcomeFits, ViewsOlder,
         StepFacts, ClusterFacts, GateFacts, ConclusionsTruthful, WipedMemberExcused,
         EtcdKept, Going
  <1>. QED  BY <1>1, <1>2, <1>3, <1>4, <1>5 DEF Next

(* The inductive invariant holds in every behaviour of the controller. *)
THEOREM Invariance == Spec => []IInv
  <1>1. Init => IInv
    BY InitSafe
  <1>2. IInv /\ [Next]_vars => IInv'
    BY NextSafe
  <1>. QED  BY <1>1, <1>2, PTL DEF Spec

(* Every variable keeps its type, and every stamped conclusion is one of    *)
(* the values of its annotation.                                            *)
THEOREM TypeCorrectness == Spec => []TypeOK
  <1>1. IInv => TypeOK
    BY DEF IInv
  <1>. QED  BY <1>1, Invariance, PTL

(* Power goes only after the reset phase is concluded and recorded, for     *)
(* every Machine that reconcileDeleting and release took through the gate.  *)
THEOREM PowerOffSafety == Spec => []PowerOffAfterTeardown
  <1>1. IInv => PowerOffAfterTeardown
    BY DEF IInv, GateFacts, PowerOffAfterTeardown
  <1>. QED  BY <1>1, Invariance, PTL

(* tryReset wipes a live etcd member only when etcdPhase gave its           *)
(* membership up, after the deadline or with the Cluster.                   *)
THEOREM WipeSafety == Spec => []WipedMemberExcused
  <1>1. IInv => WipedMemberExcused
    BY DEF IInv
  <1>. QED  BY <1>1, Invariance, PTL

(* What stampPhase records of etcd and of the reset is true of the node.    *)
THEOREM RecordsTruth == Spec => []ConclusionsTruthful
  <1>1. IInv => ConclusionsTruthful
    BY DEF IInv
  <1>. QED  BY <1>1, Invariance, PTL

(* However many reconciles remove members at once, with however old a view  *)
(* of their peers, tryEtcdRemoval never empties the etcd cluster.           *)
THEOREM EtcdSafety == Spec => []EtcdSurvives
  <1>1. IInv => EtcdSurvives
    BY DEF IInv, EtcdKept, Going, EtcdSurvives
  <1>. QED  BY <1>1, Invariance, PTL

(* reconcileDeleting calls no node before its drain is over and the other   *)
(* pre-terminate hooks are gone, whatever it read of them and when.         *)
THEOREM RunsLastSafety == Spec => []RunsLast
  <1>1. IInv => RunsLast
    <2>. SUFFICES ASSUME IInv, NEW m \in Machines, pc[m] \in EtcdSteps \union ResetSteps
                  PROVE  api[m].reason \notin Early /\ ~api[m].other
      BY DEF RunsLast
    <2>1. pc[m] \in DeletionSteps /\ pc[m] # "idle"
      BY DEF DeletionSteps, Steps, EtcdSteps, ResetSteps
    <2>2. Older(obj[m], api[m]) /\ obj[m].reason = PreTerminate /\ ~obj[m].other
      BY <2>1 DEF IInv, ViewsOlder, StepFacts
    <2>3. PreTerminate \notin Early
      BY DEF Early, NotStarted, Draining, PreTerminate
    <2>. QED  BY <2>2, <2>3 DEF Older
  <1>. QED  BY <1>1, Invariance, PTL
=============================================================================
