-------------------------- MODULE FreshCacheProofs --------------------------
(***************************************************************************)
(* What the reconciler promises as long as its informer keeps up: phases   *)
(* are not replayed, a release is final, deadlines run from the first      *)
(* observation, and the etcd removals go one after the other.  Every       *)
(* theorem names the hazards of the environment it has to exclude.         *)
(***************************************************************************)
EXTENDS TeardownProofs

(* The annotations are left to the controllers. *)
Unedited == "edit" \notin Env

(* Machines are hooked before they are deleted, one deletion per second. *)
Orderly == "lateStamp" \notin Env /\ "sameSecond" \notin Env

(***************************************************************************)
(* A reconcile knows the hook and the phases as they are recorded, and is  *)
(* in a phase only while that is open.                                     *)
(***************************************************************************)
FreshAt(m) ==
    /\ cache[m] = api[m]
    /\ pc[m] # "idle" => /\ obj[m].hook = api[m].hook
                         /\ obj[m].etcd = api[m].etcd
                         /\ obj[m].reset = api[m].reset
    /\ pc[m] \in EtcdSteps \union {"serialize", "stampEtcd"} => api[m].etcd = "none"
    /\ pc[m] \in ResetSteps \union {"stamp", "stampReset"} => api[m].reset = "none"
    /\ api[m].reset # "none" => Deleting(api[m])

(* It knows the age of the observation, and gives up only past a deadline. *)
ClockAt(m) ==
    /\ pc[m] # "idle" => obj[m].obs = api[m].obs
    /\ pc[m] = "observe" => api[m].obs = NotObserved
    /\ pc[m] = "stampEtcd" /\ outcome[m] = "orphaned" => api[m].obs > EtcdTimeout
    /\ pc[m] = "stampReset" /\ outcome[m] = "skipped-timeout" => api[m].obs > ResetTimeout
    /\ api[m].etcd = "orphaned" => api[m].obs > EtcdTimeout
    /\ api[m].reset = "skipped-timeout" => api[m].obs > ResetTimeout

(* Another hooked Machine comes before m in deletion order, by the API server. *)
Before(p, m) ==
    /\ p # m
    /\ Deleting(api[p]) /\ HasHook(api[p])
    /\ \/ api[p].del < api[m].del
       \/ api[p].del = api[m].del /\ p < m

(* A deleting Machine is hooked until it is released, and only the first of *)
(* the hooked ones in deletion order is in its etcd removal.                *)
OrderAt(m) ==
    /\ pc[m] \in DeletionSteps \union {"creds"} => obj[m].hook
    /\ pc[m] = "stamp" => ~obj[m].hook
    /\ pc[m] # "idle" /\ Deleting(obj[m]) => obj[m].del = api[m].del
    /\ api[m].del <= second
    /\ Deleting(api[m]) => api[m].hook \/ api[m].reset # "none"
    /\ pc[m] \in EtcdSteps \union {"serialize"} => m \in ControlPlane

FirstInOrder ==
    \A m \in Machines : pc[m] \in EtcdSteps => \A p \in ControlPlane : ~Before(p, m)

(* The inductive invariant of a controller whose cache does not lag. *)
FreshInv ==
    /\ IInv
    /\ \A m \in Machines : FreshAt(m)
    /\ Unedited => \A m \in Machines : ClockAt(m)
    /\ Orderly => (\A m \in Machines : OrderAt(m)) /\ FirstInOrder

-----------------------------------------------------------------------------
(* The environment. *)

(* What a step of the environment may do to a Machine's deletion time. *)
DeletionEffect(m) ==
    \/ api'[m].del = api[m].del
    \/ /\ ~Deleting(api[m])
       /\ HasHook(api[m]) \/ "lateStamp" \in Env
       /\ api'[m].del = second'
       /\ "sameSecond" \in Env \/ second < second'

FreshEnvEffect ==
    /\ cache' = api'
    /\ second <= second'
    /\ \A m \in Machines :
        /\ DeletionEffect(m)
        /\ Unedited => api'[m].obs = api[m].obs

(* Every step of the environment has at most that effect. *)
LEMMA FreshEnvEffects ==
    ASSUME ~Stale, TypeOK, cache = api, EnvNext
    PROVE  FreshEnvEffect
  <1>. USE DEF FreshEnvEffect, DeletionEffect, TypeOK, EnvTypeOK
  <1>1. CASE SyncMachines
    BY <1>1 DEF SyncMachines
  <1>2. CASE SyncCluster
    BY <1>2 DEF SyncCluster
  <1>3. CASE DeleteCluster
    BY <1>3 DEF DeleteCluster
  <1>4. CASE SecretCollected
    BY <1>4 DEF SecretCollected
  <1>5. ASSUME NEW m \in Machines, DeleteMachine(m) PROVE FreshEnvEffect
    <2>1. second' \in Nat /\ second <= second' /\ ("sameSecond" \in Env \/ second < second')
      BY <1>5 DEF DeleteMachine, NextSeconds
    <2>. QED  BY <1>5, <2>1 DEF DeleteMachine, Store, Machine
  <1>6. ASSUME NEW m \in Machines, CapiNext(m) PROVE FreshEnvEffect
    <2>1. CASE CapiStart(m)
      BY <2>1 DEF CapiStart, Store, Machine
    <2>2. CASE CapiPark(m)
      BY <2>2 DEF CapiPark, Store, Machine
    <2>3. CASE CapiPassGate(m)
      BY <2>3 DEF CapiPassGate
    <2>4. CASE CapiPublish(m)
      BY <2>4 DEF CapiPublish, Store, Machine
    <2>5. CASE PowerOff(m)
      BY <2>5 DEF PowerOff
    <2>. QED  BY <1>6, <2>1, <2>2, <2>3, <2>4, <2>5 DEF CapiNext
  <1>7. ASSUME NEW m \in Machines, RemoveOtherHook(m) PROVE FreshEnvEffect
    BY <1>7 DEF RemoveOtherHook, Store, Machine
  <1>8. ASSUME NEW m \in Machines, ScaleDown(m) PROVE FreshEnvEffect
    BY <1>8 DEF ScaleDown, Store, Machine
  <1>9. ASSUME NEW m \in Machines, EditObservedAt(m) PROVE FreshEnvEffect
    BY <1>9 DEF EditObservedAt, Store, Machine, Unedited
  <1>10. ASSUME NEW m \in Machines, BreakQualification(m) PROVE FreshEnvEffect
    BY <1>10 DEF BreakQualification, Store, Machine
  <1>. QED
    BY <1>1, <1>2, <1>3, <1>4, <1>5, <1>6, <1>7, <1>8, <1>9, <1>10 DEF EnvNext

(* A Machine in a removal is being deleted, and was so when it was read. *)
LEMMA RemovalIsDeleting ==
    ASSUME IInv, NEW m \in Machines, pc[m] \in DeletionSteps
    PROVE  Deleting(obj[m]) /\ Deleting(api[m]) /\ pc[m] # "idle"
  BY DEF IInv, StepFacts, ViewsOlder, Older, DeletionSteps

(* The environment preserves the invariant. *)
LEMMA FreshEnv ==
    ASSUME ~Stale, FreshInv, EnvNext, UNCHANGED ctlVars
    PROVE  FreshInv'
  <1>0. TypeOK /\ cache = api /\ IInv'
    <2>1. TypeOK /\ \A m \in Machines : cache[m] = api[m]
      BY DEF FreshInv, IInv, FreshAt
    <2>2. cache = api
      BY <2>1 DEF TypeOK, EnvTypeOK
    <2>. QED  BY <2>1, <2>2, EnvSafe DEF FreshInv
  <1>1. FreshEnvEffect /\ EnvEffect
    BY <1>0, FreshEnvEffects, EnvEffects
  <1>2. UNCHANGED <<pc, obj, outcome>>
    BY DEF ctlVars
  <1>3. ASSUME NEW m \in Machines
        PROVE  /\ api[m].del \in Nat /\ api'[m].del \in Nat /\ obj[m].del \in Nat
               /\ second \in Nat /\ second' \in Nat
    <2>1. TypeOK'
      BY <1>0 DEF IInv
    <2>. QED  BY <1>0, <2>1 DEF TypeOK, EnvTypeOK, Machine
  <1>4. ASSUME NEW m \in Machines PROVE FreshAt(m)'
    BY <1>1, <1>2 DEF FreshInv, FreshAt, FreshEnvEffect, EnvEffect, Older
  <1>5. ASSUME Unedited, NEW m \in Machines PROVE ClockAt(m)'
    BY <1>1, <1>2, <1>5 DEF FreshInv, ClockAt, FreshEnvEffect, EnvEffect
  <1>6. ASSUME Orderly, NEW m \in Machines PROVE OrderAt(m)'
    <2>1. OrderAt(m) /\ DeletionEffect(m) /\ second <= second'
      BY <1>1, <1>6 DEF FreshInv, FreshEnvEffect
    <2>2. api'[m].hook = api[m].hook /\ api'[m].reset = api[m].reset
      BY <1>1 DEF EnvEffect
    <2>3. pc[m] # "idle" /\ Deleting(obj[m]) => obj[m].del = api'[m].del
      BY <1>3, <2>1 DEF OrderAt, DeletionEffect, Deleting
    <2>4. api'[m].del <= second'
      BY <1>3, <2>1 DEF OrderAt, DeletionEffect
    <2>5. Deleting(api'[m]) => api'[m].hook \/ api'[m].reset # "none"
      BY <1>3, <1>6, <2>1, <2>2 DEF OrderAt, DeletionEffect, Deleting, Orderly, HasHook
    <2>. QED  BY <1>2, <2>1, <2>3, <2>4, <2>5 DEF OrderAt
  <1>7. ASSUME Orderly PROVE FirstInOrder'
    <2>. SUFFICES ASSUME NEW m \in Machines, pc[m] \in EtcdSteps,
                         NEW p \in ControlPlane, Before(p, m)'
                  PROVE  FALSE
      BY <1>2 DEF FirstInOrder
    <2>0. p \in Machines
      BY SubsetsAssumption
    <2>1. ~Before(p, m)
      BY <1>7 DEF FreshInv, FirstInOrder
    <2>2. api'[m].del = api[m].del
      <3>1. Deleting(api[m])
        BY RemovalIsDeleting DEF FreshInv, DeletionSteps, Steps, EtcdSteps
      <3>. QED  BY <1>1, <3>1 DEF FreshEnvEffect, DeletionEffect
    <2>3. api[m].del <= second
      BY <1>7 DEF FreshInv, OrderAt
    <2>4. HasHook(api[p]) = HasHook(api'[p])
      BY <1>1, <2>0 DEF EnvEffect, HasHook
    <2>5. DeletionEffect(p)
      BY <1>1, <2>0 DEF FreshEnvEffect
    <2>. QED
      BY <1>3, <1>7, <2>0, <2>1, <2>2, <2>3, <2>4, <2>5
        DEF Before, DeletionEffect, Deleting, Orderly
  <1>. QED  BY <1>0, <1>4, <1>5, <1>6, <1>7 DEF FreshInv
-----------------------------------------------------------------------------
(* The calls of a reconcile. *)

(* The invariant, one Machine at a time. *)
FreshFor(m) ==
    /\ FreshAt(m)
    /\ Unedited => ClockAt(m)
    /\ Orderly => OrderAt(m)

(* A call of the reconcile of m leaves the other Machines alone. *)
OthersKept(m) ==
    /\ \A n \in Machines \ {m} : /\ api'[n] = api[n] /\ pc'[n] = pc[n]
                                   /\ obj'[n] = obj[n] /\ outcome'[n] = outcome[n]
    /\ cache' = api'
    /\ second' = second

(* So only m itself is left to look at, and the order of the removals. *)
LEMMA FreshFrame ==
    ASSUME FreshInv, IInv', NEW m \in Machines, OthersKept(m), FreshFor(m)',
           Orderly => FirstInOrder'
    PROVE  FreshInv'
  <1>1. ASSUME NEW n \in Machines, n # m PROVE FreshFor(n)'
    <2>1. /\ api'[n] = api[n] /\ pc'[n] = pc[n] /\ obj'[n] = obj[n]
          /\ outcome'[n] = outcome[n] /\ second' = second /\ cache'[n] = api[n]
      BY <1>1 DEF OthersKept
    <2>2. FreshAt(n) /\ (Unedited => ClockAt(n)) /\ (Orderly => OrderAt(n))
      BY DEF FreshInv
    <2>3. FreshAt(n)'
      BY <2>1, <2>2 DEF FreshAt
    <2>4. Unedited => ClockAt(n)'
      BY <2>1, <2>2 DEF ClockAt
    <2>5. Orderly => OrderAt(n)'
      BY <2>1, <2>2 DEF OrderAt
    <2>. QED  BY <2>3, <2>4, <2>5 DEF FreshFor, Unedited, Orderly
  <1>2. \A n \in Machines : FreshFor(n)'
    BY <1>1
  <1>. QED  BY <1>2 DEF FreshInv, FreshFor, Unedited, Orderly

(* A call that starts no removal, and hooks no Machine that is being        *)
(* deleted, keeps their order.                                              *)
LEMMA OrderKept ==
    ASSUME FreshInv, Orderly, NEW m \in Machines, OthersKept(m),
           api'[m].del = api[m].del,
           Deleting(api[m]) /\ HasHook(api'[m]) => HasHook(api[m]),
           pc'[m] \in EtcdSteps => pc[m] \in EtcdSteps
    PROVE  FirstInOrder'
  <1>1. ASSUME NEW n \in Machines
        PROVE  /\ api'[n].del = api[n].del
               /\ Deleting(api'[n]) /\ HasHook(api'[n]) => Deleting(api[n]) /\ HasHook(api[n])
    BY DEF OthersKept, Deleting
  <1>2. ASSUME NEW n \in Machines, NEW p \in Machines, Before(p, n)' PROVE Before(p, n)
    BY <1>1, <1>2 DEF Before
  <1>3. \A n \in Machines : pc'[n] \in EtcdSteps => pc[n] \in EtcdSteps
    BY DEF OthersKept
  <1>. QED  BY <1>2, <1>3, SubsetsAssumption DEF FreshInv, FirstInOrder

(* A call that stores nothing: what the reconcile knows must fit its next   *)
(* call.                                                                    *)
Fits(m, step, o, value) ==
    /\ step # "idle" => /\ o.hook = api[m].hook
                        /\ o.etcd = api[m].etcd
                        /\ o.reset = api[m].reset
    /\ step \in EtcdSteps \union {"serialize", "stampEtcd"} => o.etcd = "none"
    /\ step \in ResetSteps \union {"stamp", "stampReset"} => o.reset = "none"
    /\ Unedited =>
        /\ step # "idle" => o.obs = api[m].obs
        /\ step = "observe" => o.obs = NotObserved
        /\ step = "stampEtcd" /\ value = "orphaned" => o.obs > EtcdTimeout
        /\ step = "stampReset" /\ value = "skipped-timeout" => o.obs > ResetTimeout
    /\ Orderly =>
        /\ step \in DeletionSteps \union {"creds"} => o.hook
        /\ step = "stamp" => ~o.hook
        /\ step # "idle" /\ Deleting(o) => o.del = api[m].del
        /\ step \in EtcdSteps \union {"serialize"} => m \in ControlPlane

(* Then the invariant holds of it. *)
LEMMA FitsFresh ==
    ASSUME FreshInv, NEW m \in Machines, api' = api, cache' = cache, second' = second,
           Fits(m, pc'[m], obj'[m], outcome'[m])
    PROVE  FreshFor(m)'
  <1>1. FreshAt(m) /\ (Unedited => ClockAt(m)) /\ (Orderly => OrderAt(m))
    BY DEF FreshInv
  <1>2. FreshAt(m)'
    BY <1>1 DEF FreshAt, Fits, EtcdSteps, ResetSteps
  <1>3. Unedited => ClockAt(m)'
    BY <1>1 DEF ClockAt, Fits
  <1>4. Orderly => OrderAt(m)'
    BY <1>1 DEF OrderAt, Fits, EtcdSteps
  <1>. QED  BY <1>2, <1>3, <1>4 DEF FreshFor, Unedited, Orderly

(* And a running reconcile fits its own step. *)
LEMMA RunningFits ==
    ASSUME FreshInv, NEW m \in Machines
    PROVE  Fits(m, pc[m], obj[m], outcome[m])
  <1>1. FreshAt(m) /\ (Unedited => ClockAt(m)) /\ (Orderly => OrderAt(m))
    BY DEF FreshInv
  <1>. QED  BY <1>1 DEF Fits, FreshAt, ClockAt, OrderAt, DeletionSteps, EtcdSteps, ResetSteps
(* The calls that only read Machines, or end the reconcile. *)
LEMMA FreshRead ==
    ASSUME ~Stale, FreshInv, IInv', NEW m \in Machines,
           \/ Reconcile(m) \/ EnsureCredentials(m) \/ ReadCluster(m)
           \/ SerializeControlPlane(m) \/ Abort(m)
    PROVE  FreshInv'
  <1>0. TypeOK /\ cache = api
    BY DEF FreshInv, IInv, FreshAt, TypeOK, EnvTypeOK
  <1>1. FreshAt(m) /\ (Unedited => ClockAt(m)) /\ (Orderly => OrderAt(m))
    BY DEF FreshInv
  <1>2. UNCHANGED <<api, cache, second>> /\ OthersKept(m)
    <2>. USE <1>0 DEF OthersKept, Goto, Conclude, Requeue, Resume, TypeOK, envVars
    <2>1. CASE Reconcile(m)
      BY <2>1 DEF Reconcile
    <2>2. CASE EnsureCredentials(m)
      BY <2>2 DEF EnsureCredentials
    <2>3. CASE ReadCluster(m)
      BY <2>3 DEF ReadCluster
    <2>4. CASE SerializeControlPlane(m)
      BY <2>4 DEF SerializeControlPlane
    <2>5. CASE Abort(m)
      BY <2>5 DEF Abort
    <2>. QED  BY <2>1, <2>2, <2>3, <2>4, <2>5
  <1>3. ASSUME Fits(m, pc'[m], obj'[m], outcome'[m]),
               pc'[m] \in EtcdSteps => pc[m] \in EtcdSteps
        PROVE  FreshInv'
    BY <1>2, <1>3, FitsFresh, FreshFrame, OrderKept
  <1>4. Fits(m, pc[m], obj[m], outcome[m])
    BY RunningFits
  <1>5. ASSUME pc'[m] = "idle" PROVE Fits(m, pc'[m], obj'[m], outcome'[m])
    BY <1>5 DEF Fits, EtcdSteps, ResetSteps, DeletionSteps
  <1>6. CASE Reconcile(m)
    <2>. DEFINE o == cache[m]
    <2>. DEFINE step == IF ~Admitted(o) THEN "idle"
                        ELSE IF Deleting(o) THEN ReconcileDeleting(o)
                        ELSE ReconcileNormal(o)
    <2>1. /\ step \in {"idle", "requeue", "observe", "cluster", "stamp", "creds"}
          /\ pc'[m] = IF step = "requeue" THEN "idle" ELSE step
          /\ pc'[m] # "idle" => obj'[m] = api[m]
      BY <1>0, <1>6, FlowSteps DEF Reconcile, Resume, Goto, TypeOK
    <2>2. step = "stamp" => ~o.hook /\ o.reset = "none"
      BY <1>0, <1>1 DEF ReconcileDeleting, ReconcileNormal, AfterHook, HasHook, FreshAt
    <2>3. /\ step \in {"observe", "cluster", "creds"} => o.hook
          /\ step = "observe" => o.obs = NotObserved
      BY DEF ReconcileDeleting, ReconcileNormal, AfterHook, HasHook
    <2>4. Fits(m, pc'[m], obj'[m], outcome'[m])
      BY <1>0, <2>1, <2>2, <2>3
        DEF Fits, EtcdSteps, ResetSteps, DeletionSteps, Steps
    <2>. QED  BY <1>3, <2>1, <2>4 DEF EtcdSteps
  <1>7. CASE EnsureCredentials(m)
    <2>. DEFINE step == IF Deleting(obj[m]) THEN AfterHook(obj[m]) ELSE "idle"
    <2>1. /\ step \in {"idle", "requeue", "observe", "cluster"}
          /\ pc'[m] = IF step = "requeue" THEN "idle" ELSE step
          /\ pc'[m] # "idle" => obj'[m] = obj[m]
          /\ pc[m] = "creds"
      BY <1>0, <1>7, FlowSteps DEF EnsureCredentials, Resume, Goto, TypeOK
    <2>2. step = "observe" => obj[m].obs = NotObserved
      BY DEF AfterHook
    <2>3. Fits(m, pc'[m], obj'[m], outcome'[m])
      BY <1>4, <2>1, <2>2 DEF Fits, EtcdSteps, ResetSteps, DeletionSteps, Steps
    <2>. QED  BY <1>3, <2>1, <2>3 DEF EtcdSteps
  <1>8. CASE ReadCluster(m)
    <2>1. pc[m] = "cluster" /\ obj'[m] = obj[m] /\ pc'[m] # "idle"
      BY <1>0, <1>8, FlowSteps DEF ReadCluster, Conclude, Goto, TypeOK
    <2>2. \/ pc'[m] \in {"reset", "release"} /\ pc'[m] = AfterEtcd(obj[m])
          \/ /\ pc'[m] = "stampEtcd" /\ outcome'[m] = "skipped-cluster-delete"
             /\ obj[m].etcd = "none"
          \/ pc'[m] = "serialize" /\ obj[m].etcd = "none" /\ m \in ControlPlane
      BY <1>0, <1>8, FlowSteps DEF ReadCluster, Conclude, Goto, TypeOK
    <2>3. Fits(m, pc'[m], obj'[m], outcome'[m])
      BY <1>4, <2>1, <2>2
        DEF Fits, EtcdSteps, ResetSteps, DeletionSteps, Steps, AfterEtcd
    <2>. QED  BY <1>3, <2>2, <2>3 DEF EtcdSteps
  <1>9. CASE SerializeControlPlane(m) /\ pc'[m] = "idle"
    BY <1>3, <1>5, <1>9 DEF EtcdSteps
  <1>10. CASE SerializeControlPlane(m) /\ pc'[m] # "idle"
    <2>1. /\ pc[m] = "serialize" /\ pc'[m] = "findPeer" /\ obj'[m] = obj[m]
          /\ outcome' = outcome
          /\ \A p \in ControlPlane : ~Ahead(p, m)
      BY <1>0, <1>10 DEF SerializeControlPlane, Requeue, Goto, TypeOK
    <2>2. Fits(m, pc'[m], obj'[m], outcome'[m])
      BY <1>4, <2>1 DEF Fits, EtcdSteps, ResetSteps, DeletionSteps, Steps
    <2>3. ASSUME Orderly PROVE FirstInOrder'
      <3>1. obj[m].del = api[m].del
        <4>1. Deleting(obj[m]) /\ pc[m] # "idle"
          BY <2>1, RemovalIsDeleting DEF FreshInv, DeletionSteps, Steps
        <4>. QED  BY <1>1, <2>3, <4>1 DEF OrderAt
      <3>2. \A p \in ControlPlane : ~Before(p, m)
        BY <1>0, <2>1, <3>1 DEF Ahead, Before
      <3>3. \A n \in Machines \ {m} : pc'[n] = pc[n]
        BY <1>2 DEF OthersKept
      <3>4. FirstInOrder
        BY <2>3 DEF FreshInv
      <3>. QED  BY <1>2, <3>2, <3>3, <3>4 DEF FirstInOrder, Before
    <2>. QED  BY <1>2, <2>2, <2>3, FitsFresh, FreshFrame
  <1>11. CASE Abort(m)
    <2>1. pc'[m] = "idle"
      BY <1>0, <1>11 DEF Abort, Requeue, Goto, TypeOK
    <2>. QED  BY <1>3, <1>5, <2>1 DEF EtcdSteps
  <1>. QED  BY <1>6, <1>7, <1>8, <1>9, <1>10, <1>11

(* The calls to Talos nodes. *)
LEMMA FreshRpc ==
    ASSUME ~Stale, FreshInv, IInv', NEW m \in Machines,
           \/ FindPeer(m) \/ ProbePeer(m) \/ LeaveViaVictim(m) \/ RemoveViaPeer(m)
           \/ TryReset(m)
    PROVE  FreshInv'
  <1>0. TypeOK /\ cache = api
    BY DEF FreshInv, IInv, FreshAt, TypeOK, EnvTypeOK
  <1>1. Fits(m, pc[m], obj[m], outcome[m])
    BY RunningFits
  (* An attempt goes on, ends its phase, or is given up past the deadline.  *)
  <1>2. /\ UNCHANGED <<api, cache, second>>
        /\ \A n \in Machines \ {m} :
              pc'[n] = pc[n] /\ obj'[n] = obj[n] /\ outcome'[n] = outcome[n]
        /\ \/ pc'[m] = "idle"
           \/ /\ obj'[m] = obj[m]
              /\ \/ pc[m] \in EtcdSteps /\ pc'[m] \in EtcdSteps
                 \/ /\ pc[m] \in EtcdSteps /\ pc'[m] = "stampEtcd"
                    /\ outcome'[m] = "orphaned" => Expired(obj[m], EtcdTimeout)
                 \/ /\ pc[m] = "reset" /\ pc'[m] = "stampReset"
                    /\ outcome'[m] = "skipped-timeout" => Expired(obj[m], ResetTimeout)
    <2>. USE <1>0 DEF TypeOK, Goto, Ask, Conclude, Requeue, EtcdSteps
    <2>1. CASE FindPeer(m)
      BY <2>1 DEF FindPeer, EtcdAttemptFailed
    <2>5. CASE ProbePeer(m)
      BY <2>5 DEF ProbePeer, EtcdAttemptFailed
    <2>2. CASE LeaveViaVictim(m)
      BY <2>2 DEF LeaveViaVictim
    <2>3. CASE RemoveViaPeer(m)
      BY <2>3 DEF RemoveViaPeer, EtcdAttemptFailed
    <2>4. CASE TryReset(m)
      BY <2>4 DEF TryReset, ResetAttemptFailed
    <2>. QED  BY <2>1, <2>2, <2>3, <2>4, <2>5
  <1>3. OthersKept(m)
    BY <1>0, <1>2 DEF OthersKept
  <1>4. Fits(m, pc'[m], obj'[m], outcome'[m])
    BY <1>1, <1>2 DEF Fits, EtcdSteps, ResetSteps, DeletionSteps, Steps, Expired
  <1>5. pc'[m] \in EtcdSteps => pc[m] \in EtcdSteps
    BY <1>2 DEF EtcdSteps
  <1>. QED  BY <1>2, <1>3, <1>4, <1>5, FitsFresh, FreshFrame, OrderKept
(* The patches. *)
LEMMA FreshPatch ==
    ASSUME ~Stale, FreshInv, IInv', NEW m \in Machines,
           \/ Stamp(m) \/ Observe(m) \/ StampEtcd(m) \/ StampReset(m) \/ Release(m)
    PROVE  FreshInv'
  <1>0. /\ TypeOK /\ cache = api
        /\ api \in [Machines -> Machine] /\ api[m] \in Machine /\ obj[m] \in Machine
        /\ NotObserved \notin Nat /\ EtcdTimeout \in Nat /\ ResetTimeout \in Nat
    BY TimeoutAssumption DEF FreshInv, IInv, FreshAt, TypeOK, EnvTypeOK, NotObserved
  <1>1. FreshAt(m) /\ (Unedited => ClockAt(m)) /\ (Orderly => OrderAt(m))
    BY DEF FreshInv
  <1>2. OthersKept(m)
    <2>. USE <1>0 DEF Store, Goto, OthersKept, TypeOK
    <2>1. CASE Stamp(m)
      BY <2>1 DEF Stamp
    <2>2. CASE Observe(m)
      BY <2>2 DEF Observe
    <2>3. CASE StampEtcd(m)
      BY <2>3 DEF StampEtcd
    <2>4. CASE StampReset(m)
      BY <2>4 DEF StampReset
    <2>5. CASE Release(m)
      BY <2>5 DEF Release
    <2>. QED  BY <2>1, <2>2, <2>3, <2>4, <2>5
  <1>3. ASSUME FreshFor(m)', api'[m].del = api[m].del,
               Orderly /\ Deleting(api[m]) /\ HasHook(api'[m]) => HasHook(api[m]),
               pc'[m] \notin EtcdSteps
        PROVE  FreshInv'
    BY <1>2, <1>3, FreshFrame, OrderKept
  <1>4. CASE Stamp(m)
    <2>1. /\ pc[m] = "stamp" /\ pc'[m] = "creds"
          /\ api'[m] = [api[m] EXCEPT !.hook = TRUE, !.legacy = @ /\ ~obj[m].legacy]
          /\ obj'[m] = [obj[m] EXCEPT !.hook = TRUE, !.legacy = @ /\ ~obj[m].legacy]
          /\ cache'[m] = api'[m] /\ second' = second
      BY <1>0, <1>4 DEF Stamp, Store, Goto, TypeOK
    <2>2. /\ api'[m].hook = TRUE /\ api'[m].del = api[m].del /\ api'[m].obs = api[m].obs
          /\ api'[m].etcd = api[m].etcd /\ api'[m].reset = api[m].reset
          /\ obj'[m].hook = TRUE /\ obj'[m].del = obj[m].del /\ obj'[m].obs = obj[m].obs
          /\ obj'[m].etcd = obj[m].etcd /\ obj'[m].reset = obj[m].reset
      BY <1>0, <2>1 DEF Machine
    <2>3. FreshAt(m)'
      BY <1>1, <2>1, <2>2 DEF FreshAt, EtcdSteps, ResetSteps, Deleting
    <2>4. Unedited => ClockAt(m)'
      BY <1>1, <2>1, <2>2 DEF ClockAt
    <2>5. Orderly => OrderAt(m)' /\ ~Deleting(api[m])
      BY <1>1, <2>1, <2>2 DEF OrderAt, FreshAt, EtcdSteps, Deleting
    <2>. QED
      BY <1>3, <2>1, <2>2, <2>3, <2>4, <2>5 DEF FreshFor, Unedited, Orderly, EtcdSteps
  <1>5. CASE Observe(m)
    <2>1. /\ pc[m] = "observe" /\ pc'[m] = "cluster"
          /\ api'[m] = [api[m] EXCEPT !.obs = 0]
          /\ obj'[m] = [obj[m] EXCEPT !.obs = 0]
          /\ cache'[m] = api'[m] /\ second' = second
      BY <1>0, <1>5 DEF Observe, Store, Goto, TypeOK
    <2>2. /\ api'[m].hook = api[m].hook /\ api'[m].del = api[m].del /\ api'[m].obs = 0
          /\ api'[m].etcd = api[m].etcd /\ api'[m].reset = api[m].reset
          /\ obj'[m].hook = obj[m].hook /\ obj'[m].del = obj[m].del /\ obj'[m].obs = 0
          /\ obj'[m].etcd = obj[m].etcd /\ obj'[m].reset = obj[m].reset
      BY <1>0, <2>1 DEF Machine
    <2>3. FreshAt(m)'
      BY <1>1, <2>1, <2>2 DEF FreshAt, EtcdSteps, ResetSteps, Deleting
    <2>4. Unedited => ClockAt(m)'
      <3>1. ~(NotObserved > EtcdTimeout) /\ ~(NotObserved > ResetTimeout)
        BY TimeoutAssumption DEF NotObserved
      <3>. QED  BY <1>1, <2>1, <2>2, <3>1 DEF ClockAt
    <2>5. Orderly => OrderAt(m)'
      BY <1>1, <2>1, <2>2 DEF OrderAt, EtcdSteps, Deleting, DeletionSteps, Steps
    <2>. QED
      BY <1>3, <2>1, <2>2, <2>3, <2>4, <2>5 DEF FreshFor, Unedited, Orderly, EtcdSteps, HasHook
  <1>6. CASE StampEtcd(m)
    <2>1. /\ pc[m] = "stampEtcd" /\ pc'[m] = AfterEtcd(obj'[m])
          /\ api'[m] = [api[m] EXCEPT !.etcd = outcome[m]]
          /\ obj'[m] = [obj[m] EXCEPT !.etcd = outcome[m]]
          /\ cache'[m] = api'[m] /\ second' = second
      BY <1>0, <1>6, FlowSteps DEF StampEtcd, Store, Goto, TypeOK
    <2>2. /\ api'[m].hook = api[m].hook /\ api'[m].del = api[m].del
          /\ api'[m].obs = api[m].obs
          /\ api'[m].etcd = outcome[m] /\ api'[m].reset = api[m].reset
          /\ obj'[m].hook = obj[m].hook /\ obj'[m].del = obj[m].del
          /\ obj'[m].obs = obj[m].obs
          /\ obj'[m].etcd = outcome[m] /\ obj'[m].reset = obj[m].reset
      BY <1>0, <2>1 DEF Machine
    <2>3. /\ pc'[m] = "release" \/ pc'[m] = "reset"
          /\ pc'[m] = "reset" => obj[m].reset = "none"
      BY <2>1, <2>2 DEF AfterEtcd
    <2>4. FreshAt(m)'
      BY <1>1, <2>1, <2>2, <2>3 DEF FreshAt, EtcdSteps, ResetSteps, Deleting
    <2>5. Unedited => ClockAt(m)'
      BY <1>1, <2>1, <2>2, <2>3 DEF ClockAt
    <2>6. Orderly => OrderAt(m)'
      BY <1>1, <2>1, <2>2, <2>3 DEF OrderAt, EtcdSteps, Deleting, DeletionSteps, Steps
    <2>. QED
      BY <1>3, <2>2, <2>3, <2>4, <2>5, <2>6 DEF FreshFor, Unedited, Orderly, EtcdSteps, HasHook
  <1>7. CASE StampReset(m)
    <2>1. /\ pc[m] = "stampReset" /\ pc'[m] = "release"
          /\ api'[m] = [api[m] EXCEPT !.reset = outcome[m]]
          /\ obj'[m] = [obj[m] EXCEPT !.reset = outcome[m]]
          /\ cache'[m] = api'[m] /\ second' = second
      BY <1>0, <1>7 DEF StampReset, Store, Goto, TypeOK
    <2>2. /\ api'[m].hook = api[m].hook /\ api'[m].del = api[m].del
          /\ api'[m].obs = api[m].obs
          /\ api'[m].etcd = api[m].etcd /\ api'[m].reset = outcome[m]
          /\ obj'[m].hook = obj[m].hook /\ obj'[m].del = obj[m].del
          /\ obj'[m].obs = obj[m].obs
          /\ obj'[m].etcd = obj[m].etcd /\ obj'[m].reset = outcome[m]
      BY <1>0, <2>1 DEF Machine
    <2>3. Deleting(api[m]) /\ outcome[m] # "none"
      BY <2>1, RemovalIsDeleting
        DEF FreshInv, IInv, OutcomeFits, ResetConclusions, DeletionSteps, Steps
    <2>4. FreshAt(m)'
      BY <1>1, <2>1, <2>2, <2>3 DEF FreshAt, EtcdSteps, ResetSteps, Deleting
    <2>5. Unedited => ClockAt(m)'
      BY <1>1, <2>1, <2>2 DEF ClockAt
    <2>6. Orderly => OrderAt(m)'
      BY <1>1, <2>1, <2>2, <2>3 DEF OrderAt, EtcdSteps, Deleting, DeletionSteps, Steps
    <2>. QED
      BY <1>3, <2>1, <2>2, <2>4, <2>5, <2>6 DEF FreshFor, Unedited, Orderly, EtcdSteps, HasHook
  <1>8. CASE Release(m)
    <2>1. /\ pc[m] = "release" /\ pc'[m] = "idle"
          /\ api'[m] = [api[m] EXCEPT !.hook = FALSE, !.legacy = @ /\ ~obj[m].legacy]
          /\ cache'[m] = api'[m] /\ second' = second
      BY <1>0, <1>8 DEF Release, Store, Goto, TypeOK
    <2>2. /\ api'[m].hook = FALSE /\ api'[m].del = api[m].del
          /\ api'[m].obs = api[m].obs
          /\ api'[m].etcd = api[m].etcd /\ api'[m].reset = api[m].reset
      BY <1>0, <2>1 DEF Machine
    <2>3. api[m].reset # "none"
      BY <1>1, <2>1 DEF FreshInv, IInv, StepFacts, FreshAt
    <2>4. FreshAt(m)'
      BY <1>1, <2>1, <2>2 DEF FreshAt, EtcdSteps, ResetSteps, Deleting
    <2>5. Unedited => ClockAt(m)'
      BY <1>1, <2>1, <2>2 DEF ClockAt
    <2>6. Orderly => OrderAt(m)'
      BY <1>1, <2>1, <2>2, <2>3 DEF OrderAt, EtcdSteps, Deleting, DeletionSteps
    <2>. QED
      BY <1>3, <2>1, <2>2, <2>4, <2>5, <2>6 DEF FreshFor, Unedited, Orderly, EtcdSteps, HasHook
  <1>. QED  BY <1>4, <1>5, <1>6, <1>7, <1>8
-----------------------------------------------------------------------------
(* Restarts, the clock, and the invariant. *)

(* A restart forgets every reconcile. *)
LEMMA FreshCrash ==
    ASSUME FreshInv, IInv', Crash
    PROVE  FreshInv'
  <1>1. \A m \in Machines : pc'[m] = "idle"
    BY DEF Crash
  <1>2. api' = api /\ cache' = api /\ second' = second
    BY DEF Crash
  <1>3. ASSUME NEW m \in Machines PROVE FreshAt(m)'
    BY <1>1, <1>2 DEF FreshInv, FreshAt, EtcdSteps, ResetSteps
  <1>4. ASSUME NEW m \in Machines, Unedited PROVE ClockAt(m)'
    BY <1>1, <1>2, <1>4 DEF FreshInv, ClockAt
  <1>5. ASSUME NEW m \in Machines, Orderly PROVE OrderAt(m)'
    BY <1>1, <1>2, <1>5 DEF FreshInv, OrderAt, EtcdSteps, DeletionSteps
  <1>6. FirstInOrder'
    BY <1>1 DEF FirstInOrder, EtcdSteps
  <1>. QED  BY <1>3, <1>4, <1>5, <1>6 DEF FreshInv, Unedited, Orderly

(* Every holder of a timestamp sees the clock advance at once. *)
LEMMA FreshTick ==
    ASSUME FreshInv, IInv', Tick
    PROVE  FreshInv'
  <1>0. TypeOK
    BY DEF FreshInv, IInv
  <1>1. ASSUME NEW m \in Machines
        PROVE  /\ api[m] \in Machine /\ obj[m] \in Machine
               /\ api'[m] = AgeByOne(api[m]) /\ cache'[m] = AgeByOne(cache[m])
               /\ obj'[m] = AgeByOne(obj[m])
    BY <1>0 DEF TypeOK, EnvTypeOK, Tick
  <1>2. UNCHANGED <<pc, outcome, second>>
    BY DEF Tick
  <1>3. ASSUME NEW m \in Machines
        PROVE  /\ api'[m].del = api[m].del /\ api'[m].hook = api[m].hook
               /\ api'[m].etcd = api[m].etcd /\ api'[m].reset = api[m].reset
               /\ obj'[m].del = obj[m].del /\ obj'[m].hook = obj[m].hook
               /\ obj'[m].etcd = obj[m].etcd /\ obj'[m].reset = obj[m].reset
    BY <1>1, AgeByOneFacts
  <1>4. ASSUME NEW m \in Machines PROVE FreshAt(m)'
    <2>1. FreshAt(m) /\ cache'[m] = api'[m]
      BY <1>1 DEF FreshInv, FreshAt
    <2>. QED  BY <1>2, <1>3, <2>1 DEF FreshAt, Deleting
  <1>5. ASSUME NEW m \in Machines, Unedited PROVE ClockAt(m)'
    <2>1. ClockAt(m)
      BY <1>5 DEF FreshInv
    <2>2. /\ api'[m].obs \in Int /\ api[m].obs \in Int /\ api'[m].obs >= api[m].obs
          /\ api[m].obs = NotObserved => api'[m].obs = NotObserved
      BY <1>1, AgeByOneFacts
    <2>3. \A t \in Nat : api[m].obs > t => api'[m].obs > t
      BY <2>2
    <2>4. obj[m].obs = api[m].obs => obj'[m].obs = api'[m].obs
      BY <1>1, AgeByOneFacts
    <2>. QED  BY <1>2, <1>3, <2>1, <2>2, <2>3, <2>4, TimeoutAssumption DEF ClockAt
  <1>6. ASSUME NEW m \in Machines, Orderly PROVE OrderAt(m)'
    <2>1. OrderAt(m)
      BY <1>6 DEF FreshInv
    <2>. QED  BY <1>2, <1>3, <2>1 DEF OrderAt, Deleting
  <1>7. ASSUME Orderly PROVE FirstInOrder'
    <2>1. ASSUME NEW m \in Machines, NEW p \in Machines, Before(p, m)' PROVE Before(p, m)
      BY <1>3, <2>1 DEF Before, Deleting, HasHook
    <2>. QED  BY <1>2, <1>7, <2>1, SubsetsAssumption DEF FreshInv, FirstInOrder
  <1>. QED  BY <1>4, <1>5, <1>6, <1>7 DEF FreshInv, Unedited, Orderly

(* A process starts with a fresh list and no deletion under way. *)
LEMMA FreshInit ==
    ASSUME Init
    PROVE  FreshInv
  <1>1. IInv
    BY InitSafe
  <1>2. PICK hooked, leftover, foreign : api = HealthyFleet(hooked, leftover, foreign)
    BY DEF Init, EnvInit
  <1>3. ASSUME NEW m \in Machines
        PROVE  api[m].etcd = "none" /\ api[m].reset = "none" /\ api[m].del = 0
    <2>1. api[m] = [NoMachine EXCEPT !.qual = m \in Managed, !.hook = m \in hooked,
                                     !.legacy = m \in leftover, !.other = m \in foreign]
      BY <1>2, Zenon DEF HealthyFleet
    <2>. QED  BY <2>1 DEF NoMachine
  <1>4. \A m \in Machines : pc[m] = "idle"
    BY DEF Init
  <1>5. cache = api /\ second = 0
    BY DEF Init, EnvInit
  <1>6. ASSUME NEW m \in Machines PROVE FreshAt(m) /\ ClockAt(m) /\ OrderAt(m)
    <2>1. FreshAt(m)
      BY <1>3, <1>4, <1>5 DEF FreshAt, EtcdSteps, ResetSteps
    <2>2. ClockAt(m)
      BY <1>3, <1>4 DEF ClockAt
    <2>3. OrderAt(m)
      BY <1>3, <1>4, <1>5 DEF OrderAt, EtcdSteps, DeletionSteps, Deleting
    <2>. QED  BY <2>1, <2>2, <2>3
  <1>7. FirstInOrder
    BY <1>4 DEF FirstInOrder, EtcdSteps
  <1>. QED  BY <1>1, <1>6, <1>7 DEF FreshInv

(* The invariant is inductive when the cache does not lag. *)
LEMMA FreshNext ==
    ASSUME ~Stale, FreshInv, [Next]_vars
    PROVE  FreshInv'
  <1>0. IInv'
    BY NextSafe DEF FreshInv
  <1>1. CASE EnvNext /\ UNCHANGED ctlVars
    BY <1>1, FreshEnv
  <1>2. ASSUME NEW m \in Machines, Reconcile(m) \/ Step(m) \/ Abort(m) PROVE FreshInv'
    BY <1>0, <1>2, FreshRead, FreshRpc, FreshPatch DEF Step
  <1>3. CASE Crash
    BY <1>0, <1>3, FreshCrash
  <1>4. CASE Tick
    BY <1>0, <1>4, FreshTick
  <1>5. CASE UNCHANGED vars
    <2>1. UNCHANGED <<api, cache, pc, obj, outcome, second>>
      BY <1>5 DEF vars, envVars, ctlVars
    <2>2. /\ \A m \in Machines : FreshAt(m) => FreshAt(m)'
          /\ \A m \in Machines : ClockAt(m) => ClockAt(m)'
          /\ \A m \in Machines : OrderAt(m) => OrderAt(m)'
      BY <2>1 DEF FreshAt, ClockAt, OrderAt
    <2>3. FirstInOrder => FirstInOrder'
      BY <2>1 DEF FirstInOrder, Before
    <2>. QED  BY <1>0, <2>2, <2>3 DEF FreshInv, Unedited, Orderly
  <1>. QED  BY <1>1, <1>2, <1>3, <1>4, <1>5 DEF Next

(* With a cache that does not lag, a reconcile always works on what the     *)
(* phases, the hook and the clock really are.                               *)
THEOREM FreshInvariance ==
    ASSUME ~Stale
    PROVE  Spec => []FreshInv
  <1>1. Init => FreshInv
    BY FreshInit
  <1>2. FreshInv /\ [Next]_vars => FreshInv'
    BY FreshNext
  <1>. QED  BY <1>1, <1>2, PTL DEF Spec
-----------------------------------------------------------------------------
(* What follows. *)

(* What a call of the reconcile of m stores of hooks and observations. *)
StoreEffect(m) ==
    /\ \A n \in Machines \ {m} : api'[n] = api[n]
    /\ pc[m] = "stamp" \/ (api'[m].hook => api[m].hook)
    /\ api'[m].obs = api[m].obs \/ (pc[m] = "observe" /\ api'[m].obs = 0)

(* Only ensureHook adds a hook, and only ensureObservedAt writes the clock. *)
LEMMA StoreEffects ==
    ASSUME TypeOK, NEW m \in Machines, Reconcile(m) \/ Step(m) \/ Abort(m)
    PROVE  StoreEffect(m)
  <1>0. api \in [Machines -> Machine]
    BY DEF TypeOK, EnvTypeOK
  <1>. USE <1>0 DEF StoreEffect, Store, Machine
  <1>1. CASE api' = api
    BY <1>1
  <1>2. CASE Stamp(m)
    BY <1>2 DEF Stamp
  <1>3. CASE Observe(m)
    BY <1>3 DEF Observe
  <1>4. CASE StampEtcd(m)
    BY <1>4 DEF StampEtcd
  <1>5. CASE StampReset(m)
    BY <1>5 DEF StampReset
  <1>6. CASE Release(m)
    BY <1>6 DEF Release
  <1>7. ASSUME \/ Reconcile(m) \/ EnsureCredentials(m) \/ ReadCluster(m)
               \/ SerializeControlPlane(m) \/ FindPeer(m) \/ ProbePeer(m) \/ LeaveViaVictim(m)
               \/ RemoveViaPeer(m) \/ TryReset(m) \/ Abort(m)
        PROVE  api' = api
    BY <1>7 DEF Reconcile, EnsureCredentials, ReadCluster, envVars, SerializeControlPlane,
                FindPeer, ProbePeer, LeaveViaVictim, RemoveViaPeer, TryReset, Abort
  <1>. QED  BY <1>1, <1>2, <1>3, <1>4, <1>5, <1>6, <1>7 DEF Step

(* etcdPhase and resetPhase never enter a phase that is recorded on the     *)
(* Machine, whatever was lost, late, edited or restarted, as long as the    *)
(* informer shows the controller its own patches.                           *)
THEOREM NoReplaySafety ==
    ASSUME ~Stale
    PROVE  Spec => []NoReplay
  <1>1. FreshInv => NoReplay
    BY DEF FreshInv, FreshAt, NoReplay
  <1>. QED  BY <1>1, FreshInvariance, PTL

(* A Machine without the hook gets one only when its reconcile stamps it. *)
LEMMA OnlyStamped ==
    ASSUME TypeOK, [Next]_vars, NEW m \in Machines, ~api[m].hook, pc[m] # "stamp"
    PROVE  ~api'[m].hook
  <1>1. CASE EnvNext
    BY <1>1, EnvEffects DEF EnvEffect
  <1>2. ASSUME NEW n \in Machines, Reconcile(n) \/ Step(n) \/ Abort(n)
        PROVE  ~api'[m].hook
    <2>1. StoreEffect(n)
      BY <1>2, StoreEffects
    <2>. QED  BY <2>1 DEF StoreEffect
  <1>3. CASE Crash
    BY <1>3 DEF Crash
  <1>4. CASE Tick
    <2>1. api'[m] = AgeByOne(api[m]) /\ api[m] \in Machine
      BY <1>4 DEF Tick, TypeOK, EnvTypeOK
    <2>. QED  BY <2>1, AgeByOneFacts
  <1>5. CASE UNCHANGED vars
    BY <1>5 DEF vars, envVars
  <1>. QED  BY <1>1, <1>2, <1>3, <1>4, <1>5 DEF Next

(* reconcileDeleting and reconcileNormal stamp no Machine that release has  *)
(* let go: the recorded reset is what keeps the hook off.                   *)
THEOREM ReleaseSafety ==
    ASSUME ~Stale
    PROVE  Spec => ReleasedForGood
  <1>1. FreshInv /\ [Next]_vars =>
          [\A m \in Machines : api[m].reset # "none" /\ ~api[m].hook => ~api'[m].hook]_vars
    BY OnlyStamped DEF FreshInv, FreshAt, IInv
  <1>. QED  BY <1>1, FreshInvariance, PTL DEF Spec, ReleasedForGood

(* ensureObservedAt writes the clock once: no retry, hold or restart sets a *)
(* running deadline back, unless somebody edits the annotation.             *)
THEOREM ClockSafety ==
    ASSUME ~Stale, Unedited
    PROVE  Spec => ClockNotReset
  <1>1. ASSUME FreshInv, [Next]_vars, NEW m \in Machines
        PROVE  api'[m].obs >= api[m].obs
    <2>0. TypeOK /\ FreshAt(m) /\ ClockAt(m)
      BY <1>1 DEF FreshInv, IInv
    <2>1. api[m] \in Machine /\ api[m].obs \in Int
      BY <2>0, TimeoutAssumption DEF TypeOK, EnvTypeOK, Machine, Ages, NotObserved, MaxAge
    <2>2. CASE EnvNext
      <3>1. cache = api
        BY <1>1, <2>0 DEF FreshInv, FreshAt, TypeOK, EnvTypeOK
      <3>. QED  BY <2>0, <2>1, <2>2, <3>1, FreshEnvEffects DEF FreshEnvEffect
    <2>3. ASSUME NEW n \in Machines, Reconcile(n) \/ Step(n) \/ Abort(n)
          PROVE  api'[m].obs >= api[m].obs
      <3>1. StoreEffect(n)
        BY <2>0, <2>3, StoreEffects
      <3>2. pc[m] = "observe" => api[m].obs = -1
        BY <2>0 DEF ClockAt, NotObserved
      <3>. QED  BY <2>1, <3>1, <3>2 DEF StoreEffect
    <2>4. CASE Crash
      BY <2>1, <2>4 DEF Crash
    <2>5. CASE Tick
      <3>1. api'[m] = AgeByOne(api[m])
        BY <2>0, <2>5 DEF Tick
      <3>. QED  BY <2>1, <3>1, AgeByOneFacts
    <2>6. CASE UNCHANGED vars
      BY <2>1, <2>6 DEF vars, envVars
    <2>. QED  BY <1>1, <2>2, <2>3, <2>4, <2>5, <2>6 DEF Next
  <1>2. FreshInv /\ [Next]_vars => [\A m \in Machines : api'[m].obs >= api[m].obs]_vars
    BY <1>1
  <1>. QED  BY <1>2, FreshInvariance, PTL DEF Spec, ClockNotReset

(* What ensureEtcdRemoved and resetPhase record as given up was given up    *)
(* after its deadline, counted from the one observation.                    *)
THEOREM DeadlineSafety ==
    ASSUME ~Stale, Unedited
    PROVE  Spec => []GivesUpOnlyLate
  <1>1. FreshInv => GivesUpOnlyLate
    BY DEF FreshInv, ClockAt, GivesUpOnlyLate
  <1>. QED  BY <1>1, FreshInvariance, PTL

(* serializeControlPlane lets one etcd removal through at a time, for any   *)
(* number of control-plane Machines deleted in any order, as long as they   *)
(* carry the hook when they are deleted and no two share a second.          *)
THEOREM SerialSafety ==
    ASSUME ~Stale, Orderly
    PROVE  Spec => []EtcdExclusive
  <1>1. FreshInv => EtcdExclusive
    <2>. SUFFICES ASSUME FreshInv, NEW m \in Machines, NEW n \in Machines,
                         pc[m] \in EtcdSteps, pc[n] \in EtcdSteps, m # n
                  PROVE  FALSE
      BY DEF EtcdExclusive
    <2>1. ASSUME NEW q \in Machines, pc[q] \in EtcdSteps
          PROVE  /\ q \in ControlPlane /\ q \in Nat /\ api[q].del \in Nat
                 /\ Deleting(api[q]) /\ HasHook(api[q])
      <3>1. pc[q] \in DeletionSteps
        BY <2>1 DEF DeletionSteps, Steps, EtcdSteps
      <3>2. Deleting(api[q]) /\ pc[q] # "idle"
        BY <3>1, RemovalIsDeleting DEF FreshInv
      <3>3. FreshAt(q) /\ OrderAt(q) /\ TypeOK
        BY DEF FreshInv, IInv
      <3>4. q \in Nat /\ api[q].del \in Nat
        BY <3>3, MachinesAssumption DEF TypeOK, EnvTypeOK, Machine
      <3>. QED  BY <2>1, <3>1, <3>2, <3>3, <3>4 DEF FreshAt, OrderAt, HasHook
    <2>2. ~Before(m, n) /\ ~Before(n, m)
      BY <2>1 DEF FreshInv, FirstInOrder
    <2>. QED  BY <2>1, <2>2 DEF Before
  <1>. QED  BY <1>1, FreshInvariance, PTL

-----------------------------------------------------------------------------
(* A release is also final with a lagging cache, if no Machine is deleted   *)
(* before it is hooked.                                                     *)

Hooked == "lateStamp" \notin Env

(* Whoever sees a Machine being deleted sees its hook or the end of its     *)
(* teardown, and no teardown ends before the cache shows the deletion.      *)
HookedAt(m) ==
    /\ Deleting(api[m]) => api[m].hook \/ api[m].reset # "none"
    /\ Deleting(cache[m]) => cache[m].hook \/ cache[m].reset # "none"
    /\ api[m].reset # "none" => Deleting(cache[m])
    /\ pc[m] = "stamp" => api[m].reset = "none"

HookedInv == IInv /\ \A m \in Machines : HookedAt(m)

(* What a step may do to the API server's and the informer's Machine. *)
HookedEffect(n) ==
    /\ Deleting(api[n]) => Deleting(api'[n])
    /\ Deleting(api'[n]) => Deleting(api[n]) \/ api'[n].hook
    /\ api[n].hook => api'[n].hook \/ api'[n].reset # "none"
    /\ api[n].reset # "none" => api'[n].reset # "none"
    /\ api'[n].reset # "none" => api[n].reset # "none" \/ Deleting(cache[n])
    /\ cache'[n] = cache[n] \/ cache'[n] = api'[n]
    /\ pc'[n] = "stamp" => api'[n].reset = "none"

(* Such a step preserves the invariant of the Machine. *)
LEMMA HookedKept ==
    ASSUME HookedInv, NEW n \in Machines, HookedEffect(n)
    PROVE  HookedAt(n)'
  <1>1. HookedAt(n) /\ (Deleting(cache[n]) => Deleting(api[n]))
    BY DEF HookedInv, IInv, ViewsOlder, Older
  <1>2. Deleting(api'[n]) => api'[n].hook \/ api'[n].reset # "none"
    BY <1>1 DEF HookedAt, HookedEffect
  <1>3. api'[n].reset # "none" => Deleting(cache'[n])
    BY <1>1 DEF HookedAt, HookedEffect
  <1>4. Deleting(cache'[n]) => cache'[n].hook \/ cache'[n].reset # "none"
    BY <1>1, <1>2 DEF HookedAt, HookedEffect
  <1>. QED  BY <1>2, <1>3, <1>4 DEF HookedAt, HookedEffect

(* Only hooked Machines are deleted. *)
LEMMA HookedFirst ==
    ASSUME Hooked, TypeOK, EnvNext, NEW n \in Machines
    PROVE  Deleting(api'[n]) => Deleting(api[n]) \/ api'[n].hook
  <1>0. api \in [Machines -> Machine]
    BY DEF TypeOK, EnvTypeOK
  <1>. USE <1>0 DEF Store, Machine, Deleting
  <1>1. ASSUME NEW m \in Machines, DeleteMachine(m)
        PROVE  Deleting(api'[n]) => Deleting(api[n]) \/ api'[n].hook
    BY <1>1 DEF DeleteMachine, Hooked, HasHook
  <1>2. ASSUME NEW m \in Machines,
               \/ CapiStart(m) \/ CapiPark(m) \/ CapiPublish(m) \/ RemoveOtherHook(m)
               \/ ScaleDown(m) \/ EditObservedAt(m) \/ BreakQualification(m)
        PROVE  api'[n].del = api[n].del
    BY <1>2 DEF CapiStart, CapiPark, CapiPublish, RemoveOtherHook, ScaleDown,
                EditObservedAt, BreakQualification
  <1>3. ASSUME \/ SyncMachines \/ SyncCluster \/ DeleteCluster \/ SecretCollected
               \/ \E m \in Machines : CapiPassGate(m) \/ PowerOff(m)
        PROVE  api' = api
    BY <1>3 DEF SyncMachines, SyncCluster, DeleteCluster, SecretCollected, CapiPassGate, PowerOff
  <1>. QED  BY <1>1, <1>2, <1>3 DEF EnvNext, CapiNext

(* The calls of a reconcile that store nothing. *)
LEMMA HookedRead ==
    ASSUME HookedInv, NEW m \in Machines, NEW n \in Machines,
           \/ Reconcile(m) \/ EnsureCredentials(m) \/ ReadCluster(m)
           \/ SerializeControlPlane(m) \/ FindPeer(m) \/ ProbePeer(m) \/ LeaveViaVictim(m)
           \/ RemoveViaPeer(m) \/ TryReset(m) \/ Abort(m)
    PROVE  HookedEffect(n)
  <1>0. TypeOK /\ pc \in [Machines -> Steps] /\ HookedAt(n)
    BY DEF HookedInv, IInv, TypeOK
  <1>1. api' = api /\ cache' = cache
    BY DEF Reconcile, EnsureCredentials, ReadCluster, envVars, SerializeControlPlane,
           FindPeer, ProbePeer, LeaveViaVictim, RemoveViaPeer, TryReset, Abort
  <1>2. ASSUME pc'[n] = "stamp" PROVE pc[n] = "stamp" \/ (Reconcile(m) /\ n = m)
    <2>. USE <1>0, <1>2 DEF Goto, Ask, Conclude, Requeue
    <2>1. CASE EnsureCredentials(m)
      BY <2>1, FlowSteps DEF EnsureCredentials, Resume
    <2>2. CASE ReadCluster(m)
      BY <2>2, FlowSteps DEF ReadCluster
    <2>3. CASE SerializeControlPlane(m)
      BY <2>3 DEF SerializeControlPlane
    <2>4. CASE FindPeer(m)
      BY <2>4 DEF FindPeer, EtcdAttemptFailed
    <2>10. CASE ProbePeer(m)
      BY <2>10 DEF ProbePeer, EtcdAttemptFailed
    <2>5. CASE LeaveViaVictim(m)
      BY <2>5 DEF LeaveViaVictim
    <2>6. CASE RemoveViaPeer(m)
      BY <2>6 DEF RemoveViaPeer, EtcdAttemptFailed
    <2>7. CASE TryReset(m)
      BY <2>7 DEF TryReset, ResetAttemptFailed
    <2>8. CASE Abort(m)
      BY <2>8 DEF Abort
    <2>9. CASE Reconcile(m)
      BY <2>9 DEF Reconcile, Resume
    <2>. QED  BY <2>1, <2>2, <2>3, <2>4, <2>5, <2>6, <2>7, <2>8, <2>9, <2>10
  <1>3. ASSUME pc'[n] = "stamp", Reconcile(m), n = m PROVE api[n].reset = "none"
    <2>. DEFINE o == cache[n]
    <2>1. \/ Deleting(o) /\ ReconcileDeleting(o) = "stamp"
          \/ ~Deleting(o)
      BY <1>0, <1>3 DEF Reconcile, Resume, Goto
    <2>2. ReconcileDeleting(o) = "stamp" => ~o.hook /\ o.reset = "none"
      BY FlowSteps DEF ReconcileDeleting, AfterHook, HasHook
    <2>. QED  BY <1>0, <2>1, <2>2 DEF HookedAt
  <1>. QED  BY <1>0, <1>1, <1>2, <1>3 DEF HookedEffect, HookedAt

(* The patches: only StampReset records a reset, of a Machine that was read *)
(* as being deleted, and only Release takes a hook off, after that.         *)
LEMMA HookedPatch ==
    ASSUME HookedInv, NEW m \in Machines, NEW n \in Machines,
           \/ Stamp(m) \/ Observe(m) \/ StampEtcd(m) \/ StampReset(m) \/ Release(m)
    PROVE  HookedEffect(n)
  <1>0. /\ api \in [Machines -> Machine] /\ pc \in [Machines -> Steps] /\ HookedAt(n)
        /\ OutcomeFits /\ StepFacts /\ ViewsOlder
    BY DEF HookedInv, IInv, TypeOK, EnvTypeOK
  <1>1. cache'[n] = cache[n] \/ cache'[n] = api'[n]
    BY DEF Stamp, Observe, StampEtcd, StampReset, Release, Store
  <1>2. pc'[n] = "stamp" => pc[n] = "stamp" /\ n # m
    <2>. USE <1>0, FlowSteps DEF Goto
    <2>. QED  BY DEF Stamp, Observe, StampEtcd, StampReset, Release
  <1>3. CASE n # m
    <2>1. api'[n] = api[n]
      BY <1>0, <1>3 DEF Stamp, Observe, StampEtcd, StampReset, Release, Store
    <2>. QED  BY <1>0, <1>1, <1>2, <2>1 DEF HookedEffect, HookedAt
  <1>4. CASE n = m
    <2>. USE <1>0, <1>1, <1>2, <1>4 DEF HookedEffect, Store, Machine, Deleting
    <2>1. CASE Stamp(m)
      BY <2>1 DEF Stamp
    <2>2. CASE Observe(m)
      BY <2>2 DEF Observe
    <2>3. CASE StampEtcd(m)
      BY <2>3 DEF StampEtcd
    <2>4. CASE StampReset(m)
      <3>1. Deleting(cache[m]) /\ outcome[m] # "none"
        BY <2>4 DEF StampReset, OutcomeFits, StepFacts, ViewsOlder, DeletionSteps, Steps,
                    ResetConclusions
      <3>2. /\ api'[m].reset # "none" /\ api'[m].hook = api[m].hook
            /\ api'[m].del = api[m].del
        BY <2>4, <3>1 DEF StampReset
      <3>. QED  BY <3>1, <3>2
    <2>5. CASE Release(m)
      <3>1. api[m].reset # "none"
        BY <2>5 DEF Release, StepFacts, ViewsOlder, Older
      <3>2. api'[m].reset = api[m].reset /\ api'[m].del = api[m].del
        BY <2>5 DEF Release
      <3>. QED  BY <3>1, <3>2
    <2>. QED  BY <2>1, <2>2, <2>3, <2>4, <2>5
  <1>. QED  BY <1>3, <1>4

(* The invariant is inductive. *)
LEMMA HookedNext ==
    ASSUME Hooked, HookedInv, [Next]_vars
    PROVE  HookedInv'
  <1>0. TypeOK /\ IInv'
    BY NextSafe DEF HookedInv, IInv
  <1>. SUFFICES ASSUME NEW n \in Machines PROVE HookedAt(n)'
    BY <1>0 DEF HookedInv
  <1>1. HookedAt(n)
    BY DEF HookedInv
  <1>2. CASE EnvNext /\ UNCHANGED ctlVars
    <2>1. EnvEffect /\ pc' = pc
      BY <1>0, <1>2, EnvEffects DEF ctlVars
    <2>2. HookedEffect(n)
      BY <1>0, <1>1, <1>2, <2>1, HookedFirst DEF HookedEffect, EnvEffect, Older, HookedAt
    <2>. QED  BY <2>2, HookedKept
  <1>3. ASSUME NEW m \in Machines, Reconcile(m) \/ Step(m) \/ Abort(m) PROVE HookedAt(n)'
    <2>1. HookedEffect(n)
      BY <1>3, HookedRead, HookedPatch DEF Step
    <2>. QED  BY <2>1, HookedKept
  <1>4. CASE Crash
    <2>1. api' = api /\ cache'[n] = api'[n] /\ pc'[n] = "idle"
      BY <1>4 DEF Crash
    <2>2. HookedEffect(n)
      BY <1>1, <2>1 DEF HookedEffect
    <2>. QED  BY <2>2, HookedKept
  <1>5. CASE Tick
    <2>1. /\ api[n] \in Machine /\ cache[n] \in Machine /\ pc' = pc
          /\ api'[n] = AgeByOne(api[n]) /\ cache'[n] = AgeByOne(cache[n])
      BY <1>0, <1>5 DEF TypeOK, EnvTypeOK, Tick
    <2>. QED  BY <1>1, <2>1, AgeByOneFacts DEF HookedAt, Deleting
  <1>6. CASE UNCHANGED vars
    BY <1>1, <1>6 DEF vars, envVars, ctlVars, HookedAt
  <1>. QED  BY <1>2, <1>3, <1>4, <1>5, <1>6 DEF Next

(* However far the informer lags behind the controller's own patches, no    *)
(* Machine that release has let go is stamped again, as long as Machines    *)
(* carry the hook when they are deleted.                                    *)
THEOREM LaggingReleaseSafety ==
    ASSUME Hooked
    PROVE  Spec => ReleasedForGood
  <1>1. Init => HookedInv
    <2>. SUFFICES ASSUME Init PROVE HookedInv
      OBVIOUS
    <2>1. IInv /\ cache = api /\ \A m \in Machines : pc[m] = "idle"
      BY InitSafe DEF Init, EnvInit
    <2>2. \A m \in Machines : api[m].reset = "none" /\ ~Deleting(api[m])
      <3>1. PICK hooked, leftover, foreign : api = HealthyFleet(hooked, leftover, foreign)
        BY DEF Init, EnvInit
      <3>2. ASSUME NEW m \in Machines PROVE api[m].reset = "none" /\ api[m].del = 0
        <4>1. api[m] = [NoMachine EXCEPT !.qual = m \in Managed, !.hook = m \in hooked,
                                         !.legacy = m \in leftover, !.other = m \in foreign]
          BY <3>1, Zenon DEF HealthyFleet
        <4>. QED  BY <4>1 DEF NoMachine
      <3>. QED  BY <3>2 DEF Deleting
    <2>. QED  BY <2>1, <2>2 DEF HookedInv, HookedAt
  <1>2. HookedInv /\ [Next]_vars => HookedInv'
    BY HookedNext
  <1>3. HookedInv /\ [Next]_vars =>
          [\A m \in Machines : api[m].reset # "none" /\ ~api[m].hook => ~api'[m].hook]_vars
    BY OnlyStamped DEF HookedInv, HookedAt, IInv
  <1>. QED  BY <1>1, <1>2, <1>3, PTL DEF Spec, ReleasedForGood
=============================================================================
