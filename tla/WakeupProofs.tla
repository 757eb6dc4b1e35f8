---------------------------- MODULE WakeupProofs ----------------------------
(***************************************************************************)
(* No Machine is forgotten by the work queue, in any environment: the      *)
(* safety half of the liveness of the teardown.  Every way out of a        *)
(* reconcile either queues the Machine again or leaves it in a state that  *)
(* needs nothing more, or the watch still has to announce what changed.    *)
(***************************************************************************)
EXTENDS TeardownProofs

(* The cache does not show yet what the last reconcile did: these two       *)
(* differences go away only when the watch announces the Machine.           *)
Behind(m) ==
    \/ cache[m].hook # api[m].hook
    \/ cache[m].reset = "none" /\ api[m].reset # "none"

(* What holds of a Machine that the cache shows in need and that is not     *)
(* queued: between its reconciles, and before those steps of a reconcile    *)
(* that may return for good.                                                *)
WakeAt(m) ==
    m \notin queue /\ Pending(cache[m]) =>
        /\ pc[m] = "idle" => Behind(m)
        /\ pc[m] = "stamp" => ~cache[m].hook
        /\ pc[m] = "creds" => ~cache[m].hook /\ api[m].hook

(* The inductive invariant. *)
WakeInv ==
    /\ IInv
    /\ ~Stale => cache = api
    /\ \A m \in Machines : WakeAt(m)

-----------------------------------------------------------------------------
(* Watch events. *)

(* A Machine stays queued, and a change that the cache shows queues it. *)
Announced(n) ==
    /\ n \in queue => n \in queue'
    /\ \/ cache'[n] = cache[n]
       \/ cache'[n] = api'[n] /\ (Admitted(cache'[n]) => n \in queue')

(* The watch predicate admits every Machine that needs the controller. *)
LEMMA PendingAdmitted ==
    ASSUME NEW o, Pending(o)
    PROVE  Admitted(o)
  BY DEF Pending, Admitted

(* A patch is announced, at once or by the watch. *)
LEMMA StoreAnnounces ==
    ASSUME TypeOK, ~Stale => cache = api, NEW new \in [Machines -> Machine], Store(new)
    PROVE  (~Stale => cache' = api') /\ \A n \in Machines : Announced(n)
  BY DEF Store, Notified, Announced

(* Whatever the environment does to a Machine is announced. *)
LEMMA EnvAnnounces ==
    ASSUME TypeOK, ~Stale => cache = api, EnvNext
    PROVE  (~Stale => cache' = api') /\ \A n \in Machines : Announced(n)
  <1>0. api \in [Machines -> Machine]
    BY DEF TypeOK, EnvTypeOK
  <1>1. CASE SyncMachines
    BY <1>1 DEF SyncMachines, Notified, Announced
  <1>2. CASE SyncCluster
    BY <1>2 DEF SyncCluster, Announced
  <1>3. CASE DeleteCluster
    BY <1>3 DEF DeleteCluster, Announced
  <1>4. CASE SecretCollected
    BY <1>4 DEF SecretCollected, Announced
  <1>5. ASSUME NEW m \in Machines, CapiPassGate(m) \/ PowerOff(m)
        PROVE  (~Stale => cache' = api') /\ \A n \in Machines : Announced(n)
    BY <1>5 DEF CapiPassGate, PowerOff, Announced
  <1>6. ASSUME NEW m \in Machines,
               \/ DeleteMachine(m) \/ CapiStart(m) \/ CapiPark(m) \/ CapiPublish(m)
               \/ RemoveOtherHook(m) \/ ScaleDown(m) \/ EditObservedAt(m)
               \/ BreakQualification(m)
        PROVE  (~Stale => cache' = api') /\ \A n \in Machines : Announced(n)
    <2>1. Store(api')
      BY <1>6 DEF DeleteMachine, CapiStart, CapiPark, CapiPublish, RemoveOtherHook,
                  ScaleDown, EditObservedAt, BreakQualification, Store
    <2>2. api' \in [Machines -> Machine]
      BY EnvType DEF EnvTypeOK
    <2>. QED  BY <2>1, <2>2, StoreAnnounces
  <1>. QED  BY <1>1, <1>2, <1>3, <1>4, <1>5, <1>6 DEF EnvNext, CapiNext

(* The environment preserves the invariant. *)
LEMMA EnvWakes ==
    ASSUME WakeInv, EnvNext, UNCHANGED ctlVars
    PROVE  WakeInv'
  <1>0. TypeOK /\ IInv'
    BY EnvSafe DEF WakeInv, IInv
  <1>1. (~Stale => cache' = api') /\ \A n \in Machines : Announced(n)
    BY <1>0, EnvAnnounces DEF WakeInv
  <1>2. ASSUME NEW n \in Machines PROVE WakeAt(n)'
    <2>1. /\ WakeAt(n) /\ Announced(n) /\ pc' = pc
          /\ api'[n].hook = api[n].hook /\ api'[n].reset = api[n].reset
      BY <1>0, <1>1, EnvEffects DEF WakeInv, EnvEffect, ctlVars
    <2>2. CASE cache'[n] = cache[n]
      BY <2>1, <2>2 DEF WakeAt, Behind, Announced
    <2>3. CASE Admitted(cache'[n]) => n \in queue'
      BY <2>3, PendingAdmitted DEF WakeAt
    <2>. QED  BY <2>1, <2>2, <2>3 DEF Announced
  <1>. QED  BY <1>0, <1>1, <1>2 DEF WakeInv, Stale

-----------------------------------------------------------------------------
(* The calls of a reconcile. *)

(* A call of the reconcile of m wakes or forgets no other Machine. *)
LEMMA WakeFrame ==
    ASSUME WakeInv, IInv', ~Stale => cache' = api', NEW m \in Machines, WakeAt(m)',
           \A n \in Machines \ {m} : /\ api'[n] = api[n] /\ pc'[n] = pc[n]
                                     /\ cache'[n] = cache[n]
                                     /\ n \in queue => n \in queue'
    PROVE  WakeInv'
  <1>1. ASSUME NEW n \in Machines, n # m PROVE WakeAt(n)'
    BY <1>1 DEF WakeInv, WakeAt, Behind
  <1>. QED  BY <1>1 DEF WakeInv, Stale

(* Reconcile returns at once only for a Machine that needs nothing. *)
LEMMA ReturnsIdle ==
    ASSUME NEW o, Pending(o),
           (IF ~Admitted(o) THEN "idle"
            ELSE IF Deleting(o) THEN ReconcileDeleting(o)
            ELSE ReconcileNormal(o)) = "idle"
    PROVE  FALSE
  <1>1. Admitted(o)
    BY PendingAdmitted
  <1>. QED
    BY <1>1 DEF Pending, ReconcileDeleting, ReconcileNormal, AfterHook

(* The calls that store nothing. *)
LEMMA ReadWakes ==
    ASSUME WakeInv, IInv', NEW m \in Machines,
           \/ Reconcile(m) \/ EnsureCredentials(m) \/ ReadCluster(m)
           \/ SerializeControlPlane(m) \/ FindPeer(m) \/ ProbePeer(m) \/ LeaveViaVictim(m)
           \/ RemoveViaPeer(m) \/ TryReset(m) \/ Abort(m)
    PROVE  WakeInv'
  <1>0. TypeOK /\ WakeAt(m)
    BY DEF WakeInv, IInv
  <1>. DEFINE Kept == /\ api' = api /\ cache' = cache
                      /\ \A n \in Machines \ {m} : /\ pc'[n] = pc[n]
                                                   /\ n \in queue => n \in queue'
  <1>1. ASSUME Kept, WakeAt(m)' PROVE WakeInv'
    BY <1>1, WakeFrame DEF WakeInv
  <1>2. CASE Reconcile(m)
    <2>. DEFINE o == cache[m]
    <2>. DEFINE step == IF ~Admitted(o) THEN "idle"
                        ELSE IF Deleting(o) THEN ReconcileDeleting(o)
                        ELSE ReconcileNormal(o)
    <2>1. /\ Kept
          /\ step \in {"idle", "requeue", "observe", "cluster", "stamp", "creds"}
          /\ pc'[m] = IF step = "requeue" THEN "idle" ELSE step
          /\ step = "requeue" => m \in queue'
      BY <1>0, <1>2, FlowSteps DEF Reconcile, Resume, Goto, TypeOK
    <2>2. step = "idle" => ~Pending(o)
      BY ReturnsIdle
    <2>3. step = "stamp" => ~o.hook
      BY DEF ReconcileDeleting, ReconcileNormal, AfterHook, HasHook
    <2>4. step = "creds" => ~Pending(o)
      BY FlowSteps DEF ReconcileNormal, Pending
    <2>5. WakeAt(m)'
      BY <2>1, <2>2, <2>3, <2>4 DEF WakeAt
    <2>. QED  BY <1>1, <2>1, <2>5
  <1>3. CASE EnsureCredentials(m)
    <2>1. /\ Kept /\ pc[m] = "creds" /\ pc'[m] \notin {"stamp", "creds"}
          /\ m \in queue => m \in queue'
      BY <1>0, <1>3, FlowSteps DEF EnsureCredentials, Resume, Goto, TypeOK
    <2>2. WakeAt(m)'
      BY <1>0, <2>1 DEF WakeAt, Behind
    <2>. QED  BY <1>1, <2>1, <2>2
  (* Every other call goes on, or queues the Machine again. *)
  <1>4. ASSUME Kept, pc'[m] \notin {"idle", "stamp", "creds"} \/ m \in queue'
        PROVE  WakeInv'
    BY <1>1, <1>4 DEF WakeAt
  <1>. USE <1>0 DEF TypeOK, Goto, Ask, Conclude, Requeue
  <1>5. CASE ReadCluster(m)
    BY <1>4, <1>5, FlowSteps DEF ReadCluster, envVars
  <1>6. CASE SerializeControlPlane(m)
    BY <1>4, <1>6 DEF SerializeControlPlane
  <1>7. CASE FindPeer(m)
    BY <1>4, <1>7 DEF FindPeer, EtcdAttemptFailed
  <1>12. CASE ProbePeer(m)
    BY <1>4, <1>12 DEF ProbePeer, EtcdAttemptFailed
  <1>8. CASE LeaveViaVictim(m)
    BY <1>4, <1>8 DEF LeaveViaVictim
  <1>9. CASE RemoveViaPeer(m)
    BY <1>4, <1>9 DEF RemoveViaPeer, EtcdAttemptFailed
  <1>10. CASE TryReset(m)
    BY <1>4, <1>10 DEF TryReset, ResetAttemptFailed
  <1>11. CASE Abort(m)
    BY <1>4, <1>11 DEF Abort
  <1>. QED  BY <1>2, <1>3, <1>5, <1>6, <1>7, <1>8, <1>9, <1>10, <1>11, <1>12
(* The patches. *)
LEMMA PatchWakes ==
    ASSUME WakeInv, IInv', NEW m \in Machines,
           \/ Stamp(m) \/ Observe(m) \/ StampEtcd(m) \/ StampReset(m) \/ Release(m)
    PROVE  WakeInv'
  <1>0. /\ TypeOK /\ WakeAt(m) /\ api \in [Machines -> Machine]
        /\ api[m] \in Machine /\ api'[m] \in Machine
    BY DEF WakeInv, IInv, TypeOK, EnvTypeOK
  <1>1. Store(api')
    BY DEF Stamp, Observe, StampEtcd, StampReset, Release, Store
  <1>2. (~Stale => cache' = api') /\ \A n \in Machines : Announced(n)
    BY <1>0, <1>1, StoreAnnounces DEF WakeInv, IInv, TypeOK, EnvTypeOK
  <1>3. \A n \in Machines \ {m} : api'[n] = api[n] /\ pc'[n] = pc[n] /\ cache'[n] = cache[n]
    <2>1. \A n \in Machines \ {m} : api'[n] = api[n] /\ pc'[n] = pc[n]
      <3>. USE <1>0 DEF Store, Goto, TypeOK
      <3>1. CASE Stamp(m)
        BY <3>1 DEF Stamp
      <3>2. CASE Observe(m)
        BY <3>2 DEF Observe
      <3>3. CASE StampEtcd(m)
        BY <3>3 DEF StampEtcd
      <3>4. CASE StampReset(m)
        BY <3>4 DEF StampReset
      <3>5. CASE Release(m)
        BY <3>5 DEF Release
      <3>. QED  BY <3>1, <3>2, <3>3, <3>4, <3>5
    <2>. QED  BY <1>1, <2>1 DEF WakeInv, Store
  <1>4. ASSUME WakeAt(m)' PROVE WakeInv'
    BY <1>2, <1>3, <1>4, WakeFrame DEF Announced
  <1>5. CASE Stamp(m)
    <2>1. pc[m] = "stamp" /\ pc'[m] = "creds" /\ api'[m].hook = TRUE
      BY <1>0, <1>5 DEF Stamp, Store, Goto, TypeOK, Machine
    (* The new hook shows in the cache: the watch event queues m. *)
    <2>2. CASE ~Stale
      <3>1. cache'[m] = api'[m] /\ Admitted(cache'[m])
        BY <1>2, <2>1, <2>2 DEF Admitted, HasHook
      <3>2. m \notin queue' => m \notin queue /\ cache'[m] = cache[m]
        BY <1>1, <2>2, <3>1 DEF Store, Notified
      <3>. QED  BY <1>0, <1>4, <2>1, <3>1, <3>2 DEF WakeAt
    (* The cache does not show the new hook yet. *)
    <2>3. CASE Stale
      <3>1. cache' = cache /\ queue' = queue
        BY <1>1, <2>3 DEF Store
      <3>. QED  BY <1>0, <1>4, <2>1, <3>1 DEF WakeAt
    <2>. QED  BY <2>2, <2>3
  <1>6. CASE Observe(m) \/ StampEtcd(m) \/ StampReset(m)
    <2>1. pc'[m] \notin {"idle", "stamp", "creds"}
      BY <1>0, <1>6, FlowSteps DEF Observe, StampEtcd, StampReset, Goto, TypeOK
    <2>. QED  BY <1>4, <2>1 DEF WakeAt
  <1>7. CASE Release(m)
    <2>1. pc[m] = "release" /\ pc'[m] = "idle"
          /\ api'[m].hook = FALSE /\ api'[m].reset = api[m].reset
          /\ api'[m].del = api[m].del
      BY <1>0, <1>7 DEF Release, Store, Goto, TypeOK, Machine
    <2>2. /\ api[m].reset # "none"
          /\ Deleting(api[m]) /\ Deleting(cache[m])
      BY <2>1 DEF WakeInv, IInv, StepFacts, ViewsOlder, Older, DeletionSteps, Steps
    (* The release shows: nothing is left to do. *)
    <2>3. CASE ~Stale
      <3>1. ~Pending(cache'[m])
        BY <1>2, <2>1, <2>2, <2>3 DEF Pending, HasHook, Deleting
      <3>. QED  BY <1>4, <3>1 DEF WakeAt
    (* It does not show yet: the cache is behind in the hook or the reset. *)
    <2>4. CASE Stale
      <3>1. cache' = cache
        BY <1>1, <2>4 DEF Store
      <3>2. Pending(cache[m]) => Behind(m)'
        BY <2>1, <2>2, <3>1 DEF Pending, HasHook, Behind
      <3>. QED  BY <1>4, <2>1, <3>1, <3>2 DEF WakeAt
    <2>. QED  BY <2>3, <2>4
  <1>. QED  BY <1>5, <1>6, <1>7

-----------------------------------------------------------------------------
(* The invariant. *)

(* A restart queues whatever its first list admits. *)
LEMMA CrashWakes ==
    ASSUME WakeInv, IInv', Crash
    PROVE  WakeInv'
  <1>1. ASSUME NEW m \in Machines PROVE WakeAt(m)'
    <2>1. cache'[m] = api[m] /\ (Admitted(api[m]) => m \in queue')
      BY DEF Crash
    <2>. QED  BY <2>1, PendingAdmitted DEF WakeAt
  <1>. QED  BY <1>1 DEF WakeInv, Crash

(* Time changes nothing that the watch announces. *)
LEMMA TickWakes ==
    ASSUME WakeInv, IInv', Tick
    PROVE  WakeInv'
  <1>1. ASSUME NEW m \in Machines PROVE WakeAt(m)'
    <2>1. /\ api[m] \in Machine /\ cache[m] \in Machine
          /\ api'[m] = AgeByOne(api[m]) /\ cache'[m] = AgeByOne(cache[m])
          /\ UNCHANGED <<pc, queue>>
      BY DEF WakeInv, IInv, TypeOK, EnvTypeOK, Tick
    <2>2. /\ api'[m].hook = api[m].hook /\ api'[m].reset = api[m].reset
          /\ cache'[m].hook = cache[m].hook /\ cache'[m].reset = cache[m].reset
          /\ cache'[m].qual = cache[m].qual /\ cache'[m].del = cache[m].del
          /\ cache'[m].reason = cache[m].reason
      BY <2>1, AgeByOneFacts
    <2>3. Pending(cache'[m]) => Pending(cache[m])
      BY <2>2 DEF Pending, Qualifies, HasHook, Deleting, StampAllowed, AtPreTerminate
    <2>. QED  BY <2>1, <2>2, <2>3 DEF WakeInv, WakeAt, Behind
  <1>2. ~Stale => cache' = api'
    BY DEF WakeInv, Tick
  <1>. QED  BY <1>1, <1>2 DEF WakeInv, Stale

(* Every Machine that needs the controller is always queued, in hand, or    *)
(* yet to be announced: Reconcile's early returns, its errors and requeues, *)
(* the watch predicates and the restart lose none, in any environment.      *)
THEOREM WakeUpSafety == Spec => []NeverForgotten
  <1>1. Init => WakeInv
    <2>. SUFFICES ASSUME Init PROVE WakeInv
      OBVIOUS
    <2>1. IInv /\ cache = api /\ queue = {m \in Machines : Admitted(api[m])}
      BY InitSafe DEF Init, EnvInit
    <2>2. ASSUME NEW m \in Machines PROVE WakeAt(m)
      BY <2>1, PendingAdmitted DEF WakeAt
    <2>. QED  BY <2>1, <2>2 DEF WakeInv
  <1>2. WakeInv /\ [Next]_vars => WakeInv'
    <2>. SUFFICES ASSUME WakeInv, [Next]_vars PROVE WakeInv'
      OBVIOUS
    <2>0. IInv'
      BY NextSafe DEF WakeInv
    <2>1. CASE EnvNext /\ UNCHANGED ctlVars
      BY <2>1, EnvWakes
    <2>2. ASSUME NEW m \in Machines, Reconcile(m) \/ Step(m) \/ Abort(m) PROVE WakeInv'
      BY <2>0, <2>2, ReadWakes, PatchWakes DEF Step
    <2>3. CASE Crash
      BY <2>0, <2>3, CrashWakes
    <2>4. CASE Tick
      BY <2>0, <2>4, TickWakes
    <2>5. CASE UNCHANGED vars
      BY <2>0, <2>5 DEF vars, envVars, ctlVars, WakeInv, WakeAt, Behind, Stale
    <2>. QED  BY <2>1, <2>2, <2>3, <2>4, <2>5 DEF Next
  <1>3. WakeInv => NeverForgotten
    <2>. SUFFICES ASSUME WakeInv, NEW m \in Machines, Pending(api[m]),
                         m \notin queue, pc[m] = "idle", cache[m] = api[m]
                  PROVE  FALSE
      BY DEF NeverForgotten
    <2>. QED  BY DEF WakeInv, WakeAt, Behind
  <1>. QED  BY <1>1, <1>2, <1>3, PTL DEF Spec
=============================================================================
