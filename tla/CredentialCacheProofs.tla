----------------------- MODULE CredentialCacheProofs -----------------------
(***************************************************************************)
(* The safety of the credential cache for any clusters, Machines, versions *)
(* and faults.                                                             *)
(***************************************************************************)
EXTENDS CredentialCache, TLAPS

(* The informer never shows a Machine before it is created. *)
Started ==
    \A m \in Machines : machineSeen[m] # "future" => machine[m] # "future"

(* Credentials are only kept for qualifying Machines that the informer has  *)
(* shown, and goes on to show while they exist.                             *)
Known ==
    \A m \in Machines : pc[m] # "idle" \/ m \in secured =>
        /\ m \in Managed
        /\ machineSeen[m] \in {"present", "deleting"} \/ machine[m] = "gone"

(* A running Ensure holds a source. *)
Held == \A m \in Machines : pc[m] # "idle" => got[m] # 0

(* A Machine of a cluster whose copy is about to be deleted was cached      *)
(* after the collection looked.                                             *)
WindowExposed ==
    \A m \in secured : PendingDelete(ClusterOf[m]) /\ Exists(m) => m \in exposed

(* The inductive invariant. *)
IInv ==
    /\ TypeOK
    /\ Started
    /\ Known
    /\ Held
    /\ WindowExposed
    /\ CredentialsKept

-----------------------------------------------------------------------------

(* What is left of the invariant when only the cluster side moves. *)
LEMMA SourceSafe ==
    ASSUME IInv, NEW c \in Clusters,
           RotateSource(c) \/ CollectSource(c) \/ DeleteCluster(c) \/ RecreateCluster(c)
    PROVE  IInv'
  <1>1. TypeOK'
    <2>1. NewSource(c) => /\ source' \in [Clusters -> 0 .. MaxVersion]
                          /\ issued' \in [Clusters -> 1 .. MaxVersion]
      BY BoundsAssumption DEF NewSource, IInv, TypeOK
    <2>2. CASE RotateSource(c)
      BY <2>1, <2>2 DEF IInv, TypeOK, RotateSource, seenVars, workVars, histVars
    <2>3. CASE CollectSource(c)
      <3>1. source' \in [Clusters -> 0 .. MaxVersion]
        BY <2>3, BoundsAssumption DEF IInv, TypeOK, CollectSource
      <3>. QED  BY <2>3, <3>1 DEF IInv, TypeOK, CollectSource, seenVars, workVars, histVars
    <2>4. CASE DeleteCluster(c)
      BY <2>4 DEF IInv, TypeOK, DeleteCluster, ClusterStates, seenVars, workVars, histVars
    <2>5. CASE RecreateCluster(c)
      BY <2>1, <2>5
        DEF IInv, TypeOK, RecreateCluster, ClusterStates, seenVars, workVars, histVars
    <2>. QED  BY <2>2, <2>3, <2>4, <2>5
  <1>2. UNCHANGED <<machine, copy, machineSeen, pc, got, gc, secured, exposed>>
    BY DEF RotateSource, CollectSource, DeleteCluster, RecreateCluster,
           seenVars, workVars, histVars
  <1>. QED
    BY <1>1, <1>2 DEF IInv, Started, Known, Held, WindowExposed, CredentialsKept,
                      PendingDelete, Exists

(* A Machine that goes is forgotten; one that is created was never cached. *)
LEMMA MachineSafe ==
    ASSUME IInv, NEW m \in Machines, MachineMoves(m)
    PROVE  IInv'
  <1>1. /\ machine' = [machine EXCEPT ![m] = CASE machine[m] = "future"  -> "present"
                                               [] machine[m] = "present" -> "deleting"
                                               [] OTHER                  -> "gone"]
        /\ machine[m] = "future" \/ Exists(m)
        /\ secured' = (IF machine[m] = "deleting" THEN secured \ {m} ELSE secured)
        /\ exposed' = (IF machine[m] = "deleting" THEN exposed \ {m} ELSE exposed)
        /\ UNCHANGED <<source, issued, cluster, copy, clusterSeen, machineSeen,
                       pc, got, hooked, gc, faults>>
    BY DEF MachineMoves, seenVars, workVars
  <1>2. machine'[m] \in MachineStates \ {"future"} /\ machine \in [Machines -> MachineStates]
    BY <1>1 DEF IInv, TypeOK, MachineStates
  <1>3. \A n \in Machines \ {m} : machine'[n] = machine[n]
    BY <1>1 DEF IInv, TypeOK
  <1>4. TypeOK'
    BY <1>1, <1>2 DEF IInv, TypeOK, MachineStates
  <1>5. Started'
    BY <1>1, <1>2, <1>3 DEF IInv, Started
  <1>6. ASSUME pc[m] # "idle" \/ m \in secured PROVE machine[m] # "future"
    BY <1>6 DEF IInv, Started, Known
  <1>7. Known'
    <2>. SUFFICES ASSUME NEW n \in Machines, pc[n] # "idle" \/ n \in secured'
                  PROVE  /\ n \in Managed
                         /\ machineSeen[n] \in {"present", "deleting"} \/ machine'[n] = "gone"
      BY <1>1 DEF Known
    <2>1. pc[n] # "idle" \/ n \in secured
      BY <1>1
    <2>2. machine[m] # "gone"
      BY <1>1 DEF Exists
    <2>. QED  BY <1>3, <2>1, <2>2 DEF IInv, Known
  <1>8. Held'
    BY <1>1 DEF IInv, Held
  <1>9. ASSUME NEW n \in secured' PROVE n \in secured /\ (Exists(n)' => Exists(n))
    <2>1. n \in secured /\ n \in Machines
      BY <1>1, <1>9 DEF IInv, TypeOK
    <2>2. CASE n # m
      BY <1>3, <2>1, <2>2 DEF Exists
    <2>3. CASE n = m
      BY <1>1, <1>6, <2>1, <2>3 DEF Exists
    <2>. QED  BY <2>1, <2>2, <2>3
  <1>10. secured' \subseteq secured /\ secured' \ exposed' \subseteq secured \ exposed
         /\ secured' \intersect exposed \subseteq exposed'
    BY <1>1
  <1>11. WindowExposed'
    BY <1>1, <1>9, <1>10 DEF IInv, WindowExposed, PendingDelete
  <1>12. CredentialsKept'
    BY <1>1, <1>9, <1>10 DEF IInv, CredentialsKept
  <1>. QED  BY <1>4, <1>5, <1>7, <1>8, <1>11, <1>12 DEF IInv

(* The informers catch up. *)
LEMMA WatchSafe ==
    ASSUME IInv, SyncClusters \/ SyncMachines
    PROVE  IInv'
  <1>1. /\ UNCHANGED <<source, issued, cluster, machine, copy, pc, got, hooked, gc,
                       secured, exposed, faults>>
        /\ machineSeen' \in {machineSeen, machine}
        /\ clusterSeen' \in {clusterSeen, cluster}
    BY DEF SyncClusters, SyncMachines, apiVars, workVars, histVars
  <1>2. TypeOK'
    BY <1>1 DEF IInv, TypeOK
  <1>3. Started'
    BY <1>1 DEF IInv, Started
  <1>4. Known'
    <2>. SUFFICES ASSUME NEW n \in Machines, pc[n] # "idle" \/ n \in secured
                  PROVE  /\ n \in Managed
                         /\ machineSeen'[n] \in {"present", "deleting"} \/ machine[n] = "gone"
      BY <1>1 DEF Known
    <2>1. machine[n] \in {"present", "deleting", "gone"}
      BY DEF IInv, TypeOK, MachineStates, Started, Known
    <2>. QED  BY <1>1, <2>1 DEF IInv, Known
  <1>. QED
    BY <1>1, <1>2, <1>3, <1>4 DEF IInv, Held, WindowExposed, CredentialsKept,
                                  PendingDelete, Exists

(* Ensure: what is written or found is a copy, and it is there. *)
LEMMA EnsureSafe ==
    ASSUME IInv, NEW m \in Machines, Ensure(m) \/ EnsureFails(m)
    PROVE  IInv'
  <1>. DEFINE c == ClusterOf[m]
              Shape == /\ UNCHANGED <<source, issued, cluster, machine, clusterSeen,
                                      machineSeen, gc>>
                       /\ hooked' \subseteq Machines
                       /\ faults' \in 0 .. MaxFaults
              Other == \A n \in Machines \ {m} :
                          (pc'[n] # "idle" => pc[n] # "idle") /\ got'[n] = got[n]
  <1>0. /\ c \in Clusters /\ got[m] \in 0 .. MaxVersion
        /\ pc \in [Machines -> EnsureSteps] /\ got \in [Machines -> 0 .. MaxVersion]
    BY ClusterOfAssumption DEF IInv, TypeOK
  <1>1. ASSUME Shape, pc' \in [Machines -> EnsureSteps],
               got' \in [Machines -> 0 .. MaxVersion], Other,
               UNCHANGED <<copy, secured, exposed>>,
               pc'[m] # "idle" => /\ got'[m] # 0 /\ m \in Managed
                                  /\ machineSeen[m] \in {"present", "deleting"}
                                     \/ machine[m] = "gone"
        PROVE  IInv'
    <2>1. TypeOK'
      BY <1>1 DEF IInv, TypeOK
    <2>2. Known' /\ Held'
      BY <1>1 DEF IInv, Known, Held
    <2>. QED
      BY <1>1, <2>1, <2>2 DEF IInv, Started, WindowExposed, CredentialsKept,
                              PendingDelete, Exists
  <1>2. ASSUME Shape, pc' \in [Machines -> EnsureSteps],
               pc'[m] = "idle", pc[m] # "idle", Other, Secured(m),
               copy' \in [Clusters -> 0 .. MaxVersion], copy'[c] # 0,
               \A d \in Clusters : copy[d] # 0 => copy'[d] # 0
        PROVE  IInv'
    <2>1. /\ secured' = secured \union {m}
          /\ exposed' = (IF PendingDelete(c) THEN exposed \union {m} ELSE exposed \ {m})
          /\ got' = [got EXCEPT ![m] = 0]
      BY <1>2 DEF Secured
    <2>2. TypeOK'
      BY <1>2, <2>1, BoundsAssumption DEF IInv, TypeOK
    <2>3. Known' /\ Held'
      BY <1>2, <2>1 DEF IInv, Known, Held
    <2>4. WindowExposed'
      BY <1>2, <2>1 DEF IInv, WindowExposed, PendingDelete, Exists
    <2>5. CredentialsKept'
      <3>. SUFFICES ASSUME NEW n \in secured' \ exposed', Exists(n)'
                    PROVE  copy'[ClusterOf[n]] # 0
        BY DEF CredentialsKept
      <3>1. n \in Machines /\ ClusterOf[n] \in Clusters
        BY <2>1, ClusterOfAssumption DEF IInv, TypeOK
      <3>2. CASE n = m
        BY <1>2, <3>2
      <3>3. CASE n # m
        BY <1>2, <2>1, <3>1, <3>3 DEF IInv, CredentialsKept, Exists
      <3>. QED  BY <3>2, <3>3
    <2>6. Started'
      BY <1>2 DEF IInv, Started
    <2>. QED  BY <2>2, <2>3, <2>4, <2>5, <2>6 DEF IInv
  <1>3. ASSUME Return(m) PROVE /\ pc' \in [Machines -> EnsureSteps]
                               /\ got' \in [Machines -> 0 .. MaxVersion]
                               /\ Other /\ pc'[m] = "idle"
    BY <1>0, <1>3, BoundsAssumption DEF EnsureSteps, Return
  <1>4. ASSUME StoreCopy(m), Shape, pc[m] # "idle" PROVE IInv'
    <2>1. pc' = [OutOfDate(c) EXCEPT ![m] = "idle"] /\ Secured(m)
          /\ copy' = [copy EXCEPT ![c] = got[m]] /\ got' = [got EXCEPT ![m] = 0]
      BY <1>4 DEF StoreCopy, Secured
    <2>2. /\ pc' \in [Machines -> EnsureSteps]
          /\ pc'[m] = "idle" /\ Other
      BY <1>0, <2>1 DEF EnsureSteps, OutOfDate
    <2>3. got[m] # 0
      BY <1>4 DEF IInv, Held
    <2>4. /\ copy' \in [Clusters -> 0 .. MaxVersion] /\ copy'[c] # 0
          /\ \A d \in Clusters : copy[d] # 0 => copy'[d] # 0
      BY <1>0, <2>1, <2>3 DEF IInv, TypeOK
    <2>. QED  BY <1>2, <1>4, <2>1, <2>2, <2>4
  <1>5. CASE EnsureGetSource(m)
    <2>1. Shape /\ UNCHANGED <<copy, secured, exposed>>
      BY <1>5 DEF EnsureGetSource, apiVars, seenVars, histVars, IInv, TypeOK
    <2>2. m \in Managed /\ machineSeen[m] \in {"present", "deleting"}
      BY <1>5 DEF EnsureGetSource
    <2>3. CASE source[c] = 0
      <3>1. Return(m)
        BY <1>5, <2>3 DEF EnsureGetSource
      <3>. QED  BY <1>1, <1>3, <2>1, <3>1
    <2>4. CASE source[c] # 0
      <3>1. pc' = [pc EXCEPT ![m] = "getCopy"] /\ got' = [got EXCEPT ![m] = source[c]]
        BY <1>5, <2>4 DEF EnsureGetSource
      <3>2. source[c] \in 0 .. MaxVersion
        BY <1>0 DEF IInv, TypeOK
      <3>3. /\ pc' \in [Machines -> EnsureSteps]
            /\ got' \in [Machines -> 0 .. MaxVersion]
            /\ Other /\ got'[m] # 0
        BY <1>0, <2>4, <3>1, <3>2 DEF EnsureSteps
      <3>. QED  BY <1>1, <2>1, <2>2, <3>3
    <2>. QED  BY <2>3, <2>4
  <1>6. CASE EnsureGetCopy(m)
    <2>1. Shape /\ UNCHANGED copy /\ pc[m] # "idle"
      BY <1>6 DEF EnsureGetCopy, apiVars, seenVars, IInv, TypeOK
    <2>2. got[m] # 0
      BY <2>1 DEF IInv, Held
    <2>3. CASE copy[c] = got[m]
      <3>1. pc' = [pc EXCEPT ![m] = "idle"] /\ Secured(m) /\ got' = [got EXCEPT ![m] = 0]
        BY <1>6, <2>3 DEF EnsureGetCopy, Secured
      <3>2. /\ pc' \in [Machines -> EnsureSteps]
            /\ pc'[m] = "idle" /\ Other
        BY <1>0, <3>1 DEF EnsureSteps
      <3>3. copy' \in [Clusters -> 0 .. MaxVersion] /\ copy'[c] # 0
        BY <2>1, <2>2, <2>3 DEF IInv, TypeOK
      <3>. QED  BY <1>2, <2>1, <3>1, <3>2, <3>3
    <2>4. CASE copy[c] # got[m]
      <3>1. /\ pc' = [pc EXCEPT ![m] = IF copy[c] = 0 THEN "create" ELSE "update"]
            /\ UNCHANGED <<got, secured, exposed>>
        BY <1>6, <2>4 DEF EnsureGetCopy
      <3>2. /\ pc' \in [Machines -> EnsureSteps]
            /\ got' \in [Machines -> 0 .. MaxVersion] /\ Other
        BY <1>0, <3>1 DEF EnsureSteps
      <3>. QED  BY <1>1, <2>1, <2>2, <3>1, <3>2 DEF IInv, Known
    <2>. QED  BY <2>3, <2>4
  <1>7. CASE EnsureCreate(m) \/ EnsureUpdate(m)
    <2>1. Shape /\ pc[m] # "idle"
      BY <1>7 DEF EnsureCreate, EnsureUpdate, apiVars, seenVars, IInv, TypeOK
    <2>2. StoreCopy(m) \/ (Return(m) /\ UNCHANGED <<copy, secured, exposed>>)
      BY <1>7 DEF EnsureCreate, EnsureUpdate
    <2>. QED  BY <1>1, <1>3, <1>4, <2>1, <2>2
  <1>8. CASE EnsureFails(m)
    <2>1. faults' \in 0 .. MaxFaults
      BY <1>8, BoundsAssumption DEF EnsureFails, IInv, TypeOK
    <2>2. Shape /\ UNCHANGED <<copy, secured, exposed>> /\ Return(m)
      BY <1>8, <2>1 DEF EnsureFails, apiVars, seenVars, histVars, IInv, TypeOK
    <2>. QED  BY <1>1, <1>3, <2>2
  <1>. QED  BY <1>5, <1>6, <1>7, <1>8 DEF Ensure

(* The collection: it only gets to its delete when nobody it could see      *)
(* needs the copy.                                                          *)
LEMMA CollectionSafe ==
    ASSUME IInv, GC \/ GCFails
    PROVE  IInv'
  <1>. DEFINE Shape == /\ UNCHANGED <<source, issued, cluster, machine, clusterSeen, machineSeen,
                                      got, hooked, secured, exposed>>
                       /\ faults' \in 0 .. MaxFaults
              Quiet == gc' \in [step : {"idle", "getCluster", "listMachines", "delete"},
                                at : SUBSET Clusters, todo : SUBSET Clusters]
                       /\ gc'.step # "delete"
  <1>1. ASSUME NEW todo \in SUBSET Clusters, NextCopy(todo) PROVE Quiet
    <2>1. CASE todo = {}
      BY <1>1, <2>1 DEF NextCopy, Idle
    <2>2. CASE todo # {}
      BY <1>1, <2>2 DEF NextCopy
    <2>. QED  BY <2>1, <2>2
  <1>2. ASSUME Shape, Quiet, UNCHANGED <<copy, pc>> PROVE IInv'
    <2>1. TypeOK'
      BY <1>2 DEF IInv, TypeOK
    <2>. QED
      BY <1>2, <2>1 DEF IInv, Started, Known, Held, WindowExposed, CredentialsKept,
                        PendingDelete, Exists
  <1>3. CASE GCList
    <2>1. Quiet
      BY <1>1, <1>3 DEF GCList
    <2>. QED  BY <1>2, <1>3, <2>1 DEF GCList, apiVars, seenVars, workVars, histVars, IInv, TypeOK
  <1>4. CASE GCGetCluster
    <2>1. gc' = [gc EXCEPT !.step = "listMachines"] \/ NextCopy(gc.todo)
      BY <1>4 DEF GCGetCluster
    <2>2. Quiet
      BY <1>1, <2>1 DEF IInv, TypeOK
    <2>. QED
      BY <1>2, <1>4, <2>2 DEF GCGetCluster, apiVars, seenVars, workVars, histVars, IInv, TypeOK
  <1>5. CASE GCListMachines
    <2>1. Shape /\ UNCHANGED <<copy, pc>>
      BY <1>5 DEF GCListMachines, apiVars, seenVars, workVars, histVars, IInv, TypeOK
    <2>2. CASE NextCopy(gc.todo)
      BY <1>1, <1>2, <2>1, <2>2 DEF IInv, TypeOK
    <2>3. CASE /\ gc' = [gc EXCEPT !.step = "delete"]
               /\ \A m \in Managed : ClusterOf[m] \in gc.at =>
                     machineSeen[m] \notin {"present", "deleting"}
      <3>1. TypeOK'
        BY <2>1, <2>3 DEF IInv, TypeOK
      <3>2. gc'.at = gc.at
        BY <2>3 DEF IInv, TypeOK
      <3>3. ASSUME NEW m \in secured, ClusterOf[m] \in gc.at PROVE ~Exists(m)
        BY <2>3, <3>3 DEF IInv, TypeOK, Known, Exists
      <3>4. WindowExposed'
        BY <2>1, <3>2, <3>3 DEF WindowExposed, PendingDelete, Exists
      <3>. QED
        BY <2>1, <3>1, <3>4 DEF IInv, Started, Known, Held, CredentialsKept, Exists
    <2>. QED  BY <1>5, <2>2, <2>3 DEF GCListMachines
  <1>6. CASE GCDelete
    <2>1. PICK c \in gc.at : copy' = [copy EXCEPT ![c] = 0] /\ pc' = OutOfDate(c)
      BY <1>6 DEF GCDelete
    <2>2. Shape /\ gc.step = "delete"
      BY <1>6 DEF GCDelete, apiVars, seenVars, histVars, IInv, TypeOK
    <2>3. Quiet
      BY <1>1, <1>6 DEF GCDelete, IInv, TypeOK
    <2>4. /\ pc' \in [Machines -> EnsureSteps]
          /\ \A m \in Machines : pc'[m] # "idle" => pc[m] # "idle"
      BY <2>1 DEF EnsureSteps, OutOfDate, IInv, TypeOK
    <2>5. copy' \in [Clusters -> 0 .. MaxVersion]
      BY <2>1, BoundsAssumption DEF IInv, TypeOK
    <2>6. TypeOK'
      BY <2>2, <2>3, <2>4, <2>5 DEF IInv, TypeOK
    <2>7. Known' /\ Held' /\ Started'
      BY <2>2, <2>4 DEF IInv, Known, Held, Started
    <2>8. WindowExposed'
      BY <2>3 DEF WindowExposed, PendingDelete
    <2>9. CredentialsKept'
      <3>. SUFFICES ASSUME NEW m \in secured \ exposed, Exists(m)
                    PROVE  copy'[ClusterOf[m]] # 0
        BY <2>2 DEF CredentialsKept, Exists
      <3>1. ClusterOf[m] # c
        BY <2>2 DEF IInv, WindowExposed, PendingDelete
      <3>2. copy[ClusterOf[m]] # 0 /\ ClusterOf[m] \in Clusters
        BY ClusterOfAssumption DEF IInv, TypeOK, CredentialsKept
      <3>. QED  BY <2>1, <3>1, <3>2 DEF IInv, TypeOK
    <2>. QED  BY <2>6, <2>7, <2>8, <2>9 DEF IInv
  <1>7. CASE GCFails
    <2>1. Quiet
      BY <1>7 DEF GCFails, Idle
    <2>2. faults' \in 0 .. MaxFaults
      BY <1>7, BoundsAssumption DEF GCFails, IInv, TypeOK
    <2>. QED  BY <1>2, <1>7, <2>1, <2>2 DEF GCFails, apiVars, seenVars, workVars, histVars
  <1>. QED  BY <1>3, <1>4, <1>5, <1>6, <1>7 DEF GC

(* A crash loses what was in memory, and nothing of what was cached. *)
LEMMA CrashSafe ==
    ASSUME IInv, Crash
    PROVE  IInv'
  <1>1. /\ pc' = [m \in Machines |-> "idle"] /\ got' = [m \in Machines |-> 0] /\ gc' = Idle
        /\ clusterSeen' = cluster /\ machineSeen' = machine
        /\ UNCHANGED <<source, issued, cluster, machine, copy, hooked, secured, exposed>>
    BY DEF Crash, apiVars, histVars
  <1>2. faults' \in 0 .. MaxFaults
    BY BoundsAssumption DEF Crash, IInv, TypeOK
  <1>3. TypeOK'
    BY <1>1, <1>2, BoundsAssumption DEF EnsureSteps, IInv, TypeOK, Idle
  <1>4. Known'
    BY <1>1 DEF IInv, TypeOK, MachineStates, Started, Known
  <1>5. Started' /\ Held' /\ WindowExposed'
    BY <1>1 DEF Started, Held, WindowExposed, PendingDelete, Idle
  <1>6. CredentialsKept'
    BY <1>1 DEF IInv, CredentialsKept, Exists
  <1>. QED  BY <1>3, <1>4, <1>5, <1>6 DEF IInv

(* The inductive invariant holds in every behaviour. *)
THEOREM Invariance == Spec => []IInv
  <1>1. Init => IInv
    <2>. SUFFICES ASSUME Init PROVE IInv
      OBVIOUS
    <2>1. TypeOK
      BY BoundsAssumption DEF EnsureSteps, Init, TypeOK, ClusterStates, MachineStates, Idle
    <2>. QED
      BY <2>1 DEF Init, IInv, Started, Known, Held, WindowExposed, CredentialsKept
  <1>2. IInv /\ [Next]_vars => IInv'
    <2>. SUFFICES ASSUME IInv, [Next]_vars PROVE IInv'
      OBVIOUS
    <2>1. CASE UNCHANGED vars
      BY <2>1 DEF vars, apiVars, seenVars, workVars, histVars, IInv, TypeOK, Started, Known,
                  Held, WindowExposed, CredentialsKept, PendingDelete, Exists
    <2>. QED
      BY <2>1, SourceSafe, MachineSafe, WatchSafe, EnsureSafe, CollectionSafe, CrashSafe DEF Next
  <1>. QED  BY <1>1, <1>2, PTL DEF Spec

(* Every variable of the credential cache keeps its type: versions never    *)
(* pass their bound, and the collection is always at one of its calls.      *)
THEOREM TypeCorrectness == Spec => []TypeOK
  <1>1. IInv => TypeOK
    BY DEF IInv
  <1>. QED  BY <1>1, Invariance, PTL

(* Whatever Ensure, GC, the source and the process do, and in whatever      *)
(* order, a Machine whose credentials were cached finds the copy for its    *)
(* teardown, unless it was cached after the last check of a collection.     *)
THEOREM CredentialSafety == Spec => []CredentialsKept
  <1>1. IInv => CredentialsKept
    BY DEF IInv
  <1>. QED  BY <1>1, Invariance, PTL
=============================================================================
