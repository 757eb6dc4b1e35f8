-------------------------- MODULE CredentialCache --------------------------
(***************************************************************************)
(* The talosconfig copies of internal/teardown/credentials.go: concurrent  *)
(* reconciles that refresh and read the copy of their cluster, and the     *)
(* periodic garbage collection of cmd/talos-machine-teardown/main.go.      *)
(*                                                                         *)
(* Secrets are read from the API server, Clusters and Machines from the    *)
(* informer cache.  Every call is an action.  A secret is known by the     *)
(* version of the source it was copied from, and the resourceVersion       *)
(* precondition of an update by whether the copy was written since it was  *)
(* read: pc turns from "update" to "conflict" when somebody else does.     *)
(***************************************************************************)
EXTENDS Naturals

CONSTANTS
    Clusters,       \* cluster names
    Machines,       \* the Machines that exist at some time
    ClusterOf,      \* the cluster of each Machine
    Managed,        \* the Machines that qualify
    Later,          \* the Machines that are created later, if at all
    MaxVersion,     \* bound on the versions of a source secret
    MaxFaults       \* bound on failed calls and crashes

ASSUME ClusterOfAssumption == ClusterOf \in [Machines -> Clusters]
ASSUME ManagedAssumption == Managed \subseteq Machines
ASSUME LaterAssumption == Later \subseteq Machines
ASSUME BoundsAssumption == MaxVersion \in Nat \ {0} /\ MaxFaults \in Nat

VARIABLES
    source,       \* version of <cluster>-talosconfig, 0 when it is missing
    issued,       \* the latest version it ever had
    copy,         \* source version annotated on the copy, 0 when missing
    cluster,      \* the Clusters in the API server
    clusterSeen,  \* the same as the informer shows them
    machine,      \* the Machines in the API server
    machineSeen,  \* the same as the informer shows them
    pc,           \* the next call of the reconcile of each Machine
    got,          \* the source version it holds
    hooked,       \* Machines with the pre-terminate hook
    gc,           \* the garbage collection: its next call and what is left
    secured,      \* history: Machines whose Ensure found and kept a source
    exposed,      \* history: of those, the ones secured under a pending delete
    faults        \* faults spent so far

apiVars == <<source, issued, cluster, machine>>
seenVars == <<clusterSeen, machineSeen>>
workVars == <<pc, got, hooked>>
histVars == <<secured, exposed>>
vars == <<apiVars, copy, seenVars, workVars, gc, histVars, faults>>

ClusterStates == {"present", "deleting", "gone"}
EnsureSteps == {"idle", "getCopy", "create", "update", "conflict"}
MachineStates == {"future", "present", "deleting", "gone"}
Exists(m) == machine[m] \in {"present", "deleting"}
Of(c) == {m \in Machines : ClusterOf[m] = c}

Idle == [step |-> "idle", at |-> {}, todo |-> {}]
PendingDelete(c) == gc.step = "delete" /\ c \in gc.at

-----------------------------------------------------------------------------
(* The cluster around the cache. *)

(* CABPT writes the talosconfig of c: a rotation, or a new Cluster's. *)
NewSource(c) ==
    /\ issued[c] < MaxVersion
    /\ issued' = [issued EXCEPT ![c] = @ + 1]
    /\ source' = [source EXCEPT ![c] = issued[c] + 1]

RotateSource(c) ==
    /\ cluster[c] = "present"
    /\ NewSource(c)
    /\ UNCHANGED <<cluster, machine, copy, seenVars, workVars, gc, histVars, faults>>

(* Owner-reference garbage collection takes the source of a deleted Cluster. *)
CollectSource(c) ==
    /\ cluster[c] # "present"
    /\ source[c] # 0
    /\ source' = [source EXCEPT ![c] = 0]
    /\ UNCHANGED <<issued, cluster, machine, copy, seenVars, workVars, gc, histVars, faults>>

(* The Cluster is deleted, and finalized: by hand, with Machines left, too. *)
DeleteCluster(c) ==
    /\ cluster[c] # "gone"
    /\ cluster' = [cluster EXCEPT ![c] = IF @ = "present" THEN "deleting" ELSE "gone"]
    /\ UNCHANGED <<source, issued, machine, copy, seenVars, workVars, gc, histVars, faults>>

(* A Cluster of the same name is created. *)
RecreateCluster(c) ==
    /\ cluster[c] = "gone"
    /\ cluster' = [cluster EXCEPT ![c] = "present"]
    /\ NewSource(c)
    /\ UNCHANGED <<machine, copy, seenVars, workVars, gc, histVars, faults>>

(* A Machine is created, deleted, and goes: released, or by hand.           *)
MachineMoves(m) ==
    /\ \/ machine[m] = "future" /\ cluster[ClusterOf[m]] = "present"
       \/ Exists(m)
    /\ machine' = [machine EXCEPT ![m] =
                     CASE @ = "future"  -> "present"
                       [] @ = "present" -> "deleting"
                       [] OTHER         -> "gone"]
    /\ LET Forget(S) == IF machine[m] = "deleting" THEN S \ {m} ELSE S
       IN  /\ secured' = Forget(secured)
           /\ exposed' = Forget(exposed)
    /\ UNCHANGED <<source, issued, cluster, copy, seenVars, workVars, gc, faults>>

(* The informers catch up, each kind in a watch of its own. *)
SyncClusters ==
    /\ clusterSeen # cluster
    /\ clusterSeen' = cluster
    /\ UNCHANGED <<apiVars, copy, machineSeen, workVars, gc, histVars, faults>>

SyncMachines ==
    /\ machineSeen # machine
    /\ machineSeen' = machine
    /\ UNCHANGED <<apiVars, copy, clusterSeen, workVars, gc, histVars, faults>>

-----------------------------------------------------------------------------
(* Ensure, as the reconcile of Machine m runs it. *)

Return(m) ==
    /\ pc' = [pc EXCEPT ![m] = "idle"]
    /\ got' = [got EXCEPT ![m] = 0]

(* Who has read the copy of c and means to update it holds an old revision. *)
OutOfDate(c) ==
    [n \in Machines |-> IF ClusterOf[n] = c /\ pc[n] = "update" THEN "conflict" ELSE pc[n]]

(* Ensure returns without an error, and the copy is there. *)
Secured(m) ==
    /\ secured' = secured \union {m}
    /\ exposed' = IF PendingDelete(ClusterOf[m]) THEN exposed \union {m} ELSE exposed \ {m}
    /\ got' = [got EXCEPT ![m] = 0]

(* The copy is written with what m read, and Ensure returns. *)
StoreCopy(m) ==
    /\ copy' = [copy EXCEPT ![ClusterOf[m]] = got[m]]
    /\ pc' = [OutOfDate(ClusterOf[m]) EXCEPT ![m] = "idle"]
    /\ Secured(m)

(* A healthy Machine refreshes the copy on every reconcile, one that is     *)
(* already being deleted only when it gets its hook.                        *)
EnsureGetSource(m) ==
    LET c == ClusterOf[m]
    IN  /\ pc[m] = "idle" /\ m \in Managed
        /\ \/ machineSeen[m] = "present"
           \/ machineSeen[m] = "deleting" /\ m \notin hooked
        /\ hooked' = hooked \union {m}
        /\ IF source[c] = 0 THEN Return(m)
           ELSE /\ pc' = [pc EXCEPT ![m] = "getCopy"]
                /\ got' = [got EXCEPT ![m] = source[c]]
        /\ UNCHANGED <<apiVars, copy, seenVars, gc, histVars, faults>>

(* A copy that is there is taken as up to date. *)
Bug_EnsureGetCopy(m) ==
    /\ pc[m] = "getCopy"
    /\ \/ /\ copy[ClusterOf[m]] # 0
          /\ pc' = [pc EXCEPT ![m] = "idle"]
          /\ Secured(m)
       \/ /\ copy[ClusterOf[m]] = 0
          /\ pc' = [pc EXCEPT ![m] = "create"]
          /\ UNCHANGED <<got, secured, exposed>>
    /\ UNCHANGED <<apiVars, copy, seenVars, hooked, gc, faults>>

(* A copy of the version that was read is kept, any other one rewritten. *)
EnsureGetCopy(m) ==
    LET c == ClusterOf[m]
    IN  /\ pc[m] = "getCopy"
        /\ \/ /\ copy[c] = got[m]
              /\ pc' = [pc EXCEPT ![m] = "idle"]
              /\ Secured(m)
           \/ /\ copy[c] # got[m]
              /\ pc' = [pc EXCEPT ![m] = IF copy[c] = 0 THEN "create" ELSE "update"]
              /\ UNCHANGED <<got, secured, exposed>>
        /\ UNCHANGED <<apiVars, copy, seenVars, hooked, gc, faults>>

(* A plain POST: somebody else's copy is AlreadyExists, an error. *)
EnsureCreate(m) ==
    /\ pc[m] = "create"
    /\ IF copy[ClusterOf[m]] = 0
       THEN StoreCopy(m)
       ELSE Return(m) /\ UNCHANGED <<copy, secured, exposed>>
    /\ UNCHANGED <<apiVars, seenVars, hooked, gc, faults>>

(* The resourceVersion of the copy that was read is the precondition: a     *)
(* copy that was written or deleted since is a Conflict or NotFound error.  *)
EnsureUpdate(m) ==
    /\ pc[m] \in {"update", "conflict"}
    /\ IF pc[m] = "update"
       THEN StoreCopy(m)
       ELSE Return(m) /\ UNCHANGED <<copy, secured, exposed>>
    /\ UNCHANGED <<apiVars, seenVars, hooked, gc, faults>>

-----------------------------------------------------------------------------
(* GC: one pass over the copies, at startup and on every tick. *)

(* The pass goes on with the next copy, or ends. *)
NextCopy(todo) ==
    IF todo = {} THEN gc' = Idle
    ELSE \E c \in todo : gc' = [step |-> "getCluster", at |-> {c}, todo |-> todo \ {c}]

GCList ==
    /\ gc = Idle
    /\ NextCopy({c \in Clusters : copy[c] # 0})
    /\ UNCHANGED <<apiVars, copy, seenVars, workVars, histVars, faults>>

(* A Cluster that is not found is an error, and only a deleting one is gone. *)
Bug_GCGetCluster ==
    /\ gc.step = "getCluster"
    /\ IF \A c \in gc.at : clusterSeen[c] = "deleting"
       THEN gc' = [gc EXCEPT !.step = "listMachines"]
       ELSE NextCopy(gc.todo)
    /\ UNCHANGED <<apiVars, copy, seenVars, workVars, histVars, faults>>

(* clusterGone, its first read: a Cluster that is only deleting still counts. *)
GCGetCluster ==
    /\ gc.step = "getCluster"
    /\ IF \A c \in gc.at : clusterSeen[c] = "gone"
       THEN gc' = [gc EXCEPT !.step = "listMachines"]
       ELSE NextCopy(gc.todo)
    /\ UNCHANGED <<apiVars, copy, seenVars, workVars, histVars, faults>>

(* The Machines are not looked at. *)
Bug_GCListMachines ==
    /\ gc.step = "listMachines"
    /\ gc' = [gc EXCEPT !.step = "delete"]
    /\ UNCHANGED <<apiVars, copy, seenVars, workVars, histVars, faults>>

(* clusterGone, its second read: any qualifying Machine keeps the copy. *)
GCListMachines ==
    /\ gc.step = "listMachines"
    /\ IF \A m \in Managed : ClusterOf[m] \in gc.at =>
             machineSeen[m] \notin {"present", "deleting"}
       THEN gc' = [gc EXCEPT !.step = "delete"]
       ELSE NextCopy(gc.todo)
    /\ UNCHANGED <<apiVars, copy, seenVars, workVars, histVars, faults>>

(* The delete has no precondition: whatever is there goes. *)
GCDelete ==
    /\ gc.step = "delete"
    /\ \E c \in gc.at : /\ copy' = [copy EXCEPT ![c] = 0]
                        /\ pc' = OutOfDate(c)
    /\ NextCopy(gc.todo)
    /\ UNCHANGED <<apiVars, seenVars, got, hooked, histVars, faults>>

(* A call fails: the pass is over, and only logged. *)
GCFails ==
    /\ gc # Idle
    /\ faults < MaxFaults
    /\ faults' = faults + 1
    /\ gc' = Idle
    /\ UNCHANGED <<apiVars, copy, seenVars, workVars, histVars>>

(* A call of a reconcile fails: the error requeues the Machine. *)
EnsureFails(m) ==
    /\ pc[m] # "idle"
    /\ faults < MaxFaults
    /\ faults' = faults + 1
    /\ Return(m)
    /\ UNCHANGED <<apiVars, copy, seenVars, hooked, gc, histVars>>

(* The process dies; its successor lists everything anew. *)
Crash ==
    /\ faults < MaxFaults
    /\ faults' = faults + 1
    /\ pc' = [m \in Machines |-> "idle"]
    /\ got' = [m \in Machines |-> 0]
    /\ gc' = Idle
    /\ clusterSeen' = cluster
    /\ machineSeen' = machine
    /\ UNCHANGED <<apiVars, copy, hooked, histVars>>

-----------------------------------------------------------------------------

Init ==
    /\ cluster = [c \in Clusters |-> "present"]
    /\ source = [c \in Clusters |-> 1]
    /\ issued = [c \in Clusters |-> 1]
    /\ copy = [c \in Clusters |-> 0]
    /\ machine = [m \in Machines |-> IF m \in Later THEN "future" ELSE "present"]
    /\ clusterSeen = cluster
    /\ machineSeen = machine
    /\ pc = [m \in Machines |-> "idle"]
    /\ got = [m \in Machines |-> 0]
    /\ hooked = {}
    /\ gc = Idle
    /\ secured = {}
    /\ exposed = {}
    /\ faults = 0

Ensure(m) ==
    \/ EnsureGetSource(m)
    \/ EnsureGetCopy(m)
    \/ EnsureCreate(m)
    \/ EnsureUpdate(m)

GC == GCList \/ GCGetCluster \/ GCListMachines \/ GCDelete

Next ==
    \/ \E c \in Clusters : \/ RotateSource(c)
                         \/ CollectSource(c)
                         \/ DeleteCluster(c)
                         \/ RecreateCluster(c)
    \/ \E m \in Machines : MachineMoves(m)
    \/ SyncClusters
    \/ SyncMachines
    \/ \E m \in Machines : Ensure(m) \/ EnsureFails(m)
    \/ GC
    \/ GCFails
    \/ Crash

Spec == Init /\ [][Next]_vars

(***************************************************************************)
(* Fairness.  A started call ends, the informers deliver, every Machine is *)
(* reconciled again and again (its watch, and the manager's resync), and   *)
(* the collection ticker never stops.                                      *)
(***************************************************************************)
FairSpec ==
    /\ Spec
    /\ \A m \in Machines : WF_vars(Ensure(m))
    /\ WF_vars(GC)
    /\ WF_vars(SyncClusters) /\ WF_vars(SyncMachines)

-----------------------------------------------------------------------------
(* Properties. *)

TypeOK ==
    /\ source \in [Clusters -> 0 .. MaxVersion]
    /\ issued \in [Clusters -> 1 .. MaxVersion]
    /\ copy \in [Clusters -> 0 .. MaxVersion]
    /\ cluster \in [Clusters -> ClusterStates]
    /\ clusterSeen \in [Clusters -> ClusterStates]
    /\ machine \in [Machines -> MachineStates]
    /\ machineSeen \in [Machines -> MachineStates]
    /\ pc \in [Machines -> EnsureSteps]
    /\ got \in [Machines -> 0 .. MaxVersion]
    /\ hooked \subseteq Machines
    /\ gc \in [step : {"idle", "getCluster", "listMachines", "delete"},
               at : SUBSET Clusters, todo : SUBSET Clusters]
    /\ secured \subseteq Machines
    /\ exposed \subseteq Machines
    /\ faults \in 0 .. MaxFaults

(* A Machine whose credentials were cached keeps them until it is gone,     *)
(* whatever happens to the Cluster, the source or the process, and its      *)
(* teardown always finds a talosconfig.  The one exception is a Machine     *)
(* that was cached between the last check of a collection and its delete.   *)
CredentialsKept ==
    \A m \in secured \ exposed :
        Exists(m) => copy[ClusterOf[m]] # 0

(* Every race over the copy heals: in a Cluster that stays, with a Machine  *)
(* that stays healthy, the copy comes to equal the source for good.         *)
CopyConverges ==
    \A c \in Clusters, m \in Managed :
        ClusterOf[m] = c =>
            (<>[](cluster[c] = "present" /\ source[c] # 0 /\ machine[m] = "present")
                => <>[](copy[c] = source[c]))

(* No copy is left behind: when a Cluster and its qualifying Machines are   *)
(* gone for good the copy is deleted for good, also one that a late Ensure  *)
(* created after a collection.                                              *)
StraysCollected ==
    \A c \in Clusters :
        <>[](/\ cluster[c] = "gone"
             /\ \A m \in Managed : ClusterOf[m] = c => ~Exists(m))
            => <>[](copy[c] = 0)
=============================================================================
