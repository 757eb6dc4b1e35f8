---------------------------- MODULE TeardownEnv ----------------------------
(***************************************************************************)
(* The world talos-machine-teardown runs in: the API server's Machines of  *)
(* one cluster, the controller's informer cache and work queue, the CAPI   *)
(* machine controller with its pre-terminate gate, CAPT's power-off, a     *)
(* CACPPT scale-down, cluster deletion, the Talos nodes with their etcd    *)
(* membership, and the clock.  None of this is code of the repository; it  *)
(* is modelled from what the reconciler reads, writes and waits for.       *)
(***************************************************************************)
EXTENDS MachineObject, FiniteSets

CONSTANTS
    Machines,       \* the cluster's Machines; their order is the name order
    ControlPlane,   \* those with the control-plane label
    Managed,        \* those that qualify: Talos on Tinkerbell infrastructure
    Deletable,      \* those that somebody deletes
    Addressed,      \* those for which resolveAddress finds an address
    Env,            \* the hazards of the environment that are switched on
    MaxFaults       \* bound on failed API calls, crashes and manual edits

EnvKinds ==
    { "staleCache",     \* the informer cache may lag the API server
      "lateStamp",      \* a Machine may be deleted before it is stamped
      "sameSecond",     \* deletions may share a deletionTimestamp
      "otherHooks",     \* other controllers hold pre-terminate hooks
      "legacyHook",     \* pre-rename leftovers exist
      "takeover",       \* an earlier process has already stamped some Machines
      "scaleDown",      \* CACPPT takes members out of etcd by itself
      "clusterDelete",  \* the whole Cluster may be deleted
      "lostAck",        \* an RPC may take effect and still report an error
      "edit" }          \* annotations and references may be edited by hand

ASSUME MachinesAssumption == Machines \subseteq Nat
ASSUME SubsetsAssumption ==
    /\ ControlPlane \subseteq Machines
    /\ Managed \subseteq Machines
    /\ Deletable \subseteq Machines
    /\ Addressed \subseteq Machines
ASSUME ControlPlaneAssumption == ControlPlane # {}
ASSUME EnvAssumption == Env \subseteq EnvKinds
ASSUME MaxFaultsAssumption == MaxFaults \in Nat

VARIABLES
    api,          \* Machines in the API server
    cache,        \* the same as the controller's informer shows them
    queue,        \* Machines waiting in the controller's work queue
    cluster,      \* the Cluster is deleted or being deleted
    clusterSeen,  \* the same as the informer shows it
    infra,        \* the TinkerbellMachine: present, deleting, or off
    members,      \* Machines whose node is an etcd member
    wiped,        \* Machines whose node was reset: disk wiped, node halted
    creds,        \* where a talosconfig can be read: live secret, cached copy
    second,       \* the latest deletionTimestamp, 0 before the first
    faults        \* faults spent so far

envVars == <<api, cache, queue, cluster, clusterSeen, infra, members, wiped,
             creds, second, faults>>

-----------------------------------------------------------------------------
(* Writes and watch events. *)

Stale == "staleCache" \in Env

(* Machines whose watch event passes the predicate between two snapshots. *)
Notified(before, after) ==
    {m \in Machines : before[m] # after[m] /\ Admitted(after[m])}

(* A deleting Cluster wakes the Machines that the cache lists. *)
ClusterToMachines == {m \in Machines : Admitted(cache[m])}

(* Any event of a TinkerbellMachine wakes its owner. *)
InfraMachineToMachine(m) == {m}

(* The API server stores Machines; a cache that never lags shows them at once. *)
Store(new) ==
    /\ api' = new
    /\ cache' = IF Stale THEN cache ELSE new
    /\ queue' = IF Stale THEN queue ELSE queue \union Notified(cache, new)

(* The informer catches up with the Machines: one ordered watch stream, so *)
(* the cache is always some earlier state of the whole store.              *)
SyncMachines ==
    /\ cache # api
    /\ cache' = api
    /\ queue' = queue \union Notified(cache, api)
    /\ UNCHANGED <<api, cluster, clusterSeen, infra, members, wiped, creds,
                   second, faults>>

(* The informer sees the deletion of the Cluster. *)
SyncCluster ==
    /\ cluster # clusterSeen
    /\ clusterSeen' = cluster
    /\ queue' = queue \union ClusterToMachines
    /\ UNCHANGED <<api, cache, cluster, infra, members, wiped, creds, second,
                   faults>>

-----------------------------------------------------------------------------
(* The cluster's other controllers. *)

(* The deletionTimestamps that a deletion may get now. *)
NextSeconds ==
    {second + 1} \union {t \in {second} : "sameSecond" \in Env /\ t > 0}

(* A user, an owner or a health check deletes a Machine. *)
DeleteMachine(m) ==
    /\ m \in Deletable
    /\ ~Deleting(api[m])
    /\ HasHook(api[m]) \/ "lateStamp" \in Env
    /\ second' \in NextSeconds
    /\ Store([api EXCEPT ![m].del = second'])
    /\ UNCHANGED <<cluster, clusterSeen, infra, members, wiped, creds, faults>>

(* The machine controller begins the deletion. *)
CapiStart(m) ==
    /\ Deleting(api[m])
    /\ api[m].reason = NotStarted
    /\ Store([api EXCEPT ![m].reason = Draining])
    /\ UNCHANGED <<cluster, clusterSeen, infra, members, wiped, creds, second,
                   faults>>

(* The node is drained, or a later pass finds a hook added after the infra *)
(* deletion began: any key of the prefix parks the Machine.                *)
CapiPark(m) ==
    /\ api[m].reason \in {Draining, Later}
    /\ AnyPreTerminateHook(api[m])
    /\ Store([api EXCEPT ![m].reason = PreTerminate])
    /\ UNCHANGED <<cluster, clusterSeen, infra, members, wiped, creds, second,
                   faults>>

(* The gate is open: the infrastructure is deleted, the reason still old. *)
CapiPassGate(m) ==
    /\ api[m].reason \in {Draining, PreTerminate}
    /\ ~AnyPreTerminateHook(api[m])
    /\ infra[m] = "present"
    /\ infra' = [infra EXCEPT ![m] = "deleting"]
    /\ queue' = queue \union InfraMachineToMachine(m)
    /\ UNCHANGED <<api, cache, cluster, clusterSeen, members, wiped,
                   creds, second, faults>>

(* The pass that deleted the infrastructure patches the condition last. *)
CapiPublish(m) ==
    /\ infra[m] # "present"
    /\ ~AnyPreTerminateHook(api[m])
    /\ api[m].reason # Later
    /\ Store([api EXCEPT ![m].reason = Later])
    /\ UNCHANGED <<cluster, clusterSeen, infra, members, wiped, creds, second,
                   faults>>

(* CAPT powers the host off. *)
PowerOff(m) ==
    /\ infra[m] = "deleting"
    /\ infra' = [infra EXCEPT ![m] = "off"]
    /\ queue' = queue \union InfraMachineToMachine(m)
    /\ UNCHANGED <<api, cache, cluster, clusterSeen, members, wiped,
                   creds, second, faults>>

(* Another controller finishes its pre-terminate work. *)
RemoveOtherHook(m) ==
    /\ api[m].other
    /\ Store([api EXCEPT ![m].other = FALSE])
    /\ UNCHANGED <<cluster, clusterSeen, infra, members, wiped, creds, second,
                   faults>>

(* CACPPT marks a Machine before a graceful leave that may or may not take *)
(* effect; it only scales down while another member stays.                 *)
ScaleDown(m) ==
    /\ "scaleDown" \in Env
    /\ m \in ControlPlane \intersect members
    /\ ~Deleting(api[m]) /\ ~api[m].leaving
    /\ \E p \in members \ {m} : ~Deleting(api[p]) /\ ~api[p].leaving
    /\ Store([api EXCEPT ![m].leaving = TRUE])
    /\ members' \in {members, members \ {m}}
    /\ UNCHANGED <<cluster, clusterSeen, infra, wiped, creds, second, faults>>

DeleteCluster ==
    /\ "clusterDelete" \in Env
    /\ ~cluster
    /\ cluster' = TRUE
    /\ clusterSeen' = IF Stale THEN clusterSeen ELSE TRUE
    /\ queue' = IF Stale THEN queue ELSE queue \union ClusterToMachines
    /\ UNCHANGED <<api, cache, infra, members, wiped, creds, second, faults>>

(* Owner-reference garbage collection takes the live talosconfig secret. *)
SecretCollected ==
    /\ cluster
    /\ "live" \in creds
    /\ creds' = creds \ {"live"}
    /\ UNCHANGED <<api, cache, queue, cluster, clusterSeen, infra, members,
                   wiped, second, faults>>

(* Somebody garbles the observed-at annotation. *)
EditObservedAt(m) ==
    /\ "edit" \in Env /\ faults < MaxFaults
    /\ api[m].obs # NotObserved
    /\ Store([api EXCEPT ![m].obs = NotObserved])
    /\ faults' = faults + 1
    /\ UNCHANGED <<cluster, clusterSeen, infra, members, wiped, creds, second>>

(* Somebody edits the references so that the Machine stops to qualify. *)
BreakQualification(m) ==
    /\ "edit" \in Env /\ faults < MaxFaults
    /\ Qualifies(api[m])
    /\ Store([api EXCEPT ![m].qual = FALSE])
    /\ faults' = faults + 1
    /\ UNCHANGED <<cluster, clusterSeen, infra, members, wiped, creds, second>>

-----------------------------------------------------------------------------
(* Talos nodes, and what the controller's probes of them find. *)

(* resolveAddress: whether any source of the fallback chain has an address. *)
ResolveAddress(m) == m \in Addressed

(* The node answers its Talos API. *)
NodeUp(m) == ResolveAddress(m) /\ m \notin wiped /\ infra[m] # "off"

(* etcdHealthy: the node's etcd is running and healthy. *)
EtcdHealthy(m) == NodeUp(m) /\ m \in members

(* etcdNotFinished: etcd has not left the cluster through this node. *)
EtcdNotFinished(m) == NodeUp(m) /\ m \in members

(* findMember: a healthy peer's member list has the node, under one of the  *)
(* hostname candidates.                                                     *)
FindMember(m) == m \in members

-----------------------------------------------------------------------------

EnvTypeOK ==
    /\ api \in [Machines -> Machine]
    /\ cache \in [Machines -> Machine]
    /\ queue \subseteq Machines
    /\ cluster \in BOOLEAN
    /\ clusterSeen \in BOOLEAN
    /\ infra \in [Machines -> {"present", "deleting", "off"}]
    /\ members \subseteq ControlPlane
    /\ wiped \subseteq Machines
    /\ creds \subseteq {"live", "cached"}
    /\ second \in Nat
    /\ faults \in 0 .. MaxFaults

(* The sets of Machines that a switch of the environment may affect. *)
Affected(kind) == IF kind \in Env THEN SUBSET Managed ELSE {{}}

(* A fleet of healthy Machines. *)
HealthyFleet(hooked, leftover, foreign) ==
    [m \in Machines |-> [NoMachine EXCEPT !.qual = m \in Managed, !.hook = m \in hooked,
                                         !.legacy = m \in leftover, !.other = m \in foreign]]

(* A process starts over such a fleet and queues what its first list admits. *)
EnvInit ==
    /\ \E hooked \in Affected("takeover"), leftover \in Affected("legacyHook"),
          foreign \in Affected("otherHooks") :
            api = HealthyFleet(hooked, leftover, foreign)
    /\ cache = api
    /\ queue = {m \in Machines : Admitted(api[m])}
    /\ cluster = FALSE
    /\ clusterSeen = FALSE
    /\ infra = [m \in Machines |-> "present"]
    /\ members = ControlPlane
    /\ wiped = {}
    /\ creds = {"live"}
    /\ second = 0
    /\ faults = 0

CapiNext(m) ==
    \/ CapiStart(m)
    \/ CapiPark(m)
    \/ CapiPassGate(m)
    \/ CapiPublish(m)
    \/ PowerOff(m)

EnvNext ==
    \/ SyncMachines
    \/ SyncCluster
    \/ DeleteCluster
    \/ SecretCollected
    \/ \E m \in Machines :
         \/ DeleteMachine(m)
         \/ CapiNext(m)
         \/ RemoveOtherHook(m)
         \/ ScaleDown(m)
         \/ EditObservedAt(m)
         \/ BreakQualification(m)
=============================================================================
