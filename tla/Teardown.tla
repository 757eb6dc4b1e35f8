------------------------------ MODULE Teardown ------------------------------
(***************************************************************************)
(* talos-machine-teardown: the pre-terminate state machine of              *)
(* internal/teardown/reconciler.go, run by concurrent workers over the     *)
(* environment of TeardownEnv.                                             *)
(*                                                                         *)
(* The work queue hands one Machine to at most one worker at a time, so a  *)
(* running reconcile is identified by its Machine m.  pc[m] names the next *)
(* call to the API server or to a Talos node; everything between two such  *)
(* calls is local and belongs to the action of the earlier call.           *)
(***************************************************************************)
EXTENDS TeardownEnv

VARIABLES
    pc,        \* the next call of the reconcile of each Machine
    obj,       \* its in-memory copy of the Machine
    peers,     \* the peers it may still ask for the etcd member list
    outcome,   \* the phase conclusion it is about to stamp
    gated      \* history: Machines that got the hook before their infra went

ctlVars == <<pc, obj, peers, outcome, gated>>
vars == <<envVars, ctlVars>>

EtcdSteps == {"findPeer", "probePeer", "leave", "remove"}
ResetSteps == {"reset"}
Steps == {"idle", "stamp", "creds", "observe", "cluster", "serialize"}
             \union EtcdSteps \union {"stampEtcd"}
             \union ResetSteps \union {"stampReset", "release"}

-----------------------------------------------------------------------------
(* Control flow between the calls. *)

(* The reconcile of m goes on at step with o in memory, or returns. *)
Goto(m, step, o) ==
    /\ pc' = [pc EXCEPT ![m] = step]
    /\ obj' = [obj EXCEPT ![m] = IF step = "idle" THEN NoMachine ELSE o]
    /\ peers' = [peers EXCEPT ![m] = {}]

(* It goes on at step of its search for a peer, with ps left to ask. *)
Ask(m, step, ps) ==
    /\ pc' = [pc EXCEPT ![m] = step]
    /\ peers' = [peers EXCEPT ![m] = ps]
    /\ UNCHANGED obj

(* It returns neither: the queue forgets m. *)
Bug_Requeue(m) ==
    /\ Goto(m, "idle", NoMachine)
    /\ UNCHANGED queue

(* It returns an error or a RequeueAfter: the queue gets m back later. *)
Requeue(m) ==
    /\ Goto(m, "idle", NoMachine)
    /\ queue' = queue \union {m}

(* It goes on at step, returns for good, or returns to be requeued; q is   *)
(* the queue without that.                                                  *)
Resume(m, step, o, q) ==
    /\ Goto(m, IF step = "requeue" THEN "idle" ELSE step, o)
    /\ queue' = IF step = "requeue" THEN q \union {m} ELSE q

(* A phase is concluded; its annotation is stamped next. *)
Conclude(m, step, value) ==
    /\ Goto(m, step, obj[m])
    /\ outcome' = [outcome EXCEPT ![m] = value]

(* A restarted worker stamps the observation again. *)
Bug_AfterHook(o) ==
    IF ~AtPreTerminate(o) THEN "idle"
    ELSE IF HasOtherPreTerminateHooks(o) THEN "requeue"
    ELSE "observe"

(* reconcileDeleting past the hook: never act early, run last. *)
AfterHook(o) ==
    IF ~AtPreTerminate(o) THEN "idle"
    ELSE IF HasOtherPreTerminateHooks(o) THEN "requeue"
    ELSE IF o.obs = NotObserved THEN "observe"
    ELSE "cluster"

(* The conclusion of an earlier teardown is not looked at. *)
Bug_ReconcileDeleting(o) ==
    IF HasHook(o) THEN AfterHook(o)
    ELSE IF ~StampAllowed(o) THEN "idle"
    ELSE "stamp"

(* reconcileDeleting up to its first call. *)
ReconcileDeleting(o) ==
    IF HasHook(o) THEN AfterHook(o)
    ELSE IF o.reset # "none" \/ ~StampAllowed(o) THEN "idle"
    ELSE "stamp"

(* reconcileNormal up to its first call. *)
ReconcileNormal(o) == IF HasHook(o) THEN "creds" ELSE "stamp"

(* resetPhase takes the etcd conclusion for its own. *)
Bug_AfterEtcd(o) == IF o.etcd # "none" THEN "release" ELSE "reset"

(* resetPhase up to its first call: a recorded conclusion goes to release. *)
AfterEtcd(o) == IF o.reset # "none" THEN "release" ELSE "reset"

(* Reconcile, with what the cache holds of m. *)
Reconcile(m) ==
    LET o == cache[m]
        step == IF ~Admitted(o) THEN "idle"
                ELSE IF Deleting(o) THEN ReconcileDeleting(o)
                ELSE ReconcileNormal(o)
    IN  /\ m \in queue /\ pc[m] = "idle"
        /\ Resume(m, step, o, queue \ {m})
        /\ UNCHANGED <<api, cache, cluster, clusterSeen, infra, members, wiped,
                       creds, second, faults, outcome, gated>>

-----------------------------------------------------------------------------
(* Hook and credentials. *)

(* ensureHook: one merge patch adds the hook and removes the leftovers that *)
(* the in-memory copy shows.                                                *)
Stamp(m) ==
    LET Stamped(o) == [o EXCEPT !.hook = TRUE,
                                !.legacy = @ /\ ~obj[m].legacy]
    IN  /\ pc[m] = "stamp"
        /\ Store([api EXCEPT ![m] = Stamped(api[m])])
        /\ Goto(m, "creds", Stamped(obj[m]))
        /\ gated' = IF infra[m] = "present" THEN gated \union {m} ELSE gated
        /\ UNCHANGED <<cluster, clusterSeen, infra, members, wiped, creds,
                       second, faults, outcome>>

(* CredentialCache.Ensure: a missing source keeps whatever the cache has. *)
Ensure == IF "live" \in creds THEN creds \union {"cached"} ELSE creds

(* CredentialCache.Config: the live secret, or else the cached copy. *)
Config == creds # {}

(* ensureCredentials, then back to the caller. *)
EnsureCredentials(m) ==
    /\ pc[m] = "creds"
    /\ creds' = Ensure
    /\ Resume(m, IF Deleting(obj[m]) THEN AfterHook(obj[m]) ELSE "idle", obj[m], queue)
    /\ UNCHANGED <<api, cache, cluster, clusterSeen, infra, members, wiped,
                   second, faults, outcome, gated>>

-----------------------------------------------------------------------------
(* The clock and the mode. *)

(* ensureObservedAt, when there is no parseable timestamp yet. *)
Observe(m) ==
    /\ pc[m] = "observe"
    /\ Store([api EXCEPT ![m].obs = 0])
    /\ Goto(m, "cluster", [obj[m] EXCEPT !.obs = 0])
    /\ UNCHANGED <<cluster, clusterSeen, infra, members, wiped, creds, second,
                   faults, outcome, gated>>

(* Every read of the Cluster is taken for NotFound. *)
Bug_ClusterDeleting == TRUE

(* clusterDeleting: the Cluster, as the cache shows it, goes or is gone. *)
ClusterDeleting == clusterSeen

(* A recorded etcd conclusion is not looked at. *)
Bug_ReadCluster(m) ==
    LET o == obj[m]
    IN  /\ pc[m] = "cluster"
        /\ \/ /\ ~ClusterDeleting /\ m \notin ControlPlane
              /\ Goto(m, AfterEtcd(o), o)
              /\ UNCHANGED outcome
           \/ /\ ClusterDeleting
              /\ Conclude(m, "stampEtcd", "skipped-cluster-delete")
           \/ /\ ~ClusterDeleting /\ m \in ControlPlane
              /\ Goto(m, "serialize", o)
              /\ UNCHANGED outcome
        /\ UNCHANGED <<envVars, gated>>

(* With the Cluster going, the etcd phase is skipped and not recorded. *)
Bug_SkipUnrecorded(m) ==
    LET o == obj[m]
    IN  /\ pc[m] = "cluster"
        /\ \/ /\ o.etcd # "none" \/ ClusterDeleting \/ m \notin ControlPlane
              /\ Goto(m, AfterEtcd(o), o)
           \/ /\ o.etcd = "none" /\ ~ClusterDeleting /\ m \in ControlPlane
              /\ Goto(m, "serialize", o)
        /\ UNCHANGED <<envVars, outcome, gated>>

(* The Cluster is read, and etcdPhase takes one of its branches. *)
ReadCluster(m) ==
    LET o == obj[m]
    IN  /\ pc[m] = "cluster"
        /\ \/ /\ o.etcd # "none" \/ (~ClusterDeleting /\ m \notin ControlPlane)
              /\ Goto(m, AfterEtcd(o), o)
              /\ UNCHANGED outcome
           \/ /\ o.etcd = "none" /\ ClusterDeleting
              /\ Conclude(m, "stampEtcd", "skipped-cluster-delete")
           \/ /\ o.etcd = "none" /\ ~ClusterDeleting /\ m \in ControlPlane
              /\ Goto(m, "serialize", o)
              /\ UNCHANGED outcome
        /\ UNCHANGED <<envVars, gated>>

-----------------------------------------------------------------------------
(* The etcd phase. *)

(* Another hooked control-plane Machine is ahead in deletion order. *)
Ahead(p, m) ==
    /\ p # m
    /\ Deleting(cache[p]) /\ HasHook(cache[p])
    /\ \/ cache[p].del < obj[m].del
       \/ cache[p].del = obj[m].del /\ p < m

(* Nobody waits for an older deletion. *)
Bug_SerializeControlPlane(m) ==
    /\ pc[m] = "serialize"
    /\ Goto(m, "findPeer", obj[m])
    /\ UNCHANGED <<envVars, outcome, gated>>

(* serializeControlPlane: all but the oldest deletion wait. *)
SerializeControlPlane(m) ==
    /\ pc[m] = "serialize"
    /\ IF \E p \in ControlPlane : Ahead(p, m)
       THEN Requeue(m)
       ELSE Goto(m, "findPeer", obj[m]) /\ UNCHANGED queue
    /\ UNCHANGED <<api, cache, cluster, clusterSeen, infra, members, wiped,
                   creds, second, faults, outcome, gated>>

(* Deleting Machines count as peers. *)
Bug_Peers(m) == {p \in ControlPlane \ {m} : ~cache[p].leaving}

(* orderPeers: the candidates; their order only decides who is asked first. *)
Peers(m) ==
    {p \in ControlPlane \ {m} : ~Deleting(cache[p]) /\ ~cache[p].leaving}

(* The error of an attempt is dropped and the reset goes ahead. *)
Bug_EtcdAttemptFailed(m) ==
    IF Expired(obj[m], EtcdTimeout)
    THEN Conclude(m, "stampEtcd", "orphaned") /\ UNCHANGED queue
    ELSE Goto(m, AfterEtcd(obj[m]), obj[m]) /\ UNCHANGED <<queue, outcome>>

(* ensureEtcdRemoved on a failed attempt: orphan after the deadline. *)
EtcdAttemptFailed(m) ==
    IF Expired(obj[m], EtcdTimeout)
    THEN Conclude(m, "stampEtcd", "orphaned") /\ UNCHANGED queue
    ELSE Requeue(m) /\ UNCHANGED outcome

(* tryEtcdRemoval up to the node calls: without a talosconfig the attempt   *)
(* fails; otherwise findHealthyPeer lists its candidates, once.              *)
FindPeer(m) ==
    /\ pc[m] = "findPeer"
    /\ \/ /\ Config
          /\ Ask(m, "probePeer", Peers(m))
          /\ UNCHANGED <<queue, outcome>>
       \/ EtcdAttemptFailed(m)
    /\ UNCHANGED <<api, cache, cluster, clusterSeen, infra, members, wiped,
                   creds, second, faults, gated>>

(* probePeer: one of the listed candidates serves etcd and answers with the *)
(* member list, in which findMember looks for m; or it is skipped, for      *)
(* whatever reason, and after the last one the attempt has failed.          *)
ProbePeer(m) ==
    /\ pc[m] = "probePeer"
    /\ \/ \E p \in peers[m] :
            /\ EtcdHealthy(p)
            /\ IF FindMember(m)
               THEN Ask(m, "leave", {p}) /\ UNCHANGED outcome
               ELSE Conclude(m, "stampEtcd", "not-member")
            /\ UNCHANGED queue
       \/ \E p \in peers[m] :
            /\ Ask(m, "probePeer", peers[m] \ {p})
            /\ UNCHANGED <<queue, outcome>>
       \/ peers[m] = {} /\ EtcdAttemptFailed(m)
    /\ UNCHANGED <<api, cache, cluster, clusterSeen, infra, members, wiped,
                   creds, second, faults, gated>>

(* leaveViaVictim believes an error. *)
Bug_LeaveViaVictim(m) ==
    /\ pc[m] = "leave"
    /\ \/ /\ EtcdNotFinished(m)
          /\ members' = members \ {m}
          /\ Conclude(m, "stampEtcd", "left")
       \/ /\ Conclude(m, "stampEtcd", "left")
          /\ UNCHANGED members
    /\ UNCHANGED <<api, cache, queue, cluster, clusterSeen, infra, wiped, creds,
                   second, faults, gated>>

(* leaveViaVictim: success only when the victim confirms the leave; any     *)
(* failure, a lost confirmation too, falls through to the peer.             *)
LeaveViaVictim(m) ==
    /\ pc[m] = "leave"
    /\ \/ /\ EtcdNotFinished(m)
          /\ members' = members \ {m}
          /\ Conclude(m, "stampEtcd", "left")
       \/ /\ EtcdNotFinished(m) /\ "lostAck" \in Env
          /\ members' = members \ {m}
          /\ Ask(m, "remove", peers[m])
          /\ UNCHANGED outcome
       \/ /\ Ask(m, "remove", peers[m])
          /\ UNCHANGED <<members, outcome>>
    /\ UNCHANGED <<api, cache, queue, cluster, clusterSeen, infra, wiped, creds,
                   second, faults, gated>>

(* EtcdRemoveMemberByID through the peer that answered; an id that is gone  *)
(* is an error.                                                              *)
RemoveViaPeer(m) ==
    /\ pc[m] = "remove"
    /\ \/ /\ m \in members
          /\ \E p \in peers[m] : EtcdHealthy(p)
          /\ members' = members \ {m}
          /\ \/ Conclude(m, "stampEtcd", "removed") /\ UNCHANGED queue
             \/ "lostAck" \in Env /\ EtcdAttemptFailed(m)
       \/ /\ EtcdAttemptFailed(m)
          /\ UNCHANGED members
    /\ UNCHANGED <<api, cache, cluster, clusterSeen, infra, wiped, creds, second,
                   faults, gated>>

(* The conclusion is stamped under the other phase's key. *)
Bug_StampEtcd(m) ==
    LET o == [obj[m] EXCEPT !.reset = outcome[m]]
    IN  /\ pc[m] = "stampEtcd"
        /\ Store([api EXCEPT ![m].reset = outcome[m]])
        /\ Goto(m, AfterEtcd(o), o)
        /\ outcome' = [outcome EXCEPT ![m] = "none"]
        /\ UNCHANGED <<cluster, clusterSeen, infra, members, wiped, creds,
                       second, faults, gated>>

(* stampPhase(EtcdAnnotation), then on to resetPhase. *)
StampEtcd(m) ==
    LET o == [obj[m] EXCEPT !.etcd = outcome[m]]
    IN  /\ pc[m] = "stampEtcd"
        /\ Store([api EXCEPT ![m].etcd = outcome[m]])
        /\ Goto(m, AfterEtcd(o), o)
        /\ outcome' = [outcome EXCEPT ![m] = "none"]
        /\ UNCHANGED <<cluster, clusterSeen, infra, members, wiped, creds,
                       second, faults, gated>>

-----------------------------------------------------------------------------
(* The reset phase and the release. *)

(* Without a node to talk to, the reset is tried for ever. *)
Bug_ResetAttemptFailed(m) == Requeue(m) /\ UNCHANGED outcome

(* resetPhase on a failed attempt: give up after the deadline. *)
ResetAttemptFailed(m) ==
    IF Expired(obj[m], ResetTimeout)
    THEN Conclude(m, "stampReset", "skipped-timeout") /\ UNCHANGED queue
    ELSE Requeue(m) /\ UNCHANGED outcome

(* tryReset: nothing to dial, an acknowledged reset, or a failed attempt    *)
(* whose request may have taken effect all the same.                        *)
TryReset(m) ==
    /\ pc[m] = "reset"
    /\ \/ /\ ~ResolveAddress(m)
          /\ Conclude(m, "stampReset", "skipped-no-address")
          /\ UNCHANGED <<wiped, queue>>
       \/ /\ Config /\ NodeUp(m)
          /\ wiped' = wiped \union {m}
          /\ \/ Conclude(m, "stampReset", "done") /\ UNCHANGED queue
             \/ "lostAck" \in Env /\ ResetAttemptFailed(m)
       \/ /\ ResetAttemptFailed(m)
          /\ UNCHANGED wiped
    /\ UNCHANGED <<api, cache, cluster, clusterSeen, infra, members, creds,
                   second, faults, gated>>

(* stampPhase(ResetAnnotation), before the hook is touched. *)
StampReset(m) ==
    /\ pc[m] = "stampReset"
    /\ Store([api EXCEPT ![m].reset = outcome[m]])
    /\ Goto(m, "release", [obj[m] EXCEPT !.reset = outcome[m]])
    /\ outcome' = [outcome EXCEPT ![m] = "none"]
    /\ UNCHANGED <<cluster, clusterSeen, infra, members, wiped, creds, second,
                   faults, gated>>

(* The leftovers are forgotten. *)
Bug_Release(m) ==
    /\ pc[m] = "release"
    /\ Store([api EXCEPT ![m].hook = FALSE])
    /\ Goto(m, "idle", NoMachine)
    /\ UNCHANGED <<cluster, clusterSeen, infra, members, wiped, creds, second,
                   faults, outcome, gated>>

(* release: hook and leftovers go in one last patch. *)
Release(m) ==
    /\ pc[m] = "release"
    /\ Store([api EXCEPT ![m].hook = FALSE, ![m].legacy = @ /\ ~obj[m].legacy])
    /\ Goto(m, "idle", NoMachine)
    /\ UNCHANGED <<cluster, clusterSeen, infra, members, wiped, creds, second,
                   faults, outcome, gated>>

-----------------------------------------------------------------------------
(* Failures and time. *)

(* Any read or patch may fail outside the two attempts, whose errors are    *)
(* weighed against a deadline: the error requeues the Machine.              *)
Abort(m) ==
    /\ pc[m] \notin {"idle"} \union EtcdSteps \union ResetSteps
    /\ faults < MaxFaults
    /\ faults' = faults + 1
    /\ Requeue(m)
    /\ outcome' = [outcome EXCEPT ![m] = "none"]
    /\ UNCHANGED <<api, cache, cluster, clusterSeen, infra, members, wiped,
                   creds, second, gated>>

(* The process dies; its successor lists everything anew. *)
Crash ==
    /\ faults < MaxFaults
    /\ \E m \in Machines : pc[m] # "idle"
    /\ faults' = faults + 1
    /\ pc' = [m \in Machines |-> "idle"]
    /\ obj' = [m \in Machines |-> NoMachine]
    /\ peers' = [m \in Machines |-> {}]
    /\ outcome' = [m \in Machines |-> "none"]
    /\ cache' = api
    /\ clusterSeen' = cluster
    /\ queue' = {m \in Machines : Admitted(api[m])}
    /\ UNCHANGED <<api, cluster, infra, members, wiped, creds, second, gated>>

(* Time passes: every recorded timestamp gets older, whoever holds it. *)
Tick ==
    /\ \E m \in Machines : api[m].obs \in 0 .. MaxAge - 1 \/ obj[m].obs \in 0 .. MaxAge - 1
    /\ api' = [m \in Machines |-> AgeByOne(api[m])]
    /\ cache' = [m \in Machines |-> AgeByOne(cache[m])]
    /\ obj' = [m \in Machines |-> AgeByOne(obj[m])]
    /\ UNCHANGED <<queue, cluster, clusterSeen, infra, members, wiped, creds,
                   second, faults, pc, peers, outcome, gated>>

-----------------------------------------------------------------------------

Init ==
    /\ EnvInit
    /\ pc = [m \in Machines |-> "idle"]
    /\ obj = [m \in Machines |-> NoMachine]
    /\ peers = [m \in Machines |-> {}]
    /\ outcome = [m \in Machines |-> "none"]
    /\ gated = {m \in Machines : HasHook(api[m])}

(* The next call of a running reconcile. *)
Step(m) ==
    \/ Stamp(m)
    \/ EnsureCredentials(m)
    \/ Observe(m)
    \/ ReadCluster(m)
    \/ SerializeControlPlane(m)
    \/ FindPeer(m)
    \/ ProbePeer(m)
    \/ LeaveViaVictim(m)
    \/ RemoveViaPeer(m)
    \/ StampEtcd(m)
    \/ TryReset(m)
    \/ StampReset(m)
    \/ Release(m)

Next ==
    \/ EnvNext /\ UNCHANGED ctlVars
    \/ \E m \in Machines : Reconcile(m) \/ Step(m) \/ Abort(m)
    \/ Crash
    \/ Tick

Spec == Init /\ [][Next]_vars

(***************************************************************************)
(* Fairness.  A started reconcile makes its next call, and a queued one is *)
(* started: the workers never block for ever, every RPC has a timeout, and *)
(* every early return is an error or a RequeueAfter (which requeue) or     *)
(* waits for a watch event (which queues the Machine in Store).  The watch *)
(* delivers, and the clock runs.                                           *)
(***************************************************************************)
EnvStep(A) == A /\ UNCHANGED ctlVars

ControllerFairness ==
    /\ \A m \in Machines : WF_vars(Reconcile(m)) /\ WF_vars(Step(m))
    /\ WF_vars(EnvStep(SyncMachines)) /\ WF_vars(EnvStep(SyncCluster))
    /\ WF_vars(Tick)

(* The machine controller finishes its drains and re-examines its gate, and *)
(* the other hook owners finish.                                            *)
CapiFairness ==
    \A m \in Machines : /\ WF_vars(EnvStep(CapiNext(m)))
                        /\ WF_vars(EnvStep(RemoveOtherHook(m)))

FairSpec == Spec /\ ControllerFairness /\ CapiFairness

(* Only what the controller itself can count on: a drain may last for ever. *)
ControllerFairSpec == Spec /\ ControllerFairness

-----------------------------------------------------------------------------
(* Properties. *)

(* Every variable has its type; a phase annotation only ever holds one of    *)
(* the conclusions of its own phase, whatever stampPhase is called with.     *)
TypeOK ==
    /\ EnvTypeOK
    /\ pc \in [Machines -> Steps]
    /\ obj \in [Machines -> Machine]
    /\ peers \in [Machines -> SUBSET ControlPlane]
    /\ outcome \in [Machines -> EtcdConclusions \union ResetConclusions \union {"none"}]
    /\ gated \subseteq Machines

(* A Machine that got the hook in time loses its infrastructure (and power) *)
(* only after the reset phase has been concluded and recorded on it,        *)
(* whatever crashed, failed or was stale in between.                        *)
PowerOffAfterTeardown ==
    \A m \in gated : infra[m] # "present" => api[m].reset # "none"

(* The disk of a node that is still an etcd member is wiped only when the   *)
(* etcd phase was given up after its deadline or the Cluster is going away. *)
WipedMemberExcused ==
    \A m \in wiped \intersect members :
        api[m].etcd \in {"orphaned", "skipped-cluster-delete"}

(* The recorded conclusions are true: a departed member is not in the       *)
(* member list, a removal is skipped only for a Cluster that really goes,    *)
(* and a reset that is recorded as done wiped the disk.                     *)
ConclusionsTruthful ==
    \A m \in Machines :
        /\ api[m].etcd \in {"left", "removed", "not-member"} => m \notin members
        /\ api[m].etcd = "skipped-cluster-delete" => cluster
        /\ api[m].reset = "done" => m \in wiped

(* The etcd cluster always keeps a member that no reconcile is about to     *)
(* take out: concurrent removals never empty it.                            *)
EtcdSurvives ==
    \E p \in members : pc[p] \notin {"leave", "remove"}

(* No call to a Talos node is made for a Machine whose node is not drained  *)
(* yet, or on which another controller still holds a pre-terminate hook.    *)
RunsLast ==
    \A m \in Machines : pc[m] \in EtcdSteps \union ResetSteps =>
        api[m].reason \notin Early /\ ~api[m].other

(* At most one control-plane Machine is in its etcd removal at a time. *)
EtcdExclusive ==
    \A m, n \in Machines : pc[m] \in EtcdSteps /\ pc[n] \in EtcdSteps => m = n

(* A phase that is recorded on the Machine is never entered again. *)
NoReplay ==
    \A m \in Machines :
        /\ pc[m] \in EtcdSteps => api[m].etcd = "none"
        /\ pc[m] \in ResetSteps => api[m].reset = "none"

(* A Machine that was released is not parked again. *)
ReleasedForGood ==
    [][\A m \in Machines : api[m].reset # "none" /\ ~api[m].hook => ~api'[m].hook]_vars

(* Deadlines run from the first observation: no step sets a running clock   *)
(* back, so retries, restarts and holds never extend them.                  *)
ClockNotReset ==
    [][\A m \in Machines : api'[m].obs >= api[m].obs]_vars

(* A give-up is recorded only after its deadline. *)
GivesUpOnlyLate ==
    \A m \in Machines :
        /\ api[m].etcd = "orphaned" => api[m].obs > EtcdTimeout
        /\ api[m].reset = "skipped-timeout" => api[m].obs > ResetTimeout

(* What a Machine still needs of the controller: its hook, while it may yet *)
(* get one, or its teardown, once it waits for the pre-terminate hooks.     *)
Pending(o) ==
    \/ /\ Qualifies(o) /\ ~HasHook(o)
       /\ Deleting(o) => o.reset = "none" /\ StampAllowed(o)
    \/ HasHook(o) /\ Deleting(o) /\ AtPreTerminate(o)

(* No Machine is forgotten: one that needs the controller is queued, being  *)
(* reconciled, or about to be announced by a watch event, whichever early   *)
(* return, failed call, stale read or restart came last.                    *)
NeverForgotten ==
    \A m \in Machines :
        Pending(api[m]) => m \in queue \/ pc[m] # "idle" \/ cache[m] # api[m]

(* Every Machine that is being deleted is let through the pre-terminate     *)
(* gate: the hook never parks a deletion for ever.                          *)
DeletionCompletes ==
    \A m \in Machines : Deleting(api[m]) ~> infra[m] # "present"

(* A Machine whose power-off already began never carries the hook: what the *)
(* comment on the late stamp in reconcileDeleting says.                     *)
NeverParkedMidTeardown ==
    \A m \in Machines : infra[m] # "present" => ~api[m].hook

(* Once the pre-terminate phase is reached, the hook goes: what the docs    *)
(* promise of the controller by itself.                                     *)
ReleaseConverges ==
    \A m \in Machines :
        HasHook(api[m]) /\ AtPreTerminate(api[m]) /\ ~api[m].other ~> ~HasHook(api[m])

-----------------------------------------------------------------------------
(* The abstract gate that the controller and its environment implement. *)

Verdict(o) == IF o.reset = "none" THEN "none" ELSE IF o.reset = "done" THEN "wiped" ELSE "waived"

Gate == INSTANCE PreTerminateGate WITH
    hook    <- {m \in Machines : HasHook(api[m])},
    wiped   <- wiped,
    verdict <- [m \in Machines |-> Verdict(api[m])],
    passed  <- {m \in Machines : infra[m] # "present"}

(* Every behaviour of the reconciler, with whatever is stale, lost, edited  *)
(* or crashed, is one of the gate: the hook only goes after a recorded      *)
(* verdict, and "done" is only recorded of a wiped node.                    *)
ImplementsGate == Gate!Spec
=============================================================================
