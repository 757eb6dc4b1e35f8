# TLA+ verification of tinkerbell-bmc-discovery-controller

The repository holds two controllers. `talos-machine-teardown` (C3,
`internal/teardown`) puts a pre-terminate hook on Talos Machines and, when one is
deleted, takes its node out of etcd and wipes it before CAPI lets the power go.
The BMC discovery controller (`internal/mdns`, `inventory`, `sync`, `controller`)
finds BMCs by mDNS and keeps a Secret, a Machine and a Hardware per BMC.  The
teardown is where a wrong interleaving destroys data, so it comes first; the credential
cache it depends on and the whole discovery path follow.

## Inventory

| part (code) | state | operations | hard because | correct when |
| --- | --- | --- | --- | --- |
| teardown reconciler (`teardown/reconciler.go`, `teardown.go`) | annotations on each Machine: hook, observed-at, etcd and reset conclusion | Reconcile: stamp, cache credentials, wait, etcd phase, reset phase, release | up to `--concurrency` reconciles at once, cached reads, RPCs whose answer may be lost, crashes between patches, deadlines | power goes only after a recorded reset; no live etcd member is wiped without an excuse; records are true; etcd survives; deletions complete |
| hook predicates (`teardown/qualify.go`) | none | Qualifies, StampAllowed, AtPreTerminate, HasOther... | they judge a condition that another controller publishes late | never early, run last, never mid-teardown |
| watches and queue (`teardown/setup.go`) | work queue | predicates and map functions | every early return must be woken again | no Machine is forgotten |
| credential cache (`teardown/credentials.go`) | cached talosconfig secrets | Ensure, Config, GC | read-then-write by several workers; check-then-delete | a Machine to be torn down finds a talosconfig |
| etcd matching, addresses (`teardown/etcd.go`, `address.go`) | none | findMember, etcdHealthy, resolveAddress | fallback chains over partial data | finds the node exactly if it is there |
| Talos client, metrics, manager (`talos.go`, `metrics.go`, `cmd/talos-machine-teardown`) | none | dialling, counters, wiring, leader election, GC ticker | - | - |
| discovery worker (`controller/worker.go`) | known endpoints, queue | Start, processQueue, handle, credentialCandidates | event loop, queue goroutine and resync ticker share the map | every known BMC is synced again and again |
| mDNS browser (`mdns/browser.go`) | channels of one cycle | Run, browseOnce, forward | window cancels while the event channel is full | an endpoint that keeps advertising is delivered |
| inventory (`inventory/`) | none | Collect, enrichNICs | best-effort enrichment: the MAC may come and go | - |
| syncer (`sync/syncer.go`, `mapping.go`, `names.go`) | Secret, Machine, Hardware objects | Sync, applyManaged, name derivation | foreign writers between get and apply; three writes that can fail apart | foreign objects and fields are never touched; netboot is authored once |
| C1, C2, C4, C5 | - | documents only, no code in the repository | - | - |

The two controllers do not talk to each other.  In the teardown the parts interact only
through the API server: the reconciler reads Machines and
Clusters from an informer cache and patches annotations; the CAPI machine
controller reads the annotations and publishes the reason of the `Deleting`
condition; CAPT powers off when the machine controller deletes the
TinkerbellMachine.  Talos nodes are called directly.  In discovery the browser sends
endpoints through a channel to the worker's loop, which keeps a map of them and feeds a
queue; its one consumer calls the collector and then the syncer, whose objects other
controllers and people write too.

## Modules

| module | models |
| --- | --- |
| `MachineObject` | what the controller reads of a Machine, and the predicates of `qualify.go` |
| `TeardownEnv` | the world around it: API server, informer cache, work queue with the watch predicates of `setup.go`, CAPI machine controller, CAPT, CACPPT scale-down, cluster deletion, Talos nodes with etcd membership. Only the predicates and probe results are code of the repository; the rest is external |
| `Teardown` | `reconciler.go`: the calls to the API server and to the nodes in their order, for any number of concurrent reconciles; crash, failed calls, clock; most properties |
| `NodeLookup` | extends it: how `etcd.go` finds a node among the members a peer lists, by its possible names |
| `PreTerminateGate` | abstract: what any hook owner promises the machine controller; `Teardown` implements it (`ImplementsGate`) |
| `CredentialCache` | `credentials.go` call by call: concurrent Ensure, the collection with its ticker, source rotation, Cluster and Machine life cycles |
| `Syncer` | `sync/syncer.go` and `mapping.go`: one Sync among terraform, people, tink and CAPT, with server-side apply and a lagging cache |
| `Discovery` | extends `Syncer`: `mdns/browser.go`, `controller/worker.go`, the verification and the MACs of `inventory/collector.go`; address changes, restart |
| `TeardownProofs` | the inductive invariant of the teardown and its safety in every environment |
| `FreshCacheProofs`, `WakeupProofs` | extend it: what holds while the informer keeps up, and that no Machine is forgotten |
| `GateProofs`, `NodeLookupProofs` | extend it: the refinement of `PreTerminateGate`, and that the lookup is exact |
| `CredentialCacheProofs`, `SyncerProofs`, `DiscoveryProofs` | the same for the other components; the last extends `SyncerProofs` |
| `MCTeardown`, `MCNodeLookup`, `MCCredentialCache`, `MCSyncer`, `MCDiscovery` | the modules of the TLC runs; the `.cfg` files give the instances |

### Teardown

**State.** `api[m]` is the Machine in the API server, `cache[m]` the informer's view of
it, `obj[m]` the in-memory copy of the running reconcile, `pc[m]` its next call,
`peers[m]` the candidates it has not asked yet.  The work queue never runs one key twice
at a time, so a reconcile is named by its Machine.  Code between two calls is local and
belongs to the earlier call's action.  `gated` is a history variable: Machines that got
the hook before their infrastructure went (the others take the documented legacy path).

**Abstractions.** Annotations are presence bits or conclusions; the observed-at
timestamp is its age in ticks, saturated one tick past the longer deadline (from
there all comparisons agree).  A patch is a merge patch: it changes the keys that
the reconcile changed and has no resourceVersion precondition, as in the CAPI patch
helper; the in-memory object is not refreshed from the answer.  The informer
catches up in one jump to the present (any older state of the whole store can be
what a reconcile reads, since it may read before the jump).  Secrets are read
uncached, as `buildManager` configures.  `FindPeer` lists the candidates, which stay
as they were listed, and `ProbePeer` asks one of them at a time; the order is left
out: any candidate may be next, and any attempt may fail.  Consecutive calls
whose failures have the same effect share an action, which is not call by call here: the
read of the talosconfig with the list of peers, ServiceInfo with the member list of one
peer, and the address, the talosconfig and the dial with the RPC that they are for in
`LeaveViaVictim` and `TryReset`.  `findMember` is taken at its result, which
`NodeLookup` justifies; that of `resolveAddress` is a constant of the run (`Addressed`).
A Machine object stays in the store after its teardown.  Every CP node is an etcd
member at the start; a bootstrap member without a Machine is not modelled, which
only makes etcd easier to empty.

**Correspondence.** `Reconcile` reads the cache and picks the first call
(`ReconcileNormal`, `ReconcileDeleting`, `AfterHook`); `Stamp` is ensureHook,
`EnsureCredentials`, `Observe`, `ReadCluster` (with the branches of etcdPhase it
decides), `SerializeControlPlane`, `FindPeer`, `ProbePeer`, `LeaveViaVictim`, `RemoveViaPeer`,
`StampEtcd`, `TryReset`, `StampReset` and `Release` follow the code in its order.
`EtcdAttemptFailed` and `ResetAttemptFailed` weigh an error against the deadline;
`Abort` is an error of any other call; `Crash` loses all memory, and the successor
lists everything again.  Operators named `Bug_...` are plausible mistakes in the
definition after them, here and in the other modules: each is used to show that a
property notices it.

**The gate.** `PreTerminateGate` knows four things: which Machines carry the hook, which
nodes are wiped, the recorded verdict of each Machine and whose infrastructure is let go.
The mapping reads the first and third off the API server's annotations (`done` is
"wiped", every other reset conclusion "waived") and the others off the world.  Caches,
in-memory copies, etcd, deadlines and queues are invisible to it.

### NodeLookup

A host name is a first label, the letter case it is written in and a domain.
`HostnameCandidates`, `FirstLabel`, `EqualFold`, `MatchesMember` and `MatchingMembers`
are the functions of `etcd.go`; findMember returns the first match in the order of the
answer, so the model keeps the set of them.  `LookupExact` compares it with the
`FindMember` that `Teardown` uses, for every status that the Machine may have at that
time (nothing reported, a NodeRef, a host name address) and for members registered in
another spelling.  Every Machine has an infrastructure reference.

### CredentialCache

A secret is its source version (`source`, `copy`); `pc[m]` is the next call of the Ensure
that the reconcile of `m` runs, `got[m]` the version it read.  The resourceVersion
precondition of Update is kept as whether the copy was written since it was read: any
write turns the `update` of the others into `conflict`.  Secrets are read from the API
server and Clusters and Machines from two informers that catch up separately, as
`buildManager` configures.  When Ensure runs is taken from the reconciler: on every
reconcile of a healthy Machine and when a deleting one gets its hook.  `GC` lists the
copies once and then reads the Cluster, reads the Machines and deletes, a call at a time.
`secured` and `exposed` are history variables: Machines for which Ensure returned with the
copy in place, and those among them for which it did so between the last check of a
collection and its delete.  That window is real (a Cluster of the same name is
created while the old one's copy is collected); the next reconcile of a healthy Machine
closes it, as `CopyConverges` shows; a Machine whose deletion begins first goes on without
the copy.  So does one whose late stamp succeeds and whose Ensure then fails, since the
code caches on that path only while the hook is missing: such a teardown ends at its
deadlines, and no property promises it more.  Which Machines qualify is fixed; a hooked
Machine that is edited so that it no longer qualifies does not keep the copy, and
the code means it so ("no qualifying Machine remains").

### Syncer

An object is what the properties tell apart: existence, the managed-by label, the value
that identifies its BMC (credentials, host, instance id), the interfaces list with its
netboot value and its field managers, CAPT's userData.  `Applied` is the API server's
forced apply: asserted fields are set, others stay, the atomic list changes hands when
its value changes and is removed when its only manager stops asserting it.  The creator
(operation Update) and the applier of discovery are two field managers, as the API server
keeps them.  `job` is the running Sync; the worker runs one at a time.  The resourceVersion
of an apply is kept as `stale` (written since the cache's revision) and `held` (not
written since the get).  `SyncFails` is a failed call, one whose write took effect
included.  Deletion of objects by others is not modelled: discovery never deletes, and
a deleted object is created anew on the next resync.

### Discovery

A key stands for a service type and an instance, and the BMC behind it gives the name.
Each BMC takes a set of pairs of credentials.  `CredentialCandidates` is the list in the
order of the code, from the Secret as it was read: a failed read leaves the defaults.
`Collect` verifies whoever answers at the address with one of the candidates, the first
one that is taken unless a call fails.  What a BMC reports of its NICs is a sequence of
MACs, empty ones, malformed ones and upper-case ones among them; `EnrichNICs` asks the
BMC's one System when no NIC has any MAC, valid or not, and an error leaves the NICs as
they are.  `PrimaryMAC` takes the first that is valid in lower case.  A BMC with only
malformed MACs stays without one for ever, and `Converges` then expects a Hardware
without an interface. `Readdress` hands out addresses anew, so that the address the
worker holds may be another BMC's, which answers, takes the credentials and is collected
in its place.  `Advertise` and `Forward` are the answers of a browse and the forwarders;
a forwarder that is blocked on the full channel gets its place when one is received
(`Handover`), and `WindowEnds` drops what the channel did not take.  A key that waits for
its backoff counts as queued.  A browse cycle that is skipped because no interface exists
changes nothing, and is a stuttering step.  `Handle` is the single consumer: look the
endpoint up, collect, the calls of Sync, requeue on an error.  `handled` is a history
variable: the host of the last successful handling. `Restart` is a new leader: empty map,
queue and channel, and a Sync cut off.

## Runs

The constant `Env` switches hazards of the environment on, so that each run can
afford its own; `MaxFaults` bounds crashes, failed API calls and hand edits together.
`CHECK_DEADLOCK` is off: a fleet whose deletions are finished rests.

| run | instance | checks | shows |
| --- | --- | --- | --- |
| `stale` | 2 CP Machines, one managed and deleted; lagging cache, lost answers, late stamp, edits; 2 faults | TypeOK, PowerOffAfterTeardown, WipedMemberExcused, ConclusionsTruthful, NeverForgotten, ImplementsGate | what is recorded is true and power waits for it, on any stale view; every Machine that needs the controller is still queued, in hand or to be announced; the abstract gate is implemented |
| `concurrent` | 2 CP Machines, both deleted, late stamps, one second, scale-down | EtcdSurvives | concurrent removals never empty etcd |
| `serial` | 3 CP Machines, 2 deleted after the stamp; fresh cache; 1 fault | EtcdExclusive, NoReplay, GivesUpOnlyLate, ReleasedForGood, ClockNotReset, LookupExact | one removal at a time, each phase once, deadlines neither early nor extended; the victim's member is found exactly while it is one |
| `live` | 2 CP Machines, one without an address; leftovers, foreign hooks, takeover, one second; 1 fault | RunsLast, DeletionCompletes | run last, and every deletion still gets through the gate |
| `cluster_delete` | 2 CP Machines, one managed and deleted; Cluster deletion, lagging informers of Machines and Cluster; 1 fault | WipedMemberExcused, ConclusionsTruthful, DeletionCompletes | the mode a reconcile read may be out of date; still no skip is recorded in a Cluster that stays, no member wiped without an excuse, and deletions complete |
| `late_stamp` | 2 CP Machines deleted before the stamp | EtcdExclusive: violated | see findings |
| `parked` | 1 managed Machine deleted before the stamp | NeverParkedMidTeardown: violated | see findings |
| `stuck_drain` | 2 CP Machines, only the controller is fair | ReleaseConverges: violated | see findings |
| `credentials` | 1 cluster, 2 Machines, one of them created later; 2 source versions; 1 fault | CredentialsKept, CopyConverges, StraysCollected | no teardown loses its talosconfig, races over the copy heal, no copy stays behind |
| `sync` | 1 name, 2 hosts, a MAC that comes and goes; all other writers, lagging cache; 3 foreign writes, 1 fault | NetbootIsTinks, ReferencesResolve, NeverAdopts, ForeignFieldsKept | foreign objects, fields and netboot values survive every interleaving; partial sets are consistent |
| `netboot` | 1 name, two MACs or none; tink | NetbootIsTinks: violated | see findings |
| `discovery` | 2 BMCs that may swap addresses, one of them advertised, which takes two of the candidates; channel of 1; a claim by CAPT, 1 fault or restart | NoLostUpdate, Converges | no move is forgotten, and every reachable BMC ends up described by its own objects, with the pair that is meant for it and its own MAC |

**Bounds.** Two Machines are enough for every interplay of a victim and a peer, and
a third is there in `serial`, so that a removal has a healthy peer while another one
waits.  Deadlines of 0 and 1 tick give an attempt before, at and after the
deadline, and in `serial` different ones for the two phases.  One fault is a crash
or a failed call at any point; two in `stale` combine one with an edit.  No run has a
worker Machine, whose teardown is the same without its etcd phase; the theorems have.  In
`serial` the members' names differ from the candidates in case and domain, and the
status has every stage of reporting.  In
`credentials` two Machines of one cluster are two concurrent Ensures, two versions an
older and a newer source, and the later Machine is the one a collection can miss.  In
`sync` three foreign writes allow a create, a stripped label and a toggle in one Sync.  In
`discovery` a channel of one is full after one event; the second BMC only needs an
address and credentials to be taken for the first; its MAC comes behind an adapter
without one, a malformed one and in upper case.  One key is enough for the channel to be
full at the end of a window.  Several names do not interact:
objects of different names share no state.  Every safety invariant and action
property is also proved, for every instance or under the conditions that `Proofs` names.

**Fairness.** A queued reconcile starts and a started one makes its next call: every
RPC has a timeout, workers never block for ever, and every early return either
requeues (error, RequeueAfter) or waits for a watch event that `Store` turns into
a queue entry.  The watch delivers and the clock runs.  `FairSpec` adds that the
machine controller finishes drains and re-examines its gate and that other hook
owners finish; `ControllerFairSpec` does not, since nothing in this repository
makes them.  No fairness is asked of deletions, faults, or a node's answers.

In `CredentialCache`, started calls end, informers deliver, every Machine is reconciled
again and again (watch events and the manager's resync) and the ticker never stops. In
`Discovery`, browse cycles begin and end for ever and loop and consumer go on, since each
of their calls has a timeout.  `Advertise` and the pair of `Forward` and `Handover` have
strong fairness: a window lasts seconds and the loop that drains the channel never
blocks, so a BMC that answers in window after window is heard, and a forwarder that has
its endpoint ready again and again gets it through, into a channel with room or, in the
queue of blocked senders, into the place of one that is received.  Nothing is asked of
addresses or other writers; `Converges` speaks of a BMC that keeps its address and takes
a candidate.

## Findings

1. `late_stamp`: serializeControlPlane looks only at peers that carry the hook, so
   two Machines that were deleted before they were stamped can be in their etcd
   removals at once, against "etcd work is serialized per cluster regardless"
   (`cmd/talos-machine-teardown/main.go:67`).  `concurrent` shows that etcd survives.
2. `parked`: StampAllowed trusts the reason of the Deleting condition, which the
   machine controller patches after it has deleted the infrastructure; the late
   stamp can park a Machine whose power-off has begun, against the comment at
   `reconciler.go:124`.
3. `stuck_drain`: the hold behind an older deletion has no deadline; while that
   one's drain lasts, a Machine at its pre-terminate wait is not released, against
   "always converges to hook removal within the bounded deadlines"
   (`docs/talos-machine-teardown.md:400`).
4. `netboot`: netbootFor falls back to its defaults whenever the live Hardware has no
   interface.  After a MAC change discovery's apply is the only manager of the interfaces
   list; an inventory without a MAC then removes the list, and the next one with a MAC sets
   allowPXE=true over a disarm, against "authors ... defaults at create only and
   never changes netboot afterward" (`mapping.go:154`).  `sync` shows that while the MAC
   does not change, tink's own claim on the list keeps it.

## Proofs

`TeardownProofs` proves, for every set of Machines, any deadlines, any number of
faults and every environment, `Spec => []P` for `TypeOK`, `PowerOffAfterTeardown`,
`WipedMemberExcused`, `ConclusionsTruthful`, `EtcdSurvives` and `RunsLast`, from the
assumptions in the modules: timeouts and `MaxFaults` are naturals, Machines are
naturals (their order stands for the name order), the named subsets are subsets,
and there is a control-plane Machine.

None of these is inductive.  The invariant `IInv` adds:

* `ViewsOlder`: what the cache and a running reconcile hold of a Machine is older than
  the API server's copy in the sense of `Older`: deletion, the end of the drain, the
  end of other hooks and recorded conclusions are never taken back.  That makes
  decisions on stale views safe.
* `StepFacts`: what a reconcile has established at each call, such as that a
  Machine past its etcd phase has a conclusion in memory, and that an outcome about to
  be stamped is already true of the node.
* `GateFacts`: of a gated Machine, hook gone or infrastructure gone means reset
  recorded.
* `OutcomeFits`: an outcome belongs to the phase that stamps it.
* `ClusterFacts`: neither the cache nor a reconcile about to record a skip has seen a
  deletion of the Cluster that did not happen.
* `EtcdKept`, stronger than `EtcdSurvives`: some member is in no removal, where one that
  still has a member on its list of peers to ask counts as a removal (`Going`).  A
  list has only peers that the cache shows as not deleting, and all reconciles read one
  cache that is monotone in deletions, so those are in no removal of their own.

The proof has a lemma per group
of actions (`EnvSafe`, `ReadSafe`, `RpcSafe`, `PatchSafe`, `CrashSafe`, `TickSafe`);
`FrameSafe` reduces a reconcile's step to its own Machine.

`GateProofs` proves `GateRefinement == Spec => ImplementsGate` by step simulation from
`IInv`: the environment's only visible step is `Pass`, of a Machine without a hook; a
reconcile's are `Stamp`, `Wipe`, `Conclude` and `Release`, where `StepFacts` gives that
"done" is stamped only of a wiped node and that a release finds a verdict; all others
stutter.

`NodeLookupProofs` proves `LookupSafety` (`LookupExact`), for any names, statuses and
spellings, from `DistinctLabels`: the names that the nodes of two Machines may have differ
in their first labels.  That is more than the unique names that the comment in `etcd.go`
relies on: of two names that differ only behind the first dot, one Machine's candidates
match the other's member.

`CredentialCacheProofs` proves `CredentialSafety` (`CredentialsKept`).  `IInv` adds `Started`
and `Known` (a Machine with credentials qualifies and is shown by the informer while it
exists, so a collection cannot overlook it), `Held` (a running Ensure holds a source, so a
write never empties the copy) and `WindowExposed` (under a pending delete every cached
Machine is an exposed one).

`FreshCacheProofs` proves what needs more than `IInv`, for any fleet, deadlines and faults.
Each theorem names the environments it excludes, and TLC finds a counterexample
in every one of them (to the release, where a foreign or left-over hook parks a
Machine that was deleted before the stamp):

| theorem | property | assumes |
| --- | --- | --- |
| `NoReplaySafety` | `NoReplay` | no cache lag |
| `ReleaseSafety`, `LaggingReleaseSafety` | `ReleasedForGood` | no cache lag, or no deletion before the stamp (`Hooked`) |
| `ClockSafety` | `ClockNotReset` | no cache lag, no hand edits (`Unedited`) |
| `DeadlineSafety` | `GivesUpOnlyLate` | no cache lag, no hand edits |
| `SerialSafety` | `EtcdExclusive` | no cache lag; no deletion before the stamp, no two in one second (`Orderly`) |

A cache that does not show the controller's own last patch makes it run a phase again,
stamp the observation again or judge the order of deletions by an old list; `stale` and
`TeardownProofs` show that nothing is lost by that.  The run `serial` has none of these
hazards and satisfies every hypothesis; `late_stamp` is the counterexample without `Orderly`.
The inductive invariant `FreshInv` adds to `IInv`:

* `FreshAt`: the copy in memory agrees with the API server in hook and
  conclusions, and a reconcile is in a phase only while that is open.
* `ClockAt` (if unedited): it agrees in the observation too, "observe" is reached only
  without one, and a give-up that is recorded or about to be is past its deadline.
* `OrderAt` and `FirstInOrder` (if orderly): a deleting Machine is hooked until its reset is
  recorded, so that the hooks show every deletion in progress; and no hooked Machine comes
  before one that is in its etcd removal.  Two Machines cannot both come first.

`LaggingReleaseSafety` has an invariant of its own, `HookedInv`: every view of a deleting
Machine shows its hook or its recorded reset, and no reset is recorded before the cache
shows the deletion.

`WakeupProofs` proves `WakeUpSafety` (`NeverForgotten`) in every environment, the safety half of
`DeletionCompletes`.  `WakeAt` says of a Machine that the cache shows in need and that is
not queued: between reconciles the cache is behind in the hook or the reset, which
only a watch event can change; and the two steps from which a reconcile may return
for good are reached with such a difference in the making.

`SyncerProofs` proves `ReferenceSafety`, `AdoptionSafety` and `UserDataSafety`, for any
names, writers, lag and faults.  `SyncInv` adds `Views` (the cache is an earlier state, and
the present one where nothing is stale), `HeldOurs` (an apply that will not conflict is
about an object with the label) and `JobRefers` (Sync comes to an object when what it
refers to exists).  The two action properties follow from `HeldOurs` and from what `Created`
and `Applied` leave alone.

`NetbootSafety` (`NetbootIsTinks`) assumes `KeepsList`: inventories always have a MAC, or all
that have one have the same.  This is what finding 4 breaks and `sync` satisfies.  `NetInv` adds
`TinksList` (a list that tink wrote stays, with tink's value, and with tink among its
owners where an inventory may lack the MAC, so that no apply can drop it) and
`CarriesNetboot` (an apply that will not conflict carries the live value).

`DiscoveryProofs` extends it: `WakeUpSafety` (`NoLostUpdate`) and `WorkerReferenceSafety`, from
`IInv` with `SyncInv`, `TargetFresh` (a handling with an outdated host will be repeated) and
`QueuedKnown` (the lookup in handle never misses); `WorkerAdoptionSafety` and
`WorkerUserDataSafety` carry Sync's action properties over to the whole controller, since
only Sync and the other writers store anything (`StoreChanges`).  That the MAC of
every inventory is one that Sync may be given (`PrimaryMACType`) needs the least valid
index of a sequence to exist, which is the well-ordering of the naturals.

Only model-checked: liveness (`DeletionCompletes`, `CopyConverges`, `StraysCollected`,
`Converges`), because the prover handles neither fairness nor ENABLED.  No model
defines data by recursion, so no induction over data is left open.

## Plan

1. Done: the teardown (`MachineObject`, `TeardownEnv`, `Teardown`, `TeardownProofs`), its
   refinement of `PreTerminateGate`, `CredentialCache`, `Syncer`, `Discovery` and their proofs.
2. Done: theorems for every safety invariant and action property of the runs.
3. Theorems left: the facts behind the liveness of `CredentialCache` and `Discovery` that are
   safety (as `NeverForgotten` is for the teardown).
4. Pure algorithms left: address chain and name derivation.

## Not modelled

Talos client and metrics, flag parsing, logging, health probes and Helm charts (wiring,
no state); Redfish and IPMI I/O (its outcomes are inputs of `Discovery`); events and log
messages; the length of backoffs; the design-only controllers.  Of partly modelled parts:
the fallback chain of `address.go` and the string work of `names.go`, which are pure
functions, appear by their result only; hooks of other controllers are there from the
start and only go; a name template that uses the MAC, and so a name that changes with it,
is left out.
