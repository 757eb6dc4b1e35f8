----------------------------- MODULE Discovery -----------------------------
(***************************************************************************)
(* The BMC discovery controller: the mDNS browser with its bounded event   *)
(* channel, the worker's event loop, its work queue and single consumer,   *)
(* the credential chain and the inventory collection, over the Syncer.     *)
(*                                                                         *)
(* A BMC is asked at the address the worker holds, which another BMC may   *)
(* have got by now.                                                        *)
(***************************************************************************)
EXTENDS Syncer, Sequences

CONSTANTS
    Bmcs,          \* the BMCs on the network
    Keys,          \* endpoint keys: a service type and an instance
    BmcOf,         \* the BMC behind each key; it also names its resources
    Accepts,       \* the credentials each BMC takes
    Adapters,      \* the MACs in the NetworkAdapters that bmclib reads, by BMC
    Interfaces,    \* the EthernetInterfaces of its one System, by BMC
    Defaults,      \* the default credentials of each key's service, 0 for none
    Wildcard,      \* the default credentials of any service, 0 for none
    Configured,    \* the credentials that the operator may put in the Secret
    Buffer,        \* capacity of the event channel
    MaxMoves       \* bound on address changes

(* A MAC as a BMC reports it; only the letter case may differ from the form *)
(* that the Hardware CRD asks for, or else it is no MAC at all.             *)
Reports == [form : {"lower", "upper", "malformed"}, mac : Macs \ {0}]
Empty == [form |-> "empty", mac |-> 0]

ASSUME KeysAssumption == Keys \subseteq Nat \ {0}
ASSUME BmcAssumption ==
    /\ Names \subseteq Bmcs
    /\ BmcOf \in [Keys -> Names]
    /\ Accepts \in [Bmcs -> SUBSET Creds]
    /\ 0 \notin Hosts \union Creds
ASSUME NicsAssumption ==
    /\ Adapters \in [Bmcs -> Seq(Reports \union {Empty})]
    /\ Interfaces \in [Bmcs -> Seq([permanent : Reports \union {Empty},
                                    current : Reports \union {Empty}])]
ASSUME DefaultsAssumption ==
    /\ Defaults \in [Keys -> Creds \union {0}]
    /\ Wildcard \in Creds \union {0}
    /\ Configured \subseteq Creds
ASSUME BufferAssumption == Buffer \in Nat \ {0} /\ MaxMoves \in Nat

VARIABLES
    addr,       \* the IPv4 address of each BMC, 0 while it has none
    moves,      \* address changes so far
    secret,     \* the contents of the credentials Secret, 0 while absent
    window,     \* a browse cycle is running
    air,        \* advertisements that the forwarders have not passed on
    events,     \* the event channel
    known,      \* the worker's endpoints: the host of each key, 0 if unknown
    queue,      \* the work queue
    busy,       \* the key that is being handled, 0 for none
    target,     \* the host it was known under when handling began
    handled     \* history: the host of the last successful handling

netVars == <<addr, moves, secret>>
browserVars == <<window, air>>
workerVars == <<events, known, queue, busy, target, handled>>
vars == <<syncVars, netVars, browserVars, workerVars>>

Endpoints == [key : Keys, host : Hosts \union {0}]
Members(s) == {s[i] : i \in DOMAIN s}

(* Add of the work queue: a key that waits already is not added twice. *)
Enqueue(q, k) == IF k \in Members(q) THEN q ELSE Append(q, k)

-----------------------------------------------------------------------------
(* The network and the operator. *)

(* DHCP hands out the addresses anew: two BMCs may swap theirs. *)
Readdress ==
    /\ moves < MaxMoves
    /\ moves' = moves + 1
    /\ addr' \in [Bmcs -> Hosts \union {0}]
    /\ addr' # addr
    /\ \A a, b \in Bmcs : addr'[a] = addr'[b] /\ addr'[a] # 0 => a = b
    /\ UNCHANGED <<syncVars, secret, browserVars, workerVars>>

(* The operator creates the credentials Secret. *)
WriteSecret(c) ==
    /\ secret = 0
    /\ secret' = c
    /\ UNCHANGED <<syncVars, addr, moves, browserVars, workerVars>>

-----------------------------------------------------------------------------
(* The browser. *)

(* Browsing ends once there is an endpoint. *)
Bug_BrowseOnce ==
    /\ ~window /\ known = [k \in Keys |-> 0] /\ events = <<>>
    /\ window' = TRUE
    /\ UNCHANGED <<syncVars, netVars, air, workerVars>>

(* browseOnce begins its window. *)
BrowseOnce ==
    /\ ~window
    /\ window' = TRUE
    /\ UNCHANGED <<syncVars, netVars, air, workerVars>>

(* An answer arrives; a browse reports each instance once at a time. *)
Advertise(k) ==
    /\ window
    /\ \A e \in air : e.key # k
    /\ air' = air \union {[key |-> k, host |-> addr[BmcOf[k]]]}
    /\ UNCHANGED <<syncVars, netVars, window, workerVars>>

(* EntryToEndpoint: only entries with an IPv4 address count. *)
EntryToEndpoint(e) == e.host # 0

(* forward passes an endpoint on when the channel has room. *)
Forward(k) ==
    \E e \in air :
        /\ e.key = k
        /\ IF EntryToEndpoint(e)
           THEN Len(events) < Buffer /\ events' = Append(events, e)
           ELSE UNCHANGED events
        /\ air' = air \ {e}
        /\ UNCHANGED <<syncVars, netVars, window, known, queue, busy, target, handled>>

(* The window ends: what has not been passed on is dropped. *)
WindowEnds ==
    /\ window
    /\ window' = FALSE
    /\ air' = {}
    /\ UNCHANGED <<syncVars, netVars, workerVars>>

-----------------------------------------------------------------------------
(* The worker's event loop. *)

(* Only a new endpoint is queued. *)
Bug_ReceiveEvent ==
    /\ events # <<>>
    /\ LET e == Head(events)
       IN  /\ known' = [known EXCEPT ![e.key] = e.host]
           /\ queue' = IF known[e.key] = 0 THEN Enqueue(queue, e.key) ELSE queue
    /\ events' = Tail(events)
    /\ UNCHANGED <<syncVars, netVars, browserVars, busy, target, handled>>

(* An endpoint is remembered, and queued in any case. *)
Observe(e) ==
    /\ known' = [known EXCEPT ![e.key] = e.host]
    /\ queue' = Enqueue(queue, e.key)

(* An endpoint is received. *)
ReceiveEvent ==
    /\ events # <<>>
    /\ Observe(Head(events))
    /\ events' = Tail(events)
    /\ UNCHANGED <<syncVars, netVars, browserVars, busy, target, handled>>

(* An endpoint is received from the full channel, and a forwarder that is   *)
(* blocked in its send gets the place.                                      *)
Handover(k) ==
    /\ Len(events) = Buffer
    /\ Observe(Head(events))
    /\ \E e \in air :
         /\ e.key = k /\ EntryToEndpoint(e)
         /\ events' = Append(Tail(events), e)
         /\ air' = air \ {e}
    /\ UNCHANGED <<syncVars, netVars, window, busy, target, handled>>

(* The resync ticker queues a known endpoint. *)
Resync(k) ==
    /\ known[k] # 0
    /\ queue' = Enqueue(queue, k)
    /\ UNCHANGED <<syncVars, netVars, browserVars, events, known, busy, target, handled>>

-----------------------------------------------------------------------------
(* processQueue and handle. *)

(* The next key is taken, and its endpoint looked up. *)
TakeKey ==
    /\ busy = 0 /\ queue # <<>>
    /\ busy' = Head(queue)
    /\ target' = known[Head(queue)]
    /\ queue' = Tail(queue)
    /\ UNCHANGED <<syncVars, netVars, browserVars, events, known, handled>>

(* The configured defaults go before the Secret. *)
Bug_CredentialCandidates(k, read) ==
    LET Add(s, c) == IF c = 0 \/ c \in Members(s) THEN s ELSE Append(s, c)
    IN  Add(Add(Add(<<>>, Defaults[k]), Wildcard), read)

(* credentialCandidates: the Secret as it was read, the service's default,  *)
(* the wildcard; pairs that are missing or listed already are left out.     *)
CredentialCandidates(k, read) ==
    LET Add(s, c) == IF c = 0 \/ c \in Members(s) THEN s ELSE Append(s, c)
    IN  Add(Add(Add(<<>>, read), Defaults[k]), Wildcard)

(* The read of the Secret fails with any error: the defaults are left.      *)
SecretReads == {secret, 0}

(* The candidates that b takes, in the order in which they are tried. *)
Accepted(b, k, read) ==
    SelectSeq(CredentialCandidates(k, read), LAMBDA c : c \in Accepts[b])

(* The BMC takes one of the candidates. *)
Verified(b, k) == Accepted(b, k, secret) # <<>>

(* handle returns: an error queues the key again. *)
Done(failed) ==
    /\ queue' = IF failed THEN Enqueue(queue, busy) ELSE queue
    /\ handled' = IF failed THEN handled ELSE [handled EXCEPT ![busy] = target]
    /\ busy' = 0
    /\ target' = 0

(* hasNICMAC: some NIC port carries a MAC, valid or not. *)
HasNICMAC(nics) == \E i \in DOMAIN nics : nics[i] # Empty

(* The interfaces' MACs: the permanent ones or else the current ones.  An   *)
(* interface with neither, which the code skips, stays as an empty one.     *)
InterfaceMACs(ifaces) ==
    [i \in DOMAIN ifaces |->
        IF ifaces[i].permanent # Empty THEN ifaces[i].permanent ELSE ifaces[i].current]

(* enrichNICs asks the Systems when bmclib found no MAC at all. *)
EnrichNICs(b) ==
    IF HasNICMAC(Adapters[b]) THEN Adapters[b]
                              ELSE Adapters[b] \o InterfaceMACs(Interfaces[b])

(* The NICs of b's inventory: enrichNICs only logs its errors. *)
Inventories(b) == {EnrichNICs(b), Adapters[b]}

(* The letter case of the reported MAC is kept, and so fails the pattern. *)
Bug_PrimaryMAC(nics) ==
    LET valid == {i \in DOMAIN nics : nics[i].form = "lower"}
        first == CHOOSE i \in valid : \A j \in valid : i <= j
    IN  IF valid = {} THEN 0 ELSE nics[first].mac

(* The first MAC that matches macPattern in lower case; that inbandMACs     *)
(* lists none twice makes no difference to the first.                       *)
PrimaryMAC(nics) ==
    LET valid == {i \in DOMAIN nics : nics[i].form \in {"lower", "upper"}}
        first == CHOOSE i \in valid : \A j \in valid : i <= j
    IN  IF valid = {} THEN 0 ELSE nics[first].mac

(* Collect, with one candidate after the other, verifies whoever answers at *)
(* the host, and Sync begins with what it reports.  With a failed call, the *)
(* Secret's pair is missing, an earlier candidate does not get through, or  *)
(* the inventory is not enriched.                                           *)
Collect ==
    /\ busy # 0 /\ job = NoJob
    /\ \E b \in Bmcs, read \in SecretReads :
       \E c \in Accepts[b], nics \in Inventories(b) :
         LET clean == /\ read = secret
                      /\ c = Head(Accepted(b, busy, read))
                      /\ nics = EnrichNICs(b)
         IN  /\ addr[b] = target
             /\ c \in Members(CredentialCandidates(busy, read))
             /\ job' = NewJob(BmcOf[busy], c, target, PrimaryMAC(nics))
             /\ clean \/ faults < MaxFaults
             /\ faults' = IF clean THEN faults ELSE faults + 1
    /\ UNCHANGED <<objVars, held, writes>>
    /\ UNCHANGED <<netVars, browserVars, workerVars>>

(* Nobody answers there, nobody takes the candidates, or there are none. *)
CollectFails ==
    /\ busy # 0 /\ job = NoJob
    /\ \/ /\ \A b \in Bmcs : addr[b] = target => ~Verified(b, busy)
          /\ UNCHANGED faults
       \/ faults < MaxFaults /\ faults' = faults + 1
    /\ Done(TRUE)
    /\ UNCHANGED <<objVars, job, held, writes, netVars, browserVars, events, known>>

(* Sync returned. *)
SyncReturns ==
    /\ busy # 0 /\ job \in {Finished, Failed}
    /\ Done(job = Failed)
    /\ job' = NoJob
    /\ UNCHANGED <<objVars, held, writes, faults, netVars, browserVars, events, known>>

(* The calls of Sync, and the other writers, leave the worker alone. *)
Within(A) == A /\ UNCHANGED <<netVars, browserVars, workerVars>>

(* The leader dies, and the next one starts from nothing. *)
Restart ==
    /\ faults < MaxFaults
    /\ faults' = faults + 1
    /\ job' = NoJob
    /\ held' = FALSE
    /\ window' = FALSE
    /\ air' = {}
    /\ events' = <<>>
    /\ known' = [k \in Keys |-> 0]
    /\ queue' = <<>>
    /\ busy' = 0
    /\ target' = 0
    /\ handled' = [k \in Keys |-> 0]
    /\ UNCHANGED <<objVars, writes, netVars>>

-----------------------------------------------------------------------------

Init ==
    /\ SyncInit
    /\ addr \in [Bmcs -> Hosts]
    /\ \A a, b \in Bmcs : addr[a] = addr[b] => a = b
    /\ moves = 0
    /\ secret = 0
    /\ window = FALSE
    /\ air = {}
    /\ events = <<>>
    /\ known = [k \in Keys |-> 0]
    /\ queue = <<>>
    /\ busy = 0
    /\ target = 0
    /\ handled = [k \in Keys |-> 0]

EventLoop == ReceiveEvent \/ \E k \in Keys : Handover(k) \/ Resync(k)
Handle == TakeKey \/ Collect \/ CollectFails \/ Within(SyncStep) \/ SyncReturns

Next ==
    \/ Readdress
    \/ \E c \in Configured : WriteSecret(c)
    \/ BrowseOnce
    \/ WindowEnds
    \/ \E k \in Keys : Advertise(k) \/ Forward(k)
    \/ EventLoop
    \/ Handle
    \/ Within(SyncFails)
    \/ Within(Others)
    \/ Restart

Spec == Init /\ [][Next]_vars

(***************************************************************************)
(* Fairness.  Browse cycles begin and end for ever, and the event loop and *)
(* the consumer go on: every call they make has a timeout.  A BMC that     *)
(* answers is heard in window after window, and a forwarder that has an    *)
(* endpoint again and again gets it through, into a channel with room or   *)
(* into the place of one that is received: a window lasts seconds, and the *)
(* loop that drains the channel never blocks.                              *)
(***************************************************************************)
FairSpec ==
    /\ Spec
    /\ WF_vars(BrowseOnce) /\ WF_vars(WindowEnds)
    /\ \A k \in Keys : SF_vars(Advertise(k)) /\ SF_vars(Forward(k) \/ Handover(k))
    /\ WF_vars(ReceiveEvent)
    /\ WF_vars(Handle)
    /\ \A k \in Kinds : WF_vars(Within(Refresh(k)))

-----------------------------------------------------------------------------
(* Properties. *)

TypeOK ==
    /\ SyncTypeOK
    /\ addr \in [Bmcs -> Hosts \union {0}]
    /\ moves \in 0 .. MaxMoves
    /\ secret \in Creds \union {0}
    /\ window \in BOOLEAN
    /\ air \subseteq Endpoints
    /\ events \in Seq(Endpoints)
    /\ known \in [Keys -> Hosts \union {0}]
    /\ queue \in Seq(Keys)
    /\ busy \in Keys \union {0}
    /\ target \in Hosts \union {0}
    /\ handled \in [Keys -> Hosts \union {0}]

(* No wake-up is lost: an endpoint that is known under a host it was not    *)
(* synced with is waiting in the queue, or being handled with that host,    *)
(* also when it moved while it was being handled or its handling failed.    *)
NoLostUpdate ==
    \A k \in Keys : known[k] # handled[k] =>
        k \in Members(queue) \/ (busy = k /\ target = known[k])

(* The object describes its BMC, or belongs to somebody else. *)
Describes(o, v) == o.there /\ (o.managed => o.value = v)

(* The pair that is meant for b: the operator's, or else the closest default. *)
Preferred(b, k) ==
    CASE secret \in Accepts[b]      -> secret
      [] Defaults[k] \in Accepts[b] -> Defaults[k]
      [] OTHER                      -> Wildcard

(* The first of the MACs that b reports in either letter case, 0 for none. *)
OwnMAC(b) ==
    LET macs == SelectSeq(EnrichNICs(b), LAMBDA r : r.form \in {"lower", "upper"})
    IN  IF macs = <<>> THEN 0 ELSE Head(macs).mac

(* Every BMC that keeps its address and takes one of the candidates ends up *)
(* described by its own Secret, with the pair that is meant for it, Machine *)
(* and Hardware, whichever advertisements were dropped, whoever had its     *)
(* address before, whoever else wrote the objects, and whatever failed on   *)
(* the way, be it a read that left only the defaults or an enrichment that  *)
(* left no MAC.                                                             *)
Converges ==
    \A k \in Keys : LET b == BmcOf[k] IN
        <>[](addr[b] # 0 /\ Verified(b, k))
            => <>[](/\ Describes(store["secret"][b], Preferred(b, k))
                    /\ Describes(store["machine"][b], addr[b])
                    /\ Describes(store["hardware"][b], OwnMAC(b)))
=============================================================================
