-------------------------- MODULE DiscoveryProofs --------------------------
(***************************************************************************)
(* No wake-up of the discovery worker is lost, and what it writes keeps    *)
(* the promises of Sync, for any number of BMCs, endpoints and addresses,  *)
(* any channel and any number of faults.                                   *)
(***************************************************************************)
EXTENDS Discovery, SyncerProofs, WellFoundedInduction

(* A handling that began with an outdated host will be repeated. *)
TargetFresh ==
    busy # 0 => target = known[busy] \/ busy \in Members(queue)

(* Only endpoints that are known, with a host, are queued or handled: the   *)
(* lookup at the start of handle always succeeds.                           *)
QueuedKnown ==
    /\ \A e \in Members(events) : e.host # 0
    /\ \A k \in Members(queue) : known[k] # 0
    /\ busy # 0 => target # 0

(* The inductive invariant. *)
IInv ==
    /\ TypeOK
    /\ SyncInv
    /\ NoLostUpdate
    /\ TargetFresh
    /\ QueuedKnown

-----------------------------------------------------------------------------

(* The members of a queue that grows at its end, and shrinks at its head. *)
LEMMA MembersFacts ==
    ASSUME NEW S, NEW s \in Seq(S)
    PROVE  /\ Members(s) \subseteq S
           /\ \A e \in S : Members(Append(s, e)) = Members(s) \union {e}
           /\ s # <<>> => /\ Head(s) \in S
                          /\ Tail(s) \in Seq(S)
                          /\ Members(s) = {Head(s)} \union Members(Tail(s))
  <1>1. Members(s) \subseteq S
    BY DEF Members
  <1>2. ASSUME NEW e \in S PROVE Members(Append(s, e)) = Members(s) \union {e}
    <2>1. /\ DOMAIN s = 1 .. Len(s) /\ Len(s) \in Nat
          /\ DOMAIN Append(s, e) = 1 .. Len(s) + 1
          /\ \A i \in 1 .. Len(s) : Append(s, e)[i] = s[i]
          /\ Append(s, e)[Len(s) + 1] = e
      OBVIOUS
    <2>2. 1 .. Len(s) + 1 = (1 .. Len(s)) \union {Len(s) + 1}
      BY <2>1
    <2>. QED  BY <2>1, <2>2 DEF Members
  <1>3. ASSUME s # <<>>
        PROVE  /\ Head(s) \in S /\ Tail(s) \in Seq(S)
               /\ Members(s) = {Head(s)} \union Members(Tail(s))
    <2>1. /\ DOMAIN s = 1 .. Len(s) /\ Len(s) \in Nat \ {0}
          /\ Tail(s) \in Seq(S) /\ Len(Tail(s)) = Len(s) - 1
          /\ DOMAIN Tail(s) = 1 .. Len(s) - 1
          /\ \A i \in 1 .. Len(s) - 1 : Tail(s)[i] = s[i + 1]
          /\ Head(s) = s[1] /\ Head(s) \in S
      BY <1>3
    <2>2. ASSUME NEW x \in Members(s) PROVE x \in {Head(s)} \union Members(Tail(s))
      <3>1. PICK i \in 1 .. Len(s) : x = s[i]
        BY <2>1, <2>2 DEF Members
      <3>2. CASE i = 1
        BY <2>1, <3>1, <3>2
      <3>3. CASE i # 1
        <4>1. i - 1 \in DOMAIN Tail(s) /\ Tail(s)[i - 1] = x
          BY <2>1, <3>1, <3>3
        <4>. QED  BY <4>1 DEF Members
      <3>. QED  BY <3>2, <3>3
    <2>3. ASSUME NEW x \in {Head(s)} \union Members(Tail(s)) PROVE x \in Members(s)
      <3>1. CASE x = Head(s)
        BY <2>1, <3>1 DEF Members
      <3>2. CASE x \in Members(Tail(s))
        <4>1. PICK i \in 1 .. Len(s) - 1 : x = Tail(s)[i]
          BY <2>1, <3>2 DEF Members
        <4>2. i + 1 \in DOMAIN s /\ s[i + 1] = x
          BY <2>1, <4>1
        <4>. QED  BY <4>2 DEF Members
      <3>. QED  BY <2>3, <3>1, <3>2
    <2>. QED  BY <2>1, <2>2, <2>3
  <1>. QED  BY <1>1, <1>2, <1>3

(* Adding a key to the queue adds it to its members. *)
LEMMA EnqueueFacts ==
    ASSUME NEW q \in Seq(Keys), NEW k \in Keys
    PROVE  /\ Enqueue(q, k) \in Seq(Keys)
           /\ Members(Enqueue(q, k)) = Members(q) \union {k}
  BY MembersFacts DEF Enqueue

(* The invariant of the worker survives what does not touch the worker. *)
LEMMA WorkerKept ==
    ASSUME IInv, SyncInv', addr' \in [Bmcs -> Hosts \union {0}], moves' \in 0 .. MaxMoves,
           secret' \in Creds \union {0}, window' \in BOOLEAN, air' \subseteq Endpoints,
           UNCHANGED workerVars
    PROVE  IInv'
  <1>1. TypeOK'
    BY DEF IInv, TypeOK, SyncInv, workerVars
  <1>. QED
    BY <1>1 DEF IInv, NoLostUpdate, TargetFresh, QueuedKnown, workerVars

(* The invariant of Sync survives what does not touch Sync. *)
LEMMA SyncKept ==
    ASSUME SyncInv, UNCHANGED syncVars
    PROVE  SyncInv'
  BY SyncNextSafe

(* The network, the operator and the browse windows. *)
LEMMA OutsideSafe ==
    ASSUME IInv,
           \/ Readdress \/ BrowseOnce \/ WindowEnds
           \/ \E c \in Configured : WriteSecret(c)
           \/ \E k \in Keys : Advertise(k)
           \/ Within(SyncStep) \/ Within(SyncFails) \/ Within(Others)
    PROVE  IInv'
  <1>0. /\ addr \in [Bmcs -> Hosts \union {0}] /\ moves \in 0 .. MaxMoves
        /\ secret \in Creds \union {0} /\ window \in BOOLEAN /\ air \subseteq Endpoints
        /\ SyncInv
    BY DEF IInv, TypeOK
  <1>1. CASE Readdress
    <2>1. moves' \in 0 .. MaxMoves
      BY <1>0, <1>1, BufferAssumption DEF Readdress
    <2>. QED  BY <1>0, <1>1, <2>1, SyncKept, WorkerKept DEF Readdress, browserVars
  <1>2. CASE BrowseOnce
    BY <1>0, <1>2, SyncKept, WorkerKept DEF BrowseOnce, netVars
  <1>3. CASE WindowEnds
    BY <1>0, <1>3, SyncKept, WorkerKept DEF WindowEnds, netVars
  <1>4. ASSUME NEW c \in Configured, WriteSecret(c) PROVE IInv'
    <2>1. secret' \in Creds
      BY <1>4, DefaultsAssumption DEF WriteSecret
    <2>. QED  BY <1>0, <1>4, <2>1, SyncKept, WorkerKept DEF WriteSecret, browserVars
  <1>5. ASSUME NEW k \in Keys, Advertise(k) PROVE IInv'
    <2>1. addr[BmcOf[k]] \in Hosts \union {0}
      BY <1>0, BmcAssumption
    <2>2. air' \subseteq Endpoints
      BY <1>0, <1>5, <2>1 DEF Advertise, Endpoints
    <2>. QED  BY <1>0, <1>5, <2>2, SyncKept, WorkerKept DEF Advertise, netVars
  <1>6. CASE Within(SyncStep) \/ Within(SyncFails) \/ Within(Others)
    <2>1. SyncInv'
      BY <1>0, <1>6, SyncNextSafe DEF Within, SyncNext
    <2>. QED  BY <1>0, <1>6, <2>1, WorkerKept DEF Within, netVars, browserVars
  <1>. QED  BY <1>1, <1>2, <1>3, <1>4, <1>5, <1>6

(* The event loop observes an endpoint, whatever becomes of the channel. *)
LEMMA ObserveSafe ==
    ASSUME IInv, events # <<>>, Observe(Head(events)),
           events' \in Seq(Endpoints), \A f \in Members(events') : f.host # 0,
           air' \subseteq air, UNCHANGED <<syncVars, netVars, window, busy, target, handled>>
    PROVE  IInv'
  <1>0. /\ events \in Seq(Endpoints) /\ queue \in Seq(Keys) /\ air \subseteq Endpoints
        /\ known \in [Keys -> Hosts \union {0}] /\ busy \in Keys \union {0} /\ SyncInv
        /\ Keys \subseteq Nat \ {0}
    BY KeysAssumption DEF IInv, TypeOK
  <1>. DEFINE e == Head(events)
  <1>1. /\ known' = [known EXCEPT ![e.key] = e.host] /\ queue' = Enqueue(queue, e.key)
        /\ UNCHANGED <<addr, moves, secret>>
    BY DEF Observe, netVars
  <1>2. e \in Endpoints /\ e \in Members(events)
    BY <1>0, MembersFacts
  <1>3. e.key \in Keys /\ e.host \in Hosts \union {0} /\ e.host # 0
    BY <1>2 DEF Endpoints, IInv, QueuedKnown
  <1>. HIDE DEF e
  <1>4. queue' \in Seq(Keys) /\ Members(queue') = Members(queue) \union {e.key}
    BY <1>0, <1>1, <1>3, EnqueueFacts
  <1>5. /\ known' \in [Keys -> Hosts \union {0}] /\ known'[e.key] = e.host
        /\ \A k \in Keys \ {e.key} : known'[k] = known[k]
    BY <1>0, <1>1, <1>3
  <1>6. SyncInv'
    BY <1>0, SyncKept
  <1>7. TypeOK'
    BY <1>0, <1>1, <1>4, <1>5, <1>6 DEF IInv, TypeOK, SyncInv
  <1>8. NoLostUpdate' /\ TargetFresh'
    BY <1>0, <1>4, <1>5 DEF IInv, NoLostUpdate, TargetFresh
  <1>9. QueuedKnown'
    BY <1>0, <1>3, <1>4, <1>5, MembersFacts DEF IInv, QueuedKnown
  <1>. QED  BY <1>6, <1>7, <1>8, <1>9 DEF IInv

(* The event channel and the event loop. *)
LEMMA LoopSafe ==
    ASSUME IInv, EventLoop \/ \E k \in Keys : Forward(k)
    PROVE  IInv'
  <1>0. /\ events \in Seq(Endpoints) /\ queue \in Seq(Keys) /\ air \subseteq Endpoints
        /\ known \in [Keys -> Hosts \union {0}] /\ busy \in Keys \union {0} /\ SyncInv
        /\ Keys \subseteq Nat \ {0}
    BY KeysAssumption DEF IInv, TypeOK
  <1>1. ASSUME NEW k \in Keys, Forward(k) PROVE IInv'
    <2>1. /\ UNCHANGED <<syncVars, addr, moves, secret, window>>
          /\ UNCHANGED <<known, queue, busy, target, handled>>
          /\ air' \subseteq air
      BY <1>1 DEF Forward, netVars
    <2>2. /\ events' \in Seq(Endpoints)
          /\ \A e \in Members(events') : e.host # 0
      <3>1. CASE events' = events
        BY <1>0, <3>1 DEF IInv, QueuedKnown
      <3>2. ASSUME NEW e \in air, EntryToEndpoint(e), events' = Append(events, e)
            PROVE  /\ events' \in Seq(Endpoints)
                   /\ \A f \in Members(events') : f.host # 0
        BY <1>0, <3>2, MembersFacts DEF IInv, QueuedKnown, EntryToEndpoint
      <3>. QED  BY <1>1, <3>1, <3>2 DEF Forward
    <2>3. SyncInv'
      BY <1>0, <2>1, SyncKept
    <2>4. TypeOK'
      BY <1>0, <2>1, <2>2, <2>3 DEF IInv, TypeOK, SyncInv
    <2>. QED
      BY <2>1, <2>2, <2>3, <2>4 DEF IInv, NoLostUpdate, TargetFresh, QueuedKnown
  <1>2. ASSUME NEW k \in Keys, Resync(k) PROVE IInv'
    <2>1. /\ UNCHANGED <<syncVars, addr, moves, secret, window, air, events, known, busy,
                         target, handled>>
          /\ queue' = Enqueue(queue, k) /\ known[k] # 0
      BY <1>2 DEF Resync, netVars, browserVars
    <2>2. queue' \in Seq(Keys) /\ Members(queue') = Members(queue) \union {k}
      BY <1>0, <2>1, EnqueueFacts
    <2>3. SyncInv'
      BY <1>0, <2>1, SyncKept
    <2>4. TypeOK'
      BY <2>1, <2>2, <2>3 DEF IInv, TypeOK, SyncInv
    <2>. QED
      BY <2>1, <2>2, <2>3, <2>4 DEF IInv, NoLostUpdate, TargetFresh, QueuedKnown
  <1>3. CASE ReceiveEvent
    <2>1. /\ UNCHANGED <<syncVars, netVars, window, air, busy, target, handled>>
          /\ events # <<>> /\ events' = Tail(events) /\ Observe(Head(events))
      BY <1>3 DEF ReceiveEvent, browserVars
    <2>2. events' \in Seq(Endpoints) /\ Members(events') \subseteq Members(events)
      BY <1>0, <2>1, MembersFacts
    <2>. QED  BY <2>1, <2>2, ObserveSafe DEF IInv, QueuedKnown
  <1>4. ASSUME NEW k \in Keys, Handover(k) PROVE IInv'
    <2>1. /\ UNCHANGED <<syncVars, netVars, window, busy, target, handled>>
          /\ Observe(Head(events))
      BY <1>4 DEF Handover
    <2>2. PICK e \in air : /\ EntryToEndpoint(e) /\ air' = air \ {e}
                           /\ events' = Append(Tail(events), e)
      BY <1>4 DEF Handover
    <2>3. events # <<>>
      BY <1>4, BufferAssumption DEF Handover
    <2>4. Tail(events) \in Seq(Endpoints) /\ Members(Tail(events)) \subseteq Members(events)
      BY <1>0, <2>3, MembersFacts
    <2>5. events' \in Seq(Endpoints) /\ Members(events') = Members(Tail(events)) \union {e}
      <3>1. e \in Endpoints
        BY <1>0
      <3>2. Members(Append(Tail(events), e)) = Members(Tail(events)) \union {e}
        <4>. DEFINE t == Tail(events)
        <4>1. t \in Seq(Endpoints)
          BY <2>4
        <4>. HIDE DEF t
        <4>2. Members(Append(t, e)) = Members(t) \union {e}
          BY <3>1, <4>1, MembersFacts
        <4>. QED  BY <4>2 DEF t
      <3>. QED  BY <2>2, <2>4, <3>1, <3>2
    <2>6. \A f \in Members(events') : f.host # 0
      BY <2>2, <2>4, <2>5 DEF IInv, QueuedKnown, EntryToEndpoint
    <2>. QED  BY <2>1, <2>2, <2>3, <2>5, <2>6, ObserveSafe
  <1>. QED  BY <1>1, <1>2, <1>3, <1>4 DEF EventLoop

(* The end of a handling: an error queues the key again, and a success that *)
(* missed a newer host finds it queued.                                     *)
LEMMA DoneSafe ==
    ASSUME IInv, SyncInv', busy # 0, NEW failed \in BOOLEAN, Done(failed),
           UNCHANGED <<netVars, browserVars, events, known>>
    PROVE  IInv'
  <1>0. /\ queue \in Seq(Keys) /\ busy \in Keys /\ target \in Hosts \union {0}
        /\ handled \in [Keys -> Hosts \union {0}] /\ Keys \subseteq Nat \ {0}
    BY KeysAssumption DEF IInv, TypeOK
  <1>1. /\ busy' = 0 /\ target' = 0
        /\ queue' = (IF failed THEN Enqueue(queue, busy) ELSE queue)
        /\ handled' = (IF failed THEN handled ELSE [handled EXCEPT ![busy] = target])
    BY DEF Done
  <1>2. /\ queue' \in Seq(Keys) /\ Members(queue) \subseteq Members(queue')
        /\ Members(queue') \subseteq Members(queue) \union {busy}
        /\ failed => busy \in Members(queue')
    BY <1>0, <1>1, EnqueueFacts
  <1>3. known[busy] # 0
    BY <1>0 DEF IInv, TargetFresh, QueuedKnown
  <1>4. TypeOK'
    BY <1>0, <1>1, <1>2 DEF IInv, TypeOK, SyncInv, netVars, browserVars
  <1>5. NoLostUpdate'
    <2>. SUFFICES ASSUME NEW k \in Keys, known[k] # handled'[k] PROVE k \in Members(queue')
      BY DEF NoLostUpdate
    <2>1. CASE k # busy
      BY <1>0, <1>1, <1>2, <2>1 DEF IInv, NoLostUpdate
    <2>2. CASE k = busy
      BY <1>0, <1>1, <1>2, <2>2 DEF IInv, TargetFresh
    <2>. QED  BY <2>1, <2>2
  <1>6. TargetFresh' /\ QueuedKnown'
    BY <1>1, <1>2, <1>3 DEF IInv, TargetFresh, QueuedKnown
  <1>. QED  BY <1>4, <1>5, <1>6 DEF IInv

(* The primary MAC of an inventory is one that a BMC may have, or 0. *)
LEMMA PrimaryMACType ==
    ASSUME NEW b \in Bmcs, NEW nics \in Inventories(b)
    PROVE  PrimaryMAC(nics) \in Nat
  <1>. DEFINE R == Reports \union {Empty}
              valid == {i \in DOMAIN nics : nics[i].form \in {"lower", "upper"}}
  <1>1. \A r \in R : r.mac \in Nat
    <2>1. \A r \in Reports : r.mac \in Nat
      BY ValuesAssumption DEF Reports
    <2>2. Empty.mac \in Nat
      BY DEF Empty
    <2>. QED  BY <2>1, <2>2
  <1>2. Adapters[b] \in Seq(R)
    BY NicsAssumption
  <1>3. Interfaces[b] \in Seq([permanent : R, current : R])
    BY NicsAssumption
  <1>4. InterfaceMACs(Interfaces[b]) \in Seq(R)
    <2>. DEFINE F == [permanent : R, current : R]
    <2>1. \A f \in F : f.permanent \in R /\ f.current \in R
      <3>. HIDE DEF R
      <3>. QED  OBVIOUS
    <2>2. Interfaces[b] \in Seq(F)
      BY <1>3
    <2>. HIDE DEF F, R
    <2>3. /\ DOMAIN Interfaces[b] = 1 .. Len(Interfaces[b]) /\ Len(Interfaces[b]) \in Nat
          /\ \A i \in DOMAIN Interfaces[b] : Interfaces[b][i] \in F
      BY <2>2
    <2>. QED  BY <2>1, <2>3 DEF InterfaceMACs
  <1>5. nics \in Seq(R)
    <2>. HIDE DEF R
    <2>1. Adapters[b] \o InterfaceMACs(Interfaces[b]) \in Seq(R)
      BY <1>2, <1>4
    <2>. QED  BY <1>2, <2>1 DEF Inventories, EnrichNICs
  <1>6. CASE valid = {}
    BY <1>6 DEF PrimaryMAC
  <1>7. CASE valid # {}
    <2>1. valid \subseteq Nat
      BY <1>5
    <2>2. \E i \in valid : \A j \in valid : ~(<<j, i>> \in OpToRel(<, Nat))
      <3>. HIDE DEF valid
      <3>. QED  BY <1>7, <2>1, NatLessThanWellFounded, WFMin
    <2>3. \E i \in valid : \A j \in valid : i <= j
      <3>1. PICK i \in valid : \A j \in valid : ~(<<j, i>> \in OpToRel(<, Nat))
        BY <2>2
      <3>2. ASSUME NEW j \in valid PROVE i <= j
        <4>1. ~(j < i)
          BY <2>1, <3>1 DEF OpToRel
        <4>. QED  BY <2>1, <4>1
      <3>. QED  BY <3>2
    <2>4. (CHOOSE i \in valid : \A j \in valid : i <= j) \in DOMAIN nics
      BY <2>3
    <2>. QED  BY <1>1, <1>5, <1>7, <2>4 DEF PrimaryMAC
  <1>. QED  BY <1>6, <1>7

(* processQueue and handle. *)
LEMMA HandleSafe ==
    ASSUME IInv, TakeKey \/ Collect \/ CollectFails \/ SyncReturns
    PROVE  IInv'
  <1>0. /\ queue \in Seq(Keys) /\ known \in [Keys -> Hosts \union {0}]
        /\ busy \in Keys \union {0} /\ target \in Hosts \union {0} /\ SyncInv
        /\ Keys \subseteq Nat \ {0} /\ faults \in 0 .. MaxFaults
        /\ faults < MaxFaults => faults + 1 \in 0 .. MaxFaults
    BY KeysAssumption, BoundsAssumption DEF IInv, TypeOK, SyncInv, SyncTypeOK
  <1>1. CASE TakeKey
    <2>1. /\ UNCHANGED <<syncVars, addr, moves, secret, window, air, events, known, handled>>
          /\ busy = 0 /\ queue # <<>>
          /\ busy' = Head(queue) /\ target' = known[Head(queue)] /\ queue' = Tail(queue)
      BY <1>1 DEF TakeKey, netVars, browserVars
    <2>2. /\ busy' \in Keys /\ queue' \in Seq(Keys)
          /\ Members(queue) = {busy'} \union Members(queue')
      BY <1>0, <2>1, MembersFacts
    <2>3. target' = known[busy'] /\ target' # 0 /\ target' \in Hosts \union {0}
      BY <1>0, <2>1, <2>2 DEF IInv, QueuedKnown
    <2>4. SyncInv'
      BY <1>0, <2>1, SyncKept
    <2>5. TypeOK'
      BY <2>1, <2>2, <2>3, <2>4 DEF IInv, TypeOK, SyncInv
    <2>6. NoLostUpdate'
      BY <1>0, <2>1, <2>2, <2>3 DEF IInv, NoLostUpdate
    <2>7. TargetFresh' /\ QueuedKnown'
      BY <2>1, <2>2, <2>3 DEF IInv, TargetFresh, QueuedKnown
    <2>. QED  BY <2>4, <2>5, <2>6, <2>7 DEF IInv
  <1>2. CASE Collect
    <2>1. busy \in Keys /\ BmcOf[busy] \in Names /\ ~held
      BY <1>0, <1>2, BmcAssumption DEF Collect, SyncInv, HeldOurs, NoJob
    <2>b. PICK b \in Bmcs : \E c \in Accepts[b], nics \in Inventories(b) :
            /\ job' = NewJob(BmcOf[busy], c, target, PrimaryMAC(nics))
            /\ faults' = faults \/ (faults < MaxFaults /\ faults' = faults + 1)
      BY <1>2 DEF Collect
    <2>2. PICK c \in Accepts[b], nics \in Inventories(b) :
            /\ job' = NewJob(BmcOf[busy], c, target, PrimaryMAC(nics))
            /\ faults' = faults \/ (faults < MaxFaults /\ faults' = faults + 1)
      BY <2>b
    <2>3. target \in Nat /\ c \in Nat /\ PrimaryMAC(nics) \in Nat
      <3>1. target \in Nat
        BY <1>0, ValuesAssumption
      <3>2. c \in Nat
        BY BmcAssumption, ValuesAssumption
      <3>. QED  BY <3>1, <3>2, PrimaryMACType
    <2>4. SyncInv'
      <3>2. job' \in Jobs /\ job'.name \in Names /\ job'.kind = "secret"
        BY <2>1, <2>2, <2>3 DEF NewJob, NoJob, Jobs, Kinds
      <3>3. UNCHANGED <<store, cache, stale, netboot, held, writes>>
        BY <1>2 DEF Collect, objVars
      <3>4. HeldOurs' /\ JobRefers'
        BY <2>1, <3>2, <3>3 DEF HeldOurs, JobRefers
      <3>5. faults' \in 0 .. MaxFaults /\ held' \in BOOLEAN
        BY <1>0, <2>2, <3>3 DEF SyncInv, SyncTypeOK
      <3>. QED  BY <1>0, <3>2, <3>3, <3>4, <3>5, SyncReadSafe
    <2>. QED
      BY <1>2, <2>4, WorkerKept DEF Collect, netVars, browserVars, IInv, TypeOK
  <1>3. ASSUME UNCHANGED <<store, cache, stale, netboot, writes>>, faults' \in 0 .. MaxFaults,
               job' = NoJob, held' \in BOOLEAN, held' => FALSE
        PROVE  SyncInv'
    <2>1. job' \in Jobs /\ ~Syncing'
      BY <1>3 DEF NoJob, Jobs, Kinds, Syncing
    <2>. QED  BY <1>0, <1>3, <2>1, SyncReadSafe DEF HeldOurs, JobRefers
  <1>4. CASE CollectFails
    <2>1. ~held /\ held \in BOOLEAN
      BY <1>0, <1>4 DEF CollectFails, SyncInv, SyncTypeOK, HeldOurs, NoJob
    <2>2. SyncInv'
      BY <1>0, <1>3, <1>4, <2>1 DEF CollectFails, objVars
    <2>. QED  BY <1>4, <2>2, DoneSafe DEF CollectFails
  <1>5. CASE SyncReturns
    <2>1. ~held /\ held \in BOOLEAN
      BY <1>0, <1>5 DEF SyncReturns, SyncInv, SyncTypeOK, HeldOurs, NoJob, Finished, Failed
    <2>2. SyncInv'
      BY <1>0, <1>3, <1>5, <2>1 DEF SyncReturns, objVars
    <2>. QED  BY <1>5, <2>2, DoneSafe DEF SyncReturns
  <1>. QED  BY <1>1, <1>2, <1>4, <1>5

(* A new leader knows nothing, and owes nothing. *)
LEMMA RestartSafe ==
    ASSUME IInv, Restart
    PROVE  IInv'
  <1>1. /\ UNCHANGED <<store, cache, stale, netboot, writes, addr, moves, secret>>
        /\ faults' = faults + 1 /\ faults < MaxFaults /\ job' = NoJob /\ held' = FALSE
        /\ window' = FALSE /\ air' = {} /\ events' = <<>> /\ queue' = <<>>
        /\ known' = [k \in Keys |-> 0] /\ handled' = [k \in Keys |-> 0]
        /\ busy' = 0 /\ target' = 0
    BY DEF Restart, objVars, netVars
  <1>2. faults' \in 0 .. MaxFaults
    BY <1>1, BoundsAssumption DEF IInv, SyncInv, SyncTypeOK
  <1>3. SyncInv'
    <2>1. job' \in Jobs /\ ~Syncing'
      BY <1>1 DEF NoJob, Jobs, Kinds, Syncing
    <2>. QED  BY <1>1, <1>2, <2>1, SyncReadSafe DEF IInv, HeldOurs, JobRefers
  <1>4. TypeOK'
    <2>1. /\ known' \in [Keys -> Hosts \union {0}] /\ handled' \in [Keys -> Hosts \union {0}]
          /\ queue' \in Seq(Keys) /\ events' \in Seq(Endpoints)
      BY <1>1
    <2>. QED  BY <1>1, <1>3, <2>1 DEF IInv, TypeOK, SyncInv
  <1>5. NoLostUpdate' /\ TargetFresh'
    BY <1>1 DEF NoLostUpdate, TargetFresh
  <1>6. QueuedKnown'
    BY <1>1 DEF QueuedKnown, Members
  <1>. QED  BY <1>3, <1>4, <1>5, <1>6 DEF IInv

(* The inductive invariant holds in every behaviour. *)
THEOREM Invariance == Spec => []IInv
  <1>1. Init => IInv
    <2>. SUFFICES ASSUME Init PROVE IInv
      OBVIOUS
    <2>1. SyncInv
      BY SyncInitSafe DEF Init
    <2>2. TypeOK
      <3>1. /\ known \in [Keys -> Hosts \union {0}] /\ handled \in [Keys -> Hosts \union {0}]
            /\ queue \in Seq(Keys) /\ events \in Seq(Endpoints)
        BY DEF Init
      <3>2. addr \in [Bmcs -> Hosts \union {0}] /\ moves \in 0 .. MaxMoves
        BY BufferAssumption DEF Init
      <3>. QED  BY <2>1, <3>1, <3>2 DEF Init, TypeOK, SyncInv
    <2>. QED
      BY <2>1, <2>2 DEF Init, IInv, NoLostUpdate, TargetFresh, QueuedKnown, Members
  <1>2. IInv /\ [Next]_vars => IInv'
    <2>. SUFFICES ASSUME IInv, [Next]_vars PROVE IInv'
      OBVIOUS
    <2>1. CASE UNCHANGED vars
      <3>1. SyncInv'
        BY <2>1, SyncKept DEF vars, IInv
      <3>. QED  BY <2>1, <3>1, WorkerKept DEF vars, netVars, browserVars, IInv, TypeOK
    <2>. QED
      BY <2>1, OutsideSafe, LoopSafe, HandleSafe, RestartSafe DEF Next, Handle
  <1>. QED  BY <1>1, <1>2, PTL DEF Spec

(* The browser, the channel, the worker and its queue keep their types, and *)
(* so does the Sync that the worker runs.                                   *)
THEOREM TypeCorrectness == Spec => []TypeOK
  <1>1. IInv => TypeOK
    BY DEF IInv
  <1>. QED  BY <1>1, Invariance, PTL

(* The worker loses no wake-up: an endpoint known under a host that it was  *)
(* not synced with is queued or in hand, whatever the event loop, the       *)
(* consumer and the resync ticker do at the same time.                      *)
THEOREM WakeUpSafety == Spec => []NoLostUpdate
  <1>1. IInv => NoLostUpdate
    BY DEF IInv
  <1>. QED  BY <1>1, Invariance, PTL

(* What the worker writes, from whatever it was told and by whomever, leaves*)
(* no dangling reference: Sync keeps its promise in the whole controller.   *)
THEOREM WorkerReferenceSafety == Spec => []ReferencesResolve
  <1>1. IInv => ReferencesResolve
    BY DEF IInv, SyncInv
  <1>. QED  BY <1>1, Invariance, PTL

(* Only the calls of Sync and the other writers change an object: the       *)
(* worker itself, its restarts included, stores nothing.                    *)
LEMMA StoreChanges ==
    ASSUME IInv, [Next]_vars
    PROVE  SyncStep \/ SyncFails \/ Others \/ UNCHANGED store
  BY DEF Next, Readdress, WriteSecret, BrowseOnce, WindowEnds, Advertise, Forward, EventLoop,
         ReceiveEvent, Handover, Resync, Handle, TakeKey, Collect, CollectFails, SyncReturns, Within,
         Restart, vars, syncVars, objVars

(* Whatever the worker syncs, for a BMC that answered at an address it no   *)
(* longer owns or after a restart half-way through a Sync: an object        *)
(* without the managed-by label is never modified.                          *)
THEOREM WorkerAdoptionSafety == Spec => NeverAdopts
  <1>1. ASSUME IInv, [Next]_vars
        PROVE  [job' # job => \A k \in Kinds, n \in Names :
                  store[k][n].there /\ ~store[k][n].managed
                    => store'[k][n] = store[k][n]]_syncVars
    <2>1. CASE SyncStep \/ SyncFails
      BY <1>1, <2>1, SyncWrites DEF IInv
    <2>2. CASE Others
      BY <1>1, <2>2, OthersSafe DEF IInv
    <2>. QED  BY <1>1, <2>1, <2>2, StoreChanges
  <1>. QED  BY <1>1, Invariance, PTL DEF Spec, NeverAdopts

(* And CAPT's userData on a Hardware survives every step of the controller. *)
THEOREM WorkerUserDataSafety == Spec => ForeignFieldsKept
  <1>1. ASSUME IInv, [Next]_vars
        PROVE  [\A n \in Names : store["hardware"][n].user
                                    => store'["hardware"][n].user]_syncVars
    <2>1. CASE SyncStep \/ SyncFails
      BY <1>1, <2>1, SyncWrites DEF IInv, Kinds
    <2>2. CASE Others
      BY <1>1, <2>2, OthersSafe DEF IInv
    <2>. QED  BY <1>1, <2>1, <2>2, StoreChanges
  <1>. QED  BY <1>1, Invariance, PTL DEF Spec, ForeignFieldsKept
=============================================================================
