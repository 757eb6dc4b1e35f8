------------------------------- MODULE Syncer -------------------------------
(***************************************************************************)
(* internal/sync: one Sync call at a time writes the auth Secret, the bmc  *)
(* Machine and the Hardware of a verified BMC, each by a get through the   *)
(* informer cache and then a create or a conditional server-side apply,    *)
(* among the other writers of these objects.                               *)
(*                                                                         *)
(* Every call is an action.  The resourceVersion that an apply carries is  *)
(* kept as whether the object was written since the revision in the cache  *)
(* (stale) and since the get (held).                                       *)
(***************************************************************************)
EXTENDS Naturals

CONSTANTS
    Names,        \* resource names
    Creds,        \* BMC credentials
    Hosts,        \* BMC addresses
    Macs,         \* what PrimaryMAC may return, 0 for none
    Env,          \* the other writers and hazards that are switched on
    MaxWrites,    \* bound on the writes of others
    MaxFaults     \* bound on failed calls

EnvKinds ==
    { "lag",      \* the informer cache may lag the API server
      "foreign",  \* terraform or people create and relabel objects
      "tink",     \* the tink workflow controller arms and disarms PXE
      "capt" }    \* CAPT writes the userData of Hardware it claims

Kinds == {"secret", "machine", "hardware"}

ASSUME ValuesAssumption == Creds \subseteq Nat /\ Hosts \subseteq Nat /\ Macs \subseteq Nat
ASSUME EnvAssumption == Env \subseteq EnvKinds
ASSUME BoundsAssumption == MaxWrites \in Nat /\ MaxFaults \in Nat

VARIABLES
    store,    \* the objects in the API server, by kind and name
    cache,    \* the same as the informers show them
    stale,    \* objects that were written since the cache's revision
    job,      \* the running Sync call: its next call and its arguments
    held,     \* the object of its apply is unchanged since the get
    netboot,  \* history: the netboot value tink last wrote, by name
    writes,   \* writes of others so far
    faults    \* faults spent so far

objVars == <<store, cache, stale, netboot>>
syncVars == <<objVars, job, held, writes, faults>>

(***************************************************************************)
(* An object: whether it exists, carries the managed-by label, the value   *)
(* discovery always asserts (credentials, host, or the instance id, which  *)
(* is the MAC or, 0 here, the serial), and, for Hardware, the atomic       *)
(* interfaces list (its MAC, 0 when empty; its netboot value; the managers *)
(* that own it) and CAPT's userData.                                       *)
(***************************************************************************)
Objects ==
    [ there : BOOLEAN, managed : BOOLEAN, value : Nat, list : Nat,
      pxe : BOOLEAN, owners : SUBSET {"create", "apply", "tink"}, user : BOOLEAN ]

Absent == [ there |-> FALSE, managed |-> FALSE, value |-> 0, list |-> 0,
            pxe |-> FALSE, owners |-> {}, user |-> FALSE ]

(* A Sync call: its next call, on which object, and its arguments. *)
Jobs == [ step : {"idle", "ok", "error", "get", "create", "apply"}, kind : Kinds,
          name : Names \union {0}, cred : Nat, host : Nat, mac : Nat, pxe : BOOLEAN ]

NoJob == [ step |-> "idle", kind |-> "secret", name |-> 0,
           cred |-> 0, host |-> 0, mac |-> 0, pxe |-> TRUE ]

(* What is left of a Sync that returned. *)
Finished == [NoJob EXCEPT !.step = "ok"]
Failed == [NoJob EXCEPT !.step = "error"]
Syncing == job.step \in {"get", "create", "apply"}

-----------------------------------------------------------------------------
(* The desired objects. *)

DesiredValue(j) ==
    CASE j.kind = "secret"  -> j.cred
      [] j.kind = "machine" -> j.host
      [] OTHER              -> j.mac

StampOwnership(o) == [o EXCEPT !.managed = TRUE]

(* The sparse object of the job, and nothing that belongs to others. *)
Desired(j) ==
    LET list == IF j.kind = "hardware" THEN j.mac ELSE 0
    IN  StampOwnership([Absent EXCEPT !.there = TRUE, !.value = DesiredValue(j),
                                      !.list = list, !.pxe = list # 0 /\ j.pxe])

(* The live netboot is not carried. *)
Bug_NetbootFor(live) == TRUE

(* netbootFor: the live value, or else the default. *)
NetbootFor(live) == live.list # 0 => live.pxe

(* A new object: its creator is a manager of its own, not yet the applier. *)
Created(d) == [d EXCEPT !.owners = IF d.list = 0 THEN {} ELSE {"create"}]

(***************************************************************************)
(* What the API server makes of a forced apply of d over o: fields that d  *)
(* does not assert stay; the interfaces list is replaced, and its other    *)
(* owners lose it if its value changes; a list that d stops to assert goes *)
(* only when nobody else owns it.                                          *)
(***************************************************************************)
Applied(o, d) ==
    LET same == o.list = d.list /\ o.pxe = d.pxe
        drop == d.list = 0 /\ o.owners \subseteq {"apply"}
    IN  [o EXCEPT !.managed = TRUE,
                  !.value = d.value,
                  !.list = IF d.list # 0 THEN d.list ELSE IF drop THEN 0 ELSE @,
                  !.pxe = IF d.list # 0 THEN d.pxe ELSE IF drop THEN FALSE ELSE @,
                  !.owners = IF d.list = 0 THEN @ \ {"apply"}
                             ELSE IF same THEN @ \union {"apply"}
                             ELSE {"apply"}]

-----------------------------------------------------------------------------
(* Writes and watch events. *)

(* Object o is stored; a cache that never lags shows it at once. *)
Write(k, n, o) ==
    /\ store' = [store EXCEPT ![k][n] = o]
    /\ cache' = IF "lag" \in Env THEN cache ELSE [cache EXCEPT ![k][n] = o]
    /\ stale' = IF "lag" \in Env THEN stale \union {<<k, n>>} ELSE stale

(* The informer of one kind catches up. *)
Refresh(k) ==
    /\ \E n \in Names : <<k, n>> \in stale
    /\ cache' = [cache EXCEPT ![k] = store[k]]
    /\ stale' = stale \ ({k} \X Names)
    /\ UNCHANGED <<store, netboot, job, held, writes, faults>>

(* Somebody else writes: the apply of a get before that will conflict. *)
OtherWrite(k, n, o) ==
    /\ writes < MaxWrites
    /\ writes' = writes + 1
    /\ Write(k, n, o)
    /\ held' = (held /\ ~(job.kind = k /\ job.name = n))
    /\ UNCHANGED <<job, faults>>

(* Terraform or a person creates the object, with contents of its own. *)
ForeignCreate(k, n) ==
    /\ "foreign" \in Env
    /\ ~store[k][n].there
    /\ OtherWrite(k, n, [Absent EXCEPT !.there = TRUE])
    /\ UNCHANGED netboot

(* Somebody takes the managed-by label off, to keep the object as it is. *)
StripLabel(k, n) ==
    /\ "foreign" \in Env
    /\ store[k][n].managed
    /\ OtherWrite(k, n, [store[k][n] EXCEPT !.managed = FALSE])
    /\ UNCHANGED netboot

(* The workflow controller arms or disarms PXE: its update of the list     *)
(* makes it the only owner.                                                *)
TinkToggles(n) ==
    /\ "tink" \in Env
    /\ store["hardware"][n].list # 0
    /\ OtherWrite("hardware", n, [store["hardware"][n] EXCEPT !.pxe = ~@, !.owners = {"tink"}])
    /\ netboot' = [netboot EXCEPT ![n] = {store'["hardware"][n].pxe}]

CaptClaims(n) ==
    /\ "capt" \in Env
    /\ store["hardware"][n].there /\ ~store["hardware"][n].user
    /\ OtherWrite("hardware", n, [store["hardware"][n] EXCEPT !.user = TRUE])
    /\ UNCHANGED netboot

Others ==
    \/ \E k \in Kinds : Refresh(k)
    \/ \E k \in Kinds, n \in Names : ForeignCreate(k, n) \/ StripLabel(k, n)
    \/ \E n \in Names : TinkToggles(n) \/ CaptClaims(n)

-----------------------------------------------------------------------------
(* Sync and applyManaged. *)

(* Sync starts with the Secret. *)
NewJob(n, c, h, m) ==
    [NoJob EXCEPT !.step = "get", !.name = n, !.cred = c, !.host = h, !.mac = m]

StartSync(n, c, h, m) ==
    /\ ~Syncing
    /\ job' = NewJob(n, c, h, m)
    /\ UNCHANGED <<objVars, held, writes, faults>>

(* The Hardware goes first. *)
Bug_NextKind(j) ==
    CASE j.kind = "hardware" -> [j EXCEPT !.step = "get", !.kind = "machine"]
      [] j.kind = "secret"   -> [j EXCEPT !.step = "get", !.kind = "hardware"]
      [] OTHER               -> Finished

(* applyManaged returned nil: on to the next kind, or Sync is done. *)
NextKind(j) ==
    CASE j.kind = "secret"  -> [j EXCEPT !.step = "get", !.kind = "machine"]
      [] j.kind = "machine" -> [j EXCEPT !.step = "get", !.kind = "hardware"]
      [] OTHER              -> Finished

(* The get: create what is missing, skip what is not ours, else carry the   *)
(* live netboot over and apply.                                             *)
Get ==
    LET live == cache[job.kind][job.name]
    IN  /\ job.step = "get"
        /\ job' = IF ~live.there THEN [job EXCEPT !.step = "create"]
                  ELSE IF ~live.managed THEN NextKind(job)
                  ELSE [job EXCEPT !.step = "apply",
                                   !.pxe = job.kind = "hardware" => NetbootFor(live)]
        /\ held' = (live.managed /\ <<job.kind, job.name>> \notin stale)
        /\ UNCHANGED <<objVars, writes, faults>>

(* Creation is an upsert. *)
Bug_Create ==
    /\ job.step = "create"
    /\ Write(job.kind, job.name,
             Applied([store[job.kind][job.name] EXCEPT !.there = TRUE], Desired(job)))
    /\ job' = NextKind(job)
    /\ held' = FALSE
    /\ UNCHANGED <<netboot, writes, faults>>

(* A plain POST; an object that appeared meanwhile is an error. *)
Create ==
    /\ job.step = "create"
    /\ IF ~store[job.kind][job.name].there
       THEN Write(job.kind, job.name, Created(Desired(job))) /\ job' = NextKind(job)
       ELSE job' = Failed /\ UNCHANGED <<store, cache, stale>>
    /\ held' = FALSE
    /\ UNCHANGED <<netboot, writes, faults>>

(* A plain update: the sparse object replaces the live one. *)
Bug_Apply ==
    /\ job.step = "apply"
    /\ IF held
       THEN Write(job.kind, job.name, Created(Desired(job))) /\ job' = NextKind(job)
       ELSE job' = Failed /\ UNCHANGED <<store, cache, stale>>
    /\ held' = FALSE
    /\ UNCHANGED <<netboot, writes, faults>>

(* The apply; an object that was written since is a Conflict, an error. *)
Apply ==
    /\ job.step = "apply"
    /\ IF held
       THEN /\ Write(job.kind, job.name, Applied(store[job.kind][job.name], Desired(job)))
            /\ job' = NextKind(job)
       ELSE job' = Failed /\ UNCHANGED <<store, cache, stale>>
    /\ held' = FALSE
    /\ UNCHANGED <<netboot, writes, faults>>

(* A call fails, or takes effect and fails all the same: Sync returns. *)
SyncFails ==
    /\ Syncing
    /\ faults < MaxFaults
    /\ faults' = faults + 1
    /\ job' = Failed
    /\ held' = FALSE
    /\ \/ UNCHANGED <<store, cache, stale>>
       \/ /\ job.step = "create" /\ ~store[job.kind][job.name].there
          /\ Write(job.kind, job.name, Created(Desired(job)))
       \/ /\ job.step = "apply" /\ held
          /\ Write(job.kind, job.name, Applied(store[job.kind][job.name], Desired(job)))
    /\ UNCHANGED <<netboot, writes>>

SyncStep == Get \/ Create \/ Apply

-----------------------------------------------------------------------------
(* A caller that syncs whatever it likes. *)

SyncInit ==
    /\ store = [k \in Kinds |-> [n \in Names |-> Absent]]
    /\ cache = store
    /\ stale = {}
    /\ job = NoJob
    /\ held = FALSE
    /\ netboot = [n \in Names |-> {}]
    /\ writes = 0
    /\ faults = 0

SyncNext ==
    \/ \E n \in Names, c \in Creds, h \in Hosts, m \in Macs : StartSync(n, c, h, m)
    \/ SyncStep
    \/ SyncFails
    \/ Others

SyncSpec == SyncInit /\ [][SyncNext]_syncVars

-----------------------------------------------------------------------------
(* Properties. *)

SyncTypeOK ==
    /\ store \in [Kinds -> [Names -> Objects]]
    /\ cache \in [Kinds -> [Names -> Objects]]
    /\ stale \subseteq Kinds \X Names
    /\ job \in Jobs
    /\ Syncing => job.name \in Names
    /\ held \in BOOLEAN
    /\ netboot \in [Names -> SUBSET BOOLEAN]
    /\ writes \in 0 .. MaxWrites
    /\ faults \in 0 .. MaxFaults

(* An object that exists without the managed-by label is never modified or  *)
(* adopted by a step of Sync, however it came to be there between the get,  *)
(* the informer's view of it and the write.                                 *)
NeverAdopts ==
    [][job' # job => \A k \in Kinds, n \in Names :
        store[k][n].there /\ ~store[k][n].managed => store'[k][n] = store[k][n]]_syncVars

(* The userData that CAPT put on a Hardware outlives every write of Sync,   *)
(* whose sparse objects do not know of it.                                  *)
ForeignFieldsKept ==
    [][\A n \in Names : store["hardware"][n].user => store'["hardware"][n].user]_syncVars

(* Once the workflow controller has set netboot, the Hardware never shows a *)
(* value other than the one it set last: no get-then-apply of discovery     *)
(* undoes a disarm.                                                         *)
NetbootIsTinks ==
    \A n \in Names : store["hardware"][n].list # 0 =>
        netboot[n] \subseteq {store["hardware"][n].pxe}

(* References resolve at every moment: what discovery wrote refers to       *)
(* objects that exist, also when a Sync fails half-way.                     *)
ReferencesResolve ==
    \A n \in Names :
        /\ store["hardware"][n].managed => store["machine"][n].there
        /\ store["machine"][n].managed => store["secret"][n].there
=============================================================================
