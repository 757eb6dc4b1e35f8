---------------------------- MODULE SyncerProofs ----------------------------
(***************************************************************************)
(* The safety of Sync beside any other writers, for any names, values,     *)
(* number of foreign writes and faults, with or without a lagging cache.   *)
(***************************************************************************)
EXTENDS Syncer, TLAPS

(* Nothing is known of an object that does not exist. *)
Sane(o) == o \in Objects /\ (o.managed \/ o.user \/ o.list # 0 => o.there)

(* The cache is an earlier state of the store, object by object, and the    *)
(* present one where nothing was written since.                             *)
Views ==
    \A k \in Kinds, n \in Names :
        /\ Sane(store[k][n]) /\ Sane(cache[k][n])
        /\ cache[k][n].there => store[k][n].there
        /\ <<k, n>> \notin stale => cache[k][n] = store[k][n]

(* An apply that will not conflict is about an object of discovery's own. *)
HeldOurs ==
    held => /\ job.step = "apply"
            /\ store[job.kind][job.name].managed

(* Sync comes to an object when what it refers to exists. *)
JobRefers ==
    Syncing => /\ job.kind = "machine" => store["secret"][job.name].there
               /\ job.kind = "hardware" => store["machine"][job.name].there

(* The inductive invariant. *)
SyncInv ==
    /\ SyncTypeOK
    /\ Views
    /\ HeldOurs
    /\ JobRefers
    /\ ReferencesResolve

-----------------------------------------------------------------------------

(* What the API server and the cache become by a write of object o. *)
LEMMA WriteEffect ==
    ASSUME SyncTypeOK, Views, NEW k \in Kinds, NEW n \in Names, NEW o, Sane(o), o.there,
           Write(k, n, o)
    PROVE  /\ store' \in [Kinds -> [Names -> Objects]]
           /\ cache' \in [Kinds -> [Names -> Objects]]
           /\ stale' \subseteq Kinds \X Names
           /\ Views'
           /\ \A l \in Kinds, p \in Names :
                store'[l][p] = IF l = k /\ p = n THEN o ELSE store[l][p]
  <1>1. o \in Objects
    BY DEF Sane
  <1>2. /\ store' \in [Kinds -> [Names -> Objects]]
        /\ \A l \in Kinds, p \in Names :
                store'[l][p] = IF l = k /\ p = n THEN o ELSE store[l][p]
    BY <1>1 DEF Write, SyncTypeOK
  <1>3. CASE "lag" \in Env
    <2>1. cache' = cache /\ stale' = stale \union {<<k, n>>}
      BY <1>3 DEF Write
    <2>2. Views'
      BY <1>2, <2>1 DEF Views
    <2>. QED  BY <1>2, <2>1, <2>2 DEF SyncTypeOK
  <1>4. CASE "lag" \notin Env
    <2>1. cache' = [cache EXCEPT ![k][n] = o] /\ stale' = stale
      BY <1>4 DEF Write
    <2>2. /\ cache' \in [Kinds -> [Names -> Objects]]
          /\ \A l \in Kinds, p \in Names :
                cache'[l][p] = IF l = k /\ p = n THEN o ELSE cache[l][p]
      BY <1>1, <2>1 DEF SyncTypeOK
    <2>3. ASSUME NEW l \in Kinds, NEW p \in Names
          PROVE  /\ Sane(store'[l][p]) /\ Sane(cache'[l][p])
                 /\ cache'[l][p].there => store'[l][p].there
                 /\ <<l, p>> \notin stale' => cache'[l][p] = store'[l][p]
      <3>1. CASE l = k /\ p = n
        BY <1>2, <2>2, <3>1
      <3>2. CASE ~(l = k /\ p = n)
        <4>1. store'[l][p] = store[l][p] /\ cache'[l][p] = cache[l][p]
          BY <1>2, <2>2, <3>2
        <4>. QED  BY <2>1, <4>1 DEF Views
      <3>. QED  BY <3>1, <3>2
    <2>4. Views'
      BY <2>3 DEF Views
    <2>. QED  BY <1>2, <2>1, <2>2, <2>4 DEF SyncTypeOK
  <1>. QED  BY <1>3, <1>4

(* What Sync writes: a whole new object, or its own fields over a live one. *)
LEMMA DesiredSane ==
    ASSUME NEW j \in Jobs
    PROVE  /\ Sane(Created(Desired(j))) /\ Created(Desired(j)).there
           /\ ~Created(Desired(j)).user
           /\ \A o \in Objects : o.there =>
                 /\ Sane(Applied(o, Desired(j)))
                 /\ Applied(o, Desired(j)).there
                 /\ Applied(o, Desired(j)).user = o.user
  <1>1. /\ Desired(j) \in Objects /\ Desired(j).there
        /\ ~Desired(j).user /\ Desired(j).owners = {}
    BY DEF Desired, StampOwnership, DesiredValue, Jobs, Objects, Absent
  <1>2. Sane(Created(Desired(j))) /\ Created(Desired(j)).there /\ ~Created(Desired(j)).user
    BY <1>1 DEF Created, Sane, Objects
  <1>3. ASSUME NEW o \in Objects, o.there
        PROVE  /\ Sane(Applied(o, Desired(j)))
               /\ Applied(o, Desired(j)).there
               /\ Applied(o, Desired(j)).user = o.user
    BY <1>1, <1>3 DEF Applied, Sane, Objects
  <1>. QED  BY <1>2, <1>3

(* The steps of the control flow are jobs. *)
LEMMA JobTypes ==
    ASSUME NEW j \in Jobs, j.name \in Names
    PROVE  /\ NoJob \in Jobs /\ Finished \in Jobs /\ Failed \in Jobs
           /\ NextKind(j) \in Jobs
           /\ NextKind(j).step = "get" => NextKind(j).name = j.name
           /\ NextKind(j).step \in {"get", "ok"}
           /\ NextKind(j).step = "get" =>
                 \/ j.kind = "secret" /\ NextKind(j).kind = "machine"
                 \/ j.kind = "machine" /\ NextKind(j).kind = "hardware"
           /\ Finished.step = "ok" /\ Failed.step = "error"
  BY DEF NoJob, Finished, Failed, Jobs, Kinds, NextKind

(* A write of Sync, a success, or its failure: the next kind is reached     *)
(* only with the present object in place.                                   *)
LEMMA SyncWriteSafe ==
    ASSUME SyncInv, Syncing,
           NEW o, Sane(o), o.there, Write(job.kind, job.name, o),
           job' \in {NextKind(job), Failed}, held' = FALSE,
           UNCHANGED netboot, UNCHANGED writes, faults' \in 0 .. MaxFaults
    PROVE  SyncInv'
  <1>0. job \in Jobs /\ job.name \in Names /\ job.kind \in Kinds
    BY DEF SyncInv, SyncTypeOK, Jobs
  <1>1. /\ store' \in [Kinds -> [Names -> Objects]]
        /\ cache' \in [Kinds -> [Names -> Objects]]
        /\ stale' \subseteq Kinds \X Names
        /\ Views'
        /\ \A l \in Kinds, p \in Names :
                store'[l][p] = IF l = job.kind /\ p = job.name THEN o ELSE store[l][p]
    BY <1>0, WriteEffect DEF SyncInv
  <1>2. \A l \in Kinds, p \in Names : store[l][p].there => store'[l][p].there
    BY <1>1
  <1>3. /\ job' \in Jobs
        /\ job'.step \in {"get", "ok", "error"}
        /\ job'.step = "get" => job'.name = job.name
        /\ job'.step = "get" => \/ job.kind = "secret" /\ job'.kind = "machine"
                                \/ job.kind = "machine" /\ job'.kind = "hardware"
    BY <1>0, JobTypes
  <1>4. SyncTypeOK'
    BY <1>0, <1>1, <1>3 DEF SyncInv, SyncTypeOK, Syncing
  <1>5. HeldOurs'
    BY DEF HeldOurs
  <1>6. JobRefers'
    BY <1>0, <1>1, <1>3 DEF JobRefers, Syncing
  <1>7. ReferencesResolve'
    <2>. SUFFICES ASSUME NEW n \in Names
                  PROVE  /\ store'["hardware"][n].managed => store'["machine"][n].there
                         /\ store'["machine"][n].managed => store'["secret"][n].there
      BY DEF ReferencesResolve
    <2>1. CASE n # job.name
      BY <1>0, <1>1, <2>1 DEF SyncInv, ReferencesResolve, Kinds
    <2>2. CASE n = job.name
      BY <1>0, <1>1, <1>2, <2>2 DEF SyncInv, ReferencesResolve, JobRefers, Kinds
    <2>. QED  BY <2>1, <2>2
  <1>. QED  BY <1>1, <1>4, <1>5, <1>6, <1>7 DEF SyncInv

(* A step of Sync that writes nothing. *)
LEMMA SyncReadSafe ==
    ASSUME SyncInv, UNCHANGED <<store, cache, stale, netboot, writes>>,
           faults' \in 0 .. MaxFaults, job' \in Jobs, held' \in BOOLEAN,
           Syncing' => job'.name \in Names, HeldOurs', JobRefers'
    PROVE  SyncInv'
  <1>1. SyncTypeOK'
    BY DEF SyncInv, SyncTypeOK
  <1>2. Views' /\ ReferencesResolve'
    BY DEF SyncInv, Views, ReferencesResolve
  <1>. QED  BY <1>1, <1>2 DEF SyncInv

(* Sync preserves the invariant, call by call. *)
LEMMA SyncStepSafe ==
    ASSUME SyncInv, SyncStep \/ SyncFails
    PROVE  SyncInv'
  <1>0. /\ Syncing /\ job \in Jobs /\ job.name \in Names /\ job.kind \in Kinds
        /\ faults \in 0 .. MaxFaults
    BY DEF SyncInv, SyncTypeOK, Jobs, SyncStep, Get, Create, Apply, SyncFails, Syncing
  <1>. DEFINE live == cache[job.kind][job.name]
              now == store[job.kind][job.name]
  <1>1. /\ now \in Objects /\ Sane(now) /\ Sane(live)
        /\ live.there => now.there
        /\ <<job.kind, job.name>> \notin stale => live = now
    BY <1>0 DEF SyncInv, SyncTypeOK, Views
  <1>2. ASSUME held PROVE now.there /\ Sane(Applied(now, Desired(job)))
                          /\ Applied(now, Desired(job)).there
    BY <1>0, <1>1, <1>2, DesiredSane DEF SyncInv, HeldOurs, Sane
  <1>3. CASE Get
    <2>1. UNCHANGED <<store, cache, stale, netboot, writes, faults>> /\ held' \in BOOLEAN
      BY <1>3 DEF Get, objVars
    <2>2. CASE ~live.there
      <3>1. job' = [job EXCEPT !.step = "create"]
        BY <1>3, <2>2 DEF Get
      <3>2. held' = FALSE
        BY <1>1, <1>3, <2>2 DEF Get, Sane, Objects
      <3>3. job' \in Jobs /\ job'.name = job.name /\ job'.kind = job.kind
        BY <1>0, <3>1 DEF Jobs
      <3>4. HeldOurs' /\ JobRefers'
        BY <1>0, <2>1, <3>2, <3>3 DEF HeldOurs, JobRefers, SyncInv
      <3>. QED  BY <1>0, <2>1, <3>3, <3>4, SyncReadSafe
    <2>3. CASE live.there /\ ~live.managed
      <3>1. job' = NextKind(job)
        BY <1>3, <2>3 DEF Get
      <3>2. held' = FALSE
        BY <1>3, <2>3 DEF Get
      <3>3. HeldOurs' /\ JobRefers'
        BY <1>0, <1>1, <2>1, <2>3, <3>1, <3>2, JobTypes DEF HeldOurs, JobRefers, Syncing
      <3>4. job' \in Jobs /\ (Syncing' => job'.name \in Names)
        BY <1>0, <3>1, JobTypes DEF Syncing
      <3>. QED  BY <1>0, <2>1, <3>3, <3>4, SyncReadSafe
    <2>4. CASE live.there /\ live.managed
      <3>1. job' = [job EXCEPT !.step = "apply",
                               !.pxe = job.kind = "hardware" => NetbootFor(live)]
        BY <1>3, <2>4 DEF Get
      <3>2. NetbootFor(live) \in BOOLEAN
        BY <1>1 DEF NetbootFor, Sane, Objects
      <3>3. job' \in Jobs /\ job'.name = job.name /\ job'.kind = job.kind /\ job'.step = "apply"
        BY <1>0, <3>1, <3>2 DEF Jobs
      <3>4. held' => <<job.kind, job.name>> \notin stale
        BY <1>3 DEF Get
      <3>5. HeldOurs' /\ JobRefers'
        BY <1>0, <1>1, <2>1, <2>4, <3>3, <3>4 DEF HeldOurs, JobRefers, SyncInv
      <3>. QED  BY <1>0, <2>1, <3>3, <3>5, SyncReadSafe
    <2>. QED  BY <2>2, <2>3, <2>4
  <1>4. ASSUME job' = Failed, held' = FALSE, UNCHANGED <<store, cache, stale, netboot, writes>>,
               faults' \in 0 .. MaxFaults
        PROVE  SyncInv'
    <2>1. job' \in Jobs /\ ~Syncing'
      BY <1>0, <1>4, JobTypes DEF Syncing
    <2>. QED  BY <1>4, <2>1, SyncReadSafe DEF HeldOurs, JobRefers
  <1>5. CASE Create
    <2>1. CASE ~now.there
      BY <1>0, <1>5, <2>1, DesiredSane, SyncWriteSafe DEF Create
    <2>2. CASE now.there
      BY <1>0, <1>4, <1>5, <2>2 DEF Create
    <2>. QED  BY <2>1, <2>2
  <1>6. CASE Apply
    <2>1. CASE held
      BY <1>0, <1>2, <1>6, <2>1, SyncWriteSafe DEF Apply
    <2>2. CASE ~held
      BY <1>0, <1>4, <1>6, <2>2 DEF Apply
    <2>. QED  BY <2>1, <2>2
  <1>7. CASE SyncFails
    <2>1. faults' \in 0 .. MaxFaults
      BY <1>0, <1>7, BoundsAssumption DEF SyncFails
    <2>2. job' = Failed /\ held' = FALSE /\ UNCHANGED <<netboot, writes>>
      BY <1>7 DEF SyncFails
    <2>3. CASE UNCHANGED <<store, cache, stale>>
      BY <1>4, <2>1, <2>2, <2>3
    <2>4. CASE Write(job.kind, job.name, Created(Desired(job)))
      BY <1>0, <2>1, <2>2, <2>4, DesiredSane, SyncWriteSafe
    <2>5. CASE held /\ Write(job.kind, job.name, Applied(now, Desired(job)))
      BY <1>0, <1>2, <2>1, <2>2, <2>5, SyncWriteSafe
    <2>. QED  BY <1>7, <2>3, <2>4, <2>5 DEF SyncFails
  <1>. QED  BY <1>3, <1>5, <1>6, <1>7 DEF SyncStep

(* Another writer changes a field of its own, or makes an object that is    *)
(* not discovery's: it takes no object away and labels none.                *)
LEMMA OtherWriteSafe ==
    ASSUME SyncInv, NEW k \in Kinds, NEW n \in Names, NEW o, Sane(o), o.there,
           o.managed => store[k][n].managed, OtherWrite(k, n, o),
           netboot' \in [Names -> SUBSET BOOLEAN]
    PROVE  SyncInv'
  <1>1. /\ Write(k, n, o) /\ UNCHANGED <<job, faults>>
        /\ held' = (held /\ ~(job.kind = k /\ job.name = n))
    BY DEF OtherWrite
  <1>2. /\ store' \in [Kinds -> [Names -> Objects]]
        /\ cache' \in [Kinds -> [Names -> Objects]]
        /\ stale' \subseteq Kinds \X Names
        /\ Views'
        /\ \A l \in Kinds, p \in Names :
                store'[l][p] = IF l = k /\ p = n THEN o ELSE store[l][p]
    BY <1>1, WriteEffect DEF SyncInv
  <1>3. writes' \in 0 .. MaxWrites
    BY BoundsAssumption DEF OtherWrite, SyncInv, SyncTypeOK
  <1>4. SyncTypeOK'
    BY <1>1, <1>2, <1>3 DEF SyncInv, SyncTypeOK, Syncing
  <1>5. HeldOurs'
    <2>. SUFFICES ASSUME held' PROVE job.step = "apply" /\ store'[job.kind][job.name].managed
      BY <1>1 DEF HeldOurs
    <2>1. held /\ ~(job.kind = k /\ job.name = n)
      BY <1>1
    <2>2. job.step = "apply" /\ store[job.kind][job.name].managed
      BY <2>1 DEF SyncInv, HeldOurs
    <2>3. job.kind \in Kinds /\ job.name \in Names
      BY <2>2 DEF SyncInv, SyncTypeOK, Jobs, Syncing
    <2>. QED  BY <1>2, <2>1, <2>2, <2>3
  <1>6. \A l \in Kinds, p \in Names :
            /\ store[l][p].there => store'[l][p].there
            /\ store'[l][p].managed => store[l][p].managed
    BY <1>2
  <1>7. JobRefers'
    <2>1. Syncing => job.name \in Names
      BY DEF SyncInv, SyncTypeOK
    <2>. QED  BY <1>1, <1>6, <2>1 DEF SyncInv, JobRefers, Syncing, Kinds
  <1>8. ReferencesResolve'
    BY <1>6 DEF SyncInv, ReferencesResolve, Kinds
  <1>. QED  BY <1>2, <1>4, <1>5, <1>7, <1>8 DEF SyncInv

(* What the other writers store is sane, keeps the userData and labels      *)
(* nothing; the informer only shows what is stored.                         *)
LEMMA OthersSafe ==
    ASSUME SyncInv, Others
    PROVE  /\ SyncInv'
           /\ job' = job
           /\ \A n \in Names : store["hardware"][n].user => store'["hardware"][n].user
  <1>. DEFINE Kept == /\ SyncInv' /\ job' = job
                      /\ \A n \in Names : store["hardware"][n].user => store'["hardware"][n].user
  <1>0. \A k \in Kinds, n \in Names : store[k][n] \in Objects /\ Sane(store[k][n])
    BY DEF SyncInv, SyncTypeOK, Views
  <1>1. ASSUME NEW k \in Kinds, NEW n \in Names, NEW o, Sane(o), o.there,
               o.managed => store[k][n].managed, store[k][n].user => o.user,
               OtherWrite(k, n, o), netboot' \in [Names -> SUBSET BOOLEAN]
        PROVE  Kept
    <2>1. SyncInv'
      BY <1>1, OtherWriteSafe
    <2>2. \A l \in Kinds, p \in Names :
                store'[l][p] = IF l = k /\ p = n THEN o ELSE store[l][p]
      BY <1>1, WriteEffect DEF OtherWrite, SyncInv
    <2>. QED  BY <1>1, <2>1, <2>2 DEF OtherWrite, Kinds
  <1>2. ASSUME NEW k \in Kinds, Refresh(k) PROVE Kept
    <2>1. /\ cache' = [cache EXCEPT ![k] = store[k]] /\ stale' = stale \ ({k} \X Names)
          /\ UNCHANGED <<store, netboot, job, held, writes, faults>>
      BY <1>2 DEF Refresh
    <2>2. cache' \in [Kinds -> [Names -> Objects]] /\ stale' \subseteq Kinds \X Names
      BY <2>1 DEF SyncInv, SyncTypeOK
    <2>3. SyncTypeOK'
      BY <2>1, <2>2 DEF SyncInv, SyncTypeOK, Syncing
    <2>4. ASSUME NEW l \in Kinds, NEW p \in Names
          PROVE  /\ Sane(cache'[l][p])
                 /\ cache'[l][p].there => store[l][p].there
                 /\ <<l, p>> \notin stale' => cache'[l][p] = store[l][p]
      <3>1. CASE l = k
        BY <1>0, <2>1, <3>1 DEF SyncInv, SyncTypeOK
      <3>2. CASE l # k
        <4>1. cache'[l] = cache[l] /\ (<<l, p>> \notin stale' => <<l, p>> \notin stale)
          BY <2>1, <3>2 DEF SyncInv, SyncTypeOK
        <4>. QED  BY <4>1 DEF SyncInv, Views
      <3>. QED  BY <3>1, <3>2
    <2>5. Views'
      BY <1>0, <2>1, <2>4 DEF Views
    <2>. QED
      BY <2>1, <2>3, <2>5 DEF SyncInv, HeldOurs, JobRefers, Syncing, ReferencesResolve
  <1>3. ASSUME NEW k \in Kinds, NEW n \in Names, ForeignCreate(k, n) PROVE Kept
    <2>1. /\ Sane([Absent EXCEPT !.there = TRUE])
          /\ [Absent EXCEPT !.there = TRUE].there /\ ~[Absent EXCEPT !.there = TRUE].managed
      BY DEF Sane, Absent, Objects
    <2>2. ~store[k][n].user
      BY <1>0, <1>3 DEF ForeignCreate, Sane
    <2>3. netboot' \in [Names -> SUBSET BOOLEAN]
      BY <1>3 DEF ForeignCreate, SyncInv, SyncTypeOK
    <2>. QED  BY <1>1, <1>3, <2>1, <2>2, <2>3 DEF ForeignCreate
  <1>4. ASSUME NEW k \in Kinds, NEW n \in Names, StripLabel(k, n) PROVE Kept
    <2>. DEFINE o == [store[k][n] EXCEPT !.managed = FALSE]
    <2>1. Sane(o) /\ o.there /\ ~o.managed /\ o.user = store[k][n].user
      BY <1>0, <1>4 DEF StripLabel, Sane, Objects
    <2>2. netboot' \in [Names -> SUBSET BOOLEAN] /\ OtherWrite(k, n, o)
      BY <1>4 DEF StripLabel, SyncInv, SyncTypeOK
    <2>. HIDE DEF o
    <2>. QED  BY <1>1, <2>1, <2>2
  <1>5. ASSUME NEW n \in Names, TinkToggles(n) PROVE Kept
    <2>. DEFINE live == store["hardware"][n]
                o == [live EXCEPT !.pxe = ~@, !.owners = {"tink"}]
    <2>1. OtherWrite("hardware", n, o) /\ "hardware" \in Kinds
      BY <1>5 DEF TinkToggles, Kinds
    <2>2. live \in Objects /\ Sane(live) /\ live.there
      BY <1>0, <1>5, <2>1 DEF TinkToggles, Sane
    <2>3. Sane(o) /\ o.there /\ o.managed = live.managed /\ o.user = live.user
      BY <2>2 DEF Sane, Objects
    <2>4. netboot' \in [Names -> SUBSET BOOLEAN]
      <3>1. store' \in [Kinds -> [Names -> Objects]]
        BY <2>1, <2>3, WriteEffect DEF OtherWrite, SyncInv
      <3>2. {store'["hardware"][n].pxe} \subseteq BOOLEAN
        BY <3>1 DEF Kinds, Objects
      <3>3. netboot' = [netboot EXCEPT ![n] = {store'["hardware"][n].pxe}]
        BY <1>5 DEF TinkToggles
      <3>. QED  BY <3>2, <3>3 DEF SyncInv, SyncTypeOK
    <2>. HIDE DEF o
    <2>. QED  BY <1>1, <2>1, <2>3, <2>4
  <1>6. ASSUME NEW n \in Names, CaptClaims(n) PROVE Kept
    <2>. DEFINE live == store["hardware"][n]
                o == [live EXCEPT !.user = TRUE]
    <2>1. OtherWrite("hardware", n, o) /\ "hardware" \in Kinds /\ live.there
      BY <1>6 DEF CaptClaims, Kinds
    <2>2. live \in Objects /\ Sane(live)
      BY <1>0, <2>1
    <2>3. Sane(o) /\ o.there /\ o.managed = live.managed /\ o.user
      BY <2>1, <2>2 DEF Sane, Objects
    <2>4. netboot' \in [Names -> SUBSET BOOLEAN]
      BY <1>6 DEF CaptClaims, SyncInv, SyncTypeOK
    <2>. HIDE DEF o
    <2>. QED  BY <1>1, <2>1, <2>3, <2>4
  <1>. QED  BY <1>2, <1>3, <1>4, <1>5, <1>6 DEF Others

(* The invariant is inductive. *)
LEMMA SyncNextSafe ==
    ASSUME SyncInv, [SyncNext]_syncVars
    PROVE  SyncInv'
  <1>1. ASSUME NEW n \in Names, NEW c \in Creds, NEW h \in Hosts, NEW m \in Macs,
               StartSync(n, c, h, m)
        PROVE  SyncInv'
    <2>1. /\ job' = [NoJob EXCEPT !.step = "get", !.name = n, !.cred = c, !.host = h, !.mac = m]
          /\ UNCHANGED <<store, cache, stale, netboot, held, writes, faults>> /\ ~Syncing
      BY <1>1 DEF StartSync, NewJob, objVars
    <2>2. job' \in Jobs /\ job'.name = n /\ job'.kind = "secret"
      BY <2>1, ValuesAssumption DEF NoJob, Jobs, Kinds
    <2>3. ~held
      BY <2>1 DEF SyncInv, HeldOurs, Syncing
    <2>4. HeldOurs' /\ JobRefers'
      BY <2>1, <2>2, <2>3 DEF HeldOurs, JobRefers
    <2>. QED  BY <2>1, <2>2, <2>3, <2>4, SyncReadSafe DEF SyncInv, SyncTypeOK
  <1>2. CASE UNCHANGED syncVars
    BY <1>2 DEF syncVars, objVars, SyncInv, SyncTypeOK, Syncing, Views, HeldOurs, JobRefers,
                ReferencesResolve
  <1>. QED  BY <1>1, <1>2, SyncStepSafe, OthersSafe DEF SyncNext

(* What a call of Sync does to the store: it makes an object where there is *)
(* none, or applies its fields to one of its own.                           *)
LEMMA SyncWrites ==
    ASSUME SyncInv, SyncStep \/ SyncFails, NEW k \in Kinds, NEW n \in Names
    PROVE  /\ store[k][n].there /\ ~store[k][n].managed => store'[k][n] = store[k][n]
           /\ store[k][n].user => store'[k][n].user
  <1>0. /\ job \in Jobs /\ job.name \in Names /\ job.kind \in Kinds
    BY DEF SyncInv, SyncTypeOK, Jobs, SyncStep, Get, Create, Apply, SyncFails, Syncing
  <1>. DEFINE now == store[job.kind][job.name]
              Goal == /\ store[k][n].there /\ ~store[k][n].managed => store'[k][n] = store[k][n]
                      /\ store[k][n].user => store'[k][n].user
  <1>1. now \in Objects /\ Sane(now)
    BY <1>0 DEF SyncInv, SyncTypeOK, Views
  <1>2. CASE store' = store
    BY <1>2
  <1>3. CASE ~now.there /\ Write(job.kind, job.name, Created(Desired(job)))
    <2>1. \A l \in Kinds, p \in Names : l # job.kind \/ p # job.name => store'[l][p] = store[l][p]
      BY <1>0, <1>3, DesiredSane, WriteEffect DEF SyncInv
    <2>. QED  BY <1>1, <1>3, <2>1 DEF Sane
  <1>4. CASE held /\ Write(job.kind, job.name, Applied(now, Desired(job)))
    <2>1. now.managed /\ now.there
      BY <1>1, <1>4 DEF SyncInv, HeldOurs, Sane
    <2>2. \A l \in Kinds, p \in Names :
            store'[l][p] = IF l = job.kind /\ p = job.name THEN Applied(now, Desired(job))
                           ELSE store[l][p]
      BY <1>0, <1>1, <1>4, <2>1, DesiredSane, WriteEffect DEF SyncInv
    <2>3. Applied(now, Desired(job)).user = now.user
      BY <1>0, <1>1, <2>1, DesiredSane
    <2>. QED  BY <2>1, <2>2, <2>3
  <1>5. \/ store' = store
        \/ ~now.there /\ Write(job.kind, job.name, Created(Desired(job)))
        \/ held /\ Write(job.kind, job.name, Applied(now, Desired(job)))
    BY DEF SyncStep, Get, Create, Apply, SyncFails, objVars
  <1>. QED  BY <1>2, <1>3, <1>4, <1>5

(* Before the first Sync nothing is stored. *)
LEMMA SyncInitSafe ==
    ASSUME SyncInit
    PROVE  SyncInv
  <1>1. Sane(Absent) /\ Absent \in Objects /\ ~Absent.managed
    BY DEF Sane, Absent, Objects
  <1>2. \A k \in Kinds, n \in Names : store[k][n] = Absent /\ cache[k][n] = Absent
    BY DEF SyncInit
  <1>3. NoJob \in Jobs /\ NoJob.step = "idle"
    BY DEF NoJob, Jobs, Kinds
  <1>4. SyncTypeOK
    <2>1. store \in [Kinds -> [Names -> Objects]] /\ cache = store
      BY <1>1 DEF SyncInit
    <2>2. netboot \in [Names -> SUBSET BOOLEAN]
      BY DEF SyncInit
    <2>3. writes \in 0 .. MaxWrites /\ faults \in 0 .. MaxFaults
      BY BoundsAssumption DEF SyncInit
    <2>. QED  BY <1>3, <2>1, <2>2, <2>3 DEF SyncInit, SyncTypeOK, Syncing
  <1>5. Views /\ ReferencesResolve
    BY <1>1, <1>2 DEF Views, ReferencesResolve, Kinds
  <1>. QED  BY <1>3, <1>4, <1>5 DEF SyncInit, SyncInv, HeldOurs, JobRefers, Syncing

(* The inductive invariant holds in every behaviour. *)
THEOREM SyncInvariance == SyncSpec => []SyncInv
  <1>1. SyncInit => SyncInv
    BY SyncInitSafe
  <1>2. SyncInv /\ [SyncNext]_syncVars => SyncInv'
    BY SyncNextSafe
  <1>. QED  BY <1>1, <1>2, PTL DEF SyncSpec

(* Every variable of Sync keeps its type: a running call always has a name, *)
(* and the writes and faults stay in their bounds.                          *)
THEOREM SyncTypes == SyncSpec => []SyncTypeOK
  <1>1. SyncInv => SyncTypeOK
    BY DEF SyncInv
  <1>. QED  BY <1>1, SyncInvariance, PTL

(* Sync leaves no dangling reference: Hardware it wrote has its Machine,    *)
(* and a Machine it wrote its Secret, also when a call fails half-way.      *)
THEOREM ReferenceSafety == SyncSpec => []ReferencesResolve
  <1>1. SyncInv => ReferencesResolve
    BY DEF SyncInv
  <1>. QED  BY <1>1, SyncInvariance, PTL

(* applyManaged never changes an object without the managed-by label,       *)
(* however old the revision that its get was shown, and whoever made or     *)
(* relabelled the object since.                                             *)
THEOREM AdoptionSafety == SyncSpec => NeverAdopts
  <1>1. ASSUME SyncInv, [SyncNext]_syncVars
        PROVE  [job' # job => \A k \in Kinds, n \in Names :
                  store[k][n].there /\ ~store[k][n].managed
                    => store'[k][n] = store[k][n]]_syncVars
    <2>1. CASE SyncStep \/ SyncFails
      BY <1>1, <2>1, SyncWrites
    <2>2. CASE Others
      BY <1>1, <2>2, OthersSafe
    <2>3. ASSUME NEW n \in Names, NEW c \in Creds, NEW h \in Hosts, NEW m \in Macs,
                 StartSync(n, c, h, m)
          PROVE  store' = store
      BY <2>3 DEF StartSync, NewJob, objVars
    <2>. QED  BY <1>1, <2>1, <2>2, <2>3 DEF SyncNext
  <1>. QED  BY <1>1, SyncInvariance, PTL DEF SyncSpec, NeverAdopts

(* The sparse applies of Sync, and its creates, never take CAPT's userData  *)
(* away from a Hardware.                                                    *)
THEOREM UserDataSafety == SyncSpec => ForeignFieldsKept
  <1>1. ASSUME SyncInv, [SyncNext]_syncVars
        PROVE  [\A n \in Names : store["hardware"][n].user
                                    => store'["hardware"][n].user]_syncVars
    <2>1. CASE SyncStep \/ SyncFails
      BY <1>1, <2>1, SyncWrites DEF Kinds
    <2>2. CASE Others
      BY <1>1, <2>2, OthersSafe
    <2>3. ASSUME NEW n \in Names, NEW c \in Creds, NEW h \in Hosts, NEW m \in Macs,
                 StartSync(n, c, h, m)
          PROVE  store' = store
      BY <2>3 DEF StartSync, NewJob, objVars
    <2>. QED  BY <1>1, <2>1, <2>2, <2>3 DEF SyncNext
  <1>. QED  BY <1>1, SyncInvariance, PTL DEF SyncSpec, ForeignFieldsKept

-----------------------------------------------------------------------------
(* The netboot value of the workflow controller. *)

(* No Sync changes the MAC of a list and none takes it away, or only the    *)
(* first: inventories always have a MAC, or all that do have the same one.  *)
(* Without this, an apply with a new MAC makes Sync the list's only owner,  *)
(* the next inventory without a MAC drops the list, and the one after that  *)
(* brings it back with the default.                                         *)
KeepsList == 0 \notin Macs \/ \A a, b \in Macs \ {0} : a = b

(* A list that tink has written stays, with tink's value; where a Sync may  *)
(* leave the list out, because tink is still among its owners.              *)
TinksList(n) ==
    LET h == store["hardware"][n]
    IN  /\ h.list # 0 => h.list \in Macs
        /\ netboot[n] \subseteq {h.pxe}
        /\ netboot[n] # {} => h.list # 0 /\ (0 \in Macs => "tink" \in h.owners)

(* The apply that will not conflict carries the netboot value that is live. *)
CarriesNetboot ==
    held /\ job.kind = "hardware" /\ store["hardware"][job.name].list # 0
        => job.pxe = store["hardware"][job.name].pxe

JobMac == Syncing => job.mac \in Macs

NetInv ==
    /\ SyncInv
    /\ \A n \in Names : TinksList(n)
    /\ CarriesNetboot
    /\ JobMac

(* An apply that carries the netboot of a Hardware leaves its list in place *)
(* and tink among its owners.                                               *)
LEMMA AppliedList ==
    ASSUME KeepsList, NEW o \in Objects, NEW j \in Jobs, j.kind = "hardware", j.mac \in Macs,
           o.list \in Macs \ {0}, j.pxe = o.pxe, "tink" \in o.owners \/ 0 \notin Macs
    PROVE  /\ Applied(o, Desired(j)).list # 0
           /\ Applied(o, Desired(j)).pxe = o.pxe
           /\ 0 \in Macs => "tink" \in Applied(o, Desired(j)).owners
  <1>. DEFINE d == Desired(j)
  <1>1. d \in Objects /\ d.list = j.mac /\ d.pxe = (j.mac # 0 /\ j.pxe)
    BY DEF Desired, StampOwnership, DesiredValue, Jobs, Objects, Absent
  <1>2. j.pxe \in BOOLEAN /\ o.pxe \in BOOLEAN /\ j.pxe = o.pxe
    BY DEF Jobs, Objects
  <1>. HIDE DEF d
  <1>3. CASE j.mac = 0
    <2>1. "tink" \in o.owners
      BY <1>3
    <2>2. ~(o.owners \subseteq {"apply"})
      BY <2>1
    <2>3. /\ Applied(o, d).list = o.list /\ Applied(o, d).pxe = o.pxe
          /\ Applied(o, d).owners = o.owners \ {"apply"}
      BY <1>1, <1>3, <2>2 DEF Applied, Objects
    <2>. QED  BY <2>1, <2>3 DEF d
  <1>4. CASE j.mac # 0
    <2>1. d.list # 0 /\ d.pxe = o.pxe
      BY <1>1, <1>2, <1>4
    <2>2. Applied(o, d).list = d.list /\ Applied(o, d).pxe = d.pxe
      BY <2>1 DEF Applied, Objects
    <2>3. ASSUME 0 \in Macs PROVE "tink" \in Applied(o, d).owners
      <3>1. o.list = d.list /\ "tink" \in o.owners
        BY <1>1, <1>4, <2>3 DEF KeepsList
      <3>2. Applied(o, d).owners = o.owners \union {"apply"}
        BY <2>1, <3>1 DEF Applied, Objects
      <3>. QED  BY <3>1, <3>2
    <2>. QED  BY <2>1, <2>2, <2>3 DEF d
  <1>. QED  BY <1>3, <1>4

(* The list of a Hardware that Sync writes has the MAC of the job, or the   *)
(* one it had.                                                              *)
LEMMA WrittenMac ==
    ASSUME NEW o \in Objects, NEW j \in Jobs, j.mac \in Macs,
           o.list # 0 => o.list \in Macs
    PROVE  /\ Created(Desired(j)).list # 0 => Created(Desired(j)).list \in Macs
           /\ Applied(o, Desired(j)).list # 0 => Applied(o, Desired(j)).list \in Macs
  <1>1. Desired(j) \in Objects /\ Desired(j).list \in {j.mac, 0}
    BY DEF Desired, StampOwnership, DesiredValue, Jobs, Objects, Absent
  <1>2. Created(Desired(j)).list = Desired(j).list
    BY <1>1 DEF Created, Objects
  <1>3. Applied(o, Desired(j)).list \in {Desired(j).list, o.list, 0}
    BY <1>1 DEF Applied, Objects
  <1>. QED  BY <1>1, <1>2, <1>3

(* A write of Sync keeps what tink set. *)
LEMMA NetbootWriteSafe ==
    ASSUME KeepsList, NetInv, Syncing, NEW o, Sane(o), o.there,
           Write(job.kind, job.name, o), UNCHANGED netboot, held' = FALSE,
           \/ o = Created(Desired(job)) /\ ~store[job.kind][job.name].there
           \/ o = Applied(store[job.kind][job.name], Desired(job)) /\ held,
           job' \in {NextKind(job), Failed}, SyncInv'
    PROVE  NetInv'
  <1>0. /\ job \in Jobs /\ job.name \in Names /\ job.kind \in Kinds /\ job.mac \in Macs
        /\ SyncInv
    BY DEF NetInv, JobMac, SyncInv, SyncTypeOK, Jobs
  <1>1. \A l \in Kinds, p \in Names :
            store'[l][p] = IF l = job.kind /\ p = job.name THEN o ELSE store[l][p]
    BY <1>0, WriteEffect DEF SyncInv
  <1>2. JobMac'
    <2>1. CASE job' = Failed
      BY <2>1 DEF JobMac, Syncing, Failed, NoJob
    <2>2. CASE job' = NextKind(job)
      <3>1. NextKind(job).step = "get" => NextKind(job).mac = job.mac
        BY <1>0 DEF NextKind, Finished, NoJob, Jobs
      <3>2. NextKind(job).step \in {"get", "ok"}
        BY <1>0, JobTypes
      <3>. QED  BY <1>0, <2>2, <3>1, <3>2 DEF JobMac, Syncing
    <2>. QED  BY <2>1, <2>2
  <1>3. ASSUME NEW n \in Names PROVE TinksList(n)'
    <2>1. CASE ~(job.kind = "hardware" /\ job.name = n)
      <3>1. store'["hardware"][n] = store["hardware"][n]
        BY <1>1, <2>1 DEF Kinds
      <3>. QED  BY <3>1 DEF NetInv, TinksList
    <2>2. CASE job.kind = "hardware" /\ job.name = n
      <3>. DEFINE now == store["hardware"][n]
      <3>1. store'["hardware"][n] = o
        BY <1>1, <2>2 DEF Kinds
      <3>2. now \in Objects /\ Sane(now)
        <4>1. SyncTypeOK /\ Views /\ "hardware" \in Kinds
          BY <1>0 DEF SyncInv, Kinds
        <4>2. now \in Objects
          BY <4>1 DEF SyncTypeOK
        <4>. QED  BY <4>1, <4>2 DEF Views
      <3>3. /\ now.list # 0 => now.list \in Macs
            /\ netboot[n] \subseteq {now.pxe}
            /\ netboot[n] # {} => now.list # 0 /\ (0 \in Macs => "tink" \in now.owners)
        BY DEF NetInv, TinksList
      <3>4. o.list # 0 => o.list \in Macs
        BY <1>0, <2>2, <3>2, <3>3, WrittenMac
      <3>5. CASE netboot[n] = {}
        BY <3>1, <3>4, <3>5 DEF TinksList
      <3>6. CASE netboot[n] # {}
        <4>1. now.there /\ now.list # 0
          BY <3>2, <3>3, <3>6 DEF Sane
        <4>2. o = Applied(now, Desired(job)) /\ held
          BY <2>2, <4>1
        <4>3. job.pxe = now.pxe
          BY <2>2, <4>1, <4>2 DEF NetInv, CarriesNetboot
        <4>4. o.list # 0 /\ o.pxe = now.pxe /\ (0 \in Macs => "tink" \in o.owners)
          BY <1>0, <2>2, <3>2, <3>3, <3>6, <4>1, <4>2, <4>3, AppliedList
        <4>. QED  BY <3>1, <3>3, <3>4, <4>4 DEF TinksList
      <3>. QED  BY <3>5, <3>6
    <2>. QED  BY <2>1, <2>2
  <1>4. CarriesNetboot'
    BY DEF CarriesNetboot
  <1>. QED  BY <1>2, <1>3, <1>4 DEF NetInv

(* Sync keeps it, call by call. *)
LEMMA NetbootSyncSafe ==
    ASSUME KeepsList, NetInv, SyncStep \/ SyncFails
    PROVE  NetInv'
  <1>0. /\ SyncInv /\ SyncInv' /\ Syncing /\ job \in Jobs /\ job.name \in Names
        /\ job.kind \in Kinds /\ job.mac \in Macs
    BY SyncStepSafe DEF NetInv, JobMac, SyncInv, SyncTypeOK, Jobs, SyncStep, Get, Create, Apply,
                        SyncFails, Syncing
  <1>. DEFINE live == cache[job.kind][job.name]
              now == store[job.kind][job.name]
  <1>1. /\ now \in Objects /\ Sane(now)
        /\ <<job.kind, job.name>> \notin stale => live = now
    BY <1>0 DEF SyncInv, SyncTypeOK, Views
  <1>2. ASSUME UNCHANGED <<store, netboot>>, CarriesNetboot', JobMac' PROVE NetInv'
    BY <1>0, <1>2 DEF NetInv, TinksList
  <1>3. CASE Get
    <2>1. /\ UNCHANGED <<store, netboot>>
          /\ held' = (live.managed /\ <<job.kind, job.name>> \notin stale)
      BY <1>3 DEF Get, objVars
    <2>2. JobMac'
      <3>1. NextKind(job).step = "get" => NextKind(job).mac = job.mac
        BY <1>0 DEF NextKind, Finished, NoJob, Jobs
      <3>2. NextKind(job).step \in {"get", "ok"}
        BY <1>0, JobTypes
      <3>3. CASE job' = NextKind(job)
        BY <1>0, <3>1, <3>2, <3>3 DEF JobMac, Syncing
      <3>4. CASE job' # NextKind(job)
        <4>1. job'.mac = job.mac
          BY <1>0, <1>3, <3>4 DEF Get, Jobs
        <4>. QED  BY <1>0, <4>1 DEF JobMac
      <3>. QED  BY <3>3, <3>4
    <2>3. CarriesNetboot'
      <3>. SUFFICES ASSUME held', job'.kind = "hardware", store["hardware"][job'.name].list # 0
                    PROVE  job'.pxe = store["hardware"][job'.name].pxe
        BY <2>1 DEF CarriesNetboot
      <3>1. live = now /\ live.managed /\ live.there
        BY <1>1, <2>1 DEF Sane
      <3>2. job' = [job EXCEPT !.step = "apply",
                               !.pxe = job.kind = "hardware" => NetbootFor(live)]
        BY <1>3, <3>1 DEF Get
      <3>3. /\ job'.kind = job.kind /\ job'.name = job.name
            /\ job'.pxe = (job.kind = "hardware" => NetbootFor(live))
        BY <1>0, <3>2 DEF Jobs
      <3>4. now.pxe \in BOOLEAN /\ now.list # 0
        BY <1>1, <3>3 DEF Objects
      <3>. QED  BY <3>1, <3>3, <3>4 DEF NetbootFor
    <2>. QED  BY <1>2, <2>1, <2>2, <2>3
  <1>4. ASSUME job' = Failed, held' = FALSE, UNCHANGED <<store, netboot>>
        PROVE  NetInv'
    BY <1>2, <1>4 DEF CarriesNetboot, JobMac, Syncing, Failed, NoJob
  <1>5. ASSUME Write(job.kind, job.name, Created(Desired(job))), ~now.there,
               job' \in {NextKind(job), Failed}, held' = FALSE, UNCHANGED netboot
        PROVE  NetInv'
    BY <1>0, <1>5, DesiredSane, NetbootWriteSafe
  <1>6. ASSUME Write(job.kind, job.name, Applied(now, Desired(job))), held,
               job' \in {NextKind(job), Failed}, held' = FALSE, UNCHANGED netboot
        PROVE  NetInv'
    <2>1. now.there
      BY <1>0, <1>1, <1>6 DEF SyncInv, HeldOurs, Sane
    <2>2. Sane(Applied(now, Desired(job))) /\ Applied(now, Desired(job)).there
      BY <1>0, <1>1, <2>1, DesiredSane
    <2>. QED  BY <1>0, <1>6, <2>2, NetbootWriteSafe
  <1>7. CASE Create
    BY <1>4, <1>5, <1>7 DEF Create
  <1>8. CASE Apply
    BY <1>4, <1>6, <1>8 DEF Apply
  <1>9. CASE SyncFails
    BY <1>4, <1>5, <1>6, <1>9 DEF SyncFails
  <1>. QED  BY <1>3, <1>7, <1>8, <1>9 DEF SyncStep

(* The other writers keep it: tink records what it writes, and nobody else  *)
(* touches the list.                                                        *)
LEMMA NetbootOthersSafe ==
    ASSUME NetInv, Others
    PROVE  NetInv'
  <1>0. /\ SyncInv /\ SyncInv' /\ job' = job
        /\ \A k \in Kinds, n \in Names : store[k][n] \in Objects /\ Sane(store[k][n])
    BY OthersSafe DEF NetInv, SyncInv, SyncTypeOK, Views
  <1>1. JobMac'
    BY <1>0 DEF NetInv, JobMac, Syncing
  <1>2. Syncing => job.name \in Names
    BY <1>0 DEF SyncInv, SyncTypeOK
  <1>3. held => Syncing
    BY <1>0 DEF SyncInv, HeldOurs, Syncing
  <1>4. ASSUME NEW k \in Kinds, NEW n \in Names, NEW o, Sane(o), o.there, OtherWrite(k, n, o),
               k = "hardware" => TinksList(n)',
               \A p \in Names : k # "hardware" \/ p # n => netboot'[p] = netboot[p]
        PROVE  NetInv'
    <2>1. \A l \in Kinds, p \in Names :
                store'[l][p] = IF l = k /\ p = n THEN o ELSE store[l][p]
      BY <1>0, <1>4, WriteEffect DEF OtherWrite, SyncInv
    <2>2. ASSUME NEW p \in Names PROVE TinksList(p)'
      <3>1. CASE k = "hardware" /\ p = n
        BY <1>4, <3>1
      <3>2. CASE k # "hardware" \/ p # n
        <4>1. store'["hardware"][p] = store["hardware"][p] /\ netboot'[p] = netboot[p]
          BY <1>4, <2>1, <3>2 DEF Kinds
        <4>. QED  BY <4>1 DEF NetInv, TinksList
      <3>. QED  BY <3>1, <3>2
    <2>3. CarriesNetboot'
      <3>. SUFFICES ASSUME held', job.kind = "hardware", store'["hardware"][job.name].list # 0
                    PROVE  job.pxe = store'["hardware"][job.name].pxe
        BY <1>0 DEF CarriesNetboot
      <3>1. held /\ ~(job.kind = k /\ job.name = n)
        BY <1>4 DEF OtherWrite
      <3>2. store'["hardware"][job.name] = store["hardware"][job.name]
        BY <1>2, <1>3, <2>1, <3>1 DEF Kinds
      <3>. QED  BY <3>1, <3>2 DEF NetInv, CarriesNetboot
    <2>. QED  BY <1>0, <1>1, <2>2, <2>3 DEF NetInv
  <1>5. ASSUME NEW k \in Kinds, Refresh(k) PROVE NetInv'
    <2>1. UNCHANGED <<store, netboot, job, held>>
      BY <1>5 DEF Refresh
    <2>. QED  BY <1>0, <1>1, <2>1 DEF NetInv, TinksList, CarriesNetboot
  <1>6. ASSUME NEW k \in Kinds, NEW n \in Names, ForeignCreate(k, n) PROVE NetInv'
    <2>. DEFINE o == [Absent EXCEPT !.there = TRUE]
    <2>1. Sane(o) /\ o.there /\ o.list = 0
      BY DEF Sane, Absent, Objects
    <2>2. OtherWrite(k, n, o) /\ netboot' = netboot /\ ~store[k][n].there
      BY <1>6 DEF ForeignCreate
    <2>. HIDE DEF o
    <2>3. ASSUME k = "hardware" PROVE TinksList(n)'
      <3>1. store'["hardware"][n] = o
        BY <1>0, <2>1, <2>2, <2>3, WriteEffect DEF OtherWrite, SyncInv
      <3>2. netboot[n] = {}
        BY <1>0, <2>2, <2>3 DEF NetInv, TinksList, Sane
      <3>. QED  BY <2>1, <2>2, <3>1, <3>2 DEF TinksList
    <2>. QED  BY <1>4, <2>1, <2>2, <2>3
  <1>7. ASSUME NEW k \in Kinds, NEW n \in Names, NEW o, Sane(o), o.there, OtherWrite(k, n, o),
               o.list = store[k][n].list, o.pxe = store[k][n].pxe,
               o.owners = store[k][n].owners, netboot' = netboot
        PROVE  NetInv'
    <2>1. ASSUME k = "hardware" PROVE TinksList(n)'
      <3>1. store'["hardware"][n] = o
        BY <1>0, <1>7, <2>1, WriteEffect DEF OtherWrite, SyncInv
      <3>. QED  BY <1>7, <2>1, <3>1 DEF NetInv, TinksList
    <2>. QED  BY <1>4, <1>7, <2>1
  <1>8. ASSUME NEW k \in Kinds, NEW n \in Names, StripLabel(k, n) PROVE NetInv'
    <2>. DEFINE o == [store[k][n] EXCEPT !.managed = FALSE]
    <2>1. /\ Sane(o) /\ o.there /\ o.list = store[k][n].list
          /\ o.pxe = store[k][n].pxe /\ o.owners = store[k][n].owners
      BY <1>0, <1>8 DEF StripLabel, Sane, Objects
    <2>2. OtherWrite(k, n, o) /\ netboot' = netboot
      BY <1>8 DEF StripLabel
    <2>. HIDE DEF o
    <2>. QED  BY <1>7, <2>1, <2>2
  <1>9. ASSUME NEW n \in Names, CaptClaims(n) PROVE NetInv'
    <2>. DEFINE live == store["hardware"][n]
                o == [live EXCEPT !.user = TRUE]
    <2>1. OtherWrite("hardware", n, o) /\ netboot' = netboot /\ "hardware" \in Kinds /\ live.there
      BY <1>9 DEF CaptClaims, Kinds
    <2>2. live \in Objects
      BY <1>0, <2>1
    <2>3. /\ Sane(o) /\ o.there /\ o.list = live.list
          /\ o.pxe = live.pxe /\ o.owners = live.owners
      BY <2>1, <2>2 DEF Sane, Objects
    <2>. HIDE DEF o
    <2>. QED  BY <1>7, <2>1, <2>3
  <1>10. ASSUME NEW n \in Names, TinkToggles(n) PROVE NetInv'
    <2>. DEFINE live == store["hardware"][n]
                o == [live EXCEPT !.pxe = ~@, !.owners = {"tink"}]
    <2>1. /\ OtherWrite("hardware", n, o) /\ "hardware" \in Kinds /\ live.list # 0
          /\ netboot' = [netboot EXCEPT ![n] = {store'["hardware"][n].pxe}]
      BY <1>10 DEF TinkToggles, Kinds
    <2>2. live \in Objects /\ Sane(live) /\ live.there
      BY <1>0, <2>1 DEF Sane
    <2>3. Sane(o) /\ o.there /\ o.list = live.list /\ o.owners = {"tink"}
      BY <2>2 DEF Sane, Objects
    <2>. HIDE DEF o
    <2>4. store'["hardware"][n] = o
      BY <1>0, <2>1, <2>3, WriteEffect DEF OtherWrite, SyncInv
    <2>5. /\ netboot'[n] = {o.pxe}
          /\ \A p \in Names : p # n => netboot'[p] = netboot[p]
      BY <1>0, <2>1, <2>4 DEF SyncInv, SyncTypeOK
    <2>6. TinksList(n)'
      BY <2>1, <2>3, <2>4, <2>5 DEF NetInv, TinksList
    <2>. QED  BY <1>4, <2>1, <2>3, <2>5, <2>6
  <1>. QED  BY <1>5, <1>6, <1>8, <1>9, <1>10 DEF Others

(* No get-then-apply of Sync undoes what the workflow controller set: the   *)
(* Hardware shows tink's last netboot value, however tink's write falls     *)
(* between the get and the apply and however old the cache is, as long as   *)
(* no inventory changes the MAC and another one lacks it (KeepsList).       *)
THEOREM NetbootSafety ==
    ASSUME KeepsList
    PROVE  SyncSpec => []NetbootIsTinks
  <1>1. SyncInit => NetInv
    <2>. SUFFICES ASSUME SyncInit PROVE NetInv
      OBVIOUS
    <2>1. SyncInv
      BY SyncInitSafe
    <2>2. \A n \in Names : store["hardware"][n].list = 0 /\ netboot[n] = {}
      BY DEF SyncInit, Absent, Kinds
    <2>3. ~held /\ ~Syncing
      BY DEF SyncInit, Syncing, NoJob
    <2>. QED  BY <2>1, <2>2, <2>3 DEF NetInv, TinksList, CarriesNetboot, JobMac
  <1>2. NetInv /\ [SyncNext]_syncVars => NetInv'
    <2>. SUFFICES ASSUME NetInv, [SyncNext]_syncVars PROVE NetInv'
      OBVIOUS
    <2>1. SyncInv /\ SyncInv'
      BY SyncNextSafe DEF NetInv
    <2>2. CASE SyncStep \/ SyncFails
      BY <2>2, NetbootSyncSafe
    <2>3. CASE Others
      BY <2>3, NetbootOthersSafe
    <2>4. ASSUME NEW n \in Names, NEW c \in Creds, NEW h \in Hosts, NEW m \in Macs,
                 StartSync(n, c, h, m)
          PROVE  NetInv'
      <3>1. UNCHANGED <<store, netboot, held>> /\ ~held
        BY <2>1, <2>4 DEF StartSync, objVars, SyncInv, HeldOurs, Syncing
      <3>2. job'.mac = m
        BY <2>4 DEF StartSync, NewJob, NoJob
      <3>. QED  BY <2>1, <3>1, <3>2 DEF NetInv, TinksList, CarriesNetboot, JobMac
    <2>5. CASE UNCHANGED syncVars
      <3>1. UNCHANGED <<store, netboot, held, job>>
        BY <2>5 DEF syncVars, objVars
      <3>. QED  BY <2>1, <3>1 DEF NetInv, TinksList, CarriesNetboot, JobMac, Syncing
    <2>. QED  BY <2>2, <2>3, <2>4, <2>5 DEF SyncNext
  <1>3. NetInv => NetbootIsTinks
    BY DEF NetInv, TinksList, NetbootIsTinks
  <1>. QED  BY <1>1, <1>2, <1>3, PTL DEF SyncSpec
=============================================================================
