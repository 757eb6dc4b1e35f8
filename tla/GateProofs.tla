----------------------------- MODULE GateProofs -----------------------------
(***************************************************************************)
(* The reconciler, in any environment, implements the pre-terminate gate:  *)
(* step simulation under the refinement mapping of Teardown, with the      *)
(* inductive invariant of TeardownProofs.                                  *)
(***************************************************************************)
EXTENDS TeardownProofs

(* A step that the gate does not see. *)
GateKept ==
    /\ \A m \in Machines :
        /\ api'[m].hook = api[m].hook
        /\ api'[m].reset = api[m].reset
        /\ infra'[m] = "present" <=> infra[m] = "present"
    /\ wiped' = wiped

(* Such a step is a stuttering step of the gate. *)
LEMMA KeptStutters ==
    ASSUME GateKept
    PROVE  UNCHANGED Gate!vars
  <1>1. {m \in Machines : HasHook(api'[m])} = {m \in Machines : HasHook(api[m])}
    BY DEF GateKept, HasHook
  <1>2. \A m \in Machines : Verdict(api'[m]) = Verdict(api[m])
    BY DEF GateKept, Verdict
  <1>3. [m \in Machines |-> Verdict(api'[m])] = [m \in Machines |-> Verdict(api[m])]
    BY <1>2
  <1>4. {m \in Machines : infra'[m] # "present"} = {m \in Machines : infra[m] # "present"}
    BY DEF GateKept
  <1>5. wiped' = wiped
    BY DEF GateKept
  <1>. QED  BY <1>1, <1>3, <1>4, <1>5 DEF Gate!vars

(* The environment opens the gate for one Machine at a time, and only when  *)
(* it carries no hook.                                                      *)
LEMMA EnvImplements ==
    ASSUME TypeOK, EnvNext
    PROVE  UNCHANGED Gate!vars \/ Gate!Next
  <1>1. \A m \in Machines : api'[m].hook = api[m].hook /\ api'[m].reset = api[m].reset
    BY EnvEffects DEF EnvEffect
  <1>2. wiped' = wiped
    BY EnvEffects DEF EnvEffect
  <1>3. ASSUME NEW m \in Machines, CapiPassGate(m) PROVE Gate!Next
    <2>1. {n \in Machines : HasHook(api'[n])} = {n \in Machines : HasHook(api[n])}
      BY <1>1 DEF HasHook
    <2>2. \A n \in Machines : Verdict(api'[n]) = Verdict(api[n])
      BY <1>1 DEF Verdict
    <2>3. m \notin {n \in Machines : HasHook(api[n])}
      BY <1>3 DEF CapiPassGate, AnyPreTerminateHook, HasHook
    <2>4. \A n \in Machines : infra'[n] # "present" <=> n = m \/ infra[n] # "present"
      BY <1>3 DEF CapiPassGate, TypeOK, EnvTypeOK
    <2>5. {n \in Machines : infra'[n] # "present"}
            = {n \in Machines : infra[n] # "present"} \union {m}
      BY <2>4
    <2>6. Gate!Pass(m)
      BY <1>2, <2>1, <2>2, <2>3, <2>5 DEF Gate!Pass
    <2>. QED  BY <2>6 DEF Gate!Next
  <1>4. CASE \A m \in Machines : ~CapiPassGate(m)
    <2>1. \A m \in Machines : infra'[m] = "present" <=> infra[m] = "present"
      <3>1. ASSUME NEW n \in Machines, PowerOff(n)
            PROVE  \A m \in Machines : infra'[m] = "present" <=> infra[m] = "present"
        BY <3>1 DEF PowerOff, TypeOK, EnvTypeOK
      <3>2. CASE UNCHANGED infra
        BY <3>2
      <3>. QED
        BY <1>4, <3>1, <3>2
          DEF EnvNext, CapiNext, SyncMachines, SyncCluster, DeleteCluster, SecretCollected,
              DeleteMachine, CapiStart, CapiPark, CapiPublish, RemoveOtherHook, ScaleDown,
              EditObservedAt, BreakQualification
    <2>. QED  BY <1>1, <1>2, <2>1, KeptStutters DEF GateKept
  <1>. QED  BY <1>3, <1>4

(* A call of a reconcile stamps, wipes, concludes or releases its Machine,  *)
(* in that order, or the gate does not see it.                              *)
LEMMA StepImplements ==
    ASSUME IInv, NEW m \in Machines, Reconcile(m) \/ Step(m) \/ Abort(m)
    PROVE  UNCHANGED Gate!vars \/ Gate!Next
  <1>. DEFINE hooks == {n \in Machines : HasHook(api[n])}
              verdicts == [n \in Machines |-> Verdict(api[n])]
              gone == {n \in Machines : infra[n] # "present"}
  <1>0. /\ api \in [Machines -> Machine] /\ api[m] \in Machine /\ obj[m] \in Machine
        /\ wiped \subseteq Machines
        /\ SafeAt(m)
    BY SafeEverywhere DEF IInv, TypeOK, EnvTypeOK
  <1>1. CASE Stamp(m)
    <2>1. /\ api' = [api EXCEPT ![m] = [api[m] EXCEPT !.hook = TRUE,
                                                      !.legacy = @ /\ ~obj[m].legacy]]
          /\ UNCHANGED <<infra, wiped>>
      BY <1>1 DEF Stamp, Store
    <2>2. /\ \A n \in Machines : api'[n].reset = api[n].reset
          /\ \A n \in Machines : api'[n].hook <=> n = m \/ api[n].hook
      BY <1>0, <2>1 DEF Machine
    <2>3. {n \in Machines : HasHook(api'[n])} = hooks \union {m}
      BY <2>2 DEF HasHook
    <2>4. [n \in Machines |-> Verdict(api'[n])] = verdicts
      BY <2>2 DEF Verdict
    <2>5. Gate!Stamp(m)
      BY <2>1, <2>3, <2>4 DEF Gate!Stamp
    <2>. QED  BY <2>5 DEF Gate!Next
  <1>2. CASE StampReset(m)
    <2>1. /\ api' = [api EXCEPT ![m].reset = outcome[m]]
          /\ UNCHANGED <<infra, wiped>>
          /\ outcome[m] \in ResetConclusions
          /\ outcome[m] = "done" => m \in wiped
      BY <1>0, <1>2 DEF StampReset, Store, IInv, OutcomeFits, SafeAt
    <2>2. /\ \A n \in Machines \ {m} : api'[n].reset = api[n].reset
          /\ \A n \in Machines : api'[n].hook = api[n].hook
          /\ api'[m].reset = outcome[m]
      BY <1>0, <2>1 DEF Machine
    <2>3. {n \in Machines : HasHook(api'[n])} = hooks
      BY <2>2 DEF HasHook
    <2>4. PICK v \in {"wiped", "waived"} :
            Verdict(api'[m]) = v /\ (v = "wiped" => m \in wiped)
      BY <2>1, <2>2 DEF Verdict, ResetConclusions
    <2>5. [n \in Machines |-> Verdict(api'[n])] = [verdicts EXCEPT ![m] = v]
      BY <2>2, <2>4 DEF Verdict
    <2>6. Gate!Conclude(m)
      BY <2>1, <2>3, <2>4, <2>5 DEF Gate!Conclude, Gate!Verdicts
    <2>. QED  BY <2>6 DEF Gate!Next
  <1>3. CASE Release(m)
    <2>1. /\ api' = [api EXCEPT ![m].hook = FALSE, ![m].legacy = @ /\ ~obj[m].legacy]
          /\ UNCHANGED <<infra, wiped>>
          /\ api[m].reset # "none"
      BY <1>0, <1>3 DEF Release, Store, SafeAt, Older
    <2>2. /\ \A n \in Machines : api'[n].reset = api[n].reset
          /\ \A n \in Machines : api'[n].hook <=> n # m /\ api[n].hook
      BY <1>0, <2>1 DEF Machine
    <2>3. {n \in Machines : HasHook(api'[n])} = hooks \ {m}
      BY <2>2 DEF HasHook
    <2>4. [n \in Machines |-> Verdict(api'[n])] = verdicts
      BY <2>2 DEF Verdict
    <2>5. verdicts[m] # "none"
      BY <2>1 DEF Verdict
    <2>6. Gate!Release(m)
      BY <2>1, <2>3, <2>4, <2>5 DEF Gate!Release
    <2>. QED  BY <2>6 DEF Gate!Next
  <1>4. CASE TryReset(m)
    <2>1. CASE wiped' = wiped
      BY <1>4, <2>1, KeptStutters DEF TryReset, GateKept
    <2>2. CASE wiped' = wiped \union {m}
      BY <1>4, <2>2 DEF TryReset, Gate!Next, Gate!Wipe
    <2>. QED  BY <1>4, <2>1, <2>2 DEF TryReset
  <1>5. CASE Observe(m)
    BY <1>0, <1>5, KeptStutters DEF Observe, Store, GateKept, Machine
  <1>6. CASE StampEtcd(m)
    BY <1>0, <1>6, KeptStutters DEF StampEtcd, Store, GateKept, Machine
  <1>7. CASE \/ Reconcile(m) \/ EnsureCredentials(m) \/ ReadCluster(m)
             \/ SerializeControlPlane(m) \/ FindPeer(m) \/ ProbePeer(m) \/ LeaveViaVictim(m)
             \/ RemoveViaPeer(m) \/ Abort(m)
    <2>1. UNCHANGED <<api, infra, wiped>>
      BY <1>7 DEF Reconcile, EnsureCredentials, ReadCluster, SerializeControlPlane,
                  FindPeer, ProbePeer, LeaveViaVictim, RemoveViaPeer, Abort, envVars
    <2>. QED  BY <2>1, KeptStutters DEF GateKept
  <1>. QED  BY <1>1, <1>2, <1>3, <1>4, <1>5, <1>6, <1>7 DEF Step

(* Every behaviour of the reconciler and its environment is a behaviour of  *)
(* the gate: release takes the hook off only after stampPhase recorded a    *)
(* reset conclusion, "done" is only recorded of a node that was wiped, and  *)
(* the machine controller passes no Machine that carries the hook.          *)
THEOREM GateRefinement == Spec => ImplementsGate
  <1>1. Init => Gate!Init
    <2>. SUFFICES ASSUME Init PROVE Gate!Init
      OBVIOUS
    <2>1. \A m \in Machines : api[m].reset = "none"
      <3>1. PICK hooked, leftover, foreign : api = HealthyFleet(hooked, leftover, foreign)
        BY DEF Init, EnvInit
      <3>. QED  BY <3>1 DEF HealthyFleet, NoMachine
    <2>2. [m \in Machines |-> Verdict(api[m])] = [m \in Machines |-> "none"]
      BY <2>1 DEF Verdict
    <2>3. {m \in Machines : infra[m] # "present"} = {}
      BY DEF Init, EnvInit
    <2>4. wiped = {}
      BY DEF Init, EnvInit
    <2>. QED  BY <2>2, <2>3, <2>4 DEF Gate!Init
  <1>2. IInv /\ [Next]_vars => [Gate!Next]_(Gate!vars)
    <2>. SUFFICES ASSUME IInv, [Next]_vars PROVE UNCHANGED Gate!vars \/ Gate!Next
      OBVIOUS
    <2>1. CASE EnvNext /\ UNCHANGED ctlVars
      BY <2>1, EnvImplements DEF IInv
    <2>2. ASSUME NEW m \in Machines, Reconcile(m) \/ Step(m) \/ Abort(m)
          PROVE  UNCHANGED Gate!vars \/ Gate!Next
      BY <2>2, StepImplements
    <2>3. CASE Crash
      BY <2>3, KeptStutters DEF Crash, GateKept
    <2>4. CASE Tick
      <3>1. \A m \in Machines : api[m] \in Machine /\ api'[m] = AgeByOne(api[m])
        BY <2>4 DEF Tick, IInv, TypeOK, EnvTypeOK
      <3>2. \A m \in Machines : api'[m].hook = api[m].hook /\ api'[m].reset = api[m].reset
        BY <3>1 DEF AgeByOne, Machine
      <3>. QED  BY <2>4, <3>2, KeptStutters DEF Tick, GateKept
    <2>5. CASE UNCHANGED vars
      BY <2>5, KeptStutters DEF vars, envVars, GateKept
    <2>. QED  BY <2>1, <2>2, <2>3, <2>4, <2>5 DEF Next
  <1>. QED  BY <1>1, <1>2, Invariance, PTL DEF Spec, ImplementsGate, Gate!Spec
=============================================================================
