---------------------------- MODULE StartupProofs ---------------------------
(***************************************************************************)
(* Proofs about Startup, for any ports, thresholds and number of faults.   *)
(***************************************************************************)
EXTENDS Startup, TLAPS

\* What is attached and spawned at each step of main: nothing is spawned before the
\* maps are taken, and they are taken with both programs attached.
AttachedBy ==
    /\ pc \in {"load", "attach_ingress", "exited"} => attached = {}
    /\ pc = "attach_egress" => attached = {"ingress"}
    /\ pc \in {"take_maps", "join"} => attached = Programs
    /\ pc # "join" => task = [t \in Tasks |-> "unspawned"]

\* The Backends server is past setup_tls only with the TLS it was started with.
SecuredBy == task["backends"] \in {"bind", "serving"} => secured = tls_config

\* A probe has succeeded only if the health server serves, and a server that does
\* goes on serving until the process ends.
ReadyBy == probe.started \/ probe.ready => task["healthchecks"] = "serving"

IInv == TypeOK /\ AttachedBy /\ SecuredBy /\ ReadyBy

-----------------------------------------------------------------------------
\* The process starts with nothing attached, spawned or seen.
LEMMA InitInv == Init => IInv
<1> SUFFICES ASSUME Init PROVE IInv
  OBVIOUS
<1>1. TypeOK
  <2>1. task \in [Tasks -> {"unspawned", "setup_tls", "bind", "serving", "panicked"}]
    BY DEF Init
  <2>2. secured \in TLSConfig /\ probe \in [started : BOOLEAN, misses : Nat, ready : BOOLEAN]
    BY DEF Init, Unprobed, TLSConfig
  <2>3. faults \in 0 .. MaxFaults /\ probe.misses < Threshold
    BY StartupAssumption DEF Init, Unprobed, Threshold
  <2> QED
    BY <2>1, <2>2, <2>3 DEF Init, TypeOK
<1>2. AttachedBy /\ SecuredBy /\ ReadyBy
  BY DEF Init, AttachedBy, SecuredBy, ReadyBy, Unprobed, Tasks
<1> QED
  BY <1>1, <1>2 DEF IInv

\* The end of the process, by an error, a panic or the kubelet, leaves nothing.
LEMMA ExitInv ==
    ASSUME IInv, Exit, UNCHANGED <<tls_config, files>>, faults' \in 0 .. MaxFaults
    PROVE  IInv'
<1>1. TypeOK'
  <2>1. task' \in [Tasks -> {"unspawned", "setup_tls", "bind", "serving", "panicked"}]
    BY DEF Exit
  <2>2. secured' \in TLSConfig /\ probe' \in [started : BOOLEAN, misses : Nat, ready : BOOLEAN]
    BY DEF Exit, Unprobed, TLSConfig
  <2>3. probe'.misses < Threshold'
    BY StartupAssumption DEF Exit, Unprobed, Threshold
  <2> QED
    BY <2>1, <2>2, <2>3 DEF Exit, IInv, TypeOK
<1>2. (AttachedBy /\ SecuredBy /\ ReadyBy)'
  BY DEF Exit, AttachedBy, SecuredBy, ReadyBy, Unprobed, Tasks
<1> QED
  BY <1>1, <1>2 DEF IInv

\* A fault keeps to its bound.
LEMMA FaultBounded == TypeOK /\ Fault => faults' \in 0 .. MaxFaults
BY StartupAssumption DEF TypeOK, Fault

\* Every step of the process keeps the invariant.
LEMMA ProcessInv == IInv /\ Process => IInv'
<1> SUFFICES ASSUME IInv, Process PROVE IInv'
  OBVIOUS
<1> USE DEF Tasks, Programs, Threshold
<1>1. CASE Load
  BY <1>1 DEF Load, Moves, IInv, TypeOK, AttachedBy, SecuredBy, ReadyBy
<1>2. CASE AttachIngress
  BY <1>2 DEF AttachIngress, Moves, IInv, TypeOK, AttachedBy, SecuredBy, ReadyBy
<1>3. CASE AttachEgress
  BY <1>3 DEF AttachEgress, Moves, IInv, TypeOK, AttachedBy, SecuredBy, ReadyBy
<1>4. CASE TakeMaps
  BY <1>4 DEF TakeMaps, Moves, IInv, TypeOK, AttachedBy, SecuredBy, ReadyBy
<1>5. CASE setup_tls
  <2>1. faults' \in 0 .. MaxFaults
    BY <1>5, FaultBounded DEF setup_tls, IInv, TypeOK
  <2>2. /\ task["backends"] = "setup_tls"
        /\ \/ task' = [task EXCEPT !["backends"] = "bind"] /\ secured' = tls_config
           \/ task' = [task EXCEPT !["backends"] = "panicked"] /\ UNCHANGED secured
        /\ Moves
        /\ UNCHANGED <<pc, attached>>
    BY <1>5 DEF setup_tls
  <2> QED
    BY <2>1, <2>2 DEF Moves, IInv, TypeOK, AttachedBy, SecuredBy, ReadyBy
<1>6. ASSUME NEW t \in Tasks, Serve(t) PROVE IInv'
  <2>1. faults' \in 0 .. MaxFaults
    BY <1>6, FaultBounded DEF Serve, IInv, TypeOK
  <2>2. /\ task[t] = "bind"
        /\ \/ task' = [task EXCEPT ![t] = "serving"]
           \/ task' = [task EXCEPT ![t] = "panicked"]
        /\ Moves
        /\ UNCHANGED <<pc, attached, secured>>
    BY <1>6 DEF Serve
  <2> QED
    BY <2>1, <2>2 DEF Moves, IInv, TypeOK, AttachedBy, SecuredBy, ReadyBy
<1>7. CASE TryJoin
  BY <1>7, ExitInv DEF TryJoin, IInv, TypeOK
<1> QED
  BY <1>1, <1>2, <1>3, <1>4, <1>5, <1>6, <1>7 DEF Process

\* Every step of the kubelet and of the volume keeps it.
LEMMA KubeletInv ==
    IInv /\ (FailMain \/ Mount \/ Restart \/ Delay \/ Probe \/ Kill \/ UNCHANGED vars) => IInv'
<1> SUFFICES ASSUME IInv, FailMain \/ Mount \/ Restart \/ Delay \/ Probe \/ Kill \/ UNCHANGED vars
             PROVE  IInv'
  OBVIOUS
<1> USE DEF process, Threshold
<1>1. CASE FailMain
  BY <1>1, ExitInv, FaultBounded DEF FailMain, IInv
<1>2. CASE Mount
  BY <1>2 DEF Mount, IInv, TypeOK, AttachedBy, SecuredBy, ReadyBy
<1>3. CASE Restart
  BY <1>3 DEF Restart, IInv, TypeOK, AttachedBy, SecuredBy, ReadyBy
<1>4. CASE Delay
  BY <1>4, FaultBounded DEF Delay, IInv, TypeOK, AttachedBy, SecuredBy, ReadyBy
<1>5. CASE Probe
  <2>1. Healthy \/ probe.misses + 1 < Threshold
    BY <1>5, StartupAssumption DEF Probe, Missed, IInv, TypeOK
  <2>2. /\ probe' \in [started : BOOLEAN, misses : Nat, ready : BOOLEAN]
        /\ probe'.misses < Threshold'
    <3>1. CASE Healthy
      <4>1. probe' = [started |-> TRUE, misses |-> 0, ready |-> TRUE]
        BY <1>5, <3>1 DEF Probe
      <4> QED
        BY <4>1, StartupAssumption
    <3>2. CASE ~Healthy
      <4>1. (probe.started \/ Healthy) = probe.started /\ Healthy = FALSE
        BY <3>2 DEF Healthy, IInv, TypeOK
      <4>2. probe' = [started |-> probe.started, misses |-> probe.misses + 1, ready |-> FALSE]
        <5> HIDE DEF Healthy
        <5> QED
          BY <1>5, <3>2, <4>1, Zenon DEF Probe
      <4> QED
        BY <2>1, <3>2, <4>2, StartupAssumption DEF IInv, TypeOK
    <3> QED
      BY <3>1, <3>2
  <2>3. ReadyBy'
    BY <1>5 DEF Probe, Healthy, IInv, ReadyBy
  <2> QED
    BY <1>5, <2>2, <2>3 DEF Probe, IInv, TypeOK, AttachedBy, SecuredBy
<1>6. CASE Kill
  BY <1>6, ExitInv DEF Kill, IInv, TypeOK
<1>7. CASE UNCHANGED vars
  BY <1>7 DEF vars, IInv, TypeOK, AttachedBy, SecuredBy, ReadyBy
<1> QED
  BY <1>1, <1>2, <1>3, <1>4, <1>5, <1>6, <1>7

\* IInv is an invariant of every behaviour.
LEMMA Invariance == Spec => []IInv
<1>1. IInv /\ [Next]_vars => IInv'
  BY ProcessInv, KubeletInv DEF Next
<1> QED
  BY InitInv, <1>1, PTL DEF Spec

-----------------------------------------------------------------------------
\* Whatever fails, and whenever files are mounted, every variable of main, of the
\* two server tasks and of the kubelet keeps to its type.
THEOREM TypeCorrect == Spec => []TypeOK
<1>1. IInv => TypeOK
  BY DEF IInv
<1> QED
  BY Invariance, <1>1, PTL

\* The Backends server never serves with less TLS than the process was started
\* with: setup_tls panics instead, whichever files are missing at that moment.
THEOREM NeverInsecure == Spec => []ServedAsConfigured
<1>1. IInv => ServedAsConfigured
  BY DEF IInv, SecuredBy, ServedAsConfigured
<1> QED
  BY Invariance, <1>1, PTL

\* A pod that the kubelet reports as ready has both programs attached: main
\* attaches them before start spawns the server that answers the probe.
THEOREM ReadyHasPrograms == Spec => []ReadyIsAttached
<1>1. IInv => ReadyIsAttached
  <2> SUFFICES ASSUME IInv, probe.ready PROVE attached = Programs
    BY DEF ReadyIsAttached
  <2>1. task["healthchecks"] = "serving"
    BY DEF IInv, ReadyBy
  <2>2. pc = "join"
    BY <2>1 DEF IInv, AttachedBy, Tasks
  <2> QED
    BY <2>2 DEF IInv, AttachedBy
<1> QED
  BY Invariance, <1>1, PTL

\* A process whose two servers serve.
Serving == \A t \in Tasks : task[t] = "serving"

\* While both servers serve, nothing but a probe that fails can end the process:
\* main has passed the steps that return an error and no task has panicked.
LEMMA ServingStep ==
    ASSUME IInv, [Next]_vars, Serving, Healthy
    PROVE  UNCHANGED <<pc, task>> /\ (probe.ready => probe'.ready)
<1>1. /\ task["healthchecks"] = "serving" /\ task["backends"] = "serving"
      /\ pc = "join"
  BY DEF Serving, IInv, AttachedBy, Tasks
<1>2. ~Process /\ ~FailMain /\ ~Restart
  BY <1>1 DEF Process, Load, AttachIngress, AttachEgress, TakeMaps, setup_tls, Serve, TryJoin,
              FailMain, Restart, Tasks
<1>3. ~Kill
  BY DEF Kill, Missed
<1>4. CASE Mount \/ Delay
  BY <1>4 DEF Mount, Delay, process
<1>5. CASE Probe
  BY <1>5 DEF Probe, process
<1>6. CASE UNCHANGED vars
  BY <1>6 DEF vars, process
<1> QED
  BY <1>2, <1>3, <1>4, <1>5, <1>6 DEF Next

\* The probes ask the port that start gives to the health server, one above its
\* own; the manifest's do not.
RightPort == ProbePort = Port + 1

\* With probes on the health server's port, a process whose servers both serve is
\* neither killed nor does it exit by itself: the port that the manifest names is
\* the only way to what the run `probe` shows.
THEOREM RightPortIsNotKilled ==
    ASSUME RightPort
    PROVE  Spec => NotKilledWhileServing
<1>1. IInv /\ [Next]_vars => [Serving => pc' # "exited"]_vars
  <2> SUFFICES ASSUME IInv, [Next]_vars, Serving PROVE pc' # "exited"
    OBVIOUS
  <2>1. Healthy
    BY DEF Healthy, Serving, ServerPort, RightPort, Tasks
  <2>2. pc = "join"
    BY DEF Serving, IInv, AttachedBy, Tasks
  <2> QED
    BY <2>1, <2>2, ServingStep
<1> QED
  BY Invariance, <1>1, PTL DEF Spec, NotKilledWhileServing, Serving

\* With probes on that port, a process that is up and ready stays so: no fault that
\* remains possible, and no probe, takes it back.  This is the safety half of
\* ComesUp, which lets faults stop.
THEOREM UpIsStable ==
    ASSUME RightPort
    PROVE  Spec => [][Up => Up']_vars
<1>1. IInv /\ [Next]_vars => [Up => Up']_vars
  <2> SUFFICES ASSUME IInv, [Next]_vars, Up PROVE Up'
    OBVIOUS
  <2>1. Serving /\ Healthy
    BY DEF Up, Healthy, Serving, ServerPort, RightPort, Tasks
  <2> QED
    BY <2>1, ServingStep DEF Up
<1> QED
  BY Invariance, <1>1, PTL DEF Spec
=============================================================================
