------------------------------ MODULE Startup -------------------------------
(***************************************************************************)
(* The start of a dataplane process, and the kubelet that watches over it. *)
(* The loader's main attaches the packet programs and hands the maps to    *)
(* the API server, whose `start` runs two servers as tasks of their own:   *)
(* health checks, never with TLS, and the Backends service.  Any step may  *)
(* fail, a task by panicking; then the process exits and is started again. *)
(* A killed process does not run its destructors: what the kernel keeps    *)
(* attached of it is not modelled, `attached` is the present process's.    *)
(***************************************************************************)
EXTENDS Naturals

CONSTANTS
    Port,              \* the port that main passes to start
    ProbePort,         \* the port of the manifest's probes
    StartupThreshold,  \* failureThreshold of the startup probe
    LivenessThreshold, \* failureThreshold of the liveness probe
    MaxFaults          \* bound on the steps that fail or are late

Programs == {"ingress", "egress"}
Tasks == {"healthchecks", "backends"}
TLSConfig == {"none", "tls", "mutual-tls"}
Files == {"certificate", "key", "client_ca"}

\* The startup probe's budget covers a start: main has four steps, setup_tls is
\* one more, and each server binds its port.
ASSUME StartupAssumption ==
    /\ Port \in Nat /\ ProbePort \in Nat /\ MaxFaults \in Nat
    /\ StartupThreshold \in Nat /\ StartupThreshold > 7
    /\ LivenessThreshold \in Nat /\ LivenessThreshold > 0

VARIABLES
    tls_config,  \* the subcommand that the process is started with
    pc,          \* the step main is at
    attached,    \* the programs that it has attached
    task,        \* the progress of the two server tasks
    secured,     \* the TLS mode of the Backends server
    files,       \* the files that can be read; a volume may be mounted late
    faults,      \* the steps that have failed or been late
    probe,       \* the kubelet's view: started, missed probes in a row, ready
    stepped      \* whether the process has moved since the last probe

process == <<pc, attached, task, secured>>
vars == <<tls_config, process, files, faults, probe, stepped>>

Unprobed == [started |-> FALSE, misses |-> 0, ready |-> FALSE]

Init ==
    /\ tls_config \in TLSConfig
    /\ pc = "load"
    /\ attached = {}
    /\ task = [t \in Tasks |-> "unspawned"]
    /\ secured = "none"
    /\ files \in SUBSET Files
    /\ faults = 0
    /\ probe = Unprobed
    /\ stepped = FALSE

-----------------------------------------------------------------------------
\* The process.

Moves ==
    /\ stepped' = TRUE
    /\ UNCHANGED <<tls_config, files, probe>>

Fault ==
    /\ faults < MaxFaults
    /\ faults' = faults + 1

\* The end of the process: its tasks end, and the kubelet starts its view anew.
Exit ==
    /\ pc' = "exited"
    /\ attached' = {}
    /\ task' = [t \in Tasks |-> "unspawned"]
    /\ secured' = "none"
    /\ probe' = Unprobed
    /\ stepped' = FALSE

\* main returns the error of a step that fails.
FailMain ==
    /\ pc \in {"load", "attach_ingress", "attach_egress", "take_maps"}
    /\ Fault
    /\ Exit
    /\ UNCHANGED <<tls_config, files>>

Load ==
    /\ pc = "load"
    /\ pc' = "attach_ingress"
    /\ Moves
    /\ UNCHANGED <<attached, task, secured, faults>>

AttachIngress ==
    /\ pc = "attach_ingress"
    /\ pc' = "attach_egress"
    /\ attached' = attached \cup {"ingress"}
    /\ Moves
    /\ UNCHANGED <<task, secured, faults>>

\* Defect: a failing attach is ignored, as that of the qdisc is.
AttachEgressIgnored ==
    /\ pc = "attach_egress"
    /\ pc' = "take_maps"
    /\ Moves
    /\ UNCHANGED <<attached, task, secured, faults>>

AttachEgress ==
    /\ pc = "attach_egress"
    /\ pc' = "take_maps"
    /\ attached' = attached \cup {"egress"}
    /\ Moves
    /\ UNCHANGED <<task, secured, faults>>

\* Defect: the health checks are not spawned.
TakeMapsOneTask ==
    /\ pc = "take_maps"
    /\ pc' = "join"
    /\ task' = [t \in {"backends"} |-> "setup_tls"]
    /\ Moves
    /\ UNCHANGED <<attached, secured, faults>>

\* The maps are taken from the loaded object, and start spawns the two tasks.
TakeMaps ==
    /\ pc = "take_maps"
    /\ pc' = "join"
    /\ task' = [healthchecks |-> "bind", backends |-> "setup_tls"]
    /\ Moves
    /\ UNCHANGED <<attached, secured, faults>>

\* The files that setup_tls reads; any of them missing is an error.
Reads(config) ==
    CASE config = "tls"        -> {"certificate", "key"}
      [] config = "mutual-tls" -> Files
      [] OTHER                 -> {}

\* Defect: without its files the server goes on without TLS.
setup_tls_or_plain ==
    /\ task["backends"] = "setup_tls"
    /\ task' = [task EXCEPT !["backends"] = "bind"]
    /\ secured' = IF Reads(tls_config) \subseteq files THEN tls_config ELSE "none"
    /\ Moves
    /\ UNCHANGED <<pc, attached, faults>>

setup_tls ==
    /\ task["backends"] = "setup_tls"
    /\ \/ /\ Reads(tls_config) \subseteq files
          /\ task' = [task EXCEPT !["backends"] = "bind"]
          /\ secured' = tls_config
          /\ UNCHANGED faults
       \/ /\ ~(Reads(tls_config) \subseteq files)
          /\ task' = [task EXCEPT !["backends"] = "panicked"]
          /\ UNCHANGED <<secured, faults>>
       \/ /\ Reads(tls_config) # {}  \* what was read is not a certificate or a key
          /\ Fault
          /\ task' = [task EXCEPT !["backends"] = "panicked"]
          /\ UNCHANGED secured
    /\ Moves
    /\ UNCHANGED <<pc, attached>>

\* Defect: both servers are given the same port.
SamePort(t) == Port

ServerPort(t) == IF t = "healthchecks" THEN Port + 1 ELSE Port

\* A server binds its port, unless the other server has it or, a fault, another
\* process of the host's network.
Serve(t) ==
    LET free == \A u \in Tasks : task[u] = "serving" => ServerPort(u) # ServerPort(t)
    IN  /\ task[t] = "bind"
        /\ \/ /\ free
              /\ task' = [task EXCEPT ![t] = "serving"]
              /\ UNCHANGED faults
           \/ /\ IF free THEN Fault ELSE UNCHANGED faults
              /\ task' = [task EXCEPT ![t] = "panicked"]
        /\ Moves
        /\ UNCHANGED <<pc, attached, secured>>

\* Defect: main waits for both tasks to end, where one of them never does.
JoinAll ==
    /\ pc = "join"
    /\ \A t \in Tasks : task[t] = "panicked"
    /\ Exit
    /\ UNCHANGED <<tls_config, files, faults>>

\* try_join: the first task that panics ends start, and with it main.
TryJoin ==
    /\ pc = "join"
    /\ \E t \in Tasks : task[t] = "panicked"
    /\ Exit
    /\ UNCHANGED <<tls_config, files, faults>>

Process ==
    \/ Load
    \/ AttachIngress
    \/ AttachEgress
    \/ TakeMaps
    \/ setup_tls
    \/ \E t \in Tasks : Serve(t)
    \/ TryJoin

-----------------------------------------------------------------------------
\* External: the volume of the files, and the kubelet.

Mount ==
    /\ \E f \in Files \ files : files' = files \cup {f}
    /\ UNCHANGED <<tls_config, process, faults, probe, stepped>>

Restart ==
    /\ pc = "exited"
    /\ pc' = "load"
    /\ UNCHANGED <<tls_config, attached, task, secured, files, faults, probe, stepped>>

\* The health service answers, SERVING, on the health server's port only; to the
\* Backends server its method is unknown.
Healthy ==
    \E t \in Tasks : t = "healthchecks" /\ task[t] = "serving" /\ ServerPort(t) = ProbePort

Missed(n) == ~Healthy /\ probe.misses + 1 = n

Threshold == IF probe.started THEN LivenessThreshold ELSE StartupThreshold

\* A fault: a probe's period passes and the process has not moved.
Delay ==
    /\ pc # "exited"
    /\ ~stepped
    /\ Fault
    /\ stepped' = TRUE
    /\ UNCHANGED <<tls_config, process, files, probe>>

\* Timing: otherwise the process moves between two probes, while it can.
Due ==
    \/ stepped
    \/ pc = "join" /\ \A t \in Tasks : task[t] = "serving"

Probe ==
    /\ Due
    /\ ~Missed(Threshold)
    /\ probe' = [started |-> probe.started \/ Healthy,
                 misses  |-> IF Healthy THEN 0 ELSE probe.misses + 1,
                 ready   |-> Healthy]
    /\ stepped' = FALSE
    /\ UNCHANGED <<tls_config, process, files, faults>>

Kill ==
    /\ Due
    /\ Missed(Threshold)
    /\ Exit
    /\ UNCHANGED <<tls_config, files, faults>>

Next == Process \/ FailMain \/ Mount \/ Restart \/ Delay \/ Probe \/ Kill

Spec == Init /\ [][Next]_vars

\* The process runs, a container that exited is started again, a volume that is
\* missing is mounted in the end, and a container is probed for ever.
Fairness ==
    /\ WF_vars(Process)
    /\ WF_vars(Mount)
    /\ WF_vars(Restart)
    /\ WF_vars(Probe \/ Kill)

FairSpec == Spec /\ Fairness

-----------------------------------------------------------------------------
\* Variables have values of their types, and the misses stay below the threshold.
TypeOK ==
    /\ tls_config \in TLSConfig
    /\ pc \in {"load", "attach_ingress", "attach_egress", "take_maps", "join", "exited"}
    /\ attached \subseteq Programs
    /\ task \in [Tasks -> {"unspawned", "setup_tls", "bind", "serving", "panicked"}]
    /\ secured \in TLSConfig
    /\ files \subseteq Files
    /\ faults \in 0 .. MaxFaults
    /\ probe \in [started : BOOLEAN, misses : Nat, ready : BOOLEAN]
    /\ probe.misses < Threshold
    /\ stepped \in BOOLEAN

\* The Backends service is never served with less TLS than it was started with:
\* a file that is missing when setup_tls reads it ends the process, whether or
\* not the health server is up by then and the file is mounted meanwhile.
ServedAsConfigured == task["backends"] = "serving" => secured = tls_config

\* A pod that the kubelet reports as ready has both programs on its interface:
\* the health server, which knows nothing of them, is started only after the
\* last step of main that can fail to attach one.
ReadyIsAttached == probe.ready => attached = Programs

\* A server that fails takes the process with it: no pod goes on answering
\* health checks without its Backends service.
HalfUpExits ==
    \A t \in Tasks : task[t] = "panicked" ~> pc = "exited"

Up == probe.ready /\ \A t \in Tasks : task[t] = "serving"

\* Once files are there and nothing else fails, the process comes up, with both
\* servers, and is neither killed nor reported as not ready again.
ComesUp == <>[]Up

-----------------------------------------------------------------------------
\* "this probe helps to provide some grace while starting up to avoid unnecessary
\* kills" (dataplane.yaml): a process that serves is not killed.
NotKilledWhileServing ==
    [][(\A t \in Tasks : task[t] = "serving") => pc' # "exited"]_vars
=============================================================================
