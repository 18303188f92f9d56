------------------------------ MODULE TestHost -------------------------------
(***************************************************************************)
(* ensureTestHost() of host.ts: test processes that share one test host, a *)
(* Docker container or a Colima VM, and bring it up when it is not there.  *)
(*                                                                         *)
(* The host and the user manager in it are external: a host that stops     *)
(* takes the running units along, a container that is removed the links as *)
(* well.  A process reaches the host by name, so it talks to whichever     *)
(* container has the name at that moment.  Every command sent to the host  *)
(* is one step.  Units are abstracted to one per sandbox (Boxes).          *)
(***************************************************************************)
EXTENDS Naturals, FiniteSets

CONSTANTS
  Procs,     \* test processes; each ends and is run again
  Boxes,     \* sandboxes, each with one unit
  Backends,  \* backends an instance looks at
  Attempts   \* how often waitForUserSystemd() asks: 30 in the code

VARIABLES
  backend,   \* "docker" or "colima": the platform's, the same for everybody
  host,      \* the container or VM
  manager,   \* the user manager in it
  linked,    \* sandboxes whose unit is linked into the user manager
  running,   \* sandboxes whose unit is active
  calm,      \* from now on no command fails of itself and no host stops
  pc,        \* pc[p]: the stage of p
  ensured,   \* ensured[p]: the promise ensureTestHost() keeps
  tries      \* tries[p]: probes of waitForUserSystemd() so far

guestVars == <<host, manager, linked, running>>
hostVars == <<backend, guestVars, calm, pc, ensured, tries>>

ASSUME TestHostAssumption ==
  /\ Backends \subseteq {"docker", "colima"}
  /\ Attempts \in Nat \ {0}

DockerStages == {"build", "inspect", "remove", "run", "uid", "home", "session", "mkdir"}
ColimaStages == {"status", "start"}
EnsureStages == DockerStages \cup ColimaStages \cup {"probe"}
BoxStages == {"make", "list", "stop", "disable", "reset", "reload", "rmdir"}

HostTypeOK ==
  /\ backend \in Backends
  /\ host \in {"absent", "stopped", "running"}
  /\ manager \in {"none", "booting", "down", "starting", "up"}
  /\ linked \in SUBSET Boxes
  /\ running \in SUBSET Boxes
  /\ calm \in BOOLEAN
  /\ pc \in [Procs -> EnsureStages \cup BoxStages \cup {"idle"}]
  /\ ensured \in [Procs -> {"none", "pending", "ready", "failed"}]
  /\ tries \in [Procs -> 0 .. Attempts - 1]

HostInit ==
  /\ backend \in Backends
  /\ host = "absent"
  /\ manager = "none"
  /\ linked = {}
  /\ running = {}
  /\ calm = FALSE
  /\ pc = [p \in Procs |-> "idle"]
  /\ ensured = [p \in Procs |-> "none"]
  /\ tries = [p \in Procs |-> 0]

Goto(p, stage) == pc' = [pc EXCEPT ![p] = stage]

\* Stage before and after a step of ensureTestHost() that settles nothing.
Pass(p, from, to) ==
  /\ pc[p] = from
  /\ Goto(p, to)
  /\ UNCHANGED <<backend, calm, ensured, tries>>

\* The promise settles; it stays what it is for the life of the process.
SettleEnsure(p, result) ==
  /\ ensured' = [ensured EXCEPT ![p] = result]
  /\ tries' = [tries EXCEPT ![p] = 0]
  /\ Goto(p, "idle")
  /\ UNCHANGED <<backend, calm>>

Reached == host = "running"

-----------------------------------------------------------------------------
\* The first call of a process; later calls are given the same promise.
Ensure(p) ==
  /\ pc[p] = "idle"
  /\ ensured[p] = "none"
  /\ ensured' = [ensured EXCEPT ![p] = "pending"]
  /\ Goto(p, IF backend = "docker" THEN "build" ELSE "status")
  /\ UNCHANGED <<backend, guestVars, calm, tries>>

Build(p) == Pass(p, "build", "inspect") /\ UNCHANGED guestVars

\* Mutant of Inspect: a container that exists is taken for a running one.
Inspect_Exists(p) ==
  /\ \/ host # "absent" /\ Pass(p, "inspect", "uid")
     \/ (host = "absent" \/ ~calm) /\ Pass(p, "inspect", "remove")
  /\ UNCHANGED guestVars

\* isContainerRunning(): an inspect that fails counts as not running.
Inspect(p) ==
  /\ \/ Reached /\ Pass(p, "inspect", "uid")
     \/ (~Reached \/ ~calm) /\ Pass(p, "inspect", "remove")
  /\ UNCHANGED guestVars

\* rm --force, whatever runs in the container; its failure is ignored.
RemoveExisting(p) ==
  /\ Pass(p, "remove", "run")
  /\ \/ /\ host' = "absent"
        /\ manager' = "none"
        /\ linked' = {}
        /\ running' = {}
     \/ ~calm /\ UNCHANGED guestVars

RunContainer(p) ==
  /\ Pass(p, "run", "uid")
  /\ host = "absent"
  /\ host' = "running"
  /\ manager' = "booting"
  /\ UNCHANGED <<linked, running>>

\* The name is taken, or the container is created and does not start.
RunFails(p) ==
  /\ pc[p] = "run"
  /\ host # "absent" \/ ~calm
  /\ host' = IF host = "absent" THEN "stopped" ELSE host
  /\ SettleEnsure(p, "failed")
  /\ UNCHANGED <<manager, linked, running>>

\* resolveRuntimeInfo(): the uid and the home directory of the test user.
LookupUser(p) ==
  /\ Reached
  /\ Pass(p, "uid", "home") \/ Pass(p, "home", "session")
  /\ UNCHANGED guestVars

\* ensureUserSession(): systemctl must reach the container's init; a user
\* manager that already runs is left alone.
StartSession(p) ==
  /\ Pass(p, "session", "mkdir")
  /\ Reached
  /\ manager # "booting"
  /\ manager' = IF manager = "down" THEN "starting" ELSE manager
  /\ UNCHANGED <<host, linked, running>>

MakeTestsDir(p) == Reached /\ Pass(p, "mkdir", "probe") /\ UNCHANGED guestVars

\* Colima: a status that fails counts as not running; starting twice is harmless.
Status(p) ==
  /\ \/ Reached /\ Pass(p, "status", "probe")
     \/ (~Reached \/ ~calm) /\ Pass(p, "status", "start")
  /\ UNCHANGED guestVars

StartVM(p) ==
  /\ Pass(p, "start", "probe")
  /\ host' = "running"
  /\ manager' = IF Reached THEN manager ELSE "starting"
  /\ UNCHANGED <<linked, running>>

-----------------------------------------------------------------------------
\* waitForUserSystemd().
ProbeReady(p) ==
  /\ pc[p] = "probe"
  /\ Reached
  /\ manager = "up"
  /\ SettleEnsure(p, "ready")
  /\ UNCHANGED guestVars

\* Mutant of ProbeAgain: the probes are not counted.
ProbeAgain_Uncounted(p) ==
  /\ pc[p] = "probe"
  /\ Reached
  /\ manager # "up"
  /\ UNCHANGED <<backend, calm, pc, ensured>>
  /\ tries' = [tries EXCEPT ![p] = (tries[p] + 1) % Attempts]
  /\ UNCHANGED guestVars

ProbeAgain(p) ==
  /\ pc[p] = "probe"
  /\ Reached
  /\ manager # "up"
  /\ IF tries[p] + 1 < Attempts
     THEN tries' = [tries EXCEPT ![p] = @ + 1] /\ UNCHANGED <<backend, calm, pc, ensured>>
     ELSE SettleEnsure(p, "failed")
  /\ UNCHANGED guestVars

\* Any other command that fails rejects the promise.  A probe that times out or
\* loses its shell is such a failure, not a probe to repeat.
EnsureFails(p) ==
  /\ \/ pc[p] \in {"build", "start"} /\ ~calm
     \/ pc[p] \in {"uid", "home", "session", "mkdir", "probe"} /\ (~Reached \/ ~calm)
     \/ pc[p] = "session" /\ manager = "booting"
  /\ SettleEnsure(p, "failed")
  /\ UNCHANGED guestVars

EnsureStep(p) ==
  \/ Ensure(p) \/ Build(p) \/ Inspect(p) \/ RemoveExisting(p) \/ RunContainer(p)
  \/ RunFails(p) \/ LookupUser(p) \/ StartSession(p) \/ MakeTestsDir(p)
  \/ Status(p) \/ StartVM(p) \/ ProbeReady(p) \/ ProbeAgain(p) \/ EnsureFails(p)

-----------------------------------------------------------------------------
\* The host on its own.
Boot ==
  /\ manager = "booting"
  /\ manager' = "down"
  /\ UNCHANGED <<backend, host, linked, running, calm, pc, ensured, tries>>

UserManagerUp ==
  /\ manager = "starting"
  /\ manager' = "up"
  /\ UNCHANGED <<backend, host, linked, running, calm, pc, ensured, tries>>

HostStops ==
  /\ ~calm
  /\ Reached
  /\ host' = "stopped"
  /\ manager' = "none"
  /\ running' = {}
  /\ UNCHANGED <<backend, linked, calm, pc, ensured, tries>>

Settle ==
  /\ ~calm
  /\ calm' = TRUE
  /\ UNCHANGED <<backend, guestVars, pc, ensured, tries>>

HostNext == Boot \/ UserManagerUp \/ HostStops \/ Settle
=============================================================================
