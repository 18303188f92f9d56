---------------------------- MODULE SandboxProofs ----------------------------
(***************************************************************************)
(* Why a current sandbox has its directory and a destroyed one is gone, for *)
(* any number of processes and sandboxes: no two processes ever work on the *)
(* same sandbox, and in a container without a user manager that is up no   *)
(* unit is linked.                                                         *)
(***************************************************************************)
EXTENDS Sandbox, TLAPS

\* A process holds one sandbox, which nobody closed; the current one is there.
Held ==
  \A p \in Procs :
    /\ current[p] # NoBox =>
         box[p] = NoBox /\ fate[current[p]] = "open" /\ current[p] \in dirs
    /\ box[p] # NoBox => fate[box[p]] \in {"open", "kept"}

\* Nothing of a sandbox that is being made was kept.
Making == \A p \in Procs : pc[p] = "make" => fate[box[p]] = "open"

\* No two processes hold the same sandbox.
Apart ==
  \A p, q \in Procs : p # q =>
    /\ current[p] # NoBox => current[p] # current[q] /\ current[p] # box[q]
    /\ box[p] # NoBox => box[p] # box[q]

\* A container: of the sandboxes that may still be closed only linked units run, and
\* no unit is linked or runs before the user manager of the container is up.
Contained ==
  backend = "docker" =>
    /\ \A p \in Procs : pc[p] \notin ColimaStages
    /\ \A b \in running : fate[b] \in {"unused", "open", "closed"} => b \in linked
    /\ host = "absent" \/ (Reached /\ manager # "up") => linked = {} /\ running = {}

\* What destroyCurrentTestSandbox() has taken down stays down until it ends; what a
\* failure kept is not taken down.
TakenDown ==
  backend = "docker" =>
    \A p \in Procs : pc[p] \in BoxStages /\ fate[box[p]] = "open" =>
      /\ pc[p] = "disable" => box[p] \notin running
      /\ pc[p] \in {"reset", "reload", "rmdir"} => box[p] \notin linked

\* The inductive invariant.
Inv == TypeOK /\ Held /\ Making /\ Apart /\ Contained /\ TakenDown /\ DestroyedIsGone

\* What the host does on its own, and what ensureTestHost() does to it, leaves
\* the calls that make and destroy sandboxes alone and brings no unit back.
Aside ==
  /\ UNCHANGED <<backend, boxVars>>
  /\ \A p \in Procs : pc'[p] # pc[p] => pc[p] \notin BoxStages /\ pc'[p] \notin BoxStages
  /\ linked' \subseteq linked
  /\ running' \subseteq running

LEMMA EnsureAside ==
  ASSUME TypeOK, NEW p \in Procs, EnsureStep(p), UNCHANGED boxVars
  PROVE  Aside
<1> USE DEF Aside, TypeOK, HostTypeOK, Goto, Pass, SettleEnsure, guestVars, boxVars,
            BoxStages, EnsureStages, DockerStages, ColimaStages
<1>1. CASE Ensure(p)
  BY <1>1 DEF Ensure
<1>2. CASE Build(p) \/ Inspect(p) \/ LookupUser(p) \/ StartSession(p) \/ MakeTestsDir(p)
  BY <1>2 DEF Build, Inspect, LookupUser, StartSession, MakeTestsDir
<1>3. CASE RemoveExisting(p)
  BY <1>3 DEF RemoveExisting
<1>4. CASE RunContainer(p) \/ RunFails(p)
  BY <1>4 DEF RunContainer, RunFails
<1>5. CASE Status(p) \/ StartVM(p)
  BY <1>5 DEF Status, StartVM
<1>6. CASE ProbeReady(p) \/ ProbeAgain(p) \/ EnsureFails(p)
  BY <1>6 DEF ProbeReady, ProbeAgain, EnsureFails
<1> QED
  BY <1>1, <1>2, <1>3, <1>4, <1>5, <1>6 DEF EnsureStep

LEMMA HostAside ==
  ASSUME TypeOK, UNCHANGED boxVars,
         HostNext \/ (\E b \in Boxes : UnitExits(b)) \/ UNCHANGED vars
  PROVE  Aside
BY DEF Aside, HostNext, Boot, UserManagerUp, HostStops, Settle, UnitExits, vars, hostVars,
       guestVars, boxVars

\* Every step is one of a test, the end of a process, or aside of both.
LEMMA Steps ==
  ASSUME TypeOK, [Next]_vars
  PROVE  Aside \/ \E p \in Procs : TestStep(p) \/ Restart(p)
<1>1. ASSUME NEW b \in Boxes, UnitExits(b) PROVE UNCHANGED boxVars
  BY <1>1 DEF UnitExits, boxVars
<1>2. CASE UNCHANGED vars
  BY <1>2, HostAside DEF vars, boxVars
<1> QED
  BY <1>1, <1>2, EnsureAside, HostAside DEF Next

-----------------------------------------------------------------------------
\* The types hold at first and after every step.
LEMMA TypeStep == TypeOK /\ [Next]_vars => TypeOK'
<1> SUFFICES ASSUME TypeOK, [Next]_vars PROVE TypeOK'
  OBVIOUS
<1> USE DEF TypeOK, HostTypeOK, Fates, Goto, guestVars, boxVars,
            BoxStages, EnsureStages, DockerStages, ColimaStages
<1>1. ASSUME NEW p \in Procs, EnsureStep(p), UNCHANGED boxVars PROVE TypeOK'
  <2> USE <1>1 DEF Pass, SettleEnsure
  <2>1. CASE Ensure(p)
    BY <2>1 DEF Ensure
  <2>2. CASE Build(p) \/ Inspect(p) \/ LookupUser(p) \/ StartSession(p) \/ MakeTestsDir(p)
    BY <2>2 DEF Build, Inspect, LookupUser, StartSession, MakeTestsDir
  <2>3. CASE RemoveExisting(p) \/ RunContainer(p) \/ Status(p) \/ StartVM(p)
    BY <2>3 DEF RemoveExisting, RunContainer, Status, StartVM
  <2>4. CASE RunFails(p) \/ ProbeReady(p) \/ ProbeAgain(p) \/ EnsureFails(p)
    BY <2>4, TestHostAssumption DEF RunFails, ProbeReady, ProbeAgain, EnsureFails
  <2> QED
    BY <2>1, <2>2, <2>3, <2>4 DEF EnsureStep
<1>2. ASSUME NEW p \in Procs, TestStep(p) PROVE TypeOK'
  <2> USE <1>2 DEF Testing, Return, Advance, Pass
  <2>1. ASSUME NEW b \in Boxes, Create(p, b) PROVE TypeOK'
    BY <2>1, SandboxAssumption DEF Create
  <2>2. CASE Make(p) \/ RemoveDir(p)
    BY <2>2 DEF Make, RemoveDir
  <2>3. CASE Launch(p) \/ Retire(p)
    BY <2>3 DEF Launch, Retire
  <2>4. CASE Destroy(p)
    BY <2>4 DEF Destroy
  <2>5. CASE List(p) \/ StopUnits(p) \/ DisableUnits(p) \/ Refresh(p)
    BY <2>5 DEF List, StopUnits, DisableUnits, FailsUnheard, Refresh
  <2>6. CASE CommandLost(p)
    BY <2>6 DEF CommandLost
  <2> QED
    BY <2>1, <2>2, <2>3, <2>4, <2>5, <2>6 DEF TestStep
<1>3. ASSUME NEW p \in Procs, Restart(p) PROVE TypeOK'
  <2> USE <1>3 DEF Restart
  <2>1. HostTypeOK' /\ dirs' \in SUBSET Boxes
    BY TestHostAssumption
  <2>2. current' \in [Procs -> Boxes \cup {NoBox}] /\ box' \in [Procs -> Boxes \cup {NoBox}]
    OBVIOUS
  <2>3. fate' \in [Boxes -> Fates]
    OBVIOUS
  <2>4. \A q \in Procs : pc'[q] \in BoxStages <=> box'[q] # NoBox
    OBVIOUS
  <2> QED
    BY <2>1, <2>2, <2>3, <2>4
<1>4. CASE HostNext /\ UNCHANGED boxVars
  BY <1>4 DEF HostNext, Boot, UserManagerUp, HostStops, Settle
<1>5. ASSUME NEW b \in Boxes, UnitExits(b) PROVE TypeOK'
  BY <1>5 DEF UnitExits
<1>6. CASE UNCHANGED vars
  BY <1>6 DEF vars, hostVars
<1> QED
  BY <1>1, <1>2, <1>3, <1>4, <1>5, <1>6 DEF Next

\* Nobody gets hold of another's sandbox, and nobody removes its directory.
LEMMA HeldStep == TypeOK /\ Held /\ Apart /\ [Next]_vars => Held' /\ Apart'
<1> SUFFICES ASSUME TypeOK, Held, Apart, [Next]_vars PROVE Held' /\ Apart'
  OBVIOUS
<1> USE DEF TypeOK, Held, Apart, Goto, boxVars
<1>1. CASE Aside
  BY <1>1 DEF Aside
<1>2. ASSUME NEW p \in Procs, TestStep(p) PROVE Held' /\ Apart'
  <2> USE <1>2 DEF Testing, Return, Advance, BoxStages
  <2>1. ASSUME NEW b \in Boxes, Create(p, b) PROVE Held' /\ Apart'
    BY <2>1 DEF Create
  <2>2. CASE Make(p)
    BY <2>2 DEF Make
  <2>3. CASE Launch(p) \/ Retire(p)
    BY <2>3 DEF Launch, Retire
  <2>4. CASE Destroy(p)
    BY <2>4 DEF Destroy
  <2>5. CASE List(p) \/ StopUnits(p) \/ DisableUnits(p) \/ Refresh(p)
    BY <2>5 DEF List, StopUnits, DisableUnits, FailsUnheard, Refresh
  <2>6. CASE RemoveDir(p)
    BY <2>6 DEF RemoveDir
  <2>7. CASE CommandLost(p)
    BY <2>7 DEF CommandLost
  <2> QED
    BY <2>1, <2>2, <2>3, <2>4, <2>5, <2>6, <2>7 DEF TestStep
<1>3. ASSUME NEW p \in Procs, Restart(p) PROVE Held' /\ Apart'
  BY <1>3 DEF Restart
<1> QED
  BY <1>1, <1>2, <1>3, Steps

\* While one process makes a sandbox, the others change the fate of their own only.
LEMMA MakingStep == TypeOK /\ Held /\ Apart /\ Making /\ [Next]_vars => Making'
<1> SUFFICES ASSUME TypeOK, Held, Apart, Making, [Next]_vars,
                    NEW q \in Procs, pc'[q] = "make"
             PROVE  fate'[box'[q]] = "open"
  BY DEF Making
<1>1. CASE Aside
  BY <1>1 DEF Aside, Making, BoxStages, boxVars
<1>2. \A r \in Procs : pc[r] \in BoxStages => box[r] \in Boxes
  BY SandboxAssumption DEF TypeOK
<1>3. ASSUME NEW p \in Procs, p # q, pc[q] = "make",
             UNCHANGED fate \/ \E r : fate' = [fate EXCEPT ![box[p]] = r],
             pc[p] \in BoxStages, box'[q] = box[q]
      PROVE  fate'[box'[q]] = "open"
  <2>1. box[p] \in Boxes /\ box[q] \in Boxes /\ box[q] # box[p]
    BY <1>2, <1>3, SandboxAssumption DEF Apart, BoxStages
  <2>2. fate[box[q]] = "open"
    BY <1>3 DEF Making
  <2> QED
    BY <1>3, <2>1, <2>2 DEF TypeOK
<1>4. ASSUME NEW p \in Procs, TestStep(p) PROVE fate'[box'[q]] = "open"
  <2> USE <1>4 DEF TypeOK, HostTypeOK, Goto
  <2>1. ASSUME NEW b \in Boxes, Create(p, b) PROVE fate'[box'[q]] = "open"
    BY <2>1 DEF Create, Testing, Making, Held, BoxStages
  <2>2. CASE Make(p) \/ RemoveDir(p) \/ CommandLost(p)
    <3>1. p # q /\ pc[q] = "make" /\ pc[p] \in BoxStages /\ box'[q] = box[q]
      BY <2>2 DEF Make, RemoveDir, CommandLost, Return, BoxStages
    <3>2. \E r : fate' = [fate EXCEPT ![box[p]] = r]
      BY <2>2 DEF Make, RemoveDir, CommandLost, Return
    <3> QED
      BY <1>3, <3>1, <3>2
  <2>3. CASE Launch(p) \/ Retire(p)
    BY <2>3 DEF Launch, Retire, Making, boxVars
  <2>4. CASE Destroy(p)
    <3>1. p # q /\ pc[q] = "make" /\ fate' = fate /\ box'[q] = box[q]
      BY <2>4 DEF Destroy
    <3> QED
      BY <3>1 DEF Making
  <2>5. CASE List(p) \/ StopUnits(p) \/ DisableUnits(p) \/ Refresh(p)
    <3>1. p # q /\ pc[q] = "make" /\ pc[p] \in BoxStages /\ box'[q] = box[q]
      BY <2>5 DEF List, StopUnits, DisableUnits, Refresh, FailsUnheard, Advance, Pass, BoxStages
    <3>2. UNCHANGED fate \/ \E r : fate' = [fate EXCEPT ![box[p]] = r]
      BY <2>5 DEF List, StopUnits, DisableUnits, Refresh, FailsUnheard, Advance
    <3> QED
      BY <1>3, <3>1, <3>2
  <2> QED
    BY <2>1, <2>2, <2>3, <2>4, <2>5 DEF TestStep
<1>5. ASSUME NEW p \in Procs, Restart(p) PROVE fate'[box'[q]] = "open"
  <2>1. p # q /\ pc[q] = "make" /\ box'[q] = box[q]
        /\ fate' = [b \in Boxes |-> IF b \in {current[p], box[p]} THEN "lost" ELSE fate[b]]
    BY <1>5 DEF Restart, Goto, TypeOK, HostTypeOK
  <2>2. box[q] \in Boxes /\ box[q] # box[p] /\ box[q] # current[p]
    BY <1>2, <2>1, SandboxAssumption DEF Apart, BoxStages
  <2> QED
    BY <2>1, <2>2 DEF Making
<1> QED
  BY <1>1, <1>4, <1>5, Steps

\* A container without a user manager that is up has no units.
LEMMA ContainedStep ==
  TypeOK /\ Held /\ Making /\ Contained /\ TakenDown /\ [Next]_vars => Contained'
<1> SUFFICES ASSUME TypeOK, Held, Making, Contained, TakenDown, [Next]_vars, backend' = "docker"
             PROVE  Contained'
  BY DEF Contained
<1> USE DEF TypeOK, HostTypeOK, Contained, TakenDown, Goto, Reached, guestVars, boxVars,
            BoxStages, EnsureStages, DockerStages, ColimaStages
<1>1. ASSUME NEW p \in Procs, EnsureStep(p), UNCHANGED boxVars PROVE Contained'
  <2> USE <1>1 DEF Pass, SettleEnsure
  <2>1. CASE Ensure(p)
    BY <2>1 DEF Ensure
  <2>2. CASE Build(p) \/ Inspect(p) \/ LookupUser(p) \/ StartSession(p) \/ MakeTestsDir(p)
    BY <2>2 DEF Build, Inspect, LookupUser, StartSession, MakeTestsDir
  <2>3. CASE RemoveExisting(p) \/ RunContainer(p) \/ Status(p) \/ StartVM(p)
    BY <2>3 DEF RemoveExisting, RunContainer, Status, StartVM
  <2>4. CASE RunFails(p) \/ ProbeReady(p) \/ ProbeAgain(p) \/ EnsureFails(p)
    BY <2>4 DEF RunFails, ProbeReady, ProbeAgain, EnsureFails
  <2> QED
    BY <2>1, <2>2, <2>3, <2>4 DEF EnsureStep
<1>2. ASSUME NEW p \in Procs, TestStep(p) PROVE Contained'
  <2> USE <1>2 DEF Testing, Return, Advance, Pass
  <2>1. ASSUME NEW b \in Boxes, Create(p, b) PROVE Contained'
    BY <2>1 DEF Create
  <2>2. CASE Make(p)
    BY <2>2 DEF Make, Making
  <2>3. CASE RemoveDir(p) \/ CommandLost(p)
    BY <2>3 DEF RemoveDir, CommandLost, Held
  <2>4. CASE Launch(p) \/ Retire(p)
    BY <2>4 DEF Launch, Retire
  <2>5. CASE Destroy(p)
    BY <2>5 DEF Destroy
  <2>6. CASE List(p) \/ StopUnits(p)
    BY <2>6 DEF List, StopUnits, FailsUnheard
  <2>7. CASE DisableUnits(p) \/ Refresh(p)
    BY <2>7 DEF DisableUnits, FailsUnheard, Refresh, Held
  <2> QED
    BY <2>1, <2>2, <2>3, <2>4, <2>5, <2>6, <2>7 DEF TestStep
<1>3. ASSUME NEW p \in Procs, Restart(p) PROVE Contained'
  BY <1>3 DEF Restart
<1>4. CASE HostNext /\ UNCHANGED boxVars
  BY <1>4 DEF HostNext, Boot, UserManagerUp, HostStops, Settle
<1>5. ASSUME NEW b \in Boxes, UnitExits(b) PROVE Contained'
  BY <1>5 DEF UnitExits
<1>6. CASE UNCHANGED vars
  BY <1>6 DEF vars, hostVars
<1> QED
  BY <1>1, <1>2, <1>3, <1>4, <1>5, <1>6 DEF Next

\* While one process takes a sandbox down, the others start only their own.
LEMMA TakenDownStep ==
  TypeOK /\ Held /\ Apart /\ Contained /\ TakenDown /\ [Next]_vars => TakenDown'
<1> SUFFICES ASSUME TypeOK, Held, Apart, Contained, TakenDown, [Next]_vars
             PROVE  TakenDown'
  OBVIOUS
<1> USE DEF TypeOK, HostTypeOK, Contained, TakenDown, Goto, BoxStages, guestVars, boxVars
<1>1. CASE Aside
  BY <1>1 DEF Aside
<1>2. ASSUME NEW p \in Procs, TestStep(p) PROVE TakenDown'
  <2> USE <1>2 DEF Testing, Return, Advance, Pass, Reached
  <2>1. ASSUME NEW b \in Boxes, Create(p, b) PROVE TakenDown'
    BY <2>1 DEF Create, Held
  <2>2. CASE Make(p) \/ RemoveDir(p) \/ CommandLost(p)
    BY <2>2 DEF Make, RemoveDir, CommandLost, Apart
  <2>3. CASE Launch(p)
    BY <2>3 DEF Launch, Apart
  <2>4. CASE Retire(p)
    BY <2>4 DEF Retire
  <2>5. CASE Destroy(p)
    BY <2>5 DEF Destroy
  <2>6. CASE List(p)
    BY <2>6 DEF List, Found, FailsUnheard
  <2>7. CASE StopUnits(p)
    BY <2>7 DEF StopUnits, FailsUnheard
  <2>8. CASE DisableUnits(p)
    BY <2>8 DEF DisableUnits, FailsUnheard
  <2>9. CASE Refresh(p)
    BY <2>9 DEF Refresh
  <2> QED
    BY <2>1, <2>2, <2>3, <2>4, <2>5, <2>6, <2>7, <2>8, <2>9 DEF TestStep
<1>3. ASSUME NEW p \in Procs, Restart(p) PROVE TakenDown'
  BY <1>3 DEF Restart
<1> QED
  BY <1>1, <1>2, <1>3, Steps

\* A closed sandbox stays gone, and one is closed only when it is gone.
LEMMA GoneStep == Inv /\ [Next]_vars => DestroyedIsGone'
<1> SUFFICES ASSUME Inv, [Next]_vars PROVE DestroyedIsGone'
  OBVIOUS
<1> USE DEF Inv, TypeOK, Held, DestroyedIsGone, Goto, guestVars, boxVars
<1>1. CASE Aside
  BY <1>1 DEF Aside
<1>2. ASSUME NEW p \in Procs, TestStep(p) PROVE DestroyedIsGone'
  <2> USE <1>2 DEF Testing, Return, Advance, Pass, BoxStages
  <2>1. ASSUME NEW b \in Boxes, Create(p, b) PROVE DestroyedIsGone'
    BY <2>1 DEF Create
  <2>2. CASE Make(p)
    BY <2>2 DEF Make
  <2>3. CASE Launch(p) \/ Retire(p)
    BY <2>3 DEF Launch, Retire
  <2>4. CASE Destroy(p)
    BY <2>4 DEF Destroy
  <2>5. CASE List(p) \/ StopUnits(p) \/ DisableUnits(p) \/ Refresh(p)
    BY <2>5 DEF List, StopUnits, DisableUnits, FailsUnheard, Refresh
  <2>6. CASE RemoveDir(p)
    BY <2>6 DEF RemoveDir, Contained, TakenDown
  <2>7. CASE CommandLost(p)
    BY <2>7 DEF CommandLost
  <2> QED
    BY <2>1, <2>2, <2>3, <2>4, <2>5, <2>6, <2>7 DEF TestStep
<1>3. ASSUME NEW p \in Procs, Restart(p) PROVE DestroyedIsGone'
  BY <1>3 DEF Restart
<1> QED
  BY <1>1, <1>2, <1>3, Steps DEF Inv

-----------------------------------------------------------------------------
\* The invariant holds at first: nothing is there and nobody holds anything.
LEMMA InvInit == Init => Inv
<1> SUFFICES ASSUME Init PROVE Inv
  OBVIOUS
<1> USE DEF Init, HostInit
<1>1. HostTypeOK
  <2>1. 0 \in 0 .. Attempts - 1
    BY TestHostAssumption
  <2> QED
    BY <2>1 DEF HostTypeOK
<1>2. TypeOK
  BY <1>1, SandboxAssumption DEF TypeOK, Fates, BoxStages
<1>3. Held /\ Making /\ Apart
  BY DEF Held, Making, Apart
<1>4. Contained /\ TakenDown /\ DestroyedIsGone
  BY DEF Contained, TakenDown, DestroyedIsGone, ColimaStages
<1> QED
  BY <1>2, <1>3, <1>4 DEF Inv

LEMMA InvStep == Inv /\ [Next]_vars => Inv'
BY TypeStep, HeldStep, MakingStep, ContainedStep, TakenDownStep, GoneStep DEF Inv

LEMMA InvCorrect == Spec => []Inv
<1>1. Init => Inv
  BY InvInit
<1>2. Inv /\ [Next]_vars => Inv'
  BY InvStep
<1> QED
  BY <1>1, <1>2, PTL DEF Spec

\* What the variables hold, and that a process is in a stage of a sandbox call when,
\* and only when, it has a sandbox to work on (sandbox.ts).
THEOREM TypeCorrect == Spec => []TypeOK
<1>1. Inv => TypeOK
  BY DEF Inv
<1> QED
  BY <1>1, InvCorrect, PTL

\* The sandbox a test uses has its directory, for any number of processes that
\* die, of hosts that go away and of commands that are lost (sandbox.ts).
THEOREM CurrentCorrect == Spec => []CurrentExists
<1>1. Inv => CurrentExists
  BY DEF Inv, Held, CurrentExists
<1> QED
  BY <1>1, InvCorrect, PTL

\* The directory of a sandbox destroyCurrentTestSandbox() has taken down without an
\* error is gone, and so is its unit if no systemctl failed unheard; both stay gone,
\* whatever other processes do to the host.
THEOREM DestroyedCorrect == Spec => []DestroyedIsGone
<1>1. Inv => DestroyedIsGone
  BY DEF Inv
<1> QED
  BY <1>1, InvCorrect, PTL
=============================================================================
