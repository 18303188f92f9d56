------------------------------- MODULE Sandbox -------------------------------
(***************************************************************************)
(* sandbox.ts over the test host: every test of a process gets a sandbox,  *)
(* a directory on the host and units named after it, and takes it down     *)
(* when it is over.  The directory lies in a volume that outlives the      *)
(* container.  A test links and starts a unit, and may stop and unlink it. *)
(*                                                                         *)
(* Each await of createTestSandbox() and destroyCurrentTestSandbox() is a  *)
(* command in the guest.  One that does not come through is thrown to the  *)
(* test; what systemctl reports inside it is ignored (|| true), so a list  *)
(* that fails finds no unit, and a stop or a disable that fails leaves it. *)
(***************************************************************************)
EXTENDS TestHost

CONSTANT NoBox

VARIABLES
  dirs,      \* sandboxes whose directory exists
  current,   \* current[p]: currentSandbox of p, or NoBox
  box,       \* box[p]: the sandbox a call of p works on, or NoBox
  fate       \* fate[b]: what became of sandbox b

boxVars == <<dirs, current, box, fate>>
vars == <<hostVars, boxVars>>

ASSUME SandboxAssumption == NoBox \notin Boxes

\* A sandbox is kept, and left in the end, if systemctl failed unheard to take down a
\* unit of it.
Fates == {"unused", "open", "kept", "closed", "left", "lost"}

TypeOK ==
  /\ HostTypeOK
  /\ dirs \in SUBSET Boxes
  /\ current \in [Procs -> Boxes \cup {NoBox}]
  /\ box \in [Procs -> Boxes \cup {NoBox}]
  /\ fate \in [Boxes -> Fates]
  /\ \A p \in Procs : pc[p] \in BoxStages <=> box[p] # NoBox

Init ==
  /\ HostInit
  /\ dirs = {}
  /\ current = [p \in Procs |-> NoBox]
  /\ box = [p \in Procs |-> NoBox]
  /\ fate = [b \in Boxes |-> "unused"]

\* A test of p is running its own code.
Testing(p) == pc[p] = "idle" /\ ensured[p] = "ready"

\* Mutant of Return: the call's sandbox is not forgotten.
Return_KeepsBox(p, result) ==
  /\ Goto(p, "idle")
  /\ fate' = [fate EXCEPT ![box[p]] = result]
  /\ UNCHANGED <<backend, calm, ensured, tries, box>>

\* The call of p is over.
Return(p, result) ==
  /\ Goto(p, "idle")
  /\ fate' = [fate EXCEPT ![box[p]] = result]
  /\ box' = [box EXCEPT ![p] = NoBox]
  /\ UNCHANGED <<backend, calm, ensured, tries>>

\* A guest command of p has come through, and the next is to follow.
Advance(p, from, to) ==
  /\ Reached
  /\ Pass(p, from, to)
  /\ UNCHANGED <<host, manager, current, box, fate>>

-----------------------------------------------------------------------------
\* Mutant of Create: the sandbox is current before it is made.
Create_Early(p, b) ==
  /\ Testing(p)
  /\ current[p] = NoBox
  /\ fate[b] = "unused"
  /\ Goto(p, "make")
  /\ box' = [box EXCEPT ![p] = b]
  /\ current' = [current EXCEPT ![p] = b]
  /\ fate' = [fate EXCEPT ![b] = "open"]
  /\ UNCHANGED <<backend, guestVars, calm, ensured, tries, dirs>>

\* createTestSandbox(): the id is fresh.  No sandbox is open: the previous test
\* gave up its own, whether or not it came down.
Create(p, b) ==
  /\ Testing(p)
  /\ current[p] = NoBox
  /\ fate[b] = "unused"
  /\ Goto(p, "make")
  /\ box' = [box EXCEPT ![p] = b]
  /\ fate' = [fate EXCEPT ![b] = "open"]
  /\ UNCHANGED <<backend, guestVars, calm, ensured, tries, dirs, current>>

Make(p) ==
  /\ pc[p] = "make"
  /\ Reached
  /\ dirs' = dirs \cup {box[p]}
  /\ current' = [current EXCEPT ![p] = box[p]]
  /\ Return(p, "open")
  /\ UNCHANGED guestVars

\* The test links its unit and starts it, or stops it and removes the link.
Launch(p) ==
  /\ Testing(p)
  /\ current[p] # NoBox
  /\ Reached
  /\ manager = "up"
  /\ linked' = linked \cup {current[p]}
  /\ running' = running \cup {current[p]}
  /\ UNCHANGED <<backend, host, manager, calm, pc, ensured, tries, boxVars>>

Retire(p) ==
  /\ Testing(p)
  /\ current[p] \in linked
  /\ Reached
  /\ manager = "up"
  /\ linked' = linked \ {current[p]}
  /\ running' = running \ {current[p]}
  /\ UNCHANGED <<backend, host, manager, calm, pc, ensured, tries, boxVars>>

-----------------------------------------------------------------------------
\* destroyCurrentTestSandbox() forgets the sandbox before it starts.
Destroy(p) ==
  /\ Testing(p)
  /\ current[p] # NoBox
  /\ box' = [box EXCEPT ![p] = current[p]]
  /\ current' = [current EXCEPT ![p] = NoBox]
  /\ Goto(p, "list")
  /\ UNCHANGED <<backend, guestVars, calm, ensured, tries, dirs, fate>>

\* Mutant of Found: units are looked up among those that run.
Found_Running(p) == manager = "up" /\ box[p] \in running

\* list-unit-files knows linked units, and nothing without a user manager.
Found(p) == manager = "up" /\ box[p] \in linked

\* A systemctl command that would have taken down a unit fails, and nobody hears of it.
FailsUnheard(p, from, to) ==
  /\ ~calm
  /\ Reached
  /\ manager = "up"
  /\ Pass(p, from, to)
  /\ fate' = [fate EXCEPT ![box[p]] = "kept"]
  /\ UNCHANGED <<guestVars, dirs, current, box>>

List(p) ==
  \/ /\ Advance(p, "list", IF Found(p) THEN "stop" ELSE "reload")
     /\ UNCHANGED <<linked, running, dirs>>
  \/ box[p] \in linked /\ FailsUnheard(p, "list", "reload")

StopUnits(p) ==
  \/ /\ Advance(p, "stop", "disable")
     /\ running' = IF manager = "up" THEN running \ {box[p]} ELSE running
     /\ UNCHANGED <<linked, dirs>>
  \/ box[p] \in running /\ FailsUnheard(p, "stop", "disable")

DisableUnits(p) ==
  \/ /\ Advance(p, "disable", "reset")
     /\ linked' = IF manager = "up" THEN linked \ {box[p]} ELSE linked
     /\ UNCHANGED <<running, dirs>>
  \/ box[p] \in linked /\ FailsUnheard(p, "disable", "reset")

\* reset-failed and daemon-reload.
Refresh(p) ==
  /\ Advance(p, "reset", "reload") \/ Advance(p, "reload", "rmdir")
  /\ UNCHANGED <<linked, running, dirs>>

RemoveDir(p) ==
  /\ pc[p] = "rmdir"
  /\ Reached
  /\ dirs' = dirs \ {box[p]}
  /\ Return(p, IF fate[box[p]] = "kept" THEN "left" ELSE "closed")
  /\ UNCHANGED <<guestVars, current>>

\* A command does not come through: it, or what it does, may have been lost.
CommandLost(p) ==
  /\ pc[p] \in BoxStages
  /\ ~Reached \/ ~calm
  /\ Return(p, "lost")
  /\ \/ UNCHANGED dirs
     \/ Reached /\ pc[p] = "make" /\ dirs' = dirs \cup {box[p]}
     \/ Reached /\ pc[p] = "rmdir" /\ dirs' = dirs \ {box[p]}
  /\ UNCHANGED <<guestVars, current>>

-----------------------------------------------------------------------------
\* The process ends, at any time, and is run again with fresh variables.
Restart(p) ==
  /\ ~calm \/ (pc[p] = "idle" /\ current[p] = NoBox)
  /\ ensured[p] # "none"
  /\ Goto(p, "idle")
  /\ ensured' = [ensured EXCEPT ![p] = "none"]
  /\ tries' = [tries EXCEPT ![p] = 0]
  /\ current' = [current EXCEPT ![p] = NoBox]
  /\ box' = [box EXCEPT ![p] = NoBox]
  /\ fate' = [b \in Boxes |->
       IF b \in {current[p], box[p]} THEN "lost" ELSE fate[b]]
  /\ UNCHANGED <<backend, guestVars, calm, dirs>>

UnitExits(b) ==
  /\ b \in running
  /\ running' = running \ {b}
  /\ UNCHANGED <<backend, host, manager, linked, calm, pc, ensured, tries, boxVars>>

TestStep(p) ==
  \/ \E b \in Boxes : Create(p, b)
  \/ Make(p) \/ Launch(p) \/ Retire(p) \/ Destroy(p)
  \/ List(p) \/ StopUnits(p) \/ DisableUnits(p) \/ Refresh(p) \/ RemoveDir(p)
  \/ CommandLost(p)

Next ==
  \/ \E p \in Procs : (EnsureStep(p) /\ UNCHANGED boxVars) \/ TestStep(p) \/ Restart(p)
  \/ HostNext /\ UNCHANGED boxVars
  \/ \E b \in Boxes : UnitExits(b)

Spec == Init /\ [][Next]_vars

\* The command p waits for returns, or its test ends: what p does, or has done, sooner
\* or later, of which only one thing is possible at a time.
Proceed(p) ==
  \/ EnsureStep(p) /\ UNCHANGED boxVars
  \/ pc[p] # "idle" /\ TestStep(p)
  \/ Destroy(p)

\* Commands return, tests and processes end, the processes are run again, and
\* failures cease.  Nothing makes a host come up.
Fairness ==
  /\ WF_vars(Settle /\ UNCHANGED boxVars)
  /\ \A p \in Procs : WF_vars(Proceed(p)) /\ WF_vars(Restart(p))

FairSpec == Spec /\ Fairness

-----------------------------------------------------------------------------
\* The sandbox a test is using has its directory, though commands get lost,
\* processes die and hosts are replaced.
CurrentExists == \A p \in Procs : current[p] # NoBox => current[p] \in dirs

\* A sandbox that was destroyed without an error has no directory.  In a container,
\* which is replaced and never started again, it left no unit either, however the
\* host and the user manager came and went, unless systemctl failed to list, stop or
\* disable it: such a failure goes unheard, and the unit stays.
DestroyedIsGone ==
  \A b \in Boxes :
    /\ fate[b] \in {"closed", "left"} => b \notin dirs
    /\ backend = "docker" /\ fate[b] = "closed" => b \notin linked \cup running

\* The promise of ensureTestHost() never stays pending: it settles, also when the
\* user manager never gets up.
EnsureSettles == \A p \in Procs : []<>(ensured[p] # "pending")

\* Once failures cease, processes get a ready host again and again, unless its
\* init or user manager never gets up, or they keep removing each other's: one
\* finds no host, another starts it, and the first removes it and starts its own.
HostComesUp ==
  \A p \in Procs :
    \/ []<>(ensured[p] = "ready" /\ manager = "up")
    \/ <>[](manager \in {"booting", "starting"})
    \/ []<>(\E q \in Procs : pc[q] = "remove" /\ Reached)
=============================================================================
