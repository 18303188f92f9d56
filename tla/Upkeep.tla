------------------------------- MODULE Upkeep --------------------------------
(***************************************************************************)
(* SystemdTs.attach, reattach and detach: an application keeps the set of  *)
(* units it owns in step with a manifest file, one awaited command or file *)
(* operation per step.  Several applications, each with calls of its own,  *)
(* work on one unit directory and one manager.                             *)
(*                                                                         *)
(* A call walks through its stages (pc), skipping those its options turn   *)
(* off.  A loop over units takes them in any order; the code uses array    *)
(* order.  A stage can fail: commands run by SystemdTs itself throw out of *)
(* the call (outcome "rejected"), those run by Systemd come back as a      *)
(* Result (outcome "err").  Nothing done before a failure is undone.  A    *)
(* read that fails is no failure of the call: it counts as no file.        *)
(***************************************************************************)
EXTENDS Manager

CONSTANTS
  Apps,      \* processes that use systemd-ts
  Owners,    \* values of options.owner
  OwnerOf,   \* OwnerOf[a]: the owner a passes in every call
  Requests,  \* Requests[a]: the calls a makes
  Faulty,    \* commands may fail without cause and processes may die
  Unreadable \* meanwhile, files that exist may fail to be read as well

VARIABLES
  manifest,  \* manifest[o]: units in o's manifest, {} if missing or torn
  calm,      \* from now on no spontaneous failures and no crashes
  pc,        \* pc[a]: the stage of a's call
  req,       \* req[a]: a's current call, or its last one
  prior,     \* prior[a]: what that call read from the manifest
  updated,   \* updated[a]: units that call found changed on disk
  todo,      \* todo[a]: units the current loop has still to visit
  links,     \* links[a]: paths prepareUnits() has still to link
  at,        \* at[a]: the unit being written or started, or Nobody
  outcome    \* outcome[a]: how a's last call ended, None while it runs

callVars == <<pc, req, prior, updated, todo, links, at, outcome>>
vars == <<mgrVars, manifest, calm, callVars>>

Nobody  == "nobody"
None    == "none"
Invalid == "invalid"   \* a unit that does not render

Wants == UNION {[S -> Versions \cup {Invalid}] : S \in SUBSET Units}

\* The options of the three calls; prune is deleteUnitFiles for a detach.
Request ==
  [op : {"attach", "reattach", "detach"}, want : Wants,
   enable : BOOLEAN, start : BOOLEAN, restart : BOOLEAN,
   stop : BOOLEAN, disable : BOOLEAN, prune : BOOLEAN]

ASSUME UpkeepAssumption ==
  /\ OwnerOf \in [Apps -> Owners]
  /\ Requests \in [Apps -> SUBSET Request]
  /\ Faulty \in BOOLEAN
  /\ Unreadable \in BOOLEAN
  /\ Nobody \notin Units
  /\ Invalid \notin Versions
  /\ \A a \in Apps : \A r \in Requests[a] :
       /\ r.op = "detach" => DOMAIN r.want = {}
       /\ r.op = "attach" => ~r.restart

Stages ==
  {"idle", "read", "compare", "stop", "disable", "prune", "refresh", "write",
   "fill", "collect", "link", "enable", "restart", "begin", "start", "show",
   "truncate", "record", "forget"}

Outcomes == {None, "ok", "err", "rejected", "crashed"}

TypeOK ==
  /\ ManagerTypeOK
  /\ manifest \in [Owners -> SUBSET Units]
  /\ calm \in BOOLEAN
  /\ pc \in [Apps -> Stages]
  /\ req \in [Apps -> Request]
  /\ prior \in [Apps -> SUBSET Units]
  /\ updated \in [Apps -> SUBSET Units]
  /\ todo \in [Apps -> SUBSET Units]
  /\ links \in [Apps -> SUBSET Units]
  /\ at \in [Apps -> Units \cup {Nobody}]
  /\ outcome \in [Apps -> Outcomes]

-----------------------------------------------------------------------------
Wanted(a) == DOMAIN req[a].want

\* Mutants of Gone: whatever lies in the unit directory; retained units as well.
Gone_Directory(a) == {u \in Units : files[u] # Absent} \ Wanted(a)
Gone_Retained(a) == prior[a]

\* diff.removed: units of the prior manifest that the call no longer wants.
Gone(a) == prior[a] \ Wanted(a)

\* Mutant of Refused: units that do not render are not noticed.
Refused_EmptyOnly(r) == r.op # "detach" /\ DOMAIN r.want = {}

\* A request that attach or reattach turns down before it touches anything.
Refused(r) ==
  /\ r.op # "detach"
  /\ DOMAIN r.want = {} \/ \E u \in DOMAIN r.want : r.want[u] = Invalid

NoCall ==
  [op |-> "detach", want |-> [u \in {} |-> Invalid], enable |-> FALSE,
   start |-> FALSE, restart |-> FALSE, stop |-> FALSE, disable |-> FALSE,
   prune |-> FALSE]

Init ==
  /\ ManagerInit
  /\ manifest = [o \in Owners |-> {}]
  /\ calm = ~Faulty
  /\ pc = [a \in Apps |-> "idle"]
  /\ req = [a \in Apps |-> NoCall]
  /\ prior = [a \in Apps |-> {}]
  /\ updated = [a \in Apps |-> {}]
  /\ todo = [a \in Apps |-> {}]
  /\ links = [a \in Apps |-> {}]
  /\ at = [a \in Apps |-> Nobody]
  /\ outcome = [a \in Apps |-> None]

Goto(a, stage) == pc' = [pc EXCEPT ![a] = stage]
Loop(a, stage, S) == Goto(a, stage) /\ todo' = [todo EXCEPT ![a] = S]
Visited(a, u) == todo' = [todo EXCEPT ![a] = @ \ {u}]

\* The call is over; its request and diff stay known to the caller.
Return(a, result) ==
  /\ Goto(a, "idle")
  /\ outcome' = [outcome EXCEPT ![a] = result]
  /\ todo' = [todo EXCEPT ![a] = {}]
  /\ links' = [links EXCEPT ![a] = {}]
  /\ at' = [at EXCEPT ![a] = Nobody]
  /\ UNCHANGED <<req, prior, updated>>

-----------------------------------------------------------------------------
(***************************************************************************)
(* The call, the manifest it reads and the diff against the files on disk. *)
(***************************************************************************)
Call(a, r) ==
  /\ pc[a] = "idle"
  /\ req' = [req EXCEPT ![a] = r]
  /\ prior' = [prior EXCEPT ![a] = {}]
  /\ updated' = [updated EXCEPT ![a] = {}]
  /\ outcome' = [outcome EXCEPT ![a] = IF Refused(r) THEN "err" ELSE None]
  /\ Goto(a, IF Refused(r) THEN "idle" ELSE "read")
  /\ UNCHANGED <<mgrVars, manifest, calm, todo, links, at>>

ReadsFail == Unreadable /\ ~calm

\* What readManifest() comes back with: the manifest, or nothing if it is missing,
\* torn, or cannot be read.
Sights(a) == {manifest[OwnerOf[a]]} \cup (IF ReadsFail THEN {{}} ELSE {})

\* detach has nothing to do when it finds no manifest.
ReadNothing(a) ==
  /\ pc[a] = "read"
  /\ req[a].op = "detach"
  /\ {} \in Sights(a)
  /\ Return(a, "ok")
  /\ UNCHANGED <<mgrVars, manifest, calm>>

ReadManifest(a) ==
  /\ pc[a] = "read"
  /\ \E found \in Sights(a) :
       /\ req[a].op = "detach" => found # {}
       /\ prior' = [prior EXCEPT ![a] = found]
       /\ Loop(a, IF req[a].op = "detach" THEN "stop" ELSE "compare",
                  Wanted(a) \cap found)
  /\ UNCHANGED <<mgrVars, manifest, calm, req, updated, links, at, outcome>>

\* A unit of the prior manifest whose file is missing, or cannot be read, counts
\* as added.
CompareUnit(a, u) ==
  /\ pc[a] = "compare"
  /\ u \in todo[a]
  /\ \/ updated' = [updated EXCEPT ![a] =
            IF files[u] \in {Absent, req[a].want[u]} THEN @ ELSE @ \cup {u}]
     \/ ReadsFail /\ UNCHANGED updated
  /\ Visited(a, u)
  /\ UNCHANGED <<mgrVars, manifest, calm, pc, req, prior, links, at, outcome>>

Compared(a) ==
  /\ pc[a] = "compare"
  /\ todo[a] = {}
  /\ IF req[a].op = "attach" THEN Loop(a, "write", Wanted(a))
                             ELSE Loop(a, "stop", {})
  /\ UNCHANGED <<mgrVars, manifest, calm, req, prior, updated, links, at, outcome>>

-----------------------------------------------------------------------------
(***************************************************************************)
(* Taking down the units that are gone: all of them for a detach.          *)
(***************************************************************************)
\* Mutant of Stops: a detach leaves units running.
Stops_OnReattach(a) == req[a].stop /\ Gone(a) # {} /\ req[a].op = "reattach"

Stops(a) == req[a].stop /\ Gone(a) # {}
Disables(a) == req[a].disable /\ Gone(a) # {}
Prunes(a) == req[a].prune /\ Gone(a) # {}

StopGone(a) ==
  /\ pc[a] = "stop"
  /\ \/ Stops(a) /\ (\A u \in Gone(a) : ~Missing(u)) /\ StopUnits(Gone(a))
     \/ ~Stops(a) /\ UNCHANGED mgrVars
  /\ Loop(a, "disable", {})
  /\ UNCHANGED <<manifest, calm, req, prior, updated, links, at, outcome>>

DisableGone(a) ==
  /\ pc[a] = "disable"
  /\ \/ Disables(a) /\ DisableUnits(Gone(a))
     \/ ~Disables(a) /\ UNCHANGED mgrVars
  /\ Loop(a, "prune", IF req[a].prune THEN Gone(a) ELSE {})
  /\ UNCHANGED <<manifest, calm, req, prior, updated, links, at, outcome>>

\* rm through the executor and then through the file system: one removal.
PruneUnit(a, u) ==
  /\ pc[a] = "prune"
  /\ u \in todo[a]
  /\ WriteFile(u, Absent)
  /\ Visited(a, u)
  /\ UNCHANGED <<manifest, calm, pc, req, prior, updated, links, at, outcome>>

Pruned(a) ==
  /\ pc[a] = "prune"
  /\ todo[a] = {}
  /\ Loop(a, "refresh", {})
  /\ UNCHANGED <<mgrVars, manifest, calm, req, prior, updated, links, at, outcome>>

ReloadPruned(a) ==
  /\ pc[a] = "refresh"
  /\ \/ Prunes(a) /\ Reload
     \/ ~Prunes(a) /\ UNCHANGED mgrVars
  /\ IF req[a].op = "detach" THEN Loop(a, "forget", {})
                             ELSE Loop(a, "write", Wanted(a))
  /\ UNCHANGED <<manifest, calm, req, prior, updated, links, at, outcome>>

Forget(a) ==
  /\ pc[a] = "forget"
  /\ manifest' = [manifest EXCEPT ![OwnerOf[a]] = {}]
  /\ Return(a, "ok")
  /\ UNCHANGED <<mgrVars, calm>>

-----------------------------------------------------------------------------
(***************************************************************************)
(* Systemd.materialize: every wanted unit is written, changed or not, and  *)
(* writeFile() truncates a file before it fills it.                        *)
(***************************************************************************)
TruncateUnit(a, u) ==
  /\ pc[a] = "write"
  /\ u \in todo[a]
  /\ WriteFile(u, Torn)
  /\ at' = [at EXCEPT ![a] = u]
  /\ Goto(a, "fill")
  /\ UNCHANGED <<manifest, calm, req, prior, updated, todo, links, outcome>>

FillUnit(a) ==
  /\ pc[a] = "fill"
  /\ WriteFile(at[a], req[a].want[at[a]])
  /\ Visited(a, at[a])
  /\ at' = [at EXCEPT ![a] = Nobody]
  /\ Goto(a, "write")
  /\ UNCHANGED <<manifest, calm, req, prior, updated, links, outcome>>

\* Mutant of Materialized: the call goes on before everything is written.
Materialized_Early(a) ==
  /\ pc[a] = "write"
  /\ Goto(a, IF req[a].enable THEN "collect" ELSE "restart")
  /\ UNCHANGED <<mgrVars, manifest, calm, req, prior, updated, todo, links, at, outcome>>

Materialized(a) ==
  /\ pc[a] = "write"
  /\ todo[a] = {}
  /\ Goto(a, IF req[a].enable THEN "collect" ELSE "restart")
  /\ UNCHANGED <<mgrVars, manifest, calm, req, prior, updated, todo, links, at, outcome>>

-----------------------------------------------------------------------------
(***************************************************************************)
(* Systemd.prepareUnits, for a batch to enable or for the one unit to      *)
(* start: link what is not on the search path, then daemon-reload.         *)
(***************************************************************************)
Batch(a) == IF at[a] = Nobody THEN Wanted(a) ELSE {at[a]}

\* The units the timers of the batch trigger, as far as fileExists() sees a file.
Targets(a) == {t \in UNION {Target[u] : u \in Batch(a)} : files[t] # Absent}
SeenTargets(a) == IF ReadsFail THEN SUBSET Targets(a) ELSE {Targets(a)}

\* Mutant of CollectLinkPaths: only the units a timer triggers are linked.
CollectLinkPaths_TargetsOnly(a) ==
  /\ pc[a] = "collect"
  /\ \E T \in SeenTargets(a) :
       links' = [links EXCEPT ![a] = IF LinkUnits THEN T ELSE {}]
  /\ Goto(a, "link")
  /\ UNCHANGED <<mgrVars, manifest, calm, req, prior, updated, todo, at, outcome>>

CollectLinkPaths(a) ==
  /\ pc[a] = "collect"
  /\ \E T \in SeenTargets(a) :
       links' = [links EXCEPT ![a] = IF LinkUnits THEN Batch(a) \cup T ELSE {}]
  /\ Goto(a, "link")
  /\ UNCHANGED <<mgrVars, manifest, calm, req, prior, updated, todo, at, outcome>>

LinkPath(a, u) ==
  /\ pc[a] = "link"
  /\ u \in links[a]
  /\ LinkUnit(u)
  /\ links' = [links EXCEPT ![a] = @ \ {u}]
  /\ UNCHANGED <<manifest, calm, pc, req, prior, updated, todo, at, outcome>>

\* Mutant of ReloadPrepared: no daemon-reload before enable and start.
ReloadPrepared_NoReload(a) ==
  /\ pc[a] = "link"
  /\ links[a] = {}
  /\ IF at[a] = Nobody THEN Loop(a, "enable", Wanted(a))
                       ELSE Loop(a, "start", todo[a])
  /\ UNCHANGED <<mgrVars, manifest, calm, req, prior, updated, links, at, outcome>>

ReloadPrepared(a) ==
  /\ pc[a] = "link"
  /\ links[a] = {}
  /\ Reload
  /\ IF at[a] = Nobody THEN Loop(a, "enable", Wanted(a))
                       ELSE Loop(a, "start", todo[a])
  /\ UNCHANGED <<manifest, calm, req, prior, updated, links, at, outcome>>

EnableWanted(a, u) ==
  /\ pc[a] = "enable"
  /\ u \in todo[a]
  /\ EnableUnit(u)
  /\ Visited(a, u)
  /\ UNCHANGED <<manifest, calm, pc, req, prior, updated, links, at, outcome>>

Enabled(a) ==
  /\ pc[a] = "enable"
  /\ todo[a] = {}
  /\ Goto(a, "restart")
  /\ UNCHANGED <<mgrVars, manifest, calm, req, prior, updated, todo, links, at, outcome>>

-----------------------------------------------------------------------------
(***************************************************************************)
(* Restarting the updated units (no daemon-reload of its own), starting    *)
(* the others one by one, and recording the new set last.                  *)
(***************************************************************************)
Restarts(a) == req[a].restart /\ updated[a] # {}
Restarted(a) == IF Restarts(a) THEN updated[a] ELSE {}

RestartUpdated(a) ==
  /\ pc[a] = "restart"
  /\ \/ Restarts(a) /\ RestartUnits(updated[a])
     \/ ~Restarts(a) /\ UNCHANGED mgrVars
  /\ Loop(a, "begin", IF req[a].start THEN Wanted(a) \ Restarted(a) ELSE {})
  /\ UNCHANGED <<manifest, calm, req, prior, updated, links, at, outcome>>

BeginStart(a, u) ==
  /\ pc[a] = "begin"
  /\ u \in todo[a]
  /\ at' = [at EXCEPT ![a] = u]
  /\ Goto(a, "collect")
  /\ UNCHANGED <<mgrVars, manifest, calm, req, prior, updated, todo, links, outcome>>

Start(a) ==
  /\ pc[a] = "start"
  /\ StartUnit(at[a])
  /\ Goto(a, "show")
  /\ UNCHANGED <<manifest, calm, req, prior, updated, todo, links, at, outcome>>

ShowStatus(a) ==
  /\ pc[a] = "show"
  /\ Visited(a, at[a])
  /\ at' = [at EXCEPT ![a] = Nobody]
  /\ Goto(a, "begin")
  /\ UNCHANGED <<mgrVars, manifest, calm, req, prior, updated, links, outcome>>

Started(a) ==
  /\ pc[a] = "begin"
  /\ todo[a] = {}
  /\ Goto(a, "truncate")
  /\ UNCHANGED <<mgrVars, manifest, calm, req, prior, updated, todo, links, at, outcome>>

TruncateManifest(a) ==
  /\ pc[a] = "truncate"
  /\ manifest' = [manifest EXCEPT ![OwnerOf[a]] = {}]
  /\ Goto(a, "record")
  /\ UNCHANGED <<mgrVars, calm, req, prior, updated, todo, links, at, outcome>>

\* Mutant of Record: units of the prior manifest stay recorded.
Record_Adds(a) ==
  /\ pc[a] = "record"
  /\ manifest' = [manifest EXCEPT ![OwnerOf[a]] = prior[a] \cup Wanted(a)]
  /\ Return(a, "ok")
  /\ UNCHANGED <<mgrVars, calm>>

Record(a) ==
  /\ pc[a] = "record"
  /\ manifest' = [manifest EXCEPT ![OwnerOf[a]] = Wanted(a)]
  /\ Return(a, "ok")
  /\ UNCHANGED <<mgrVars, calm>>

-----------------------------------------------------------------------------
(***************************************************************************)
(* Failures.  A command fails when the manager cannot do it, or for no     *)
(* cause in sight (no bus, no permission, full disk) until things calm.    *)
(***************************************************************************)
\* runSystemctl, removeManagedUnitPath and the manifest's file operations throw.
StopFails(a) ==
  /\ pc[a] = "stop"
  /\ Stops(a)
  /\ \/ ~calm /\ UNCHANGED mgrVars
     \/ (\E u \in Gone(a) : Doubtful(u)) /\ StopUnits(Gone(a))
  /\ Return(a, "rejected")
  /\ UNCHANGED <<manifest, calm>>

DisableFails(a) ==
  /\ pc[a] = "disable"
  /\ Disables(a)
  /\ ~calm \/ \E u \in Gone(a) : ~Visible(u)
  /\ Return(a, "rejected")
  /\ UNCHANGED <<mgrVars, manifest, calm>>

RestartFails(a) ==
  /\ pc[a] = "restart"
  /\ Restarts(a)
  /\ \/ ~calm /\ UNCHANGED mgrVars
     \/ /\ \E u \in updated[a] : ~Startable(u)
        /\ RestartUnits({u \in updated[a] : Startable(u)})
  /\ Return(a, "rejected")
  /\ UNCHANGED <<manifest, calm>>

FileOrReloadFails(a) ==
  /\ ~calm
  /\ \/ pc[a] = "prune" /\ todo[a] # {}
     \/ pc[a] = "refresh" /\ Prunes(a)
     \/ pc[a] \in {"truncate", "record", "forget"}
  /\ Return(a, "rejected")
  /\ UNCHANGED <<mgrVars, manifest, calm>>

\* What Systemd runs is caught and returned as a typed error.
SystemdErrs(a) ==
  /\ \/ ~calm /\ \/ pc[a] = "write" /\ todo[a] # {}
                 \/ pc[a] \in {"fill", "link", "start", "show"}
                 \/ pc[a] = "enable" /\ todo[a] # {}
     \/ pc[a] = "link" /\ \E u \in links[a] : files[u] = Absent
     \/ pc[a] = "enable" /\ \E u \in todo[a] : ~Visible(u)
     \/ pc[a] = "start" /\ ~Startable(at[a])
  /\ Return(a, "err")
  /\ UNCHANGED <<mgrVars, manifest, calm>>

\* The process dies between two steps; what it already did stays.
Crash(a) ==
  /\ ~calm
  /\ pc[a] # "idle"
  /\ Return(a, "crashed")
  /\ UNCHANGED <<mgrVars, manifest, calm>>

Settle ==
  /\ ~calm
  /\ calm' = TRUE
  /\ UNCHANGED <<mgrVars, manifest, callVars>>

-----------------------------------------------------------------------------
Advance(a) ==
  \/ ReadNothing(a) \/ ReadManifest(a) \/ Compared(a)
  \/ StopGone(a) \/ DisableGone(a) \/ Pruned(a) \/ ReloadPruned(a) \/ Forget(a)
  \/ FillUnit(a) \/ Materialized(a)
  \/ CollectLinkPaths(a) \/ ReloadPrepared(a) \/ Enabled(a)
  \/ RestartUpdated(a) \/ Start(a) \/ ShowStatus(a) \/ Started(a)
  \/ TruncateManifest(a) \/ Record(a)

AdvanceUnit(a, u) ==
  \/ CompareUnit(a, u) \/ PruneUnit(a, u) \/ TruncateUnit(a, u)
  \/ LinkPath(a, u) \/ EnableWanted(a, u) \/ BeginStart(a, u)

Fail(a) ==
  \/ StopFails(a) \/ DisableFails(a) \/ RestartFails(a)
  \/ FileOrReloadFails(a) \/ SystemdErrs(a)

\* One step of a's call.
Step(a) == Advance(a) \/ Fail(a) \/ \E u \in Units : AdvanceUnit(a, u)

Environment ==
  \/ ManagerNext /\ UNCHANGED <<manifest, calm, callVars>>
  \/ Settle

Next ==
  \/ \E a \in Apps : (\E r \in Requests[a] : Call(a, r)) \/ Step(a) \/ Crash(a)
  \/ Environment

Spec == Init /\ [][Next]_vars

\* Commands return, the event loop resumes the call, and callers keep calling.
Fairness ==
  /\ WF_vars(Settle)
  /\ \A a \in Apps : WF_vars(Step(a) \/ \E r \in Requests[a] : Call(a, r))

FairSpec == Spec /\ Fairness
-----------------------------------------------------------------------------
(***************************************************************************)
(* Properties.  They speak about applications that keep to themselves: an  *)
(* owner name and unit names nobody else uses.                             *)
(***************************************************************************)
Names(a) == UNION {DOMAIN r.want : r \in Requests[a]}

Separate(a) ==
  \A b \in Apps \ {a} : OwnerOf[b] # OwnerOf[a] /\ Names(b) \cap Names(a) = {}

Succeeded(a, ops) == pc[a] = "idle" /\ outcome[a] = "ok" /\ req[a].op \in ops

\* An attach or reattach that reported success left its owner's manifest
\* naming the requested units, each with the requested text on disk: for every
\* failure and crash of earlier calls, and whatever other owners do meanwhile.
Installed ==
  \A a \in Apps : Separate(a) /\ Succeeded(a, {"attach", "reattach"}) =>
    /\ manifest[OwnerOf[a]] = Wanted(a)
    /\ \A u \in Wanted(a) : files[u] = req[a].want[u]

\* After a successful call with enable the manager holds links for every
\* requested unit; after one that enabled or started, it holds no definition
\* older than the files: the daemon-reload came after the last write.
InEffect ==
  \A a \in Apps : Separate(a) /\ Succeeded(a, {"attach", "reattach"}) =>
    /\ req[a].enable => Wanted(a) \subseteq enabled
    /\ req[a].enable /\ LinkUnits => Wanted(a) \subseteq linked
    /\ req[a].enable \/ (req[a].start /\ Wanted(a) # Restarted(a)) =>
         \A u \in Wanted(a) : loaded[u] \in {Absent, req[a].want[u]}

\* A successful detach with the default options left nothing of the units it found
\* in its manifest: no file, no link, no definition, nothing running, no manifest.
\* One whose manifest cannot be read finds none, succeeds and leaves everything.
DetachLeavesNothing ==
  \A a \in Apps :
    /\ Separate(a)
    /\ Succeeded(a, {"detach"})
    /\ req[a].stop /\ req[a].disable /\ req[a].prune
    /\ \A t \in Units \ prior[a] : Target[t] \cap prior[a] = {}
    => /\ prior[a] # {} => manifest[OwnerOf[a]] = {}
       /\ prior[a] \cap (enabled \cup linked) = {}
       /\ \A u \in prior[a] : {files[u], loaded[u], active[u]} = {Absent}

\* A reattach that enables and restarts leaves every unit it found changed
\* stopped or running its new definition.  (A file it cannot read it does not find
\* changed: UpToDate is what that costs.)
RestartedRunsNew ==
  \A a \in Apps :
    Separate(a) /\ Succeeded(a, {"reattach"}) /\ req[a].enable /\ req[a].restart =>
      \A u \in updated[a] : active[u] \in {Absent, req[a].want[u]}

\* After a successful reattach with restartUpdated, no requested unit runs an
\* outdated definition, whether this call changed it or an earlier one did.
UpToDate ==
  \A a \in Apps : Separate(a) /\ Succeeded(a, {"reattach"}) /\ req[a].restart =>
    \A u \in Wanted(a) : active[u] \in {Absent, req[a].want[u]}

Downed(u) ==
  \/ active[u] # Absent /\ active'[u] = Absent
  \/ files[u] # Absent /\ files'[u] = Absent
  \/ u \in enabled /\ u \notin enabled'

\* A call stops, disables and deletes only units that its owner's manifest
\* names at that moment and that the call itself no longer wants.
TakesDownOnlyOwned ==
  [][\A a \in Apps : Separate(a) /\ Step(a) =>
       \A u \in Units : Downed(u) => u \in manifest[OwnerOf[a]] \ Wanted(a)]_vars

\* Whatever a call does, units outside the application's own names keep their
\* file, their enablement and their running state, and other owners their manifest.
OthersUntouched ==
  [][\A a \in Apps : Separate(a) /\ (Step(a) \/ Crash(a)) =>
       /\ \A u \in Units \ Names(a) :
            /\ files'[u] = files[u]
            /\ active'[u] = active[u]
            /\ u \in enabled' <=> u \in enabled
       /\ \A o \in Owners \ {OwnerOf[a]} : manifest'[o] = manifest[o]]_vars

\* Once failures stop, an application that keeps calling keeps succeeding.
RetryConverges ==
  \A a \in Apps : []<>(pc[a] = "idle" /\ outcome[a] = "ok")

\* The manifest names a unit that stop or disable may refuse: its file is gone, or
\* its writing was cut short, or, with linkUnits, no call has linked it.  The last
\* needs no failure: a unit that was installed without enable or start is such.
Stranded(a) == \E u \in manifest[OwnerOf[a]] : Doubtful(u) \/ ~Visible(u)

\* What does hold: calls keep succeeding after failures and crashes at any step,
\* unless from some time on the manifest always names a stranded unit, because the
\* application never attaches that unit again (or attaches it, but never enables nor
\* starts it), or the application makes only calls that are refused.
RetryConvergesOrStranded ==
  \A a \in Apps :
    \/ []<>(pc[a] = "idle" /\ outcome[a] = "ok")
    \/ <>[]Stranded(a)
    \/ <>[]Refused(req[a])
=============================================================================
