------------------------------- MODULE Manager -------------------------------
(***************************************************************************)
(* The outside world systemd-ts works on: the unit directory it writes and *)
(* the systemd manager it drives through the command executor.             *)
(*                                                                         *)
(* A unit file is abstracted to the version of its rendered text.  The     *)
(* manager is external code, modelled by the effect systemd-ts counts on:  *)
(* a unit is visible when its file exists (and, with linkUnits, when it is *)
(* linked); daemon-reload re-reads visible files; a command that names a   *)
(* unit the manager does not hold loads it from disk on demand.  The       *)
(* refresh that systemctl itself does after link, enable and disable is    *)
(* left out: systemd-ts issues its own daemon-reload.                      *)
(***************************************************************************)

CONSTANTS
  Units,      \* unit filenames
  Versions,   \* rendered texts of a unit
  Target,     \* Target[t]: the units a timer activates ({} for a service)
  LinkUnits   \* the linkUnits option of Systemd

VARIABLES
  files,      \* files[u]: what the file of u in unitDir holds
  linked,     \* units linked into the manager's search path
  enabled,    \* units with an enablement link
  loaded,     \* loaded[u]: the definition the manager holds in memory
  active      \* active[u]: the definition u was started with

mgrVars == <<files, linked, enabled, loaded, active>>

Absent == "absent"   \* no file, not loaded, not active
Torn   == "torn"     \* truncated: writeFile() is not atomic
Contents == Versions \cup {Absent, Torn}

ASSUME ManagerAssumption ==
  /\ Versions \cap {Absent, Torn} = {}
  /\ Target \in [Units -> SUBSET Units]
  /\ LinkUnits \in BOOLEAN

ManagerTypeOK ==
  /\ files \in [Units -> Contents]
  /\ linked \in SUBSET Units
  /\ enabled \in SUBSET Units
  /\ loaded \in [Units -> Contents]
  /\ active \in [Units -> Versions \cup {Absent}]

ManagerInit ==
  /\ files = [u \in Units |-> Absent]
  /\ linked = {}
  /\ enabled = {}
  /\ loaded = [u \in Units |-> Absent]
  /\ active = [u \in Units |-> Absent]

-----------------------------------------------------------------------------
Visible(u) == files[u] # Absent /\ (LinkUnits => u \in linked)

OnDisk(u) == IF Visible(u) THEN files[u] ELSE Absent

\* The definition a command that names u works with.
Definition(u) == IF loaded[u] # Absent THEN loaded[u] ELSE OnDisk(u)

Startable(u) == Definition(u) \in Versions

\* A unit systemctl stop reports as "not loaded": no definition and not running.
Missing(u) == active[u] = Absent /\ Definition(u) = Absent

\* Stopping u may be reported as an error: a torn file is masked or a bad setting.
Doubtful(u) == active[u] = Absent /\ ~Startable(u)

-----------------------------------------------------------------------------
(***************************************************************************)
(* The commands.  Each is what systemctl does when it succeeds.  A command *)
(* given several units works through all of them and then reports failure, *)
(* so StopUnits and RestartUnits also describe what a failed one did.      *)
(***************************************************************************)
Reload ==
  /\ loaded' = [u \in Units |-> OnDisk(u)]
  /\ UNCHANGED <<files, linked, enabled, active>>

LinkUnit(u) ==
  /\ files[u] # Absent
  /\ linked' = linked \cup {u}
  /\ UNCHANGED <<files, enabled, loaded, active>>

EnableUnit(u) ==
  /\ Visible(u)
  /\ enabled' = enabled \cup {u}
  /\ UNCHANGED <<files, linked, loaded, active>>

StartUnit(u) ==
  /\ Startable(u)
  /\ loaded' = [loaded EXCEPT ![u] = Definition(u)]
  /\ active' = [active EXCEPT ![u] = IF @ = Absent THEN Definition(u) ELSE @]
  /\ UNCHANGED <<files, linked, enabled>>

RestartUnits(S) ==
  /\ \A u \in S : Startable(u)
  /\ loaded' = [u \in Units |-> IF u \in S THEN Definition(u) ELSE loaded[u]]
  /\ active' = [u \in Units |-> IF u \in S THEN Definition(u) ELSE active[u]]
  /\ UNCHANGED <<files, linked, enabled>>

StopUnits(S) ==
  /\ active' = [u \in Units |-> IF u \in S THEN Absent ELSE active[u]]
  /\ UNCHANGED <<files, linked, enabled, loaded>>

\* Disabling a unit file also undoes its link.
DisableUnits(S) ==
  /\ \A u \in S : Visible(u)
  /\ enabled' = enabled \ S
  /\ linked' = linked \ S
  /\ UNCHANGED <<files, loaded, active>>

\* What a write or an rm does to the unit directory.
WriteFile(u, content) ==
  /\ files' = [files EXCEPT ![u] = content]
  /\ UNCHANGED <<linked, enabled, loaded, active>>

-----------------------------------------------------------------------------
(***************************************************************************)
(* What the manager does on its own: a unit finishes, a timer elapses, an  *)
(* inactive unit is dropped from memory.                                   *)
(***************************************************************************)
UnitExits(u) ==
  /\ active[u] # Absent
  /\ active' = [active EXCEPT ![u] = Absent]
  /\ UNCHANGED <<files, linked, enabled, loaded>>

TimerElapses(t) ==
  /\ active[t] # Absent
  /\ \E u \in Target[t] : active[u] = Absent /\ StartUnit(u)

UnloadUnit(u) ==
  /\ loaded[u] # Absent
  /\ active[u] = Absent
  /\ loaded' = [loaded EXCEPT ![u] = Absent]
  /\ UNCHANGED <<files, linked, enabled, active>>

ManagerNext ==
  \E u \in Units : UnitExits(u) \/ TimerElapses(u) \/ UnloadUnit(u)
=============================================================================
