--------------------------- MODULE UpkeepInvariant ---------------------------
(***************************************************************************)
(* Why the safety properties of Upkeep hold: what is true at every stage   *)
(* of a call.  Inv is inductive; UpkeepProofs proves it.                   *)
(***************************************************************************)
EXTENDS Upkeep

\* Stages after the diff of an attach or a reattach.
Installing ==
  {"write", "fill", "collect", "link", "enable", "restart", "begin", "start",
   "show", "truncate", "record"}

\* Stages by which every wanted unit is on disk.
Written == Installing \ {"write", "fill"}

\* Stages that rely on the manifest that was read.
Taking == {"compare", "stop", "disable", "prune", "refresh"}

\* Names an owner may have in its manifest.
OwnerNames(o) == UNION {Names(b) : b \in {c \in Apps : OwnerOf[c] = o}}

\* A running call is one the application makes, and its units rendered.
Accepted(a) ==
  /\ pc[a] # "idle" => ~Refused(req[a]) /\ outcome[a] = None
  /\ pc[a] # "idle" \/ outcome[a] = "ok" => req[a] \in Requests[a]

\* The call is where its operation and its loops take it.
Placed(a) ==
  /\ pc[a] \in Installing \cup {"compare"} => req[a].op # "detach"
  /\ pc[a] = "forget" => req[a].op = "detach"
  /\ pc[a] \in Installing \cup {"compare"} => todo[a] \subseteq Wanted(a)
  /\ pc[a] = "prune" => todo[a] \subseteq Gone(a)
  /\ pc[a] \in {"fill", "start", "show"} => at[a] \in todo[a]
  /\ pc[a] \in {"collect", "link"} => at[a] \in todo[a] \cup {Nobody}
  /\ pc[a] \notin {"fill", "collect", "link", "start", "show"} => at[a] = Nobody
  /\ updated[a] \subseteq Wanted(a)

\* Nothing is recorded for an owner but names its applications use.
Recorded ==
  /\ \A o \in Owners : manifest[o] \subseteq OwnerNames(o)
  /\ \A a \in Apps : prior[a] \subseteq OwnerNames(OwnerOf[a])

\* While units are taken down, the manifest is still the one that was read, if it
\* could be read.
Current(a) ==
  Separate(a) /\ pc[a] \in Taking =>
    prior[a] \in {{}, manifest[OwnerOf[a]]}

\* A unit that has been visited by the writing loop holds its text from then on.
OnFile(a) ==
  Separate(a) =>
    /\ pc[a] \in {"write", "fill"} =>
         \A u \in Wanted(a) \ todo[a] : files[u] = req[a].want[u]
    /\ pc[a] \in Written => \A u \in Wanted(a) : files[u] = req[a].want[u]

Inv ==
  /\ TypeOK
  /\ \A a \in Apps : Accepted(a) /\ Placed(a)
  /\ Recorded
  /\ \A a \in Apps : Current(a) /\ OnFile(a)
  /\ Installed

-----------------------------------------------------------------------------
(***************************************************************************)
(* What the manager holds at every stage: links, definitions in memory and *)
(* running units.  Effects is inductive beside Inv; UpkeepProofs proves    *)
(* it.                                                                     *)
(***************************************************************************)
Attached(a) == Succeeded(a, {"attach", "reattach"})

\* The restart is over: units are started one by one, or the call has succeeded.
Restarting(a) ==
  \/ pc[a] \in {"begin", "start", "show", "truncate", "record"}
  \/ pc[a] \in {"collect", "link"} /\ at[a] # Nobody
  \/ Attached(a)

\* The stages that come after enabling.
Enabling(a) == pc[a] = "restart" \/ Restarting(a)

\* A daemon-reload came after the last write.
Reloaded(a) ==
  \/ pc[a] \in {"enable", "start", "show"}
  \/ Enabling(a) /\ req[a].enable
  \/ Restarting(a) /\ req[a].start /\ todo[a] # Wanted(a) \ Restarted(a)

Links(S) == S \subseteq enabled /\ (LinkUnits => S \subseteq linked)

\* What the manager has come to hold for the units a call installs.
Effective(a) ==
  Separate(a) =>
    /\ Reloaded(a) => \A u \in Wanted(a) : loaded[u] \in {Absent, req[a].want[u]}
    /\ pc[a] = "enable" => Links(Wanted(a) \ todo[a])
    /\ Enabling(a) /\ req[a].enable => Links(Wanted(a))
    /\ Restarting(a) /\ req[a].enable /\ req[a].restart =>
         \A u \in updated[a] : active[u] \in {Absent, req[a].want[u]}

\* A detach with the default options, of units no other timer starts.
Dismantles(a) ==
  /\ Separate(a)
  /\ req[a].op = "detach" /\ req[a].stop /\ req[a].disable /\ req[a].prune
  /\ \A t \in Units \ prior[a] : Target[t] \cap prior[a] = {}

\* The detach is at one of the stages, or has succeeded.
Past(a, stages) == pc[a] \in stages \/ Succeeded(a, {"detach"})

\* What a detach has taken away stays away.
Dismantled(a) ==
  Dismantles(a) =>
    /\ Past(a, {"disable", "prune", "refresh", "forget"}) =>
         \A u \in prior[a] : active[u] = Absent
    /\ Past(a, {"prune", "refresh", "forget"}) => prior[a] \cap (enabled \cup linked) = {}
    /\ pc[a] = "prune" => \A u \in prior[a] \ todo[a] : files[u] = Absent
    /\ Past(a, {"refresh", "forget"}) => \A u \in prior[a] : files[u] = Absent
    /\ Past(a, {"forget"}) => \A u \in prior[a] : loaded[u] = Absent
    /\ Succeeded(a, {"detach"}) /\ prior[a] # {} => manifest[OwnerOf[a]] = {}

\* A call has read nothing before it reads, links only what its batch asks for, and
\* records and ends when no unit is left to start.
Prepared(a) ==
  /\ pc[a] = "read" => prior[a] = {}
  /\ pc[a] = "link" =>
       links[a] \subseteq Batch(a) \cup UNION {Target[u] : u \in Batch(a)}
  /\ pc[a] \in {"truncate", "record", "idle"} => todo[a] = {}

Effects == \A a \in Apps : Prepared(a) /\ Effective(a) /\ Dismantled(a)
=============================================================================
