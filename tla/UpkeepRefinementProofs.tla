----------------------- MODULE UpkeepRefinementProofs ------------------------
(***************************************************************************)
(* Upkeep implements Ownership, for any applications that keep to          *)
(* themselves: first that pruning is complete before a manifest is given   *)
(* up (AllCleared), then that every step of a call is one of Ownership's.  *)
(***************************************************************************)
EXTENDS UpkeepRefinement, UpkeepProofs

(***************************************************************************)
(* Pruning.                                                                *)
(***************************************************************************)
\* A call reaches a stage that comes after pruning from one that does, or from its
\* end, or by an attach, which prunes nothing.
LEMMA DeletedStages ==
  ASSUME TypeOK, NEW a \in Apps, Placed(a), Moves(a), pc'[a] \in Deleted, Clears(req'[a])
  PROVE  /\ req' = req /\ prior' = prior
         /\ pc[a] \in Deleted \/ Pruned(a)
<1> USE DEF TypeOK, Goto, Loop, Visited, Deleted, Installing
<1>1. ASSUME NEW result, Return(a, result)
      PROVE  FALSE
  BY <1>1 DEF Return
<1>2. CASE Advance(a)
  <2>1. CASE ReadNothing(a) \/ Forget(a) \/ Record(a)
    BY <1>1, <2>1 DEF ReadNothing, Forget, Record
  <2>2. CASE ReadManifest(a) \/ Compared(a) \/ StopGone(a) \/ DisableGone(a) \/ Pruned(a)
    BY <2>2 DEF ReadManifest, Compared, StopGone, DisableGone, Pruned, Clears
  <2>3. CASE ReloadPruned(a) \/ FillUnit(a) \/ Materialized(a) \/ CollectLinkPaths(a)
    BY <2>3 DEF ReloadPruned, FillUnit, Materialized, CollectLinkPaths
  <2>4. CASE ReloadPrepared(a) \/ Enabled(a) \/ RestartUpdated(a) \/ Start(a)
    BY <2>4 DEF ReloadPrepared, Enabled, RestartUpdated, Start
  <2>5. CASE ShowStatus(a) \/ Started(a) \/ TruncateManifest(a)
    BY <2>5 DEF ShowStatus, Started, TruncateManifest
  <2> QED
    BY <1>2, <2>1, <2>2, <2>3, <2>4, <2>5 DEF Advance
<1>3. ASSUME NEW v \in Units, AdvanceUnit(a, v)
      PROVE  req' = req /\ prior' = prior /\ pc[a] \in Deleted
  BY <1>3 DEF AdvanceUnit, CompareUnit, PruneUnit, TruncateUnit, LinkPath,
       EnableWanted, BeginStart
<1>4. CASE Fail(a) \/ Crash(a)
  BY <1>1, <1>4 DEF Fail, Crash, StopFails, DisableFails, RestartFails,
       FileOrReloadFails, SystemdErrs
<1>5. CASE \E r \in Requests[a] : Call(a, r)
  BY <1>5 DEF Call
<1> QED
  BY <1>2, <1>3, <1>4, <1>5 DEF Moves, Step

\* The pruning loop is entered with everything that is gone, or goes on.
LEMMA PruningStages ==
  ASSUME TypeOK, NEW a \in Apps, Moves(a), pc'[a] = "prune", Clears(req'[a])
  PROVE  /\ req' = req /\ prior' = prior
         /\ \/ pc[a] = "disable" /\ todo'[a] = Gone(a)
            \/ \E v \in Units : PruneUnit(a, v)
<1> USE DEF TypeOK, Goto, Loop, Visited
<1>1. ASSUME NEW result, Return(a, result)
      PROVE  FALSE
  BY <1>1 DEF Return
<1>2. CASE Advance(a)
  <2>1. CASE ReadNothing(a) \/ Forget(a) \/ Record(a)
    BY <1>1, <2>1 DEF ReadNothing, Forget, Record
  <2>2. CASE ReadManifest(a) \/ Compared(a) \/ StopGone(a) \/ DisableGone(a) \/ Pruned(a)
    BY <2>2 DEF ReadManifest, Compared, StopGone, DisableGone, Pruned, Clears
  <2>3. CASE ReloadPruned(a) \/ FillUnit(a) \/ Materialized(a) \/ CollectLinkPaths(a)
    BY <2>3 DEF ReloadPruned, FillUnit, Materialized, CollectLinkPaths
  <2>4. CASE ReloadPrepared(a) \/ Enabled(a) \/ RestartUpdated(a) \/ Start(a)
    BY <2>4 DEF ReloadPrepared, Enabled, RestartUpdated, Start
  <2>5. CASE ShowStatus(a) \/ Started(a) \/ TruncateManifest(a)
    BY <2>5 DEF ShowStatus, Started, TruncateManifest
  <2> QED
    BY <1>2, <2>1, <2>2, <2>3, <2>4, <2>5 DEF Advance
<1>3. ASSUME NEW v \in Units, AdvanceUnit(a, v)
      PROVE  req' = req /\ prior' = prior /\ PruneUnit(a, v)
  BY <1>3 DEF AdvanceUnit, CompareUnit, PruneUnit, TruncateUnit, LinkPath,
       EnableWanted, BeginStart
<1>4. CASE Fail(a) \/ Crash(a)
  BY <1>1, <1>4 DEF Fail, Crash, StopFails, DisableFails, RestartFails,
       FileOrReloadFails, SystemdErrs
<1>5. CASE \E r \in Requests[a] : Call(a, r)
  BY <1>5 DEF Call
<1> QED
  BY <1>2, <1>3, <1>4, <1>5 DEF Moves, Step

\* A call's own steps leave deleted what it has deleted.
LEMMA ClearedOwnStep ==
  ASSUME TypeOK, NEW a \in Apps, Accepted(a), Placed(a), Cleared(a), Moves(a),
         Separate(a)
  PROVE  Cleared(a)'
<1> USE DEF TypeOK, ManagerTypeOK
<1>1. ASSUME pc'[a] = "prune", Clears(req'[a])
      PROVE  \A u \in Gone(a)' \ todo'[a] : files'[u] = Absent
  <2>1. /\ req' = req /\ prior' = prior /\ Gone(a)' = Gone(a)
        /\ \/ pc[a] = "disable" /\ todo'[a] = Gone(a)
           \/ \E v \in Units : PruneUnit(a, v)
    BY <1>1, PruningStages DEF Gone, Wanted
  <2>2. ASSUME NEW v \in Units, PruneUnit(a, v)
        PROVE  \A u \in Gone(a) \ todo'[a] : files'[u] = Absent
    BY <1>1, <2>1, <2>2 DEF PruneUnit, WriteFile, Visited, Cleared, Gone
  <2> QED
    BY <2>1, <2>2
<1>2. ASSUME pc'[a] \in Deleted, Clears(req'[a])
      PROVE  \A u \in Gone(a)' : files'[u] = Absent
  <2>1. req' = req /\ Gone(a)' = Gone(a)
    BY <1>2, DeletedStages DEF Gone, Wanted
  <2>2. CASE Pruned(a)
    BY <1>2, <2>1, <2>2 DEF Pruned, Cleared, mgrVars
  <2>3. CASE pc[a] \in Deleted
    <3>1. pc[a] # "prune" /\ \A u \in Gone(a) : files[u] = Absent
      BY <1>2, <2>1, <2>3 DEF Cleared, Deleted, Installing
    <3>2. ASSUME NEW u \in Gone(a)
          PROVE  files'[u] = files[u]
      BY <3>1, <3>2, FilesEffect, WantedType DEF Gone
    <3> QED
      BY <2>1, <3>1, <3>2
  <2> QED
    BY <1>2, <2>2, <2>3, DeletedStages
<1> QED
  BY <1>1, <1>2 DEF Cleared

\* What a call has deleted stays deleted, whoever takes a step.
LEMMA ClearedStep ==
  ASSUME Inv, AllCleared, [Next]_vars
  PROVE  AllCleared'
<1> SUFFICES ASSUME NEW b \in Apps, Separate(b)
             PROVE  Cleared(b)'
  BY DEF AllCleared, Cleared, Separate, Names
<1> USE DEF Inv, AllCleared
<1>1. CASE Environment \/ UNCHANGED vars
  BY <1>1, EnvironmentFiles DEF vars, mgrVars, callVars, Cleared, Clears, Gone, Wanted
<1>2. ASSUME NEW a \in Apps, Moves(a), a # b
      PROVE  Cleared(b)'
  <2>1. pc'[b] = pc[b] /\ req'[b] = req[b] /\ todo'[b] = todo[b] /\ prior'[b] = prior[b]
    BY <1>2, Frame
  <2>2. prior[b] \subseteq Names(b) \cap Units
    BY SeparateNames DEF Recorded, TypeOK
  <2>3. \A u \in prior[b] : files'[u] = files[u]
    BY <1>2, <2>2, OthersFiles
  <2> QED
    BY <2>1, <2>3 DEF Cleared, Clears, Gone, Wanted
<1>3. CASE Moves(b)
  BY <1>3, ClearedOwnStep
<1> QED
  BY <1>1, <1>2, <1>3 DEF Next, Moves

\* What the pruning loop has visited is gone, and stays gone to the end of the call,
\* whatever fails and whatever other applications do.
THEOREM ClearedCorrect == Spec => []AllCleared
<1>1. Init => AllCleared
  BY DEF Init, AllCleared, Cleared, Deleted, Installing
<1> QED
  BY <1>1, Invariance, ClearedStep, PTL DEF Spec

-----------------------------------------------------------------------------
(***************************************************************************)
(* Steps.  Each step of Upkeep is a step of Ownership, or none at all.     *)
(***************************************************************************)
\* The initial states map to initial states.
LEMMA PromiseInit == Init => Promise!Init
BY UpkeepAssumption
   DEF Init, ManagerInit, Promise!Init, NoCall, Clears, Absent, None, ReadsFail

\* A step from stage to stage after the look at the manifest changes nothing of
\* who is served and who is looking.
LEMMA SameStages ==
  ASSUME TypeOK, NEW a \in Apps, pc[a] \notin {"idle", "read"},
         NEW stage, stage \notin {"idle", "read"}, Goto(a, stage)
  PROVE  /\ {b \in Apps : pc'[b] # "idle"} = {b \in Apps : pc[b] # "idle"}
         /\ {b \in Apps : pc'[b] = "read"} = {b \in Apps : pc[b] = "read"}
BY DEF Goto, TypeOK

\* Between its look at the manifest and its end, a call that changes no file and no
\* manifest does nothing that Ownership sees.
LEMMA QuietStep ==
  ASSUME TypeOK, NEW a \in Apps, pc[a] \notin {"idle", "read"},
         NEW stage, stage \notin {"idle", "read"}, Goto(a, stage),
         UNCHANGED <<files, manifest, calm, req, prior, outcome>>
  PROVE  UNCHANGED Promise!oVars
BY SameStages DEF Promise!oVars, Clears, ReadsFail

\* A call that ends is served no longer.
LEMMA EndStages ==
  ASSUME TypeOK, NEW a \in Apps, NEW result, Return(a, result)
  PROVE  /\ {b \in Apps : pc'[b] # "idle"} = {b \in Apps : pc[b] # "idle"} \ {a}
         /\ {b \in Apps : pc'[b] = "read"} = {b \in Apps : pc[b] = "read"} \ {a}
         /\ outcome' = [outcome EXCEPT ![a] = result]
         /\ UNCHANGED <<req, prior>>
BY DEF Return, Goto, TypeOK

\* A call that ends before its work is done is a failure.
LEMMA FailStep ==
  ASSUME TypeOK, NEW a \in Apps, pc[a] # "idle",
         NEW e \in {"err", "rejected", "crashed"}, Return(a, e),
         UNCHANGED <<files, manifest, calm>>
  PROVE  Promise!Fail(a)
BY EndStages DEF Promise!Fail, Clears, ReadsFail

\* A call that ends well has everything asked for on disk, and nothing else that
\* it found in the manifest if it prunes.
LEMMA SucceedStep ==
  ASSUME TypeOK, NEW a \in Apps, pc[a] \notin {"idle", "read"}, Return(a, "ok"),
         Promise!Done(a), UNCHANGED <<files, calm>>,
         manifest' = [manifest EXCEPT ![OwnerOf[a]] = Wanted(a)]
  PROVE  Promise!Succeed(a)
<1>1. {b \in Apps : pc'[b] = "read"} = {b \in Apps : pc[b] = "read"}
  BY EndStages
<1> QED
  BY <1>1, EndStages DEF Promise!Succeed, Promise!Working, Clears, Wanted, ReadsFail

\* What a call may find of its manifest is what Ownership lets it find.
LEMMA SightsMap ==
  ASSUME NEW a \in Apps
  PROVE  Promise!Sights(a) = Sights(a)
BY DEF Promise!Sights, Sights

\* A call that gives up or replaces its manifest has done what was asked.
LEMMA WorkDone ==
  ASSUME Inv, AllCleared, NEW a \in Apps, Separate(a),
         pc[a] \in {"truncate", "record", "forget"}
  PROVE  Promise!Done(a)
<1> USE DEF Inv
<1>1. \A u \in Wanted(a) : files[u] = req[a].want[u]
  <2>1. CASE pc[a] = "forget"
    BY <2>1, UpkeepAssumption DEF Accepted, Placed, Wanted
  <2>2. CASE pc[a] # "forget"
    BY <2>2 DEF OnFile, Written, Installing
  <2> QED
    BY <2>1, <2>2
<1>2. Clears(req[a]) => \A u \in Gone(a) : files[u] = Absent
  BY DEF AllCleared, Cleared, Deleted, Installing
<1> QED
  BY <1>1, <1>2 DEF Promise!Done, Promise!Surplus, Wanted, Gone

\* A request is taken up or turned down.
LEMMA CallMaps ==
  ASSUME TypeOK, NEW a \in Apps, NEW r \in Requests[a], Call(a, r)
  PROVE  Promise!Ask(a)
<1>1. [b \in Apps |-> req'[b].want] = [[b \in Apps |-> req[b].want] EXCEPT ![a] = r.want]
  BY DEF Call, TypeOK
<1>2. {b \in Apps : Clears(req'[b])} =
        IF Clears(r) THEN {b \in Apps : Clears(req[b])} \cup {a}
                     ELSE {b \in Apps : Clears(req[b])} \ {a}
  BY DEF Call, TypeOK
<1>3. \/ /\ {b \in Apps : pc'[b] # "idle"} = {b \in Apps : pc[b] # "idle"} \cup {a}
         /\ {b \in Apps : pc'[b] = "read"} = {b \in Apps : pc[b] = "read"} \cup {a}
         /\ outcome' = [outcome EXCEPT ![a] = "none"]
      \/ /\ {b \in Apps : pc'[b] # "idle"} = {b \in Apps : pc[b] # "idle"}
         /\ {b \in Apps : pc'[b] = "read"} = {b \in Apps : pc[b] = "read"}
         /\ outcome' = [outcome EXCEPT ![a] = "err"]
  BY DEF Call, TypeOK, Goto, None
<1>4. /\ a \notin {b \in Apps : pc[b] # "idle"}
      /\ prior' = [prior EXCEPT ![a] = {}]
      /\ UNCHANGED <<files, manifest, calm>>
  BY DEF Call, mgrVars
<1> QED
  BY <1>1, <1>2, <1>3, <1>4 DEF Promise!Ask, ReadsFail

\* Whatever ends a call early maps to a failure.
LEMMA FailMaps ==
  ASSUME TypeOK, NEW a \in Apps, Fail(a) \/ Crash(a)
  PROVE  Promise!Fail(a)
<1>1. /\ pc[a] # "idle"
      /\ Return(a, "rejected") \/ Return(a, "err") \/ Return(a, "crashed")
      /\ UNCHANGED <<files, manifest, calm>>
  BY DEF Fail, StopFails, StopUnits, DisableFails, RestartFails, RestartUnits,
         FileOrReloadFails, SystemdErrs, Crash, mgrVars
<1> QED
  BY <1>1, FailStep

\* The loops: a file is truncated or deleted, or nothing is seen of the step.
LEMMA AdvanceUnitMaps ==
  ASSUME Inv, NEW a \in Apps, Separate(a), NEW u \in Units, AdvanceUnit(a, u)
  PROVE  Promise!Put(a, u) \/ Promise!Delete(a, u) \/ UNCHANGED Promise!oVars
<1> USE DEF Inv, TypeOK
<1>1. CASE CompareUnit(a, u)
  BY <1>1 DEF CompareUnit, mgrVars, Promise!oVars, ReadsFail
<1>2. CASE PruneUnit(a, u)
  <2>1. u \in (prior[a] \ Wanted(a)) \cap manifest[OwnerOf[a]]
    BY <1>2 DEF PruneUnit, Placed, Current, Taking, Gone
  <2>2. /\ pc[a] \notin {"idle", "read"}
        /\ files' = [files EXCEPT ![u] = Absent]
        /\ UNCHANGED <<manifest, calm, pc, req, prior, outcome>>
    BY <1>2 DEF PruneUnit, WriteFile
  <2> QED
    BY <2>1, <2>2
       DEF Promise!Delete, Promise!Working, Promise!Surplus, Wanted, ReadsFail
<1>3. CASE TruncateUnit(a, u)
  <2>1. u \in Wanted(a) /\ pc[a] \notin {"idle", "read"}
    BY <1>3 DEF TruncateUnit, Placed, Installing
  <2>2. /\ files' = [files EXCEPT ![u] = Torn]
        /\ UNCHANGED <<manifest, calm, req, prior, outcome>>
    BY <1>3 DEF TruncateUnit, WriteFile
  <2>3. Goto(a, "fill")
    BY <1>3 DEF TruncateUnit
  <2> QED
    BY <2>1, <2>2, <2>3, SameStages DEF Promise!Put, Promise!Working, Wanted, ReadsFail
<1>4. CASE LinkPath(a, u)
  BY <1>4 DEF LinkPath, LinkUnit, Promise!oVars, ReadsFail
<1>5. CASE EnableWanted(a, u)
  BY <1>5 DEF EnableWanted, EnableUnit, Promise!oVars, ReadsFail
<1>6. CASE BeginStart(a, u)
  BY <1>6, QuietStep DEF BeginStart, mgrVars
<1> QED
  BY <1>1, <1>2, <1>3, <1>4, <1>5, <1>6 DEF AdvanceUnit

\* A call looks at its manifest, and one for no unit may overlook it.
LEMMA LookMaps ==
  ASSUME Inv, NEW a \in Apps, ReadNothing(a) \/ ReadManifest(a)
  PROVE  Promise!Look(a) \/ Promise!Overlook(a)
<1> TypeOK
  BY DEF Inv
<1>1. req[a].op # "detach" <=> DOMAIN req[a].want # {}
  BY UpkeepAssumption DEF ReadNothing, ReadManifest, Inv, Accepted, Refused
<1>2. CASE ReadNothing(a)
  <2>1. /\ pc[a] = "read" /\ {} \in Sights(a) /\ Return(a, "ok")
        /\ UNCHANGED <<files, manifest, calm>>
    BY <1>2 DEF ReadNothing, mgrVars
  <2>2. DOMAIN req[a].want = {}
    BY <1>1, <1>2 DEF ReadNothing
  <2> QED
    BY <2>1, <2>2, EndStages, SightsMap DEF Promise!Overlook, Clears, ReadsFail
<1>3. CASE ReadManifest(a)
  <2>1. PICK found \in Sights(a) :
          /\ req[a].op = "detach" => found # {}
          /\ prior' = [prior EXCEPT ![a] = found]
          /\ Goto(a, IF req[a].op = "detach" THEN "stop" ELSE "compare")
    BY <1>3 DEF ReadManifest, Loop
  <2>2. pc[a] = "read" /\ UNCHANGED <<files, manifest, calm, req, outcome>>
    BY <1>3 DEF ReadManifest, mgrVars
  <2>3. /\ {b \in Apps : pc'[b] # "idle"} = {b \in Apps : pc[b] # "idle"}
        /\ {b \in Apps : pc'[b] = "read"} = {b \in Apps : pc[b] = "read"} \ {a}
    BY <2>1, <2>2 DEF Goto, TypeOK
  <2>4. found # {} \/ DOMAIN req[a].want # {}
    BY <1>1, <2>1
  <2> QED
    BY <2>1, <2>2, <2>3, <2>4, SightsMap DEF Promise!Look, Clears, ReadsFail
<1> QED
  BY <1>2, <1>3

\* The stages: the manifest is looked at, a file is filled, the manifest erased or
\* written, or nothing is seen.
LEMMA AdvanceMaps ==
  ASSUME Inv, AllCleared, NEW a \in Apps, Separate(a), Advance(a)
  PROVE  \/ \E u \in Units : Promise!Put(a, u)
         \/ Promise!Look(a) \/ Promise!Overlook(a)
         \/ Promise!Erase(a) \/ Promise!Succeed(a) \/ UNCHANGED Promise!oVars
<1> TypeOK
  BY DEF Inv
<1>1. CASE ReadNothing(a) \/ ReadManifest(a)
  BY <1>1, LookMaps
<1>2. CASE Forget(a)
  <2>1. Wanted(a) = {}
    BY <1>2, UpkeepAssumption DEF Forget, Inv, Accepted, Placed, Wanted
  <2> QED
    BY <1>2, <2>1, WorkDone, SucceedStep DEF Forget, mgrVars
<1>3. CASE Record(a)
  BY <1>3, WorkDone, SucceedStep DEF Record, mgrVars
<1>4. CASE TruncateManifest(a)
  <2>1. Promise!Done(a)
    BY <1>4, WorkDone DEF TruncateManifest
  <2>2. /\ pc[a] \notin {"idle", "read"} /\ Goto(a, "record")
        /\ manifest' = [manifest EXCEPT ![OwnerOf[a]] = {}]
        /\ UNCHANGED <<files, calm, req, prior, outcome>>
    BY <1>4 DEF TruncateManifest, mgrVars
  <2> QED
    BY <2>1, <2>2, SameStages DEF Promise!Erase, Promise!Working, Clears, ReadsFail
<1>5. CASE FillUnit(a)
  <2>1. at[a] \in Wanted(a) /\ Wanted(a) \subseteq Units
    BY <1>5, WantedType DEF FillUnit, Inv, Placed, Installing
  <2>2. pc[a] \notin {"idle", "read"} /\ Goto(a, "write")
    BY <1>5 DEF FillUnit
  <2>3. /\ files' = [files EXCEPT ![at[a]] = req[a].want[at[a]]]
        /\ UNCHANGED <<manifest, calm, req, prior, outcome>>
    BY <1>5 DEF FillUnit, WriteFile
  <2>4. Promise!Put(a, at[a])
    BY <2>1, <2>2, <2>3, SameStages
       DEF Promise!Put, Promise!Working, Wanted, Clears, ReadsFail
  <2> QED
    BY <2>1, <2>4
<1>6. CASE Compared(a) \/ StopGone(a) \/ DisableGone(a) \/ Pruned(a)
  BY <1>6, QuietStep DEF Compared, StopGone, StopUnits, DisableGone,
     DisableUnits, Pruned, Loop, mgrVars
<1>7. CASE ReloadPruned(a) \/ Materialized(a) \/ CollectLinkPaths(a) \/ ReloadPrepared(a)
  BY <1>7, QuietStep DEF ReloadPruned, Materialized, CollectLinkPaths, ReloadPrepared,
     Reload, Loop, mgrVars
<1>8. CASE Enabled(a) \/ RestartUpdated(a) \/ Start(a) \/ ShowStatus(a) \/ Started(a)
  BY <1>8, QuietStep DEF Enabled, RestartUpdated, RestartUnits, Start, StartUnit,
     ShowStatus, Started, Loop, mgrVars
<1> QED
  BY <1>1, <1>2, <1>3, <1>4, <1>5, <1>6, <1>7, <1>8 DEF Advance

\* Every step maps to a step of Ownership or to none.
LEMMA PromiseStep ==
  ASSUME Inv, AllCleared, \A a \in Apps : Separate(a), [Next]_vars
  PROVE  [Promise!Next]_Promise!oVars
<1>1. CASE UNCHANGED vars
  BY <1>1 DEF vars, mgrVars, callVars, Promise!oVars, Clears, ReadsFail
<1>3. CASE Environment
  <2>1. UNCHANGED <<files, manifest, callVars>>
    BY <1>3, EnvironmentFiles
  <2>2. CASE Settle
    BY <2>1, <2>2 DEF Settle, Promise!Next, Promise!Steady, callVars, Clears, ReadsFail
  <2>3. CASE UNCHANGED calm
    BY <2>1, <2>3 DEF Promise!oVars, callVars, Clears, ReadsFail
  <2> QED
    BY <1>3, <2>2, <2>3 DEF Environment
<1>2. ASSUME NEW a \in Apps, Moves(a)
      PROVE  Promise!Next \/ UNCHANGED Promise!oVars
  BY <1>2, CallMaps, FailMaps, AdvanceUnitMaps, AdvanceMaps
     DEF Moves, Step, Promise!Next, Inv
<1> QED
  BY <1>1, <1>2, <1>3 DEF Next, Moves

\* Applications that keep to themselves get what Ownership promises: for any
\* number of them, of units and of owners, and whatever fails or cannot be read.
THEOREM PromiseKept ==
  ASSUME \A a \in Apps : Separate(a)
  PROVE  Spec => KeepsPromise
<1>1. Inv /\ AllCleared /\ [Next]_vars => [Promise!Next]_Promise!oVars
  BY PromiseStep
<1> QED
  BY <1>1, PromiseInit, Invariance, ClearedCorrect, PTL DEF Spec, KeepsPromise, Promise!Spec
=============================================================================
