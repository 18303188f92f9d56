---------------------------- MODULE UpkeepProofs -----------------------------
(***************************************************************************)
(* Proofs about Upkeep, for any applications, units and requests.          *)
(***************************************************************************)
EXTENDS UpkeepInvariant, TLAPS

\* What a request may ask for is a function on a set of units.
LEMMA WantsType ==
  ASSUME NEW f \in Wants
  PROVE  DOMAIN f \in SUBSET Units /\ \A u \in DOMAIN f : f[u] \in Versions \cup {Invalid}
<1>1. PICK S \in SUBSET Units : f \in [S -> Versions \cup {Invalid}]
  BY DEF Wants
<1>2. QED
  BY <1>1

\* The request an application starts out with is a well-formed one.
LEMMA NoCallType == NoCall \in Request
<1>1. [u \in {} |-> Invalid] \in [{} -> Versions \cup {Invalid}]
  OBVIOUS
<1>2. [u \in {} |-> Invalid] \in Wants
  BY <1>1 DEF Wants
<1>3. QED
  BY <1>2 DEF NoCall, Request

\* The manager starts out well-typed.
LEMMA ManagerInitType == ManagerInit => ManagerTypeOK
BY DEF ManagerInit, ManagerTypeOK, Contents

\* The initial state is well-typed.
LEMMA InitType == Init => TypeOK
BY NoCallType, ManagerInitType, UpkeepAssumption
   DEF Init, TypeOK, Stages, Outcomes

-----------------------------------------------------------------------------
(***************************************************************************)
(* Types.                                                                  *)
(***************************************************************************)
\* The definition a command works with is the content of some file.
LEMMA DefinitionType ==
  ASSUME ManagerTypeOK, NEW u \in Units
  PROVE  Definition(u) \in Contents /\ OnDisk(u) \in Contents
BY DEF ManagerTypeOK, Definition, OnDisk, Contents

\* Every command and every file operation keeps the manager's state well-typed.
LEMMA ManagerType ==
  ASSUME ManagerTypeOK, NEW S \in SUBSET Units, NEW u \in Units, NEW c \in Contents,
         \/ Reload \/ LinkUnit(u) \/ EnableUnit(u) \/ StartUnit(u)
         \/ RestartUnits(S) \/ StopUnits(S) \/ DisableUnits(S) \/ WriteFile(u, c)
         \/ UnitExits(u) \/ UnloadUnit(u) \/ UNCHANGED mgrVars
  PROVE  ManagerTypeOK'
<1> USE DEF ManagerTypeOK
<1>1. CASE Reload
  BY <1>1, DefinitionType DEF Reload
<1>2. CASE LinkUnit(u) \/ EnableUnit(u)
  BY <1>2 DEF LinkUnit, EnableUnit
<1>3. CASE StartUnit(u)
  BY <1>3, DefinitionType DEF StartUnit, Startable
<1>4. CASE RestartUnits(S)
  BY <1>4, DefinitionType DEF RestartUnits, Startable
<1>5. CASE StopUnits(S)
  BY <1>5 DEF StopUnits
<1>6. CASE DisableUnits(S)
  BY <1>6 DEF DisableUnits
<1>7. CASE WriteFile(u, c)
  BY <1>7 DEF WriteFile
<1>8. CASE UnitExits(u) \/ UnloadUnit(u)
  BY <1>8 DEF UnitExits, UnloadUnit, Contents
<1>9. CASE UNCHANGED mgrVars
  BY <1>9 DEF mgrVars
<1> QED
  BY <1>1, <1>2, <1>3, <1>4, <1>5, <1>6, <1>7, <1>8, <1>9

\* The manager and the environment keep the state well-typed.
LEMMA EnvironmentType ==
  ASSUME TypeOK, Environment
  PROVE  TypeOK'
<1>1. CASE Settle
  BY <1>1 DEF Settle, TypeOK, ManagerTypeOK, mgrVars, callVars
<1>2. CASE ManagerNext /\ UNCHANGED <<manifest, calm, callVars>>
  <2>1. PICK u \in Units : UnitExits(u) \/ TimerElapses(u) \/ UnloadUnit(u)
    BY <1>2 DEF ManagerNext
  <2>2. CASE TimerElapses(u)
    <3>1. PICK t \in Target[u] : StartUnit(t)
      BY <2>2 DEF TimerElapses
    <3>2. t \in Units
      BY ManagerAssumption
    <3>3. ManagerTypeOK'
      BY <3>1, <3>2, ManagerType DEF TypeOK, Contents
    <3> QED
      BY <1>2, <3>3 DEF TypeOK, callVars
  <2>3. CASE UnitExits(u) \/ UnloadUnit(u)
    <3>1. ManagerTypeOK'
      BY <2>3, ManagerType DEF TypeOK, Contents
    <3> QED
      BY <1>2, <3>1 DEF TypeOK, callVars
  <2> QED
    BY <2>1, <2>2, <2>3
<1> QED
  BY <1>1, <1>2 DEF Environment

\* Moving to a stage keeps pc well-typed.
LEMMA GotoType ==
  ASSUME TypeOK, NEW a \in Apps, NEW stage \in Stages, Goto(a, stage)
  PROVE  pc' \in [Apps -> Stages]
BY DEF TypeOK, Goto

\* Starting a loop over units keeps pc and todo well-typed.
LEMMA LoopType ==
  ASSUME TypeOK, NEW a \in Apps, NEW stage \in Stages, NEW S \in SUBSET Units,
         Loop(a, stage, S)
  PROVE  pc' \in [Apps -> Stages] /\ todo' \in [Apps -> SUBSET Units]
BY DEF TypeOK, Goto, Loop

\* However a call ends, its variables stay well-typed.
LEMMA ReturnType ==
  ASSUME TypeOK, NEW a \in Apps, NEW result \in Outcomes, Return(a, result)
  PROVE  /\ pc' \in [Apps -> Stages]
         /\ req' \in [Apps -> Request]
         /\ prior' \in [Apps -> SUBSET Units]
         /\ updated' \in [Apps -> SUBSET Units]
         /\ todo' \in [Apps -> SUBSET Units]
         /\ links' \in [Apps -> SUBSET Units]
         /\ at' \in [Apps -> Units \cup {Nobody}]
         /\ outcome' \in [Apps -> Outcomes]
BY DEF TypeOK, Goto, Return, Stages

\* The units a call wants, and those it gives up, are units.
LEMMA WantedType ==
  ASSUME TypeOK, NEW a \in Apps
  PROVE  Wanted(a) \in SUBSET Units /\ Gone(a) \in SUBSET Units
BY WantsType DEF TypeOK, Request, Wanted, Gone

\* What a call finds of its manifest is all of it or nothing.
LEMMA SightsAre ==
  ASSUME NEW a \in Apps
  PROVE  Sights(a) \subseteq {{}, manifest[OwnerOf[a]]}
BY DEF Sights

\* A failing step keeps the state well-typed.
LEMMA FailType ==
  ASSUME TypeOK, NEW a \in Apps, Fail(a) \/ Crash(a)
  PROVE  TypeOK'
<1>1. "rejected" \in Outcomes /\ "err" \in Outcomes /\ "crashed" \in Outcomes
  BY DEF Outcomes
<1>2. Gone(a) \in SUBSET Units /\ {u \in updated[a] : Startable(u)} \in SUBSET Units
  BY WantedType DEF TypeOK
<1>3. ManagerTypeOK'
  <2>1. CASE StopFails(a)
    BY <1>2, <2>1, ManagerType DEF StopFails, TypeOK, StopUnits, ManagerTypeOK, mgrVars
  <2>2. CASE RestartFails(a)
    <3>1. CASE UNCHANGED mgrVars
      BY <3>1 DEF TypeOK, ManagerTypeOK, mgrVars
    <3>2. CASE RestartUnits({u \in updated[a] : Startable(u)})
      <4>1. PICK u \in Units : u \in updated[a]
        BY <2>2 DEF RestartFails, TypeOK, Restarts
      <4> QED
        BY <1>2, <3>2, <4>1, ManagerType DEF TypeOK, Contents
    <3> QED
      BY <2>2, <3>1, <3>2 DEF RestartFails
  <2>3. CASE DisableFails(a) \/ FileOrReloadFails(a) \/ SystemdErrs(a) \/ Crash(a)
    BY <2>3 DEF DisableFails, FileOrReloadFails, SystemdErrs, Crash, TypeOK, ManagerTypeOK, mgrVars
  <2> QED
    BY <2>1, <2>2, <2>3 DEF Fail
<1>4. /\ Return(a, "rejected") \/ Return(a, "err") \/ Return(a, "crashed")
      /\ UNCHANGED <<manifest, calm>>
  BY DEF Fail, StopFails, DisableFails, RestartFails, FileOrReloadFails, SystemdErrs, Crash
<1> QED
  BY <1>1, <1>3, <1>4, ReturnType DEF TypeOK

\* What a loop that installs writes is the text of a unit that rendered.
LEMMA RenderedText ==
  ASSUME TypeOK, NEW a \in Apps, Accepted(a), Placed(a),
         pc[a] \in Installing, NEW u \in Wanted(a)
  PROVE  req[a].want[u] \in Versions
BY WantsType DEF TypeOK, Request, Accepted, Placed, Refused, Wanted, Installing

\* Accepting or refusing a request keeps the state well-typed.
LEMMA CallType ==
  ASSUME TypeOK, NEW a \in Apps, NEW r \in Requests[a], Call(a, r)
  PROVE  TypeOK'
BY UpkeepAssumption
   DEF Call, Goto, TypeOK, ManagerTypeOK, mgrVars, Stages, Outcomes

\* A step of a loop over units keeps the state well-typed.
LEMMA AdvanceUnitType ==
  ASSUME TypeOK, NEW a \in Apps, NEW u \in Units, AdvanceUnit(a, u)
  PROVE  TypeOK'
<1> USE DEF TypeOK
<1>1. CASE CompareUnit(a, u)
  BY <1>1 DEF CompareUnit, Visited, ManagerTypeOK, mgrVars
<1>2. CASE PruneUnit(a, u)
  BY <1>2, ManagerType DEF PruneUnit, Visited, Contents
<1>3. CASE TruncateUnit(a, u)
  BY <1>3, ManagerType DEF TruncateUnit, Goto, Contents, Stages
<1>4. CASE LinkPath(a, u)
  BY <1>4, ManagerType DEF LinkPath, Contents
<1>5. CASE EnableWanted(a, u)
  BY <1>5, ManagerType DEF EnableWanted, Visited, Contents
<1>6. CASE BeginStart(a, u)
  BY <1>6 DEF BeginStart, Goto, Stages, ManagerTypeOK, mgrVars
<1> QED
  BY <1>1, <1>2, <1>3, <1>4, <1>5, <1>6 DEF AdvanceUnit

\* Any other step of a call keeps the state well-typed.
LEMMA AdvanceType ==
  ASSUME TypeOK, NEW a \in Apps, Accepted(a), Placed(a), Advance(a)
  PROVE  TypeOK'
<1> USE DEF TypeOK
<1>1. /\ Wanted(a) \in SUBSET Units /\ Gone(a) \in SUBSET Units
      /\ Wanted(a) \cap manifest[OwnerOf[a]] \in SUBSET Units
      /\ manifest[OwnerOf[a]] \in SUBSET Units
  BY WantedType, UpkeepAssumption
<1>2. CASE ReadNothing(a)
  BY <1>2, ReturnType DEF ReadNothing, Outcomes, ManagerTypeOK, mgrVars
<1>3. CASE ReadManifest(a)
  <2>1. PICK found \in Sights(a) :
          /\ prior' = [prior EXCEPT ![a] = found]
          /\ Loop(a, IF req[a].op = "detach" THEN "stop" ELSE "compare", Wanted(a) \cap found)
    BY <1>3 DEF ReadManifest
  <2>2. found \in SUBSET Units /\ Wanted(a) \cap found \in SUBSET Units
    BY <1>1, SightsAre
  <2> QED
    BY <1>3, <2>1, <2>2, LoopType DEF ReadManifest, Stages, ManagerTypeOK, mgrVars
<1>4. CASE Compared(a)
  BY <1>1, <1>4, LoopType DEF Compared, Stages, ManagerTypeOK, mgrVars
<1>5. CASE StopGone(a)
  <2>1. ManagerTypeOK'
    BY <1>1, <1>5 DEF StopGone, StopUnits, ManagerTypeOK, mgrVars
  <2> QED
    BY <1>5, <2>1, LoopType DEF StopGone, Stages
<1>6. CASE DisableGone(a)
  <2>1. ManagerTypeOK'
    BY <1>1, <1>6 DEF DisableGone, DisableUnits, ManagerTypeOK, mgrVars
  <2> QED
    BY <1>1, <1>6, <2>1, LoopType DEF DisableGone, Stages
<1>7. CASE Pruned(a)
  BY <1>7, LoopType DEF Pruned, Stages, ManagerTypeOK, mgrVars
<1>8. CASE ReloadPruned(a)
  <2>1. ManagerTypeOK'
    BY <1>8, DefinitionType DEF ReloadPruned, Reload, ManagerTypeOK, mgrVars
  <2> QED
    BY <1>1, <1>8, <2>1, LoopType DEF ReloadPruned, Stages
<1>9. CASE Forget(a)
  BY <1>9, ReturnType DEF Forget, Outcomes, ManagerTypeOK, mgrVars
<1>10. CASE FillUnit(a)
  <2>1. at[a] \in Units /\ req[a].want[at[a]] \in Versions
    BY <1>1, <1>10, RenderedText DEF FillUnit, Placed, Installing
  <2>2. ManagerTypeOK'
    BY <1>10, <2>1, ManagerType DEF FillUnit, Contents
  <2> QED
    BY <1>10, <2>2, GotoType DEF FillUnit, Visited, Stages
<1>11. CASE Materialized(a) \/ Enabled(a) \/ Started(a)
  BY <1>11, GotoType DEF Materialized, Enabled, Started, Stages, ManagerTypeOK, mgrVars
<1>12. CASE CollectLinkPaths(a)
  <2>1. Batch(a) \subseteq Units
    BY <1>1 DEF Batch
  <2>2. UNION {Target[u] : u \in Batch(a)} \subseteq Units
    BY <2>1, ManagerAssumption
  <2>3. \A T \in SeenTargets(a) : T \subseteq Units
    BY <2>2 DEF SeenTargets, Targets
  <2>4. links' \in [Apps -> SUBSET Units]
    BY <1>12, <2>1, <2>3 DEF CollectLinkPaths
  <2> QED
    BY <1>12, <2>4, GotoType DEF CollectLinkPaths, Stages, ManagerTypeOK, mgrVars
<1>13. CASE ReloadPrepared(a)
  <2>1. ManagerTypeOK'
    BY <1>13, DefinitionType DEF ReloadPrepared, Reload, ManagerTypeOK
  <2> QED
    BY <1>1, <1>13, <2>1, LoopType DEF ReloadPrepared, Stages
<1>14. CASE RestartUpdated(a)
  <2>1. ManagerTypeOK'
    BY <1>14, DefinitionType
       DEF RestartUpdated, RestartUnits, Startable, ManagerTypeOK, mgrVars
  <2> QED
    BY <1>1, <1>14, <2>1, LoopType DEF RestartUpdated, Stages
<1>15. CASE Start(a)
  <2>1. at[a] \in Units
    BY <1>1, <1>15 DEF Start, Placed, Installing
  <2>2. ManagerTypeOK'
    BY <1>15, <2>1, ManagerType DEF Start, Contents
  <2> QED
    BY <1>15, <2>2, GotoType DEF Start, Stages
<1>16. CASE ShowStatus(a)
  BY <1>16, GotoType DEF ShowStatus, Visited, Stages, ManagerTypeOK, mgrVars
<1>17. CASE TruncateManifest(a)
  BY <1>17, GotoType DEF TruncateManifest, Stages, ManagerTypeOK, mgrVars
<1>18. CASE Record(a)
  BY <1>1, <1>18, ReturnType DEF Record, Outcomes, ManagerTypeOK, mgrVars
<1> QED
  BY <1>2, <1>3, <1>4, <1>5, <1>6, <1>7, <1>8, <1>9, <1>10, <1>11, <1>12, <1>13,
     <1>14, <1>15, <1>16, <1>17, <1>18 DEF Advance

\* Every step keeps the state well-typed.
LEMMA TypeStep ==
  ASSUME TypeOK, \A a \in Apps : Accepted(a) /\ Placed(a), [Next]_vars
  PROVE  TypeOK'
<1>1. CASE UNCHANGED vars
  BY <1>1 DEF vars, mgrVars, callVars, TypeOK, ManagerTypeOK
<1>2. CASE Environment
  BY <1>2, EnvironmentType
<1>3. ASSUME NEW a \in Apps, (\E r \in Requests[a] : Call(a, r)) \/ Step(a) \/ Crash(a)
      PROVE  TypeOK'
  BY <1>3, CallType, AdvanceType, AdvanceUnitType, FailType DEF Step
<1> QED
  BY <1>1, <1>2, <1>3 DEF Next

-----------------------------------------------------------------------------
(***************************************************************************)
(* Control: where a call is, and what its loops range over.                *)
(***************************************************************************)
Moves(a) == (\E r \in Requests[a] : Call(a, r)) \/ Step(a) \/ Crash(a)

\* A step of one application leaves the calls of the others alone.
LEMMA Frame ==
  ASSUME TypeOK, NEW a \in Apps, Moves(a), NEW b \in Apps \ {a}
  PROVE  /\ pc'[b] = pc[b] /\ req'[b] = req[b] /\ prior'[b] = prior[b]
         /\ updated'[b] = updated[b] /\ todo'[b] = todo[b] /\ at'[b] = at[b]
         /\ outcome'[b] = outcome[b] /\ links'[b] = links[b]
<1> USE DEF TypeOK, Goto, Loop, Visited
<1>1. ASSUME NEW result, Return(a, result)
      PROVE  /\ pc'[b] = pc[b] /\ req'[b] = req[b] /\ prior'[b] = prior[b]
             /\ updated'[b] = updated[b] /\ todo'[b] = todo[b] /\ at'[b] = at[b]
             /\ outcome'[b] = outcome[b] /\ links'[b] = links[b]
  BY <1>1 DEF Return
<1>2. CASE \E r \in Requests[a] : Call(a, r)
  BY <1>2 DEF Call
<1>3. CASE Fail(a) \/ Crash(a)
  BY <1>1, <1>3
     DEF Fail, Crash, StopFails, DisableFails, RestartFails, FileOrReloadFails, SystemdErrs
<1>4. ASSUME NEW u \in Units, AdvanceUnit(a, u)
      PROVE  /\ pc'[b] = pc[b] /\ req'[b] = req[b] /\ prior'[b] = prior[b]
             /\ updated'[b] = updated[b] /\ todo'[b] = todo[b] /\ at'[b] = at[b]
             /\ outcome'[b] = outcome[b] /\ links'[b] = links[b]
  BY <1>4 DEF AdvanceUnit, CompareUnit, PruneUnit, TruncateUnit, LinkPath, EnableWanted,
              BeginStart
<1>5. CASE Advance(a)
  <2>1. CASE ReadNothing(a) \/ Forget(a) \/ Record(a)
    BY <1>1, <2>1 DEF ReadNothing, Forget, Record
  <2>2. CASE ReadManifest(a) \/ Compared(a) \/ StopGone(a) \/ DisableGone(a) \/ Pruned(a)
    BY <2>2 DEF ReadManifest, Compared, StopGone, DisableGone, Pruned
  <2>3. CASE ReloadPruned(a) \/ FillUnit(a) \/ Materialized(a) \/ CollectLinkPaths(a)
    BY <2>3 DEF ReloadPruned, FillUnit, Materialized, CollectLinkPaths
  <2>4. CASE ReloadPrepared(a) \/ Enabled(a) \/ RestartUpdated(a) \/ Start(a)
    BY <2>4 DEF ReloadPrepared, Enabled, RestartUpdated, Start
  <2>5. CASE ShowStatus(a) \/ Started(a) \/ TruncateManifest(a)
    BY <2>5 DEF ShowStatus, Started, TruncateManifest
  <2> QED
    BY <1>5, <2>1, <2>2, <2>3, <2>4, <2>5 DEF Advance
<1> QED
  BY <1>2, <1>3, <1>4, <1>5 DEF Moves, Step

\* A call that ends is in its place: it has no unit and no loop left.
LEMMA ReturnPlaced ==
  ASSUME TypeOK, NEW a \in Apps, Accepted(a), Placed(a), pc[a] # "idle",
         NEW result, Return(a, result)
  PROVE  Accepted(a)' /\ Placed(a)'
BY DEF TypeOK, Accepted, Placed, Return, Goto, Installing, Wanted

\* A call that begins is in its place, or was refused.
LEMMA CallPlaced ==
  ASSUME TypeOK, NEW a \in Apps, Placed(a), NEW r \in Requests[a], Call(a, r)
  PROVE  Accepted(a)' /\ Placed(a)'
BY DEF TypeOK, Accepted, Placed, Call, Goto, Installing

\* A step of a loop leaves the call where its operation takes it.
LEMMA AdvanceUnitPlaced ==
  ASSUME TypeOK, NEW a \in Apps, Accepted(a), Placed(a), NEW u \in Units,
         AdvanceUnit(a, u)
  PROVE  Accepted(a)' /\ Placed(a)'
<1> USE DEF TypeOK, Accepted, Placed, Visited, Goto, Installing, Wanted, Gone
<1>1. CASE CompareUnit(a, u)
  BY <1>1 DEF CompareUnit
<1>2. CASE PruneUnit(a, u)
  BY <1>2 DEF PruneUnit
<1>3. CASE TruncateUnit(a, u)
  BY <1>3 DEF TruncateUnit
<1>4. CASE LinkPath(a, u)
  BY <1>4 DEF LinkPath
<1>5. CASE EnableWanted(a, u)
  BY <1>5 DEF EnableWanted
<1>6. CASE BeginStart(a, u)
  BY <1>6 DEF BeginStart
<1> QED
  BY <1>1, <1>2, <1>3, <1>4, <1>5, <1>6 DEF AdvanceUnit

\* Any other step leaves the call where its operation takes it.
LEMMA AdvancePlaced ==
  ASSUME TypeOK, NEW a \in Apps, Accepted(a), Placed(a), Advance(a)
  PROVE  Accepted(a)' /\ Placed(a)'
<1> USE DEF TypeOK, Accepted, Placed, Visited, Goto, Loop, Installing, Wanted, Gone
<1>1. CASE ReadNothing(a) \/ Forget(a) \/ Record(a)
  BY <1>1, ReturnPlaced DEF ReadNothing, Forget, Record
<1>2. CASE ReadManifest(a)
  BY <1>2 DEF ReadManifest
<1>3. CASE Compared(a)
  BY <1>3 DEF Compared
<1>4. CASE StopGone(a)
  BY <1>4 DEF StopGone
<1>5. CASE DisableGone(a)
  BY <1>5 DEF DisableGone
<1>6. CASE Pruned(a)
  BY <1>6 DEF Pruned
<1>7. CASE ReloadPruned(a)
  BY <1>7 DEF ReloadPruned
<1>8. CASE FillUnit(a)
  BY <1>8 DEF FillUnit
<1>9. CASE Materialized(a)
  BY <1>9 DEF Materialized
<1>10. CASE CollectLinkPaths(a)
  BY <1>10 DEF CollectLinkPaths
<1>11. CASE ReloadPrepared(a)
  BY <1>11 DEF ReloadPrepared
<1>12. CASE Enabled(a)
  BY <1>12 DEF Enabled
<1>13. CASE RestartUpdated(a)
  BY <1>13 DEF RestartUpdated
<1>14. CASE Start(a)
  BY <1>14 DEF Start
<1>15. CASE ShowStatus(a)
  BY <1>15 DEF ShowStatus
<1>16. CASE Started(a)
  BY <1>16 DEF Started
<1>17. CASE TruncateManifest(a)
  BY <1>17 DEF TruncateManifest
<1> QED
  BY <1>1, <1>2, <1>3, <1>4, <1>5, <1>6, <1>7, <1>8, <1>9, <1>10, <1>11, <1>12,
     <1>13, <1>14, <1>15, <1>16, <1>17 DEF Advance

\* Every call stays accepted and in its place, whoever takes a step.
LEMMA ControlStep ==
  ASSUME TypeOK, \A a \in Apps : Accepted(a) /\ Placed(a), [Next]_vars
  PROVE  \A b \in Apps : Accepted(b)' /\ Placed(b)'
<1> SUFFICES ASSUME NEW b \in Apps
             PROVE  Accepted(b)' /\ Placed(b)'
  OBVIOUS
<1>1. CASE Environment \/ UNCHANGED vars
  BY <1>1 DEF Environment, Settle, vars, callVars, Accepted, Placed, Wanted, Gone
<1>2. ASSUME NEW a \in Apps, Moves(a), a # b
      PROVE  Accepted(b)' /\ Placed(b)'
  <2>1. /\ pc'[b] = pc[b] /\ req'[b] = req[b] /\ prior'[b] = prior[b]
        /\ updated'[b] = updated[b] /\ todo'[b] = todo[b] /\ at'[b] = at[b]
        /\ outcome'[b] = outcome[b]
    BY <1>2, Frame
  <2> QED
    BY <2>1 DEF Accepted, Placed, Wanted, Gone
<1>3. CASE Moves(b)
  <2>1. CASE Fail(b) \/ Crash(b)
    <3>1. /\ pc[b] # "idle"
          /\ Return(b, "rejected") \/ Return(b, "err") \/ Return(b, "crashed")
      BY <2>1 DEF Fail, StopFails, DisableFails, RestartFails, FileOrReloadFails,
                  SystemdErrs, Crash
    <3> QED
      BY <3>1, ReturnPlaced
  <2> QED
    BY <1>3, <2>1, CallPlaced, AdvanceUnitPlaced, AdvancePlaced DEF Moves, Step
<1> QED
  BY <1>1, <1>2, <1>3 DEF Next, Moves

-----------------------------------------------------------------------------
(***************************************************************************)
(* Effects: which files and manifests a step of one application changes.   *)
(***************************************************************************)
\* Three steps write the unit directory.
LEMMA Writers ==
  ASSUME NEW a \in Apps, Moves(a)
  PROVE  files' = files \/ FillUnit(a) \/ \E v \in Units : PruneUnit(a, v) \/ TruncateUnit(a, v)
<1>1. CASE Advance(a)
  BY <1>1 DEF Advance, ReadNothing, ReadManifest, Compared, StopGone, StopUnits,
       DisableGone, DisableUnits, Pruned, ReloadPruned, Reload, Forget, Materialized,
       CollectLinkPaths, ReloadPrepared, Enabled, RestartUpdated, RestartUnits, Start,
       StartUnit, ShowStatus, Started, TruncateManifest, Record, mgrVars
<1>2. ASSUME NEW v \in Units, AdvanceUnit(a, v)
      PROVE  files' = files \/ PruneUnit(a, v) \/ TruncateUnit(a, v)
  BY <1>2 DEF AdvanceUnit, CompareUnit, LinkPath, LinkUnit, EnableWanted, EnableUnit,
       BeginStart, mgrVars
<1>3. CASE Fail(a) \/ Crash(a) \/ \E r \in Requests[a] : Call(a, r)
  BY <1>3 DEF Fail, Crash, Call, StopFails, StopUnits, DisableFails, RestartFails,
       RestartUnits, FileOrReloadFails, SystemdErrs, mgrVars
<1> QED
  BY <1>1, <1>2, <1>3 DEF Moves, Step

\* A step of a call changes the file of a unit it prunes or writes, and no other.
LEMMA FilesEffect ==
  ASSUME TypeOK, NEW a \in Apps, Placed(a), Moves(a),
         NEW u \in Units, files'[u] # files[u]
  PROVE  \/ pc[a] = "prune" /\ u \in Gone(a)
         \/ pc[a] \in {"write", "fill"} /\ u \in Wanted(a)
<1> USE DEF TypeOK, ManagerTypeOK
<1>1. FillUnit(a) \/ \E v \in Units : PruneUnit(a, v) \/ TruncateUnit(a, v)
  BY Writers
<1>2. ASSUME NEW v \in Units, PruneUnit(a, v)
      PROVE  pc[a] = "prune" /\ u \in Gone(a)
  BY <1>2 DEF PruneUnit, WriteFile, Placed
<1>3. ASSUME NEW v \in Units, TruncateUnit(a, v)
      PROVE  pc[a] = "write" /\ u \in Wanted(a)
  BY <1>3 DEF TruncateUnit, WriteFile, Placed, Installing
<1>4. CASE FillUnit(a)
  BY <1>4 DEF FillUnit, WriteFile, Placed, Installing
<1> QED
  BY <1>1, <1>2, <1>3, <1>4

\* A step of a call changes its owner's manifest only, and only when it records or forgets.
LEMMA ManifestEffect ==
  ASSUME TypeOK, NEW a \in Apps, Moves(a), NEW o \in Owners, manifest'[o] # manifest[o]
  PROVE  /\ o = OwnerOf[a]
         /\ manifest'[o] \subseteq Wanted(a)
         /\ pc[a] \in {"truncate", "record", "forget"}
<1> USE DEF TypeOK
<1>1. manifest' = manifest \/ TruncateManifest(a) \/ Record(a) \/ Forget(a)
  <2>1. CASE Advance(a)
    BY <2>1 DEF Advance, ReadNothing, ReadManifest, Compared, StopGone, DisableGone,
         Pruned, ReloadPruned, FillUnit, Materialized, CollectLinkPaths, ReloadPrepared,
         Enabled, RestartUpdated, Start, ShowStatus, Started
  <2>2. ASSUME NEW v \in Units, AdvanceUnit(a, v)
        PROVE  manifest' = manifest
    BY <2>2 DEF AdvanceUnit, CompareUnit, PruneUnit, TruncateUnit, LinkPath,
         EnableWanted, BeginStart
  <2>3. CASE Fail(a) \/ Crash(a) \/ \E r \in Requests[a] : Call(a, r)
    BY <2>3 DEF Fail, Crash, Call, StopFails, DisableFails, RestartFails,
         FileOrReloadFails, SystemdErrs
  <2> QED
    BY <2>1, <2>2, <2>3 DEF Moves, Step
<1> QED
  BY <1>1, UpkeepAssumption DEF TruncateManifest, Record, Forget

\* A call's prior set is empty or what the manifest said when it read it.
LEMMA PriorEffect ==
  ASSUME TypeOK, NEW a \in Apps, Moves(a), prior'[a] # prior[a]
  PROVE  prior'[a] \in {{}, manifest[OwnerOf[a]]}
<1> USE DEF TypeOK
<1>0. CASE ReadManifest(a)
  BY <1>0, SightsAre DEF ReadManifest
<1>1. CASE Advance(a)
  BY <1>0, <1>1 DEF Advance, ReadNothing, Compared, StopGone, DisableGone,
       Pruned, ReloadPruned, Forget, FillUnit, Materialized, CollectLinkPaths,
       ReloadPrepared, Enabled, RestartUpdated, Start, ShowStatus, Started,
       TruncateManifest, Record, Return
<1>2. ASSUME NEW v \in Units, AdvanceUnit(a, v)
      PROVE  prior' = prior
  BY <1>2 DEF AdvanceUnit, CompareUnit, PruneUnit, TruncateUnit, LinkPath,
       EnableWanted, BeginStart
<1>3. CASE Fail(a) \/ Crash(a)
  BY <1>3 DEF Fail, Crash, StopFails, DisableFails, RestartFails,
       FileOrReloadFails, SystemdErrs, Return
<1>4. CASE \E r \in Requests[a] : Call(a, r)
  BY <1>4 DEF Call
<1> QED
  BY <1>1, <1>2, <1>3, <1>4 DEF Moves, Step

-----------------------------------------------------------------------------
(***************************************************************************)
(* Ownership: names recorded for an owner are names its applications use.  *)
(***************************************************************************)
\* What a running or successful call wants are names of its application.
LEMMA WantedNames ==
  ASSUME NEW a \in Apps, Accepted(a), pc[a] # "idle" \/ outcome[a] = "ok"
  PROVE  Wanted(a) \subseteq Names(a) /\ Names(a) \subseteq OwnerNames(OwnerOf[a])
<1>1. Wanted(a) \subseteq Names(a)
  BY DEF Accepted, Wanted, Names
<1>2. Names(a) \subseteq OwnerNames(OwnerOf[a])
  BY DEF OwnerNames
<1> QED
  BY <1>1, <1>2

\* Names recorded for other owners are not names of an application that keeps to itself.
LEMMA SeparateNames ==
  ASSUME NEW a \in Apps, Separate(a)
  PROVE  /\ OwnerNames(OwnerOf[a]) = Names(a)
         /\ \A b \in Apps \ {a} : OwnerNames(OwnerOf[b]) \cap Names(a) = {}
BY DEF Separate, OwnerNames

\* Manifests and prior sets name only units of the owner's applications.
LEMMA RecordedStep ==
  ASSUME TypeOK, \A a \in Apps : Accepted(a) /\ Placed(a), Recorded, [Next]_vars
  PROVE  Recorded'
<1>1. CASE Environment \/ UNCHANGED vars
  BY <1>1 DEF Environment, Settle, vars, callVars, Recorded
<1>2. ASSUME NEW a \in Apps, Moves(a)
      PROVE  Recorded'
  <2>1. ASSUME NEW o \in Owners
        PROVE  manifest'[o] \subseteq OwnerNames(o)
    <3>1. CASE manifest'[o] = manifest[o]
      BY <3>1 DEF Recorded
    <3>2. CASE manifest'[o] # manifest[o]
      BY <1>2, <3>2, ManifestEffect, WantedNames
    <3> QED
      BY <3>1, <3>2
  <2>2. ASSUME NEW b \in Apps
        PROVE  prior'[b] \subseteq OwnerNames(OwnerOf[b])
    <3>1. CASE prior'[b] = prior[b]
      BY <3>1 DEF Recorded
    <3>2. CASE prior'[b] # prior[b]
      BY <1>2, <3>2, Frame, PriorEffect, UpkeepAssumption DEF Recorded
    <3> QED
      BY <3>1, <3>2
  <2> QED
    BY <2>1, <2>2 DEF Recorded, OwnerNames, Names
<1> QED
  BY <1>1, <1>2 DEF Next, Moves

\* A call that takes units down has just read the manifest, or was at it before.
LEMMA TakingEffect ==
  ASSUME TypeOK, NEW a \in Apps, Moves(a), pc'[a] \in Taking
  PROVE  \/ ReadManifest(a)
         \/ pc[a] \in Taking /\ prior'[a] = prior[a]
<1> USE DEF TypeOK, Goto, Loop, Taking
<1>1. ASSUME NEW result, Return(a, result)
      PROVE  FALSE
  BY <1>1 DEF Return
<1>2. CASE Advance(a)
  BY <1>1, <1>2 DEF Advance, ReadNothing, Compared, StopGone, DisableGone,
       Pruned, ReloadPruned, Forget, FillUnit, Materialized, CollectLinkPaths,
       ReloadPrepared, Enabled, RestartUpdated, Start, ShowStatus, Started,
       TruncateManifest, Record
<1>3. ASSUME NEW v \in Units, AdvanceUnit(a, v)
      PROVE  pc[a] \in Taking /\ prior'[a] = prior[a]
  BY <1>3 DEF AdvanceUnit, CompareUnit, PruneUnit, TruncateUnit, LinkPath,
       EnableWanted, BeginStart
<1>4. CASE Fail(a) \/ Crash(a)
  BY <1>1, <1>4 DEF Fail, Crash, StopFails, DisableFails, RestartFails,
       FileOrReloadFails, SystemdErrs
<1>5. CASE \E r \in Requests[a] : Call(a, r)
  BY <1>5 DEF Call
<1> QED
  BY <1>2, <1>3, <1>4, <1>5 DEF Moves, Step

\* While a call takes units down, its prior set remains the manifest of its owner.
LEMMA CurrentStep ==
  ASSUME TypeOK, \A a \in Apps : Accepted(a) /\ Placed(a) /\ Current(a), [Next]_vars
  PROVE  \A b \in Apps : Current(b)'
<1> SUFFICES ASSUME NEW b \in Apps, Separate(b), pc'[b] \in Taking
             PROVE  prior'[b] \in {{}, manifest'[OwnerOf[b]]}
  BY DEF Current, Separate, Names
<1>1. CASE Environment \/ UNCHANGED vars
  BY <1>1 DEF Environment, Settle, vars, callVars, Current
<1>2. ASSUME NEW a \in Apps, Moves(a), a # b
      PROVE  prior'[b] \in {{}, manifest'[OwnerOf[b]]}
  <2>1. pc'[b] = pc[b] /\ prior'[b] = prior[b]
    BY <1>2, Frame
  <2>2. OwnerOf[a] # OwnerOf[b]
    BY <1>2 DEF Separate
  <2>3. manifest'[OwnerOf[b]] = manifest[OwnerOf[b]]
    BY <1>2, <2>2, ManifestEffect, UpkeepAssumption
  <2> QED
    BY <2>1, <2>3 DEF Current
<1>3. CASE Moves(b)
  <2>1. CASE ReadManifest(b)
    BY <2>1, UpkeepAssumption, SightsAre DEF ReadManifest, TypeOK
  <2>2. CASE pc[b] \in Taking /\ prior'[b] = prior[b]
    <3>1. manifest'[OwnerOf[b]] = manifest[OwnerOf[b]]
      BY <1>3, <2>2, ManifestEffect, UpkeepAssumption DEF Taking
    <3> QED
      BY <2>2, <3>1 DEF Current
  <2> QED
    BY <1>3, <2>1, <2>2, TakingEffect
<1> QED
  BY <1>1, <1>2, <1>3 DEF Next, Moves

-----------------------------------------------------------------------------
(***************************************************************************)
(* Installation: every wanted unit is on disk once the writing loop is     *)
(* through, and stays there.                                               *)
(***************************************************************************)
\* Steps of one application leave another's unit files alone.
LEMMA OthersFiles ==
  ASSUME TypeOK, Recorded, NEW a \in Apps, Accepted(a), Placed(a), Moves(a),
         NEW b \in Apps \ {a}, Separate(b), NEW u \in Names(b) \cap Units
  PROVE  files'[u] = files[u]
<1> SUFFICES ASSUME files'[u] # files[u]
             PROVE  FALSE
  OBVIOUS
<1>1. pc[a] # "idle" /\ u \in Gone(a) \cup Wanted(a)
  BY FilesEffect
<1>2. u \in OwnerNames(OwnerOf[a])
  BY <1>1, WantedNames DEF Recorded, Gone
<1> QED
  BY <1>2, SeparateNames

\* A call's own steps keep what it has written on file.
LEMMA OnFileOwnStep ==
  ASSUME TypeOK, NEW a \in Apps, Accepted(a), Placed(a), OnFile(a), Moves(a),
         Separate(a)
  PROVE  OnFile(a)'
<1> USE DEF TypeOK, Goto, Loop, Visited, Installing, Written, Wanted
<1>1. ASSUME NEW stage, Goto(a, stage), stage \notin Installing
      PROVE  OnFile(a)'
  BY <1>1 DEF OnFile
<1>2. CASE Fail(a) \/ Crash(a)
  BY <1>1, <1>2 DEF Fail, Crash, StopFails, DisableFails, RestartFails,
       FileOrReloadFails, SystemdErrs, Return
<1>3. CASE \E r \in Requests[a] : Call(a, r)
  BY <1>1, <1>3 DEF Call
<1>4. ASSUME NEW u \in Units, AdvanceUnit(a, u)
      PROVE  OnFile(a)'
  <2>1. CASE CompareUnit(a, u) \/ PruneUnit(a, u)
    BY <2>1 DEF CompareUnit, PruneUnit, OnFile
  <2>2. CASE TruncateUnit(a, u)
    BY <2>2, WantedType DEF TruncateUnit, WriteFile, OnFile, ManagerTypeOK
  <2>3. CASE LinkPath(a, u)
    BY <2>3 DEF LinkPath, LinkUnit, OnFile
  <2>4. CASE EnableWanted(a, u)
    BY <2>4 DEF EnableWanted, EnableUnit, OnFile
  <2>5. CASE BeginStart(a, u)
    BY <2>5 DEF BeginStart, OnFile, mgrVars
  <2> QED
    BY <1>4, <2>1, <2>2, <2>3, <2>4, <2>5 DEF AdvanceUnit
<1>5. CASE Advance(a)
  <2>1. CASE ReadNothing(a) \/ ReadManifest(a) \/ StopGone(a) \/ DisableGone(a)
             \/ Pruned(a) \/ Forget(a) \/ Record(a)
    BY <1>1, <2>1 DEF ReadNothing, ReadManifest, StopGone, DisableGone, Pruned, Forget,
         Record, Return
  <2>2. CASE Compared(a)
    BY <2>2 DEF Compared, OnFile
  <2>3. CASE ReloadPruned(a)
    BY <2>3 DEF ReloadPruned, OnFile
  <2>4. CASE FillUnit(a)
    BY <2>4, WantedType DEF FillUnit, WriteFile, OnFile, ManagerTypeOK
  <2>5. CASE Materialized(a)
    BY <2>5 DEF Materialized, OnFile, mgrVars
  <2>6. CASE CollectLinkPaths(a) \/ Enabled(a) \/ ShowStatus(a) \/ Started(a)
             \/ TruncateManifest(a)
    BY <2>6 DEF CollectLinkPaths, Enabled, ShowStatus, Started, TruncateManifest, OnFile,
         mgrVars
  <2>7. CASE ReloadPrepared(a)
    BY <2>7 DEF ReloadPrepared, Reload, OnFile
  <2>8. CASE RestartUpdated(a)
    BY <2>8 DEF RestartUpdated, RestartUnits, OnFile, mgrVars
  <2>9. CASE Start(a)
    BY <2>9 DEF Start, StartUnit, OnFile
  <2> QED
    BY <1>5, <2>1, <2>2, <2>3, <2>4, <2>5, <2>6, <2>7, <2>8, <2>9 DEF Advance
<1> QED
  BY <1>2, <1>3, <1>4, <1>5 DEF Moves, Step

\* The manager changes no unit file on its own.
LEMMA EnvironmentFiles ==
  ASSUME Environment
  PROVE  UNCHANGED <<files, manifest, callVars>>
BY DEF Environment, Settle, ManagerNext, UnitExits, TimerElapses, UnloadUnit, StartUnit, mgrVars

\* What a call has written stays on file, whoever takes a step.
LEMMA OnFileStep ==
  ASSUME TypeOK, Recorded, [Next]_vars,
         \A a \in Apps : Accepted(a) /\ Placed(a) /\ OnFile(a)
  PROVE  \A b \in Apps : OnFile(b)'
<1> SUFFICES ASSUME NEW b \in Apps, Separate(b)
             PROVE  OnFile(b)'
  BY DEF OnFile, Separate, Names
<1>1. CASE Environment \/ UNCHANGED vars
  BY <1>1, EnvironmentFiles DEF vars, mgrVars, callVars, OnFile, Wanted
<1>2. ASSUME NEW a \in Apps, Moves(a), a # b
      PROVE  OnFile(b)'
  <2>1. pc'[b] = pc[b] /\ req'[b] = req[b] /\ todo'[b] = todo[b]
    BY <1>2, Frame
  <2>2. CASE pc[b] \in Installing
    <3>1. \A u \in Wanted(b) : files'[u] = files[u]
      BY <1>2, <2>2, OthersFiles, WantedNames, WantedType DEF Installing
    <3> QED
      BY <2>1, <3>1 DEF OnFile, Wanted
  <2>3. CASE pc[b] \notin Installing
    BY <2>1, <2>3 DEF OnFile, Installing, Written
  <2> QED
    BY <2>2, <2>3
<1>3. CASE Moves(b)
  BY <1>3, OnFileOwnStep
<1> QED
  BY <1>1, <1>2, <1>3 DEF Next, Moves

\* An attach or reattach succeeds in one way: by writing its manifest.
LEMMA SuccessEffect ==
  ASSUME TypeOK, NEW a \in Apps, Accepted(a), Placed(a), Moves(a),
         Succeeded(a, {"attach", "reattach"})'
  PROVE  Record(a)
<1> USE DEF TypeOK, Goto, Loop, Visited, Succeeded
<1>1. ASSUME Advance(a)
      PROVE  Record(a)
  <2>1. ~ReadNothing(a) /\ ~Forget(a)
    BY DEF ReadNothing, Forget, Return, Placed
  <2>2. CASE ReadManifest(a) \/ Compared(a) \/ StopGone(a) \/ DisableGone(a) \/ Pruned(a)
    BY <2>2 DEF ReadManifest, Compared, StopGone, DisableGone, Pruned
  <2>3. CASE ReloadPruned(a) \/ FillUnit(a) \/ Materialized(a) \/ CollectLinkPaths(a)
    BY <2>3 DEF ReloadPruned, FillUnit, Materialized, CollectLinkPaths
  <2>4. CASE ReloadPrepared(a) \/ Enabled(a) \/ RestartUpdated(a) \/ Start(a)
    BY <2>4 DEF ReloadPrepared, Enabled, RestartUpdated, Start
  <2>5. CASE ShowStatus(a) \/ Started(a) \/ TruncateManifest(a)
    BY <2>5 DEF ShowStatus, Started, TruncateManifest
  <2> QED
    BY <1>1, <2>1, <2>2, <2>3, <2>4, <2>5 DEF Advance
<1>2. ASSUME NEW v \in Units, AdvanceUnit(a, v)
      PROVE  FALSE
  BY <1>2 DEF AdvanceUnit, CompareUnit, PruneUnit, TruncateUnit, LinkPath,
       EnableWanted, BeginStart
<1>3. CASE Fail(a) \/ Crash(a)
  BY <1>3 DEF Fail, Crash, StopFails, DisableFails, RestartFails,
       FileOrReloadFails, SystemdErrs, Return
<1>4. CASE \E r \in Requests[a] : Call(a, r)
  BY <1>4 DEF Call, None
<1> QED
  BY <1>1, <1>2, <1>3, <1>4 DEF Moves, Step

\* Success stays true of the files and the manifest, whoever takes a step.
LEMMA InstalledStep ==
  ASSUME TypeOK, Recorded, Installed, [Next]_vars,
         \A a \in Apps : Accepted(a) /\ Placed(a) /\ OnFile(a)
  PROVE  Installed'
<1> SUFFICES ASSUME NEW b \in Apps, Separate(b), Succeeded(b, {"attach", "reattach"})'
             PROVE  /\ manifest'[OwnerOf[b]] = Wanted(b)'
                    /\ \A u \in Wanted(b)' : files'[u] = req'[b].want[u]
  BY DEF Installed, Separate, Names
<1>1. CASE Environment \/ UNCHANGED vars
  BY <1>1, EnvironmentFiles DEF vars, mgrVars, callVars, Installed, Succeeded, Wanted
<1>2. ASSUME NEW a \in Apps, Moves(a), a # b
      PROVE  /\ manifest'[OwnerOf[b]] = Wanted(b)'
             /\ \A u \in Wanted(b)' : files'[u] = req'[b].want[u]
  <2>1. pc'[b] = pc[b] /\ req'[b] = req[b] /\ outcome'[b] = outcome[b]
    BY <1>2, Frame
  <2>2. Succeeded(b, {"attach", "reattach"})
    BY <2>1 DEF Succeeded
  <2>3. manifest'[OwnerOf[b]] = manifest[OwnerOf[b]]
    BY <1>2, ManifestEffect, UpkeepAssumption DEF Separate
  <2>4. \A u \in Wanted(b) : files'[u] = files[u]
    BY <1>2, <2>2, OthersFiles, WantedNames, WantedType DEF Succeeded
  <2> QED
    BY <2>1, <2>2, <2>3, <2>4 DEF Installed, Wanted
<1>3. CASE Moves(b)
  <2>1. Record(b)
    BY <1>3, SuccessEffect
  <2>2. \A u \in Wanted(b) : files[u] = req[b].want[u]
    BY <2>1 DEF Record, OnFile, Written, Installing
  <2>3. req'[b] = req[b] /\ files' = files
    BY <2>1 DEF Record, Return, mgrVars
  <2>4. manifest'[OwnerOf[b]] = Wanted(b)
    BY <2>1, UpkeepAssumption DEF Record, TypeOK
  <2> QED
    BY <2>2, <2>3, <2>4 DEF Wanted
<1> QED
  BY <1>1, <1>2, <1>3 DEF Next, Moves

-----------------------------------------------------------------------------
\* The invariant holds initially.
LEMMA InvInit == Init => Inv
<1> SUFFICES ASSUME Init
             PROVE  Inv
  OBVIOUS
<1>1. TypeOK
  BY InitType
<1>2. \A a \in Apps : Accepted(a) /\ Placed(a) /\ Current(a) /\ OnFile(a)
  BY DEF Init, Accepted, Placed, Current, OnFile, Taking, Installing, Written, None
<1>3. Recorded /\ Installed
  BY UpkeepAssumption DEF Init, Recorded, Installed, Succeeded, None
<1> QED
  BY <1>1, <1>2, <1>3 DEF Inv

\* Inv is inductive: every step of any application, of the manager and of the
\* environment preserves it.
LEMMA InvStep == Inv /\ [Next]_vars => Inv'
<1> SUFFICES ASSUME Inv, [Next]_vars
             PROVE  Inv'
  OBVIOUS
<1>1. /\ TypeOK /\ Recorded /\ Installed
      /\ \A a \in Apps : Accepted(a) /\ Placed(a) /\ Current(a) /\ OnFile(a)
  BY DEF Inv
<1>2. TypeOK' /\ Recorded'
  BY <1>1, TypeStep, RecordedStep
<1>3. \A a \in Apps : Accepted(a)' /\ Placed(a)'
  BY <1>1, ControlStep
<1>4. \A a \in Apps : Current(a)' /\ OnFile(a)'
  BY <1>1, CurrentStep, OnFileStep
<1>5. Installed'
  BY <1>1, InstalledStep
<1> QED
  BY <1>2, <1>3, <1>4, <1>5 DEF Inv

\* The stages, files and manifests of all calls are related as Inv says, in every
\* reachable state of any number of applications.
THEOREM Invariance == Spec => []Inv
BY InvInit, InvStep, PTL DEF Spec

\* Every variable keeps its type: in particular no unit file ever holds the text
\* of a unit that did not render.
THEOREM TypeCorrect == Spec => []TypeOK
<1>1. Inv => TypeOK
  BY DEF Inv
<1> QED
  BY <1>1, Invariance, PTL

\* A successful attach or reattach of an application that keeps to itself means
\* that its manifest and its unit files are the requested ones, whatever failed or
\* crashed before and whatever other owners do.
THEOREM InstalledCorrect == Spec => []Installed
<1>1. Inv => Installed
  BY DEF Inv
<1> QED
  BY <1>1, Invariance, PTL

-----------------------------------------------------------------------------
(***************************************************************************)
(* What a step of an application may do to units.                          *)
(***************************************************************************)
\* Only stop takes units down; only start and restart bring others up.
LEMMA ActiveEffect ==
  ASSUME TypeOK, NEW a \in Apps, Placed(a), Step(a) \/ Crash(a),
         NEW u \in Units, active'[u] # active[u]
  PROVE  \/ pc[a] = "stop" /\ u \in Gone(a)
         \/ pc[a] \in {"start", "restart"} /\ u \in Wanted(a) /\ active'[u] # Absent
<1> USE DEF TypeOK, ManagerTypeOK
<1>1. \/ active' = active
      \/ pc[a] = "stop" /\ StopUnits(Gone(a))
      \/ pc[a] = "restart" /\ \E S \in SUBSET updated[a] : RestartUnits(S)
      \/ pc[a] = "start" /\ StartUnit(at[a])
  <2>1. CASE Advance(a)
    BY <2>1 DEF Advance, ReadNothing, ReadManifest, Compared, StopGone, DisableGone,
         DisableUnits, Pruned, ReloadPruned, Reload, Forget, FillUnit, WriteFile,
         Materialized, CollectLinkPaths, ReloadPrepared, Enabled, RestartUpdated, Start,
         ShowStatus, Started, TruncateManifest, Record, mgrVars
  <2>2. ASSUME NEW v \in Units, AdvanceUnit(a, v)
        PROVE  active' = active
    BY <2>2 DEF AdvanceUnit, CompareUnit, PruneUnit, TruncateUnit, WriteFile, LinkPath,
         LinkUnit, EnableWanted, EnableUnit, BeginStart, mgrVars
  <2>3. CASE RestartFails(a)
    BY <2>3 DEF RestartFails, mgrVars
  <2>4. CASE StopFails(a) \/ DisableFails(a) \/ FileOrReloadFails(a) \/ SystemdErrs(a)
             \/ Crash(a)
    BY <2>4 DEF Crash, StopFails, DisableFails, FileOrReloadFails, SystemdErrs, mgrVars
  <2> QED
    BY <2>1, <2>2, <2>3, <2>4 DEF Step, Fail
<1>2. CASE pc[a] = "stop" /\ StopUnits(Gone(a))
  BY <1>2 DEF StopUnits
<1>3. ASSUME pc[a] = "restart", NEW S \in SUBSET updated[a], RestartUnits(S)
      PROVE  u \in Wanted(a) /\ active'[u] # Absent
  BY <1>3, ManagerAssumption DEF RestartUnits, Startable, Placed
<1>4. CASE pc[a] = "start" /\ StartUnit(at[a])
  BY <1>4, ManagerAssumption DEF StartUnit, Startable, Placed, Installing
<1> QED
  BY <1>1, <1>2, <1>3, <1>4

\* Only disable takes enablement away, and only enable gives it.
LEMMA EnabledEffect ==
  ASSUME TypeOK, NEW a \in Apps, Placed(a), Step(a) \/ Crash(a), NEW u \in Units
  PROVE  /\ u \in enabled /\ u \notin enabled' => pc[a] = "disable" /\ u \in Gone(a)
         /\ u \notin enabled /\ u \in enabled' => pc[a] = "enable" /\ u \in Wanted(a)
<1> USE DEF TypeOK, ManagerTypeOK
<1>1. \/ enabled' = enabled
      \/ pc[a] = "disable" /\ DisableUnits(Gone(a))
      \/ \E v \in Units : EnableWanted(a, v)
  <2>1. CASE Advance(a)
    BY <2>1 DEF Advance, ReadNothing, ReadManifest, Compared, StopGone, StopUnits,
         DisableGone, Pruned, ReloadPruned, Reload, Forget, FillUnit, WriteFile,
         Materialized, CollectLinkPaths, ReloadPrepared, Enabled, RestartUpdated,
         RestartUnits, Start, StartUnit, ShowStatus, Started, TruncateManifest, Record,
         mgrVars
  <2>2. ASSUME NEW v \in Units, AdvanceUnit(a, v)
        PROVE  enabled' = enabled \/ EnableWanted(a, v)
    BY <2>2 DEF AdvanceUnit, CompareUnit, PruneUnit, TruncateUnit, WriteFile, LinkPath,
         LinkUnit, BeginStart, mgrVars
  <2>3. CASE Fail(a) \/ Crash(a)
    BY <2>3 DEF Fail, Crash, StopFails, StopUnits, DisableFails, RestartFails,
         RestartUnits, FileOrReloadFails, SystemdErrs, mgrVars
  <2> QED
    BY <2>1, <2>2, <2>3 DEF Step
<1>2. CASE pc[a] = "disable" /\ DisableUnits(Gone(a))
  BY <1>2 DEF DisableUnits
<1>3. ASSUME NEW v \in Units, EnableWanted(a, v)
      PROVE  /\ enabled' = enabled \cup {v}
             /\ pc[a] = "enable" /\ v \in Wanted(a)
  BY <1>3 DEF EnableWanted, EnableUnit, Placed, Installing
<1> QED
  BY <1>1, <1>2, <1>3

\* A file that disappears was pruned: writing truncates files, but keeps them.
LEMMA DeletedEffect ==
  ASSUME TypeOK, NEW a \in Apps, Accepted(a), Placed(a), Step(a),
         NEW u \in Units, files[u] # Absent, files'[u] = Absent
  PROVE  pc[a] = "prune" /\ u \in Gone(a)
<1>1. FillUnit(a) \/ \E v \in Units : PruneUnit(a, v) \/ TruncateUnit(a, v)
  BY Writers DEF Moves
<1>2. ASSUME NEW v \in Units, PruneUnit(a, v)
      PROVE  pc[a] = "prune" /\ u \in Gone(a)
  BY <1>2, FilesEffect DEF Moves, PruneUnit
<1>3. ASSUME NEW v \in Units, TruncateUnit(a, v)
      PROVE  FALSE
  BY <1>3 DEF TruncateUnit, WriteFile, Torn, Absent, TypeOK, ManagerTypeOK
<1>4. ASSUME FillUnit(a)
      PROVE  FALSE
  <2>1. pc[a] = "fill" /\ at[a] \in Wanted(a)
    BY <1>4 DEF FillUnit, Placed, Installing
  <2>2. req[a].want[at[a]] \in Versions
    BY <2>1, RenderedText DEF Installing
  <2> QED
    BY <1>4, <2>2, ManagerAssumption DEF FillUnit, WriteFile, TypeOK, ManagerTypeOK
<1> QED
  BY <1>1, <1>2, <1>3, <1>4

\* No call stops, disables or deletes a unit that its owner's manifest does not
\* name, or that the call itself wants.
THEOREM OwnedCorrect == Spec => TakesDownOnlyOwned
<1>1. ASSUME Inv, NEW a \in Apps, Separate(a), Step(a), NEW u \in Units, Downed(u)
      PROVE  u \in manifest[OwnerOf[a]] \ Wanted(a)
  <2>1. TypeOK /\ Accepted(a) /\ Placed(a) /\ Current(a)
    BY <1>1 DEF Inv
  <2>2. pc[a] \in {"stop", "disable", "prune"} /\ u \in Gone(a)
    <3>1. CASE active[u] # Absent /\ active'[u] = Absent
      BY <1>1, <2>1, <3>1, ActiveEffect
    <3>2. CASE files[u] # Absent /\ files'[u] = Absent
      BY <1>1, <2>1, <3>2, DeletedEffect
    <3>3. CASE u \in enabled /\ u \notin enabled'
      BY <1>1, <2>1, <3>3, EnabledEffect
    <3> QED
      BY <1>1, <3>1, <3>2, <3>3 DEF Downed
  <2> QED
    BY <1>1, <2>1, <2>2 DEF Current, Taking, Gone
<1>2. Inv => \A a \in Apps : Separate(a) /\ Step(a) =>
               \A u \in Units : Downed(u) => u \in manifest[OwnerOf[a]] \ Wanted(a)
  BY <1>1
<1> QED
  BY <1>2, Invariance, PTL DEF TakesDownOnlyOwned

\* A call touches units of its own application's names only, and no manifest but
\* its owner's.
THEOREM UntouchedCorrect == Spec => OthersUntouched
<1>1. ASSUME Inv, NEW a \in Apps, Separate(a), Step(a) \/ Crash(a)
      PROVE  /\ \A u \in Units \ Names(a) :
                  /\ files'[u] = files[u]
                  /\ active'[u] = active[u]
                  /\ u \in enabled' <=> u \in enabled
             /\ \A o \in Owners \ {OwnerOf[a]} : manifest'[o] = manifest[o]
  <2>1. TypeOK /\ Accepted(a) /\ Placed(a) /\ Recorded /\ Moves(a)
    BY <1>1 DEF Inv, Moves
  <2>2. pc[a] # "idle" => Wanted(a) \cup Gone(a) \subseteq Names(a)
    BY <1>1, <2>1, WantedNames, SeparateNames DEF Recorded, Gone
  <2>3. \A u \in Units \ Names(a) : files'[u] = files[u]
    BY <2>1, <2>2, FilesEffect
  <2>4. \A u \in Units \ Names(a) : active'[u] = active[u]
    BY <1>1, <2>1, <2>2, ActiveEffect
  <2>5. \A u \in Units \ Names(a) : u \in enabled' <=> u \in enabled
    BY <1>1, <2>1, <2>2, EnabledEffect
  <2>6. \A o \in Owners \ {OwnerOf[a]} : manifest'[o] = manifest[o]
    BY <2>1, ManifestEffect
  <2> QED
    BY <2>3, <2>4, <2>5, <2>6
<1>2. Inv => \A a \in Apps : Separate(a) /\ (Step(a) \/ Crash(a)) =>
               /\ \A u \in Units \ Names(a) :
                    /\ files'[u] = files[u]
                    /\ active'[u] = active[u]
                    /\ u \in enabled' <=> u \in enabled
               /\ \A o \in Owners \ {OwnerOf[a]} : manifest'[o] = manifest[o]
  BY <1>1
<1> QED
  BY <1>2, Invariance, PTL DEF OthersUntouched
-----------------------------------------------------------------------------
(***************************************************************************)
(* What a successful call has made of the manager, for any applications    *)
(* that keep to themselves: what it enabled is linked and in effect, what  *)
(* it restarted runs its new definition, and a detach leaves nothing.      *)
(***************************************************************************)
(***************************************************************************)
(* The commands a step of a call may run, and what they do to one unit.    *)
(***************************************************************************)
\* A step runs at most one command, and each command belongs to one stage.
LEMMA Commands ==
  ASSUME TypeOK, NEW a \in Apps, Placed(a), Moves(a)
  PROVE  \/ UNCHANGED mgrVars
         \/ pc[a] = "stop" /\ StopUnits(Gone(a))
         \/ pc[a] = "disable" /\ DisableUnits(Gone(a))
         \/ pc[a] \in {"prune", "write", "fill"} /\ \E u, c : WriteFile(u, c)
         \/ pc[a] \in {"refresh", "link"} /\ Reload
         \/ pc[a] = "link" /\ \E u \in links[a] : LinkUnit(u)
         \/ pc[a] = "enable" /\ \E u \in todo[a] : EnableUnit(u)
         \/ pc[a] = "restart" /\ \E S \in SUBSET updated[a] : RestartUnits(S)
         \/ pc[a] = "start" /\ StartUnit(at[a])
<1>1. CASE Advance(a)
  BY <1>1 DEF Advance, ReadNothing, ReadManifest, Compared, StopGone, DisableGone, Pruned,
       ReloadPruned, Forget, FillUnit, Materialized, CollectLinkPaths, ReloadPrepared,
       Enabled, RestartUpdated, Start, ShowStatus, Started, TruncateManifest, Record
<1>2. ASSUME NEW u \in Units, AdvanceUnit(a, u)
      PROVE  \/ UNCHANGED mgrVars
             \/ pc[a] \in {"prune", "write"} /\ \E c : WriteFile(u, c)
             \/ pc[a] = "link" /\ u \in links[a] /\ LinkUnit(u)
             \/ pc[a] = "enable" /\ u \in todo[a] /\ EnableUnit(u)
  BY <1>2 DEF AdvanceUnit, CompareUnit, PruneUnit, TruncateUnit, LinkPath, EnableWanted,
       BeginStart
<1>3. CASE Fail(a) \/ Crash(a) \/ \E r \in Requests[a] : Call(a, r)
  BY <1>3 DEF Fail, Crash, Call, StopFails, DisableFails, RestartFails, FileOrReloadFails,
       SystemdErrs
<1> QED
  BY <1>1, <1>2, <1>3 DEF Moves, Step

\* Whatever happens, the manager comes to hold what it held, what is on disk, or
\* nothing; and a unit goes on running, stops, or is started with its definition.
LEMMA Memory ==
  ASSUME TypeOK, \A a \in Apps : Placed(a), [Next]_vars, NEW u \in Units
  PROVE  /\ loaded'[u] \in {loaded[u], OnDisk(u), Absent}
         /\ active'[u] \in {active[u], Definition(u), Absent}
<1> USE DEF TypeOK, ManagerTypeOK
<1>1. \A v \in Units : StartUnit(v) => /\ loaded'[u] \in {loaded[u], OnDisk(u), Absent}
                                       /\ active'[u] \in {active[u], Definition(u), Absent}
  BY DEF StartUnit, Definition
<1>2. CASE Environment \/ UNCHANGED vars
  <2>1. CASE ManagerNext
    BY <1>1, <2>1, ManagerAssumption DEF ManagerNext, UnitExits, TimerElapses, UnloadUnit
  <2> QED
    BY <1>2, <2>1 DEF Environment, Settle, vars, mgrVars
<1>3. ASSUME NEW a \in Apps, Moves(a)
      PROVE  /\ loaded'[u] \in {loaded[u], OnDisk(u), Absent}
             /\ active'[u] \in {active[u], Definition(u), Absent}
  <2>1. CASE pc[a] = "start" /\ StartUnit(at[a])
    BY <1>1, <2>1 DEF Placed, StartUnit, Definition
  <2>2. CASE UNCHANGED mgrVars
    BY <2>2 DEF mgrVars
  <2>3. ASSUME NEW S, StopUnits(S) \/ DisableUnits(S) \/ RestartUnits(S)
        PROVE  /\ loaded'[u] \in {loaded[u], OnDisk(u), Absent}
               /\ active'[u] \in {active[u], Definition(u), Absent}
    BY <2>3 DEF StopUnits, DisableUnits, RestartUnits, Definition
  <2>4. CASE Reload \/ \E v : LinkUnit(v) \/ EnableUnit(v) \/ \E c : WriteFile(v, c)
    BY <2>4 DEF Reload, LinkUnit, EnableUnit, WriteFile
  <2> QED
    BY <1>3, <2>1, <2>2, <2>3, <2>4, Commands
<1> QED
  BY <1>2, <1>3 DEF Next, Moves

\* Links and enablement come and go with link, enable and disable.
LEMMA LinksEffect ==
  ASSUME TypeOK, NEW a \in Apps, Placed(a), Moves(a), NEW u \in Units
  PROVE  /\ u \in linked /\ u \notin linked' => pc[a] = "disable" /\ u \in Gone(a)
         /\ u \in enabled /\ u \notin enabled' => pc[a] = "disable" /\ u \in Gone(a)
         /\ u \notin linked /\ u \in linked' => pc[a] = "link" /\ u \in links[a]
         /\ u \notin enabled /\ u \in enabled' => pc[a] = "enable" /\ u \in todo[a]
BY Commands DEF mgrVars, StopUnits, DisableUnits, WriteFile, Reload, LinkUnit, EnableUnit,
   RestartUnits, StartUnit

\* On their own, the manager and the environment change definitions and what runs.
LEMMA EnvironmentEffect ==
  ASSUME Environment
  PROVE  UNCHANGED <<files, linked, enabled, manifest, callVars>>
BY DEF Environment, Settle, ManagerNext, UnitExits, TimerElapses, UnloadUnit, StartUnit,
   mgrVars, callVars

-----------------------------------------------------------------------------
(***************************************************************************)
(* Stages and loops.                                                       *)
(***************************************************************************)
\* Every call stays prepared, whoever takes a step.
LEMMA PreparedStep ==
  ASSUME TypeOK, \A a \in Apps : Accepted(a) /\ Placed(a) /\ Prepared(a), [Next]_vars
  PROVE  \A b \in Apps : Prepared(b)'
<1> SUFFICES ASSUME NEW b \in Apps
             PROVE  Prepared(b)'
  OBVIOUS
<1> USE DEF TypeOK, Goto, Loop, Visited
<1>1. CASE Environment \/ UNCHANGED vars
  BY <1>1, EnvironmentEffect DEF vars, callVars, Prepared, Batch, Wanted
<1>2. ASSUME NEW a \in Apps, Moves(a), a # b
      PROVE  Prepared(b)'
  BY <1>2, Frame DEF Prepared, Batch, Wanted
<1>3. ASSUME NEW result, Return(b, result)
      PROVE  Prepared(b)'
  BY <1>3 DEF Return, Prepared
<1>4. ASSUME NEW u \in Units, AdvanceUnit(b, u)
      PROVE  Prepared(b)'
  BY <1>4 DEF AdvanceUnit, CompareUnit, PruneUnit, TruncateUnit, LinkPath, EnableWanted,
       BeginStart, Prepared, Batch, Wanted
<1>5. CASE Advance(b)
  <2>1. CASE ReadNothing(b) \/ Forget(b) \/ Record(b)
    BY <1>3, <2>1 DEF ReadNothing, Forget, Record
  <2>2. CASE ReadManifest(b) \/ Compared(b) \/ StopGone(b) \/ DisableGone(b) \/ Pruned(b)
    BY <2>2 DEF ReadManifest, Compared, StopGone, DisableGone, Pruned, Prepared
  <2>3. CASE ReloadPruned(b) \/ FillUnit(b) \/ Materialized(b)
    BY <2>3 DEF ReloadPruned, FillUnit, Materialized, Prepared
  <2>4. CASE CollectLinkPaths(b)
    <3>1. PICK T \in SeenTargets(b) :
            links' = [links EXCEPT ![b] = IF LinkUnits THEN Batch(b) \cup T ELSE {}]
      BY <2>4 DEF CollectLinkPaths
    <3>2. T \subseteq UNION {Target[u] : u \in Batch(b)}
      BY DEF SeenTargets, Targets
    <3>3. Batch(b)' = Batch(b) /\ pc'[b] = "link"
      BY <2>4 DEF CollectLinkPaths, Batch, Wanted, Goto, TypeOK
    <3> QED
      BY <3>1, <3>2, <3>3 DEF Prepared, TypeOK
  <2>5. CASE ReloadPrepared(b) \/ Enabled(b) \/ RestartUpdated(b) \/ Start(b)
    BY <2>5 DEF ReloadPrepared, Enabled, RestartUpdated, Start, Prepared
  <2>6. CASE ShowStatus(b) \/ Started(b) \/ TruncateManifest(b)
    BY <2>6 DEF ShowStatus, Started, TruncateManifest, Prepared
  <2> QED
    BY <1>5, <2>1, <2>2, <2>3, <2>4, <2>5, <2>6 DEF Advance
<1>6. CASE \E r \in Requests[b] : Call(b, r)
  BY <1>6 DEF Call, Prepared
<1>7. CASE Fail(b) \/ Crash(b)
  BY <1>3, <1>7 DEF Fail, Crash, StopFails, DisableFails, RestartFails, FileOrReloadFails,
     SystemdErrs
<1> QED
  BY <1>1, <1>2, <1>4, <1>5, <1>6, <1>7 DEF Next, Moves, Step

-----------------------------------------------------------------------------
(***************************************************************************)
(* Installing.                                                             *)
(***************************************************************************)
\* From the last write on, the file of a wanted unit holds the requested text.
LEMMA TextOnFile ==
  ASSUME TypeOK, Installed, NEW a \in Apps, OnFile(a), Separate(a),
         pc[a] \in Written \/ Attached(a), NEW u \in Wanted(a)
  PROVE  files[u] = req[a].want[u]
BY DEF OnFile, Installed, Attached

\* What the manager holds for the units of a call that has written them, it holds
\* after any step.
LEMMA HeldOn ==
  ASSUME TypeOK, Recorded, Installed, [Next]_vars,
         \A c \in Apps : Accepted(c) /\ Placed(c),
         NEW a \in Apps, OnFile(a), Effective(a), Separate(a),
         pc[a] \in Written \/ Attached(a), NEW u \in Wanted(a)
  PROVE  /\ Reloaded(a) => loaded'[u] \in {Absent, req[a].want[u]}
         /\ u \in linked => u \in linked'
         /\ u \in enabled => u \in enabled'
         /\ Reloaded(a) /\ active[u] \in {Absent, req[a].want[u]} =>
              active'[u] \in {Absent, req[a].want[u]}
<1>1. u \in Units /\ u \in Names(a) /\ files[u] = req[a].want[u]
  BY WantedType, WantedNames, TextOnFile DEF Attached, Succeeded, Written, Installing
<1>2. /\ loaded'[u] \in {loaded[u], files[u], Absent}
      /\ active'[u] \in {active[u], loaded[u], files[u], Absent}
  BY <1>1, Memory DEF OnDisk, Definition
<1>3. (u \in linked => u \in linked') /\ (u \in enabled => u \in enabled')
  <2>1. CASE Environment \/ UNCHANGED vars
    BY <2>1, EnvironmentEffect DEF vars, mgrVars
  <2>2. ASSUME NEW b \in Apps, Moves(b), pc[b] = "disable", u \in Gone(b)
        PROVE  FALSE
    <3>1. a # b
      BY <2>2 DEF Written, Installing, Attached, Succeeded
    <3>2. u \in OwnerNames(OwnerOf[b])
      BY <2>2 DEF Recorded, Gone
    <3> QED
      BY <1>1, <3>1, <3>2, SeparateNames
  <2> QED
    BY <1>1, <2>1, <2>2, LinksEffect DEF Next, Moves
<1> QED
  BY <1>1, <1>2, <1>3 DEF Effective

\* A call's own steps bring its units into effect in time.
LEMMA EffectiveOwnStep ==
  ASSUME TypeOK, Recorded, Installed, [Next]_vars,
         \A c \in Apps : Accepted(c) /\ Placed(c),
         NEW a \in Apps, OnFile(a), Prepared(a), Effective(a), Separate(a), Moves(a)
  PROVE  Effective(a)'
<1> USE DEF TypeOK, Goto, Loop, Visited
<1>1. ASSUME pc'[a] \notin Written, ~Attached(a)'
      PROVE  Effective(a)'
  BY <1>1 DEF Effective, Reloaded, Enabling, Restarting, Written, Installing
<1>2. ASSUME NEW result \in {"err", "rejected", "crashed"}, Return(a, result)
      PROVE  Effective(a)'
  BY <1>1, <1>2 DEF Return, Written, Installing, Attached, Succeeded
<1>3. ASSUME pc[a] \in Written
      PROVE  /\ Wanted(a) \in SUBSET Units /\ updated[a] \subseteq Wanted(a)
             /\ \A u \in Wanted(a) : files[u] = req[a].want[u]
             /\ Reloaded(a) => \A u \in Wanted(a) : loaded'[u] \in {Absent, req[a].want[u]}
             /\ \A S \in SUBSET Wanted(a) : Links(S) => Links(S)'
             /\ Reloaded(a) => \A u \in Wanted(a) : active[u] \in {Absent, req[a].want[u]} =>
                                  active'[u] \in {Absent, req[a].want[u]}
  BY <1>3, HeldOn, TextOnFile, WantedType DEF Placed, Links
<1>4. ASSUME pc[a] \in Written, Reload
      PROVE  \A u \in Wanted(a) : loaded'[u] \in {Absent, req[a].want[u]}
  BY <1>3, <1>4 DEF Reload, OnDisk
<1>5. ASSUME NEW u \in Units, AdvanceUnit(a, u)
      PROVE  Effective(a)'
  <2>1. CASE CompareUnit(a, u) \/ PruneUnit(a, u) \/ TruncateUnit(a, u)
    BY <1>1, <2>1 DEF CompareUnit, PruneUnit, TruncateUnit, Written, Installing, Attached,
       Succeeded
  <2>2. CASE LinkPath(a, u)
    BY <1>3, <2>2 DEF LinkPath, Written, Installing, Effective, Reloaded, Enabling,
       Restarting, Attached, Succeeded, Restarted, Restarts, Wanted
  <2>3. CASE EnableWanted(a, u)
    BY <1>3, <2>3 DEF EnableWanted, EnableUnit, Visible, Written, Installing, Effective,
       Reloaded, Enabling, Restarting, Attached, Succeeded, Restarted, Restarts, Wanted, Links
  <2>4. CASE BeginStart(a, u)
    BY <1>3, <2>4 DEF BeginStart, Written, Installing, Effective, Reloaded, Enabling,
       Restarting, Attached, Succeeded, Restarted, Restarts, Wanted
  <2> QED
    BY <1>5, <2>1, <2>2, <2>3, <2>4 DEF AdvanceUnit
<1>6. CASE Advance(a)
  <2>1. CASE ReadNothing(a) \/ Forget(a)
    BY <1>1, <2>1 DEF ReadNothing, Forget, Return, Placed, Written, Installing, Attached,
       Succeeded
  <2>2. CASE ReadManifest(a) \/ Compared(a) \/ StopGone(a) \/ DisableGone(a) \/ Pruned(a)
             \/ ReloadPruned(a) \/ FillUnit(a)
    BY <1>1, <2>2 DEF ReadManifest, Compared, StopGone, DisableGone, Pruned, ReloadPruned,
       FillUnit, Written, Installing, Attached, Succeeded
  <2>3. CASE Materialized(a)
    BY <2>3 DEF Materialized, Placed, Effective, Reloaded, Enabling, Restarting, Attached,
       Succeeded
  <2>4. CASE CollectLinkPaths(a)
    BY <1>3, <2>4 DEF CollectLinkPaths, Written, Installing, Effective, Reloaded, Enabling,
       Restarting, Attached, Succeeded, Restarted, Restarts, Wanted
  <2>5. CASE ReloadPrepared(a)
    BY <1>3, <1>4, <2>5 DEF ReloadPrepared, Written, Installing, Effective, Reloaded,
       Enabling, Restarting, Attached, Succeeded, Restarted, Restarts, Wanted, Links
  <2>6. CASE Enabled(a)
    BY <1>3, <2>6 DEF Enabled, Written, Installing, Effective, Reloaded, Enabling,
       Restarting, Attached, Succeeded, Restarted, Restarts, Wanted
  <2>7. CASE RestartUpdated(a)
    BY <1>3, <2>7 DEF RestartUpdated, RestartUnits, Definition, OnDisk, Written, Installing,
       Effective, Reloaded, Enabling, Restarting, Attached, Succeeded, Restarted, Restarts,
       Wanted
  <2>8. CASE Start(a) \/ ShowStatus(a)
    BY <1>3, <2>8 DEF Start, ShowStatus, Written, Installing, Effective, Reloaded, Enabling,
       Restarting, Attached, Succeeded, Restarted, Restarts, Wanted
  <2>9. CASE Started(a) \/ TruncateManifest(a)
    BY <1>3, <2>9 DEF Started, TruncateManifest, Prepared, Written, Installing, Effective,
       Reloaded, Enabling, Restarting, Attached, Succeeded, Restarted, Restarts, Wanted
  <2>10. CASE Record(a)
    BY <1>3, <2>10 DEF Record, Return, Prepared, Written, Installing, Effective, Reloaded,
       Enabling, Restarting, Attached, Succeeded, Restarted, Restarts, Wanted
  <2> QED
    BY <1>6, <2>1, <2>2, <2>3, <2>4, <2>5, <2>6, <2>7, <2>8, <2>9, <2>10 DEF Advance
<1>7. CASE \E r \in Requests[a] : Call(a, r)
  BY <1>1, <1>7 DEF Call, None, Written, Installing, Attached, Succeeded
<1>8. CASE Fail(a) \/ Crash(a)
  BY <1>2, <1>8 DEF Fail, Crash, StopFails, DisableFails, RestartFails, FileOrReloadFails,
     SystemdErrs
<1> QED
  BY <1>5, <1>6, <1>7, <1>8 DEF Moves, Step

\* What a call has brought into effect stays in effect, whoever takes a step.
LEMMA EffectiveStep ==
  ASSUME Inv, Effects, [Next]_vars
  PROVE  \A b \in Apps : Effective(b)'
<1> SUFFICES ASSUME NEW b \in Apps, Separate(b)
             PROVE  Effective(b)'
  BY DEF Effective, Separate, Names
<1> USE DEF Inv, Effects
<1>1. CASE Moves(b)
  BY <1>1, EffectiveOwnStep
<1>2. ASSUME /\ pc'[b] = pc[b] /\ req'[b] = req[b] /\ todo'[b] = todo[b]
             /\ updated'[b] = updated[b] /\ at'[b] = at[b] /\ outcome'[b] = outcome[b]
      PROVE  Effective(b)'
  <2>1. /\ Reloaded(b)' = Reloaded(b) /\ Enabling(b)' = Enabling(b)
        /\ Restarting(b)' = Restarting(b) /\ Wanted(b)' = Wanted(b)
    BY <1>2 DEF Reloaded, Enabling, Restarting, Attached, Succeeded, Restarted, Restarts,
       Wanted
  <2>2. CASE pc[b] \in Written \/ Attached(b)
    BY <1>2, <2>1, <2>2, HeldOn DEF Effective, Links, Placed, Reloaded, Enabling
  <2>3. CASE ~(pc[b] \in Written \/ Attached(b))
    BY <1>2, <2>1, <2>3 DEF Effective, Reloaded, Enabling, Restarting, Written, Installing
  <2> QED
    BY <2>2, <2>3
<1>3. CASE Environment \/ UNCHANGED vars
  BY <1>2, <1>3, EnvironmentEffect DEF vars, callVars
<1>4. ASSUME NEW a \in Apps, Moves(a), a # b
      PROVE  Effective(b)'
  BY <1>2, <1>4, Frame
<1> QED
  BY <1>1, <1>3, <1>4 DEF Next, Moves

-----------------------------------------------------------------------------
(***************************************************************************)
(* Dismantling.                                                            *)
(***************************************************************************)
\* The units a detach takes down are its application's own.
LEMMA PriorNames ==
  ASSUME TypeOK, Recorded, NEW a \in Apps, Separate(a), NEW u \in prior[a]
  PROVE  u \in Units /\ u \in Names(a)
BY SeparateNames DEF TypeOK, Recorded

\* A detach wants no unit: all it has read is gone.
LEMMA DetachGone ==
  ASSUME NEW a \in Apps, Accepted(a), pc[a] # "idle", req[a].op = "detach"
  PROVE  Wanted(a) = {} /\ Gone(a) = prior[a]
BY UpkeepAssumption DEF Accepted, Wanted, Gone

\* Another application neither writes, nor links, nor starts a unit a detach has
\* taken down.
LEMMA OthersLeave ==
  ASSUME TypeOK, Recorded, \A c \in Apps : Accepted(c) /\ Placed(c) /\ Prepared(c),
         NEW a \in Apps, Dismantles(a), NEW u \in prior[a],
         NEW b \in Apps \ {a}, Moves(b)
  PROVE  /\ files'[u] = files[u]
         /\ active[u] = Absent => active'[u] = Absent
         /\ u \notin enabled \cup linked => u \notin enabled' \cup linked'
<1>1. u \in Units /\ u \in Names(a) /\ files'[u] = files[u]
  BY PriorNames, OthersFiles DEF Dismantles
<1>2. u \notin Gone(b) /\ (pc[b] # "idle" => u \notin Wanted(b))
  BY <1>1, WantedNames, SeparateNames DEF Dismantles, Separate, Recorded, Gone
<1>3. active[u] = Absent => active'[u] = Absent
  <2>1. CASE Step(b) \/ Crash(b)
    BY <1>1, <1>2, <2>1, ActiveEffect
  <2>2. CASE \E r \in Requests[b] : Call(b, r)
    BY <2>2 DEF Call, mgrVars
  <2> QED
    BY <2>1, <2>2 DEF Moves
<1>4. u \notin enabled => u \notin enabled'
  BY <1>1, <1>2, LinksEffect DEF Placed, Installing
<1>5. u \notin linked => u \notin linked'
  <2>1. ASSUME pc[b] = "link", u \in links[b]
        PROVE  FALSE
    <3>1. Batch(b) \subseteq Wanted(b)
      BY <2>1 DEF Batch, Placed, Installing
    <3>2. PICK t \in Wanted(b) : u \in Target[t]
      BY <1>2, <2>1, <3>1 DEF Prepared
    <3>3. t \in Units /\ t \in Names(b)
      BY <2>1, WantedType, WantedNames
    <3>4. t \notin prior[a]
      BY <3>3, PriorNames DEF Dismantles, Separate
    <3> QED
      BY <3>2, <3>3, <3>4 DEF Dismantles
  <2> QED
    BY <1>1, <2>1, LinksEffect
<1> QED
  BY <1>1, <1>3, <1>4, <1>5

\* The manager starts no unit that only stopped timers trigger.
LEMMA TimersLeave ==
  ASSUME TypeOK, NEW a \in Apps, Dismantles(a), Environment,
         \A t \in prior[a] : active[t] = Absent, NEW u \in prior[a]
  PROVE  active'[u] = Absent
<1>1. u \in Units
  BY DEF TypeOK
<1>2. ASSUME NEW t \in Units, TimerElapses(t)
      PROVE  active'[u] = Absent
  BY <1>1, <1>2, ManagerAssumption
     DEF TimerElapses, StartUnit, Dismantles, TypeOK, ManagerTypeOK
<1>3. ASSUME NEW t \in Units, UnitExits(t) \/ UnloadUnit(t)
      PROVE  active'[u] = Absent
  BY <1>1, <1>3 DEF UnitExits, UnloadUnit, TypeOK, ManagerTypeOK
<1> QED
  BY <1>1, <1>2, <1>3 DEF Environment, Settle, ManagerNext, mgrVars

\* What is neither on disk nor in memory cannot be loaded.
LEMMA Unloadable ==
  ASSUME TypeOK, \A c \in Apps : Placed(c), [Next]_vars,
         NEW u \in Units, files[u] = Absent, loaded[u] = Absent
  PROVE  loaded'[u] = Absent
BY Memory DEF OnDisk

\* A detach's own steps leave away what they have taken away.
LEMMA DismantledOwnStep ==
  ASSUME TypeOK, Recorded, [Next]_vars,
         \A c \in Apps : Accepted(c) /\ Placed(c) /\ Prepared(c),
         NEW a \in Apps, Dismantled(a), Moves(a)
  PROVE  Dismantled(a)'
<1> USE DEF TypeOK, ManagerTypeOK, Goto, Loop, Visited
<1>1. ASSUME pc'[a] \notin {"disable", "prune", "refresh", "forget"}, ~Succeeded(a, {"detach"})'
      PROVE  Dismantled(a)'
  BY <1>1 DEF Dismantled, Past
<1>2. ASSUME NEW result \in {"err", "rejected", "crashed"}, Return(a, result)
      PROVE  Dismantled(a)'
  BY <1>1, <1>2 DEF Return, Succeeded
<1>3. CASE Fail(a) \/ Crash(a)
  BY <1>2, <1>3 DEF Fail, Crash, StopFails, DisableFails, RestartFails, FileOrReloadFails,
     SystemdErrs
<1>4. CASE \E r \in Requests[a] : Call(a, r)
  BY <1>1, <1>4 DEF Call, None, Succeeded
<1>5. ASSUME req[a].op = "detach", pc[a] # "idle"
      PROVE  Gone(a) = prior[a] /\ prior[a] \subseteq Units
  BY <1>5, DetachGone
<1>6. CASE ReadNothing(a)
  BY <1>6 DEF ReadNothing, Return, Prepared, Dismantled, Past, Succeeded
<1>7. CASE StopGone(a)
  BY <1>5, <1>7 DEF StopGone, StopUnits, Stops, Dismantled, Dismantles, Past, Succeeded, mgrVars
<1>8. CASE DisableGone(a)
  BY <1>5, <1>8 DEF DisableGone, DisableUnits, Disables, Dismantled, Dismantles, Past,
     Succeeded, mgrVars
<1>9. CASE \E u \in Units : PruneUnit(a, u)
  BY <1>5, <1>9 DEF PruneUnit, WriteFile, Dismantled, Dismantles, Past, Succeeded
<1>10. CASE Pruned(a)
  BY <1>5, <1>10 DEF Pruned, Dismantled, Dismantles, Past, Succeeded, mgrVars
<1>11. CASE ReloadPruned(a)
  BY <1>5, <1>11 DEF ReloadPruned, Prunes, Reload, OnDisk, Visible, Dismantled, Dismantles,
     Past, Succeeded, mgrVars
<1>12. CASE Forget(a)
  BY <1>5, <1>12, UpkeepAssumption
     DEF Forget, Return, Dismantled, Dismantles, Past, Succeeded, mgrVars
<1>13. CASE Record(a)
  BY <1>13 DEF Record, Return, Placed, Installing, Dismantled, Dismantles
<1>14. CASE ReadManifest(a) \/ Compared(a) \/ FillUnit(a) \/ Materialized(a)
            \/ CollectLinkPaths(a) \/ ReloadPrepared(a) \/ Enabled(a) \/ RestartUpdated(a)
  BY <1>1, <1>14 DEF ReadManifest, Compared, FillUnit, Materialized, CollectLinkPaths,
     ReloadPrepared, Enabled, RestartUpdated, Succeeded
<1>15. CASE Start(a) \/ ShowStatus(a) \/ Started(a) \/ TruncateManifest(a)
  BY <1>1, <1>15 DEF Start, ShowStatus, Started, TruncateManifest, Succeeded
<1>16. CASE \E u \in Units : CompareUnit(a, u) \/ TruncateUnit(a, u) \/ LinkPath(a, u)
                             \/ EnableWanted(a, u) \/ BeginStart(a, u)
  BY <1>1, <1>16 DEF CompareUnit, TruncateUnit, LinkPath, EnableWanted, BeginStart, Succeeded
<1> QED
  BY <1>3, <1>4, <1>6, <1>7, <1>8, <1>9, <1>10, <1>11, <1>12, <1>13, <1>14, <1>15, <1>16
     DEF Moves, Step, Advance, AdvanceUnit

\* What a detach has taken away stays away, whoever takes a step.
LEMMA DismantledStep ==
  ASSUME Inv, Effects, [Next]_vars
  PROVE  \A a \in Apps : Dismantled(a)'
<1> SUFFICES ASSUME NEW a \in Apps
             PROVE  Dismantled(a)'
  OBVIOUS
<1> USE DEF Inv, Effects
<1>1. CASE Moves(a)
  BY <1>1, DismantledOwnStep
<1>2. ASSUME /\ pc'[a] = pc[a] /\ req'[a] = req[a] /\ todo'[a] = todo[a]
             /\ prior'[a] = prior[a] /\ outcome'[a] = outcome[a],
             Dismantles(a) => \A u \in prior[a] :
               /\ files'[u] = files[u]
               /\ (\A t \in prior[a] : active[t] = Absent) => active'[u] = Absent
               /\ u \notin enabled \cup linked => u \notin enabled' \cup linked',
             Dismantles(a) => manifest'[OwnerOf[a]] = manifest[OwnerOf[a]]
      PROVE  Dismantled(a)'
  <2>1. SUFFICES ASSUME Dismantles(a)
                 PROVE  Dismantled(a)'
    BY <1>2 DEF Dismantled, Dismantles, Separate, Names
  <2>2. \A u \in prior[a] : files[u] = Absent /\ loaded[u] = Absent => loaded'[u] = Absent
    BY <2>1, PriorNames, Unloadable DEF Dismantles
  <2>3. \A S : Past(a, S)' = Past(a, S)
    BY <1>2 DEF Past, Succeeded
  <2> QED
    BY <1>2, <2>1, <2>2, <2>3 DEF Dismantled, Past, Succeeded
<1>3. CASE Environment
  BY <1>2, <1>3, EnvironmentEffect, TimersLeave DEF callVars
<1>4. CASE UNCHANGED vars
  BY <1>2, <1>4 DEF vars, mgrVars, callVars
<1>5. ASSUME NEW b \in Apps, Moves(b), a # b
      PROVE  Dismantled(a)'
  <2>1. Dismantles(a) => manifest'[OwnerOf[a]] = manifest[OwnerOf[a]]
    BY <1>5, ManifestEffect, UpkeepAssumption DEF Dismantles, Separate
  <2> QED
    BY <1>2, <1>5, <2>1, Frame, OthersLeave
<1> QED
  BY <1>1, <1>3, <1>4, <1>5 DEF Next, Moves

-----------------------------------------------------------------------------
\* What the calls have made of the manager is as Effects says in every reachable
\* state, whatever fails and whatever other applications and the manager do.
THEOREM EffectsHold == Spec => []Effects
<1>1. Init => Effects
  BY DEF Init, Effects, Prepared, Effective, Reloaded, Enabling, Restarting, Attached,
     Dismantled, Past, Succeeded, None
<1>2. Inv /\ Effects /\ [Next]_vars => Effects'
  BY PreparedStep, EffectiveStep, DismantledStep DEF Effects, Inv
<1> QED
  BY <1>1, <1>2, Invariance, PTL DEF Spec

\* After a successful attach or reattach what it enabled is linked and enabled, and
\* the manager holds no definition older than the files.
THEOREM InEffectCorrect == Spec => []InEffect
<1>1. Inv /\ Effects => InEffect
  <2> SUFFICES ASSUME Inv, Effects, NEW a \in Apps, Separate(a), Attached(a)
               PROVE  /\ req[a].enable => Wanted(a) \subseteq enabled
                      /\ req[a].enable /\ LinkUnits => Wanted(a) \subseteq linked
                      /\ req[a].enable \/ (req[a].start /\ Wanted(a) # Restarted(a)) =>
                           \A u \in Wanted(a) : loaded[u] \in {Absent, req[a].want[u]}
    BY DEF InEffect, Attached
  <2> QED
    <3>1. Wanted(a) # Restarted(a) => todo[a] # Wanted(a) \ Restarted(a)
      BY DEF Inv, Effects, Prepared, Placed, Attached, Succeeded, Restarted
    <3> QED
      BY <3>1 DEF Effects, Effective, Reloaded, Enabling, Restarting, Links
<1> QED
  BY <1>1, Invariance, EffectsHold, PTL

\* After a successful reattach that enables and restarts, no updated unit runs its
\* old definition.
THEOREM RestartedCorrect == Spec => []RestartedRunsNew
<1>1. Effects => RestartedRunsNew
  BY DEF Effects, Effective, Restarting, Attached, Succeeded, RestartedRunsNew
<1> QED
  BY <1>1, EffectsHold, PTL

\* A successful detach with the default options leaves nothing of its units: no
\* file, no link, no definition, nothing running.
THEOREM DetachCorrect == Spec => []DetachLeavesNothing
<1>1. Effects => DetachLeavesNothing
  BY DEF Effects, Dismantled, Dismantles, Past, Succeeded, DetachLeavesNothing
<1> QED
  BY <1>1, EffectsHold, PTL
=============================================================================
