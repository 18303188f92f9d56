------------------------- MODULE ManpageCacheProofs -------------------------
(***************************************************************************)
(* Why only validated trees are published: from its validation to its move *)
(* into place a run's staged tree is whole, and no other run can reach it. *)
(* Why there is always a file left to download to: only a run that streams *)
(* writes to one.  And why a run that is alone leaves a complete cache.    *)
(***************************************************************************)
EXTENDS ManpageCache, FiniteSetTheorems, TLAPS

\* The published tree and every staged tree on its way to it were validated.
Valid ==
  /\ pc \in [Runs -> Stages]
  /\ staged \in [Runs -> Trees]
  /\ TreeValidated
  /\ \A r \in Runs : pc[r] \in {"clear", "clearing", "place"} => staged[r] = "whole"

\* Nothing is published or staged at first.
LEMMA ValidInit == Init => Valid
BY DEF Init, Valid, TreeValidated, Stages, Trees

\* A run that ends, in whatever way, has nothing on its way.
LEMMA FinishValid ==
  ASSUME Valid, NEW r \in Runs, NEW result, Finish(r, result), UNCHANGED tree
  PROVE  Valid'
BY DEF Valid, Finish, Goto, TreeValidated, Stages, Trees

\* Steps that touch neither the trees nor get near the place where one is
\* published: they leave staged trees alone.
LEMMA EarlyValid ==
  ASSUME Valid, NEW r \in Runs, NEW stage \in Stages \ {"clear", "clearing", "place"},
         Goto(r, stage), UNCHANGED <<tree, staged>>
  PROVE  Valid'
BY DEF Valid, Goto, TreeValidated

\* Every step of a run keeps Valid.
LEMMA StepValid ==
  ASSUME Valid, NEW r \in Runs, Step(r)
  PROVE  Valid'
<1>1. CASE Begin(r)
  BY <1>1, EarlyValid DEF Begin, disk, Stages
<1>2. CASE ReadRecord(r)
  <2>1. CASE Finish(r, "failed")
    BY <1>2, <2>1, FinishValid DEF ReadRecord, disk
  <2>2. CASE /\ Goto(r, "probe") \/ Goto(r, "release")
             /\ UNCHANGED staged
    BY <1>2, <2>2, EarlyValid DEF ReadRecord, disk, Stages
  <2> QED
    BY <1>2, <2>1, <2>2 DEF ReadRecord
<1>3. CASE Probe(r)
  <2>1. CASE Finish(r, "ok")
    BY <1>3, <2>1, FinishValid DEF Probe, disk
  <2>2. CASE Goto(r, "release") /\ UNCHANGED staged
    BY <1>3, <2>2, EarlyValid DEF Probe, disk, Stages
  <2> QED
    BY <1>3, <2>1, <2>2 DEF Probe
<1>4. CASE ResolveRelease(r)
  BY <1>4, EarlyValid DEF ResolveRelease, disk, Stages
<1>5. CASE FindTarball(r)
  <2>1. Goto(r, "fetch") \/ Goto(r, "stage")
    BY <1>5 DEF FindTarball
  <2> QED
    BY <1>5, <2>1, EarlyValid DEF FindTarball, disk, Stages
<1>6. CASE Respond(r)
  BY <1>6, EarlyValid DEF Respond, disk, Stages
<1>7. CASE OpenPart(r)
  BY <1>7, EarlyValid DEF OpenPart, Stages
<1>8. CASE Stream(r)
  BY <1>8, EarlyValid DEF Stream, Stages
<1>9. CASE RenamePart(r)
  BY <1>9, EarlyValid DEF RenamePart, Stages
<1>10. CASE Stage(r)
  BY <1>10 DEF Stage, Goto, disk, Valid, TreeValidated, Stages, Trees
<1>11. CASE Extract(r)
  BY <1>11 DEF Extract, Goto, disk, Valid, TreeValidated, Stages, Trees
<1>12. CASE Discard(r)
  BY <1>12 DEF Discard, Goto, Valid, TreeValidated, Stages, Trees
<1>13. CASE Validate(r)
  BY <1>13 DEF Validate, Goto, disk, Valid, TreeValidated, Stages
<1>14. CASE Clear(r)
  BY <1>14 DEF Clear, Goto, Valid, TreeValidated, Stages
<1>15. CASE Place(r)
  BY <1>15 DEF Place, Goto, Valid, TreeValidated, Stages, Trees
<1>16. CASE WriteRecord(r)
  BY <1>16, EarlyValid DEF WriteRecord, Stages
<1>17. CASE Done(r)
  BY <1>17, FinishValid DEF Done, disk
<1>18. CASE DownloadFails(r)
  BY <1>18, FinishValid DEF DownloadFails
<1>19. CASE StepFails(r)
  BY <1>19, FinishValid DEF StepFails, disk
<1> QED
  BY <1>1, <1>2, <1>3, <1>4, <1>5, <1>6, <1>7, <1>8, <1>9, <1>10, <1>11, <1>12,
     <1>13, <1>14, <1>15, <1>16, <1>17, <1>18, <1>19 DEF Step

\* Valid is inductive: deaths, deleted files and the end of a disturbance keep it.
LEMMA ValidStep == Valid /\ [Next]_vars => Valid'
<1> SUFFICES ASSUME Valid, [Next]_vars
             PROVE  Valid'
  OBVIOUS
<1>1. CASE \E r \in Runs : Step(r)
  BY <1>1, StepValid
<1>2. CASE \E r \in Runs : Crash(r)
  BY <1>2, FinishValid DEF Crash
<1>3. CASE Damage
  BY <1>3 DEF Damage, Valid, TreeValidated
<1>4. CASE Settle
  BY <1>4 DEF Settle, disk, Valid, TreeValidated
<1>5. CASE UNCHANGED vars
  BY <1>5 DEF vars, Valid, TreeValidated
<1> QED
  BY <1>1, <1>2, <1>3, <1>4, <1>5 DEF Next

\* However many runs overlap, and whatever archives arrive, a tree is put where
\* later runs reuse it only after it has been validated.
THEOREM ValidatedCorrect == Spec => []TreeValidated
<1>1. Valid => TreeValidated
  BY DEF Valid
<1> QED
  BY <1>1, ValidInit, ValidStep, PTL DEF Spec

-----------------------------------------------------------------------------
\* A run writes to a file when, and only when, it streams.
Writing == \A r \in Runs : writes[r] # NoFile <=> pc[r] = "stream"

\* The inductive invariant for types.
Typed == TypeOK /\ Writing

\* A run that begins to download finds a file that nobody uses: the others use at
\* most one each, and the tarball is one more.
LEMMA UnusedFile ==
  ASSUME Typed, NEW r \in Runs, pc[r] = "open", part = NoFile
  PROVE  Unused # {}
<1> DEFINE f == [q \in Runs |-> IF q = r THEN tarball ELSE writes[q]]
           T == {f[q] : q \in Runs}
<1>1. IsFiniteSet(Runs)
  BY ManpageCacheAssumption
<1>2. f \in Surjection(Runs, T)
  BY DEF Surjection
<1>3. IsFiniteSet(T) /\ Cardinality(T) <= Cardinality(Runs)
  <2> HIDE DEF f, T
  <2> QED
    BY <1>1, <1>2, FS_Surjection
<1>4. Cardinality(Runs) \in Nat
  BY <1>1, FS_CardinalityType
<1>5. Cardinality(Inodes) = Cardinality(Runs) + 1
  <2> HIDE DEF f, T
  <2> QED
    BY <1>4, FS_Interval DEF Inodes
<1>6. ~(Inodes \subseteq T)
  <2> SUFFICES ASSUME Inodes \subseteq T PROVE FALSE
    OBVIOUS
  <2> HIDE DEF f, T
  <2>1. Cardinality(Inodes) <= Cardinality(T)
    BY <1>3, FS_Subset
  <2>2. Cardinality(T) \in Nat
    BY <1>3, FS_CardinalityType
  <2> QED
    BY <1>3, <1>4, <1>5, <2>1, <2>2
<1>7. NoFile \notin Inodes
  BY DEF NoFile, Inodes
<1>8. writes[r] = NoFile
  BY DEF Typed, Writing
<1>9. {tarball, part} \cup {writes[q] : q \in Runs} \subseteq T \cup {NoFile}
  BY <1>8
<1> QED
  BY <1>6, <1>7, <1>9 DEF Unused

\* The file a download is written to: the one at the temporary path, or a new one.
LEMMA OpenTyped ==
  ASSUME Typed, NEW r \in Runs, OpenPart(r)
  PROVE  \E i \in Inodes :
           /\ part' = i
           /\ part = i \/ i # tarball
           /\ writes' = [writes EXCEPT ![r] = i]
           /\ opener' = [opener EXCEPT ![i] = r]
           /\ holds' \in [Inodes -> SUBSET Archives]
<1> DEFINE i == IF part = NoFile THEN CHOOSE j \in Unused : TRUE ELSE part
<1>1. i \in Inodes /\ (part = i \/ i # tarball)
  <2>1. CASE part = NoFile
    <3>1. Unused # {}
      BY <2>1, UnusedFile DEF OpenPart
    <3> QED
      BY <2>1, <3>1 DEF Unused
  <2>2. CASE part # NoFile
    BY <2>2 DEF Typed, TypeOK
  <2> QED
    BY <2>1, <2>2
<1>2. part' = i /\ OpenFile(r, i)
  BY DEF OpenPart
<1> HIDE DEF i
<1>3. \A q \in Runs : kind[q] \in Archives
  BY DEF Typed, TypeOK
<1>4. {kind[q] : q \in Writers(i) \cup {r}} \subseteq Archives
  BY <1>3 DEF Writers
<1>5. holds' \in [Inodes -> SUBSET Archives]
  BY <1>2, <1>4 DEF OpenFile, Typed, TypeOK
<1> QED
  BY <1>1, <1>2, <1>5 DEF OpenFile

\* A run that ends with the disk as it was.
LEMMA FinishTyped ==
  ASSUME Typed, NEW r \in Runs, NEW result \in {"ok", "failed", "crashed"},
         Finish(r, result), UNCHANGED <<disk, calm>>
  PROVE  Typed'
BY DEF Typed, TypeOK, Writing, Goto, Finish, disk, NoFile, Stages, Trees, Archives, None

\* The types of the steps of a run, and of its end.
LEMMA TypedRunStep ==
  ASSUME Typed, NEW r \in Runs, Step(r) \/ Crash(r)
  PROVE  Typed'
<1> USE ManpageCacheAssumption
        DEF Typed, TypeOK, Writing, Goto, Finish, disk, NoFile, Stages, Trees, Archives, None
<1>1. CASE Begin(r) \/ ResolveRelease(r) \/ FindTarball(r)
  BY <1>1 DEF Begin, ResolveRelease, FindTarball
<1>2. CASE ReadRecord(r)
  <2>1. CASE Finish(r, "failed")
    BY <1>2, <2>1, FinishTyped DEF ReadRecord
  <2>2. CASE ~Finish(r, "failed")
    <3>1. /\ Goto(r, "probe") \/ Goto(r, "release")
          /\ UNCHANGED <<disk, calm, again, kind, writes, staged, outcome>>
          /\ pc[r] = "manifest"
      BY <1>2, <2>2 DEF ReadRecord
    <3> QED
      BY <3>1
  <2> QED
    BY <2>1, <2>2
<1>3. CASE Probe(r)
  <2>1. CASE Finish(r, "ok")
    BY <1>3, <2>1, FinishTyped DEF Probe
  <2>2. CASE ~Finish(r, "ok")
    <3>1. /\ Goto(r, "release") /\ pc[r] = "probe"
          /\ UNCHANGED <<disk, calm, again, kind, writes, staged, outcome>>
      BY <1>3, <2>2 DEF Probe
    <3> QED
      BY <3>1
  <2> QED
    BY <2>1, <2>2
<1>4. CASE Respond(r)
  BY <1>4 DEF Respond
<1>5. CASE OpenPart(r)
  <2> PICK i \in Inodes :
        /\ part' = i
        /\ writes' = [writes EXCEPT ![r] = i]
        /\ opener' = [opener EXCEPT ![i] = r]
        /\ holds' \in [Inodes -> SUBSET Archives]
    BY <1>5, OpenTyped
  <2>1. i # 0
    BY DEF Inodes
  <2> QED
    BY <1>5, <2>1 DEF OpenPart
<1>6. CASE Stream(r)
  BY <1>6 DEF Stream, Nobody
<1>7. CASE RenamePart(r)
  BY <1>7 DEF RenamePart
<1>8. CASE Stage(r) \/ Validate(r) \/ Clear(r)
  BY <1>8 DEF Stage, Validate, Clear
<1>9. CASE Extract(r)
  BY <1>9 DEF Extract
<1>10. CASE Discard(r)
  BY <1>10 DEF Discard
<1>11. CASE Place(r) \/ WriteRecord(r)
  BY <1>11 DEF Place, WriteRecord
<1>12. CASE Done(r) \/ StepFails(r)
  BY <1>12, FinishTyped DEF Done, StepFails
<1>13. CASE DownloadFails(r)
  BY <1>13 DEF DownloadFails, Abandon
<1>14. CASE Crash(r)
  BY <1>14 DEF Crash, Abandon
<1> QED
  BY <1>1, <1>2, <1>3, <1>4, <1>5, <1>6, <1>7, <1>8, <1>9, <1>10, <1>11, <1>12, <1>13,
     <1>14 DEF Step

LEMMA TypedInit == Init => Typed
BY ManpageCacheAssumption
   DEF Init, Typed, TypeOK, Writing, NoFile, Inodes, Stages, Trees, Archives, None

LEMMA TypedStep == Typed /\ [Next]_vars => Typed'
<1> SUFFICES ASSUME Typed, [Next]_vars PROVE Typed'
  OBVIOUS
<1>1. CASE Damage \/ Settle
  BY <1>1 DEF Damage, Settle, disk, Typed, TypeOK, Writing, Trees
<1>2. CASE UNCHANGED vars
  BY <1>2 DEF vars, Typed, TypeOK, Writing
<1> QED
  BY <1>1, <1>2, TypedRunStep DEF Next

\* What the variables hold, for any number of overlapping runs; in particular a
\* run always finds a file to download to (fetch-manpages.ts, download()).
THEOREM TypeCorrect == Spec => []TypeOK
<1>1. Typed => TypeOK
  BY DEF Typed
<1> QED
  BY <1>1, TypedInit, TypedStep, PTL DEF Spec

-----------------------------------------------------------------------------
\* What a run that is alone knows: nobody else touches the disk while it works.
Alone ==
  \A r \in Runs : Runs = {r} =>
    /\ \A i \in Inodes : opener[i] = r => pc[r] = "stream" /\ writes[r] = i
    /\ part # NoFile => part # tarball
    /\ pc[r] = "stream" => part = writes[r] /\ opener[part] = r
    /\ pc[r] = "rename" => part # NoFile /\ opener[part] = Nobody
    /\ tarball # NoFile => opener[tarball] = Nobody
    /\ pc[r] = "probe" => record = "valid"
    /\ pc[r] \in {"truncate", "fill", "end"} => tree = "whole"
    /\ pc[r] = "end" => record = "valid"

AloneInv == Typed /\ Valid /\ Alone

\* What a run that is alone does to Alone.
LEMMA AloneRunStep ==
  ASSUME AloneInv, NEW r \in Runs, Runs = {r}, Step(r) \/ Crash(r)
  PROVE  Alone'
<1> USE ManpageCacheAssumption
        DEF AloneInv, Typed, TypeOK, Writing, Alone, Goto, Finish, disk, NoFile, Nobody, Broken
<1>1. CASE Begin(r) \/ ResolveRelease(r) \/ FindTarball(r)
  BY <1>1 DEF Begin, ResolveRelease, FindTarball
<1>2. CASE ReadRecord(r)
  BY <1>2 DEF ReadRecord
<1>3. CASE Probe(r)
  BY <1>3 DEF Probe
<1>4. CASE Respond(r)
  BY <1>4 DEF Respond
<1>5. CASE OpenPart(r)
  <2> PICK i \in Inodes :
        /\ part' = i
        /\ part = i \/ i # tarball
        /\ writes' = [writes EXCEPT ![r] = i]
        /\ opener' = [opener EXCEPT ![i] = r]
    BY <1>5, OpenTyped
  <2>1. i # 0
    BY DEF Inodes
  <2> QED
    BY <1>5, <2>1 DEF OpenPart
<1>6. CASE Stream(r)
  <2>1. pc[r] = "stream" /\ part = writes[r] /\ part \in Inodes /\ opener[part] = r
    BY <1>6 DEF Stream
  <2>2. /\ opener' = [opener EXCEPT ![part] = Nobody]
        /\ pc' = [pc EXCEPT ![r] = "rename"]
        /\ UNCHANGED <<record, tree, tarball, part>>
    BY <1>6, <2>1 DEF Stream
  <2>3. \A i \in Inodes : opener'[i] # r
    BY <2>1, <2>2
  <2>4. opener'[part] = Nobody /\ pc'[r] = "rename"
    BY <2>1, <2>2
  <2> QED
    BY <2>1, <2>2, <2>3, <2>4
<1>7. CASE RenamePart(r)
  BY <1>7 DEF RenamePart
<1>8. CASE Stage(r) \/ Validate(r) \/ Clear(r)
  BY <1>8 DEF Stage, Validate, Clear
<1>9. CASE Extract(r)
  BY <1>9 DEF Extract
<1>10. CASE Discard(r)
  BY <1>10 DEF Discard
<1>11. CASE Place(r) \/ WriteRecord(r)
  BY <1>11 DEF Place, WriteRecord, Valid
<1>12. CASE Done(r) \/ StepFails(r)
  BY <1>12 DEF Done, StepFails
<1>13. CASE DownloadFails(r)
  BY <1>13 DEF DownloadFails, Abandon
<1>14. CASE Crash(r)
  BY <1>14 DEF Crash, Abandon
<1> QED
  BY <1>1, <1>2, <1>3, <1>4, <1>5, <1>6, <1>7, <1>8, <1>9, <1>10, <1>11, <1>12, <1>13,
     <1>14 DEF Step

LEMMA AloneStep == AloneInv /\ [Next]_vars => AloneInv'
<1> SUFFICES ASSUME AloneInv, [Next]_vars PROVE Alone'
  BY TypedStep, ValidStep DEF AloneInv
<1>1. CASE Damage \/ Settle
  BY <1>1 DEF Damage, Settle, disk, AloneInv, Alone
<1>2. CASE UNCHANGED vars
  BY <1>2 DEF vars, AloneInv, Alone
<1>3. ASSUME NEW q \in Runs, Step(q) \/ Crash(q) PROVE Alone'
  <2>1. CASE Runs = {q}
    BY <1>3, <2>1, AloneRunStep
  <2>2. CASE Runs # {q}
    BY <1>3, <2>2 DEF Alone
  <2> QED
    BY <2>1, <2>2
<1> QED
  BY <1>1, <1>2, <1>3 DEF Next

LEMMA AloneCorrect == Spec => []AloneInv
<1>1. Init => AloneInv
  BY TypedInit, ValidInit, ManpageCacheAssumption
     DEF AloneInv, Alone, Init, Nobody
<1> QED
  BY <1>1, AloneStep, PTL DEF Spec

\* Whenever a process that runs alone dies, and whatever it is sent: the tarball's name
\* belongs to what was downloaded to its end (fetch-manpages.ts, download()).
THEOREM TarballCorrect == Spec => []TarballComplete
<1>1. AloneInv => TarballComplete
  <2> SUFFICES ASSUME AloneInv, Cardinality(Runs) = 1, tarball # NoFile
               PROVE  opener[tarball] = Nobody
    BY DEF TarballComplete
  <2>1. \E r : Runs = {r}
    BY FS_Singleton, ManpageCacheAssumption
  <2> QED
    BY <2>1 DEF AloneInv, Alone
<1> QED
  BY <1>1, AloneCorrect, PTL

\* A run that is alone and reports success leaves a tree that was validated and a
\* manifest that parses, whatever earlier runs left behind.
THEOREM CachedCorrect == Spec => SuccessIsCached
<1> DEFINE Cached == \A r \in Runs :
      Runs = {r} /\ outcome'[r] = "ok" /\ outcome[r] # "ok" => tree' = "whole" /\ record' = "valid"
<1>1. AloneInv /\ [Next]_vars => [Cached]_vars
  <2> SUFFICES ASSUME AloneInv, [Next]_vars, NEW r \in Runs, Runs = {r},
                      outcome'[r] = "ok", outcome[r] # "ok"
               PROVE  tree' = "whole" /\ record' = "valid"
    OBVIOUS
  <2>1. CASE Step(r)
    <3> USE DEF AloneInv, Alone, Typed, TypeOK, Finish, disk, None
    <3>1. CASE Probe(r) \/ Done(r)
      BY <3>1 DEF Probe, Done
    <3>2. CASE ReadRecord(r) \/ DownloadFails(r) \/ StepFails(r)
      BY <3>2 DEF ReadRecord, DownloadFails, StepFails
    <3>3. CASE ~(Probe(r) \/ Done(r) \/ ReadRecord(r) \/ DownloadFails(r) \/ StepFails(r))
      <4>1. outcome' = outcome \/ outcome' = [outcome EXCEPT ![r] = None]
        BY <2>1, <3>3 DEF Step, Begin, ResolveRelease, FindTarball, Respond, OpenPart, Stream,
             RenamePart, Stage, Extract, Discard, Validate, Clear, Place, WriteRecord
      <4> QED
        BY <4>1
    <3> QED
      BY <3>1, <3>2, <3>3
  <2>2. CASE Crash(r)
    BY <2>2 DEF Crash, Finish, AloneInv, Typed, TypeOK
  <2>3. CASE Damage \/ Settle \/ UNCHANGED vars
    BY <2>3 DEF Damage, Settle, vars
  <2> QED
    BY <2>1, <2>2, <2>3 DEF Next
<1> QED
  BY <1>1, AloneCorrect, PTL DEF Spec, SuccessIsCached
=============================================================================
