---------------------------- MODULE ManpageCache ----------------------------
(***************************************************************************)
(* fetch-manpages.ts: runs of the script over the cache of one release, a  *)
(* source tree with its manifest and the tarball it came from.  Runs may   *)
(* fail, die and overlap.                                                  *)
(*                                                                         *)
(* Two runs that download at once write to the same ".download" file, so   *)
(* files that are written are modelled with their identity (Inodes): the   *)
(* second run truncates what the first is writing, and a rename moves      *)
(* whatever lies at the path.  Archives are abstracted to what the script  *)
(* can tell: "good", "corrupt" (does not extract) or "hollow" (extracts,   *)
(* but the tree does not validate).  Validation and extraction are each    *)
(* one step.  The version on the command line is fixed.                    *)
(***************************************************************************)
EXTENDS Naturals, FiniteSets

CONSTANTS
  Runs,      \* processes that run the script, again and again
  Served,    \* archives the download site may send until things calm
  Faulty,    \* requests and file operations may fail and processes may die
  Tearing    \* also the writing of the manifest may break off

VARIABLES
  record,    \* manifest.json
  tree,      \* the source tree of the version
  tarball,   \* the file at the tarball's path, or NoFile
  part,      \* the file at the tarball's ".download" path, or NoFile
  holds,     \* holds[i]: the archives whose bytes file i holds
  opener,    \* opener[i]: the run that has to fill file i, Nobody when it has
  calm,      \* from now on nothing fails of itself
  pc,        \* pc[r]: the stage of run r
  again,     \* again[r]: r downloads for the second time
  kind,      \* kind[r]: the archive being sent to r
  writes,    \* writes[r]: the file r writes its download to, or NoFile
  staged,    \* staged[r]: the tree in r's staging directory
  outcome    \* outcome[r]: how r's last run ended, None while it runs

vars == <<record, tree, tarball, part, holds, opener, calm, pc, again, kind,
          writes, staged, outcome>>

disk == <<record, tree, tarball, part, holds, opener>>

Archives == {"good", "corrupt", "hollow"}
Trees == {"absent", "partial", "hollow", "whole"}
None == "none"
Nobody == "nobody"
Broken == "broken"   \* opener of a file nobody will fill any more
NoFile == 0
Inodes == 1 .. Cardinality(Runs) + 1

ASSUME ManpageCacheAssumption ==
  /\ IsFiniteSet(Runs)
  /\ Served \subseteq Archives
  /\ Faulty \in BOOLEAN
  /\ Tearing \in BOOLEAN
  /\ {Nobody, Broken} \cap Runs = {}

Stages ==
  {"idle", "manifest", "probe", "release", "tarball", "fetch", "open", "stream",
   "rename", "stage", "extract", "validate", "clear", "clearing", "place",
   "truncate", "fill", "end"}

TypeOK ==
  /\ record \in {"absent", "torn", "valid"}
  /\ tree \in Trees
  /\ tarball \in Inodes \cup {NoFile}
  /\ part \in Inodes \cup {NoFile}
  /\ holds \in [Inodes -> SUBSET Archives]
  /\ opener \in [Inodes -> Runs \cup {Nobody, Broken}]
  /\ calm \in BOOLEAN
  /\ pc \in [Runs -> Stages]
  /\ again \in [Runs -> BOOLEAN]
  /\ kind \in [Runs -> Archives]
  /\ writes \in [Runs -> Inodes \cup {NoFile}]
  /\ staged \in [Runs -> Trees]
  /\ outcome \in [Runs -> {None, "ok", "failed", "crashed"}]

Init ==
  /\ record = "absent"
  /\ tree = "absent"
  /\ tarball = NoFile
  /\ part = NoFile
  /\ holds = [i \in Inodes |-> {}]
  /\ opener = [i \in Inodes |-> Nobody]
  /\ calm = ~Faulty
  /\ pc = [r \in Runs |-> "idle"]
  /\ again = [r \in Runs |-> FALSE]
  /\ kind = [r \in Runs |-> "good"]
  /\ writes = [r \in Runs |-> NoFile]
  /\ staged = [r \in Runs |-> "absent"]
  /\ outcome = [r \in Runs |-> None]

-----------------------------------------------------------------------------
Goto(r, stage) == pc' = [pc EXCEPT ![r] = stage]

\* The process ends.  The finally block removed the staging directory; what a failed
\* removal leaves of it has a name of its own that no later run looks at.
Finish(r, result) ==
  /\ Goto(r, "idle")
  /\ outcome' = [outcome EXCEPT ![r] = result]
  /\ again' = [again EXCEPT ![r] = FALSE]
  /\ kind' = [kind EXCEPT ![r] = "good"]
  /\ writes' = [writes EXCEPT ![r] = NoFile]
  /\ staged' = [staged EXCEPT ![r] = "absent"]

\* What extracting file i yields: a file still to be filled does not extract.
Archive(i) ==
  IF i = NoFile \/ opener[i] # Nobody \/ Cardinality(holds[i]) # 1
  THEN "corrupt"
  ELSE CHOOSE k \in Archives : holds[i] = {k}

Begin(r) ==
  /\ pc[r] = "idle"
  /\ Goto(r, "manifest")
  /\ outcome' = [outcome EXCEPT ![r] = None]
  /\ UNCHANGED <<disk, calm, again, kind, writes, staged>>

\* hasValidCache(): JSON.parse of a torn manifest throws out of the script.  To
\* exists() a file whose stat() fails is not there.
ReadRecord(r) ==
  /\ pc[r] = "manifest"
  /\ \/ record = "torn" /\ Finish(r, "failed")
     \/ /\ \/ record = "valid" /\ Goto(r, "probe")
           \/ (record = "absent" \/ ~calm) /\ Goto(r, "release")
        /\ UNCHANGED <<again, kind, writes, staged, outcome>>
  /\ UNCHANGED <<disk, calm>>

\* Mutant of Probe: the manifest is trusted.
Probe_Trusting(r) ==
  /\ pc[r] = "probe"
  /\ Finish(r, "ok")
  /\ UNCHANGED <<disk, calm>>

\* Whatever validate() throws of the tree, the cache counts as invalid.
Probe(r) ==
  /\ pc[r] = "probe"
  /\ \/ tree = "whole" /\ Finish(r, "ok")
     \/ /\ tree # "whole" \/ ~calm
        /\ Goto(r, "release")
        /\ UNCHANGED <<again, kind, writes, staged, outcome>>
  /\ UNCHANGED <<disk, calm>>

\* fetchJson(): the release must exist under the requested tag.
ResolveRelease(r) ==
  /\ pc[r] = "release"
  /\ Goto(r, "tarball")
  /\ UNCHANGED <<disk, calm, again, kind, writes, staged, outcome>>

FindTarball(r) ==
  /\ pc[r] = "tarball"
  /\ \/ (tarball = NoFile \/ ~calm) /\ Goto(r, "fetch")
     \/ tarball # NoFile /\ Goto(r, "stage")
  /\ UNCHANGED <<disk, calm, again, kind, writes, staged, outcome>>

-----------------------------------------------------------------------------
\* Mutant of Respond: an error page passes for an archive.
Respond_Unchecked(r) ==
  /\ pc[r] = "fetch"
  /\ \E k \in (IF calm THEN {"good"} ELSE Served \cup {"good", "page"}) :
       kind' = [kind EXCEPT ![r] = k]
  /\ Goto(r, "open")
  /\ UNCHANGED <<disk, calm, again, writes, staged, outcome>>

\* download(): the response, the temporary file, the stream, the rename.
Respond(r) ==
  /\ pc[r] = "fetch"
  /\ \E k \in (IF calm THEN {"good"} ELSE Served \cup {"good"}) :
       kind' = [kind EXCEPT ![r] = k]
  /\ Goto(r, "open")
  /\ UNCHANGED <<disk, calm, again, writes, staged, outcome>>

Writers(i) == {q \in Runs : writes[q] = i}

Unused == Inodes \ ({tarball, part} \cup {writes[q] : q \in Runs})

OpenFile(r, i) ==
  /\ writes' = [writes EXCEPT ![r] = i]
  /\ opener' = [opener EXCEPT ![i] = r]
  /\ holds' = [holds EXCEPT ![i] = {kind[q] : q \in Writers(i) \cup {r}}]

\* Mutant of OpenPart: the archive is written under its final name.
OpenPart_Final(r) ==
  LET i == IF tarball = NoFile THEN CHOOSE j \in Unused : TRUE ELSE tarball IN
  /\ pc[r] = "open"
  /\ OpenFile(r, i)
  /\ tarball' = i
  /\ part' = i
  /\ Goto(r, "stream")
  /\ UNCHANGED <<record, tree, calm, again, kind, staged, outcome>>

\* An existing file is truncated, whoever else writes to it.
OpenPart(r) ==
  LET i == IF part = NoFile THEN CHOOSE j \in Unused : TRUE ELSE part IN
  /\ pc[r] = "open"
  /\ OpenFile(r, i)
  /\ part' = i
  /\ Goto(r, "stream")
  /\ UNCHANGED <<record, tree, tarball, calm, again, kind, staged, outcome>>

Stream(r) ==
  /\ pc[r] = "stream"
  /\ opener' = [opener EXCEPT ![writes[r]] = IF @ = r THEN Nobody ELSE @]
  /\ writes' = [writes EXCEPT ![r] = NoFile]
  /\ Goto(r, "rename")
  /\ UNCHANGED <<record, tree, tarball, part, holds, calm, again, kind, staged, outcome>>

RenamePart(r) ==
  /\ pc[r] = "rename"
  /\ part # NoFile
  /\ tarball' = part
  /\ part' = NoFile
  /\ Goto(r, IF again[r] THEN "extract" ELSE "stage")
  /\ UNCHANGED <<record, tree, holds, opener, calm, again, kind, writes, staged, outcome>>

-----------------------------------------------------------------------------
Stage(r) ==
  /\ pc[r] = "stage"
  /\ staged' = [staged EXCEPT ![r] = "partial"]
  /\ Goto(r, "extract")
  /\ UNCHANGED <<disk, calm, again, kind, writes, outcome>>

Extract(r) ==
  /\ pc[r] = "extract"
  /\ Archive(tarball) # "corrupt"
  /\ staged' = [staged EXCEPT ![r] = IF Archive(tarball) = "good" THEN "whole" ELSE "hollow"]
  /\ Goto(r, "validate")
  /\ UNCHANGED <<disk, calm, again, kind, writes, outcome>>

\* Mutant of Discard: an archive that does not extract ends the run.
Discard_Throws(r) ==
  /\ pc[r] = "extract"
  /\ Archive(tarball) = "corrupt" \/ ~calm
  /\ Finish(r, "failed")
  /\ UNCHANGED <<disk, calm>>

\* The first archive that does not extract is removed and downloaded again.
Discard(r) ==
  /\ pc[r] = "extract"
  /\ Archive(tarball) = "corrupt" \/ ~calm
  /\ ~again[r]
  /\ tarball' = NoFile
  /\ again' = [again EXCEPT ![r] = TRUE]
  /\ staged' = [staged EXCEPT ![r] = "partial"]
  /\ Goto(r, "fetch")
  /\ UNCHANGED <<record, tree, part, holds, opener, calm, kind, writes, outcome>>

\* Mutant of Validate: any tree that was extracted will do.
Validate_Any(r) ==
  /\ pc[r] = "validate"
  /\ tarball # NoFile
  /\ Goto(r, "clear")
  /\ UNCHANGED <<disk, calm, again, kind, writes, staged, outcome>>

\* validate() of the staged tree, and stat() of the tarball.
Validate(r) ==
  /\ pc[r] = "validate"
  /\ staged[r] = "whole"
  /\ tarball # NoFile
  /\ Goto(r, "clear")
  /\ UNCHANGED <<disk, calm, again, kind, writes, staged, outcome>>

\* rm() of the old tree takes its time; Node's rm goes on until nothing is left.
Clear(r) ==
  /\ \/ pc[r] = "clear" /\ tree' = (IF tree = "absent" THEN tree ELSE "partial") /\ Goto(r, "clearing")
     \/ pc[r] = "clearing" /\ tree' = "absent" /\ Goto(r, "place")
  /\ UNCHANGED <<record, tarball, part, holds, opener, calm, again, kind, writes, staged, outcome>>

\* rename() replaces no directory that holds something.
Place(r) ==
  /\ pc[r] = "place"
  /\ tree = "absent"
  /\ tree' = staged[r]
  /\ staged' = [staged EXCEPT ![r] = "partial"]
  /\ Goto(r, "truncate")
  /\ UNCHANGED <<record, tarball, part, holds, opener, calm, again, kind, writes, outcome>>

WriteRecord(r) ==
  /\ \/ pc[r] = "truncate" /\ record' = "torn" /\ Goto(r, "fill")
     \/ pc[r] = "fill" /\ record' = "valid" /\ Goto(r, "end")
  /\ UNCHANGED <<tree, tarball, part, holds, opener, calm, again, kind, writes, staged, outcome>>

Done(r) ==
  /\ pc[r] = "end"
  /\ Finish(r, "ok")
  /\ UNCHANGED <<disk, calm>>

-----------------------------------------------------------------------------
\* File i is never filled if r was to fill it.
Abandon(r) == opener' = [i \in Inodes |-> IF opener[i] = r THEN Broken ELSE opener[i]]

\* download() fails in its try block: what lies at the temporary path is removed,
\* unless that fails too.
DownloadFails(r) ==
  /\ \/ pc[r] \in {"open", "stream", "rename"} /\ ~calm
     \/ pc[r] = "rename" /\ part = NoFile
  /\ Abandon(r)
  /\ part' \in (IF calm THEN {NoFile} ELSE {NoFile, part})
  /\ Finish(r, "failed")
  /\ UNCHANGED <<record, tree, tarball, holds, calm>>

\* Anything else that throws ends the run with the disk as it is: requests, reads,
\* mkdir(), mkdtemp(), rm(), rename() and writeFile(), also the rm() of the catch
\* block around the extraction and that of the finally block.
StepFails(r) ==
  /\ \/ /\ pc[r] \in {"manifest", "release", "fetch", "stage", "extract", "validate",
                    "clear", "clearing", "place", "truncate", "end"}
        /\ ~calm
     \/ pc[r] = "fill" /\ Tearing /\ ~calm
     \/ pc[r] = "extract" /\ again[r] /\ Archive(tarball) = "corrupt"
     \/ pc[r] = "validate" /\ (staged[r] # "whole" \/ tarball = NoFile)
     \/ pc[r] = "place" /\ tree # "absent"
  /\ Finish(r, "failed")
  /\ UNCHANGED <<disk, calm>>

Crash(r) ==
  /\ ~calm
  /\ pc[r] # "idle"
  /\ pc[r] # "fill" \/ Tearing
  /\ Abandon(r)
  /\ Finish(r, "crashed")
  /\ UNCHANGED <<record, tree, tarball, part, holds, calm>>

\* Between runs somebody deletes files under .manpages.
Damage ==
  /\ ~calm
  /\ \A r \in Runs : pc[r] = "idle"
  /\ tree = "whole"
  /\ tree' = "partial"
  /\ UNCHANGED <<record, tarball, part, holds, opener, calm, pc, again, kind, writes, staged, outcome>>

Settle ==
  /\ ~calm
  /\ calm' = TRUE
  /\ UNCHANGED <<disk, pc, again, kind, writes, staged, outcome>>

Step(r) ==
  \/ Begin(r) \/ ReadRecord(r) \/ Probe(r) \/ ResolveRelease(r) \/ FindTarball(r)
  \/ Respond(r) \/ OpenPart(r) \/ Stream(r) \/ RenamePart(r)
  \/ Stage(r) \/ Extract(r) \/ Discard(r) \/ Validate(r)
  \/ Clear(r) \/ Place(r) \/ WriteRecord(r) \/ Done(r)
  \/ DownloadFails(r) \/ StepFails(r)

Next ==
  \/ \E r \in Runs : Step(r) \/ Crash(r)
  \/ Damage
  \/ Settle

Spec == Init /\ [][Next]_vars

\* The script is run again and again, runs get on, and failures cease.
Fairness == WF_vars(Settle) /\ \A r \in Runs : WF_vars(Step(r))

FairSpec == Spec /\ Fairness

-----------------------------------------------------------------------------
\* However archives arrive and runs overlap, an extracted tree gets to the place
\* where later runs reuse it only after it has been validated.
TreeValidated == tree # "hollow"

\* When the only run of the script has succeeded the cache is complete: the tree
\* is whole and its manifest readable.
SuccessIsCached ==
  [][\A r \in Runs : Runs = {r} /\ outcome'[r] = "ok" /\ outcome[r] # "ok" =>
       tree' = "whole" /\ record' = "valid"]_vars

\* Runs that do not overlap never leave a half-written archive under the
\* tarball's name, whenever they die.
TarballComplete ==
  Cardinality(Runs) = 1 /\ tarball # NoFile => opener[tarball] = Nobody

\* Once nothing fails of itself any more, running the script again and again
\* keeps ending with a usable cache.
Recovers == \A r \in Runs : []<>(pc[r] = "idle" /\ outcome[r] = "ok")

\* What does hold: it recovers from failed requests and file operations, archives
\* that do not extract and deaths at any step, unless a manifest that does not parse
\* or an archive that extracts to the wrong tree was left behind; runs in which
\* nothing fails replace neither.
RecoversUnlessPoisoned ==
  \/ Recovers
  \/ <>[](record = "torn")
  \/ <>[](Archive(tarball) = "hollow")
=============================================================================
