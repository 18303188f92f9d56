--------------------------- MODULE WorkflowUpdate ----------------------------
(***************************************************************************)
(* update-workflows.node.ts: a run of the script reads every workflow file *)
(* under .github, looks up the newest release of each action and of mise,  *)
(* and rewrites the lines that pin another one.                            *)
(*                                                                         *)
(* A line is abstracted to what the script's patterns see of it.  The      *)
(* groups of a run ask for tags and commits at once (Promise.all), so      *)
(* every request is a step and releases are published in between.  The     *)
(* shared tag cache is no state: all groups look into it before the first  *)
(* answer is put there, so each asks for itself.  Nobody edits the files   *)
(* while a run is under way.  A run that dies may leave the beginning of   *)
(* the file it was writing, and end in the middle of a line: of a version  *)
(* then its beginning is left.  A line cut before its version is none that *)
(* the patterns see, and of a comment that is no version no beginning is   *)
(* one.                                                                    *)
(***************************************************************************)
EXTENDS Integers, Sequences, FiniteSets, Functions

CONSTANTS
  Files,       \* workflow files, numbered in the order they are read
  Original,    \* Original[f]: the lines of file f in the repository, which are
               \* no blank lines: [kind, indent, starts, action, ref, version],
               \* where starts says that the line begins a step
  MiseAction,  \* jdx/mise-action, whose step holds a version of mise
  Mise,        \* the repository of mise
  Releases,    \* Releases[r]: the tags of repository r, first to last
  Published,   \* Published[r]: how many of them are there at the start
  MaxMoves,    \* bound: how often a tag is moved to another commit
  None, Asked, NoTag, NoRef

VARIABLES
  files,    \* files[f]: the lines of f
  torn,     \* places <<f, i>> of lines that the death of a run has cut; this is
            \* no variable of the script
  tags,     \* tags[r]: how many of the releases of r are published
  moves,    \* how often tags were moved; part of the commit a tag names
  stable,   \* nothing was published or moved since the run began
  calm,     \* from now on no request fails, nothing is published, no run dies
  pc,       \* the stage of the run
  dry,      \* --dry-run
  uses,     \* workflowUses: what the inventory found
  pins,     \* miseVersionUses
  target,   \* target[g]: the release found for group g, Asked or NoTag
  commit,   \* commit[g]: the commit of that release, or NoRef
  latest,   \* the version of mise to pin, or NoTag
  todo,     \* filesToWrite: files still to be written
  at,       \* the file being written, or NoFile
  outcome   \* how the last run ended, None while it runs

run == <<pc, dry, uses, pins, target, commit, latest, todo, at, outcome>>
vars == <<files, torn, tags, moves, stable, calm, run>>

NoFile == 0
Repositories == DOMAIN Releases

-----------------------------------------------------------------------------
(***************************************************************************)
(* Versions.  A tag carries a version, a record of numbers, the rank of a  *)
(* prerelease (0 for none) and how many numbers were written; or text that *)
(* does not parse.                                                         *)
(***************************************************************************)
Versions == [major : Nat, minor : Nat, patch : Nat, pre : Nat, segments : Nat]

IsVersion(x) == "major" \in DOMAIN x

\* The patterns make versions of numbers; uses are of actions that have a repository.
ASSUME WorkflowUpdateAssumption ==
  /\ Files \subseteq Nat \ {0}
  /\ IsFiniteSet(Files)
  /\ DOMAIN Original = Files
  /\ \A f \in Files :
       /\ Original[f] \in Seq(Range(Original[f]))
       /\ \A i \in DOMAIN Original[f] :
            LET line == Original[f][i]
            IN  /\ line = [kind |-> line.kind, indent |-> line.indent, starts |-> line.starts,
                           action |-> line.action, ref |-> line.ref, version |-> line.version]
                /\ line.kind = "use" => line.action \in Repositories
                /\ line.kind = "version" => line.version \in Versions
  /\ Mise \in Repositories
  /\ MaxMoves \in Nat
  /\ \A r \in Repositories :
       /\ Releases[r] \in Seq(Range(Releases[r]))
       /\ Published[r] \in 0 .. Len(Releases[r])
       /\ \A i \in 1 .. Len(Releases[r]) :
            /\ Releases[r][i].v \in BOOLEAN
            /\ Releases[r][i] \notin {NoTag, Asked}
            /\ IsVersion(Releases[r][i].version) => Releases[r][i].version \in Versions
            /\ \A n \in 0 .. MaxMoves : <<Releases[r][i], n>> # NoRef
  /\ DOMAIN Published = Repositories
  /\ NoTag # Asked
  /\ None \notin {"ok", "failed", "crashed"}

Key(v) ==
  << v.major, v.minor, v.patch, IF v.pre = 0 THEN 1 ELSE 0, v.pre, v.segments >>

\* Mutant of Later: the prefix v4 of a version is taken for its newest release.
Later_Shortest(v, w) ==
  \E i \in 1 .. 6 :
    /\ IF i = 6 THEN Key(v)[i] < Key(w)[i] ELSE Key(v)[i] > Key(w)[i]
    /\ \A j \in 1 .. i - 1 : Key(v)[j] = Key(w)[j]

\* compareVersions(v, w) > 0.
Later(v, w) ==
  \E i \in 1 .. 6 :
    /\ Key(v)[i] > Key(w)[i]
    /\ \A j \in 1 .. i - 1 : Key(v)[j] = Key(w)[j]

\* Mutant of Eligible: prereleases are taken.
Eligible_Any(t) == IsVersion(t.version)

Eligible(t) == IsVersion(t.version) /\ t.version.pre = 0

\* Mutant of Latest: the tags are sorted the wrong way round.
Latest_Oldest(S) ==
  LET oldest == {t \in S : Eligible(t) /\ ~\E u \in S : Eligible(u) /\ Later(t.version, u.version)}
  IN IF oldest = {} THEN NoTag
     ELSE CHOOSE t \in oldest : \A u \in oldest : t.v => u.v

\* selectLatestTag(): of 4.0.0 and v4.0.0, git lists the first before the second.
Latest(S) ==
  LET newest == {t \in S : Eligible(t) /\ ~\E u \in S : Eligible(u) /\ Later(u.version, t.version)}
  IN IF newest = {} THEN NoTag
     ELSE CHOOSE t \in newest : \A u \in newest : t.v => u.v

\* v has greater numbers than w, whatever is written of them.
Newer(v, w) ==
  \/ v.major > w.major
  \/ v.major = w.major /\ v.minor > w.minor
  \/ v.major = w.major /\ v.minor = w.minor /\ v.patch > w.patch

\* What the repository pins has been released: no use names a release that is still
\* to come, no version line one of mise that is newer than all there are.
ASSUME PinnedIsPublished ==
  \A f \in Files : \A i \in DOMAIN Original[f] :
    LET line == Original[f][i]
    IN  /\ line.kind = "use" =>
             \A k \in 1 .. Len(Releases[line.action]) :
               Releases[line.action][k].version = line.version =>
                 \E n \in 1 .. Published[line.action] :
                   Releases[line.action][n].version = line.version
        /\ line.kind = "version" =>
             \E n \in 1 .. Published[Mise] :
               /\ Eligible(Releases[Mise][n])
               /\ ~Newer(line.version, Releases[Mise][n].version)

\* What is left of a number of at most four digits that is cut, or whole.
Beginnings(n) == {n} \cup ({n \div d : d \in {10, 100, 1000}} \ {0})

\* The versions the beginnings of a version are, as long as they are versions at all.
Shortened(v) ==
  {[v EXCEPT !.pre = n] : n \in 0 .. v.pre}
    \cup {[v EXCEPT !.patch = n, !.pre = 0] : n \in Beginnings(v.patch)}
    \cup {[v EXCEPT !.minor = n, !.patch = 0, !.pre = 0, !.segments = 2] : n \in Beginnings(v.minor)}
    \cup {[v EXCEPT !.major = n, !.minor = 0, !.patch = 0, !.pre = 0, !.segments = 1] :
            n \in Beginnings(v.major)}

CutText == [text |-> "cut"]

\* What the patterns may see of a line that is cut: the comment of a use, or a
\* version of mise as long as it has three numbers.
CutVersions(line) ==
  CASE line.kind = "version" ->
         {[line.version EXCEPT !.patch = n] : n \in Beginnings(line.version.patch)} \ {line.version}
    [] line.kind = "use" /\ IsVersion(line.version) ->
         {CutText} \cup {v \in Shortened(line.version) :
                           v.segments <= line.version.segments /\ v # line.version}
    [] line.kind = "use" /\ ~IsVersion(line.version) -> {CutText}
    [] OTHER -> {}

TagsOf(r) == {Releases[r][i] : i \in 1 .. tags[r]}

-----------------------------------------------------------------------------
(***************************************************************************)
(* The inventory.                                                          *)
(***************************************************************************)
\* uses: lines that have a comment; the comment is taken for the version.
WorkflowUses ==
  UNION {{[file |-> f, index |-> i, action |-> files[f][i].action,
           ref |-> files[f][i].ref, version |-> files[f][i].version] :
            i \in {j \in DOMAIN files[f] : files[f][j].kind = "use"}} : f \in Files}

\* Mutant of InReach: the version may stand anywhere below the action.
InReach_Anywhere(lines, i, j) == j > i

\* Below i, and nothing between is indented less than the line of the action.
InReach(lines, i, j) ==
  j > i /\ \A k \in i + 1 .. j : lines[k].indent >= lines[i].indent

\* findMiseVersionUse(): the first version line in reach.
VersionLines(lines, i) ==
  LET reach == {j \in DOMAIN lines : lines[j].kind = "version" /\ InReach(lines, i, j)}
  IN {j \in reach : \A k \in reach : j <= k}

MiseVersionUses ==
  UNION {{[file |-> u.file, index |-> j, version |-> files[u.file][j].version] :
            j \in VersionLines(files[u.file], u.index)} :
         u \in {w \in WorkflowUses : w.action = MiseAction}}

Before(u, w) == u.file < w.file \/ (u.file = w.file /\ u.index < w.index)

\* groupKey().
Group(u) == [action |-> u.action, version |-> u.version]

Members(g) == {u \in uses : Group(u) = g}

\* The use a group's current ref and version are taken from.
First(g) == CHOOSE u \in Members(g) : \A w \in Members(g) \ {u} : Before(u, w)

-----------------------------------------------------------------------------
(***************************************************************************)
(* A run.                                                                  *)
(***************************************************************************)
Init ==
  /\ files = Original
  /\ torn = {}
  /\ tags = Published
  /\ moves = 0
  /\ stable = TRUE
  /\ calm = FALSE
  /\ pc = "idle"
  /\ dry = FALSE
  /\ uses = {}
  /\ pins = {}
  /\ target = << >>
  /\ commit = << >>
  /\ latest = NoTag
  /\ todo = {}
  /\ at = NoFile
  /\ outcome = None

World == <<files, torn, tags, moves, stable, calm>>

\* The process ends, and its variables with it; the uses a run that is not dry
\* has brought up to date are kept to speak about them.
Finish(result) ==
  /\ pc' = "idle"
  /\ outcome' = result
  /\ dry' = FALSE
  /\ uses' = IF result = "ok" /\ ~dry THEN uses ELSE {}
  /\ pins' = {}
  /\ target' = << >>
  /\ commit' = << >>
  /\ latest' = NoTag
  /\ todo' = {}
  /\ at' = NoFile

\* A run without any use is over at once.
Begin ==
  /\ pc = "idle"
  /\ dry' \in BOOLEAN
  /\ uses' = WorkflowUses
  /\ pins' = MiseVersionUses
  /\ target' = [g \in {Group(u) : u \in WorkflowUses} |-> Asked]
  /\ commit' = [g \in {Group(u) : u \in WorkflowUses} |-> NoRef]
  /\ latest' = NoTag
  /\ IF WorkflowUses = {} THEN pc' = "idle" /\ outcome' = "ok"
                          ELSE pc' = "lookup" /\ outcome' = None
  /\ stable' = TRUE
  /\ UNCHANGED <<files, torn, tags, moves, calm, todo, at>>

\* getRepositoryTags() and selectLatestTag() for one group.
ListTags(g) ==
  /\ pc = "lookup"
  /\ target[g] = Asked
  /\ target' = [target EXCEPT ![g] = Latest(TagsOf(g.action))]
  /\ UNCHANGED <<World, pc, dry, uses, pins, commit, latest, todo, at, outcome>>

\* resolveTagCommit(): the commit the tag names at this moment.
ResolveTag(g) ==
  /\ pc = "lookup"
  /\ target[g] \notin {Asked, NoTag}
  /\ commit[g] = NoRef
  /\ commit' = [commit EXCEPT ![g] = <<target[g], moves>>]
  /\ UNCHANGED <<World, pc, dry, uses, pins, target, latest, todo, at, outcome>>

\* resolveMiseUpdates(), when all groups are resolved.
LookUpMise ==
  /\ pc = "lookup"
  /\ \A g \in DOMAIN target : target[g] = NoTag \/ commit[g] # NoRef
  /\ latest' = IF pins = {} THEN NoTag ELSE Latest(TagsOf(Mise))
  /\ pc' = "plan"
  /\ UNCHANGED <<World, dry, uses, pins, target, commit, todo, at, outcome>>

LookupFails ==
  /\ pc = "lookup"
  /\ ~calm
  /\ Finish("failed")
  /\ UNCHANGED World

\* hasUpdate, judged by the first use of the group.
HasUpdate(g) ==
  /\ target[g] # NoTag
  /\ First(g).ref # commit[g] \/ g.version # target[g].version

PinHasUpdate(p) == latest # NoTag /\ p.version # latest.version

\* Mutant of Rewritten: a use is written with the beginning of its group's first use.
Rewritten_FirstPrefix(f, i) ==
  LET line == files[f][i]
      here == {u \in uses : u.file = f /\ u.index = i /\ HasUpdate(Group(u))}
      pinned == {p \in pins : p.file = f /\ p.index = i /\ PinHasUpdate(p)}
  IN CASE here # {} ->
            LET g == Group(CHOOSE u \in here : TRUE)
            IN [files[First(g).file][First(g).index] EXCEPT !.ref = commit[g],
                                                            !.version = target[g].version]
       [] pinned # {} -> [line EXCEPT !.version = latest.version]
       [] OTHER -> line

\* What the run makes of line i of file f.
Rewritten(f, i) ==
  LET line == files[f][i]
      here == {u \in uses : u.file = f /\ u.index = i /\ HasUpdate(Group(u))}
      pinned == {p \in pins : p.file = f /\ p.index = i /\ PinHasUpdate(p)}
  IN CASE here # {} ->
            LET g == Group(CHOOSE u \in here : TRUE)
            IN [line EXCEPT !.ref = commit[g], !.version = target[g].version]
       [] pinned # {} -> [line EXCEPT !.version = latest.version]
       [] OTHER -> line

UseFiles == {u.file : u \in {w \in uses : HasUpdate(Group(w))}}

Plan ==
  /\ pc = "plan"
  /\ \/ dry /\ Finish("ok")
     \/ /\ ~dry
        /\ pc' = "write"
        /\ todo' = UseFiles \cup {p.file : p \in {q \in pins : PinHasUpdate(q)}}
        /\ UNCHANGED <<dry, uses, pins, target, commit, latest, at, outcome>>
  /\ UNCHANGED World

\* Files of uses are in the map before files that only pin mise.
WrittenBefore(e, f) ==
  \/ e \in UseFiles /\ f \notin UseFiles
  \/ (e \in UseFiles <=> f \in UseFiles) /\ e < f

\* writeFile() truncates, then fills.
Truncate(f) ==
  /\ pc = "write"
  /\ f \in todo
  /\ \A e \in todo \ {f} : WrittenBefore(f, e)
  /\ pc' = "fill"
  /\ at' = f
  /\ UNCHANGED <<World, dry, uses, pins, target, commit, latest, todo, outcome>>

\* The lines that are left as they were cut.
StillTorn ==
  {c \in torn : c[2] \in DOMAIN files'[c[1]] /\ files'[c[1]][c[2]] = files[c[1]][c[2]]}

Fill ==
  /\ pc = "fill"
  /\ files' = [files EXCEPT ![at] = [i \in DOMAIN @ |-> Rewritten(at, i)]]
  /\ pc' = "write"
  /\ torn' = StillTorn
  /\ todo' = todo \ {at}
  /\ at' = NoFile
  /\ UNCHANGED <<tags, moves, stable, calm, dry, uses, pins, target, commit, latest, outcome>>

Done ==
  /\ pc = "write"
  /\ todo = {}
  /\ Finish("ok")
  /\ UNCHANGED World

\* The beginning of the file is left, n lines of it.
Leave(n) ==
  /\ files' = [files EXCEPT ![at] = [i \in 1 .. n |-> Rewritten(at, i)]]
  /\ torn' = StillTorn

\* As Leave, and the last of the lines is cut in its version.
LeaveCut(n) ==
  /\ \E v \in CutVersions(Rewritten(at, n)) :
       files' = [files EXCEPT ![at] =
                   [i \in 1 .. n |-> IF i < n THEN Rewritten(at, i)
                                              ELSE [Rewritten(at, n) EXCEPT !.version = v]]]
  /\ torn' = StillTorn \cup {<<at, n>>}

\* The run fails or dies between two writes, or in the middle of one.
Crash ==
  /\ pc \in {"write", "fill"}
  /\ ~calm
  /\ \/ pc = "write" /\ UNCHANGED <<files, torn>>
     \/ pc = "fill" /\ \E n \in 0 .. Len(files[at]) - 1 : Leave(n)
     \/ pc = "fill" /\ \E n \in DOMAIN files[at] : LeaveCut(n)
  /\ Finish("crashed")
  /\ UNCHANGED <<tags, moves, stable, calm>>

-----------------------------------------------------------------------------
\* The world outside: releases, tags that are moved, a checkout of the files.
Publish(r) ==
  /\ ~calm
  /\ tags[r] < Len(Releases[r])
  /\ tags' = [tags EXCEPT ![r] = @ + 1]
  /\ stable' = FALSE
  /\ UNCHANGED <<files, torn, moves, calm, run>>

MoveTag ==
  /\ ~calm
  /\ moves < MaxMoves
  /\ moves' = moves + 1
  /\ stable' = FALSE
  /\ UNCHANGED <<files, torn, tags, calm, run>>

Restore(f) ==
  /\ ~calm
  /\ pc = "idle"
  /\ files[f] # Original[f]
  /\ files' = [files EXCEPT ![f] = Original[f]]
  /\ torn' = {c \in torn : c[1] # f}
  /\ stable' = FALSE
  /\ UNCHANGED <<tags, moves, calm, run>>

Settle ==
  /\ ~calm
  /\ calm' = TRUE
  /\ UNCHANGED <<files, torn, tags, moves, stable, run>>

Step ==
  \/ Begin \/ LookUpMise \/ LookupFails \/ Plan \/ Fill \/ Done
  \/ \E g \in DOMAIN target : ListTags(g) \/ ResolveTag(g)
  \/ \E f \in Files : Truncate(f)

Next ==
  \/ Step \/ Crash \/ MoveTag \/ Settle
  \/ \E r \in Repositories : Publish(r)
  \/ \E f \in Files : Restore(f)

Spec == Init /\ [][Next]_vars

\* Requests are answered and files written, the script is run without --dry-run
\* again and again, and the disturbances cease.
Fairness ==
  /\ WF_vars(Settle)
  /\ WF_vars(Step /\ pc # "idle")
  /\ SF_vars(Begin /\ ~dry')

FairSpec == Spec /\ Fairness

-----------------------------------------------------------------------------
UseLines(f) == {i \in DOMAIN files[f] : files[f][i].kind = "use"}

TypeOK ==
  /\ \A f \in Files : \A i \in DOMAIN files[f] :
       [files[f][i] EXCEPT !.ref = NoRef, !.version = None] =
         [Original[f][i] EXCEPT !.ref = NoRef, !.version = None]
  /\ torn \subseteq Files \X Nat
  /\ DOMAIN tags = Repositories
  /\ \A r \in Repositories : tags[r] \in 0 .. Len(Releases[r])
  /\ moves \in 0 .. MaxMoves
  /\ {stable, calm, dry} \subseteq BOOLEAN
  /\ pc \in {"idle", "lookup", "plan", "write", "fill"}
  /\ DOMAIN target = DOMAIN commit
  /\ todo \subseteq Files
  /\ pc = "fill" <=> at # NoFile
  /\ at # NoFile => at \in todo
  /\ outcome \in {None, "ok", "failed", "crashed"}
  /\ pc \notin {"write", "fill"} => todo = {}

Stable(v) == IsVersion(v) /\ v.pre = 0

StableTags(r) == {t \in TagsOf(r) : Stable(t.version)}

\* When a run succeeds and nothing was released meanwhile, every use it found is
\* at the newest stable release of its action, by version and by commit, and at
\* v4.0.0 rather than at v4; except for uses the code does not look at: those
\* whose ref differs from that of the first use with the same version.
Pinned ==
  pc = "idle" /\ outcome = "ok" /\ stable =>
    \A u \in uses :
      StableTags(u.action) # {} /\ u.ref = First(Group(u)).ref =>
        LET line == files[u.file][u.index] IN
          \E t \in StableTags(u.action) :
            /\ line.version = t.version
            /\ line.ref = <<t, moves>>
            /\ \A o \in StableTags(u.action) :
                 \/ Newer(t.version, o.version)
                 \/ /\ ~Newer(o.version, t.version)
                    /\ o.version.segments <= t.version.segments

\* The line pins a stable release.
Released(line) ==
  \/ line.kind = "version"
  \/ line.kind = "use" /\ \E t \in StableTags(line.action) : t.version = line.version

\* A run never replaces a stable release by an earlier one, though what is released
\* changes while it runs and earlier runs died; except in a line that the death of a
\* run cuts (2026.10.25 left as 2026.10.2), or has cut before.
NeverBack ==
  [][\A f \in Files : \A i \in DOMAIN files[f] \cap DOMAIN files'[f] :
       pc # "idle" /\ Released(files[f][i]) /\ <<f, i>> \notin torn \cup torn' =>
         ~Newer(files[f][i].version, files'[f][i].version)]_vars

\* The step a line belongs to is the last one begun above it or by it.
SameStep(f, i, j) == \A k \in i + 1 .. j : ~Original[f][k].starts

\* The script updates "pinned workflow tooling references" (docs/commands.md:18):
\* a version line is only rewritten when it belongs to a step that uses mise, though
\* the death of a run may cut any.
OnlyMiseVersions ==
  [][\A f \in Files : \A j \in DOMAIN files[f] \cap DOMAIN files'[f] :
       /\ files[f][j].kind = "version" /\ files'[f][j] # files[f][j]
       /\ pc # "idle" /\ <<f, j>> \notin torn'
       =>
         \E i \in UseLines(f) :
           /\ i < j
           /\ files[f][i].action = MiseAction
           /\ SameStep(f, i, j)]_vars

\* Once releases and failures cease, the uses come to name the newest stable
\* release and keep to it, whatever was interrupted before.
VersionsConverge ==
  <>[](\A f \in Files : \A i \in UseLines(f) :
         StableTags(files[f][i].action) # {} =>
           \E t \in StableTags(files[f][i].action) :
             /\ files[f][i].version = t.version
             /\ \A o \in StableTags(files[f][i].action) : ~Newer(o.version, t.version))
=============================================================================
