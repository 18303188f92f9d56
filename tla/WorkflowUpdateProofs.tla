------------------------ MODULE WorkflowUpdateProofs -------------------------
(***************************************************************************)
(* What runs of update-workflows.node.ts guarantee for any files, lines,   *)
(* actions and releases, though releases appear, tags move and runs die    *)
(* in between.                                                             *)
(*                                                                         *)
(* What a run knows of a line stays true until it rewrites it, since only  *)
(* its own writes change files meanwhile; what it knows of the releases    *)
(* grows old, but what it has seen stays published.                        *)
(***************************************************************************)
EXTENDS WorkflowUpdate, WellFoundedInduction, TLAPS

\* The lines are those of the file in the repository, the first ones at least, but for
\* refs and versions.
FileShaped(f, lines) ==
  /\ \E n \in 0 .. Len(Original[f]) : lines = [i \in 1 .. n |-> lines[i]]
  /\ \A i \in DOMAIN lines :
       lines[i] = [Original[f][i] EXCEPT !.ref = lines[i].ref, !.version = lines[i].version]

Shaped == DOMAIN files = Files /\ torn \subseteq Files \X Nat /\ \A f \in Files : FileShaped(f, files[f])

\* The variables of a run, and of the world.
Typed ==
  /\ DOMAIN tags = Repositories
  /\ \A r \in Repositories : tags[r] \in Published[r] .. Len(Releases[r])
  /\ moves \in 0 .. MaxMoves
  /\ {stable, calm, dry} \subseteq BOOLEAN
  /\ pc \in {"idle", "lookup", "plan", "write", "fill"}
  /\ DOMAIN target = DOMAIN commit
  /\ todo \subseteq Files
  /\ pc = "fill" <=> at # NoFile
  /\ at # NoFile => at \in todo
  /\ outcome \in {None, "ok", "failed", "crashed"}
  /\ pc \notin {"write", "fill"} => todo = {}

\* A release with version v is among the first n of r, if there is one at all.
OutAlready(r, v, n) ==
  \A k \in 1 .. Len(Releases[r]) :
    Releases[r][k].version = v => \E m \in 1 .. n : Releases[r][m].version = v

\* A stable version of mise that v is not newer than is among the first n.
NotAhead(v, n) ==
  \E m \in 1 .. n : Eligible(Releases[Mise][m]) /\ ~Newer(v, Releases[Mise][m].version)

\* t is a stable release of r, one of the first n.
Out(t, r, n) == \E k \in 1 .. n : t = Releases[r][k] /\ Eligible(t)

\* The line is not ahead of what is published.
KnownLine(line, published) ==
  /\ line.kind = "use" => OutAlready(line.action, line.version, published[line.action])
  /\ line.kind = "version" => line.version \in Versions /\ NotAhead(line.version, published[Mise])

\* Nor is any line, but a use that the death of a run has cut: what is left of its
\* version may be the version of a release to come.
Known ==
  \A f \in Files : \A i \in DOMAIN files[f] :
    \/ <<f, i>> \in torn /\ files[f][i].kind = "use"
    \/ KnownLine(files[f][i], tags)

LineOf(u) == files[u.file][u.index]

\* The run has rewritten what it rewrites of the file.
Over(f) == pc \in {"write", "fill"} /\ f \notin todo

\* The line of a use is not cut, and not rewritten yet.
Whole(u) == ~Over(u.file) /\ <<u.file, u.index>> \notin torn

\* What the inventory says of a line holds until its file is written.
Inventory ==
  pc # "idle" =>
    /\ \A u \in uses :
         /\ u.file \in Files /\ u.index \in DOMAIN files[u.file]
         /\ LineOf(u).kind = "use" /\ LineOf(u).action = u.action
         /\ u.action \in Repositories
         /\ Whole(u) => OutAlready(u.action, u.version, tags[u.action])
    /\ \A u, w \in uses : u.file = w.file /\ u.index = w.index => u = w
    /\ \A p \in pins :
         /\ p.file \in Files /\ p.index \in DOMAIN files[p.file]
         /\ LineOf(p).kind = "version"
         /\ p.version \in Versions /\ NotAhead(p.version, tags[Mise])
         /\ ~Over(p.file) => LineOf(p).version = p.version
    /\ DOMAIN target = {Group(u) : u \in uses}

\* Lines of uses that have an update are at it once their file is written; others stay.
Updated ==
  pc # "idle" =>
    \A u \in uses :
      IF Over(u.file) /\ HasUpdate(Group(u))
      THEN /\ LineOf(u).ref = commit[Group(u)]
           /\ LineOf(u).version = target[Group(u)].version
      ELSE LineOf(u).ref = u.ref /\ LineOf(u).version = u.version

\* What has been looked up: a release that was the latest then, and its commit; it is
\* no older than the version it replaces, where a line has that whole.
Resolved ==
  pc # "idle" =>
    \A g \in DOMAIN target :
      /\ target[g] = Asked => pc = "lookup"
      /\ target[g] \in {Asked, NoTag} => commit[g] = NoRef
      /\ target[g] \notin {Asked, NoTag} =>
           /\ Out(target[g], g.action, tags[g.action])
           /\ (\E u \in uses : Group(u) = g /\ Whole(u)) =>
                \A k \in 1 .. Len(Releases[g.action]) :
                  Eligible(Releases[g.action][k]) /\ Releases[g.action][k].version = g.version =>
                    ~Newer(g.version, target[g].version)
      /\ pc # "lookup" => target[g] = NoTag \/ commit[g] # NoRef
      /\ stable =>
           /\ target[g] \in {Asked, Latest(TagsOf(g.action))}
           /\ commit[g] \in {NoRef, <<target[g], moves>>}

MiseResolved ==
  pc \in {"plan", "write", "fill"} /\ latest # NoTag =>
    /\ Out(latest, Mise, tags[Mise])
    /\ \A p \in pins : ~Newer(p.version, latest.version)

\* What a run that succeeded has left, if nothing was released or moved since it began.
Settled ==
  pc = "idle" /\ outcome = "ok" /\ stable =>
    \A u \in uses :
      /\ u.action \in Repositories
      /\ Latest(TagsOf(u.action)) # NoTag /\ u.ref = First(Group(u)).ref =>
           /\ LineOf(u).version = Latest(TagsOf(u.action)).version
           /\ LineOf(u).ref = <<Latest(TagsOf(u.action)), moves>>

\* The versions of mise a run found stand in reach of lines that use mise.
Reached ==
  pc # "idle" =>
    \A p \in pins : \E i \in UseLines(p.file) :
      files[p.file][i].action = MiseAction /\ InReach(Original[p.file], i, p.index)

Inv ==
  /\ Shaped /\ Typed /\ Known /\ Inventory /\ Updated /\ Resolved /\ MiseResolved
  /\ Settled /\ Reached

-----------------------------------------------------------------------------
\* A set of numbers that has 0, and with every number the next, has them all: else
\* there were a least one that it has not.
LEMMA Induction ==
  ASSUME NEW S \in SUBSET Nat, 0 \in S, \A n \in S : n + 1 \in S
  PROVE  S = Nat
<1> DEFINE Less == {ss \in Nat \X Nat : ss[1] < ss[2]}
<1>1. IsWellFoundedOn(Less, Nat)
  BY NatLessThanWellFounded, Zenon DEF OpToRel
<1> SUFFICES ASSUME Nat \ S # {} PROVE FALSE
  OBVIOUS
<1>2. PICK n \in Nat \ S : \A m \in Nat \ S : <<m, n>> \notin Less
  <2> HIDE DEF Less
  <2> QED
    BY <1>1, WFMin
<1>3. n # 0 /\ n - 1 \in Nat /\ <<n - 1, n>> \in Less
  OBVIOUS
<1>4. n - 1 \in S
  BY <1>2, <1>3
<1> QED
  BY <1>3, <1>4

\* Later compares number by number; it is a strict order, and Newer is its beginning.
LEMMA LaterMeans ==
  ASSUME NEW v \in Versions, NEW w \in Versions
  PROVE  Later(v, w) <=>
           LET p == IF v.pre = 0 THEN 1 ELSE 0
               q == IF w.pre = 0 THEN 1 ELSE 0
           IN  \/ v.major > w.major
               \/ /\ v.major = w.major
                  /\ \/ v.minor > w.minor
                     \/ /\ v.minor = w.minor
                        /\ \/ v.patch > w.patch
                           \/ /\ v.patch = w.patch
                              /\ \/ p > q
                                 \/ p = q /\ v.pre > w.pre
                                 \/ p = q /\ v.pre = w.pre /\ v.segments > w.segments
<1> DEFINE G(i) == Key(v)[i] > Key(w)[i]
           E(i) == Key(v)[i] = Key(w)[i]
<1>1. Later(v, w) <=>
        G(1) \/ (E(1) /\ G(2)) \/ (E(1) /\ E(2) /\ G(3)) \/ (E(1) /\ E(2) /\ E(3) /\ G(4))
          \/ (E(1) /\ E(2) /\ E(3) /\ E(4) /\ G(5))
          \/ (E(1) /\ E(2) /\ E(3) /\ E(4) /\ E(5) /\ G(6))
  <2> HIDE DEF G, E
  <2>1. Later(v, w) <=> \E i \in 1 .. 6 : G(i) /\ \A j \in 1 .. i - 1 : E(j)
    BY DEF Later, G, E
  <2> QED
    BY <2>1
<1> QED
  BY <1>1 DEF Key

LEMMA LaterFacts ==
  ASSUME NEW u \in Versions, NEW v \in Versions, NEW w \in Versions
  PROVE  /\ ~Later(v, v)
         /\ Later(u, v) /\ Later(v, w) => Later(u, w)
         /\ Newer(u, v) => Later(u, v)
         /\ ~Newer(u, v) /\ ~Newer(v, w) => ~Newer(u, w)
         /\ ~Later(u, v) /\ u.pre = 0 /\ v.pre = 0 =>
              Newer(v, u) \/ (~Newer(u, v) /\ u.segments <= v.segments)
BY LaterMeans DEF Newer, Versions

\* Of releases some of which are stable, one is the latest.
LEMMA SomeLatest ==
  ASSUME NEW r \in Repositories, NEW k \in 1 .. Len(Releases[r]), Eligible(Releases[r][k]),
         NEW n \in k .. Len(Releases[r])
  PROVE  \E m \in 1 .. n :
           /\ Eligible(Releases[r][m])
           /\ \A j \in 1 .. n : Eligible(Releases[r][j]) =>
                ~Later(Releases[r][j].version, Releases[r][m].version)
<1> DEFINE Top(i, m) ==
      /\ Eligible(Releases[r][m])
      /\ \A j \in 1 .. i : Eligible(Releases[r][j]) =>
           ~Later(Releases[r][j].version, Releases[r][m].version)
    S == {i \in Nat : i <= Len(Releases[r]) /\ (\E j \in 1 .. i : Eligible(Releases[r][j])) =>
                        \E m \in 1 .. i : Top(i, m)}
<1>0. Len(Releases[r]) \in Nat
  BY WorkflowUpdateAssumption
<1>1. ASSUME NEW j \in 1 .. Len(Releases[r]), Eligible(Releases[r][j])
      PROVE  Releases[r][j].version \in Versions
  BY <1>1, WorkflowUpdateAssumption DEF Eligible
<1>2. ASSUME NEW i \in 1 .. Len(Releases[r]) - 1, NEW m \in 1 .. i, Top(i, m)
      PROVE  \E l \in 1 .. i + 1 : Top(i + 1, l)
  <2>0. i \in Nat /\ 1 .. i + 1 = (1 .. i) \cup {i + 1} /\ i + 1 \in 1 .. Len(Releases[r])
        /\ 1 .. i \subseteq 1 .. Len(Releases[r])
    BY <1>0
  <2>1. CASE ~Eligible(Releases[r][i + 1])
    <3>1. Top(i + 1, m)
      BY <1>2, <2>0, <2>1
    <3> QED
      BY <2>0, <3>1
  <2>2. CASE /\ Eligible(Releases[r][i + 1])
             /\ ~Later(Releases[r][i + 1].version, Releases[r][m].version)
    <3>1. Top(i + 1, m)
      BY <1>2, <2>0, <2>2
    <3> QED
      BY <2>0, <3>1
  <2>3. CASE /\ Eligible(Releases[r][i + 1])
             /\ Later(Releases[r][i + 1].version, Releases[r][m].version)
    <3>1. ASSUME NEW j \in 1 .. i + 1, Eligible(Releases[r][j])
          PROVE  ~Later(Releases[r][j].version, Releases[r][i + 1].version)
      <4>1. /\ Releases[r][j].version \in Versions /\ Releases[r][m].version \in Versions
            /\ Releases[r][i + 1].version \in Versions
        BY <1>1, <1>2, <2>0, <2>3, <3>1
      <4>2. j = i + 1 \/ ~Later(Releases[r][j].version, Releases[r][m].version)
        BY <1>2, <2>0, <3>1
      <4> QED
        BY <2>3, <4>1, <4>2, LaterFacts
    <3>2. Top(i + 1, i + 1)
      BY <2>3, <3>1
    <3> QED
      BY <2>0, <3>2
  <2> QED
    BY <2>1, <2>2, <2>3
<1>3. 0 \in S
  OBVIOUS
<1>4. ASSUME NEW i \in S PROVE i + 1 \in S
  <2> SUFFICES ASSUME i + 1 <= Len(Releases[r]), NEW l \in 1 .. i + 1, Eligible(Releases[r][l])
               PROVE  \E m \in 1 .. i + 1 : Top(i + 1, m)
    BY <1>4
  <2>1. i \in Nat /\ i + 1 \in 1 .. Len(Releases[r]) /\ 1 .. i + 1 = (1 .. i) \cup {i + 1}
    BY <1>0, <1>4
  <2>2. CASE \E j \in 1 .. i : Eligible(Releases[r][j])
    <3>1. PICK m \in 1 .. i : Top(i, m)
      BY <1>0, <1>4, <2>1, <2>2
    <3>2. i \in 1 .. Len(Releases[r]) - 1
      BY <1>0, <2>1, <3>1
    <3> HIDE DEF Top
    <3> QED
      BY <1>2, <3>1, <3>2
  <2>3. CASE ~ \E j \in 1 .. i : Eligible(Releases[r][j])
    <3>1. l = i + 1 /\ Eligible(Releases[r][i + 1])
      BY <2>1, <2>3
    <3>2. ~Later(Releases[r][i + 1].version, Releases[r][i + 1].version)
      BY <1>1, <2>1, <3>1, LaterFacts
    <3>3. Top(i + 1, i + 1)
      BY <2>1, <2>3, <3>1, <3>2
    <3> QED
      BY <2>1, <3>3
  <2> QED
    BY <2>2, <2>3
<1>5. S = Nat
  <2> HIDE DEF S
  <2>1. S \subseteq Nat
    BY DEF S
  <2> QED
    BY <1>3, <1>4, <2>1, Induction
<1>6. n \in Nat /\ n <= Len(Releases[r]) /\ k \in 1 .. n
  BY <1>0
<1>7. \E m \in 1 .. n : Top(n, m)
  <2> HIDE DEF Top
  <2>1. n \in S
    BY <1>5, <1>6
  <2> QED
    BY <1>6, <2>1
<1> QED
  BY <1>7

\* What selectLatestTag() finds among the published tags of a repository.
LEMMA LatestFacts ==
  ASSUME Typed, NEW r \in Repositories
  PROVE  LET t == Latest(TagsOf(r))
         IN  /\ t = NoTag \/ Out(t, r, tags[r])
             /\ t # NoTag =>
                  \A k \in 1 .. tags[r] : Eligible(Releases[r][k]) =>
                    ~Later(Releases[r][k].version, t.version)
             /\ (\E k \in 1 .. tags[r] : Eligible(Releases[r][k])) => t # NoTag
<1> DEFINE newest == {t \in TagsOf(r) : Eligible(t) /\ ~\E u \in TagsOf(r) :
                        Eligible(u) /\ Later(u.version, t.version)}
<1>1. tags[r] \in 0 .. Len(Releases[r]) /\ Len(Releases[r]) \in Nat
      /\ 1 .. tags[r] \subseteq 1 .. Len(Releases[r])
  BY WorkflowUpdateAssumption DEF Typed
<1>2. ASSUME newest # {}
      PROVE  \E t \in newest : \A u \in newest : t.v => u.v
  <2>1. CASE \E t \in newest : ~t.v
    BY <2>1
  <2>2. CASE \A t \in newest : t.v
    BY <1>2, <2>2
  <2> QED
    BY <2>1, <2>2
<1>3. Latest(TagsOf(r)) = IF newest = {} THEN NoTag
                          ELSE CHOOSE t \in newest : \A u \in newest : t.v => u.v
  BY DEF Latest
<1>4. newest # {} => Latest(TagsOf(r)) \in newest
  <2> HIDE DEF newest
  <2> QED
    BY <1>2, <1>3
<1>5. \A t \in newest : t # NoTag /\ Out(t, r, tags[r])
  BY <1>1, WorkflowUpdateAssumption DEF TagsOf, Out
<1>6. \A t \in newest : \A k \in 1 .. tags[r] : Eligible(Releases[r][k]) =>
        ~Later(Releases[r][k].version, t.version)
  BY DEF TagsOf
<1>7. ASSUME NEW k \in 1 .. tags[r], Eligible(Releases[r][k])
      PROVE  newest # {}
  <2>1. k \in 1 .. Len(Releases[r]) /\ tags[r] \in k .. Len(Releases[r])
    BY <1>1
  <2>2. PICK m \in 1 .. tags[r] :
          /\ Eligible(Releases[r][m])
          /\ \A j \in 1 .. tags[r] : Eligible(Releases[r][j]) =>
               ~Later(Releases[r][j].version, Releases[r][m].version)
    BY <1>7, <2>1, SomeLatest
  <2>3. Releases[r][m] \in newest
    BY <2>2 DEF TagsOf
  <2> QED
    BY <2>3
<1> HIDE DEF newest
<1>8. newest = {} => Latest(TagsOf(r)) = NoTag
  BY <1>3
<1> QED
  BY <1>4, <1>5, <1>6, <1>7, <1>8

\* A stable release has a version of numbers.
LEMMA OutVersion ==
  ASSUME Typed, NEW r \in Repositories, NEW t, Out(t, r, tags[r])
  PROVE  t.version \in Versions /\ t.version.pre = 0 /\ t \notin {NoTag, Asked}
<1>1. tags[r] \in 0 .. Len(Releases[r]) /\ Len(Releases[r]) \in Nat
  BY WorkflowUpdateAssumption DEF Typed
<1> QED
  BY <1>1, WorkflowUpdateAssumption DEF Out, Eligible

-----------------------------------------------------------------------------
\* A line the run rewrites: by a use with an update, by a version with one, or not.
LEMMA RewrittenCases ==
  ASSUME Inventory, pc # "idle", NEW f \in Files, NEW i \in DOMAIN files[f]
  PROVE  \/ \E u \in uses :
              /\ u.file = f /\ u.index = i /\ HasUpdate(Group(u))
              /\ Rewritten(f, i) = [files[f][i] EXCEPT !.ref = commit[Group(u)],
                                                       !.version = target[Group(u)].version]
         \/ /\ \A u \in uses : u.file = f /\ u.index = i => ~HasUpdate(Group(u))
            /\ \/ \E p \in pins :
                    /\ p.file = f /\ p.index = i /\ PinHasUpdate(p)
                    /\ Rewritten(f, i) = [files[f][i] EXCEPT !.version = latest.version]
               \/ Rewritten(f, i) = files[f][i]
<1> DEFINE here == {u \in uses : u.file = f /\ u.index = i /\ HasUpdate(Group(u))}
           pinned == {p \in pins : p.file = f /\ p.index = i /\ PinHasUpdate(p)}
           g == Group(CHOOSE u \in here : TRUE)
<1>1. Rewritten(f, i) =
        CASE here # {} -> [files[f][i] EXCEPT !.ref = commit[g], !.version = target[g].version]
          [] pinned # {} -> [files[f][i] EXCEPT !.version = latest.version]
          [] OTHER -> files[f][i]
  BY DEF Rewritten
<1>2. here # {} => (CHOOSE u \in here : TRUE) \in here
  BY Zenon
<1>3. CASE here # {}
  <2>1. PICK u \in here : u = CHOOSE w \in here : TRUE
    BY <1>2, <1>3
  <2>2. Rewritten(f, i) = [files[f][i] EXCEPT !.ref = commit[Group(u)],
                                              !.version = target[Group(u)].version]
    <3>1. g = Group(u)
      BY <2>1
    <3>2. pinned = {}
      BY <2>1 DEF Inventory, LineOf
    <3> HIDE DEF here, pinned, g
    <3>3. Rewritten(f, i) = [files[f][i] EXCEPT !.ref = commit[g], !.version = target[g].version]
      BY <1>1, <1>3, <3>2
    <3> QED
      BY <3>1, <3>3
  <2> QED
    BY <2>1, <2>2
<1>4. CASE here = {}
  <2>1. \A u \in uses : u.file = f /\ u.index = i => ~HasUpdate(Group(u))
    BY <1>4
  <2>2. CASE pinned # {}
    <3>1. Rewritten(f, i) = [files[f][i] EXCEPT !.version = latest.version]
      <4> HIDE DEF here, pinned
      <4> QED
        BY <1>1, <1>4, <2>2
    <3> QED
      BY <2>1, <2>2, <3>1
  <2>3. CASE pinned = {}
    <3>1. Rewritten(f, i) = files[f][i]
      <4> HIDE DEF here, pinned
      <4> QED
        BY <1>1, <1>4, <2>3
    <3> QED
      BY <2>1, <3>1
  <2> QED
    BY <2>2, <2>3
<1> QED
  BY <1>3, <1>4

-----------------------------------------------------------------------------
\* The repository's files are sequences of lines.
LEMMA OriginalFacts ==
  ASSUME NEW f \in Files
  PROVE  /\ Len(Original[f]) \in Nat /\ DOMAIN Original[f] = 1 .. Len(Original[f])
         /\ Original[f] = [i \in 1 .. Len(Original[f]) |-> Original[f][i]]
BY WorkflowUpdateAssumption

Fields == {"kind", "indent", "starts", "action", "ref", "version"}

\* How many releases of a repository can be published.
LEMMA TagsFacts ==
  ASSUME Typed, NEW r \in Repositories
  PROVE  /\ tags[r] \in 0 .. Len(Releases[r]) /\ Published[r] <= tags[r]
         /\ Published[r] \in Nat /\ tags[r] \in Nat /\ Len(Releases[r]) \in Nat
BY WorkflowUpdateAssumption DEF Typed

\* A line is one of the repository, with another ref and version.
LEMMA LineFacts ==
  ASSUME Shaped, NEW f \in Files, NEW i \in DOMAIN files[f]
  PROVE  LET o == Original[f][i]
             l == files[f][i]
         IN  /\ i \in DOMAIN Original[f] /\ DOMAIN o = Fields /\ DOMAIN l = Fields
             /\ l.kind = o.kind /\ l.indent = o.indent /\ l.starts = o.starts
             /\ l.action = o.action
             /\ o.kind = "use" => l.action \in Repositories
<1>1. i \in DOMAIN Original[f]
  <2>1. PICK n \in 0 .. Len(Original[f]) : DOMAIN files[f] = 1 .. n
    BY DEF Shaped, FileShaped
  <2> QED
    BY <2>1, OriginalFacts
<1>2. DOMAIN Original[f][i] = Fields
  <2>1. PICK o : o = Original[f][i]
    OBVIOUS
  <2>2. o = [kind |-> o.kind, indent |-> o.indent, starts |-> o.starts,
             action |-> o.action, ref |-> o.ref, version |-> o.version]
    BY <1>1, <2>1, WorkflowUpdateAssumption
  <2>3. DOMAIN o = Fields
    BY <2>2 DEF Fields
  <2> QED
    BY <2>1, <2>3
<1>3. files[f][i] = [Original[f][i] EXCEPT !.ref = files[f][i].ref,
                                           !.version = files[f][i].version]
  BY DEF Shaped, FileShaped
<1>4. PICK o : o = Original[f][i]
  OBVIOUS
<1>5. PICK r, v : files[f][i] = [o EXCEPT !.ref = r, !.version = v]
  BY <1>3, <1>4
<1>6. /\ files[f][i].kind = o.kind /\ files[f][i].indent = o.indent
      /\ files[f][i].starts = o.starts /\ files[f][i].action = o.action
      /\ DOMAIN files[f][i] = Fields
  BY <1>2, <1>4, <1>5 DEF Fields
<1>7. o.kind = "use" => o.action \in Repositories
  BY <1>1, <1>4, WorkflowUpdateAssumption
<1> QED
  BY <1>1, <1>2, <1>4, <1>6, <1>7

\* The steps that change files: the run that writes one, or dies while it does, and a
\* checkout.
LEMMA FilesStep ==
  ASSUME Shaped, Typed, [Next]_vars
  PROVE  \/ files' = files /\ torn' = torn
         \/ /\ pc = "fill" /\ at \in Files
            /\ \E n \in 0 .. Len(Original[at]) :
                 /\ 1 .. n \subseteq DOMAIN files[at]
                 /\ files' = [files EXCEPT ![at] = [i \in 1 .. n |-> Rewritten(at, i)]]
            /\ torn' = StillTorn /\ UNCHANGED tags
         \/ /\ pc = "fill" /\ at \in Files
            /\ \E n \in 1 .. Len(Original[at]) :
                 /\ 1 .. n \subseteq DOMAIN files[at]
                 /\ \E v \in CutVersions(Rewritten(at, n)) :
                      files' = [files EXCEPT ![at] =
                                  [i \in 1 .. n |-> IF i < n THEN Rewritten(at, i)
                                                    ELSE [Rewritten(at, n) EXCEPT !.version = v]]]
                 /\ torn' = StillTorn \cup {<<at, n>>}
            /\ UNCHANGED tags
         \/ /\ pc = "idle"
            /\ \E f \in Files : /\ files' = [files EXCEPT ![f] = Original[f]]
                               /\ torn' = {c \in torn : c[1] # f}
<1>1. pc = "fill" => at \in todo /\ at \in Files
  BY DEF Typed
<1>2. CASE Fill
  <2>1. PICK n \in 0 .. Len(Original[at]) : DOMAIN files[at] = 1 .. n
    BY <1>1, <1>2 DEF Fill, Shaped, FileShaped
  <2>2. files' = [files EXCEPT ![at] = [i \in 1 .. n |-> Rewritten(at, i)]]
    BY <1>1, <1>2, <2>1 DEF Fill, Shaped, FileShaped
  <2>3. pc = "fill" /\ torn' = StillTorn /\ UNCHANGED tags
    BY <1>2 DEF Fill
  <2> QED
    BY <1>1, <2>1, <2>2, <2>3
<1>3. CASE Crash
  <2>1. CASE pc = "fill"
    <3>1. PICK m \in 0 .. Len(Original[at]) : files[at] = [i \in 1 .. m |-> files[at][i]]
      BY <1>1, <2>1 DEF Shaped, FileShaped
    <3>2. m \in Nat /\ Len(Original[at]) \in Nat
      BY <1>1, <2>1, OriginalFacts
    <3>3. PICK e : files[at] = [i \in 1 .. m |-> e[i]]
      BY <3>1
    <3>4. Len(files[at]) = m /\ DOMAIN files[at] = 1 .. m
      BY <3>2, <3>3
    <3>5. tags' = tags
      BY <1>3 DEF Crash
    <3>6. CASE \E n \in 0 .. Len(files[at]) - 1 : Leave(n)
      <4>1. PICK n \in 0 .. m - 1 : Leave(n)
        BY <3>4, <3>6
      <4>2. /\ n \in 0 .. Len(Original[at]) /\ 1 .. n \subseteq 1 .. m
            /\ files' = [files EXCEPT ![at] = [i \in 1 .. n |-> Rewritten(at, i)]]
            /\ torn' = StillTorn
        BY <3>2, <4>1 DEF Leave
      <4> QED
        BY <1>1, <2>1, <3>4, <3>5, <4>2
    <3>7. CASE \E n \in DOMAIN files[at] : LeaveCut(n)
      <4>1. PICK n \in 1 .. m : LeaveCut(n)
        BY <3>4, <3>7
      <4>2. n \in 1 .. Len(Original[at]) /\ 1 .. n \subseteq DOMAIN files[at]
        BY <3>2, <3>4
      <4>3. /\ \E v \in CutVersions(Rewritten(at, n)) :
                 files' = [files EXCEPT ![at] =
                             [i \in 1 .. n |-> IF i < n THEN Rewritten(at, i)
                                               ELSE [Rewritten(at, n) EXCEPT !.version = v]]]
            /\ torn' = StillTorn \cup {<<at, n>>}
        BY <4>1 DEF LeaveCut
      <4> QED
        BY <1>1, <2>1, <3>5, <4>2, <4>3
    <3> QED
      BY <1>3, <2>1, <3>6, <3>7 DEF Crash
  <2> QED
    BY <1>3, <2>1 DEF Crash
<1>4. CASE \E f \in Files : Restore(f)
  BY <1>4 DEF Restore, run
<1>5. CASE ~Fill /\ ~Crash /\ ~(\E f \in Files : Restore(f))
  BY <1>5 DEF Next, Step, Begin, LookUpMise, LookupFails, Plan, Done, ListTags, ResolveTag,
     Truncate, MoveTag, Settle, Publish, World, vars
<1> QED
  BY <1>2, <1>3, <1>4, <1>5

\* What a run makes of a line: a use goes where its group goes, a pin to the latest
\* version of mise, and another line stays.
Becomes(f, i, l, new) ==
  \/ \E u \in uses :
       /\ u.file = f /\ u.index = i /\ HasUpdate(Group(u)) /\ l.kind = "use"
       /\ new.ref = commit[Group(u)] /\ new.version = target[Group(u)].version
  \/ /\ \A u \in uses : u.file = f /\ u.index = i => ~HasUpdate(Group(u))
     /\ \/ \E p \in pins :
             /\ p.file = f /\ p.index = i /\ PinHasUpdate(p) /\ l.kind = "version"
             /\ new.version = latest.version
        \/ new = l

LEMMA NewLine ==
  ASSUME Shaped, Inventory, pc # "idle", NEW f \in Files, NEW i \in DOMAIN files[f]
  PROVE  LET l == files[f][i]
             new == Rewritten(f, i)
         IN  /\ new = [Original[f][i] EXCEPT !.ref = new.ref, !.version = new.version]
             /\ new.kind = l.kind /\ new.action = l.action
             /\ Becomes(f, i, l, new)
<1>0. PICK o, l, new : o = Original[f][i] /\ l = files[f][i] /\ new = Rewritten(f, i)
  OBVIOUS
<1>1. /\ DOMAIN l = Fields /\ DOMAIN o = Fields /\ l = [o EXCEPT !.ref = l.ref, !.version = l.version]
  BY <1>0, LineFacts DEF Shaped, FileShaped
<1>2. CASE \E u \in uses :
             /\ u.file = f /\ u.index = i /\ HasUpdate(Group(u))
             /\ new = [l EXCEPT !.ref = commit[Group(u)], !.version = target[Group(u)].version]
  <2>1. PICK u \in uses :
             /\ u.file = f /\ u.index = i /\ HasUpdate(Group(u))
             /\ new = [l EXCEPT !.ref = commit[Group(u)], !.version = target[Group(u)].version]
    BY <1>2
  <2>2. /\ new = [o EXCEPT !.ref = new.ref, !.version = new.version]
        /\ new.kind = l.kind /\ new.action = l.action
        /\ new.ref = commit[Group(u)] /\ new.version = target[Group(u)].version
    <3>1. PICK r, v : r = commit[Group(u)] /\ v = target[Group(u)].version
      OBVIOUS
    <3>2. new = [l EXCEPT !.ref = r, !.version = v]
      BY <2>1, <3>1
    <3>3. /\ new = [o EXCEPT !.ref = new.ref, !.version = new.version]
          /\ new.kind = l.kind /\ new.action = l.action /\ new.version = v /\ new.ref = r
      BY <1>1, <3>2 DEF Fields
    <3> QED
      BY <3>1, <3>3
  <2>3. l.kind = "use"
    BY <1>0, <2>1 DEF Inventory, LineOf
  <2> QED
    BY <1>0, <2>1, <2>2, <2>3 DEF Becomes
<1>3. CASE /\ \A u \in uses : u.file = f /\ u.index = i => ~HasUpdate(Group(u))
           /\ \E p \in pins :
                /\ p.file = f /\ p.index = i /\ PinHasUpdate(p)
                /\ new = [l EXCEPT !.version = latest.version]
  <2>1. PICK p \in pins :
                /\ p.file = f /\ p.index = i /\ PinHasUpdate(p)
                /\ new = [l EXCEPT !.version = latest.version]
    BY <1>3
  <2>2. /\ new = [o EXCEPT !.ref = new.ref, !.version = new.version]
        /\ new.kind = l.kind /\ new.action = l.action /\ new.version = latest.version
    <3>1. PICK v : v = latest.version
      OBVIOUS
    <3>2. new = [l EXCEPT !.version = v]
      BY <2>1, <3>1
    <3>3. /\ new = [o EXCEPT !.ref = new.ref, !.version = new.version]
          /\ new.kind = l.kind /\ new.action = l.action /\ new.version = v
      BY <1>1, <3>2 DEF Fields
    <3> QED
      BY <3>1, <3>3
  <2>3. l.kind = "version"
    BY <1>0, <2>1 DEF Inventory, LineOf
  <2> QED
    BY <1>0, <1>3, <2>1, <2>2, <2>3 DEF Becomes
<1>4. CASE /\ \A u \in uses : u.file = f /\ u.index = i => ~HasUpdate(Group(u))
           /\ new = l
  BY <1>0, <1>1, <1>4 DEF Becomes
<1> QED
  BY <1>0, <1>2, <1>3, <1>4, RewrittenCases

\* The repository's files have the shape of their own lines.
LEMMA OriginalShaped ==
  ASSUME NEW f \in Files
  PROVE  FileShaped(f, Original[f])
<1>1. /\ Len(Original[f]) \in 0 .. Len(Original[f])
      /\ Original[f] = [i \in 1 .. Len(Original[f]) |-> Original[f][i]]
      /\ DOMAIN Original[f] = 1 .. Len(Original[f])
  BY OriginalFacts
<1>2. \A i \in DOMAIN Original[f] :
        Original[f][i] = [Original[f][i] EXCEPT !.ref = Original[f][i].ref,
                                                !.version = Original[f][i].version]
  <2> SUFFICES ASSUME NEW i \in DOMAIN Original[f]
               PROVE  Original[f][i] = [Original[f][i] EXCEPT !.ref = Original[f][i].ref,
                                                !.version = Original[f][i].version]
    OBVIOUS
  <2>1. PICK o : o = Original[f][i]
    OBVIOUS
  <2>2. o = [kind |-> o.kind, indent |-> o.indent, starts |-> o.starts,
             action |-> o.action, ref |-> o.ref, version |-> o.version]
    BY <2>1, WorkflowUpdateAssumption
  <2>3. o = [o EXCEPT !.ref = o.ref, !.version = o.version]
    BY <2>2
  <2> QED
    BY <2>1, <2>3
<1> QED
  BY <1>1, <1>2 DEF FileShaped

\* Lines that are cut are lines of the files.
LEMMA TornStep ==
  ASSUME Shaped, Typed, [Next]_vars
  PROVE  torn' \subseteq Files \X Nat
BY FilesStep DEF Shaped, StillTorn

\* A line that is cut keeps everything but its version.
LEMMA CutShape ==
  ASSUME NEW o, NEW l, NEW v, DOMAIN o = Fields,
         l = [o EXCEPT !.ref = l.ref, !.version = l.version]
  PROVE  LET c == [l EXCEPT !.version = v]
         IN  /\ c = [o EXCEPT !.ref = c.ref, !.version = c.version]
             /\ c.kind = l.kind /\ c.action = l.action /\ c.version = v /\ c.ref = l.ref
<1>1. PICK r, w : l = [o EXCEPT !.ref = r, !.version = w]
  OBVIOUS
<1> QED
  BY <1>1 DEF Fields

LEMMA ShapedStep ==
  ASSUME Shaped, Typed, Inventory, [Next]_vars
  PROVE  Shaped'
<1>0. torn' \subseteq Files \X Nat
  BY TornStep
<1>1. CASE files' = files
  BY <1>0, <1>1 DEF Shaped
<1>2. ASSUME pc = "fill", at \in Files, NEW n \in 0 .. Len(Original[at]),
             1 .. n \subseteq DOMAIN files[at],
             files' = [files EXCEPT ![at] = [i \in 1 .. n |-> Rewritten(at, i)]]
      PROVE  Shaped'
  <2>1. \A i \in 1 .. n : LET new == Rewritten(at, i)
                          IN new = [Original[at][i] EXCEPT !.ref = new.ref, !.version = new.version]
    BY <1>2, NewLine
  <2>2. /\ DOMAIN files' = Files /\ \A f \in Files \ {at} : files'[f] = files[f]
        /\ files'[at] = [i \in 1 .. n |-> Rewritten(at, i)]
    BY <1>2 DEF Shaped, FileShaped
  <2>3. files'[at] = [i \in 1 .. n |-> files'[at][i]]
    <3>1. PICK e : files'[at] = [i \in 1 .. n |-> e[i]]
      <4> DEFINE e == [i \in 1 .. n |-> Rewritten(at, i)]
      <4>1. e = [i \in 1 .. n |-> e[i]]
        OBVIOUS
      <4> QED
        BY <2>2, <4>1
    <3> QED
      BY <3>1
  <2>4. \A i \in DOMAIN files'[at] :
          /\ files'[at][i] = Rewritten(at, i)
          /\ files'[at][i] = [Original[at][i] EXCEPT !.ref = files'[at][i].ref,
                                                    !.version = files'[at][i].version]
    BY <2>1, <2>2
  <2>5. FileShaped(at, files'[at])
    BY <1>2, <2>3, <2>4 DEF FileShaped
  <2> QED
    BY <1>0, <2>2, <2>5 DEF Shaped
<1>4. ASSUME pc = "fill", at \in Files, NEW n \in 1 .. Len(Original[at]),
             1 .. n \subseteq DOMAIN files[at], NEW v,
             files' = [files EXCEPT ![at] =
                         [i \in 1 .. n |-> IF i < n THEN Rewritten(at, i)
                                           ELSE [Rewritten(at, n) EXCEPT !.version = v]]]
      PROVE  Shaped'
  <2> DEFINE e == [i \in 1 .. n |-> IF i < n THEN Rewritten(at, i)
                                    ELSE [Rewritten(at, n) EXCEPT !.version = v]]
  <2>1. /\ DOMAIN files' = Files /\ \A f \in Files \ {at} : files'[f] = files[f]
        /\ files'[at] = e
    BY <1>4 DEF Shaped, FileShaped
  <2>2. ASSUME NEW i \in 1 .. n
        PROVE  e[i] = [Original[at][i] EXCEPT !.ref = e[i].ref, !.version = e[i].version]
    <3>1. PICK o, l : o = Original[at][i] /\ l = Rewritten(at, i)
      OBVIOUS
    <3>2. DOMAIN o = Fields /\ l = [o EXCEPT !.ref = l.ref, !.version = l.version]
      BY <1>4, <3>1, NewLine, LineFacts
    <3>3. CASE i < n
      BY <3>1, <3>2, <3>3
    <3>4. CASE i = n
      <4>1. e[i] = [l EXCEPT !.version = v]
        BY <3>1, <3>4
      <4> HIDE DEF e
      <4> QED
        BY <3>1, <3>2, <4>1, CutShape
    <3> QED
      BY <3>3, <3>4
  <2>3. e = [i \in 1 .. n |-> e[i]] /\ n \in 0 .. Len(Original[at]) /\ DOMAIN e = 1 .. n
    OBVIOUS
  <2> HIDE DEF e
  <2>4. FileShaped(at, e)
    BY <2>2, <2>3 DEF FileShaped
  <2> QED
    BY <1>0, <2>1, <2>4 DEF Shaped
<1>3. ASSUME NEW f \in Files, files' = [files EXCEPT ![f] = Original[f]]
      PROVE  Shaped'
  <2>1. /\ DOMAIN files' = Files /\ \A e \in Files \ {f} : files'[e] = files[e]
        /\ files'[f] = Original[f]
    BY <1>3 DEF Shaped, FileShaped
  <2>2. FileShaped(f, Original[f])
    BY OriginalShaped
  <2> QED
    BY <1>0, <2>1, <2>2 DEF Shaped
<1> QED
  BY <1>1, <1>2, <1>3, <1>4, FilesStep

\* Releases only appear; while nothing was published or moved, they are what they were.
LEMMA WorldStep ==
  ASSUME Typed, [Next]_vars
  PROVE  /\ DOMAIN tags' = Repositories
         /\ \A r \in Repositories : tags'[r] \in tags[r] .. Len(Releases[r])
         /\ moves' \in 0 .. MaxMoves
         /\ stable' => UNCHANGED <<tags, moves>> /\ (stable \/ Begin)
<1>1. \A r \in Repositories : tags[r] \in tags[r] .. Len(Releases[r])
  BY TagsFacts
<1>2. CASE \E r \in Repositories : Publish(r)
  <2>1. PICK r \in Repositories : Publish(r)
    BY <1>2
  <2>2. /\ tags' = [tags EXCEPT ![r] = tags[r] + 1] /\ tags[r] < Len(Releases[r])
        /\ stable' = FALSE /\ moves' = moves
    BY <2>1 DEF Publish
  <2>3. tags[r] \in Nat /\ Len(Releases[r]) \in Nat /\ DOMAIN tags = Repositories
    BY TagsFacts DEF Typed
  <2> QED
    BY <1>1, <2>2, <2>3 DEF Typed
<1>3. CASE MoveTag
  BY <1>1, <1>3, WorkflowUpdateAssumption DEF MoveTag, Typed
<1>4. CASE Begin
  BY <1>1, <1>4 DEF Begin, Typed
<1>5. CASE /\ ~(\E r \in Repositories : Publish(r)) /\ ~MoveTag /\ ~Begin
  <2>1. UNCHANGED <<tags, moves>> /\ (stable' = FALSE \/ stable' = stable)
    BY <1>5 DEF Next, Step, LookUpMise, LookupFails, Plan, Fill, Done, ListTags, ResolveTag,
       Truncate, Crash, Restore, Settle, World, vars
  <2> QED
    BY <1>1, <2>1 DEF Typed
<1> QED
  BY <1>2, <1>3, <1>4, <1>5

LEMMA TypedStep ==
  ASSUME Typed, Inventory, [Next]_vars
  PROVE  Typed'
<1> DEFINE Rest ==
      /\ {stable, calm, dry} \subseteq BOOLEAN
      /\ pc \in {"idle", "lookup", "plan", "write", "fill"}
      /\ DOMAIN target = DOMAIN commit
      /\ todo \subseteq Files
      /\ pc = "fill" <=> at # NoFile
      /\ at # NoFile => at \in todo
      /\ outcome \in {None, "ok", "failed", "crashed"}
      /\ pc \notin {"write", "fill"} => todo = {}
<1>1. /\ DOMAIN tags' = Repositories
      /\ \A r \in Repositories : tags'[r] \in Published[r] .. Len(Releases[r])
      /\ moves' \in 0 .. MaxMoves
  BY WorldStep, TagsFacts
<1>2. Rest
  BY DEF Typed
<1>3. Rest'
  <2>1. ASSUME NEW result \in {"ok", "failed", "crashed"}, Finish(result),
               UNCHANGED <<stable, calm>>
        PROVE  Rest'
    BY <1>2, <2>1 DEF Finish
  <2> HIDE DEF Rest
  <2>2. CASE Begin
    <3>1. DOMAIN target' = DOMAIN commit' /\ pc' \in {"idle", "lookup"} /\ outcome' \in {"ok", None}
          /\ dry' \in BOOLEAN /\ stable' = TRUE /\ UNCHANGED <<calm, todo, at>> /\ pc = "idle"
      BY <2>2 DEF Begin
    <3> QED
      BY <1>2, <3>1 DEF Rest
  <2>3. CASE \E g \in DOMAIN target : ListTags(g) \/ ResolveTag(g)
    <3>1. PICK g \in DOMAIN target : ListTags(g) \/ ResolveTag(g)
      BY <2>3
    <3>2. DOMAIN target' = DOMAIN target /\ DOMAIN commit' = DOMAIN commit
          /\ UNCHANGED <<stable, calm, dry, pc, todo, at, outcome>>
      BY <3>1 DEF ListTags, ResolveTag, World
    <3> QED
      BY <1>2, <3>2 DEF Rest
  <2>4. CASE LookUpMise
    <3>1. UNCHANGED <<stable, calm, dry, target, commit, todo, at, outcome>>
          /\ pc = "lookup" /\ pc' = "plan"
      BY <2>4 DEF LookUpMise, World
    <3> QED
      BY <1>2, <3>1 DEF Rest
  <2>5. CASE LookupFails
    BY <2>1, <2>5 DEF LookupFails, World
  <2>6. CASE Plan
    <3>1. CASE Finish("ok")
      BY <2>1, <2>6, <3>1 DEF Plan, World
    <3>2. CASE ~Finish("ok")
      <4>1. /\ pc' = "write" /\ pc = "plan" /\ UNCHANGED <<stable, calm, dry, target, commit, at, outcome>>
            /\ todo' = UseFiles \cup {p.file : p \in {q \in pins : PinHasUpdate(q)}}
        BY <2>6, <3>2 DEF Plan, World
      <4>2. todo' \subseteq Files
        BY <4>1 DEF UseFiles, Inventory
      <4> QED
        BY <1>2, <4>1, <4>2 DEF Rest
    <3> QED
      BY <3>1, <3>2
  <2>7. CASE \E f \in Files : Truncate(f)
    <3>1. PICK f \in Files : Truncate(f)
      BY <2>7
    <3>2. /\ pc' = "fill" /\ pc = "write" /\ at' = f /\ f \in todo
          /\ UNCHANGED <<stable, calm, dry, target, commit, todo, outcome>>
      BY <3>1 DEF Truncate, World
    <3>3. f # NoFile
      BY WorkflowUpdateAssumption DEF NoFile
    <3> QED
      BY <1>2, <3>2, <3>3 DEF Rest
  <2>8. CASE Fill
    <3>1. /\ pc' = "write" /\ at' = NoFile /\ todo' = todo \ {at}
          /\ UNCHANGED <<stable, calm, dry, target, commit, outcome>>
      BY <2>8 DEF Fill
    <3> QED
      BY <1>2, <3>1 DEF Rest
  <2>9. CASE Done
    BY <2>1, <2>9 DEF Done, World
  <2>10. CASE Crash
    BY <2>1, <2>10 DEF Crash
  <2>11. CASE MoveTag \/ (\E r \in Repositories : Publish(r)) \/ (\E f \in Files : Restore(f)) \/ Settle
              \/ UNCHANGED vars
    <3>1. UNCHANGED run /\ stable' \in {stable, FALSE} /\ calm' \in {calm, TRUE}
      BY <2>11 DEF MoveTag, Publish, Restore, Settle, vars
    <3> QED
      BY <1>2, <3>1 DEF Rest, run
  <2> QED
    BY <2>2, <2>3, <2>4, <2>5, <2>6, <2>7, <2>8, <2>9, <2>10, <2>11 DEF Next, Step
<1> QED
  BY <1>1, <1>3 DEF Typed

\* What is out stays out.
LEMMA StaysOut ==
  ASSUME Typed, [Next]_vars, NEW r \in Repositories
  PROVE  /\ \A v : OutAlready(r, v, tags[r]) => OutAlready(r, v, tags'[r])
         /\ r = Mise => \A v : NotAhead(v, tags[r]) => NotAhead(v, tags'[r])
         /\ \A t : Out(t, r, tags[r]) => Out(t, r, tags'[r])
<1>1. 1 .. tags[r] \subseteq 1 .. tags'[r]
  <2>1. tags'[r] \in tags[r] .. Len(Releases[r]) /\ tags[r] \in Nat /\ Len(Releases[r]) \in Nat
    BY WorldStep, TagsFacts
  <2> QED
    BY <2>1
<1> QED
  BY <1>1 DEF OutAlready, NotAhead, Out

\* The lines of the repository, and those a run writes, are not ahead.
LEMMA KnownOriginal ==
  ASSUME NEW f \in Files, NEW i \in DOMAIN Original[f], NEW published,
         \A r \in Repositories : published[r] \in Published[r] .. Len(Releases[r])
  PROVE  KnownLine(Original[f][i], published)
<1>1. \A r \in Repositories : 1 .. Published[r] \subseteq 1 .. published[r]
  BY WorkflowUpdateAssumption
<1>2. ASSUME NEW line, line = Original[f][i], line.kind = "use"
      PROVE  OutAlready(line.action, line.version, published[line.action])
  <2>1. line.action \in Repositories
    BY <1>2, WorkflowUpdateAssumption
  <2>2. \A k \in 1 .. Len(Releases[line.action]) :
          Releases[line.action][k].version = line.version =>
            \E n \in 1 .. Published[line.action] : Releases[line.action][n].version = line.version
    BY <1>2, PinnedIsPublished
  <2> QED
    BY <1>1, <2>1, <2>2 DEF OutAlready
<1>3. ASSUME NEW line, line = Original[f][i], line.kind = "version"
      PROVE  line.version \in Versions /\ NotAhead(line.version, published[Mise])
  <2>1. line.version \in Versions /\ Mise \in Repositories
    BY <1>3, WorkflowUpdateAssumption
  <2>2. \E n \in 1 .. Published[Mise] :
          Eligible(Releases[Mise][n]) /\ ~Newer(line.version, Releases[Mise][n].version)
    BY <1>3, PinnedIsPublished
  <2> QED
    BY <1>1, <2>1, <2>2 DEF NotAhead
<1> QED
  BY <1>2, <1>3 DEF KnownLine

LEMMA KnownNew ==
  ASSUME Shaped, Typed, Known, Inventory, Resolved, MiseResolved,
         pc = "fill", NEW f \in Files, NEW i \in DOMAIN files[f]
  PROVE  Rewritten(f, i) = files[f][i] \/ KnownLine(Rewritten(f, i), tags)
<1>1. PICK l, new : l = files[f][i] /\ new = Rewritten(f, i)
  OBVIOUS
<1>2. new.kind = l.kind /\ new.action = l.action
  BY <1>1, NewLine
<1>3. CASE \E u \in uses : /\ u.file = f /\ u.index = i /\ HasUpdate(Group(u)) /\ l.kind = "use"
                           /\ new.version = target[Group(u)].version
  <2>1. PICK u \in uses : /\ u.file = f /\ u.index = i /\ HasUpdate(Group(u)) /\ l.kind = "use"
                          /\ new.version = target[Group(u)].version
    BY <1>3
  <2>2. /\ l.action = u.action /\ Group(u) \in DOMAIN target /\ Group(u).action = u.action
        /\ u.action \in Repositories
    BY <1>1, <2>1 DEF Inventory, LineOf, Group
  <2>3. target[Group(u)] # NoTag /\ target[Group(u)] # Asked
    BY <2>1, <2>2 DEF HasUpdate, Resolved
  <2>4. Out(target[Group(u)], u.action, tags[u.action])
    BY <2>2, <2>3 DEF Resolved
  <2>5. OutAlready(u.action, new.version, tags[u.action])
    BY <2>1, <2>4 DEF Out, OutAlready
  <2> QED
    BY <1>1, <1>2, <2>1, <2>2, <2>5 DEF KnownLine
<1>4. CASE \E p \in pins : PinHasUpdate(p) /\ l.kind = "version" /\ new.version = latest.version
  <2>1. latest # NoTag /\ l.kind = "version" /\ new.version = latest.version
    BY <1>4 DEF PinHasUpdate
  <2>2. Out(latest, Mise, tags[Mise]) /\ Mise \in Repositories
    BY <2>1, WorkflowUpdateAssumption DEF MiseResolved
  <2>3. latest.version \in Versions /\ ~Newer(latest.version, latest.version)
    BY <2>2, OutVersion, LaterFacts
  <2>4. NotAhead(latest.version, tags[Mise])
    BY <2>2, <2>3 DEF NotAhead, Out
  <2> QED
    BY <1>1, <1>2, <2>1, <2>3, <2>4 DEF KnownLine
<1>5. CASE new = l
  BY <1>1, <1>5
<1>6. \/ \E u \in uses : /\ u.file = f /\ u.index = i /\ HasUpdate(Group(u)) /\ l.kind = "use"
                          /\ new.version = target[Group(u)].version
      \/ \E p \in pins : PinHasUpdate(p) /\ l.kind = "version" /\ new.version = latest.version
      \/ new = l
  <2>1. Becomes(f, i, l, new)
    BY <1>1, NewLine
  <2> QED
    BY <2>1 DEF Becomes
<1> QED
  BY <1>1, <1>3, <1>4, <1>5, <1>6

\* What is left of a number is no greater.
LEMMA BeginningsSmaller ==
  ASSUME NEW n \in Nat, NEW m \in Beginnings(n)
  PROVE  m \in Nat /\ m <= n
<1>1. m \in {n, n \div 10, n \div 100, n \div 1000}
  BY DEF Beginnings
<1>2. n \div 10 \in 0 .. n /\ n \div 100 \in 0 .. n /\ n \div 1000 \in 0 .. n
  OBVIOUS
<1> QED
  BY <1>1, <1>2

\* A version of mise that is cut is not ahead either.
LEMMA CutKnown ==
  ASSUME NEW published, published[Mise] \in 0 .. Len(Releases[Mise]),
         NEW line, line.kind = "version", KnownLine(line, published),
         NEW v \in CutVersions(line)
  PROVE  v \in Versions /\ NotAhead(v, published[Mise])
<1>1. PICK w : w = line.version
  OBVIOUS
<1>2. w \in Versions /\ NotAhead(w, published[Mise])
  BY <1>1 DEF KnownLine
<1>3. PICK n \in Beginnings(w.patch) : v = [w EXCEPT !.patch = n]
  BY <1>1 DEF CutVersions
<1>4. n \in Nat /\ n <= w.patch
  BY <1>2, <1>3, BeginningsSmaller DEF Versions
<1>5. v \in Versions /\ v.major = w.major /\ v.minor = w.minor /\ v.patch <= w.patch
  BY <1>2, <1>3, <1>4 DEF Versions
<1>6. PICK m \in 1 .. published[Mise] :
        Eligible(Releases[Mise][m]) /\ ~Newer(w, Releases[Mise][m].version)
  BY <1>2 DEF NotAhead
<1>7. Releases[Mise][m].version \in Versions
  <2>1. m \in 1 .. Len(Releases[Mise]) /\ Mise \in Repositories
    BY WorkflowUpdateAssumption
  <2> QED
    BY <1>6, <2>1, WorkflowUpdateAssumption DEF Eligible
<1>8. ~Newer(v, Releases[Mise][m].version)
  <2>1. PICK x \in Versions : x = Releases[Mise][m].version /\ ~Newer(w, x)
    BY <1>6, <1>7
  <2>2. v.patch \in Nat /\ w.patch \in Nat /\ x.patch \in Nat
    BY <1>2, <1>5, <2>1 DEF Versions
  <2>3. ~Newer(v, x)
    BY <1>5, <2>1, <2>2 DEF Newer
  <2> QED
    BY <2>1, <2>3
<1> QED
  BY <1>5, <1>6, <1>8 DEF NotAhead

\* A line a run leaves as it was is cut afterwards if it was before, one it rewrites is known.
LEMMA KnownRest ==
  ASSUME Shaped, Typed, Known, Inventory, Resolved, MiseResolved,
         pc = "fill", NEW f \in Files, NEW i \in DOMAIN files[f], tags' = tags,
         StillTorn \subseteq torn', i \in DOMAIN files'[f], files'[f][i] = Rewritten(f, i)
  PROVE  \/ <<f, i>> \in torn' /\ files'[f][i].kind = "use"
         \/ KnownLine(files'[f][i], tags')
<1>1. CASE KnownLine(Rewritten(f, i), tags)
  BY <1>1
<1>2. CASE files'[f][i] = files[f][i]
  <2>1. <<f, i>> \in torn => <<f, i>> \in torn'
    BY <1>2 DEF StillTorn
  <2> QED
    BY <1>2, <2>1 DEF Known
<1> QED
  BY <1>1, <1>2, KnownNew

LEMMA KnownStep ==
  ASSUME Shaped, Typed, Known, Inventory, Resolved, MiseResolved, [Next]_vars
  PROVE  Known'
<1>1. Typed'
  BY TypedStep
<1> DEFINE Fine(f, i, lines, cut) ==
      (<<f, i>> \in cut /\ lines[f][i].kind = "use") \/ KnownLine(lines[f][i], tags')
<1>2. ASSUME NEW f \in Files, NEW i \in DOMAIN files[f] PROVE Fine(f, i, files, torn)
  <2>1. PICK l : l = files[f][i]
    OBVIOUS
  <2>2. /\ (<<f, i>> \in torn /\ l.kind = "use") \/ KnownLine(l, tags)
        /\ l.kind = "use" => l.action \in Repositories
        /\ Mise \in Repositories
    BY <2>1, LineFacts, WorkflowUpdateAssumption DEF Known
  <2> QED
    BY <2>1, <2>2, StaysOut DEF KnownLine
<1>3. ASSUME \A f \in Files : \A i \in DOMAIN files'[f] : Fine(f, i, files', torn')
      PROVE  Known'
  BY <1>3 DEF Known
<1>4. CASE files' = files /\ torn' = torn
  BY <1>2, <1>3, <1>4
<1>5. ASSUME NEW f \in Files, f # at, pc = "fill", DOMAIN files' = Files, files'[f] = files[f],
             StillTorn \subseteq torn', NEW i \in DOMAIN files'[f]
      PROVE  Fine(f, i, files', torn')
  <2>1. <<f, i>> \in torn => <<f, i>> \in torn'
    BY <1>5 DEF StillTorn
  <2> QED
    BY <1>2, <1>5, <2>1
<1>6. ASSUME pc = "fill", at \in Files, NEW n \in 0 .. Len(Original[at]),
             1 .. n \subseteq DOMAIN files[at], tags' = tags, torn' = StillTorn,
             files' = [files EXCEPT ![at] = [i \in 1 .. n |-> Rewritten(at, i)]]
      PROVE  Known'
  <2>1. /\ DOMAIN files' = Files /\ \A f \in Files \ {at} : files'[f] = files[f]
        /\ files'[at] = [i \in 1 .. n |-> Rewritten(at, i)]
    BY <1>6 DEF Shaped
  <2>2. ASSUME NEW i \in 1 .. n PROVE Fine(at, i, files', torn')
    <3>1. files'[at][i] = Rewritten(at, i) /\ i \in DOMAIN files'[at] /\ i \in DOMAIN files[at]
      BY <1>6, <2>1
    <3> QED
      BY <1>6, <3>1, KnownRest
  <2>3. DOMAIN files'[at] = 1 .. n
    BY <2>1
  <2> HIDE DEF Fine
  <2> QED
    BY <1>3, <1>5, <1>6, <2>1, <2>2, <2>3
<1>7. ASSUME pc = "fill", at \in Files, NEW n \in 1 .. Len(Original[at]),
             1 .. n \subseteq DOMAIN files[at], tags' = tags,
             torn' = StillTorn \cup {<<at, n>>}, NEW v \in CutVersions(Rewritten(at, n)),
             files' = [files EXCEPT ![at] =
                         [i \in 1 .. n |-> IF i < n THEN Rewritten(at, i)
                                           ELSE [Rewritten(at, n) EXCEPT !.version = v]]]
      PROVE  Known'
  <2>1. /\ DOMAIN files' = Files /\ \A f \in Files \ {at} : files'[f] = files[f]
        /\ files'[at] = [i \in 1 .. n |-> IF i < n THEN Rewritten(at, i)
                                          ELSE [Rewritten(at, n) EXCEPT !.version = v]]
        /\ StillTorn \subseteq torn' /\ <<at, n>> \in torn'
    BY <1>7 DEF Shaped
  <2>2. ASSUME NEW i \in 1 .. n, i < n PROVE Fine(at, i, files', torn')
    <3>1. files'[at][i] = Rewritten(at, i) /\ i \in DOMAIN files'[at] /\ i \in DOMAIN files[at]
      BY <1>7, <2>1, <2>2
    <3> QED
      BY <1>7, <2>1, <3>1, KnownRest
  <2>3. Fine(at, n, files', torn')
    <3>1. PICK o, l, c : /\ o = Original[at][n] /\ l = Rewritten(at, n)
                         /\ c = [l EXCEPT !.version = v]
      OBVIOUS
    <3>2. n \in DOMAIN files[at] /\ files'[at][n] = c
      BY <1>7, <2>1, <3>1
    <3>3. /\ DOMAIN o = Fields /\ l = [o EXCEPT !.ref = l.ref, !.version = l.version]
          /\ l.kind = files[at][n].kind
      BY <1>7, <3>1, <3>2, NewLine, LineFacts
    <3>4. c.kind = l.kind /\ c.action = l.action /\ c.version = v
      <4>1. PICK r, w : l = [o EXCEPT !.ref = r, !.version = w]
        BY <3>3
      <4>2. DOMAIN l = Fields
        BY <3>3, <4>1
      <4> QED
        BY <3>1, <4>2 DEF Fields
    <3>5. CASE l.kind = "use"
      BY <2>1, <3>2, <3>4, <3>5
    <3>6. CASE l.kind = "version"
      <4>1. KnownLine(l, tags)
        <5>1. Rewritten(at, n) = files[at][n] \/ KnownLine(Rewritten(at, n), tags)
          BY <1>7, <3>2, KnownNew
        <5>2. KnownLine(files[at][n], tags)
          BY <1>7, <3>2, <3>3, <3>6 DEF Known
        <5> QED
          BY <3>1, <5>1, <5>2
      <4>2. tags[Mise] \in 0 .. Len(Releases[Mise])
        BY TagsFacts, WorkflowUpdateAssumption
      <4>3. v \in Versions /\ NotAhead(v, tags[Mise])
        BY <1>7, <3>1, <3>6, <4>1, <4>2, CutKnown
      <4> QED
        BY <1>7, <3>2, <3>4, <3>6, <4>3 DEF KnownLine
    <3>7. CASE l.kind \notin {"use", "version"}
      BY <3>2, <3>4, <3>7 DEF KnownLine
    <3> QED
      BY <3>5, <3>6, <3>7
  <2>4. DOMAIN files'[at] = 1 .. n /\ \A i \in 1 .. n : i < n \/ i = n
    BY <2>1
  <2> HIDE DEF Fine
  <2>5. ASSUME NEW f \in Files, NEW i \in DOMAIN files'[f] PROVE Fine(f, i, files', torn')
    <3>1. CASE f = at
      <4>1. i \in 1 .. n /\ (i < n \/ i = n)
        BY <2>4, <2>5, <3>1
      <4> QED
        BY <2>2, <2>3, <3>1, <4>1
    <3>2. CASE f # at
      BY <1>5, <1>7, <2>1, <2>5, <3>2
    <3> QED
      BY <3>1, <3>2
  <2> QED
    BY <1>3, <2>5
<1>8. ASSUME NEW e \in Files, files' = [files EXCEPT ![e] = Original[e]],
             torn' = {c \in torn : c[1] # e}
      PROVE  Known'
  <2>1. \A f \in Files \ {e} : files'[f] = files[f]
    BY <1>8 DEF Shaped
  <2>2. files'[e] = Original[e]
    BY <1>8 DEF Shaped
  <2>3. \A i \in DOMAIN Original[e] : KnownLine(Original[e][i], tags')
    BY <1>1, KnownOriginal DEF Typed
  <2>4. \A f \in Files \ {e} : \A i : <<f, i>> \in torn => <<f, i>> \in torn'
    BY <1>8
  <2> QED
    BY <1>2, <1>3, <2>1, <2>2, <2>3, <2>4
<1> HIDE DEF Fine
<1> QED
  BY <1>4, <1>6, <1>7, <1>8, FilesStep

-----------------------------------------------------------------------------
\* What happens while a run is under way: a request is answered, the writes are
\* planned, a file is written, or nothing of the files and of what the run knows changes.
LEMMA RunStep ==
  ASSUME Shaped, Typed, [Next]_vars, pc # "idle", pc' # "idle"
  PROVE  /\ UNCHANGED <<uses, pins>> /\ DOMAIN target' = DOMAIN target
         /\ \/ /\ pc = "lookup" /\ pc' \in {"lookup", "plan"} /\ files' = files
            \/ /\ pc = "plan" /\ pc' = "write" /\ UNCHANGED <<files, target, commit, latest>>
               /\ todo' = UseFiles \cup {p.file : p \in {q \in pins : PinHasUpdate(q)}}
            \/ /\ pc \in {"write", "fill"} <=> pc' \in {"write", "fill"}
               /\ UNCHANGED <<files, target, commit, latest, todo>>
            \/ /\ pc = "fill" /\ pc' = "write" /\ at \in Files /\ at \in todo /\ todo' = todo \ {at}
               /\ UNCHANGED <<target, commit, latest>>
               /\ files' = [files EXCEPT ![at] = [i \in DOMAIN files[at] |-> Rewritten(at, i)]]
<1>1. CASE \E g \in DOMAIN target : ListTags(g) \/ ResolveTag(g)
  BY <1>1 DEF ListTags, ResolveTag, World
<1>2. CASE LookUpMise
  BY <1>2 DEF LookUpMise, World
<1>3. CASE Plan
  BY <1>3 DEF Plan, Finish, World
<1>4. CASE \E f \in Files : Truncate(f)
  BY <1>4 DEF Truncate, World
<1>5. CASE Fill
  <2>1. pc = "fill" /\ at \in Files /\ at \in todo
    BY <1>5 DEF Fill, Typed
  <2> QED
    BY <1>5, <2>1 DEF Fill
<1>6. CASE Begin \/ LookupFails \/ Done \/ Crash
  BY <1>6 DEF Begin, LookupFails, Done, Crash, Finish
<1>7. CASE MoveTag \/ Settle \/ (\E r \in Repositories : Publish(r)) \/ UNCHANGED vars
  BY <1>7 DEF MoveTag, Settle, Publish, run, vars
<1>8. CASE \E f \in Files : Restore(f)
  BY <1>8 DEF Restore
<1> QED
  BY <1>1, <1>2, <1>3, <1>4, <1>5, <1>6, <1>7, <1>8 DEF Next, Step

\* Lines keep their places, kinds and actions while a run is under way.
LEMMA LinesKept ==
  ASSUME Shaped, Typed, Inventory, [Next]_vars, pc # "idle", pc' # "idle",
         NEW f \in Files, NEW i \in DOMAIN files[f]
  PROVE  /\ i \in DOMAIN files'[f]
         /\ files'[f][i].kind = files[f][i].kind /\ files'[f][i].action = files[f][i].action
         /\ files'[f][i] = files[f][i] \/ (pc = "fill" /\ f = at /\ files'[f][i] = Rewritten(f, i))
<1>1. CASE files' = files
  BY <1>1
<1>2. CASE /\ pc = "fill" /\ at \in Files
           /\ files' = [files EXCEPT ![at] = [k \in DOMAIN files[at] |-> Rewritten(at, k)]]
  <2>1. CASE f = at
    <3>1. files'[f] = [k \in DOMAIN files[f] |-> Rewritten(f, k)]
      BY <1>2, <2>1 DEF Shaped
    <3>2. files'[f][i] = Rewritten(f, i) /\ i \in DOMAIN files'[f]
      BY <3>1
    <3>3. Rewritten(f, i).kind = files[f][i].kind /\ Rewritten(f, i).action = files[f][i].action
      BY NewLine
    <3> QED
      BY <1>2, <2>1, <3>2, <3>3
  <2>2. CASE f # at
    BY <1>2, <2>2 DEF Shaped
  <2> QED
    BY <2>1, <2>2
<1> QED
  BY <1>1, <1>2, RunStep

LEMMA OverGrows ==
  ASSUME Shaped, Typed, [Next]_vars, pc # "idle", pc' # "idle", NEW f, Over(f)
  PROVE  Over(f)'
BY RunStep DEF Over

\* A line that is cut is whole again when its file is written, no sooner.
LEMMA WholeBefore ==
  ASSUME Shaped, Typed, Inventory, [Next]_vars, pc # "idle", pc' # "idle",
         NEW u \in uses, Whole(u)'
  PROVE  Whole(u)
<1>1. ~Over(u.file)
  BY OverGrows DEF Whole
<1>2. ASSUME <<u.file, u.index>> \in torn PROVE FALSE
  <2>1. <<u.file, u.index>> \notin torn' /\ ~Over(u.file)'
    BY DEF Whole
  <2>2. pc = "fill" /\ at \in Files /\ torn' = StillTorn
    <3>1. torn' # torn
      BY <1>2, <2>1
    <3>2. ~Crash
      BY DEF Crash, Finish
    <3>3. ~(\E f \in Files : Restore(f))
      BY DEF Restore
    <3>4. Fill
      BY <3>1, <3>2, <3>3 DEF Next, Step, Begin, LookUpMise, LookupFails, Plan, Done, ListTags,
         ResolveTag, Truncate, MoveTag, Settle, Publish, World, vars
    <3> QED
      BY <3>4 DEF Fill, Typed
  <2>3. u.file \in Files /\ u.index \in DOMAIN files[u.file]
    BY DEF Inventory
  <2>4. files'[u.file] # files[u.file]
    BY <1>2, <2>1, <2>2, <2>3 DEF StillTorn
  <2>5. u.file = at /\ pc' = "write" /\ todo' = todo \ {at}
    BY <2>2, <2>3, <2>4, RunStep DEF Shaped
  <2> QED
    BY <2>1, <2>5 DEF Over
<1> QED
  BY <1>1, <1>2 DEF Whole

\* What a run that begins finds.
LEMMA FreshUses ==
  ASSUME Shaped, Known, NEW u \in WorkflowUses
  PROVE  /\ u.file \in Files /\ u.index \in DOMAIN files[u.file]
         /\ LineOf(u).kind = "use" /\ LineOf(u).action = u.action
         /\ LineOf(u).ref = u.ref /\ LineOf(u).version = u.version
         /\ u.action \in Repositories
         /\ <<u.file, u.index>> \notin torn => OutAlready(u.action, u.version, tags[u.action])
<1>1. PICK f \in Files : \E i \in DOMAIN files[f] :
        /\ files[f][i].kind = "use"
        /\ u = [file |-> f, index |-> i, action |-> files[f][i].action,
                ref |-> files[f][i].ref, version |-> files[f][i].version]
  BY DEF WorkflowUses
<1>2. PICK i \in DOMAIN files[f] :
        /\ files[f][i].kind = "use"
        /\ u = [file |-> f, index |-> i, action |-> files[f][i].action,
                ref |-> files[f][i].ref, version |-> files[f][i].version]
  BY <1>1
<1>3. files[f][i].action \in Repositories
  BY <1>2, LineFacts
<1> QED
  BY <1>2, <1>3 DEF LineOf, Known, KnownLine

LEMMA FreshPins ==
  ASSUME Shaped, Known, NEW p \in MiseVersionUses
  PROVE  /\ p.file \in Files /\ p.index \in DOMAIN files[p.file]
         /\ LineOf(p).kind = "version" /\ LineOf(p).version = p.version
         /\ p.version \in Versions /\ NotAhead(p.version, tags[Mise])
<1>1. PICK u \in WorkflowUses : \E j \in VersionLines(files[u.file], u.index) :
        p = [file |-> u.file, index |-> j, version |-> files[u.file][j].version]
  BY DEF MiseVersionUses
<1>2. PICK j \in VersionLines(files[u.file], u.index) :
        p = [file |-> u.file, index |-> j, version |-> files[u.file][j].version]
  BY <1>1
<1>3. u.file \in Files /\ j \in DOMAIN files[u.file] /\ files[u.file][j].kind = "version"
  BY <1>2, FreshUses DEF VersionLines
<1> QED
  BY <1>2, <1>3 DEF LineOf, Known, KnownLine

LEMMA InventoryStep ==
  ASSUME Shaped, Typed, Known, Inventory, [Next]_vars
  PROVE  Inventory'
<1> SUFFICES ASSUME pc' # "idle" PROVE Inventory'
  BY DEF Inventory
<1>1. CASE Begin
  <2>0. torn' = torn
    BY <1>1 DEF Begin
  <2>1. /\ UNCHANGED <<files, tags>> /\ uses' = WorkflowUses /\ pins' = MiseVersionUses
        /\ target' = [g \in {Group(u) : u \in WorkflowUses} |-> Asked]
    BY <1>1 DEF Begin
  <2>2. \A u, w \in WorkflowUses : u.file = w.file /\ u.index = w.index => u = w
    BY DEF WorkflowUses
  <2>3. \A u \in WorkflowUses :
          /\ u.file \in Files /\ u.index \in DOMAIN files[u.file]
          /\ files[u.file][u.index].kind = "use" /\ files[u.file][u.index].action = u.action
          /\ u.action \in Repositories
          /\ Whole(u)' => OutAlready(u.action, u.version, tags[u.action])
    BY <2>0, FreshUses DEF LineOf, Whole
  <2>4. \A p \in MiseVersionUses :
          /\ p.file \in Files /\ p.index \in DOMAIN files[p.file]
          /\ files[p.file][p.index].kind = "version" /\ files[p.file][p.index].version = p.version
          /\ p.version \in Versions /\ NotAhead(p.version, tags[Mise])
    BY FreshPins DEF LineOf
  <2>5. DOMAIN target' = {Group(u) : u \in uses'}
    BY <2>1 DEF Group
  <2> QED
    BY <2>1, <2>2, <2>3, <2>4, <2>5 DEF Inventory, LineOf
<1>2. CASE pc # "idle"
  <2>1. UNCHANGED <<uses, pins>> /\ DOMAIN target' = DOMAIN target
    BY <1>2, RunStep
  <2>2. ASSUME NEW u \in uses
        PROVE  /\ u.file \in Files /\ u.index \in DOMAIN files'[u.file]
               /\ files'[u.file][u.index].kind = "use" /\ files'[u.file][u.index].action = u.action
               /\ u.action \in Repositories
               /\ Whole(u)' => OutAlready(u.action, u.version, tags'[u.action])
    <3>1. /\ u.file \in Files /\ u.index \in DOMAIN files[u.file]
          /\ files[u.file][u.index].kind = "use" /\ files[u.file][u.index].action = u.action
          /\ u.action \in Repositories
          /\ Whole(u) => OutAlready(u.action, u.version, tags[u.action])
      BY <1>2 DEF Inventory, LineOf
    <3>2. Whole(u)' => Whole(u)
      BY <1>2, WholeBefore
    <3> QED
      BY <1>2, <3>1, <3>2, LinesKept, StaysOut
  <2>3. ASSUME NEW p \in pins
        PROVE  /\ p.file \in Files /\ p.index \in DOMAIN files'[p.file]
               /\ files'[p.file][p.index].kind = "version"
               /\ p.version \in Versions /\ NotAhead(p.version, tags'[Mise])
               /\ ~Over(p.file)' => files'[p.file][p.index].version = p.version
    <3>1. /\ p.file \in Files /\ p.index \in DOMAIN files[p.file]
          /\ files[p.file][p.index].kind = "version"
          /\ p.version \in Versions /\ NotAhead(p.version, tags[Mise]) /\ Mise \in Repositories
          /\ ~Over(p.file) => files[p.file][p.index].version = p.version
      BY <1>2, WorkflowUpdateAssumption DEF Inventory, LineOf
    <3>2. ASSUME ~Over(p.file)' PROVE files'[p.file][p.index].version = p.version
      <4>1. ~Over(p.file)
        BY <1>2, <3>2, OverGrows
      <4>2. ~(pc = "fill" /\ p.file = at) \/ files' = files
        BY <1>2, <3>2, RunStep DEF Over
      <4> QED
        BY <1>2, <3>1, <4>1, <4>2, LinesKept
    <3> QED
      BY <1>2, <3>1, <3>2, LinesKept, StaysOut
  <2>4. /\ \A u, w \in uses : u.file = w.file /\ u.index = w.index => u = w
        /\ DOMAIN target = {Group(u) : u \in uses}
    BY <1>2 DEF Inventory
  <2>5. DOMAIN target' = {Group(u) : u \in uses'}
    BY <2>1, <2>4 DEF Group
  <2> QED
    BY <2>1, <2>2, <2>3, <2>4, <2>5 DEF Inventory, LineOf
<1>3. CASE pc = "idle" /\ ~Begin
  <2>1. pc' = pc
    BY <1>3 DEF Next, Step, LookUpMise, LookupFails, Plan, Fill, Done, ListTags, ResolveTag,
       Truncate, Crash, MoveTag, Publish, Restore, Settle, run, vars
  <2> QED
    BY <1>3, <2>1
<1> QED
  BY <1>1, <1>2, <1>3

LEMMA SameUpdate ==
  ASSUME UNCHANGED <<uses, target, commit>>, NEW g
  PROVE  HasUpdate(g)' <=> HasUpdate(g)
<1>1. Members(g)' = Members(g)
  BY DEF Members, Group
<1>2. First(g)' = First(g)
  BY <1>1 DEF First, Before
<1> QED
  BY <1>2 DEF HasUpdate

LEMMA UpdatedStep ==
  ASSUME Shaped, Typed, Known, Inventory, Updated, [Next]_vars
  PROVE  Updated'
<1> SUFFICES ASSUME pc' # "idle", NEW u \in uses'
             PROVE  IF Over(u.file)' /\ HasUpdate(Group(u))'
                    THEN /\ files'[u.file][u.index].ref = commit'[Group(u)]
                         /\ files'[u.file][u.index].version = target'[Group(u)].version
                    ELSE /\ files'[u.file][u.index].ref = u.ref
                         /\ files'[u.file][u.index].version = u.version
  BY DEF Updated, LineOf, Group
<1>1. CASE Begin
  <2>1. files' = files /\ u \in WorkflowUses /\ pc' = "lookup"
    BY <1>1 DEF Begin
  <2>2. LineOf(u).ref = u.ref /\ LineOf(u).version = u.version
    BY <2>1, FreshUses
  <2> QED
    BY <2>1, <2>2 DEF Over, LineOf
<1>2. CASE pc = "idle" /\ ~Begin
  <2>1. pc' = pc
    BY <1>2 DEF Next, Step, LookUpMise, LookupFails, Plan, Fill, Done, ListTags, ResolveTag,
       Truncate, Crash, MoveTag, Publish, Restore, Settle, run, vars
  <2> QED
    BY <1>2, <2>1
<1>3. CASE pc # "idle"
  <2>1. u \in uses /\ uses' = uses
    BY <1>3, RunStep
  <2>2. IF Over(u.file) /\ HasUpdate(Group(u))
        THEN /\ files[u.file][u.index].ref = commit[Group(u)]
             /\ files[u.file][u.index].version = target[Group(u)].version
        ELSE /\ files[u.file][u.index].ref = u.ref /\ files[u.file][u.index].version = u.version
    BY <1>3, <2>1 DEF Updated, LineOf
  <2>3. /\ u.file \in Files /\ u.index \in DOMAIN files[u.file]
        /\ files[u.file][u.index].kind = "use"
    BY <1>3, <2>1 DEF Inventory, LineOf
  <2>4. CASE pc = "lookup" /\ pc' \in {"lookup", "plan"} /\ files' = files
    BY <2>2, <2>4 DEF Over
  <2>5. CASE /\ pc = "plan" /\ pc' = "write" /\ UNCHANGED <<files, target, commit>>
             /\ UseFiles \subseteq todo'
    <3>1. HasUpdate(Group(u))' => u.file \in UseFiles
      BY <2>1, <2>5, SameUpdate DEF UseFiles
    <3> QED
      BY <2>2, <2>5, <3>1 DEF Over
  <2>6. CASE /\ pc \in {"write", "fill"} <=> pc' \in {"write", "fill"}
             /\ UNCHANGED <<files, target, commit, todo>>
    <3>1. HasUpdate(Group(u))' <=> HasUpdate(Group(u))
      BY <2>1, <2>6, SameUpdate
    <3>2. Over(u.file)' <=> Over(u.file)
      BY <2>6 DEF Over
    <3> QED
      BY <2>2, <2>6, <3>1, <3>2
  <2>7. CASE /\ pc = "fill" /\ pc' = "write" /\ at \in Files /\ at \in todo /\ todo' = todo \ {at}
             /\ UNCHANGED <<target, commit>>
             /\ files' = [files EXCEPT ![at] = [i \in DOMAIN files[at] |-> Rewritten(at, i)]]
    <3>1. HasUpdate(Group(u))' <=> HasUpdate(Group(u))
      BY <2>1, <2>7, SameUpdate
    <3>2. CASE u.file # at
      <4>1. files'[u.file] = files[u.file]
        BY <2>3, <2>7, <3>2 DEF Shaped
      <4>2. Over(u.file)' <=> Over(u.file)
        BY <2>7, <3>2 DEF Over
      <4> QED
        BY <2>2, <2>7, <3>1, <4>1, <4>2
    <3>3. CASE u.file = at
      <4>1. Over(u.file)' /\ ~Over(u.file)
        BY <2>7, <3>3 DEF Over
      <4>2. files'[u.file][u.index] = Rewritten(u.file, u.index)
        BY <2>3, <2>7, <3>3 DEF Shaped
      <4>3. Becomes(u.file, u.index, files[u.file][u.index], files'[u.file][u.index])
        BY <2>3, <2>7, <4>2, NewLine
      <4>4. \A w \in uses : w.file = u.file /\ w.index = u.index => w = u
        BY <1>3, <2>1 DEF Inventory
      <4>5. CASE HasUpdate(Group(u))
        <5>1. /\ files'[u.file][u.index].ref = commit[Group(u)]
              /\ files'[u.file][u.index].version = target[Group(u)].version
          BY <2>1, <4>3, <4>4, <4>5 DEF Becomes
        <5> QED
          BY <2>7, <3>1, <4>1, <4>5, <5>1
      <4>6. CASE ~HasUpdate(Group(u))
        <5>1. files'[u.file][u.index] = files[u.file][u.index]
          BY <2>3, <4>3, <4>4, <4>6 DEF Becomes
        <5> QED
          BY <2>2, <3>1, <4>1, <4>6, <5>1
      <4> QED
        BY <4>5, <4>6
    <3> QED
      BY <3>2, <3>3
  <2> QED
    BY <1>3, <2>4, <2>5, <2>6, <2>7, RunStep
<1> QED
  BY <1>1, <1>2, <1>3

-----------------------------------------------------------------------------
\* What is known of the target of a group, of which a use is whole or none, at a stage
\* and under these releases.
ResolvedAt(g, whole, stage, found, named, published, moved, undisturbed) ==
  /\ found = Asked => stage = "lookup"
  /\ found \in {Asked, NoTag} => named = NoRef
  /\ found \notin {Asked, NoTag} =>
       /\ Out(found, g.action, published[g.action])
       /\ whole =>
            \A k \in 1 .. Len(Releases[g.action]) :
              Eligible(Releases[g.action][k]) /\ Releases[g.action][k].version = g.version =>
                ~Newer(g.version, found.version)
  /\ stage # "lookup" => found = NoTag \/ named # NoRef
  /\ undisturbed =>
       /\ found \in {Asked, Latest({Releases[g.action][i] : i \in 1 .. published[g.action]})}
       /\ named \in {NoRef, <<found, moved>>}

\* What the latest release is, against the version a use has.
LEMMA FoundRelease ==
  ASSUME Typed, NEW r \in Repositories, NEW v,
         NEW t, t = Latest(TagsOf(r)), t # NoTag
  PROVE  /\ t # Asked /\ Out(t, r, tags[r])
         /\ OutAlready(r, v, tags[r]) =>
              \A k \in 1 .. Len(Releases[r]) :
                Eligible(Releases[r][k]) /\ Releases[r][k].version = v => ~Newer(v, t.version)
<1>1. Out(t, r, tags[r]) /\ \A k \in 1 .. tags[r] : Eligible(Releases[r][k]) =>
                              ~Later(Releases[r][k].version, t.version)
  BY LatestFacts
<1>2. t # Asked /\ t.version \in Versions
  BY <1>1, OutVersion
<1>3. ASSUME OutAlready(r, v, tags[r]),
             NEW k \in 1 .. Len(Releases[r]), Eligible(Releases[r][k]), Releases[r][k].version = v
      PROVE  ~Newer(v, t.version)
  <2>1. PICK m \in 1 .. tags[r] : Releases[r][m].version = v
    BY <1>3 DEF OutAlready
  <2>2. Eligible(Releases[r][m])
    BY <1>3, <2>1 DEF Eligible
  <2>3. ~Later(v, t.version)
    BY <1>1, <2>1, <2>2
  <2>4. v \in Versions
    BY <1>3, WorkflowUpdateAssumption DEF Eligible
  <2> QED
    BY <1>2, <2>3, <2>4, LaterFacts
<1> QED
  BY <1>1, <1>2, <1>3

LEMMA ResolvedStep ==
  ASSUME Shaped, Typed, Known, Inventory, Resolved, [Next]_vars
  PROVE  Resolved'
<1> DEFINE W(g) == \E u \in uses : Group(u) = g /\ Whole(u)
           R(g) == ResolvedAt(g, W(g), pc, target[g], commit[g], tags, moves, stable)
<1>1. Resolved <=> (pc # "idle" => \A g \in DOMAIN target : R(g))
  BY DEF Resolved, ResolvedAt, TagsOf
<1>2. Resolved' <=> (pc' # "idle" => \A g \in DOMAIN target' : R(g)')
  BY DEF Resolved, ResolvedAt, TagsOf
<1> SUFFICES ASSUME pc' # "idle", NEW g \in DOMAIN target' PROVE R(g)'
  BY <1>2
<1>3. CASE Begin
  <2>1. target'[g] = Asked /\ commit'[g] = NoRef /\ pc' = "lookup"
    BY <1>3 DEF Begin
  <2> QED
    BY <2>1 DEF ResolvedAt
<1>4. CASE pc = "idle" /\ ~Begin
  <2>1. pc' = pc
    BY <1>4 DEF Next, Step, LookUpMise, LookupFails, Plan, Fill, Done, ListTags, ResolveTag,
       Truncate, Crash, MoveTag, Publish, Restore, Settle, run, vars
  <2> QED
    BY <1>4, <2>1
<1>5. CASE pc # "idle"
  <2>1. g \in DOMAIN target /\ R(g)
    BY <1>1, <1>5, RunStep
  <2>2. PICK u \in uses : g = Group(u)
    BY <1>5, <2>1 DEF Inventory
  <2>3. g.action = u.action /\ g.version = u.version
    BY <2>2 DEF Group
  <2>4. /\ g.action \in Repositories
        /\ W(g) => OutAlready(g.action, g.version, tags[g.action])
    BY <1>5, <2>2, <2>3 DEF Inventory, Group
  <2>14. W(g)' => W(g)
    <3>1. ASSUME NEW w \in uses', Group(w)' = g, Whole(w)'
          PROVE  w \in uses /\ Group(w) = g /\ Whole(w)
      <4>1. w \in uses /\ Group(w) = g
        BY <1>5, <3>1, RunStep DEF Group
      <4> QED
        BY <1>5, <3>1, <4>1, WholeBefore
    <3> QED
      BY <3>1
  <2> HIDE DEF W
  <2>5. /\ \A t : Out(t, g.action, tags[g.action]) => Out(t, g.action, tags'[g.action])
        /\ stable' => stable /\ tags' = tags /\ moves' = moves
    BY <1>5, <2>4, StaysOut, WorldStep DEF Begin
  <2>6. ASSUME UNCHANGED <<target, commit>>, pc' = "lookup" <=> pc = "lookup"
        PROVE  R(g)'
    BY <2>1, <2>5, <2>6, <2>14 DEF ResolvedAt
  <2>7. CASE \E h \in DOMAIN target : ListTags(h)
    <3>1. PICK h \in DOMAIN target : ListTags(h)
      BY <2>7
    <3>2. /\ target' = [target EXCEPT ![h] = Latest(TagsOf(h.action))] /\ target[h] = Asked
          /\ UNCHANGED <<tags, moves, stable, commit, pc>> /\ pc = "lookup"
      BY <3>1 DEF ListTags, World
    <3>3. CASE h = g
      <4>1. target'[g] = Latest(TagsOf(g.action)) /\ commit'[g] = NoRef
        BY <2>1, <3>2, <3>3 DEF ResolvedAt
      <4>2. target'[g] # NoTag =>
              /\ target'[g] # Asked /\ Out(target'[g], g.action, tags[g.action])
              /\ W(g) => \A k \in 1 .. Len(Releases[g.action]) :
                   Eligible(Releases[g.action][k]) /\ Releases[g.action][k].version = g.version =>
                     ~Newer(g.version, target'[g].version)
        BY <2>4, <4>1, FoundRelease
      <4> QED
        BY <2>14, <3>2, <4>1, <4>2 DEF ResolvedAt, TagsOf
    <3>4. CASE h # g
      <4>1. target'[g] = target[g]
        BY <3>2, <3>4
      <4> QED
        BY <2>1, <2>14, <3>2, <4>1 DEF ResolvedAt
    <3> QED
      BY <3>3, <3>4
  <2>8. CASE \E h \in DOMAIN target : ResolveTag(h)
    <3>1. PICK h \in DOMAIN target : ResolveTag(h)
      BY <2>8
    <3>2. /\ commit' = [commit EXCEPT ![h] = <<target[h], moves>>] /\ target[h] \notin {Asked, NoTag}
          /\ UNCHANGED <<tags, moves, stable, target, pc>> /\ pc = "lookup"
          /\ DOMAIN commit = DOMAIN target
      BY <3>1 DEF ResolveTag, World, Typed
    <3>3. CASE h = g
      <4>1. commit'[g] = <<target[g], moves>>
        BY <3>2, <3>3
      <4> QED
        BY <2>1, <2>14, <3>2, <3>3, <4>1 DEF ResolvedAt
    <3>4. CASE h # g
      <4>1. commit'[g] = commit[g]
        BY <3>2, <3>4
      <4> QED
        BY <2>1, <2>14, <3>2, <4>1 DEF ResolvedAt
    <3> QED
      BY <3>3, <3>4
  <2>9. CASE LookUpMise
    <3>1. /\ UNCHANGED <<tags, moves, stable, target, commit>> /\ pc' = "plan"
          /\ target[g] = NoTag \/ commit[g] # NoRef
      BY <2>1, <2>9 DEF LookUpMise, World
    <3>2. target[g] # Asked
      BY <2>1, <3>1, WorkflowUpdateAssumption DEF ResolvedAt
    <3> QED
      BY <2>1, <2>14, <3>1, <3>2 DEF ResolvedAt
  <2>10. CASE Plan \/ Fill \/ \E f \in Files : Truncate(f)
    <3>1. UNCHANGED <<target, commit>> /\ pc' # "lookup" /\ pc # "lookup"
      BY <2>10 DEF Plan, Fill, Truncate, Finish
    <3> QED
      BY <2>6, <3>1
  <2>11. CASE LookupFails \/ Done \/ Crash
    BY <2>11 DEF LookupFails, Done, Crash, Finish
  <2>12. CASE \/ MoveTag \/ Settle \/ UNCHANGED vars
              \/ (\E r \in Repositories : Publish(r)) \/ \E f \in Files : Restore(f)
    <3>1. UNCHANGED run
      BY <2>12 DEF MoveTag, Settle, Publish, Restore, vars
    <3> QED
      BY <2>6, <3>1 DEF run
  <2>13. ~Begin
    BY <1>5 DEF Begin
  <2> QED
    BY <2>7, <2>8, <2>9, <2>10, <2>11, <2>12, <2>13 DEF Next, Step
<1> QED
  BY <1>3, <1>4, <1>5

LEMMA MiseResolvedStep ==
  ASSUME Shaped, Typed, Known, Inventory, MiseResolved, [Next]_vars
  PROVE  MiseResolved'
<1> SUFFICES ASSUME pc' \in {"plan", "write", "fill"}, latest' # NoTag
             PROVE  Out(latest', Mise, tags'[Mise]) /\ \A p \in pins' : ~Newer(p.version, latest'.version)
  BY DEF MiseResolved
<1>1. /\ Mise \in Repositories
      /\ \A t : Out(t, Mise, tags[Mise]) => Out(t, Mise, tags'[Mise])
  BY StaysOut, WorkflowUpdateAssumption
<1>2. CASE LookUpMise
  <2>1. /\ latest' = Latest(TagsOf(Mise)) /\ UNCHANGED <<pins, tags>> /\ pc = "lookup"
    BY <1>2 DEF LookUpMise, World
  <2>2. PICK t : t = latest'
    OBVIOUS
  <2>3. /\ Out(t, Mise, tags[Mise])
        /\ \A k \in 1 .. tags[Mise] : Eligible(Releases[Mise][k]) =>
             ~Later(Releases[Mise][k].version, t.version)
    BY <1>1, <2>1, <2>2, LatestFacts
  <2>4. t.version \in Versions
    BY <1>1, <2>3, OutVersion
  <2>5. ASSUME NEW p \in pins PROVE ~Newer(p.version, t.version)
    <3>1. p.version \in Versions /\ NotAhead(p.version, tags[Mise])
      BY <2>1, <2>5 DEF Inventory
    <3>2. PICK m \in 1 .. tags[Mise] :
            Eligible(Releases[Mise][m]) /\ ~Newer(p.version, Releases[Mise][m].version)
      BY <3>1 DEF NotAhead
    <3>3. Out(Releases[Mise][m], Mise, tags[Mise])
      BY <3>2 DEF Out
    <3>4. Releases[Mise][m].version \in Versions
      BY <1>1, <3>3, OutVersion
    <3>5. ~Later(Releases[Mise][m].version, t.version)
      BY <2>3, <3>2
    <3> QED
      BY <2>4, <3>1, <3>2, <3>4, <3>5, LaterFacts
  <2> QED
    BY <1>1, <2>1, <2>2, <2>3, <2>5
<1>3. CASE ~LookUpMise
  <2>1. pc \in {"plan", "write", "fill"} /\ UNCHANGED <<pins, latest>>
    <3>1. ~Begin /\ ~LookupFails /\ ~Done /\ ~Crash /\ ~(\E g \in DOMAIN target : ListTags(g) \/ ResolveTag(g))
      BY DEF Begin, LookupFails, Done, Crash, Finish, ListTags, ResolveTag
    <3>2. CASE Plan
      BY <3>2 DEF Plan, Finish
    <3>3. CASE Fill \/ \E f \in Files : Truncate(f)
      BY <3>3 DEF Fill, Truncate
    <3>4. CASE \/ MoveTag \/ Settle \/ UNCHANGED vars
               \/ (\E r \in Repositories : Publish(r)) \/ \E f \in Files : Restore(f)
      <4>1. UNCHANGED run
        BY <3>4 DEF MoveTag, Settle, Publish, Restore, vars
      <4> QED
        BY <4>1 DEF run
    <3> QED
      BY <1>3, <3>1, <3>2, <3>3, <3>4 DEF Next, Step
  <2> QED
    BY <1>1, <2>1 DEF MiseResolved
<1> QED
  BY <1>2, <1>3

\* What a run that succeeds leaves.
LEMMA SettledDone ==
  ASSUME Typed, Inventory, Updated, Resolved, pc = "write", todo = {}, stable, NEW u \in uses
  PROVE  /\ u.action \in Repositories
         /\ Latest(TagsOf(u.action)) # NoTag /\ u.ref = First(Group(u)).ref =>
              /\ LineOf(u).version = Latest(TagsOf(u.action)).version
              /\ LineOf(u).ref = <<Latest(TagsOf(u.action)), moves>>
<1>1. u.action \in Repositories /\ Group(u) \in DOMAIN target
  BY DEF Inventory
<1>2. Group(u).action = u.action /\ Group(u).version = u.version
  BY DEF Group
<1>3. PICK g, t : g = Group(u) /\ t = Latest(TagsOf(u.action))
  OBVIOUS
<1>4. ASSUME t # NoTag PROVE target[g] = t /\ commit[g] = <<t, moves>>
  <2>1. target[g] = t
    BY <1>1, <1>2, <1>3 DEF Resolved
  <2>2. commit[g] # NoRef /\ commit[g] \in {NoRef, <<t, moves>>}
    BY <1>1, <1>3, <1>4, <2>1 DEF Resolved
  <2> QED
    BY <2>1, <2>2
<1>5. IF HasUpdate(g) THEN LineOf(u).ref = commit[g] /\ LineOf(u).version = target[g].version
                      ELSE LineOf(u).ref = u.ref /\ LineOf(u).version = u.version
  BY <1>3 DEF Updated, Over
<1>6. ASSUME t # NoTag, u.ref = First(g).ref
      PROVE  LineOf(u).version = t.version /\ LineOf(u).ref = <<t, moves>>
  <2>1. CASE HasUpdate(g)
    BY <1>4, <1>5, <1>6, <2>1
  <2>2. CASE ~HasUpdate(g)
    <3>1. First(g).ref = commit[g] /\ g.version = target[g].version
      BY <1>4, <1>6, <2>2 DEF HasUpdate
    <3> QED
      BY <1>2, <1>3, <1>4, <1>5, <1>6, <2>2, <3>1
  <2> QED
    BY <2>1, <2>2
<1> QED
  BY <1>1, <1>3, <1>6

LEMMA SettledStep ==
  ASSUME Shaped, Typed, Inventory, Updated, Resolved, Settled, [Next]_vars
  PROVE  Settled'
<1> SUFFICES ASSUME pc' = "idle", outcome' = "ok", stable', NEW u \in uses'
             PROVE  /\ u.action \in Repositories
                    /\ Latest(TagsOf(u.action))' # NoTag /\ u.ref = First(Group(u))'.ref =>
                         /\ files'[u.file][u.index].version = Latest(TagsOf(u.action))'.version
                         /\ files'[u.file][u.index].ref = <<Latest(TagsOf(u.action))', moves'>>
  BY DEF Settled, LineOf, Group
<1>1. ASSUME UNCHANGED <<files, tags, moves, stable>>, uses' = uses
      PROVE  /\ Latest(TagsOf(u.action))' = Latest(TagsOf(u.action))
             /\ First(Group(u))' = First(Group(u))
  <2>1. Members(Group(u))' = Members(Group(u))
    BY <1>1 DEF Members, Group
  <2> QED
    BY <1>1, <2>1 DEF First, Before, TagsOf, Latest
<1>2. CASE Done
  <2>1. /\ UNCHANGED <<files, tags, moves, stable>> /\ pc = "write" /\ todo = {} /\ uses' \in {uses, {}}
    BY <1>2 DEF Done, Finish, World
  <2>2. uses' = uses
    BY <2>1
  <2> QED
    BY <1>1, <2>1, <2>2, SettledDone DEF LineOf
<1>3. CASE Plan
  <2>1. Finish("ok") /\ dry
    BY <1>3 DEF Plan
  <2> QED
    BY <2>1 DEF Finish
<1>4. CASE Begin
  <2>1. uses' = {}
    BY <1>4 DEF Begin
  <2> QED
    BY <2>1
<1>5. CASE LookupFails \/ Crash
  BY <1>5 DEF LookupFails, Crash, Finish
<1>6. CASE \/ LookUpMise \/ Fill \/ (\E f \in Files : Truncate(f))
           \/ \E g \in DOMAIN target : ListTags(g) \/ ResolveTag(g)
  BY <1>6 DEF LookUpMise, Fill, Truncate, ListTags, ResolveTag
<1>7. CASE MoveTag \/ (\E r \in Repositories : Publish(r)) \/ \E f \in Files : Restore(f)
  BY <1>7 DEF MoveTag, Publish, Restore
<1>8. CASE Settle \/ UNCHANGED vars
  <2>1. UNCHANGED <<files, tags, moves, stable, pc, outcome, uses>>
    BY <1>8 DEF Settle, vars, run
  <2> QED
    BY <1>1, <2>1 DEF Settled, LineOf
<1> QED
  BY <1>2, <1>3, <1>4, <1>5, <1>6, <1>7, <1>8 DEF Next, Step

LEMMA ReachedStep ==
  ASSUME Shaped, Typed, Known, Inventory, Reached, [Next]_vars
  PROVE  Reached'
<1> SUFFICES ASSUME pc' # "idle", NEW p \in pins'
             PROVE  \E i \in DOMAIN files'[p.file] :
                      /\ files'[p.file][i].kind = "use" /\ files'[p.file][i].action = MiseAction
                      /\ InReach(Original[p.file], i, p.index)
  BY DEF Reached, UseLines
<1>1. CASE Begin
  <2>1. files' = files /\ p \in MiseVersionUses
    BY <1>1 DEF Begin
  <2>2. PICK u \in WorkflowUses :
          /\ u.action = MiseAction
          /\ \E j \in VersionLines(files[u.file], u.index) :
               p = [file |-> u.file, index |-> j, version |-> files[u.file][j].version]
    BY <2>1 DEF MiseVersionUses
  <2>3. PICK f, i, j : /\ f = u.file /\ i = u.index /\ j \in VersionLines(files[f], i)
                       /\ p.file = f /\ p.index = j
    BY <2>2
  <2>4. /\ f \in Files /\ i \in DOMAIN files[f] /\ files[f][i].kind = "use"
        /\ files[f][i].action = MiseAction
    BY <2>2, <2>3, FreshUses DEF LineOf
  <2>5. j \in DOMAIN files[f] /\ InReach(files[f], i, j)
    BY <2>3 DEF VersionLines
  <2>6. \A k \in i .. j : files[f][k].indent = Original[f][k].indent
    <3>1. PICK n \in 0 .. Len(Original[f]) : DOMAIN files[f] = 1 .. n
      BY <2>4 DEF Shaped, FileShaped
    <3>2. i .. j \subseteq DOMAIN files[f]
      BY <2>4, <2>5, <3>1, OriginalFacts
    <3> QED
      BY <2>4, <3>2, LineFacts
  <2>7. InReach(Original[f], i, j)
    <3>1. i \in Nat /\ j \in Nat
      BY <2>4, <2>5, LineFacts, OriginalFacts
    <3>2. i \in i .. j /\ \A k \in i + 1 .. j : k \in i .. j
      BY <2>5, <3>1 DEF InReach
    <3> QED
      BY <2>5, <2>6, <3>2 DEF InReach
  <2> QED
    BY <2>1, <2>3, <2>4, <2>7
<1>2. CASE pc = "idle" /\ ~Begin
  <2>1. pc' = pc
    BY <1>2 DEF Next, Step, LookUpMise, LookupFails, Plan, Fill, Done, ListTags, ResolveTag,
       Truncate, Crash, MoveTag, Publish, Restore, Settle, run, vars
  <2> QED
    BY <1>2, <2>1
<1>3. CASE pc # "idle"
  <2>1. p \in pins /\ p.file \in Files
    BY <1>3, RunStep DEF Inventory
  <2>2. PICK i \in DOMAIN files[p.file] :
          /\ files[p.file][i].kind = "use" /\ files[p.file][i].action = MiseAction
          /\ InReach(Original[p.file], i, p.index)
    BY <1>3, <2>1 DEF Reached, UseLines
  <2>3. /\ i \in DOMAIN files'[p.file] /\ files'[p.file][i].kind = "use"
        /\ files'[p.file][i].action = MiseAction
    BY <1>3, <2>1, <2>2, LinesKept
  <2> QED
    BY <2>2, <2>3
<1> QED
  BY <1>1, <1>2, <1>3

-----------------------------------------------------------------------------
LEMMA InvInit == Init => Inv
<1> SUFFICES ASSUME Init PROVE Inv
  OBVIOUS
<1>1. Shaped
  <2>1. torn = {}
    BY DEF Init
  <2> QED
    BY <2>1, OriginalShaped, WorkflowUpdateAssumption DEF Init, Shaped
<1>2. Typed
  <2>1. \A r \in Repositories : tags[r] \in Published[r] .. Len(Releases[r])
    BY WorkflowUpdateAssumption DEF Init
  <2>2. DOMAIN tags = Repositories /\ moves \in 0 .. MaxMoves
    BY WorkflowUpdateAssumption DEF Init
  <2> QED
    BY <2>1, <2>2 DEF Init, Typed
<1>3. Known
  BY <1>2, KnownOriginal DEF Init, Known, Typed
<1>4. pc = "idle" /\ uses = {} /\ outcome = None
  BY DEF Init
<1> QED
  BY <1>1, <1>2, <1>3, <1>4 DEF Inv, Inventory, Updated, Resolved, MiseResolved, Settled, Reached

LEMMA InvStep == Inv /\ [Next]_vars => Inv'
BY ShapedStep, TypedStep, KnownStep, InventoryStep, UpdatedStep, ResolvedStep, MiseResolvedStep,
   SettledStep, ReachedStep DEF Inv

\* What a run knows of lines and releases holds in every state: lines keep their places and
\* kinds, none is ahead of what is published, and what was looked up is released and no
\* older than what it replaces.
THEOREM InvCorrect == Spec => []Inv
BY InvInit, InvStep, PTL DEF Spec

\* Every state of the updater is well formed, and a file only ever differs from the
\* repository's in refs, versions and how much of it a run that died has left.
THEOREM TypeCorrect == Spec => []TypeOK
<1>1. ASSUME Inv PROVE TypeOK
  <2>1. \A f \in Files : \A i \in DOMAIN files[f] :
          [files[f][i] EXCEPT !.ref = NoRef, !.version = None] =
            [Original[f][i] EXCEPT !.ref = NoRef, !.version = None]
    <3> SUFFICES ASSUME NEW f \in Files, NEW i \in DOMAIN files[f]
                 PROVE  [files[f][i] EXCEPT !.ref = NoRef, !.version = None] =
                          [Original[f][i] EXCEPT !.ref = NoRef, !.version = None]
      OBVIOUS
    <3>1. PICK o : o = Original[f][i]
      OBVIOUS
    <3>2. files[f][i] = [Original[f][i] EXCEPT !.ref = files[f][i].ref,
                                               !.version = files[f][i].version]
      BY <1>1 DEF Inv, Shaped, FileShaped
    <3>3. PICK r, v : files[f][i] = [o EXCEPT !.ref = r, !.version = v]
      BY <3>1, <3>2
    <3>4. DOMAIN o = Fields
      BY <1>1, <3>1, LineFacts DEF Inv
    <3> QED
      BY <3>1, <3>3, <3>4 DEF Fields
  <2>2. \A r \in Repositories : tags[r] \in 0 .. Len(Releases[r])
    BY <1>1, TagsFacts DEF Inv
  <2>3. torn \subseteq Files \X Nat
    BY <1>1 DEF Inv, Shaped
  <2> QED
    BY <1>1, <2>1, <2>2, <2>3 DEF Inv, Typed, TypeOK
<1> QED
  BY <1>1, InvCorrect, PTL

\* A run that succeeds, undisturbed, leaves every use at the newest stable release, by its
\* longest version and its commit.
THEOREM PinnedCorrect == Spec => []Pinned
<1>1. ASSUME Inv PROVE Pinned
  <2> SUFFICES ASSUME pc = "idle", outcome = "ok", stable, NEW u \in uses,
                      StableTags(u.action) # {}, u.ref = First(Group(u)).ref
               PROVE  \E t \in StableTags(u.action) :
                        /\ LineOf(u).version = t.version
                        /\ LineOf(u).ref = <<t, moves>>
                        /\ \A o \in StableTags(u.action) :
                             \/ Newer(t.version, o.version)
                             \/ /\ ~Newer(o.version, t.version)
                                /\ o.version.segments <= t.version.segments
    BY DEF Pinned, LineOf
  <2>1. u.action \in Repositories
    BY <1>1 DEF Inv, Settled
  <2>2. PICK t : t = Latest(TagsOf(u.action))
    OBVIOUS
  <2>3. \E k \in 1 .. tags[u.action] : Eligible(Releases[u.action][k])
    BY DEF StableTags, TagsOf, Stable, Eligible
  <2>4. /\ t # NoTag /\ Out(t, u.action, tags[u.action])
        /\ \A k \in 1 .. tags[u.action] : Eligible(Releases[u.action][k]) =>
             ~Later(Releases[u.action][k].version, t.version)
    BY <1>1, <2>1, <2>2, <2>3, LatestFacts DEF Inv
  <2>5. t \in StableTags(u.action)
    BY <2>4 DEF Out, StableTags, TagsOf, Stable, Eligible
  <2>6. LineOf(u).version = t.version /\ LineOf(u).ref = <<t, moves>>
    BY <1>1, <2>2, <2>4 DEF Inv, Settled
  <2>7. ASSUME NEW o \in StableTags(u.action)
        PROVE  \/ Newer(t.version, o.version)
               \/ ~Newer(o.version, t.version) /\ o.version.segments <= t.version.segments
    <3>1. Out(o, u.action, tags[u.action])
      BY <2>7 DEF Out, StableTags, TagsOf, Stable, Eligible
    <3>2. /\ o.version \in Versions /\ o.version.pre = 0
          /\ t.version \in Versions /\ t.version.pre = 0
      BY <1>1, <2>1, <2>4, <3>1, OutVersion DEF Inv
    <3>3. ~Later(o.version, t.version)
      BY <2>4, <3>1 DEF Out
    <3> QED
      BY <3>2, <3>3, LaterFacts
  <2> QED
    BY <2>5, <2>6, <2>7
<1> QED
  BY <1>1, InvCorrect, PTL

\* A run never replaces a stable release by an earlier one, but in a line that the death
\* of a run cuts or has cut.
THEOREM NeverBackCorrect == Spec => NeverBack
<1>1. ASSUME Inv, [Next]_vars, NEW f \in Files, NEW i \in DOMAIN files[f] \cap DOMAIN files'[f],
             pc # "idle", Released(files[f][i]), <<f, i>> \notin torn, <<f, i>> \notin torn'
      PROVE  ~Newer(files[f][i].version, files'[f][i].version)
  <2>1. PICK l : l = files[f][i]
    OBVIOUS
  <2>2. /\ i \in DOMAIN files[f] /\ KnownLine(l, tags)
        /\ l.kind = "use" => l.action \in Repositories
    BY <1>1, <2>1, LineFacts DEF Inv, Known
  <2>3. ASSUME l.kind = "use"
        PROVE  \E k \in 1 .. Len(Releases[l.action]) :
                 Eligible(Releases[l.action][k]) /\ Releases[l.action][k].version = l.version
    <3>1. PICK k \in 1 .. tags[l.action] :
            Releases[l.action][k].version = l.version /\ Stable(l.version)
      BY <1>1, <2>1, <2>3 DEF Released, StableTags, TagsOf
    <3>2. tags[l.action] \in 0 .. Len(Releases[l.action]) /\ Len(Releases[l.action]) \in Nat
      BY <1>1, <2>2, <2>3, TagsFacts DEF Inv
    <3> QED
      BY <3>1, <3>2 DEF Eligible, Stable
  <2>4. l.version \in Versions
    <3>1. CASE l.kind = "version"
      BY <2>2, <3>1 DEF KnownLine
    <3>2. CASE l.kind = "use"
      BY <2>2, <2>3, <3>2, WorkflowUpdateAssumption DEF Eligible
    <3> QED
      BY <1>1, <2>1, <3>1, <3>2 DEF Released
  <2>5. CASE files'[f][i] = l
    BY <2>1, <2>4, <2>5, LaterFacts
  <2>6. CASE pc = "fill" /\ f = at /\ files'[f][i] = Rewritten(f, i)
    <3>1. PICK new : new = files'[f][i]
      OBVIOUS
    <3>2. Becomes(f, i, l, new)
      <4>1. Shaped /\ Inventory /\ i \in DOMAIN files[f]
        BY <1>1 DEF Inv
      <4>2. Becomes(f, i, files[f][i], Rewritten(f, i))
        BY <1>1, <4>1, NewLine
      <4> QED
        BY <2>1, <2>6, <3>1, <4>2
    <3>3. ~Over(f)
      BY <1>1, <2>6, WorkflowUpdateAssumption DEF Inv, Typed, Over, NoFile
    <3>4. ASSUME NEW u \in uses, u.file = f, u.index = i, HasUpdate(Group(u)), l.kind = "use",
                 new.version = target[Group(u)].version
          PROVE  ~Newer(l.version, new.version)
      <4>1. l.version = u.version /\ l.action = u.action
        BY <1>1, <2>1, <3>3, <3>4 DEF Inv, Updated, Inventory, LineOf
      <4>2. Group(u) \in DOMAIN target /\ Group(u).action = u.action /\ Group(u).version = u.version
        BY <1>1, <3>4 DEF Inv, Inventory, Group
      <4>3. target[Group(u)] \notin {Asked, NoTag}
        BY <1>1, <2>6, <3>4, <4>2 DEF Inv, Resolved, HasUpdate
      <4>4. \A k \in 1 .. Len(Releases[u.action]) :
              Eligible(Releases[u.action][k]) /\ Releases[u.action][k].version = u.version =>
                ~Newer(u.version, target[Group(u)].version)
        <5>1. Whole(u)
          BY <1>1, <3>3, <3>4 DEF Whole
        <5> QED
          BY <1>1, <3>4, <4>2, <4>3, <5>1 DEF Inv, Resolved
      <4> QED
        BY <2>3, <3>4, <4>1, <4>4
    <3>5. ASSUME NEW p \in pins, p.file = f, p.index = i, PinHasUpdate(p),
                 new.version = latest.version
          PROVE  ~Newer(l.version, new.version)
      <4>1. l.version = p.version
        BY <1>1, <2>1, <3>3, <3>5 DEF Inv, Inventory, LineOf
      <4>2. ~Newer(p.version, latest.version)
        BY <1>1, <2>6, <3>5 DEF Inv, MiseResolved, PinHasUpdate
      <4> QED
        BY <3>5, <4>1, <4>2
    <3>6. ASSUME new = l PROVE ~Newer(l.version, new.version)
      BY <2>4, <3>6, LaterFacts
    <3>7. \/ \E u \in uses : /\ u.file = f /\ u.index = i /\ HasUpdate(Group(u)) /\ l.kind = "use"
                            /\ new.version = target[Group(u)].version
          \/ \E p \in pins : /\ p.file = f /\ p.index = i /\ PinHasUpdate(p)
                            /\ new.version = latest.version
          \/ new = l
      BY <3>2 DEF Becomes
    <3>8. ~Newer(l.version, new.version)
      BY <3>4, <3>5, <3>6, <3>7
    <3> QED
      BY <2>1, <3>1, <3>8
  <2>7. files'[f][i] = l \/ (pc = "fill" /\ f = at /\ files'[f][i] = Rewritten(f, i))
    <3>1. CASE files' = files
      BY <2>1, <3>1
    <3>2. ASSUME pc = "fill", at \in Files, NEW n \in 0 .. Len(Original[at]),
                 files' = [files EXCEPT ![at] = [k \in 1 .. n |-> Rewritten(at, k)]]
          PROVE  files'[f][i] = l \/ (pc = "fill" /\ f = at /\ files'[f][i] = Rewritten(f, i))
      <4>1. CASE f # at
        BY <1>1, <2>1, <3>2, <4>1 DEF Inv, Shaped
      <4>2. CASE f = at
        <5>1. files'[f] = [k \in 1 .. n |-> Rewritten(f, k)]
          BY <1>1, <3>2, <4>2 DEF Inv, Shaped
        <5> QED
          BY <1>1, <3>2, <4>2, <5>1
      <4> QED
        BY <4>1, <4>2
    <3>3. ASSUME pc = "fill", at \in Files, NEW n \in 1 .. Len(Original[at]), NEW v,
                 <<at, n>> \in torn',
                 files' = [files EXCEPT ![at] =
                             [k \in 1 .. n |-> IF k < n THEN Rewritten(at, k)
                                               ELSE [Rewritten(at, n) EXCEPT !.version = v]]]
          PROVE  files'[f][i] = l \/ (pc = "fill" /\ f = at /\ files'[f][i] = Rewritten(f, i))
      <4>1. CASE f # at
        BY <1>1, <2>1, <3>3, <4>1 DEF Inv, Shaped
      <4>2. CASE f = at
        <5>1. files'[f] = [k \in 1 .. n |-> IF k < n THEN Rewritten(f, k)
                                            ELSE [Rewritten(f, n) EXCEPT !.version = v]]
          BY <1>1, <3>3, <4>2 DEF Inv, Shaped
        <5>2. i \in 1 .. n /\ i # n
          BY <1>1, <3>3, <4>2, <5>1
        <5> QED
          BY <3>3, <4>2, <5>1, <5>2
      <4> QED
        BY <4>1, <4>2
    <3>4. pc # "idle"
      BY <1>1
    <3> QED
      BY <1>1, <3>1, <3>2, <3>3, <3>4, FilesStep DEF Inv
  <2> QED
    BY <2>1, <2>5, <2>6, <2>7
<1>2. Inv /\ [Next]_vars =>
        [\A f \in Files : \A i \in DOMAIN files[f] \cap DOMAIN files'[f] :
           pc # "idle" /\ Released(files[f][i]) /\ <<f, i>> \notin torn \cup torn' =>
             ~Newer(files[f][i].version, files'[f][i].version)]_vars
  BY <1>1
<1> QED
  BY <1>2, InvCorrect, PTL DEF Spec, NeverBack

\* A version in reach of a line that uses mise belongs to its step: so it is when the step
\* has a name or an id above its action, or a version of its own.
ReachIsStep ==
  \A f \in Files : \A i, j \in DOMAIN Original[f] :
    /\ Original[f][i].kind = "use" /\ Original[f][i].action = MiseAction
    /\ Original[f][j].kind = "version" /\ InReach(Original[f], i, j)
    => SameStep(f, i, j)

\* In files whose steps are laid out so, a run only rewrites versions of mise, though its
\* death may cut another.
THEOREM OnlyMiseCorrect ==
  ASSUME ReachIsStep
  PROVE  Spec => OnlyMiseVersions
<1>1. ASSUME Inv, [Next]_vars, NEW f \in Files,
             NEW j \in DOMAIN files[f] \cap DOMAIN files'[f],
             files[f][j].kind = "version", files'[f][j] # files[f][j], pc # "idle",
             <<f, j>> \notin torn'
      PROVE  \E i \in UseLines(f) :
               i < j /\ files[f][i].action = MiseAction /\ SameStep(f, i, j)
  <2>1. pc = "fill" /\ f = at /\ files'[f][j] = Rewritten(f, j)
    <3>1. ASSUME pc = "fill", at \in Files, NEW n \in 0 .. Len(Original[at]),
                 files' = [files EXCEPT ![at] = [k \in 1 .. n |-> Rewritten(at, k)]]
          PROVE  pc = "fill" /\ f = at /\ files'[f][j] = Rewritten(f, j)
      <4>1. f = at
        BY <1>1, <3>1 DEF Inv, Shaped
      <4>2. files'[f] = [k \in 1 .. n |-> Rewritten(f, k)]
        BY <1>1, <3>1, <4>1 DEF Inv, Shaped
      <4> QED
        BY <1>1, <3>1, <4>1, <4>2
    <3>2. ASSUME pc = "fill", at \in Files, NEW n \in 1 .. Len(Original[at]), NEW v,
                 <<at, n>> \in torn',
                 files' = [files EXCEPT ![at] =
                             [k \in 1 .. n |-> IF k < n THEN Rewritten(at, k)
                                               ELSE [Rewritten(at, n) EXCEPT !.version = v]]]
          PROVE  pc = "fill" /\ f = at /\ files'[f][j] = Rewritten(f, j)
      <4>1. f = at
        BY <1>1, <3>2 DEF Inv, Shaped
      <4>2. files'[f] = [k \in 1 .. n |-> IF k < n THEN Rewritten(f, k)
                                          ELSE [Rewritten(f, n) EXCEPT !.version = v]]
        BY <1>1, <3>2, <4>1 DEF Inv, Shaped
      <4>3. j \in 1 .. n /\ j # n
        BY <1>1, <3>2, <4>1, <4>2
      <4> QED
        BY <3>2, <4>1, <4>2, <4>3
    <3> QED
      BY <1>1, <3>1, <3>2, FilesStep DEF Inv
  <2>2. Becomes(f, j, files[f][j], files'[f][j])
    BY <1>1, <2>1, NewLine DEF Inv
  <2>3. PICK p \in pins : p.file = f /\ p.index = j
    BY <1>1, <2>2 DEF Becomes
  <2>4. PICK i \in UseLines(f) : files[f][i].action = MiseAction /\ InReach(Original[f], i, j)
    BY <1>1, <2>3 DEF Inv, Reached
  <2>5. /\ i \in DOMAIN files[f] /\ files[f][i].kind = "use"
    BY <2>4 DEF UseLines
  <2>6. /\ {i, j} \subseteq DOMAIN Original[f]
        /\ Original[f][i].kind = "use" /\ Original[f][i].action = MiseAction
        /\ Original[f][j].kind = "version"
    <3>1. /\ i \in DOMAIN Original[f] /\ files[f][i].kind = Original[f][i].kind
          /\ files[f][i].action = Original[f][i].action
      BY <1>1, <2>5, LineFacts DEF Inv
    <3>2. j \in DOMAIN Original[f] /\ files[f][j].kind = Original[f][j].kind
      BY <1>1, LineFacts DEF Inv
    <3> QED
      BY <1>1, <2>4, <2>5, <3>1, <3>2
  <2>7. SameStep(f, i, j) /\ i < j
    BY <1>1, <2>4, <2>6, OriginalFacts DEF ReachIsStep, InReach
  <2> QED
    BY <2>4, <2>7
<1>2. Inv /\ [Next]_vars =>
        [\A f \in Files : \A j \in DOMAIN files[f] \cap DOMAIN files'[f] :
           /\ files[f][j].kind = "version" /\ files'[f][j] # files[f][j]
           /\ pc # "idle" /\ <<f, j>> \notin torn'
           =>
             \E i \in UseLines(f) :
               /\ i < j
               /\ files[f][i].action = MiseAction
               /\ SameStep(f, i, j)]_vars
  BY <1>1
<1> QED
  BY <1>2, InvCorrect, PTL DEF Spec, OnlyMiseVersions
=============================================================================
