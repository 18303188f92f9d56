------------------------- MODULE SystemdCallsProofs --------------------------
(***************************************************************************)
(* What the calls of Systemd guarantee for any definitions, entries,       *)
(* command lines and numbers of calls.                                     *)
(*                                                                         *)
(* The scan decides Absolute.  A call stays on the stages of its           *)
(* operation, with the definitions it was given, which share nothing with  *)
(* the application; each stage has behind it what the result of the call   *)
(* needs: entries that passed, files as they were built, filenames that    *)
(* were linked, what a command threw.                                      *)
(***************************************************************************)
EXTENDS SystemdCalls, UnitFileProofs, TLAPS

-----------------------------------------------------------------------------
\* Beginning a scan leaves nothing behind the scanner.
LEMMA BeginStep ==
  ASSUME NEW l \in Seq(Chars), Begin(l)
  PROVE  ScanInv'
<1>1. Behind'
  BY DEF Begin, Behind
<1> QED
  BY <1>1 DEF Begin, ScanInv, Barred, ScanDecides

\* A modifier is behind the scanner after the step.
LEMMA ModifierStep ==
  ASSUME ScanInv, SkipModifier
  PROVE  ScanInv'
<1> USE DEF SkipModifier
<1>1. Behind /\ Barred /\ index \in 1..Len(line)
  BY DEF ScanInv
<1>2. line[index] \notin Privileges
  BY DEF Modifiers, Privileges
<1>3. Behind'
  BY <1>1, <1>2 DEF Behind
<1>4. Barred'
  <2> SUFFICES ASSUME privileged
               PROVE  \E i \in 1..index : line[i] \in Privileges /\ ~OnePrefix(line, i, index + 1)
    BY <1>1 DEF Barred, OnePrefix
  <2>1. PICK i \in 1..(index - 1) : line[i] \in Privileges
    BY <1>1 DEF Barred
  <2> QED
    BY <1>1, <2>1 DEF OnePrefix
<1> QED
  BY <1>3, <1>4 DEF ScanInv, ScanDecides

\* So is a privilege prefix, and it bars the next one.
LEMMA PrivilegeStep ==
  ASSUME ScanInv, SkipPrivilege
  PROVE  ScanInv'
<1> USE DEF SkipPrivilege
<1>1. Behind /\ index \in 1..Len(line)
  BY DEF ScanInv
<1>2. \A i \in 1..(index - 1) : line[i] \notin Privileges
  BY <1>1 DEF Behind
<1>3. CASE Width = 2
  <2>1. index + 1 \in 1..Len(line) /\ OnePrefix(line, index, index + 1)
    BY <1>1, <1>3 DEF Width, OnePrefix
  <2>2. Behind'
    BY <1>1, <1>2, <1>3, <2>1 DEF Behind, OnePrefix, Privileges
  <2>3. ~OnePrefix(line, index, index + 2)
    BY <1>1 DEF OnePrefix
  <2>4. Barred'
    BY <1>1, <1>3, <2>3 DEF Barred, OnePrefix
  <2> QED
    BY <2>2, <2>4 DEF ScanInv, ScanDecides
<1>4. CASE Width = 1
  <2>1. Behind'
    BY <1>1, <1>2, <1>4 DEF Behind
  <2>2. index + 1 \in DOMAIN line => ~OnePrefix(line, index, index + 1)
    BY <1>1, <1>4 DEF Width, OnePrefix
  <2>3. Barred'
    BY <1>1, <1>4, <2>2 DEF Barred, OnePrefix
  <2> QED
    BY <2>1, <2>3 DEF ScanInv, ScanDecides
<1> QED
  BY <1>3, <1>4 DEF Width

\* A second privilege prefix is refused rightly: a path would begin after it.
LEMMA RefuseStep ==
  ASSUME ScanInv, RefusePrivilege
  PROVE  ScanInv'
<1> USE DEF RefusePrivilege
<1>1. Behind /\ Barred /\ index \in 1..Len(line)
  BY DEF ScanInv
<1>2. PICK i \in 1..(index - 1) : line[i] \in Privileges /\ ~OnePrefix(line, i, index)
  BY <1>1 DEF Barred
<1>3. ASSUME NEW k \in 1..Len(line), PathAt(line, k)
      PROVE  FALSE
  <2>1. k # index
    BY <1>3 DEF PathAt, Privileges
  <2>2. ~(k < index)
    BY <1>1, <1>3 DEF Behind, PathAt, Modifiers, Privileges
  <2>3. i \in 1..(k - 1) /\ index \in 1..(k - 1) /\ i < index
    BY <1>1, <1>2, <2>1, <2>2
  <2> QED
    BY <1>2, <1>3, <2>3 DEF PathAt
<1>4. ~Absolute(line)
  BY <1>3 DEF Absolute, ScanInv
<1> QED
  BY <1>4 DEF ScanInv, ScanDecides

\* The first character that is no prefix is where a path would begin.
LEMMA SettleStep ==
  ASSUME ScanInv, Settle
  PROVE  ScanInv'
<1> USE DEF Settle
<1>1. Behind /\ line \in Seq(Chars)
  BY DEF ScanInv
<1>2. CASE index \in DOMAIN line /\ line[index] = "/"
  <2>1. PathAt(line, index)
    BY <1>1, <1>2 DEF Behind, PathAt
  <2> QED
    BY <1>2, <2>1 DEF ScanInv, ScanDecides, Absolute
<1>3. CASE ~(index \in DOMAIN line /\ line[index] = "/")
  <2>1. ASSUME NEW k \in 1..Len(line), PathAt(line, k)
        PROVE  FALSE
    <3>1. k # index
      BY <1>1, <1>3, <2>1 DEF PathAt
    <3>2. ~(k < index)
      BY <1>1, <2>1 DEF Behind, PathAt, Modifiers, Privileges
    <3>3. index \in 1..(k - 1) /\ index \in DOMAIN line
      BY <1>1, <3>1, <3>2 DEF Behind
    <3> QED
      BY <2>1, <3>3 DEF PathAt
  <2>2. ~Absolute(line)
    BY <1>1, <2>1 DEF Absolute
  <2> QED
    BY <1>3, <2>2 DEF ScanInv, ScanDecides
<1> QED
  BY <1>2, <1>3

\* A step of the scanner keeps its invariant, also when it is part of a step of
\* something larger.
LEMMA ScanStepInv ==
  ASSUME ScanInv, ScanStep
  PROVE  ScanInv'
BY ModifierStep, PrivilegeStep, RefuseStep, SettleStep DEF ScanStep

\* Before and after a scan there is nothing to say.
LEMMA ScanInitInv == ScanInit => ScanInv
<1>1. << >> \in Seq(Chars)
  OBVIOUS
<1>2. ASSUME ScanInit
      PROVE  line \in Seq(Chars) /\ privileged \in BOOLEAN /\ verdict = "idle"
  BY <1>1, <1>2 DEF ScanInit
<1> QED
  BY <1>2 DEF ScanInv, ScanDecides

\* isAbsoluteExecCommand() accepts a value exactly when its path is absolute and
\* at most one prefix before it concerns privileges, for values of every length.
THEOREM ScanCorrect == ScanSpec => []ScanDecides
<1>1. ScanInit => ScanInv
  BY ScanInitInv
<1>2. ScanInv /\ [ScanNext]_scanVars => ScanInv'
  <2>1. ASSUME ScanInv, ScanNext
        PROVE  ScanInv'
    BY <2>1, BeginStep, ScanStepInv, ExecScanAssumption DEF ScanNext
  <2>2. ASSUME ScanInv, UNCHANGED scanVars
        PROVE  ScanInv'
    BY <2>2 DEF scanVars, ScanInv, Behind, Barred, ScanDecides
  <2> QED
    BY <2>1, <2>2
<1>3. ScanInv => ScanDecides
  BY DEF ScanInv
<1> QED
  BY <1>1, <1>2, <1>3, PTL DEF ScanSpec

-----------------------------------------------------------------------------
\* What constructors return.
Definition == {Define(o, list) : o \in Options, list \in Lists \cup {<<>>}}

Ops       == {"materialize", "enable", "start", "logs", "query", "notify"}
Writing   == {"mkdir", "validate", "scan", "fill"}
Preparing == {"collect", "link", "reload"}
Starting  == {"start", "show", "diagShow", "diagStatus"}
Reading   == {"readLog", "status"}

\* A call is about definitions that were built, which it keeps.
Given ==
  /\ array \in Lists
  /\ units \in Seq(Definition)
  /\ call.op \in {"materialize", "enable", "start", "logs"} => call.args \in Seq(Definition)
  /\ call.op = "logs" => call.lines \in LineCounts

\* A call is on a stage of its operation, and has no result until it ends.
OnStage ==
  /\ pc \in Writing => call.op = "materialize"
  /\ pc \in Preparing \cup {"enable"} \cup Starting => call.op \in {"enable", "start"}
  /\ pc \in Reading => call.op = "logs"
  /\ pc \in {"query", "notify"} => call.op = pc
  /\ pc # "idle" =>
       /\ pc \in Writing \cup Preparing \cup {"enable"} \cup Starting \cup Reading
                  \cup {"query", "notify"}
       /\ result = NoResult

\* A definition has its own copy of the entries it was built from, and its file is
\* one of the filenames.
LEMMA DefinitionFacts ==
  ASSUME NEW d \in Definition
  PROVE  /\ d.shared = FALSE /\ d.exec = d.built /\ d.exec \in Seq(Entry)
         /\ d.filename \in Filenames
<1>1. PICK o \in Options, list \in Lists \cup {<<>>} : d = Define(o, list)
  BY DEF Definition
<1>3. ASSUME NEW l
      PROVE  /\ Define(o, l).shared = FALSE /\ Define(o, l).exec = l /\ Define(o, l).built = l
             /\ Define(o, l).filename = Define(o, <<>>).filename
  BY DEF Define, Freeze
<1>4. Define(o, <<>>).filename \in Filenames
  BY DEF Filenames
<1>5. list \in Seq(Entry)
  <2>1. <<>> \in Seq(Entry)
    OBVIOUS
  <2> QED
    BY <1>1, <2>1, SystemdCallsAssumption
<1> QED
  BY <1>1, <1>3, <1>4, <1>5

-----------------------------------------------------------------------------
\* What the application can call, and with what.
LEMMA CallFacts ==
  ASSUME Given, NEW c \in Calls
  PROVE  /\ c.op \in Ops
         /\ c.op \in {"materialize", "enable"} => c.args = units
         /\ c.op \in {"materialize", "enable", "start", "logs"} => c.args \in Seq(Definition)
         /\ c.op = "logs" => c.lines \in LineCounts
<1>1. \A d \in Newest : d \in Definition /\ <<d>> \in Seq(Definition)
  BY DEF Newest, Range, Given
<1>2. \/ c.op \in {"materialize", "enable"} /\ c.args = units
      \/ c.op = "start" /\ \E d \in Newest : c.args = <<d>>
      \/ c.op = "logs" /\ c.lines \in LineCounts /\ \E d \in Newest : c.args = <<d>>
      \/ c.op \in {"query", "notify"}
  BY DEF Calls
<1> QED
  BY <1>1, <1>2 DEF Ops, Given

\* A step of a call leaves the call and the application's definitions alone.
LEMMA StepFrame ==
  ASSUME Step
  PROVE  UNCHANGED <<units, array, call>>
<1>1. CASE MakeDir \/ CheckProgram \/ CheckLine \/ Scan \/ CheckVerdict \/ InferenceFails
           \/ OpenFile \/ FillFile \/ FileFails
  BY <1>1 DEF MakeDir, CheckProgram, CheckLine, Scan, CheckVerdict, InferenceFails, OpenFile,
     FillFile, FileFails, Return, appVars, callVars
<1>2. CASE Collect \/ (\E f \in links : Link(f)) \/ Linked \/ Reload \/ Enable \/ Start \/ Show
  BY <1>2 DEF Collect, Link, Linked, Reload, Enable, Start, Show, Return, appVars
<1>3. CASE PrepareFails \/ StartFails \/ DiagnoseShow \/ DiagnoseStatus
           \/ ReadLog \/ Status \/ Query \/ Notify
  BY <1>3 DEF PrepareFails, StartFails, DiagnoseShow, DiagnoseStatus, ReadLog, Status, Query,
     Notify, Return, appVars
<1> QED
  BY <1>1, <1>2, <1>3 DEF Step

LEMMA GivenStep == Given /\ [Next]_vars => Given'
<1> SUFFICES ASSUME Given, [Next]_vars PROVE Given'
  OBVIOUS
<1>1. ASSUME NEW o \in Options, Build(o) PROVE Given'
  <2>1. Define(o, IF o.suffix = ".service" THEN array ELSE <<>>) \in Definition
    BY DEF Definition, Given
  <2> QED
    BY <1>1, <2>1 DEF Build, Given, diskVars, callVars
<1>2. ASSUME NEW c \in Calls, Invoke(c) PROVE Given'
  BY <1>2, CallFacts DEF Invoke, Given, appVars
<1>3. CASE Step \/ UNCHANGED <<array, units, call>>
  BY <1>3, StepFrame DEF Given
<1>4. ASSUME NEW list \in Lists, Change(list) PROVE Given'
  BY <1>4 DEF Change, Given, callVars
<1> QED
  BY <1>1, <1>2, <1>3, <1>4 DEF Next, Answer, vars, appVars, callVars

\* Stages follow each other as the operation has them.
LEMMA OnStageStep == Given /\ OnStage /\ [Next]_vars => OnStage'
<1> SUFFICES ASSUME Given, OnStage, [Next]_vars PROVE OnStage'
  OBVIOUS
<1> USE DEF OnStage, Writing, Preparing, Starting, Reading, Goto, Return
<1>1. ASSUME NEW c \in Calls, Invoke(c) PROVE OnStage'
  <2>1. c.op \in Ops
    BY CallFacts
  <2> QED
    BY <1>1, <2>1 DEF Invoke, FirstStage, Ops
<1>2. CASE MakeDir \/ CheckProgram \/ CheckLine \/ Scan \/ CheckVerdict \/ InferenceFails
           \/ OpenFile \/ FillFile \/ FileFails
  BY <1>2 DEF MakeDir, CheckProgram, CheckLine, Scan, CheckVerdict, InferenceFails, OpenFile,
     FillFile, FileFails, callVars
<1>3. CASE Collect \/ (\E f \in links : Link(f)) \/ Linked \/ Reload \/ Enable \/ Start \/ Show
  BY <1>3 DEF Collect, Link, Linked, Reload, Enable, Start, Show, Succeeded
<1>4. CASE PrepareFails \/ StartFails \/ DiagnoseShow \/ DiagnoseStatus
           \/ ReadLog \/ Status \/ Query \/ Notify
  BY <1>4 DEF PrepareFails, StartFails, DiagnoseShow, DiagnoseStatus, ReadLog, Status, Query,
     Notify, Failed
<1>5. CASE UNCHANGED <<pc, call, result>>
  BY <1>5
<1> QED
  BY <1>1, <1>2, <1>3, <1>4, <1>5 DEF Next, Step, Build, Change, Answer, callVars, vars

-----------------------------------------------------------------------------
\* What enable() and start() of the current call must have linked.
Required == {d.filename : d \in Range(call.args)} \cup (Present \ unseen)

\* What is required is linked or still to be linked, and linked once the links are made.
Followed ==
  LinkUnits /\ call.op \in {"enable", "start"} =>
    /\ pc = "link" => Required \subseteq linked \cup links
    /\ pc \in {"reload", "enable"} \cup Starting \/ (pc = "idle" /\ result.kind = "ok") =>
         Required \subseteq linked

\* Only a materialize writes files, and only a link links.
LEMMA FilesFrame ==
  ASSUME OnStage, [Next]_vars, pc \notin Writing
  PROVE  files' = files
<1> USE DEF Writing
<1>1. CASE Step
  <2>1. CASE Collect \/ (\E f \in links : Link(f)) \/ Linked \/ Reload \/ Enable \/ Start \/ Show
    BY <2>1 DEF Collect, Link, Linked, Reload, Enable, Start, Show, diskVars
  <2>2. CASE PrepareFails \/ StartFails \/ DiagnoseShow \/ DiagnoseStatus
             \/ ReadLog \/ Status \/ Query \/ Notify
    BY <2>2 DEF PrepareFails, StartFails, DiagnoseShow, DiagnoseStatus, ReadLog, Status, Query,
       Notify, diskVars
  <2> QED
    BY <1>1, <2>1, <2>2 DEF Step, MakeDir, CheckProgram, CheckLine, Scan, CheckVerdict,
       InferenceFails, OpenFile, FillFile, FileFails, diskVars
<1> QED
  BY <1>1 DEF Next, Build, Change, Invoke, Answer, diskVars, vars

LEMMA FollowedStep == Given /\ OnStage /\ Followed /\ [Next]_vars => Followed'
<1> SUFFICES ASSUME Given, OnStage, Followed, [Next]_vars,
                    LinkUnits, call'.op \in {"enable", "start"}
             PROVE  /\ pc' = "link" => Required' \subseteq linked' \cup links'
                    /\ pc' \in {"reload", "enable"} \cup Starting
                         \/ (pc' = "idle" /\ result'.kind = "ok") => Required' \subseteq linked'
  BY DEF Followed, Starting
<1>1. CASE \E c \in Calls : Invoke(c)
  <2>1. PICK c \in Calls : Invoke(c)
    BY <1>1
  <2>2. \/ pc' = "idle" /\ result'.kind = "err"
        \/ pc' = FirstStage(c) /\ c.op \in {"enable", "start"}
    BY <2>1 DEF Invoke, Err
  <2>3. pc' \in {"idle", "collect"} /\ (pc' = "idle" => result'.kind # "ok")
    BY <2>2 DEF FirstStage
  <2> QED
    BY <2>3 DEF Starting
<1>2. CASE call' = call /\ ~(\E c \in Calls : Invoke(c))
  <2> USE <1>2
  <2>1. pc \notin Writing
    BY DEF OnStage
  <2>2. files' = files /\ Present' = Present
    BY <2>1, FilesFrame DEF Present
  <2>3. CASE Collect
    <3>1. PICK seen \in SUBSET Present :
            /\ links' = {d.filename : d \in Range(call.args)} \cup seen
            /\ unseen' = Present \ seen
      BY <2>3 DEF Collect
    <3>2. Required' = links' /\ pc' = "link"
      BY <2>2, <2>3, <3>1 DEF Required, Collect, Goto
    <3> QED
      BY <3>2 DEF Starting
  <2>12. unseen' = unseen => Required' = Required
    BY <2>2 DEF Required
  <2>4. CASE \E f \in links : Link(f)
    <3>1. pc = "link" /\ pc' = "link" /\ linked' \cup links' = linked \cup links
          /\ unseen' = unseen
      BY <2>4 DEF Link, Succeeded, Goto
    <3> QED
      BY <2>12, <3>1 DEF Followed, Starting
  <2>5. CASE Linked
    <3>1. pc = "link" /\ links = {} /\ linked' = linked /\ unseen' = unseen
      BY <2>5 DEF Linked, diskVars
    <3>2. pc' = "reload"
      BY <2>5 DEF Linked, Goto
    <3> QED
      BY <2>12, <3>1, <3>2 DEF Followed
  <2>6. CASE Reload \/ Enable \/ Start \/ Show \/ StartFails \/ DiagnoseShow
    <3>1. pc \in {"reload", "enable"} \cup Starting /\ linked' = linked /\ unseen' = unseen
      BY <2>6 DEF Reload, Enable, Start, Show, StartFails, DiagnoseShow, Succeeded, Failed,
         Starting, diskVars
    <3>2. pc' # "link"
      BY <2>6 DEF Reload, Enable, Start, Show, StartFails, DiagnoseShow, Goto, Return
    <3> QED
      BY <2>12, <3>1, <3>2 DEF Followed
  <2>7. CASE PrepareFails \/ DiagnoseStatus
    <3>1. pc' = "idle" /\ result'.kind = "err"
      BY <2>7 DEF PrepareFails, DiagnoseStatus, Return, Goto, Err
    <3> QED
      BY <3>1 DEF Starting
  <2>8. CASE UNCHANGED <<pc, linked, unseen, links, result>>
    BY <2>8, <2>12 DEF Followed
  <2>9. ~(ReadLog \/ Status \/ Query \/ Notify)
    BY DEF OnStage, Reading, ReadLog, Status, Query, Notify, Succeeded, Failed
  <2>10. ~(MakeDir \/ CheckProgram \/ CheckLine \/ Scan \/ CheckVerdict \/ InferenceFails
             \/ OpenFile \/ FillFile \/ FileFails)
    BY <2>1 DEF Writing, MakeDir, CheckProgram, CheckLine, Scan, CheckVerdict, InferenceFails,
       OpenFile, FillFile, FileFails
  <2>11. (\E o \in Options : Build(o)) \/ (\E list \in Lists : Change(list))
           \/ (\E r \in Replies : Answer(r)) \/ UNCHANGED vars
           => UNCHANGED <<pc, linked, unseen, links, result>>
    BY DEF Build, Change, Answer, diskVars, callVars, vars
  <2> QED
    BY <2>3, <2>4, <2>5, <2>6, <2>7, <2>8, <2>9, <2>10, <2>11 DEF Next, Step
<1>3. call' = call \/ \E c \in Calls : Invoke(c)
  BY StepFrame DEF Next, Build, Change, Answer, callVars, vars
<1> QED
  BY <1>1, <1>2, <1>3


-----------------------------------------------------------------------------
\* Where materialize is in its list, and in the entries of a unit.
Placed ==
  /\ pc \in {"idle", "mkdir"} => at = 1 /\ entry = 1
  /\ pc \in Writing => at \in 1 .. Len(call.args)
  /\ pc = "validate" => entry \in 1 .. Len(Unit.built) + 1
  /\ pc = "scan" => entry \in 1 .. Len(Unit.built)
  /\ DOMAIN files = Filenames

\* The unit at hand is one that was built, and what is checked and rendered of it is
\* what it was built from.
LEMMA UnitFacts ==
  ASSUME Given, OnStage, Placed, pc \in Writing
  PROVE  /\ Unit \in Definition /\ Unit.filename \in Filenames
         /\ Exec(Unit) = Unit.built /\ Unit.built \in Seq(Entry)
<1>1. call.args \in Seq(Definition) /\ at \in 1 .. Len(call.args)
  BY DEF Given, OnStage, Placed
<1>2. Unit \in Definition
  BY <1>1 DEF Unit
<1> QED
  BY <1>2, DefinitionFacts DEF Exec

\* What a stage of materialize does to the place in the list.
LEMMA PlacedStep == Given /\ OnStage /\ Placed /\ [Next]_vars => Placed'
<1> SUFFICES ASSUME Given, OnStage, Placed, [Next]_vars PROVE Placed'
  OBVIOUS
<1> USE DEF Placed, Writing
<1>1. ASSUME NEW c \in Calls, Invoke(c) PROVE Placed'
  <2>1. pc = "idle" /\ call' = c /\ UNCHANGED <<at, entry, files>>
    BY <1>1 DEF Invoke, diskVars
  <2>2. c.op \in Ops
    BY CallFacts
  <2>3. CASE pc' = "idle"
    BY <2>1, <2>3
  <2>4. CASE pc' # "idle"
    <3>1. pc' = FirstStage(c) /\ (c.op = "materialize" => c.args # <<>>)
      BY <1>1, <2>4 DEF Invoke
    <3>2. pc' \notin {"validate", "scan", "fill"} /\ (pc' = "mkdir" => c.op = "materialize")
      BY <2>2, <3>1 DEF FirstStage, Ops
    <3>3. pc' = "mkdir" => c.args \in Seq(Definition) /\ c.args # <<>>
      BY <3>1, <3>2, CallFacts
    <3>4. pc' = "mkdir" => 1 \in 1 .. Len(c.args)
      BY <3>3
    <3> QED
      BY <2>1, <3>2, <3>4
  <2> QED
    BY <2>3, <2>4
<1>2. ASSUME Step, pc \in Writing PROVE Placed'
  <2>1. Unit \in Definition /\ Exec(Unit) = Unit.built /\ Unit.built \in Seq(Entry)
        /\ Unit.filename \in Filenames /\ call' = call
    BY <1>2, UnitFacts, StepFrame
  <2>2. Len(Unit.built) \in Nat /\ Len(call.args) \in Nat
    <3>1. call.args \in Seq(Definition)
      BY <1>2 DEF Given, OnStage
    <3> QED
      BY <2>1, <3>1
  <2>3. ASSUME NEW r, Return(r), UNCHANGED diskVars PROVE Placed'
    BY <2>3 DEF Return, Goto, diskVars
  <2>4. ASSUME call' = call, at' = at PROVE Unit' = Unit
    BY <2>4 DEF Unit
  <2>5. CASE MakeDir
    BY <2>1, <2>2, <2>4, <2>5 DEF MakeDir, Goto, diskVars
  <2>6. CASE CheckProgram \/ CheckVerdict
    <3>1. CASE \E r : Return(r)
      BY <2>3, <2>6, <3>1 DEF CheckProgram, CheckVerdict
    <3>2. CASE ~(\E r : Return(r))
      <4>1. /\ entry \in 1 .. Len(Unit.built) /\ entry' = entry + 1 /\ pc' = "validate"
            /\ UNCHANGED <<call, at, files>>
        BY <2>1, <2>2, <2>6, <3>2 DEF CheckProgram, CheckVerdict, Checked, Goto, diskVars
      <4>2. Unit' = Unit /\ entry + 1 \in 1 .. Len(Unit.built) + 1
        BY <2>2, <2>4, <4>1
      <4> QED
        BY <1>2, <4>1, <4>2
    <3> QED
      BY <3>1, <3>2
  <2>7. CASE CheckLine
    <3>1. /\ entry \in 1 .. Len(Unit.built) /\ UNCHANGED <<call, at, files>>
          /\ \/ entry' = entry + 1 /\ pc' = "validate"
             \/ entry' = entry /\ pc' = "scan"
      BY <2>1, <2>2, <2>7 DEF CheckLine, Checked, diskVars
    <3>2. Unit' = Unit /\ entry + 1 \in 1 .. Len(Unit.built) + 1
      BY <2>2, <2>4, <3>1
    <3> QED
      BY <1>2, <3>1, <3>2
  <2>8. CASE Scan
    BY <2>4, <2>8 DEF Scan, callVars, diskVars
  <2>9. CASE InferenceFails \/ FileFails
    BY <2>3, <2>9 DEF InferenceFails, FileFails
  <2>10. CASE OpenFile
    <3>1. pc' = "fill" /\ DOMAIN files' = Filenames /\ UNCHANGED <<call, at>>
      BY <2>10 DEF OpenFile, Goto
    <3> QED
      BY <1>2, <3>1
  <2>11. CASE FillFile
    <3>1. DOMAIN files' = Filenames
      BY <2>11 DEF FillFile
    <3>2. CASE \E r : Return(r)
      BY <3>1, <3>2 DEF Return, Goto
    <3>3. CASE ~(\E r : Return(r))
      <4>1. /\ pc' = "validate" /\ call' = call /\ entry' = 1
            /\ at' = at + 1 /\ at' \in 1 .. Len(call.args)
        BY <1>2, <2>2, <2>11, <3>3 DEF FillFile, Goto
      <4>2. call.args \in Seq(Definition)
        BY <1>2 DEF Given, OnStage
      <4>3. call.args[at'] \in Definition
        BY <4>1, <4>2
      <4>4. call.args[at'].built \in Seq(Entry)
        BY <4>3, DefinitionFacts
      <4>5. Len(call.args[at'].built) \in Nat /\ Unit' = call.args[at']
        BY <4>1, <4>4 DEF Unit
      <4> QED
        BY <3>1, <4>1, <4>5
    <3> QED
      BY <3>2, <3>3
  <2> QED
    BY <1>2, <2>5, <2>6, <2>7, <2>8, <2>9, <2>10, <2>11 DEF Step,
       Collect, Link, Linked, Reload, Enable, Start, Show, PrepareFails, StartFails,
       DiagnoseShow, DiagnoseStatus, ReadLog, Status, Query, Notify, Succeeded, Failed
<1>3. ASSUME Step, pc \notin Writing PROVE Placed'
  <2>1. files' = files
    BY <1>3, FilesFrame
  <2>3. CASE pc' = "idle"
    <3>1. at' = 1 /\ entry' = 1
      BY <1>3, <2>3 DEF Step, Collect, Link, Linked, Reload, Enable, Start, Show,
         PrepareFails, StartFails, DiagnoseShow, DiagnoseStatus, ReadLog, Status, Query, Notify,
         Goto, Return, OnStage, Ops,
         MakeDir, CheckProgram, CheckLine, Scan, CheckVerdict, InferenceFails, OpenFile,
         FillFile, FileFails
    <3> QED
      BY <2>1, <2>3, <3>1
  <2>4. CASE pc' # "idle"
    <3>1. pc' \notin Writing
      BY <1>3, <2>4 DEF Step, Collect, Link, Linked, Reload, Enable, Start, Show,
         PrepareFails, StartFails, DiagnoseShow, DiagnoseStatus, ReadLog, Status, Query, Notify,
         Goto, Return, OnStage, Preparing, Starting, Reading, Succeeded, Failed,
         MakeDir, CheckProgram, CheckLine, Scan, CheckVerdict, InferenceFails, OpenFile,
         FillFile, FileFails
    <3> QED
      BY <2>1, <2>4, <3>1
  <2> QED
    BY <2>3, <2>4
<1>4. CASE UNCHANGED <<pc, call, at, entry, files>>
  BY <1>4 DEF Unit
<1> QED
  BY <1>1, <1>2, <1>3, <1>4 DEF Next, Build, Change, Answer, callVars, diskVars, vars


-----------------------------------------------------------------------------
\* An entry names an absolute executable, or resets its directive.
Passed(e) ==
  IF e.kind = "program" THEN e.runtime # <<>> /\ Head(e.runtime) = "/" ELSE e.text = <<>> \/ Absolute(e.text)

\* What validateServiceSection() has behind it, and what is being scanned.
Validated ==
  /\ pc \in {"validate", "scan"} => \A i \in 1 .. entry - 1 : Passed(Unit.built[i])
  /\ pc = "scan" => Unit.built[entry].kind = "line" /\ line = Unit.built[entry].text
  /\ pc = "fill" =>
       \A i \in DOMAIN Unit.built :
         /\ Passed(Unit.built[i])
         /\ Unit.built[i].kind = "program" => Unit.built[i].module # Missing

\* The calls use the scanner for command lines only, one at a time.
LEMMA ScannerStep ==
  ASSUME Given, OnStage, Placed, [Next]_vars
  PROVE  \/ UNCHANGED scanVars
         \/ pc = "scan" /\ ScanStep /\ pc' = "scan" /\ call' = call /\ at' = at /\ entry' = entry
         \/ pc = "scan" /\ End
         \/ /\ pc = "validate" /\ pc' = "scan" /\ entry \in 1 .. Len(Unit.built)
            /\ Unit.built[entry].kind = "line" /\ Unit.built[entry].text \in Seq(Chars)
            /\ Begin(Unit.built[entry].text) /\ call' = call /\ at' = at /\ entry' = entry
<1>1. CASE CheckLine /\ ~(UNCHANGED scanVars)
  <2>1. Exec(Unit) = Unit.built /\ Unit.built \in Seq(Entry) /\ pc = "validate"
    BY <1>1, UnitFacts DEF CheckLine, Writing
  <2>2. /\ entry \in 1 .. Len(Unit.built) /\ Unit.built[entry].kind = "line"
        /\ pc' = "scan" /\ Begin(Unit.built[entry].text) /\ UNCHANGED <<call, at, entry>>
    BY <1>1, <2>1 DEF CheckLine, Checked, Placed
  <2>3. Unit.built[entry] \in Entry
    BY <2>1, <2>2
  <2>4. Unit.built[entry].text \in Seq(Chars)
    BY <2>2, <2>3 DEF Entry
  <2> QED
    BY <2>1, <2>2, <2>4
<1>2. CASE Scan \/ CheckVerdict
  BY <1>2 DEF Scan, CheckVerdict, callVars
<1>3. CASE MakeDir \/ CheckProgram \/ InferenceFails \/ OpenFile \/ FillFile \/ FileFails
  BY <1>3 DEF MakeDir, CheckProgram, InferenceFails, OpenFile, FillFile, FileFails
<1>4. CASE Collect \/ (\E f \in links : Link(f)) \/ Linked \/ Reload \/ Enable \/ Start \/ Show
  BY <1>4 DEF Collect, Link, Linked, Reload, Enable, Start, Show
<1>5. CASE PrepareFails \/ StartFails \/ DiagnoseShow \/ DiagnoseStatus
           \/ ReadLog \/ Status \/ Query \/ Notify
  BY <1>5 DEF PrepareFails, StartFails, DiagnoseShow, DiagnoseStatus, ReadLog, Status, Query,
     Notify
<1>6. CASE UNCHANGED vars
  BY <1>6 DEF vars
<1> QED
  BY <1>1, <1>2, <1>3, <1>4, <1>5, <1>6 DEF Next, Step, Build, Change, Invoke, Answer

LEMMA ScanInvStep == Given /\ OnStage /\ Placed /\ ScanInv /\ [Next]_vars => ScanInv'
<1> SUFFICES ASSUME Given, OnStage, Placed, ScanInv, [Next]_vars PROVE ScanInv'
  OBVIOUS
<1>1. CASE UNCHANGED scanVars
  BY <1>1 DEF scanVars, ScanInv, Behind, Barred, ScanDecides
<1>2. CASE ScanStep
  BY <1>2, ScanStepInv
<1>3. CASE End
  <2>1. ScanInit'
    BY <1>3 DEF End, ScanInit
  <2> QED
    BY <2>1, ScanInitInv, PTL
<1>4. ASSUME NEW l \in Seq(Chars), Begin(l) PROVE ScanInv'
  BY <1>4, BeginStep
<1> QED
  BY <1>1, <1>2, <1>3, <1>4, ScannerStep

\* An entry is passed over only when it has passed, and a file is opened only when
\* all have; nothing the application does in between changes what was checked.
LEMMA ValidatedStep ==
  Given /\ OnStage /\ Placed /\ ScanInv /\ Validated /\ [Next]_vars => Validated'
<1> SUFFICES ASSUME Given, OnStage, Placed, ScanInv, Validated, [Next]_vars PROVE Validated'
  OBVIOUS
<1> USE DEF Validated
<1>0. ASSUME pc' \notin {"validate", "scan", "fill"} PROVE Validated'
  BY <1>0
<1>1. ASSUME call' = call, at' = at PROVE Unit' = Unit
  BY <1>1 DEF Unit
<1>2. ASSUME pc \in Writing
      PROVE  /\ Exec(Unit) = Unit.built /\ Unit.built \in Seq(Entry)
             /\ Len(Unit.built) \in Nat /\ DOMAIN Unit.built = 1 .. Len(Unit.built)
  BY <1>2, UnitFacts
<1>3. CASE MakeDir
  <2>1. pc' = "validate" /\ entry' = 1
    BY <1>3 DEF MakeDir, Goto, Placed
  <2> QED
    BY <2>1
<1>4. CASE CheckProgram
  <2>1. CASE \E r : Return(r)
    BY <1>0, <2>1 DEF Return, Goto
  <2>2. CASE ~(\E r : Return(r))
    <3>1. /\ pc = "validate" /\ pc' = "validate" /\ entry' = entry + 1
          /\ UNCHANGED <<call, at>> /\ Passed(Exec(Unit)[entry])
      BY <1>4, <2>2 DEF CheckProgram, Passed
    <3>2. Unit' = Unit /\ Passed(Unit.built[entry]) /\ entry \in 1 .. Len(Unit.built) + 1
      BY <1>1, <1>2, <3>1 DEF Placed, Writing
    <3> QED
      BY <3>1, <3>2
  <2> QED
    BY <2>1, <2>2
<1>5. CASE CheckLine
  <2>1. pc = "validate" /\ Exec(Unit)[entry] = Unit.built[entry] /\ Unit' = Unit
        /\ entry \in 1 .. Len(Unit.built) + 1
    BY <1>1, <1>2, <1>5 DEF CheckLine, Writing, Placed
  <2>2. CASE Unit.built[entry].text = <<>>
    <3>1. pc' = "validate" /\ entry' = entry + 1 /\ Passed(Unit.built[entry])
      BY <1>5, <2>1, <2>2 DEF CheckLine, Passed
    <3> QED
      BY <2>1, <3>1
  <2>3. CASE Unit.built[entry].text # <<>>
    <3>1. pc' = "scan" /\ entry' = entry /\ line' = Unit.built[entry].text
          /\ Unit.built[entry].kind = "line"
      BY <1>5, <2>1, <2>3 DEF CheckLine, Begin
    <3> QED
      BY <2>1, <3>1
  <2> QED
    BY <2>2, <2>3
<1>6. CASE Scan
  <2>1. pc = "scan" /\ pc' = "scan" /\ UNCHANGED <<line, entry, call, at>>
    BY <1>6 DEF Scan, ScanStep, SkipModifier, SkipPrivilege, RefusePrivilege, Settle, callVars
  <2>2. Unit' = Unit
    BY <1>1, <2>1
  <2> QED
    BY <2>1, <2>2
<1>7. CASE CheckVerdict
  <2>1. CASE \E r : Return(r)
    BY <1>0, <2>1 DEF Return, Goto
  <2>2. CASE ~(\E r : Return(r))
    <3>1. /\ pc = "scan" /\ pc' = "validate" /\ entry' = entry + 1 /\ UNCHANGED <<call, at>>
          /\ verdict = "absolute"
      BY <1>7, <2>2 DEF CheckVerdict, Goto, Accepted
    <3>2. Absolute(line)
      BY <3>1 DEF ScanInv, ScanDecides
    <3>3. Unit' = Unit /\ Passed(Unit.built[entry]) /\ entry \in 1 .. Len(Unit.built)
      BY <1>1, <3>1, <3>2 DEF Placed, Passed
    <3> QED
      BY <3>1, <3>3
  <2> QED
    BY <2>1, <2>2
<1>8. CASE OpenFile
  <2>1. /\ pc = "validate" /\ pc' = "fill" /\ UNCHANGED <<call, at>>
        /\ entry > Len(Exec(Unit)) /\ Renders(Unit)
    BY <1>8 DEF OpenFile, Goto, Checked
  <2>2. Unit' = Unit /\ Exec(Unit) = Unit.built /\ Len(Unit.built) \in Nat
        /\ DOMAIN Unit.built = 1 .. Len(Unit.built)
    BY <1>1, <1>2, <2>1 DEF Writing
  <2>3. entry - 1 = Len(Unit.built)
    BY <2>1, <2>2 DEF Placed
  <2>4. \A i \in DOMAIN Unit.built :
          Unit.built[i].kind = "program" => Unit.built[i].module # Missing
    BY <2>1, <2>2 DEF Renders, InferenceError
  <2> QED
    BY <2>1, <2>2, <2>3, <2>4
<1>9. CASE FillFile
  <2>1. pc' \in {"validate", "idle"} /\ (pc' = "validate" => entry' = 1)
    BY <1>9 DEF FillFile, Goto, Return
  <2> QED
    BY <2>1
<1>10. CASE InferenceFails \/ FileFails
  BY <1>0, <1>10 DEF InferenceFails, FileFails, Return, Goto
<1>11. ASSUME Step, pc \notin Writing PROVE pc' \notin Writing
  BY <1>11 DEF Step, Collect, Link, Linked, Reload, Enable, Start, Show,
     PrepareFails, StartFails, DiagnoseShow, DiagnoseStatus, ReadLog, Status, Query, Notify,
     Goto, Return, OnStage, Succeeded, Failed, MakeDir, CheckProgram, CheckLine, Scan,
     CheckVerdict, InferenceFails, OpenFile, FillFile, FileFails, Writing
<1>12. ASSUME Step, pc \in Writing
       PROVE  MakeDir \/ CheckProgram \/ CheckLine \/ Scan \/ CheckVerdict \/ InferenceFails
                \/ OpenFile \/ FillFile \/ FileFails
  BY <1>12 DEF Step, Collect, Link, Linked, Reload, Enable, Start, Show,
     PrepareFails, StartFails, DiagnoseShow, DiagnoseStatus, ReadLog, Status, Query, Notify,
     Succeeded, Failed, Writing
<1>13. CASE Step
  BY <1>0, <1>3, <1>4, <1>5, <1>6, <1>7, <1>8, <1>9, <1>10, <1>11, <1>12, <1>13 DEF Writing
<1>14. ASSUME NEW c \in Calls, Invoke(c) PROVE Validated'
  <2>1. c.op \in Ops
    BY CallFacts
  <2>2. pc' = "idle" \/ pc' = FirstStage(c)
    BY <1>14 DEF Invoke
  <2> QED
    BY <1>0, <2>1, <2>2 DEF FirstStage, Ops
<1>15. CASE UNCHANGED <<pc, call, at, entry, line>>
  <2>1. Unit' = Unit
    BY <1>1, <1>15
  <2> QED
    BY <1>15, <2>1
<1> QED
  BY <1>13, <1>14, <1>15 DEF Next, Build, Change, Answer, callVars, scanVars, vars


-----------------------------------------------------------------------------
\* The file of d as materialize is to leave it.
WholeFile(d) == [text |-> BuiltText(d), state |-> "whole"]

\* No unit of the call after i, up to n, has the filename of i.
LastOf(i, n) == \A j \in i + 1 .. n : call.args[j].filename # call.args[i].filename

\* The first m units are written, but those whose file a later one, up to n, has.
Written(m, n) ==
  \A i \in 1 .. m : LastOf(i, n) => files[call.args[i].filename] = WholeFile(call.args[i])

\* The units before the one at hand are written; its file is torn while it is filled.
Progress ==
  /\ pc \in {"validate", "scan"} => Written(at - 1, at - 1)
  /\ pc = "fill" =>
       /\ files[Unit.filename] = [text |-> BuiltText(Unit), state |-> "torn"]
       /\ Written(at - 1, at)
  /\ Done("materialize") => Written(Len(call.args), Len(call.args))

\* A file that stays leaves what was written as it was.
LEMMA WrittenSame ==
  ASSUME NEW m, NEW n, Written(m, n), call' = call, files' = files
  PROVE  Written(m, n)'
BY DEF Written, LastOf

LEMMA OpenProgress ==
  ASSUME Given, OnStage, Placed, Progress, OpenFile
  PROVE  Progress'
<1>1. /\ pc = "validate" /\ pc' = "fill" /\ UNCHANGED <<call, at>>
      /\ files' = [files EXCEPT ![Unit.filename] =
           [text |-> RenderUnitFile(Unit, Exec(Unit)), state |-> "torn"]]
  BY DEF OpenFile, Goto
<1>2. /\ Unit.filename \in DOMAIN files /\ Exec(Unit) = Unit.built /\ Unit' = Unit
      /\ at \in Nat \ {0} /\ at \in 1 .. Len(call.args)
  BY <1>1, UnitFacts DEF Writing, Placed, Unit
<1> DEFINE torn == [text |-> BuiltText(Unit), state |-> "torn"]
<1>3. files' = [files EXCEPT ![Unit.filename] = torn]
  BY <1>1, <1>2 DEF BuiltText
<1> HIDE DEF torn
<1>4. files'[Unit.filename] = torn /\ \A f : f # Unit.filename /\ f \in DOMAIN files => files'[f] = files[f]
  BY <1>2, <1>3
<1>5. Written(at - 1, at)'
  <2> SUFFICES ASSUME NEW i \in 1 .. at - 1, LastOf(i, at)
               PROVE  files'[call.args[i].filename] = WholeFile(call.args[i])
    BY <1>1 DEF Written, LastOf, WholeFile
  <2>1. at \in i + 1 .. at /\ \A j \in i + 1 .. at - 1 : j \in i + 1 .. at
    BY <1>2
  <2>2. LastOf(i, at - 1) /\ call.args[i].filename # Unit.filename
    BY <2>1 DEF LastOf, Unit
  <2>3. files[call.args[i].filename] = WholeFile(call.args[i])
    BY <1>1, <2>2 DEF Progress, Written
  <2>4. call.args[i].filename \in DOMAIN files
    <3>1. call.args \in Seq(Definition) /\ i \in 1 .. Len(call.args)
      BY <1>1, <1>2 DEF Given, OnStage, Writing
    <3>2. call.args[i] \in Definition
      BY <3>1
    <3> QED
      BY <3>2, DefinitionFacts DEF Placed
  <2> QED
    BY <1>4, <2>2, <2>3, <2>4
<1> QED
  BY <1>1, <1>2, <1>4, <1>5 DEF Progress, Done, torn

LEMMA FillProgress ==
  ASSUME Given, OnStage, Placed, Progress, FillFile
  PROVE  Progress'
<1>1. /\ pc = "fill" /\ call' = call
      /\ files' = [files EXCEPT ![Unit.filename].state = "whole"]
      /\ \/ pc' = "validate" /\ at' = at + 1 /\ at < Len(call.args)
         \/ pc' = "idle" /\ at = Len(call.args)
  BY DEF FillFile, Goto, Return
<1>2. /\ Unit.filename \in DOMAIN files /\ at \in Nat \ {0} /\ at \in 1 .. Len(call.args)
  BY <1>1, UnitFacts DEF Writing, Placed
<1>3. files[Unit.filename] = [text |-> BuiltText(Unit), state |-> "torn"]
  BY <1>1 DEF Progress
<1>4. /\ files'[Unit.filename] = WholeFile(Unit)
      /\ \A f : f # Unit.filename /\ f \in DOMAIN files => files'[f] = files[f]
  <2>1. files'[Unit.filename] = [files[Unit.filename] EXCEPT !.state = "whole"]
    BY <1>1, <1>2
  <2>2. [[text |-> BuiltText(Unit), state |-> "torn"] EXCEPT !.state = "whole"] = WholeFile(Unit)
    BY DEF WholeFile
  <2> QED
    BY <1>1, <1>2, <1>3, <2>1, <2>2
<1>5. PICK m \in Nat \ {0} : m = at
  BY <1>2
<1>6. Written(m, m)'
  <2> SUFFICES ASSUME NEW i \in 1 .. m, LastOf(i, m)
               PROVE  files'[call.args[i].filename] = WholeFile(call.args[i])
    BY <1>1 DEF Written, LastOf, WholeFile
  <2>1. CASE i = m
    BY <1>4, <1>5, <2>1 DEF Unit
  <2>2. CASE i # m
    <3>1. i \in 1 .. m - 1 /\ m \in i + 1 .. m
      BY <1>5, <2>2
    <3>2. call.args[i].filename # Unit.filename
      BY <1>5, <3>1 DEF LastOf, Unit
    <3>3. files[call.args[i].filename] = WholeFile(call.args[i])
      BY <1>1, <1>5, <3>1 DEF Progress, Written
    <3>4. call.args[i].filename \in DOMAIN files
      <4>1. call.args \in Seq(Definition) /\ i \in 1 .. Len(call.args)
        BY <1>1, <1>2, <1>5 DEF Given, OnStage, Writing
      <4>2. call.args[i] \in Definition
        BY <4>1
      <4> QED
        BY <4>2, DefinitionFacts DEF Placed
    <3> QED
      BY <1>4, <3>2, <3>3, <3>4
  <2> QED
    BY <2>1, <2>2
<1>7. CASE pc' = "validate"
  <2>1. at' - 1 = m
    BY <1>1, <1>5, <1>7
  <2> QED
    BY <1>6, <1>7, <2>1 DEF Progress, Done, Written, LastOf
<1>8. CASE pc' = "idle"
  <2>1. Len(call.args)' = m
    BY <1>1, <1>5, <1>8
  <2> QED
    BY <1>6, <1>8, <2>1 DEF Progress, Done, Written, LastOf
<1> QED
  BY <1>1, <1>7, <1>8

\* What a materialize has written stays until it has a result, and afterwards.
LEMMA ProgressStep == Given /\ OnStage /\ Placed /\ Progress /\ [Next]_vars => Progress'
<1> SUFFICES ASSUME Given, OnStage, Placed, Progress, [Next]_vars PROVE Progress'
  OBVIOUS
<1>1. CASE OpenFile \/ FillFile
  BY <1>1, OpenProgress, FillProgress
<1>2. ASSUME pc' \notin {"validate", "scan", "fill"}, result'.kind # "ok" \/ call'.op # "materialize"
      PROVE  Progress'
  BY <1>2 DEF Progress, Done
<1>3. CASE MakeDir
  <2>1. pc' = "validate" /\ at' - 1 = 0
    BY <1>3 DEF MakeDir, Goto, Placed
  <2> QED
    BY <2>1 DEF Progress, Done, Written
<1>4. CASE CheckProgram \/ CheckLine \/ Scan \/ CheckVerdict
  <2>1. CASE \E e : Return(Err(e))
    BY <1>2, <2>1 DEF Return, Goto, Err
  <2>2. CASE ~(\E e : Return(Err(e)))
    <3>1. pc \in {"validate", "scan"} /\ pc' \in {"validate", "scan"}
          /\ UNCHANGED <<call, at, files>>
      BY <1>4, <2>2 DEF CheckProgram, CheckLine, Scan, CheckVerdict, Goto, diskVars, callVars
    <3>2. PICK m : m = at - 1
      OBVIOUS
    <3>3. Written(m, m)'
      BY <3>1, <3>2, WrittenSame DEF Progress
    <3> QED
      BY <3>1, <3>2, <3>3 DEF Progress, Done, Written, LastOf
  <2> QED
    BY <2>1, <2>2
<1>5. CASE InferenceFails \/ FileFails
  BY <1>2, <1>5 DEF InferenceFails, FileFails, Return, Goto, Err
<1>6. ASSUME Step, pc \notin Writing PROVE Progress'
  <2>1. call' = call /\ pc # "idle"
    BY <1>6, StepFrame DEF Step, Collect, Link, Linked, Reload, Enable, Start, Show,
       PrepareFails, StartFails, DiagnoseShow, DiagnoseStatus, ReadLog, Status, Query, Notify,
       Succeeded, Failed, MakeDir, CheckProgram, CheckLine, Scan, CheckVerdict, InferenceFails,
       OpenFile, FillFile, FileFails
  <2>2. call.op # "materialize"
    BY <1>6, <2>1 DEF OnStage, Writing, Preparing, Starting, Reading
  <2>3. (OnStage /\ Given)'
    BY OnStageStep, GivenStep
  <2>4. pc' \notin Writing
    BY <2>1, <2>2, <2>3 DEF OnStage
  <2> QED
    BY <1>2, <2>1, <2>2, <2>4 DEF Writing
<1>7. ASSUME NEW c \in Calls, Invoke(c) PROVE Progress'
  <2>1. c.op \in Ops
    BY CallFacts
  <2>2. /\ pc' = "idle" \/ pc' = FirstStage(c)
        /\ result'.kind # "ok"
    BY <1>7 DEF Invoke, Err, NoResult, None
  <2> QED
    BY <1>2, <2>1, <2>2 DEF FirstStage, Ops
<1>8. CASE UNCHANGED <<pc, call, at, result, files>>
  <2>1. Unit' = Unit /\ BuiltText(Unit)' = BuiltText(Unit)
    BY <1>8 DEF Unit, BuiltText
  <2> QED
    BY <1>8, <2>1 DEF Progress, Done, Written, LastOf
<1>9. ASSUME Step, pc \in Writing
      PROVE  MakeDir \/ CheckProgram \/ CheckLine \/ Scan \/ CheckVerdict \/ InferenceFails
               \/ OpenFile \/ FillFile \/ FileFails
  BY <1>9 DEF Step, Collect, Link, Linked, Reload, Enable, Start, Show,
     PrepareFails, StartFails, DiagnoseShow, DiagnoseStatus, ReadLog, Status, Query, Notify,
     Succeeded, Failed, Writing
<1>10. CASE Step
  BY <1>1, <1>3, <1>4, <1>5, <1>6, <1>9, <1>10
<1> QED
  BY <1>7, <1>8, <1>10 DEF Next, Build, Change, Answer, callVars, diskVars, vars

-----------------------------------------------------------------------------
\* An error of a command says of the environment and of the output what the command
\* threw itself.
Own(e) ==
  "cause" \in DOMAIN e =>
    /\ e.environmentReason = Reason(Root(e))
    /\ <<e.stdout, e.stderr>> = <<Root(e).stdout, Root(e).stderr>>

\* An error of start() that goes back to an answer.
Thrown(e) ==
  \E stage \in {"start", "show"}, r \in Replies :
    e = Wrap(Code("start"), stage, SystemctlError(stage, r))

\* What commands have answered, and what has been made of it.
Caused ==
  /\ reply \in Replies \cup {Waiting}
  /\ pc \in {"diagShow", "diagStatus"} => Thrown(failed)
  /\ result.kind = "err" /\ call.op # "logs" => Own(result.error)

\* What a command answers has no cause of its own.
LEMMA OwnCommand ==
  ASSUME NEW r \in Replies \cup {Waiting}, NEW code, NEW stage
  PROVE  Own(CommandError(code, stage, r, None))
<1>1. PICK ok, error, stdout, stderr : r = Reply(ok, error, stdout, stderr)
  BY DEF Replies, Waiting
<1>2. DOMAIN r = {"ok", "code", "stdout", "stderr"}
  BY <1>1 DEF Reply
<1>3. Root(CommandError(code, stage, r, None)) = r
  BY <1>2 DEF Root, CommandError
<1> QED
  BY <1>3 DEF Own, CommandError

\* A second error around the first one hides nothing of it: what the first one could
\* not tell from the answer, the second cannot tell from the first.
LEMMA OwnWrap ==
  ASSUME NEW r, NEW code, NEW stage
  PROVE  LET e == Wrap(code, stage, SystemctlError(stage, r))
         IN  /\ e.environmentReason = Reason(r) /\ e.cause.cause = r
             /\ e.stdout = r.stdout /\ e.stderr = r.stderr
             /\ "cause" \in DOMAIN e.cause
<1> DEFINE s == SystemctlError(stage, r)
<1>1. /\ s.code = "SYSTEMD_TS_SYSTEMCTL" /\ s.cause = r /\ s.environmentReason = Reason(r)
      /\ s.stdout = r.stdout /\ s.stderr = r.stderr /\ "cause" \in DOMAIN s
  BY DEF SystemctlError, CommandError
<1>2. Reason(r) = None => Reason(s) = None
  BY <1>1 DEF Reason, None
<1> HIDE DEF s
<1> QED
  BY <1>1, <1>2 DEF Wrap, CommandError, s

\* What no command caused is not asked for its cause.
LEMMA OwnPlain ==
  ASSUME NEW code, NEW reason
  PROVE  Own(PlainError(code, reason))
BY DEF Own, PlainError

LEMMA OwnErrors ==
  ASSUME NEW r \in Replies, NEW code, NEW stage, NEW found
  PROVE  /\ Own(Wrap(code, stage, SystemctlError(stage, r)))
         /\ Own(Diagnosed(Wrap(code, stage, SystemctlError(stage, r)), found))
<1> DEFINE e == Wrap(code, stage, SystemctlError(stage, r))
<1>1. /\ e.environmentReason = Reason(r) /\ e.cause.cause = r
      /\ e.stdout = r.stdout /\ e.stderr = r.stderr /\ "cause" \in DOMAIN e.cause
  BY OwnWrap
<1> HIDE DEF e
<1>3. Own(e)
  BY <1>1 DEF Own, Root
<1>4. Own(Diagnosed(e, found))
  BY <1>1 DEF Own, Root, Diagnosed
<1> QED
  BY <1>3, <1>4 DEF e

\* Every error a call comes back with is of one of these kinds.
LEMMA CausedStep == Given /\ OnStage /\ Caused /\ [Next]_vars => Caused'
<1> SUFFICES ASSUME Given, OnStage, Caused, [Next]_vars PROVE Caused'
  OBVIOUS
<1>1. reply' \in Replies \cup {Waiting}
  <2>1. CASE MakeDir \/ CheckProgram \/ CheckLine \/ Scan \/ CheckVerdict \/ InferenceFails
             \/ OpenFile \/ FillFile \/ FileFails
    BY <2>1 DEF MakeDir, CheckProgram, CheckLine, Scan, CheckVerdict, InferenceFails,
       OpenFile, FillFile, FileFails, Return, Goto, Caused, callVars
  <2>2. CASE Collect \/ (\E f \in links : Link(f)) \/ Linked \/ Reload \/ Enable \/ Start \/ Show
    BY <2>2 DEF Collect, Link, Linked, Reload, Enable, Start, Show, Return, Goto
  <2>3. CASE PrepareFails \/ StartFails \/ DiagnoseShow \/ DiagnoseStatus
             \/ ReadLog \/ Status \/ Query \/ Notify
    BY <2>3 DEF PrepareFails, StartFails, DiagnoseShow, DiagnoseStatus, ReadLog, Status, Query,
       Notify, Return, Goto
  <2> QED
    BY <2>1, <2>2, <2>3 DEF Next, Step, Build, Change, Invoke, Answer, Caused, callVars, vars
<1>2. pc' \in {"diagShow", "diagStatus"} => Thrown(failed')
  <2>1. CASE StartFails
    BY <2>1 DEF StartFails, Failed, Thrown, Caused
  <2>2. CASE DiagnoseShow
    BY <2>2 DEF DiagnoseShow, Caused
  <2>3. CASE UNCHANGED <<pc, failed>>
    BY <2>3 DEF Caused
  <2>4. CASE \E c \in Calls : Invoke(c)
    <3>1. PICK c \in Calls : Invoke(c)
      BY <2>4
    <3>2. c.op \in Ops
      BY CallFacts
    <3> QED
      BY <3>1, <3>2 DEF Invoke, FirstStage, Ops
  <2>5. CASE MakeDir \/ CheckProgram \/ CheckLine \/ Scan \/ CheckVerdict \/ InferenceFails
             \/ OpenFile \/ FillFile \/ FileFails
    BY <2>5 DEF MakeDir, CheckProgram, CheckLine, Scan, CheckVerdict, InferenceFails,
       OpenFile, FillFile, FileFails, Return, Goto, callVars
  <2>6. CASE Collect \/ (\E f \in links : Link(f)) \/ Linked \/ Reload \/ Enable \/ Start \/ Show
             \/ PrepareFails \/ DiagnoseStatus \/ ReadLog \/ Status \/ Query \/ Notify
    BY <2>6 DEF Collect, Link, Linked, Reload, Enable, Start, Show, PrepareFails, DiagnoseStatus,
       ReadLog, Status, Query, Notify, Return, Goto, Succeeded, OnStage, Preparing, Starting
  <2> QED
    BY <2>1, <2>2, <2>3, <2>4, <2>5, <2>6 DEF Next, Step, Build, Change, Answer, callVars, vars
<1>3. result'.kind = "err" /\ call'.op # "logs" => Own(result'.error)
  <2> SUFFICES ASSUME result'.kind = "err", call'.op # "logs" PROVE Own(result'.error)
    OBVIOUS
  <2>1. ASSUME NEW code, NEW reason, result' = Err(PlainError(code, reason))
        PROVE  Own(result'.error)
    BY <2>1, OwnPlain DEF Err
  <2>2. CASE UNCHANGED <<call, result>>
    BY <2>2 DEF Caused
  <2>3. ASSUME Step, pc \in Writing PROVE Own(result'.error)
    <3>1. CASE \E code, reason : result' = Err(PlainError(code, reason))
      BY <2>1, <3>1
    <3>2. CASE ~ \E code, reason : result' = Err(PlainError(code, reason))
      <4>1. ~(CheckProgram /\ result' # result) /\ ~(CheckVerdict /\ result' # result)
            /\ ~InferenceFails /\ ~FileFails
        BY <3>2 DEF CheckProgram, CheckVerdict, InferenceFails, FileFails, Return
      <4>2. ~(FillFile /\ result' # result)
        BY DEF FillFile, Return, Ok
      <4>3. result' = result
        BY <2>3, <4>1, <4>2 DEF Step, MakeDir, CheckLine, Scan, OpenFile, callVars,
           Collect, Link, Linked, Reload, Enable, Start, Show, PrepareFails, StartFails,
           DiagnoseShow, DiagnoseStatus, ReadLog, Status, Query, Notify, Succeeded, Failed, Writing
      <4> QED
        BY <2>2, <2>3, <4>3, StepFrame
    <3> QED
      BY <3>1, <3>2
  <2>4. CASE PrepareFails
    <3>1. PICK stage : /\ Failed(stage)
                       /\ result' = Err(Wrap(Code(call.op), stage, SystemctlError(stage, reply)))
      BY <2>4 DEF PrepareFails, Return
    <3>2. reply \in Replies
      BY <3>1 DEF Failed, Caused
    <3> QED
      BY <3>1, <3>2, OwnErrors DEF Err
  <2>5. CASE DiagnoseStatus
    <3>1. result' = Err(Diagnosed(failed, [notes EXCEPT !.status = BestEffort]))
      BY <2>5 DEF DiagnoseStatus, Return
    <3>2. PICK stage \in {"start", "show"}, r \in Replies :
              failed = Wrap(Code("start"), stage, SystemctlError(stage, r))
      BY <2>5 DEF DiagnoseStatus, Caused, Thrown
    <3> QED
      BY <3>1, <3>2, OwnErrors DEF Err
  <2>6. CASE Query
    <3>1. CASE result' = Err(SystemctlError(call.form, reply))
      BY <3>1, OwnCommand DEF Caused, Err, SystemctlError
    <3>2. CASE result' = QueryResult(call.form)
      <4>1. result' = Err(PlainError("SYSTEMD_TS_SYSTEMCTL", "invalid-json"))
        BY <3>2 DEF QueryResult, Ok
      <4> QED
        BY <2>1, <4>1
    <3> QED
      BY <2>6, <3>1, <3>2 DEF Query, Return
  <2>7. CASE Notify
    <3>1. result' = Err(CommandError("SYSTEMD_TS_NOTIFY_SEND", call.sender, reply, None))
      BY <2>7 DEF Notify, Return, Ok
    <3> QED
      BY <3>1, OwnCommand DEF Caused, Err
  <2>8. CASE ReadLog \/ Status
    <3>1. call' = call /\ pc \in Reading
      BY <2>8 DEF ReadLog, Status, Return, Reading
    <3> QED
      BY <3>1 DEF OnStage
  <2>9. CASE \E c \in Calls : Invoke(c)
    BY <2>1, <2>9 DEF Invoke, NoResult, None
  <2>10. CASE Collect \/ (\E f \in links : Link(f)) \/ Linked \/ Reload \/ Start
              \/ StartFails \/ DiagnoseShow
    BY <2>2, <2>10 DEF Collect, Link, Linked, Reload, Start, StartFails, DiagnoseShow
  <2>11. CASE Enable \/ Show
    BY <2>2, <2>11 DEF Enable, Show, Return, Ok
  <2>12. CASE pc \notin Writing
    BY <2>2, <2>4, <2>5, <2>6, <2>7, <2>8, <2>9, <2>10, <2>11, <2>12
       DEF Next, Step, Build, Change, Answer, callVars, vars, Writing, MakeDir, CheckProgram,
       CheckLine, Scan, CheckVerdict, InferenceFails, OpenFile, FillFile, FileFails
  <2> QED
    BY <2>2, <2>3, <2>9, <2>12 DEF Next, Build, Change, Answer, callVars, vars
<1> QED
  BY <1>1, <1>2, <1>3 DEF Caused

-----------------------------------------------------------------------------
\* A start that failed has notes of its first diagnostic before the second ends, and
\* no other stage has any.
Noted ==
  /\ pc # "diagStatus" => notes = NoNotes
  /\ pc = "diagStatus" => notes = [show |-> notes.show, status |-> <<>>]

LEMMA NotedStep == Given /\ OnStage /\ Noted /\ [Next]_vars => Noted'
<1> SUFFICES ASSUME Given, OnStage, Noted, [Next]_vars PROVE Noted'
  OBVIOUS
<1> USE DEF Noted
<1>1. CASE DiagnoseShow
  BY <1>1 DEF DiagnoseShow, Goto, NoNotes
<1>2. CASE UNCHANGED <<pc, notes>>
  BY <1>2
<1>3. CASE \E c \in Calls : Invoke(c)
  <2>1. PICK c \in Calls : Invoke(c)
    BY <1>3
  <2>2. c.op \in Ops
    BY CallFacts
  <2> QED
    BY <2>1, <2>2 DEF Invoke, FirstStage, Ops
<1>4. CASE MakeDir \/ CheckProgram \/ CheckLine \/ Scan \/ CheckVerdict \/ InferenceFails
           \/ OpenFile \/ FillFile \/ FileFails
  BY <1>4 DEF MakeDir, CheckProgram, CheckLine, Scan, CheckVerdict, InferenceFails,
     OpenFile, FillFile, FileFails, Return, Goto, callVars
<1>5. CASE Collect \/ (\E f \in links : Link(f)) \/ Linked \/ Reload \/ Enable \/ Start \/ Show
           \/ PrepareFails \/ StartFails \/ DiagnoseStatus \/ ReadLog \/ Status \/ Query \/ Notify
  BY <1>5 DEF Collect, Link, Linked, Reload, Enable, Start, Show, PrepareFails, StartFails,
     DiagnoseStatus, ReadLog, Status, Query, Notify, Return, Goto, Succeeded, Failed, OnStage,
     Preparing, Starting
<1> QED
  BY <1>1, <1>2, <1>3, <1>4, <1>5 DEF Next, Step, Build, Change, Answer, callVars, vars

-----------------------------------------------------------------------------
\* The strings of an output are its two streams, but for those that are empty.
LEMMA JoinRange ==
  ASSUME NEW out
  PROVE  Range(JoinCommandOutput(out)) = {out.stdout, out.stderr} \ {""}
<1> DEFINE NonEmpty(s) == IF s = "" THEN <<>> ELSE <<s>>
<1>1. JoinCommandOutput(out) = NonEmpty(out.stdout) \o NonEmpty(out.stderr)
  BY DEF JoinCommandOutput
<1>2. ASSUME NEW a, NEW b
      PROVE  Range(NonEmpty(a) \o NonEmpty(b)) = {a, b} \ {""}
  <2>1. <<>> \in Seq({a, b}) /\ <<a>> \in Seq({a, b}) /\ <<b>> \in Seq({a, b})
    OBVIOUS
  <2>2. <<>> \o <<>> = <<>> /\ <<a>> \o <<>> = <<a>> /\ <<>> \o <<b>> = <<b>>
    BY <2>1
  <2>3. Range(<<>>) = {} /\ Range(<<a>>) = {a} /\ Range(<<b>>) = {b}
    <3>1. DOMAIN <<>> = {} /\ \A c : DOMAIN <<c>> = {1} /\ <<c>>[1] = c
      OBVIOUS
    <3> QED
      BY <3>1, Zenon DEF Range
  <2>4. Range(<<a>> \o <<b>>) = {a, b}
    BY <2>1 DEF Range
  <2> QED
    BY <2>2, <2>3, <2>4
<1> QED
  BY <1>1, <1>2

\* What is kept of a command is all that was heard of it, however it ended.
LEMMA BestEffortFacts ==
  ASSUME reply \in Replies
  PROVE  /\ Range(BestEffort) = Heard(reply)
         /\ Heard(reply) # {} => ExtractCommandOutput(reply) # NoOutput
<1> DEFINE out == ExtractCommandOutput(reply)
<1>1. CASE reply.stdout = None /\ reply.stderr = None
  <2>1. out = NoOutput /\ Heard(reply) = {}
    BY <1>1 DEF ExtractCommandOutput, Heard
  <2> QED
    BY <2>1 DEF BestEffort, Range
<1>2. CASE ~(reply.stdout = None /\ reply.stderr = None)
  <2>1. /\ out.stdout = (IF reply.stdout = None THEN "" ELSE reply.stdout)
        /\ out.stderr = (IF reply.stderr = None THEN "" ELSE reply.stderr)
        /\ out.stdout # None /\ out.stderr # None
    BY <1>2 DEF ExtractCommandOutput, None
  <2>2. out # NoOutput
    <3>1. NoOutput.stdout = None
      BY DEF NoOutput
    <3> HIDE DEF out
    <3> QED
      BY <2>1, <3>1
  <2>3. Range(JoinCommandOutput(out)) = {out.stdout, out.stderr} \ {""}
    BY JoinRange
  <2>4. {out.stdout, out.stderr} \ {""} = Heard(reply)
    BY <2>1 DEF Heard, None
  <2> QED
    BY <2>2, <2>3, <2>4 DEF BestEffort
<1> QED
  BY <1>1, <1>2

\* The lines asked for are the last ones, and no more than there are.
LEMMA TailFacts ==
  ASSUME NEW s \in Seq(STRING), NEW n \in Nat
  PROVE  /\ IsSuffix(TailLines(s, n), s)
         /\ n > 0 => Len(TailLines(s, n)) <= n
<1> DEFINE k == IF n = 0 \/ n >= Len(s) THEN 1 ELSE Len(s) - n + 1
           t == SubSeq(s, k, Len(s))
<1>1. Len(s) \in Nat /\ k \in 1 .. Len(s) + 1
  OBVIOUS
<1>2. TailLines(s, n) = t
  <2>1. SubSeq(s, 1, Len(s)) = s
    OBVIOUS
  <2> QED
    BY <2>1 DEF TailLines, LastN
<1> HIDE DEF k
<1>3. /\ t \in Seq(STRING) /\ Len(t) = Len(s) - k + 1
      /\ \A i \in 1 .. Len(t) : t[i] = s[k + i - 1]
  BY <1>1
<1>4. n > 0 => Len(t) <= n
  BY <1>1, <1>3 DEF k
<1> HIDE DEF t
<1>5. Len(Reverse(t)) = Len(t) /\ Len(Reverse(s)) = Len(s) /\ Len(t) <= Len(s)
  BY <1>1, <1>3 DEF Reverse
<1>6. \A i \in 1 .. Len(t) : Reverse(t)[i] = Reverse(s)[i]
  BY <1>1, <1>3 DEF Reverse
<1>7. Reverse(t) \in Seq(STRING) /\ Reverse(s) \in Seq(STRING)
  <2>1. ASSUME NEW q \in Seq(STRING)
        PROVE  Reverse(q) \in Seq(STRING)
    <3>1. Len(q) \in Nat /\ \A i \in 1 .. Len(q) : q[Len(q) - i + 1] \in STRING
      OBVIOUS
    <3> QED
      BY <3>1 DEF Reverse
  <2> QED
    BY <1>3, <2>1
<1>8. SubSeq(Reverse(t), 1, Len(t)) = SubSeq(Reverse(s), 1, Len(t))
  BY <1>3, <1>5, <1>6, <1>7
<1> QED
  BY <1>2, <1>4, <1>5, <1>8 DEF IsSuffix, IsPrefix

-----------------------------------------------------------------------------
\* All of it: what each part needs of the others is above it.
Inv ==
  Given /\ OnStage /\ Placed /\ ScanInv /\ Validated /\ Followed /\ Progress /\ Caused /\ Noted

LEMMA InvInit == Init => Inv
<1> SUFFICES ASSUME Init PROVE Inv
  OBVIOUS
<1>1. Given /\ OnStage
  <2>1. <<>> \in Seq(Definition) /\ call.op = "none"
    BY DEF Init, None
  <2> QED
    BY <2>1 DEF Init, Given, OnStage, Writing, Preparing, Starting, Reading
<1>2. Placed /\ Validated
  BY DEF Init, Placed, Validated, Writing
<1>3. ScanInv
  BY ScanInitInv DEF Init
<1>4. Followed
  BY DEF Init, Followed, Starting, NoResult, None
<1>5. Progress
  BY DEF Init, Progress, Done, NoResult, None
<1>6. Caused /\ Noted
  BY DEF Init, Caused, Noted, NoResult, None
<1> QED
  BY <1>1, <1>2, <1>3, <1>4, <1>5, <1>6 DEF Inv

\* A call is always where its operation can be, with everything behind it that its
\* result promises (systemd.ts, systemctl.ts, notify.ts), for any definitions and calls.
THEOREM InvCorrect == Spec => []Inv
<1>1. Inv /\ [Next]_vars => Inv'
  BY GivenStep, OnStageStep, PlacedStep, ScanInvStep, ValidatedStep, FollowedStep, ProgressStep,
     CausedStep, NotedStep DEF Inv
<1> QED
  BY InvInit, <1>1, PTL DEF Spec

\* The scan materialize() makes of a command line decides Absolute, whatever the
\* application and the other calls do while it waits for its files.
THEOREM DecidesCorrect == Spec => []ScanDecides
<1>1. Inv => ScanDecides
  BY DEF Inv, ScanInv
<1> QED
  BY <1>1, InvCorrect, PTL

\* What materialize() opens a file for: entries that have each passed the check and
\* can be rendered, printed as they were when the definition was built.
OnlyPassedWritten ==
  pc = "fill" =>
    \A d \in {Unit} : d.suffix # ".timer" =>
      \A i \in DOMAIN d.built :
        /\ Passed(d.built[i])
        /\ d.built[i].kind = "program" => d.built[i].module # Missing
        /\ files[d.filename].text[i] = StringifyUnitValue(d.built[i])

\* validateServiceSection() lets no entry of any Exec directive by, of however many
\* units and entries, and writeFile() gets what was validated (systemd.ts).
THEOREM PassedCorrect == Spec => []OnlyPassedWritten
<1>1. Inv => OnlyPassedWritten
  <2> SUFFICES ASSUME Inv, pc = "fill", Unit.suffix # ".timer", NEW i \in DOMAIN Unit.built
               PROVE  /\ Passed(Unit.built[i])
                      /\ Unit.built[i].kind = "program" => Unit.built[i].module # Missing
                      /\ files[Unit.filename].text[i] = StringifyUnitValue(Unit.built[i])
    BY DEF OnlyPassedWritten
  <2>1. files[Unit.filename].text = BuiltText(Unit)
    BY DEF Inv, Progress
  <2>2. BuiltText(Unit)[i] = StringifyUnitValue(Unit.built[i])
    BY DEF BuiltText, RenderUnitFile
  <2> QED
    BY <2>1, <2>2 DEF Inv, Validated
<1> QED
  BY <1>1, InvCorrect, PTL

\* materialize() leaves every unit as it was when it was built, for any number of
\* units, whatever the application does to its lists meanwhile (freezeUnitOptions).
THEOREM MaterializedCorrect == Spec => []MaterializedAsBuilt
<1>1. Inv => MaterializedAsBuilt
  <2> SUFFICES ASSUME Inv, Done("materialize"), NEW i \in DOMAIN call.args,
                      \A j \in DOMAIN call.args :
                        j > i => call.args[j].filename # call.args[i].filename
               PROVE  files[call.args[i].filename] = WholeFile(call.args[i])
    BY DEF MaterializedAsBuilt, WholeFile
  <2>1. DOMAIN call.args = 1 .. Len(call.args) /\ Len(call.args) \in Nat
    BY DEF Inv, Given, Done
  <2>2. Written(Len(call.args), Len(call.args))
    BY DEF Inv, Progress
  <2>3. LastOf(i, Len(call.args))
    BY <2>1 DEF LastOf
  <2> QED
    BY <2>1, <2>2, <2>3 DEF Written
<1> QED
  BY <1>1, InvCorrect, PTL

\* enable() and start() link what they are given and what its timers trigger, if
\* fileExists() sees it, before they do anything else (collectLinkPaths), for any units
\* and targets.
THEOREM TargetsCorrect == Spec => []TargetsLinked
<1>1. Inv => TargetsLinked
  <2> SUFFICES ASSUME Inv, LinkUnits, Done("enable") \/ Done("start")
               PROVE  \A d \in Range(call.args) :
                        /\ d.filename \in linked
                        /\ d.target \in Filenames /\ files[d.target] # NoFile => d.target \in linked \cup unseen
    BY DEF TargetsLinked
  <2>1. Required \subseteq linked
    BY DEF Inv, Followed, Done
  <2> QED
    BY <2>1 DEF Required, Present
<1> QED
  BY <1>1, InvCorrect, PTL

\* The reason and the output of a failed command survive the errors that enable(),
\* start(), the queries and notify make of it (SystemctlCommandError, UnitEnableError,
\* UnitStartError, NotifySendError), whatever it answered; logs() drops the reason.
THEOREM ReasonCorrect == Spec => []ReasonSurvives
<1>1. Inv => ReasonSurvives
  BY DEF Inv, Caused, Own, ReasonSurvives
<1> QED
  BY <1>1, InvCorrect, PTL

\* The diagnostics of a failed start() keep everything the two commands printed,
\* however they ended (collectStartDiagnostics, tryBestEffortCommand).
THEOREM DiagnosticsCorrect == Spec => DiagnosticsKept
<1>1. ASSUME Inv, Next, pc' # pc, pc \in {"diagShow", "diagStatus"}
      PROVE  Heard(reply) \cup Told(notes) \subseteq
               Told(IF pc' = "idle" THEN result'.error.diagnostics ELSE notes')
  <2>1. DiagnoseShow \/ DiagnoseStatus
    BY <1>1 DEF Next, Build, Change, Invoke, Answer, Step, MakeDir, CheckProgram, CheckLine,
       Scan, CheckVerdict, InferenceFails, OpenFile, FillFile, FileFails, Collect, Link, Linked,
       Reload, Enable, Start, Show, PrepareFails, StartFails, ReadLog, Status, Query, Notify,
       Succeeded, Failed
  <2>2. reply \in Replies
    BY <1>1, <2>1 DEF DiagnoseShow, DiagnoseStatus, Inv, Caused
  <2>3. Range(BestEffort) = Heard(reply)
    BY <2>2, BestEffortFacts
  <2>4. Range(<<>>) = {}
    BY DEF Range
  <2>5. CASE DiagnoseShow
    <3>1. notes = NoNotes /\ pc' = "diagStatus"
      BY <1>1, <2>5 DEF DiagnoseShow, Goto, Inv, Noted
    <3>2. notes'.show = BestEffort /\ Told(notes) = {}
      BY <2>4, <2>5, <3>1 DEF DiagnoseShow, NoNotes, Told
    <3> QED
      BY <2>3, <3>1, <3>2 DEF Told
  <2>6. CASE DiagnoseStatus
    <3>1. notes = [show |-> notes.show, status |-> <<>>] /\ pc' = "idle"
      BY <1>1, <2>6 DEF DiagnoseStatus, Return, Goto, Inv, Noted
    <3>2. result'.error.diagnostics = [notes EXCEPT !.status = BestEffort]
      BY <2>6 DEF DiagnoseStatus, Return, Err, Diagnosed
    <3>3. /\ result'.error.diagnostics.show = notes.show
          /\ result'.error.diagnostics.status = BestEffort /\ notes.status = <<>>
      BY <3>1, <3>2
    <3> QED
      BY <2>3, <2>4, <3>1, <3>3 DEF Told
  <2> QED
    BY <2>1, <2>5, <2>6
<1>2. Inv /\ [Next]_vars =>
        [pc' # pc /\ pc \in {"diagShow", "diagStatus"} =>
           Heard(reply) \cup Told(notes) \subseteq
             Told(IF pc' = "idle" THEN result'.error.diagnostics ELSE notes')]_vars
  BY <1>1
<1> QED
  BY <1>2, InvCorrect, PTL DEF Spec, DiagnosticsKept

\* logs() gives what status printed, whatever its exit status, or the end of the log
\* file (tailLines), for any log and any number of lines asked for.
THEOREM LogsCorrect == Spec => LogsAnswered
<1>1. ASSUME Inv, Next, pc = "status", pc' = "idle", Heard(reply) # {}
      PROVE  result'.kind = "ok" /\ Range(result'.value) = Heard(reply)
  <2>1. Status
    BY <1>1 DEF Next, Build, Change, Invoke, Answer, Step, MakeDir, CheckProgram, CheckLine,
       Scan, CheckVerdict, InferenceFails, OpenFile, FillFile, FileFails, Collect, Link, Linked,
       Reload, Enable, Start, Show, PrepareFails, StartFails, DiagnoseShow, DiagnoseStatus,
       ReadLog, Query, Notify, Succeeded, Failed
  <2>2. reply \in Replies
    BY <1>1, <2>1 DEF Status, Inv, Caused
  <2>3. ExtractCommandOutput(reply) # NoOutput /\ Range(BestEffort) = Heard(reply)
    BY <1>1, <2>2, BestEffortFacts
  <2>4. result' = Ok(BestEffort)
    BY <2>1, <2>3 DEF Status, Return
  <2> QED
    BY <2>3, <2>4 DEF Ok
<1>2. ASSUME Inv, Next, pc = "readLog", pc' = "idle", result'.kind = "ok"
      PROVE  /\ IsSuffix(result'.value, LogLines)
             /\ call.lines > 0 => Len(result'.value) <= call.lines
  <2>1. ReadLog
    BY <1>2 DEF Next, Build, Change, Invoke, Answer, Step, MakeDir, CheckProgram, CheckLine,
       Scan, CheckVerdict, InferenceFails, OpenFile, FillFile, FileFails, Collect, Link, Linked,
       Reload, Enable, Start, Show, PrepareFails, StartFails, DiagnoseShow, DiagnoseStatus,
       Status, Query, Notify, Succeeded, Failed
  <2>2. result' = Ok(TailLines(LogLines, call.lines))
    BY <1>2, <2>1 DEF ReadLog, Return, Err
  <2>3. call.lines \in Nat /\ LogLines \in Seq(STRING)
    BY <1>2, SystemdCallsAssumption DEF Inv, Given, OnStage, Reading
  <2> QED
    BY <2>2, <2>3, TailFacts DEF Ok
<1>3. Inv /\ [Next]_vars =>
        [/\ pc = "status" /\ pc' = "idle" /\ Heard(reply) # {} =>
              result'.kind = "ok" /\ Range(result'.value) = Heard(reply)
         /\ pc = "readLog" /\ pc' = "idle" /\ result'.kind = "ok" =>
              /\ IsSuffix(result'.value, LogLines)
              /\ call.lines > 0 => Len(result'.value) <= call.lines]_vars
  BY <1>1, <1>2
<1> QED
  BY <1>3, InvCorrect, PTL DEF Spec, LogsAnswered

-----------------------------------------------------------------------------
(***************************************************************************)
(* What the manager reads of the lines that are written.                   *)
(***************************************************************************)
LEMMA PrefixesAreOrdinary ==
  ASSUME NEW c \in Modifiers \cup Privileges \cup {"/"}
  PROVE  Ordinary(c)
<1>1. c \in {"@", "-", ":", "+", "!", "/"}
  BY DEF Modifiers, Privileges
<1>2. CASE c = "@"
  BY <1>2, Zenon DEF Ordinary, Blank, NewLine
<1>3. CASE c = "-"
  BY <1>3, Zenon DEF Ordinary, Blank, NewLine
<1>4. CASE c = ":"
  BY <1>4, Zenon DEF Ordinary, Blank, NewLine
<1>5. CASE c = "+"
  BY <1>5, Zenon DEF Ordinary, Blank, NewLine
<1>6. CASE c = "!"
  BY <1>6, Zenon DEF Ordinary, Blank, NewLine
<1>7. CASE c = "/"
  BY <1>7, Zenon DEF Ordinary, Blank, NewLine
<1> QED
  BY <1>1, <1>2, <1>3, <1>4, <1>5, <1>6, <1>7

\* The path of a command line is in its first word.
LEMMA PathKept ==
  ASSUME NEW S, NEW text \in Seq(S), NEW k \in 1 .. Len(text), PathAt(text, k),
         NEW word, Begins(word, SubSeq(text, 1, k)), Len(word) \in Nat, DOMAIN word = 1 .. Len(word)
  PROVE  Absolute(word)
<1>1. Len(SubSeq(text, 1, k)) = k /\ \A i \in 1 .. k : SubSeq(text, 1, k)[i] = text[i]
  OBVIOUS
<1>2. k \in DOMAIN word /\ \A i \in 1 .. k : word[i] = text[i]
  BY <1>1 DEF Begins
<1>3. PathAt(word, k)
  BY <1>2 DEF PathAt, OnePrefix
<1> QED
  BY <1>2, <1>3 DEF Absolute

\* Of an entry that passed the check, the manager reads a command that is absolute.
LEMMA PassedIsRead ==
  ASSUME NEW e \in Entry, Passed(e), Split(StringifyUnitValue(e)) # <<>>
  PROVE  Absolute(Split(StringifyUnitValue(e))[1])
<1> DEFINE text == StringifyUnitValue(e)
           word == Split(text)[1]
<1>1. CASE e.kind = "line"
  <2> DEFINE S == Chars \cup {Blank, NewLine}
  <2>1. text = e.text /\ text \in Seq(S) /\ (text = <<>> \/ Absolute(text))
    <3>1. e.text \in Seq(Chars) /\ text = e.text
      BY <1>1 DEF Entry, StringifyUnitValue
    <3>2. e.text \in Seq(S)
      BY <3>1
    <3> QED
      BY <1>1, <3>1, <3>2 DEF Passed
  <2>2. Blank \in S /\ NewLine \in S
    OBVIOUS
  <2> HIDE DEF S, text
  <2>3. text # <<>>
    <3>1. Split(<<>>) = <<>>
      <4>1. Splitting(Append(<<>>, NewLine)) = SplitNext(Between(<<>>), NewLine)
        <5>1. <<>> \in Seq(S)
          OBVIOUS
        <5>2. Splitting(Append(<<>>, NewLine)) = SplitNext(Splitting(<<>>), NewLine)
          BY <2>2, <5>1, SplittingSteps
        <5> QED
          BY <5>2, AtStart
      <4>2. SplitNext(Between(<<>>), NewLine).words = <<>>
        BY EndsEmpty
      <4>3. Split(<<>>) = Splitting(Append(<<>>, NewLine)).words
        BY Zenon DEF Split
      <4> QED
        BY <4>1, <4>2, <4>3
    <3> QED
      BY <3>1 DEF text
  <2>4. PICK k \in DOMAIN text : PathAt(text, k)
    BY <2>1, <2>3 DEF Absolute
  <2>5. k \in 1 .. Len(text)
    BY <2>1, <2>4
  <2>6. \A i \in 1 .. k : Ordinary(text[i])
    <3>1. \A i \in 1 .. k : text[i] \in Modifiers \cup Privileges \cup {"/"}
      BY <2>4, <2>5 DEF PathAt
    <3> QED
      BY <3>1, PrefixesAreOrdinary
  <2>7. Split(text) # <<>>
    BY DEF text
  <2>8. Begins(word, SubSeq(text, 1, k))
    BY <2>1, <2>2, <2>5, <2>6, <2>7, LineBegins
  <2>9. Split(text) \in Seq(Seq(S))
    BY <2>1, <2>2, SplitTyped
  <2>10. word \in Seq(S)
    BY <2>7, <2>9
  <2> QED
    BY <2>1, <2>4, <2>5, <2>8, <2>10, PathKept DEF text
<1>2. CASE e.kind = "program"
  <2>1. /\ e.runtime \in Name /\ e.module \in Name /\ e.args \in Seq(Name)
        /\ e.runtime # <<>> /\ e.runtime[1] = "/"
    BY <1>2 DEF Entry, Passed
  <2>2. text = ToExecStart(e)
    BY <1>2 DEF StringifyUnitValue
  <2>3. Begins(word, <<"/">>) /\ word \in Seq(STRING \cup {"'", "\\", Blank, NewLine, "/"})
    BY <2>1, <2>2, ProgramBegins DEF Name
  <2> DEFINE All == STRING \cup {"'", "\\", Blank, NewLine, "/"}
  <2>4. 1 \in DOMAIN word /\ word[1] = "/"
    <3>1. word \in Seq(All) /\ Begins(word, <<"/">>)
      BY <2>3
    <3> HIDE DEF word, All
    <3> QED
      BY <3>1 DEF Begins
  <2>5. PathAt(word, 1)
    BY <2>4 DEF PathAt
  <2> QED
    BY <2>4, <2>5 DEF Absolute
<1>3. e.kind \in {"line", "program"}
  BY DEF Entry
<1> QED
  BY <1>1, <1>2, <1>3

\* Nothing is written with an entry whose first command, as the manager splits it, does
\* not name an absolute executable (isAbsoluteExecCommand, shellQuote).  Lines and
\* commands that an entry begins after the first, at a newline or a semicolon that
\* stands alone, are not spoken of: nothing checks them.
THEOREM AbsoluteCorrect == Spec => []OnlyAbsoluteWritten
<1>1. Inv => OnlyAbsoluteWritten
  <2> SUFFICES ASSUME Inv, pc = "fill", Unit.suffix = ".service", NEW i \in DOMAIN Unit.built,
                      Split(files[Unit.filename].text[i]) # <<>>
               PROVE  Absolute(Split(files[Unit.filename].text[i])[1])
    BY DEF OnlyAbsoluteWritten
  <2>1. files[Unit.filename].text = BuiltText(Unit)
    BY DEF Inv, Progress
  <2>2. BuiltText(Unit)[i] = StringifyUnitValue(Unit.built[i])
    BY DEF BuiltText, RenderUnitFile
  <2>3. Passed(Unit.built[i])
    BY DEF Inv, Validated
  <2>4. Unit.built[i] \in Entry
    <3>1. Unit.built \in Seq(Entry)
      BY UnitFacts DEF Inv, Writing
    <3> QED
      BY <3>1
  <2> QED
    BY <2>1, <2>2, <2>3, <2>4, PassedIsRead
<1> QED
  BY <1>1, InvCorrect, PTL

\* The manager runs an Executable with the words it was defined with, of any number and
\* length, with blanks, quotes and semicolons, but without newlines and the characters
\* that begin escapes, specifiers and variables (toExecStart).
THEOREM WordsCorrect == Spec => []WordsArrive
<1>1. Inv => WordsArrive
  <2> SUFFICES ASSUME Inv, Done("materialize"), NEW d \in Range(call.args),
                      d.suffix = ".service", files[d.filename].text = BuiltText(d),
                      NEW i \in DOMAIN d.built, d.built[i].kind = "program", Plain(d.built[i])
               PROVE  Split(files[d.filename].text[i]) = ToCommandParts(d.built[i])
    BY DEF WordsArrive
  <2> DEFINE e == d.built[i]
  <2>1. e \in Entry
    <3>1. call.args \in Seq(Definition)
      BY DEF Inv, Given, Done
    <3>2. d \in Definition
      BY <3>1 DEF Range
    <3>3. d.built \in Seq(Entry)
      BY <3>2, DefinitionFacts
    <3> QED
      BY <3>3
  <2>2. BuiltText(d)[i] = ToExecStart(e)
    BY DEF BuiltText, RenderUnitFile, StringifyUnitValue
  <2>3. e.runtime \in Seq(STRING) /\ e.module \in Seq(STRING) /\ e.args \in Seq(Seq(STRING))
    BY <2>1 DEF Entry, Name
  <2>4. \A j \in DOMAIN ToCommandParts(e) :
          \A k \in DOMAIN ToCommandParts(e)[j] : Literal(ToCommandParts(e)[j][k])
    BY Zenon DEF Plain, Literal
  <2> HIDE DEF e
  <2>5. Split(ToExecStart(e)) = ToCommandParts(e)
    BY <2>3, <2>4, PrintedIsRead
  <2> QED
    BY <2>2, <2>5 DEF e
<1> QED
  BY <1>1, InvCorrect, PTL
=============================================================================
