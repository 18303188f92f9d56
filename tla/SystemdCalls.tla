---------------------------- MODULE SystemdCalls -----------------------------
(***************************************************************************)
(* The calls of Systemd, Systemctl and notify: materialize, enable, start, *)
(* logs, the queries and sd_notify, each a chain of awaited file           *)
(* operations and commands.  A command may answer anything or never: an    *)
(* exit status and output, an error of the operating system, an exception. *)
(* An application makes its calls one after the other, and may change the  *)
(* list it built its definitions from while a call waits.                  *)
(***************************************************************************)
EXTENDS ExecScan, UnitFile

CONSTANTS
  Options,     \* what definitions are built from
  Lists,       \* contents of the list the application passes as Exec directive
  LineCounts,  \* values of LogsOptions.lines
  LogLines,    \* the lines of a log file, with the empty one after the last newline
  LinkUnits,   \* options.linkUnits
  MaxUnits,    \* bound: definitions the application builds
  MaxCalls     \* bound: calls it makes

\* What the types of the constructors and of LogsOptions let an application pass.
Name  == Seq(STRING)
Entry ==
  [kind : {"line"}, text : Seq(Chars)]
    \cup [kind : {"program"}, runtime : Name, module : Name, args : Seq(Name)]

ASSUME SystemdCallsAssumption ==
  /\ Options \subseteq [suffix : {".service", ".timer"}, name : Name, target : Name,
                        stdout : STRING, stderr : STRING]
  /\ Lists \subseteq Seq(Entry)
  /\ LineCounts \subseteq Nat
  /\ LogLines \in Seq(STRING)

VARIABLES
  array,   \* the application's list, which it may change
  units,   \* the definitions built so far
  files,   \* files[f]: what was written under the filename f
  linked,  \* filenames that systemctl link succeeded for
  unseen,  \* targets that were there and that fileExists() could not see
  pc,      \* the stage of the call
  reply,   \* what the command of this stage has answered
  call,    \* the current call, or the last one
  calls,   \* the number of calls so far
  at,      \* the unit the call is at
  entry,   \* the Exec entry of that unit that is checked next
  links,   \* filenames still to link
  failed,  \* the error start() collects diagnostics for
  notes,   \* the diagnostics so far
  result   \* how the last call ended

appVars  == <<array, units>>
diskVars == <<files, linked, unseen>>
callVars == <<pc, reply, call, calls, at, entry, links, failed, notes, result>>
vars == <<scanVars, appVars, diskVars, callVars>>

None == "none"
NoFile == [text |-> <<>>, state |-> "absent"]
NoNotes == [show |-> <<>>, status |-> <<>>]
NoError == [stage |-> None]
NoResult == [kind |-> None]

Filenames == {Define(o, <<>>).filename : o \in Options}

\* What a command answers: output, or what its executor throws: an exit status with
\* output, a system error with empty output (execFile), an exception without any.
Reply(ok, code, stdout, stderr) == [ok |-> ok, code |-> code, stdout |-> stdout, stderr |-> stderr]
Waiting == Reply(FALSE, "waiting", None, None)
Replies ==
  {Reply(TRUE, None, "state", "note"), Reply(TRUE, None, "", ""),
   Reply(FALSE, "exit", "state", "note"), Reply(FALSE, "exit", "", "nobus"),
   Reply(FALSE, "ENOENT", "", ""), Reply(FALSE, "EACCES", None, None)}

FileErrors == {"EACCES", "ENOTDIR", "ENOSPC"}

-----------------------------------------------------------------------------
(***************************************************************************)
(* Errors.                                                                 *)
(***************************************************************************)
\* Mutant of Reason: only the error code is looked at.
Reason_CodeOnly(c) ==
  CASE c.code = "ENOENT" -> "missing-command"
    [] c.code = "EACCES" -> "permission-denied"
    [] OTHER             -> None

\* classifyCommandEnvironmentReason
Reason(c) ==
  CASE c.code = "ENOENT"              -> "missing-command"
    [] c.code = "EACCES"              -> "permission-denied"
    [] "nobus" \in {c.stderr, c.stdout} -> "manager-unavailable"
    [] OTHER                          -> None

FileReason(code) ==
  CASE code \in {"EACCES", "EPERM", "EROFS"}     -> "permission-denied"
    [] code \in {"EEXIST", "ENOTDIR", "EISDIR"}  -> "invalid-unit-directory"
    [] OTHER                                     -> "file-system-failed"

\* The errors that report a command: what is known of the environment is given, or
\* else read off the cause.
CommandError(code, stage, cause, known) ==
  [code |-> code, stage |-> stage, cause |-> cause,
   environmentReason |-> IF known # None THEN known ELSE Reason(cause),
   stdout |-> cause.stdout, stderr |-> cause.stderr]

SystemctlError(operation, cause) ==
  CommandError("SYSTEMD_TS_SYSTEMCTL", operation, cause, None)

\* Mutant of Wrap: the reason is not passed on.
Wrap_Forgets(code, stage, e) == CommandError(code, stage, e, None)

\* An error of enable() or start() around one of Systemctl.
Wrap(code, stage, e) == CommandError(code, stage, e, e.environmentReason)

\* The error of start() with what was found out about it.
Diagnosed(e, found) ==
  [code |-> e.code, stage |-> e.stage, cause |-> e.cause,
   environmentReason |-> e.environmentReason, stdout |-> e.stdout, stderr |-> e.stderr,
   diagnostics |-> found]

Code(op) == IF op = "enable" THEN "SYSTEMD_TS_UNIT_ENABLE" ELSE "SYSTEMD_TS_UNIT_START"

Ok(value) == [kind |-> "ok", value |-> value]
Err(error) == [kind |-> "err", error |-> error]

\* Errors that no command caused.
PlainError(code, reason) == [code |-> code, reason |-> reason, environmentReason |-> None]

-----------------------------------------------------------------------------
(***************************************************************************)
(* What is made of the output.                                             *)
(***************************************************************************)
JoinCommandOutput(out) ==
  LET NonEmpty(s) == IF s = "" THEN <<>> ELSE <<s>>
  IN  NonEmpty(out.stdout) \o NonEmpty(out.stderr)

FirstNonEmptyOutputLine(out) ==
  IF JoinCommandOutput(out) = <<>> THEN "" ELSE Head(JoinCommandOutput(out))

\* Fields that systemctl show did not print are unknown.
ParseStartStatus(stdout) == IF stdout = "state" THEN "parsed" ELSE "unknown"

NoOutput == [stdout |-> None, stderr |-> None]

\* Mutant of ExtractCommandOutput: a command that fails has no output.
ExtractCommandOutput_OnlyOk(c) ==
  IF c.ok THEN [stdout |-> c.stdout, stderr |-> c.stderr] ELSE NoOutput

\* The output of a command that failed, if what it threw has any.
ExtractCommandOutput(c) ==
  IF c.stdout = None /\ c.stderr = None THEN NoOutput
  ELSE [stdout |-> IF c.stdout = None THEN "" ELSE c.stdout,
        stderr |-> IF c.stderr = None THEN "" ELSE c.stderr]

LastN(s, n) == SubSeq(s, IF n >= Len(s) THEN 1 ELSE Len(s) - n + 1, Len(s))

\* Mutant of TailLines: the line after the last newline does not count.
TailLines_More(output, n) == LastN(output, n + 1)

\* slice(-0) is slice(0): no lines asked for are all lines.
TailLines(output, n) == IF n = 0 THEN output ELSE LastN(output, n)

-----------------------------------------------------------------------------
(***************************************************************************)
(* The application, and how a call moves on.                               *)
(***************************************************************************)
Init ==
  /\ ScanInit
  /\ array \in Lists
  /\ units = <<>>
  /\ files = [f \in Filenames |-> NoFile]
  /\ linked = {}
  /\ unseen = {}
  /\ pc = "idle"
  /\ reply = Waiting
  /\ call = [op |-> None]
  /\ calls = 0
  /\ at = 1
  /\ entry = 1
  /\ links = {}
  /\ failed = NoError
  /\ notes = NoNotes
  /\ result = NoResult

\* Calls over everything that was built, over one unit (bound: the one built last),
\* and over none.
Newest == {d \in Range(units) : d = Last(units)}

Calls ==
  {[op |-> op, args |-> units] : op \in {"materialize", "enable"}}
    \cup {[op |-> "start", args |-> <<d>>] : d \in Newest}
    \cup {[op |-> "logs", args |-> <<d>>, lines |-> n] : d \in Newest, n \in LineCounts}
    \cup {[op |-> "query", form |-> f] : f \in {"state", "properties", "timers", "output"}}
    \cup {[op |-> "notify", sender |-> s] : s \in {"executor", "systemd-notify"}}

FirstStage(c) ==
  CASE c.op = "materialize"        -> "mkdir"
    [] c.op \in {"enable", "start"} -> IF LinkUnits THEN "collect" ELSE "reload"
    [] c.op = "logs"               -> IF LogStream(c.args[1]) = "journal" THEN "status" ELSE "readLog"
    [] OTHER                       -> c.op

Build(o) ==
  /\ pc = "idle"
  /\ Len(units) < MaxUnits
  /\ units' = Append(units, Define(o, IF o.suffix = ".service" THEN array ELSE <<>>))
  /\ UNCHANGED <<scanVars, array, diskVars, callVars>>

\* The application changes its list while a file operation of materialize is pending;
\* a definition is validated and rendered without a wait in between.
Change(list) ==
  /\ pc \in {"mkdir", "fill"}
  /\ array' = list
  /\ UNCHANGED <<scanVars, units, diskVars, callVars>>

Invoke(c) ==
  /\ pc = "idle"
  /\ calls < MaxCalls
  /\ calls' = calls + 1
  /\ call' = c
  /\ IF c.op \in {"materialize", "enable"} /\ c.args = <<>>
       THEN pc' = "idle" /\ result' = Err(PlainError("SYSTEMD_TS_NO_UNITS_PROVIDED", c.op))
       ELSE pc' = FirstStage(c) /\ result' = NoResult
  /\ UNCHANGED <<scanVars, appVars, diskVars, reply, at, entry, links, failed, notes>>

Goto(stage) == pc' = stage /\ reply' = Waiting

Return(r) ==
  /\ Goto("idle")
  /\ result' = r
  /\ at' = 1
  /\ entry' = 1
  /\ links' = {}
  /\ failed' = NoError
  /\ notes' = NoNotes
  /\ UNCHANGED <<call, calls>>

Unit == call.args[at]

\* The entries a definition is rendered from: its own, or those of a shared list.
Exec(d) == IF d.shared THEN array ELSE d.exec

-----------------------------------------------------------------------------
(***************************************************************************)
(* materialize: each unit is validated, rendered and written in turn.      *)
(***************************************************************************)
MakeDir ==
  /\ pc = "mkdir"
  /\ Goto("validate")
  /\ UNCHANGED <<scanVars, appVars, diskVars, call, calls, at, entry, links, failed, notes, result>>

Checked == entry > Len(Exec(Unit))

CheckProgram ==
  /\ pc = "validate"
  /\ ~Checked
  /\ Exec(Unit)[entry].kind = "program"
  /\ IF Exec(Unit)[entry].runtime # <<>> /\ Head(Exec(Unit)[entry].runtime) = "/"
       THEN entry' = entry + 1 /\ UNCHANGED <<pc, reply, call, calls, at, links, failed, notes, result>>
       ELSE Return(Err(PlainError("SYSTEMD_TS_INVALID_EXEC_DIRECTIVE", "path")))
  /\ UNCHANGED <<scanVars, appVars, diskVars>>

\* The empty string resets a directive; any other one is scanned.
CheckLine ==
  /\ pc = "validate"
  /\ ~Checked
  /\ Exec(Unit)[entry].kind = "line"
  /\ IF Exec(Unit)[entry].text = <<>>
       THEN entry' = entry + 1 /\ UNCHANGED <<pc, scanVars>>
       ELSE pc' = "scan" /\ Begin(Exec(Unit)[entry].text) /\ UNCHANGED entry
  /\ UNCHANGED <<appVars, diskVars, reply, call, calls, at, links, failed, notes, result>>

Scan ==
  /\ pc = "scan"
  /\ ScanStep
  /\ UNCHANGED <<appVars, diskVars, callVars>>

\* Mutant of Accepted: the verdict is not looked at.
Accepted_Always == TRUE

Accepted == verdict = "absolute"

CheckVerdict ==
  /\ pc = "scan"
  /\ verdict # "scanning"
  /\ \/ /\ Accepted
        /\ Goto("validate")
        /\ entry' = entry + 1
        /\ UNCHANGED <<call, calls, at, links, failed, notes, result>>
     \/ /\ ~Accepted
        /\ Return(Err(PlainError("SYSTEMD_TS_INVALID_EXEC_DIRECTIVE", "path")))
  /\ End
  /\ UNCHANGED <<appVars, diskVars>>

Renders(d) ==
  \A i \in DOMAIN Exec(d) : Exec(d)[i].kind = "program" => ~InferenceError(Exec(d)[i])

InferenceFails ==
  /\ pc = "validate"
  /\ Checked
  /\ ~Renders(Unit)
  /\ Return(Err(PlainError("SYSTEMD_TS_EXECUTABLE_INFERENCE", "module")))
  /\ UNCHANGED <<scanVars, appVars, diskVars>>

\* The text is rendered first; writeFile() truncates the file before it fills it.
OpenFile ==
  /\ pc = "validate"
  /\ Checked
  /\ Renders(Unit)
  /\ files' = [files EXCEPT ![Unit.filename] =
       [text |-> RenderUnitFile(Unit, Exec(Unit)), state |-> "torn"]]
  /\ Goto("fill")
  /\ UNCHANGED <<scanVars, appVars, linked, unseen, call, calls, at, entry, links, failed, notes, result>>

FillFile ==
  /\ pc = "fill"
  /\ files' = [files EXCEPT ![Unit.filename].state = "whole"]
  /\ \/ /\ at < Len(call.args)
        /\ Goto("validate")
        /\ at' = at + 1
        /\ entry' = 1
        /\ UNCHANGED <<call, calls, links, failed, notes, result>>
     \/ /\ at = Len(call.args)
        /\ Return(Ok(<<>>))
  /\ UNCHANGED <<scanVars, appVars, linked, unseen>>

\* mkdir, open or write fails; a file that was opened stays torn.
FileFails ==
  /\ \/ pc \in {"mkdir", "fill"}
     \/ pc = "validate" /\ Checked /\ Renders(Unit)
  /\ \E code \in FileErrors :
       Return(Err(PlainError("SYSTEMD_TS_UNIT_MATERIALIZATION", FileReason(code))))
  /\ UNCHANGED <<scanVars, appVars, diskVars>>

-----------------------------------------------------------------------------
(***************************************************************************)
(* Commands: what they answer, and the stages of enable and start.         *)
(***************************************************************************)
Commands ==
  {"link", "reload", "enable", "start", "show", "diagShow", "diagStatus", "status",
   "query", "notify"}

\* The executor's promise settles.  Nothing says that it ever does.
Answer(r) ==
  /\ pc \in Commands
  /\ pc = "link" => links # {}
  /\ reply = Waiting
  /\ reply' = r
  /\ UNCHANGED <<scanVars, appVars, diskVars, pc, call, calls, at, entry, links, failed, notes, result>>

Succeeded(stage) == pc = stage /\ reply.ok
Failed(stage) == pc = stage /\ reply # Waiting /\ ~reply.ok

\* Mutant of Collect: what a timer triggers is left out.
Collect_UnitsOnly ==
  /\ pc = "collect"
  /\ links' = {d.filename : d \in Range(call.args)}
  /\ Goto("link")
  /\ UNCHANGED <<scanVars, appVars, diskVars, call, calls, at, entry, failed, notes, result>>

Present == {t \in {d.target : d \in Range(call.args)} \cap Filenames : files[t] # NoFile}

\* collectLinkPaths: the units and, for a timer, the unit it triggers.  What access()
\* fails for does not exist, whatever it fails with.
Collect ==
  /\ pc = "collect"
  /\ \E seen \in SUBSET Present :
       /\ links' = {d.filename : d \in Range(call.args)} \cup seen
       /\ unseen' = Present \ seen
  /\ Goto("link")
  /\ UNCHANGED <<scanVars, appVars, files, linked, call, calls, at, entry, failed, notes, result>>

Link(f) ==
  /\ Succeeded("link")
  /\ f \in links
  /\ linked' = linked \cup {f}
  /\ links' = links \ {f}
  /\ Goto("link")
  /\ UNCHANGED <<scanVars, appVars, files, unseen, call, calls, at, entry, failed, notes, result>>

Linked ==
  /\ pc = "link"
  /\ links = {}
  /\ Goto("reload")
  /\ UNCHANGED <<scanVars, appVars, diskVars, call, calls, at, entry, links, failed, notes, result>>

Reload ==
  /\ Succeeded("reload")
  /\ Goto(call.op)
  /\ UNCHANGED <<scanVars, appVars, diskVars, call, calls, at, entry, links, failed, notes, result>>

\* Mutant of Enable: the loop does not get to the next unit.
Enable_Stays ==
  /\ Succeeded("enable")
  /\ Goto("enable")
  /\ UNCHANGED <<scanVars, appVars, diskVars, call, calls, at, entry, links, failed, notes, result>>

Enable ==
  /\ Succeeded("enable")
  /\ \/ /\ at < Len(call.args)
        /\ Goto("enable")
        /\ at' = at + 1
        /\ UNCHANGED <<call, calls, entry, links, failed, notes, result>>
     \/ /\ at = Len(call.args)
        /\ Return(Ok(<<>>))
  /\ UNCHANGED <<scanVars, appVars, diskVars>>

Start ==
  /\ Succeeded("start")
  /\ Goto("show")
  /\ UNCHANGED <<scanVars, appVars, diskVars, call, calls, at, entry, links, failed, notes, result>>

Show ==
  /\ Succeeded("show")
  /\ Return(Ok(<<ParseStartStatus(reply.stdout)>>))
  /\ UNCHANGED <<scanVars, appVars, diskVars>>

\* A link, a daemon-reload or an enable that fails ends the call.
PrepareFails ==
  /\ \E stage \in {"link", "reload", "enable"} :
       /\ Failed(stage)
       /\ Return(Err(Wrap(Code(call.op), stage, SystemctlError(stage, reply))))
  /\ UNCHANGED <<scanVars, appVars, diskVars>>

\* A start that fails, or whose status cannot be shown, is looked into first.
StartFails ==
  /\ \E stage \in {"start", "show"} :
       /\ Failed(stage)
       /\ failed' = Wrap(Code("start"), stage, SystemctlError(stage, reply))
  /\ Goto("diagShow")
  /\ UNCHANGED <<scanVars, appVars, diskVars, call, calls, at, entry, links, notes, result>>

\* What the command of a diagnostic printed, whether it failed or not.
BestEffort ==
  IF ExtractCommandOutput(reply) = NoOutput THEN <<>>
  ELSE JoinCommandOutput(ExtractCommandOutput(reply))

DiagnoseShow ==
  /\ pc = "diagShow"
  /\ reply # Waiting
  /\ notes' = [notes EXCEPT !.show = BestEffort]
  /\ Goto("diagStatus")
  /\ UNCHANGED <<scanVars, appVars, diskVars, call, calls, at, entry, links, failed, result>>

DiagnoseStatus ==
  /\ pc = "diagStatus"
  /\ reply # Waiting
  /\ Return(Err(Diagnosed(failed, [notes EXCEPT !.status = BestEffort])))
  /\ UNCHANGED <<scanVars, appVars, diskVars>>

-----------------------------------------------------------------------------
(***************************************************************************)
(* logs, the queries of Systemctl, and notify.                             *)
(***************************************************************************)
ReadLog ==
  /\ pc = "readLog"
  /\ \/ Return(Ok(TailLines(LogLines, call.lines)))
     \/ \E code \in {"ENOENT", "EACCES"} :
          Return(Err(CommandError("SYSTEMD_TS_UNIT_LOGS", "read-log-file",
                                  [code |-> code, stdout |-> None, stderr |-> None], None)))
  /\ UNCHANGED <<scanVars, appVars, diskVars>>

\* systemctl status exits with a status of its own for units that are not active:
\* its output counts, not its success.
Status ==
  /\ pc = "status"
  /\ reply # Waiting
  /\ IF ExtractCommandOutput(reply) # NoOutput
       THEN Return(Ok(BestEffort))
       ELSE Return(Err(CommandError("SYSTEMD_TS_UNIT_LOGS", "status",
                                    SystemctlError("status", reply), None)))
  /\ UNCHANGED <<scanVars, appVars, diskVars>>

\* What a query makes of the output of a command that succeeded.
QueryResult(form) ==
  CASE form = "state"      -> Ok(<<FirstNonEmptyOutputLine(reply)>>)
    [] form = "properties" -> Ok(<<ParseStartStatus(reply.stdout)>>)
    [] form = "output"     -> Ok(<<reply.stdout, reply.stderr>>)
    [] reply.stdout # ""   -> Ok(<<"timers">>)
    [] OTHER               -> Err(PlainError("SYSTEMD_TS_SYSTEMCTL", "invalid-json"))

Query ==
  /\ \/ Succeeded("query") /\ Return(QueryResult(call.form))
     \/ Failed("query") /\ Return(Err(SystemctlError(call.form, reply)))
  /\ UNCHANGED <<scanVars, appVars, diskVars>>

\* notify.ready and notify.watchdog, through options.executor or systemd-notify.
Notify ==
  /\ \/ Succeeded("notify") /\ Return(Ok(<<>>))
     \/ Failed("notify") /\ Return(Err(
          CommandError("SYSTEMD_TS_NOTIFY_SEND", call.sender, reply, None)))
  /\ UNCHANGED <<scanVars, appVars, diskVars>>

-----------------------------------------------------------------------------
Step ==
  \/ MakeDir \/ CheckProgram \/ CheckLine \/ Scan \/ CheckVerdict \/ InferenceFails
  \/ OpenFile \/ FillFile \/ FileFails
  \/ Collect \/ (\E f \in links : Link(f)) \/ Linked \/ Reload \/ Enable \/ Start \/ Show
  \/ PrepareFails \/ StartFails \/ DiagnoseShow \/ DiagnoseStatus
  \/ ReadLog \/ Status \/ Query \/ Notify

Next ==
  \/ \E o \in Options : Build(o)
  \/ \E list \in Lists : Change(list)
  \/ \E c \in Calls : Invoke(c)
  \/ \E r \in Replies : Answer(r)
  \/ Step

\* The event loop resumes a call whose promise has settled.  Commands owe nothing.
Spec == Init /\ [][Next]_vars /\ WF_vars(Step)
-----------------------------------------------------------------------------
Done(op) == pc = "idle" /\ call.op = op /\ result.kind = "ok"

\* Text of d as it was when it was built.
BuiltText(d) == RenderUnitFile(d, d.built)

\* No entry is written whose first command does not name an absolute executable, as the
\* manager will read it: every entry of every directive, whichever kind it is.  Of what
\* comes after a newline in an entry, or after a semicolon that stands alone in a
\* command line, nothing is checked and nothing is said here.
OnlyAbsoluteWritten ==
  pc = "fill" =>
    \A d \in {Unit} : d.suffix = ".service" =>
      \A i \in DOMAIN d.built :
        LET words == Split(files[d.filename].text[i])
        IN  words # <<>> => Absolute(words[1])

\* A materialize that succeeded left every unit as it was when it was built, in
\* its own file, although the application changed its lists in between; of two
\* definitions with one filename the later one counts.
MaterializedAsBuilt ==
  Done("materialize") =>
    \A i \in DOMAIN call.args :
      (\A j \in DOMAIN call.args : j > i => call.args[j].filename # call.args[i].filename) =>
        files[call.args[i].filename] = [text |-> BuiltText(call.args[i]), state |-> "whole"]

\* The manager runs an Executable with the words it was defined with, whatever
\* blanks, quotes and semicolons are in them; with a newline in one it does not.
WordsArrive ==
  Done("materialize") => \A d \in Range(call.args) :
    d.suffix = ".service" /\ files[d.filename].text = BuiltText(d) =>
      \A i \in DOMAIN d.built :
        d.built[i].kind = "program" /\ Plain(d.built[i]) =>
          Split(files[d.filename].text[i]) = ToCommandParts(d.built[i])

\* A timer that was enabled or started with linkUnits has the unit it triggers
\* linked too, if that unit was ever written and could be seen.
TargetsLinked ==
  LinkUnits /\ (Done("enable") \/ Done("start")) =>
    \A d \in Range(call.args) :
      /\ d.filename \in linked
      /\ d.target \in Filenames /\ files[d.target] # NoFile => d.target \in linked \cup unseen

\* What the command that failed threw, through the errors around it.
Root(e) == IF "cause" \in DOMAIN e.cause THEN e.cause.cause ELSE e.cause

\* However deep enable, start, a query or notify wrap the failure of a command, the
\* error says what is wrong with the environment, and what the command printed, as the
\* command itself did.  logs is left out: the error it makes of a failed status does not
\* pass the reason on, and reads it off an error that no longer has the code.
ReasonSurvives ==
  result.kind = "err" /\ "cause" \in DOMAIN result.error /\ call.op # "logs" =>
    LET e == result.error
    IN  /\ e.environmentReason = Reason(Root(e))
        /\ <<e.stdout, e.stderr>> = <<Root(e).stdout, Root(e).stderr>>

Heard(r) == {r.stdout, r.stderr} \ {"", None}
Told(d) == Range(d.show) \cup Range(d.status)

\* The error of a start has everything its two diagnostic commands printed, also
\* when they exit with an error, as they do for a unit that is down.
DiagnosticsKept ==
  [][pc' # pc /\ pc \in {"diagShow", "diagStatus"} =>
       Heard(reply) \cup Told(notes) \subseteq
         Told(IF pc' = "idle" THEN result'.error.diagnostics ELSE notes')]_vars

\* logs gives the end of the log file, no more than was asked for, and what status
\* printed, whatever its exit status was.
LogsAnswered ==
  [][/\ pc = "status" /\ pc' = "idle" /\ Heard(reply) # {} =>
          result'.kind = "ok" /\ Range(result'.value) = Heard(reply)
     /\ pc = "readLog" /\ pc' = "idle" /\ result'.kind = "ok" =>
          /\ IsSuffix(result'.value, LogLines)
          /\ call.lines > 0 => Len(result'.value) <= call.lines]_vars

\* logs tells a missing systemctl from everything else that can go wrong.
LogsTellMissing ==
  [][pc' = "idle" /\ pc \in {"status", "readLog"} =>
       (result'.kind = "err" /\ result'.error.environmentReason = "missing-command"
          <=> pc = "status" /\ reply.code = "ENOENT")]_vars

\* A call comes back unless one of its commands never does: errors, diagnostics and
\* loops over units included.
CallsReturnOrHang ==
  []<>(pc = "idle") \/ <>[](pc \in Commands /\ reply = Waiting)
=============================================================================
