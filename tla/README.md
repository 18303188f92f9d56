# A verification model of systemd-ts

This directory holds TLA+ modules that model systemd-ts, TLC configurations that check them on small instances, and
proofs that TLAPS checks for every instance. `PROJECT.json` lists the runs, the properties, the mutated definitions that
show each property can fail, the source lines every definition translates, the hazards the properties are for and the
disagreements between code and documentation that the runs found.

To check a run: `tlc -config MCUpkeepTimer.cfg MCUpkeep.tla`. To check the proofs: `tlapm UpkeepProofs.tla`.

## The system

systemd-ts is a TypeScript library that writes systemd unit files, drives `systemctl`, and keeps the set of units an
application owns in step with a manifest. The repository also holds the test host its integration tests run on and two
maintenance scripts.

| Part | Source | State it keeps | Operations |
|---|---|---|---|
| Upkeep (`SystemdTs`) | `main/systemd.ts` | a manifest file per owner | `attach`, `reattach`, `detach` |
| Installation (`Systemd`) | `main/systemd.ts` | none of its own; unit files on disk, links and loaded units in the manager | `materialize`, `enable`, `start`, `logs` |
| `Systemctl` client | `main/systemctl.ts` | none | one command per method, and parsers of its output |
| Errors | `main/errors.ts` | frozen values | classification of a cause, wrapping |
| Unit definitions | `main/systemd-service.ts`, `systemd-timer.ts`, `executable.ts`, `internal.ts` | frozen values | `render`, validation of `Exec` directives |
| Notify | `main/notify.ts`, `internal.ts` | none | `ready`, `watchdog` |
| Guest shell | `test/host.ts` | the warm shell, per shell a queue, a current command and a buffer | `runGuestCommand`, timeouts, `closeTestHost` |
| Test host | `test/host.ts` | a cached promise, a container or VM, runtime info | `ensureTestHost` and the backends |
| Sandbox and harness | `test/sandbox.ts`, `test/harness.ts` | the current sandbox | create, destroy, executors |
| Manpage cache | `compatibility/systemd/fetch-manpages.ts` | a tarball, a source tree, a manifest on disk | one run of the script |
| Workflow updates | `scripts/update-workflows.node.ts` | workflow files | one run of the script |

How they interact: `SystemdTs` calls `Systemd` (files, enable, start: errors come back as a `Result`) and runs `stop`,
`disable`, `restart`, `rm` and `daemon-reload` itself through the executor (errors are thrown). Everything reaches the
manager through the executor. In the tests the executor is the guest shell, which serialises the commands of many
callers. A definition is validated and rendered when `materialize` comes to it, long after it was built. Errors are
wrapped at each level, and each level classifies what it is given.

What is hard: every `await` of an upkeep call is a point where another owner's call, the manager, a failure or the death
of the process comes in; nothing is rolled back; the manifest is written last and in place; the manager works on
definitions in memory that only a daemon-reload refreshes. A command may fail with output that is the very answer, fail
without any, or never answer, and a failure is looked into by commands that may fail as well. The application may change
its arrays while a call waits. In the guest shell, timers, output chunks and exit events of
several shells interleave, and one module variable says which shell is the warm one. Test processes share one host by
name only: each may find it missing, remove it and start it while others use it. The two scripts keep their state in
files that they write in place and may die over, and talk to servers whose answers change under them.

What makes each part correct: an upkeep call that succeeds leaves the requested units installed and in effect, takes down
nothing that is not its own, gives up a manifest only when the work is done, and can be retried when it did not succeed;
a unit file holds what was built, and the manager reads back what was meant; an error says what the command said; a
caller of the guest shell gets its own output, and gets an answer; a test has its sandbox, and leaves nothing; the
manpage script only reports and only reuses a source tree it has validated; the workflow script pins the newest release,
and touches nothing else.

## Modules

### Manager

The world outside the library: the unit directory and the manager. A unit file is abstracted to the *version* of its
rendered text, `Torn` while `writeFile()` has truncated but not filled it, or `Absent`. `loaded` is what the manager has
in memory, `active` the definition a unit was started with. The commands are the assumptions the library makes about
`systemctl`: `Reload` re-reads what is visible on disk, `StartUnit` and `RestartUnits` use the definition in memory, or
load one on demand; `StopUnits` of something unknown and `DisableUnits` of something invisible are errors. On its own
the manager lets units exit, lets timers start their unit, and unloads inactive units. The manager is external code,
modelled from what `systemd.ts` relies on. The reload that `systemctl` does after link, enable and disable is left out,
because the library issues its own.

### Upkeep

`SystemdTs.attach`, `reattach` and `detach`, with what they call in `Systemd`. One process (`Apps`) runs one call at a
time; several processes, with the same or different owners, interleave. `pc[a]` is the stage a call is at, one stage per
awaited operation:

    read -> compare -> stop -> disable -> prune -> refresh -> write/fill -> collect -> link -> enable
         -> restart -> begin (collect -> link -> start -> show)* -> truncate -> record

`attach` goes from `compare` to `write`; `detach` goes from `read` to `stop` and from `refresh` to `forget`. Stages the
options turn off are passed through without effect. The units of a batch are taken in any order; the code takes array
order, so the model has more behaviours than the code. Every command, and every write, may fail: `SystemdErrs` returns
an error result, the other failures reject the call, and a multi-unit `stop` or `restart` that fails has still worked on
the units it could. `Crash` ends a call between any two steps. `calm` says that spontaneous failures and crashes are
over; failures the manager has reasons for (an unknown unit, a torn file) go on.

The code takes every read that fails for a file that is not there, and so does the model while `Unreadable` holds and
`calm` does not: a call that reads its manifest may find nothing (`Sights`), a unit file that cannot be read does not
count as updated (`CompareUnit`), and a timer's target that cannot be seen is not linked (`SeenTargets`). A detach that
finds no manifest succeeds and leaves everything (`ReadNothing`); a reattach that finds none replaces the record of
units it has never taken down. `prior[a]` is what a call found.

Abstractions: a request's units are a function from unit to version (`Invalid` when the unit does not render);
the manifest is a set of names, empty when the file is missing or torn, because `readManifest` does not tell those apart
and no manifest without units is ever written; the two removals of a file (`rm` through the executor, then `rm` of
`node:fs`) are one.

### Ownership and UpkeepRefinement

`Ownership` is what upkeep promises about the unit directory, with commands, loops and stages left out: an application
asks for a set of unit texts; its request looks at the record of its owner once (`Look`), and finds all of it or, while
the world is not `steady`, possibly nothing; then files change one by one, and only where the record or the request
names them; the record is given up or replaced only when everything asked for is on disk and, if the call prunes,
everything else that was found on record is gone; and the application may be told of a failure at any moment. What is
not promised is said as well: a request for nothing that finds nothing is done (`Overlook`), and what a request does not
find is forgotten. `UpkeepRefinement` maps `Upkeep` to it: a call is *served* while its stage is not `idle`, it is
*looking* while it is `read`, it has *seen* `prior`, the record is the manifest, what is asked for is the request's
units, `clearing` are the calls that prune. The manager, the diff and the loops are hidden. The property is
`KeepsPromise`.

### UnitFile and ExecScan

Pure parts. `UnitFile` has the constructors of `SystemdService`, `SystemdTimer` and `Executable` (`Define`, `Freeze`,
`TargetUnit`, `Program`), rendering (`RenderUnitFile`, `StringifyUnitValue`, `ToExecStart`, `ShellQuote`), where
`logs()` looks (`LogStream`), and, external, how systemd splits a command line into words (`SplitNext` for a character,
`Splitting` and `Split` for a text). Nothing the library prints is escaped, so the text of an entry goes into the file
as it is, and `Split` says how far the line it begins goes: a newline ends it (and drops it, if it is in quotes), and a
semicolon that is a word of its own ends the command. `Split` gives the words of the first command. A word is a sequence
of characters, a name a sequence of parts; of the sections only `Exec` directives, timer targets and log files are kept.
`ExecScan` is the loop of `isAbsoluteExecCommand` as a state machine, one prefix per step; `Absolute` says without a
loop which lines it is to accept.

### SystemdCalls

The calls of `Systemd`, `Systemctl` and `notify` of one application, one after the other; `Invoke` makes a call and `pc`
is the stage it is at:

    materialize: mkdir -> (validate [-> scan] -> fill)*
    enable:      [collect -> link*] -> reload -> enable*
    start:       [collect -> link*] -> reload -> start -> show, and on failure diagShow -> diagStatus
    logs:        status, or readLog
    queries, notify: one command

`Build` and `Change` are the application, which builds definitions from a list and changes the list while `materialize`
waits for a file. To `Collect` a timer's target that `access()` fails for is not there; `unseen` keeps which ones were,
for the properties. `Answer` settles the promise of a command: success or failure, an exit status or a code of the
operating system, with output, with empty output (what `execFile` gives for a missing binary) or with none (what another
executor may throw). Errors are records of what the classes of `errors.ts` keep of their cause. `Upkeep` has the same
operations by their effect on the manager; here the manager is any sequence of answers.

### GuestShell

`class GuestShell` and the functions around it. Each JavaScript callback is an action: `Run` (a call), `Receive` (an
output chunk), `Timeout` (a timer and the handling of its rejection), `Exit` (an exit event), `CloseHost`. bash itself
is `Execute`: it answers a command with its output, the marker, the exit status and the final newline (`Answers`), and a
chunk is any prefix of what has not been read. A status that is not zero has up to three digits, a token each, as the
pattern of `onData` asks for one digit and takes those that have come (`Framed`, `MatchEnds`): a chunk that ends within
the status settles the call, and the other digits and the newline stand before the output of the next.

### TestHost

`ensureTestHost()` in several test processes (`Procs`) that share a host, a Docker container or a Colima VM (`backend`).
`pc[p]` is the command of the bring-up that a process is at: for Docker

    build -> inspect -> [remove -> run] -> uid -> home -> session -> mkdir -> probe

and for Colima `status -> [start] -> probe`. `ensured[p]` is the promise `ensuredHost` keeps for the life of the process,
a rejected one too. A process reaches the host by name, so every command works on the host that has the name at that
moment. `Inspect` and `Status` count a failed query as "not running"; `RemoveExisting` ignores its failure, and takes a
running container and its units down; `RunFails` may leave a container that does not run. `Boot`, `UserManagerUp` and
`HostStops` are the host's own steps and external: init must be up before a session can be started, and the user manager
comes up some time later, or not at all. The uid that may be configured instead of looked up makes one command less.

### Sandbox

`sandbox.ts` over `TestHost`, which it extends: `Create` and `Make` are the two halves of `createTestSandbox()` around
its await; `Destroy`, `List`, `StopUnits`, `DisableUnits`, `Refresh` and `RemoveDir` are `destroyCurrentTestSandbox()`,
which forgets the current sandbox first. `CommandLost` is a command that is rejected and thrown to the test, before or
after it took effect. A `systemctl` that fails is not heard of, because of `2>/dev/null` and `|| true`: with the manager
away it does nothing, and with the manager up it may fail as well (`FailsUnheard`), which leaves the unit. A sandbox
stands for one unit. Directories lie in a volume and outlive the container; links and running units do not. `fate[b]`
records how a sandbox ended, for the properties: *left* is one whose unit such a failure may have left. `Launch`,
`Retire` and `Restart` are the tests themselves: they link and start a unit, stop and unlink it, and a process ends or
is killed and is run again.

### ManpageCache

Runs of `fetch-manpages.ts` (`Runs`) over one cache directory: `record` is the manifest, `tree` the published source
tree, `tarball` the archive, `part` the temporary file both of two overlapping runs write. Every `await` of the script
is a step (`ReadRecord`, `Probe`, `ResolveRelease`, `FindTarball`, `Respond`, `OpenPart`, `Stream`, `RenamePart`,
`Stage`, `Extract`, `Discard`, `Validate`, `Clear`, `Place`, `WriteRecord`), any of which may fail (`StepFails`,
`DownloadFails`) or be the last one of a process that dies. To `exists()` a file whose `stat()` fails is not there, so a
run may download beside a tarball it has. What is downloaded may be an archive that does not extract (`corrupt`) or one
that extracts to a tree that does not validate (`hollow`). Files are inodes: a run goes on writing the file it opened
after another one has renamed it.

### WorkflowUpdate

Runs of `update-workflows.node.ts`. A file is a sequence of lines, and a line is what the script's patterns see: a use of
an action with ref and version comment, a `version:` line, or other text, each with its indentation. `Begin` takes the
inventory, `ListTags` and `ResolveTag` are the requests of a group, which interleave with those of other groups and with
releases (`Publish`) and tags that move (`MoveTag`); `LookUpMise`, `Plan`, `Truncate` and `Fill` follow. `Later` and
`Latest` are `compareVersions()` and `selectLatestTag()` on versions as records of numbers. `Crash` leaves the beginning
of the file that was being written: some of its lines (`Leave`), of which the last may be cut inside its version
(`LeaveCut`). `CutVersions` are what the patterns make of such a line: 2026.10.25 may be left as 2026.10.2, a comment as
none that is a version. `torn` keeps where such lines are, for the properties.

### MC modules

Each MC module builds what the instances are made of (requests, commands, lines, releases). The `.cfg` files give the
values.

## What is checked

Upkeep, passing runs:

- **upkeep_timer** (533,288 states). One application, a timer and its service, `linkUnits`, five kinds of request (one
  of them refused), failures, failed reads and crashes everywhere. `Installed`: success means the manifest and the files
  are the requested ones. `InEffect`: success with `enable` means links for all units, and no older definition in the
  manager. `DetachLeavesNothing`: a default detach leaves no trace of the units it found in its manifest.
  `RestartedRunsNew`: a reattach with `enable` and `restartUpdated` leaves no unit it found changed on its old
  definition. `TakesDownOnlyOwned`: no step stops, disables or deletes a unit outside the owner's manifest or inside the
  wanted set. `KeepsPromise`: every behaviour is one of `Ownership`. `RetryConvergesOrStranded`: once failures cease,
  calls succeed again and again, unless the application only makes calls that are refused, or the manifest for ever
  names a unit that stop or disable may refuse (`Stranded`): one that a dead call has taken away or left half written,
  or, with `linkUnits`, one that no call has linked. The last needs no failure: a unit that was reattached without
  `enable` and `start` is not visible to the manager, a default detach is refused its disable, and so is every retry.
- **upkeep_owners** (481,766 states). Two owners on one directory and one manager: the inductive invariant `Inv`, and
  `OthersUntouched`.

Upkeep, runs that find a disagreement between the code and what its documentation says (`findings` in `PROJECT.json`); in
both every read succeeds (`Unreadable = FALSE`), so a failed command or a crash is all they need:

- **upkeep_lost_restart**: a reattach that fails after writing makes its retry see no change, and nothing is restarted.
- **upkeep_wedge**: after a crash between prune and manifest, every retry fails on stopping a unit that is gone.

Calls of `Systemd`, `Systemctl` and `notify`:

- **systemd_calls** (291,906 states). Two definitions, two calls, four lists of `Exec` entries, six answers.
  `ScanDecides`: the scan accepts exactly the absolute command lines. `OnlyAbsoluteWritten`: no unit file gets an `Exec`
  entry of which the manager would not make an absolute command first; of the line after a newline in an entry, and of
  the command after a semicolon on its own, nothing was checked and nothing is claimed. `MaterializedAsBuilt`: after a
  `materialize` the files are those of the definitions as they were built. `WordsArrive`: the manager runs a program
  with the words it was defined with, blanks, quotes and semicolons included, but for a newline, which ends the line.
  `TargetsLinked`: what an enabled or started timer triggers is linked too, if `fileExists` sees it. `ReasonSurvives`:
  an error of `enable`, `start`, a query or `notify` says about the environment, and prints, what the command at its
  root did; `logs` is left out, because it hands on neither the reason nor the code it is read off, and loses the reason
  of a command that failed without output. `DiagnosticsKept`: a failed start reports everything its diagnostic commands
  printed. `LogsAnswered`: `logs` gives what `status` printed whatever its exit status, and the end of a log file.
  `CallsReturnOrHang`: a call returns, or a command never does.
- **systemd_logs_missing** finds a disagreement: a missing log file is reported as a missing command, and a missing
  `systemctl` as an empty log.

Guest shell:

- **guest_shell** (182,139 states). `ResultIsOwn`: a call that comes back has its own output, and resolves exactly if
  its own status is zero; of other commands it has at most the further digits and the newline that a chunk cut off.
  `Accounted`: each waiting call is held by exactly one shell that has not exited. `WarmIsLive`: the warm shell takes
  commands. `Settles`: every call comes back.

Test host and sandbox:

- **test_host** (286,012 states). Two processes, two sandboxes, both backends. `CurrentExists`: the sandbox a test uses
  has its directory. `DestroyedIsGone`: a sandbox that was destroyed without an error has no directory and, in a
  container, no unit, unless a `systemctl` failed unheard for it. On a Colima VM units may be left in other ways too:
  the links lie on its disk, and a call that finds no user manager skips them and succeeds. `EnsureSettles`: every
  `ensureTestHost()` settles, when the user manager hangs as well. `HostComesUp`: processes get a ready host again and
  again, unless init or the user manager never gets up, or the processes keep removing each other's container. The last
  exception is real: with two processes TLC finds that cycle when it is left out.

Manpage cache:

- **manpages_alone** (45,358 states). One process at a time; overlapping ones are left to the proofs. `TreeValidated`:
  only validated trees are published. `TarballComplete`: what has the tarball's name was downloaded to its end.
  `SuccessIsCached`: a run that reports success leaves a validated tree and a manifest that parses.
  `RecoversUnlessPoisoned`: once disturbances cease, runs succeed again and again, unless the manifest is torn or the
  cached archive is one that extracts to a bad tree, which the script never throws away.
- **manpages_torn**: a manifest cut short makes every later run throw instead of fetching again.

Workflow updates:

- **workflow_update** (226,814 states). Two files, three repositories, one of them without a tag that is a version, a
  moving prefix tag, a prerelease, a comment that is no version. `Pinned`: a successful run during which nothing was
  released leaves each use it looks at on the newest stable release and that release's commit. `NeverBack`: no run
  replaces a release by an earlier one, except in the line that its death cuts, where the beginning of a version may be
  an earlier one. `OnlyMiseVersions`: in files where steps name themselves first, only versions of mise are rewritten;
  the cut line is left out here too. `VersionsConverge`: once releases and failures cease, all uses come to name the
  newest release, torn files and half-done runs notwithstanding.
- **workflow_mise**: with steps that begin with `- uses:`, the script rewrites the version of the step after mise's.

### Bounds

Two units and two versions are enough for a unit that is kept and one that goes, and for an old and a new text; the
timer instance adds the one dependency the code knows. Two owners are enough for any pairwise interference, which is
what `OthersUntouched` and `Separate` are about. The requests of an instance combine the options that change the path of
a call. Reads may fail in the two passing runs (`Unreadable`). Calls repeat without bound. In the guest shell three
commands give a running, a queued and a late one; two shells an old and a current one (`MaxShells`; the safety
properties also held with three, in 1,640,006 states); commands are called once each, so a run ends and `CHECK_DEADLOCK
FALSE` is set.

The calls of `SystemdCalls` take two definitions (`MaxUnits`), so that one shares its filename with another, comes after
another in a loop, or is what a timer triggers, and two calls (`MaxCalls`), so that a unit is written before it is
enabled. `start` and `logs` are made for the definition built last (`Newest`); the other has been that in another
behaviour. The application changes its list only while a file operation of `materialize` is pending, as a change at
another time is as if the call came later. An application that has made its calls stops, hence `CHECK_DEADLOCK FALSE`.
The six answers are one for each way a command can end that the code tells apart. Lines of the scan have up to four
characters; the proof covers all others.

Two processes and two sandboxes give every race for the host and a sandbox of a dead process beside a live one; each
sandbox is used once, as its id is random. `Attempts` is 2 rather than 30: one probe that is repeated and a last one.
The manpage runs repeat without bound over one release. Numbers of a version that is cut have up to four digits
(`Beginnings`). In the workflow instance one release of an action and one of
mise appear, in any step, and tags move once (`MaxMoves`); runs repeat without bound.

### Fairness

Upkeep: `WF(Step or Call)` per process says that commands return, the event loop resumes the call, and an application
whose call ended makes another; `WF(Settle)` says failures cease. Nothing is assumed about the manager's own steps.
`SystemdCalls`: `WF(Step)`, the event loop resumes a call whose promise has settled; commands owe nothing, because no
timeout makes them answer. Guest shell: bash gets to commands that do not hang, pending output is read, timers fire, a
killed process exits. Nothing forces a call to be made. Test host: commands return, tests end and processes are run
again, failures cease; nothing makes a host, its init or its user manager come up, which is why `HostComesUp` names
them. Manpage cache: the script is run again and again and its steps return, and disturbances cease. Workflow updates:
requests are answered, the script is run without `--dry-run` again and again (strong fairness, because dry runs may come
in between), and disturbances cease.

## What is proved

`UpkeepProofs` proves, for every set of applications, owners, units, versions and requests that satisfies the
assumptions of `Manager` and `Upkeep`:

- `TypeCorrect`: `Spec => []TypeOK`; in particular no file ever holds the text of a unit that did not render.
- `InstalledCorrect`: `Spec => []Installed`.
- `OwnedCorrect`: `Spec => TakesDownOnlyOwned`.
- `UntouchedCorrect`: `Spec => OthersUntouched`.
- `InEffectCorrect`, `RestartedCorrect`, `DetachCorrect`: `InEffect`, `RestartedRunsNew` and `DetachLeavesNothing` hold in
  every reachable state.

`Installed` is not inductive: when `record` is reached, the files must already be the requested ones. `Inv`
(`UpkeepInvariant`) adds why. `Placed` relates the stage to the loop variables, `OnFile` says that what the writing loop
has visited holds its text up to the end of the call, `Current` says that while a call takes units down its `prior` set,
if it found one, is still the manifest of its owner, `Recorded` that owners' manifests name only units their
applications use, `Accepted` that a running call's units rendered. The proof splits into types (`TypeStep`), control
(`ControlStep`) and one lemma per conjunct. The effect lemmas (`FilesEffect`, `ManifestEffect`, `ActiveEffect`,
`EnabledEffect`, `DeletedEffect`) say once which steps change what, so that frame arguments need no case split over all
actions. The two action properties follow from `Inv` and these lemmas. `Inv` is also checked by TLC.

What a call has made of the manager is a second invariant, `Effects`, inductive beside `Inv` (`EffectsHold`).
`Effective` follows a call that installs: after the reload the manager holds no other definition of a wanted unit than
the requested one; then the units enabled so far are linked, then all; then no updated unit runs an old definition.
`Dismantled` follows a detach in the same way from the stop to the empty manifest. `Prepared` says what a call has not
done yet. A loop of a call runs one command per step (`Commands`), other applications leave the units of a `Separate`
one alone (`OthersLeave`), and each conjunct then needs one case per stage.

`UpkeepRefinementProofs` proves, if no application touches another's units (`Separate` for every one of them):

- `PromiseKept`: `Spec => KeepsPromise`, that is, `Upkeep` implements `Ownership`;
- `ClearedCorrect`: `Spec => []AllCleared`: of what a call found in its manifest and does not want, what the pruning loop
  has visited is gone and stays gone.

`Inv` does not say that pruning is complete when the manifest is rewritten; `AllCleared` does, and is inductive beside
it. Then each action maps to one of `Ownership` or to a stutter: the two ways of reading a manifest to `Look` and
`Overlook`, the end of failures to `Steady`, the file actions to `Put` and `Delete`, the manifest to `Erase` and
`Succeed`, failures and crashes to `Fail`, and the manager's commands to nothing (`QuietStep`).

`UnitFileProofs` is about the text of a unit file. `PrintedIsRead`: what `ToExecStart` prints for an Executable whose
words have no backslash and no newline, `Split` reads as exactly these words, for any number of words of any characters
and lengths. The library has no induction that the provers can use, so the module proves one for sets of numbers from
the well-foundedness of `<` (`Induction`: else there were a least number that is not in the set), uses it to show that
`Splitting` has the value its recursive definition says (`SplittingSteps`) and that `FlattenSeq` appends one part after
the other (`Flattened`), and then follows the splitter through a quoted character, a quoted word and a line
(`ReadQuoted`, `ReadWord`, `ReadParts`). `FirstBeginsOn` says that the first word keeps its beginning to the end of the
text, or that the line was dropped.

`SystemdCallsProofs` proves, for any options, lists, units, calls, log files and answers of commands:

- `ScanCorrect`: `ScanSpec => []ScanDecides`, and `DecidesCorrect`: the scans of the calls decide right as well. Only
  prefixes lie behind the scanner (`Behind`), and a privilege prefix behind it is not the first half of a `!!` it stands
  in (`Barred`), without which a second one could not be refused.
- `PassedCorrect`: nothing is written of which an entry has not passed the check; with the lemmas of `UnitFileProofs`,
  `AbsoluteCorrect` (`OnlyAbsoluteWritten`, which is about the first command of an entry) and `WordsCorrect`
  (`WordsArrive`).
- `MaterializedCorrect`, `TargetsCorrect`, `ReasonCorrect`: `MaterializedAsBuilt`, `TargetsLinked`, `ReasonSurvives`.
- `DiagnosticsCorrect`, `LogsCorrect`: the action properties `DiagnosticsKept` and `LogsAnswered`.

The invariant `Inv` has nine parts. `Given`, `OnStage` and `Placed` say what a call was given, which stages belong to it
and that its indices are in range; `ScanInv` is the scanner's; `Validated` says that the entries behind the check have
passed it, `Progress` which units are written and that the one being written has the text it was built with; `Followed`
that what is still to be linked and what is linked make up what has to be; `Caused` that an error being handled has the
reason and the output of the command at its root; `Noted` which diagnostics are in. `SystemdCallsAssumption` is what
TypeScript's types say of the constructors' arguments and that the number of lines asked for is not negative.

`GuestShellProofs` proves for any number of commands and shells, and any chunks of output:

- `TypeCorrect`: `Spec => []TypeOK`;
- `AccountedCorrect`: `Spec => []Accounted`, so no promise is dropped;
- `WarmCorrect`: `Spec => []WarmIsLive`;
- `ResultCorrect`: `Spec => []ResultIsOwn`, so a caller gets the output of its own command and learns how that ended.

Its invariant adds to the types that only shells that are up hold calls (`Made`), and takes `Accounted` apart into
`Waited`, `Apart` and `Once`. All steps of a shell are an `Exchange`: it gives up calls that come back and takes over
calls that were not waiting. `HeldCount` counts them at the end. For `ResultIsOwn` the invariant `Framing` adds
`Streams`: what a shell has said and the host has not used up, in the buffer and in the pipe, begins with at most the
digits and newlines of earlier answers, and then there is nothing or the complete answer to the current command. A shell
whose command timed out is excepted, and the invariant says why that does no harm: it is not the warm one and is sent
nothing any more.

`ManpageCacheProofs` proves, for any number of overlapping runs and any archives,

- `ValidatedCorrect`: `Spec => []TreeValidated`. The invariant `Valid` adds that what a run has staged, from its
  validation to its move, is whole.
- `TypeCorrect`: `Spec => []TypeOK`. A download needs a file nobody uses; `Writing` says that only a run that streams uses
  one, and `UnusedFile` counts.
- `TarballCorrect` and `CachedCorrect`: `TarballComplete` and `SuccessIsCached`, which are about a run that is alone;
  `Alone` says what it knows of the disk at each stage.

`SandboxProofs` proves, for any number of processes and sandboxes and any number of attempts,

- `TypeCorrect`: `Spec => []TypeOK`;
- `CurrentCorrect`: `Spec => []CurrentExists`;
- `DestroyedCorrect`: `Spec => []DestroyedIsGone`, with the exception of unheard failures that it states.

Its invariant `Inv` says that processes hold disjoint open sandboxes (`Held`, `Apart`), that in a container only linked
units run and none is linked unless its user manager is up (`Contained`), and that what a call has taken down stays down
(`TakenDown`) unless a failure is on record for its sandbox. `Aside` collects what the host and `ensureTestHost()`
cannot do to a sandbox, so that only the steps of tests need a case each.

`WorkflowUpdateProofs` proves, for any workflow files, repositories and releases, for runs that die anywhere and releases
and tags that appear or move while a run works,

- `TypeCorrect`: `Spec => []TypeOK`;
- `PinnedCorrect`: `Spec => []Pinned`;
- `NeverBackCorrect`: `Spec => NeverBack`, in every line but the one the death of a run cuts;
- `OnlyMiseCorrect`: `Spec => OnlyMiseVersions`, under `ReachIsStep`: in the files, a version that is in reach of a use of
  mise stands in the step of that use. The workflows of the repository and those of `workflow_update` are so; those of
  `workflow_mise` are not, and there TLC finds the property violated.

The thought is that what a run knows of a line stays true until it writes the line, and that releases only appear. `Inv`
says it in nine parts: files keep their shape (`Shaped`, `Typed`), no line but a use that was cut is ahead of what is
published (`Known`), the inventory agrees with the files that are not yet written (`Inventory`) and the lines that are
written with what was looked up (`Updated`, `Resolved`, `MiseResolved`), and what a run that succeeded undisturbed has
left (`Settled`); `Reached` says where versions of mise were found. `Later` is shown to be a strict order (`LaterMeans`,
`LaterFacts`), and that there is a latest among the eligible tags (`SomeLatest`) by the same induction as above. The
assumptions say that a version pattern matches numbers, that a use is of an action that has a repository, and, in
`PinnedIsPublished`, that what the files pin to begin with is released.

Every inductive invariant was checked by TLC on the instances of its runs before it was proved.

All safety invariants and action properties of the passing runs are proved. Only model-checked is liveness
(`RetryConvergesOrStranded`, `CallsReturnOrHang`, `Settles`, `EnsureSettles`, `HostComesUp`, `RecoversUnlessPoisoned`,
`VersionsConverge`): it rests on fairness and `ENABLED`, which the prover does not do.

## What is not modelled, and the plan

Not modelled:

- compile-time types, `index.ts`, build and CI configuration, the test harness, which passes commands on;
- how `defineExecutable` infers the module path from a stack and whether the module is the main one: a path is given,
  inferred or missing (`Program`);
- wording: messages, argument lists, the sections of a unit file other than `Exec` directives, timer targets and log
  files; the characters `\`, `%` and `$`, to which systemd gives a meaning and the library does not (`Plain` excludes
  them);
- what the manager makes of a line that a newline in an entry begins, or of a command that a semicolon on its own begins.
  The library neither checks nor escapes them; `Split` ends there, and `Plain` excludes the newline.

One more disagreement is modelled and has no run: `systemctl is-active` prints the state and exits with a status of its
own for a unit that is not active, and `Query` returns an error with the state in its output, where the comment of
`isActive` says that the state is returned.

Hazards no property covers: a call that cannot read its manifest goes on as if it had none, a detach then succeeds and
leaves everything, and a reattach drops units from the record that stay installed; an `attach` over the manifest of
other units drops them from the manifest while they stay installed, and two processes with one owner work on each
other's manifest. The code does both, and nothing it is documented to do contradicts it. In the guest, a command without
a timeout waits as long as the guest does (`Settles` is about commands bash gets to); a run of the manpage script that
is killed leaves its staging directory, which no later run removes.

The plan, in order:

1. (done) `Manager`, `Upkeep`, its proofs; `GuestShell`, its proofs; `ManpageCache`, its proofs; `TestHost` and `Sandbox`,
   their proofs; `WorkflowUpdate`, its proofs; `Ownership`, the refinement and its proof; `UnitFile`, `ExecScan` and
   `SystemdCalls`, their proofs.
2. Proofs: the safety half of the liveness results, that is, that a call which is not at rest is always at a stage whose
   step is possible (`Upkeep`, `WorkflowUpdate`); an abstract specification of the guest shell, a queue that answers
   each caller once, and that `GuestShell` implements it.
