# A verification development for struktly

TLA+ models of the parts of struktly in which something can go wrong between
two steps: the task lifecycle and the discovery of tasks, context selection,
packet building and comparison, the MCP server, the verification of Records,
the files that `init`, `scan` and `suggest-instructions` write, and the command
line itself, from the arguments to the exit code. TLC checks each model on small
instances; TLAPS proves the safety properties of every passing run for all values
of the constants, some under the assumptions that "Proofs" names, and all of its
liveness properties but fairness. `PROJECT.json` maps every definition to the
lines it stands for, and lists the runs, the hazards, the theorems and the
disagreements found between the code and its documentation.

## The system

struktly is a command-line program over one Git repository. It keeps no state
of its own between two commands: what persists is files (`.struktly/tasks`,
`.struktly/context-packets`, `.struktly/scans`, the user's Markdown and Go
files) and Git. There is no lock, so any two commands, the user's editor and Git
interleave.

| Part | State | Operations | What is hard | What makes it correct |
|---|---|---|---|---|
| Task lifecycle (`archive.go`) | task files in two directories, links to them everywhere | `tasks complete`, `tasks archive` | three kinds of write with no transaction; kills; reruns; other commands | no body is lost, no slot is overwritten, links resolve, a rerun converges |
| Task discovery (`task.go`, `archive.go`) | the task directory | `tasks`, `validate`, `archive --check`, the lookup of `complete` | four readers with four rules; files that change while they are read; two files that claim one id | every file is reported once; the readers agree where they must |
| Selection (`selection.go` and helpers) | candidates, limits, items, audit records | one pass over ranked candidates, a second over import neighbours; `explain` | three limits, an index that stops, two reads of a file, cuts inside characters | limits hold, rank is respected, everything is accounted for, nothing unscanned is emitted, `explain` agrees |
| Packet building (`brief.go`, `packet.go`, `repository.go`) | one packet in memory; two exports per name | `Brief`, `--stdout`, `--no-write` | HEAD and files change between reads; two builds share a name | the revision is the one asked for; exports agree; nothing unscanned leaves |
| Packet diff (`diff.go`) | none | compare two stored packets | a field or a path that is left out of the comparison | the diff leads from one packet to the other |
| MCP server (`internal/mcp`) | the stream, the running call | `ping`, `tools/list`, `scan`, `context_brief` | oversize and malformed lines, notifications, failing calls | one answer per request, in order; it keeps serving |
| Record verification (`verify.go`) | the report | `verify` | a check that is not made looks like one that passed | exit code and report agree; intact means hashed |
| Init, scan, suggestions (`init.go`, `scan.go`, `snapshot.go`, `suggestions.go`) | the configuration, two files of a scan, three drafts | `init`, `scan`, `suggest-instructions` | several files in place without a transaction; a configuration the user owns; a revision read in three visits while branches change | nothing secret is quoted, the revision is one HEAD was at, the outputs agree after a rerun, the user's configuration stays |
| Command line (`main.go`, `require.go`) | one invocation | flags, work, report, verdict, exit code | streams that break midway; errors before the flags are known | the exit code and the streams say what happened |
| Intel (`intel*.go`) | none | hand over to the platform's binary | four places to look, two ways to run it | the named binary, its exit code |
| Schema validator, frontmatter and path helpers, configuration | none | pure | recursion over JSON and strings | inputs of the models above |

The parts meet in four places. Packet building runs a selection; the MCP
server's `context_brief` is one build beside any number of others; `init` ends
with a scan, and the drafts quote what a scan wrote; every part reads the same
working tree that the lifecycle rewrites. The command line is in front of all of
them: there the work of a command succeeds or returns one of the errors it can
return, and the other modules say what the work is.

## Modules

    TaskFiles ── TaskLifecycle ── MCTaskLifecycle        TaskBoard (abstract)
                     └── TaskLifecycleProofs                 ^ refined by TaskLifecycle
    TaskDocuments ── MCTaskDocuments, TaskDocumentsProofs
    Selection ── MCSelection, SelectionProofs
    PacketBuild ── McpServer ── MCMcpServer, McpServerProofs
         └── MCPacketBuild, PacketBuildProofs
    RecordVerify ── MCRecordVerify, RecordVerifyProofs
    Workspace ── MCWorkspace, WorkspaceProofs
    PacketDiff ── CommandLine ── MCCommandLine, CommandLineProofs

**TaskFiles** holds the files and the pure functions over them. A task has a
live and an archive slot; a file has an id, a status, a body (the number of the
user's save it comes from) and, for every task, the form in which it links to
it. `rewriteTaskLinks`, `ReplaceCitations`, `completedTaskContent` and
`misfiledTasks` are the functions of those names. The statuses `draft`,
`ready`, `in-progress` and `blocked`, which the lifecycle never tells apart,
are "open".

**TaskLifecycle** has one process per running command. Each action is one visit
to the file system: `StartComplete` reads the live file, `AcceptCompletion` looks
at the slot, `Pass`, `Read` and `Save` walk the repository, `WriteSlot` and
`Remove` (or one `Rename` per task) do the move. `Stop` is a kill or an error
between two steps, `Tear` the same inside `os.WriteFile`. The user edits live
tasks while no command runs and reruns what failed. `tasks archive --check`
writes nothing and is not a process here.

**TaskBoard** is what the two commands promise: completing sets the status and
files the task in one step, a sweep files what is finished, and what is filed
stays. TaskLifecycle implements it under the mapping `BoardOf`: while a live
file exists it speaks for the task, so the moment of the move is the removal of
the live file.

**TaskDocuments** is the reading side of the same directory. A command lists it
once and visits one name after another, in name order; `loadTaskFile` is two
visits, the look at the file (`Lstat`) and its reading (`Load`). A text is what
its refusals tell apart: the id, the required fields, the status, the optional
fields, and the body as the sequence of its sections, which `validateTaskBody`
and `parseTaskContract` read. The four commands differ in what their listing
skips (`Skips`), in what they ask of a file (`Accepts`, `Misfiled`,
`DeclaresWanted`), in where `--root` leads them (`InTasksDir`) and in whether a
refusal ends them (`Refused`).

**Selection** is `selectPacketContext`. A file is what selection can tell of it:
what its path answers (`named`) and what its text answers (`evidence`), its size
and character width, where a secret ends, whether it is Go, how long its
declarations are, what it provides and refers to. The text counts only for the
files that the index reads before it stops (`Indexed`, `MaxIndexed`), in path
order, while `explain` reads its one file whatever came before it: `FoundBy` has
both. The ways out of `admit` are the actions `AdmitFails`, `Exclude`, `Omit` and
`Include`; `Expand` is the second pass. How words of a request are tokenised and
matched is not modelled: the match is an input. `ExplainSelection` is the
command `explain` over the same state.

**PacketBuild** is `Brief` by several processes. What matters here is when each
thing is read: HEAD at the beginning, HEAD for the packet, the headings and
declarations that files are matched by (`ReadNames`), the prefix of a file, the
whole of a Go file again, the names of import neighbours and then their content
(`Expand`), HEAD at the end, then two exports and their read back. What a file was
found by stays with it in `location`, as of the version it was read at. `LeaveOut` stands for every reason of module Selection to leave a file
out. A Markdown export is identified with the packet it renders. `shared` is a
ghost variable: the names that a second build started to write.

**McpServer** extends PacketBuild by one process that reads a script of lines,
and implements it: whatever the server does is one of concurrent builds.
The id of a request is its place in the script. A scan is a call that succeeds
or fails. A killed server and a broken output stream are not modelled; a failing
system call inside a brief is (`Stop(Server)`), and becomes a tool error.

**RecordVerify** is `verify`: read, four checks, conclude, print. A digest stands
for the bytes it is the digest of. `wellFormed` is everything the published
schema asks that the other fields of a bundle do not already say.

**Workspace** has one process per running `init`, `scan` or
`suggest-instructions`. `gitRevision` is three visits (`ReadHead`, `ReadLoose`,
`ReadPacked`) and is asked twice by a scan; each quoted file is one (`ReadInput`), and
one read serves the guard and the quotation. HEAD names a branch or is detached, and
a branch is a loose ref, a packed one or both. The user commits (`Commit`), checks out
a branch or a revision (`Checkout`) and makes, moves or deletes a branch that HEAD does
not name (`ChangeBranch`); packing (`Pack`, `Prune`) writes the packed refs before it
removes the loose ones. `unfinished` is what a caller has to rerun. `declared`, `raced`,
`overlapped`, `during` and `overtaken` are ghosts. A plain directory is
`HeadRevision = 0`, and so is a repository without a commit: the code does not tell
them apart either.

**PacketDiff** holds `DiffPackets` as operators over two packets, and what a reader
may conclude from a diff (`Exact`). **CommandLine** is one invocation. `Parse` is
Cobra; `Check` the contradictions and `--require`; `WorkFails`, `WorkSucceeds` and
`WriteFile` the command; `ReportJson`, `ReportLine` and `Confirm` its streams;
`Verdict` the gates; `Settle` is `runCLI`. `HelpText`, `Locate` and `HandOver` are `intel`.
`status` stands for the commands that only read: `version`, `status`, `explain`,
`validate`. Every write to a stream may fail, for a moment or for good.

## Runs

| Run | Question | Bounds | Distinct states |
|---|---|---|---|
| `Crash` | do interrupted and rerun commands keep links and bodies, and implement TaskBoard? | 2 tasks linking to each other, a README citing both; every placement; 2 interruptions, 1 edit | 63,132 |
| `Concurrent` | what survives two commands at once? | 2 symmetric processes, 2 tasks, 1 kill | 830,006 |
| `Converge` | does every interruption converge? | 1 process, 2 interruptions, torn writes that keep the frontmatter | 33,540 |
| `Selection` | limits, rank, accounting, scanning, explain | 3 files of 13 kinds, an index that stops after 2, all seeds, 6 sets of limits | 435,691 |
| `Packets` | what do concurrent builds hand out? | 2 symmetric builds, 2 slugs, a file found by a name, 2 saves (a secret in the tail at first, one in the head of version 1, none in version 2), 1 move of HEAD, 1 tick, 1 stop | 3,190,117 |
| `Mcp` | is every request answered, in order? | 4 scripts with all 11 kinds of line, one command beside the server | 971,745 |
| `Record` | does the exit code say what was found? | 9 payloads, 2 executions, 2 revisions, every manifest | 108,000 |
| `Discovery` | what is reported, and do the readers agree? | 3 names of which two may claim one id, a reserved one, 19 entries, 3 places of `--root`, a listing beside each reader, 1 change | 2,131,382 |
| `Workspace` | what do interrupted and rerun writers leave, and which revision do they name? | 1 process, 2 inputs, 2 drafts, 2 interruptions with torn writes of every output, 2 branches in 3 sets of refs; 1 save, 1 commit, 2 changes of branch and 1 packing, of which 2 in one behaviour | 2,045,383 |
| `CommandLine` | do exit code and streams say what happened? | every command with every set of its flags, 2 files, 3 lines, all places of the binary, diffs of all pairs of 36 packets | 32,328 |

`Selection`, `Packets`, `Mcp`, `Record`, `Discovery` and `CommandLine`, and the two runs of a violation, stop when
their commands have ended, and switch deadlock checking off where they do.

Why the bounds are enough. Two tasks make a link in each direction, a batch of
two and a slot taken for one of them; a third task adds no new pair. Two
interruptions let a rerun be interrupted itself. In `Selection` the limits are two
items, four bytes a file and seven in all, so that the third file meets every
one of them, a file of six bytes is cut, and a two-byte character straddles a
limit; the index stops after two files, before the one that comes last. In `Packets` two builds share a second, the hardest case for names, or
have one each; their slugs are equal or differ; and a file has a secret past the
prefix at first, one inside it in version 1 and none in version 2, so that a secret
comes and goes between any two reads of a build. In `Discovery` the file that may
shadow a task sorts before it, and one change falls between any two visits of two
commands. `Workspace` runs one process so that liveness stays checkable with torn
writes; its safety properties are proved for any number of processes. Two events
suffice to lead `gitRevision` astray, a checkout and a change of the branch left. In
`CommandLine` three lines are a first, a middle and a last one, which is what the
commands' reports tell apart. The counters (`stops`, `edits`, `saves`, `moves`, `builds`,
`commits`, `switches`, `packs`, `clock`, and `MaxEvents` over four of them) bound the environment and nothing of the program.

Each property was also checked against a plausible bug, as the mutants in
`PROJECT.json` list. The type invariants are proved rather than run; that of
McpServer is both.

### Where the code and its documentation part

These runs check one property each, and TLC finds it violated.

- `TornBody`: a completion torn inside its archive write leaves a slot with the
  right id and half a body; the rerun takes it for finished and removes the live
  file. The contract says the live file stays whole until that write succeeds.
- `TasksRoot`: below the top level of a repository, `tasks`, `tasks archive` and
  `tasks complete` read a directory that is not there, although the contract says
  that `--root` resolves to the top level for every command.

Others were met on the way and are stated as exceptions of the properties, or in
the hazards, rather than by runs of their own:

- A completion torn before its archive write put anything on disk leaves an empty
  slot, and every rerun is refused (`archive.go:373`).
- At the item limit a Go file with a secret past its prefix is counted among the
  files that did not fit, not as excluded (`selection.go:753`).
- A file that the content index stopped short of can be matched by its path or as
  an import neighbour only, yet `explain` reads it as if there were no limit and
  answers with what its text says (`symbols.go:70`, `selection.go:1008`). The contract
  says that both use one classifier (`docs/integration-contract.md:353-354`); it states
  the limit too (line 452), and a packet warns of it, but an explanation does not.
  `ExplainMatchesItems` excepts these files (`Overlooked`).
- The heading or the names by which a file was found leave in `provenance.location`
  (`selection.go:367`), and they are of an earlier read, which nothing scans: what
  was a secret in them then leaves, if the user has saved the file without it before
  its content is read. `CarriesOnlyScanned` says of names only that the scan of the
  content covers them while the file stays as it was, and of content that it never
  leaves unscanned, which is what the contract says (lines 358-359). A heading can
  also leave unscanned, without a save, when a caller asks for a per-file limit that
  ends before it; the model takes the names to lie in what is scanned.
- HEAD goes to B and back to A during a build pinned to A: the packet names B
  (`selection.go:221`). `RevisionPinned` supposes that HEAD never returns.
- A Record of another schema than its manifest says, or with a revision that does
  not decode, is intact (`verify.go:280`).
- A repository path with brackets is pattern text to `validate`: it finds no tasks
  and accepts (`task.go:99`). `ValidMeansListed` is stated for other paths.
- `taskByID` hands on the text it read first, and checks another reading of the
  file (`archive.go:303-324`): a save in between is filed unchecked.
- The Markdown of a scan and its snapshot ask for the revision separately: a first
  commit in between makes one call the directory a Git repository and the other
  not (`snapshot.go:122`). `OutputsAgree` compares what they quote.
- Between the reading of HEAD and that of the ref it names (`snapshot.go:203`, `226`)
  the user can check out another branch and then move or delete the first one: a
  repository with commits is taken for a plain directory, or the answer is a revision
  HEAD was not at. `RevisionWasCurrent` excepts exactly this (`overtaken`).
- A bundle whose reading fails with an error of the file system exits 1
  (`verify.go:204-207`), where the contract says 2 for one that could not be read
  (`docs/integration-contract.md:388-389`). `ExitSaysWhatWasFound` says what 2 means, not
  that every such bundle ends with it.
- A configuration whose write was torn is kept by every later `init`, and a torn
  project context is read as one without commands.
- Lines that `tasks complete` loses between the first and the last of its report go
  unnoticed (`main.go:412`).
- On Windows a platform binary that cannot be run ends with exit 1 and an error
  document, not with 126 (`intel.go:269`).
- A decision whose detail alone changed is not shown by `diff` (`diff.go:228`).
- A cancellation during the second subprocess of Git exits 1 instead of 130
  (`repository.go:83`).

Two more limits of what holds are assumptions of passing runs. `LinksResolve`
needs the user to rerun an interrupted command before filing another task
(`RerunFirst`): otherwise links that the first run pointed at a path that does not
exist yet are left as written and stay broken. And no run lets the user save a
task while a command of the lifecycle runs (`MayEdit`): a lockless rewrite cannot
keep such a save.

Five properties say less than their hazards might suggest. `BodySurvives` is about the
body of a task: that a live file reappears beside its filed copy, or that another
command's link repair is lost, no property forbids. `SlotsKeepTheirOwner` has the
commands alone fill slots: a stranger's file put there between the look and the
rename would be replaced. `EmittedWasScanned` is about the bytes of the content.
`ConfigKept` excepts the window between the look of `init` and its write, in which the
code does overwrite. `DiffIsExact` ranges over the fields the model's packets have,
which are the compared ones: a field that the code forgets would not show.

## Fairness

`Converge` assumes that a process which is not stopped takes its next step, and
that a user who was told of a failure runs the same command again; the code can
do nothing about either. The number of interruptions is bounded, as an endless
series of kills defeats any program. Placements in which another file occupies
the slot are left out, for they are refused by design. `Workspace` assumes the same
of its processes and callers, for `InitConverges`. `Mcp` assumes weak fairness of
the server's own steps only: the goroutine that serves keeps running, and nobody
else has to. The other runs state no fairness.

## Proofs

`tlapm` checks all obligations of eight modules.

- **TaskLifecycleProofs.** `TypeCorrect`; `OwnersKept`, that no archive slot changes
  hands, as long as no interrupted write leaves an empty file; `BodiesSurvive`, that
  each body is whole in one of its slots. `BodiesSurvive` assumes `TornOutcomes = {}`
  (see `TornBody`) and that nobody edits.
  Their invariants say what an invocation's memory has to do with the tree: a
  content that is about to be written belongs to the slot it goes to, a
  completion at `remove` has its slot filled, and a read-modify-write of a file
  restores the file of the same task. Without these neither is inductive, because
  `Save` writes what was read many steps earlier. `FiledAreFinished` holds with torn
  writes and edits: its invariant traces every text in, or on its way to, an archive
  slot back to a completion or to a sweep that found it finished.
  `ConcurrentRemovalsAreFiled`, under the assumptions of `BodiesSurvive`, joins these
  invariants: a live file that goes away was in its slot, with the same body and
  finished, however many commands run at once and in whatever order they are rerun.
  `LiveSparedByItsCompletion` needs one process and nothing else.
  `LiveRemovedOnlyOnceFiled` and `LifecycleImplementsBoard`, the refinement of
  TaskBoard, assume one process, no torn writes and reruns first, as `Crash` does.
  Their invariant (`SoloInv`) says that what a command has read is still so, and that
  a task has files in both directories only while it is being completed or until
  that completion is rerun, with the same body in both: so removing the live file
  changes a task's entry on the board exactly as `CompleteTask` does, and no other
  write of a completion changes it at all. `EditedBodiesSurvive` adds to it that the file
  which shows a task holds the text saved last (`ShownIsSaved`), so no text that was
  saved between two commands is lost to the commands that follow. Saves while a command
  runs, or before its rerun, are excluded by `MayEdit`: those the code can lose. `LinksAreRepaired` assumes besides that no
  task cites itself by its root path (`SelfCites = {}`). Its invariant (`LinkInv`) says of
  every file, from the start of a command to the end of its last rerun, that each
  link leads either where it did before the command or where its target will be
  after it (`Owed`), that the walk settles one file at a time, whether or not an
  earlier run visited it (`RepairSettles`), and that a move makes the settled links
  true (`MoveSettles`).
  Of `CompletionConverges` and `SweepConverges` four theorems leave fairness alone to
  TLC. `RerunsAreAccepted`: a rerun is refused nowhere and finds the files it removes
  and moves. Its invariant (`RerunInv`) follows what an interrupted command has left
  behind, torn or not, to the command that is going to be rerun: nothing is half
  moved unless somebody owes the rest. `CompletionsEndFiled` and `SweepsEndClean`: who
  ends without an error has reached the goal; the first holds for any number of
  processes. `StepsLeaveLess`: each step reduces `Work`, a natural number, by the files
  the walk has still to visit and the writes after it. All but `StepsLeaveLess` assume
  that no interrupted write leaves an empty file, for a rerun takes an empty slot for
  a stranger's and is refused; the first and the third also one process and reruns
  first, and the first that no slot was a stranger's, as `Converge` does.
- **TaskDocumentsProofs.** `DocumentsTypeCorrect`, `EntriesAreAccountedFor`, `IdsAreUnique`,
  `ValidIsListed`, `CleanIsUnfinished` and `ListedAreFound`, for any directory, any
  readers and any number of changes. What was judged and what is still to be
  visited make up what was listed, and an accepted task has its filename's id.
  As long as nothing has changed, what a reader has decided about a name is what
  the file under that name says; the agreements follow by comparing the rules of
  two readers on one text.
- **SelectionProofs.** `SelectionTypeCorrect`, `LimitsKept`, `NothingUnscanned`,
  `TruncationsExact`, `ExplainJustifiesItems`, `LimitsSpareTheBest` and `NothingIsLost`, for any
  repository and any limits. The invariant adds that nothing is included before
  it was waiting, that what waits is eligible, and that a path has at most one
  item; the arithmetic of `Cut` is in lemmas. `ExplainJustifiesItems` holds for any limit
  of the index and has the exception of its property: the files the index stopped
  short of, whose own text answers the request. Three more invariants carry the last
  three theorems: an item keeps its reason and would be accepted with the whole
  budget (`Standing`); once a limit has left something out it stays reached, and
  what is taken ranks before what waits (`Ranked`); and the books balance at every
  step (`Balanced`).
- **PacketBuildProofs.** `PacketsTypeCorrect`; `OnlyScannedIsCarried`, by an invariant
  over every packet in memory, in an export or in an answer. Its part about names
  (`NamesInv`) says that a name a build holds is of a version no newer than the tree's,
  and that a save makes it an older one (`EditKeepsClean`), which is why the exception
  is a save and nothing else; `RevisionIsPinned`,
  which assumes `HeadReturns = FALSE` and shows that HEAD then only grows, so two
  equal readings enclose the one in between; `SoleExportsDoAgree` and
  `ReadBackIsOwnPacket`, by an invariant on who is writing a name that is not shared;
  `BuildStepsLeaveLess`, that every build ends, by a count of the reads it has left.
- **McpServerProofs.** `ServerRunsBuilds`, that the server and its surroundings implement
  PacketBuild, so that `ServerCarriesOnlyScanned` and `ServerReadsBackItsOwn` follow from
  the theorems there; `AnswersComeInOrder`, by the increasing map from the answers sent
  to the lines that asked for them, which a reply extends by the line just read; and
  `ServerTypeCorrect`. `ClosingAnswersAll` and `ServerStepsLeaveLess` are
  `EveryRequestAnswered` without fairness: at the end of the stream that map is onto
  all lines which ask for an answer, and `ServerWork`, the lines left times the most a
  line can cost, only goes down, whatever happens around the server.
- **RecordVerifyProofs.** `VerifyTypeCorrect`, `ExitIsHonest`, `IntactIsSealed`,
  `JudgementsVouched`: a verdict, once given, is the answer of its check.
- **WorkspaceProofs.** For any number of processes, inputs, drafts, saves, commits and
  interruptions: `WorkspaceTypeCorrect`; `NoOutputQuotesASecret`, from the invariant
  that what a command holds is clean; `RevisionIsCurrent`, from the invariant that the
  branch a process found in HEAD, unless it was overtaken, is where HEAD was at some
  time since, and that one which found no loose ref will find such a revision packed; `ConfigIsKept`, from the invariant that an `init` about to write has
  found nothing or has been raced; and `OutputsDoAgree`, whose invariant says, of each
  half-written pair, who is going to write the other half: a process at that
  step, or one that has to be rerun. From it follows `CommandsEndComplete`, that a command
  which ends without an error leaves whole outputs that agree, and an `init` a
  configuration; with `StepsLeaveLess`, that each command ends, this is
  `InitConverges` without fairness.
- **CommandLineProofs.** For any number of files and lines and any packets:
  `CommandTypeCorrect`, `ExitIsTruthful`, `MisuseIsHarmless`, `FailuresAreAnnounced`,
  `IntelIsPassedThrough`, `DiffsAreExact`. The invariants `Course` and `IntelCourse` have one
  disjunct for each stage of an invocation, which says what the streams hold
  there. `DiffsLead` proves the operators of PacketDiff exact for all packets
  that are `Comparable`, which `PacketsAreComparable` assumes of the constant.

The assumptions are the named `ASSUME`s of the modules, which TLC evaluates in
every run, and the ones stated in a theorem.

Only model-checked: that the liveness properties `CompletionConverges`, `SweepConverges`,
`InitConverges` and `EveryRequestAnswered` follow from fairness. What the theorems
leave open is that a step is possible whenever a command is at work, and that the
scheduler takes it: `ENABLED` and fairness are beyond the prover, and so is induction
over data. That `Work` decreases in each step and that the last one reaches the goal
is proved, so a counterexample could only be a command that stands still.

## Not modelled, and abstracted

- `os.WriteFile` is atomic unless it is interrupted: a reader who sees a file that
  another process is in the middle of writing is not modelled.
- The bytes of hashes (`content_hash`, the packet hash) and all formatting.
- Which files the link walk skips: task files have ordinary names.
- A task that cites itself by repository-root path (`SelfCites`): `complete` leaves
  that citation as it was, so the runs take none.
- Retention of old exports, the wording of Markdown and of reports, the sections a
  draft takes out of a text, what a scan infers from paths.
- The schema validator, glob and ignore patterns, tokenising and matching, the Go
  parser behind `goDeclarations`: recursive functions of strings and trees. Their
  verdicts are inputs of the models, with every value they can take.
- The MCP server's scan is not composed with Workspace: of its files the server
  reads none back.
- An `archive` that finds nothing to file is, for the command line, one of the
  commands that write nothing.

## What could follow

A composition of TaskDocuments with TaskLifecycle, in which a listing runs beside a
completion that moves files rather than beside arbitrary changes.
