--------------------------- MODULE TaskLifecycle ---------------------------
(***************************************************************************)
(* `struktly tasks complete` (CompleteTask) and `struktly tasks archive`   *)
(* (ArchiveTasks) as processes over one shared tree, with no lock between  *)
(* them: each step below is one visit to the file system, and any process  *)
(* may be stopped between two steps, by a kill or by an error the code     *)
(* returns.  The user edits live tasks and reruns commands.                *)
(***************************************************************************)
EXTENDS TaskFiles, FiniteSets

CONSTANTS
  Procs,           \* invocations of the CLI that may run at once
  References,      \* [Tasks \cup Docs -> SUBSET Tasks]: who links to whom
  SelfCites,       \* tasks whose body cites itself by repository-root path
  Placements,      \* where each task may be at first, see Placed
  TornOutcomes,    \* what a WriteFile stopped midway may leave
  MaxStops,        \* bound on interrupted commands
  MaxEdits,        \* bound on the user's saves
  RerunFirst       \* the user finishes an interrupted command before any other

ASSUME BoundsAreNat == MaxStops \in Nat /\ MaxEdits \in Nat
ASSUME SwitchIsBoolean == RerunFirst \in BOOLEAN
ASSUME OutcomesAreKnown == TornOutcomes \subseteq {"empty", "head"}
ASSUME ReferencesAreTasks == References \in [Tasks \cup Docs -> SUBSET Tasks]
ASSUME PlacementsAreKnown ==
  Placements \subseteq {"open", "done", "canceled", "filed", "shadowed"}

VARIABLES
  tree,        \* [Names -> File or NoFile]: the repository
  run,         \* [Procs -> Run]: what each invocation holds in memory
  unfinished,  \* the commands that were started and did not finish
  saved,       \* [Tasks -> Nat]: the body the user saved last
  stops, edits \* counters under MaxStops and MaxEdits

vars == <<tree, run, unfinished, saved, stops, edits>>

Complete(t) == [verb |-> "complete", id |-> t]
Archive == [verb |-> "archive", id |-> NoTask]
Commands == {Complete(t) : t \in Tasks} \cup {Archive}

Steps == {"idle", "slot", "repair", "save", "write", "remove", "rename"}

Run == [step : Steps,
        cmd : Commands,
        moves : SUBSET Tasks,           \* the keys of the moves map
        held : File \cup {NoFile},      \* the completed content, in memory
        resuming : BOOLEAN,
        todo : SUBSET Names,            \* what the walk has not visited yet
        at : Names \cup {NoFile},       \* the file about to be saved ...
        next : File \cup {NoFile}]      \* ... and the content to save there

Idle == [step |-> "idle", cmd |-> Archive, moves |-> {}, held |-> NoFile,
         resuming |-> FALSE, todo |-> {}, at |-> NoFile, next |-> NoFile]

Quiet == \A p \in Procs : run[p].step = "idle"

-----------------------------------------------------------------------------
(* The repository a command may find: every reference resolves. *)

InitialDir(place, t) == IF place[t] = "filed" THEN "arch" ELSE "live"

InitialLinks(place, owner, dir) ==
  [u \in Tasks |->
     IF u \notin References[owner] THEN "none"
     ELSE IF dir = "doc" \/ (u = owner /\ u \in SelfCites)
          THEN IF InitialDir(place, u) = "live" THEN "root" ELSE "rootarch"
          ELSE RelativeText(dir, InitialDir(place, u))]

InitialTask(place, t) ==
  [id |-> t, body |-> 0, links |-> InitialLinks(place, t, InitialDir(place, t)),
   status |-> CASE place[t] = "open"                          -> "open"
                [] place[t] \in {"done", "filed", "shadowed"} -> "done"
                [] OTHER                                      -> "canceled"]

\* Another task's file, or one without frontmatter, sitting in a slot of t.
Stranger == [id |-> NoTask, status |-> "open", body |-> 0, links |-> NoLinks]

InitialFile(place, name) ==
  CASE name[1] = "doc" ->
         [Stranger EXCEPT !.links = InitialLinks(place, name[2], "doc")]
    [] name[1] = "live" /\ place[name[2]] # "filed" -> InitialTask(place, name[2])
    [] name[1] = "arch" /\ place[name[2]] = "filed" -> InitialTask(place, name[2])
    [] name[1] = "arch" /\ place[name[2]] = "shadowed" -> Stranger
    [] OTHER -> NoFile

Init ==
  /\ \E place \in [Tasks -> Placements] :
       tree = [name \in Names |-> InitialFile(place, name)]
  /\ run = [p \in Procs |-> Idle]
  /\ unfinished = {}
  /\ saved = [t \in Tasks |-> 0]
  /\ stops = 0 /\ edits = 0

-----------------------------------------------------------------------------
(* Steps shared by both commands. *)

MayStart(p, c) ==
  /\ run[p].step = "idle"
  /\ RerunFirst /\ unfinished # {} => c \in unfinished

Finish(p) ==
  /\ run' = [run EXCEPT ![p] = Idle]
  /\ unfinished' = unfinished \ {run[p].cmd}

\* The command returns an error, or is killed: what it wrote stays.
Abandon(p) ==
  /\ run' = [run EXCEPT ![p] = Idle]
  /\ unfinished' = unfinished \cup {run[p].cmd}

\* Mutant: any occupied slot is refused, an interrupted run's own included.
AnySlotTaken(p) == \E t \in run[p].moves : tree[Arch(t)] # NoFile

\* Mutant: the slot check is missing.
NoSlotTaken(p) == run[p].step # "slot"

\* archivedSlotState for a completion, the Lstat loop for a sweep.
SlotsTaken(p) ==
  IF run[p].cmd = Archive
  THEN \E t \in run[p].moves : tree[Arch(t)] # NoFile
  ELSE \E t \in run[p].moves : tree[Arch(t)] # NoFile /\ tree[Arch(t)].id # t

\* ErrTaskAlreadyArchived: refused before anything is written.
Refuse(p) ==
  /\ run[p].step = "slot" /\ SlotsTaken(p)
  /\ run' = [run EXCEPT ![p] = Idle]
  /\ UNCHANGED <<tree, unfinished, saved, stops, edits>>

\* Mutant: a moved task keeps its links as written.
NotRelinked(file, name, moves) == file

\* The moved task's own links, re-expressed in the content it will be filed with.
Relinked(file, name, moves) ==
  [file EXCEPT !.links = rewriteTaskLinks(tree, name, @, moves)]

\* Mutant: the walk does not skip the live file of the task being completed.
AcceptWithoutSkip(p) ==
  LET t == run[p].cmd.id IN
  /\ run[p].step = "slot" /\ run[p].cmd # Archive /\ ~SlotsTaken(p)
  /\ run' = [run EXCEPT ![p] = [@ EXCEPT !.step = "repair", !.todo = Names,
                                         !.resuming = tree[Arch(t)] # NoFile,
                                         !.held = Relinked(run[p].held, Live(t), {t})]]
  /\ UNCHANGED <<tree, unfinished, saved, stops, edits>>

\* The slot is free or this task's own.  A completion notes whether it resumes
\* an earlier run, re-expresses its own links in memory, and keeps its live file
\* out of the walk.
AcceptCompletion(p) ==
  LET t == run[p].cmd.id IN
  /\ run[p].step = "slot" /\ run[p].cmd # Archive /\ ~SlotsTaken(p)
  /\ run' = [run EXCEPT ![p] = [@ EXCEPT !.step = "repair",
                                         !.todo = Names \ {Live(t)},
                                         !.resuming = tree[Arch(t)] # NoFile,
                                         !.held = Relinked(run[p].held, Live(t), {t})]]
  /\ UNCHANGED <<tree, unfinished, saved, stops, edits>>

\* Every slot of the batch is free; a sweep walks every file.
AcceptSweep(p) ==
  /\ run[p].step = "slot" /\ run[p].cmd = Archive /\ ~SlotsTaken(p)
  /\ run' = [run EXCEPT ![p] = [@ EXCEPT !.step = "repair", !.todo = Names]]
  /\ UNCHANGED <<tree, unfinished, saved, stops, edits>>

\* The walk reads one file and finds nothing to change.
Pass(p, n) ==
  /\ run[p].step = "repair" /\ n \in run[p].todo
  /\ tree[n] # NoFile => Repaired(tree, n, run[p].moves) = tree[n]
  /\ run' = [run EXCEPT ![p] = [@ EXCEPT !.todo = run[p].todo \ {n}]]
  /\ UNCHANGED <<tree, unfinished, saved, stops, edits>>

\* The walk reads one file and computes its repaired content ...
Read(p, n) ==
  /\ run[p].step = "repair" /\ n \in run[p].todo
  /\ tree[n] # NoFile
  /\ Repaired(tree, n, run[p].moves) # tree[n]
  /\ run' = [run EXCEPT ![p] = [@ EXCEPT !.step = "save", !.todo = run[p].todo \ {n}, !.at = n,
                                        !.next = Repaired(tree, n, run[p].moves)]]
  /\ UNCHANGED <<tree, unfinished, saved, stops, edits>>

\* ... which os.WriteFile puts in place of whatever is there by now.
Save(p) ==
  /\ run[p].step = "save"
  /\ tree' = [tree EXCEPT ![run[p].at] = run[p].next]
  /\ run' = [run EXCEPT ![p] = [@ EXCEPT !.step = "repair", !.at = NoFile, !.next = NoFile]]
  /\ UNCHANGED <<unfinished, saved, stops, edits>>

\* Mutant: the live file is removed without the archive slot being written.
EndWalkRemoves(p) ==
  /\ run[p].step = "repair" /\ run[p].todo = {}
  /\ run' = [run EXCEPT ![p] = [@ EXCEPT !.step =
               IF run[p].cmd = Archive THEN "rename" ELSE "remove"]]
  /\ UNCHANGED <<tree, unfinished, saved, stops, edits>>

\* The walk is over: a sweep renames; a completion writes its slot, unless it
\* resumes a run that wrote it already.
EndWalk(p) ==
  /\ run[p].step = "repair" /\ run[p].todo = {}
  /\ run' = [run EXCEPT ![p] = [@ EXCEPT !.step =
               IF run[p].cmd = Archive THEN "rename"
               ELSE IF run[p].resuming THEN "remove" ELSE "write"]]
  /\ UNCHANGED <<tree, unfinished, saved, stops, edits>>

-----------------------------------------------------------------------------
(* CompleteTask *)

\* resolveLiveTask and completedTaskContent: the live file is read here, once.
\* An id with no live file is refused without touching anything.
StartComplete(p, t) ==
  /\ MayStart(p, Complete(t))
  /\ Declares(tree, Live(t), t)
  /\ run' = [run EXCEPT ![p] = [Idle EXCEPT !.step = "slot", !.cmd = Complete(t),
                                  !.moves = {t},
                                  !.held = completedTaskContent(tree[Live(t)])]]
  /\ UNCHANGED <<tree, unfinished, saved, stops, edits>>

WriteSlot(p) ==
  /\ run[p].step = "write"
  /\ tree' = [tree EXCEPT ![Arch(run[p].cmd.id)] = run[p].held]
  /\ run' = [run EXCEPT ![p] = [@ EXCEPT !.step = "remove"]]
  /\ UNCHANGED <<unfinished, saved, stops, edits>>

\* os.Remove; it fails when another process removed the file first.
Remove(p) ==
  /\ run[p].step = "remove"
  /\ IF tree[Live(run[p].cmd.id)] = NoFile THEN Abandon(p) ELSE Finish(p)
  /\ tree' = [tree EXCEPT ![Live(run[p].cmd.id)] = NoFile]
  /\ UNCHANGED <<saved, stops, edits>>

-----------------------------------------------------------------------------
(* ArchiveTasks *)

StartArchive(p) ==
  /\ MayStart(p, Archive)
  /\ misfiledTasks(tree) # {}
  /\ run' = [run EXCEPT ![p] = [Idle EXCEPT !.step = "slot", !.cmd = Archive,
                                            !.moves = misfiledTasks(tree)]]
  /\ UNCHANGED <<tree, unfinished, saved, stops, edits>>

\* Nothing is misfiled: the sweep reports a clean tree and is done.
ArchiveClean(p) ==
  /\ MayStart(p, Archive)
  /\ misfiledTasks(tree) = {}
  /\ unfinished' = unfinished \ {Archive}
  /\ UNCHANGED <<tree, run, saved, stops, edits>>

\* Mutant: the sweep copies a file to its slot and leaves the original.
CopyToSlot(p, t) ==
  /\ run[p].step = "rename" /\ t \in run[p].moves
  /\ tree[Live(t)] # NoFile
  /\ tree' = [tree EXCEPT ![Arch(t)] = tree[Live(t)]]
  /\ IF run[p].moves = {t} THEN Finish(p)
     ELSE run' = [run EXCEPT ![p] = [@ EXCEPT !.moves = run[p].moves \ {t}]] /\ UNCHANGED unfinished
  /\ UNCHANGED <<saved, stops, edits>>

\* One os.Rename of the batch; `moves` keeps what is left to rename.
Rename(p, t) ==
  /\ run[p].step = "rename" /\ t \in run[p].moves
  /\ tree[Live(t)] # NoFile
  /\ tree' = [tree EXCEPT ![Arch(t)] = tree[Live(t)], ![Live(t)] = NoFile]
  /\ IF run[p].moves = {t} THEN Finish(p)
     ELSE run' = [run EXCEPT ![p] = [@ EXCEPT !.moves = run[p].moves \ {t}]] /\ UNCHANGED unfinished
  /\ UNCHANGED <<saved, stops, edits>>

\* The file to rename is gone: another process filed it.
RenameFails(p, t) ==
  /\ run[p].step = "rename" /\ t \in run[p].moves
  /\ tree[Live(t)] = NoFile
  /\ Abandon(p)
  /\ UNCHANGED <<tree, saved, stops, edits>>

-----------------------------------------------------------------------------
(* Failures, and the user. *)

\* A kill, or an error of any system call, between two steps.
Stop(p) ==
  /\ run[p].step # "idle" /\ stops < MaxStops
  /\ Abandon(p)
  /\ stops' = stops + 1
  /\ UNCHANGED <<tree, saved, edits>>

\* A kill, or a full disk, inside os.WriteFile.
Tear(p, outcome) ==
  /\ run[p].step \in {"save", "write"} /\ stops < MaxStops
  /\ tree' = IF run[p].step = "save"
             THEN [tree EXCEPT ![run[p].at] = Torn(run[p].next, outcome)]
             ELSE [tree EXCEPT ![Arch(run[p].cmd.id)] = Torn(run[p].held, outcome)]
  /\ Abandon(p)
  /\ stops' = stops + 1
  /\ UNCHANGED <<saved, edits>>

MayEdit(t) ==
  /\ edits < MaxEdits
  /\ Quiet
  /\ RerunFirst => unfinished = {}
  /\ Declares(tree, Live(t), t)

\* The user saves a new body of a live task.
EditBody(t) ==
  /\ MayEdit(t)
  /\ edits' = edits + 1
  /\ saved' = [saved EXCEPT ![t] = edits + 1]
  /\ tree' = [tree EXCEPT ![Live(t)].body = edits + 1]
  /\ UNCHANGED <<run, unfinished, stops>>

\* The user sets a live task's status by hand, which may misfile it.
EditStatus(t, status) ==
  /\ MayEdit(t)
  /\ tree[Live(t)].status # status
  /\ edits' = edits + 1
  /\ tree' = [tree EXCEPT ![Live(t)].status = status]
  /\ UNCHANGED <<run, unfinished, saved, stops>>

-----------------------------------------------------------------------------
Step(p) ==
  \/ Refuse(p) \/ AcceptCompletion(p) \/ AcceptSweep(p) \/ Save(p) \/ EndWalk(p)
  \/ WriteSlot(p) \/ Remove(p)
  \/ \E n \in Names : Pass(p, n) \/ Read(p, n)
  \/ \E t \in Tasks : Rename(p, t) \/ RenameFails(p, t)

Start(p) == StartArchive(p) \/ ArchiveClean(p) \/ \E t \in Tasks : StartComplete(p, t)

Fail(p) == Stop(p) \/ \E outcome \in TornOutcomes : Tear(p, outcome)

Edit == \E t \in Tasks : EditBody(t) \/ \E status \in Statuses : EditStatus(t, status)

Next == Edit \/ \E p \in Procs : Start(p) \/ Step(p) \/ Fail(p)

Spec == Init /\ [][Next]_vars

(***************************************************************************)
(* A process that is not stopped takes its next step, and a user who was   *)
(* told of a failure runs the same command again.                          *)
(***************************************************************************)
Rerun(p) ==
  \/ Archive \in unfinished /\ (StartArchive(p) \/ ArchiveClean(p))
  \/ \E t \in Tasks : Complete(t) \in unfinished /\ StartComplete(p, t)

Fairness == \A p \in Procs : WF_vars(Step(p)) /\ WF_vars(Rerun(p))

FairSpec == Spec /\ Fairness

-----------------------------------------------------------------------------
\* What an invocation needs in memory for the step it is at.
BuffersFilled ==
  \A p \in Procs :
    LET r == run[p] IN
    /\ r.step = "save" => r.at \in Names /\ r.next \in File
    /\ r.step # "idle" /\ r.cmd # Archive => r.held \in File
    /\ r.step \in {"write", "remove"} => r.cmd # Archive

TypeOK ==
  /\ tree \in [Names -> File \cup {NoFile}]
  /\ run \in [Procs -> Run]
  /\ unfinished \in SUBSET Commands
  /\ saved \in [Tasks -> Nat]
  /\ stops \in 0..MaxStops
  /\ edits \in 0..MaxEdits
  /\ BuffersFilled

\* The body the user saved last is whole in one of the task's two slots,
\* however commands interleave and wherever they are stopped: CompleteTask
\* writes the archive slot before it removes the live file, and the sweep
\* renames.
BodySurvives ==
  \A t \in Tasks : \E name \in {Live(t), Arch(t)} :
    Declares(tree, name, t) /\ tree[name].body = saved[t]

\* What sits in an archive slot declares a finished task: nothing is filed by
\* CompleteTask or by the sweep while it is still open.
FiledIsFinished ==
  \A t \in Tasks : Declares(tree, Arch(t), t) => tree[Arch(t)].status \in finishedTaskStatuses

Resolves(name, u) ==
  tree[name].links[u] = "none" \/ Exists(tree, Leads(name[1], tree[name].links[u]), u)

\* Between commands, once every interrupted one was rerun to its end, every
\* reference to a task resolves: links out of a moved task, links into it from
\* live tasks, archived tasks and docs (repairTaskLinks, rewriteTaskLinks).
LinksResolve ==
  Quiet /\ unfinished = {} =>
    \A name \in Names, u \in Tasks : tree[name] # NoFile => Resolves(name, u)

\* A live file goes away only when its archive slot holds that very body,
\* finished ("the live file is removed only after that write succeeds").
RemovedOnlyOnceFiled ==
  [][\A t \in Tasks :
       Declares(tree, Live(t), t) /\ tree'[Live(t)] = NoFile =>
         /\ Declares(tree', Arch(t), t)
         /\ tree'[Arch(t)].body = tree[Live(t)].body
         /\ tree'[Arch(t)].status \in finishedTaskStatuses]_vars

\* An archive slot never changes hands: no command writes or renames over
\* another task's file (archivedSlotState, the Lstat loop of ArchiveTasks).
SlotsKeepTheirOwner ==
  [][\A t \in Tasks :
       tree[Arch(t)] # NoFile =>
         tree'[Arch(t)] # NoFile /\ tree'[Arch(t)].id = tree[Arch(t)].id]_vars

\* "The live file is never rewritten in place": a command that completes t
\* leaves t's live file byte for byte as it found it until it removes it.
LiveNeverRewritten ==
  [][\A p \in Procs :
       LET t == run[p].cmd.id IN
       run[p].step # "idle" /\ run[p].cmd # Archive =>
         tree'[Live(t)] \in {tree[Live(t)], NoFile}]_vars

\* "Every interruption converges on a rerun": a completion that was started and
\* interrupted ends with its task in the archive and out of the live directory.
CompletionConverges ==
  \A t \in Tasks :
    Complete(t) \in unfinished
      ~> Declares(tree, Arch(t), t) /\ tree[Live(t)] = NoFile

\* An interrupted sweep, run again, ends with nothing misfiled.
SweepConverges ==
  Archive \in unfinished ~> misfiledTasks(tree) = {}

-----------------------------------------------------------------------------
(***************************************************************************)
(* What the two commands promise, without files, links or interruptions:   *)
(* while a live file exists the task is as that file says, and afterwards  *)
(* it is as the archived one says.                                         *)
(***************************************************************************)
BoardOf(t) ==
  LET file == IF tree[Live(t)] # NoFile THEN tree[Live(t)] ELSE tree[Arch(t)] IN
  [filed |-> tree[Live(t)] = NoFile, status |-> file.status, body |-> file.body]

Board == INSTANCE TaskBoard WITH Bodies <- 0..MaxEdits, board <- [t \in Tasks |-> BoardOf(t)]

\* Every step of the two commands is an atomic step of TaskBoard or none.
ImplementsBoard == Board!Spec
=============================================================================
