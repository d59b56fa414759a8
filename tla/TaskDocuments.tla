--------------------------- MODULE TaskDocuments ---------------------------
(***************************************************************************)
(* What the commands take for a task.  Four of them read .struktly/tasks,  *)
(* each with code of its own: `tasks` (DiscoverTasks), `validate`          *)
(* (LoadTasks), `tasks archive --check` (misfiledTasks) and the lookup of  *)
(* `tasks complete` (taskByID).  A command lists the directory once and    *)
(* then visits one file after another, in name order, while the user and   *)
(* other commands save, move and remove files.                             *)
(***************************************************************************)
EXTENDS Integers, Sequences, FiniteSets

CONSTANTS
  NameCount,    \* the .md filenames are 1..NameCount, in name order
  Reserved,     \* the names index.md and log.md
  Ids, Stem,    \* [Names -> Ids]: the filename without its extension
  Canonical,    \* ids of lowercase letters, digits and single hyphens
  Dotted,       \* historical ids, with dots besides
  NoEntry,      \* no file has this name
  Unparsable,   \* a text whose frontmatter does not parse
  Entries,      \* what a name may stand for
  Saved,        \* what it may be given while commands run
  Directories,  \* the directories a command may find, functions on Names
  Roots,        \* where --root may point, see InTasksDir
  Together,     \* sets of commands that run at the same time
  Wanted,       \* ids the user asks to complete
  MaxSaves      \* bound on changes to the directory

Names == 1..NameCount
Commands == {"tasks", "validate", "check", "find"}
finishedTaskStatuses == {"done", "canceled"}
Statuses == finishedTaskStatuses \cup {"open", "unsupported"}

(***************************************************************************)
(* A body is the sequence of its sections; a task file is its id, whether  *)
(* the other required fields (type, schema, title) are as they must be,    *)
(* its status, whether the optional fields are well formed, and its body.  *)
(***************************************************************************)
taskObjectiveHeadings == <<"objective", "mission", "outcome">>
taskOutcomeHeadings ==
  <<"required outcomes", "success", "success criteria", "acceptance criteria",
    "done when", "definition of done", "requirements">>

Section == [heading : STRING, filled : BOOLEAN]

Text == [id : Ids, required : BOOLEAN, status : Statuses, optional : BOOLEAN,
         body : Seq(Section)]

Entry == [kind : {"file", "huge", "symlink", "dir"}, text : Text \cup {Unparsable}]

ASSUME NamesAreCounted == NameCount \in Nat \ {0} /\ Reserved \subseteq Names
ASSUME StemsAreDistinct ==
  Stem \in [Names -> Ids] /\ \A m, n \in Names : Stem[m] = Stem[n] => m = n
ASSUME UnparsableIsNoText == Unparsable \notin Text
ASSUME NoEntryIsNoEntry == NoEntry \notin Entry
ASSUME EntriesAreEntries ==
  \A e \in Entries : e \in [kind : {"file", "huge", "symlink", "dir"}, text : {e.text}]
                     /\ (e.text = Unparsable \/ e.text \in Text)
ASSUME DirectoriesAreDirectories == Directories \subseteq [Names -> Entries \cup {NoEntry}]
ASSUME BoundsAreKnown ==
  /\ MaxSaves \in Nat /\ Wanted \subseteq Ids /\ Saved \subseteq Entries \cup {NoEntry}
  /\ Roots \subseteq {"top", "sub", "bracket"}
  /\ \A on \in Together : on \subseteq Commands

VARIABLES
  root,    \* where --root points
  folder,  \* "dir", or "symlink" to a directory of the same content
  dir,     \* [Names -> Entries \cup {NoEntry}]; all NoEntry when it is missing
  cmd,     \* [Commands -> Command]
  saves    \* counter under MaxSaves

vars == <<root, folder, dir, cmd, saves>>

-----------------------------------------------------------------------------
(* One file, judged by its text. *)

Occurrences(body, heading) == {i \in 1..Len(body) : body[i].heading = heading}

\* Sections are keyed by heading and the last one of a heading wins.
SectionFilled(body, heading) ==
  \E i \in Occurrences(body, heading) :
    body[i].filled /\ \A j \in Occurrences(body, heading) : j <= i

\* firstTaskSection: some spelling of the section has text.
HasSection(body, headings) == \E k \in 1..Len(headings) : SectionFilled(body, headings[k])

\* Mutant: the sections are judged by the presence of their headings.
ValidateHeadings(body) ==
  \A headings \in {taskObjectiveHeadings, taskOutcomeHeadings} :
    \E k \in 1..Len(headings) : Occurrences(body, headings[k]) # {}

\* Both sections of a contract, and no spelling of them twice.
validateTaskBody(body) ==
  \A headings \in {taskObjectiveHeadings, taskOutcomeHeadings} :
    /\ HasSection(body, headings)
    /\ \A k \in 1..Len(headings) : \A i, j \in Occurrences(body, headings[k]) : i = j

\* Which of the two sections the contract of a listed task has text for.
parseTaskContract(body) ==
  [outcome |-> HasSection(body, taskObjectiveHeadings),
   done_when |-> HasSection(body, taskOutcomeHeadings)]

\* Mutant: the id is believed whatever the file is called.
AcceptsAnyName(n, text, strict) ==
  /\ text # Unparsable
  /\ text.required
  /\ text.id \in Canonical \cup (IF strict THEN {} ELSE Dotted)
  /\ text.status # "unsupported" /\ text.optional
  /\ strict => validateTaskBody(text.body)

\* loadTaskFile, once the file is read.
Accepts(n, text, strict) ==
  /\ text # Unparsable
  /\ text.required
  /\ text.id \in Canonical \cup (IF strict THEN {} ELSE Dotted)
  /\ text.id = Stem[n]
  /\ text.status # "unsupported" /\ text.optional
  /\ strict => validateTaskBody(text.body)

\* A note says that validation would reject the task.
Noted(text) == text.id \notin Canonical \/ ~validateTaskBody(text.body)

Task(n, text) ==
  [name |-> n, id |-> text.id, status |-> text.status, noted |-> Noted(text),
   contract |-> parseTaskContract(text.body)]

TaskRecord ==
  [name : Names, id : Ids, status : Statuses, noted : BOOLEAN,
   contract : [outcome : BOOLEAN, done_when : BOOLEAN]]

-----------------------------------------------------------------------------
Steps == {"idle", "read", "lstat", "load", "ended"}

Outcomes == {"none", "listed", "accepted", "rejected", "clean", "misfiled",
             "found", "notfound", "error"}

Command ==
  [step : Steps, outcome : Outcomes,
   wanted : Ids,                \* the id to complete
   listed : SUBSET Names,       \* what listing the directory gave
   todo : SUBSET Names,         \* what has not been judged yet
   tasks : SUBSET TaskRecord,   \* what was taken for a task
   flagged : SUBSET Names]      \* invalid files, or misfiled ones

Idle == [step |-> "idle", outcome |-> "none", wanted |-> Stem[1], listed |-> {},
         todo |-> {}, tasks |-> {}, flagged |-> {}]

Absent == [Idle EXCEPT !.step = "ended", !.outcome = "error"]

Init ==
  /\ root \in Roots /\ folder \in {"dir", "symlink"}
  /\ dir \in Directories
  /\ \E on \in Together : cmd = [c \in Commands |-> IF c \in on THEN Idle ELSE Absent]
  /\ saves = 0

\* misfiledTasks and taskByID begin by reading a file, LoadTasks and DiscoverTasks
\* are loadTaskFile from the start.
FirstVisit(c) == IF c \in {"check", "find"} THEN "read" ELSE "lstat"

(***************************************************************************)
(* The directory a command reads.  `validate` resolves the repository's    *)
(* top level and expands a glob pattern under it, in which the path of the *)
(* repository is pattern text too ("bracket": a path with brackets).  The    *)
(* others take --root literally ("sub": a directory below the top level,   *)
(* with no tasks of its own).                                              *)
(***************************************************************************)
InTasksDir(c) == IF c = "validate" THEN root # "bracket" ELSE root # "sub"

\* By the directory entry alone: reserved names are nobody's, directories are
\* skipped but by the glob, symlinks by taskFiles only.
Skips(c, e) ==
  \/ e = NoEntry
  \/ c = "tasks" /\ e.kind = "dir"
  \/ c \in {"check", "find"} /\ e.kind \in {"dir", "symlink"}

Listing(c) ==
  IF InTasksDir(c) THEN {n \in Names \ Reserved : ~Skips(c, dir[n])} ELSE {}

\* A symlinked directory is refused by all but the glob.
Open(c) ==
  /\ cmd[c].step = "idle"
  /\ \E id \in (IF c = "find" THEN Wanted ELSE {Idle.wanted}) :
       cmd' = [cmd EXCEPT ![c] =
         IF c # "validate" /\ InTasksDir(c) /\ folder = "symlink"
         THEN [@ EXCEPT !.step = "ended", !.outcome = "error"]
         ELSE [@ EXCEPT !.step = FirstVisit(c), !.wanted = id,
                        !.listed = Listing(c), !.todo = Listing(c)]]
  /\ UNCHANGED <<root, folder, dir, saves>>

\* Files are visited in name order.
Current(c, n) == n \in cmd[c].todo /\ \A m \in cmd[c].todo : n <= m

At(c, step, n) == cmd[c].step = step /\ Current(c, n)

Readable(n) == dir[n] # NoEntry /\ dir[n].kind # "dir"

GoOn(c, n, tasks, flagged) ==
  cmd' = [cmd EXCEPT ![c] = [@ EXCEPT !.step = FirstVisit(c), !.todo = cmd[c].todo \ {n},
                               !.tasks = cmd[c].tasks \cup tasks,
                               !.flagged = cmd[c].flagged \cup flagged]]

Stop(c, outcome) == cmd' = [cmd EXCEPT ![c] = [@ EXCEPT !.step = "ended", !.outcome = outcome]]

Advance(c, step) == cmd' = [cmd EXCEPT ![c] = [@ EXCEPT !.step = step]]

\* Mutant: the sweep believes a status only in a file that validates.
MisfiledIfValid(n) ==
  dir[n].text # Unparsable /\ Accepts(n, dir[n].text, TRUE)
  /\ dir[n].text.status \in finishedTaskStatuses

\* misfiledTasks asks the frontmatter, valid or not, for a finished status.
Misfiled(n) == dir[n].text # Unparsable /\ dir[n].text.status \in finishedTaskStatuses

\* misfiledTasks reads one file; one it cannot read fails the command.
ReadStatus(n) ==
  /\ At("check", "read", n)
  /\ IF Readable(n) THEN GoOn("check", n, {}, IF Misfiled(n) THEN {n} ELSE {})
     ELSE Stop("check", "error")
  /\ UNCHANGED <<root, folder, dir, saves>>

DeclaresWanted(n) == dir[n].text # Unparsable /\ dir[n].text.id = cmd["find"].wanted

\* taskByID reads one file and compares its id: the first that declares the
\* wanted one is judged, the others are passed over.
ReadId(n) ==
  /\ At("find", "read", n)
  /\ IF ~Readable(n) THEN Stop("find", "error")
     ELSE IF DeclaresWanted(n) THEN Advance("find", "lstat")
     ELSE GoOn("find", n, {}, {})
  /\ UNCHANGED <<root, folder, dir, saves>>

\* What became of a file that loadTaskFile refuses: `tasks` and `validate` report
\* it and go on, a lookup ends with ErrInvalidTask.
Refused(c, n) == IF c = "find" THEN Stop(c, "rejected") ELSE GoOn(c, n, {}, {n})

\* loadTaskFile looks at the file: regular, and not over the size limit ...
Lstat(c, n) ==
  /\ At(c, "lstat", n)
  /\ IF dir[n] # NoEntry /\ dir[n].kind = "file" THEN Advance(c, "load") ELSE Refused(c, n)
  /\ UNCHANGED <<root, folder, dir, saves>>

\* Mutant: a file that cannot be read by now is left out without a word.
LoadOrForget(c, n) ==
  /\ At(c, "load", n)
  /\ IF ~Readable(n) THEN GoOn(c, n, {}, {})
     ELSE IF ~Accepts(n, dir[n].text, c = "validate") THEN Refused(c, n)
     ELSE IF c = "find" THEN Stop(c, "found")
     ELSE GoOn(c, n, {Task(n, dir[n].text)}, {})
  /\ UNCHANGED <<root, folder, dir, saves>>

\* Mutant: a lookup is as strict as validation.
LoadStrictly(c, n) ==
  /\ At(c, "load", n)
  /\ IF ~Readable(n) \/ ~Accepts(n, dir[n].text, c # "tasks") THEN Refused(c, n)
     ELSE IF c = "find" THEN Stop(c, "found")
     ELSE GoOn(c, n, {Task(n, dir[n].text)}, {})
  /\ UNCHANGED <<root, folder, dir, saves>>

\* ... and then reads it, whatever it is by then.
Load(c, n) ==
  /\ At(c, "load", n)
  /\ IF ~Readable(n) \/ ~Accepts(n, dir[n].text, c = "validate") THEN Refused(c, n)
     ELSE IF c = "find" THEN Stop(c, "found")
     ELSE GoOn(c, n, {Task(n, dir[n].text)}, {})
  /\ UNCHANGED <<root, folder, dir, saves>>

Verdict(c) ==
  CASE c = "tasks"    -> "listed"
    [] c = "validate" -> IF cmd[c].flagged = {} THEN "accepted" ELSE "rejected"
    [] c = "check"    -> IF cmd[c].flagged = {} THEN "clean" ELSE "misfiled"
    [] c = "find"     -> "notfound"

\* Every file was visited: the command reports.
End(c) ==
  /\ cmd[c].step = FirstVisit(c) /\ cmd[c].todo = {}
  /\ Stop(c, Verdict(c))
  /\ UNCHANGED <<root, folder, dir, saves>>

\* The user, or a command that files a task, changes one name.
Save(n) ==
  /\ saves < MaxSaves
  /\ \E e \in Saved : e # dir[n] /\ dir' = [dir EXCEPT ![n] = e]
  /\ saves' = saves + 1
  /\ UNCHANGED <<root, folder, cmd>>

Next ==
  \/ \E c \in Commands : Open(c) \/ End(c) \/ \E n \in Names : Lstat(c, n) \/ Load(c, n)
  \/ \E n \in Names : ReadStatus(n) \/ ReadId(n) \/ Save(n)

Spec == Init /\ [][Next]_vars

-----------------------------------------------------------------------------
Ended(c) == cmd[c].step = "ended"
NamesOf(tasks) == {t.name : t \in tasks}

TypeOK ==
  /\ root \in Roots /\ folder \in {"dir", "symlink"}
  /\ dir \in [Names -> Entries \cup {NoEntry}]
  /\ cmd \in [Commands -> Command]
  /\ saves \in 0..MaxSaves
  /\ \A c \in Commands :
       /\ Ended(c) <=> cmd[c].outcome # "none"
       /\ cmd[c].todo \subseteq cmd[c].listed
       /\ cmd[c].step = "read" => c \in {"check", "find"}
       /\ cmd[c].step \in {"lstat", "load"} => c # "check"

\* "An author who forgets frontmatter on a real task must still be told": every
\* file that `tasks` or `validate` met is reported once, as a task or as invalid,
\* whatever happened to it between the listing and its reading.
EntriesAccountedFor ==
  \A c \in {"tasks", "validate"} :
    Ended(c) /\ cmd[c].outcome # "error" =>
      /\ NamesOf(cmd[c].tasks) \cup cmd[c].flagged = cmd[c].listed
      /\ NamesOf(cmd[c].tasks) \cap cmd[c].flagged = {}

\* No listing shows one id twice, even when a task is renamed under it: the id
\* is the identity that `tasks complete` and references go by.
ListedIdsUnique ==
  \A c \in Commands : \A t, u \in cmd[c].tasks : t.id = u.id => t = u

\* What `validate` accepts `tasks` lists, all of it, with no invalid file, no note
\* that validation would reject a task, and a contract that has both parts.
ValidMeansListed ==
  Ended("validate") /\ cmd["validate"].outcome = "accepted"
  /\ Ended("tasks") /\ cmd["tasks"].outcome = "listed"
  /\ saves = 0 /\ root = "top" =>
    /\ cmd["tasks"].flagged = {}
    /\ cmd["tasks"].tasks = cmd["validate"].tasks
    /\ \A t \in cmd["tasks"].tasks :
         ~t.noted /\ t.contract.outcome /\ t.contract.done_when

\* When `tasks archive --check` calls the live directory clean, `tasks` lists no
\* finished task in it (the location invariant), valid contract or not.
CleanMeansNoneFinished ==
  Ended("check") /\ cmd["check"].outcome = "clean"
  /\ Ended("tasks") /\ saves = 0 =>
    \A t \in cmd["tasks"].tasks : t.status \notin finishedTaskStatuses

\* A listed id can be completed, unless a file that sorts before it declares the
\* same id and `tasks` reports that file as invalid.
ListedIsFound ==
  Ended("find") /\ cmd["find"].outcome # "error"
  /\ Ended("tasks") /\ saves = 0 =>
    \A t \in cmd["tasks"].tasks :
      t.id = cmd["find"].wanted =>
        \/ cmd["find"].outcome = "found" /\ Current("find", t.name)
        \/ /\ cmd["find"].outcome = "rejected"
           /\ \E n \in cmd["tasks"].flagged : Current("find", n) /\ n < t.name

\* "--root inside a Git working tree resolves to the repository top level for
\* every command": what a command reports on is what is in the tasks of the
\* top level.
ReadsTopLevel ==
  \A c \in Commands :
    Ended(c) /\ cmd[c].outcome # "error" /\ saves = 0 =>
      \A n \in Names \ Reserved :
        dir[n] # NoEntry /\ dir[n].kind = "file" => n \in cmd[c].listed
=============================================================================
