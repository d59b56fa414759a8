----------------------------- MODULE TaskFiles -----------------------------
(***************************************************************************)
(* The files the task lifecycle moves and rewrites, and the pure functions *)
(* of internal/context/archive.go over them: what a link text points at,   *)
(* how a move re-expresses it, what a completed file holds.                *)
(*                                                                         *)
(* A task t has two slots, .struktly/tasks/t.md ("live") and               *)
(* .struktly/tasks/archive/t.md ("arch").  Every other Markdown or Go file *)
(* of the repository that mentions tasks is a "doc".                       *)
(***************************************************************************)
EXTENDS Integers

CONSTANTS
  Tasks,      \* task ids; a task's filename is its id (loadTaskFile)
  Docs,       \* other Markdown and Go files that mention tasks
  NoTask,     \* the id of a file that declares none of Tasks, or none at all
  NoFile      \* what a free slot holds

ASSUME NoTaskIsNoTask == NoTask \notin Tasks

Live(t) == <<"live", t>>
Arch(t) == <<"arch", t>>
Names == ({"live", "arch"} \X Tasks) \cup ({"doc"} \X Docs)

Statuses == {"open", "done", "canceled"}
finishedTaskStatuses == {"done", "canceled"}

\* A body is the number of the user's save it comes from; Lost is a body that
\* an interrupted write cut short.
Lost == -1
Bodies == Nat \cup {Lost}

(***************************************************************************)
(* A file mentions each task at most once, as the Markdown target          *)
(*   "sib" (u.md), "down" (archive/u.md) or "up" (../u.md),                *)
(* or as the repository-root path of the live ("root") or of the archived  *)
(* ("rootarch") slot.                                                      *)
(***************************************************************************)
RelativeTexts == {"sib", "down", "up"}
Texts == RelativeTexts \cup {"none", "root", "rootarch"}
NoLinks == [u \in Tasks |-> "none"]

File == [id : Tasks \cup {NoTask}, status : Statuses, body : Bodies,
         links : [Tasks -> Texts]]

ASSUME NoFileIsNoFile == NoFile \notin File

\* The directory a link text leads to when it is read in directory dir.
Leads(dir, text) ==
  CASE text = "root"                     -> "live"
    [] text = "rootarch"                 -> "arch"
    [] text = "sib"                      -> dir
    [] text = "down" /\ dir = "live"     -> "arch"
    [] text = "up"   /\ dir = "arch"     -> "live"
    [] OTHER                             -> "nowhere"

\* The relative text that leads from directory dir to directory to.
RelativeText(dir, to) ==
  IF dir = to THEN "sib" ELSE IF to = "arch" THEN "down" ELSE "up"

\* Where a path is once every task of moves has been filed.
movedTaskPath(dir, t, moves) == IF dir = "live" /\ t \in moves THEN "arch" ELSE dir

\* os.Stat succeeds on the slot of u in directory dir.
Exists(tree, dir, u) == dir \in {"live", "arch"} /\ tree[<<dir, u>>] # NoFile

(***************************************************************************)
(* The Markdown links of the file called name: a link that resolves today  *)
(* is re-expressed from where the file will be to where its target will    *)
(* be; a link that does not resolve is left as written.                    *)
(***************************************************************************)
rewriteTaskLinks(tree, name, links, moves) ==
  [u \in Tasks |->
     LET to == Leads(name[1], links[u]) IN
     IF links[u] \in RelativeTexts /\ Exists(tree, to, u)
     THEN RelativeText(movedTaskPath(name[1], name[2], moves), movedTaskPath(to, u, moves))
     ELSE links[u]]

\* Repository-root paths are replaced as text, resolvable or not.
ReplaceCitations(links, moves) ==
  [u \in Tasks |-> IF links[u] = "root" /\ u \in moves THEN "rootarch" ELSE links[u]]

\* What repairTaskLinks makes of the file called name.
Repaired(tree, name, moves) ==
  [tree[name] EXCEPT !.links =
     ReplaceCitations(rewriteTaskLinks(tree, name, @, moves), moves)]

\* Mutant: the status is left as it was.
UnchangedContent(file) == file

\* Only the leading frontmatter changes: the body is not this function's to touch.
completedTaskContent(file) == [file EXCEPT !.status = "done"]

\* taskByID finds t in its slot, and loadTaskFile accepts it.
Declares(tree, name, t) == tree[name] # NoFile /\ tree[name].id = t

\* Mutant: the sweep takes every live task, finished or not.
LiveTasks(tree) == {t \in Tasks : tree[Live(t)] # NoFile}

\* Every finished task still in the live directory, by its frontmatter alone.
misfiledTasks(tree) ==
  {t \in Tasks : tree[Live(t)] # NoFile /\ tree[Live(t)].status \in finishedTaskStatuses}

(***************************************************************************)
(* os.WriteFile truncates, then writes.  Interrupted, it leaves nothing    *)
(* ("empty": no frontmatter, hence no id and no finished status) or a      *)
(* prefix that holds the frontmatter and not the whole body ("head").      *)
(***************************************************************************)
Torn(file, outcome) ==
  IF outcome = "empty"
  THEN [id |-> NoTask, status |-> "open", body |-> Lost, links |-> NoLinks]
  ELSE [file EXCEPT !.body = Lost, !.links = NoLinks]
=============================================================================
