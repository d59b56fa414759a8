----------------------------- MODULE Workspace -----------------------------
(***************************************************************************)
(* `struktly init`, `struktly scan` and `struktly suggest-instructions` as *)
(* processes over .struktly: the configuration, the two files of a scan    *)
(* (project-context.md and scans/latest.json) and the instruction drafts.  *)
(* Each step is one visit to the file system.  The user edits the files    *)
(* that are read, commits, changes and deletes branches, and Git packs its *)
(* refs, at any time; any command may be stopped between two steps or      *)
(* inside a write.                                                         *)
(***************************************************************************)
EXTENDS Integers

CONSTANTS
  Procs,           \* invocations of the CLI that may run at once
  ScanInputs,      \* files a scan quotes: direction.md, Makefiles, package.json
  Makefile,        \* the one of them that commands are detected in
  GuidanceInputs,  \* files the drafts quote: direction.md, constraints.md, decisions.md
  Drafts,          \* number of draft files, one per target
  FirstTexts,      \* what an input may hold at first
  Branches,        \* branches the repository may have
  FirstRefs,       \* its HEAD and its refs at first
  TornFiles,       \* outputs whose write may be stopped midway
  MaxStops, MaxEdits, MaxCommits, MaxSwitches, MaxPacks, \* bounds on the environment
  MaxEvents        \* ... and on the last four taken together

Inputs == ScanInputs \cup GuidanceInputs

ASSUME BoundsAreNat ==
  /\ MaxStops \in Nat /\ MaxEdits \in Nat
  /\ MaxCommits \in Nat /\ MaxSwitches \in Nat /\ MaxPacks \in Nat
  /\ MaxEvents \in Nat
ASSUME DraftsAreCounted == Drafts \in Nat \ {0}
ASSUME MakefileIsScanned == Makefile \in ScanInputs
ASSUME TornFilesAreOutputs == TornFiles \subseteq {"config", "md", "json", "draft"}
ASSUME TextsAreTexts == FirstTexts \subseteq {"absent", "plain", "secret"}
ASSUME SomeBranch == Branches # {}

Refs == [branch : Branches, detached : 0..2,
         loose : [Branches -> 0..2], packed : [Branches -> 0..2]]

ASSUME RefsAreRefs == FirstRefs \subseteq Refs

VARIABLES
  text,       \* [Inputs -> Texts]: what the user's files hold
  branch,     \* the branch .git/HEAD names
  detached,   \* the revision .git/HEAD holds instead, 0 for none
  loose,      \* [Branches -> Revisions]: the files of .git/refs, 0 for none
  packed,     \* [Branches -> Revisions]: the lines of .git/packed-refs
  config,     \* .struktly/config.json
  md, json,   \* .struktly/project-context.md and .struktly/scans/latest.json
  drafts,     \* [1..Drafts -> Draft]: .struktly/agent-instructions
  run,        \* [Procs -> Run]
  unfinished, \* [Procs -> Commands]: what a caller started and was not told the end of
  packing,    \* loose refs that git pack-refs has copied and not removed yet
  declared,   \* ghost: the user has written a configuration
  raced,      \* ghost: ... while an init was between its Stat and its write
  overlapped, \* ghost: two commands had outputs half written at the same time
  stops, edits, commits, switches, packs

git == <<branch, detached, loose, packed>>
counters == <<stops, edits, commits, switches, packs>>
outputs == <<config, md, json, drafts>>
vars == <<text, git, outputs, run, unfinished, packing, declared, raced, overlapped, counters>>

Commands == {"init", "scan", "suggest"}
Texts == {"absent", "plain", "secret"}

\* What a command holds, or an output quotes, of an input.
Quotes == {"none", "excluded", "plain", "secret"}
Nothing == [i \in Inputs |-> "none"]

Revisions == 0..(MaxCommits + 2)
Ref(b) == IF loose[b] # 0 THEN loose[b] ELSE packed[b]
HeadRevision == IF detached # 0 THEN detached ELSE Ref(branch)
OnBranch(b) == detached = 0 /\ branch = b

States == {"absent", "torn", "whole"}
Report == [state : States, found : [Inputs -> Quotes], git : BOOLEAN]
Snapshot == [state : States, found : [Inputs -> Quotes], revision : Revisions]
Draft == [state : States, found : [Inputs -> Quotes], commands : Quotes]

NoReport == [state |-> "absent", found |-> Nothing, git |-> FALSE]
NoSnapshot == [state |-> "absent", found |-> Nothing, revision |-> 0]
NoDraft == [state |-> "absent", found |-> Nothing, commands |-> "none"]

Steps == {"idle", "stat", "config", "head", "loose", "packed", "collect", "md", "json",
          "context", "guidance", "draft"}

Run == [step : Steps, cmd : Commands,
        late : BOOLEAN,               \* gitRevision is asked the second time, by snapshot
        git : BOOLEAN,                \* gitAuthoritative
        ref : Branches,               \* the branch gitRevision found in HEAD
        rev : Revisions,              \* what gitRevision answered last
        during : SUBSET Revisions,    \* ghost: where HEAD was while it was asked
        overtaken : BOOLEAN,          \* ghost: ref was moved or deleted since HEAD left it
        todo : SUBSET Inputs,         \* what has not been read yet
        found : [Inputs -> Quotes],
        commands : Quotes,            \* suggest: the commands of project-context.md
        next : 1..Drafts]       \* suggest: the draft to write

Idle == [step |-> "idle", cmd |-> "scan", late |-> FALSE, git |-> FALSE,
         ref |-> CHOOSE b \in Branches : TRUE, rev |-> 0, during |-> {}, overtaken |-> FALSE,
         todo |-> {}, found |-> Nothing, commands |-> "none", next |-> 1]

Quiet == \A p \in Procs : run[p].step = "idle" /\ unfinished[p] = "none"

Init ==
  /\ text \in [Inputs -> FirstTexts]
  /\ \E r \in FirstRefs : /\ branch = r.branch /\ detached = r.detached
                           /\ loose = r.loose /\ packed = r.packed
  /\ config \in {"absent", "user"}
  /\ md = NoReport /\ json = NoSnapshot /\ drafts = [d \in 1..Drafts |-> NoDraft]
  /\ run = [p \in Procs |-> Idle]
  /\ unfinished = [p \in Procs |-> "none"] /\ packing = {}
  /\ declared = (config = "user") /\ raced = FALSE /\ overlapped = FALSE
  /\ stops = 0 /\ edits = 0 /\ commits = 0 /\ switches = 0 /\ packs = 0

-----------------------------------------------------------------------------
(* Starting, ending and being stopped. *)

FirstStep == [init |-> "stat", scan |-> "head", suggest |-> "context"]

Start(p, c) ==
  /\ run[p].step = "idle"
  /\ unfinished[p] \in {"none", c}
  /\ run' = [run EXCEPT ![p] = [Idle EXCEPT !.step = FirstStep[c], !.cmd = c]]
  /\ UNCHANGED <<text, git, outputs, unfinished, packing, declared, raced, overlapped, counters>>

Move(p, changed) == run' = [run EXCEPT ![p] = changed]

Finish(p) ==
  /\ run' = [run EXCEPT ![p] = Idle]
  /\ unfinished' = [unfinished EXCEPT ![p] = "none"]

Abandon(p) ==
  /\ run' = [run EXCEPT ![p] = Idle]
  /\ unfinished' = [unfinished EXCEPT ![p] = run[p].cmd]

\* A kill, or an error of any system call, between two steps.
Stop(p) ==
  /\ run[p].step # "idle" /\ stops < MaxStops
  /\ Abandon(p)
  /\ stops' = stops + 1
  /\ UNCHANGED <<text, git, outputs, packing, declared, raced, overlapped,
                 edits, commits, switches, packs>>

\* Two commands write files that belong together.
Overlaps(p) ==
  \E q \in Procs \ {p} :
    \/ run[q].step \in {"md", "json"} /\ run[p].step \in {"md", "json"}
    \/ run[q].step = "draft" /\ run[p].step = "draft"

\* A kill, or a full disk, inside os.WriteFile.
Tear(p) ==
  /\ run[p].step \in TornFiles /\ stops < MaxStops
  /\ config' = IF run[p].step = "config" THEN "torn" ELSE config
  /\ md' = IF run[p].step = "md" THEN [NoReport EXCEPT !.state = "torn"] ELSE md
  /\ json' = IF run[p].step = "json" THEN [NoSnapshot EXCEPT !.state = "torn"] ELSE json
  /\ drafts' = IF run[p].step = "draft"
               THEN [drafts EXCEPT ![run[p].next] = [NoDraft EXCEPT !.state = "torn"]] ELSE drafts
  /\ overlapped' = (overlapped \/ Overlaps(p))
  /\ Abandon(p)
  /\ stops' = stops + 1
  /\ UNCHANGED <<text, git, packing, declared, raced, edits, commits, switches, packs>>

-----------------------------------------------------------------------------
(* init *)

\* Mutant: the configuration is written whatever is there.
StatNothing(p) ==
  /\ run[p].step = "stat"
  /\ Move(p, [run[p] EXCEPT !.step = "config"])
  /\ UNCHANGED <<text, git, outputs, unfinished, packing, declared, raced, overlapped, counters>>

\* A configuration that exists, whole or not, is left alone.
Stat(p) ==
  /\ run[p].step = "stat"
  /\ Move(p, [run[p] EXCEPT !.step = IF config = "absent" THEN "config" ELSE "head"])
  /\ UNCHANGED <<text, git, outputs, unfinished, packing, declared, raced, overlapped, counters>>

\* os.WriteFile replaces whatever is there by now; then init runs a scan.
WriteConfig(p) ==
  /\ run[p].step = "config"
  /\ config' = "default"
  /\ Move(p, [run[p] EXCEPT !.step = "head"])
  /\ UNCHANGED <<text, git, md, json, drafts, unfinished, packing, declared, raced, overlapped,
                 counters>>

-----------------------------------------------------------------------------
(* scan: gitRevision, asked by collect and again by snapshot *)

\* What a scan goes on with once it knows the revision.
WithRevision(r, rev) ==
  IF r.late THEN [r EXCEPT !.step = "md", !.rev = rev]
  ELSE [r EXCEPT !.step = "collect", !.rev = rev, !.git = rev # 0, !.todo = ScanInputs]

\* HEAD names a branch or, detached, is the answer.
ReadHead(p) ==
  LET r == [run[p] EXCEPT !.ref = branch, !.during = {HeadRevision}, !.overtaken = FALSE] IN
  /\ run[p].step = "head"
  /\ Move(p, IF detached # 0 THEN WithRevision(r, detached) ELSE [r EXCEPT !.step = "loose"])
  /\ UNCHANGED <<text, git, outputs, unfinished, packing, declared, raced, overlapped, counters>>

\* Mutant: packed-refs is read before the loose ref.
ReadPackedFirst(p) ==
  LET r == run[p] IN
  /\ r.step = "loose"
  /\ Move(p, IF packed[r.ref] # 0 THEN WithRevision(r, packed[r.ref])
             ELSE [r EXCEPT !.step = "packed"])
  /\ UNCHANGED <<text, git, outputs, unfinished, packing, declared, raced, overlapped, counters>>

\* The loose ref of the branch HEAD named when it was read ...
ReadLoose(p) ==
  LET r == run[p] IN
  /\ r.step = "loose"
  /\ Move(p, IF loose[r.ref] # 0 THEN WithRevision(r, loose[r.ref])
             ELSE [r EXCEPT !.step = "packed"])
  /\ UNCHANGED <<text, git, outputs, unfinished, packing, declared, raced, overlapped, counters>>

\* ... and, without one, its packed ref, or none.
ReadPacked(p) ==
  /\ run[p].step = "packed"
  /\ Move(p, WithRevision(run[p], packed[run[p].ref]))
  /\ UNCHANGED <<text, git, outputs, unfinished, packing, declared, raced, overlapped, counters>>

\* Mutant: the text is quoted without a scan for secrets.
QuoteWithoutGuard(t) == IF t = "absent" THEN "none" ELSE t

\* One file is read once, and that text is scanned for secrets and quoted: a
\* secret excludes the file and is named in the open questions.
Quote(t) == IF t = "absent" THEN "none" ELSE IF t = "secret" THEN "excluded" ELSE t

ReadInput(p, i) ==
  /\ run[p].step \in {"collect", "guidance"} /\ i \in run[p].todo
  /\ Move(p, [run[p] EXCEPT !.todo = @ \ {i}, !.found[i] = Quote(text[i])])
  /\ UNCHANGED <<text, git, outputs, unfinished, packing, declared, raced, overlapped, counters>>

EndCollect(p) ==
  /\ run[p].step = "collect" /\ run[p].todo = {}
  /\ Move(p, [run[p] EXCEPT !.step = "head", !.late = TRUE])
  /\ UNCHANGED <<text, git, outputs, unfinished, packing, declared, raced, overlapped, counters>>

\* Mutant: the Markdown is rendered from the files as they are by now.
RenderAgain(p) ==
  /\ run[p].step = "md"
  /\ md' = [state |-> "whole", git |-> run[p].git,
            found |-> [i \in Inputs |->
                         IF run[p].found[i] = "plain" THEN QuoteWithoutGuard(text[i])
                         ELSE run[p].found[i]]]
  /\ overlapped' = (overlapped \/ Overlaps(p))
  /\ Move(p, [run[p] EXCEPT !.step = "json"])
  /\ UNCHANGED <<text, git, config, json, drafts, unfinished, packing, declared, raced, counters>>

WriteMarkdown(p) ==
  /\ run[p].step = "md"
  /\ md' = [state |-> "whole", found |-> run[p].found, git |-> run[p].git]
  /\ overlapped' = (overlapped \/ Overlaps(p))
  /\ Move(p, [run[p] EXCEPT !.step = "json"])
  /\ UNCHANGED <<text, git, config, json, drafts, unfinished, packing, declared, raced, counters>>

\* Mutant: a snapshot that exists is left alone, torn or not.
KeepSnapshot(p) ==
  /\ run[p].step = "json"
  /\ json' = IF json.state = "absent"
             THEN [state |-> "whole", found |-> run[p].found, revision |-> run[p].rev] ELSE json
  /\ overlapped' = (overlapped \/ Overlaps(p))
  /\ Finish(p)
  /\ UNCHANGED <<text, git, config, md, drafts, packing, declared, raced, counters>>

WriteSnapshot(p) ==
  /\ run[p].step = "json"
  /\ json' = [state |-> "whole", found |-> run[p].found, revision |-> run[p].rev]
  /\ overlapped' = (overlapped \/ Overlaps(p))
  /\ Finish(p)
  /\ UNCHANGED <<text, git, config, md, drafts, packing, declared, raced, counters>>

-----------------------------------------------------------------------------
(* suggest-instructions *)

\* Without a scan there is nothing to suggest from; a torn one goes unnoticed
\* and has no commands.
ReadContext(p) ==
  /\ run[p].step = "context"
  /\ Move(p, IF md.state = "absent" THEN Idle
             ELSE [run[p] EXCEPT !.step = "guidance", !.todo = GuidanceInputs,
                                 !.commands = md.found[Makefile]])
  /\ unfinished' = IF md.state = "absent" THEN [unfinished EXCEPT ![p] = "none"] ELSE unfinished
  /\ UNCHANGED <<text, git, outputs, packing, declared, raced, overlapped, counters>>

EndGuidance(p) ==
  /\ run[p].step = "guidance" /\ run[p].todo = {}
  /\ Move(p, [run[p] EXCEPT !.step = "draft"])
  /\ UNCHANGED <<text, git, outputs, unfinished, packing, declared, raced, overlapped, counters>>

WriteDraft(p) ==
  LET d == run[p].next IN
  /\ run[p].step = "draft"
  /\ drafts' = [drafts EXCEPT ![d] = [state |-> "whole", found |-> run[p].found,
                                      commands |-> run[p].commands]]
  /\ overlapped' = (overlapped \/ Overlaps(p))
  /\ IF d = Drafts THEN Finish(p)
     ELSE Move(p, [run[p] EXCEPT !.next = d + 1]) /\ UNCHANGED unfinished
  /\ UNCHANGED <<text, git, config, md, json, packing, declared, raced, counters>>

-----------------------------------------------------------------------------
(* The user and Git. *)

\* MaxEvents bounds how much the user and Git do in one behaviour.
Spare == edits + commits + switches + packs < MaxEvents

EditInput(i, t) ==
  /\ Spare /\ edits < MaxEdits /\ text[i] # t
  /\ text' = [text EXCEPT ![i] = t]
  /\ edits' = edits + 1
  /\ UNCHANGED <<git, outputs, run, unfinished, packing, declared, raced, overlapped,
                 stops, commits, switches, packs>>

EditConfig ==
  /\ Spare /\ edits < MaxEdits /\ config # "user"
  /\ config' = "user" /\ declared' = TRUE
  /\ raced' = (raced \/ \E p \in Procs : run[p].step = "config")
  /\ edits' = edits + 1
  /\ UNCHANGED <<text, git, md, json, drafts, run, unfinished, packing, overlapped,
                 stops, commits, switches, packs>>

\* Those who are asking for the revision see where HEAD is by now; moved is the
\* branch that is changed while HEAD does not name it, if there is one.
Witness(moved) ==
  run' = [p \in Procs |->
            IF run[p].step \in {"loose", "packed"}
            THEN [run[p] EXCEPT !.during = @ \cup {HeadRevision'},
                                !.overtaken = @ \/ run[p].ref \in moved]
            ELSE run[p]]

\* HEAD moves: the loose ref of its branch, or HEAD itself, is written in one rename.
Commit ==
  /\ Spare /\ commits < MaxCommits
  /\ commits' = commits + 1
  /\ loose' = IF detached = 0 THEN [loose EXCEPT ![branch] = commits + 3] ELSE loose
  /\ detached' = IF detached = 0 THEN 0 ELSE commits + 3
  /\ UNCHANGED <<branch, packed>>
  /\ Witness({})
  /\ UNCHANGED <<text, outputs, unfinished, packing, declared, raced, overlapped,
                 stops, edits, switches, packs>>

\* git checkout, of a branch or of the revision it is at.
Checkout(b) ==
  /\ Spare /\ switches < MaxSwitches /\ Ref(b) # 0
  /\ switches' = switches + 1
  /\ \/ branch' = b /\ detached' = 0
     \/ branch' = branch /\ detached' = Ref(b)
  /\ UNCHANGED <<loose, packed>>
  /\ Witness({})
  /\ UNCHANGED <<text, outputs, unfinished, packing, declared, raced, overlapped,
                 stops, edits, commits, packs>>

\* git branch, -f or -d: a branch is made, moved or deleted, never the one HEAD names.
ChangeBranch(b, rev) ==
  /\ Spare /\ switches < MaxSwitches /\ ~OnBranch(b) /\ rev <= commits + 2
  /\ switches' = switches + 1
  /\ loose' = [loose EXCEPT ![b] = rev]
  /\ packed' = IF rev = 0 THEN [packed EXCEPT ![b] = 0] ELSE packed
  /\ UNCHANGED <<branch, detached>>
  /\ Witness({b})
  /\ UNCHANGED <<text, outputs, unfinished, packing, declared, raced, overlapped,
                 stops, edits, commits, packs>>

\* git pack-refs writes packed-refs first ...
Pack ==
  /\ Spare /\ packs < MaxPacks /\ packing = {}
  /\ packs' = packs + 1
  /\ packing' = {b \in Branches : loose[b] # 0}
  /\ packing' # {}
  /\ packed' = [b \in Branches |-> Ref(b)]
  /\ UNCHANGED <<branch, detached, loose>>
  /\ UNCHANGED <<text, outputs, run, unfinished, declared, raced, overlapped,
                 stops, edits, commits, switches>>

\* ... and then removes the loose refs, but one that changed meanwhile.
Prune(b) ==
  /\ b \in packing
  /\ packing' = packing \ {b}
  /\ loose' = IF loose[b] = packed[b] THEN [loose EXCEPT ![b] = 0] ELSE loose
  /\ UNCHANGED <<branch, detached, packed>>
  /\ UNCHANGED <<text, outputs, run, unfinished, declared, raced, overlapped, counters>>

-----------------------------------------------------------------------------
Step(p) ==
  \/ Stat(p) \/ WriteConfig(p)
  \/ ReadHead(p) \/ ReadLoose(p) \/ ReadPacked(p) \/ EndCollect(p)
  \/ WriteMarkdown(p) \/ WriteSnapshot(p)
  \/ ReadContext(p) \/ EndGuidance(p) \/ WriteDraft(p)
  \/ \E i \in Inputs : ReadInput(p, i)

Environment ==
  \/ EditConfig \/ Commit \/ Pack
  \/ \E b \in Branches : Checkout(b) \/ Prune(b) \/ \E rev \in Revisions : ChangeBranch(b, rev)
  \/ \E i \in Inputs, t \in Texts : EditInput(i, t)

Next ==
  \/ Environment
  \/ \E p \in Procs : Step(p) \/ Stop(p) \/ Tear(p) \/ \E c \in Commands : Start(p, c)

Spec == Init /\ [][Next]_vars

\* A process that is not stopped goes on, and who was told of a failure runs the
\* command again ("callers may safely rerun the command").
Rerun(p) == unfinished[p] # "none" /\ \E c \in Commands : Start(p, c)

Fairness == \A p \in Procs : WF_vars(Step(p)) /\ WF_vars(Rerun(p))

FairSpec == Spec /\ Fairness

-----------------------------------------------------------------------------
TypeOK ==
  /\ text \in [Inputs -> Texts]
  /\ branch \in Branches /\ detached \in Revisions
  /\ loose \in [Branches -> Revisions] /\ packed \in [Branches -> Revisions]
  /\ config \in {"absent", "default", "user", "torn"}
  /\ md \in Report /\ json \in Snapshot /\ drafts \in [1..Drafts -> Draft]
  /\ run \in [Procs -> Run]
  /\ unfinished \in [Procs -> Commands \cup {"none"}]
  /\ packing \subseteq Branches /\ declared \in BOOLEAN
  /\ raced \in BOOLEAN /\ overlapped \in BOOLEAN
  /\ stops \in 0..MaxStops /\ edits \in 0..MaxEdits
  /\ commits \in 0..MaxCommits /\ switches \in 0..MaxSwitches /\ packs \in 0..MaxPacks

\* No output quotes a text with a secret in it, whatever is saved between two
\* reads, and neither do the drafts through the scan they are made from.
NoSecretQuoted ==
  \A i \in Inputs :
    /\ md.found[i] # "secret" /\ json.found[i] # "secret"
    /\ \A d \in 1..Drafts : drafts[d].found[i] # "secret" /\ drafts[d].commands # "secret"

\* gitRevision answers with a revision HEAD was at while it was asked, although
\* it reads HEAD, a loose ref and packed-refs one by one and the user commits,
\* changes branch and packs the refs between them: a repository with a commit is
\* not taken for a directory outside Git.  The exception is a branch that HEAD
\* named when it was read, and that is moved or deleted once HEAD has left it,
\* before its ref is read: then the answer is where the branch is, or none.
RevisionWasCurrent ==
  \A p \in Procs :
    run[p].step \in {"collect", "md", "json"} /\ ~run[p].overtaken =>
      run[p].rev \in run[p].during

\* The user's configuration stays: init writes its own only where it found none,
\* and can only hit one that was created since it looked.
ConfigKept == declared /\ ~raced => config = "user"

\* Between commands, once every interrupted one was rerun to its end, the two
\* files of a scan tell of the same scan and the drafts of the same suggestions,
\* unless two commands wrote them at the same time.
OutputsAgree ==
  Quiet /\ ~overlapped =>
    /\ md.state = json.state /\ md.found = json.found
    /\ \A d \in 1..Drafts : drafts[d] = drafts[1]

\* "Callers may safely rerun the command": an init that was interrupted ends with
\* a configuration and both files of a scan, whole. Only a configuration whose own
\* write was torn stays torn: Stat takes it for the user's.
InitConverges ==
  (\E p \in Procs : unfinished[p] = "init")
    ~> config # "absent" /\ md.state = "whole" /\ json.state = "whole"
=============================================================================
