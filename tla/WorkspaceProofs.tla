-------------------------- MODULE WorkspaceProofs --------------------------
(***************************************************************************)
(* Workspace for any number of commands, inputs and drafts.  Each result   *)
(* is an invariant of its own beside the types: what a command holds is    *)
(* free of secrets, the revision it was given is one HEAD was at while it  *)
(* asked, a process that is about to write a configuration found none, and *)
(* outputs that disagree are owed by a command that is still at work or    *)
(* was interrupted.                                                        *)
(***************************************************************************)
EXTENDS Workspace, FiniteSetTheorems, TLAPS

LEMMA RunMoves ==
  ASSUME TypeOK, NEW p \in Procs, NEW r, r \in Run, run' = [run EXCEPT ![p] = r]
  PROVE  /\ run' \in [Procs -> Run]
         /\ \A q \in Procs : run'[q] = IF q = p THEN r ELSE run[q]
  BY DEF TypeOK

LEMMA HeldIsOK == ASSUME TypeOK, NEW p \in Procs PROVE run[p] \in Run
  BY DEF TypeOK

LEMMA IdleIsOK == Idle \in Run
  BY DraftsAreCounted, BoundsAreNat, SomeBranch
  DEF Idle, Run, Steps, Commands, Revisions, Nothing, Quotes

LEMMA RevisionIsOK ==
  ASSUME NEW r \in Run, NEW rev \in Revisions
  PROVE  WithRevision(r, rev) \in Run
  BY DEF WithRevision, Run, Steps, Inputs

LEMMA RevisionGoesOn ==
  ASSUME NEW r \in Run, NEW rev
  PROVE  /\ WithRevision(r, rev).step \in {"collect", "md"}
         /\ WithRevision(r, rev).cmd = r.cmd /\ WithRevision(r, rev).next = r.next
  BY DEF WithRevision, Run

LEMMA HeadIsRevision ==
  ASSUME TypeOK
  PROVE  HeadRevision \in Revisions /\ \A b \in Branches : Ref(b) \in Revisions
  BY DEF TypeOK, HeadRevision, Ref

\* What ReadHead makes of the record of its process.
Asked(p) == [run[p] EXCEPT !.ref = branch, !.during = {HeadRevision}, !.overtaken = FALSE]

LEMMA AskedIsOK ==
  ASSUME TypeOK, NEW p \in Procs
  PROVE  /\ Asked(p) \in Run /\ Asked(p).cmd = run[p].cmd /\ Asked(p).next = run[p].next
         /\ Asked(p).late = run[p].late /\ Asked(p).found = run[p].found
         /\ Asked(p).commands = run[p].commands /\ Asked(p).ref = branch
         /\ Asked(p).during = {HeadRevision}
<1>1. run[p] \in Run /\ HeadRevision \in Revisions /\ branch \in Branches
  BY HeadIsRevision DEF TypeOK
<1> QED
  BY <1>1 DEF Asked, Run

\* Each visit of gitRevision answers or goes on to the next file.
LEMMA Asking ==
  ASSUME TypeOK, NEW p \in Procs, ReadHead(p) \/ ReadLoose(p) \/ ReadPacked(p)
  PROVE  \E r \in Run, rev \in Revisions :
           /\ \/ r = Asked(p) /\ run[p].step = "head"
              \/ r = run[p] /\ run[p].step \in {"loose", "packed"}
           /\ \/ run' = [run EXCEPT ![p] = WithRevision(r, rev)]
              \/ run[p].step = "head" /\ run' = [run EXCEPT ![p] = [r EXCEPT !.step = "loose"]]
              \/ run[p].step = "loose" /\ run' = [run EXCEPT ![p] = [r EXCEPT !.step = "packed"]]
<1>1. run[p] \in Run /\ Asked(p) \in Run /\ run[p].ref \in Branches
  BY AskedIsOK DEF TypeOK, Run
<1>2. /\ detached \in Revisions /\ loose[run[p].ref] \in Revisions
      /\ packed[run[p].ref] \in Revisions
  BY <1>1 DEF TypeOK
<1>3. CASE ReadHead(p)
  BY <1>1, <1>2, <1>3 DEF ReadHead, Move, Asked
<1>4. CASE ReadLoose(p)
  BY <1>1, <1>2, <1>4 DEF ReadLoose, Move
<1>5. CASE ReadPacked(p)
  BY <1>1, <1>2, <1>5 DEF ReadPacked, Move
<1> QED
  BY <1>3, <1>4, <1>5

\* A step that gives one process a new record and leaves the environment alone.
LEMMA ProcessKeepsTypes ==
  ASSUME TypeOK, NEW p \in Procs, NEW r, r \in Run, run' = [run EXCEPT ![p] = r],
         config' \in {"absent", "default", "user", "torn"},
         md' \in Report, json' \in Snapshot, drafts' \in [1..Drafts -> Draft],
         unfinished' \in [Procs -> Commands \cup {"none"}], overlapped' \in BOOLEAN,
         stops' \in 0..MaxStops,
         UNCHANGED <<text, git, packing, declared, raced, edits, commits, switches, packs>>
  PROVE  TypeOK'
  BY RunMoves DEF TypeOK, git

LEMMA NothingIsOK == NoReport \in Report /\ NoSnapshot \in Snapshot /\ NoDraft \in Draft
  BY BoundsAreNat DEF NoReport, NoSnapshot, NoDraft, Report, Snapshot, Draft, States, Nothing,
     Quotes, Revisions

LEMMA InitTypes == Init => TypeOK
<1> SUFFICES ASSUME Init PROVE TypeOK
  OBVIOUS
<1>1. Idle \in Run /\ Idle.step = "idle"
  BY IdleIsOK DEF Idle
<1>3. /\ branch \in Branches /\ detached \in Revisions
      /\ loose \in [Branches -> Revisions] /\ packed \in [Branches -> Revisions]
  <2>1. PICK r \in Refs : /\ branch = r.branch /\ detached = r.detached
                          /\ loose = r.loose /\ packed = r.packed
    BY RefsAreRefs DEF Init
  <2>2. 0..2 \subseteq Revisions
    BY BoundsAreNat DEF Revisions
  <2> QED
    BY <2>1, <2>2 DEF Refs
<1>4. text \in [Inputs -> Texts]
  BY TextsAreTexts DEF Init, Texts
<1>5. declared \in BOOLEAN
  <2>1. declared = (config = "user")
    BY DEF Init
  <2> QED
    BY <2>1, Zenon
<1>6. /\ md \in Report /\ json \in Snapshot /\ drafts \in [1..Drafts -> Draft]
      /\ run \in [Procs -> Run] /\ unfinished \in [Procs -> Commands \cup {"none"}]
  BY <1>1, NothingIsOK DEF Init
<1>7. config \in {"absent", "default", "user", "torn"}
  BY DEF Init
<1>8. packing \subseteq Branches /\ raced \in BOOLEAN /\ overlapped \in BOOLEAN
  BY DEF Init
<1>9. /\ stops \in 0..MaxStops /\ edits \in 0..MaxEdits
      /\ commits \in 0..MaxCommits /\ switches \in 0..MaxSwitches /\ packs \in 0..MaxPacks
  BY BoundsAreNat DEF Init
<1> QED
  BY <1>3, <1>4, <1>5, <1>6, <1>7, <1>8, <1>9, Zenon DEF TypeOK

LEMMA StepKeepsTypes ==
  ASSUME TypeOK, NEW p \in Procs, Step(p)
  PROVE  TypeOK'
<1>0. run[p] \in Run
  BY HeldIsOK
<1>1. CASE Stat(p)
  <2>1. [run[p] EXCEPT !.step = IF config = "absent" THEN "config" ELSE "head"] \in Run
    BY <1>0 DEF Run, Steps
  <2> QED
    BY <1>1, <2>1, ProcessKeepsTypes DEF Stat, Move, outputs, counters, TypeOK
<1>2. CASE WriteConfig(p)
  <2>1. [run[p] EXCEPT !.step = "head"] \in Run
    BY <1>0 DEF Run, Steps
  <2> QED
    BY <1>2, <2>1, ProcessKeepsTypes DEF WriteConfig, Move, counters, TypeOK
<1>3. CASE ReadHead(p) \/ ReadLoose(p) \/ ReadPacked(p)
  <2>1. PICK r \in Run, rev \in Revisions :
          \/ run' = [run EXCEPT ![p] = WithRevision(r, rev)]
          \/ run' = [run EXCEPT ![p] = [r EXCEPT !.step = "loose"]]
          \/ run' = [run EXCEPT ![p] = [r EXCEPT !.step = "packed"]]
    BY <1>3, Asking
  <2>2. /\ WithRevision(r, rev) \in Run
        /\ [r EXCEPT !.step = "loose"] \in Run /\ [r EXCEPT !.step = "packed"] \in Run
    BY RevisionIsOK DEF Run, Steps
  <2>3. UNCHANGED <<text, git, outputs, unfinished, packing, declared, raced, overlapped, counters>>
    BY <1>3 DEF ReadHead, ReadLoose, ReadPacked
  <2> QED
    BY <2>1, <2>2, <2>3, ProcessKeepsTypes DEF outputs, counters, TypeOK
<1>5. CASE EndCollect(p)
  <2>1. [run[p] EXCEPT !.step = "head", !.late = TRUE] \in Run
    BY <1>0 DEF Run, Steps
  <2> QED
    BY <1>5, <2>1, ProcessKeepsTypes DEF EndCollect, Move, outputs, counters, TypeOK
<1>6. CASE WriteMarkdown(p)
  <2>1. [run[p] EXCEPT !.step = "json"] \in Run
    BY <1>0 DEF Run, Steps
  <2>2. md' \in Report /\ overlapped' \in BOOLEAN
    BY <1>0, <1>6 DEF WriteMarkdown, Report, Run, States, TypeOK, Overlaps
  <2> QED
    BY <1>6, <2>1, <2>2, ProcessKeepsTypes DEF WriteMarkdown, Move, counters, TypeOK
<1>7. CASE WriteSnapshot(p)
  <2>1. json' \in Snapshot /\ overlapped' \in BOOLEAN
    BY <1>0, <1>7 DEF WriteSnapshot, Snapshot, Run, States, TypeOK, Overlaps
  <2> QED
    BY <1>7, <2>1, IdleIsOK, ProcessKeepsTypes DEF WriteSnapshot, Finish, counters, TypeOK
<1>8. CASE ReadContext(p)
  <2> DEFINE r == IF md.state = "absent" THEN Idle
                  ELSE [run[p] EXCEPT !.step = "guidance", !.todo = GuidanceInputs,
                                      !.commands = md.found[Makefile]]
  <2>1. md.found[Makefile] \in Quotes
    BY MakefileIsScanned DEF TypeOK, Report, Inputs
  <2>2. r \in Run
    BY <1>0, <2>1, IdleIsOK DEF Run, Steps, Inputs
  <2>3. run' = [run EXCEPT ![p] = r] /\ unfinished' \in [Procs -> Commands \cup {"none"}]
    BY <1>8 DEF ReadContext, Move, TypeOK
  <2> QED
    BY <1>8, <2>2, <2>3, ProcessKeepsTypes DEF ReadContext, outputs, counters, TypeOK
<1>9. CASE EndGuidance(p)
  <2>1. [run[p] EXCEPT !.step = "draft"] \in Run
    BY <1>0 DEF Run, Steps
  <2> QED
    BY <1>9, <2>1, ProcessKeepsTypes DEF EndGuidance, Move, outputs, counters, TypeOK
<1>10. CASE WriteDraft(p)
  <2>1. run[p].next \in 1..Drafts
    BY <1>0, <1>10 DEF WriteDraft, Run
  <2>2. drafts' \in [1..Drafts -> Draft] /\ overlapped' \in BOOLEAN
    BY <1>0, <1>10, <2>1 DEF WriteDraft, Draft, Run, States, TypeOK, Overlaps
  <2>3. CASE run[p].next = Drafts
    BY <1>10, <2>2, <2>3, IdleIsOK, ProcessKeepsTypes DEF WriteDraft, Finish, counters, TypeOK
  <2>4. CASE run[p].next # Drafts
    <3>1. [run[p] EXCEPT !.next = run[p].next + 1] \in Run
      BY <1>0, <2>1, <2>4, DraftsAreCounted DEF Run
    <3> QED
      BY <1>10, <2>2, <2>4, <3>1, ProcessKeepsTypes DEF WriteDraft, Move, counters, TypeOK
  <2> QED
    BY <2>3, <2>4
<1>11. ASSUME NEW i \in Inputs, ReadInput(p, i) PROVE TypeOK'
  <2>1. Quote(text[i]) \in Quotes
    BY DEF TypeOK, Texts, Quotes, Quote
  <2>2. [run[p] EXCEPT !.todo = run[p].todo \ {i}, !.found[i] = Quote(text[i])] \in Run
    BY <1>0, <1>11, <2>1 DEF Run, ReadInput
  <2> QED
    BY <1>11, <2>2, ProcessKeepsTypes DEF ReadInput, Move, outputs, counters, TypeOK
<1> QED
  BY <1>1, <1>2, <1>3, <1>5, <1>6, <1>7, <1>8, <1>9, <1>10, <1>11 DEF Step

\* What the user and Git do to HEAD and the refs while somebody asks for them.
LEMMA WitnessKeepsTypes ==
  ASSUME TypeOK, NEW moved, Witness(moved), HeadRevision' \in Revisions
  PROVE  run' \in [Procs -> Run]
<1>1. ASSUME NEW p \in Procs
      PROVE  [run[p] EXCEPT !.during = run[p].during \cup {HeadRevision'},
                            !.overtaken = run[p].overtaken \/ run[p].ref \in moved] \in Run
  <2>1. run[p] \in Run
    BY HeldIsOK
  <2>2. run[p].during \cup {HeadRevision'} \in SUBSET Revisions
    BY <2>1 DEF Run
  <2>3. (run[p].overtaken \/ run[p].ref \in moved) \in BOOLEAN
    OBVIOUS
  <2> QED
    BY <2>1, <2>2, <2>3 DEF Run
<1> QED
  BY <1>1 DEF Witness, TypeOK

LEMMA EnvironmentKeepsTypes ==
  ASSUME TypeOK, Environment
  PROVE  TypeOK'
<1> DEFINE RefsOK == /\ branch \in Branches /\ detached \in Revisions
                     /\ loose \in [Branches -> Revisions] /\ packed \in [Branches -> Revisions]
<1>0. RefsOK => HeadRevision \in Revisions
  BY DEF HeadRevision, Ref
<1>h. RefsOK' => HeadRevision' \in Revisions
  BY DEF HeadRevision, Ref
<1>1. CASE EditConfig
  <2>1. edits' \in 0..MaxEdits /\ config' \in {"absent", "default", "user", "torn"}
    BY <1>1, BoundsAreNat DEF EditConfig, TypeOK
  <2>2. raced' \in BOOLEAN /\ declared' \in BOOLEAN
    BY <1>1 DEF EditConfig, TypeOK
  <2> QED
    BY <1>1, <2>1, <2>2, Zenon DEF EditConfig, TypeOK, git
<1>2. CASE Commit
  <2>1. commits + 3 \in Revisions /\ commits + 1 \in 0..MaxCommits /\ 0 \in Revisions
    BY <1>2, BoundsAreNat DEF Commit, TypeOK, Revisions
  <2>2. RefsOK'
    BY <1>2, <2>1 DEF Commit, TypeOK
  <2>3. run' \in [Procs -> Run]
    BY <1>2, <1>h, <2>2, WitnessKeepsTypes DEF Commit
  <2> QED
    BY <1>2, <2>1, <2>2, <2>3, Zenon DEF Commit, TypeOK, outputs
<1>3. ASSUME NEW b \in Branches, Checkout(b) PROVE TypeOK'
  <2>1. switches' \in 0..MaxSwitches /\ 0 \in Revisions
    BY <1>3, BoundsAreNat DEF Checkout, TypeOK, Revisions
  <2>2. RefsOK'
    BY <1>3, <2>1, HeadIsRevision DEF Checkout, TypeOK
  <2>3. run' \in [Procs -> Run]
    BY <1>3, <1>h, <2>2, WitnessKeepsTypes DEF Checkout
  <2> QED
    BY <1>3, <2>1, <2>2, <2>3, Zenon DEF Checkout, TypeOK, outputs
<1>4. ASSUME NEW b \in Branches, NEW rev \in Revisions, ChangeBranch(b, rev) PROVE TypeOK'
  <2>1. switches' \in 0..MaxSwitches
    BY <1>4, BoundsAreNat DEF ChangeBranch, TypeOK
  <2>2. RefsOK'
    BY <1>4 DEF ChangeBranch, TypeOK
  <2>3. run' \in [Procs -> Run]
    BY <1>4, <1>h, <2>2, WitnessKeepsTypes DEF ChangeBranch
  <2> QED
    BY <1>4, <2>1, <2>2, <2>3, Zenon DEF ChangeBranch, TypeOK, outputs
<1>5. CASE Pack
  <2>1. packs' \in 0..MaxPacks
    BY <1>5, BoundsAreNat DEF Pack, TypeOK
  <2>2. RefsOK' /\ packing' \subseteq Branches
    BY <1>5, HeadIsRevision DEF Pack, TypeOK
  <2> QED
    BY <1>5, <2>1, <2>2, Zenon DEF Pack, TypeOK, outputs
<1>6. ASSUME NEW b \in Branches, Prune(b) PROVE TypeOK'
  <2>1. RefsOK' /\ packing' \subseteq Branches
    BY <1>6, BoundsAreNat DEF Prune, TypeOK, Revisions
  <2> QED
    BY <1>6, <2>1, Zenon DEF Prune, TypeOK, counters, outputs
<1>7. ASSUME NEW i \in Inputs, NEW t \in Texts, EditInput(i, t) PROVE TypeOK'
  <2>1. text' \in [Inputs -> Texts]
    BY <1>7 DEF EditInput, TypeOK
  <2>2. edits' \in 0..MaxEdits
    BY <1>7, BoundsAreNat DEF EditInput, TypeOK
  <2> QED
    BY <1>7, <2>1, <2>2, Zenon DEF EditInput, TypeOK, outputs, git
<1> QED
  BY <1>1, <1>2, <1>3, <1>4, <1>5, <1>6, <1>7 DEF Environment

LEMMA StartKeepsTypes ==
  ASSUME TypeOK, NEW p \in Procs, NEW c \in Commands, Start(p, c)
  PROVE  TypeOK'
<1>1. [Idle EXCEPT !.step = FirstStep[c], !.cmd = c] \in Run
  <2>1. FirstStep[c] \in Steps
    BY DEF Commands, FirstStep, Steps
  <2> QED
    BY <2>1, IdleIsOK DEF Run
<1> QED
  BY <1>1, ProcessKeepsTypes DEF Start, outputs, counters, TypeOK

LEMMA StopKeepsTypes ==
  ASSUME TypeOK, NEW p \in Procs, Stop(p) \/ Tear(p)
  PROVE  TypeOK'
<1>1. run[p].cmd \in Commands
  BY DEF TypeOK, Run
<1>2. CASE Stop(p)
  <2>1. stops' \in 0..MaxStops /\ unfinished' \in [Procs -> Commands \cup {"none"}]
    BY <1>1, <1>2, BoundsAreNat DEF Stop, Abandon, TypeOK
  <2>2. /\ config' \in {"absent", "default", "user", "torn"} /\ overlapped' \in BOOLEAN
        /\ md' \in Report /\ json' \in Snapshot /\ drafts' \in [1..Drafts -> Draft]
    BY <1>2 DEF Stop, outputs, TypeOK
  <2> QED
    BY <1>2, <2>1, <2>2, IdleIsOK, ProcessKeepsTypes DEF Stop, Abandon
<1>3. CASE Tear(p)
  <2>1. /\ [NoReport EXCEPT !.state = "torn"] \in Report
        /\ [NoSnapshot EXCEPT !.state = "torn"] \in Snapshot
        /\ [NoDraft EXCEPT !.state = "torn"] \in Draft
    <3>1. NoReport \in Report /\ NoSnapshot \in Snapshot /\ NoDraft \in Draft
      BY NothingIsOK
    <3> QED
      BY <3>1 DEF Report, Snapshot, Draft, States
  <2>2. run[p].next \in 1..Drafts
    BY DEF TypeOK, Run
  <2>3. /\ config' \in {"absent", "default", "user", "torn"}
        /\ md' \in Report /\ json' \in Snapshot
    BY <1>3, <2>1 DEF Tear, TypeOK
  <2>4. drafts' \in [1..Drafts -> Draft]
    BY <1>3, <2>1, <2>2 DEF Tear, TypeOK
  <2>5. overlapped' \in BOOLEAN
    BY <1>3 DEF Tear, TypeOK, Overlaps
  <2>6. unfinished' \in [Procs -> Commands \cup {"none"}] /\ stops' \in 0..MaxStops
    BY <1>1, <1>3, BoundsAreNat DEF Tear, Abandon, TypeOK
  <2> QED
    BY <1>3, <2>3, <2>4, <2>5, <2>6, IdleIsOK, ProcessKeepsTypes DEF Tear, Abandon
<1> QED
  BY <1>2, <1>3

LEMMA NextKeepsTypes == TypeOK /\ [Next]_vars => TypeOK'
<1> SUFFICES ASSUME TypeOK, [Next]_vars PROVE TypeOK'
  OBVIOUS
<1>1. CASE UNCHANGED vars
  BY <1>1 DEF vars, outputs, counters, git, TypeOK
<1> QED
  BY <1>1, EnvironmentKeepsTypes, StepKeepsTypes, StopKeepsTypes, StartKeepsTypes DEF Next

\* Every variable stays of its type, for any number of commands, inputs, drafts,
\* edits, commits, branches and interruptions.
THEOREM WorkspaceTypeCorrect == Spec => []TypeOK
  BY InitTypes, NextKeepsTypes, PTL DEF Spec

-----------------------------------------------------------------------------
(* No output quotes a secret. *)

\* Neither does what a command holds and is about to write.
Clean(r) == r.commands # "secret" /\ \A i \in Inputs : r.found[i] # "secret"
NoSecretHeld == NoSecretQuoted /\ \A p \in Procs : Clean(run[p])

LEMMA IdleIsClean == Clean(Idle)
  BY DEF Clean, Idle, Nothing

LEMMA CleanRunMoves ==
  ASSUME TypeOK, NoSecretHeld, NEW p \in Procs, NEW r, Clean(r), run' = [run EXCEPT ![p] = r],
         NoSecretQuoted'
  PROVE  NoSecretHeld'
  BY DEF TypeOK, NoSecretHeld, Clean

LEMMA CleanStep ==
  ASSUME TypeOK, NoSecretHeld, NEW p \in Procs, Step(p)
  PROVE  NoSecretHeld'
<1>0. Clean(run[p]) /\ run[p] \in Run
  BY HeldIsOK DEF NoSecretHeld
<1>1. NoSecretQuoted
  BY DEF NoSecretHeld
<1>2. CASE Stat(p) \/ WriteConfig(p) \/ EndCollect(p) \/ EndGuidance(p)
  <2>1. NoSecretQuoted'
    BY <1>1, <1>2 DEF NoSecretQuoted, Stat, WriteConfig, EndCollect, EndGuidance, outputs
  <2>2. PICK r : /\ r.found = run[p].found /\ r.commands = run[p].commands
                 /\ run' = [run EXCEPT ![p] = r]
    BY <1>0, <1>2 DEF Stat, WriteConfig, EndCollect, EndGuidance, Move, Run
  <2>3. Clean(r)
    BY <1>0, <2>2 DEF Clean
  <2> QED
    BY <2>1, <2>2, <2>3, CleanRunMoves
<1>8. CASE ReadHead(p) \/ ReadLoose(p) \/ ReadPacked(p)
  <2>1. NoSecretQuoted'
    BY <1>1, <1>8 DEF NoSecretQuoted, ReadHead, ReadLoose, ReadPacked, outputs
  <2>2. PICK r \in Run, rev \in Revisions :
          /\ r.found = run[p].found /\ r.commands = run[p].commands
          /\ \/ run' = [run EXCEPT ![p] = WithRevision(r, rev)]
             \/ run' = [run EXCEPT ![p] = [r EXCEPT !.step = "loose"]]
             \/ run' = [run EXCEPT ![p] = [r EXCEPT !.step = "packed"]]
    BY <1>8, Asking, AskedIsOK
  <2>3. /\ Clean(WithRevision(r, rev))
        /\ Clean([r EXCEPT !.step = "loose"]) /\ Clean([r EXCEPT !.step = "packed"])
    BY <1>0, <2>2 DEF Clean, Run, WithRevision
  <2> QED
    BY <2>1, <2>2, <2>3, CleanRunMoves
<1>3. CASE WriteMarkdown(p)
  <2>1. NoSecretQuoted'
    BY <1>0, <1>1, <1>3 DEF NoSecretQuoted, WriteMarkdown, Clean
  <2>2. Clean([run[p] EXCEPT !.step = "json"])
    BY <1>0 DEF Clean, Run
  <2> QED
    BY <1>3, <2>1, <2>2, CleanRunMoves DEF WriteMarkdown, Move
<1>4. CASE WriteSnapshot(p)
  <2>1. NoSecretQuoted'
    BY <1>0, <1>1, <1>4 DEF NoSecretQuoted, WriteSnapshot, Clean
  <2> QED
    BY <1>4, <2>1, IdleIsClean, CleanRunMoves DEF WriteSnapshot, Finish
<1>5. CASE ReadContext(p)
  <2>1. NoSecretQuoted'
    BY <1>1, <1>5 DEF NoSecretQuoted, ReadContext, outputs
  <2>2. md.found[Makefile] # "secret"
    BY <1>1, MakefileIsScanned DEF NoSecretQuoted, Inputs
  <2>3. Clean([run[p] EXCEPT !.step = "guidance", !.todo = GuidanceInputs,
                             !.commands = md.found[Makefile]])
    BY <1>0, <2>2 DEF Clean, Run
  <2> QED
    BY <1>5, <2>1, <2>3, IdleIsClean, CleanRunMoves DEF ReadContext, Move
<1>6. CASE WriteDraft(p)
  <2>1. run[p].next \in 1..Drafts
    BY <1>0 DEF Run
  <2>2. NoSecretQuoted'
    BY <1>0, <1>1, <1>6, <2>1 DEF NoSecretQuoted, WriteDraft, Clean, TypeOK
  <2>3. Clean([run[p] EXCEPT !.next = run[p].next + 1])
    BY <1>0 DEF Clean, Run
  <2> QED
    BY <1>6, <2>2, <2>3, IdleIsClean, CleanRunMoves DEF WriteDraft, Move, Finish
<1>7. ASSUME NEW i \in Inputs, ReadInput(p, i) PROVE NoSecretHeld'
  <2>1. NoSecretQuoted'
    BY <1>1, <1>7 DEF NoSecretQuoted, ReadInput, outputs
  <2>2. Quote(text[i]) # "secret"
    BY DEF Quote
  <2>3. Clean([run[p] EXCEPT !.todo = run[p].todo \ {i}, !.found[i] = Quote(text[i])])
    BY <1>0, <2>2 DEF Clean, Run
  <2> QED
    BY <1>7, <2>1, <2>3, CleanRunMoves DEF ReadInput, Move
<1> QED
  BY <1>2, <1>3, <1>4, <1>5, <1>6, <1>7, <1>8 DEF Step

LEMMA CleanRest ==
  ASSUME TypeOK, NoSecretHeld, NEW p \in Procs,
         Stop(p) \/ Tear(p) \/ \E c \in Commands : Start(p, c)
  PROVE  NoSecretHeld'
<1>1. NoSecretQuoted
  BY DEF NoSecretHeld
<1>2. CASE Stop(p)
  <2>1. NoSecretQuoted'
    BY <1>1, <1>2 DEF NoSecretQuoted, Stop, outputs
  <2> QED
    BY <1>2, <2>1, IdleIsClean, CleanRunMoves DEF Stop, Abandon
<1>3. CASE Tear(p)
  <2>1. \A i \in Inputs : Nothing[i] # "secret"
    BY DEF Nothing
  <2>2. NoSecretQuoted'
    BY <1>1, <1>3, <2>1 DEF NoSecretQuoted, Tear, NoReport, NoSnapshot, NoDraft, TypeOK
  <2> QED
    BY <1>3, <2>2, IdleIsClean, CleanRunMoves DEF Tear, Abandon
<1>4. ASSUME NEW c \in Commands, Start(p, c) PROVE NoSecretHeld'
  <2>1. NoSecretQuoted'
    BY <1>1, <1>4 DEF NoSecretQuoted, Start, outputs
  <2>2. Clean([Idle EXCEPT !.step = FirstStep[c], !.cmd = c])
    BY IdleIsClean, IdleIsOK DEF Clean, Run
  <2> QED
    BY <1>4, <2>1, <2>2, CleanRunMoves DEF Start
<1> QED
  BY <1>2, <1>3, <1>4

\* The user and Git touch nothing of a command but the two ghosts.
LEMMA EnvironmentKeepsRuns ==
  ASSUME TypeOK, Environment, NEW p \in Procs
  PROVE  /\ run'[p].step = run[p].step /\ run'[p].cmd = run[p].cmd
         /\ run'[p].found = run[p].found /\ run'[p].commands = run[p].commands
         /\ run'[p].next = run[p].next /\ run'[p].rev = run[p].rev
         /\ run'[p].ref = run[p].ref
<1>1. run[p] \in Run
  BY HeldIsOK
<1>2. ASSUME NEW moved, Witness(moved)
      PROVE  \/ run'[p] = [run[p] EXCEPT !.during = run[p].during \cup {HeadRevision'},
                                         !.overtaken = run[p].overtaken \/ run[p].ref \in moved]
             \/ run'[p] = run[p]
  BY <1>2 DEF Witness
<1>3. (\E moved : Witness(moved)) \/ UNCHANGED run
  BY DEF Environment, EditConfig, EditInput, Commit, Checkout, ChangeBranch, Pack, Prune
<1> QED
  BY <1>1, <1>2, <1>3 DEF Run

LEMMA CleanEnvironment == ASSUME TypeOK, NoSecretHeld, Environment PROVE NoSecretHeld'
<1>1. NoSecretQuoted'
  BY DEF NoSecretHeld, NoSecretQuoted, Environment, EditConfig, EditInput, Commit, Checkout,
     ChangeBranch, Pack, Prune, outputs, counters
<1> QED
  BY <1>1, EnvironmentKeepsRuns DEF NoSecretHeld, Clean

\* No output quotes a text with a secret in it, whatever the user saves between
\* two reads and however many commands run at once.
THEOREM NoOutputQuotesASecret == Spec => []NoSecretQuoted
<1>1. Init => NoSecretHeld
  BY IdleIsClean DEF Init, NoSecretHeld, NoSecretQuoted, NoReport, NoSnapshot, NoDraft, Nothing
<1>2. TypeOK /\ NoSecretHeld /\ [Next]_vars => NoSecretHeld'
  <2> SUFFICES ASSUME TypeOK, NoSecretHeld, [Next]_vars PROVE NoSecretHeld'
    OBVIOUS
  <2>1. CASE UNCHANGED vars
    BY <2>1 DEF vars, outputs, NoSecretHeld, NoSecretQuoted, Clean
  <2> QED
    BY <2>1, CleanStep, CleanRest, CleanEnvironment DEF Next
<1>3. NoSecretHeld => NoSecretQuoted
  BY DEF NoSecretHeld
<1> QED
  BY <1>1, <1>2, <1>3, WorkspaceTypeCorrect, PTL DEF Spec

-----------------------------------------------------------------------------
(* The revision a scan was given. *)

\* Until the ref has been read it is where HEAD was, and so is its packed line by
\* the time that is looked at, unless the branch was left and then changed.
Current(r) ==
  ~r.overtaken =>
    /\ r.step \in {"loose", "packed"} => Ref(r.ref) \in r.during
    /\ r.step = "packed" => packed[r.ref] \in r.during
    /\ r.step \in {"collect", "md", "json"} => r.rev \in r.during

RevisionHeld == \A p \in Procs : Current(run[p])

LEMMA CurrentRunMoves ==
  ASSUME TypeOK, RevisionHeld, NEW p \in Procs, NEW r, Current(r), run' = [run EXCEPT ![p] = r],
         UNCHANGED git
  PROVE  RevisionHeld'
<1>1. ASSUME NEW q, Current(q) PROVE Current(q)'
  BY <1>1 DEF Current, Ref, git
<1>2. ASSUME NEW q \in Procs PROVE Current(run[q])'
  <2>1. run'[q] = IF q = p THEN r ELSE run[q]
    BY DEF TypeOK
  <2>2. Current(run[q])
    BY DEF RevisionHeld
  <2> QED
    BY <2>1, <2>2 DEF Current, Ref, git
<1> QED
  BY <1>2 DEF RevisionHeld

LEMMA CurrentIdle == Current(Idle)
  BY DEF Current, Idle

LEMMA CurrentWithRevision ==
  ASSUME NEW r \in Run, NEW rev, ~r.overtaken => rev \in r.during
  PROVE  Current(WithRevision(r, rev))
  BY DEF Current, WithRevision, Run

LEMMA CurrentStep ==
  ASSUME TypeOK, RevisionHeld, NEW p \in Procs, Step(p)
  PROVE  RevisionHeld'
<1>0. Current(run[p]) /\ run[p] \in Run
  BY HeldIsOK DEF RevisionHeld
<1>1. UNCHANGED git
  BY DEF Step, Stat, WriteConfig, ReadHead, ReadLoose, ReadPacked, EndCollect, WriteMarkdown,
     WriteSnapshot, ReadContext, EndGuidance, WriteDraft, ReadInput
<1>2. CASE ReadHead(p)
  <2> DEFINE r == Asked(p)
             n == [r EXCEPT !.step = "loose"]
  <2>1. r \in Run /\ HeadRevision \in r.during /\ r.ref = branch
    BY AskedIsOK
  <2>2. detached # 0 => Current(WithRevision(r, detached))
    BY <2>1, CurrentWithRevision DEF HeadRevision
  <2>3. detached = 0 => Current(n)
    <3>1. n.step = "loose" /\ n.ref = branch /\ n.during = r.during
      BY <2>1 DEF Run
    <3> HIDE DEF n, r
    <3> QED
      BY <2>1, <3>1 DEF Current, HeadRevision
  <2>4. run' = [run EXCEPT ![p] = IF detached # 0 THEN WithRevision(r, detached) ELSE n]
    BY <1>2 DEF ReadHead, Move, Asked
  <2> HIDE DEF n, r
  <2> QED
    BY <1>1, <2>2, <2>3, <2>4, CurrentRunMoves
<1>3. CASE ReadLoose(p)
  <2> DEFINE b == run[p].ref
             n == [run[p] EXCEPT !.step = "packed"]
  <2>1. ~run[p].overtaken => Ref(b) \in run[p].during
    BY <1>0, <1>3 DEF Current, ReadLoose
  <2>2. loose[b] # 0 => Current(WithRevision(run[p], loose[b]))
    BY <1>0, <2>1, CurrentWithRevision DEF Ref
  <2>3. loose[b] = 0 => Current(n)
    <3>1. /\ n.step = "packed" /\ n.ref = b /\ n.during = run[p].during
          /\ n.overtaken = run[p].overtaken
      BY <1>0 DEF Run
    <3> HIDE DEF n
    <3> QED
      BY <2>1, <3>1 DEF Current, Ref
  <2>4. run' = [run EXCEPT ![p] = IF loose[b] # 0 THEN WithRevision(run[p], loose[b]) ELSE n]
    BY <1>3 DEF ReadLoose, Move
  <2> HIDE DEF n, b
  <2> QED
    BY <1>1, <2>2, <2>3, <2>4, CurrentRunMoves
<1>4. CASE ReadPacked(p)
  <2>1. ~run[p].overtaken => packed[run[p].ref] \in run[p].during
    BY <1>0, <1>4 DEF Current, ReadPacked
  <2> QED
    BY <1>0, <1>1, <1>4, <2>1, CurrentWithRevision, CurrentRunMoves DEF ReadPacked, Move
<1>5. CASE WriteMarkdown(p)
  <2>1. Current([run[p] EXCEPT !.step = "json"])
    BY <1>0, <1>5 DEF Current, Run, WriteMarkdown
  <2> QED
    BY <1>1, <1>5, <2>1, CurrentRunMoves DEF WriteMarkdown, Move
<1>6. ASSUME NEW i \in Inputs, ReadInput(p, i) PROVE RevisionHeld'
  <2>1. Current([run[p] EXCEPT !.todo = run[p].todo \ {i}, !.found[i] = Quote(text[i])])
    BY <1>0, <1>6 DEF Current, Run, ReadInput
  <2> QED
    BY <1>1, <1>6, <2>1, CurrentRunMoves DEF ReadInput, Move
<1>7. CASE Stat(p) \/ WriteConfig(p) \/ EndCollect(p) \/ EndGuidance(p) \/ WriteSnapshot(p)
             \/ ReadContext(p) \/ WriteDraft(p)
  <2>1. PICK r : /\ r.step \notin {"loose", "packed", "collect", "md", "json"}
                 /\ run' = [run EXCEPT ![p] = r]
    BY <1>0, <1>7 DEF Stat, WriteConfig, EndCollect, EndGuidance, WriteSnapshot, ReadContext,
       WriteDraft, Move, Finish, Idle, Run
  <2>2. Current(r)
    BY <2>1 DEF Current
  <2> QED
    BY <1>1, <2>1, <2>2, CurrentRunMoves
<1> QED
  BY <1>2, <1>3, <1>4, <1>5, <1>6, <1>7 DEF Step

LEMMA CurrentRest ==
  ASSUME TypeOK, RevisionHeld, NEW p \in Procs,
         Stop(p) \/ Tear(p) \/ \E c \in Commands : Start(p, c)
  PROVE  RevisionHeld'
<1>1. CASE Stop(p) \/ Tear(p)
  BY <1>1, CurrentIdle, CurrentRunMoves DEF Stop, Tear, Abandon
<1>2. ASSUME NEW c \in Commands, Start(p, c) PROVE RevisionHeld'
  <2>1. Current([Idle EXCEPT !.step = FirstStep[c], !.cmd = c])
    BY IdleIsOK DEF Current, Run, FirstStep, Commands
  <2> QED
    BY <1>2, <2>1, CurrentRunMoves DEF Start
<1> QED
  BY <1>1, <1>2

\* What the user does to HEAD and the refs: a branch whose ref is changed is the
\* one HEAD names, or it is witnessed to have been overtaken.
LEMMA CurrentWitness ==
  ASSUME TypeOK, RevisionHeld, NEW moved, Witness(moved),
         \A b \in Branches \ moved :
           /\ Ref(b)' = Ref(b) \/ Ref(b)' = HeadRevision'
           /\ packed'[b] = packed[b]
  PROVE  RevisionHeld'
<1> SUFFICES ASSUME NEW p \in Procs PROVE Current(run[p])'
  BY DEF RevisionHeld
<1>0. Current(run[p]) /\ run[p] \in Run /\ run[p].ref \in Branches
  BY HeldIsOK DEF RevisionHeld, Run
<1>1. CASE run[p].step \in {"loose", "packed"}
  <2> DEFINE r == [run[p] EXCEPT !.during = run[p].during \cup {HeadRevision'},
                                 !.overtaken = run[p].overtaken \/ run[p].ref \in moved]
  <2>1. PICK b \in Branches : b = run[p].ref
    BY <1>0
  <2>2. /\ r.step = run[p].step /\ r.ref = b
        /\ r.during = run[p].during \cup {HeadRevision'}
        /\ r.overtaken = (run[p].overtaken \/ b \in moved)
    BY <1>0, <2>1 DEF Run
  <2>3. run'[p] = r
    BY <1>1 DEF Witness
  <2> HIDE DEF r
  <2>4. CASE run[p].overtaken \/ b \in moved
    BY <2>2, <2>3, <2>4 DEF Current
  <2>5. CASE ~run[p].overtaken /\ b \notin moved
    <3>1. /\ Ref(b) \in run[p].during
          /\ run[p].step = "packed" => packed[b] \in run[p].during
      BY <1>0, <1>1, <2>1, <2>5 DEF Current
    <3>2. /\ Ref(b)' \in run'[p].during
          /\ run'[p].step = "packed" => packed'[b] \in run'[p].during
      BY <2>2, <2>3, <2>5, <3>1
    <3>3. run'[p].ref = b /\ run'[p].step \in {"loose", "packed"}
      BY <1>1, <2>2, <2>3
    <3> QED
      BY <3>2, <3>3 DEF Current, Ref
  <2> QED
    BY <2>4, <2>5
<1>2. CASE run[p].step \notin {"loose", "packed"}
  <2>1. run'[p] = run[p]
    BY <1>2 DEF Witness
  <2> QED
    BY <1>0, <1>2, <2>1 DEF Current
<1> QED
  BY <1>1, <1>2

LEMMA CurrentEnvironment == ASSUME TypeOK, RevisionHeld, Environment PROVE RevisionHeld'
<1>1. CASE Commit
  <2>1. ASSUME NEW b \in Branches
        PROVE  (Ref(b)' = Ref(b) \/ Ref(b)' = HeadRevision') /\ packed'[b] = packed[b]
    <3>1. commits + 3 # 0 /\ branch \in Branches
      BY DEF TypeOK
    <3> QED
      BY <1>1, <3>1 DEF Commit, Ref, HeadRevision, TypeOK
  <2> QED
    BY <1>1, <2>1, CurrentWitness DEF Commit
<1>2. ASSUME NEW b \in Branches, Checkout(b) PROVE RevisionHeld'
  <2>1. \A a \in Branches : Ref(a)' = Ref(a) /\ packed'[a] = packed[a]
    BY <1>2 DEF Checkout, Ref
  <2> QED
    BY <1>2, <2>1, CurrentWitness DEF Checkout
<1>3. ASSUME NEW b \in Branches, NEW rev \in Revisions, ChangeBranch(b, rev)
      PROVE  RevisionHeld'
  <2>1. \A a \in Branches \ {b} : Ref(a)' = Ref(a) /\ packed'[a] = packed[a]
    BY <1>3 DEF ChangeBranch, Ref, TypeOK
  <2> QED
    BY <1>3, <2>1, CurrentWitness DEF ChangeBranch
<1>4. ASSUME UNCHANGED run, \A b \in Branches : Ref(b)' = Ref(b),
             \A b \in Branches : packed'[b] \in {packed[b], Ref(b)}
      PROVE  RevisionHeld'
  <2> SUFFICES ASSUME NEW p \in Procs PROVE Current(run[p])'
    BY DEF RevisionHeld
  <2>1. Current(run[p]) /\ run[p].ref \in Branches
    BY DEF RevisionHeld, TypeOK, Run
  <2>2. /\ run'[p] = run[p] /\ Ref(run[p].ref)' = Ref(run[p].ref)
        /\ packed'[run[p].ref] \in {packed[run[p].ref], Ref(run[p].ref)}
    BY <1>4, <2>1
  <2> QED
    BY <2>1, <2>2 DEF Current, Ref
<1>5. CASE Pack
  BY <1>4, <1>5 DEF Pack, Ref, TypeOK
<1>6. ASSUME NEW b \in Branches, Prune(b) PROVE RevisionHeld'
  <2>1. \A a \in Branches : Ref(a)' = Ref(a)
    BY <1>6 DEF Prune, Ref, TypeOK
  <2> QED
    BY <1>4, <1>6, <2>1 DEF Prune
<1>7. CASE EditConfig \/ \E i \in Inputs, t \in Texts : EditInput(i, t)
  <2>1. UNCHANGED <<run, loose, packed>>
    BY <1>7 DEF EditConfig, EditInput, git
  <2> QED
    BY <1>4, <2>1 DEF Ref
<1> QED
  BY <1>1, <1>2, <1>3, <1>5, <1>6, <1>7 DEF Environment

\* gitRevision answers with a revision HEAD was at while it was asked, however
\* many commits, changes of branch and packs of the refs fall between its reads,
\* unless the branch it found in HEAD was moved or deleted after HEAD had left it.
THEOREM RevisionIsCurrent == Spec => []RevisionWasCurrent
<1>1. Init => RevisionHeld
  BY CurrentIdle DEF Init, RevisionHeld
<1>2. TypeOK /\ RevisionHeld /\ [Next]_vars => RevisionHeld'
  <2> SUFFICES ASSUME TypeOK, RevisionHeld, [Next]_vars PROVE RevisionHeld'
    OBVIOUS
  <2>1. CASE UNCHANGED vars
    BY <2>1 DEF vars, git, RevisionHeld, Current, Ref
  <2> QED
    BY <2>1, CurrentStep, CurrentRest, CurrentEnvironment DEF Next
<1>3. RevisionHeld => RevisionWasCurrent
  BY DEF RevisionHeld, RevisionWasCurrent, Current
<1> QED
  BY <1>1, <1>2, <1>3, WorkspaceTypeCorrect, PTL DEF Spec

-----------------------------------------------------------------------------
(* The user's configuration. *)

\* An init that is about to write found no configuration of the user's.
ConfigHeld == ConfigKept /\ \A p \in Procs : run[p].step = "config" => ~declared \/ raced

LEMMA ConfigNext == TypeOK /\ ConfigHeld /\ [Next]_vars => ConfigHeld'
<1> SUFFICES ASSUME TypeOK, ConfigHeld, [Next]_vars PROVE ConfigHeld'
  OBVIOUS
<1> DEFINE Keeps == /\ UNCHANGED <<config, declared, raced>>
                    /\ \A p \in Procs : run'[p].step = "config" => run[p].step = "config"
<1>0. Keeps => ConfigHeld'
  BY DEF ConfigHeld, ConfigKept
<1>1. ASSUME Environment PROVE ConfigHeld'
  <2>1. \A p \in Procs : run'[p].step = run[p].step
    BY <1>1, EnvironmentKeepsRuns
  <2>2. CASE EditConfig
    BY <2>1, <2>2 DEF EditConfig, ConfigHeld, ConfigKept
  <2>3. CASE ~EditConfig
    BY <1>0, <1>1, <2>1, <2>3 DEF Environment, EditInput, Commit, Checkout, ChangeBranch,
       Pack, Prune, outputs
  <2> QED
    BY <2>2, <2>3
<1>2. ASSUME NEW p \in Procs, Step(p) PROVE ConfigHeld'
  <2>0. run[p] \in Run
    BY HeldIsOK
  <2>1. CASE Stat(p)
    <3>1. CASE config = "absent"
      <4>1. ~declared \/ raced
        BY <3>1 DEF ConfigHeld, ConfigKept
      <4> QED
        BY <2>1, <4>1 DEF Stat, Move, outputs, ConfigHeld, ConfigKept
    <3>2. CASE config # "absent"
      <4>1. run' = [run EXCEPT ![p] = [run[p] EXCEPT !.step = "head"]]
        BY <2>1, <3>2 DEF Stat, Move
      <4>2. Keeps
        BY <2>0, <2>1, <4>1 DEF Stat, outputs, TypeOK, Run
      <4> QED
        BY <1>0, <4>2
    <3> QED
      BY <3>1, <3>2
  <2>2. CASE WriteConfig(p)
    <3>1. ~declared \/ raced
      BY <2>2 DEF WriteConfig, ConfigHeld
    <3> QED
      BY <2>2, <3>1 DEF WriteConfig, ConfigHeld, ConfigKept
  <2>3. CASE ~Stat(p) /\ ~WriteConfig(p)
    <3>1. \E r : r.step # "config" /\ run' = [run EXCEPT ![p] = r]
      <4>1. CASE ReadHead(p) \/ ReadLoose(p) \/ ReadPacked(p)
        <5>1. PICK r \in Run, rev \in Revisions :
                \/ run' = [run EXCEPT ![p] = WithRevision(r, rev)]
                \/ run' = [run EXCEPT ![p] = [r EXCEPT !.step = "loose"]]
                \/ run' = [run EXCEPT ![p] = [r EXCEPT !.step = "packed"]]
          BY <4>1, Asking
        <5>2. /\ WithRevision(r, rev).step # "config"
              /\ [r EXCEPT !.step = "loose"].step # "config"
              /\ [r EXCEPT !.step = "packed"].step # "config"
          BY RevisionGoesOn DEF Run
        <5> QED
          BY <5>1, <5>2
      <4>2. CASE ~(ReadHead(p) \/ ReadLoose(p) \/ ReadPacked(p))
        BY <1>2, <2>0, <2>3, <4>2 DEF Step, EndCollect, WriteMarkdown,
           WriteSnapshot, ReadContext, EndGuidance, WriteDraft, ReadInput, Move, Finish, Idle, Run
      <4> QED
        BY <4>1, <4>2
    <3>2. UNCHANGED <<config, declared, raced>>
      BY <1>2, <2>3 DEF Step, ReadHead, ReadLoose, ReadPacked, EndCollect, WriteMarkdown,
         WriteSnapshot, ReadContext, EndGuidance, WriteDraft, ReadInput, outputs
    <3> QED
      BY <1>0, <3>1, <3>2 DEF TypeOK
  <2> QED
    BY <2>1, <2>2, <2>3
<1>3. ASSUME NEW p \in Procs, Stop(p) \/ Tear(p) PROVE ConfigHeld'
  <2>1. run' = [run EXCEPT ![p] = Idle] /\ UNCHANGED <<declared, raced>>
    BY <1>3 DEF Stop, Tear, Abandon
  <2>2. \A q \in Procs : run'[q].step = "config" => run[q].step = "config"
    BY <2>1 DEF TypeOK, Idle
  <2>3. config' = config \/ run[p].step = "config"
    BY <1>3 DEF Stop, Tear, outputs
  <2> QED
    BY <2>1, <2>2, <2>3 DEF ConfigHeld, ConfigKept
<1>4. ASSUME NEW p \in Procs, NEW c \in Commands, Start(p, c) PROVE ConfigHeld'
  <2>1. [Idle EXCEPT !.step = FirstStep[c], !.cmd = c].step # "config"
    BY IdleIsOK DEF Run, FirstStep, Commands
  <2> QED
    BY <1>0, <1>4, <2>1 DEF Start, outputs, TypeOK
<1>5. CASE UNCHANGED vars
  BY <1>0, <1>5 DEF vars, outputs
<1> QED
  BY <1>1, <1>2, <1>3, <1>4, <1>5 DEF Next

\* init writes its own configuration only where it found none, however many
\* commands run at once and wherever they are stopped.
THEOREM ConfigIsKept == Spec => []ConfigKept
<1>1. Init => ConfigHeld
  <2> SUFFICES ASSUME Init PROVE ConfigHeld
    OBVIOUS
  <2>1. declared = (config = "user")
    BY DEF Init
  <2>2. ConfigKept
    BY <2>1, Zenon DEF ConfigKept
  <2>3. \A p \in Procs : run[p].step # "config"
    BY DEF Init, Idle
  <2> QED
    BY <2>2, <2>3 DEF ConfigHeld
<1>2. ConfigHeld => ConfigKept
  BY DEF ConfigHeld
<1> QED
  BY <1>1, <1>2, ConfigNext, WorkspaceTypeCorrect, PTL DEF Spec

-----------------------------------------------------------------------------
(* Outputs that belong together. *)

Tells(r) == [state |-> "whole", found |-> r.found, commands |-> r.commands]

Suggesting == {"context", "guidance", "draft"}

\* A command works at what it was started for, and what its process still owes
\* is of the same kind.
Purposeful(p) ==
  /\ run[p].step \in Suggesting => run[p].cmd = "suggest"
  /\ run[p].step \notin Suggesting \cup {"idle"} => run[p].cmd \in {"init", "scan"}
  /\ run[p].step \in {"context", "guidance"} => run[p].next = 1
  /\ run[p].step # "idle" => unfinished[p] \in {"none", run[p].cmd}

\* Suggestions come from a scan: without one there is no draft.
FromScan ==
  md.state = "absent" =>
    /\ \A p \in Procs : run[p].step \notin {"json", "guidance", "draft"}
    /\ \A d \in 1..Drafts : drafts[d] = NoDraft

\* What a command has written of its outputs is what it holds.
HalfWritten(p) ==
  /\ run[p].step = "json" => md.state = "whole" /\ md.found = run[p].found
  /\ run[p].step = "draft" => \A d \in 1..Drafts : d < run[p].next => drafts[d] = Tells(run[p])

ScanAgrees == md.state = json.state /\ md.found = json.found
DraftsAgree == \A d \in 1..Drafts : drafts[d] = drafts[1]

\* Somebody has the other file, or the other drafts, still to write.
ScanOwed == \E p \in Procs : run[p].step = "json" \/ unfinished[p] \in {"init", "scan"}
DraftsOwed == \E p \in Procs : run[p].step = "draft" \/ unfinished[p] = "suggest"

AgreementHeld ==
  /\ \A p \in Procs : Purposeful(p)
  /\ FromScan
  /\ ~overlapped =>
       /\ \A p \in Procs : HalfWritten(p)
       /\ ScanAgrees \/ ScanOwed
       /\ DraftsAgree \/ DraftsOwed

LEMMA AgreementImplies == AgreementHeld => OutputsAgree
  BY DEF AgreementHeld, OutputsAgree, ScanAgrees, DraftsAgree, ScanOwed, DraftsOwed, Quiet

\* A step that writes no output and whose process has written none yet.
LEMMA AgreementFrame ==
  ASSUME TypeOK, AgreementHeld, NEW p \in Procs, NEW r \in Run, run' = [run EXCEPT ![p] = r],
         run[p].step \notin {"json", "draft"}, r.step # "json",
         r.step # "idle" => r.cmd = run[p].cmd,
         r.step \in Suggesting <=> run[p].step \in Suggesting,
         run[p].step # "idle", r.step # "idle", r.next = run[p].next,
         r.step \in {"guidance", "draft"} => md.state # "absent",
         UNCHANGED <<md, json, drafts, unfinished, overlapped>>
  PROVE  AgreementHeld'
<1>0. \A q \in Procs : run'[q] = IF q = p THEN r ELSE run[q]
  BY DEF TypeOK
<1>1. ASSUME NEW q \in Procs PROVE Purposeful(q)'
  <2>1. Purposeful(q) /\ Purposeful(p)
    BY DEF AgreementHeld
  <2>2. CASE q = p
    BY <1>0, <2>1, <2>2 DEF Purposeful, Suggesting
  <2>3. CASE q # p
    BY <1>0, <2>1, <2>3 DEF Purposeful
  <2> QED
    BY <2>2, <2>3
<1>2. FromScan'
  BY <1>0 DEF AgreementHeld, FromScan
<1>3. ASSUME ~overlapped, NEW q \in Procs PROVE HalfWritten(q)'
  <2>1. HalfWritten(q) /\ Purposeful(p)
    BY <1>3 DEF AgreementHeld
  <2>2. CASE q = p
    <3>1. r.step = "draft" => r.next = 1
      BY <2>1 DEF Purposeful, Suggesting
    <3> QED
      BY <1>0, <2>2, <3>1 DEF HalfWritten
  <2>3. CASE q # p
    BY <1>0, <2>1, <2>3 DEF HalfWritten
  <2> QED
    BY <2>2, <2>3
<1>4. (ScanOwed => ScanOwed') /\ (DraftsOwed => DraftsOwed')
  BY <1>0 DEF ScanOwed, DraftsOwed
<1>5. (ScanAgrees => ScanAgrees') /\ (DraftsAgree => DraftsAgree')
  BY DEF ScanAgrees, DraftsAgree
<1> QED
  BY <1>1, <1>2, <1>3, <1>4, <1>5 DEF AgreementHeld

LEMMA AgreementEnvironment == ASSUME TypeOK, AgreementHeld, Environment PROVE AgreementHeld'
<1>1. UNCHANGED <<md, json, drafts, unfinished, overlapped>>
  BY DEF Environment, EditConfig, EditInput, Commit, Checkout, ChangeBranch, Pack,
     Prune, outputs, counters
<1>2. \A p \in Procs : Purposeful(p)'
  BY <1>1, EnvironmentKeepsRuns DEF AgreementHeld, Purposeful
<1>3. FromScan'
  BY <1>1, EnvironmentKeepsRuns DEF AgreementHeld, FromScan
<1>4. ~overlapped => \A p \in Procs : HalfWritten(p)'
  BY <1>1, EnvironmentKeepsRuns DEF AgreementHeld, HalfWritten, Tells
<1>5. (ScanOwed => ScanOwed') /\ (DraftsOwed => DraftsOwed')
  BY <1>1, EnvironmentKeepsRuns DEF ScanOwed, DraftsOwed
<1>6. (ScanAgrees => ScanAgrees') /\ (DraftsAgree => DraftsAgree')
  BY <1>1 DEF ScanAgrees, DraftsAgree
<1> QED
  BY <1>1, <1>2, <1>3, <1>4, <1>5, <1>6 DEF AgreementHeld

LEMMA AgreementStart ==
  ASSUME TypeOK, AgreementHeld, NEW p \in Procs, NEW c \in Commands, Start(p, c)
  PROVE  AgreementHeld'
<1> DEFINE r == [Idle EXCEPT !.step = FirstStep[c], !.cmd = c]
<1>0. /\ \A q \in Procs : run'[q] = IF q = p THEN r ELSE run[q]
      /\ UNCHANGED <<md, json, drafts, unfinished, overlapped>>
      /\ run[p].step = "idle" /\ unfinished[p] \in {"none", c}
  BY DEF Start, TypeOK, outputs
<1>1. /\ r.step = "context" <=> c = "suggest"
      /\ r.step \in {"stat", "head", "context"} /\ r.cmd = c /\ r.next = 1
  BY DEF Commands, FirstStep, Idle
<1> HIDE DEF r
<1>2. ASSUME NEW q \in Procs PROVE Purposeful(q)'
  <2>1. Purposeful(q)
    BY DEF AgreementHeld
  <2> QED
    BY <1>0, <1>1, <2>1 DEF Purposeful, Suggesting, Commands
<1>3. FromScan'
  BY <1>0, <1>1 DEF AgreementHeld, FromScan
<1>4. ~overlapped => \A q \in Procs : HalfWritten(q)'
  BY <1>0, <1>1 DEF AgreementHeld, HalfWritten
<1>5. (ScanOwed => ScanOwed') /\ (DraftsOwed => DraftsOwed')
  BY <1>0, <1>1 DEF ScanOwed, DraftsOwed
<1>6. (ScanAgrees => ScanAgrees') /\ (DraftsAgree => DraftsAgree')
  BY <1>0 DEF ScanAgrees, DraftsAgree
<1> QED
  BY <1>0, <1>2, <1>3, <1>4, <1>5, <1>6 DEF AgreementHeld

LEMMA AgreementStop ==
  ASSUME TypeOK, AgreementHeld, NEW p \in Procs, Stop(p) \/ Tear(p)
  PROVE  AgreementHeld'
<1>0. /\ \A q \in Procs : run'[q] = IF q = p THEN Idle ELSE run[q]
      /\ \A q \in Procs : unfinished'[q] = IF q = p THEN run[p].cmd ELSE unfinished[q]
      /\ Purposeful(p) /\ run[p] \in Run
  BY HeldIsOK DEF Stop, Tear, Abandon, TypeOK, AgreementHeld
<1>1. run[p].step # "idle" /\ Idle.step = "idle"
  BY TornFilesAreOutputs DEF Stop, Tear, Idle
<1>2. ASSUME NEW q \in Procs PROVE Purposeful(q)'
  <2>1. Purposeful(q)
    BY DEF AgreementHeld
  <2> QED
    BY <1>0, <1>1, <2>1 DEF Purposeful, Suggesting
<1>3. /\ run[p].step = "json" => ScanOwed'
      /\ run[p].step = "draft" => DraftsOwed'
      /\ run[p].step = "md" => ScanOwed'
  BY <1>0 DEF Purposeful, ScanOwed, DraftsOwed, Suggesting
<1>4. (ScanOwed => ScanOwed') /\ (DraftsOwed => DraftsOwed')
  BY <1>0, <1>1, <1>3 DEF ScanOwed, DraftsOwed, Purposeful
<1>5. CASE Stop(p)
  <2>1. UNCHANGED <<md, json, drafts, overlapped>>
    BY <1>5 DEF Stop, outputs
  <2>2. FromScan'
    BY <1>0, <1>1, <2>1 DEF AgreementHeld, FromScan
  <2>3. ~overlapped => \A q \in Procs : HalfWritten(q)'
    BY <1>0, <1>1, <2>1 DEF AgreementHeld, HalfWritten
  <2>4. (ScanAgrees => ScanAgrees') /\ (DraftsAgree => DraftsAgree')
    BY <2>1 DEF ScanAgrees, DraftsAgree
  <2> QED
    BY <1>2, <1>4, <2>1, <2>2, <2>3, <2>4 DEF AgreementHeld
<1>6. CASE Tear(p)
  <2>1. /\ run[p].step # "md" => md' = md
        /\ run[p].step # "json" => json' = json
        /\ run[p].step # "draft" => drafts' = drafts
        /\ overlapped' = (overlapped \/ Overlaps(p))
    BY <1>6 DEF Tear
  <2>2. run[p].step = "md" => md'.state = "torn"
    BY <1>6 DEF Tear, NoReport
  <2>3. FromScan'
    BY <1>0, <1>1, <2>1, <2>2 DEF AgreementHeld, FromScan
  <2>4. ASSUME ~overlapped', NEW q \in Procs PROVE HalfWritten(q)'
    <3>1. ~overlapped /\ ~Overlaps(p)
      BY <2>1, <2>4
    <3>2. HalfWritten(q)
      BY <3>1 DEF AgreementHeld
    <3>3. CASE q = p
      BY <1>0, <1>1, <3>3 DEF HalfWritten
    <3>4. CASE q # p
      BY <1>0, <2>1, <3>1, <3>2, <3>4 DEF HalfWritten, Overlaps
    <3> QED
      BY <3>3, <3>4
  <2>5. /\ run[p].step \notin {"md", "json"} => (ScanAgrees => ScanAgrees')
        /\ run[p].step # "draft" => (DraftsAgree => DraftsAgree')
    BY <2>1 DEF ScanAgrees, DraftsAgree
  <2> QED
    BY <1>2, <1>3, <1>4, <2>1, <2>3, <2>4, <2>5 DEF AgreementHeld
<1> QED
  BY <1>5, <1>6

LEMMA AgreementStep ==
  ASSUME TypeOK, AgreementHeld, NEW p \in Procs, Step(p)
  PROVE  AgreementHeld'
<1>0. Purposeful(p) /\ run[p] \in Run
  BY HeldIsOK DEF AgreementHeld
<1>i. Idle \in Run /\ Idle.step = "idle"
  BY IdleIsOK DEF Idle
<1>1. CASE Stat(p) \/ WriteConfig(p) \/ ReadHead(p) \/ ReadLoose(p) \/ ReadPacked(p)
             \/ EndCollect(p)
  <2>1. PICK r \in Run : /\ run' = [run EXCEPT ![p] = r] /\ r.cmd = run[p].cmd
                         /\ r.step \notin Suggesting \cup {"json", "idle"}
                         /\ r.next = run[p].next
    <3>1. run' \in [Procs -> Run]
      BY StepKeepsTypes DEF TypeOK
    <3>2. run' = [run EXCEPT ![p] = run'[p]]
      BY <1>1, <3>1 DEF Stat, WriteConfig, ReadHead, ReadLoose, ReadPacked, EndCollect, Move,
         TypeOK
    <3>3. /\ run'[p].cmd = run[p].cmd /\ run'[p].next = run[p].next
          /\ run'[p].step \in {"config", "head", "loose", "packed", "collect", "md"}
      <4>1. CASE ReadHead(p) \/ ReadLoose(p) \/ ReadPacked(p)
        <5>1. PICK r \in Run, rev \in Revisions :
                /\ r.cmd = run[p].cmd /\ r.next = run[p].next
                /\ run'[p] \in {WithRevision(r, rev), [r EXCEPT !.step = "loose"],
                                [r EXCEPT !.step = "packed"]}
          BY <4>1, Asking, AskedIsOK DEF TypeOK
        <5>2. /\ WithRevision(r, rev).step \in {"collect", "md"}
              /\ WithRevision(r, rev).cmd = r.cmd /\ WithRevision(r, rev).next = r.next
          BY RevisionGoesOn
        <5>3. \A x \in {"loose", "packed"} :
                LET n == [r EXCEPT !.step = x]
                IN  n.step = x /\ n.cmd = r.cmd /\ n.next = r.next
          BY DEF Run
        <5> QED
          BY <5>1, <5>2, <5>3
      <4>3. CASE Stat(p)
        BY <1>0, <4>3 DEF Stat, Move, TypeOK, Run
      <4>4. CASE WriteConfig(p)
        BY <1>0, <4>4 DEF WriteConfig, Move, TypeOK, Run
      <4>5. CASE EndCollect(p)
        BY <1>0, <4>5 DEF EndCollect, Move, TypeOK, Run
      <4> QED
        BY <1>1, <4>1, <4>3, <4>4, <4>5
    <3> QED
      BY <3>1, <3>2, <3>3 DEF Suggesting
  <2>2. /\ UNCHANGED <<md, json, drafts, unfinished, overlapped>>
        /\ run[p].step \notin Suggesting \cup {"json", "idle"}
    BY <1>1 DEF Stat, WriteConfig, ReadHead, ReadLoose, ReadPacked, EndCollect, outputs,
       Suggesting
  <2> QED
    BY <2>1, <2>2, AgreementFrame DEF Suggesting
<1>2. ASSUME NEW i \in Inputs, ReadInput(p, i) PROVE AgreementHeld'
  <2> DEFINE r == [run[p] EXCEPT !.todo = run[p].todo \ {i}, !.found[i] = Quote(text[i])]
  <2>1. /\ r.step = run[p].step /\ r.cmd = run[p].cmd /\ r.next = run[p].next
        /\ run[p].step \in {"collect", "guidance"} /\ run' = [run EXCEPT ![p] = r]
    BY <1>0, <1>2 DEF ReadInput, Run, Move
  <2>2. r \in Run
    BY <1>2, <2>1, StepKeepsTypes DEF TypeOK
  <2>3. run[p].step = "guidance" => md.state # "absent"
    BY DEF AgreementHeld, FromScan
  <2>4. UNCHANGED <<md, json, drafts, unfinished, overlapped>>
    BY <1>2 DEF ReadInput, outputs
  <2> HIDE DEF r
  <2> QED
    BY <2>1, <2>2, <2>3, <2>4, AgreementFrame
<1>3. CASE EndGuidance(p)
  <2> DEFINE r == [run[p] EXCEPT !.step = "draft"]
  <2>1. /\ r.step = "draft" /\ r.cmd = run[p].cmd /\ r.next = run[p].next
        /\ run[p].step = "guidance" /\ run' = [run EXCEPT ![p] = r] /\ r \in Run
    BY <1>0, <1>3 DEF EndGuidance, Run, Move, Steps
  <2>2. md.state # "absent"
    BY <2>1 DEF AgreementHeld, FromScan
  <2>3. UNCHANGED <<md, json, drafts, unfinished, overlapped>>
    BY <1>3 DEF EndGuidance, outputs
  <2> HIDE DEF r
  <2> QED
    BY <2>1, <2>2, <2>3, AgreementFrame DEF Suggesting
<1>4. CASE ReadContext(p) /\ md.state # "absent"
  <2> DEFINE r == [run[p] EXCEPT !.step = "guidance", !.todo = GuidanceInputs,
                                 !.commands = md.found[Makefile]]
  <2>1. /\ r.step = "guidance" /\ r.cmd = run[p].cmd /\ r.next = run[p].next
        /\ run[p].step = "context" /\ run' = [run EXCEPT ![p] = r]
    BY <1>0, <1>4 DEF ReadContext, Run, Move
  <2>2. r \in Run
    BY <1>4, <2>1, StepKeepsTypes DEF TypeOK, Step
  <2>3. UNCHANGED <<md, json, drafts, unfinished, overlapped>>
    BY <1>4 DEF ReadContext, outputs
  <2> HIDE DEF r
  <2> QED
    BY <1>4, <2>1, <2>2, <2>3, AgreementFrame DEF Suggesting
<1>f. ASSUME NEW q \in Procs, run' = [run EXCEPT ![p] = Idle],
             unfinished' = [unfinished EXCEPT ![p] = "none"]
      PROVE  Purposeful(q)'
  <2>1. Purposeful(q)
    BY DEF AgreementHeld
  <2> QED
    BY <1>i, <1>f, <2>1 DEF Purposeful, Suggesting, TypeOK
<1>5. CASE ReadContext(p) /\ md.state = "absent"
  <2>1. /\ run' = [run EXCEPT ![p] = Idle] /\ unfinished' = [unfinished EXCEPT ![p] = "none"]
        /\ UNCHANGED <<md, json, drafts, overlapped>> /\ run[p].step = "context"
    BY <1>5 DEF ReadContext, Move, outputs
  <2>2. FromScan'
    BY <1>i, <2>1 DEF AgreementHeld, FromScan, TypeOK
  <2>3. ~overlapped => \A q \in Procs : HalfWritten(q)'
    BY <1>i, <2>1 DEF AgreementHeld, HalfWritten, TypeOK
  <2>4. DraftsAgree'
    BY <1>5, <2>1, DraftsAreCounted DEF AgreementHeld, FromScan, DraftsAgree
  <2>5. (ScanAgrees => ScanAgrees') /\ (ScanOwed => ScanOwed')
    BY <1>0, <2>1 DEF ScanAgrees, ScanOwed, TypeOK, Purposeful, Suggesting
  <2> QED
    BY <1>f, <2>1, <2>2, <2>3, <2>4, <2>5 DEF AgreementHeld
<1>6. CASE WriteMarkdown(p)
  <2> DEFINE r == [run[p] EXCEPT !.step = "json"]
  <2>1. /\ r.step = "json" /\ r.cmd = run[p].cmd /\ r.found = run[p].found
        /\ run[p].step = "md" /\ \A q \in Procs : run'[q] = IF q = p THEN r ELSE run[q]
    BY <1>0, <1>6 DEF WriteMarkdown, Run, Move, TypeOK
  <2>2. /\ md'.state = "whole" /\ md'.found = run[p].found
        /\ UNCHANGED <<json, drafts, unfinished>>
        /\ overlapped' = (overlapped \/ Overlaps(p))
    BY <1>6 DEF WriteMarkdown
  <2> HIDE DEF r
  <2>3. ASSUME NEW q \in Procs PROVE Purposeful(q)'
    <3>1. Purposeful(q)
      BY DEF AgreementHeld
    <3> QED
      BY <1>0, <2>1, <2>2, <3>1 DEF Purposeful, Suggesting
  <2>4. FromScan'
    BY <2>2 DEF FromScan
  <2>5. ASSUME ~overlapped', NEW q \in Procs PROVE HalfWritten(q)'
    <3>1. ~overlapped /\ ~Overlaps(p)
      BY <2>2, <2>5
    <3>2. HalfWritten(q)
      BY <3>1 DEF AgreementHeld
    <3> QED
      BY <2>1, <2>2, <3>1, <3>2 DEF HalfWritten, Overlaps
  <2>6. ScanOwed'
    BY <2>1 DEF ScanOwed
  <2>7. (DraftsAgree => DraftsAgree') /\ (DraftsOwed => DraftsOwed')
    BY <2>1, <2>2 DEF DraftsAgree, DraftsOwed
  <2> QED
    BY <2>2, <2>3, <2>4, <2>5, <2>6, <2>7 DEF AgreementHeld
<1>7. CASE WriteSnapshot(p)
  <2>1. /\ run' = [run EXCEPT ![p] = Idle] /\ unfinished' = [unfinished EXCEPT ![p] = "none"]
        /\ UNCHANGED <<md, drafts>> /\ run[p].step = "json"
        /\ json'.state = "whole" /\ json'.found = run[p].found
        /\ overlapped' = (overlapped \/ Overlaps(p))
    BY <1>7 DEF WriteSnapshot, Finish
  <2>2. FromScan'
    BY <1>i, <2>1 DEF AgreementHeld, FromScan, TypeOK
  <2>3. ~overlapped => \A q \in Procs : HalfWritten(q)'
    BY <1>i, <2>1 DEF AgreementHeld, HalfWritten, TypeOK
  <2>4. ~overlapped => ScanAgrees'
    BY <2>1 DEF AgreementHeld, HalfWritten, ScanAgrees
  <2>5. (DraftsAgree => DraftsAgree') /\ (DraftsOwed => DraftsOwed')
    BY <1>0, <2>1 DEF DraftsAgree, DraftsOwed, TypeOK, Purposeful, Suggesting
  <2> QED
    BY <1>f, <2>1, <2>2, <2>3, <2>4, <2>5 DEF AgreementHeld
<1>8. CASE WriteDraft(p)
  <2> DEFINE n == run[p].next
  <2>1. /\ n \in 1..Drafts /\ run[p].step = "draft" /\ UNCHANGED <<md, json>>
        /\ overlapped' = (overlapped \/ Overlaps(p))
        /\ drafts' = [drafts EXCEPT ![n] = Tells(run[p])]
    BY <1>0, <1>8 DEF WriteDraft, Run, Tells
  <2>2. md.state # "absent"
    BY <2>1 DEF AgreementHeld, FromScan
  <2>3. FromScan'
    BY <2>1, <2>2 DEF FromScan
  <2>4. ~overlapped' => \A d \in 1..Drafts : d <= n => drafts'[d] = Tells(run[p])
    BY <2>1 DEF AgreementHeld, HalfWritten, TypeOK
  <2>5. ScanAgrees => ScanAgrees'
    BY <2>1 DEF ScanAgrees
  <2>6. ASSUME ~overlapped', NEW q \in Procs \ {p} PROVE run[q].step # "draft" /\ HalfWritten(q)
    BY <2>1, <2>6 DEF AgreementHeld, Overlaps
  <2>7. CASE n = Drafts
    <3>1. run' = [run EXCEPT ![p] = Idle] /\ unfinished' = [unfinished EXCEPT ![p] = "none"]
      BY <1>8, <2>7 DEF WriteDraft, Finish
    <3>2. ~overlapped' => DraftsAgree'
      BY <2>4, <2>7, DraftsAreCounted DEF DraftsAgree
    <3>3. ScanOwed => ScanOwed'
      BY <1>0, <2>1, <3>1 DEF ScanOwed, TypeOK, Purposeful, Suggesting
    <3>4. ASSUME ~overlapped', NEW q \in Procs PROVE HalfWritten(q)'
      <4>1. \A x \in Procs : run'[x] = IF x = p THEN Idle ELSE run[x]
        BY <3>1 DEF TypeOK
      <4>2. CASE q = p
        BY <1>i, <4>1, <4>2 DEF HalfWritten
      <4>3. CASE q # p
        BY <2>1, <2>6, <3>4, <4>1, <4>3 DEF HalfWritten
      <4> QED
        BY <4>2, <4>3
    <3> QED
      BY <1>f, <2>1, <2>3, <2>5, <3>1, <3>2, <3>3, <3>4 DEF AgreementHeld
  <2>8. CASE n # Drafts
    <3> DEFINE r == [run[p] EXCEPT !.next = n + 1]
    <3>1. /\ r.step = "draft" /\ r.cmd = run[p].cmd /\ r.next = n + 1
          /\ r.found = run[p].found /\ r.commands = run[p].commands
          /\ \A q \in Procs : run'[q] = IF q = p THEN r ELSE run[q]
          /\ UNCHANGED unfinished
      BY <1>0, <1>8, <2>1, <2>8 DEF WriteDraft, Move, TypeOK, Run
    <3> HIDE DEF r
    <3>2. ASSUME NEW q \in Procs PROVE Purposeful(q)'
      <4>1. Purposeful(q)
        BY DEF AgreementHeld
      <4> QED
        BY <1>0, <2>1, <3>1, <4>1 DEF Purposeful, Suggesting
    <3>3. ASSUME ~overlapped', NEW q \in Procs PROVE HalfWritten(q)'
      <4>1. CASE q = p
        BY <2>1, <2>4, <3>1, <3>3, <4>1 DEF HalfWritten, Tells
      <4>2. CASE q # p
        BY <2>1, <2>6, <3>1, <3>3, <4>2 DEF HalfWritten
      <4> QED
        BY <4>1, <4>2
    <3>4. DraftsOwed'
      BY <3>1 DEF DraftsOwed
    <3>5. ScanOwed => ScanOwed'
      BY <2>1, <3>1 DEF ScanOwed
    <3> QED
      BY <2>1, <2>3, <2>5, <3>2, <3>3, <3>4, <3>5 DEF AgreementHeld
  <2> QED
    BY <2>7, <2>8
<1> QED
  BY <1>1, <1>2, <1>3, <1>4, <1>5, <1>6, <1>7, <1>8 DEF Step

LEMMA AgreementIsHeld == Spec => []AgreementHeld
<1>1. Init => AgreementHeld
  <2> SUFFICES ASSUME Init PROVE AgreementHeld
    OBVIOUS
  <2>1. \A p \in Procs : run[p] = Idle /\ Idle.step = "idle"
    BY DEF Init, Idle
  <2>2. ScanAgrees /\ DraftsAgree /\ \A d \in 1..Drafts : drafts[d] = NoDraft
    BY DraftsAreCounted DEF Init, ScanAgrees, DraftsAgree, NoReport, NoSnapshot
  <2> QED
    BY <2>1, <2>2 DEF AgreementHeld, Purposeful, Suggesting, FromScan, HalfWritten
<1>2. TypeOK /\ AgreementHeld /\ [Next]_vars => AgreementHeld'
  <2> SUFFICES ASSUME TypeOK, AgreementHeld, [Next]_vars PROVE AgreementHeld'
    OBVIOUS
  <2>1. CASE UNCHANGED vars
    BY <2>1 DEF vars, outputs, AgreementHeld, Purposeful, FromScan, HalfWritten, ScanAgrees,
       ScanOwed, DraftsAgree, DraftsOwed
  <2> QED
    BY <2>1, AgreementStep, AgreementStop, AgreementStart, AgreementEnvironment DEF Next
<1> QED
  BY <1>1, <1>2, WorkspaceTypeCorrect, PTL DEF Spec

\* Between commands the outputs that belong together tell of the same run of one
\* command, unless two of them wrote at the same time, wherever the commands
\* before were stopped or torn, as long as each was rerun.
THEOREM OutputsDoAgree == Spec => []OutputsAgree
  BY AgreementImplies, AgreementIsHeld, PTL

-----------------------------------------------------------------------------
(* What a command leaves behind when it ends, and that it does end. *)

\* A step works at the command of its process or ends it.
LEMMA StepKeepsCommand ==
  ASSUME TypeOK, NEW p \in Procs, Step(p)
  PROVE  run' = [run EXCEPT ![p] = run'[p]] /\ run'[p].cmd \in {run[p].cmd, Idle.cmd}
<1> DEFINE To(r) == run' = [run EXCEPT ![p] = r]
           Kept(r) == r.cmd \in {run[p].cmd, Idle.cmd}
<1>0. run[p] \in Run /\ run \in [Procs -> Run]
  BY HeldIsOK DEF TypeOK
<1>1. ASSUME NEW r, To(r), Kept(r) PROVE To(run'[p]) /\ Kept(run'[p])
  BY <1>0, <1>1
<1>2. CASE ReadHead(p) \/ ReadLoose(p) \/ ReadPacked(p)
  <2>1. PICK r \in Run, rev \in Revisions :
          /\ r.cmd = run[p].cmd
          /\ To(WithRevision(r, rev)) \/ \E x : To([r EXCEPT !.step = x])
    BY <1>2, Asking, AskedIsOK
  <2>2. WithRevision(r, rev).cmd = r.cmd /\ \A x : [r EXCEPT !.step = x].cmd = r.cmd
    BY RevisionGoesOn DEF Run
  <2> QED
    BY <1>1, <2>1, <2>2
<1>4. ASSUME NEW i \in Inputs, ReadInput(p, i) PROVE To(run'[p]) /\ Kept(run'[p])
  <2> DEFINE r == [run[p] EXCEPT !.todo = @ \ {i}, !.found[i] = Quote(text[i])]
  <2>1. r.cmd = run[p].cmd
    BY <1>0 DEF Run
  <2>2. To(r)
    BY <1>4 DEF ReadInput, Move
  <2> HIDE DEF r
  <2> QED
    BY <1>1, <2>1, <2>2
<1>5. CASE ReadContext(p)
  <2> DEFINE r == [run[p] EXCEPT !.step = "guidance", !.todo = GuidanceInputs,
                                 !.commands = md.found[Makefile]]
  <2>1. r.cmd = run[p].cmd
    BY <1>0 DEF Run
  <2>2. To(r) \/ To(Idle)
    BY <1>5 DEF ReadContext, Move
  <2> HIDE DEF r
  <2> QED
    BY <1>1, <2>1, <2>2
<1>6. CASE Stat(p) \/ WriteConfig(p) \/ EndCollect(p) \/ WriteMarkdown(p) \/ EndGuidance(p)
  <2>1. \/ \E s : To([run[p] EXCEPT !.step = s])
        \/ To([run[p] EXCEPT !.step = "head", !.late = TRUE])
    BY <1>6 DEF Stat, WriteConfig, EndCollect, WriteMarkdown, EndGuidance, Move
  <2>2. /\ \A s : [run[p] EXCEPT !.step = s].cmd = run[p].cmd
        /\ [run[p] EXCEPT !.step = "head", !.late = TRUE].cmd = run[p].cmd
    BY <1>0 DEF Run
  <2> QED
    BY <1>1, <2>1, <2>2
<1>7. CASE WriteSnapshot(p) \/ WriteDraft(p)
  <2> DEFINE r == [run[p] EXCEPT !.next = run[p].next + 1]
  <2>1. r.cmd = run[p].cmd
    BY <1>0 DEF Run
  <2>2. To(r) \/ To(Idle)
    BY <1>7 DEF WriteSnapshot, WriteDraft, Finish, Move
  <2> HIDE DEF r
  <2> QED
    BY <1>1, <2>1, <2>2
<1> QED
  BY <1>2, <1>4, <1>5, <1>6, <1>7 DEF Step

\* An init past its configuration has one, and nothing takes it away.
Configured ==
  \A p \in Procs :
    run[p].cmd = "init" /\ run[p].step \notin {"stat", "config"} => config # "absent"

LEMMA ConfiguredNext == TypeOK /\ Configured /\ [Next]_vars => Configured'
<1> SUFFICES ASSUME TypeOK, Configured, [Next]_vars PROVE Configured'
  OBVIOUS
<1>0. config # "absent" => config' # "absent"
  <2>1. ASSUME NEW p \in Procs, Step(p) PROVE config' \in {config, "default"}
    BY <2>1 DEF Step, Stat, WriteConfig, ReadHead, ReadLoose, ReadPacked, EndCollect,
       WriteMarkdown, WriteSnapshot, ReadContext, EndGuidance, WriteDraft, ReadInput, outputs
  <2>2. ASSUME NEW p \in Procs, Stop(p) \/ Tear(p) PROVE config' \in {config, "torn"}
    BY <2>2 DEF Stop, Tear, outputs
  <2>3. ASSUME NEW p \in Procs, NEW c \in Commands, Start(p, c) PROVE config' = config
    BY <2>3 DEF Start, outputs
  <2>4. CASE Environment
    BY <2>4 DEF Environment, EditConfig, EditInput, Commit, Checkout, ChangeBranch, Pack,
     Prune, outputs
  <2>5. CASE UNCHANGED vars
    BY <2>5 DEF vars, outputs
  <2> QED
    BY <2>1, <2>2, <2>3, <2>4, <2>5 DEF Next
\* Only p gets a new record; Configured holds of it unless it is that of an init.
<1>1. ASSUME NEW p \in Procs, NEW r, run' = [run EXCEPT ![p] = r],
             \/ r.cmd # "init" \/ r.step \in {"stat", "config"} \/ config' # "absent"
      PROVE  Configured'
  BY <1>0, <1>1 DEF Configured, TypeOK
<1>2. ASSUME NEW p \in Procs, Step(p) PROVE Configured'
  <2>0. run[p] \in Run /\ Idle.cmd # "init"
    BY HeldIsOK DEF Idle
  <2>1. CASE Stat(p)
    <3> DEFINE r == [run[p] EXCEPT !.step = IF config = "absent" THEN "config" ELSE "head"]
    <3>1. r.step = "config" \/ config # "absent"
      BY <2>0 DEF Run
    <3>2. run' = [run EXCEPT ![p] = r]
      BY <2>1 DEF Stat, Move
    <3> HIDE DEF r
    <3> QED
      BY <1>0, <1>1, <3>1, <3>2
  <2>2. CASE WriteConfig(p)
    <3>1. config' = "default" /\ run' = [run EXCEPT ![p] = [run[p] EXCEPT !.step = "head"]]
      BY <2>2 DEF WriteConfig, Move
    <3> QED
      BY <1>1, <3>1
  <2>3. CASE ~Stat(p) /\ ~WriteConfig(p)
    <3>1. run' = [run EXCEPT ![p] = run'[p]] /\ run'[p].cmd \in {run[p].cmd, Idle.cmd}
      BY <1>2, StepKeepsCommand
    <3>2. run[p].step \notin {"stat", "config"}
      BY <1>2, <2>3 DEF Step, ReadHead, ReadLoose, ReadPacked, EndCollect, WriteMarkdown,
         WriteSnapshot, ReadContext, EndGuidance, WriteDraft, ReadInput
    <3>3. run'[p].cmd = "init" => config # "absent"
      BY <2>0, <3>1, <3>2 DEF Configured
    <3> QED
      BY <1>0, <1>1, <3>1, <3>3
  <2> QED
    BY <2>1, <2>2, <2>3
<1>3. ASSUME NEW p \in Procs, Stop(p) \/ Tear(p) PROVE Configured'
  <2>1. run' = [run EXCEPT ![p] = Idle] /\ Idle.cmd # "init"
    BY <1>3 DEF Stop, Tear, Abandon, Idle
  <2> QED
    BY <1>1, <2>1
<1>4. ASSUME NEW p \in Procs, NEW c \in Commands, Start(p, c) PROVE Configured'
  <2> DEFINE r == [Idle EXCEPT !.step = FirstStep[c], !.cmd = c]
  <2>1. r.cmd = c /\ r.step = FirstStep[c] /\ (c = "init" => FirstStep[c] = "stat")
    BY IdleIsOK DEF Run, FirstStep
  <2>2. run' = [run EXCEPT ![p] = r]
    BY <1>4 DEF Start
  <2> HIDE DEF r
  <2> QED
    BY <1>1, <2>1, <2>2
<1>5. CASE Environment
  BY <1>0, <1>5, EnvironmentKeepsRuns DEF Configured
<1>6. CASE UNCHANGED vars
  BY <1>6 DEF vars, outputs, Configured
<1> QED
  BY <1>2, <1>3, <1>4, <1>5, <1>6 DEF Next

\* Whole outputs of one scan, or all drafts of one set of suggestions, unless
\* another command was writing the same ones; without a scan no draft is touched.
EndsComplete(p) ==
  /\ run[p].cmd = "init" => config' # "absent"
  /\ run[p].cmd \in {"init", "scan"} =>
       /\ json'.state = "whole"
       /\ ~overlapped' => md'.state = "whole" /\ md'.found = json'.found
  /\ run[p].cmd = "suggest" =>
       \/ md.state = "absent" /\ UNCHANGED drafts
       \/ overlapped'
       \/ \A d \in 1..Drafts : drafts'[d].state = "whole" /\ drafts'[d] = drafts'[1]

LEMMA LastStep ==
  ASSUME TypeOK, AgreementHeld, Configured, NEW p \in Procs, Step(p), run'[p].step = "idle"
  PROVE  EndsComplete(p)
<1>0. run[p] \in Run /\ run \in [Procs -> Run] /\ Purposeful(p)
  BY HeldIsOK DEF AgreementHeld, TypeOK
<1>r. \A r : run' = [run EXCEPT ![p] = r] => run'[p] = r
  BY <1>0
<1>1. WriteSnapshot(p) \/ ReadContext(p) \/ WriteDraft(p)
  <2>1. ~Stat(p) /\ ~WriteConfig(p)
    <3>1. \A s \in {"config", "head"} : [run[p] EXCEPT !.step = s].step # "idle"
      BY <1>0 DEF Run
    <3> QED
      BY <1>r, <3>1 DEF Stat, WriteConfig, Move
  <2>2. ASSUME ReadHead(p) \/ ReadLoose(p) \/ ReadPacked(p) PROVE FALSE
    <3>1. PICK r \in Run, rev \in Revisions :
            run'[p] \in {WithRevision(r, rev), [r EXCEPT !.step = "loose"],
                         [r EXCEPT !.step = "packed"]}
      BY <1>r, <2>2, Asking
    <3>2. /\ WithRevision(r, rev).step # "idle"
          /\ [r EXCEPT !.step = "loose"].step # "idle"
          /\ [r EXCEPT !.step = "packed"].step # "idle"
      BY RevisionGoesOn DEF Run
    <3> QED
      BY <3>1, <3>2
  <2>3. ~EndCollect(p) /\ ~WriteMarkdown(p) /\ ~EndGuidance(p)
    BY <1>0, <1>r DEF EndCollect, WriteMarkdown, EndGuidance, Move, Run
  <2>4. ASSUME NEW i \in Inputs PROVE ~ReadInput(p, i)
    <3> DEFINE r == [run[p] EXCEPT !.todo = @ \ {i}, !.found[i] = Quote(text[i])]
    <3>1. r.step = run[p].step
      BY <1>0 DEF Run
    <3>2. ReadInput(p, i) => run'[p] = r /\ run[p].step # "idle"
      BY <1>r DEF ReadInput, Move
    <3> HIDE DEF r
    <3> QED
      BY <3>1, <3>2
  <2> QED
    BY <2>1, <2>2, <2>3, <2>4 DEF Step
<1>2. CASE WriteSnapshot(p)
  <2>1. run[p].cmd # "suggest" /\ run[p].step = "json"
    BY <1>0, <1>2 DEF WriteSnapshot, Purposeful, Suggesting
  <2>2. run[p].cmd = "init" => config' # "absent"
    BY <1>2, <2>1 DEF WriteSnapshot, Configured
  <2>3. json'.state = "whole" /\ json'.found = run[p].found
    BY <1>2 DEF WriteSnapshot
  <2>4. ~overlapped' => md'.state = "whole" /\ md'.found = run[p].found
    <3>1. md' = md /\ (overlapped => overlapped')
      BY <1>2 DEF WriteSnapshot
    <3> QED
      BY <2>1, <3>1 DEF AgreementHeld, HalfWritten
  <2> QED
    BY <2>1, <2>2, <2>3, <2>4 DEF EndsComplete
<1>3. CASE ReadContext(p)
  <2>1. run[p].cmd = "suggest"
    BY <1>0, <1>3 DEF ReadContext, Purposeful, Suggesting
  <2>2. md.state = "absent"
    <3> DEFINE r == [run[p] EXCEPT !.step = "guidance", !.todo = GuidanceInputs,
                                   !.commands = md.found[Makefile]]
    <3>1. r.step = "guidance"
      BY <1>0 DEF Run
    <3>2. md.state # "absent" => run'[p] = r
      BY <1>3, <1>r DEF ReadContext, Move
    <3> HIDE DEF r
    <3> QED
      BY <3>1, <3>2
  <2> QED
    BY <1>3, <2>1, <2>2 DEF ReadContext, outputs, EndsComplete
<1>4. CASE WriteDraft(p)
  <2>1. run[p].cmd = "suggest" /\ run[p].step = "draft"
    BY <1>0, <1>4 DEF WriteDraft, Purposeful, Suggesting
  <2>2. run[p].next = Drafts
    <3>1. run[p].next # Drafts => run'[p] = [run[p] EXCEPT !.next = run[p].next + 1]
      BY <1>4, <1>r DEF WriteDraft, Move
    <3> QED
      BY <1>0, <2>1, <3>1 DEF Run
  <2>3. drafts' = [drafts EXCEPT ![Drafts] = Tells(run[p])] /\ (overlapped => overlapped')
    BY <1>4, <2>2 DEF WriteDraft, Tells
  <2>4. ASSUME ~overlapped', NEW d \in 1..Drafts PROVE drafts'[d] = Tells(run[p])
    <3>1. d < Drafts => drafts[d] = Tells(run[p])
      BY <2>1, <2>2, <2>3, <2>4 DEF AgreementHeld, HalfWritten
    <3>2. d < Drafts \/ d = Drafts
      BY DraftsAreCounted
    <3> QED
      BY <2>3, <3>1, <3>2 DEF TypeOK
  <2>5. 1 \in 1..Drafts /\ Tells(run[p]).state = "whole"
    BY DraftsAreCounted DEF Tells
  <2> QED
    BY <2>1, <2>4, <2>5 DEF EndsComplete
<1> QED
  BY <1>1, <1>2, <1>3, <1>4

\* A command that ends without an error, rerun or not, has done its work: an init
\* has a configuration, it and a scan leave both files whole and of one scan, and
\* suggest-instructions all drafts of one set.
THEOREM CommandsEndComplete ==
  Spec => [][\A p \in Procs : Step(p) /\ run'[p].step = "idle" => EndsComplete(p)]_vars
<1>1. Init => Configured
  BY DEF Init, Configured, Idle
<1>2. TypeOK /\ AgreementHeld /\ Configured /\ [Next]_vars =>
        [\A p \in Procs : Step(p) /\ run'[p].step = "idle" => EndsComplete(p)]_vars
  BY LastStep
<1> QED
  BY <1>1, <1>2, ConfiguredNext, AgreementIsHeld, WorkspaceTypeCorrect, PTL DEF Spec

\* The steps that a command in state r has left at most.
Work(r) ==
  CASE r.step = "stat"     -> Cardinality(ScanInputs) + 11
    [] r.step = "config"   -> Cardinality(ScanInputs) + 10
    [] r.step = "head"     -> IF r.late THEN 5 ELSE Cardinality(ScanInputs) + 9
    [] r.step = "loose"    -> IF r.late THEN 4 ELSE Cardinality(ScanInputs) + 8
    [] r.step = "packed"   -> IF r.late THEN 3 ELSE Cardinality(ScanInputs) + 7
    [] r.step = "collect"  -> Cardinality(r.todo) + 6
    [] r.step = "md"       -> 2
    [] r.step = "json"     -> 1
    [] r.step = "context"  -> Cardinality(GuidanceInputs) + Drafts + 2
    [] r.step = "guidance" -> Cardinality(r.todo) + Drafts + 1
    [] r.step = "draft"    -> Drafts + 1 - r.next
    [] OTHER               -> 0

LEMMA CountsAreNat ==
  ASSUME IsFiniteSet(Inputs), NEW r \in Run
  PROVE  /\ Cardinality(ScanInputs) \in Nat /\ Cardinality(GuidanceInputs) \in Nat
         /\ Cardinality(r.todo) \in Nat
         /\ \A i \in r.todo : Cardinality(r.todo \ {i}) \in Nat
         /\ \A i \in r.todo : Cardinality(r.todo \ {i}) = Cardinality(r.todo) - 1
<1>1. IsFiniteSet(ScanInputs) /\ IsFiniteSet(GuidanceInputs) /\ IsFiniteSet(r.todo)
  BY FS_Subset DEF Inputs, Run
<1>2. \A i \in r.todo : /\ IsFiniteSet(r.todo \ {i})
                        /\ Cardinality(r.todo \ {i}) = Cardinality(r.todo) - 1
  BY <1>1, FS_RemoveElement
<1> QED
  BY <1>1, <1>2, FS_CardinalityType

\* However many commands run at once and whatever the user saves, commits or checks out, each
\* step of a command leaves it less to do, and it ends within Work of its first
\* state: gitRevision is asked twice, each input is read once.
THEOREM StepsLeaveLess ==
  ASSUME IsFiniteSet(Inputs)
  PROVE  Spec => [][\A p \in Procs :
                      Step(p) => Work(run'[p]) \in Nat /\ Work(run'[p]) < Work(run[p])]_vars
<1>1. ASSUME TypeOK, NEW p \in Procs, Step(p)
      PROVE  Work(run'[p]) \in Nat /\ Work(run'[p]) < Work(run[p])
  <2> DEFINE S == Cardinality(ScanInputs)
             G == Cardinality(GuidanceInputs)
             T == Cardinality(run[p].todo)
             D == run[p].next
             Less == Work(run'[p]) \in Nat /\ Work(run'[p]) < Work(run[p])
  <2>0. /\ run[p] \in Run /\ run \in [Procs -> Run]
        /\ S \in Nat /\ G \in Nat /\ T \in Nat
        /\ D \in Nat /\ Drafts \in Nat /\ 1 <= D /\ D <= Drafts
    <3>1. run[p] \in Run /\ run \in [Procs -> Run]
      BY <1>1 DEF TypeOK
    <3>2. S \in Nat /\ G \in Nat /\ T \in Nat
      BY <3>1, CountsAreNat
    <3>3. D \in 1..Drafts
      BY <3>1 DEF Run
    <3> HIDE DEF S, G, T, D
    <3> QED
      BY <3>1, <3>2, <3>3, DraftsAreCounted
  <2>c. \A i \in run[p].todo :
          Cardinality(run[p].todo \ {i}) \in Nat /\ Cardinality(run[p].todo \ {i}) = T - 1
    BY <2>0, CountsAreNat
  <2>i. Work(Idle) = 0
    BY DEF Work, Idle
  <2>s. \A r : /\ r.step = "stat" => Work(r) = S + 11
               /\ r.step = "config" => Work(r) = S + 10
               /\ r.step = "head" => Work(r) = IF r.late THEN 5 ELSE S + 9
               /\ r.step = "loose" => Work(r) = IF r.late THEN 4 ELSE S + 8
               /\ r.step = "packed" => Work(r) = IF r.late THEN 3 ELSE S + 7
               /\ r.step = "collect" => Work(r) = Cardinality(r.todo) + 6
               /\ r.step = "md" => Work(r) = 2
               /\ r.step = "json" => Work(r) = 1
               /\ r.step = "context" => Work(r) = G + Drafts + 2
               /\ r.step = "guidance" => Work(r) = Cardinality(r.todo) + Drafts + 1
               /\ r.step = "draft" => Work(r) = Drafts + 1 - r.next
    BY DEF Work
  <2>r. \A r : run' = [run EXCEPT ![p] = r] => run'[p] = r
    BY <2>0
  <2>w. ASSUME NEW r \in Run, NEW rev
        PROVE  /\ r.late => WithRevision(r, rev).step = "md"
               /\ ~r.late => /\ WithRevision(r, rev).step = "collect"
                             /\ WithRevision(r, rev).todo = ScanInputs
    BY DEF WithRevision, Run
  <2> HIDE DEF S, G, T, D
  <2>1. CASE Stat(p)
    <3>1. PICK s \in {"config", "head"} : run'[p] = [run[p] EXCEPT !.step = s]
      BY <2>1, <2>r DEF Stat, Move
    <3>2. run'[p].step = s
      BY <2>0, <3>1 DEF Run
    <3>3. run[p].step = "stat"
      BY <2>1 DEF Stat
    <3> QED
      BY <2>0, <2>s, <3>2, <3>3
  <2>2. CASE WriteConfig(p)
    <3>1. run'[p] = [run[p] EXCEPT !.step = "head"] /\ run[p].step = "config"
      BY <2>2, <2>r DEF WriteConfig, Move
    <3>2. run'[p].step = "head"
      BY <2>0, <3>1 DEF Run
    <3>3. Work(run[p]) = S + 10 /\ Work(run'[p]) \in {5, S + 9}
      BY <2>s, <3>1, <3>2
    <3> QED
      BY <2>0, <3>3
  <2>3. CASE ReadHead(p) \/ ReadLoose(p) \/ ReadPacked(p)
    <3>1. PICK r \in Run, rev \in Revisions :
            /\ \/ r = Asked(p) /\ run[p].step = "head"
               \/ r = run[p] /\ run[p].step \in {"loose", "packed"}
            /\ \/ run' = [run EXCEPT ![p] = WithRevision(r, rev)]
               \/ run[p].step = "head" /\ run' = [run EXCEPT ![p] = [r EXCEPT !.step = "loose"]]
               \/ run[p].step = "loose" /\ run' = [run EXCEPT ![p] = [r EXCEPT !.step = "packed"]]
      BY <1>1, <2>3, Asking
    <3>2. r.late = run[p].late /\ run[p].step \in {"head", "loose", "packed"}
      BY <1>1, <3>1, AskedIsOK
    <3> DEFINE n(x) == [r EXCEPT !.step = x]
    <3>3. /\ n("loose").step = "loose" /\ n("loose").late = run[p].late
          /\ n("packed").step = "packed" /\ n("packed").late = run[p].late
      BY <3>2 DEF Run
    <3>4. \/ run'[p] = WithRevision(r, rev)
          \/ run[p].step = "head" /\ run'[p] = n("loose")
          \/ run[p].step = "loose" /\ run'[p] = n("packed")
      BY <2>r, <3>1
    <3> HIDE DEF n
    <3>5. CASE run[p].step = "head" /\ run'[p] = n("loose")
      <4>1. /\ Work(run'[p]) = IF run[p].late THEN 4 ELSE S + 8
            /\ Work(run[p]) = IF run[p].late THEN 5 ELSE S + 9
        BY <2>s, <3>3, <3>5
      <4> QED
        BY <2>0, <4>1
    <3>6. CASE run[p].step = "loose" /\ run'[p] = n("packed")
      <4>1. /\ Work(run'[p]) = IF run[p].late THEN 3 ELSE S + 7
            /\ Work(run[p]) = IF run[p].late THEN 4 ELSE S + 8
        BY <2>s, <3>3, <3>6
      <4> QED
        BY <2>0, <4>1
    <3>7. CASE run'[p] = WithRevision(r, rev)
      <4>1. CASE run[p].late
        <5>0. run'[p].step = "md"
          BY <2>w, <3>2, <3>7, <4>1, Zenon
        <5>1. Work(run'[p]) = 2
          BY <2>s, <5>0
        <5>2. Work(run[p]) = 5 \/ Work(run[p]) = 4 \/ Work(run[p]) = 3
          BY <2>s, <3>2, <4>1
        <5> QED
          BY <5>1, <5>2
      <4>2. CASE ~run[p].late
        <5>1. Work(run'[p]) = S + 6
          BY <2>s, <2>w, <3>2, <3>7, <4>2 DEF S
        <5>2. Work(run[p]) = S + 9 \/ Work(run[p]) = S + 8 \/ Work(run[p]) = S + 7
          BY <2>s, <3>2, <4>2
        <5> QED
          BY <2>0, <5>1, <5>2
      <4> QED
        BY <4>1, <4>2
    <3> QED
      BY <3>4, <3>5, <3>6, <3>7
  <2>5. CASE EndCollect(p)
    <3>1. run'[p] = [run[p] EXCEPT !.step = "head", !.late = TRUE] /\ run[p].step = "collect"
      BY <2>5, <2>r DEF EndCollect, Move
    <3>2. run'[p].step = "head" /\ run'[p].late
      BY <2>0, <3>1 DEF Run
    <3>3. Work(run[p]) = T + 6 /\ Work(run'[p]) = 5
      BY <2>s, <3>1, <3>2 DEF T
    <3> QED
      BY <2>0, <3>3
  <2>6. CASE WriteMarkdown(p)
    <3>1. run'[p] = [run[p] EXCEPT !.step = "json"] /\ run[p].step = "md"
      BY <2>6, <2>r DEF WriteMarkdown, Move
    <3>2. run'[p].step = "json"
      BY <2>0, <3>1 DEF Run
    <3>3. Work(run[p]) = 2 /\ Work(run'[p]) = 1
      BY <2>s, <3>1, <3>2
    <3> QED
      BY <3>3
  <2>7. CASE WriteSnapshot(p)
    <3>1. run'[p] = Idle /\ run[p].step = "json"
      BY <2>7, <2>r DEF WriteSnapshot, Finish
    <3> QED
      BY <2>i, <2>s, <3>1
  <2>8. CASE ReadContext(p)
    <3> DEFINE r == [run[p] EXCEPT !.step = "guidance", !.todo = GuidanceInputs,
                                   !.commands = md.found[Makefile]]
    <3>1. r.step = "guidance" /\ r.todo = GuidanceInputs
      BY <2>0 DEF Run
    <3>2. run[p].step = "context" /\ run'[p] \in {Idle, r}
      BY <2>8, <2>r DEF ReadContext, Move
    <3> HIDE DEF r
    <3>3. Work(r) = G + Drafts + 1
      BY <2>s, <3>1 DEF G
    <3> QED
      BY <2>0, <2>i, <2>s, <3>2, <3>3
  <2>9. CASE EndGuidance(p)
    <3>1. run'[p] = [run[p] EXCEPT !.step = "draft"] /\ run[p].step = "guidance"
      BY <2>9, <2>r DEF EndGuidance, Move
    <3>2. run'[p].step = "draft" /\ run'[p].next = run[p].next
      BY <2>0, <3>1 DEF Run
    <3>3. Work(run[p]) = T + Drafts + 1 /\ Work(run'[p]) = Drafts + 1 - D
      BY <2>s, <3>1, <3>2 DEF T, D
    <3> QED
      BY <2>0, <3>3
  <2>10. CASE WriteDraft(p)
    <3>1. run[p].step = "draft" /\ Work(run[p]) = Drafts + 1 - D
      BY <2>10, <2>s DEF WriteDraft, D
    <3>2. CASE run[p].next = Drafts
      <4>1. run'[p] = Idle
        BY <2>10, <2>r, <3>2 DEF WriteDraft, Finish
      <4> QED
        BY <2>0, <2>i, <3>1, <4>1
    <3>3. CASE run[p].next # Drafts
      <4>1. run'[p] = [run[p] EXCEPT !.next = run[p].next + 1]
        BY <2>10, <2>r, <3>3 DEF WriteDraft, Move
      <4>2. run'[p].step = "draft" /\ run'[p].next = D + 1
        BY <2>0, <3>1, <4>1 DEF Run, D
      <4>3. Work(run'[p]) = Drafts + 1 - (D + 1) /\ D # Drafts
        BY <2>s, <3>3, <4>2 DEF D
      <4> QED
        BY <2>0, <3>1, <4>3
    <3> QED
      BY <3>2, <3>3
  <2>11. ASSUME NEW i \in Inputs, ReadInput(p, i) PROVE Less
    <3> DEFINE r == [run[p] EXCEPT !.todo = @ \ {i}, !.found[i] = Quote(text[i])]
    <3>1. r.step = run[p].step /\ r.todo = run[p].todo \ {i}
      BY <2>0 DEF Run
    <3>2. /\ run'[p] = r /\ i \in run[p].todo
          /\ run[p].step = "collect" \/ run[p].step = "guidance"
      BY <2>11, <2>r DEF ReadInput, Move
    <3> HIDE DEF r
    <3>3. Cardinality(r.todo) = T - 1 /\ T - 1 \in Nat
      BY <2>c, <3>1, <3>2
    <3>4. CASE run[p].step = "collect"
      <4>1. Work(run[p]) = T + 6 /\ Work(r) = T - 1 + 6
        BY <2>s, <3>1, <3>3, <3>4 DEF T
      <4> QED
        BY <2>0, <3>2, <3>3, <4>1
    <3>5. CASE run[p].step = "guidance"
      <4>1. Work(run[p]) = T + Drafts + 1 /\ Work(r) = T - 1 + Drafts + 1
        BY <2>s, <3>1, <3>3, <3>5 DEF T
      <4> QED
        BY <2>0, <3>2, <3>3, <4>1
    <3> QED
      BY <3>2, <3>4, <3>5
  <2> QED
    BY <1>1, <2>1, <2>2, <2>3, <2>5, <2>6, <2>7, <2>8, <2>9, <2>10, <2>11 DEF Step
<1>2. TypeOK /\ [Next]_vars =>
        [\A p \in Procs :
           Step(p) => Work(run'[p]) \in Nat /\ Work(run'[p]) < Work(run[p])]_vars
  BY <1>1
<1> QED
  BY <1>2, WorkspaceTypeCorrect, PTL DEF Spec
=============================================================================
