------------------------ MODULE TaskLifecycleProofs ------------------------
(***************************************************************************)
(* Theorems of TaskLifecycle, for every number of tasks, docs and          *)
(* concurrent invocations, every link structure and every bound.           *)
(***************************************************************************)
EXTENDS TaskLifecycle, FiniteSetTheorems, TLAPS

Trees == [Names -> File \cup {NoFile}]

-----------------------------------------------------------------------------
(* What the operators of TaskFiles return. *)

\* Re-expressing the links of a file yields links.
LEMMA RewriteType ==
  ASSUME NEW tr \in Trees, NEW name, NEW links \in [Tasks -> Texts], NEW moves
  PROVE  rewriteTaskLinks(tr, name, links, moves) \in [Tasks -> Texts]
BY DEF rewriteTaskLinks, RelativeText, Texts, RelativeTexts

\* A repaired file is the file it was but for its links: whose it is, its status
\* and its body are not repairTaskLinks' to touch.
LEMMA RepairedKeeps ==
  ASSUME NEW tr \in Trees, NEW name \in Names, NEW moves, tr[name] # NoFile
  PROVE  /\ Repaired(tr, name, moves) \in File
         /\ Repaired(tr, name, moves).id = tr[name].id
         /\ Repaired(tr, name, moves).status = tr[name].status
         /\ Repaired(tr, name, moves).body = tr[name].body
<1> DEFINE file == tr[name]
           rewritten == rewriteTaskLinks(tr, name, file.links, moves)
           links == ReplaceCitations(rewritten, moves)
<1>1. file \in File
  BY DEF Trees
<1>2. rewritten \in [Tasks -> Texts]
  BY <1>1, RewriteType DEF File
<1>3. links \in [Tasks -> Texts]
  BY <1>2 DEF ReplaceCitations, Texts
<1>4. Repaired(tr, name, moves) = [file EXCEPT !.links = links]
  BY DEF Repaired
<1> QED
  BY <1>1, <1>3, <1>4 DEF File

\* A completed file is a file of the same task with the same body.
LEMMA CompletedKeeps ==
  ASSUME NEW file \in File
  PROVE  /\ completedTaskContent(file) \in File
         /\ completedTaskContent(file).id = file.id
         /\ completedTaskContent(file).status = "done"
         /\ completedTaskContent(file).body = file.body
BY DEF completedTaskContent, File, Statuses

\* What an interrupted write leaves is a file.
LEMMA TornType ==
  ASSUME NEW file \in File, NEW outcome
  PROVE  Torn(file, outcome) \in File
BY DEF Torn, File, Statuses, Bodies, Lost, NoLinks, Texts

\* One that was interrupted after the frontmatter still says whose it is and
\* which status it has.
LEMMA TornKeepsOwner ==
  ASSUME NEW file \in File, NEW outcome, outcome # "empty"
  PROVE  /\ Torn(file, outcome) \in File
         /\ Torn(file, outcome).id = file.id
         /\ Torn(file, outcome).status = file.status
BY DEF Torn, File, Statuses, Bodies, Lost, NoLinks, Texts

-----------------------------------------------------------------------------
(* The initial repository. *)

LEMMA InitialLinksType ==
  ASSUME NEW place, NEW owner, NEW dir
  PROVE  InitialLinks(place, owner, dir) \in [Tasks -> Texts]
BY DEF InitialLinks, RelativeText, Texts, RelativeTexts

LEMMA InitialTaskType ==
  ASSUME NEW place, NEW t \in Tasks
  PROVE  InitialTask(place, t) \in File
<1>1. InitialLinks(place, t, InitialDir(place, t)) \in [Tasks -> Texts]
  BY InitialLinksType
<1>2. (CASE place[t] = "open"                          -> "open"
         [] place[t] \in {"done", "filed", "shadowed"} -> "done"
         [] OTHER                                      -> "canceled") \in Statuses
  BY DEF Statuses
<1> QED
  BY <1>1, <1>2 DEF InitialTask, File, Bodies

LEMMA InitialFileType ==
  ASSUME NEW place \in [Tasks -> Placements], NEW name \in Names
  PROVE  InitialFile(place, name) \in File \cup {NoFile}
<1>1. Stranger \in File
  BY DEF Stranger, File, Statuses, Bodies, NoLinks, Texts
<1>2. CASE name[1] = "doc"
  <2>1. [Stranger EXCEPT !.links = InitialLinks(place, name[2], "doc")] \in File
    BY <1>1, InitialLinksType DEF File
  <2> QED
    BY <1>2, <2>1 DEF InitialFile
<1>3. CASE name[1] # "doc"
  <2>1. name[2] \in Tasks
    BY <1>3 DEF Names
  <2> QED
    BY <1>1, <1>3, <2>1, InitialTaskType DEF InitialFile
<1> QED
  BY <1>2, <1>3

-----------------------------------------------------------------------------
(* Type correctness. *)

\* What an idle process holds is of its type.
LEMMA IdleType == Idle \in Run
BY DEF Idle, Run, Steps, Commands

LEMMA InitTypeOK == Init => TypeOK
<1> SUFFICES ASSUME Init PROVE TypeOK
  OBVIOUS
<1>1. PICK place \in [Tasks -> Placements] :
        tree = [name \in Names |-> InitialFile(place, name)]
  BY DEF Init
<1>2. tree \in [Names -> File \cup {NoFile}]
  BY <1>1, InitialFileType
<1>3. run \in [Procs -> Run]
  BY IdleType DEF Init
<1>4. \A p \in Procs : run[p].step = "idle"
  BY DEF Init, Idle
<1> QED
  BY <1>2, <1>3, <1>4, BoundsAreNat DEF Init, TypeOK, BuffersFilled

\* The slots of a task are names of the tree.
LEMMA SlotNames == ASSUME NEW t \in Tasks PROVE Live(t) \in Names /\ Arch(t) \in Names
BY DEF Live, Arch, Names

LEMMA NextTypeOK == TypeOK /\ [Next]_vars => TypeOK'
<1> SUFFICES ASSUME TypeOK, [Next]_vars PROVE TypeOK'
  OBVIOUS
<1> USE DEF TypeOK, BuffersFilled
<1>i. Idle \in Run /\ Idle.step = "idle"
  BY IdleType DEF Idle
<1>t. tree \in Trees
  BY DEF Trees
<1>c. ASSUME NEW p \in Procs, run[p].cmd # Archive PROVE run[p].cmd.id \in Tasks
  BY <1>c DEF Run, Commands, Complete
<1>1. ASSUME NEW p \in Procs, Refuse(p) PROVE TypeOK'
  BY <1>1, <1>i DEF Refuse
<1>2. ASSUME NEW p \in Procs, AcceptSweep(p) PROVE TypeOK'
  <2> DEFINE r == [run[p] EXCEPT !.step = "repair", !.todo = Names]
  <2>1. r \in Run /\ r.step = "repair" /\ r.cmd = Archive
    BY <1>2 DEF AcceptSweep, Run, Steps
  <2>2. run' = [run EXCEPT ![p] = r]
    BY <1>2 DEF AcceptSweep
  <2> HIDE DEF r
  <2> QED
    BY <1>2, <2>1, <2>2 DEF AcceptSweep
<1>2a. ASSUME NEW p \in Procs, AcceptCompletion(p) PROVE TypeOK'
  <2> DEFINE t == run[p].cmd.id
             held == Relinked(run[p].held, Live(t), {t})
             r == [run[p] EXCEPT !.step = "repair", !.todo = Names \ {Live(t)},
                                 !.resuming = tree[Arch(t)] # NoFile, !.held = held]
  <2>1. run[p].held \in File
    BY <1>2a DEF AcceptCompletion
  <2>2. rewriteTaskLinks(tree, Live(t), run[p].held.links, {t}) \in [Tasks -> Texts]
    BY <1>t, <2>1, RewriteType DEF File
  <2>3. held \in File
    BY <2>1, <2>2 DEF Relinked, File
  <2>4. run' = [run EXCEPT ![p] = r]
    BY <1>2a DEF AcceptCompletion
  <2> HIDE DEF held
  <2>5. r \in Run /\ r.step = "repair" /\ r.held \in File
    BY <2>3 DEF Run, Steps
  <2> HIDE DEF r
  <2> QED
    BY <1>2a, <2>4, <2>5 DEF AcceptCompletion
<1>3. ASSUME NEW p \in Procs, NEW n \in Names, Pass(p, n) PROVE TypeOK'
  <2> DEFINE r == [run[p] EXCEPT !.todo = run[p].todo \ {n}]
  <2>1. /\ r \in Run /\ r.step = run[p].step /\ r.cmd = run[p].cmd
        /\ r.held = run[p].held /\ run[p].step = "repair"
    BY <1>3 DEF Pass, Run
  <2>2. run' = [run EXCEPT ![p] = r]
    BY <1>3 DEF Pass
  <2> HIDE DEF r
  <2> QED
    BY <1>3, <2>1, <2>2 DEF Pass
<1>4. ASSUME NEW p \in Procs, NEW n \in Names, Read(p, n) PROVE TypeOK'
  <2> DEFINE next == Repaired(tree, n, run[p].moves)
             r == [run[p] EXCEPT !.step = "save", !.todo = run[p].todo \ {n}, !.at = n, !.next = next]
  <2>1. next \in File
    BY <1>4, <1>t, RepairedKeeps DEF Read
  <2>2. run[p].step = "repair" /\ run' = [run EXCEPT ![p] = r]
    BY <1>4 DEF Read
  <2> HIDE DEF next
  <2>3. /\ r \in Run /\ r.step = "save" /\ r.cmd = run[p].cmd
        /\ r.held = run[p].held /\ r.at = n /\ r.next = next
    BY <2>1 DEF Run, Steps
  <2> HIDE DEF r
  <2> QED
    BY <1>4, <2>1, <2>2, <2>3 DEF Read
<1>5. ASSUME NEW p \in Procs, Save(p) PROVE TypeOK'
  <2> DEFINE r == [run[p] EXCEPT !.step = "repair", !.at = NoFile, !.next = NoFile]
  <2>1. run[p].at \in Names /\ run[p].next \in File /\ run[p].step = "save"
    BY <1>5 DEF Save
  <2>2. /\ r \in Run /\ r.step = "repair" /\ r.cmd = run[p].cmd
        /\ r.held = run[p].held
    BY DEF Run, Steps
  <2>3. run' = [run EXCEPT ![p] = r]
    BY <1>5 DEF Save
  <2> HIDE DEF r
  <2> QED
    BY <1>5, <2>1, <2>2, <2>3 DEF Save
<1>6. ASSUME NEW p \in Procs, EndWalk(p) PROVE TypeOK'
  <2> DEFINE step == IF run[p].cmd = Archive THEN "rename"
                     ELSE IF run[p].resuming THEN "remove" ELSE "write"
             r == [run[p] EXCEPT !.step = step]
  <2>1. step \in Steps /\ step \notin {"idle", "save"}
    BY DEF Steps
  <2>2. run[p].cmd = Archive => step = "rename"
    OBVIOUS
  <2>3. /\ r \in Run /\ r.step = step /\ r.cmd = run[p].cmd
        /\ r.held = run[p].held
    <3> HIDE DEF step
    <3> QED  BY <2>1 DEF Run
  <2>4. run[p].step = "repair" /\ run' = [run EXCEPT ![p] = r]
    BY <1>6 DEF EndWalk
  <2> HIDE DEF r, step
  <2> QED
    BY <1>6, <2>1, <2>2, <2>3, <2>4 DEF EndWalk
<1>7. ASSUME NEW p \in Procs, NEW t \in Tasks, StartComplete(p, t) PROVE TypeOK'
  <2>1. completedTaskContent(tree[Live(t)]) \in File
    BY <1>7, SlotNames, CompletedKeeps DEF StartComplete, Declares
  <2>2. Complete(t) \in Commands
    BY DEF Commands
  <2> QED
    BY <1>7, <1>i, <2>1, <2>2 DEF StartComplete, Run, Steps, Idle
<1>8. ASSUME NEW p \in Procs, WriteSlot(p) PROVE TypeOK'
  BY <1>8, <1>c, SlotNames DEF WriteSlot, Run, Steps
<1>9. ASSUME NEW p \in Procs, Remove(p) PROVE TypeOK'
  BY <1>9, <1>i, <1>c, SlotNames DEF Remove, Finish, Abandon, Run
<1>10. ASSUME NEW p \in Procs, StartArchive(p) PROVE TypeOK'
  BY <1>10, <1>i DEF StartArchive, misfiledTasks, Run, Steps, Commands, Idle
<1>11. ASSUME NEW p \in Procs, ArchiveClean(p) PROVE TypeOK'
  BY <1>11 DEF ArchiveClean
<1>12. ASSUME NEW p \in Procs, NEW t \in Tasks, Rename(p, t) PROVE TypeOK'
  <2>1. tree' \in [Names -> File \cup {NoFile}]
    BY <1>12, SlotNames DEF Rename
  <2>2. CASE run[p].moves = {t}
    BY <1>12, <1>i, <2>1, <2>2 DEF Rename, Finish
  <2>3. CASE run[p].moves # {t}
    <3> DEFINE r == [run[p] EXCEPT !.moves = run[p].moves \ {t}]
    <3>1. /\ r \in Run /\ r.step = run[p].step /\ r.cmd = run[p].cmd
          /\ r.held = run[p].held /\ run[p].step = "rename"
      BY <1>12 DEF Rename, Run
    <3>2. run' = [run EXCEPT ![p] = r] /\ UNCHANGED unfinished
      BY <1>12, <2>3 DEF Rename
    <3> HIDE DEF r
    <3> QED
      BY <1>12, <2>1, <3>1, <3>2 DEF Rename
  <2> QED
    BY <2>2, <2>3
<1>13. ASSUME NEW p \in Procs, NEW t \in Tasks, RenameFails(p, t) PROVE TypeOK'
  BY <1>13, <1>i DEF RenameFails, Abandon, Run
<1>14. ASSUME NEW p \in Procs, Stop(p) PROVE TypeOK'
  BY <1>14, <1>i, BoundsAreNat DEF Stop, Abandon, Run
<1>15. ASSUME NEW p \in Procs, NEW outcome, Tear(p, outcome) PROVE TypeOK'
  <2>1. CASE run[p].step = "save"
    BY <1>15, <2>1, <1>i, TornType, BoundsAreNat DEF Tear, Abandon, Run
  <2>2. CASE run[p].step = "write"
    BY <1>15, <2>2, <1>i, <1>c, SlotNames, TornType, BoundsAreNat DEF Tear, Abandon, Run
  <2> QED
    BY <1>15, <2>1, <2>2 DEF Tear
<1>16. ASSUME NEW t \in Tasks, EditBody(t) PROVE TypeOK'
  <2>1. edits + 1 \in 0..MaxEdits /\ edits + 1 \in Nat
    BY <1>16, BoundsAreNat DEF EditBody, MayEdit
  <2>2. [tree[Live(t)] EXCEPT !.body = edits + 1] \in File
    BY <1>16, <2>1, SlotNames DEF EditBody, MayEdit, Declares, File, Bodies
  <2> QED
    BY <1>16, <2>1, <2>2 DEF EditBody
<1>17. ASSUME NEW t \in Tasks, NEW status \in Statuses, EditStatus(t, status) PROVE TypeOK'
  <2>1. edits + 1 \in 0..MaxEdits
    BY <1>17, BoundsAreNat DEF EditStatus, MayEdit
  <2>2. [tree[Live(t)] EXCEPT !.status = status] \in File
    BY <1>17, SlotNames DEF EditStatus, MayEdit, Declares, File
  <2> QED
    BY <1>17, <2>1, <2>2 DEF EditStatus
<1>18. CASE UNCHANGED vars
  BY <1>18 DEF vars
<1> QED
  BY <1>1, <1>2, <1>2a, <1>3, <1>4, <1>5, <1>6, <1>7, <1>8, <1>9, <1>10, <1>11, <1>12, <1>13,
     <1>14, <1>15, <1>16, <1>17, <1>18 DEF Next, Edit, Start, Step, Fail

\* Every reachable state is of its type: no step leaves a slot, a buffer or a
\* step counter of the two commands outside what the code can hold there.
THEOREM TypeCorrect == Spec => []TypeOK
BY InitTypeOK, NextTypeOK, PTL DEF Spec

-----------------------------------------------------------------------------
(***************************************************************************)
(* Whose file sits in a slot.  Unless a write leaves nothing, a live slot  *)
(* only ever holds its own task, and an archive slot, once taken, stays    *)
(* with whoever took it.  The second is not inductive by itself: between   *)
(* its slot check and its write a process must know that the slot it found *)
(* free or its own is still so, and a repair must put back a file of the   *)
(* same owner as the one it read.                                          *)
(***************************************************************************)
LiveOwned(tr) == \A t \in Tasks : tr[Live(t)] # NoFile => tr[Live(t)].id = t

\* The archive slot of t is free or t's.
Fileable(tr, t) == tr[Arch(t)] = NoFile \/ tr[Arch(t)].id = t

RunOwned(r, tr) ==
  /\ r.step = "save" =>
       \A t \in Tasks :
         /\ r.at = Live(t) => r.next.id = t
         /\ r.at = Arch(t) => tr[Arch(t)] # NoFile /\ r.next.id = tr[Arch(t)].id
  /\ r.step # "idle" /\ r.cmd # Archive => r.held.id = r.cmd.id /\ r.moves = {r.cmd.id}
  /\ r.step \notin {"idle", "slot"} => \A t \in r.moves : Fileable(tr, t)
  /\ r.step # "idle" /\ r.cmd # Archive /\ (r.step = "remove" \/ r.resuming)
       => Declares(tr, Arch(r.cmd.id), r.cmd.id)

OwnerInv == LiveOwned(tree) /\ \A p \in Procs : RunOwned(run[p], tree)

\* What a step may do to the archive slots.
ArchKept ==
  \A t \in Tasks :
    /\ tree[Arch(t)] # NoFile => tree'[Arch(t)] # NoFile /\ tree'[Arch(t)].id = tree[Arch(t)].id
    /\ tree[Arch(t)] = NoFile => Fileable(tree', t)

\* Slots of different tasks, and the two slots of one task, are different names.
LEMMA SlotsDiffer ==
  ASSUME NEW t \in Tasks, NEW u \in Tasks
  PROVE  Live(t) # Arch(u) /\ (Live(t) = Live(u) => t = u) /\ (Arch(t) = Arch(u) => t = u)
BY DEF Live, Arch

LEMMA InitOwner == Init => OwnerInv
<1> SUFFICES ASSUME Init PROVE OwnerInv
  OBVIOUS
<1>1. PICK place \in [Tasks -> Placements] :
        tree = [name \in Names |-> InitialFile(place, name)]
  BY DEF Init
<1>2. ASSUME NEW t \in Tasks PROVE tree[Live(t)] # NoFile => tree[Live(t)].id = t
  <2>1. tree[Live(t)] = InitialFile(place, Live(t))
    BY <1>1, SlotNames
  <2>2. InitialFile(place, Live(t)) \in {InitialTask(place, t), NoFile}
    BY DEF InitialFile, Live
  <2> QED
    BY <2>1, <2>2 DEF InitialTask
<1>3. ASSUME NEW p \in Procs PROVE RunOwned(run[p], tree)
  <2>1. run[p].step = "idle"
    BY DEF Init, Idle
  <2> QED
    BY <2>1 DEF RunOwned
<1> QED
  BY <1>2, <1>3 DEF OwnerInv, LiveOwned

\* What holds of a process that does not move survives the steps of the others.
LEMMA OwnedFrame ==
  ASSUME ArchKept, NEW r \in Run, r.cmd # Archive => r.cmd.id \in Tasks, RunOwned(r, tree)
  PROVE  RunOwned(r, tree')
BY SlotNames DEF ArchKept, RunOwned, Fileable, Declares, Run

\* The steps that change the tree.
LEMMA TreeStep ==
  ASSUME TypeOK, OwnerInv, "empty" \notin TornOutcomes, [Next]_vars
  PROVE  ArchKept /\ LiveOwned(tree')
<1> USE DEF LiveOwned, ArchKept, Fileable
<1>c. ASSUME NEW p \in Procs, run[p].cmd # Archive PROVE run[p].cmd.id \in Tasks
  BY <1>c DEF TypeOK, Run, Commands, Complete
<1>1. CASE tree' = tree
  BY <1>1 DEF OwnerInv
<1>2. ASSUME NEW p \in Procs, run[p].step = "save", NEW file \in File, file.id = run[p].next.id,
             tree' = [tree EXCEPT ![run[p].at] = file]
      PROVE  ArchKept /\ LiveOwned(tree')
  <2>1. run[p].at \in Names /\ RunOwned(run[p], tree)
    BY <1>2 DEF TypeOK, BuffersFilled, OwnerInv
  <2> QED
    BY <1>2, <2>1, SlotNames, SlotsDiffer, NoFileIsNoFile DEF TypeOK, OwnerInv, RunOwned
<1>3. ASSUME NEW p \in Procs, run[p].step = "write", NEW file \in File, file.id = run[p].held.id,
             tree' = [tree EXCEPT ![Arch(run[p].cmd.id)] = file]
      PROVE  ArchKept /\ LiveOwned(tree')
  <2>1. /\ run[p].cmd.id \in Tasks
        /\ run[p].held.id = run[p].cmd.id /\ Fileable(tree, run[p].cmd.id)
    BY <1>3, <1>c DEF TypeOK, BuffersFilled, OwnerInv, RunOwned
  <2> QED
    BY <1>3, <2>1, SlotNames, SlotsDiffer, NoFileIsNoFile DEF TypeOK, OwnerInv
<1>s. ASSUME NEW p \in Procs, Save(p) \/ WriteSlot(p) PROVE ArchKept /\ LiveOwned(tree')
  BY <1>s, <1>2, <1>3 DEF Save, WriteSlot, TypeOK, BuffersFilled
<1>n. ASSUME NEW p \in Procs, NEW outcome \in TornOutcomes, Tear(p, outcome)
      PROVE  ArchKept /\ LiveOwned(tree')
  <2>1. outcome # "empty"
    OBVIOUS
  <2>2. CASE run[p].step = "save"
    <3>1. run[p].next \in File /\ tree' = [tree EXCEPT ![run[p].at] = Torn(run[p].next, outcome)]
      BY <1>n, <2>2 DEF Tear, TypeOK, BuffersFilled
    <3>2. Torn(run[p].next, outcome) \in File /\ Torn(run[p].next, outcome).id = run[p].next.id
      BY <2>1, <3>1, TornKeepsOwner
    <3> QED BY <1>2, <2>2, <3>1, <3>2
  <2>3. CASE run[p].step = "write"
    <3>1. /\ run[p].held \in File
          /\ tree' = [tree EXCEPT ![Arch(run[p].cmd.id)] = Torn(run[p].held, outcome)]
      BY <1>n, <2>3 DEF Tear, TypeOK, BuffersFilled
    <3>2. Torn(run[p].held, outcome) \in File /\ Torn(run[p].held, outcome).id = run[p].held.id
      BY <2>1, <3>1, TornKeepsOwner
    <3> QED BY <1>3, <2>3, <3>1, <3>2
  <2> QED
    BY <1>n, <2>2, <2>3 DEF Tear
<1>4. ASSUME NEW p \in Procs, Remove(p) PROVE ArchKept /\ LiveOwned(tree')
  <2>1. run[p].cmd.id \in Tasks
    BY <1>4, <1>c DEF Remove, TypeOK, BuffersFilled
  <2>2. tree' = [tree EXCEPT ![Live(run[p].cmd.id)] = NoFile]
    BY <1>4 DEF Remove
  <2> QED
    BY <2>1, <2>2, SlotNames, SlotsDiffer DEF TypeOK, OwnerInv
<1>5. ASSUME NEW p \in Procs, NEW t \in Tasks, Rename(p, t) PROVE ArchKept /\ LiveOwned(tree')
  <2>1. Fileable(tree, t)
    BY <1>5 DEF Rename, OwnerInv, RunOwned
  <2>2. tree[Live(t)] # NoFile /\ tree[Live(t)].id = t
    BY <1>5 DEF Rename, OwnerInv
  <2>3. tree' = [tree EXCEPT ![Arch(t)] = tree[Live(t)], ![Live(t)] = NoFile]
    BY <1>5 DEF Rename
  <2> QED
    BY <2>1, <2>2, <2>3, SlotNames, SlotsDiffer DEF TypeOK, OwnerInv
<1>6. ASSUME NEW t \in Tasks, NEW file \in File,
             Declares(tree, Live(t), t), file.id = t, tree' = [tree EXCEPT ![Live(t)] = file]
      PROVE  ArchKept /\ LiveOwned(tree')
  BY <1>6, SlotNames, SlotsDiffer DEF TypeOK, OwnerInv
<1>7. ASSUME NEW t \in Tasks, EditBody(t) PROVE ArchKept /\ LiveOwned(tree')
  <2> DEFINE file == [tree[Live(t)] EXCEPT !.body = edits + 1]
  <2>1. file \in File /\ file.id = t /\ Declares(tree, Live(t), t)
    BY <1>7, SlotNames DEF EditBody, MayEdit, Declares, TypeOK, File, Bodies
  <2>2. tree' = [tree EXCEPT ![Live(t)] = file]
    BY <1>7 DEF EditBody
  <2> HIDE DEF file
  <2> QED
    BY <1>6, <2>1, <2>2
<1>8. ASSUME NEW t \in Tasks, NEW status \in Statuses, EditStatus(t, status)
      PROVE  ArchKept /\ LiveOwned(tree')
  <2> DEFINE file == [tree[Live(t)] EXCEPT !.status = status]
  <2>1. file \in File /\ file.id = t /\ Declares(tree, Live(t), t)
    BY <1>8, SlotNames DEF EditStatus, MayEdit, Declares, TypeOK, File
  <2>2. tree' = [tree EXCEPT ![Live(t)] = file]
    BY <1>8 DEF EditStatus
  <2> HIDE DEF file
  <2> QED
    BY <1>6, <2>1, <2>2
<1>9. ASSUME NEW p \in Procs, Refuse(p) PROVE tree' = tree
  BY <1>9 DEF Refuse
<1>10. ASSUME NEW p \in Procs, AcceptCompletion(p) \/ AcceptSweep(p) PROVE tree' = tree
  BY <1>10 DEF AcceptCompletion, AcceptSweep
<1>11. ASSUME NEW p \in Procs, NEW n \in Names, Pass(p, n) \/ Read(p, n) PROVE tree' = tree
  BY <1>11 DEF Pass, Read
<1>12. ASSUME NEW p \in Procs, Start(p) \/ EndWalk(p) \/ Stop(p) PROVE tree' = tree
  BY <1>12 DEF Start, StartComplete, StartArchive, ArchiveClean, EndWalk, Stop
<1>13. ASSUME NEW p \in Procs, NEW t \in Tasks, RenameFails(p, t) PROVE tree' = tree
  BY <1>13 DEF RenameFails
<1>14. CASE UNCHANGED vars
  BY <1>1, <1>14 DEF vars
<1> QED
  BY <1>1, <1>s, <1>n, <1>4, <1>5, <1>7, <1>8, <1>9, <1>10, <1>11, <1>12, <1>13, <1>14
     DEF Next, Edit, Step, Fail

LEMMA NextOwner ==
  ASSUME TypeOK, OwnerInv, "empty" \notin TornOutcomes, [Next]_vars
  PROVE  OwnerInv'
<1>a. ArchKept /\ LiveOwned(tree')
  BY TreeStep
<1>c. ASSUME NEW p \in Procs, run[p].cmd # Archive PROVE run[p].cmd.id \in Tasks
  BY <1>c DEF TypeOK, Run, Commands, Complete
<1>f. ASSUME NEW p \in Procs, NEW r, run' = [run EXCEPT ![p] = r], RunOwned(r, tree')
      PROVE  OwnerInv'
  <2> SUFFICES ASSUME NEW q \in Procs, q # p PROVE RunOwned(run[q], tree')
    BY <1>a, <1>f DEF OwnerInv, TypeOK
  <2> QED
    BY <1>a, <1>c, OwnedFrame DEF OwnerInv, TypeOK
<1>i. ASSUME NEW p \in Procs, run' = [run EXCEPT ![p] = Idle] PROVE OwnerInv'
  <2>1. RunOwned(Idle, tree')
    BY DEF RunOwned, Idle
  <2> QED
    BY <1>i, <1>f, <2>1
<1>u. ASSUME run' = run PROVE OwnerInv'
  BY <1>a, <1>c, <1>u, OwnedFrame DEF OwnerInv, TypeOK
<1>1. ASSUME NEW p \in Procs, AcceptCompletion(p) PROVE OwnerInv'
  <2> DEFINE t == run[p].cmd.id
             held == Relinked(run[p].held, Live(t), {t})
             r == [run[p] EXCEPT !.step = "repair", !.todo = Names \ {Live(t)},
                                 !.resuming = tree[Arch(t)] # NoFile, !.held = held]
  <2>1. run' = [run EXCEPT ![p] = r] /\ tree' = tree
    BY <1>1 DEF AcceptCompletion
  <2>2. /\ run[p] \in Run /\ run[p].held \in File /\ t \in Tasks
        /\ run[p].held.id = t /\ run[p].moves = {t}
    BY <1>1, <1>c DEF AcceptCompletion, TypeOK, BuffersFilled, OwnerInv, RunOwned
  <2>3. held.id = t
    BY <2>2 DEF Relinked, File
  <2>4. Fileable(tree, t)
    BY <1>1, <2>2 DEF AcceptCompletion, SlotsTaken, Fileable
  <2> HIDE DEF held
  <2>5. /\ r.step = "repair" /\ r.cmd = run[p].cmd /\ r.moves = {t} /\ r.held = held
        /\ r.resuming = (tree[Arch(t)] # NoFile)
    BY <2>2 DEF Run
  <2> HIDE DEF r
  <2>6. RunOwned(r, tree)
    BY <2>3, <2>4, <2>5 DEF RunOwned, Fileable, Declares
  <2> QED
    BY <1>f, <2>1, <2>6
<1>2. ASSUME NEW p \in Procs, AcceptSweep(p) PROVE OwnerInv'
  <2> DEFINE r == [run[p] EXCEPT !.step = "repair", !.todo = Names]
  <2>1. run' = [run EXCEPT ![p] = r] /\ tree' = tree
    BY <1>2 DEF AcceptSweep
  <2>2. r.step = "repair" /\ r.cmd = Archive /\ r.moves = run[p].moves
    BY <1>2 DEF AcceptSweep, TypeOK, Run
  <2>3. \A t \in run[p].moves : tree[Arch(t)] = NoFile
    BY <1>2 DEF AcceptSweep, SlotsTaken
  <2> HIDE DEF r
  <2>4. RunOwned(r, tree)
    BY <2>2, <2>3 DEF RunOwned, Fileable
  <2> QED
    BY <1>f, <2>1, <2>4
<1>3. ASSUME NEW p \in Procs, NEW n \in Names, Pass(p, n) PROVE OwnerInv'
  <2> DEFINE r == [run[p] EXCEPT !.todo = run[p].todo \ {n}]
  <2>1. run' = [run EXCEPT ![p] = r] /\ tree' = tree /\ run[p].step = "repair"
    BY <1>3 DEF Pass
  <2>2. /\ r.step = "repair" /\ r.cmd = run[p].cmd /\ r.moves = run[p].moves
        /\ r.held = run[p].held /\ r.resuming = run[p].resuming
    BY <2>1 DEF TypeOK, Run
  <2> HIDE DEF r
  <2>3. RunOwned(r, tree)
    BY <2>1, <2>2 DEF RunOwned, OwnerInv
  <2> QED
    BY <1>f, <2>1, <2>3
<1>4. ASSUME NEW p \in Procs, NEW n \in Names, Read(p, n) PROVE OwnerInv'
  <2> DEFINE next == Repaired(tree, n, run[p].moves)
             r == [run[p] EXCEPT !.step = "save", !.todo = run[p].todo \ {n}, !.at = n, !.next = next]
  <2>1. /\ run' = [run EXCEPT ![p] = r] /\ tree' = tree
        /\ run[p].step = "repair" /\ tree[n] # NoFile
    BY <1>4 DEF Read
  <2>2. next.id = tree[n].id
    BY <2>1, RepairedKeeps DEF TypeOK, Trees
  <2> HIDE DEF next
  <2>3. /\ r.step = "save" /\ r.cmd = run[p].cmd /\ r.moves = run[p].moves
        /\ r.held = run[p].held /\ r.resuming = run[p].resuming
        /\ r.at = n /\ r.next = next
    BY <2>1 DEF TypeOK, Run
  <2> HIDE DEF r
  <2>4. RunOwned(r, tree)
    BY <2>1, <2>2, <2>3 DEF RunOwned, OwnerInv, LiveOwned
  <2> QED
    BY <1>f, <2>1, <2>4
<1>5. ASSUME NEW p \in Procs, Save(p) PROVE OwnerInv'
  <2> DEFINE r == [run[p] EXCEPT !.step = "repair", !.at = NoFile, !.next = NoFile]
  <2>1. run' = [run EXCEPT ![p] = r] /\ run[p].step = "save"
    BY <1>5 DEF Save
  <2>2. /\ r.step = "repair" /\ r.cmd = run[p].cmd /\ r.moves = run[p].moves
        /\ r.held = run[p].held /\ r.resuming = run[p].resuming
    BY <2>1 DEF TypeOK, Run
  <2>3. RunOwned(run[p], tree')
    BY <1>a, <1>c, OwnedFrame DEF OwnerInv, TypeOK
  <2> HIDE DEF r
  <2>4. RunOwned(r, tree')
    BY <2>1, <2>2, <2>3 DEF RunOwned
  <2> QED
    BY <1>f, <2>1, <2>4
<1>6. ASSUME NEW p \in Procs, EndWalk(p) PROVE OwnerInv'
  <2> DEFINE step == IF run[p].cmd = Archive THEN "rename"
                     ELSE IF run[p].resuming THEN "remove" ELSE "write"
             r == [run[p] EXCEPT !.step = step]
  <2>1. run' = [run EXCEPT ![p] = r] /\ tree' = tree /\ run[p].step = "repair"
    BY <1>6 DEF EndWalk
  <2>2. /\ step \in {"rename", "remove", "write"}
        /\ step = "remove" => run[p].resuming
    OBVIOUS
  <2> HIDE DEF step
  <2>3. /\ r.step = step /\ r.cmd = run[p].cmd /\ r.moves = run[p].moves
        /\ r.held = run[p].held /\ r.resuming = run[p].resuming
    BY DEF TypeOK, Run
  <2> HIDE DEF r
  <2>4. RunOwned(r, tree)
    BY <2>1, <2>2, <2>3 DEF RunOwned, OwnerInv
  <2> QED
    BY <1>f, <2>1, <2>4
<1>7. ASSUME NEW p \in Procs, NEW t \in Tasks, StartComplete(p, t) PROVE OwnerInv'
  <2> DEFINE held == completedTaskContent(tree[Live(t)])
             r == [Idle EXCEPT !.step = "slot", !.cmd = Complete(t), !.moves = {t}, !.held = held]
  <2>1. run' = [run EXCEPT ![p] = r] /\ tree' = tree
    BY <1>7 DEF StartComplete
  <2>2. held.id = t
    BY <1>7, SlotNames, CompletedKeeps DEF StartComplete, Declares, TypeOK
  <2> HIDE DEF held
  <2>3. /\ r.step = "slot" /\ r.cmd.id = t /\ r.moves = {t} /\ r.held = held
        /\ r.resuming = FALSE
    BY DEF Idle, Complete
  <2> HIDE DEF r
  <2>4. RunOwned(r, tree)
    BY <2>2, <2>3 DEF RunOwned
  <2> QED
    BY <1>f, <2>1, <2>4
<1>8. ASSUME NEW p \in Procs, WriteSlot(p) PROVE OwnerInv'
  <2> DEFINE t == run[p].cmd.id
             r == [run[p] EXCEPT !.step = "remove"]
  <2>1. /\ run' = [run EXCEPT ![p] = r] /\ run[p].step = "write"
        /\ tree' = [tree EXCEPT ![Arch(t)] = run[p].held]
    BY <1>8 DEF WriteSlot
  <2>2. run[p].cmd # Archive /\ t \in Tasks /\ run[p].held \in File /\ run[p].held.id = t
    BY <1>c, <2>1 DEF TypeOK, BuffersFilled, OwnerInv, RunOwned
  <2>3. Declares(tree', Arch(t), t)
    BY <2>1, <2>2, SlotNames, NoFileIsNoFile DEF Declares, TypeOK
  <2>4. /\ r.step = "remove" /\ r.cmd = run[p].cmd /\ r.moves = run[p].moves
        /\ r.held = run[p].held /\ r.resuming = run[p].resuming
    BY DEF TypeOK, Run
  <2>5. RunOwned(run[p], tree')
    BY <1>a, <1>c, OwnedFrame DEF OwnerInv, TypeOK
  <2> HIDE DEF r
  <2>6. RunOwned(r, tree')
    BY <2>1, <2>3, <2>4, <2>5 DEF RunOwned
  <2> QED
    BY <1>f, <2>1, <2>6
<1>9. ASSUME NEW p \in Procs, StartArchive(p) PROVE OwnerInv'
  <2> DEFINE r == [Idle EXCEPT !.step = "slot", !.cmd = Archive, !.moves = misfiledTasks(tree)]
  <2>1. run' = [run EXCEPT ![p] = r] /\ tree' = tree
    BY <1>9 DEF StartArchive
  <2>2. r.step = "slot" /\ r.cmd = Archive
    BY DEF Idle
  <2> HIDE DEF r
  <2>3. RunOwned(r, tree)
    BY <2>2 DEF RunOwned
  <2> QED
    BY <1>f, <2>1, <2>3
<1>10. ASSUME NEW p \in Procs, NEW t \in Tasks, Rename(p, t) PROVE OwnerInv'
  <2>1. CASE run[p].moves = {t}
    BY <1>10, <1>i, <2>1 DEF Rename, Finish
  <2>2. CASE run[p].moves # {t}
    <3> DEFINE r == [run[p] EXCEPT !.moves = run[p].moves \ {t}]
    <3>1. run' = [run EXCEPT ![p] = r] /\ run[p].step = "rename"
      BY <1>10, <2>2 DEF Rename
    <3>2. /\ r.step = "rename" /\ r.cmd = run[p].cmd /\ r.moves = run[p].moves \ {t}
          /\ r.held = run[p].held /\ r.resuming = run[p].resuming
      BY <3>1 DEF TypeOK, Run
    <3>3. RunOwned(run[p], tree')
      BY <1>a, <1>c, OwnedFrame DEF OwnerInv, TypeOK
    <3>4. run[p].cmd = Archive
      BY <1>10, <2>2, <3>1 DEF Rename, OwnerInv, RunOwned
    <3> HIDE DEF r
    <3>5. RunOwned(r, tree')
      BY <3>1, <3>2, <3>3, <3>4 DEF RunOwned
    <3> QED
      BY <1>f, <3>1, <3>5
  <2> QED
    BY <2>1, <2>2
<1>11. ASSUME NEW p \in Procs, Refuse(p) \/ Remove(p) \/ Fail(p) PROVE OwnerInv'
  BY <1>11, <1>i DEF Refuse, Remove, Fail, Stop, Tear, Finish, Abandon
<1>12. ASSUME NEW p \in Procs, NEW t \in Tasks, RenameFails(p, t) PROVE OwnerInv'
  BY <1>12, <1>i DEF RenameFails, Abandon
<1>13. ASSUME NEW p \in Procs, ArchiveClean(p) PROVE OwnerInv'
  BY <1>13, <1>u DEF ArchiveClean
<1>14. CASE Edit \/ UNCHANGED vars
  BY <1>14, <1>u DEF Edit, EditBody, EditStatus, vars
<1> QED
  BY <1>1, <1>2, <1>3, <1>4, <1>5, <1>6, <1>7, <1>8, <1>9, <1>10, <1>11, <1>12, <1>13, <1>14
     DEF Next, Start, Step

\* However many commands run at once and wherever they are stopped, none of them
\* takes over another task's archive slot: the check that a slot is free or one's
\* own, made before the repairs, is still good when the slot is written or renamed
\* over.  A write that is cut short after the frontmatter keeps the owner; only
\* one that leaves an empty file does not.
THEOREM OwnersKept ==
  ASSUME "empty" \notin TornOutcomes
  PROVE  Spec => SlotsKeepTheirOwner
<1>1. Init => TypeOK /\ OwnerInv
  BY InitTypeOK, InitOwner
<1>2. TypeOK /\ OwnerInv /\ [Next]_vars => (TypeOK /\ OwnerInv)'
  BY NextTypeOK, NextOwner
<1>3. TypeOK /\ OwnerInv /\ [Next]_vars =>
        [\A t \in Tasks :
           tree[Arch(t)] # NoFile =>
             tree'[Arch(t)] # NoFile /\ tree'[Arch(t)].id = tree[Arch(t)].id]_vars
  BY TreeStep DEF ArchKept
<1> QED
  BY <1>1, <1>2, <1>3, PTL DEF Spec, SlotsKeepTheirOwner

-----------------------------------------------------------------------------
(***************************************************************************)
(* No body is lost.  With no torn write and no edit, every copy of a task  *)
(* in a slot or in a process's memory is whole, and one copy is always in  *)
(* a slot: Remove is reached only with the archive slot holding the task,  *)
(* which OwnerInv keeps true until the removal.                            *)
(***************************************************************************)
TreeWhole(tr) ==
  \A t \in Tasks :
    /\ tr[Live(t)] # NoFile => tr[Live(t)].body = 0
    /\ Declares(tr, Arch(t), t) => tr[Arch(t)].body = 0
    /\ tr[Live(t)] # NoFile \/ Declares(tr, Arch(t), t)

RunWhole(r) ==
  /\ r.step = "save" =>
       \A t \in Tasks :
         /\ r.at = Live(t) => r.next.body = 0
         /\ r.at = Arch(t) /\ r.next.id = t => r.next.body = 0
  /\ r.step # "idle" /\ r.cmd # Archive => r.held.body = 0

BodyInv ==
  /\ saved = [t \in Tasks |-> 0]
  /\ TreeWhole(tree)
  /\ \A p \in Procs : RunWhole(run[p])

LEMMA InitBody == Init => BodyInv
<1> SUFFICES ASSUME Init PROVE BodyInv
  OBVIOUS
<1>1. PICK place \in [Tasks -> Placements] :
        tree = [name \in Names |-> InitialFile(place, name)]
  BY DEF Init
<1>2. ASSUME NEW t \in Tasks PROVE
        /\ tree[Live(t)] # NoFile => tree[Live(t)].body = 0
        /\ tree[Arch(t)] # NoFile => tree[Arch(t)].body = 0
        /\ tree[Live(t)] # NoFile \/ Declares(tree, Arch(t), t)
  <2>1. tree[Live(t)] = InitialFile(place, Live(t)) /\ tree[Arch(t)] = InitialFile(place, Arch(t))
    BY <1>1, SlotNames
  <2>2. InitialFile(place, Live(t)) = IF place[t] # "filed" THEN InitialTask(place, t) ELSE NoFile
    BY DEF InitialFile, Live
  <2>3. /\ InitialFile(place, Arch(t)) \in {InitialTask(place, t), Stranger, NoFile}
        /\ place[t] = "filed" => InitialFile(place, Arch(t)) = InitialTask(place, t)
    BY DEF InitialFile, Arch
  <2>4. InitialTask(place, t).body = 0 /\ InitialTask(place, t).id = t /\ Stranger.body = 0
    BY DEF InitialTask, Stranger
  <2>5. InitialTask(place, t) # NoFile
    BY InitialTaskType, NoFileIsNoFile
  <2> QED
    BY <2>1, <2>2, <2>3, <2>4, <2>5 DEF Declares
<1>3. \A p \in Procs : run[p].step = "idle"
  BY DEF Init, Idle
<1> QED
  BY <1>2, <1>3 DEF Init, BodyInv, TreeWhole, RunWhole, Declares

LEMMA NextBody ==
  ASSUME TypeOK, OwnerInv, BodyInv, TornOutcomes = {}, MaxEdits = 0, [Next]_vars
  PROVE  BodyInv'
<1>c. ASSUME NEW p \in Procs, run[p].cmd # Archive PROVE run[p].cmd.id \in Tasks
  BY <1>c DEF TypeOK, Run, Commands, Complete
<1>f. ASSUME NEW p \in Procs, NEW r, run' = [run EXCEPT ![p] = r], RunWhole(r),
             TreeWhole(tree'), saved' = saved
      PROVE  BodyInv'
  BY <1>f DEF BodyInv, TypeOK
<1>s. ASSUME NEW p \in Procs, NEW r, run' = [run EXCEPT ![p] = r],
             r.step \notin {"idle", "save"}, run[p].step # "idle",
             r.cmd = run[p].cmd, r.held = run[p].held,
             TreeWhole(tree'), saved' = saved
      PROVE  BodyInv'
  <2>1. RunWhole(r)
    BY <1>s DEF RunWhole, BodyInv
  <2> QED
    BY <1>f, <1>s, <2>1
<1>i. ASSUME NEW p \in Procs, run' = [run EXCEPT ![p] = Idle], TreeWhole(tree'), saved' = saved
      PROVE  BodyInv'
  <2>1. RunWhole(Idle)
    BY DEF RunWhole, Idle
  <2> QED
    BY <1>f, <1>i, <2>1
<1>1. ASSUME NEW p \in Procs, AcceptCompletion(p) PROVE BodyInv'
  <2> DEFINE t == run[p].cmd.id
             held == Relinked(run[p].held, Live(t), {t})
             r == [run[p] EXCEPT !.step = "repair", !.todo = Names \ {Live(t)},
                                 !.resuming = tree[Arch(t)] # NoFile, !.held = held]
  <2>1. run' = [run EXCEPT ![p] = r] /\ tree' = tree /\ saved' = saved
    BY <1>1 DEF AcceptCompletion
  <2>2. run[p] \in Run /\ run[p].held \in File /\ run[p].held.body = 0
    BY <1>1 DEF AcceptCompletion, TypeOK, BuffersFilled, BodyInv, RunWhole
  <2>3. held.body = 0
    BY <2>2 DEF Relinked, File
  <2> HIDE DEF held
  <2>4. r.step = "repair" /\ r.held = held
    BY <2>2 DEF Run
  <2> HIDE DEF r
  <2>5. RunWhole(r)
    BY <2>3, <2>4 DEF RunWhole
  <2> QED
    BY <1>f, <2>1, <2>5 DEF BodyInv
<1>2. ASSUME NEW p \in Procs, AcceptSweep(p) PROVE BodyInv'
  <2> DEFINE r == [run[p] EXCEPT !.step = "repair", !.todo = Names]
  <2>1. /\ run' = [run EXCEPT ![p] = r] /\ tree' = tree /\ saved' = saved
        /\ run[p].step = "slot"
    BY <1>2 DEF AcceptSweep
  <2>2. r.step = "repair" /\ r.cmd = run[p].cmd /\ r.held = run[p].held
    BY DEF TypeOK, Run
  <2> HIDE DEF r
  <2> QED
    BY <1>s, <2>1, <2>2 DEF BodyInv
<1>3. ASSUME NEW p \in Procs, NEW n \in Names, Pass(p, n) PROVE BodyInv'
  <2> DEFINE r == [run[p] EXCEPT !.todo = run[p].todo \ {n}]
  <2>1. /\ run' = [run EXCEPT ![p] = r] /\ tree' = tree /\ saved' = saved
        /\ run[p].step = "repair"
    BY <1>3 DEF Pass
  <2>2. r.step = "repair" /\ r.cmd = run[p].cmd /\ r.held = run[p].held
    BY <2>1 DEF TypeOK, Run
  <2> HIDE DEF r
  <2> QED
    BY <1>s, <2>1, <2>2 DEF BodyInv
<1>4. ASSUME NEW p \in Procs, NEW n \in Names, Read(p, n) PROVE BodyInv'
  <2> DEFINE next == Repaired(tree, n, run[p].moves)
             r == [run[p] EXCEPT !.step = "save", !.todo = run[p].todo \ {n}, !.at = n, !.next = next]
  <2>1. /\ run' = [run EXCEPT ![p] = r] /\ tree' = tree /\ saved' = saved
        /\ run[p].step = "repair" /\ tree[n] # NoFile
    BY <1>4 DEF Read
  <2>2. next.id = tree[n].id /\ next.body = tree[n].body
    BY <2>1, RepairedKeeps DEF TypeOK, Trees
  <2> HIDE DEF next
  <2>3. /\ r.step = "save" /\ r.cmd = run[p].cmd /\ r.held = run[p].held
        /\ r.at = n /\ r.next = next
    BY <2>1 DEF TypeOK, Run
  <2> HIDE DEF r
  <2>4. RunWhole(r)
    BY <2>1, <2>2, <2>3 DEF RunWhole, BodyInv, TreeWhole, Declares
  <2> QED
    BY <1>f, <2>1, <2>4 DEF BodyInv
<1>5. ASSUME NEW p \in Procs, Save(p) PROVE BodyInv'
  <2> DEFINE r == [run[p] EXCEPT !.step = "repair", !.at = NoFile, !.next = NoFile]
  <2>1. /\ run' = [run EXCEPT ![p] = r] /\ saved' = saved /\ run[p].step = "save"
        /\ tree' = [tree EXCEPT ![run[p].at] = run[p].next]
    BY <1>5 DEF Save
  <2>2. r.step = "repair" /\ r.cmd = run[p].cmd /\ r.held = run[p].held
    BY <2>1 DEF TypeOK, Run
  <2>3. run[p].at \in Names /\ run[p].next \in File
    BY <2>1 DEF TypeOK, BuffersFilled
  <2>4. TreeWhole(tree')
    BY <2>1, <2>3, SlotNames, SlotsDiffer, NoFileIsNoFile
       DEF TreeWhole, RunWhole, RunOwned, OwnerInv, BodyInv, Declares, TypeOK
  <2> HIDE DEF r
  <2> QED
    BY <1>s, <2>1, <2>2, <2>4
<1>6. ASSUME NEW p \in Procs, EndWalk(p) PROVE BodyInv'
  <2> DEFINE step == IF run[p].cmd = Archive THEN "rename"
                     ELSE IF run[p].resuming THEN "remove" ELSE "write"
             r == [run[p] EXCEPT !.step = step]
  <2>1. /\ run' = [run EXCEPT ![p] = r] /\ tree' = tree /\ saved' = saved
        /\ run[p].step = "repair"
    BY <1>6 DEF EndWalk
  <2>2. step \notin {"idle", "save"}
    OBVIOUS
  <2> HIDE DEF step
  <2>3. r.step = step /\ r.cmd = run[p].cmd /\ r.held = run[p].held
    BY DEF TypeOK, Run
  <2> HIDE DEF r
  <2> QED
    BY <1>s, <2>1, <2>2, <2>3 DEF BodyInv
<1>7. ASSUME NEW p \in Procs, NEW t \in Tasks, StartComplete(p, t) PROVE BodyInv'
  <2> DEFINE held == completedTaskContent(tree[Live(t)])
             r == [Idle EXCEPT !.step = "slot", !.cmd = Complete(t), !.moves = {t}, !.held = held]
  <2>1. /\ run' = [run EXCEPT ![p] = r] /\ tree' = tree /\ saved' = saved
        /\ tree[Live(t)] # NoFile
    BY <1>7 DEF StartComplete, Declares
  <2>2. held.body = 0
    BY <2>1, SlotNames, CompletedKeeps DEF TypeOK, BodyInv, TreeWhole
  <2> HIDE DEF held
  <2>3. r.step = "slot" /\ r.held = held
    BY DEF Idle
  <2> HIDE DEF r
  <2>4. RunWhole(r)
    BY <2>2, <2>3 DEF RunWhole
  <2> QED
    BY <1>f, <2>1, <2>4 DEF BodyInv
<1>8. ASSUME NEW p \in Procs, WriteSlot(p) PROVE BodyInv'
  <2> DEFINE t == run[p].cmd.id
             r == [run[p] EXCEPT !.step = "remove"]
  <2>1. /\ run' = [run EXCEPT ![p] = r] /\ saved' = saved /\ run[p].step = "write"
        /\ tree' = [tree EXCEPT ![Arch(t)] = run[p].held]
    BY <1>8 DEF WriteSlot
  <2>2. /\ t \in Tasks /\ run[p].held \in File
        /\ run[p].held.id = t /\ run[p].held.body = 0
    BY <1>c, <2>1 DEF TypeOK, BuffersFilled, OwnerInv, RunOwned, BodyInv, RunWhole
  <2>3. TreeWhole(tree')
    BY <2>1, <2>2, SlotNames, SlotsDiffer, NoFileIsNoFile
       DEF TreeWhole, BodyInv, Declares, TypeOK
  <2>4. r.step = "remove" /\ r.cmd = run[p].cmd /\ r.held = run[p].held
    BY DEF TypeOK, Run
  <2> HIDE DEF r
  <2> QED
    BY <1>s, <2>1, <2>3, <2>4
<1>9. ASSUME NEW p \in Procs, Remove(p) PROVE BodyInv'
  <2> DEFINE t == run[p].cmd.id
  <2>1. /\ run' = [run EXCEPT ![p] = Idle] /\ saved' = saved /\ run[p].step = "remove"
        /\ tree' = [tree EXCEPT ![Live(t)] = NoFile]
    BY <1>9 DEF Remove, Finish, Abandon
  <2>2. t \in Tasks /\ Declares(tree, Arch(t), t)
    BY <1>c, <2>1 DEF TypeOK, BuffersFilled, OwnerInv, RunOwned
  <2>3. TreeWhole(tree')
    BY <2>1, <2>2, SlotNames, SlotsDiffer DEF TreeWhole, BodyInv, Declares, TypeOK
  <2> QED
    BY <1>i, <2>1, <2>3
<1>10. ASSUME NEW p \in Procs, StartArchive(p) PROVE BodyInv'
  <2> DEFINE r == [Idle EXCEPT !.step = "slot", !.cmd = Archive, !.moves = misfiledTasks(tree)]
  <2>1. run' = [run EXCEPT ![p] = r] /\ tree' = tree /\ saved' = saved
    BY <1>10 DEF StartArchive
  <2>2. RunWhole(r)
    BY DEF RunWhole, Idle
  <2> HIDE DEF r
  <2> QED
    BY <1>f, <2>1, <2>2 DEF BodyInv
<1>11. ASSUME NEW p \in Procs, NEW t \in Tasks, Rename(p, t) PROVE BodyInv'
  <2>1. /\ tree' = [tree EXCEPT ![Arch(t)] = tree[Live(t)], ![Live(t)] = NoFile]
        /\ saved' = saved /\ tree[Live(t)] # NoFile /\ run[p].step = "rename"
    BY <1>11 DEF Rename
  <2>2. tree[Live(t)].id = t /\ tree[Live(t)].body = 0
    BY <2>1 DEF OwnerInv, LiveOwned, BodyInv, TreeWhole
  <2>3. TreeWhole(tree')
    BY <2>1, <2>2, SlotNames, SlotsDiffer DEF TreeWhole, BodyInv, Declares, TypeOK
  <2>4. CASE run[p].moves = {t}
    BY <1>11, <1>i, <2>1, <2>3, <2>4 DEF Rename, Finish
  <2>5. CASE run[p].moves # {t}
    <3> DEFINE r == [run[p] EXCEPT !.moves = run[p].moves \ {t}]
    <3>1. run' = [run EXCEPT ![p] = r]
      BY <1>11, <2>5 DEF Rename
    <3>2. r.step = "rename" /\ r.cmd = run[p].cmd /\ r.held = run[p].held
      BY <2>1 DEF TypeOK, Run
    <3> HIDE DEF r
    <3> QED
      BY <1>s, <2>1, <2>3, <3>1, <3>2
  <2> QED
    BY <2>4, <2>5
<1>12. ASSUME NEW p \in Procs, Refuse(p) \/ Stop(p) PROVE BodyInv'
  BY <1>12, <1>i DEF Refuse, Stop, Abandon, BodyInv
<1>13. ASSUME NEW p \in Procs, NEW t \in Tasks, RenameFails(p, t) PROVE BodyInv'
  BY <1>13, <1>i DEF RenameFails, Abandon, BodyInv
<1>14. ASSUME NEW p \in Procs, ArchiveClean(p) PROVE BodyInv'
  BY <1>14 DEF ArchiveClean, BodyInv
<1>15. CASE Edit
  BY <1>15 DEF Edit, EditBody, EditStatus, MayEdit, TypeOK
<1>16. CASE UNCHANGED vars
  BY <1>16 DEF vars, BodyInv
<1> QED
  BY <1>1, <1>2, <1>3, <1>4, <1>5, <1>6, <1>7, <1>8, <1>9, <1>10, <1>11, <1>12, <1>13, <1>14,
     <1>15, <1>16 DEF Next, Start, Step, Fail

\* However many commands run at once, and wherever each is stopped between two
\* steps, every task's body stays whole in one of its two slots.
THEOREM BodiesSurvive ==
  ASSUME TornOutcomes = {}, MaxEdits = 0
  PROVE  Spec => []BodySurvives
<1>1. Init => TypeOK /\ OwnerInv /\ BodyInv
  BY InitTypeOK, InitOwner, InitBody
<1>2. TypeOK /\ OwnerInv /\ BodyInv /\ [Next]_vars => (TypeOK /\ OwnerInv /\ BodyInv)'
  BY NextTypeOK, NextOwner, NextBody
<1>3. OwnerInv /\ BodyInv => BodySurvives
  BY DEF OwnerInv, LiveOwned, BodyInv, TreeWhole, BodySurvives, Declares
<1> QED
  BY <1>1, <1>2, <1>3, PTL DEF Spec

-----------------------------------------------------------------------------
(***************************************************************************)
(* What is filed is finished, torn writes and edits included.  Every text  *)
(* that is in a slot, or that a process is about to put there, came from   *)
(* a text of that slot with the same id and status.  Nobody edits while a  *)
(* command runs, so the texts of one live task agree on their status, and  *)
(* a sweep that found it finished finds it finished when it renames.       *)
(***************************************************************************)
SavedAt(name) == {run[p].next : p \in {q \in Procs : run[q].step = "save" /\ run[q].at = name}}

LiveTexts(t) == {tree[Live(t)]} \cup SavedAt(Live(t))

Completing(t) ==
  {p \in Procs : run[p].step # "idle" /\ run[p].cmd # Archive /\ run[p].cmd.id = t}

ArchTexts(t) ==
  {tree[Arch(t)]} \cup SavedAt(Arch(t)) \cup {run[p].held : p \in Completing(t)}

Own(t, texts) == {file \in texts \ {NoFile} : file.id = t}

Sweeping(t) ==
  \E p \in Procs : run[p].step # "idle" /\ run[p].cmd = Archive /\ t \in run[p].moves

FinishedOf(t) ==
  /\ \A file \in LiveTexts(t) \ {NoFile} : file.id = t \/ file.status = "open"
  /\ \A file, other \in Own(t, LiveTexts(t)) : file.status = other.status
  /\ Sweeping(t) => \A file \in Own(t, LiveTexts(t)) : file.status \in finishedTaskStatuses
  /\ \A file \in Own(t, ArchTexts(t)) : file.status \in finishedTaskStatuses

FinishInv == \A t \in Tasks : FinishedOf(t)

\* The file is nobody's, or says what one of the texts says.
ComesFrom(file, texts) ==
  \/ file = NoFile
  \/ file.id \notin Tasks /\ file.status = "open"
  \/ \E source \in texts \ {NoFile} : file.id = source.id /\ file.status = source.status

\* A text for an archive slot may also be a completed or a renamed live file.
FiledFrom(file, t) ==
  \/ ComesFrom(file, ArchTexts(t))
  \/ file.status = "done"
  \/ file = tree[Live(t)] /\ Sweeping(t)

LEMMA InitFinish == Init => FinishInv
<1> SUFFICES ASSUME Init, NEW t \in Tasks PROVE FinishedOf(t)
  BY DEF FinishInv
<1>1. PICK place \in [Tasks -> Placements] :
        tree = [name \in Names |-> InitialFile(place, name)]
  BY DEF Init
<1>2. \A p \in Procs : run[p].step = "idle"
  BY DEF Init, Idle
<1>3. LiveTexts(t) = {tree[Live(t)]} /\ ArchTexts(t) = {tree[Arch(t)]} /\ ~Sweeping(t)
  BY <1>2 DEF LiveTexts, ArchTexts, SavedAt, Completing, Sweeping
<1>4. tree[Live(t)] \in {InitialTask(place, t), NoFile}
  BY <1>1, SlotNames DEF InitialFile, Live
<1>5. tree[Arch(t)] = InitialFile(place, Arch(t))
  BY <1>1, SlotNames
<1>6. InitialTask(place, t).id = t /\ Stranger.id = NoTask
  BY DEF InitialTask, Stranger
<1>7. tree[Arch(t)] \in {Stranger, NoFile}
      \/ tree[Arch(t)].status \in finishedTaskStatuses
  <2>1. CASE place[t] = "filed"
    <3>1. InitialTask(place, t).status = "done"
      BY <2>1 DEF InitialTask
    <3>2. InitialFile(place, Arch(t)) = InitialTask(place, t)
      BY <2>1 DEF InitialFile, Arch
    <3> QED BY <1>5, <3>1, <3>2 DEF finishedTaskStatuses
  <2>2. CASE place[t] # "filed"
    <3>1. InitialFile(place, Arch(t)) \in {Stranger, NoFile}
      BY <2>2 DEF InitialFile, Arch
    <3> QED BY <1>5, <3>1
  <2> QED BY <2>1, <2>2
<1>8. NoTask # t
  BY NoTaskIsNoTask
<1> QED
  BY <1>3, <1>4, <1>6, <1>7, <1>8 DEF FinishedOf, Own

\* What keeps the invariant: one process moves on to what it holds now, and
\* each text it writes or holds came from where such a text may come from.
LEMMA FinishUpdate ==
  ASSUME TypeOK, FinishInv, NEW p \in Procs, NEW r, run' = [run EXCEPT ![p] = r],
         NEW t \in Tasks,
         r.step = "save" => /\ r.at = Live(t) => ComesFrom(r.next, LiveTexts(t))
                            /\ r.at = Arch(t) => FiledFrom(r.next, t),
         r.step # "idle" /\ r.cmd # Archive /\ r.cmd.id = t => FiledFrom(r.held, t),
         r.step # "idle" /\ r.cmd = Archive /\ t \in r.moves => Sweeping(t) \/ t \in misfiledTasks(tree),
         ComesFrom(tree'[Live(t)], LiveTexts(t)),
         FiledFrom(tree'[Arch(t)], t)
  PROVE  FinishedOf(t)'
<1>0. FinishedOf(t)
  BY DEF FinishInv
<1>r. run'[p] = r /\ \A q \in Procs : q # p => run'[q] = run[q]
  BY DEF TypeOK
<1>1. \A file \in LiveTexts(t)' : ComesFrom(file, LiveTexts(t))
  <2>1. \A file \in LiveTexts(t) : ComesFrom(file, LiveTexts(t))
    BY DEF ComesFrom
  <2>2. ASSUME NEW file \in SavedAt(Live(t))' PROVE ComesFrom(file, LiveTexts(t))
    <3>1. PICK q \in Procs : run'[q].step = "save" /\ run'[q].at = Live(t) /\ file = run'[q].next
      BY <2>2 DEF SavedAt, Live
    <3>2. CASE q = p
      BY <1>r, <3>1, <3>2
    <3>3. CASE q # p
      <4>1. file \in LiveTexts(t)
        BY <1>r, <3>1, <3>3 DEF LiveTexts, SavedAt
      <4> QED BY <2>1, <4>1
    <3> QED BY <3>2, <3>3
  <2> QED BY <2>2 DEF LiveTexts, Live
<1>2. \A file \in ArchTexts(t)' : FiledFrom(file, t)
  <2>1. \A file \in ArchTexts(t) : FiledFrom(file, t)
    BY DEF FiledFrom, ComesFrom
  <2>2. ASSUME NEW file \in SavedAt(Arch(t))' PROVE FiledFrom(file, t)
    <3>1. PICK q \in Procs : run'[q].step = "save" /\ run'[q].at = Arch(t) /\ file = run'[q].next
      BY <2>2 DEF SavedAt, Arch
    <3>2. CASE q = p
      BY <1>r, <3>1, <3>2
    <3>3. CASE q # p
      <4>1. file \in ArchTexts(t)
        BY <1>r, <3>1, <3>3 DEF ArchTexts, SavedAt
      <4> QED BY <2>1, <4>1
    <3> QED BY <3>2, <3>3
  <2>3. ASSUME NEW q \in Completing(t)' PROVE FiledFrom(run'[q].held, t)
    <3>1. q \in Procs /\ run'[q].step # "idle" /\ run'[q].cmd # Archive /\ run'[q].cmd.id = t
      BY <2>3 DEF Completing, Archive
    <3>2. CASE q = p
      BY <1>r, <3>1, <3>2
    <3>3. CASE q # p
      <4>1. run'[q].held \in ArchTexts(t)
        BY <1>r, <3>1, <3>3 DEF ArchTexts, Completing
      <4> QED BY <2>1, <4>1
    <3> QED BY <3>2, <3>3
  <2> QED BY <2>2, <2>3 DEF ArchTexts, Arch
<1>3. Sweeping(t)' => Sweeping(t) \/ t \in misfiledTasks(tree)
  <2> SUFFICES ASSUME NEW q \in Procs,
                      run'[q].step # "idle", run'[q].cmd = Archive, t \in run'[q].moves
               PROVE  Sweeping(t) \/ t \in misfiledTasks(tree)
    BY DEF Sweeping, Archive
  <2>1. CASE q = p
    BY <1>r, <2>1
  <2>2. CASE q # p
    BY <1>r, <2>2 DEF Sweeping
  <2> QED BY <2>1, <2>2
<1>4. \A file \in LiveTexts(t)' : file # NoFile /\ file.id = t =>
        \E source \in Own(t, LiveTexts(t)) : file.status = source.status
  BY <1>1 DEF ComesFrom, Own
<1>5. \A file \in LiveTexts(t)' : file # NoFile => file.id = t \/ file.status = "open"
  BY <1>0, <1>1 DEF ComesFrom, FinishedOf
<1>6. \A file, other \in LiveTexts(t)' :
        file # NoFile /\ other # NoFile /\ file.id = t /\ other.id = t => file.status = other.status
  BY <1>0, <1>4 DEF FinishedOf
<1>7. Sweeping(t) \/ t \in misfiledTasks(tree) =>
        \A file \in Own(t, LiveTexts(t)) : file.status \in finishedTaskStatuses
  <2>1. CASE t \in misfiledTasks(tree)
    <3>1. tree[Live(t)] \in LiveTexts(t) \ {NoFile} /\ tree[Live(t)].status \in {"done", "canceled"}
      BY <2>1 DEF misfiledTasks, LiveTexts, finishedTaskStatuses
    <3>2. tree[Live(t)] \in Own(t, LiveTexts(t))
      BY <1>0, <3>1 DEF FinishedOf, Own
    <3> QED BY <1>0, <3>1, <3>2 DEF FinishedOf, finishedTaskStatuses
  <2> QED BY <1>0, <2>1 DEF FinishedOf
<1>8. Sweeping(t)' => \A file \in LiveTexts(t)' :
        file # NoFile /\ file.id = t => file.status \in finishedTaskStatuses
  BY <1>3, <1>4, <1>7
<1>9. \A file \in ArchTexts(t)' : file # NoFile /\ file.id = t => file.status \in finishedTaskStatuses
  <2> SUFFICES ASSUME NEW file \in ArchTexts(t)', file # NoFile, file.id = t
               PROVE  file.status \in finishedTaskStatuses
    OBVIOUS
  <2>1. CASE ComesFrom(file, ArchTexts(t))
    BY <1>0, <2>1 DEF ComesFrom, FinishedOf, Own
  <2>2. CASE file.status = "done"
    BY <2>2 DEF finishedTaskStatuses
  <2>3. CASE file = tree[Live(t)] /\ Sweeping(t)
    BY <1>0, <2>3 DEF FinishedOf, Own, LiveTexts
  <2> QED BY <1>2, <2>1, <2>2, <2>3 DEF FiledFrom
<1> QED
  BY <1>5, <1>6, <1>8, <1>9 DEF FinishedOf, Own, finishedTaskStatuses

\* What is in a slot, held or about to be saved comes from itself.
LEMMA TextsComeFromThemselves ==
  ASSUME NEW t \in Tasks
  PROVE  /\ ComesFrom(tree[Live(t)], LiveTexts(t))
         /\ FiledFrom(tree[Arch(t)], t)
         /\ \A p \in Procs : run[p].step = "save" =>
              /\ run[p].at = Live(t) => ComesFrom(run[p].next, LiveTexts(t))
              /\ run[p].at = Arch(t) => FiledFrom(run[p].next, t)
         /\ \A p \in Completing(t) : FiledFrom(run[p].held, t)
<1>1. \A file \in LiveTexts(t) : ComesFrom(file, LiveTexts(t))
  BY DEF ComesFrom
<1>2. \A file \in ArchTexts(t) : FiledFrom(file, t)
  BY DEF FiledFrom, ComesFrom
<1> QED
  BY <1>1, <1>2 DEF LiveTexts, ArchTexts, SavedAt

\* A file that says the same as another comes from where that one does.
LEMMA SameComesFrom ==
  ASSUME NEW t \in Tasks, NEW file, NEW other, other # NoFile,
         file.id = other.id, file.status = other.status
  PROVE  /\ \A texts : ComesFrom(other, texts) => ComesFrom(file, texts)
         /\ ComesFrom(other, ArchTexts(t)) \/ other.status = "done" => FiledFrom(file, t)
BY DEF ComesFrom, FiledFrom

\* What a torn write leaves comes from where its content does.
LEMMA TornComesFrom ==
  ASSUME NEW file \in File, NEW outcome
  PROVE  \/ Torn(file, outcome).id \notin Tasks /\ Torn(file, outcome).status = "open"
         \/ Torn(file, outcome).id = file.id /\ Torn(file, outcome).status = file.status
BY NoTaskIsNoTask DEF Torn, File

\* A process moves on without a new text: it reads nothing, writes nothing.
LEMMA FinishFrame ==
  ASSUME TypeOK, FinishInv, NEW p \in Procs, NEW r, run' = [run EXCEPT ![p] = r], tree' = tree,
         r.step # "save",
         r.step # "idle" => /\ run[p].step # "idle" /\ r.cmd = run[p].cmd
                            /\ r.moves \subseteq run[p].moves
                            /\ r.cmd # Archive => r.held.id = run[p].held.id
                                                 /\ r.held.status = run[p].held.status
  PROVE  FinishInv'
<1> SUFFICES ASSUME NEW t \in Tasks PROVE FinishedOf(t)'
  BY DEF FinishInv
<1>1. ComesFrom(tree'[Live(t)], LiveTexts(t)) /\ FiledFrom(tree'[Arch(t)], t)
  BY TextsComeFromThemselves
<1>2. ASSUME r.step # "idle", r.cmd # Archive, r.cmd.id = t PROVE FiledFrom(r.held, t)
  <2>1. run[p].held \in ArchTexts(t) \ {NoFile}
    BY <1>2, NoFileIsNoFile DEF ArchTexts, Completing, TypeOK, BuffersFilled
  <2> QED BY <1>2, <2>1 DEF FiledFrom, ComesFrom
<1>3. r.step # "idle" /\ r.cmd = Archive /\ t \in r.moves => Sweeping(t)
  BY DEF Sweeping
<1> QED BY <1>1, <1>2, <1>3, FinishUpdate

\* Only a sweep renames.
RenamesSweep == \A p \in Procs : run[p].step = "rename" => run[p].cmd = Archive

LEMMA NextRenames == TypeOK /\ RenamesSweep /\ [Next]_vars => RenamesSweep'
<1> SUFFICES ASSUME TypeOK, RenamesSweep, [Next]_vars PROVE RenamesSweep'
  OBVIOUS
<1>f. ASSUME NEW p \in Procs, NEW r, run' = [run EXCEPT ![p] = r],
             r.step = "rename" => r.cmd = Archive
      PROVE  RenamesSweep'
  BY <1>f DEF RenamesSweep, TypeOK, Archive
<1>i. Idle.step # "rename"
  BY DEF Idle
<1>r. \A p \in Procs : run[p] \in Run
  BY DEF TypeOK
<1>0. CASE UNCHANGED run
  BY <1>0 DEF RenamesSweep, Archive
<1>1. ASSUME NEW p \in Procs, run' = [run EXCEPT ![p] = Idle] PROVE RenamesSweep'
  BY <1>1, <1>f, <1>i
<1>2. ASSUME NEW p \in Procs, Refuse(p) \/ Remove(p) \/ Fail(p) PROVE RenamesSweep'
  BY <1>1, <1>2 DEF Refuse, Remove, Fail, Stop, Tear, Finish, Abandon
<1>3. ASSUME NEW p \in Procs, Start(p) PROVE RenamesSweep'
  <2>1. ASSUME NEW r, r.step # "rename", run' = [run EXCEPT ![p] = r] PROVE RenamesSweep'
    BY <1>f, <2>1
  <2>2. CASE StartArchive(p)
    BY <2>1, <2>2 DEF StartArchive, Idle
  <2>3. ASSUME NEW t \in Tasks, StartComplete(p, t) PROVE RenamesSweep'
    BY <2>1, <2>3 DEF StartComplete, Idle
  <2>4. CASE ArchiveClean(p)
    BY <1>0, <2>4 DEF ArchiveClean
  <2> QED BY <1>3, <2>2, <2>3, <2>4 DEF Start
<1>4. ASSUME NEW p \in Procs, AcceptCompletion(p) \/ AcceptSweep(p) \/ Save(p) PROVE RenamesSweep'
  <2>1. ASSUME NEW r, r.step # "rename", run' = [run EXCEPT ![p] = r] PROVE RenamesSweep'
    BY <1>f, <2>1
  <2>2. CASE AcceptCompletion(p)
    BY <1>r, <2>1, <2>2 DEF AcceptCompletion, Run
  <2>3. CASE AcceptSweep(p)
    BY <1>r, <2>1, <2>3 DEF AcceptSweep, Run
  <2>4. CASE Save(p)
    BY <1>r, <2>1, <2>4 DEF Save, Run
  <2> QED BY <1>4, <2>2, <2>3, <2>4
<1>5. ASSUME NEW p \in Procs, NEW n \in Names, Pass(p, n) \/ Read(p, n) PROVE RenamesSweep'
  BY <1>5, <1>f, <1>r DEF Pass, Read, Run
<1>6. ASSUME NEW p \in Procs, EndWalk(p) \/ WriteSlot(p) PROVE RenamesSweep'
  BY <1>6, <1>f, <1>r DEF EndWalk, WriteSlot, Run
<1>7. ASSUME NEW p \in Procs, NEW t \in Tasks, Rename(p, t) \/ RenameFails(p, t) PROVE RenamesSweep'
  BY <1>7, <1>1, <1>f, <1>r DEF Rename, RenameFails, Finish, Abandon, Run, RenamesSweep
<1>8. CASE Edit \/ UNCHANGED vars
  BY <1>0, <1>8 DEF Edit, EditBody, EditStatus, vars
<1> QED
  BY <1>2, <1>3, <1>4, <1>5, <1>6, <1>7, <1>8 DEF Next, Step

LEMMA NextFinish == TypeOK /\ RenamesSweep /\ FinishInv /\ [Next]_vars => FinishInv'
<1> SUFFICES ASSUME TypeOK, RenamesSweep, FinishInv, [Next]_vars PROVE FinishInv'
  OBVIOUS
<1>t. tree \in Trees
  BY DEF Trees, TypeOK
<1>c. ASSUME NEW p \in Procs, run[p].cmd # Archive PROVE run[p].cmd.id \in Tasks
  BY <1>c DEF TypeOK, Run, Commands, Complete
<1>i. Idle.step = "idle"
  BY DEF Idle
<1>0. ASSUME tree' = tree, run' = run PROVE FinishInv'
  <2> SUFFICES ASSUME NEW t \in Tasks PROVE FinishedOf(t)'
    BY DEF FinishInv
  <2>1. LiveTexts(t)' = LiveTexts(t)
    BY <1>0 DEF LiveTexts, SavedAt, Live
  <2>2. ArchTexts(t)' = ArchTexts(t)
    BY <1>0 DEF ArchTexts, SavedAt, Completing, Arch, Archive
  <2>3. Sweeping(t)' <=> Sweeping(t)
    BY <1>0 DEF Sweeping, Archive
  <2>4. FinishedOf(t)
    BY DEF FinishInv
  <2> QED BY <2>1, <2>2, <2>3, <2>4 DEF FinishedOf, Own, finishedTaskStatuses
<1>1. ASSUME NEW p \in Procs, Refuse(p) PROVE FinishInv'
  BY <1>1, <1>i, FinishFrame DEF Refuse
<1>2. ASSUME NEW p \in Procs, AcceptCompletion(p) PROVE FinishInv'
  <2> DEFINE t == run[p].cmd.id
             kept == Relinked(run[p].held, Live(t), {t})
             r == [run[p] EXCEPT !.step = "repair", !.todo = Names \ {Live(t)},
                                 !.resuming = tree[Arch(t)] # NoFile, !.held = kept]
  <2>1. run[p] \in Run /\ run[p].held \in File /\ run[p].step = "slot"
    BY <1>2 DEF AcceptCompletion, TypeOK, BuffersFilled
  <2>2. kept.id = run[p].held.id /\ kept.status = run[p].held.status
    BY <2>1 DEF Relinked, File
  <2> HIDE DEF kept
  <2>3. r.step = "repair" /\ r.cmd = run[p].cmd /\ r.moves = run[p].moves /\ r.held = kept
    BY <2>1 DEF Run
  <2>4. run' = [run EXCEPT ![p] = r] /\ tree' = tree
    BY <1>2 DEF AcceptCompletion, kept
  <2> HIDE DEF r
  <2> QED BY <2>1, <2>2, <2>3, <2>4, FinishFrame
<1>3. ASSUME NEW p \in Procs, NEW r, r \in {[run[p] EXCEPT !.step = "repair", !.todo = Names]}
                 \cup {[run[p] EXCEPT !.todo = run[p].todo \ {n}] : n \in Names}
                 \cup {[run[p] EXCEPT !.step = step] : step \in {"rename", "remove", "write"}},
             run[p].step \in {"slot", "repair"}, run' = [run EXCEPT ![p] = r], tree' = tree
      PROVE  FinishInv'
  <2>1. run[p] \in Run
    BY DEF TypeOK
  <2>2. r.step \notin {"save", "idle"} /\ r.cmd = run[p].cmd /\ r.moves = run[p].moves
        /\ r.held = run[p].held
    BY <1>3, <2>1 DEF Run
  <2> QED BY <1>3, <2>2, FinishFrame
<1>4. ASSUME NEW p \in Procs, AcceptSweep(p) PROVE FinishInv'
  BY <1>4, <1>3 DEF AcceptSweep
<1>5. ASSUME NEW p \in Procs, NEW n \in Names, Pass(p, n) PROVE FinishInv'
  BY <1>5, <1>3 DEF Pass
<1>6. ASSUME NEW p \in Procs, EndWalk(p) PROVE FinishInv'
  BY <1>6, <1>3 DEF EndWalk
<1>7. ASSUME NEW p \in Procs, NEW n \in Names, Read(p, n) PROVE FinishInv'
  <2> DEFINE next == Repaired(tree, n, run[p].moves)
             r == [run[p] EXCEPT !.step = "save", !.todo = run[p].todo \ {n}, !.at = n, !.next = next]
  <2>1. run[p] \in Run /\ run[p].step = "repair" /\ tree[n] # NoFile
    BY <1>7 DEF Read, TypeOK
  <2>2. next.id = tree[n].id /\ next.status = tree[n].status
    BY <1>t, <2>1, RepairedKeeps
  <2>3. run' = [run EXCEPT ![p] = r] /\ tree' = tree
    BY <1>7 DEF Read
  <2> HIDE DEF next
  <2>4. /\ r.step = "save" /\ r.at = n /\ r.next = next
        /\ r.cmd = run[p].cmd /\ r.moves = run[p].moves /\ r.held = run[p].held
    BY <2>1 DEF Run
  <2> HIDE DEF r
  <2> SUFFICES ASSUME NEW t \in Tasks PROVE FinishedOf(t)'
    BY DEF FinishInv
  <2>5. n = Live(t) => ComesFrom(next, LiveTexts(t))
    BY <2>1, <2>2 DEF ComesFrom, LiveTexts
  <2>6. n = Arch(t) => FiledFrom(next, t)
    BY <2>1, <2>2 DEF FiledFrom, ComesFrom, ArchTexts
  <2>7. r.cmd # Archive /\ r.cmd.id = t => FiledFrom(r.held, t)
    BY <2>1, <2>4, TextsComeFromThemselves DEF Completing
  <2>8. r.cmd = Archive /\ t \in r.moves => Sweeping(t)
    BY <2>1, <2>4 DEF Sweeping
  <2>9. ComesFrom(tree'[Live(t)], LiveTexts(t)) /\ FiledFrom(tree'[Arch(t)], t)
    BY <2>3, TextsComeFromThemselves
  <2> QED BY <2>3, <2>4, <2>5, <2>6, <2>7, <2>8, <2>9, FinishUpdate
\* The steps that end a run write no text that is not there already.
<1>8. ASSUME NEW p \in Procs, run' = [run EXCEPT ![p] = Idle], tree' = tree PROVE FinishInv'
  BY <1>8, <1>i, FinishFrame
<1>9. ASSUME NEW p \in Procs, Stop(p) PROVE FinishInv'
  BY <1>9, <1>8 DEF Stop, Abandon
<1>10. ASSUME NEW p \in Procs, NEW t \in Tasks, RenameFails(p, t) PROVE FinishInv'
  BY <1>10, <1>8 DEF RenameFails, Abandon
\* The steps that write one file.
<1>w. ASSUME NEW p \in Procs, NEW r, run' = [run EXCEPT ![p] = r], r.step # "save",
             r.step # "idle" => /\ run[p].step # "idle" /\ r.cmd = run[p].cmd
                                /\ r.moves \subseteq run[p].moves /\ r.held = run[p].held,
             \A t \in Tasks : /\ ComesFrom(tree'[Live(t)], LiveTexts(t))
                              /\ FiledFrom(tree'[Arch(t)], t)
      PROVE  FinishInv'
  <2> SUFFICES ASSUME NEW t \in Tasks PROVE FinishedOf(t)'
    BY DEF FinishInv
  <2>1. r.step # "idle" /\ r.cmd # Archive /\ r.cmd.id = t => FiledFrom(r.held, t)
    BY <1>w, TextsComeFromThemselves DEF Completing
  <2>2. r.step # "idle" /\ r.cmd = Archive /\ t \in r.moves => Sweeping(t)
    BY <1>w DEF Sweeping
  <2> QED BY <1>w, <2>1, <2>2, FinishUpdate
<1>x. ASSUME NEW p \in Procs, run[p].step = "save", NEW file,
             file = run[p].next
               \/ (file.id \notin Tasks /\ file.status = "open")
               \/ (file.id = run[p].next.id /\ file.status = run[p].next.status),
             tree' = [tree EXCEPT ![run[p].at] = file]
      PROVE  \A t \in Tasks : /\ ComesFrom(tree'[Live(t)], LiveTexts(t))
                              /\ FiledFrom(tree'[Arch(t)], t)
  <2> SUFFICES ASSUME NEW t \in Tasks
               PROVE  ComesFrom(tree'[Live(t)], LiveTexts(t)) /\ FiledFrom(tree'[Arch(t)], t)
    OBVIOUS
  <2>1. run[p].at \in Names /\ run[p].next \in File /\ run[p].next # NoFile
    BY <1>x, NoFileIsNoFile DEF TypeOK, BuffersFilled
  <2>2. run[p].at = Live(t) => ComesFrom(file, LiveTexts(t))
    BY <1>x, <2>1 DEF ComesFrom, LiveTexts, SavedAt
  <2>3. run[p].at = Arch(t) => FiledFrom(file, t)
    BY <1>x, <2>1 DEF FiledFrom, ComesFrom, ArchTexts, SavedAt
  <2>4. /\ tree'[Live(t)] = IF run[p].at = Live(t) THEN file ELSE tree[Live(t)]
        /\ tree'[Arch(t)] = IF run[p].at = Arch(t) THEN file ELSE tree[Arch(t)]
    BY <1>x, <2>1, SlotNames DEF TypeOK
  <2> QED BY <2>2, <2>3, <2>4, TextsComeFromThemselves
<1>y. ASSUME NEW p \in Procs, run[p].step # "idle", run[p].cmd # Archive, NEW file,
             file = run[p].held
               \/ (file.id \notin Tasks /\ file.status = "open")
               \/ (file.id = run[p].held.id /\ file.status = run[p].held.status),
             tree' = [tree EXCEPT ![Arch(run[p].cmd.id)] = file]
      PROVE  \A t \in Tasks : /\ ComesFrom(tree'[Live(t)], LiveTexts(t))
                              /\ FiledFrom(tree'[Arch(t)], t)
  <2> SUFFICES ASSUME NEW t \in Tasks
               PROVE  ComesFrom(tree'[Live(t)], LiveTexts(t)) /\ FiledFrom(tree'[Arch(t)], t)
    OBVIOUS
  <2>1. run[p].cmd.id \in Tasks /\ run[p].held \in File /\ run[p].held # NoFile
    BY <1>c, <1>y, NoFileIsNoFile DEF TypeOK, BuffersFilled
  <2>2. run[p].cmd.id = t => FiledFrom(file, t)
    BY <1>y, <2>1 DEF FiledFrom, ComesFrom, ArchTexts, Completing
  <2>3. /\ tree'[Live(t)] = tree[Live(t)]
        /\ tree'[Arch(t)] = IF run[p].cmd.id = t THEN file ELSE tree[Arch(t)]
    BY <1>y, <2>1, SlotNames, SlotsDiffer DEF TypeOK
  <2> QED BY <2>2, <2>3, TextsComeFromThemselves
<1>11. ASSUME NEW p \in Procs, Save(p) PROVE FinishInv'
  <2> DEFINE r == [run[p] EXCEPT !.step = "repair", !.at = NoFile, !.next = NoFile]
  <2>1. /\ run[p].step = "save" /\ run' = [run EXCEPT ![p] = r]
        /\ tree' = [tree EXCEPT ![run[p].at] = run[p].next]
    BY <1>11 DEF Save
  <2>2. r.step = "repair" /\ r.cmd = run[p].cmd /\ r.moves = run[p].moves /\ r.held = run[p].held
    BY DEF TypeOK, Run
  <2> HIDE DEF r
  <2> QED BY <2>1, <2>2, <1>w, <1>x
<1>12. ASSUME NEW p \in Procs, WriteSlot(p) PROVE FinishInv'
  <2> DEFINE r == [run[p] EXCEPT !.step = "remove"]
  <2>1. /\ run[p].step = "write" /\ run[p].cmd # Archive /\ run' = [run EXCEPT ![p] = r]
        /\ tree' = [tree EXCEPT ![Arch(run[p].cmd.id)] = run[p].held]
    BY <1>12 DEF WriteSlot, TypeOK, BuffersFilled
  <2>2. r.step = "remove" /\ r.cmd = run[p].cmd /\ r.moves = run[p].moves /\ r.held = run[p].held
    BY DEF TypeOK, Run
  <2> HIDE DEF r
  <2> QED BY <2>1, <2>2, <1>w, <1>y
<1>13. ASSUME NEW p \in Procs, NEW outcome, Tear(p, outcome) PROVE FinishInv'
  <2>1. run' = [run EXCEPT ![p] = Idle]
    BY <1>13 DEF Tear, Abandon
  <2>2. CASE run[p].step = "save"
    <3>1. tree' = [tree EXCEPT ![run[p].at] = Torn(run[p].next, outcome)]
      BY <1>13, <2>2 DEF Tear
    <3>2. run[p].next \in File
      BY <2>2 DEF TypeOK, BuffersFilled
    <3> QED BY <2>1, <2>2, <3>1, <3>2, <1>i, <1>w, <1>x, TornComesFrom
  <2>3. CASE run[p].step = "write"
    <3>1. tree' = [tree EXCEPT ![Arch(run[p].cmd.id)] = Torn(run[p].held, outcome)]
      BY <1>13, <2>3 DEF Tear
    <3>2. run[p].held \in File /\ run[p].cmd # Archive
      BY <2>3 DEF TypeOK, BuffersFilled
    <3> QED BY <2>1, <2>3, <3>1, <3>2, <1>i, <1>w, <1>y, TornComesFrom
  <2> QED BY <1>13, <2>2, <2>3 DEF Tear
<1>14. ASSUME NEW p \in Procs, Remove(p) PROVE FinishInv'
  <2>1. run[p].cmd.id \in Tasks
    BY <1>14, <1>c DEF Remove, TypeOK, BuffersFilled
  <2>2. run' = [run EXCEPT ![p] = Idle] /\ tree' = [tree EXCEPT ![Live(run[p].cmd.id)] = NoFile]
    BY <1>14 DEF Remove, Finish, Abandon
  <2>3. \A t \in Tasks : tree'[Arch(t)] = tree[Arch(t)] /\ tree'[Live(t)] \in {tree[Live(t)], NoFile}
    BY <2>1, <2>2, SlotNames, SlotsDiffer DEF TypeOK
  <2>4. \A t \in Tasks : ComesFrom(tree'[Live(t)], LiveTexts(t)) /\ FiledFrom(tree'[Arch(t)], t)
    BY <2>3, TextsComeFromThemselves DEF ComesFrom
  <2> QED BY <2>2, <2>4, <1>i, <1>w
<1>15. ASSUME NEW p \in Procs, NEW u \in Tasks, Rename(p, u) PROVE FinishInv'
  <2> DEFINE r == [run[p] EXCEPT !.moves = run[p].moves \ {u}]
  <2>1. /\ run[p].step = "rename" /\ u \in run[p].moves
        /\ tree' = [tree EXCEPT ![Arch(u)] = tree[Live(u)], ![Live(u)] = NoFile]
        /\ run' = [run EXCEPT ![p] = Idle] \/ run' = [run EXCEPT ![p] = r]
    BY <1>15 DEF Rename, Finish
  <2>2. /\ r.step = "rename" /\ r.cmd = run[p].cmd /\ r.moves \subseteq run[p].moves
        /\ r.held = run[p].held
    BY <2>1 DEF TypeOK, Run
  <2>3. \A t \in Tasks : /\ tree'[Live(t)] \in {tree[Live(t)], NoFile}
                         /\ tree'[Arch(t)] = tree[Arch(t)]
                              \/ (tree'[Arch(t)] = tree[Live(t)] /\ t = u)
    BY <2>1, SlotNames, SlotsDiffer DEF TypeOK
  <2>4. Sweeping(u)
    BY <2>1 DEF Sweeping, RenamesSweep
  <2>5. \A t \in Tasks : ComesFrom(tree'[Live(t)], LiveTexts(t)) /\ FiledFrom(tree'[Arch(t)], t)
    BY <2>3, <2>4, TextsComeFromThemselves DEF ComesFrom, FiledFrom
  <2> HIDE DEF r
  <2> QED BY <2>1, <2>2, <2>5, <1>i, <1>w
\* The steps that begin a run.
<1>16. ASSUME NEW p \in Procs, ArchiveClean(p) PROVE FinishInv'
  BY <1>0, <1>16 DEF ArchiveClean
<1>17. ASSUME NEW p \in Procs, StartArchive(p) PROVE FinishInv'
  <2> DEFINE r == [Idle EXCEPT !.step = "slot", !.cmd = Archive, !.moves = misfiledTasks(tree)]
  <2>1. r.step = "slot" /\ r.cmd = Archive /\ r.moves = misfiledTasks(tree)
    BY DEF Idle
  <2>2. run' = [run EXCEPT ![p] = r] /\ tree' = tree
    BY <1>17 DEF StartArchive
  <2> HIDE DEF r
  <2> SUFFICES ASSUME NEW t \in Tasks PROVE FinishedOf(t)'
    BY DEF FinishInv
  <2> QED BY <2>1, <2>2, FinishUpdate, TextsComeFromThemselves
<1>18. ASSUME NEW p \in Procs, NEW u \in Tasks, StartComplete(p, u) PROVE FinishInv'
  <2> DEFINE held == completedTaskContent(tree[Live(u)])
             r == [Idle EXCEPT !.step = "slot", !.cmd = Complete(u), !.moves = {u}, !.held = held]
  <2>1. tree[Live(u)] \in File
    BY <1>18, SlotNames DEF StartComplete, Declares, TypeOK
  <2>2. held.status = "done"
    BY <2>1, CompletedKeeps
  <2>3. r.step = "slot" /\ r.cmd = Complete(u) /\ r.cmd # Archive /\ r.held = held
    BY DEF Idle, Complete, Archive
  <2>4. run' = [run EXCEPT ![p] = r] /\ tree' = tree
    BY <1>18 DEF StartComplete
  <2> HIDE DEF r, held
  <2> SUFFICES ASSUME NEW t \in Tasks PROVE FinishedOf(t)'
    BY DEF FinishInv
  <2>5. FiledFrom(r.held, t)
    BY <2>2, <2>3 DEF FiledFrom
  <2> QED BY <2>3, <2>4, <2>5, FinishUpdate, TextsComeFromThemselves
\* The user saves while nothing runs: the only texts are those in the slots.
<1>e. ASSUME NEW u \in Tasks, NEW file \in File, Quiet, run' = run, file.id = u,
             tree' = [tree EXCEPT ![Live(u)] = file]
      PROVE  FinishInv'
  <2> SUFFICES ASSUME NEW t \in Tasks PROVE FinishedOf(t)'
    BY DEF FinishInv
  <2>1. /\ tree'[Arch(t)] = tree[Arch(t)]
        /\ tree'[Live(t)] = IF t = u THEN file ELSE tree[Live(t)]
    BY <1>e, SlotNames, SlotsDiffer DEF TypeOK
  <2>2. LiveTexts(t)' = {tree'[Live(t)]} /\ ~Sweeping(t)'
    BY <1>e DEF LiveTexts, SavedAt, Sweeping, Quiet, Live, Archive
  <2>3. ArchTexts(t)' = {tree[Arch(t)]} /\ tree[Arch(t)] \in ArchTexts(t)
    BY <1>e, <2>1 DEF ArchTexts, SavedAt, Completing, Quiet, Arch, Archive
  <2>4. tree[Live(t)] \in LiveTexts(t) /\ FinishedOf(t)
    BY DEF LiveTexts, FinishInv
  <2>5. \A f \in LiveTexts(t)' \ {NoFile} : f.id = t \/ f.status = "open"
    BY <1>e, <2>1, <2>2, <2>4 DEF FinishedOf
  <2>6. \A f \in ArchTexts(t)' : f # NoFile /\ f.id = t => f.status \in finishedTaskStatuses
    BY <2>3, <2>4 DEF FinishedOf, Own
  <2> QED BY <2>2, <2>5, <2>6 DEF FinishedOf, Own, finishedTaskStatuses
<1>19. ASSUME NEW t \in Tasks, EditBody(t) PROVE FinishInv'
  <2> DEFINE file == [tree[Live(t)] EXCEPT !.body = edits + 1]
  <2>1. file \in File /\ file.id = t
    BY <1>19, SlotNames DEF EditBody, MayEdit, Declares, TypeOK, File, Bodies
  <2>2. Quiet /\ run' = run /\ tree' = [tree EXCEPT ![Live(t)] = file]
    BY <1>19 DEF EditBody, MayEdit
  <2> HIDE DEF file
  <2> QED BY <1>e, <2>1, <2>2
<1>20. ASSUME NEW t \in Tasks, NEW status \in Statuses, EditStatus(t, status) PROVE FinishInv'
  <2> DEFINE file == [tree[Live(t)] EXCEPT !.status = status]
  <2>1. file \in File /\ file.id = t
    BY <1>20, SlotNames DEF EditStatus, MayEdit, Declares, TypeOK, File
  <2>2. Quiet /\ run' = run /\ tree' = [tree EXCEPT ![Live(t)] = file]
    BY <1>20 DEF EditStatus, MayEdit
  <2> HIDE DEF file
  <2> QED BY <1>e, <2>1, <2>2
<1>21. CASE UNCHANGED vars
  BY <1>0, <1>21 DEF vars
<1> QED
  BY <1>1, <1>2, <1>4, <1>5, <1>6, <1>7, <1>9, <1>10, <1>11, <1>12, <1>13, <1>14, <1>15,
     <1>16, <1>17, <1>18, <1>19, <1>20, <1>21
     DEF Next, Edit, Start, Step, Fail

\* However many commands run at once, and wherever they are stopped or torn, a
\* task that is in the archive is finished there: a sweep never files one that
\* was open when it renames it, and a repair never writes an old status back.
THEOREM FiledAreFinished == Spec => []FiledIsFinished
<1>1. Init => TypeOK /\ RenamesSweep /\ FinishInv
  <2>1. Init => RenamesSweep
    BY DEF Init, RenamesSweep, Idle
  <2> QED BY <2>1, InitTypeOK, InitFinish
<1>2. TypeOK /\ RenamesSweep /\ FinishInv /\ [Next]_vars => (TypeOK /\ RenamesSweep /\ FinishInv)'
  BY NextTypeOK, NextRenames, NextFinish
<1>3. FinishInv => FiledIsFinished
  BY DEF FinishInv, FinishedOf, Own, ArchTexts, FiledIsFinished, Declares
<1> QED
  BY <1>1, <1>2, <1>3, PTL DEF Spec

-----------------------------------------------------------------------------
(***************************************************************************)
(* The removals of any number of commands at once.  What a process knows   *)
(* when it removes or renames is about the archive slot, which no other    *)
(* process takes from it, and about the status, which nobody edits; about  *)
(* the live file it knows nothing any more.                                *)
(***************************************************************************)
ConcurrentInv == TypeOK /\ OwnerInv /\ BodyInv /\ RenamesSweep /\ FinishInv

\* Only a completion's removal and a sweep's rename empty a live slot.
LEMMA LiveTaken ==
  ASSUME TypeOK, [Next]_vars, NEW t \in Tasks, tree[Live(t)] # NoFile, tree'[Live(t)] = NoFile
  PROVE  \E p \in Procs : (Remove(p) /\ run[p].cmd.id = t) \/ Rename(p, t)
<1>c. ASSUME NEW p \in Procs, run[p].cmd # Archive PROVE run[p].cmd.id \in Tasks
  BY <1>c DEF TypeOK, Run, Commands, Complete
<1>0. tree' # tree
  OBVIOUS
<1>1. ASSUME NEW name \in Names, NEW file \in File, tree' = [tree EXCEPT ![name] = file] PROVE FALSE
  BY <1>1, SlotNames, NoFileIsNoFile DEF TypeOK
<1>2. ASSUME NEW p \in Procs, Save(p) \/ WriteSlot(p) \/ Fail(p) PROVE FALSE
  <2>1. CASE Save(p)
    BY <1>1, <2>1 DEF Save, TypeOK, BuffersFilled
  <2>2. CASE WriteSlot(p)
    BY <1>1, <1>c, <2>2, SlotNames DEF WriteSlot, TypeOK, BuffersFilled
  <2>3. CASE Stop(p)
    BY <1>0, <2>3 DEF Stop
  <2>4. ASSUME NEW outcome, Tear(p, outcome) PROVE FALSE
    <3>1. CASE run[p].step = "save"
      BY <1>1, <2>4, <3>1, TornType DEF Tear, TypeOK, BuffersFilled
    <3>2. CASE run[p].step = "write"
      BY <1>1, <1>c, <2>4, <3>2, SlotNames, TornType DEF Tear, TypeOK, BuffersFilled
    <3> QED BY <2>4, <3>1, <3>2 DEF Tear
  <2> QED BY <1>2, <2>1, <2>2, <2>3, <2>4 DEF Fail
<1>3. ASSUME NEW u \in Tasks, EditBody(u) PROVE FALSE
  <2>1. [tree[Live(u)] EXCEPT !.body = edits + 1] \in File
    BY <1>3, SlotNames, BoundsAreNat DEF EditBody, MayEdit, Declares, TypeOK, File, Bodies
  <2> QED BY <1>1, <1>3, <2>1, SlotNames DEF EditBody
<1>4. ASSUME NEW u \in Tasks, NEW status \in Statuses, EditStatus(u, status) PROVE FALSE
  <2>1. [tree[Live(u)] EXCEPT !.status = status] \in File
    BY <1>4, SlotNames DEF EditStatus, MayEdit, Declares, TypeOK, File
  <2> QED BY <1>1, <1>4, <2>1, SlotNames DEF EditStatus
<1>5. ASSUME NEW p \in Procs, Start(p) PROVE FALSE
  BY <1>0, <1>5 DEF Start, StartArchive, ArchiveClean, StartComplete
<1>6. ASSUME NEW p \in Procs,
             Refuse(p) \/ AcceptCompletion(p) \/ AcceptSweep(p) \/ EndWalk(p)
      PROVE  FALSE
  BY <1>0, <1>6 DEF Refuse, AcceptCompletion, AcceptSweep, EndWalk
<1>7. ASSUME NEW p \in Procs, NEW n \in Names, Pass(p, n) \/ Read(p, n) PROVE FALSE
  BY <1>0, <1>7 DEF Pass, Read
<1>8. ASSUME NEW p \in Procs, NEW u \in Tasks, RenameFails(p, u) PROVE FALSE
  BY <1>0, <1>8 DEF RenameFails
<1>9. ASSUME NEW p \in Procs, Remove(p) PROVE run[p].cmd.id = t
  BY <1>9, <1>c, SlotNames, SlotsDiffer DEF Remove, TypeOK, BuffersFilled
<1>10. ASSUME NEW p \in Procs, NEW u \in Tasks, Rename(p, u) PROVE u = t
  BY <1>10, SlotNames, SlotsDiffer DEF Rename, TypeOK
<1>11. CASE UNCHANGED vars
  BY <1>0, <1>11 DEF vars
<1> QED
  BY <1>2, <1>3, <1>4, <1>5, <1>6, <1>7, <1>8, <1>9, <1>10, <1>11 DEF Next, Edit, Step

\* However many commands interleave, and wherever they are stopped and in
\* whatever order they are rerun, a live file goes away only when its archive
\* slot holds its body, finished.
THEOREM ConcurrentRemovalsAreFiled ==
  ASSUME TornOutcomes = {}, MaxEdits = 0
  PROVE  Spec => RemovedOnlyOnceFiled
<1>1. Init => ConcurrentInv
  <2>1. Init => RenamesSweep
    BY DEF Init, RenamesSweep, Idle
  <2> QED BY <2>1, InitTypeOK, InitOwner, InitBody, InitFinish DEF ConcurrentInv
<1>2. ConcurrentInv /\ [Next]_vars => ConcurrentInv'
  BY NextTypeOK, NextOwner, NextBody, NextRenames, NextFinish DEF ConcurrentInv
<1>3. ConcurrentInv /\ [Next]_vars =>
        \A t \in Tasks : Declares(tree, Live(t), t) /\ tree'[Live(t)] = NoFile =>
          /\ Declares(tree', Arch(t), t)
          /\ tree'[Arch(t)].body = tree[Live(t)].body
          /\ tree'[Arch(t)].status \in finishedTaskStatuses
  <2> SUFFICES ASSUME ConcurrentInv, [Next]_vars,
                      NEW t \in Tasks, Declares(tree, Live(t), t), tree'[Live(t)] = NoFile
               PROVE  /\ Declares(tree', Arch(t), t)
                      /\ tree'[Arch(t)].body = tree[Live(t)].body
                      /\ tree'[Arch(t)].status \in finishedTaskStatuses
    OBVIOUS
  <2>0. BodyInv /\ BodyInv'
    BY NextBody DEF ConcurrentInv
  <2>b. Declares(tree', Arch(t), t) => tree'[Arch(t)].body = tree[Live(t)].body
    BY <2>0 DEF BodyInv, TreeWhole, Declares, Live, Arch
  <2>1. PICK p \in Procs :
          \/ Remove(p) /\ run[p].cmd.id = t
          \/ Rename(p, t)
    BY LiveTaken DEF ConcurrentInv, Declares
  <2>2. CASE Remove(p) /\ run[p].cmd.id = t
    <3>1. tree'[Arch(t)] = tree[Arch(t)]
      BY <2>2, SlotNames, SlotsDiffer DEF Remove, ConcurrentInv, TypeOK
    <3>2. Declares(tree, Arch(t), t)
      BY <2>2 DEF Remove, ConcurrentInv, TypeOK, BuffersFilled, OwnerInv, RunOwned
    <3>3. tree[Arch(t)].status \in finishedTaskStatuses
      BY <3>2 DEF ConcurrentInv, FinishInv, FinishedOf, Own, ArchTexts, Declares
    <3> QED BY <2>b, <3>1, <3>2, <3>3 DEF Declares
  <2>3. CASE Rename(p, t)
    <3>1. tree'[Arch(t)] = tree[Live(t)]
      BY <2>3, SlotNames, SlotsDiffer DEF Rename, ConcurrentInv, TypeOK
    <3>2. Sweeping(t)
      BY <2>3 DEF Rename, ConcurrentInv, RenamesSweep, Sweeping
    <3>3. tree[Live(t)].status \in finishedTaskStatuses
      BY <3>2 DEF ConcurrentInv, FinishInv, FinishedOf, Own, LiveTexts, Declares
    <3> QED BY <2>b, <3>1, <3>3 DEF Declares
  <2> QED BY <2>1, <2>2, <2>3
<1>4. ConcurrentInv /\ [Next]_vars =>
        [\A t \in Tasks :
           Declares(tree, Live(t), t) /\ tree'[Live(t)] = NoFile =>
             /\ Declares(tree', Arch(t), t)
             /\ tree'[Arch(t)].body = tree[Live(t)].body
             /\ tree'[Arch(t)].status \in finishedTaskStatuses]_vars
  BY <1>3
<1> QED
  BY <1>1, <1>2, <1>4, PTL DEF Spec, RemovedOnlyOnceFiled

-----------------------------------------------------------------------------
(***************************************************************************)
(* One command at a time, no torn write, and a user who finishes what was  *)
(* interrupted first: then the commands implement TaskBoard.  A task has a *)
(* file in both directories only while it is being completed, or between   *)
(* an interruption and the rerun; both then have the same body.            *)
(***************************************************************************)
OneProcess == \A p, q \in Procs : p = q

\* What a command has read is still so.
RunSolo(r, tr) ==
  /\ r.step # "idle" /\ r.cmd # Archive =>
       /\ tr[Live(r.cmd.id)] # NoFile
       /\ r.held.body = tr[Live(r.cmd.id)].body /\ r.held.status = "done"
       /\ r.step # "slot" => Live(r.cmd.id) \notin r.todo
       /\ r.step = "save" => r.at # Live(r.cmd.id)
  /\ r.step = "save" =>
       /\ tr[r.at] # NoFile
       /\ r.next.body = tr[r.at].body /\ r.next.status = tr[r.at].status

\* Whether t has a file in both directories.
Twofold(tr, t) == tr[Live(t)] # NoFile /\ Declares(tr, Arch(t), t)

Twins(tr, t) == tr[Arch(t)].body = tr[Live(t)].body /\ tr[Arch(t)].status = "done"

SoloInv ==
  /\ \A p \in Procs : RunSolo(run[p], tree)
  /\ \A t \in Tasks : tree[Live(t)] # NoFile => tree[Live(t)].body \in 0..edits
  /\ \A t \in Tasks : Twofold(tree, t) =>
       /\ Twins(tree, t)
       /\ \/ Complete(t) \in unfinished
          \/ \E p \in Procs : run[p].step # "idle" /\ run[p].cmd = Complete(t)

SoloAssumption == OneProcess /\ TornOutcomes = {} /\ RerunFirst = TRUE

\* One process at a time is all that moves.
LEMMA SoloUpdate ==
  ASSUME TypeOK, OneProcess, NEW p \in Procs, NEW r, run' = [run EXCEPT ![p] = r],
         RunSolo(r, tree'),
         \A t \in Tasks : tree'[Live(t)] # NoFile => tree'[Live(t)].body \in 0..edits',
         \A t \in Tasks : Twofold(tree', t) =>
           Twins(tree', t) /\ (Complete(t) \in unfinished' \/ (r.step # "idle" /\ r.cmd = Complete(t)))
  PROVE  SoloInv'
<1>1. run'[p] = r /\ \A q \in Procs : q = p
  BY DEF TypeOK, OneProcess
<1> QED
  BY <1>1 DEF SoloInv, RunSolo, Twofold, Twins, Declares, Live, Arch, Archive, Complete

\* A command goes on and changes no file.
LEMMA SoloGoesOn ==
  ASSUME TypeOK, OneProcess, SoloInv, NEW p \in Procs, NEW r, run' = [run EXCEPT ![p] = r],
         r.step # "idle", run[p].step = "idle" \/ r.cmd = run[p].cmd,
         RunSolo(r, tree), UNCHANGED <<tree, unfinished, edits>>
  PROVE  SoloInv'
<1>1. \A q \in Procs : q = p
  BY DEF OneProcess
<1>2. \A t \in Tasks : Twofold(tree, t) =>
        Twins(tree, t) /\ (Complete(t) \in unfinished \/ (r.step # "idle" /\ r.cmd = Complete(t)))
  BY <1>1 DEF SoloInv
<1>3. \A t \in Tasks : tree[Live(t)] # NoFile => tree[Live(t)].body \in 0..edits
  BY DEF SoloInv
<1> QED
  BY <1>2, <1>3, SoloUpdate

\* A command ends, interrupted, and changes no file.
LEMMA SoloEnds ==
  ASSUME TypeOK, OneProcess, SoloInv, NEW p \in Procs, run' = [run EXCEPT ![p] = Idle],
         UNCHANGED <<tree, edits>>, unfinished' = unfinished \cup {run[p].cmd}
  PROVE  SoloInv'
<1>1. \A q \in Procs : q = p
  BY DEF OneProcess
<1>2. \A t \in Tasks : Twofold(tree, t) => Twins(tree, t) /\ Complete(t) \in unfinished'
  BY <1>1 DEF SoloInv
<1>3. \A t \in Tasks : tree[Live(t)] # NoFile => tree[Live(t)].body \in 0..edits
  BY DEF SoloInv
<1>4. RunSolo(Idle, tree)
  BY DEF RunSolo, Idle
<1> QED
  BY <1>2, <1>3, <1>4, SoloUpdate

LEMMA InitSolo == Init => SoloInv
<1> SUFFICES ASSUME Init PROVE SoloInv
  OBVIOUS
<1>1. PICK place \in [Tasks -> Placements] :
        tree = [name \in Names |-> InitialFile(place, name)]
  BY DEF Init
<1>2. \A p \in Procs : RunSolo(run[p], tree)
  BY DEF Init, Idle, RunSolo
<1>3. ASSUME NEW t \in Tasks
      PROVE  /\ tree[Live(t)] # NoFile => tree[Live(t)].body = 0
             /\ ~Twofold(tree, t)
  <2>1. tree[Live(t)] = IF place[t] # "filed" THEN InitialTask(place, t) ELSE NoFile
    BY <1>1, SlotNames DEF InitialFile, Live
  <2>2. place[t] # "filed" => tree[Arch(t)] \in {Stranger, NoFile}
    BY <1>1, SlotNames DEF InitialFile, Arch
  <2>3. InitialTask(place, t).body = 0 /\ Stranger.id = NoTask /\ NoTask # t
    BY NoTaskIsNoTask DEF InitialTask, Stranger
  <2> QED
    BY <2>1, <2>2, <2>3 DEF Twofold, Declares
<1>4. 0 \in 0..edits
  BY DEF Init
<1> QED
  BY <1>2, <1>3, <1>4 DEF SoloInv

LEMMA NextSolo ==
  ASSUME SoloAssumption, TypeOK, OwnerInv, RenamesSweep, SoloInv, [Next]_vars
  PROVE  SoloInv'
<1>s. OneProcess /\ TornOutcomes = {} /\ RerunFirst = TRUE
  BY DEF SoloAssumption
<1>t. tree \in Trees /\ \A p \in Procs : run[p] \in Run
  BY DEF Trees, TypeOK
<1>c. ASSUME NEW p \in Procs, run[p].cmd # Archive
      PROVE  run[p].cmd.id \in Tasks /\ run[p].cmd = Complete(run[p].cmd.id)
  BY <1>c DEF TypeOK, Run, Commands, Complete
<1>p. ASSUME NEW p \in Procs PROVE RunSolo(run[p], tree) /\ \A q \in Procs : q = p
  BY <1>s DEF SoloInv, OneProcess
<1>b. \A t \in Tasks : tree[Live(t)] # NoFile => tree[Live(t)].body \in 0..edits
  BY DEF SoloInv
<1>w. ASSUME NEW t \in Tasks, Twofold(tree, t)
      PROVE  /\ Twins(tree, t)
             /\ \/ Complete(t) \in unfinished
                \/ \E p \in Procs : run[p].step # "idle" /\ run[p].cmd = Complete(t)
  BY <1>w DEF SoloInv
<1>i. RunSolo(Idle, tree') /\ Idle.step = "idle"
  BY DEF RunSolo, Idle
<1>0. CASE UNCHANGED <<tree, run, unfinished, edits>>
  BY <1>0 DEF SoloInv, RunSolo, Twofold, Twins, Declares, Live, Arch, Archive, Complete
<1>1. ASSUME NEW p \in Procs, Refuse(p) PROVE SoloInv'
  <2>1. /\ run[p].step = "slot" /\ SlotsTaken(p) /\ run' = [run EXCEPT ![p] = Idle]
        /\ UNCHANGED <<tree, unfinished, edits>>
    BY <1>1 DEF Refuse
  <2>2. ASSUME NEW t \in Tasks, Twofold(tree, t), run[p].cmd = Complete(t) PROVE FALSE
    <3>1. run[p].cmd # Archive /\ run[p].moves = {t}
      BY <2>1, <2>2 DEF OwnerInv, RunOwned, Complete, Archive
    <3> QED BY <2>1, <2>2, <3>1 DEF SlotsTaken, Twofold, Declares
  <2>3. \A t \in Tasks : Twofold(tree', t) => Twins(tree', t) /\ Complete(t) \in unfinished'
    BY <1>p, <1>w, <2>1, <2>2 DEF Twofold, Twins, Declares, Live, Arch
  <2>4. \A t \in Tasks : tree'[Live(t)] # NoFile => tree'[Live(t)].body \in 0..edits'
    BY <1>b, <2>1
  <2> QED BY <1>i, <1>s, <2>1, <2>3, <2>4, SoloUpdate
<1>2. ASSUME NEW p \in Procs, AcceptCompletion(p) PROVE SoloInv'
  <2> DEFINE t == run[p].cmd.id
             kept == Relinked(run[p].held, Live(t), {t})
             r == [run[p] EXCEPT !.step = "repair", !.todo = Names \ {Live(t)},
                                 !.resuming = tree[Arch(t)] # NoFile, !.held = kept]
  <2>1. run[p] \in Run /\ run[p].held \in File /\ run[p].step = "slot" /\ run[p].cmd # Archive
    BY <1>2 DEF AcceptCompletion, TypeOK, BuffersFilled
  <2>2. kept.body = run[p].held.body /\ kept.status = run[p].held.status
    BY <2>1 DEF Relinked, File
  <2> HIDE DEF kept
  <2>3. /\ r.step = "repair" /\ r.cmd = run[p].cmd /\ r.held = kept
        /\ r.todo = Names \ {Live(run[p].cmd.id)}
    BY <2>1 DEF Run
  <2>4. run' = [run EXCEPT ![p] = r] /\ UNCHANGED <<tree, unfinished, edits>>
    BY <1>2 DEF AcceptCompletion, kept
  <2> HIDE DEF r
  <2>5. RunSolo(r, tree)
    BY <1>p, <2>1, <2>2, <2>3 DEF RunSolo
  <2> QED BY <1>s, <2>3, <2>4, <2>5, SoloGoesOn
<1>3. ASSUME NEW p \in Procs, AcceptSweep(p) PROVE SoloInv'
  <2> DEFINE r == [run[p] EXCEPT !.step = "repair", !.todo = Names]
  <2>1. r.step = "repair" /\ r.cmd = run[p].cmd /\ r.cmd = Archive
    BY <1>3, <1>t DEF AcceptSweep, Run
  <2>2. run' = [run EXCEPT ![p] = r] /\ UNCHANGED <<tree, unfinished, edits>>
    BY <1>3 DEF AcceptSweep
  <2> HIDE DEF r
  <2> QED BY <1>s, <2>1, <2>2, SoloGoesOn DEF RunSolo
<1>4. ASSUME NEW p \in Procs, NEW n \in Names, Pass(p, n) PROVE SoloInv'
  <2> DEFINE r == [run[p] EXCEPT !.todo = run[p].todo \ {n}]
  <2>1. /\ run[p].step = "repair" /\ r.step = "repair" /\ r.cmd = run[p].cmd
        /\ r.held = run[p].held /\ r.todo = run[p].todo \ {n}
    BY <1>4, <1>t DEF Pass, Run
  <2>2. run' = [run EXCEPT ![p] = r] /\ UNCHANGED <<tree, unfinished, edits>>
    BY <1>4 DEF Pass
  <2> HIDE DEF r
  <2>3. RunSolo(r, tree)
    BY <1>p, <2>1 DEF RunSolo
  <2> QED BY <1>s, <2>1, <2>2, <2>3, SoloGoesOn
<1>5. ASSUME NEW p \in Procs, NEW n \in Names, Read(p, n) PROVE SoloInv'
  <2> DEFINE next == Repaired(tree, n, run[p].moves)
             r == [run[p] EXCEPT !.step = "save", !.todo = run[p].todo \ {n}, !.at = n, !.next = next]
  <2>1. run[p].step = "repair" /\ n \in run[p].todo /\ tree[n] # NoFile
    BY <1>5 DEF Read
  <2>2. next.body = tree[n].body /\ next.status = tree[n].status
    BY <1>t, <2>1, RepairedKeeps
  <2>3. run' = [run EXCEPT ![p] = r] /\ UNCHANGED <<tree, unfinished, edits>>
    BY <1>5 DEF Read
  <2> HIDE DEF next
  <2>4. /\ r.step = "save" /\ r.at = n /\ r.next = next /\ r.todo = run[p].todo \ {n}
        /\ r.cmd = run[p].cmd /\ r.held = run[p].held
    BY <1>t DEF Run
  <2> HIDE DEF r
  <2>5. RunSolo(r, tree)
    BY <1>p, <2>1, <2>2, <2>4 DEF RunSolo
  <2> QED BY <1>s, <2>3, <2>4, <2>5, SoloGoesOn
<1>6. ASSUME NEW p \in Procs, EndWalk(p) PROVE SoloInv'
  <2>1. ASSUME NEW step \in {"rename", "remove", "write"},
               run' = [run EXCEPT ![p] = [run[p] EXCEPT !.step = step]]
        PROVE  SoloInv'
    <3> DEFINE r == [run[p] EXCEPT !.step = step]
    <3>1. /\ run[p].step = "repair" /\ r.step = step /\ r.cmd = run[p].cmd
          /\ r.held = run[p].held /\ r.todo = run[p].todo
      BY <1>6, <1>t DEF EndWalk, Run
    <3>2. UNCHANGED <<tree, unfinished, edits>>
      BY <1>6 DEF EndWalk
    <3> HIDE DEF r
    <3>3. RunSolo(r, tree)
      BY <1>p, <3>1 DEF RunSolo
    <3>4. run' = [run EXCEPT ![p] = r]
      BY <2>1 DEF r
    <3> QED BY <1>s, <3>1, <3>2, <3>3, <3>4, SoloGoesOn
  <2> QED BY <1>6, <2>1 DEF EndWalk
<1>7. ASSUME NEW p \in Procs, ArchiveClean(p) PROVE SoloInv'
  <2>1. unfinished' = unfinished \ {Archive} /\ UNCHANGED <<tree, run, edits>>
    BY <1>7 DEF ArchiveClean
  <2>2. \A t \in Tasks : Complete(t) # Archive
    BY DEF Complete, Archive
  <2> QED BY <2>1, <2>2 DEF SoloInv, RunSolo, Twofold, Twins, Declares, Live, Arch, Archive, Complete
<1>8. ASSUME NEW p \in Procs, StartArchive(p) PROVE SoloInv'
  <2> DEFINE r == [Idle EXCEPT !.step = "slot", !.cmd = Archive, !.moves = misfiledTasks(tree)]
  <2>1. r.step = "slot" /\ r.cmd = Archive
    BY DEF Idle
  <2>2. /\ run[p].step = "idle" /\ run' = [run EXCEPT ![p] = r]
        /\ UNCHANGED <<tree, unfinished, edits>>
    BY <1>8 DEF StartArchive, MayStart
  <2> HIDE DEF r
  <2> QED BY <1>s, <2>1, <2>2, SoloGoesOn DEF RunSolo
<1>9. ASSUME NEW p \in Procs, NEW u \in Tasks, StartComplete(p, u) PROVE SoloInv'
  <2> DEFINE held == completedTaskContent(tree[Live(u)])
             r == [Idle EXCEPT !.step = "slot", !.cmd = Complete(u), !.moves = {u}, !.held = held]
  <2>1. tree[Live(u)] \in File /\ tree[Live(u)] # NoFile
    BY <1>9, SlotNames DEF StartComplete, Declares, TypeOK
  <2>2. held.status = "done" /\ held.body = tree[Live(u)].body
    BY <2>1, CompletedKeeps
  <2>3. r.step = "slot" /\ r.cmd = Complete(u) /\ r.cmd.id = u /\ r.held = held
    BY DEF Idle, Complete
  <2>4. /\ run[p].step = "idle" /\ run' = [run EXCEPT ![p] = r]
        /\ UNCHANGED <<tree, unfinished, edits>>
    BY <1>9 DEF StartComplete, MayStart
  <2> HIDE DEF r, held
  <2>5. RunSolo(r, tree)
    BY <2>1, <2>2, <2>3 DEF RunSolo
  <2> QED BY <1>s, <2>3, <2>4, <2>5, SoloGoesOn
<1>10. ASSUME NEW p \in Procs, Stop(p) PROVE SoloInv'
  BY <1>10, <1>s, SoloEnds DEF Stop, Abandon
<1>11. ASSUME NEW p \in Procs, NEW t \in Tasks, RenameFails(p, t) PROVE SoloInv'
  BY <1>11, <1>s, SoloEnds DEF RenameFails, Abandon
<1>12. ASSUME NEW p \in Procs, Save(p) PROVE SoloInv'
  <2> DEFINE r == [run[p] EXCEPT !.step = "repair", !.at = NoFile, !.next = NoFile]
  <2>1. /\ run[p].step = "save" /\ run' = [run EXCEPT ![p] = r]
        /\ tree' = [tree EXCEPT ![run[p].at] = run[p].next]
        /\ UNCHANGED <<unfinished, edits>>
    BY <1>12 DEF Save
  <2>2. /\ r.step = "repair" /\ r.cmd = run[p].cmd /\ r.held = run[p].held
        /\ r.todo = run[p].todo
    BY <1>t DEF Run
  <2> HIDE DEF r
  <2>3. /\ run[p].at \in Names /\ run[p].next \in File /\ run[p].next # NoFile
        /\ tree[run[p].at] # NoFile /\ run[p].next.body = tree[run[p].at].body
        /\ run[p].next.status = tree[run[p].at].status
    BY <1>p, <2>1, NoFileIsNoFile DEF TypeOK, BuffersFilled, RunSolo
  <2>4. ASSUME NEW t \in Tasks
        PROVE  /\ tree'[Live(t)] # NoFile =>
                    tree[Live(t)] # NoFile /\ tree'[Live(t)].body = tree[Live(t)].body
               /\ Declares(tree', Arch(t), t) =>
                    /\ Declares(tree, Arch(t), t)
                    /\ tree'[Arch(t)].body = tree[Arch(t)].body
                    /\ tree'[Arch(t)].status = tree[Arch(t)].status
               /\ run[p].at # Live(t) => tree'[Live(t)] = tree[Live(t)]
    BY <2>1, <2>3, SlotNames DEF TypeOK, OwnerInv, RunOwned, Declares
  <2>5. RunSolo(r, tree')
    BY <1>c, <1>p, <2>1, <2>2, <2>4 DEF RunSolo
  <2>6. \A t \in Tasks : tree'[Live(t)] # NoFile => tree'[Live(t)].body \in 0..edits'
    BY <1>b, <2>1, <2>4
  <2>7. \A t \in Tasks : Twofold(tree', t) =>
          Twins(tree', t) /\ (Complete(t) \in unfinished' \/ (r.step # "idle" /\ r.cmd = Complete(t)))
    BY <1>p, <1>w, <2>1, <2>2, <2>4 DEF Twofold, Twins
  <2> QED BY <1>s, <2>1, <2>5, <2>6, <2>7, SoloUpdate
<1>13. ASSUME NEW p \in Procs, WriteSlot(p) PROVE SoloInv'
  <2> DEFINE r == [run[p] EXCEPT !.step = "remove"]
             u == run[p].cmd.id
  <2>1. /\ run[p].step = "write" /\ run[p].cmd # Archive /\ u \in Tasks /\ run[p].cmd = Complete(u)
        /\ run' = [run EXCEPT ![p] = r] /\ tree' = [tree EXCEPT ![Arch(u)] = run[p].held]
        /\ UNCHANGED <<unfinished, edits>>
    BY <1>13, <1>c DEF WriteSlot, TypeOK, BuffersFilled
  <2>2. /\ r.step = "remove" /\ r.cmd = run[p].cmd /\ r.held = run[p].held
        /\ r.todo = run[p].todo
    BY <1>t DEF Run
  <2> HIDE DEF r
  <2>3. /\ tree'[Arch(u)] = run[p].held
        /\ \A t \in Tasks : /\ tree'[Live(t)] = tree[Live(t)]
                            /\ t # u => tree'[Arch(t)] = tree[Arch(t)]
    BY <2>1, SlotNames, SlotsDiffer DEF TypeOK
  <2>4. RunSolo(r, tree')
    BY <1>p, <2>1, <2>2, <2>3 DEF RunSolo
  <2>5. \A t \in Tasks : tree'[Live(t)] # NoFile => tree'[Live(t)].body \in 0..edits'
    BY <1>b, <2>1, <2>3
  <2>6. ASSUME NEW t \in Tasks, Twofold(tree', t)
        PROVE  /\ Twins(tree', t)
               /\ Complete(t) \in unfinished' \/ (r.step # "idle" /\ r.cmd = Complete(t))
    <3>1. CASE t = u
      BY <1>p, <2>1, <2>2, <2>3, <3>1 DEF Twins, RunSolo
    <3>2. CASE t # u
      BY <1>p, <1>w, <2>1, <2>2, <2>3, <2>6, <3>2 DEF Twofold, Twins, Declares
    <3> QED BY <3>1, <3>2
  <2> QED BY <1>s, <2>1, <2>4, <2>5, <2>6, SoloUpdate
<1>14. ASSUME NEW p \in Procs, Remove(p) PROVE SoloInv'
  <2> DEFINE u == run[p].cmd.id
  <2>1. run[p].step = "remove" /\ run[p].cmd # Archive /\ u \in Tasks /\ run[p].cmd = Complete(u)
    BY <1>14, <1>c DEF Remove, TypeOK, BuffersFilled
  <2>2. /\ run' = [run EXCEPT ![p] = Idle] /\ unfinished' = unfinished \ {Complete(u)}
        /\ tree' = [tree EXCEPT ![Live(u)] = NoFile] /\ edits' = edits
    BY <1>14, <1>p, <2>1 DEF Remove, Finish, RunSolo
  <2>3. /\ tree'[Live(u)] = NoFile
        /\ \A t \in Tasks : /\ tree'[Arch(t)] = tree[Arch(t)]
                            /\ t # u => tree'[Live(t)] = tree[Live(t)]
    BY <2>1, <2>2, SlotNames, SlotsDiffer DEF TypeOK
  <2>4. \A t \in Tasks : tree'[Live(t)] # NoFile => tree'[Live(t)].body \in 0..edits'
    BY <1>b, <2>2, <2>3
  <2>5. \A t \in Tasks : t # u => Complete(t) # Complete(u)
    BY DEF Complete
  <2>6. ASSUME NEW t \in Tasks, Twofold(tree', t)
        PROVE  Twins(tree', t) /\ Complete(t) \in unfinished'
    <3>1. t # u
      BY <2>3, <2>6 DEF Twofold
    <3>2. Twofold(tree, t)
      BY <2>3, <2>6, <3>1 DEF Twofold, Declares
    <3> QED BY <1>p, <1>w, <2>1, <2>2, <2>3, <2>5, <3>1, <3>2 DEF Twins
  <2> QED BY <1>i, <1>s, <2>2, <2>4, <2>6, SoloUpdate
<1>15. ASSUME NEW p \in Procs, NEW u \in Tasks, Rename(p, u) PROVE SoloInv'
  <2> DEFINE after == [run[p] EXCEPT !.moves = run[p].moves \ {u}]
  <2>1. run[p].step = "rename" /\ run[p].cmd = Archive /\ edits' = edits
        /\ tree' = [tree EXCEPT ![Arch(u)] = tree[Live(u)], ![Live(u)] = NoFile]
    BY <1>15 DEF Rename, RenamesSweep
  <2>2. /\ unfinished' \in {unfinished, unfinished \ {Archive}}
        /\ run' = [run EXCEPT ![p] = Idle] \/ run' = [run EXCEPT ![p] = after]
    BY <1>15, <2>1 DEF Rename, Finish
  <2>3. after.step = "rename" /\ after.cmd = Archive
    BY <1>t, <2>1 DEF Run
  <2> HIDE DEF after
  <2>4. /\ tree'[Live(u)] = NoFile
        /\ \A t \in Tasks : t # u => tree'[Live(t)] = tree[Live(t)] /\ tree'[Arch(t)] = tree[Arch(t)]
    BY <2>1, SlotNames, SlotsDiffer DEF TypeOK
  <2>5. \A t \in Tasks : tree'[Live(t)] # NoFile => tree'[Live(t)].body \in 0..edits'
    BY <1>b, <2>1, <2>4
  <2>6. \A t \in Tasks : Complete(t) # Archive
    BY DEF Complete, Archive
  <2>7. ASSUME NEW t \in Tasks, Twofold(tree', t)
        PROVE  Twins(tree', t) /\ Complete(t) \in unfinished'
    <3>1. t # u
      BY <2>4, <2>7 DEF Twofold
    <3>2. Twofold(tree, t)
      BY <2>4, <2>7, <3>1 DEF Twofold, Declares
    <3> QED BY <1>p, <1>w, <2>1, <2>2, <2>4, <2>6, <3>1, <3>2 DEF Twins
  <2>8. RunSolo(after, tree')
    BY <2>3 DEF RunSolo
  <2> QED BY <1>i, <1>s, <2>2, <2>5, <2>7, <2>8, SoloUpdate
<1>e. ASSUME NEW u \in Tasks, MayEdit(u), NEW file \in File, file.body \in 0..edits',
             tree' = [tree EXCEPT ![Live(u)] = file], edits' = edits + 1,
             UNCHANGED <<run, unfinished>>
      PROVE  SoloInv'
  <2>1. (\A p \in Procs : run'[p].step = "idle") /\ unfinished' = {} /\ tree[Live(u)] # NoFile
    BY <1>e, <1>s DEF MayEdit, Quiet, Declares
  <2>2. /\ tree'[Live(u)] = file
        /\ \A t \in Tasks : /\ tree'[Arch(t)] = tree[Arch(t)]
                            /\ t # u => tree'[Live(t)] = tree[Live(t)]
    BY <1>e, SlotNames, SlotsDiffer DEF TypeOK
  <2>3. \A t \in Tasks : ~Twofold(tree', t)
    BY <1>e, <1>w, <2>1, <2>2 DEF Twofold, Declares
  <2>4. \A t \in Tasks : tree'[Live(t)] # NoFile => tree'[Live(t)].body \in 0..edits'
    <3>1. edits \in Nat /\ 0..edits \subseteq 0..edits'
      BY <1>e, BoundsAreNat DEF TypeOK
    <3> QED BY <1>b, <1>e, <2>2, <3>1
  <2> QED BY <2>1, <2>3, <2>4 DEF SoloInv, RunSolo, Twofold, Declares, Live, Arch
<1>16. ASSUME NEW t \in Tasks, EditBody(t) PROVE SoloInv'
  <2> DEFINE file == [tree[Live(t)] EXCEPT !.body = edits + 1]
  <2>1. file \in File /\ file.body = edits + 1 /\ edits \in Nat
    BY <1>16, SlotNames, BoundsAreNat DEF EditBody, MayEdit, Declares, TypeOK, File, Bodies
  <2>2. MayEdit(t) /\ tree' = [tree EXCEPT ![Live(t)] = file] /\ edits' = edits + 1
        /\ UNCHANGED <<run, unfinished>>
    BY <1>16 DEF EditBody
  <2> HIDE DEF file
  <2>3. file.body \in 0..edits'
    BY <2>1, <2>2
  <2> QED BY <1>e, <2>1, <2>2, <2>3
<1>17. ASSUME NEW t \in Tasks, NEW status \in Statuses, EditStatus(t, status) PROVE SoloInv'
  <2> DEFINE file == [tree[Live(t)] EXCEPT !.status = status]
  <2>1. file \in File /\ file.body = tree[Live(t)].body /\ tree[Live(t)] # NoFile /\ edits \in Nat
    BY <1>17, SlotNames, BoundsAreNat DEF EditStatus, MayEdit, Declares, TypeOK, File
  <2>2. MayEdit(t) /\ tree' = [tree EXCEPT ![Live(t)] = file] /\ edits' = edits + 1
        /\ UNCHANGED <<run, unfinished>>
    BY <1>17 DEF EditStatus
  <2> HIDE DEF file
  <2>3. file.body \in 0..edits'
    BY <1>b, <2>1, <2>2
  <2> QED BY <1>e, <2>1, <2>2, <2>3
<1>18. CASE UNCHANGED vars
  BY <1>0, <1>18 DEF vars
<1> QED
  BY <1>s, <1>1, <1>2, <1>3, <1>4, <1>5, <1>6, <1>7, <1>8, <1>9, <1>10, <1>11, <1>12, <1>13,
     <1>14, <1>15, <1>16, <1>17, <1>18
     DEF Next, Edit, Start, Step, Fail

StrongInv == TypeOK /\ OwnerInv /\ RenamesSweep /\ FinishInv /\ SoloInv

LEMMA StrongInvHolds ==
  ASSUME SoloAssumption
  PROVE  (Init => StrongInv) /\ (StrongInv /\ [Next]_vars => StrongInv')
<1>1. Init => RenamesSweep
  BY DEF Init, RenamesSweep, Idle
<1> QED
  BY <1>1, InitTypeOK, InitOwner, InitFinish, InitSolo, NextTypeOK, NextOwner, NextRenames,
     NextFinish, NextSolo DEF StrongInv, SoloAssumption

\* A removal finds the task completed in the archive, with the same body.
LEMMA RemovalFindsTwin ==
  ASSUME OneProcess, StrongInv, NEW p \in Procs, Remove(p)
  PROVE  LET u == run[p].cmd.id IN
         /\ u \in Tasks /\ tree[Live(u)] # NoFile /\ Declares(tree, Arch(u), u) /\ Twins(tree, u)
         /\ tree' = [tree EXCEPT ![Live(u)] = NoFile] /\ edits' = edits
<1> DEFINE u == run[p].cmd.id
<1>1. /\ run[p].step = "remove" /\ run[p].cmd # Archive /\ u \in Tasks
      /\ tree' = [tree EXCEPT ![Live(u)] = NoFile] /\ edits' = edits
  BY DEF StrongInv, TypeOK, BuffersFilled, Run, Commands, Complete, Remove
<1>2. tree[Live(u)] # NoFile /\ Declares(tree, Arch(u), u)
  BY <1>1 DEF StrongInv, SoloInv, RunSolo, OwnerInv, RunOwned
<1>3. Twins(tree, u)
  BY <1>1, <1>2 DEF StrongInv, SoloInv, Twofold
<1> QED
  BY <1>1, <1>2, <1>3

\* A renamed file is its task's, and finished.
LEMMA RenameFindsFinished ==
  ASSUME StrongInv, NEW p \in Procs, NEW u \in Tasks, Rename(p, u)
  PROVE  /\ tree[Live(u)] # NoFile /\ tree[Live(u)].id = u
         /\ tree[Live(u)].status \in finishedTaskStatuses
         /\ tree' = [tree EXCEPT ![Arch(u)] = tree[Live(u)], ![Live(u)] = NoFile]
         /\ edits' = edits
<1>1. /\ tree[Live(u)] # NoFile /\ run[p].step = "rename" /\ u \in run[p].moves
      /\ tree' = [tree EXCEPT ![Arch(u)] = tree[Live(u)], ![Live(u)] = NoFile]
      /\ edits' = edits
  BY DEF Rename
<1>2. tree[Live(u)].id = u
  BY <1>1 DEF StrongInv, OwnerInv, LiveOwned
<1>3. Sweeping(u)
  BY <1>1 DEF StrongInv, RenamesSweep, Sweeping
<1>4. tree[Live(u)] \in Own(u, LiveTexts(u))
  BY <1>1, <1>2 DEF Own, LiveTexts
<1>5. FinishedOf(u)
  BY DEF StrongInv, FinishInv
<1> QED
  BY <1>1, <1>2, <1>3, <1>4, <1>5 DEF FinishedOf

\* A repaired file keeps its status and its body.
LEMMA SaveKeeps ==
  ASSUME StrongInv, NEW p \in Procs, Save(p), NEW n \in Names
  PROVE  /\ tree'[n] = NoFile <=> tree[n] = NoFile
         /\ tree[n] # NoFile => tree'[n].status = tree[n].status /\ tree'[n].body = tree[n].body
<1>1. /\ run[p].step = "save" /\ run[p].at \in Names /\ run[p].next \in File
      /\ tree' = [tree EXCEPT ![run[p].at] = run[p].next]
  BY DEF Save, StrongInv, TypeOK, BuffersFilled
<1>2. /\ tree[run[p].at] # NoFile /\ run[p].next.body = tree[run[p].at].body
      /\ run[p].next.status = tree[run[p].at].status
  BY <1>1 DEF StrongInv, SoloInv, RunSolo
<1> QED
  BY <1>1, <1>2, NoFileIsNoFile DEF StrongInv, TypeOK

\* The slot of a completion is written while its live file is still there.
LEMMA SlotIsWrittenFirst ==
  ASSUME StrongInv, NEW p \in Procs, WriteSlot(p)
  PROVE  LET u == run[p].cmd.id IN
         /\ u \in Tasks /\ tree[Live(u)] # NoFile
         /\ tree' = [tree EXCEPT ![Arch(u)] = run[p].held]
         /\ edits' = edits
<1> DEFINE u == run[p].cmd.id
<1>1. /\ run[p].step = "write" /\ run[p].cmd # Archive /\ u \in Tasks
      /\ tree' = [tree EXCEPT ![Arch(u)] = run[p].held] /\ edits' = edits
  BY DEF StrongInv, TypeOK, BuffersFilled, Run, Commands, Complete, WriteSlot
<1>2. tree[Live(u)] # NoFile
  BY <1>1 DEF StrongInv, SoloInv, RunSolo
<1> QED
  BY <1>1, <1>2

\* What a step does to the files, as one of six cases.
LEMMA TreeOutcomes ==
  ASSUME SoloAssumption, StrongInv, [Next]_vars
  PROVE  \/ tree' = tree
         \/ \E p \in Procs : Save(p) \/ WriteSlot(p) \/ Remove(p)
         \/ \E p \in Procs, u \in Tasks : Rename(p, u)
         \/ \E u \in Tasks : EditBody(u) \/ \E status \in Statuses : EditStatus(u, status)
<1>1. ASSUME NEW p \in Procs, Start(p) PROVE tree' = tree
  BY <1>1 DEF Start, StartArchive, ArchiveClean, StartComplete
<1>2. ASSUME NEW p \in Procs, Fail(p) PROVE tree' = tree
  BY <1>2 DEF Fail, Stop, SoloAssumption
<1>3. ASSUME NEW p \in Procs,
             Refuse(p) \/ AcceptCompletion(p) \/ AcceptSweep(p) \/ EndWalk(p)
      PROVE  tree' = tree
  BY <1>3 DEF Refuse, AcceptCompletion, AcceptSweep, EndWalk
<1>4. ASSUME NEW p \in Procs, NEW n \in Names, Pass(p, n) \/ Read(p, n) PROVE tree' = tree
  BY <1>4 DEF Pass, Read
<1>5. ASSUME NEW p \in Procs, NEW t \in Tasks, RenameFails(p, t) PROVE tree' = tree
  BY <1>5 DEF RenameFails
<1>6. CASE UNCHANGED vars
  BY <1>6 DEF vars
<1> QED
  BY <1>1, <1>2, <1>3, <1>4, <1>5, <1>6 DEF Next, Edit, Step

\* One command at a time, a live file goes away only when its archive slot
\* holds its body, finished.
THEOREM LiveRemovedOnlyOnceFiled ==
  ASSUME SoloAssumption
  PROVE  Spec => RemovedOnlyOnceFiled
<1>1. StrongInv /\ [Next]_vars =>
        \A t \in Tasks : Declares(tree, Live(t), t) /\ tree'[Live(t)] = NoFile =>
          /\ Declares(tree', Arch(t), t)
          /\ tree'[Arch(t)].body = tree[Live(t)].body
          /\ tree'[Arch(t)].status \in finishedTaskStatuses
  <2> SUFFICES ASSUME StrongInv, [Next]_vars,
                      NEW t \in Tasks, Declares(tree, Live(t), t), tree'[Live(t)] = NoFile
               PROVE  /\ Declares(tree', Arch(t), t)
                      /\ tree'[Arch(t)].body = tree[Live(t)].body
                      /\ tree'[Arch(t)].status \in finishedTaskStatuses
    OBVIOUS
  <2>0. OneProcess /\ tree[Live(t)] # NoFile
    BY DEF SoloAssumption, Declares
  <2>1. CASE tree' = tree
    BY <2>0, <2>1
  <2>2. ASSUME NEW p \in Procs, Save(p) PROVE FALSE
    BY <2>0, <2>2, SaveKeeps, SlotNames
  <2>3. ASSUME NEW p \in Procs, WriteSlot(p) PROVE FALSE
    <3>1. tree'[Live(t)] = tree[Live(t)]
      BY <2>3, SlotIsWrittenFirst, SlotNames, SlotsDiffer DEF StrongInv, TypeOK
    <3> QED BY <2>0, <3>1
  <2>4. ASSUME NEW p \in Procs, Remove(p)
        PROVE  /\ Declares(tree', Arch(t), t)
               /\ tree'[Arch(t)].body = tree[Live(t)].body
               /\ tree'[Arch(t)].status \in finishedTaskStatuses
    <3> DEFINE u == run[p].cmd.id
    <3>1. /\ u \in Tasks /\ Declares(tree, Arch(u), u) /\ Twins(tree, u)
          /\ tree' = [tree EXCEPT ![Live(u)] = NoFile]
      BY <2>0, <2>4, RemovalFindsTwin
    <3> HIDE DEF u
    <3>2. t = u /\ tree'[Arch(t)] = tree[Arch(t)]
      BY <2>0, <3>1, SlotNames, SlotsDiffer DEF StrongInv, TypeOK
    <3> QED BY <3>1, <3>2 DEF Declares, Twins, finishedTaskStatuses
  <2>5. ASSUME NEW p \in Procs, NEW u \in Tasks, Rename(p, u)
        PROVE  /\ Declares(tree', Arch(t), t)
               /\ tree'[Arch(t)].body = tree[Live(t)].body
               /\ tree'[Arch(t)].status \in finishedTaskStatuses
    <3>1. /\ tree[Live(u)] # NoFile /\ tree[Live(u)].id = u
          /\ tree[Live(u)].status \in finishedTaskStatuses
          /\ tree' = [tree EXCEPT ![Arch(u)] = tree[Live(u)], ![Live(u)] = NoFile]
      BY <2>5, RenameFindsFinished
    <3>2. t = u /\ tree'[Arch(t)] = tree[Live(t)]
      BY <2>0, <3>1, SlotNames, SlotsDiffer DEF StrongInv, TypeOK
    <3> QED BY <2>0, <3>1, <3>2 DEF Declares
  <2>6. ASSUME NEW u \in Tasks, NEW file \in File, tree' = [tree EXCEPT ![Live(u)] = file]
        PROVE  FALSE
    BY <2>0, <2>6, SlotNames, NoFileIsNoFile DEF StrongInv, TypeOK
  <2>7. ASSUME NEW u \in Tasks, EditBody(u) PROVE FALSE
    <3>1. [tree[Live(u)] EXCEPT !.body = edits + 1] \in File
      BY <2>7, SlotNames, BoundsAreNat
         DEF EditBody, MayEdit, Declares, StrongInv, TypeOK, File, Bodies
    <3> QED BY <2>6, <2>7, <3>1 DEF EditBody
  <2>8. ASSUME NEW u \in Tasks, NEW status \in Statuses, EditStatus(u, status) PROVE FALSE
    <3>1. [tree[Live(u)] EXCEPT !.status = status] \in File
      BY <2>8, SlotNames DEF EditStatus, MayEdit, Declares, StrongInv, TypeOK, File
    <3> QED BY <2>6, <2>8, <3>1 DEF EditStatus
  <2> QED BY <2>1, <2>2, <2>3, <2>4, <2>5, <2>7, <2>8, TreeOutcomes
<1>2. Init => StrongInv
  BY StrongInvHolds
<1>3. StrongInv /\ [Next]_vars => StrongInv'
  BY StrongInvHolds
<1>4. StrongInv /\ [Next]_vars =>
        [\A t \in Tasks :
           Declares(tree, Live(t), t) /\ tree'[Live(t)] = NoFile =>
             /\ Declares(tree', Arch(t), t)
             /\ tree'[Arch(t)].body = tree[Live(t)].body
             /\ tree'[Arch(t)].status \in finishedTaskStatuses]_vars
  BY <1>1
<1> QED
  BY <1>2, <1>3, <1>4, PTL DEF Spec, RemovedOnlyOnceFiled

\* The file that stands for t: the live one as long as there is one.
ShownName(t) == IF tree[Live(t)] # NoFile THEN Live(t) ELSE Arch(t)

\* It is t's, with the body the user saved last.
ShownIsSaved ==
  \A t \in Tasks : Declares(tree, ShownName(t), t) /\ tree[ShownName(t)].body = saved[t]

LEMMA InitShown == Init => ShownIsSaved
<1> SUFFICES ASSUME Init, NEW t \in Tasks
             PROVE  Declares(tree, ShownName(t), t) /\ tree[ShownName(t)].body = saved[t]
  BY DEF ShownIsSaved
<1>1. BodyInv /\ OwnerInv
  BY InitBody, InitOwner
<1> QED
  BY <1>1 DEF BodyInv, OwnerInv, LiveOwned, TreeWhole, Declares, ShownName

LEMMA NextShown ==
  ASSUME SoloAssumption, StrongInv, ShownIsSaved, [Next]_vars
  PROVE  ShownIsSaved'
<1> SUFFICES ASSUME NEW t \in Tasks
             PROVE  LET name == IF tree'[Live(t)] # NoFile THEN Live(t) ELSE Arch(t) IN
                    Declares(tree', name, t) /\ tree'[name].body = saved'[t]
  BY DEF ShownIsSaved, ShownName, Declares, Live, Arch
<1>0. /\ OneProcess /\ tree \in [Names -> File \cup {NoFile}]
      /\ Declares(tree, ShownName(t), t) /\ tree[ShownName(t)].body = saved[t]
  BY DEF SoloAssumption, StrongInv, TypeOK, ShownIsSaved
<1>1. ASSUME NEW u \in Tasks, EditBody(u)
      PROVE  LET name == IF tree'[Live(t)] # NoFile THEN Live(t) ELSE Arch(t) IN
             Declares(tree', name, t) /\ tree'[name].body = saved'[t]
  <2> DEFINE file == [tree[Live(u)] EXCEPT !.body = edits + 1]
  <2>1. /\ tree[Live(u)] # NoFile /\ tree[Live(u)].id = u
        /\ tree' = [tree EXCEPT ![Live(u)] = file] /\ saved' = [saved EXCEPT ![u] = edits + 1]
    BY <1>1 DEF EditBody, MayEdit, Declares
  <2>2. /\ file \in File /\ file.id = u /\ file.body = edits + 1
        /\ edits + 1 \in Nat /\ saved \in [Tasks -> Nat]
    BY <1>0, <2>1, SlotNames, BoundsAreNat DEF File, Bodies, StrongInv, TypeOK
  <2> HIDE DEF file
  <2>3. CASE t = u
    BY <1>0, <2>1, <2>2, <2>3, SlotNames, NoFileIsNoFile DEF Declares
  <2>4. CASE t # u
    <3>1. tree'[Live(t)] = tree[Live(t)] /\ tree'[Arch(t)] = tree[Arch(t)] /\ saved'[t] = saved[t]
      BY <1>0, <2>1, <2>2, <2>4, SlotNames, SlotsDiffer
    <3> QED BY <1>0, <3>1 DEF Declares, ShownName
  <2> QED BY <2>3, <2>4
<1>2. CASE saved' = saved
  <2>1. CASE tree'[Live(t)] = tree[Live(t)] /\ tree'[Arch(t)] = tree[Arch(t)]
    BY <1>0, <1>2, <2>1 DEF Declares, ShownName
  <2>2. CASE tree[Live(t)] # NoFile /\ tree'[Live(t)] = tree[Live(t)]
    BY <1>0, <1>2, <2>2 DEF Declares, ShownName
  <2>3. ASSUME NEW p \in Procs, Save(p)
        PROVE  LET name == IF tree'[Live(t)] # NoFile THEN Live(t) ELSE Arch(t) IN
               Declares(tree', name, t) /\ tree'[name].body = saved'[t]
    <3>1. \A n \in {Live(t), Arch(t)} :
            /\ tree'[n] = NoFile <=> tree[n] = NoFile
            /\ tree[n] # NoFile => tree'[n].body = tree[n].body /\ tree'[n].id = tree[n].id
      <4>1. /\ tree' = [tree EXCEPT ![run[p].at] = run[p].next] /\ run[p].at \in Names
            /\ RunOwned(run[p], tree) /\ run[p].step = "save"
        BY <2>3 DEF Save, StrongInv, TypeOK, BuffersFilled, OwnerInv
      <4>2. \A n \in {Live(t), Arch(t)} :
              /\ tree'[n] = NoFile <=> tree[n] = NoFile
              /\ tree[n] # NoFile => tree'[n].body = tree[n].body
        BY <2>3, SaveKeeps, SlotNames
      <4>3. tree[Live(t)] # NoFile => tree[Live(t)].id = t
        BY DEF StrongInv, OwnerInv, LiveOwned
      <4>4. run[p].at = Live(t) => run[p].next.id = t
        BY <4>1 DEF RunOwned
      <4>5. run[p].at = Arch(t) => run[p].next.id = tree[Arch(t)].id
        BY <4>1 DEF RunOwned
      <4> QED BY <1>0, <4>1, <4>2, <4>3, <4>4, <4>5, SlotNames
    <3> QED BY <1>0, <1>2, <3>1 DEF Declares, ShownName
  <2>4. ASSUME NEW p \in Procs, WriteSlot(p)
        PROVE  \/ tree'[Live(t)] = tree[Live(t)] /\ tree'[Arch(t)] = tree[Arch(t)]
               \/ tree[Live(t)] # NoFile /\ tree'[Live(t)] = tree[Live(t)]
    BY <1>0, <2>4, SlotIsWrittenFirst, SlotNames, SlotsDiffer
  <2>5. ASSUME NEW p \in Procs, Remove(p)
        PROVE  LET name == IF tree'[Live(t)] # NoFile THEN Live(t) ELSE Arch(t) IN
               Declares(tree', name, t) /\ tree'[name].body = saved'[t]
    <3> DEFINE u == run[p].cmd.id
    <3>1. /\ u \in Tasks /\ tree[Live(u)] # NoFile /\ Declares(tree, Arch(u), u) /\ Twins(tree, u)
          /\ tree' = [tree EXCEPT ![Live(u)] = NoFile]
      BY <1>0, <2>5, RemovalFindsTwin
    <3> HIDE DEF u
    <3>2. CASE t = u
      <4>1. tree'[Live(t)] = NoFile /\ tree'[Arch(t)] = tree[Arch(t)]
        BY <1>0, <3>1, <3>2, SlotNames, SlotsDiffer
      <4> QED BY <1>0, <1>2, <3>1, <3>2, <4>1 DEF Declares, ShownName, Twins
    <3>3. CASE t # u
      BY <1>0, <2>1, <3>1, <3>3, SlotNames, SlotsDiffer
    <3> QED BY <3>2, <3>3
  <2>6. ASSUME NEW p \in Procs, NEW u \in Tasks, Rename(p, u)
        PROVE  LET name == IF tree'[Live(t)] # NoFile THEN Live(t) ELSE Arch(t) IN
               Declares(tree', name, t) /\ tree'[name].body = saved'[t]
    <3>1. /\ tree[Live(u)] # NoFile /\ tree[Live(u)].id = u
          /\ tree' = [tree EXCEPT ![Arch(u)] = tree[Live(u)], ![Live(u)] = NoFile]
      BY <2>6, RenameFindsFinished
    <3>2. CASE t = u
      <4>1. tree'[Live(t)] = NoFile /\ tree'[Arch(t)] = tree[Live(t)]
        BY <1>0, <3>1, <3>2, SlotNames, SlotsDiffer
      <4> QED BY <1>0, <1>2, <3>1, <3>2, <4>1 DEF Declares, ShownName
    <3>3. CASE t # u
      BY <1>0, <2>1, <3>1, <3>3, SlotNames, SlotsDiffer
    <3> QED BY <3>2, <3>3
  <2>7. ASSUME NEW u \in Tasks, NEW status \in Statuses, EditStatus(u, status)
        PROVE  LET name == IF tree'[Live(t)] # NoFile THEN Live(t) ELSE Arch(t) IN
               Declares(tree', name, t) /\ tree'[name].body = saved'[t]
    <3> DEFINE file == [tree[Live(u)] EXCEPT !.status = status]
    <3>1. tree[Live(u)] # NoFile /\ tree' = [tree EXCEPT ![Live(u)] = file]
      BY <2>7 DEF EditStatus, MayEdit, Declares
    <3>2. file \in File /\ file.id = tree[Live(u)].id /\ file.body = tree[Live(u)].body
      BY <1>0, <3>1, SlotNames DEF File
    <3> HIDE DEF file
    <3>3. CASE t = u
      <4>1. tree'[Live(t)] = file /\ file # NoFile
        BY <1>0, <3>1, <3>2, <3>3, SlotNames, NoFileIsNoFile
      <4> QED BY <1>0, <1>2, <3>1, <3>2, <3>3, <4>1 DEF Declares, ShownName
    <3>4. CASE t # u
      BY <1>0, <2>1, <3>1, <3>4, SlotNames, SlotsDiffer
    <3> QED BY <3>3, <3>4
  <2>8. ASSUME NEW u \in Tasks, EditBody(u)
        PROVE  LET name == IF tree'[Live(t)] # NoFile THEN Live(t) ELSE Arch(t) IN
               Declares(tree', name, t) /\ tree'[name].body = saved'[t]
    BY <1>1, <2>8
  <2> QED BY <2>1, <2>2, <2>3, <2>4, <2>5, <2>6, <2>7, <2>8, TreeOutcomes
<1>3. saved' = saved \/ \E u \in Tasks : EditBody(u)
  BY DEF Next, Edit, EditStatus, Start, StartArchive, ArchiveClean, StartComplete, Step, Refuse,
         AcceptCompletion, AcceptSweep, Pass, Read, Save, EndWalk, WriteSlot, Remove, Rename,
         RenameFails, Fail, Stop, Tear, vars
<1> QED BY <1>1, <1>2, <1>3

\* One command at a time, the body the user saved last is whole in one of the
\* task's slots: the live file is what the archive slot is filled from, and both
\* stay the same until the live one goes, wherever a command is stopped.  A save is
\* one made while no command runs and none has to be rerun (MayEdit).  This says
\* nothing of a save made during a command, which a lockless rewrite can lose
\* (archive.go:204).
THEOREM EditedBodiesSurvive ==
  ASSUME SoloAssumption
  PROVE  Spec => []BodySurvives
<1>1. Init => StrongInv /\ ShownIsSaved
  BY StrongInvHolds, InitShown
<1>2. StrongInv /\ ShownIsSaved /\ [Next]_vars => (StrongInv /\ ShownIsSaved)'
  BY StrongInvHolds, NextShown
<1>3. ShownIsSaved => BodySurvives
  BY DEF ShownIsSaved, ShownName, BodySurvives
<1> QED
  BY <1>1, <1>2, <1>3, PTL DEF Spec

-----------------------------------------------------------------------------
(* A completion never rewrites the live file it reads: its walk spares it. *)

WalkSpares ==
  \A p \in Procs :
    run[p].step \notin {"idle", "slot"} /\ run[p].cmd # Archive =>
      /\ Live(run[p].cmd.id) \notin run[p].todo
      /\ run[p].step = "save" => run[p].at # Live(run[p].cmd.id)

LEMMA NextSpares == TypeOK /\ WalkSpares /\ [Next]_vars => WalkSpares'
<1> SUFFICES ASSUME TypeOK, WalkSpares, [Next]_vars PROVE WalkSpares'
  OBVIOUS
<1>1. ASSUME run' = run PROVE WalkSpares'
  BY <1>1 DEF WalkSpares, Live
<1>2. ASSUME NEW p \in Procs, NEW r, run' = [run EXCEPT ![p] = r],
             r.step \notin {"idle", "slot"} /\ r.cmd # Archive =>
               /\ Live(r.cmd.id) \notin r.todo
               /\ r.step = "save" => r.at # Live(r.cmd.id)
      PROVE  WalkSpares'
  <2>1. run'[p] = r /\ \A q \in Procs : q # p => run'[q] = run[q]
    BY <1>2 DEF TypeOK
  <2> QED BY <1>2, <2>1 DEF WalkSpares, Live, Archive
<1>3. ASSUME NEW p \in Procs, run' = [run EXCEPT ![p] = Idle] PROVE WalkSpares'
  BY <1>2, <1>3 DEF Idle
<1>4. ASSUME NEW p \in Procs, Start(p) PROVE WalkSpares'
  <2>1. CASE ArchiveClean(p)
    BY <1>1, <2>1 DEF ArchiveClean
  <2>2. CASE StartArchive(p)
    BY <1>2, <2>2 DEF StartArchive, Idle
  <2>3. ASSUME NEW t \in Tasks, StartComplete(p, t) PROVE WalkSpares'
    BY <1>2, <2>3 DEF StartComplete, Idle
  <2> QED BY <1>4, <2>1, <2>2, <2>3 DEF Start
<1>5. ASSUME NEW p \in Procs, Fail(p) PROVE WalkSpares'
  BY <1>3, <1>5 DEF Fail, Stop, Tear, Abandon
<1>6. ASSUME NEW p \in Procs, Step(p) PROVE WalkSpares'
  <2>0. run[p] \in Run
    BY DEF TypeOK
  <2>1. CASE Refuse(p)
    BY <1>3, <2>1 DEF Refuse
  <2>2. CASE AcceptCompletion(p)
    <3> DEFINE r == [run[p] EXCEPT !.step = "repair", !.todo = Names \ {Live(run[p].cmd.id)},
                                   !.resuming = tree[Arch(run[p].cmd.id)] # NoFile,
                                   !.held = Relinked(run[p].held, Live(run[p].cmd.id), {run[p].cmd.id})]
    <3>1. r.step = "repair" /\ r.cmd = run[p].cmd /\ r.todo = Names \ {Live(run[p].cmd.id)}
      BY <2>0 DEF Run
    <3>2. run' = [run EXCEPT ![p] = r]
      BY <2>2 DEF AcceptCompletion, TypeOK
    <3> HIDE DEF r
    <3> QED BY <1>2, <3>1, <3>2
  <2>3. CASE AcceptSweep(p)
    BY <1>2, <2>0, <2>3 DEF AcceptSweep, Run
  <2>4. CASE Save(p)
    BY <1>2, <2>0, <2>4 DEF Save, Run, WalkSpares
  <2>5. CASE EndWalk(p)
    <3> DEFINE r == [run[p] EXCEPT !.step = IF run[p].cmd = Archive THEN "rename"
                                            ELSE IF run[p].resuming THEN "remove" ELSE "write"]
    <3>1. r.step # "save" /\ r.cmd = run[p].cmd /\ r.todo = run[p].todo
      BY <2>0 DEF Run
    <3>2. run' = [run EXCEPT ![p] = r] /\ run[p].step = "repair"
      BY <2>5 DEF EndWalk, TypeOK
    <3> HIDE DEF r
    <3> QED BY <1>2, <3>1, <3>2 DEF WalkSpares
  <2>6. CASE WriteSlot(p)
    BY <1>2, <2>0, <2>6 DEF WriteSlot, Run, WalkSpares
  <2>7. CASE Remove(p)
    BY <1>3, <2>7 DEF Remove, Abandon, Finish
  <2>8. ASSUME NEW n \in Names, Pass(p, n) PROVE WalkSpares'
    BY <1>2, <2>0, <2>8 DEF Pass, Run, WalkSpares
  <2>9. ASSUME NEW n \in Names, Read(p, n) PROVE WalkSpares'
    BY <1>2, <2>0, <2>9 DEF Read, Run, WalkSpares
  <2>10. ASSUME NEW t \in Tasks, Rename(p, t) PROVE WalkSpares'
    BY <1>2, <1>3, <2>0, <2>10 DEF Rename, Finish, Run, WalkSpares
  <2>11. ASSUME NEW t \in Tasks, RenameFails(p, t) PROVE WalkSpares'
    BY <1>3, <2>11 DEF RenameFails, Abandon
  <2> QED
    BY <1>6, <2>1, <2>2, <2>3, <2>4, <2>5, <2>6, <2>7, <2>8, <2>9, <2>10, <2>11 DEF Step
<1>7. ASSUME Edit PROVE WalkSpares'
  BY <1>1, <1>7 DEF Edit, EditBody, EditStatus
<1>8. CASE UNCHANGED vars
  BY <1>1, <1>8 DEF vars
<1> QED
  BY <1>4, <1>5, <1>6, <1>7, <1>8 DEF Next

\* With one command at a time, torn writes and any order of reruns included, a
\* completion leaves its live file as it found it until it removes it.
THEOREM LiveSparedByItsCompletion ==
  ASSUME OneProcess
  PROVE  Spec => LiveNeverRewritten
<1>1. ASSUME TypeOK, RenamesSweep, WalkSpares, [Next]_vars,
             NEW p \in Procs, run[p].step # "idle", run[p].cmd # Archive
      PROVE  tree'[Live(run[p].cmd.id)] \in {tree[Live(run[p].cmd.id)], NoFile}
  <2> DEFINE t == run[p].cmd.id
             Spared == tree'[Live(t)] \in {tree[Live(t)], NoFile}
  <2>0. t \in Tasks /\ Live(t) \in Names /\ Live(t) # Arch(t) /\ run[p] \in Run
    BY <1>1, SlotNames, SlotsDiffer DEF TypeOK, Run, Commands, Complete
  <2>1. ASSUME NEW q \in Procs PROVE q = p
    BY DEF OneProcess
  <2>t. DOMAIN tree = Names
    BY <1>1 DEF TypeOK
  <2>2. CASE tree' = tree
    BY <2>2
  <2>3. CASE Save(p)
    BY <1>1, <2>0, <2>3, <2>t DEF Save, WalkSpares, TypeOK
  <2>4. CASE WriteSlot(p)
    BY <1>1, <2>0, <2>4 DEF WriteSlot, TypeOK
  <2>5. CASE Remove(p)
    BY <1>1, <2>0, <2>5 DEF Remove, TypeOK
  <2>6. ASSUME NEW u \in Tasks, Rename(p, u) PROVE FALSE
    BY <1>1, <2>6 DEF Rename, RenamesSweep
  <2>7. CASE Fail(p)
    <3>1. CASE Stop(p)
      BY <2>2, <3>1 DEF Stop
    <3>2. ASSUME NEW outcome \in TornOutcomes, Tear(p, outcome) PROVE Spared
      <4>1. CASE run[p].step = "save"
        BY <1>1, <2>0, <3>2, <4>1 DEF Tear, WalkSpares, TypeOK
      <4>2. CASE run[p].step = "write"
        BY <1>1, <2>0, <3>2, <4>2 DEF Tear, TypeOK
      <4> QED BY <3>2, <4>1, <4>2 DEF Tear
    <3> QED BY <2>7, <3>1, <3>2 DEF Fail
  <2>8. CASE Start(p)
    BY <2>2, <2>8 DEF Start, StartArchive, ArchiveClean, StartComplete
  <2>9. CASE Step(p)
    BY <2>2, <2>3, <2>4, <2>5, <2>6, <2>9
       DEF Step, Refuse, AcceptCompletion, AcceptSweep, EndWalk, Pass, Read, RenameFails
  <2>10. ~Edit
    BY <1>1 DEF Edit, EditBody, EditStatus, MayEdit, Quiet
  <2>11. CASE UNCHANGED vars
    BY <2>2, <2>11 DEF vars
  <2> QED
    BY <1>1, <2>1, <2>7, <2>8, <2>9, <2>10, <2>11 DEF Next
<1>2. TypeOK /\ RenamesSweep /\ WalkSpares /\ [Next]_vars =>
        [\A p \in Procs :
           LET t == run[p].cmd.id IN
           run[p].step # "idle" /\ run[p].cmd # Archive =>
             tree'[Live(t)] \in {tree[Live(t)], NoFile}]_vars
  BY <1>1
<1>3. Init => TypeOK /\ RenamesSweep /\ WalkSpares
  BY InitTypeOK DEF Init, Idle, RenamesSweep, WalkSpares
<1>4. TypeOK /\ RenamesSweep /\ WalkSpares /\ [Next]_vars =>
        TypeOK' /\ RenamesSweep' /\ WalkSpares'
  BY NextTypeOK, NextRenames, NextSpares
<1> QED
  BY <1>2, <1>3, <1>4, PTL DEF Spec, LiveNeverRewritten

-----------------------------------------------------------------------------
(* Links.  A link leads to a place where its target is, or will be once the   *)
(* command under way has moved what it moves.                                 *)

\* Directory dir holds u, and goes on doing so when the tasks of moves are filed.
Stays(tr, moves, dir, u) ==
  \/ dir = "live" /\ tr[Live(u)] # NoFile /\ u \notin moves
  \/ dir = "arch" /\ (u \in moves \/ (tr[Arch(u)] # NoFile /\ tr[Live(u)] = NoFile))

\* Read in directory dir, every link leads to where its target stays.
Settled(tr, moves, dir, links) ==
  \A u \in Tasks : links[u] = "none" \/ Stays(tr, moves, Leads(dir, links[u]), u)

After(name, moves) == movedTaskPath(name[1], name[2], moves)

\* Every link is either as the walk leaves it, or as it was before the command.
Owed(tr, moves, name, links) ==
  \A u \in Tasks :
    \/ links[u] = "none"
    \/ Stays(tr, moves, Leads(After(name, moves), links[u]), u)
    \/ Stays(tr, {}, Leads(name[1], links[u]), u)

LEMMA NameCases ==
  ASSUME NEW n \in Names
  PROVE  /\ \/ \E t \in Tasks : n = Live(t) /\ n[1] = "live" /\ n[2] = t
            \/ \E t \in Tasks : n = Arch(t) /\ n[1] = "arch" /\ n[2] = t
            \/ n[1] = "doc"
         /\ n[1] \in {"live", "arch", "doc"}
BY DEF Names, Live, Arch

LEMMA AfterMove ==
  ASSUME NEW moves
  PROVE  /\ \A t \in Tasks : /\ After(Live(t), moves) = IF t \in moves THEN "arch" ELSE "live"
                             /\ After(Arch(t), moves) = "arch"
         /\ \A n \in Names : n[1] # "live" => After(n, moves) = n[1]
         /\ \A n \in Names : moves = {} => After(n, moves) = n[1]
BY DEF After, movedTaskPath, Live, Arch

LEMMA LeadsAbsolute ==
  ASSUME NEW dir
  PROVE  Leads(dir, "root") = "live" /\ Leads(dir, "rootarch") = "arch" /\ Leads(dir, "sib") = dir
BY DEF Leads

LEMMA LeadsRelative ==
  /\ Leads("live", "down") = "arch" /\ Leads("arch", "up") = "live"
  /\ Leads("arch", "down") = "nowhere" /\ Leads("live", "up") = "nowhere"
  /\ Leads("doc", "down") = "nowhere" /\ Leads("doc", "up") = "nowhere"
BY DEF Leads

\* A relative text leads where it was made to lead.
LEMMA LeadsBack ==
  ASSUME NEW dir \in {"live", "arch"}, NEW to \in {"live", "arch"}
  PROVE  Leads(dir, RelativeText(dir, to)) = to /\ RelativeText(dir, to) \in RelativeTexts
BY LeadsAbsolute, LeadsRelative DEF RelativeText, RelativeTexts

\* What the walk makes of one link leads to where its target stays.
LEMMA RepairSettles ==
  ASSUME NEW tr \in Trees, NEW moves \in SUBSET Tasks, NEW name \in Names,
         NEW links \in [Tasks -> Texts], Owed(tr, moves, name, links)
  PROVE  Settled(tr, moves, After(name, moves),
                 ReplaceCitations(rewriteTaskLinks(tr, name, links, moves), moves))
<1> DEFINE rewritten == rewriteTaskLinks(tr, name, links, moves)
           repaired == ReplaceCitations(rewritten, moves)
<1> SUFFICES ASSUME NEW u \in Tasks
             PROVE  repaired[u] = "none" \/ Stays(tr, moves, Leads(After(name, moves), repaired[u]), u)
  BY DEF Settled
<1> DEFINE to == Leads(name[1], links[u])
           there == After(name, moves)
<1>1. links[u] \in Texts /\ name[1] \in {"live", "arch", "doc"}
  BY NameCases
<1>2. rewritten[u] = IF links[u] \in RelativeTexts /\ Exists(tr, to, u)
                     THEN RelativeText(there, movedTaskPath(to, u, moves)) ELSE links[u]
  BY DEF rewriteTaskLinks, After
<1>3. repaired[u] = IF rewritten[u] = "root" /\ u \in moves THEN "rootarch" ELSE rewritten[u]
  BY DEF ReplaceCitations
<1>4. \/ links[u] = "none"
      \/ Stays(tr, moves, Leads(there, links[u]), u)
      \/ Stays(tr, {}, to, u)
  BY DEF Owed
<1>5. \/ name[1] = "live" /\ there \in {"live", "arch"}
      \/ name[1] \in {"arch", "doc"} /\ there = name[1]
  BY <1>1 DEF After, movedTaskPath
<1>6. Exists(tr, to, u) <=> \/ to = "live" /\ tr[Live(u)] # NoFile
                            \/ to = "arch" /\ tr[Arch(u)] # NoFile
  BY DEF Exists, Live, Arch
<1> HIDE DEF rewritten, repaired
<1>7. CASE links[u] = "none"
  BY <1>2, <1>3, <1>7 DEF RelativeTexts
<1>8. CASE links[u] \in RelativeTexts /\ Exists(tr, to, u)
  <2> DEFINE goal == movedTaskPath(to, u, moves)
  <2>1. to \in {"live", "arch"} /\ goal = IF to = "live" /\ u \in moves THEN "arch" ELSE to
    BY <1>6, <1>8 DEF movedTaskPath
  <2>2. name[1] \in {"live", "arch"}
    BY <1>1, <1>8, <2>1, LeadsAbsolute, LeadsRelative DEF RelativeTexts
  <2>3. there \in {"live", "arch"} /\ goal \in {"live", "arch"}
    BY <1>5, <2>1, <2>2
  <2>4. repaired[u] = RelativeText(there, goal) /\ Leads(there, repaired[u]) = goal
    <3>1. RelativeText(there, goal) \in RelativeTexts /\ Leads(there, RelativeText(there, goal)) = goal
      BY <2>3, LeadsBack
    <3> QED BY <1>2, <1>3, <1>8, <3>1 DEF RelativeTexts
  <2>5. Stays(tr, moves, goal, u)
    <3>1. CASE to = "live"
      BY <1>6, <1>8, <2>1, <3>1 DEF Stays
    <3>2. CASE to = "arch"
      <4>1. CASE there = name[1]
        <5>1. links[u] # "none" /\ goal = "arch" /\ Leads(there, links[u]) = "arch"
          BY <1>8, <2>1, <3>2, <4>1 DEF RelativeTexts
        <5>2. Stays(tr, moves, "arch", u) \/ Stays(tr, {}, "arch", u)
          BY <1>4, <3>2, <5>1
        <5> QED BY <5>1, <5>2 DEF Stays
      <4>2. CASE name[1] = "live" /\ there = "arch"
        <5>1. links[u] = "down"
          BY <1>8, <3>2, <4>2, LeadsAbsolute, LeadsRelative DEF RelativeTexts
        <5>2. Leads(there, links[u]) = "nowhere"
          BY <4>2, <5>1, LeadsRelative
        <5> QED BY <1>4, <2>1, <3>2, <5>1, <5>2 DEF Stays
      <4> QED BY <1>5, <2>2, <4>1, <4>2
    <3> QED BY <2>1, <3>1, <3>2
  <2> QED BY <2>4, <2>5
<1>9. CASE links[u] \in RelativeTexts /\ ~Exists(tr, to, u)
  <2>1. repaired[u] = links[u]
    BY <1>2, <1>3, <1>9 DEF RelativeTexts
  <2>2. links[u] # "none" /\ ~Stays(tr, {}, to, u)
    BY <1>6, <1>9 DEF Stays, RelativeTexts
  <2> QED BY <1>4, <2>1, <2>2
<1>10. CASE links[u] = "root"
  <2>1. to = "live" /\ Leads(there, "root") = "live" /\ Leads(there, "rootarch") = "arch"
    BY <1>10, LeadsAbsolute
  <2>2. repaired[u] = IF u \in moves THEN "rootarch" ELSE "root"
    BY <1>2, <1>3, <1>10 DEF RelativeTexts
  <2> QED BY <1>4, <1>10, <2>1, <2>2 DEF Stays
<1>11. CASE links[u] = "rootarch"
  <2>1. to = "arch" /\ Leads(there, "rootarch") = "arch" /\ repaired[u] = "rootarch"
    BY <1>2, <1>3, <1>11, LeadsAbsolute DEF RelativeTexts
  <2> QED BY <1>4, <1>11, <2>1 DEF Stays
<1> QED
  BY <1>1, <1>7, <1>8, <1>9, <1>10, <1>11 DEF Texts

\* The links of a completed task are re-expressed from its archive slot.
LEMMA RelinkSettles ==
  ASSUME NEW tr \in Trees, NEW t \in Tasks, tr[Live(t)] # NoFile,
         NEW links \in [Tasks -> Texts], Settled(tr, {}, "live", links), links[t] # "root"
  PROVE  Settled(tr, {t}, "arch", rewriteTaskLinks(tr, Live(t), links, {t}))
<1> DEFINE rewritten == rewriteTaskLinks(tr, Live(t), links, {t})
           repaired == ReplaceCitations(rewritten, {t})
<1>1. Live(t) \in Names /\ Live(t)[1] = "live" /\ After(Live(t), {t}) = "arch"
  BY SlotNames, AfterMove DEF Live
<1>2. Owed(tr, {t}, Live(t), links)
  BY <1>1 DEF Settled, Owed
<1>3. Settled(tr, {t}, "arch", repaired)
  BY <1>1, <1>2, RepairSettles
<1>4. rewritten[t] # "root"
  BY DEF rewriteTaskLinks, RelativeText
<1>5. \A u \in Tasks : repaired[u] = rewritten[u]
  BY <1>4 DEF ReplaceCitations
<1>6. Settled(tr, {t}, "arch", rewritten)
  <2> HIDE DEF rewritten, repaired
  <2> QED BY <1>3, <1>5 DEF Settled
<1> QED BY <1>6

\* Where files are is all that matters of a tree.
LEMMA SettledFrame ==
  ASSUME NEW tr, NEW tr2, NEW moves, NEW dir, NEW links,
         \A u \in Tasks : /\ tr2[Live(u)] = NoFile <=> tr[Live(u)] = NoFile
                          /\ tr2[Arch(u)] = NoFile <=> tr[Arch(u)] = NoFile
  PROVE  Settled(tr2, moves, dir, links) <=> Settled(tr, moves, dir, links)
BY DEF Settled, Stays

LEMMA OwedFrame ==
  ASSUME NEW tr, NEW tr2, NEW moves, NEW name, NEW links,
         \A u \in Tasks : /\ tr2[Live(u)] = NoFile <=> tr[Live(u)] = NoFile
                          /\ tr2[Arch(u)] = NoFile <=> tr[Arch(u)] = NoFile
  PROVE  Owed(tr2, moves, name, links) <=> Owed(tr, moves, name, links)
BY DEF Owed, Stays

\* The slot of a completion changes nothing: its task was to be there anyway.
LEMMA SlotSettles ==
  ASSUME NEW tr, NEW tr2, NEW t \in Tasks, NEW dir, NEW links, tr[Live(t)] # NoFile,
         \A u \in Tasks : /\ tr2[Live(u)] = tr[Live(u)]
                          /\ u # t => tr2[Arch(u)] = tr[Arch(u)]
  PROVE  /\ Settled(tr, {t}, dir, links) => Settled(tr2, {t}, dir, links)
         /\ Settled(tr, {}, dir, links) => Settled(tr2, {}, dir, links)
BY DEF Settled, Stays

\* Once a task has moved, the links that waited for it lead to it.
LEMMA MoveSettles ==
  ASSUME NEW tr, NEW tr2, NEW moves, NEW t \in moves, NEW dir, NEW links,
         tr2[Live(t)] = NoFile, tr2[Arch(t)] # NoFile,
         \A u \in Tasks : u # t => tr2[Live(u)] = tr[Live(u)] /\ tr2[Arch(u)] = tr[Arch(u)],
         Settled(tr, moves, dir, links)
  PROVE  Settled(tr2, moves \ {t}, dir, links)
BY DEF Settled, Stays


-----------------------------------------------------------------------------
(***************************************************************************)
(* A command's walk, over the whole tree.  Between the start of a command  *)
(* and its end, the rerun of an interrupted one included, each file has    *)
(* its links either as before the command (Owed) or as the walk leaves     *)
(* them (Settled); the live file of the task being completed stays as it   *)
(* was.                                                                    *)
(***************************************************************************)
MovesOf(tr, c) == IF c = Archive THEN misfiledTasks(tr) ELSE {c.id}

WalkedTo(tr, c, unvisited, n, links) ==
  IF c # Archive /\ n = Live(c.id) THEN Settled(tr, {}, "live", links)
  ELSE IF n \in unvisited THEN Owed(tr, MovesOf(tr, c), n, links)
  ELSE Settled(tr, MovesOf(tr, c), After(n, MovesOf(tr, c)), links)

Walk(tr, c, unvisited) ==
  \A n \in Names : tr[n] # NoFile => WalkedTo(tr, c, unvisited, n, tr[n].links)

AllSettled(tr) == \A n \in Names : tr[n] # NoFile => Settled(tr, {}, n[1], tr[n].links)

\* What no command is rewriting: it is settled, or owed by the command to rerun.
Resting(tr, unf) == IF unf = {} THEN AllSettled(tr) ELSE \A c \in unf : Walk(tr, c, Names)

\* What a walk has not put in place yet.
Unvisited(r) == r.todo \cup {n \in Names : r.step = "save" /\ n = r.at}

WalkLinks(r, tr) ==
  /\ Walk(tr, r.cmd, Unvisited(r))
  /\ r.cmd # Archive => Settled(tr, {r.cmd.id}, "arch", r.held.links)
  /\ r.step = "save" =>
       /\ Settled(tr, MovesOf(tr, r.cmd), After(r.at, MovesOf(tr, r.cmd)), r.next.links)
       /\ \A t \in Tasks : r.at = Live(t) => r.next.links[t] # "root"
  /\ r.step \notin {"repair", "save"} => r.todo = {}

RunLinks(r, tr, unf) ==
  /\ r.step # "idle" => unf \subseteq {r.cmd} /\ r.moves = MovesOf(tr, r.cmd)
  /\ r.step = "slot" /\ r.cmd # Archive => r.held.links = tr[Live(r.cmd.id)].links
  /\ r.step \notin {"idle", "slot"} => WalkLinks(r, tr)

\* No live task cites itself by its repository-root path.
NoSelfRoot(tr) == \A t \in Tasks : tr[Live(t)] # NoFile => tr[Live(t)].links[t] # "root"

LinkInv ==
  /\ \A p \in Procs : RunLinks(run[p], tree, unfinished)
  /\ (\A p \in Procs : run[p].step \in {"idle", "slot"}) => Resting(tree, unfinished)
  /\ \A c, d \in unfinished : c = d
  /\ NoSelfRoot(tree)

LEMMA SettledOwes ==
  ASSUME NEW tr, NEW moves, NEW name, NEW links
  PROVE  /\ Settled(tr, moves, After(name, moves), links) => Owed(tr, moves, name, links)
         /\ Settled(tr, {}, name[1], links) => Owed(tr, moves, name, links)
BY DEF Settled, Owed

\* A command starts its walk from a tree at rest, its own interrupted run's or not.
LEMMA RestWalks ==
  ASSUME NEW tr, NEW unf, NEW c, c # Archive => c.id \in Tasks,
         unf \subseteq {c}, Resting(tr, unf)
  PROVE  Walk(tr, c, Names)
<1>1. CASE unf = {}
  <2> SUFFICES ASSUME NEW n \in Names, tr[n] # NoFile
               PROVE  WalkedTo(tr, c, Names, n, tr[n].links)
    BY DEF Walk
  <2>1. Settled(tr, {}, n[1], tr[n].links)
    BY <1>1 DEF Resting, AllSettled
  <2>2. c # Archive /\ n = Live(c.id) => n[1] = "live"
    BY DEF Live
  <2> QED BY <2>1, <2>2, SettledOwes DEF WalkedTo
<1>2. CASE unf # {}
  BY <1>2 DEF Resting
<1> QED BY <1>1, <1>2

\* A walk broken off owes what it did.
LEMMA WalkWeakens ==
  ASSUME NEW tr, NEW c, NEW unvisited, Walk(tr, c, unvisited)
  PROVE  Walk(tr, c, Names)
BY SettledOwes DEF Walk, WalkedTo

\* Nothing is moved any more: nothing is owed.
LEMMA NothingOwed ==
  ASSUME NEW tr, Walk(tr, Archive, Names), misfiledTasks(tr) = {}
  PROVE  AllSettled(tr)
<1> SUFFICES ASSUME NEW n \in Names, tr[n] # NoFile
             PROVE  Settled(tr, {}, n[1], tr[n].links)
  BY DEF AllSettled
<1>1. Owed(tr, {}, n, tr[n].links)
  BY DEF Walk, WalkedTo, MovesOf
<1>2. After(n, {}) = n[1]
  BY AfterMove
<1> QED BY <1>1, <1>2 DEF Owed, Settled

\* One process at a time is all that moves.
LEMMA LinkUpdate ==
  ASSUME TypeOK, OneProcess, NEW p \in Procs, NEW r, run' = [run EXCEPT ![p] = r],
         RunLinks(r, tree', unfinished'),
         r.step \in {"idle", "slot"} => Resting(tree', unfinished'),
         \A c, d \in unfinished' : c = d,
         NoSelfRoot(tree')
  PROVE  LinkInv'
<1>1. run'[p] = r /\ \A q \in Procs : q = p
  BY DEF TypeOK, OneProcess
<1>2. \A q \in Procs : RunLinks(run'[q], tree', unfinished')
  BY <1>1
<1>3. (\A q \in Procs : run'[q].step \in {"idle", "slot"}) => Resting(tree', unfinished')
  BY <1>1
<1> HIDE DEF RunLinks, Resting, NoSelfRoot
<1> QED BY <1>2, <1>3 DEF LinkInv

LEMMA InitLinks == ASSUME SelfCites = {} PROVE Init => LinkInv
<1> SUFFICES ASSUME Init PROVE LinkInv
  OBVIOUS
<1>1. PICK place \in [Tasks -> Placements] :
        tree = [name \in Names |-> InitialFile(place, name)]
  BY DEF Init
<1>2. ASSUME NEW u \in Tasks PROVE Stays(tree, {}, InitialDir(place, u), u)
  <2>1. tree[Live(u)] = IF place[u] # "filed" THEN InitialTask(place, u) ELSE NoFile
    BY <1>1, SlotNames DEF InitialFile, Live
  <2>2. place[u] = "filed" => tree[Arch(u)] = InitialTask(place, u)
    BY <1>1, SlotNames DEF InitialFile, Arch
  <2>3. InitialTask(place, u) # NoFile
    BY InitialTaskType, NoFileIsNoFile
  <2> QED BY <2>1, <2>2, <2>3 DEF Stays, InitialDir
<1>3. ASSUME NEW owner, NEW dir \in {"live", "arch", "doc"}
      PROVE  Settled(tree, {}, dir, InitialLinks(place, owner, dir))
  <2> SUFFICES ASSUME NEW u \in Tasks, InitialLinks(place, owner, dir)[u] # "none"
               PROVE  Leads(dir, InitialLinks(place, owner, dir)[u]) = InitialDir(place, u)
    BY <1>2 DEF Settled
  <2>1. InitialDir(place, u) \in {"live", "arch"}
    BY DEF InitialDir
  <2>2. CASE dir = "doc"
    BY <2>1, <2>2, LeadsAbsolute DEF InitialLinks
  <2>3. CASE dir # "doc"
    <3>1. InitialLinks(place, owner, dir)[u] = RelativeText(dir, InitialDir(place, u))
      BY <2>3 DEF InitialLinks
    <3> QED BY <2>1, <2>3, <3>1, LeadsBack
  <2> QED BY <2>2, <2>3
<1>4. Settled(tree, {}, "live", NoLinks) /\ Settled(tree, {}, "arch", NoLinks)
  BY DEF Settled, NoLinks
<1>5. AllSettled(tree)
  <2> SUFFICES ASSUME NEW n \in Names, tree[n] # NoFile
               PROVE  Settled(tree, {}, n[1], tree[n].links)
    BY DEF AllSettled
  <2>1. n[1] \in {"live", "arch", "doc"} /\ (n[1] # "doc" => n[2] \in Tasks)
    BY DEF Names
  <2>2. tree[n] = InitialFile(place, n)
    BY <1>1
  <2>3. CASE n[1] = "doc"
    <3>1. tree[n].links = InitialLinks(place, n[2], "doc")
      BY <2>2, <2>3 DEF InitialFile, Stranger
    <3> QED BY <1>3, <2>3, <3>1
  <2>4. CASE n[1] # "doc" /\ tree[n] = InitialTask(place, n[2]) /\ n[1] = InitialDir(place, n[2])
    BY <1>3, <2>1, <2>4 DEF InitialTask
  <2>5. CASE n[1] = "arch" /\ tree[n] = Stranger
    BY <1>4, <2>5 DEF Stranger
  <2>6. \/ n[1] = "doc"
        \/ n[1] # "doc" /\ tree[n] = InitialTask(place, n[2]) /\ n[1] = InitialDir(place, n[2])
        \/ n[1] = "arch" /\ tree[n] = Stranger
    BY <2>1, <2>2 DEF InitialFile, InitialDir
  <2> QED BY <2>3, <2>4, <2>5, <2>6
<1>6. NoSelfRoot(tree)
  <2> SUFFICES ASSUME NEW t \in Tasks, tree[Live(t)] # NoFile
               PROVE  tree[Live(t)].links[t] # "root"
    BY DEF NoSelfRoot
  <2>1. tree[Live(t)] = InitialTask(place, t) /\ InitialDir(place, t) = "live"
    BY <1>1, SlotNames DEF InitialFile, Live, InitialDir
  <2>2. tree[Live(t)].links = InitialLinks(place, t, "live")
    BY <2>1 DEF InitialTask
  <2> QED BY <2>1, <2>2 DEF InitialLinks, RelativeText
<1>7. \A p \in Procs : RunLinks(run[p], tree, unfinished)
  BY DEF Init, Idle, RunLinks
<1> QED
  BY <1>5, <1>6, <1>7 DEF Init, LinkInv, Resting

LEMMA NextLinks ==
  ASSUME SoloAssumption, StrongInv, LinkInv, [Next]_vars
  PROVE  LinkInv'
<1>s. OneProcess /\ TornOutcomes = {} /\ RerunFirst = TRUE /\ TypeOK
  BY DEF SoloAssumption, StrongInv
<1>t. tree \in Trees /\ \A p \in Procs : run[p] \in Run
  BY DEF Trees, TypeOK, StrongInv
<1>c. ASSUME NEW p \in Procs
      PROVE  /\ run[p].cmd # Archive => run[p].cmd.id \in Tasks /\ run[p].cmd = Complete(run[p].cmd.id)
             /\ RunLinks(run[p], tree, unfinished) /\ RunSolo(run[p], tree)
  BY <1>s DEF TypeOK, Run, Commands, Complete, LinkInv, StrongInv, SoloInv
<1>d. ASSUME NEW u \in Tasks PROVE Complete(u) # Archive /\ Complete(u).id = u
  BY DEF Complete, Archive
<1>r. ASSUME NEW p \in Procs, run[p].step \in {"idle", "slot"} PROVE Resting(tree, unfinished)
  <2>1. \A q \in Procs : q = p
    BY <1>s DEF OneProcess
  <2> QED BY <1>r, <2>1 DEF LinkInv
<1>u. (\A c, d \in unfinished : c = d) /\ NoSelfRoot(tree)
  BY DEF LinkInv
<1>i. RunLinks(Idle, tree', unfinished') /\ Idle.step = "idle"
  BY DEF RunLinks, Idle
<1>0. CASE UNCHANGED <<tree, run, unfinished>>
  BY <1>0 DEF LinkInv, RunLinks, WalkLinks, Resting
<1>1. ASSUME NEW p \in Procs, Refuse(p) PROVE LinkInv'
  <2>1. run[p].step = "slot" /\ run' = [run EXCEPT ![p] = Idle] /\ UNCHANGED <<tree, unfinished>>
    BY <1>1 DEF Refuse
  <2>2. Resting(tree', unfinished')
    BY <1>r, <2>1
  <2> QED BY <1>i, <1>s, <1>u, <2>1, <2>2, LinkUpdate
<1>2. ASSUME NEW p \in Procs, AcceptCompletion(p) PROVE LinkInv'
  <2>0. PICK u \in Tasks : run[p].cmd = Complete(u)
    BY <1>2, <1>c DEF AcceptCompletion
  <2> DEFINE kept == Relinked(run[p].held, Live(u), {u})
             r == [run[p] EXCEPT !.step = "repair", !.todo = Names \ {Live(u)},
                                 !.resuming = tree[Arch(u)] # NoFile, !.held = kept]
  <2>1. /\ run[p] \in Run /\ run[p].held \in File /\ run[p].step = "slot"
        /\ run[p].cmd # Archive /\ run[p].cmd.id = u
    BY <1>2, <1>d, <1>s, <2>0 DEF AcceptCompletion, TypeOK, BuffersFilled
  <2>2. run' = [run EXCEPT ![p] = r] /\ UNCHANGED <<tree, unfinished>>
    BY <1>2, <2>1 DEF AcceptCompletion
  <2>3. kept.links = rewriteTaskLinks(tree, Live(u), run[p].held.links, {u})
    BY <2>1 DEF Relinked, File
  <2> HIDE DEF kept
  <2>4. /\ r.step = "repair" /\ r.cmd = run[p].cmd /\ r.held = kept /\ r.moves = run[p].moves
        /\ r.todo = Names \ {Live(u)}
    BY <2>1 DEF Run
  <2> HIDE DEF r
  <2>5. /\ unfinished \subseteq {run[p].cmd} /\ run[p].moves = MovesOf(tree, run[p].cmd)
        /\ run[p].held.links = tree[Live(u)].links /\ tree[Live(u)] # NoFile
    BY <1>c, <2>1 DEF RunLinks, RunSolo
  <2>6. Walk(tree, run[p].cmd, Names)
    BY <1>r, <2>1, <2>5, RestWalks
  <2>7. Settled(tree, {}, "live", tree[Live(u)].links)
    BY <2>1, <2>5, <2>6, SlotNames DEF Walk, WalkedTo
  <2>8. Settled(tree, {u}, "arch", kept.links)
    <3>1. tree[Live(u)].links \in [Tasks -> Texts] /\ tree[Live(u)].links[u] # "root"
      BY <1>u, <2>1, <2>5 DEF NoSelfRoot, File
    <3> QED BY <1>t, <2>3, <2>5, <2>7, <3>1, RelinkSettles
  <2>9. Walk(tree, run[p].cmd, Unvisited(r))
    <3>1. \A n \in Names : n # Live(u) => n \in Unvisited(r)
      BY <2>4 DEF Unvisited
    <3> QED BY <2>1, <2>6, <3>1 DEF Walk, WalkedTo
  <2>10. RunLinks(r, tree, unfinished)
    BY <2>1, <2>4, <2>5, <2>8, <2>9 DEF RunLinks, WalkLinks
  <2> QED BY <1>s, <1>u, <2>2, <2>4, <2>10, LinkUpdate
<1>3. ASSUME NEW p \in Procs, AcceptSweep(p) PROVE LinkInv'
  <2> DEFINE r == [run[p] EXCEPT !.step = "repair", !.todo = Names]
  <2>1. /\ run[p].step = "slot" /\ run[p].cmd = Archive
        /\ run' = [run EXCEPT ![p] = r] /\ UNCHANGED <<tree, unfinished>>
    BY <1>3 DEF AcceptSweep
  <2>2. /\ r.step = "repair" /\ r.cmd = run[p].cmd /\ r.moves = run[p].moves /\ r.todo = Names
    BY <1>t DEF Run
  <2> HIDE DEF r
  <2>3. unfinished \subseteq {run[p].cmd} /\ run[p].moves = MovesOf(tree, run[p].cmd)
    BY <1>c, <2>1 DEF RunLinks
  <2>4. Walk(tree, run[p].cmd, Names)
    BY <1>r, <2>1, <2>3, RestWalks
  <2>5. Unvisited(r) = Names
    BY <2>2 DEF Unvisited
  <2>6. RunLinks(r, tree, unfinished)
    BY <2>1, <2>2, <2>3, <2>4, <2>5 DEF RunLinks, WalkLinks
  <2> QED BY <1>s, <1>u, <2>1, <2>2, <2>6, LinkUpdate
\* What the walk makes of a file it has not visited.
<1>v. ASSUME NEW p \in Procs, run[p].step = "repair", NEW n \in run[p].todo, tree[n] # NoFile
      PROVE  /\ n \in Names /\ (run[p].cmd # Archive => n # Live(run[p].cmd.id))
             /\ Settled(tree, MovesOf(tree, run[p].cmd), After(n, MovesOf(tree, run[p].cmd)),
                        Repaired(tree, n, run[p].moves).links)
             /\ \A t \in Tasks : n = Live(t) => Repaired(tree, n, run[p].moves).links[t] # "root"
  <2> DEFINE moves == run[p].moves
             rewritten == rewriteTaskLinks(tree, n, tree[n].links, moves)
             repaired == ReplaceCitations(rewritten, moves)
  <2>1. n \in Names /\ moves \in SUBSET Tasks /\ moves = MovesOf(tree, run[p].cmd)
    BY <1>c, <1>t, <1>v DEF Run, RunLinks
  <2>2. tree[n] \in File /\ tree[n].links \in [Tasks -> Texts]
    BY <1>s, <1>v, <2>1 DEF TypeOK, File
  <2>3. Repaired(tree, n, moves).links = repaired
    BY <2>2 DEF Repaired, File
  <2>4. run[p].cmd # Archive => n # Live(run[p].cmd.id)
    BY <1>c, <1>v DEF RunSolo
  <2>5. Owed(tree, moves, n, tree[n].links)
    <3>1. Walk(tree, run[p].cmd, Unvisited(run[p])) /\ n \in Unvisited(run[p])
      BY <1>c, <1>v DEF RunLinks, WalkLinks, Unvisited
    <3> QED BY <1>v, <2>1, <2>4, <3>1 DEF Walk, WalkedTo
  <2>6. Settled(tree, moves, After(n, moves), repaired)
    BY <1>t, <2>1, <2>2, <2>5, RepairSettles
  <2>7. ASSUME NEW t \in Tasks, n = Live(t) PROVE repaired[t] # "root"
    <3>1. tree[n].links[t] # "root"
      BY <1>u, <1>v, <2>7 DEF NoSelfRoot
    <3>2. rewritten[t] # "root"
      BY <3>1 DEF rewriteTaskLinks, RelativeText
    <3> QED BY <3>2 DEF ReplaceCitations
  <2> QED BY <2>1, <2>3, <2>4, <2>6, <2>7
<1>4. ASSUME NEW p \in Procs, NEW n \in Names, Pass(p, n) PROVE LinkInv'
  <2> DEFINE r == [run[p] EXCEPT !.todo = run[p].todo \ {n}]
  <2>1. /\ run[p].step = "repair" /\ n \in run[p].todo
        /\ tree[n] # NoFile => Repaired(tree, n, run[p].moves) = tree[n]
        /\ run' = [run EXCEPT ![p] = r] /\ UNCHANGED <<tree, unfinished>>
    BY <1>4 DEF Pass
  <2>2. /\ r.step = "repair" /\ r.cmd = run[p].cmd /\ r.moves = run[p].moves
        /\ r.held = run[p].held /\ r.todo = run[p].todo \ {n}
    BY <1>t, <2>1 DEF Run
  <2> HIDE DEF r
  <2>3. tree[n] # NoFile =>
          /\ run[p].cmd # Archive => n # Live(run[p].cmd.id)
          /\ Settled(tree, MovesOf(tree, run[p].cmd), After(n, MovesOf(tree, run[p].cmd)), tree[n].links)
    BY <1>v, <2>1
  <2>4. WalkLinks(run[p], tree) /\ unfinished \subseteq {run[p].cmd}
        /\ run[p].moves = MovesOf(tree, run[p].cmd)
    BY <1>c, <2>1 DEF RunLinks
  <2>5. /\ n \notin Unvisited(r)
        /\ \A m \in Names : m # n => (m \in Unvisited(r) <=> m \in Unvisited(run[p]))
    BY <2>1, <2>2 DEF Unvisited
  <2>6. Walk(tree, r.cmd, Unvisited(r))
    <3> SUFFICES ASSUME NEW m \in Names, tree[m] # NoFile
                 PROVE  WalkedTo(tree, r.cmd, Unvisited(r), m, tree[m].links)
      BY DEF Walk
    <3>1. CASE m = n
      BY <2>2, <2>3, <2>5, <3>1 DEF WalkedTo
    <3>2. CASE m # n
      BY <2>2, <2>4, <2>5, <3>2 DEF WalkedTo, WalkLinks, Walk
    <3> QED BY <3>1, <3>2
  <2>7. RunLinks(r, tree, unfinished)
    BY <2>2, <2>4, <2>6 DEF RunLinks, WalkLinks
  <2> QED BY <1>s, <1>u, <2>1, <2>2, <2>7, LinkUpdate
<1>5. ASSUME NEW p \in Procs, NEW n \in Names, Read(p, n) PROVE LinkInv'
  <2> DEFINE next == Repaired(tree, n, run[p].moves)
             r == [run[p] EXCEPT !.step = "save", !.todo = run[p].todo \ {n}, !.at = n, !.next = next]
  <2>1. /\ run[p].step = "repair" /\ n \in run[p].todo /\ tree[n] # NoFile
        /\ run' = [run EXCEPT ![p] = r] /\ UNCHANGED <<tree, unfinished>>
    BY <1>5 DEF Read
  <2>2. /\ Settled(tree, MovesOf(tree, run[p].cmd), After(n, MovesOf(tree, run[p].cmd)), next.links)
        /\ \A t \in Tasks : n = Live(t) => next.links[t] # "root"
    BY <1>v, <2>1
  <2> HIDE DEF next
  <2>3. /\ r.step = "save" /\ r.cmd = run[p].cmd /\ r.moves = run[p].moves
        /\ r.held = run[p].held /\ r.todo = run[p].todo \ {n} /\ r.at = n /\ r.next = next
    BY <1>t, <2>1 DEF Run
  <2> HIDE DEF r
  <2>4. WalkLinks(run[p], tree) /\ unfinished \subseteq {run[p].cmd}
        /\ run[p].moves = MovesOf(tree, run[p].cmd)
    BY <1>c, <2>1 DEF RunLinks
  <2>5. \A m \in Names : m \in Unvisited(r) <=> m \in Unvisited(run[p])
    BY <2>1, <2>3 DEF Unvisited
  <2>6. Walk(tree, r.cmd, Unvisited(r))
    BY <2>3, <2>4, <2>5 DEF WalkLinks, Walk, WalkedTo
  <2>7. RunLinks(r, tree, unfinished)
    BY <2>2, <2>3, <2>4, <2>6 DEF RunLinks, WalkLinks
  <2> QED BY <1>s, <1>u, <2>1, <2>3, <2>7, LinkUpdate
<1>6. ASSUME NEW p \in Procs, EndWalk(p) PROVE LinkInv'
  <2>1. ASSUME NEW step \in {"rename", "remove", "write"},
               run' = [run EXCEPT ![p] = [run[p] EXCEPT !.step = step]]
        PROVE  LinkInv'
    <3> DEFINE r == [run[p] EXCEPT !.step = step]
    <3>1. /\ run[p].step = "repair" /\ run[p].todo = {} /\ UNCHANGED <<tree, unfinished>>
      BY <1>6 DEF EndWalk
    <3>2. /\ r.step = step /\ r.cmd = run[p].cmd /\ r.moves = run[p].moves
          /\ r.held = run[p].held /\ r.todo = {}
      BY <1>t, <3>1 DEF Run
    <3>3. run' = [run EXCEPT ![p] = r]
      BY <2>1
    <3> HIDE DEF r
    <3>4. Unvisited(r) = {} /\ Unvisited(run[p]) = {}
      BY <3>1, <3>2 DEF Unvisited
    <3>5. RunLinks(r, tree, unfinished)
      BY <1>c, <3>1, <3>2, <3>4 DEF RunLinks, WalkLinks
    <3> QED BY <1>s, <1>u, <3>1, <3>2, <3>3, <3>5, LinkUpdate
  <2> QED BY <1>6, <2>1 DEF EndWalk
<1>7. ASSUME NEW p \in Procs, Save(p) PROVE LinkInv'
  <2> DEFINE r == [run[p] EXCEPT !.step = "repair", !.at = NoFile, !.next = NoFile]
  <2>1. /\ run[p].step = "save" /\ run' = [run EXCEPT ![p] = r]
        /\ tree' = [tree EXCEPT ![run[p].at] = run[p].next] /\ UNCHANGED unfinished
    BY <1>7 DEF Save
  <2>2. /\ r.step = "repair" /\ r.cmd = run[p].cmd /\ r.moves = run[p].moves
        /\ r.held = run[p].held /\ r.todo = run[p].todo
    BY <1>t DEF Run
  <2> HIDE DEF r
  <2>3. /\ run[p].at \in Names /\ tree'[run[p].at] = run[p].next /\ tree[run[p].at] # NoFile
        /\ \A n \in Names : n # run[p].at => tree'[n] = tree[n]
        /\ run[p].cmd # Archive => run[p].at # Live(run[p].cmd.id)
    BY <1>c, <1>s, <2>1 DEF TypeOK, BuffersFilled, RunSolo
  <2>4. \A n \in Names : /\ tree'[n] = NoFile <=> tree[n] = NoFile
                         /\ tree[n] # NoFile => tree'[n].status = tree[n].status
    BY <1>7, SaveKeeps
  <2>5. MovesOf(tree', run[p].cmd) = MovesOf(tree, run[p].cmd)
    BY <2>4, SlotNames DEF MovesOf, misfiledTasks
  <2> DEFINE moves == MovesOf(tree, run[p].cmd)
  <2>6. \A u \in Tasks : /\ tree'[Live(u)] = NoFile <=> tree[Live(u)] = NoFile
                         /\ tree'[Arch(u)] = NoFile <=> tree[Arch(u)] = NoFile
    BY <2>4, SlotNames
  <2>7. \A m, dir, links : Settled(tree', m, dir, links) <=> Settled(tree, m, dir, links)
    BY <2>6, SettledFrame
  <2>8. \A m, name, links : Owed(tree', m, name, links) <=> Owed(tree, m, name, links)
    BY <2>6, OwedFrame
  <2>9. WalkLinks(run[p], tree) /\ unfinished \subseteq {run[p].cmd} /\ run[p].moves = moves
    BY <1>c, <2>1 DEF RunLinks
  <2>10. /\ Settled(tree, moves, After(run[p].at, moves), run[p].next.links)
         /\ \A t \in Tasks : run[p].at = Live(t) => run[p].next.links[t] # "root"
    BY <2>1, <2>9 DEF WalkLinks
  <2>11. \A m \in Names : m # run[p].at => (m \in Unvisited(r) <=> m \in Unvisited(run[p]))
    BY <2>1, <2>2 DEF Unvisited
  <2>12. Walk(tree', r.cmd, Unvisited(r))
    <3> SUFFICES ASSUME NEW m \in Names, tree'[m] # NoFile
                 PROVE  WalkedTo(tree', r.cmd, Unvisited(r), m, tree'[m].links)
      BY DEF Walk
    <3>1. CASE m = run[p].at
      <4>1. Settled(tree', moves, After(m, moves), tree'[m].links)
        BY <2>3, <2>7, <2>10, <3>1
      <4>2. Owed(tree', moves, m, tree'[m].links)
        BY <4>1, SettledOwes
      <4> QED BY <2>2, <2>3, <2>5, <3>1, <4>1, <4>2 DEF WalkedTo
    <3>2. CASE m # run[p].at
      <4>1. WalkedTo(tree, run[p].cmd, Unvisited(run[p]), m, tree[m].links)
        BY <2>4, <2>9 DEF WalkLinks, Walk
      <4> QED BY <2>2, <2>3, <2>5, <2>7, <2>8, <2>11, <3>2, <4>1 DEF WalkedTo
    <3> QED BY <3>1, <3>2
  <2>13. RunLinks(r, tree', unfinished')
    BY <2>1, <2>2, <2>5, <2>7, <2>9, <2>12 DEF RunLinks, WalkLinks
  <2>14. NoSelfRoot(tree')
    BY <1>u, <2>3, <2>4, <2>10, SlotNames DEF NoSelfRoot
  <2>15. \A c, d \in unfinished' : c = d
    BY <1>u, <2>1
  <2> QED BY <1>s, <2>1, <2>2, <2>13, <2>14, <2>15, LinkUpdate
<1>8. ASSUME NEW p \in Procs, WriteSlot(p) PROVE LinkInv'
  <2> DEFINE r == [run[p] EXCEPT !.step = "remove"]
  <2>0. PICK u \in Tasks : run[p].cmd = Complete(u)
    BY <1>8, <1>c, <1>s DEF WriteSlot, TypeOK, BuffersFilled
  <2>1. /\ run[p].step = "write" /\ run[p].cmd # Archive /\ run[p].cmd.id = u
        /\ run' = [run EXCEPT ![p] = r] /\ UNCHANGED unfinished
        /\ tree' = [tree EXCEPT ![Arch(u)] = run[p].held]
    BY <1>8, <1>d, <2>0 DEF WriteSlot
  <2>2. /\ r.step = "remove" /\ r.cmd = run[p].cmd /\ r.moves = run[p].moves
        /\ r.held = run[p].held /\ r.todo = run[p].todo
    BY <1>t DEF Run
  <2> HIDE DEF r
  <2>3. /\ tree'[Arch(u)] = run[p].held /\ \A n \in Names : n # Arch(u) => tree'[n] = tree[n]
    BY <1>s, <2>1, SlotNames DEF TypeOK
  <2>4. tree[Live(u)] # NoFile
    BY <1>c, <2>1 DEF RunSolo
  <2>5. \A t \in Tasks : /\ tree'[Live(t)] = tree[Live(t)]
                         /\ t # u => tree'[Arch(t)] = tree[Arch(t)]
    BY <2>3, SlotNames, SlotsDiffer
  <2>6. \A dir, links : /\ Settled(tree, {u}, dir, links) => Settled(tree', {u}, dir, links)
                        /\ Settled(tree, {}, dir, links) => Settled(tree', {}, dir, links)
    BY <2>4, <2>5, SlotSettles
  <2>7. WalkLinks(run[p], tree) /\ unfinished \subseteq {run[p].cmd} /\ run[p].moves = {u}
    BY <1>c, <2>1 DEF RunLinks, MovesOf
  <2>8. run[p].todo = {} /\ Unvisited(run[p]) = {} /\ Unvisited(r) = {}
    BY <2>1, <2>2, <2>7 DEF WalkLinks, Unvisited
  <2>9. Settled(tree', {u}, "arch", run[p].held.links) /\ After(Arch(u), {u}) = "arch"
    BY <2>1, <2>6, <2>7, AfterMove DEF WalkLinks
  <2>10. Walk(tree', r.cmd, Unvisited(r))
    <3> SUFFICES ASSUME NEW m \in Names, tree'[m] # NoFile
                 PROVE  WalkedTo(tree', r.cmd, Unvisited(r), m, tree'[m].links)
      BY DEF Walk
    <3>1. CASE m = Arch(u)
      BY <2>1, <2>2, <2>3, <2>8, <2>9, <3>1, SlotsDiffer DEF WalkedTo, MovesOf
    <3>2. CASE m # Arch(u)
      <4>1. WalkedTo(tree, run[p].cmd, {}, m, tree[m].links) /\ tree'[m] = tree[m]
        BY <2>3, <2>7, <2>8, <3>2 DEF WalkLinks, Walk
      <4> QED BY <2>1, <2>2, <2>6, <2>8, <4>1 DEF WalkedTo, MovesOf
    <3> QED BY <3>1, <3>2
  <2>11. RunLinks(r, tree', unfinished')
    BY <2>1, <2>2, <2>7, <2>8, <2>9, <2>10 DEF RunLinks, WalkLinks, MovesOf
  <2>12. NoSelfRoot(tree')
    BY <1>u, <2>5 DEF NoSelfRoot
  <2>13. \A c, d \in unfinished' : c = d
    BY <1>u, <2>1
  <2> QED BY <1>s, <2>1, <2>2, <2>11, <2>12, <2>13, LinkUpdate
<1>9. ASSUME NEW p \in Procs, Remove(p) PROVE LinkInv'
  <2>0. PICK u \in Tasks : run[p].cmd = Complete(u)
    BY <1>9, <1>c, <1>s DEF Remove, TypeOK, BuffersFilled
  <2>1. run[p].step = "remove" /\ run[p].cmd # Archive /\ run[p].cmd.id = u
    BY <1>9, <1>d, <2>0 DEF Remove
  <2>2. /\ tree[Live(u)] # NoFile /\ tree[Arch(u)] # NoFile
        /\ tree' = [tree EXCEPT ![Live(u)] = NoFile]
    BY <1>9, <1>s, <2>1, RemovalFindsTwin DEF Declares
  <2>3. run' = [run EXCEPT ![p] = Idle] /\ unfinished' = unfinished \ {run[p].cmd}
    BY <1>9, <2>1, <2>2 DEF Remove, Finish
  <2>4. tree'[Live(u)] = NoFile /\ \A n \in Names : n # Live(u) => tree'[n] = tree[n]
    BY <1>s, <2>2, SlotNames DEF TypeOK
  <2>5. /\ tree'[Arch(u)] # NoFile
        /\ \A t \in Tasks : t # u => tree'[Live(t)] = tree[Live(t)] /\ tree'[Arch(t)] = tree[Arch(t)]
    BY <2>2, <2>4, SlotNames, SlotsDiffer
  <2>6. \A dir, links : Settled(tree, {u}, dir, links) => Settled(tree', {}, dir, links)
    <3>1. {u} \ {u} = {} /\ u \in {u}
      OBVIOUS
    <3> QED BY <2>4, <2>5, <3>1, MoveSettles
  <2>7. WalkLinks(run[p], tree) /\ unfinished \subseteq {run[p].cmd}
    BY <1>c, <2>1 DEF RunLinks
  <2>8. Unvisited(run[p]) = {}
    BY <2>1, <2>7 DEF WalkLinks, Unvisited
  <2>9. AllSettled(tree')
    <3> SUFFICES ASSUME NEW n \in Names, tree'[n] # NoFile
                 PROVE  Settled(tree', {}, n[1], tree'[n].links)
      BY DEF AllSettled
    <3>1. n # Live(u) /\ tree'[n] = tree[n]
      BY <2>4
    <3>2. Settled(tree, {u}, After(n, {u}), tree[n].links)
      BY <2>1, <2>7, <2>8, <3>1 DEF WalkLinks, Walk, WalkedTo, MovesOf
    <3>3. After(n, {u}) = n[1]
      <4>1. CASE n[1] = "live"
        <5>1. PICK t \in Tasks : n = Live(t)
          BY <4>1, NameCases
        <5>2. After(n, {u}) = "live"
          BY <3>1, <5>1, AfterMove
        <5> QED BY <4>1, <5>2
      <4>2. CASE n[1] # "live"
        BY <4>2, AfterMove
      <4> QED BY <4>1, <4>2
    <3> QED BY <2>6, <3>1, <3>2, <3>3
  <2>10. unfinished' = {}
    BY <2>3, <2>7
  <2>11. Resting(tree', unfinished')
    BY <2>9, <2>10 DEF Resting
  <2>12. NoSelfRoot(tree')
    BY <1>u, <2>4, SlotNames DEF NoSelfRoot
  <2> QED BY <1>i, <1>s, <2>3, <2>10, <2>11, <2>12, LinkUpdate
<1>10. ASSUME NEW p \in Procs, NEW u \in Tasks, Rename(p, u) PROVE LinkInv'
  <2> DEFINE moves == run[p].moves
             left == moves \ {u}
             r == [run[p] EXCEPT !.moves = left]
  <2>1. /\ run[p].step = "rename" /\ u \in moves /\ tree[Live(u)] # NoFile /\ run[p].cmd = Archive
        /\ tree' = [tree EXCEPT ![Arch(u)] = tree[Live(u)], ![Live(u)] = NoFile]
    BY <1>10 DEF Rename, StrongInv, RenamesSweep
  <2>2. \/ left = {} /\ run' = [run EXCEPT ![p] = Idle] /\ unfinished' = unfinished \ {Archive}
        \/ run' = [run EXCEPT ![p] = r] /\ unfinished' = unfinished
    BY <1>10, <2>1 DEF Rename, Finish
  <2>3. /\ r.step = "rename" /\ r.cmd = Archive /\ r.moves = left
        /\ r.held = run[p].held /\ r.todo = run[p].todo
    BY <1>t, <2>1 DEF Run
  <2> HIDE DEF r
  <2>4. /\ tree'[Live(u)] = NoFile /\ tree'[Arch(u)] = tree[Live(u)]
        /\ \A n \in Names : n # Live(u) /\ n # Arch(u) => tree'[n] = tree[n]
    BY <1>s, <2>1, SlotNames, SlotsDiffer DEF TypeOK
  <2>5. \A t \in Tasks : t # u => tree'[Live(t)] = tree[Live(t)] /\ tree'[Arch(t)] = tree[Arch(t)]
    BY <2>4, SlotNames, SlotsDiffer
  <2>6. /\ WalkLinks(run[p], tree) /\ unfinished \subseteq {Archive}
        /\ moves = misfiledTasks(tree)
    BY <1>c, <2>1 DEF RunLinks, MovesOf
  <2>7. misfiledTasks(tree') = left
    BY <2>4, <2>5, <2>6 DEF misfiledTasks
  <2>8. run[p].todo = {} /\ Unvisited(run[p]) = {} /\ Unvisited(r) = {}
    BY <2>1, <2>3, <2>6 DEF WalkLinks, Unvisited
  <2> HIDE DEF moves
  <2>9. \A dir, links : Settled(tree, moves, dir, links) => Settled(tree', left, dir, links)
    BY <2>1, <2>4, <2>5, MoveSettles
  <2>10. ASSUME NEW n \in Names, tree'[n] # NoFile
         PROVE  Settled(tree', left, After(n, left), tree'[n].links)
    <3>1. \A m \in Names : tree[m] # NoFile => Settled(tree, moves, After(m, moves), tree[m].links)
      BY <2>1, <2>6, <2>8 DEF WalkLinks, Walk, WalkedTo, MovesOf
    <3>2. CASE n = Arch(u)
      <4>1. After(Live(u), moves) = "arch" /\ After(n, left) = "arch"
        BY <2>1, <3>2, AfterMove
      <4>2. Settled(tree, moves, "arch", tree[Live(u)].links)
        BY <2>1, <3>1, <4>1, SlotNames
      <4> QED BY <2>4, <2>9, <3>2, <4>1, <4>2
    <3>3. CASE n # Arch(u)
      <4>1. tree'[n] = tree[n] /\ n # Live(u)
        BY <2>4, <2>10, <3>3
      <4>2. After(n, left) = After(n, moves)
        <5>1. CASE n[1] = "live"
          <6>1. PICK t \in Tasks : n = Live(t)
            BY <5>1, NameCases
          <6>2. t # u /\ (t \in left <=> t \in moves)
            BY <4>1, <6>1
          <6>3. After(Live(t), left) = (IF t \in left THEN "arch" ELSE "live")
            BY AfterMove
          <6>4. After(Live(t), moves) = (IF t \in moves THEN "arch" ELSE "live")
            BY AfterMove
          <6> QED BY <6>1, <6>2, <6>3, <6>4
        <5>2. CASE n[1] # "live"
          BY <5>2, AfterMove
        <5> QED BY <5>1, <5>2
      <4> QED BY <2>9, <2>10, <3>1, <4>1, <4>2
    <3> QED BY <3>2, <3>3
  <2>11. NoSelfRoot(tree')
    BY <1>u, <2>4, <2>5 DEF NoSelfRoot
  <2>12. \A c, d \in unfinished' : c = d
    BY <1>u, <2>2
  <2>13. CASE left = {} /\ run' = [run EXCEPT ![p] = Idle] /\ unfinished' = unfinished \ {Archive}
    <3>1. unfinished' = {}
      BY <2>6, <2>13
    <3>2. \A n \in Names : After(n, left) = n[1]
      BY <2>13, AfterMove
    <3>3. \A n \in Names : tree'[n] # NoFile => Settled(tree', {}, n[1], tree'[n].links)
      BY <2>10, <2>13, <3>2
    <3>4. Resting(tree', unfinished')
      BY <3>1, <3>3 DEF Resting, AllSettled
    <3> QED BY <1>i, <1>s, <2>11, <2>12, <2>13, <3>4, LinkUpdate
  <2>14. CASE run' = [run EXCEPT ![p] = r] /\ unfinished' = unfinished
    <3>1. MovesOf(tree', Archive) = left
      BY <2>7 DEF MovesOf
    <3>2. Walk(tree', Archive, Unvisited(r))
      BY <2>8, <2>10, <3>1 DEF Walk, WalkedTo
    <3>3. RunLinks(r, tree', unfinished')
      BY <2>3, <2>6, <2>8, <2>14, <3>1, <3>2 DEF RunLinks, WalkLinks
    <3> QED BY <1>s, <2>3, <2>11, <2>12, <2>14, <3>3, LinkUpdate
  <2> QED BY <2>2, <2>13, <2>14
<1>11. ASSUME NEW p \in Procs, NEW t \in Tasks, RenameFails(p, t) PROVE FALSE
  <2>1. /\ run[p].step = "rename" /\ t \in run[p].moves /\ tree[Live(t)] = NoFile
        /\ run[p].cmd = Archive
    BY <1>11 DEF RenameFails, StrongInv, RenamesSweep
  <2>2. run[p].moves = misfiledTasks(tree)
    BY <1>c, <2>1 DEF RunLinks, MovesOf
  <2> QED BY <2>1, <2>2 DEF misfiledTasks
<1>12. ASSUME NEW p \in Procs, Stop(p) PROVE LinkInv'
  <2>1. /\ run[p].step # "idle" /\ run' = [run EXCEPT ![p] = Idle] /\ tree' = tree
        /\ unfinished' = unfinished \cup {run[p].cmd}
    BY <1>12 DEF Stop, Abandon
  <2>2. unfinished \subseteq {run[p].cmd}
    BY <1>c, <2>1 DEF RunLinks
  <2>3. unfinished' = {run[p].cmd}
    BY <2>1, <2>2
  <2>4. Walk(tree, run[p].cmd, Names)
    <3>1. CASE run[p].step = "slot"
      BY <1>c, <1>r, <2>2, <3>1, RestWalks
    <3>2. CASE run[p].step # "slot"
      <4>1. Walk(tree, run[p].cmd, Unvisited(run[p]))
        BY <1>c, <2>1, <3>2 DEF RunLinks, WalkLinks
      <4> QED BY <4>1, WalkWeakens
    <3> QED BY <3>1, <3>2
  <2>5. Resting(tree', unfinished')
    BY <2>1, <2>3, <2>4 DEF Resting
  <2>6. NoSelfRoot(tree')
    BY <1>u, <2>1
  <2> QED BY <1>i, <1>s, <2>1, <2>3, <2>5, <2>6, LinkUpdate
\* The user finishes what was interrupted before starting anything else.
<1>m. ASSUME NEW p \in Procs, NEW c, MayStart(p, c)
      PROVE  run[p].step = "idle" /\ unfinished \subseteq {c}
  BY <1>m, <1>s, <1>u DEF MayStart
<1>13. ASSUME NEW p \in Procs, StartArchive(p) PROVE LinkInv'
  <2> DEFINE r == [Idle EXCEPT !.step = "slot", !.cmd = Archive, !.moves = misfiledTasks(tree)]
  <2>1. /\ run[p].step = "idle" /\ unfinished \subseteq {Archive}
        /\ run' = [run EXCEPT ![p] = r] /\ UNCHANGED <<tree, unfinished>>
    BY <1>13, <1>m DEF StartArchive
  <2>2. r.step = "slot" /\ r.cmd = Archive /\ r.moves = misfiledTasks(tree)
    BY DEF Idle
  <2> HIDE DEF r
  <2>3. Resting(tree, unfinished)
    BY <1>r, <2>1
  <2>4. RunLinks(r, tree, unfinished)
    BY <2>1, <2>2 DEF RunLinks, MovesOf
  <2> QED BY <1>s, <1>u, <2>1, <2>3, <2>4, LinkUpdate
<1>14. ASSUME NEW p \in Procs, ArchiveClean(p) PROVE LinkInv'
  <2>1. /\ run[p].step = "idle" /\ unfinished \subseteq {Archive} /\ misfiledTasks(tree) = {}
        /\ unfinished' = unfinished \ {Archive} /\ UNCHANGED <<tree, run>>
    BY <1>14, <1>m DEF ArchiveClean
  <2>2. unfinished' = {}
    BY <2>1
  <2>3. Walk(tree, Archive, Names)
    <3>1. Resting(tree, unfinished)
      BY <1>r, <2>1
    <3> QED BY <2>1, <3>1, RestWalks
  <2>4. AllSettled(tree)
    BY <2>1, <2>3, NothingOwed
  <2>5. \A q \in Procs : q = p
    BY <1>s DEF OneProcess
  <2>6. \A q \in Procs : RunLinks(run'[q], tree', unfinished')
    BY <2>1, <2>5 DEF RunLinks
  <2>7. NoSelfRoot(tree')
    BY <1>u, <2>1
  <2>8. Resting(tree', unfinished')
    BY <2>1, <2>2, <2>4 DEF Resting
  <2> HIDE DEF RunLinks, Resting, NoSelfRoot
  <2> QED BY <2>2, <2>6, <2>7, <2>8 DEF LinkInv
<1>15. ASSUME NEW p \in Procs, NEW u \in Tasks, StartComplete(p, u) PROVE LinkInv'
  <2> DEFINE held == completedTaskContent(tree[Live(u)])
             r == [Idle EXCEPT !.step = "slot", !.cmd = Complete(u), !.moves = {u}, !.held = held]
  <2>1. /\ run[p].step = "idle" /\ unfinished \subseteq {Complete(u)} /\ tree[Live(u)] # NoFile
        /\ run' = [run EXCEPT ![p] = r] /\ UNCHANGED <<tree, unfinished>>
    BY <1>15, <1>m DEF StartComplete, Declares
  <2>2. held.links = tree[Live(u)].links
    BY <1>s, <2>1, SlotNames DEF TypeOK, completedTaskContent, File
  <2> HIDE DEF held
  <2>3. r.step = "slot" /\ r.cmd = Complete(u) /\ r.moves = {u} /\ r.held = held
    BY DEF Idle
  <2> HIDE DEF r
  <2>4. Resting(tree, unfinished)
    BY <1>r, <2>1
  <2>5. RunLinks(r, tree, unfinished)
    BY <1>d, <2>1, <2>2, <2>3 DEF RunLinks, MovesOf
  <2> QED BY <1>s, <1>u, <2>1, <2>4, <2>5, LinkUpdate
<1>e. ASSUME NEW u \in Tasks, MayEdit(u), NEW file \in File, file.links = tree[Live(u)].links,
             tree' = [tree EXCEPT ![Live(u)] = file], UNCHANGED <<run, unfinished>>
      PROVE  LinkInv'
  <2>1. (\A p \in Procs : run[p].step = "idle") /\ unfinished = {} /\ tree[Live(u)] # NoFile
    BY <1>e, <1>s DEF MayEdit, Quiet, Declares
  <2>2. \A n \in Names : /\ tree'[n] = NoFile <=> tree[n] = NoFile
                         /\ tree[n] # NoFile => tree'[n].links = tree[n].links
    BY <1>e, <1>s, <2>1, SlotNames, NoFileIsNoFile DEF TypeOK
  <2>3. AllSettled(tree)
    BY <2>1 DEF LinkInv, Resting
  <2>4. \A m, dir, links : Settled(tree', m, dir, links) <=> Settled(tree, m, dir, links)
    <3>1. \A t \in Tasks : /\ tree'[Live(t)] = NoFile <=> tree[Live(t)] = NoFile
                           /\ tree'[Arch(t)] = NoFile <=> tree[Arch(t)] = NoFile
      BY <2>2, SlotNames
    <3> QED BY <3>1, SettledFrame
  <2>5. AllSettled(tree')
    BY <2>2, <2>3, <2>4 DEF AllSettled
  <2>6. NoSelfRoot(tree')
    BY <1>u, <2>2, SlotNames DEF NoSelfRoot
  <2>7. \A p \in Procs : RunLinks(run'[p], tree', unfinished')
    BY <1>e, <2>1 DEF RunLinks
  <2>8. Resting(tree', unfinished')
    BY <1>e, <2>1, <2>5 DEF Resting
  <2> HIDE DEF RunLinks, Resting, NoSelfRoot
  <2> QED BY <1>e, <2>1, <2>6, <2>7, <2>8 DEF LinkInv
<1>16. ASSUME NEW t \in Tasks, EditBody(t) PROVE LinkInv'
  <2> DEFINE file == [tree[Live(t)] EXCEPT !.body = edits + 1]
  <2>1. file \in File /\ file.links = tree[Live(t)].links
    BY <1>16, <1>s, SlotNames, BoundsAreNat DEF EditBody, MayEdit, Declares, TypeOK, File, Bodies
  <2>2. MayEdit(t) /\ tree' = [tree EXCEPT ![Live(t)] = file] /\ UNCHANGED <<run, unfinished>>
    BY <1>16 DEF EditBody
  <2> HIDE DEF file
  <2> QED BY <1>e, <2>1, <2>2
<1>17. ASSUME NEW t \in Tasks, NEW status \in Statuses, EditStatus(t, status) PROVE LinkInv'
  <2> DEFINE file == [tree[Live(t)] EXCEPT !.status = status]
  <2>1. file \in File /\ file.links = tree[Live(t)].links
    BY <1>17, <1>s, SlotNames DEF EditStatus, MayEdit, Declares, TypeOK, File
  <2>2. MayEdit(t) /\ tree' = [tree EXCEPT ![Live(t)] = file] /\ UNCHANGED <<run, unfinished>>
    BY <1>17 DEF EditStatus
  <2> HIDE DEF file
  <2> QED BY <1>e, <2>1, <2>2
<1>18. CASE UNCHANGED vars
  BY <1>0, <1>18 DEF vars
<1> QED
  BY <1>s, <1>1, <1>2, <1>3, <1>4, <1>5, <1>6, <1>7, <1>8, <1>9, <1>10, <1>11, <1>12, <1>13,
     <1>14, <1>15, <1>16, <1>17, <1>18
     DEF Next, Edit, Start, Step, Fail

\* One command at a time, with the user rerunning what was interrupted and no
\* task citing itself by its repository-root path: between commands, every
\* reference to a task resolves.
THEOREM LinksAreRepaired ==
  ASSUME SoloAssumption, SelfCites = {}
  PROVE  Spec => []LinksResolve
<1>1. Init => StrongInv /\ LinkInv
  BY StrongInvHolds, InitLinks
<1>2. StrongInv /\ LinkInv /\ [Next]_vars => (StrongInv /\ LinkInv)'
  BY StrongInvHolds, NextLinks
<1>3. LinkInv => LinksResolve
  <2> SUFFICES ASSUME LinkInv, Quiet, unfinished = {},
                      NEW name \in Names, NEW u \in Tasks, tree[name] # NoFile
               PROVE  Resolves(name, u)
    BY DEF LinksResolve
  <2>1. Settled(tree, {}, name[1], tree[name].links)
    BY DEF LinkInv, Quiet, Resting, AllSettled
  <2> QED BY <2>1 DEF Settled, Stays, Resolves, Exists, Live, Arch
<1> QED
  BY <1>1, <1>2, <1>3, PTL DEF Spec

-----------------------------------------------------------------------------
(***************************************************************************)
(* "Every interruption converges on a rerun", all of it but fairness: the  *)
(* rerun is accepted and fails on nothing of its own making, each of its   *)
(* steps leaves less to do, and when it ends its task is filed, or nothing *)
(* is misfiled.  Writes may be cut short after the frontmatter.            *)
(***************************************************************************)
RerunAssumption == OneProcess /\ "empty" \notin TornOutcomes /\ RerunFirst = TRUE

\* A command that runs is the one that was interrupted, if any was, and the file
\* it is about still lies where the command found it.
RunRerun(r, tr, unf) ==
  /\ r.step = "save" => tr[r.at] # NoFile /\ r.next.status = tr[r.at].status
  /\ r.step # "idle" => unf \subseteq {r.cmd}
  /\ r.step # "idle" /\ r.cmd = Archive => r.moves = misfiledTasks(tr) /\ r.moves # {}
  /\ r.step # "idle" /\ r.cmd # Archive => tr[Live(r.cmd.id)] # NoFile

InHand(t) ==
  \/ Complete(t) \in unfinished
  \/ \E p \in Procs : run[p].step # "idle" /\ run[p].cmd = Complete(t)

RerunInv ==
  /\ \A c, d \in unfinished : c = d
  /\ \A t \in Tasks : Complete(t) \in unfinished => tree[Live(t)] # NoFile
  /\ \A p \in Procs : RunRerun(run[p], tree, unfinished)
  /\ \A t \in Tasks : Twofold(tree, t) => InHand(t)

RerunState == TypeOK /\ OwnerInv /\ RenamesSweep /\ RerunInv

\* The two commands differ, and so do the completions of two tasks.
LEMMA CommandsDiffer ==
  ASSUME NEW t \in Tasks, NEW u \in Tasks
  PROVE  Complete(t) # Archive /\ (Complete(t) = Complete(u) => t = u)
BY DEF Complete, Archive

LEMMA RerunUpdate ==
  ASSUME TypeOK, OneProcess, NEW p \in Procs, NEW r, run' = [run EXCEPT ![p] = r],
         RunRerun(r, tree', unfinished'),
         \A c, d \in unfinished' : c = d,
         \A t \in Tasks : Complete(t) \in unfinished' => tree'[Live(t)] # NoFile,
         \A t \in Tasks : Twofold(tree', t) =>
           Complete(t) \in unfinished' \/ (r.step # "idle" /\ r.cmd = Complete(t))
  PROVE  RerunInv'
<1>1. run'[p] = r /\ \A q \in Procs : q = p
  BY DEF TypeOK, OneProcess
<1> QED
  BY <1>1 DEF RerunInv, InHand, RunRerun, Twofold, Declares, misfiledTasks, finishedTaskStatuses,
              Live, Arch, Archive, Complete

\* Rewriting one file, of the same task and with the same status, moves nothing.
LEMMA RewriteMovesNothing ==
  ASSUME TypeOK, OwnerInv, NEW p \in Procs, run[p].step = "save", RunRerun(run[p], tree, unfinished),
         NEW file \in File, file.id = run[p].next.id, file.status = run[p].next.status,
         tree' = [tree EXCEPT ![run[p].at] = file]
  PROVE  /\ misfiledTasks(tree') = misfiledTasks(tree)
         /\ \A t \in Tasks : /\ tree'[Live(t)] = NoFile <=> tree[Live(t)] = NoFile
                             /\ Twofold(tree', t) => Twofold(tree, t)
<1>1. /\ run[p].at \in Names /\ tree[run[p].at] # NoFile /\ file # NoFile
      /\ file.status = tree[run[p].at].status /\ RunOwned(run[p], tree)
  BY NoFileIsNoFile DEF TypeOK, BuffersFilled, RunRerun, OwnerInv
<1>2. \A n \in Names : /\ tree'[n] = NoFile <=> tree[n] = NoFile
                       /\ tree[n] # NoFile => tree'[n].status = tree[n].status
  BY <1>1 DEF TypeOK
<1>3. ASSUME NEW t \in Tasks, tree[Arch(t)] # NoFile PROVE tree'[Arch(t)].id = tree[Arch(t)].id
  <2>1. run[p].at = Arch(t) => file.id = tree[Arch(t)].id
    BY <1>1 DEF RunOwned
  <2> QED BY <1>1, <2>1, SlotNames DEF TypeOK
<1>4. misfiledTasks(tree') = misfiledTasks(tree)
  BY <1>2, SlotNames DEF misfiledTasks
<1> QED
  BY <1>2, <1>3, <1>4, SlotNames DEF Twofold, Declares

LEMMA InitRerun == Init => RerunInv
<1> SUFFICES ASSUME Init PROVE RerunInv
  OBVIOUS
<1>1. PICK place \in [Tasks -> Placements] :
        tree = [name \in Names |-> InitialFile(place, name)]
  BY DEF Init
<1>2. \A p \in Procs : RunRerun(run[p], tree, unfinished)
  BY DEF Init, Idle, RunRerun
<1>3. ASSUME NEW t \in Tasks PROVE ~Twofold(tree, t)
  <2>1. tree[Live(t)] = IF place[t] # "filed" THEN InitialTask(place, t) ELSE NoFile
    BY <1>1, SlotNames DEF InitialFile, Live
  <2>2. place[t] # "filed" => tree[Arch(t)] \in {Stranger, NoFile}
    BY <1>1, SlotNames DEF InitialFile, Arch
  <2>3. Stranger.id = NoTask /\ NoTask # t
    BY NoTaskIsNoTask DEF Stranger
  <2> QED
    BY <2>1, <2>2, <2>3 DEF Twofold, Declares
<1> QED
  BY <1>2, <1>3 DEF RerunInv, Init

LEMMA NextRerun ==
  ASSUME RerunAssumption, TypeOK, OwnerInv, RenamesSweep, RerunInv, [Next]_vars
  PROVE  RerunInv'
<1>a. OneProcess /\ "empty" \notin TornOutcomes /\ RerunFirst = TRUE
  BY DEF RerunAssumption
<1>t. tree \in Trees /\ \A p \in Procs : run[p] \in Run
  BY DEF Trees, TypeOK
<1>c. ASSUME NEW p \in Procs, run[p].cmd # Archive
      PROVE  run[p].cmd.id \in Tasks /\ run[p].cmd = Complete(run[p].cmd.id)
  BY <1>c DEF TypeOK, Run, Commands, Complete
<1>i. Idle.step = "idle" /\ \A tr, unf : RunRerun(Idle, tr, unf)
  BY DEF Idle, RunRerun
<1>u. /\ \A c, d \in unfinished : c = d
      /\ \A t \in Tasks : Complete(t) \in unfinished => tree[Live(t)] # NoFile
  BY DEF RerunInv
<1>p. ASSUME NEW p \in Procs
      PROVE  /\ RunRerun(run[p], tree, unfinished) /\ RunOwned(run[p], tree)
             /\ \A t \in Tasks : Twofold(tree, t) =>
                  Complete(t) \in unfinished \/ (run[p].step # "idle" /\ run[p].cmd = Complete(t))
  BY <1>a DEF RerunInv, OwnerInv, OneProcess, InHand
\* A command goes on and changes no file.
<1>g. ASSUME NEW p \in Procs, NEW r, run' = [run EXCEPT ![p] = r], run[p].step # "idle",
             r.cmd = run[p].cmd, r.moves = run[p].moves, r.step # "idle",
             r.step = "save" => tree[r.at] # NoFile /\ r.next.status = tree[r.at].status,
             UNCHANGED <<tree, unfinished>>
      PROVE  RerunInv'
  <2>1. RunRerun(r, tree, unfinished)
    BY <1>g, <1>p DEF RunRerun
  <2> QED BY <1>a, <1>g, <1>p, <1>u, <2>1, RerunUpdate
\* It ends, interrupted, having rewritten at most one file in place.
<1>e. ASSUME NEW p \in Procs, run[p].step # "idle", run' = [run EXCEPT ![p] = Idle],
             unfinished' = unfinished \cup {run[p].cmd},
             \A t \in Tasks : /\ tree'[Live(t)] = NoFile <=> tree[Live(t)] = NoFile
                              /\ Twofold(tree', t) => Twofold(tree, t) \/ run[p].cmd = Complete(t)
      PROVE  RerunInv'
  <2>1. unfinished' = {run[p].cmd}
    BY <1>e, <1>p DEF RunRerun
  <2>2. ASSUME NEW t \in Tasks, run[p].cmd = Complete(t) PROVE tree[Live(t)] # NoFile
    BY <1>e, <1>p, <2>2, CommandsDiffer DEF RunRerun, Complete
  <2>3. \A t \in Tasks : Complete(t) \in unfinished' => tree'[Live(t)] # NoFile
    BY <1>e, <2>1, <2>2
  <2>4. \A t \in Tasks : Twofold(tree', t) => Complete(t) \in unfinished'
    BY <1>e, <1>p
  <2>5. \A c, d \in unfinished' : c = d
    BY <2>1
  <2> QED BY <1>a, <1>e, <1>i, <2>3, <2>4, <2>5, RerunUpdate
<1>1. ASSUME NEW p \in Procs, Refuse(p) PROVE RerunInv'
  <2>1. /\ run' = [run EXCEPT ![p] = Idle] /\ run[p].step = "slot"
        /\ SlotsTaken(p) /\ UNCHANGED <<tree, unfinished>>
    BY <1>1 DEF Refuse
  <2>2. ASSUME NEW t \in Tasks, run[p].cmd = Complete(t), Twofold(tree, t) PROVE FALSE
    <3>1. run[p].cmd # Archive /\ run[p].moves = {t}
      BY <1>p, <2>1, <2>2, CommandsDiffer DEF RunOwned, Complete
    <3> QED BY <2>1, <2>2, <3>1 DEF SlotsTaken, Twofold, Declares
  <2> QED BY <1>a, <1>i, <1>p, <1>u, <2>1, <2>2, RerunUpdate
<1>2. ASSUME NEW p \in Procs, AcceptCompletion(p) PROVE RerunInv'
  <2> DEFINE held == Relinked(run[p].held, Live(run[p].cmd.id), {run[p].cmd.id})
             r == [run[p] EXCEPT !.step = "repair", !.todo = Names \ {Live(run[p].cmd.id)},
                                 !.resuming = tree[Arch(run[p].cmd.id)] # NoFile, !.held = held]
  <2>1. run' = [run EXCEPT ![p] = r] /\ run[p].step = "slot" /\ UNCHANGED <<tree, unfinished>>
    BY <1>2 DEF AcceptCompletion
  <2> HIDE DEF held
  <2>2. r.step = "repair" /\ r.cmd = run[p].cmd /\ r.moves = run[p].moves
    BY <1>t DEF Run
  <2> HIDE DEF r
  <2> QED BY <1>g, <2>1, <2>2
<1>3. ASSUME NEW p \in Procs, NEW r, r \in {[run[p] EXCEPT !.step = "repair", !.todo = Names]}
                 \cup {[run[p] EXCEPT !.todo = run[p].todo \ {n}] : n \in Names}
                 \cup {[run[p] EXCEPT !.step = step] : step \in {"rename", "remove", "write"}},
             run[p].step \in {"slot", "repair"}, run' = [run EXCEPT ![p] = r],
             UNCHANGED <<tree, unfinished>>
      PROVE  RerunInv'
  <2>1. r.step \notin {"save", "idle"} /\ r.cmd = run[p].cmd /\ r.moves = run[p].moves
    BY <1>3, <1>t DEF Run
  <2> QED BY <1>3, <1>g, <2>1
<1>4. ASSUME NEW p \in Procs, AcceptSweep(p) PROVE RerunInv'
  BY <1>4, <1>3 DEF AcceptSweep
<1>5. ASSUME NEW p \in Procs, NEW n \in Names, Pass(p, n) PROVE RerunInv'
  BY <1>5, <1>3 DEF Pass
<1>6. ASSUME NEW p \in Procs, EndWalk(p) PROVE RerunInv'
  BY <1>6, <1>3 DEF EndWalk
<1>7. ASSUME NEW p \in Procs, NEW n \in Names, Read(p, n) PROVE RerunInv'
  <2> DEFINE next == Repaired(tree, n, run[p].moves)
             r == [run[p] EXCEPT !.step = "save", !.todo = run[p].todo \ {n}, !.at = n, !.next = next]
  <2>1. /\ run' = [run EXCEPT ![p] = r] /\ UNCHANGED <<tree, unfinished>>
        /\ run[p].step = "repair" /\ tree[n] # NoFile
    BY <1>7 DEF Read
  <2>2. next.status = tree[n].status
    BY <1>t, <2>1, RepairedKeeps
  <2> HIDE DEF next
  <2>3. /\ r.step = "save" /\ r.cmd = run[p].cmd /\ r.moves = run[p].moves
        /\ r.at = n /\ r.next = next
    BY <1>t DEF Run
  <2> HIDE DEF r
  <2> QED BY <1>g, <2>1, <2>2, <2>3
<1>8. ASSUME NEW p \in Procs, Save(p) PROVE RerunInv'
  <2> DEFINE r == [run[p] EXCEPT !.step = "repair", !.at = NoFile, !.next = NoFile]
  <2>1. /\ run' = [run EXCEPT ![p] = r] /\ unfinished' = unfinished /\ run[p].step = "save"
        /\ tree' = [tree EXCEPT ![run[p].at] = run[p].next] /\ run[p].next \in File
    BY <1>8 DEF Save, TypeOK, BuffersFilled
  <2>2. r.step = "repair" /\ r.cmd = run[p].cmd /\ r.moves = run[p].moves
    BY <1>t DEF Run
  <2> HIDE DEF r
  <2>3. /\ misfiledTasks(tree') = misfiledTasks(tree)
        /\ \A t \in Tasks : /\ tree'[Live(t)] = NoFile <=> tree[Live(t)] = NoFile
                            /\ Twofold(tree', t) => Twofold(tree, t)
    BY <1>p, <2>1, RewriteMovesNothing
  <2>4. RunRerun(r, tree', unfinished')
    BY <1>c, <1>p, <2>1, <2>2, <2>3 DEF RunRerun
  <2>5. \A t \in Tasks : Twofold(tree', t) =>
          Complete(t) \in unfinished' \/ (r.step # "idle" /\ r.cmd = Complete(t))
    BY <1>p, <2>1, <2>2, <2>3
  <2> QED BY <1>a, <1>u, <2>1, <2>3, <2>4, <2>5, RerunUpdate
<1>w. ASSUME NEW p \in Procs, run[p].step = "write", NEW file,
             tree' = [tree EXCEPT ![Arch(run[p].cmd.id)] = file]
      PROVE  \A t \in Tasks : /\ tree'[Live(t)] = tree[Live(t)]
                              /\ Twofold(tree', t) => Twofold(tree, t) \/ run[p].cmd = Complete(t)
  <2>1. run[p].cmd.id \in Tasks /\ run[p].cmd = Complete(run[p].cmd.id)
    BY <1>c, <1>w DEF TypeOK, BuffersFilled
  <2>2. \A t \in Tasks : /\ tree'[Live(t)] = tree[Live(t)]
                         /\ t # run[p].cmd.id => tree'[Arch(t)] = tree[Arch(t)]
    BY <1>w, <2>1, SlotNames, SlotsDiffer DEF TypeOK
  <2> QED BY <2>1, <2>2 DEF Twofold, Declares
<1>9. ASSUME NEW p \in Procs, WriteSlot(p) PROVE RerunInv'
  <2> DEFINE r == [run[p] EXCEPT !.step = "remove"]
  <2>1. /\ run' = [run EXCEPT ![p] = r] /\ unfinished' = unfinished /\ run[p].step = "write"
        /\ tree' = [tree EXCEPT ![Arch(run[p].cmd.id)] = run[p].held] /\ run[p].cmd # Archive
    BY <1>9 DEF WriteSlot, TypeOK, BuffersFilled
  <2>2. r.step = "remove" /\ r.cmd = run[p].cmd
    BY <1>t DEF Run
  <2> HIDE DEF r
  <2>3. \A t \in Tasks : /\ tree'[Live(t)] = tree[Live(t)]
                         /\ Twofold(tree', t) => Twofold(tree, t) \/ run[p].cmd = Complete(t)
    BY <1>w, <2>1
  <2>4. RunRerun(r, tree', unfinished')
    BY <1>c, <1>p, <2>1, <2>2, <2>3 DEF RunRerun
  <2>5. \A t \in Tasks : Twofold(tree', t) =>
          Complete(t) \in unfinished' \/ (r.step # "idle" /\ r.cmd = Complete(t))
    BY <1>p, <2>1, <2>2, <2>3
  <2> QED BY <1>a, <1>u, <2>1, <2>3, <2>4, <2>5, RerunUpdate
<1>10. ASSUME NEW p \in Procs, Remove(p) PROVE RerunInv'
  <2> DEFINE u == run[p].cmd.id
  <2>1. /\ u \in Tasks /\ run[p].cmd = Complete(u) /\ run[p].cmd # Archive
        /\ tree[Live(u)] # NoFile /\ unfinished \subseteq {Complete(u)}
    BY <1>10, <1>c, <1>p DEF Remove, TypeOK, BuffersFilled, RunRerun
  <2>2. /\ run' = [run EXCEPT ![p] = Idle] /\ unfinished' = {}
        /\ tree' = [tree EXCEPT ![Live(u)] = NoFile]
    BY <1>10, <2>1 DEF Remove, Finish
  <2> HIDE DEF u
  <2>3. ASSUME NEW t \in Tasks, Twofold(tree', t) PROVE FALSE
    <3>1. t # u /\ Twofold(tree, t)
      BY <2>1, <2>2, <2>3, SlotNames, SlotsDiffer DEF Twofold, Declares, TypeOK
    <3>2. Complete(t) = Complete(u)
      BY <1>p, <2>1, <3>1
    <3> QED BY <2>1, <3>1, <3>2, CommandsDiffer
  <2> QED BY <1>a, <1>i, <2>2, <2>3, RerunUpdate
<1>11. ASSUME NEW p \in Procs, NEW c \in Commands, MayStart(p, c)
       PROVE  /\ unfinished \subseteq {c} /\ run[p].step = "idle"
              /\ \A t \in Tasks : Twofold(tree, t) => Complete(t) \in unfinished
  BY <1>11, <1>a, <1>p, <1>u DEF MayStart
<1>12. ASSUME NEW p \in Procs, NEW t \in Tasks, StartComplete(p, t) PROVE RerunInv'
  <2> DEFINE r == [Idle EXCEPT !.step = "slot", !.cmd = Complete(t), !.moves = {t},
                               !.held = completedTaskContent(tree[Live(t)])]
  <2>1. /\ MayStart(p, Complete(t)) /\ tree[Live(t)] # NoFile
        /\ run' = [run EXCEPT ![p] = r] /\ UNCHANGED <<tree, unfinished>>
    BY <1>12 DEF StartComplete, Declares
  <2>2. r.step = "slot" /\ r.cmd = Complete(t) /\ r.cmd # Archive /\ r.cmd.id = t
    BY DEF Idle, Complete, Archive
  <2> HIDE DEF r
  <2>3. Complete(t) \in Commands
    BY DEF Commands
  <2>4. RunRerun(r, tree, unfinished)
    BY <1>11, <2>1, <2>2, <2>3 DEF RunRerun
  <2> QED BY <1>a, <1>u, <1>11, <2>1, <2>3, <2>4, RerunUpdate
<1>13. ASSUME NEW p \in Procs, StartArchive(p) PROVE RerunInv'
  <2> DEFINE r == [Idle EXCEPT !.step = "slot", !.cmd = Archive, !.moves = misfiledTasks(tree)]
  <2>1. /\ MayStart(p, Archive) /\ misfiledTasks(tree) # {}
        /\ run' = [run EXCEPT ![p] = r] /\ UNCHANGED <<tree, unfinished>>
    BY <1>13 DEF StartArchive
  <2>2. r.step = "slot" /\ r.cmd = Archive /\ r.moves = misfiledTasks(tree)
    BY DEF Idle
  <2> HIDE DEF r
  <2>3. Archive \in Commands
    BY DEF Commands
  <2>4. RunRerun(r, tree, unfinished)
    BY <1>11, <2>1, <2>2, <2>3 DEF RunRerun
  <2> QED BY <1>a, <1>u, <1>11, <2>1, <2>3, <2>4, RerunUpdate
<1>14. ASSUME NEW p \in Procs, ArchiveClean(p) PROVE RerunInv'
  <2>1. MayStart(p, Archive) /\ unfinished' = unfinished \ {Archive} /\ UNCHANGED <<tree, run>>
    BY <1>14 DEF ArchiveClean
  <2>2. run' = [run EXCEPT ![p] = run[p]]
    BY <2>1 DEF TypeOK
  <2>3. RunRerun(run[p], tree', unfinished')
    BY <1>p, <2>1 DEF RunRerun
  <2>4. \A t \in Tasks : Twofold(tree, t) =>
          Complete(t) \in unfinished' \/ (run[p].step # "idle" /\ run[p].cmd = Complete(t))
    BY <1>p, <2>1, CommandsDiffer
  <2>5. /\ \A c, d \in unfinished' : c = d
        /\ \A t \in Tasks : Complete(t) \in unfinished' => tree'[Live(t)] # NoFile
    BY <1>u, <2>1
  <2>6. tree' = tree
    BY <2>1
  <2> QED BY <1>a, <2>2, <2>3, <2>4, <2>5, <2>6, RerunUpdate
<1>15. ASSUME NEW p \in Procs, NEW u \in Tasks, Rename(p, u) PROVE RerunInv'
  <2>1. /\ run[p].step = "rename" /\ u \in run[p].moves /\ tree[Live(u)] # NoFile
        /\ tree' = [tree EXCEPT ![Arch(u)] = tree[Live(u)], ![Live(u)] = NoFile]
        /\ run[p].cmd = Archive
    BY <1>15 DEF Rename, RenamesSweep
  <2>2. run[p].moves = misfiledTasks(tree) /\ unfinished \subseteq {Archive}
    BY <1>p, <2>1 DEF RunRerun
  <2>3. \A t \in Tasks : /\ tree'[Live(t)] = IF t = u THEN NoFile ELSE tree[Live(t)]
                         /\ t # u => tree'[Arch(t)] = tree[Arch(t)]
    BY <2>1, SlotNames, SlotsDiffer DEF TypeOK
  <2>4. misfiledTasks(tree') = misfiledTasks(tree) \ {u}
    BY <2>3 DEF misfiledTasks
  <2>5. \A t \in Tasks : ~Twofold(tree', t)
    <3>1. \A t \in Tasks : ~Twofold(tree, t)
      BY <1>p, <2>1, <2>2, CommandsDiffer
    <3> QED BY <2>3, <3>1 DEF Twofold, Declares
  <2>6. \A t \in Tasks : Complete(t) \notin unfinished
    BY <2>2, CommandsDiffer
  <2>7. CASE run[p].moves = {u}
    <3>1. run' = [run EXCEPT ![p] = Idle] /\ unfinished' = unfinished \ {run[p].cmd}
      BY <1>15, <2>7 DEF Rename, Finish
    <3> QED BY <1>a, <1>i, <1>u, <2>5, <2>6, <3>1, RerunUpdate
  <2>8. CASE run[p].moves # {u}
    <3> DEFINE r == [run[p] EXCEPT !.moves = run[p].moves \ {u}]
    <3>1. run' = [run EXCEPT ![p] = r] /\ unfinished' = unfinished
      BY <1>15, <2>8 DEF Rename
    <3>2. r.step = "rename" /\ r.cmd = Archive /\ r.moves = run[p].moves \ {u}
      BY <1>t, <2>1 DEF Run
    <3> HIDE DEF r
    <3>3. RunRerun(r, tree', unfinished')
      BY <2>1, <2>2, <2>4, <2>8, <3>1, <3>2 DEF RunRerun
    <3> QED BY <1>a, <1>u, <2>5, <2>6, <3>1, <3>3, RerunUpdate
  <2> QED BY <2>7, <2>8
<1>16. ASSUME NEW p \in Procs, NEW u \in Tasks, RenameFails(p, u) PROVE FALSE
  <2>1. run[p].step = "rename" /\ run[p].cmd = Archive /\ u \in run[p].moves /\ tree[Live(u)] = NoFile
    BY <1>16 DEF RenameFails, RenamesSweep
  <2>2. run[p].moves = misfiledTasks(tree)
    BY <1>p, <2>1 DEF RunRerun
  <2> QED BY <2>1, <2>2 DEF misfiledTasks
<1>17. ASSUME NEW p \in Procs, Stop(p) PROVE RerunInv'
  BY <1>17, <1>e DEF Stop, Abandon
<1>18. ASSUME NEW p \in Procs, NEW outcome \in TornOutcomes, Tear(p, outcome) PROVE RerunInv'
  <2>1. /\ outcome # "empty" /\ run[p].step # "idle" /\ run' = [run EXCEPT ![p] = Idle]
        /\ unfinished' = unfinished \cup {run[p].cmd}
    BY <1>a, <1>18 DEF Tear, Abandon
  <2>2. CASE run[p].step = "save"
    <3> DEFINE file == Torn(run[p].next, outcome)
    <3>1. run[p].next \in File /\ tree' = [tree EXCEPT ![run[p].at] = file]
      BY <1>18, <2>2 DEF Tear, TypeOK, BuffersFilled
    <3>2. file \in File /\ file.id = run[p].next.id /\ file.status = run[p].next.status
      BY <2>1, <3>1, TornKeepsOwner
    <3> HIDE DEF file
    <3>3. \A t \in Tasks : /\ tree'[Live(t)] = NoFile <=> tree[Live(t)] = NoFile
                           /\ Twofold(tree', t) => Twofold(tree, t)
      BY <1>p, <2>2, <3>1, <3>2, RewriteMovesNothing
    <3> QED BY <1>e, <2>1, <3>3
  <2>3. CASE run[p].step = "write"
    <3>1. tree' = [tree EXCEPT ![Arch(run[p].cmd.id)] = Torn(run[p].held, outcome)]
      BY <1>18, <2>3 DEF Tear
    <3>2. \A t \in Tasks : /\ tree'[Live(t)] = tree[Live(t)]
                           /\ Twofold(tree', t) => Twofold(tree, t) \/ run[p].cmd = Complete(t)
      BY <1>w, <2>3, <3>1
    <3> QED BY <1>e, <2>1, <3>2
  <2> QED BY <1>18, <2>2, <2>3 DEF Tear
\* The user edits when nothing runs and nothing is left to rerun.
<1>19. ASSUME NEW u \in Tasks, MayEdit(u), UNCHANGED <<run, unfinished>>,
              \A t \in Tasks : /\ tree'[Live(t)] # NoFile => tree[Live(t)] # NoFile
                               /\ tree'[Arch(t)] = tree[Arch(t)]
       PROVE  RerunInv'
  <2>1. unfinished = {} /\ \A p \in Procs : run[p].step = "idle"
    BY <1>19, <1>a DEF MayEdit, Quiet
  <2>2. \A t \in Tasks : ~Twofold(tree, t)
    BY <2>1 DEF RerunInv, InHand
  <2>3. \A t \in Tasks : ~Twofold(tree', t)
    BY <1>19, <2>2 DEF Twofold, Declares
  <2>4. \A p \in Procs : RunRerun(run'[p], tree', unfinished')
    BY <1>19, <2>1 DEF RunRerun
  <2> QED
    BY <1>19, <2>1, <2>3, <2>4
       DEF RerunInv, InHand, RunRerun, Twofold, Declares, misfiledTasks, finishedTaskStatuses,
           Live, Arch, Archive, Complete
<1>20. ASSUME NEW u \in Tasks, NEW file, tree[Live(u)] # NoFile, tree' = [tree EXCEPT ![Live(u)] = file]
       PROVE  \A t \in Tasks : /\ tree'[Live(t)] # NoFile => tree[Live(t)] # NoFile
                               /\ tree'[Arch(t)] = tree[Arch(t)]
  BY <1>20, SlotNames, SlotsDiffer DEF TypeOK
<1>21. CASE Edit
  <2>1. ASSUME NEW u \in Tasks, EditBody(u) PROVE RerunInv'
    BY <1>19, <1>20, <2>1 DEF EditBody, MayEdit, Declares
  <2>2. ASSUME NEW u \in Tasks, NEW status \in Statuses, EditStatus(u, status) PROVE RerunInv'
    BY <1>19, <1>20, <2>2 DEF EditStatus, MayEdit, Declares
  <2> QED BY <1>21, <2>1, <2>2 DEF Edit
<1>22. CASE UNCHANGED vars
  BY <1>22 DEF vars, RerunInv, InHand, RunRerun, Twofold, Declares, misfiledTasks,
               finishedTaskStatuses, Live, Arch, Archive, Complete
<1> QED
  BY <1>1, <1>2, <1>4, <1>5, <1>6, <1>7, <1>8, <1>9, <1>10, <1>12, <1>13, <1>14, <1>15,
     <1>16, <1>17, <1>18, <1>21, <1>22 DEF Next, Start, Step, Fail

LEMMA RerunStateHolds ==
  ASSUME RerunAssumption
  PROVE  (Init => RerunState) /\ (RerunState /\ [Next]_vars => RerunState')
<1>1. Init => RenamesSweep
  BY DEF Init, RenamesSweep, Idle
<1> QED
  BY <1>1, InitTypeOK, InitOwner, InitRerun, NextTypeOK, NextOwner, NextRenames, NextRerun
     DEF RerunState, RerunAssumption

\* Unless another file sat in its archive slot from the start, no task's slot is
\* ever a stranger's.
SlotsFileable == \A t \in Tasks : Fileable(tree, t)

LEMMA InitFileable == ASSUME "shadowed" \notin Placements PROVE Init => SlotsFileable
<1> SUFFICES ASSUME Init, NEW t \in Tasks PROVE Fileable(tree, t)
  BY DEF SlotsFileable
<1>1. PICK place \in [Tasks -> Placements] :
        tree = [name \in Names |-> InitialFile(place, name)]
  BY DEF Init
<1>2. tree[Arch(t)] \in {InitialTask(place, t), NoFile}
  BY <1>1, SlotNames DEF InitialFile, Arch
<1> QED
  BY <1>2 DEF Fileable, InitialTask

\* What every check of the two commands finds.
NothingFails ==
  /\ \A t \in Tasks : Complete(t) \in unfinished => Declares(tree, Live(t), t)
  /\ \A p \in Procs :
       /\ run[p].step = "slot" => ~SlotsTaken(p)
       /\ run[p].step = "remove" => tree[Live(run[p].cmd.id)] # NoFile
       /\ run[p].step = "rename" =>
            run[p].moves # {} /\ \A t \in run[p].moves : tree[Live(t)] # NoFile

\* One command at a time, and as long as no slot was a stranger's, nothing but a
\* kill or a failing disk ever stops a command: an interrupted completion finds
\* its live file again, its slot free or its own, and the file it removes still
\* there; a sweep finds the slots of its batch free and every file it renames,
\* and has one to rename until it ends.
THEOREM RerunsAreAccepted ==
  ASSUME RerunAssumption, "shadowed" \notin Placements
  PROVE  Spec => []NothingFails
<1>1. Init => RerunState /\ SlotsFileable
  BY RerunStateHolds, InitFileable
<1>2. RerunState /\ SlotsFileable /\ [Next]_vars => (RerunState /\ SlotsFileable)'
  <2> SUFFICES ASSUME RerunState, SlotsFileable, [Next]_vars PROVE SlotsFileable'
    BY RerunStateHolds
  <2>1. ArchKept
    BY TreeStep DEF RerunAssumption, RerunState
  <2> QED BY <2>1 DEF ArchKept, SlotsFileable, Fileable, Arch
<1>3. RerunState /\ SlotsFileable => NothingFails
  <2> SUFFICES ASSUME RerunState, SlotsFileable PROVE NothingFails
    OBVIOUS
  <2>1. ASSUME NEW t \in Tasks, Complete(t) \in unfinished PROVE Declares(tree, Live(t), t)
    BY <2>1 DEF RerunState, RerunInv, OwnerInv, LiveOwned, Declares
  <2>2. ASSUME NEW p \in Procs, run[p].step # "idle"
        PROVE  /\ RunRerun(run[p], tree, unfinished)
               /\ run[p].cmd # Archive => run[p].moves = {run[p].cmd.id} /\ run[p].cmd.id \in Tasks
    BY <2>2 DEF RerunState, RerunInv, OwnerInv, RunOwned, TypeOK, Run, Commands, Complete
  <2>3. ASSUME NEW p \in Procs, run[p].step = "slot" PROVE ~SlotsTaken(p)
    <3>1. CASE run[p].cmd # Archive
      BY <2>2, <2>3, <3>1 DEF SlotsTaken, SlotsFileable, Fileable
    <3>2. CASE run[p].cmd = Archive
      <4>1. unfinished \subseteq {Archive} /\ run[p].moves = misfiledTasks(tree)
        BY <2>2, <2>3, <3>2 DEF RunRerun
      <4>2. \A q \in Procs : q = p
        BY DEF RerunAssumption, OneProcess
      <4>3. ASSUME NEW t \in Tasks PROVE ~Twofold(tree, t)
        BY <3>2, <4>1, <4>2, CommandsDiffer DEF RerunState, RerunInv, InHand
      <4>4. \A t \in misfiledTasks(tree) : tree[Arch(t)] = NoFile
        BY <4>3 DEF misfiledTasks, SlotsFileable, Fileable, Twofold, Declares
      <4> QED BY <3>2, <4>1, <4>4 DEF SlotsTaken
    <3> QED BY <3>1, <3>2
  <2>4. ASSUME NEW p \in Procs, run[p].step = "remove" PROVE tree[Live(run[p].cmd.id)] # NoFile
    BY <2>2, <2>4 DEF RunRerun, RerunState, TypeOK, BuffersFilled
  <2>5. ASSUME NEW p \in Procs, run[p].step = "rename"
        PROVE  run[p].moves # {} /\ \A t \in run[p].moves : tree[Live(t)] # NoFile
    BY <2>2, <2>5 DEF RunRerun, RerunState, RenamesSweep, misfiledTasks
  <2> QED BY <2>1, <2>3, <2>4, <2>5 DEF NothingFails
<1> QED
  BY <1>1, <1>2, <1>3, PTL DEF Spec

\* How a command ends: refused, with its last removal or rename, or interrupted.
LEMMA RunEnds ==
  ASSUME TypeOK, [Next]_vars, NEW p \in Procs, run[p].step # "idle", run'[p].step = "idle"
  PROVE  \/ Refuse(p)
         \/ Remove(p) /\ Finish(p)
         \/ \E t \in Tasks : Rename(p, t) /\ run[p].moves = {t}
         \/ run[p].cmd \in unfinished'
<1> DEFINE Goal == \/ Refuse(p)
                   \/ Remove(p) /\ Finish(p)
                   \/ \E t \in Tasks : Rename(p, t) /\ run[p].moves = {t}
                   \/ run[p].cmd \in unfinished'
<1>r. \A q \in Procs : run[q] \in Run
  BY DEF TypeOK
<1>0. ASSUME NEW q \in Procs, NEW r, run' = [run EXCEPT ![q] = r] PROVE q = p /\ r.step = "idle"
  BY <1>0 DEF TypeOK
<1>1. CASE UNCHANGED run
  BY <1>1
<1>2. ASSUME NEW q \in Procs, Start(q) PROVE FALSE
  <2>1. CASE ArchiveClean(q)
    BY <1>1, <2>1 DEF ArchiveClean
  <2>2. CASE StartArchive(q)
    BY <1>0, <2>2 DEF StartArchive, Idle
  <2>3. ASSUME NEW t \in Tasks, StartComplete(q, t) PROVE FALSE
    BY <1>0, <2>3 DEF StartComplete, Idle
  <2> QED BY <1>2, <2>1, <2>2, <2>3 DEF Start
<1>3. ASSUME NEW q \in Procs, AcceptCompletion(q) \/ AcceptSweep(q) \/ Save(q) PROVE FALSE
  <2>1. CASE AcceptCompletion(q)
    BY <1>0, <1>r, <2>1 DEF AcceptCompletion, Run
  <2>2. CASE AcceptSweep(q)
    BY <1>0, <1>r, <2>2 DEF AcceptSweep, Run
  <2>3. CASE Save(q)
    BY <1>0, <1>r, <2>3 DEF Save, Run
  <2> QED BY <1>3, <2>1, <2>2, <2>3
<1>4. ASSUME NEW q \in Procs, NEW n \in Names, Pass(q, n) \/ Read(q, n) PROVE FALSE
  <2>1. CASE Pass(q, n)
    BY <1>0, <1>r, <2>1 DEF Pass, Run
  <2>2. CASE Read(q, n)
    BY <1>0, <1>r, <2>2 DEF Read, Run
  <2> QED BY <1>4, <2>1, <2>2
<1>5. ASSUME NEW q \in Procs, EndWalk(q) \/ WriteSlot(q) PROVE FALSE
  BY <1>0, <1>5, <1>r DEF EndWalk, WriteSlot, Run
<1>6. ASSUME NEW q \in Procs, Refuse(q) PROVE Goal
  BY <1>0, <1>6 DEF Refuse
<1>7. ASSUME NEW q \in Procs, Fail(q) PROVE Goal
  BY <1>0, <1>7 DEF Fail, Stop, Tear, Abandon
<1>8. ASSUME NEW q \in Procs, Remove(q) PROVE Goal
  BY <1>0, <1>8 DEF Remove, Finish, Abandon
<1>9. ASSUME NEW q \in Procs, NEW t \in Tasks, RenameFails(q, t) PROVE Goal
  BY <1>0, <1>9 DEF RenameFails, Abandon
<1>10. ASSUME NEW q \in Procs, NEW t \in Tasks, Rename(q, t) PROVE Goal
  <2>1. CASE run[q].moves = {t}
    BY <1>0, <1>10, <2>1 DEF Rename, Finish
  <2>2. CASE run[q].moves # {t}
    BY <1>0, <1>10, <1>r, <2>2 DEF Rename, Run
  <2> QED BY <2>1, <2>2
<1>11. CASE Edit
  BY <1>1, <1>11 DEF Edit, EditBody, EditStatus
<1>12. CASE UNCHANGED vars
  BY <1>1, <1>12 DEF vars
<1> QED
  BY <1>2, <1>3, <1>4, <1>5, <1>6, <1>7, <1>8, <1>9, <1>10, <1>11, <1>12 DEF Next, Step

\* However many commands run at once: a completion that got past its slot check
\* and ends without an error leaves its task in the archive and nothing in the
\* live directory.
THEOREM CompletionsEndFiled ==
  ASSUME "empty" \notin TornOutcomes
  PROVE  Spec => [][\A p \in Procs, t \in Tasks :
                      /\ run[p].step \notin {"idle", "slot"} /\ run[p].cmd = Complete(t)
                      /\ run'[p].step = "idle" /\ Complete(t) \notin unfinished'
                      => Declares(tree', Arch(t), t) /\ tree'[Live(t)] = NoFile]_vars
<1>1. Init => TypeOK /\ OwnerInv /\ RenamesSweep
  <2>1. Init => RenamesSweep
    BY DEF Init, RenamesSweep, Idle
  <2> QED BY <2>1, InitTypeOK, InitOwner
<1>2. TypeOK /\ OwnerInv /\ RenamesSweep /\ [Next]_vars => (TypeOK /\ OwnerInv /\ RenamesSweep)'
  BY NextTypeOK, NextOwner, NextRenames
<1>3. ASSUME TypeOK, OwnerInv, RenamesSweep, [Next]_vars, NEW p \in Procs, NEW t \in Tasks,
             run[p].step \notin {"idle", "slot"}, run[p].cmd = Complete(t),
             run'[p].step = "idle", Complete(t) \notin unfinished'
      PROVE  Declares(tree', Arch(t), t) /\ tree'[Live(t)] = NoFile
  <2>1. run[p].cmd # Archive /\ run[p].cmd.id = t
    BY <1>3, CommandsDiffer DEF Complete
  <2>2. Remove(p)
    BY <1>3, <2>1, RunEnds DEF Refuse, Rename, RenamesSweep
  <2>3. Declares(tree, Arch(t), t) /\ tree' = [tree EXCEPT ![Live(t)] = NoFile]
    BY <1>3, <2>1, <2>2 DEF Remove, OwnerInv, RunOwned
  <2> QED BY <1>3, <2>3, SlotNames, SlotsDiffer DEF Declares, TypeOK
<1>4. TypeOK /\ OwnerInv /\ RenamesSweep /\ [Next]_vars =>
        [\A p \in Procs, t \in Tasks :
           /\ run[p].step \notin {"idle", "slot"} /\ run[p].cmd = Complete(t)
           /\ run'[p].step = "idle" /\ Complete(t) \notin unfinished'
           => Declares(tree', Arch(t), t) /\ tree'[Live(t)] = NoFile]_vars
  BY <1>3
<1> QED
  BY <1>1, <1>2, <1>4, PTL DEF Spec

\* One command at a time, a sweep that got past its slot check and ends without
\* an error leaves no finished task in the live directory.
THEOREM SweepsEndClean ==
  ASSUME RerunAssumption
  PROVE  Spec => [][\A p \in Procs :
                      /\ run[p].step \notin {"idle", "slot"} /\ run[p].cmd = Archive
                      /\ run'[p].step = "idle" /\ Archive \notin unfinished'
                      => misfiledTasks(tree') = {}]_vars
<1>1. ASSUME RerunState, [Next]_vars, NEW p \in Procs,
             run[p].step \notin {"idle", "slot"}, run[p].cmd = Archive,
             run'[p].step = "idle", Archive \notin unfinished'
      PROVE  misfiledTasks(tree') = {}
  <2>1. PICK t \in Tasks : Rename(p, t) /\ run[p].moves = {t}
    BY <1>1, RunEnds DEF Refuse, Remove, RerunState, TypeOK, BuffersFilled
  <2>2. misfiledTasks(tree) = {t}
    BY <1>1, <2>1 DEF RerunState, RerunInv, RunRerun
  <2>3. \A u \in Tasks : tree'[Live(u)] = IF u = t THEN NoFile ELSE tree[Live(u)]
    BY <1>1, <2>1, SlotNames, SlotsDiffer DEF Rename, RerunState, TypeOK
  <2> QED BY <2>2, <2>3 DEF misfiledTasks
<1>2. RerunState /\ [Next]_vars =>
        [\A p \in Procs :
           /\ run[p].step \notin {"idle", "slot"} /\ run[p].cmd = Archive
           /\ run'[p].step = "idle" /\ Archive \notin unfinished'
           => misfiledTasks(tree') = {}]_vars
  BY <1>1
<1>3. Init => RerunState
  BY RerunStateHolds
<1>4. RerunState /\ [Next]_vars => RerunState'
  BY RerunStateHolds
<1> QED
  BY <1>2, <1>3, <1>4, PTL DEF Spec

\* The steps that a command in state r has left at most: two for each file its
\* walk may still visit, and those of the writes and moves after the walk.
Work(r) ==
  CASE r.step = "slot"   -> 2 * Cardinality(Names) + Cardinality(Tasks) + 4
    [] r.step = "save"   -> 2 * Cardinality(r.todo) + Cardinality(Tasks) + 4
    [] r.step = "repair" -> 2 * Cardinality(r.todo) + Cardinality(Tasks) + 3
    [] r.step = "write"  -> 2
    [] r.step = "remove" -> 1
    [] r.step = "rename" -> Cardinality(r.moves)
    [] OTHER             -> 0

LEMMA NamesAreFinite ==
  ASSUME IsFiniteSet(Tasks), IsFiniteSet(Docs)
  PROVE  IsFiniteSet(Names)
<1>1. IsFiniteSet({"live", "arch"}) /\ IsFiniteSet({"doc"})
  <2>1. {"live", "arch"} = ({} \cup {"live"}) \cup {"arch"} /\ {"doc"} = {} \cup {"doc"}
    OBVIOUS
  <2>2. IsFiniteSet({} \cup {"live"}) /\ IsFiniteSet({} \cup {"doc"})
    BY FS_EmptySet, FS_AddElement
  <2> QED BY <2>1, <2>2, FS_AddElement
<1>2. IsFiniteSet({"live", "arch"} \X Tasks) /\ IsFiniteSet({"doc"} \X Docs)
  BY <1>1, FS_Product
<1> QED
  BY <1>2, FS_Union DEF Names

LEMMA CountsAreNat ==
  ASSUME IsFiniteSet(Tasks), IsFiniteSet(Docs), NEW r \in Run
  PROVE  /\ Cardinality(Tasks) \in Nat /\ Cardinality(Names) \in Nat
         /\ Cardinality(r.todo) \in Nat /\ Cardinality(r.todo) <= Cardinality(Names)
         /\ \A n \in r.todo : Cardinality(r.todo \ {n}) = Cardinality(r.todo) - 1
         /\ Cardinality(r.moves) \in Nat /\ Cardinality(r.moves) <= Cardinality(Tasks)
         /\ \A t \in r.moves : Cardinality(r.moves \ {t}) = Cardinality(r.moves) - 1
         /\ \A t \in r.moves : Cardinality(r.moves) > 0
         /\ \A n \in r.todo : Cardinality(r.todo) > 0
<1>1. r.todo \in SUBSET Names /\ r.moves \in SUBSET Tasks
  BY DEF Run
<1>2. IsFiniteSet(r.todo) /\ Cardinality(r.todo) <= Cardinality(Names)
  BY <1>1, NamesAreFinite, FS_Subset
<1>3. IsFiniteSet(r.moves) /\ Cardinality(r.moves) <= Cardinality(Tasks)
  BY <1>1, FS_Subset
<1>4. \A t \in r.moves : /\ IsFiniteSet(r.moves \ {t})
                         /\ Cardinality(r.moves \ {t}) = Cardinality(r.moves) - 1
  BY <1>3, FS_RemoveElement
<1>5. \A t \in r.moves : Cardinality(r.moves \ {t}) \in Nat
  BY <1>4, FS_CardinalityType
<1>6. \A n \in r.todo : Cardinality(r.todo \ {n}) = Cardinality(r.todo) - 1
  BY <1>2, FS_RemoveElement
<1>7. /\ Cardinality(Tasks) \in Nat /\ Cardinality(Names) \in Nat
      /\ Cardinality(r.todo) \in Nat /\ Cardinality(r.moves) \in Nat
  BY <1>2, <1>3, NamesAreFinite, FS_CardinalityType
<1>8. ASSUME NEW t \in r.moves PROVE Cardinality(r.moves) > 0
  <2> DEFINE fewer == Cardinality(r.moves \ {t})
  <2>1. fewer = Cardinality(r.moves) - 1 /\ fewer \in Nat
    BY <1>4, <1>5
  <2> HIDE DEF fewer
  <2> QED BY <1>7, <2>1
<1>9. ASSUME NEW n \in r.todo PROVE Cardinality(r.todo) > 0
  <2> DEFINE fewer == Cardinality(r.todo \ {n})
  <2>1. fewer = Cardinality(r.todo) - 1 /\ fewer \in Nat
    BY <1>2, <1>6, FS_RemoveElement, FS_CardinalityType
  <2> HIDE DEF fewer
  <2> QED BY <1>7, <2>1
<1> QED
  BY <1>2, <1>3, <1>4, <1>6, <1>7, <1>8, <1>9

\* However many commands run at once and whatever they find, each step of a
\* command leaves it less to do: none visits a file twice or goes round in a
\* circle, and it ends within Work of its first state.
THEOREM StepsLeaveLess ==
  ASSUME IsFiniteSet(Tasks), IsFiniteSet(Docs)
  PROVE  Spec => [][\A p \in Procs :
                      Step(p) => Work(run'[p]) \in Nat /\ Work(run'[p]) < Work(run[p])]_vars
<1>1. ASSUME TypeOK, NEW p \in Procs, Step(p)
      PROVE  Work(run'[p]) \in Nat /\ Work(run'[p]) < Work(run[p])
  <2> DEFINE N == Cardinality(Names)
             K == Cardinality(Tasks)
             D == Cardinality(run[p].todo)
             M == Cardinality(run[p].moves)
             Less == Work(run'[p]) \in Nat /\ Work(run'[p]) < Work(run[p])
  <2>0. /\ run[p] \in Run /\ run \in [Procs -> Run]
        /\ N \in Nat /\ K \in Nat /\ D \in Nat /\ M \in Nat /\ D <= N /\ M <= K
        /\ \A n \in run[p].todo : Cardinality(run[p].todo \ {n}) = D - 1 /\ D > 0
        /\ \A t \in run[p].moves : Cardinality(run[p].moves \ {t}) = M - 1 /\ M > 0
    BY <1>1, CountsAreNat DEF TypeOK
  <2>i. Work(Idle) = 0
    BY DEF Work, Idle
  <2>s. /\ run[p].step = "slot" => Work(run[p]) = 2 * N + K + 4
        /\ run[p].step = "save" => Work(run[p]) = 2 * D + K + 4
        /\ run[p].step = "repair" => Work(run[p]) = 2 * D + K + 3
        /\ run[p].step = "write" => Work(run[p]) = 2
        /\ run[p].step = "remove" => Work(run[p]) = 1
        /\ run[p].step = "rename" => Work(run[p]) = M
    BY DEF Work
  <2>e. ASSUME run' = [run EXCEPT ![p] = Idle], Work(run[p]) \in Nat, Work(run[p]) > 0 PROVE Less
    <3>1. run'[p] = Idle
      BY <2>0, <2>e
    <3> QED BY <2>e, <2>i, <3>1
  <2>r. \A r : run' = [run EXCEPT ![p] = r] => run'[p] = r
    BY <2>0
  <2>1. CASE Refuse(p)
    BY <2>0, <2>1, <2>e, <2>s DEF Refuse
  <2>2. CASE AcceptCompletion(p)
    <3> DEFINE held == Relinked(run[p].held, Live(run[p].cmd.id), {run[p].cmd.id})
               todo == Names \ {Live(run[p].cmd.id)}
               r == [run[p] EXCEPT !.step = "repair", !.todo = todo,
                                   !.resuming = tree[Arch(run[p].cmd.id)] # NoFile, !.held = held]
    <3>1. run'[p] = r /\ run[p].step = "slot"
      BY <2>2, <2>r DEF AcceptCompletion
    <3> HIDE DEF held
    <3>2. r.step = "repair" /\ r.todo = todo
      BY <2>0 DEF Run
    <3>3. IsFiniteSet(todo) /\ Cardinality(todo) <= N
      BY NamesAreFinite, FS_Subset
    <3>4. Cardinality(todo) \in Nat
      BY <3>3, FS_CardinalityType
    <3> HIDE DEF r, todo
    <3>5. Work(r) = 2 * Cardinality(todo) + K + 3
      BY <3>2 DEF Work
    <3> QED BY <2>0, <2>s, <3>1, <3>3, <3>4, <3>5
  <2>3. CASE AcceptSweep(p)
    <3> DEFINE r == [run[p] EXCEPT !.step = "repair", !.todo = Names]
    <3>1. run'[p] = r /\ run[p].step = "slot"
      BY <2>3, <2>r DEF AcceptSweep
    <3>2. r.step = "repair" /\ r.todo = Names
      BY <2>0 DEF Run
    <3> HIDE DEF r
    <3>3. Work(r) = 2 * N + K + 3
      BY <3>2 DEF Work
    <3> QED BY <2>0, <2>s, <3>1, <3>3
  <2>4. ASSUME NEW n \in Names, Pass(p, n) PROVE Less
    <3> DEFINE r == [run[p] EXCEPT !.todo = run[p].todo \ {n}]
    <3>1. run'[p] = r /\ run[p].step = "repair" /\ n \in run[p].todo
      BY <2>4, <2>r DEF Pass
    <3>2. r.step = "repair" /\ r.todo = run[p].todo \ {n}
      BY <2>0, <3>1 DEF Run
    <3> HIDE DEF r
    <3>3. Work(r) = 2 * (D - 1) + K + 3
      BY <2>0, <3>1, <3>2 DEF Work
    <3>4. D \in Nat /\ D > 0
      BY <2>0, <3>1
    <3> QED BY <2>0, <2>s, <3>1, <3>3, <3>4
  <2>5. ASSUME NEW n \in Names, Read(p, n) PROVE Less
    <3> DEFINE next == Repaired(tree, n, run[p].moves)
               r == [run[p] EXCEPT !.step = "save", !.todo = run[p].todo \ {n}, !.at = n, !.next = next]
    <3>1. run'[p] = r /\ run[p].step = "repair" /\ n \in run[p].todo
      BY <2>5, <2>r DEF Read
    <3> HIDE DEF next
    <3>2. r.step = "save" /\ r.todo = run[p].todo \ {n}
      BY <2>0, <3>1 DEF Run
    <3> HIDE DEF r
    <3>3. Work(r) = 2 * (D - 1) + K + 4
      BY <2>0, <3>1, <3>2 DEF Work
    <3>4. D \in Nat /\ D > 0
      BY <2>0, <3>1
    <3> QED BY <2>0, <2>s, <3>1, <3>3, <3>4
  <2>6. CASE Save(p)
    <3> DEFINE r == [run[p] EXCEPT !.step = "repair", !.at = NoFile, !.next = NoFile]
    <3>1. run'[p] = r /\ run[p].step = "save"
      BY <2>6, <2>r DEF Save
    <3>2. r.step = "repair" /\ r.todo = run[p].todo
      BY <2>0 DEF Run
    <3> HIDE DEF r
    <3>3. Work(r) = 2 * D + K + 3
      BY <3>2 DEF Work
    <3> QED BY <2>0, <2>s, <3>1, <3>3
  <2>7. CASE EndWalk(p)
    <3> DEFINE step == IF run[p].cmd = Archive THEN "rename"
                       ELSE IF run[p].resuming THEN "remove" ELSE "write"
               r == [run[p] EXCEPT !.step = step]
    <3>1. run'[p] = r /\ run[p].step = "repair"
      BY <2>7, <2>r DEF EndWalk
    <3>2. step \in {"rename", "remove", "write"}
      OBVIOUS
    <3> HIDE DEF step
    <3>3. r.step = step /\ r.moves = run[p].moves
      BY <2>0 DEF Run
    <3> HIDE DEF r
    <3>4. Work(r) \in {1, 2, M}
      BY <3>2, <3>3 DEF Work
    <3> QED BY <2>0, <2>s, <3>1, <3>4
  <2>8. CASE WriteSlot(p)
    <3> DEFINE r == [run[p] EXCEPT !.step = "remove"]
    <3>1. run'[p] = r /\ run[p].step = "write"
      BY <2>8, <2>r DEF WriteSlot
    <3>2. r.step = "remove"
      BY <2>0 DEF Run
    <3> HIDE DEF r
    <3>3. Work(r) = 1
      BY <3>2 DEF Work
    <3> QED BY <2>s, <3>1, <3>3
  <2>9. CASE Remove(p)
    <3>1. run[p].step = "remove" /\ run' = [run EXCEPT ![p] = Idle]
      BY <2>9 DEF Remove, Finish, Abandon
    <3> QED BY <2>e, <2>s, <3>1
  <2>10. ASSUME NEW t \in Tasks, Rename(p, t) \/ RenameFails(p, t) PROVE Less
    <3>1. run[p].step = "rename" /\ t \in run[p].moves
      BY <2>10 DEF Rename, RenameFails
    <3>2. M > 0 /\ Work(run[p]) = M
      BY <2>0, <2>s, <3>1
    <3>3. CASE run' = [run EXCEPT ![p] = Idle]
      BY <2>0, <2>e, <3>2, <3>3
    <3>4. CASE run' = [run EXCEPT ![p] = [@ EXCEPT !.moves = run[p].moves \ {t}]]
      <4> DEFINE r == [run[p] EXCEPT !.moves = run[p].moves \ {t}]
      <4>1. run'[p] = r
        BY <2>r, <3>4
      <4>2. r.step = "rename" /\ r.moves = run[p].moves \ {t}
        BY <2>0, <3>1 DEF Run
      <4> HIDE DEF r
      <4>3. Work(r) = M - 1
        BY <2>0, <3>1, <4>2 DEF Work
      <4> QED BY <2>0, <3>2, <4>1, <4>3
    <3> QED BY <2>10, <3>3, <3>4 DEF Rename, RenameFails, Finish, Abandon
  <2> QED
    BY <1>1, <2>1, <2>2, <2>3, <2>4, <2>5, <2>6, <2>7, <2>8, <2>9, <2>10 DEF Step
<1>2. TypeOK /\ [Next]_vars =>
        [\A p \in Procs :
           Step(p) => Work(run'[p]) \in Nat /\ Work(run'[p]) < Work(run[p])]_vars
  BY <1>1
<1> QED
  BY <1>2, TypeCorrect, PTL DEF Spec

-----------------------------------------------------------------------------
(* The refinement of TaskBoard: what a step does to one entry of the board. *)

Filed(entry, status) == [filed |-> TRUE, status |-> status, body |-> entry.body]

\* Only the entry of u changes.
OthersKept(u) == \A t \in Tasks : t # u => BoardOf(t)' = BoardOf(t)

LEMMA BoardFrame ==
  ASSUME NEW t \in Tasks, tree'[Live(t)] = tree[Live(t)],
         tree[Live(t)] # NoFile \/ tree'[Arch(t)] = tree[Arch(t)]
  PROVE  BoardOf(t)' = BoardOf(t)
BY DEF BoardOf, Live, Arch

\* The entry of a task with a live file, and of one without.
LEMMA LiveEntry ==
  ASSUME NEW t \in Tasks, tree[Live(t)] # NoFile
  PROVE  BoardOf(t) = [filed |-> FALSE, status |-> tree[Live(t)].status, body |-> tree[Live(t)].body]
<1>1. (tree[Live(t)] = NoFile) = FALSE
  OBVIOUS
<1> QED
  BY <1>1, Zenon DEF BoardOf

LEMMA FiledEntry ==
  ASSUME NEW t \in Tasks
  PROVE  /\ tree[Live(t)] = NoFile =>
              BoardOf(t) = [filed |-> TRUE, status |-> tree[Arch(t)].status, body |-> tree[Arch(t)].body]
         /\ tree'[Live(t)] = NoFile =>
              BoardOf(t)' = [filed |-> TRUE, status |-> tree'[Arch(t)].status, body |-> tree'[Arch(t)].body]
<1>1. ASSUME tree[Live(t)] = NoFile
      PROVE  BoardOf(t) = [filed |-> TRUE, status |-> tree[Arch(t)].status, body |-> tree[Arch(t)].body]
  <2>1. (tree[Live(t)] = NoFile) = TRUE
    BY <1>1
  <2> QED BY <1>1, <2>1, Zenon DEF BoardOf
<1>2. ASSUME tree'[Live(t)] = NoFile
      PROVE  BoardOf(t)' = [filed |-> TRUE, status |-> tree'[Arch(t)].status, body |-> tree'[Arch(t)].body]
  <2>1. (tree'[Live(t)] = NoFile) = TRUE
    BY <1>2
  <2> QED BY <1>2, <2>1, Zenon DEF BoardOf, Live, Arch
<1> QED BY <1>1, <1>2

\* Rewriting the status and the body of an entry.
Edited(entry, status, body) == [[entry EXCEPT !.status = status] EXCEPT !.body = body]

\* A step leaves the board alone, or completes, files or edits one task.
LEMMA BoardStep ==
  ASSUME SoloAssumption, StrongInv, [Next]_vars
  PROVE  \/ \A t \in Tasks : BoardOf(t)' = BoardOf(t)
         \/ \E u \in Tasks :
              /\ OthersKept(u) /\ ~BoardOf(u).filed
              /\ \/ BoardOf(u)' = Filed(BoardOf(u), "done")
                 \/ /\ BoardOf(u).status \in finishedTaskStatuses
                    /\ BoardOf(u)' = Filed(BoardOf(u), BoardOf(u).status)
                 \/ \E status \in Statuses, body \in 0..MaxEdits :
                      BoardOf(u)' = [filed |-> FALSE, status |-> status, body |-> body]
<1> DEFINE Goal ==
         \/ \A t \in Tasks : BoardOf(t)' = BoardOf(t)
         \/ \E u \in Tasks :
              /\ OthersKept(u) /\ ~BoardOf(u).filed
              /\ \/ BoardOf(u)' = Filed(BoardOf(u), "done")
                 \/ /\ BoardOf(u).status \in finishedTaskStatuses
                    /\ BoardOf(u)' = Filed(BoardOf(u), BoardOf(u).status)
                 \/ \E status \in Statuses, body \in 0..MaxEdits :
                      BoardOf(u)' = [filed |-> FALSE, status |-> status, body |-> body]
<1>0. OneProcess /\ tree \in [Names -> File \cup {NoFile}]
  BY DEF SoloAssumption, StrongInv, TypeOK
<1>1. CASE tree' = tree
  BY <1>1 DEF BoardOf, Live, Arch
<1>2. ASSUME NEW p \in Procs, Save(p) PROVE \A t \in Tasks : BoardOf(t)' = BoardOf(t)
  <2> SUFFICES ASSUME NEW t \in Tasks PROVE BoardOf(t)' = BoardOf(t)
    OBVIOUS
  <2>1. /\ tree'[Live(t)] = NoFile <=> tree[Live(t)] = NoFile
        /\ tree[Live(t)] # NoFile => /\ tree'[Live(t)].status = tree[Live(t)].status
                                     /\ tree'[Live(t)].body = tree[Live(t)].body
    BY <1>2, SaveKeeps, SlotNames
  <2>2. CASE tree[Live(t)] # NoFile
    BY <2>1, <2>2 DEF BoardOf, Live, Arch
  <2>3. CASE tree[Live(t)] = NoFile
    <3>1. /\ tree'[Arch(t)] = NoFile <=> tree[Arch(t)] = NoFile
          /\ tree[Arch(t)] # NoFile => /\ tree'[Arch(t)].status = tree[Arch(t)].status
                                       /\ tree'[Arch(t)].body = tree[Arch(t)].body
      BY <1>2, SaveKeeps, SlotNames
    <3> QED BY <2>1, <2>3, <3>1 DEF BoardOf, Live, Arch
  <2> QED BY <2>2, <2>3
<1>3. ASSUME NEW p \in Procs, WriteSlot(p) PROVE \A t \in Tasks : BoardOf(t)' = BoardOf(t)
  <2> DEFINE u == run[p].cmd.id
  <2>1. u \in Tasks /\ tree[Live(u)] # NoFile /\ tree' = [tree EXCEPT ![Arch(u)] = run[p].held]
    BY <1>3, SlotIsWrittenFirst
  <2> HIDE DEF u
  <2>2. \A t \in Tasks : tree'[Live(t)] = tree[Live(t)] /\ (t # u => tree'[Arch(t)] = tree[Arch(t)])
    BY <1>0, <2>1, SlotNames, SlotsDiffer
  <2> QED BY <2>1, <2>2, BoardFrame
<1>4. ASSUME NEW p \in Procs, Remove(p) PROVE Goal
  <2>1. PICK u \in Tasks :
          /\ tree[Live(u)] # NoFile /\ Declares(tree, Arch(u), u)
          /\ Twins(tree, u) /\ tree' = [tree EXCEPT ![Live(u)] = NoFile]
    BY <1>0, <1>4, RemovalFindsTwin
  <2>2. /\ tree'[Live(u)] = NoFile
        /\ \A t \in Tasks : /\ tree'[Arch(t)] = tree[Arch(t)]
                            /\ t # u => tree'[Live(t)] = tree[Live(t)]
    BY <1>0, <2>1, SlotNames, SlotsDiffer
  <2>3. OthersKept(u)
    BY <2>2, BoardFrame DEF OthersKept
  <2>4. ~BoardOf(u).filed /\ BoardOf(u)' = Filed(BoardOf(u), "done")
    <3>1. BoardOf(u) = [filed |-> FALSE, status |-> tree[Live(u)].status, body |-> tree[Live(u)].body]
      BY <2>1, LiveEntry
    <3>2. BoardOf(u)' = [filed |-> TRUE, status |-> tree'[Arch(u)].status, body |-> tree'[Arch(u)].body]
      BY <2>1, <2>2, FiledEntry
    <3>3. tree'[Arch(u)].status = "done" /\ tree'[Arch(u)].body = tree[Live(u)].body
      BY <2>1, <2>2 DEF Twins
    <3> QED BY <3>1, <3>2, <3>3 DEF Filed
  <2> QED BY <2>1, <2>3, <2>4
<1>5. ASSUME NEW p \in Procs, NEW u \in Tasks, Rename(p, u) PROVE Goal
  <2>1. /\ tree[Live(u)] # NoFile /\ tree[Live(u)].status \in finishedTaskStatuses
        /\ tree' = [tree EXCEPT ![Arch(u)] = tree[Live(u)], ![Live(u)] = NoFile]
    BY <1>5, RenameFindsFinished
  <2>2. /\ tree'[Live(u)] = NoFile /\ tree'[Arch(u)] = tree[Live(u)]
        /\ \A t \in Tasks : t # u => tree'[Live(t)] = tree[Live(t)] /\ tree'[Arch(t)] = tree[Arch(t)]
    BY <1>0, <2>1, SlotNames, SlotsDiffer
  <2>3. OthersKept(u)
    BY <2>2, BoardFrame DEF OthersKept
  <2>4. /\ ~BoardOf(u).filed /\ BoardOf(u).status \in finishedTaskStatuses
        /\ BoardOf(u)' = Filed(BoardOf(u), BoardOf(u).status)
    <3>1. BoardOf(u) = [filed |-> FALSE, status |-> tree[Live(u)].status, body |-> tree[Live(u)].body]
      BY <2>1, LiveEntry
    <3>2. BoardOf(u)' = [filed |-> TRUE, status |-> tree'[Arch(u)].status, body |-> tree'[Arch(u)].body]
      BY <2>2, FiledEntry
    <3>3. tree'[Arch(u)].status = tree[Live(u)].status /\ tree'[Arch(u)].body = tree[Live(u)].body
      BY <2>2
    <3>4. tree[Live(u)].status \in finishedTaskStatuses
      BY <2>1
    <3> QED BY <3>1, <3>2, <3>3, <3>4 DEF Filed
  <2> QED BY <2>3, <2>4
<1>e. ASSUME NEW u \in Tasks, tree[Live(u)] # NoFile, NEW file \in File, file.body \in 0..MaxEdits,
             tree' = [tree EXCEPT ![Live(u)] = file]
      PROVE  Goal
  <2>1. /\ tree'[Live(u)] = file /\ file # NoFile /\ file.status \in Statuses
        /\ \A t \in Tasks : t # u => tree'[Live(t)] = tree[Live(t)] /\ tree'[Arch(t)] = tree[Arch(t)]
    BY <1>0, <1>e, SlotNames, SlotsDiffer, NoFileIsNoFile DEF File
  <2>2. OthersKept(u)
    BY <2>1, BoardFrame DEF OthersKept
  <2>3. /\ ~BoardOf(u).filed
        /\ BoardOf(u)' = [filed |-> FALSE, status |-> file.status, body |-> file.body]
    BY <1>e, <2>1 DEF BoardOf, Live, Arch
  <2> QED BY <1>e, <2>1, <2>2, <2>3
<1>6. ASSUME NEW u \in Tasks, EditBody(u) PROVE Goal
  <2> DEFINE file == [tree[Live(u)] EXCEPT !.body = edits + 1]
  <2>1. /\ tree[Live(u)] # NoFile /\ tree' = [tree EXCEPT ![Live(u)] = file]
        /\ edits \in 0..MaxEdits /\ edits < MaxEdits
    BY <1>6 DEF EditBody, MayEdit, Declares, StrongInv, TypeOK
  <2>2. file \in File /\ file.body \in 0..MaxEdits
    BY <1>0, <2>1, SlotNames, BoundsAreNat DEF File, Bodies
  <2> HIDE DEF file
  <2> QED BY <1>e, <2>1, <2>2
<1>7. ASSUME NEW u \in Tasks, NEW status \in Statuses, EditStatus(u, status) PROVE Goal
  <2> DEFINE file == [tree[Live(u)] EXCEPT !.status = status]
  <2>1. /\ tree[Live(u)] # NoFile /\ tree' = [tree EXCEPT ![Live(u)] = file]
        /\ edits \in 0..MaxEdits /\ tree[Live(u)].body \in 0..edits
    BY <1>7 DEF EditStatus, MayEdit, Declares, StrongInv, TypeOK, SoloInv
  <2>2. file \in File /\ file.body \in 0..MaxEdits
    BY <1>0, <2>1, SlotNames, BoundsAreNat DEF File
  <2> HIDE DEF file
  <2> QED BY <1>e, <2>1, <2>2
<1> QED
  BY <1>1, <1>2, <1>3, <1>4, <1>5, <1>6, <1>7, TreeOutcomes

BoardShown == [t \in Tasks |-> BoardOf(t)]

LEMMA BoardInit == Init => Board!Init
<1> SUFFICES ASSUME Init PROVE Board!Init
  OBVIOUS
<1>1. PICK place \in [Tasks -> Placements] :
        tree = [name \in Names |-> InitialFile(place, name)]
  BY DEF Init
<1>2. ASSUME NEW t \in Tasks
      PROVE  BoardOf(t) \in {e \in Board!Entry : e.filed => e.status \in Board!Finished}
  <2>1. /\ tree[Live(t)] = IF place[t] # "filed" THEN InitialTask(place, t) ELSE NoFile
        /\ place[t] = "filed" => tree[Arch(t)] = InitialTask(place, t)
    BY <1>1, SlotNames DEF InitialFile, Live, Arch
  <2>2. /\ InitialTask(place, t).body = 0 /\ InitialTask(place, t).status \in Statuses
        /\ place[t] = "filed" => InitialTask(place, t).status = "done"
        /\ InitialTask(place, t) # NoFile
    <3>1. InitialTask(place, t) \in File /\ InitialTask(place, t) # NoFile
      BY InitialTaskType, NoFileIsNoFile
    <3>2. InitialTask(place, t).status \in Statuses
      BY <3>1 DEF File
    <3> QED BY <3>1, <3>2 DEF InitialTask
  <2>3. 0 \in 0..MaxEdits
    BY BoundsAreNat
  <2>4. CASE place[t] = "filed"
    <3>1. BoardOf(t) = [filed |-> TRUE, status |-> "done", body |-> 0]
      BY <2>1, <2>2, <2>4, FiledEntry
    <3> QED BY <2>3, <3>1 DEF Board!Entry, Board!Finished
  <2>5. CASE place[t] # "filed"
    <3>1. BoardOf(t) = [filed |-> FALSE, status |-> InitialTask(place, t).status, body |-> 0]
      BY <2>1, <2>2, <2>5, LiveEntry
    <3> QED BY <2>2, <2>3, <3>1 DEF Board!Entry, Board!Finished, Statuses
  <2> QED BY <2>4, <2>5
<1> QED
  BY <1>2 DEF Board!Init

\* One command at a time, `tasks` implements its promise: every step of the two
\* commands completes, files or edits one task of TaskBoard, or changes nothing
\* there, however often it is interrupted and rerun.
THEOREM LifecycleImplementsBoard ==
  ASSUME SoloAssumption
  PROVE  Spec => ImplementsBoard
<1>1. StrongInv /\ [Next]_vars => [Board!Next]_BoardShown
  <2> SUFFICES ASSUME StrongInv, [Next]_vars PROVE [Board!Next]_BoardShown
    OBVIOUS
  <2>1. CASE \A t \in Tasks : BoardOf(t)' = BoardOf(t)
    BY <2>1 DEF BoardShown
  <2>2. ASSUME NEW u \in Tasks, OthersKept(u), ~BoardOf(u).filed,
               BoardOf(u)' = Filed(BoardOf(u), "done")
        PROVE  Board!CompleteTask(u)
    BY <2>2 DEF Board!CompleteTask, OthersKept, Filed, BoardOf
  <2>3. ASSUME NEW u \in Tasks, OthersKept(u), ~BoardOf(u).filed,
               BoardOf(u).status \in finishedTaskStatuses,
               BoardOf(u)' = Filed(BoardOf(u), BoardOf(u).status)
        PROVE  Board!ArchiveTask(u)
    BY <2>3 DEF Board!ArchiveTask, Board!Finished, finishedTaskStatuses, OthersKept, Filed, BoardOf
  <2>4. ASSUME NEW u \in Tasks, OthersKept(u), ~BoardOf(u).filed,
               NEW status \in Statuses, NEW body \in 0..MaxEdits,
               BoardOf(u)' = [filed |-> FALSE, status |-> status, body |-> body]
        PROVE  Board!Edit(u)
    <3>1. status \in Board!Finished \cup {"open"}
      BY DEF Board!Finished, Statuses
    <3>2. BoardOf(u)' = [[BoardOf(u) EXCEPT !.status = status] EXCEPT !.body = body]
      <4>1. tree[Live(u)] # NoFile
        BY <2>4, FiledEntry
      <4>2. BoardOf(u) = [filed |-> FALSE, status |-> tree[Live(u)].status, body |-> tree[Live(u)].body]
        BY <4>1, LiveEntry
      <4>3. PICK filed : filed = FALSE
        OBVIOUS
      <4>4. BoardOf(u) = [filed |-> filed, status |-> tree[Live(u)].status, body |-> tree[Live(u)].body]
        BY <4>2, <4>3
      <4>5. BoardOf(u)' = [filed |-> filed, status |-> status, body |-> body]
        BY <2>4, <4>3
      <4>6. Edited([filed |-> filed, status |-> tree[Live(u)].status, body |-> tree[Live(u)].body],
                   status, body) = [filed |-> filed, status |-> status, body |-> body]
        <5>1. ASSUME NEW read, NEW text
              PROVE  Edited([filed |-> filed, status |-> read, body |-> text], status, body) =
                       [filed |-> filed, status |-> status, body |-> body]
          <6>1. [[filed |-> filed, status |-> read, body |-> text] EXCEPT !.status = status] =
                  [filed |-> filed, status |-> status, body |-> text]
            OBVIOUS
          <6>2. [[filed |-> filed, status |-> status, body |-> text] EXCEPT !.body = body] =
                  [filed |-> filed, status |-> status, body |-> body]
            OBVIOUS
          <6> QED BY <6>1, <6>2, Zenon DEF Edited
        <5> QED BY <5>1, Zenon
      <4>7. Edited(BoardOf(u), status, body) = [filed |-> filed, status |-> status, body |-> body]
        BY <4>4, <4>6, Zenon
      <4> QED BY <4>5, <4>7, Zenon DEF Edited
    <3>3. [t \in Tasks |-> BoardOf(t)]' =
            [[t \in Tasks |-> BoardOf(t)] EXCEPT ![u].status = status, ![u].body = body]
      BY <2>4, <3>2 DEF OthersKept
    <3> QED BY <2>4, <3>1, <3>3 DEF Board!Edit
  <2> QED BY <2>1, <2>2, <2>3, <2>4, BoardStep DEF Board!Next
<1>2. Init => StrongInv
  BY StrongInvHolds
<1>3. StrongInv /\ [Next]_vars => StrongInv'
  BY StrongInvHolds
<1> QED
  BY <1>1, <1>2, <1>3, BoardInit, PTL DEF Spec, ImplementsBoard, Board!Spec, BoardShown
=============================================================================
