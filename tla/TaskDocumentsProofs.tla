------------------------ MODULE TaskDocumentsProofs ------------------------
(***************************************************************************)
(* What the four readers of .struktly/tasks agree on, for every set of     *)
(* names and texts.  Two invariants hold whatever is saved meanwhile: the  *)
(* files judged so far are the reported ones, and a task is reported under *)
(* its filename.  The third describes what each reader has found so far in *)
(* a directory that does not change, in terms of that directory alone; the *)
(* agreement of two readers follows by comparing the two descriptions.     *)
(***************************************************************************)
EXTENDS TaskDocuments, TLAPS

\* The commands that report on every file.
Reporters == {"tasks", "validate"}

\* What is reported of the files judged so far, for a command at record r.
JudgedAreReported(c, r) ==
  c \in Reporters =>
    /\ NamesOf(r.tasks) \cup r.flagged = r.listed \ r.todo
    /\ NamesOf(r.tasks) \cap r.flagged = {}
    /\ r.step = "ended" /\ r.outcome # "error" => r.todo = {}

TasksUnderTheirNames(r) ==
  /\ \A t \in r.tasks : t.id = Stem[t.name] /\ t.name \in r.listed \ r.todo
  /\ \A t, u \in r.tasks : t.name = u.name => t = u

\* The part of TypeOK that speaks of one command.
WellFormed(c, r) ==
  /\ r \in Command
  /\ r.step = "ended" <=> r.outcome # "none"
  /\ r.todo \subseteq r.listed
  /\ r.step = "read" => c \in {"check", "find"}
  /\ r.step \in {"lstat", "load"} => c # "check"

IdleIsEmpty(r) == r.step = "idle" => r.tasks = {} /\ r.flagged = {}

Sound(c, r) ==
  WellFormed(c, r) /\ JudgedAreReported(c, r) /\ TasksUnderTheirNames(r) /\ IdleIsEmpty(r)

IInv == TypeOK /\ \A c \in Commands : Sound(c, cmd[c])

-----------------------------------------------------------------------------
LEMMA TextIsTyped ==
  ASSUME TypeOK, NEW n \in Names, dir[n] # NoEntry
  PROVE  dir[n].text = Unparsable \/ dir[n].text \in Text
  BY EntriesAreEntries DEF TypeOK

LEMMA TaskIsTyped ==
  ASSUME NEW n \in Names, NEW text \in Text
  PROVE  Task(n, text) \in TaskRecord
  BY DEF Task, TaskRecord, Text, Noted, parseTaskContract, validateTaskBody, HasSection

LEMMA AcceptedIsText ==
  ASSUME TypeOK, NEW n \in Names, dir[n] # NoEntry, NEW strict \in BOOLEAN,
         Accepts(n, dir[n].text, strict)
  PROVE  dir[n].text \in Text /\ dir[n].text.id = Stem[n]
  BY TextIsTyped DEF Accepts

\* A step of one command leaves the others as they were.
LEMMA OneCommandMoves ==
  ASSUME IInv, NEW c \in Commands, NEW r, Sound(c, r), cmd' = [cmd EXCEPT ![c] = r],
         UNCHANGED <<root, folder, dir, saves>>
  PROVE  IInv'
<1>1. cmd' \in [Commands -> Command]
  BY DEF IInv, TypeOK, Sound, WellFormed
<1>2. \A d \in Commands : cmd'[d] = IF d = c THEN r ELSE cmd[d]
  BY DEF IInv, TypeOK
<1>3. \A d \in Commands : Sound(d, cmd'[d])
  BY <1>2 DEF IInv
<1>4. TypeOK'
  BY <1>1, <1>3 DEF IInv, TypeOK, Sound, WellFormed, Ended
<1> QED
  BY <1>3, <1>4 DEF IInv

LEMMA InitIInv == Init => IInv
<1> SUFFICES ASSUME Init PROVE IInv
  OBVIOUS
<1>1. PICK on \in Together : cmd = [c \in Commands |-> IF c \in on THEN Idle ELSE Absent]
  BY DEF Init
<1>2. Idle \in Command /\ Absent \in Command
  <2>1. Stem[1] \in Ids
    BY StemsAreDistinct, NamesAreCounted DEF Names
  <2> QED
    BY <2>1 DEF Idle, Absent, Command, Steps, Outcomes
<1>3. \A c \in Commands : cmd[c] \in {Idle, Absent}
  BY <1>1
<1>4. \A c \in Commands : Sound(c, Idle) /\ Sound(c, Absent)
  BY <1>2 DEF Sound, WellFormed, JudgedAreReported, TasksUnderTheirNames, IdleIsEmpty, NamesOf,
      Idle, Absent
<1>5. TypeOK
  BY <1>1, <1>2, <1>3, <1>4, DirectoriesAreDirectories, BoundsAreKnown
  DEF Init, TypeOK, Sound, WellFormed, Ended
<1> QED
  BY <1>3, <1>4, <1>5 DEF IInv

LEMMA OpenIInv == ASSUME IInv, NEW c \in Commands, Open(c) PROVE IInv'
<1>1. PICK id \in Ids :
        cmd' = [cmd EXCEPT ![c] =
          IF c # "validate" /\ InTasksDir(c) /\ folder = "symlink"
          THEN [@ EXCEPT !.step = "ended", !.outcome = "error"]
          ELSE [@ EXCEPT !.step = FirstVisit(c), !.wanted = id,
                         !.listed = Listing(c), !.todo = Listing(c)]]
  <2>1. (IF c = "find" THEN Wanted ELSE {Idle.wanted}) \subseteq Ids
    BY BoundsAreKnown, StemsAreDistinct, NamesAreCounted DEF Idle, Names
  <2> QED
    BY <2>1 DEF Open
<1>2. cmd[c].step = "idle" /\ Sound(c, cmd[c]) /\ UNCHANGED <<root, folder, dir, saves>>
  BY DEF Open, IInv
<1> DEFINE refused == [cmd[c] EXCEPT !.step = "ended", !.outcome = "error"]
           opened == [cmd[c] EXCEPT !.step = FirstVisit(c), !.wanted = id,
                                    !.listed = Listing(c), !.todo = Listing(c)]
<1>3. Listing(c) \subseteq Names
  BY DEF Listing
<1>4. refused \in Command /\ opened \in Command
  BY <1>2, <1>3 DEF Sound, WellFormed, Command, Steps, Outcomes, FirstVisit
<1>5. Sound(c, refused)
  BY <1>2, <1>4
  DEF Sound, WellFormed, JudgedAreReported, TasksUnderTheirNames, IdleIsEmpty, Command
<1>6. Sound(c, opened)
  BY <1>2, <1>4
  DEF Sound, WellFormed, JudgedAreReported, TasksUnderTheirNames, IdleIsEmpty, Command,
      FirstVisit, NamesOf, Commands
<1>7. cmd' = [cmd EXCEPT ![c] = refused] \/ cmd' = [cmd EXCEPT ![c] = opened]
  BY <1>1
<1> QED
  BY <1>2, <1>5, <1>6, <1>7, OneCommandMoves

\* A command that ends keeps what it reported.
LEMMA StopIInv ==
  ASSUME IInv, NEW c \in Commands, NEW outcome \in Outcomes \ {"none"}, Stop(c, outcome),
         c \in Reporters => outcome = "error" \/ cmd[c].todo = {},
         UNCHANGED <<root, folder, dir, saves>>
  PROVE  IInv'
<1> DEFINE r == [cmd[c] EXCEPT !.step = "ended", !.outcome = outcome]
<1>0. Sound(c, cmd[c]) /\ cmd[c] \in Command
  BY DEF IInv, Sound, WellFormed
<1>1. Sound(c, cmd[c]) /\ r \in Command
  BY <1>0 DEF Command, Steps
<1>2. Sound(c, r)
  BY <1>1 DEF Sound, WellFormed, JudgedAreReported, TasksUnderTheirNames, IdleIsEmpty, Command
<1> QED
  BY <1>2, OneCommandMoves DEF Stop

LEMMA AdvanceIInv ==
  ASSUME IInv, NEW c \in Commands, NEW step \in {"lstat", "load"}, Advance(c, step),
         c # "check", cmd[c].step # "ended",
         UNCHANGED <<root, folder, dir, saves>>
  PROVE  IInv'
<1> DEFINE r == [cmd[c] EXCEPT !.step = step]
<1>1. Sound(c, cmd[c]) /\ r \in Command
  BY DEF IInv, Sound, WellFormed, Command, Steps
<1>2. Sound(c, r)
  BY <1>1 DEF Sound, WellFormed, JudgedAreReported, TasksUnderTheirNames, IdleIsEmpty, Command
<1> QED
  BY <1>2, OneCommandMoves DEF Advance

\* A file that was judged is reported as a task, or flagged, or, by the commands
\* that do not report every file, passed over.
LEMMA GoOnIInv ==
  ASSUME IInv, NEW c \in Commands, NEW n, Current(c, n), cmd[c].step \notin {"idle", "ended"},
         NEW tasks, NEW flagged, GoOn(c, n, tasks, flagged),
         \/ tasks = {} /\ flagged = {n}
         \/ flagged = {} /\ \E t \in TaskRecord : tasks = {t} /\ t.name = n /\ t.id = Stem[n]
         \/ c \notin Reporters /\ tasks = {} /\ flagged = {},
         UNCHANGED <<root, folder, dir, saves>>
  PROVE  IInv'
<1> DEFINE r == [cmd[c] EXCEPT !.step = FirstVisit(c), !.todo = cmd[c].todo \ {n},
                               !.tasks = cmd[c].tasks \cup tasks,
                               !.flagged = cmd[c].flagged \cup flagged]
<1>1. Sound(c, cmd[c]) /\ cmd[c] \in Command
  BY DEF IInv, Sound, WellFormed
<1>2. n \in cmd[c].todo /\ n \in cmd[c].listed /\ n \in Names
  BY <1>1 DEF Current, Sound, WellFormed, Command
<1>3. tasks \subseteq TaskRecord /\ flagged \subseteq Names
  BY <1>2
<1>4. r \in Command
  BY <1>1, <1>3 DEF Command, Steps, FirstVisit
<1>5. WellFormed(c, r)
  BY <1>1, <1>4 DEF Sound, WellFormed, Command, FirstVisit, Commands
<1>6. ASSUME c \in Reporters PROVE JudgedAreReported(c, r)
  <2>1. /\ NamesOf(cmd[c].tasks) \cup cmd[c].flagged = cmd[c].listed \ cmd[c].todo
        /\ NamesOf(cmd[c].tasks) \cap cmd[c].flagged = {}
    BY <1>1, <1>6 DEF Sound, JudgedAreReported
  <2>2. /\ r.tasks = cmd[c].tasks \cup tasks /\ r.flagged = cmd[c].flagged \cup flagged
        /\ r.listed = cmd[c].listed /\ r.todo = cmd[c].todo \ {n}
    BY <1>1 DEF Command
  <2>3. NamesOf(r.tasks) = NamesOf(cmd[c].tasks) \cup NamesOf(tasks)
    BY <2>2 DEF NamesOf
  <2>4. NamesOf(tasks) \cup flagged = {n} /\ NamesOf(tasks) \cap flagged = {}
    <3>1. CASE tasks = {} /\ flagged = {n}
      BY <3>1 DEF NamesOf
    <3>2. CASE flagged = {} /\ \E t \in TaskRecord : tasks = {t} /\ t.name = n /\ t.id = Stem[n]
      <4>1. PICK t \in TaskRecord : tasks = {t} /\ t.name = n
        BY <3>2
      <4>2. NamesOf({t}) = {t.name}
        BY DEF NamesOf
      <4> QED
        BY <3>2, <4>1, <4>2
    <3> QED
      BY <1>6, <3>1, <3>2
  <2>5. /\ NamesOf(r.tasks) \cup r.flagged = r.listed \ r.todo
        /\ NamesOf(r.tasks) \cap r.flagged = {}
    BY <1>2, <2>1, <2>2, <2>3, <2>4
  <2>6. r.step # "ended"
    BY <1>1 DEF Command, FirstVisit
  <2> QED
    BY <2>5, <2>6 DEF JudgedAreReported
<1>7. TasksUnderTheirNames(r)
  <2>1. /\ r.tasks = cmd[c].tasks \cup tasks
        /\ r.listed = cmd[c].listed /\ r.todo = cmd[c].todo \ {n}
    BY <1>1 DEF Command
  <2> QED
    BY <1>1, <1>2, <2>1 DEF Sound, TasksUnderTheirNames
<1>8. IdleIsEmpty(r)
  BY <1>1 DEF IdleIsEmpty, FirstVisit, Command
<1> QED
  BY <1>5, <1>6, <1>7, <1>8, OneCommandMoves DEF GoOn, Sound, JudgedAreReported

\* What a file that loadTaskFile refuses does to the command that read it.
LEMMA RefusedIInv ==
  ASSUME IInv, NEW c \in Commands \ {"check"}, NEW n, Current(c, n),
         cmd[c].step \notin {"idle", "ended"}, Refused(c, n),
         UNCHANGED <<root, folder, dir, saves>>
  PROVE  IInv'
<1>1. CASE c = "find"
  BY <1>1, StopIInv DEF Refused, Outcomes, Reporters
<1>2. CASE c # "find"
  BY <1>2, GoOnIInv DEF Refused
<1> QED
  BY <1>1, <1>2

LEMMA NextIInv == IInv /\ [Next]_vars => IInv'
<1> SUFFICES ASSUME IInv, [Next]_vars PROVE IInv'
  OBVIOUS
<1>1. ASSUME NEW c \in Commands, Open(c) PROVE IInv'
  BY <1>1, OpenIInv
<1>2. ASSUME NEW c \in Commands, End(c) PROVE IInv'
  <2>1. Verdict(c) \in Outcomes \ {"none"}
    BY DEF Verdict, Outcomes, Commands
  <2> QED
    BY <1>2, <2>1, StopIInv DEF End
<1>3. ASSUME NEW c \in Commands, NEW n \in Names, Lstat(c, n) PROVE IInv'
  <2>1. Current(c, n) /\ cmd[c].step = "lstat" /\ UNCHANGED <<root, folder, dir, saves>>
    BY <1>3 DEF Lstat, At
  <2>2. c # "check"
    BY <2>1 DEF IInv, Sound, WellFormed
  <2>3. Advance(c, "load") \/ Refused(c, n)
    BY <1>3 DEF Lstat
  <2> QED
    BY <2>1, <2>2, <2>3, AdvanceIInv, RefusedIInv
<1>4. ASSUME NEW c \in Commands, NEW n \in Names, Load(c, n) PROVE IInv'
  <2>1. Current(c, n) /\ cmd[c].step = "load" /\ UNCHANGED <<root, folder, dir, saves>>
    BY <1>4 DEF Load, At
  <2>2. c # "check"
    BY <2>1 DEF IInv, Sound, WellFormed
  <2>3. CASE Refused(c, n)
    BY <2>1, <2>2, <2>3, RefusedIInv
  <2>4. CASE c = "find" /\ Stop(c, "found")
    BY <2>1, <2>4, StopIInv DEF Outcomes, Reporters
  <2>5. CASE Readable(n) /\ Accepts(n, dir[n].text, c = "validate")
             /\ GoOn(c, n, {Task(n, dir[n].text)}, {})
    <3>1. dir[n].text \in Text /\ dir[n].text.id = Stem[n]
      BY <2>5, AcceptedIsText DEF IInv, Readable
    <3>2. Task(n, dir[n].text) \in TaskRecord
      BY <3>1, TaskIsTyped
    <3>3. Task(n, dir[n].text).name = n /\ Task(n, dir[n].text).id = Stem[n]
      BY <3>1 DEF Task
    <3> QED
      BY <2>1, <2>5, <3>2, <3>3, GoOnIInv
  <2> QED
    BY <1>4, <2>3, <2>4, <2>5 DEF Load
<1>5. ASSUME NEW n \in Names, ReadStatus(n) PROVE IInv'
  <2>1. Current("check", n) /\ cmd["check"].step = "read" /\ UNCHANGED <<root, folder, dir, saves>>
    BY <1>5 DEF ReadStatus, At
  <2>2. \/ Stop("check", "error")
        \/ \E flagged \in {{}, {n}} : GoOn("check", n, {}, flagged)
    BY <1>5 DEF ReadStatus
  <2> QED
    BY <2>1, <2>2, GoOnIInv, StopIInv DEF Commands, Reporters, Outcomes
<1>6. ASSUME NEW n \in Names, ReadId(n) PROVE IInv'
  <2>1. Current("find", n) /\ cmd["find"].step = "read" /\ UNCHANGED <<root, folder, dir, saves>>
    BY <1>6 DEF ReadId, At
  <2>2. Stop("find", "error") \/ Advance("find", "lstat") \/ GoOn("find", n, {}, {})
    BY <1>6 DEF ReadId
  <2> QED
    BY <2>1, <2>2, GoOnIInv, StopIInv, AdvanceIInv DEF Commands, Reporters, Outcomes
<1>7. ASSUME NEW n \in Names, Save(n) PROVE IInv'
  BY <1>7, BoundsAreKnown DEF Save, IInv, TypeOK, Ended
<1>8. CASE UNCHANGED vars
  BY <1>8 DEF vars, IInv, TypeOK, Ended
<1> QED
  BY <1>1, <1>2, <1>3, <1>4, <1>5, <1>6, <1>7, <1>8 DEF Next

LEMMA InvariantHolds == Spec => []IInv
  BY InitIInv, NextIInv, PTL DEF Spec

\* Every state of the four readers has its type, whatever is saved meanwhile.
THEOREM DocumentsTypeCorrect == Spec => []TypeOK
<1>1. IInv => TypeOK
  BY DEF IInv
<1> QED
  BY <1>1, InvariantHolds, PTL

\* Every file that was listed is reported once, whatever happens to it before it
\* is read (DiscoverTasks, LoadTasks).
THEOREM EntriesAreAccountedFor == Spec => []EntriesAccountedFor
<1>1. IInv => EntriesAccountedFor
  BY DEF IInv, Sound, JudgedAreReported, EntriesAccountedFor, Ended, Reporters, Commands
<1> QED
  BY <1>1, InvariantHolds, PTL

\* No listing shows one id twice (loadTaskFile ties the id to the filename).
THEOREM IdsAreUnique == Spec => []ListedIdsUnique
<1>1. IInv => ListedIdsUnique
  <2> SUFFICES ASSUME IInv, NEW c \in Commands, NEW t \in cmd[c].tasks, NEW u \in cmd[c].tasks,
                      t.id = u.id
               PROVE  t = u
    BY DEF ListedIdsUnique
  <2>1. TasksUnderTheirNames(cmd[c]) /\ cmd[c].listed \subseteq Names
    BY DEF IInv, Sound, WellFormed, Command
  <2>2. t.name \in Names /\ u.name \in Names /\ Stem[t.name] = Stem[u.name]
    BY <2>1 DEF TasksUnderTheirNames
  <2> QED
    BY <2>1, <2>2, StemsAreDistinct DEF TasksUnderTheirNames
<1> QED
  BY <1>1, InvariantHolds, PTL
-----------------------------------------------------------------------------
(* A directory nobody changes. *)

\* loadTaskFile accepts the file called n, at both its visits.
IsTask(c, n) ==
  dir[n] # NoEntry /\ dir[n].kind = "file" /\ Accepts(n, dir[n].text, c = "validate")

Declares(n, id) == Readable(n) /\ dir[n].text # Unparsable /\ dir[n].text.id = id

IsFirst(todo, n) == n \in todo /\ \A m \in todo : n <= m

\* What a reporter has found so far.
ReporterFound(c, r) ==
  /\ \A n \in r.listed \ r.todo : IsTask(c, n) => Task(n, dir[n].text) \in r.tasks
  /\ \A t \in r.tasks : IsTask(c, t.name) /\ t = Task(t.name, dir[t.name].text)
  /\ r.outcome = "accepted" => r.flagged = {}

\* What the sweep has found so far.
CheckFound(r) ==
  /\ \A n \in r.listed \ r.todo : Misfiled(n) => n \in r.flagged
  /\ r.outcome = "clean" => r.todo = {} /\ r.flagged = {}

\* What the lookup has passed over, and where it stopped.
LookupFound(r) ==
  /\ \A n \in r.listed \ r.todo : ~Declares(n, r.wanted)
  /\ r.step \in {"lstat", "load"} => \A n : IsFirst(r.todo, n) => Declares(n, r.wanted)
  /\ r.outcome \in {"found", "rejected"} =>
       \E n : /\ IsFirst(r.todo, n) /\ Declares(n, r.wanted)
              /\ r.outcome = "found" <=> IsTask("find", n)
  /\ r.outcome \notin {"none", "error", "found", "rejected"} => r.todo = {}

Describes(c, r) ==
  /\ r.step # "idle" /\ r.outcome # "error" => r.listed = Listing(c)
  /\ r.step = "load" => \A n : IsFirst(r.todo, n) => dir[n] # NoEntry /\ dir[n].kind = "file"
  /\ r.step = "idle" => r.listed = {} /\ r.todo = {}
  /\ c = "tasks" /\ r.outcome = "error" => r.tasks = {}
  /\ c \in Reporters => ReporterFound(c, r)
  /\ c = "check" => CheckFound(r)
  /\ c = "find" => LookupFound(r)

StillInv == saves = 0 => \A c \in Commands : Describes(c, cmd[c])

\* A step of one command: what the others found still stands.
LEMMA OneFinds ==
  ASSUME TypeOK, StillInv, NEW c \in Commands, NEW r, saves = 0 => Describes(c, r),
         cmd' = [cmd EXCEPT ![c] = r], UNCHANGED <<root, folder, dir, saves>>
  PROVE  StillInv'
<1> SUFFICES ASSUME saves = 0, NEW d \in Commands PROVE Describes(d, cmd[d])'
  BY DEF StillInv
<1>1. cmd'[d] = IF d = c THEN r ELSE cmd[d]
  BY DEF TypeOK
<1>2. \A s : s = cmd'[d] => Describes(d, s)
  BY <1>1 DEF StillInv
<1>3. \A e, s : Describes(e, s) <=> Describes(e, s)'
  BY DEF Describes, ReporterFound, CheckFound, LookupFound, IsTask, Declares, Misfiled, Readable,
         Listing, InTasksDir
<1>4. PICK s : s = cmd'[d]
  OBVIOUS
<1>5. Describes(d, s)'
  BY <1>2, <1>3, <1>4
<1> QED
  BY <1>4, <1>5
LEMMA OpenFinds == ASSUME IInv, StillInv, NEW c \in Commands, Open(c) PROVE StillInv'
<1>1. PICK id :
        cmd' = [cmd EXCEPT ![c] =
          IF c # "validate" /\ InTasksDir(c) /\ folder = "symlink"
          THEN [@ EXCEPT !.step = "ended", !.outcome = "error"]
          ELSE [@ EXCEPT !.step = FirstVisit(c), !.wanted = id,
                         !.listed = Listing(c), !.todo = Listing(c)]]
  BY DEF Open
<1>2. /\ cmd[c].step = "idle" /\ cmd[c] \in Command /\ Sound(c, cmd[c])
      /\ UNCHANGED <<root, folder, dir, saves>>
  BY DEF Open, IInv, Sound, WellFormed
<1>3. cmd[c].tasks = {} /\ cmd[c].outcome = "none"
  BY <1>2 DEF Sound, IdleIsEmpty, WellFormed
<1> DEFINE refused == [cmd[c] EXCEPT !.step = "ended", !.outcome = "error"]
           opened == [cmd[c] EXCEPT !.step = FirstVisit(c), !.wanted = id,
                                    !.listed = Listing(c), !.todo = Listing(c)]
<1>4. /\ refused.step = "ended" /\ refused.outcome = "error" /\ refused.tasks = {}
      /\ refused.listed = cmd[c].listed /\ refused.todo = cmd[c].todo
  BY <1>2, <1>3 DEF Command
<1>5. /\ opened.step = FirstVisit(c) /\ opened.outcome = "none" /\ opened.tasks = {}
      /\ opened.listed = Listing(c) /\ opened.todo = Listing(c)
  BY <1>2, <1>3 DEF Command
<1>6. saves = 0 => cmd[c].listed = {} /\ cmd[c].todo = {}
  BY <1>2 DEF StillInv, Describes
<1>7. c = "find" => opened.step = "read"
  BY <1>5 DEF FirstVisit
<1>8. opened.step \in {"read", "lstat"}
  BY <1>5 DEF FirstVisit
<1> HIDE DEF refused, opened
<1>9. saves = 0 => Describes(c, refused)
  BY <1>4, <1>6 DEF Describes, ReporterFound, CheckFound, LookupFound
<1>10. Describes(c, opened)
  BY <1>5, <1>7, <1>8 DEF Describes, ReporterFound, CheckFound, LookupFound
<1>11. cmd' = [cmd EXCEPT ![c] = refused] \/ cmd' = [cmd EXCEPT ![c] = opened]
  BY <1>1 DEF refused, opened
<1> QED
  BY <1>2, <1>9, <1>10, <1>11, OneFinds DEF IInv

\* A command ends with an outcome that what it found vouches for.
LEMMA StopFinds ==
  ASSUME IInv, StillInv, NEW c \in Commands, NEW outcome \in Outcomes \ {"none"},
         Stop(c, outcome), cmd[c].step \notin {"idle", "ended"},
         UNCHANGED <<root, folder, dir, saves>>,
         outcome = "accepted" => cmd[c].flagged = {},
         outcome = "clean" => cmd[c].todo = {} /\ cmd[c].flagged = {},
         saves = 0 /\ c = "find" /\ outcome \in {"found", "rejected"} =>
           \E n : /\ IsFirst(cmd[c].todo, n) /\ Declares(n, cmd[c].wanted)
                  /\ outcome = "found" <=> IsTask("find", n),
         c = "find" /\ outcome \notin {"error", "found", "rejected"} => cmd[c].todo = {},
         c = "tasks" => outcome # "error"
  PROVE  StillInv'
<1> DEFINE r == [cmd[c] EXCEPT !.step = "ended", !.outcome = outcome]
<1>1. cmd[c] \in Command /\ Sound(c, cmd[c])
  BY DEF IInv, Sound, WellFormed
<1>2. cmd[c].outcome = "none"
  BY <1>1 DEF Sound, WellFormed
<1>3. /\ r.step = "ended" /\ r.outcome = outcome /\ r.tasks = cmd[c].tasks
      /\ r.flagged = cmd[c].flagged /\ r.wanted = cmd[c].wanted
      /\ r.listed = cmd[c].listed /\ r.todo = cmd[c].todo
  BY <1>1 DEF Command
<1>4. cmd' = [cmd EXCEPT ![c] = r]
  BY DEF Stop
<1> HIDE DEF r
<1>5. ASSUME saves = 0 PROVE Describes(c, r)
  <2>1. Describes(c, cmd[c])
    BY <1>5 DEF StillInv
  <2>2. r.listed = Listing(c)
    BY <1>2, <1>3, <2>1 DEF Describes
  <2>3. c \in Reporters => ReporterFound(c, r)
    BY <1>3, <2>1 DEF Describes, ReporterFound
  <2>4. c = "check" => CheckFound(r)
    BY <1>3, <2>1 DEF Describes, CheckFound
  <2>5. c = "find" => LookupFound(r)
    BY <1>3, <1>5, <2>1 DEF Describes, LookupFound
  <2> QED
    BY <1>3, <2>2, <2>3, <2>4, <2>5 DEF Describes
<1> QED
  BY <1>4, <1>5, OneFinds DEF IInv

\* The next visit to the same file.
LEMMA AdvanceFinds ==
  ASSUME IInv, StillInv, NEW c \in Commands, NEW step \in {"lstat", "load"}, Advance(c, step),
         cmd[c].step \notin {"idle", "ended"},
         UNCHANGED <<root, folder, dir, saves>>,
         saves = 0 /\ step = "load" =>
           \A n : IsFirst(cmd[c].todo, n) => dir[n] # NoEntry /\ dir[n].kind = "file",
         saves = 0 /\ c = "find" =>
           \A n : IsFirst(cmd[c].todo, n) => Declares(n, cmd[c].wanted)
  PROVE  StillInv'
<1> DEFINE r == [cmd[c] EXCEPT !.step = step]
<1>1. cmd[c] \in Command /\ cmd[c].outcome = "none"
  BY DEF IInv, Sound, WellFormed
<1>2. /\ r.step = step /\ r.outcome = "none" /\ r.tasks = cmd[c].tasks
      /\ r.flagged = cmd[c].flagged /\ r.wanted = cmd[c].wanted
      /\ r.listed = cmd[c].listed /\ r.todo = cmd[c].todo
  BY <1>1 DEF Command
<1>3. cmd' = [cmd EXCEPT ![c] = r]
  BY DEF Advance
<1> HIDE DEF r
<1>4. ASSUME saves = 0 PROVE Describes(c, r)
  <2>1. Describes(c, cmd[c])
    BY <1>4 DEF StillInv
  <2>2. r.listed = Listing(c)
    BY <1>1, <1>2, <2>1 DEF Describes
  <2>3. c \in Reporters => ReporterFound(c, r)
    BY <1>2, <2>1 DEF Describes, ReporterFound
  <2>4. c = "check" => CheckFound(r)
    BY <1>2, <2>1 DEF Describes, CheckFound
  <2>5. c = "find" => LookupFound(r)
    BY <1>2, <1>4, <2>1 DEF Describes, LookupFound
  <2> QED
    BY <1>2, <1>4, <2>2, <2>3, <2>4, <2>5 DEF Describes
<1> QED
  BY <1>3, <1>4, OneFinds DEF IInv

\* One more file is judged.
LEMMA GoOnFinds ==
  ASSUME IInv, StillInv, NEW c \in Commands, NEW n, Current(c, n),
         cmd[c].step \notin {"idle", "ended"},
         NEW tasks, NEW flagged, GoOn(c, n, tasks, flagged),
         UNCHANGED <<root, folder, dir, saves>>,
         saves = 0 /\ c \in Reporters =>
           IF IsTask(c, n) THEN tasks = {Task(n, dir[n].text)} ELSE tasks = {},
         c = "check" /\ Misfiled(n) => n \in flagged,
         c = "find" => ~Declares(n, cmd[c].wanted)
  PROVE  StillInv'
<1> DEFINE r == [cmd[c] EXCEPT !.step = FirstVisit(c), !.todo = cmd[c].todo \ {n},
                               !.tasks = cmd[c].tasks \cup tasks,
                               !.flagged = cmd[c].flagged \cup flagged]
<1>1. cmd[c] \in Command /\ Sound(c, cmd[c])
  BY DEF IInv, Sound, WellFormed
<1>2. cmd[c].outcome = "none"
  BY <1>1 DEF Sound, WellFormed
<1>3. /\ r.step = FirstVisit(c) /\ r.outcome = "none" /\ r.tasks = cmd[c].tasks \cup tasks
      /\ r.flagged = cmd[c].flagged \cup flagged /\ r.wanted = cmd[c].wanted
      /\ r.listed = cmd[c].listed /\ r.todo = cmd[c].todo \ {n}
  BY <1>1, <1>2 DEF Command
<1>4. cmd' = [cmd EXCEPT ![c] = r]
  BY DEF GoOn
<1>5. r.step \in {"read", "lstat"} /\ (c = "find" => r.step = "read")
  BY <1>3 DEF FirstVisit
<1> HIDE DEF r
<1>6. ASSUME saves = 0 PROVE Describes(c, r)
  <2>1. Describes(c, cmd[c])
    BY <1>6 DEF StillInv
  <2>2. r.listed = Listing(c)
    BY <1>2, <1>3, <2>1 DEF Describes
  <2>3. ASSUME c \in Reporters PROVE ReporterFound(c, r)
    <3>1. ReporterFound(c, cmd[c])
      BY <2>1, <2>3 DEF Describes
    <3>2. \A t \in tasks : IsTask(c, t.name) /\ t = Task(t.name, dir[t.name].text)
      BY <1>6, <2>3 DEF Task
    <3>3. IsTask(c, n) => Task(n, dir[n].text) \in tasks
      BY <1>6, <2>3
    <3> QED
      BY <1>3, <3>1, <3>2, <3>3 DEF ReporterFound
  <2>4. c = "check" => CheckFound(r)
    BY <1>3, <2>1 DEF Describes, CheckFound
  <2>5. c = "find" => LookupFound(r)
    BY <1>3, <1>5, <2>1 DEF Describes, LookupFound
  <2> QED
    BY <1>3, <1>5, <2>2, <2>3, <2>4, <2>5 DEF Describes
<1> QED
  BY <1>4, <1>6, OneFinds DEF IInv

LEMMA RefusedFinds ==
  ASSUME IInv, StillInv, NEW c \in Commands \ {"check"}, NEW n, Current(c, n),
         cmd[c].step \in {"lstat", "load"}, Refused(c, n), saves = 0 => ~IsTask(c, n),
         UNCHANGED <<root, folder, dir, saves>>
  PROVE  StillInv'
<1>1. CASE c = "find"
  <2>1. saves = 0 => IsFirst(cmd[c].todo, n) /\ Declares(n, cmd[c].wanted)
    BY <1>1 DEF StillInv, Describes, LookupFound, Current, IsFirst
  <2> QED
    BY <1>1, <2>1, StopFinds DEF Refused, Outcomes
<1>2. CASE c # "find"
  BY <1>2, GoOnFinds DEF Refused
<1> QED
  BY <1>1, <1>2

LEMMA NextStill == IInv /\ StillInv /\ [Next]_vars => StillInv'
<1> SUFFICES ASSUME IInv, StillInv, [Next]_vars PROVE StillInv'
  OBVIOUS
<1>0. \A c \in Commands : \A n : Current(c, n) <=> IsFirst(cmd[c].todo, n)
  BY DEF Current, IsFirst
<1>1. ASSUME NEW c \in Commands, Open(c) PROVE StillInv'
  BY <1>1, OpenFinds
<1>2. ASSUME NEW c \in Commands, End(c) PROVE StillInv'
  <2>1. /\ Verdict(c) \in Outcomes \ {"none", "error", "found"}
        /\ c = "find" => Verdict(c) = "notfound"
        /\ Verdict(c) \in {"accepted", "clean"} => cmd[c].flagged = {}
    BY DEF Verdict, Outcomes, Commands
  <2>2. cmd[c].todo = {} /\ cmd[c].step \in {"read", "lstat"}
        /\ Stop(c, Verdict(c)) /\ UNCHANGED <<root, folder, dir, saves>>
    BY <1>2 DEF End, FirstVisit
  <2> QED
    BY <2>1, <2>2, StopFinds
<1>3. ASSUME NEW c \in Commands, NEW n \in Names, Lstat(c, n) PROVE StillInv'
  <2>1. Current(c, n) /\ cmd[c].step = "lstat" /\ UNCHANGED <<root, folder, dir, saves>>
    BY <1>3 DEF Lstat, At
  <2>2. c # "check"
    BY <2>1 DEF IInv, Sound, WellFormed
  <2>3. CASE dir[n] # NoEntry /\ dir[n].kind = "file" /\ Advance(c, "load")
    <3>1. \A m : IsFirst(cmd[c].todo, m) => m = n
      <4>1. cmd[c].todo \subseteq Names
        BY DEF IInv, Sound, WellFormed, Command
      <4> QED
        BY <2>1, <4>1, NamesAreCounted DEF Current, IsFirst, Names
    <3>2. saves = 0 /\ c = "find" => Declares(n, cmd[c].wanted)
      BY <1>0, <2>1 DEF StillInv, Describes, LookupFound
    <3> QED
      BY <2>1, <2>3, <3>1, <3>2, AdvanceFinds
  <2>4. CASE ~(dir[n] # NoEntry /\ dir[n].kind = "file") /\ Refused(c, n)
    <3>1. ~IsTask(c, n)
      BY <2>4 DEF IsTask
    <3> QED
      BY <2>1, <2>2, <2>4, <3>1, RefusedFinds
  <2> QED
    BY <1>3, <2>3, <2>4 DEF Lstat
<1>4. ASSUME NEW c \in Commands, NEW n \in Names, Load(c, n) PROVE StillInv'
  <2>1. Current(c, n) /\ cmd[c].step = "load" /\ UNCHANGED <<root, folder, dir, saves>>
    BY <1>4 DEF Load, At
  <2>2. c # "check"
    BY <2>1 DEF IInv, Sound, WellFormed
  <2>3. saves = 0 => dir[n] # NoEntry /\ dir[n].kind = "file"
    BY <1>0, <2>1 DEF StillInv, Describes
  <2>4. saves = 0 =>
          (IsTask(c, n) <=> Readable(n) /\ Accepts(n, dir[n].text, c = "validate"))
    BY <2>3 DEF IsTask, Readable
  <2>5. CASE ~(Readable(n) /\ Accepts(n, dir[n].text, c = "validate")) /\ Refused(c, n)
    BY <2>1, <2>2, <2>4, <2>5, RefusedFinds
  <2>6. CASE /\ Readable(n) /\ Accepts(n, dir[n].text, c = "validate")
             /\ c = "find" /\ Stop(c, "found")
    <3>1. saves = 0 => IsTask("find", n) /\ Declares(n, cmd[c].wanted)
      BY <1>0, <2>1, <2>4, <2>6 DEF StillInv, Describes, LookupFound
    <3> QED
      BY <1>0, <2>1, <2>6, <3>1, StopFinds DEF Outcomes
  <2>7. CASE /\ Readable(n) /\ Accepts(n, dir[n].text, c = "validate")
             /\ c # "find" /\ GoOn(c, n, {Task(n, dir[n].text)}, {})
    BY <2>1, <2>2, <2>4, <2>7, GoOnFinds
  <2> QED
    BY <1>4, <2>5, <2>6, <2>7 DEF Load
<1>5. ASSUME NEW n \in Names, ReadStatus(n) PROVE StillInv'
  <2>1. Current("check", n) /\ cmd["check"].step = "read" /\ UNCHANGED <<root, folder, dir, saves>>
    BY <1>5 DEF ReadStatus, At
  <2>2. \/ Stop("check", "error")
        \/ GoOn("check", n, {}, IF Misfiled(n) THEN {n} ELSE {})
    BY <1>5 DEF ReadStatus
  <2>3. Misfiled(n) => n \in (IF Misfiled(n) THEN {n} ELSE {})
    OBVIOUS
  <2> QED
    BY <2>1, <2>2, <2>3, GoOnFinds, StopFinds DEF Commands, Reporters, Outcomes
<1>6. ASSUME NEW n \in Names, ReadId(n) PROVE StillInv'
  <2>1. Current("find", n) /\ cmd["find"].step = "read" /\ UNCHANGED <<root, folder, dir, saves>>
    BY <1>6 DEF ReadId, At
  <2>2. CASE Stop("find", "error")
    BY <2>1, <2>2, StopFinds DEF Commands, Outcomes
  <2>3. CASE Readable(n) /\ DeclaresWanted(n) /\ Advance("find", "lstat")
    <3>1. \A m : IsFirst(cmd["find"].todo, m) => m = n
      <4>1. cmd["find"].todo \subseteq Names
        BY DEF IInv, Sound, WellFormed, Command, Commands
      <4> QED
        BY <2>1, <4>1, NamesAreCounted DEF Current, IsFirst, Names
    <3>2. Declares(n, cmd["find"].wanted)
      BY <2>3 DEF Declares, DeclaresWanted
    <3> QED
      BY <2>1, <2>3, <3>1, <3>2, AdvanceFinds DEF Commands
  <2>4. CASE Readable(n) /\ ~DeclaresWanted(n) /\ GoOn("find", n, {}, {})
    <3>1. ~Declares(n, cmd["find"].wanted)
      BY <2>4 DEF Declares, DeclaresWanted
    <3> QED
      BY <2>1, <2>4, <3>1, GoOnFinds DEF Commands, Reporters
  <2> QED
    BY <1>6, <2>2, <2>3, <2>4 DEF ReadId
<1>7. ASSUME NEW n \in Names, Save(n) PROVE StillInv'
  BY <1>7, BoundsAreKnown DEF Save, StillInv, IInv, TypeOK
<1>8. CASE UNCHANGED vars
  BY <1>8 DEF vars, StillInv, Describes, ReporterFound, CheckFound, LookupFound, IsTask, Declares,
              Misfiled, Readable, Listing, InTasksDir
<1> QED
  BY <1>1, <1>2, <1>3, <1>4, <1>5, <1>6, <1>7, <1>8 DEF Next

LEMMA InitStill == Init => StillInv
<1> SUFFICES ASSUME Init, NEW c \in Commands PROVE Describes(c, cmd[c])
  BY DEF StillInv
<1>0. PICK on \in Together : cmd = [d \in Commands |-> IF d \in on THEN Idle ELSE Absent]
  BY DEF Init
<1>1. cmd[c] \in {Idle, Absent}
  BY <1>0
<1>2. /\ cmd[c].listed = {} /\ cmd[c].todo = {} /\ cmd[c].tasks = {} /\ cmd[c].flagged = {}
      /\ \/ cmd[c].step = "idle" /\ cmd[c].outcome = "none"
         \/ cmd[c].step = "ended" /\ cmd[c].outcome = "error"
  <2>1. CASE cmd[c] = Idle
    BY <2>1 DEF Idle
  <2>2. CASE cmd[c] = Absent
    BY <2>2 DEF Idle, Absent
  <2> QED
    BY <1>1, <2>1, <2>2
<1> QED
  BY <1>2 DEF Describes, ReporterFound, CheckFound, LookupFound

LEMMA StillHolds == Spec => [](IInv /\ StillInv)
<1>1. Init => IInv /\ StillInv
  BY InitIInv, InitStill
<1>2. (IInv /\ StillInv) /\ [Next]_vars => (IInv /\ StillInv)'
  BY NextIInv, NextStill
<1> QED
  BY <1>1, <1>2, PTL DEF Spec
\* A strict acceptance is an acceptance.
LEMMA StrictIsLenient ==
  ASSUME NEW n \in Names, IsTask("validate", n)
  PROVE  IsTask("tasks", n)
  BY DEF IsTask, Accepts

\* `validate` and `tasks` agree on a tree they both find valid (LoadTasks,
\* DiscoverTasks): nothing invalid, the same tasks, whole contracts.
THEOREM ValidIsListed == Spec => []ValidMeansListed
<1>1. ASSUME IInv, StillInv PROVE ValidMeansListed
  <2> SUFFICES ASSUME Ended("validate"), cmd["validate"].outcome = "accepted",
                      Ended("tasks"), cmd["tasks"].outcome = "listed", saves = 0, root = "top"
               PROVE  /\ cmd["tasks"].flagged = {}
                      /\ cmd["tasks"].tasks = cmd["validate"].tasks
                      /\ \A t \in cmd["tasks"].tasks :
                           ~t.noted /\ t.contract.outcome /\ t.contract.done_when
    BY DEF ValidMeansListed
  <2> DEFINE V == cmd["validate"]
             T == cmd["tasks"]
  <2>1. /\ Sound("validate", V) /\ Sound("tasks", T)
        /\ Describes("validate", V) /\ Describes("tasks", T)
    BY <1>1 DEF StillInv, IInv, Commands
  <2>2. /\ V.step = "ended" /\ T.step = "ended" /\ V.outcome = "accepted" /\ T.outcome = "listed"
    BY DEF Ended
  <2> HIDE DEF V, T
  <2>3. /\ V.todo = {} /\ T.todo = {} /\ V.flagged = {}
        /\ V.listed = Listing("validate") /\ T.listed = Listing("tasks")
        /\ ReporterFound("validate", V) /\ ReporterFound("tasks", T)
    BY <2>1, <2>2 DEF Sound, JudgedAreReported, Describes, ReporterFound, Reporters
  <2>4. /\ NamesOf(V.tasks) = V.listed
        /\ NamesOf(T.tasks) \cup T.flagged = T.listed /\ NamesOf(T.tasks) \cap T.flagged = {}
    BY <2>1, <2>3 DEF Sound, JudgedAreReported, Reporters
  <2>5. T.listed \subseteq V.listed /\ V.listed \subseteq Names
    BY <2>3 DEF Listing, InTasksDir, Skips
  <2>6. \A n \in V.listed : IsTask("validate", n) /\ Task(n, dir[n].text) \in V.tasks
    <3> TAKE n \in V.listed
    <3>1. PICK t \in V.tasks : t.name = n
      BY <2>4 DEF NamesOf
    <3> QED
      BY <2>3, <3>1 DEF ReporterFound
  <2>7. \A n \in V.listed : n \in T.listed
    BY <2>3, <2>5, <2>6 DEF Listing, InTasksDir, Skips, IsTask
  <2>8. \A n \in V.listed : Task(n, dir[n].text) \in T.tasks
    <3> TAKE n \in V.listed
    <3>1. IsTask("tasks", n)
      BY <2>5, <2>6, StrictIsLenient
    <3> QED
      BY <2>3, <2>7, <3>1 DEF ReporterFound
  <2>9. \A n \in V.listed : n \in NamesOf(T.tasks)
    <3> TAKE n \in V.listed
    <3>1. Task(n, dir[n].text).name = n
      BY DEF Task
    <3> QED
      BY <2>8, <3>1 DEF NamesOf
  <2>10. T.flagged = {}
    BY <2>4, <2>5, <2>9
  <2>11. T.tasks \subseteq V.tasks
    <3> SUFFICES ASSUME NEW t \in T.tasks PROVE t \in V.tasks
      OBVIOUS
    <3>1. t.name \in V.listed
      BY <2>4, <2>5 DEF NamesOf
    <3> QED
      BY <2>3, <2>6, <3>1 DEF ReporterFound
  <2>12. V.tasks \subseteq T.tasks
    <3> SUFFICES ASSUME NEW t \in V.tasks PROVE t \in T.tasks
      OBVIOUS
    <3>1. t.name \in V.listed
      BY <2>4 DEF NamesOf
    <3> QED
      BY <2>3, <2>8, <3>1 DEF ReporterFound
  <2>13. \A t \in V.tasks : ~t.noted /\ t.contract.outcome /\ t.contract.done_when
    <3> TAKE t \in V.tasks
    <3>1. IsTask("validate", t.name) /\ t = Task(t.name, dir[t.name].text)
      BY <2>3 DEF ReporterFound
    <3>2. /\ dir[t.name].text.id \in Canonical
          /\ validateTaskBody(dir[t.name].text.body)
      BY <3>1 DEF IsTask, Accepts
    <3>3. /\ HasSection(dir[t.name].text.body, taskObjectiveHeadings)
          /\ HasSection(dir[t.name].text.body, taskOutcomeHeadings)
      BY <3>2 DEF validateTaskBody
    <3>4. /\ t.noted = Noted(dir[t.name].text)
          /\ t.contract = parseTaskContract(dir[t.name].text.body)
      BY <3>1 DEF Task
    <3>5. ~Noted(dir[t.name].text)
      BY <3>2 DEF Noted
    <3>6. parseTaskContract(dir[t.name].text.body) = [outcome |-> TRUE, done_when |-> TRUE]
      BY <3>3 DEF parseTaskContract, HasSection
    <3> QED
      BY <3>4, <3>5, <3>6
  <2> QED
    BY <2>10, <2>11, <2>12, <2>13 DEF T, V
<1> QED
  BY <1>1, StillHolds, PTL

\* `tasks archive --check` and `tasks` agree on the location invariant
\* (misfiledTasks, DiscoverTasks).
THEOREM CleanIsUnfinished == Spec => []CleanMeansNoneFinished
<1>1. ASSUME IInv, StillInv PROVE CleanMeansNoneFinished
  <2> SUFFICES ASSUME Ended("check"), cmd["check"].outcome = "clean", Ended("tasks"), saves = 0,
                      NEW t \in cmd["tasks"].tasks
               PROVE  t.status \notin finishedTaskStatuses
    BY DEF CleanMeansNoneFinished
  <2> DEFINE C == cmd["check"]
             T == cmd["tasks"]
  <2>1. /\ Sound("tasks", T) /\ Describes("check", C) /\ Describes("tasks", T)
        /\ C.step = "ended" /\ C.outcome = "clean" /\ T.step = "ended" /\ t \in T.tasks
    BY <1>1 DEF StillInv, IInv, Commands, Ended
  <2> HIDE DEF C, T
  <2>2. /\ C.listed = Listing("check") /\ C.todo = {} /\ C.flagged = {}
        /\ \A n \in C.listed : ~Misfiled(n)
    BY <2>1 DEF Describes, CheckFound
  <2>3. /\ IsTask("tasks", t.name) /\ t = Task(t.name, dir[t.name].text)
        /\ t.name \in T.listed
    BY <2>1 DEF Describes, ReporterFound, Reporters, Sound, TasksUnderTheirNames
  <2>4. T.listed = Listing("tasks")
    <3>1. T.outcome # "error"
      <4>1. T.outcome = "error" => T.tasks = {}
        BY <2>1 DEF Describes
      <4> QED
        BY <2>1, <4>1
    <3> QED
      BY <2>1, <3>1 DEF Describes
  <2>5. t.name \in C.listed
    BY <2>2, <2>3, <2>4 DEF Listing, InTasksDir, Skips, IsTask
  <2>6. t.status = dir[t.name].text.status /\ dir[t.name].text # Unparsable
    BY <2>3 DEF Task, IsTask, Accepts
  <2> QED
    BY <2>2, <2>5, <2>6 DEF Misfiled
<1> QED
  BY <1>1, StillHolds, PTL

\* A listed id is found by the lookup, or shadowed by an earlier invalid file
\* (taskByID, DiscoverTasks).
THEOREM ListedAreFound == Spec => []ListedIsFound
<1>1. ASSUME IInv, StillInv PROVE ListedIsFound
  <2> SUFFICES ASSUME Ended("find"), cmd["find"].outcome # "error", Ended("tasks"), saves = 0,
                      NEW t \in cmd["tasks"].tasks, t.id = cmd["find"].wanted
               PROVE  \/ cmd["find"].outcome = "found" /\ Current("find", t.name)
                      \/ /\ cmd["find"].outcome = "rejected"
                         /\ \E n \in cmd["tasks"].flagged : Current("find", n) /\ n < t.name
    BY DEF ListedIsFound
  <2> DEFINE F == cmd["find"]
             T == cmd["tasks"]
  <2>1. /\ Sound("tasks", T) /\ Sound("find", F) /\ Describes("find", F) /\ Describes("tasks", T)
        /\ F.step = "ended" /\ F.outcome # "error" /\ T.step = "ended" /\ t \in T.tasks
        /\ t.id = F.wanted
    BY <1>1 DEF StillInv, IInv, Commands, Ended
  <2>0. \A n : Current("find", n) <=> IsFirst(F.todo, n)
    BY DEF Current, IsFirst
  <2> HIDE DEF F, T
  <2>2. /\ F.listed = Listing("find") /\ LookupFound(F)
    BY <2>1 DEF Describes
  <2>3. /\ IsTask("tasks", t.name) /\ t = Task(t.name, dir[t.name].text)
        /\ t.name \in T.listed \ T.todo
    BY <2>1 DEF Describes, ReporterFound, Reporters, Sound, TasksUnderTheirNames
  <2>4. T.outcome # "error"
    BY <2>1 DEF Describes
  <2>5. T.listed = Listing("tasks") /\ T.todo = {} /\ NamesOf(T.tasks) \cup T.flagged = T.listed
    BY <2>1, <2>4 DEF Describes, Sound, JudgedAreReported, Reporters
  <2>6. t.name \in F.listed /\ t.name \in Names
    BY <2>2, <2>3, <2>5 DEF Listing, InTasksDir, Skips, IsTask
  <2>7. Declares(t.name, F.wanted)
    BY <2>1, <2>3 DEF Declares, Readable, IsTask, Accepts, Task
  <2>8. t.name \in F.todo
    BY <2>2, <2>6, <2>7 DEF LookupFound
  <2>9. F.outcome \in {"found", "rejected"}
    BY <2>1, <2>2, <2>8 DEF LookupFound, Sound, WellFormed
  <2>10. PICK n : /\ IsFirst(F.todo, n) /\ Declares(n, F.wanted)
                  /\ F.outcome = "found" <=> IsTask("find", n)
    BY <2>2, <2>9 DEF LookupFound
  <2>11. n \in F.listed /\ n \in Names /\ n <= t.name
    BY <2>1, <2>8, <2>10 DEF IsFirst, Sound, WellFormed, Command
  <2>12. IsTask("find", n) <=> IsTask("tasks", n)
    BY DEF IsTask, Accepts
  <2>13. CASE IsTask("find", n)
    <3>1. Stem[n] = F.wanted /\ Stem[t.name] = F.wanted
      BY <2>3, <2>7, <2>10, <2>13 DEF IsTask, Accepts, Declares
    <3>2. n = t.name
      BY <2>6, <2>11, <3>1, StemsAreDistinct
    <3> QED
      BY <2>0, <2>10, <2>13, <3>2 DEF F
  <2>14. CASE ~IsTask("find", n)
    <3>1. F.outcome = "rejected"
      BY <2>9, <2>10, <2>14
    <3>2. n \in T.listed
      BY <2>2, <2>5, <2>11 DEF Listing, InTasksDir, Skips
    <3>3. n \notin NamesOf(T.tasks)
      BY <2>1, <2>12, <2>14 DEF NamesOf, Describes, ReporterFound, Reporters
    <3>4. n # t.name
      BY <2>3, <2>12, <2>14
    <3>5. n < t.name
      BY <2>6, <2>11, <3>4, NamesAreCounted DEF Names
    <3> QED
      BY <2>0, <2>5, <2>10, <3>1, <3>2, <3>3, <3>5 DEF F, T
  <2> QED
    BY <2>13, <2>14
<1> QED
  BY <1>1, StillHolds, PTL
=============================================================================
