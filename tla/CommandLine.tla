---------------------------- MODULE CommandLine ----------------------------
(***************************************************************************)
(* One invocation of struktly, from its arguments to its exit code: the    *)
(* flags are parsed, the command checks them, does its work, writes its    *)
(* report, confirms what it wrote and gives a verdict; runCLI turns the    *)
(* error that any of these returned into an exit code and one line or one  *)
(* document on stderr.  `intel` is handed over to another program.  What   *)
(* the work of a command is stands in the other modules; here it succeeds  *)
(* or returns one of the errors it can return.  Every write to a stream    *)
(* may fail, for a moment or for good.                                     *)
(***************************************************************************)
EXTENDS Integers, FiniteSets, PacketDiff

CONSTANTS
  Calls,        \* the invocations: a set of Call
  Packets,      \* packets a diff may be given
  Needs,        \* what --require documents may ask for: sets of names
  Advertised,   \* what this build advertises
  Files,        \* number of files a writing command writes
  Lines         \* number of lines of a report in prose

ASSUME FilesAreCounted == Files \in Nat \ {0}
ASSUME LinesAreCounted == Lines \in Nat \ {0}
ASSUME PacketsAreComparable == \A before, after \in Packets : Comparable(before, after)

JsonFlags == {"--json", "--json=false", "--json=maybe"}
OwnFlags(cmd) ==
  CASE cmd = "scan"         -> {"--no-write"}
    [] cmd = "context"      -> {"--no-write", "--stdout", "--max-items=0"}
    [] cmd = "archive"      -> {"--check"}
    [] cmd = "capabilities" -> {"--require"}
    [] cmd \notin {"scan", "context", "archive", "capabilities"} -> {}
Flags == JsonFlags \cup {"--json-errors", "--bogus", "--no-write", "--stdout", "--max-items=0",
                         "--check", "--require"}

\* "status" stands for the reading commands: version, status, explain, validate.
Writers == {"init", "scan", "suggest", "context", "complete", "archive"}
Commands == Writers \cup {"tasks", "status", "diff", "doctor", "capabilities", "intel", "unknown"}

\* Where the platform's binary may be: STRUKTLY_INTEL, beside this executable,
\* the install location of this system, PATH.
Places == [explicit : {"unset", "runs", "missing"}, beside : BOOLEAN, installed : BOOLEAN,
           path : BOOLEAN]

\* `words`: the number of positional arguments is right. `help`: an intel call
\* without arguments, or whose first one is -h.
Call == [cmd : Commands, flags : SUBSET Flags, words : BOOLEAN, help : BOOLEAN,
         places : Places, windows : BOOLEAN]

ASSUME CallsAreCalls == Calls \subseteq Call

WorkErrors(cmd) ==
  CASE cmd \in {"tasks", "init", "scan", "suggest"} -> {"operation_failed"}
    [] cmd = "archive"  -> {"operation_failed", "task_already_archived"}
    [] cmd = "complete" -> {"operation_failed", "task_already_archived", "task_not_found"}
    [] cmd = "context"  -> {"operation_failed", "canceled", "invalid_invocation",
                            "not_git_repository", "repository_changed", "invalid_config"}
    [] cmd = "status"   -> {"operation_failed", "canceled", "invalid_invocation",
                            "not_git_repository", "invalid_config", "invalid_task"}
    [] cmd = "diff"     -> {"operation_failed", "invalid_packet"}
    [] cmd = "doctor"   -> {"canceled"}
    [] cmd \in {"capabilities", "intel", "unknown"} -> {}

\* The gates: commands whose answer is a verdict on what they report.
VerdictErrors == {"diagnostic_failed", "tasks_unarchived", "capabilities_unsatisfied"}
IntelErrors == {"intel_exited", "intel_missing", "intel_unusable"}
Failures == (UNION {WorkErrors(c) : c \in Commands}) \cup VerdictErrors \cup IntelErrors

VARIABLES
  call,     \* the invocation
  step,
  written,  \* number of files written so far
  out,      \* stdout: the JSON document, the lines of prose, the lines lost
  err,      \* stderr: the error documents, other lines, whether anything was lost
  bad,      \* a check failed, a task is unfiled, a capability is missing
  shown,    \* diff: the two packets and the document made of them, once there is one
  ran,      \* intel: the place of the binary that was run
  child,    \* intel: its exit code
  failure,  \* the class of the error that Execute returned
  exit

vars == <<call, step, written, out, err, bad, shown, ran, child, failure, exit>>

Steps == {"parse", "check", "work", "write", "report", "confirm", "verdict", "locate", "handover",
          "settle", "exited"}
Candidates == {"none", "explicit", "beside", "installed", "path"}
ChildExits == {0, 1, 2, 5}

Json == "--json" \in call.flags
NoWrite == call.flags \cap {"--no-write", "--check"} # {}
Writes == call.cmd \in Writers /\ ~NoWrite

Init ==
  /\ call \in Calls
  /\ step = IF call.cmd = "intel" THEN "locate" ELSE "parse"
  /\ written = 0 /\ bad = FALSE /\ shown = {}
  /\ out = [doc |-> "none", lines |-> 0, lost |-> 0]
  /\ err = [docs |-> 0, lines |-> 0, lost |-> FALSE]
  /\ ran = "none" /\ child = 0
  /\ failure = "none" /\ exit = -1

-----------------------------------------------------------------------------
(* A command of this CLI. *)

Fail(e) == step' = "settle" /\ failure' = e
Go(s) == step' = s /\ UNCHANGED failure

\* Cobra finds the command, parses the flags and counts the arguments.
Misused ==
  \/ call.cmd = "unknown"
  \/ "--json=maybe" \in call.flags
  \/ call.flags \ (JsonFlags \cup {"--json-errors"} \cup OwnFlags(call.cmd)) # {}
  \/ ~call.words

Parse ==
  /\ step = "parse"
  /\ IF Misused THEN Fail("invalid_invocation") ELSE Go("check")
  /\ UNCHANGED <<call, written, out, err, bad, shown, ran, child, exit>>

\* Flags that contradict each other, before anything is done.
Contradictory ==
  \/ call.cmd \in {"scan", "context"} /\ "--no-write" \in call.flags /\ ~Json
  \/ call.cmd = "context" /\ "--stdout" \in call.flags /\ Json
  \/ "--max-items=0" \in call.flags

\* Mutant: the capabilities are reported before the requirements are read.
CheckWithAnswer ==
  /\ step = "check"
  /\ \/ Contradictory /\ Fail("invalid_invocation") /\ UNCHANGED <<bad, out>>
     \/ ~Contradictory /\ "--require" \notin call.flags /\ Go("work") /\ UNCHANGED <<bad, out>>
     \/ "--require" \in call.flags /\ Fail("invalid_invocation") /\ UNCHANGED bad
        /\ out' = [out EXCEPT !.doc = IF Json THEN "whole" ELSE @, !.lines = IF Json THEN 0 ELSE Lines]
     \/ /\ "--require" \in call.flags
        /\ \E need \in Needs \ {{}} : bad' = (need \ Advertised # {})
        /\ Go("work") /\ UNCHANGED out
  /\ UNCHANGED <<call, written, err, shown, ran, child, exit>>

\* --require is read before anything is written: a document that is unreadable,
\* malformed or asks for nothing is the caller's mistake.
Check ==
  /\ step = "check"
  /\ \/ Contradictory /\ Fail("invalid_invocation") /\ UNCHANGED bad
     \/ ~Contradictory /\ "--require" \notin call.flags /\ Go("work") /\ UNCHANGED bad
     \/ "--require" \in call.flags /\ Fail("invalid_invocation") /\ UNCHANGED bad
     \/ /\ "--require" \in call.flags
        /\ \E need \in Needs \ {{}} : bad' = (need \ Advertised # {})
        /\ Go("work")
  /\ UNCHANGED <<call, written, out, err, shown, ran, child, exit>>

WorkFails ==
  /\ step = "work"
  /\ \E e \in WorkErrors(call.cmd) : Fail(e)
  /\ UNCHANGED <<call, written, out, err, bad, shown, ran, child, exit>>

\* doctor and archive --check find what they look for, or do not.
WorkSucceeds ==
  /\ step = "work"
  /\ bad' \in IF call.cmd = "doctor" \/ "--check" \in call.flags THEN BOOLEAN ELSE {bad}
  /\ IF call.cmd = "diff"
     THEN \E before \in Packets, after \in Packets :
            shown' = {[before |-> before, after |-> after, diff |-> DiffPackets(before, after)]}
     ELSE UNCHANGED shown
  /\ Go(IF Writes THEN "write" ELSE "report")
  /\ UNCHANGED <<call, written, out, err, ran, child, exit>>

WriteFile ==
  /\ step = "write"
  /\ written' = written + 1
  /\ Go(IF written + 1 = Files THEN "report" ELSE "write")
  /\ UNCHANGED <<call, out, err, bad, shown, ran, child, exit>>

WriteFails ==
  /\ step = "write"
  /\ Fail("operation_failed")
  /\ UNCHANGED <<call, written, out, err, bad, shown, ran, child, exit>>

Confirms == call.cmd \in {"scan", "context"} /\ ~NoWrite
AfterReport == IF Confirms THEN "confirm" ELSE "verdict"

\* In prose scan and context only confirm; --stdout writes the packet at once.
LinesDue ==
  IF call.cmd \in {"scan", "context"} THEN IF "--stdout" \in call.flags THEN 1 ELSE 0
  ELSE Lines

ReportJson ==
  /\ step = "report" /\ Json
  /\ \/ out' = [out EXCEPT !.doc = "whole"] /\ Go(AfterReport)
     \/ out' = [out EXCEPT !.doc = "torn"] /\ Fail("operation_failed")
  /\ UNCHANGED <<call, written, err, bad, shown, ran, child, exit>>

\* Mutant: no command gives up on its report.
ForgivesAll(tried) == tried + 1 < LinesDue

\* The prose helper and writeTaskArchive end a report at the first line that is
\* not written; the loop of `tasks complete` remembers its last write alone.
Forgives(tried) == call.cmd = "complete" /\ tried > 0 /\ tried + 1 < LinesDue

ReportLine ==
  LET tried == out.lines + out.lost
      next == IF tried + 1 = LinesDue THEN AfterReport ELSE "report"
  IN /\ step = "report" /\ ~Json /\ tried < LinesDue
     /\ \/ out' = [out EXCEPT !.lines = @ + 1] /\ Go(next)
        \/ /\ out' = [out EXCEPT !.lost = @ + 1]
           /\ IF Forgives(tried) THEN Go(next) ELSE Fail("operation_failed")
     /\ UNCHANGED <<call, written, err, bad, shown, ran, child, exit>>

ReportNothing ==
  /\ step = "report" /\ ~Json /\ LinesDue = 0
  /\ Go(AfterReport)
  /\ UNCHANGED <<call, written, out, err, bad, shown, ran, child, exit>>

\* context --stdout reads its packet back from the disk.
ReadBackFails ==
  /\ step = "report" /\ ~Json /\ "--stdout" \in call.flags
  /\ Fail("operation_failed")
  /\ UNCHANGED <<call, written, out, err, bad, shown, ran, child, exit>>

\* The path of what was written, on stderr when stdout carries the output.
ConfirmsAside == Json \/ "--stdout" \in call.flags

Confirm ==
  /\ step = "confirm"
  /\ IF ConfirmsAside
     THEN UNCHANGED out /\ \/ err' = [err EXCEPT !.lines = @ + 1] /\ Go("verdict")
                           \/ err' = [err EXCEPT !.lost = TRUE] /\ Fail("operation_failed")
     ELSE UNCHANGED err /\ \/ out' = [out EXCEPT !.lines = @ + 1] /\ Go("verdict")
                           \/ out' = [out EXCEPT !.lost = @ + 1] /\ Fail("operation_failed")
  /\ UNCHANGED <<call, written, bad, shown, ran, child, exit>>

VerdictError ==
  IF call.cmd = "doctor" THEN "diagnostic_failed"
  ELSE IF call.cmd = "archive" THEN "tasks_unarchived" ELSE "capabilities_unsatisfied"

Verdict ==
  /\ step = "verdict"
  /\ IF bad THEN Fail(VerdictError) /\ UNCHANGED exit
     ELSE Go("exited") /\ exit' = 0
  /\ UNCHANGED <<call, written, out, err, bad, shown, ran, child>>

-----------------------------------------------------------------------------
(* intel *)

HelpText ==
  /\ step = "locate" /\ call.help /\ out.lines = 0
  /\ \/ out' = [out EXCEPT !.lines = 1] /\ Go("locate")
     \/ out' = [out EXCEPT !.lost = 1] /\ Fail("operation_failed")
  /\ UNCHANGED <<call, written, err, bad, shown, ran, child, exit>>

\* Mutant: a STRUKTLY_INTEL that does not resolve is ignored.
resolveAnyIntelBinary(at) ==
  IF at.explicit = "runs" THEN "explicit"
  ELSE IF at.beside THEN "beside"
  ELSE IF at.installed THEN "installed"
  ELSE IF at.path THEN "path" ELSE "none"

\* An explicit instruction that does not resolve is a failure, not a reason to
\* look further; PATH comes last.
resolveIntelBinary(at) ==
  IF at.explicit # "unset" THEN IF at.explicit = "runs" THEN "explicit" ELSE "none"
  ELSE IF at.beside THEN "beside"
  ELSE IF at.installed THEN "installed"
  ELSE IF at.path THEN "path" ELSE "none"

Locate ==
  /\ step = "locate" /\ (call.help => out.lines = 1)
  /\ ran' = resolveIntelBinary(call.places)
  /\ IF ran' # "none" THEN Go("handover") /\ UNCHANGED exit
     ELSE IF call.help THEN Go("exited") /\ exit' = 0
     ELSE Fail("intel_missing") /\ UNCHANGED exit
  /\ UNCHANGED <<call, written, out, err, bad, shown, child>>

\* exec(2) replaces the process; on Windows a child runs and its exit code,
\* unless it is 0, comes back as an error that carries it.
HandOver ==
  /\ step = "handover"
  /\ child' \in ChildExits
  /\ IF call.windows /\ child' # 0 THEN Fail("intel_exited") /\ UNCHANGED exit
     ELSE Go("exited") /\ exit' = child'
  /\ UNCHANGED <<call, written, out, err, bad, shown, ran>>

\* The binary cannot be executed: on Windows an ordinary error.
HandOverFails ==
  /\ step = "handover"
  /\ ran' = "none"
  /\ Fail(IF call.windows THEN "operation_failed" ELSE "intel_unusable")
  /\ UNCHANGED <<call, written, out, err, bad, shown, child, exit>>

-----------------------------------------------------------------------------
(* runCLI *)

classifyError(e) ==
  IF e = "canceled" THEN 130
  ELSE IF e = "invalid_invocation" THEN 2
  ELSE IF e = "intel_missing" THEN 127
  ELSE IF e = "intel_unusable" THEN 126
  ELSE IF e = "intel_exited" THEN child
  ELSE 1

\* Mutant: only a flag that parses is taken for a request.
jsonErrorParsed == call.flags \cap {"--json", "--json-errors"} # {}

\* The raw arguments are looked at, whatever they are given to.
jsonErrorRequested == call.flags \cap {"--json", "--json=maybe", "--json-errors"} # {}

\* Nothing is said for a program that spoke for itself. An error on stderr that
\* cannot be written is nobody's.
Settle ==
  /\ step = "settle"
  /\ exit' = classifyError(failure)
  /\ step' = "exited"
  /\ \/ failure = "intel_exited" /\ UNCHANGED err
     \/ failure \in {"intel_missing", "intel_unusable"} /\ err' = [err EXCEPT !.lines = @ + 1]
     \/ failure \notin IntelErrors /\ jsonErrorRequested /\ err' = [err EXCEPT !.docs = @ + 1]
     \/ failure \notin IntelErrors /\ ~jsonErrorRequested /\ err' = [err EXCEPT !.lines = @ + 1]
     \/ failure # "intel_exited" /\ err' = [err EXCEPT !.lost = TRUE]
  /\ UNCHANGED <<call, written, out, bad, shown, ran, child, failure>>

Next ==
  \/ Parse \/ Check \/ WorkFails \/ WorkSucceeds \/ WriteFile \/ WriteFails
  \/ ReportJson \/ ReportLine \/ ReportNothing \/ ReadBackFails \/ Confirm \/ Verdict
  \/ HelpText \/ Locate \/ HandOver \/ HandOverFails
  \/ Settle

Spec == Init /\ [][Next]_vars

-----------------------------------------------------------------------------
TypeOK ==
  /\ call \in Calls
  /\ step \in Steps
  /\ written \in 0..Files
  /\ step \in {"parse", "check", "work", "write"} => written < Files
  /\ out \in [doc : {"none", "torn", "whole"}, lines : Nat, lost : Nat]
  /\ err \in [docs : Nat, lines : Nat, lost : BOOLEAN]
  /\ bad \in BOOLEAN
  /\ \A s \in shown : s.before \in Packets /\ s.after \in Packets
  /\ ran \in Candidates /\ child \in ChildExits
  /\ failure \in Failures \cup {"none"}
  /\ exit \in {-1, 0, 1, 2, 126, 127, 130} \cup ChildExits

Exited == step = "exited"
Ours == call.cmd # "intel"

\* Exit 0 means that the work was done, all of it, that the report of it and the
\* path of what was written arrived whole, and that no check failed; the code of
\* a failed check means that the report it is about arrived whole as well. Only
\* `tasks complete` may lose a line of its report between the first and the last.
ExitSaysWhatHappened ==
  Exited /\ Ours /\ (exit = 0 \/ failure \in VerdictErrors) =>
    /\ Writes => written = Files
    /\ IF Json THEN out.doc = "whole"
       ELSE out.lines + out.lost = LinesDue + (IF Confirms /\ ~ConfirmsAside THEN 1 ELSE 0)
    /\ out.lost # 0 => call.cmd = "complete" /\ out.lines >= 2
    /\ exit = 0 <=> ~bad
    /\ Confirms /\ ConfirmsAside => err.lines = 1

\* Exit 2 blames the caller: nothing was written, no answer was given.
MisuseChangesNothing ==
  Exited /\ Ours /\ exit = 2 => written = 0 /\ out.doc = "none" /\ out.lines = 0

AsksForDocuments == call.flags \cap {"--json", "--json=maybe", "--json-errors"} # {}

\* stdout never mixes prose with JSON. A command of this CLI that fails says so
\* once on stderr, in a document exactly when the arguments ask for one, also
\* when they could not be parsed; one that succeeds says nothing more than where
\* it wrote, and nothing with --no-write.
ErrorsAreAnnounced ==
  /\ out.doc # "none" => out.lines = 0
  /\ Exited /\ Ours /\ ~err.lost =>
       IF exit # 0
       THEN err.docs + err.lines = 1
            /\ err.docs = 1 <=> AsksForDocuments
       ELSE err.docs = 0 /\ (NoWrite => err.lines = 0)

\* intel runs the binary it was told to run, or the surest one there is, and
\* returns its exit code; without one it exits 127, and 126 when it cannot be
\* run, with no document in either case. On Windows alone a binary that cannot be
\* run is an ordinary failure.
IntelPassesThrough ==
  Exited /\ ~Ours =>
    /\ ran = "explicit" <=> ran # "none" /\ call.places.explicit # "unset"
    /\ ran \in {"installed", "path"} => ~call.places.beside
    /\ ran = "path" => ~call.places.installed
    /\ ran # "none" => exit = child /\ err.docs = 0
    /\ ran = "none" => exit \in IF out.lost # 0 THEN {1}
                              ELSE {IF call.windows THEN 1 ELSE 126, IF call.help THEN 0 ELSE 127}
    /\ err.docs # 0 => call.windows \/ out.lost # 0

\* A diff is exact on what it compares: every path of either packet is in
\* one of the four parts of its items, and its changes lead from the first packet
\* to the second.
DiffIsExact == \A s \in shown : Exact(s.before, s.after, s.diff)
=============================================================================
