------------------------- MODULE CommandLineProofs -------------------------
(***************************************************************************)
(* CommandLine for every set of invocations, requirements and packets and  *)
(* for reports and outputs of any length.  One invariant says how far a    *)
(* command of this CLI has come at each step, another the same of `intel`; *)
(* what an invocation may say when it has exited follows from them.        *)
(***************************************************************************)
EXTENDS CommandLine, FiniteSetTheorems, TLAPS

-----------------------------------------------------------------------------
(* Lemmas on the tables of the program. *)

LEMMA WorkErrorsAre ==
  ASSUME NEW c \in Commands, NEW e \in WorkErrors(c)
  PROVE  e \in {"operation_failed", "task_already_archived", "task_not_found", "canceled",
                "invalid_invocation", "not_git_repository", "repository_changed",
                "invalid_config", "invalid_task", "invalid_packet"}
  BY DEF WorkErrors, Commands, Writers

LEMMA FailuresAre ==
  /\ \A c \in Commands : WorkErrors(c) \subseteq Failures
  /\ "operation_failed" \in Failures /\ "invalid_invocation" \in Failures
  /\ VerdictErrors \subseteq Failures /\ IntelErrors \subseteq Failures
<1>1. ASSUME NEW c \in Commands, NEW e \in WorkErrors(c) PROVE e \in Failures
  BY Zenon DEF Failures
<1>2. "context" \in Commands
  BY DEF Commands, Writers
<1>3. "operation_failed" \in WorkErrors("context") /\ "invalid_invocation" \in WorkErrors("context")
  BY DEF WorkErrors
<1> QED
  <2>1. \A c \in Commands : WorkErrors(c) \subseteq Failures
    BY <1>1
  <2>2. VerdictErrors \subseteq Failures /\ IntelErrors \subseteq Failures
    BY Zenon DEF Failures
  <2> QED
    BY <1>2, <1>3, <2>1, <2>2

LEMMA OwnFlagsAre ==
  ASSUME NEW c \in Commands
  PROVE  /\ "--check" \in OwnFlags(c) => c = "archive"
         /\ "--require" \in OwnFlags(c) => c = "capabilities"
         /\ "--stdout" \in OwnFlags(c) => c = "context"
  BY DEF OwnFlags, Commands, Writers

LEMMA CallIs == TypeOK => call \in Call /\ call.cmd \in Commands
  BY CallsAreCalls DEF TypeOK, Call

-----------------------------------------------------------------------------
(* Types. *)

Streams == [doc : {"none", "torn", "whole"}, lines : Nat, lost : Nat]
Errors == [docs : Nat, lines : Nat, lost : BOOLEAN]
Exits == {-1, 0, 1, 2, 126, 127, 130} \cup ChildExits

LEMMA InitTypes == Init => TypeOK
<1> SUFFICES ASSUME Init PROVE TypeOK
  OBVIOUS
<1>1. out \in Streams
  BY DEF Init, Streams
<1>2. err \in Errors
  BY DEF Init, Errors
<1>3. step \in Steps /\ step # "write"
  BY DEF Init, Steps
<1>4. written \in 0..Files /\ written < Files
  BY FilesAreCounted DEF Init
<1>5. exit \in Exits
  BY DEF Init, Exits
<1>6. bad \in BOOLEAN /\ failure \in Failures \cup {"none"} /\ ran \in Candidates
      /\ child \in ChildExits /\ \A s \in shown : s.before \in Packets /\ s.after \in Packets
  BY DEF Init, Candidates, ChildExits
<1>7. call \in Calls
  BY DEF Init
<1> QED
  BY <1>1, <1>2, <1>3, <1>4, <1>5, <1>6, <1>7, Zenon DEF TypeOK, Streams, Errors, Exits

\* What a step has to keep of the types: all that it changes.
LEMMA TypesKept ==
  ASSUME TypeOK, call' = call, step' \in Steps, written' \in 0..Files,
         step' \in {"parse", "check", "work", "write"} => written' < Files,
         out' \in Streams, err' \in Errors, bad' \in BOOLEAN,
         \A s \in shown' : s.before \in Packets /\ s.after \in Packets,
         ran' \in Candidates, child' \in ChildExits, failure' \in Failures \cup {"none"},
         exit' \in Exits
  PROVE  TypeOK'
  BY Zenon DEF TypeOK, Streams, Errors, Exits

LEMMA NextKeepsTypes == TypeOK /\ [Next]_vars => TypeOK'
<1> SUFFICES ASSUME TypeOK, [Next]_vars PROVE TypeOK'
  OBVIOUS
<1>f. /\ "operation_failed" \in Failures /\ "invalid_invocation" \in Failures
      /\ VerdictErrors \subseteq Failures /\ IntelErrors \subseteq Failures
  BY FailuresAre
<1>t. /\ call \in Calls /\ step \in Steps /\ written \in 0..Files /\ out \in Streams
      /\ err \in Errors /\ bad \in BOOLEAN /\ ran \in Candidates /\ child \in ChildExits
      /\ failure \in Failures \cup {"none"} /\ exit \in Exits
      /\ \A s \in shown : s.before \in Packets /\ s.after \in Packets
      /\ step \in {"parse", "check", "work", "write"} => written < Files
  BY Zenon DEF TypeOK, Streams, Errors, Exits
<1>o. /\ [out EXCEPT !.lines = out.lines + 1] \in Streams
      /\ [out EXCEPT !.lost = out.lost + 1] \in Streams
      /\ [out EXCEPT !.doc = "whole"] \in Streams /\ [out EXCEPT !.doc = "torn"] \in Streams
      /\ [out EXCEPT !.lines = 1] \in Streams /\ [out EXCEPT !.lost = 1] \in Streams
  BY <1>t DEF Streams
<1>e. /\ [err EXCEPT !.lines = err.lines + 1] \in Errors
      /\ [err EXCEPT !.docs = err.docs + 1] \in Errors
      /\ [err EXCEPT !.lost = TRUE] \in Errors
  <2>1. [err EXCEPT !.lost = TRUE] \in Errors
    BY <1>t, Zenon DEF Errors
  <2> QED
    BY <1>t, <2>1 DEF Errors
<1>1. CASE Parse
  BY <1>1, <1>f, <1>t, TypesKept DEF Parse, Fail, Go, Steps
<1>2. CASE Check
  <2>1. bad' \in BOOLEAN
    BY <1>2, <1>t DEF Check
  <2> QED
    BY <1>2, <1>f, <1>t, <2>1, TypesKept DEF Check, Fail, Go, Steps
<1>3. CASE WorkFails
  <2>1. PICK e \in WorkErrors(call.cmd) : Fail(e)
    BY <1>3 DEF WorkFails
  <2>2. e \in Failures
    BY CallIs, FailuresAre
  <2> QED
    BY <1>3, <1>t, <2>1, <2>2, TypesKept DEF WorkFails, Fail, Steps
<1>4. CASE WorkSucceeds
  <2>1. bad' \in BOOLEAN
    BY <1>4, <1>t DEF WorkSucceeds
  <2>2. \A s \in shown' : s.before \in Packets /\ s.after \in Packets
    BY <1>4, <1>t DEF WorkSucceeds
  <2>3. step' \in {"write", "report"} /\ failure' = failure
    BY <1>4 DEF WorkSucceeds, Go
  <2> QED
    BY <1>4, <1>t, <2>1, <2>2, <2>3, TypesKept DEF WorkSucceeds, Steps
<1>5. CASE WriteFile
  BY <1>5, <1>t, FilesAreCounted, TypesKept DEF WriteFile, Go, Steps
<1>6. CASE WriteFails
  BY <1>6, <1>f, <1>t, TypesKept DEF WriteFails, Fail, Steps
<1>7. CASE ReportJson
  <2>1. step' \in {"confirm", "verdict", "settle"} /\ failure' \in Failures \cup {"none"}
    BY <1>7, <1>f, <1>t DEF ReportJson, Go, Fail, AfterReport
  <2>2. out' \in Streams
    BY <1>7, <1>o DEF ReportJson
  <2> QED
    BY <1>7, <1>t, <2>1, <2>2, TypesKept DEF ReportJson, Steps
<1>8. CASE ReportLine
  <2>1. step' \in {"confirm", "verdict", "settle", "report"} /\ failure' \in Failures \cup {"none"}
    BY <1>8, <1>f, <1>t DEF ReportLine, Go, Fail, AfterReport
  <2>2. out' \in Streams
    BY <1>8, <1>o DEF ReportLine
  <2> QED
    BY <1>8, <1>t, <2>1, <2>2, TypesKept DEF ReportLine, Steps
<1>9. CASE ReportNothing
  BY <1>9, <1>t, TypesKept DEF ReportNothing, Go, AfterReport, Steps
<1>10. CASE ReadBackFails
  BY <1>10, <1>f, <1>t, TypesKept DEF ReadBackFails, Fail, Steps
<1>11. CASE Confirm
  <2>1. step' \in {"verdict", "settle"} /\ failure' \in Failures \cup {"none"}
    BY <1>11, <1>f, <1>t DEF Confirm, Go, Fail
  <2>2. out' \in Streams
    BY <1>11, <1>o, <1>t DEF Confirm
  <2>3. err' \in Errors
    BY <1>11, <1>t, <1>e DEF Confirm
  <2> QED
    BY <1>11, <1>t, <2>1, <2>2, <2>3, TypesKept DEF Confirm, Steps
<1>12. CASE Verdict
  <2>1. VerdictError \in Failures
    BY <1>f DEF VerdictError, VerdictErrors
  <2> QED
    BY <1>12, <1>t, <2>1, TypesKept DEF Verdict, Go, Fail, Steps, Exits
<1>13. CASE HelpText
  BY <1>13, <1>f, <1>t, <1>o, TypesKept DEF HelpText, Go, Fail, Steps
<1>14. CASE Locate
  <2>1. ran' \in Candidates
    BY <1>14 DEF Locate, resolveIntelBinary, Candidates
  <2>2. step' \in {"handover", "exited", "settle"} /\ failure' \in Failures \cup {"none"}
        /\ exit' \in Exits
    BY <1>14, <1>f, <1>t DEF Locate, Go, Fail, Exits, IntelErrors
  <2> QED
    BY <1>14, <1>t, <2>1, <2>2, TypesKept DEF Locate, Steps
<1>15. CASE HandOver
  BY <1>15, <1>f, <1>t, TypesKept DEF HandOver, Go, Fail, Exits, Steps, IntelErrors
<1>16. CASE HandOverFails
  BY <1>16, <1>f, <1>t, TypesKept DEF HandOverFails, Fail, Steps, IntelErrors, Candidates
<1>17. CASE Settle
  <2>1. exit' \in Exits
    BY <1>17, <1>t DEF Settle, classifyError, Exits
  <2>2. err' \in Errors
    BY <1>17, <1>t, <1>e DEF Settle
  <2> QED
    BY <1>17, <1>t, <2>1, <2>2, TypesKept DEF Settle, Steps
<1>18. CASE UNCHANGED vars
  BY <1>18, <1>t, TypesKept DEF vars
<1> QED
  BY <1>1, <1>2, <1>3, <1>4, <1>5, <1>6, <1>7, <1>8, <1>9, <1>10, <1>11, <1>12, <1>13, <1>14,
     <1>15, <1>16, <1>17, <1>18 DEF Next

\* Every variable stays of its type, for any invocation and output of any length.
THEOREM CommandTypeCorrect == Spec => []TypeOK
  BY InitTypes, NextKeepsTypes, PTL DEF Spec

-----------------------------------------------------------------------------
(* How far a command of this CLI has come. *)

NothingSaid == out.doc = "none" /\ out.lines = 0 /\ out.lost = 0

\* The report arrived, with `more` lines of confirmation after it.
Reported(more) ==
  /\ Writes => written = Files
  /\ IF Json THEN out.doc = "whole" /\ out.lines = 0 /\ out.lost = 0
     ELSE out.doc = "none" /\ out.lines + out.lost = LinesDue + more
  /\ out.lost # 0 => call.cmd = "complete" /\ out.lines >= 2

Confirmation == IF Confirms /\ ~ConfirmsAside THEN 1 ELSE 0

Judges == {"doctor", "archive", "capabilities"}

Underway ==
  /\ step \in {"check", "work", "write", "report", "confirm", "verdict"}
  /\ ~Misused /\ failure = "none" /\ exit = -1 /\ ~err.lost /\ err.docs = 0

Parsing == step = "parse" /\ failure = "none" /\ exit = -1 /\ ~err.lost /\ ~bad
             /\ err.docs = 0 /\ err.lines = 0 /\ written = 0 /\ NothingSaid
Working == step \in {"check", "work"} /\ Underway /\ err.lines = 0 /\ written = 0 /\ NothingSaid
Writing == step = "write" /\ Underway /\ err.lines = 0 /\ Writes /\ NothingSaid
Reporting ==
  /\ step = "report" /\ Underway /\ err.lines = 0 /\ (Writes => written = Files)
  /\ out.doc = "none"
  /\ NothingSaid \/ (~Json /\ out.lines + out.lost < LinesDue)
  /\ out.lost # 0 => call.cmd = "complete" /\ out.lines >= 1
Confirming == step = "confirm" /\ Underway /\ err.lines = 0 /\ Confirms /\ Reported(0)
Concluding ==
  /\ step = "verdict" /\ Underway /\ Reported(Confirmation)
  /\ err.lines = IF Confirms /\ ConfirmsAside THEN 1 ELSE 0
Failing ==
  /\ step = "settle" /\ failure \in Failures \ IntelErrors
  /\ err.docs = 0 /\ err.lines = 0
  /\ failure = "invalid_invocation" => written = 0 /\ NothingSaid
  /\ failure \in VerdictErrors => bad /\ ~Confirms /\ Reported(0)
  /\ out.doc # "none" => out.lines = 0
Ended == Exited /\ ExitSaysWhatHappened /\ MisuseChangesNothing /\ ErrorsAreAnnounced

Course ==
  Ours =>
    /\ bad => call.cmd \in Judges
    /\ \/ Parsing \/ Working \/ Writing \/ Reporting \/ Confirming \/ Concluding
       \/ Failing \/ Ended

LEMMA OrdinaryErrors ==
  /\ \A e \in {"operation_failed", "invalid_invocation"} : e \in Failures \ IntelErrors
  /\ VerdictErrors \subseteq Failures \ IntelErrors
  /\ "operation_failed" \notin VerdictErrors \cup {"invalid_invocation"}
  /\ "invalid_invocation" \notin VerdictErrors
  BY FailuresAre DEF VerdictErrors, IntelErrors

\* A step that gives up because it could not write.
LEMMA GivesUp ==
  ASSUME Ours, Fail("operation_failed"), call' = call, bad' = bad, bad => call.cmd \in Judges,
         err'.docs = 0, err'.lines = 0, out'.doc # "none" => out'.lines = 0
  PROVE  Course'
  BY OrdinaryErrors DEF Fail, Course, Failing, Ours

\* A step that ends the report.
LEMMA GoesOn ==
  ASSUME Ours', Go(AfterReport), UNCHANGED <<call, bad, err, exit>>, bad => call.cmd \in Judges,
         Underway, err.lines = 0, Reported(0)', Confirms' <=> Confirms,
         Confirmation' = 0 \/ Confirms, Misused' <=> Misused
  PROVE  Course'
<1>1. CASE Confirms
  <2>1. Confirming'
    BY <1>1 DEF Go, AfterReport, Confirming, Underway
  <2> QED
    BY <2>1 DEF Course
<1>2. CASE ~Confirms
  <2>1. Reported(Confirmation)'
    BY <1>2
  <2>2. Concluding'
    BY <1>2, <2>1 DEF Go, AfterReport, Concluding, Underway
  <2> QED
    BY <2>2 DEF Course
<1> QED
  BY <1>1, <1>2

LEMMA CourseNext == TypeOK /\ Course /\ [Next]_vars => Course'
<1> SUFFICES ASSUME TypeOK, Course, [Next]_vars, Ours PROVE Course'
  BY DEF Course, Ours, vars, Next, Parse, Check, WorkFails, WorkSucceeds, WriteFile, WriteFails,
     ReportJson, ReportLine, ReportNothing, ReadBackFails, Confirm, Verdict, HelpText, Locate,
     HandOver, HandOverFails, Settle
<1>t. /\ call \in Call /\ call.cmd \in Commands /\ out \in Streams /\ err \in Errors
      /\ written \in 0..Files
  BY CallIs DEF TypeOK, Streams, Errors
<1>j. bad => call.cmd \in Judges
  BY DEF Course
<1>s. /\ step = "parse" => Parsing
      /\ step \in {"check", "work"} => Working
      /\ step = "write" => Writing
      /\ step = "report" => Reporting
      /\ step = "confirm" => Confirming
      /\ step = "verdict" => Concluding
      /\ step = "settle" => Failing
      /\ step = "exited" => Ended
      /\ step \notin {"locate", "handover"}
  BY DEF Course, Parsing, Working, Writing, Reporting, Confirming, Concluding, Failing, Ended, Exited
<1>c. \A f : f \in call.flags /\ ~Misused => f \in JsonFlags \cup {"--json-errors"} \cup OwnFlags(call.cmd)
  BY DEF Misused
<1>k. call' = call
  BY DEF Next, vars, Parse, Check, WorkFails, WorkSucceeds, WriteFile, WriteFails,
     ReportJson, ReportLine, ReportNothing, ReadBackFails, Confirm, Verdict, HelpText, Locate,
     HandOver, HandOverFails, Settle
<1>u. /\ Ours' /\ (Misused' <=> Misused) /\ (Writes' <=> Writes) /\ (Json' <=> Json)
      /\ (NoWrite' <=> NoWrite) /\ (Confirms' <=> Confirms)
      /\ (ConfirmsAside' <=> ConfirmsAside) /\ LinesDue' = LinesDue
      /\ Confirmation' = Confirmation
  BY <1>k DEF Ours, Misused, Writes, Json, NoWrite, Confirms, ConfirmsAside, LinesDue, Confirmation
<1>l. LinesDue \in Nat
  BY LinesAreCounted DEF LinesDue
<1>1. CASE Parse
  <2>1. Parsing
    BY <1>1, <1>s DEF Parse
  <2>2. CASE Misused
    BY <1>1, <2>1, <2>2, OrdinaryErrors DEF Parse, Fail, Course, Failing, Parsing, NothingSaid, Ours
  <2>3. CASE ~Misused
    BY <1>1, <2>1, <2>3 DEF Parse, Go, Course, Working, Underway, Parsing, NothingSaid, Misused, Ours
  <2> QED
    BY <2>2, <2>3
<1>2. CASE Check
  <2>1. Working
    BY <1>2, <1>s DEF Check
  <2>2. CASE Fail("invalid_invocation")
    <3>1. UNCHANGED <<bad, out, err, written>>
      BY <1>2, <2>2 DEF Check, Fail, Go
    <3> QED
      BY <1>j, <1>k, <2>1, <2>2, <3>1, OrdinaryErrors
      DEF Fail, Course, Failing, Working, Underway, NothingSaid
  <2>3. CASE ~Fail("invalid_invocation")
    <3>1. Go("work") /\ (bad' => bad \/ "--require" \in call.flags)
      BY <1>2, <2>3 DEF Check
    <3>2. "--require" \in call.flags => call.cmd = "capabilities"
      BY <1>t, <1>c, <2>1, OwnFlagsAre DEF Working, Underway, JsonFlags
    <3> QED
      BY <1>2, <1>j, <1>k, <1>u, <2>1, <3>1, <3>2
      DEF Check, Go, Course, Working, Underway, NothingSaid, Judges
  <2> QED
    BY <2>2, <2>3
<1>3. CASE WorkFails
  <2>1. Working
    BY <1>3, <1>s DEF WorkFails
  <2>2. PICK e \in WorkErrors(call.cmd) : Fail(e)
    BY <1>3 DEF WorkFails
  <2>3. e \in Failures \ IntelErrors /\ e \notin VerdictErrors
    BY <1>t, WorkErrorsAre, FailuresAre DEF IntelErrors, VerdictErrors
  <2> QED
    BY <1>3, <1>j, <2>1, <2>2, <2>3
    DEF WorkFails, Fail, Course, Failing, Working, Underway, NothingSaid, Ours
<1>4. CASE WorkSucceeds
  <2>1. Working
    BY <1>4, <1>s DEF WorkSucceeds
  <2>2. bad' => bad \/ call.cmd = "doctor" \/ "--check" \in call.flags
    BY <1>4 DEF WorkSucceeds
  <2>3. "--check" \in call.flags => call.cmd = "archive"
    BY <1>t, <1>c, <2>1, OwnFlagsAre DEF Working, Underway, JsonFlags
  <2>4. bad' => call.cmd \in Judges
    BY <1>j, <2>2, <2>3 DEF Judges
  <2>5. CASE Writes
    BY <1>4, <1>u, <2>1, <2>4, <2>5
    DEF WorkSucceeds, Go, Course, Working, Writing, Underway, NothingSaid
  <2>6. CASE ~Writes
    <3>1. UNCHANGED <<call, written, out, err, exit, failure>> /\ step' = "report"
      BY <1>4, <2>6 DEF WorkSucceeds, Go
    <3>2. Reporting'
      BY <1>u, <2>1, <2>6, <3>1 DEF Working, Reporting, Underway, NothingSaid
    <3> QED
      BY <2>4, <3>1, <3>2 DEF Course
  <2> QED
    BY <2>5, <2>6
<1>5. CASE WriteFile
  <2>1. Writing
    BY <1>5, <1>s DEF WriteFile
  <2>2. CASE written + 1 = Files
    <3>1. UNCHANGED <<call, out, err, bad, exit, failure>> /\ step' = "report" /\ written' = Files
      BY <1>5, <2>2 DEF WriteFile, Go
    <3>2. Reporting'
      BY <1>u, <2>1, <3>1 DEF Writing, Reporting, Underway, NothingSaid
    <3> QED
      BY <1>j, <3>1, <3>2 DEF Course
  <2>3. CASE written + 1 # Files
    BY <1>5, <1>j, <1>u, <2>1, <2>3
    DEF WriteFile, Go, Course, Writing, Underway, NothingSaid
  <2> QED
    BY <2>2, <2>3
<1>6. CASE WriteFails
  <2>1. Writing
    BY <1>6, <1>s DEF WriteFails
  <2> QED
    BY <1>6, <1>j, <2>1, GivesUp DEF WriteFails, Writing, Underway, NothingSaid
<1>7. CASE ReportJson
  <2>1. Reporting /\ Json /\ NothingSaid
    BY <1>7, <1>s DEF ReportJson, Reporting
  <2>2. CASE Fail("operation_failed")
    BY <1>7, <1>j, <1>t, <2>1, <2>2, GivesUp DEF ReportJson, Reporting, Underway, NothingSaid, Streams
  <2>3. CASE Go(AfterReport) /\ out' = [out EXCEPT !.doc = "whole"]
    <3>1. out'.doc = "whole" /\ out'.lines = 0 /\ out'.lost = 0
      BY <1>t, <2>1, <2>3 DEF NothingSaid, Streams
    <3>2. ConfirmsAside /\ Confirmation = 0
      BY <2>1 DEF ConfirmsAside, Confirmation
    <3>3. Reported(0)' /\ Reported(Confirmation)'
      BY <1>7, <1>u, <2>1, <3>1, <3>2 DEF Reported, Reporting, ReportJson
    <3> QED
      BY <1>7, <1>j, <1>u, <2>1, <2>3, <3>2, <3>3, GoesOn DEF ReportJson, Reporting
  <2> QED
    BY <1>7, <2>2, <2>3 DEF ReportJson
<1>8. CASE ReportLine
  <2>1. Reporting /\ ~Json /\ out.lines + out.lost < LinesDue
    BY <1>8, <1>s DEF ReportLine
  <2>2. CASE Fail("operation_failed")
    <3>1. out'.doc = "none" /\ UNCHANGED <<call, bad, err>>
      BY <1>8, <1>t, <2>1 DEF ReportLine, Reporting, Streams
    <3> QED
      BY <1>j, <2>1, <2>2, <3>1, GivesUp DEF Reporting, Underway
  <2>3. CASE ~Fail("operation_failed")
    <3>1. /\ UNCHANGED <<call, written, bad, err, exit>> /\ out'.doc = "none"
          /\ out'.lines + out'.lost = out.lines + out.lost + 1
          /\ out'.lost # 0 => call.cmd = "complete" /\ out'.lines >= 1
          /\ out'.lost # 0 /\ out.lines + out.lost + 1 = LinesDue => out'.lines >= 2
          /\ Go(IF out.lines + out.lost + 1 = LinesDue THEN AfterReport ELSE "report")
      <4>1. CASE out' = [out EXCEPT !.lines = out.lines + 1]
        <5>1. out'.doc = "none" /\ out'.lines = out.lines + 1 /\ out'.lost = out.lost
          BY <1>t, <2>1, <4>1 DEF Streams, Reporting
        <5> QED
          BY <1>8, <1>t, <2>1, <2>3, <4>1, <5>1 DEF ReportLine, Reporting, NothingSaid, Streams
      <4>2. CASE out' # [out EXCEPT !.lines = out.lines + 1]
        <5>1. out' = [out EXCEPT !.lost = out.lost + 1] /\ Forgives(out.lines + out.lost)
          BY <1>8, <2>3, <4>2 DEF ReportLine
        <5>2. out'.doc = "none" /\ out'.lines = out.lines /\ out'.lost = out.lost + 1
          BY <1>t, <2>1, <5>1 DEF Streams, Reporting
        <5>3. out.lines >= 1 /\ call.cmd = "complete" /\ out.lines + out.lost + 1 < LinesDue
          BY <1>t, <2>1, <5>1 DEF Forgives, Reporting, Streams
        <5> QED
          BY <1>8, <1>t, <2>1, <2>3, <4>2, <5>2, <5>3 DEF ReportLine, Reporting, Streams
      <4> QED
        BY <4>1, <4>2
    <3>2. CASE out.lines + out.lost + 1 = LinesDue
      <4>1. Reported(0)'
        BY <1>t, <1>u, <2>1, <3>1, <3>2 DEF Reported, Reporting, Streams
      <4>2. Confirmation' = 0 \/ Confirms
        BY <1>u DEF Confirmation
      <4> QED
        BY <1>j, <1>u, <2>1, <3>1, <3>2, <4>1, <4>2, GoesOn DEF Reporting
    <3>3. CASE out.lines + out.lost + 1 # LinesDue
      <4>1. Reporting'
        BY <1>l, <1>t, <1>u, <2>1, <3>1, <3>3 DEF Reporting, Underway, Go, Streams
      <4> QED
        BY <1>j, <1>k, <3>1, <4>1 DEF Course
    <3> QED
      BY <3>2, <3>3
  <2> QED
    BY <2>2, <2>3
<1>9. CASE ReportNothing
  <2>1. Reporting /\ ~Json /\ LinesDue = 0 /\ UNCHANGED <<call, written, out, err, bad, exit>>
    BY <1>9, <1>s DEF ReportNothing
  <2>2. NothingSaid
    BY <1>t, <2>1 DEF Reporting, Streams
  <2>3. Reported(0)'
    BY <1>u, <2>1, <2>2 DEF Reported, Reporting, NothingSaid
  <2>4. Confirmation' = 0 \/ Confirms
    BY <1>u DEF Confirmation
  <2> QED
    BY <1>9, <1>j, <1>u, <2>1, <2>3, <2>4, GoesOn DEF Reporting, ReportNothing
<1>10. CASE ReadBackFails
  <2>1. Reporting
    BY <1>10, <1>s DEF ReadBackFails
  <2> QED
    BY <1>10, <1>j, <2>1, GivesUp DEF ReadBackFails, Reporting, Underway
<1>11. CASE Confirm
  <2>1. Confirming /\ UNCHANGED <<call, written, bad, exit>>
    BY <1>11, <1>s DEF Confirm
  <2>2. CASE ConfirmsAside
    <3>1. UNCHANGED out /\ (Json \/ ~Json)
      BY <1>11, <2>2 DEF Confirm
    <3>2. CASE Fail("operation_failed")
      <4>1. err' = [err EXCEPT !.lost = TRUE]
        BY <1>11, <2>2, <3>2 DEF Confirm, Go, Fail
      <4>2. err'.docs = 0 /\ err'.lines = 0
        BY <1>t, <2>1, <4>1 DEF Confirming, Underway, Errors
      <4> QED
        BY <1>j, <2>1, <3>1, <3>2, <4>2, GivesUp DEF Confirming, Reported
    <3>3. CASE ~Fail("operation_failed")
      <4>1. err' = [err EXCEPT !.lines = err.lines + 1] /\ Go("verdict")
        BY <1>11, <2>2, <3>3 DEF Confirm
      <4>2. err'.docs = 0 /\ err'.lines = 1 /\ ~err'.lost
        BY <1>t, <2>1, <4>1 DEF Confirming, Underway, Errors
      <4>3. Reported(Confirmation)'
        BY <1>u, <2>1, <2>2, <3>1 DEF Confirming, Reported, Confirmation
      <4>4. Concluding'
        BY <1>u, <2>1, <2>2, <4>1, <4>2, <4>3 DEF Confirming, Concluding, Underway, Go
      <4> QED
        BY <1>j, <2>1, <4>4 DEF Course
    <3> QED
      BY <3>2, <3>3
  <2>3. CASE ~ConfirmsAside
    <3>1. UNCHANGED err /\ ~Json /\ out.doc = "none"
      BY <1>11, <2>1, <2>3 DEF Confirm, ConfirmsAside, Confirming, Reported
    <3>2. CASE Fail("operation_failed")
      <4>1. out'.doc = "none"
        BY <1>11, <1>t, <2>3, <3>1, <3>2 DEF Confirm, Streams
      <4> QED
        BY <1>j, <2>1, <3>1, <3>2, <4>1, GivesUp DEF Confirming, Underway
    <3>3. CASE ~Fail("operation_failed")
      <4>1. out' = [out EXCEPT !.lines = out.lines + 1] /\ Go("verdict")
        BY <1>11, <2>3, <3>3 DEF Confirm
      <4>2. out'.doc = "none" /\ out'.lines = out.lines + 1 /\ out'.lost = out.lost
        BY <1>t, <3>1, <4>1 DEF Streams
      <4>3. Reported(0) /\ Confirmation = 1
        BY <2>1, <2>3 DEF Confirming, Confirmation
      <4>4. Reported(1)'
        BY <1>l, <1>t, <1>u, <2>1, <3>1, <4>2, <4>3 DEF Reported, Streams
      <4>5. Reported(Confirmation)'
        BY <1>u, <4>3, <4>4 DEF Reported
      <4>6. Concluding'
        BY <1>u, <2>1, <2>3, <3>1, <4>1, <4>5 DEF Confirming, Concluding, Underway, Go
      <4> QED
        BY <1>j, <2>1, <4>6 DEF Course
    <3> QED
      BY <3>2, <3>3
  <2> QED
    BY <2>2, <2>3
<1>12. CASE Verdict
  <2>1. Concluding /\ UNCHANGED <<call, written, bad, out, err>>
    BY <1>12, <1>s DEF Verdict
  <2>2. CASE bad
    <3>1. call.cmd \in Judges /\ Fail(VerdictError) /\ VerdictError \in VerdictErrors
      BY <1>12, <1>j, <2>2 DEF Verdict, VerdictError, VerdictErrors
    <3>2. ~Confirms /\ Confirmation = 0
      BY <3>1 DEF Confirms, Judges, Confirmation
    <3>3. Reported(0)'
      BY <1>u, <2>1, <3>2 DEF Concluding, Reported
    <3>4. Failing'
      BY <1>u, <2>1, <2>2, <3>1, <3>2, <3>3, OrdinaryErrors
      DEF Failing, Fail, Concluding, Underway, Reported
    <3> QED
      BY <1>j, <2>1, <3>4 DEF Course
  <2>3. CASE ~bad
    <3>1. step' = "exited" /\ exit' = 0 /\ failure' = "none"
      BY <1>12, <2>1, <2>3 DEF Verdict, Go, Concluding, Underway
    <3>2. "none" \notin VerdictErrors
      BY DEF VerdictErrors
    <3>3. ExitSaysWhatHappened'
      BY <1>u, <2>1, <2>3, <3>1 DEF ExitSaysWhatHappened, Concluding, Reported, Confirmation
    <3>4. MisuseChangesNothing'
      BY <3>1 DEF MisuseChangesNothing
    <3>5. ErrorsAreAnnounced'
      BY <1>u, <2>1, <3>1 DEF ErrorsAreAnnounced, Concluding, Underway, Reported, Confirms
    <3> QED
      BY <1>j, <2>1, <3>1, <3>3, <3>4, <3>5 DEF Course, Ended, Exited
  <2> QED
    BY <2>2, <2>3
<1>13. CASE Settle
  <2>1. Failing /\ UNCHANGED <<call, written, bad, out, failure>> /\ step' = "exited"
    BY <1>13, <1>s DEF Settle
  <2>2. exit' \in {1, 2, 130} /\ (exit' = 2 => failure = "invalid_invocation")
    BY <1>13, <2>1 DEF Settle, classifyError, Failing, IntelErrors
  <2>3. ExitSaysWhatHappened'
    BY <1>u, <2>1, <2>2 DEF ExitSaysWhatHappened, Failing, Reported
  <2>4. MisuseChangesNothing'
    BY <2>1, <2>2 DEF MisuseChangesNothing, Failing, NothingSaid
  <2>5. ErrorsAreAnnounced'
    <3>1. err'.lost \/ (err'.docs + err'.lines = 1 /\ (err'.docs = 1 <=> jsonErrorRequested))
      BY <1>13, <1>t, <2>1 DEF Settle, Failing, IntelErrors, Errors
    <3>2. AsksForDocuments' <=> jsonErrorRequested
      BY <2>1 DEF AsksForDocuments, jsonErrorRequested
    <3> QED
      BY <2>1, <2>2, <3>1, <3>2 DEF ErrorsAreAnnounced, Failing
  <2> QED
    BY <1>j, <2>1, <2>3, <2>4, <2>5 DEF Course, Ended, Exited
<1>14. CASE HelpText \/ Locate \/ HandOver \/ HandOverFails
  BY <1>14, <1>s DEF HelpText, Locate, HandOver, HandOverFails
<1>15. CASE UNCHANGED vars
  BY <1>15 DEF vars, Course, Parsing, Working, Writing, Reporting, Confirming, Concluding, Failing,
     Ended, Exited, Underway, NothingSaid, Reported, ExitSaysWhatHappened, MisuseChangesNothing,
     ErrorsAreAnnounced, Ours, Misused, Writes, Json, NoWrite, Confirms, ConfirmsAside, LinesDue,
     Confirmation, AsksForDocuments
<1> QED
  BY <1>1, <1>2, <1>3, <1>4, <1>5, <1>6, <1>7, <1>8, <1>9, <1>10, <1>11, <1>12, <1>13, <1>14, <1>15
  DEF Next

LEMMA CourseInit == Init => Course
<1> SUFFICES ASSUME Init, Ours PROVE Course
  BY DEF Course
<1> QED
  BY DEF Init, Ours, Course, Parsing, NothingSaid

-----------------------------------------------------------------------------
(* How far `intel` has come. *)

IntelCourse ==
  ~Ours =>
    /\ out.doc = "none" /\ step \in {"locate", "handover", "settle", "exited"}
    /\ ran \in {"none", resolveIntelBinary(call.places)}
    /\ step # "exited" => err.docs = 0 /\ exit = -1
    /\ step = "locate" => ran = "none" /\ out.lost = 0
    /\ step = "handover" => ran # "none" /\ out.lost = 0
    /\ step = "settle" =>
         \/ failure = "operation_failed" /\ ran = "none" /\ out.lost # 0
         \/ failure = "operation_failed" /\ ran = "none" /\ out.lost = 0 /\ call.windows
         \/ failure = "intel_missing" /\ ran = "none" /\ out.lost = 0 /\ ~call.help
         \/ failure = "intel_unusable" /\ ran = "none" /\ out.lost = 0 /\ ~call.windows
         \/ failure = "intel_exited" /\ ran # "none" /\ out.lost = 0
    /\ step = "exited" => IntelPassesThrough

LEMMA IntelNext == TypeOK /\ IntelCourse /\ [Next]_vars => IntelCourse'
<1> SUFFICES ASSUME TypeOK, IntelCourse, [Next]_vars, ~Ours PROVE IntelCourse'
  BY DEF IntelCourse, Ours, vars, Next, Parse, Check, WorkFails, WorkSucceeds, WriteFile, WriteFails,
     ReportJson, ReportLine, ReportNothing, ReadBackFails, Confirm, Verdict, HelpText, Locate,
     HandOver, HandOverFails, Settle
<1>t. out \in Streams /\ err \in Errors /\ child \in ChildExits
  BY DEF TypeOK, Streams, Errors
<1>n. resolveIntelBinary(call.places) \in Candidates
  BY DEF resolveIntelBinary, Candidates
<1>1. CASE HelpText
  <2>1. out.doc = "none" /\ out'.doc = "none"
    BY <1>1, <1>t DEF HelpText, IntelCourse, Streams
  <2>2. CASE Go("locate") /\ out' = [out EXCEPT !.lines = 1]
    <3>1. out'.lost = out.lost
      BY <1>t, <2>2 DEF Streams
    <3> QED
      BY <1>1, <2>1, <2>2, <3>1 DEF HelpText, IntelCourse, Go, Ours
  <2>3. CASE Fail("operation_failed") /\ out' = [out EXCEPT !.lost = 1]
    <3>1. out'.lost = 1
      BY <1>t, <2>3 DEF Streams
    <3> QED
      BY <1>1, <2>1, <2>3, <3>1 DEF HelpText, IntelCourse, Fail, Ours
  <2> QED
    BY <1>1, <2>2, <2>3 DEF HelpText
<1>2. CASE Locate
  <2>1. /\ ran' = resolveIntelBinary(call.places) /\ out.lost = 0 /\ out.doc = "none"
        /\ err.docs = 0 /\ exit = -1 /\ UNCHANGED <<call, out, err>>
    BY <1>2 DEF Locate, IntelCourse
  <2>2. CASE ran' # "none"
    BY <1>2, <2>1, <2>2 DEF Locate, IntelCourse, Go, Ours
  <2>3. CASE ran' = "none" /\ call.help
    <3>1. step' = "exited" /\ exit' = 0
      BY <1>2, <2>3 DEF Locate, Go
    <3>2. IntelPassesThrough'
      BY <2>1, <2>3, <3>1 DEF IntelPassesThrough
    <3> QED
      BY <2>1, <2>3, <3>1, <3>2 DEF IntelCourse
  <2>4. CASE ran' = "none" /\ ~call.help
    BY <1>2, <2>1, <2>4 DEF Locate, IntelCourse, Fail, Ours
  <2> QED
    BY <2>2, <2>3, <2>4
<1>3. CASE HandOver
  <2>1. /\ ran = resolveIntelBinary(call.places) /\ ran # "none" /\ out.lost = 0 /\ out.doc = "none"
        /\ err.docs = 0 /\ exit = -1 /\ UNCHANGED <<call, out, err, ran>>
    BY <1>3 DEF HandOver, IntelCourse
  <2>2. CASE Fail("intel_exited") /\ UNCHANGED exit
    BY <2>1, <2>2 DEF IntelCourse, Fail, Ours
  <2>3. CASE Go("exited") /\ exit' = child'
    <3>1. IntelPassesThrough'
      BY <2>1, <2>3 DEF IntelPassesThrough, resolveIntelBinary
    <3> QED
      BY <2>1, <2>3, <3>1 DEF IntelCourse, Go
  <2> QED
    BY <1>3, <2>2, <2>3 DEF HandOver
<1>4. CASE HandOverFails
  BY <1>4 DEF HandOverFails, IntelCourse, Fail, Ours
<1>5. CASE Settle
  <2>1. /\ UNCHANGED <<call, out, ran, child>> /\ step' = "exited" /\ step = "settle"
        /\ exit' = classifyError(failure)
    BY <1>5 DEF Settle
  <2>2. /\ out.doc = "none" /\ ran \in {"none", resolveIntelBinary(call.places)} /\ err.docs = 0
    BY <2>1 DEF IntelCourse
  <2>3. failure \in IntelErrors => err'.docs = 0
    BY <1>5, <1>t, <2>2 DEF Settle, Errors, IntelErrors
  <2>4. CASE failure = "operation_failed"
    <3>1. exit' = 1 /\ ran = "none" /\ (out.lost # 0 \/ call.windows)
      BY <2>1, <2>4 DEF IntelCourse, classifyError
    <3> QED
      BY <2>1, <2>2, <3>1 DEF IntelCourse, IntelPassesThrough
  <2>5. CASE failure = "intel_missing"
    <3>1. exit' = 127 /\ ran = "none" /\ out.lost = 0 /\ ~call.help
      BY <2>1, <2>5 DEF IntelCourse, classifyError
    <3> QED
      BY <2>1, <2>2, <2>3, <2>5, <3>1 DEF IntelCourse, IntelPassesThrough, IntelErrors
  <2>6. CASE failure = "intel_unusable"
    <3>1. exit' = 126 /\ ran = "none" /\ out.lost = 0 /\ ~call.windows
      BY <2>1, <2>6 DEF IntelCourse, classifyError
    <3> QED
      BY <2>1, <2>2, <2>3, <2>6, <3>1 DEF IntelCourse, IntelPassesThrough, IntelErrors
  <2>7. CASE failure = "intel_exited"
    <3>1. exit' = child' /\ ran # "none" /\ out.lost = 0
      BY <2>1, <2>7 DEF IntelCourse, classifyError
    <3> QED
      BY <2>1, <2>2, <2>3, <2>7, <3>1
      DEF IntelCourse, IntelPassesThrough, IntelErrors, resolveIntelBinary
  <2> QED
    BY <2>1, <2>4, <2>5, <2>6, <2>7 DEF IntelCourse
<1>6. CASE ~(HelpText \/ Locate \/ HandOver \/ HandOverFails \/ Settle)
  <2>1. step \in {"locate", "handover", "settle", "exited"}
    BY DEF IntelCourse
  <2>2. UNCHANGED vars
    BY <1>6, <2>1 DEF Next, Parse, Check, WorkFails, WorkSucceeds, WriteFile, WriteFails,
       ReportJson, ReportLine, ReportNothing, ReadBackFails, Confirm, Verdict
  <2> QED
    BY <2>2 DEF vars, IntelCourse, IntelPassesThrough, Ours, Exited
<1> QED
  BY <1>1, <1>2, <1>3, <1>4, <1>5, <1>6

LEMMA IntelInit == Init => IntelCourse
  BY DEF Init, IntelCourse, Ours

-----------------------------------------------------------------------------
(* What an invocation may say when it has exited. *)

LEMMA Courses == Spec => [](Course /\ IntelCourse)
  BY InitTypes, NextKeepsTypes, CourseInit, CourseNext, IntelInit, IntelNext, PTL DEF Spec

LEMMA CourseEnds == Course /\ Ours /\ Exited => Ended
  BY DEF Course, Exited, Parsing, Working, Writing, Reporting, Confirming, Concluding, Failing

\* Exit 0 means that everything was written and reported whole and that no check
\* failed, for outputs of any number of files and reports of any length, and the
\* code of a failed check that its report arrived.
THEOREM ExitIsTruthful == Spec => []ExitSaysWhatHappened
<1>1. Course => ExitSaysWhatHappened
  BY CourseEnds DEF Ended, ExitSaysWhatHappened
<1> QED
  BY <1>1, Courses, PTL

\* Whatever the arguments are, exit 2 leaves the disk and stdout as they were.
THEOREM MisuseIsHarmless == Spec => []MisuseChangesNothing
<1>1. Course => MisuseChangesNothing
  BY CourseEnds DEF Ended, MisuseChangesNothing
<1> QED
  BY <1>1, Courses, PTL

\* A failure is said once, in the form the arguments ask for, and stdout never
\* mixes prose with JSON.
THEOREM FailuresAreAnnounced == Spec => []ErrorsAreAnnounced
<1>1. Course /\ IntelCourse => ErrorsAreAnnounced
  <2> SUFFICES ASSUME Course, IntelCourse PROVE ErrorsAreAnnounced
    OBVIOUS
  <2>1. out.doc # "none" => out.lines = 0
    BY DEF Course, IntelCourse, Parsing, Working, Writing, Reporting, Confirming, Concluding,
       Failing, Ended, NothingSaid, Reported, ErrorsAreAnnounced
  <2>2. Exited /\ Ours => ErrorsAreAnnounced
    BY CourseEnds DEF Ended
  <2> QED
    BY <2>1, <2>2 DEF ErrorsAreAnnounced
<1> QED
  BY <1>1, Courses, PTL

\* intel runs the binary it was told to run or the surest one there is, wherever
\* they may be, and gives its exit code back.
THEOREM IntelIsPassedThrough == Spec => []IntelPassesThrough
<1>1. IntelCourse => IntelPassesThrough
  BY DEF IntelCourse, IntelPassesThrough, Exited
<1> QED
  BY <1>1, Courses, PTL

-----------------------------------------------------------------------------
(* Diffs. *)

\* The changes of a record lead from the first one to the second.
LEMMA FieldsAreMoved ==
  ASSUME NEW f, NEW g, Fields(g, f)
  PROVE  Moved(f, diffFields(f, g)) = g
<1> DEFINE changed == {x \in DOMAIN f : f[x] # g[x]}
<1>1. DOMAIN diffFields(f, g) = changed
  BY DEF diffFields
<1>2. \A x \in changed : diffFields(f, g)[x].after = g[x]
  BY DEF diffFields
<1>3. Moved(f, diffFields(f, g)) = [x \in DOMAIN f |-> g[x]]
  BY <1>1, <1>2 DEF Moved
<1> QED
  BY <1>3 DEF Fields

\* The four parts of the items: what is gone, new, changed, and as it was.
LEMMA ItemsAreAccounted ==
  ASSUME NEW before, NEW after, Comparable(before, after)
  PROVE  ItemsExact(before.items, after.items, diffItems(before.items, after.items))
<1> DEFINE b == before.items
           a == after.items
           items == diffItems(b, a)
           kept == DOMAIN b \cap DOMAIN a
           moved == {p \in kept : b[p] # a[p]}
<1>1. /\ DOMAIN items.removed = DOMAIN b \ DOMAIN a /\ DOMAIN items.added = DOMAIN a \ DOMAIN b
      /\ DOMAIN items.changed = moved /\ items.unchanged = Cardinality(kept \ moved)
  BY DEF diffItems
<1>2. ASSUME NEW p \in moved PROVE Moved(b[p], items.changed[p]) = a[p]
  <2>1. items.changed[p] = diffFields(b[p], a[p])
    BY <1>2 DEF diffItems
  <2>2. Fields(a[p], b[p])
    BY <1>2 DEF Comparable
  <2> QED
    BY <2>1, <2>2, FieldsAreMoved
<1>3. IsFiniteSet(kept) /\ IsFiniteSet(moved)
  <2>1. IsFiniteSet(DOMAIN b)
    BY DEF Comparable
  <2> QED
    BY <2>1, FS_Subset
<1>4. Cardinality(kept \ moved) = Cardinality(kept) - Cardinality(moved)
  <2>1. Cardinality(kept \ moved) = Cardinality(kept) - Cardinality(kept \cap moved)
    BY <1>3, FS_Difference
  <2>2. kept \cap moved = moved
    OBVIOUS
  <2> QED
    BY <2>1, <2>2
<1> HIDE DEF items
<1> QED
  BY <1>1, <1>2, <1>4 DEF ItemsExact, items

LEMMA DecisionsAreMoved ==
  ASSUME NEW before, NEW after
  PROVE  (Keys(before) \ Keys(diffDecisions(before, after).removed))
            \cup Keys(diffDecisions(before, after).added) = Keys(after)
<1> DEFINE d == diffDecisions(before, after)
<1>1. /\ d.added = {x \in after : \A e \in before : Key(e) # Key(x)}
      /\ d.removed = {x \in before : \A e \in after : Key(e) # Key(x)}
  BY DEF diffDecisions
<1> HIDE DEF d
<1>2. ASSUME NEW k
      PROVE  (\E e \in after : k = Key(e))
               <=> \/ (\E e \in before : k = Key(e)) /\ ~ \E e \in d.removed : k = Key(e)
                   \/ \E e \in d.added : k = Key(e)
  BY <1>1
<1> QED
  BY <1>2 DEF Keys, d

LEMMA DiffsLead ==
  ASSUME NEW before, NEW after, Comparable(before, after)
  PROVE  Exact(before, after, DiffPackets(before, after))
<1> DEFINE d == DiffPackets(before, after)
<1>1. /\ d.repository = diffFields(before.repository, after.repository)
      /\ d.limits = diffFields(before.limits, after.limits)
      /\ d.items = diffItems(before.items, after.items)
      /\ d.checks = diffStringSet(before.checks, after.checks)
      /\ d.decisions = diffDecisions(before.decisions, after.decisions)
  BY DEF DiffPackets
<1> HIDE DEF d
<1>2. /\ Moved(before.repository, d.repository) = after.repository
      /\ Moved(before.limits, d.limits) = after.limits
  BY <1>1, FieldsAreMoved DEF Comparable
<1>3. (before.checks \ d.checks.removed) \cup d.checks.added = after.checks
  BY <1>1 DEF diffStringSet
<1>4. ItemsExact(before.items, after.items, d.items)
  BY <1>1, ItemsAreAccounted
<1>5. (Keys(before.decisions) \ Keys(d.decisions.removed)) \cup Keys(d.decisions.added)
        = Keys(after.decisions)
  BY <1>1, DecisionsAreMoved
<1>6. Exact(before, after, d)
  BY <1>2, <1>3, <1>4, <1>5 DEF Exact
<1> QED
  BY <1>6 DEF d

\* A diff of any two packets that Brief can build is exact on what it compares.
THEOREM DiffsAreExact == Spec => []DiffIsExact
<1> DEFINE Made == \A s \in shown : /\ s.before \in Packets /\ s.after \in Packets
                                     /\ s.diff = DiffPackets(s.before, s.after)
<1>1. Init => Made
  BY DEF Init
<1>2. Made /\ [Next]_vars => Made'
  <2> SUFFICES ASSUME Made, [Next]_vars PROVE Made'
    OBVIOUS
  <2>1. CASE WorkSucceeds
    BY <2>1 DEF WorkSucceeds
  <2>2. CASE UNCHANGED shown
    BY <2>2
  <2> QED
    BY <2>1, <2>2 DEF Next, vars, Parse, Check, WorkFails, WriteFile, WriteFails,
       ReportJson, ReportLine, ReportNothing, ReadBackFails, Confirm, Verdict, HelpText, Locate,
       HandOver, HandOverFails, Settle
<1>3. Made => DiffIsExact
  BY PacketsAreComparable, DiffsLead DEF DiffIsExact
<1> QED
  BY <1>1, <1>2, <1>3, PTL DEF Spec
=============================================================================
