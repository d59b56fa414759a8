---------------------------- MODULE RecordVerify ----------------------------
(***************************************************************************)
(* `struktly verify`: one bundle is read, four checks are made of it, and  *)
(* the report is written before the exit code says what it found.  A       *)
(* check that fails does not end the run; only a bundle that cannot be     *)
(* decoded does.                                                           *)
(***************************************************************************)
EXTENDS Naturals

CONSTANTS
  Executions,   \* execution ids
  MaxRevision,  \* bound on revisions; 0 stands for a missing one
  DocSchemas,   \* schemas a sealed Record may declare
  Payloads,     \* sealed values, see Payload; a digest stands for its bytes
  None

ASSUME MaxRevisionIsNat == MaxRevision \in Nat

(***************************************************************************)
(* A sealed value: whether it is an object, whether its identity decodes   *)
(* (null does, a revision written as a string does not), and its           *)
(* judgements.                                                             *)
(* "unreadable" ones meet the schema and not the Go types: 2.0 is an       *)
(* integer to the first and not to the second.                             *)
(***************************************************************************)
Payload == [object : BOOLEAN, decodes : BOOLEAN, schema : DocSchemas,
            execution : Executions \cup {None}, revision : 0..MaxRevision,
            judgements : {"absent", "unreadable", "empty", "filled"}]

ASSUME PayloadsArePayloads == Payloads \subseteq Payload
ASSUME NoneIsNeither == None \notin Payload \cup Executions

Manifest == [schema : DocSchemas, execution : Executions \cup {None},
             revision : 0..MaxRevision, digest : Payloads \cup {None}]

\* wellFormed: all the published schema asks that the other fields do not say.
Bundle == [schema : BOOLEAN, wellFormed : BOOLEAN, manifest : Manifest,
           sealed : Payloads \cup {None}]

Sources == {"readable", "missing", "io_error", "not_decodable"}

Checks == {"schema", "contract", "payload", "consistency"}
Verdicts == {"none", "pass", "fail"}

VARIABLES
  source,      \* what reading and decoding the file comes to
  bundle,      \* the decoded file
  phase,       \* the check that is next
  checks,      \* [Checks -> Verdicts]: "none" for a check that was not made
  judgements,  \* what the report says of them
  printed,     \* how much of the report was written
  code         \* the error code, "none" on success

vars == <<source, bundle, phase, checks, judgements, printed, code>>

Phases == {"read"} \cup Checks \cup {"conclude", "print", "done"}

Init ==
  /\ source \in Sources
  /\ bundle \in Bundle
  /\ phase = "read"
  /\ checks = [check \in Checks |-> "none"]
  /\ judgements = "unavailable" /\ printed = "nothing" /\ code = "none"

-----------------------------------------------------------------------------
\* classifyError and runCLI, for the errors of this command.
ExitOf(error) ==
  IF error = "none" THEN 0 ELSE IF error = "invalid_invocation" THEN 2 ELSE 1

\* No report: the bundle is absent, or is not a bundle at all.
ReadFails ==
  /\ phase = "read" /\ source # "readable"
  /\ code' = IF source = "io_error" THEN "operation_failed" ELSE "invalid_invocation"
  /\ phase' = "done"
  /\ UNCHANGED <<source, bundle, checks, judgements, printed>>

ReadBundle ==
  /\ phase = "read" /\ source = "readable"
  /\ phase' = "schema"
  /\ UNCHANGED <<source, bundle, checks, judgements, printed, code>>

Record(check, holds) ==
  checks' = [checks EXCEPT ![check] = IF holds THEN "pass" ELSE "fail"]

CheckSchema ==
  /\ phase = "schema"
  /\ Record("schema", bundle.schema)
  /\ phase' = "contract"
  /\ UNCHANGED <<source, bundle, judgements, printed, code>>

\* The published schema asks for an object and for the manifest's fields, and
\* looks into the judgements; of the identity inside the payload it asks nothing.
MeetsContract(b) ==
  /\ b.schema /\ b.wellFormed
  /\ b.sealed # None /\ b.sealed.object
  /\ b.manifest.execution # None /\ b.manifest.revision > 0 /\ b.manifest.digest # None

CheckContract ==
  /\ phase = "contract"
  /\ Record("contract", MeetsContract(bundle))
  /\ phase' = "payload"
  /\ UNCHANGED <<source, bundle, judgements, printed, code>>

\* The digest is derived from the sealed bytes; without either there is none.
DigestMatches(b) ==
  b.sealed # None /\ b.manifest.digest # None /\ b.manifest.digest = b.sealed

CheckPayload ==
  /\ phase = "payload"
  /\ Record("payload", DigestMatches(bundle))
  /\ phase' = "consistency"
  /\ UNCHANGED <<source, bundle, judgements, printed, code>>

\* Mutant: only the execution is compared.
SameExecution(b) == b.sealed.execution \in {None, b.manifest.execution}

\* What the payload says of its identity, where it says it, is the manifest's.
SameRecord(b) ==
  /\ b.sealed.execution \in {None, b.manifest.execution}
  /\ b.sealed.revision \in {0, b.manifest.revision}

Decodes(sealed) == sealed # None /\ sealed.decodes

\* A payload whose identity does not decode is not checked.
CheckConsistency ==
  /\ phase = "consistency"
  /\ IF Decodes(bundle.sealed) THEN Record("consistency", SameRecord(bundle))
     ELSE UNCHANGED checks
  /\ phase' = "conclude"
  /\ UNCHANGED <<source, bundle, judgements, printed, code>>

Intact == \A check \in Checks : checks[check] # "fail"

\* Mutant: the judgements are reported whatever the checks said.
ConcludeAnyway ==
  /\ phase = "conclude"
  /\ judgements' = IF bundle.sealed # None /\ bundle.sealed.judgements \in {"empty", "filled"}
                   THEN bundle.sealed.judgements ELSE "unavailable"
  /\ phase' = "print"
  /\ UNCHANGED <<source, bundle, checks, printed, code>>

\* readVerifiedJudgements, of an intact bundle only.
Conclude ==
  /\ phase = "conclude"
  /\ judgements' = IF Intact /\ bundle.sealed.judgements \in {"empty", "filled"}
                   THEN bundle.sealed.judgements ELSE "unavailable"
  /\ phase' = "print"
  /\ UNCHANGED <<source, bundle, checks, printed, code>>

\* Mutant: the verdict alone decides the code, written or not.
PrintVerdict ==
  /\ phase = "print"
  /\ printed' \in {"part", "whole"}
  /\ code' = IF Intact THEN "none" ELSE "verification_failed"
  /\ phase' = "done"
  /\ UNCHANGED <<source, bundle, checks, judgements>>

\* The report goes out first; a failing write is an error of its own.
WriteReport ==
  /\ phase = "print"
  /\ printed' \in {"part", "whole"}
  /\ code' = IF printed' = "part" THEN "operation_failed"
             ELSE IF Intact THEN "none" ELSE "verification_failed"
  /\ phase' = "done"
  /\ UNCHANGED <<source, bundle, checks, judgements>>

Next ==
  \/ ReadFails \/ ReadBundle \/ CheckSchema \/ CheckContract \/ CheckPayload
  \/ CheckConsistency \/ Conclude \/ WriteReport

Spec == Init /\ [][Next]_vars

-----------------------------------------------------------------------------
TypeOK ==
  /\ source \in Sources
  /\ bundle \in Bundle
  /\ phase \in Phases
  /\ checks \in [Checks -> Verdicts]
  /\ judgements \in {"unavailable", "empty", "filled"}
  /\ printed \in {"nothing", "part", "whole"}
  /\ code \in {"none", "invalid_invocation", "operation_failed", "verification_failed"}

\* "The exit code then says what it found": 0 only after a whole report in
\* which nothing failed, verification_failed only after a whole report that
\* names a failure, and 2 only when nothing was checked and nothing written.
ExitSaysWhatWasFound ==
  phase = "done" =>
    /\ ExitOf(code) = 0 <=> printed = "whole" /\ Intact
    /\ code = "verification_failed" <=> printed = "whole" /\ ~Intact
    /\ ExitOf(code) = 2 =>
         printed = "nothing" /\ \A check \in Checks : checks[check] = "none"

\* "The bytes are the ones the digest describes": exit 0 is never reached with
\* bytes that were not hashed against a recorded digest, or whose own identity,
\* as far as it decodes, is not the manifest's.
IntactMeansSealed ==
  phase = "done" /\ ExitOf(code) = 0 =>
    /\ source = "readable" /\ bundle.sealed # None /\ bundle.manifest.digest = bundle.sealed
    /\ bundle.sealed.decodes /\ bundle.sealed.execution # None =>
         bundle.sealed.execution = bundle.manifest.execution
    /\ bundle.sealed.decodes /\ bundle.sealed.revision # 0 =>
         bundle.sealed.revision = bundle.manifest.revision

\* "Judgements reports only values carried inside an intact sealed payload":
\* whatever else the bundle holds, what is reported comes from hashed bytes,
\* and an older payload without judgements is never reported as an empty one.
JudgementsAreVouchedFor ==
  judgements # "unavailable" =>
    /\ Intact /\ DigestMatches(bundle)
    /\ judgements = bundle.sealed.judgements
=============================================================================
