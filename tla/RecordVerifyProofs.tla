------------------------- MODULE RecordVerifyProofs -------------------------
(***************************************************************************)
(* What `struktly verify` says of a bundle, for every set of payloads,     *)
(* executions and revisions.  The invariant records, for each check that   *)
(* is over, what its verdict means; it stays true because no step makes a  *)
(* check twice or changes the bundle.                                      *)
(***************************************************************************)
EXTENDS RecordVerify, TLAPS

\* Where the run is once a check is over.
AfterPayload == {"consistency", "conclude", "print", "done"}
AfterConsistency == {"conclude", "print", "done"}

\* A bundle that cannot be decoded is neither checked nor reported on.
UnreadIsUnchecked ==
  phase = "read" \/ source # "readable" =>
    /\ phase \in {"read", "done"}
    /\ printed = "nothing"
    /\ checks = [check \in Checks |-> "none"]

\* A verdict, once given, is the answer of its check.
VerdictsHold ==
  source = "readable" =>
    /\ phase \in AfterPayload =>
         checks["payload"] = IF DigestMatches(bundle) THEN "pass" ELSE "fail"
    /\ phase \in AfterConsistency /\ Decodes(bundle.sealed) =>
         checks["consistency"] = IF SameRecord(bundle) THEN "pass" ELSE "fail"

\* Judgements are read late, and of an intact bundle.
JudgementsAreLate ==
  /\ phase \notin {"print", "done"} => judgements = "unavailable"
  /\ judgements # "unavailable" =>
       Intact /\ source = "readable" /\ judgements = bundle.sealed.judgements

\* The code is set once, by the step that ends the run.
CodeIsLast ==
  /\ phase # "done" => printed = "nothing" /\ code = "none"
  /\ phase = "done" /\ source # "readable" => code \in {"operation_failed", "invalid_invocation"}
  /\ phase = "done" /\ source = "readable" =>
       /\ printed \in {"part", "whole"}
       /\ code = IF printed = "part" THEN "operation_failed"
                 ELSE IF Intact THEN "none" ELSE "verification_failed"

IInv ==
  /\ TypeOK /\ UnreadIsUnchecked /\ VerdictsHold /\ JudgementsAreLate /\ CodeIsLast

LEMMA InitIInv == Init => IInv
  BY NoneIsNeither
  DEF Init, IInv, TypeOK, UnreadIsUnchecked, VerdictsHold, JudgementsAreLate, CodeIsLast,
      AfterPayload, AfterConsistency, Phases, Verdicts, Checks

LEMMA NextIInv == IInv /\ [Next]_vars => IInv'
<1> SUFFICES ASSUME IInv, [Next]_vars PROVE IInv'
  OBVIOUS
<1> USE DEF IInv, TypeOK, UnreadIsUnchecked, VerdictsHold, JudgementsAreLate, CodeIsLast,
            AfterPayload, AfterConsistency, Phases, Verdicts, Checks, Intact
<1>1. CASE ReadFails
  BY <1>1 DEF ReadFails
<1>2. CASE ReadBundle
  BY <1>2 DEF ReadBundle
<1>3. CASE CheckSchema
  BY <1>3 DEF CheckSchema, Record
<1>4. CASE CheckContract
  BY <1>4 DEF CheckContract, Record
<1>5. CASE CheckPayload
  BY <1>5 DEF CheckPayload, Record
<1>6. CASE CheckConsistency
  BY <1>6 DEF CheckConsistency, Record
<1>7. CASE Conclude
  BY <1>7 DEF Conclude
<1>8. CASE WriteReport
  BY <1>8 DEF WriteReport
<1>9. CASE UNCHANGED vars
  BY <1>9 DEF vars
<1> QED
  BY <1>1, <1>2, <1>3, <1>4, <1>5, <1>6, <1>7, <1>8, <1>9 DEF Next

LEMMA InvariantHolds == Spec => []IInv
  BY InitIInv, NextIInv, PTL DEF Spec

\* Every state of a verification has its type.
THEOREM VerifyTypeCorrect == Spec => []TypeOK
<1>1. IInv => TypeOK
  BY DEF IInv
<1> QED
  BY <1>1, InvariantHolds, PTL

\* The exit code says what the report found, and 2 is only ever the answer to
\* a bundle that was not checked at all (verifyRecordBundle, classifyError).
THEOREM ExitIsHonest == Spec => []ExitSaysWhatWasFound
<1>1. IInv => ExitSaysWhatWasFound
  BY DEF IInv, TypeOK, UnreadIsUnchecked, CodeIsLast, ExitSaysWhatWasFound, ExitOf, Intact,
         Checks, Phases, Verdicts, Sources
<1> QED
  BY <1>1, InvariantHolds, PTL

\* Exit 0 is never reached with bytes that were not hashed, nor with a payload
\* whose decoded identity is another one than the manifest's.
THEOREM IntactIsSealed == Spec => []IntactMeansSealed
<1>1. ASSUME IInv, phase = "done", ExitOf(code) = 0
      PROVE  source = "readable" /\ Intact
  BY <1>1 DEF IInv, TypeOK, CodeIsLast, ExitOf, Sources
<1>2. IInv => IntactMeansSealed
  <2> SUFFICES ASSUME IInv, phase = "done", ExitOf(code) = 0
               PROVE  /\ source = "readable" /\ DigestMatches(bundle)
                      /\ Decodes(bundle.sealed) => SameRecord(bundle)
    BY DEF IntactMeansSealed, DigestMatches, Decodes, SameRecord
  <2>1. source = "readable" /\ checks["payload"] # "fail" /\ checks["consistency"] # "fail"
    BY <1>1 DEF Intact, Checks
  <2> QED
    BY <2>1 DEF IInv, VerdictsHold, AfterPayload, AfterConsistency
<1> QED
  BY <1>2, InvariantHolds, PTL

\* Judgements are reported only from hashed bytes of an intact bundle.
THEOREM JudgementsVouched == Spec => []JudgementsAreVouchedFor
<1>1. IInv => JudgementsAreVouchedFor
  BY DEF IInv, TypeOK, UnreadIsUnchecked, VerdictsHold, JudgementsAreLate, CodeIsLast,
         JudgementsAreVouchedFor, AfterPayload, AfterConsistency, Intact, Checks, Phases
<1> QED
  BY <1>1, InvariantHolds, PTL
=============================================================================
