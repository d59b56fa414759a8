---- MODULE MCRecordVerify ----
EXTENDS RecordVerify

\* One Record, and the ways another payload may differ from it.
Sealed == [object |-> TRUE, decodes |-> TRUE, schema |-> "provenance", execution |-> "run",
           revision |-> 2, judgements |-> "filled"]

MCPayloads ==
  {Sealed,
   [Sealed EXCEPT !.revision = 1, !.judgements = "empty"],
   [Sealed EXCEPT !.revision = 0, !.judgements = "absent"],
   [Sealed EXCEPT !.execution = "other"],
   [Sealed EXCEPT !.execution = None, !.judgements = "unreadable"],
   [Sealed EXCEPT !.decodes = FALSE],
   [Sealed EXCEPT !.object = FALSE, !.decodes = FALSE, !.judgements = "absent"],
   [Sealed EXCEPT !.object = FALSE, !.execution = None, !.revision = 0, !.judgements = "absent"],
   [Sealed EXCEPT !.schema = "provenance/v2"]}
====
