--------------------------- MODULE MCCommandLine ---------------------------
(***************************************************************************)
(* A small instance of CommandLine: every command with every set of flags  *)
(* it knows and one it does not, every place the platform's binary may be  *)
(* at, and packets of up to two items.                                     *)
(***************************************************************************)
EXTENDS CommandLine

NoPlace == [explicit |-> "unset", beside |-> FALSE, installed |-> FALSE, path |-> FALSE]

\* A diff has no flag of its own: its calls are few, its packets many.
FlagsOf(c) ==
  IF c = "diff" THEN {{}, {"--json"}}
  ELSE {f \in SUBSET (JsonFlags \cup {"--json-errors", "--bogus"} \cup OwnFlags(c)) :
          Cardinality(f \cap JsonFlags) <= 1}

MCCalls ==
  (UNION {[cmd : {c}, words : BOOLEAN, help : {FALSE}, places : {NoPlace}, windows : {FALSE},
          flags : FlagsOf(c)] : c \in Commands \ {"intel"}})
    \cup [cmd : {"intel"}, words : {TRUE}, help : BOOLEAN, places : Places, windows : BOOLEAN,
          flags : SUBSET {"--json"}]

MCItems ==
  (UNION {[paths -> [reason : {"title"}, content_hash : {1, 2}]] : paths \in {{}, {"a"}, {"b"}}})
    \cup [{"a", "b"} -> [reason : {"title"}, content_hash : {1}]]

Counted(n) == [path |-> ".", reason |-> "item_limit", detail |-> n]

\* Repositories, limits and checks change together.
MCPackets ==
  UNION {[repository : {[head_revision |-> n]}, limits : {[max_items |-> n]}, items : MCItems,
          checks : {IF n = 1 THEN {} ELSE {"test"}},
          decisions : {{}, {Counted(1)}, {Counted(2)}}, rest : {1}] : n \in 1..2}

MCNeeds == SUBSET {"context.scope", "context.gone"}
=============================================================================
