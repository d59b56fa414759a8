-------------------------- MODULE MCTaskDocuments --------------------------
(***************************************************************************)
(* Small directories of task files: "a.b.md", whose id is of the           *)
(* historical form, "b copy.md" and "b.md", which may both declare b, and  *)
(* the reserved "index.md".                                                *)
(***************************************************************************)
EXTENDS TaskDocuments, TLC

FileStems == <<"a.b", "b copy", "b", "index">>
CanonicalIds == {"b", "index"}
AllIds == {"a.b", "b copy", "b", "index"}

S(heading, filled) == [heading |-> heading, filled |-> filled]
Whole == <<S("objective", TRUE), S("done when", TRUE)>>
Bodies ==
  {Whole,
   <<S("mission", TRUE), S("notes", TRUE), S("success", TRUE)>>,
   <<S("objective", TRUE), S("done when", FALSE)>>,
   <<S("objective", TRUE), S("done when", TRUE), S("objective", FALSE), S("outcome", TRUE)>>}

Good(id) == [id |-> id, required |-> TRUE, status |-> "open", optional |-> TRUE, body |-> Whole]

\* A good task of this id, and every way to part from it once.
Variants(id) ==
  {Good(id), [Good(id) EXCEPT !.required = FALSE], [Good(id) EXCEPT !.optional = FALSE]}
  \cup {[Good(id) EXCEPT !.status = s] : s \in {"done", "unsupported"}}
  \cup {[Good(id) EXCEPT !.body = b] : b \in Bodies}
  \cup {[Good(id) EXCEPT !.status = "canceled", !.body = <<>>]}

Plain(texts) == {[kind |-> "file", text |-> t] : t \in texts}

BFiles ==
  Plain(Variants("b") \cup {Unparsable})
  \cup {[kind |-> k, text |-> Good("b")] : k \in {"huge", "symlink", "dir"}}

Copies == Plain({Good("b"), [Good("b") EXCEPT !.required = FALSE], Unparsable,
                 [Good("b copy") EXCEPT !.status = "done"]})

Dots == Plain({Good("a.b"), [Good("a.b") EXCEPT !.status = "done"]})

AllEntries == BFiles \cup Copies \cup Dots

AllDirectories ==
  {(1 :> d) @@ (2 :> c) @@ (3 :> b) @@ (4 :> i) :
     d \in Dots \cup {NoEntry}, c \in Copies \cup {NoEntry}, b \in BFiles \cup {NoEntry},
     i \in {NoEntry, [kind |-> "file", text |-> Unparsable]}}

\* A task is filed, created, broken or finished, or a copy of it appears.
SavedEntries == {NoEntry} \cup Plain({Good("b"), Unparsable, [Good("b") EXCEPT !.status = "done"]})

\* One listing beside one of the other readers.
Pairs == {{"tasks", c} : c \in Commands}
=============================================================================
