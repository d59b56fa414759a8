------------------------------ MODULE Selection ------------------------------
(***************************************************************************)
(* selectPacketContext: which files of the repository go into a packet.    *)
(* Candidates are ranked and admitted one at a time against three limits;  *)
(* import neighbours of what was admitted follow in a second pass over     *)
(* the same budget.  The repository does not change meanwhile (module      *)
(* PacketBuild has it change).                                             *)
(***************************************************************************)
EXTENDS Integers, FiniteSets

CONSTANTS
  Paths,          \* what the repository holds; a number is its place in path order
  FileKinds,      \* the files a path may name, see File
  Identifiers,    \* package-qualified names one Go file may use of another
  MaxIndexed,     \* maxIndexedSymbolFiles: how many files one request reads for matches
  DefaultLimits,  \* [items, file, total]: DefaultPacketLimits
  Overrides       \* the limits a caller may ask for, 0 for "the default"

PathReasons == {"selection_rule", "repository_instruction", "task_match"}

ContentReasons == {"symbol_match", "title_match"}

Reasons == PathReasons \cup ContentReasons

Refusals == {"unreadable", "symlink", "non_regular", "sensitive_path", "binary"}

LimitNames == {"item_limit", "total_limit"}

(***************************************************************************)
(* A file, as far as selection can tell it from another one.               *)
(***************************************************************************)
File == [named     : PathReasons \cup {"none"},    \* selectionReason: what its path answers
         evidence  : ContentReasons \cup {"none"}, \* fileContentMatch: what its text answers
         indexable : BOOLEAN,                      \* Go source or Markdown
         relevance : Nat, added : Nat,             \* words of its path, words its text adds
         penalty   : Nat,                          \* pathPriority
         place     : {"in", "git_ignored", "out_of_scope",
                      "default_excluded", "config_excluded"},
         fault     : Refusals \cup {"none", "io_error"},
         size      : Nat,
         rune      : Nat \ {0},                    \* bytes per character
         secretAt  : Nat,                          \* byte a secret ends at, 0 for none
         go        : BOOLEAN,                      \* Go source of at most 1 MiB
         skeleton  : Nat,                          \* bytes of its declarations, 0 for none
         provides  : SUBSET Identifiers,           \* 0 and {} unless it parses
         refers    : SUBSET Identifiers]

LimitsOf(values) == [items : values, file : values, total : values]

ASSUME PathsAreNumbered == Paths \subseteq Nat /\ IsFiniteSet(Paths)
ASSUME KindsAreFiles == FileKinds \subseteq File
ASSUME CapIsNatural == MaxIndexed \in Nat
ASSUME DefaultsArePositive == DefaultLimits \in LimitsOf(Nat \ {0})
ASSUME OverridesAreLimits == Overrides \subseteq LimitsOf(Int)

VARIABLES
  files,        \* [Paths -> FileKinds]: the working tree
  request,      \* [seeds, overrides]
  phase,        \* where selectPacketContext is
  limits,       \* the limits in force
  considered,   \* the candidates of the first pass
  reached,      \* the import neighbours, once the second pass starts
  pending,      \* what the current pass has not admitted yet
  items, exclusions, truncations,
  omitted,      \* limitOmissions: how many, and the first
  total         \* content bytes of items

vars == <<files, request, phase, limits, considered, reached, pending,
          items, exclusions, truncations, omitted, total>>

Phases == {"request", "direct", "neighbors", "done", "failed"}

Item == [path : Paths, reason : Reasons \cup {"seed", "import_neighbor"},
         bytes : Nat, declared : BOOLEAN, truncated : BOOLEAN]

Decision == [path : Paths,
             reason : Refusals \cup LimitNames \cup
                      {"none", "default_excluded", "config_excluded",
                       "secret_detected", "content_limit", "io_error"}]

-----------------------------------------------------------------------------
(* resolvePacketLimits *)

ValidOverrides(o) ==
  \A limit \in {"items", "file", "total"} :
    o[limit] # 0 => o[limit] \in 1..DefaultLimits[limit]

ResolvedLimits(o) ==
  [limit \in {"items", "file", "total"} |->
     IF o[limit] = 0 THEN DefaultLimits[limit] ELSE o[limit]]

-----------------------------------------------------------------------------
(* inspectSelectedFile *)

\* truncateUTF8 and safeTextPrefix: whole characters within limit bytes.
Cut(file, bytes, limit) ==
  IF bytes <= limit THEN bytes ELSE limit - (limit % file.rune)

HasSecretIn(file, bytes) == file.secretAt \in 1..bytes

PrefixBytes(file, maxFile) == Cut(file, file.size, maxFile)

\* The first verdict on what was cut, before any declarations are rendered.
FirstTruncation(file, remaining, maxFile) ==
  IF PrefixBytes(file, maxFile) > remaining THEN "total_limit"
  ELSE IF PrefixBytes(file, maxFile) < file.size THEN "content_limit" ELSE "none"

\* The whole file is read again, and scanned, when its prefix would be cut.
IsReread(file, remaining, maxFile) ==
  file.go /\ FirstTruncation(file, remaining, maxFile) # "none"

IsDeclared(file, remaining, maxFile) ==
  IsReread(file, remaining, maxFile) /\ file.skeleton > 0

\* Mutant: a rendered skeleton is taken whole, past the per-file limit.
UncutContent(file, remaining, maxFile) ==
  Cut(file,
      IF IsDeclared(file, remaining, maxFile) THEN file.skeleton
      ELSE PrefixBytes(file, maxFile), remaining)

Rendered(file, remaining, maxFile) ==
  IF IsDeclared(file, remaining, maxFile) THEN file.skeleton
  ELSE PrefixBytes(file, maxFile)

\* The bytes that are included: what is rendered, cut by both limits.
ContentBytes(file, remaining, maxFile) ==
  Cut(file, Cut(file, Rendered(file, remaining, maxFile), maxFile), remaining)

\* Mutant: what a rendered skeleton leaves out is not reported as cut.
OnlyCutContent(file, remaining, maxFile) ==
  IF Rendered(file, remaining, maxFile) > ContentBytes(file, remaining, maxFile)
  THEN "content_limit" ELSE "none"

TruncatedBy(file, remaining, maxFile) ==
  IF Cut(file, Rendered(file, remaining, maxFile), maxFile) > remaining THEN "total_limit"
  ELSE IF Rendered(file, remaining, maxFile) > maxFile THEN "content_limit"
  ELSE FirstTruncation(file, remaining, maxFile)

\* Mutant: the whole file is read for its declarations and not scanned.
VerdictOnPrefix(file, remaining, maxFile, countOnly) ==
  IF file.fault # "none" THEN file.fault
  ELSE IF HasSecretIn(file, PrefixBytes(file, maxFile)) THEN "secret_detected"
  ELSE IF ~countOnly /\ remaining <= 0 THEN "total_limit" ELSE "none"

\* Mutant: a file that does not fit is left out rather than cut.
VerdictIfFits(file, remaining, maxFile, countOnly) ==
  IF file.fault # "none" THEN file.fault
  ELSE IF HasSecretIn(file, PrefixBytes(file, maxFile)) THEN "secret_detected"
  ELSE IF countOnly THEN "none"
  ELSE IF PrefixBytes(file, maxFile) > remaining THEN "total_limit"
  ELSE IF IsReread(file, remaining, maxFile) /\ HasSecretIn(file, file.size)
       THEN "secret_detected" ELSE "none"

\* Why the file is refused, "none" when it is not.  A file that is only to be
\* counted is not read past its prefix.
Verdict(file, remaining, maxFile, countOnly) ==
  IF file.fault # "none" THEN file.fault
  ELSE IF HasSecretIn(file, PrefixBytes(file, maxFile)) THEN "secret_detected"
  ELSE IF countOnly THEN "none"
  ELSE IF remaining <= 0 THEN "total_limit"
  ELSE IF IsReread(file, remaining, maxFile) /\ HasSecretIn(file, file.size)
       THEN "secret_detected" ELSE "none"

-----------------------------------------------------------------------------
(* Candidates and their order *)

\* What buildContentIndex would read: neither out of scope nor excluded.
Indexable == {p \in Paths : files[p].place = "in" /\ files[p].indexable}

\* It reads them in path order and stops at its limit.
Indexed ==
  {p \in Indexable : Cardinality({q \in Indexable : q < p}) < MaxIndexed}

\* A file's own text is asked only when its path answers nothing.
FoundBy(file, isRead) ==
  IF file.named = "none" /\ isRead THEN file.evidence ELSE file.named

\* A seed is considered whatever the request matches it by.
Reason(p) ==
  IF p \in request.seeds THEN "seed" ELSE FoundBy(files[p], p \in Indexed)

\* len(mergedMatchWords)
Relevance(p) == files[p].relevance + (IF p \in Indexed THEN files[p].added ELSE 0)

\* Paths git lists, in scope, that the request answers to.
Matched ==
  {p \in Paths : files[p].place \notin {"git_ignored", "out_of_scope"} /\ Reason(p) # "none"}

selectionReasonPriority ==
  [seed |-> 0, selection_rule |-> 1, repository_instruction |-> 1,
   symbol_match |-> 2, title_match |-> 2, task_match |-> 3, import_neighbor |-> 4]

\* Expansion follows only from what the request named or the caller seeded.
Roots == {item \in items : item.reason \in {"seed", "task_match"}}

\* What p supplies of the names the roots use.
Provided(p) == files[p].provides \cap UNION {files[item.path].refers : item \in Roots}

findImportNeighbors ==
  {p \in Paths \ considered : files[p].place = "in" /\ Provided(p) # {}}

Rank(p) ==
  IF p \in reached
  THEN <<selectionReasonPriority["import_neighbor"], -Cardinality(Provided(p)), 0, p>>
  ELSE <<selectionReasonPriority[Reason(p)], -Relevance(p), files[p].penalty, p>>

\* rankCandidates: by reason, then relevance, then kind of path, then path.
RanksBefore(p, q) ==
  \E i \in 1..4 : Rank(p)[i] < Rank(q)[i] /\ \A j \in 1..(i - 1) : Rank(p)[j] = Rank(q)[j]

IsNext(p) == p \in pending /\ \A q \in pending \ {p} : RanksBefore(p, q)

-----------------------------------------------------------------------------
NoOmission == [count |-> 0, first |-> 0]

Init ==
  /\ files \in [Paths -> FileKinds]
  /\ request \in [seeds : SUBSET {p \in Paths : files[p].place # "out_of_scope"},
                  overrides : Overrides]
  /\ phase = "request"
  /\ limits = DefaultLimits
  /\ considered = {} /\ reached = {} /\ pending = {}
  /\ items = {} /\ exclusions = {} /\ truncations = {}
  /\ omitted = [limit \in LimitNames |-> NoOmission]
  /\ total = 0

\* ErrInvalidPacketLimit
RefuseLimits ==
  /\ phase = "request" /\ ~ValidOverrides(request.overrides)
  /\ phase' = "failed"
  /\ UNCHANGED <<files, request, limits, considered, reached, pending, items,
                 exclusions, truncations, omitted, total>>

\* Candidates under an excluded path are recorded, the others are considered.
Collect ==
  /\ phase = "request" /\ ValidOverrides(request.overrides)
  /\ limits' = ResolvedLimits(request.overrides)
  /\ considered' = {p \in Matched : files[p].place = "in"}
  /\ pending' = considered'
  /\ exclusions' = {[path |-> p, reason |-> files[p].place] : p \in Matched \ considered'}
  /\ phase' = "direct"
  /\ UNCHANGED <<files, request, reached, items, truncations, omitted, total>>

-----------------------------------------------------------------------------
(* admit, one candidate at a time: each action is one of its ways out. *)

Remaining == limits.total - total

AtItemLimit == Cardinality(items) >= limits.items

VerdictOn(p) == Verdict(files[p], Remaining, limits.file, AtItemLimit)

Admit(p) == phase \in {"direct", "neighbors"} /\ IsNext(p) /\ pending' = pending \ {p}

\* A read error ends the selection.
AdmitFails(p) ==
  /\ Admit(p) /\ VerdictOn(p) = "io_error"
  /\ phase' = "failed"
  /\ UNCHANGED <<files, request, limits, considered, reached, items, exclusions,
                 truncations, omitted, total>>

Exclude(p) ==
  /\ Admit(p) /\ VerdictOn(p) \notin {"none", "io_error", "total_limit"}
  /\ exclusions' = exclusions \cup {[path |-> p, reason |-> VerdictOn(p)]}
  /\ UNCHANGED <<files, request, phase, limits, considered, reached, items,
                 truncations, omitted, total>>

countOmission(limit, p) ==
  omitted' = [omitted EXCEPT ![limit] =
    [count |-> omitted[limit].count + 1,
     first |-> IF omitted[limit].count = 0 THEN p ELSE omitted[limit].first]]

\* Mutant: an omitted file is not counted once the packet is full.
OmitSilently(p) ==
  /\ Admit(p)
  /\ \/ VerdictOn(p) = "total_limit" /\ countOmission("total_limit", p)
     \/ VerdictOn(p) = "none" /\ AtItemLimit /\ UNCHANGED omitted
  /\ UNCHANGED <<files, request, phase, limits, considered, reached, items,
                 exclusions, truncations, total>>

Omit(p) ==
  /\ Admit(p)
  /\ \/ VerdictOn(p) = "total_limit" /\ countOmission("total_limit", p)
     \/ VerdictOn(p) = "none" /\ AtItemLimit /\ countOmission("item_limit", p)
  /\ UNCHANGED <<files, request, phase, limits, considered, reached, items,
                 exclusions, truncations, total>>

ItemOf(p) ==
  [path |-> p,
   reason |-> IF p \in reached THEN "import_neighbor" ELSE Reason(p),
   bytes |-> ContentBytes(files[p], Remaining, limits.file),
   declared |-> IsDeclared(files[p], Remaining, limits.file),
   truncated |-> ContentBytes(files[p], Remaining, limits.file) < files[p].size]

TruncationsOf(p) ==
  {[path |-> p, reason |-> r] : r \in {TruncatedBy(files[p], Remaining, limits.file)} \ {"none"}}

Include(p) ==
  /\ Admit(p) /\ VerdictOn(p) = "none" /\ ~AtItemLimit
  /\ items' = items \cup {ItemOf(p)}
  /\ truncations' = truncations \cup TruncationsOf(p)
  /\ total' = total + ContentBytes(files[p], Remaining, limits.file)
  /\ UNCHANGED <<files, request, phase, limits, considered, reached, exclusions, omitted>>

HasRoom == Cardinality(items) < limits.items /\ total < limits.total

\* The second pass, over what the first left of the budget.
Expand ==
  /\ phase = "direct" /\ pending = {} /\ HasRoom
  /\ reached' = findImportNeighbors
  /\ pending' = findImportNeighbors
  /\ phase' = "neighbors"
  /\ UNCHANGED <<files, request, limits, considered, items, exclusions, truncations,
                 omitted, total>>

Finish ==
  /\ pending = {}
  /\ phase = "direct" => ~HasRoom
  /\ phase \in {"direct", "neighbors"}
  /\ phase' = "done"
  /\ UNCHANGED <<files, request, limits, considered, reached, pending, items, exclusions,
                 truncations, omitted, total>>

Next ==
  \/ RefuseLimits \/ Collect \/ Expand \/ Finish
  \/ \E p \in Paths : AdmitFails(p) \/ Exclude(p) \/ Omit(p) \/ Include(p)

Spec == Init /\ [][Next]_vars

-----------------------------------------------------------------------------
(* ExplainSelection, asked of the same request without seeds: the verdict on *)
(* one path, with the default limits and an empty packet.                    *)

Included(reason) == [decision |-> "included", reason |-> reason]
Excluded(reason) == [decision |-> "excluded", reason |-> reason]

\* Mutant: a path that matches nothing is reported without running the selection.
ExplainAlone(p) ==
  IF FoundBy(files[p], TRUE) = "none" THEN Excluded("not_selected")
  ELSE Included(FoundBy(files[p], TRUE))

\* The one file asked for is read, whatever the index would have done with it.
\* explainImportNeighbor looks for the path in a selection of the request.
ExplainSelection(p) ==
  LET file == files[p]
      reason == FoundBy(file, TRUE)
      verdict == Verdict(file, DefaultLimits.total, DefaultLimits.file, FALSE) IN
  IF file.place \in {"out_of_scope", "default_excluded"} THEN Excluded(file.place)
  ELSE IF file.fault = "sensitive_path" THEN Excluded("sensitive_path")
  ELSE IF file.place \in {"git_ignored", "config_excluded"} THEN Excluded(file.place)
  ELSE IF reason = "none"
       THEN IF \E item \in items : item.path = p /\ item.reason = "import_neighbor"
            THEN Included("import_neighbor") ELSE Excluded("not_selected")
  ELSE IF verdict # "none" THEN Excluded(verdict) ELSE Included(reason)

-----------------------------------------------------------------------------
TypeOK ==
  /\ files \in [Paths -> FileKinds]
  /\ request \in [seeds : SUBSET Paths, overrides : Overrides]
  /\ phase \in Phases
  /\ limits \in LimitsOf(Nat \ {0})
  /\ considered \in SUBSET Paths /\ reached \in SUBSET Paths /\ pending \in SUBSET Paths
  /\ items \in SUBSET Item
  /\ exclusions \in SUBSET Decision /\ truncations \in SUBSET Decision
  /\ omitted \in [LimitNames -> [count : Nat, first : Nat]]
  /\ total \in Nat

\* However files are cut, rendered and combined, a packet stays inside the
\* limits in force, and those are never wider than the defaults: so many items,
\* none over the per-file limit, and no more content than the packet budget.
WithinLimits ==
  /\ Cardinality(items) <= limits.items
  /\ \A item \in items : item.bytes <= limits.file
  /\ total <= limits.total
  /\ \A limit \in {"items", "file", "total"} : limits[limit] <= DefaultLimits[limit]

PathsOf(records) == {record.path : record \in records}

\* Nothing the request matched or reached disappears: at every moment it is
\* waiting, or it is one item, or one recorded exclusion, or counted once as
\* omitted, and never two of these.
Accounted ==
  phase \in {"direct", "neighbors", "done"} =>
    /\ PathsOf(items) \cap PathsOf(exclusions) = {}
    /\ Cardinality(PathsOf(items)) = Cardinality(items)
    /\ Cardinality(items) + Cardinality(exclusions) + Cardinality(pending)
         + omitted["item_limit"].count + omitted["total_limit"].count
       = Cardinality(Matched \cup reached)

\* A limit never costs a candidate its place in favour of a weaker one: what
\* was included ranks before everything that was omitted, so a tight limit spends
\* itself on the seeds first; and "an import neighbour must never displace a
\* direct match": when any matched file was omitted for a limit, the packet holds
\* no neighbour.
RankRespected ==
  \A limit \in LimitNames, item \in items :
    omitted[limit].count > 0 =>
      /\ RanksBefore(item.path, omitted[limit].first)
      /\ omitted[limit].first \in considered => item.reason # "import_neighbor"

\* "The CLI does not emit content it did not scan", and naming a file never
\* admits it: every item comes from an eligible file without a fault, and no
\* secret lies in the bytes its content was made from.
EmittedWasScanned ==
  \A item \in items :
    LET file == files[item.path] IN
    /\ file.place = "in" /\ file.fault = "none"
    /\ ~HasSecretIn(file, IF item.declared THEN file.size ELSE item.bytes)

\* The audit trail names every file that is not whole, and no other: an item
\* is shorter than its file exactly when a truncation is recorded for it.
TruncatedIffRecorded ==
  /\ \A item \in items : item.truncated <=> item.path \in PathsOf(truncations)
  /\ PathsOf(truncations) \subseteq PathsOf(items)

\* What only a file's text answers, in a file the index did not get to.
Overlooked(p) ==
  files[p].named = "none" /\ files[p].evidence # "none" /\ p \notin Indexed

\* The request `explain` describes, once its packet stands.
IsExplained == phase = "done" /\ request.seeds = {} /\ limits = DefaultLimits

\* `explain` justifies every item: of a request with the default limits and no
\* seeds it reports each file of the packet as included, for the same reason.
\* Excepted are the files the index overlooked at its limit (symbols.go:70): one
\* of these enters a packet as an import neighbour only, and `explain`, which reads
\* it without a limit, answers with its own text.
ExplainMatchesItems ==
  IsExplained =>
    \A item \in items :
      ~Overlooked(item.path) => ExplainSelection(item.path) = Included(item.reason)
=============================================================================
