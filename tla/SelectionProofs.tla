--------------------------- MODULE SelectionProofs ---------------------------
(***************************************************************************)
(* What holds of Selection for every repository, request and limit.        *)
(***************************************************************************)
EXTENDS Selection, FiniteSetTheorems, TLAPS

-----------------------------------------------------------------------------
(* inspectSelectedFile: how much of a file is taken, and what is reported. *)

LEMMA ModBound ==
  ASSUME NEW a \in Nat, NEW b \in Nat \ {0}
  PROVE  a % b \in Nat /\ a % b <= a
  OBVIOUS

\* A cut file is within the limit and never longer than it was.
LEMMA CutBound ==
  ASSUME NEW file \in File, NEW bytes \in Nat, NEW limit \in Nat
  PROVE  /\ Cut(file, bytes, limit) \in Nat
         /\ Cut(file, bytes, limit) <= bytes
         /\ Cut(file, bytes, limit) <= limit
  <1>1. file.rune \in Nat \ {0}
    BY DEF File
  <1>2. limit % file.rune \in Nat /\ limit % file.rune <= limit
    BY <1>1, ModBound
  <1> QED BY <1>2 DEF Cut

LEMMA RenderedType ==
  ASSUME NEW file \in File, NEW remaining \in Nat, NEW maxFile \in Nat
  PROVE  /\ PrefixBytes(file, maxFile) \in Nat
         /\ PrefixBytes(file, maxFile) <= file.size
         /\ PrefixBytes(file, maxFile) <= maxFile
         /\ Rendered(file, remaining, maxFile) \in Nat
  <1>1. file.size \in Nat /\ file.skeleton \in Nat
    BY DEF File
  <1>2. PrefixBytes(file, maxFile) \in Nat /\ PrefixBytes(file, maxFile) <= file.size
          /\ PrefixBytes(file, maxFile) <= maxFile
    BY <1>1, CutBound DEF PrefixBytes
  <1> QED BY <1>1, <1>2 DEF Rendered

\* Whatever is rendered, what is included respects both limits.
LEMMA ContentBound ==
  ASSUME NEW file \in File, NEW remaining \in Nat, NEW maxFile \in Nat
  PROVE  /\ ContentBytes(file, remaining, maxFile) \in Nat
         /\ ContentBytes(file, remaining, maxFile) <= remaining
         /\ ContentBytes(file, remaining, maxFile) <= maxFile
         /\ ContentBytes(file, remaining, maxFile) <= Rendered(file, remaining, maxFile)
  <1>1. Rendered(file, remaining, maxFile) \in Nat
    BY RenderedType
  <1> DEFINE cut == Cut(file, Rendered(file, remaining, maxFile), maxFile)
  <1>2. cut \in Nat /\ cut <= maxFile /\ cut <= Rendered(file, remaining, maxFile)
    BY <1>1, CutBound
  <1>3. Cut(file, cut, remaining) \in Nat /\ Cut(file, cut, remaining) <= cut
          /\ Cut(file, cut, remaining) <= remaining
    BY <1>2, CutBound
  <1>4. ContentBytes(file, remaining, maxFile) = Cut(file, cut, remaining)
    BY DEF ContentBytes
  <1> HIDE DEF cut
  <1> QED BY <1>1, <1>2, <1>3, <1>4

\* A truncation is reported exactly when less than the file is included, through
\* every combination of the two limits and of a skeleton that fits or not.
LEMMA TruncationExact ==
  ASSUME NEW file \in File, NEW remaining \in Nat, NEW maxFile \in Nat
  PROVE  ContentBytes(file, remaining, maxFile) < file.size
           <=> TruncatedBy(file, remaining, maxFile) # "none"
  <1> DEFINE prefix == PrefixBytes(file, maxFile)
             whole == Rendered(file, remaining, maxFile)
             first == FirstTruncation(file, remaining, maxFile)
             cut == Cut(file, whole, maxFile)
             content == ContentBytes(file, remaining, maxFile)
             by == TruncatedBy(file, remaining, maxFile)
  <1>1. file.size \in Nat
    BY DEF File
  <1>2. prefix \in Nat /\ prefix <= file.size /\ prefix <= maxFile /\ whole \in Nat
    BY RenderedType
  <1>3. content \in Nat /\ content <= remaining /\ content <= maxFile /\ content <= whole
    BY ContentBound
  <1>4. whole = prefix \/ first # "none"
    BY DEF Rendered, IsDeclared, IsReread
  <1>5. first = "none" <=> prefix <= remaining /\ prefix = file.size
    BY <1>1, <1>2 DEF FirstTruncation
  <1>6. by = "none" <=> cut <= remaining /\ whole <= maxFile /\ first = "none"
    <2>1. cut \in Nat
      BY <1>2, CutBound
    <2> QED BY <1>2, <2>1 DEF TruncatedBy, FirstTruncation
  <1>7. first = "none" => cut = prefix /\ content = prefix
    BY <1>2, <1>4, <1>5 DEF Cut, ContentBytes
  <1>8. first # "none" => content < file.size
    <2>1. CASE prefix > remaining
      BY <1>1, <1>2, <1>3, <2>1
    <2>2. CASE prefix <= remaining /\ prefix < file.size
      <3>1. file.size > maxFile
        BY <1>1, <2>2 DEF PrefixBytes, Cut
      <3> QED BY <1>1, <1>3, <3>1
    <2> QED BY <1>1, <1>2, <1>5, <2>1, <2>2
  <1> HIDE DEF prefix, whole, first, cut, content, by
  <1>9. by = "none" <=> first = "none"
    BY <1>2, <1>4, <1>5, <1>6, <1>7
  <1>10. content < file.size <=> by # "none"
    BY <1>1, <1>2, <1>3, <1>5, <1>7, <1>8, <1>9
  <1> QED BY <1>10 DEF content, by

\* A file that may be included has room left, no fault, and no secret in the
\* bytes its content comes from.
LEMMA VerdictClean ==
  ASSUME NEW file \in File, NEW remaining \in Int, NEW maxFile \in Nat,
         Verdict(file, remaining, maxFile, FALSE) = "none"
  PROVE  /\ remaining \in Nat /\ remaining > 0 /\ file.fault = "none"
         /\ ~HasSecretIn(file, IF IsDeclared(file, remaining, maxFile) THEN file.size
                                ELSE ContentBytes(file, remaining, maxFile))
  <1>1. /\ file.fault = "none" /\ ~HasSecretIn(file, PrefixBytes(file, maxFile))
        /\ remaining > 0
        /\ ~(IsReread(file, remaining, maxFile) /\ HasSecretIn(file, file.size))
    BY DEF Verdict
  <1>2. remaining \in Nat
    BY <1>1
  <1>3. CASE IsDeclared(file, remaining, maxFile)
    BY <1>1, <1>2, <1>3 DEF IsDeclared
  <1>4. CASE ~IsDeclared(file, remaining, maxFile)
    <2>1. Rendered(file, remaining, maxFile) = PrefixBytes(file, maxFile)
      BY <1>4 DEF Rendered
    <2>2. /\ PrefixBytes(file, maxFile) \in Nat
          /\ ContentBytes(file, remaining, maxFile) \in Nat
          /\ ContentBytes(file, remaining, maxFile) <= PrefixBytes(file, maxFile)
      BY <1>2, <2>1, RenderedType, ContentBound
    <2>3. file.secretAt \in Nat
      BY DEF File
    <2> QED BY <1>1, <1>2, <1>4, <2>2, <2>3 DEF HasSecretIn
  <1> QED BY <1>3, <1>4

-----------------------------------------------------------------------------
(* The inductive invariant. *)

\* Nothing is decided before the limits are resolved.
Fresh ==
  phase = "request" =>
    /\ items = {} /\ exclusions = {} /\ truncations = {} /\ total = 0
    /\ considered = {} /\ reached = {} /\ pending = {}

\* What is waiting was eligible, and each pass waits for its own candidates.
WaitingEligible ==
  /\ \A p \in considered \cup reached : files[p].place = "in"
  /\ \A p \in considered : Reason(p) # "none"
  /\ phase \in {"request", "direct"} => pending \subseteq considered /\ reached = {}
  /\ phase = "neighbors" => pending \subseteq reached
  /\ considered \cap reached = {}

\* No path is admitted twice.
OncePerPath ==
  /\ PathsOf(items) \cap pending = {}
  /\ PathsOf(items) \subseteq considered \cup reached
  /\ PathsOf(truncations) \subseteq PathsOf(items)

Inv == TypeOK /\ IsFiniteSet(items) /\ Fresh /\ WaitingEligible /\ OncePerPath

\* What the index covers depends on the working tree alone.
LEMMA IndexedKept ==
  ASSUME UNCHANGED files
  PROVE  Indexed' = Indexed
  BY DEF Indexed, Indexable

\* A file's reason is one of those the request or the caller can give.
LEMMA ReasonType ==
  ASSUME NEW p, files[p] \in File
  PROVE  Reason(p) \in Reasons \cup {"seed", "none"}
  <1>1. files[p].named \in PathReasons \cup {"none"} /\ files[p].evidence \in ContentReasons \cup {"none"}
    BY DEF File
  <1> QED BY <1>1 DEF Reason, FoundBy, Reasons

LEMMA InitInv == Init => Inv
  <1> SUFFICES ASSUME Init PROVE Inv
    OBVIOUS
  <1>1. TypeOK
    <2>1. files \in [Paths -> FileKinds] /\ request \in [seeds : SUBSET Paths, overrides : Overrides]
      BY DEF Init
    <2>2. limits \in LimitsOf(Nat \ {0})
      BY DefaultsArePositive DEF Init
    <2>3. omitted \in [LimitNames -> [count : Nat, first : Nat]]
      BY DEF Init, NoOmission
    <2> QED BY <2>1, <2>2, <2>3 DEF Init, TypeOK, Phases
  <1>2. IsFiniteSet(items)
    BY FS_EmptySet DEF Init
  <1>3. Fresh /\ WaitingEligible /\ OncePerPath
    BY DEF Init, Fresh, WaitingEligible, OncePerPath, PathsOf
  <1> QED BY <1>1, <1>2, <1>3 DEF Inv

\* What the type invariant says of one candidate and of the budget.
LEMMA CandidateType ==
  ASSUME Inv, NEW p \in pending
  PROVE  p \in Paths /\ files[p] \in File /\ Remaining \in Int /\ limits.file \in Nat
  <1>1. p \in Paths /\ files[p] \in FileKinds /\ total \in Nat
    BY DEF Inv, TypeOK
  <1>2. limits.total \in Nat /\ limits.file \in Nat
    BY DEF Inv, TypeOK, LimitsOf
  <1> QED BY <1>1, <1>2, KindsAreFiles DEF Remaining

\* A candidate that waits was not admitted yet, and its reason is an item's.
LEMMA CandidateReason ==
  ASSUME Inv, NEW p \in pending, phase \in {"direct", "neighbors"}
  PROVE  /\ p \in considered \cup reached /\ p \notin PathsOf(items)
         /\ p \notin reached => Reason(p) \in Reasons \cup {"seed"}
  <1>1. p \in considered \cup reached /\ (p \notin reached => p \in considered)
    BY DEF Inv, WaitingEligible
  <1>2. p \notin PathsOf(items)
    BY DEF Inv, OncePerPath
  <1>3. p \in considered => Reason(p) # "none"
    BY DEF Inv, WaitingEligible
  <1>4. Reason(p) \in Reasons \cup {"seed", "none"}
    BY CandidateType, ReasonType
  <1> QED BY <1>1, <1>2, <1>3, <1>4

LEMMA VerdictType ==
  ASSUME Inv, NEW p \in pending
  PROVE  VerdictOn(p) \in Refusals \cup {"none", "io_error", "secret_detected", "total_limit"}
  <1>1. files[p].fault \in Refusals \cup {"none", "io_error"}
    BY CandidateType DEF File
  <1> QED BY <1>1 DEF VerdictOn, Verdict

\* An included file: its item, its truncations, and what they rest on.
LEMMA IncludedFile ==
  ASSUME Inv, NEW p \in pending, phase \in {"direct", "neighbors"},
         VerdictOn(p) = "none", ~AtItemLimit
  PROVE  /\ Remaining \in Nat /\ ItemOf(p) \in Item
         /\ TruncationsOf(p) \in SUBSET Decision
         /\ ItemOf(p).truncated <=> TruncationsOf(p) # {}
         /\ PathsOf(TruncationsOf(p)) \subseteq {p}
         /\ files[p].place = "in" /\ files[p].fault = "none"
         /\ ~HasSecretIn(files[p], IF ItemOf(p).declared THEN files[p].size ELSE ItemOf(p).bytes)
  <1>1. p \in Paths /\ files[p] \in File /\ Remaining \in Int /\ limits.file \in Nat
    BY CandidateType
  <1>2. Verdict(files[p], Remaining, limits.file, FALSE) = "none"
    BY DEF VerdictOn, Verdict
  <1>3. /\ Remaining \in Nat /\ files[p].fault = "none"
        /\ ~HasSecretIn(files[p], IF IsDeclared(files[p], Remaining, limits.file) THEN files[p].size
                                  ELSE ContentBytes(files[p], Remaining, limits.file))
    BY <1>1, <1>2, VerdictClean
  <1>4. ContentBytes(files[p], Remaining, limits.file) \in Nat
    BY <1>1, <1>3, ContentBound
  <1>5. ItemOf(p) \in Item
    <2>1. files[p].go \in BOOLEAN /\ files[p].size \in Nat /\ files[p].skeleton \in Nat
      BY <1>1 DEF File
    <2>2. IsDeclared(files[p], Remaining, limits.file) \in BOOLEAN
      BY DEF IsDeclared
    <2>3. (IF p \in reached THEN "import_neighbor" ELSE Reason(p))
            \in Reasons \cup {"seed", "import_neighbor"}
      BY CandidateReason
    <2>4. (ContentBytes(files[p], Remaining, limits.file) < files[p].size) \in BOOLEAN
      OBVIOUS
    <2> QED BY <1>1, <1>4, <2>2, <2>3, <2>4 DEF ItemOf, Item
  <1>6. ItemOf(p).truncated <=> TruncatedBy(files[p], Remaining, limits.file) # "none"
    BY <1>1, <1>3, TruncationExact DEF ItemOf
  <1>7. TruncatedBy(files[p], Remaining, limits.file) \in {"none", "content_limit", "total_limit"}
    BY DEF TruncatedBy, FirstTruncation
  <1>8. TruncationsOf(p) \in SUBSET Decision
    BY <1>1, <1>7 DEF TruncationsOf, Decision, LimitNames
  <1>9. ItemOf(p).truncated <=> TruncationsOf(p) # {}
    BY <1>6 DEF TruncationsOf
  <1>10. PathsOf(TruncationsOf(p)) \subseteq {p}
    BY DEF PathsOf, TruncationsOf
  <1>11. files[p].place = "in"
    BY CandidateReason DEF Inv, WaitingEligible
  <1>12. /\ ItemOf(p).declared = IsDeclared(files[p], Remaining, limits.file)
         /\ ItemOf(p).bytes = ContentBytes(files[p], Remaining, limits.file)
    BY DEF ItemOf
  <1> QED BY <1>3, <1>5, <1>8, <1>9, <1>10, <1>11, <1>12

LEMMA NextInv == Inv /\ [Next]_vars => Inv'
  <1> SUFFICES ASSUME Inv, [Next]_vars PROVE Inv'
    OBVIOUS
  <1> USE DEF Inv
  <1>1. CASE RefuseLimits
    <2> USE <1>1 DEF RefuseLimits
    <2>1. TypeOK'
      BY DEF TypeOK, Phases
    <2>2. Fresh' /\ WaitingEligible' /\ OncePerPath'
      BY DEF Fresh, WaitingEligible, OncePerPath, PathsOf, Reason
    <2> QED BY <2>1, <2>2
  <1>2. CASE Collect
    <2> USE <1>2 DEF Collect
    <2>1. limits' \in LimitsOf(Nat \ {0})
      <3>1. request.overrides \in LimitsOf(Int)
        BY OverridesAreLimits DEF TypeOK
      <3>2. \A limit \in {"items", "file", "total"} :
              ResolvedLimits(request.overrides)[limit] \in Nat \ {0}
        BY <3>1, DefaultsArePositive DEF ValidOverrides, ResolvedLimits, LimitsOf
      <3>3. ResolvedLimits(request.overrides)
              = [items |-> ResolvedLimits(request.overrides)["items"],
                 file  |-> ResolvedLimits(request.overrides)["file"],
                 total |-> ResolvedLimits(request.overrides)["total"]]
        BY DEF ResolvedLimits
      <3> QED BY <3>2, <3>3 DEF LimitsOf
    <2>2. considered' \in SUBSET Paths
      BY DEF Matched
    <2>3. exclusions' \in SUBSET Decision
      <3>1. \A p \in Matched \ considered' : files[p] \in File /\ p \in Paths
        BY KindsAreFiles DEF Matched, TypeOK
      <3>2. \A p \in Matched \ considered' :
              files[p].place \in {"default_excluded", "config_excluded"}
        BY <3>1 DEF Matched, File
      <3> QED BY <3>1, <3>2 DEF Decision
    <2>4. TypeOK'
      BY <2>1, <2>2, <2>3 DEF TypeOK, Phases
    <2>5. WaitingEligible'
      BY IndexedKept DEF WaitingEligible, Fresh, Matched, Reason
    <2>6. Fresh' /\ OncePerPath'
      BY DEF Fresh, OncePerPath, PathsOf
    <2> QED BY <2>4, <2>5, <2>6
  <1>3. CASE Expand
    <2> USE <1>3 DEF Expand
    <2>1. /\ reached' \in SUBSET Paths
          /\ \A p \in reached' : p \notin considered /\ files[p].place = "in"
      BY DEF findImportNeighbors
    <2>2. TypeOK'
      BY <2>1 DEF TypeOK, Phases
    <2>3. WaitingEligible'
      BY <2>1, IndexedKept DEF WaitingEligible, Reason
    <2>4. OncePerPath'
      BY <2>1 DEF OncePerPath, WaitingEligible, PathsOf
    <2> QED BY <2>2, <2>3, <2>4 DEF Fresh
  <1>4. CASE Finish
    <2> USE <1>4 DEF Finish
    <2>1. TypeOK'
      BY DEF TypeOK, Phases
    <2>2. Fresh' /\ WaitingEligible' /\ OncePerPath'
      BY IndexedKept DEF Fresh, WaitingEligible, OncePerPath, PathsOf, Reason
    <2> QED BY <2>1, <2>2
  <1>5. ASSUME NEW p \in Paths, Admit(p),
               UNCHANGED <<files, request, limits, considered, reached>>,
               phase' = phase \/ phase' = "failed"
        PROVE  WaitingEligible' /\ Fresh' /\ p \in pending /\ pending' \in SUBSET Paths
    <2>1. p \in pending /\ pending' \subseteq pending /\ phase # "request"
      BY <1>5 DEF Admit, IsNext
    <2> QED BY <1>5, <2>1, IndexedKept DEF WaitingEligible, Fresh, Reason, TypeOK
  <1>6. ASSUME NEW p \in Paths, AdmitFails(p)
        PROVE  Inv'
    <2> USE <1>6 DEF AdmitFails
    <2>1. WaitingEligible' /\ Fresh' /\ pending' \in SUBSET Paths
      BY <1>5
    <2>2. TypeOK'
      BY <2>1 DEF TypeOK, Phases
    <2>3. OncePerPath'
      BY DEF OncePerPath, PathsOf, Admit
    <2> QED BY <2>1, <2>2, <2>3
  <1>7. ASSUME NEW p \in Paths, Exclude(p)
        PROVE  Inv'
    <2> USE <1>7 DEF Exclude
    <2>1. WaitingEligible' /\ Fresh' /\ pending' \in SUBSET Paths /\ p \in pending
      BY <1>5
    <2>2. [path |-> p, reason |-> VerdictOn(p)] \in Decision
      BY <2>1, VerdictType DEF Decision
    <2>3. TypeOK'
      BY <2>1, <2>2 DEF TypeOK, Phases
    <2>4. OncePerPath'
      BY DEF OncePerPath, PathsOf, Admit
    <2> QED BY <2>1, <2>3, <2>4
  <1>8. ASSUME NEW p \in Paths, Omit(p)
        PROVE  Inv'
    <2> USE <1>8 DEF Omit
    <2>1. WaitingEligible' /\ Fresh' /\ pending' \in SUBSET Paths /\ p \in pending
      BY <1>5
    <2>2. ASSUME NEW limit \in LimitNames, countOmission(limit, p)
          PROVE  omitted' \in [LimitNames -> [count : Nat, first : Nat]]
      BY <2>2, PathsAreNumbered DEF countOmission, TypeOK
    <2>3. omitted' \in [LimitNames -> [count : Nat, first : Nat]]
      BY <2>2 DEF LimitNames
    <2>4. TypeOK'
      BY <2>1, <2>3 DEF TypeOK, Phases
    <2>5. OncePerPath'
      BY DEF OncePerPath, PathsOf, Admit
    <2> QED BY <2>1, <2>4, <2>5
  <1>9. ASSUME NEW p \in Paths, Include(p)
        PROVE  Inv'
    <2> USE <1>9 DEF Include
    <2>1. /\ WaitingEligible' /\ Fresh' /\ pending' \in SUBSET Paths /\ p \in pending
          /\ phase \in {"direct", "neighbors"}
      BY <1>5 DEF Admit
    <2>2. /\ Remaining \in Nat /\ ItemOf(p) \in Item
          /\ TruncationsOf(p) \in SUBSET Decision /\ PathsOf(TruncationsOf(p)) \subseteq {p}
      BY <2>1, IncludedFile
    <2>3. ContentBytes(files[p], Remaining, limits.file) \in Nat
      BY <2>1, <2>2, CandidateType, ContentBound
    <2>4. TypeOK'
      BY <2>1, <2>2, <2>3 DEF TypeOK, Phases
    <2>5. IsFiniteSet(items')
      BY FS_AddElement
    <2>6. ItemOf(p).path = p
      BY DEF ItemOf
    <2>7. PathsOf(items') = PathsOf(items) \cup {p}
      BY <2>6 DEF PathsOf
    <2>8. PathsOf(truncations') \subseteq PathsOf(truncations) \cup {p}
      BY <2>2 DEF PathsOf
    <2>9. OncePerPath'
      BY <2>1, <2>7, <2>8, CandidateReason DEF OncePerPath, Admit
    <2> QED BY <2>1, <2>4, <2>5, <2>9
  <1>10. CASE UNCHANGED vars
    BY <1>10, IndexedKept DEF vars, TypeOK, Fresh, WaitingEligible, OncePerPath, PathsOf, Reason
  <1> QED BY <1>1, <1>2, <1>3, <1>4, <1>6, <1>7, <1>8, <1>9, <1>10 DEF Next

THEOREM InvHolds == Spec => []Inv
  <1> QED BY InitInv, NextInv, PTL DEF Spec

\* Every variable keeps its type through every selection.
THEOREM SelectionTypeCorrect == Spec => []TypeOK
  <1>1. Inv => TypeOK
    BY DEF Inv
  <1> QED BY <1>1, InvHolds, PTL

\* No sequence of admissions exceeds a limit: a packet never holds more items or
\* more content than was asked for, nor more of one file, whatever is truncated
\* or rendered on the way.
THEOREM LimitsKept == Spec => []WithinLimits
  <1>1. Init => WithinLimits
    <2> SUFFICES ASSUME Init PROVE WithinLimits
      OBVIOUS
    <2>1. items = {} /\ total = 0 /\ limits = DefaultLimits
      BY DEF Init
    <2>2. \A limit \in {"items", "file", "total"} : DefaultLimits[limit] \in Nat
      BY DefaultsArePositive DEF LimitsOf
    <2>3. Cardinality({}) = 0
      BY FS_EmptySet
    <2> QED BY <2>1, <2>2, <2>3 DEF WithinLimits
  <1>2. Inv /\ WithinLimits /\ [Next]_vars => WithinLimits'
    <2> SUFFICES ASSUME Inv, WithinLimits, [Next]_vars PROVE WithinLimits'
      OBVIOUS
    <2>1. CASE Collect
      <3>1. request.overrides \in LimitsOf(Int)
        BY OverridesAreLimits DEF Inv, TypeOK
      <3>2. ASSUME NEW limit \in {"items", "file", "total"}
            PROVE  limits'[limit] \in Nat /\ limits'[limit] <= DefaultLimits[limit]
        <4>1. request.overrides[limit] \in Int /\ DefaultLimits[limit] \in Nat
          BY <3>1, DefaultsArePositive DEF LimitsOf
        <4>2. limits'[limit] = IF request.overrides[limit] = 0 THEN DefaultLimits[limit]
                               ELSE request.overrides[limit]
          BY <2>1 DEF Collect, ResolvedLimits
        <4>3. request.overrides[limit] # 0 => request.overrides[limit] \in 1..DefaultLimits[limit]
          BY <2>1 DEF Collect, ValidOverrides
        <4> QED BY <4>1, <4>2, <4>3
      <3>3. items' = {} /\ total' = 0
        BY <2>1 DEF Collect, Inv, Fresh
      <3>4. Cardinality({}) = 0
        BY FS_EmptySet
      <3> QED BY <3>2, <3>3, <3>4 DEF WithinLimits
    <2>2. ASSUME NEW p \in Paths, Include(p)
          PROVE  WithinLimits'
      <3> DEFINE content == ContentBytes(files[p], Remaining, limits.file)
      <3>1. p \in pending /\ phase \in {"direct", "neighbors"}
        BY <2>2 DEF Include, Admit, IsNext
      <3>2. Remaining \in Nat
        BY <2>2, <3>1, IncludedFile DEF Include
      <3>3. content \in Nat /\ content <= Remaining /\ content <= limits.file
        BY <3>1, <3>2, CandidateType, ContentBound
      <3>4. /\ limits.items \in Nat /\ limits.total \in Nat /\ total \in Nat
            /\ Cardinality(items) \in Nat /\ Cardinality(items) < limits.items
        <4>1. limits.items \in Nat /\ limits.total \in Nat /\ total \in Nat
          BY DEF Inv, TypeOK, LimitsOf
        <4>2. Cardinality(items) \in Nat
          BY FS_CardinalityType DEF Inv
        <4>3. ~(Cardinality(items) >= limits.items)
          BY <2>2 DEF Include, AtItemLimit
        <4> QED BY <4>1, <4>2, <4>3
      <3>5. Cardinality(items') <= limits'.items
        <4>1. items' = items \cup {ItemOf(p)} /\ limits' = limits
          BY <2>2 DEF Include
        <4>2. Cardinality(items \cup {ItemOf(p)}) =
                IF ItemOf(p) \in items THEN Cardinality(items) ELSE Cardinality(items) + 1
          BY FS_AddElement DEF Inv
        <4> QED BY <3>4, <4>1, <4>2
      <3>6. ItemOf(p).bytes = content
        BY DEF ItemOf
      <3>7. \A item \in items' : item.bytes <= limits'.file
        BY <2>2, <3>3, <3>6 DEF WithinLimits, Include
      <3>8. total' = total + content
        BY <2>2 DEF Include
      <3> HIDE DEF content
      <3>9. total' <= limits'.total
        BY <2>2, <3>3, <3>4, <3>8 DEF Remaining, Include
      <3> QED BY <2>2, <3>5, <3>7, <3>9 DEF WithinLimits, Include
    <2>3. CASE UNCHANGED <<items, total, limits>>
      BY <2>3 DEF WithinLimits
    <2> QED BY <2>1, <2>2, <2>3
        DEF Next, vars, RefuseLimits, Expand, Finish, AdmitFails, Exclude, Omit
  <1> QED BY <1>1, <1>2, InvHolds, PTL DEF Spec

\* No item, seed or not, comes from a file the rules refuse, and none carries a
\* byte of a file read no further than before its secret: a prefix is scanned as
\* a prefix, a file rendered as declarations is scanned whole.
THEOREM NothingUnscanned == Spec => []EmittedWasScanned
  <1>1. Init => EmittedWasScanned
    BY DEF Init, EmittedWasScanned
  <1>2. Inv /\ EmittedWasScanned /\ [Next]_vars => EmittedWasScanned'
    <2> SUFFICES ASSUME Inv, EmittedWasScanned, [Next]_vars PROVE EmittedWasScanned'
      OBVIOUS
    <2>1. ASSUME NEW p \in Paths, Include(p)
          PROVE  EmittedWasScanned'
      <3>1. /\ files[p].place = "in" /\ files[p].fault = "none"
            /\ ~HasSecretIn(files[p], IF ItemOf(p).declared THEN files[p].size ELSE ItemOf(p).bytes)
        BY <2>1, IncludedFile DEF Include, Admit, IsNext
      <3>2. ItemOf(p).path = p
        BY DEF ItemOf
      <3>3. items' = items \cup {ItemOf(p)} /\ files' = files
        BY <2>1 DEF Include
      <3> QED BY <3>1, <3>2, <3>3 DEF EmittedWasScanned
    <2>2. CASE UNCHANGED <<files, items>>
      BY <2>2 DEF EmittedWasScanned
    <2> QED BY <2>1, <2>2
        DEF Next, vars, RefuseLimits, Collect, Expand, Finish, AdmitFails, Exclude, Omit
  <1> QED BY <1>1, <1>2, InvHolds, PTL DEF Spec

\* The truncations of a packet name exactly the items that are not whole files.
THEOREM TruncationsExact == Spec => []TruncatedIffRecorded
  <1>1. Init => TruncatedIffRecorded
    BY DEF Init, TruncatedIffRecorded, PathsOf
  <1>2. Inv /\ TruncatedIffRecorded /\ [Next]_vars => TruncatedIffRecorded'
    <2> SUFFICES ASSUME Inv, TruncatedIffRecorded, [Next]_vars PROVE TruncatedIffRecorded'
      OBVIOUS
    <2>1. ASSUME NEW p \in Paths, Include(p)
          PROVE  TruncatedIffRecorded'
      <3>1. /\ p \notin PathsOf(items) /\ (ItemOf(p).truncated <=> TruncationsOf(p) # {})
            /\ PathsOf(TruncationsOf(p)) \subseteq {p}
        BY <2>1, IncludedFile, CandidateReason DEF Include, Admit, IsNext
      <3>2. ItemOf(p).path = p
        BY DEF ItemOf
      <3>3. items' = items \cup {ItemOf(p)} /\ truncations' = truncations \cup TruncationsOf(p)
        BY <2>1 DEF Include
      <3>4. /\ PathsOf(truncations') = PathsOf(truncations) \cup PathsOf(TruncationsOf(p))
            /\ PathsOf(items') = PathsOf(items) \cup {p}
        BY <3>2, <3>3 DEF PathsOf
      <3>5. p \in PathsOf(TruncationsOf(p)) <=> ItemOf(p).truncated
        BY <3>1 DEF PathsOf
      <3>6. p \notin PathsOf(truncations)
        BY <3>1 DEF Inv, OncePerPath
      <3>7. ASSUME NEW item \in items'
            PROVE  item.truncated <=> item.path \in PathsOf(truncations')
        <4>1. CASE item = ItemOf(p)
          BY <3>2, <3>4, <3>5, <3>6, <4>1
        <4>2. CASE item \in items
          <5>1. item.path # p
            BY <3>1, <4>2 DEF PathsOf
          <5> QED BY <3>1, <3>4, <4>2, <5>1 DEF TruncatedIffRecorded
        <4> QED BY <3>3, <3>7, <4>1, <4>2
      <3> QED BY <3>1, <3>4, <3>7 DEF TruncatedIffRecorded
    <2>2. CASE UNCHANGED <<items, truncations>>
      BY <2>2 DEF TruncatedIffRecorded, PathsOf
    <2> QED BY <2>1, <2>2
        DEF Next, vars, RefuseLimits, Collect, Expand, Finish, AdmitFails, Exclude, Omit
  <1> QED BY <1>1, <1>2, InvHolds, PTL DEF Spec

-----------------------------------------------------------------------------
(* What the second pass rests on: who was considered, and why each item is    *)
(* there.                                                                     *)

Running == phase \in {"direct", "neighbors", "done"}

ItemStands(item) ==
  /\ item.path \in Paths
  /\ item.reason = IF item.path \in reached THEN "import_neighbor" ELSE Reason(item.path)
  /\ Verdict(files[item.path], limits.total, limits.file, FALSE) = "none"

Standing ==
  /\ Running => considered = {p \in Matched : files[p].place = "in"}
  /\ phase = "request" => \A limit \in LimitNames : omitted[limit].count = 0
  /\ \A item \in items : ItemStands(item)

\* With more of the budget left a file that is taken is still taken.
LEMMA VerdictGrows ==
  ASSUME NEW file \in File, NEW remaining \in Int, NEW budget \in Nat, NEW maxFile \in Nat,
         remaining <= budget, Verdict(file, remaining, maxFile, FALSE) = "none"
  PROVE  Verdict(file, budget, maxFile, FALSE) = "none"
  <1>1. /\ file.fault = "none" /\ ~HasSecretIn(file, PrefixBytes(file, maxFile))
        /\ remaining > 0
        /\ ~(IsReread(file, remaining, maxFile) /\ HasSecretIn(file, file.size))
    BY DEF Verdict
  <1>2. PrefixBytes(file, maxFile) \in Nat /\ file.size \in Nat
    BY RenderedType, <1>1 DEF File
  <1>3. IsReread(file, budget, maxFile) => IsReread(file, remaining, maxFile)
    BY <1>1, <1>2 DEF IsReread, FirstTruncation
  <1> QED BY <1>1, <1>3 DEF Verdict

LEMMA InitStanding == Init => Standing
  BY DEF Init, Standing, Running, NoOmission

LEMMA NextStanding == Inv /\ Standing /\ [Next]_vars => Standing'
  <1> SUFFICES ASSUME Inv, Standing, [Next]_vars PROVE Standing'
    OBVIOUS
  <1>1. CASE RefuseLimits
    BY <1>1 DEF RefuseLimits, Inv, Fresh, Standing, Running
  <1>2. CASE Collect
    <2>1. items' = {} /\ phase' = "direct"
      BY <1>2 DEF Collect, Inv, Fresh
    <2>2. considered' = {p \in Matched' : files'[p].place = "in"}
      BY <1>2, IndexedKept DEF Collect, Matched, Reason
    <2> QED BY <2>1, <2>2 DEF Standing
  <1>s. ASSUME UNCHANGED <<files, request, considered>> PROVE Matched' = Matched
    BY <1>s, IndexedKept DEF Matched, Reason
  <1>3. CASE Expand
    <2>1. \A item \in items : item.path \in considered /\ item.path \notin reached'
      BY <1>3 DEF Expand, Inv, WaitingEligible, OncePerPath, PathsOf, findImportNeighbors
    <2>2. reached = {}
      BY <1>3 DEF Expand, Inv, WaitingEligible
    <2>3. \A item \in items : ItemStands(item)'
      BY <1>3, <2>1, <2>2, IndexedKept DEF Expand, Standing, ItemStands, Reason
    <2> QED BY <1>3, <1>s, <2>3 DEF Expand, Standing, Running
  <1>4. CASE Finish
    <2>1. \A item \in items : ItemStands(item)'
      BY <1>4, IndexedKept DEF Finish, Standing, ItemStands, Reason
    <2> QED BY <1>4, <1>s, <2>1 DEF Finish, Standing, Running
  <1>5. ASSUME NEW p \in Paths, AdmitFails(p) \/ Exclude(p) \/ Omit(p) PROVE Standing'
    <2>1. \A item \in items : ItemStands(item)'
      BY <1>5, IndexedKept DEF AdmitFails, Exclude, Omit, Standing, ItemStands, Reason
    <2> QED BY <1>5, <1>s, <2>1 DEF AdmitFails, Exclude, Omit, Admit, Standing, Running
  <1>6. ASSUME NEW p \in Paths, Include(p) PROVE Standing'
    <2>1. p \in pending /\ phase \in {"direct", "neighbors"}
      BY <1>6 DEF Include, Admit, IsNext
    <2>2. /\ files[p] \in File /\ Remaining \in Int /\ limits.file \in Nat
          /\ limits.total \in Nat /\ total \in Nat
      BY <2>1, CandidateType DEF Inv, TypeOK, LimitsOf
    <2>3. Remaining <= limits.total
      BY <2>2 DEF Remaining
    <2>4. Verdict(files[p], Remaining, limits.file, FALSE) = "none"
      BY <1>6 DEF Include, VerdictOn, Verdict
    <2>5. Verdict(files[p], limits.total, limits.file, FALSE) = "none"
      BY <2>2, <2>3, <2>4, VerdictGrows
    <2>6. /\ ItemOf(p).path = p
          /\ ItemOf(p).reason = IF p \in reached THEN "import_neighbor" ELSE Reason(p)
      BY DEF ItemOf
    <2>7. ItemStands(ItemOf(p))
      BY <2>5, <2>6 DEF ItemStands
    <2>8. \A item \in items \cup {ItemOf(p)} : ItemStands(item)
      BY <2>7 DEF Standing
    <2>9. items' = items \cup {ItemOf(p)} /\ UNCHANGED <<files, request, reached, limits>>
      BY <1>6 DEF Include
    <2>10. ASSUME NEW item \in items' PROVE ItemStands(item)'
      BY <2>8, <2>9, <2>10, IndexedKept DEF ItemStands, Reason
    <2> QED BY <1>6, <1>s, <2>1, <2>10 DEF Include, Standing, Running
  <1>7. CASE UNCHANGED vars
    <2>1. \A item \in items : ItemStands(item)'
      BY <1>7, IndexedKept DEF vars, Standing, ItemStands, Reason
    <2> QED BY <1>7, <1>s, <2>1 DEF vars, Standing, Running
  <1> QED BY <1>1, <1>2, <1>3, <1>4, <1>5, <1>6, <1>7 DEF Next

\* What `explain` says of a file of the packet is why the file is in it, unless
\* the index stopped short of what the file's own text answers.
THEOREM ExplainJustifiesItems == Spec => []ExplainMatchesItems
  <1>1. Inv /\ Standing => ExplainMatchesItems
    <2> SUFFICES ASSUME Inv, Standing, IsExplained,
                        NEW item \in items, ~Overlooked(item.path)
                 PROVE  ExplainSelection(item.path) = Included(item.reason)
      BY DEF ExplainMatchesItems
    <2> DEFINE file == files[item.path]
               found == FoundBy(file, item.path \in Indexed)
    <2>1. /\ phase = "done" /\ item.path \in Paths /\ item.path \in considered \cup reached
          /\ item.reason = IF item.path \in reached THEN "import_neighbor" ELSE found
          /\ Verdict(file, DefaultLimits.total, DefaultLimits.file, FALSE) = "none"
      BY DEF IsExplained, Standing, ItemStands, Inv, OncePerPath, PathsOf, Reason
    <2>2. file.place = "in" /\ file.fault = "none"
      BY <2>1 DEF Inv, WaitingEligible, Verdict
    <2>s. Reason(item.path) = found
      BY DEF IsExplained, Reason
    <2>f. FoundBy(file, TRUE) = found
      BY DEF Overlooked, FoundBy
    <2>3. CASE item.path \in reached
      <3>1. item.path \notin considered
        BY <2>3 DEF Inv, WaitingEligible
      <3>2. considered = {p \in Matched : files[p].place = "in"}
        BY <2>1 DEF Standing, Running
      <3>3. found = "none"
        BY <2>1, <2>2, <2>s, <3>1, <3>2 DEF Matched
      <3> QED BY <2>1, <2>2, <2>3, <2>f, <3>3 DEF ExplainSelection
    <2>4. CASE item.path \notin reached
      <3>1. found # "none"
        BY <2>1, <2>4, <2>s DEF Inv, WaitingEligible
      <3> QED BY <2>1, <2>2, <2>4, <2>f, <3>1 DEF ExplainSelection
    <2> QED BY <2>3, <2>4
  <1> QED BY <1>1, InitInv, InitStanding, NextInv, NextStanding, PTL DEF Spec

-----------------------------------------------------------------------------
(* Ranks: what is admitted comes before what waits, and once something is     *)
(* omitted for a limit that limit stays reached.                              *)

LimitReached(limit) ==
  IF limit = "item_limit" THEN AtItemLimit ELSE Remaining <= 0

Ranked ==
  /\ \A item \in items, q \in pending : RanksBefore(item.path, q)
  /\ \A limit \in LimitNames :
       omitted[limit].count > 0 =>
         /\ LimitReached(limit)
         /\ \A item \in items : RanksBefore(item.path, omitted[limit].first)
         /\ omitted[limit].first \in considered => reached = {}

LEMMA InitRanked == Init => Ranked
  BY DEF Init, Ranked, NoOmission

\* The order of two paths is that of their ranks.
LEMMA OrderKept ==
  ASSUME NEW p, NEW q, Rank(p)' = Rank(p), Rank(q)' = Rank(q)
  PROVE  RanksBefore(p, q)' <=> RanksBefore(p, q)
  BY DEF RanksBefore

\* Only the second pass reads the roots, which it does not change.
LEMMA RankKept ==
  ASSUME Inv, UNCHANGED <<files, request, reached>>, NEW p \in Paths,
         items' = items \/ Include(p), NEW x
  PROVE  Rank(x)' = Rank(x)
  <1>1. CASE items' = items
    BY <1>1, IndexedKept DEF Rank, Reason, Relevance, Provided, Roots
  <1>2. CASE Include(p) /\ phase = "direct"
    BY <1>2, IndexedKept DEF Inv, WaitingEligible, Rank, Reason, Relevance
  <1>3. CASE Include(p) /\ phase = "neighbors"
    <2>1. p \in reached
      BY <1>3 DEF Include, Admit, IsNext, Inv, WaitingEligible
    <2>2. ItemOf(p).reason = "import_neighbor" /\ items' = items \cup {ItemOf(p)}
      BY <1>3, <2>1 DEF Include, ItemOf
    <2>3. Roots' = Roots
      BY <2>2 DEF Roots
    <2> QED BY <2>3, IndexedKept DEF Rank, Reason, Relevance, Provided
  <1> QED BY <1>1, <1>2, <1>3 DEF Include, Admit

LEMMA NextRanked == Inv /\ Standing /\ Ranked /\ [Next]_vars => Ranked'
  <1> SUFFICES ASSUME Inv, Standing, Ranked, [Next]_vars PROVE Ranked'
    OBVIOUS
  <1>0. /\ \A limit \in LimitNames : omitted[limit].count \in Nat
        /\ total \in Nat /\ limits.total \in Nat /\ limits.items \in Nat
        /\ Cardinality(items) \in Nat
    BY FS_CardinalityType DEF Inv, TypeOK, LimitsOf
  <1>1. CASE RefuseLimits
    BY <1>0, <1>1 DEF RefuseLimits, Inv, Fresh, Ranked, Standing
  <1>2. CASE Collect
    BY <1>0, <1>2 DEF Collect, Inv, Fresh, Ranked, Standing
  <1>r. ASSUME UNCHANGED <<files, request, reached, items>>, NEW x, NEW y
        PROVE  RanksBefore(x, y)' <=> RanksBefore(x, y)
    <2>1. Rank(x)' = Rank(x) /\ Rank(y)' = Rank(y)
      BY <1>r, IndexedKept DEF Rank, Reason, Relevance, Provided, Roots
    <2> QED BY <2>1, OrderKept
  <1>l. ASSUME UNCHANGED <<items, limits, total>>, NEW limit PROVE LimitReached(limit)' <=> LimitReached(limit)
    BY <1>l DEF LimitReached, AtItemLimit, Remaining
  <1>u. ASSUME UNCHANGED <<files, request, reached, items, limits, total, considered, omitted>>,
               pending' \subseteq pending
        PROVE  Ranked'
    <2>1. \A item \in items', q \in pending' : RanksBefore(item.path, q)'
      BY <1>u, <1>r DEF Ranked
    <2>2. ASSUME NEW limit \in LimitNames, omitted'[limit].count > 0
          PROVE  /\ LimitReached(limit)'
                 /\ \A item \in items' : RanksBefore(item.path, omitted[limit].first)'
                 /\ omitted'[limit].first \in considered' => reached' = {}
      BY <1>u, <1>r, <1>l, <2>2 DEF Ranked
    <2> QED BY <1>u, <2>1, <2>2 DEF Ranked, RanksBefore
  <1>3. CASE Expand
    <2>1. ASSUME NEW limit \in LimitNames PROVE ~(omitted[limit].count > 0)
      <3>1. ~AtItemLimit /\ ~(Remaining <= 0)
        BY <1>0, <1>3 DEF Expand, HasRoom, AtItemLimit, Remaining
      <3> QED BY <3>1 DEF Ranked, LimitReached
    <2>2. ASSUME NEW item \in items, NEW q \in reached' PROVE RanksBefore(item.path, q)'
      <3>1. item.path \in considered /\ item.path \notin reached' /\ item.path \in Paths
        BY <1>3 DEF Expand, Inv, TypeOK, WaitingEligible, OncePerPath, PathsOf, findImportNeighbors
      <3>2. Reason(item.path) \in Reasons \cup {"seed"}
        <4>1. files[item.path] \in File
          BY <3>1, KindsAreFiles DEF Inv, TypeOK
        <4>2. Reason(item.path) \in Reasons \cup {"seed", "none"}
          BY <4>1, ReasonType
        <4> QED BY <3>1, <4>2 DEF Inv, WaitingEligible
      <3>3. selectionReasonPriority[Reason(item.path)] < selectionReasonPriority["import_neighbor"]
        BY <3>2 DEF selectionReasonPriority, Reasons, PathReasons, ContentReasons
      <3>4. Rank(item.path)'[1] = selectionReasonPriority[Reason(item.path)]
        BY <1>3, <3>1, IndexedKept DEF Expand, Rank, Reason, Relevance
      <3>5. Rank(q)'[1] = selectionReasonPriority["import_neighbor"]
        BY <2>2 DEF Rank
      <3> QED BY <3>3, <3>4, <3>5 DEF RanksBefore
    <2> QED BY <1>3, <2>1, <2>2 DEF Expand, Ranked
  <1>4. CASE Finish
    BY <1>4, <1>u DEF Finish
  <1>5. ASSUME NEW p \in Paths, AdmitFails(p) \/ Exclude(p) PROVE Ranked'
    BY <1>5, <1>u DEF AdmitFails, Exclude, Admit
  <1>6. ASSUME NEW p \in Paths, Omit(p) PROVE Ranked'
    <2>1. p \in pending /\ phase \in {"direct", "neighbors"} /\ pending' \subseteq pending
      BY <1>6 DEF Omit, Admit, IsNext
    <2>2. UNCHANGED <<files, request, reached, items, limits, total, considered>>
      BY <1>6 DEF Omit
    <2>3. PICK limit \in LimitNames : LimitReached(limit) /\ countOmission(limit, p)
      <3>1. CASE VerdictOn(p) = "total_limit" /\ countOmission("total_limit", p)
        <4>1. files[p].fault # "total_limit"
          BY <2>1, CandidateType DEF File, Refusals
        <4>2. Remaining <= 0
          BY <3>1, <4>1 DEF VerdictOn, Verdict
        <4> QED BY <3>1, <4>2 DEF LimitNames, LimitReached
      <3>2. CASE AtItemLimit /\ countOmission("item_limit", p)
        BY <3>2 DEF LimitNames, LimitReached
      <3> QED BY <1>6, <3>1, <3>2 DEF Omit
    <2>4. p \in considered => reached = {}
      BY <2>1 DEF Inv, WaitingEligible
    <2>5. \A item \in items : RanksBefore(item.path, p)
      BY <2>1 DEF Ranked
    <2>6. ASSUME NEW other \in LimitNames, omitted'[other].count > 0
          PROVE  /\ LimitReached(other)
                 /\ \A item \in items : RanksBefore(item.path, omitted'[other].first)
                 /\ omitted'[other].first \in considered => reached = {}
      <3>1. CASE other # limit
        <4>1. omitted'[other] = omitted[other]
          BY <2>3, <3>1 DEF countOmission, Inv, TypeOK
        <4> QED BY <2>6, <4>1 DEF Ranked
      <3>2. CASE other = limit
        <4>1. omitted'[limit].first = IF omitted[limit].count = 0 THEN p ELSE omitted[limit].first
          BY <2>3 DEF countOmission, Inv, TypeOK
        <4>2. omitted[limit].count # 0 => omitted[limit].count > 0
          BY <1>0
        <4> QED BY <2>3, <2>4, <2>5, <3>2, <4>1, <4>2 DEF Ranked
      <3> QED BY <3>1, <3>2
    <2>7. ASSUME NEW other \in LimitNames, omitted'[other].count > 0
          PROVE  /\ LimitReached(other)'
                 /\ \A item \in items' : RanksBefore(item.path, omitted[other].first)'
                 /\ omitted'[other].first \in considered' => reached' = {}
      <3>1. LimitReached(other)' <=> LimitReached(other)
        BY <1>l, <2>2
      <3>2. ASSUME NEW item \in items' PROVE RanksBefore(item.path, omitted[other].first)'
        <4>1. RanksBefore(item.path, omitted'[other].first)
          BY <2>2, <2>6, <2>7, <3>2
        <4>2. PICK x : x = omitted'[other].first
          OBVIOUS
        <4>3. PICK y : y = item.path
          OBVIOUS
        <4>4. RanksBefore(y, x)' <=> RanksBefore(y, x)
          BY <1>r, <2>2
        <4> QED BY <4>1, <4>2, <4>3, <4>4 DEF RanksBefore
      <3> QED BY <2>2, <2>6, <2>7, <3>1, <3>2
    <2>8. ASSUME NEW item \in items', NEW q \in pending' PROVE RanksBefore(item.path, q)'
      BY <1>r, <2>1, <2>2, <2>8 DEF Ranked
    <2> QED BY <2>7, <2>8 DEF Ranked
  <1>7. ASSUME NEW p \in Paths, Include(p) PROVE Ranked'
    <2>1. p \in pending /\ phase \in {"direct", "neighbors"}
      BY <1>7 DEF Include, Admit, IsNext
    <2>2. /\ items' = items \cup {ItemOf(p)} /\ ItemOf(p).path = p
          /\ pending' = pending \ {p} /\ UNCHANGED <<files, request, reached, omitted>>
      BY <1>7 DEF Include, Admit, ItemOf
    <2>3. ASSUME NEW limit \in LimitNames PROVE ~(omitted[limit].count > 0)
      <3>1. Verdict(files[p], Remaining, limits.file, FALSE) = "none"
        BY <1>7 DEF Include, VerdictOn, Verdict
      <3>2. Remaining > 0 /\ ~AtItemLimit /\ Remaining \in Int
        BY <1>7, <2>1, <3>1, CandidateType DEF Include, Verdict
      <3> QED BY <3>2 DEF Ranked, LimitReached
    <2>4. ASSUME NEW item \in items', NEW q \in pending' PROVE RanksBefore(item.path, q)'
      <3>1. RanksBefore(item.path, q)
        BY <1>7, <2>2, <2>4 DEF Ranked, Include, Admit, IsNext
      <3>2. Rank(item.path)' = Rank(item.path) /\ Rank(q)' = Rank(q)
        BY <1>7, <2>2, RankKept
      <3> QED BY <3>1, <3>2, OrderKept
    <2> QED BY <2>2, <2>3, <2>4 DEF Ranked
  <1>8. CASE UNCHANGED vars
    BY <1>8, <1>u DEF vars
  <1> QED BY <1>1, <1>2, <1>3, <1>4, <1>5, <1>6, <1>7, <1>8 DEF Next

\* However tight the limits, what is left out for one ranks after everything
\* taken, and no neighbour displaces a direct match.
THEOREM LimitsSpareTheBest == Spec => []RankRespected
  <1>1. Inv /\ Standing /\ Ranked => RankRespected
    <2> SUFFICES ASSUME Inv, Standing, Ranked, NEW limit \in LimitNames, NEW item \in items,
                        omitted[limit].count > 0
                 PROVE  /\ RanksBefore(item.path, omitted[limit].first)
                        /\ omitted[limit].first \in considered => item.reason # "import_neighbor"
      BY DEF RankRespected
    <2>1. RanksBefore(item.path, omitted[limit].first)
      BY DEF Ranked
    <2>2. ASSUME reached = {} PROVE item.reason # "import_neighbor"
      <3>1. item.path \in Paths /\ item.reason = Reason(item.path)
        BY <2>2 DEF Standing, ItemStands
      <3>2. files[item.path] \in File
        BY <3>1, KindsAreFiles DEF Inv, TypeOK
      <3>3. Reason(item.path) \in Reasons \cup {"seed", "none"}
        BY <3>2, ReasonType
      <3> QED BY <3>1, <3>3 DEF Reasons, PathReasons, ContentReasons
    <2> QED BY <2>1, <2>2 DEF Ranked
  <1> QED BY <1>1, InitInv, InitStanding, InitRanked, NextInv, NextStanding, NextRanked, PTL DEF Spec

-----------------------------------------------------------------------------
(* The books: each candidate is waiting, an item, an exclusion, or counted.   *)

Tally ==
  Cardinality(items) + Cardinality(exclusions) + Cardinality(pending)
    + omitted["item_limit"].count + omitted["total_limit"].count

Balanced ==
  Running =>
    /\ PathsOf(items) \cap PathsOf(exclusions) = {}
    /\ PathsOf(exclusions) \cap pending = {}
    /\ PathsOf(exclusions) \subseteq Matched \cup reached
    /\ Cardinality(PathsOf(items)) = Cardinality(items)
    /\ IsFiniteSet(exclusions) /\ IsFiniteSet(PathsOf(items))
    /\ Tally = Cardinality(Matched \cup reached)

\* The numbers a tally is made of.
LEMMA TallyType ==
  ASSUME Inv, IsFiniteSet(exclusions)
  PROVE  /\ IsFiniteSet(pending) /\ IsFiniteSet(Matched) /\ IsFiniteSet(reached)
         /\ Cardinality(items) \in Nat /\ Cardinality(exclusions) \in Nat
         /\ Cardinality(pending) \in Nat
         /\ \A limit \in LimitNames : omitted[limit].count \in Nat
  <1>1. pending \in SUBSET Paths /\ Matched \in SUBSET Paths /\ reached \in SUBSET Paths
    BY DEF Inv, TypeOK, Matched
  <1>2. IsFiniteSet(pending) /\ IsFiniteSet(Matched) /\ IsFiniteSet(reached)
    BY <1>1, PathsAreNumbered, FS_Subset
  <1> QED BY <1>2, FS_CardinalityType DEF Inv, TypeOK

\* One record per path: as many records as paths.
LEMMA OneRecordEach ==
  ASSUME NEW S, IsFiniteSet(S)
  PROVE  LET records == {[path |-> p, reason |-> files[p].place] : p \in S} IN
         /\ IsFiniteSet(records) /\ Cardinality(records) = Cardinality(S)
         /\ PathsOf(records) = S
  <1> DEFINE records == {[path |-> p, reason |-> files[p].place] : p \in S}
             f == [p \in S |-> [path |-> p, reason |-> files[p].place]]
  <1>1. f \in Bijection(S, records)
    <2>1. f \in [S -> records] /\ \A r \in records : \E p \in S : f[p] = r
      OBVIOUS
    <2>2. \A p, q \in S : f[p] = f[q] => p = q
      OBVIOUS
    <2> QED BY <2>1, <2>2 DEF Bijection, Injection, Surjection, IsInjective
  <1>2. ExistsBijection(S, records)
    BY <1>1 DEF ExistsBijection
  <1>3. PathsOf(records) = S
    <2>1. ASSUME NEW p \in S PROVE \E r \in records : r.path = p
      <3>1. f[p] \in records /\ f[p].path = p
        OBVIOUS
      <3> QED BY <3>1
    <2>2. \A r \in records : r.path \in S
      OBVIOUS
    <2> HIDE DEF records
    <2> QED BY <2>1, <2>2 DEF PathsOf
  <1>4. IsFiniteSet(records) /\ Cardinality(records) = Cardinality(S)
    <2> HIDE DEF records
    <2> QED BY <1>2, FS_Bijection
  <1> QED BY <1>3, <1>4

LEMMA InitBalanced == Init => Balanced
  BY DEF Init, Balanced, Running

LEMMA NextBalanced == Inv /\ Standing /\ Balanced /\ [Next]_vars => Balanced'
  <1> SUFFICES ASSUME Inv, Standing, Balanced, [Next]_vars PROVE Balanced'
    OBVIOUS
  <1>m. ASSUME UNCHANGED <<files, request>> PROVE Matched' = Matched
    BY <1>m, IndexedKept DEF Matched, Reason
  <1>p. ASSUME NEW S, NEW e PROVE PathsOf(S \cup {e}) = PathsOf(S) \cup {e.path}
    BY DEF PathsOf
  <1>1. CASE RefuseLimits
    BY <1>1 DEF RefuseLimits, Balanced, Running
  <1>2. CASE Collect
    <2> DEFINE left == Matched \ considered'
    <2>1. /\ items' = {} /\ reached' = {} /\ pending' = considered' /\ considered' \subseteq Matched
          /\ exclusions' = {[path |-> p, reason |-> files[p].place] : p \in left}
          /\ omitted' = omitted /\ \A limit \in LimitNames : omitted[limit].count = 0
      BY <1>2 DEF Collect, Inv, Fresh, Standing
    <2>2. IsFiniteSet(Matched)
      <3>1. Matched \in SUBSET Paths
        BY DEF Matched
      <3> QED BY <3>1, PathsAreNumbered, FS_Subset
    <2>3. /\ IsFiniteSet(left) /\ Cardinality(left) = Cardinality(Matched) - Cardinality(considered')
          /\ Cardinality(Matched) \in Nat /\ Cardinality(considered') \in Nat
      <3>1. Matched \cap considered' = considered'
        BY <2>1
      <3>2. IsFiniteSet(considered')
        BY <2>1, <2>2, FS_Subset
      <3> QED BY <2>2, <3>1, <3>2, FS_Difference, FS_CardinalityType
    <2>4. /\ IsFiniteSet(exclusions') /\ Cardinality(exclusions') = Cardinality(left)
          /\ PathsOf(exclusions') = left
      BY <2>1, <2>3, OneRecordEach
    <2>5. PathsOf(items') = {}
      BY <2>1 DEF PathsOf
    <2>6. Matched' = Matched
      BY <1>2, <1>m DEF Collect
    <2>7. Cardinality({}) = 0 /\ IsFiniteSet({})
      BY FS_EmptySet
    <2>8. Tally' = Cardinality(Matched)
      BY <2>1, <2>3, <2>4, <2>7 DEF Tally, LimitNames
    <2>9. PathsOf(items)' = {} /\ PathsOf(exclusions)' = left
      BY <2>4, <2>5 DEF PathsOf
    <2>10. Matched' \cup reached' = Matched
      BY <2>1, <2>6
    <2> QED BY <2>1, <2>4, <2>7, <2>8, <2>9, <2>10 DEF Balanced
  <1>3. CASE Expand
    <2>1. /\ Running /\ reached = {} /\ pending = {} /\ pending' = reached'
          /\ considered = {p \in Matched : files[p].place = "in"}
          /\ \A p \in reached' : p \in Paths /\ p \notin considered /\ files[p].place = "in"
      BY <1>3 DEF Expand, Running, Inv, WaitingEligible, Standing, findImportNeighbors
    <2>2. Matched' = Matched /\ Matched \cap reached' = {}
      BY <1>3, <1>m, <2>1 DEF Expand
    <2>3. /\ IsFiniteSet(exclusions) /\ IsFiniteSet(Matched) /\ IsFiniteSet(reached')
          /\ PathsOf(exclusions) \subseteq Matched
      <3>1. IsFiniteSet(exclusions) /\ PathsOf(exclusions) \subseteq Matched
        BY <2>1 DEF Balanced
      <3>2. reached' \in SUBSET Paths
        BY <2>1
      <3> QED BY <3>1, <3>2, TallyType, PathsAreNumbered, FS_Subset
    <2>4. /\ Cardinality(Matched \cup reached') = Cardinality(Matched) + Cardinality(reached')
          /\ Cardinality(Matched) \in Nat /\ Cardinality(reached') \in Nat
      <3>1. Cardinality(Matched) \in Nat /\ Cardinality(reached') \in Nat
        BY <2>3, FS_CardinalityType
      <3>2. Cardinality(Matched \cup reached')
              = Cardinality(Matched) + Cardinality(reached') - Cardinality(Matched \cap reached')
        BY <2>3, FS_Union
      <3>3. Cardinality(Matched \cap reached') = 0
        BY <2>2, FS_EmptySet
      <3> QED BY <3>1, <3>2, <3>3
    <2>5. Tally' = Cardinality(Matched \cup reached')
      <3>1. Tally = Cardinality(Matched)
        BY <2>1 DEF Balanced
      <3>2. Cardinality(pending) = 0
        BY <2>1, FS_EmptySet
      <3>3. /\ Cardinality(items) \in Nat /\ Cardinality(exclusions) \in Nat
            /\ omitted["item_limit"].count \in Nat /\ omitted["total_limit"].count \in Nat
        BY <2>3, TallyType DEF LimitNames
      <3>4. UNCHANGED <<items, exclusions, omitted>>
        BY <1>3 DEF Expand
      <3> QED BY <2>1, <2>4, <3>1, <3>2, <3>3, <3>4 DEF Tally
    <2>6. PathsOf(items)' = PathsOf(items) /\ PathsOf(exclusions)' = PathsOf(exclusions)
      BY <1>3 DEF Expand, PathsOf
    <2>7. /\ PathsOf(exclusions) \cap pending' = {}
          /\ PathsOf(exclusions) \subseteq Matched \cup reached'
      BY <2>1, <2>2, <2>3
    <2> QED BY <1>3, <2>1, <2>2, <2>5, <2>6, <2>7 DEF Expand, Balanced
  <1>4. CASE Finish
    BY <1>4, <1>m DEF Finish, Balanced, Running, Tally, PathsOf
  <1>a. ASSUME NEW p \in Paths, Admit(p)
        PROVE  /\ p \in pending /\ p \in Matched \cup reached /\ Running
               /\ p \notin PathsOf(items) /\ p \notin PathsOf(exclusions)
               /\ IsFiniteSet(pending) /\ IsFiniteSet(pending') /\ pending' \subseteq pending
               /\ p \notin pending'
               /\ Cardinality(pending') = Cardinality(pending) - 1
    <2>1. /\ p \in pending /\ phase \in {"direct", "neighbors"} /\ pending' = pending \ {p}
          /\ pending' \subseteq pending /\ p \notin pending'
      BY <1>a DEF Admit, IsNext
    <2>2. Running /\ p \notin PathsOf(exclusions)
      BY <2>1 DEF Running, Balanced
    <2>3. p \in Matched \cup reached /\ p \notin PathsOf(items)
      BY <2>1, <2>2 DEF Inv, WaitingEligible, OncePerPath, Standing
    <2>4. IsFiniteSet(pending)
      BY <2>2, TallyType DEF Balanced
    <2> QED BY <2>1, <2>2, <2>3, <2>4, FS_RemoveElement
  <1>n. ASSUME Running
        PROVE  /\ Cardinality(items) \in Nat /\ Cardinality(exclusions) \in Nat
               /\ Cardinality(pending) \in Nat
               /\ omitted["item_limit"].count \in Nat /\ omitted["total_limit"].count \in Nat
    BY <1>n, TallyType DEF Balanced, LimitNames
  <1>5. ASSUME NEW p \in Paths, AdmitFails(p) PROVE Balanced'
    BY <1>5 DEF AdmitFails, Balanced, Running
  <1>6. ASSUME NEW p \in Paths, Exclude(p) PROVE Balanced'
    <2> DEFINE record == [path |-> p, reason |-> VerdictOn(p)]
    <2>1. Admit(p) /\ exclusions' = exclusions \cup {record} /\ record.path = p
      BY <1>6 DEF Exclude
    <2>2. UNCHANGED <<files, request, items, omitted, reached>>
      BY <1>6 DEF Exclude
    <2> HIDE DEF record
    <2>3. record \notin exclusions
      BY <1>a, <2>1 DEF PathsOf
    <2>4. /\ IsFiniteSet(exclusions') /\ Cardinality(exclusions') = Cardinality(exclusions) + 1
      BY <1>a, <2>1, <2>3, FS_AddElement DEF Balanced
    <2>5. PathsOf(exclusions)' = PathsOf(exclusions) \cup {p} /\ PathsOf(items)' = PathsOf(items)
      BY <2>1, <2>2 DEF PathsOf
    <2>6. Tally' = Tally
      BY <1>a, <1>n, <2>1, <2>2, <2>4 DEF Tally
    <2>7. Matched' = Matched
      BY <1>m, <2>2
    <2>8. /\ (PathsOf(exclusions) \cup {p}) \cap pending' = {}
          /\ PathsOf(items) \cap (PathsOf(exclusions) \cup {p}) = {}
          /\ PathsOf(exclusions) \cup {p} \subseteq Matched \cup reached
      BY <1>a, <2>1 DEF Balanced
    <2> QED BY <1>a, <2>1, <2>2, <2>4, <2>5, <2>6, <2>7, <2>8 DEF Balanced
  <1>7. ASSUME NEW p \in Paths, Omit(p) PROVE Balanced'
    <2>1. Admit(p) /\ UNCHANGED <<files, request, items, exclusions, reached>>
      BY <1>7 DEF Omit
    <2>2. PICK limit \in LimitNames : countOmission(limit, p)
      BY <1>7 DEF Omit, LimitNames
    <2>3. /\ omitted'[limit].count = omitted[limit].count + 1
          /\ \A other \in LimitNames \ {limit} : omitted'[other].count = omitted[other].count
      BY <2>2 DEF countOmission, Inv, TypeOK
    <2>4. omitted'["item_limit"].count + omitted'["total_limit"].count
            = omitted["item_limit"].count + omitted["total_limit"].count + 1
      BY <1>a, <1>n, <2>1, <2>3 DEF LimitNames
    <2>5. /\ omitted'["item_limit"].count \in Nat /\ omitted'["total_limit"].count \in Nat
      BY <1>a, <1>n, <2>1, <2>3 DEF LimitNames
    <2>6. Tally' = Tally
      BY <1>a, <1>n, <2>1, <2>4, <2>5 DEF Tally
    <2>7. /\ Matched' = Matched
          /\ PathsOf(items)' = PathsOf(items) /\ PathsOf(exclusions)' = PathsOf(exclusions)
      BY <1>m, <2>1 DEF PathsOf
    <2>8. PathsOf(exclusions) \cap pending' = {}
      BY <1>a, <2>1 DEF Balanced
    <2> QED BY <1>a, <2>1, <2>6, <2>7, <2>8 DEF Balanced
  <1>8. ASSUME NEW p \in Paths, Include(p) PROVE Balanced'
    <2>1. /\ Admit(p) /\ items' = items \cup {ItemOf(p)} /\ ItemOf(p).path = p
          /\ UNCHANGED <<files, request, exclusions, omitted, reached>>
      BY <1>8 DEF Include, ItemOf
    <2>2. ItemOf(p) \notin items
      BY <1>a, <2>1 DEF PathsOf
    <2>3. Cardinality(items') = Cardinality(items) + 1
      BY <2>1, <2>2, FS_AddElement DEF Inv
    <2>4. PathsOf(items)' = PathsOf(items) \cup {p} /\ PathsOf(exclusions)' = PathsOf(exclusions)
      BY <2>1 DEF PathsOf
    <2>5. /\ IsFiniteSet(PathsOf(items) \cup {p})
          /\ Cardinality(PathsOf(items) \cup {p}) = Cardinality(PathsOf(items)) + 1
      BY <1>a, <2>1, FS_AddElement DEF Balanced
    <2>6. Cardinality(PathsOf(items)) = Cardinality(items)
      BY <1>a, <2>1 DEF Balanced
    <2>7. Tally' = Tally
      BY <1>a, <1>n, <2>1, <2>3 DEF Tally
    <2>8. Matched' = Matched
      BY <1>m, <2>1
    <2>9. /\ (PathsOf(items) \cup {p}) \cap PathsOf(exclusions) = {}
          /\ PathsOf(exclusions) \cap pending' = {}
      BY <1>a, <2>1 DEF Balanced
    <2> QED BY <1>a, <2>1, <2>3, <2>4, <2>5, <2>6, <2>7, <2>8, <2>9 DEF Balanced
  <1>9. CASE UNCHANGED vars
    BY <1>9, <1>m DEF vars, Balanced, Running, Tally, PathsOf
  <1> QED BY <1>1, <1>2, <1>3, <1>4, <1>5, <1>6, <1>7, <1>8, <1>9 DEF Next

\* Every candidate of the request, and every neighbour reached, is accounted for
\* exactly once, at every moment and for any repository, request and limits.
THEOREM NothingIsLost == Spec => []Accounted
  <1>1. Balanced => Accounted
    BY DEF Balanced, Accounted, Running, Tally
  <1> QED BY <1>1, InitInv, InitStanding, InitBalanced, NextInv, NextStanding, NextBalanced, PTL DEF Spec
=============================================================================
