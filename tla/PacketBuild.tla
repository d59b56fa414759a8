----------------------------- MODULE PacketBuild -----------------------------
(***************************************************************************)
(* Brief: building one packet, by several processes over one repository    *)
(* that the user edits and moves to other commits meanwhile.  Every action *)
(* is one visit to Git or to the file system.  Which files are eligible,   *)
(* and how they are ranked and cut, is module Selection; here a file may   *)
(* be left out for any of its reasons, and what matters is when it is read *)
(* and what of it was scanned.                                             *)
(***************************************************************************)
EXTENDS Integers

CONSTANTS
  Procs,         \* processes that build packets
  Files,         \* candidates of a request, guidance files included
  Guidance,      \* .struktly/direction.md, constraints.md and decisions.md
  CutGoFiles,    \* Go sources over a limit: read whole, for their declarations
  Named,         \* Go and Markdown files whose declarations or heading are matched
  Neighbors,     \* Go files that only what was admitted before leads to
  Slugs,         \* Slugify(task, 72)
  Requests,      \* what callers ask for, see Request
  HeadSecrets,   \* versions of a file with a secret inside the per-file limit
  TailSecrets,   \* versions with one past it
  NoText, NoPacket, Torn,
  HeadReturns,   \* HEAD may come back to a revision it was at before
  MaxBuilds,     \* [Procs -> Nat]: bound on the builds of each process
  MaxMoves, MaxEdits, MaxTicks, MaxStops   \* bounds on the environment

Revisions == 0..MaxMoves
AnyRevision == -1

Request == [slug : Slugs, expected : Revisions \cup {AnyRevision},
            form : {"json", "no_write", "stdout", "mcp"}]

ASSUME BuildBoundsAreNat ==
  /\ MaxBuilds \in [Procs -> Nat]
  /\ MaxMoves \in Nat /\ MaxEdits \in Nat /\ MaxTicks \in Nat /\ MaxStops \in Nat
ASSUME SomeSlug == Slugs # {}
ASSUME FileSetsAreFiles ==
  /\ Guidance \subseteq Files /\ CutGoFiles \subseteq Files \ Guidance
  /\ Named \subseteq Files /\ Neighbors \subseteq Files
ASSUME RequestsAreRequests == Requests \subseteq Request
ASSUME HeadReturnsIsBoolean == HeadReturns \in BOOLEAN

\* A file's text is the version it was read at, and how much of it was read.
Text == [version : 0..MaxEdits, part : {"prefix", "whole"}]

Packet == [revision : Revisions, slug : Slugs,
           items : [Files -> Text \cup {NoText}],
           location : [Files -> 0..MaxEdits \cup {NoText}],   \* provenance.location
           guidance : [Guidance -> Text \cup {NoText}]]

ASSUME NoTextIsNoText == NoText \notin Text
ASSUME NoPacketsAreNoPackets == NoPacket # Torn /\ {NoPacket, Torn} \cap Packet = {}

VARIABLES
  head,     \* the revision HEAD is at
  moves,    \* how often HEAD moved
  work,     \* [Files -> 0..MaxEdits]: the version of each file in the tree
  edits,    \* how many versions there are
  clock,    \* the second it is
  build,    \* [Procs -> Build]: what each process holds in memory
  exports,  \* .struktly/context-packets: one Markdown and one JSON per name
  shared,   \* ghost: the names a second build started to write
  results,  \* [Procs -> Result]: what each caller was told last
  builds,   \* counts the builds of each process, under MaxBuilds
  stops     \* counts under MaxStops

repository == <<head, moves, work, edits, clock>>
buildVars == <<head, moves, work, edits, clock, build, exports, shared, results, builds, stops>>

Names == (0..MaxTicks) \X Slugs

Steps == {"idle", "begun", "reading", "whole", "assembled", "markdown", "json", "readback"}

Build == [step : Steps, request : Request,
          first : Revisions,                \* HEAD when the build began
          now : 0..MaxTicks,
          unread : SUBSET Files,            \* names this pass still has to read
          names : [Files -> 0..MaxEdits \cup {NoText}],   \* and where it read them
          todo : SUBSET Files,              \* candidates not admitted yet
          expanded : BOOLEAN,               \* the second pass has begun
          path : Files \cup {NoText},       \* the Go file being read whole ...
          held : Text \cup {NoText},        \* ... and its scanned prefix
          packet : Packet]

Result == [request : Request, first : Revisions, now : 0..MaxTicks,
           packet : Packet \cup {NoPacket},         \* NoPacket: an error
           text : Packet \cup {NoPacket, Torn}]     \* the Markdown read back

NoRequest == CHOOSE request \in Request : TRUE

EmptyPacket(revision, slug) ==
  [revision |-> revision, slug |-> slug, items |-> [f \in Files |-> NoText],
   location |-> [f \in Files |-> NoText], guidance |-> [g \in Guidance |-> NoText]]

Idle == [step |-> "idle", request |-> NoRequest, first |-> 0, now |-> 0,
         unread |-> {}, names |-> [f \in Files |-> NoText], todo |-> {}, expanded |-> FALSE,
         path |-> NoText, held |-> NoText, packet |-> EmptyPacket(0, NoRequest.slug)]

\* Mutant: an export is named for its second alone.
NameOfSecond(b) == <<b.now, CHOOSE slug \in Slugs : TRUE>>

NameOf(b) == <<b.now, b.request.slug>>

HasSecret(text) ==
  text.version \in HeadSecrets \/ (text.part = "whole" /\ text.version \in TailSecrets)

Failure(request) ==
  [request |-> request, first |-> 0, now |-> 0, packet |-> NoPacket, text |-> NoPacket]

BuildInit ==
  /\ head = 0 /\ moves = 0 /\ edits = 0 /\ clock = 0 /\ stops = 0
  /\ work = [f \in Files |-> 0]
  /\ build = [p \in Procs |-> Idle]
  /\ builds = [p \in Procs |-> 0]
  /\ exports = [name \in Names |-> [md |-> NoPacket, json |-> NoPacket]]
  /\ shared = {}
  /\ results = [p \in Procs |-> Failure(NoRequest)]

-----------------------------------------------------------------------------
(* Brief, one visit to the repository at a time. *)

\* Every other error also ends a build this way: the caller gets no packet.
Fail(p) ==
  /\ results' = [results EXCEPT ![p] = Failure(build[p].request)]
  /\ build' = [build EXCEPT ![p] = Idle]

\* ResolveRepository, and the comparison with the expected revision.
Begin(p, request) ==
  /\ build[p].step = "idle" /\ builds[p] < MaxBuilds[p]
  /\ request.expected \in {AnyRevision, head}
  /\ build' = [build EXCEPT ![p] = [Idle EXCEPT !.step = "begun", !.request = request,
                                                !.first = head]]
  /\ builds' = [builds EXCEPT ![p] = builds[p] + 1]
  /\ UNCHANGED <<repository, exports, shared, results, stops>>

\* ErrRepositoryChanged before anything is read.
BeginRefused(p, request) ==
  /\ build[p].step = "idle"
  /\ request.expected \notin {AnyRevision, head}
  /\ results' = [results EXCEPT ![p] = Failure(request)]
  /\ UNCHANGED <<repository, build, exports, shared, builds, stops>>

\* The scan is over and the time is taken; selectPacketContext resolves HEAD
\* again, and it is this HEAD that the packet will name.
OpenSelection(p) ==
  /\ build[p].step = "begun"
  /\ build' = [build EXCEPT ![p] =
       [@ EXCEPT !.step = "reading", !.now = clock, !.unread = Named \ Neighbors,
                 !.todo = Files \ Neighbors,
                 !.packet = EmptyPacket(head, build[p].request.slug)]]
  /\ UNCHANGED <<repository, exports, shared, results, builds, stops>>

\* buildContentIndex, and findImportNeighbors for the second pass: a file is read
\* for its declared names or its heading, without a scan, before any file of the
\* pass is admitted.
ReadNames(p, f) ==
  /\ build[p].step = "reading" /\ f \in build[p].unread
  /\ build' = [build EXCEPT ![p] =
       [@ EXCEPT !.unread = build[p].unread \ {f},
                 !.names = [build[p].names EXCEPT ![f] = work[f]]]]
  /\ UNCHANGED <<repository, exports, shared, results, builds, stops>>

IsAdmitting(p) == build[p].step = "reading" /\ build[p].unread = {}

\* The second pass, when the first left room.
Expand(p) ==
  /\ IsAdmitting(p) /\ build[p].todo = {} /\ ~build[p].expanded
  /\ build' = [build EXCEPT ![p] =
       [@ EXCEPT !.unread = Named \cap Neighbors, !.todo = Neighbors, !.expanded = TRUE]]
  /\ UNCHANGED <<repository, exports, shared, results, builds, stops>>

\* A file is excluded: a secret in its prefix, a limit, or another exclusion.
LeaveOut(p, f) ==
  /\ IsAdmitting(p) /\ f \in build[p].todo
  /\ build' = [build EXCEPT ![p] = [@ EXCEPT !.todo = build[p].todo \ {f}]]
  /\ UNCHANGED <<repository, exports, shared, results, builds, stops>>

Prefix(f) == [version |-> work[f], part |-> "prefix"]
Whole(f) == [version |-> work[f], part |-> "whole"]

\* An item, and beside it the names it was found by.
Included(packet, f, text, name) ==
  [packet EXCEPT !.items = [@ EXCEPT ![f] = text],
                 !.location = [@ EXCEPT ![f] = IF text = NoText THEN NoText ELSE name]]

\* A clean prefix is the content, or it is held until the whole file is read.
ReadPrefix(p, f) ==
  /\ IsAdmitting(p) /\ f \in build[p].todo
  /\ ~HasSecret(Prefix(f))
  /\ build' = [build EXCEPT ![p] =
       IF f \in CutGoFiles
       THEN [@ EXCEPT !.step = "whole", !.todo = build[p].todo \ {f},
                      !.path = f, !.held = Prefix(f)]
       ELSE [@ EXCEPT !.todo = build[p].todo \ {f},
                      !.packet = Included(build[p].packet, f, Prefix(f), build[p].names[f])]]
  /\ UNCHANGED <<repository, exports, shared, results, builds, stops>>

\* declarationSkeleton: the file is read again, by now perhaps another version.
\* A secret anywhere excludes it; what does not parse is left at its prefix.
ReadWhole(p) ==
  /\ build[p].step = "whole"
  /\ \E text \in IF HasSecret(Whole(build[p].path)) THEN {NoText}
                 ELSE {Whole(build[p].path), build[p].held} :
       build' = [build EXCEPT ![p] =
         [@ EXCEPT !.step = "reading", !.path = NoText, !.held = NoText,
                   !.packet = Included(build[p].packet, build[p].path, text,
                                       build[p].names[build[p].path])]]
  /\ UNCHANGED <<repository, exports, shared, results, builds, stops>>

\* Mutant: a guidance file that was selected is quoted from a read of its own.
AssembleFromDisk(p) ==
  /\ IsAdmitting(p) /\ build[p].todo = {}
  /\ build' = [build EXCEPT ![p] =
       [@ EXCEPT !.step = "assembled",
                 !.packet = [build[p].packet EXCEPT !.guidance =
                   [g \in Guidance |-> IF build[p].packet.items[g] = NoText THEN NoText
                                       ELSE Whole(g)]]]]
  /\ UNCHANGED <<repository, exports, shared, results, builds, stops>>

\* toPacket: the guidance fields are the content of the selected items.
Assemble(p) ==
  /\ IsAdmitting(p) /\ build[p].todo = {}
  /\ build' = [build EXCEPT ![p] =
       [@ EXCEPT !.step = "assembled",
                 !.packet = [build[p].packet EXCEPT !.guidance =
                   [g \in Guidance |-> build[p].packet.items[g]]]]]
  /\ UNCHANGED <<repository, exports, shared, results, builds, stops>>

Deliver(p, text) ==
  /\ results' = [results EXCEPT ![p] =
       [request |-> build[p].request, first |-> build[p].first, now |-> build[p].now,
        packet |-> build[p].packet, text |-> text]]
  /\ build' = [build EXCEPT ![p] = Idle]

\* Mutant: HEAD is not looked at again once the packet is assembled.
RecheckNothing(p) ==
  /\ build[p].step = "assembled"
  /\ IF build[p].request.form = "no_write" THEN Deliver(p, NoPacket)
     ELSE /\ build' = [build EXCEPT ![p] = [@ EXCEPT !.step = "markdown"]]
          /\ UNCHANGED results
  /\ UNCHANGED <<repository, exports, shared, builds, stops>>

\* HEAD is where it was when the build began.
Recheck(p) ==
  /\ build[p].step = "assembled" /\ head = build[p].first
  /\ IF build[p].request.form = "no_write" THEN Deliver(p, NoPacket)
     ELSE /\ build' = [build EXCEPT ![p] = [@ EXCEPT !.step = "markdown"]]
          /\ UNCHANGED results
  /\ UNCHANGED <<repository, exports, shared, builds, stops>>

\* ErrRepositoryChanged: nothing was written.
RecheckRefused(p) ==
  /\ build[p].step = "assembled" /\ head # build[p].first
  /\ Fail(p)
  /\ UNCHANGED <<repository, exports, shared, builds, stops>>

Export(p, file, content) ==
  exports' = [exports EXCEPT ![NameOf(build[p])] = [@ EXCEPT ![file] = content]]

IsTaken(name) == exports[name].md # NoPacket \/ exports[name].json # NoPacket

\* Mutant: the JSON export is written first.
WriteJsonFirst(p) ==
  /\ build[p].step = "markdown"
  /\ Export(p, "json", build[p].packet)
  /\ shared' = shared \cup {name \in {NameOf(build[p])} : IsTaken(name)}
  /\ build' = [build EXCEPT ![p] = [@ EXCEPT !.step = "json"]]
  /\ UNCHANGED <<repository, results, builds, stops>>

\* The name is the second and the request's slug, whoever else has it.
WriteMarkdown(p) ==
  /\ build[p].step = "markdown"
  /\ Export(p, "md", build[p].packet)
  /\ shared' = shared \cup {name \in {NameOf(build[p])} : IsTaken(name)}
  /\ build' = [build EXCEPT ![p] = [@ EXCEPT !.step = "json"]]
  /\ UNCHANGED <<repository, results, builds, stops>>

ReadsBack(p) == build[p].request.form \in {"stdout", "mcp"}

WriteJson(p) ==
  /\ build[p].step = "json"
  /\ Export(p, "json", build[p].packet)
  /\ IF ReadsBack(p)
     THEN /\ build' = [build EXCEPT ![p] = [@ EXCEPT !.step = "readback"]]
          /\ UNCHANGED results
     ELSE Deliver(p, NoPacket)
  /\ UNCHANGED <<repository, shared, builds, stops>>

\* `--stdout` and the MCP tool return the Markdown as they find it on disk.
ReadBack(p) ==
  /\ build[p].step = "readback"
  /\ Deliver(p, exports[NameOf(build[p])].md)
  /\ UNCHANGED <<repository, exports, shared, builds, stops>>

-----------------------------------------------------------------------------
(* Failures, and everybody else. *)

\* A signal, or an error of any system call, between two steps.
Stop(p) ==
  /\ build[p].step # "idle" /\ stops < MaxStops
  /\ Fail(p)
  /\ stops' = stops + 1
  /\ UNCHANGED <<repository, exports, shared, builds>>

\* The same inside os.WriteFile.
Tear(p) ==
  /\ build[p].step \in {"markdown", "json"} /\ stops < MaxStops
  /\ Export(p, IF build[p].step = "markdown" THEN "md" ELSE "json", Torn)
  /\ shared' = IF build[p].step = "markdown"
               THEN shared \cup {name \in {NameOf(build[p])} : IsTaken(name)} ELSE shared
  /\ Fail(p)
  /\ stops' = stops + 1
  /\ UNCHANGED <<repository, builds>>

Edit(f) ==
  /\ edits < MaxEdits
  /\ edits' = edits + 1
  /\ work' = [work EXCEPT ![f] = edits + 1]
  /\ UNCHANGED <<head, moves, clock, build, exports, shared, results, builds, stops>>

\* A commit, a checkout, a pull.
MoveHead ==
  /\ moves < MaxMoves
  /\ moves' = moves + 1
  /\ head' \in IF HeadReturns THEN (0..(moves + 1)) \ {head} ELSE {moves + 1}
  /\ UNCHANGED <<work, edits, clock, build, exports, shared, results, builds, stops>>

Tick ==
  /\ clock < MaxTicks
  /\ clock' = clock + 1
  /\ UNCHANGED <<head, moves, work, edits, build, exports, shared, results, builds, stops>>

BuildStep(p) ==
  \/ OpenSelection(p) \/ Expand(p) \/ ReadWhole(p) \/ Assemble(p)
  \/ Recheck(p) \/ RecheckRefused(p) \/ WriteMarkdown(p) \/ WriteJson(p) \/ ReadBack(p)
  \/ \E f \in Files : ReadNames(p, f) \/ LeaveOut(p, f) \/ ReadPrefix(p, f)

Environment == MoveHead \/ Tick \/ \E f \in Files : Edit(f)

BuildNext ==
  \/ Environment
  \/ \E p \in Procs : BuildStep(p) \/ Stop(p) \/ Tear(p)
  \/ \E p \in Procs, request \in Requests : Begin(p, request) \/ BeginRefused(p, request)

BuildSpec == BuildInit /\ [][BuildNext]_buildVars

-----------------------------------------------------------------------------
ExportPair == [md : Packet \cup {NoPacket, Torn}, json : Packet \cup {NoPacket, Torn}]

BuildTypeOK ==
  /\ head \in Revisions /\ moves \in Revisions
  /\ work \in [Files -> 0..MaxEdits] /\ edits \in 0..MaxEdits
  /\ clock \in 0..MaxTicks
  /\ build \in [Procs -> Build]
  /\ exports \in [Names -> ExportPair]
  /\ shared \in SUBSET Names
  /\ results \in [Procs -> Result]
  /\ builds \in [Procs -> Nat] /\ \A p \in Procs : builds[p] \in 0..MaxBuilds[p]
  /\ stops \in 0..MaxStops

\* What of a version is scanned before any of it is carried.
Scanned(f, version) ==
  [version |-> version, part |-> IF f \in CutGoFiles THEN "whole" ELSE "prefix"]

\* Content was scanned as it was read; the names beside it are of a version that
\* was scanned, or that the tree does not hold any more.
IsClean(packet, tree) ==
  /\ \A f \in Files : packet.items[f] # NoText => ~HasSecret(packet.items[f])
  /\ \A g \in Guidance : packet.guidance[g] # NoText => ~HasSecret(packet.guidance[g])
  /\ \A f \in Files :
       \/ packet.location[f] = NoText \/ packet.location[f] < tree[f]
       \/ packet.location[f] = tree[f] /\ ~HasSecret(Scanned(f, tree[f]))

Outputs ==
  (UNION {{build[p].packet, results[p].packet, results[p].text} : p \in Procs})
    \cup (UNION {{exports[name].md, exports[name].json} : name \in Names})

\* "The CLI does not emit content it did not scan": no content that leaves a
\* build, be it of an item or of a guidance field, returned or exported, was read
\* with a secret in it, whatever the user saves between two reads of a file.
\* The heading or the names an item was found by leave beside it, in
\* provenance.location, and are of an earlier read that nothing scans (selection.go:367).
\* Of these it says less: the scan of the content covers them too, unless the file
\* was saved after they were read.  Then a secret in them does leave.
CarriesOnlyScanned ==
  \A packet \in Outputs \ {NoPacket, Torn} : IsClean(packet, work)

\* "A mismatch fails the command instead of returning a packet for a different
\* revision": what a caller gets names the revision it expected, or else the
\* one that HEAD was at when the command began.
RevisionPinned ==
  \A p \in Procs :
    LET r == results[p] IN
    r.packet # NoPacket =>
      r.packet.revision = IF r.request.expected = AnyRevision THEN r.first
                          ELSE r.request.expected

\* A name that only one build ever wrote holds one packet: its JSON never lies
\* beside a Markdown that is missing, torn or of something else.
SoleExportsAgree ==
  \A name \in Names \ shared :
    exports[name].json \notin {NoPacket, Torn} => exports[name].md = exports[name].json

\* What `--stdout` and the MCP tool read back is the packet they built, unless
\* another build had the same request in the same second.
ReadBackIsOwn ==
  \A p \in Procs :
    LET r == results[p] IN
    r.text # NoPacket /\ <<r.now, r.request.slug>> \notin shared => r.text = r.packet
=============================================================================
