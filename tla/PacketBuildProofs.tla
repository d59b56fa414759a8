-------------------------- MODULE PacketBuildProofs --------------------------
(***************************************************************************)
(* What holds of PacketBuild for any number of processes and files, and    *)
(* however often the user saves, commits or stops a command.               *)
(***************************************************************************)
EXTENDS PacketBuild, FiniteSetTheorems, TLAPS

-----------------------------------------------------------------------------
(* The values an action puts together. *)

LEMMA EmptyPacketIsPacket ==
  ASSUME NEW revision \in Revisions, NEW slug \in Slugs
  PROVE  EmptyPacket(revision, slug) \in Packet
  BY DEF EmptyPacket, Packet

LEMMA NoRequestIsRequest == NoRequest \in Request
  <1>1. PICK slug \in Slugs : TRUE
    BY SomeSlug
  <1>2. [slug |-> slug, expected |-> AnyRevision, form |-> "json"] \in Request
    BY DEF Request
  <1> QED BY <1>2 DEF NoRequest

LEMMA ZeroIsInBounds == 0 \in Revisions /\ 0 \in 0..MaxTicks /\ 0 \in 0..MaxEdits
  BY BuildBoundsAreNat DEF Revisions

LEMMA IdleIsBuild == Idle \in Build
  <1>1. NoRequest \in Request /\ NoRequest.slug \in Slugs
    BY NoRequestIsRequest DEF Request
  <1>2. EmptyPacket(0, NoRequest.slug) \in Packet
    BY <1>1, EmptyPacketIsPacket, ZeroIsInBounds
  <1> QED BY <1>1, <1>2, ZeroIsInBounds DEF Idle, Build, Steps

LEMMA FailureIsResult ==
  ASSUME NEW request \in Request
  PROVE  Failure(request) \in Result
  BY ZeroIsInBounds DEF Failure, Result

LEMMA ReadIsText ==
  ASSUME BuildTypeOK, NEW f \in Files
  PROVE  Prefix(f) \in Text /\ Whole(f) \in Text
  BY DEF BuildTypeOK, Prefix, Whole, Text

LEMMA IncludedIsPacket ==
  ASSUME NEW packet \in Packet, NEW f, NEW text \in Text \cup {NoText},
         NEW name \in 0..MaxEdits \cup {NoText}
  PROVE  Included(packet, f, text, name) \in Packet
  <1>1. packet.items \in [Files -> Text \cup {NoText}]
    BY DEF Packet
  <1>2. [packet.items EXCEPT ![f] = text] \in [Files -> Text \cup {NoText}]
    BY <1>1
  <1>3. packet.location \in [Files -> 0..MaxEdits \cup {NoText}]
    BY DEF Packet
  <1>4. ASSUME NEW n \in 0..MaxEdits \cup {NoText}
        PROVE  [packet.location EXCEPT ![f] = n] \in [Files -> 0..MaxEdits \cup {NoText}]
    BY <1>3
  <1> QED BY <1>2, <1>4 DEF Included, Packet

LEMMA NameIsName ==
  ASSUME NEW b \in Build
  PROVE  NameOf(b) \in Names
  <1>1. b.now \in 0..MaxTicks /\ b.request.slug \in Slugs
    BY DEF Build, Request
  <1> QED BY <1>1 DEF NameOf, Names

\* What a build holds while it reads a Go file whole.
HeldIsClean ==
  \A p \in Procs :
    build[p].step = "whole" =>
      /\ build[p].path \in Files
      /\ build[p].held \in Text
      /\ ~HasSecret(build[p].held)

TypeInv == BuildTypeOK /\ HeldIsClean

-----------------------------------------------------------------------------
(* Type correctness. *)

LEMMA TypeInvInit == BuildInit => TypeInv
  <1> SUFFICES ASSUME BuildInit PROVE TypeInv
    OBVIOUS
  <1>1. Failure(NoRequest) \in Result
    BY NoRequestIsRequest, FailureIsResult
  <1>2. BuildTypeOK
    BY <1>1, IdleIsBuild, ZeroIsInBounds, BuildBoundsAreNat
       DEF BuildInit, BuildTypeOK, Revisions, ExportPair
  <1>3. HeldIsClean
    BY DEF BuildInit, HeldIsClean, Idle
  <1> QED BY <1>2, <1>3 DEF TypeInv

\* What is left to show of a step that gives p a new build record.
LEMMA BuildUpdate ==
  ASSUME TypeInv, NEW p \in Procs, NEW r \in Build,
         build' = [build EXCEPT ![p] = r],
         r.step = "whole" => r.path \in Files /\ r.held \in Text /\ ~HasSecret(r.held)
  PROVE  build' \in [Procs -> Build] /\ HeldIsClean'
  <1>1. build \in [Procs -> Build]
    BY DEF TypeInv, BuildTypeOK
  <1>2. build' \in [Procs -> Build]
    BY <1>1
  <1>3. ASSUME NEW q \in Procs
        PROVE  build'[q] = IF q = p THEN r ELSE build[q]
    BY <1>1
  <1>4. HeldIsClean'
    BY <1>3 DEF TypeInv, HeldIsClean
  <1> QED BY <1>2, <1>4

LEMMA FailTypes ==
  ASSUME TypeInv, NEW p \in Procs, Fail(p)
  PROVE  build' \in [Procs -> Build] /\ HeldIsClean' /\ results' \in [Procs -> Result]
  <1>1. build[p].request \in Request /\ results \in [Procs -> Result]
    BY DEF TypeInv, BuildTypeOK, Build
  <1>2. results' \in [Procs -> Result]
    BY <1>1, FailureIsResult DEF Fail
  <1>3. Idle.step # "whole"
    BY DEF Idle
  <1>4. build' \in [Procs -> Build] /\ HeldIsClean'
    BY <1>3, IdleIsBuild, BuildUpdate DEF Fail
  <1> QED BY <1>2, <1>4

LEMMA DeliverTypes ==
  ASSUME TypeInv, NEW p \in Procs, NEW text \in Packet \cup {NoPacket, Torn},
         Deliver(p, text)
  PROVE  build' \in [Procs -> Build] /\ HeldIsClean' /\ results' \in [Procs -> Result]
  <1>1. build[p] \in Build /\ results \in [Procs -> Result]
    BY DEF TypeInv, BuildTypeOK
  <1> DEFINE r == [request |-> build[p].request, first |-> build[p].first,
                   now |-> build[p].now, packet |-> build[p].packet, text |-> text]
  <1>2. r \in Result
    BY <1>1 DEF Build, Result
  <1>3. results' = [results EXCEPT ![p] = r]
    BY DEF Deliver
  <1> HIDE DEF r
  <1>4. results' \in [Procs -> Result]
    BY <1>1, <1>2, <1>3
  <1>5. Idle.step # "whole"
    BY DEF Idle
  <1>6. build' \in [Procs -> Build] /\ HeldIsClean'
    BY <1>5, IdleIsBuild, BuildUpdate DEF Deliver
  <1> QED BY <1>4, <1>6

LEMMA ExportTypes ==
  ASSUME TypeInv, NEW p \in Procs, NEW file \in {"md", "json"},
         NEW content \in Packet \cup {NoPacket, Torn}, Export(p, file, content)
  PROVE  exports' \in [Names -> ExportPair]
  <1>1. exports \in [Names -> ExportPair] /\ build[p] \in Build
    BY DEF TypeInv, BuildTypeOK
  <1>2. NameOf(build[p]) \in Names
    BY <1>1, NameIsName
  <1>3. [exports[NameOf(build[p])] EXCEPT ![file] = content] \in ExportPair
    BY <1>1, <1>2 DEF ExportPair
  <1> QED BY <1>1, <1>3 DEF Export

LEMMA TypeInvStep == TypeInv /\ [BuildNext]_buildVars => TypeInv'
  <1> SUFFICES ASSUME TypeInv, [BuildNext]_buildVars PROVE TypeInv'
    OBVIOUS
  <1> USE DEF TypeInv
  <1>1. ASSUME Environment PROVE TypeInv'
    <2>1. HeldIsClean'
      BY <1>1 DEF HeldIsClean, Environment, MoveHead, Tick, Edit
    <2>2. CASE MoveHead
      <3>1. head' \in Revisions /\ moves' \in Revisions
        BY <2>2, BuildBoundsAreNat DEF MoveHead, BuildTypeOK, Revisions
      <3> QED BY <2>1, <2>2, <3>1 DEF MoveHead, BuildTypeOK
    <2>3. CASE Tick
      <3>1. clock' \in 0..MaxTicks
        BY <2>3, BuildBoundsAreNat DEF Tick, BuildTypeOK
      <3> QED BY <2>1, <2>3, <3>1 DEF Tick, BuildTypeOK
    <2>4. ASSUME NEW f \in Files, Edit(f) PROVE TypeInv'
      <3>1. edits' \in 0..MaxEdits /\ edits + 1 \in 0..MaxEdits
        BY <2>4, BuildBoundsAreNat DEF Edit, BuildTypeOK
      <3>2. work' \in [Files -> 0..MaxEdits]
        BY <2>4, <3>1 DEF Edit, BuildTypeOK
      <3> QED BY <2>1, <2>4, <3>1, <3>2 DEF Edit, BuildTypeOK
    <2> QED BY <1>1, <2>2, <2>3, <2>4 DEF Environment
  <1>2. ASSUME NEW p \in Procs, NEW request \in Requests, Begin(p, request) PROVE TypeInv'
    <2> DEFINE r == [Idle EXCEPT !.step = "begun", !.request = request, !.first = head]
    <2>1. request \in Request /\ head \in Revisions
      BY RequestsAreRequests DEF BuildTypeOK
    <2>2. r \in Build /\ r.step # "whole"
      BY <2>1, IdleIsBuild DEF Build, Steps
    <2>3. build' = [build EXCEPT ![p] = r]
      BY <1>2 DEF Begin
    <2> HIDE DEF r
    <2>4. build' \in [Procs -> Build] /\ HeldIsClean'
      BY <2>2, <2>3, BuildUpdate
    <2>5. \A q \in Procs : builds'[q] \in 0..MaxBuilds[q]
      <3>1. builds \in [Procs -> Nat] /\ \A q \in Procs : builds[q] \in 0..MaxBuilds[q]
        BY BuildBoundsAreNat DEF BuildTypeOK
      <3>2. ASSUME NEW q \in Procs
            PROVE  builds'[q] = IF q = p THEN builds[q] + 1 ELSE builds[q]
        BY <1>2, <3>1 DEF Begin
      <3> QED BY <1>2, <3>1, <3>2, BuildBoundsAreNat DEF Begin
    <2>6. builds' \in [Procs -> Nat]
      BY <1>2 DEF Begin, BuildTypeOK
    <2> QED BY <1>2, <2>4, <2>5, <2>6 DEF Begin, BuildTypeOK, repository
  <1>3. ASSUME NEW p \in Procs, NEW request \in Requests, BeginRefused(p, request)
        PROVE  TypeInv'
    <2>1. Failure(request) \in Result
      BY RequestsAreRequests, FailureIsResult
    <2>2. results' \in [Procs -> Result]
      BY <1>3, <2>1 DEF BeginRefused, BuildTypeOK
    <2> QED BY <1>3, <2>2 DEF BeginRefused, BuildTypeOK, HeldIsClean, repository
  <1>4. ASSUME NEW p \in Procs, BuildStep(p) PROVE TypeInv'
    <2>1. build[p] \in Build /\ build[p].packet \in Packet /\ build[p].request \in Request
      BY DEF BuildTypeOK, Build
    <2>2. CASE OpenSelection(p)
      <3> DEFINE r == [build[p] EXCEPT !.step = "reading", !.now = clock, !.unread = Named \ Neighbors,
                         !.todo = Files \ Neighbors,
                         !.packet = EmptyPacket(head, build[p].request.slug)]
      <3>1. EmptyPacket(head, build[p].request.slug) \in Packet
        BY <2>1, EmptyPacketIsPacket DEF BuildTypeOK, Request
      <3>2. r \in Build /\ r.step # "whole"
        BY <2>1, <3>1, FileSetsAreFiles DEF Build, Steps, BuildTypeOK
      <3>3. build' = [build EXCEPT ![p] = r]
        BY <2>2 DEF OpenSelection
      <3> HIDE DEF r
      <3>4. build' \in [Procs -> Build] /\ HeldIsClean'
        BY <3>2, <3>3, BuildUpdate
      <3> QED BY <2>2, <3>4 DEF OpenSelection, BuildTypeOK, repository
    <2>a. CASE Expand(p)
      <3> DEFINE r == [build[p] EXCEPT !.unread = Named \cap Neighbors, !.todo = Neighbors,
                                       !.expanded = TRUE]
      <3>1. r \in Build /\ r.step # "whole"
        BY <2>1, <2>a, FileSetsAreFiles DEF Build, Steps, IsAdmitting, Expand
      <3>2. build' = [build EXCEPT ![p] = r]
        BY <2>a DEF Expand
      <3> HIDE DEF r
      <3>3. build' \in [Procs -> Build] /\ HeldIsClean'
        BY <3>1, <3>2, BuildUpdate
      <3> QED BY <2>a, <3>3 DEF Expand, BuildTypeOK, repository
    <2>b. ASSUME NEW f \in Files, ReadNames(p, f) PROVE TypeInv'
      <3> DEFINE n == [build[p].names EXCEPT ![f] = work[f]]
                 r == [build[p] EXCEPT !.unread = build[p].unread \ {f}, !.names = n]
      <3>1. n \in [Files -> 0..MaxEdits \cup {NoText}]
        <4>1. build[p].names \in [Files -> 0..MaxEdits \cup {NoText}] /\ work[f] \in 0..MaxEdits
          BY <2>1 DEF Build, BuildTypeOK
        <4> QED BY <4>1
      <3>2. build' = [build EXCEPT ![p] = r]
        BY <2>b DEF ReadNames
      <3> HIDE DEF n
      <3>3. r \in Build /\ r.step # "whole"
        BY <2>1, <2>b, <3>1 DEF Build, Steps, ReadNames
      <3> HIDE DEF r
      <3>4. build' \in [Procs -> Build] /\ HeldIsClean'
        BY <3>2, <3>3, BuildUpdate
      <3> QED BY <2>b, <3>4 DEF ReadNames, BuildTypeOK, repository
    <2>3. ASSUME NEW f \in Files, LeaveOut(p, f) PROVE TypeInv'
      <3> DEFINE r == [build[p] EXCEPT !.todo = build[p].todo \ {f}]
      <3>1. r \in Build /\ r.step # "whole"
        BY <2>1, <2>3 DEF Build, Steps, IsAdmitting, LeaveOut
      <3>2. build' = [build EXCEPT ![p] = r]
        BY <2>3 DEF IsAdmitting, IsAdmitting, LeaveOut
      <3> HIDE DEF r
      <3>3. build' \in [Procs -> Build] /\ HeldIsClean'
        BY <3>1, <3>2, BuildUpdate
      <3> QED BY <2>3, <3>3 DEF IsAdmitting, LeaveOut, BuildTypeOK, repository
    <2>4. ASSUME NEW f \in Files, ReadPrefix(p, f) PROVE TypeInv'
      <3> DEFINE r == IF f \in CutGoFiles
                      THEN [build[p] EXCEPT !.step = "whole", !.todo = build[p].todo \ {f},
                                            !.path = f, !.held = Prefix(f)]
                      ELSE [build[p] EXCEPT !.todo = build[p].todo \ {f},
                              !.packet = Included(build[p].packet, f, Prefix(f), build[p].names[f])]
      <3>1. Prefix(f) \in Text /\ Included(build[p].packet, f, Prefix(f), build[p].names[f]) \in Packet
        BY <2>1, ReadIsText, IncludedIsPacket DEF Build
      <3>2. r \in Build
        BY <2>1, <3>1 DEF Build, Steps
      <3>3. r.step = "whole" => r.path \in Files /\ r.held \in Text /\ ~HasSecret(r.held)
        BY <2>1, <2>4, <3>1 DEF Build, IsAdmitting, ReadPrefix
      <3>4. build' = [build EXCEPT ![p] = r]
        BY <2>4 DEF IsAdmitting, IsAdmitting, ReadPrefix
      <3> HIDE DEF r
      <3>5. build' \in [Procs -> Build] /\ HeldIsClean'
        BY <3>2, <3>3, <3>4, BuildUpdate
      <3> QED BY <2>4, <3>5 DEF IsAdmitting, ReadPrefix, BuildTypeOK, repository
    <2>5. CASE ReadWhole(p)
      <3>1. build[p].path \in Files /\ build[p].held \in Text
        BY <2>5 DEF ReadWhole, HeldIsClean
      <3>2. Whole(build[p].path) \in Text
        BY <3>1, ReadIsText
      <3>3. PICK text \in Text \cup {NoText} :
              build' = [build EXCEPT ![p] =
                [build[p] EXCEPT !.step = "reading", !.path = NoText, !.held = NoText,
                                 !.packet = Included(build[p].packet, build[p].path, text, build[p].names[build[p].path])]]
        BY <2>5, <3>1, <3>2 DEF ReadWhole
      <3> DEFINE r == [build[p] EXCEPT !.step = "reading", !.path = NoText, !.held = NoText,
                         !.packet = Included(build[p].packet, build[p].path, text, build[p].names[build[p].path])]
      <3>4. Included(build[p].packet, build[p].path, text, build[p].names[build[p].path]) \in Packet
        BY <2>1, <3>1, IncludedIsPacket DEF Build
      <3>5. r \in Build /\ r.step # "whole"
        BY <2>1, <3>4 DEF Build, Steps
      <3>6. build' = [build EXCEPT ![p] = r]
        BY <3>3
      <3> HIDE DEF r
      <3>7. build' \in [Procs -> Build] /\ HeldIsClean'
        BY <3>5, <3>6, BuildUpdate
      <3> QED BY <2>5, <3>7 DEF ReadWhole, BuildTypeOK, repository
    <2>6. CASE Assemble(p)
      <3> DEFINE packet == [build[p].packet EXCEPT !.guidance =
                              [g \in Guidance |-> build[p].packet.items[g]]]
                 r == [build[p] EXCEPT !.step = "assembled", !.packet = packet]
      <3>1. packet \in Packet
        BY <2>1, FileSetsAreFiles DEF Packet
      <3>2. build' = [build EXCEPT ![p] = r]
        BY <2>6 DEF IsAdmitting, IsAdmitting, Assemble
      <3> HIDE DEF packet
      <3>3. r \in Build /\ r.step # "whole"
        BY <2>1, <3>1 DEF Build, Steps
      <3> HIDE DEF r
      <3>4. build' \in [Procs -> Build] /\ HeldIsClean'
        BY <3>2, <3>3, BuildUpdate
      <3> QED BY <2>6, <3>4 DEF IsAdmitting, Assemble, BuildTypeOK, repository
    <2>7. CASE Recheck(p)
      <3>1. build' \in [Procs -> Build] /\ HeldIsClean' /\ results' \in [Procs -> Result]
        <4>1. CASE Deliver(p, NoPacket)
          BY <4>1, DeliverTypes
        <4>2. ASSUME build' = [build EXCEPT ![p] = [@ EXCEPT !.step = "markdown"]],
                     UNCHANGED results
              PROVE  build' \in [Procs -> Build] /\ HeldIsClean' /\ results' \in [Procs -> Result]
          <5> DEFINE r == [build[p] EXCEPT !.step = "markdown"]
          <5>1. r \in Build /\ r.step # "whole"
            BY <2>1 DEF Build, Steps
          <5>2. build' = [build EXCEPT ![p] = r]
            BY <4>2
          <5> HIDE DEF r
          <5> QED BY <4>2, <5>1, <5>2, BuildUpdate DEF BuildTypeOK
        <4> QED BY <2>7, <4>1, <4>2 DEF Recheck
      <3> QED BY <2>7, <3>1 DEF Recheck, BuildTypeOK, repository
    <2>8. CASE RecheckRefused(p)
      <3>1. build' \in [Procs -> Build] /\ HeldIsClean' /\ results' \in [Procs -> Result]
        BY <2>8, FailTypes DEF RecheckRefused
      <3> QED BY <2>8, <3>1 DEF RecheckRefused, BuildTypeOK, repository
    <2>9. CASE WriteMarkdown(p)
      <3> DEFINE r == [build[p] EXCEPT !.step = "json"]
      <3>1. r \in Build /\ r.step # "whole"
        BY <2>1 DEF Build, Steps
      <3>2. build' = [build EXCEPT ![p] = r]
        BY <2>9 DEF WriteMarkdown
      <3> HIDE DEF r
      <3>3. build' \in [Procs -> Build] /\ HeldIsClean'
        BY <3>1, <3>2, BuildUpdate
      <3>4. exports' \in [Names -> ExportPair]
        BY <2>1, <2>9, ExportTypes DEF WriteMarkdown
      <3>5. shared' \in SUBSET Names
        BY <2>1, <2>9, NameIsName DEF WriteMarkdown, BuildTypeOK
      <3> QED BY <2>9, <3>3, <3>4, <3>5 DEF WriteMarkdown, BuildTypeOK, repository
    <2>10. CASE WriteJson(p)
      <3>1. build' \in [Procs -> Build] /\ HeldIsClean' /\ results' \in [Procs -> Result]
        <4>1. CASE Deliver(p, NoPacket)
          BY <4>1, DeliverTypes
        <4>2. ASSUME build' = [build EXCEPT ![p] = [@ EXCEPT !.step = "readback"]],
                     UNCHANGED results
              PROVE  build' \in [Procs -> Build] /\ HeldIsClean' /\ results' \in [Procs -> Result]
          <5> DEFINE r == [build[p] EXCEPT !.step = "readback"]
          <5>1. r \in Build /\ r.step # "whole"
            BY <2>1 DEF Build, Steps
          <5>2. build' = [build EXCEPT ![p] = r]
            BY <4>2
          <5> HIDE DEF r
          <5> QED BY <4>2, <5>1, <5>2, BuildUpdate DEF BuildTypeOK
        <4> QED BY <2>10, <4>1, <4>2 DEF WriteJson
      <3>2. exports' \in [Names -> ExportPair]
        BY <2>1, <2>10, ExportTypes DEF WriteJson
      <3> QED BY <2>10, <3>1, <3>2 DEF WriteJson, BuildTypeOK, repository
    <2>11. CASE ReadBack(p)
      <3>1. exports[NameOf(build[p])].md \in Packet \cup {NoPacket, Torn}
        BY <2>1, NameIsName DEF BuildTypeOK, ExportPair
      <3>2. build' \in [Procs -> Build] /\ HeldIsClean' /\ results' \in [Procs -> Result]
        BY <2>11, <3>1, DeliverTypes DEF ReadBack
      <3> QED BY <2>11, <3>2 DEF ReadBack, BuildTypeOK, repository
    <2> QED BY <1>4, <2>a, <2>b, <2>2, <2>3, <2>4, <2>5, <2>6, <2>7, <2>8, <2>9, <2>10, <2>11
            DEF BuildStep
  <1>5. ASSUME NEW p \in Procs, Stop(p) PROVE TypeInv'
    <2>1. build' \in [Procs -> Build] /\ HeldIsClean' /\ results' \in [Procs -> Result]
      BY <1>5, FailTypes DEF Stop
    <2>2. stops' \in 0..MaxStops
      BY <1>5, BuildBoundsAreNat DEF Stop, BuildTypeOK
    <2> QED BY <1>5, <2>1, <2>2 DEF Stop, BuildTypeOK, repository
  <1>6. ASSUME NEW p \in Procs, Tear(p) PROVE TypeInv'
    <2>1. build' \in [Procs -> Build] /\ HeldIsClean' /\ results' \in [Procs -> Result]
      BY <1>6, FailTypes DEF Tear
    <2>2. stops' \in 0..MaxStops
      BY <1>6, BuildBoundsAreNat DEF Tear, BuildTypeOK
    <2>3. exports' \in [Names -> ExportPair]
      BY <1>6, ExportTypes DEF Tear
    <2>4. shared' \in SUBSET Names
      BY <1>6, NameIsName DEF Tear, BuildTypeOK
    <2> QED BY <1>6, <2>1, <2>2, <2>3, <2>4 DEF Tear, BuildTypeOK, repository
  <1>7. ASSUME UNCHANGED buildVars PROVE TypeInv'
    BY <1>7 DEF buildVars, BuildTypeOK, HeldIsClean
  <1> QED BY <1>1, <1>2, <1>3, <1>4, <1>5, <1>6, <1>7 DEF BuildNext

\* The variables keep their types, whatever is read, written or stopped.
THEOREM PacketsTypeCorrect == BuildSpec => []BuildTypeOK
  <1>1. BuildInit => TypeInv
    BY TypeInvInit
  <1>2. TypeInv /\ [BuildNext]_buildVars => TypeInv'
    BY TypeInvStep
  <1>3. TypeInv => BuildTypeOK
    BY DEF TypeInv
  <1> QED BY <1>1, <1>2, <1>3, PTL DEF BuildSpec

-----------------------------------------------------------------------------
(* Every text of a packet was scanned as it was read, and the names beside *)
(* it while the file held them.                                            *)

IsCleanOutput(output, tree) == output \in {NoPacket, Torn} \/ IsClean(output, tree)

\* Where a build got the names it holds, and which files are read whole.
NamesInv ==
  /\ \A f \in Files : work[f] <= edits
  /\ \A p \in Procs, f \in Files : build[p].names[f] = NoText \/ build[p].names[f] <= work[f]
  /\ \A p \in Procs : build[p].step = "whole" => build[p].path \in CutGoFiles

CleanInv ==
  /\ \A p \in Procs : IsClean(build[p].packet, work)
  /\ \A p \in Procs : IsCleanOutput(results[p].packet, work) /\ IsCleanOutput(results[p].text, work)
  /\ \A name \in Names : IsCleanOutput(exports[name].md, work) /\ IsCleanOutput(exports[name].json, work)

LEMMA EmptyIsClean ==
  ASSUME NEW revision, NEW slug, NEW tree
  PROVE  IsClean(EmptyPacket(revision, slug), tree)
  BY DEF IsClean, EmptyPacket

\* The names beside a text that is put in a packet are old, or of what was scanned.
IsVouched(f, name) ==
  name = NoText \/ name < work[f] \/ (name = work[f] /\ ~HasSecret(Scanned(f, work[f])))

\* A packet stays clean when a clean text with names that are vouched for, or no
\* text, is put in it.
LEMMA IncludedIsClean ==
  ASSUME NEW packet \in Packet, IsClean(packet, work), NEW f \in Files, NEW text, NEW name,
         text = NoText \/ (~HasSecret(text) /\ IsVouched(f, name))
  PROVE  IsClean(Included(packet, f, text, name), work)
  <1>1. /\ packet.items \in [Files -> Text \cup {NoText}]
        /\ packet.location \in [Files -> 0..MaxEdits \cup {NoText}]
    BY DEF Packet
  <1>2. Included(packet, f, text, name).guidance = packet.guidance
    BY DEF Included, Packet
  <1> DEFINE n == IF text = NoText THEN NoText ELSE name
  <1>3. /\ Included(packet, f, text, name).items = [packet.items EXCEPT ![f] = text]
        /\ Included(packet, f, text, name).location = [packet.location EXCEPT ![f] = n]
    BY DEF Included, Packet
  <1>4. ASSUME NEW g \in Files
        PROVE  /\ Included(packet, f, text, name).items[g] = IF g = f THEN text ELSE packet.items[g]
               /\ Included(packet, f, text, name).location[g] = IF g = f THEN n ELSE packet.location[g]
    BY <1>1, <1>3
  <1>5. IsVouched(f, n)
    BY DEF IsVouched
  <1> HIDE DEF n
  <1> QED BY <1>2, <1>4, <1>5 DEF IsClean, IsVouched

LEMMA NamesUpdate ==
  ASSUME TypeInv, NamesInv, NEW p \in Procs, NEW r,
         \A f \in Files : r.names[f] = NoText \/ r.names[f] <= work[f],
         r.step = "whole" => r.path \in CutGoFiles,
         build' = [build EXCEPT ![p] = r], UNCHANGED <<work, edits>>
  PROVE  NamesInv'
  <1>1. build \in [Procs -> Build]
    BY DEF TypeInv, BuildTypeOK
  <1>2. ASSUME NEW q \in Procs
        PROVE  build'[q] = IF q = p THEN r ELSE build[q]
    BY <1>1
  <1> QED BY <1>2 DEF NamesInv

LEMMA IdleHasNoNames ==
  Idle.step # "whole" /\ \A f \in Files : Idle.names[f] = NoText
  BY DEF Idle

LEMMA NamesInvStep ==
  ASSUME TypeInv, NamesInv, [BuildNext]_buildVars
  PROVE  NamesInv'
  <1>0. build \in [Procs -> Build] /\ work \in [Files -> 0..MaxEdits] /\ edits \in 0..MaxEdits
    BY DEF TypeInv, BuildTypeOK
  <1>1. ASSUME MoveHead \/ Tick \/ UNCHANGED buildVars PROVE NamesInv'
    BY <1>1 DEF NamesInv, MoveHead, Tick, buildVars
  <1>2. ASSUME NEW f \in Files, Edit(f) PROVE NamesInv'
    <2>1. ASSUME NEW g \in Files
          PROVE  work'[g] = IF g = f THEN edits + 1 ELSE work[g]
      BY <1>0, <1>2 DEF Edit
    <2>2. \A g \in Files : work[g] \in Nat /\ work[g] <= edits
      BY <1>0, BuildBoundsAreNat DEF NamesInv
    <2>3. edits' = edits + 1 /\ edits \in Nat /\ build' = build
      BY <1>0, <1>2, BuildBoundsAreNat DEF Edit
    <2>4. \A g \in Files : work'[g] <= edits'
      BY <2>1, <2>2, <2>3
    <2>5. ASSUME NEW p \in Procs, NEW g \in Files
          PROVE  build[p].names[g] = NoText \/ build[p].names[g] <= work'[g]
      <3>1. build[p].names[g] \in 0..MaxEdits \cup {NoText}
        BY <1>0 DEF Build
      <3> QED BY <2>1, <2>2, <2>3, <3>1, BuildBoundsAreNat DEF NamesInv
    <2> QED BY <2>3, <2>4, <2>5 DEF NamesInv
  <1>3. ASSUME NEW p \in Procs, NEW r, build' = [build EXCEPT ![p] = r], UNCHANGED repository,
               r.names \in {build[p].names, Idle.names},
               r.step = "whole" => r.path \in CutGoFiles
        PROVE  NamesInv'
    BY <1>3, NamesUpdate, IdleHasNoNames DEF NamesInv, repository
  <1>4. ASSUME NEW p \in Procs, NEW request, Begin(p, request) \/ BeginRefused(p, request)
        PROVE  NamesInv'
    <2>1. CASE Begin(p, request)
      <3> DEFINE r == [Idle EXCEPT !.step = "begun", !.request = request, !.first = head]
      <3>1. r.names = Idle.names /\ r.step # "whole"
        BY DEF Idle
      <3>2. build' = [build EXCEPT ![p] = r] /\ UNCHANGED repository
        BY <2>1 DEF Begin
      <3> HIDE DEF r
      <3> QED BY <1>3, <3>1, <3>2
    <2> QED BY <1>4, <2>1 DEF BeginRefused, NamesInv, repository
  <1>5. ASSUME NEW p \in Procs, build' = [build EXCEPT ![p] = Idle], UNCHANGED repository
        PROVE  NamesInv'
    BY <1>3, <1>5, IdleHasNoNames
  <1>6. ASSUME NEW p \in Procs, BuildStep(p) PROVE NamesInv'
    <2>1. build[p] \in Build
      BY <1>0
    <2>2. ASSUME NEW r, build' = [build EXCEPT ![p] = r], UNCHANGED repository,
                 r.names = build[p].names, r.step # "whole"
          PROVE  NamesInv'
      BY <1>3, <2>2
    <2>3. CASE OpenSelection(p)
      <3> DEFINE r == [build[p] EXCEPT !.step = "reading", !.now = clock,
                         !.unread = Named \ Neighbors, !.todo = Files \ Neighbors,
                         !.packet = EmptyPacket(head, build[p].request.slug)]
      <3>1. r.names = build[p].names /\ r.step # "whole"
        BY <2>1 DEF Build
      <3>2. build' = [build EXCEPT ![p] = r] /\ UNCHANGED repository
        BY <2>3 DEF OpenSelection
      <3> HIDE DEF r
      <3> QED BY <2>2, <3>1, <3>2
    <2>4. ASSUME NEW f \in Files, ReadNames(p, f) PROVE NamesInv'
      <3> DEFINE n == [build[p].names EXCEPT ![f] = work[f]]
                 r == [build[p] EXCEPT !.unread = build[p].unread \ {f}, !.names = n]
      <3>1. \A g \in Files : n[g] = IF g = f THEN work[f] ELSE build[p].names[g]
        BY <2>1 DEF Build
      <3>2. build' = [build EXCEPT ![p] = r] /\ UNCHANGED repository
        BY <2>4 DEF ReadNames
      <3>3. build[p].step = "reading"
        BY <2>4 DEF ReadNames
      <3> HIDE DEF n
      <3>4. r.names = n /\ r.step # "whole"
        BY <2>1, <3>3 DEF Build
      <3> HIDE DEF r
      <3>5. work[f] \in Int
        BY <1>0
      <3>6. \A g \in Files : r.names[g] = NoText \/ r.names[g] <= work[g]
        BY <3>1, <3>4, <3>5 DEF NamesInv
      <3> QED BY <3>2, <3>4, <3>6, NamesUpdate DEF repository
    <2>5. CASE Expand(p)
      <3> DEFINE r == [build[p] EXCEPT !.unread = Named \cap Neighbors, !.todo = Neighbors,
                                       !.expanded = TRUE]
      <3>1. r.names = build[p].names /\ r.step # "whole"
        BY <2>1, <2>5 DEF Build, Expand, IsAdmitting
      <3>2. build' = [build EXCEPT ![p] = r] /\ UNCHANGED repository
        BY <2>5 DEF Expand
      <3> HIDE DEF r
      <3> QED BY <2>2, <3>1, <3>2
    <2>6. ASSUME NEW f \in Files, LeaveOut(p, f) PROVE NamesInv'
      <3> DEFINE r == [build[p] EXCEPT !.todo = build[p].todo \ {f}]
      <3>1. r.names = build[p].names /\ r.step # "whole"
        BY <2>1, <2>6 DEF Build, LeaveOut, IsAdmitting
      <3>2. build' = [build EXCEPT ![p] = r] /\ UNCHANGED repository
        BY <2>6 DEF LeaveOut
      <3> HIDE DEF r
      <3> QED BY <2>2, <3>1, <3>2
    <2>7. ASSUME NEW f \in Files, ReadPrefix(p, f) PROVE NamesInv'
      <3> DEFINE r == IF f \in CutGoFiles
                      THEN [build[p] EXCEPT !.step = "whole", !.todo = build[p].todo \ {f},
                                            !.path = f, !.held = Prefix(f)]
                      ELSE [build[p] EXCEPT !.todo = build[p].todo \ {f},
                              !.packet = Included(build[p].packet, f, Prefix(f), build[p].names[f])]
      <3>1. r.names = build[p].names /\ (r.step = "whole" => r.path \in CutGoFiles)
        BY <2>1, <2>7 DEF Build, ReadPrefix, IsAdmitting
      <3>2. build' = [build EXCEPT ![p] = r] /\ UNCHANGED repository
        BY <2>7 DEF ReadPrefix
      <3> HIDE DEF r
      <3> QED BY <1>3, <3>1, <3>2
    <2>8. CASE ReadWhole(p)
      <3>1. PICK packet :
              build' = [build EXCEPT ![p] =
                [build[p] EXCEPT !.step = "reading", !.path = NoText, !.held = NoText,
                                 !.packet = packet]]
        BY <2>8 DEF ReadWhole
      <3> DEFINE r == [build[p] EXCEPT !.step = "reading", !.path = NoText, !.held = NoText,
                                       !.packet = packet]
      <3>2. r.names = build[p].names /\ r.step # "whole"
        BY <2>1 DEF Build
      <3>3. UNCHANGED repository
        BY <2>8 DEF ReadWhole
      <3>4. build' = [build EXCEPT ![p] = r]
        BY <3>1
      <3> HIDE DEF r
      <3> QED BY <2>2, <3>2, <3>3, <3>4
    <2>9. ASSUME NEW step \in Steps \ {"whole"}, UNCHANGED repository,
                 build' = [build EXCEPT ![p] = [build[p] EXCEPT !.step = step]]
          PROVE  NamesInv'
      <3> DEFINE r == [build[p] EXCEPT !.step = step]
      <3>1. r.names = build[p].names /\ r.step # "whole"
        BY <2>1, <2>9 DEF Build
      <3>2. build' = [build EXCEPT ![p] = r]
        BY <2>9
      <3> HIDE DEF r
      <3> QED BY <2>2, <2>9, <3>1, <3>2
    <2>10. CASE Assemble(p)
      <3> DEFINE r == [build[p] EXCEPT !.step = "assembled",
                         !.packet = [build[p].packet EXCEPT !.guidance =
                           [g \in Guidance |-> build[p].packet.items[g]]]]
      <3>1. r.names = build[p].names /\ r.step # "whole"
        BY <2>1 DEF Build
      <3>2. build' = [build EXCEPT ![p] = r] /\ UNCHANGED repository
        BY <2>10 DEF Assemble
      <3> HIDE DEF r
      <3> QED BY <2>2, <3>1, <3>2
    <2>11. CASE Recheck(p) \/ WriteMarkdown(p) \/ WriteJson(p)
      BY <1>5, <2>9, <2>11 DEF Recheck, WriteMarkdown, WriteJson, Deliver, Steps
    <2>12. CASE RecheckRefused(p) \/ ReadBack(p)
      BY <1>5, <2>12 DEF RecheckRefused, ReadBack, Deliver, Fail
    <2> QED BY <1>6, <2>3, <2>4, <2>5, <2>6, <2>7, <2>8, <2>10, <2>11, <2>12 DEF BuildStep
  <1>7. ASSUME NEW p \in Procs, Stop(p) \/ Tear(p) PROVE NamesInv'
    BY <1>5, <1>7 DEF Stop, Tear, Fail
  <1> QED BY <1>1, <1>2, <1>4, <1>6, <1>7 DEF BuildNext, Environment

\* What is left to show of a step that gives p a new build record.
LEMMA CleanUpdate ==
  ASSUME TypeInv, CleanInv, NEW p \in Procs, NEW r, IsClean(r.packet, work),
         build' = [build EXCEPT ![p] = r]
  PROVE  \A q \in Procs : IsClean(build'[q].packet, work)
  <1>1. build \in [Procs -> Build]
    BY DEF TypeInv, BuildTypeOK
  <1>2. ASSUME NEW q \in Procs
        PROVE  build'[q] = IF q = p THEN r ELSE build[q]
    BY <1>1
  <1> QED BY <1>2 DEF CleanInv

LEMMA IdleIsClean == \A tree : IsClean(Idle.packet, tree)
  BY EmptyIsClean DEF Idle

LEMMA FailKeepsClean ==
  ASSUME TypeInv, CleanInv, NEW p \in Procs, Fail(p)
  PROVE  /\ \A q \in Procs : IsClean(build'[q].packet, work)
         /\ \A q \in Procs : IsCleanOutput(results'[q].packet, work) /\ IsCleanOutput(results'[q].text, work)
  <1>1. \A q \in Procs : IsClean(build'[q].packet, work)
    BY IdleIsClean, CleanUpdate DEF Fail
  <1>2. results \in [Procs -> Result]
    BY DEF TypeInv, BuildTypeOK
  <1>3. ASSUME NEW q \in Procs
        PROVE  results'[q] = IF q = p THEN Failure(build[p].request) ELSE results[q]
    BY <1>2 DEF Fail
  <1> QED BY <1>1, <1>3 DEF CleanInv, IsCleanOutput, Failure

LEMMA DeliverKeepsClean ==
  ASSUME TypeInv, CleanInv, NEW p \in Procs, NEW text, IsCleanOutput(text, work), Deliver(p, text)
  PROVE  /\ \A q \in Procs : IsClean(build'[q].packet, work)
         /\ \A q \in Procs : IsCleanOutput(results'[q].packet, work) /\ IsCleanOutput(results'[q].text, work)
  <1>1. \A q \in Procs : IsClean(build'[q].packet, work)
    BY IdleIsClean, CleanUpdate DEF Deliver
  <1>2. results \in [Procs -> Result]
    BY DEF TypeInv, BuildTypeOK
  <1> DEFINE r == [request |-> build[p].request, first |-> build[p].first,
                   now |-> build[p].now, packet |-> build[p].packet, text |-> text]
  <1>3. ASSUME NEW q \in Procs
        PROVE  results'[q] = IF q = p THEN r ELSE results[q]
    BY <1>2 DEF Deliver
  <1>4. r.packet = build[p].packet /\ r.text = text
    OBVIOUS
  <1> HIDE DEF r
  <1> QED BY <1>1, <1>3, <1>4 DEF CleanInv, IsCleanOutput

LEMMA ExportKeepsClean ==
  ASSUME TypeInv, CleanInv, NEW p \in Procs, NEW file \in {"md", "json"}, NEW content,
         IsCleanOutput(content, work), Export(p, file, content)
  PROVE  \A name \in Names : IsCleanOutput(exports'[name].md, work) /\ IsCleanOutput(exports'[name].json, work)
  <1>1. exports \in [Names -> ExportPair]
    BY DEF TypeInv, BuildTypeOK
  <1>2. ASSUME NEW name \in Names
        PROVE  exports'[name] = IF name = NameOf(build[p])
                                THEN [exports[name] EXCEPT ![file] = content] ELSE exports[name]
    BY <1>1 DEF Export
  <1>3. ASSUME NEW name \in Names
        PROVE  IsCleanOutput(exports'[name].md, work) /\ IsCleanOutput(exports'[name].json, work)
    <2>1. exports[name] \in ExportPair
      BY <1>1
    <2> QED BY <1>2, <2>1 DEF CleanInv, ExportPair
  <1> QED BY <1>3

\* A save makes every name that was read older than its file.
LEMMA EditKeepsClean ==
  ASSUME TypeInv, NamesInv, NEW f \in Files, Edit(f), NEW packet \in Packet,
         IsClean(packet, work)
  PROVE  IsClean(packet, work')
  <1>1. work \in [Files -> 0..MaxEdits] /\ edits \in 0..MaxEdits
    BY DEF TypeInv, BuildTypeOK
  <1>2. ASSUME NEW g \in Files
        PROVE  work'[g] = IF g = f THEN edits + 1 ELSE work[g]
    BY <1>1 DEF Edit
  <1>3. \A g \in Files : work[g] \in Nat /\ work[g] <= edits
    BY <1>1, BuildBoundsAreNat DEF NamesInv
  <1>4. ASSUME NEW g \in Files
        PROVE  \/ packet.location[g] = NoText \/ packet.location[g] < work'[g]
               \/ packet.location[g] = work'[g] /\ ~HasSecret(Scanned(g, work'[g]))
    <2>1. CASE g # f
      BY <1>2, <2>1 DEF IsClean
    <2>2. CASE g = f
      <3>1. packet.location[g] \in 0..MaxEdits \cup {NoText}
        BY DEF Packet
      <3> QED BY <1>1, <1>2, <1>3, <2>2, <3>1, BuildBoundsAreNat DEF IsClean
    <2> QED BY <2>1, <2>2
  <1> QED BY <1>4 DEF IsClean

LEMMA NamesAreOld ==
  ASSUME TypeInv, NamesInv, NEW p \in Procs, NEW f \in Files
  PROVE  \/ build[p].names[f] = NoText
         \/ build[p].names[f] < work[f]
         \/ build[p].names[f] = work[f]
  <1>1. work[f] \in Int /\ build[p].names[f] \in 0..MaxEdits \cup {NoText}
    BY BuildBoundsAreNat DEF TypeInv, BuildTypeOK, Build
  <1> QED BY <1>1, BuildBoundsAreNat DEF NamesInv

LEMMA CleanInvStep ==
  ASSUME TypeInv, NamesInv, CleanInv, [BuildNext]_buildVars
  PROVE  CleanInv'
  <1>1. ASSUME Environment \/ UNCHANGED buildVars PROVE CleanInv'
    <2>1. CASE UNCHANGED work
      BY <1>1, <2>1 DEF CleanInv, IsCleanOutput, Environment, MoveHead, Tick, Edit, buildVars
    <2>2. ASSUME NEW f \in Files, Edit(f) PROVE CleanInv'
      <3>1. \A packet \in Packet : IsClean(packet, work) => IsClean(packet, work')
        BY <2>2, EditKeepsClean
      <3>2. \A q \in Procs : /\ build[q].packet \in Packet
                             /\ results[q].packet \in Packet \cup {NoPacket}
                             /\ results[q].text \in Packet \cup {NoPacket, Torn}
        BY DEF TypeInv, BuildTypeOK, Build, Result
      <3>3. \A name \in Names : /\ exports[name].md \in Packet \cup {NoPacket, Torn}
                                /\ exports[name].json \in Packet \cup {NoPacket, Torn}
        BY DEF TypeInv, BuildTypeOK, ExportPair
      <3> QED BY <2>2, <3>1, <3>2, <3>3 DEF Edit, CleanInv, IsCleanOutput
    <2> QED BY <1>1, <2>1, <2>2 DEF Environment, MoveHead, Tick, buildVars
  <1>2. ASSUME NEW p \in Procs, NEW request, Begin(p, request) \/ BeginRefused(p, request)
        PROVE  CleanInv'
    <2>1. CASE Begin(p, request)
      <3>1. IsClean([Idle EXCEPT !.step = "begun", !.request = request, !.first = head].packet, work)
        BY IdleIsClean DEF Idle
      <3>2. \A q \in Procs : IsClean(build'[q].packet, work)
        BY <2>1, <3>1, CleanUpdate DEF Begin
      <3> QED BY <2>1, <3>2 DEF CleanInv, IsCleanOutput, Begin, repository
    <2>2. CASE BeginRefused(p, request)
      <3>1. results \in [Procs -> Result]
        BY DEF TypeInv, BuildTypeOK
      <3>2. ASSUME NEW q \in Procs
            PROVE  results'[q] = IF q = p THEN Failure(request) ELSE results[q]
        BY <2>2, <3>1 DEF BeginRefused
      <3> QED BY <2>2, <3>2 DEF CleanInv, IsCleanOutput, BeginRefused, Failure, repository
    <2> QED BY <1>2, <2>1, <2>2
  <1>3. ASSUME NEW p \in Procs, BuildStep(p) PROVE CleanInv'
    <2>1. build[p] \in Build /\ build[p].packet \in Packet /\ IsClean(build[p].packet, work)
      BY DEF TypeInv, BuildTypeOK, Build, CleanInv
    <2>0. work' = work
      BY <1>3 DEF BuildStep, OpenSelection, ReadNames, Expand, LeaveOut, ReadPrefix, ReadWhole,
                  Assemble, Recheck, RecheckRefused, WriteMarkdown, WriteJson, ReadBack, repository
    <2>2. ASSUME NEW r, build' = [build EXCEPT ![p] = r], IsClean(r.packet, work),
                 UNCHANGED <<exports, results>>
          PROVE  CleanInv'
      <3>1. \A q \in Procs : IsClean(build'[q].packet, work)
        BY <2>2, CleanUpdate
      <3> QED BY <2>0, <2>2, <3>1 DEF CleanInv, IsCleanOutput
    <2>3. CASE OpenSelection(p)
      <3> DEFINE r == [build[p] EXCEPT !.step = "reading", !.now = clock, !.unread = Named \ Neighbors,
                         !.todo = Files \ Neighbors,
                         !.packet = EmptyPacket(head, build[p].request.slug)]
      <3>1. IsClean(r.packet, work)
        BY <2>1, EmptyIsClean DEF Build
      <3>2. build' = [build EXCEPT ![p] = r] /\ UNCHANGED <<exports, results>>
        BY <2>3 DEF OpenSelection
      <3> QED BY <2>2, <3>1, <3>2
    <2>a. CASE Expand(p)
      <3> DEFINE r == [build[p] EXCEPT !.unread = Named \cap Neighbors, !.todo = Neighbors,
                                       !.expanded = TRUE]
      <3>1. IsClean(r.packet, work)
        BY <2>1 DEF Build
      <3>2. build' = [build EXCEPT ![p] = r] /\ UNCHANGED <<exports, results>>
        BY <2>a DEF Expand
      <3> QED BY <2>2, <3>1, <3>2
    <2>b. ASSUME NEW f \in Files, ReadNames(p, f) PROVE CleanInv'
      <3> DEFINE n == [build[p].names EXCEPT ![f] = work[f]]
                 r == [build[p] EXCEPT !.unread = build[p].unread \ {f}, !.names = n]
      <3>1. build' = [build EXCEPT ![p] = r] /\ UNCHANGED <<exports, results>>
        BY <2>b DEF ReadNames
      <3> HIDE DEF n
      <3>2. IsClean(r.packet, work)
        BY <2>1 DEF Build
      <3> HIDE DEF r
      <3> QED BY <2>2, <3>1, <3>2
    <2>4. ASSUME NEW f \in Files, LeaveOut(p, f) PROVE CleanInv'
      <3> DEFINE r == [build[p] EXCEPT !.todo = build[p].todo \ {f}]
      <3>1. IsClean(r.packet, work)
        BY <2>1 DEF Build
      <3>2. build' = [build EXCEPT ![p] = r] /\ UNCHANGED <<exports, results>>
        BY <2>4 DEF IsAdmitting, IsAdmitting, LeaveOut
      <3> QED BY <2>2, <3>1, <3>2
    <2>5. ASSUME NEW f \in Files, ReadPrefix(p, f) PROVE CleanInv'
      <3> DEFINE r == IF f \in CutGoFiles
                      THEN [build[p] EXCEPT !.step = "whole", !.todo = build[p].todo \ {f},
                                            !.path = f, !.held = Prefix(f)]
                      ELSE [build[p] EXCEPT !.todo = build[p].todo \ {f},
                              !.packet = Included(build[p].packet, f, Prefix(f), build[p].names[f])]
      <3>0. f \notin CutGoFiles => IsVouched(f, build[p].names[f])
        BY <2>1, <2>5, NamesAreOld DEF ReadPrefix, IsVouched, Scanned, Prefix
      <3>1. f \notin CutGoFiles =>
              IsClean(Included(build[p].packet, f, Prefix(f), build[p].names[f]), work)
        BY <2>1, <2>5, <3>0, IncludedIsClean DEF ReadPrefix
      <3>2. IsClean(r.packet, work)
        BY <2>1, <3>1 DEF Build
      <3>3. build' = [build EXCEPT ![p] = r] /\ UNCHANGED <<exports, results>>
        BY <2>5 DEF IsAdmitting, IsAdmitting, ReadPrefix
      <3> HIDE DEF r
      <3> QED BY <2>2, <3>2, <3>3
    <2>6. CASE ReadWhole(p)
      <3>1. build[p].path \in Files /\ build[p].path \in CutGoFiles /\ ~HasSecret(build[p].held)
        BY <2>6 DEF ReadWhole, TypeInv, HeldIsClean, NamesInv
      <3>2. PICK text :
              (text = NoText \/ (~HasSecret(text) /\ ~HasSecret(Whole(build[p].path)))) /\
              build' = [build EXCEPT ![p] =
                [build[p] EXCEPT !.step = "reading", !.path = NoText, !.held = NoText,
                                 !.packet = Included(build[p].packet, build[p].path, text, build[p].names[build[p].path])]]
        BY <2>6, <3>1 DEF ReadWhole
      <3>a. text = NoText \/ IsVouched(build[p].path, build[p].names[build[p].path])
        BY <2>1, <3>1, <3>2, NamesAreOld DEF IsVouched, Scanned, Whole
      <3>3. IsClean(Included(build[p].packet, build[p].path, text, build[p].names[build[p].path]), work)
        BY <2>1, <3>1, <3>2, <3>a, IncludedIsClean
      <3> DEFINE r == [build[p] EXCEPT !.step = "reading", !.path = NoText, !.held = NoText,
                         !.packet = Included(build[p].packet, build[p].path, text, build[p].names[build[p].path])]
      <3>4. IsClean(r.packet, work)
        BY <2>1, <3>3 DEF Build
      <3>5. build' = [build EXCEPT ![p] = r] /\ UNCHANGED <<exports, results>>
        BY <2>6, <3>2 DEF ReadWhole
      <3> HIDE DEF r
      <3> QED BY <2>2, <3>4, <3>5
    <2>7. CASE Assemble(p)
      <3> DEFINE packet == [build[p].packet EXCEPT !.guidance =
                              [g \in Guidance |-> build[p].packet.items[g]]]
                 r == [build[p] EXCEPT !.step = "assembled", !.packet = packet]
      <3>1. /\ packet.items = build[p].packet.items
            /\ packet.location = build[p].packet.location
            /\ packet.guidance = [g \in Guidance |-> build[p].packet.items[g]]
        BY <2>1 DEF Packet
      <3>2. IsClean(packet, work)
        BY <2>1, <3>1, FileSetsAreFiles DEF IsClean
      <3>3. build' = [build EXCEPT ![p] = r] /\ UNCHANGED <<exports, results>>
        BY <2>7 DEF IsAdmitting, IsAdmitting, Assemble
      <3> HIDE DEF packet
      <3>4. IsClean(r.packet, work)
        BY <2>1, <3>2 DEF Build
      <3> HIDE DEF r
      <3> QED BY <2>2, <3>3, <3>4
    <2>8. CASE Recheck(p)
      <3>1. CASE Deliver(p, NoPacket)
        BY <2>0, <2>8, <3>1, DeliverKeepsClean DEF Recheck, CleanInv, IsCleanOutput
      <3>2. ASSUME build' = [build EXCEPT ![p] = [@ EXCEPT !.step = "markdown"]],
                   UNCHANGED results
            PROVE  CleanInv'
        <4>1. IsClean([build[p] EXCEPT !.step = "markdown"].packet, work)
          BY <2>1 DEF Build
        <4> QED BY <2>2, <2>8, <3>2, <4>1 DEF Recheck
      <3> QED BY <2>8, <3>1, <3>2 DEF Recheck
    <2>9. CASE RecheckRefused(p)
      BY <2>0, <2>9, FailKeepsClean DEF RecheckRefused, CleanInv, IsCleanOutput
    <2>10. CASE WriteMarkdown(p)
      <3>1. IsClean([build[p] EXCEPT !.step = "json"].packet, work)
        BY <2>1 DEF Build
      <3>2. \A q \in Procs : IsClean(build'[q].packet, work)
        BY <2>10, <3>1, CleanUpdate DEF WriteMarkdown
      <3>3. \A name \in Names :
              IsCleanOutput(exports'[name].md, work) /\ IsCleanOutput(exports'[name].json, work)
        BY <2>1, <2>10, ExportKeepsClean DEF WriteMarkdown, IsCleanOutput
      <3> QED BY <2>0, <2>10, <3>2, <3>3 DEF WriteMarkdown, CleanInv, IsCleanOutput
    <2>11. CASE WriteJson(p)
      <3>1. \A name \in Names :
              IsCleanOutput(exports'[name].md, work) /\ IsCleanOutput(exports'[name].json, work)
        BY <2>1, <2>11, ExportKeepsClean DEF WriteJson, IsCleanOutput
      <3>2. CASE Deliver(p, NoPacket)
        BY <2>0, <3>1, <3>2, DeliverKeepsClean DEF CleanInv, IsCleanOutput
      <3>3. ASSUME build' = [build EXCEPT ![p] = [@ EXCEPT !.step = "readback"]],
                   UNCHANGED results
            PROVE  CleanInv'
        <4>1. IsClean([build[p] EXCEPT !.step = "readback"].packet, work)
          BY <2>1 DEF Build
        <4>2. \A q \in Procs : IsClean(build'[q].packet, work)
          BY <3>3, <4>1, CleanUpdate
        <4> QED BY <2>0, <3>1, <3>3, <4>2 DEF CleanInv, IsCleanOutput
      <3> QED BY <2>11, <3>2, <3>3 DEF WriteJson
    <2>12. CASE ReadBack(p)
      <3>1. IsCleanOutput(exports[NameOf(build[p])].md, work)
        BY <2>1, NameIsName DEF CleanInv
      <3> QED BY <2>0, <2>12, <3>1, DeliverKeepsClean
              DEF ReadBack, CleanInv, IsCleanOutput
    <2> QED BY <1>3, <2>a, <2>b, <2>3, <2>4, <2>5, <2>6, <2>7, <2>8, <2>9, <2>10, <2>11, <2>12
            DEF BuildStep
  <1>4. ASSUME NEW p \in Procs, Stop(p) PROVE CleanInv'
    BY <1>4, FailKeepsClean DEF Stop, CleanInv, IsCleanOutput, repository
  <1>5. ASSUME NEW p \in Procs, Tear(p) PROVE CleanInv'
    <2>1. \A name \in Names :
            IsCleanOutput(exports'[name].md, work) /\ IsCleanOutput(exports'[name].json, work)
      BY <1>5, ExportKeepsClean DEF Tear, IsCleanOutput
    <2> QED BY <1>5, <2>1, FailKeepsClean DEF Tear, CleanInv, IsCleanOutput, repository
  <1> QED BY <1>1, <1>2, <1>3, <1>4, <1>5 DEF BuildNext

\* However many builds run, and whatever is saved between their reads, no content
\* leaves that was read with a secret in it, and no heading or name either, unless
\* its file was saved after it was read.
THEOREM OnlyScannedIsCarried == BuildSpec => []CarriesOnlyScanned
  <1>1. BuildInit => TypeInv /\ NamesInv /\ CleanInv
    <2> SUFFICES ASSUME BuildInit PROVE NamesInv /\ CleanInv
      BY TypeInvInit
    <2> QED BY IdleIsClean, IdleHasNoNames DEF BuildInit, NamesInv, CleanInv, IsCleanOutput, Failure
  <1>2. TypeInv /\ NamesInv /\ CleanInv /\ [BuildNext]_buildVars => TypeInv' /\ NamesInv' /\ CleanInv'
    BY TypeInvStep, NamesInvStep, CleanInvStep
  <1>3. CleanInv => CarriesOnlyScanned
    BY DEF CleanInv, IsCleanOutput, CarriesOnlyScanned, Outputs
  <1> QED BY <1>1, <1>2, <1>3, PTL DEF BuildSpec

-----------------------------------------------------------------------------
(* The revision of a packet.  HEAD never returns to a revision, so that it *)
(* was at the same one twice only if it stayed there in between.           *)

\* What is known of one build record while HEAD is at h.
Pinned(b, h) ==
  /\ b.step # "idle" => b.first <= h /\ b.request.expected \in {AnyRevision, b.first}
  /\ b.step \in {"reading", "whole", "assembled"} =>
       b.first <= b.packet.revision /\ b.packet.revision <= h
  /\ b.step \in {"markdown", "json", "readback"} => b.packet.revision = b.first

ResultPinned(r) ==
  r.packet # NoPacket =>
    r.packet.revision = IF r.request.expected = AnyRevision THEN r.first
                        ELSE r.request.expected

PinnedInv ==
  /\ head = moves
  /\ \A p \in Procs : Pinned(build[p], head)
  /\ \A p \in Procs : ResultPinned(results[p])

LEMMA PinnedUpdate ==
  ASSUME TypeInv, PinnedInv, NEW p \in Procs, NEW r, Pinned(r, head),
         build' = [build EXCEPT ![p] = r], UNCHANGED <<head, moves, results>>
  PROVE  PinnedInv'
  <1>1. build \in [Procs -> Build]
    BY DEF TypeInv, BuildTypeOK
  <1>2. ASSUME NEW q \in Procs
        PROVE  build'[q] = IF q = p THEN r ELSE build[q]
    BY <1>1
  <1>3. \A q \in Procs : Pinned(build'[q], head)
    BY <1>2 DEF PinnedInv
  <1> QED BY <1>3 DEF PinnedInv, ResultPinned

LEMMA PinnedResult ==
  ASSUME TypeInv, PinnedInv, NEW p \in Procs, NEW r, ResultPinned(r),
         build' = [build EXCEPT ![p] = Idle], results' = [results EXCEPT ![p] = r],
         UNCHANGED <<head, moves>>
  PROVE  PinnedInv'
  <1>1. build \in [Procs -> Build] /\ results \in [Procs -> Result]
    BY DEF TypeInv, BuildTypeOK
  <1>2. ASSUME NEW q \in Procs
        PROVE  /\ build'[q] = IF q = p THEN Idle ELSE build[q]
               /\ results'[q] = IF q = p THEN r ELSE results[q]
    BY <1>1
  <1>3. Pinned(Idle, head)
    BY DEF Pinned, Idle
  <1>4. \A q \in Procs : Pinned(build'[q], head) /\ ResultPinned(results'[q])
    BY <1>2, <1>3 DEF PinnedInv
  <1> QED BY <1>4 DEF PinnedInv

LEMMA FailureIsPinned ==
  ASSUME NEW request
  PROVE  ResultPinned(Failure(request))
  BY DEF ResultPinned, Failure

LEMMA FailKeepsPinned ==
  ASSUME TypeInv, PinnedInv, NEW p \in Procs, Fail(p), UNCHANGED <<head, moves>>
  PROVE  PinnedInv'
  BY FailureIsPinned, PinnedResult DEF Fail

\* A packet is delivered with the revision it was first compared with.
LEMMA DeliverKeepsPinned ==
  ASSUME TypeInv, PinnedInv, NEW p \in Procs, NEW text, Deliver(p, text),
         build[p].step # "idle", build[p].packet.revision = build[p].first,
         UNCHANGED <<head, moves>>
  PROVE  PinnedInv'
  <1> DEFINE r == [request |-> build[p].request, first |-> build[p].first,
                   now |-> build[p].now, packet |-> build[p].packet, text |-> text]
  <1>1. build[p].request.expected \in {AnyRevision, build[p].first}
    BY DEF PinnedInv, Pinned
  <1>2. ResultPinned(r)
    BY <1>1 DEF ResultPinned
  <1>3. build' = [build EXCEPT ![p] = Idle] /\ results' = [results EXCEPT ![p] = r]
    BY DEF Deliver
  <1> HIDE DEF r
  <1> QED BY <1>2, <1>3, PinnedResult

LEMMA PinnedInvStep ==
  ASSUME HeadReturns = FALSE, TypeInv, PinnedInv, [BuildNext]_buildVars
  PROVE  PinnedInv'
  <1>1. CASE UNCHANGED buildVars
    BY <1>1 DEF buildVars, PinnedInv, Pinned, ResultPinned
  <1>2. CASE Environment
    <2>1. head' = moves' /\ head <= head' /\ UNCHANGED <<build, results>>
      BY <1>2, BuildBoundsAreNat
         DEF Environment, MoveHead, Tick, Edit, PinnedInv, TypeInv, BuildTypeOK, Revisions
    <2>2. head \in Int /\ head' \in Int
      BY <1>2, BuildBoundsAreNat
         DEF Environment, MoveHead, Tick, Edit, TypeInv, BuildTypeOK, Revisions
    <2>3. ASSUME NEW p \in Procs PROVE Pinned(build[p], head')
      <3>1. Pinned(build[p], head)
        BY DEF PinnedInv
      <3>2. build[p].first \in Int /\ build[p].packet.revision \in Int
        BY BuildBoundsAreNat DEF TypeInv, BuildTypeOK, Build, Packet, Revisions
      <3> QED BY <2>1, <2>2, <3>1, <3>2 DEF Pinned
    <2> QED BY <2>1, <2>3 DEF PinnedInv
  <1>3. ASSUME NEW p \in Procs, NEW request \in Requests, Begin(p, request)
        PROVE  PinnedInv'
    <2> DEFINE r == [Idle EXCEPT !.step = "begun", !.request = request, !.first = head]
    <2>1. r.step = "begun" /\ r.request = request /\ r.first = head
      BY DEF Idle
    <2>2. head \in Int
      BY BuildBoundsAreNat DEF TypeInv, BuildTypeOK, Revisions
    <2>3. build' = [build EXCEPT ![p] = r] /\ UNCHANGED <<head, moves, results>>
            /\ request.expected \in {AnyRevision, head}
      BY <1>3 DEF Begin, repository
    <2> HIDE DEF r
    <2>4. Pinned(r, head)
      BY <2>1, <2>2, <2>3 DEF Pinned
    <2> QED BY <2>3, <2>4, PinnedUpdate
  <1>4. ASSUME NEW p \in Procs, NEW request \in Requests, BeginRefused(p, request)
        PROVE  PinnedInv'
    <2>1. results \in [Procs -> Result]
      BY DEF TypeInv, BuildTypeOK
    <2>2. ASSUME NEW q \in Procs
          PROVE  results'[q] = IF q = p THEN Failure(request) ELSE results[q]
      BY <1>4, <2>1 DEF BeginRefused
    <2>3. \A q \in Procs : ResultPinned(results'[q])
      BY <2>2, FailureIsPinned DEF PinnedInv
    <2> QED BY <1>4, <2>3 DEF BeginRefused, PinnedInv, Pinned, repository
  <1>5. ASSUME NEW p \in Procs, BuildStep(p) PROVE PinnedInv'
    <2>1. build[p] \in Build /\ build[p].packet \in Packet /\ Pinned(build[p], head)
      BY DEF TypeInv, BuildTypeOK, Build, PinnedInv
    <2>2. head \in Int /\ build[p].first \in Int /\ build[p].packet.revision \in Int
      BY <2>1, BuildBoundsAreNat DEF TypeInv, BuildTypeOK, Build, Packet, Revisions
    <2>3. CASE OpenSelection(p)
      <3> DEFINE r == [build[p] EXCEPT !.step = "reading", !.now = clock, !.unread = Named \ Neighbors,
                         !.todo = Files \ Neighbors,
                         !.packet = EmptyPacket(head, build[p].request.slug)]
      <3>1. /\ r.step = "reading" /\ r.first = build[p].first
            /\ r.request = build[p].request /\ r.packet.revision = head
        BY <2>1 DEF Build, EmptyPacket
      <3>2. build[p].step = "begun" /\ build' = [build EXCEPT ![p] = r]
              /\ UNCHANGED <<head, moves, results>>
        BY <2>3 DEF OpenSelection, repository
      <3> HIDE DEF r
      <3>3. Pinned(r, head)
        BY <2>1, <2>2, <3>1, <3>2 DEF Pinned
      <3> QED BY <3>2, <3>3, PinnedUpdate
    <2>4. ASSUME NEW r, build' = [build EXCEPT ![p] = r], UNCHANGED <<head, moves, results>>,
                 r.first = build[p].first, r.request = build[p].request,
                 r.packet.revision = build[p].packet.revision,
                 build[p].step \in {"reading", "whole"},
                 r.step \in {"reading", "whole", "assembled"}
          PROVE  PinnedInv'
      <3>1. Pinned(r, head)
        BY <2>1, <2>4 DEF Pinned
      <3> QED BY <2>4, <3>1, PinnedUpdate
    <2>5. ASSUME NEW f, NEW text
          PROVE  Included(build[p].packet, f, text, build[p].names[f]).revision = build[p].packet.revision
      BY <2>1 DEF Included, Packet
    <2>a. CASE Expand(p)
      <3> DEFINE r == [build[p] EXCEPT !.unread = Named \cap Neighbors, !.todo = Neighbors,
                                       !.expanded = TRUE]
      <3>1. /\ r.first = build[p].first /\ r.request = build[p].request
            /\ r.packet = build[p].packet /\ r.step = build[p].step
        BY <2>1 DEF Build
      <3>2. build' = [build EXCEPT ![p] = r] /\ UNCHANGED <<head, moves, results>>
              /\ build[p].step = "reading"
        BY <2>a DEF Expand, IsAdmitting, repository
      <3> HIDE DEF r
      <3> QED BY <2>4, <3>1, <3>2
    <2>b. ASSUME NEW f \in Files, ReadNames(p, f) PROVE PinnedInv'
      <3> DEFINE n == [build[p].names EXCEPT ![f] = work[f]]
                 r == [build[p] EXCEPT !.unread = build[p].unread \ {f}, !.names = n]
      <3>1. build' = [build EXCEPT ![p] = r] /\ UNCHANGED <<head, moves, results>>
              /\ build[p].step = "reading"
        BY <2>b DEF ReadNames, repository
      <3> HIDE DEF n
      <3>2. /\ r.first = build[p].first /\ r.request = build[p].request
            /\ r.packet = build[p].packet /\ r.step = build[p].step
        BY <2>1 DEF Build
      <3> HIDE DEF r
      <3> QED BY <2>4, <3>1, <3>2
    <2>6. ASSUME NEW f \in Files, LeaveOut(p, f) PROVE PinnedInv'
      <3> DEFINE r == [build[p] EXCEPT !.todo = build[p].todo \ {f}]
      <3>1. /\ r.first = build[p].first /\ r.request = build[p].request
            /\ r.packet = build[p].packet /\ r.step = build[p].step
        BY <2>1 DEF Build
      <3>2. build' = [build EXCEPT ![p] = r] /\ UNCHANGED <<head, moves, results>>
              /\ build[p].step = "reading"
        BY <2>6 DEF IsAdmitting, LeaveOut, repository
      <3> HIDE DEF r
      <3> QED BY <2>4, <3>1, <3>2
    <2>7. ASSUME NEW f \in Files, ReadPrefix(p, f) PROVE PinnedInv'
      <3> DEFINE r == IF f \in CutGoFiles
                      THEN [build[p] EXCEPT !.step = "whole", !.todo = build[p].todo \ {f},
                                            !.path = f, !.held = Prefix(f)]
                      ELSE [build[p] EXCEPT !.todo = build[p].todo \ {f},
                              !.packet = Included(build[p].packet, f, Prefix(f), build[p].names[f])]
      <3>1. build' = [build EXCEPT ![p] = r] /\ UNCHANGED <<head, moves, results>>
              /\ build[p].step = "reading"
        BY <2>7 DEF IsAdmitting, ReadPrefix, repository
      <3>2. /\ r.first = build[p].first /\ r.request = build[p].request
            /\ r.packet.revision = build[p].packet.revision
            /\ r.step \in {"whole", build[p].step}
        BY <2>1, <2>5 DEF Build
      <3> HIDE DEF r
      <3> QED BY <2>4, <3>1, <3>2
    <2>8. CASE ReadWhole(p)
      <3>1. PICK text : build' = [build EXCEPT ![p] =
                [build[p] EXCEPT !.step = "reading", !.path = NoText, !.held = NoText,
                                 !.packet = Included(build[p].packet, build[p].path, text, build[p].names[build[p].path])]]
        BY <2>8 DEF ReadWhole
      <3> DEFINE r == [build[p] EXCEPT !.step = "reading", !.path = NoText, !.held = NoText,
                         !.packet = Included(build[p].packet, build[p].path, text, build[p].names[build[p].path])]
      <3>2. build' = [build EXCEPT ![p] = r] /\ UNCHANGED <<head, moves, results>>
              /\ build[p].step = "whole"
        BY <2>8, <3>1 DEF ReadWhole, repository
      <3>3. /\ r.first = build[p].first /\ r.request = build[p].request
            /\ r.packet.revision = build[p].packet.revision /\ r.step = "reading"
        BY <2>1, <2>5 DEF Build
      <3> HIDE DEF r
      <3> QED BY <2>4, <3>2, <3>3
    <2>9. CASE Assemble(p)
      <3> DEFINE packet == [build[p].packet EXCEPT !.guidance =
                              [g \in Guidance |-> build[p].packet.items[g]]]
                 r == [build[p] EXCEPT !.step = "assembled", !.packet = packet]
      <3>1. packet.revision = build[p].packet.revision
        BY <2>1 DEF Packet
      <3>2. build' = [build EXCEPT ![p] = r] /\ UNCHANGED <<head, moves, results>>
              /\ build[p].step = "reading"
        BY <2>9 DEF IsAdmitting, Assemble, repository
      <3> HIDE DEF packet
      <3>3. /\ r.first = build[p].first /\ r.request = build[p].request
            /\ r.packet.revision = build[p].packet.revision /\ r.step = "assembled"
        BY <2>1, <3>1 DEF Build
      <3> HIDE DEF r
      <3> QED BY <2>4, <3>2, <3>3
    <2>10. CASE Recheck(p)
      <3>1. build[p].step = "assembled" /\ head = build[p].first /\ UNCHANGED <<head, moves>>
        BY <2>10 DEF Recheck, repository
      <3>2. build[p].packet.revision = build[p].first
        BY <2>1, <2>2, <3>1 DEF Pinned
      <3>3. CASE Deliver(p, NoPacket)
        BY <3>1, <3>2, <3>3, DeliverKeepsPinned
      <3>4. ASSUME build' = [build EXCEPT ![p] = [@ EXCEPT !.step = "markdown"]],
                   UNCHANGED results
            PROVE  PinnedInv'
        <4> DEFINE r == [build[p] EXCEPT !.step = "markdown"]
        <4>1. /\ r.first = build[p].first /\ r.request = build[p].request
              /\ r.packet = build[p].packet /\ r.step = "markdown"
          BY <2>1 DEF Build
        <4>2. build' = [build EXCEPT ![p] = r]
          BY <3>4
        <4> HIDE DEF r
        <4>3. Pinned(r, head)
          BY <2>1, <3>1, <3>2, <4>1 DEF Pinned
        <4> QED BY <3>1, <3>4, <4>2, <4>3, PinnedUpdate
      <3> QED BY <2>10, <3>3, <3>4 DEF Recheck
    <2>11. CASE RecheckRefused(p)
      BY <2>11, FailKeepsPinned DEF RecheckRefused, repository
    <2>12. ASSUME NEW r, build' = [build EXCEPT ![p] = r], UNCHANGED <<head, moves, results>>,
                  r.first = build[p].first, r.request = build[p].request,
                  r.packet = build[p].packet,
                  build[p].step \in {"markdown", "json"}, r.step \in {"json", "readback"}
           PROVE  PinnedInv'
      <3>1. Pinned(r, head)
        BY <2>1, <2>12 DEF Pinned
      <3> QED BY <2>12, <3>1, PinnedUpdate
    <2>13. CASE WriteMarkdown(p)
      <3> DEFINE r == [build[p] EXCEPT !.step = "json"]
      <3>1. /\ r.first = build[p].first /\ r.request = build[p].request
            /\ r.packet = build[p].packet /\ r.step = "json"
        BY <2>1 DEF Build
      <3>2. build' = [build EXCEPT ![p] = r] /\ UNCHANGED <<head, moves, results>>
              /\ build[p].step = "markdown"
        BY <2>13 DEF WriteMarkdown, repository
      <3> HIDE DEF r
      <3> QED BY <2>12, <3>1, <3>2
    <2>14. CASE WriteJson(p)
      <3>1. build[p].step = "json" /\ UNCHANGED <<head, moves>>
        BY <2>14 DEF WriteJson, repository
      <3>2. build[p].packet.revision = build[p].first
        BY <2>1, <3>1 DEF Pinned
      <3>3. CASE Deliver(p, NoPacket)
        BY <3>1, <3>2, <3>3, DeliverKeepsPinned
      <3>4. ASSUME build' = [build EXCEPT ![p] = [@ EXCEPT !.step = "readback"]],
                   UNCHANGED results
            PROVE  PinnedInv'
        <4> DEFINE r == [build[p] EXCEPT !.step = "readback"]
        <4>1. /\ r.first = build[p].first /\ r.request = build[p].request
              /\ r.packet = build[p].packet /\ r.step = "readback"
          BY <2>1 DEF Build
        <4>2. build' = [build EXCEPT ![p] = r]
          BY <3>4
        <4> HIDE DEF r
        <4> QED BY <2>12, <3>1, <3>4, <4>1, <4>2
      <3> QED BY <2>14, <3>3, <3>4 DEF WriteJson
    <2>15. CASE ReadBack(p)
      <3>1. build[p].step = "readback" /\ UNCHANGED <<head, moves>>
        BY <2>15 DEF ReadBack, repository
      <3>2. build[p].packet.revision = build[p].first
        BY <2>1, <3>1 DEF Pinned
      <3> QED BY <2>15, <3>1, <3>2, DeliverKeepsPinned DEF ReadBack
    <2> QED BY <1>5, <2>a, <2>b, <2>3, <2>6, <2>7, <2>8, <2>9, <2>10, <2>11, <2>13, <2>14, <2>15
            DEF BuildStep
  <1>6. ASSUME NEW p \in Procs, Stop(p) PROVE PinnedInv'
    BY <1>6, FailKeepsPinned DEF Stop, repository
  <1>7. ASSUME NEW p \in Procs, Tear(p) PROVE PinnedInv'
    BY <1>7, FailKeepsPinned DEF Tear, repository
  <1> QED BY <1>1, <1>2, <1>3, <1>4, <1>5, <1>6, <1>7 DEF BuildNext

\* As long as HEAD never returns to a revision it left, comparing it before and
\* after is enough: a packet names the revision it was asked for.
THEOREM RevisionIsPinned ==
  ASSUME HeadReturns = FALSE
  PROVE  BuildSpec => []RevisionPinned
  <1>1. BuildInit => TypeInv /\ PinnedInv
    <2> SUFFICES ASSUME BuildInit PROVE PinnedInv
      BY TypeInvInit
    <2> QED BY FailureIsPinned DEF BuildInit, PinnedInv, Pinned, Idle
  <1>2. TypeInv /\ PinnedInv /\ [BuildNext]_buildVars => TypeInv' /\ PinnedInv'
    BY TypeInvStep, PinnedInvStep
  <1>3. PinnedInv => RevisionPinned
    BY DEF PinnedInv, ResultPinned, RevisionPinned
  <1> QED BY <1>1, <1>2, <1>3, PTL DEF BuildSpec

-----------------------------------------------------------------------------
(* Names.  A build that wrote the Markdown of a name finds it there as long *)
(* as no other build started on the name, and one that does makes the name *)
(* a shared one.                                                           *)

OnDisk(b) ==
  b.step \in {"json", "readback"} /\ NameOf(b) \notin shared
    => exports[NameOf(b)].md = b.packet

OwnText(r) ==
  r.text # NoPacket /\ <<r.now, r.request.slug>> \notin shared => r.text = r.packet

PairAgrees(name) ==
  name \notin shared /\ exports[name].json \notin {NoPacket, Torn}
    => exports[name].md = exports[name].json

ExportInv ==
  /\ \A p \in Procs : OnDisk(build[p]) /\ OwnText(results[p])
  /\ \A name \in Names : PairAgrees(name)

\* p reads, or starts, or stops reading; nothing is written.
LEMMA ReadingKeepsExports ==
  ASSUME TypeInv, ExportInv, NEW p \in Procs, NEW r,
         r.step \notin {"json", "readback"},
         build' = [build EXCEPT ![p] = r], UNCHANGED <<exports, shared, results>>
  PROVE  ExportInv'
  <1>1. build \in [Procs -> Build]
    BY DEF TypeInv, BuildTypeOK
  <1>2. ASSUME NEW q \in Procs
        PROVE  build'[q] = IF q = p THEN r ELSE build[q]
    BY <1>1
  <1>3. ASSUME NEW q \in Procs PROVE OnDisk(build[q])'
    BY <1>2 DEF ExportInv, OnDisk, NameOf
  <1> QED BY <1>3 DEF ExportInv, OwnText, PairAgrees

\* p is done, with or without a result.
LEMMA EndKeepsExports ==
  ASSUME TypeInv, ExportInv, NEW p \in Procs, NEW r, OwnText(r),
         build' = [build EXCEPT ![p] = Idle], results' = [results EXCEPT ![p] = r],
         UNCHANGED <<exports, shared>>
  PROVE  ExportInv'
  <1>1. build \in [Procs -> Build] /\ results \in [Procs -> Result]
    BY DEF TypeInv, BuildTypeOK
  <1>2. ASSUME NEW q \in Procs
        PROVE  /\ build'[q] = IF q = p THEN Idle ELSE build[q]
               /\ results'[q] = IF q = p THEN r ELSE results[q]
    BY <1>1
  <1>3. ASSUME NEW q \in Procs PROVE OnDisk(build[q])' /\ OwnText(results[q])'
    BY <1>2 DEF ExportInv, OnDisk, OwnText, NameOf, Idle
  <1> QED BY <1>3 DEF ExportInv, PairAgrees

LEMMA FailureIsOwn ==
  ASSUME NEW request
  PROVE  OwnText(Failure(request))
  BY DEF OwnText, Failure

LEMMA NoTextIsOwn ==
  ASSUME NEW p \in Procs, NEW text,
         NameOf(build[p]) \notin shared => text \in {NoPacket, build[p].packet}
  PROVE  OwnText([request |-> build[p].request, first |-> build[p].first,
                  now |-> build[p].now, packet |-> build[p].packet, text |-> text])
  BY DEF OwnText, NameOf

\* What a write leaves of the pairs: the name it is for, and the others.
LEMMA ExportEffect ==
  ASSUME TypeInv, NEW p \in Procs, NEW file \in {"md", "json"}, NEW content,
         Export(p, file, content), NEW name \in Names
  PROVE  /\ name # NameOf(build[p]) => exports'[name] = exports[name]
         /\ name = NameOf(build[p]) /\ file = "md" =>
              exports'[name].md = content /\ exports'[name].json = exports[name].json
         /\ name = NameOf(build[p]) /\ file = "json" =>
              exports'[name].json = content /\ exports'[name].md = exports[name].md
  <1>1. exports \in [Names -> ExportPair] /\ exports[name] \in ExportPair
    BY DEF TypeInv, BuildTypeOK
  <1>2. exports'[name] = IF name = NameOf(build[p])
                         THEN [exports[name] EXCEPT ![file] = content] ELSE exports[name]
    BY <1>1 DEF Export
  <1> QED BY <1>1, <1>2 DEF ExportPair

\* The Markdown of a name is written, whole or torn.
LEMMA MarkdownKeepsExports ==
  ASSUME TypeInv, ExportInv, NEW p \in Procs, NEW r, NEW content,
         build' = [build EXCEPT ![p] = r],
         r.step \notin {"json", "readback"} \/ (NameOf(r) = NameOf(build[p]) /\ r.packet = content),
         Export(p, "md", content),
         shared' = shared \cup {name \in {NameOf(build[p])} : IsTaken(name)},
         \A q \in Procs : results'[q] = results[q] \/ OwnText(results'[q])
  PROVE  ExportInv'
  <1>1. build \in [Procs -> Build]
    BY DEF TypeInv, BuildTypeOK
  <1>2. ASSUME NEW q \in Procs
        PROVE  build'[q] = IF q = p THEN r ELSE build[q]
    BY <1>1
  <1> DEFINE N == NameOf(build[p])
  <1>3. N \in Names
    BY <1>1, NameIsName
  <1>4. N \notin shared' => exports[N].md = NoPacket /\ exports[N].json = NoPacket
    BY DEF IsTaken
  <1>5. ASSUME NEW name \in Names PROVE PairAgrees(name)'
    <2>1. CASE name = N
      <3>1. exports'[N].json = exports[N].json
        BY <1>3, ExportEffect
      <3> QED BY <1>4, <2>1, <3>1 DEF PairAgrees
    <2>2. CASE name # N
      BY <2>2, ExportEffect DEF ExportInv, PairAgrees
    <2> QED BY <2>1, <2>2
  <1>6. ASSUME NEW q \in Procs PROVE OnDisk(build[q])'
    <2>1. CASE q = p
      <3>1. exports'[N].md = content
        BY <1>3, ExportEffect
      <3> QED BY <1>2, <2>1, <3>1 DEF OnDisk, NameOf
    <2>2. CASE q # p
      <3>1. build[q] \in Build /\ build[q].packet \in Packet /\ NameOf(build[q]) \in Names
        BY <1>1, NameIsName DEF Build
      <3>2. build[q].packet # NoPacket
        BY <3>1, NoPacketsAreNoPackets
      <3>3. build'[q] = build[q] /\ OnDisk(build[q])
        BY <1>2, <2>2 DEF ExportInv
      <3>4. CASE NameOf(build[q]) = N
        BY <1>4, <3>2, <3>3, <3>4 DEF OnDisk, NameOf
      <3>5. CASE NameOf(build[q]) # N
        <4>1. exports'[NameOf(build[q])] = exports[NameOf(build[q])]
          BY <3>1, <3>5, ExportEffect
        <4> QED BY <3>3, <4>1 DEF OnDisk, NameOf
      <3> QED BY <3>4, <3>5
    <2> QED BY <2>1, <2>2
  <1>7. ASSUME NEW q \in Procs PROVE OwnText(results[q])'
    BY DEF ExportInv, OwnText
  <1> QED BY <1>5, <1>6, <1>7 DEF ExportInv

\* The JSON of a name is written, whole or torn, by the build that wrote its
\* Markdown.
LEMMA JsonKeepsExports ==
  ASSUME TypeInv, ExportInv, NEW p \in Procs, build[p].step = "json", NEW r,
         NEW content \in {build[p].packet, Torn},
         build' = [build EXCEPT ![p] = r],
         r.step \notin {"json", "readback"}
           \/ (NameOf(r) = NameOf(build[p]) /\ r.packet = build[p].packet),
         Export(p, "json", content), UNCHANGED shared,
         \A q \in Procs : results'[q] = results[q] \/ OwnText(results'[q])
  PROVE  ExportInv'
  <1>1. build \in [Procs -> Build]
    BY DEF TypeInv, BuildTypeOK
  <1>2. ASSUME NEW q \in Procs
        PROVE  build'[q] = IF q = p THEN r ELSE build[q]
    BY <1>1
  <1>3. \A name \in Names : exports'[name].md = exports[name].md
    BY ExportEffect
  <1>4. OnDisk(build[p]) /\ NameOf(build[p]) \in Names
    BY <1>1, NameIsName DEF ExportInv
  <1>5. ASSUME NEW name \in Names PROVE PairAgrees(name)'
    <2>1. CASE name = NameOf(build[p])
      <3>1. exports'[name].json = content
        BY <2>1, ExportEffect
      <3> QED BY <1>3, <1>4, <2>1, <3>1 DEF PairAgrees, OnDisk
    <2>2. CASE name # NameOf(build[p])
      BY <2>2, ExportEffect DEF ExportInv, PairAgrees
    <2> QED BY <2>1, <2>2
  <1>6. ASSUME NEW q \in Procs PROVE OnDisk(build[q])'
    <2>1. OnDisk(build[q]) /\ NameOf(build[q]) \in Names
      BY <1>1, NameIsName DEF ExportInv
    <2> QED BY <1>2, <1>3, <1>4, <2>1 DEF OnDisk, NameOf
  <1>7. ASSUME NEW q \in Procs PROVE OwnText(results[q])'
    BY DEF ExportInv, OwnText
  <1> QED BY <1>5, <1>6, <1>7 DEF ExportInv

LEMMA ExportInvStep ==
  ASSUME TypeInv, ExportInv, [BuildNext]_buildVars
  PROVE  ExportInv'
  <1>1. CASE UNCHANGED buildVars \/ Environment
    BY <1>1 DEF buildVars, Environment, MoveHead, Tick, Edit, ExportInv, OnDisk, OwnText,
                PairAgrees, NameOf
  <1>2. ASSUME NEW p \in Procs, Fail(p), UNCHANGED <<exports, shared>> PROVE ExportInv'
    BY <1>2, FailureIsOwn, EndKeepsExports DEF Fail
  <1>3. ASSUME NEW p \in Procs, NEW text, Deliver(p, text), UNCHANGED <<exports, shared>>,
               NameOf(build[p]) \notin shared => text \in {NoPacket, build[p].packet}
        PROVE  ExportInv'
    <2> DEFINE r == [request |-> build[p].request, first |-> build[p].first,
                     now |-> build[p].now, packet |-> build[p].packet, text |-> text]
    <2>1. OwnText(r)
      BY <1>3, NoTextIsOwn
    <2>2. build' = [build EXCEPT ![p] = Idle] /\ results' = [results EXCEPT ![p] = r]
      BY <1>3 DEF Deliver
    <2> HIDE DEF r
    <2> QED BY <1>3, <2>1, <2>2, EndKeepsExports
  <1>4. ASSUME NEW p \in Procs, NEW request, Begin(p, request) PROVE ExportInv'
    <2>1. [Idle EXCEPT !.step = "begun", !.request = request, !.first = head].step = "begun"
      BY DEF Idle
    <2> QED BY <1>4, <2>1, ReadingKeepsExports DEF Begin
  <1>5. ASSUME NEW p \in Procs, NEW request, BeginRefused(p, request) PROVE ExportInv'
    <2>1. results \in [Procs -> Result]
      BY DEF TypeInv, BuildTypeOK
    <2>2. ASSUME NEW q \in Procs
          PROVE  results'[q] = IF q = p THEN Failure(request) ELSE results[q]
      BY <1>5, <2>1 DEF BeginRefused
    <2>3. ASSUME NEW q \in Procs PROVE OwnText(results[q])'
      BY <1>5, <2>2 DEF BeginRefused, ExportInv, OwnText, Failure
    <2> QED BY <1>5, <2>3 DEF BeginRefused, ExportInv, OnDisk, PairAgrees, NameOf
  <1>6. ASSUME NEW p \in Procs, BuildStep(p) PROVE ExportInv'
    <2>1. build[p] \in Build
      BY DEF TypeInv, BuildTypeOK
    <2>2. CASE OpenSelection(p)
      <3> DEFINE r == [build[p] EXCEPT !.step = "reading", !.now = clock, !.unread = Named \ Neighbors,
                         !.todo = Files \ Neighbors,
                         !.packet = EmptyPacket(head, build[p].request.slug)]
      <3>1. r.step = "reading"
        BY <2>1 DEF Build
      <3>2. build' = [build EXCEPT ![p] = r] /\ UNCHANGED <<exports, shared, results>>
        BY <2>2 DEF OpenSelection
      <3> HIDE DEF r
      <3> QED BY <3>1, <3>2, ReadingKeepsExports
    <2>a. CASE Expand(p)
      <3> DEFINE r == [build[p] EXCEPT !.unread = Named \cap Neighbors, !.todo = Neighbors,
                                       !.expanded = TRUE]
      <3>1. r.step = "reading"
        BY <2>1, <2>a DEF Build, Expand, IsAdmitting
      <3>2. build' = [build EXCEPT ![p] = r] /\ UNCHANGED <<exports, shared, results>>
        BY <2>a DEF Expand
      <3> HIDE DEF r
      <3> QED BY <3>1, <3>2, ReadingKeepsExports
    <2>b. ASSUME NEW f \in Files, ReadNames(p, f) PROVE ExportInv'
      <3> DEFINE n == [build[p].names EXCEPT ![f] = work[f]]
                 r == [build[p] EXCEPT !.unread = build[p].unread \ {f}, !.names = n]
      <3>1. build' = [build EXCEPT ![p] = r] /\ UNCHANGED <<exports, shared, results>>
        BY <2>b DEF ReadNames
      <3> HIDE DEF n
      <3>2. r.step = "reading"
        BY <2>1, <2>b DEF Build, ReadNames
      <3> HIDE DEF r
      <3> QED BY <3>1, <3>2, ReadingKeepsExports
    <2>3. ASSUME NEW f \in Files, LeaveOut(p, f) PROVE ExportInv'
      <3> DEFINE r == [build[p] EXCEPT !.todo = build[p].todo \ {f}]
      <3>1. r.step = "reading"
        BY <2>1, <2>3 DEF Build, IsAdmitting, LeaveOut
      <3>2. build' = [build EXCEPT ![p] = r] /\ UNCHANGED <<exports, shared, results>>
        BY <2>3 DEF IsAdmitting, IsAdmitting, LeaveOut
      <3> HIDE DEF r
      <3> QED BY <3>1, <3>2, ReadingKeepsExports
    <2>4. ASSUME NEW f \in Files, ReadPrefix(p, f) PROVE ExportInv'
      <3> DEFINE r == IF f \in CutGoFiles
                      THEN [build[p] EXCEPT !.step = "whole", !.todo = build[p].todo \ {f},
                                            !.path = f, !.held = Prefix(f)]
                      ELSE [build[p] EXCEPT !.todo = build[p].todo \ {f},
                              !.packet = Included(build[p].packet, f, Prefix(f), build[p].names[f])]
      <3>1. r.step \in {"whole", "reading"}
        BY <2>1, <2>4 DEF Build, IsAdmitting, ReadPrefix
      <3>2. build' = [build EXCEPT ![p] = r] /\ UNCHANGED <<exports, shared, results>>
        BY <2>4 DEF IsAdmitting, IsAdmitting, ReadPrefix
      <3> HIDE DEF r
      <3> QED BY <3>1, <3>2, ReadingKeepsExports
    <2>5. CASE ReadWhole(p)
      <3>1. PICK text : build' = [build EXCEPT ![p] =
                [build[p] EXCEPT !.step = "reading", !.path = NoText, !.held = NoText,
                                 !.packet = Included(build[p].packet, build[p].path, text, build[p].names[build[p].path])]]
        BY <2>5 DEF ReadWhole
      <3> DEFINE r == [build[p] EXCEPT !.step = "reading", !.path = NoText, !.held = NoText,
                         !.packet = Included(build[p].packet, build[p].path, text, build[p].names[build[p].path])]
      <3>2. r.step = "reading"
        BY <2>1 DEF Build
      <3>3. build' = [build EXCEPT ![p] = r] /\ UNCHANGED <<exports, shared, results>>
        BY <2>5, <3>1 DEF ReadWhole
      <3> HIDE DEF r
      <3> QED BY <3>2, <3>3, ReadingKeepsExports
    <2>6. CASE Assemble(p)
      <3> DEFINE r == [build[p] EXCEPT !.step = "assembled",
                         !.packet = [build[p].packet EXCEPT !.guidance =
                                       [g \in Guidance |-> build[p].packet.items[g]]]]
      <3>1. r.step = "assembled"
        BY <2>1 DEF Build
      <3>2. build' = [build EXCEPT ![p] = r] /\ UNCHANGED <<exports, shared, results>>
        BY <2>6 DEF IsAdmitting, IsAdmitting, Assemble
      <3> HIDE DEF r
      <3> QED BY <3>1, <3>2, ReadingKeepsExports
    <2>7. CASE Recheck(p)
      <3>1. ASSUME build' = [build EXCEPT ![p] = [@ EXCEPT !.step = "markdown"]],
                   UNCHANGED results
            PROVE  ExportInv'
        <4>1. [build[p] EXCEPT !.step = "markdown"].step = "markdown"
          BY <2>1 DEF Build
        <4> QED BY <2>7, <3>1, <4>1, ReadingKeepsExports DEF Recheck
      <3> QED BY <1>3, <2>7, <3>1 DEF Recheck
    <2>8. CASE RecheckRefused(p)
      BY <1>2, <2>8 DEF RecheckRefused
    <2>9. CASE WriteMarkdown(p)
      <3> DEFINE r == [build[p] EXCEPT !.step = "json"]
      <3>1. NameOf(r) = NameOf(build[p]) /\ r.packet = build[p].packet
        BY <2>1 DEF Build, NameOf
      <3>2. build' = [build EXCEPT ![p] = r] /\ Export(p, "md", build[p].packet)
              /\ shared' = shared \cup {name \in {NameOf(build[p])} : IsTaken(name)}
              /\ results' = results
        BY <2>9 DEF WriteMarkdown
      <3> HIDE DEF r
      <3> QED BY <3>1, <3>2, MarkdownKeepsExports
    <2>10. CASE WriteJson(p)
      <3>1. build[p].step = "json" /\ Export(p, "json", build[p].packet) /\ UNCHANGED shared
        BY <2>10 DEF WriteJson
      <3>2. CASE Deliver(p, NoPacket)
        <4>1. Idle.step = "idle"
          BY DEF Idle
        <4>2. results \in [Procs -> Result] /\ build' = [build EXCEPT ![p] = Idle]
          BY <3>2 DEF TypeInv, BuildTypeOK, Deliver
        <4>3. ASSUME NEW q \in Procs PROVE results'[q] = results[q] \/ OwnText(results'[q])
          BY <3>2, <4>2, NoTextIsOwn DEF Deliver
        <4> QED BY <3>1, <4>1, <4>2, <4>3, JsonKeepsExports
      <3>3. ASSUME build' = [build EXCEPT ![p] = [@ EXCEPT !.step = "readback"]],
                   UNCHANGED results
            PROVE  ExportInv'
        <4> DEFINE r == [build[p] EXCEPT !.step = "readback"]
        <4>1. NameOf(r) = NameOf(build[p]) /\ r.packet = build[p].packet
          BY <2>1 DEF Build, NameOf
        <4>2. build' = [build EXCEPT ![p] = r]
          BY <3>3
        <4> HIDE DEF r
        <4> QED BY <3>1, <3>3, <4>1, <4>2, JsonKeepsExports
      <3> QED BY <2>10, <3>2, <3>3 DEF WriteJson
    <2>11. CASE ReadBack(p)
      <3>1. NameOf(build[p]) \notin shared => exports[NameOf(build[p])].md = build[p].packet
        BY <2>11 DEF ReadBack, ExportInv, OnDisk
      <3> QED BY <1>3, <2>11, <3>1 DEF ReadBack
    <2> QED BY <1>6, <2>a, <2>b, <2>2, <2>3, <2>4, <2>5, <2>6, <2>7, <2>8, <2>9, <2>10, <2>11
            DEF BuildStep
  <1>7. ASSUME NEW p \in Procs, Stop(p) PROVE ExportInv'
    BY <1>2, <1>7 DEF Stop
  <1>8. ASSUME NEW p \in Procs, Tear(p) PROVE ExportInv'
    <2>1. build' = [build EXCEPT ![p] = Idle] /\ Idle.step = "idle"
      BY <1>8 DEF Tear, Fail, Idle
    <2>2. ASSUME NEW q \in Procs PROVE results'[q] = results[q] \/ OwnText(results'[q])
      BY <1>8, FailureIsOwn DEF Tear, Fail, TypeInv, BuildTypeOK
    <2>3. CASE build[p].step = "markdown"
      <3>1. Export(p, "md", Torn)
              /\ shared' = shared \cup {name \in {NameOf(build[p])} : IsTaken(name)}
        BY <1>8, <2>3 DEF Tear
      <3> QED BY <2>1, <2>2, <3>1, MarkdownKeepsExports
    <2>4. CASE build[p].step = "json"
      <3>1. Export(p, "json", Torn) /\ UNCHANGED shared
        BY <1>8, <2>4 DEF Tear
      <3> QED BY <2>1, <2>2, <2>4, <3>1, JsonKeepsExports
    <2> QED BY <1>8, <2>3, <2>4 DEF Tear
  <1> QED BY <1>1, <1>4, <1>5, <1>6, <1>7, <1>8 DEF BuildNext

LEMMA ExportInvHolds == BuildSpec => []ExportInv
  <1>1. BuildInit => TypeInv /\ ExportInv
    <2> SUFFICES ASSUME BuildInit PROVE ExportInv
      BY TypeInvInit
    <2> QED BY FailureIsOwn DEF BuildInit, ExportInv, OnDisk, PairAgrees, Idle
  <1>2. TypeInv /\ ExportInv /\ [BuildNext]_buildVars => TypeInv' /\ ExportInv'
    BY TypeInvStep, ExportInvStep
  <1> QED BY <1>1, <1>2, PTL DEF BuildSpec

\* A name that one build had for itself holds one packet, in both formats.
THEOREM SoleExportsDoAgree == BuildSpec => []SoleExportsAgree
  <1>1. ExportInv => SoleExportsAgree
    BY DEF ExportInv, PairAgrees, SoleExportsAgree
  <1> QED BY <1>1, ExportInvHolds, PTL

\* The Markdown a caller is given is of its packet, if the name is its own.
THEOREM ReadBackIsOwnPacket == BuildSpec => []ReadBackIsOwn
  <1>1. ExportInv => ReadBackIsOwn
    BY DEF ExportInv, OwnText, ReadBackIsOwn
  <1> QED BY <1>1, ExportInvHolds, PTL

-----------------------------------------------------------------------------
(* Every build ends. *)

\* What a build has left of its selection: the names to read, two steps for each
\* candidate, and the second pass if it has not begun.
SelectionWork(b) ==
  Cardinality(b.unread) + 2 * Cardinality(b.todo)
    + (IF b.expanded THEN 0 ELSE 3 * Cardinality(Files) + 1)

\* The steps that a build has left at most.
BuildWork(b) ==
  CASE b.step = "begun"     -> 6 * Cardinality(Files) + 7
    [] b.step = "reading"   -> SelectionWork(b) + 5
    [] b.step = "whole"     -> SelectionWork(b) + 6
    [] b.step = "assembled" -> 4
    [] b.step = "markdown"  -> 3
    [] b.step = "json"      -> 2
    [] b.step = "readback"  -> 1
    [] OTHER                -> 0

LEMMA IdleHasNoWork == BuildWork(Idle) = 0
  BY DEF BuildWork, Idle

LEMMA SelectionWorkIsNat ==
  ASSUME IsFiniteSet(Files), NEW b \in Build
  PROVE  /\ SelectionWork(b) \in Nat /\ Cardinality(Files) \in Nat
         /\ Cardinality(b.unread) \in Nat /\ Cardinality(b.todo) \in Nat
<1>1. b.todo \subseteq Files /\ b.unread \subseteq Files
  BY DEF Build
<1>2. /\ Cardinality(b.unread) \in Nat /\ Cardinality(b.todo) \in Nat
      /\ Cardinality(Files) \in Nat
  BY <1>1, FS_Subset, FS_CardinalityType
<1> QED
  BY <1>2 DEF SelectionWork

LEMMA WorkIsNat ==
  ASSUME IsFiniteSet(Files), NEW b \in Build
  PROVE  /\ BuildWork(b) \in Nat /\ Cardinality(Files) \in Nat
         /\ b.step # "idle" => BuildWork(b) > 0
<1> DEFINE S == SelectionWork(b)
           F == Cardinality(Files)
<1>1. b.step \in Steps
  BY DEF Build
<1>5. BuildWork(b) \in {6 * F + 7, S + 5, S + 6, 4, 3, 2, 1, 0}
  BY DEF BuildWork
<1>6. b.step # "idle" => BuildWork(b) \in {6 * F + 7, S + 5, S + 6, 4, 3, 2, 1}
  BY <1>1 DEF BuildWork, Steps
<1> HIDE DEF S, F
<1>7. S \in Nat /\ F \in Nat
  BY SelectionWorkIsNat DEF S, F
<1>8. BuildWork(b) \in Nat /\ (b.step # "idle" => BuildWork(b) > 0)
  BY <1>5, <1>6, <1>7
<1> QED
  BY <1>7, <1>8 DEF F

\* One candidate less is two steps less, and one file's names less is one.
LEMMA SelectionShrinks ==
  ASSUME IsFiniteSet(Files), NEW b \in Build, NEW r, r.expanded = b.expanded, NEW f,
         \/ f \in b.todo /\ r.todo = b.todo \ {f} /\ r.unread = b.unread
         \/ f \in b.unread /\ r.unread = b.unread \ {f} /\ r.todo = b.todo
  PROVE  /\ SelectionWork(r) \in Nat /\ SelectionWork(r) < SelectionWork(b)
         /\ f \in b.todo /\ r.unread = b.unread /\ r.todo # b.todo
              => SelectionWork(r) = SelectionWork(b) - 2
<1> DEFINE U == Cardinality(b.unread)
           T == Cardinality(b.todo)
           V == Cardinality(r.unread)
           W == Cardinality(r.todo)
           E == IF b.expanded THEN 0 ELSE 3 * Cardinality(Files) + 1
<1>1. IsFiniteSet(b.todo) /\ IsFiniteSet(b.unread)
  BY FS_Subset DEF Build
<1>2. U \in Nat /\ T \in Nat /\ E \in Nat
  BY SelectionWorkIsNat
<1>3. SelectionWork(b) = U + 2 * T + E /\ SelectionWork(r) = V + 2 * W + E
  BY DEF SelectionWork
<1>4. CASE f \in b.todo /\ r.todo = b.todo \ {f} /\ r.unread = b.unread
  <2>1. W = T - 1 /\ W \in Nat /\ V = U
    BY <1>1, <1>4, FS_RemoveElement, FS_CardinalityType
  <2> HIDE DEF U, T, V, W, E
  <2> QED
    BY <1>2, <1>3, <2>1
<1>5. CASE f \in b.unread /\ r.unread = b.unread \ {f} /\ r.todo = b.todo
  <2>1. V = U - 1
    BY <1>1, <1>5, FS_RemoveElement
  <2>2. V \in Nat
    BY <1>1, <1>5, FS_RemoveElement, FS_CardinalityType
  <2>3. r.todo = b.todo /\ W = T
    BY <1>5
  <2> HIDE DEF U, T, V, W, E
  <2> QED
    BY <1>2, <1>3, <2>1, <2>2, <2>3
<1> QED
  BY <1>4, <1>5

LEMMA BuildStepWork ==
  ASSUME IsFiniteSet(Files), BuildTypeOK, NEW p \in Procs, BuildStep(p)
  PROVE  BuildWork(build'[p]) \in Nat /\ BuildWork(build'[p]) < BuildWork(build[p])
<1> DEFINE b == build[p]
           F == Cardinality(Files)
           S == SelectionWork(b)
           Less == BuildWork(build'[p]) \in Nat /\ BuildWork(build'[p]) < BuildWork(build[p])
<1>0. b \in Build /\ build \in [Procs -> Build]
  BY DEF BuildTypeOK
<1>f. F \in Nat /\ S \in Nat
  BY <1>0, SelectionWorkIsNat
<1>s. \A r : /\ r.step = "begun" => BuildWork(r) = 6 * F + 7
             /\ r.step = "reading" => BuildWork(r) = SelectionWork(r) + 5
             /\ r.step = "whole" => BuildWork(r) = SelectionWork(r) + 6
             /\ r.step = "assembled" => BuildWork(r) = 4
             /\ r.step = "markdown" => BuildWork(r) = 3
             /\ r.step = "json" => BuildWork(r) = 2
             /\ r.step = "readback" => BuildWork(r) = 1
  BY DEF BuildWork
<1>r. \A r : build' = [build EXCEPT ![p] = r] => build'[p] = r
  BY <1>0
<1>e. ASSUME build' = [build EXCEPT ![p] = Idle], b.step # "idle" PROVE Less
  BY <1>0, <1>e, <1>r, IdleHasNoWork, WorkIsNat
<1>w. ASSUME NEW r, build'[p] = r, r.step = "reading", b.step = "reading",
             SelectionWork(r) \in Nat, SelectionWork(r) < S
      PROVE  Less
  <2>1. BuildWork(r) = SelectionWork(r) + 5 /\ BuildWork(b) = S + 5
    BY <1>s, <1>w
  <2> HIDE DEF S
  <2> QED
    BY <1>f, <1>w, <2>1
<1>p. ASSUME NEW r, r.todo \subseteq Files, r.unread \subseteq Files
      PROVE  /\ Cardinality(r.todo) \in Nat /\ Cardinality(r.todo) <= F
             /\ Cardinality(r.unread) \in Nat /\ Cardinality(r.unread) <= F
  BY <1>p, FS_Subset, FS_CardinalityType
<1>1. CASE OpenSelection(p)
  <2> DEFINE r == [b EXCEPT !.step = "reading", !.now = clock, !.unread = Named \ Neighbors,
                            !.todo = Files \ Neighbors,
                            !.packet = EmptyPacket(head, build[p].request.slug)]
  <2>1. /\ r.step = "reading" /\ r.todo \subseteq Files /\ r.unread \subseteq Files
    BY <1>0, FileSetsAreFiles DEF Build
  <2>2. build'[p] = r /\ b.step = "begun"
    BY <1>1, <1>r DEF OpenSelection
  <2> HIDE DEF r
  <2> DEFINE U == Cardinality(r.unread)
             T == Cardinality(r.todo)
             E == IF r.expanded THEN 0 ELSE 3 * F + 1
  <2>3. U \in Nat /\ T \in Nat /\ U <= F /\ T <= F /\ E \in Nat /\ E <= 3 * F + 1
    BY <1>f, <1>p, <2>1
  <2>4. BuildWork(r) = U + 2 * T + E + 5 /\ BuildWork(b) = 6 * F + 7
    BY <1>s, <2>1, <2>2 DEF SelectionWork
  <2> HIDE DEF U, T, E, F
  <2>5. BuildWork(r) \in Nat /\ BuildWork(r) < BuildWork(b)
    BY <1>f, <2>3, <2>4
  <2> QED
    BY <2>2, <2>5
<1>x. CASE Expand(p)
  <2> DEFINE r == [b EXCEPT !.unread = Named \cap Neighbors, !.todo = Neighbors,
                            !.expanded = TRUE]
  <2>1. build'[p] = r /\ b.step = "reading" /\ b.unread = {} /\ b.todo = {} /\ ~b.expanded
    BY <1>x, <1>r DEF Expand, IsAdmitting
  <2>2. /\ r.step = "reading" /\ r.todo \subseteq Files /\ r.unread \subseteq Files
        /\ r.expanded = TRUE
    BY <1>0, <2>1, FileSetsAreFiles DEF Build
  <2> HIDE DEF r
  <2> DEFINE U == Cardinality(r.unread)
             T == Cardinality(r.todo)
  <2>3. U \in Nat /\ T \in Nat /\ U <= F /\ T <= F
    BY <1>p, <2>2
  <2>4. SelectionWork(r) = U + 2 * T
    BY <2>2, <2>3 DEF SelectionWork
  <2>5. S = 3 * F + 1
    BY <1>f, <2>1, FS_EmptySet DEF SelectionWork
  <2> HIDE DEF U, T, F, S
  <2>6. SelectionWork(r) \in Nat /\ SelectionWork(r) < S
    BY <1>f, <2>3, <2>4, <2>5
  <2> QED
    BY <1>w, <2>1, <2>2, <2>6
<1>n. ASSUME NEW f \in Files, ReadNames(p, f) PROVE Less
  <2> DEFINE n == [b.names EXCEPT ![f] = work[f]]
             r == [b EXCEPT !.unread = b.unread \ {f}, !.names = n]
  <2>1. f \in b.unread /\ b.step = "reading" /\ build'[p] = r
    BY <1>n, <1>r DEF ReadNames
  <2> HIDE DEF n
  <2>2. /\ r.step = "reading" /\ r.unread = b.unread \ {f} /\ r.todo = b.todo
        /\ r.expanded = b.expanded
    BY <1>0, <2>1 DEF Build
  <2> HIDE DEF r
  <2>3. SelectionWork(r) \in Nat /\ SelectionWork(r) < S
    BY <1>0, <2>1, <2>2, SelectionShrinks
  <2> QED
    BY <1>w, <2>1, <2>2, <2>3
<1>2. ASSUME NEW f \in Files, LeaveOut(p, f) PROVE Less
  <2> DEFINE r == [b EXCEPT !.todo = b.todo \ {f}]
  <2>1. f \in b.todo /\ b.step = "reading" /\ build'[p] = r
    BY <1>2, <1>r DEF LeaveOut, IsAdmitting
  <2>2. /\ r.step = "reading" /\ r.todo = b.todo \ {f} /\ r.unread = b.unread
        /\ r.expanded = b.expanded
    BY <1>0, <2>1 DEF Build
  <2> HIDE DEF r
  <2>3. SelectionWork(r) \in Nat /\ SelectionWork(r) < S
    BY <1>0, <2>1, <2>2, SelectionShrinks
  <2> QED
    BY <1>w, <2>1, <2>2, <2>3
<1>3. ASSUME NEW f \in Files, ReadPrefix(p, f) PROVE Less
  <2> DEFINE r == [b EXCEPT !.step = "whole", !.todo = b.todo \ {f},
                            !.path = f, !.held = Prefix(f)]
             i == Included(b.packet, f, Prefix(f), b.names[f])
             n == [b EXCEPT !.todo = b.todo \ {f}, !.packet = i]
  <2>1. f \in b.todo /\ b.step = "reading" /\ build'[p] = IF f \in CutGoFiles THEN r ELSE n
    BY <1>3, <1>r DEF ReadPrefix, IsAdmitting
  <2> HIDE DEF i
  <2>2. /\ r.step = "whole" /\ r.todo = b.todo \ {f} /\ r.unread = b.unread
        /\ r.expanded = b.expanded
        /\ n.step = "reading" /\ n.todo = b.todo \ {f} /\ n.unread = b.unread
        /\ n.expanded = b.expanded
    BY <1>0, <2>1 DEF Build
  <2> HIDE DEF r, n
  <2>3. /\ SelectionWork(r) \in Nat /\ SelectionWork(r) = S - 2
        /\ SelectionWork(n) \in Nat /\ SelectionWork(n) < S
    BY <1>0, <2>1, <2>2, SelectionShrinks
  <2>4. CASE build'[p] = n
    BY <1>w, <2>1, <2>2, <2>3, <2>4
  <2>5. CASE build'[p] = r
    <3>1. BuildWork(r) = SelectionWork(r) + 6 /\ BuildWork(b) = S + 5
      BY <1>s, <2>1, <2>2
    <3> HIDE DEF S
    <3> QED
      BY <1>f, <2>3, <2>5, <3>1
  <2> QED
    BY <2>1, <2>4, <2>5
<1>4. CASE ReadWhole(p)
  <2>1. PICK text : build' = [build EXCEPT ![p] =
                      [b EXCEPT !.step = "reading", !.path = NoText, !.held = NoText,
                                !.packet = Included(b.packet, b.path, text, b.names[b.path])]]
    BY <1>4 DEF ReadWhole
  <2> DEFINE i == Included(b.packet, b.path, text, b.names[b.path])
             r == [b EXCEPT !.step = "reading", !.path = NoText, !.held = NoText, !.packet = i]
  <2>2. build'[p] = r /\ b.step = "whole"
    BY <1>4, <1>r, <2>1 DEF ReadWhole
  <2> HIDE DEF i
  <2>3. /\ r.step = "reading" /\ r.todo = b.todo /\ r.unread = b.unread
        /\ r.expanded = b.expanded
    BY <1>0 DEF Build
  <2> HIDE DEF r
  <2>4. SelectionWork(r) = S
    BY <2>3 DEF SelectionWork
  <2>5. BuildWork(r) = S + 5 /\ BuildWork(b) = S + 6
    BY <1>s, <2>2, <2>3, <2>4
  <2> HIDE DEF S
  <2> QED
    BY <1>f, <2>2, <2>5
<1>5. CASE Assemble(p)
  <2> DEFINE i == [b.packet EXCEPT !.guidance = [g \in Guidance |-> b.packet.items[g]]]
             r == [b EXCEPT !.step = "assembled", !.packet = i]
  <2>1. build'[p] = r /\ b.step = "reading"
    BY <1>5, <1>r DEF Assemble, IsAdmitting
  <2> HIDE DEF i
  <2>2. r.step = "assembled"
    BY <1>0 DEF Build
  <2> HIDE DEF r
  <2>3. BuildWork(r) = 4 /\ BuildWork(b) = S + 5
    BY <1>s, <2>1, <2>2
  <2> HIDE DEF S
  <2> QED
    BY <1>f, <2>1, <2>3
<1>6. CASE Recheck(p)
  <2>1. b.step = "assembled"
    BY <1>6 DEF Recheck
  <2>2. CASE build' = [build EXCEPT ![p] = Idle]
    BY <1>e, <2>1, <2>2
  <2>3. CASE build' = [build EXCEPT ![p] = [b EXCEPT !.step = "markdown"]]
    <3>1. build'[p].step = "markdown"
      BY <1>0, <1>r, <2>3 DEF Build
    <3>2. BuildWork(build'[p]) = 3 /\ BuildWork(b) = 4
      BY <1>s, <2>1, <3>1
    <3> QED
      BY <3>2
  <2> QED
    BY <1>6, <2>2, <2>3 DEF Recheck, Deliver
<1>7. CASE RecheckRefused(p)
  BY <1>7, <1>e DEF RecheckRefused, Fail
<1>8. CASE WriteMarkdown(p)
  <2>1. b.step = "markdown" /\ build' = [build EXCEPT ![p] = [b EXCEPT !.step = "json"]]
    BY <1>8 DEF WriteMarkdown
  <2>2. build'[p].step = "json"
    BY <1>0, <1>r, <2>1 DEF Build
  <2>3. BuildWork(build'[p]) = 2 /\ BuildWork(b) = 3
    BY <1>s, <2>1, <2>2
  <2> QED
    BY <2>3
<1>9. CASE WriteJson(p)
  <2>1. b.step = "json"
    BY <1>9 DEF WriteJson
  <2>2. CASE build' = [build EXCEPT ![p] = Idle]
    BY <1>e, <2>1, <2>2
  <2>3. CASE build' = [build EXCEPT ![p] = [b EXCEPT !.step = "readback"]]
    <3>1. build'[p].step = "readback"
      BY <1>0, <1>r, <2>3 DEF Build
    <3>2. BuildWork(build'[p]) = 1 /\ BuildWork(b) = 2
      BY <1>s, <2>1, <3>1
    <3> QED
      BY <3>2
  <2> QED
    BY <1>9, <2>2, <2>3 DEF WriteJson, Deliver
<1>10. CASE ReadBack(p)
  BY <1>10, <1>e DEF ReadBack, Deliver
<1> QED
  BY <1>1, <1>x, <1>n, <1>2, <1>3, <1>4, <1>5, <1>6, <1>7, <1>8, <1>9, <1>10 DEF BuildStep

\* However many builds run at once and whatever is saved, committed or stopped
\* beside them, each step of a build leaves it less to do: it reads each candidate
\* at most once for its names and once for its content, but for the declarations of
\* a Go file, expands once, and starts nothing over when HEAD has moved.
THEOREM BuildStepsLeaveLess ==
  ASSUME IsFiniteSet(Files)
  PROVE  BuildSpec => [][\A p \in Procs : BuildStep(p) =>
                           /\ BuildWork(build'[p]) \in Nat
                           /\ BuildWork(build'[p]) < BuildWork(build[p])]_buildVars
<1>1. BuildTypeOK /\ [BuildNext]_buildVars =>
        [\A p \in Procs : BuildStep(p) =>
           /\ BuildWork(build'[p]) \in Nat
           /\ BuildWork(build'[p]) < BuildWork(build[p])]_buildVars
  BY BuildStepWork
<1> QED
  BY <1>1, PacketsTypeCorrect, PTL DEF BuildSpec
=============================================================================
