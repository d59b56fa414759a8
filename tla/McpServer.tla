------------------------------ MODULE McpServer ------------------------------
(***************************************************************************)
(* `struktly mcp`: Serve reads one JSON-RPC message per line and answers   *)
(* it before it reads the next.  A context_brief call is a build of module *)
(* PacketBuild by the process Server, beside the builds that other         *)
(* processes run over the same repository.                                 *)
(***************************************************************************)
EXTENDS PacketBuild, Sequences, FiniteSets

CONSTANTS
  Server,      \* the process that serves, one of Procs
  Scripts,     \* what a client may send before it closes the stream
  BriefSlugs   \* slugs of the requests made over MCP

Lines == {"oversize", "blank", "garbage", "notification", "ping", "unknown_method",
          "bad_params", "unknown_tool", "bad_arguments", "scan", "brief"}

\* No bound keeps the server from a call.
ASSUME EveryCallMayBuild ==
  \A lines \in Scripts :
    Cardinality({i \in DOMAIN lines : lines[i] = "brief"}) <= MaxBuilds[Server]
ASSUME ServerIsAProcess == Server \in Procs
ASSUME ScriptsAreLines == Scripts \subseteq Seq(Lines)
ASSUME BriefSlugsAreSlugs == BriefSlugs \subseteq Slugs

\* What runBrief asks of the builder: it cannot name an expected revision.
BriefRequest(slug) == [slug |-> slug, expected |-> AnyRevision, form |-> "mcp"]

\* Another process may serve too.
ASSUME BriefsAreRequests == \A slug \in BriefSlugs : BriefRequest(slug) \in Requests

VARIABLES
  script,    \* the lines of the stream; the id of a request is its place
  at,        \* the line that is read next
  serving,   \* the line whose tool call is running, 0 for none
  outbox,    \* the answers, in the order written
  closed     \* Serve has returned

serverVars == <<script, at, serving, outbox, closed>>
vars == <<buildVars, serverVars>>

NullId == 0

Bodies == {"result", "tool_error", "-32700", "-32600", "-32601", "-32602"}

Answer == [id : Nat, body : Bodies]

Init ==
  /\ BuildInit
  /\ script \in Scripts
  /\ at = 1 /\ serving = 0 /\ outbox = <<>> /\ closed = FALSE

-----------------------------------------------------------------------------
(* Serve, handleMessage and callTool. *)

Reads(line) ==
  /\ ~closed /\ serving = 0
  /\ at \in DOMAIN script /\ script[at] = line
  /\ at' = at + 1
  /\ UNCHANGED <<script, buildVars>>

Write(id, body) == outbox' = Append(outbox, [id |-> id, body |-> body])

\* Mutant: a line that does not fit the buffer ends the stream.
FailTooLong ==
  /\ Reads("oversize")
  /\ closed' = TRUE
  /\ UNCHANGED <<serving, outbox>>

\* readMessage discards the line and stays in step with the stream.
RefuseOversize ==
  /\ Reads("oversize")
  /\ Write(NullId, "-32600")
  /\ UNCHANGED <<serving, closed>>

SkipBlank ==
  /\ Reads("blank")
  /\ UNCHANGED <<serving, outbox, closed>>

RefuseGarbage ==
  /\ Reads("garbage")
  /\ Write(NullId, "-32700")
  /\ UNCHANGED <<serving, closed>>

\* Mutant: a message without an id is answered.
AnswerNotification ==
  /\ Reads("notification")
  /\ Write(NullId, "result")
  /\ UNCHANGED <<serving, closed>>

\* A message without an id, or with a null one, is never answered.
IgnoreNotification ==
  /\ Reads("notification")
  /\ UNCHANGED <<serving, outbox, closed>>

\* initialize, ping and tools/list
AnswerPing ==
  /\ Reads("ping")
  /\ Write(at, "result")
  /\ UNCHANGED <<serving, closed>>

RefuseMethod ==
  /\ Reads("unknown_method")
  /\ Write(at, "-32601")
  /\ UNCHANGED <<serving, closed>>

\* Malformed params, and a tool that does not exist.
RefuseCall ==
  /\ Reads("bad_params") \/ Reads("unknown_tool")
  /\ Write(at, "-32602")
  /\ UNCHANGED <<serving, closed>>

RefuseArguments ==
  /\ Reads("bad_arguments")
  /\ Write(at, "tool_error")
  /\ UNCHANGED <<serving, closed>>

\* runScan; what a scan writes is not part of any packet.
CallScan ==
  /\ Reads("scan")
  /\ \E body \in {"result", "tool_error"} : Write(at, body)
  /\ UNCHANGED <<serving, closed>>

\* runBrief
CallBrief ==
  /\ ~closed /\ serving = 0
  /\ at \in DOMAIN script /\ script[at] = "brief"
  /\ \E slug \in BriefSlugs : Begin(Server, BriefRequest(slug))
  /\ serving' = at
  /\ at' = at + 1
  /\ UNCHANGED <<script, outbox, closed>>

\* The build is over: its packet and Markdown, or its error, are the answer.
AnswerBrief ==
  /\ serving # 0 /\ build[Server].step = "idle"
  /\ Write(serving, IF results[Server].packet = NoPacket THEN "tool_error" ELSE "result")
  /\ serving' = 0
  /\ UNCHANGED <<buildVars, script, at, closed>>

\* Mutant: the end of the stream is taken for one more line.
CloseAsLine ==
  /\ ~closed /\ serving = 0 /\ at = Len(script) + 1
  /\ closed' = TRUE
  /\ at' = at + 1
  /\ UNCHANGED <<buildVars, script, serving, outbox>>

\* io.EOF
Close ==
  /\ ~closed /\ serving = 0 /\ at = Len(script) + 1
  /\ closed' = TRUE
  /\ UNCHANGED <<buildVars, script, at, serving, outbox>>

-----------------------------------------------------------------------------
ServerStep ==
  \/ RefuseOversize \/ SkipBlank \/ RefuseGarbage \/ IgnoreNotification
  \/ AnswerPing \/ RefuseMethod \/ RefuseCall \/ RefuseArguments
  \/ CallScan \/ CallBrief \/ AnswerBrief \/ Close

\* The steps of every build, the Server's included, and of the environment.
AnyBuildStep ==
  /\ \/ Environment
     \/ \E p \in Procs : BuildStep(p) \/ Stop(p) \/ Tear(p)
     \/ \E p \in Procs \ {Server}, request \in Requests :
          Begin(p, request) \/ BeginRefused(p, request)
  /\ UNCHANGED serverVars

Next == ServerStep \/ AnyBuildStep

Spec == Init /\ [][Next]_vars

(***************************************************************************)
(* The server's one goroutine keeps running; nobody else has to.           *)
(***************************************************************************)
FairSpec ==
  /\ Spec
  /\ WF_vars(ServerStep)
  /\ WF_vars(BuildStep(Server) /\ UNCHANGED serverVars)

-----------------------------------------------------------------------------
TypeOK ==
  /\ BuildTypeOK
  /\ script \in Seq(Lines)
  /\ at \in 1..(Len(script) + 1)
  /\ serving \in 0..Len(script)
  /\ outbox \in Seq(Answer)
  /\ closed \in BOOLEAN

IsAnswered(line) == script[line] \notin {"blank", "notification"}

IdOf(line) == IF script[line] \in {"oversize", "garbage"} THEN NullId ELSE line

\* The lines that are over: read, and not the one whose call is running.
Handled == 1..((IF serving = 0 THEN at ELSE serving) - 1)

Due == {line \in Handled : IsAnswered(line)}

\* One answer per request, under its id and in the order the requests were
\* sent, whatever refused, skipped or failing lines lie between them; a null id
\* where the request cannot be identified, and none for a notification.
AnswersInOrder ==
  \E line \in [DOMAIN outbox -> Due] :
    /\ \A due \in Due : \E i \in DOMAIN outbox : line[i] = due
    /\ \A i, j \in DOMAIN outbox : i < j => line[i] < line[j]
    /\ \A i \in DOMAIN outbox : outbox[i].id = IdOf(line[i])

\* "The server keeps serving subsequent requests": every line that asks for an
\* answer gets one, after an oversize or malformed line as after any other.
EveryRequestAnswered ==
  <>[](closed /\ Len(outbox) = Len(SelectSeq([line \in DOMAIN script |-> line], IsAnswered)))
=============================================================================
