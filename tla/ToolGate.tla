------------------------------ MODULE ToolGate ------------------------------
(***************************************************************************)
(* What stands between a model's tool call and the world: the permission   *)
(* policy, the registry, and for imported tools the MCP client, two pipes  *)
(* and the MCP server that runs them (mcp/client.py, mcp/protocol.py,      *)
(* mcp/server.py).  A server is another process: it may say something      *)
(* nobody asked for, and it may die.  The client reads one line for every  *)
(* request and does not look at its id.                                    *)
(***************************************************************************)
EXTENDS Permissions

CONSTANTS
  Files,        \* the rule files a session may load
  LocalTools,   \* name |-> [effect, takes] of the host's own tools
  ServerTools,  \* the same of the server's registry
  Namings,      \* what a prefix makes of the server's names: remote name |-> name
  Calls,        \* [tool, args]: the calls the model may make
  MaxRequests, MaxChatter   \* bounds

\* A rule file is a table of three lists of entries: a tool, and a pattern.
Entry == [tool : STRING, words : Seq(STRING), open : BOOLEAN]
Tables == [{"deny", "allow", "ask"} -> Seq(Entry)]

ASSUME ToolGateAssumption == Files \subseteq Tables /\ MaxRequests \in Nat /\ MaxChatter \in Nat

VARIABLES
  pc,        \* where the host is
  policy,    \* rules, strict (denied_by_default), attended (a prompter is set)
  grants,    \* PermissionPolicy.session_grants
  naming, registry,  \* of the host: registry is name |-> [effect, takes, remote]
  call,      \* the call at hand
  next_id,   \* StdioClient._next_id
  toServer, toClient,  \* the lines in the two pipes
  server,    \* "up" or "down"
  said,      \* the calls a human has agreed to
  ran,       \* the calls whose tool has run
  answers,   \* [call, id, got]: what each remote call was answered with
  chatter    \* lines the server has sent unasked that the client has read

vars == <<pc, policy, grants, naming, registry, call, next_id, toServer, toClient,
          server, said, ran, answers, chatter>>
host == <<policy, grants, naming, registry, call, said, answers>>

None == [tool |-> "", args |-> <<>>]

Init ==
  /\ \E file \in Files, strict, attended \in BOOLEAN :
       policy = [rules |-> Loaded(file), strict |-> strict, attended |-> attended, file |-> file]
  /\ naming \in Namings
  /\ pc = "start" /\ grants = {} /\ call = None /\ next_id = 1
  /\ registry = [n \in DOMAIN LocalTools |->
                   [effect |-> LocalTools[n].effect, takes |-> LocalTools[n].takes, remote |-> ""]]
  /\ toServer = <<>> /\ toClient = <<>> /\ server = "up"
  /\ said = {} /\ ran = {} /\ answers = <<>> /\ chatter = 0

-----------------------------------------------------------------------------
(* StdioClient *)

Request(id, method, what) == [id |-> id, method |-> method, call |-> what]

\* _send up to readline.  A pipe nobody reads any more refuses the line.
Sends(lines, method, what) ==
  /\ server = "up"
  /\ toServer' = toServer \o lines \o <<Request(next_id, method, what)>>
  /\ next_id' = next_id + 1

\* __enter__: the handshake.
Start ==
  /\ pc = "start" /\ Sends(<<>>, "initialize", None) /\ pc' = "hello"
  /\ UNCHANGED <<host, toClient, server, ran, chatter>>

\* _send from readline on: one line, or nothing from a pipe that is closed.
Line == Head(toClient)
Reads ==
  /\ toClient # <<>> /\ toClient' = Tail(toClient)
  /\ chatter' = IF Line.kind = "note" THEN chatter + 1 ELSE chatter
ReadsNothing == toClient = <<>> /\ server = "down" /\ UNCHANGED <<toClient, chatter>>

\* initialize returns, the server is notified, and import_tools asks for the list.
Greeted ==
  /\ pc = "hello" /\ Reads /\ Line.kind # "error"
  /\ Sends(<<Request(0, "notifications/initialized", None)>>, "tools/list", None)
  /\ pc' = "listing"
  /\ UNCHANGED <<host, server, ran>>

\* list_tools and import_tools.  What is not a list of tools is an empty one; a name
\* that is taken raises, and the tools before it stay.  Every imported tool writes.
ImportedTool(t) == [effect |-> "write", takes |-> ServerTools[t].takes, remote |-> t]
With(remotes) ==
  LET names == {naming[t] : t \in remotes}
  IN [n \in DOMAIN registry \cup names |->
        IF n \in names THEN ImportedTool(CHOOSE t \in remotes : naming[t] = n) ELSE registry[n]]
Taken == {t \in DOMAIN ServerTools : naming[t] \in DOMAIN registry}
Import ==
  /\ pc = "listing" /\ Reads /\ Line.kind # "error"
  /\ \E remotes \in SUBSET (DOMAIN ServerTools \ Taken) :
       /\ registry' = With(remotes)
       /\ IF Line.kind # "tools" THEN remotes = {} /\ pc' = "loop"
          ELSE IF Taken = {} THEN remotes = DOMAIN ServerTools /\ pc' = "loop"
          ELSE pc' = "failed"
  /\ UNCHANGED <<policy, grants, naming, call, next_id, toServer, server, said, ran, answers>>

\* A request of the handshake that cannot be sent, or is answered by an error or by
\* the end of the pipe, raises out of the host.
Fail ==
  /\ \/ pc = "start" /\ server = "down" /\ UNCHANGED <<toClient, chatter>>
     \/ pc \in {"hello", "listing"} /\ ReadsNothing
     \/ pc \in {"hello", "listing"} /\ Reads /\ Line.kind = "error"
     \/ pc = "hello" /\ Reads /\ server = "down"
  /\ pc' = "failed"
  /\ UNCHANGED <<host, next_id, toServer, server, ran>>

-----------------------------------------------------------------------------
(* The loop's tool calls: policy, then registry. *)

Effect(tool) == IF tool \in DOMAIN registry THEN registry[tool].effect ELSE "write"

\* _ask.  With nobody there, or a no, the call is answered without a tool.
Granted(c) == Grant(c.tool, Rendered(c.args)) \in grants
Ask(c) ==
  \/ Granted(c) /\ pc' = "allowed" /\ UNCHANGED <<grants, said>>
  \/ ~Granted(c) /\ pc' = "loop" /\ UNCHANGED <<grants, said>>
  \/ /\ ~Granted(c) /\ policy.attended /\ pc' = "allowed"
     /\ grants' = grants \cup {Grant(c.tool, Rendered(c.args))}
     /\ said' = said \cup {c}

Verdict(c) == Decided(policy, c.tool, Rendered(c.args), Effect(c.tool))

Decide ==
  /\ pc = "loop" /\ next_id <= MaxRequests
  /\ \E c \in Calls :
       /\ call' = c
       /\ \/ Verdict(c) = "ask" /\ Ask(c)
          \/ Verdict(c) = "allow" /\ pc' = "allowed" /\ UNCHANGED <<grants, said>>
          \/ Verdict(c) = "deny" /\ pc' = "loop" /\ UNCHANGED <<grants, said>>
  /\ UNCHANGED <<policy, naming, registry, next_id, toServer, toClient, server, ran, answers, chatter>>

\* ToolSpec.call refuses arguments the schema does not list, and misses those it does.
Fits(tool, arguments) ==
  tool \in DOMAIN registry /\ {arguments[i].name : i \in DOMAIN arguments} = registry[tool].takes
Remote(c) == Fits(c.tool, c.args) /\ registry[c.tool].remote # ""

\* dispatch: an unknown tool and arguments that do not fit are errors and run nothing.
Dispatch ==
  /\ pc = "allowed" /\ ~Remote(call) /\ pc' = "loop"
  /\ ran' = IF Fits(call.tool, call.args) THEN ran \cup {call} ELSE ran
  /\ UNCHANGED <<host, next_id, toServer, toClient, server, chatter>>

\* invoke, call_tool: to the server under its own name, the call carried along.
Invoke ==
  /\ pc = "allowed" /\ Remote(call) /\ Sends(<<>>, "tools/call", call) /\ pc' = "calling"
  /\ UNCHANGED <<host, toClient, server, ran, chatter>>

\* call_tool returns the text blocks of the line it read, none if it is something else;
\* an error line raises, and ToolSpec.call makes an answer of that too.
Return ==
  /\ pc = "calling" /\ Reads /\ pc' = "loop"
  /\ answers' = Append(answers, [call |-> call, id |-> next_id - 1, got |-> Line,
                                 late |-> chatter])
  /\ UNCHANGED <<policy, grants, naming, registry, call, next_id, toServer, server, said, ran>>

\* A broken pipe raises as well: the model is told of an error, whatever has run.
Broken ==
  /\ \/ pc = "calling" /\ ReadsNothing
     \/ pc = "allowed" /\ Remote(call) /\ server = "down" /\ UNCHANGED <<toClient, chatter>>
  /\ pc' = "loop"
  /\ UNCHANGED <<host, next_id, toServer, server, ran>>

-----------------------------------------------------------------------------
(* McpServer.handle and serve_stdio: a line in, at most a line out. *)

Reply(id, kind) == [id |-> id, kind |-> kind]

\* Mutant: a call's branch falls through to the unknown methods.
HandleFallingThrough(line) ==
  CASE line.method = "initialize" -> <<Reply(line.id, "info")>>
    [] line.method = "notifications/initialized" -> <<>>
    [] line.method = "tools/list" -> <<Reply(line.id, "tools")>>
    [] line.method = "tools/call" -> <<Reply(line.id, "content"), Reply(line.id, "error")>>

Handle(line) ==
  CASE line.method = "initialize" -> <<Reply(line.id, "info")>>
    [] line.method = "notifications/initialized" -> <<>>
    [] line.method = "tools/list" -> <<Reply(line.id, "tools")>>
    [] line.method = "tools/call" -> <<Reply(line.id, "content")>>

\* The server has no policy: a call that arrives is dispatched.
Serve ==
  /\ server = "up" /\ toServer # <<>> /\ toServer' = Tail(toServer)
  /\ toClient' = toClient \o Handle(Head(toServer))
  /\ ran' = IF Head(toServer).method = "tools/call" THEN ran \cup {Head(toServer).call} ELSE ran
  /\ UNCHANGED <<host, pc, next_id, server, chatter>>

\* A line nobody asked for: a log message, a change of the tool list.
Unasked == chatter + Len(SelectSeq(toClient, LAMBDA line : line.kind = "note"))
Chatter ==
  /\ server = "up" /\ Unasked < MaxChatter
  /\ toClient' = Append(toClient, Reply(0, "note"))
  /\ UNCHANGED <<host, pc, next_id, toServer, server, ran, chatter>>

\* The process dies; what it had written can still be read.
Die ==
  /\ server = "up" /\ server' = "down" /\ toServer' = <<>>
  /\ UNCHANGED <<host, pc, next_id, toClient, ran, chatter>>

Next ==
  \/ Start \/ Greeted \/ Import \/ Fail
  \/ Decide \/ Dispatch \/ Invoke \/ Return \/ Broken
  \/ Serve \/ Chatter \/ Die

Spec == Init /\ [][Next]_vars

-----------------------------------------------------------------------------
(* Properties *)

\* A deny entry of the rule file holds whatever else the file says, whatever a human
\* agreed to before, and on whichever side of the pipe the tool is: no call it matches
\* runs (PermissionPolicy.load and decide, permissions.py:87-108).
DeniedNeverRuns ==
  \A c \in ran, i \in DOMAIN policy.file["deny"] :
    ~Matches(policy.file["deny"][i], c.tool, Rendered(c.args))

\* What a rule or the effect class makes a question of runs only after a human agreed
\* to that tool with those rendered arguments (permissions.py:112-123); an imported
\* tool is such a question unless a rule allows it (client.py:150-152).
AskedRunsAgreed ==
  \A c \in ran : \/ Verdict(c) = "allow"
                 \/ \E d \in said : d.tool = c.tool /\ Rendered(d.args) = Rendered(c.args)

\* Without a line nobody asked for, the host has all of the server's tools and every
\* answer belongs to its own call.  Each such line moves the answers of the later
\* calls one request back (client.py:80-93, server.py:127-134).
AnswersLagByChatter ==
  /\ pc \in {"loop", "allowed", "calling"} /\ chatter = 0 =>
       \A t \in DOMAIN ServerTools : naming[t] \in DOMAIN registry
  /\ \A i \in DOMAIN answers :
       LET a == answers[i]
       IN a.got.kind # "note" => a.got.id = a.id - a.late
=============================================================================
