------------------------------- MODULE Facades -------------------------------
(***************************************************************************)
(* The protocol facades.  mcp_stdio.py and acp_stdio.py are processes of   *)
(* their own that read JSON-RPC messages, one per line, from a pipe and    *)
(* handle them in order, with the runtime they built when they started.    *)
(* a2a_http.py and the other POST handlers are threads of the daemon, each *)
(* with a runtime of its own; they share the recorded A2A tasks and the    *)
(* dictionary of session secrets.                                          *)
(*                                                                         *)
(* A program the executor starts inherits the standard input of its        *)
(* process (adapters/stdio.py): one that reads it takes some of what the   *)
(* client has sent and the server's reader has not yet taken from the      *)
(* pipe.  Neither takes whole lines.  A line is modelled as two pieces:    *)
(* message i of a client is piece 2i-1 and then piece 2i, with its end.    *)
(***************************************************************************)
EXTENDS Workspace

CONSTANTS
    Server,       \* stdio servers
    Protocol,     \* Protocol[s] is "mcp" or "acp"
    Reader,       \* capabilities whose program reads its standard input
    Request,      \* POST requests to the daemon, numbered as they arrive
    NoEnv         \* no dictionary of secrets

ASSUME FacadesAssumption ==
    /\ Request \subseteq Nat /\ NoEnv \notin Request
    /\ Reader \subseteq Capability
    /\ Protocol \in [Server -> {"mcp", "acp"}]

VARIABLES
    server,       \* server[s]: whether it is up, its runtime, its ACP sessions
    mail,         \* mail[s]: the messages sent to it, and how far each of them is
    pipe,         \* pipe[s]: the pieces of them in its standard input
    buffer,       \* buffer[s]: the pieces its text reader has taken from there
    reply,        \* reply[s]: the lines it has written
    request,      \* request[r]: a handler thread
    env,          \* the server attribute adapter_agent_env: whose dictionary it is
    secrets,      \* the dictionaries that hold the secret a client stored
    task          \* task[r]: the A2A task recorded by r, _TASKS

stdio == <<server, mail, pipe, buffer, reply>>
daemon == <<request, env, secrets, task>>
facades == <<stdio, daemon>>

(* McpStdioServer, AcpStdioAgent *)

\* A query is initialize, ping or tools/list, which change nothing; "other" is what is refused.
Method == [mcp |-> {"query", "notifications/initialized", "tools/call", "other"},
           acp |-> {"query", "session/new", "session/prompt", "session/cancel", "other"}]

Notification == {"notifications/initialized", "session/cancel"}

\* Whether a message may carry an id: any other message may be sent as a notification too.
Ids(method) ==
    CASE method \in Notification -> {FALSE}
      [] method \in {"other", "tools/call"} -> BOOLEAN
      [] OTHER -> {TRUE}

IsCall(m) == m.method \in {"tools/call", "session/prompt"}

\* A runtime is built once, when the server starts.
StartServer(s) ==
    /\ ~server[s].up
    /\ server' = [server EXCEPT ![s] = [up |-> TRUE, runtime |-> Runtime, sessions |-> 0]]
    /\ UNCHANGED <<workspace, mail, pipe, buffer, reply, daemon>>

Pieces(i) == {2 * i - 1, 2 * i}

\* A client writes a message.  What else it carries counts when it is handled: a call names
\* a capability or the workflow, perhaps an approval, a prompt a session.
Send(s) ==
    /\ server[s].up /\ Stimulus
    /\ \E method \in Method[Protocol[s]] : \E id \in Ids(method) :
           mail' = [mail EXCEPT ![s] = Append(@,
               [method |-> method, id |-> IF id THEN Len(@) + 1 ELSE 0, at |-> "sent",
                result |-> "none", reads |-> FALSE])]
    /\ pipe' = [pipe EXCEPT ![s] = @ \cup Pieces(Len(mail[s]) + 1)]
    /\ UNCHANGED <<manifest, edition, document, granted, server, buffer, reply, daemon>>

At(s, where) == {i \in DOMAIN mail[s] : mail[s][i].at = where}
First(S) == CHOOSE i \in S : \A j \in S : i <= j

\* The lines that end in the buffer, and the first of them; it is message i, or torn.
LineEnds(s) == {p \in buffer[s] : p % 2 = 0}
Line(s) == {p \in buffer[s] : p <= First(LineEnds(s))}
Reads(s, i) == LineEnds(s) # {} /\ Line(s) = Pieces(i)

\* The text reader takes up to 8192 bytes of what is in the pipe when it has no line left.
Refill(s) ==
    /\ LineEnds(s) = {} /\ At(s, "work") = {}
    /\ \E last \in pipe[s] :
           /\ buffer' = [buffer EXCEPT ![s] = @ \cup {p \in pipe[s] : p <= last}]
           /\ pipe' = [pipe EXCEPT ![s] = {p \in @ : p > last}]
    /\ UNCHANGED <<workspace, server, mail, reply, daemon>>

\* A line that is torn is no JSON and is answered without an id; what is left of one may be
\* blank, and is skipped.
RefuseLine(s) ==
    /\ At(s, "work") = {} /\ LineEnds(s) # {}
    /\ \A i \in DOMAIN mail[s] : ~Reads(s, i)
    /\ buffer' = [buffer EXCEPT ![s] = @ \ Line(s)]
    /\ \/ reply' = [reply EXCEPT ![s] = Append(@, [id |-> 0, told |-> "error"])]
       \/ Cardinality(Line(s)) = 1 /\ UNCHANGED reply
    /\ UNCHANGED <<workspace, server, mail, pipe, daemon>>

\* Faulty variant of Silent: the notification of MCP is answered.
SilentWithId(m, error) == m.method # "notifications/initialized" /\ m.id = 0 /\ ~error

\* handle_line: an error is answered whatever the message, a result only with an id.
Silent(m, error) == m.method = "notifications/initialized" \/ (m.id = 0 /\ ~error)

\* What the client is told: a JSON-RPC error, a result, or isError or stopReason of a call.
Told(m, error) ==
    IF error THEN "error" ELSE IF ~IsCall(m) THEN "result"
    ELSE IF m.result = "good" THEN "success" ELSE "failure"

Answered(s, i, error) ==
    IF Silent(mail[s][i], error) THEN reply
    ELSE [reply EXCEPT ![s] = Append(@, [id |-> mail[s][i].id, told |-> Told(mail[s][i], error)])]

\* handle_line, of what is no call, or one whose parameters or session are refused.
Handle(s) ==
    /\ At(s, "work") = {}
    /\ \E i \in DOMAIN mail[s] :
       LET m == mail[s][i] IN
       /\ Reads(s, i)
       /\ \E error \in IF m.method = "session/new" THEN BOOLEAN ELSE {m.method = "other" \/ IsCall(m)} :
              /\ mail' = [mail EXCEPT ![s][i].at = "handled"]
              /\ reply' = Answered(s, i, error)
              /\ server' = IF m.method = "session/new" /\ ~error
                           THEN [server EXCEPT ![s].sessions = @ + 1] ELSE server
    /\ buffer' = [buffer EXCEPT ![s] = @ \ Line(s)]
    /\ UNCHANGED <<workspace, pipe, daemon>>

\* Whether the program of a target reads the standard input it inherits.
ReadsInput(target) ==
    target \in Reader \/ (target = "workflow" /\ \E t \in document : Uses[t] \in Reader)

\* What a client of a facade learns of a run of the workflow, workflow_run_ok.
RunResults(runtime, confirmed) ==
    {CASE RunStatus(f) = "completed" -> "good" [] RunStatus(f) = "raised" -> "broken"
       [] OTHER -> "failed" : f \in Runs(runtime, document, confirmed, FALSE)}

\* _call_tool, _prompt: of a capability, for which an approval that is granted may be
\* presented, or of the workflow, which may be confirmed; a prompt needs a session.
BeginCall(s) ==
    /\ At(s, "work") = {}
    /\ \E i \in DOMAIN mail[s] :
       LET runtime == server[s].runtime IN
       /\ Reads(s, i) /\ IsCall(mail[s][i])
       /\ mail[s][i].method = "session/prompt" => server[s].sessions > 0
       /\ \E target \in Capability \cup {"workflow"}, consent \in BOOLEAN :
          LET present == consent /\ target \in granted /\ runtime.manifest[target].held
              results == IF target # "workflow" THEN Answers(runtime, target, present, FALSE)
                         ELSE RunResults(runtime, consent)
          IN  \E result \in results :
                  /\ mail' = [mail EXCEPT ![s][i] = [@ EXCEPT !.at = "work", !.result = result,
                                 !.reads = result # "refused" /\ ReadsInput(target)]]
                  /\ UseApproval(target, present, result)
    /\ buffer' = [buffer EXCEPT ![s] = @ \ Line(s)]
    /\ UNCHANGED <<manifest, edition, document, stimuli, server, pipe, reply, daemon>>

\* A program takes a line, a block or a byte of what is in the pipe.
ProgramReads(s) ==
    /\ \E i \in At(s, "work") : mail[s][i].reads
    /\ \E last \in pipe[s] : pipe' = [pipe EXCEPT ![s] = {p \in @ : p > last}]
    /\ UNCHANGED <<workspace, server, mail, buffer, reply, daemon>>

\* A call that breaks is answered with an error, whatever has run.
EndCall(s) ==
    /\ \E i \in At(s, "work") :
           /\ mail' = [mail EXCEPT ![s][i].at = "handled"]
           /\ reply' = Answered(s, i, mail[s][i].result = "broken")
    /\ UNCHANGED <<workspace, server, pipe, buffer, daemon>>

\* smoke_mcp_stdio, smoke_acp_stdio: a client that sends this and reads three lines.
Script(s) == IF Protocol[s] = "mcp"
             THEN <<"query", "notifications/initialized", "query", "tools/call">>
             ELSE <<"query", "session/new", "session/prompt">>
SmokeOk(s) ==
    /\ Len(reply[s]) = 3
    /\ reply[s][1].told = "result" /\ reply[s][2].told = "result" /\ reply[s][3].told = "success"

(* CbnRequestHandler: POST /call, /a2a and /adapter-agent/tool-use *)

\* do_POST builds a runtime and asks for the dictionary of secrets, which is made when
\* there is none: _adapter_agent_env looks for it and sets it in two steps.
Arrive(r) ==
    /\ request[r].at = "none" /\ Stimulus
    /\ \A q \in Request : q < r => request[q].at # "none"
    /\ request' = [request EXCEPT ![r] =
           [@ EXCEPT !.at = "env", !.runtime = Runtime, !.since = edition,
                     !.after = {q \in Request : request[q].at = "done"}]]
    /\ UNCHANGED <<manifest, edition, document, granted, stdio, env, secrets, task>>

LookForEnv(r) ==
    /\ request[r].at = "env"
    /\ request' = [request EXCEPT ![r].at = IF env = NoEnv THEN "making" ELSE "ready",
                                  ![r].made = env = NoEnv,
                                  ![r].secret = env # NoEnv /\ env \in secrets]
    /\ UNCHANGED <<workspace, stdio, env, secrets, task>>

\* Faulty variant of MakeEnv: the dictionary is not kept.
MakeEnvUnset(r) ==
    /\ request[r].at = "making"
    /\ request' = [request EXCEPT ![r].at = "ready"]
    /\ UNCHANGED <<workspace, stdio, env, secrets, task>>

MakeEnv(r) ==
    /\ request[r].at = "making"
    /\ env' = r /\ request' = [request EXCEPT ![r].at = "ready"]
    /\ UNCHANGED <<workspace, stdio, secrets, task>>

\* CapabilityExecutor.call on behalf of a request that names a capability, and an approval
\* or none.
Call(r, kind, runtime, confirmed, approval) ==
    /\ request[r].at = "ready"
    /\ \E c \in Capability :
       LET present == approval /\ c \in granted /\ runtime.manifest[c].held /\ ~confirmed IN
       \E result \in Answers(runtime, c, present \/ confirmed, FALSE) :
       /\ request' = [request EXCEPT ![r] =
              [@ EXCEPT !.at = "ran", !.kind = kind, !.target = c, !.result = result,
                        !.runtime = runtime, !.secret = request[r].secret /\ kind = "call"]]
       /\ UseApproval(c, present, result)
    /\ UNCHANGED <<manifest, edition, document, stimuli, stdio, env, secrets, task>>

\* POST /call
PostCall(r) ==
    \E confirmed, approval \in BOOLEAN : Call(r, "call", request[r].runtime, confirmed, approval)

\* _send_message: no consent can be given for a capability, and a second runtime is built,
\* which the secrets of the session do not reach.
SendMessage(r) == Call(r, "a2a", Runtime, FALSE, FALSE)

\* _send_workflow_message: a run may be confirmed; one the policy blocks counts as failed.
SendWorkflowMessage(r) ==
    /\ request[r].at = "ready"
    /\ \E confirmed \in BOOLEAN : \E result \in RunResults(Runtime, confirmed) :
           request' = [request EXCEPT ![r] =
               [@ EXCEPT !.at = "ran", !.kind = "a2a", !.target = "workflow",
                         !.result = result, !.runtime = Runtime, !.secret = FALSE]]
    /\ UNCHANGED <<workspace, stdio, env, secrets, task>>

\* _task_state
TaskState(result) ==
    CASE result = "refused" -> "TASK_STATE_REJECTED" [] result = "failed" -> "TASK_STATE_FAILED"
      [] OTHER -> "TASK_STATE_COMPLETED"

\* The answer of POST /call, and the task of a message: recorded when its call has ended.
\* One that breaks is answered with an error, 500 here for any status or code it has.
Respond(r) ==
    /\ request[r].at = "ran"
    /\ request' = [request EXCEPT ![r].at = "done",
           ![r].status = CASE request[r].result = "broken" -> 500
                           [] request[r].kind = "a2a" \/ request[r].result = "good" -> 200
                           [] request[r].result = "refused" -> 403 [] OTHER -> 502]
    /\ task' = IF request[r].kind = "a2a" /\ request[r].result # "broken"
               THEN [task EXCEPT ![r] = TaskState(request[r].result)] ELSE task
    /\ UNCHANGED <<workspace, stdio, env, secrets>>

\* Faulty variant of Cancelable: a rejected task may be canceled.
CancelableRejected(state) == state \notin {"TASK_STATE_COMPLETED", "TASK_STATE_FAILED", "TASK_STATE_CANCELED"}

Cancelable(state) ==
    state \notin {"TASK_STATE_COMPLETED", "TASK_STATE_FAILED", "TASK_STATE_REJECTED", "TASK_STATE_CANCELED"}

\* _cancel_task
CancelTask(r) ==
    /\ request[r].at = "ready"
    /\ \E q \in Request :
           /\ task[q] # "none"
           /\ task' = IF Cancelable(task[q]) THEN [task EXCEPT ![q] = "TASK_STATE_CANCELED"] ELSE task
    /\ request' = [request EXCEPT ![r].at = "done", ![r].kind = "cancel"]
    /\ UNCHANGED <<workspace, stdio, env, secrets>>

\* store_session_secret, into the dictionary that is set by then.
StoreSecret(r) ==
    /\ request[r].at = "ready"
    /\ secrets' = secrets \cup {env}
    /\ request' = [request EXCEPT ![r].at = "done", ![r].kind = "secret"]
    /\ UNCHANGED <<workspace, stdio, env, task>>

InitFacades ==
    /\ server = [s \in Server |-> [up |-> FALSE, runtime |-> Runtime, sessions |-> 0]]
    /\ mail = [s \in Server |-> <<>>] /\ reply = [s \in Server |-> <<>>]
    /\ pipe = [s \in Server |-> {}] /\ buffer = [s \in Server |-> {}]
    /\ request = [r \in Request |->
           [at |-> "none", kind |-> "none", target |-> "none",
            runtime |-> Runtime, since |-> 0, after |-> {}, made |-> FALSE, secret |-> FALSE,
            result |-> "none", status |-> 0]]
    /\ env = NoEnv /\ secrets = {} /\ task = [r \in Request |-> "none"]

NextServers(servers) ==
    \E s \in servers : \/ StartServer(s) \/ Send(s) \/ Refill(s) \/ RefuseLine(s) \/ Handle(s)
                       \/ BeginCall(s) \/ ProgramReads(s) \/ EndCall(s)

NextDaemon ==
    \E r \in Request : \/ Arrive(r) \/ LookForEnv(r) \/ MakeEnv(r) \/ PostCall(r)
                       \/ SendMessage(r) \/ SendWorkflowMessage(r) \/ Respond(r) \/ CancelTask(r) \/ StoreSecret(r)

(* Properties *)

\* The messages that have not reached the server and no longer can.
Lost(s) == {i \in At(s, "sent") : ~(Pieces(i) \subseteq pipe[s] \cup buffer[s])}

\* The lines a client reads are the answers to its requests, in the order it sent them,
\* whatever else it has sent meanwhile: the smoke clients count on it.  (Not when it sends
\* another message without an id, which may be answered with an error.)  A line without an
\* id comes among them only where a message is lost, and a message is lost only when an
\* earlier call started a program that reads what was meant for the server.
RepliesMatch ==
    \A s \in Server :
        LET asked == {i \in At(s, "handled") : mail[s][i].id # 0}
            lines == reply[s]
        IN  /\ (\A i \in DOMAIN mail[s] :
                   mail[s][i].id = 0 => mail[s][i].method \in Notification)
                  => /\ {lines[k].id : k \in DOMAIN lines} \ {0} = asked
                     /\ \A k, l \in DOMAIN lines :
                            k < l /\ lines[k].id # 0 /\ lines[l].id # 0 => lines[k].id < lines[l].id
                     /\ \A k \in DOMAIN lines : lines[k].id = 0 => Lost(s) # {}
            /\ \A i \in Lost(s) : \E j \in 1..(i - 1) : mail[s][j].reads

\* What a client is told of a call is what became of it, also by a smoke report and by a
\* task somebody has tried to cancel, and of one that broke there is no task; a capability
\* that is held back never runs for a message of A2A, which cannot give a consent; and what
\* the daemon runs, it runs by the manifests that were there when it was asked or later.
VerdictsAreTrue ==
    /\ \A s \in Server :
        LET calls == {i \in At(s, "handled") : IsCall(mail[s][i])} IN
        /\ \A k \in DOMAIN reply[s], i \in calls :
               reply[s][k].id = i => (reply[s][k].told = "success") = (mail[s][i].result = "good")
        /\ (/\ [i \in DOMAIN mail[s] |-> mail[s][i].method] = Script(s)
            /\ At(s, "handled") = DOMAIN mail[s] /\ mail[s][Len(mail[s])].id # 0)
              => SmokeOk(s) = (mail[s][Len(mail[s])].result = "good")
    /\ \A r \in Request :
        LET q == request[r] IN
        /\ task[r] # "none" => task[r] = TaskState(q.result) /\ q.result # "broken"
        /\ q.result \in {"good", "failed"} =>
              /\ q.runtime.edition >= q.since
              /\ q.kind = "a2a" /\ q.target # "workflow" => ~q.runtime.manifest[q.target].held

\* A secret the daemon says it has stored reaches every later POST /call, unless two
\* requests were the first ones at once and each made a dictionary (server.py,
\* _adapter_agent_env): no request that comes later ever makes another.
SecretsAreKept ==
    \A r \in Request :
        LET q == request[r] IN
        /\ q.after # {} => ~q.made
        /\ (/\ q.kind = "call" /\ q.at \in {"ready", "ran", "done"}
            /\ \E p \in q.after : request[p].kind = "secret"
            /\ Cardinality({p \in Request : request[p].made}) = 1)
              => q.secret
==============================================================================
