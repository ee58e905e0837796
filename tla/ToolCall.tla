------------------------------ MODULE ToolCall ------------------------------
(***************************************************************************)
(* CapabilityExecutor.call of cbn_execution/executor.py, run by concurrent *)
(* clients over one approval queue, with people deciding approvals and     *)
(* editing manifests meanwhile.  A call looks its manifest up, asks the    *)
(* policy, consumes the approval it was given or requests a new one,       *)
(* dispatches the CLI and leaves its records: audit lines, events and      *)
(* artifacts.  Its process may die, or an exception may leave call(),      *)
(* between any two steps.                                                  *)
(***************************************************************************)
EXTENDS ApprovalStore, PolicyEngine

CONSTANTS
    Call,         \* the calls, each made by a client of its own
    Decider,      \* people at `cbn approvals' or POST /approvals/decide
    Argv,         \* argument vectors, each with its working directory
    Manifest,     \* the manifests a capability may have, over time
    NoManifest,   \* no manifest registers the capability
    NoApproval,   \* approval_id None
    Confirmations,\* the values of `confirmed' callers send
    OutputSets,   \* which of stdout and stderr a finished CLI may have written
    MaxEdits      \* bound: how often manifests are edited

Transport == {"stdio", "pty", "other"}

ASSUME CallAssumption ==
    /\ Client = Call \cup Decider
    /\ Call \cap Decider = {}
    /\ \A m \in Manifest : m.policy \in Policy /\ m.transport \in Transport
    /\ NoManifest \notin Manifest
    /\ NoApproval \notin ApprovalId
    /\ Scope = [cap : Capability, argv : Argv, dryRun : BOOLEAN, manifest : Manifest]
    /\ Confirmations \subseteq BOOLEAN
    /\ OutputSets \subseteq SUBSET {"stdout", "stderr"}
    /\ MaxEdits \in Nat

VARIABLES
    disk,         \* disk[cap]: the manifest the manifest directories hold
    edits,        \* how often they were edited
    pc,           \* where each call stands
    request,      \* its parameters and the manifest it loaded
    paid,         \* the approval it consumed
    ran,          \* what it made the system run: the scope, or nothing
    todo,         \* the records it is about to write, in order
    trail,        \* the records it wrote, in order
    owing,        \* the decision each decider has yet to announce
    announced     \* the approval.decided events

callVars == <<disk, edits, pc, request, paid, ran, todo, trail, owing, announced>>
vars == <<queue, frame, disk, edits, pc, request, paid, ran, todo, trail, owing,
          announced>>

\* Parameters of a call, with the manifest build_runtime loaded for it.
Request_ == [cap : Capability, argv : Argv, dryRun : BOOLEAN, confirmed : Confirmations,
             approval : ApprovalId \cup {NoApproval}, manifest : Manifest]

NoRequest == [cap |-> "none"]
Nothing   == [cap |-> "none"]
NoDecision == [id |-> "none"]

\* _approval_scope: the digest of a scope is the scope (SHA-256 is injective here).
ScopeOf(r) == [cap |-> r.cap, argv |-> r.argv, dryRun |-> r.dryRun,
               manifest |-> r.manifest]

-----------------------------------------------------------------------------
(* The records of a call.                                                  *)

Rec(sink, what, approval) == [sink |-> sink, what |-> what, approval |-> approval]

BlockedRecords(id) ==
    << Rec("audit", "blocked", id), Rec("event", "approval.requested", id),
       Rec("event", "blocked", id) >>

\* Faulty variant: the start is published but not audited.
StartedRecordsEventOnly(id) == << Rec("event", "started", id) >>

StartedRecords(id) ==
    << Rec("audit", "started", id), Rec("event", "started", id) >>

\* Faulty variant: the index line is appended before the file it names is written.
ArtifactRecordsIndexFirst(kind) ==
    << Rec("artifact", kind, NoApproval), Rec("file", kind, NoApproval),
       Rec("event", kind, NoApproval) >>

ArtifactRecords(kind) ==
    << Rec("file", kind, NoApproval), Rec("artifact", kind, NoApproval),
       Rec("event", kind, NoApproval) >>

CompletedRecords(outputs, id) ==
    (IF "stdout" \in outputs THEN ArtifactRecords("stdout") ELSE <<>>)
    \o (IF "stderr" \in outputs THEN ArtifactRecords("stderr") ELSE <<>>)
    \o ArtifactRecords("parsed")
    \o << Rec("event", "message", NoApproval), Rec("audit", "completed", id),
          Rec("event", "completed", id) >>

-----------------------------------------------------------------------------
Init ==
    /\ StoreInit
    /\ \A id \in Left :
        Latest(id).scope # NoScope => Latest(id).scope.cap = Latest(id).cap
    /\ disk \in [Capability -> Manifest \cup {NoManifest}]
    /\ edits = 0
    /\ pc = [c \in Call |-> "idle"]
    /\ request = [c \in Call |-> NoRequest]
    /\ paid = [c \in Call |-> NoApproval]
    /\ ran = [c \in Call |-> Nothing]
    /\ todo = [c \in Call |-> <<>>]
    /\ trail = [c \in Call |-> <<>>]
    /\ owing = [d \in Decider |-> NoDecision]
    /\ announced = {}

Goto(c, place) == pc' = [pc EXCEPT ![c] = place]

\* call(): manifest lookup in the registry this request loaded, policy decision.
\* The caller presents an approval some earlier call was given, or none (an id
\* nobody was given is rejected like one that does not fit: KeyError).
Begin(c, r) ==
    /\ pc[c] = "idle"
    /\ r.approval # NoApproval => Known(r.approval)
    /\ r.manifest = disk[r.cap]
    /\ request' = [request EXCEPT ![c] = r]
    /\ IF Allowed(r.manifest.policy, r.confirmed)
       THEN /\ Goto(c, "starting")
            /\ todo' = [todo EXCEPT ![c] = StartedRecords(NoApproval)]
       ELSE /\ Goto(c, IF r.approval # NoApproval THEN "presenting" ELSE "refused")
            /\ UNCHANGED todo
    /\ UNCHANGED <<storeVars, disk, edits, paid, ran, trail, owing, announced>>

\* call(): the approval is read and fits; use() goes on to consume it.
PresentApproval(c) ==
    /\ pc[c] = "presenting"
    /\ Use(c, request[c].approval, request[c].cap, ScopeOf(request[c]))
    /\ Goto(c, "using")
    /\ UNCHANGED <<disk, edits, request, paid, ran, todo, trail, owing, announced>>

\* call(): use() raises KeyError or ValueError, kept as approval_error.
ApprovalRejected(c) ==
    /\ pc[c] = "presenting"
    /\ ~CanUse(request[c].approval, request[c].cap, ScopeOf(request[c]))
    /\ Goto(c, "refused")
    /\ UNCHANGED <<storeVars, disk, edits, request, paid, ran, todo, trail, owing,
                   announced>>

\* use() reads the record again; it appends it as used and call() goes ahead.
ReadForUse(c) ==
    /\ pc[c] = "using"
    /\ Copy(c)
    /\ UNCHANGED callVars

\* Faulty variant: the approval is not marked used.
GoAheadUnconsumed(c) ==
    /\ pc[c] = "using"
    /\ frame[c].at = "copied"
    /\ frame' = [frame EXCEPT ![c] = Idle]
    /\ paid' = [paid EXCEPT ![c] = request[c].approval]
    /\ Goto(c, "starting")
    /\ todo' = [todo EXCEPT ![c] = StartedRecords(request[c].approval)]
    /\ UNCHANGED <<queue, disk, edits, request, ran, trail, owing, announced>>

ConsumeApproval(c) ==
    /\ pc[c] = "using"
    /\ Commit(c)
    /\ paid' = [paid EXCEPT ![c] = request[c].approval]
    /\ Goto(c, "starting")
    /\ todo' = [todo EXCEPT ![c] = StartedRecords(request[c].approval)]
    /\ UNCHANGED <<disk, edits, request, ran, trail, owing, announced>>

\* Faulty variant: what was asked for is not what was tried.
RequestApprovalForRealRun(c) ==
    /\ pc[c] = "refused"
    /\ \E id \in ApprovalId :
        /\ Request(c, id, request[c].cap,
                   [ScopeOf(request[c]) EXCEPT !.dryRun = FALSE])
        /\ todo' = [todo EXCEPT ![c] = BlockedRecords(id)]
    /\ Goto(c, "reporting")
    /\ UNCHANGED <<disk, edits, request, paid, ran, trail, owing, announced>>

\* call(): a refused call leaves a new request (requires_confirmation holds
\* whenever the policy refuses) and its records.
RequestApproval(c) ==
    /\ pc[c] = "refused"
    /\ \E id \in ApprovalId :
        /\ Request(c, id, request[c].cap, ScopeOf(request[c]))
        /\ todo' = [todo EXCEPT ![c] = BlockedRecords(id)]
    /\ Goto(c, "reporting")
    /\ UNCHANGED <<disk, edits, request, paid, ran, trail, owing, announced>>

\* Each append to the audit log, the event bus or the artifact index.
Write(c) ==
    /\ pc[c] \in {"starting", "reporting"}
    /\ todo[c] # <<>>
    /\ trail' = [trail EXCEPT ![c] = Append(@, Head(todo[c]))]
    /\ todo' = [todo EXCEPT ![c] = Tail(@)]
    /\ UNCHANGED <<storeVars, disk, edits, pc, request, paid, ran, owing, announced>>

\* _dispatch and the adapters: a transport without an adapter is refused, a dry
\* run only echoes its argv, a command that cannot be spawned is reported, and
\* any other command runs.
Report(c, outputs) ==
    /\ todo' = [todo EXCEPT ![c] = CompletedRecords(outputs, paid[c])]
    /\ Goto(c, "reporting")

Dispatch(c) ==
    /\ pc[c] = "starting"
    /\ todo[c] = <<>>
    /\ \/ /\ request[c].manifest.transport = "other"
          /\ Report(c, {})
          /\ UNCHANGED ran
       \/ /\ request[c].manifest.transport # "other"
          /\ request[c].dryRun
          /\ Report(c, {"stdout"})
          /\ UNCHANGED ran
       \/ /\ request[c].manifest.transport # "other"
          /\ ~request[c].dryRun
          /\ Report(c, {"stderr"})
          /\ UNCHANGED ran
       \/ /\ request[c].manifest.transport # "other"
          /\ ~request[c].dryRun
          /\ ran' = [ran EXCEPT ![c] = ScopeOf(request[c])]
          /\ Goto(c, "running")
          /\ UNCHANGED todo
    /\ UNCHANGED <<storeVars, disk, edits, request, paid, trail, owing, announced>>

\* The command exits, or is killed when its timeout expires (a message on stderr).
Exit(c) ==
    /\ pc[c] = "running"
    /\ \E outputs \in OutputSets : Report(c, outputs)
    /\ UNCHANGED <<storeVars, disk, edits, request, paid, ran, trail, owing, announced>>

\* The process dies or an exception leaves call(): its records stop here.
Abort(c) ==
    /\ pc[c] \notin {"idle", "aborted"}
    /\ ~(pc[c] = "reporting" /\ todo[c] = <<>>)
    /\ frame' = [frame EXCEPT ![c] = Idle]
    /\ Goto(c, "aborted")
    /\ todo' = [todo EXCEPT ![c] = <<>>]
    /\ UNCHANGED <<queue, disk, edits, request, paid, ran, trail, owing, announced>>

CallStep(c) ==
    \/ PresentApproval(c) \/ ApprovalRejected(c) \/ ReadForUse(c)
    \/ ConsumeApproval(c) \/ RequestApproval(c) \/ Write(c) \/ Dispatch(c) \/ Exit(c)

-----------------------------------------------------------------------------
(* The people around the calls.                                            *)

\* `cbn approvals approve|deny' and POST /approvals/decide: decide, then publish.
StartDecision(d) ==
    /\ owing[d] = NoDecision
    /\ \E id \in ApprovalId, decision \in {"approved", "denied"} :
        Decide(d, id, decision)
    /\ UNCHANGED callVars

ReadForDecision(d) ==
    /\ Copy(d)
    /\ UNCHANGED callVars

RecordDecision(d) ==
    /\ Commit(d)
    /\ owing' = [owing EXCEPT ![d] = [id |-> frame[d].id, status |-> frame[d].to]]
    /\ UNCHANGED <<disk, edits, pc, request, paid, ran, todo, trail, announced>>

AnnounceDecision(d) ==
    /\ owing[d] # NoDecision
    /\ announced' = announced \cup {owing[d]}
    /\ owing' = [owing EXCEPT ![d] = NoDecision]
    /\ UNCHANGED <<storeVars, disk, edits, pc, request, paid, ran, todo, trail>>

DeciderDies(d) ==
    /\ frame[d] # Idle \/ owing[d] # NoDecision
    /\ frame' = [frame EXCEPT ![d] = Idle]
    /\ owing' = [owing EXCEPT ![d] = NoDecision]
    /\ UNCHANGED <<queue, disk, edits, pc, request, paid, ran, todo, trail, announced>>

\* A manifest file is written, replaced or removed; running calls keep what they
\* loaded.
EditManifest(cap, m) ==
    /\ edits < MaxEdits
    /\ disk[cap] # m
    /\ disk' = [disk EXCEPT ![cap] = m]
    /\ edits' = edits + 1
    /\ UNCHANGED <<storeVars, pc, request, paid, ran, todo, trail, owing, announced>>

DeciderStep(d) == ReadForDecision(d) \/ RecordDecision(d) \/ AnnounceDecision(d)

Next ==
    \/ \E c \in Call : CallStep(c) \/ Abort(c) \/ \E r \in Request_ : Begin(c, r)
    \/ \E d \in Decider : StartDecision(d) \/ DeciderStep(d) \/ DeciderDies(d)
    \/ \E cap \in Capability, m \in Manifest \cup {NoManifest} : EditManifest(cap, m)

Spec == Init /\ [][Next]_vars

-----------------------------------------------------------------------------
(* Properties.                                                             *)

Returned(c) == pc[c] = "reporting" /\ todo[c] = <<>>

Wrote(c, sink, what) ==
    \E i \in DOMAIN trail[c] : trail[c][i].sink = sink /\ trail[c][i].what = what

\* Variables hold values of their types.
CallTypeOK ==
    /\ disk \in [Capability -> Manifest \cup {NoManifest}]
    /\ edits \in 0..MaxEdits
    /\ pc \in [Call -> {"idle", "presenting", "using", "refused", "starting",
                        "running", "reporting", "aborted"}]
    /\ request \in [Call -> Request_ \cup {NoRequest}]
    /\ paid \in [Call -> ApprovalId \cup {NoApproval}]
    /\ ran \in [Call -> Scope \cup {Nothing}]

TypeOK == StoreTypeOK /\ CallTypeOK

\* A line of the file approved id for the scope.
Granted(q, id, scope) ==
    \E j \in DOMAIN q[id] : q[id][j].status = "approved" /\ q[id][j].scope = scope

\* What runs is authorised: a command the policy holds back ran because its caller
\* confirmed it, or because the approval its call consumed was approved for the
\* very scope that ran, whatever was edited, decided or consumed meanwhile
\* (executor.py:57-73, store.py:105-114).
RunsAreApproved ==
    \A c \in Call :
        (ran[c] # Nothing /\ ~Allowed(ran[c].manifest.policy, request[c].confirmed))
        => paid[c] # NoApproval /\ Granted(queue, paid[c], ran[c])

\* What a call relies on along the way: it keeps the request it began with, it is
\* consuming the approval it presented, which a line granted for its scope, and it
\* gets to run its scope by the policy's leave or by the approval it consumed.
CallHonest(c) ==
    LET scope == ScopeOf(request[c])
        leave == Allowed(request[c].manifest.policy, request[c].confirmed)
    IN  /\ pc[c] = "idle" => paid[c] = NoApproval /\ ran[c] = Nothing
        /\ pc[c] # "idle" => request[c] \in Request_
        /\ pc[c] \in {"presenting", "using"} => request[c].approval # NoApproval
        /\ pc[c] = "using" => /\ frame[c] # Idle
                              /\ frame[c].id = request[c].approval
                              /\ Granted(queue, request[c].approval, scope)
        /\ paid[c] # NoApproval => Granted(queue, paid[c], scope)
        /\ pc[c] \in {"starting", "running"} => leave \/ paid[c] # NoApproval
        /\ ran[c] # Nothing => ran[c] = scope /\ (leave \/ paid[c] # NoApproval)

CallIInv == StoreIInv /\ CallTypeOK /\ \A c \in Call : CallHonest(c)

\* The file accounts for every approval a call went ahead on: each line that marks
\* an approval used was appended by exactly one such call.
UsesAreAccounted ==
    \A id \in ApprovalId :
        Cardinality(LinesWith(id, "used")) = Cardinality({c \in Call : paid[c] = id})

\* Whatever ran, the audit log already said it had started and which approval it
\* spent, wherever the call was cut short since (executor.py:131-149).
EffectsAreAudited ==
    \A c \in Call : ran[c] # Nothing =>
        \E i \in DOMAIN trail[c] : trail[c][i] = Rec("audit", "started", paid[c])

\* Events never run ahead of the durable record they announce: whoever receives
\* one finds the audit line, indexed artifact, approval or decision it is about; and
\* the artifact index never names a file that is not there, though a file may be left
\* that no index names (cbn_artifacts/store.py:66-81).
EventsFollowRecords ==
    /\ \A c \in Call : \A i \in DOMAIN trail[c] :
        LET e == trail[c][i]
            Earlier(sinks) == \E j \in 1..(i - 1) : trail[c][j].sink \in sinks
                                                   /\ trail[c][j].what = e.what
        IN  /\ (e.sink = "event" /\ e.what # "message") =>
                    IF e.what = "approval.requested" THEN Known(e.approval)
                    ELSE Earlier({"audit", "artifact"})
            /\ e.sink = "artifact" => Earlier({"file"})
    /\ \A a \in announced : LinesWith(a.id, a.status) # {}

\* A refused call runs nothing and leaves a request of its own for exactly what it
\* tried, never the approval it had presented (executor.py:74-129).
RefusalsAskAnew ==
    \A c \in Call : \A i \in DOMAIN trail[c] :
        trail[c][i].what = "blocked" =>
            LET id == trail[c][i].approval IN
            /\ ran[c] = Nothing
            /\ id # request[c].approval
            /\ Known(id)
            /\ queue[id][1] = NewRequest(request[c].cap, ScopeOf(request[c]))
=============================================================================
