------------------------------ MODULE Acceptance ------------------------------
(***************************************************************************)
(* The acceptance report of a workflow, cbn_protocol/acceptance.py and     *)
(* acceptance_queue.py: the contract of its mappings (bridge_contract.py), *)
(* the readiness of the network (readiness.py) and, on demand, a run whose *)
(* mappings are compared with what their sources returned.  Each of the    *)
(* three reads the workflow file again; the registry is read once.         *)
(*                                                                         *)
(* A mapping (argsFrom) hands what a selector picks from the message of    *)
(* one task to another.  Workflow tells in detail how a run resolves it.   *)
(***************************************************************************)
EXTENDS Workspace

CONSTANTS
    Mappings,     \* what the argsFrom of the workflow file may be: sets of Route
    Raised        \* the outcome of a run that raised

\* What a selector aims at, whether its syntax is valid, and where it picks something: in
\* any message, in the data of a structured result, from a list if it is long enough.
Selector ==
    {[kind |-> "metadata", valid |-> TRUE,  picks |-> "always"],
     [kind |-> "payload",  valid |-> TRUE,  picks |-> "always"],
     [kind |-> "payload",  valid |-> TRUE,  picks |-> "field"],
     [kind |-> "payload",  valid |-> FALSE, picks |-> "never"],
     [kind |-> "artifact", valid |-> TRUE,  picks |-> "item"],
     [kind |-> "unknown",  valid |-> TRUE,  picks |-> "always"]}

Route == [source : Task, consumer : Task, listed : BOOLEAN, selector : Selector]

ASSUME MappingsAssumption ==
    Mappings \subseteq SUBSET Route /\ \A S \in Mappings : \A r \in S : r.source < r.consumer

\* How a task of a run ended, and what its message holds.  Two ends leave the run: the
\* selection of arguments has raised, or the call has broken.
End == [end : {"good", "failed", "refused", "skipped", "unresolved", "raised", "broken"},
        field : BOOLEAN, item : BOOLEAN]

ASSUME RaisedAssumption == \A tasks \in SUBSET Task : Raised \notin [tasks -> End]

VARIABLES
    routes,       \* the mappings of the workflow file
    report        \* an acceptance report, in the making or done

acceptance == <<routes, report>>

WorkflowFile == [tasks |-> document, routes |-> {r \in routes : r.consumer \in document}]

(* bridge_contract.py, readiness.py *)

Known(runtime, t) == runtime.manifest[Uses[t]].known

\* WorkflowGraph.validate
ValidFile(file) == \A r \in file.routes : r.source \in file.tasks /\ r.listed

\* Faulty variant of RouteBlockers: the consumer is not looked up.
RouteBlockersOfSource(runtime, file, r) ==
    {b \in {"source capability", "selector", "target", "unverified"} :
        CASE b = "source capability" -> ~Known(runtime, r.source)
          [] b = "selector"          -> ~r.selector.valid
          [] b = "target"            -> r.selector.kind = "unknown"
          [] b = "unverified"        -> /\ r.selector.kind = "payload" /\ Known(runtime, r.source)
                                        /\ ~runtime.manifest[Uses[r.source]].verified}

\* _route_blockers
RouteBlockers(runtime, file, r) ==
    {b \in {"source", "needs", "source capability", "consumer capability", "selector",
            "target", "unverified", "mapping"} :
        CASE b = "source"              -> r.source \notin file.tasks
          [] b = "needs"               -> ~r.listed
          [] b = "source capability"   -> ~Known(runtime, r.source)
          [] b = "consumer capability" -> ~Known(runtime, r.consumer)
          [] b = "selector"            -> ~r.selector.valid
          [] b = "target"              -> r.selector.kind = "unknown"
          [] b = "unverified"          -> /\ r.selector.kind = "payload"
                                          /\ ~(/\ Known(runtime, r.source)
                                               /\ runtime.manifest[Uses[r.source]].verified)
          [] b = "mapping"             -> ~r.selector.valid \/ r.selector.kind = "unknown"}

\* _workflow_contract: an invalid workflow is reported without its mappings.
Contract(runtime, file) ==
    LET listed == IF ValidFile(file) THEN file.routes ELSE {} IN
    [valid   |-> ValidFile(file),
     blocked |-> {r \in listed : RouteBlockers(runtime, file, r) # {}},
     invalid |-> {r \in listed : ~r.selector.valid}]

\* workflow_bridge_contract_report
ContractOk(contract) == contract.valid /\ contract.invalid = {} /\ contract.blocked = {}

\* _readiness_gates, internal_bridge_ready
BridgeReady(runtime, contract) ==
    /\ \E c \in Capability : runtime.manifest[c].known
    /\ ContractOk(contract) /\ contract.invalid = {}

(* acceptance.py *)

\* A task that was run has a message, whatever became of it: one that is refused has none.
HasMessage(outcome, t) == outcome[t].end \in {"good", "failed"}

\* select_bridge_value
Picks(outcome, r) ==
    /\ HasMessage(outcome, r.source)
    /\ CASE r.selector.picks = "always" -> TRUE
         [] r.selector.picks = "field"  -> outcome[r.source].field
         [] r.selector.picks = "item"   -> outcome[r.source].item
         [] r.selector.picks = "never"  -> FALSE

\* WorkflowRunner.run: how a task may end.  What a selector cannot find fails the task, an
\* index beyond its list and a capability nobody knows raise out of the run.
Ends(q, file, outcome, t) ==
    LET lost == {r \in file.routes : r.consumer = t /\ ~Picks(outcome, r)} IN
    IF \E u \in file.tasks : u < t /\ outcome[u].end # "good" THEN {"skipped"}
    ELSE IF lost # {} THEN {IF r.selector.picks = "item" THEN "raised" ELSE "unresolved" : r \in lost}
    ELSE IF ~Known(q.runtime, t) THEN {"raised"}
    ELSE Answers(q.runtime, Uses[t], q.confirmed, q.dry)

\* The message of a dry run is raw text, and a result that is raw text has no fields.
Outcomes(q, file) ==
    {o \in [file.tasks -> End] :
        \A t \in file.tasks :
            /\ o[t].field => ~q.dry /\ q.runtime.manifest[Uses[t]].parser # "raw.text"
            /\ o[t].field \/ o[t].item => HasMessage(o, t)
            /\ o[t].end \in Ends(q, file, o, t)}

\* _runtime_route_evidence raises when a mapping of the graph picks nothing, also one the
\* run has not reached; a mapping matches when its consumer was given what it picks.
EvidenceRaises(q) == \E r \in q.ran.routes : ~Picks(q.outcome, r)
Matched(q, r) == q.outcome[r.consumer].end \notin {"skipped", "unresolved"}

\* _runtime_summary
RunVerdict(q) ==
    IF q.outcome = Raised \/ EvidenceRaises(q) THEN "error"
    ELSE IF \E t \in q.ran.tasks : q.outcome[t].end = "broken" THEN "error"
    ELSE IF \E t \in q.ran.tasks : q.outcome[t].end = "refused" THEN "blocked"
    ELSE IF \A t \in q.ran.tasks : q.outcome[t].end = "good" THEN "completed" ELSE "failed"
FailedRoutes(q) == IF RunVerdict(q) = "error" THEN {} ELSE {r \in q.ran.routes : ~Matched(q, r)}

\* cli_to_cli_acceptance_report: its gates and its verdict.
Gates(q) ==
    [contract  |-> ContractOk(q.contract),
     readiness |-> q.ready,
     routes    |-> q.contract.blocked = {},
     completed |-> ~q.run \/ RunVerdict(q) = "completed",
     mapped    |-> ~q.run \/ FailedRoutes(q) = {}]
Accepted(q) == LET g == Gates(q) IN \A k \in DOMAIN g : g[k]

\* _recommended_next_action
RecommendedNextAction(q) ==
    LET g == Gates(q) IN
    IF Accepted(q) THEN IF q.run THEN "use_as_runtime_cli_to_cli_fixture"
                        ELSE "run_acceptance_with_dry_run_or_protocol_smoke"
    ELSE IF ~g.contract \/ ~g.routes THEN "fix_workflow_bridge_contract"
    ELSE IF ~g.readiness THEN "fix_protocol_readiness_blockers"
    ELSE IF ~g.completed THEN "inspect_workflow_runtime_failure"
    ELSE IF ~g.mapped THEN "inspect_runtime_route_mapping" ELSE "inspect_acceptance_report"

(* Actions *)

NoReport(runtime) ==
    LET none == [tasks |-> {}, routes |-> {}] IN
    [at |-> "none", run |-> FALSE, dry |-> FALSE, confirmed |-> FALSE, runtime |-> runtime,
     first |-> none, second |-> none, ran |-> none, ready |-> FALSE, outcome |-> Raised,
     contract |-> [valid |-> FALSE, blocked |-> {}, invalid |-> {}]]

\* A person rewrites the argsFrom of the workflow file.
EditRoutes(mappings) ==
    /\ Stimulus
    /\ routes' \in mappings \ {routes}
    /\ UNCHANGED <<manifest, edition, document, granted, report>>

BeginReport ==
    /\ report.at \in {"none", "done"} /\ Stimulus
    /\ \E run, dry, confirmed \in BOOLEAN :
           report' = [NoReport(Runtime) EXCEPT !.at = "contract", !.run = run, !.dry = dry,
                                               !.confirmed = confirmed]
    /\ UNCHANGED <<manifest, edition, document, granted, routes>>

ReadContract ==
    /\ report.at = "contract"
    /\ report' = [report EXCEPT !.at = "readiness", !.first = WorkflowFile,
                                !.contract = Contract(report.runtime, WorkflowFile)]
    /\ UNCHANGED <<workspace, routes>>

ReadReadiness ==
    /\ report.at = "readiness"
    /\ report' = [report EXCEPT !.at = IF report.run THEN "run" ELSE "done", !.second = WorkflowFile,
                      !.ready = BridgeReady(report.runtime, Contract(report.runtime, WorkflowFile))]
    /\ UNCHANGED <<workspace, routes>>

RunWorkflow ==
    /\ report.at = "run"
    /\ \E o \in IF ValidFile(WorkflowFile) THEN Outcomes(report, WorkflowFile) ELSE {Raised} :
           report' = [report EXCEPT !.at = "done", !.ran = WorkflowFile,
               !.outcome = IF o # Raised /\ \E t \in WorkflowFile.tasks : o[t].end = "raised"
                           THEN Raised ELSE o]
    /\ UNCHANGED <<workspace, routes>>

InitAcceptance(mappings) == routes \in mappings /\ report = NoReport(Runtime)

NextAcceptance(mappings) ==
    EditRoutes(mappings) \/ BeginReport \/ ReadContract \/ ReadReadiness \/ RunWorkflow

(* Properties *)

\* A workflow that is accepted with a run has been run to its end, and each of its mappings
\* has handed over what its source returned, whatever was edited between the three reads of
\* the file; with a dry run it has none that needs a field of a result.  One that is
\* accepted can, as long as its file is the same, only fail a run for a reason no static
\* report sees: a task is refused, fails or breaks, a result lacks what a selector picks,
\* or a task without mappings uses a capability nobody knows.  And the action recommended
\* for a workflow that is not accepted is never to compare its mappings, and to fix the
\* readiness of the network only when there is no capability at all or the file has
\* changed.
AcceptanceIsEarned ==
    LET q == report
        action == RecommendedNextAction(q)
        mapped == {r.source : r \in q.ran.routes} \cup {r.consumer : r \in q.ran.routes}
    IN  q.at = "done" =>
        /\ Accepted(q) /\ q.run =>
               /\ \A t \in q.ran.tasks : q.outcome[t].end = "good" /\ Known(q.runtime, t)
               /\ \A r \in q.ran.routes : Picks(q.outcome, r) /\ r.selector.valid
               /\ q.dry => \A r \in q.ran.routes : r.selector.picks # "field"
        /\ q.run /\ action = "inspect_workflow_runtime_failure" /\ q.first = q.ran =>
               \/ /\ q.outcome = Raised
                  /\ \/ \E t \in q.ran.tasks \ mapped : ~Known(q.runtime, t)
                     \/ \E r \in q.ran.routes : r.selector.picks = "item"
               \/ /\ q.outcome # Raised
                  /\ \/ \E t \in q.ran.tasks : q.outcome[t].end \in {"refused", "failed", "broken"}
                     \/ \E r \in q.ran.routes : r.selector.picks = "field"
        /\ action \notin {"inspect_runtime_route_mapping", "inspect_acceptance_report"}
        /\ action = "fix_protocol_readiness_blockers" /\ q.first = q.second =>
               \A c \in Capability : ~q.runtime.manifest[c].known
==============================================================================
