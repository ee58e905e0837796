--------------------------- MODULE WorkflowPackage ---------------------------
(***************************************************************************)
(* Workflow packages, cbn_workflow/package.py.  "workflow compile" writes  *)
(* the files of a directory one after the other and removes none that is   *)
(* there; "workflow run-package" reads them, checks the lock of the tools, *)
(* runs the workflow, validates what its tasks returned against the        *)
(* schemas and records the run.  Each command is a process of its own.     *)
(*                                                                         *)
(* A digest is the manifest it is computed from, a schema the parser it    *)
(* expects.  The task that is number k of a workflow is its k-th task.     *)
(***************************************************************************)
EXTENDS Workspace

CONSTANTS
    Job,          \* processes that compile or run the package, numbered as they start
    Nothing,      \* no file
    Torn          \* a file whose writer was killed: reading it raises

\* What a file of the package may hold, and a run may return, is told from a file that is
\* not there or is torn.
ASSUME PackageAssumption ==
    /\ Job \subseteq Nat /\ Torn # Nothing
    /\ {Nothing, Torn} \cap ({"report", "there"} \cup {m.parser : m \in Manifest}) = {}
    /\ \A none \in {Nothing, Torn}, tasks \in SUBSET Task :
           /\ none # tasks /\ none \notin [tasks -> Manifest]
           /\ none \notin [tasks -> {"good", "failed", "refused", "skipped", "broken"}]

VARIABLES
    job,          \* job[j]: a process
    pkg,          \* the files of the package
    disturbed     \* a compile was killed, or two processes were at work at once

package == <<job, pkg, disturbed>>

AtWork == {j \in Job : job[j].at \notin {"none", "done"}}

Begin(j) ==
    /\ job[j].at = "none" /\ Stimulus
    /\ \A i \in Job : i < j => job[i].at # "none"
    /\ disturbed' = (disturbed \/ AtWork # {})
    /\ UNCHANGED <<manifest, edition, document, granted, pkg>>

(* compile_workflow_package *)

BeginCompile(j) ==
    /\ Begin(j)
    /\ job' = [job EXCEPT ![j] = [@ EXCEPT !.at = "writing", !.step = 1,
                                           !.runtime = Runtime, !.tasks = document]]

\* A workflow that cannot be read, is not valid or uses a capability nobody knows is
\* rejected before anything is written.
RejectCompile(j) ==
    /\ Begin(j)
    /\ job' = [job EXCEPT ![j].at = "done", ![j].status = "rejected"]

\* Faulty variant of Digest: the manifest's output section is left out.
DigestOfPolicy(runtime, t) == [held |-> runtime.manifest[Uses[t]].held]

\* manifest_binding_record, _tool_bindings_lock
Digest(runtime, t) == runtime.manifest[Uses[t]]
Lock(runtime, tasks) == [t \in tasks |-> Digest(runtime, t)]

\* _task_output_schema
Schema(runtime, t) == runtime.manifest[Uses[t]].parser

\* A compile writes the schema of each task, the workflow, the lock, and then what nothing
\* reads but an inspection: policy profile and report, and a golden run if there is none.
\* The file at which it is killed is torn.
Write(q, killed) ==
    LET k == q.step n == Cardinality(q.tasks)
        File(content) == IF killed THEN Torn ELSE content
    IN
    IF k <= n
    THEN LET t == CHOOSE t \in q.tasks : Cardinality({u \in q.tasks : u <= t}) = k
         IN  [pkg EXCEPT !.schema[t] = File(Schema(q.runtime, t))]
    ELSE IF k = n + 1 THEN [pkg EXCEPT !.workflow = File(q.tasks)]
    ELSE IF k = n + 2 THEN [pkg EXCEPT !.lock = File(Lock(q.runtime, q.tasks))]
    ELSE [pkg EXCEPT !.report = File("report"), !.golden = "there"]

WriteFile(j) ==
    /\ job[j].at = "writing"
    /\ pkg' = Write(job[j], FALSE)
    /\ job' = [job EXCEPT ![j].step = @ + 1,
                          ![j].at = IF job[j].step < Cardinality(job[j].tasks) + 3 THEN @ ELSE "done"]
    /\ UNCHANGED <<workspace, disturbed>>

\* The process is killed while it writes a file.
KillCompile(j) ==
    /\ job[j].at = "writing"
    /\ pkg' = Write(job[j], TRUE)
    /\ job' = [job EXCEPT ![j].at = "done"]
    /\ disturbed' = TRUE
    /\ UNCHANGED workspace

(* run_workflow_package *)

BeginRun(j) ==
    /\ Begin(j)
    /\ \E dry, confirmed \in BOOLEAN :
           job' = [job EXCEPT ![j] = [@ EXCEPT !.at = "load", !.runtime = Runtime,
                                               !.dry = dry, !.confirmed = confirmed]]

Raise(j) == job' = [job EXCEPT ![j].at = "done", ![j].status = "raised"] /\ UNCHANGED pkg

\* load_packaged_workflow
Load(j) ==
    /\ job[j].at = "load"
    /\ IF pkg.workflow \in {Nothing, Torn} THEN Raise(j)
       ELSE /\ job' = [job EXCEPT ![j].at = "verify", ![j].tasks = pkg.workflow]
            /\ UNCHANGED pkg
    /\ UNCHANGED <<workspace, disturbed>>

\* _task_state: of a task that is not reached the result is "not allowed", like that of
\* one that is refused.
TaskStatus(f, valid, t) ==
    CASE f[t] \in {"refused", "skipped"} -> "blocked"
      [] f[t] = "failed" \/ ~valid[t]    -> "failed"
      [] OTHER                           -> "completed"

\* write_run_state
RunState(j, status, tasks) == [run |-> j, status |-> status, tasks |-> tasks]

\* verify_tool_bindings: every binding of the lock is that of the manifest loaded.  If one
\* is not the run is recorded as blocked before it starts.
VerifyLock(j) ==
    LET q == job[j] IN
    /\ q.at = "verify"
    /\ IF pkg.lock \in {Nothing, Torn} THEN Raise(j)
       ELSE IF \A t \in DOMAIN pkg.lock : pkg.lock[t] = Digest(q.runtime, t)
       THEN job' = [job EXCEPT ![j].at = "run"] /\ UNCHANGED pkg
       ELSE /\ job' = [job EXCEPT ![j].at = "done", ![j].status = "lock-mismatch"]
            /\ pkg' = [pkg EXCEPT !.state =
                   RunState(j, "blocked", [t \in q.tasks |-> "not_started"])]
    /\ UNCHANGED <<workspace, disturbed>>

\* A run that is left by an exception is not recorded, whatever its tasks have done.
RunTasks(j) ==
    LET q == job[j] IN
    /\ q.at = "run"
    /\ \E f \in Runs(q.runtime, q.tasks, q.confirmed, q.dry) :
           LET raised == RunStatus(f) = "raised" IN
           job' = [job EXCEPT ![j].at = IF raised THEN "done" ELSE "validate", ![j].result = f,
                              ![j].status = IF raised THEN "raised" ELSE @]
    /\ UNCHANGED <<workspace, pkg, disturbed>>

\* Faulty variant of Fits: the raw text of a dry run is not let pass.
FitsReal(q, t) ==
    /\ q.result[t] \in {"good", "failed"}
    /\ pkg.schema[t] = IF q.dry THEN "raw.text" ELSE q.runtime.manifest[Uses[t]].parser

\* _validate_task_payload: what a task returned names the parser of its manifest, or is
\* the raw text of a dry run; a task that returned nothing fails.
Fits(q, t) ==
    /\ q.result[t] \in {"good", "failed"}
    /\ q.dry \/ pkg.schema[t] = q.runtime.manifest[Uses[t]].parser

\* validate_run_against_artifact_schemas: every schema of the directory is validated, and
\* one whose task did not run is not satisfied.
Valid(q) ==
    [t \in {u \in Task : pkg.schema[u] # Nothing} |-> t \in q.tasks /\ Fits(q, t)]

\* Validation, run state, golden run: a schema that cannot be read raises, after the tasks
\* have run and before anything is recorded.
Record(j) ==
    LET q == job[j]
        valid == Valid(q)
        status == IF RunStatus(q.result) = "completed" /\ \E t \in DOMAIN valid : ~valid[t]
                  THEN "schema-failed" ELSE RunStatus(q.result)
        checked == [t \in q.tasks |-> t \in DOMAIN valid => valid[t]]
    IN  /\ q.at = "validate"
        /\ IF \E t \in Task : pkg.schema[t] = Torn THEN Raise(j)
           ELSE /\ job' = [job EXCEPT ![j].at = "done", ![j].status = status]
                /\ \E golden \in {pkg.golden, "there"} :
                   pkg' = [pkg EXCEPT !.golden = golden, !.state =
                       RunState(j, status, [t \in q.tasks |-> TaskStatus(q.result, checked, t)])]
        /\ UNCHANGED <<workspace, disturbed>>

\* inspect_workflow_package
InspectOk ==
    /\ Nothing \notin {pkg.workflow, pkg.lock, pkg.report, pkg.golden}
    /\ \E t \in Task : pkg.schema[t] # Nothing

InitPackage ==
    /\ pkg = [workflow |-> Nothing, lock |-> Nothing, report |-> Nothing, golden |-> Nothing,
              state |-> Nothing, schema |-> [t \in Task |-> Nothing]]
    /\ job = [j \in Job |-> [at |-> "none", step |-> 0, runtime |-> Runtime, tasks |-> {},
                             dry |-> FALSE, confirmed |-> FALSE,
                             result |-> Nothing, status |-> "none"]]
    /\ disturbed = FALSE

NextPackage ==
    \E j \in Job : \/ BeginCompile(j) \/ RejectCompile(j) \/ WriteFile(j) \/ KillCompile(j)
                   \/ BeginRun(j) \/ Load(j) \/ VerifyLock(j) \/ RunTasks(j) \/ Record(j)

(* Properties *)

\* As long as no compile is killed and no two commands overlap, a run runs the tasks that
\* were compiled last, each by the manifest that was there at the time, however often
\* manifests and workflow have been edited since; it raises only where nothing has been
\* compiled or a task has broken, and then the state file does not tell of it; and an
\* inspection finds the package complete from the first compile on that was not rejected.
RunsAsCompiled ==
    ~disturbed =>
        /\ \A j \in Job :
               LET compiles == {i \in Job : i < j /\ job[i].step > 0} IN
               /\ job[j].result # Nothing =>
                      \E i \in compiles :
                          /\ \A k \in compiles : k <= i
                          /\ job[j].tasks = job[i].tasks
                          /\ \A t \in job[j].tasks : job[j].runtime.manifest[Uses[t]]
                                                       = job[i].runtime.manifest[Uses[t]]
               /\ job[j].status = "raised" =>
                      \/ compiles = {}
                      \/ /\ job[j].result # Nothing
                         /\ \E t \in job[j].tasks : job[j].result[t] = "broken"
               /\ pkg.state # Nothing /\ pkg.state.run = j =>
                      job[j].status \notin {"none", "raised", "rejected"}
        /\ AtWork = {} => (InspectOk <=> \E j \in Job : job[j].step > 0)

\* A run whose tasks all succeed fails on a schema only because an earlier compile, of a
\* workflow with another task, has left a schema that nothing removes; and the state file
\* counts a task as completed only if it ran and what it returned fits its schema.
SchemaFailuresAreStale ==
    ~disturbed =>
        \A j \in Job :
            LET q == job[j] IN
            /\ q.status = "schema-failed" => \E t \in Task \ q.tasks : pkg.schema[t] # Nothing
            /\ pkg.state # Nothing /\ pkg.state.run = j =>
                   /\ pkg.state.status = "completed" <=> q.status = "completed"
                   /\ q.status \in {"completed", "schema-failed"} <=>
                          \A t \in q.tasks : pkg.state.tasks[t] = "completed"
==============================================================================
