# TLA+ verification of cli-bridge-network

cli-bridge-network turns command line tools into governed capabilities: a manifest
describes a tool, a policy decides which calls need a confirmation, an approval
queue keeps what people decided, an executor runs the tool through a stdio or PTY
adapter and leaves audit lines, events and artifacts, and workflows, plugin
operations and protocol facades are built on those calls. This directory holds TLA+
models of the parts whose correctness depends on order, overlap and failure, the
TLC runs that check them on small instances, and TLAPS proofs about them for
instances of any size. Paths below are relative to the repository.

## 1. Inventory

### How the system runs

There is no shared process state to speak of. The daemon (`api_server/server.py`)
serves each request in a thread of its own and builds a runtime for it
(`cbn_runtime/context.py`): a fresh manifest registry, approval store, audit log,
event bus, artifact store and executor over the same files. The command line
(`cbn/cli.py`) builds the same runtime in a process per invocation. So the parts
interact through JSONL files and directories that nothing locks, except for plugin
operations, which have a lock directory of their own.

| Part | Code | State | Operations | What is hard, and what makes it correct |
|---|---|---|---|---|
| Approval queue | `cbn_approval/store.py` | `approvals.jsonl`, the last line of an id counts | `request`, `decide`, `use` | Read, check, read again and append without a lock. An approval must be granted before it is used, used for one call, and its history must be true. |
| Policy engine | `cbn_policy/engine.py` | none | `evaluate` | Which policy needs a confirmation. |
| Capability executor | `cbn_execution/executor.py` | none of its own | `call` | Consumes or requests an approval, runs a command, writes to three files; a crash anywhere. What runs must be what was approved; what ran must be on record. |
| Adapters | `adapters/stdio.py`, `adapters/pty.py` | a child process, its output, a reader thread | `call` | A deadline against a command that exits, hangs, or leaves a helper behind with its output open. A call must end, and its result be what happened. |
| Workflow graph, runner | `cbn_execution/graph.py`, `cbn_workflow/runner.py` | locals of `run`; `approvalId` in the document | `validate`, `topological_order`, `run` | Order, stopping in the middle, reruns that consume approvals and change arguments. |
| Workflow package, catalog | `cbn_workflow/package.py`, `catalog.py` | a directory: workflow, lock, profile, schemas, golden runs, state | compile, run, inspect | Files written one by one and never removed, read by other processes. A run must run what was compiled, on the tools it was compiled for. |
| Plugin operation runner | `cbn_plugins/operations.py` | lock directory, holder file, audit lines | `execute`, `execute_write` | Mutual exclusion by `mkdir`, release after failure, locks of dead operations, half-made clones. |
| Plugin manager | `cbn_plugins/manager.py`, `manifest.py` | none of its own: plugin directories, manifests | catalog, plans, preflight, provenance, gates | Several reports of one host; a gate read before the lock is taken. An open gate must still hold when the source is pulled, and no plan be made ready without consent. |
| CLI-Anything hub | `cbn_plugins/cli_anything.py` | generated manifests, repair overlays, wrappers, fixtures | sync, onboard, repair, candidates, install queue, verify, promote, adapt, plans | A dozen reports made of each other; manifests regenerated over hand edits; two files of one repair. What is verified must run, what is queued be installable, what is advised be possible. |
| Manifest registry | `cbn_core/manifest.py` | manifests loaded per request | load, search, require | A call keeps the manifest it loaded while the file changes. |
| Audit log, event bus | `cbn_audit/log.py`, `cbn_events/bus.py` | JSONL files | `append`, `publish`, `tail` | The order across files, what a reader of events may rely on, torn lines. |
| Artifact store | `cbn_artifacts/store.py` | files and an index | create, `inspect`, `tail` | File before index; a window of 1000 records. |
| Envelope, selectors, parsers | `cbn_protocol/envelope.py`, `cbn_parsers/` | none | build, select, parse | A selector that finds nothing, or raises. |
| Daemon | `api_server/server.py` | session environment, made on first use | routes | Lazily made shared state, gates, threads over the files. |
| MCP, ACP facades | `cbn_protocol/mcp_stdio.py`, `acp_stdio.py`, `workflow_calls.py` | a session on a pipe, the runtime it started with | JSON-RPC methods | Replies must match requests though a tool may read the server's input; what the client is told must be what happened. |
| A2A facade | `cbn_protocol/a2a_http.py` | a process-wide dictionary of tasks | send, get, cancel | Cancellation of what is over; consent A2A cannot give. |
| Acceptance, readiness, contract | `cbn_protocol/acceptance.py`, `bridge_contract.py`, `readiness.py` | none | reports | Three reads of one file. What is accepted must have run as it says. |
| Adapter agent, other reports | `cbn_adapter_agent/`, `cbn_protocol/` | session secrets; reports | store a secret; tables | A secret that is said to be stored must reach later calls. |

`PROJECT.json` lists every part with its files and says how far it is modelled, and
every hazard with the line where it bites and the properties that watch it.

### What the core must guarantee

1. A command the policy holds back runs only if its caller confirmed it, or on an
   approval a person gave for exactly that command, arguments, directory, manifest
   and dry-run flag.
2. What ran can be found in the audit log, whatever crashed when; an event never
   announces what is not on record.
3. Approvals are consumed, and every consumption belongs to a call.
4. Every call, run and operation that begins ends, or was cut short.
5. One operation at a time works on a plugin; what it overwrites is kept.
6. A workflow runs its tasks after what they need, reports each exactly once, and
   rerunning it after approval gets it done.
7. A result says what happened to the command: no exit that was none, no timeout that
   had not passed, no output lost.
8. Reports can be relied on: what is verified runs, what is queued can be installed,
   what a gate let through is still true when it is done, and what a person is sent
   to do is possible.
9. A client of a facade gets the answers to its own requests, and they are true.
10. A package runs what was compiled, and an accepted workflow is one whose messages
   have reached their consumers.

## 2. Modules

| Module | Models | Built on |
|---|---|---|
| `ApprovalLedger` | what approvals promise: an abstract specification | |
| `ApprovalStore` | `store.py`, step by step between clients | implements `ApprovalLedger` |
| `PolicyEngine` | `engine.py`, a pure decision | |
| `ToolCall` | `executor.py: call`, deciders, manifest edits, records | extends `ApprovalStore` and `PolicyEngine` |
| `PluginOperation` | `operations.py: execute`, `execute_write`, and the files of a repair | |
| `Workflow` | `graph.py` and `runner.py: run`, with approvals and reruns | implements `ApprovalLedger` (proved) |
| `Adapter` | `adapters/stdio.py` and `adapters/pty.py`: one command at work | |
| `AdaptedCall` | concurrent calls, one followed into its adapter | extends `ToolCall` and `Adapter` |
| `PluginCatalog` | `manager.py`: operations, their validation and plans | |
| `PluginManager` | `manager.py`: reports, gates, plans, and gated requests to the daemon | extends `PluginCatalog` |
| `Harness` | `cli_anything.py`: host, market, manifests, and what changes them | |
| `HarnessReports` | `cli_anything.py`: candidates, queue, blocked plans, verification | extends `Harness` |
| `HarnessPlans` | `cli_anything.py`: promotion, adaptation, live, MVP and bootstrap plans | extends `HarnessReports` |
| `Workspace` | what every process loads: manifests, workflows, approvals | |
| `Facades` | `mcp_stdio.py`, `acp_stdio.py`, `a2a_http.py`, the daemon's POST handlers | extends `Workspace` |
| `WorkflowPackage` | `package.py` | extends `Workspace` |
| `Acceptance` | `acceptance.py`, `bridge_contract.py`, the deciding part of `readiness.py` | extends `Workspace` |
| `Surfaces` | the three above in one workspace | extends them |
| `MC...` | the constants, bounds and symmetry sets of the runs | the module they name |
| `...Proofs` | the theorems | the module they name, TLAPS; `AdapterProofs` covers `AdaptedCall` as well, on top of `ToolCallProofs` |

Definitions marked "Faulty variant" are not part of a specification. Each is a
plausible bug of the definition that follows it; substituted for it, the property
`PROJECT.json` pairs it with must fail.

### ApprovalStore and ApprovalLedger

`queue[id]` is the sequence of lines of `approvals.jsonl` that name `id`; a line keeps
status, capability, scope hash and the actions of its history. `frame[c]` is where
client `c` stands inside `decide` or `use`: it has *checked* the record (`inspect`,
`store.py:93-95` and `105-113`) or has *copied* it again (`_transition`, line 141).
Then it appends (`Commit`). `Request` is one append of a fresh id. `Die` leaves an
operation in the middle. `Left` are requests of earlier sessions; legacy records
without a scope hash are among the initial states, and uses that check no scope
(`scope_hash=None`) among the inputs.

The ledger says what one hopes for: none, pending, approved or denied, used, each
step once. `ImplementsLedger` maps an approval's last line to its standing.

### ToolCall

A call's `pc` follows `executor.py`: `presenting` an approval, `using` it (three steps
of the store), `refused`, `starting` (writes the started records, then dispatches),
`running`, `reporting`. `todo` holds the records the current stretch of code is about to
write, in its order; `Write` writes one, so that a crash, a decision or another call may
come between any two. `trail` holds those written. Deciders are `cbn approvals` and
`POST /approvals/decide`: decide, then publish. `EditManifest` changes the file a later
call loads. `Abort` is the death of the process or an exception, anywhere. A scope
digest is the scope (SHA-256 is taken to be injective). An artifact is a file, then its
line in the index (`cbn_artifacts/store.py:66-81`), then its event. The parsed result and
the contents of messages are left out: they do not change what is recorded.

### Adapter and AdaptedCall

`Adapter` is one command at work. `at` is where the calling thread stands: in
`subprocess.run` (`communicate`, and on Windows `collect`, which reads on after the kill), in
the POSIX loop of `pty.py` (`check` the deadline, `select`, `poll`, `drain`), or in the
winpty loop (`watch`, `join`) beside its reader thread. `command` runs, exits or is killed; it
may leave a `helper` behind that shares its output; `pipe` is what they wrote and nobody has
read. Output is abstracted to chunks of the command's own and of its helper; the two pipes
of stdio are one.

`AdaptedCall` runs the calls of `ToolCall` with one of them `Followed` into its adapter: what
`ToolCall` takes for one step (`Exit`) is there the adapter's run, and the records of the
call are those of the result the adapter returned.

### PluginOperation

`lock` is the lock directory, `holder` the operation its file names. `Acquire` is the `mkdir`,
`NameHolder` the file written after it, `RemoveHolder` and `RemoveLock` the two steps of the
release. `ReleaseFails` is an `OSError` in either, which `_release_lock` swallows
(`operations.py:217-222`): the operation goes on to report, its lock and perhaps its name stay,
and `stuck` says whose they are. A plan is a sequence of commands (pip, clone, pull, an
optional skill installer) or of files (the wrapper and manifest of an entrypoint repair). A
command succeeds, fails or is killed at its timeout; a clone makes its directory first and
leaves a `partial` one when it is killed. A file is backed up, then replaced. `Raise` is an
exception inside the `try` block, after which the lock is released but nothing is reported
(`thrown`); `Die` one outside of it, or a crash (`dead`). `cut` remembers that a clone was cut
short, `file` and `backup` hold which operation's version is where.

### Workflow

`flow` is a document: a sequence of tasks with ids, needs, the tasks their arguments
come from, `dryRun`, and whether the policy holds back the capability they use. `Start`
is `run()` with the document as it stands; `OrderRound` and `OrderTask` are the loops of
`topological_order`; a task is `ResolveArgs`, then the executor's `Refuse`, or `GoAhead`
(with `Consume`), `Dispatch`, `Return`; `Stopped` is what a task that does not
complete does to the rest. `Decide` and `EditApproval` are the people: they decide a
request and write its id into the document. The executor here is a coarser view of
`ToolCall`: the approval is read in one step and marked used in another, so two
sessions can both pass. Decisions are atomic (one person decides at a time);
`ApprovalStore` has decisions that overlap. Each task uses a capability of its own. A
transport nobody serves makes `call` return `allowed: False`, which the runner takes for
a call that awaits an approval (`Unsupported`); it reports `blocked` with no approval to
give.

### PluginCatalog and PluginManager

`PluginCatalog` holds the operations a plugin offers as records (id, kind, method, inputs,
effects, what the payload says of `confirmed`), how the generic ones, the manifest's own and
the provider's become one catalog, its validation, and the plan of one operation. What a
payload says of `confirmed` is left out, asked of the caller, or a literal: false, which the
validation refuses, another falsy one (null, 0, ""), which passes it (`manager.py:1504`) and
which the daemon refuses later (`CarriedOut`), or true. Of a command line it keeps the verb
and the flags. `PluginManager` is a host (`tools`, `repo`,
`packages`, `entry`, `winpty`) that people change, the reports of it, and requests to install
or update: `Ask` evaluates the gate and makes the plan, `Enter` takes the lock later,
`Step` does a command, `Finish` releases. `PluginOperation` has the lock and the files in
detail; here a command succeeds or fails at once and what counts is the host it leaves.

### Harness, HarnessReports, HarnessPlans

`Harness` keeps what the hub reads and writes: what is on the host, the `market` in its order,
the manifests (`portable` and the `overlay` that shadows it), the wrappers of repairs and the
parser `fixtures`. `answers` is what cli-hub list and search return: to each query some of the
market's records, as a bare list or as a list inside an object, or a failure. A search by name
takes the bare list only (`RecordFor`), a listing either (`Hits`), so a record may be listed
that its evaluation does not find. A record may declare no requirement where cli-hub info shows
one: evaluation and gate fall back to it (`Requires`), the candidate scan does not
(`Declared`). The file of a wrapper is named after the capability. Its actions are the
operations that write: regenerate, adapt, sync, install and uninstall, onboard (manifest, then
install), repair (wrapper, then overlay, with a crash in between) and the changes of other
people. The reports are operators over this state, each as its function computes it, all its
searches in one state of the host: `HarnessReports` has the candidates of a query with their
collisions, the install queue (with its blocked entries, as is the default), blocked plans and
the verification of a harness; `HarnessPlans` the promotion and adaptation gates, live
verification, and the MVP and bootstrap plans. Texts, commands and copies of one report in
another are left out; what a module scan finds is a constant (`Target`). An operator who
follows the advice of `evaluate_harness` is part of `Next`.

### Workspace, Facades, WorkflowPackage, Acceptance, Surfaces

`Workspace` is what every process loads: the effective manifest of each capability, the
workflow file, the approvals that wait. `Runtime` is what a process knows of it from the
moment it builds one: once for a stdio server, at each request for the daemon, once for a
command. A call of the executor and a run of a workflow are single steps there, by what they
may answer; both may raise (`broken`, `raised`): an append may fail before or after the
program has run, and a selector may pick an item beyond the end of its list.

`Facades`: a server's `mail` is the messages a client sent and how far each of them is; `pipe`
and `buffer` hold them in two pieces each, a line with its end and what comes before, because
neither the server's text reader (`Refill`, a chunk of up to 8192 bytes) nor a program the
server started that reads its standard input (`ProgramReads`, a byte, a line or a block) takes
whole lines. What is left of a torn line is answered without an id (`RefuseLine`); `reply` is
what the server wrote. Two outcomes of a torn read are left out: pieces of two messages that
happen to make one JSON text, and a character torn in two, whose decoding error ends the
server. A daemon thread is a `request`; threads share the A2A tasks and `adapter_agent_env`,
which the first to look makes (`LookForEnv`, `MakeEnv`). `WorkflowPackage`: compile writes one
file at a step; a run loads, verifies the lock, runs, validates and records; a compile that is
refused writes nothing (`RejectCompile`), and a run that is left by an exception records
nothing. `Acceptance`: `ReadContract`, `ReadReadiness` and `RunWorkflow` each read the file
anew. `Surfaces` puts them in one workspace.

## 3. Runs

Deadlock checking is off because the system may stop: nobody has to call, decide or
rerun. Each run finishes within three minutes on two workers.

| Run | Question | Instance, and why it is enough |
|---|---|---|
| `approval_store_concurrent` | What survives overlapping operations? `GrantBeforeUse`, `HistoryRooted`, `OverlapBounded` | Three clients, one request left pending and one new id, two operations in flight. The races are between two operations; the third client acts before, between and after. |
| `approval_store_serial` | Is the file a ledger when operations do not overlap? `ImplementsLedger`, `HistoryComplete` | Two clients, three approvals, two capabilities, one operation at a time. |
| `approval_single_use` | Is an approval consumed once? Violated: see Findings | Two clients, one approval. |
| `tool_call_records` | Does a call run only what is approved, is it on record, and do uses and calls match? `RunsAreApproved`, `EffectsAreAudited`, `EventsFollowRecords`, `RefusalsAskAnew`, `UsesAreAccounted` | Two calls and a decider: with an edit between a manifest the policy holds back and one it does not, where one call's request can be the approval the other presents; or, with manifests left alone, fighting over a request an earlier session left. |
| `tool_call_adapter` | Does each call end, and is its result true? `CallsEnd`, `ResultsAreTrue` | Two calls over three manifests (pipes, terminal, no adapter), one followed into its adapter on both platforms; a pipe of one chunk, which is empty, full of the command's output or of its helper's. |
| `plugin_operations` | Does the lock exclude, what do operations leave, and do they end? `OneAtATime`, `HolderIsAtWork`, `InstallsLeaveClones`, `NothingOverwritten`, `FilesBelongTogether`, `OperationsEnd` | Three operations, each an install, update or repair: one at work, one refused, one after a crash or a failed release. Of each plan the commands that are handled differently. |
| `plugin_skipped_clone` | Is a clone that is skipped whole? Violated: see Findings | Two installs. |
| `workflow_documents` | Is the order right, the report, and what runs approved? `OrderIsExact`, `NeedsCompleteFirst`, `ReportsAddUp`, `EffectsAreApproved`, `TypeOK` | Every document of up to three tasks over three ids, with repeated ids, absent needs, cycles and arguments from tasks that are not needed, in one run, real or dry, with tasks that fail; and documents of two tasks, the second fed by the first, run three times by two sessions while approvals are decided and written into them. Three runs let one session ask and two use. |
| `workflow_reruns` | Does doing what blocked runs ask for get the work done, and at what price? `RerunsComplete`, `RerunsDouble` | Every acyclic document of up to four tasks, each subset held back, and one whose last tasks wait for each other; seventeen runs, one more than the most that are needed. |
| `plugin_manager` | Does an open gate hold until the pull, and do reports and plans agree? `UpdatesPullTrusted`, `CompletedInstallsCanUpdate`, `ReportsAgree`, `CatalogIsSafe` | Two requests, one change by a person, on Windows (where there is a PTY backend to install); four manifests, two of which the validation must reject. |
| `harness_hub` | Can what the hub reports be relied on? `VerifiedIsCovered`, `VerifiedRuns`, `QueueIsInstallable`, `BlockedIsExplained`, `PlansAreActionable` | Three names, two of one capability, each repairable in another way; two changes by anyone but the operator; two markets, with a record that declares its requirement, one that leaves it to cli-hub info and one that has none; two ways cli-hub may answer, by lists, or by objects, failures and nothing; the tool a harness requires is there at first and may go. Queries and limits are parameters of the properties and range over all that matter. |
| `surfaces` | Do clients learn the truth, do secrets reach them, do packages run what was compiled, is acceptance earned? `RepliesMatch`, `VerdictsAreTrue`, `SecretsAreKept`, `RunsAsCompiled`, `SchemaFailuresAreStale`, `AcceptanceIsEarned` | An MCP or an ACP server with up to four messages, each in two pieces, three requests to the daemon, or three commands on a package of two tasks, over two capabilities, one of a program that reads its input; pairs of these; and one acceptance report, over the manifests and mappings that are judged differently. |

What some of them show:

- `OverlapBounded`: the damage of overlap is bounded by how many operations overlap:
  at most that many decisions of a request, and that many uses of each recorded
  approval. `GrantBeforeUse` survives any overlap.
- `EffectsAreAudited` holds across crashes because the started line is written before
  dispatch; `UsesAreAccounted` because a use is recorded before anything runs on it.
- `RerunsDouble`: a rerun starts from the first task and consumes every approval up to
  the first task that lacks one. A workflow with h tasks held back needs exactly 2^h
  runs, and the tasks before them run again in each.
- `CallsEnd` holds on every transport and whatever the command does, but for one case it
  names: a helper the command left behind holds the call while it keeps the output open,
  during the drain of a terminal whose command has exited (`pty.py:162-173`), and on Windows
  after a timeout. Without that exception TLC finds the call that never ends.
- `ResultsAreTrue` excepts winpty, whose reader is given a second to finish: the end of the
  output may be lost.
- `UpdatesPullTrusted` holds though the gate is read before the lock is taken: no request
  does what would close a gate. Only a person in between does.
- `HolderIsAtWork` and `OperationsEnd` name what breaks a lock for good: an operation that died
  at work, and a release that failed. Without the second exception both are violated.
- `QueueIsInstallable` says how far a queue can be relied on: the gate of an install refuses
  what was queued only for a probe of a requirement that the record does not declare.
- `BlockedIsExplained`: an entry whose evaluation failed has no blockers, so no category and no
  override; every other has.
- `RepliesMatch`: a line without an id among the replies always means that a message was lost
  to a program that reads the server's input.
- `VerdictsAreTrue` with A2A: a task that was cancelled after it ended keeps its state.
- With outputs that vary from run to run, a held-back task fed by another may never
  get through: its approval is for the arguments of the run that asked.
  `EffectsAreApproved` says that it then does not run, not that it ever does.

### Bounds

`MaxInFlight` (store operations under way at once; it does not bind in the runs of calls),
`MaxEdits` (manifest edits), `MaxRuns` (workflow runs, and with them approvals: a run requests
one at most), `MaxChanges` (what people do to a host), `stimuli` (what people and clients do to
a workspace), `PipeSize`; in the MC modules `MaxTasks`, and the `Bounded` conditions, which
keep the instances of one run apart (which documents are run how often, which calls fight over
what) and keep the call that is not followed simple. In `Surfaces`, `Mix` says which ways in
are used together, how much, and with which manifests: each one alone with two to four stimuli,
and three pairs with two. Requests and jobs are numbered as they arrive, which is their
symmetry. `ApprovalId` and `Client` are finite in the runs and arbitrary in the proofs
(`Client` is finite there too).

Symmetry is used in the safety runs only: clients, calls, deciders, requests and
sessions are interchangeable, as are approvals no session left behind and output
values.

### Fairness

- `AdaptedCall!Fairness`: the steps of each call, those of the adapter it is in, and the
  passing of the deadline are weakly fair: the first two are loops in a thread of their own,
  with reads and selects that time out, the third is the clock. The command, its helper and
  the winpty reader are not fair: a command may hang, a helper may write forever, and the
  caller waits for the reader for one second only. The call that is not followed takes its
  command's end for granted, which is what the other shows.
- `PluginOperation!FairSpec`: the steps of each operation are weakly fair; every command it
  waits for has a timeout (`operations.py:474-482`). Starting, deciding, dying and raising
  are not fair.
- `Workflow!DiligentSpec` is an assumption about people, not about code: nothing fails,
  and an operator decides, edits and reruns as the result of a blocked run asks
  (`runner.py:176-184`). It is used for `RerunsComplete` and `RerunsDouble` only.

## 4. Findings

- **An approval can be consumed twice** (`approval_single_use`). `use` checks the status in
  one read (`store.py:105-113`) and appends after another (`141-154`). Two overlapping
  uses of an approved request both succeed, and two calls run on it.
  `tests-unit/test_mvp_runtime.py:341-343` expects the second to be refused.
- **A clone cut short passes for the repository** (`plugin_skipped_clone`).
  `operations.py:233-244` skips a clone when its directory exists; a clone that was killed
  at its timeout leaves one.

Noticed while reading and modelling, with no run of their own:

- `README.en.md:109` says that approvals leave audit records; decisions are published as events
  only, and recorded in the queue.
- `runner.py:229-234` looks for the error kinds `spawn_failed` and `nonzero_exit`; the adapters
  say `spawn-failed` and `allowed`.
- An operation whose release fails reports that it completed (`operations.py:217-222`), and
  each later one is refused.
- A repair whose second file fails is reported with nothing written (`operations.py:161-168`),
  though the first may have been replaced.
- The session environment is not part of an approval's scope (`executor.py:338-353`).
- Adapters: stdio reports a command that exited as timed out when a helper keeps its output
  open; so is a terminal command that exits just as its deadline passes. On winpty the text of
  an `OSError` of the reader becomes output.
- Hub: evaluation, adaptation gate and MVP plan read the portable manifest and never the
  overlay, so they recommend a repair that has been made; an overlay shadows a portable
  manifest that is tightened later, and sync overwrites one tightened by hand. The queue sees
  collisions only within what a query and a limit let in. Candidates advise the install of a
  harness when only a PTY backend is missing. A name that a search does not find under its own
  or its displayed name is evaluated as the first record the search returns; one whose search
  answers with an object is evaluated as not found, though the queue lists it, and its blocked
  entry has no blocker. What is queued as `ready_for_install` (`cli_anything.py:3386`) may be
  refused at the gate for a requirement its record does not declare, which is all that
  `QueueIsInstallable` excepts (`cli_anything.py:2349`, `2744` and `5093-5099`), though
  `cbn/cli_args.py:712` promises install-ready harnesses. Two branches of the MVP plan's next
  action cannot be reached.
- Manager: a manifest's operation called a report, whose payload says `confirmed: true`, is
  ready for dispatch unconfirmed; an operation with effects whose payload says `confirmed:
  null` is ready for dispatch, and the daemon refuses it; a half-made clone passes provenance
  and update gates; `execute_plan` is not called by anything.
- Facades: a program an MCP or ACP server starts inherits its standard input, and a torn line
  is answered with an id of null; a server keeps the manifests it started with while it reads
  workflow files anew; a notification that fails is answered with an error whose id is null;
  `session/cancel` does nothing; A2A tasks are recorded when they are over, so none is ever
  cancelled, and none is ever removed; a workflow the policy blocks is `TASK_STATE_FAILED`, a
  capability `TASK_STATE_REJECTED`.
- Packages: a compile leaves the schemas of tasks that are gone, after which every run is
  `schema-failed`; a torn schema raises after the tasks have run and before anything is
  recorded, and so does a task that breaks; the run state calls a skipped task blocked; two
  task ids with one safe name share a schema file.
- Acceptance: a workflow without mappings that uses an unknown capability is accepted, and its
  run raises; an `IndexError` of a list selector leaves `run`; a dry run returns text, so
  selectors of a field fail the run the report recommends; two recommendations are never made.

## 5. Proofs

Every theorem is for arbitrary constants that satisfy the named assumptions of its module:
finitely many clients, that the null values are not values, and what kind of sets the others
are (`StoreAssumption`, `CallAssumption`, `FlowAssumption`, `PipeAssumption`, `PlanAssumption`,
`NameAssumption` to `MarketAssumption`, `WindowsAssumption`, `WorkspaceAssumption`,
`FacadesAssumption`, `PackageAssumption`, `RaisedAssumption`, `MixAssumption`). Some say what
the code or its files guarantee: a repair's plan is the wrapper and then the manifest
(`RepairAssumption`), the manifests a repository ships with are verified only where its
fixtures cover them and start no wrapper (`ShippedAssumption`), a plugin's own manifest
declares a list of operations, whatever they are (`ManifestAssumption`), and routes lead from
earlier to later tasks, as a compiled workflow's do (`MappingsAssumption`). TLC evaluates them
all.

- `ApprovalStoreProofs`: `StoreIInv` is inductive. `GrantBeforeUse` and `HistoryRooted` alone
  are not: a client that is about to append must be known to have read what it relies on, which
  `FramesHonest` says (the approval is in the file, a line approved it if it is to be used, the
  copied record is a line). It is stable because lines are only ever appended. Theorems
  `StoreTypeCorrect`, `GrantsPrecedeUses`, `HistoriesAreRooted`. `OverlapIInv` counts: while a
  request is pending nothing has been decided of it, so whoever may still decide it is in
  flight now, and a decision in the file takes the place of a client in flight. While the
  latest line approves, none of the uses that approval makes possible is in the file, so there
  is room for everyone in flight. Theorem `OverlapsAreBounded`. With `MaxInFlight = 1`,
  `SerialIInv` adds that the one client in flight still sees the record it checked. From it,
  `SerialHistoriesAreComplete` and `SerialStoreIsLedger`: initial states map to initial states
  of the ledger, and each step to a step of it or to none. `SerialUseIsSingle` is the
  counterpart of the run `approval_single_use`: where operations do not overlap, what that run
  finds cannot happen.
- `ToolCallProofs`: `CallIInv` adds to `StoreIInv` what a call relies on (`CallHonest`): it
  keeps the request it began with, what it is using was granted for its scope, and it reaches
  dispatch by the policy's leave or on the approval it paid. Theorems `CallTypeCorrect`,
  `RunsApproved`, and `CallsUseTheStore`: the composed system uses the file only as
  `ApprovalStore` allows. `AuditInv`, inductive beside `CallIInv`, says of a call that starts
  that it has both records of its start to write or has audited it, and that nothing ran before
  dispatch: dispatch waits for the records, so a crash cannot come between. `RefusalInv` says
  that a call has no refusal on record before it reports one, and that the request it reports
  was added after the approval it presented. `UseInv` adds to `UsesAreAccounted` that nobody
  has paid before it consumes and that only the frames of calls make uses: then a use line and
  its payer come in one step. `EventInv` says that what a call wrote, followed by what it has
  yet to write, is ordered: writing moves a record over and leaves the whole as it is, a crash
  leaves a beginning of it, and the next stretch is ordered by itself; and that a decision is
  in the file before its announcement is owed. Theorems `EffectsAudited`, `RefusalsAsk`,
  `UsesAccounted`, `EventsFollow`. `SpendingIsBounded` joins `UsesAccounted` to the store's
  `OverlapsAreBounded` through `CallsUseTheStore`: n operations in flight let n calls go ahead
  on one decision, no more, and one at a time lets one (`SerialCallsPayOnce`). `CallsWindDown`
  is a variant: the place of a call and the records it has yet to write leave it at most 22
  steps, each of which it comes closer to its end with, and nobody else's step takes it back.
- `WorkflowProofs`: `FlowIInv` adds to `EffectsAreApproved` what a run relies on. Of its order
  (`OrderHonest`): the document is well formed, the order and the tasks still to place make up
  the document, and each task comes after all it needs. Of its report (`RunHonest`): it is the
  beginning of the order, completed. Of its approvals (`ApprovalsHonest`, `ServesNow`): ids
  name requests, and a session between reading an approval and running on it holds one given
  for its very scope that it has not used before. The last is what makes `EffectsAreApproved`
  inductive though two sessions may consume one approval: each of them passes the check at most
  once, because by its own use, or another's, the approval is no longer approved. Theorems
  `FlowTypeCorrect`, `EffectsApproved`, `NeedsComplete`. `OrderIInv` adds `Layered`: what the
  first k rounds of the planner placed is what has depth at most k, in the document's order
  within each round, so an empty round with tasks left is a cycle, and an order that is
  complete is the one the document defines. Theorem `OrdersAreExact`. `ReportIInv` says that a
  run number belongs to one run, and that what ran under it is what its report holds so far,
  with at most the task it is at. Theorem `ReportsAreTrue`. `OnlyAcyclicRun` is the converse of
  what `Layered` gives: a complete order has each task after those it needs, and of the tasks
  of a cycle the first in the order would need one before it.
- `RerunsAlwaysDouble` (`WorkflowProofs`), for a workflow that one operator gets done with
  nothing to disturb it (`Undisturbed`: one session, outputs of one value, real runs nobody
  confirmed), is a binary counter. Of the h places held back, read those that have an approval
  left, together with those the run in progress has already got past, as a number, the last
  place in the order the heaviest: that is how many runs there were (`GoesOn`). A run spends
  the approvals of the places before the first that lacks one and asks for that one
  (`BlockedAt`), which is a carry; it completes when every place has one, which is 2^h. Orders
  matter because a place is an index: all runs of one document make one order (`OrderIsExact`).
  The theorem shows as well that the bound `MaxRuns` = 17 of `workflow_reruns` never binds,
  with at most 2^4 runs.
- `RunsWindDown` and `DiligenceWindsDown` (`WorkflowProofs`) are variants: what a run has left
  to place, to call and to return (`Left`) goes down with each of its steps, and with what an
  operator has left to decide and to write down (`Todo`) that holds of the whole loop, in which
  only a new run, of which there are 2^h, starts over. `RunsKeepTheLedger` maps the status of
  each approval requested to its standing in `ApprovalLedger`: deciding and consuming move it
  on, and the rest leave it. Two sessions that consume one approval map to one consumption and
  a stutter, so the ledger does not tell them apart; that both ran on it for their own scope is
  what `EffectsApproved` adds.
- `HarnessProofs`: `HarnessIInv` adds to `VerifiedIsCovered` what a repair has in hand between
  its two files (`RepairHonest`): the manifest it is about to write is covered as well.
  Fixtures are only ever added, so what is in hand stays covered until it is written. Theorem
  `VerifiedCovered`, for every market, set of names, set of answers and number of changes.
  `HubIInv` adds that a manifest that starts a wrapper finds it: a repair replaces its wrapper
  before the overlay that starts it, and nothing removes one (`RepairsWhole`); without it a
  promoted harness may have lost its command. Theorems `HubInvariant`, `VerifiedAlwaysRuns`
  and, with what decides in each gate and summary, `PlansAlwaysActionable`. The queue and what
  explains its blocked entries need of the state little more than its types: a list in order
  has each element once, what is queued was evaluated from the record a search by name finds,
  as the gate will evaluate it, and the two differ in nothing but a requirement the queued
  record does not declare (`QueuesInstallable`); an evaluation that failed has no blockers, and
  every other blocker has a category (`BlockedAlwaysExplained`).
- `AdapterProofs`: `AdapterIInv` adds to the types what each place of the calling thread relies
  on (`Honest`): output is drained only of a command that exited, a command is killed only to
  report a timeout, the deadline of a timeout has passed. Theorems `AdapterTypeCorrect` and
  `AdapterTellsTheTruth`, for pipes of any size. `FollowedCallsAreBoth` shows that
  `AdaptedCall` implements both `ToolCall` and `Adapter`, so every theorem about either holds
  of the two together. `Coupled` ties the place of the followed call to that of its adapter;
  with `AuditInv` and `CallIInv` it gives `CommandsAreAccounted`: a command exists only for a
  call that may run it and has audited its start, and the call reports only once it is over.
- `PluginOperationProofs`: `LockIInv` adds to exclusion and to the holder's honesty that no
  holder file is left when an operation has just taken the directory or is about to remove it,
  and that once a release has failed (`stuck`) nobody is inside any more and the lock stays.
  What a holder file names is therefore at work, or is the operation whose release failed.
  Theorems `PluginExclusion`, `HoldersAreAtWork`. On top of it, `LeftIInv` says what operations
  leave: a clone that was made or found is there, a partial one is being made or was cut short,
  and a file about to be replaced has its version kept aside. `PairIInv` says which of its two
  files a repair has replaced at each of its steps, as long as no other repair is at work,
  failed or died. Theorems `VersionsSurvive`, `InstallsLeaveRepositories`, `RepairsLeavePairs`.
  `SkipIInv` adds that an operation that skipped a clone is past it; with it
  `SkippedClonesAreWhole` says what it takes for what the run `plugin_skipped_clone` finds: a
  clone that was killed or left behind, never one that is at work or that failed.
- `PluginManagerProofs`: `ManagerIInv` is the types, `UpdateGated` (a request whose update was
  let in finds a source the gate accepts, or a part of one, until its plan ends, unless a
  person touched the directory or overrode the gate) and `InstallKept` (what an install has
  done so far is there, unless a person touched it). Theorems `UpdatesTrusted`,
  `InstallsCanUpdate`. `ReportsAlwaysAgree` needs only the types: four reports test the same
  facts in different order. The catalog is proved safe by the shape of its operations: each is
  plain, or guarded by the caller's consent, and of operations of one name the first is kept.
  Theorem `CatalogAlwaysSafe`.
- `SurfacesProofs`, one invariant for each part of the surfaces, over one invariant of the
  workspace they share. `ServerIInv`: the messages of a client are in order from the pipe
  through the server to its replies (`MailOK`), what is on its way consists of pieces of what
  was sent, those in the reader's buffer before those in the pipe and all of them behind what
  is handled, and only a program that read its input took any other (`StreamOK`), the lines
  answer the requests that are over in their order, and one that names none is there only when
  a message is lost (`LinesOK`), and a session is known before it is prompted (`SessionsOK`).
  `ReportIInv`: each reading of an acceptance report has established what the report says of
  it. `DaemonIInv`: a request that is past its first step finds a dictionary, and a secret
  stored before it reaches it unless two requests made a dictionary each. `PackageIInv`: unless
  something `disturbed` it, the files of a package are those of one compile (`Orderly`).
  Theorems `RepliesAlwaysMatch`, `VerdictsAlwaysTrue`, `SecretsAlwaysKept`,
  `AlwaysRunsAsCompiled`, `SchemaFailuresAlwaysStale`, `AcceptanceAlwaysEarned`.

Every invariant and every action property of the runs is proved. Only model-checked is liveness
under fairness (`CallsEnd`, `OperationsEnd`, `RerunsComplete`), which is beyond the proof
system used. The variants of calls, runs and reruns prove the half of it that is safety, that
none of them goes on for ever by itself; that they are never stuck on the way, which takes
ENABLED, is what TLC adds.

## 6. Not modelled, and what comes next

Left out for good:

- parsers, bundled tools, argument parsing, rendering, scaffolds and the texts of plans:
  text in, text out;
- the reports that are tables of constants (conformance, compatibility, wire, exports,
  descriptor round trips) and the adapter agent's guides;
- Rust crates and queue placeholders, which have no behaviour;
- lines torn by a crash (`approvals.jsonl`, audit, events, index): a torn line makes every
  later read raise and swallows the next append, which a model of whole lines could only
  restate;
- the windows of `tail` and `inspect`: slices with constants a unit test reaches.

What comes next:

1. **Registry**: field validation and load order as operators against a reference.
2. **Selectors**: the grammar of `envelope.py` as a function against a reference.
3. **Proofs**: that a workflow's calls implement a view of `ToolCall`.
