------------------------------ MODULE Workflow ------------------------------
(***************************************************************************)
(* WorkflowRunner.run of cbn_workflow/runner.py over the graphs of         *)
(* cbn_execution/graph.py: sessions that validate a workflow document, put *)
(* its tasks in order and run them one at a time until one does not        *)
(* complete, and people who decide the approvals its blocked tasks ask for *)
(* and write their ids into the document before they rerun it.  A call of  *)
(* the executor is what ToolCall makes of it: refused with a request, or   *)
(* gone ahead by the policy's leave or on an approval, which it reads and  *)
(* then marks used: two sessions may read it before either marks it.  One  *)
(* person decides at a time (ApprovalStore has decisions that overlap).    *)
(***************************************************************************)
EXTENDS Integers, Sequences, FiniteSets

CONSTANTS
    Session,      \* threads and processes that run the workflow
    TaskId,       \* task ids; `sorted' orders them as numbers
    Flow,         \* workflow documents
    Value,        \* what a command may output, and a selector select
    NoApproval,   \* approvalId null
    Modes,        \* how runs are asked for: <<dry_run, confirmed>>
    Outcomes,     \* how commands may end
    MaxRuns       \* bound: how often the workflow is run

ApprovalId == 1..MaxRuns   \* a run requests one at most

\* A TaskNode, with what its manifest says: whether the policy holds it back.
\* argsFrom is a set: its order in argv is immaterial here.
Node == [id : TaskId, needs : SUBSET TaskId, argsFrom : SUBSET TaskId,
         dryRun : BOOLEAN, held : BOOLEAN]

ASSUME FlowAssumption ==
    /\ TaskId \subseteq Nat /\ IsFiniteSet(TaskId)
    /\ Flow \subseteq Seq(Node)
    /\ Modes \subseteq BOOLEAN \X BOOLEAN
    /\ MaxRuns \in Nat
    /\ NoApproval \notin Nat
    /\ "none" \notin Value
    /\ Outcomes \subseteq {"completed", "failed", "setup_required"}

VARIABLES
    flow,         \* the document's tasks, in the order it lists them
    approvalId,   \* the approvalId it gives each task
    asked,        \* the approvals requested, in order
    runs,         \* how often the workflow was run
    pc,           \* where each session stands
    run,          \* the locals of its latest run
    effects       \* the commands that ran for real, in order

vars == <<flow, approvalId, asked, runs, pc, run, effects>>

-----------------------------------------------------------------------------
(* The graph.                                                              *)

Ids == {flow[i].id : i \in DOMAIN flow}

TheTask(t) == flow[CHOOSE i \in DOMAIN flow : flow[i].id = t]

\* validate(), but for the cycles topological_order finds.
WellFormed ==
    /\ flow # <<>>
    /\ \A i, j \in DOMAIN flow : flow[i].id = flow[j].id => i = j
    /\ \A i \in DOMAIN flow : /\ flow[i].needs \subseteq Ids
                              /\ flow[i].argsFrom \subseteq flow[i].needs

\* Faulty variant: a task is ready as soon as one task it needs is done.
ReadyEarly(remaining) ==
    {t \in remaining : \/ TheTask(t).needs = {}
                       \/ \E dep \in TheTask(t).needs : dep \notin remaining}

Ready(remaining) ==
    {t \in remaining : \A dep \in TheTask(t).needs : dep \notin remaining}

-----------------------------------------------------------------------------
(* A run.                                                                  *)

Result(t, status, output) == [task |-> t, status |-> status, output |-> output]

NoArgs == [u \in {} |-> "none"]

Fresh(dry, confirmed) ==
    [number |-> runs + 1, dry |-> dry, confirmed |-> confirmed,
     approvals |-> approvalId, remaining |-> Ids, batch |-> {}, order |-> <<>>,
     results |-> <<>>, args |-> NoArgs, status |-> "none", stoppedBy |-> {}]

Goto(s, place) == pc' = [pc EXCEPT ![s] = place]

\* The task a session is at, and whether it runs for real.
Current(s) == run[s].order[Len(run[s].results) + 1]

Dry(s) == run[s].dry \/ TheTask(Current(s)).dryRun

\* What the results so far hold of a task: the message it left, if it did.
Output(s, t) ==
    LET hits == {i \in DOMAIN run[s].results : run[s].results[i].task = t}
    IN  IF hits = {} THEN {} ELSE {run[s].results[CHOOSE i \in hits : TRUE].output}

\* The approval scope of the session's current call.
Scope(s) == [task |-> Current(s), args |-> run[s].args, dry |-> Dry(s)]

Init ==
    /\ flow \in Flow
    /\ approvalId = [t \in TaskId |-> NoApproval]
    /\ asked = <<>>
    /\ runs = 0
    /\ pc = [s \in Session |-> "idle"]
    /\ run = [s \in Session |-> Fresh(FALSE, FALSE)]
    /\ effects = <<>>

\* run() is called with the document as it now stands.  validate() raises on one
\* that is not well formed.
Start(s, dry, confirmed) ==
    /\ pc[s] \in {"idle", "ended", "rejected", "aborted"}
    /\ runs < MaxRuns
    /\ runs' = runs + 1
    /\ run' = [run EXCEPT ![s] = Fresh(dry, confirmed)]
    /\ Goto(s, IF WellFormed THEN "ordering" ELSE "rejected")
    /\ UNCHANGED <<flow, approvalId, asked, effects>>

\* Faulty variant: a round that finds no task ready is not noticed.
OrderRoundUnchecked(s) ==
    /\ pc[s] = "ordering"
    /\ run[s].batch = {} /\ run[s].remaining # {}
    /\ run' = [run EXCEPT ![s].batch = Ready(run[s].remaining)]
    /\ UNCHANGED <<flow, approvalId, asked, runs, pc, effects>>

\* A round of topological_order: the tasks it takes, or ValueError for a cycle.
OrderRound(s) ==
    /\ pc[s] = "ordering"
    /\ run[s].batch = {} /\ run[s].remaining # {}
    /\ IF Ready(run[s].remaining) = {}
       THEN Goto(s, "rejected") /\ UNCHANGED run
       ELSE run' = [run EXCEPT ![s].batch = Ready(run[s].remaining)] /\ UNCHANGED pc
    /\ UNCHANGED <<flow, approvalId, asked, runs, effects>>

\* The round's tasks are appended in sorted order.
OrderTask(s) ==
    /\ pc[s] = "ordering"
    /\ \E t \in run[s].batch :
        /\ \A u \in run[s].batch : t <= u
        /\ run' = [run EXCEPT ![s].batch = @ \ {t}, ![s].remaining = @ \ {t},
                              ![s].order = Append(@, t)]
    /\ UNCHANGED <<flow, approvalId, asked, runs, pc, effects>>

\* workflow.started is recorded; the order is computed again, with the same result.
Announce(s) ==
    /\ pc[s] = "ordering"
    /\ run[s].remaining = {}
    /\ Goto(s, "between")
    /\ UNCHANGED <<flow, approvalId, asked, runs, run, effects>>

AtTask(s) == pc[s] = "between" /\ run[s].status = "none"
             /\ Len(run[s].results) < Len(run[s].order)

\* Faulty variant: a selector that finds no value selects null.
ArgumentsOrNull(s) == [TheTask(Current(s)).argsFrom -> Value \cup {"none"}]

Arguments(s) == {f \in [TheTask(Current(s)).argsFrom -> Value] :
                    \A u \in DOMAIN f : f[u] \in Output(s, u)}

\* _resolve_args finds every selected value, and executor.call begins.
ResolveArgs(s) ==
    /\ AtTask(s)
    /\ \E f \in Arguments(s) : run' = [run EXCEPT ![s].args = f]
    /\ Goto(s, "calling")
    /\ UNCHANGED <<flow, approvalId, asked, runs, effects>>

\* Faulty variant: a stopped run does not account for the tasks it never reached.
StoppedSilently(s, t, status) ==
    [run[s] EXCEPT !.results = Append(@, Result(t, status, "none")),
                   !.status = IF status = "blocked" THEN "blocked" ELSE "failed",
                   !.stoppedBy = {t}]

\* A task that does not complete stops the run: the rest of the order is skipped.
Stopped(s, t, status) ==
    LET done == Len(run[s].results) IN
    [run[s] EXCEPT
        !.results = [i \in 1..Len(run[s].order) |->
            IF i <= done THEN @[i]
            ELSE IF i = done + 1 THEN Result(t, status, "none")
            ELSE Result(run[s].order[i], "skipped", "none")],
        !.status = IF status = "blocked" THEN "blocked" ELSE "failed",
        !.stoppedBy = {t}]

\* A selector that finds no value fails the task; one with a list index out of
\* range raises IndexError, which run() does not catch (see Abort).
ResolveFails(s) ==
    /\ AtTask(s)
    /\ TheTask(Current(s)).argsFrom # {}
    /\ run' = [run EXCEPT ![s] = Stopped(s, Current(s), "failed")]
    /\ UNCHANGED <<flow, approvalId, asked, runs, pc, effects>>

\* Faulty variant: the approval's arguments are not compared.
FitsTask(a, scope) == a.status = "approved" /\ a.scope.task = scope.task

Fits(a, scope) == a.status = "approved" /\ a.scope = scope

Presents(s) ==
    /\ run[s].approvals[Current(s)] # NoApproval
    /\ Fits(asked[run[s].approvals[Current(s)]], Scope(s))

Free(s) == ~TheTask(Current(s)).held \/ run[s].confirmed


\* The executor refuses the call and requests an approval for it.
Refuse(s) ==
    /\ pc[s] = "calling"
    /\ ~Free(s) /\ ~Presents(s)
    /\ asked' = Append(asked, [scope |-> Scope(s), status |-> "pending"])
    /\ run' = [run EXCEPT ![s] = Stopped(s, Current(s), "blocked")]
    /\ Goto(s, "between")
    /\ UNCHANGED <<flow, approvalId, runs, effects>>

\* Faulty variant: the approval is not marked used.
GoAheadUnconsumed(s) ==
    /\ pc[s] = "calling"
    /\ Free(s) \/ Presents(s)
    /\ Goto(s, "started")
    /\ UNCHANGED <<flow, approvalId, asked, runs, run, effects>>

\* It lets the call go ahead, or finds that the approval it needs was given.
GoAhead(s) ==
    /\ pc[s] = "calling"
    /\ Free(s) \/ Presents(s)
    /\ Goto(s, IF Free(s) THEN "started" ELSE "consuming")
    /\ UNCHANGED <<flow, approvalId, asked, runs, run, effects>>

\* The approval's use is recorded, whatever others recorded since it was read.
Consume(s) ==
    /\ pc[s] = "consuming"
    /\ asked' = [asked EXCEPT ![run[s].approvals[Current(s)]].status = "used"]
    /\ Goto(s, "started")
    /\ UNCHANGED <<flow, approvalId, runs, run, effects>>

\* The adapter runs the command, or only echoes a dry run's.
Dispatch(s) ==
    /\ pc[s] = "started"
    /\ effects' = IF Dry(s) THEN effects
                  ELSE Append(effects, [session |-> s, run |-> run[s].number, scope |-> Scope(s),
                         confirmed |-> run[s].confirmed,
                         by |-> IF Free(s) THEN NoApproval ELSE run[s].approvals[Current(s)]])
    /\ Goto(s, "running")
    /\ UNCHANGED <<flow, approvalId, asked, runs, run>>

\* No adapter serves the manifest's transport: allowed is False, and the runner
\* takes the call for one that awaits an approval.
Unsupported(s) ==
    /\ pc[s] = "started"
    /\ run' = [run EXCEPT ![s] = Stopped(s, Current(s), "blocked")]
    /\ Goto(s, "between")
    /\ UNCHANGED <<flow, approvalId, asked, runs, effects>>

\* executor.call returns.
Return(s) ==
    /\ pc[s] = "running"
    /\ \E outcome \in Outcomes, v \in Value :
        run' = [run EXCEPT ![s] =
            IF outcome = "completed"
            THEN [run[s] EXCEPT
                    !.results = Append(@, Result(Current(s), "completed", v))]
            ELSE Stopped(s, Current(s), outcome)]
    /\ Goto(s, "between")
    /\ UNCHANGED <<flow, approvalId, asked, runs, effects>>

\* The summary is audited and published as workflow.completed, and returned.
Finish(s) ==
    /\ pc[s] = "between"
    /\ run[s].status # "none" \/ Len(run[s].results) = Len(run[s].order)
    /\ run' = [run EXCEPT ![s].status = IF @ = "none" THEN "completed" ELSE @]
    /\ Goto(s, "ended")
    /\ UNCHANGED <<flow, approvalId, asked, runs, effects>>

\* The process dies, or an exception leaves run(): no workflow.completed.
Abort(s) ==
    /\ pc[s] \in {"ordering", "between", "calling", "consuming", "started", "running"}
    /\ Goto(s, "aborted")
    /\ UNCHANGED <<flow, approvalId, asked, runs, run, effects>>

RunStep(s) ==
    \/ OrderRound(s) \/ OrderTask(s) \/ Announce(s) \/ ResolveArgs(s) \/ Refuse(s)
    \/ GoAhead(s) \/ Consume(s) \/ Dispatch(s) \/ Return(s) \/ Finish(s)

-----------------------------------------------------------------------------
(* The people around the runs.                                             *)

Decide(id, decision) ==
    /\ id \in DOMAIN asked
    /\ asked[id].status = "pending"
    /\ asked' = [asked EXCEPT ![id].status = decision]
    /\ UNCHANGED <<flow, approvalId, runs, pc, run, effects>>

\* The approval a blocked task reported is written into the document.
EditApproval(id) ==
    /\ id \in DOMAIN asked
    /\ approvalId[asked[id].scope.task] # id
    /\ approvalId' = [approvalId EXCEPT ![asked[id].scope.task] = id]
    /\ UNCHANGED <<flow, asked, runs, pc, run, effects>>

Next ==
    \/ \E s \in Session :
        \/ \E m \in Modes : Start(s, m[1], m[2])
        \/ RunStep(s) \/ ResolveFails(s) \/ Unsupported(s) \/ Abort(s)
    \/ \E id \in ApprovalId :
        \/ \E decision \in {"approved", "denied"} : Decide(id, decision)
        \/ EditApproval(id)

Spec == Init /\ [][Next]_vars

\* Nothing fails, and an operator does what the results ask for: approve what a
\* blocked run requested, write the id into the document, run it again.
Heeded ==
    asked # <<>> => LET last == asked[Len(asked)] IN
        last.status # "pending" /\ approvalId[last.scope.task] = Len(asked)

DiligentNext ==
    \/ \E s \in Session :
        \/ pc[s] = "idle" \/ (pc[s] = "ended" /\ run[s].status = "blocked")
        /\ Heeded
        /\ Start(s, FALSE, FALSE)
    \/ \E s \in Session : RunStep(s)
    \/ \E id \in ApprovalId : Decide(id, "approved") \/ (id = Len(asked) /\ EditApproval(id))

DiligentSpec == Init /\ [][DiligentNext]_vars /\ WF_vars(DiligentNext)

-----------------------------------------------------------------------------
(* Properties.                                                             *)

\* The selected values of a task's arguments, by the task they come from.
ArgVector == UNION {[from -> Value] : from \in SUBSET TaskId}

Scopes == [task : TaskId, args : ArgVector, dry : BOOLEAN]

TaskResult == [task : TaskId, output : Value \cup {"none"},
               status : {"completed", "failed", "setup_required", "blocked", "skipped"}]

Locals == [number : Nat, dry : BOOLEAN, confirmed : BOOLEAN,
           approvals : [TaskId -> Nat \cup {NoApproval}],
           remaining : SUBSET TaskId, batch : SUBSET TaskId, order : Seq(TaskId),
           results : Seq(TaskResult), args : ArgVector,
           status : {"none", "completed", "blocked", "failed"}, stoppedBy : SUBSET TaskId]

\* Variables hold values of their types.
TypeOK ==
    /\ flow \in Flow
    /\ approvalId \in [TaskId -> Nat \cup {NoApproval}]
    /\ asked \in Seq([scope : Scopes, status : {"pending", "approved", "denied", "used"}])
    /\ runs \in 0..MaxRuns
    /\ pc \in [Session -> {"idle", "ordering", "between", "calling", "consuming",
                           "started", "running", "ended", "rejected", "aborted"}]
    /\ run \in [Session -> Locals]
    /\ effects \in Seq([session : Session, run : Nat, scope : Scopes, confirmed : BOOLEAN,
                        by : Nat \cup {NoApproval}])

CallPlaces == {"calling", "consuming", "started", "running"}

AtCall(s) == pc[s] \in CallPlaces

\* What a run in progress knows of its order: it is made of the tasks it no longer
\* has to place, each after all it needs, and those of the round can come next.
OrderHonest(r) ==
    /\ WellFormed
    /\ r.remaining \subseteq Ids
    /\ r.batch \subseteq Ready(r.remaining)
    /\ {r.order[i] : i \in DOMAIN r.order} = Ids \ r.remaining
    /\ \A i \in DOMAIN r.order : \A u \in TheTask(r.order[i]).needs :
        \E j \in 1..(i - 1) : r.order[j] = u

\* It reports nothing before it has its order, and then that the first tasks of the
\* order completed, until one stops it.
RunHonest(r, place) ==
    /\ place \in CallPlaces \cup {"ordering", "between"} => OrderHonest(r)
    /\ place = "ordering" => r.results = <<>> /\ r.status = "none"
    /\ place \in CallPlaces \/ (place = "between" /\ r.status = "none") =>
        \A i \in DOMAIN r.results :
            /\ i \in DOMAIN r.order
            /\ r.results[i].task = r.order[i]
            /\ r.results[i].status = "completed"
    /\ place \in CallPlaces => r.status = "none" /\ Len(r.results) < Len(r.order)

\* The approval a session runs on, or is about to, was given for just that and did
\* not serve the session before.
ServesNow(s) ==
    LET id == run[s].approvals[Current(s)] IN
    /\ id # NoApproval
    /\ asked[id].scope = Scope(s)
    /\ asked[id].status \in {"used"} \cup IF pc[s] = "started" THEN {} ELSE {"approved"}
    /\ \A i \in DOMAIN effects : effects[i].by = id => effects[i].session # s

\* The document and the runs name requested approvals, and runs are let in on theirs.
ApprovalsHonest ==
    /\ \A t \in TaskId : approvalId[t] # NoApproval => approvalId[t] \in DOMAIN asked
    /\ \A s \in Session, t \in TaskId :
        run[s].approvals[t] # NoApproval => run[s].approvals[t] \in DOMAIN asked
    /\ \A s \in Session : pc[s] = "consuming" => ~Free(s)
    /\ \A s \in Session : pc[s] \in {"consuming", "started"} /\ ~Free(s) => ServesNow(s)

\* A set of tasks that wait for each other.
Cyclic == \E S \in (SUBSET Ids) \ {{}} :
            \A t \in S : TheTask(t).needs \cap S # {}

\* Each task of `depth' comes after all it needs, at the length of the longest chain of
\* needs that leads to it, and the order goes by depth and by id among equals.
Ranked(order, depth) ==
    /\ \A t \in DOMAIN depth : \A u \in TheTask(t).needs :
           u \in DOMAIN depth /\ depth[u] < depth[t]
    /\ \A t \in DOMAIN depth :
           depth[t] = 1 \/ \E u \in TheTask(t).needs : depth[u] = depth[t] - 1
    /\ \A i, j \in DOMAIN order : i < j =>
           \/ depth[order[i]] < depth[order[j]]
           \/ depth[order[i]] = depth[order[j]] /\ order[i] < order[j]

Exact(order) ==
    /\ WellFormed
    /\ Len(order) = Cardinality(Ids)
    /\ {order[i] : i \in DOMAIN order} = Ids
    /\ \E depth \in [Ids -> 1..Len(order)] : Ranked(order, depth)

\* topological_order against what it stands for: it puts every task after all it
\* needs, at the length of the longest chain of needs that leads to it and by id
\* among equals, and it fails exactly on documents that admit no order
\* (graph.py:85-123).
OrderIsExact ==
    \A s \in Session :
        /\ pc[s] = "rejected" => ~WellFormed \/ Cyclic
        /\ AtCall(s) \/ pc[s] \in {"between", "ended"} => Exact(run[s].order)

\* No task is called before everything it needs completed in the same run, so
\* that every value its arguments select is there (runner.py:49-119).
NeedsCompleteFirst ==
    \A s \in Session : AtCall(s) =>
        \A u \in TheTask(Current(s)).needs :
            \E i \in DOMAIN run[s].results :
                run[s].results[i].task = u /\ run[s].results[i].status = "completed"

\* What ran for real in the run of that number.
Ran(number) ==
    {effects[i].scope.task : i \in {j \in DOMAIN effects : effects[j].run = number}}

Real(r, t) == ~r.dry /\ ~TheTask(t).dryRun

Reported(r, ran) ==
    LET Status(i) == r.results[i].status
    IN  /\ Len(r.results) = Len(r.order)
        /\ \A i \in DOMAIN r.order : r.results[i].task = r.order[i]
        /\ r.status = "completed" => \A i \in DOMAIN r.order : Status(i) = "completed"
        /\ r.status # "completed" => \E k \in DOMAIN r.order :
            /\ r.stoppedBy = {r.order[k]}
            /\ Status(k) \notin {"completed", "skipped"}
            /\ (Status(k) = "blocked") = (r.status = "blocked")
            /\ \A i \in 1..(k - 1) : Status(i) = "completed"
            /\ \A i \in (k + 1)..Len(r.order) : Status(i) = "skipped"
        /\ \A i \in DOMAIN r.order :
            /\ Status(i) = "completed" /\ Real(r, r.order[i]) => r.order[i] \in ran
            /\ Status(i) \in {"skipped", "blocked"} => r.order[i] \notin ran

\* A finished run reports every task once, in its order: all completed, or those
\* before the one that stopped it completed and those after it skipped; it names
\* that one and takes its status from it.  What ran for real in it is what the
\* report says was attempted (runner.py:47-130).
ReportsAddUp ==
    \A s \in Session : pc[s] = "ended" => Reported(run[s], Ran(run[s].number))

\* What a run in progress did is what it reports so far, and the task it is running.
Underway(r, place, ran) ==
    LET done == Len(r.results)
        now == IF place = "running" THEN done + 1 ELSE done
    IN  /\ done <= Len(r.order)
        /\ \A i \in 1..now : Real(r, r.order[i]) => r.order[i] \in ran
        /\ ran \subseteq {r.order[i] : i \in 1..now}

\* A run places a task once, does nothing before it has its order, and reports what
\* it does as it goes.
ReportHonest(r, place, ran) ==
    /\ \A i, j \in DOMAIN r.order : r.order[i] = r.order[j] => i = j
    /\ place = "ordering" => ran = {}
    /\ place \in CallPlaces \/ (place = "between" /\ r.status = "none") =>
           Underway(r, place, ran)
    /\ place = "between" /\ r.status # "none" =>
           r.status # "completed" /\ Reported(r, ran)
    /\ place = "ended" => Reported(r, ran)

\* Whatever the upstream tasks of a rerun put out this time, a task the policy
\* holds back runs only on a confirmed run, or on an approval given for exactly
\* the arguments it runs with, and no approval serves a session twice: only calls
\* that overlapped can run on the same one (executor.py:57-73, runner.py:68-80).
EffectsAreApproved ==
    \A i \in DOMAIN effects :
        LET e == effects[i] IN
        IF e.by = NoApproval
        THEN TheTask(e.scope.task).held => e.confirmed
        ELSE /\ asked[e.by] = [scope |-> e.scope, status |-> "used"]
             /\ \A j \in DOMAIN effects :
                    effects[j].by = e.by /\ effects[j].session = e.session => i = j

\* With them, inductive.
FlowIInv ==
    /\ TypeOK
    /\ \A s \in Session : RunHonest(run[s], pc[s])
    /\ ApprovalsHonest
    /\ EffectsAreApproved
    /\ \A i \in DOMAIN effects : effects[i].by # NoApproval => effects[i].by \in DOMAIN asked

\* While an order is made, in its k-th round: the tasks placed so far are ranked, those
\* of the round follow them at depth k, and every other one waits for a task that is not
\* placed yet or was taken in this round.
Layered(r) ==
    \E k \in 0..(Len(r.order) + 1) :
        \E depth \in [(Ids \ r.remaining) \cup r.batch -> 1..k] :
            /\ k <= Len(r.order) + IF r.batch = {} THEN 0 ELSE 1
            /\ Ranked(r.order, depth)
            /\ \A t \in r.batch :
                   /\ depth[t] = k
                   /\ \A i \in DOMAIN r.order : depth[r.order[i]] = k => r.order[i] < t
            /\ k > 0 => \A t \in r.remaining \ r.batch : \E u \in TheTask(t).needs :
                   u \in r.remaining \/ depth[u] = k

\* With it, OrderIsExact is inductive.
OrderIInv ==
    /\ FlowIInv
    /\ OrderIsExact
    /\ \A s \in Session : pc[s] = "ordering" =>
           /\ Len(run[s].order) = Cardinality(Ids \ run[s].remaining)
           /\ Layered(run[s])

\* Runs have numbers of their own; with what they report, ReportsAddUp is inductive.
ReportIInv ==
    /\ FlowIInv
    /\ \A i \in DOMAIN effects : effects[i].run <= runs
    /\ \A s \in Session : pc[s] # "idle" =>
           /\ run[s].number <= runs
           /\ \A x \in Session \ {s} : pc[x] # "idle" => run[x].number # run[s].number
           /\ ReportHonest(run[s], pc[s], Ran(run[s].number))

\* Doing what blocked runs ask for gets a workflow done: recovery's
\* "rerun_after_approval" keeps its word (runner.py:176-184).  Only one whose tasks wait
\* for each other is turned away, instead of being put in order for ever.
RerunsComplete ==
    <>(\E s \in Session : IF Cyclic THEN pc[s] = "rejected"
                          ELSE pc[s] = "ended" /\ run[s].status = "completed")

\* The price: a rerun consumes every approval up to the first task that lacks one,
\* so that h tasks held back take 2^h runs to get through, and what precedes them
\* runs again in each.
RerunsDouble ==
    LET h == Cardinality({t \in Ids : TheTask(t).held}) IN
    \A s \in Session :
        /\ run[s].number <= 2 ^ h
        /\ pc[s] = "ended" /\ run[s].status = "completed" => run[s].number = 2 ^ h
=============================================================================
