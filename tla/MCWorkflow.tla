----------------------------- MODULE MCWorkflow -----------------------------
(* Documents and bounds for model checking Workflow.                       *)
EXTENDS Workflow, TLC

CONSTANT MaxTasks   \* bound: tasks of a document

AllModes == BOOLEAN \X BOOLEAN

\* Sessions and values are interchangeable.
Interchangeable == Permutations(Session) \cup Permutations(Value)

Task(t, needs, from, dry, held) ==
    [id |-> t, needs |-> needs, argsFrom |-> from, dryRun |-> dry, held |-> held]

\* Every document of up to MaxTasks tasks, with repeated ids, needs of absent
\* tasks, cycles and arguments from tasks that are not needed among them.
AnyFlow == UNION {[1..n -> {Task(t, needs, from, FALSE, FALSE) :
                       t \in TaskId, needs \in SUBSET TaskId, from \in {{}, {1}}}] :
                   n \in 0..MaxTasks}

\* Two tasks, the second taking its argument from the first, with every choice of
\* which are held back and of the first being dry.
SessionFlow ==
    { << Task(1, {}, {}, dry, 1 \in held), Task(2, {1}, {1}, FALSE, 2 \in held) >> :
        dry \in BOOLEAN, held \in {{1}, {2}, {1, 2}} }

\* Bound: a document that holds no task back is run once; one that does is run for
\* real and none of its commands fails.
Bounded ==
    IF \E i \in DOMAIN flow : flow[i].held
    THEN \A s \in Session : ~run'[s].dry /\ run'[s].status # "failed"
    ELSE runs' <= 1

MixedFlow == AnyFlow \cup SessionFlow
MixedSpec == Init /\ [][Next /\ Bounded]_vars

\* Every graph without cycles over up to MaxTasks tasks, numbered along its needs,
\* with every choice of the tasks held back and arguments from all a task needs; and
\* a graph whose last tasks wait for each other.
RerunFlow ==
    UNION { { [t \in 1..n |-> Task(t, needs[t], needs[t], FALSE, t \in held)] :
                needs \in {f \in [1..n -> SUBSET (1..n)] :
                              \A t \in 1..n : f[t] \subseteq 1..(t - 1)},
                held \in SUBSET (1..n) } : n \in 1..MaxTasks }
    \cup { << Task(1, {}, {}, FALSE, TRUE), Task(2, {3}, {}, FALSE, FALSE),
              Task(3, {2}, {}, FALSE, FALSE) >> }
=============================================================================
