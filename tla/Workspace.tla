------------------------------ MODULE Workspace ------------------------------
(***************************************************************************)
(* What the ways into the network share, and every process loads when it   *)
(* builds its runtime (cbn_runtime/context.py): the manifests, the         *)
(* workflow documents and the approvals, which people change at any time.  *)
(* ToolCall and Workflow tell in detail what is a single step here: a call *)
(* of the executor and a run of a workflow, by what they answer.           *)
(***************************************************************************)
EXTENDS Naturals, Sequences, FiniteSets

CONSTANTS
    Capability,
    Task,         \* the tasks of workflow documents, in the order they run
    Uses,         \* Uses[t] is the capability of t
    Manifest      \* versions of a manifest: [held, parser, known, verified], whether the policy
                  \* holds the capability back, the parser of its output, whether there is a
                  \* manifest at all, and whether its output is verified

ASSUME WorkspaceAssumption ==
    Task \subseteq Nat /\ IsFiniteSet(Task) /\ Task # {} /\ Uses \in [Task -> Capability]

VARIABLES
    manifest,     \* the effective manifest of each capability, on disk
    edition,      \* how often a manifest has changed
    document,     \* the tasks of the workflow file
    granted,      \* capabilities for which an approval is granted and unused
    stimuli       \* bound: how much more people and clients do, all in all

workspace == <<manifest, edition, document, granted, stimuli>>

Document == (SUBSET Task) \ {{}}

\* build_runtime: what a process knows of the manifests from then on.
Runtime == [manifest |-> manifest, edition |-> edition]

Stimulus == stimuli > 0 /\ stimuli' = stimuli - 1

\* CapabilityExecutor.call: what it may answer, with or without a consent.  "broken" is a
\* call that raises: nobody knows the capability, or an append to a log or to the approvals
\* fails, before its program has run or after.
Answers(runtime, c, consent, dry) ==
    {"broken"} \cup
    IF ~runtime.manifest[c].known THEN {}
    ELSE IF runtime.manifest[c].held /\ ~consent THEN {"refused"}
    ELSE IF dry THEN {"good"} ELSE {"good", "failed"}

\* ApprovalStore.use: an approval that is presented is used up, unless the call breaks before.
UseApproval(c, present, result) ==
    \/ present /\ granted' = granted \ {c}
    \/ (~present \/ result = "broken") /\ UNCHANGED granted

\* WorkflowRunner.run: a task that is refused or fails stops the run, also one whose
\* arguments cannot be selected from what an earlier one returned; a task that breaks, by
\* its call or by an index beyond the list it is to be selected from, leaves the run.
Runs(runtime, tasks, confirmed, dry) ==
    {f \in [tasks -> {"good", "failed", "refused", "skipped", "broken"}] :
        \A t \in tasks :
            IF \E u \in tasks : u < t /\ f[u] # "good" THEN f[t] = "skipped"
            ELSE \/ f[t] \in Answers(runtime, Uses[t], confirmed, dry)
                 \/ f[t] = "failed" /\ \E u \in tasks : u < t}

\* What a run returns, or that it has raised.
RunStatus(f) ==
    IF \E t \in DOMAIN f : f[t] = "broken" THEN "raised"
    ELSE IF \E t \in DOMAIN f : f[t] = "refused" THEN "blocked"
    ELSE IF \E t \in DOMAIN f : f[t] = "failed" THEN "failed" ELSE "completed"

\* People edit a manifest or the workflow, or approve a call that waits.
PeopleEdit(manifests) ==
    /\ Stimulus
    /\ \/ /\ \E c \in Capability, m \in manifests :
                 m # manifest[c] /\ manifest' = [manifest EXCEPT ![c] = m]
          /\ edition' = edition + 1 /\ UNCHANGED document
       \/ document' \in Document \ {document} /\ UNCHANGED <<manifest, edition>>
    /\ UNCHANGED granted

PeopleApprove ==
    /\ Stimulus
    /\ \E c \in Capability \ granted : granted' = granted \cup {c}
    /\ UNCHANGED <<manifest, edition, document>>

InitWorkspace(manifests) ==
    /\ manifest \in [Capability -> manifests]
    /\ edition = 0 /\ document = Task /\ granted = {}
==============================================================================
