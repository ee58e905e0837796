---------------------------- MODULE AdaptedCall ----------------------------
(***************************************************************************)
(* Concurrent calls as in ToolCall, one of which is followed into its      *)
(* adapter step by step: what ToolCall takes for one step, the command     *)
(* that runs and exits or is killed, is here the adapter at work.          *)
(***************************************************************************)
EXTENDS ToolCall, Adapter

CONSTANT Followed   \* the call whose adapter is followed

ASSUME FollowedAssumption ==
    /\ Followed \in Call
    /\ {{}, {"stdout"}, {"stderr"}, {"stdout", "stderr"}} \subseteq OutputSets

adaptedVars == <<vars, adapterVars>>

AdaptedInit == Init /\ AdapterInit

\* _dispatch picks the adapter by transport; the platform picks the kind.
Kinds(transport) ==
    IF transport = "stdio" THEN {"stdio", "stdioWindows"} ELSE {"pty", "ptyWindows"}

\* The ToolResult of the adapter: stderr is the message of a timeout.  (Bound: the
\* two pipes of stdio are one.)
Result ==
    (IF output THEN {"stdout"} ELSE {})
    \cup (IF verdict = "timeout" THEN {"stderr"} ELSE {})

\* The followed call launches its command when it starts to run, and reports what
\* its adapter returned; cut short, its adapter stops with it.
Follow ==
    IF pc[Followed] # "running" /\ pc'[Followed] = "running"
    THEN \E k \in Kinds(request[Followed].manifest.transport) : Launch(k)
    ELSE /\ pc[Followed] = "running" /\ pc'[Followed] = "reporting" =>
                /\ at = "returned"
                /\ todo'[Followed] = CompletedRecords(Result, paid[Followed])
         /\ UNCHANGED adapterVars

Running == pc[Followed] = "running" /\ UNCHANGED vars

AdaptedNext ==
    \/ Next /\ Follow
    \/ Running /\ (AdapterStep \/ Reader \/ CommandStep \/ DeadlinePasses)

\* A call thread runs until call() returns or raises, the adapter it is in goes on
\* polling, and the clock goes on: these are fair.  Nobody has to call, to decide or
\* to die, and no command has to write, to exit, or to end its helper; the command
\* of a call that is not followed ends by its timeout (adapters/stdio.py:36).
Fairness ==
    /\ \A c \in Call : WF_adaptedVars(CallStep(c) /\ Follow)
    /\ WF_adaptedVars(Running /\ AdapterStep)
    /\ WF_adaptedVars(Running /\ DeadlinePasses)

AdaptedSpec == AdaptedInit /\ [][AdaptedNext]_adaptedVars /\ Fairness

-----------------------------------------------------------------------------
(* Properties.                                                             *)

\* The one wait without a deadline: reading on, for as long as a helper keeps the
\* output open, after the command exited (pty.py:162-173) or, on Windows, was killed
\* (subprocess.run under stdio.py:27).
HeldByHelper(c) == c = Followed /\ at \in {"drain", "collect"} /\ helper = "running"

\* Every call that begins ends, whatever its command does: it returns with its
\* verdict audited and published, or it was cut short, or a helper of its command
\* holds it forever.
CallsEnd ==
    \A c \in Call : pc[c] # "idle" ~>
        \/ pc[c] = "aborted"
        \/ Returned(c) /\ \E verdict_ \in {"blocked", "completed"} :
                            Wrote(c, "audit", verdict_) /\ Wrote(c, "event", verdict_)
        \/ []HeldByHelper(c)
=============================================================================
