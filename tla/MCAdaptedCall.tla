--------------------------- MODULE MCAdaptedCall ---------------------------
(* Instances of AdaptedCall for TLC.                                         *)
EXTENDS AdaptedCall

\* A command on pipes the policy holds back, one on a terminal it holds back too,
\* and one no adapter runs.
Held == [command |-> "deploy", transport |-> "stdio",
         policy |-> [risk |-> "privileged", requiresConfirmation |-> FALSE,
                     network |-> "deny"]]
Terminal == [Held EXCEPT !.transport = "pty"]
Remote == [command |-> "deploy", transport |-> "other",
           policy |-> [risk |-> "read", requiresConfirmation |-> TRUE,
                       network |-> "allow"]]

MCManifest == {Held, Terminal, Remote}
MCClient == Call \cup Decider
MCScope == [cap : Capability, argv : Argv, dryRun : BOOLEAN, manifest : Manifest]
MCOutputSets == {{}, {"stdout"}, {"stderr"}, {"stdout", "stderr"}}

\* Bound: a call that is not followed writes nothing and makes real runs only.
Bounded ==
    \A c \in Call \ {Followed} :
        /\ pc[c] = "running" /\ pc'[c] = "reporting" =>
                todo'[c] = CompletedRecords({}, paid[c])
        /\ pc[c] = "idle" /\ pc'[c] # "idle" =>
                ~request'[c].dryRun /\ request'[c].manifest # Terminal

MCAdaptedSpec == AdaptedInit /\ [][AdaptedNext /\ Bounded]_adaptedVars /\ Fairness
=============================================================================
