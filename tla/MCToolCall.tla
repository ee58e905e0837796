----------------------------- MODULE MCToolCall -----------------------------
(* Instances of ToolCall for TLC.                                            *)
EXTENDS ToolCall, TLC

\* Two versions of a manifest: one the policy holds back, one it lets through.
Held == [command |-> "deploy", transport |-> "stdio",
         policy |-> [risk |-> "privileged", requiresConfirmation |-> FALSE,
                     network |-> "deny"]]
Open == [command |-> "deploy --check", transport |-> "stdio",
         policy |-> [risk |-> "read", requiresConfirmation |-> FALSE,
                     network |-> "deny"]]

MCManifest == {Held, Open}
MCClient == Call \cup Decider
MCScope == [cap : Capability, argv : Argv, dryRun : BOOLEAN, manifest : Manifest]
MCOutputSets == {{"stdout"}}

\* Bound: what an earlier session left is either out of use, since it lacks a scope,
\* or fought over by unconfirmed calls of a manifest nobody edits.
Fought == \E id \in Left : queue[id][1].scope # NoScope

Bounded ==
    IF Fought
    THEN /\ edits' = 0
         /\ \A c \in Call : pc'[c] # "idle" => ~request'[c].confirmed
    ELSE /\ \A id \in Left : queue'[id] = queue[id]
         /\ \A c \in Client : frame'[c] # Idle => frame'[c].id \notin Left
         /\ \A c \in Call : pc'[c] # "idle" => request'[c].approval \notin Left

MixedSpec ==
    /\ Init
    /\ Fought => disk = [cap \in Capability |-> Held]
    /\ [][Next /\ Bounded]_vars

Symmetry == Permutations(Call) \cup Permutations(Decider)
            \cup Permutations(ApprovalId \ Left)
=============================================================================
