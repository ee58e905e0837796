---------------------------- MODULE PolicyEngine ----------------------------
(***************************************************************************)
(* The policy decision of cbn_policy/engine.py: which capabilities need an *)
(* explicit confirmation before they run.                                  *)
(***************************************************************************)

Risk    == {"read", "write-workspace", "privileged", "external-network"}
Network == {"deny", "localhost", "requires-confirmation", "allow"}

\* The policy section of a manifest.  The registry loads manifests unvalidated; one
\* with another risk makes evaluate() raise, and call() with it, before any effect.
Policy == [risk : Risk, requiresConfirmation : BOOLEAN, network : Network]

NeedsConfirmation(policy) ==
    \/ policy.requiresConfirmation
    \/ policy.risk \in {"privileged", "external-network"}
    \/ policy.network = "requires-confirmation"

\* evaluate(manifest, confirmed).allowed
Allowed(policy, confirmed) == NeedsConfirmation(policy) => confirmed
=============================================================================
