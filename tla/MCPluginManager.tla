--------------------------- MODULE MCPluginManager ---------------------------
(* An instance of the plugin manager for TLC: two requests and five manifests *)
(* somebody may register, two of which the validation must reject.            *)
EXTENDS PluginManager, TLC

Symmetry == Permutations(Op)

Own(id, kind, api, says) ==
    Operation(id, kind, api, IF says = "asked" THEN {"confirmed"} ELSE {},
              [verb |-> "market", flags |-> {}], TRUE, TRUE, says)

MCOwnManifest == {
    [version |-> "cbn.plugin.v1", operations |-> <<>>],
    [version |-> "cbn.plugin.v1",
     operations |-> <<Own("install-execute", "report", "GET", "absent"),
                      Own("mine", "write", "POST", "absent"),
                      Own("harness-install", "execute", "POST", "asked")>>],
    [version |-> "cbn.plugin.v1", operations |-> <<Own("mine", "execute", "POST", "falsy")>>],
    [version |-> "cbn.plugin.v1", operations |-> <<Own("mine", "execute", "GET", "true")>>],
    [version |-> "cbn.plugin.v1", operations |-> <<Own("mine", "execute", "POST", "false")>>]}
==============================================================================
