---------------------------- MODULE PluginCatalog ----------------------------
(***************************************************************************)
(* The operations a plugin offers, cbn_plugins/manager.py and manifest.py: *)
(* the catalog made of the generic operations, those the plugin's manifest *)
(* declares and those of its provider, its validation, the plan of one     *)
(* operation, and which commands a verification may run.                   *)
(*                                                                         *)
(* Of a command line only the verb after "cbn plugin" (or the subcommand)  *)
(* and its flags are kept, of a payload what it says of "confirmed": it is *)
(* left out, a literal (false; null, 0 and the like, which are "falsy"; or *)
(* "true", which stands for all others), or asked of the caller by a       *)
(* placeholder.                                                            *)
(***************************************************************************)
EXTENDS Naturals, Sequences, FiniteSets

Kind == {"report", "gate", "plan", "execute", "write"}
HasEffects(kind) == kind \in {"execute", "write"}

Says == {"absent", "true", "false", "falsy", "asked"}

(* Descriptors: PluginOperation, _operation *)

NoCommand == [verb |-> "", flags |-> {}]

\* What a manifest may declare: nothing but the types is checked when it is read.
OperationRecord ==
    [id : STRING, kind : STRING, api : STRING, inputs : SUBSET STRING, schema : SUBSET STRING,
     object : BOOLEAN, command : [verb : STRING, flags : SUBSET STRING], confirm : BOOLEAN,
     effects : BOOLEAN, says : Says]

Operation(id, kind, api, inputs, command, confirm, effects, says) ==
    [id |-> id, kind |-> kind, api |-> api, inputs |-> inputs, schema |-> {},
     object |-> TRUE, command |-> command, confirm |-> confirm, effects |-> effects,
     says |-> says]

\* An operation without effects, and one that runs or writes something.
Reads(id, kind, api, inputs, verb) ==
    Operation(id, kind, api, inputs, [verb |-> verb, flags |-> {}], FALSE, FALSE, "absent")
Acts(id, kind, inputs, verb, flags) ==
    Operation(id, kind, "POST", inputs, [verb |-> verb, flags |-> flags], TRUE, TRUE, "true")

\* _generic_plugin_operations: some have an API path for the bundled plugin only.
GenericOperations(bundled) ==
    LET get == IF bundled THEN "GET" ELSE "none" IN
    <<Reads("info", "report", "none", {}, "info"),
      Reads("preflight", "report", get, {}, "preflight"),
      Reads("provenance", "report", get, {}, "provenance"),
      Reads("check-update", "report", "POST", {}, "check-update"),
      Reads("install-gate", "gate", "POST", {}, "gate"),
      Reads("update-gate", "gate", "POST", {}, "gate"),
      Reads("install-plan", "plan", "POST", {}, "plan"),
      Reads("update-plan", "plan", "POST", {}, "plan"),
      Reads("verify-plan", "report", "POST", {}, "verify-plan"),
      Acts("install-execute", "execute", {}, "install", {"--yes"}),
      Acts("update-execute", "execute", {}, "update", {"--yes"})>>

\* _provider_operations of the bundled plugin.
ProviderOperations(bundled) ==
    IF ~bundled THEN <<>> ELSE
    <<Reads("status", "report", "GET", {}, "status"),
      Reads("market-list", "report", "POST", {}, "market"),
      Reads("candidates", "report", "POST", {}, "candidates"),
      Reads("install-queue", "gate", "POST", {}, "install-queue"),
      Reads("blocked-plan", "gate", "POST", {}, "blocked-plan"),
      Reads("repair-plan", "report", "POST", {"harness"}, "repair-plan"),
      Reads("adapter-targets", "report", "POST", {"harness"}, "adapter-targets"),
      Acts("adapter-smoke", "execute", {"harness", "module"}, "adapter-smoke", {"--run", "--yes"}),
      Acts("repair-entrypoint", "write", {"harness", "module"}, "repair-entrypoint",
           {"--write", "--yes"}),
      Reads("adaptation-gate", "gate", "POST", {"harness"}, "adaptation-gate"),
      Reads("adaptation-queue", "gate", "POST", {}, "adaptation-queue"),
      Reads("promotion-gate", "gate", "POST", {"harness"}, "promotion-gate"),
      Reads("live-verification", "report", "POST", {}, "live-verification"),
      Reads("mvp-plan", "report", "POST", {}, "mvp-plan"),
      Reads("bootstrap-plan", "plan", "POST", {}, "bootstrap-plan"),
      Reads("harness-verify-plan", "report", "POST", {"harness"}, "verify-harness-plan"),
      Acts("harness-install", "execute", {"harness"}, "harness", {"--yes"})>>

\* _dedupe_operations: the first of each id; one without an id is dropped.
Deduped(operations) ==
    LET kept == {i \in DOMAIN operations :
                    /\ operations[i].id # ""
                    /\ \A j \in 1..(i - 1) : operations[j].id # operations[i].id}
        rank(i) == Cardinality({j \in kept : j <= i})
    IN  [k \in 1..Cardinality(kept) |-> operations[CHOOSE i \in kept : rank(i) = k]]

\* _enrich_operation_descriptor: every placeholder is an input the schema lists.
Enriched(operation) ==
    [operation EXCEPT !.schema = IF operation.object THEN @ \cup operation.inputs ELSE {}]

\* PluginManager._operation_catalog_for_manifest
Catalog(bundled, own) ==
    LET all == Deduped(GenericOperations(bundled) \o own \o ProviderOperations(bundled))
    IN  [k \in DOMAIN all |-> Enriched(all[k])]

(* _validate_operation_catalog *)

\* _validate_operation_api: "GET" and "POST" are the methods an API may have.
ApiErrors(operation) ==
    {e \in {"method", "method of effect"} :
        \/ e = "method" /\ operation.api \notin {"GET", "POST"}
        \/ e = "method of effect" /\ HasEffects(operation.kind) /\ operation.api # "POST"}

\* Faulty variant of OperationErrors: what the payload says is not looked at.
OperationErrorsOfDescriptor(operation) ==
    (IF operation.api = "none" THEN {} ELSE ApiErrors(operation)) \cup
    {e \in {"kind", "schema", "command", "confirmation"} :
        \/ e = "kind" /\ operation.kind \notin Kind
        \/ e = "schema" /\ ~operation.object
        \/ e = "command" /\ operation.command = NoCommand
        \/ e = "confirmation" /\ HasEffects(operation.kind) /\ ~operation.confirm}

\* _validate_operation_catalog, of one operation: of the payload only the literal false is
\* an error.
OperationErrors(operation) ==
    (IF operation.api = "none" THEN {} ELSE ApiErrors(operation)) \cup
    {e \in {"kind", "schema", "input", "command", "confirmation", "side effects", "confirmed"} :
        \/ e = "kind" /\ operation.kind \notin Kind
        \/ e = "schema" /\ ~operation.object
        \/ e = "input" /\ ~(operation.inputs \subseteq operation.schema)
        \/ e = "command" /\ operation.command = NoCommand
        \/ /\ HasEffects(operation.kind)
           /\ \/ e = "confirmation" /\ ~operation.confirm
              \/ e = "side effects" /\ ~operation.effects
              \/ e = "confirmed" /\ operation.says = "false"}

CatalogErrors(version, catalog) ==
    (IF version = "cbn.plugin.v1" THEN {} ELSE {"version"}) \cup
    UNION {OperationErrors(catalog[k]) : k \in DOMAIN catalog}

(* PluginManager.operation_plan *)

\* What the resolved payload says of "confirmed": the template's word stands, a falsy one
\* too, and only one left out is filled in, for confirmed operations that have effects.
ResolvedConfirmed(operation, answer, confirmed) ==
    CASE operation.says = "asked" -> answer
      [] operation.says = "absent" ->
             IF HasEffects(operation.kind) /\ confirmed THEN "true" ELSE "absent"
      [] OTHER -> operation.says

\* _operation_api_request: a plan without an API sends nothing.
RequestOf(operation, payload) ==
    IF operation.api = "none" THEN [method |-> "none", confirmed |-> "absent"]
    ELSE [method |-> operation.api, confirmed |-> payload]

\* The daemon carries out a request for an operation with effects only if it says so.
CarriedOut(req) == req.confirmed = "true"

\* The plan of an operation whose catalog has some errors, for a caller who gives some
\* inputs, among them the answer to a payload that asks whether it is confirmed.
OperationPlan(errors, operation, given, answer, confirmed) ==
    LET blockers == {b \in {"missing input", "catalog invalid", "confirmation"} :
            \/ b = "missing input" /\ ~(operation.inputs \subseteq given)
            \/ b = "catalog invalid" /\ errors # {}
            \/ b = "confirmation" /\ HasEffects(operation.kind) /\ ~confirmed}
    IN  [ready |-> blockers = {}, blockers |-> blockers,
         request |-> RequestOf(operation, ResolvedConfirmed(operation, answer, confirmed))]

(* Which commands a verification may run *)

\* _is_read_only_plugin_verification
ReadOnlyVerb(verb) ==
    verb \in {"provenance", "status", "check-update", "bootstrap-plan", "verify-harness",
              "market", "harness-status"}

\* _parse_verification_command, _is_read_only_cbn_verification: commands of "cbn plugin"
\* and, by the verb "runtime-transport" or "smoke-suite", two that are not.
SafeToRun(command) ==
    /\ command.flags \cap {"--yes", "--write", "--install", "--run", "--remote"} = {}
    /\ ReadOnlyVerb(command.verb) \/ command.verb \in {"runtime-transport", "smoke-suite"}

\* _verification_check of a command that would exit with success or not.
CheckStatus(command, run, succeeds) ==
    IF ~SafeToRun(command) THEN "blocked"
    ELSE IF ~run THEN "planned" ELSE IF succeeds THEN "completed" ELSE "failed"

\* verification_report_for_plan, where the commands numbered "good" exit with success.
VerificationReport(commands, run, good) ==
    LET status == [i \in DOMAIN commands |-> CheckStatus(commands[i], run, i \in good)]
        count(s) == Cardinality({i \in DOMAIN commands : status[i] = s})
    IN  [ok |-> count("blocked") = 0 /\ count("failed") = 0,
         ready |-> \A i \in DOMAIN commands : SafeToRun(commands[i]),
         executed |-> count("completed"), failed |-> count("failed"),
         blocked |-> count("blocked")]
==============================================================================
