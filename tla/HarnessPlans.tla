---------------------------- MODULE HarnessPlans ----------------------------
(***************************************************************************)
(* The gates and plans of cbn_plugins/cli_anything.py that are made of the *)
(* reports of HarnessReports: promotion, adaptation, live verification,    *)
(* the MVP plan and the bootstrap plan.  What they take from other parts   *)
(* is a parameter: the plugin manager's report of the plugin ("env"), and  *)
(* verdicts of the protocol reports.                                       *)
(***************************************************************************)
EXTENDS HarnessReports

(* promotion_gate: may a repaired overlay become a portable manifest? *)

FixturesOf(parser) == {f \in fixtures : f[2] = parser}

\* Faulty variant of PromotionBlockers: what blocks the verification is left out.
PromotionBlockersUnverified(v, smoke, bridgeReady) ==
    LET cap == v.evaluation.status.cap
        man == InForce(v.evaluation)
    IN  {b \in {"source", "unverified", "not listed", "smoke", "bridge"} :
            \/ b = "source" /\ Source(cap) # "runtime_local_overlay"
            \/ b = "unverified" /\ ~man.verified
            \/ b = "not listed" /\ ~Covered(cap, man.parser)
            \/ b = "smoke" /\ smoke # "passed"
            \/ b = "bridge" /\ ~bridgeReady}

\* _promotion_blockers, _parser_fixture_gate
PromotionBlockers(v, smoke, bridgeReady) ==
    LET cap == v.evaluation.status.cap
        man == InForce(v.evaluation)
    IN  v.blockers \cup
        {b \in {"source", "repair", "unverified", "fixtures", "not listed", "smoke", "bridge"} :
            \/ b = "source" /\ Source(cap) # "runtime_local_overlay"
            \/ b = "repair" /\ ~RepairActive(man)
            \/ b = "unverified" /\ ~man.verified
            \/ b = "fixtures" /\ FixturesOf(man.parser) = {}
            \/ b = "not listed" /\ ~Covered(cap, man.parser)
            \/ b = "smoke" /\ smoke # "passed"
            \/ b = "bridge" /\ ~bridgeReady}

\* _promotion_requirements: the requirements that are passed.
PassedRequirements(v, smoke, bridgeReady) ==
    LET cap == v.evaluation.status.cap
        man == InForce(v.evaluation)
    IN  {r \in {"overlay", "repair", "verification", "contract", "coverage", "smoke", "bridge"} :
            \/ r = "overlay" /\ Source(cap) = "runtime_local_overlay"
            \/ r = "repair" /\ RepairActive(man)
            \/ r = "verification" /\ v.ready
            \/ r = "contract" /\ man.verified
            \/ r = "coverage" /\ Covered(cap, man.parser)
            \/ r = "smoke" /\ smoke = "passed"
            \/ r = "bridge" /\ bridgeReady}

\* promotion_gate
PromotionStatus(v, smoke, bridgeReady) ==
    IF ~v.ok THEN "error"
    ELSE IF Source(v.evaluation.status.cap) = "current_registry" THEN "already_portable"
    ELSE IF PromotionBlockers(v, smoke, bridgeReady) # {} THEN "blocked"
    ELSE "ready_for_promotion"

(* adaptation_gate *)

\* _adaptation_gate_repair_scan_decision
RepairScan(e, module) ==
    IF e.ok /\ e.launchReady THEN "not_needed"
    ELSE IF module # NoModule THEN "requested"
    ELSE IF ~(e.ok /\ e.status.installed) \/ e.blockers \ {"entrypoint"} # {} THEN "skipped"
    ELSE "allowed"

\* Faulty variant of SmokeStatus: a smoke run that was made counts as passed.
SmokeStatusIfRun(required, module, ran) ==
    IF ~required THEN "not_required"
    ELSE IF module = NoModule THEN "blocked" ELSE IF ran THEN "passed" ELSE "not_run"

\* _repair_entrypoint_smoke_gate: whether there is a module, and whether it was run.
SmokeStatus(required, module, ran) ==
    IF ~required THEN "not_required"
    ELSE IF module = NoModule THEN "blocked"
    ELSE IF ~ran THEN "not_run"
    ELSE IF SmokeOk(module) THEN "passed" ELSE "failed"

\* _adaptation_gate_next_action
AdaptationNext(native, repair, selected, smokeStatus, ready) ==
    IF native THEN "verify_harness_and_protocol_facades"
    ELSE IF ~repair THEN "inspect_harness_blockers"
    ELSE IF selected = NoModule THEN "inspect_adapter_targets"
    ELSE IF ready THEN "write_smoke_gated_repaired_manifest"
    ELSE IF smokeStatus = "not_run" THEN "run_adapter_smoke"
    ELSE "choose_another_adapter_target_or_fix_dependencies"

\* adaptation_gate and _adaptation_gate_summary, for a module or for the best target.
GateSummary(native, repair, selected, status) ==
    LET ready == repair /\ selected # NoModule /\ status \in {"not_required", "passed"}
    IN  [native |-> native, repair |-> repair, selected |-> selected,
         smoke |-> status, ready |-> ready,
         next |-> AdaptationNext(native, repair, selected, status, ready)]

AdaptationGate(h, module, requireSmoke, ran) ==
    LET repairs(e) == RepairScan(e, module) \in {"requested", "allowed"} /\ RepairRequired(e)
        selects(repair) == IF module = NoModule /\ repair /\ Target[h] # <<>>
                           THEN Head(Target[h]) ELSE module
        smoke(repair) == SmokeStatus(requireSmoke, IF repair THEN selects(repair) ELSE NoModule,
                                     ran)
        gate(native, repair) == GateSummary(native, repair, selects(repair), smoke(repair))
        of(e) == gate(e.ok /\ e.launchReady, repairs(e))
    IN  of(Evaluation(h, TRUE))

\* _adaptation_gate_stages
AdaptationStages(h, g) ==
    LET e == Evaluation(h, TRUE)
        skipped == g.native \/ ~g.repair
        stage(done, skip) == IF done THEN "completed" ELSE IF skip THEN "skipped" ELSE "blocked"
    IN  [evaluate  |-> stage(e.ok, FALSE),
         installed |-> stage(e.ok /\ e.status.installed, FALSE),
         native    |-> stage(g.native, FALSE),
         plan      |-> stage(g.repair, skipped),
         target    |-> stage(g.selected # NoModule, skipped),
         smoke     |-> stage(g.smoke = "passed", g.smoke = "not_required" \/ ~g.repair),
         write     |-> IF g.ready THEN "ready" ELSE stage(FALSE, skipped)]

(* adaptation_queue *)

\* _harnesses_from_install_queue
Distinct(names) ==
    At(names, {k \in DOMAIN names : \A j \in 1..(k - 1) : names[j] # names[k]})

QueuedNames(q, limit, max) ==
    LET namesOf(indexes) == [k \in DOMAIN indexes |-> market[indexes[k]].name]
        all(queues) == queues.queue \o queues.blocked \o queues.skipped
    IN  Take(max, Distinct(namesOf(all(InstallQueue(q, limit, max)))))

\* adaptation_queue, _adaptation_queue_summary
Sorted(names, gates) ==
    [names |-> names,
     native |-> {k \in DOMAIN gates : gates[k].native},
     ready |-> {k \in DOMAIN gates : gates[k].ready},
     smoke |-> {k \in DOMAIN gates : gates[k].next = "run_adapter_smoke"},
     blocked |-> {k \in DOMAIN gates : gates[k].next \in
                     {"inspect_harness_blockers", "inspect_adapter_targets",
                      "choose_another_adapter_target_or_fix_dependencies"}}]

AdaptationQueue(q, limit, max, ran) ==
    LET gates(names) == [k \in DOMAIN names |-> AdaptationGate(names[k], NoModule, TRUE, ran)]
        sorted(names) == Sorted(names, Take(max, gates(names)))
    IN  sorted(QueuedNames(q, limit, max))

(* live_verification, mvp_plan, bootstrap_plan *)

\* _live_verification_summary: how many of the harnesses are verified, and launch ready.
LiveSummary(names, smoke) ==
    [count |-> Cardinality(names),
     verified |-> Cardinality({h \in names : Verification(h, smoke).ready}),
     launchReady |-> Cardinality({h \in names : Verification(h, smoke).evaluation.launchReady})]

\* live_verification
LiveOk(names, smoke, bridgeReady) ==
    hub /\ bridgeReady /\ \A h \in names : Verification(h, smoke).ready

\* The plugin manager's report of the plugin itself: is its source there, is it trusted,
\* do the gates of its operations let it be installed.
Environment == [downloaded : BOOLEAN, trusted : BOOLEAN, installGate : BOOLEAN]

\* _mvp_plan_summary of what mvp_plan has collected.  Its adaptation queue requires a
\* smoke run, and makes none.
Summary(env, installs, adaptations, bridgeReady, blockedWorkflows) ==
    LET pluginReady == env.installGate \/ env.downloaded
    IN  [downloaded |-> env.downloaded, pluginReady |-> pluginReady,
         queued |-> Len(installs.queue), blocked |-> Len(installs.blocked),
         adaptations |-> Len(adaptations.names),
         smoke |-> adaptations.smoke # {}, repair |-> adaptations.ready # {},
         stuck |-> adaptations.blocked # {},
         adaptable |-> adaptations.native \cup adaptations.ready \cup adaptations.smoke # {},
         nextDownload |-> pluginReady /\ installs.queue # <<>>,
         routes |-> bridgeReady /\ ~blockedWorkflows]

MvpSummary(env, q, limit, max, bridgeReady, blockedWorkflows) ==
    Summary(env, InstallQueue(q, limit, max), AdaptationQueue(q, limit, max, FALSE),
            bridgeReady, blockedWorkflows)

\* Faulty variant of MvpNext: blocked installs count as queued.
MvpNextOfAll(m) ==
    IF ~m.downloaded THEN "install_cli_anything_external_plugin"
    ELSE IF m.queued + m.blocked > 0 THEN "install_next_market_harness"
    ELSE IF m.smoke THEN "run_adapter_smoke" ELSE "inspect_adaptation_blockers"

\* _mvp_plan_next_action
MvpNext(m) ==
    IF ~m.downloaded THEN "install_cli_anything_external_plugin"
    ELSE IF ~m.pluginReady THEN "fix_cli_anything_install_gate"
    ELSE IF m.queued > 0 THEN "install_next_market_harness"
    ELSE IF m.smoke THEN "run_adapter_smoke"
    ELSE IF m.repair THEN "repair_entrypoint_with_smoke_evidence"
    ELSE IF m.stuck THEN "inspect_adaptation_blockers"
    ELSE IF ~m.routes THEN "fix_cli_to_cli_acceptance"
    ELSE "start_external_protocol_conformance_research"

\* _mvp_plan_stages
MvpStages(m) ==
    [download |-> IF m.downloaded THEN "ready" ELSE "next",
     install  |-> IF m.nextDownload THEN "next"
                  ELSE IF m.queued = 0 /\ m.blocked = 0 /\ m.adaptations > 0 THEN "complete"
                  ELSE "blocked",
     adapt    |-> IF m.adaptable THEN "ready" ELSE "blocked",
     accept   |-> IF m.routes THEN "ready" ELSE "blocked",
     facades  |-> "partial"]

\* bootstrap_plan: the market is scanned, and asked about the harness, if cli-hub is there.
Bootstrap(q, onboardingOk, env, lifecycleOk) ==
    [downloaded |-> env.downloaded, trusted |-> env.trusted, entry |-> hub,
     gate |-> env.installGate, market |-> hub /\ answers[q].shape # "error",
     onboarding |-> onboardingOk, lifecycle |-> lifecycleOk]

\* _bootstrap_next_action
BootstrapNext(b) ==
    IF ~b.downloaded THEN "install_cli_anything_external_plugin"
    ELSE IF ~b.trusted THEN "fix_cli_anything_source_provenance"
    ELSE IF ~b.entry THEN "repair_or_reinstall_cli_hub_entrypoint"
    ELSE IF ~b.gate THEN "fix_cli_anything_install_gate"
    ELSE IF ~b.market THEN "inspect_cli_hub_market"
    ELSE IF ~b.onboarding THEN "inspect_harness_onboarding"
    ELSE IF ~b.lifecycle THEN "fix_protocol_lifecycle_suite"
    ELSE "onboard_first_market_harness"

\* _bootstrap_stages
BootstrapStages(b) ==
    [preflight  |-> IF b.gate THEN "complete" ELSE "blocked",
     download   |-> IF b.downloaded THEN "complete" ELSE "next",
     provenance |-> IF ~b.trusted THEN "blocked" ELSE IF b.entry THEN "complete" ELSE "pending",
     updates    |-> IF b.downloaded THEN "ready" ELSE "pending",
     market     |-> IF b.market THEN "complete" ELSE IF ~b.entry THEN "pending" ELSE "blocked",
     onboard    |-> IF b.onboarding THEN "ready" ELSE "blocked",
     lifecycle  |-> IF b.lifecycle THEN "complete" ELSE "blocked"]

(* Properties *)

\* The command of a manifest can be started: the wrapper it names runs a module that can
\* be imported, or cli-hub can launch the harness; and a PTY backend runs either.
Callable(man) ==
    pty /\ IF RepairActive(man) THEN wrapper[CapOf[man.of]] \in Importable
                                ELSE hub /\ man.of \in onPath

Smoke == {"not_run", "passed", "failed"}

\* The queued record i meets nothing at the gate of its install; or nothing but a probe of
\* a requirement that the gate reads and the record does not declare.
GateExpected(i) ==
    LET e == Evaluation(market[i].name, TRUE)
    IN  \/ GateOpen("install", e)
        \/ /\ e.ok /\ e.candidate /\ ProbesBlock(e.requires)
           /\ ~ProbesBlock(Declared(market[i]))

\* What market_install_queue queues, for any query and limits, passes the gate that the
\* install will meet (harness_operation_gate), which evaluates the record a search finds
\* by name: only a requirement that the queued record does not declare can refuse it.
\* And no two entries of the queue have one capability.
QueueIsInstallable ==
    \A q \in Query : \A limit, max \in 1..Len(market) :
        LET installable(queue) ==
                \A i, j \in DOMAIN queue :
                    /\ GateExpected(queue[i])
                    /\ i # j => CapOf[market[queue[i]].name] # CapOf[market[queue[j]].name]
        IN  installable(InstallQueue(q, limit, max).queue)

\* A harness the queue reports as blocked is explained exactly if it was evaluated:
\* blocked_harness_plan knows a category for it, sends to the repair of an entry point only
\* where a repair would find one missing and offers no override there, and its lifecycle
\* offers no step as ready.  One whose evaluation failed counts as unresolved, and is
\* offered no override.
BlockedIsExplained ==
    \A q \in Query, limit \in 1..Len(market) :
        LET explained(i, c, e, decision, lifecycle) ==
                /\ decision.ready <=> ~c.candidate \/ e.ok
                /\ "unknown" \notin decision.categories
                /\ ~decision.ready => ~decision.override /\ decision.next = "inspect_blockers"
                /\ decision.next = "repair_entrypoint_or_market_metadata" =>
                       RepairRequired(e) /\ ~decision.override
                /\ ~c.candidate =>
                       "ready" \notin {lifecycle.write, lifecycle.install, lifecycle.call}
            of(i, c, decision) ==
                explained(i, c, Evaluation(market[i].name, TRUE), decision, Lifecycle(c))
            all(blocked, plan) ==
                \A k \in DOMAIN blocked : of(blocked[k], Probed(q, blocked[k]), plan[k])
        IN  all(InstallQueue(q, limit, 100).blocked, BlockedPlan(q, limit))

\* A harness that verify_harness finds ready, by the manifest in force for it, has a
\* command that can be started; and live_verification says so of two at once.
VerifiedStarts ==
    /\ \A h \in Name :
          LET starts(v) ==
                  v.ready /\ InForce(v.evaluation).of = h => Callable(InForce(v.evaluation))
              always(e) == \A smoke \in Smoke : starts(VerificationOf(e, smoke))
          IN  always(Evaluation(h, TRUE))
    /\ \A h, i \in Name : LiveOk({h, i}, "passed", TRUE) =>
          /\ LiveSummary({h, i}, "passed").verified = LiveSummary({h, i}, "passed").count
          /\ VerificationStages(Verification(h, "passed"), "passed").dryRun = "ready"

\* What promotion_gate lets become portable is a whole repair: installed, its wrapper
\* written, its output contract verified by fixtures that list it.
PromotedIsWhole ==
    \A h \in Name :
        LET whole(v, man, smoke, bridgeReady) ==
                /\ Cardinality(PassedRequirements(v, smoke, bridgeReady)) = 7
                /\ h \in installed /\ wrapper[CapOf[man.of]] \in Importable
                /\ man.verified /\ Covered(v.evaluation.status.cap, man.parser)
                /\ smoke = "passed" /\ bridgeReady
            always(e) ==
                \A smoke \in Smoke, bridgeReady \in BOOLEAN :
                    PromotionStatus(VerificationOf(e, smoke), smoke, bridgeReady)
                        = "ready_for_promotion"
                    => whole(VerificationOf(e, smoke), InForce(e), smoke, bridgeReady)
        IN  always(Evaluation(h, TRUE))

\* What is verified or may be promoted runs, after crashes between the two files of a
\* repair, lost paths, reinstalls and regenerated manifests too (verify_harness,
\* live_verification, promotion_gate).
VerifiedRuns == VerifiedStarts /\ PromotedIsWhole

\* When adaptation_gate, having run the smoke test of the target it chose, says that the
\* repair can be written, repair_entrypoint with that module and the same smoke test is
\* not refused; and what it calls native can be launched.
GatesAgree ==
    \A h \in Name :
        LET agree(g, e, stages) ==
                /\ g.ready => /\ e.ok /\ e.manifest.valid /\ Strategy(h, e, g.selected).ready
                              /\ SmokeGate(TRUE, TRUE, g.selected)
                              /\ "blocked" \notin {stages[s] : s \in DOMAIN stages \ {"native"}}
                /\ g.native => Callable(e.manifest) \/ e.manifest.of # h
            of(g) == agree(g, Evaluation(h, TRUE), AdaptationStages(h, g))
        IN  of(AdaptationGate(h, NoModule, TRUE, TRUE))

\* What mvp_plan recommends can be done: the next install is the first of the queue and
\* passes its gate as QueueIsInstallable says, a smoke run has an installed harness without
\* an entry point to repair, and bootstrap_plan sends to the first harness only when no
\* stage before is open.
PlansAgree ==
    /\ \A q \in Query, max \in 1..Len(market) :
          LET env == [downloaded |-> TRUE, trusted |-> TRUE, installGate |-> TRUE]
              doable(next, stages, names, queue) ==
                  /\ next = "install_next_market_harness" =>
                         /\ queue # <<>> /\ names[1] = market[queue[1]].name
                         /\ GateExpected(queue[1]) /\ stages.install = "next"
                  /\ next = "run_adapter_smoke" =>
                         /\ stages.adapt = "ready"
                         /\ \E k \in DOMAIN names :
                                /\ names[k] \in installed \ onPath
                                /\ RepairRequired(Evaluation(names[k], TRUE))
              of(m) == doable(MvpNext(m), MvpStages(m), QueuedNames(q, Len(market), max),
                              InstallQueue(q, Len(market), max).queue)
          IN  of(MvpSummary(env, q, Len(market), max, TRUE, FALSE))
    /\ \A h \in Name, q \in Query :
          LET complete(stages) ==
                  {stages[s] : s \in DOMAIN stages} \subseteq {"complete", "ready"}
              of(b) == BootstrapNext(b) = "onboard_first_market_harness" =>
                           complete(BootstrapStages(b))
              always(ok) == \A env \in Environment : of(Bootstrap(q, ok, env, TRUE))
          IN  always(Evaluation(h, hub).ok)

\* What the gates and plans made of these reports send a person to do can be done:
\* adaptation_gate against repair_entrypoint, mvp_plan and bootstrap_plan against the gates
\* of the operations they name.
PlansAreActionable == GatesAgree /\ PlansAgree
=============================================================================
