--------------------------- MODULE HarnessReports ---------------------------
(***************************************************************************)
(* What cbn_plugins/cli_anything.py reports of the state Harness keeps:    *)
(* the candidates of the market and the queue of installs, what to do      *)
(* about the blocked ones, the verification of a harness, the gates of its *)
(* adaptation and promotion, and the plans made of all these.  Nothing     *)
(* here changes the state.  Reports are cut down to what decides: texts,   *)
(* commands and copies of other reports are left out.                      *)
(***************************************************************************)
EXTENDS Harness

Least(m, n) == IF m <= n THEN m ELSE n
Take(n, s) == SubSeq(s, 1, Least(n, Len(s)))

\* The elements of S in the order of `less', a strict total order of them: the n-th has
\* n - 1 before it.  (SetToSortSeq says it by permutations; proofs can count.)
InOrder(S, less) ==
    [n \in 1..Cardinality(S) |->
        CHOOSE x \in S : Cardinality({y \in S : <<y, x>> \in less}) = n - 1]

\* The elements of s at the positions K, in the order of s.
At(s, K) ==
    LET places == InOrder(K, {mn \in K \X K : mn[1] < mn[2]})
    IN  [n \in DOMAIN places |-> s[places[n]]]

(* _lifecycle_report, _stage_status *)

StageStatus(done, ready, blocked) ==
    IF done THEN "completed" ELSE IF blocked THEN "blocked"
    ELSE IF ready THEN "ready" ELSE "pending"

Lifecycle(c) ==
    LET blocked == c.blockers # {}
        readyForInstall == c.candidate /\ ~c.installed /\ ~blocked
    IN  [state |->
           IF c.launchReady THEN "launch_ready"
           ELSE IF c.installed /\ c.imported /\ ~pty THEN "runtime_transport_missing"
           ELSE IF blocked THEN "blocked"
           ELSE IF c.installed THEN IF c.imported THEN "installed" ELSE "installed_needs_manifest"
           ELSE IF c.imported /\ readyForInstall THEN "manifest_ready"
           ELSE IF c.candidate THEN "market_candidate" ELSE "needs_review",
         readyForInstall |-> readyForInstall,
         write |-> StageStatus(c.imported, c.advice = "write_manifest" /\ ~blocked, blocked),
         install |-> StageStatus(c.installed, c.advice = "install_harness" /\ ~blocked, blocked),
         call |-> StageStatus(FALSE, c.imported, blocked)]

(* candidate_harnesses *)

\* _candidate_from_market_record: an entry point on PATH counts as installed.
CandidateOf(record, man) ==
    LET cap == CapOf[record.name]
        requires == Declared(record)
        imported == portable[cap] # NoManifest
        entry == record.name \in onPath
        blockers == {b \in {"manifest", "policy", "requirements", "platform"} :
                        \/ b = "manifest" /\ ~man.valid
                        \/ b = "policy" /\ ~LowRisk(man)
                        \/ b = "requirements" /\ ~DependencyFree(requires)
                        \/ b = "platform" /\ OtherPlatform(record, requires)}
        launchReady == entry /\ imported /\ man.valid /\ pty
    IN  [name |-> record.name, cap |-> cap, imported |-> imported, installed |-> entry,
         launchReady |-> launchReady, blockers |-> blockers, candidate |-> blockers = {},
         advice |-> IF launchReady THEN "call_capability"
                    ELSE IF blockers # {} THEN "resolve_blockers"
                    ELSE IF imported THEN "install_harness" ELSE "write_manifest"]

Candidate(i) == CandidateOf(market[i], OnDisk(market[i].name, market[i]))

\* _mark_candidate_collisions: another record of those found has the capability too.
Collides(q, i) == \E j \in Hits(q) \ {i} : CapOf[market[j].name] = CapOf[market[i].name]

BlockedIf(holds, c, blocker) ==
    IF ~holds THEN c
    ELSE [c EXCEPT !.blockers = @ \cup {blocker}, !.candidate = FALSE,
                   !.advice = "resolve_blockers"]

Marked(q, i) == BlockedIf(Collides(q, i), Candidate(i), "collision")

\* Faulty variant of Probed: the probes are left for later.
ProbedLater(q, i) == Marked(q, i)

\* _attach_candidate_readiness
Probed(q, i) == BlockedIf(ProbesBlock(Declared(market[i])), Marked(q, i), "probe")

\* Candidates first, then the fewest blockers, then by name, then as listed.
Before(c, d, listed) ==
    LET less(m, n, otherwise) == m < n \/ (m = n /\ otherwise)
        rank(b) == IF b THEN 0 ELSE 1
    IN  less(rank(c.candidate), rank(d.candidate),
          less(Cardinality(c.blockers), Cardinality(d.blockers),
            less(c.name, d.name, listed)))

\* candidate_harnesses with probes, of what a query finds: indexes of market, best first.
Ranking(probed, hits) ==
    InOrder(hits, {ij \in hits \X hits : Before(probed[ij[1]], probed[ij[2]], ij[1] < ij[2])})

\* (Take makes a tuple of what it is given, for TLC to evaluate each report once.)
Listing(q) == Take(Len(market), [i \in DOMAIN market |-> Probed(q, i)])

Candidates(q, limit) ==
    LET of(listing) == Ranking(listing, Hits(q)) IN Take(limit, of(Listing(q)))

(* market_install_queue *)

Queues(listing, probed, evaluated, maxInstalls) ==
    LET ready(i) == probed[i].candidate /\ ~probed[i].launchReady
        installable(i) == /\ ready(i) /\ evaluated[i].ok /\ evaluated[i].candidate
                          /\ ~evaluated[i].launchReady
        blocked(i) == \/ ~probed[i].candidate
                      \/ /\ ready(i)
                         /\ ~evaluated[i].ok \/ ~(evaluated[i].launchReady \/ evaluated[i].candidate)
        of(K) == At(listing, {k \in DOMAIN listing : listing[k] \in K})
        known == {listing[k] : k \in DOMAIN listing}
        blockedOnes == {i \in known : blocked(i)}
        queue == Take(maxInstalls, of({i \in known : installable(i)}))
        queued == {queue[k] : k \in DOMAIN queue}
    IN  [queue |-> queue, blocked |-> of(blockedOnes),
         skipped |-> of(known \ (queued \cup blockedOnes))]

InstallQueue(q, limit, maxInstalls) ==
    LET evaluated == [i \in DOMAIN market |-> Evaluation(market[i].name, TRUE)]
    IN  Queues(Candidates(q, limit), Listing(q), Take(Len(market), evaluated), maxInstalls)

\* _install_queue_blocked_entry: the blockers of the candidate, and of its evaluation; a
\* candidate whose evaluation fails has neither.
BlockersOf(q, i) ==
    LET e == Evaluation(market[i].name, TRUE)
    IN  Probed(q, i).blockers \cup (IF Probed(q, i).candidate /\ e.ok THEN e.blockers ELSE {})

(* blocked_harness_plan *)

\* Faulty variant of Category, which does not know the blocker of a collision.
CategoryBeforeCollisions(blocker) ==
    CASE blocker = "entrypoint" -> {"installed-entrypoint-missing"}
      [] blocker = "policy" -> {"external-network-or-risk"}
      [] blocker \in {"requirements", "probe"} -> {"manual-dependency"}
      [] blocker = "platform" -> {"platform"}
      [] OTHER -> {}

\* _blocker_categories: which markers the text of a blocker contains.
Category(blocker) ==
    CASE blocker = "entrypoint" -> {"installed-entrypoint-missing"}
      [] blocker = "policy" -> {"external-network-or-risk"}
      [] blocker \in {"requirements", "probe"} -> {"manual-dependency"}
      [] blocker = "platform" -> {"platform"}
      [] blocker = "manifest" -> {"manifest"}
      [] blocker = "collision" -> {"manifest", "tooling"}
      [] blocker = "cli-hub" -> {"tooling"}
      [] OTHER -> {}

Categories(blockers) ==
    LET known == UNION {Category(b) : b \in blockers}
    IN  IF known = {} /\ blockers # {} THEN {"unknown"} ELSE known

\* _blocked_recommended_next_action
BlockedNextAction(categories) ==
    IF "installed-entrypoint-missing" \in categories THEN "repair_entrypoint_or_market_metadata"
    ELSE IF "external-network-or-risk" \in categories THEN "review_and_accept_external_network_risk"
    ELSE IF "manual-dependency" \in categories THEN "install_or_configure_manual_dependency"
    ELSE IF "platform" \in categories THEN "use_compatible_platform"
    ELSE IF "manifest" \in categories THEN "fix_manifest_or_market_metadata"
    ELSE "inspect_blockers"

\* _blocked_harness_decision
DecisionOn(categories) ==
    LET entryMissing == "installed-entrypoint-missing" \in categories
    IN  [categories |-> categories, ready |-> categories # {},
         manual |-> categories \cap {"manual-dependency", "installed-entrypoint-missing",
                                     "platform", "manifest"} # {},
         override |-> categories # {} /\ ~entryMissing,
         next |-> BlockedNextAction(categories)]
Decision(blockers) == DecisionOn(Categories(blockers))

\* blocked_harness_plan, of the install queue or of harnesses that are named.
BlockedPlan(q, limit) ==
    LET plan(blocked) == [k \in DOMAIN blocked |-> Decision(BlockersOf(q, blocked[k]))]
    IN  plan(InstallQueue(q, limit, 100).blocked)
NamedPlan(h) == LET e == Evaluation(h, TRUE) IN Decision(IF e.ok THEN e.blockers ELSE {})

(* verify_harness *)

\* The registry loads manifests/, then runtime/manifests over it.
Effective(cap) == IF overlay[cap] # NoManifest THEN overlay[cap] ELSE portable[cap]

Source(cap) ==
    IF overlay[cap] # NoManifest THEN "runtime_local_overlay"
    ELSE IF portable[cap] # NoManifest THEN "current_registry" ELSE "generated_preview"

\* The manifest in force, or else the one that would be generated.
InForce(e) ==
    IF Effective(e.status.cap) # NoManifest THEN Effective(e.status.cap) ELSE e.manifest

RepairActive(man) == man.repair # NoModule

\* Faulty variant of VerificationBlockers: a repaired harness needs no transport.
VerificationBlockersWithoutTransport(e, smoke) ==
    LET repaired == RepairActive(InForce(e)) IN
    (IF repaired THEN e.blockers \ {"entrypoint"} ELSE e.blockers) \cup
    {b \in {"probes", "not imported", "not installed", "launch", "smoke"} :
        \/ b = "probes" /\ ProbesBlock(e.requires)
        \/ b = "not imported" /\ Effective(e.status.cap) = NoManifest
        \/ b = "not installed" /\ ~e.status.installed
        \/ b = "launch" /\ ~e.launchReady /\ ~repaired
        \/ b = "smoke" /\ smoke = "failed"}

\* _verification_blockers, and the smoke suite if it was run: "not_run", "passed", "failed".
VerificationBlockers(e, smoke) ==
    LET repaired == RepairActive(InForce(e)) IN
    (IF repaired THEN e.blockers \ {"entrypoint"} ELSE e.blockers) \cup
    {b \in {"probes", "not imported", "not installed", "transport", "launch", "smoke"} :
        \/ b = "probes" /\ ProbesBlock(e.requires)
        \/ b = "not imported" /\ Effective(e.status.cap) = NoManifest
        \/ b = "not installed" /\ ~e.status.installed
        \/ b = "transport" /\ ~pty
        \/ b = "launch" /\ ~e.launchReady /\ ~repaired
        \/ b = "smoke" /\ smoke = "failed"}

VerificationOf(e, smoke) ==
    [ok |-> e.ok, evaluation |-> e, blockers |-> VerificationBlockers(e, smoke),
     readyForWrite |-> e.manifest.valid /\ e.blockers = {},
     ready |-> e.ok /\ VerificationBlockers(e, smoke) = {}]
Verification(h, smoke) == VerificationOf(Evaluation(h, TRUE), smoke)

\* _verification_stages
VerificationStages(v, smoke) ==
    LET e == v.evaluation
        done(b, otherwise) == IF b THEN "completed" ELSE otherwise
        imported == Effective(e.status.cap) # NoManifest
    IN  [probe    |-> done(~ProbesBlock(e.requires), "blocked"),
         write    |-> done(imported, "ready"),
         validate |-> done(e.manifest.valid, "blocked"),
         install  |-> done(e.status.installed, "pending"),
         dryRun   |-> IF imported THEN "ready" ELSE "blocked",
         parser   |-> done(InForce(e).verified, "pending"),
         smoke    |-> CASE smoke = "passed" -> "completed"
                        [] smoke = "failed" -> "failed"
                        [] OTHER -> IF e.launchReady THEN "ready" ELSE "blocked"]
=============================================================================
