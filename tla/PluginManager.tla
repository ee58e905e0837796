---------------------------- MODULE PluginManager ----------------------------
(***************************************************************************)
(* The plugin manager, cbn_plugins/manager.py, and the way the daemon and  *)
(* the command line drive it: preflight, provenance and update reports,    *)
(* the gate of an install or update, its plan, and its execution, which    *)
(* comes after the gate, under the lock of the plugin's directory.  The    *)
(* execution is told in detail by PluginOperation; here a command succeeds *)
(* or fails at once and what counts is what the host looks like then.      *)
(***************************************************************************)
EXTENDS PluginCatalog

CONSTANTS
    Op,           \* requests to install or update the plugin, or to install a PTY backend
    OwnManifest,  \* manifests of the plugin: [version, operations]
    Windows,      \* the host is Windows
    Free,         \* no request
    MaxChanges    \* bound: changes made by people

ASSUME WindowsAssumption == Windows \in BOOLEAN
ASSUME ManifestAssumption == \A m \in OwnManifest : m.operations \in Seq(OperationRecord)

VARIABLES
    tools,     \* what works of "git", "pip" and "dir", the writable external_plugins
    repo,      \* external_plugins/<plugin>/repo
    packages,  \* the pip package is installed
    entry,     \* its entry point is on PATH
    winpty,    \* a PTY backend is there
    own,       \* the registered manifest
    request,   \* request[o]
    lock,      \* who holds external_plugins/<plugin> and external_plugins/.runtime/pty
    changes

host == <<tools, repo, packages, entry, winpty, own>>
vars == <<host, request, lock, changes>>

\* "plain" is a directory that is no git checkout, "partial" what a killed clone leaves,
\* "theirs" a checkout of another remote.
Repo == {"absent", "plain", "partial", "ours", "theirs"}
IsGit == repo \in {"partial", "ours", "theirs"}
Trusted == repo \in {"partial", "ours"}

(* Reports *)

\* PluginManager._is_installed
IsInstalled == repo # "absent" \/ entry

\* PluginManager.preflight: only the checks of severity "error" count.
PreflightChecks ==
    [python |-> TRUE, pip |-> "pip" \in tools, git |-> "git" \in tools, dir |-> "dir" \in tools]
PreflightReady == \A c \in DOMAIN PreflightChecks : PreflightChecks[c]

\* PluginManager._repo_provenance: without git nothing is known of the remote, and an
\* unknown remote is not the expected one.
RepoProvenance ==
    [exists |-> repo # "absent", git |-> IsGit,
     matches |-> IF ~IsGit THEN "unknown"
                 ELSE IF "git" \in tools /\ Trusted THEN "yes" ELSE "no"]

\* PluginManager.provenance: "trusted" is unknown as long as there is nothing to trust.
Provenance ==
    LET r == RepoProvenance IN
    [downloaded |-> r.exists /\ r.git,
     trusted |-> IF ~r.exists THEN "unknown"
                 ELSE IF r.git /\ r.matches = "yes" THEN "yes" ELSE "no",
     entrypoints |-> entry,
     blockers |-> {b \in {"not git", "other remote"} :
                      \/ b = "not git" /\ r.exists /\ ~r.git
                      \/ b = "other remote" /\ r.matches = "no" /\ "git" \in tools}]

\* Faulty variant of UpdateBlockers: any checkout may be updated.
UpdateBlockersUntrusted ==
    IF ~RepoProvenance.exists THEN {"not downloaded"}
    ELSE IF ~RepoProvenance.git THEN {"not git"} ELSE {}

\* PluginManager.update_check
UpdateBlockers ==
    LET r == RepoProvenance IN
    IF ~r.exists THEN {"not downloaded"} ELSE IF ~r.git THEN {"not git"}
    ELSE IF r.matches = "no" THEN {"not trusted"} ELSE {}

\* Faulty variant of GateBlockers: an update is gated like an install.
GateBlockersOfTools(action) == {c \in DOMAIN PreflightChecks : ~PreflightChecks[c]}

\* PluginManager.operation_gate
GateBlockers(action) ==
    {c \in DOMAIN PreflightChecks : ~PreflightChecks[c]} \cup
    (IF action # "update" THEN {} ELSE
     {b \in {"not downloaded", "not trusted"} :
         \/ b = "not downloaded" /\ ~Provenance.downloaded
         \/ b = "not trusted" /\ Provenance.trusted = "no"})

\* CliAnythingHub._environment_verification
EnvironmentOk == PreflightReady /\ Provenance.trusted # "no" /\ UpdateBlockers = {}

\* PluginManager.runtime_transport_status, runtime_transport_gate
TransportGate == winpty \/ (Windows /\ "pip" \in tools)

GateOf(action) ==
    IF action = "transport" THEN TransportGate ELSE GateBlockers(action) = {}

(* Plans *)

\* PluginManager.plan: the packages first, then the source, then perhaps the Codex skill,
\* whose failure does not count.
Plan(action, skill) ==
    <<"pip", IF action = "install" THEN "clone" ELSE "pull">>
    \o IF skill THEN <<"skill">> ELSE <<>>

\* PluginManager.runtime_transport_plan
TransportPlan == IF ~winpty /\ Windows THEN <<"winpty">> ELSE <<>>

PlanOf(action, skill) == IF action = "transport" THEN TransportPlan ELSE Plan(action, skill)

\* What the plans say can be verified afterwards.
VerificationCommands(action) ==
    LET command(verb) == [verb |-> verb, flags |-> {}] IN
    IF action = "transport" THEN <<command("runtime-transport"), command("smoke-suite")>>
    ELSE <<command("provenance"), command("status"), command("check-update"),
           command("market"), command("bootstrap-plan")>>

\* PluginManager.verify_plan, whose commands succeed.
VerifyPlan(action, run) ==
    LET commands == VerificationCommands(action)
    IN  VerificationReport(commands, run, DOMAIN commands)

(* Requests: POST /plugins/execute, cbn plugin install and update *)

\* What a request remembers: where the source was when its gate was evaluated, and
\* whether a person has touched it since.
Ask(o, action, skill, override) ==
    /\ request[o].state = "none"
    /\ LET open == (override /\ action # "transport") \/ GateOf(action)
       IN  request' = [request EXCEPT ![o] =
               [state |-> IF open THEN "planned" ELSE "refused", action |-> action,
                plan |-> IF open THEN PlanOf(action, skill) ELSE <<>>,
                override |-> override, found |-> repo, touched |-> FALSE]]
    /\ UNCHANGED <<host, lock, changes>>

\* The directory of a plan, whose lock its execution holds.
DirOf(action) == IF action = "transport" THEN "runtime" ELSE "plugin"

\* PluginOperationRunner.execute: the lock is taken or the request is turned away.
Enter(o) ==
    LET dir == DirOf(request[o].action) IN
    /\ request[o].state = "planned"
    /\ IF lock[dir] = Free
       THEN /\ lock' = [lock EXCEPT ![dir] = o]
            /\ request' = [request EXCEPT ![o].state = "running"]
       ELSE UNCHANGED lock /\ request' = [request EXCEPT ![o].state = "blocked"]
    /\ UNCHANGED <<host, changes>>

\* What a command does to the host when it succeeds, and when it fails.
Done(command) ==
    CASE command = "pip"    -> /\ "pip" \in tools /\ packages' = TRUE
                               /\ entry' \in {entry, TRUE} /\ UNCHANGED <<repo, winpty>>
      [] command = "clone"  -> /\ repo' = IF repo = "absent" THEN "ours" ELSE repo
                               /\ repo = "absent" => "git" \in tools
                               /\ UNCHANGED <<packages, entry, winpty>>
      [] command = "pull"   -> /\ "git" \in tools /\ repo \in {"ours", "theirs"}
                               /\ UNCHANGED <<repo, packages, entry, winpty>>
      [] command = "skill"  -> UNCHANGED <<repo, packages, entry, winpty>>
      [] command = "winpty" -> /\ "pip" \in tools /\ winpty' = TRUE
                               /\ UNCHANGED <<repo, packages, entry>>

Failed(command) ==
    /\ command = "clone" => repo = "absent"
    /\ repo' \in IF command = "clone" THEN {"absent", "partial"} ELSE {repo}
    /\ UNCHANGED <<packages, entry, winpty>>

\* Faulty variant of Step: a failure is recorded and the plan goes on.
StepPastFailure(o) ==
    LET r == request[o] IN
    /\ r.state = "running" /\ r.plan # <<>>
    /\ Done(Head(r.plan)) \/ Failed(Head(r.plan))
    /\ request' = [request EXCEPT ![o].plan = Tail(@)]
    /\ UNCHANGED <<tools, own, lock, changes>>

\* The next command of the plan; a failure ends the request unless it is optional.
Step(o) ==
    LET r == request[o] IN
    /\ r.state = "running" /\ r.plan # <<>>
    /\ \/ /\ Done(Head(r.plan))
          /\ request' = [request EXCEPT ![o].plan = Tail(@)]
       \/ /\ Failed(Head(r.plan))
          /\ request' = [request EXCEPT
                 ![o].plan = IF Head(@) = "skill" THEN Tail(@) ELSE @,
                 ![o].state = IF Head(r.plan) = "skill" THEN @ ELSE "failing"]
    /\ UNCHANGED <<tools, own, lock, changes>>

Finish(o) ==
    LET r == request[o] IN
    /\ r.state = "failing" \/ (r.state = "running" /\ r.plan = <<>>)
    /\ lock' = [lock EXCEPT ![DirOf(r.action)] = Free]
    /\ request' = [request EXCEPT
           ![o].state = IF @ = "failing" THEN "failed" ELSE "completed"]
    /\ UNCHANGED <<host, changes>>

\* A person changes the host, the directory of the plugin or the registered manifest.
PeopleChange ==
    /\ changes < MaxChanges /\ changes' = changes + 1
    /\ \/ \E t \in {"git", "pip", "dir"} :
              /\ tools' = IF t \in tools THEN tools \ {t} ELSE tools \cup {t}
              /\ UNCHANGED <<repo, packages, entry, winpty, own, request>>
       \/ /\ repo' \in Repo \ {repo}
          /\ request' = [o \in Op |-> [request[o] EXCEPT !.touched = TRUE]]
          /\ UNCHANGED <<tools, packages, entry, winpty, own>>
       \/ /\ own' \in OwnManifest \ {own}
          /\ UNCHANGED <<tools, repo, packages, entry, winpty, request>>
    /\ UNCHANGED lock

Init ==
    /\ tools \in {{"git", "pip", "dir"}, {"pip", "dir"}}
    /\ repo \in Repo /\ packages = FALSE /\ entry \in BOOLEAN /\ winpty \in BOOLEAN
    /\ own \in OwnManifest
    /\ request = [o \in Op |-> [state |-> "none", action |-> "none", plan |-> <<>>,
                                override |-> FALSE, found |-> "absent", touched |-> FALSE]]
    /\ lock = [dir \in {"plugin", "runtime"} |-> Free] /\ changes = 0

Next ==
    \/ PeopleChange
    \/ \E o \in Op :
        \/ \E action \in {"install", "update", "transport"}, skill, override \in BOOLEAN :
               Ask(o, action, skill, override)
        \/ Enter(o) \/ Step(o) \/ Finish(o)

Spec == Init /\ [][Next]_vars

(* Properties *)

\* An update whose gate was open, and during which no person touches the directory, pulls
\* in a checkout of the expected remote: though the gate is evaluated before the lock is
\* taken (server.py, /plugins/execute), no other request can have made it stale.
UpdatesPullTrusted ==
    \A o \in Op :
        LET r == request[o] IN
        r.state = "running" /\ r.plan # <<>> /\ Head(r.plan) = "pull" /\ ~r.override /\ ~r.touched
            => Trusted

\* An install that completes where there was nothing, or a whole checkout, leaves a plugin
\* that an update is let in to: whatever other requests did in the meantime.  (Where a
\* killed clone left its remains, or another directory was in the way, it does not.)
CompletedInstallsCanUpdate ==
    \A o \in Op :
        LET r == request[o] IN
        r.state = "completed" /\ r.action = "install" /\ ~r.touched
            /\ r.found \in {"absent", "ours"} /\ PreflightReady
            => packages /\ GateBlockers("update") = {} /\ EnvironmentOk

\* The reports of one host agree: update_check, the update gate and the environment of the
\* hub's plans accept the same sources, what blocks provenance blocks an update, and a
\* transport whose gate is open is there or has a plan that installs it.
ReportsAgree ==
    /\ PreflightReady => /\ (GateBlockers("update") = {}) <=> (UpdateBlockers = {})
                         /\ EnvironmentOk <=> (UpdateBlockers = {})
    /\ Provenance.blockers # {} => UpdateBlockers # {} /\ ~EnvironmentOk
    /\ Provenance.downloaded => IsInstalled
    /\ TransportGate => winpty \/ TransportPlan # <<>>

\* The bundled plugin's catalog with the operations a manifest declares.
Bundled == TRUE
BuiltIn == LET all == GenericOperations(Bundled) \o ProviderOperations(Bundled)
           IN  {Enriched(all[k]) : k \in DOMAIN all}

Confirms(operation, errors, builtIn) ==
    \A given \in SUBSET {"harness", "module", "confirmed"},
       answer \in {"true", "false", "falsy"}, confirmed \in BOOLEAN :
        LET plan == OperationPlan(errors, operation, given, answer, confirmed) IN
        /\ plan.ready /\ HasEffects(operation.kind) =>
              /\ confirmed
              /\ \/ plan.request.method = "none"
                 \/ /\ plan.request.method = "POST"
                    /\ CarriedOut(plan.request) \/ operation.says \in {"asked", "falsy"}
        /\ plan.ready /\ builtIn /\ ~confirmed => plan.request.confirmed = "absent"

SafeManifest(m) ==
    LET catalog == Catalog(Bundled, m.operations)
        generic == GenericOperations(Bundled)
        errors == CatalogErrors(m.version, catalog)
        builtIn == {k \in DOMAIN catalog : catalog[k] \in BuiltIn}
    IN  /\ \A k \in DOMAIN catalog : Confirms(catalog[k], errors, k \in builtIn)
        /\ \A k \in DOMAIN generic : catalog[k] = Enriched(generic[k])
        /\ \A k \in builtIn : HasEffects(catalog[k].kind) => ~SafeToRun(catalog[k].command)

\* A plan of an operation with effects is ready for dispatch only if the caller confirmed
\* it, and its request is one that the daemon carries out, unless the manifest asks the
\* caller or writes a falsy literal other than false (which passes the validation, and the
\* daemon refuses); a built-in one without effects posts no confirmation, no manifest
\* replaces a generic operation, no operation with effects that the code itself offers
\* passes for a verification, and those of every plan do.
\* No request changes the registered manifest: the catalog is looked at while there is none.
CatalogIsSafe ==
    (\A o \in Op : request[o].state = "none") =>
        /\ SafeManifest(own)
        /\ \A action \in {"install", "update", "transport"} : VerifyPlan(action, TRUE).ready
==============================================================================
