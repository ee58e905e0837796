------------------------------ MODULE Harness ------------------------------
(***************************************************************************)
(* The CLI-Anything hub, cbn_plugins/cli_anything.py: what the host, the   *)
(* market and the files say of a harness, the manifests generated for it,  *)
(* its evaluation and its gates, and the operations that write manifests,  *)
(* install harnesses and repair their entry points.                        *)
(*                                                                         *)
(* A harness name stands for its entry point command too.  Names are       *)
(* numbers because reports sort by name; two names may be sanitized to one *)
(* capability id.                                                          *)
(***************************************************************************)
EXTENDS Naturals, Sequences, FiniteSets

CONSTANTS
    Name,          \* harness names
    Query,         \* what cli-hub search is asked: the names, and other words
    NoQuery,       \* not asked: cli-hub list
    Capability,    \* capability ids, "cli-anything.<safe name>.launch"
    CapOf,         \* sanitize_harness_name: the capability of a name
    Module,        \* Python modules that may stand in for an entry point
    Importable,    \* those that can be imported
    Runnable,      \* those whose smoke run exits with 0
    Target,        \* Target[h]: modules the scan of h's package finds, best first
    MainModule,    \* MainModule[h]: the package of h that has a __main__, if one has
    Market,        \* the markets considered: sequences of records
    Answers,       \* what cli-hub may answer to each query
    Shipped,       \* manifests/ to begin with
    ShippedFixtures,
    NoRecord, NoManifest, NoModule, NoWork,
    MaxChanges     \* bound: changes made by anyone but the operator who follows advice

ASSUME NameAssumption ==
    /\ Name \subseteq Nat /\ CapOf \in [Name -> Capability]
    /\ Name \subseteq Query /\ NoQuery \in Query
ASSUME ModuleAssumption ==
    Runnable \subseteq Importable /\ Importable \subseteq Module /\ NoModule \notin Module
ASSUME TargetAssumption ==
    /\ Target \in [Name -> Seq(Module)]
    /\ MainModule \in [Name -> Importable \cup {NoModule}]

VARIABLES
    hub,        \* the cli-hub command is on PATH
    pty,        \* a PTY backend is installed
    tool,       \* the command that a "tool" requirement names is on PATH
    market,     \* the records of the market, in order
    answers,    \* which of them cli-hub list and search return, and in which shape
    installed,  \* names whose cli-hub info says "installed"
    onPath,     \* names whose entry point is on PATH
    portable,   \* manifests/<capability>.json
    overlay,    \* runtime/manifests/<capability>.json
    wrapper,    \* the module run by entrypoints/<safe name>.py, one for a capability
    fixtures,   \* <<capability, parser>>: passing parser fixtures that list it
    work,       \* an onboarding or a repair between two of its steps
    changes     \* changes made so far, up to MaxChanges

host == <<hub, pty, tool, market, answers>>
files == <<portable, overlay, wrapper, fixtures>>
vars == <<host, installed, onPath, files, work, changes>>

RiskOrder == <<"read", "write-workspace", "external-network", "privileged">>
Risk == {RiskOrder[i] : i \in 1..4}
Rank(r) == CHOOSE i \in 1..4 : RiskOrder[i] = r
MaxRisk(left, right) == IF Rank(left) >= Rank(right) THEN left ELSE right

Parser == {"cli-anything.raw", "custom"}
Manifest == [risk : Risk, confirm : BOOLEAN, parser : Parser, verified : BOOLEAN,
             valid : BOOLEAN, repair : Module \cup {NoModule}, of : Name]

\* A requirement is "none", "tool" (a package manager the probes look for), "foreign" (a
\* package that names another platform), "app" (an application no probe looks for) or
\* "account" (something only a person has).
Requirement == {"none", "tool", "foreign", "app", "account"}

\* A record of the market, with the name it displays, and what cli-hub info shows of the
\* requirement, which the record itself need not declare.
MarketRecord == [name : Name, display : Name, requires : Requirement \cup {"undeclared"},
                 info : Requirement, platform : BOOLEAN, risk : Risk]

\* cli-hub answers a query with a bare list, or with a list inside an object, of the
\* records of some names; or it fails, or prints what is neither.
Answer == [shape : {"list", "object", "error"}, found : SUBSET Name]

ASSUME MarketAssumption ==
    /\ Market \subseteq Seq(MarketRecord) /\ NoRecord \notin MarketRecord
    /\ Answers \subseteq [Query -> Answer]

\* The manifests shipped are manifests, what they say is verified has its fixtures, and
\* none starts a wrapper: a repair writes those, under runtime/.
ASSUME ShippedAssumption ==
    /\ NoManifest \notin Manifest
    /\ Shipped \in [Capability -> Manifest \cup {NoManifest}]
    /\ \A c \in Capability : Shipped[c] # NoManifest /\ Shipped[c].verified =>
           <<c, Shipped[c].parser>> \in ShippedFixtures
    /\ \A c \in Capability : Shipped[c] # NoManifest => Shipped[c].repair = NoModule

(* What the hub and the market say. *)

Listed == {market[i].name : i \in DOMAIN market}

\* The records a query finds: _market_records_from_result takes a list in either shape.
Hits(q) ==
    IF hub /\ answers[q].shape # "error"
    THEN {i \in DOMAIN market : market[i].name \in answers[q].found} ELSE {}

First(S) == CHOOSE i \in S : \A j \in S : i <= j

\* market_record_for_harness takes a bare list only: its first record of that name, else
\* the first that displays it, else the first.
RecordFor(h) ==
    LET hits == IF answers[h].shape = "list" THEN Hits(h) ELSE {}
        named == {i \in hits : CapOf[market[i].name] = CapOf[h]}
        shown == {i \in hits : CapOf[market[i].display] = CapOf[h]}
    IN  IF hits = {} THEN NoRecord
        ELSE market[First(IF named # {} THEN named ELSE IF shown # {} THEN shown ELSE hits)]

\* The requirement a record declares; an evaluation asks cli-hub info when it declares
\* none, the candidate scan does not.
Declared(record) == IF record.requires = "undeclared" THEN "none" ELSE record.requires

Requires(h, record) ==
    IF record # NoRecord /\ record.requires # "undeclared" THEN record.requires
    ELSE IF hub /\ h \in Listed
         THEN (CHOOSE r \in {market[i] : i \in DOMAIN market} : r.name = h).info
         ELSE "none"

DependencyFree(requires) == requires \in {"none", "tool", "foreign"}
ProbesBlock(requires) == requires = "account" \/ (requires = "tool" /\ ~tool)

\* _platform_assessment
OtherPlatform(record, requires) ==
    (record # NoRecord /\ ~record.platform) \/ requires = "foreign"

InferredRisk(record, requested) ==
    IF record = NoRecord THEN requested ELSE MaxRisk(requested, record.risk)

ManifestFor(name, record) ==
    LET risk == InferredRisk(record, "read")
    IN  [risk |-> risk, confirm |-> risk \in {"privileged", "external-network"},
         parser |-> "cli-anything.raw", verified |-> FALSE, valid |-> TRUE,
         repair |-> NoModule, of |-> name]

\* The file an evaluation looks at: the portable one, or what would be generated.
OnDisk(name, record) ==
    IF portable[CapOf[name]] # NoManifest THEN portable[CapOf[name]]
                                          ELSE ManifestFor(name, record)

LowRisk(man) == man.risk \in {"read", "write-workspace"} /\ ~man.confirm

(* harness_status and evaluate_harness *)

StatusOf(h, record) ==
    LET name == IF record = NoRecord THEN h ELSE record.name
        entry == IF hub /\ h \in Listed \cup installed THEN {h}
                 ELSE IF record # NoRecord THEN {record.name} ELSE {}
    IN  [record |-> record, name |-> name, cap |-> CapOf[name],
         imported |-> portable[CapOf[name]] # NoManifest,
         installed |-> hub /\ h \in installed,
         entry |-> entry # {} /\ entry \subseteq onPath]

Status(h, fromMarket) == StatusOf(h, IF fromMarket THEN RecordFor(h) ELSE NoRecord)

\* The gates of an evaluation that are closed, in the order the code tests them.
EvaluationBlockers(s, man, requires) ==
    {b \in {"cli-hub", "manifest", "policy", "requirements", "platform", "entrypoint"} :
        \/ b = "cli-hub" /\ ~hub
        \/ b = "manifest" /\ ~man.valid
        \/ b = "policy" /\ ~LowRisk(man)
        \/ b = "requirements" /\ ~DependencyFree(requires)
        \/ b = "platform" /\ OtherPlatform(s.record, requires)
        \/ b = "entrypoint" /\ s.installed /\ ~s.entry}

Advice(s, launchReady, candidate) ==
    IF launchReady THEN "call_capability"
    ELSE IF s.installed /\ ~s.entry THEN "resolve_blockers"
    ELSE IF s.installed /\ ~s.imported THEN "write_manifest"
    ELSE IF s.installed /\ ~pty THEN "install_runtime_transport"
    ELSE IF ~candidate THEN "resolve_blockers"
    ELSE IF s.imported THEN "install_harness" ELSE "write_manifest"

Assessment(ok, s, man, requires, blockers, launchReady) ==
    [ok |-> ok, status |-> s, manifest |-> man, requires |-> requires,
     blockers |-> blockers, candidate |-> blockers = {}, launchReady |-> launchReady,
     advice |-> Advice(s, launchReady, blockers = {})]

EvaluationOf(ok, s, man, requires) ==
    Assessment(ok, s, man, requires, EvaluationBlockers(s, man, requires),
               s.installed /\ s.entry /\ man.valid /\ pty)

Evaluation(h, fromMarket) ==
    LET of(s) == EvaluationOf(~fromMarket \/ s.record # NoRecord, s,
                              OnDisk(s.name, s.record), Requires(h, s.record))
    IN  of(Status(h, fromMarket))

\* probe_harness
ProbeReady(e) == e.ok /\ e.candidate /\ ~ProbesBlock(e.requires)

\* harness_operation_gate
GateOpen(action, e) ==
    \/ action = "uninstall"
    \/ /\ e.ok /\ e.blockers = {} /\ ~ProbesBlock(e.requires)
       /\ action = "update" => e.status.installed

OperationGate(action, h) == GateOpen(action, Evaluation(h, TRUE))

(* Writing manifests *)

\* Faulty variant of Preserved: the parser may have changed.
PreservedForAnyParser(existing, generated) ==
    IF existing # NoManifest /\ existing.verified
    THEN [generated EXCEPT !.verified = TRUE] ELSE generated

\* A regenerated manifest stays verified when the one on disk is, for one parser.
Preserved(existing, generated) ==
    IF existing # NoManifest /\ existing.verified /\ existing.parser = generated.parser
    THEN [generated EXCEPT !.verified = TRUE] ELSE generated

Written(name, record) ==
    Preserved(portable[CapOf[name]], ManifestFor(name, record))

WriteManifest(name, record) ==
    portable' = [portable EXCEPT ![CapOf[name]] = Written(name, record)]

\* adapt_harness with write
CanAdapt(h, fromMarket) == fromMarket => RecordFor(h) # NoRecord
AdaptWrite(h, fromMarket) ==
    LET s == Status(h, fromMarket) IN
    /\ CanAdapt(h, fromMarket)
    /\ WriteManifest(s.name, s.record)

\* sync_market with write: of the records found, within the limit, those whose
\* capability no other of them has.
Within(limit, S) == {i \in S : Cardinality({j \in S : j <= i}) <= limit}

SyncedRecords(q, limit) ==
    LET selected == Within(limit, Hits(q))
    IN  {i \in selected : \A j \in selected \ {i} : CapOf[market[j].name] # CapOf[market[i].name]}

SyncMarket(q, limit) ==
    /\ hub /\ answers[q].shape # "error"
    /\ portable' = [c \in Capability |->
           LET mine == {i \in SyncedRecords(q, limit) : CapOf[market[i].name] = c}
           IN  IF mine = {} THEN portable[c]
               ELSE LET r == market[CHOOSE i \in mine : TRUE] IN Written(r.name, r)]

(* The operations on harnesses: what cli-hub does is external *)

InstallOutcome(h) ==
    /\ hub
    /\ \/ installed' = installed \cup {h} /\ onPath' = onPath \cup {h}
       \/ installed' = installed \cup {h} /\ UNCHANGED onPath
       \/ UNCHANGED <<installed, onPath>>

HarnessOperation(action, h, allowBlocked) ==
    /\ allowBlocked \/ OperationGate(action, h)
    /\ IF action = "uninstall"
       THEN hub /\ installed' = installed \ {h} /\ onPath' = onPath \ {h}
       ELSE InstallOutcome(h)

(* onboard_harness: what it decides on its first look is carried out later, the  *)
(* install gate is evaluated after the manifest has been written                  *)

MayWrite(e, allowBlocked) == e.ok /\ (allowBlocked \/ (e.manifest.valid /\ e.blockers = {}))

OnboardWrite(h, write, allowBlocked) ==
    LET e == Evaluation(h, TRUE) IN
    /\ work = NoWork /\ e.ok
    /\ work' = [kind |-> "install", name |-> h, allowBlocked |-> allowBlocked]
    /\ IF write /\ MayWrite(e, allowBlocked) THEN AdaptWrite(h, TRUE) ELSE UNCHANGED portable
    /\ UNCHANGED <<host, installed, onPath, overlay, wrapper, fixtures>>

OnboardInstall ==
    /\ work # NoWork /\ work.kind = "install"
    /\ \/ HarnessOperation("install", work.name, work.allowBlocked)
       \/ UNCHANGED <<installed, onPath>>
    /\ work' = NoWork
    /\ UNCHANGED <<host, files, changes>>

(* entrypoint_repair_plan, repair_entrypoint *)

\* The diagnosis of an entry point that is on PATH is that no repair is required.
RepairRequired(e) == ~(e.ok /\ e.status.entry)

Strategy(h, e, module) ==
    LET chosen == IF module = NoModule THEN MainModule[h] ELSE module
    IN  [ready |-> RepairRequired(e) /\ chosen \in Importable, module |-> chosen]

SmokeOk(module) == module \in Runnable

\* Required, the smoke run of the module must have been made, and exited with 0.
SmokeGate(required, ran, module) == required => ran /\ SmokeOk(module)

Covered(capability, parser) == <<capability, parser>> \in fixtures

\* The manifest the evaluation looked at, its policy looked into again, its transport
\* replaced by the wrapper's: verified if it was, or by a smoke run and fixtures.
RepairedManifest(h, e, module, smoked) ==
    LET risk == InferredRisk(e.status.record, e.manifest.risk)
    IN  [risk |-> risk,
         confirm |-> e.manifest.confirm \/ risk \in {"privileged", "external-network"},
         parser |-> e.manifest.parser,
         verified |-> e.manifest.verified \/ (smoked /\ Covered(e.status.cap, e.manifest.parser)),
         valid |-> e.manifest.valid, repair |-> module, of |-> h]

RepairAs(h, e, strategy, requireSmoke) ==
    LET smoked == requireSmoke /\ SmokeOk(strategy.module)
    IN  /\ work = NoWork /\ e.ok /\ strategy.ready
        /\ SmokeGate(requireSmoke, TRUE, strategy.module) /\ e.manifest.valid
        /\ work' = [kind |-> "wrapper", name |-> h, cap |-> e.status.cap,
                    manifest |-> RepairedManifest(h, e, strategy.module, smoked)]
        /\ UNCHANGED <<host, installed, onPath, files>>

Repair(h, module, requireSmoke) ==
    LET as(e) == RepairAs(h, e, Strategy(h, e, module), requireSmoke)
    IN  as(Evaluation(h, TRUE))

\* The two files of a repair, replaced one after the other.
WriteWrapper ==
    /\ work # NoWork /\ work.kind = "wrapper"
    /\ wrapper' = [wrapper EXCEPT ![CapOf[work.name]] = work.manifest.repair]
    /\ work' = [work EXCEPT !.kind = "overlay"]
    /\ UNCHANGED <<host, installed, onPath, portable, overlay, fixtures, changes>>

WriteOverlay ==
    /\ work # NoWork /\ work.kind = "overlay"
    /\ overlay' = [overlay EXCEPT ![work.cap] = work.manifest]
    /\ work' = NoWork
    /\ UNCHANGED <<host, installed, onPath, portable, wrapper, fixtures, changes>>

\* A repair or an onboarding that stops between two of its steps.
Die ==
    /\ work # NoWork /\ work' = NoWork
    /\ UNCHANGED <<host, installed, onPath, files>>

(* The rest of the world *)

\* A PTY backend, a tool or a path comes or goes; the market publishes another list, or
\* its searches find something else, or fail.
HostChanges ==
    /\ \/ pty' = ~pty /\ UNCHANGED <<tool, market, answers, onPath>>
       \/ tool' = ~tool /\ UNCHANGED <<pty, market, answers, onPath>>
       \/ /\ market' \in Market /\ answers' \in Answers
          /\ <<market', answers'>> # <<market, answers>>
          /\ UNCHANGED <<pty, tool, onPath>>
       \/ \E h \in onPath :
              onPath' = onPath \ {h} /\ UNCHANGED <<pty, tool, market, answers>>
    /\ UNCHANGED <<hub, installed, files, work>>

\* Someone records fixtures of what a manifest's command prints, edits a manifest, or
\* moves an overlay to manifests/.  Who marks a manifest verified has fixtures that
\* list the capability.
AddFixture ==
    /\ \E c \in Capability : \E man \in {portable[c], overlay[c]} \ {NoManifest} :
           fixtures' = fixtures \cup {<<c, man.parser>>}
    /\ UNCHANGED <<host, installed, onPath, portable, overlay, wrapper, work>>

EditManifest ==
    /\ \E c \in Capability :
        LET man == portable[c] IN
        \/ /\ man # NoManifest
           /\ \/ portable' = [portable EXCEPT ![c].parser = "custom", ![c].verified = FALSE]
              \/ portable' = [portable EXCEPT ![c].risk = "privileged", ![c].confirm = TRUE]
              \/ portable' = [portable EXCEPT ![c].valid = ~man.valid]
              \/ /\ Covered(c, man.parser)
                 /\ portable' = [portable EXCEPT ![c].verified = TRUE]
        \/ overlay[c] # NoManifest /\ portable' = [portable EXCEPT ![c] = overlay[c]]
    /\ UNCHANGED <<host, installed, onPath, overlay, wrapper, fixtures, work>>

AnyoneElse ==
    /\ changes < MaxChanges /\ changes' = changes + 1
    /\ \/ HostChanges \/ AddFixture \/ EditManifest \/ Die
       \/ \E h \in Name, write, allowBlocked \in BOOLEAN :
              OnboardWrite(h, write, allowBlocked)
       \/ \E h \in Name, m \in Module \cup {NoModule}, smoke \in BOOLEAN :
              Repair(h, m, smoke)
       \/ \E h \in Name, action \in {"install", "update", "uninstall"}, allow \in BOOLEAN :
              /\ HarnessOperation(action, h, allow)
              /\ UNCHANGED <<host, files, work>>
       \/ \E q \in Query, limit \in 1..Len(market) :
              /\ SyncMarket(q, limit)
              /\ UNCHANGED <<host, installed, onPath, overlay, wrapper, fixtures, work>>

(* An operator who does what evaluate_harness recommends *)

Recommended(h, action) ==
    LET e == Evaluation(h, TRUE) IN e.ok /\ e.advice = action

FollowWrite(h) ==
    /\ Recommended(h, "write_manifest") /\ AdaptWrite(h, TRUE)
    /\ UNCHANGED <<host, installed, onPath, overlay, wrapper, fixtures, work, changes>>

FollowInstall(h) ==
    /\ Recommended(h, "install_harness")
    /\ HarnessOperation("install", h, FALSE)
    /\ UNCHANGED <<host, files, work, changes>>

FollowTransport(h) ==
    /\ Recommended(h, "install_runtime_transport") /\ pty' = TRUE
    /\ UNCHANGED <<hub, tool, market, answers, installed, onPath, files, work, changes>>

Init ==
    /\ hub \in BOOLEAN /\ pty \in BOOLEAN /\ tool = TRUE
    /\ market \in Market /\ answers \in Answers
    /\ installed \in {{}, Name} /\ onPath = {}
    /\ portable = Shipped
    /\ overlay = [c \in Capability |-> NoManifest]
    /\ wrapper = [c \in Capability |-> NoModule]
    /\ fixtures = ShippedFixtures /\ work = NoWork /\ changes = 0

Next ==
    \/ AnyoneElse \/ OnboardInstall \/ WriteWrapper \/ WriteOverlay
    \/ \E h \in Name : FollowWrite(h) \/ FollowInstall(h) \/ FollowTransport(h)

Spec == Init /\ [][Next]_vars

(* Properties *)

\* A manifest that says its output contract is verified has passing fixtures that list
\* its capability, for the parser it names: whatever was regenerated, synchronised,
\* repaired, edited and moved, in whatever order (_preserve_existing_parser_contract,
\* _mark_repaired_manifest_verified_from_fixtures).
VerifiedIsCovered ==
    \A c \in Capability : \A man \in {portable[c], overlay[c]} \ {NoManifest} :
        man.verified => Covered(c, man.parser)
=============================================================================
