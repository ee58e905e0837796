------------------------- MODULE SurfacesProofs -------------------------
(***************************************************************************)
(* The facades, the workflow packages and the acceptance reports tell the  *)
(* truth, for every workspace, every number of servers, requests and jobs, *)
(* and every mix of them.  Each surface has an inductive invariant of its  *)
(* own: DaemonIInv, ReportIInv, PackageIInv and ServerIInv.                *)
(***************************************************************************)
EXTENDS Surfaces, FiniteSetTheorems, SequenceTheorems, WellFoundedInduction, TLAPS

(* The workspace *)

RuntimeType == [manifest : [Capability -> Manifest], edition : Nat]

\* What people and processes find in the workspace.
WorkspaceTypeOK ==
    /\ manifest \in [Capability -> Manifest] /\ edition \in Nat /\ document \in Document
    /\ granted \subseteq Capability /\ stimuli \in Nat /\ mix \in Mix

\* build_runtime: the manifests a process loads are those of the workspace.
LEMMA RuntimeOfType == WorkspaceTypeOK => Runtime \in RuntimeType
  BY DEF WorkspaceTypeOK, Runtime, RuntimeType

\* A behaviour starts with a well-formed workspace.
LEMMA WorkspaceInit == Init => WorkspaceTypeOK
  <1> SUFFICES ASSUME Init PROVE WorkspaceTypeOK
    OBVIOUS
  <1>1. mix \in Mix /\ stimuli = mix.stimuli /\ InitWorkspace(mix.manifests)
    BY DEF Init
  <1>2. mix.stimuli \in Nat /\ mix.manifests \subseteq Manifest
    BY <1>1, MixAssumption
  <1>3. manifest \in [Capability -> Manifest]
    BY <1>1, <1>2 DEF InitWorkspace
  <1>4. Task \in Document
    BY WorkspaceAssumption DEF Document
  <1>5. QED
    BY <1>1, <1>2, <1>3, <1>4 DEF InitWorkspace, WorkspaceTypeOK

\* What the steps other than those of people do to the workspace.
Calls == granted' \subseteq granted /\ UNCHANGED <<manifest, edition, document, stimuli>>
Stimulates == Stimulus /\ UNCHANGED <<manifest, edition, document, granted>>

\* A stdio server only uses up approvals, and only its clients count as stimuli.
LEMMA ServerLeaves ==
    ASSUME NEW s \in Server,
           \/ StartServer(s) \/ Send(s) \/ Refill(s) \/ RefuseLine(s) \/ Handle(s)
           \/ BeginCall(s) \/ ProgramReads(s) \/ EndCall(s)
    PROVE  Calls \/ Stimulates
  <1>1. CASE StartServer(s)
    BY <1>1 DEF StartServer, workspace, Calls
  <1>2. CASE Send(s)
    BY <1>2 DEF Send, Stimulates
  <1>3. CASE Refill(s)
    BY <1>3 DEF Refill, workspace, Calls
  <1>4. CASE Handle(s)
    BY <1>4 DEF Handle, workspace, Calls
  <1>5. CASE BeginCall(s)
    <2>1. UNCHANGED <<manifest, edition, document, stimuli>>
      BY <1>5 DEF BeginCall
    <2>2. granted' \subseteq granted
      BY <1>5 DEF BeginCall, UseApproval
    <2>3. QED
      BY <2>1, <2>2 DEF Calls
  <1>6. CASE ProgramReads(s)
    BY <1>6 DEF ProgramReads, workspace, Calls
  <1>7. CASE EndCall(s)
    BY <1>7 DEF EndCall, workspace, Calls
  <1>8. CASE RefuseLine(s)
    BY <1>8 DEF RefuseLine, workspace, Calls
  <1>9. QED
    BY <1>1, <1>2, <1>3, <1>4, <1>5, <1>6, <1>7, <1>8

\* A handler thread of the daemon only uses up approvals; an arriving request is a stimulus.
LEMMA DaemonLeaves ==
    ASSUME NEW r \in Request,
           \/ Arrive(r) \/ LookForEnv(r) \/ MakeEnv(r) \/ PostCall(r) \/ SendMessage(r)
           \/ SendWorkflowMessage(r) \/ Respond(r) \/ CancelTask(r) \/ StoreSecret(r)
    PROVE  Calls \/ Stimulates
  <1>1. CASE Arrive(r)
    BY <1>1 DEF Arrive, Stimulates
  <1>2. CASE LookForEnv(r)
    BY <1>2 DEF LookForEnv, workspace, Calls
  <1>3. CASE MakeEnv(r)
    BY <1>3 DEF MakeEnv, workspace, Calls
  <1>4. ASSUME NEW kind, NEW runtime, NEW confirmed, NEW approval,
               Call(r, kind, runtime, confirmed, approval)
        PROVE  Calls
    <2>1. UNCHANGED <<manifest, edition, document, stimuli>>
      BY <1>4 DEF Call
    <2>2. granted' \subseteq granted
      BY <1>4 DEF Call, UseApproval
    <2>3. QED
      BY <2>1, <2>2 DEF Calls
  <1>5. CASE PostCall(r)
    BY <1>4, <1>5 DEF PostCall
  <1>6. CASE SendMessage(r)
    BY <1>4, <1>6 DEF SendMessage
  <1>7. CASE SendWorkflowMessage(r)
    BY <1>7 DEF SendWorkflowMessage, workspace, Calls
  <1>8. CASE Respond(r)
    BY <1>8 DEF Respond, workspace, Calls
  <1>9. CASE CancelTask(r)
    BY <1>9 DEF CancelTask, workspace, Calls
  <1>10. CASE StoreSecret(r)
    BY <1>10 DEF StoreSecret, workspace, Calls
  <1>11. QED
    BY <1>1, <1>2, <1>3, <1>5, <1>6, <1>7, <1>8, <1>9, <1>10

\* Compiling and running a package leaves the workspace; that one begins is a stimulus.
LEMMA PackageLeaves ==
    ASSUME NextPackage
    PROVE  Calls \/ Stimulates
  <1>1. PICK j \in Job : \/ BeginCompile(j) \/ RejectCompile(j) \/ WriteFile(j) \/ KillCompile(j)
                         \/ BeginRun(j) \/ Load(j) \/ VerifyLock(j) \/ RunTasks(j) \/ Record(j)
    BY DEF NextPackage
  <1>2. CASE BeginCompile(j) \/ RejectCompile(j)
    BY <1>2 DEF BeginCompile, RejectCompile, Begin, Stimulates
  <1>3. CASE WriteFile(j)
    BY <1>3 DEF WriteFile, workspace, Calls
  <1>4. CASE KillCompile(j)
    BY <1>4 DEF KillCompile, workspace, Calls
  <1>5. CASE BeginRun(j)
    BY <1>5 DEF BeginRun, Begin, Stimulates
  <1>6. CASE Load(j)
    BY <1>6 DEF Load, workspace, Calls
  <1>7. CASE VerifyLock(j)
    BY <1>7 DEF VerifyLock, workspace, Calls
  <1>8. CASE RunTasks(j)
    BY <1>8 DEF RunTasks, workspace, Calls
  <1>9. CASE Record(j)
    BY <1>9 DEF Record, workspace, Calls
  <1>10. QED
    BY <1>1, <1>2, <1>3, <1>4, <1>5, <1>6, <1>7, <1>8, <1>9

\* An acceptance report leaves the workspace; that one begins, or routes change, is a stimulus.
LEMMA AcceptanceLeaves ==
    ASSUME NEW mappings, NextAcceptance(mappings)
    PROVE  Calls \/ Stimulates
  <1>1. CASE EditRoutes(mappings)
    BY <1>1 DEF EditRoutes, Stimulates
  <1>2. CASE BeginReport
    BY <1>2 DEF BeginReport, Stimulates
  <1>3. CASE ReadContract
    BY <1>3 DEF ReadContract, workspace, Calls
  <1>4. CASE ReadReadiness
    BY <1>4 DEF ReadReadiness, workspace, Calls
  <1>5. CASE RunWorkflow
    BY <1>5 DEF RunWorkflow, workspace, Calls
  <1>6. QED
    BY <1>1, <1>2, <1>3, <1>4, <1>5 DEF NextAcceptance

\* Editions only grow, and what people write are versions of a manifest.
LEMMA WorkspaceNext ==
    ASSUME WorkspaceTypeOK, [Next]_vars
    PROVE  WorkspaceTypeOK' /\ edition <= edition'
  <1>1. ASSUME UNCHANGED mix, Calls \/ Stimulates
        PROVE  WorkspaceTypeOK' /\ edition <= edition'
    BY <1>1 DEF WorkspaceTypeOK, Calls, Stimulates, Stimulus
  <1>2. ASSUME UNCHANGED mix, PeopleEdit(mix.manifests)
        PROVE  WorkspaceTypeOK' /\ edition <= edition'
    <2>1. mix.manifests \subseteq Manifest
      BY MixAssumption DEF WorkspaceTypeOK
    <2>2. manifest' \in [Capability -> Manifest]
      BY <1>2, <2>1 DEF PeopleEdit, WorkspaceTypeOK
    <2>3. document' \in Document /\ edition' \in Nat /\ edition <= edition'
      BY <1>2 DEF PeopleEdit, WorkspaceTypeOK
    <2>4. QED
      BY <1>2, <2>2, <2>3 DEF PeopleEdit, Stimulus, WorkspaceTypeOK
  <1>3. ASSUME UNCHANGED mix, PeopleApprove
        PROVE  WorkspaceTypeOK' /\ edition <= edition'
    BY <1>3 DEF PeopleApprove, Stimulus, WorkspaceTypeOK
  <1>4. CASE UNCHANGED vars
    BY <1>4 DEF vars, workspace, WorkspaceTypeOK
  <1>5. CASE Next
    <2>1. UNCHANGED mix
      BY <1>5 DEF Next
    <2>2. \/ PeopleEdit(mix.manifests) \/ PeopleApprove \/ NextServers(mix.used \cap Server)
          \/ NextDaemon \/ NextPackage \/ NextAcceptance(mix.mappings)
      BY <1>5 DEF Next
    <2>3. NextServers(mix.used \cap Server) => Calls \/ Stimulates
      BY ServerLeaves DEF NextServers
    <2>4. NextDaemon => Calls \/ Stimulates
      BY DaemonLeaves DEF NextDaemon
    <2>5. QED
      BY <1>1, <1>2, <1>3, <2>1, <2>2, <2>3, <2>4, PackageLeaves, AcceptanceLeaves
  <1>6. QED
    BY <1>4, <1>5

(* The daemon *)

RequestType ==
    [at : {"none", "env", "making", "ready", "ran", "done"},
     kind : {"none", "call", "a2a", "cancel", "secret"},
     target : Capability \cup {"none", "workflow"}, runtime : RuntimeType, since : Nat,
     after : SUBSET Request, made : BOOLEAN, secret : BOOLEAN,
     result : {"none", "good", "failed", "refused", "broken"}, status : {0, 200, 403, 500, 502}]

\* The requests that made a dictionary, that are done, and that stored a secret.
MadeOf(requests) == {r \in Request : requests[r].made}
DoneOf(requests) == {r \in Request : requests[r].at = "done"}
StoredOf(requests) == {r \in Request : requests[r].kind = "secret"}

\* What a request may count on at each place: a dictionary once it is ready, and that the
\* secrets stored before it reach it, unless two dictionaries were made.
RequestOK(q, made, e, done, stored, now) ==
    /\ q \in RequestType
    /\ q.at \in {"ready", "ran", "done"} => e # NoEnv
    /\ q.at \in {"none", "env"} => ~q.made
    /\ q.at \in {"none", "env", "making", "ready"} => q.kind = "none" /\ q.result = "none"
    /\ q.after \subseteq done /\ (q.after # {} => ~q.made)
    /\ (q.at \in {"ready", "ran", "done"} /\ q.kind \in {"none", "call"} /\ q.after \cap stored # {})
          => q.secret \/ \E m, n \in made : m # n
    /\ q.since <= now /\ q.since <= q.runtime.edition
    /\ (/\ q.result \in {"good", "failed"}
        /\ q.kind = "a2a" /\ q.target # "workflow") => ~q.runtime.manifest[q.target].held

\* The inductive invariant of the daemon.
DaemonIInv ==
    /\ request \in [Request -> RequestType]
    /\ \A r \in Request : RequestOK(request[r], MadeOf(request), env, DoneOf(request),
                                    StoredOf(request), edition)
    /\ IsFiniteSet(MadeOf(request))
    /\ env \in MadeOf(request) \cup {NoEnv} /\ secrets \subseteq MadeOf(request)
    /\ StoredOf(request) # {} => secrets # {}
    /\ StoredOf(request) \subseteq DoneOf(request)
    /\ \A r \in Request : request[r].at = "making" => request[r].made
    /\ \A r \in Request : task[r] # "none" => /\ request[r].at = "done"
                                              /\ task[r] = TaskState(request[r].result)
                                              /\ request[r].result # "broken"
    /\ task \in [Request -> {"none", "TASK_STATE_REJECTED", "TASK_STATE_FAILED", "TASK_STATE_COMPLETED"}]

\* At the start there is no request, no dictionary of secrets and no task.
LEMMA DaemonInit == Init => DaemonIInv
  <1> SUFFICES ASSUME Init PROVE DaemonIInv
    OBVIOUS
  <1>1. WorkspaceTypeOK /\ Runtime \in RuntimeType
    BY WorkspaceInit, RuntimeOfType
  <1> DEFINE none == [at |-> "none", kind |-> "none", target |-> "none",
            runtime |-> Runtime, since |-> 0, after |-> {}, made |-> FALSE, secret |-> FALSE,
            result |-> "none", status |-> 0]
  <1>2. request = [r \in Request |-> none] /\ env = NoEnv /\ secrets = {}
        /\ task = [r \in Request |-> "none"]
    BY DEF Init, InitFacades
  <1>3. none \in RequestType
    BY <1>1 DEF RequestType
  <1>4. MadeOf(request) = {} /\ StoredOf(request) = {}
    BY <1>2 DEF MadeOf, StoredOf
  <1>5. \A m, h, d, s : RequestOK(none, m, h, d, s, edition)
    BY <1>1, <1>3 DEF RequestOK, WorkspaceTypeOK, RuntimeType
  <1> HIDE DEF none
  <1>6. \A r \in Request : request[r] = none
    BY <1>2
  <1>7. none.at = "none"
    BY DEF none
  <1>8. request \in [Request -> RequestType]
    BY <1>2, <1>3
  <1>9. QED
    BY <1>2, <1>4, <1>5, <1>6, <1>7, <1>8, FS_EmptySet DEF DaemonIInv

\* A step of one request, which was not done, is all right if what it becomes is.
LEMMA RequestStep ==
    ASSUME DaemonIInv, WorkspaceTypeOK, edition' \in Nat, edition <= edition',
           NEW r \in Request, NEW q, request' = [request EXCEPT ![r] = q],
           request[r].at # "done", request[r].made => q.made,
           q.kind = "secret" => q.at = "done" /\ secrets' # {},
           q.at = "making" => q.made,
           env' \in MadeOf(request') \cup {NoEnv}, env # NoEnv => env' # NoEnv,
           secrets \subseteq secrets', secrets' \subseteq MadeOf(request'),
           RequestOK(q, MadeOf(request'), env', DoneOf(request'), StoredOf(request'), edition'),
           \/ task' = task
           \/ /\ task' = [task EXCEPT ![r] = TaskState(q.result)]
              /\ q.at = "done" /\ q.result # "broken"
              /\ TaskState(q.result) \in {"TASK_STATE_REJECTED", "TASK_STATE_FAILED", "TASK_STATE_COMPLETED"}
    PROVE  DaemonIInv'
  <1>1. /\ request \in [Request -> RequestType] /\ q \in RequestType
        /\ request'[r] = q /\ \A p \in Request \ {r} : request'[p] = request[p]
    BY DEF DaemonIInv, RequestOK
  <1>2. request' \in [Request -> RequestType]
    BY <1>1
  <1>3. /\ MadeOf(request) \subseteq MadeOf(request')
        /\ MadeOf(request') \subseteq MadeOf(request) \cup {r}
        /\ DoneOf(request) \subseteq DoneOf(request')
        /\ StoredOf(request') \cap DoneOf(request) \subseteq StoredOf(request)
    BY <1>1 DEF MadeOf, DoneOf, StoredOf
  <1>4. ASSUME NEW p \in Request
        PROVE  RequestOK(request'[p], MadeOf(request'), env', DoneOf(request'),
                         StoredOf(request'), edition')
    <2>1. CASE p = r
      BY <1>1, <2>1
    <2>2. CASE p # r
      <3>1. RequestOK(request[p], MadeOf(request), env, DoneOf(request),
                      StoredOf(request), edition)
        BY DEF DaemonIInv
      <3>2. edition \in Nat
        BY DEF WorkspaceTypeOK
      <3>3. /\ request[p].after \cap StoredOf(request') \subseteq
                   request[p].after \cap StoredOf(request)
            /\ request[p].since <= edition'
        <4>1. request[p].after \subseteq DoneOf(request)
          BY <3>1 DEF RequestOK
        <4>2. request[p].since \in Nat /\ request[p].since <= edition
          BY <3>1 DEF RequestOK, RequestType
        <4>3. request[p].since <= edition'
          BY <3>2, <4>2
        <4>4. QED
          BY <1>3, <4>1, <4>3
      <3>4. RequestOK(request[p], MadeOf(request'), env', DoneOf(request'),
                      StoredOf(request'), edition')
        BY <1>3, <3>1, <3>3 DEF RequestOK
      <3>5. QED
        BY <1>1, <2>2, <3>4
    <2>3. QED
      BY <2>1, <2>2
  <1>5. IsFiniteSet(MadeOf(request'))
    <2>1. IsFiniteSet(MadeOf(request) \cup {r})
      BY FS_AddElement DEF DaemonIInv
    <2>2. QED
      BY <1>3, <2>1, FS_Subset
  <1>6. StoredOf(request') # {} => secrets' # {}
    <2>1. StoredOf(request') \subseteq StoredOf(request) \cup {p \in {r} : q.kind = "secret"}
      BY <1>1 DEF StoredOf
    <2>2. QED
      BY <2>1 DEF DaemonIInv
  <1>7. StoredOf(request') \subseteq DoneOf(request')
    BY <1>1 DEF DaemonIInv, StoredOf, DoneOf
  <1>8. \A p \in Request : request'[p].at = "making" => request'[p].made
    BY <1>1 DEF DaemonIInv
  <1>9. /\ task' \in [Request -> {"none", "TASK_STATE_REJECTED", "TASK_STATE_FAILED", "TASK_STATE_COMPLETED"}]
        /\ \A p \in Request : task'[p] # "none" => /\ request'[p].at = "done"
                                                   /\ task'[p] = TaskState(request'[p].result)
                                                   /\ request'[p].result # "broken"
    BY <1>1 DEF DaemonIInv
  <1>10. QED
    BY <1>2, <1>4, <1>5, <1>6, <1>7, <1>8, <1>9 DEF DaemonIInv

\* Arrive, do_POST: the new request knows the edition its runtime was built from.
LEMMA ArriveStep ==
    ASSUME DaemonIInv, WorkspaceTypeOK, WorkspaceTypeOK', edition <= edition',
           NEW r \in Request, Arrive(r)
    PROVE  DaemonIInv'
  <1> DEFINE q == [request[r] EXCEPT !.at = "env", !.runtime = Runtime, !.since = edition,
                                     !.after = {p \in Request : request[p].at = "done"}]
  <1>1. request[r].at = "none" /\ request' = [request EXCEPT ![r] = q]
        /\ UNCHANGED <<env, secrets, task, edition>>
    BY DEF Arrive
  <1>2. request[r] \in RequestType /\ request \in [Request -> RequestType]
    BY DEF DaemonIInv
  <1>3. RequestOK(request[r], MadeOf(request), env, DoneOf(request), StoredOf(request), edition)
    BY DEF DaemonIInv
  <1>4. /\ q \in RequestType /\ q.at = "env" /\ ~q.made /\ q.kind = "none" /\ q.result = "none"
        /\ q.after = DoneOf(request) /\ q.since = edition /\ q.runtime = Runtime
    <2> DEFINE a == [request[r] EXCEPT !.at = "env"]
               b == [a EXCEPT !.runtime = Runtime]
               c == [b EXCEPT !.since = edition]
               d == [c EXCEPT !.after = {p \in Request : request[p].at = "done"}]
    <2>1. request[r].kind = "none" /\ request[r].result = "none" /\ ~request[r].made
      BY <1>1, <1>3 DEF RequestOK
    <2>2. Runtime \in RuntimeType /\ edition \in Nat
      BY RuntimeOfType DEF WorkspaceTypeOK
    <2>3. q = d
      BY <1>2 DEF RequestType
    <2>4. /\ a \in RequestType /\ a.at = "env" /\ ~a.made /\ a.kind = "none" /\ a.result = "none"
      BY <1>2, <2>1 DEF RequestType
    <2> HIDE DEF a
    <2>5. /\ b \in RequestType /\ b.at = "env" /\ ~b.made /\ b.kind = "none" /\ b.result = "none"
          /\ b.runtime = Runtime
      BY <2>2, <2>4 DEF RequestType
    <2> HIDE DEF b
    <2>6. /\ c \in RequestType /\ c.at = "env" /\ ~c.made /\ c.kind = "none" /\ c.result = "none"
          /\ c.runtime = Runtime /\ c.since = edition
      BY <2>2, <2>5 DEF RequestType
    <2> HIDE DEF c
    <2>7. /\ d \in RequestType /\ d.at = "env" /\ ~d.made /\ d.kind = "none" /\ d.result = "none"
          /\ d.runtime = Runtime /\ d.since = edition /\ d.after = DoneOf(request)
      BY <2>6 DEF RequestType, DoneOf
    <2> HIDE DEF d
    <2>8. QED
      BY <2>3, <2>7
  <1> HIDE DEF q
  <1>5. request'[r] = q /\ \A p \in Request \ {r} : request'[p] = request[p]
    BY <1>1, <1>2
  <1>6. MadeOf(request') = MadeOf(request) /\ DoneOf(request) \subseteq DoneOf(request')
    BY <1>1, <1>3, <1>4, <1>5 DEF MadeOf, DoneOf, RequestOK
  <1>7. Runtime.edition = edition /\ edition \in Nat
    BY DEF Runtime, WorkspaceTypeOK
  <1>8. RequestOK(q, MadeOf(request'), env', DoneOf(request'), StoredOf(request'), edition')
    BY <1>1, <1>4, <1>6, <1>7 DEF RequestOK
  <1>9. secrets \subseteq MadeOf(request') /\ env' \in MadeOf(request') \cup {NoEnv}
    BY <1>1, <1>6 DEF DaemonIInv
  <1>10. QED
    BY <1>1, <1>3, <1>4, <1>7, <1>8, <1>9, RequestStep DEF RequestOK

\* LookForEnv, _adapter_agent_env: a request either makes a dictionary or uses the one that is set.
LEMMA LookForEnvStep ==
    ASSUME DaemonIInv, WorkspaceTypeOK, WorkspaceTypeOK', edition <= edition',
           NEW r \in Request, LookForEnv(r)
    PROVE  DaemonIInv'
  <1> DEFINE q == [request[r] EXCEPT !.at = IF env = NoEnv THEN "making" ELSE "ready",
                                     !.made = env = NoEnv,
                                     !.secret = env # NoEnv /\ env \in secrets]
  <1>1. request[r].at = "env" /\ request' = [request EXCEPT ![r] = q]
        /\ UNCHANGED <<env, secrets, task, edition>>
    <2>1. request[r].at = "env" /\ UNCHANGED <<env, secrets, task, edition>>
      BY DEF LookForEnv, workspace
    <2>2. request' = [request EXCEPT ![r].at = IF env = NoEnv THEN "making" ELSE "ready",
                                     ![r].made = env = NoEnv,
                                     ![r].secret = env # NoEnv /\ env \in secrets]
      BY DEF LookForEnv
    <2>3. request' = [request EXCEPT ![r] = q]
      BY <2>2 DEF DaemonIInv, RequestType
    <2>4. QED
      BY <2>1, <2>3
  <1>2. request[r] \in RequestType /\ request \in [Request -> RequestType]
    BY DEF DaemonIInv
  <1>3. RequestOK(request[r], MadeOf(request), env, DoneOf(request), StoredOf(request), edition)
    BY DEF DaemonIInv
  <1>4. /\ q \in RequestType /\ q.at = (IF env = NoEnv THEN "making" ELSE "ready")
        /\ q.made = (env = NoEnv) /\ q.secret = (env # NoEnv /\ env \in secrets)
        /\ q.kind = "none" /\ q.result = "none" /\ q.after = request[r].after
        /\ q.since = request[r].since /\ q.runtime = request[r].runtime
    <2>1. request[r].kind = "none" /\ request[r].result = "none"
      BY <1>1, <1>3 DEF RequestOK
    <2>2. /\ q.at = (IF env = NoEnv THEN "making" ELSE "ready")
          /\ q.kind = "none" /\ q.result = "none" /\ q.after = request[r].after
          /\ q.since = request[r].since /\ q.runtime = request[r].runtime
      BY <1>2, <2>1 DEF RequestType
    <2>3. q.made = (env = NoEnv) /\ q.secret = (env # NoEnv /\ env \in secrets)
      BY <1>2 DEF RequestType
    <2>4. q \in RequestType
      <3>1. ASSUME NEW a \in {"making", "ready"}, NEW m \in BOOLEAN, NEW s \in BOOLEAN
            PROVE  [request[r] EXCEPT !.at = a, !.made = m, !.secret = s] \in RequestType
        <4> DEFINE x == [request[r] EXCEPT !.at = a]
                   y == [x EXCEPT !.made = m]
                   z == [y EXCEPT !.secret = s]
        <4>1. [request[r] EXCEPT !.at = a, !.made = m, !.secret = s] = z
          BY <1>2 DEF RequestType
        <4>2. x \in RequestType
          BY <1>2 DEF RequestType
        <4> HIDE DEF x
        <4>3. y \in RequestType
          BY <4>2 DEF RequestType
        <4> HIDE DEF y
        <4>4. z \in RequestType
          BY <4>3 DEF RequestType
        <4>5. QED
          BY <4>1, <4>4
      <3>2. CASE env = NoEnv
        <4>1. q = [request[r] EXCEPT !.at = "making", !.made = TRUE, !.secret = FALSE]
          BY <1>2, <3>2 DEF RequestType
        <4>2. QED
          BY <3>1, <4>1
      <3>3. CASE env # NoEnv
        <4>1. \/ q = [request[r] EXCEPT !.at = "ready", !.made = FALSE, !.secret = TRUE]
              \/ q = [request[r] EXCEPT !.at = "ready", !.made = FALSE, !.secret = FALSE]
          BY <1>2, <3>3 DEF RequestType
        <4>2. QED
          BY <3>1, <4>1
      <3>4. QED
        BY <3>2, <3>3
    <2>5. QED
      BY <2>2, <2>3, <2>4
  <1> HIDE DEF q
  <1>5. request'[r] = q /\ \A p \in Request \ {r} : request'[p] = request[p]
    BY <1>1, <1>2
  <1>6. /\ MadeOf(request) \subseteq MadeOf(request') /\ DoneOf(request') = DoneOf(request)
        /\ StoredOf(request') = StoredOf(request)
    BY <1>1, <1>3, <1>4, <1>5 DEF MadeOf, DoneOf, StoredOf, RequestOK
  <1>7. q.after # {} => env # NoEnv
    <2> SUFFICES ASSUME NEW p \in q.after PROVE env # NoEnv
      OBVIOUS
    <2>1. p \in Request /\ request[p].at = "done"
      BY <1>3, <1>4 DEF RequestOK, DoneOf
    <2>2. QED
      BY <2>1 DEF DaemonIInv, RequestOK
  <1>8. ASSUME q.after \cap StoredOf(request) # {}, ~q.secret
        PROVE  \E m, n \in MadeOf(request') : m # n
    <2>1. secrets # {} /\ secrets \subseteq MadeOf(request')
      BY <1>6, <1>8 DEF DaemonIInv
    <2>2. env \in MadeOf(request') /\ env \notin secrets
      BY <1>4, <1>6, <1>7, <1>8 DEF DaemonIInv
    <2>3. QED
      BY <2>1, <2>2
  <1>9. RequestOK(q, MadeOf(request'), env', DoneOf(request'), StoredOf(request'), edition')
    BY <1>1, <1>3, <1>4, <1>6, <1>7, <1>8 DEF RequestOK
  <1>10. /\ secrets \subseteq MadeOf(request') /\ env' \in MadeOf(request') \cup {NoEnv}
         /\ edition \in Nat /\ edition' \in Nat
    BY <1>1, <1>6 DEF DaemonIInv, WorkspaceTypeOK
  <1>11. /\ request[r].at # "done" /\ (request[r].made => q.made)
         /\ (q.kind = "secret" => q.at = "done" /\ secrets' # {}) /\ (q.at = "making" => q.made)
    BY <1>1, <1>3, <1>4 DEF RequestOK
  <1>12. QED
    BY <1>1, <1>9, <1>10, <1>11, RequestStep

\* MakeEnv: the dictionary of the request that made one is set.
LEMMA MakeEnvStep ==
    ASSUME DaemonIInv, WorkspaceTypeOK, WorkspaceTypeOK', edition <= edition',
           NEW r \in Request, MakeEnv(r)
    PROVE  DaemonIInv'
  <1> DEFINE q == [request[r] EXCEPT !.at = "ready"]
  <1>1. request[r].at = "making" /\ request' = [request EXCEPT ![r] = q]
        /\ env' = r /\ UNCHANGED <<secrets, task, edition>>
    BY DEF MakeEnv, workspace, DaemonIInv, RequestType
  <1>2. request[r] \in RequestType /\ request \in [Request -> RequestType]
    BY DEF DaemonIInv
  <1>3. RequestOK(request[r], MadeOf(request), env, DoneOf(request), StoredOf(request), edition)
        /\ request[r].made
    BY <1>1 DEF DaemonIInv
  <1>4. /\ q \in RequestType /\ q.at = "ready" /\ q.made
        /\ q.kind = "none" /\ q.result = "none" /\ q.after = request[r].after
        /\ q.since = request[r].since /\ q.runtime = request[r].runtime
    BY <1>1, <1>2, <1>3 DEF RequestType, RequestOK
  <1> HIDE DEF q
  <1>5. request'[r] = q /\ \A p \in Request \ {r} : request'[p] = request[p]
    BY <1>1, <1>2
  <1>6. /\ MadeOf(request') = MadeOf(request) /\ DoneOf(request') = DoneOf(request)
        /\ StoredOf(request') = StoredOf(request) /\ r \in MadeOf(request')
    BY <1>1, <1>3, <1>4, <1>5 DEF MadeOf, DoneOf, StoredOf, RequestOK
  <1>7. env' # NoEnv
    BY <1>1, FacadesAssumption
  <1>8. q.after = {}
    BY <1>3, <1>4 DEF RequestOK
  <1>9. RequestOK(q, MadeOf(request'), env', DoneOf(request'), StoredOf(request'), edition')
    BY <1>1, <1>3, <1>4, <1>7, <1>8 DEF RequestOK
  <1>10. /\ secrets \subseteq MadeOf(request') /\ env' \in MadeOf(request') \cup {NoEnv}
         /\ edition \in Nat /\ edition' \in Nat
    BY <1>1, <1>6 DEF DaemonIInv, WorkspaceTypeOK
  <1>11. /\ request[r].at # "done" /\ (request[r].made => q.made)
         /\ (q.kind = "secret" => q.at = "done" /\ secrets' # {}) /\ (q.at = "making" => q.made)
    BY <1>1, <1>3, <1>4 DEF RequestOK
  <1>12. QED
    BY <1>1, <1>7, <1>9, <1>10, <1>11, RequestStep

\* A request whose call has ended: what it ran for A2A was not held back.
LEMMA RanStep ==
    ASSUME DaemonIInv, WorkspaceTypeOK, WorkspaceTypeOK', edition <= edition',
           NEW r \in Request, NEW kind \in {"call", "a2a"},
           NEW target \in Capability \cup {"workflow"},
           NEW result \in {"good", "failed", "refused", "broken"}, NEW runtime \in RuntimeType,
           NEW secret \in BOOLEAN, request[r].at = "ready",
           request' = [request EXCEPT ![r] =
               [request[r] EXCEPT !.at = "ran", !.kind = kind, !.target = target,
                                  !.result = result, !.runtime = runtime, !.secret = secret]],
           kind = "call" => secret = request[r].secret,
           request[r].since <= runtime.edition,
           kind = "a2a" /\ target # "workflow" /\ result \in {"good", "failed"}
              => ~runtime.manifest[target].held,
           UNCHANGED <<env, secrets, task, edition>>
    PROVE  DaemonIInv'
  <1> DEFINE q == [request[r] EXCEPT !.at = "ran", !.kind = kind, !.target = target,
                             !.result = result, !.runtime = runtime, !.secret = secret]
  <1>0. /\ request' = [request EXCEPT ![r] = q]
        /\ q = [request[r] EXCEPT !.at = "ran", !.kind = kind, !.target = target,
                             !.result = result, !.runtime = runtime, !.secret = secret]
    OBVIOUS
  <1> HIDE DEF q
  <1>1. request[r] \in RequestType /\ request \in [Request -> RequestType]
    BY DEF DaemonIInv
  <1>2. RequestOK(request[r], MadeOf(request), env, DoneOf(request), StoredOf(request), edition)
    BY DEF DaemonIInv
  <1>3. /\ q \in RequestType /\ q.at = "ran" /\ q.kind = kind /\ q.target = target
        /\ q.result = result /\ q.runtime = runtime /\ q.secret = secret
        /\ q.after = request[r].after /\ q.since = request[r].since /\ q.made = request[r].made
    <2> DEFINE a == [request[r] EXCEPT !.at = "ran"]
               b == [a EXCEPT !.kind = kind]
               c == [b EXCEPT !.target = target]
               d == [c EXCEPT !.result = result]
               e == [d EXCEPT !.runtime = runtime]
               f == [e EXCEPT !.secret = secret]
    <2>1. f = [request[r] EXCEPT !.at = "ran", !.kind = kind, !.target = target,
                        !.result = result, !.runtime = runtime, !.secret = secret]
      OBVIOUS
    <2>2. /\ a \in RequestType /\ a.at = "ran"
          /\ a.after = request[r].after /\ a.since = request[r].since /\ a.made = request[r].made
      BY <1>1 DEF RequestType
    <2> HIDE DEF a
    <2>3. /\ b \in RequestType /\ b.at = "ran" /\ b.kind = kind
          /\ b.after = request[r].after /\ b.since = request[r].since /\ b.made = request[r].made
      BY <2>2 DEF RequestType
    <2> HIDE DEF b
    <2>4. /\ c \in RequestType /\ c.at = "ran" /\ c.kind = kind /\ c.target = target
          /\ c.after = request[r].after /\ c.since = request[r].since /\ c.made = request[r].made
      BY <2>3 DEF RequestType
    <2> HIDE DEF c
    <2>5. /\ d \in RequestType /\ d.at = "ran" /\ d.kind = kind /\ d.target = target
          /\ d.result = result
          /\ d.after = request[r].after /\ d.since = request[r].since /\ d.made = request[r].made
      BY <2>4 DEF RequestType
    <2> HIDE DEF d
    <2>6. /\ e \in RequestType /\ e.at = "ran" /\ e.kind = kind /\ e.target = target
          /\ e.result = result /\ e.runtime = runtime
          /\ e.after = request[r].after /\ e.since = request[r].since /\ e.made = request[r].made
      BY <2>5 DEF RequestType
    <2> HIDE DEF e
    <2>7. /\ f \in RequestType /\ f.at = "ran" /\ f.kind = kind /\ f.target = target
          /\ f.result = result /\ f.runtime = runtime /\ f.secret = secret
          /\ f.after = request[r].after /\ f.since = request[r].since /\ f.made = request[r].made
      BY <2>6 DEF RequestType
    <2> HIDE DEF f
    <2>8. QED
      BY <1>0, <2>1, <2>7, Zenon
  <1>4. request' = [request EXCEPT ![r] = q]
    BY <1>0
  <1>5. request'[r] = q /\ \A p \in Request \ {r} : request'[p] = request[p]
    BY <1>1, <1>4
  <1>6. /\ MadeOf(request') = MadeOf(request) /\ DoneOf(request') = DoneOf(request)
        /\ StoredOf(request') = StoredOf(request)
    BY <1>2, <1>3, <1>5 DEF MadeOf, DoneOf, StoredOf, RequestOK
  <1>7. RequestOK(q, MadeOf(request'), env', DoneOf(request'), StoredOf(request'), edition')
    BY <1>2, <1>3, <1>6 DEF RequestOK
  <1>8. /\ secrets \subseteq MadeOf(request') /\ env' \in MadeOf(request') \cup {NoEnv}
        /\ edition \in Nat /\ edition' \in Nat
    BY <1>6 DEF DaemonIInv, WorkspaceTypeOK
  <1>9. /\ request[r].at # "done" /\ (request[r].made => q.made)
        /\ (q.kind = "secret" => q.at = "done" /\ secrets' # {}) /\ (q.at = "making" => q.made)
    BY <1>3
  <1>10. QED
    BY <1>4, <1>7, <1>8, <1>9, RequestStep

\* The executor answers, or the call breaks; what is held back runs only with consent.
LEMMA AnswersType ==
    ASSUME NEW runtime, NEW c, NEW consent, NEW dry, NEW result \in Answers(runtime, c, consent, dry)
    PROVE  /\ result \in {"good", "failed", "refused", "broken"}
           /\ result \in {"good", "failed"} /\ ~consent => ~runtime.manifest[c].held
  BY DEF Answers

\* Call: CapabilityExecutor.call on behalf of POST /call or of a message of A2A.
LEMMA CallStep ==
    ASSUME DaemonIInv, WorkspaceTypeOK, WorkspaceTypeOK', edition <= edition',
           NEW r \in Request, NEW kind \in {"call", "a2a"}, NEW runtime \in RuntimeType,
           NEW confirmed \in BOOLEAN, NEW approval \in BOOLEAN,
           Call(r, kind, runtime, confirmed, approval),
           request[r].since <= runtime.edition, kind = "a2a" => ~confirmed /\ ~approval
    PROVE  DaemonIInv'
  <1>1. request[r] \in RequestType
    BY DEF DaemonIInv
  <1>2. PICK c \in Capability :
            \E result \in Answers(runtime, c,
                 (approval /\ c \in granted /\ runtime.manifest[c].held /\ ~confirmed) \/ confirmed,
                 FALSE) :
            request' = [request EXCEPT ![r] =
                [@ EXCEPT !.at = "ran", !.kind = kind, !.target = c, !.result = result,
                          !.runtime = runtime, !.secret = request[r].secret /\ kind = "call"]]
    BY ZenonT(30) DEF Call
  <1>2a. PICK result \in Answers(runtime, c,
                 (approval /\ c \in granted /\ runtime.manifest[c].held /\ ~confirmed) \/ confirmed,
                 FALSE) :
            request' = [request EXCEPT ![r] =
                [@ EXCEPT !.at = "ran", !.kind = kind, !.target = c, !.result = result,
                          !.runtime = runtime, !.secret = request[r].secret /\ kind = "call"]]
    BY <1>2, Zenon
  <1>3. /\ result \in {"good", "failed", "refused", "broken"}
        /\ result \in {"good", "failed"} /\ kind = "a2a" => ~runtime.manifest[c].held
    BY AnswersType
  <1>4. request[r].at = "ready" /\ UNCHANGED <<env, secrets, task, edition>>
    BY DEF Call
  <1>5. (request[r].secret /\ kind = "call") \in BOOLEAN
    OBVIOUS
  <1>6. request' = [request EXCEPT ![r] =
            [request[r] EXCEPT !.at = "ran", !.kind = kind, !.target = c, !.result = result,
                  !.runtime = runtime, !.secret = (request[r].secret /\ kind = "call")]]
    BY <1>2a, Zenon DEF DaemonIInv
  <1>7. kind = "call" => (request[r].secret /\ kind = "call") = request[r].secret
    BY <1>1 DEF RequestType
  <1>8. QED
    BY <1>3, <1>4, <1>5, <1>6, <1>7, RanStep

\* SendWorkflowMessage: the workflow runs on a runtime built after the request came.
LEMMA SendWorkflowStep ==
    ASSUME DaemonIInv, WorkspaceTypeOK, WorkspaceTypeOK', edition <= edition',
           NEW r \in Request, SendWorkflowMessage(r)
    PROVE  DaemonIInv'
  <1>0. PICK confirmed \in BOOLEAN : \E result \in RunResults(Runtime, confirmed) :
            request' = [request EXCEPT ![r] =
               [@ EXCEPT !.at = "ran", !.kind = "a2a", !.target = "workflow",
                         !.result = result, !.runtime = Runtime, !.secret = FALSE]]
    BY Zenon DEF SendWorkflowMessage
  <1>1. PICK result \in RunResults(Runtime, confirmed) :
            request' = [request EXCEPT ![r] =
               [@ EXCEPT !.at = "ran", !.kind = "a2a", !.target = "workflow",
                         !.result = result, !.runtime = Runtime, !.secret = FALSE]]
    BY <1>0, Zenon
  <1>2. result \in {"good", "failed", "refused", "broken"}
    BY DEF RunResults
  <1>3. request[r].at = "ready" /\ UNCHANGED <<env, secrets, task, edition>>
    BY DEF SendWorkflowMessage, workspace
  <1>4. request' = [request EXCEPT ![r] =
            [request[r] EXCEPT !.at = "ran", !.kind = "a2a", !.target = "workflow",
                         !.result = result, !.runtime = Runtime, !.secret = FALSE]]
    BY <1>1 DEF DaemonIInv
  <1>5. Runtime \in RuntimeType /\ Runtime.edition = edition
    BY RuntimeOfType DEF Runtime
  <1>6. request[r].since <= edition
    BY DEF DaemonIInv, RequestOK
  <1>7. QED
    BY <1>2, <1>3, <1>4, <1>5, <1>6, RanStep

\* Respond, _send_message: the recorded task tells what the call answered.
LEMMA RespondStep ==
    ASSUME DaemonIInv, WorkspaceTypeOK, WorkspaceTypeOK', edition <= edition',
           NEW r \in Request, Respond(r)
    PROVE  DaemonIInv'
  <1> DEFINE code == CASE request[r].result = "broken" -> 500
                       [] request[r].kind = "a2a" \/ request[r].result = "good" -> 200
                       [] request[r].result = "refused" -> 403 [] OTHER -> 502
             half == [request[r] EXCEPT !.at = "done"]
             q == [half EXCEPT !.status = code]
  <1>1. request[r] \in RequestType /\ request \in [Request -> RequestType]
    BY DEF DaemonIInv
  <1>2. RequestOK(request[r], MadeOf(request), env, DoneOf(request), StoredOf(request), edition)
        /\ (request[r].kind = "secret" => request[r].at = "done")
    BY DEF DaemonIInv, StoredOf, DoneOf
  <1>3. request[r].at = "ran" /\ UNCHANGED <<env, secrets, edition>>
    BY DEF Respond, workspace
  <1>4. code \in {200, 403, 500, 502}
    OBVIOUS
  <1>5. request' = [request EXCEPT ![r] = q]
    <2>1. request' = [request EXCEPT ![r].at = "done", ![r].status = code]
      BY DEF Respond
    <2> HIDE DEF code
    <2>2. QED
      BY <1>1, <2>1
  <1> HIDE DEF code
  <1>5a. /\ half \in RequestType /\ half.at = "done" /\ half.kind = request[r].kind /\ half.target = request[r].target
        /\ half.result = request[r].result /\ half.runtime = request[r].runtime /\ half.secret = request[r].secret
        /\ half.after = request[r].after /\ half.since = request[r].since /\ half.made = request[r].made
    BY <1>1 DEF RequestType
  <1> HIDE DEF half
  <1>6. /\ q \in RequestType /\ q.at = "done" /\ q.kind = request[r].kind /\ q.target = request[r].target
        /\ q.result = request[r].result /\ q.runtime = request[r].runtime /\ q.secret = request[r].secret
        /\ q.after = request[r].after /\ q.since = request[r].since /\ q.made = request[r].made
    BY <1>5a, <1>4 DEF RequestType
  <1>7. \/ task' = task
        \/ task' = [task EXCEPT ![r] = TaskState(q.result)] /\ q.result # "broken"
    <2>1. task' = IF request[r].kind = "a2a" /\ request[r].result # "broken"
                  THEN [task EXCEPT ![r] = TaskState(request[r].result)] ELSE task
      BY DEF Respond
    <2>2. QED
      BY <1>6, <2>1
  <1>8. TaskState(q.result) \in {"TASK_STATE_REJECTED", "TASK_STATE_FAILED", "TASK_STATE_COMPLETED"}
    BY DEF TaskState
  <1> HIDE DEF q
  <1>9. request'[r] = q /\ \A p \in Request \ {r} : request'[p] = request[p]
    BY <1>1, <1>5
  <1>10. /\ MadeOf(request') = MadeOf(request) /\ DoneOf(request) \subseteq DoneOf(request')
         /\ StoredOf(request') = StoredOf(request)
    BY <1>2, <1>6, <1>9 DEF MadeOf, DoneOf, StoredOf, RequestOK
  <1>11. RequestOK(q, MadeOf(request'), env', DoneOf(request'), StoredOf(request'), edition')
    BY <1>2, <1>3, <1>6, <1>10 DEF RequestOK
  <1>12. /\ secrets \subseteq MadeOf(request') /\ env' \in MadeOf(request') \cup {NoEnv}
         /\ edition \in Nat /\ edition' \in Nat
    BY <1>3, <1>10 DEF DaemonIInv, WorkspaceTypeOK
  <1>13. /\ request[r].at # "done" /\ (request[r].made => q.made)
         /\ (q.kind = "secret" => q.at = "done" /\ secrets' # {}) /\ (q.at = "making" => q.made)
    BY <1>2, <1>3, <1>6
  <1>14. QED
    BY <1>3, <1>5, <1>6, <1>7, <1>8, <1>11, <1>12, <1>13, RequestStep

\* A request that ends without a call has no result, and no task.
LEMMA EndingStep ==
    ASSUME DaemonIInv, WorkspaceTypeOK, WorkspaceTypeOK', edition <= edition',
           NEW r \in Request, NEW kind \in {"cancel", "secret"}, request[r].at = "ready",
           request' = [request EXCEPT ![r] = [request[r] EXCEPT !.at = "done", !.kind = kind]],
           kind = "secret" => secrets' # {}, secrets \subseteq secrets',
           secrets' \subseteq secrets \cup {env}, UNCHANGED <<env, task, edition>>
    PROVE  DaemonIInv'
  <1> DEFINE half == [request[r] EXCEPT !.at = "done"]
             q == [half EXCEPT !.kind = kind]
  <1>1. request[r] \in RequestType /\ request \in [Request -> RequestType]
    BY DEF DaemonIInv
  <1>2. RequestOK(request[r], MadeOf(request), env, DoneOf(request), StoredOf(request), edition)
    BY DEF DaemonIInv
  <1>4. request' = [request EXCEPT ![r] = q]
    OBVIOUS
  <1>3a. /\ half \in RequestType /\ half.at = "done"
        /\ half.result = request[r].result /\ half.runtime = request[r].runtime
        /\ half.after = request[r].after /\ half.since = request[r].since /\ half.made = request[r].made
    BY <1>1 DEF RequestType
  <1> HIDE DEF half
  <1>3. /\ q \in RequestType /\ q.at = "done" /\ q.kind = kind
        /\ q.result = request[r].result /\ q.runtime = request[r].runtime
        /\ q.after = request[r].after /\ q.since = request[r].since /\ q.made = request[r].made
    BY <1>3a DEF RequestType
  <1> HIDE DEF q
  <1>5. request'[r] = q /\ \A p \in Request \ {r} : request'[p] = request[p]
    BY <1>1, <1>4
  <1>6. MadeOf(request') = MadeOf(request) /\ DoneOf(request) \subseteq DoneOf(request')
    BY <1>2, <1>3, <1>5 DEF MadeOf, DoneOf, RequestOK
  <1>7. RequestOK(q, MadeOf(request'), env', DoneOf(request'), StoredOf(request'), edition')
    BY <1>2, <1>3, <1>6 DEF RequestOK
  <1>8. env # NoEnv
    BY <1>2 DEF RequestOK
  <1>9. /\ secrets' \subseteq MadeOf(request') /\ env' \in MadeOf(request') \cup {NoEnv}
        /\ edition \in Nat /\ edition' \in Nat
    BY <1>6, <1>8 DEF DaemonIInv, WorkspaceTypeOK
  <1>10. /\ request[r].at # "done" /\ (request[r].made => q.made)
         /\ (q.kind = "secret" => q.at = "done" /\ secrets' # {}) /\ (q.at = "making" => q.made)
    BY <1>3
  <1>11. QED
    BY <1>4, <1>7, <1>9, <1>10, RequestStep

\* CancelTask, _cancel_task: a recorded task has ended, and is left as it is.
LEMMA CancelStep ==
    ASSUME DaemonIInv, WorkspaceTypeOK, WorkspaceTypeOK', edition <= edition',
           NEW r \in Request, CancelTask(r)
    PROVE  DaemonIInv'
  <1>1. PICK p \in Request :
            /\ task[p] # "none"
            /\ task' = IF Cancelable(task[p]) THEN [task EXCEPT ![p] = "TASK_STATE_CANCELED"] ELSE task
    BY DEF CancelTask
  <1>2. ~Cancelable(task[p])
    BY <1>1 DEF DaemonIInv, Cancelable
  <1>3. request[r].at = "ready" /\ UNCHANGED <<env, secrets, edition, task>>
    BY <1>1, <1>2 DEF CancelTask, workspace
  <1>4. request' = [request EXCEPT ![r] = [request[r] EXCEPT !.at = "done", !.kind = "cancel"]]
    BY DEF CancelTask, DaemonIInv, RequestType
  <1>5. QED
    BY <1>3, <1>4, EndingStep

\* StoreSecret, store_session_secret: the secret is in the dictionary that is set.
LEMMA StoreStep ==
    ASSUME DaemonIInv, WorkspaceTypeOK, WorkspaceTypeOK', edition <= edition',
           NEW r \in Request, StoreSecret(r)
    PROVE  DaemonIInv'
  <1>1. request[r].at = "ready" /\ UNCHANGED <<env, edition, task>> /\ secrets' = secrets \cup {env}
    BY DEF StoreSecret, workspace
  <1>2. request' = [request EXCEPT ![r] = [request[r] EXCEPT !.at = "done", !.kind = "secret"]]
    BY DEF StoreSecret, DaemonIInv, RequestType
  <1>3. QED
    BY <1>1, <1>2, EndingStep

\* Nothing but its own requests touches the daemon: the rest may edit manifests.
LEMMA DaemonStill ==
    ASSUME DaemonIInv, WorkspaceTypeOK, WorkspaceTypeOK', edition <= edition',
           UNCHANGED <<request, env, secrets, task>>
    PROVE  DaemonIInv'
  <1>1. ASSUME NEW p \in Request
        PROVE  RequestOK(request[p], MadeOf(request), env, DoneOf(request), StoredOf(request), edition')
    <2>1. RequestOK(request[p], MadeOf(request), env, DoneOf(request), StoredOf(request), edition)
      BY DEF DaemonIInv
    <2>2. request[p].since \in Nat /\ request[p].since <= edition
      BY <2>1 DEF RequestOK, RequestType
    <2>3. request[p].since <= edition'
      BY <2>2 DEF WorkspaceTypeOK
    <2>4. QED
      BY <2>1, <2>3 DEF RequestOK
  <1>2. /\ MadeOf(request') = MadeOf(request) /\ DoneOf(request') = DoneOf(request)
        /\ StoredOf(request') = StoredOf(request)
    OBVIOUS
  <1>3. \A p \in Request :
            RequestOK(request'[p], MadeOf(request'), env', DoneOf(request'), StoredOf(request'), edition')
    BY <1>1, <1>2
  <1>4. QED
    BY <1>2, <1>3 DEF DaemonIInv

\* Every step of the system keeps what the daemon relies on.
LEMMA DaemonNext ==
    ASSUME DaemonIInv, WorkspaceTypeOK, [Next]_vars
    PROVE  DaemonIInv'
  <1>1. WorkspaceTypeOK' /\ edition <= edition'
    BY WorkspaceNext
  <1>2. ASSUME NEW r \in Request, PostCall(r)
        PROVE  DaemonIInv'
    <2>1. PICK confirmed \in BOOLEAN, approval \in BOOLEAN :
              Call(r, "call", request[r].runtime, confirmed, approval)
      BY <1>2 DEF PostCall
    <2>2. request[r].runtime \in RuntimeType /\ request[r].since <= request[r].runtime.edition
      BY DEF DaemonIInv, RequestOK, RequestType
    <2>3. QED
      BY <1>1, <2>1, <2>2, CallStep
  <1>3. ASSUME NEW r \in Request, SendMessage(r)
        PROVE  DaemonIInv'
    <2>1. Call(r, "a2a", Runtime, FALSE, FALSE)
      BY <1>3 DEF SendMessage
    <2>2. Runtime \in RuntimeType /\ Runtime.edition = edition
      BY RuntimeOfType DEF Runtime
    <2>3. request[r].since <= Runtime.edition
      BY <2>2 DEF DaemonIInv, RequestOK
    <2>4. QED
      BY <1>1, <2>1, <2>2, <2>3, CallStep
  <1>4. CASE NextDaemon
    <2>1. PICK r \in Request :
              \/ Arrive(r) \/ LookForEnv(r) \/ MakeEnv(r) \/ PostCall(r) \/ SendMessage(r)
              \/ SendWorkflowMessage(r) \/ Respond(r) \/ CancelTask(r) \/ StoreSecret(r)
      BY <1>4 DEF NextDaemon
    <2>2. QED
      BY <1>1, <1>2, <1>3, <2>1, ArriveStep, LookForEnvStep, MakeEnvStep, SendWorkflowStep,
         RespondStep, CancelStep, StoreStep
  <1>5. CASE UNCHANGED <<request, env, secrets, task>>
    BY <1>1, <1>5, DaemonStill
  <1>6. NextServers(mix.used \cap Server) => UNCHANGED <<request, env, secrets, task>>
    <2> SUFFICES ASSUME NEW s \in Server,
                        \/ StartServer(s) \/ Send(s) \/ Refill(s) \/ RefuseLine(s) \/ Handle(s)
                        \/ BeginCall(s) \/ ProgramReads(s) \/ EndCall(s)
                 PROVE  UNCHANGED <<request, env, secrets, task>>
      BY DEF NextServers
    <2>1. QED
      BY DEF StartServer, Send, Refill, RefuseLine, Handle, BeginCall, ProgramReads, EndCall, daemon
  <1>7. UNCHANGED vars => UNCHANGED <<request, env, secrets, task>>
    BY DEF vars, facades, daemon
  <1>8. UNCHANGED facades => UNCHANGED <<request, env, secrets, task>>
    BY DEF facades, daemon
  <1>9. Next => NextDaemon \/ NextServers(mix.used \cap Server) \/ UNCHANGED facades
    BY DEF Next
  <1>10. QED
    BY <1>4, <1>5, <1>6, <1>7, <1>8, <1>9

\* Where one request has made a dictionary, every dictionary is that one.
LEMMA MadeByOne ==
    ASSUME NEW S, IsFiniteSet(S), Cardinality(S) = 1, NEW x \in S, NEW y \in S
    PROVE  x = y
  <1>1. \E z : S = {z}
    BY FS_Singleton
  <1>2. QED
    BY <1>1

\* The invariant of the daemon implies that secrets are kept.
LEMMA KeptBecause == DaemonIInv => SecretsAreKept
  <1> SUFFICES ASSUME DaemonIInv, NEW r \in Request
               PROVE  LET q == request[r] IN
        /\ q.after # {} => ~q.made
        /\ (/\ q.kind = "call" /\ q.at \in {"ready", "ran", "done"}
            /\ \E p \in q.after : request[p].kind = "secret"
            /\ Cardinality({p \in Request : request[p].made}) = 1)
              => q.secret
    BY DEF SecretsAreKept
  <1>1. RequestOK(request[r], MadeOf(request), env, DoneOf(request), StoredOf(request), edition)
    BY DEF DaemonIInv
  <1>2. ASSUME request[r].kind = "call", request[r].at \in {"ready", "ran", "done"},
               NEW p \in request[r].after, request[p].kind = "secret",
               Cardinality(MadeOf(request)) = 1
        PROVE  request[r].secret
    <2>1. p \in request[r].after \cap StoredOf(request)
      BY <1>1, <1>2 DEF RequestOK, DoneOf, StoredOf
    <2>2. IsFiniteSet(MadeOf(request))
      BY DEF DaemonIInv
    <2>3. ~\E m, n \in MadeOf(request) : m # n
      BY <1>2, <2>2, MadeByOne
    <2>4. QED
      BY <1>1, <1>2, <2>1, <2>3 DEF RequestOK
  <1>3. request[r].after # {} => ~request[r].made
    BY <1>1 DEF RequestOK
  <1>4. QED
    BY <1>2, <1>3 DEF MadeOf

DaemonVerdicts ==
    \A r \in Request :
        LET q == request[r] IN
        /\ task[r] # "none" => task[r] = TaskState(q.result) /\ q.result # "broken"
        /\ q.result \in {"good", "failed"} =>
              /\ q.runtime.edition >= q.since
              /\ q.kind = "a2a" /\ q.target # "workflow" => ~q.runtime.manifest[q.target].held

\* The invariant of the daemon implies that its tasks and answers are true.
LEMMA DaemonTells == DaemonIInv => DaemonVerdicts
  <1> SUFFICES ASSUME DaemonIInv, NEW r \in Request
               PROVE  LET q == request[r] IN
        /\ task[r] # "none" => task[r] = TaskState(q.result) /\ q.result # "broken"
        /\ q.result \in {"good", "failed"} =>
              /\ q.runtime.edition >= q.since
              /\ q.kind = "a2a" /\ q.target # "workflow" => ~q.runtime.manifest[q.target].held
    BY DEF DaemonVerdicts
  <1>1. RequestOK(request[r], MadeOf(request), env, DoneOf(request), StoredOf(request), edition)
    BY DEF DaemonIInv
  <1>2. task[r] # "none" => task[r] = TaskState(request[r].result) /\ request[r].result # "broken"
    BY DEF DaemonIInv
  <1>3. request[r].runtime.edition >= request[r].since
    BY <1>1 DEF RequestOK, RequestType, RuntimeType
  <1>4. QED
    BY <1>1, <1>2, <1>3 DEF RequestOK

\* A secret the daemon says it has stored reaches every later POST /call, whatever number
\* of handler threads there are and however they interleave, unless two of them were the
\* first at once (server.py, _adapter_agent_env).
THEOREM SecretsAlwaysKept == Spec => []SecretsAreKept
  <1>1. Init => WorkspaceTypeOK /\ DaemonIInv
    BY WorkspaceInit, DaemonInit
  <1>2. WorkspaceTypeOK /\ DaemonIInv /\ [Next]_vars => (WorkspaceTypeOK /\ DaemonIInv)'
    BY WorkspaceNext, DaemonNext
  <1>3. QED
    BY <1>1, <1>2, KeptBecause, PTL DEF Spec

(* The acceptance report *)

\* What a reading of the workflow file is: mappings of its tasks, each from an earlier one.
FileOK(file) ==
    /\ file.tasks \subseteq Task
    /\ file.routes \subseteq Route
    /\ \A r \in file.routes : r.source < r.consumer /\ r.consumer \in file.tasks

\* It has the parts of a report.
IsReport(q) ==
    q = [at |-> q.at, run |-> q.run, dry |-> q.dry, confirmed |-> q.confirmed,
         runtime |-> q.runtime, first |-> q.first, second |-> q.second, ran |-> q.ran,
         ready |-> q.ready, outcome |-> q.outcome, contract |-> q.contract]

\* A run of the file it read, which raised or has not.
RanOK(q) ==
    /\ FileOK(q.ran)
    /\ \/ /\ q.outcome = Raised
          /\ \/ ~ValidFile(q.ran)
             \/ \E o \in Outcomes(q, q.ran) : \E t \in q.ran.tasks : o[t].end = "raised"
       \/ /\ q.outcome \in Outcomes(q, q.ran) /\ ValidFile(q.ran)
          /\ \A t \in q.ran.tasks : q.outcome[t].end # "raised"

\* The inductive invariant of the report: what it has established by its readings so far.
ReportIInv ==
    /\ IsReport(report)
    /\ routes \in Mappings
    /\ report.at \in {"none", "contract", "readiness", "run", "done"}
    /\ report.run \in BOOLEAN /\ report.ready \in BOOLEAN
    /\ report.at \in {"readiness", "run", "done"} =>
           FileOK(report.first) /\ report.contract = Contract(report.runtime, report.first)
    /\ report.at \in {"run", "done"} =>
           /\ FileOK(report.second)
           /\ report.ready = BridgeReady(report.runtime, Contract(report.runtime, report.second))
    /\ report.at = "done" /\ report.run => RanOK(report)

\* What a reading of the workflow file finds: its tasks, and mappings from earlier to later ones.
LEMMA FileIsOK ==
    ASSUME WorkspaceTypeOK, routes \in Mappings
    PROVE  FileOK(WorkflowFile)
  <1>1. document \subseteq Task
    BY DEF WorkspaceTypeOK, Document
  <1>2. routes \subseteq Route /\ \A r \in routes : r.source < r.consumer
    BY MappingsAssumption
  <1>3. QED
    BY <1>1, <1>2 DEF FileOK, WorkflowFile

\* What a run may come to depends on its options and its runtime alone.
LEMMA OutcomesSame ==
    ASSUME NEW p, NEW q, NEW file,
           p.dry = q.dry, p.confirmed = q.confirmed, p.runtime = q.runtime
    PROVE  Outcomes(p, file) = Outcomes(q, file)
  BY Zenon DEF Outcomes, Ends

\* No report has begun.
LEMMA ReportInit == Init => ReportIInv
  <1> SUFFICES ASSUME Init PROVE ReportIInv
    OBVIOUS
  <1>1. mix \in Mix /\ routes \in mix.mappings /\ report = NoReport(Runtime)
    BY DEF Init, InitAcceptance
  <1>2. routes \in Mappings
    BY <1>1, MixAssumption
  <1>3. IsReport(report) /\ report.at = "none" /\ report.run = FALSE /\ report.ready = FALSE
    BY <1>1 DEF NoReport, IsReport
  <1>4. QED
    BY <1>2, <1>3 DEF ReportIInv

\* Every step of the system keeps what the report has established so far.
LEMMA ReportNext ==
    ASSUME ReportIInv, WorkspaceTypeOK, [Next]_vars
    PROVE  ReportIInv'
  <1>1. CASE EditRoutes(mix.mappings) /\ WorkspaceTypeOK
    <2>1. routes' \in mix.mappings /\ report' = report
      BY <1>1 DEF EditRoutes
    <2>2. routes' \in Mappings
      BY <2>1, MixAssumption DEF WorkspaceTypeOK
    <2>3. QED
      BY <2>1, <2>2 DEF ReportIInv
  <1>2. CASE BeginReport
    <2>1. PICK run \in BOOLEAN, dry \in BOOLEAN, confirmed \in BOOLEAN :
           report' = [NoReport(Runtime) EXCEPT !.at = "contract", !.run = run, !.dry = dry,
                                               !.confirmed = confirmed]
      BY <1>2 DEF BeginReport
    <2>2. report'.at = "contract" /\ report'.run \in BOOLEAN /\ report'.ready = FALSE
      BY <2>1 DEF NoReport
    <2>2a. IsReport(report)'
      BY <2>1 DEF NoReport, IsReport
    <2>3. routes' = routes
      BY <1>2 DEF BeginReport
    <2>4. QED
      BY <2>2, <2>2a, <2>3 DEF ReportIInv
  <1>3. CASE ReadContract
    <2>1. /\ report.at = "contract" /\ routes' = routes
          /\ report' = [report EXCEPT !.at = "readiness", !.first = WorkflowFile,
                                !.contract = Contract(report.runtime, WorkflowFile)]
      BY <1>3 DEF ReadContract
    <2>2. FileOK(WorkflowFile)
      BY FileIsOK DEF ReportIInv
    <2>3. /\ report'.at = "readiness" /\ report'.run = report.run /\ report'.ready = report.ready
          /\ report'.first = WorkflowFile /\ report'.runtime = report.runtime
          /\ report'.contract = Contract(report.runtime, WorkflowFile) /\ IsReport(report)'
      BY <2>1 DEF ReportIInv, IsReport
    <2>4. QED
      BY <2>1, <2>2, <2>3 DEF ReportIInv
  <1>4. CASE ReadReadiness
    <2>1. /\ report.at = "readiness" /\ routes' = routes
          /\ report' = [report EXCEPT !.at = IF report.run THEN "run" ELSE "done",
                !.second = WorkflowFile,
                !.ready = BridgeReady(report.runtime, Contract(report.runtime, WorkflowFile))]
      BY <1>4 DEF ReadReadiness
    <2>2. FileOK(WorkflowFile)
      BY FileIsOK DEF ReportIInv
    <2>3. BridgeReady(report.runtime, Contract(report.runtime, WorkflowFile)) \in BOOLEAN
      BY DEF BridgeReady
    <2>4. /\ report'.at = (IF report.run THEN "run" ELSE "done") /\ report'.run = report.run
          /\ report'.ready = BridgeReady(report.runtime, Contract(report.runtime, WorkflowFile))
          /\ report'.first = report.first /\ report'.runtime = report.runtime
          /\ report'.second = WorkflowFile
          /\ report'.contract = report.contract /\ IsReport(report)'
      BY <2>1, <2>3 DEF ReportIInv, IsReport
    <2>5. QED
      BY <2>1, <2>2, <2>3, <2>4 DEF ReportIInv
  <1>5. CASE RunWorkflow
    <2>1. /\ report.at = "run" /\ routes' = routes
          /\ \E o \in IF ValidFile(WorkflowFile) THEN Outcomes(report, WorkflowFile) ELSE {Raised} :
                report' = [report EXCEPT !.at = "done", !.ran = WorkflowFile,
                    !.outcome = IF o # Raised /\ \E t \in WorkflowFile.tasks : o[t].end = "raised"
                                THEN Raised ELSE o]
      BY <1>5, Zenon DEF RunWorkflow
    <2>2. PICK o \in IF ValidFile(WorkflowFile) THEN Outcomes(report, WorkflowFile) ELSE {Raised} :
              report' = [report EXCEPT !.at = "done", !.ran = WorkflowFile,
                  !.outcome = IF o # Raised /\ \E t \in WorkflowFile.tasks : o[t].end = "raised"
                              THEN Raised ELSE o]
      BY <2>1, Zenon
    <2> DEFINE out == IF o # Raised /\ \E t \in WorkflowFile.tasks : o[t].end = "raised"
                      THEN Raised ELSE o
               file == WorkflowFile
    <2>3. report' = [report EXCEPT !.at = "done", !.ran = file, !.outcome = out]
      BY <2>2, Zenon
    <2>4. FileOK(file)
      BY FileIsOK DEF ReportIInv
    <2>5. \/ out = Raised /\ (~ValidFile(file) \/ \E x \in Outcomes(report, file) :
                                                    \E t \in file.tasks : x[t].end = "raised")
          \/ out \in Outcomes(report, file) /\ ValidFile(file) /\ \A t \in file.tasks : out[t].end # "raised"
      <3>1. CASE ~ValidFile(file)
        <4>1. o = Raised
          BY <2>2, <3>1, Zenon
        <4>2. out = Raised
          BY <4>1
        <4>3. QED
          BY <3>1, <4>2, Zenon
      <3>2. CASE ValidFile(file)
        <4>1. o \in Outcomes(report, file)
          BY <2>2, <3>2, Zenon
        <4>2. o # Raised
          <5>1. o \in [file.tasks -> End]
            BY <4>1, Zenon DEF Outcomes
          <5>2. file.tasks \in SUBSET Task
            BY <2>4, Zenon DEF FileOK
          <5>3. QED
            BY <5>1, <5>2, RaisedAssumption, Zenon
        <4>3. QED
          BY <3>2, <4>1, <4>2, Zenon
      <3>3. QED
        BY <3>1, <3>2
    <2> HIDE DEF out, file
    <2>6. /\ report'.at = "done" /\ report'.run = report.run /\ report'.ready = report.ready
          /\ report'.first = report.first /\ report'.runtime = report.runtime
          /\ report'.dry = report.dry /\ report'.confirmed = report.confirmed
          /\ report'.second = report.second /\ report'.ran = file /\ report'.outcome = out
          /\ report'.contract = report.contract /\ IsReport(report)'
      BY <2>3 DEF ReportIInv, IsReport
    <2>7. Outcomes(report', file) = Outcomes(report, file)
      BY <2>6, OutcomesSame
    <2>8. RanOK(report')
      BY <2>4, <2>5, <2>6, <2>7 DEF RanOK
    <2>9. QED
      BY <2>1, <2>6, <2>8 DEF ReportIInv
  <1>6. CASE UNCHANGED acceptance
    BY <1>6 DEF acceptance, ReportIInv
  <1>7. UNCHANGED vars => UNCHANGED acceptance
    BY DEF vars
  <1>8. Next => UNCHANGED acceptance \/ NextAcceptance(mix.mappings)
    BY DEF Next
  <1>9. QED
    BY <1>1, <1>2, <1>3, <1>4, <1>5, <1>6, <1>7, <1>8 DEF NextAcceptance

Less == {ss \in Nat \X Nat : ss[1] < ss[2]}

\* The order of the natural numbers is well-founded.
LEMMA LessWellFounded == IsWellFoundedOn(Less, Nat)
  BY NatLessThanWellFounded, Zenon DEF OpToRel, Less

\* Every set of natural numbers that is not empty has a least one: First is defined.
LEMMA HasLeast ==
    ASSUME NEW S \in SUBSET Nat, S # {}
    PROVE  \E m \in S : \A n \in S : m <= n
  <1>1. \E m \in S : \A n \in S : <<n, m>> \notin Less
    BY LessWellFounded, WFMin, Zenon
  <1>2. ASSUME NEW m \in S, NEW n \in S, <<n, m>> \notin Less
        PROVE  m <= n
    <2>1. m \in Nat /\ n \in Nat /\ ~(n < m)
      BY <1>2 DEF Less
    <2>2. QED
      BY <2>1
  <1>3. QED
    BY <1>1, <1>2, Zenon

\* Each task of a run ends as the runner lets it end.
LEMMA OutcomeEnds ==
    ASSUME NEW q, NEW file, NEW o \in Outcomes(q, file), NEW t \in file.tasks
    PROVE  /\ o[t].field => ~q.dry
           /\ o[t] \in End
           /\ o[t].end \in Ends(q, file, o, t)
  BY DEF Outcomes

\* A task that succeeds was reached, with all that its mappings pick, and is known.
LEMMA GoodEnds ==
    ASSUME NEW q, NEW file, NEW o \in Outcomes(q, file), NEW t \in file.tasks,
           o[t].end = "good"
    PROVE  /\ Known(q.runtime, t)
           /\ \A r \in file.routes : r.consumer = t => Picks(o, r)
  <1>1. o[t].end \in Ends(q, file, o, t)
    BY OutcomeEnds
  <1> DEFINE lost == {r \in file.routes : r.consumer = t /\ ~Picks(o, r)}
             early == \E u \in file.tasks : u < t /\ o[u].end # "good"
             losses == {IF r.selector.picks = "item" THEN "raised" ELSE "unresolved" : r \in lost}
  <1>2. o[t].end \in IF early THEN {"skipped"} ELSE IF lost # {} THEN losses
                     ELSE IF ~Known(q.runtime, t) THEN {"raised"}
                     ELSE Answers(q.runtime, Uses[t], q.confirmed, q.dry)
    BY <1>1, Zenon DEF Ends
  <1>3. "good" \notin losses
    OBVIOUS
  <1> HIDE DEF losses
  <1>4. lost = {} /\ (~Known(q.runtime, t) => FALSE)
    BY <1>2, <1>3
  <1>5. QED
    BY <1>4

\* Where every selector is valid and picks a field of no result, no task is refused, fails,
\* breaks or raises: then all of them succeed.
LEMMA NothingElseStops ==
    ASSUME NEW q, NEW file, FileOK(file), ValidFile(file), NEW o \in Outcomes(q, file),
           \A r \in file.routes : r.selector.valid /\ r.selector.picks # "field",
           \A t \in file.tasks : o[t].end \notin {"refused", "failed", "broken", "raised"}
    PROVE  \A t \in file.tasks : o[t].end = "good"
  <1> DEFINE Stuck == {t \in file.tasks : o[t].end # "good"}
  <1> SUFFICES ASSUME Stuck # {} PROVE FALSE
    OBVIOUS
  <1>1. Stuck \in SUBSET Nat
    BY WorkspaceAssumption DEF FileOK
  <1>2. PICK t \in Stuck : \A u \in Stuck : t <= u
    BY <1>1, HasLeast
  <1> DEFINE lost == {r \in file.routes : r.consumer = t /\ ~Picks(o, r)}
             early == \E u \in file.tasks : u < t /\ o[u].end # "good"
             losses == {IF r.selector.picks = "item" THEN "raised" ELSE "unresolved" : r \in lost}
  <1>3. o[t].end \in IF early THEN {"skipped"} ELSE IF lost # {} THEN losses
                     ELSE IF ~Known(q.runtime, t) THEN {"raised"}
                     ELSE Answers(q.runtime, Uses[t], q.confirmed, q.dry)
    BY OutcomeEnds, Zenon DEF Ends
  <1>4. ~early
    <2> SUFFICES ASSUME NEW u \in file.tasks, u < t, o[u].end # "good" PROVE FALSE
      OBVIOUS
    <2>1. t <= u /\ t \in Nat /\ u \in Nat
      BY <1>1, <1>2
    <2>2. QED
      BY <2>1
  <1>5. o[t].end # "good" /\ o[t].end \notin {"refused", "failed", "broken", "raised"}
    OBVIOUS
  <1>6. \A r \in lost : r.selector.picks = "item"
    <2> SUFFICES ASSUME NEW r \in lost PROVE r.selector.picks = "item"
      OBVIOUS
    <2>1. r \in Route /\ r.source < t /\ r.source \in file.tasks
      BY DEF FileOK, ValidFile
    <2>2. o[r.source].end = "good"
      BY <1>4, <2>1
    <2>3. HasMessage(o, r.source)
      BY <2>2 DEF HasMessage
    <2>4. r.selector.picks \in {"always", "item"}
      BY <2>1 DEF Route, Selector
    <2>5. QED
      BY <2>3, <2>4 DEF Picks
  <1>7. \A x \in losses : x = "raised"
    BY <1>6
  <1>8. \A x \in Answers(q.runtime, Uses[t], q.confirmed, q.dry) :
            x \in {"good", "refused", "failed", "broken"}
    BY DEF Answers
  <1> HIDE DEF losses, early
  <1>9. QED
    BY <1>3, <1>4, <1>5, <1>7, <1>8

\* What is raised out of a run is an index beyond its list, or a capability nobody knows.
LEMMA RaisedBecause ==
    ASSUME NEW q, NEW file, NEW o \in Outcomes(q, file), NEW t \in file.tasks, o[t].end = "raised"
    PROVE  \/ \E r \in file.routes : r.selector.picks = "item"
           \/ ~Known(q.runtime, t)
  <1> DEFINE lost == {r \in file.routes : r.consumer = t /\ ~Picks(o, r)}
             early == \E u \in file.tasks : u < t /\ o[u].end # "good"
             losses == {IF r.selector.picks = "item" THEN "raised" ELSE "unresolved" : r \in lost}
  <1>1. o[t].end \in IF early THEN {"skipped"} ELSE IF lost # {} THEN losses
                     ELSE IF ~Known(q.runtime, t) THEN {"raised"}
                     ELSE Answers(q.runtime, Uses[t], q.confirmed, q.dry)
    BY OutcomeEnds, Zenon DEF Ends
  <1>2. "raised" \in losses => \E r \in file.routes : r.selector.picks = "item"
    OBVIOUS
  <1>3. "raised" \notin Answers(q.runtime, Uses[t], q.confirmed, q.dry)
    BY DEF Answers
  <1> HIDE DEF losses, early, lost
  <1>4. QED
    BY <1>1, <1>2, <1>3

\* What makes a report accepted, and its gates, one by one.
LEMMA GatesAre ==
    ASSUME NEW q, q.ready \in BOOLEAN
    PROVE  /\ Accepted(q) <=> /\ ContractOk(q.contract) /\ q.ready /\ q.contract.blocked = {}
                              /\ ~q.run \/ RunVerdict(q) = "completed"
                              /\ ~q.run \/ FailedRoutes(q) = {}
           /\ Gates(q).contract <=> ContractOk(q.contract)
           /\ Gates(q).readiness <=> q.ready
           /\ Gates(q).routes <=> q.contract.blocked = {}
           /\ Gates(q).completed <=> (~q.run \/ RunVerdict(q) = "completed")
           /\ Gates(q).mapped <=> (~q.run \/ FailedRoutes(q) = {})
  <1> DEFINE a == ContractOk(q.contract)
             b == q.contract.blocked = {}
             c == ~q.run \/ RunVerdict(q) = "completed"
             d == ~q.run \/ FailedRoutes(q) = {}
  <1>1. a \in BOOLEAN /\ b \in BOOLEAN /\ c \in BOOLEAN /\ d \in BOOLEAN
    BY DEF ContractOk
  <1>2. Gates(q) = [contract |-> a, readiness |-> q.ready, routes |-> b, completed |-> c, mapped |-> d]
    BY Zenon DEF Gates
  <1> HIDE DEF a, b, c, d
  <1>3. /\ Gates(q).contract = a /\ Gates(q).readiness = q.ready /\ Gates(q).routes = b
        /\ Gates(q).completed = c /\ Gates(q).mapped = d
        /\ DOMAIN Gates(q) = {"contract", "readiness", "routes", "completed", "mapped"}
    BY <1>2
  <1>4. Accepted(q) <=> \A k \in DOMAIN Gates(q) : Gates(q)[k]
    BY Zenon DEF Accepted
  <1>5. Accepted(q) <=> a /\ q.ready /\ b /\ c /\ d
    BY <1>1, <1>3, <1>4
  <1>6. QED
    BY <1>1, <1>3, <1>5 DEF a, b, c, d

\* A valid workflow with no blocked mapping.
LEMMA ContractSays ==
    ASSUME NEW runtime, NEW file, ContractOk(Contract(runtime, file))
    PROVE  /\ ValidFile(file)
           /\ \A r \in file.routes : RouteBlockers(runtime, file, r) = {} /\ r.selector.valid
  BY DEF Contract, ContractOk

\* Where a mapping is not blocked, the capabilities on both sides are known.
LEMMA NotBlocked ==
    ASSUME NEW runtime, NEW file, NEW r, RouteBlockers(runtime, file, r) = {}
    PROVE  Known(runtime, r.source) /\ Known(runtime, r.consumer)
  <1>1. "source capability" \notin RouteBlockers(runtime, file, r)
    OBVIOUS
  <1>2. "consumer capability" \notin RouteBlockers(runtime, file, r)
    OBVIOUS
  <1>3. Known(runtime, r.source)
    BY <1>1 DEF RouteBlockers
  <1>4. Known(runtime, r.consumer)
    BY <1>2 DEF RouteBlockers
  <1>5. QED
    BY <1>3, <1>4

\* A run whose tasks all succeed has a message for every mapping, and picks all they need.
LEMMA CompletedRun ==
    ASSUME NEW q, RanOK(q), RunVerdict(q) = "completed"
    PROVE  /\ q.outcome \in Outcomes(q, q.ran) /\ ValidFile(q.ran)
           /\ \A t \in q.ran.tasks : q.outcome[t].end = "good" /\ Known(q.runtime, t)
           /\ \A r \in q.ran.routes : Picks(q.outcome, r)
           /\ FailedRoutes(q) = {}
  <1>1. q.outcome # Raised /\ ~EvidenceRaises(q)
    BY DEF RunVerdict
  <1>2. q.outcome \in Outcomes(q, q.ran) /\ ValidFile(q.ran)
    BY <1>1, Zenon DEF RanOK
  <1>3. \A t \in q.ran.tasks : q.outcome[t].end = "good"
    BY <1>1 DEF RunVerdict
  <1>4. \A t \in q.ran.tasks : Known(q.runtime, t)
    BY <1>2, <1>3, GoodEnds
  <1>5. \A r \in q.ran.routes : r.consumer \in q.ran.tasks
    BY DEF RanOK, FileOK
  <1>6. FailedRoutes(q) = {}
    BY <1>3, <1>5 DEF FailedRoutes, Matched
  <1>7. QED
    BY <1>1, <1>2, <1>3, <1>4, <1>6 DEF EvidenceRaises

\* A run that does not complete though its contract is in order was stopped by what the
\* contract does not look at.
LEMMA FailureExplained ==
    ASSUME NEW q, RanOK(q), RunVerdict(q) # "completed",
           ContractOk(Contract(q.runtime, q.ran))
    PROVE  \/ /\ q.outcome = Raised
              /\ \/ \E t \in q.ran.tasks \ ({r.source : r \in q.ran.routes}
                                              \cup {r.consumer : r \in q.ran.routes}) :
                        ~Known(q.runtime, t)
                 \/ \E r \in q.ran.routes : r.selector.picks = "item"
           \/ /\ q.outcome # Raised
              /\ \/ \E t \in q.ran.tasks : q.outcome[t].end \in {"refused", "failed", "broken"}
                 \/ \E r \in q.ran.routes : r.selector.picks = "field"
  <1>1. /\ ValidFile(q.ran)
        /\ \A r \in q.ran.routes : /\ r.selector.valid /\ Known(q.runtime, r.source)
                                     /\ Known(q.runtime, r.consumer)
    BY ContractSays, NotBlocked
  <1>2. CASE q.outcome = Raised /\ q.outcome \notin Outcomes(q, q.ran)
    <2>1. PICK o \in Outcomes(q, q.ran) : \E t \in q.ran.tasks : o[t].end = "raised"
      BY <1>1, <1>2 DEF RanOK
    <2>2. PICK t \in q.ran.tasks : o[t].end = "raised"
      BY <2>1
    <2>3. (\E r \in q.ran.routes : r.selector.picks = "item") \/ ~Known(q.runtime, t)
      BY <2>2, RaisedBecause
    <2>4. CASE ~Known(q.runtime, t)
      <3>1. t \notin {r.source : r \in q.ran.routes} \cup {r.consumer : r \in q.ran.routes}
        BY <1>1, <2>4
      <3>2. QED
        BY <1>2, <2>4, <3>1
    <2>5. QED
      BY <1>2, <2>3, <2>4
  <1>3. Raised \notin Outcomes(q, q.ran)
    <2>1. q.ran.tasks \in SUBSET Task
      BY DEF RanOK, FileOK
    <2>2. Raised \notin [q.ran.tasks -> End]
      BY <2>1, RaisedAssumption, Zenon
    <2>3. QED
      BY <2>2, Zenon DEF Outcomes
  <1>4. CASE q.outcome # Raised
    <2> SUFFICES ASSUME \A t \in q.ran.tasks :
                            q.outcome[t].end \notin {"refused", "failed", "broken"},
                        \A r \in q.ran.routes : r.selector.picks # "field"
                 PROVE  FALSE
      BY <1>4
    <2>1. /\ FileOK(q.ran) /\ q.outcome \in Outcomes(q, q.ran)
          /\ \A t \in q.ran.tasks : q.outcome[t].end # "raised"
      BY <1>4, Zenon DEF RanOK
    <2>2. \A t \in q.ran.tasks :
              q.outcome[t].end \notin {"refused", "failed", "broken", "raised"}
      BY <2>1
    <2>3. \A t \in q.ran.tasks : q.outcome[t].end = "good"
      BY <1>1, <2>1, <2>2, NothingElseStops
    <2>4. \A r \in q.ran.routes : Picks(q.outcome, r)
      BY <2>1, <2>3, GoodEnds DEF FileOK
    <2>5. ~EvidenceRaises(q)
      BY <2>4 DEF EvidenceRaises
    <2>6. RunVerdict(q) = "completed"
      BY <1>4, <2>3, <2>5 DEF RunVerdict
    <2>7. QED
      BY <2>6
  <1>5. QED
    BY <1>2, <1>3, <1>4

\* The invariant of the report implies that its verdict is earned.
LEMMA EarnedBecause == ReportIInv => AcceptanceIsEarned
  <1> SUFFICES ASSUME ReportIInv, report.at = "done" PROVE AcceptanceIsEarned
    BY DEF AcceptanceIsEarned
  <1> DEFINE q == report
             action == RecommendedNextAction(q)
             sources == {r.source : r \in q.ran.routes}
             consumers == {r.consumer : r \in q.ran.routes}
             mapped == sources \cup consumers
  <1>1. /\ q.ready \in BOOLEAN /\ q.run \in BOOLEAN
        /\ FileOK(q.first) /\ q.contract = Contract(q.runtime, q.first)
        /\ q.ready = BridgeReady(q.runtime, Contract(q.runtime, q.second))
        /\ q.run => RanOK(q)
    BY DEF ReportIInv
  <1>2. ASSUME q.run, RunVerdict(q) = "completed"
        PROVE  FailedRoutes(q) = {}
    BY <1>1, <1>2, CompletedRun
  <1>3. /\ Accepted(q) <=> /\ ContractOk(q.contract) /\ q.ready /\ q.contract.blocked = {}
                           /\ ~q.run \/ RunVerdict(q) = "completed"
                           /\ ~q.run \/ FailedRoutes(q) = {}
        /\ Gates(q).contract <=> ContractOk(q.contract)
        /\ Gates(q).readiness <=> q.ready
        /\ Gates(q).routes <=> q.contract.blocked = {}
        /\ Gates(q).completed <=> (~q.run \/ RunVerdict(q) = "completed")
        /\ Gates(q).mapped <=> (~q.run \/ FailedRoutes(q) = {})
    BY <1>1, GatesAre
  <1>4. Accepted(q) /\ q.run =>
               /\ \A t \in q.ran.tasks : q.outcome[t].end = "good" /\ Known(q.runtime, t)
               /\ \A r \in q.ran.routes : Picks(q.outcome, r) /\ r.selector.valid
               /\ q.dry => \A r \in q.ran.routes : r.selector.picks # "field"
    <2> SUFFICES ASSUME Accepted(q), q.run
                 PROVE  /\ \A t \in q.ran.tasks : q.outcome[t].end = "good" /\ Known(q.runtime, t)
                        /\ \A r \in q.ran.routes : Picks(q.outcome, r) /\ r.selector.valid
                        /\ q.dry => \A r \in q.ran.routes : r.selector.picks # "field"
      OBVIOUS
    <2>1. /\ q.outcome \in Outcomes(q, q.ran) /\ ValidFile(q.ran) /\ FileOK(q.ran)
          /\ \A t \in q.ran.tasks : q.outcome[t].end = "good" /\ Known(q.runtime, t)
          /\ \A r \in q.ran.routes : Picks(q.outcome, r)
      BY <1>1, <1>3, CompletedRun DEF RanOK
    <2>2. ASSUME NEW r \in q.ran.routes
          PROVE  r.selector.valid /\ (q.dry => r.selector.picks # "field")
      <3>1. Picks(q.outcome, r) /\ r.selector \in Selector /\ r.source \in q.ran.tasks
        BY <2>1 DEF FileOK, Route, ValidFile
      <3>2. r.selector.valid
        <4>1. r.selector.picks # "never"
          BY <3>1 DEF Picks
        <4>2. QED
          BY <3>1, <4>1 DEF Selector
      <3>3. q.outcome[r.source].field => ~q.dry
        BY <2>1, <3>1, OutcomeEnds
      <3>4. r.selector.picks = "field" => q.outcome[r.source].field
        BY <3>1 DEF Picks
      <3>5. QED
        BY <3>2, <3>3, <3>4
    <2>3. QED
      BY <2>1, <2>2
  <1>5. action = IF Accepted(q)
                 THEN IF q.run THEN "use_as_runtime_cli_to_cli_fixture"
                      ELSE "run_acceptance_with_dry_run_or_protocol_smoke"
                 ELSE IF ~Gates(q).contract \/ ~Gates(q).routes THEN "fix_workflow_bridge_contract"
                 ELSE IF ~Gates(q).readiness THEN "fix_protocol_readiness_blockers"
                 ELSE IF ~Gates(q).completed THEN "inspect_workflow_runtime_failure"
                 ELSE IF ~Gates(q).mapped THEN "inspect_runtime_route_mapping"
                 ELSE "inspect_acceptance_report"
    BY Zenon DEF RecommendedNextAction
  <1> HIDE DEF action
  <1>6. action \notin {"inspect_runtime_route_mapping", "inspect_acceptance_report"}
    BY <1>2, <1>3, <1>5
  <1>7. q.run /\ action = "inspect_workflow_runtime_failure" /\ q.first = q.ran =>
               \/ /\ q.outcome = Raised
                  /\ \/ \E t \in q.ran.tasks \ mapped : ~Known(q.runtime, t)
                     \/ \E r \in q.ran.routes : r.selector.picks = "item"
               \/ /\ q.outcome # Raised
                  /\ \/ \E t \in q.ran.tasks : q.outcome[t].end \in {"refused", "failed", "broken"}
                     \/ \E r \in q.ran.routes : r.selector.picks = "field"
    <2>1. action = "inspect_workflow_runtime_failure" => ~Gates(q).completed /\ Gates(q).contract
      BY <1>5
    <2>2. ASSUME q.run, action = "inspect_workflow_runtime_failure", q.first = q.ran
          PROVE  RanOK(q) /\ RunVerdict(q) # "completed" /\ ContractOk(Contract(q.runtime, q.ran))
      BY <1>1, <1>3, <2>1, <2>2
    <2>3. QED
      BY <2>2, FailureExplained
  <1>8. action = "fix_protocol_readiness_blockers" /\ q.first = q.second =>
               \A c \in Capability : ~q.runtime.manifest[c].known
    <2>1. action = "fix_protocol_readiness_blockers" => ~Gates(q).readiness /\ Gates(q).contract
      BY <1>5
    <2>2. QED
      BY <1>1, <1>3, <2>1 DEF BridgeReady, ContractOk
  <1>9. QED
    BY <1>4, <1>6, <1>7, <1>8, Zenon DEF AcceptanceIsEarned, action

\* An accepted workflow has earned it and a rejected one is told why, for every workflow,
\* mapping and manifest, and also where they change between the readings of the report
\* (acceptance.py).
THEOREM AcceptanceAlwaysEarned == Spec => []AcceptanceIsEarned
  <1>1. Init => WorkspaceTypeOK /\ ReportIInv
    BY WorkspaceInit, ReportInit
  <1>2. WorkspaceTypeOK /\ ReportIInv /\ [Next]_vars => (WorkspaceTypeOK /\ ReportIInv)'
    BY WorkspaceNext, ReportNext
  <1>3. QED
    BY <1>1, <1>2, EarnedBecause, PTL DEF Spec

(* Workflow packages *)

\* The number of a task in a workflow.
Rank(tasks, t) == Cardinality({u \in tasks : u <= t})
Parser == {m.parser : m \in Manifest}

\* A compile has as many steps as it writes files; a run has none.
JobOK(q) ==
    /\ q = [at |-> q.at, step |-> q.step, runtime |-> q.runtime, tasks |-> q.tasks, dry |-> q.dry,
            confirmed |-> q.confirmed, result |-> q.result, status |-> q.status]
    /\ q.at \in {"none", "writing", "load", "verify", "run", "validate", "done"}
    /\ q.step \in Nat /\ q.runtime \in RuntimeType /\ q.tasks \subseteq Task
    /\ q.at = "none" => q.step = 0 /\ q.result = Nothing /\ q.status = "none"
    /\ q.at = "writing" => q.step > 0 /\ q.step <= Cardinality(q.tasks) + 3
    /\ q.step > 0 => /\ q.at \in {"writing", "done"} /\ q.tasks # {}
                     /\ q.result = Nothing /\ q.status = "none"
                     /\ q.at = "done" => q.step = Cardinality(q.tasks) + 4
    /\ q.at \in {"load", "verify", "run", "validate"} => q.status = "none"
    /\ q.at \in {"load", "verify", "run"} => q.result = Nothing
    /\ q.at \in {"verify", "run", "validate"} => q.tasks # {}
    /\ q.at = "validate" => /\ q.result \in Runs(q.runtime, q.tasks, q.confirmed, q.dry)
                            /\ RunStatus(q.result) # "raised"

\* The files of a package have the contents of such files.
PkgOK(p) ==
    /\ p = [workflow |-> p.workflow, lock |-> p.lock, report |-> p.report, golden |-> p.golden,
            state |-> p.state, schema |-> p.schema]
    /\ p.workflow \in Document \cup {Nothing}
    /\ p.schema \in [Task -> Parser \cup {Nothing}]

\* The last compile, and the last one before a run.
Last(jobs, i) == jobs[i].step > 0 /\ \A k \in Job : jobs[k].step > 0 => k <= i
Before(jobs, j, i) ==
    i < j /\ jobs[i].step > 0 /\ \A k \in Job : k < j /\ jobs[k].step > 0 => k <= i

\* The files that compile q has written so far.
FilesOK(q, p) ==
    /\ \A t \in q.tasks : Rank(q.tasks, t) < q.step => p.schema[t] = Schema(q.runtime, t)
    /\ q.step > Cardinality(q.tasks) + 1 => p.workflow = q.tasks
    /\ q.step > Cardinality(q.tasks) + 2 => p.lock = Lock(q.runtime, q.tasks)
    /\ q.step > Cardinality(q.tasks) + 3 => p.report # Nothing /\ p.golden # Nothing

AsCompiled(q, p) ==
    /\ q.tasks = p.tasks
    /\ \A t \in q.tasks : q.runtime.manifest[Uses[t]] = p.runtime.manifest[Uses[t]]

\* Run q has loaded, and verified, what the last compile before it has written; it raises
\* where there is none, or where a task breaks.
RunOK(q, jobs, j) ==
    /\ q.at \in {"verify", "run", "validate"} =>
           \E i \in Job : Before(jobs, j, i) /\ q.tasks = jobs[i].tasks
    /\ q.at \in {"run", "validate"} \/ q.result # Nothing =>
           \E i \in Job : Before(jobs, j, i) /\ AsCompiled(q, jobs[i])
    /\ q.status = "raised" => \/ \A i \in Job : i < j => jobs[i].step = 0
                              \/ q.result # Nothing /\ \E t \in q.tasks : q.result[t] = "broken"

StaleOK(q, schema) == q.status = "schema-failed" => \E t \in Task \ q.tasks : schema[t] # Nothing

\* The state file tells of the run it names.
StateOK(jobs, state) ==
    state # Nothing =>
        /\ state.run \in Job /\ jobs[state.run].at = "done"
        /\ jobs[state.run].status \notin {"none", "raised", "rejected"}
        /\ state.status = "completed" <=> jobs[state.run].status = "completed"
        /\ jobs[state.run].status \in {"completed", "schema-failed"} <=>
               \A t \in jobs[state.run].tasks : state.tasks[t] = "completed"

\* Jobs follow each other, and each finds what the last compile has left.
Orderly ==
    /\ job = [j \in Job |-> job[j]] /\ \A j \in Job : JobOK(job[j])
    /\ PkgOK(pkg)
    /\ \A i, j \in Job : i < j /\ job[j].at # "none" => job[i].at = "done"
    /\ (\E j \in Job : job[j].step > 0) => \E i \in Job : Last(job, i)
    /\ \A i \in Job : Last(job, i) => FilesOK(job[i], pkg)
    /\ (\A j \in Job : job[j].step = 0) => pkg.workflow = Nothing
    /\ \A j \in Job : RunOK(job[j], job, j) /\ StaleOK(job[j], pkg.schema)
    /\ StateOK(job, pkg.state)

\* The inductive invariant of the package.
PackageIInv == ~disturbed => Orderly

\* A set of tasks is finite, and each task has a rank in it, from 1 to its size.
LEMMA FiniteTasks ==
    ASSUME NEW T \in SUBSET Task
    PROVE  /\ IsFiniteSet(T) /\ Cardinality(T) \in Nat /\ (T # {} => Cardinality(T) > 0)
           /\ \A t \in T : /\ IsFiniteSet({u \in T : u <= t})
                           /\ Rank(T, t) \in Nat /\ Rank(T, t) >= 1 /\ Rank(T, t) <= Cardinality(T)
  <1>1. IsFiniteSet(T)
    BY WorkspaceAssumption, FS_Subset
  <1>2. Cardinality(T) \in Nat
    BY <1>1, FS_CardinalityType
  <1>3. T # {} => Cardinality(T) # 0
    BY <1>1, FS_EmptySet
  <1>4. ASSUME NEW t \in T
        PROVE  /\ IsFiniteSet({u \in T : u <= t})
               /\ Rank(T, t) \in Nat /\ Rank(T, t) >= 1 /\ Rank(T, t) <= Cardinality(T)
    <2> DEFINE S == {u \in T : u <= t}
    <2>1. S \subseteq T /\ t \in S
      BY WorkspaceAssumption
    <2>2. IsFiniteSet(S) /\ Cardinality(S) <= Cardinality(T)
      BY <1>1, <2>1, FS_Subset
    <2>3. Cardinality(S) \in Nat /\ Cardinality(S) # 0
      BY <2>1, <2>2, FS_CardinalityType, FS_EmptySet
    <2>4. Rank(T, t) = Cardinality(S)
      BY DEF Rank
    <2> HIDE DEF S
    <2>5. Rank(T, t) \in Nat /\ Rank(T, t) >= 1 /\ Rank(T, t) <= Cardinality(T)
      BY <2>2, <2>3, <2>4
    <2>6. QED
      BY <2>2, <2>5 DEF S
  <1>5. QED
    BY <1>1, <1>2, <1>3, <1>4

\* Ranks follow the order of the tasks.
LEMMA RankGrows ==
    ASSUME NEW T \in SUBSET Task, NEW t \in T, NEW u \in T, t < u
    PROVE  Rank(T, t) < Rank(T, u)
  <1> DEFINE A == {x \in T : x <= t}
             B == {x \in T : x <= u}
  <1>1. t \in Nat /\ u \in Nat /\ T \subseteq Nat
    BY WorkspaceAssumption
  <1>2. A \cup {u} \subseteq B /\ u \notin A
    <2>1. ASSUME NEW x \in T, x <= t PROVE x <= u
      BY <1>1, <2>1
    <2>2. u <= u /\ ~(u <= t)
      BY <1>1
    <2>3. QED
      BY <2>1, <2>2
  <1>3. IsFiniteSet(A) /\ IsFiniteSet(B)
    BY FiniteTasks
  <1>4. Rank(T, t) = Cardinality(A) /\ Rank(T, u) = Cardinality(B)
    BY DEF Rank
  <1> HIDE DEF A, B
  <1>5. IsFiniteSet(A \cup {u}) /\ Cardinality(A \cup {u}) = Cardinality(A) + 1
    BY <1>2, <1>3, FS_AddElement
  <1>6. Cardinality(A \cup {u}) <= Cardinality(B)
    BY <1>2, <1>3, FS_Subset
  <1>7. Cardinality(A) \in Nat /\ Cardinality(B) \in Nat
    BY <1>3, FS_CardinalityType
  <1>8. QED
    BY <1>4, <1>5, <1>6, <1>7

\* The task that is number k of a workflow is the only one with that number.
LEMMA RankInjective ==
    ASSUME NEW T \in SUBSET Task, NEW t \in T, NEW u \in T, Rank(T, t) = Rank(T, u)
    PROVE  t = u
  <1>1. t \in Nat /\ u \in Nat
    BY WorkspaceAssumption
  <1>2. Rank(T, t) \in Nat /\ Rank(T, u) \in Nat
    BY FiniteTasks
  <1>3. ~(t < u)
    BY <1>2, RankGrows
  <1>4. ~(u < t)
    BY <1>2, RankGrows
  <1>5. QED
    BY <1>1, <1>3, <1>4

\* A step of a run, which leaves workflow, lock and schemas, keeps the package orderly.
LEMMA RunStep ==
    ASSUME Orderly, NEW j \in Job, NEW q, job' = [job EXCEPT ![j] = q], JobOK(q),
           job[j].step = 0, q.step = 0, job[j].at # "done", q.at # "none",
           \A i \in Job : i < j => job[i].at = "done",
           PkgOK(pkg'), pkg'.workflow = pkg.workflow, pkg'.lock = pkg.lock,
           pkg'.report = pkg.report, pkg'.schema = pkg.schema,
           pkg.golden # Nothing => pkg'.golden # Nothing,
           RunOK(q, job', j), StaleOK(q, pkg.schema), StateOK(job', pkg'.state)
    PROVE  Orderly'
  <1>1. /\ job' = [i \in Job |-> job'[i]] /\ job'[j] = q
        /\ \A i \in Job \ {j} : job'[i] = job[i]
    BY DEF Orderly
  <1>2. \A i \in Job : job'[i].step = job[i].step
    BY <1>1
  <1>3. ASSUME NEW i \in Job
        PROVE  Last(job', i) <=> Last(job, i)
    BY <1>2 DEF Last
  <1>4. ASSUME NEW k \in Job, NEW i \in Job
        PROVE  Before(job', k, i) <=> Before(job, k, i)
    BY <1>2 DEF Before
  <1>5. \A i \in Job : JobOK(job'[i])
    BY <1>1 DEF Orderly
  <1>6. ASSUME NEW i \in Job, NEW k \in Job, i < k, job'[k].at # "none"
        PROVE  job'[i].at = "done"
    <2>1. i \in Nat /\ k \in Nat /\ j \in Nat
      BY PackageAssumption
    <2>2. CASE k = j
      BY <1>1, <1>6, <2>1, <2>2
    <2>3. CASE k # j
      <3>1. job[k].at # "none" /\ job[i].at = "done"
        BY <1>1, <1>6, <2>3 DEF Orderly
      <3>2. QED
        BY <1>1, <3>1
    <2>4. QED
      BY <2>2, <2>3
  <1>7. (\E i \in Job : job'[i].step > 0) => \E i \in Job : Last(job', i)
    BY <1>2, <1>3 DEF Orderly
  <1>8. ASSUME NEW i \in Job, Last(job', i)
        PROVE  FilesOK(job'[i], pkg')
    <2>1. Last(job, i) /\ job[i].step > 0
      BY <1>3, <1>8 DEF Last
    <2>2. job'[i] = job[i]
      BY <1>1, <2>1
    <2>3. FilesOK(job[i], pkg)
      BY <2>1 DEF Orderly
    <2>4. QED
      BY <2>2, <2>3 DEF FilesOK
  <1>9. (\A i \in Job : job'[i].step = 0) => pkg'.workflow = Nothing
    BY <1>2 DEF Orderly
  <1>10. ASSUME NEW k \in Job
         PROVE  RunOK(job'[k], job', k) /\ StaleOK(job'[k], pkg'.schema)
    <2>1. CASE k = j
      BY <1>1, <2>1 DEF StaleOK
    <2>2. CASE k # j
      <3>1. RunOK(job[k], job, k) /\ StaleOK(job[k], pkg.schema) /\ job'[k] = job[k]
        BY <1>1, <2>2 DEF Orderly
      <3>2. \A i \in Job : Before(job, k, i) => job'[i] = job[i]
        BY <1>1 DEF Before
      <3>3. RunOK(job'[k], job', k)
        BY <1>2, <1>4, <3>1, <3>2 DEF RunOK
      <3>4. QED
        BY <3>1, <3>3 DEF StaleOK
    <2>3. QED
      BY <2>1, <2>2
  <1>11. QED
    BY <1>1, <1>5, <1>6, <1>7, <1>8, <1>9, <1>10 DEF Orderly

\* A step of the last compile, which leaves the schemas there are, keeps the package orderly.
LEMMA CompileStep ==
    ASSUME Orderly, NEW j \in Job, NEW q, job' = [job EXCEPT ![j] = q], JobOK(q),
           q.step > 0, job[j].at # "done", q.at # "none",
           \A i \in Job : i < j => job[i].at = "done",
           PkgOK(pkg'), FilesOK(q, pkg'), pkg'.state = pkg.state,
           \A t \in Task : pkg.schema[t] # Nothing => pkg'.schema[t] # Nothing
    PROVE  Orderly'
  <1>0. Job \subseteq Nat
    BY PackageAssumption
  <1>1. /\ job' = [i \in Job |-> job'[i]] /\ job'[j] = q
        /\ \A i \in Job \ {j} : job'[i] = job[i]
    BY DEF Orderly
  <1>2. \A i \in Job : i > j => job[i].at = "none" /\ job[i].step = 0 /\ job[i].result = Nothing
                               /\ job[i].status = "none"
    <2> SUFFICES ASSUME NEW i \in Job, i > j
                 PROVE  job[i].at = "none" /\ JobOK(job[i])
      BY DEF JobOK
    <2>1. j < i
      BY <1>0
    <2>2. QED
      BY <2>1 DEF Orderly
  <1>3. ASSUME NEW i \in Job
        PROVE  Last(job', i) <=> i = j
    <2>1. \A k \in Job : job'[k].step > 0 => k <= j
      <3> SUFFICES ASSUME NEW k \in Job, job'[k].step > 0, ~(k <= j) PROVE FALSE
        OBVIOUS
      <3>1. k > j /\ k # j
        BY <1>0
      <3>2. job[k].step = 0 /\ job'[k] = job[k]
        BY <1>1, <1>2, <3>1
      <3>3. QED
        BY <3>2
    <2>2. Last(job', j)
      BY <1>1, <2>1 DEF Last
    <2>3. Last(job', i) => i <= j /\ j <= i
      BY <1>1, <2>1 DEF Last
    <2>4. QED
      BY <1>0, <2>2, <2>3
  <1>4. ASSUME NEW k \in Job, k < j, NEW i \in Job
        PROVE  Before(job', k, i) <=> Before(job, k, i)
    <2>1. \A m \in Job : m < k => job'[m] = job[m]
      BY <1>0, <1>1, <1>4
    <2>2. QED
      BY <2>1 DEF Before
  <1>5. \A i \in Job : JobOK(job'[i])
    BY <1>1 DEF Orderly
  <1>6. ASSUME NEW i \in Job, NEW k \in Job, i < k, job'[k].at # "none"
        PROVE  job'[i].at = "done"
    <2>1. i \in Nat /\ k \in Nat /\ j \in Nat
      BY PackageAssumption
    <2>2. CASE k = j
      BY <1>1, <1>6, <2>1, <2>2
    <2>3. CASE k # j
      <3>1. job[k].at # "none" /\ job[i].at = "done"
        BY <1>1, <1>6, <2>3 DEF Orderly
      <3>2. QED
        BY <1>1, <3>1
    <2>4. QED
      BY <2>2, <2>3
  <1>7. ASSUME NEW k \in Job
        PROVE  RunOK(job'[k], job', k) /\ StaleOK(job'[k], pkg'.schema)
    <2>1. CASE k = j
      <3>1. q.at \in {"writing", "done"} /\ q.result = Nothing /\ q.status = "none"
        BY DEF JobOK
      <3>2. QED
        BY <1>1, <2>1, <3>1 DEF RunOK, StaleOK
    <2>2. CASE k < j
      <3>1. RunOK(job[k], job, k) /\ StaleOK(job[k], pkg.schema) /\ job'[k] = job[k]
        BY <1>0, <1>1, <2>2 DEF Orderly
      <3>2. \A i \in Job : i < k => job'[i] = job[i]
        BY <1>0, <1>1, <2>2
      <3>3. \A i \in Job : Before(job', k, i) <=> Before(job, k, i)
        BY <1>4, <2>2
      <3>4. \A i \in Job : Before(job, k, i) => i < k
        BY DEF Before
      <3>5. RunOK(job'[k], job', k)
        BY <3>1, <3>2, <3>3, <3>4 DEF RunOK
      <3>6. QED
        BY <3>1, <3>5 DEF StaleOK
    <2>3. CASE k > j
      <3>1. job'[k] = job[k] /\ job[k].at = "none" /\ job[k].result = Nothing /\ job[k].status = "none"
        BY <1>0, <1>1, <1>2, <2>3
      <3>2. QED
        BY <3>1 DEF RunOK, StaleOK
    <2>4. QED
      BY <1>0, <2>1, <2>2, <2>3
  <1>8. StateOK(job', pkg'.state)
    <2>1. StateOK(job, pkg.state)
      BY DEF Orderly
    <2>2. pkg.state # Nothing => job'[pkg.state.run] = job[pkg.state.run]
      BY <1>1, <2>1 DEF StateOK
    <2>3. QED
      BY <2>1, <2>2 DEF StateOK
  <1>9. ~(\A i \in Job : job'[i].step = 0)
    BY <1>1
  <1>10. \A i \in Job : Last(job', i) => FilesOK(job'[i], pkg')
    BY <1>1, <1>3
  <1>11. \E i \in Job : Last(job', i)
    BY <1>3
  <1>12. QED
    BY <1>1, <1>5, <1>6, <1>7, <1>8, <1>9, <1>10, <1>11 DEF Orderly

\* A run at work comes after the last compile, which has ended.
LEMMA LastBefore ==
    ASSUME Orderly, NEW j \in Job, job[j].at \notin {"none", "done"}, job[j].step = 0, NEW i \in Job
    PROVE  /\ Before(job, j, i) <=> Last(job, i)
           /\ Last(job, i) => /\ JobOK(job[i]) /\ job[i].step = Cardinality(job[i].tasks) + 4
                              /\ FilesOK(job[i], pkg)
  <1>1. \A k \in Job : k > j => job[k].step = 0
    <2> SUFFICES ASSUME NEW k \in Job, k > j PROVE job[k].step = 0
      OBVIOUS
    <2>1. j < k
      BY PackageAssumption
    <2>2. job[k].at = "none"
      BY <2>1 DEF Orderly
    <2>3. QED
      BY <2>2 DEF Orderly, JobOK
  <1>2. \A k \in Job : job[k].step > 0 => k < j
    <2> SUFFICES ASSUME NEW k \in Job, job[k].step > 0, ~(k < j) PROVE FALSE
      OBVIOUS
    <2>1. k = j \/ k > j
      BY PackageAssumption
    <2>2. QED
      BY <1>1, <2>1
  <1>3. Before(job, j, i) <=> Last(job, i)
    BY <1>2 DEF Before, Last
  <1>4. ASSUME Last(job, i)
        PROVE  /\ JobOK(job[i]) /\ job[i].step = Cardinality(job[i].tasks) + 4
               /\ FilesOK(job[i], pkg)
    <2>1. i < j /\ job[i].step > 0
      BY <1>2, <1>4 DEF Last
    <2>2. job[i].at = "done" /\ JobOK(job[i])
      BY <2>1 DEF Orderly
    <2>3. QED
      BY <1>4, <2>1, <2>2 DEF Orderly, JobOK
  <1>5. QED
    BY <1>3, <1>4

\* A job begins only when all earlier ones are done.
LEMMA EarlierDone ==
    ASSUME Orderly, NEW j \in Job, job[j].at # "none"
    PROVE  \A i \in Job : i < j => job[i].at = "done"
  BY DEF Orderly

\* When a job begins and no two overlap, all earlier ones are done.
LEMMA BegunAlone ==
    ASSUME Orderly, NEW j \in Job, Begin(j), ~disturbed'
    PROVE  /\ \A i \in Job : i < j => job[i].at = "done"
           /\ ~disturbed /\ job[j].at = "none" /\ pkg' = pkg
  BY DEF Begin, AtWork

\* The state file tells of a run that is done, which no later step changes.
LEMMA StateStill ==
    ASSUME Orderly, NEW j \in Job, job[j].at # "done", NEW q, job' = [job EXCEPT ![j] = q]
    PROVE  StateOK(job', pkg.state)
  <1>1. StateOK(job, pkg.state)
    BY DEF Orderly
  <1>2. \A i \in Job \ {j} : job'[i] = job[i]
    BY DEF Orderly
  <1>3. pkg.state # Nothing => job'[pkg.state.run] = job[pkg.state.run]
    BY <1>1, <1>2 DEF StateOK
  <1>4. QED
    BY <1>1, <1>3 DEF StateOK

\* BeginCompile: a new compile is the last one, and no run follows it yet.
LEMMA BeginCompileStep ==
    ASSUME Orderly, WorkspaceTypeOK, NEW j \in Job, BeginCompile(j), ~disturbed'
    PROVE  Orderly'
  <1> DEFINE q == [job[j] EXCEPT !.at = "writing", !.step = 1, !.runtime = Runtime, !.tasks = document]
  <1>1. Begin(j) /\ job' = [job EXCEPT ![j] = q]
    BY DEF BeginCompile
  <1>2. (\A i \in Job : i < j => job[i].at = "done") /\ job[j].at = "none" /\ pkg' = pkg
    BY <1>1, BegunAlone
  <1>3. JobOK(job[j])
    BY DEF Orderly
  <1>4. document \in SUBSET Task /\ document # {}
    BY DEF WorkspaceTypeOK, Document
  <1>5. Cardinality(document) \in Nat /\ Cardinality(document) > 0
        /\ \A t \in document : Rank(document, t) \in Nat /\ Rank(document, t) >= 1
    BY <1>4, FiniteTasks
  <1>6. Runtime \in RuntimeType
    BY RuntimeOfType
  <1>7. /\ q = [at |-> "writing", step |-> 1, runtime |-> Runtime, tasks |-> document,
                dry |-> job[j].dry, confirmed |-> job[j].confirmed,
                result |-> Nothing, status |-> "none"]
    <2> DEFINE none == [at |-> "none", step |-> 0, runtime |-> job[j].runtime, tasks |-> job[j].tasks,
                        dry |-> job[j].dry, confirmed |-> job[j].confirmed,
                        result |-> Nothing, status |-> "none"]
    <2>1. job[j] = none
      BY <1>2, <1>3 DEF JobOK
    <2> DEFINE a == [none EXCEPT !.at = "writing"]
               b == [a EXCEPT !.step = 1]
               c == [b EXCEPT !.runtime = Runtime]
               d == [c EXCEPT !.tasks = document]
    <2>2. q = d
      BY <2>1, Zenon
    <2>3. a = [at |-> "writing", step |-> 0, runtime |-> job[j].runtime, tasks |-> job[j].tasks,
               dry |-> job[j].dry, confirmed |-> job[j].confirmed,
               result |-> Nothing, status |-> "none"]
      OBVIOUS
    <2> HIDE DEF a
    <2>4. b = [at |-> "writing", step |-> 1, runtime |-> job[j].runtime, tasks |-> job[j].tasks,
               dry |-> job[j].dry, confirmed |-> job[j].confirmed,
               result |-> Nothing, status |-> "none"]
      BY <2>3
    <2> HIDE DEF b
    <2>5. c = [at |-> "writing", step |-> 1, runtime |-> Runtime, tasks |-> job[j].tasks,
               dry |-> job[j].dry, confirmed |-> job[j].confirmed,
               result |-> Nothing, status |-> "none"]
      BY <2>4
    <2> HIDE DEF c
    <2>6. d = [at |-> "writing", step |-> 1, runtime |-> Runtime, tasks |-> document,
               dry |-> job[j].dry, confirmed |-> job[j].confirmed,
               result |-> Nothing, status |-> "none"]
      BY <2>5
    <2> HIDE DEF d
    <2>7. QED
      BY <2>2, <2>6, Zenon
  <1> HIDE DEF q
  <1>8. JobOK(q)
    BY <1>4, <1>5, <1>6, <1>7 DEF JobOK
  <1>9. FilesOK(q, pkg)
    BY <1>5, <1>7 DEF FilesOK
  <1>10. PkgOK(pkg)
    BY DEF Orderly
  <1>11. q.step > 0 /\ q.at # "none"
    BY <1>7
  <1>12. PkgOK(pkg') /\ FilesOK(q, pkg') /\ pkg'.state = pkg.state /\ pkg'.schema = pkg.schema
    BY <1>2, <1>9, <1>10
  <1>13. job[j].at # "done"
    BY <1>2
  <1>14. QED
    BY <1>1, <1>2, <1>8, <1>11, <1>12, <1>13, CompileStep

\* The schema of a task is of a parser of some manifest.
LEMMA SchemaOf ==
    ASSUME NEW q, q.runtime \in RuntimeType, NEW t \in Task
    PROVE  Schema(q.runtime, t) \in Parser /\ Schema(q.runtime, t) # Nothing
  <1>1. q.runtime.manifest[Uses[t]] \in Manifest
    BY WorkspaceAssumption DEF RuntimeType
  <1>2. Schema(q.runtime, t) \in Parser
    BY <1>1 DEF Schema, Parser
  <1>3. Nothing \notin Parser
    BY PackageAssumption DEF Parser
  <1>4. QED
    BY <1>2, <1>3

\* WriteFile: after each write the files are what the last compile has written up to there.
LEMMA WriteFileStep ==
    ASSUME Orderly, NEW j \in Job, WriteFile(j), ~disturbed'
    PROVE  Orderly'
  <1> DEFINE q == job[j]
             n == Cardinality(q.tasks)
             half == [q EXCEPT !.step = q.step + 1]
             r == [half EXCEPT !.at = IF q.step < n + 3 THEN "writing" ELSE "done"]
  <1>1. /\ q.at = "writing" /\ pkg' = Write(q, FALSE)
        /\ job' = [job EXCEPT ![j].step = @ + 1, ![j].at = IF q.step < n + 3 THEN @ ELSE "done"]
    BY DEF WriteFile
  <1>2. JobOK(q) /\ PkgOK(pkg)
    BY DEF Orderly
  <1>3. q.step \in Nat /\ q.step > 0 /\ q.step <= n + 3 /\ q.tasks \in SUBSET Task /\ q.tasks # {}
        /\ q.runtime \in RuntimeType
    BY <1>1, <1>2 DEF JobOK
  <1>4. n \in Nat /\ \A t \in q.tasks : Rank(q.tasks, t) \in Nat /\ Rank(q.tasks, t) <= n
    BY <1>3, FiniteTasks
  <1>5. r = [at |-> IF q.step < n + 3 THEN "writing" ELSE "done", step |-> q.step + 1,
             runtime |-> q.runtime, tasks |-> q.tasks, dry |-> q.dry, confirmed |-> q.confirmed,
             result |-> Nothing, status |-> "none"]
    <2>1. half = [at |-> "writing", step |-> q.step + 1,
             runtime |-> q.runtime, tasks |-> q.tasks, dry |-> q.dry, confirmed |-> q.confirmed,
             result |-> Nothing, status |-> "none"]
      BY <1>1, <1>2, <1>3 DEF JobOK
    <2> HIDE DEF half
    <2>2. QED
      BY <2>1
  <1>6. job' = [job EXCEPT ![j] = r]
    BY <1>1, <1>2 DEF JobOK, Orderly
  <1> HIDE DEF r, half
  <1>7. JobOK(r)
    BY <1>3, <1>4, <1>5 DEF JobOK
  <1>8. r.step > 0 /\ r.at # "none" /\ r.tasks = q.tasks /\ r.runtime = q.runtime /\ r.step = q.step + 1
    BY <1>3, <1>5
  <1>9. \A i \in Job : i < j => job[i].at = "done"
    BY <1>1, EarlierDone
  <1>10. Last(job, j)
    <2> SUFFICES ASSUME NEW k \in Job, job[k].step > 0, ~(k <= j) PROVE FALSE
      BY <1>3 DEF Last
    <2>1. j < k
      BY PackageAssumption
    <2>2. job[k].at = "none"
      BY <1>1, <2>1 DEF Orderly
    <2>3. QED
      BY <2>2 DEF Orderly, JobOK
  <1>11. FilesOK(q, pkg)
    BY <1>10 DEF Orderly
  <1>12. /\ PkgOK(pkg') /\ FilesOK(r, pkg') /\ pkg'.state = pkg.state
         /\ \A t \in Task : pkg.schema[t] # Nothing => pkg'.schema[t] # Nothing
    <2>1. CASE q.step <= n
      <3> DEFINE t0 == CHOOSE t \in q.tasks : Cardinality({u \in q.tasks : u <= t}) = q.step
                 s == [pkg.schema EXCEPT ![t0] = Schema(q.runtime, t0)]
      <3>1. pkg' = [pkg EXCEPT !.schema[t0] = Schema(q.runtime, t0)]
        BY <1>1, <2>1 DEF Write
      <3>2. \A t \in q.tasks : Rank(q.tasks, t) = q.step => t = t0
        <4> SUFFICES ASSUME NEW t \in q.tasks, Rank(q.tasks, t) = q.step PROVE t = t0
          OBVIOUS
        <4>1. t0 \in q.tasks /\ Rank(q.tasks, t0) = q.step
          BY Zenon DEF Rank
        <4>2. QED
          BY <1>3, <4>1, RankInjective
      <3> HIDE DEF t0
      <3>3. /\ pkg' = [workflow |-> pkg.workflow, lock |-> pkg.lock, report |-> pkg.report,
                    golden |-> pkg.golden, state |-> pkg.state, schema |-> s]
        BY <1>2, <3>1 DEF PkgOK
      <3>4. \A t \in Task : Schema(q.runtime, t) \in Parser /\ Schema(q.runtime, t) # Nothing
        BY <1>3, SchemaOf
      <3>5. /\ s \in [Task -> Parser \cup {Nothing}]
            /\ \A t \in Task : s[t] = IF t = t0 THEN Schema(q.runtime, t) ELSE pkg.schema[t]
        BY <1>2, <3>4 DEF PkgOK
      <3> HIDE DEF s
      <3>6. PkgOK(pkg')
        BY <1>2, <3>3, <3>5 DEF PkgOK
      <3>7. \A t \in q.tasks : Rank(q.tasks, t) < r.step => s[t] = Schema(q.runtime, t)
        <4> SUFFICES ASSUME NEW t \in q.tasks, Rank(q.tasks, t) < r.step, t # t0
                     PROVE  pkg.schema[t] = Schema(q.runtime, t)
          BY <1>3, <3>5
        <4>1. Rank(q.tasks, t) # q.step /\ Rank(q.tasks, t) \in Nat
          BY <1>4, <3>2
        <4>2. Rank(q.tasks, t) < q.step
          BY <1>3, <1>8, <4>1
        <4>3. QED
          BY <1>11, <4>2 DEF FilesOK
      <3>8. ~(r.step > n + 1) /\ ~(r.step > n + 2) /\ ~(r.step > n + 3)
        BY <1>3, <1>4, <1>8, <2>1
      <3>9. FilesOK(r, pkg')
        BY <1>8, <3>3, <3>7, <3>8 DEF FilesOK
      <3>10. QED
        BY <3>3, <3>4, <3>5, <3>6, <3>9
    <2>2. ASSUME q.step > n
          PROVE  \A t \in q.tasks : pkg.schema[t] = Schema(q.runtime, t)
      <3> SUFFICES ASSUME NEW t \in q.tasks PROVE Rank(q.tasks, t) < q.step
        BY <1>11 DEF FilesOK
      <3>1. QED
        BY <1>3, <1>4, <2>2
    <2>3. CASE q.step = n + 1
      <3>1. pkg' = [pkg EXCEPT !.workflow = q.tasks]
        BY <1>1, <1>3, <1>4, <2>3 DEF Write
      <3>2. /\ PkgOK(pkg') /\ pkg'.state = pkg.state /\ pkg'.schema = pkg.schema
            /\ pkg'.workflow = q.tasks
        BY <1>2, <1>3, <3>1 DEF PkgOK, Document
      <3>3. q.step > n /\ ~(r.step > n + 2) /\ ~(r.step > n + 3)
        BY <1>4, <1>8, <2>3
      <3>4. FilesOK(r, pkg')
        BY <1>8, <2>2, <3>2, <3>3 DEF FilesOK
      <3>5. QED
        BY <3>2, <3>4
    <2>4. CASE q.step = n + 2
      <3>1. pkg' = [pkg EXCEPT !.lock = Lock(q.runtime, q.tasks)]
        BY <1>1, <1>3, <1>4, <2>4 DEF Write
      <3>2. /\ PkgOK(pkg') /\ pkg'.state = pkg.state /\ pkg'.schema = pkg.schema
            /\ pkg'.workflow = pkg.workflow /\ pkg'.lock = Lock(q.runtime, q.tasks)
        BY <1>2, <3>1 DEF PkgOK
      <3>3. q.step > n /\ q.step > n + 1 /\ ~(r.step > n + 3)
        BY <1>4, <1>8, <2>4
      <3>4. FilesOK(r, pkg')
        BY <1>8, <1>11, <2>2, <3>2, <3>3 DEF FilesOK
      <3>5. QED
        BY <3>2, <3>4
    <2>5. CASE q.step = n + 3
      <3>1. pkg' = [pkg EXCEPT !.report = "report", !.golden = "there"]
        BY <1>1, <1>3, <1>4, <2>5 DEF Write
      <3>2. /\ PkgOK(pkg') /\ pkg'.state = pkg.state /\ pkg'.schema = pkg.schema
            /\ pkg'.workflow = pkg.workflow /\ pkg'.lock = pkg.lock
            /\ pkg'.report = "report" /\ pkg'.golden = "there"
        BY <1>2, <3>1 DEF PkgOK
      <3>3. q.step > n /\ q.step > n + 1 /\ q.step > n + 2
        BY <1>4, <1>8, <2>5
      <3>4. Nothing \notin {"report", "there"}
        BY PackageAssumption
      <3>5. FilesOK(r, pkg')
        BY <1>8, <1>11, <2>2, <3>2, <3>3, <3>4 DEF FilesOK
      <3>6. QED
        BY <3>2, <3>5
    <2>6. QED
      BY <1>3, <1>4, <2>1, <2>3, <2>4, <2>5
  <1>13. job[j].at # "done"
    BY <1>1
  <1>14. QED
    BY <1>6, <1>7, <1>8, <1>9, <1>12, <1>13, CompileStep

\* BeginRun: a new run has read nothing yet.
LEMMA BeginRunStep ==
    ASSUME Orderly, WorkspaceTypeOK, NEW j \in Job, BeginRun(j), ~disturbed'
    PROVE  Orderly'
  <1>1. PICK dry \in BOOLEAN, confirmed \in BOOLEAN :
            job' = [job EXCEPT ![j] = [@ EXCEPT !.at = "load", !.runtime = Runtime,
                                               !.dry = dry, !.confirmed = confirmed]]
    BY DEF BeginRun
  <1> DEFINE a == [job[j] EXCEPT !.at = "load"]
             b == [a EXCEPT !.runtime = Runtime]
             c == [b EXCEPT !.dry = dry]
             q == [c EXCEPT !.confirmed = confirmed]
  <1>2. job' = [job EXCEPT ![j] = q]
    BY <1>1, Zenon
  <1>3. (\A i \in Job : i < j => job[i].at = "done") /\ job[j].at = "none" /\ pkg' = pkg
    BY BegunAlone DEF BeginRun
  <1>4. JobOK(job[j]) /\ PkgOK(pkg)
    BY DEF Orderly
  <1>5. job[j].step = 0 /\ job[j].result = Nothing /\ job[j].status = "none"
        /\ job[j].tasks \subseteq Task /\ Runtime \in RuntimeType
    BY <1>3, <1>4, RuntimeOfType DEF JobOK
  <1>6. a = [at |-> "load", step |-> 0, runtime |-> job[j].runtime, tasks |-> job[j].tasks,
             dry |-> job[j].dry, confirmed |-> job[j].confirmed, result |-> Nothing, status |-> "none"]
    BY <1>4, <1>5 DEF JobOK
  <1> HIDE DEF a
  <1>7. b = [at |-> "load", step |-> 0, runtime |-> Runtime, tasks |-> job[j].tasks,
             dry |-> job[j].dry, confirmed |-> job[j].confirmed, result |-> Nothing, status |-> "none"]
    BY <1>6
  <1> HIDE DEF b
  <1>8. c = [at |-> "load", step |-> 0, runtime |-> Runtime, tasks |-> job[j].tasks,
             dry |-> dry, confirmed |-> job[j].confirmed, result |-> Nothing, status |-> "none"]
    BY <1>7
  <1> HIDE DEF c
  <1>9. q = [at |-> "load", step |-> 0, runtime |-> Runtime, tasks |-> job[j].tasks,
             dry |-> dry, confirmed |-> confirmed, result |-> Nothing, status |-> "none"]
    BY <1>8
  <1> HIDE DEF q
  <1>10. JobOK(q) /\ q.step = 0 /\ q.at # "none" /\ RunOK(q, job', j) /\ StaleOK(q, pkg.schema)
    BY <1>5, <1>9 DEF JobOK, RunOK, StaleOK
  <1>11. StateOK(job', pkg'.state)
    BY <1>2, <1>3, StateStill
  <1>12. /\ PkgOK(pkg') /\ pkg'.workflow = pkg.workflow /\ pkg'.lock = pkg.lock
         /\ pkg'.report = pkg.report /\ pkg'.schema = pkg.schema
         /\ (pkg.golden # Nothing => pkg'.golden # Nothing) /\ job[j].at # "done"
    BY <1>3, <1>4
  <1>13. QED
    BY <1>2, <1>3, <1>5, <1>10, <1>11, <1>12, RunStep

\* RejectCompile: a compile that is rejected has written nothing.
LEMMA RejectCompileStep ==
    ASSUME Orderly, WorkspaceTypeOK, NEW j \in Job, RejectCompile(j), ~disturbed'
    PROVE  Orderly'
  <1> DEFINE a == [job[j] EXCEPT !.at = "done"]
             q == [a EXCEPT !.status = "rejected"]
  <1>1. (\A i \in Job : i < j => job[i].at = "done") /\ job[j].at = "none" /\ pkg' = pkg
    BY BegunAlone DEF RejectCompile
  <1>2. JobOK(job[j]) /\ PkgOK(pkg)
    BY DEF Orderly
  <1>3. job' = [job EXCEPT ![j] = q]
    BY <1>2 DEF RejectCompile, Orderly, JobOK
  <1>4. job[j].step = 0 /\ job[j].result = Nothing /\ job[j].status = "none"
        /\ job[j].tasks \subseteq Task /\ job[j].runtime \in RuntimeType
    BY <1>1, <1>2 DEF JobOK
  <1>5. a = [at |-> "done", step |-> 0, runtime |-> job[j].runtime, tasks |-> job[j].tasks,
             dry |-> job[j].dry, confirmed |-> job[j].confirmed, result |-> Nothing, status |-> "none"]
    BY <1>2, <1>4 DEF JobOK
  <1> HIDE DEF a
  <1>6. q = [at |-> "done", step |-> 0, runtime |-> job[j].runtime, tasks |-> job[j].tasks,
             dry |-> job[j].dry, confirmed |-> job[j].confirmed, result |-> Nothing, status |-> "rejected"]
    BY <1>5
  <1> HIDE DEF q
  <1>7. JobOK(q) /\ q.step = 0 /\ q.at # "none" /\ RunOK(q, job', j) /\ StaleOK(q, pkg.schema)
    BY <1>4, <1>6 DEF JobOK, RunOK, StaleOK
  <1>8. StateOK(job', pkg'.state)
    BY <1>1, <1>3, StateStill
  <1>9. /\ PkgOK(pkg') /\ pkg'.workflow = pkg.workflow /\ pkg'.lock = pkg.lock
        /\ pkg'.report = pkg.report /\ pkg'.schema = pkg.schema
        /\ (pkg.golden # Nothing => pkg'.golden # Nothing) /\ job[j].at # "done"
    BY <1>1, <1>2
  <1>10. QED
    BY <1>1, <1>3, <1>4, <1>7, <1>8, <1>9, RunStep

\* What a run reads of a package and does not change.
PackageKept ==
    /\ PkgOK(pkg') /\ pkg'.workflow = pkg.workflow /\ pkg'.lock = pkg.lock
    /\ pkg'.report = pkg.report /\ pkg'.schema = pkg.schema
    /\ pkg.golden # Nothing => pkg'.golden # Nothing

\* A run at work takes a step, and what it becomes is all right.
LEMMA WorkStep ==
    ASSUME Orderly, NEW j \in Job, job[j].at \notin {"none", "done"}, job[j].step = 0,
           NEW q, job' = [job EXCEPT ![j] = q], JobOK(q), q.step = 0, q.at # "none",
           PackageKept, RunOK(q, job', j), StaleOK(q, pkg.schema),
           pkg'.state = pkg.state \/ StateOK(job', pkg'.state)
    PROVE  Orderly'
  <1>1. \A i \in Job : i < j => job[i].at = "done"
    BY EarlierDone
  <1>2. job[j].at # "done"
    OBVIOUS
  <1>3. StateOK(job', pkg'.state)
    BY <1>2, StateStill
  <1>4. QED
    BY <1>1, <1>2, <1>3, RunStep DEF PackageKept

\* The compile a run follows is settled: other jobs do not change which it is.
LEMMA SameBefore ==
    ASSUME Orderly, NEW j \in Job, job[j].step = 0, NEW q, q.step = 0, job' = [job EXCEPT ![j] = q],
           NEW i \in Job
    PROVE  /\ job'[i].step = job[i].step
           /\ Before(job', j, i) <=> Before(job, j, i)
           /\ Before(job, j, i) => job'[i] = job[i]
  <1>1. job'[j] = q /\ \A k \in Job \ {j} : job'[k] = job[k]
    BY DEF Orderly
  <1>2. \A k \in Job : job'[k].step = job[k].step
    BY <1>1
  <1>3. QED
    BY <1>1, <1>2 DEF Before

\* A job that loads, verifies, runs or validates is a run, at work.
LEMMA RunIsRun ==
    ASSUME Orderly, NEW j \in Job, job[j].at \in {"load", "verify", "run", "validate"}
    PROVE  JobOK(job[j]) /\ job[j].step = 0 /\ PkgOK(pkg) /\ job[j].at \notin {"none", "done"}
  <1>1. JobOK(job[j]) /\ PkgOK(pkg)
    BY DEF Orderly
  <1>2. job[j].step = 0
    BY <1>1 DEF JobOK
  <1>3. QED
    BY <1>1, <1>2

\* Load: the workflow a run loads is the one of the last compile.
LEMMA LoadStep ==
    ASSUME Orderly, NEW j \in Job, Load(j), ~disturbed'
    PROVE  Orderly'
  <1> DEFINE p == job[j]
  <1>1. p.at = "load" /\ disturbed' = disturbed
    BY DEF Load
  <1>2. JobOK(p) /\ p.step = 0 /\ PkgOK(pkg) /\ p.at \notin {"none", "done"}
    BY <1>1, RunIsRun
  <1>3. p.result = Nothing /\ p.status = "none" /\ p.tasks \subseteq Task
        /\ p.runtime \in RuntimeType /\ pkg.workflow \in Document \cup {Nothing}
    BY <1>1, <1>2 DEF JobOK, PkgOK
  <1>4. \A none \in {Nothing, Torn} : none \notin SUBSET Task
    BY PackageAssumption
  <1>5. (\E i \in Job : job[i].step > 0) =>
            \E i \in Job : Before(job, j, i) /\ pkg.workflow = job[i].tasks
    <2> SUFFICES ASSUME NEW i \in Job, Last(job, i)
                 PROVE  Before(job, j, i) /\ pkg.workflow = job[i].tasks
      BY DEF Orderly
    <2>1. Before(job, j, i) /\ JobOK(job[i]) /\ job[i].step = Cardinality(job[i].tasks) + 4
          /\ FilesOK(job[i], pkg)
      BY <1>2, LastBefore
    <2>2. Cardinality(job[i].tasks) \in Nat
      BY <2>1, FiniteTasks DEF JobOK
    <2>3. job[i].step > Cardinality(job[i].tasks) + 1
      BY <2>1, <2>2
    <2>4. QED
      BY <2>1, <2>3 DEF FilesOK
  <1>6. (\A i \in Job : job[i].step = 0) => pkg.workflow = Nothing
    BY DEF Orderly
  <1>7. CASE pkg.workflow \in {Nothing, Torn}
    <2> DEFINE a == [p EXCEPT !.at = "done"]
               q == [a EXCEPT !.status = "raised"]
    <2>1. job' = [job EXCEPT ![j] = q] /\ pkg' = pkg
      <3>1. job' = [job EXCEPT ![j].at = "done", ![j].status = "raised"] /\ pkg' = pkg
        BY <1>7 DEF Load, Raise
      <3>2. QED
        BY <1>2, <3>1 DEF Orderly, JobOK
    <2>2. a = [at |-> "done", step |-> 0, runtime |-> p.runtime, tasks |-> p.tasks,
               dry |-> p.dry, confirmed |-> p.confirmed, result |-> Nothing, status |-> "none"]
      BY <1>2, <1>3 DEF JobOK
    <2> HIDE DEF a
    <2>3. q = [at |-> "done", step |-> 0, runtime |-> p.runtime, tasks |-> p.tasks,
               dry |-> p.dry, confirmed |-> p.confirmed, result |-> Nothing, status |-> "raised"]
      BY <2>2
    <2> HIDE DEF q
    <2>4. JobOK(q) /\ q.step = 0 /\ q.at # "none" /\ StaleOK(q, pkg.schema)
          /\ q.result = Nothing /\ q.at = "done"
      BY <1>3, <2>3 DEF JobOK, StaleOK
    <2>5. \A i \in Job : job[i].step = 0
      <3> SUFFICES ASSUME \E i \in Job : job[i].step > 0 PROVE FALSE
        <4>1. \A i \in Job : job[i].step \in Nat
          BY DEF Orderly, JobOK
        <4>2. QED
          BY <4>1
      <3>1. PICK i \in Job : pkg.workflow = job[i].tasks
        BY <1>5
      <3>2. job[i].tasks \in SUBSET Task
        BY DEF Orderly, JobOK
      <3>3. QED
        BY <1>4, <1>7, <3>1, <3>2
    <2>6. \A i \in Job : job'[i].step = job[i].step
      BY <1>2, <2>1, <2>4, SameBefore
    <2>7. RunOK(q, job', j)
      BY <2>4, <2>5, <2>6 DEF RunOK
    <2>8. PackageKept /\ pkg'.state = pkg.state
      BY <1>2, <2>1 DEF PackageKept
    <2>9. QED
      BY <1>2, <2>1, <2>4, <2>7, <2>8, WorkStep
  <1>8. CASE pkg.workflow \notin {Nothing, Torn}
    <2> DEFINE a == [p EXCEPT !.at = "verify"]
               q == [a EXCEPT !.tasks = pkg.workflow]
    <2>1. job' = [job EXCEPT ![j] = q] /\ pkg' = pkg
      <3>1. job' = [job EXCEPT ![j].at = "verify", ![j].tasks = pkg.workflow] /\ pkg' = pkg
        BY <1>8 DEF Load
      <3>2. QED
        BY <1>2, <3>1 DEF Orderly, JobOK
    <2>2. a = [at |-> "verify", step |-> 0, runtime |-> p.runtime, tasks |-> p.tasks,
               dry |-> p.dry, confirmed |-> p.confirmed, result |-> Nothing, status |-> "none"]
      BY <1>2, <1>3 DEF JobOK
    <2> HIDE DEF a
    <2>3. q = [at |-> "verify", step |-> 0, runtime |-> p.runtime, tasks |-> pkg.workflow,
               dry |-> p.dry, confirmed |-> p.confirmed, result |-> Nothing, status |-> "none"]
      BY <2>2
    <2> HIDE DEF q
    <2>4. JobOK(q) /\ q.step = 0 /\ q.at # "none" /\ StaleOK(q, pkg.schema)
          /\ q.result = Nothing /\ q.at = "verify" /\ q.tasks = pkg.workflow /\ q.status = "none"
      BY <1>3, <1>8, <2>3 DEF JobOK, StaleOK, Document
    <2>5. PICK i \in Job : Before(job, j, i) /\ pkg.workflow = job[i].tasks
      <3>1. \E i \in Job : job[i].step # 0
        BY <1>6, <1>8
      <3>2. \A i \in Job : job[i].step \in Nat
        BY DEF Orderly, JobOK
      <3>3. QED
        BY <1>5, <3>1, <3>2
    <2>6. Before(job', j, i) /\ job'[i] = job[i]
      BY <1>2, <2>1, <2>4, <2>5, SameBefore
    <2>7. RunOK(q, job', j)
      BY <2>4, <2>5, <2>6 DEF RunOK
    <2>8. PackageKept /\ pkg'.state = pkg.state
      BY <1>2, <2>1 DEF PackageKept
    <2>9. QED
      BY <1>2, <2>1, <2>4, <2>7, <2>8, WorkStep
  <1>9. QED
    BY <1>7, <1>8

\* VerifyLock, verify_lock: past the lock, tasks and manifests are those of the compile.
LEMMA VerifyLockStep ==
    ASSUME Orderly, NEW j \in Job, VerifyLock(j), ~disturbed'
    PROVE  Orderly'
  <1> DEFINE p == job[j]
  <1>1. p.at = "verify" /\ disturbed' = disturbed
    BY DEF VerifyLock
  <1>2. JobOK(p) /\ p.step = 0 /\ PkgOK(pkg) /\ p.at \notin {"none", "done"}
    BY <1>1, RunIsRun
  <1>3. p.result = Nothing /\ p.status = "none" /\ p.tasks \subseteq Task /\ p.tasks # {}
        /\ p.runtime \in RuntimeType
    BY <1>1, <1>2 DEF JobOK
  <1>4. PICK i \in Job : Before(job, j, i) /\ p.tasks = job[i].tasks
    BY <1>1 DEF Orderly, RunOK
  <1>5. JobOK(job[i]) /\ job[i].step = Cardinality(job[i].tasks) + 4 /\ FilesOK(job[i], pkg)
    BY <1>2, <1>4, LastBefore
  <1>6. pkg.lock = Lock(job[i].runtime, p.tasks)
    <2>1. Cardinality(job[i].tasks) \in Nat
      BY <1>5, FiniteTasks DEF JobOK
    <2>2. job[i].step > Cardinality(job[i].tasks) + 2
      BY <1>5, <2>1
    <2>3. QED
      BY <1>4, <1>5, <2>2 DEF FilesOK
  <1>7. DOMAIN pkg.lock = p.tasks
        /\ \A t \in p.tasks : pkg.lock[t] = job[i].runtime.manifest[Uses[t]]
    BY <1>6 DEF Lock, Digest
  <1>8. pkg.lock \notin {Nothing, Torn}
    <2>1. \A t \in p.tasks : job[i].runtime.manifest[Uses[t]] \in Manifest
      BY <1>3, <1>5, WorkspaceAssumption DEF JobOK, RuntimeType
    <2>2. pkg.lock \in [p.tasks -> Manifest]
      BY <1>6, <2>1 DEF Lock, Digest
    <2>3. p.tasks \in SUBSET Task
      BY <1>3
    <2>4. QED
      BY <2>2, <2>3, PackageAssumption, Zenon
  <1>9. CASE \A t \in DOMAIN pkg.lock : pkg.lock[t] = Digest(p.runtime, t)
    <2> DEFINE q == [p EXCEPT !.at = "run"]
    <2>1. job' = [job EXCEPT ![j] = q] /\ pkg' = pkg
      <3>1. job' = [job EXCEPT ![j].at = "run"] /\ pkg' = pkg
        BY <1>8, <1>9, Zenon DEF VerifyLock
      <3>2. QED
        BY <3>1 DEF Orderly
    <2>2. q = [at |-> "run", step |-> 0, runtime |-> p.runtime, tasks |-> p.tasks,
               dry |-> p.dry, confirmed |-> p.confirmed, result |-> Nothing, status |-> "none"]
      BY <1>2, <1>3 DEF JobOK
    <2> HIDE DEF q
    <2>3. JobOK(q) /\ q.step = 0 /\ q.at # "none" /\ StaleOK(q, pkg.schema)
          /\ q.result = Nothing /\ q.at = "run" /\ q.status = "none"
          /\ q.tasks = p.tasks /\ q.runtime = p.runtime
      BY <1>3, <2>2 DEF JobOK, StaleOK
    <2>4. Before(job', j, i) /\ job'[i] = job[i]
      BY <1>2, <1>4, <2>1, <2>3, SameBefore
    <2>5. AsCompiled(q, job[i])
      BY <1>4, <1>7, <1>9, <2>3 DEF AsCompiled, Digest
    <2>6. RunOK(q, job', j)
      BY <1>4, <2>3, <2>4, <2>5 DEF RunOK
    <2>7. PackageKept /\ pkg'.state = pkg.state
      BY <1>2, <2>1 DEF PackageKept
    <2>8. QED
      BY <1>2, <2>1, <2>3, <2>6, <2>7, WorkStep
  <1>10. CASE ~\A t \in DOMAIN pkg.lock : pkg.lock[t] = Digest(p.runtime, t)
    <2> DEFINE a == [p EXCEPT !.at = "done"]
               q == [a EXCEPT !.status = "lock-mismatch"]
               state == RunState(j, "blocked", [t \in p.tasks |-> "not_started"])
    <2>1. job' = [job EXCEPT ![j] = q] /\ pkg' = [pkg EXCEPT !.state = state]
      <3>1. /\ job' = [job EXCEPT ![j].at = "done", ![j].status = "lock-mismatch"]
            /\ pkg' = [pkg EXCEPT !.state = state]
        BY <1>8, <1>10, Zenon DEF VerifyLock
      <3>2. QED
        BY <1>2, <3>1 DEF Orderly, JobOK
    <2>2. a = [at |-> "done", step |-> 0, runtime |-> p.runtime, tasks |-> p.tasks,
               dry |-> p.dry, confirmed |-> p.confirmed, result |-> Nothing, status |-> "none"]
      BY <1>2, <1>3 DEF JobOK
    <2> HIDE DEF a
    <2>3. q = [at |-> "done", step |-> 0, runtime |-> p.runtime, tasks |-> p.tasks,
               dry |-> p.dry, confirmed |-> p.confirmed, result |-> Nothing, status |-> "lock-mismatch"]
      BY <2>2
    <2> HIDE DEF q
    <2>4. JobOK(q) /\ q.step = 0 /\ q.at # "none" /\ StaleOK(q, pkg.schema)
          /\ q.result = Nothing /\ q.at = "done" /\ q.status = "lock-mismatch"
          /\ q.tasks = p.tasks
      BY <1>3, <2>3 DEF JobOK, StaleOK
    <2>5. RunOK(q, job', j)
      BY <2>4 DEF RunOK
    <2>6. /\ state.run = j /\ state.status = "blocked"
          /\ \A t \in p.tasks : state.tasks[t] = "not_started"
      BY DEF RunState
    <2> HIDE DEF state
    <2>7. pkg'.state = state /\ PackageKept
      BY <1>2, <2>1 DEF PackageKept, PkgOK
    <2>8. job'[j] = q
      BY <2>1 DEF Orderly
    <2>9. StateOK(job', state)
      BY <1>3, <2>4, <2>6, <2>8 DEF StateOK
    <2>10. QED
      BY <1>2, <2>1, <2>4, <2>5, <2>7, <2>9, WorkStep
  <1>11. QED
    BY <1>9, <1>10

RunTells(f, T) ==
    /\ f \in [T -> {"good", "failed", "refused", "skipped", "broken"}]
    /\ RunStatus(f) \in {"completed", "failed", "blocked", "raised"}
    /\ RunStatus(f) = "completed" <=> \A t \in T : f[t] = "good"
    /\ RunStatus(f) = "raised" => \E t \in T : f[t] = "broken"

\* A run is completed when all of its tasks succeed: the first that does not is refused,
\* fails or breaks.
LEMMA RunsGood ==
    ASSUME NEW T \in SUBSET Task, NEW runtime, NEW confirmed, NEW dry,
           NEW f \in Runs(runtime, T, confirmed, dry)
    PROVE  RunTells(f, T)
  <1>1. f \in [T -> {"good", "failed", "refused", "skipped", "broken"}] /\ DOMAIN f = T
    BY DEF Runs
  <1>2. /\ RunStatus(f) \in {"completed", "failed", "blocked", "raised"}
        /\ RunStatus(f) = "completed" <=> \A t \in T : f[t] \notin {"refused", "failed", "broken"}
        /\ RunStatus(f) = "raised" => \E t \in T : f[t] = "broken"
    BY <1>1 DEF RunStatus
  <1>3. ASSUME \A t \in T : f[t] \notin {"refused", "failed", "broken"}
        PROVE  \A t \in T : f[t] = "good"
    <2> DEFINE Stuck == {t \in T : f[t] # "good"}
    <2> SUFFICES ASSUME Stuck # {} PROVE FALSE
      OBVIOUS
    <2>1. Stuck \in SUBSET Nat
      BY WorkspaceAssumption
    <2>2. PICK t \in Stuck : \A u \in Stuck : t <= u
      BY <2>1, HasLeast
    <2>3. f[t] = "skipped"
      BY <1>1, <1>3
    <2>4. \E u \in T : u < t /\ f[u] # "good"
      <3>1. t \in T /\ "skipped" \notin Answers(runtime, Uses[t], confirmed, dry)
        BY DEF Answers
      <3>2. QED
        BY <2>3, <3>1 DEF Runs
    <2>5. PICK u \in Stuck : u < t
      BY <2>4
    <2>6. t \in Nat /\ u \in Nat /\ t <= u
      BY <2>1, <2>2
    <2>7. QED
      BY <2>5, <2>6
  <1>4. QED
    BY <1>1, <1>2, <1>3 DEF RunTells

\* RunTasks: the tasks run on the runtime the lock was verified with; one that breaks
\* leaves the run.
LEMMA RunTasksStep ==
    ASSUME Orderly, NEW j \in Job, RunTasks(j), ~disturbed'
    PROVE  Orderly'
  <1> DEFINE p == job[j]
  <1>1. p.at = "run" /\ pkg' = pkg
    BY DEF RunTasks
  <1>2. JobOK(p) /\ p.step = 0 /\ PkgOK(pkg) /\ p.at \notin {"none", "done"}
    BY <1>1, RunIsRun
  <1>3. p.status = "none" /\ p.tasks \in SUBSET Task /\ p.tasks # {} /\ p.runtime \in RuntimeType
        /\ p.result = Nothing
    BY <1>1, <1>2 DEF JobOK
  <1>4. PICK f \in Runs(p.runtime, p.tasks, p.confirmed, p.dry) :
            job' = [job EXCEPT ![j].at = IF RunStatus(f) = "raised" THEN "done" ELSE "validate",
                               ![j].result = f,
                               ![j].status = IF RunStatus(f) = "raised" THEN "raised" ELSE @]
    BY Zenon DEF RunTasks
  <1> DEFINE at == IF RunStatus(f) = "raised" THEN "done" ELSE "validate"
             status == IF RunStatus(f) = "raised" THEN "raised" ELSE "none"
             a == [p EXCEPT !.at = at]
             b == [a EXCEPT !.result = f]
             q == [b EXCEPT !.status = status]
  <1>4a. RunTells(f, p.tasks)
    BY <1>3, RunsGood
  <1>4b. f # Nothing
    <2>1. f \in [p.tasks -> {"good", "failed", "refused", "skipped", "broken"}]
      BY <1>4a DEF RunTells
    <2>2. QED
      BY <1>3, <2>1, PackageAssumption, Zenon
  <1>5. job' = [job EXCEPT ![j] = q]
    BY <1>2, <1>3, <1>4 DEF Orderly, JobOK
  <1>5a. /\ at = "done" /\ status = "raised" => \E t \in p.tasks : f[t] = "broken"
         /\ \/ at = "done" /\ status = "raised"
            \/ at = "validate" /\ status = "none" /\ RunStatus(f) # "raised"
    BY <1>4a DEF RunTells
  <1> HIDE DEF at, status
  <1>6. a = [at |-> at, step |-> 0, runtime |-> p.runtime, tasks |-> p.tasks,
             dry |-> p.dry, confirmed |-> p.confirmed, result |-> Nothing, status |-> "none"]
    BY <1>2, <1>3 DEF JobOK
  <1> HIDE DEF a
  <1>6a. b = [at |-> at, step |-> 0, runtime |-> p.runtime, tasks |-> p.tasks,
              dry |-> p.dry, confirmed |-> p.confirmed, result |-> f, status |-> "none"]
    BY <1>6
  <1> HIDE DEF b
  <1>7. q = [at |-> at, step |-> 0, runtime |-> p.runtime, tasks |-> p.tasks,
             dry |-> p.dry, confirmed |-> p.confirmed, result |-> f, status |-> status]
    BY <1>6a
  <1> HIDE DEF q
  <1>8. JobOK(q) /\ q.step = 0 /\ q.at # "none" /\ StaleOK(q, pkg.schema)
        /\ q.status = status /\ q.tasks = p.tasks /\ q.runtime = p.runtime /\ q.result = f
    BY <1>3, <1>5a, <1>7 DEF JobOK, StaleOK
  <1>9. PICK i \in Job : Before(job, j, i) /\ AsCompiled(p, job[i])
    BY <1>1 DEF Orderly, RunOK
  <1>10. Before(job', j, i) /\ job'[i] = job[i]
    BY <1>2, <1>5, <1>8, <1>9, SameBefore
  <1>11. AsCompiled(q, job[i]) /\ q.tasks = job[i].tasks
    BY <1>8, <1>9 DEF AsCompiled
  <1>12. RunOK(q, job', j)
    BY <1>4b, <1>5a, <1>7, <1>8, <1>10, <1>11 DEF RunOK
  <1>13. PackageKept /\ pkg'.state = pkg.state
    BY <1>1, <1>2 DEF PackageKept
  <1>14. QED
    BY <1>2, <1>5, <1>8, <1>12, <1>13, WorkStep

\* Record: the state file tells the run that ends; a schema fails only where one is left over.
LEMMA RecordStep ==
    ASSUME Orderly, NEW j \in Job, Record(j), ~disturbed'
    PROVE  Orderly'
  <1> DEFINE p == job[j]
             f == p.result
  <1>1. p.at = "validate"
    BY DEF Record
  <1>2. JobOK(p) /\ p.step = 0 /\ PkgOK(pkg) /\ p.at \notin {"none", "done"}
    BY <1>1, RunIsRun
  <1>3. p.status = "none" /\ p.tasks \in SUBSET Task /\ p.tasks # {} /\ p.runtime \in RuntimeType
        /\ f \in Runs(p.runtime, p.tasks, p.confirmed, p.dry) /\ RunStatus(f) # "raised"
    BY <1>1, <1>2 DEF JobOK
  <1>4. /\ f \in [p.tasks -> {"good", "failed", "refused", "skipped", "broken"}]
        /\ \A t \in p.tasks : f[t] # "broken"
        /\ RunStatus(f) \in {"completed", "failed", "blocked"}
        /\ RunStatus(f) = "completed" <=> \A t \in p.tasks : f[t] = "good"
    <2>1. RunTells(f, p.tasks)
      BY <1>3, RunsGood
    <2>2. \A t \in p.tasks : f[t] # "broken"
      BY <1>3, <2>1 DEF RunTells, RunStatus
    <2>3. QED
      BY <1>3, <2>1, <2>2 DEF RunTells
  <1> DEFINE valid == Valid(p)
             failed == \E t \in DOMAIN valid : ~valid[t]
             status == IF RunStatus(f) = "completed" /\ failed THEN "schema-failed" ELSE RunStatus(f)
             checked == [t \in p.tasks |-> t \in DOMAIN valid => valid[t]]
             state == RunState(j, status, [t \in p.tasks |-> TaskStatus(f, checked, t)])
             a == [p EXCEPT !.at = "done"]
             q == [a EXCEPT !.status = status]
  <1>5. PICK i \in Job : Before(job, j, i) /\ AsCompiled(p, job[i])
    BY <1>1 DEF Orderly, RunOK
  <1>6. JobOK(job[i]) /\ job[i].step = Cardinality(job[i].tasks) + 4 /\ FilesOK(job[i], pkg)
    BY <1>2, <1>5, LastBefore
  <1>7. \A t \in p.tasks : pkg.schema[t] = p.runtime.manifest[Uses[t]].parser
    <2> SUFFICES ASSUME NEW t \in p.tasks
                 PROVE  pkg.schema[t] = p.runtime.manifest[Uses[t]].parser
      OBVIOUS
    <2>1. t \in job[i].tasks /\ p.runtime.manifest[Uses[t]] = job[i].runtime.manifest[Uses[t]]
      BY <1>5 DEF AsCompiled
    <2>2. /\ job[i].tasks \in SUBSET Task
          /\ Rank(job[i].tasks, t) \in Nat /\ Cardinality(job[i].tasks) \in Nat
          /\ Rank(job[i].tasks, t) <= Cardinality(job[i].tasks)
      BY <1>6, <2>1, FiniteTasks DEF JobOK
    <2>3. Rank(job[i].tasks, t) < job[i].step
      BY <1>6, <2>2
    <2>4. pkg.schema[t] = Schema(job[i].runtime, t)
      BY <1>6, <2>1, <2>3 DEF FilesOK
    <2>5. QED
      BY <2>1, <2>4 DEF Schema
  <1>8. \A t \in p.tasks : f[t] = "good" => Fits(p, t)
    BY <1>7 DEF Fits
  <1>9. DOMAIN valid = {u \in Task : pkg.schema[u] # Nothing}
        /\ \A t \in DOMAIN valid : valid[t] <=> (t \in p.tasks /\ Fits(p, t))
    BY DEF Valid
  <1>10. ~\E t \in Task : pkg.schema[t] = Torn
    <2>1. \A t \in Task : pkg.schema[t] \in Parser \cup {Nothing}
      BY <1>2 DEF PkgOK
    <2>2. Torn \notin Parser \cup {Nothing}
      BY PackageAssumption DEF Parser
    <2>3. QED
      BY <2>1, <2>2
  <1>11. PICK golden \in {pkg.golden, "there"} :
            job' = [job EXCEPT ![j].at = "done", ![j].status = status]
            /\ pkg' = [pkg EXCEPT !.golden = golden, !.state = state]
    BY <1>10, Zenon DEF Record
  <1>12. \A t \in p.tasks : f[t] = "good" => checked[t]
    BY <1>8, <1>9
  <1>13. /\ status \in {"completed", "schema-failed", "failed", "blocked"}
         /\ status \in {"completed", "schema-failed"} <=> RunStatus(f) = "completed"
         /\ status = "schema-failed" => RunStatus(f) = "completed" /\ failed
    BY <1>4
  <1>14. failed /\ RunStatus(f) = "completed" => \E t \in Task \ p.tasks : pkg.schema[t] # Nothing
    BY <1>4, <1>8, <1>9
  <1>15. \A t \in p.tasks : TaskStatus(f, checked, t) = "completed" <=> f[t] = "good"
    <2> SUFFICES ASSUME NEW t \in p.tasks
                 PROVE  TaskStatus(f, checked, t) = "completed" <=> f[t] = "good"
      OBVIOUS
    <2>1. f[t] \in {"good", "failed", "refused", "skipped"} /\ (f[t] = "good" => checked[t])
      BY <1>4, <1>12
    <2> HIDE DEF checked, f
    <2>2. QED
      BY <2>1 DEF TaskStatus
  <1>16. a = [at |-> "done", step |-> 0, runtime |-> p.runtime, tasks |-> p.tasks,
             dry |-> p.dry, confirmed |-> p.confirmed, result |-> p.result, status |-> "none"]
    BY <1>2, <1>3 DEF JobOK
  <1>17. state.run = j /\ state.status = status
         /\ \A t \in p.tasks : state.tasks[t] = TaskStatus(f, checked, t)
    BY DEF RunState
  <1> HIDE DEF status, valid, checked, state, f
  <1>18. job' = [job EXCEPT ![j] = q]
    BY <1>2, <1>11 DEF Orderly, JobOK
  <1> HIDE DEF a
  <1>19. q = [at |-> "done", step |-> 0, runtime |-> p.runtime, tasks |-> p.tasks,
             dry |-> p.dry, confirmed |-> p.confirmed, result |-> p.result, status |-> status]
    BY <1>16
  <1> HIDE DEF q
  <1>20. JobOK(q) /\ q.step = 0 /\ q.at # "none"
         /\ q.status = status /\ q.tasks = p.tasks /\ q.runtime = p.runtime /\ q.at = "done"
    BY <1>3, <1>19 DEF JobOK
  <1>21. StaleOK(q, pkg.schema)
    BY <1>13, <1>14, <1>20 DEF StaleOK
  <1>22. Before(job', j, i) /\ job'[i] = job[i]
    BY <1>2, <1>5, <1>18, <1>20, SameBefore
  <1>23. AsCompiled(q, job[i]) /\ q.tasks = job[i].tasks
    BY <1>5, <1>20 DEF AsCompiled
  <1>24. RunOK(q, job', j)
    BY <1>13, <1>20, <1>22, <1>23 DEF RunOK
  <1>25. pkg'.state = state /\ PackageKept
    BY <1>2, <1>11, PackageAssumption DEF PackageKept, PkgOK
  <1>26. job'[j] = q
    BY <1>18 DEF Orderly
  <1>27. StateOK(job', state)
    BY <1>4, <1>13, <1>15, <1>17, <1>20, <1>26 DEF StateOK
  <1>28. QED
    BY <1>2, <1>18, <1>20, <1>21, <1>24, <1>25, <1>27, WorkStep

\* There is no package, and no job has begun.
LEMMA PackageInit == Init => PackageIInv
  <1> SUFFICES ASSUME Init PROVE Orderly
    BY DEF PackageIInv
  <1>1. InitPackage /\ Runtime \in RuntimeType
    BY WorkspaceInit, RuntimeOfType DEF Init
  <1> DEFINE none == [at |-> "none", step |-> 0, runtime |-> Runtime, tasks |-> {},
                      dry |-> FALSE, confirmed |-> FALSE, result |-> Nothing, status |-> "none"]
  <1>2. job = [j \in Job |-> none]
        /\ pkg = [workflow |-> Nothing, lock |-> Nothing, report |-> Nothing, golden |-> Nothing,
                  state |-> Nothing, schema |-> [t \in Task |-> Nothing]]
    BY <1>1 DEF InitPackage
  <1>3. JobOK(none) /\ none.at = "none" /\ none.step = 0
    BY <1>1 DEF JobOK
  <1>4. \A j \in Job : RunOK(none, job, j) /\ StaleOK(none, pkg.schema)
    BY DEF RunOK, StaleOK
  <1> HIDE DEF none
  <1>5. PkgOK(pkg) /\ pkg.state = Nothing /\ pkg.workflow = Nothing
    BY <1>2 DEF PkgOK
  <1>6. \A j \in Job : job[j] = none
    BY <1>2
  <1>7. job = [j \in Job |-> job[j]]
    BY <1>2
  <1>8. \A j \in Job : job[j].step = 0 /\ job[j].at = "none" /\ ~Last(job, j)
    BY <1>3, <1>6 DEF Last
  <1>9. StateOK(job, pkg.state)
    BY <1>5 DEF StateOK
  <1>10. \A j \in Job : JobOK(job[j]) /\ RunOK(job[j], job, j) /\ StaleOK(job[j], pkg.schema)
    BY <1>3, <1>4, <1>6
  <1>11. QED
    BY <1>5, <1>7, <1>8, <1>9, <1>10 DEF Orderly

\* Every step of the system keeps the package orderly, or has disturbed it.
LEMMA PackageNext ==
    ASSUME PackageIInv, WorkspaceTypeOK, [Next]_vars
    PROVE  PackageIInv'
  <1>1. CASE NextPackage
    <2> SUFFICES ASSUME ~disturbed' PROVE Orderly'
      BY DEF PackageIInv
    <2>1. PICK j \in Job : \/ BeginCompile(j) \/ RejectCompile(j) \/ WriteFile(j) \/ KillCompile(j)
                           \/ BeginRun(j) \/ Load(j) \/ VerifyLock(j) \/ RunTasks(j) \/ Record(j)
      BY <1>1 DEF NextPackage
    <2>2. ~disturbed /\ ~KillCompile(j)
      <3>1. ~KillCompile(j)
        BY DEF KillCompile
      <3>2. Begin(j) => ~disturbed
        BY DEF Begin
      <3>3. BeginCompile(j) \/ RejectCompile(j) \/ BeginRun(j) => Begin(j)
        BY DEF BeginCompile, RejectCompile, BeginRun
      <3>4. WriteFile(j) => ~disturbed
        BY DEF WriteFile
      <3>5. Load(j) => ~disturbed
        BY DEF Load
      <3>6. VerifyLock(j) => ~disturbed
        BY DEF VerifyLock
      <3>7. RunTasks(j) => ~disturbed
        BY DEF RunTasks
      <3>8. Record(j) => ~disturbed
        <4>1. Record(j) => disturbed' = disturbed
          BY Zenon DEF Record
        <4>2. QED
          BY <4>1
      <3>9. QED
        BY <2>1, <3>1, <3>2, <3>3, <3>4, <3>5, <3>6, <3>7, <3>8
    <2>3. Orderly
      BY <2>2 DEF PackageIInv
    <2>4. QED
      BY <2>1, <2>2, <2>3, BeginCompileStep, RejectCompileStep, WriteFileStep, BeginRunStep,
         LoadStep, VerifyLockStep, RunTasksStep, RecordStep
  <1>2. CASE UNCHANGED package
    BY <1>2 DEF package, PackageIInv, Orderly
  <1>3. UNCHANGED vars => UNCHANGED package
    BY DEF vars
  <1>4. Next => NextPackage \/ UNCHANGED package
    BY DEF Next
  <1>5. QED
    BY <1>1, <1>2, <1>3, <1>4

\* The invariant of the package implies that runs are as compiled.
LEMMA CompiledBecause == PackageIInv => RunsAsCompiled
  <1> SUFFICES ASSUME Orderly, ~disturbed PROVE RunsAsCompiled
    BY DEF PackageIInv, RunsAsCompiled
  <1>1. ASSUME NEW j \in Job
        PROVE  LET compiles == {i \in Job : i < j /\ job[i].step > 0} IN
               /\ job[j].result # Nothing =>
                      \E i \in compiles :
                          /\ \A k \in compiles : k <= i
                          /\ job[j].tasks = job[i].tasks
                          /\ \A t \in job[j].tasks : job[j].runtime.manifest[Uses[t]]
                                                       = job[i].runtime.manifest[Uses[t]]
               /\ job[j].status = "raised" =>
                      \/ compiles = {}
                      \/ /\ job[j].result # Nothing
                         /\ \E t \in job[j].tasks : job[j].result[t] = "broken"
               /\ pkg.state # Nothing /\ pkg.state.run = j =>
                      job[j].status \notin {"none", "raised", "rejected"}
    <2>1. RunOK(job[j], job, j) /\ StateOK(job, pkg.state)
      BY DEF Orderly
    <2>2. job[j].status = "raised" =>
              \/ \A i \in Job : i < j => job[i].step = 0
              \/ job[j].result # Nothing /\ \E t \in job[j].tasks : job[j].result[t] = "broken"
      BY <2>1 DEF RunOK
    <2>2a. pkg.state # Nothing /\ pkg.state.run = j =>
               job[j].status \notin {"none", "raised", "rejected"}
      BY <2>1 DEF StateOK
    <2>3. job[j].result # Nothing => \E i \in Job : Before(job, j, i) /\ AsCompiled(job[j], job[i])
      BY <2>1 DEF RunOK
    <2>4. QED
      BY <2>2, <2>2a, <2>3 DEF Before, AsCompiled
  <1>2. ASSUME AtWork = {}
        PROVE  InspectOk <=> \E j \in Job : job[j].step > 0
    <2>1. ASSUME InspectOk PROVE \E j \in Job : job[j].step > 0
      <3>1. pkg.workflow # Nothing
        BY <2>1 DEF InspectOk
      <3>2. \E j \in Job : job[j].step # 0
        BY <3>1 DEF Orderly
      <3>3. \A j \in Job : job[j].step \in Nat
        BY DEF Orderly, JobOK
      <3>4. QED
        BY <3>2, <3>3
    <2>2. ASSUME \E j \in Job : job[j].step > 0 PROVE InspectOk
      <3>1. PICK i \in Job : Last(job, i)
        BY <2>2 DEF Orderly
      <3> DEFINE p == job[i]
                 n == Cardinality(p.tasks)
      <3>2. JobOK(p) /\ p.step > 0 /\ p.at \in {"none", "done"} /\ FilesOK(p, pkg)
        BY <1>2, <3>1 DEF Orderly, Last, AtWork
      <3>3. p.step = n + 4 /\ p.tasks # {} /\ p.tasks \in SUBSET Task /\ p.runtime \in RuntimeType
        BY <3>2 DEF JobOK
      <3>4. n \in Nat /\ \A t \in p.tasks : Rank(p.tasks, t) \in Nat /\ Rank(p.tasks, t) <= n
        BY <3>3, FiniteTasks
      <3>5. p.step > n + 1 /\ p.step > n + 2 /\ p.step > n + 3
            /\ \A t \in p.tasks : Rank(p.tasks, t) < p.step
        BY <3>3, <3>4
      <3>6. /\ pkg.workflow = p.tasks /\ pkg.lock = Lock(p.runtime, p.tasks)
            /\ pkg.report # Nothing /\ pkg.golden # Nothing
            /\ \A t \in p.tasks : pkg.schema[t] = Schema(p.runtime, t)
        BY <3>2, <3>5 DEF FilesOK
      <3>7. pkg.workflow # Nothing
        BY <3>3, <3>6, PackageAssumption, Zenon
      <3>8. pkg.lock # Nothing
        <4>1. \A t \in p.tasks : p.runtime.manifest[Uses[t]] \in Manifest
          BY <3>3, WorkspaceAssumption DEF RuntimeType
        <4>2. pkg.lock \in [p.tasks -> Manifest]
          BY <3>6, <4>1 DEF Lock, Digest
        <4>3. QED
          BY <3>3, <4>2, PackageAssumption, Zenon
      <3>9. \E t \in Task : pkg.schema[t] # Nothing
        BY <3>3, <3>6, SchemaOf
      <3>10. QED
        BY <3>6, <3>7, <3>8, <3>9 DEF InspectOk
    <2>3. QED
      BY <2>1, <2>2
  <1>3. QED
    BY <1>1, <1>2 DEF RunsAsCompiled

\* The invariant of the package implies that schema failures are stale files.
LEMMA StaleBecause == PackageIInv => SchemaFailuresAreStale
  <1> SUFFICES ASSUME Orderly, NEW j \in Job
               PROVE  LET q == job[j] IN
            /\ q.status = "schema-failed" => \E t \in Task \ q.tasks : pkg.schema[t] # Nothing
            /\ pkg.state # Nothing /\ pkg.state.run = j =>
                   /\ pkg.state.status = "completed" <=> q.status = "completed"
                   /\ q.status \in {"completed", "schema-failed"} <=>
                          \A t \in q.tasks : pkg.state.tasks[t] = "completed"
    BY DEF PackageIInv, SchemaFailuresAreStale
  <1>1. StaleOK(job[j], pkg.schema) /\ StateOK(job, pkg.state)
    BY DEF Orderly
  <1>2. QED
    BY <1>1 DEF StaleOK, StateOK

\* A package runs what was compiled last, by the manifests of that time, or not at all, and
\* raises only where there is nothing compiled or a task breaks, for any number of jobs and
\* whatever people edit meanwhile (the lock of a package).
THEOREM AlwaysRunsAsCompiled == Spec => []RunsAsCompiled
  <1>1. Init => WorkspaceTypeOK /\ PackageIInv
    BY WorkspaceInit, PackageInit
  <1>2. WorkspaceTypeOK /\ PackageIInv /\ [Next]_vars => (WorkspaceTypeOK /\ PackageIInv)'
    BY WorkspaceNext, PackageNext
  <1>3. QED
    BY <1>1, <1>2, CompiledBecause, PTL DEF Spec

\* A completed run fails on a schema only where an earlier compile has left one behind, and
\* the state file counts only what has really run and fits, for any number of jobs.
THEOREM SchemaFailuresAlwaysStale == Spec => []SchemaFailuresAreStale
  <1>1. Init => WorkspaceTypeOK /\ PackageIInv
    BY WorkspaceInit, PackageInit
  <1>2. WorkspaceTypeOK /\ PackageIInv /\ [Next]_vars => (WorkspaceTypeOK /\ PackageIInv)'
    BY WorkspaceNext, PackageNext
  <1>3. QED
    BY <1>1, <1>2, StaleBecause, PTL DEF Spec

(* The stdio servers *)

\* A message, and a line of a server.
Message == [method : {"query", "notifications/initialized", "tools/call", "other",
                      "session/new", "session/prompt", "session/cancel"},
            id : Nat, at : {"sent", "work", "handled"},
            result : {"none", "good", "failed", "refused", "broken"}, reads : BOOLEAN]
ReplyLine == [id : Nat, told : {"error", "result", "success", "failure"}]

\* What a client may send; what has not begun has no result, and only a call has one.
MessageOK(m, i, protocol) ==
    /\ m.method \in Method[protocol] /\ m.id \in {0, i}
    /\ m.id # 0 => m.method \notin Notification
    /\ m.method \in {"query", "session/new", "session/prompt"} => m.id = i
    /\ m.at = "sent" => m.result = "none" /\ ~m.reads
    /\ m.at = "work" \/ m.result # "none" => IsCall(m)

\* Messages are handled one after the other, in the order they were sent.
InOrder(first, second) == second.at \in {"work", "handled"} => first.at # "work"

\* The messages of a mailbox.
MailOK(q, protocol) ==
    /\ q \in Seq(Message)
    /\ \A i \in 1..Len(q) : MessageOK(q[i], i, protocol)
    /\ \A i, j \in 1..Len(q) : i < j => InOrder(q[i], q[j])

\* The messages that cannot reach the server any more, of what is in its pipe and buffer.
Missing(q, P, B) == {i \in 1..Len(q) : q[i].at = "sent" /\ ~(Pieces(i) \subseteq P \cup B)}

\* What is on its way to the server: pieces of what was sent, those in the buffer before those
\* in the pipe, and all of them behind what it has begun to handle.  Only a program that read
\* its input can have taken any other.
StreamOK(q, P, B) ==
    /\ P \cup B \subseteq 1..(2 * Len(q))
    /\ \A p \in B, r \in P : p < r
    /\ \A i \in 1..Len(q) : q[i].at # "sent" => \A p \in P \cup B : p > 2 * i
    /\ \A i \in Missing(q, P, B) : \E j \in 1..(i - 1) : q[j].reads

\* The line about a message is an error about what never began or broke, or tells its result.
Tells(m, told) ==
    \/ told = "error" /\ m.result \in {"none", "broken"} /\ m.method # "query"
    \/ told = Told(m, FALSE)

\* The requests that are over; and a mailbox in which every message without id is a notification.
Asked(q) == {i \in 1..Len(q) : q[i].at = "handled" /\ q[i].id # 0}
Plain(q) == \A i \in 1..Len(q) : q[i].id = 0 => q[i].method \in Notification

\* The lines answer the requests that are over, in their order, and one that answers none is
\* there only when a message is lost.
Answering(q, lines, lost) ==
    /\ {lines[k].id : k \in 1..Len(lines)} \ {0} = Asked(q)
    /\ \A k, l \in 1..Len(lines) :
           k < l /\ lines[k].id # 0 /\ lines[l].id # 0 => lines[k].id < lines[l].id
    /\ \A k \in 1..Len(lines) : lines[k].id = 0 => lost

LinesOK(q, lines, lost) ==
    /\ lines \in Seq(ReplyLine)
    /\ \A k \in 1..Len(lines) :
           lines[k].id # 0 => lines[k].id \in Asked(q) /\ Tells(q[lines[k].id], lines[k].told)
    /\ Plain(q) => Answering(q, lines, lost)

\* There is a session only if its creation has been answered, and a prompt is only run in one.
Live(sessions, q) ==
    sessions > 0 \/ \E i \in 1..Len(q) : q[i].method = "session/prompt" /\ q[i].result # "none"
Created(q, lines) ==
    \E k \in 1..Len(lines) :
        lines[k].id # 0 /\ q[lines[k].id].method = "session/new" /\ lines[k].told = "result"
SessionsOK(sessions, q, lines) == Live(sessions, q) => Created(q, lines)

ServerType == [up : BOOLEAN, runtime : RuntimeType, sessions : Nat]

\* What the invariant says of one server.
ServerOK(protocol, sessions, q, P, B, lines) ==
    /\ MailOK(q, protocol) /\ StreamOK(q, P, B)
    /\ LinesOK(q, lines, Missing(q, P, B) # {})
    /\ SessionsOK(sessions, q, lines)

\* The inductive invariant of the servers.
ServerIInv ==
    /\ server \in [Server -> ServerType]
    /\ mail = [s \in Server |-> mail[s]] /\ reply = [s \in Server |-> reply[s]]
    /\ pipe = [s \in Server |-> pipe[s]] /\ buffer = [s \in Server |-> buffer[s]]
    /\ \A s \in Server :
           ServerOK(Protocol[s], server[s].sessions, mail[s], pipe[s], buffer[s], reply[s])

(* The mailbox *)

\* The messages of a mailbox are numbered from 1.
LEMMA MailIndex ==
    ASSUME NEW q \in Seq(Message)
    PROVE  /\ Len(q) \in Nat /\ DOMAIN q = 1..Len(q)
           /\ \A i \in 1..Len(q) : q[i] \in Message /\ i \in Nat
  BY LenProperties, ElementOfSeq

\* Send: a new message goes behind all others.
LEMMA SentOK ==
    ASSUME NEW protocol \in {"mcp", "acp"}, NEW q, MailOK(q, protocol),
           NEW method \in Method[protocol], NEW id \in Ids(method),
           NEW m, m = [method |-> method, id |-> IF id THEN Len(q) + 1 ELSE 0, at |-> "sent",
                       result |-> "none", reads |-> FALSE]
    PROVE  /\ MailOK(Append(q, m), protocol) /\ m \in Message /\ id \in BOOLEAN
  <1>1. q \in Seq(Message)
    BY DEF MailOK
  <1>2. id \in BOOLEAN /\ (id => method \notin Notification)
        /\ (method \in {"query", "session/new", "session/prompt"} => id)
    BY DEF Ids, Notification
  <1>3. method \in {"query", "notifications/initialized", "tools/call", "other",
                    "session/new", "session/prompt", "session/cancel"}
    BY DEF Method
  <1>4. m \in Message
    BY <1>1, <1>2, <1>3, MailIndex DEF Message
  <1> DEFINE p == Append(q, m)
             n == Len(q)
  <1>5. /\ p \in Seq(Message) /\ Len(p) = n + 1 /\ n \in Nat
        /\ \A i \in 1..n : p[i] = q[i]
        /\ p[n + 1] = m
    BY <1>1, <1>4, AppendProperties, MailIndex
  <1> HIDE DEF p
  <1>6. MessageOK(m, n + 1, protocol)
    BY <1>2 DEF MessageOK
  <1> HIDE DEF n
  <1>7. ASSUME NEW i \in 1..Len(p) PROVE MessageOK(p[i], i, protocol)
    <2>1. i \in 1..n \/ i = n + 1
      BY <1>5
    <2>2. QED
      BY <1>5, <1>6, <2>1 DEF MailOK, n
  <1>8. ASSUME NEW i \in 1..Len(p), NEW j \in 1..Len(p), i < j PROVE InOrder(p[i], p[j])
    <2>1. i \in 1..n /\ (j \in 1..n \/ j = n + 1)
      BY <1>5, <1>8
    <2>2. CASE j \in 1..n
      BY <1>5, <1>8, <2>1, <2>2 DEF MailOK, n
    <2>3. CASE j = n + 1
      <3>1. p[j].at = "sent"
        BY <1>5, <2>3
      <3>2. QED
        BY <3>1 DEF InOrder
    <2>4. QED
      BY <2>1, <2>2, <2>3
  <1>9. QED
    BY <1>2, <1>4, <1>5, <1>7, <1>8 DEF MailOK, p, n

\* A message that was sent, with none at work and none behind it begun, or was at work, moves on.
Moves(q, i, m) ==
    /\ m \in Message /\ m.method = q[i].method /\ m.id = q[i].id
    /\ m.at = "work" \/ m.result # "none" => IsCall(m)
    /\ \/ /\ q[i].at = "sent" /\ m.at \in {"work", "handled"}
          /\ \A j \in 1..Len(q) : q[j].at # "work" /\ (i < j => q[j].at = "sent")
       \/ /\ q[i].at = "work" /\ m.at = "handled" /\ m.reads = q[i].reads

\* A message that is handled is the last that has begun.
LEMMA MovedLast ==
    ASSUME NEW protocol, NEW q, MailOK(q, protocol), NEW i \in 1..Len(q), NEW m, Moves(q, i, m),
           NEW j \in 1..Len(q)
    PROVE  /\ j < i => q[j].at \in {"handled", "sent"}
           /\ i < j => q[j].at = "sent"
  <1>1. q[j] \in Message /\ j \in Nat /\ i \in Nat
    BY MailIndex DEF MailOK
  <1>2. ASSUME j < i PROVE q[j].at \in {"handled", "sent"}
    <2>1. InOrder(q[j], q[i])
      BY <1>2 DEF MailOK
    <2>2. QED
      BY <1>1, <1>2, <2>1 DEF InOrder, Moves, Message
  <1>3. ASSUME i < j PROVE q[j].at = "sent"
    <2>1. InOrder(q[i], q[j])
      BY <1>3 DEF MailOK
    <2>2. QED
      BY <1>1, <1>3, <2>1 DEF InOrder, Moves, Message
  <1>4. QED
    BY <1>2, <1>3

\* Moving a message on keeps what holds of the mailbox.
LEMMA MovedOK ==
    ASSUME NEW protocol, NEW q, MailOK(q, protocol), NEW i \in 1..Len(q), NEW m, Moves(q, i, m)
    PROVE  /\ MailOK([q EXCEPT ![i] = m], protocol) /\ Len([q EXCEPT ![i] = m]) = Len(q)
           /\ \A j \in 1..Len(q) : [q EXCEPT ![i] = m][j] = IF j = i THEN m ELSE q[j]
  <1> DEFINE p == [q EXCEPT ![i] = m]
  <1>1. q \in Seq(Message) /\ Len(q) \in Nat /\ m \in Message /\ q[i] \in Message
    BY MailIndex DEF MailOK, Moves
  <1>2. /\ p \in Seq(Message) /\ Len(p) = Len(q)
        /\ \A j \in 1..Len(q) : p[j] = IF j = i THEN m ELSE q[j]
    BY <1>1, ExceptSeq
  <1> HIDE DEF p
  <1>3. ASSUME NEW j \in 1..Len(q)
        PROVE  /\ j < i => q[j].at \in {"handled", "sent"}
               /\ i < j => q[j].at = "sent"
    BY MovedLast
  <1>4. ASSUME NEW j \in 1..Len(q) PROVE MessageOK(p[j], j, protocol)
    <2>1. MessageOK(q[j], j, protocol) /\ MessageOK(q[i], i, protocol)
      BY DEF MailOK
    <2>2. MessageOK(m, i, protocol)
      BY <2>1 DEF MessageOK, Moves
    <2>3. QED
      BY <1>2, <2>1, <2>2
  <1>5. ASSUME NEW j \in 1..Len(q), NEW k \in 1..Len(q), j < k PROVE InOrder(p[j], p[k])
    <2>1. InOrder(q[j], q[k]) /\ j \in Nat /\ k \in Nat
      BY <1>5, <1>1 DEF MailOK
    <2>2. CASE k = i
      <3>1. p[j] = q[j] /\ p[k] = m /\ q[j].at \in {"handled", "sent"}
        BY <1>2, <1>3, <1>5, <2>1, <2>2
      <3>2. QED
        BY <3>1 DEF InOrder
    <2>3. CASE j = i
      <3>1. p[k] = q[k] /\ q[k].at = "sent"
        BY <1>2, <1>3, <1>5, <2>1, <2>3
      <3>2. QED
        BY <3>1 DEF InOrder
    <2>4. CASE j # i /\ k # i
      BY <1>2, <2>1, <2>4
    <2>5. QED
      BY <2>2, <2>3, <2>4
  <1>6. QED
    BY <1>2, <1>3, <1>4, <1>5 DEF MailOK, p

(* The stream of a server *)

\* The ends of lines in a buffer, and its first line.
EndsIn(B) == {p \in B : p % 2 = 0}
LineIn(B) == {p \in B : p <= First(EndsIn(B))}

\* A piece is the first of a message or the second, which has the end of its line.
LEMMA PieceOf ==
    ASSUME NEW n \in Nat, NEW p \in 1..(2 * n)
    PROVE  \E k \in 1..n : (p = 2 * k - 1 /\ p % 2 # 0) \/ (p = 2 * k /\ p % 2 = 0)
  <1> DEFINE h == (p + 1) \div 2
  <1>1. h \in 1..n /\ (p = 2 * h - 1 \/ p = 2 * h)
    OBVIOUS
  <1>2. PICK k \in 1..n : p = 2 * k - 1 \/ p = 2 * k
    BY <1>1
  <1>3. p = 2 * k - 1 => p % 2 # 0
    OBVIOUS
  <1>4. p = 2 * k => p % 2 = 0
    OBVIOUS
  <1>5. (p = 2 * k - 1 /\ p % 2 # 0) \/ (p = 2 * k /\ p % 2 = 0)
    BY <1>2, <1>3, <1>4, Zenon
  <1>6. QED
    BY <1>5, Zenon

\* The first line of a buffer has one end, its last piece: that of some message.
LEMMA FirstLine ==
    ASSUME NEW n \in Nat, NEW B \in SUBSET (1..(2 * n)), EndsIn(B) # {}
    PROVE  \E k \in 1..n : /\ 2 * k \in B /\ LineIn(B) = {p \in B : p <= 2 * k}
                           /\ \A j \in 1..n : 2 * j \in B => k <= j
  <1> DEFINE S == EndsIn(B)
  <1>1. S \in SUBSET Nat /\ S # {} /\ S \subseteq B
    <2>1. B \subseteq Nat
      OBVIOUS
    <2>2. S \subseteq B /\ S # {}
      BY DEF EndsIn
    <2>3. QED
      BY <2>1, <2>2
  <1>1a. \A j \in 1..n : 2 * j \in B => 2 * j \in S
    BY DEF EndsIn
  <1>1b. \A p \in S : \E k \in 1..n : p = 2 * k
    <2> SUFFICES ASSUME NEW p \in S PROVE \E k \in 1..n : p = 2 * k
      OBVIOUS
    <2>1. p \in 1..(2 * n) /\ p % 2 = 0
      BY DEF EndsIn
    <2>2. QED
      BY <2>1, PieceOf
  <1>2. LineIn(B) = {p \in B : p <= First(S)}
    BY DEF LineIn
  <1> HIDE DEF S
  <1>3. First(S) \in S /\ \A j \in S : First(S) <= j
    BY <1>1, HasLeast DEF First
  <1>4. PICK k \in 1..n : First(S) = 2 * k
    BY <1>1b, <1>3
  <1>5. ASSUME NEW j \in 1..n, 2 * j \in B PROVE k <= j
    <2>1. 2 * k <= 2 * j
      BY <1>1a, <1>3, <1>4, <1>5
    <2>2. QED
      BY <2>1
  <1>6. QED
    BY <1>1, <1>2, <1>3, <1>4, <1>5


\* The pieces of another message are others.
LEMMA OtherPieces ==
    ASSUME NEW i \in Nat, NEW j \in Nat, i # j
    PROVE  Pieces(i) \cap Pieces(j) = {}
  BY DEF Pieces

\* Send: the pieces of the new message go behind all others.
LEMMA SentStream ==
    ASSUME NEW q, NEW p, NEW P, NEW B, StreamOK(q, P, B), Len(q) \in Nat, Len(p) = Len(q) + 1,
           \A i \in 1..Len(q) : p[i] = q[i], p[Len(q) + 1].at = "sent"
    PROVE  /\ StreamOK(p, P \cup Pieces(Len(q) + 1), B)
           /\ Missing(q, P, B) # {} => Missing(p, P \cup Pieces(Len(q) + 1), B) # {}
  <1> DEFINE n == Len(q)
             R == P \cup Pieces(n + 1)
  <1>1. /\ P \cup B \subseteq 1..(2 * n) /\ n \in Nat
        /\ \A x \in B, r \in P : x < r
        /\ \A i \in 1..n : q[i].at # "sent" => \A x \in P \cup B : x > 2 * i
        /\ \A i \in Missing(q, P, B) : \E j \in 1..(i - 1) : q[j].reads
    BY DEF StreamOK
  <1>2. Pieces(n + 1) = {2 * n + 1, 2 * n + 2}
    BY <1>1 DEF Pieces
  <1>3. R \cup B \subseteq 1..(2 * Len(p))
    BY <1>1, <1>2
  <1>4. \A x \in B, r \in R : x < r
    BY <1>1, <1>2
  <1>5. ASSUME NEW i \in 1..Len(p), p[i].at # "sent", NEW x \in R \cup B
        PROVE  x > 2 * i
    <2>1. i \in 1..n /\ q[i].at # "sent"
      <3>1. i \in 1..n \/ i = n + 1
        BY <1>1
      <3>2. QED
        BY <1>5, <3>1
    <2>2. CASE x \in P \cup B
      BY <1>1, <2>1, <2>2
    <2>3. CASE x \in Pieces(n + 1)
      BY <1>1, <1>2, <2>1, <2>3
    <2>4. QED
      BY <2>2, <2>3
  <1>6. ASSUME NEW i \in 1..Len(p)
        PROVE  i \in Missing(p, R, B) <=> i \in Missing(q, P, B)
    <2>1. CASE i = n + 1
      <3>1. i \notin 1..n /\ Pieces(i) \subseteq R \cup B
        BY <1>1, <2>1
      <3>2. QED
        BY <3>1 DEF Missing
    <2>2. CASE i \in 1..n
      <3>1. Pieces(i) \cap Pieces(n + 1) = {}
        BY <1>1, <2>2, OtherPieces
      <3>2. Pieces(i) \subseteq R \cup B <=> Pieces(i) \subseteq P \cup B
        BY <3>1
      <3>3. QED
        BY <2>2, <3>2 DEF Missing
    <2>3. QED
      BY <1>1, <2>1, <2>2
  <1>7. ASSUME NEW i \in Missing(p, R, B) PROVE \E j \in 1..(i - 1) : p[j].reads
    <2>1. i \in 1..Len(p) /\ i \in Missing(q, P, B)
      BY <1>6 DEF Missing
    <2>2. PICK j \in 1..(i - 1) : q[j].reads
      BY <1>1, <2>1
    <2>3. j \in 1..n
      BY <1>1, <2>1 DEF Missing
    <2>4. QED
      BY <2>2, <2>3
  <1>8. Missing(q, P, B) # {} => Missing(p, R, B) # {}
    <2>1. \A i \in Missing(q, P, B) : i \in 1..Len(p)
      BY <1>1 DEF Missing
    <2>2. QED
      BY <1>6, <2>1
  <1>9. QED
    BY <1>3, <1>4, <1>5, <1>7, <1>8 DEF StreamOK

\* Refill: the reader takes from the front of the pipe.
LEMMA RefilledStream ==
    ASSUME NEW q, NEW P, NEW B, StreamOK(q, P, B), NEW R, NEW C, R \cup C = P \cup B,
           \A x \in C, r \in R : x < r
    PROVE  StreamOK(q, R, C) /\ (Missing(q, P, B) # {} => Missing(q, R, C) # {})
  <1>1. Missing(q, R, C) = Missing(q, P, B)
    BY DEF Missing
  <1>2. StreamOK(q, R, C)
    BY <1>1 DEF StreamOK
  <1>3. QED
    BY <1>1, <1>2

\* ProgramReads: what a program takes was sent after the call that started it.
LEMMA ReadStream ==
    ASSUME NEW q, NEW P, NEW B, StreamOK(q, P, B), Len(q) \in Nat, NEW last \in P,
           NEW w \in 1..Len(q), q[w].at = "work", q[w].reads
    PROVE  LET R == {p \in P : p > last}
           IN  StreamOK(q, R, B) /\ (Missing(q, P, B) # {} => Missing(q, R, B) # {})
  <1> DEFINE R == {p \in P : p > last}
  <1>1. /\ P \cup B \subseteq 1..(2 * Len(q)) /\ R \subseteq P
        /\ \A x \in B, r \in P : x < r
        /\ \A i \in 1..Len(q) : q[i].at # "sent" => \A x \in P \cup B : x > 2 * i
        /\ \A i \in Missing(q, P, B) : \E j \in 1..(i - 1) : q[j].reads
    BY DEF StreamOK
  <1> HIDE DEF R
  <1>2. Missing(q, P, B) \subseteq Missing(q, R, B)
    BY <1>1 DEF Missing
  <1>3. ASSUME NEW i \in Missing(q, R, B) PROVE \E j \in 1..(i - 1) : q[j].reads
    <2>1. CASE i \in Missing(q, P, B)
      BY <1>1, <2>1
    <2>2. CASE i \notin Missing(q, P, B)
      <3>1. i \in 1..Len(q) /\ Pieces(i) \subseteq P \cup B
        BY <1>3, <2>2 DEF Missing
      <3>2. 2 * i \in P \cup B
        BY <3>1 DEF Pieces
      <3>3. 2 * i > 2 * w
        BY <1>1, <3>2
      <3>4. w \in 1..(i - 1)
        BY <3>1, <3>3
      <3>5. QED
        BY <3>4
    <2>3. QED
      BY <2>1, <2>2
  <1>4. StreamOK(q, R, B)
    BY <1>1, <1>3 DEF StreamOK
  <1>5. QED
    BY <1>2, <1>4 DEF R

\* EndCall: a call that ends leaves what is on its way.
LEMMA EndedStream ==
    ASSUME NEW q, NEW p, NEW P, NEW B, StreamOK(q, P, B), Len(q) \in Nat, Len(p) = Len(q),
           NEW i \in 1..Len(q), q[i].at # "sent", p[i].at # "sent", p[i].reads = q[i].reads,
           \A j \in 1..Len(q) : j # i => p[j] = q[j]
    PROVE  StreamOK(p, P, B) /\ Missing(p, P, B) = Missing(q, P, B)
  <1>1. Missing(p, P, B) = Missing(q, P, B)
    BY DEF Missing
  <1>2. ASSUME NEW k \in Missing(p, P, B) PROVE \E j \in 1..(k - 1) : p[j].reads
    <2>1. k \in 1..Len(q) /\ \E j \in 1..(k - 1) : q[j].reads
      BY <1>1 DEF StreamOK, Missing
    <2>2. PICK j \in 1..(k - 1) : q[j].reads
      BY <2>1
    <2>3. j \in 1..Len(q)
      BY <2>1
    <2>4. QED
      BY <2>2, <2>3
  <1>3. ASSUME NEW j \in 1..Len(p), p[j].at # "sent" PROVE \A x \in P \cup B : x > 2 * j
    BY <1>3 DEF StreamOK
  <1>4. QED
    BY <1>1, <1>2, <1>3 DEF StreamOK

\* What a server reads whole has not begun, and nothing behind it.
LEMMA ReadsNext ==
    ASSUME NEW q, NEW P, NEW B, StreamOK(q, P, B), q \in Seq(Message),
           NEW i \in 1..Len(q), LineIn(B) = Pieces(i)
    PROVE  \A j \in 1..Len(q) : i <= j => q[j].at = "sent"
  <1> SUFFICES ASSUME NEW j \in 1..Len(q), i <= j, q[j].at # "sent" PROVE FALSE
    OBVIOUS
  <1>1. Len(q) \in Nat
    BY MailIndex
  <1>2. 2 * i \in B
    BY DEF LineIn, Pieces
  <1>3. 2 * i > 2 * j
    BY <1>2 DEF StreamOK
  <1>4. QED
    BY <1>1, <1>3

\* Handle, BeginCall: the line of message i leaves the buffer.
LEMMA HandledStream ==
    ASSUME NEW q, NEW p, NEW P, NEW B, StreamOK(q, P, B), Len(q) \in Nat, Len(p) = Len(q),
           NEW i \in 1..Len(q), EndsIn(B) # {}, LineIn(B) = Pieces(i), p[i].at # "sent",
           ~q[i].reads, \A j \in 1..Len(q) : j # i => p[j] = q[j]
    PROVE  /\ StreamOK(p, P, B \ LineIn(B))
           /\ Missing(q, P, B) # {} => Missing(p, P, B \ LineIn(B)) # {}
  <1> DEFINE n == Len(q)
             C == B \ LineIn(B)
  <1>1. /\ P \cup B \subseteq 1..(2 * n) /\ n \in Nat
        /\ \A x \in B, r \in P : x < r
        /\ \A j \in 1..n : q[j].at # "sent" => \A x \in P \cup B : x > 2 * j
        /\ \A j \in Missing(q, P, B) : \E k \in 1..(j - 1) : q[k].reads
    BY DEF StreamOK
  <1>2. B \in SUBSET (1..(2 * n))
    BY <1>1
  <1>3. PICK k \in 1..n : /\ 2 * k \in B /\ LineIn(B) = {x \in B : x <= 2 * k}
                          /\ \A j \in 1..n : 2 * j \in B => k <= j
    BY <1>1, <1>2, FirstLine
  <1>4. 2 * i \in B /\ 2 * i <= 2 * k /\ 2 * k \in Pieces(i)
    <2>1. 2 * i \in LineIn(B)
      BY DEF Pieces
    <2>2. 2 * k \in LineIn(B)
      BY <1>3
    <2>3. QED
      BY <1>3, <2>1, <2>2
  <1>5. k = i
    BY <1>1, <1>4 DEF Pieces
  <1>6. C = {x \in B : x > 2 * i} /\ C \subseteq B
    BY <1>1, <1>3, <1>5
  <1>7. \A x \in P \cup C : x > 2 * i
    BY <1>1, <1>4, <1>6
  <1>8. ASSUME NEW j \in 1..n
        PROVE  j \in Missing(p, P, C) <=> j \in Missing(q, P, B)
    <2>1. CASE j = i
      <3>1. Pieces(i) \subseteq B
        BY DEF LineIn
      <3>2. QED
        BY <2>1, <3>1 DEF Missing
    <2>2. CASE j # i
      <3>1. Pieces(i) \cap Pieces(j) = {}
        BY <1>1, <2>2, OtherPieces
      <3>2. Pieces(j) \subseteq P \cup C <=> Pieces(j) \subseteq P \cup B
        BY <3>1
      <3>3. QED
        BY <2>2, <3>2 DEF Missing
    <2>3. QED
      BY <2>1, <2>2
  <1>9. Missing(p, P, C) = Missing(q, P, B)
    BY <1>8 DEF Missing
  <1> HIDE DEF C
  <1>10. ASSUME NEW j \in Missing(p, P, C) PROVE \E l \in 1..(j - 1) : p[l].reads
    <2>1. PICK l \in 1..(j - 1) : q[l].reads
      BY <1>1, <1>9, <1>10
    <2>2. l \in 1..n /\ l # i
      BY <1>1, <1>10, <2>1 DEF Missing
    <2>3. QED
      BY <2>1, <2>2
  <1>11. ASSUME NEW j \in 1..n, p[j].at # "sent", NEW x \in P \cup C PROVE x > 2 * j
    <2>1. CASE j = i
      BY <1>7, <2>1
    <2>2. CASE j # i
      BY <1>1, <1>6, <1>11, <2>2
    <2>3. QED
      BY <2>1, <2>2
  <1>12. StreamOK(p, P, C)
    BY <1>1, <1>6, <1>10, <1>11 DEF StreamOK
  <1>13. QED
    BY <1>9, <1>12 DEF C

\* RefuseLine: a torn line ends with the end of a message, which is lost.  If it holds the
\* whole of that message then also the beginning of an earlier one, which was lost before.
LEMMA TornStream ==
    ASSUME NEW q, NEW P, NEW B, StreamOK(q, P, B), Len(q) \in Nat, EndsIn(B) # {},
           \A i \in 1..Len(q) : LineIn(B) # Pieces(i)
    PROVE  StreamOK(q, P, B \ LineIn(B)) /\ Missing(q, P, B \ LineIn(B)) # {}
  <1> DEFINE n == Len(q)
             C == B \ LineIn(B)
  <1>1. /\ P \cup B \subseteq 1..(2 * n) /\ n \in Nat /\ C \subseteq B
        /\ \A x \in B, r \in P : x < r
        /\ \A j \in 1..n : q[j].at # "sent" => \A x \in P \cup B : x > 2 * j
        /\ \A j \in Missing(q, P, B) : \E k \in 1..(j - 1) : q[k].reads
    BY DEF StreamOK
  <1>2. B \in SUBSET (1..(2 * n))
    BY <1>1
  <1>3. PICK k \in 1..n : /\ 2 * k \in B /\ LineIn(B) = {x \in B : x <= 2 * k}
                          /\ \A j \in 1..n : 2 * j \in B => k <= j
    BY <1>1, <1>2, FirstLine
  <1>4. C = {x \in B : x > 2 * k} /\ 2 * k \notin C /\ 2 * k \notin P
    BY <1>1, <1>3
  <1>5. q[k].at = "sent"
    BY <1>1, <1>3
  <1>6. k \in Missing(q, P, C)
    BY <1>4, <1>5 DEF Missing, Pieces
  <1> HIDE DEF C
  <1>7. ASSUME NEW i \in Missing(q, P, C), i \notin Missing(q, P, B)
        PROVE  \E j \in 1..(i - 1) : q[j].reads
    <2>1. i \in 1..n /\ 2 * i \in P \cup B /\ 2 * i - 1 \in P \cup B
          /\ ~(Pieces(i) \subseteq P \cup C)
      BY <1>7 DEF Missing, Pieces
    <2>2. i <= k
      <3> SUFFICES ASSUME i > k PROVE FALSE
        BY <1>1, <2>1
      <3>1. 2 * i > 2 * k /\ 2 * i - 1 > 2 * k
        BY <1>1, <2>1
      <3>2. 2 * i \in P \cup C /\ 2 * i - 1 \in P \cup C
        BY <1>1, <1>4, <2>1, <3>1
      <3>3. QED
        BY <2>1, <3>2 DEF Pieces
    <2>3. 2 * i \in B /\ 2 * i - 1 \in B
      <3>1. ~(2 * k < 2 * i) /\ ~(2 * k < 2 * i - 1)
        BY <1>1, <2>1, <2>2
      <3>2. QED
        BY <1>1, <1>3, <2>1, <3>1
    <2>4. i = k
      BY <1>1, <1>3, <2>1, <2>2, <2>3
    <2>5. Pieces(k) \subseteq LineIn(B)
      BY <1>1, <1>3, <2>3, <2>4 DEF Pieces
    <2>6. PICK x \in LineIn(B) : x \notin Pieces(k)
      <3>1. LineIn(B) # Pieces(k)
        OBVIOUS
      <3>2. QED
        BY <2>5, <3>1
    <2>7. x \in 1..(2 * n) /\ x \in B /\ x <= 2 * k
      BY <1>1, <1>3, <2>6
    <2>8. PICK l \in 1..n : x = 2 * l - 1 \/ x = 2 * l
      BY <1>1, <2>7, PieceOf
    <2>9. x # 2 * k /\ x # 2 * k - 1
      BY <2>6 DEF Pieces
    <2>10. l < k
      BY <1>1, <2>7, <2>8, <2>9
    <2>11. 2 * l \notin P \cup B
      BY <1>1, <1>3, <2>10
    <2>12. x = 2 * l - 1
      BY <2>7, <2>8, <2>11
    <2>13. q[l].at = "sent"
      <3> SUFFICES ASSUME q[l].at # "sent" PROVE FALSE
        OBVIOUS
      <3>1. x > 2 * l
        BY <1>1, <2>7
      <3>2. QED
        BY <1>1, <2>12, <3>1
    <2>14. l \in Missing(q, P, B)
      BY <2>11, <2>13 DEF Missing, Pieces
    <2>15. PICK j \in 1..(l - 1) : q[j].reads
      BY <1>1, <2>14
    <2>16. j \in 1..(i - 1)
      BY <1>1, <2>4, <2>10
    <2>17. QED
      BY <2>15, <2>16
  <1>8. StreamOK(q, P, C)
    BY <1>1, <1>7 DEF StreamOK
  <1>9. QED
    BY <1>6, <1>8 DEF C

(* What the client reads *)

\* As long as no message is answered, the lines match those that were.
LEMMA LinesStill ==
    ASSUME NEW q \in Seq(Message), NEW p \in Seq(Message), Len(q) <= Len(p),
           \A i \in 1..Len(p) : p[i].at = "handled" => i \in 1..Len(q) /\ p[i] = q[i],
           \A i \in 1..Len(q) : q[i].at = "handled" => p[i] = q[i],
           Plain(p) => Plain(q), NEW before, NEW lost, before => lost,
           NEW lines, LinesOK(q, lines, before)
    PROVE  LinesOK(p, lines, lost)
  <1>1. Len(q) \in Nat /\ Len(p) \in Nat
    BY MailIndex
  <1>2. Asked(p) = Asked(q)
    BY <1>1 DEF Asked
  <1>3. ASSUME NEW k \in 1..Len(lines), lines[k].id # 0
        PROVE  lines[k].id \in Asked(p) /\ Tells(p[lines[k].id], lines[k].told)
    <2>1. lines[k].id \in Asked(q) /\ Tells(q[lines[k].id], lines[k].told)
      BY <1>3 DEF LinesOK
    <2>2. p[lines[k].id] = q[lines[k].id]
      BY <2>1 DEF Asked
    <2>3. QED
      BY <1>2, <2>1, <2>2
  <1>4. Plain(p) => Answering(p, lines, lost)
    BY <1>2 DEF LinesOK, Answering
  <1>5. QED
    BY <1>3, <1>4 DEF LinesOK

\* RefuseLine: a line about no message, when one is lost.
LEMMA LinesRefused ==
    ASSUME NEW q, NEW lines, NEW before, LinesOK(q, lines, before)
    PROVE  LinesOK(q, Append(lines, [id |-> 0, told |-> "error"]), TRUE)
  <1> DEFINE line == [id |-> 0, told |-> "error"]
             more == Append(lines, line)
             n == Len(lines)
  <1>1. line \in ReplyLine /\ line.id = 0
    BY DEF ReplyLine
  <1> HIDE DEF line
  <1>2. /\ more \in Seq(ReplyLine) /\ Len(more) = n + 1 /\ n \in Nat
        /\ \A k \in 1..n : more[k] = lines[k]
        /\ more[n + 1] = line
    BY <1>1, AppendProperties, LenProperties DEF LinesOK
  <1> HIDE DEF more, n
  <1>3. ASSUME NEW k \in 1..Len(more), more[k].id # 0
        PROVE  k \in 1..n /\ more[k] = lines[k]
    <2>1. k \in 1..n \/ k = n + 1
      BY <1>2
    <2>2. QED
      BY <1>1, <1>2, <1>3, <2>1
  <1>4. ASSUME NEW k \in 1..Len(more), more[k].id # 0
        PROVE  more[k].id \in Asked(q) /\ Tells(q[more[k].id], more[k].told)
    BY <1>3, <1>4 DEF LinesOK, n
  <1>5. ASSUME Plain(q) PROVE Answering(q, more, TRUE)
    <2>1. Answering(q, lines, before)
      BY <1>5 DEF LinesOK
    <2>2. ASSUME NEW j \in {more[k].id : k \in 1..Len(more)} \ {0} PROVE j \in Asked(q)
      BY <1>4, <2>2
    <2>3. ASSUME NEW j \in Asked(q) PROVE j \in {more[k].id : k \in 1..Len(more)} \ {0}
      <3>1. PICK k \in 1..n : lines[k].id = j /\ j # 0
        BY <2>1 DEF Answering, n
      <3>2. k \in 1..Len(more) /\ more[k].id = j
        BY <1>2, <3>1
      <3>3. QED
        BY <3>1, <3>2
    <2>4. ASSUME NEW k \in 1..Len(more), NEW l \in 1..Len(more), k < l, more[k].id # 0, more[l].id # 0
          PROVE  more[k].id < more[l].id
      <3>1. k \in 1..n /\ l \in 1..n /\ more[k] = lines[k] /\ more[l] = lines[l]
        BY <1>3, <2>4
      <3>2. QED
        BY <2>1, <2>4, <3>1 DEF Answering, n
    <2>5. {more[k].id : k \in 1..Len(more)} \ {0} = Asked(q)
      BY <2>2, <2>3
    <2>6. QED
      BY <2>4, <2>5 DEF Answering
  <1>6. QED
    BY <1>2, <1>4, <1>5 DEF LinesOK, more, line

\* The line about the message m, which is handled now.
WithReply(m, error, lines) ==
    IF Silent(m, error) THEN lines ELSE Append(lines, [id |-> m.id, told |-> Told(m, error)])

Handles(q, i, m, error, protocol) ==
    /\ i \in 1..Len(q) /\ Moves(q, i, m) /\ m.at = "handled" /\ m.result = q[i].result
    /\ error \in BOOLEAN
    /\ error => m.result \in {"none", "broken"} /\ m.method # "query" /\ m.method \notin Notification

\* Handling a message adds it to the answered ones if it has an id, and it is the latest.
LEMMA AskedNext ==
    ASSUME NEW protocol, NEW q, MailOK(q, protocol), NEW i, NEW m, NEW error,
           Handles(q, i, m, error, protocol)
    PROVE  /\ i \notin Asked(q) /\ i \in Nat \ {0} /\ q[i].id \in {0, i}
           /\ Asked([q EXCEPT ![i] = m]) = IF q[i].id = 0 THEN Asked(q) ELSE Asked(q) \cup {i}
           /\ \A j \in Asked(q) : j < i /\ j # 0 /\ j \in 1..Len(q)
           /\ Plain([q EXCEPT ![i] = m]) => Plain(q)
  <1> DEFINE p == [q EXCEPT ![i] = m]
  <1>0. i \in 1..Len(q) /\ Moves(q, i, m)
    BY DEF Handles
  <1>1. /\ Len(p) = Len(q) /\ \A j \in 1..Len(q) : p[j] = IF j = i THEN m ELSE q[j]
        /\ \A j \in 1..Len(q) : i < j => q[j].at = "sent"
    <2>1. Len(p) = Len(q)
      BY <1>0, MovedOK
    <2>2. \A j \in 1..Len(q) : p[j] = IF j = i THEN m ELSE q[j]
      BY <1>0, MovedOK
    <2>3. ASSUME NEW j \in 1..Len(q), i < j PROVE q[j].at = "sent"
      BY <1>0, <2>3, MovedLast
    <2>4. QED
      BY <2>1, <2>2, <2>3
  <1>2. Len(q) \in Nat /\ i \in 1..Len(q) /\ q[i].id \in {0, i}
        /\ m.at = "handled" /\ m.id = q[i].id /\ m.method = q[i].method /\ q[i].at # "handled"
    BY MailIndex DEF MailOK, MessageOK, Handles, Moves
  <1> HIDE DEF p
  <1>3. ASSUME NEW j
        PROVE  j \in Asked(p) <=> (j \in Asked(q) \/ (j = i /\ q[i].id # 0))
    BY <1>1, <1>2 DEF Asked
  <1>4. Asked(p) = IF q[i].id = 0 THEN Asked(q) ELSE Asked(q) \cup {i}
    BY <1>3
  <1>5. \A j \in Asked(q) : j < i /\ j # 0 /\ j \in 1..Len(q)
    BY <1>1, <1>2 DEF Asked
  <1>6. Plain(p) => Plain(q)
    BY <1>1, <1>2 DEF Plain
  <1>7. i \notin Asked(q)
    BY <1>2 DEF Asked
  <1>8. QED
    BY <1>2, <1>4, <1>5, <1>6, <1>7 DEF p

\* A line about message i tells what became of it.
LEMMA ToldOK ==
    ASSUME NEW protocol, NEW q, MailOK(q, protocol), NEW i, NEW m, NEW error,
           Handles(q, i, m, error, protocol)
    PROVE  /\ Tells(m, Told(q[i], error))
           /\ Told(q[i], error) \in {"error", "result", "success", "failure"}
           /\ Silent(q[i], error) => q[i].id = 0
           /\ q[i].id = 0 /\ ~Silent(q[i], error) => error
           /\ error => q[i].method \notin Notification
  <1>1. m.method = q[i].method /\ m.id = q[i].id /\ m.result = q[i].result /\ error \in BOOLEAN
    BY DEF Handles, Moves
  <1>2. MessageOK(q[i], i, protocol)
    BY DEF MailOK, Handles
  <1>3. "notifications/initialized" \in Notification
    BY DEF Notification
  <1>4. CASE error
    <2>1. Told(q[i], error) = "error"
      BY <1>4 DEF Told
    <2>2. QED
      BY <1>1, <1>2, <1>3, <1>4, <2>1 DEF Tells, Silent, MessageOK, Handles
  <1>5. CASE ~error
    <2>1. Told(q[i], error) = Told(m, FALSE)
      BY <1>1, <1>5 DEF Told, IsCall
    <2>2. Told(m, FALSE) \in {"error", "result", "success", "failure"}
      BY DEF Told
    <2>3. QED
      BY <1>1, <1>2, <1>3, <1>5, <2>1, <2>2 DEF Tells, Silent, MessageOK
  <1>6. QED
    BY <1>1, <1>4, <1>5

\* handle_line: the line written for a message keeps the lines in step with the messages.
LEMMA LinesAnswer ==
    ASSUME NEW protocol, NEW q, MailOK(q, protocol), NEW i, NEW m, NEW error,
           Handles(q, i, m, error, protocol), NEW before, NEW lost, before => lost,
           NEW lines, LinesOK(q, lines, before)
    PROVE  LinesOK([q EXCEPT ![i] = m], WithReply(q[i], error, lines), lost)
  <1> DEFINE p == [q EXCEPT ![i] = m]
             told == Told(q[i], error)
             more == WithReply(q[i], error, lines)
  <1>1. /\ i \notin Asked(q) /\ i \in Nat \ {0} /\ q[i].id \in {0, i}
        /\ Asked(p) = IF q[i].id = 0 THEN Asked(q) ELSE Asked(q) \cup {i}
        /\ \A j \in Asked(q) : j < i /\ j # 0 /\ j \in 1..Len(q)
        /\ Plain(p) => Plain(q)
    BY AskedNext
  <1>2. \A j \in 1..Len(q) : p[j] = IF j = i THEN m ELSE q[j]
    BY MovedOK DEF Handles
  <1>3. /\ Tells(m, told) /\ told \in {"error", "result", "success", "failure"}
        /\ Silent(q[i], error) => q[i].id = 0
        /\ q[i].id = 0 /\ ~Silent(q[i], error) => error
        /\ error => q[i].method \notin Notification
    BY ToldOK
  <1>4. i \in 1..Len(q) /\ m.id = q[i].id /\ m.method = q[i].method
    BY DEF Handles, Moves
  <1>6. Silent(q[i], error) => more = lines
    BY DEF WithReply
  <1>7. ~Silent(q[i], error) => more = Append(lines, [id |-> q[i].id, told |-> told])
    BY DEF WithReply
  <1> HIDE DEF p, told, more
  <1>8. lines \in Seq(ReplyLine) /\ Len(lines) \in Nat
    BY LenProperties DEF LinesOK
  <1>9. ASSUME NEW k \in 1..Len(lines), lines[k].id # 0
        PROVE  lines[k].id \in Asked(p) /\ Tells(p[lines[k].id], lines[k].told)
    <2>1. lines[k].id \in Asked(q) /\ Tells(q[lines[k].id], lines[k].told)
      BY <1>9 DEF LinesOK
    <2>2. p[lines[k].id] = q[lines[k].id]
      BY <1>1, <1>2, <2>1
    <2>3. QED
      BY <1>1, <2>1, <2>2
  <1>10. CASE Silent(q[i], error)
    <2>1. more = lines /\ Asked(p) = Asked(q)
      BY <1>1, <1>3, <1>6, <1>10
    <2>2. Plain(p) => Answering(p, lines, lost)
      BY <1>1, <2>1 DEF LinesOK, Answering
    <2>3. QED
      BY <1>8, <1>9, <2>1, <2>2 DEF LinesOK, p, more
  <1>11. CASE ~Silent(q[i], error)
    <2> DEFINE line == [id |-> q[i].id, told |-> told]
               n == Len(lines)
    <2>1. line \in ReplyLine /\ line.id = q[i].id /\ line.told = told
      BY <1>1, <1>3 DEF ReplyLine
    <2> HIDE DEF line
    <2>2. /\ more \in Seq(ReplyLine) /\ Len(more) = n + 1 /\ n \in Nat
          /\ \A k \in 1..n : more[k] = lines[k]
          /\ more[n + 1] = line
      BY <1>7, <1>8, <1>11, <2>1, AppendProperties DEF line
    <2> HIDE DEF n
    <2>3. p[i] = m
      BY <1>2, <1>4
    <2>4. line.id # 0 => line.id = i /\ i \in Asked(p)
      BY <1>1, <2>1
    <2>5. ASSUME NEW k \in 1..Len(more), more[k].id # 0
          PROVE  more[k].id \in Asked(p) /\ Tells(p[more[k].id], more[k].told)
      <3>1. k \in 1..n \/ k = n + 1
        BY <2>2
      <3>2. CASE k \in 1..n
        BY <1>9, <2>2, <2>5, <3>2 DEF n
      <3>3. CASE k = n + 1
        BY <1>3, <2>1, <2>2, <2>3, <2>4, <2>5, <3>3
      <3>4. QED
        BY <3>1, <3>2, <3>3
    <2>6. ASSUME Plain(p) PROVE Answering(p, more, lost)
      <3>1. q[i].id # 0
        <4>1. m.id = 0 => m.method \in Notification
          BY <1>4, <2>3, <2>6, MovedOK DEF Plain, Handles, p
        <4>2. QED
          BY <1>3, <1>4, <1>11, <4>1
      <3>2. q[i].id = i /\ line.id = i /\ Asked(p) = Asked(q) \cup {i}
        BY <1>1, <2>1, <3>1
      <3>3. /\ {lines[k].id : k \in 1..n} \ {0} = Asked(q)
            /\ \A k, l \in 1..n :
                   k < l /\ lines[k].id # 0 /\ lines[l].id # 0 => lines[k].id < lines[l].id
            /\ \A k \in 1..n : lines[k].id = 0 => lost
        BY <1>1, <2>6 DEF LinesOK, Answering, n
      <3>4. {more[k].id : k \in 1..Len(more)} \ {0} = Asked(p)
        <4>1. \A k \in 1..Len(more) : more[k].id # 0 => more[k].id \in Asked(p)
          BY <2>5
        <4>2. \A k \in 1..n : k \in 1..Len(more)
          BY <2>2
        <4>3. n + 1 \in 1..Len(more)
          BY <2>2
        <4>4. \A j \in Asked(p) : j # 0 /\ \E k \in 1..Len(more) : more[k].id = j
          <5>1. ASSUME NEW j \in Asked(q) PROVE j # 0 /\ \E k \in 1..Len(more) : more[k].id = j
            <6>1. PICK k \in 1..n : lines[k].id = j
              BY <3>3
            <6>2. QED
              BY <1>1, <2>2, <4>2, <6>1
          <5>2. QED
            BY <1>1, <2>2, <3>2, <4>3, <5>1
        <4>5. QED
          BY <4>1, <4>4
      <3>5. ASSUME NEW k \in 1..Len(more), NEW l \in 1..Len(more), k < l,
                   more[k].id # 0, more[l].id # 0
            PROVE  more[k].id < more[l].id
        <4>1. k \in 1..n /\ (l \in 1..n \/ l = n + 1)
          BY <2>2, <3>5
        <4>2. CASE l \in 1..n
          BY <2>2, <3>3, <3>5, <4>1, <4>2
        <4>3. CASE l = n + 1
          <5>1. lines[k].id \in Asked(q)
            BY <2>2, <3>3, <3>5, <4>1
          <5>2. QED
            BY <1>1, <2>2, <3>2, <4>1, <4>3, <5>1
        <4>4. QED
          BY <4>1, <4>2, <4>3
      <3>6. ASSUME NEW k \in 1..Len(more), more[k].id = 0 PROVE lost
        <4>1. k \in 1..n \/ k = n + 1
          BY <2>2
        <4>2. QED
          BY <1>1, <2>2, <3>2, <3>3, <3>6, <4>1
      <3>7. QED
        BY <3>4, <3>5, <3>6 DEF Answering
    <2>7. QED
      BY <2>2, <2>5, <2>6 DEF LinesOK, p, more
  <1>12. QED
    BY <1>10, <1>11 DEF p, more

\* The answer that created a session stays.
LEMMA CreatedStays ==
    ASSUME NEW q, NEW p, NEW lines, NEW more, NEW lost, Created(q, lines), LinesOK(q, lines, lost),
           Len(lines) \in Nat, Len(more) \in Nat, Len(lines) <= Len(more),
           \A k \in 1..Len(lines) : more[k] = lines[k],
           \A i \in 1..Len(q) : p[i].method = q[i].method
    PROVE  Created(p, more)
  <1>1. PICK k \in 1..Len(lines) :
            lines[k].id # 0 /\ q[lines[k].id].method = "session/new" /\ lines[k].told = "result"
    BY DEF Created
  <1>2. lines[k].id \in 1..Len(q)
    BY <1>1 DEF LinesOK, Asked
  <1>3. k \in 1..Len(more) /\ more[k] = lines[k]
    OBVIOUS
  <1>4. QED
    BY <1>1, <1>2, <1>3 DEF Created

(* The steps of a server *)

\* Send keeps what holds of a server.
LEMMA SentServer ==
    ASSUME NEW protocol \in {"mcp", "acp"}, NEW sessions, NEW q, NEW P, NEW B, NEW lines,
           ServerOK(protocol, sessions, q, P, B, lines),
           NEW method \in Method[protocol], NEW id \in Ids(method),
           NEW m, m = [method |-> method, id |-> IF id THEN Len(q) + 1 ELSE 0, at |-> "sent",
                       result |-> "none", reads |-> FALSE]
    PROVE  ServerOK(protocol, sessions, Append(q, m), P \cup Pieces(Len(q) + 1), B, lines)
  <1> DEFINE p == Append(q, m)
             R == P \cup Pieces(Len(q) + 1)
             before == Missing(q, P, B) # {}
             lost == Missing(p, R, B) # {}
  <1>1. MailOK(p, protocol) /\ m \in Message
    BY SentOK DEF ServerOK
  <1>2. q \in Seq(Message) /\ LinesOK(q, lines, before) /\ SessionsOK(sessions, q, lines)
        /\ StreamOK(q, P, B)
    BY DEF ServerOK, MailOK
  <1>3. /\ p \in Seq(Message) /\ Len(p) = Len(q) + 1 /\ Len(q) \in Nat
        /\ \A i \in 1..Len(q) : p[i] = q[i]
        /\ p[Len(q) + 1] = m
    BY <1>1, <1>2, AppendProperties, MailIndex
  <1> HIDE DEF p, before, lost
  <1>4. m.at = "sent" /\ m.result = "none"
    OBVIOUS
  <1>5. \A i \in 1..Len(p) : i \in 1..Len(q) \/ p[i] = m
    BY <1>3
  <1>6. Plain(p) => Plain(q)
    BY <1>3 DEF Plain
  <1>7a. StreamOK(p, R, B) /\ (before => lost)
    <2>1. p[Len(q) + 1].at = "sent"
      BY <1>3, <1>4
    <2>2. QED
      BY <1>2, <1>3, <2>1, SentStream DEF before, lost
  <1>7. LinesOK(p, lines, lost)
    <2>1. \A i \in 1..Len(p) : p[i].at = "handled" => i \in 1..Len(q) /\ p[i] = q[i]
      BY <1>3, <1>4, <1>5
    <2>2. Len(q) <= Len(p)
      BY <1>3
    <2>3. QED
      BY <1>2, <1>3, <1>6, <1>7a, <2>1, <2>2, LinesStill
  <1>8. Live(sessions, p) => Live(sessions, q)
    BY <1>3, <1>4, <1>5 DEF Live
  <1>9. Created(q, lines) => Created(p, lines)
    <2>1. Len(lines) \in Nat
      BY <1>2, LenProperties DEF LinesOK
    <2>2. QED
      BY <1>2, <1>3, <2>1, CreatedStays
  <1>10. QED
    BY <1>1, <1>2, <1>7, <1>7a, <1>8, <1>9 DEF ServerOK, SessionsOK, p, lost

\* Refill and ProgramReads keep what holds of a server.
LEMMA StreamServer ==
    ASSUME NEW protocol, NEW sessions, NEW q, NEW P, NEW B, NEW lines,
           ServerOK(protocol, sessions, q, P, B, lines), NEW R, NEW C, StreamOK(q, R, C),
           Missing(q, P, B) # {} => Missing(q, R, C) # {}
    PROVE  ServerOK(protocol, sessions, q, R, C, lines)
  <1> DEFINE before == Missing(q, P, B) # {}
             lost == Missing(q, R, C) # {}
  <1>1. q \in Seq(Message) /\ LinesOK(q, lines, before) /\ (before => lost)
    BY DEF ServerOK, MailOK
  <1> HIDE DEF before, lost
  <1>2. LinesOK(q, lines, lost)
    <2>1. Len(q) <= Len(q) /\ \A i \in 1..Len(q) : q[i] = q[i]
      BY <1>1, MailIndex
    <2>2. QED
      BY <1>1, <2>1, LinesStill
  <1>3. QED
    BY <1>2 DEF ServerOK, lost

\* RefuseLine keeps what holds of a server.
LEMMA RefusedServer ==
    ASSUME NEW protocol, NEW sessions, NEW q, NEW P, NEW B, NEW lines,
           ServerOK(protocol, sessions, q, P, B, lines), NEW C, StreamOK(q, P, C),
           Missing(q, P, C) # {}
    PROVE  ServerOK(protocol, sessions, q, P, C, Append(lines, [id |-> 0, told |-> "error"]))
  <1> DEFINE before == Missing(q, P, B) # {}
             line == [id |-> 0, told |-> "error"]
             more == Append(lines, line)
  <1>1. LinesOK(q, lines, before) /\ MailOK(q, protocol) /\ SessionsOK(sessions, q, lines)
    BY DEF ServerOK
  <1> HIDE DEF before
  <1>2. LinesOK(q, more, TRUE)
    BY <1>1, LinesRefused
  <1>3. lines \in Seq(ReplyLine) /\ line \in ReplyLine
    BY <1>1 DEF LinesOK, ReplyLine
  <1> HIDE DEF line
  <1>4. /\ Len(lines) \in Nat /\ Len(more) = Len(lines) + 1
        /\ \A k \in 1..Len(lines) : more[k] = lines[k]
    BY <1>3, AppendProperties, LenProperties
  <1> HIDE DEF more
  <1>5. Created(q, lines) => Created(q, more)
    BY <1>1, <1>4, CreatedStays
  <1>6. LinesOK(q, more, Missing(q, P, C) # {})
    <2>1. (Missing(q, P, C) # {}) = TRUE
      OBVIOUS
    <2>2. QED
      BY <1>2, <2>1
  <1>7. QED
    BY <1>1, <1>5, <1>6 DEF ServerOK, SessionsOK, more, line

\* BeginCall: the call starts, in a session if it is a prompt.
LEMMA BegunServer ==
    ASSUME NEW protocol, NEW sessions, NEW q, NEW P, NEW B, NEW lines,
           ServerOK(protocol, sessions, q, P, B, lines), NEW i \in 1..Len(q), NEW m, Moves(q, i, m),
           m.at = "work", q[i].method = "session/prompt" => sessions > 0,
           NEW C, StreamOK([q EXCEPT ![i] = m], P, C),
           Missing(q, P, B) # {} => Missing([q EXCEPT ![i] = m], P, C) # {}
    PROVE  ServerOK(protocol, sessions, [q EXCEPT ![i] = m], P, C, lines)
  <1> DEFINE p == [q EXCEPT ![i] = m]
             before == Missing(q, P, B) # {}
             lost == Missing(p, P, C) # {}
  <1>1. q \in Seq(Message) /\ LinesOK(q, lines, before) /\ SessionsOK(sessions, q, lines)
        /\ MailOK(q, protocol) /\ Len(q) \in Nat
    BY MailIndex DEF ServerOK, MailOK
  <1>2. /\ MailOK(p, protocol) /\ Len(p) = Len(q)
        /\ \A j \in 1..Len(q) : p[j] = IF j = i THEN m ELSE q[j]
    <2>1. MailOK(p, protocol)
      BY <1>1, MovedOK
    <2>2. Len(p) = Len(q)
      BY <1>1, MovedOK
    <2>3. \A j \in 1..Len(q) : p[j] = IF j = i THEN m ELSE q[j]
      BY <1>1, MovedOK
    <2>4. QED
      BY <2>1, <2>2, <2>3
  <1>2a. StreamOK(p, P, C) /\ (before => lost)
    OBVIOUS
  <1> HIDE DEF p, before, lost
  <1>3. m.method = q[i].method /\ m.id = q[i].id /\ q[i].at # "handled"
    BY DEF Moves
  <1>4. ASSUME NEW j \in 1..Len(q)
        PROVE  /\ p[j].method = q[j].method /\ p[j].id = q[j].id
               /\ (p[j].at = "handled" \/ q[j].at = "handled") => p[j] = q[j]
    BY <1>2, <1>3
  <1>5. LinesOK(p, lines, lost)
    <2>1. Plain(p) => Plain(q)
      BY <1>2, <1>4 DEF Plain
    <2>2. \A j \in 1..Len(p) : p[j].at = "handled" => j \in 1..Len(q) /\ p[j] = q[j]
      BY <1>2, <1>4
    <2>3. p \in Seq(Message) /\ Len(q) <= Len(p)
      BY <1>1, <1>2 DEF MailOK
    <2>4. QED
      BY <1>1, <1>2a, <1>4, <2>1, <2>2, <2>3, LinesStill
  <1>6. Live(sessions, p) => Live(sessions, q)
    <2>1. ASSUME NEW j \in 1..Len(p), p[j].method = "session/prompt", p[j].result # "none"
          PROVE  Live(sessions, q)
      BY <1>2, <1>3, <2>1 DEF Live
    <2>2. QED
      BY <2>1 DEF Live
  <1>7. Created(q, lines) => Created(p, lines)
    <2>1. Len(lines) \in Nat
      BY <1>1, LenProperties DEF LinesOK
    <2>2. QED
      BY <1>1, <1>4, <2>1, CreatedStays
  <1>8. QED
    BY <1>1, <1>2, <1>2a, <1>5, <1>6, <1>7 DEF ServerOK, SessionsOK, p, lost

\* Handle, EndCall: the message is answered, and a session/new without error makes a session.
LEMMA HandledServer ==
    ASSUME NEW protocol, NEW sessions \in Nat, NEW q, NEW P, NEW B, NEW lines,
           ServerOK(protocol, sessions, q, P, B, lines),
           NEW i, NEW m, NEW error, Handles(q, i, m, error, protocol), NEW more \in Nat,
           more > 0 => sessions > 0 \/ (q[i].method = "session/new" /\ ~error),
           NEW C, StreamOK([q EXCEPT ![i] = m], P, C),
           Missing(q, P, B) # {} => Missing([q EXCEPT ![i] = m], P, C) # {}
    PROVE  ServerOK(protocol, more, [q EXCEPT ![i] = m], P, C, WithReply(q[i], error, lines))
  <1> DEFINE p == [q EXCEPT ![i] = m]
             after == WithReply(q[i], error, lines)
             before == Missing(q, P, B) # {}
             lost == Missing(p, P, C) # {}
  <1>1. q \in Seq(Message) /\ LinesOK(q, lines, before) /\ SessionsOK(sessions, q, lines)
        /\ MailOK(q, protocol) /\ Len(q) \in Nat
    BY MailIndex DEF ServerOK, MailOK
  <1>0. i \in 1..Len(q) /\ Moves(q, i, m)
    BY DEF Handles
  <1>2a. StreamOK(p, P, C) /\ (before => lost)
    OBVIOUS
  <1>2b. \A x : LinesOK(p, x, lost) => LinesOK(p, x, Missing(p, P, C) # {})
    OBVIOUS
  <1> HIDE DEF before, lost
  <1>2. /\ MailOK(p, protocol) /\ Len(p) = Len(q)
        /\ \A j \in 1..Len(q) : p[j] = IF j = i THEN m ELSE q[j]
    <2>1. MailOK(p, protocol)
      BY <1>0, <1>1, MovedOK
    <2>2. Len(p) = Len(q)
      BY <1>0, <1>1, MovedOK
    <2>3. \A j \in 1..Len(q) : p[j] = IF j = i THEN m ELSE q[j]
      BY <1>0, <1>1, MovedOK
    <2>4. QED
      BY <2>1, <2>2, <2>3
  <1>3a. LinesOK(p, after, lost)
    BY <1>1, <1>2a, LinesAnswer
  <1>3. LinesOK(p, after, Missing(p, P, C) # {}) /\ StreamOK(p, P, C)
    BY <1>2a, <1>2b, <1>3a
  <1>4. m.method = q[i].method /\ m.result = q[i].result /\ error \in BOOLEAN
    BY DEF Handles, Moves
  <1>5. lines \in Seq(ReplyLine) /\ Len(lines) \in Nat
    BY <1>1, LenProperties DEF LinesOK
  <1>6. CASE Silent(q[i], error)
    <2>1. after = lines
      BY <1>6 DEF WithReply
    <2> HIDE DEF p, after
    <2>2. Created(q, lines) => Created(p, after)
      <3>1. \A j \in 1..Len(q) : p[j].method = q[j].method
        BY <1>2, <1>4
      <3>2. QED
        BY <1>1, <1>5, <2>1, <3>1, CreatedStays
    <2>3. q[i].method = "session/new" => error
      <3>1. MessageOK(q[i], i, protocol) /\ i # 0
        BY <1>0, <1>1 DEF MailOK
      <3>2. QED
        BY <1>6, <3>1 DEF MessageOK, Silent
    <2>4. Live(more, p) => Live(sessions, q)
      BY <1>2, <1>4, <2>3 DEF Live
    <2>5. QED
      BY <1>1, <1>2, <1>3, <2>2, <2>4 DEF ServerOK, SessionsOK, p, after
  <1>7. CASE ~Silent(q[i], error)
    <2> DEFINE told == Told(q[i], error)
               line == [id |-> q[i].id, told |-> told]
               n == Len(lines)
    <2>0. told \in {"error", "result", "success", "failure"} /\ q[i].id \in {0, i} /\ i \in Nat
      <3>1. told \in {"error", "result", "success", "failure"}
        BY <1>1, ToldOK
      <3>2. QED
        BY <1>0, <1>1, <3>1 DEF MailOK, MessageOK
    <2> HIDE DEF told
    <2>1. line \in ReplyLine /\ line.id = q[i].id /\ line.told = told
      BY <2>0 DEF ReplyLine
    <2>2. after = Append(lines, line)
      BY <1>7 DEF WithReply, told
    <2> HIDE DEF line, after
    <2>3. /\ Len(after) = n + 1 /\ n \in Nat
          /\ \A k \in 1..n : after[k] = lines[k]
          /\ after[n + 1] = line
      BY <1>5, <2>1, <2>2, AppendProperties
    <2> HIDE DEF p
    <2>4. \A j \in 1..Len(q) : p[j].method = q[j].method
      BY <1>2, <1>4
    <2>5. Created(q, lines) => Created(p, after)
      BY <1>1, <1>5, <2>3, <2>4, CreatedStays
    <2>6. ASSUME q[i].method = "session/new", ~error PROVE Created(p, after)
      <3>1. q[i].id = i /\ i # 0
        BY <1>0, <1>1, <2>6 DEF MailOK, MessageOK
      <3>2. told = "result"
        BY <2>6 DEF told, Told, IsCall
      <3>3. n + 1 \in 1..Len(after)
        BY <2>3
      <3>4. QED
        BY <1>0, <2>1, <2>3, <2>4, <2>6, <3>1, <3>2, <3>3 DEF Created
    <2>7. Live(more, p) => Live(sessions, q) \/ (q[i].method = "session/new" /\ ~error)
      <3>1. ASSUME NEW j \in 1..Len(p), p[j].method = "session/prompt", p[j].result # "none"
            PROVE  Live(sessions, q)
        BY <1>2, <1>4, <3>1 DEF Live
      <3>2. QED
        BY <3>1 DEF Live
    <2>8. QED
      BY <1>1, <1>2, <1>3, <2>5, <2>6, <2>7 DEF ServerOK, SessionsOK, p, after
  <1>8. QED
    BY <1>6, <1>7

\* A server starts with an empty mailbox and no line written.
LEMMA ServerInit == Init => ServerIInv
  <1> SUFFICES ASSUME Init PROVE ServerIInv
    OBVIOUS
  <1>1. InitFacades /\ WorkspaceTypeOK
    BY WorkspaceInit DEF Init
  <1>2. server \in [Server -> ServerType] /\ \A s \in Server : server[s].sessions = 0
    BY <1>1, RuntimeOfType DEF InitFacades, ServerType
  <1>3. /\ mail = [s \in Server |-> <<>>] /\ reply = [s \in Server |-> <<>>]
        /\ pipe = [s \in Server |-> {}] /\ buffer = [s \in Server |-> {}]
    BY <1>1 DEF InitFacades
  <1> DEFINE none == <<>>
  <1>4. none \in Seq(Message) /\ none \in Seq(ReplyLine) /\ Len(none) = 0
    BY EmptySeq
  <1>5. 1..0 = {} /\ 2..0 = {}
    OBVIOUS
  <1>6. mail = [s \in Server |-> none] /\ reply = [s \in Server |-> none]
    BY <1>3
  <1> HIDE DEF none
  <1>7. ASSUME NEW s \in Server PROVE ServerOK(Protocol[s], 0, none, {}, {}, none)
    <2>1. MailOK(none, Protocol[s])
      BY <1>4, <1>5 DEF MailOK
    <2>2. Asked(none) = {}
      BY <1>4, <1>5 DEF Asked
    <2>3. LinesOK(none, none, Missing(none, {}, {}) # {})
      BY <1>4, <1>5, <2>2 DEF LinesOK, Answering
    <2>3a. StreamOK(none, {}, {})
      BY <1>4, <1>5 DEF StreamOK, Missing
    <2>4. SessionsOK(0, none, none)
      BY <1>4, <1>5 DEF SessionsOK, Live
    <2>5. QED
      BY <2>1, <2>3, <2>3a, <2>4 DEF ServerOK
  <1>8. QED
    BY <1>2, <1>3, <1>6, <1>7 DEF ServerIInv

\* A step of one server leaves the others alone.
LEMMA OneServer ==
    ASSUME ServerIInv, NEW s \in Server, NEW x, NEW y, NEW P, NEW B, NEW z \in ServerType,
           mail' = [mail EXCEPT ![s] = x], reply' = [reply EXCEPT ![s] = y],
           pipe' = [pipe EXCEPT ![s] = P], buffer' = [buffer EXCEPT ![s] = B],
           server' = [server EXCEPT ![s] = z], ServerOK(Protocol[s], z.sessions, x, P, B, y)
    PROVE  ServerIInv'
  <1>1. server' \in [Server -> ServerType]
    BY DEF ServerIInv
  <1>2. /\ mail' = [t \in Server |-> mail'[t]] /\ reply' = [t \in Server |-> reply'[t]]
        /\ pipe' = [t \in Server |-> pipe'[t]] /\ buffer' = [t \in Server |-> buffer'[t]]
    BY DEF ServerIInv
  <1>3. ASSUME NEW t \in Server
        PROVE  ServerOK(Protocol[t], server'[t].sessions, mail'[t], pipe'[t], buffer'[t], reply'[t])
    BY DEF ServerIInv
  <1>4. QED
    BY <1>1, <1>2, <1>3 DEF ServerIInv

\* What leaves the servers alone keeps what holds of them.
LEMMA ServersStay == ASSUME ServerIInv, UNCHANGED stdio PROVE ServerIInv'
  BY DEF ServerIInv, stdio

\* A message that a server has whole, with none at work: nothing behind it has begun.
LEMMA ReadsWhole ==
    ASSUME NEW s \in Server, ServerIInv, NEW i \in DOMAIN mail[s], Reads(s, i), At(s, "work") = {}
    PROVE  /\ i \in 1..Len(mail[s]) /\ mail[s][i].at = "sent" /\ ~mail[s][i].reads
           /\ mail[s][i].result = "none"
           /\ \A j \in 1..Len(mail[s]) :
                  mail[s][j].at # "work" /\ (i < j => mail[s][j].at = "sent")
           /\ EndsIn(buffer[s]) # {} /\ LineIn(buffer[s]) = Pieces(i)
           /\ Line(s) = LineIn(buffer[s])
  <1> DEFINE q == mail[s]
             B == buffer[s]
  <1>1. MailOK(q, Protocol[s]) /\ q \in Seq(Message) /\ StreamOK(q, pipe[s], B)
    BY DEF ServerIInv, ServerOK, MailOK
  <1>2. EndsIn(B) # {} /\ LineIn(B) = Pieces(i) /\ Line(s) = LineIn(B)
    BY DEF Reads, Line, LineEnds, EndsIn, LineIn
  <1>3. i \in 1..Len(q) /\ i \in Nat /\ \A j \in 1..Len(q) : q[j].at # "work"
    BY <1>1, MailIndex DEF At
  <1> HIDE DEF q, B
  <1>4. \A j \in 1..Len(q) : i <= j => q[j].at = "sent"
    BY <1>1, <1>2, <1>3, ReadsNext
  <1>5. q[i].at = "sent" /\ MessageOK(q[i], i, Protocol[s])
    BY <1>1, <1>3, <1>4 DEF MailOK
  <1>6. \A j \in 1..Len(q) : i < j => q[j].at = "sent"
    BY <1>3, <1>4
  <1>7. QED
    BY <1>2, <1>3, <1>5, <1>6 DEF MessageOK, q, B

\* What it takes to handle a message: it is read whole, or at work.
LEMMA HandlesWhen ==
    ASSUME NEW protocol, NEW q, MailOK(q, protocol), NEW i \in 1..Len(q), NEW error \in BOOLEAN,
           q[i].at \in {"sent", "work"},
           q[i].at = "sent" =>
               \A j \in 1..Len(q) : q[j].at # "work" /\ (i < j => q[j].at = "sent"),
           error => /\ q[i].result \in {"none", "broken"} /\ q[i].method # "query"
                    /\ q[i].method \notin Notification
    PROVE  Handles(q, i, [q[i] EXCEPT !.at = "handled"], error, protocol)
  <1> DEFINE m == [q[i] EXCEPT !.at = "handled"]
  <1>1. q[i] \in Message /\ MessageOK(q[i], i, protocol)
    BY MailIndex DEF MailOK
  <1>2. m \in Message /\ m.at = "handled" /\ m.method = q[i].method /\ m.id = q[i].id
        /\ m.result = q[i].result /\ m.reads = q[i].reads
    BY <1>1 DEF Message
  <1> HIDE DEF m
  <1>3. Moves(q, i, m)
    <2>1. m.result # "none" => IsCall(m)
      BY <1>1, <1>2 DEF MessageOK, IsCall
    <2>2. QED
      BY <1>2, <2>1 DEF Moves
  <1>4. QED
    BY <1>2, <1>3 DEF Handles, m

\* Answered, as a change of one server's lines.
LEMMA AnsweredIs ==
    ASSUME ServerIInv, NEW s \in Server, NEW i, NEW error,
           reply' = Answered(s, i, error)
    PROVE  reply' = [reply EXCEPT ![s] = WithReply(mail[s][i], error, reply[s])]
  <1>1. reply = [t \in Server |-> reply[t]]
    BY DEF ServerIInv
  <1>2. CASE Silent(mail[s][i], error)
    <2>1. reply' = reply /\ WithReply(mail[s][i], error, reply[s]) = reply[s]
      BY <1>2 DEF Answered, WithReply
    <2>2. QED
      BY <1>1, <2>1
  <1>3. CASE ~Silent(mail[s][i], error)
    <2> DEFINE line == [id |-> mail[s][i].id, told |-> Told(mail[s][i], error)]
    <2>1. reply' = [reply EXCEPT ![s] = Append(@, line)]
      BY <1>3 DEF Answered
    <2>2. WithReply(mail[s][i], error, reply[s]) = Append(reply[s], line)
      BY <1>3 DEF WithReply
    <2> HIDE DEF line
    <2>3. QED
      BY <2>1, <2>2
  <1>4. QED
    BY <1>2, <1>3

\* The executor answers good, failed or refused, or breaks.
LEMMA AnswersAre ==
    ASSUME NEW runtime, NEW c, NEW consent, NEW dry
    PROVE  Answers(runtime, c, consent, dry) \subseteq {"good", "failed", "refused", "broken"}
  BY DEF Answers

\* A run of the workflow is good or failed to a client, or breaks.
LEMMA ResultsAre ==
    ASSUME NEW runtime, NEW confirmed
    PROVE  RunResults(runtime, confirmed) \subseteq {"good", "failed", "broken"}
  BY DEF RunResults

\* What holds of one server, and that leaving a part of it alone is a change of it too.
LEMMA OfServer ==
    ASSUME ServerIInv, NEW s \in Server
    PROVE  /\ ServerOK(Protocol[s], server[s].sessions, mail[s], pipe[s], buffer[s], reply[s])
           /\ MailOK(mail[s], Protocol[s]) /\ StreamOK(mail[s], pipe[s], buffer[s])
           /\ mail[s] \in Seq(Message) /\ DOMAIN mail[s] = 1..Len(mail[s]) /\ Len(mail[s]) \in Nat
           /\ server[s] \in ServerType /\ server[s].sessions \in Nat
           /\ Protocol[s] \in {"mcp", "acp"}
           /\ server' = server => server' = [server EXCEPT ![s] = server[s]]
           /\ mail' = mail => mail' = [mail EXCEPT ![s] = mail[s]]
           /\ reply' = reply => reply' = [reply EXCEPT ![s] = reply[s]]
           /\ pipe' = pipe => pipe' = [pipe EXCEPT ![s] = pipe[s]]
           /\ buffer' = buffer => buffer' = [buffer EXCEPT ![s] = buffer[s]]
  <1>1. ServerOK(Protocol[s], server[s].sessions, mail[s], pipe[s], buffer[s], reply[s])
    BY DEF ServerIInv
  <1>2. MailOK(mail[s], Protocol[s]) /\ StreamOK(mail[s], pipe[s], buffer[s])
        /\ mail[s] \in Seq(Message)
    BY <1>1 DEF ServerOK, MailOK
  <1>3. DOMAIN mail[s] = 1..Len(mail[s]) /\ Len(mail[s]) \in Nat
    BY <1>2, MailIndex
  <1>4. server[s] \in ServerType /\ server[s].sessions \in Nat
    BY DEF ServerIInv, ServerType
  <1>5. /\ server = [t \in Server |-> server[t]] /\ mail = [t \in Server |-> mail[t]]
        /\ reply = [t \in Server |-> reply[t]] /\ pipe = [t \in Server |-> pipe[t]]
        /\ buffer = [t \in Server |-> buffer[t]]
    BY DEF ServerIInv
  <1>6. Protocol[s] \in {"mcp", "acp"}
    BY FacadesAssumption
  <1>7. QED
    BY <1>1, <1>2, <1>3, <1>4, <1>5, <1>6

\* StartServer: a server starts without sessions.
LEMMA StartStep == ASSUME ServerIInv, WorkspaceTypeOK, NEW s \in Server, StartServer(s) PROVE ServerIInv'
  <1> DEFINE z == [up |-> TRUE, runtime |-> Runtime, sessions |-> 0]
  <1>1. z \in ServerType /\ z.sessions = 0
    BY RuntimeOfType DEF ServerType
  <1>2. /\ server' = [server EXCEPT ![s] = z]
        /\ UNCHANGED <<mail, pipe, buffer, reply>>
    BY DEF StartServer
  <1> HIDE DEF z
  <1>3. ServerOK(Protocol[s], 0, mail[s], pipe[s], buffer[s], reply[s])
    BY OfServer DEF ServerOK, SessionsOK, Live
  <1>4. /\ mail' = [mail EXCEPT ![s] = mail[s]] /\ reply' = [reply EXCEPT ![s] = reply[s]]
        /\ pipe' = [pipe EXCEPT ![s] = pipe[s]] /\ buffer' = [buffer EXCEPT ![s] = buffer[s]]
    BY <1>2, OfServer
  <1> DEFINE q == mail[s]
             lines == reply[s]
             P == pipe[s]
             B == buffer[s]
  <1>5. /\ mail' = [mail EXCEPT ![s] = q] /\ reply' = [reply EXCEPT ![s] = lines]
        /\ pipe' = [pipe EXCEPT ![s] = P] /\ buffer' = [buffer EXCEPT ![s] = B]
        /\ server' = [server EXCEPT ![s] = z] /\ ServerOK(Protocol[s], z.sessions, q, P, B, lines)
    BY <1>1, <1>2, <1>3, <1>4
  <1> HIDE DEF q, lines, P, B
  <1>6. QED
    BY <1>1, <1>5, OneServer

\* Send
LEMMA SendStep == ASSUME ServerIInv, NEW s \in Server, Send(s) PROVE ServerIInv'
  <1> DEFINE q == mail[s]
             P == pipe[s] \cup Pieces(Len(q) + 1)
  <1>1. PICK method \in Method[Protocol[s]] : \E id \in Ids(method) :
            mail' = [mail EXCEPT ![s] = Append(@,
                [method |-> method, id |-> IF id THEN Len(@) + 1 ELSE 0, at |-> "sent",
                 result |-> "none", reads |-> FALSE])]
    BY Zenon DEF Send
  <1>2. PICK id \in Ids(method) :
            mail' = [mail EXCEPT ![s] = Append(@,
                [method |-> method, id |-> IF id THEN Len(@) + 1 ELSE 0, at |-> "sent",
                 result |-> "none", reads |-> FALSE])]
    BY <1>1, Zenon
  <1> DEFINE m == [method |-> method, id |-> IF id THEN Len(q) + 1 ELSE 0, at |-> "sent",
                   result |-> "none", reads |-> FALSE]
  <1>3. mail' = [mail EXCEPT ![s] = Append(q, m)] /\ pipe' = [pipe EXCEPT ![s] = P]
    BY <1>2 DEF Send
  <1>4. ServerOK(Protocol[s], server[s].sessions, Append(q, m), P, buffer[s], reply[s])
    BY OfServer, SentServer
  <1> DEFINE x == Append(q, m)
  <1>5. /\ mail' = [mail EXCEPT ![s] = x]
        /\ ServerOK(Protocol[s], server[s].sessions, x, P, buffer[s], reply[s])
    BY <1>3, <1>4
  <1>6. UNCHANGED <<reply, server, buffer>>
    BY DEF Send
  <1> HIDE DEF q, m, x, P
  <1>7. /\ buffer' = [buffer EXCEPT ![s] = buffer[s]] /\ reply' = [reply EXCEPT ![s] = reply[s]]
        /\ server' = [server EXCEPT ![s] = server[s]] /\ server[s] \in ServerType
    BY <1>6, OfServer
  <1>8. QED
    BY <1>3, <1>5, <1>7, OneServer

\* Refill
LEMMA RefillStep == ASSUME ServerIInv, NEW s \in Server, Refill(s) PROVE ServerIInv'
  <1>1. PICK last \in pipe[s] :
            /\ buffer' = [buffer EXCEPT ![s] = @ \cup {p \in pipe[s] : p <= last}]
            /\ pipe' = [pipe EXCEPT ![s] = {p \in @ : p > last}]
    BY Zenon DEF Refill
  <1> DEFINE P == {p \in pipe[s] : p > last}
             B == buffer[s] \cup {p \in pipe[s] : p <= last}
  <1>2. /\ pipe' = [pipe EXCEPT ![s] = P] /\ buffer' = [buffer EXCEPT ![s] = B]
        /\ UNCHANGED <<mail, reply, server>>
    BY <1>1 DEF Refill
  <1>3. /\ StreamOK(mail[s], P, B)
        /\ Missing(mail[s], pipe[s], buffer[s]) # {} => Missing(mail[s], P, B) # {}
    <2>1. StreamOK(mail[s], pipe[s], buffer[s]) /\ Len(mail[s]) \in Nat
      BY OfServer
    <2> DEFINE q == mail[s]
               Q == pipe[s]
               A == buffer[s]
    <2>2. StreamOK(q, Q, A)
      BY <2>1
    <2>3. Q \subseteq 1..(2 * Len(q)) /\ last \in 1..(2 * Len(q)) /\ \A x \in A, r \in Q : x < r
      BY <2>2 DEF StreamOK
    <2>4. P \cup B = Q \cup A /\ \A x \in B, r \in P : x < r
      BY <2>1, <2>3
    <2> HIDE DEF P, B, q, Q, A
    <2>5. StreamOK(q, P, B) /\ (Missing(q, Q, A) # {} => Missing(q, P, B) # {})
      BY <2>2, <2>4, RefilledStream
    <2>6. QED
      BY <2>5 DEF q, Q, A
  <1> HIDE DEF P, B
  <1>4. ServerOK(Protocol[s], server[s].sessions, mail[s], P, B, reply[s])
    BY <1>3, OfServer, StreamServer
  <1>5. /\ mail' = [mail EXCEPT ![s] = mail[s]] /\ reply' = [reply EXCEPT ![s] = reply[s]]
        /\ server' = [server EXCEPT ![s] = server[s]] /\ server[s] \in ServerType
    BY <1>2, OfServer
  <1> DEFINE q == mail[s]
             lines == reply[s]
             z == server[s]
  <1>6. /\ mail' = [mail EXCEPT ![s] = q] /\ reply' = [reply EXCEPT ![s] = lines]
        /\ server' = [server EXCEPT ![s] = z] /\ z \in ServerType
        /\ ServerOK(Protocol[s], z.sessions, q, P, B, lines)
    BY <1>4, <1>5
  <1> HIDE DEF q, lines, z
  <1>7. QED
    BY <1>2, <1>6, OneServer

\* ProgramReads
LEMMA ReadStep == ASSUME ServerIInv, NEW s \in Server, ProgramReads(s) PROVE ServerIInv'
  <1>1. PICK last \in pipe[s] : pipe' = [pipe EXCEPT ![s] = {p \in @ : p > last}]
    BY Zenon DEF ProgramReads
  <1>2. PICK w \in 1..Len(mail[s]) : mail[s][w].at = "work" /\ mail[s][w].reads
    BY OfServer DEF ProgramReads, At
  <1> DEFINE P == {p \in pipe[s] : p > last}
  <1>3. UNCHANGED <<mail, buffer, reply, server>>
    BY DEF ProgramReads
  <1>3a. pipe' = [pipe EXCEPT ![s] = P]
    BY <1>1
  <1>4. /\ StreamOK(mail[s], P, buffer[s])
        /\ Missing(mail[s], pipe[s], buffer[s]) # {} => Missing(mail[s], P, buffer[s]) # {}
    <2>1. StreamOK(mail[s], pipe[s], buffer[s]) /\ Len(mail[s]) \in Nat
      BY OfServer
    <2>2. QED
      BY <1>2, <2>1, ReadStream
  <1> HIDE DEF P
  <1>5. ServerOK(Protocol[s], server[s].sessions, mail[s], P, buffer[s], reply[s])
    BY <1>4, OfServer, StreamServer
  <1>6. /\ mail' = [mail EXCEPT ![s] = mail[s]] /\ reply' = [reply EXCEPT ![s] = reply[s]]
        /\ buffer' = [buffer EXCEPT ![s] = buffer[s]]
        /\ server' = [server EXCEPT ![s] = server[s]] /\ server[s] \in ServerType
    BY <1>3, OfServer
  <1> DEFINE q == mail[s]
             lines == reply[s]
             z == server[s]
             B == buffer[s]
  <1>7. /\ mail' = [mail EXCEPT ![s] = q] /\ reply' = [reply EXCEPT ![s] = lines]
        /\ buffer' = [buffer EXCEPT ![s] = B]
        /\ server' = [server EXCEPT ![s] = z] /\ z \in ServerType
        /\ ServerOK(Protocol[s], z.sessions, q, P, B, lines)
    BY <1>5, <1>6
  <1> HIDE DEF q, lines, z, B
  <1>8. QED
    BY <1>3a, <1>7, OneServer

\* RefuseLine
LEMMA RefuseStep == ASSUME ServerIInv, NEW s \in Server, RefuseLine(s) PROVE ServerIInv'
  <1> DEFINE q == mail[s]
             B == buffer[s]
             C == B \ LineIn(B)
             line == [id |-> 0, told |-> "error"]
             more == Append(reply[s], line)
  <1>1. /\ buffer' = [buffer EXCEPT ![s] = C] /\ UNCHANGED <<mail, pipe, server>>
        /\ reply' = [reply EXCEPT ![s] = more] \/ reply' = reply
    BY DEF RefuseLine, Line, LineEnds, LineIn, EndsIn
  <1>2. EndsIn(B) # {} /\ \A i \in 1..Len(q) : LineIn(B) # Pieces(i)
    BY OfServer DEF RefuseLine, Reads, Line, LineEnds, LineIn, EndsIn
  <1>3. StreamOK(q, pipe[s], C) /\ Missing(q, pipe[s], C) # {}
    <2> HIDE DEF q, B, C
    <2>1. StreamOK(q, pipe[s], B) /\ Len(q) \in Nat
      BY OfServer DEF q, B
    <2>2. QED
      BY <1>2, <2>1, TornStream DEF C
  <1> HIDE DEF C
  <1>4. ServerOK(Protocol[s], server[s].sessions, q, pipe[s], C, more)
    BY <1>3, OfServer, RefusedServer
  <1>5. ServerOK(Protocol[s], server[s].sessions, q, pipe[s], C, reply[s])
    BY <1>3, OfServer, StreamServer
  <1> HIDE DEF line, more
  <1>6. /\ mail' = [mail EXCEPT ![s] = q] /\ pipe' = [pipe EXCEPT ![s] = pipe[s]]
        /\ server' = [server EXCEPT ![s] = server[s]] /\ server[s] \in ServerType
        /\ reply' = reply => reply' = [reply EXCEPT ![s] = reply[s]]
    BY <1>1, OfServer
  <1>7. PICK after \in {reply[s], more} : reply' = [reply EXCEPT ![s] = after]
    BY <1>1, <1>6
  <1> DEFINE z == server[s]
             P == pipe[s]
  <1>8. /\ mail' = [mail EXCEPT ![s] = q] /\ pipe' = [pipe EXCEPT ![s] = P]
        /\ buffer' = [buffer EXCEPT ![s] = C]
        /\ server' = [server EXCEPT ![s] = z] /\ z \in ServerType
        /\ ServerOK(Protocol[s], z.sessions, q, P, C, after)
    BY <1>1, <1>4, <1>5, <1>6, <1>7
  <1> HIDE DEF q, B, z, P
  <1>9. QED
    BY <1>7, <1>8, OneServer

\* Handle
LEMMA HandleStep == ASSUME ServerIInv, NEW s \in Server, Handle(s) PROVE ServerIInv'
  <1>1. PICK i \in DOMAIN mail[s] :
            /\ Reads(s, i)
            /\ \E error \in IF mail[s][i].method = "session/new" THEN BOOLEAN
                            ELSE {mail[s][i].method = "other" \/ IsCall(mail[s][i])} :
                  /\ mail' = [mail EXCEPT ![s][i].at = "handled"]
                  /\ reply' = Answered(s, i, error)
                  /\ server' = IF mail[s][i].method = "session/new" /\ ~error
                               THEN [server EXCEPT ![s].sessions = @ + 1] ELSE server
    BY Zenon DEF Handle
  <1> DEFINE q == mail[s]
             lines == reply[s]
             m == [q[i] EXCEPT !.at = "handled"]
             B == buffer[s]
             C == B \ LineIn(B)
             P == pipe[s]
             z == server[s]
  <1>2. PICK error \in IF q[i].method = "session/new" THEN BOOLEAN
                       ELSE {q[i].method = "other" \/ IsCall(q[i])} :
            /\ mail' = [mail EXCEPT ![s][i].at = "handled"]
            /\ reply' = Answered(s, i, error)
            /\ server' = IF q[i].method = "session/new" /\ ~error
                         THEN [server EXCEPT ![s].sessions = @ + 1] ELSE server
    BY <1>1, Zenon
  <1>3. /\ i \in 1..Len(q) /\ q[i].at = "sent" /\ ~q[i].reads /\ q[i].result = "none"
        /\ \A j \in 1..Len(q) : q[j].at # "work" /\ (i < j => q[j].at = "sent")
        /\ EndsIn(B) # {} /\ LineIn(B) = Pieces(i) /\ Line(s) = LineIn(B)
    BY <1>1, ReadsWhole DEF Handle
  <1>4. mail' = [mail EXCEPT ![s] = [q EXCEPT ![i] = m]]
    BY <1>2
  <1>5. reply' = [reply EXCEPT ![s] = WithReply(q[i], error, lines)]
    BY <1>2, AnsweredIs
  <1>6. buffer' = [buffer EXCEPT ![s] = C] /\ UNCHANGED pipe
    BY <1>3 DEF Handle
  <1> HIDE DEF m
  <1>7. error \in BOOLEAN /\ (error => q[i].method \in {"session/new", "other", "tools/call", "session/prompt"})
    BY <1>2 DEF IsCall
  <1>8. Handles(q, i, m, error, Protocol[s])
    <2>1. error => /\ q[i].result \in {"none", "broken"} /\ q[i].method # "query"
                   /\ q[i].method \notin Notification
      BY <1>3, <1>7 DEF Notification
    <2>2. QED
      BY <1>3, <1>7, <2>1, OfServer, HandlesWhen DEF m
  <1> DEFINE p == [q EXCEPT ![i] = m]
  <1>9. Len(p) = Len(q) /\ p[i] = m /\ \A j \in 1..Len(q) : j # i => p[j] = q[j]
    <2>1. Moves(q, i, m) /\ MailOK(q, Protocol[s])
      BY <1>8, OfServer DEF Handles
    <2>2. \A j \in 1..Len(q) : p[j] = IF j = i THEN m ELSE q[j]
      BY <1>3, <2>1, MovedOK
    <2>3. Len(p) = Len(q)
      BY <1>3, <2>1, MovedOK
    <2> HIDE DEF p
    <2>4. QED
      BY <1>3, <2>2, <2>3
  <1>10. /\ StreamOK(p, P, C)
         /\ Missing(q, P, B) # {} => Missing(p, P, C) # {}
    <2>1. m.at = "handled" /\ StreamOK(q, P, B) /\ Len(q) \in Nat
      BY <1>8, OfServer DEF Handles
    <2> HIDE DEF p, q, B, P
    <2>2. QED
      BY <1>3, <1>9, <2>1, HandledStream
  <1>11. ServerOK(Protocol[s], z.sessions, q, P, B, lines) /\ z.sessions \in Nat /\ z \in ServerType
    BY OfServer
  <1> DEFINE more == WithReply(q[i], error, lines)
             new == IF q[i].method = "session/new" /\ ~error THEN z.sessions + 1 ELSE z.sessions
             after == [up |-> z.up, runtime |-> z.runtime, sessions |-> new]
  <1>12. new \in Nat /\ (new > 0 => z.sessions > 0 \/ (q[i].method = "session/new" /\ ~error))
    BY <1>11
  <1>13. after \in ServerType /\ after.sessions = new
    BY <1>11, <1>12 DEF ServerType
  <1>14. server' = [server EXCEPT ![s] = after]
    <2>1. z = [up |-> z.up, runtime |-> z.runtime, sessions |-> z.sessions]
      BY <1>11 DEF ServerType
    <2>2. CASE q[i].method = "session/new" /\ ~error
      <3>1. server' = [server EXCEPT ![s] = [z EXCEPT !.sessions = @ + 1]]
        BY <1>2, <2>2
      <3>2. [z EXCEPT !.sessions = @ + 1] = after
        BY <1>11, <2>2 DEF ServerType
      <3> HIDE DEF after, z
      <3>3. QED
        BY <3>1, <3>2
    <2>3. CASE ~(q[i].method = "session/new" /\ ~error)
      <3>1. server' = server /\ after = z
        BY <1>2, <2>1, <2>3
      <3> HIDE DEF after
      <3>2. QED
        BY <3>1, OfServer
    <2>4. QED
      BY <2>2, <2>3
  <1>15. ServerOK(Protocol[s], new, p, P, C, more)
    <2> DEFINE old == z.sessions
               protocol == Protocol[s]
    <2>1. /\ ServerOK(protocol, old, q, P, B, lines) /\ old \in Nat
          /\ new > 0 => old > 0 \/ (q[i].method = "session/new" /\ ~error)
          /\ Handles(q, i, m, error, protocol)
      BY <1>8, <1>11, <1>12
    <2>2. /\ StreamOK([q EXCEPT ![i] = m], P, C)
          /\ Missing(q, P, B) # {} => Missing([q EXCEPT ![i] = m], P, C) # {}
      <3> HIDE DEF q, P, C, B
      <3>1. QED
        BY <1>10
    <2> HIDE DEF new, q, P, C, B, lines, old, protocol
    <2>3. new \in Nat
      BY <1>12
    <2>4. ServerOK(protocol, new, [q EXCEPT ![i] = m], P, C, WithReply(q[i], error, lines))
      BY <2>1, <2>2, <2>3, HandledServer
    <2>5. QED
      BY <2>4 DEF protocol
  <1> HIDE DEF new, after, p, C, more
  <1>16. mail' = [mail EXCEPT ![s] = p] /\ reply' = [reply EXCEPT ![s] = more]
    BY <1>4, <1>5 DEF p, more
  <1>17. pipe' = [pipe EXCEPT ![s] = P]
    BY <1>6, OfServer
  <1> HIDE DEF P
  <1>18. QED
    BY <1>6, <1>13, <1>14, <1>15, <1>16, <1>17, OneServer

\* BeginCall
LEMMA BeginStep == ASSUME ServerIInv, NEW s \in Server, BeginCall(s) PROVE ServerIInv'
  <1> DEFINE runtime == server[s].runtime
  <1>1. PICK i \in DOMAIN mail[s] :
            /\ Reads(s, i) /\ IsCall(mail[s][i])
            /\ mail[s][i].method = "session/prompt" => server[s].sessions > 0
            /\ \E target \in Capability \cup {"workflow"}, consent \in BOOLEAN :
               LET present == consent /\ target \in granted /\ runtime.manifest[target].held
                   results == IF target # "workflow" THEN Answers(runtime, target, present, FALSE)
                              ELSE RunResults(runtime, consent)
               IN  \E result \in results :
                       /\ mail' = [mail EXCEPT ![s][i] = [@ EXCEPT !.at = "work", !.result = result,
                                      !.reads = result # "refused" /\ ReadsInput(target)]]
                       /\ UseApproval(target, present, result)
    BY Zenon DEF BeginCall
  <1>2. PICK target \in Capability \cup {"workflow"}, consent \in BOOLEAN :
            LET present == consent /\ target \in granted /\ runtime.manifest[target].held
                results == IF target # "workflow" THEN Answers(runtime, target, present, FALSE)
                           ELSE RunResults(runtime, consent)
            IN  \E result \in results :
                    mail' = [mail EXCEPT ![s][i] = [@ EXCEPT !.at = "work", !.result = result,
                                !.reads = result # "refused" /\ ReadsInput(target)]]
    BY <1>1, Zenon
  <1> DEFINE Results == {"good", "failed", "refused", "broken"}
             present == consent /\ target \in granted /\ runtime.manifest[target].held
             results == IF target # "workflow" THEN Answers(runtime, target, present, FALSE)
                        ELSE RunResults(runtime, consent)
  <1>3. results \subseteq Results
    <2>1. RunResults(runtime, consent) \subseteq {"good", "failed", "broken"}
      BY ResultsAre
    <2>2. Answers(runtime, target, present, FALSE) \subseteq Results
      BY AnswersAre
    <2>3. QED
      BY <2>1, <2>2
  <1>4. \E result \in results :
            mail' = [mail EXCEPT ![s][i] = [@ EXCEPT !.at = "work", !.result = result,
                        !.reads = result # "refused" /\ ReadsInput(target)]]
    BY <1>2
  <1> HIDE DEF results
  <1>5. PICK result \in Results :
            mail' = [mail EXCEPT ![s][i] = [@ EXCEPT !.at = "work", !.result = result,
                        !.reads = result # "refused" /\ ReadsInput(target)]]
    BY <1>3, <1>4, Zenon
  <1> DEFINE q == mail[s]
             lines == reply[s]
             B == buffer[s]
             C == B \ LineIn(B)
             P == pipe[s]
             z == server[s]
             reads == result # "refused" /\ ReadsInput(target)
             m == [q[i] EXCEPT !.at = "work", !.result = result, !.reads = reads]
  <1>6. /\ i \in 1..Len(q) /\ q[i].at = "sent" /\ ~q[i].reads
        /\ \A j \in 1..Len(q) : q[j].at # "work" /\ (i < j => q[j].at = "sent")
        /\ EndsIn(B) # {} /\ LineIn(B) = Pieces(i) /\ Line(s) = LineIn(B)
    BY <1>1, ReadsWhole DEF BeginCall
  <1>7. mail' = [mail EXCEPT ![s] = [q EXCEPT ![i] = m]]
    BY <1>5
  <1>8. buffer' = [buffer EXCEPT ![s] = C] /\ UNCHANGED <<pipe, reply, server>>
    BY <1>6 DEF BeginCall
  <1>9. reads \in BOOLEAN
    OBVIOUS
  <1> HIDE DEF reads
  <1>10. q[i] \in Message
    BY <1>6, OfServer, MailIndex
  <1>11. m = [method |-> q[i].method, id |-> q[i].id, at |-> "work", result |-> result, reads |-> reads]
    <2> DEFINE a == [q[i] EXCEPT !.at = "work"]
               b == [a EXCEPT !.result = result]
    <2>1. a \in Message /\ a.method = q[i].method /\ a.id = q[i].id /\ a.at = "work"
      BY <1>10 DEF Message
    <2>2. m = [[[q[i] EXCEPT !.at = "work"] EXCEPT !.result = result] EXCEPT !.reads = reads]
      OBVIOUS
    <2>3. m = [b EXCEPT !.reads = reads]
      BY <2>2
    <2> HIDE DEF a, m
    <2>4. b \in Message /\ b.method = q[i].method /\ b.id = q[i].id /\ b.at = "work" /\ b.result = result
      BY <2>1 DEF Message
    <2> HIDE DEF b
    <2>5. QED
      BY <2>3, <2>4 DEF Message
  <1>12. /\ m \in Message /\ m.method = q[i].method /\ m.id = q[i].id /\ m.at = "work"
         /\ IsCall(m)
    <2> HIDE DEF m
    <2>1. m \in Message /\ m.method = q[i].method /\ m.id = q[i].id /\ m.at = "work"
      BY <1>9, <1>10, <1>11 DEF Message
    <2>2. QED
      BY <1>1, <2>1 DEF IsCall
  <1> HIDE DEF m
  <1>13. Moves(q, i, m)
    BY <1>6, <1>12 DEF Moves
  <1> DEFINE p == [q EXCEPT ![i] = m]
  <1>14. Len(p) = Len(q) /\ p[i] = m /\ \A j \in 1..Len(q) : j # i => p[j] = q[j]
    <2>1. MailOK(q, Protocol[s])
      BY OfServer
    <2>2. \A j \in 1..Len(q) : p[j] = IF j = i THEN m ELSE q[j]
      BY <1>6, <1>13, <2>1, MovedOK
    <2>3. Len(p) = Len(q)
      BY <1>6, <1>13, <2>1, MovedOK
    <2> HIDE DEF p
    <2>4. QED
      BY <1>6, <2>2, <2>3
  <1>15. /\ StreamOK(p, P, C)
         /\ Missing(q, P, B) # {} => Missing(p, P, C) # {}
    <2>1. StreamOK(q, P, B) /\ Len(q) \in Nat /\ p[i].at # "sent"
      BY <1>12, <1>14, OfServer
    <2> HIDE DEF p, q, B, P
    <2>2. QED
      BY <1>6, <1>14, <2>1, HandledStream
  <1>16. ServerOK(Protocol[s], z.sessions, p, P, C, lines) /\ z \in ServerType
    <2> DEFINE sessions == z.sessions
               protocol == Protocol[s]
    <2>1. /\ ServerOK(protocol, sessions, q, P, B, lines)
          /\ q[i].method = "session/prompt" => sessions > 0
      BY <1>1, OfServer
    <2>2. /\ StreamOK([q EXCEPT ![i] = m], P, C)
          /\ Missing(q, P, B) # {} => Missing([q EXCEPT ![i] = m], P, C) # {}
      <3> HIDE DEF q, P, C, B
      <3>1. QED
        BY <1>15
    <2> HIDE DEF q, P, C, B, lines, sessions, protocol
    <2>3. ServerOK(protocol, sessions, [q EXCEPT ![i] = m], P, C, lines)
      BY <1>6, <1>12, <1>13, <2>1, <2>2, BegunServer
    <2>4. z \in ServerType
      BY OfServer
    <2>5. QED
      BY <2>3, <2>4 DEF protocol, sessions
  <1> HIDE DEF p, C
  <1>17. mail' = [mail EXCEPT ![s] = p] /\ buffer' = [buffer EXCEPT ![s] = C]
    BY <1>7, <1>8 DEF p
  <1>18. /\ pipe' = [pipe EXCEPT ![s] = P] /\ reply' = [reply EXCEPT ![s] = lines]
         /\ server' = [server EXCEPT ![s] = z]
    BY <1>8, OfServer
  <1> HIDE DEF P, lines, z
  <1>19. QED
    BY <1>16, <1>17, <1>18, OneServer

\* EndCall
LEMMA EndStep == ASSUME ServerIInv, NEW s \in Server, EndCall(s) PROVE ServerIInv'
  <1>1. PICK i \in At(s, "work") : /\ mail' = [mail EXCEPT ![s][i].at = "handled"]
                                   /\ reply' = Answered(s, i, mail[s][i].result = "broken")
    BY Zenon DEF EndCall
  <1> DEFINE q == mail[s]
             lines == reply[s]
             B == buffer[s]
             P == pipe[s]
             z == server[s]
             m == [q[i] EXCEPT !.at = "handled"]
             error == q[i].result = "broken"
             more == WithReply(q[i], error, lines)
  <1>2. i \in 1..Len(q) /\ q[i].at = "work"
    BY <1>1, OfServer DEF At
  <1>3. mail' = [mail EXCEPT ![s] = [q EXCEPT ![i] = m]]
    BY <1>1
  <1>4. reply' = [reply EXCEPT ![s] = more]
    BY <1>1, AnsweredIs
  <1>5. UNCHANGED <<pipe, buffer, server>>
    BY DEF EndCall
  <1> HIDE DEF m
  <1>6. Handles(q, i, m, error, Protocol[s])
    <2>1. MessageOK(q[i], i, Protocol[s])
      BY <1>2, OfServer DEF MailOK
    <2>2. error => /\ q[i].result \in {"none", "broken"} /\ q[i].method # "query"
                   /\ q[i].method \notin Notification
      BY <1>2, <2>1 DEF MessageOK, IsCall, Notification
    <2>3. error \in BOOLEAN /\ MailOK(q, Protocol[s])
      BY OfServer
    <2> HIDE DEF q, error
    <2>4. QED
      BY <1>2, <2>2, <2>3, HandlesWhen DEF m
  <1> DEFINE p == [q EXCEPT ![i] = m]
  <1>7. /\ Len(p) = Len(q) /\ p[i].at # "sent" /\ p[i].reads = q[i].reads
        /\ \A j \in 1..Len(q) : j # i => p[j] = q[j]
    <2>1. MailOK(q, Protocol[s]) /\ Moves(q, i, m) /\ m.at = "handled" /\ m.reads = q[i].reads
      BY <1>2, <1>6, OfServer DEF Handles, Moves
    <2>2. \A j \in 1..Len(q) : p[j] = IF j = i THEN m ELSE q[j]
      BY <1>2, <2>1, MovedOK
    <2>3. Len(p) = Len(q)
      BY <1>2, <2>1, MovedOK
    <2> HIDE DEF p
    <2>4. QED
      BY <1>2, <2>1, <2>2, <2>3
  <1>8. StreamOK(p, P, B) /\ Missing(p, P, B) = Missing(q, P, B)
    <2>1. StreamOK(q, P, B) /\ Len(q) \in Nat /\ q[i].at # "sent"
      BY <1>2, OfServer
    <2> HIDE DEF p, q, B, P
    <2>2. QED
      BY <1>2, <1>7, <2>1, EndedStream
  <1>9. ServerOK(Protocol[s], z.sessions, p, P, B, more) /\ z \in ServerType
    <2> DEFINE sessions == z.sessions
               protocol == Protocol[s]
    <2>1. /\ ServerOK(protocol, sessions, q, P, B, lines) /\ sessions \in Nat /\ z \in ServerType
          /\ Handles(q, i, m, error, protocol)
      BY <1>6, OfServer
    <2>2. /\ StreamOK([q EXCEPT ![i] = m], P, B)
          /\ Missing(q, P, B) # {} => Missing([q EXCEPT ![i] = m], P, B) # {}
      <3> HIDE DEF q, P, B
      <3>1. QED
        BY <1>8
    <2> HIDE DEF q, P, B, lines, sessions, protocol, error
    <2>3. ServerOK(protocol, sessions, [q EXCEPT ![i] = m], P, B, WithReply(q[i], error, lines))
      BY <2>1, <2>2, HandledServer
    <2>4. QED
      BY <2>1, <2>3 DEF protocol, sessions
  <1>10. mail' = [mail EXCEPT ![s] = p]
    BY <1>3
  <1>11. /\ pipe' = [pipe EXCEPT ![s] = P] /\ buffer' = [buffer EXCEPT ![s] = B]
         /\ server' = [server EXCEPT ![s] = z]
    BY <1>5, OfServer
  <1> HIDE DEF p, more, P, B, z
  <1>12. QED
    BY <1>4, <1>9, <1>10, <1>11, OneServer

\* Each step of a server keeps what holds of all of them.
LEMMA ServerSteps ==
    ASSUME ServerIInv, WorkspaceTypeOK, NEW s \in Server,
           \/ StartServer(s) \/ Send(s) \/ Refill(s) \/ RefuseLine(s) \/ Handle(s)
           \/ BeginCall(s) \/ ProgramReads(s) \/ EndCall(s)
    PROVE  ServerIInv'
  BY StartStep, SendStep, RefillStep, RefuseStep, HandleStep, BeginStep, ReadStep, EndStep

\* Every step of the system keeps what holds of the servers.
LEMMA ServerNext ==
    ASSUME ServerIInv, WorkspaceTypeOK, [Next]_vars
    PROVE  ServerIInv'
  <1>1. CASE NextServers(mix.used \cap Server)
    BY <1>1, ServerSteps DEF NextServers
  <1>2. CASE NextDaemon
    <2>1. UNCHANGED stdio
      <3>1. PICK r \in Request : \/ Arrive(r) \/ LookForEnv(r) \/ MakeEnv(r) \/ PostCall(r)
                 \/ SendMessage(r) \/ SendWorkflowMessage(r) \/ Respond(r) \/ CancelTask(r) \/ StoreSecret(r)
        BY <1>2 DEF NextDaemon
      <3>2. CASE Arrive(r) \/ LookForEnv(r) \/ MakeEnv(r)
        BY <3>2 DEF Arrive, LookForEnv, MakeEnv, stdio
      <3>3. ASSUME NEW kind, NEW runtime, NEW confirmed, NEW approval,
                   Call(r, kind, runtime, confirmed, approval)
            PROVE  UNCHANGED stdio
        BY <3>3 DEF Call
      <3>4. CASE PostCall(r) \/ SendMessage(r)
        BY <3>3, <3>4 DEF PostCall, SendMessage
      <3>5. CASE SendWorkflowMessage(r) \/ Respond(r)
        BY <3>5 DEF SendWorkflowMessage, Respond
      <3>6. CASE CancelTask(r) \/ StoreSecret(r)
        BY <3>6 DEF CancelTask, StoreSecret
      <3>7. QED
        BY <3>1, <3>2, <3>4, <3>5, <3>6
    <2>2. QED
      BY <2>1, ServersStay
  <1>3. CASE UNCHANGED facades
    BY <1>3, ServersStay DEF facades
  <1>4. CASE UNCHANGED vars
    BY <1>3, <1>4 DEF vars
  <1>5. QED
    BY <1>1, <1>2, <1>3, <1>4 DEF Next

\* The invariant of the servers implies that replies match.
LEMMA MatchBecause == ServerIInv => RepliesMatch
  <1> SUFFICES ASSUME ServerIInv, NEW s \in Server
               PROVE  LET asked == {i \in At(s, "handled") : mail[s][i].id # 0}
                          lines == reply[s]
                      IN  /\ (\A i \in DOMAIN mail[s] :
                                 mail[s][i].id = 0 => mail[s][i].method \in Notification)
                                => /\ {lines[k].id : k \in DOMAIN lines} \ {0} = asked
                                   /\ \A k, l \in DOMAIN lines :
                                          k < l /\ lines[k].id # 0 /\ lines[l].id # 0
                                              => lines[k].id < lines[l].id
                                   /\ \A k \in DOMAIN lines : lines[k].id = 0 => Lost(s) # {}
                          /\ \A i \in Lost(s) : \E j \in 1..(i - 1) : mail[s][j].reads
    BY DEF RepliesMatch
  <1> DEFINE q == mail[s]
             lines == reply[s]
             asked == {i \in At(s, "handled") : mail[s][i].id # 0}
             lost == Missing(q, pipe[s], buffer[s])
  <1>1. MailOK(q, Protocol[s]) /\ LinesOK(q, lines, lost # {}) /\ StreamOK(q, pipe[s], buffer[s])
    BY DEF ServerIInv, ServerOK
  <1>2. DOMAIN q = 1..Len(q) /\ DOMAIN lines = 1..Len(lines)
    BY <1>1, MailIndex, LenProperties DEF MailOK, LinesOK
  <1>3. asked = Asked(q) /\ Lost(s) = lost
    BY <1>2 DEF Asked, At, Lost, Missing
  <1>4. \A i \in lost : \E j \in 1..(i - 1) : q[j].reads
    BY <1>1 DEF StreamOK
  <1>5. (\A i \in DOMAIN q : q[i].id = 0 => q[i].method \in Notification) => Plain(q)
    BY <1>2 DEF Plain
  <1> HIDE DEF q, lines, asked, lost
  <1>6. (\A i \in DOMAIN q : q[i].id = 0 => q[i].method \in Notification)
            => /\ {lines[k].id : k \in DOMAIN lines} \ {0} = asked
               /\ \A k, l \in DOMAIN lines :
                      k < l /\ lines[k].id # 0 /\ lines[l].id # 0 => lines[k].id < lines[l].id
               /\ \A k \in DOMAIN lines : lines[k].id = 0 => lost # {}
    BY <1>1, <1>2, <1>3, <1>5 DEF LinesOK, Answering
  <1>7. QED
    BY <1>3, <1>4, <1>6 DEF q, lines, asked

\* Three messages are answered by three lines, in their order, when nothing is lost.
LEMMA ThreeLines ==
    ASSUME NEW q \in Seq(Message), NEW lines, NEW lost, ~lost, LinesOK(q, lines, lost), Plain(q),
           NEW a \in Nat, NEW b \in Nat, NEW c \in Nat,
           a < b, b < c, Asked(q) = {a, b, c}, a # 0
    PROVE  /\ Len(lines) = 3
           /\ lines[1].id = a /\ lines[2].id = b /\ lines[3].id = c
           /\ Tells(q[a], lines[1].told) /\ Tells(q[b], lines[2].told) /\ Tells(q[c], lines[3].told)
  <1> DEFINE n == Len(lines)
  <1>1. n \in Nat
    BY LenProperties DEF LinesOK
  <1>2. /\ {lines[k].id : k \in 1..n} \ {0} = {a, b, c}
        /\ \A k, l \in 1..n : k < l /\ lines[k].id # 0 /\ lines[l].id # 0 => lines[k].id < lines[l].id
        /\ \A k \in 1..n : lines[k].id # 0
    BY DEF LinesOK, Answering
  <1> HIDE DEF n
  <1>3. \A k \in 1..n : lines[k].id \in {a, b, c}
    BY <1>2
  <1>4. PICK x \in 1..n : lines[x].id = a
    BY <1>2
  <1>5. PICK y \in 1..n : lines[y].id = b
    BY <1>2
  <1>6. PICK z \in 1..n : lines[z].id = c
    BY <1>2
  <1>7. \A k, l \in 1..n : k < l => lines[k].id < lines[l].id
    BY <1>2
  <1>8. \A k \in 1..n : k < y <=> lines[k].id < b
    <2>1. ASSUME NEW k \in 1..n, lines[k].id < b PROVE k < y
      <3>1. k # y /\ ~(y < k)
        BY <1>3, <1>5, <1>7, <2>1
      <3>2. QED
        BY <1>1, <3>1
    <2>2. QED
      BY <1>5, <1>7, <2>1
  <1>9. \A k \in 1..n : k = x \/ k = y \/ k = z
    <2> SUFFICES ASSUME NEW k \in 1..n PROVE k = x \/ k = y \/ k = z
      OBVIOUS
    <2>1. PICK l \in {x, y, z} : lines[l].id = lines[k].id
      BY <1>3, <1>4, <1>5, <1>6
    <2>2. ~(k < l) /\ ~(l < k)
      BY <1>3, <1>7, <2>1
    <2>3. QED
      BY <1>1, <2>1, <2>2
  <1>10. x < y /\ y < z
    <2>1. x < y
      BY <1>4, <1>8
    <2>2. ~(z < y) /\ z # y
      BY <1>5, <1>6, <1>8
    <2>3. QED
      BY <1>1, <2>1, <2>2
  <1>11. n = 3 /\ x = 1 /\ y = 2 /\ z = 3
    <2>1. 1 \in 1..n /\ n \in 1..n
      BY <1>1
    <2>2. x = 1 /\ z = n
      BY <1>1, <1>9, <1>10, <2>1
    <2>3. y = 2
      <3>1. 2 \in 1..n
        BY <1>1, <1>10
      <3>2. QED
        BY <1>1, <1>9, <1>10, <2>2, <3>1
    <2>4. n = 3
      <3>1. 3 \in 1..n
        BY <1>1, <1>10, <2>2, <2>3
      <3>2. QED
        BY <1>1, <1>9, <1>10, <2>2, <2>3, <3>1
    <2>5. QED
      BY <2>2, <2>3, <2>4
  <1>12. Tells(q[a], lines[1].told) /\ Tells(q[b], lines[2].told) /\ Tells(q[c], lines[3].told)
    <2>1. \A k \in 1..n : lines[k].id # 0 => Tells(q[lines[k].id], lines[k].told)
      BY DEF LinesOK, n
    <2>2. QED
      BY <1>2, <1>4, <1>5, <1>6, <1>11, <2>1
  <1>13. QED
    BY <1>4, <1>5, <1>6, <1>11, <1>12 DEF n

SmokePasses(lines) ==
    /\ Len(lines) = 3
    /\ lines[1].told = "result" /\ lines[2].told = "result" /\ lines[3].told = "success"

\* The line about a call says success when it was good, and only then.
LEMMA CallTold ==
    ASSUME NEW m, NEW told, Tells(m, told), IsCall(m)
    PROVE  (told = "success") = (m.result = "good")
  BY DEF Tells, Told

\* A query is answered with a result.
LEMMA QueryTold ==
    ASSUME NEW m, NEW told, Tells(m, told), m.method = "query"
    PROVE  told = "result"
  BY DEF Tells, Told, IsCall

SmokeScript(protocol) ==
    IF protocol = "mcp" THEN <<"query", "notifications/initialized", "query", "tools/call">>
    ELSE <<"query", "session/new", "session/prompt">>

\* The scripts of the smoke clients, message by message.
LEMMA ScriptIs ==
    ASSUME NEW q \in Seq(Message), NEW protocol \in {"mcp", "acp"},
           [i \in DOMAIN q |-> q[i].method] = SmokeScript(protocol)
    PROVE  /\ protocol = "mcp" =>
                  /\ Len(q) = 4 /\ q[1].method = "query"
                  /\ q[2].method = "notifications/initialized" /\ q[3].method = "query"
                  /\ q[4].method = "tools/call"
           /\ protocol = "acp" =>
                  /\ Len(q) = 3 /\ q[1].method = "query"
                  /\ q[2].method = "session/new" /\ q[3].method = "session/prompt"
  <1>1. DOMAIN q = 1..Len(q) /\ Len(q) \in Nat
    BY MailIndex
  <1> DEFINE f == [i \in 1..Len(q) |-> q[i].method]
  <1>2. f = SmokeScript(protocol) /\ DOMAIN f = 1..Len(q) /\ \A i \in 1..Len(q) : f[i] = q[i].method
    BY <1>1
  <1> HIDE DEF f
  <1>3. CASE protocol = "mcp"
    <2>1. f = <<"query", "notifications/initialized", "query", "tools/call">>
      BY <1>2, <1>3 DEF SmokeScript
    <2>2. DOMAIN f = 1..4 /\ f[1] = "query" /\ f[2] = "notifications/initialized"
          /\ f[3] = "query" /\ f[4] = "tools/call"
      BY <2>1
    <2>3. Len(q) = 4
      BY <1>1, <1>2, <2>2
    <2>4. QED
      BY <1>2, <1>3, <2>2, <2>3
  <1>4. CASE protocol = "acp"
    <2>1. f = <<"query", "session/new", "session/prompt">>
      BY <1>2, <1>4 DEF SmokeScript
    <2>2. DOMAIN f = 1..3 /\ f[1] = "query" /\ f[2] = "session/new" /\ f[3] = "session/prompt"
      BY <2>1
    <2>3. Len(q) = 3
      BY <1>1, <1>2, <2>2
    <2>4. QED
      BY <1>2, <1>4, <2>2, <2>3
  <1>5. QED
    BY <1>3, <1>4

\* A smoke client judges the call of its script by what became of it.
LEMMA SmokeTells ==
    ASSUME NEW protocol \in {"mcp", "acp"}, NEW sessions, NEW q, NEW P, NEW B, NEW lines,
           ServerOK(protocol, sessions, q, P, B, lines),
           [i \in DOMAIN q |-> q[i].method] = SmokeScript(protocol),
           \A i \in 1..Len(q) : q[i].at = "handled", q[Len(q)].id # 0
    PROVE  SmokePasses(lines) = (q[Len(q)].result = "good")
  <1> DEFINE lost == Missing(q, P, B) # {}
  <1>1. /\ MailOK(q, protocol) /\ q \in Seq(Message) /\ LinesOK(q, lines, lost) /\ ~lost
        /\ SessionsOK(sessions, q, lines)
    BY DEF ServerOK, MailOK, Missing
  <1> HIDE DEF lost
  <1>2. \A i \in 1..Len(q) : MessageOK(q[i], i, protocol)
    BY <1>1 DEF MailOK
  <1>3. CASE protocol = "mcp"
    <2>1. /\ Len(q) = 4 /\ q[1].method = "query"
          /\ q[2].method = "notifications/initialized" /\ q[3].method = "query"
          /\ q[4].method = "tools/call"
      BY <1>1, <1>3, ScriptIs
    <2>2. 1..Len(q) = {1, 2, 3, 4}
      BY <2>1
    <2>3. q[1].id = 1 /\ q[2].id = 0 /\ q[3].id = 3 /\ q[4].id = 4
      BY <1>2, <2>1, <2>2 DEF MessageOK, Notification
    <2>4. Plain(q)
      BY <2>1, <2>2, <2>3 DEF Plain, Notification
    <2>5. Asked(q) = {1, 3, 4}
      BY <2>2, <2>3 DEF Asked
    <2>6. /\ Len(lines) = 3
          /\ Tells(q[1], lines[1].told) /\ Tells(q[3], lines[2].told) /\ Tells(q[4], lines[3].told)
      BY <1>1, <2>4, <2>5, ThreeLines
    <2>7. lines[1].told = "result" /\ lines[2].told = "result"
      BY <2>1, <2>6, QueryTold
    <2>8. (lines[3].told = "success") = (q[4].result = "good")
      BY <2>1, <2>6, CallTold DEF IsCall
    <2>9. QED
      BY <2>1, <2>6, <2>7, <2>8 DEF SmokePasses
  <1>4. CASE protocol = "acp"
    <2>1. /\ Len(q) = 3 /\ q[1].method = "query"
          /\ q[2].method = "session/new" /\ q[3].method = "session/prompt"
      BY <1>1, <1>4, ScriptIs
    <2>2. 1..Len(q) = {1, 2, 3}
      BY <2>1
    <2>3. q[1].id = 1 /\ q[2].id = 2 /\ q[3].id = 3
      BY <1>2, <2>1, <2>2 DEF MessageOK
    <2>4. Plain(q)
      BY <2>2, <2>3 DEF Plain
    <2>5. Asked(q) = {1, 2, 3}
      BY <2>2, <2>3 DEF Asked
    <2>6. /\ Len(lines) = 3
          /\ lines[1].id = 1 /\ lines[2].id = 2 /\ lines[3].id = 3
          /\ Tells(q[1], lines[1].told) /\ Tells(q[3], lines[3].told)
      BY <1>1, <2>4, <2>5, ThreeLines
    <2>7. lines[1].told = "result"
      BY <2>1, <2>6, QueryTold
    <2>8. (lines[3].told = "success") = (q[3].result = "good")
      BY <2>1, <2>6, CallTold DEF IsCall
    <2>9. ASSUME q[3].result = "good" PROVE lines[2].told = "result"
      <3>1. Created(q, lines)
        BY <1>1, <2>1, <2>2, <2>9 DEF SessionsOK, Live
      <3>2. PICK k \in 1..Len(lines) :
                lines[k].id # 0 /\ q[lines[k].id].method = "session/new" /\ lines[k].told = "result"
        BY <3>1 DEF Created
      <3>3. k \in {1, 2, 3}
        BY <2>6
      <3>4. k = 2
        BY <2>1, <2>6, <3>2, <3>3
      <3>5. QED
        BY <3>2, <3>4
    <2>10. QED
      BY <2>1, <2>6, <2>7, <2>8, <2>9 DEF SmokePasses
  <1>5. QED
    BY <1>3, <1>4

\* The invariants of servers and daemon imply that verdicts are true.
LEMMA VerdictsBecause == ServerIInv /\ DaemonIInv => VerdictsAreTrue
  <1> SUFFICES ASSUME ServerIInv, DaemonIInv PROVE VerdictsAreTrue
    OBVIOUS
  <1>1. DaemonVerdicts
    BY DaemonTells
  <1>2. ASSUME NEW s \in Server, NEW k \in DOMAIN reply[s], NEW i \in At(s, "handled"),
               IsCall(mail[s][i]), reply[s][k].id = i
        PROVE  (reply[s][k].told = "success") = (mail[s][i].result = "good")
    <2>1. /\ LinesOK(mail[s], reply[s], Missing(mail[s], pipe[s], buffer[s]) # {})
          /\ mail[s] \in Seq(Message)
      BY DEF ServerIInv, ServerOK, MailOK
    <2>2. DOMAIN reply[s] = 1..Len(reply[s]) /\ DOMAIN mail[s] = 1..Len(mail[s])
      BY <2>1, MailIndex, LenProperties DEF LinesOK
    <2>3. i # 0
      BY <2>1, <2>2, MailIndex DEF At
    <2>4. Tells(mail[s][i], reply[s][k].told)
      BY <1>2, <2>1, <2>2, <2>3 DEF LinesOK
    <2>5. QED
      BY <1>2, <2>4, CallTold
  <1>3. ASSUME NEW s \in Server, [i \in DOMAIN mail[s] |-> mail[s][i].method] = Script(s),
               At(s, "handled") = DOMAIN mail[s], mail[s][Len(mail[s])].id # 0
        PROVE  SmokeOk(s) = (mail[s][Len(mail[s])].result = "good")
    <2>1. ServerOK(Protocol[s], server[s].sessions, mail[s], pipe[s], buffer[s], reply[s])
      BY DEF ServerIInv
    <2>2. Protocol[s] \in {"mcp", "acp"}
      BY FacadesAssumption
    <2>3. Script(s) = SmokeScript(Protocol[s])
      BY DEF Script, SmokeScript
    <2>4. \A i \in 1..Len(mail[s]) : mail[s][i].at = "handled"
      BY <1>3, <2>1, MailIndex DEF ServerOK, MailOK, At
    <2> DEFINE p == Protocol[s]
               n == server[s].sessions
               q == mail[s]
               P == pipe[s]
               B == buffer[s]
               lines == reply[s]
    <2>5. /\ p \in {"mcp", "acp"} /\ ServerOK(p, n, q, P, B, lines)
          /\ [i \in DOMAIN q |-> q[i].method] = SmokeScript(p)
          /\ \A i \in 1..Len(q) : q[i].at = "handled"
          /\ q[Len(q)].id # 0
      BY <1>3, <2>1, <2>2, <2>3, <2>4
    <2> HIDE DEF p, n, q, P, B, lines
    <2>6. SmokePasses(lines) = (q[Len(q)].result = "good")
      BY <2>5, SmokeTells
    <2>7. QED
      BY <2>6 DEF SmokePasses, SmokeOk, q, lines
  <1>4. QED
    BY <1>1, <1>2, <1>3 DEF VerdictsAreTrue, DaemonVerdicts

\* The lines a client reads are the answers to its requests, in the order it sent them, and
\* one without an id is among them only where a message is lost to a program that read the
\* same input: for any number of servers and messages, torn wherever programs and the reader
\* stop (mcp_stdio.py and acp_stdio.py, handle_line).
THEOREM RepliesAlwaysMatch == Spec => []RepliesMatch
  <1>1. Init => WorkspaceTypeOK /\ ServerIInv
    BY WorkspaceInit, ServerInit
  <1>2. WorkspaceTypeOK /\ ServerIInv /\ [Next]_vars => (WorkspaceTypeOK /\ ServerIInv)'
    BY WorkspaceNext, ServerNext
  <1>3. QED
    BY <1>1, <1>2, MatchBecause, PTL DEF Spec

\* What the facades tell of a call is what became of it: in replies, smoke reports and A2A
\* tasks, whatever else their clients, the people and the other requests do.
THEOREM VerdictsAlwaysTrue == Spec => []VerdictsAreTrue
  <1>1. Init => WorkspaceTypeOK /\ ServerIInv /\ DaemonIInv
    BY WorkspaceInit, ServerInit, DaemonInit
  <1>2. WorkspaceTypeOK /\ ServerIInv /\ DaemonIInv /\ [Next]_vars
            => (WorkspaceTypeOK /\ ServerIInv /\ DaemonIInv)'
    BY WorkspaceNext, ServerNext, DaemonNext
  <1>3. QED
    BY <1>1, <1>2, VerdictsBecause, PTL DEF Spec
==============================================================================
