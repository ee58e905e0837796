------------------------- MODULE PluginManagerProofs -------------------------
(***************************************************************************)
(* What the plugin manager counts on between a gate and the end of its     *)
(* plan, for any number of requests and changes by people, and what its    *)
(* catalog is, for any manifest.  ManagerIInv is inductive: UpdateGated    *)
(* and InstallKept say what a request that was let in may still count on.  *)
(***************************************************************************)
EXTENDS PluginManager, SequenceTheorems, WellFoundedInduction, FiniteSetTheorems, TLAPS

Command == {"pip", "clone", "pull", "skill", "winpty"}

\* What a request is, in any state.
RequestRecord ==
    [state : {"none", "planned", "refused", "running", "blocked", "failing", "failed", "completed"},
     action : {"none", "install", "update", "transport"}, plan : Seq(Command),
     override : BOOLEAN, found : Repo, touched : BOOLEAN]

ManagerTypeOK ==
    /\ tools \subseteq {"git", "pip", "dir"}
    /\ repo \in Repo /\ packages \in BOOLEAN /\ entry \in BOOLEAN /\ winpty \in BOOLEAN
    /\ own \in OwnManifest
    /\ request \in [Op -> RequestRecord]

\* The command is not in what is left of the plan of r.
Lacks(r, command) == \A i \in DOMAIN r.plan : r.plan[i] # command

\* Only an update pulls; and one that was let in still finds a source its gate accepts.
UpdateGated(r, source) ==
    /\ r.action # "update" => Lacks(r, "pull")
    /\ (/\ r.action = "update" /\ r.state \in {"planned", "running"}
        /\ ~r.override /\ ~r.touched)
          => source \in {"partial", "ours"}

\* An install that nobody has touched: what it has done so far is there.
InstallKept(r, source, installed) ==
    (/\ r.action = "install" /\ r.state \in {"planned", "running", "completed"}
     /\ ~r.touched /\ r.found \in {"absent", "ours"})
      => /\ source \in {"absent", "partial", "ours"}
         /\ Lacks(r, "clone") => source # "absent"
         /\ Lacks(r, "pip") => installed
         /\ r.state = "completed" => r.plan = <<>>

\* The inductive invariant.
ManagerIInv ==
    /\ ManagerTypeOK
    /\ \A o \in Op : UpdateGated(request[o], repo)
    /\ \A o \in Op : InstallKept(request[o], repo, packages)

-----------------------------------------------------------------------------
\* At the start no request has been let in, so nothing has been promised of one.
LEMMA ManagerInit == Init => ManagerIInv
  <1> SUFFICES ASSUME Init PROVE ManagerIInv
    OBVIOUS
  <1>1. repo \in Repo /\ <<>> \in Seq(Command)
    BY DEF Init
  <1>2. ManagerTypeOK
    BY <1>1 DEF Init, ManagerTypeOK, RequestRecord, Repo
  <1>3. ASSUME NEW o \in Op
        PROVE  UpdateGated(request[o], repo) /\ InstallKept(request[o], repo, packages)
    BY DEF Init, UpdateGated, InstallKept, Lacks
  <1>4. QED
    BY <1>2, <1>3 DEF ManagerIInv

\* Plans are sequences of commands, and only that of an update pulls.
LEMMA PlanType ==
    ASSUME ManagerTypeOK,
           NEW action \in {"install", "update", "transport"}, NEW skill \in BOOLEAN
    PROVE  /\ PlanOf(action, skill) \in Seq(Command)
           /\ action # "update" =>
                \A i \in DOMAIN PlanOf(action, skill) : PlanOf(action, skill)[i] # "pull"
           /\ action = "install" => /\ 2 \in DOMAIN PlanOf(action, skill)
                                    /\ PlanOf(action, skill)[1] = "pip"
                                    /\ PlanOf(action, skill)[2] = "clone"
  <1>1. CASE action = "transport"
    <2>1. PlanOf(action, skill) = <<>> \/ PlanOf(action, skill) = <<"winpty">>
      BY <1>1, Zenon DEF PlanOf, TransportPlan
    <2>2. /\ <<>> \in Seq(Command) /\ DOMAIN <<>> = {}
          /\ <<"winpty">> \in Seq(Command) /\ \A i \in DOMAIN <<"winpty">> : <<"winpty">>[i] # "pull"
      BY DEF Command
    <2>3. QED
      BY <1>1, <2>1, <2>2
  <1>2. CASE action # "transport"
    <2> DEFINE source == IF action = "install" THEN "clone" ELSE "pull"
               first == <<"pip", source>>
               last == IF skill THEN <<"skill">> ELSE <<>>
    <2>1. PlanOf(action, skill) = first \o last
      BY <1>2, Zenon DEF PlanOf, Plan
    <2>2. first \in Seq(Command) /\ Len(first) = 2 /\ first[1] = "pip" /\ first[2] = source
      BY DEF Command
    <2>3. last \in Seq(Command) /\ \A i \in DOMAIN last : last[i] = "skill"
      <3>1. last = <<>> \/ last = <<"skill">>
        BY Zenon
      <3>2. /\ <<>> \in Seq(Command) /\ DOMAIN <<>> = {}
            /\ <<"skill">> \in Seq(Command)
            /\ \A i \in DOMAIN <<"skill">> : <<"skill">>[i] = "skill"
        BY DEF Command
      <3>3. QED
        BY <3>1, <3>2, Zenon
    <2>4. source \in {"pull", "clone"} /\ (action = "install" => source = "clone")
          /\ (action # "update" => source # "pull")
      BY <1>2
    <2> HIDE DEF source, first, last
    <2>5. first \o last \in Seq(Command) /\ DOMAIN (first \o last) = 1..(2 + Len(last))
      <3>1. first \o last \in Seq(Command) /\ Len(first \o last) = Len(first) + Len(last)
        BY <2>2, <2>3, ConcatProperties, Zenon
      <3>2. QED
        BY <2>2, <2>3, <3>1
    <2>6. \A i \in DOMAIN (first \o last) :
              (first \o last)[i] = IF i <= 2 THEN first[i] ELSE last[i - 2]
      <3>1. \A i \in 1..(Len(first) + Len(last)) :
                (first \o last)[i] = IF i <= Len(first) THEN first[i] ELSE last[i - Len(first)]
        BY <2>2, <2>3, ConcatProperties, Zenon
      <3>2. QED
        BY <2>2, <2>3, <2>5, <3>1
    <2>7. QED
      BY <1>2, <2>1, <2>2, <2>3, <2>4, <2>5, <2>6
  <1>3. QED
    BY <1>1, <1>2

\* An update whose gate is open finds a checkout of the expected remote.
LEMMA UpdateGateTrusts ==
    ASSUME ManagerTypeOK, GateBlockers("update") = {}
    PROVE  Trusted
  <1>1. Provenance.downloaded /\ Provenance.trusted # "no"
    BY DEF GateBlockers
  <1>2. RepoProvenance.exists /\ RepoProvenance.git /\ RepoProvenance.matches = "yes"
    BY <1>1 DEF Provenance, RepoProvenance
  <1>3. QED
    BY <1>2 DEF RepoProvenance

\* Ask, operation_gate and plan: a request that is let in starts from what the gate has seen.
LEMMA AskStep ==
    ASSUME ManagerIInv, NEW o \in Op,
           NEW action \in {"install", "update", "transport"}, NEW skill \in BOOLEAN,
           NEW override \in BOOLEAN, Ask(o, action, skill, override)
    PROVE  ManagerIInv'
  <1> DEFINE open == (override /\ action # "transport") \/ GateOf(action)
             plan == IF open THEN PlanOf(action, skill) ELSE <<>>
             r == [state |-> IF open THEN "planned" ELSE "refused", action |-> action,
                   plan |-> plan, override |-> override, found |-> repo, touched |-> FALSE]
  <1>1. /\ request' = [request EXCEPT ![o] = r]
        /\ UNCHANGED <<tools, repo, packages, entry, winpty, own>>
    BY DEF Ask, host
  <1>2. /\ ManagerTypeOK
        /\ \A p \in Op : UpdateGated(request[p], repo) /\ InstallKept(request[p], repo, packages)
    BY DEF ManagerIInv
  <1>3. plan \in Seq(Command)
    BY <1>2, PlanType
  <1>4. ManagerTypeOK'
    <2>1. r \in RequestRecord
      BY <1>2, <1>3 DEF RequestRecord, ManagerTypeOK
    <2>2. QED
      BY <1>1, <1>2, <2>1 DEF ManagerTypeOK
  <1>5. UpdateGated(r, repo)
    <2>1. action # "update" => Lacks(r, "pull")
      BY <1>2, PlanType DEF Lacks
    <2>2. ASSUME action = "update", open, ~override PROVE Trusted
      BY <1>2, <2>2, UpdateGateTrusts DEF GateOf
    <2>3. QED
      BY <2>1, <2>2 DEF UpdateGated, Trusted
  <1>6. InstallKept(r, repo, packages)
    <2>1. ASSUME action = "install", open PROVE ~Lacks(r, "clone") /\ ~Lacks(r, "pip")
      <3>1. 2 \in DOMAIN plan /\ plan[1] = "pip" /\ plan[2] = "clone" /\ 1 \in DOMAIN plan
        BY <1>2, <1>3, <2>1, PlanType
      <3>2. QED
        BY <3>1 DEF Lacks
    <2>2. QED
      BY <2>1 DEF InstallKept
  <1>7. ASSUME NEW p \in Op
        PROVE  (UpdateGated(request[p], repo) /\ InstallKept(request[p], repo, packages))'
    <2>1. request'[p] = IF p = o THEN r ELSE request[p]
      BY <1>1, <1>2 DEF ManagerTypeOK
    <2> HIDE DEF r
    <2>2. UpdateGated(request'[p], repo) /\ InstallKept(request'[p], repo, packages)
      BY <1>2, <1>5, <1>6, <2>1
    <2>3. QED
      BY <1>1, <2>2
  <1>8. QED
    BY <1>4, <1>7 DEF ManagerIInv

\* Other requests keep what they count on when a command runs.
LEMMA CommandEffect ==
    ASSUME ManagerTypeOK, NEW command \in Command, Done(command) \/ Failed(command),
           UNCHANGED <<tools, own>>
    PROVE  /\ repo' = repo \/ (repo = "absent" /\ repo' \in {"ours", "partial"})
           /\ repo' \in Repo /\ packages' \in BOOLEAN /\ entry' \in BOOLEAN /\ winpty' \in BOOLEAN
           /\ packages => packages'
           /\ Done(command) /\ command = "clone" => repo' # "absent"
           /\ Done(command) /\ command = "pip" => packages'
  <1>1. CASE Done(command)
    BY <1>1 DEF ManagerTypeOK, Done, Command, Repo
  <1>2. CASE ~Done(command) /\ Failed(command)
    <2>1. UNCHANGED <<packages, entry, winpty>>
      BY <1>2 DEF Failed
    <2>2. CASE command = "clone"
      BY <1>2, <2>1, <2>2 DEF ManagerTypeOK, Failed, Repo
    <2>3. CASE command # "clone"
      <3>1. repo' = repo
        BY <1>2, <2>3 DEF Failed
      <3>2. QED
        BY <1>2, <2>1, <3>1 DEF ManagerTypeOK
    <2>4. QED
      BY <2>2, <2>3
  <1>3. QED
    BY <1>1, <1>2

\* A plan whose tail and head lack a command lacks it.
LEMMA TailLacks ==
    ASSUME NEW plan \in Seq(Command), plan # <<>>, NEW command,
           \A i \in DOMAIN Tail(plan) : Tail(plan)[i] # command, Head(plan) # command
    PROVE  \A i \in DOMAIN plan : plan[i] # command
  <1> SUFFICES ASSUME NEW i \in DOMAIN plan PROVE plan[i] # command
    OBVIOUS
  <1>1. CASE i = 1
    BY <1>1
  <1>2. CASE i # 1
    <2>1. i - 1 \in DOMAIN Tail(plan) /\ Tail(plan)[i - 1] = plan[i]
      BY <1>2
    <2>2. QED
      BY <2>1
  <1>3. QED
    BY <1>1, <1>2

\* The tail of a plan that lacks a command lacks it too.
LEMMA LacksTail ==
    ASSUME NEW plan \in Seq(Command), plan # <<>>, NEW command,
           \A i \in DOMAIN plan : plan[i] # command
    PROVE  \A i \in DOMAIN Tail(plan) : Tail(plan)[i] # command
  <1> SUFFICES ASSUME NEW i \in DOMAIN Tail(plan) PROVE Tail(plan)[i] # command
    OBVIOUS
  <1>1. i + 1 \in DOMAIN plan /\ Tail(plan)[i] = plan[i + 1]
    OBVIOUS
  <1>2. QED
    BY <1>1

\* Step: a command of one plan keeps what that plan and the others count on.
LEMMA StepStep ==
    ASSUME ManagerIInv, NEW o \in Op, Step(o)
    PROVE  ManagerIInv'
  <1> DEFINE r == request[o]
             command == Head(r.plan)
             advanced == [r EXCEPT !.plan = Tail(r.plan)]
             stopped == [r EXCEPT !.state = "failing"]
  <1>1. /\ ManagerTypeOK
        /\ \A p \in Op : UpdateGated(request[p], repo) /\ InstallKept(request[p], repo, packages)
    BY DEF ManagerIInv
  <1>2. r \in RequestRecord
    BY <1>1 DEF ManagerTypeOK
  <1>3. r.state = "running" /\ r.plan # <<>> /\ r.plan \in Seq(Command) /\ command \in Command
    BY <1>2 DEF Step, RequestRecord
  <1>4. Done(command) \/ Failed(command)
    BY DEF Step
  <1>5. UNCHANGED <<tools, own>>
    BY DEF Step
  <1>6. /\ repo' = repo \/ (repo = "absent" /\ repo' \in {"ours", "partial"})
        /\ repo' \in Repo /\ packages' \in BOOLEAN /\ entry' \in BOOLEAN /\ winpty' \in BOOLEAN
        /\ packages => packages'
        /\ Done(command) /\ command = "clone" => repo' # "absent"
        /\ Done(command) /\ command = "pip" => packages'
    BY <1>1, <1>3, <1>4, <1>5, CommandEffect
  <1>7. \/ /\ Done(command) \/ command = "skill"
           /\ request' = [request EXCEPT ![o] = advanced]
        \/ request' = [request EXCEPT ![o] = stopped]
    BY <1>1, <1>2 DEF Step, ManagerTypeOK, RequestRecord
  <1>8. /\ advanced \in RequestRecord /\ stopped \in RequestRecord
        /\ advanced.plan = Tail(r.plan) /\ advanced.state = "running"
        /\ advanced.action = r.action /\ advanced.override = r.override
        /\ advanced.found = r.found /\ advanced.touched = r.touched
        /\ stopped.plan = r.plan /\ stopped.state = "failing" /\ stopped.action = r.action
    BY <1>2, <1>3 DEF RequestRecord
  <1> HIDE DEF advanced, stopped
  <1>9. ASSUME NEW p \in Op
        PROVE  UpdateGated(request[p], repo') /\ InstallKept(request[p], repo', packages')
    <2>1. UpdateGated(request[p], repo) /\ InstallKept(request[p], repo, packages)
      BY <1>1
    <2>2. UpdateGated(request[p], repo')
      BY <1>6, <2>1 DEF UpdateGated
    <2>3. InstallKept(request[p], repo', packages')
      BY <1>6, <2>1 DEF InstallKept
    <2>4. QED
      BY <2>2, <2>3
  <1>10. ManagerTypeOK'
    BY <1>1, <1>5, <1>6, <1>7, <1>8 DEF ManagerTypeOK
  <1>11. UpdateGated(stopped, repo') /\ InstallKept(stopped, repo', packages')
    <2>1. UpdateGated(r, repo')
      BY <1>9
    <2>2. QED
      BY <1>8, <2>1 DEF UpdateGated, InstallKept, Lacks
  <1>12. ASSUME Done(command) \/ command = "skill"
         PROVE  UpdateGated(advanced, repo') /\ InstallKept(advanced, repo', packages')
    <2>1. UpdateGated(r, repo') /\ InstallKept(r, repo', packages')
      BY <1>9
    <2>2. ASSUME NEW c, Lacks(r, c) PROVE Lacks(advanced, c)
      BY <1>3, <1>8, <2>2, LacksTail DEF Lacks
    <2>3. ASSUME NEW c, Lacks(advanced, c) PROVE Lacks(r, c) \/ command = c
      <3>1. \A i \in DOMAIN Tail(r.plan) : Tail(r.plan)[i] # c
        BY <1>8, <2>3 DEF Lacks
      <3>2. command # c => \A i \in DOMAIN r.plan : r.plan[i] # c
        BY <1>3, <3>1, TailLacks
      <3>3. QED
        BY <3>2 DEF Lacks
    <2>4. UpdateGated(advanced, repo')
      BY <1>3, <1>8, <2>1, <2>2 DEF UpdateGated
    <2>5. InstallKept(advanced, repo', packages')
      <3>1. Lacks(advanced, "clone") => Lacks(r, "clone") \/ repo' # "absent"
        BY <1>6, <1>12, <2>3
      <3>2. Lacks(advanced, "pip") => Lacks(r, "pip") \/ packages'
        BY <1>6, <1>12, <2>3
      <3>3. QED
        BY <1>3, <1>8, <2>1, <3>1, <3>2 DEF InstallKept
    <2>6. QED
      BY <2>4, <2>5
  <1>13. ASSUME NEW p \in Op
         PROVE  UpdateGated(request'[p], repo') /\ InstallKept(request'[p], repo', packages')
    <2>1. CASE p = o
      <3>1. \/ request'[p] = advanced /\ (Done(command) \/ command = "skill")
            \/ request'[p] = stopped
        BY <1>1, <1>7, <2>1 DEF ManagerTypeOK
      <3>2. QED
        BY <1>11, <1>12, <3>1
    <2>2. CASE p # o
      <3>1. request'[p] = request[p]
        BY <1>1, <1>7, <2>2 DEF ManagerTypeOK
      <3>2. QED
        BY <1>9, <3>1
    <2>3. QED
      BY <2>1, <2>2
  <1>14. QED
    BY <1>10, <1>13 DEF ManagerIInv

\* Enter, PluginOperationRunner.execute: to take the lock or to be turned away changes no host.
LEMMA EnterStep ==
    ASSUME ManagerIInv, NEW o \in Op, Enter(o)
    PROVE  ManagerIInv'
  <1> DEFINE r == request[o]
             entered(s) == [r EXCEPT !.state = s]
  <1>1. /\ ManagerTypeOK
        /\ \A p \in Op : UpdateGated(request[p], repo) /\ InstallKept(request[p], repo, packages)
    BY DEF ManagerIInv
  <1>2. r \in RequestRecord /\ r.state = "planned"
    BY <1>1 DEF Enter, ManagerTypeOK
  <1>3. PICK s \in {"running", "blocked"} : request' = [request EXCEPT ![o] = entered(s)]
    BY <1>1, <1>2 DEF Enter, ManagerTypeOK
  <1>4. UNCHANGED <<tools, repo, packages, entry, winpty, own>>
    BY DEF Enter, host
  <1>5. entered(s) \in RequestRecord
    BY <1>2 DEF RequestRecord
  <1>6. UpdateGated(entered(s), repo) /\ InstallKept(entered(s), repo, packages)
    BY <1>1, <1>2 DEF UpdateGated, InstallKept, Lacks, RequestRecord
  <1>7. ManagerTypeOK'
    BY <1>1, <1>3, <1>4, <1>5 DEF ManagerTypeOK
  <1> HIDE DEF entered
  <1>8. ASSUME NEW p \in Op
        PROVE  UpdateGated(request'[p], repo) /\ InstallKept(request'[p], repo, packages)
    <2>1. request'[p] = IF p = o THEN entered(s) ELSE request[p]
      BY <1>1, <1>3 DEF ManagerTypeOK
    <2>2. QED
      BY <1>1, <1>6, <2>1
  <1>9. QED
    BY <1>4, <1>7, <1>8 DEF ManagerIInv

\* Finish: a request that completes leaves what its commands have made.
LEMMA FinishStep ==
    ASSUME ManagerIInv, NEW o \in Op, Finish(o)
    PROVE  ManagerIInv'
  <1> DEFINE r == request[o]
             ended == [r EXCEPT !.state = IF r.state = "failing" THEN "failed" ELSE "completed"]
  <1>1. /\ ManagerTypeOK
        /\ \A p \in Op : UpdateGated(request[p], repo) /\ InstallKept(request[p], repo, packages)
    BY DEF ManagerIInv
  <1>2. r \in RequestRecord /\ (r.state = "failing" \/ (r.state = "running" /\ r.plan = <<>>))
    BY <1>1 DEF Finish, ManagerTypeOK
  <1>3. request' = [request EXCEPT ![o] = ended]
    BY <1>1, <1>2 DEF Finish, ManagerTypeOK
  <1>4. UNCHANGED <<tools, repo, packages, entry, winpty, own>>
    BY DEF Finish, host
  <1>5. ended \in RequestRecord
    BY <1>2 DEF RequestRecord
  <1>6. UpdateGated(ended, repo) /\ InstallKept(ended, repo, packages)
    BY <1>1, <1>2 DEF UpdateGated, InstallKept, Lacks, RequestRecord
  <1>7. ManagerTypeOK'
    BY <1>1, <1>3, <1>4, <1>5 DEF ManagerTypeOK
  <1> HIDE DEF ended
  <1>8. ASSUME NEW p \in Op
        PROVE  UpdateGated(request'[p], repo) /\ InstallKept(request'[p], repo, packages)
    <2>1. request'[p] = IF p = o THEN ended ELSE request[p]
      BY <1>1, <1>3 DEF ManagerTypeOK
    <2>2. QED
      BY <1>1, <1>6, <2>1
  <1>9. QED
    BY <1>4, <1>7, <1>8 DEF ManagerIInv

\* PeopleChange: who changes the source touches every request, which then promises nothing.
LEMMA PeopleStep ==
    ASSUME ManagerIInv, PeopleChange
    PROVE  ManagerIInv'
  <1>1. /\ ManagerTypeOK
        /\ \A p \in Op : UpdateGated(request[p], repo) /\ InstallKept(request[p], repo, packages)
    BY DEF ManagerIInv
  <1>2. CASE UNCHANGED <<repo, packages, entry, winpty, own, request>>
             /\ \E t \in {"git", "pip", "dir"} :
                    tools' = IF t \in tools THEN tools \ {t} ELSE tools \cup {t}
    BY <1>1, <1>2 DEF ManagerIInv, ManagerTypeOK
  <1>3. CASE /\ repo' \in Repo \ {repo}
             /\ request' = [o \in Op |-> [request[o] EXCEPT !.touched = TRUE]]
             /\ UNCHANGED <<tools, packages, entry, winpty, own>>
    <2>1. ASSUME NEW p \in Op
          PROVE  /\ request'[p] \in RequestRecord /\ request'[p].touched
                 /\ request'[p].action = request[p].action /\ request'[p].plan = request[p].plan
      BY <1>1, <1>3 DEF ManagerTypeOK, RequestRecord
    <2>2. ManagerTypeOK'
      <3>1. request' \in [Op -> RequestRecord]
        BY <1>3, <2>1
      <3>2. QED
        BY <1>1, <1>3, <3>1 DEF ManagerTypeOK
    <2>3. ASSUME NEW p \in Op
          PROVE  UpdateGated(request'[p], repo') /\ InstallKept(request'[p], repo', packages')
      BY <1>1, <2>1 DEF UpdateGated, InstallKept, Lacks
    <2>4. QED
      BY <2>2, <2>3 DEF ManagerIInv
  <1>4. CASE /\ own' \in OwnManifest \ {own}
             /\ UNCHANGED <<tools, repo, packages, entry, winpty, request>>
    BY <1>1, <1>4 DEF ManagerIInv, ManagerTypeOK
  <1>5. QED
    BY <1>2, <1>3, <1>4 DEF PeopleChange

\* Every step keeps what the requests count on.
LEMMA ManagerNext == ManagerIInv /\ [Next]_vars => ManagerIInv'
  <1> SUFFICES ASSUME ManagerIInv, [Next]_vars PROVE ManagerIInv'
    OBVIOUS
  <1>1. CASE PeopleChange
    BY <1>1, PeopleStep
  <1>2. ASSUME NEW o \in Op, NEW action \in {"install", "update", "transport"},
               NEW skill \in BOOLEAN, NEW override \in BOOLEAN, Ask(o, action, skill, override)
        PROVE  ManagerIInv'
    BY <1>2, AskStep
  <1>3. ASSUME NEW o \in Op, Enter(o) \/ Step(o) \/ Finish(o)
        PROVE  ManagerIInv'
    BY <1>3, EnterStep, StepStep, FinishStep
  <1>4. CASE UNCHANGED vars
    BY <1>4 DEF vars, host, ManagerIInv, ManagerTypeOK
  <1>5. QED
    BY <1>1, <1>2, <1>3, <1>4 DEF Next

\* The manager keeps its invariant for every set of requests and of manifests.
THEOREM ManagerInvariant == Spec => []ManagerIInv
  BY ManagerInit, ManagerNext, PTL DEF Spec

\* No update that was let in pulls in a directory that is no checkout of the expected
\* remote, for any number of requests, though its gate is evaluated before the lock is
\* taken (server.py, /plugins/execute).
THEOREM UpdatesTrusted == Spec => []UpdatesPullTrusted
  <1>1. ManagerIInv => UpdatesPullTrusted
    <2> SUFFICES ASSUME ManagerIInv, NEW o \in Op,
                        request[o].state = "running", request[o].plan # <<>>,
                        Head(request[o].plan) = "pull",
                        ~request[o].override, ~request[o].touched
                 PROVE  Trusted
      BY DEF UpdatesPullTrusted
    <2>1. request[o] \in RequestRecord /\ UpdateGated(request[o], repo)
      BY DEF ManagerIInv, ManagerTypeOK
    <2>2. ~Lacks(request[o], "pull")
      <3>1. 1 \in DOMAIN request[o].plan /\ request[o].plan[1] = "pull"
        BY <2>1 DEF RequestRecord
      <3>2. QED
        BY <3>1 DEF Lacks
    <2>3. QED
      BY <2>1, <2>2 DEF UpdateGated, Trusted
  <1>2. QED
    BY <1>1, ManagerInvariant, PTL

\* On a host that is ready, the reports accept a checkout of the expected remote and no other.
LEMMA TrustedUpdates ==
    ASSUME ManagerTypeOK, PreflightReady
    PROVE  /\ (GateBlockers("update") = {}) <=> Trusted
           /\ (UpdateBlockers = {}) <=> Trusted
           /\ EnvironmentOk <=> Trusted
  <1>1. "git" \in tools /\ (\A c \in DOMAIN PreflightChecks : PreflightChecks[c])
    BY DEF PreflightReady, PreflightChecks
  <1>2. /\ RepoProvenance.exists <=> repo # "absent"
        /\ RepoProvenance.git <=> IsGit
        /\ (RepoProvenance.matches = "yes") <=> Trusted
        /\ (RepoProvenance.matches = "no") <=> IsGit /\ ~Trusted
    BY <1>1 DEF RepoProvenance, IsGit, Trusted
  <1>3. /\ Provenance.downloaded <=> IsGit
        /\ (Provenance.trusted = "no") <=> repo # "absent" /\ ~Trusted
    BY <1>2 DEF Provenance, IsGit, Trusted
  <1>4. (UpdateBlockers = {}) <=> Trusted
    BY <1>2 DEF UpdateBlockers, IsGit, Trusted
  <1>5. (GateBlockers("update") = {}) <=> Trusted
    <2>1. {c \in DOMAIN PreflightChecks : ~PreflightChecks[c]} = {}
      BY <1>1
    <2>2. GateBlockers("update") =
              {b \in {"not downloaded", "not trusted"} :
                  \/ b = "not downloaded" /\ ~Provenance.downloaded
                  \/ b = "not trusted" /\ Provenance.trusted = "no"}
      BY <2>1 DEF GateBlockers
    <2>3. QED
      BY <1>3, <2>2 DEF IsGit, Trusted
  <1>6. QED
    BY <1>3, <1>4, <1>5 DEF EnvironmentOk, Trusted

\* A completed install leaves a plugin whose update is let in, whatever other requests did
\* in the meantime (manager.py, plan and operation_gate).
THEOREM InstallsCanUpdate == Spec => []CompletedInstallsCanUpdate
  <1>1. ManagerIInv => CompletedInstallsCanUpdate
    <2> SUFFICES ASSUME ManagerIInv, NEW o \in Op,
                        request[o].state = "completed", request[o].action = "install",
                        ~request[o].touched, request[o].found \in {"absent", "ours"},
                        PreflightReady
                 PROVE  packages /\ GateBlockers("update") = {} /\ EnvironmentOk
      BY DEF CompletedInstallsCanUpdate
    <2>1. ManagerTypeOK /\ InstallKept(request[o], repo, packages)
      BY DEF ManagerIInv
    <2>2. request[o].plan = <<>>
      BY <2>1 DEF InstallKept
    <2>3. Lacks(request[o], "clone") /\ Lacks(request[o], "pip")
      BY <2>2 DEF Lacks
    <2>4. repo \in {"partial", "ours"} /\ packages
      BY <2>1, <2>3 DEF InstallKept
    <2>5. QED
      BY <2>1, <2>4, TrustedUpdates DEF Trusted
  <1>2. QED
    BY <1>1, ManagerInvariant, PTL

\* The reports of one host agree, whatever requests and people do to it (manager.py,
\* update_check, operation_gate and provenance; the environment of the hub).
THEOREM ReportsAlwaysAgree == Spec => []ReportsAgree
  <1>1. ManagerIInv => ReportsAgree
    <2> SUFFICES ASSUME ManagerTypeOK PROVE ReportsAgree
      BY DEF ManagerIInv
    <2>1. ASSUME PreflightReady
          PROVE  /\ (GateBlockers("update") = {}) <=> (UpdateBlockers = {})
                 /\ EnvironmentOk <=> (UpdateBlockers = {})
      BY <2>1, TrustedUpdates
    <2>2. ASSUME Provenance.blockers # {}
          PROVE  UpdateBlockers # {} /\ ~EnvironmentOk
      <3>1. \/ RepoProvenance.exists /\ ~RepoProvenance.git
            \/ RepoProvenance.matches = "no" /\ "git" \in tools
        BY <2>2 DEF Provenance
      <3>2. UpdateBlockers # {}
        BY <3>1 DEF UpdateBlockers
      <3>3. QED
        BY <3>2 DEF EnvironmentOk
    <2>3. Provenance.downloaded => IsInstalled
      BY DEF Provenance, RepoProvenance, IsInstalled
    <2>4. TransportGate => winpty \/ TransportPlan # <<>>
      BY DEF TransportGate, TransportPlan
    <2>5. QED
      BY <2>1, <2>2, <2>3, <2>4 DEF ReportsAgree
  <1>2. QED
    BY <1>1, ManagerInvariant, PTL

-----------------------------------------------------------------------------
(* The catalog *)

Less == {ss \in Nat \X Nat : ss[1] < ss[2]}

\* The order of the natural numbers is well-founded.
LEMMA LessWellFounded == IsWellFoundedOn(Less, Nat)
  BY NatLessThanWellFounded, Zenon DEF OpToRel, Less

\* Every set of natural numbers that is not empty has a least one: First is defined.
LEMMA HasLeast ==
    ASSUME NEW S \in SUBSET Nat, S # {}
    PROVE  \E m \in S : \A n \in S : m <= n
  <1>1. \E m \in S : \A n \in S : <<n, m>> \notin Less
    BY LessWellFounded, WFMin, Zenon
  <1>2. ASSUME NEW m \in S, NEW n \in S, <<n, m>> \notin Less
        PROVE  m <= n
    <2>1. m \in Nat /\ n \in Nat /\ ~(n < m)
      BY <1>2 DEF Less
    <2>2. QED
      BY <2>1
  <1>3. QED
    BY <1>1, <1>2, Zenon

\* The rank of i in S is the size of this set.
UpTo(S, i) == {j \in S : j <= i}

\* Every rank up to the size of a finite set of numbers is that of one of its members.
LEMMA HasRank ==
    ASSUME NEW n \in Nat, NEW S \in SUBSET (1..n), NEW k \in 1..Cardinality(S)
    PROVE  \E i \in S : Cardinality(UpTo(S, i)) = k
  <1> DEFINE rich == {i \in 0..n : Cardinality(UpTo(S, i)) >= k}
  <1>0. \A j \in S : j \in Nat /\ 1 <= j /\ j <= n
    OBVIOUS
  <1>1. IsFiniteSet(1..n)
    BY FS_Interval
  <1>2. IsFiniteSet(S)
    BY <1>1, FS_Subset
  <1>3. ASSUME NEW i \in 0..n PROVE IsFiniteSet(UpTo(S, i)) /\ Cardinality(UpTo(S, i)) \in Nat
    <2>1. UpTo(S, i) \subseteq S
      BY DEF UpTo
    <2>2. QED
      BY <1>2, <2>1, FS_Subset, FS_CardinalityType
  <1>4. Cardinality(S) \in Nat /\ k \in Nat /\ k >= 1 /\ k <= Cardinality(S)
    BY <1>2, FS_CardinalityType
  <1>5. n \in rich
    <2>1. UpTo(S, n) = S
      <3>1. \A j : j \in UpTo(S, n) <=> j \in S
        BY <1>0 DEF UpTo
      <3>2. QED
        BY <3>1
    <2>2. QED
      BY <1>4, <2>1
  <1>6. PICK m \in rich : \A i \in rich : m <= i
    <2>1. rich \in SUBSET Nat /\ rich # {}
      BY <1>5
    <2> HIDE DEF rich
    <2>2. QED
      BY <2>1, HasLeast
  <1>7. m # 0
    <2>1. UpTo(S, 0) = {}
      <3>1. SUFFICES ASSUME NEW j \in UpTo(S, 0) PROVE FALSE
        OBVIOUS
      <3>2. j \in S /\ j <= 0
        BY DEF UpTo
      <3>3. QED
        BY <1>0, <3>2
    <2>2. Cardinality(UpTo(S, 0)) = 0
      BY <2>1, FS_EmptySet
    <2>3. QED
      BY <1>4, <2>2
  <1>8. m \in 1..n /\ m - 1 \in 0..n
    BY <1>7
  <1>9. Cardinality(UpTo(S, m - 1)) < k
    <2>1. m - 1 \notin rich
      <3>1. ~(m <= m - 1)
        BY <1>8
      <3>2. QED
        BY <1>6, <3>1, Zenon
    <2>2. ~(Cardinality(UpTo(S, m - 1)) >= k)
      BY <1>8, <2>1
    <2>3. QED
      BY <1>3, <1>4, <1>8, <2>2
  <1>10. m \in S
    <2>1. SUFFICES ASSUME m \notin S PROVE FALSE
      OBVIOUS
    <2>2. UpTo(S, m) = UpTo(S, m - 1)
      <3>1. \A j \in Nat : j # m => (j <= m <=> j <= m - 1)
        BY <1>8
      <3>2. \A j \in S : j <= m <=> j <= m - 1
        BY <1>0, <2>1, <3>1
      <3>3. QED
        BY <3>2, Zenon DEF UpTo
    <2>3. Cardinality(UpTo(S, m)) >= k
      OBVIOUS
    <2>4. QED
      BY <1>3, <1>4, <1>8, <1>9, <2>2, <2>3
  <1>11. Cardinality(UpTo(S, m)) = Cardinality(UpTo(S, m - 1)) + 1
    <2>1. UpTo(S, m) = UpTo(S, m - 1) \cup {m} /\ m \notin UpTo(S, m - 1)
      <3>1. m <= m /\ ~(m <= m - 1) /\ \A j \in Nat : j # m => (j <= m <=> j <= m - 1)
        BY <1>8
      <3>2. \A j \in S : j # m => (j <= m <=> j <= m - 1)
        BY <1>0, <3>1
      <3>3. QED
        BY <1>10, <3>1, <3>2, Zenon DEF UpTo
    <2>2. QED
      BY <1>3, <1>8, <2>1, FS_AddElement
  <1>12. Cardinality(UpTo(S, m)) >= k
    OBVIOUS
  <1>13. Cardinality(UpTo(S, m)) = k
    <2>1. QED
      BY <1>3, <1>4, <1>8, <1>9, <1>11, <1>12
  <1>14. QED
    BY <1>10, <1>13

\* If a set of numbers holds the first n, those are the ones of rank 1 to n.
LEMMA RankOfFirst ==
    ASSUME NEW n \in Nat, NEW S \in SUBSET (1..n), NEW f \in Nat, 1..f \subseteq S
    PROVE  /\ f <= Cardinality(S)
           /\ \A k \in 1..f : \A i \in S : Cardinality(UpTo(S, i)) = k => i = k
  <1>0. \A j \in S : j \in Nat /\ 1 <= j /\ j <= n
    OBVIOUS
  <1>1. IsFiniteSet(1..n) /\ IsFiniteSet(1..f)
    BY FS_Interval
  <1>2. IsFiniteSet(S) /\ Cardinality(S) \in Nat
    BY <1>1, FS_Subset, FS_CardinalityType
  <1>3. \A k \in Nat : IsFiniteSet(1..k) /\ Cardinality(1..k) = k
    <2> SUFFICES ASSUME NEW k \in Nat PROVE IsFiniteSet(1..k) /\ Cardinality(1..k) = k
      OBVIOUS
    <2>1. IsFiniteSet(1..k) /\ Cardinality(1..k) = IF 1 > k THEN 0 ELSE k - 1 + 1
      BY FS_Interval
    <2>2. QED
      BY <2>1
  <1>4. f <= Cardinality(S)
    BY <1>2, <1>3, FS_Subset
  <1>5. ASSUME NEW k \in 1..f, NEW i \in S, Cardinality(UpTo(S, i)) = k PROVE i = k
    <2>1. UpTo(S, i) \subseteq S /\ IsFiniteSet(UpTo(S, i))
      BY <1>2, FS_Subset DEF UpTo
    <2>2. CASE i < k
      <3>1. UpTo(S, i) \subseteq 1..i /\ i \in Nat
        <4>1. SUFFICES ASSUME NEW j \in UpTo(S, i) PROVE j \in 1..i
          OBVIOUS
        <4>2. j \in S /\ j <= i
          BY DEF UpTo
        <4>3. QED
          BY <1>0, <4>2
      <3>2. Cardinality(UpTo(S, i)) <= i
        BY <1>3, <3>1, FS_Subset
      <3>3. QED
        BY <1>5, <2>2, <3>2
    <2>3. CASE i > k
      <3>1. (1..k) \cup {i} \subseteq UpTo(S, i) /\ i \notin 1..k /\ k \in Nat
        BY <2>3 DEF UpTo
      <3>2. Cardinality((1..k) \cup {i}) = k + 1
        <4>1. IsFiniteSet(1..k) /\ Cardinality(1..k) = k
          BY <1>3, <3>1
        <4>2. QED
          BY <3>1, <4>1, FS_AddElement, Zenon
      <3>3. Cardinality((1..k) \cup {i}) <= Cardinality(UpTo(S, i))
        BY <2>1, <3>1, FS_Subset
      <3>4. QED
        BY <1>5, <3>2, <3>3
    <2>4. QED
      BY <2>2, <2>3
  <1>6. QED
    BY <1>4, <1>5

\* An operation has the parts of one; it is plain, or it asks before it acts.
Descriptor(op) ==
    op \in [id : {op.id}, kind : {op.kind}, api : {op.api}, inputs : {op.inputs},
            schema : {op.schema}, object : {op.object}, command : {op.command},
            confirm : {op.confirm}, effects : {op.effects}, says : {op.says}]
Plain(operation) ==
    operation.says = "absent" /\ ~HasEffects(operation.kind)
Guarded(operation) ==
    operation.says = "true" /\ HasEffects(operation.kind) /\ "--yes" \in operation.command.flags
Shaped(op) == Descriptor(op) /\ (Plain(op) \/ Guarded(op))

\* An operation Reads builds has no effects and says nothing of a confirmation.
LEMMA ReadsIsPlain ==
    ASSUME NEW id, NEW kind \in {"report", "gate", "plan"}, NEW api, NEW inputs, NEW verb
    PROVE  /\ Reads(id, kind, api, inputs, verb).id = id
           /\ Shaped(Reads(id, kind, api, inputs, verb))
  <1>1. Reads(id, kind, api, inputs, verb) =
          [id |-> id, kind |-> kind, api |-> api, inputs |-> inputs, schema |-> {},
           object |-> TRUE, command |-> [verb |-> verb, flags |-> {}], confirm |-> FALSE,
           effects |-> FALSE, says |-> "absent"]
    BY DEF Reads, Operation
  <1>2. ~HasEffects(kind)
    BY DEF HasEffects
  <1>5. Reads(id, kind, api, inputs, verb).id = id
    BY <1>1
  <1>6. Plain(Reads(id, kind, api, inputs, verb))
    BY <1>1, <1>2 DEF Plain
  <1>7. Descriptor(Reads(id, kind, api, inputs, verb))
   BY <1>1 DEF Descriptor
  <1>8. QED
   BY <1>5, <1>6, <1>7 DEF Shaped

\* An operation Acts builds has effects, says it is confirmed, and its command has --yes.
LEMMA ActsIsGuarded ==
    ASSUME NEW id, NEW kind \in {"execute", "write"}, NEW inputs, NEW verb,
           NEW flags, "--yes" \in flags
    PROVE  /\ Acts(id, kind, inputs, verb, flags).id = id
           /\ Shaped(Acts(id, kind, inputs, verb, flags))
  <1>1. Acts(id, kind, inputs, verb, flags) =
          [id |-> id, kind |-> kind, api |-> "POST", inputs |-> inputs, schema |-> {},
           object |-> TRUE, command |-> [verb |-> verb, flags |-> flags], confirm |-> TRUE,
           effects |-> TRUE, says |-> "true"]
    BY DEF Acts, Operation
  <1>2. HasEffects(kind)
    BY DEF HasEffects
  <1>5. Acts(id, kind, inputs, verb, flags).id = id
    BY <1>1
  <1>6. Guarded(Acts(id, kind, inputs, verb, flags))
    BY <1>1, <1>2 DEF Guarded
  <1>7. Descriptor(Acts(id, kind, inputs, verb, flags))
   BY <1>1 DEF Descriptor
  <1>8. QED
   BY <1>5, <1>6, <1>7 DEF Shaped

GenericIds ==
    <<"info", "preflight", "provenance", "check-update", "install-gate", "update-gate",
      "install-plan", "update-plan", "verify-plan", "install-execute", "update-execute">>

\* The ids of the generic operations differ: deduplication drops none of them.
LEMMA GenericIdsDiffer ==
    ASSUME NEW i \in 1..11, NEW j \in 1..11, i # j
    PROVE  GenericIds[i] # GenericIds[j]
  BY DEF GenericIds

Generic == GenericOperations(Bundled)
Provided == ProviderOperations(Bundled)


\* The eleven generic operations, by their ids, are plain or guarded.
LEMMA GenericShape ==
    /\ Generic \in Seq({Generic[i] : i \in 1..11}) /\ Len(Generic) = 11
    /\ \A i \in 1..11 : Generic[i].id = GenericIds[i] /\ Shaped(Generic[i])
  <1>1. Len(Generic) = 11 /\ Generic \in Seq({Generic[i] : i \in 1..11})
    BY DEF Generic, GenericOperations, Bundled
  <1>2. ASSUME NEW i \in 1..11
        PROVE  Generic[i].id = GenericIds[i] /\ Shaped(Generic[i])
    <2> USE ReadsIsPlain, ActsIsGuarded DEF Generic, GenericOperations, Bundled, GenericIds
    <2>1. CASE i = 1
      BY <2>1
    <2>2. CASE i = 2
      BY <2>2
    <2>3. CASE i = 3
      BY <2>3
    <2>4. CASE i = 4
      BY <2>4
    <2>5. CASE i = 5
      BY <2>5
    <2>6. CASE i = 6
      BY <2>6
    <2>7. CASE i = 7
      BY <2>7
    <2>8. CASE i = 8
      BY <2>8
    <2>9. CASE i = 9
      BY <2>9
    <2>10. CASE i = 10
      BY <2>10
    <2>11. CASE i = 11
      BY <2>11
    <2>12. QED
      BY <2>1, <2>2, <2>3, <2>4, <2>5, <2>6, <2>7, <2>8, <2>9, <2>10, <2>11
  <1>3. QED
    BY <1>1, <1>2

\* So are the seventeen of the provider.
LEMMA ProvidedShape ==
    /\ Provided \in Seq({Provided[i] : i \in 1..17}) /\ Len(Provided) = 17
    /\ \A i \in 1..17 : Shaped(Provided[i])
  <1>1. Len(Provided) = 17 /\ Provided \in Seq({Provided[i] : i \in 1..17})
    BY DEF Provided, ProviderOperations, Bundled
  <1>2. ASSUME NEW i \in 1..17
        PROVE  Shaped(Provided[i])
    <2> USE ReadsIsPlain, ActsIsGuarded DEF Provided, ProviderOperations, Bundled
    <2>1. CASE i = 1
      BY <2>1
    <2>2. CASE i = 2
      BY <2>2
    <2>3. CASE i = 3
      BY <2>3
    <2>4. CASE i = 4
      BY <2>4
    <2>5. CASE i = 5
      BY <2>5
    <2>6. CASE i = 6
      BY <2>6
    <2>7. CASE i = 7
      BY <2>7
    <2>8. CASE i = 8
      BY <2>8
    <2>9. CASE i = 9
      BY <2>9
    <2>10. CASE i = 10
      BY <2>10
    <2>11. CASE i = 11
      BY <2>11
    <2>12. CASE i = 12
      BY <2>12
    <2>13. CASE i = 13
      BY <2>13
    <2>14. CASE i = 14
      BY <2>14
    <2>15. CASE i = 15
      BY <2>15
    <2>16. CASE i = 16
      BY <2>16
    <2>17. CASE i = 17
      BY <2>17
    <2>18. QED
      BY <2>1, <2>2, <2>3, <2>4, <2>5, <2>6, <2>7, <2>8, <2>9, <2>10, <2>11, <2>12, <2>13, <2>14, <2>15, <2>16, <2>17
  <1>3. QED
    BY <1>1, <1>2

\* What is needed of intervals of numbers.
LEMMA Intervals ==
    /\ \A f \in Nat : \A i \in 1..f : \A j \in 1..(i - 1) : j \in 1..f /\ j # i
    /\ \A f, n \in Nat : f <= n => 1..f \subseteq 1..n
    /\ \A n \in Nat : IsFiniteSet(1..n)
  BY FS_Interval

\* Deduplication keeps operations of the list only, and the first ones if their ids differ.
LEMMA DedupedKeeps ==
    ASSUME NEW S, NEW ops \in Seq(S), NEW f \in Nat, f <= Len(ops),
           \A i \in 1..f : ops[i].id # "",
           \A i, j \in 1..f : i # j => ops[i].id # ops[j].id
    PROVE  /\ \A k \in DOMAIN Deduped(ops) : \E i \in DOMAIN ops : Deduped(ops)[k] = ops[i]
           /\ 1..f \subseteq DOMAIN Deduped(ops)
           /\ \A k \in 1..f : Deduped(ops)[k] = ops[k]
  <1> DEFINE kept == {i \in DOMAIN ops :
                         /\ ops[i].id # ""
                         /\ \A j \in 1..(i - 1) : ops[j].id # ops[i].id}
             chosen(k) == CHOOSE i \in kept : Cardinality(UpTo(kept, i)) = k
  <1>1. Deduped(ops) = [k \in 1..Cardinality(kept) |-> ops[chosen(k)]]
    BY DEF Deduped, UpTo
  <1>2. Len(ops) \in Nat /\ DOMAIN ops = 1..Len(ops) /\ kept \in SUBSET (1..Len(ops))
    <2>1. Len(ops) \in Nat /\ DOMAIN ops = 1..Len(ops)
      BY LenProperties, Zenon
    <2>2. kept \subseteq DOMAIN ops
      BY Zenon
    <2>3. QED
      BY <2>1, <2>2, Zenon
  <1>3. 1..f \subseteq kept
    <2> SUFFICES ASSUME NEW i \in 1..f PROVE i \in kept
      OBVIOUS
    <2>1. i \in DOMAIN ops /\ ops[i].id # ""
      BY <1>2, Intervals, Zenon
    <2>2. ASSUME NEW j \in 1..(i - 1) PROVE ops[j].id # ops[i].id
      <3>1. j \in 1..f /\ j # i
        BY Intervals, Zenon
      <3>2. QED
        BY <3>1
    <2>3. QED
      BY <2>1, <2>2
  <1> HIDE DEF kept
  <1>4. ASSUME NEW k \in 1..Cardinality(kept)
        PROVE  chosen(k) \in kept /\ Cardinality(UpTo(kept, chosen(k))) = k
    <2>1. \E i \in kept : Cardinality(UpTo(kept, i)) = k
      BY <1>2, HasRank
    <2>2. QED
      BY <2>1, Zenon
  <1>5. /\ f <= Cardinality(kept)
        /\ \A k \in 1..f : \A i \in kept : Cardinality(UpTo(kept, i)) = k => i = k
    BY <1>2, <1>3, RankOfFirst
  <1>6. Cardinality(kept) \in Nat
    <2>1. IsFiniteSet(1..Len(ops))
      BY <1>2, Intervals, Zenon
    <2>2. QED
      BY <1>2, <2>1, FS_Subset, FS_CardinalityType
  <1> HIDE DEF chosen
  <1>7. \A k \in DOMAIN Deduped(ops) : \E i \in DOMAIN ops : Deduped(ops)[k] = ops[i]
    BY <1>1, <1>2, <1>4
  <1>8. 1..f \subseteq 1..Cardinality(kept)
    BY <1>5, <1>6, Intervals, Zenon
  <1>9. ASSUME NEW k \in 1..f PROVE Deduped(ops)[k] = ops[k]
    <2>1. chosen(k) \in kept /\ Cardinality(UpTo(kept, chosen(k))) = k
      BY <1>4, <1>8
    <2>2. chosen(k) = k
      BY <1>5, <2>1
    <2>3. QED
      BY <1>1, <1>8, <2>2
  <1>10. QED
    BY <1>1, <1>7, <1>8, <1>9

\* Enrichment leaves the kind of an operation and what it says of a confirmation.
LEMMA EnrichedKeeps ==
    ASSUME NEW op, Descriptor(op)
    PROVE  /\ Enriched(op).kind = op.kind /\ Enriched(op).says = op.says
           /\ Enriched(op).command = op.command
  BY DEF Enriched, Descriptor

\* An operation whose catalog is valid is dispatched only as its caller confirmed.
LEMMA ValidConfirms ==
    ASSUME NEW op, NEW errors, NEW builtIn \in BOOLEAN, OperationErrors(op) \subseteq errors,
           op.says \in Says,
           builtIn => Plain(op) \/ Guarded(op)
    PROVE  Confirms(op, errors, builtIn)
  <1> SUFFICES ASSUME NEW given \in SUBSET {"harness", "module", "confirmed"},
                      NEW answer \in {"true", "false", "falsy"}, NEW confirmed \in BOOLEAN
               PROVE  LET plan == OperationPlan(errors, op, given, answer, confirmed) IN
                      /\ plan.ready /\ HasEffects(op.kind) =>
                            /\ confirmed
                            /\ \/ plan.request.method = "none"
                               \/ /\ plan.request.method = "POST"
                                  /\ CarriedOut(plan.request) \/ op.says \in {"asked", "falsy"}
                      /\ plan.ready /\ builtIn /\ ~confirmed => plan.request.confirmed = "absent"
    BY Zenon DEF Confirms
  <1> DEFINE plan == OperationPlan(errors, op, given, answer, confirmed)
             resolved == ResolvedConfirmed(op, answer, confirmed)
  <1>1. /\ plan.ready => errors = {} /\ (HasEffects(op.kind) => confirmed)
        /\ plan.request = RequestOf(op, resolved)
    BY DEF OperationPlan
  <1>2. /\ RequestOf(op, resolved).method = IF op.api = "none" THEN "none" ELSE op.api
        /\ RequestOf(op, resolved).confirmed = IF op.api = "none" THEN "absent" ELSE resolved
    BY DEF RequestOf
  <1> HIDE DEF plan
  <1>3. ASSUME plan.ready, HasEffects(op.kind)
        PROVE  /\ confirmed
               /\ \/ plan.request.method = "none"
                  \/ /\ plan.request.method = "POST"
                     /\ CarriedOut(plan.request) \/ op.says \in {"asked", "falsy"}
    <2>1. errors = {} /\ confirmed /\ OperationErrors(op) = {}
      BY <1>1, <1>3
    <2>2. op.says # "false"
      BY <1>3, <2>1 DEF OperationErrors
    <2>3. op.api = "none" \/ op.api = "POST"
      <3>1. op.api # "none" => ApiErrors(op) = {}
        BY <2>1 DEF OperationErrors
      <3>2. QED
        BY <1>3, <3>1 DEF ApiErrors
    <2>4. resolved = "true" \/ op.says \in {"asked", "falsy"}
      BY <1>3, <2>1, <2>2 DEF ResolvedConfirmed, Says
    <2> HIDE DEF resolved
    <2>5. QED
      BY <1>1, <1>2, <2>1, <2>3, <2>4 DEF CarriedOut
  <1>4. ASSUME plan.ready, builtIn, ~confirmed PROVE plan.request.confirmed = "absent"
    <2>1. ~HasEffects(op.kind) /\ op.says = "absent"
      BY <1>1, <1>4 DEF Plain, Guarded
    <2>2. resolved = "absent"
      BY <2>1 DEF ResolvedConfirmed
    <2> HIDE DEF resolved
    <2>3. QED
      BY <1>1, <1>2, <2>2
  <1>5. QED
    BY <1>3, <1>4 DEF plan

\* A longer list begins like the shorter one.
LEMMA LongerKeeps ==
    ASSUME NEW S, NEW s \in Seq(S), NEW t \in Seq(S), NEW f \in Nat, f <= Len(s)
    PROVE  f <= Len(s \o t) /\ \A k \in 1..f : (s \o t)[k] = s[k]
  <1>1. Len(s) \in Nat /\ Len(t) \in Nat
    OBVIOUS
  <1>2. /\ Len(s \o t) = Len(s) + Len(t)
        /\ \A i \in 1..(Len(s) + Len(t)) :
               (s \o t)[i] = IF i <= Len(s) THEN s[i] ELSE t[i - Len(s)]
    BY ConcatProperties, Zenon
  <1>3. QED
    BY <1>1, <1>2

\* Whatever a manifest declares, its catalog is that of the code, and its own besides.
LEMMA CatalogShape ==
    ASSUME NEW declared \in Seq(OperationRecord)
    PROVE  /\ \A k \in DOMAIN Catalog(Bundled, declared) :
                  \E op : /\ Descriptor(op) /\ op.says \in Says
                          /\ Catalog(Bundled, declared)[k] = Enriched(op)
           /\ 1..11 \subseteq DOMAIN Catalog(Bundled, declared)
           /\ \A k \in 1..11 : Catalog(Bundled, declared)[k] = Enriched(Generic[k])
  <1> DEFINE S == OperationRecord \cup {Generic[i] : i \in 1..11} \cup {Provided[i] : i \in 1..17}
             all == Generic \o declared \o Provided
  <1>1. Generic \in Seq(S) /\ declared \in Seq(S) /\ Provided \in Seq(S)
    BY GenericShape, ProvidedShape, SeqMonotonic
  <1>2. ASSUME NEW op \in S
        PROVE  Descriptor(op) /\ op.says \in Says
    <2>1. CASE op \in OperationRecord
      BY <2>1 DEF OperationRecord, Descriptor
    <2>2. CASE op \notin OperationRecord
      <3>1. Shaped(op)
        BY <2>2, GenericShape, ProvidedShape
      <3>2. QED
        BY <3>1 DEF Shaped, Plain, Guarded, Says
    <2>3. QED
      BY <2>1, <2>2
  <1> HIDE DEF S
  <1>3. Generic \o declared \in Seq(S) /\ all \in Seq(S)
    BY <1>1, ConcatProperties
  <1>4. 11 <= Len(Generic \o declared) /\ \A k \in 1..11 : (Generic \o declared)[k] = Generic[k]
    <2>1. 11 \in Nat /\ 11 <= Len(Generic)
      BY GenericShape
    <2>2. QED
      BY <1>1, <2>1, LongerKeeps, Zenon
  <1>5. 11 <= Len(all) /\ \A k \in 1..11 : all[k] = Generic[k]
    BY <1>1, <1>3, <1>4, LongerKeeps
  <1> HIDE DEF all
  <1>6. /\ \A k \in DOMAIN Deduped(all) : \E i \in DOMAIN all : Deduped(all)[k] = all[i]
        /\ 1..11 \subseteq DOMAIN Deduped(all)
        /\ \A k \in 1..11 : Deduped(all)[k] = all[k]
    <2>1. \A i \in 1..11 : all[i].id = GenericIds[i]
      BY <1>5, GenericShape, Zenon
    <2>2. \A i \in 1..11 : GenericIds[i] # ""
      <3> DEFINE ids == {"info", "preflight", "provenance", "check-update", "install-gate",
                         "update-gate", "install-plan", "update-plan", "verify-plan",
                         "install-execute", "update-execute"}
      <3>1. \A i \in 1..11 : GenericIds[i] \in ids
        BY DEF GenericIds
      <3>2. "" \notin ids
        BY Zenon
      <3>3. QED
        BY <3>1, <3>2, Zenon
    <2>3. \A i, j \in 1..11 : i # j => all[i].id # all[j].id
      BY <2>1, GenericIdsDiffer, Zenon
    <2>4. \A i \in 1..11 : all[i].id # ""
      BY <2>1, <2>2, Zenon
    <2>5. 11 \in Nat /\ 11 <= Len(all)
      BY <1>3, <1>5
    <2>6. QED
      BY <1>3, <2>3, <2>4, <2>5, DedupedKeeps, Zenon
  <1>7. Catalog(Bundled, declared) = [k \in DOMAIN Deduped(all) |-> Enriched(Deduped(all)[k])]
    BY DEF Catalog, all, Generic, Provided
  <1>8. ASSUME NEW k \in DOMAIN Deduped(all)
        PROVE  Deduped(all)[k] \in S
    BY <1>3, <1>6
  <1>9. DOMAIN Catalog(Bundled, declared) = DOMAIN Deduped(all)
    BY <1>7
  <1>10. ASSUME NEW k \in 1..11
         PROVE  Catalog(Bundled, declared)[k] = Enriched(Generic[k])
    <2>1. k \in DOMAIN Deduped(all) /\ Deduped(all)[k] = Generic[k]
      BY <1>5, <1>6, Zenon
    <2>2. QED
      BY <1>7, <2>1, Zenon
  <1>11. \A k \in DOMAIN Deduped(all) : Catalog(Bundled, declared)[k] = Enriched(Deduped(all)[k])
    BY <1>7
  <1>12. QED
    BY <1>2, <1>6, <1>8, <1>9, <1>10, <1>11, Zenon

\* The built-in operations are plain or guarded.
LEMMA BuiltInShape ==
    ASSUME NEW op \in BuiltIn
    PROVE  Plain(op) \/ Guarded(op)
  <1> DEFINE S == {Generic[i] : i \in 1..11} \cup {Provided[i] : i \in 1..17}
             all == Generic \o Provided
  <1>1. Generic \in Seq(S) /\ Provided \in Seq(S)
    BY GenericShape, ProvidedShape, SeqMonotonic
  <1>2. ASSUME NEW raw \in S PROVE Shaped(raw)
    BY GenericShape, ProvidedShape
  <1> HIDE DEF S
  <1>3. all \in Seq(S)
    BY <1>1
  <1>4. PICK k \in DOMAIN all : op = Enriched(all[k])
    BY DEF BuiltIn, Generic, Provided
  <1> HIDE DEF all
  <1>5. Shaped(all[k])
    BY <1>2, <1>3
  <1>6. QED
    BY <1>4, <1>5, EnrichedKeeps DEF Shaped, Plain, Guarded

\* Whatever operations a manifest declares, the catalog built from it is safe.
LEMMA EveryManifestIsSafe ==
    ASSUME NEW m \in OwnManifest
    PROVE  SafeManifest(m)
  <1> DEFINE catalog == Catalog(Bundled, m.operations)
             errors == CatalogErrors(m.version, catalog)
             builtIn == {k \in DOMAIN catalog : catalog[k] \in BuiltIn}
  <1>1. /\ \A k \in DOMAIN catalog :
               \E op : /\ Descriptor(op) /\ op.says \in Says
                       /\ catalog[k] = Enriched(op)
        /\ 1..11 \subseteq DOMAIN catalog
        /\ \A k \in 1..11 : catalog[k] = Enriched(Generic[k])
    BY ManifestAssumption, CatalogShape
  <1> HIDE DEF catalog
  <1>2. ASSUME NEW k \in DOMAIN catalog PROVE Confirms(catalog[k], errors, k \in builtIn)
    <2>1. OperationErrors(catalog[k]) \subseteq errors
      BY DEF CatalogErrors
    <2>2. catalog[k].says \in Says
      BY <1>1, EnrichedKeeps
    <2>3. k \in builtIn => Plain(catalog[k]) \/ Guarded(catalog[k])
      BY BuiltInShape
    <2> HIDE DEF errors, builtIn
    <2>4. (k \in builtIn) \in BOOLEAN
      OBVIOUS
    <2>5. QED
      BY <2>1, <2>2, <2>3, <2>4, ValidConfirms
  <1>3. \A k \in DOMAIN GenericOperations(Bundled) :
            catalog[k] = Enriched(GenericOperations(Bundled)[k])
    BY <1>1, GenericShape DEF Generic
  <1>4. ASSUME NEW k \in builtIn, HasEffects(catalog[k].kind)
        PROVE  ~SafeToRun(catalog[k].command)
    <2>1. Guarded(catalog[k])
      BY <1>4, BuiltInShape DEF Plain
    <2>2. QED
      BY <2>1 DEF Guarded, SafeToRun
  <1>5. QED
    BY <1>2, <1>3, <1>4 DEF SafeManifest, catalog

\* What a plan says can be verified afterwards is all safe to run.
LEMMA PlansVerify ==
    ASSUME NEW action \in {"install", "update", "transport"}
    PROVE  VerifyPlan(action, TRUE).ready
  <1> DEFINE commands == VerificationCommands(action)
  <1>1. ASSUME NEW i \in DOMAIN commands PROVE SafeToRun(commands[i])
    <2>1. CASE action = "transport"
      BY <2>1 DEF VerificationCommands, SafeToRun
    <2>2. CASE action # "transport"
      BY <2>2 DEF VerificationCommands, SafeToRun, ReadOnlyVerb
    <2>3. QED
      BY <2>1, <2>2
  <1> HIDE DEF commands
  <1>2. VerificationReport(commands, TRUE, DOMAIN commands).ready
    BY <1>1 DEF VerificationReport
  <1>3. QED
    BY <1>2 DEF VerifyPlan, commands

\* An operation with effects is ready for dispatch only if its caller confirmed it, its
\* request is then carried out unless the manifest asks or writes a falsy literal, and no
\* manifest replaces a generic operation, whatever the registered manifest declares and however long
\* it is (manager.py, the operation catalog).
THEOREM CatalogAlwaysSafe == Spec => []CatalogIsSafe
  <1>1. ManagerIInv => CatalogIsSafe
    BY EveryManifestIsSafe, PlansVerify DEF ManagerIInv, ManagerTypeOK, CatalogIsSafe
  <1>2. QED
    BY <1>1, ManagerInvariant, PTL
==============================================================================
