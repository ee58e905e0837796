---------------------------- MODULE WorkflowProofs ----------------------------
(***************************************************************************)
(* What workflow runs guarantee for every document, any number of sessions *)
(* and runs, and whatever outputs and decisions: proofs about Workflow.    *)
(***************************************************************************)
EXTENDS Workflow, FiniteSetTheorems, WellFoundedInduction, NaturalsInduction, TLAPS

-----------------------------------------------------------------------------
(* The graph.                                                              *)

LEMMA TaskFacts ==
    ASSUME flow \in Flow, NEW t \in Ids
    PROVE  TheTask(t) \in Node /\ \E i \in DOMAIN flow : TheTask(t) = flow[i]
  <1>1. \E i \in DOMAIN flow : flow[i].id = t
    BY DEF Ids
  <1>2. (CHOOSE i \in DOMAIN flow : flow[i].id = t) \in DOMAIN flow
    BY <1>1
  <1>3. \A i \in DOMAIN flow : flow[i] \in Node
    BY FlowAssumption
  <1>4. QED
    BY <1>2, <1>3 DEF TheTask

LEMMA IdsAreTaskIds == flow \in Flow => Ids \subseteq TaskId
  <1>1. flow \in Flow => \A i \in DOMAIN flow : flow[i] \in Node
    BY FlowAssumption
  <1>2. QED
    BY <1>1 DEF Ids, Node

\* What a well-formed document's task needs is in the document, and so is what its
\* arguments come from.
LEMMA NeedsAreIds ==
    ASSUME flow \in Flow, WellFormed, NEW t \in Ids
    PROVE  TheTask(t).needs \subseteq Ids /\ TheTask(t).argsFrom \subseteq Ids
  BY TaskFacts DEF WellFormed

\* The values a session's selectors may find make an argument vector.
LEMMA ArgumentsType ==
    ASSUME flow \in Flow, NEW s \in Session, Current(s) \in Ids
    PROVE  Arguments(s) \subseteq ArgVector
  <1>1. TheTask(Current(s)).argsFrom \subseteq TaskId
    BY TaskFacts DEF Node
  <1>2. QED
    BY <1>1 DEF Arguments, ArgVector

LEMMA NoArgsType == NoArgs \in ArgVector
  <1>1. NoArgs \in [{} -> Value]
    BY DEF NoArgs
  <1>2. QED
    BY <1>1 DEF ArgVector

-----------------------------------------------------------------------------
(* A run.                                                                  *)

LEMMA FreshType ==
    ASSUME TypeOK, NEW dry \in BOOLEAN, NEW confirmed \in BOOLEAN
    PROVE  Fresh(dry, confirmed) \in Locals
  <1>1. Ids \subseteq TaskId /\ NoArgs \in ArgVector
    BY IdsAreTaskIds, NoArgsType DEF TypeOK
  <1>2. runs + 1 \in Nat /\ approvalId \in [TaskId -> Nat \cup {NoApproval}]
    BY FlowAssumption DEF TypeOK
  <1>3. QED
    BY <1>1, <1>2 DEF Fresh, Locals

\* A session that is at a task is at one of the document's.
LEMMA CurrentIsTask ==
    ASSUME FlowIInv, NEW s \in Session, AtCall(s) \/ AtTask(s)
    PROVE  /\ Len(run[s].results) + 1 \in DOMAIN run[s].order
           /\ Current(s) \in Ids /\ Current(s) \in TaskId
           /\ run[s] \in Locals
  <1>1. run[s] \in Locals /\ RunHonest(run[s], pc[s]) /\ flow \in Flow
    BY DEF FlowIInv, TypeOK
  <1>2. Len(run[s].results) < Len(run[s].order)
    BY <1>1 DEF RunHonest, AtTask, AtCall
  <1>3. Len(run[s].results) + 1 \in DOMAIN run[s].order
    BY <1>1, <1>2 DEF Locals
  <1>4. Current(s) \in {run[s].order[i] : i \in DOMAIN run[s].order}
    BY <1>3 DEF Current
  <1>5. Current(s) \in Ids
    BY <1>1, <1>4 DEF RunHonest, OrderHonest, AtTask, AtCall
  <1>6. QED
    BY <1>1, <1>3, <1>5, IdsAreTaskIds

LEMMA ScopeType ==
    ASSUME FlowIInv, NEW s \in Session, AtCall(s)
    PROVE  Scope(s) \in Scopes
  BY CurrentIsTask DEF Scope, Scopes, Locals, Dry

\* A stopped run's report is one.
LEMMA StoppedType ==
    ASSUME FlowIInv, NEW s \in Session, AtCall(s) \/ AtTask(s),
           NEW status \in {"failed", "setup_required", "blocked"}
    PROVE  /\ Stopped(s, Current(s), status) \in Locals
           /\ Stopped(s, Current(s), status).approvals = run[s].approvals
           /\ Stopped(s, Current(s), status).status # "none"
           /\ Stopped(s, Current(s), status).remaining = run[s].remaining
           /\ Stopped(s, Current(s), status).batch = run[s].batch
           /\ Stopped(s, Current(s), status).order = run[s].order
  <1> DEFINE r == run[s]
             done == Len(r.results)
             results == [i \in 1..Len(r.order) |->
                IF i <= done THEN r.results[i]
                ELSE IF i = done + 1 THEN Result(Current(s), status, "none")
                ELSE Result(r.order[i], "skipped", "none")]
  <1>1. r \in Locals /\ Current(s) \in TaskId
    BY CurrentIsTask
  <1>2. r.order \in Seq(TaskId) /\ r.results \in Seq(TaskResult)
    BY <1>1 DEF Locals
  <1>3. \A i \in 1..Len(r.order) : results[i] \in TaskResult
    <2> TAKE i \in 1..Len(r.order)
    <2>1. CASE i <= done
      <3>1. i \in 1..Len(r.results)
        BY <1>2, <2>1
      <3>2. QED
        BY <1>2, <2>1, <3>1
    <2>2. CASE ~(i <= done)
      BY <1>1, <1>2, <2>2 DEF Result, TaskResult
    <2>3. QED
      BY <2>1, <2>2
  <1>4. results \in Seq(TaskResult)
    <2>1. Len(r.order) \in Nat
      BY <1>2
    <2> HIDE DEF r, results
    <2>2. results \in [1..Len(r.order) -> TaskResult]
      BY <1>3 DEF results
    <2>3. QED
      BY <2>1, <2>2
  <1> DEFINE r1 == [r EXCEPT !.results = results]
             r2 == [r1 EXCEPT !.status = IF status = "blocked" THEN "blocked" ELSE "failed"]
             r3 == [r2 EXCEPT !.stoppedBy = {Current(s)}]
  <1>5. Stopped(s, Current(s), status) = r3
    BY DEF Stopped
  <1> HIDE DEF results, r, done
  <1>6. r1 \in Locals /\ r1.approvals = r.approvals
        /\ r1.remaining = r.remaining /\ r1.batch = r.batch /\ r1.order = r.order
    BY <1>1, <1>4 DEF Locals
  <1> HIDE DEF r1
  <1>7. r2 \in Locals /\ r2.approvals = r.approvals /\ r2.status # "none"
        /\ r2.remaining = r.remaining /\ r2.batch = r.batch /\ r2.order = r.order
    BY <1>6 DEF Locals
  <1> HIDE DEF r2
  <1>8. r3 \in Locals /\ r3.approvals = r.approvals /\ r3.status # "none"
        /\ r3.remaining = r.remaining /\ r3.batch = r.batch /\ r3.order = r.order
    BY <1>1, <1>7 DEF Locals
  <1>9. QED
    BY <1>5, <1>8 DEF r

-----------------------------------------------------------------------------
(* Steps.                                                                  *)

Places == {"idle", "ordering", "between", "calling", "consuming", "started", "running",
           "ended", "rejected", "aborted"}

InProgress == CallPlaces \cup {"ordering", "between"}

\* The document does not change, and with it what is said of its tasks.
LEMMA SameFlow ==
    ASSUME flow' = flow
    PROVE  /\ Ids' = Ids /\ WellFormed' = WellFormed
           /\ \A t : TheTask(t)' = TheTask(t)
           /\ \A R : Ready(R)' = Ready(R)
  BY DEF Ids, WellFormed, TheTask, Ready

LEMMA OrderIsHonest ==
    ASSUME FlowIInv, NEW s \in Session, pc[s] \in InProgress
    PROVE  OrderHonest(run[s])
  BY DEF FlowIInv, RunHonest, InProgress

LEMMA SameOrder ==
    ASSUME NEW q, NEW r, OrderHonest(q), r.remaining = q.remaining, r.batch = q.batch,
           r.order = q.order
    PROVE  OrderHonest(r)
  BY DEF OrderHonest

\* The locals a session has after a step are honest if they are by the document
\* before it.
LEMMA HonestAfter ==
    ASSUME flow' = flow, NEW s \in Session, RunHonest(run'[s], pc'[s])
    PROVE  RunHonest(run[s], pc[s])'
  <1>1. OrderHonest(run'[s]) => OrderHonest(run[s])'
    BY DEF OrderHonest, WellFormed, Ids, Ready, TheTask
  <1>2. QED
    BY <1>1 DEF RunHonest, CallPlaces

\* The scopes and rights of a session at rest.
LEMMA OthersKeepScope ==
    ASSUME flow' = flow, NEW s \in Session, run'[s] = run[s]
    PROVE  /\ Current(s)' = Current(s) /\ Scope(s)' = Scope(s)
           /\ Free(s)' = Free(s)
  BY SameFlow DEF Current, Scope, Dry, Free

\* A step of a session that touches neither approvals nor effects, and does not
\* bring it to the point of using an approval.
LEMMA LocalStep ==
    ASSUME FlowIInv, NEW s \in Session, NEW r \in Locals,
           NEW place \in Places \ {"consuming", "started"},
           UNCHANGED <<flow, approvalId, asked, effects>>, runs' \in 0..MaxRuns,
           run' = [run EXCEPT ![s] = r], pc' = [pc EXCEPT ![s] = place],
           RunHonest(r, place),
           r.approvals = run[s].approvals \/ r.approvals = approvalId
    PROVE  FlowIInv'
  <1> USE DEF FlowIInv
  <1>1. run \in [Session -> Locals] /\ DOMAIN pc = Session
    BY DEF TypeOK
  <1>2. \A x \in Session \ {s} : run'[x] = run[x] /\ pc'[x] = pc[x]
    BY <1>1
  <1>3. run'[s] = r /\ pc'[s] = place
    BY <1>1
  <1>4. TypeOK' /\ \A x \in Session : RunHonest(run[x], pc[x])'
    <2>1. \A x \in Session : RunHonest(run'[x], pc'[x])
      BY <1>2, <1>3
    <2>2. QED
      BY <2>1, HonestAfter DEF TypeOK, Places
  <1>5. ApprovalsHonest'
    <2>1. \A x \in Session, t \in TaskId : run'[x].approvals[t] # NoApproval
            => run'[x].approvals[t] \in DOMAIN asked
      BY <1>2, <1>3 DEF ApprovalsHonest
    <2>2. \A x \in Session \ {s} : Current(x)' = Current(x) /\ Scope(x)' = Scope(x)
                                  /\ Free(x)' = Free(x)
      BY <1>2, OthersKeepScope
    <2>3. \A x \in Session : (pc'[x] = "consuming" => ~Free(x)')
      BY <1>2, <1>3, <2>2 DEF ApprovalsHonest
    <2>4. \A x \in Session : pc'[x] \in {"consuming", "started"} => x # s
      BY <1>3
    <2>5. \A x \in Session : pc'[x] \in {"consuming", "started"} /\ ~Free(x)' =>
            ServesNow(x)'
      BY <1>2, <2>2, <2>4 DEF ApprovalsHonest, ServesNow
    <2>6. QED
      BY <2>1, <2>3, <2>5 DEF ApprovalsHonest
  <1>6. EffectsAreApproved'
    BY SameFlow DEF EffectsAreApproved
  <1>7. QED
    BY <1>4, <1>5, <1>6

LEMMA StartOK ==
    ASSUME FlowIInv, NEW s \in Session, NEW dry \in BOOLEAN, NEW confirmed \in BOOLEAN,
           Start(s, dry, confirmed)
    PROVE  FlowIInv'
  <1> DEFINE r == Fresh(dry, confirmed)
             place == IF WellFormed THEN "ordering" ELSE "rejected"
  <1>1. r \in Locals /\ runs' \in 0..MaxRuns
    BY FreshType, FlowAssumption DEF FlowIInv, TypeOK, Start
  <1>2. RunHonest(r, place)
    BY DEF Fresh, RunHonest, OrderHonest, CallPlaces
  <1>3. r.approvals = approvalId /\ place \in Places \ {"consuming", "started"}
    BY DEF Fresh, Places
  <1>4. run' = [run EXCEPT ![s] = r] /\ pc' = [pc EXCEPT ![s] = place]
    BY DEF Start, Goto
  <1> HIDE DEF r, place
  <1>5. QED
    BY <1>1, <1>2, <1>3, <1>4, LocalStep DEF Start

LEMMA OrderRoundOK ==
    ASSUME FlowIInv, NEW s \in Session, OrderRound(s)
    PROVE  FlowIInv'
  <1> DEFINE ready == Ready(run[s].remaining)
             r == [run[s] EXCEPT !.batch = ready]
  <1>1. run[s] \in Locals /\ TypeOK /\ runs' \in 0..MaxRuns
    BY DEF FlowIInv, TypeOK, OrderRound
  <1>2. CASE ready = {}
    <2>1. run' = [run EXCEPT ![s] = run[s]] /\ pc' = [pc EXCEPT ![s] = "rejected"]
      BY <1>1, <1>2 DEF OrderRound, Goto, TypeOK
    <2>2. RunHonest(run[s], "rejected")
      BY DEF RunHonest, CallPlaces
    <2>3. QED
      BY <1>1, <2>1, <2>2, LocalStep DEF OrderRound, Places
  <1>3. CASE ready # {}
    <2>1. run' = [run EXCEPT ![s] = r] /\ pc' = [pc EXCEPT ![s] = "ordering"]
      BY <1>1, <1>3 DEF OrderRound, TypeOK
    <2>2. ready \subseteq TaskId
      BY <1>1 DEF Ready, Locals
    <2>3. RunHonest(run[s], "ordering") /\ OrderHonest(run[s])
      BY OrderIsHonest DEF OrderRound, FlowIInv, InProgress
    <2>4. r.batch = ready /\ r.remaining = run[s].remaining
          /\ r.order = run[s].order /\ r.results = run[s].results
          /\ r.status = run[s].status /\ r.approvals = run[s].approvals
      BY <1>1 DEF Locals
    <2>5. r \in Locals
      <3> HIDE DEF ready
      <3>1. QED
        BY <1>1, <2>2 DEF Locals
    <2>6. OrderHonest(r)
      BY <2>3, <2>4 DEF OrderHonest
    <2> HIDE DEF r
    <2>7. RunHonest(r, "ordering")
      BY <2>3, <2>4, <2>6 DEF RunHonest, CallPlaces
    <2>8. QED
      BY <1>1, <2>1, <2>4, <2>5, <2>7, LocalStep DEF OrderRound, Places
  <1>4. QED
    BY <1>2, <1>3

LEMMA OrderTaskOK ==
    ASSUME FlowIInv, NEW s \in Session, OrderTask(s)
    PROVE  FlowIInv'
  <1> DEFINE q == run[s]
  <1>1. q \in Locals /\ TypeOK /\ runs' \in 0..MaxRuns
    BY DEF FlowIInv, TypeOK, OrderTask
  <1>2. RunHonest(q, "ordering") /\ OrderHonest(q)
    BY OrderIsHonest DEF OrderTask, FlowIInv, InProgress
  <1>3. PICK t \in q.batch :
          run' = [run EXCEPT ![s].batch = @ \ {t}, ![s].remaining = @ \ {t},
                             ![s].order = Append(@, t)]
    BY DEF OrderTask
  <1> DEFINE r1 == [q EXCEPT !.batch = @ \ {t}]
             r2 == [r1 EXCEPT !.remaining = @ \ {t}]
             r == [r2 EXCEPT !.order = Append(@, t)]
  <1>4. run' = [run EXCEPT ![s] = r]
    BY <1>1, <1>3 DEF TypeOK
  <1>5. pc' = [pc EXCEPT ![s] = "ordering"]
    BY <1>1 DEF OrderTask, TypeOK
  <1>6. t \in TaskId /\ q.order \in Seq(TaskId) /\ t \in q.remaining
        /\ \A dep \in TheTask(t).needs : dep \notin q.remaining
    BY <1>1, <1>2 DEF Locals, OrderHonest, Ready
  <1> HIDE DEF q
  <1>7. r1 \in Locals /\ r1.batch = q.batch \ {t} /\ r1.remaining = q.remaining
        /\ r1.order = q.order /\ r1.results = q.results /\ r1.status = q.status
        /\ r1.approvals = q.approvals
    BY <1>1 DEF Locals
  <1> HIDE DEF r1
  <1>8. r2 \in Locals /\ r2.batch = q.batch \ {t} /\ r2.remaining = q.remaining \ {t}
        /\ r2.order = q.order /\ r2.results = q.results /\ r2.status = q.status
        /\ r2.approvals = q.approvals
    BY <1>7 DEF Locals
  <1> HIDE DEF r2
  <1>9. r \in Locals /\ r.batch = q.batch \ {t} /\ r.remaining = q.remaining \ {t}
        /\ r.order = Append(q.order, t) /\ r.results = q.results /\ r.status = q.status
        /\ r.approvals = q.approvals
    <2>1. Append(q.order, t) \in Seq(TaskId)
      BY <1>6
    <2>2. QED
      BY <1>8, <2>1 DEF Locals
  <1> HIDE DEF r
  <1>10. OrderHonest(r)
    <2>1. /\ DOMAIN r.order = 1..(Len(q.order) + 1) /\ Len(q.order) \in Nat
          /\ r.order[Len(q.order) + 1] = t
          /\ \A i \in DOMAIN q.order : r.order[i] = q.order[i] /\ i \in DOMAIN r.order
          /\ DOMAIN q.order = 1..Len(q.order)
      BY <1>6, <1>9
    <2>2. {r.order[i] : i \in DOMAIN r.order} = Ids \ r.remaining
      <3>1. {r.order[i] : i \in DOMAIN r.order}
              = {q.order[i] : i \in DOMAIN q.order} \cup {t}
        BY <2>1
      <3>2. t \in Ids
        BY <1>2, <1>6 DEF OrderHonest
      <3>3. QED
        BY <1>2, <1>9, <3>1, <3>2 DEF OrderHonest
    <2>3. r.batch \subseteq Ready(r.remaining)
      BY <1>2, <1>9 DEF OrderHonest, Ready
    <2>4. \A i \in DOMAIN r.order : \A u \in TheTask(r.order[i]).needs :
            \E j \in 1..(i - 1) : r.order[j] = u
      <3> TAKE i \in DOMAIN r.order
      <3> TAKE u \in TheTask(r.order[i]).needs
      <3>1. CASE i \in DOMAIN q.order
        <4>1. PICK j \in 1..(i - 1) : q.order[j] = u
          BY <1>2, <2>1, <3>1 DEF OrderHonest
        <4>2. j \in DOMAIN q.order
          BY <2>1, <3>1
        <4>3. QED
          BY <2>1, <4>1, <4>2
      <3>2. CASE i = Len(q.order) + 1
        <4>1. u \in TheTask(t).needs /\ t \in Ids /\ flow \in Flow /\ WellFormed
          BY <1>1, <1>2, <1>6, <2>1, <3>2 DEF OrderHonest, TypeOK
        <4>2. u \in Ids \ q.remaining
          BY <1>6, <4>1, NeedsAreIds
        <4>3. PICK j \in DOMAIN q.order : q.order[j] = u
          BY <1>2, <4>2 DEF OrderHonest
        <4>4. QED
          BY <2>1, <3>2, <4>3
      <3>3. QED
        BY <2>1, <3>1, <3>2
    <2>5. WellFormed /\ r.remaining \subseteq Ids
      BY <1>2, <1>9 DEF OrderHonest
    <2>6. QED
      BY <2>2, <2>3, <2>4, <2>5 DEF OrderHonest
  <1>11. RunHonest(r, "ordering")
    BY <1>2, <1>9, <1>10 DEF RunHonest, CallPlaces
  <1>12. QED
    BY <1>1, <1>4, <1>5, <1>9, <1>11, LocalStep DEF OrderTask, Places, q

\* Announcing, aborting and finishing leave the order and the results alone.
LEMMA AnnounceOK ==
    ASSUME FlowIInv, NEW s \in Session, Announce(s) \/ Abort(s)
    PROVE  FlowIInv'
  <1>1. PICK place \in {"between", "aborted"} :
          /\ pc' = [pc EXCEPT ![s] = place]
          /\ place = "between" => pc[s] = "ordering"
    BY DEF Announce, Abort, Goto
  <1>2. run[s] \in Locals /\ runs' \in 0..MaxRuns /\ run' = [run EXCEPT ![s] = run[s]]
    BY DEF FlowIInv, TypeOK, Announce, Abort
  <1>3. RunHonest(run[s], place)
    <2>1. RunHonest(run[s], pc[s])
      BY DEF FlowIInv
    <2>2. QED
      BY <1>1, <2>1 DEF RunHonest, CallPlaces
  <1>4. UNCHANGED <<flow, approvalId, asked, effects>>
    BY DEF Announce, Abort
  <1>5. QED
    BY <1>1, <1>2, <1>3, <1>4, LocalStep DEF Places

LEMMA FinishOK ==
    ASSUME FlowIInv, NEW s \in Session, Finish(s)
    PROVE  FlowIInv'
  <1> DEFINE status == IF run[s].status = "none" THEN "completed" ELSE run[s].status
             r == [run[s] EXCEPT !.status = status]
  <1>1. run[s] \in Locals /\ runs' \in 0..MaxRuns /\ TypeOK
    BY DEF FlowIInv, TypeOK, Finish
  <1>2. status \in {"none", "completed", "blocked", "failed"}
    BY <1>1 DEF Locals
  <1>3. run' = [run EXCEPT ![s] = r] /\ pc' = [pc EXCEPT ![s] = "ended"]
    BY <1>1 DEF Finish, Goto, TypeOK
  <1> HIDE DEF status
  <1>4. r \in Locals /\ r.approvals = run[s].approvals
    BY <1>1, <1>2 DEF Locals
  <1> HIDE DEF r
  <1>5. RunHonest(r, "ended")
    BY DEF RunHonest, CallPlaces
  <1>6. QED
    BY <1>1, <1>3, <1>4, <1>5, LocalStep DEF Finish, Places

LEMMA ResolveArgsOK ==
    ASSUME FlowIInv, NEW s \in Session, ResolveArgs(s)
    PROVE  FlowIInv'
  <1>1. AtTask(s) /\ runs' \in 0..MaxRuns /\ TypeOK
    BY DEF FlowIInv, TypeOK, ResolveArgs
  <1>2. run[s] \in Locals /\ Current(s) \in Ids
    BY <1>1, CurrentIsTask
  <1>3. PICK f \in Arguments(s) : run' = [run EXCEPT ![s].args = f]
    BY DEF ResolveArgs
  <1>4. f \in ArgVector
    BY <1>1, <1>2, ArgumentsType DEF TypeOK
  <1> DEFINE r == [run[s] EXCEPT !.args = f]
  <1>5. run' = [run EXCEPT ![s] = r] /\ pc' = [pc EXCEPT ![s] = "calling"]
    BY <1>1, <1>3 DEF ResolveArgs, Goto, TypeOK
  <1>6. r \in Locals /\ r.approvals = run[s].approvals /\ r.remaining = run[s].remaining
        /\ r.batch = run[s].batch /\ r.order = run[s].order
        /\ r.results = run[s].results /\ r.status = run[s].status
    BY <1>2, <1>4 DEF Locals
  <1> HIDE DEF r
  <1>7. RunHonest(r, "calling")
    <2>1. RunHonest(run[s], pc[s]) /\ OrderHonest(run[s])
      BY <1>1, OrderIsHonest DEF FlowIInv, AtTask, InProgress
    <2>2. OrderHonest(r)
      BY <1>6, <2>1 DEF OrderHonest
    <2>3. QED
      BY <1>1, <1>6, <2>1, <2>2 DEF RunHonest, AtTask, CallPlaces
  <1>8. QED
    BY <1>1, <1>5, <1>6, <1>7, LocalStep DEF ResolveArgs, Places

\* A run that a task stops has its order still, and no more to do.
LEMMA StoppedIsHonest ==
    ASSUME FlowIInv, NEW s \in Session, AtCall(s) \/ AtTask(s),
           NEW status \in {"failed", "setup_required", "blocked"}
    PROVE  RunHonest(Stopped(s, Current(s), status), "between")
  <1> DEFINE r == Stopped(s, Current(s), status)
  <1>1. OrderHonest(run[s])
    BY OrderIsHonest DEF AtCall, AtTask, InProgress
  <1>2. r.remaining = run[s].remaining /\ r.batch = run[s].batch
        /\ r.order = run[s].order /\ r.status # "none"
    BY StoppedType
  <1> HIDE DEF r
  <1>3. OrderHonest(r)
    BY <1>1, <1>2 DEF OrderHonest
  <1>4. RunHonest(r, "between")
    BY <1>2, <1>3 DEF RunHonest, CallPlaces
  <1>5. QED
    BY <1>4 DEF r

LEMMA StopOK ==
    ASSUME FlowIInv, NEW s \in Session, AtCall(s) \/ AtTask(s),
           NEW status \in {"failed", "setup_required", "blocked"},
           run' = [run EXCEPT ![s] = Stopped(s, Current(s), status)],
           pc' = [pc EXCEPT ![s] = "between"],
           UNCHANGED <<flow, approvalId, asked, runs, effects>>
    PROVE  FlowIInv'
  <1>1. runs' \in 0..MaxRuns
    BY DEF FlowIInv, TypeOK
  <1>2. QED
    BY <1>1, StoppedIsHonest, StoppedType, LocalStep DEF Places

LEMMA ResolveFailsOK ==
    ASSUME FlowIInv, NEW s \in Session, ResolveFails(s) \/ Unsupported(s)
    PROVE  FlowIInv'
  <1>1. CASE ResolveFails(s)
    <2>1. pc' = [pc EXCEPT ![s] = "between"]
      BY <1>1 DEF ResolveFails, AtTask, FlowIInv, TypeOK
    <2>2. QED
      BY <1>1, <2>1, StopOK DEF ResolveFails
  <1>2. CASE Unsupported(s)
    BY <1>2, StopOK DEF Unsupported, AtCall, CallPlaces, Goto
  <1>3. QED
    BY <1>1, <1>2

LEMMA ReturnOK ==
    ASSUME FlowIInv, NEW s \in Session, Return(s)
    PROVE  FlowIInv'
  <1>1. PICK outcome \in Outcomes, v \in Value :
          run' = [run EXCEPT ![s] =
            IF outcome = "completed"
            THEN [run[s] EXCEPT !.results =
                    Append(run[s].results, Result(Current(s), "completed", v))]
            ELSE Stopped(s, Current(s), outcome)]
    BY DEF Return
  <1>2. AtCall(s) /\ pc[s] = "running" /\ pc' = [pc EXCEPT ![s] = "between"] /\ TypeOK
        /\ runs' \in 0..MaxRuns
    BY DEF Return, AtCall, CallPlaces, Goto, FlowIInv, TypeOK
  <1>3. CASE outcome # "completed"
    <2>1. outcome \in {"failed", "setup_required", "blocked"}
      BY <1>3, FlowAssumption
    <2>2. run' = [run EXCEPT ![s] = Stopped(s, Current(s), outcome)]
      BY <1>1, <1>3
    <2>3. QED
      BY <1>2, <2>1, <2>2, StopOK DEF Return
  <1>4. CASE outcome = "completed"
    <2> DEFINE q == run[s]
               result == Result(Current(s), "completed", v)
               r == [q EXCEPT !.results = Append(@, result)]
    <2>1. q \in Locals /\ Current(s) \in TaskId
      BY <1>2, CurrentIsTask
    <2>2. run' = [run EXCEPT ![s] = r]
      <3> DEFINE next == IF outcome = "completed" THEN r ELSE Stopped(s, Current(s), outcome)
      <3>1. run' = [run EXCEPT ![s] = next]
        BY <1>1, Zenon
      <3>2. next = r
        BY <1>4
      <3> HIDE DEF next, r
      <3>3. QED
        BY <3>1, <3>2
    <2>3. result \in TaskResult /\ result.task = Current(s) /\ result.status = "completed"
      BY <2>1 DEF Result, TaskResult
    <2>4. q.results \in Seq(TaskResult) /\ Append(q.results, result) \in Seq(TaskResult)
      BY <2>1, <2>3 DEF Locals
    <2>5. RunHonest(q, "running") /\ OrderHonest(q)
      BY <1>2, OrderIsHonest DEF FlowIInv, InProgress, CallPlaces
    <2>6. Current(s) = q.order[Len(q.results) + 1]
          /\ Len(q.results) + 1 \in DOMAIN q.order
      BY <1>2, CurrentIsTask DEF Current
    <2> HIDE DEF q, result
    <2>7. r \in Locals /\ r.approvals = q.approvals /\ r.remaining = q.remaining
          /\ r.batch = q.batch /\ r.order = q.order /\ r.status = q.status
          /\ r.results = Append(q.results, result)
      BY <2>1, <2>4 DEF Locals
    <2> HIDE DEF r
    <2>8. \A i \in DOMAIN r.results :
            /\ i \in DOMAIN r.order
            /\ r.results[i].task = r.order[i]
            /\ r.results[i].status = "completed"
      <3> TAKE i \in DOMAIN r.results
      <3>1. CASE i \in DOMAIN q.results
        <4>1. r.results[i] = q.results[i]
          BY <2>4, <2>7, <3>1
        <4>2. QED
          BY <2>5, <2>7, <3>1, <4>1 DEF RunHonest, CallPlaces
      <3>2. CASE i = Len(q.results) + 1
        <4>1. r.results[i] = result
          BY <2>4, <2>7, <3>2
        <4>2. QED
          BY <2>3, <2>6, <2>7, <3>2, <4>1
      <3>3. i \in DOMAIN q.results \/ i = Len(q.results) + 1
        BY <2>4, <2>7
      <3>4. QED
        BY <3>1, <3>2, <3>3
    <2>9. OrderHonest(r)
      BY <2>5, <2>7 DEF OrderHonest
    <2>10. RunHonest(r, "between")
      BY <2>8, <2>9 DEF RunHonest, CallPlaces
    <2>11. QED
      BY <1>2, <2>2, <2>7, <2>10, LocalStep DEF Return, Places, q
  <1>5. QED
    BY <1>3, <1>4

-----------------------------------------------------------------------------
(* Steps that touch approvals or effects.                                  *)

\* The approval an effect ran on is used, and was for what ran.
LEMMA EffectFacts ==
    ASSUME FlowIInv, NEW i \in DOMAIN effects, effects[i].by # NoApproval
    PROVE  /\ effects[i].by \in DOMAIN asked
           /\ asked[effects[i].by].status = "used"
           /\ asked[effects[i].by].scope = effects[i].scope
           /\ \A j \in DOMAIN effects :
                effects[j].by = effects[i].by /\ effects[j].session = effects[i].session
                => i = j
  <1>1. /\ asked[effects[i].by] = [scope |-> effects[i].scope, status |-> "used"]
        /\ \A j \in DOMAIN effects :
                effects[j].by = effects[i].by /\ effects[j].session = effects[i].session
                => i = j
    BY Zenon DEF FlowIInv, EffectsAreApproved
  <1>2. QED
    BY <1>1 DEF FlowIInv

LEMMA GoAheadOK ==
    ASSUME FlowIInv, NEW s \in Session, GoAhead(s)
    PROVE  FlowIInv'
  <1> DEFINE place == IF Free(s) THEN "started" ELSE "consuming"
             id == run[s].approvals[Current(s)]
  <1>1. AtCall(s) /\ TypeOK /\ pc' = [pc EXCEPT ![s] = place] /\ pc'[s] = place
        /\ \A x \in Session \ {s} : pc'[x] = pc[x]
    BY DEF GoAhead, AtCall, CallPlaces, Goto, FlowIInv, TypeOK
  <1>2. UNCHANGED <<flow, approvalId, asked, runs, run, effects>>
    BY DEF GoAhead
  <1>3. TypeOK'
    BY <1>1, <1>2 DEF TypeOK
  <1>4. \A x \in Session : RunHonest(run[x], pc[x])'
    <2>1. RunHonest(run[s], "calling")
      BY DEF FlowIInv, GoAhead
    <2>2. RunHonest(run[s], place)
      BY <2>1 DEF RunHonest, CallPlaces
    <2>3. \A x \in Session : RunHonest(run'[x], pc'[x])
      BY <1>1, <1>2, <2>2 DEF FlowIInv
    <2>4. QED
      BY <1>2, <2>3, HonestAfter
  <1>5. \A x \in Session : /\ Current(x)' = Current(x) /\ Scope(x)' = Scope(x)
                          /\ Free(x)' = Free(x)
    BY <1>2, OthersKeepScope
  <1>6. ~Free(s) => /\ id # NoApproval
                    /\ asked[id].scope = Scope(s)
                    /\ asked[id].status = "approved"
                    /\ \A i \in DOMAIN effects : effects[i].by # id
    <2>1. ~Free(s) => Presents(s)
      BY DEF GoAhead
    <2>2. \A i \in DOMAIN effects : effects[i].by # NoApproval =>
            asked[effects[i].by].status = "used"
      BY EffectFacts
    <2>3. QED
      BY <2>1, <2>2 DEF Presents, Fits
  <1>7. ApprovalsHonest'
    <2>1. \A x \in Session : pc'[x] = "consuming" => ~Free(x)'
      BY <1>1, <1>5 DEF FlowIInv, ApprovalsHonest
    <2>2. \A x \in Session : pc'[x] \in {"consuming", "started"} /\ ~Free(x)' =>
            ServesNow(x)'
      BY <1>1, <1>2, <1>5, <1>6 DEF FlowIInv, ApprovalsHonest, ServesNow
    <2>3. QED
      BY <1>2, <2>1, <2>2 DEF FlowIInv, ApprovalsHonest
  <1>8. EffectsAreApproved'
    BY <1>2, SameFlow DEF FlowIInv, EffectsAreApproved
  <1>9. QED
    BY <1>2, <1>3, <1>4, <1>7, <1>8 DEF FlowIInv

Approval == [scope : Scopes, status : {"pending", "approved", "denied", "used"}]

\* How requests may change: more of them, used ones for good, approved ones used.
AskedGrows ==
    \A i \in DOMAIN asked :
        /\ i \in DOMAIN asked'
        /\ asked'[i].scope = asked[i].scope
        /\ asked[i].status = "used" => asked'[i] = asked[i]
        /\ asked[i].status = "approved" => asked'[i].status \in {"approved", "used"}

LEMMA FunctionIsSeq ==
    ASSUME NEW S, NEW n \in Nat, NEW f \in [1..n -> S]
    PROVE  f \in Seq(S)
  OBVIOUS

LEMMA StatusChanges ==
    ASSUME TypeOK, NEW id \in DOMAIN asked, NEW status \in {"approved", "denied", "used"},
           asked' = [asked EXCEPT ![id].status = status],
           \/ asked[id].status = "pending"
           \/ asked[id].status \in {"approved", "used"} /\ status = "used"
    PROVE  /\ asked' \in Seq(Approval) /\ DOMAIN asked' = DOMAIN asked /\ AskedGrows
           /\ asked'[id].status = status
  <1> DEFINE a == [asked[id] EXCEPT !.status = status]
  <1>1. asked \in Seq(Approval) /\ asked[id] \in Approval
    <2>1. asked \in Seq(Approval)
      BY Zenon DEF TypeOK, Approval
    <2>2. QED
      BY <2>1
  <1>2. a \in Approval /\ a.status = status /\ a.scope = asked[id].scope
    BY <1>1 DEF Approval
  <1>3. asked[id].status = status => a = asked[id]
    BY <1>1 DEF Approval
  <1> HIDE DEF a
  <1>4. asked' = [asked EXCEPT ![id] = a]
    BY DEF a
  <1>5. DOMAIN asked' = DOMAIN asked /\ asked'[id] = a
        /\ \A i \in DOMAIN asked \ {id} : asked'[i] = asked[i]
    BY <1>4
  <1>6. asked' \in Seq(Approval)
    <2>1. \A i \in 1..Len(asked) : asked'[i] \in Approval
      BY <1>1, <1>2, <1>5
    <2> DEFINE n == Len(asked)
    <2>2. asked' \in [1..n -> Approval] /\ n \in Nat
      BY <1>1, <1>4, <2>1
    <2> HIDE DEF n
    <2>3. QED
      BY <2>2, FunctionIsSeq
  <1>7. AskedGrows
    BY <1>2, <1>3, <1>5 DEF AskedGrows
  <1>8. QED
    BY <1>2, <1>5, <1>6, <1>7

LEMMA EffectsKept ==
    ASSUME FlowIInv, flow' = flow, effects' = effects, AskedGrows
    PROVE  /\ EffectsAreApproved'
           /\ \A i \in DOMAIN effects' :
                effects'[i].by # NoApproval => effects'[i].by \in DOMAIN asked'
  <1>1. \A i \in DOMAIN effects : effects[i].by # NoApproval =>
            /\ effects[i].by \in DOMAIN asked'
            /\ asked'[effects[i].by] = asked[effects[i].by]
    BY EffectFacts DEF AskedGrows
  <1>2. QED
    BY <1>1, SameFlow DEF FlowIInv, EffectsAreApproved

\* A session at rest keeps its right to run.
LEMMA RightsKept ==
    ASSUME FlowIInv, flow' = flow, effects' = effects, AskedGrows, NEW x \in Session,
           run'[x] = run[x], pc'[x] = pc[x]
    PROVE  /\ pc'[x] = "consuming" => ~Free(x)'
           /\ pc'[x] \in {"consuming", "started"} /\ ~Free(x)' => ServesNow(x)'
           /\ \A t \in TaskId : run'[x].approvals[t] # NoApproval =>
                run'[x].approvals[t] \in DOMAIN asked'
  <1> DEFINE id == run[x].approvals[Current(x)]
  <1>1. Current(x)' = Current(x) /\ Scope(x)' = Scope(x) /\ Free(x)' = Free(x)
    BY OthersKeepScope
  <1>2. pc'[x] \in {"consuming", "started"} /\ ~Free(x) => ServesNow(x)'
    <2> SUFFICES ASSUME pc[x] \in {"consuming", "started"}, ~Free(x)
                 PROVE  ServesNow(x)'
      OBVIOUS
    <2>1. ServesNow(x)
      BY DEF FlowIInv, ApprovalsHonest
    <2>2. Current(x) \in TaskId
      BY CurrentIsTask DEF AtCall, CallPlaces
    <2>3. id \in DOMAIN asked
      BY <2>1, <2>2 DEF FlowIInv, ApprovalsHonest, ServesNow
    <2>4. /\ asked'[id].scope = asked[id].scope
          /\ asked[id].status = "used" => asked'[id].status = "used"
          /\ asked[id].status = "approved" => asked'[id].status \in {"approved", "used"}
      BY <2>3 DEF AskedGrows
    <2>5. id # NoApproval /\ asked'[id].scope = Scope(x)
          /\ \A i \in DOMAIN effects : effects[i].by = id => effects[i].session # x
      BY <2>1, <2>4 DEF ServesNow
    <2>6. asked'[id].status \in {"used"} \cup IF pc[x] = "started" THEN {} ELSE {"approved"}
      <3>1. CASE pc[x] = "started"
        <4>1. asked[id].status = "used"
          BY <2>1, <3>1 DEF ServesNow
        <4>2. QED
          BY <2>4, <3>1, <4>1
      <3>2. CASE pc[x] # "started"
        <4>1. asked[id].status \in {"used", "approved"}
          BY <2>1, <3>2 DEF ServesNow
        <4>2. QED
          BY <2>4, <3>2, <4>1
      <3>3. QED
        BY <3>1, <3>2
    <2>7. id' = id
      BY <1>1
    <2> HIDE DEF id
    <2>8. QED
      BY <1>1, <2>5, <2>6, <2>7 DEF ServesNow, id
  <1>3. QED
    BY <1>1, <1>2 DEF FlowIInv, ApprovalsHonest, AskedGrows

LEMMA ConsumeOK ==
    ASSUME FlowIInv, NEW s \in Session, Consume(s)
    PROVE  FlowIInv'
  <1> DEFINE id == run[s].approvals[Current(s)]
  <1>1. AtCall(s) /\ TypeOK /\ run[s] \in Locals /\ Current(s) \in TaskId /\ ~Free(s)
        /\ ServesNow(s) /\ RunHonest(run[s], "consuming")
    <2>1. AtCall(s) /\ ~Free(s) /\ ServesNow(s) /\ RunHonest(run[s], "consuming")
      BY DEF Consume, AtCall, CallPlaces, FlowIInv, ApprovalsHonest
    <2>2. QED
      BY <2>1, CurrentIsTask DEF FlowIInv
  <1>2. id \in DOMAIN asked /\ asked[id].status \in {"approved", "used"}
        /\ asked[id].scope = Scope(s) /\ id # NoApproval
        /\ \A i \in DOMAIN effects : effects[i].by = id => effects[i].session # s
    <2>1. id # NoApproval
      BY <1>1 DEF ServesNow
    <2>2. id \in DOMAIN asked
      BY <1>1, <2>1 DEF FlowIInv, ApprovalsHonest
    <2>3. QED
      BY <1>1, <2>1, <2>2 DEF ServesNow
  <1>3. /\ asked' = [asked EXCEPT ![id].status = "used"]
        /\ UNCHANGED <<flow, approvalId, runs, run, effects>>
        /\ pc' = [pc EXCEPT ![s] = "started"]
    BY DEF Consume, Goto
  <1> HIDE DEF id
  <1>4. asked' \in Seq(Approval) /\ DOMAIN asked' = DOMAIN asked /\ AskedGrows
        /\ asked'[id].status = "used"
    BY <1>1, <1>2, <1>3, StatusChanges
  <1>5. pc'[s] = "started" /\ \A x \in Session \ {s} : pc'[x] = pc[x]
    BY <1>1, <1>3 DEF TypeOK
  <1>6. TypeOK'
    BY <1>1, <1>3, <1>4 DEF TypeOK, Approval
  <1>7. \A x \in Session : RunHonest(run[x], pc[x])'
    <2>1. RunHonest(run[s], "started")
      BY <1>1 DEF RunHonest, CallPlaces
    <2>2. \A x \in Session : RunHonest(run'[x], pc'[x])
      BY <1>3, <1>5, <2>1 DEF FlowIInv
    <2>3. QED
      BY <1>3, <2>2, HonestAfter
  <1>8. Current(s)' = Current(s) /\ Scope(s)' = Scope(s)
    BY <1>3, OthersKeepScope
  <1>9. ServesNow(s)'
    <2>1. run'[s].approvals[Current(s)'] = id
      BY <1>3, <1>8 DEF id
    <2>2. asked'[id].scope = Scope(s)
      BY <1>2, <1>4 DEF AskedGrows
    <2>3. QED
      BY <1>2, <1>3, <1>4, <1>5, <1>8, <2>1, <2>2 DEF ServesNow
  <1>10. ApprovalsHonest'
    <2>1. \A x \in Session \ {s} :
            /\ pc'[x] = "consuming" => ~Free(x)'
            /\ pc'[x] \in {"consuming", "started"} /\ ~Free(x)' => ServesNow(x)'
      BY <1>3, <1>4, <1>5, RightsKept
    <2>2. QED
      BY <1>3, <1>4, <1>5, <1>9, <2>1 DEF FlowIInv, ApprovalsHonest
  <1>11. QED
    BY <1>3, <1>4, <1>6, <1>7, <1>10, EffectsKept DEF FlowIInv

\* A step that changes only what was asked and what the document names.
LEMMA PeopleOK ==
    ASSUME FlowIInv, UNCHANGED <<flow, runs, pc, run, effects>>, AskedGrows,
           asked' \in Seq(Approval), approvalId' \in [TaskId -> Nat \cup {NoApproval}],
           \A t \in TaskId : approvalId'[t] # NoApproval => approvalId'[t] \in DOMAIN asked'
    PROVE  FlowIInv'
  <1>1. TypeOK'
    BY DEF FlowIInv, TypeOK, Approval
  <1>2. \A x \in Session : RunHonest(run[x], pc[x])'
    BY HonestAfter DEF FlowIInv
  <1>3. ApprovalsHonest'
    BY RightsKept DEF ApprovalsHonest
  <1>4. QED
    BY <1>1, <1>2, <1>3, EffectsKept DEF FlowIInv

LEMMA DecideOK ==
    ASSUME FlowIInv, NEW id \in ApprovalId, NEW decision \in {"approved", "denied"},
           Decide(id, decision)
    PROVE  FlowIInv'
  <1>1. asked' \in Seq(Approval) /\ DOMAIN asked' = DOMAIN asked /\ AskedGrows
    BY StatusChanges DEF Decide, FlowIInv
  <1>2. QED
    BY <1>1, PeopleOK DEF Decide, FlowIInv, ApprovalsHonest, TypeOK

LEMMA EditApprovalOK ==
    ASSUME FlowIInv, NEW id \in ApprovalId, EditApproval(id)
    PROVE  FlowIInv'
  <1> DEFINE task == asked[id].scope.task
  <1>1. asked' = asked /\ asked' \in Seq(Approval) /\ id \in Nat /\ id \in DOMAIN asked
        /\ UNCHANGED <<flow, runs, pc, run, effects>>
    BY DEF EditApproval, FlowIInv, TypeOK, Approval, ApprovalId
  <1>2. AskedGrows
    BY <1>1 DEF AskedGrows
  <1>3. approvalId' = [approvalId EXCEPT ![task] = id]
    BY DEF EditApproval
  <1> HIDE DEF task
  <1>4. approvalId' \in [TaskId -> Nat \cup {NoApproval}]
        /\ \A t \in TaskId : approvalId'[t] \in {approvalId[t], id}
    BY <1>1, <1>3 DEF FlowIInv, TypeOK
  <1>5. \A t \in TaskId : approvalId'[t] # NoApproval => approvalId'[t] \in DOMAIN asked'
    BY <1>1, <1>4 DEF FlowIInv, ApprovalsHonest
  <1>6. QED
    BY <1>1, <1>2, <1>4, <1>5, PeopleOK

LEMMA RefuseOK ==
    ASSUME FlowIInv, NEW s \in Session, Refuse(s)
    PROVE  FlowIInv'
  <1> DEFINE request == [scope |-> Scope(s), status |-> "pending"]
             r == Stopped(s, Current(s), "blocked")
  <1>1. AtCall(s) /\ TypeOK /\ Scope(s) \in Scopes
    BY ScopeType DEF Refuse, AtCall, CallPlaces, FlowIInv
  <1>2. /\ asked' = Append(asked, request) /\ run' = [run EXCEPT ![s] = r]
        /\ pc' = [pc EXCEPT ![s] = "between"]
        /\ UNCHANGED <<flow, approvalId, runs, effects>>
    BY DEF Refuse, Goto
  <1>3. r \in Locals /\ r.approvals = run[s].approvals /\ RunHonest(r, "between")
    BY <1>1, StoppedType, StoppedIsHonest
  <1>4. request \in Approval /\ asked \in Seq(Approval)
    <2>1. asked \in Seq(Approval)
      BY <1>1, Zenon DEF TypeOK, Approval
    <2>2. QED
      BY <1>1, <2>1 DEF Approval
  <1> HIDE DEF r, request
  <1>5. asked' \in Seq(Approval) /\ AskedGrows
    <2>1. asked' \in Seq(Approval) /\ \A i \in DOMAIN asked :
            i \in DOMAIN asked' /\ asked'[i] = asked[i]
      BY <1>2, <1>4
    <2>2. QED
      BY <2>1 DEF AskedGrows
  <1>6. /\ run'[s] = r /\ pc'[s] = "between"
        /\ \A x \in Session \ {s} : run'[x] = run[x] /\ pc'[x] = pc[x]
    BY <1>1, <1>2 DEF TypeOK
  <1>7. TypeOK'
    BY <1>1, <1>2, <1>3, <1>5 DEF TypeOK, Approval
  <1>8. \A x \in Session : RunHonest(run[x], pc[x])'
    <2>1. \A x \in Session : RunHonest(run'[x], pc'[x])
      BY <1>3, <1>6 DEF FlowIInv
    <2>2. QED
      BY <1>2, <2>1, HonestAfter
  <1>9. ApprovalsHonest'
    <2>1. \A x \in Session \ {s} :
            /\ pc'[x] = "consuming" => ~Free(x)'
            /\ pc'[x] \in {"consuming", "started"} /\ ~Free(x)' => ServesNow(x)'
            /\ \A t \in TaskId : run'[x].approvals[t] # NoApproval =>
                  run'[x].approvals[t] \in DOMAIN asked'
      BY <1>2, <1>5, <1>6, RightsKept
    <2>2. \A t \in TaskId : run'[s].approvals[t] # NoApproval =>
            run'[s].approvals[t] \in DOMAIN asked'
      BY <1>3, <1>5, <1>6 DEF FlowIInv, ApprovalsHonest, AskedGrows
    <2>3. \A t \in TaskId : approvalId'[t] # NoApproval => approvalId'[t] \in DOMAIN asked'
      BY <1>2, <1>5 DEF FlowIInv, ApprovalsHonest, AskedGrows
    <2>4. QED
      BY <1>6, <2>1, <2>2, <2>3 DEF ApprovalsHonest
  <1>10. QED
    BY <1>2, <1>5, <1>7, <1>8, <1>9, EffectsKept DEF FlowIInv

Effect == [session : Session, run : Nat, scope : Scopes, confirmed : BOOLEAN,
           by : Nat \cup {NoApproval}]

LEMMA DispatchOK ==
    ASSUME FlowIInv, NEW s \in Session, Dispatch(s)
    PROVE  FlowIInv'
  <1> DEFINE id == run[s].approvals[Current(s)]
             e == [session |-> s, run |-> run[s].number, scope |-> Scope(s),
                   confirmed |-> run[s].confirmed,
                   by |-> IF Free(s) THEN NoApproval ELSE id]
  <1>1. AtCall(s) /\ TypeOK /\ Scope(s) \in Scopes /\ run[s] \in Locals
        /\ Current(s) \in TaskId /\ RunHonest(run[s], "started")
    BY ScopeType, CurrentIsTask DEF Dispatch, AtCall, CallPlaces, FlowIInv
  <1>2. /\ pc' = [pc EXCEPT ![s] = "running"]
        /\ UNCHANGED <<flow, approvalId, asked, runs, run>>
        /\ effects' = effects \/ effects' = Append(effects, e)
    BY DEF Dispatch, Goto
  <1>3. pc'[s] = "running" /\ \A x \in Session \ {s} : pc'[x] = pc[x]
    BY <1>1, <1>2 DEF TypeOK
  <1>4. \A x \in Session : RunHonest(run[x], pc[x])'
    <2>1. RunHonest(run[s], "running")
      BY <1>1 DEF RunHonest, CallPlaces
    <2>2. \A x \in Session : RunHonest(run'[x], pc'[x])
      BY <1>2, <1>3, <2>1 DEF FlowIInv
    <2>3. QED
      BY <1>2, <2>2, HonestAfter
  <1>5. ~Free(s) => /\ id # NoApproval /\ id \in DOMAIN asked
                    /\ asked[id] = [scope |-> Scope(s), status |-> "used"]
                    /\ \A i \in DOMAIN effects : effects[i].by = id => effects[i].session # s
    <2> SUFFICES ASSUME ~Free(s)
                 PROVE  /\ id # NoApproval /\ id \in DOMAIN asked
                        /\ asked[id] = [scope |-> Scope(s), status |-> "used"]
                        /\ \A i \in DOMAIN effects :
                            effects[i].by = id => effects[i].session # s
      OBVIOUS
    <2>1. ServesNow(s) /\ pc[s] = "started"
      BY DEF FlowIInv, ApprovalsHonest, Dispatch
    <2>2. id # NoApproval /\ asked[id].scope = Scope(s) /\ asked[id].status = "used"
          /\ \A i \in DOMAIN effects : effects[i].by = id => effects[i].session # s
      BY <2>1 DEF ServesNow
    <2>3. id \in DOMAIN asked
      BY <1>1, <2>2 DEF FlowIInv, ApprovalsHonest
    <2>4. asked[id] \in Approval
      <3>1. asked \in Seq(Approval)
        BY <1>1, Zenon DEF TypeOK, Approval
      <3>2. QED
        BY <2>3, <3>1
    <2>5. QED
      BY <2>2, <2>3, <2>4 DEF Approval
  <1>6. /\ e \in Effect /\ e.session = s /\ e.scope = Scope(s) /\ e.scope.task = Current(s)
        /\ e.confirmed = run[s].confirmed
        /\ Free(s) => e.by = NoApproval
        /\ ~Free(s) => e.by = id
    <2>1. id \in Nat \cup {NoApproval} /\ run[s].number \in Nat /\ run[s].confirmed \in BOOLEAN
      BY <1>1 DEF Locals
    <2>2. Scope(s).task = Current(s)
      BY DEF Scope
    <2> HIDE DEF id
    <2>3. QED
      BY <1>1, <2>1, <2>2 DEF Effect
  <1> HIDE DEF id, e
  <1>7. effects \in Seq(Effect) /\ effects' \in Seq(Effect)
    <2>1. effects \in Seq(Effect)
      BY <1>1, Zenon DEF TypeOK, Effect
    <2>2. QED
      BY <1>2, <1>6, <2>1
  <1>8. TypeOK'
    BY <1>1, <1>2, <1>7 DEF TypeOK, Effect
  <1>9. \A i \in DOMAIN effects' :
          \/ i \in DOMAIN effects /\ effects'[i] = effects[i]
          \/ i = Len(effects) + 1 /\ i \notin DOMAIN effects /\ effects'[i] = e
    BY <1>2, <1>7
  <1>10. ApprovalsHonest'
    <2>1. \A x \in Session : /\ Current(x)' = Current(x) /\ Scope(x)' = Scope(x)
                            /\ Free(x)' = Free(x)
      BY <1>2, OthersKeepScope
    <2>2. \A x \in Session : pc'[x] \in {"consuming", "started"} => x # s
      BY <1>3
    <2>3. \A x \in Session \ {s} : \A i \in DOMAIN effects' :
            effects'[i].session = x => i \in DOMAIN effects /\ effects'[i] = effects[i]
      BY <1>6, <1>9
    <2>4. \A x \in Session : pc'[x] \in {"consuming", "started"} /\ ~Free(x)' =>
            ServesNow(x)'
      BY <1>2, <1>3, <2>1, <2>2, <2>3 DEF FlowIInv, ApprovalsHonest, ServesNow
    <2>5. \A x \in Session : pc'[x] = "consuming" => ~Free(x)'
      BY <1>3, <2>1 DEF FlowIInv, ApprovalsHonest
    <2>6. QED
      BY <1>2, <2>4, <2>5 DEF FlowIInv, ApprovalsHonest
  <1>11. EffectsAreApproved'
    <2> SUFFICES ASSUME NEW i \in DOMAIN effects'
                 PROVE  IF effects'[i].by = NoApproval
                        THEN TheTask(effects'[i].scope.task).held => effects'[i].confirmed
                        ELSE /\ asked[effects'[i].by] =
                                    [scope |-> effects'[i].scope, status |-> "used"]
                             /\ \A j \in DOMAIN effects' :
                                    effects'[j].by = effects'[i].by
                                    /\ effects'[j].session = effects'[i].session => i = j
      BY <1>2, SameFlow DEF EffectsAreApproved
    <2>1. CASE effects'[i].by = NoApproval
      <3>1. CASE i \in DOMAIN effects /\ effects'[i] = effects[i]
        BY <2>1, <3>1 DEF FlowIInv, EffectsAreApproved
      <3>2. CASE effects'[i] = e
        BY <1>5, <1>6, <2>1, <3>2 DEF Free
      <3>3. QED
        BY <1>9, <2>1, <3>1, <3>2
    <2>2. CASE effects'[i].by # NoApproval
      <3>1. asked[effects'[i].by] = [scope |-> effects'[i].scope, status |-> "used"]
        <4>1. CASE i \in DOMAIN effects /\ effects'[i] = effects[i]
          BY <2>2, <4>1, Zenon DEF FlowIInv, EffectsAreApproved
        <4>2. CASE effects'[i] = e
          BY <1>5, <1>6, <2>2, <4>2
        <4>3. QED
          BY <1>9, <4>1, <4>2
      <3>2. ASSUME NEW j \in DOMAIN effects', effects'[j].by = effects'[i].by,
                   effects'[j].session = effects'[i].session
            PROVE  i = j
        <4>1. CASE i \in DOMAIN effects /\ effects'[i] = effects[i]
                   /\ j \in DOMAIN effects /\ effects'[j] = effects[j]
          BY <2>2, <3>2, <4>1, EffectFacts
        <4>2. CASE effects'[i] = e /\ j \in DOMAIN effects /\ effects'[j] = effects[j]
          BY <1>5, <1>6, <2>2, <3>2, <4>2
        <4>3. CASE effects'[j] = e /\ i \in DOMAIN effects /\ effects'[i] = effects[i]
          BY <1>5, <1>6, <2>2, <3>2, <4>3
        <4>4. CASE i = Len(effects) + 1 /\ j = Len(effects) + 1
          BY <4>4
        <4>5. QED
          BY <1>9, <4>1, <4>2, <4>3, <4>4
      <3>3. QED
        BY <2>2, <3>1, <3>2
    <2>3. QED
      BY <2>1, <2>2
  <1>12. \A i \in DOMAIN effects' :
            effects'[i].by # NoApproval => effects'[i].by \in DOMAIN asked'
    BY <1>2, <1>5, <1>6, <1>9 DEF FlowIInv
  <1>13. QED
    BY <1>4, <1>8, <1>10, <1>11, <1>12 DEF FlowIInv

-----------------------------------------------------------------------------
(* The order a run makes.                                                  *)

\* What is said of orders follows the document, which does not change.
LEMMA RankedAfter ==
    ASSUME flow' = flow, NEW order, NEW depth
    PROVE  Ranked(order, depth)' <=> Ranked(order, depth)
  BY SameFlow DEF Ranked

LEMMA ExactAfter ==
    ASSUME flow' = flow, NEW order
    PROVE  Exact(order)' <=> Exact(order)
  BY SameFlow, RankedAfter DEF Exact

LEMMA LayeredAfter ==
    ASSUME flow' = flow, NEW r
    PROVE  Layered(r)' <=> Layered(r)
  BY SameFlow, RankedAfter DEF Layered

LEMMA CyclicAfter ==
    ASSUME flow' = flow
    PROVE  Cyclic' <=> Cyclic
  BY SameFlow DEF Cyclic

Later == CallPlaces \cup {"between", "ended"}

OrderHolds(r, place) ==
    /\ place = "rejected" => ~WellFormed \/ Cyclic
    /\ place \in Later => Exact(r.order)
    /\ place = "ordering" => /\ Len(r.order) = Cardinality(Ids \ r.remaining)
                             /\ Layered(r)

OrdersHold == \A s \in Session : OrderHolds(run[s], pc[s])

LEMMA OrderSplit == OrderIInv <=> FlowIInv /\ OrdersHold
  BY DEF OrderIInv, OrderIsExact, OrdersHold, OrderHolds, Later, AtCall

LEMMA OrderAfter ==
    ASSUME flow' = flow, NEW r, NEW place, OrderHolds(r, place)
    PROVE  OrderHolds(r, place)'
  <1>1. /\ WellFormed' <=> WellFormed
        /\ Cyclic' <=> Cyclic
        /\ Ids' = Ids
    BY SameFlow, CyclicAfter
  <1>2. PICK order : order = r.order
    OBVIOUS
  <1>3. Exact(order)' <=> Exact(order)
    BY ExactAfter
  <1>4. Exact(r.order)' <=> Exact(r.order)
    BY <1>2, <1>3
  <1>5. Layered(r)' <=> Layered(r)
    BY LayeredAfter
  <1>6. QED
    BY <1>1, <1>4, <1>5 DEF OrderHolds, Later, CallPlaces

LEMMA OrderStep ==
    ASSUME FlowIInv, OrdersHold, NEW s \in Session, NEW r, NEW place, flow' = flow,
           run' = [run EXCEPT ![s] = r], pc' = [pc EXCEPT ![s] = place],
           OrderHolds(r, place)
    PROVE  OrdersHold'
  <1>1. /\ run'[s] = r /\ pc'[s] = place
        /\ \A x \in Session \ {s} : run'[x] = run[x] /\ pc'[x] = pc[x]
    BY DEF FlowIInv, TypeOK
  <1>2. ASSUME NEW x \in Session PROVE OrderHolds(run[x], pc[x])'
    <2>1. OrderHolds(run'[x], pc'[x])
      <3>1. CASE x = s
        BY <1>1, <3>1
      <3>2. CASE x # s
        BY <1>1, <3>2 DEF OrdersHold
      <3>3. QED
        BY <3>1, <3>2
    <2>2. PICK q, there : q = run'[x] /\ there = pc'[x]
      OBVIOUS
    <2>3. OrderHolds(q, there)'
      BY <2>1, <2>2, OrderAfter
    <2>4. QED
      BY <2>2, <2>3
  <1>3. QED
    BY <1>2 DEF OrdersHold

\* A session whose order is made keeps it.
LEMMA OrderKept ==
    ASSUME FlowIInv, OrdersHold, NEW s \in Session, NEW r, NEW place, flow' = flow,
           run' = [run EXCEPT ![s] = r], pc' = [pc EXCEPT ![s] = place],
           place \in Later \cup {"aborted"}, place \in Later => pc[s] \in Later,
           r.order = run[s].order
    PROVE  OrdersHold'
  <1>1. OrderHolds(run[s], pc[s])
    BY DEF OrdersHold
  <1>2. OrderHolds(r, place)
    BY <1>1 DEF OrderHolds, Later, CallPlaces
  <1>3. QED
    BY <1>2, OrderStep

LEMMA IdsFinite == flow \in Flow => IsFiniteSet(Ids)
  BY FlowAssumption, IdsAreTaskIds, FS_Subset

LEMMA StartOrders ==
    ASSUME FlowIInv, OrdersHold, NEW s \in Session, NEW dry \in BOOLEAN,
           NEW confirmed \in BOOLEAN, Start(s, dry, confirmed)
    PROVE  OrdersHold'
  <1> DEFINE r == Fresh(dry, confirmed)
             place == IF WellFormed THEN "ordering" ELSE "rejected"
  <1>1. /\ flow' = flow /\ run' = [run EXCEPT ![s] = r] /\ pc' = [pc EXCEPT ![s] = place]
    BY DEF Start, Goto
  <1>2. r.order = <<>> /\ r.remaining = Ids /\ r.batch = {}
    BY DEF Fresh
  <1> HIDE DEF r
  <1>3. Len(r.order) = Cardinality(Ids \ r.remaining)
    <2>1. Ids \ r.remaining = {}
      BY <1>2
    <2>2. QED
      BY <1>2, <2>1, FS_EmptySet
  <1>4. Layered(r)
    <2> DEFINE depth == [t \in {} |-> 0]
    <2>1. (Ids \ r.remaining) \cup r.batch = {} /\ depth \in [{} -> 1..0]
      BY <1>2
    <2>2. Ranked(r.order, depth)
      BY <1>2 DEF Ranked
    <2>3. /\ 0 \in 0..(Len(r.order) + 1)
          /\ 0 <= Len(r.order) + IF r.batch = {} THEN 0 ELSE 1
      BY <1>2
    <2> HIDE DEF depth
    <2>4. PICK k \in 0..(Len(r.order) + 1) : k = 0
      BY <2>3
    <2>5. depth \in [(Ids \ r.remaining) \cup r.batch -> 1..k]
      BY <2>1, <2>4
    <2>6. ~(k > 0) /\ k <= Len(r.order) + IF r.batch = {} THEN 0 ELSE 1
      <3>1. ~(k > 0)
        BY <2>4
      <3>2. Len(r.order) = 0
        BY <1>2
      <3>3. QED
        BY <1>2, <2>4, <3>1, <3>2
    <2>7. \A t \in r.batch : FALSE
      BY <1>2
    <2>8. QED
      BY <2>2, <2>5, <2>6, <2>7 DEF Layered
  <1>5. OrderHolds(r, place)
    BY <1>3, <1>4 DEF OrderHolds, Later, CallPlaces
  <1> HIDE DEF place
  <1>6. QED
    BY <1>1, <1>5, OrderStep

\* A round that finds no task ready has found a cycle.
LEMMA RoundRejects ==
    ASSUME FlowIInv, OrdersHold, NEW s \in Session, OrderRound(s),
           Ready(run[s].remaining) = {}
    PROVE  OrdersHold'
  <1>1. /\ pc' = [pc EXCEPT ![s] = "rejected"] /\ run' = run /\ flow' = flow
        /\ run[s].remaining # {} /\ pc[s] = "ordering"
    BY DEF OrderRound, Goto
  <1>2. run' = [run EXCEPT ![s] = run[s]]
    BY <1>1 DEF FlowIInv, TypeOK
  <1>3. run[s].remaining \subseteq Ids
    BY <1>1, OrderIsHonest DEF InProgress, OrderHonest
  <1>4. \A t \in run[s].remaining : TheTask(t).needs \cap run[s].remaining # {}
    BY DEF Ready
  <1>5. Cyclic
    BY <1>1, <1>3, <1>4 DEF Cyclic
  <1>6. OrderHolds(run[s], "rejected")
    BY <1>5 DEF OrderHolds, Later, CallPlaces
  <1>7. QED
    BY <1>1, <1>2, <1>6, OrderStep

\* The tasks of the next round come one deeper than those before it.
LEMMA RoundOrders ==
    ASSUME FlowIInv, OrdersHold, NEW s \in Session, OrderRound(s),
           Ready(run[s].remaining) # {}
    PROVE  OrdersHold'
  <1> DEFINE q == run[s]
             ready == Ready(q.remaining)
             r == [q EXCEPT !.batch = ready]
  <1>1. /\ pc[s] = "ordering" /\ flow' = flow /\ q.batch = {}
        /\ q \in Locals /\ run \in [Session -> Locals] /\ DOMAIN pc = Session
        /\ flow \in Flow /\ run' = [run EXCEPT ![s].batch = ready] /\ pc' = pc
    BY DEF OrderRound, FlowIInv, TypeOK
  <1>2. run' = [run EXCEPT ![s] = r] /\ pc' = [pc EXCEPT ![s] = "ordering"]
    BY <1>1 DEF FlowIInv, TypeOK
  <1>3. r.batch = ready /\ r.order = q.order /\ r.remaining = q.remaining
    BY <1>1 DEF Locals
  <1>4. OrderHonest(q) /\ Len(q.order) = Cardinality(Ids \ q.remaining) /\ Layered(q)
    BY <1>1, OrderIsHonest DEF InProgress, OrdersHold, OrderHolds
  <1>5. /\ WellFormed /\ q.remaining \subseteq Ids /\ ready # {}
        /\ {q.order[i] : i \in DOMAIN q.order} = Ids \ q.remaining
        /\ q.order \in Seq(TaskId)
    BY <1>1, <1>4 DEF OrderHonest, Locals
  <1>6. /\ ready \subseteq q.remaining
        /\ \A t \in ready : TheTask(t).needs \subseteq Ids \ q.remaining
        /\ \A t \in q.remaining \ ready : \E u \in TheTask(t).needs : u \in q.remaining
    <2>1. \A t \in ready : TheTask(t).needs \subseteq Ids
      BY <1>1, <1>5, NeedsAreIds DEF Ready
    <2>2. QED
      BY <2>1 DEF Ready
  <1> HIDE DEF ready, r, q
  <1> DEFINE D == Ids \ q.remaining
             n == Len(q.order)
  <1>7. PICK k \in 0..(n + 1) : \E depth \in [D -> 1..k] :
            /\ k <= n + 0
            /\ Ranked(q.order, depth)
            /\ k > 0 => \A t \in q.remaining : \E u \in TheTask(t).needs :
                   u \in q.remaining \/ depth[u] = k
    <2>1. PICK k \in 0..(Len(q.order) + 1) :
            \E depth \in [(Ids \ q.remaining) \cup q.batch -> 1..k] :
            /\ k <= Len(q.order) + IF q.batch = {} THEN 0 ELSE 1
            /\ Ranked(q.order, depth)
            /\ \A t \in q.batch :
                   /\ depth[t] = k
                   /\ \A i \in DOMAIN q.order : depth[q.order[i]] = k => q.order[i] < t
            /\ k > 0 => \A t \in q.remaining \ q.batch : \E u \in TheTask(t).needs :
                   u \in q.remaining \/ depth[u] = k
      BY <1>4 DEF Layered
    <2>2. (Ids \ q.remaining) \cup q.batch = D /\ q.remaining \ q.batch = q.remaining
      BY <1>1
    <2>3. QED
      BY <1>1, <2>1, <2>2
  <1>8. PICK depth \in [D -> 1..k] :
            /\ k <= n
            /\ Ranked(q.order, depth)
            /\ k > 0 => \A t \in q.remaining : \E u \in TheTask(t).needs :
                   u \in q.remaining \/ depth[u] = k
    <2>1. n \in Nat
      BY <1>5
    <2>2. QED
      BY <1>7, <2>1
  <1> DEFINE E == D \cup ready
             next == [t \in E |-> IF t \in ready THEN k + 1 ELSE depth[t]]
  <1>9. n \in Nat /\ k \in Nat /\ D \cap ready = {} /\ (k = 0 => D = {})
    <2>1. n \in Nat /\ k \in Nat
      BY <1>5
    <2>2. D \cap ready = {}
      BY <1>6
    <2>3. k = 0 => D = {}
      BY <1>8
    <2>4. QED
      BY <2>1, <2>2, <2>3
  <1>10. /\ next \in [E -> 1..(k + 1)]
         /\ \A t \in D : next[t] = depth[t] /\ depth[t] \in 1..k
         /\ \A t \in ready : next[t] = k + 1
         /\ DOMAIN next = E /\ DOMAIN depth = D
    BY <1>8, <1>9
  <1>11. \A i \in DOMAIN q.order : q.order[i] \in D
    BY <1>5
  <1>12. /\ \A t \in D : \A u \in TheTask(t).needs : u \in D /\ depth[u] < depth[t]
         /\ \A t \in D : depth[t] = 1 \/ \E u \in TheTask(t).needs : depth[u] = depth[t] - 1
         /\ \A i, j \in DOMAIN q.order : i < j =>
              \/ depth[q.order[i]] < depth[q.order[j]]
              \/ depth[q.order[i]] = depth[q.order[j]] /\ q.order[i] < q.order[j]
    BY <1>8, <1>10 DEF Ranked
  <1> HIDE DEF D, E, next, n
  <1>13. Ranked(q.order, next)
    <2>1. \A t \in E : \A u \in TheTask(t).needs : u \in E /\ next[u] < next[t]
      <3> TAKE t \in E
      <3> TAKE u \in TheTask(t).needs
      <3>1. CASE t \in ready
        <4>1. u \in D
          BY <1>6, <3>1 DEF D
        <4>2. QED
          BY <1>9, <1>10, <3>1, <4>1 DEF E
      <3>2. CASE t \in D
        <4>1. u \in D /\ depth[u] < depth[t]
          BY <1>12, <3>2
        <4>2. QED
          BY <1>10, <3>2, <4>1 DEF E
      <3>3. QED
        BY <3>1, <3>2 DEF E
    <2>2. \A t \in E : next[t] = 1 \/ \E u \in TheTask(t).needs : next[u] = next[t] - 1
      <3> TAKE t \in E
      <3>1. CASE t \in ready /\ k = 0
        BY <1>10, <3>1
      <3>2. CASE t \in ready /\ k # 0
        <4>1. PICK u \in TheTask(t).needs : u \in q.remaining \/ depth[u] = k
          BY <1>6, <1>8, <1>9, <3>2
        <4>2. u \in D /\ depth[u] = k
          BY <1>6, <3>2, <4>1 DEF D
        <4>3. next[u] = next[t] - 1
          BY <1>9, <1>10, <3>2, <4>2
        <4>4. QED
          BY <4>3
      <3>3. CASE t \in D
        <4>1. depth[t] = 1 \/ \E u \in TheTask(t).needs : depth[u] = depth[t] - 1
          BY <1>12, <3>3
        <4>2. \A u \in TheTask(t).needs : next[u] = depth[u]
          BY <1>10, <1>12, <3>3
        <4>3. QED
          BY <1>10, <3>3, <4>1, <4>2
      <3>4. QED
        BY <3>1, <3>2, <3>3 DEF E
    <2>3. \A i, j \in DOMAIN q.order : i < j =>
              \/ next[q.order[i]] < next[q.order[j]]
              \/ next[q.order[i]] = next[q.order[j]] /\ q.order[i] < q.order[j]
      BY <1>10, <1>11, <1>12
    <2>4. QED
      BY <1>10, <2>1, <2>2, <2>3 DEF Ranked
  <1>14. Layered(r)
    <2>1. (Ids \ r.remaining) \cup r.batch = E
      BY <1>3 DEF E, D
    <2>2. k + 1 \in 0..(Len(r.order) + 1) /\ k + 1 <= Len(r.order) + 1
      BY <1>3, <1>8, <1>9 DEF n
    <2>3. r.batch # {}
      BY <1>3, <1>5
    <2>4. \A t \in r.batch :
            /\ next[t] = k + 1
            /\ \A i \in DOMAIN r.order : next[r.order[i]] = k + 1 => r.order[i] < t
      <3>1. \A i \in DOMAIN r.order : next[r.order[i]] # k + 1
        BY <1>3, <1>9, <1>10, <1>11
      <3>2. QED
        BY <1>3, <1>10, <3>1
    <2>5. \A t \in r.remaining \ r.batch : \E u \in TheTask(t).needs :
            u \in r.remaining \/ next[u] = k + 1
      BY <1>3, <1>6
    <2>6. Ranked(r.order, next)
      BY <1>3, <1>13
    <2>7. PICK m : m = k + 1
      OBVIOUS
    <2>8. /\ m \in 0..(Len(r.order) + 1)
          /\ next \in [(Ids \ r.remaining) \cup r.batch -> 1..m]
          /\ m <= Len(r.order) + IF r.batch = {} THEN 0 ELSE 1
      BY <1>10, <2>1, <2>2, <2>3, <2>7
    <2>9. QED
      BY <2>4, <2>5, <2>6, <2>7, <2>8 DEF Layered
  <1>15. OrderHolds(r, "ordering")
    BY <1>3, <1>4, <1>14 DEF OrderHolds, Later, CallPlaces
  <1>16. QED
    BY <1>1, <1>2, <1>15, OrderStep

\* The task placed is the least of its round.
LEMMA PlaceOrders ==
    ASSUME FlowIInv, OrdersHold, NEW s \in Session, OrderTask(s)
    PROVE  OrdersHold'
  <1> DEFINE q == run[s]
  <1>1. /\ pc[s] = "ordering" /\ flow' = flow /\ flow \in Flow
        /\ q \in Locals /\ run \in [Session -> Locals]
        /\ pc' = [pc EXCEPT ![s] = "ordering"]
    BY DEF OrderTask, FlowIInv, TypeOK
  <1>2. OrderHonest(q) /\ Len(q.order) = Cardinality(Ids \ q.remaining) /\ Layered(q)
    BY <1>1, OrderIsHonest DEF InProgress, OrdersHold, OrderHolds
  <1>3. PICK t \in q.batch :
          /\ \A u \in q.batch : t <= u
          /\ run' = [run EXCEPT ![s].batch = @ \ {t}, ![s].remaining = @ \ {t},
                                ![s].order = Append(@, t)]
    BY DEF OrderTask
  <1> DEFINE r1 == [q EXCEPT !.batch = @ \ {t}]
             r2 == [r1 EXCEPT !.remaining = @ \ {t}]
             r == [r2 EXCEPT !.order = Append(@, t)]
  <1>4. run' = [run EXCEPT ![s] = r]
    BY <1>1, <1>3
  <1>5. /\ r.order = Append(q.order, t) /\ r.remaining = q.remaining \ {t}
        /\ r.batch = q.batch \ {t}
    BY <1>1 DEF Locals
  <1>6. /\ q.order \in Seq(TaskId) /\ t \in TaskId /\ t \in Ids /\ t \in q.remaining
        /\ q.batch \subseteq q.remaining /\ q.remaining \subseteq Ids
        /\ {q.order[i] : i \in DOMAIN q.order} = Ids \ q.remaining
        /\ TaskId \subseteq Nat /\ q.batch \subseteq TaskId
    BY <1>1, <1>2, FlowAssumption DEF OrderHonest, Ready, Locals
  <1> HIDE DEF r, q
  <1> DEFINE n == Len(q.order)
             D == (Ids \ q.remaining) \cup q.batch
  <1>7. /\ n \in Nat /\ DOMAIN q.order = 1..n /\ DOMAIN r.order = 1..(n + 1)
        /\ Len(r.order) = n + 1
        /\ \A i \in 1..n : r.order[i] = q.order[i] /\ r.order[i] \in D /\ r.order[i] \in Nat
        /\ r.order[n + 1] = t
    BY <1>5, <1>6
  <1>8. (Ids \ r.remaining) \cup r.batch = D
    BY <1>5, <1>6
  <1>9. PICK k \in 0..(n + 1) : \E depth \in [D -> 1..k] :
            /\ k <= n + IF q.batch = {} THEN 0 ELSE 1
            /\ Ranked(q.order, depth)
            /\ \A u \in q.batch :
                   /\ depth[u] = k
                   /\ \A i \in DOMAIN q.order : depth[q.order[i]] = k => q.order[i] < u
            /\ k > 0 => \A x \in q.remaining \ q.batch : \E u \in TheTask(x).needs :
                   u \in q.remaining \/ depth[u] = k
    BY <1>2 DEF Layered
  <1>10. PICK depth \in [D -> 1..k] :
            /\ Ranked(q.order, depth)
            /\ \A u \in q.batch :
                   /\ depth[u] = k
                   /\ \A i \in DOMAIN q.order : depth[q.order[i]] = k => q.order[i] < u
            /\ k > 0 => \A x \in q.remaining \ q.batch : \E u \in TheTask(x).needs :
                   u \in q.remaining \/ depth[u] = k
    BY <1>9
  <1> HIDE DEF D, n
  <1>11. Ranked(r.order, depth)
    <2>1. \A i, j \in DOMAIN r.order : i < j =>
              \/ depth[r.order[i]] < depth[r.order[j]]
              \/ depth[r.order[i]] = depth[r.order[j]] /\ r.order[i] < r.order[j]
      <3> SUFFICES ASSUME NEW i \in DOMAIN r.order, NEW j \in DOMAIN r.order, i < j
                   PROVE  \/ depth[r.order[i]] < depth[r.order[j]]
                          \/ /\ depth[r.order[i]] = depth[r.order[j]]
                             /\ r.order[i] < r.order[j]
        OBVIOUS
      <3>1. i \in 1..n /\ depth[r.order[i]] \in 1..k /\ depth[t] = k
        BY <1>3, <1>7, <1>10
      <3>2. CASE j \in 1..n
        <4>1. r.order[i] = q.order[i] /\ r.order[j] = q.order[j]
          BY <1>7, <3>1, <3>2
        <4>2. \/ depth[q.order[i]] < depth[q.order[j]]
              \/ depth[q.order[i]] = depth[q.order[j]] /\ q.order[i] < q.order[j]
          BY <1>7, <1>10, <3>1, <3>2 DEF Ranked
        <4>3. QED
          BY <4>1, <4>2
      <3>3. CASE j = n + 1
        <4>1. r.order[j] = t
          BY <1>7, <3>3
        <4>2. CASE depth[r.order[i]] = k
          <5>1. r.order[i] < t
            BY <1>3, <1>7, <1>10, <3>1, <4>2
          <5>2. QED
            BY <3>1, <4>1, <4>2, <5>1
        <4>3. CASE depth[r.order[i]] # k
          BY <3>1, <4>1, <4>3
        <4>4. QED
          BY <4>2, <4>3
      <3>4. QED
        BY <1>7, <3>2, <3>3
    <2>2. QED
      BY <1>10, <2>1 DEF Ranked
  <1>12. \A u \in r.batch :
            /\ depth[u] = k
            /\ \A i \in DOMAIN r.order : depth[r.order[i]] = k => r.order[i] < u
    <2> SUFFICES ASSUME NEW u \in r.batch
                 PROVE  /\ depth[u] = k
                        /\ \A i \in DOMAIN r.order : depth[r.order[i]] = k => r.order[i] < u
      OBVIOUS
    <2>1. u \in q.batch /\ u # t /\ u \in Nat /\ t \in Nat /\ t <= u
      BY <1>3, <1>5, <1>6
    <2>2. t < u
      BY <2>1
    <2>3. depth[u] = k
      BY <1>10, <2>1
    <2>4. ASSUME NEW i \in DOMAIN r.order, depth[r.order[i]] = k
          PROVE  r.order[i] < u
      <3>1. CASE i \in 1..n
        BY <1>7, <1>10, <2>1, <2>4, <3>1
      <3>2. CASE i = n + 1
        BY <1>7, <2>2, <3>2
      <3>3. QED
        BY <1>7, <3>1, <3>2
    <2>5. QED
      BY <2>3, <2>4
  <1>13. k > 0 => \A x \in r.remaining \ r.batch : \E u \in TheTask(x).needs :
            u \in r.remaining \/ depth[u] = k
    <2> SUFFICES ASSUME k > 0, NEW x \in r.remaining \ r.batch
                 PROVE  \E u \in TheTask(x).needs : u \in r.remaining \/ depth[u] = k
      OBVIOUS
    <2>1. x \in q.remaining \ q.batch
      BY <1>3, <1>5
    <2>2. PICK u \in TheTask(x).needs : u \in q.remaining \/ depth[u] = k
      BY <1>10, <2>1
    <2>3. depth[t] = k
      BY <1>3, <1>10
    <2>4. u \in r.remaining \/ depth[u] = k
      BY <1>5, <2>2, <2>3
    <2>5. QED
      BY <2>4
  <1>14. Layered(r)
    <2>1. k \in Nat /\ k <= n + 1
      BY <1>7
    <2>2. /\ k \in 0..(Len(r.order) + 1)
          /\ k <= Len(r.order) + IF r.batch = {} THEN 0 ELSE 1
      BY <1>7, <2>1
    <2>3. depth \in [(Ids \ r.remaining) \cup r.batch -> 1..k]
      BY <1>8
    <2>4. QED
      BY <1>11, <1>12, <1>13, <2>2, <2>3 DEF Layered
  <1>15. Len(r.order) = Cardinality(Ids \ r.remaining)
    <2> DEFINE S == Ids \ q.remaining
    <2>1. IsFiniteSet(S) /\ t \notin S /\ Ids \ r.remaining = S \cup {t}
      BY <1>1, <1>5, <1>6, IdsFinite, FS_Subset
    <2>2. n = Cardinality(S)
      BY <1>2 DEF n, q
    <2> HIDE DEF S
    <2>3. Cardinality(S \cup {t}) = Cardinality(S) + 1
      BY <2>1, FS_AddElement
    <2>4. QED
      BY <1>7, <2>1, <2>2, <2>3
  <1>16. OrderHolds(r, "ordering")
    BY <1>14, <1>15 DEF OrderHolds, Later, CallPlaces
  <1>17. QED
    BY <1>1, <1>4, <1>16, OrderStep

\* When no task remains, the order is exact.
LEMMA AnnounceOrders ==
    ASSUME FlowIInv, OrdersHold, NEW s \in Session, Announce(s)
    PROVE  OrdersHold'
  <1> DEFINE q == run[s]
  <1>1. /\ pc[s] = "ordering" /\ flow' = flow /\ q.remaining = {}
        /\ q \in Locals /\ run \in [Session -> Locals]
        /\ run' = [run EXCEPT ![s] = q] /\ pc' = [pc EXCEPT ![s] = "between"]
    BY DEF Announce, Goto, FlowIInv, TypeOK
  <1>2. OrderHonest(q) /\ Len(q.order) = Cardinality(Ids \ q.remaining) /\ Layered(q)
    BY <1>1, OrderIsHonest DEF InProgress, OrdersHold, OrderHolds
  <1>3. /\ q.batch = {} /\ WellFormed /\ Ids \ q.remaining = Ids
        /\ {q.order[i] : i \in DOMAIN q.order} = Ids
        /\ q.order \in Seq(TaskId)
    BY <1>1, <1>2 DEF OrderHonest, Ready, Locals
  <1> HIDE DEF q
  <1>4. (Ids \ q.remaining) \cup q.batch = Ids
    BY <1>3
  <1>5. PICK k \in 0..(Len(q.order) + 1) : \E depth \in [Ids -> 1..k] :
            /\ k <= Len(q.order) + IF q.batch = {} THEN 0 ELSE 1
            /\ Ranked(q.order, depth)
    BY <1>2, <1>4 DEF Layered
  <1>6. Len(q.order) \in Nat /\ k <= Len(q.order)
    BY <1>3, <1>5
  <1>7. PICK depth \in [Ids -> 1..k] : Ranked(q.order, depth)
    BY <1>5
  <1>8. depth \in [Ids -> 1..Len(q.order)]
    BY <1>6
  <1>9. Exact(q.order)
    BY <1>2, <1>3, <1>7, <1>8 DEF Exact
  <1>10. OrderHolds(q, "between")
    BY <1>9 DEF OrderHolds
  <1>11. QED
    BY <1>1, <1>10, OrderStep

\* Nothing a run does after that changes it.
LEMMA LaterOrders ==
    ASSUME FlowIInv, OrdersHold, NEW s \in Session,
           \/ ResolveArgs(s) \/ GoAhead(s) \/ Consume(s) \/ Dispatch(s) \/ Finish(s)
           \/ ResolveFails(s) \/ Unsupported(s) \/ Refuse(s) \/ Abort(s) \/ Return(s)
    PROVE  OrdersHold'
  <1>1. run \in [Session -> Locals] /\ run[s] \in Locals /\ DOMAIN pc = Session
    BY DEF FlowIInv, TypeOK
  <1>2. ASSUME NEW status \in {"failed", "setup_required", "blocked"},
               AtCall(s) \/ AtTask(s)
        PROVE  Stopped(s, Current(s), status).order = run[s].order
    BY <1>2, StoppedType
  <1>3. CASE ResolveArgs(s)
    <2>1. PICK f : run' = [run EXCEPT ![s] = [run[s] EXCEPT !.args = f]]
      BY <1>1, <1>3 DEF ResolveArgs
    <2>2. [run[s] EXCEPT !.args = f].order = run[s].order
      BY <1>1 DEF Locals
    <2>3. /\ flow' = flow /\ pc' = [pc EXCEPT ![s] = "calling"] /\ pc[s] = "between"
      BY <1>3 DEF ResolveArgs, AtTask, Goto
    <2>4. QED
      BY <2>1, <2>2, <2>3, OrderKept DEF Later, CallPlaces
  <1>4. CASE GoAhead(s) \/ Consume(s) \/ Dispatch(s) \/ Abort(s)
    <2>1. /\ run' = [run EXCEPT ![s] = run[s]] /\ flow' = flow
          /\ \E place \in {"started", "consuming", "running", "aborted"} :
                /\ pc' = [pc EXCEPT ![s] = place]
                /\ place # "aborted" => pc[s] \in CallPlaces
      BY <1>1, <1>4 DEF GoAhead, Consume, Dispatch, Abort, Goto, CallPlaces
    <2>2. QED
      BY <2>1, OrderKept DEF Later, CallPlaces
  <1>5. CASE Finish(s)
    <2>1. PICK status : run' = [run EXCEPT ![s] = [run[s] EXCEPT !.status = status]]
      BY <1>1, <1>5 DEF Finish
    <2>2. [run[s] EXCEPT !.status = status].order = run[s].order
      BY <1>1 DEF Locals
    <2>3. /\ flow' = flow /\ pc' = [pc EXCEPT ![s] = "ended"] /\ pc[s] = "between"
      BY <1>5 DEF Finish, Goto
    <2>4. QED
      BY <2>1, <2>2, <2>3, OrderKept DEF Later
  <1>6. CASE ResolveFails(s) \/ Unsupported(s) \/ Refuse(s)
    <2>1. /\ AtCall(s) \/ AtTask(s)
          /\ flow' = flow /\ pc[s] \in Later
      BY <1>6 DEF ResolveFails, Unsupported, Refuse, AtCall, AtTask, Later, CallPlaces
    <2>2. pc' = [pc EXCEPT ![s] = "between"]
      <3>1. CASE ResolveFails(s)
        <4>1. pc[s] = "between" /\ pc' = pc
          BY <3>1 DEF ResolveFails, AtTask
        <4>2. QED
          BY <1>1, <4>1 DEF FlowIInv, TypeOK
      <3>2. CASE ~ResolveFails(s)
        BY <1>6, <3>2 DEF Unsupported, Refuse, Goto
      <3>3. QED
        BY <3>1, <3>2
    <2>3. \E status \in {"failed", "blocked"} :
              run' = [run EXCEPT ![s] = Stopped(s, Current(s), status)]
      BY <1>6 DEF ResolveFails, Unsupported, Refuse
    <2>4. QED
      BY <1>2, <2>1, <2>2, <2>3, OrderKept DEF Later
  <1>7. CASE Return(s)
    <2>1. /\ AtCall(s) /\ flow' = flow /\ pc[s] \in Later
          /\ pc' = [pc EXCEPT ![s] = "between"]
      BY <1>7 DEF Return, Goto, AtCall, Later, CallPlaces
    <2>2. PICK outcome \in Outcomes, v \in Value :
            run' = [run EXCEPT ![s] =
              IF outcome = "completed"
              THEN [run[s] EXCEPT !.results =
                      Append(run[s].results, Result(Current(s), "completed", v))]
              ELSE Stopped(s, Current(s), outcome)]
      BY <1>7 DEF Return
    <2> DEFINE longer == [run[s] EXCEPT !.results =
                            Append(run[s].results, Result(Current(s), "completed", v))]
               r == IF outcome = "completed" THEN longer ELSE Stopped(s, Current(s), outcome)
    <2>3. run' = [run EXCEPT ![s] = r]
      BY <2>2
    <2>4. longer.order = run[s].order
      BY <1>1 DEF Locals
    <2>5. outcome # "completed" => Stopped(s, Current(s), outcome).order = run[s].order
      <3>1. outcome # "completed" => outcome \in {"failed", "setup_required", "blocked"}
        BY FlowAssumption
      <3>2. QED
        BY <1>2, <2>1, <3>1
    <2> HIDE DEF longer
    <2>6. r.order = run[s].order
      BY <2>4, <2>5
    <2> HIDE DEF r
    <2>7. QED
      BY <2>1, <2>3, <2>6, OrderKept DEF Later
  <1>8. QED
    BY <1>3, <1>4, <1>5, <1>6, <1>7

LEMMA OrdersInit == Init => OrdersHold
  BY DEF Init, OrdersHold, OrderHolds, Later, CallPlaces

LEMMA OrdersNext ==
    ASSUME FlowIInv, OrdersHold, [Next]_vars
    PROVE  OrdersHold'
  <1>1. ASSUME NEW s \in Session, NEW m \in Modes, Start(s, m[1], m[2]) PROVE OrdersHold'
    <2>1. m[1] \in BOOLEAN /\ m[2] \in BOOLEAN
      BY FlowAssumption
    <2>2. QED
      BY <1>1, <2>1, StartOrders
  <1>2. ASSUME NEW s \in Session, RunStep(s) PROVE OrdersHold'
    BY <1>2, RoundRejects, RoundOrders, PlaceOrders, AnnounceOrders, LaterOrders DEF RunStep
  <1>3. ASSUME NEW s \in Session, ResolveFails(s) \/ Unsupported(s) \/ Abort(s)
        PROVE  OrdersHold'
    BY <1>3, LaterOrders
  <1>4. ASSUME UNCHANGED <<flow, pc, run>> PROVE OrdersHold'
    <2>1. ASSUME NEW s \in Session PROVE OrderHolds(run[s], pc[s])'
      <3>1. PICK r, place : r = run[s] /\ place = pc[s]
        OBVIOUS
      <3>2. OrderHolds(r, place)'
        BY <1>4, <3>1, OrderAfter DEF OrdersHold
      <3>3. QED
        BY <1>4, <3>1, <3>2
    <2>2. QED
      BY <2>1 DEF OrdersHold
  <1>5. QED
    BY <1>1, <1>2, <1>3, <1>4 DEF Next, Decide, EditApproval, vars

-----------------------------------------------------------------------------
(* What a run reports.                                                     *)

\* What is said of a run's report follows the document, which does not change.
LEMMA ReportAfter ==
    ASSUME flow' = flow, NEW s \in Session, NEW ran, ran = Ran(run[s].number)',
           ReportHonest(run'[s], pc'[s], ran)
    PROVE  ReportHonest(run[s], pc[s], Ran(run[s].number))'
  BY SameFlow DEF ReportHonest, Underway, Reported, Real, CallPlaces

\* The numbers of runs, and the effects recorded under them.
Numbered ==
    /\ \A i \in DOMAIN effects : effects[i].run <= runs
    /\ \A s \in Session : pc[s] # "idle" =>
           /\ run[s].number <= runs
           /\ \A x \in Session \ {s} : pc[x] # "idle" => run[x].number # run[s].number

Reports ==
    \A s \in Session : pc[s] # "idle" => ReportHonest(run[s], pc[s], Ran(run[s].number))

LEMMA ReportSplit == ReportIInv <=> FlowIInv /\ Numbered /\ Reports
  BY DEF ReportIInv, Numbered, Reports

\* A step of a session under way: it keeps its number, what it does it does under it,
\* and the other sessions' reports are none of its business.
LEMMA ReportStep ==
    ASSUME FlowIInv, Numbered, Reports, NEW s \in Session, NEW r, NEW place,
           flow' = flow, runs' = runs,
           run' = [run EXCEPT ![s] = r], pc' = [pc EXCEPT ![s] = place],
           pc[s] # "idle", r.number = run[s].number,
           effects' = effects \/ \E e : e.run = r.number /\ effects' = Append(effects, e),
           NEW ran, ran = Ran(r.number)', ReportHonest(r, place, ran)
    PROVE  Numbered' /\ Reports'
  <1>1. /\ run'[s] = r /\ pc'[s] = place
        /\ \A x \in Session \ {s} : run'[x] = run[x] /\ pc'[x] = pc[x]
    BY DEF FlowIInv, TypeOK
  <1>2. \A x \in Session : run'[x].number = run[x].number
    BY <1>1
  <1>3. effects \in Seq(Effect)
    BY Zenon DEF FlowIInv, TypeOK, Effect
  <1>4. \A i \in DOMAIN effects' :
            \/ i \in DOMAIN effects /\ effects'[i] = effects[i]
            \/ effects'[i].run = r.number
    <2>1. ASSUME NEW e, e.run = r.number, effects' = Append(effects, e)
          PROVE  \A i \in DOMAIN effects' :
                    \/ i \in DOMAIN effects /\ effects'[i] = effects[i]
                    \/ effects'[i].run = r.number
      BY <1>3, <2>1
    <2>2. QED
      BY <2>1
  <1>5. \A i \in DOMAIN effects : i \in DOMAIN effects' /\ effects'[i] = effects[i]
    <2>1. ASSUME NEW e, effects' = Append(effects, e)
          PROVE  \A i \in DOMAIN effects : i \in DOMAIN effects' /\ effects'[i] = effects[i]
      BY <1>3, <2>1
    <2>2. QED
      BY <2>1
  <1>6. Numbered'
    <2>1. \A i \in DOMAIN effects' : effects'[i].run <= runs'
      BY <1>4 DEF Numbered
    <2>2. \A x \in Session : pc'[x] # "idle" => pc[x] # "idle"
      BY <1>1
    <2>3. QED
      BY <1>2, <2>1, <2>2 DEF Numbered
  <1>7. Reports'
    <2> SUFFICES ASSUME NEW x \in Session, pc'[x] # "idle"
                 PROVE  ReportHonest(run[x], pc[x], Ran(run[x].number))'
      BY DEF Reports
    <2>1. CASE x = s
      <3>1. ran = Ran(run[s].number)'
        BY <1>1 DEF Ran
      <3>2. ReportHonest(run'[s], pc'[s], ran)
        BY <1>1
      <3>3. QED
        BY <2>1, <3>1, <3>2, ReportAfter
    <2>2. CASE x # s
      <3>1. pc[x] # "idle" /\ run[x].number # r.number
        BY <1>1, <2>2 DEF Numbered
      <3>2. Ran(run[x].number) = Ran(run[x].number)'
        <4> DEFINE n == run[x].number
                   before == {j \in DOMAIN effects : effects[j].run = n}
                   after == {j \in DOMAIN effects' : effects'[j].run = n}
        <4>1. before = after /\ \A j \in before : effects'[j] = effects[j]
          BY <1>4, <1>5, <3>1
        <4>2. {effects[j].scope.task : j \in before} = {effects'[j].scope.task : j \in after}
          BY <4>1
        <4>3. run'[x].number = n
          BY <1>2
        <4>4. QED
          BY <4>2, <4>3 DEF Ran
      <3>3. ReportHonest(run[x], pc[x], Ran(run[x].number))
        BY <3>1 DEF Reports
      <3>4. run'[x] = run[x] /\ pc'[x] = pc[x]
        BY <1>1, <2>2
      <3>5. ReportHonest(run'[x], pc'[x], Ran(run[x].number))
        BY <3>3, <3>4
      <3>6. QED
        BY <3>2, <3>5, ReportAfter
    <2>3. QED
      BY <2>1, <2>2
  <1>8. QED
    BY <1>6, <1>7

\* One that does nothing for real.
LEMMA QuietStep ==
    ASSUME FlowIInv, Numbered, Reports, NEW s \in Session, NEW r, NEW place,
           UNCHANGED <<flow, runs, effects>>,
           run' = [run EXCEPT ![s] = r], pc' = [pc EXCEPT ![s] = place],
           pc[s] # "idle", r.number = run[s].number,
           ReportHonest(r, place, Ran(run[s].number))
    PROVE  Numbered' /\ Reports'
  <1> DEFINE ran == Ran(run[s].number)
  <1>1. Ran(r.number)' = Ran(r.number)
    BY DEF Ran
  <1>2. ran = Ran(r.number)
    OBVIOUS
  <1>3. PICK known : known = Ran(r.number)
    OBVIOUS
  <1>4. known = Ran(r.number)' /\ ReportHonest(r, place, known)
    BY <1>1, <1>2, <1>3
  <1>5. QED
    BY <1>4, ReportStep

\* A run begins under a number nothing was done under.
LEMMA StartReports ==
    ASSUME FlowIInv, Numbered, Reports, NEW s \in Session, NEW dry \in BOOLEAN,
           NEW confirmed \in BOOLEAN, Start(s, dry, confirmed)
    PROVE  Numbered' /\ Reports'
  <1> DEFINE r == Fresh(dry, confirmed)
             place == IF WellFormed THEN "ordering" ELSE "rejected"
  <1>1. /\ flow' = flow /\ effects' = effects /\ runs' = runs + 1 /\ runs \in Nat
        /\ run'[s] = r /\ pc'[s] = place
        /\ \A x \in Session \ {s} : run'[x] = run[x] /\ pc'[x] = pc[x]
    BY FlowAssumption DEF Start, Goto, FlowIInv, TypeOK
  <1>2. r.number = runs + 1 /\ r.order = <<>>
    BY DEF Fresh
  <1>3. \A i \in DOMAIN effects : effects[i].run \in Nat
    <2>1. effects \in Seq(Effect)
      BY Zenon DEF FlowIInv, TypeOK, Effect
    <2>2. \A i \in DOMAIN effects : effects[i] \in Effect
      BY <2>1
    <2>3. QED
      BY <2>2 DEF Effect
  <1>4. \A x \in Session : run[x].number \in Nat
    BY DEF FlowIInv, TypeOK, Locals
  <1>5. Ran(runs + 1) = {}
    BY <1>1, <1>3 DEF Ran, Numbered
  <1>6. place \in {"ordering", "rejected"}
    OBVIOUS
  <1> HIDE DEF r, place
  <1>7. ReportHonest(r, place, {})
    BY <1>2, <1>6 DEF ReportHonest, CallPlaces
  <1>8. Numbered'
    <2>1. \A i \in DOMAIN effects' : effects'[i].run <= runs'
      BY <1>1, <1>3 DEF Numbered
    <2>2. ASSUME NEW x \in Session, pc'[x] # "idle"
          PROVE  /\ run'[x].number <= runs'
                 /\ \A y \in Session \ {x} : pc'[y] # "idle" => run'[y].number # run'[x].number
      <3>1. \A y \in Session \ {s} : pc'[y] # "idle" => run[y].number <= runs
        BY <1>1 DEF Numbered
      <3>2. QED
        BY <1>1, <1>2, <1>4, <2>2, <3>1 DEF Numbered
    <2>3. QED
      BY <2>1, <2>2 DEF Numbered
  <1>9. Reports'
    <2> SUFFICES ASSUME NEW x \in Session, pc'[x] # "idle"
                 PROVE  ReportHonest(run[x], pc[x], Ran(run[x].number))'
      BY DEF Reports
    <2>1. Ran(run[x].number)' = Ran(run'[x].number)
      BY <1>1 DEF Ran
    <2>2. CASE x = s
      <3>1. {} = Ran(run[x].number)' /\ ReportHonest(run'[x], pc'[x], {})
        BY <1>1, <1>2, <1>5, <1>7, <2>1, <2>2
      <3>2. QED
        BY <1>1, <3>1, ReportAfter
    <2>3. CASE x # s
      <3>1. run'[x] = run[x] /\ pc'[x] = pc[x]
        BY <1>1, <2>3
      <3>2. ReportHonest(run[x], pc[x], Ran(run[x].number))
        BY <3>1 DEF Reports
      <3>3. PICK ran : ran = Ran(run[x].number)
        OBVIOUS
      <3>4. ran = Ran(run[x].number)' /\ ReportHonest(run'[x], pc'[x], ran)
        BY <2>1, <3>1, <3>2, <3>3
      <3>5. QED
        BY <1>1, <3>4, ReportAfter
    <2>4. QED
      BY <2>2, <2>3
  <1>10. QED
    BY <1>8, <1>9

\* A round of the ordering reports nothing.
LEMMA RoundReports ==
    ASSUME FlowIInv, Numbered, Reports, NEW s \in Session, OrderRound(s)
    PROVE  Numbered' /\ Reports'
  <1> DEFINE r == [run[s] EXCEPT !.batch = Ready(run[s].remaining)]
             ran == Ran(run[s].number)
  <1>1. /\ pc[s] = "ordering" /\ UNCHANGED <<flow, runs, effects>>
        /\ run[s] \in Locals /\ run \in [Session -> Locals] /\ DOMAIN pc = Session
    BY DEF OrderRound, FlowIInv, TypeOK
  <1>2. ReportHonest(run[s], "ordering", ran)
    BY <1>1 DEF Reports
  <1>3. CASE Ready(run[s].remaining) = {}
    <2>1. run' = [run EXCEPT ![s] = run[s]] /\ pc' = [pc EXCEPT ![s] = "rejected"]
      BY <1>1, <1>3 DEF OrderRound, Goto
    <2>2. ReportHonest(run[s], "rejected", ran)
      BY <1>2 DEF ReportHonest, CallPlaces
    <2>3. QED
      BY <1>1, <2>1, <2>2, QuietStep
  <1>4. CASE Ready(run[s].remaining) # {}
    <2>1. run' = [run EXCEPT ![s] = r] /\ pc' = [pc EXCEPT ![s] = "ordering"]
      <3>1. pc' = pc /\ run' = [run EXCEPT ![s].batch = Ready(run[s].remaining)]
        BY <1>4 DEF OrderRound
      <3>2. pc = [pc EXCEPT ![s] = "ordering"]
        BY <1>1 DEF FlowIInv, TypeOK
      <3>3. QED
        BY <1>1, <3>1, <3>2
    <2>2. r.order = run[s].order /\ r.number = run[s].number
      BY <1>1 DEF Locals
    <2> HIDE DEF r, ran
    <2>3. ReportHonest(r, "ordering", ran)
      BY <1>2, <2>2 DEF ReportHonest, CallPlaces
    <2>4. QED
      BY <1>1, <2>1, <2>2, <2>3, QuietStep DEF ran
  <1>5. QED
    BY <1>3, <1>4

\* A task is placed once.
LEMMA PlaceReports ==
    ASSUME FlowIInv, Numbered, Reports, NEW s \in Session, OrderTask(s)
    PROVE  Numbered' /\ Reports'
  <1> DEFINE q == run[s]
             ran == Ran(run[s].number)
  <1>1. /\ pc[s] = "ordering" /\ UNCHANGED <<flow, runs, effects>>
        /\ run[s] \in Locals /\ run \in [Session -> Locals]
        /\ pc' = [pc EXCEPT ![s] = "ordering"]
    BY DEF OrderTask, FlowIInv, TypeOK
  <1>2. ReportHonest(q, "ordering", ran) /\ OrderHonest(q)
    BY <1>1, OrderIsHonest DEF Reports, InProgress
  <1>3. PICK t \in q.batch :
          run' = [run EXCEPT ![s].batch = @ \ {t}, ![s].remaining = @ \ {t},
                             ![s].order = Append(@, t)]
    BY DEF OrderTask
  <1> DEFINE r1 == [q EXCEPT !.batch = @ \ {t}]
             r2 == [r1 EXCEPT !.remaining = @ \ {t}]
             r == [r2 EXCEPT !.order = Append(@, t)]
  <1>4. run' = [run EXCEPT ![s] = r]
    BY <1>1, <1>3
  <1>5. r.order = Append(q.order, t) /\ r.number = q.number
    BY <1>1 DEF Locals
  <1>6. q.order \in Seq(TaskId) /\ t \in TaskId /\ \A i \in DOMAIN q.order : q.order[i] # t
    BY <1>1, <1>2 DEF OrderHonest, Ready, Locals
  <1> HIDE DEF r, q, ran
  <1>7. \A i, j \in DOMAIN r.order : r.order[i] = r.order[j] => i = j
    <2>1. \A i, j \in DOMAIN q.order : q.order[i] = q.order[j] => i = j
      BY <1>2 DEF ReportHonest
    <2>2. /\ DOMAIN q.order = 1..Len(q.order) /\ DOMAIN r.order = 1..(Len(q.order) + 1)
          /\ Len(q.order) \in Nat
          /\ \A i \in 1..Len(q.order) : r.order[i] = q.order[i]
          /\ r.order[Len(q.order) + 1] = t
      BY <1>5, <1>6
    <2>3. QED
      BY <1>6, <2>1, <2>2
  <1>8. ReportHonest(r, "ordering", ran)
    BY <1>2, <1>7 DEF ReportHonest, CallPlaces
  <1>9. QED
    BY <1>1, <1>4, <1>5, <1>8, QuietStep DEF q, ran

\* A run that begins its tasks, ends, or dies.
LEMMA EndReports ==
    ASSUME FlowIInv, Numbered, Reports, NEW s \in Session, Announce(s) \/ Finish(s) \/ Abort(s)
    PROVE  Numbered' /\ Reports'
  <1> DEFINE q == run[s]
             ran == Ran(run[s].number)
  <1>1. /\ pc[s] # "idle" /\ UNCHANGED <<flow, runs, effects>>
        /\ q \in Locals /\ run \in [Session -> Locals] /\ RunHonest(q, pc[s])
    BY DEF Announce, Finish, Abort, FlowIInv, TypeOK
  <1>2. ReportHonest(q, pc[s], ran)
    BY <1>1 DEF Reports
  <1>3. CASE Announce(s)
    <2>1. /\ run' = [run EXCEPT ![s] = q] /\ pc' = [pc EXCEPT ![s] = "between"]
          /\ pc[s] = "ordering"
      BY <1>1, <1>3 DEF Announce, Goto
    <2>2. q.results = <<>> /\ q.status = "none" /\ ran = {} /\ q.order \in Seq(TaskId)
      BY <1>1, <1>2, <2>1 DEF RunHonest, ReportHonest, Locals
    <2>3. Underway(q, "between", ran)
      BY <2>2 DEF Underway
    <2>4. ReportHonest(q, "between", ran)
      BY <1>2, <2>2, <2>3 DEF ReportHonest, CallPlaces
    <2>5. QED
      BY <1>1, <2>1, <2>4, QuietStep
  <1>4. CASE Finish(s)
    <2> DEFINE status == IF q.status = "none" THEN "completed" ELSE q.status
               r == [q EXCEPT !.status = status]
    <2>1. /\ run' = [run EXCEPT ![s] = r] /\ pc' = [pc EXCEPT ![s] = "ended"]
          /\ pc[s] = "between"
          /\ q.status # "none" \/ Len(q.results) = Len(q.order)
      BY <1>1, <1>4 DEF Finish, Goto
    <2>2. q.order \in Seq(TaskId) /\ q.results \in Seq(TaskResult)
      BY <1>1 DEF Locals
    <2>3. CASE q.status = "none"
      <3>1. /\ r.order = q.order /\ r.results = q.results /\ r.dry = q.dry
            /\ r.number = q.number /\ r.status = "completed"
        BY <1>1, <2>3 DEF Locals
      <3>2. /\ Underway(q, "between", ran)
            /\ \A i \in DOMAIN q.results :
                /\ i \in DOMAIN q.order /\ q.results[i].task = q.order[i]
                /\ q.results[i].status = "completed"
        BY <1>1, <1>2, <2>1, <2>3 DEF ReportHonest, RunHonest
      <3>3. Len(q.results) = Len(q.order)
        BY <2>1, <2>3
      <3> HIDE DEF r, q, ran
      <3>4. DOMAIN q.results = DOMAIN q.order /\ DOMAIN q.order = 1..Len(q.order)
        BY <2>2, <3>3
      <3>5. Reported(r, ran)
        <4>1. \A i \in DOMAIN r.order :
                  /\ r.results[i].task = r.order[i] /\ r.results[i].status = "completed"
                  /\ Real(r, r.order[i]) => r.order[i] \in ran
          BY <3>1, <3>2, <3>3, <3>4 DEF Underway, Real
        <4>2. QED
          BY <3>1, <3>3, <4>1 DEF Reported
      <3>6. ReportHonest(r, "ended", ran)
        BY <1>2, <3>1, <3>5 DEF ReportHonest, CallPlaces
      <3>7. QED
        BY <1>1, <2>1, <3>1, <3>6, QuietStep DEF q, ran
    <2>4. CASE q.status # "none"
      <3>1. r = q
        BY <1>1, <2>4 DEF Locals
      <3>2. Reported(q, ran)
        BY <1>2, <2>1, <2>4 DEF ReportHonest
      <3>3. ReportHonest(q, "ended", ran)
        BY <1>2, <3>2 DEF ReportHonest, CallPlaces
      <3>4. run' = [run EXCEPT ![s] = q]
        BY <2>1, <3>1
      <3>5. QED
        BY <1>1, <2>1, <3>3, <3>4, QuietStep
    <2>5. QED
      BY <2>3, <2>4
  <1>5. CASE Abort(s)
    <2>1. run' = [run EXCEPT ![s] = q] /\ pc' = [pc EXCEPT ![s] = "aborted"]
      BY <1>1, <1>5 DEF Abort, Goto
    <2>2. ReportHonest(q, "aborted", ran)
      BY <1>2 DEF ReportHonest, CallPlaces
    <2>3. QED
      BY <1>1, <2>1, <2>2, QuietStep
  <1>6. QED
    BY <1>3, <1>4, <1>5

\* Between the tasks and in a call, nothing moves but the place.
LEMMA AdvanceReports ==
    ASSUME FlowIInv, Numbered, Reports, NEW s \in Session,
           ResolveArgs(s) \/ GoAhead(s) \/ Consume(s)
    PROVE  Numbered' /\ Reports'
  <1> DEFINE q == run[s]
             ran == Ran(run[s].number)
  <1>1. /\ pc[s] # "idle" /\ UNCHANGED <<flow, runs, effects>>
        /\ q \in Locals /\ run \in [Session -> Locals]
        /\ pc[s] \in {"calling", "consuming"} \/ AtTask(s)
    BY DEF ResolveArgs, AtTask, GoAhead, Consume, FlowIInv, TypeOK
  <1>2. ReportHonest(q, pc[s], ran) /\ pc[s] # "running"
    BY <1>1 DEF Reports, AtTask
  <1>3. Underway(q, pc[s], ran)
    BY <1>1, <1>2 DEF ReportHonest, CallPlaces, AtTask
  <1>4. \E f, place : /\ run' = [run EXCEPT ![s] = [q EXCEPT !.args = f]]
                      /\ pc' = [pc EXCEPT ![s] = place]
                      /\ place \in {"calling", "consuming", "started"}
    <2>1. CASE ResolveArgs(s)
      BY <1>1, <2>1 DEF ResolveArgs, Goto
    <2>2. CASE GoAhead(s) \/ Consume(s)
      <3>1. \E place \in {"started", "consuming"} : pc' = [pc EXCEPT ![s] = place]
        BY <2>2 DEF GoAhead, Consume, Goto
      <3>2. run' = run
        BY <2>2 DEF GoAhead, Consume
      <3>3. run' = [run EXCEPT ![s] = [q EXCEPT !.args = q.args]]
        BY <1>1, <3>2 DEF Locals
      <3>4. QED
        BY <3>1, <3>3
    <2>3. QED
      BY <2>1, <2>2
  <1>5. PICK f, place : /\ run' = [run EXCEPT ![s] = [q EXCEPT !.args = f]]
                        /\ pc' = [pc EXCEPT ![s] = place]
                        /\ place \in {"calling", "consuming", "started"}
    BY <1>4
  <1> DEFINE r == [q EXCEPT !.args = f]
  <1>6. /\ r.order = q.order /\ r.results = q.results /\ r.dry = q.dry
        /\ r.number = q.number /\ r.status = q.status
    BY <1>1 DEF Locals
  <1>7. run' = [run EXCEPT ![s] = r]
    BY <1>5
  <1> HIDE DEF r, ran, q
  <1>8. Underway(r, place, ran)
    BY <1>2, <1>3, <1>5, <1>6 DEF Underway, Real
  <1>9. ReportHonest(r, place, ran)
    BY <1>2, <1>5, <1>6, <1>8 DEF ReportHonest, CallPlaces
  <1>10. QED
    BY <1>1, <1>5, <1>6, <1>7, <1>9, QuietStep DEF q, ran

\* What a stopped run says of its tasks.
LEMMA StoppedResults ==
    ASSUME FlowIInv, NEW s \in Session, AtCall(s) \/ AtTask(s),
           NEW status \in {"failed", "setup_required", "blocked"}
    PROVE  LET q == run[s]
               r == Stopped(s, Current(s), status)
               done == Len(run[s].results)
           IN  /\ r.order = q.order /\ r.dry = q.dry /\ r.number = q.number
               /\ r.status = IF status = "blocked" THEN "blocked" ELSE "failed"
               /\ r.stoppedBy = {q.order[done + 1]}
               /\ Len(r.results) = Len(q.order)
               /\ \A i \in 1..done : i \in DOMAIN q.order => r.results[i] = q.results[i]
               /\ r.results[done + 1] = Result(q.order[done + 1], status, "none")
               /\ \A i \in (done + 2)..Len(q.order) :
                      r.results[i] = Result(q.order[i], "skipped", "none")
  <1> DEFINE q == run[s]
             done == Len(q.results)
             results == [i \in 1..Len(q.order) |->
                IF i <= done THEN q.results[i]
                ELSE IF i = done + 1 THEN Result(Current(s), status, "none")
                ELSE Result(q.order[i], "skipped", "none")]
             r1 == [q EXCEPT !.results = results]
             r2 == [r1 EXCEPT !.status = IF status = "blocked" THEN "blocked" ELSE "failed"]
             r3 == [r2 EXCEPT !.stoppedBy = {Current(s)}]
  <1>1. /\ q \in Locals /\ done + 1 \in DOMAIN q.order
        /\ q.order \in Seq(TaskId) /\ q.results \in Seq(TaskResult)
    BY CurrentIsTask DEF Locals
  <1>2. Stopped(s, Current(s), status) = r3 /\ Current(s) = q.order[done + 1]
    BY DEF Stopped, Current
  <1>3. done \in Nat /\ Len(q.order) \in Nat /\ DOMAIN q.order = 1..Len(q.order)
    BY <1>1
  <1> HIDE DEF done
  <1>4. /\ Len(results) = Len(q.order)
        /\ \A i \in 1..done : i \in DOMAIN q.order => results[i] = q.results[i]
        /\ results[done + 1] = Result(q.order[done + 1], status, "none")
        /\ \A i \in (done + 2)..Len(q.order) : results[i] = Result(q.order[i], "skipped", "none")
    BY <1>1, <1>2, <1>3
  <1> HIDE DEF results
  <1>5. r1.results = results /\ r1.order = q.order /\ r1.dry = q.dry /\ r1.number = q.number
        /\ DOMAIN r1 = DOMAIN q
    BY <1>1 DEF Locals
  <1>6. DOMAIN q = {"number", "dry", "confirmed", "approvals", "remaining", "batch", "order",
                    "results", "args", "status", "stoppedBy"}
    BY <1>1 DEF Locals
  <1> HIDE DEF r1, q
  <1>7. /\ r2.results = results /\ r2.order = q.order /\ r2.dry = q.dry
        /\ r2.number = q.number /\ DOMAIN r2 = DOMAIN q
        /\ r2.status = IF status = "blocked" THEN "blocked" ELSE "failed"
    BY <1>5, <1>6
  <1> HIDE DEF r2
  <1>8. /\ r3.results = results /\ r3.order = q.order /\ r3.dry = q.dry
        /\ r3.number = q.number /\ r3.status = r2.status /\ r3.stoppedBy = {Current(s)}
    BY <1>6, <1>7
  <1> HIDE DEF r3
  <1>9. QED
    BY <1>2, <1>4, <1>7, <1>8 DEF q, done

\* A task stops the run, and its report says which and how.
LEMMA StopReports ==
    ASSUME FlowIInv, Numbered, Reports, NEW s \in Session, AtCall(s) \/ AtTask(s),
           NEW status \in {"failed", "setup_required", "blocked"},
           pc[s] = "running" => status # "blocked",
           run' = [run EXCEPT ![s] = Stopped(s, Current(s), status)],
           pc' = [pc EXCEPT ![s] = "between"],
           UNCHANGED <<flow, runs, effects>>
    PROVE  Numbered' /\ Reports'
  <1> DEFINE q == run[s]
             r == Stopped(s, Current(s), status)
             done == Len(q.results)
             ran == Ran(run[s].number)
  <1>1. /\ q \in Locals /\ done + 1 \in DOMAIN q.order
        /\ q.order \in Seq(TaskId) /\ q.results \in Seq(TaskResult)
        /\ pc[s] # "idle" /\ RunHonest(q, pc[s])
    BY CurrentIsTask DEF Locals, AtCall, AtTask, CallPlaces, FlowIInv
  <1>2. /\ r.order = q.order /\ r.dry = q.dry /\ r.number = q.number
        /\ r.status = IF status = "blocked" THEN "blocked" ELSE "failed"
        /\ r.stoppedBy = {q.order[done + 1]}
        /\ Len(r.results) = Len(q.order)
        /\ \A i \in 1..done : i \in DOMAIN q.order => r.results[i] = q.results[i]
        /\ r.results[done + 1] = Result(q.order[done + 1], status, "none")
        /\ \A i \in (done + 2)..Len(q.order) :
               r.results[i] = Result(q.order[i], "skipped", "none")
    BY StoppedResults
  <1>3. ReportHonest(q, pc[s], ran)
    BY <1>1 DEF Reports
  <1>4. /\ Underway(q, pc[s], ran)
        /\ \A i \in DOMAIN q.results : /\ q.results[i].task = q.order[i]
                                       /\ q.results[i].status = "completed"
    BY <1>1, <1>3 DEF ReportHonest, RunHonest, AtCall, AtTask
  <1>5. /\ done \in Nat /\ Len(q.order) \in Nat /\ DOMAIN q.order = 1..Len(q.order)
        /\ DOMAIN q.results = 1..done /\ done + 1 <= Len(q.order)
    BY <1>1
  <1> HIDE DEF r, done, ran, q
  <1>6. \A i \in 1..done : r.results[i].task = r.order[i] /\ r.results[i].status = "completed"
    BY <1>2, <1>4, <1>5
  <1>7. /\ r.results[done + 1].task = r.order[done + 1]
        /\ r.results[done + 1].status = status
    BY <1>2 DEF Result
  <1>8. \A i \in (done + 2)..Len(r.order) :
            r.results[i].task = r.order[i] /\ r.results[i].status = "skipped"
    <2> TAKE i \in (done + 2)..Len(r.order)
    <2>1. r.results[i] = Result(q.order[i], "skipped", "none") /\ r.order = q.order
      BY <1>2
    <2>2. QED
      BY <2>1 DEF Result
  <1>9. Reported(r, ran)
    <2>1. \A i \in DOMAIN r.order : r.results[i].task = r.order[i]
      BY <1>2, <1>5, <1>6, <1>7, <1>8
    <2>2. r.status # "completed"
      BY <1>2
    <2>3. \E k \in DOMAIN r.order :
            /\ r.stoppedBy = {r.order[k]}
            /\ r.results[k].status \notin {"completed", "skipped"}
            /\ (r.results[k].status = "blocked") = (r.status = "blocked")
            /\ \A i \in 1..(k - 1) : r.results[i].status = "completed"
            /\ \A i \in (k + 1)..Len(r.order) : r.results[i].status = "skipped"
      <3>1. done + 1 \in DOMAIN r.order /\ (done + 1) - 1 = done /\ (done + 1) + 1 = done + 2
        BY <1>2, <1>5
      <3>2. QED
        BY <1>2, <1>6, <1>7, <1>8, <3>1
    <2>4. \A i \in DOMAIN r.order :
            r.results[i].status = "completed" /\ Real(r, r.order[i]) => r.order[i] \in ran
      <3> SUFFICES ASSUME NEW i \in DOMAIN r.order, r.results[i].status = "completed",
                          Real(r, r.order[i])
                   PROVE  r.order[i] \in ran
        OBVIOUS
      <3>1. i \in 1..done
        BY <1>2, <1>5, <1>7, <1>8
      <3>2. Real(q, q.order[i])
        BY <1>2 DEF Real
      <3>3. QED
        BY <1>2, <1>4, <1>5, <3>1, <3>2 DEF Underway, done
    <2>5. \A i \in DOMAIN r.order :
            r.results[i].status \in {"skipped", "blocked"} => r.order[i] \notin ran
      <3> SUFFICES ASSUME NEW i \in DOMAIN r.order, r.order[i] \in ran,
                          r.results[i].status \in {"skipped", "blocked"}
                   PROVE  FALSE
        OBVIOUS
      <3> DEFINE now == IF pc[s] = "running" THEN done + 1 ELSE done
      <3>1. PICK j \in 1..now : q.order[i] = q.order[j]
        BY <1>2, <1>4 DEF Underway, done
      <3>2. j \in DOMAIN q.order /\ i \in DOMAIN q.order
        BY <1>2, <1>5, <3>1
      <3>3. i = j
        BY <1>3, <3>1, <3>2 DEF ReportHonest
      <3>4. CASE i \in 1..done
        BY <1>6, <3>4
      <3>5. CASE i = done + 1
        BY <1>5, <1>7, <3>1, <3>3, <3>5
      <3>6. QED
        BY <1>5, <3>1, <3>3, <3>4, <3>5
    <2>6. QED
      BY <1>2, <2>1, <2>2, <2>3, <2>4, <2>5, Zenon DEF Reported
  <1>10. r.status # "none" /\ r.status # "completed"
    BY <1>2
  <1>11. ReportHonest(r, "between", ran)
    BY <1>2, <1>3, <1>9, <1>10 DEF ReportHonest, CallPlaces
  <1>12. QED
    BY <1>1, <1>2, <1>11, QuietStep DEF r, q, ran

LEMMA StopsReport ==
    ASSUME FlowIInv, Numbered, Reports, NEW s \in Session,
           ResolveFails(s) \/ Unsupported(s) \/ Refuse(s)
    PROVE  Numbered' /\ Reports'
  <1>1. CASE ResolveFails(s)
    <2>1. pc' = [pc EXCEPT ![s] = "between"] /\ pc[s] # "running"
      BY <1>1 DEF ResolveFails, AtTask, FlowIInv, TypeOK
    <2>2. QED
      BY <1>1, <2>1, StopReports DEF ResolveFails
  <1>2. CASE Unsupported(s)
    BY <1>2, StopReports DEF Unsupported, AtCall, CallPlaces, Goto
  <1>3. CASE Refuse(s)
    BY <1>3, StopReports DEF Refuse, AtCall, CallPlaces, Goto
  <1>4. QED
    BY <1>1, <1>2, <1>3

\* What runs for real is recorded under the run that runs it.
LEMMA DispatchReports ==
    ASSUME FlowIInv, Numbered, Reports, NEW s \in Session, Dispatch(s)
    PROVE  Numbered' /\ Reports'
  <1> DEFINE q == run[s]
             e == [session |-> s, run |-> q.number, scope |-> Scope(s),
                   confirmed |-> q.confirmed,
                   by |-> IF Free(s) THEN NoApproval ELSE q.approvals[Current(s)]]
             done == Len(q.results)
  <1>1. PICK ran : ran = Ran(q.number)
    OBVIOUS
  <1>2. /\ pc[s] = "started" /\ AtCall(s) /\ UNCHANGED <<flow, runs>>
        /\ q \in Locals /\ run \in [Session -> Locals]
        /\ run' = [run EXCEPT ![s] = q] /\ pc' = [pc EXCEPT ![s] = "running"]
        /\ effects' = IF Dry(s) THEN effects ELSE Append(effects, e)
    BY DEF Dispatch, AtCall, CallPlaces, Goto, FlowIInv, TypeOK
  <1>3. /\ ReportHonest(q, "started", ran) /\ Underway(q, "started", ran)
        /\ done + 1 \in DOMAIN q.order /\ Current(s) = q.order[done + 1]
        /\ q.order \in Seq(TaskId) /\ q.results \in Seq(TaskResult)
    BY <1>1, <1>2, CurrentIsTask DEF Reports, ReportHonest, CallPlaces, Locals, Current
  <1>4. e.run = q.number /\ e.scope.task = Current(s)
    BY DEF Scope
  <1>5. Dry(s) <=> ~Real(q, Current(s))
    BY DEF Dry, Real
  <1>6. effects \in Seq(Effect)
    BY Zenon DEF FlowIInv, TypeOK, Effect
  <1>7. PICK now : now = Ran(q.number)'
    OBVIOUS
  <1>8. PICK n : n = q.number
    OBVIOUS
  <1>9. /\ now = {effects'[i].scope.task : i \in {j \in DOMAIN effects' : effects'[j].run = n}}
        /\ ran = {effects[i].scope.task : i \in {j \in DOMAIN effects : effects[j].run = n}}
    <2>1. run'[s] = q
      BY <1>2
    <2>2. QED
      BY <1>1, <1>7, <1>8, <2>1 DEF Ran
  <1> HIDE DEF e
  <1>10. now = IF Real(q, Current(s)) THEN ran \cup {Current(s)} ELSE ran
    <2>1. CASE Real(q, Current(s))
      <3>1. effects' = Append(effects, e)
        BY <1>2, <1>5, <2>1
      <3>2. /\ Len(effects) \in Nat /\ DOMAIN effects = 1..Len(effects)
            /\ DOMAIN effects' = 1..(Len(effects) + 1)
            /\ \A i \in DOMAIN effects : effects'[i] = effects[i]
            /\ effects'[Len(effects) + 1] = e
        BY <1>6, <3>1
      <3> DEFINE before == {j \in DOMAIN effects : effects[j].run = n}
                 after == {j \in DOMAIN effects' : effects'[j].run = n}
      <3>3. after = before \cup {Len(effects) + 1}
        BY <1>4, <1>8, <3>2
      <3>4. now = {effects'[i].scope.task : i \in after}
        BY <1>9
      <3>5. ran = {effects'[i].scope.task : i \in before}
        BY <1>9, <3>2
      <3> HIDE DEF before, after
      <3>6. now = ran \cup {effects'[Len(effects) + 1].scope.task}
        BY <3>3, <3>4, <3>5
      <3>7. QED
        BY <1>4, <2>1, <3>2, <3>6
    <2>2. CASE ~Real(q, Current(s))
      <3>1. effects' = effects
        BY <1>2, <1>5, <2>2
      <3>2. QED
        BY <1>9, <2>2, <3>1
    <2>3. QED
      BY <2>1, <2>2
  <1>11. Underway(q, "running", now)
    <2>1. /\ done \in Nat /\ Len(q.order) \in Nat /\ done + 1 <= Len(q.order)
          /\ DOMAIN q.order = 1..Len(q.order)
      BY <1>3
    <2>2. ran \subseteq now
      BY <1>10
    <2>3. \A i \in 1..done : Real(q, q.order[i]) => q.order[i] \in ran
      BY <1>3 DEF Underway
    <2>4. ran \subseteq {q.order[i] : i \in 1..done}
      BY <1>3 DEF Underway
    <2>5. \A i \in 1..(done + 1) : Real(q, q.order[i]) => q.order[i] \in now
      <3> TAKE i \in 1..(done + 1)
      <3>1. CASE i \in 1..done
        BY <2>2, <2>3, <3>1
      <3>2. CASE i = done + 1
        BY <1>3, <1>10, <3>2
      <3>3. QED
        BY <2>1, <3>1, <3>2
    <2>6. now \subseteq {q.order[i] : i \in 1..(done + 1)}
      <3>1. 1..done \subseteq 1..(done + 1) /\ done + 1 \in 1..(done + 1)
        BY <2>1
      <3>2. QED
        BY <1>3, <1>10, <2>4, <3>1
    <2>7. QED
      BY <2>1, <2>5, <2>6 DEF Underway
  <1>12. ReportHonest(q, "running", now)
    BY <1>3, <1>11 DEF ReportHonest, CallPlaces
  <1>13. effects' = effects \/ \E x : x.run = q.number /\ effects' = Append(effects, x)
    BY <1>2, <1>4
  <1>14. PICK r : r = q
    OBVIOUS
  <1>15. /\ run' = [run EXCEPT ![s] = r] /\ r.number = run[s].number
         /\ effects' = effects \/ \E x : x.run = r.number /\ effects' = Append(effects, x)
         /\ ReportHonest(r, "running", now)
    BY <1>2, <1>12, <1>13, <1>14
  <1>16. now = Ran(r.number)'
    <2>1. r.number = n
      BY <1>8, <1>14
    <2>2. QED
      BY <1>9, <2>1 DEF Ran
  <1>17. QED
    BY <1>2, <1>15, <1>16, ReportStep

\* A command returns: the task is reported done, or stops the run.
LEMMA ReturnReports ==
    ASSUME FlowIInv, Numbered, Reports, NEW s \in Session, Return(s)
    PROVE  Numbered' /\ Reports'
  <1>1. PICK outcome \in Outcomes, v \in Value :
          run' = [run EXCEPT ![s] =
            IF outcome = "completed"
            THEN [run[s] EXCEPT !.results =
                    Append(run[s].results, Result(Current(s), "completed", v))]
            ELSE Stopped(s, Current(s), outcome)]
    BY DEF Return
  <1>2. AtCall(s) /\ pc[s] = "running" /\ pc' = [pc EXCEPT ![s] = "between"]
        /\ UNCHANGED <<flow, runs, effects>>
    BY DEF Return, AtCall, CallPlaces, Goto
  <1>3. CASE outcome # "completed"
    <2>1. outcome \in {"failed", "setup_required"}
      BY <1>3, FlowAssumption
    <2>2. run' = [run EXCEPT ![s] = Stopped(s, Current(s), outcome)]
      BY <1>1, <1>3
    <2>3. QED
      BY <1>2, <2>1, <2>2, StopReports
  <1>4. CASE outcome = "completed"
    <2> DEFINE q == run[s]
               result == Result(Current(s), "completed", v)
               r == [q EXCEPT !.results = Append(@, result)]
               done == Len(q.results)
               ran == Ran(run[s].number)
    <2>1. q \in Locals /\ done + 1 \in DOMAIN q.order
          /\ q.order \in Seq(TaskId) /\ q.results \in Seq(TaskResult)
          /\ ReportHonest(q, "running", ran) /\ Underway(q, "running", ran)
          /\ RunHonest(q, "running")
      BY <1>2, CurrentIsTask DEF Reports, ReportHonest, CallPlaces, Locals, FlowIInv
    <2>2. run' = [run EXCEPT ![s] = r]
      <3> DEFINE next == IF outcome = "completed" THEN r ELSE Stopped(s, Current(s), outcome)
      <3>1. run' = [run EXCEPT ![s] = next]
        BY <1>1, Zenon
      <3>2. next = r
        BY <1>4
      <3> HIDE DEF next, r
      <3>3. QED
        BY <3>1, <3>2
    <2>3. /\ r.order = q.order /\ r.dry = q.dry /\ r.number = q.number
          /\ r.status = q.status /\ r.results = Append(q.results, result)
      BY <2>1 DEF Locals
    <2>4. q.status = "none"
      BY <2>1 DEF RunHonest, CallPlaces
    <2>5. Len(r.results) = done + 1 /\ done + 1 <= Len(r.order)
      <3> HIDE DEF r, q, result
      <3>1. Len(Append(q.results, result)) = Len(q.results) + 1
        BY <2>1
      <3>2. QED
        BY <2>1, <2>3, <3>1 DEF done
    <2> HIDE DEF r, q, result, ran
    <2>6. Underway(r, "between", ran)
      BY <2>1, <2>3, <2>5 DEF Underway, Real
    <2>7. ReportHonest(r, "between", ran)
      BY <2>1, <2>3, <2>4, <2>6 DEF ReportHonest, CallPlaces
    <2>8. QED
      BY <1>2, <2>2, <2>3, <2>7, QuietStep DEF q, ran
  <1>5. QED
    BY <1>3, <1>4

LEMMA ReportsInit == Init => Numbered /\ Reports
  BY DEF Init, Numbered, Reports

LEMMA ReportsNext ==
    ASSUME FlowIInv, Numbered, Reports, [Next]_vars
    PROVE  Numbered' /\ Reports'
  <1>1. ASSUME NEW s \in Session, NEW m \in Modes, Start(s, m[1], m[2])
        PROVE  Numbered' /\ Reports'
    <2>1. m[1] \in BOOLEAN /\ m[2] \in BOOLEAN
      BY FlowAssumption
    <2>2. QED
      BY <1>1, <2>1, StartReports
  <1>2. ASSUME NEW s \in Session, RunStep(s) PROVE Numbered' /\ Reports'
    BY <1>2, RoundReports, PlaceReports, EndReports, AdvanceReports, StopsReport,
       DispatchReports, ReturnReports DEF RunStep
  <1>3. ASSUME NEW s \in Session, ResolveFails(s) \/ Unsupported(s) \/ Abort(s)
        PROVE  Numbered' /\ Reports'
    BY <1>3, StopsReport, EndReports
  <1>4. ASSUME UNCHANGED <<flow, runs, pc, run, effects>>
        PROVE  Numbered' /\ Reports'
    <2>1. Numbered'
      BY <1>4 DEF Numbered
    <2>2. \A s \in Session : Ran(run[s].number)' = Ran(run[s].number)
      BY <1>4 DEF Ran
    <2>3. ASSUME NEW s \in Session, pc'[s] # "idle"
          PROVE  ReportHonest(run[s], pc[s], Ran(run[s].number))'
      <3>1. PICK ran : ran = Ran(run[s].number)
        OBVIOUS
      <3>2. ran = Ran(run[s].number)' /\ ReportHonest(run'[s], pc'[s], ran)
        BY <1>4, <2>2, <2>3, <3>1 DEF Reports
      <3>3. QED
        BY <1>4, <3>2, ReportAfter
    <2>4. QED
      BY <2>1, <2>3 DEF Reports
  <1>5. QED
    BY <1>1, <1>2, <1>3, <1>4 DEF Next, Decide, EditApproval, vars

-----------------------------------------------------------------------------
(* The theorems.                                                           *)

LEMMA FlowInit == Init => FlowIInv
  <1> SUFFICES ASSUME Init PROVE FlowIInv
    OBVIOUS
  <1>1. TypeOK
    <2>1. approvalId \in [TaskId -> Nat \cup {NoApproval}] /\ runs \in 0..MaxRuns
          /\ runs + 1 \in Nat
      BY FlowAssumption DEF Init
    <2>2. Ids \subseteq TaskId /\ NoArgs \in ArgVector
      BY IdsAreTaskIds, NoArgsType DEF Init
    <2>3. Fresh(FALSE, FALSE) \in Locals
      BY <2>1, <2>2 DEF Fresh, Locals
    <2>4. asked \in Seq(Approval) /\ effects \in Seq(Effect)
      BY DEF Init
    <2>5. run \in [Session -> Locals]
      BY <2>3 DEF Init
    <2>6. QED
      BY <2>1, <2>4, <2>5 DEF Init, TypeOK, Approval, Effect
  <1>2. \A s \in Session : RunHonest(run[s], pc[s])
    BY DEF Init, RunHonest, CallPlaces
  <1>3. \A s \in Session, t \in TaskId : run[s].approvals[t] = NoApproval
    BY DEF Init, Fresh
  <1>4. ApprovalsHonest
    BY <1>3 DEF Init, ApprovalsHonest
  <1>5. EffectsAreApproved /\ \A i \in DOMAIN effects :
          effects[i].by # NoApproval => effects[i].by \in DOMAIN asked
    BY DEF Init, EffectsAreApproved
  <1>6. QED
    BY <1>1, <1>2, <1>4, <1>5 DEF FlowIInv

LEMMA FlowStep == FlowIInv /\ [Next]_vars => FlowIInv'
  <1> SUFFICES ASSUME FlowIInv, [Next]_vars PROVE FlowIInv'
    OBVIOUS
  <1>1. ASSUME NEW s \in Session, NEW m \in Modes, Start(s, m[1], m[2]) PROVE FlowIInv'
    <2>1. m[1] \in BOOLEAN /\ m[2] \in BOOLEAN
      BY FlowAssumption
    <2>2. QED
      BY <1>1, <2>1, StartOK
  <1>2. ASSUME NEW s \in Session, RunStep(s) PROVE FlowIInv'
    BY <1>2, OrderRoundOK, OrderTaskOK, AnnounceOK, ResolveArgsOK, RefuseOK, GoAheadOK,
       ConsumeOK, DispatchOK, ReturnOK, FinishOK DEF RunStep
  <1>3. ASSUME NEW s \in Session, ResolveFails(s) \/ Unsupported(s) \/ Abort(s)
        PROVE  FlowIInv'
    BY <1>3, ResolveFailsOK, AnnounceOK
  <1>4. ASSUME NEW id \in ApprovalId, NEW decision \in {"approved", "denied"},
               Decide(id, decision)
        PROVE  FlowIInv'
    BY <1>4, DecideOK
  <1>5. ASSUME NEW id \in ApprovalId, EditApproval(id) PROVE FlowIInv'
    BY <1>5, EditApprovalOK
  <1>6. CASE UNCHANGED vars
    <2>1. asked' \in Seq(Approval) /\ AskedGrows
      BY <1>6 DEF vars, FlowIInv, TypeOK, Approval, AskedGrows
    <2>2. QED
      BY <1>6, <2>1, PeopleOK DEF vars, FlowIInv, TypeOK, ApprovalsHonest
  <1>7. QED
    BY <1>1, <1>2, <1>3, <1>4, <1>5, <1>6 DEF Next

LEMMA OrderInvStep == OrderIInv /\ [Next]_vars => OrderIInv'
  <1> SUFFICES ASSUME OrderIInv, [Next]_vars PROVE OrderIInv'
    OBVIOUS
  <1>1. FlowIInv /\ OrdersHold
    BY OrderSplit
  <1>2. FlowIInv' /\ OrdersHold'
    BY <1>1, FlowStep, OrdersNext
  <1>3. QED
    BY <1>2 DEF OrderIInv, OrderIsExact, OrdersHold, OrderHolds, Later, AtCall, CallPlaces

\* What runs rely on holds throughout, whatever sessions, people and crashes do.
THEOREM FlowInvariant == Spec => []FlowIInv
  BY FlowInit, FlowStep, PTL DEF Spec

\* Variables hold values of their types.
THEOREM FlowTypeCorrect == Spec => []TypeOK
  <1>1. FlowIInv => TypeOK
    BY DEF FlowIInv
  <1>2. QED
    BY <1>1, FlowInvariant, PTL

\* A held-back task runs for real only on a confirmed run, or on an approval given for
\* exactly what it runs, which serves a session once (executor.py:57-73).
THEOREM EffectsApproved == Spec => []EffectsAreApproved
  <1>1. FlowIInv => EffectsAreApproved
    BY DEF FlowIInv
  <1>2. QED
    BY <1>1, FlowInvariant, PTL

\* A task is called only when all it needs completed in the same run
\* (graph.py:106-123, runner.py:101-108).
THEOREM NeedsComplete == Spec => []NeedsCompleteFirst
  <1>1. FlowIInv => NeedsCompleteFirst
    <2> SUFFICES ASSUME FlowIInv, NEW s \in Session, AtCall(s),
                        NEW u \in TheTask(Current(s)).needs
                 PROVE  \E i \in DOMAIN run[s].results :
                            run[s].results[i].task = u
                            /\ run[s].results[i].status = "completed"
      BY DEF NeedsCompleteFirst
    <2>1. OrderHonest(run[s]) /\ RunHonest(run[s], pc[s]) /\ run[s] \in Locals
          /\ Len(run[s].results) + 1 \in DOMAIN run[s].order
      BY OrderIsHonest, CurrentIsTask DEF AtCall, InProgress, FlowIInv
    <2>2. run[s].results \in Seq(TaskResult)
      BY <2>1 DEF Locals
    <2>3. PICK j \in 1..Len(run[s].results) : run[s].order[j] = u
      <3> DEFINE k == Len(run[s].results) + 1
      <3>1. k \in DOMAIN run[s].order /\ u \in TheTask(run[s].order[k]).needs
        BY <2>1 DEF Current
      <3>2. \E j \in 1..(k - 1) : run[s].order[j] = u
        <4> HIDE DEF k
        <4>1. QED
          BY <2>1, <3>1 DEF OrderHonest
      <3>3. k - 1 = Len(run[s].results)
        BY <2>2
      <3>4. QED
        BY <3>2, <3>3
    <2>4. j \in DOMAIN run[s].results
      BY <2>2
    <2>5. QED
      BY <2>1, <2>3, <2>4 DEF RunHonest, AtCall
  <1>2. QED
    BY <1>1, FlowInvariant, PTL

\* Each round of an order in the making takes the tasks at the next depth.
THEOREM OrderInvariant == Spec => []OrderIInv
  <1>1. Init => OrderIInv
    BY FlowInit, OrdersInit, OrderSplit
  <1>2. OrderIInv /\ [Next]_vars => OrderIInv'
    BY OrderInvStep
  <1>3. QED
    BY <1>1, <1>2, PTL DEF Spec

\* A run takes the tasks by the length of the longest chain of needs that leads to each
\* and by id among equals, whatever order the document lists them in, and a document is
\* rejected only if it is malformed or its tasks wait for each other (graph.py:85-123).
THEOREM OrdersAreExact == Spec => []OrderIsExact
  <1>1. OrderIInv => OrderIsExact
    BY DEF OrderIInv
  <1>2. QED
    BY <1>1, OrderInvariant, PTL

\* What a run did for real is recorded under its number, and it reports it as it goes.
THEOREM ReportInvariant == Spec => []ReportIInv
  <1>1. Init => ReportIInv
    BY FlowInit, ReportsInit, ReportSplit
  <1>2. ReportIInv /\ [Next]_vars => ReportIInv'
    <2> SUFFICES ASSUME ReportIInv, [Next]_vars PROVE ReportIInv'
      OBVIOUS
    <2>1. FlowIInv' /\ Numbered' /\ Reports'
      BY FlowStep, ReportsNext, ReportSplit
    <2>2. QED
      BY <2>1 DEF ReportIInv, Numbered, Reports
  <1>3. QED
    BY <1>1, <1>2, PTL DEF Spec

\* The report of a finished run accounts for every task once, names the one that
\* stopped it, and says of none that it ran, or did not, when the opposite is true
\* (runner.py:47-130).
THEOREM ReportsAreTrue == Spec => []ReportsAddUp
  <1>1. ReportIInv => ReportsAddUp
    BY DEF ReportIInv, ReportHonest, ReportsAddUp
  <1>2. QED
    BY <1>1, ReportInvariant, PTL

-----------------------------------------------------------------------------
(* Least and greatest numbers.                                             *)

Less == {ss \in Nat \X Nat : ss[1] < ss[2]}

LEMMA LessWellFounded == IsWellFoundedOn(Less, Nat)
  BY NatLessThanWellFounded, Zenon DEF OpToRel, Less

LEMMA HasLeast ==
    ASSUME NEW S \in SUBSET Nat, S # {}
    PROVE  \E m \in S : \A n \in S : m <= n
  <1>1. \E m \in S : \A n \in S : <<n, m>> \notin Less
    BY LessWellFounded, WFMin, Zenon
  <1>2. ASSUME NEW m \in S, NEW n \in S, <<n, m>> \notin Less
        PROVE  m <= n
    <2>1. m \in Nat /\ n \in Nat /\ ~(n < m)
      BY <1>2 DEF Less
    <2>2. QED
      BY <2>1
  <1>3. QED
    BY <1>1, <1>2, Zenon

LEMMA HasGreatest ==
    ASSUME NEW n \in Nat, NEW S \in SUBSET (1..n), S # {}
    PROVE  \E m \in S : \A i \in S : i <= m
  <1> DEFINE R == {k \in 0..n : n - k \in S}
  <1>1. R \in SUBSET Nat
    OBVIOUS
  <1>2. \A i \in S : i \in Nat /\ n - i \in R
    OBVIOUS
  <1>3. R # {}
    BY <1>2
  <1>4. PICK k \in R : \A j \in R : k <= j
    <2> HIDE DEF R
    <2>1. QED
      BY <1>1, <1>3, HasLeast
  <1>5. n - k \in S /\ k \in 0..n
    BY <1>4
  <1>6. \A i \in S : k <= n - i
    BY <1>2, <1>4
  <1>7. \A i \in S : i <= n - k
    BY <1>2, <1>5, <1>6
  <1>8. QED
    BY <1>5, <1>7

-----------------------------------------------------------------------------
(* A set of places read as a binary number, the last place the heaviest:   *)
(* those of H's subsets that it counts past lack its last difference.      *)

Smaller(A, B) == \E t \in B \ A : \A u \in A \cup B : u > t => (u \in A <=> u \in B)

Behind(B, H) == {A \in SUBSET H : Smaller(A, B)}

\* The counter starts at zero.
LEMMA CounterBegins ==
    ASSUME NEW H
    PROVE  Behind({}, H) = {}
  BY DEF Behind, Smaller

LEMMA CounterFull ==
    ASSUME NEW n \in Nat, NEW H \in SUBSET (1..n)
    PROVE  Behind(H, H) = (SUBSET H) \ {H}
  <1>1. H \notin Behind(H, H)
    BY DEF Behind, Smaller
  <1>2. ASSUME NEW A \in SUBSET H, A # H
        PROVE  A \in Behind(H, H)
    <2>1. H \ A # {} /\ H \ A \in SUBSET (1..n)
      BY <1>2
    <2>2. PICK t \in H \ A : \A i \in H \ A : i <= t
      BY <2>1, HasGreatest
    <2>3. \A u \in A \cup H : u > t => (u \in A <=> u \in H)
      BY <2>2
    <2>4. QED
      BY <2>2, <2>3 DEF Behind, Smaller
  <1>3. QED
    BY <1>1, <1>2 DEF Behind

\* Setting the first place that is not set and clearing those before it counts on by one.
LEMMA CounterCarries ==
    ASSUME NEW n \in Nat, NEW H \in SUBSET (1..n), NEW S \in SUBSET H, NEW c \in H \ S,
           \A u \in H : u < c => u \in S, NEW T, T = {u \in S : u > c} \cup {c}
    PROVE  Behind(T, H) = Behind(S, H) \cup {S} /\ S \notin Behind(S, H)
  <1>1. S \notin Behind(S, H)
    BY DEF Behind, Smaller
  <1>2. \A u \in H : u > c => (u \in T <=> u \in S)
    OBVIOUS
  <1>3. c \in T \ S /\ T \in SUBSET H /\ c \in 1..n
    OBVIOUS
  <1>4. \A u \in S : u < c \/ u > c
    OBVIOUS
  <1>5. S \in Behind(T, H)
    BY <1>2, <1>3 DEF Behind, Smaller
  <1>6. ASSUME NEW A \in Behind(S, H)
        PROVE  A \in Behind(T, H)
    <2>1. A \in SUBSET H
      BY DEF Behind
    <2>2. PICK t \in S \ A : \A u \in A \cup S : u > t => (u \in A <=> u \in S)
      BY DEF Behind, Smaller
    <2>3. CASE t > c
      <3>1. t \in T \ A
        BY <2>3, <2>2
      <3>2. \A u \in A \cup T : u > t => u > c /\ u \in H
        BY <2>1, <2>3, <1>3, <2>2
      <3>3. \A u \in A \cup T : u > t => (u \in A <=> u \in T)
        BY <1>2, <2>2, <3>2
      <3>4. QED
        BY <2>1, <3>1, <3>3 DEF Behind, Smaller
    <2>4. CASE t < c
      <3>1. c \notin A
        BY <2>2, <2>4
      <3>2. \A u \in A \cup T : u > c => u > t /\ u \in H
        BY <2>1, <2>4, <1>3, <2>2
      <3>3. \A u \in A \cup T : u > c => (u \in A <=> u \in T)
        BY <1>2, <2>2, <3>2
      <3>4. QED
        BY <2>1, <1>3, <3>1, <3>3 DEF Behind, Smaller
    <2>5. QED
      BY <1>4, <2>2, <2>3, <2>4
  <1>7. ASSUME NEW A \in Behind(T, H), A # S
        PROVE  A \in Behind(S, H)
    <2>1. A \in SUBSET H
      BY DEF Behind
    <2>2. PICK t \in T \ A : \A u \in A \cup T : u > t => (u \in A <=> u \in T)
      BY DEF Behind, Smaller
    <2>3. CASE t # c
      <3>1. t > c /\ t \in S \ A
        BY <2>3, <2>2
      <3>2. \A u \in A \cup S : u > t => u > c /\ u \in H
        BY <2>1, <3>1, <1>3
      <3>3. \A u \in A \cup S : u > t => (u \in A <=> u \in S)
        BY <1>2, <2>2, <3>2
      <3>4. QED
        BY <2>1, <3>1, <3>3 DEF Behind, Smaller
    <2>4. CASE t = c
      <3>1. \A u \in H : u > c => (u \in A <=> u \in S)
        BY <1>2, <2>2, <2>4
      <3>2. c \notin A
        BY <2>2, <2>4
      <3> DEFINE gaps == {u \in H : u < c /\ u \notin A}
      <3>3. gaps # {}
        <4>1. SUFFICES ASSUME gaps = {} PROVE FALSE
          OBVIOUS
        <4>2. \A u \in H : u < c => (u \in A <=> u \in S)
          BY <4>1
        <4>3. \A u \in H : u < c \/ u = c \/ u > c
          BY <1>3
        <4>4. \A u \in H : u \in A <=> u \in S
          BY <3>1, <3>2, <4>2, <4>3
        <4>5. QED
          BY <4>4, <2>1, <1>7
      <3>4. PICK m \in gaps : \A i \in gaps : i <= m
        <4>1. gaps \in SUBSET (1..n)
          OBVIOUS
        <4> HIDE DEF gaps
        <4>2. QED
          BY <3>3, <4>1, HasGreatest
      <3>5. m \in S \ A /\ m < c /\ m \in H
        BY <3>4
      <3>6. ASSUME NEW u \in A \cup S, u > m
            PROVE  u \in A <=> u \in S
        <4>1. u \in H /\ u \in 1..n /\ m \in 1..n
          BY <2>1, <3>5
        <4>2. CASE u < c
          <5>1. u \notin gaps
            BY <3>4, <3>6, <4>1
          <5>2. QED
            BY <5>1, <4>1, <4>2
        <4>3. CASE u = c
          BY <3>2, <4>3
        <4>4. CASE u > c
          BY <3>1, <4>1, <4>4
        <4>5. QED
          BY <4>1, <4>2, <4>3, <4>4, <1>3
      <3>7. QED
        BY <2>1, <3>5, <3>6 DEF Behind, Smaller
    <2>5. QED
      BY <2>3, <2>4
  <1>8. QED
    BY <1>1, <1>5, <1>6, <1>7

\* What the counter shows: it starts at one, goes up by one, and ends at the number of
\* subsets.
Count(S, H) == Cardinality(Behind(S, H)) + 1

LEMMA CountingBegins ==
    ASSUME NEW H
    PROVE  Count({}, H) = 1
  BY CounterBegins, FS_EmptySet DEF Count

LEMMA BehindFinite ==
    ASSUME NEW n \in Nat, NEW H \in SUBSET (1..n), NEW S
    PROVE  IsFiniteSet(H) /\ IsFiniteSet(SUBSET H) /\ IsFiniteSet(Behind(S, H))
           /\ Cardinality(Behind(S, H)) \in Nat /\ Cardinality(SUBSET H) \in Nat
           /\ Cardinality(SUBSET H) = 2 ^ Cardinality(H)
  <1>1. IsFiniteSet(1..n)
    BY FS_Interval
  <1>2. IsFiniteSet(H)
    BY <1>1, FS_Subset
  <1>3. IsFiniteSet(SUBSET H) /\ Cardinality(SUBSET H) = 2 ^ Cardinality(H)
    BY <1>2, FS_SUBSET
  <1>4. Behind(S, H) \in SUBSET (SUBSET H)
    BY DEF Behind
  <1>5. IsFiniteSet(Behind(S, H))
    BY <1>3, <1>4, FS_Subset
  <1>6. QED
    BY <1>2, <1>3, <1>5, FS_CardinalityType

LEMMA CountingGoesOn ==
    ASSUME NEW n \in Nat, NEW H \in SUBSET (1..n), NEW S \in SUBSET H, NEW c \in H \ S,
           \A u \in H : u < c => u \in S, NEW T, T = {u \in S : u > c} \cup {c}
    PROVE  Count(T, H) = Count(S, H) + 1
  <1> DEFINE before == Behind(S, H)
  <1>1. Behind(T, H) = before \cup {S} /\ S \notin before
    BY CounterCarries
  <1>2. IsFiniteSet(before) /\ Cardinality(before) \in Nat
    BY BehindFinite
  <1> HIDE DEF before
  <1>3. Cardinality(before \cup {S}) = Cardinality(before) + 1
    BY <1>1, <1>2, FS_AddElement
  <1>4. QED
    BY <1>1, <1>2, <1>3 DEF Count, before

LEMMA CountingIsBounded ==
    ASSUME NEW n \in Nat, NEW H \in SUBSET (1..n), NEW S \in SUBSET H
    PROVE  Count(S, H) \in Nat /\ Count(S, H) <= 2 ^ Cardinality(H)
  <1> DEFINE before == Behind(S, H)
             all == SUBSET H
  <1>1. IsFiniteSet(before) /\ Cardinality(before) \in Nat
        /\ IsFiniteSet(all) /\ Cardinality(all) \in Nat
        /\ Cardinality(all) = 2 ^ Cardinality(H)
    BY BehindFinite
  <1>2. S \notin before /\ before \cup {S} \in SUBSET all
    BY DEF Behind, Smaller
  <1> DEFINE more == before \cup {S}
  <1>3. Count(S, H) = Cardinality(before) + 1
    BY DEF Count
  <1> HIDE DEF before, all
  <1>4. Cardinality(more) = Cardinality(before) + 1
    BY <1>1, <1>2, FS_AddElement
  <1>5. more \in SUBSET all
    BY <1>2
  <1> HIDE DEF more
  <1>6. Cardinality(more) <= Cardinality(all)
    BY <1>1, <1>5, FS_Subset
  <1>7. QED
    BY <1>1, <1>3, <1>4, <1>6

LEMMA CountingEnds ==
    ASSUME NEW n \in Nat, NEW H \in SUBSET (1..n)
    PROVE  Count(H, H) = 2 ^ Cardinality(H)
  <1> DEFINE before == Behind(H, H)
             all == SUBSET H
  <1>1. IsFiniteSet(before) /\ Cardinality(before) \in Nat
        /\ Cardinality(all) = 2 ^ Cardinality(H)
    BY BehindFinite
  <1>2. H \notin before /\ before \cup {H} = all
    <2>1. before = all \ {H} /\ H \in all
      BY CounterFull
    <2>2. QED
      BY <2>1
  <1>3. Count(H, H) = Cardinality(before) + 1
    BY DEF Count
  <1> HIDE DEF before, all
  <1>4. Cardinality(before \cup {H}) = Cardinality(before) + 1
    BY <1>1, <1>2, FS_AddElement
  <1>5. QED
    BY <1>1, <1>2, <1>3, <1>4

-----------------------------------------------------------------------------
(* A document has one order.                                               *)

\* The depths of tasks: the first two parts of Ranked.
Depths(depth) ==
    /\ \A t \in DOMAIN depth : \A u \in TheTask(t).needs :
           u \in DOMAIN depth /\ depth[u] < depth[t]
    /\ \A t \in DOMAIN depth :
           depth[t] = 1 \/ \E u \in TheTask(t).needs : depth[u] = depth[t] - 1

LEMMA DepthsAgree ==
    ASSUME NEW n \in Nat, NEW c \in [Ids -> 1..n], NEW d \in [Ids -> 1..n],
           Depths(c), Depths(d)
    PROVE  c = d
  <1>1. SUFFICES ASSUME \E t \in Ids : c[t] # d[t] PROVE FALSE
    OBVIOUS
  <1> DEFINE levels == {c[t] : t \in {u \in Ids : c[u] # d[u]}}
  <1>2. levels # {} /\ levels \in SUBSET Nat
    BY <1>1
  <1>3. PICK k \in levels : \A j \in levels : k <= j
    <2> HIDE DEF levels
    <2>1. QED
      BY <1>2, HasLeast
  <1>4. PICK t \in Ids : c[t] # d[t] /\ c[t] = k
    BY <1>3
  <1>5. c[t] \in 1..n /\ d[t] \in 1..n
    OBVIOUS
  <1>6. ASSUME NEW u \in Ids, c[u] < c[t]
        PROVE  d[u] = c[u]
    <2>1. c[u] \in 1..n
      OBVIOUS
    <2>2. c[u] \notin levels
      BY <2>1, <1>3, <1>4, <1>5, <1>6
    <2>3. QED
      BY <2>2
  <1> HIDE DEF levels
  <1>7. \A u \in TheTask(t).needs :
            u \in Ids /\ c[u] < c[t] /\ d[u] < d[t] /\ c[u] \in 1..n /\ d[u] \in 1..n
    BY DEF Depths
  <1>8. d[t] <= c[t]
    <2>1. CASE d[t] = 1
      BY <1>5, <2>1
    <2>2. CASE d[t] # 1
      <3>1. PICK w \in TheTask(t).needs : d[w] = d[t] - 1
        BY <2>2 DEF Depths
      <3>2. d[w] = c[w] /\ c[w] < c[t] /\ c[w] \in 1..n
        BY <1>6, <1>7
      <3>3. QED
        BY <1>5, <3>1, <3>2
    <2>3. QED
      BY <2>1, <2>2
  <1>9. c[t] <= d[t]
    <2>1. CASE c[t] = 1
      BY <1>5, <2>1
    <2>2. CASE c[t] # 1
      <3>1. PICK w \in TheTask(t).needs : c[w] = c[t] - 1
        BY <2>2 DEF Depths
      <3>2. d[w] = c[w] /\ d[w] < d[t] /\ c[w] \in 1..n
        BY <1>6, <1>7
      <3>3. QED
        BY <1>5, <3>1, <3>2
    <2>3. QED
      BY <2>1, <2>2
  <1>10. QED
    BY <1>4, <1>5, <1>8, <1>9

\* Before others: shallower, or as deep with a smaller id.
Ahead(depth, t, u) == depth[t] < depth[u] \/ (depth[t] = depth[u] /\ t < u)

LEMMA SortedOnce ==
    ASSUME NEW n \in Nat, NEW T \in SUBSET Nat, NEW depth \in [T -> Nat],
           NEW o \in [1..n -> T], NEW p \in [1..n -> T],
           \A t \in T : \E i \in 1..n : o[i] = t,
           \A t \in T : \E i \in 1..n : p[i] = t,
           \A i, j \in 1..n : i < j => Ahead(depth, o[i], o[j]),
           \A i, j \in 1..n : i < j => Ahead(depth, p[i], p[j])
    PROVE  o = p
  <1>1. SUFFICES ASSUME \E i \in 1..n : o[i] # p[i] PROVE FALSE
    OBVIOUS
  <1> DEFINE differ == {i \in 1..n : o[i] # p[i]}
  <1>2. differ # {} /\ differ \in SUBSET Nat
    BY <1>1
  <1>3. PICK i \in differ : \A j \in differ : i <= j
    <2> HIDE DEF differ
    <2>1. QED
      BY <1>2, HasLeast
  <1>4. i \in 1..n /\ o[i] # p[i] /\ \A j \in 1..n : j < i => o[j] = p[j]
    BY <1>3
  <1> HIDE DEF differ
  <1>5. \A t, u \in T : Ahead(depth, t, u) => ~Ahead(depth, u, t) /\ t # u
    BY DEF Ahead
  <1>6. PICK j \in 1..n : p[j] = o[i]
    <2>1. o[i] \in T
      BY <1>4
    <2>2. QED
      BY <2>1
  <1>7. PICK k \in 1..n : o[k] = p[i]
    <2>1. p[i] \in T
      BY <1>4
    <2>2. QED
      BY <2>1
  <1>8. i < j
    <2>1. ~(j < i)
      <3>1. SUFFICES ASSUME j < i PROVE FALSE
        OBVIOUS
      <3>2. o[j] = o[i] /\ Ahead(depth, o[j], o[i])
        BY <1>4, <1>6, <3>1
      <3>3. QED
        BY <3>2, <1>4, <1>5
    <2>2. j # i
      BY <1>4, <1>6
    <2>3. QED
      BY <1>4, <2>1, <2>2
  <1>9. i < k
    <2>1. ~(k < i)
      <3>1. SUFFICES ASSUME k < i PROVE FALSE
        OBVIOUS
      <3>2. p[k] = p[i] /\ Ahead(depth, p[k], p[i])
        BY <1>4, <1>7, <3>1
      <3>3. QED
        BY <3>2, <1>4, <1>5
    <2>2. k # i
      BY <1>4, <1>7
    <2>3. QED
      BY <1>4, <2>1, <2>2
  <1>10. Ahead(depth, o[i], p[i]) /\ Ahead(depth, p[i], o[i])
    BY <1>4, <1>6, <1>7, <1>8, <1>9
  <1>11. QED
    BY <1>4, <1>5, <1>10

\* What an exact order is, taken apart.
LEMMA ExactFacts ==
    ASSUME flow \in Flow, NEW o \in Seq(TaskId), Exact(o)
    PROVE  /\ Cardinality(Ids) \in Nat /\ Len(o) = Cardinality(Ids)
           /\ o \in [1..Cardinality(Ids) -> Ids]
           /\ \A t \in Ids : \E i \in 1..Cardinality(Ids) : o[i] = t
           /\ \E depth \in [Ids -> 1..Cardinality(Ids)] :
                /\ Depths(depth)
                /\ \A i, j \in 1..Cardinality(Ids) : i < j => Ahead(depth, o[i], o[j])
  <1>1. /\ Len(o) \in Nat /\ DOMAIN o = 1..Len(o) /\ Len(o) = Cardinality(Ids)
        /\ o \in [1..Len(o) -> TaskId]
    BY DEF Exact
  <1>2. {o[i] : i \in 1..Len(o)} = Ids
    BY <1>1 DEF Exact
  <1>3. o \in [1..Len(o) -> Ids]
    BY <1>1, <1>2
  <1>4. \A t \in Ids : \E i \in 1..Len(o) : o[i] = t
    BY <1>2
  <1>5. PICK depth \in [Ids -> 1..Len(o)] : Ranked(o, depth)
    BY DEF Exact
  <1>6. /\ Depths(depth)
        /\ \A i, j \in 1..Len(o) : i < j => Ahead(depth, o[i], o[j])
    BY <1>1, <1>5 DEF Ranked, Depths, Ahead
  <1>7. QED
    BY <1>1, <1>3, <1>4, <1>6

LEMMA OneOrder ==
    ASSUME flow \in Flow, NEW o \in Seq(TaskId), NEW p \in Seq(TaskId), Exact(o), Exact(p)
    PROVE  o = p
  <1> DEFINE n == Cardinality(Ids)
  <1>1. /\ n \in Nat /\ o \in [1..n -> Ids] /\ p \in [1..n -> Ids]
        /\ \A t \in Ids : \E i \in 1..n : o[i] = t
        /\ \A t \in Ids : \E i \in 1..n : p[i] = t
    BY ExactFacts
  <1>2. PICK c \in [Ids -> 1..n] :
            Depths(c) /\ \A i, j \in 1..n : i < j => Ahead(c, o[i], o[j])
    BY ExactFacts
  <1>3. PICK d \in [Ids -> 1..n] :
            Depths(d) /\ \A i, j \in 1..n : i < j => Ahead(d, p[i], p[j])
    BY ExactFacts
  <1>4. Ids \in SUBSET Nat
    BY IdsAreTaskIds, FlowAssumption
  <1> HIDE DEF n
  <1>5. c = d
    BY <1>1, <1>2, <1>3, DepthsAgree
  <1>6. c \in [Ids -> Nat]
    <2>1. \A x \in 1..n : x \in Nat
      BY <1>1
    <2>2. QED
      BY <2>1
  <1>7. \A i, j \in 1..n : i < j => Ahead(c, p[i], p[j])
    BY <1>3, <1>5
  <1>8. QED
    BY <1>1, <1>2, <1>4, <1>6, <1>7, SortedOnce

-----------------------------------------------------------------------------
(* What a diligent operator's runs have got through.                       *)

\* What an undisturbed run calls a task with: the only value there is, for every
\* argument.
TheValue == CHOOSE v \in Value : TRUE

ScopeOf(t) == [task |-> t, args |-> [u \in TheTask(t).argsFrom |-> TheValue],
               dry |-> TheTask(t).dryRun]

\* The places of an order whose tasks are held back, and those whose document names an
\* approval that would let them run now.
HeldAt(o) == {i \in DOMAIN o : TheTask(o[i]).held}

Grants(t) == approvalId[t] # NoApproval /\ Fits(asked[approvalId[t]], ScopeOf(t))

Granted(o) == {i \in HeldAt(o) : Grants(o[i])}

\* The held-back tasks the session's run has got past.
Passed(s, o) ==
    {i \in HeldAt(o) :
        i <= Len(run[s].results) + IF pc[s] \in {"started", "running"} THEN 1 ELSE 0}

Settled == (\A i \in DOMAIN asked : asked[i].status # "pending") /\ Heeded

\* A run in progress has consumed the approvals of the places it passed: with those
\* left, they are the number of runs so far.
GoesOn(s, o) ==
    /\ ~run[s].dry /\ ~run[s].confirmed
    /\ run[s].approvals = approvalId
    /\ Settled
    /\ Passed(s, o) \cap Granted(o) = {}
    /\ run[s].number = Count(Granted(o) \cup Passed(s, o), HeldAt(o))
    /\ AtCall(s) => run[s].args = [u \in TheTask(Current(s)).argsFrom |-> TheValue]
    /\ pc[s] = "consuming" => Len(run[s].results) + 1 \in Granted(o)

\* One that place c blocked consumed those of every place before c, and asked for c's.
BlockedAt(s, o, c) ==
    /\ asked # <<>>
    /\ asked[Len(asked)].scope = ScopeOf(o[c])
    /\ asked[Len(asked)].status \in {"pending", "approved"}
    /\ \A i \in 1..(Len(asked) - 1) : asked[i].status # "pending"
    /\ \A i \in Granted(o) : i >= c
    /\ run[s].number = Count((Granted(o) \ {c}) \cup {i \in HeldAt(o) : i < c}, HeldAt(o))

Counts(s, o) ==
    /\ pc[s] \in InProgress /\ run[s].status = "none" => GoesOn(s, o)
    /\ pc[s] \in {"between", "ended"} /\ run[s].status = "blocked" =>
           \E c \in HeldAt(o) : BlockedAt(s, o, c)

HeldIds == {t \in Ids : TheTask(t).held}

Doubles(s) ==
    /\ pc[s] = "idle" => /\ runs = 0 /\ asked = <<>>
                         /\ \A t \in TaskId : approvalId[t] = NoApproval
    /\ pc[s] # "idle" => runs = run[s].number
    /\ run[s].number <= 2 ^ Cardinality(HeldIds)
    /\ pc[s] = "between" => run[s].status # "completed"
    /\ pc[s] = "ended" /\ run[s].status = "completed" =>
           run[s].number = 2 ^ Cardinality(HeldIds)

\* With the order runs make, inductive as long as one session runs the document.
DoubleIInv ==
    /\ OrderIInv
    /\ \A s \in Session : /\ Doubles(s)
                          /\ \A o \in Seq(TaskId) : Exact(o) => Counts(s, o)

LEMMA PowerPositive ==
    ASSUME NEW S, IsFiniteSet(S)
    PROVE  2 ^ Cardinality(S) \in Nat /\ 2 ^ Cardinality(S) >= 1
  <1> DEFINE all == SUBSET S
  <1>1. IsFiniteSet(all) /\ Cardinality(all) = 2 ^ Cardinality(S) /\ all # {}
    BY FS_SUBSET
  <1> HIDE DEF all
  <1>2. Cardinality(all) \in Nat /\ Cardinality(all) # 0
    BY <1>1, FS_CardinalityType, FS_EmptySet
  <1>3. QED
    BY <1>1, <1>2

\* Places of held-back tasks, and those tasks, are as many.
LEMMA HeldPlaces ==
    ASSUME flow \in Flow, NEW o \in Seq(TaskId), Exact(o)
    PROVE  /\ Len(o) \in Nat /\ DOMAIN o = 1..Len(o) /\ HeldAt(o) \in SUBSET (1..Len(o))
           /\ \A i \in DOMAIN o : o[i] \in Ids
           /\ \A i, j \in DOMAIN o : o[i] = o[j] => i = j
           /\ Cardinality(HeldAt(o)) = Cardinality(HeldIds)
  <1>1. /\ Cardinality(Ids) \in Nat /\ Len(o) = Cardinality(Ids)
        /\ o \in [1..Cardinality(Ids) -> Ids]
        /\ \A t \in Ids : \E i \in 1..Cardinality(Ids) : o[i] = t
    BY ExactFacts
  <1>2. PICK depth \in [Ids -> 1..Cardinality(Ids)] :
            \A i, j \in 1..Cardinality(Ids) : i < j => Ahead(depth, o[i], o[j])
    BY ExactFacts
  <1>3. Len(o) \in Nat /\ DOMAIN o = 1..Len(o) /\ HeldAt(o) \in SUBSET (1..Len(o))
        /\ \A i \in DOMAIN o : o[i] \in Ids
    BY <1>1 DEF HeldAt
  <1>4. ASSUME NEW i \in DOMAIN o, NEW j \in DOMAIN o, o[i] = o[j]
        PROVE  i = j
    <2>1. /\ o[i] \in Ids /\ o[i] \in Nat /\ depth[o[i]] \in 1..Cardinality(Ids)
          /\ i \in 1..Cardinality(Ids) /\ j \in 1..Cardinality(Ids)
      BY <1>1, <1>3, IdsAreTaskIds, FlowAssumption
    <2>2. ~Ahead(depth, o[i], o[j]) /\ ~Ahead(depth, o[j], o[i])
      BY <1>1, <1>4, <2>1 DEF Ahead
    <2>3. QED
      BY <1>1, <1>2, <2>1, <2>2
  <1> DEFINE f == [i \in HeldAt(o) |-> o[i]]
  <1>5. f \in [HeldAt(o) -> HeldIds]
    BY <1>3 DEF HeldAt, HeldIds
  <1>6. \A t \in HeldIds : \E i \in HeldAt(o) : f[i] = t
    BY <1>1, <1>3 DEF HeldAt, HeldIds
  <1>7. \A i, j \in HeldAt(o) : f[i] = f[j] => i = j
    BY <1>3, <1>4 DEF HeldAt
  <1>8. f \in Bijection(HeldAt(o), HeldIds)
    BY <1>5, <1>6, <1>7 DEF Bijection, Injection, Surjection, IsInjective
  <1>9. ExistsBijection(HeldAt(o), HeldIds)
    BY <1>8 DEF ExistsBijection
  <1>10. IsFiniteSet(HeldAt(o))
    <2>1. IsFiniteSet(1..Len(o))
      BY <1>3, FS_Interval
    <2>2. QED
      BY <1>3, <2>1, FS_Subset
  <1>11. Cardinality(HeldAt(o)) = Cardinality(HeldIds)
    BY <1>9, <1>10, FS_Bijection
  <1>12. QED
    BY <1>3, <1>4, <1>11

LEMMA SameHeld ==
    ASSUME flow' = flow, NEW o
    PROVE  /\ HeldAt(o)' = HeldAt(o) /\ HeldIds' = HeldIds
           /\ \A t : ScopeOf(t)' = ScopeOf(t)
  BY SameFlow DEF HeldAt, HeldIds, ScopeOf

LEMMA SameGranted ==
    ASSUME UNCHANGED <<flow, approvalId, asked>>, NEW o
    PROVE  Granted(o)' = Granted(o) /\ (Settled' <=> Settled)
  <1>1. \A t : Grants(t)' <=> Grants(t)
    BY SameHeld DEF Grants, Fits
  <1>2. Granted(o)' = Granted(o)
    BY <1>1, SameHeld DEF Granted
  <1>3. QED
    BY <1>2 DEF Settled, Heeded

\* What a step of the session makes of its place and locals.
LEMMA StepIs ==
    ASSUME TypeOK, NEW s \in Session, NEW r, NEW place,
           run' = [run EXCEPT ![s] = r], pc' = [pc EXCEPT ![s] = place]
    PROVE  run'[s] = r /\ pc'[s] = place
  BY DEF TypeOK

\* A session at a call is at a place of the exact order, with results before it.
LEMMA AtPlace ==
    ASSUME OrderIInv, NEW s \in Session, NEW o \in Seq(TaskId), Exact(o),
           pc[s] \in CallPlaces \cup {"between"}
    PROVE  /\ run[s] \in Locals /\ run[s].order = o
           /\ Len(run[s].results) \in Nat
           /\ AtCall(s) => /\ run[s].status = "none"
                           /\ Len(run[s].results) + 1 \in DOMAIN o
                           /\ Current(s) = o[Len(run[s].results) + 1]
                           /\ Current(s) \in Ids
                           /\ TheTask(Current(s)) \in Node
  <1>1. FlowIInv /\ OrdersHold /\ TypeOK /\ flow \in Flow
    BY OrderSplit DEF FlowIInv, TypeOK
  <1>2. run[s] \in Locals /\ run[s].order \in Seq(TaskId) /\ Len(run[s].results) \in Nat
    <2>1. run[s] \in Locals
      BY <1>1 DEF TypeOK
    <2>2. run[s].results \in Seq(TaskResult) /\ run[s].order \in Seq(TaskId)
      BY <2>1 DEF Locals
    <2>3. QED
      BY <2>1, <2>2
  <1>3. Exact(run[s].order)
    BY <1>1 DEF OrdersHold, OrderHolds, Later
  <1>4. run[s].order = o
    BY <1>1, <1>2, <1>3, OneOrder
  <1>5. ASSUME AtCall(s)
        PROVE  run[s].status = "none" /\ Len(run[s].results) < Len(run[s].order)
    BY <1>1, <1>5 DEF FlowIInv, RunHonest, AtCall
  <1>6. Len(o) \in Nat /\ DOMAIN o = 1..Len(o) /\ \A i \in DOMAIN o : o[i] \in Ids
    BY <1>1, HeldPlaces
  <1>7. ASSUME AtCall(s)
        PROVE  Len(run[s].results) + 1 \in DOMAIN o
    BY <1>2, <1>4, <1>5, <1>6, <1>7
  <1>8. Current(s) = o[Len(run[s].results) + 1]
    BY <1>4 DEF Current
  <1>9. QED
    BY <1>1, <1>2, <1>4, <1>5, <1>6, <1>7, <1>8, TaskFacts

\* Its call is the one its approval would be for.
LEMMA ScopeIs ==
    ASSUME OrderIInv, NEW s \in Session, NEW o \in Seq(TaskId), Exact(o), AtCall(s),
           GoesOn(s, o)
    PROVE  Scope(s) = ScopeOf(Current(s))
  <1>1. TheTask(Current(s)) \in Node
    BY AtPlace DEF AtCall
  <1>2. TheTask(Current(s)).dryRun \in BOOLEAN
    BY <1>1 DEF Node
  <1>3. Dry(s) = TheTask(Current(s)).dryRun
    BY <1>2 DEF Dry, GoesOn
  <1>4. QED
    BY <1>3 DEF Scope, ScopeOf, GoesOn

\* A step that leaves the document and the requests alone, and passes no held-back task.
LEMMA GoesOnStill ==
    ASSUME UNCHANGED <<flow, approvalId, asked>>, NEW s \in Session, NEW o, GoesOn(s, o),
           run'[s].dry = run[s].dry, run'[s].confirmed = run[s].confirmed,
           run'[s].approvals = run[s].approvals, run'[s].number = run[s].number,
           Passed(s, o)' = Passed(s, o),
           AtCall(s)' =>
               run'[s].args = [u \in TheTask(Current(s)').argsFrom |-> TheValue],
           pc'[s] = "consuming" => Len(run'[s].results) + 1 \in Granted(o)
    PROVE  GoesOn(s, o)'
  <1>1. /\ Granted(o)' = Granted(o) /\ HeldAt(o)' = HeldAt(o)
        /\ Settled' <=> Settled
    BY SameGranted, SameHeld
  <1>2. TheTask(Current(s))' = TheTask(Current(s)')
    BY DEF TheTask
  <1>3. QED
    BY <1>1, <1>2 DEF GoesOn

LEMMA GoingOn ==
    ASSUME OrderIInv, NEW s \in Session, NEW o, Counts(s, o),
           pc[s] \in CallPlaces \cup {"ordering"} \/ (pc[s] = "between" /\ run[s].status = "none")
    PROVE  GoesOn(s, o) /\ run[s].status = "none" /\ TypeOK /\ run[s] \in Locals
  <1>1. FlowIInv /\ TypeOK /\ run[s] \in Locals
    BY OrderSplit DEF FlowIInv, TypeOK
  <1>2. run[s].status = "none"
    BY <1>1 DEF FlowIInv, RunHonest
  <1>3. QED
    BY <1>1, <1>2 DEF Counts, InProgress

LEMMA SamePassed ==
    ASSUME flow' = flow, NEW s \in Session, NEW o, run'[s].results = run[s].results,
           pc'[s] \in {"started", "running"} <=> pc[s] \in {"started", "running"}
    PROVE  Passed(s, o)' = Passed(s, o)
  <1>1. HeldAt(o)' = HeldAt(o)
    BY SameHeld
  <1>2. (IF pc'[s] \in {"started", "running"} THEN 1 ELSE 0) =
        (IF pc[s] \in {"started", "running"} THEN 1 ELSE 0)
    OBVIOUS
  <1>3. QED
    BY <1>1, <1>2 DEF Passed

\* While the order is made, and while nothing but its place changes.
LEMMA OrderingCounts ==
    ASSUME OrderIInv, NEW s \in Session, NEW o \in Seq(TaskId), Exact(o), Counts(s, o),
           OrderRound(s) \/ OrderTask(s) \/ Announce(s)
    PROVE  Counts(s, o)'
  <1>1. GoesOn(s, o) /\ run[s].status = "none" /\ TypeOK /\ run[s] \in Locals
        /\ pc[s] = "ordering" /\ UNCHANGED <<flow, approvalId, asked>>
    BY GoingOn DEF OrderRound, OrderTask, Announce
  <1>2. /\ run'[s].dry = run[s].dry /\ run'[s].confirmed = run[s].confirmed
        /\ run'[s].approvals = run[s].approvals /\ run'[s].number = run[s].number
        /\ run'[s].results = run[s].results /\ run'[s].status = run[s].status
    <2> DEFINE q == run[s]
    <2>1. CASE OrderRound(s)
      <3> DEFINE r == [q EXCEPT !.batch = Ready(q.remaining)]
      <3>1. run'[s] = q \/ run'[s] = r
        BY <1>1, <2>1 DEF OrderRound, TypeOK
      <3>2. QED
        BY <1>1, <3>1 DEF Locals
    <2>2. CASE OrderTask(s)
      <3>1. PICK t \in q.batch :
              run' = [run EXCEPT ![s].batch = @ \ {t}, ![s].remaining = @ \ {t},
                                 ![s].order = Append(@, t)]
        BY <2>2 DEF OrderTask
      <3> DEFINE r1 == [q EXCEPT !.batch = @ \ {t}]
                 r2 == [r1 EXCEPT !.remaining = @ \ {t}]
                 r == [r2 EXCEPT !.order = Append(@, t)]
      <3>2. run'[s] = r
        BY <1>1, <3>1 DEF TypeOK
      <3>3. QED
        BY <1>1, <3>2 DEF Locals
    <2>3. CASE Announce(s)
      BY <2>3 DEF Announce
    <2>4. QED
      BY <2>1, <2>2, <2>3
  <1>3. pc'[s] \in {"ordering", "between", "rejected"}
    BY <1>1 DEF OrderRound, OrderTask, Announce, TypeOK, Goto
  <1>4. ~AtCall(s)' /\ pc'[s] # "consuming" /\ Passed(s, o)' = Passed(s, o)
    BY <1>1, <1>2, <1>3, SamePassed DEF AtCall, CallPlaces
  <1>5. GoesOn(s, o)'
    BY <1>1, <1>2, <1>4, GoesOnStill
  <1>6. QED
    BY <1>1, <1>2, <1>5 DEF Counts

LEMMA DispatchCounts ==
    ASSUME OrderIInv, NEW s \in Session, NEW o \in Seq(TaskId), Exact(o), Counts(s, o),
           Dispatch(s)
    PROVE  Counts(s, o)'
  <1>1. GoesOn(s, o) /\ run[s].status = "none" /\ TypeOK /\ AtCall(s)
        /\ pc[s] = "started" /\ UNCHANGED <<flow, approvalId, asked, run>>
    BY GoingOn DEF Dispatch, CallPlaces, AtCall
  <1>2. pc'[s] = "running"
    BY <1>1 DEF Dispatch, TypeOK, Goto
  <1>3. Passed(s, o)' = Passed(s, o) /\ Current(s)' = Current(s)
    BY <1>1, <1>2, SamePassed DEF Current
  <1>4. run'[s].args = [u \in TheTask(Current(s)').argsFrom |-> TheValue]
    BY <1>1, <1>3 DEF GoesOn
  <1>5. GoesOn(s, o)'
    BY <1>1, <1>2, <1>3, <1>4, GoesOnStill
  <1>6. QED
    BY <1>1, <1>5 DEF Counts

\* Values are all alike, so there is one way to resolve a task's arguments.
LEMMA ResolveCounts ==
    ASSUME OrderIInv, NEW s \in Session, NEW o \in Seq(TaskId), Exact(o), Counts(s, o),
           NEW v, Value = {v}, ResolveArgs(s)
    PROVE  Counts(s, o)'
  <1>1. pc[s] = "between" /\ run[s].status = "none"
        /\ UNCHANGED <<flow, approvalId, asked>>
    BY DEF ResolveArgs, AtTask
  <1>2. GoesOn(s, o) /\ TypeOK /\ run[s] \in Locals
    BY <1>1, GoingOn
  <1>3. PICK f \in Arguments(s) : run' = [run EXCEPT ![s].args = f]
    BY DEF ResolveArgs
  <1>4. pc'[s] = "calling" /\ run'[s] = [run[s] EXCEPT !.args = f]
    BY <1>2, <1>3 DEF ResolveArgs, TypeOK, Goto
  <1>5. /\ run'[s].dry = run[s].dry /\ run'[s].confirmed = run[s].confirmed
        /\ run'[s].approvals = run[s].approvals /\ run'[s].number = run[s].number
        /\ run'[s].results = run[s].results /\ run'[s].status = run[s].status
        /\ run'[s].order = run[s].order /\ run'[s].args = f
    BY <1>2, <1>4 DEF Locals
  <1>6. Passed(s, o)' = Passed(s, o) /\ Current(s)' = Current(s)
    BY <1>1, <1>4, <1>5, SamePassed DEF Current
  <1>7. TheValue = v
    BY DEF TheValue
  <1>8. f = [u \in TheTask(Current(s)).argsFrom |-> TheValue]
    <2>1. f \in [TheTask(Current(s)).argsFrom -> {v}]
      BY DEF Arguments
    <2>2. QED
      BY <2>1, <1>7
  <1>9. run'[s].args = [u \in TheTask(Current(s)').argsFrom |-> TheValue]
    BY <1>5, <1>6, <1>8
  <1>10. GoesOn(s, o)'
    BY <1>1, <1>2, <1>4, <1>5, <1>6, <1>9, GoesOnStill
  <1>11. QED
    BY <1>1, <1>5, <1>10 DEF Counts

\* A call gets past its place, or needs the approval its place was granted.
LEMMA GoAheadCounts ==
    ASSUME OrderIInv, NEW s \in Session, NEW o \in Seq(TaskId), Exact(o), Counts(s, o),
           GoAhead(s)
    PROVE  Counts(s, o)'
  <1> DEFINE here == Len(run[s].results) + 1
  <1>1. GoesOn(s, o) /\ run[s].status = "none" /\ TypeOK /\ AtCall(s)
        /\ pc[s] = "calling" /\ UNCHANGED <<flow, approvalId, asked, run>>
    BY GoingOn DEF GoAhead, CallPlaces, AtCall
  <1>2. here \in Nat /\ here \in DOMAIN o /\ Current(s) = o[here] /\ Len(run[s].results) \in Nat
    BY <1>1, AtPlace DEF AtCall
  <1>3. Free(s) <=> ~TheTask(Current(s)).held
    BY <1>1 DEF Free, GoesOn
  <1>4. pc'[s] = IF Free(s) THEN "started" ELSE "consuming"
    BY <1>1 DEF GoAhead, TypeOK, Goto
  <1>5. HeldAt(o)' = HeldAt(o) /\ HeldAt(o) \in SUBSET Nat
    <2>1. HeldAt(o) \in SUBSET (1..Len(o)) /\ Len(o) \in Nat
      BY <1>1, HeldPlaces DEF TypeOK
    <2>2. QED
      BY <1>1, <2>1, SameHeld
  <1>6. Passed(s, o)' = Passed(s, o)
    <2>1. CASE Free(s)
      <3>1. here \notin HeldAt(o)
        BY <1>2, <1>3, <2>1 DEF HeldAt
      <3>2. \A i \in HeldAt(o) : i <= Len(run[s].results) + 1 <=> i <= Len(run[s].results) + 0
        BY <1>2, <1>5, <3>1
      <3>3. pc'[s] = "started"
        BY <1>4, <2>1
      <3>4. QED
        BY <1>1, <1>5, <3>2, <3>3 DEF Passed
    <2>2. CASE ~Free(s)
      <3>1. pc'[s] = "consuming"
        BY <1>4, <2>2
      <3>2. QED
        BY <1>1, <3>1, SamePassed
    <2>3. QED
      BY <2>1, <2>2
  <1>7. pc'[s] = "consuming" => here \in Granted(o)
    <2>1. SUFFICES ASSUME ~Free(s) PROVE here \in Granted(o)
      BY <1>4
    <2>2. Presents(s) /\ TheTask(Current(s)).held /\ run[s].approvals = approvalId
      BY <1>1, <1>3, <2>1 DEF GoAhead, GoesOn
    <2>3. Scope(s) = ScopeOf(Current(s))
      BY <1>1, ScopeIs
    <2>4. Grants(Current(s))
      BY <2>2, <2>3 DEF Presents, Grants
    <2>5. QED
      BY <1>2, <2>2, <2>4 DEF Granted, HeldAt
  <1>8. run'[s].args = [u \in TheTask(Current(s)').argsFrom |-> TheValue]
        /\ Len(run'[s].results) + 1 = here
    BY <1>1 DEF GoesOn, Current
  <1> HIDE DEF here
  <1>9. GoesOn(s, o)'
    BY <1>1, <1>6, <1>7, <1>8, GoesOnStill
  <1>10. QED
    BY <1>1, <1>9 DEF Counts

LEMMA PlacesHoldTasks ==
    ASSUME NEW o \in Seq(TaskId), NEW i \in DOMAIN o
    PROVE  o[i] \in TaskId
  OBVIOUS

LEMMA SameBlocked ==
    ASSUME UNCHANGED <<flow, approvalId, asked>>, NEW s \in Session, NEW o, NEW c,
           BlockedAt(s, o, c), run'[s].number = run[s].number
    PROVE  BlockedAt(s, o, c)'
  <1>1. HeldAt(o)' = HeldAt(o) /\ Granted(o)' = Granted(o) /\ ScopeOf(o[c])' = ScopeOf(o[c])
    BY SameHeld, SameGranted
  <1>2. QED
    BY <1>1 DEF BlockedAt

LEMMA StopIs ==
    ASSUME FlowIInv, NEW s \in Session, AtCall(s),
           NEW status \in {"failed", "setup_required", "blocked"}
    PROVE  /\ Stopped(s, Current(s), status).number = run[s].number
           /\ Stopped(s, Current(s), status).status =
                  IF status = "blocked" THEN "blocked" ELSE "failed"
  BY StoppedResults

LEMMA ReturnCounts ==
    ASSUME OrderIInv, NEW s \in Session, NEW o \in Seq(TaskId), Exact(o), Counts(s, o),
           Return(s)
    PROVE  Counts(s, o)'
  <1>1. GoesOn(s, o) /\ run[s].status = "none" /\ TypeOK /\ run[s] \in Locals /\ AtCall(s)
        /\ pc[s] = "running" /\ UNCHANGED <<flow, approvalId, asked>>
    BY GoingOn DEF Return, CallPlaces, AtCall
  <1>2. pc'[s] = "between"
    BY <1>1 DEF Return, TypeOK, Goto
  <1>3. PICK outcome \in Outcomes, v \in Value :
          run' = [run EXCEPT ![s] =
            IF outcome = "completed"
            THEN [run[s] EXCEPT !.results =
                    Append(run[s].results, Result(Current(s), "completed", v))]
            ELSE Stopped(s, Current(s), outcome)]
    BY DEF Return
  <1>4. CASE outcome # "completed"
    <2>1. outcome \in {"failed", "setup_required"} /\ FlowIInv
      BY <1>4, FlowAssumption, OrderSplit
    <2>2. run'[s] = Stopped(s, Current(s), outcome)
      BY <1>1, <1>3, <1>4 DEF TypeOK
    <2>3. run'[s].status = "failed"
      BY <1>1, <2>1, <2>2, StopIs
    <2>4. QED
      BY <2>3 DEF Counts
  <1>5. CASE outcome = "completed"
    <2> DEFINE q == run[s]
               result == Result(Current(s), "completed", v)
               r == [q EXCEPT !.results = Append(q.results, result)]
    <2>1. run'[s] = r
      BY <1>1, <1>3, <1>5 DEF TypeOK
    <2>2. r.dry = q.dry /\ r.confirmed = q.confirmed /\ r.approvals = q.approvals
          /\ r.number = q.number /\ r.status = q.status
          /\ r.results = Append(q.results, result)
      BY <1>1 DEF Locals
    <2>3. Len(r.results) = Len(q.results) + 1 /\ Len(q.results) \in Nat
      <3>1. q.results \in Seq(TaskResult)
        BY <1>1 DEF Locals
      <3> HIDE DEF q, result, r
      <3>2. QED
        BY <2>2, <3>1
    <2> HIDE DEF r, result
    <2>4. Passed(s, o)' = Passed(s, o)
      <3>1. HeldAt(o)' = HeldAt(o)
        BY <1>1, SameHeld
      <3>2. Len(run'[s].results) + 0 = Len(run[s].results) + 1
        BY <2>1, <2>3
      <3>3. QED
        BY <1>1, <1>2, <3>1, <3>2 DEF Passed
    <2>5. GoesOn(s, o)'
      BY <1>1, <1>2, <2>1, <2>2, <2>4, GoesOnStill DEF AtCall, CallPlaces
    <2>6. QED
      BY <1>1, <2>1, <2>2, <2>5 DEF Counts
  <1>6. QED
    BY <1>4, <1>5

LEMMA FinishCounts ==
    ASSUME OrderIInv, NEW s \in Session, NEW o \in Seq(TaskId), Exact(o), Counts(s, o),
           Finish(s)
    PROVE  Counts(s, o)'
  <1>1. TypeOK /\ run[s] \in Locals /\ pc[s] = "between"
        /\ UNCHANGED <<flow, approvalId, asked>>
    BY OrderSplit DEF FlowIInv, TypeOK, Finish
  <1>2. pc'[s] = "ended" /\ run'[s].number = run[s].number
        /\ run'[s].status = IF run[s].status = "none" THEN "completed" ELSE run[s].status
    BY <1>1 DEF Finish, TypeOK, Goto, Locals
  <1>3. ASSUME run'[s].status = "blocked"
        PROVE  \E c \in HeldAt(o) : BlockedAt(s, o, c)'
    <2>1. PICK c \in HeldAt(o) : BlockedAt(s, o, c)
      BY <1>1, <1>2, <1>3 DEF Counts
    <2>2. BlockedAt(s, o, c)'
      BY <1>1, <1>2, <2>1, SameBlocked
    <2>3. QED
      BY <2>2
  <1>4. HeldAt(o)' = HeldAt(o)
    BY <1>1, SameHeld
  <1>5. QED
    BY <1>2, <1>3, <1>4 DEF Counts, InProgress, CallPlaces

\* What a finished run counted: all the subsets of the held-back tasks.
LEMMA FinishDoubles ==
    ASSUME OrderIInv, NEW s \in Session, NEW o \in Seq(TaskId), Exact(o), Counts(s, o),
           Finish(s), run[s].status = "none"
    PROVE  run[s].number = 2 ^ Cardinality(HeldIds)
  <1>1. GoesOn(s, o) /\ TypeOK /\ pc[s] = "between" /\ Len(run[s].results) = Len(run[s].order)
    BY GoingOn DEF Finish
  <1>2. run[s].order = o
    BY <1>1, AtPlace
  <1>3. HeldAt(o) \in SUBSET (1..Len(o)) /\ Len(o) \in Nat
        /\ Cardinality(HeldAt(o)) = Cardinality(HeldIds)
    BY <1>1, HeldPlaces DEF TypeOK
  <1>4. Passed(s, o) = HeldAt(o)
    <2>1. \A i \in HeldAt(o) : i <= Len(run[s].results) + 0
      BY <1>1, <1>2, <1>3
    <2>2. QED
      BY <1>1, <2>1 DEF Passed
  <1>5. Granted(o) \cup Passed(s, o) = HeldAt(o)
    BY <1>4 DEF Granted
  <1>6. QED
    BY <1>1, <1>3, <1>5, CountingEnds DEF GoesOn

\* The approval of a place serves no other: its scope names the place's task.
LEMMA OnePlaceEach ==
    ASSUME NEW o, NEW i \in Granted(o), NEW j \in HeldAt(o), o[i] # o[j]
    PROVE  asked[approvalId[o[i]]].scope # ScopeOf(o[j])
  BY DEF Granted, Grants, Fits, ScopeOf

\* A place's approval is consumed as the run passes it.
LEMMA ConsumeCounts ==
    ASSUME OrderIInv, NEW s \in Session, NEW o \in Seq(TaskId), Exact(o), Counts(s, o),
           Consume(s)
    PROVE  Counts(s, o)'
  <1> DEFINE here == Len(run[s].results) + 1
             id == approvalId[o[here]]
  <1>1. GoesOn(s, o) /\ run[s].status = "none" /\ TypeOK /\ AtCall(s)
        /\ pc[s] = "consuming" /\ UNCHANGED <<flow, approvalId, run>>
    BY GoingOn DEF Consume, CallPlaces, AtCall
  <1>2. here \in DOMAIN o /\ Current(s) = o[here] /\ Len(run[s].results) \in Nat /\ here \in Nat
    BY <1>1, AtPlace DEF AtCall
  <1>3. here \in Granted(o) /\ here \in HeldAt(o)
    BY <1>1 DEF GoesOn, Granted
  <1>4. asked' = [asked EXCEPT ![id].status = "used"] /\ pc'[s] = "started"
    BY <1>1, <1>2 DEF Consume, GoesOn, TypeOK, Goto
  <1>5. id \in DOMAIN asked /\ asked \in Seq(Approval) /\ asked[id].scope = ScopeOf(o[here])
        /\ asked[id].status = "approved" /\ o[here] \in TaskId
    <2>1. id # NoApproval /\ asked[id].scope = ScopeOf(o[here]) /\ asked[id].status = "approved"
      BY <1>3 DEF Granted, Grants, Fits
    <2>2. o[here] \in TaskId
      BY <1>2, PlacesHoldTasks
    <2>3. id \in DOMAIN asked
      BY <2>1, <2>2, OrderSplit DEF FlowIInv, ApprovalsHonest
    <2>4. asked \in Seq(Approval)
      BY <1>1, Zenon DEF TypeOK, Approval
    <2>5. QED
      BY <2>1, <2>2, <2>3, <2>4
  <1>6. HeldAt(o)' = HeldAt(o) /\ HeldAt(o) \in SUBSET (1..Len(o)) /\ Len(o) \in Nat
        /\ \A i, j \in DOMAIN o : o[i] = o[j] => i = j
    BY <1>1, SameHeld, HeldPlaces DEF TypeOK
  <1> HIDE DEF id, here
  <1>7. /\ DOMAIN asked' = DOMAIN asked /\ Len(asked') = Len(asked)
        /\ asked'[id].status = "used"
        /\ \A i \in DOMAIN asked : asked'[i].scope = asked[i].scope
        /\ \A i \in DOMAIN asked \ {id} : asked'[i] = asked[i]
    <2>1. asked[id] \in Approval
      BY <1>5
    <2> DEFINE a == [asked[id] EXCEPT !.status = "used"]
    <2>2. a.status = "used" /\ a.scope = asked[id].scope
      BY <2>1 DEF Approval
    <2>3. asked' = [asked EXCEPT ![id] = a]
      BY <1>4
    <2> HIDE DEF a
    <2>4. QED
      BY <1>5, <2>2, <2>3
  <1>8. Granted(o)' = Granted(o) \ {here}
    <2>1. here \notin Granted(o)'
      BY <1>1, <1>7 DEF Granted, Grants, Fits, id
    <2>2. ASSUME NEW i \in HeldAt(o), i # here
          PROVE  Grants(o[i])' <=> Grants(o[i])
      <3>1. o[i] # o[here] /\ o[i] \in TaskId /\ i \in DOMAIN o
        BY <1>2, <1>6, <2>2, PlacesHoldTasks DEF HeldAt
      <3>2. ScopeOf(o[i])' = ScopeOf(o[i]) /\ approvalId'[o[i]] = approvalId[o[i]]
        BY <1>1, SameHeld
      <3>3. CASE approvalId[o[i]] = id
        <4>1. ScopeOf(o[here]) # ScopeOf(o[i])
          BY <3>1 DEF ScopeOf
        <4>2. ~Grants(o[i])
          BY <1>5, <3>3, <4>1 DEF Grants, Fits
        <4>3. ~Grants(o[i])'
          BY <1>7, <3>2, <3>3 DEF Grants, Fits
        <4>4. QED
          BY <4>2, <4>3
      <3>4. CASE approvalId[o[i]] # id
        <4>1. approvalId[o[i]] # NoApproval => approvalId[o[i]] \in DOMAIN asked
          BY <3>1, OrderSplit DEF FlowIInv, ApprovalsHonest
        <4>2. approvalId[o[i]] # NoApproval =>
                asked'[approvalId[o[i]]] = asked[approvalId[o[i]]]
          BY <1>7, <3>4, <4>1
        <4>3. QED
          BY <3>2, <4>2 DEF Grants, Fits
      <3>5. QED
        BY <3>3, <3>4
    <2>3. QED
      BY <1>6, <2>1, <2>2 DEF Granted
  <1>9. Passed(s, o)' = Passed(s, o) \cup {here}
    <2>1. Passed(s, o)' = {i \in HeldAt(o) : i <= Len(run[s].results) + 1}
      BY <1>1, <1>4, <1>6 DEF Passed
    <2>2. Passed(s, o) = {i \in HeldAt(o) : i <= Len(run[s].results) + 0}
      BY <1>1 DEF Passed
    <2>3. \A i \in HeldAt(o) : i <= Len(run[s].results) + 1 <=>
                i <= Len(run[s].results) + 0 \/ i = here
      BY <1>2, <1>6 DEF here
    <2>4. QED
      BY <1>3, <2>1, <2>2, <2>3
  <1>10. Granted(o)' \cup Passed(s, o)' = Granted(o) \cup Passed(s, o)
         /\ Passed(s, o)' \cap Granted(o)' = {}
    BY <1>1, <1>3, <1>8, <1>9 DEF GoesOn
  <1>11. Settled'
    <2>1. \A i \in DOMAIN asked : asked'[i].status # "pending"
      BY <1>1, <1>5, <1>7 DEF GoesOn, Settled
    <2>2. asked # <<>>
      BY <1>5
    <2>3. Len(asked) \in DOMAIN asked
      BY <1>5
    <2>4. approvalId[asked[Len(asked)].scope.task] = Len(asked)
      BY <1>1, <2>2 DEF GoesOn, Settled, Heeded
    <2>5. Heeded'
      BY <1>1, <1>7, <2>1, <2>3, <2>4 DEF Heeded
    <2>6. QED
      BY <1>7, <2>1, <2>5 DEF Settled
  <1>12. /\ run'[s] = run[s] /\ Current(s)' = Current(s)
         /\ TheTask(Current(s))' = TheTask(Current(s))
    BY <1>1, SameFlow DEF Current
  <1>13. GoesOn(s, o)'
    BY <1>1, <1>4, <1>6, <1>10, <1>11, <1>12 DEF GoesOn
  <1>14. QED
    BY <1>1, <1>12, <1>13 DEF Counts

\* A refused call's place asks for its approval, the places before it consumed theirs.
LEMMA RefuseCounts ==
    ASSUME OrderIInv, NEW s \in Session, NEW o \in Seq(TaskId), Exact(o), Counts(s, o),
           Refuse(s)
    PROVE  Counts(s, o)'
  <1>0. PICK here : here = Len(run[s].results) + 1
    OBVIOUS
  <1> DEFINE request == [scope |-> Scope(s), status |-> "pending"]
  <1>1. GoesOn(s, o) /\ run[s].status = "none" /\ TypeOK /\ AtCall(s) /\ FlowIInv
        /\ pc[s] = "calling" /\ UNCHANGED <<flow, approvalId>>
    BY GoingOn, OrderSplit DEF Refuse, CallPlaces, AtCall
  <1>2. here \in DOMAIN o /\ Current(s) = o[here] /\ Len(run[s].results) \in Nat /\ here \in Nat
    BY <1>0, <1>1, AtPlace DEF AtCall
  <1>3. /\ pc'[s] = "between" /\ run'[s] = Stopped(s, Current(s), "blocked")
        /\ asked' = Append(asked, request)
    BY <1>1 DEF Refuse, TypeOK, Goto
  <1>4. run'[s].status = "blocked" /\ run'[s].number = run[s].number
    BY <1>1, <1>3, StopIs
  <1>5. Scope(s) = ScopeOf(o[here])
    BY <1>1, <1>2, ScopeIs
  <1>6. here \in HeldAt(o) /\ ~Grants(o[here])
    <2>1. TheTask(o[here]).held /\ ~Presents(s) /\ run[s].approvals = approvalId
      BY <1>1, <1>2 DEF Refuse, Free, GoesOn
    <2>2. ~Grants(o[here])
      BY <1>2, <1>5, <2>1 DEF Presents, Grants
    <2>3. QED
      BY <1>2, <2>1, <2>2 DEF HeldAt
  <1>7. asked \in Seq(Approval) /\ request \in Approval
    <2>1. asked \in Seq(Approval)
      BY <1>1, Zenon DEF TypeOK, Approval
    <2>2. Scope(s) \in Scopes
      BY <1>1, ScopeType
    <2>3. QED
      BY <2>1, <2>2 DEF Approval
  <1>8. request.scope = ScopeOf(o[here]) /\ request.status = "pending"
    BY <1>5
  <1>9. HeldAt(o)' = HeldAt(o) /\ HeldAt(o) \in SUBSET (1..Len(o)) /\ Len(o) \in Nat
        /\ ScopeOf(o[here])' = ScopeOf(o[here])
    BY <1>1, SameHeld, HeldPlaces DEF TypeOK
  <1> HIDE DEF request
  <1>10. /\ Len(asked') = Len(asked) + 1 /\ asked'[Len(asked) + 1] = request
         /\ Len(asked) \in Nat /\ asked' # <<>>
         /\ \A i \in DOMAIN asked : asked'[i] = asked[i]
         /\ DOMAIN asked = 1..Len(asked)
    BY <1>3, <1>7
  <1>11. Granted(o)' = Granted(o)
    <2>1. ASSUME NEW i \in HeldAt(o)
          PROVE  Grants(o[i])' <=> Grants(o[i])
      <3>1. o[i] \in TaskId
        BY PlacesHoldTasks DEF HeldAt
      <3>2. ScopeOf(o[i])' = ScopeOf(o[i]) /\ approvalId'[o[i]] = approvalId[o[i]]
        BY <1>1, SameHeld
      <3>3. approvalId[o[i]] # NoApproval => approvalId[o[i]] \in DOMAIN asked
        BY <1>1, <3>1 DEF FlowIInv, ApprovalsHonest
      <3>4. QED
        BY <1>10, <3>2, <3>3 DEF Grants, Fits
    <2>2. QED
      BY <1>9, <2>1 DEF Granted
  <1>12. Passed(s, o) = {i \in HeldAt(o) : i < here}
    <2>1. Passed(s, o) = {i \in HeldAt(o) : i <= Len(run[s].results) + 0}
      BY <1>1 DEF Passed
    <2>2. \A i \in HeldAt(o) : i < here <=> i <= Len(run[s].results) + 0
      BY <1>0, <1>2, <1>9
    <2>3. QED
      BY <2>1, <2>2
  <1>13. here \notin Granted(o) /\ \A i \in Granted(o) : i >= here
    <2>1. \A i \in Granted(o) : i \in HeldAt(o) /\ i \notin Passed(s, o) /\ i \in Nat
      BY <1>1, <1>9 DEF GoesOn, Granted
    <2>2. QED
      BY <1>2, <1>6, <1>12, <2>1 DEF Granted
  <1>14. run[s].number =
            Count((Granted(o) \ {here}) \cup {i \in HeldAt(o) : i < here}, HeldAt(o))
    <2>1. Granted(o) \cup Passed(s, o) =
            (Granted(o) \ {here}) \cup {i \in HeldAt(o) : i < here}
      BY <1>12, <1>13
    <2>2. QED
      BY <1>1, <2>1 DEF GoesOn
  <1>15. \A i \in 1..(Len(asked') - 1) : asked'[i].status # "pending"
    BY <1>1, <1>10 DEF GoesOn, Settled
  <1>16. asked'[Len(asked')] = request
    BY <1>10
  <1>17. QED
    <2>1. here \in HeldAt(o)
      BY <1>6
    <2>2. BlockedAt(s, o, here)'
      BY <1>4, <1>8, <1>9, <1>10, <1>11, <1>13, <1>14, <1>15, <1>16 DEF BlockedAt
    <2>3. QED
      BY <1>3, <1>4, <1>9, <2>1, <2>2 DEF Counts

\* The first approval given is the last asked for, and takes its place's task past.
LEMMA DecideCounts ==
    ASSUME OrderIInv, NEW s \in Session, NEW o \in Seq(TaskId), Exact(o), Counts(s, o),
           NEW id \in ApprovalId, Decide(id, "approved")
    PROVE  Counts(s, o)'
  <1>1. TypeOK /\ FlowIInv /\ UNCHANGED <<flow, approvalId, runs, pc, run>>
        /\ id \in DOMAIN asked /\ asked[id].status = "pending" /\ asked \in Seq(Approval)
    <2>1. TypeOK /\ FlowIInv
      BY OrderSplit DEF FlowIInv
    <2>2. asked \in Seq(Approval)
      BY <2>1, Zenon DEF TypeOK, Approval
    <2>3. QED
      BY <2>1, <2>2 DEF Decide
  <1>2. CASE pc[s] \in InProgress /\ run[s].status = "none"
    <2>1. Settled
      BY <1>2 DEF Counts, GoesOn
    <2>2. QED
      BY <1>1, <2>1 DEF Settled
  <1>3. CASE pc[s] \in {"between", "ended"} /\ run[s].status = "blocked"
    <2>1. PICK c \in HeldAt(o) : BlockedAt(s, o, c)
      BY <1>3 DEF Counts
    <2>2. id = Len(asked)
      BY <1>1, <2>1 DEF BlockedAt
    <2>3. HeldAt(o)' = HeldAt(o) /\ ScopeOf(o[c])' = ScopeOf(o[c])
          /\ \A i, j \in DOMAIN o : o[i] = o[j] => i = j
      BY <1>1, SameHeld, HeldPlaces DEF TypeOK
    <2>4. /\ DOMAIN asked' = DOMAIN asked /\ Len(asked') = Len(asked) /\ asked' # <<>>
          /\ asked'[id].status = "approved" /\ asked'[id].scope = asked[id].scope
          /\ \A i \in DOMAIN asked \ {id} : asked'[i] = asked[i]
      <3>1. asked[id] \in Approval
        BY <1>1
      <3> DEFINE a == [asked[id] EXCEPT !.status = "approved"]
      <3>2. a.status = "approved" /\ a.scope = asked[id].scope
        BY <3>1 DEF Approval
      <3>3. asked' = [asked EXCEPT ![id] = a]
        BY DEF Decide
      <3> HIDE DEF a
      <3>4. QED
        BY <1>1, <3>2, <3>3
    <2>5. asked[id].scope = ScopeOf(o[c])
      BY <2>1, <2>2 DEF BlockedAt
    <2>6. ASSUME NEW i \in HeldAt(o), i # c
          PROVE  Grants(o[i])' <=> Grants(o[i])
      <3>1. o[i] # o[c] /\ o[i] \in TaskId
        BY <2>3, <2>6, PlacesHoldTasks DEF HeldAt
      <3>2. ScopeOf(o[i])' = ScopeOf(o[i]) /\ approvalId'[o[i]] = approvalId[o[i]]
        BY <1>1, SameHeld
      <3>3. ScopeOf(o[i]) # ScopeOf(o[c])
        BY <3>1 DEF ScopeOf
      <3>4. approvalId[o[i]] # NoApproval => approvalId[o[i]] \in DOMAIN asked
        BY <1>1, <3>1 DEF FlowIInv, ApprovalsHonest
      <3>5. CASE approvalId[o[i]] = id
        BY <2>4, <2>5, <3>2, <3>3, <3>5 DEF Grants, Fits
      <3>6. CASE approvalId[o[i]] # id
        BY <2>4, <3>2, <3>4, <3>6 DEF Grants, Fits
      <3>7. QED
        BY <3>5, <3>6
    <2>7. Granted(o)' \ {c} = Granted(o) \ {c}
      BY <2>3, <2>6 DEF Granted
    <2>8. \A i \in Granted(o)' : i >= c
      <3>1. c \in Nat
        BY <1>1, HeldPlaces DEF TypeOK
      <3>2. \A i \in Granted(o)' : i = c \/ i \in Granted(o)
        BY <2>7
      <3>3. QED
        BY <2>1, <3>1, <3>2 DEF BlockedAt
    <2>9. /\ asked'[Len(asked')].scope = ScopeOf(o[c])
          /\ asked'[Len(asked')].status = "approved"
          /\ \A i \in 1..(Len(asked') - 1) : asked'[i].status # "pending"
      <3>1. \A i \in 1..(Len(asked) - 1) : i \in DOMAIN asked \ {id}
        BY <1>1, <2>2
      <3>2. QED
        BY <2>1, <2>2, <2>4, <2>5, <3>1 DEF BlockedAt
    <2>10. run'[s].number = Count((Granted(o)' \ {c}) \cup {i \in HeldAt(o) : i < c}, HeldAt(o))
      BY <1>1, <2>1, <2>7 DEF BlockedAt
    <2>11. BlockedAt(s, o, c)'
      BY <2>3, <2>4, <2>8, <2>9, <2>10 DEF BlockedAt
    <2>12. QED
      BY <1>1, <1>3, <2>3, <2>11 DEF Counts
  <1>4. QED
    BY <1>1, <1>2, <1>3 DEF Counts

LEMMA EditCounts ==
    ASSUME OrderIInv, NEW s \in Session, NEW o \in Seq(TaskId), Exact(o), Counts(s, o),
           Len(asked) \in ApprovalId, EditApproval(Len(asked))
    PROVE  Counts(s, o)'
  <1> DEFINE id == Len(asked)
             task == asked[id].scope.task
  <1>1. TypeOK /\ UNCHANGED <<flow, asked, runs, pc, run>>
        /\ approvalId[task] # id /\ approvalId' = [approvalId EXCEPT ![task] = id]
        /\ asked # <<>>
    BY OrderSplit DEF FlowIInv, EditApproval
  <1>2. CASE pc[s] \in InProgress /\ run[s].status = "none"
    <2>1. Heeded
      BY <1>2 DEF Counts, GoesOn, Settled
    <2>2. QED
      BY <1>1, <2>1 DEF Heeded
  <1>3. CASE pc[s] \in {"between", "ended"} /\ run[s].status = "blocked"
    <2>1. PICK c \in HeldAt(o) : BlockedAt(s, o, c)
      BY <1>3 DEF Counts
    <2>2. HeldAt(o)' = HeldAt(o) /\ ScopeOf(o[c])' = ScopeOf(o[c])
          /\ \A i, j \in DOMAIN o : o[i] = o[j] => i = j
      BY <1>1, SameHeld, HeldPlaces DEF TypeOK
    <2>3. task = o[c]
      BY <2>1 DEF BlockedAt, ScopeOf
    <2> HIDE DEF id, task
    <2>4. ASSUME NEW i \in HeldAt(o), i # c
          PROVE  Grants(o[i])' <=> Grants(o[i])
      <3>1. o[i] # o[c] /\ o[i] \in TaskId
        BY <2>2, <2>4, PlacesHoldTasks DEF HeldAt
      <3>2. ScopeOf(o[i])' = ScopeOf(o[i]) /\ approvalId'[o[i]] = approvalId[o[i]]
        BY <1>1, <2>3, <3>1, SameHeld DEF TypeOK
      <3>3. QED
        BY <1>1, <3>2 DEF Grants, Fits
    <2>5. Granted(o)' \ {c} = Granted(o) \ {c}
      BY <2>2, <2>4 DEF Granted
    <2>6. \A i \in Granted(o)' : i >= c
      <3>1. c \in Nat
        BY <1>1, HeldPlaces DEF TypeOK
      <3>2. \A i \in Granted(o)' : i = c \/ i \in Granted(o)
        BY <2>5
      <3>3. QED
        BY <2>1, <3>1, <3>2 DEF BlockedAt
    <2>7. run'[s].number = Count((Granted(o)' \ {c}) \cup {i \in HeldAt(o) : i < c}, HeldAt(o))
      BY <1>1, <2>1, <2>5 DEF BlockedAt
    <2>8. BlockedAt(s, o, c)'
      BY <1>1, <2>1, <2>2, <2>6, <2>7 DEF BlockedAt
    <2>9. QED
      BY <1>1, <1>3, <2>2, <2>8 DEF Counts
  <1>4. QED
    BY <1>1, <1>2, <1>3 DEF Counts

\* A run that does what the last one asked for counts on by one: the blocked place's
\* approval is given, and those before it have none left.
LEMMA RerunCounts ==
    ASSUME OrderIInv, NEW s \in Session, NEW o \in Seq(TaskId), Exact(o), Heeded,
           NEW c \in HeldAt(o), BlockedAt(s, o, c)
    PROVE  /\ Settled
           /\ Count(Granted(o), HeldAt(o)) = run[s].number + 1
           /\ run[s].number + 1 <= 2 ^ Cardinality(HeldIds)
  <1>1. TypeOK /\ asked \in Seq(Approval)
    <2>1. TypeOK
      BY OrderSplit DEF FlowIInv
    <2>2. QED
      BY <2>1, Zenon DEF TypeOK, Approval
  <1>2. /\ HeldAt(o) \in SUBSET (1..Len(o)) /\ Len(o) \in Nat
        /\ Cardinality(HeldAt(o)) = Cardinality(HeldIds)
    BY <1>1, HeldPlaces DEF TypeOK
  <1>3. asked[Len(asked)].status = "approved" /\ approvalId[o[c]] = Len(asked)
        /\ asked[Len(asked)].scope = ScopeOf(o[c])
    BY DEF Heeded, BlockedAt, ScopeOf
  <1>4. Settled
    <2>1. \A i \in DOMAIN asked : i \in 1..(Len(asked) - 1) \/ i = Len(asked)
      BY <1>1
    <2>2. QED
      BY <1>3, <2>1 DEF Settled, BlockedAt
  <1>5. c \in Granted(o)
    <2>1. Len(asked) # NoApproval
      BY <1>1, FlowAssumption
    <2>2. QED
      BY <1>3, <2>1 DEF Granted, Grants, Fits
  <1> DEFINE H == HeldAt(o)
             G == Granted(o)
             S == (G \ {c}) \cup {i \in H : i < c}
  <1>6. G \in SUBSET H /\ c \in G /\ \A i \in G : i >= c
    BY <1>5 DEF Granted, BlockedAt
  <1>7. run[s].number = Count(S, H)
    BY DEF BlockedAt
  <1>8. H \in SUBSET (1..Len(o)) /\ Len(o) \in Nat /\ Cardinality(H) = Cardinality(HeldIds)
    BY <1>2
  <1> HIDE DEF H, G
  <1>9. c \in 1..Len(o) /\ \A i \in H : i \in 1..Len(o)
    BY <1>6, <1>8
  <1>10. c \in H /\ ~(c < c) /\ \A u \in H : ~(u < c /\ u > c) /\ (u >= c => u = c \/ u > c)
    BY <1>6, <1>9
  <1>11. /\ S \in SUBSET H /\ c \in H \ S /\ \A u \in H : u < c => u \in S
         /\ G = {u \in S : u > c} \cup {c}
    <2>1. S \in SUBSET H
      BY <1>6
    <2>2. c \in H \ S
      BY <1>10
    <2>3. \A u \in H : u < c => u \in S
      OBVIOUS
    <2>4. \A u \in H : u \in G <=> (u \in S /\ u > c) \/ u = c
      BY <1>6, <1>10
    <2>5. QED
      BY <2>1, <2>2, <2>3, <2>4, <1>6
  <1> HIDE DEF S
  <1>12. Count(G, H) = Count(S, H) + 1
    BY <1>8, <1>11, CountingGoesOn
  <1>13. Count(G, H) <= 2 ^ Cardinality(H)
    BY <1>6, <1>8, CountingIsBounded
  <1>14. QED
    BY <1>4, <1>7, <1>8, <1>12, <1>13 DEF G, H

LEMMA NextToBegin ==
    ASSUME OrderIInv, NEW s \in Session, Start(s, FALSE, FALSE)
    PROVE  /\ UNCHANGED <<flow, approvalId, asked>> /\ runs' = runs + 1
           /\ pc'[s] \in {"ordering", "rejected"}
           /\ run'[s].number = runs + 1 /\ ~run'[s].dry /\ ~run'[s].confirmed
           /\ run'[s].approvals = approvalId /\ run'[s].results = <<>>
           /\ run'[s].status = "none"
  <1>1. TypeOK
    BY OrderSplit DEF FlowIInv
  <1>2. run'[s] = Fresh(FALSE, FALSE) /\ pc'[s] \in {"ordering", "rejected"}
    BY <1>1 DEF Start, TypeOK, Goto
  <1>3. QED
    BY <1>2 DEF Start, Fresh

LEMMA StartCounts ==
    ASSUME OrderIInv, NEW s \in Session, NEW o \in Seq(TaskId), Exact(o), Counts(s, o),
           Doubles(s), pc[s] = "idle" \/ (pc[s] = "ended" /\ run[s].status = "blocked"),
           Heeded, Start(s, FALSE, FALSE)
    PROVE  Counts(s, o)'
  <1>1. /\ UNCHANGED <<flow, approvalId, asked>> /\ runs' = runs + 1
        /\ pc'[s] \in {"ordering", "rejected"}
        /\ run'[s].number = runs + 1 /\ ~run'[s].dry /\ ~run'[s].confirmed
        /\ run'[s].approvals = approvalId /\ run'[s].results = <<>>
        /\ run'[s].status = "none"
    BY NextToBegin
  <1>2. TypeOK /\ runs \in Nat
    BY OrderSplit, FlowAssumption DEF FlowIInv, TypeOK
  <1>3. HeldAt(o)' = HeldAt(o) /\ HeldAt(o) \in SUBSET (1..Len(o)) /\ Len(o) \in Nat
        /\ Granted(o)' = Granted(o) /\ (Settled' <=> Settled)
    BY <1>1, <1>2, SameHeld, SameGranted, HeldPlaces DEF TypeOK
  <1>4. Passed(s, o)' = {}
    <2>1. \A i \in HeldAt(o) : ~(i <= 0 + 0)
      BY <1>3
    <2>2. Len(run'[s].results) = 0
      BY <1>1
    <2>3. QED
      BY <1>1, <1>3, <2>1, <2>2 DEF Passed
  <1>5. Settled /\ Count(Granted(o), HeldAt(o)) = runs + 1
    <2>1. CASE pc[s] = "idle"
      <3>1. runs = 0 /\ asked = <<>> /\ \A t \in TaskId : approvalId[t] = NoApproval
        BY <2>1 DEF Doubles
      <3>2. Granted(o) = {}
        BY <3>1, PlacesHoldTasks DEF Granted, Grants, HeldAt
      <3>3. QED
        BY <3>1, <3>2, CountingBegins DEF Settled
    <2>2. CASE pc[s] = "ended" /\ run[s].status = "blocked"
      <3>1. PICK c \in HeldAt(o) : BlockedAt(s, o, c)
        BY <2>2 DEF Counts
      <3>2. runs = run[s].number
        BY <2>2 DEF Doubles
      <3>3. QED
        BY <3>1, <3>2, RerunCounts
    <2>3. QED
      BY <2>1, <2>2
  <1>6. Granted(o) \cup {} = Granted(o)
    OBVIOUS
  <1>7. ~AtCall(s)' /\ pc'[s] # "consuming"
    BY <1>1 DEF AtCall, CallPlaces
  <1>8. GoesOn(s, o)'
    BY <1>1, <1>3, <1>4, <1>5, <1>6, <1>7 DEF GoesOn
  <1>9. QED
    BY <1>1, <1>8 DEF Counts

\* A rerun is within the bound, by the order its last run made.
LEMMA StartDoubles ==
    ASSUME OrderIInv, NEW s \in Session, Doubles(s),
           \A o \in Seq(TaskId) : Exact(o) => Counts(s, o),
           pc[s] = "idle" \/ (pc[s] = "ended" /\ run[s].status = "blocked"),
           Heeded, Start(s, FALSE, FALSE)
    PROVE  Doubles(s)'
  <1>1. /\ UNCHANGED <<flow, approvalId, asked>> /\ runs' = runs + 1
        /\ pc'[s] \in {"ordering", "rejected"} /\ run'[s].number = runs + 1
    BY NextToBegin
  <1>2. TypeOK /\ FlowIInv /\ OrdersHold /\ run[s] \in Locals
    BY OrderSplit DEF FlowIInv, TypeOK
  <1>3. HeldIds' = HeldIds
    BY <1>1, SameHeld
  <1>4. runs + 1 <= 2 ^ Cardinality(HeldIds)
    <2>1. CASE pc[s] = "idle"
      <3>1. IsFiniteSet(HeldIds)
        BY <1>2, IdsFinite, FS_Subset DEF HeldIds, TypeOK
      <3>2. runs = 0
        BY <2>1 DEF Doubles
      <3>3. QED
        BY <3>1, <3>2, PowerPositive
    <2>2. CASE pc[s] = "ended" /\ run[s].status = "blocked"
      <3> DEFINE o == run[s].order
      <3>1. o \in Seq(TaskId) /\ Exact(o)
        BY <1>2, <2>2 DEF OrdersHold, OrderHolds, Later, Locals
      <3> HIDE DEF o
      <3>2. PICK c \in HeldAt(o) : BlockedAt(s, o, c)
        BY <2>2, <3>1 DEF Counts
      <3>3. runs = run[s].number
        BY <2>2 DEF Doubles
      <3>4. QED
        BY <3>1, <3>2, <3>3, RerunCounts
    <2>3. QED
      BY <2>1, <2>2
  <1>5. QED
    BY <1>1, <1>3, <1>4 DEF Doubles

LEMMA FinishKeepsDoubles ==
    ASSUME OrderIInv, NEW s \in Session, Doubles(s),
           \A o \in Seq(TaskId) : Exact(o) => Counts(s, o), Finish(s)
    PROVE  Doubles(s)'
  <1>1. TypeOK /\ OrdersHold /\ run[s] \in Locals /\ pc[s] = "between"
        /\ UNCHANGED <<flow, approvalId, asked, runs>>
    BY OrderSplit DEF FlowIInv, TypeOK, Finish
  <1>2. pc'[s] = "ended" /\ run'[s].number = run[s].number
        /\ run'[s].status = IF run[s].status = "none" THEN "completed" ELSE run[s].status
    BY <1>1 DEF Finish, TypeOK, Goto, Locals
  <1>3. run[s].status = "none" => run[s].number = 2 ^ Cardinality(HeldIds)
    <2> DEFINE o == run[s].order
    <2>1. o \in Seq(TaskId) /\ Exact(o)
      BY <1>1 DEF OrdersHold, OrderHolds, Later, Locals
    <2> HIDE DEF o
    <2>2. QED
      BY <2>1, FinishDoubles
  <1>4. HeldIds' = HeldIds
    BY <1>1, SameHeld
  <1>5. QED
    BY <1>1, <1>2, <1>3, <1>4 DEF Doubles

\* No other step of a run starts one or completes it.
LEMMA OthersKeepDoubles ==
    ASSUME OrderIInv, NEW s \in Session, Doubles(s),
           \/ OrderRound(s) \/ OrderTask(s) \/ Announce(s) \/ ResolveArgs(s) \/ Refuse(s)
           \/ GoAhead(s) \/ Consume(s) \/ Dispatch(s) \/ Return(s)
    PROVE  Doubles(s)'
  <1>1. TypeOK /\ FlowIInv /\ run[s] \in Locals /\ flow' = flow /\ runs' = runs
    BY OrderSplit DEF FlowIInv, TypeOK, OrderRound, OrderTask, Announce, ResolveArgs, Refuse,
       GoAhead, Consume, Dispatch, Return
  <1>2. HeldIds' = HeldIds
    BY <1>1, SameHeld
  <1>3. pc[s] \in InProgress /\ pc'[s] \in InProgress \cup {"rejected"}
    BY <1>1 DEF TypeOK, OrderRound, OrderTask, Announce, ResolveArgs, Refuse,
       GoAhead, Consume, Dispatch, Return, Goto, InProgress, CallPlaces, AtTask
  <1>4. run[s].status # "completed"
    BY <1>1, <1>3 DEF Doubles, FlowIInv, RunHonest, InProgress
  <1>5. run'[s].number = run[s].number /\ run'[s].status # "completed"
    <2>1. CASE OrderRound(s)
      BY <1>1, <1>4, <2>1 DEF OrderRound, TypeOK, Locals
    <2>2. CASE OrderTask(s)
      <3>1. PICK t \in run[s].batch :
              run' = [run EXCEPT ![s].batch = @ \ {t}, ![s].remaining = @ \ {t},
                                 ![s].order = Append(@, t)]
        BY <2>2 DEF OrderTask
      <3> DEFINE r1 == [run[s] EXCEPT !.batch = @ \ {t}]
                 r2 == [r1 EXCEPT !.remaining = @ \ {t}]
                 r == [r2 EXCEPT !.order = Append(@, t)]
      <3>2. run'[s] = r
        BY <1>1, <3>1 DEF TypeOK
      <3>3. QED
        BY <1>1, <1>4, <3>2 DEF Locals
    <2>3. CASE ResolveArgs(s)
      BY <1>1, <1>4, <2>3 DEF ResolveArgs, TypeOK, Locals
    <2>4. CASE Refuse(s)
      <3>1. AtCall(s) /\ run'[s] = Stopped(s, Current(s), "blocked")
        BY <1>1, <2>4 DEF Refuse, TypeOK, AtCall, CallPlaces
      <3>2. QED
        BY <1>1, <3>1, StopIs
    <2>5. CASE Return(s)
      <3>1. PICK outcome \in Outcomes, v \in Value :
              run' = [run EXCEPT ![s] =
                IF outcome = "completed"
                THEN [run[s] EXCEPT !.results =
                        Append(run[s].results, Result(Current(s), "completed", v))]
                ELSE Stopped(s, Current(s), outcome)]
        BY <2>5 DEF Return
      <3>2. CASE outcome = "completed"
        <4> DEFINE r == [run[s] EXCEPT !.results =
                            Append(run[s].results, Result(Current(s), "completed", v))]
        <4>1. run'[s] = r
          BY <1>1, <3>1, <3>2 DEF TypeOK
        <4>2. QED
          BY <1>1, <1>4, <4>1 DEF Locals
      <3>3. CASE outcome # "completed"
        <4>1. outcome \in {"failed", "setup_required"} /\ AtCall(s)
          BY <2>5, <3>3, FlowAssumption DEF Return, AtCall, CallPlaces
        <4>2. run'[s] = Stopped(s, Current(s), outcome)
          BY <1>1, <3>1, <3>3 DEF TypeOK
        <4>3. QED
          BY <1>1, <4>1, <4>2, StopIs
      <3>4. QED
        BY <3>2, <3>3
    <2>6. CASE Announce(s) \/ GoAhead(s) \/ Consume(s) \/ Dispatch(s)
      BY <1>4, <2>6 DEF Announce, GoAhead, Consume, Dispatch
    <2>7. QED
      BY <2>1, <2>2, <2>3, <2>4, <2>5, <2>6
  <1>6. QED
    BY <1>1, <1>2, <1>3, <1>5 DEF Doubles, InProgress, CallPlaces

LEMMA PeopleKeepDoubles ==
    ASSUME NEW s \in Session, Doubles(s), UNCHANGED <<flow, runs, pc, run>>,
           asked = <<>> => UNCHANGED <<asked, approvalId>>
    PROVE  Doubles(s)'
  <1>1. HeldIds' = HeldIds
    BY SameHeld
  <1>2. QED
    BY <1>1 DEF Doubles

\* One session runs the document, its tasks put out one value, and it may be asked for
\* real runs that nobody confirms.
Undisturbed ==
    /\ \E s : Session = {s}
    /\ \E v : Value = {v}
    /\ <<FALSE, FALSE>> \in Modes

LEMMA QuietCounts ==
    ASSUME UNCHANGED vars, NEW s \in Session, NEW o, Counts(s, o)
    PROVE  Counts(s, o)'
  <1>1. UNCHANGED <<flow, approvalId, asked>> /\ runs' = runs /\ run' = run /\ pc' = pc
    BY DEF vars
  <1>2. HeldAt(o)' = HeldAt(o)
    BY <1>1, SameHeld
  <1>3. AtCall(s)' = AtCall(s) /\ Current(s)' = Current(s) /\ Passed(s, o)' = Passed(s, o)
    BY <1>1, SamePassed DEF AtCall, Current
  <1>4. GoesOn(s, o) => GoesOn(s, o)'
    <2>1. SUFFICES ASSUME GoesOn(s, o) PROVE GoesOn(s, o)'
      OBVIOUS
    <2>2. /\ AtCall(s)' => run'[s].args = [u \in TheTask(Current(s)').argsFrom |-> TheValue]
          /\ pc'[s] = "consuming" => Len(run'[s].results) + 1 \in Granted(o)
      BY <1>1, <1>3, <2>1 DEF GoesOn
    <2>3. QED
      BY <1>1, <1>3, <2>1, <2>2, GoesOnStill
  <1>5. ASSUME NEW c \in HeldAt(o), BlockedAt(s, o, c)
        PROVE  BlockedAt(s, o, c)'
    BY <1>1, <1>5, SameBlocked
  <1>6. QED
    BY <1>1, <1>2, <1>4, <1>5 DEF Counts

LEMMA DiligentIsNext ==
    ASSUME Undisturbed, DiligentNext
    PROVE  Next /\ flow' = flow
  <1>1. ASSUME NEW s \in Session, Start(s, FALSE, FALSE)
        PROVE  Next /\ flow' = flow
    <2>1. \E m \in Modes : m[1] = FALSE /\ m[2] = FALSE
      BY DEF Undisturbed
    <2>2. \E m \in Modes : Start(s, m[1], m[2])
      BY <1>1, <2>1
    <2>3. QED
      BY <1>1, <2>2 DEF Next, Start
  <1>2. ASSUME NEW s \in Session, RunStep(s)
        PROVE  Next /\ flow' = flow
    BY <1>2 DEF Next, RunStep, OrderRound, OrderTask, Announce, ResolveArgs, Refuse,
       GoAhead, Consume, Dispatch, Return, Finish
  <1>3. ASSUME NEW id \in ApprovalId, Decide(id, "approved") \/ EditApproval(id)
        PROVE  Next /\ flow' = flow
    BY <1>3 DEF Next, Decide, EditApproval
  <1>4. QED
    BY <1>1, <1>2, <1>3 DEF DiligentNext

\* What the session's run and its counter come to in one step.
LEMMA DiligentCounts ==
    ASSUME Undisturbed, OrderIInv, NEW s \in Session, Session = {s}, Doubles(s),
           \A o \in Seq(TaskId) : Exact(o) => Counts(s, o), DiligentNext
    PROVE  /\ Doubles(s)'
           /\ \A o \in Seq(TaskId) : Exact(o) => Counts(s, o)'
  <1>1. ASSUME pc[s] = "idle" \/ (pc[s] = "ended" /\ run[s].status = "blocked"), Heeded,
               Start(s, FALSE, FALSE)
        PROVE  Doubles(s)' /\ \A o \in Seq(TaskId) : Exact(o) => Counts(s, o)'
    BY <1>1, StartCounts, StartDoubles
  <1>2. ASSUME RunStep(s)
        PROVE  Doubles(s)' /\ \A o \in Seq(TaskId) : Exact(o) => Counts(s, o)'
    <2>1. PICK v : Value = {v}
      BY DEF Undisturbed
    <2>2. ASSUME NEW o \in Seq(TaskId), Exact(o) PROVE Counts(s, o)'
      BY <1>2, <2>1, <2>2, OrderingCounts, ResolveCounts, RefuseCounts, GoAheadCounts,
         ConsumeCounts, DispatchCounts, ReturnCounts, FinishCounts DEF RunStep
    <2>3. Doubles(s)'
      BY <1>2, FinishKeepsDoubles, OthersKeepDoubles DEF RunStep
    <2>4. QED
      BY <2>2, <2>3
  <1>3. ASSUME NEW id \in ApprovalId, Decide(id, "approved")
        PROVE  Doubles(s)' /\ \A o \in Seq(TaskId) : Exact(o) => Counts(s, o)'
    <2>1. UNCHANGED <<flow, runs, pc, run>> /\ asked # <<>>
      BY <1>3 DEF Decide
    <2>2. QED
      BY <1>3, <2>1, DecideCounts, PeopleKeepDoubles
  <1>4. ASSUME NEW id \in ApprovalId, id = Len(asked), EditApproval(id)
        PROVE  Doubles(s)' /\ \A o \in Seq(TaskId) : Exact(o) => Counts(s, o)'
    <2>1. UNCHANGED <<flow, runs, pc, run>> /\ asked # <<>>
      BY <1>4 DEF EditApproval
    <2>2. QED
      BY <1>4, <2>1, EditCounts, PeopleKeepDoubles
  <1>5. QED
    BY <1>1, <1>2, <1>3, <1>4 DEF DiligentNext

LEMMA DoubleInit == Undisturbed /\ Init => DoubleIInv
  <1> SUFFICES ASSUME Undisturbed, Init PROVE DoubleIInv
    OBVIOUS
  <1>1. OrderIInv
    BY FlowInit, OrdersInit, OrderSplit
  <1>2. ASSUME NEW s \in Session PROVE Doubles(s) /\ \A o \in Seq(TaskId) : Counts(s, o)
    <2>1. /\ pc[s] = "idle" /\ runs = 0 /\ asked = <<>> /\ run[s].number = 1
          /\ \A t \in TaskId : approvalId[t] = NoApproval
      BY DEF Init, Fresh
    <2>2. IsFiniteSet(HeldIds)
      BY IdsFinite, FS_Subset DEF HeldIds, Init
    <2>3. Doubles(s)
      BY <2>1, <2>2, PowerPositive DEF Doubles
    <2>4. QED
      BY <2>1, <2>3 DEF Counts, InProgress, CallPlaces
  <1>3. QED
    BY <1>1, <1>2 DEF DoubleIInv

LEMMA DoubleStep == Undisturbed /\ DoubleIInv /\ [DiligentNext]_vars => DoubleIInv'
  <1> SUFFICES ASSUME Undisturbed, DoubleIInv, [DiligentNext]_vars PROVE DoubleIInv'
    OBVIOUS
  <1>1. PICK s : Session = {s}
    BY DEF Undisturbed
  <1>2. OrderIInv /\ Doubles(s) /\ s \in Session
        /\ \A o \in Seq(TaskId) : Exact(o) => Counts(s, o)
    BY <1>1 DEF DoubleIInv
  <1>3. [Next]_vars /\ flow' = flow
    BY DiligentIsNext DEF vars
  <1>4. OrderIInv'
    BY <1>2, <1>3, OrderInvStep
  <1>5. Doubles(s)' /\ \A o \in Seq(TaskId) : Exact(o) => Counts(s, o)'
    <2>1. CASE DiligentNext
      BY <1>1, <1>2, <2>1, DiligentCounts
    <2>2. CASE UNCHANGED vars
      <3>1. \A o \in Seq(TaskId) : Exact(o) => Counts(s, o)'
        BY <1>2, <2>2, QuietCounts
      <3>2. Doubles(s)'
        BY <1>2, <2>2, PeopleKeepDoubles DEF vars
      <3>3. QED
        BY <3>1, <3>2
    <2>3. QED
      BY <2>1, <2>2
  <1>6. \A o \in Seq(TaskId) : Exact(o)' <=> Exact(o)
    BY <1>3, ExactAfter
  <1>7. QED
    BY <1>1, <1>4, <1>5, <1>6 DEF DoubleIInv

\* Doing what blocked runs ask for, with nothing to disturb it, takes a document whose h
\* tasks are held back exactly 2^h runs to complete, and never more (executor.py:57-89,
\* runner.py:176-184).
THEOREM RerunsAlwaysDouble == Undisturbed => (DiligentSpec => []RerunsDouble)
  <1> SUFFICES ASSUME Undisturbed PROVE DiligentSpec => []RerunsDouble
    OBVIOUS
  <1>1. Init => DoubleIInv
    BY DoubleInit
  <1>2. DoubleIInv /\ [DiligentNext]_vars => DoubleIInv'
    BY DoubleStep
  <1>3. DoubleIInv => RerunsDouble
    BY DEF DoubleIInv, Doubles, RerunsDouble, HeldIds
  <1>4. QED
    BY <1>1, <1>2, <1>3, PTL DEF DiligentSpec

-----------------------------------------------------------------------------
(* Tasks that wait for each other.                                         *)

LEMMA ExactIsAcyclic ==
    ASSUME flow \in Flow, NEW o \in Seq(TaskId), Exact(o)
    PROVE  ~Cyclic
  <1>1. SUFFICES ASSUME NEW S \in (SUBSET Ids) \ {{}},
                        \A t \in S : TheTask(t).needs \cap S # {}
                 PROVE  FALSE
    BY DEF Cyclic
  <1>2. PICK depth \in [Ids -> 1..Len(o)] : Ranked(o, depth)
    BY DEF Exact
  <1> DEFINE ranks == {depth[t] : t \in S}
  <1>3. Len(o) \in Nat /\ ranks \in SUBSET Nat /\ ranks # {}
    BY <1>2
  <1>4. PICK m \in ranks : \A n \in ranks : m <= n
    <2> HIDE DEF ranks
    <2>1. QED
      BY <1>3, HasLeast
  <1>5. PICK t \in S : depth[t] = m
    BY <1>4
  <1>6. PICK u \in TheTask(t).needs : u \in S
    BY <1>1, <1>5
  <1>7. depth[u] < depth[t]
    BY <1>2, <1>5, <1>6 DEF Ranked
  <1>8. depth[t] <= depth[u]
    BY <1>4, <1>5, <1>6
  <1>9. depth[t] \in Nat /\ depth[u] \in Nat
    BY <1>2, <1>3, <1>5, <1>6
  <1>10. QED
    BY <1>7, <1>8, <1>9

\* topological_order finds every cycle: a run that gets to its tasks runs a document in
\* which no tasks wait for each other.  With OrdersAreExact, it turns away the well-formed
\* documents with a cycle and no others (graph.py:85-123).
THEOREM OnlyAcyclicRun ==
    Spec => [](\A s \in Session : AtCall(s) \/ pc[s] \in {"between", "ended"} => ~Cyclic)
  <1>1. ASSUME OrderIInv, NEW s \in Session, AtCall(s) \/ pc[s] \in {"between", "ended"}
        PROVE  ~Cyclic
    <2>1. Exact(run[s].order) /\ TypeOK
      BY <1>1 DEF OrderIInv, OrderIsExact, FlowIInv
    <2>2. flow \in Flow /\ run[s].order \in Seq(TaskId)
      BY <2>1 DEF TypeOK, Locals
    <2>3. QED
      BY <2>1, <2>2, ExactIsAcyclic
  <1>2. OrderIInv => \A s \in Session :
            AtCall(s) \/ pc[s] \in {"between", "ended"} => ~Cyclic
    BY <1>1
  <1>3. QED
    BY <1>2, OrderInvariant, PTL

-----------------------------------------------------------------------------
(* Runs come to an end.                                                    *)

\* What a run has before it, at most: two steps for every task it has to place, five for
\* every one it has to report, and what it takes to close.
Left(s) ==
    LET tasks == Cardinality(Ids)
        todo == tasks - Len(run[s].results)
    IN  CASE pc[s] = "ordering" -> 5 * tasks + 2 * Cardinality(run[s].remaining)
                                   + (IF run[s].batch = {} THEN 4 ELSE 3)
          [] pc[s] = "between" -> IF run[s].status = "none" THEN 5 * todo + 2 ELSE 1
          [] pc[s] = "calling" -> 5 * todo + 1
          [] pc[s] = "consuming" -> 5 * todo
          [] pc[s] = "started" -> 5 * todo - 1
          [] pc[s] = "running" -> 5 * todo - 2
          [] OTHER -> 0

LEMMA LeftFacts ==
    ASSUME OrderIInv, NEW s \in Session, pc[s] \in InProgress
    PROVE  /\ Cardinality(Ids) \in Nat /\ Len(run[s].results) \in Nat
           /\ IsFiniteSet(run[s].remaining) /\ Cardinality(run[s].remaining) \in Nat
           /\ pc[s] = "ordering" => Len(run[s].results) = 0 /\ run[s].status = "none"
           /\ pc[s] \in CallPlaces =>
                Len(run[s].results) < Cardinality(Ids) /\ run[s].status = "none"
           /\ pc[s] = "between" /\ run[s].status = "none" =>
                Len(run[s].results) <= Cardinality(Ids)
           /\ pc[s] \in CallPlaces \cup {"between"} =>
                Len(run[s].order) = Cardinality(Ids)
  <1>1. TypeOK /\ RunHonest(run[s], pc[s]) /\ OrderHonest(run[s])
    BY OrderIsHonest DEF OrderIInv, FlowIInv
  <1>2. /\ run[s] \in Locals /\ flow \in Flow
        /\ run[s].results \in Seq(TaskResult) /\ run[s].order \in Seq(TaskId)
    BY <1>1 DEF TypeOK, Locals
  <1>3. IsFiniteSet(Ids) /\ run[s].remaining \subseteq Ids
    BY <1>1, <1>2, IdsFinite DEF OrderHonest
  <1>4. /\ Cardinality(Ids) \in Nat /\ IsFiniteSet(run[s].remaining)
        /\ Cardinality(run[s].remaining) \in Nat
    BY <1>3, FS_CardinalityType, FS_Subset
  <1>5. pc[s] \in CallPlaces \cup {"between"} => Len(run[s].order) = Cardinality(Ids)
    BY DEF OrderIInv, OrderIsExact, Exact, AtCall
  <1>6. pc[s] = "between" /\ run[s].status = "none" =>
            Len(run[s].results) <= Len(run[s].order)
    <2> SUFFICES ASSUME pc[s] = "between", run[s].status = "none",
                        ~(Len(run[s].results) <= Len(run[s].order))
                 PROVE  FALSE
      OBVIOUS
    <2>1. Len(run[s].results) \in DOMAIN run[s].results
          /\ Len(run[s].results) \notin DOMAIN run[s].order
      BY <1>2
    <2>2. QED
      BY <1>1, <2>1 DEF RunHonest
  <1>7. QED
    BY <1>1, <1>2, <1>4, <1>5, <1>6 DEF RunHonest, CallPlaces

LEMMA LeftIsNatural ==
    ASSUME OrderIInv, NEW s \in Session
    PROVE  Left(s) \in Nat
  <1>1. CASE pc[s] \in InProgress
    <2> USE DEF Left, InProgress, CallPlaces
    <2>1. CASE pc[s] = "ordering"
      BY <1>1, <2>1, LeftFacts
    <2>2. CASE pc[s] = "between"
      <3>1. CASE run[s].status = "none"
        <4>1. Cardinality(Ids) - Len(run[s].results) \in Nat
          BY <1>1, <2>2, <3>1, LeftFacts
        <4>2. QED
          BY <2>2, <3>1, <4>1
      <3>2. CASE run[s].status # "none"
        BY <2>2, <3>2
      <3>3. QED
        BY <3>1, <3>2
    <2>3. CASE pc[s] \in CallPlaces
      <3>1. PICK todo \in Nat : todo = Cardinality(Ids) - Len(run[s].results) /\ todo > 0
        BY <1>1, <2>3, LeftFacts
      <3>2. /\ 5 * todo + 1 \in Nat /\ 5 * todo \in Nat
            /\ 5 * todo - 1 \in Nat /\ 5 * todo - 2 \in Nat
        BY <3>1
      <3>3. Left(s) \in {5 * todo + 1, 5 * todo, 5 * todo - 1, 5 * todo - 2}
        BY <2>3, <3>1
      <3>4. QED
        BY <3>2, <3>3, Zenon
    <2>4. QED
      BY <1>1, <2>1, <2>2, <2>3
  <1>2. CASE pc[s] \notin InProgress
    BY <1>2 DEF Left, InProgress, CallPlaces
  <1>3. QED
    BY <1>1, <1>2

\* The steps of the order.
LEMMA OrderingWindsDown ==
    ASSUME OrderIInv, NEW s \in Session, OrderRound(s) \/ OrderTask(s) \/ Announce(s)
    PROVE  Left(s)' < Left(s)
  <1>1. pc[s] = "ordering" /\ flow' = flow
    BY DEF OrderRound, OrderTask, Announce
  <1>2. /\ Cardinality(Ids) \in Nat /\ Cardinality(run[s].remaining) \in Nat
        /\ IsFiniteSet(run[s].remaining)
        /\ Len(run[s].results) = 0 /\ run[s].status = "none"
    BY <1>1, LeftFacts DEF InProgress
  <1>3. /\ run \in [Session -> Locals] /\ DOMAIN pc = Session /\ Ids' = Ids
    BY <1>1, SameFlow DEF OrderIInv, FlowIInv, TypeOK
  <1>4. Left(s) = 5 * Cardinality(Ids) + 2 * Cardinality(run[s].remaining)
                  + (IF run[s].batch = {} THEN 4 ELSE 3)
    BY <1>1 DEF Left
  <1>5. CASE OrderRound(s)
    <2>1. CASE Ready(run[s].remaining) = {}
      <3>1. pc'[s] = "rejected"
        BY <1>3, <1>5, <2>1 DEF OrderRound, Goto
      <3>2. Left(s)' = 0
        BY <3>1 DEF Left
      <3>3. QED
        BY <1>2, <1>4, <3>2
    <2>2. CASE Ready(run[s].remaining) # {}
      <3>1. /\ pc'[s] = "ordering" /\ run[s].batch = {}
            /\ run'[s].remaining = run[s].remaining /\ run'[s].batch # {}
        BY <1>1, <1>3, <1>5, <2>2 DEF OrderRound, Locals
      <3>2. Left(s)' = 5 * Cardinality(Ids) + 2 * Cardinality(run[s].remaining) + 3
        BY <1>3, <3>1 DEF Left
      <3>3. QED
        BY <1>2, <1>4, <3>1, <3>2
    <2>3. QED
      BY <2>1, <2>2
  <1>6. CASE OrderTask(s)
    <2>1. PICK t \in run[s].batch :
              run' = [run EXCEPT ![s].batch = @ \ {t}, ![s].remaining = @ \ {t},
                                ![s].order = Append(@, t)]
      BY <1>6 DEF OrderTask
    <2>2. run'[s].remaining = run[s].remaining \ {t} /\ pc'[s] = "ordering"
      <3>1. run[s] \in Locals
        BY <1>3
      <3>2. run'[s] = [run[s] EXCEPT !.batch = @ \ {t}, !.remaining = @ \ {t},
                                    !.order = Append(@, t)]
        BY <1>3, <2>1
      <3>3. QED
        BY <1>1, <1>6, <3>1, <3>2 DEF OrderTask, Locals
    <2>3. t \in run[s].remaining
      BY <1>1, OrderIsHonest DEF OrderIInv, OrderHonest, Ready, InProgress
    <2>4. Cardinality(run[s].remaining \ {t}) = Cardinality(run[s].remaining) - 1
      BY <1>2, <2>3, FS_RemoveElement
    <2>5. Left(s)' = 5 * Cardinality(Ids) + 2 * (Cardinality(run[s].remaining) - 1)
                     + (IF run'[s].batch = {} THEN 4 ELSE 3)
      BY <1>3, <2>2, <2>4 DEF Left
    <2>6. QED
      BY <1>2, <1>4, <2>5
  <1>7. CASE Announce(s)
    <2>1. pc'[s] = "between" /\ run' = run
      BY <1>3, <1>7 DEF Announce, Goto
    <2>2. Left(s)' = 5 * Cardinality(Ids) + 2
      BY <1>2, <1>3, <2>1 DEF Left
    <2>3. QED
      BY <1>2, <1>4, <2>2
  <1>8. QED
    BY <1>5, <1>6, <1>7

\* A task that stops the run.
LEMMA StoppingWindsDown ==
    ASSUME OrderIInv, NEW s \in Session, AtCall(s) \/ AtTask(s), flow' = flow,
           NEW status \in {"failed", "setup_required", "blocked"},
           run'[s] = Stopped(s, Current(s), status), pc'[s] = "between"
    PROVE  Left(s)' < Left(s)
  <1>1. run'[s].status # "none"
    BY StoppedType DEF OrderIInv
  <1>2. Left(s)' = 1
    BY <1>1 DEF Left
  <1>3. pc[s] \in CallPlaces \/ (pc[s] = "between" /\ run[s].status = "none")
    BY DEF AtCall, AtTask
  <1>4. /\ Cardinality(Ids) \in Nat /\ Len(run[s].results) \in Nat
        /\ pc[s] \in CallPlaces => Len(run[s].results) < Cardinality(Ids)
        /\ pc[s] = "between" => Len(run[s].results) <= Cardinality(Ids)
    BY <1>3, LeftFacts DEF InProgress
  <1>5. Left(s) > 1
    BY <1>3, <1>4 DEF Left, CallPlaces
  <1>6. QED
    BY <1>2, <1>5

\* The steps of a task and the end of the run.
LEMMA TaskWindsDown ==
    ASSUME OrderIInv, NEW s \in Session,
           \/ ResolveArgs(s) \/ GoAhead(s) \/ Consume(s) \/ Dispatch(s) \/ Finish(s)
           \/ Abort(s)
    PROVE  Left(s)' < Left(s)
  <1>1. /\ pc[s] \in InProgress /\ flow' = flow
        /\ run \in [Session -> Locals] /\ DOMAIN pc = Session /\ Ids' = Ids
    <2>1. pc[s] \in InProgress /\ flow' = flow
      BY DEF ResolveArgs, AtTask, GoAhead, Consume, Dispatch, Finish, Abort, InProgress,
         CallPlaces
    <2>2. QED
      BY <2>1, SameFlow DEF OrderIInv, FlowIInv, TypeOK
  <1>2. /\ Cardinality(Ids) \in Nat /\ Len(run[s].results) \in Nat
        /\ Cardinality(run[s].remaining) \in Nat
        /\ pc[s] \in CallPlaces => Len(run[s].results) < Cardinality(Ids)
        /\ pc[s] = "between" /\ run[s].status = "none" =>
             Len(run[s].results) <= Cardinality(Ids)
    BY <1>1, LeftFacts
  <1> DEFINE todo == Cardinality(Ids) - Len(run[s].results)
  <1>3. todo \in Int
    BY <1>2
  <1>4. CASE ResolveArgs(s)
    <2>1. /\ pc[s] = "between" /\ run[s].status = "none" /\ pc'[s] = "calling"
          /\ run'[s].results = run[s].results
      BY <1>1, <1>4 DEF ResolveArgs, AtTask, Goto, Locals
    <2>2. Left(s) = 5 * todo + 2 /\ Left(s)' = 5 * todo + 1
      BY <1>1, <2>1 DEF Left
    <2> HIDE DEF todo
    <2>3. QED
      BY <1>3, <2>2
  <1>5. CASE GoAhead(s)
    <2>1. /\ pc[s] = "calling" /\ pc'[s] \in {"started", "consuming"} /\ run' = run
      BY <1>1, <1>5 DEF GoAhead, Goto
    <2>2. Left(s) = 5 * todo + 1 /\ Left(s)' \in {5 * todo, 5 * todo - 1}
      BY <1>1, <2>1 DEF Left
    <2> HIDE DEF todo
    <2>3. QED
      BY <1>3, <2>2
  <1>6. CASE Consume(s)
    <2>1. pc[s] = "consuming" /\ pc'[s] = "started" /\ run' = run
      BY <1>1, <1>6 DEF Consume, Goto
    <2>2. Left(s) = 5 * todo /\ Left(s)' = 5 * todo - 1
      BY <1>1, <2>1 DEF Left
    <2> HIDE DEF todo
    <2>3. QED
      BY <1>3, <2>2
  <1>7. CASE Dispatch(s)
    <2>1. pc[s] = "started" /\ pc'[s] = "running" /\ run' = run
      BY <1>1, <1>7 DEF Dispatch, Goto
    <2>2. Left(s) = 5 * todo - 1 /\ Left(s)' = 5 * todo - 2
      BY <1>1, <2>1 DEF Left
    <2> HIDE DEF todo
    <2>3. QED
      BY <1>3, <2>2
  <1>8. Left(s) >= 1
    BY <1>1, <1>2 DEF Left, InProgress, CallPlaces
  <1>9. CASE Finish(s) \/ Abort(s)
    <2>1. pc'[s] \in {"ended", "aborted"}
      BY <1>1, <1>9 DEF Finish, Abort, Goto
    <2>2. Left(s)' = 0
      BY <2>1 DEF Left
    <2>3. QED
      BY <1>8, <2>2, LeftIsNatural
  <1>10. QED
    BY <1>4, <1>5, <1>6, <1>7, <1>9

LEMMA ReturnWindsDown ==
    ASSUME OrderIInv, NEW s \in Session, Return(s)
    PROVE  Left(s)' < Left(s)
  <1>1. /\ pc[s] = "running" /\ pc'[s] = "between" /\ flow' = flow /\ Ids' = Ids
        /\ run \in [Session -> Locals] /\ run[s] \in Locals
    BY SameFlow DEF Return, Goto, OrderIInv, FlowIInv, TypeOK
  <1>2. PICK outcome \in Outcomes, v \in Value :
            run' = [run EXCEPT ![s] =
                IF outcome = "completed"
                THEN [run[s] EXCEPT
                        !.results = Append(@, Result(Current(s), "completed", v))]
                ELSE Stopped(s, Current(s), outcome)]
    BY DEF Return
  <1>3. CASE outcome = "completed"
    <2>1. PICK res : res = Result(Current(s), "completed", v)
      OBVIOUS
    <2>2. run'[s] = [run[s] EXCEPT !.results = Append(@, res)]
      BY <1>1, <1>2, <1>3, <2>1
    <2>3. /\ Cardinality(Ids) \in Nat /\ Len(run[s].results) \in Nat
          /\ Len(run[s].results) < Cardinality(Ids) /\ run[s].status = "none"
      BY <1>1, LeftFacts DEF InProgress, CallPlaces
    <2>4. /\ run'[s].status = "none"
          /\ Len(run'[s].results) = Len(run[s].results) + 1
      BY <1>1, <2>2, <2>3 DEF Locals
    <2>5. /\ Left(s) = 5 * (Cardinality(Ids) - Len(run[s].results)) - 2
          /\ Left(s)' = 5 * (Cardinality(Ids) - (Len(run[s].results) + 1)) + 2
      BY <1>1, <2>4 DEF Left
    <2>6. PICK todo \in Nat :
              /\ todo = Cardinality(Ids) - Len(run[s].results)
              /\ todo - 1 = Cardinality(Ids) - (Len(run[s].results) + 1)
      BY <2>3
    <2>7. Left(s) = 5 * todo - 2 /\ Left(s)' = 5 * (todo - 1) + 2
      BY <2>5, <2>6
    <2>8. QED
      BY <2>6, <2>7
  <1>4. CASE outcome # "completed"
    <2>1. run'[s] = Stopped(s, Current(s), outcome) /\ outcome \in {"failed", "setup_required"}
      BY <1>1, <1>2, <1>4, FlowAssumption
    <2>2. AtCall(s)
      BY <1>1 DEF AtCall, CallPlaces
    <2>3. QED
      BY <1>1, <2>1, <2>2, StoppingWindsDown
  <1>5. QED
    BY <1>3, <1>4

LEMMA StepWindsDown ==
    ASSUME OrderIInv, NEW s \in Session,
           RunStep(s) \/ ResolveFails(s) \/ Unsupported(s) \/ Abort(s)
    PROVE  Left(s)' < Left(s)
  <1>1. ASSUME NEW status \in {"failed", "setup_required", "blocked"},
               AtCall(s) \/ AtTask(s), flow' = flow,
               run' = [run EXCEPT ![s] = Stopped(s, Current(s), status)],
               pc' = [pc EXCEPT ![s] = "between"]
        PROVE  Left(s)' < Left(s)
    <2>1. run'[s] = Stopped(s, Current(s), status) /\ pc'[s] = "between"
      BY <1>1 DEF OrderIInv, FlowIInv, TypeOK
    <2>2. QED
      BY <1>1, <2>1, StoppingWindsDown
  <1>2. CASE Refuse(s)
    BY <1>1, <1>2 DEF Refuse, Goto, AtCall, CallPlaces
  <1>3. CASE Unsupported(s)
    BY <1>1, <1>3 DEF Unsupported, Goto, AtCall, CallPlaces
  <1>4. CASE ResolveFails(s)
    <2>1. pc' = [pc EXCEPT ![s] = "between"]
      BY <1>4 DEF ResolveFails, AtTask, OrderIInv, FlowIInv, TypeOK
    <2>2. QED
      BY <1>1, <1>4, <2>1 DEF ResolveFails
  <1>5. QED
    BY <1>2, <1>3, <1>4, OrderingWindsDown, TaskWindsDown, ReturnWindsDown DEF RunStep

LEMMA LeftStays ==
    ASSUME flow' = flow, NEW s \in Session, run'[s] = run[s], pc'[s] = pc[s]
    PROVE  Left(s)' = Left(s)
  BY SameFlow DEF Left

LEMMA OthersRest ==
    ASSUME TypeOK, NEW x \in Session, NEW s \in Session \ {x},
           RunStep(x) \/ ResolveFails(x) \/ Unsupported(x) \/ Abort(x)
           \/ \E dry, confirmed : Start(x, dry, confirmed)
    PROVE  run'[s] = run[s] /\ pc'[s] = pc[s]
  BY DEF RunStep, OrderRound, OrderTask, Announce, ResolveArgs, Refuse, GoAhead, Consume,
     Dispatch, Return, Finish, ResolveFails, Unsupported, Abort, Start, Goto, TypeOK

\* A run in progress is closer to its end with every step it takes, whatever the other
\* sessions and the people around it do meanwhile: no document, well formed or not, keeps
\* a run of it going for ever, be it in the making of the order or in the calls
\* (runner.py:31-130, graph.py:85-123).
THEOREM RunsWindDown ==
    Spec => /\ [](\A s \in Session : Left(s) \in Nat)
            /\ [][\A s \in Session : pc[s] \in InProgress =>
                      \/ UNCHANGED <<run[s], pc[s]>>
                      \/ Left(s)' < Left(s)]_vars
  <1>1. OrderIInv => \A s \in Session : Left(s) \in Nat
    BY LeftIsNatural
  <1>2. ASSUME OrderIInv, Next, NEW s \in Session, pc[s] \in InProgress
        PROVE  UNCHANGED <<run[s], pc[s]>> \/ Left(s)' < Left(s)
    <2>1. TypeOK
      BY <1>2 DEF OrderIInv, FlowIInv
    <2>2. ASSUME NEW x \in Session,
                 \/ RunStep(x) \/ ResolveFails(x) \/ Unsupported(x) \/ Abort(x)
                 \/ \E m \in Modes : Start(x, m[1], m[2])
          PROVE  UNCHANGED <<run[s], pc[s]>> \/ Left(s)' < Left(s)
      <3>1. CASE x = s
        <4>1. ~\E m \in Modes : Start(s, m[1], m[2])
          BY <1>2 DEF Start, InProgress, CallPlaces
        <4>2. QED
          BY <1>2, <2>2, <3>1, <4>1, StepWindsDown
      <3>2. CASE x # s
        BY <2>1, <2>2, <3>2, OthersRest
      <3>3. QED
        BY <3>1, <3>2
    <2>3. ASSUME NEW id \in ApprovalId,
                 (\E decision \in {"approved", "denied"} : Decide(id, decision))
                 \/ EditApproval(id)
          PROVE  UNCHANGED <<run[s], pc[s]>>
      BY <2>3 DEF Decide, EditApproval
    <2>4. QED
      BY <1>2, <2>2, <2>3 DEF Next
  <1>3. OrderIInv /\ [Next]_vars =>
            [\A s \in Session : pc[s] \in InProgress =>
                      \/ UNCHANGED <<run[s], pc[s]>>
                      \/ Left(s)' < Left(s)]_vars
    BY <1>2
  <1>4. QED
    BY <1>1, <1>3, OrderInvariant, PTL DEF Spec

-----------------------------------------------------------------------------
(* Diligence comes to an end.                                              *)

Pending == {i \in DOMAIN asked : asked[i].status = "pending"}

Unwritten ==
    IF asked # <<>> /\ approvalId[asked[Len(asked)].scope.task] # Len(asked) THEN 1 ELSE 0

\* What is left of the latest run, and for the operator before the next one.
Todo(s) == Left(s) + Cardinality(Pending) + Unwritten

LEMMA PendingFinite ==
    ASSUME TypeOK
    PROVE  IsFiniteSet(Pending) /\ Cardinality(Pending) \in Nat /\ Unwritten \in Nat
  <1>1. asked \in Seq(Approval)
    BY Zenon DEF TypeOK, Approval
  <1>2. IsFiniteSet(1..Len(asked))
    BY <1>1, FS_Interval
  <1>3. IsFiniteSet(Pending)
    BY <1>1, <1>2, FS_Subset DEF Pending
  <1>4. QED
    BY <1>3, FS_CardinalityType DEF Unwritten

LEMMA TodoIsNatural ==
    ASSUME OrderIInv, NEW s \in Session
    PROVE  Todo(s) \in Nat
  BY LeftIsNatural, PendingFinite DEF Todo, OrderIInv, FlowIInv

LEMMA RefusalWindsDown ==
    ASSUME OrderIInv, NEW s \in Session, Refuse(s)
    PROVE  Todo(s)' < Todo(s)
  <1>1. TypeOK /\ pc[s] = "calling" /\ flow' = flow
    BY DEF OrderIInv, FlowIInv, Refuse
  <1>2. asked \in Seq(Approval) /\ run[s] \in Locals
    BY <1>1, Zenon DEF TypeOK, Approval
  <1>3. PICK k : k = Len(asked) + 1
    OBVIOUS
  <1>4. PICK a : a = [scope |-> Scope(s), status |-> "pending"]
    OBVIOUS
  <1>5. asked' = Append(asked, a) /\ pc'[s] = "between"
        /\ run'[s] = Stopped(s, Current(s), "blocked")
    BY <1>1, <1>4 DEF Refuse, Goto, TypeOK
  <1>6. k \notin Pending /\ Pending' = Pending \cup {k}
    <2>1. k \notin Pending
      BY <1>2, <1>3 DEF Pending
    <2>2. ASSUME NEW i PROVE i \in Pending' <=> i \in Pending \cup {k}
      BY <1>2, <1>3, <1>4, <1>5 DEF Pending
    <2>3. QED
      BY <2>1, <2>2
  <1>7. /\ IsFiniteSet(Pending) /\ Cardinality(Pending) \in Nat
        /\ Unwritten \in Nat
    BY <1>1, PendingFinite
  <1>8. Cardinality(Pending)' = Cardinality(Pending) + 1
    <2> DEFINE S == Pending
    <2> HIDE DEF S
    <2>1. Cardinality(S \cup {k}) = Cardinality(S) + 1
      BY <1>6, <1>7, FS_AddElement DEF S
    <2>2. QED
      BY <1>6, <2>1 DEF S
  <1>9. Unwritten' \in {0, 1}
    BY DEF Unwritten
  <1>10. Left(s)' = 1
    <2>1. run'[s].status # "none"
      BY <1>1, <1>5, StoppedType DEF AtCall, CallPlaces, OrderIInv
    <2>2. QED
      BY <1>5, <2>1 DEF Left
  <1>11. Left(s) >= 6
    <2>1. PICK todo \in Nat : todo = Cardinality(Ids) - Len(run[s].results) /\ todo > 0
      BY <1>1, LeftFacts DEF InProgress, CallPlaces
    <2>2. Left(s) = 5 * todo + 1
      BY <1>1, <2>1 DEF Left
    <2>3. QED
      BY <2>1, <2>2
  <1>12. Left(s) \in Nat
    BY LeftIsNatural
  <1>13. QED
    BY <1>7, <1>8, <1>9, <1>10, <1>11, <1>12 DEF Todo

\* An approval that moves on.
LEMMA OneDecided ==
    ASSUME TypeOK, NEW id \in DOMAIN asked, NEW status \in {"approved", "used"},
           asked' = [asked EXCEPT ![id].status = status], approvalId' = approvalId
    PROVE  /\ Unwritten' = Unwritten
           /\ Cardinality(Pending)' \in Nat
           /\ Cardinality(Pending)' <= Cardinality(Pending)
           /\ id \in Pending => Cardinality(Pending)' < Cardinality(Pending)
  <1>1. asked \in Seq(Approval)
    BY Zenon DEF TypeOK, Approval
  <1> DEFINE a == [asked[id] EXCEPT !.status = status]
  <1>2. asked[id] \in Approval
    BY <1>1
  <1>3. a.status = status /\ a.scope = asked[id].scope
    BY <1>2 DEF Approval
  <1>4. asked' = [asked EXCEPT ![id] = a]
    OBVIOUS
  <1> HIDE DEF a
  <1>5. /\ DOMAIN asked' = DOMAIN asked /\ Len(asked') = Len(asked)
        /\ asked'[id].status = status
        /\ \A i \in DOMAIN asked : asked'[i].scope = asked[i].scope
        /\ \A i \in DOMAIN asked \ {id} : asked'[i] = asked[i]
    BY <1>1, <1>3, <1>4
  <1>6. Unwritten' = Unwritten
    <2>1. asked = <<>> <=> asked' = <<>>
      BY <1>1, <1>5
    <2>2. asked # <<>> => Len(asked) \in DOMAIN asked
      BY <1>1
    <2>3. QED
      BY <1>5, <2>1, <2>2 DEF Unwritten
  <1>7. Pending' = Pending \ {id}
    BY <1>5 DEF Pending
  <1>8. IsFiniteSet(Pending) /\ Cardinality(Pending) \in Nat
    BY PendingFinite
  <1> DEFINE S == Pending
  <1> HIDE DEF S
  <1>9. /\ Cardinality(S \ {id}) \in Nat /\ Cardinality(S \ {id}) <= Cardinality(S)
        /\ id \in S => Cardinality(S \ {id}) < Cardinality(S)
    <2>1. CASE id \in S
      <3>1. Cardinality(S \ {id}) = Cardinality(S) - 1 /\ IsFiniteSet(S \ {id})
        BY <1>8, <2>1, FS_RemoveElement DEF S
      <3>2. QED
        BY <1>8, <3>1, FS_CardinalityType DEF S
    <2>2. CASE id \notin S
      <3>1. S \ {id} = S
        BY <2>2
      <3>2. QED
        BY <1>8, <2>2, <3>1 DEF S
    <2>3. QED
      BY <2>1, <2>2
  <1>10. QED
    BY <1>6, <1>7, <1>9 DEF S

\* What the session does leaves less to do.
LEMMA StepLeavesLess ==
    ASSUME OrderIInv, NEW s \in Session, RunStep(s), Left(s)' \in Nat
    PROVE  Todo(s)' < Todo(s)
  <1>1. TypeOK
    BY DEF OrderIInv, FlowIInv
  <1>2. /\ Left(s)' < Left(s) /\ Left(s) \in Nat
        /\ Cardinality(Pending) \in Nat /\ Unwritten \in Nat
    BY <1>1, StepWindsDown, LeftIsNatural, PendingFinite
  <1>3. CASE UNCHANGED <<asked, approvalId>>
    <2>1. Pending' = Pending /\ Unwritten' = Unwritten
      BY <1>3 DEF Pending, Unwritten
    <2>2. QED
      BY <1>2, <2>1 DEF Todo
  <1>4. CASE Consume(s)
    <2>1. PICK id : id = run[s].approvals[Current(s)]
      OBVIOUS
    <2>2. ServesNow(s) /\ Current(s) \in TaskId
      BY <1>4, CurrentIsTask DEF OrderIInv, FlowIInv, ApprovalsHonest, Consume, AtCall,
         CallPlaces
    <2>3. id \in DOMAIN asked
      BY <2>1, <2>2 DEF ServesNow, OrderIInv, FlowIInv, ApprovalsHonest
    <2>4. asked' = [asked EXCEPT ![id].status = "used"] /\ approvalId' = approvalId
      BY <1>4, <2>1 DEF Consume
    <2>5. /\ Unwritten' = Unwritten
          /\ Cardinality(Pending)' \in Nat
          /\ Cardinality(Pending)' <= Cardinality(Pending)
      BY <1>1, <2>3, <2>4, OneDecided
    <2>6. QED
      BY <1>2, <2>5 DEF Todo
  <1>5. CASE ~Consume(s) /\ ~Refuse(s)
    BY <1>3, <1>5 DEF RunStep, OrderRound, OrderTask, Announce, ResolveArgs, GoAhead,
       Dispatch, Return, Finish
  <1>6. QED
    BY <1>4, <1>5, RefusalWindsDown

LEMMA PeopleLeaveLess ==
    ASSUME OrderIInv, NEW s \in Session, NEW id \in ApprovalId,
           Decide(id, "approved") \/ (id = Len(asked) /\ EditApproval(id))
    PROVE  Todo(s)' < Todo(s)
  <1>1. TypeOK /\ flow' = flow /\ run' = run /\ pc' = pc
    BY DEF OrderIInv, FlowIInv, Decide, EditApproval
  <1>2. /\ Left(s)' = Left(s) /\ Left(s) \in Nat
        /\ Cardinality(Pending) \in Nat /\ Unwritten \in Nat
    BY <1>1, LeftStays, LeftIsNatural, PendingFinite
  <1>3. CASE Decide(id, "approved")
    <2>1. id \in DOMAIN asked /\ id \in Pending /\ approvalId' = approvalId
          /\ asked' = [asked EXCEPT ![id].status = "approved"]
      BY <1>3 DEF Decide, Pending
    <2>2. /\ Unwritten' = Unwritten
          /\ Cardinality(Pending)' \in Nat
          /\ Cardinality(Pending)' < Cardinality(Pending)
      BY <1>1, <2>1, OneDecided
    <2>3. QED
      BY <1>2, <2>2 DEF Todo
  <1>4. CASE id = Len(asked) /\ EditApproval(id)
    <2>1. PICK t : t = asked[Len(asked)].scope.task
      OBVIOUS
    <2>2. /\ asked' = asked /\ asked # <<>> /\ approvalId[t] # Len(asked)
          /\ approvalId' = [approvalId EXCEPT ![t] = Len(asked)]
      BY <1>4, <2>1 DEF EditApproval
    <2>3. t \in TaskId
      <3>1. asked \in Seq(Approval)
        BY <1>1, Zenon DEF TypeOK, Approval
      <3>2. asked[Len(asked)] \in Approval
        BY <1>4, <3>1 DEF EditApproval
      <3>3. QED
        BY <2>1, <3>2 DEF Approval, Scopes
    <2>4. approvalId'[t] = Len(asked)
      BY <1>1, <2>2, <2>3 DEF TypeOK
    <2>5. Unwritten = 1 /\ Unwritten' = 0 /\ Pending' = Pending
      BY <2>1, <2>2, <2>4 DEF Unwritten, Pending
    <2>6. QED
      BY <1>2, <2>5 DEF Todo
  <1>5. QED
    BY <1>3, <1>4

\* The other half of the price: doing what blocked runs ask for is over after at most 2^h
\* runs, and each of them, with its approvals, after so many steps as Todo says, so that
\* an operator who is never stuck gets the workflow done (runner.py:176-184).
THEOREM DiligenceWindsDown ==
    Undisturbed => (DiligentSpec =>
        /\ [](\A s \in Session : Todo(s) \in Nat)
        /\ [][\/ runs' = runs + 1 /\ runs' <= 2 ^ Cardinality(HeldIds)
              \/ runs' = runs /\ \A s \in Session : Todo(s)' < Todo(s)]_vars)
  <1> SUFFICES ASSUME Undisturbed
               PROVE  DiligentSpec =>
        /\ [](\A s \in Session : Todo(s) \in Nat)
        /\ [][\/ runs' = runs + 1 /\ runs' <= 2 ^ Cardinality(HeldIds)
              \/ runs' = runs /\ \A s \in Session : Todo(s)' < Todo(s)]_vars
    OBVIOUS
  <1>1. Init => DoubleIInv
    BY DoubleInit
  <1>2. DoubleIInv /\ [DiligentNext]_vars => DoubleIInv'
    BY DoubleStep
  <1>3. DoubleIInv => \A s \in Session : Todo(s) \in Nat
    BY TodoIsNatural DEF DoubleIInv
  <1>4. DoubleIInv => \A s \in Session : Left(s) \in Nat
    BY LeftIsNatural DEF DoubleIInv
  <1>5. ASSUME DoubleIInv, DoubleIInv', (\A s \in Session : Left(s) \in Nat)',
               DiligentNext
        PROVE  \/ runs' = runs + 1 /\ runs' <= 2 ^ Cardinality(HeldIds)
               \/ runs' = runs /\ \A s \in Session : Todo(s)' < Todo(s)
    <2>1. PICK s : Session = {s}
      BY DEF Undisturbed
    <2>2. OrderIInv /\ s \in Session /\ Left(s)' \in Nat
      BY <1>5, <2>1 DEF DoubleIInv
    <2>3. CASE Start(s, FALSE, FALSE)
      <3>1. pc'[s] # "idle" /\ runs' = runs + 1 /\ flow' = flow
        BY <2>2, <2>3 DEF Start, Goto, OrderIInv, FlowIInv, TypeOK
      <3>2. HeldIds' = HeldIds
        BY <3>1, SameHeld
      <3>3. runs' <= 2 ^ Cardinality(HeldIds)
        BY <1>5, <2>2, <3>1, <3>2 DEF DoubleIInv, Doubles
      <3>4. QED
        BY <3>1, <3>3
    <2>4. CASE RunStep(s)
      <3>1. runs' = runs
        BY <2>4 DEF RunStep, OrderRound, OrderTask, Announce, ResolveArgs, Refuse,
           GoAhead, Consume, Dispatch, Return, Finish
      <3>2. QED
        BY <2>1, <2>2, <2>4, <3>1, StepLeavesLess
    <2>5. ASSUME NEW id \in ApprovalId,
                 Decide(id, "approved") \/ (id = Len(asked) /\ EditApproval(id))
          PROVE  runs' = runs /\ \A x \in Session : Todo(x)' < Todo(x)
      BY <2>1, <2>2, <2>5, PeopleLeaveLess DEF Decide, EditApproval
    <2>6. QED
      BY <1>5, <2>1, <2>3, <2>4, <2>5 DEF DiligentNext
  <1>6. DoubleIInv /\ DoubleIInv' /\ (\A s \in Session : Left(s) \in Nat)'
        /\ [DiligentNext]_vars =>
            [\/ runs' = runs + 1 /\ runs' <= 2 ^ Cardinality(HeldIds)
             \/ runs' = runs /\ \A s \in Session : Todo(s)' < Todo(s)]_vars
    BY <1>5
  <1>7. QED
    BY <1>1, <1>2, <1>3, <1>4, <1>6, PTL DEF DiligentSpec

-----------------------------------------------------------------------------
(* The ledger the runs keep.                                               *)

\* Where one approval stands, "none" when nobody has asked for it yet.
Standing(id) == IF id \in DOMAIN asked THEN asked[id].status ELSE "none"

Standings == [id \in ApprovalId |-> Standing(id)]

Ledger == INSTANCE ApprovalLedger WITH standing <- Standings

LEMMA SameStandings ==
    ASSUME asked' = asked
    PROVE  Standings' = Standings
  BY DEF Standings, Standing

LEMMA LedgerInit == Init => Ledger!Init
  BY DEF Init, Ledger!Init, Standings, Standing

\* One approval moves on, the others stay as they are.
LEMMA OneMoves ==
    ASSUME asked \in Seq(Approval), NEW id \in DOMAIN asked,
           NEW status \in {"approved", "denied", "used"},
           asked' = [asked EXCEPT ![id].status = status]
    PROVE  id \in ApprovalId => Standings' = [Standings EXCEPT ![id] = status]
  <1> DEFINE a == [asked[id] EXCEPT !.status = status]
  <1>1. asked[id] \in Approval
    OBVIOUS
  <1>2. a.status = status
    BY <1>1 DEF Approval
  <1>3. asked' = [asked EXCEPT ![id] = a]
    OBVIOUS
  <1> HIDE DEF a
  <1>4. DOMAIN asked' = DOMAIN asked /\ asked'[id].status = status
        /\ \A i \in DOMAIN asked \ {id} : asked'[i] = asked[i]
    BY <1>2, <1>3
  <1>5. Standing(id)' = status
    BY <1>4 DEF Standing
  <1>6. \A i \in ApprovalId : i # id => Standing(i)' = Standing(i)
    BY <1>4 DEF Standing
  <1>7. QED
    BY <1>5, <1>6 DEF Standings

LEMMA LedgerStep ==
    ASSUME FlowIInv, [Next]_vars
    PROVE  [Ledger!Next]_Standings
  <1>1. asked \in Seq(Approval) /\ TypeOK
    <2>1. TypeOK
      BY DEF FlowIInv
    <2>2. QED
      BY <2>1, Zenon DEF TypeOK, Approval
  <1>2. ASSUME NEW s \in Session, Refuse(s)
        PROVE  [Ledger!Next]_Standings
    <2> DEFINE id == Len(asked) + 1
               request == [scope |-> Scope(s), status |-> "pending"]
    <2>1. asked' = Append(asked, request) /\ request.status = "pending"
      BY <1>2 DEF Refuse
    <2> HIDE DEF request
    <2>2. /\ id \notin DOMAIN asked /\ id \in DOMAIN asked' /\ asked'[id] = request
          /\ \A i \in DOMAIN asked : i \in DOMAIN asked' /\ asked'[i] = asked[i]
          /\ \A i \in DOMAIN asked' : i \in DOMAIN asked \/ i = id
      BY <1>1, <2>1
    <2> HIDE DEF id
    <2>3. PICK k : k = id
      OBVIOUS
    <2>4. \A i \in ApprovalId : i # k => Standing(i)' = Standing(i)
      BY <2>2, <2>3 DEF Standing
    <2>5. Standing(k) = "none" /\ Standing(k)' = "pending"
      BY <2>1, <2>2, <2>3 DEF Standing
    <2>6. CASE k \in ApprovalId
      <3>1. Standings' = [Standings EXCEPT ![k] = "pending"] /\ Standings[k] = "none"
        BY <2>4, <2>5, <2>6 DEF Standings
      <3>2. Ledger!Ask(k)
        BY <3>1 DEF Ledger!Ask, Standings, Standing
      <3>3. QED
        BY <2>6, <3>2 DEF Ledger!Next
    <2>7. CASE k \notin ApprovalId
      BY <2>4, <2>7 DEF Standings
    <2>8. QED
      BY <2>6, <2>7
  <1>3. ASSUME NEW id \in ApprovalId, NEW decision \in {"approved", "denied"},
               Decide(id, decision)
        PROVE  [Ledger!Next]_Standings
    <2>1. /\ id \in DOMAIN asked /\ asked[id].status = "pending"
          /\ asked' = [asked EXCEPT ![id].status = decision]
      BY <1>3 DEF Decide
    <2>2. Standings' = [Standings EXCEPT ![id] = decision]
      BY <1>1, <2>1, OneMoves
    <2>3. Standings[id] = "pending"
      BY <2>1 DEF Standings, Standing
    <2>4. Ledger!Decide(id, decision)
      BY <2>2, <2>3 DEF Ledger!Decide, Standings, Standing
    <2>5. QED
      BY <2>4 DEF Ledger!Next
  <1>4. ASSUME NEW s \in Session, Consume(s)
        PROVE  [Ledger!Next]_Standings
    <2>1. PICK id : id = run[s].approvals[Current(s)]
      OBVIOUS
    <2>2. ServesNow(s) /\ Current(s) \in TaskId
      BY <1>4, CurrentIsTask DEF FlowIInv, ApprovalsHonest, Consume, AtCall, CallPlaces
    <2>3. id \in DOMAIN asked /\ asked[id].status \in {"approved", "used"}
      BY <2>1, <2>2 DEF ServesNow, FlowIInv, ApprovalsHonest
    <2>4. asked' = [asked EXCEPT ![id].status = "used"]
      BY <1>4, <2>1 DEF Consume
    <2>5. CASE id \in ApprovalId
      <3>1. Standings' = [Standings EXCEPT ![id] = "used"]
            /\ Standings[id] \in {"approved", "used"}
        BY <1>1, <2>3, <2>4, <2>5, OneMoves DEF Standings, Standing
      <3>2. CASE Standings[id] = "approved"
        <4>1. Ledger!Consume(id)
          BY <3>1, <3>2 DEF Ledger!Consume, Standings, Standing
        <4>2. QED
          BY <2>5, <4>1 DEF Ledger!Next
      <3>3. CASE Standings[id] = "used"
        BY <3>1, <3>3 DEF Standings
      <3>4. QED
        BY <3>1, <3>2, <3>3
    <2>6. CASE id \notin ApprovalId
      <3>1. DOMAIN asked' = DOMAIN asked /\ \A i \in DOMAIN asked \ {id} : asked'[i] = asked[i]
        BY <2>4
      <3>2. \A i \in ApprovalId : Standing(i)' = Standing(i)
        BY <2>6, <3>1 DEF Standing
      <3>3. QED
        BY <3>2 DEF Standings
    <2>7. QED
      BY <2>5, <2>6
  <1>5. ASSUME asked' = asked PROVE [Ledger!Next]_Standings
    BY <1>5, SameStandings
  <1>6. QED
    BY <1>2, <1>3, <1>4, <1>5 DEF Next, RunStep, Start, OrderRound, OrderTask, Announce,
       ResolveArgs, GoAhead, Dispatch, Return, Finish, ResolveFails, Unsupported, Abort,
       EditApproval, vars

\* However many sessions read an approval before either marks it, an approval is decided
\* once and then consumed, and a denied or a consumed one stays as it is: workflow runs
\* keep the ledger that the approval queue promises (store.py:95-114, executor.py:57-89).
THEOREM RunsKeepTheLedger == Spec => Ledger!Spec
  BY LedgerStep, LedgerInit, FlowInvariant, PTL DEF Spec, Ledger!Spec
=============================================================================
