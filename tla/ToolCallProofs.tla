--------------------------- MODULE ToolCallProofs ---------------------------
(***************************************************************************)
(* Tool calls are clients of the approval store, and what they run is      *)
(* authorised: proofs for every number of calls, deciders, approvals,      *)
(* manifests and edits.  CallIInv is inductive: what one call relies on    *)
(* can be disturbed by its own steps only, because the file only grows.    *)
(***************************************************************************)
EXTENDS ToolCall, ApprovalStoreProofs, FiniteSetTheorems

\* Lines of the file stay where they are.
QueueGrows ==
    \A id \in ApprovalId : \A j \in DOMAIN queue[id] :
        j \in DOMAIN queue'[id] /\ queue'[id][j] = queue[id][j]

\* A step leaves a call's own state alone.
Undisturbed(c) ==
    /\ frame'[c] = frame[c]
    /\ pc'[c] = pc[c]
    /\ request'[c] = request[c]
    /\ paid'[c] = paid[c]
    /\ ran'[c] = ran[c]

-----------------------------------------------------------------------------
(* Lemmas about requests and about the file.                               *)

LEMMA ScopeOfType ==
    ASSUME NEW r \in Request_
    PROVE  ScopeOf(r) \in Scope /\ ScopeOf(r) # NoScope
  BY CallAssumption, StoreAssumption DEF Request_, ScopeOf

LEMMA CallsAreClients == Call \subseteq Client /\ Decider \subseteq Client
                         /\ \A c \in Call, d \in Decider : c # d
  BY CallAssumption

LEMMA AppendGrows ==
    ASSUME StoreTypeOK, NEW id \in ApprovalId, NEW line \in Line,
           AppendLine(id, line)
    PROVE  QueueGrows
  <1> SUFFICES ASSUME NEW x \in ApprovalId, NEW j \in DOMAIN queue[x]
               PROVE  j \in DOMAIN queue'[x] /\ queue'[x][j] = queue[x][j]
    BY DEF QueueGrows
  <1>1. queue[x] \in Seq(Line)
    BY DEF StoreTypeOK
  <1>2. CASE x # id
    BY <1>2 DEF AppendLine, StoreTypeOK
  <1>3. CASE x = id
    <2>1. queue'[x] = Append(queue[x], line)
      BY <1>3 DEF AppendLine, StoreTypeOK
    <2>2. QED
      BY <1>1, <2>1, AppendFacts
  <1>4. QED
    BY <1>2, <1>3

LEMMA SameFileGrows ==
    ASSUME queue' = queue
    PROVE  QueueGrows
  BY DEF QueueGrows

LEMMA CommitGrows ==
    ASSUME StoreIInv, NEW c \in Client, Commit(c)
    PROVE  QueueGrows
  <1>1. frame[c] # Idle /\ frame[c].at = "copied"
    BY DEF Commit, Idle
  <1>2. /\ frame[c].id \in ApprovalId /\ frame[c].to \in Status
        /\ frame[c].record \in Line
    BY <1>1, BusyFrame
  <1>3. Transitioned(frame[c].record, frame[c].to) \in Line
    BY <1>2, TransitionedType
  <1>4. QED
    BY <1>2, <1>3, AppendGrows DEF StoreIInv, Commit

LEMMA RequestGrows ==
    ASSUME StoreIInv, NEW c \in Client, NEW id \in ApprovalId, NEW cap \in Capability,
           NEW scope \in Scope \cup {NoScope}, Request(c, id, cap, scope)
    PROVE  QueueGrows
  <1>1. NewRequest(cap, scope) \in Line
    BY NewRequestType
  <1>2. QED
    BY <1>1, AppendGrows DEF StoreIInv, Request

\* What is granted stays granted.
LEMMA GrantStays ==
    ASSUME QueueGrows
    PROVE  \A id \in ApprovalId : \A scope :
              Granted(queue, id, scope) => Granted(queue', id, scope)
  BY DEF QueueGrows, Granted

\* A call another client's step leaves alone keeps what it relies on.
LEMMA HonestyKept ==
    ASSUME CallTypeOK, NEW c \in Call, CallHonest(c), QueueGrows, Undisturbed(c)
    PROVE  CallHonest(c)'
  <1>1. paid[c] \in ApprovalId \cup {NoApproval}
    BY DEF CallTypeOK
  <1>2. pc[c] = "using" => request[c].approval \in ApprovalId
    BY DEF CallHonest, Request_
  <1>3. QED
    BY <1>1, <1>2, GrantStays DEF CallHonest, Undisturbed

-----------------------------------------------------------------------------
(* One lemma per action of a call: it is a step of the store, and keeps    *)
(* what the call relies on.                                                *)

\* What a step of call c owes: it is a step of the store that keeps the types, the
\* file and what c relies on, and leaves the other calls alone.
CallStepOK(c) ==
    /\ [StoreNext]_storeVars
    /\ QueueGrows
    /\ CallTypeOK'
    /\ CallHonest(c)'
    /\ \A x \in Call : x # c => Undisturbed(x)

LEMMA BeginOK ==
    ASSUME CallIInv, NEW c \in Call, NEW r \in Request_, Begin(c, r)
    PROVE  CallStepOK(c)
  <1>1. UNCHANGED storeVars /\ QueueGrows
    BY SameFileGrows DEF Begin, storeVars
  <1>2. CallTypeOK'
    BY DEF CallIInv, CallTypeOK, Begin, Goto
  <1>3. \A x \in Call : x # c => Undisturbed(x)
    BY DEF CallIInv, CallTypeOK, Begin, Goto, Undisturbed, storeVars
  <1>4. CallHonest(c)'
    <2>1. /\ paid'[c] = NoApproval /\ ran'[c] = Nothing /\ request'[c] = r
          /\ pc'[c] \in {"starting", "presenting", "refused"}
          /\ pc'[c] = "presenting" => r.approval # NoApproval
          /\ pc'[c] = "starting" => Allowed(r.manifest.policy, r.confirmed)
      BY DEF CallIInv, CallTypeOK, CallHonest, Begin, Goto
    <2>2. QED
      BY <2>1 DEF CallHonest
  <1>5. QED
    BY <1>1, <1>2, <1>3, <1>4 DEF CallStepOK

LEMMA PresentApprovalOK ==
    ASSUME CallIInv, NEW c \in Call, PresentApproval(c)
    PROVE  CallStepOK(c)
  <1> DEFINE r == request[c]
  <1>1. /\ c \in Client /\ pc[c] = "presenting" /\ r \in Request_
        /\ r.approval \in ApprovalId /\ r.cap \in Capability
    BY CallsAreClients DEF PresentApproval, CallIInv, CallHonest, Request_
  <1>2. ScopeOf(r) \in Scope /\ ScopeOf(r) # NoScope
    BY <1>1, ScopeOfType
  <1>3. Use(c, r.approval, r.cap, ScopeOf(r))
    BY DEF PresentApproval
  <1>4. StoreNext
    BY <1>1, <1>2, <1>3 DEF StoreNext
  <1>5. queue' = queue /\ QueueGrows
    BY <1>3, SameFileGrows DEF Use, Enter
  <1>6. CallTypeOK'
    BY DEF CallIInv, CallTypeOK, PresentApproval, Goto
  <1>7. \A x \in Call : x # c => Undisturbed(x)
    BY <1>1, <1>3 DEF CallIInv, CallTypeOK, StoreIInv, StoreTypeOK, PresentApproval,
                      Goto, Use, Enter, Undisturbed
  <1>8. frame'[c] = [at |-> "checked", id |-> r.approval, to |-> "used"]
    BY <1>1, <1>3 DEF CallIInv, StoreIInv, StoreTypeOK, Use, Enter
  <1>9. Granted(queue', r.approval, ScopeOf(r))
    <2>1. /\ Known(r.approval) /\ Latest(r.approval).status = "approved"
          /\ Latest(r.approval).scope = ScopeOf(r)
      BY <1>2, <1>3 DEF Use, CanUse
    <2>2. QED
      BY <1>1, <1>5, <2>1, LatestIsLine DEF CallIInv, StoreIInv, StoreTypeOK, Latest,
                                            Granted
  <1>10. /\ pc'[c] = "using" /\ request'[c] = r
         /\ paid'[c] = paid[c] /\ ran'[c] = ran[c]
    BY <1>1 DEF PresentApproval, Goto, CallIInv, CallTypeOK
  <1>11. CallHonest(c)'
    <2>1. frame'[c] # Idle /\ frame'[c].id = r.approval
      BY <1>8 DEF Idle
    <2>2. paid[c] \in ApprovalId \cup {NoApproval} /\ CallHonest(c)
      BY DEF CallIInv, CallTypeOK
    <2>3. QED
      BY <1>1, <1>5, <1>9, <1>10, <2>1, <2>2 DEF CallHonest
  <1>12. QED
    BY <1>4, <1>5, <1>6, <1>7, <1>11 DEF CallStepOK

\* Actions of a call that leave the store alone.
LEMMA RejectedOK ==
    ASSUME CallIInv, NEW c \in Call, ApprovalRejected(c)
    PROVE  CallStepOK(c)
  <1>1. UNCHANGED storeVars /\ QueueGrows
    BY SameFileGrows DEF ApprovalRejected, storeVars
  <1>2. CallTypeOK' /\ \A x \in Call : x # c => Undisturbed(x)
    BY DEF CallIInv, CallTypeOK, ApprovalRejected, Goto, Undisturbed, storeVars
  <1>3. CallHonest(c)'
    BY DEF CallIInv, CallTypeOK, CallHonest, ApprovalRejected, Goto, storeVars
  <1>4. QED
    BY <1>1, <1>2, <1>3 DEF CallStepOK

LEMMA WriteOK ==
    ASSUME CallIInv, NEW c \in Call, Write(c)
    PROVE  CallStepOK(c)
  <1>1. UNCHANGED storeVars /\ QueueGrows
    BY SameFileGrows DEF Write, storeVars
  <1>2. CallTypeOK' /\ \A x \in Call : x # c => Undisturbed(x)
    BY DEF CallIInv, CallTypeOK, Write, Undisturbed, storeVars
  <1>3. CallHonest(c)'
    BY DEF CallIInv, CallHonest, Write, storeVars
  <1>4. QED
    BY <1>1, <1>2, <1>3 DEF CallStepOK

LEMMA DispatchOK ==
    ASSUME CallIInv, NEW c \in Call, Dispatch(c)
    PROVE  CallStepOK(c)
  <1>1. UNCHANGED storeVars /\ QueueGrows
    BY SameFileGrows DEF Dispatch, storeVars
  <1>2. /\ pc[c] = "starting" /\ request' = request /\ paid' = paid
        /\ request[c] \in Request_ /\ CallHonest(c)
        /\ ScopeOf(request[c]) \in Scope
    BY ScopeOfType DEF Dispatch, CallIInv, CallHonest
  <1>3. \/ ran' = ran /\ pc' = [pc EXCEPT ![c] = "reporting"]
        \/ /\ ran' = [ran EXCEPT ![c] = ScopeOf(request[c])]
           /\ pc' = [pc EXCEPT ![c] = "running"]
    BY DEF Dispatch, Report, Goto
  <1>4. CallTypeOK' /\ \A x \in Call : x # c => Undisturbed(x)
    BY <1>1, <1>2, <1>3 DEF CallIInv, CallTypeOK, Dispatch, Undisturbed, storeVars
  <1>5. CallHonest(c)'
    BY <1>1, <1>2, <1>3 DEF CallIInv, CallTypeOK, CallHonest, storeVars
  <1>6. QED
    BY <1>1, <1>4, <1>5 DEF CallStepOK

LEMMA ExitOK ==
    ASSUME CallIInv, NEW c \in Call, Exit(c)
    PROVE  CallStepOK(c)
  <1>1. UNCHANGED storeVars /\ QueueGrows
    BY SameFileGrows DEF Exit, storeVars
  <1>2. /\ pc[c] = "running" /\ pc' = [pc EXCEPT ![c] = "reporting"]
        /\ UNCHANGED <<disk, edits, request, paid, ran>>
    BY DEF Exit, Report, Goto
  <1>3. CallTypeOK' /\ \A x \in Call : x # c => Undisturbed(x)
    BY <1>1, <1>2 DEF CallIInv, CallTypeOK, Undisturbed, storeVars
  <1>4. CallHonest(c)'
    BY <1>1, <1>2 DEF CallIInv, CallTypeOK, CallHonest, storeVars
  <1>5. QED
    BY <1>1, <1>3, <1>4 DEF CallStepOK

\* Actions of a call that are steps of its client in the store.
LEMMA ReadForUseOK ==
    ASSUME CallIInv, NEW c \in Call, ReadForUse(c)
    PROVE  CallStepOK(c)
  <1>1. c \in Client /\ pc[c] = "using" /\ Copy(c) /\ UNCHANGED callVars
    BY CallsAreClients DEF ReadForUse
  <1>2. StoreNext /\ QueueGrows /\ queue' = queue
    BY <1>1, SameFileGrows DEF StoreNext, Copy
  <1>3. CallTypeOK' /\ UNCHANGED <<pc, request, paid, ran>>
    BY <1>1 DEF CallIInv, CallTypeOK, callVars
  <1>4. /\ \A x \in Client : x # c => frame'[x] = frame[x]
        /\ frame'[c].at = "copied" /\ frame'[c].id = frame[c].id
    BY <1>1 DEF Copy, CallIInv, StoreIInv, StoreTypeOK
  <1>5. CallHonest(c)'
    BY <1>1, <1>2, <1>3, <1>4 DEF CallIInv, CallHonest, Idle
  <1>6. QED
    BY <1>2, <1>3, <1>4, <1>5, CallsAreClients DEF CallStepOK, Undisturbed

LEMMA ConsumeApprovalOK ==
    ASSUME CallIInv, NEW c \in Call, ConsumeApproval(c)
    PROVE  CallStepOK(c)
  <1> DEFINE r == request[c]
  <1>1. /\ c \in Client /\ pc[c] = "using" /\ Commit(c) /\ CallHonest(c)
        /\ r \in Request_ /\ r.approval \in ApprovalId
        /\ Granted(queue, r.approval, ScopeOf(r))
    BY CallsAreClients DEF ConsumeApproval, CallIInv, CallHonest, Request_
  <1>2. StoreNext /\ QueueGrows
    BY <1>1, CommitGrows DEF StoreNext, CallIInv
  <1>3. Granted(queue', r.approval, ScopeOf(r))
    BY <1>1, <1>2, GrantStays
  <1>4. /\ pc' = [pc EXCEPT ![c] = "starting"]
        /\ paid' = [paid EXCEPT ![c] = r.approval]
        /\ UNCHANGED <<disk, edits, request, ran>>
    BY DEF ConsumeApproval, Goto
  <1>5. CallTypeOK'
    BY <1>1, <1>4 DEF CallIInv, CallTypeOK
  <1>6. \A x \in Client : x # c => frame'[x] = frame[x]
    BY <1>1 DEF Commit, CallIInv, StoreIInv, StoreTypeOK
  <1>7. \A x \in Call : x # c => Undisturbed(x)
    BY <1>4, <1>6, CallsAreClients DEF CallIInv, CallTypeOK, Undisturbed
  <1>8. /\ pc'[c] = "starting" /\ paid'[c] = r.approval
        /\ request'[c] = r /\ ran'[c] = ran[c]
    BY <1>4 DEF CallIInv, CallTypeOK
  <1>9. r.approval # NoApproval
    BY <1>1, CallAssumption
  <1>10. CallHonest(c)'
    BY <1>1, <1>3, <1>8, <1>9 DEF CallHonest
  <1>11. QED
    BY <1>2, <1>5, <1>7, <1>10 DEF CallStepOK

LEMMA RequestApprovalOK ==
    ASSUME CallIInv, NEW c \in Call, RequestApproval(c)
    PROVE  CallStepOK(c)
  <1> DEFINE r == request[c]
  <1>1. /\ c \in Client /\ pc[c] = "refused" /\ CallHonest(c)
        /\ r \in Request_ /\ r.cap \in Capability /\ ScopeOf(r) \in Scope
    BY CallsAreClients, ScopeOfType DEF RequestApproval, CallIInv, CallHonest, Request_
  <1>2. PICK id \in ApprovalId : Request(c, id, r.cap, ScopeOf(r))
    BY DEF RequestApproval
  <1>3. StoreNext /\ QueueGrows
    BY <1>1, <1>2, RequestGrows DEF StoreNext, CallIInv
  <1>4. /\ frame' = frame /\ pc' = [pc EXCEPT ![c] = "reporting"]
        /\ UNCHANGED <<disk, edits, request, paid, ran>>
    BY <1>2 DEF RequestApproval, Request, Goto
  <1>5. CallTypeOK' /\ \A x \in Call : x # c => Undisturbed(x)
    BY <1>4 DEF CallIInv, CallTypeOK, Undisturbed
  <1>6. /\ pc'[c] = "reporting" /\ paid[c] \in ApprovalId \cup {NoApproval}
    BY <1>4 DEF CallIInv, CallTypeOK
  <1>7. CallHonest(c)'
    BY <1>1, <1>3, <1>4, <1>6, GrantStays DEF CallHonest
  <1>8. QED
    BY <1>3, <1>5, <1>7 DEF CallStepOK

LEMMA AbortOK ==
    ASSUME CallIInv, NEW c \in Call, Abort(c)
    PROVE  CallStepOK(c)
  <1>1. /\ c \in Client /\ queue' = queue /\ QueueGrows
        /\ frame' = [frame EXCEPT ![c] = Idle]
        /\ pc' = [pc EXCEPT ![c] = "aborted"] /\ pc[c] # "idle"
        /\ UNCHANGED <<disk, edits, request, paid, ran>>
    BY CallsAreClients, SameFileGrows DEF Abort, Goto
  <1>2. [StoreNext]_storeVars
    <2>1. CASE frame[c] = Idle
      BY <1>1, <2>1 DEF CallIInv, StoreIInv, StoreTypeOK, storeVars
    <2>2. CASE frame[c] # Idle
      BY <1>1, <2>2 DEF StoreNext, Die
    <2>3. QED
      BY <2>1, <2>2
  <1>3. CallTypeOK' /\ \A x \in Call : x # c => Undisturbed(x)
    BY <1>1, CallsAreClients DEF CallIInv, CallTypeOK, StoreIInv, StoreTypeOK, Undisturbed
  <1>4. CallHonest(c)'
    BY <1>1 DEF CallIInv, CallTypeOK, CallHonest
  <1>5. QED
    BY <1>1, <1>2, <1>3, <1>4 DEF CallStepOK

-----------------------------------------------------------------------------
(* The people around the calls.                                            *)

\* A step of anybody else is a step of the store that keeps the types and the file
\* and leaves every call alone.
OutsideStepOK ==
    /\ [StoreNext]_storeVars
    /\ QueueGrows
    /\ CallTypeOK'
    /\ \A x \in Call : Undisturbed(x)

\* A step of a decider changes no frame but its own, and no call variable.
LEMMA OwnFrameOnly ==
    ASSUME CallIInv, NEW d \in Decider, NEW f, frame' = [frame EXCEPT ![d] = f],
           UNCHANGED <<disk, edits, pc, request, paid, ran>>
    PROVE  CallTypeOK' /\ \A x \in Call : Undisturbed(x)
  <1>1. \A x \in Call : x \in Client /\ x # d
    BY CallsAreClients
  <1>2. QED
    BY <1>1 DEF CallIInv, CallTypeOK, StoreIInv, StoreTypeOK, Undisturbed

LEMMA StartDecisionOK ==
    ASSUME CallIInv, NEW d \in Decider, StartDecision(d)
    PROVE  OutsideStepOK
  <1>1. PICK id \in ApprovalId, decision \in {"approved", "denied"} :
            Decide(d, id, decision)
    BY DEF StartDecision
  <1>2. StoreNext
    BY <1>1, CallsAreClients DEF StoreNext
  <1>3. QueueGrows
    BY <1>1, SameFileGrows DEF Decide, Enter
  <1>4. CallTypeOK' /\ \A x \in Call : Undisturbed(x)
    BY <1>1, OwnFrameOnly DEF Decide, Enter, StartDecision, callVars
  <1>5. QED
    BY <1>2, <1>3, <1>4 DEF OutsideStepOK

LEMMA ReadForDecisionOK ==
    ASSUME CallIInv, NEW d \in Decider, ReadForDecision(d)
    PROVE  OutsideStepOK
  <1>1. StoreNext
    BY CallsAreClients DEF ReadForDecision, StoreNext
  <1>2. QueueGrows
    BY SameFileGrows DEF ReadForDecision, Copy
  <1>3. CallTypeOK' /\ \A x \in Call : Undisturbed(x)
    BY OwnFrameOnly DEF ReadForDecision, Copy, callVars
  <1>4. QED
    BY <1>1, <1>2, <1>3 DEF OutsideStepOK

LEMMA RecordDecisionOK ==
    ASSUME CallIInv, NEW d \in Decider, RecordDecision(d)
    PROVE  OutsideStepOK
  <1>1. d \in Client /\ Commit(d)
    BY CallsAreClients DEF RecordDecision
  <1>2. StoreNext
    BY <1>1 DEF StoreNext
  <1>3. QueueGrows
    BY <1>1, CommitGrows DEF CallIInv
  <1>4. CallTypeOK' /\ \A x \in Call : Undisturbed(x)
    BY <1>1, OwnFrameOnly DEF RecordDecision, Commit
  <1>5. QED
    BY <1>2, <1>3, <1>4 DEF OutsideStepOK

LEMMA DeciderDiesOK ==
    ASSUME CallIInv, NEW d \in Decider, DeciderDies(d)
    PROVE  OutsideStepOK
  <1>1. d \in Client /\ queue' = queue /\ frame' = [frame EXCEPT ![d] = Idle]
    BY CallsAreClients DEF DeciderDies
  <1>2. [StoreNext]_storeVars
    <2>1. CASE frame[d] = Idle
      BY <1>1, <2>1 DEF CallIInv, StoreIInv, StoreTypeOK, storeVars
    <2>2. CASE frame[d] # Idle
      BY <1>1, <2>2 DEF StoreNext, Die
    <2>3. QED
      BY <2>1, <2>2
  <1>3. QueueGrows
    BY <1>1, SameFileGrows
  <1>4. CallTypeOK' /\ \A x \in Call : Undisturbed(x)
    BY <1>1, OwnFrameOnly DEF DeciderDies
  <1>5. QED
    BY <1>2, <1>3, <1>4 DEF OutsideStepOK

LEMMA AnnounceDecisionOK ==
    ASSUME CallIInv, NEW d \in Decider, AnnounceDecision(d)
    PROVE  OutsideStepOK
  BY SameFileGrows DEF AnnounceDecision, OutsideStepOK, CallIInv, CallTypeOK,
                       Undisturbed, storeVars

LEMMA EditManifestOK ==
    ASSUME CallIInv, NEW cap \in Capability, NEW m \in Manifest \cup {NoManifest},
           EditManifest(cap, m)
    PROVE  OutsideStepOK
  <1>1. CallTypeOK'
    BY CallAssumption DEF CallIInv, CallTypeOK, EditManifest
  <1>2. QED
    BY <1>1, SameFileGrows DEF EditManifest, OutsideStepOK, Undisturbed, storeVars

-----------------------------------------------------------------------------
(* Putting the actions together.                                           *)

LEMMA NextOK ==
    ASSUME CallIInv, Next
    PROVE  OutsideStepOK \/ \E c \in Call : CallStepOK(c)
  <1>1. ASSUME NEW c \in Call, CallStep(c)
        PROVE  CallStepOK(c)
    BY <1>1, PresentApprovalOK, RejectedOK, ReadForUseOK, ConsumeApprovalOK,
       RequestApprovalOK, WriteOK, DispatchOK, ExitOK DEF CallStep
  <1>2. ASSUME NEW c \in Call, Abort(c) \/ \E r \in Request_ : Begin(c, r)
        PROVE  CallStepOK(c)
    BY <1>2, AbortOK, BeginOK
  <1>3. ASSUME NEW d \in Decider, StartDecision(d) \/ DeciderStep(d) \/ DeciderDies(d)
        PROVE  OutsideStepOK
    BY <1>3, StartDecisionOK, ReadForDecisionOK, RecordDecisionOK, AnnounceDecisionOK,
       DeciderDiesOK DEF DeciderStep
  <1>4. QED
    BY <1>1, <1>2, <1>3, EditManifestOK DEF Next

LEMMA CallInitOK == Init => CallIInv
  <1> SUFFICES ASSUME Init PROVE CallIInv
    OBVIOUS
  <1>1. StoreIInv
    BY InitIInv DEF Init
  <1>2. CallTypeOK
    BY CallAssumption DEF Init, CallTypeOK
  <1>3. \A c \in Call : CallHonest(c)
    BY DEF Init, CallHonest
  <1>4. QED
    BY <1>1, <1>2, <1>3 DEF CallIInv

LEMMA CallStepInv == CallIInv /\ [Next]_vars => CallIInv'
  <1> SUFFICES ASSUME CallIInv, [Next]_vars PROVE CallIInv'
    OBVIOUS
  <1>1. ASSUME NEW c \in Call, CallStepOK(c) PROVE CallIInv'
    <2>1. StoreIInv'
      BY <1>1, StepIInv DEF CallIInv, CallStepOK
    <2>2. \A x \in Call : CallHonest(x)'
      BY <1>1, HonestyKept DEF CallIInv, CallStepOK
    <2>3. QED
      BY <1>1, <2>1, <2>2 DEF CallIInv, CallStepOK
  <1>2. CASE OutsideStepOK
    <2>1. StoreIInv'
      BY <1>2, StepIInv DEF CallIInv, OutsideStepOK
    <2>2. \A x \in Call : CallHonest(x)'
      BY <1>2, HonestyKept DEF CallIInv, OutsideStepOK
    <2>3. QED
      BY <1>2, <2>1, <2>2 DEF CallIInv, OutsideStepOK
  <1>3. CASE UNCHANGED vars
    <2>1. StoreIInv'
      BY <1>3, StepIInv DEF CallIInv, vars, storeVars
    <2>2. CallTypeOK' /\ \A x \in Call : Undisturbed(x)
      BY <1>3 DEF CallIInv, CallTypeOK, Undisturbed, vars
    <2>3. \A x \in Call : CallHonest(x)'
      BY <1>3, <2>2, HonestyKept, SameFileGrows DEF CallIInv, vars
    <2>4. QED
      BY <2>1, <2>2, <2>3 DEF CallIInv
  <1>4. QED
    BY <1>1, <1>2, <1>3, NextOK

-----------------------------------------------------------------------------
(* The theorems.                                                           *)

\* The inductive invariant of concurrent tool calls.
THEOREM CallInvariant == Spec => []CallIInv
  BY CallInitOK, CallStepInv, PTL DEF Spec

\* Every state of the calls and of the store below them is well typed.
THEOREM CallTypeCorrect == Spec => []TypeOK
  <1>1. CallIInv => TypeOK
    BY DEF CallIInv, StoreIInv, TypeOK
  <1>2. QED
    BY <1>1, CallInvariant, PTL

\* However many calls, deciders and manifest edits interleave, a command the policy
\* holds back runs only if its caller confirmed it or its call consumed an approval
\* some line granted for the very scope that runs.
THEOREM RunsApproved == Spec => []RunsAreApproved
  <1>1. CallIInv => RunsAreApproved
    <2> SUFFICES ASSUME CallIInv, NEW c \in Call, ran[c] # Nothing,
                        ~Allowed(ran[c].manifest.policy, request[c].confirmed)
                 PROVE  paid[c] # NoApproval /\ Granted(queue, paid[c], ran[c])
      BY DEF RunsAreApproved
    <2>1. CallHonest(c) /\ ran[c] = ScopeOf(request[c])
      BY DEF CallIInv, CallHonest
    <2>2. ran[c].manifest = request[c].manifest
      BY <2>1 DEF ScopeOf
    <2>3. QED
      BY <2>1, <2>2 DEF CallHonest
  <1>2. QED
    BY <1>1, CallInvariant, PTL

\* Calls and deciders use the approval store as its specification allows: every
\* behaviour of the calls is, on the store's variables, one of the store.
THEOREM CallsUseTheStore == Spec => StoreSpec
  <1>1. Init => StoreInit
    BY DEF Init
  <1>2. CallIInv /\ [Next]_vars => [StoreNext]_storeVars
    <2> SUFFICES ASSUME CallIInv, [Next]_vars PROVE [StoreNext]_storeVars
      OBVIOUS
    <2>1. CASE Next
      BY <2>1, NextOK DEF OutsideStepOK, CallStepOK
    <2>2. CASE UNCHANGED vars
      BY <2>2 DEF vars, storeVars
    <2>3. QED
      BY <2>1, <2>2
  <1>3. QED
    BY <1>1, <1>2, CallInvariant, PTL DEF Spec, StoreSpec

-----------------------------------------------------------------------------
(* Proofs about the records of a call, for every number of calls.          *)
(* Whatever runs was audited first: AuditInv is inductive beside CallIInv, *)
(* a call in "starting" has yet to write both records of its start, or the *)
(* audit line is in its trail; only then can it dispatch.  A refused call  *)
(* asks anew: by RefusalInv it has no "blocked" record before it reports,  *)
(* and then only of a request it added after the approval it presented was *)
(* there.  Uses add up: by UseInv nobody pays before it consumes, and only *)
(* a call's frame makes a use.  Events follow records: by EventInv what a  *)
(* call wrote and has yet to write is ordered, so a crash leaves the       *)
(* beginning of an ordered history, and a decision is in the file before   *)
(* anyone owes its announcement.                                           *)

\* The records a call may write.
Record_ == [sink : {"audit", "event", "artifact", "file"},
            what : {"blocked", "approval.requested", "started", "stdout", "stderr",
                    "parsed", "message", "completed"},
            approval : ApprovalId \cup {NoApproval}]

StartAudited(c) ==
    \E i \in DOMAIN trail[c] : trail[c][i] = Rec("audit", "started", paid[c])

BeforeDispatch == {"idle", "presenting", "using", "refused", "starting"}

AuditHonest(c) ==
    /\ pc[c] \in BeforeDispatch => ran[c] = Nothing
    /\ pc[c] = "starting" => todo[c] = StartedRecords(paid[c]) \/ StartAudited(c)
    /\ ran[c] # Nothing => StartAudited(c)

AuditInv ==
    /\ todo \in [Call -> Seq(Record_)]
    /\ trail \in [Call -> Seq(Record_)]
    /\ \A c \in Call : AuditHonest(c)

\* A step leaves the records of a call alone, and what they depend on.
Untouched(c) ==
    /\ pc'[c] = pc[c]
    /\ paid'[c] = paid[c]
    /\ ran'[c] = ran[c]
    /\ todo'[c] = todo[c]
    /\ trail'[c] = trail[c]

\* What a step of call c owes.
AuditStepOK(c) ==
    /\ todo' \in [Call -> Seq(Record_)]
    /\ trail' \in [Call -> Seq(Record_)]
    /\ AuditHonest(c)'
    /\ \A x \in Call : x # c => Untouched(x)

-----------------------------------------------------------------------------
(* Lemmas about records.                                                   *)

LEMMA RecordTypes ==
    ASSUME NEW id \in ApprovalId \cup {NoApproval}
    PROVE  /\ StartedRecords(id) \in Seq(Record_)
           /\ BlockedRecords(id) \in Seq(Record_)
           /\ StartedRecords(id) # <<>>
           /\ Head(StartedRecords(id)) = Rec("audit", "started", id)
           /\ <<>> \in Seq(Record_)
  <1>1. /\ Rec("audit", "started", id) \in Record_ /\ Rec("event", "started", id) \in Record_
        /\ Rec("audit", "blocked", id) \in Record_ /\ Rec("event", "blocked", id) \in Record_
        /\ Rec("event", "approval.requested", id) \in Record_
    BY DEF Rec, Record_
  <1>2. QED
    BY <1>1 DEF StartedRecords, BlockedRecords

LEMMA CompletedType ==
    ASSUME NEW id \in ApprovalId \cup {NoApproval}, NEW outputs
    PROVE  CompletedRecords(outputs, id) \in Seq(Record_)
  <1>1. \A kind \in {"stdout", "stderr", "parsed"} :
            /\ Rec("file", kind, NoApproval) \in Record_
            /\ Rec("artifact", kind, NoApproval) \in Record_
            /\ Rec("event", kind, NoApproval) \in Record_
    BY DEF Rec, Record_
  <1>2. \A kind \in {"stdout", "stderr", "parsed"} : ArtifactRecords(kind) \in Seq(Record_)
    BY <1>1 DEF ArtifactRecords
  <1>3. << Rec("event", "message", NoApproval), Rec("audit", "completed", id),
           Rec("event", "completed", id) >> \in Seq(Record_)
    BY DEF Rec, Record_
  <1>4. <<>> \in Seq(Record_)
    OBVIOUS
  <1>5. \A s, t \in Seq(Record_) : s \o t \in Seq(Record_)
    OBVIOUS
  <1>6. /\ (IF "stdout" \in outputs THEN ArtifactRecords("stdout") ELSE <<>>) \in Seq(Record_)
        /\ (IF "stderr" \in outputs THEN ArtifactRecords("stderr") ELSE <<>>) \in Seq(Record_)
        /\ ArtifactRecords("parsed") \in Seq(Record_)
    BY <1>2, <1>4
  <1>7. QED
    BY <1>3, <1>5, <1>6 DEF CompletedRecords

\* A record added to a trail leaves those before it where they are.
LEMMA TrailGrows ==
    ASSUME NEW s \in Seq(Record_), NEW r \in Record_
    PROVE  /\ Append(s, r) \in Seq(Record_)
           /\ Len(s) + 1 \in DOMAIN Append(s, r) /\ Append(s, r)[Len(s) + 1] = r
           /\ \A i \in DOMAIN s : i \in DOMAIN Append(s, r) /\ Append(s, r)[i] = s[i]
  OBVIOUS

LEMMA HonestyUntouched ==
    ASSUME NEW c \in Call, AuditHonest(c), Untouched(c)
    PROVE  AuditHonest(c)'
  BY DEF AuditHonest, Untouched, StartAudited

-----------------------------------------------------------------------------
(* One lemma per action of a call.                                         *)

LEMMA BeginAudit ==
    ASSUME CallIInv, AuditInv, NEW c \in Call, NEW r \in Request_, Begin(c, r)
    PROVE  AuditStepOK(c)
  <1>1. /\ pc[c] = "idle" /\ paid[c] = NoApproval /\ ran[c] = Nothing
        /\ UNCHANGED <<paid, ran, trail>>
    BY DEF CallIInv, CallHonest, Begin
  <1>2. \/ /\ pc' = [pc EXCEPT ![c] = "starting"]
           /\ todo' = [todo EXCEPT ![c] = StartedRecords(NoApproval)]
        \/ /\ todo' = todo
           /\ \/ pc' = [pc EXCEPT ![c] = "presenting"]
              \/ pc' = [pc EXCEPT ![c] = "refused"]
    BY DEF Begin, Goto
  <1>3. StartedRecords(NoApproval) \in Seq(Record_)
    BY RecordTypes
  <1>4. QED
    BY <1>1, <1>2, <1>3 DEF CallIInv, CallTypeOK, AuditInv, AuditStepOK, AuditHonest, Untouched

\* Steps that only move a call on before it starts.
LEMMA MovesOn ==
    ASSUME CallIInv, AuditInv, NEW c \in Call, pc[c] \in BeforeDispatch,
           NEW place \in {"using", "refused"}, Goto(c, place),
           UNCHANGED <<paid, ran, todo, trail>>
    PROVE  AuditStepOK(c)
  BY DEF CallIInv, CallTypeOK, AuditInv, AuditStepOK, AuditHonest, Untouched, Goto

LEMMA ConsumeAudit ==
    ASSUME CallIInv, AuditInv, NEW c \in Call, ConsumeApproval(c)
    PROVE  AuditStepOK(c)
  <1> DEFINE id == request[c].approval
  <1>1. /\ pc[c] = "using" /\ id \in ApprovalId /\ ran[c] = Nothing
        /\ UNCHANGED <<ran, trail>>
    BY DEF ConsumeApproval, CallIInv, CallHonest, AuditInv, AuditHonest, BeforeDispatch, Request_
  <1>2. /\ pc' = [pc EXCEPT ![c] = "starting"] /\ paid' = [paid EXCEPT ![c] = id]
        /\ todo' = [todo EXCEPT ![c] = StartedRecords(id)]
    BY DEF ConsumeApproval, Goto
  <1>3. StartedRecords(id) \in Seq(Record_)
    BY <1>1, RecordTypes
  <1> HIDE DEF id
  <1>4. QED
    BY <1>1, <1>2, <1>3 DEF CallIInv, CallTypeOK, AuditInv, AuditStepOK, AuditHonest, Untouched

LEMMA RequestAudit ==
    ASSUME CallIInv, AuditInv, NEW c \in Call, RequestApproval(c)
    PROVE  AuditStepOK(c)
  <1>1. PICK id \in ApprovalId : todo' = [todo EXCEPT ![c] = BlockedRecords(id)]
    BY DEF RequestApproval
  <1>2. /\ pc[c] = "refused" /\ pc' = [pc EXCEPT ![c] = "reporting"]
        /\ UNCHANGED <<paid, ran, trail>>
    BY DEF RequestApproval, Goto
  <1>3. BlockedRecords(id) \in Seq(Record_)
    BY RecordTypes
  <1>4. ran[c] = Nothing
    BY <1>2 DEF AuditInv, AuditHonest, BeforeDispatch
  <1>5. QED
    BY <1>1, <1>2, <1>3, <1>4
       DEF CallIInv, CallTypeOK, AuditInv, AuditStepOK, AuditHonest, BeforeDispatch, Untouched

LEMMA WriteAudit ==
    ASSUME CallIInv, AuditInv, NEW c \in Call, Write(c)
    PROVE  AuditStepOK(c)
  <1>1. /\ todo[c] # <<>> /\ todo[c] \in Seq(Record_) /\ trail[c] \in Seq(Record_)
        /\ AuditHonest(c) /\ UNCHANGED <<pc, paid, ran>>
    BY DEF Write, AuditInv
  <1>2. Head(todo[c]) \in Record_ /\ Tail(todo[c]) \in Seq(Record_)
    BY <1>1
  <1>3. trail' = [trail EXCEPT ![c] = Append(trail[c], Head(todo[c]))]
        /\ todo' = [todo EXCEPT ![c] = Tail(todo[c])]
    BY DEF Write
  <1>4. /\ todo' \in [Call -> Seq(Record_)] /\ trail' \in [Call -> Seq(Record_)]
        /\ trail'[c] = Append(trail[c], Head(todo[c]))
        /\ \A x \in Call : x # c => Untouched(x)
    BY <1>1, <1>2, <1>3, TrailGrows DEF AuditInv, Untouched
  <1>5. ASSUME StartAudited(c) PROVE StartAudited(c)'
    BY <1>1, <1>2, <1>4, <1>5, TrailGrows DEF StartAudited
  <1>6. ASSUME todo[c] = StartedRecords(paid[c]) PROVE StartAudited(c)'
    <2>1. Head(todo[c]) = Rec("audit", "started", paid[c])
      BY <1>6, RecordTypes DEF CallIInv, CallTypeOK
    <2>2. Len(trail[c]) + 1 \in DOMAIN trail'[c]
          /\ trail'[c][Len(trail[c]) + 1] = Rec("audit", "started", paid[c])
      BY <1>1, <1>2, <1>4, <2>1, TrailGrows
    <2>3. QED
      BY <1>1, <2>2 DEF StartAudited
  <1>7. AuditHonest(c)'
    BY <1>1, <1>5, <1>6 DEF AuditHonest
  <1>8. QED
    BY <1>4, <1>7 DEF AuditStepOK

LEMMA ReportsAudit ==
    ASSUME CallIInv, AuditInv, NEW c \in Call, NEW outputs, Report(c, outputs),
           UNCHANGED <<paid, ran, trail>>
    PROVE  AuditStepOK(c)
  <1>1. CompletedRecords(outputs, paid[c]) \in Seq(Record_)
    BY CompletedType DEF CallIInv, CallTypeOK
  <1>2. /\ pc' = [pc EXCEPT ![c] = "reporting"]
        /\ todo' = [todo EXCEPT ![c] = CompletedRecords(outputs, paid[c])]
    BY DEF Report, Goto
  <1>3. /\ todo' \in [Call -> Seq(Record_)] /\ trail' \in [Call -> Seq(Record_)]
        /\ \A x \in Call : x # c => Untouched(x)
    BY <1>1, <1>2 DEF CallIInv, CallTypeOK, AuditInv, Untouched
  <1>4. pc'[c] = "reporting"
    BY <1>2 DEF CallIInv, CallTypeOK
  <1>5. AuditHonest(c)'
    BY <1>4 DEF AuditInv, AuditHonest, StartAudited, BeforeDispatch
  <1>6. QED
    BY <1>3, <1>5 DEF AuditStepOK

LEMMA DispatchAudit ==
    ASSUME CallIInv, AuditInv, NEW c \in Call, Dispatch(c)
    PROVE  AuditStepOK(c)
  <1>1. CASE \E outputs : Report(c, outputs) /\ UNCHANGED <<paid, ran, trail>>
    BY <1>1, ReportsAudit
  <1>2. CASE /\ ran' = [ran EXCEPT ![c] = ScopeOf(request[c])]
             /\ Goto(c, "running")
             /\ UNCHANGED <<todo, paid, trail>>
    <2>1. StartAudited(c)
      <3>1. pc[c] = "starting" /\ todo[c] = <<>> /\ AuditHonest(c)
        BY DEF Dispatch, AuditInv
      <3>2. StartedRecords(paid[c]) # <<>>
        BY RecordTypes DEF CallIInv, CallTypeOK
      <3>3. QED
        BY <3>1, <3>2 DEF AuditHonest
    <2>2. /\ todo' \in [Call -> Seq(Record_)] /\ trail' \in [Call -> Seq(Record_)]
          /\ \A x \in Call : x # c => Untouched(x)
      BY <1>2 DEF CallIInv, CallTypeOK, AuditInv, Untouched, Goto
    <2>3. pc'[c] = "running"
      BY <1>2 DEF CallIInv, CallTypeOK, Goto
    <2>4. AuditHonest(c)'
      BY <1>2, <2>1, <2>3 DEF AuditHonest, StartAudited, BeforeDispatch
    <2>5. QED
      BY <2>2, <2>4 DEF AuditStepOK
  <1>3. QED
    BY <1>1, <1>2 DEF Dispatch

LEMMA ExitAudit ==
    ASSUME CallIInv, AuditInv, NEW c \in Call, Exit(c)
    PROVE  AuditStepOK(c)
  BY ReportsAudit DEF Exit

LEMMA AbortAudit ==
    ASSUME CallIInv, AuditInv, NEW c \in Call, Abort(c)
    PROVE  AuditStepOK(c)
  <1>1. /\ pc' = [pc EXCEPT ![c] = "aborted"] /\ todo' = [todo EXCEPT ![c] = <<>>]
        /\ UNCHANGED <<paid, ran, trail>>
    BY DEF Abort, Goto
  <1>2. <<>> \in Seq(Record_)
    OBVIOUS
  <1>3. /\ todo' \in [Call -> Seq(Record_)] /\ trail' \in [Call -> Seq(Record_)]
        /\ \A x \in Call : x # c => Untouched(x)
    BY <1>1, <1>2 DEF CallIInv, CallTypeOK, AuditInv, Untouched
  <1>4. pc'[c] = "aborted"
    BY <1>1 DEF CallIInv, CallTypeOK
  <1>5. AuditHonest(c)'
    BY <1>1, <1>4 DEF AuditInv, AuditHonest, StartAudited, BeforeDispatch
  <1>6. QED
    BY <1>3, <1>5 DEF AuditStepOK

\* Steps that touch the records of no call.
LEMMA OthersAudit ==
    ASSUME AuditInv, UNCHANGED <<pc, paid, ran, todo, trail>>
    PROVE  AuditInv'
  <1>1. \A c \in Call : Untouched(c)
    BY DEF Untouched
  <1>2. QED
    BY <1>1, HonestyUntouched DEF AuditInv

-----------------------------------------------------------------------------
LEMMA AuditInitOK == Init => AuditInv
  <1>1. <<>> \in Seq(Record_)
    OBVIOUS
  <1>2. QED
    BY <1>1 DEF Init, AuditInv, AuditHonest

LEMMA AuditStepInv == CallIInv /\ AuditInv /\ [Next]_vars => AuditInv'
  <1> SUFFICES ASSUME CallIInv, AuditInv, [Next]_vars PROVE AuditInv'
    OBVIOUS
  <1>1. ASSUME NEW c \in Call, AuditStepOK(c) PROVE AuditInv'
    BY <1>1, HonestyUntouched DEF AuditInv, AuditStepOK
  <1>2. ASSUME NEW c \in Call, CallStep(c) PROVE AuditInv'
    <2>1. CASE PresentApproval(c) \/ ApprovalRejected(c)
      <3>1. /\ pc[c] \in BeforeDispatch /\ UNCHANGED <<paid, ran, todo, trail>>
            /\ Goto(c, "using") \/ Goto(c, "refused")
        BY <2>1 DEF PresentApproval, ApprovalRejected, BeforeDispatch
      <3>2. QED
        BY <1>1, <3>1, MovesOn
    <2>2. CASE ReadForUse(c)
      BY <2>2, OthersAudit DEF ReadForUse, callVars
    <2>3. CASE ConsumeApproval(c) \/ RequestApproval(c) \/ Write(c) \/ Dispatch(c) \/ Exit(c)
      BY <1>1, <2>3, ConsumeAudit, RequestAudit, WriteAudit, DispatchAudit, ExitAudit
    <2>4. QED
      BY <1>2, <2>1, <2>2, <2>3 DEF CallStep
  <1>3. ASSUME NEW c \in Call, Abort(c) \/ \E r \in Request_ : Begin(c, r) PROVE AuditInv'
    BY <1>1, <1>3, AbortAudit, BeginAudit
  <1>4. ASSUME NEW d \in Decider, StartDecision(d) \/ DeciderStep(d) \/ DeciderDies(d)
        PROVE  AuditInv'
    BY <1>4, OthersAudit DEF StartDecision, DeciderStep, ReadForDecision, RecordDecision,
       AnnounceDecision, DeciderDies, callVars
  <1>5. ASSUME NEW cap \in Capability, NEW m \in Manifest \cup {NoManifest},
               EditManifest(cap, m)
        PROVE  AuditInv'
    BY <1>5, OthersAudit DEF EditManifest
  <1>6. CASE UNCHANGED vars
    BY <1>6, OthersAudit DEF vars
  <1>7. QED
    BY <1>2, <1>3, <1>4, <1>5, <1>6 DEF Next

-----------------------------------------------------------------------------
\* However many calls run, wherever each is cut short: whatever ran, the audit log had
\* said it started, and which approval it spent (CapabilityExecutor.call).
THEOREM EffectsAudited == Spec => []EffectsAreAudited
  <1>1. AuditInv => EffectsAreAudited
    BY DEF AuditInv, AuditHonest, StartAudited, EffectsAreAudited
  <1>2. QED
    BY <1>1, AuditInitOK, AuditStepInv, CallInvariant, PTL DEF Spec

-----------------------------------------------------------------------------
(* Refused calls.                                                          *)

BeforeReport == BeforeDispatch \cup {"running"}

Other == {r \in Record_ : r.what # "blocked"}

\* Records a call wrote or is about to write.
LeftBy(c, r) ==
    \/ \E i \in DOMAIN trail[c] : trail[c][i] = r
    \/ \E i \in DOMAIN todo[c] : todo[c][i] = r

\* The request a refused call made, of its own and for what it tried.
Asked(c, id) ==
    /\ ran[c] = Nothing
    /\ id # request[c].approval
    /\ id \in ApprovalId /\ Known(id)
    /\ queue[id][1] = NewRequest(request[c].cap, ScopeOf(request[c]))

RefusalHonest(c) ==
    /\ pc[c] # "idle" /\ request[c].approval # NoApproval => Known(request[c].approval)
    /\ \A r \in Record_ : r.what = "blocked" /\ LeftBy(c, r) =>
           pc[c] \notin BeforeReport /\ Asked(c, r.approval)

RefusalInv == \A c \in Call : RefusalHonest(c)

LEMMA OtherTypes ==
    ASSUME NEW id \in ApprovalId \cup {NoApproval}, NEW outputs
    PROVE  /\ StartedRecords(id) \in Seq(Other)
           /\ CompletedRecords(outputs, id) \in Seq(Other)
  <1>1. /\ Rec("audit", "started", id) \in Other /\ Rec("event", "started", id) \in Other
        /\ Rec("audit", "completed", id) \in Other /\ Rec("event", "completed", id) \in Other
        /\ Rec("event", "message", NoApproval) \in Other
    BY DEF Rec, Record_, Other
  <1>2. \A kind \in {"stdout", "stderr", "parsed"} :
            /\ Rec("file", kind, NoApproval) \in Other
            /\ Rec("artifact", kind, NoApproval) \in Other
            /\ Rec("event", kind, NoApproval) \in Other
    BY DEF Rec, Record_, Other
  <1>3. \A kind \in {"stdout", "stderr", "parsed"} : ArtifactRecords(kind) \in Seq(Other)
    BY <1>2 DEF ArtifactRecords
  <1>4. <<>> \in Seq(Other)
    OBVIOUS
  <1>5. \A s, t \in Seq(Other) : s \o t \in Seq(Other)
    OBVIOUS
  <1>6. << Rec("event", "message", NoApproval), Rec("audit", "completed", id),
           Rec("event", "completed", id) >> \in Seq(Other)
    BY <1>1
  <1>7. /\ (IF "stdout" \in outputs THEN ArtifactRecords("stdout") ELSE <<>>) \in Seq(Other)
        /\ (IF "stderr" \in outputs THEN ArtifactRecords("stderr") ELSE <<>>) \in Seq(Other)
        /\ ArtifactRecords("parsed") \in Seq(Other)
    BY <1>3, <1>4
  <1>8. CompletedRecords(outputs, id) \in Seq(Other)
    BY <1>5, <1>6, <1>7 DEF CompletedRecords
  <1>9. QED
    BY <1>1, <1>8 DEF StartedRecords

\* Requests stay where they are in the file.
LEMMA RequestStays ==
    ASSUME StoreTypeOK, StoreTypeOK', QueueGrows, NEW id \in ApprovalId, Known(id)
    PROVE  Known(id)' /\ queue'[id][1] = queue[id][1]
  <1>1. queue[id] \in Seq(Line) /\ queue'[id] \in Seq(Line) /\ queue[id] # <<>>
    BY DEF StoreTypeOK, Known
  <1>2. 1 \in DOMAIN queue[id]
    BY <1>1
  <1>3. 1 \in DOMAIN queue'[id] /\ queue'[id][1] = queue[id][1]
    BY <1>2 DEF QueueGrows
  <1>4. QED
    BY <1>1, <1>3 DEF Known

\* A step after which a call has left no more records than before, and has run, asked
\* for and presented what it had.
LEMMA NoNewRecords ==
    ASSUME StoreTypeOK, StoreTypeOK', QueueGrows, CallTypeOK, NEW c \in Call,
           RefusalHonest(c), pc[c] # "idle" => request[c] \in Request_,
           request'[c] = request[c], pc[c] = "idle" <=> pc'[c] = "idle",
           pc[c] \notin BeforeReport => ran'[c] = ran[c] /\ pc'[c] \notin BeforeReport,
           \A r \in Record_ : r.what = "blocked" /\ LeftBy(c, r)' => LeftBy(c, r)
    PROVE  RefusalHonest(c)'
  <1>1. ASSUME pc'[c] # "idle", request'[c].approval # NoApproval
        PROVE  Known(request[c].approval)'
    <2>1. request[c].approval \in ApprovalId /\ Known(request[c].approval)
      BY <1>1 DEF RefusalHonest, Request_
    <2>2. QED
      BY <2>1, RequestStays
  <1>2. ASSUME NEW r \in Record_, r.what = "blocked", LeftBy(c, r)'
        PROVE  pc'[c] \notin BeforeReport /\ Asked(c, r.approval)'
    <2>1. pc[c] \notin BeforeReport /\ Asked(c, r.approval)
      BY <1>2 DEF RefusalHonest
    <2>2. Known(r.approval)' /\ queue'[r.approval][1] = queue[r.approval][1]
      BY <2>1, RequestStays DEF Asked
    <2>3. QED
      BY <2>1, <2>2 DEF Asked
  <1>3. QED
    BY <1>1, <1>2 DEF RefusalHonest

\* What a step of call c owes for NoNewRecords.
AddsNone(c) ==
    /\ request'[c] = request[c]
    /\ pc[c] = "idle" <=> pc'[c] = "idle"
    /\ pc[c] \notin BeforeReport => ran'[c] = ran[c] /\ pc'[c] \notin BeforeReport
    /\ \A r \in Record_ : r.what = "blocked" /\ LeftBy(c, r)' => LeftBy(c, r)

\* About to write records that are no refusals, a call has left none more.
LEMMA OthersAddNone ==
    ASSUME AuditInv, NEW c \in Call, NEW s \in Seq(Other),
           todo' = [todo EXCEPT ![c] = s], trail' = trail
    PROVE  \A r \in Record_ : r.what = "blocked" /\ LeftBy(c, r)' => LeftBy(c, r)
  <1>1. todo'[c] = s /\ \A i \in DOMAIN s : s[i].what # "blocked"
    BY DEF AuditInv, Other
  <1>2. QED
    BY <1>1 DEF LeftBy

LEMMA ReportAddsNone ==
    ASSUME CallIInv, AuditInv, NEW c \in Call, NEW outputs, Report(c, outputs),
           pc[c] \in BeforeReport, pc[c] # "idle", trail' = trail, request' = request
    PROVE  AddsNone(c)
  <1>1. CompletedRecords(outputs, paid[c]) \in Seq(Other)
    BY OtherTypes DEF CallIInv, CallTypeOK
  <1>2. todo' = [todo EXCEPT ![c] = CompletedRecords(outputs, paid[c])]
        /\ pc'[c] = "reporting"
    BY DEF Report, Goto, CallIInv, CallTypeOK
  <1>3. QED
    BY <1>1, <1>2, OthersAddNone DEF AddsNone

LEMMA WriteMovesRecords ==
    ASSUME AuditInv, NEW c \in Call, Write(c)
    PROVE  \A r : LeftBy(c, r)' => LeftBy(c, r)
  <1>1. /\ todo[c] # <<>> /\ todo[c] \in Seq(Record_) /\ trail[c] \in Seq(Record_)
        /\ trail'[c] = Append(trail[c], Head(todo[c])) /\ todo'[c] = Tail(todo[c])
        /\ UNCHANGED <<pc, request, ran>>
    BY DEF Write, AuditInv
  <1>2. ASSUME NEW r, LeftBy(c, r)' PROVE LeftBy(c, r)
    <2>1. CASE \E i \in DOMAIN trail'[c] : trail'[c][i] = r
      <3>1. PICK i \in DOMAIN trail'[c] : trail'[c][i] = r
        BY <2>1
      <3>2. CASE i \in DOMAIN trail[c]
        BY <1>1, <3>1, <3>2 DEF LeftBy
      <3>3. CASE i \notin DOMAIN trail[c]
        <4>1. r = todo[c][1] /\ 1 \in DOMAIN todo[c]
          BY <1>1, <3>1, <3>3
        <4>2. QED
          BY <4>1 DEF LeftBy
      <3>4. QED
        BY <3>2, <3>3
    <2>2. CASE \E i \in DOMAIN todo'[c] : todo'[c][i] = r
      <3>1. PICK i \in DOMAIN todo'[c] : todo'[c][i] = r
        BY <2>2
      <3>2. i + 1 \in DOMAIN todo[c] /\ todo[c][i + 1] = r
        BY <1>1, <3>1
      <3>3. QED
        BY <3>2 DEF LeftBy
    <2>3. QED
      BY <1>2, <2>1, <2>2 DEF LeftBy
  <1>3. QED
    BY <1>2

LEMMA WriteAddsNone ==
    ASSUME AuditInv, NEW c \in Call, Write(c)
    PROVE  AddsNone(c)
  BY WriteMovesRecords DEF Write, AddsNone

LEMMA AbortAddsNone ==
    ASSUME CallIInv, AuditInv, NEW c \in Call, Abort(c)
    PROVE  AddsNone(c)
  <1>1. /\ pc'[c] = "aborted" /\ pc[c] # "idle" /\ todo' = [todo EXCEPT ![c] = <<>>]
        /\ UNCHANGED <<request, ran, trail>>
    BY DEF Abort, Goto, CallIInv, CallTypeOK
  <1>2. <<>> \in Seq(Other)
    OBVIOUS
  <1>3. QED
    BY <1>1, <1>2, OthersAddNone DEF AddsNone, BeforeReport, BeforeDispatch

LEMMA StepAddsNone ==
    ASSUME CallIInv, AuditInv, NEW c \in Call, CallStep(c), ~RequestApproval(c)
    PROVE  AddsNone(c)
  <1>1. CASE PresentApproval(c) \/ ApprovalRejected(c) \/ ReadForUse(c)
    <2>1. /\ pc[c] \in BeforeReport \ {"idle"} /\ UNCHANGED <<request, todo, trail>>
          /\ pc'[c] # "idle"
      BY <1>1 DEF PresentApproval, ApprovalRejected, ReadForUse, callVars, Goto,
                  BeforeReport, BeforeDispatch, CallIInv, CallTypeOK
    <2>2. QED
      BY <2>1 DEF AddsNone, LeftBy
  <1>2. CASE ConsumeApproval(c)
    <2>1. /\ pc[c] = "using" /\ pc'[c] = "starting" /\ UNCHANGED <<request, trail>>
          /\ todo' = [todo EXCEPT ![c] = StartedRecords(request[c].approval)]
      BY <1>2 DEF ConsumeApproval, Goto, CallIInv, CallTypeOK
    <2>2. request[c].approval \in ApprovalId
      BY <2>1 DEF CallIInv, CallHonest, Request_
    <2>3. StartedRecords(request[c].approval) \in Seq(Other)
      BY <2>2, OtherTypes
    <2>4. QED
      BY <2>1, <2>3, OthersAddNone DEF AddsNone, BeforeReport, BeforeDispatch
  <1>3. CASE Write(c)
    BY <1>3, WriteAddsNone
  <1>4. CASE Exit(c)
    BY <1>4, ReportAddsNone DEF Exit, BeforeReport
  <1>5. CASE Dispatch(c)
    <2>1. /\ pc[c] = "starting" /\ UNCHANGED <<request, trail>>
          /\ \/ \E outputs : Report(c, outputs)
             \/ Goto(c, "running") /\ todo' = todo
      BY <1>5 DEF Dispatch
    <2>2. CASE \E outputs : Report(c, outputs)
      BY <2>1, <2>2, ReportAddsNone DEF BeforeReport, BeforeDispatch
    <2>3. CASE Goto(c, "running") /\ todo' = todo
      BY <2>1, <2>3 DEF AddsNone, LeftBy, Goto, CallIInv, CallTypeOK,
                        BeforeReport, BeforeDispatch
    <2>4. QED
      BY <2>1, <2>2, <2>3
  <1>6. QED
    BY <1>1, <1>2, <1>3, <1>4, <1>5 DEF CallStep

-----------------------------------------------------------------------------
\* A call that begins has left nothing; its approval is in the file.
LEMMA BeginRefusal ==
    ASSUME CallIInv, AuditInv, RefusalInv, NEW c \in Call, NEW r \in Request_, Begin(c, r)
    PROVE  RefusalHonest(c)'
  <1>1. /\ pc[c] = "idle" /\ request'[c] = r
        /\ r.approval # NoApproval => Known(r.approval)
        /\ queue' = queue /\ trail' = trail
        /\ todo' = todo \/ todo' = [todo EXCEPT ![c] = StartedRecords(NoApproval)]
    BY DEF Begin, storeVars, CallIInv, CallTypeOK
  <1>2. StartedRecords(NoApproval) \in Seq(Other)
    BY OtherTypes
  <1>3. \A x \in Record_ : x.what = "blocked" /\ LeftBy(c, x)' => LeftBy(c, x)
    <2>1. CASE todo' = todo
      BY <1>1, <2>1 DEF LeftBy
    <2>2. CASE todo' = [todo EXCEPT ![c] = StartedRecords(NoApproval)]
      BY <1>1, <1>2, <2>2, OthersAddNone
    <2>3. QED
      BY <1>1, <2>1, <2>2
  <1>4. \A x \in Record_ : x.what = "blocked" => ~LeftBy(c, x)'
    BY <1>1, <1>3 DEF RefusalInv, RefusalHonest, BeforeReport, BeforeDispatch
  <1>5. request'[c].approval # NoApproval => Known(request[c].approval)'
    BY <1>1 DEF Known
  <1>6. QED
    BY <1>4, <1>5 DEF RefusalHonest

\* The request a refused call adds is not the approval it presented: that one was there.
LEMMA RequestRefusal ==
    ASSUME CallIInv, AuditInv, RefusalInv, NEW c \in Call, RequestApproval(c), QueueGrows,
           StoreTypeOK'
    PROVE  RefusalHonest(c)'
  <1> DEFINE r == request[c]
  <1>1. PICK id \in ApprovalId : /\ Request(c, id, r.cap, ScopeOf(r))
                                 /\ todo' = [todo EXCEPT ![c] = BlockedRecords(id)]
    BY DEF RequestApproval
  <1>2. /\ pc[c] = "refused" /\ pc'[c] = "reporting"
        /\ UNCHANGED <<request, ran, trail>> /\ ran[c] = Nothing
        /\ r \in Request_ /\ trail'[c] = trail[c]
        /\ r.approval # NoApproval => Known(r.approval)
    BY DEF RequestApproval, Goto, CallIInv, CallTypeOK, CallHonest, AuditInv, AuditHonest,
           BeforeDispatch, RefusalInv, RefusalHonest
  <1>3. ~Known(id) /\ queue[id] = <<>> /\ queue'[id] = <<NewRequest(r.cap, ScopeOf(r))>>
    <2>1. ~Known(id) /\ queue[id] = <<>>
      BY <1>1 DEF Request, Known
    <2>2. queue'[id] = Append(queue[id], NewRequest(r.cap, ScopeOf(r)))
      BY <1>1 DEF Request, AppendLine, CallIInv, StoreIInv, StoreTypeOK
    <2>3. QED
      BY <2>1, <2>2
  <1>4. id # r.approval
    BY <1>2, <1>3, CallAssumption
  <1>5. Asked(c, id)'
    BY <1>2, <1>3, <1>4 DEF Asked, Known
  <1>6. ASSUME NEW x \in Record_, x.what = "blocked", LeftBy(c, x)'
        PROVE  x.approval = id
    <2>1. ~\E i \in DOMAIN trail[c] : trail[c][i] = x
      BY <1>2, <1>6 DEF RefusalInv, RefusalHonest, LeftBy, BeforeReport, BeforeDispatch
    <2>2. PICK i \in DOMAIN todo'[c] : todo'[c][i] = x
      BY <1>2, <1>6, <2>1 DEF LeftBy
    <2>3. todo'[c] = BlockedRecords(id)
      BY <1>1 DEF AuditInv
    <2>4. QED
      BY <2>2, <2>3 DEF BlockedRecords, Rec
  <1>7. r.approval # NoApproval => Known(r.approval)'
    <2>1. r.approval \in ApprovalId \cup {NoApproval}
      BY <1>2 DEF Request_
    <2>2. QED
      BY <1>2, <2>1, RequestStays DEF CallIInv, StoreIInv
  <1>8. QED
    BY <1>2, <1>5, <1>6, <1>7 DEF RefusalHonest, BeforeReport, BeforeDispatch

LEMMA FileGrows ==
    ASSUME CallIInv, [Next]_vars
    PROVE  QueueGrows /\ StoreTypeOK'
  <1>1. StoreTypeOK'
    BY CallStepInv DEF CallIInv, StoreIInv
  <1>2. CASE Next
    BY <1>1, <1>2, NextOK DEF OutsideStepOK, CallStepOK
  <1>3. CASE UNCHANGED vars
    BY <1>1, <1>3, SameFileGrows DEF vars
  <1>4. QED
    BY <1>2, <1>3

LEMMA RefusalKept ==
    ASSUME CallIInv, RefusalInv, QueueGrows, StoreTypeOK', NEW c \in Call, AddsNone(c)
    PROVE  RefusalHonest(c)'
  BY NoNewRecords DEF CallIInv, StoreIInv, CallHonest, RefusalInv, AddsNone

\* Whoever steps leaves the others' requests and records alone.
LEMMA OneCallAtATime ==
    ASSUME CallIInv, AuditInv, NEW c \in Call,
           CallStep(c) \/ Abort(c) \/ \E r \in Request_ : Begin(c, r)
    PROVE  \A x \in Call : x # c => AddsNone(x)
  <1>1. \A x \in Call : x # c => Undisturbed(x)
    BY BeginOK, AbortOK, PresentApprovalOK, RejectedOK, ReadForUseOK, ConsumeApprovalOK,
       RequestApprovalOK, WriteOK, DispatchOK, ExitOK DEF CallStepOK, CallStep
  <1>2. \A x \in Call : x # c => todo'[x] = todo[x] /\ trail'[x] = trail[x]
    BY DEF AuditInv, CallStep, PresentApproval, ApprovalRejected, ReadForUse, callVars,
       ConsumeApproval, RequestApproval, Write, Dispatch, Exit, Report, Abort, Begin
  <1>3. QED
    BY <1>1, <1>2 DEF Undisturbed, AddsNone, LeftBy

LEMMA RefusalStepInv == CallIInv /\ AuditInv /\ RefusalInv /\ [Next]_vars => RefusalInv'
  <1> SUFFICES ASSUME CallIInv, AuditInv, RefusalInv, [Next]_vars PROVE RefusalInv'
    OBVIOUS
  <1>1. QueueGrows /\ StoreTypeOK'
    BY FileGrows
  <1>2. ASSUME NEW c \in Call, CallStep(c) \/ Abort(c) \/ \E r \in Request_ : Begin(c, r)
        PROVE  RefusalInv'
    <2>1. \A x \in Call : x # c => RefusalHonest(x)'
      BY <1>1, <1>2, OneCallAtATime, RefusalKept
    <2>2. RefusalHonest(c)'
      <3>1. CASE RequestApproval(c)
        BY <1>1, <3>1, RequestRefusal
      <3>2. CASE CallStep(c) /\ ~RequestApproval(c)
        BY <1>1, <3>2, StepAddsNone, RefusalKept
      <3>3. CASE Abort(c)
        BY <1>1, <3>3, AbortAddsNone, RefusalKept
      <3>4. CASE \E r \in Request_ : Begin(c, r)
        BY <3>4, BeginRefusal
      <3>5. QED
        BY <1>2, <3>1, <3>2, <3>3, <3>4
    <2>3. QED
      BY <2>1, <2>2 DEF RefusalInv
  <1>3. CASE UNCHANGED <<pc, request, ran, todo, trail>>
    <2>1. \A c \in Call : AddsNone(c)
      BY <1>3 DEF AddsNone, LeftBy
    <2>2. QED
      BY <1>1, <2>1, RefusalKept DEF RefusalInv
  <1>4. ASSUME NEW d \in Decider, StartDecision(d) \/ DeciderStep(d) \/ DeciderDies(d)
        PROVE  RefusalInv'
    BY <1>3, <1>4 DEF StartDecision, DeciderStep, ReadForDecision, RecordDecision,
       AnnounceDecision, DeciderDies, callVars
  <1>5. ASSUME NEW cap \in Capability, NEW m \in Manifest \cup {NoManifest},
               EditManifest(cap, m)
        PROVE  RefusalInv'
    BY <1>3, <1>5 DEF EditManifest
  <1>6. QED
    BY <1>2, <1>3, <1>4, <1>5 DEF Next, vars

\* However many calls, deciders and edits interleave: a refused call ran nothing, and
\* its records name a request of its own for exactly what it tried, never the approval
\* it had presented (CapabilityExecutor.call).
THEOREM RefusalsAsk == Spec => []RefusalsAskAnew
  <1>1. Init => RefusalInv
    BY DEF Init, RefusalInv, RefusalHonest, LeftBy
  <1>2. AuditInv /\ RefusalInv => RefusalsAskAnew
    <2> SUFFICES ASSUME AuditInv, RefusalInv, NEW c \in Call, NEW i \in DOMAIN trail[c],
                        trail[c][i].what = "blocked"
                 PROVE  Asked(c, trail[c][i].approval)
      BY DEF RefusalsAskAnew, Asked
    <2>1. trail[c][i] \in Record_ /\ LeftBy(c, trail[c][i])
      BY DEF AuditInv, LeftBy
    <2>2. QED
      BY <2>1 DEF RefusalInv, RefusalHonest
  <1>3. QED
    BY <1>1, <1>2, RefusalStepInv, AuditInitOK, AuditStepInv, CallInvariant, PTL DEF Spec
-----------------------------------------------------------------------------
(* Uses.                                                                   *)

Payers(id) == {c \in Call : paid[c] = id}

\* Nobody pays before it consumes, and only a call's frame makes a use.
UseHonest ==
    /\ \A c \in Call : pc[c] \in {"idle", "presenting", "using"} => paid[c] = NoApproval
    /\ \A c \in Call : pc[c] = "using" => frame[c].to = "used"
    /\ \A d \in Decider : frame[d] # Idle => frame[d].to \in {"approved", "denied"}

UseInv == UseHonest /\ UsesAreAccounted

LEMMA CallsAreFinite == IsFiniteSet(Call)
  BY FS_Subset, CallAssumption, StoreAssumption

\* What a line added to the file does to the lines of a status.
LEMMA LinesAfterAppend ==
    ASSUME StoreTypeOK, NEW id \in ApprovalId, NEW line \in Line, AppendLine(id, line),
           NEW x \in ApprovalId
    PROVE  /\ IsFiniteSet(LinesWith(x, "used"))
           /\ LinesWith(x, "used")' =
                LinesWith(x, "used")
                    \cup IF x = id /\ line.status = "used" THEN {Len(queue[id]) + 1} ELSE {}
           /\ Len(queue[id]) + 1 \notin LinesWith(id, "used")
  <1>1. queue[x] \in Seq(Line) /\ queue[id] \in Seq(Line)
    BY DEF StoreTypeOK
  <1>2. queue' = [queue EXCEPT ![id] = Append(queue[id], line)]
    BY DEF AppendLine
  <1>3. IsFiniteSet(LinesWith(x, "used"))
    <2>1. LinesWith(x, "used") \subseteq 1..Len(queue[x])
      BY <1>1 DEF LinesWith
    <2>2. IsFiniteSet(1..Len(queue[x]))
      BY <1>1, FS_Interval
    <2>3. QED
      BY <2>1, <2>2, FS_Subset
  <1>4. CASE x # id
    BY <1>1, <1>2, <1>3, <1>4 DEF LinesWith, StoreTypeOK
  <1>5. CASE x = id
    <2>1. queue'[id] = Append(queue[id], line)
      BY <1>2 DEF StoreTypeOK
    <2>2. QED
      BY <1>1, <1>3, <1>5, <2>1 DEF LinesWith
  <1>6. QED
    BY <1>4, <1>5

\* A line that is no use leaves the account as it is.
LEMMA OtherLine ==
    ASSUME StoreTypeOK, UsesAreAccounted, NEW id \in ApprovalId, NEW line \in Line,
           AppendLine(id, line), line.status # "used", UNCHANGED paid
    PROVE  UsesAreAccounted'
  <1>1. \A x \in ApprovalId : LinesWith(x, "used")' = LinesWith(x, "used")
    BY LinesAfterAppend
  <1>2. QED
    BY <1>1 DEF UsesAreAccounted

LEMMA SameAccount ==
    ASSUME UsesAreAccounted, UNCHANGED <<queue, paid>>
    PROVE  UsesAreAccounted'
  BY DEF UsesAreAccounted, LinesWith

\* A call that consumes its approval adds one use and one payer.
LEMMA ConsumeAccounts ==
    ASSUME CallIInv, UseInv, NEW c \in Call, ConsumeApproval(c)
    PROVE  UsesAreAccounted'
  <1> DEFINE id == request[c].approval
             line == Transitioned(frame[c].record, frame[c].to)
  <1>1. /\ c \in Client /\ pc[c] = "using" /\ Commit(c) /\ frame[c] # Idle
        /\ frame[c].id = id /\ frame[c].to = "used" /\ paid[c] = NoApproval
    BY CallsAreClients DEF ConsumeApproval, CallIInv, CallHonest, UseInv, UseHonest
  <1>2. /\ id \in ApprovalId /\ frame[c].record \in Line
    BY <1>1, BusyFrame DEF Commit, CallIInv
  <1>3. line \in Line /\ line.status = "used"
    BY <1>1, <1>2, TransitionedType DEF Status
  <1>4. AppendLine(id, line) /\ paid' = [paid EXCEPT ![c] = id]
    BY <1>1 DEF Commit, ConsumeApproval
  <1>5. id # NoApproval /\ paid \in [Call -> ApprovalId \cup {NoApproval}]
    BY <1>2, CallAssumption DEF CallIInv, CallTypeOK
  <1> HIDE DEF id, line
  <1>6. ASSUME NEW x \in ApprovalId
        PROVE  Cardinality(LinesWith(x, "used"))' = Cardinality(Payers(x)')
    <2>1. /\ IsFiniteSet(LinesWith(x, "used"))
          /\ LinesWith(x, "used")' = LinesWith(x, "used")
                \cup IF x = id THEN {Len(queue[id]) + 1} ELSE {}
          /\ Len(queue[id]) + 1 \notin LinesWith(id, "used")
      BY <1>2, <1>3, <1>4, LinesAfterAppend DEF CallIInv, StoreIInv
    <2>2. Cardinality(LinesWith(x, "used")) = Cardinality(Payers(x)) /\ IsFiniteSet(Payers(x))
      BY CallsAreFinite, FS_Subset DEF UseInv, UsesAreAccounted, Payers
    <2>3. x # NoApproval
      BY CallAssumption
    <2>4. CASE x # id
      <3>1. Payers(x)' = Payers(x)
        BY <1>1, <1>4, <1>5, <2>3, <2>4 DEF Payers
      <3>2. QED
        BY <2>1, <2>2, <2>4, <3>1
    <2>5. CASE x = id
      <3>1. Payers(x)' = Payers(x) \cup {c} /\ c \notin Payers(x)
        BY <1>1, <1>4, <1>5, <2>3, <2>5 DEF Payers
      <3>2. Cardinality(Payers(x)') = Cardinality(Payers(x)) + 1
        BY <2>2, <3>1, FS_AddElement
      <3>3. Cardinality(LinesWith(x, "used")') = Cardinality(LinesWith(x, "used")) + 1
        BY <2>1, <2>5, FS_AddElement
      <3>4. QED
        BY <2>2, <3>2, <3>3
    <2>6. QED
      BY <2>4, <2>5
  <1>7. QED
    BY <1>6 DEF UsesAreAccounted, Payers

\* The frames of calls and deciders, and what calls pay.
LEMMA UseHonestKept ==
    ASSUME CallIInv, UseInv, [Next]_vars
    PROVE  UseHonest'
  <1>1. /\ \A c \in Call : c \in Client
        /\ \A d \in Decider : d \in Client
        /\ \A c \in Call, d \in Decider : c # d
    BY CallsAreClients
  <1>2. /\ pc \in [Call -> {pc[x] : x \in Call}] /\ paid \in [Call -> {paid[x] : x \in Call}]
        /\ frame \in [Client -> {frame[x] : x \in Client}]
    BY DEF CallIInv, CallTypeOK, StoreIInv, StoreTypeOK
  <1>3. ASSUME NEW c \in Call, CallStep(c) PROVE UseHonest'
    <2>1. CASE PresentApproval(c)
      <3>1. /\ frame' = [frame EXCEPT ![c] =
                            [at |-> "checked", id |-> request[c].approval, to |-> "used"]]
            /\ pc[c] = "presenting" /\ pc' = [pc EXCEPT ![c] = "using"] /\ paid' = paid
        BY <2>1 DEF PresentApproval, Use, Enter, Goto
      <3>2. QED
        BY <1>1, <1>2, <3>1 DEF UseInv, UseHonest
    <2>2. CASE ReadForUse(c)
      <3>1. /\ frame' = [frame EXCEPT ![c] =
                            [at |-> "copied", id |-> frame[c].id, to |-> frame[c].to,
                             record |-> Latest(frame[c].id)]]
            /\ pc[c] = "using" /\ UNCHANGED <<pc, paid>>
        BY <2>2 DEF ReadForUse, Copy, callVars
      <3>2. frame'[c].to = frame[c].to /\ \A x \in Client : x # c => frame'[x] = frame[x]
        BY <1>1, <1>2, <3>1
      <3>3. QED
        BY <1>1, <3>1, <3>2 DEF UseInv, UseHonest
    <2>3. CASE ConsumeApproval(c)
      <3>1. /\ frame' = [frame EXCEPT ![c] = Idle] /\ pc' = [pc EXCEPT ![c] = "starting"]
            /\ paid' = [paid EXCEPT ![c] = request[c].approval]
        BY <2>3 DEF ConsumeApproval, Commit, Goto
      <3>2. QED
        BY <1>1, <1>2, <3>1 DEF UseInv, UseHonest
    <2>4. CASE \/ ApprovalRejected(c) \/ RequestApproval(c) \/ Write(c) \/ Dispatch(c)
               \/ Exit(c)
      <3>1. UNCHANGED <<frame, paid>>
        BY <2>4 DEF ApprovalRejected, RequestApproval, Request, Write, Dispatch, Exit, storeVars
      <3>2. pc' = pc \/ \E place \in {"refused", "reporting", "running"} :
                            pc' = [pc EXCEPT ![c] = place]
        BY <2>4 DEF ApprovalRejected, RequestApproval, Write, Dispatch, Exit, Report, Goto
      <3>3. QED
        BY <1>1, <1>2, <3>1, <3>2 DEF UseInv, UseHonest
    <2>5. QED
      BY <1>3, <2>1, <2>2, <2>3, <2>4 DEF CallStep
  <1>4. ASSUME NEW c \in Call, Abort(c) PROVE UseHonest'
    <2>1. /\ frame' = [frame EXCEPT ![c] = Idle] /\ pc' = [pc EXCEPT ![c] = "aborted"]
          /\ paid' = paid
      BY <1>4 DEF Abort, Goto
    <2>2. QED
      BY <1>1, <1>2, <2>1 DEF UseInv, UseHonest
  <1>5. ASSUME NEW c \in Call, NEW r \in Request_, Begin(c, r) PROVE UseHonest'
    <2>1. /\ UNCHANGED <<frame, paid>> /\ pc[c] = "idle"
          /\ \E place \in {"starting", "presenting", "refused"} :
                pc' = [pc EXCEPT ![c] = place]
      BY <1>5 DEF Begin, Goto, storeVars
    <2>2. QED
      BY <1>1, <1>2, <2>1 DEF UseInv, UseHonest
  <1>6. ASSUME NEW d \in Decider, StartDecision(d) \/ DeciderStep(d) \/ DeciderDies(d)
        PROVE  UseHonest'
    <2>1. UNCHANGED <<pc, paid>>
      BY <1>6 DEF StartDecision, DeciderStep, ReadForDecision, RecordDecision,
         AnnounceDecision, DeciderDies, callVars
    <2>2. \/ frame' = frame
          \/ \E f : /\ frame' = [frame EXCEPT ![d] = f]
                    /\ f # Idle => f.to \in {"approved", "denied"}
      <3>1. CASE StartDecision(d)
        <4>1. PICK id \in ApprovalId, decision \in {"approved", "denied"} :
                  frame' = [frame EXCEPT ![d] = [at |-> "checked", id |-> id, to |-> decision]]
          BY <3>1 DEF StartDecision, Decide, Enter
        <4> DEFINE f == [at |-> "checked", id |-> id, to |-> decision]
        <4>2. frame' = [frame EXCEPT ![d] = f] /\ f.to \in {"approved", "denied"}
          BY <4>1
        <4> HIDE DEF f
        <4>3. QED
          BY <4>2
      <3>2. CASE ReadForDecision(d)
        <4>1. frame[d] # Idle /\ frame[d].to \in {"approved", "denied"}
          BY <3>2 DEF ReadForDecision, Copy, Idle, UseInv, UseHonest
        <4> DEFINE f == [at |-> "copied", id |-> frame[d].id, to |-> frame[d].to,
                         record |-> Latest(frame[d].id)]
        <4>2. frame' = [frame EXCEPT ![d] = f]
          BY <3>2 DEF ReadForDecision, Copy
        <4>3. f.to \in {"approved", "denied"}
          BY <4>1
        <4> HIDE DEF f
        <4>4. QED
          BY <4>2, <4>3
      <3>3. CASE RecordDecision(d) \/ DeciderDies(d)
        BY <3>3 DEF RecordDecision, Commit, DeciderDies
      <3>4. CASE AnnounceDecision(d)
        BY <3>4 DEF AnnounceDecision, storeVars
      <3>5. QED
        BY <1>6, <3>1, <3>2, <3>3, <3>4 DEF DeciderStep
    <2>3. CASE frame' = frame
      BY <2>1, <2>3 DEF UseInv, UseHonest
    <2>4. ASSUME NEW f, frame' = [frame EXCEPT ![d] = f],
                 f # Idle => f.to \in {"approved", "denied"}
          PROVE  UseHonest'
      <3>1. frame'[d] = f /\ \A x \in Client : x # d => frame'[x] = frame[x]
        BY <1>1, <1>2, <2>4
      <3>2. \A c \in Call : frame'[c] = frame[c]
        BY <1>1, <3>1
      <3>3. \A x \in Decider : frame'[x] # Idle => frame'[x].to \in {"approved", "denied"}
        BY <1>1, <2>4, <3>1 DEF UseInv, UseHonest
      <3>4. QED
        BY <2>1, <3>2, <3>3 DEF UseInv, UseHonest
    <2>5. QED
      BY <2>2, <2>3, <2>4
  <1>7. CASE UNCHANGED <<pc, paid, frame>>
    BY <1>7 DEF UseInv, UseHonest
  <1>8. ASSUME NEW cap \in Capability, NEW m \in Manifest \cup {NoManifest},
               EditManifest(cap, m)
        PROVE  UseHonest'
    BY <1>7, <1>8 DEF EditManifest, storeVars
  <1>9. QED
    BY <1>3, <1>4, <1>5, <1>6, <1>7, <1>8 DEF Next, vars

LEMMA UseStepInv == CallIInv /\ UseInv /\ [Next]_vars => UseInv'
  <1> SUFFICES ASSUME CallIInv, UseInv, [Next]_vars PROVE UsesAreAccounted'
    BY UseHonestKept DEF UseInv
  <1>1. ASSUME NEW c \in Call, RequestApproval(c) PROVE UsesAreAccounted'
    <2>1. /\ request[c].cap \in Capability /\ ScopeOf(request[c]) \in Scope
      BY <1>1, ScopeOfType DEF RequestApproval, CallIInv, CallHonest, Request_
    <2>2. PICK id \in ApprovalId :
              AppendLine(id, NewRequest(request[c].cap, ScopeOf(request[c])))
      BY <1>1 DEF RequestApproval, Request
    <2>3. NewRequest(request[c].cap, ScopeOf(request[c])) \in Line
      BY <2>1, NewRequestType
    <2>4. NewRequest(request[c].cap, ScopeOf(request[c])).status # "used"
      BY DEF NewRequest
    <2>5. paid' = paid
      BY <1>1 DEF RequestApproval
    <2>6. QED
      BY <2>2, <2>3, <2>4, <2>5, OtherLine DEF CallIInv, StoreIInv, UseInv
  <1>2. ASSUME NEW d \in Decider, RecordDecision(d) PROVE UsesAreAccounted'
    <2>1. d \in Client /\ Commit(d) /\ frame[d] # Idle
      BY <1>2, CallsAreClients DEF RecordDecision, Commit, Idle
    <2>2. /\ frame[d].id \in ApprovalId /\ frame[d].record \in Line /\ frame[d].to \in Status
          /\ frame[d].to # "used"
      BY <2>1, BusyFrame DEF Commit, CallIInv, UseInv, UseHonest
    <2>3. /\ Transitioned(frame[d].record, frame[d].to) \in Line
          /\ Transitioned(frame[d].record, frame[d].to).status # "used"
      BY <2>2, TransitionedType
    <2>4. paid' = paid
      BY <1>2 DEF RecordDecision
    <2>5. QED
      BY <2>1, <2>2, <2>3, <2>4, OtherLine DEF Commit, CallIInv, StoreIInv, UseInv
  <1>3. CASE UNCHANGED <<queue, paid>>
    BY <1>3, SameAccount DEF UseInv
  <1>4. ASSUME NEW c \in Call, CallStep(c) \/ Abort(c) \/ \E r \in Request_ : Begin(c, r)
        PROVE  UsesAreAccounted'
    <2>1. CASE \/ PresentApproval(c) \/ ApprovalRejected(c) \/ ReadForUse(c) \/ Write(c)
               \/ Dispatch(c) \/ Exit(c) \/ Abort(c) \/ \E r \in Request_ : Begin(c, r)
      BY <1>3, <2>1 DEF PresentApproval, Use, Enter, ApprovalRejected, ReadForUse, Copy, Write,
         Dispatch, Exit, Abort, Begin, storeVars, callVars
    <2>2. QED
      BY <1>1, <1>4, <2>1, ConsumeAccounts DEF CallStep
  <1>5. ASSUME NEW d \in Decider, StartDecision(d) \/ DeciderStep(d) \/ DeciderDies(d)
        PROVE  UsesAreAccounted'
    <2>1. CASE StartDecision(d) \/ ReadForDecision(d) \/ AnnounceDecision(d) \/ DeciderDies(d)
      BY <1>3, <2>1 DEF StartDecision, Decide, Enter, ReadForDecision, Copy, AnnounceDecision,
         DeciderDies, storeVars, callVars
    <2>2. QED
      BY <1>2, <1>5, <2>1 DEF DeciderStep
  <1>6. ASSUME NEW cap \in Capability, NEW m \in Manifest \cup {NoManifest},
               EditManifest(cap, m)
        PROVE  UsesAreAccounted'
    BY <1>3, <1>6 DEF EditManifest, storeVars
  <1>7. QED
    BY <1>3, <1>4, <1>5, <1>6 DEF Next, vars

\* Before any call, nothing is used and nobody has paid.
LEMMA UseInitOK == Init => UseInv
  <1> SUFFICES ASSUME Init PROVE UseInv
    OBVIOUS
  <1>1. UseHonest
    BY CallsAreClients DEF Init, StoreInit, UseHonest
  <1>2. ASSUME NEW id \in ApprovalId
        PROVE  LinesWith(id, "used") = {} /\ Payers(id) = {}
    <2>1. queue[id] = <<>> \/ \E cap \in Capability, scope \in Scope \cup {NoScope} :
                                  queue[id] = <<NewRequest(cap, scope)>>
      BY DEF Init, StoreInit
    <2>2. LinesWith(id, "used") = {}
      <3>1. CASE queue[id] = <<>>
        BY <3>1 DEF LinesWith
      <3>2. ASSUME NEW cap \in Capability, NEW scope \in Scope \cup {NoScope},
                   queue[id] = <<NewRequest(cap, scope)>>
            PROVE  LinesWith(id, "used") = {}
        <4>1. \A i \in DOMAIN queue[id] : queue[id][i] = NewRequest(cap, scope)
          BY <3>2
        <4>2. NewRequest(cap, scope).status = "pending"
          BY DEF NewRequest
        <4>3. QED
          BY <4>1, <4>2 DEF LinesWith
      <3>3. QED
        BY <2>1, <3>1, <3>2
    <2>3. Payers(id) = {}
      BY CallAssumption DEF Init, Payers
    <2>4. QED
      BY <2>2, <2>3
  <1>3. UsesAreAccounted
    BY <1>2 DEF UsesAreAccounted, Payers
  <1>4. QED
    BY <1>1, <1>3 DEF UseInv

\* However operations overlap and wherever calls are cut short, the file holds as many
\* uses of an approval as calls went ahead on it (CapabilityExecutor.call, use).
THEOREM UsesAccounted == Spec => []UsesAreAccounted
  <1>1. UseInv => UsesAreAccounted
    BY DEF UseInv
  <1>2. QED
    BY <1>1, UseInitOK, UseStepInv, CallInvariant, PTL DEF Spec

\* As many calls go ahead on an approval as the file marks it used: with n store operations
\* under way at a time, no more than n for each time the approval was recorded, so that a
\* decision does not authorise calls without end (executor.py:57-73, store.py:105-154).
THEOREM SpendingIsBounded ==
    Spec => [](\A id \in ApprovalId :
                   Cardinality({c \in Call : paid[c] = id})
                       <= MaxInFlight * Cardinality(LinesWith(id, "approved")))
  <1>1. UsesAreAccounted /\ OverlapBounded =>
            \A id \in ApprovalId :
                Cardinality({c \in Call : paid[c] = id})
                    <= MaxInFlight * Cardinality(LinesWith(id, "approved"))
    BY DEF UsesAreAccounted, OverlapBounded
  <1>2. QED
    BY <1>1, UsesAccounted, CallsUseTheStore, OverlapsAreBounded, PTL

\* When store operations do not overlap, no two calls go ahead on one approval.
THEOREM SerialCallsPayOnce ==
    ASSUME MaxInFlight = 1
    PROVE  Spec => [](\A c, d \in Call : paid[c] # NoApproval /\ paid[c] = paid[d] => c = d)
  <1>1. TypeOK /\ UsesAreAccounted /\ SingleUse =>
            \A c, d \in Call : paid[c] # NoApproval /\ paid[c] = paid[d] => c = d
    <2> SUFFICES ASSUME TypeOK, UsesAreAccounted, SingleUse, NEW c \in Call, NEW d \in Call,
                        paid[c] # NoApproval, paid[c] = paid[d], c # d
                 PROVE  FALSE
      OBVIOUS
    <2>1. PICK id \in ApprovalId : id = paid[c]
      BY DEF TypeOK, CallTypeOK
    <2> DEFINE payers == {x \in Call : paid[x] = id}
    <2>2. Cardinality(payers) <= 1
      BY <2>1 DEF UsesAreAccounted, SingleUse
    <2>3. IsFiniteSet(payers) /\ c \in payers /\ d \in payers
      BY <2>1, CallsAreFinite, FS_Subset
    <2> HIDE DEF payers
    <2>4. /\ Cardinality(payers \ {c}) = Cardinality(payers) - 1
          /\ IsFiniteSet(payers \ {c}) /\ d \in payers \ {c}
      BY <2>3, FS_RemoveElement
    <2>5. Cardinality(payers \ {c}) \in Nat /\ Cardinality(payers \ {c}) # 0
      BY <2>4, FS_CardinalityType, FS_EmptySet
    <2>6. Cardinality(payers) \in Nat
      BY <2>3, FS_CardinalityType
    <2>7. QED
      BY <2>2, <2>4, <2>5, <2>6
  <1>2. QED
    BY <1>1, CallTypeCorrect, UsesAccounted, CallsUseTheStore, SerialUseIsSingle, PTL

-----------------------------------------------------------------------------
(* Events.                                                                 *)

\* Records in an order in which each announces or names one before it.
Ordered(s) ==
    \A i \in DOMAIN s :
        /\ s[i].sink = "event" /\ s[i].what \notin {"message", "approval.requested"} =>
               \E j \in 1..(i - 1) : /\ s[j].sink \in {"audit", "artifact"}
                                     /\ s[j].what = s[i].what
        /\ s[i].sink = "artifact" =>
               \E j \in 1..(i - 1) : s[j].sink = "file" /\ s[j].what = s[i].what

\* What a call wrote and is about to write, in order.
History(c) == trail[c] \o todo[c]

\* A request that is announced is in the file.
RequestsKnown(c) ==
    \A r \in Record_ : r.what = "approval.requested" /\ LeftBy(c, r) =>
        r.approval \in ApprovalId /\ Known(r.approval)

EventHonest(c) ==
    /\ Ordered(History(c))
    /\ pc[c] \notin {"starting", "reporting"} => todo[c] = <<>>
    /\ RequestsKnown(c)

\* A decision that is announced, or is to be, is in the file.
Recorded(q, a) ==
    a.id \in ApprovalId /\ \E i \in DOMAIN q[a.id] : q[a.id][i].status = a.status

DecisionsRecorded ==
    /\ \A d \in Decider : owing[d] # NoDecision => Recorded(queue, owing[d])
    /\ \A a \in announced : Recorded(queue, a)

EventInv ==
    /\ \A c \in Call : EventHonest(c)
    /\ DOMAIN owing = Decider
    /\ DecisionsRecorded

LEMMA OrderedConcat ==
    ASSUME NEW s \in Seq(Record_), NEW t \in Seq(Record_), Ordered(s), Ordered(t)
    PROVE  s \o t \in Seq(Record_) /\ Ordered(s \o t)
  <1>1. /\ s \o t \in Seq(Record_) /\ DOMAIN (s \o t) = 1..(Len(s) + Len(t))
        /\ \A i \in 1..Len(s) : (s \o t)[i] = s[i]
        /\ \A i \in 1..Len(t) : (s \o t)[Len(s) + i] = t[i]
        /\ Len(s) \in Nat /\ Len(t) \in Nat /\ DOMAIN s = 1..Len(s) /\ DOMAIN t = 1..Len(t)
    OBVIOUS
  <1> DEFINE u == s \o t
  <1>2. ASSUME NEW i \in 1..Len(s), NEW sinks, \E j \in 1..(i - 1) : s[j].sink \in sinks
                                                             /\ s[j].what = s[i].what
        PROVE  \E j \in 1..(i - 1) : u[j].sink \in sinks /\ u[j].what = u[i].what
    <2>1. PICK j \in 1..(i - 1) : s[j].sink \in sinks /\ s[j].what = s[i].what
      BY <1>2
    <2>2. j \in 1..Len(s) /\ u[j] = s[j] /\ u[i] = s[i]
      BY <1>1
    <2>3. QED
      BY <2>1, <2>2
  <1>3. ASSUME NEW i \in 1..Len(t), NEW sinks, \E j \in 1..(i - 1) : t[j].sink \in sinks
                                                             /\ t[j].what = t[i].what
        PROVE  \E j \in 1..(Len(s) + i - 1) : /\ u[j].sink \in sinks
                                              /\ u[j].what = u[Len(s) + i].what
    <2>1. PICK j \in 1..(i - 1) : t[j].sink \in sinks /\ t[j].what = t[i].what
      BY <1>3
    <2>2. /\ j \in 1..Len(t) /\ u[Len(s) + j] = t[j] /\ u[Len(s) + i] = t[i]
          /\ Len(s) + j \in 1..(Len(s) + i - 1)
      BY <1>1
    <2>3. QED
      BY <2>1, <2>2
  <1>4. ASSUME NEW i \in DOMAIN u
        PROVE  /\ u[i].sink = "event" /\ u[i].what \notin {"message", "approval.requested"} =>
                    \E j \in 1..(i - 1) : /\ u[j].sink \in {"audit", "artifact"}
                                          /\ u[j].what = u[i].what
               /\ u[i].sink = "artifact" =>
                    \E j \in 1..(i - 1) : u[j].sink = "file" /\ u[j].what = u[i].what
    <2>1. CASE i \in 1..Len(s)
      <3>1. u[i] = s[i] /\ i \in DOMAIN s
        BY <1>1, <2>1
      <3>2. u[i].sink = "event" /\ u[i].what \notin {"message", "approval.requested"} =>
                \E j \in 1..(i - 1) : /\ u[j].sink \in {"audit", "artifact"}
                                      /\ u[j].what = u[i].what
        BY <1>2, <2>1, <3>1 DEF Ordered
      <3>3. u[i].sink = "artifact" =>
                \E j \in 1..(i - 1) : u[j].sink \in {"file"} /\ u[j].what = u[i].what
        BY <1>2, <2>1, <3>1 DEF Ordered
      <3>4. QED
        BY <3>2, <3>3
    <2>2. CASE i \notin 1..Len(s)
      <3> DEFINE k == i - Len(s)
      <3>1. k \in 1..Len(t) /\ i = Len(s) + k /\ u[i] = t[k] /\ k \in DOMAIN t
        BY <1>1, <2>2
      <3> HIDE DEF k, u
      <3>2. ASSUME u[i].sink = "event", u[i].what \notin {"message", "approval.requested"}
            PROVE  \E j \in 1..(i - 1) : /\ u[j].sink \in {"audit", "artifact"}
                                         /\ u[j].what = u[i].what
        <4>1. \E j \in 1..(k - 1) : /\ t[j].sink \in {"audit", "artifact"}
                                    /\ t[j].what = t[k].what
          BY <3>1, <3>2 DEF Ordered
        <4>2. \E j \in 1..(Len(s) + k - 1) : /\ u[j].sink \in {"audit", "artifact"}
                                             /\ u[j].what = u[Len(s) + k].what
          BY <1>3, <3>1, <4>1
        <4>3. u[Len(s) + k] = u[i] /\ Len(s) + k - 1 = i - 1
          BY <3>1
        <4>4. QED
          BY <4>2, <4>3
      <3>3. ASSUME u[i].sink = "artifact"
            PROVE  \E j \in 1..(i - 1) : u[j].sink \in {"file"} /\ u[j].what = u[i].what
        <4>1. \E j \in 1..(k - 1) : t[j].sink \in {"file"} /\ t[j].what = t[k].what
          BY <3>1, <3>3 DEF Ordered
        <4>2. \E j \in 1..(Len(s) + k - 1) : /\ u[j].sink \in {"file"}
                                             /\ u[j].what = u[Len(s) + k].what
          BY <1>3, <3>1, <4>1
        <4>3. u[Len(s) + k] = u[i] /\ Len(s) + k - 1 = i - 1
          BY <3>1
        <4>4. QED
          BY <4>2, <4>3
      <3>4. QED
        BY <3>2, <3>3
    <2>3. QED
      BY <2>1, <2>2
  <1>5. QED
    BY <1>1, <1>4 DEF Ordered

\* A crash leaves the beginning of a history.
LEMMA OrderedPrefix ==
    ASSUME NEW s \in Seq(Record_), NEW t \in Seq(Record_), Ordered(s \o t)
    PROVE  Ordered(s)
  <1>1. /\ DOMAIN (s \o t) = 1..(Len(s) + Len(t)) /\ DOMAIN s = 1..Len(s)
        /\ Len(s) \in Nat /\ Len(t) \in Nat
        /\ \A i \in 1..Len(s) : (s \o t)[i] = s[i]
    OBVIOUS
  <1>2. \A i \in DOMAIN s : /\ i \in DOMAIN (s \o t) /\ (s \o t)[i] = s[i]
                            /\ \A j \in 1..(i - 1) : (s \o t)[j] = s[j]
    BY <1>1
  <1>3. QED
    BY <1>2 DEF Ordered

LEMMA WriteKeepsHistory ==
    ASSUME NEW s \in Seq(Record_), NEW t \in Seq(Record_), t # <<>>
    PROVE  Append(s, Head(t)) \o Tail(t) = s \o t
  OBVIOUS

LEMMA EmptyOrdered == <<>> \in Seq(Record_) /\ Ordered(<<>>)
  BY DEF Ordered

\* The records of each stretch of a call are ordered by themselves.
LEMMA StretchesOrdered ==
    ASSUME NEW id \in ApprovalId \cup {NoApproval}
    PROVE  /\ Ordered(StartedRecords(id)) /\ Ordered(BlockedRecords(id))
           /\ \A i \in DOMAIN StartedRecords(id) :
                StartedRecords(id)[i].what # "approval.requested"
           /\ \A i \in DOMAIN BlockedRecords(id) : BlockedRecords(id)[i].approval = id
  <1>1. Ordered(StartedRecords(id))
    <2>1. /\ DOMAIN StartedRecords(id) = 1..2
          /\ StartedRecords(id)[1] = Rec("audit", "started", id)
          /\ StartedRecords(id)[2] = Rec("event", "started", id)
      BY DEF StartedRecords
    <2>2. QED
      BY <2>1 DEF Ordered, Rec
  <1>2. Ordered(BlockedRecords(id))
    <2>1. /\ DOMAIN BlockedRecords(id) = 1..3
          /\ BlockedRecords(id)[1] = Rec("audit", "blocked", id)
          /\ BlockedRecords(id)[2] = Rec("event", "approval.requested", id)
          /\ BlockedRecords(id)[3] = Rec("event", "blocked", id)
      BY DEF BlockedRecords
    <2>2. QED
      BY <2>1 DEF Ordered, Rec
  <1>3. /\ \A i \in DOMAIN StartedRecords(id) :
                StartedRecords(id)[i].what # "approval.requested"
        /\ \A i \in DOMAIN BlockedRecords(id) : BlockedRecords(id)[i].approval = id
    BY DEF StartedRecords, BlockedRecords, Rec
  <1>4. QED
    BY <1>1, <1>2, <1>3

\* Records that ask for nothing.
Plain == {r \in Record_ : r.what # "approval.requested"}

LEMMA CompletedOrdered ==
    ASSUME NEW id \in ApprovalId \cup {NoApproval}, NEW outputs
    PROVE  CompletedRecords(outputs, id) \in Seq(Plain) /\ Ordered(CompletedRecords(outputs, id))
  <1>1. ASSUME NEW kind \in {"stdout", "stderr", "parsed"}
        PROVE  ArtifactRecords(kind) \in Seq(Plain) /\ Ordered(ArtifactRecords(kind))
    <2>1. /\ Rec("file", kind, NoApproval) \in Plain
          /\ Rec("artifact", kind, NoApproval) \in Plain
          /\ Rec("event", kind, NoApproval) \in Plain
      BY DEF Rec, Record_, Plain
    <2>2. /\ DOMAIN ArtifactRecords(kind) = 1..3
          /\ ArtifactRecords(kind)[1] = Rec("file", kind, NoApproval)
          /\ ArtifactRecords(kind)[2] = Rec("artifact", kind, NoApproval)
          /\ ArtifactRecords(kind)[3] = Rec("event", kind, NoApproval)
      BY DEF ArtifactRecords
    <2>3. ArtifactRecords(kind) \in Seq(Plain)
      BY <2>1 DEF ArtifactRecords
    <2>4. QED
      BY <2>2, <2>3 DEF Ordered, Rec
  <1> DEFINE last == << Rec("event", "message", NoApproval), Rec("audit", "completed", id),
                        Rec("event", "completed", id) >>
  <1>2. last \in Seq(Plain) /\ Ordered(last)
    <2>1. /\ Rec("event", "message", NoApproval) \in Plain
          /\ Rec("audit", "completed", id) \in Plain /\ Rec("event", "completed", id) \in Plain
      BY DEF Rec, Record_, Plain
    <2>2. last \in Seq(Plain)
      BY <2>1
    <2>3. Ordered(last)
      BY DEF Ordered, Rec
    <2>4. QED
      BY <2>2, <2>3
  <1> HIDE DEF last
  <1>3. <<>> \in Seq(Plain) /\ Ordered(<<>>)
    BY EmptyOrdered
  <1>4. ASSUME NEW s \in Seq(Plain), NEW t \in Seq(Plain), Ordered(s), Ordered(t)
        PROVE  s \o t \in Seq(Plain) /\ Ordered(s \o t)
    <2>1. s \in Seq(Record_) /\ t \in Seq(Record_)
      BY DEF Plain
    <2>2. QED
      BY <1>4, <2>1, OrderedConcat
  <1> DEFINE out == IF "stdout" \in outputs THEN ArtifactRecords("stdout") ELSE <<>>
             err == IF "stderr" \in outputs THEN ArtifactRecords("stderr") ELSE <<>>
  <1>5. out \in Seq(Plain) /\ Ordered(out) /\ err \in Seq(Plain) /\ Ordered(err)
    BY <1>1, <1>3
  <1>6. CompletedRecords(outputs, id) = out \o err \o ArtifactRecords("parsed") \o last
    BY DEF CompletedRecords, last
  <1> HIDE DEF out, err
  <1>7. out \o err \in Seq(Plain) /\ Ordered(out \o err)
    BY <1>4, <1>5
  <1>8. /\ out \o err \o ArtifactRecords("parsed") \in Seq(Plain)
        /\ Ordered(out \o err \o ArtifactRecords("parsed"))
    BY <1>1, <1>4, <1>7
  <1>9. QED
    BY <1>2, <1>4, <1>6, <1>8

-----------------------------------------------------------------------------
(* One lemma per way a step treats the records of a call.                  *)

\* What a call announced as requested stays in the file.
LEMMA RequestsStay ==
    ASSUME StoreTypeOK, StoreTypeOK', QueueGrows, NEW c \in Call, RequestsKnown(c),
           NEW r \in Record_, r.what = "approval.requested", LeftBy(c, r)
    PROVE  r.approval \in ApprovalId /\ Known(r.approval)'
  BY RequestStays DEF RequestsKnown

\* A step that leaves a call's history as it is.
LEMMA SameHistory ==
    ASSUME StoreTypeOK, StoreTypeOK', QueueGrows, NEW c \in Call, EventHonest(c),
           History(c)' = History(c), \A r \in Record_ : LeftBy(c, r)' => LeftBy(c, r),
           pc'[c] \notin {"starting", "reporting"} => todo'[c] = <<>>
    PROVE  EventHonest(c)'
  <1>1. RequestsKnown(c)'
    BY RequestsStay DEF EventHonest, RequestsKnown
  <1>2. Ordered(History(c))'
    BY DEF EventHonest, Ordered
  <1>3. QED
    BY <1>1, <1>2 DEF EventHonest

LEMMA SameRecords ==
    ASSUME StoreTypeOK, StoreTypeOK', QueueGrows, NEW c \in Call, EventHonest(c),
           trail'[c] = trail[c], todo'[c] = todo[c],
           pc'[c] \notin {"starting", "reporting"} => todo[c] = <<>>
    PROVE  EventHonest(c)'
  <1>1. History(c)' = History(c) /\ \A r \in Record_ : LeftBy(c, r)' => LeftBy(c, r)
    BY DEF History, LeftBy
  <1>2. QED
    BY <1>1, SameHistory

\* A call with nothing left to write is about to write an ordered stretch.
LEMMA NextStretch ==
    ASSUME AuditInv, StoreTypeOK, StoreTypeOK', QueueGrows, NEW c \in Call, EventHonest(c),
           todo[c] = <<>>, NEW s \in Seq(Record_), Ordered(s),
           todo' = [todo EXCEPT ![c] = s], trail' = trail,
           pc'[c] \in {"starting", "reporting"},
           \A i \in DOMAIN s : s[i].what = "approval.requested" =>
                s[i].approval \in ApprovalId /\ Known(s[i].approval)'
    PROVE  EventHonest(c)'
  <1>1. todo'[c] = s /\ trail'[c] = trail[c] /\ trail[c] \in Seq(Record_)
    BY DEF AuditInv
  <1>2. Ordered(trail[c])
    BY <1>1 DEF EventHonest, History
  <1>3. Ordered(History(c))'
    <2> DEFINE u == trail[c] \o s
    <2>1. Ordered(u) /\ History(c)' = u
      BY <1>1, <1>2, OrderedConcat DEF History
    <2> HIDE DEF u
    <2>2. QED
      BY <2>1 DEF Ordered
  <1>4. ASSUME NEW r \in Record_, r.what = "approval.requested", LeftBy(c, r)'
        PROVE  r.approval \in ApprovalId /\ Known(r.approval)'
    <2>1. CASE \E i \in DOMAIN trail[c] : trail[c][i] = r
      <3>1. LeftBy(c, r)
        BY <2>1 DEF LeftBy
      <3>2. QED
        BY <1>4, <3>1, RequestsStay DEF EventHonest
    <2>2. CASE \E i \in DOMAIN s : s[i] = r
      BY <1>4, <2>2
    <2>3. QED
      BY <1>1, <1>4, <2>1, <2>2 DEF LeftBy
  <1>5. QED
    BY <1>3, <1>4 DEF EventHonest, RequestsKnown

LEMMA WriteEvents ==
    ASSUME AuditInv, StoreTypeOK, StoreTypeOK', QueueGrows, NEW c \in Call, EventHonest(c),
           Write(c)
    PROVE  EventHonest(c)'
  <1>1. /\ todo[c] # <<>> /\ todo[c] \in Seq(Record_) /\ trail[c] \in Seq(Record_)
        /\ trail'[c] = Append(trail[c], Head(todo[c])) /\ todo'[c] = Tail(todo[c])
        /\ pc[c] \in {"starting", "reporting"} /\ pc' = pc
    BY DEF Write, AuditInv
  <1>2. History(c)' = History(c)
    BY <1>1, WriteKeepsHistory DEF History
  <1>3. QED
    BY <1>1, <1>2, WriteMovesRecords, SameHistory

LEMMA AbortEvents ==
    ASSUME CallIInv, AuditInv, StoreTypeOK', QueueGrows, NEW c \in Call, EventHonest(c),
           Abort(c)
    PROVE  EventHonest(c)'
  <1>1. /\ todo'[c] = <<>> /\ trail'[c] = trail[c]
        /\ trail[c] \in Seq(Record_) /\ todo[c] \in Seq(Record_)
    BY DEF Abort, AuditInv
  <1>2. Ordered(trail[c])
    BY <1>1, OrderedPrefix DEF EventHonest, History
  <1>3. Ordered(History(c))'
    <2>1. History(c)' = trail[c]
      BY <1>1 DEF History
    <2>2. QED
      BY <1>2, <2>1 DEF Ordered
  <1>4. \A r \in Record_ : LeftBy(c, r)' => LeftBy(c, r)
    BY <1>1 DEF LeftBy
  <1>5. RequestsKnown(c)'
    BY <1>4, RequestsStay DEF EventHonest, RequestsKnown, CallIInv, StoreIInv
  <1>6. QED
    BY <1>1, <1>3, <1>5 DEF EventHonest

-----------------------------------------------------------------------------
LEMMA BeginEvents ==
    ASSUME CallIInv, AuditInv, StoreTypeOK', QueueGrows, NEW c \in Call, EventHonest(c),
           NEW r \in Request_, Begin(c, r)
    PROVE  EventHonest(c)'
  <1>1. /\ todo[c] = <<>> /\ trail' = trail /\ StoreTypeOK
        /\ \/ todo' = todo
           \/ /\ todo' = [todo EXCEPT ![c] = StartedRecords(NoApproval)]
              /\ pc'[c] = "starting"
    BY DEF Begin, EventHonest, Goto, CallIInv, CallTypeOK, StoreIInv
  <1>2. CASE todo' = todo
    BY <1>1, <1>2, SameRecords
  <1>3. CASE todo' = [todo EXCEPT ![c] = StartedRecords(NoApproval)] /\ pc'[c] = "starting"
    <2>1. NoApproval \in ApprovalId \cup {NoApproval}
      OBVIOUS
    <2>2. QED
      BY <1>1, <1>3, <2>1, NextStretch, StretchesOrdered, RecordTypes
  <1>4. QED
    BY <1>1, <1>2, <1>3

LEMMA ConsumeEvents ==
    ASSUME CallIInv, AuditInv, StoreTypeOK', QueueGrows, NEW c \in Call, EventHonest(c),
           ConsumeApproval(c)
    PROVE  EventHonest(c)'
  <1> DEFINE id == request[c].approval
  <1>1. /\ pc[c] = "using" /\ id \in ApprovalId \cup {NoApproval} /\ StoreTypeOK
        /\ todo' = [todo EXCEPT ![c] = StartedRecords(id)] /\ trail' = trail
        /\ pc'[c] = "starting"
    BY DEF ConsumeApproval, Goto, CallIInv, CallTypeOK, CallHonest, Request_, StoreIInv
  <1>2. todo[c] = <<>>
    BY <1>1 DEF EventHonest
  <1> HIDE DEF id
  <1>3. QED
    BY <1>1, <1>2, NextStretch, StretchesOrdered, RecordTypes

LEMMA RequestEvents ==
    ASSUME CallIInv, AuditInv, StoreTypeOK', QueueGrows, NEW c \in Call, EventHonest(c),
           RequestApproval(c)
    PROVE  EventHonest(c)'
  <1>1. PICK id \in ApprovalId :
            /\ AppendLine(id, NewRequest(request[c].cap, ScopeOf(request[c])))
            /\ todo' = [todo EXCEPT ![c] = BlockedRecords(id)]
    BY DEF RequestApproval, Request
  <1>2. /\ pc[c] = "refused" /\ pc'[c] = "reporting" /\ trail' = trail /\ StoreTypeOK
    BY DEF RequestApproval, Goto, CallIInv, CallTypeOK, StoreIInv
  <1>3. todo[c] = <<>>
    BY <1>2 DEF EventHonest
  <1>4. Known(id)'
    <2> DEFINE line == NewRequest(request[c].cap, ScopeOf(request[c]))
    <2>1. queue'[id] = Append(queue[id], line) /\ queue[id] \in Seq(Line)
      BY <1>1, <1>2 DEF AppendLine, StoreTypeOK
    <2> HIDE DEF line
    <2>2. Append(queue[id], line) # <<>>
      BY <2>1
    <2>3. QED
      BY <2>1, <2>2 DEF Known
  <1>5. /\ BlockedRecords(id) \in Seq(Record_) /\ Ordered(BlockedRecords(id))
        /\ \A i \in DOMAIN BlockedRecords(id) : BlockedRecords(id)[i].approval = id
    BY RecordTypes, StretchesOrdered
  <1>6. QED
    BY <1>1, <1>2, <1>3, <1>4, <1>5, NextStretch

LEMMA ReportEvents ==
    ASSUME CallIInv, AuditInv, StoreTypeOK', QueueGrows, NEW c \in Call, EventHonest(c),
           todo[c] = <<>>, NEW outputs, Report(c, outputs), trail' = trail
    PROVE  EventHonest(c)'
  <1> DEFINE s == CompletedRecords(outputs, paid[c])
  <1>1. /\ todo' = [todo EXCEPT ![c] = s] /\ pc'[c] = "reporting" /\ StoreTypeOK
        /\ paid[c] \in ApprovalId \cup {NoApproval}
    BY DEF Report, Goto, CallIInv, CallTypeOK, StoreIInv
  <1>2. s \in Seq(Plain) /\ Ordered(s)
    BY <1>1, CompletedOrdered
  <1> HIDE DEF s
  <1>3. s \in Seq(Record_) /\ \A i \in DOMAIN s : s[i].what # "approval.requested"
    BY <1>2 DEF Plain
  <1>4. QED
    BY <1>1, <1>2, <1>3, NextStretch

LEMMA StepEvents ==
    ASSUME CallIInv, AuditInv, StoreTypeOK', QueueGrows, NEW c \in Call, EventHonest(c),
           CallStep(c)
    PROVE  EventHonest(c)'
  <1>1. CASE PresentApproval(c) \/ ApprovalRejected(c) \/ ReadForUse(c)
    <2>1. /\ pc[c] \notin {"starting", "reporting"} /\ UNCHANGED <<todo, trail>>
          /\ todo[c] = <<>> /\ StoreTypeOK
      BY <1>1 DEF PresentApproval, ApprovalRejected, ReadForUse, callVars, EventHonest,
                  CallIInv, StoreIInv
    <2>2. QED
      BY <2>1, SameRecords
  <1>2. CASE ConsumeApproval(c) \/ RequestApproval(c)
    BY <1>2, ConsumeEvents, RequestEvents
  <1>3. CASE Write(c)
    BY <1>3, WriteEvents DEF CallIInv, StoreIInv
  <1>4. CASE Dispatch(c)
    <2>1. /\ todo[c] = <<>> /\ trail' = trail /\ StoreTypeOK
          /\ (\E outputs : Report(c, outputs)) \/ todo' = todo
      BY <1>4 DEF Dispatch, CallIInv, StoreIInv
    <2>2. QED
      BY <2>1, ReportEvents, SameRecords
  <1>5. CASE Exit(c)
    <2>1. todo[c] = <<>> /\ trail' = trail /\ \E outputs : Report(c, outputs)
      BY <1>5 DEF Exit, EventHonest
    <2>2. QED
      BY <2>1, ReportEvents
  <1>6. QED
    BY <1>1, <1>2, <1>3, <1>4, <1>5 DEF CallStep

-----------------------------------------------------------------------------
(* Decisions.                                                              *)

\* What is recorded stays recorded.
LEMMA RecordedStays ==
    ASSUME QueueGrows
    PROVE  \A a : Recorded(queue, a) => Recorded(queue', a)
  BY DEF QueueGrows, Recorded

\* A decider announces what it has just appended.
LEMMA DecisionIsRecorded ==
    ASSUME CallIInv, NEW d \in Decider, RecordDecision(d)
    PROVE  Recorded(queue', [id |-> frame[d].id, status |-> frame[d].to])
  <1> DEFINE id == frame[d].id
             line == Transitioned(frame[d].record, frame[d].to)
  <1>1. d \in Client /\ Commit(d) /\ frame[d] # Idle
    BY CallsAreClients DEF RecordDecision, Commit, Idle
  <1>2. /\ id \in ApprovalId /\ frame[d].record \in Line /\ queue[id] \in Seq(Line)
    BY <1>1, BusyFrame DEF Commit, CallIInv, StoreIInv, StoreTypeOK
  <1>3. line.status = frame[d].to
    BY <1>2 DEF Transitioned, Line
  <1>4. queue' = [queue EXCEPT ![id] = Append(queue[id], line)]
    BY <1>1 DEF Commit, AppendLine
  <1>5. id \in DOMAIN queue
    BY <1>2 DEF CallIInv, StoreIInv, StoreTypeOK
  <1> HIDE DEF id, line
  <1>6. queue'[id] = Append(queue[id], line)
    BY <1>4, <1>5
  <1>7. Len(queue[id]) + 1 \in DOMAIN queue'[id] /\ queue'[id][Len(queue[id]) + 1] = line
    BY <1>2, <1>6
  <1>8. \E i \in DOMAIN queue'[id] : queue'[id][i].status = frame[d].to
    BY <1>3, <1>7
  <1>9. QED
    BY <1>2, <1>8 DEF Recorded, id

LEMMA DecisionsKept ==
    ASSUME CallIInv, EventInv, QueueGrows, [Next]_vars
    PROVE  DOMAIN owing' = Decider /\ DecisionsRecorded'
  <1>1. /\ \A x \in Decider : owing[x] # NoDecision => Recorded(queue', owing[x])
        /\ \A a \in announced : Recorded(queue', a)
    BY RecordedStays DEF EventInv, DecisionsRecorded
  <1>2. CASE UNCHANGED <<owing, announced>>
    BY <1>1, <1>2 DEF EventInv, DecisionsRecorded
  <1>3. ASSUME NEW d \in Decider, RecordDecision(d)
        PROVE  DOMAIN owing' = Decider /\ DecisionsRecorded'
    <2> DEFINE a == [id |-> frame[d].id, status |-> frame[d].to]
    <2>1. Recorded(queue', a)
      BY <1>3, DecisionIsRecorded
    <2>2. owing' = [owing EXCEPT ![d] = a] /\ announced' = announced
      BY <1>3 DEF RecordDecision
    <2> HIDE DEF a
    <2>3. /\ DOMAIN owing' = Decider /\ owing'[d] = a
          /\ \A x \in Decider : x # d => owing'[x] = owing[x]
      BY <2>2 DEF EventInv
    <2>4. QED
      BY <1>1, <2>1, <2>2, <2>3 DEF DecisionsRecorded
  <1>4. ASSUME NEW d \in Decider, AnnounceDecision(d) \/ DeciderDies(d)
        PROVE  DOMAIN owing' = Decider /\ DecisionsRecorded'
    <2>1. /\ owing' = [owing EXCEPT ![d] = NoDecision]
          /\ \/ announced' = announced
             \/ owing[d] # NoDecision /\ announced' = announced \cup {owing[d]}
      BY <1>4 DEF AnnounceDecision, DeciderDies
    <2>2. /\ DOMAIN owing' = Decider /\ owing'[d] = NoDecision
          /\ \A x \in Decider : x # d => owing'[x] = owing[x]
      BY <2>1 DEF EventInv
    <2>3. \A a \in announced' : Recorded(queue', a)
      BY <1>1, <2>1
    <2>4. QED
      BY <1>1, <2>2, <2>3 DEF DecisionsRecorded
  <1>5. ASSUME NEW d \in Decider, StartDecision(d) \/ ReadForDecision(d)
        PROVE  UNCHANGED <<owing, announced>>
    BY <1>5 DEF StartDecision, ReadForDecision, callVars
  <1>6. ASSUME NEW c \in Call, CallStep(c) \/ Abort(c) \/ \E r \in Request_ : Begin(c, r)
        PROVE  UNCHANGED <<owing, announced>>
    BY <1>6 DEF CallStep, PresentApproval, ApprovalRejected, ReadForUse, ConsumeApproval,
       RequestApproval, Write, Dispatch, Exit, Abort, Begin, callVars
  <1>7. ASSUME NEW cap \in Capability, NEW m \in Manifest \cup {NoManifest},
               EditManifest(cap, m)
        PROVE  UNCHANGED <<owing, announced>>
    BY <1>7 DEF EditManifest
  <1>8. QED
    BY <1>2, <1>3, <1>4, <1>5, <1>6, <1>7 DEF Next, vars, DeciderStep

-----------------------------------------------------------------------------
LEMMA EventStepInv == CallIInv /\ AuditInv /\ EventInv /\ [Next]_vars => EventInv'
  <1> SUFFICES ASSUME CallIInv, AuditInv, EventInv, [Next]_vars PROVE EventInv'
    OBVIOUS
  <1>1. QueueGrows /\ StoreTypeOK' /\ StoreTypeOK
    BY FileGrows DEF CallIInv, StoreIInv
  <1>2. \A c \in Call : EventHonest(c)
    BY DEF EventInv
  <1>3. CASE UNCHANGED <<pc, todo, trail>>
    <2>1. ASSUME NEW c \in Call PROVE EventHonest(c)'
      BY <1>1, <1>2, <1>3, SameRecords DEF EventHonest
    <2>2. QED
      BY <1>1, <2>1, DecisionsKept DEF EventInv
  <1>4. ASSUME NEW c \in Call, CallStep(c) \/ Abort(c) \/ \E r \in Request_ : Begin(c, r)
        PROVE  EventInv'
    <2>1. EventHonest(c)'
      BY <1>1, <1>2, <1>4, StepEvents, AbortEvents, BeginEvents
    <2>2. ASSUME NEW x \in Call, x # c PROVE EventHonest(x)'
      <3>1. pc'[x] = pc[x] /\ todo'[x] = todo[x] /\ trail'[x] = trail[x]
        BY <1>4, <2>2 DEF AuditInv, CallIInv, CallTypeOK, CallStep, PresentApproval,
           ApprovalRejected, ReadForUse, callVars, ConsumeApproval, RequestApproval, Write,
           Dispatch, Exit, Report, Abort, Begin, Goto
      <3>2. QED
        BY <1>1, <1>2, <3>1, SameRecords DEF EventHonest
    <2>3. QED
      BY <1>1, <2>1, <2>2, DecisionsKept DEF EventInv
  <1>5. ASSUME NEW d \in Decider, StartDecision(d) \/ DeciderStep(d) \/ DeciderDies(d)
        PROVE  EventInv'
    BY <1>3, <1>5 DEF StartDecision, DeciderStep, ReadForDecision, RecordDecision,
       AnnounceDecision, DeciderDies, callVars
  <1>6. ASSUME NEW cap \in Capability, NEW m \in Manifest \cup {NoManifest},
               EditManifest(cap, m)
        PROVE  EventInv'
    BY <1>3, <1>6 DEF EditManifest
  <1>7. QED
    BY <1>3, <1>4, <1>5, <1>6 DEF Next, vars

LEMMA EventInitOK == Init => EventInv
  <1> SUFFICES ASSUME Init PROVE EventInv
    OBVIOUS
  <1>1. \A c \in Call : trail[c] = <<>> /\ todo[c] = <<>>
    BY DEF Init
  <1>2. ASSUME NEW c \in Call PROVE EventHonest(c)
    <2>1. History(c) = <<>> /\ ~\E r : LeftBy(c, r)
      BY <1>1 DEF History, LeftBy
    <2>2. QED
      BY <1>1, <2>1, EmptyOrdered DEF EventHonest, RequestsKnown
  <1>3. DOMAIN owing = Decider /\ DecisionsRecorded
    BY DEF Init, DecisionsRecorded
  <1>4. QED
    BY <1>2, <1>3 DEF EventInv

\* However calls and deciders interleave, wherever one is cut short: an event follows the
\* durable record it announces, and an index line the file it names
\* (CapabilityExecutor.call, ArtifactStore.write, approvals decide).
THEOREM EventsFollow == Spec => []EventsFollowRecords
  <1>1. AuditInv /\ EventInv => EventsFollowRecords
    <2> SUFFICES ASSUME AuditInv, EventInv PROVE EventsFollowRecords
      OBVIOUS
    <2>1. ASSUME NEW c \in Call PROVE Ordered(trail[c])
      BY <2>1, OrderedPrefix DEF AuditInv, EventInv, EventHonest, History
    <2>2. ASSUME NEW c \in Call, NEW i \in DOMAIN trail[c],
                 trail[c][i].what = "approval.requested"
          PROVE  Known(trail[c][i].approval)
      <3>1. trail[c][i] \in Record_ /\ LeftBy(c, trail[c][i])
        BY DEF AuditInv, LeftBy
      <3>2. QED
        BY <2>2, <3>1 DEF EventInv, EventHonest, RequestsKnown
    <2>3. \A a \in announced : LinesWith(a.id, a.status) # {}
      BY DEF EventInv, DecisionsRecorded, Recorded, LinesWith
    <2>4. ASSUME NEW c \in Call, NEW i \in DOMAIN trail[c]
          PROVE  /\ trail[c][i].sink = "event"
                        /\ trail[c][i].what \notin {"message", "approval.requested"} =>
                    \E j \in 1..(i - 1) : /\ trail[c][j].sink \in {"audit", "artifact"}
                                          /\ trail[c][j].what = trail[c][i].what
                 /\ trail[c][i].sink = "artifact" =>
                    \E j \in 1..(i - 1) : /\ trail[c][j].sink \in {"file"}
                                          /\ trail[c][j].what = trail[c][i].what
      BY <2>1 DEF Ordered
    <2>5. QED
      BY <2>2, <2>3, <2>4 DEF EventsFollowRecords
  <1>2. QED
    BY <1>1, EventInitOK, EventStepInv, AuditInitOK, AuditStepInv, CallInvariant, PTL DEF Spec

-----------------------------------------------------------------------------
(* Calls come to an end.                                                   *)

\* The steps a call has before it, at most.
Remaining(c) ==
    CASE pc[c] = "presenting" -> 22
      [] pc[c] = "using" -> IF frame[c].at = "checked" THEN 21 ELSE 20
      [] pc[c] = "refused" -> 19
      [] pc[c] = "starting" -> 15 + Len(todo[c])
      [] pc[c] = "running" -> 14
      [] pc[c] = "reporting" -> Len(todo[c])
      [] OTHER -> 0

LEMMA RecordLengths ==
    ASSUME NEW id \in ApprovalId \cup {NoApproval}, NEW outputs
    PROVE  /\ Len(StartedRecords(id)) = 2 /\ Len(BlockedRecords(id)) = 3
           /\ Len(CompletedRecords(outputs, id)) \in 0..12
  <1>1. Len(StartedRecords(id)) = 2 /\ Len(BlockedRecords(id)) = 3
    BY DEF StartedRecords, BlockedRecords
  <1>2. \A kind \in {"stdout", "stderr", "parsed"} :
            ArtifactRecords(kind) \in Seq(Record_) /\ Len(ArtifactRecords(kind)) = 3
    <2> TAKE kind \in {"stdout", "stderr", "parsed"}
    <2>1. /\ Rec("file", kind, NoApproval) \in Record_
          /\ Rec("artifact", kind, NoApproval) \in Record_
          /\ Rec("event", kind, NoApproval) \in Record_
      BY DEF Rec, Record_
    <2>2. QED
      BY <2>1 DEF ArtifactRecords
  <1> DEFINE out == IF "stdout" \in outputs THEN ArtifactRecords("stdout") ELSE <<>>
             err == IF "stderr" \in outputs THEN ArtifactRecords("stderr") ELSE <<>>
             parsed == ArtifactRecords("parsed")
             last == << Rec("event", "message", NoApproval), Rec("audit", "completed", id),
                        Rec("event", "completed", id) >>
  <1>3. /\ out \in Seq(Record_) /\ err \in Seq(Record_) /\ parsed \in Seq(Record_)
        /\ Len(out) \in {0, 3} /\ Len(err) \in {0, 3} /\ Len(parsed) = 3
    BY <1>2
  <1>4. last \in Seq(Record_) /\ Len(last) = 3
    BY DEF Rec, Record_
  <1>5. CompletedRecords(outputs, id) = out \o err \o parsed \o last
    BY DEF CompletedRecords
  <1> HIDE DEF out, err, parsed, last
  <1>6. \A s, t \in Seq(Record_) : s \o t \in Seq(Record_) /\ Len(s \o t) = Len(s) + Len(t)
    OBVIOUS
  <1>7. Len(out \o err \o parsed \o last) = ((Len(out) + Len(err)) + Len(parsed)) + Len(last)
    <2>1. out \o err \in Seq(Record_) /\ Len(out \o err) = Len(out) + Len(err)
      BY <1>3, <1>6
    <2>2. /\ (out \o err) \o parsed \in Seq(Record_)
          /\ Len((out \o err) \o parsed) = (Len(out) + Len(err)) + Len(parsed)
      BY <1>3, <1>6, <2>1
    <2>3. QED
      BY <1>4, <1>6, <2>2
  <1>8. QED
    BY <1>1, <1>3, <1>4, <1>5, <1>7

LEMMA RemainingIsNatural ==
    ASSUME AuditInv, NEW c \in Call
    PROVE  Remaining(c) \in Nat
  <1>1. Len(todo[c]) \in Nat
    BY DEF AuditInv
  <1>2. QED
    BY <1>1 DEF Remaining

LEMMA BeginningIsBounded ==
    ASSUME CallIInv, AuditInv, NEW c \in Call, NEW r \in Request_, Begin(c, r)
    PROVE  Remaining(c)' <= 22
  <1>1. /\ pc'[c] \in {"starting", "presenting", "refused"}
        /\ pc'[c] = "starting" => todo'[c] = StartedRecords(NoApproval)
    BY DEF CallIInv, CallTypeOK, AuditInv, Begin, Goto
  <1>2. Len(StartedRecords(NoApproval)) = 2
    BY RecordLengths
  <1>3. CASE pc'[c] = "starting"
    <2>1. Remaining(c)' = 15 + Len(todo'[c])
      BY <1>3 DEF Remaining
    <2>2. Len(todo'[c]) = 2
      BY <1>1, <1>2, <1>3
    <2>3. QED
      BY <2>1, <2>2
  <1>4. CASE pc'[c] = "presenting"
    BY <1>4 DEF Remaining
  <1>5. CASE pc'[c] = "refused"
    BY <1>5 DEF Remaining
  <1>6. QED
    BY <1>1, <1>3, <1>4, <1>5

\* A call that reports what came of it.
LEMMA ReportingWindsDown ==
    ASSUME CallIInv, AuditInv, NEW c \in Call, NEW outputs, Report(c, outputs),
           pc[c] \in {"starting", "running"}
    PROVE  Remaining(c)' < Remaining(c)
  <1>1. pc'[c] = "reporting" /\ todo'[c] = CompletedRecords(outputs, paid[c])
    BY DEF Report, Goto, CallIInv, CallTypeOK, AuditInv
  <1>2. Len(CompletedRecords(outputs, paid[c])) \in 0..12
    BY RecordLengths DEF CallIInv, CallTypeOK
  <1>3. Remaining(c)' \in 0..12
    BY <1>1, <1>2 DEF Remaining
  <1>4. Len(todo[c]) \in Nat
    BY DEF AuditInv
  <1>5. Remaining(c) \in Nat /\ Remaining(c) >= 14
    BY <1>4 DEF Remaining
  <1>6. QED
    BY <1>3, <1>5

LEMMA CallWindsDown ==
    ASSUME CallIInv, AuditInv, NEW c \in Call, CallStep(c)
    PROVE  Remaining(c)' < Remaining(c)
  <1>1. /\ pc \in [Call -> {"idle", "presenting", "using", "refused", "starting",
                            "running", "reporting", "aborted"}]
        /\ todo \in [Call -> Seq(Record_)] /\ Len(todo[c]) \in Nat
        /\ frame \in [Client -> Frame] /\ c \in Client
    BY CallsAreClients DEF CallIInv, CallTypeOK, AuditInv, StoreIInv, StoreTypeOK
  <1>2. CASE PresentApproval(c)
    <2>1. pc[c] = "presenting" /\ pc'[c] = "using" /\ frame'[c].at = "checked"
      BY <1>1, <1>2 DEF PresentApproval, Goto, Use, Enter
    <2>2. QED
      BY <2>1 DEF Remaining
  <1>3. CASE ApprovalRejected(c)
    <2>1. pc[c] = "presenting" /\ pc'[c] = "refused"
      BY <1>1, <1>3 DEF ApprovalRejected, Goto
    <2>2. QED
      BY <2>1 DEF Remaining
  <1>4. CASE ReadForUse(c)
    <2>1. /\ pc[c] = "using" /\ pc'[c] = "using"
          /\ frame[c].at = "checked" /\ frame'[c].at = "copied"
      BY <1>1, <1>4 DEF ReadForUse, Copy, callVars
    <2>2. QED
      BY <2>1 DEF Remaining
  <1>5. CASE ConsumeApproval(c)
    <2>1. /\ pc[c] = "using" /\ pc'[c] = "starting" /\ frame[c].at = "copied"
          /\ todo'[c] = StartedRecords(request[c].approval)
      BY <1>1, <1>5 DEF ConsumeApproval, Commit, Goto
    <2>2. request[c].approval \in ApprovalId \cup {NoApproval}
      BY <2>1 DEF CallIInv, CallHonest, Request_
    <2>3. Len(todo'[c]) = 2
      BY <2>1, <2>2, RecordLengths
    <2>4. Remaining(c) = 20 /\ Remaining(c)' = 17
      BY <2>1, <2>3 DEF Remaining
    <2>5. QED
      BY <2>4
  <1>6. CASE RequestApproval(c)
    <2>1. PICK id \in ApprovalId : todo' = [todo EXCEPT ![c] = BlockedRecords(id)]
      BY <1>6 DEF RequestApproval
    <2>2. pc[c] = "refused" /\ pc'[c] = "reporting" /\ Len(todo'[c]) = 3
      BY <1>1, <1>6, <2>1, RecordLengths DEF RequestApproval, Goto
    <2>3. QED
      BY <2>2 DEF Remaining
  <1>7. CASE Write(c)
    <2>1. /\ pc[c] \in {"starting", "reporting"} /\ pc'[c] = pc[c]
          /\ todo[c] # <<>> /\ todo'[c] = Tail(todo[c])
      BY <1>1, <1>7 DEF Write
    <2>2. Len(Tail(todo[c])) = Len(todo[c]) - 1
      BY <1>1, <2>1
    <2>3. QED
      BY <1>1, <2>1, <2>2 DEF Remaining
  <1>8. CASE Dispatch(c)
    <2>1. pc[c] = "starting"
      BY <1>8 DEF Dispatch
    <2>2. CASE \E outputs : Report(c, outputs)
      BY <2>1, <2>2, ReportingWindsDown
    <2>3. CASE Goto(c, "running")
      <3>1. pc'[c] = "running"
        BY <1>1, <2>3 DEF Goto
      <3>2. QED
        BY <1>1, <2>1, <3>1 DEF Remaining
    <2>4. QED
      BY <1>8, <2>2, <2>3 DEF Dispatch
  <1>9. CASE Exit(c)
    BY <1>9, ReportingWindsDown DEF Exit
  <1>10. QED
    BY <1>2, <1>3, <1>4, <1>5, <1>6, <1>7, <1>8, <1>9 DEF CallStep

LEMMA AbortingWindsDown ==
    ASSUME CallIInv, AuditInv, NEW c \in Call, Abort(c)
    PROVE  Remaining(c)' < Remaining(c)
  <1>1. pc'[c] = "aborted"
    BY DEF Abort, Goto, CallIInv, CallTypeOK
  <1>2. Remaining(c)' = 0
    BY <1>1 DEF Remaining
  <1>3. /\ pc[c] \in {"presenting", "using", "refused", "starting", "running", "reporting"}
        /\ pc[c] = "reporting" => todo[c] # <<>>
        /\ todo[c] \in Seq(Record_)
    BY DEF Abort, CallIInv, CallTypeOK, AuditInv
  <1>4. Len(todo[c]) \in Nat /\ (pc[c] = "reporting" => Len(todo[c]) > 0)
    BY <1>3
  <1>5. Remaining(c) > 0
    BY <1>3, <1>4 DEF Remaining
  <1>6. QED
    BY <1>2, <1>5

\* What anybody else does leaves a call where it was.
LEMMA OthersLeaveCalls ==
    ASSUME CallIInv, AuditInv, NEW c \in Call, Next,
           ~CallStep(c), ~Abort(c), ~\E r \in Request_ : Begin(c, r)
    PROVE  Undisturbed(c) /\ todo'[c] = todo[c]
  <1>1. ASSUME NEW x \in Call, CallStep(x) \/ Abort(x) \/ \E r \in Request_ : Begin(x, r)
        PROVE  Undisturbed(c) /\ todo'[c] = todo[c]
    <2>1. x # c
      BY <1>1
    <2>2. CallStepOK(x)
      BY <1>1, BeginOK, AbortOK, PresentApprovalOK, RejectedOK, ReadForUseOK,
         ConsumeApprovalOK, RequestApprovalOK, WriteOK, DispatchOK, ExitOK DEF CallStep
    <2>3. Undisturbed(c)
      BY <2>1, <2>2 DEF CallStepOK
    <2>4. todo'[c] = todo[c]
      BY <1>1, <2>1 DEF AuditInv, CallStep, PresentApproval, ApprovalRejected, ReadForUse,
         callVars, ConsumeApproval, RequestApproval, Write, Dispatch, Exit, Report, Abort,
         Begin
    <2>5. QED
      BY <2>3, <2>4
  <1>2. ASSUME NEW d \in Decider, StartDecision(d) \/ DeciderStep(d) \/ DeciderDies(d)
        PROVE  Undisturbed(c) /\ todo'[c] = todo[c]
    <2>1. OutsideStepOK
      BY <1>2, StartDecisionOK, ReadForDecisionOK, RecordDecisionOK, AnnounceDecisionOK,
         DeciderDiesOK DEF DeciderStep
    <2>2. todo' = todo
      BY <1>2 DEF StartDecision, DeciderStep, ReadForDecision, RecordDecision,
         AnnounceDecision, DeciderDies, callVars
    <2>3. QED
      BY <2>1, <2>2 DEF OutsideStepOK
  <1>3. ASSUME NEW cap \in Capability, NEW m \in Manifest \cup {NoManifest},
               EditManifest(cap, m)
        PROVE  Undisturbed(c) /\ todo'[c] = todo[c]
    BY <1>3 DEF EditManifest, storeVars, Undisturbed
  <1>4. QED
    BY <1>1, <1>2, <1>3 DEF Next

\* A call that begins has at most 22 steps before it, and each it takes brings it closer to
\* its end, whatever the other calls, the deciders and the editors do meanwhile: it cannot
\* go round between the approvals, its records and its command (executor.py:47-217).
THEOREM CallsWindDown ==
    Spec => /\ [](\A c \in Call : Remaining(c) \in Nat)
            /\ [][\A c \in Call :
                    \/ UNCHANGED <<pc[c], frame[c], todo[c]>>
                    \/ pc[c] = "idle" /\ Remaining(c)' <= 22
                    \/ Remaining(c)' < Remaining(c)]_vars
  <1>1. AuditInv => \A c \in Call : Remaining(c) \in Nat
    BY RemainingIsNatural
  <1>2. ASSUME CallIInv, AuditInv, Next, NEW c \in Call
        PROVE  \/ UNCHANGED <<pc[c], frame[c], todo[c]>>
               \/ pc[c] = "idle" /\ Remaining(c)' <= 22
               \/ Remaining(c)' < Remaining(c)
    <2>1. CASE CallStep(c) \/ Abort(c)
      BY <1>2, <2>1, CallWindsDown, AbortingWindsDown
    <2>2. CASE \E r \in Request_ : Begin(c, r)
      BY <1>2, <2>2, BeginningIsBounded DEF Begin
    <2>3. QED
      BY <1>2, <2>1, <2>2, OthersLeaveCalls DEF Undisturbed
  <1>3. CallIInv /\ AuditInv /\ [Next]_vars =>
            [\A c \in Call :
                    \/ UNCHANGED <<pc[c], frame[c], todo[c]>>
                    \/ pc[c] = "idle" /\ Remaining(c)' <= 22
                    \/ Remaining(c)' < Remaining(c)]_vars
    BY <1>2
  <1>4. QED
    BY <1>1, <1>3, AuditInitOK, AuditStepInv, CallInvariant, PTL DEF Spec
==============================================================================
