------------------------- MODULE ApprovalStoreProofs -------------------------
(***************************************************************************)
(* Proofs about ApprovalStore for every set of clients, approvals,         *)
(* capabilities and scopes, and every degree of overlap.                   *)
(***************************************************************************)
EXTENDS ApprovalStore, SequenceTheorems, FiniteSetTheorems, TLAPS

-----------------------------------------------------------------------------
(* The file only grows.                                                    *)

LEMMA AppendFacts ==
    ASSUME NEW S, NEW s \in Seq(S), NEW e \in S
    PROVE  /\ Append(s, e) \in Seq(S)
           /\ Append(s, e) # <<>>
           /\ DOMAIN s = 1..Len(s)
           /\ DOMAIN Append(s, e) = 1..(Len(s) + 1)
           /\ Len(Append(s, e)) = Len(s) + 1
           /\ Len(s) \in Nat
           /\ \A i \in 1..Len(s) : Append(s, e)[i] = s[i]
           /\ Append(s, e)[Len(s) + 1] = e
  BY AppendProperties

LEMMA LatestIsLine ==
    ASSUME queue \in [ApprovalId -> Seq(Line)], NEW id \in ApprovalId, Known(id)
    PROVE  /\ Len(queue[id]) \in Nat \ {0}
           /\ Len(queue[id]) \in DOMAIN queue[id]
           /\ Latest(id) \in Line
  <1>1. queue[id] \in Seq(Line) /\ queue[id] # <<>>
    BY DEF Known
  <1>2. Len(queue[id]) \in Nat \ {0} /\ DOMAIN queue[id] = 1..Len(queue[id])
    BY <1>1, EmptySeq, LenProperties
  <1>3. QED
    BY <1>1, <1>2, ElementOfSeq DEF Latest

-----------------------------------------------------------------------------
(* Type correctness.                                                       *)

LEMMA NewRequestType ==
    ASSUME NEW cap \in Capability, NEW scope \in Scope \cup {NoScope}
    PROVE  NewRequest(cap, scope) \in Line
  BY DEF NewRequest, Line, Status

LEMMA TransitionedType ==
    ASSUME NEW record \in Line, NEW status \in Status
    PROVE  /\ Transitioned(record, status) \in Line
           /\ Transitioned(record, status).status = status
           /\ Transitioned(record, status).cap = record.cap
           /\ Transitioned(record, status).scope = record.scope
           /\ Transitioned(record, status).history = Append(record.history, status)
  <1>1. record.history \in Seq(Status)
    BY DEF Line
  <1>2. Append(record.history, status) \in Seq(Status)
    BY <1>1, AppendFacts
  <1>3. QED
    BY <1>2 DEF Transitioned, Line

-----------------------------------------------------------------------------
(* One lemma per way the store's state can change.                         *)

LEMMA InitIInv == StoreInit => StoreIInv
  <1> SUFFICES ASSUME StoreInit PROVE StoreIInv
    OBVIOUS
  <1>1. ASSUME NEW id \in ApprovalId
        PROVE  /\ queue[id] \in Seq(Line)
               /\ \A i \in DOMAIN queue[id] :
                    i = 1 /\ queue[id][i].history = <<"pending">>
                          /\ queue[id][i].status = "pending"
    <2>1. CASE queue[id] = <<>>
      BY <2>1
    <2>2. ASSUME NEW cap \in Capability, NEW scope \in Scope \cup {NoScope},
                 queue[id] = <<NewRequest(cap, scope)>>
          PROVE  /\ queue[id] \in Seq(Line)
                 /\ \A i \in DOMAIN queue[id] :
                      i = 1 /\ queue[id][i].history = <<"pending">>
                            /\ queue[id][i].status = "pending"
      <3>1. NewRequest(cap, scope) \in Line
        BY NewRequestType
      <3>2. queue[id] \in Seq(Line)
        BY <2>2, <3>1
      <3>3. DOMAIN queue[id] = {1} /\ queue[id][1] = NewRequest(cap, scope)
        BY <2>2
      <3>4. QED
        BY <3>2, <3>3 DEF NewRequest
    <2>3. queue[id] \in {<<>>} \cup {<<NewRequest(cap, scope)>> :
                    cap \in Capability, scope \in Scope \cup {NoScope}}
      BY DEF StoreInit
    <2>4. QED
      BY <2>1, <2>2, <2>3
  <1>2. StoreTypeOK
    <2>1. queue \in [ApprovalId -> Seq(Line)]
      BY <1>1 DEF StoreInit
    <2>2. frame \in [Client -> Frame]
      BY DEF StoreInit, Frame
    <2>3. QED
      BY <2>1, <2>2 DEF StoreTypeOK
  <1>3. FramesHonest
    BY DEF FramesHonest, StoreInit
  <1>4. GrantBeforeUse
    BY <1>1 DEF GrantBeforeUse, LinesWith
  <1>5. HistoryRooted
    BY <1>1 DEF HistoryRooted, Rooted
  <1>6. QED
    BY <1>2, <1>3, <1>4, <1>5 DEF StoreIInv

\* A step that appends nothing keeps what is said about the file alone.
LEMMA FileUnchanged ==
    ASSUME StoreIInv, UNCHANGED queue
    PROVE  GrantBeforeUse' /\ HistoryRooted' /\ queue' \in [ApprovalId -> Seq(Line)]
  BY DEF StoreIInv, StoreTypeOK, GrantBeforeUse, HistoryRooted, LinesWith

\* A client enters an operation: its new frame is honest, the others did not move.
LEMMA EnterIInv ==
    ASSUME StoreIInv, NEW c \in Client, NEW id \in ApprovalId, NEW status \in Status,
           Known(id), status = "used" => LinesWith(id, "approved") # {},
           Enter(c, id, status)
    PROVE  StoreIInv'
  <1> DEFINE f == [at |-> "checked", id |-> id, to |-> status]
  <1>1. GrantBeforeUse' /\ HistoryRooted' /\ queue' \in [ApprovalId -> Seq(Line)]
    BY FileUnchanged DEF Enter
  <1>2. f \in Frame /\ FrameHonest(queue, f)
    BY DEF Frame, FrameHonest, LinesWith, Known
  <1>3. queue' = queue /\ frame' = [frame EXCEPT ![c] = f]
    BY DEF Enter
  <1>4. frame' \in [Client -> Frame]
    BY <1>2, <1>3 DEF StoreIInv, StoreTypeOK
  <1>5. FramesHonest'
    BY <1>2, <1>3 DEF FramesHonest, StoreIInv, StoreTypeOK
  <1>6. QED
    BY <1>1, <1>4, <1>5 DEF StoreIInv, StoreTypeOK

\* A client leaves an operation without appending.
LEMMA LeaveIInv ==
    ASSUME StoreIInv, NEW c \in Client, frame' = [frame EXCEPT ![c] = Idle],
           UNCHANGED queue
    PROVE  StoreIInv'
  <1>1. GrantBeforeUse' /\ HistoryRooted' /\ queue' \in [ApprovalId -> Seq(Line)]
    BY FileUnchanged
  <1>2. frame' \in [Client -> Frame]
    BY DEF StoreIInv, StoreTypeOK, Frame
  <1>3. FramesHonest'
    BY DEF FramesHonest, StoreIInv, StoreTypeOK
  <1>4. QED
    BY <1>1, <1>2, <1>3 DEF StoreIInv, StoreTypeOK

\* A busy client's frame names an approval and a status.
LEMMA BusyFrame ==
    ASSUME StoreIInv, NEW c \in Client, frame[c] # Idle
    PROVE  /\ frame[c] \in Frame /\ frame[c].id \in ApprovalId /\ frame[c].to \in Status
           /\ FrameHonest(queue, frame[c])
           /\ frame[c].at = "copied" => frame[c].record \in Line
  BY DEF StoreIInv, StoreTypeOK, Frame, Idle, FramesHonest

LEMMA CopyIInv ==
    ASSUME StoreIInv, NEW c \in Client, Copy(c)
    PROVE  StoreIInv'
  <1> DEFINE id == frame[c].id
             f == [at |-> "copied", id |-> id, to |-> frame[c].to,
                   record |-> Latest(id)]
  <1>1. GrantBeforeUse' /\ HistoryRooted' /\ queue' \in [ApprovalId -> Seq(Line)]
    BY FileUnchanged DEF Copy
  <1>2. frame[c] # Idle
    BY DEF Copy, Idle
  <1>3. id \in ApprovalId /\ frame[c].to \in Status /\ FrameHonest(queue, frame[c])
    BY <1>2, BusyFrame
  <1>4. Known(id)
    BY <1>3 DEF FrameHonest, Known
  <1>5. Latest(id) \in Line /\ \E j \in DOMAIN queue[id] : queue[id][j] = Latest(id)
    BY <1>3, <1>4, LatestIsLine DEF StoreIInv, StoreTypeOK, Latest
  <1>6. f \in Frame
    BY <1>3, <1>5 DEF Frame
  <1>7. FrameHonest(queue, f)
    BY <1>3, <1>5 DEF FrameHonest
  <1>8. queue' = queue /\ frame' = [frame EXCEPT ![c] = f]
    BY DEF Copy
  <1> HIDE DEF f
  <1>9. frame' \in [Client -> Frame]
    BY <1>6, <1>8 DEF StoreIInv, StoreTypeOK
  <1>10. FramesHonest'
    BY <1>7, <1>8 DEF FramesHonest, StoreIInv, StoreTypeOK
  <1>11. QED
    BY <1>1, <1>9, <1>10 DEF StoreIInv, StoreTypeOK

\* A line appended to the file keeps every frame honest.
LEMMA HonestyIsStable ==
    ASSUME queue \in [ApprovalId -> Seq(Line)], NEW id \in ApprovalId,
           NEW line \in Line, AppendLine(id, line),
           NEW f, f.id \in ApprovalId, FrameHonest(queue, f)
    PROVE  FrameHonest(queue', f)
  <1>1. CASE f.id # id
    <2>1. queue'[f.id] = queue[f.id]
      BY <1>1 DEF AppendLine
    <2>2. QED
      BY <2>1 DEF FrameHonest
  <1>2. CASE f.id = id
    <2>1. queue[id] \in Seq(Line) /\ queue'[id] = Append(queue[id], line)
      BY DEF AppendLine
    <2>2. queue'[id] # <<>>
      BY <2>1, AppendFacts
    <2>3. \A j \in DOMAIN queue[id] :
            j \in DOMAIN queue'[id] /\ queue'[id][j] = queue[id][j]
      BY <2>1, AppendFacts
    <2>4. QED
      BY <1>2, <2>2, <2>3 DEF FrameHonest
  <1>3. QED
    BY <1>1, <1>2

\* A line may be appended if it is the approval's first and a request, or if it
\* continues the history of an earlier one and, being a use, follows a grant.
LEMMA AppendIInv ==
    ASSUME StoreIInv, NEW id \in ApprovalId, NEW line \in Line, AppendLine(id, line),
           line.status = "used" => LinesWith(id, "approved") # {},
           \/ queue[id] = <<>> /\ line.history = <<"pending">>
           \/ \E j \in DOMAIN queue[id] :
                /\ line.history = Append(queue[id][j].history, line.status)
                /\ line.cap = queue[id][j].cap
                /\ line.scope = queue[id][j].scope
    PROVE  GrantBeforeUse' /\ HistoryRooted' /\ queue' \in [ApprovalId -> Seq(Line)]
  <1> DEFINE n == Len(queue[id])
  <1>1. /\ queue \in [ApprovalId -> Seq(Line)] /\ queue[id] \in Seq(Line)
        /\ queue' = [queue EXCEPT ![id] = Append(queue[id], line)]
        /\ queue'[id] = Append(queue[id], line)
    BY DEF StoreIInv, StoreTypeOK, AppendLine
  <1>2. /\ n \in Nat /\ DOMAIN queue[id] = 1..n /\ DOMAIN queue'[id] = 1..(n + 1)
        /\ \A i \in 1..n : queue'[id][i] = queue[id][i]
        /\ queue'[id][n + 1] = line
        /\ queue'[id] \in Seq(Line)
    BY <1>1, AppendFacts
  <1>3. \A x \in ApprovalId : x # id => queue'[x] = queue[x]
    BY <1>1
  <1>4. queue' \in [ApprovalId -> Seq(Line)]
    BY <1>1, <1>2
  <1> HIDE DEF n
  <1>5. GrantBeforeUse'
    <2> SUFFICES ASSUME NEW x \in ApprovalId, NEW i \in DOMAIN queue'[x],
                        queue'[x][i].status = "used"
                 PROVE  \E j \in DOMAIN queue'[x] :
                            queue'[x][j].status = "approved" /\ j < i
      BY DEF GrantBeforeUse, LinesWith
    <2>1. CASE x # id
      BY <1>3, <2>1 DEF StoreIInv, GrantBeforeUse, LinesWith
    <2>2. CASE x = id /\ i \in 1..n
      <3>1. i \in LinesWith(id, "used")
        BY <1>2, <2>2 DEF LinesWith
      <3>2. PICK j \in LinesWith(id, "approved") : j < i
        BY <3>1 DEF StoreIInv, GrantBeforeUse
      <3>3. QED
        BY <1>2, <2>2, <3>2 DEF LinesWith
    <2>3. CASE x = id /\ i = n + 1
      <3>1. PICK j \in LinesWith(id, "approved") : TRUE
        BY <1>2, <2>3
      <3>2. QED
        BY <1>2, <2>3, <3>1 DEF LinesWith
    <2>4. QED
      BY <1>2, <2>1, <2>2, <2>3
  <1>6. HistoryRooted'
    <2> SUFFICES ASSUME NEW x \in ApprovalId, NEW i \in DOMAIN queue'[x]
                 PROVE  Rooted(queue'[x], i)
      BY DEF HistoryRooted
    <2>1. CASE x # id
      BY <1>3, <2>1 DEF StoreIInv, HistoryRooted
    <2>2. CASE x = id /\ i \in 1..n
      <3>1. i \in DOMAIN queue[id] /\ queue'[id][i] = queue[id][i]
        BY <1>2, <2>2
      <3>2. Rooted(queue[id], i)
        BY <3>1 DEF StoreIInv, HistoryRooted
      <3>3. \A j \in 1..(i - 1) : queue'[id][j] = queue[id][j]
        BY <1>2, <2>2
      <3>4. QED
        BY <2>2, <3>1, <3>2, <3>3 DEF Rooted
    <2>3. CASE x = id /\ i = n + 1
      <3>1. CASE queue[id] = <<>> /\ line.history = <<"pending">>
        <4>1. n = 0
          BY <3>1 DEF n
        <4>2. i = 1 /\ queue'[x][i] = line
          BY <1>2, <2>3, <4>1
        <4>3. QED
          BY <3>1, <4>2 DEF Rooted
      <3>2. ASSUME NEW j \in DOMAIN queue[id],
                   line.history = Append(queue[id][j].history, line.status),
                   line.cap = queue[id][j].cap, line.scope = queue[id][j].scope
            PROVE  Rooted(queue'[x], i)
        <4>1. j \in 1..(i - 1) /\ i # 1
          BY <1>2, <2>3, <3>2
        <4>2. queue'[x][j] = queue[id][j] /\ queue'[x][i] = line
          BY <1>2, <2>3, <3>2
        <4>3. QED
          BY <3>2, <4>1, <4>2 DEF Rooted
      <3>3. QED
        BY <3>1, <3>2
    <2>4. QED
      BY <1>2, <2>1, <2>2, <2>3
  <1>7. QED
    BY <1>4, <1>5, <1>6

LEMMA RequestIInv ==
    ASSUME StoreIInv, NEW c \in Client, NEW id \in ApprovalId, NEW cap \in Capability,
           NEW scope \in Scope \cup {NoScope}, Request(c, id, cap, scope)
    PROVE  StoreIInv'
  <1> DEFINE line == NewRequest(cap, scope)
  <1>1. line \in Line
    BY NewRequestType
  <1>2. AppendLine(id, line) /\ queue[id] = <<>> /\ frame' = frame
    BY DEF Request, Known
  <1>3. line.status = "pending" /\ line.history = <<"pending">>
    BY DEF NewRequest
  <1> HIDE DEF line
  <1>4. GrantBeforeUse' /\ HistoryRooted' /\ queue' \in [ApprovalId -> Seq(Line)]
    BY <1>1, <1>2, <1>3, AppendIInv
  <1>5. FramesHonest'
    <2> SUFFICES ASSUME NEW d \in Client, frame[d] # Idle
                 PROVE  FrameHonest(queue', frame[d])
      BY <1>2 DEF FramesHonest
    <2>1. frame[d].id \in ApprovalId /\ FrameHonest(queue, frame[d])
      BY BusyFrame
    <2>2. QED
      BY <1>1, <1>2, <2>1, HonestyIsStable DEF StoreIInv, StoreTypeOK
  <1>6. QED
    BY <1>2, <1>4, <1>5 DEF StoreIInv, StoreTypeOK

LEMMA CommitIInv ==
    ASSUME StoreIInv, NEW c \in Client, Commit(c)
    PROVE  StoreIInv'
  <1> DEFINE id == frame[c].id
             record == frame[c].record
             line == Transitioned(record, frame[c].to)
  <1>1. frame[c] # Idle /\ frame[c].at = "copied"
    BY DEF Commit, Idle
  <1>2. /\ id \in ApprovalId /\ frame[c].to \in Status /\ record \in Line
        /\ FrameHonest(queue, frame[c])
    BY <1>1, BusyFrame
  <1>3. /\ line \in Line /\ line.status = frame[c].to /\ line.cap = record.cap
        /\ line.scope = record.scope
        /\ line.history = Append(record.history, line.status)
    BY <1>2, TransitionedType
  <1>4. AppendLine(id, line) /\ frame' = [frame EXCEPT ![c] = Idle]
    BY DEF Commit
  <1>5. line.status = "used" => LinesWith(id, "approved") # {}
    BY <1>2, <1>3 DEF FrameHonest, LinesWith
  <1>6. PICK j \in DOMAIN queue[id] : queue[id][j] = record
    BY <1>1, <1>2 DEF FrameHonest
  <1> HIDE DEF id, record, line
  <1>7. GrantBeforeUse' /\ HistoryRooted' /\ queue' \in [ApprovalId -> Seq(Line)]
    BY <1>2, <1>3, <1>4, <1>5, <1>6, AppendIInv
  <1>8. frame' \in [Client -> Frame]
    BY <1>4 DEF StoreIInv, StoreTypeOK, Frame
  <1>9. FramesHonest'
    <2> SUFFICES ASSUME NEW d \in Client, frame'[d] # Idle
                 PROVE  FrameHonest(queue', frame'[d])
      BY DEF FramesHonest
    <2>1. frame'[d] = frame[d]
      BY <1>4 DEF StoreIInv, StoreTypeOK
    <2>2. frame[d].id \in ApprovalId /\ FrameHonest(queue, frame[d])
      BY <2>1, BusyFrame
    <2>3. QED
      BY <1>2, <1>3, <1>4, <2>1, <2>2, HonestyIsStable DEF StoreIInv, StoreTypeOK
  <1>10. QED
    BY <1>7, <1>8, <1>9 DEF StoreIInv, StoreTypeOK

LEMMA StepIInv == StoreIInv /\ [StoreNext]_storeVars => StoreIInv'
  <1> SUFFICES ASSUME StoreIInv, [StoreNext]_storeVars PROVE StoreIInv'
    OBVIOUS
  <1>1. ASSUME NEW c \in Client, NEW id \in ApprovalId, NEW cap \in Capability,
               NEW scope \in Scope \cup {NoScope}, Request(c, id, cap, scope)
        PROVE  StoreIInv'
    BY <1>1, RequestIInv
  <1>2. ASSUME NEW c \in Client, NEW id \in ApprovalId, NEW cap \in Capability,
               NEW scope \in Scope \cup {NoScope}, Use(c, id, cap, scope)
        PROVE  StoreIInv'
    <2>1. Known(id) /\ Latest(id).status = "approved" /\ Enter(c, id, "used")
      BY <1>2 DEF Use, CanUse
    <2>2. LinesWith(id, "approved") # {}
      BY <2>1, LatestIsLine DEF LinesWith, Latest, StoreIInv, StoreTypeOK
    <2>3. QED
      BY <2>1, <2>2, EnterIInv DEF Status
  <1>3. ASSUME NEW c \in Client, NEW id \in ApprovalId,
               NEW decision \in {"approved", "denied"}, Decide(c, id, decision)
        PROVE  StoreIInv'
    <2>1. Known(id) /\ Enter(c, id, decision)
      BY <1>3 DEF Decide, CanDecide
    <2>2. decision \in Status /\ decision # "used"
      BY DEF Status
    <2>3. QED
      BY <2>1, <2>2, EnterIInv
  <1>4. ASSUME NEW c \in Client, Copy(c) PROVE StoreIInv'
    BY <1>4, CopyIInv
  <1>5. ASSUME NEW c \in Client, Commit(c) PROVE StoreIInv'
    BY <1>5, CommitIInv
  <1>6. ASSUME NEW c \in Client, Die(c) PROVE StoreIInv'
    BY <1>6, LeaveIInv DEF Die
  <1>7. CASE UNCHANGED storeVars
    BY <1>7 DEF storeVars, StoreIInv, StoreTypeOK, FramesHonest, GrantBeforeUse,
                HistoryRooted, LinesWith
  <1>8. QED
    BY <1>1, <1>2, <1>3, <1>4, <1>5, <1>6, <1>7 DEF StoreNext

-----------------------------------------------------------------------------
(* The theorems.                                                           *)

\* The inductive invariant of the store.
THEOREM StoreInvariant == StoreSpec => []StoreIInv
  BY InitIInv, StepIInv, PTL DEF StoreSpec

\* Every state of the queue and of the clients' frames is well typed.
THEOREM StoreTypeCorrect == StoreSpec => []StoreTypeOK
  <1>1. StoreIInv => StoreTypeOK
    BY DEF StoreIInv
  <1>2. QED
    BY <1>1, StoreInvariant, PTL

\* However many clients overlap, an approval is marked used only after the file
\* holds a line that approved it.
THEOREM GrantsPrecedeUses == StoreSpec => []GrantBeforeUse
  <1>1. StoreIInv => GrantBeforeUse
    BY DEF StoreIInv
  <1>2. QED
    BY <1>1, StoreInvariant, PTL

\* However many clients overlap, every line continues an earlier line of the same
\* approval, about the same capability and scope.
THEOREM HistoriesAreRooted == StoreSpec => []HistoryRooted
  <1>1. StoreIInv => HistoryRooted
    BY DEF StoreIInv
  <1>2. QED
    BY <1>1, StoreInvariant, PTL

-----------------------------------------------------------------------------
(* The latest line after an append.                                        *)

LEMMA LatestAfterAppend ==
    ASSUME StoreTypeOK, NEW id \in ApprovalId, NEW line \in Line, AppendLine(id, line)
    PROVE  /\ queue'[id] = Append(queue[id], line)
           /\ queue'[id] # <<>>
           /\ queue'[id][Len(queue'[id])] = line
           /\ \A x \in ApprovalId : x # id => queue'[x] = queue[x]
  <1>1. queue[id] \in Seq(Line) /\ queue'[id] = Append(queue[id], line)
    BY DEF StoreTypeOK, AppendLine
  <1>2. queue'[id] # <<>> /\ queue'[id][Len(queue'[id])] = line
    BY <1>1, AppendFacts
  <1>3. QED
    BY <1>1, <1>2 DEF AppendLine, StoreTypeOK

-----------------------------------------------------------------------------
(* Operations that overlap: what they can do is bounded by how many can be *)
(* under way at once.                                                      *)

\* The lines of an approval can be counted.
LEMMA LinesCounted ==
    ASSUME StoreTypeOK, NEW id \in ApprovalId, NEW status
    PROVE  /\ IsFiniteSet(LinesWith(id, status))
           /\ Cardinality(LinesWith(id, status)) \in Nat
  <1>1. queue[id] \in Seq(Line)
    BY DEF StoreTypeOK
  <1>2. IsFiniteSet(DOMAIN queue[id])
    BY <1>1, LenProperties, FS_Interval
  <1>3. QED
    BY <1>2, FS_Subset, FS_CardinalityType DEF LinesWith

\* An append adds one line, of one status, to one approval.
LEMMA LinesAppended ==
    ASSUME StoreTypeOK, NEW id \in ApprovalId, NEW line \in Line, AppendLine(id, line),
           NEW x \in ApprovalId, NEW status
    PROVE  Cardinality(LinesWith(x, status)') =
               IF x = id /\ line.status = status
               THEN Cardinality(LinesWith(x, status)) + 1
               ELSE Cardinality(LinesWith(x, status))
  <1> DEFINE n == Len(queue[id])
             S == LinesWith(id, status)
             T == {i \in DOMAIN queue'[id] : queue'[id][i].status = status}
  <1>1. CASE x # id
    <2>1. queue'[x] = queue[x]
      BY <1>1, LatestAfterAppend
    <2>2. QED
      BY <1>1, <2>1 DEF LinesWith
  <1>2. CASE x = id
    <2>1. queue[id] \in Seq(Line) /\ queue'[id] = Append(queue[id], line)
      BY LatestAfterAppend DEF StoreTypeOK
    <2>2. /\ n \in Nat /\ DOMAIN queue[id] = 1..n /\ DOMAIN queue'[id] = 1..(n + 1)
          /\ \A i \in 1..n : queue'[id][i] = queue[id][i]
          /\ queue'[id][n + 1] = line
      BY <2>1, AppendFacts
    <2>3. IsFiniteSet(S) /\ n + 1 \notin S
      <3>1. n + 1 \notin DOMAIN queue[id]
        BY <2>2
      <3>2. IsFiniteSet(S)
        BY LinesCounted
      <3>3. QED
        BY <3>1, <3>2 DEF LinesWith
    <2>4. T = IF line.status = status THEN S \cup {n + 1} ELSE S
      <3> HIDE DEF n
      <3>1. \A i \in T : i \in S \/ i = n + 1
        BY <2>2 DEF LinesWith
      <3>2. S \subseteq T
        BY <2>2 DEF LinesWith
      <3>3. n + 1 \in T <=> line.status = status
        BY <2>2
      <3> HIDE DEF S, T
      <3>4. QED
        BY <2>3, <3>1, <3>2, <3>3
    <2>5. LinesWith(x, status)' = T
      BY <1>2 DEF LinesWith
    <2> HIDE DEF S, T, n
    <2>6. Cardinality(S \cup {n + 1}) = Cardinality(S) + 1
      BY <2>3, FS_AddElement
    <2>7. S = LinesWith(x, status)
      BY <1>2 DEF S
    <2>8. QED
      BY <1>2, <2>4, <2>5, <2>6, <2>7
  <1>3. QED
    BY <1>1, <1>2

\* So can the clients in flight.
LEMMA FlightsCounted ==
    ASSUME NEW S, S \subseteq InFlight
    PROVE  /\ IsFiniteSet(S) /\ Cardinality(S) \in Nat
           /\ Cardinality(S) <= Cardinality(InFlight)
           /\ Cardinality(InFlight) \in Nat
  <1>1. IsFiniteSet(InFlight)
    BY StoreAssumption, FS_Subset DEF InFlight
  <1>2. QED
    BY <1>1, FS_Subset, FS_CardinalityType

LEMMA AccountsCounted ==
    ASSUME StoreTypeOK, NEW id \in ApprovalId
    PROVE  /\ Cardinality(LinesWith(id, "approved")) \in Nat
           /\ Cardinality(LinesWith(id, "denied")) \in Nat
           /\ Cardinality(LinesWith(id, "used")) \in Nat
           /\ Cardinality(Deciders(id)) \in Nat
           /\ Cardinality(Users(id)) \in Nat
           /\ MaxInFlight \in Nat
  <1>1. Deciders(id) \subseteq InFlight /\ Users(id) \subseteq InFlight
    BY DEF Deciders, Users
  <1>2. QED
    BY <1>1, LinesCounted, FlightsCounted, StoreAssumption

\* The conjuncts of OverlapIInv beside StoreIInv.
Overlap ==
    /\ Cardinality(InFlight) <= MaxInFlight
    /\ \A c \in InFlight : frame[c].to # "pending"
    /\ \A id \in ApprovalId : Accounted(id)

LEMMA OverlapSplit == OverlapIInv <=> StoreIInv /\ Overlap
  BY DEF OverlapIInv, Overlap

LEMMA OverlapInit == StoreInit => Overlap
  <1> SUFFICES ASSUME StoreInit PROVE Overlap
    OBVIOUS
  <1>1. InFlight = {}
    BY DEF StoreInit, InFlight
  <1>2. Cardinality(InFlight) = 0 /\ MaxInFlight \in Nat
    BY <1>1, FS_EmptySet, StoreAssumption
  <1>3. ASSUME NEW id \in ApprovalId PROVE Accounted(id)
    <2>1. ASSUME NEW status \in {"approved", "denied", "used"}
          PROVE  LinesWith(id, status) = {}
      <3>1. CASE queue[id] = <<>>
        BY <3>1 DEF LinesWith
      <3>2. ASSUME NEW cap \in Capability, NEW scope \in Scope \cup {NoScope},
                   queue[id] = <<NewRequest(cap, scope)>>
            PROVE  LinesWith(id, status) = {}
        <4>1. DOMAIN queue[id] = {1} /\ queue[id][1] = NewRequest(cap, scope)
          BY <3>2
        <4>2. QED
          BY <4>1 DEF LinesWith, NewRequest
      <3>3. QED
        BY <3>1, <3>2 DEF StoreInit
    <2>2. \A status \in {"approved", "denied", "used"} :
              Cardinality(LinesWith(id, status)) = 0
      BY <2>1, FS_EmptySet
    <2>3. Deciders(id) = {} /\ Users(id) = {}
      BY <1>1 DEF Deciders, Users
    <2>4. Cardinality(Deciders(id)) = 0 /\ Cardinality(Users(id)) = 0
      BY <2>3, FS_EmptySet
    <2>5. Known(id) => Latest(id).status # "approved"
      <3> SUFFICES ASSUME Known(id) PROVE Latest(id).status # "approved"
        OBVIOUS
      <3>1. Len(queue[id]) \in DOMAIN queue[id]
        BY LatestIsLine, InitIInv DEF StoreIInv, StoreTypeOK
      <3>2. QED
        BY <2>1, <3>1 DEF LinesWith, Latest
    <2>6. MaxInFlight * 0 = 0
      BY <1>2
    <2>7. QED
      BY <1>2, <2>2, <2>4, <2>5, <2>6 DEF Accounted
  <1>4. QED
    BY <1>1, <1>2, <1>3 DEF Overlap

\* An approval to which no line is added, and on which nobody begins an operation, is
\* accounted for as before.
LEMMA AccountKept ==
    ASSUME StoreTypeOK, NEW x \in ApprovalId, Accounted(x), queue'[x] = queue[x],
           Deciders(x)' \subseteq Deciders(x), Users(x)' \subseteq Users(x)
    PROVE  Accounted(x)'
  <1> DEFINE d == Cardinality(Deciders(x))
             u == Cardinality(Users(x))
             d2 == Cardinality(Deciders(x)')
             u2 == Cardinality(Users(x)')
  <1>1. IsFiniteSet(Deciders(x)) /\ IsFiniteSet(Users(x))
    <2>1. Deciders(x) \subseteq InFlight /\ Users(x) \subseteq InFlight
      BY DEF Deciders, Users
    <2>2. QED
      BY <2>1, FlightsCounted
  <1>2. d2 \in Nat /\ u2 \in Nat /\ d2 <= d /\ u2 <= u /\ d \in Nat /\ u \in Nat
    BY <1>1, FS_Subset, FS_CardinalityType
  <1>3. \A status : LinesWith(x, status)' = LinesWith(x, status)
    BY DEF LinesWith
  <1>4. /\ Known(x)' = Known(x) /\ Latest(x)' = Latest(x)
        /\ CanDecide(x)' = CanDecide(x)
    BY DEF Known, Latest, CanDecide
  <1> DEFINE a == Cardinality(LinesWith(x, "approved"))
             e == Cardinality(LinesWith(x, "denied"))
             v == Cardinality(LinesWith(x, "used"))
             p == MaxInFlight * a
  <1>5. a \in Nat /\ e \in Nat /\ v \in Nat /\ p \in Nat /\ MaxInFlight \in Nat
    BY AccountsCounted
  <1>6. /\ CanDecide(x) => a + e = 0
        /\ a + e + d <= MaxInFlight
        /\ v + u <= p
        /\ Known(x) /\ Latest(x).status = "approved" => v + MaxInFlight <= p
    BY DEF Accounted
  <1>7. Accounted(x)' <=>
          /\ CanDecide(x) => a + e = 0
          /\ a + e + d2 <= MaxInFlight
          /\ v + u2 <= p
          /\ Known(x) /\ Latest(x).status = "approved" => v + MaxInFlight <= p
    BY <1>3, <1>4 DEF Accounted
  <1> HIDE DEF a, e, v, p, d, u, d2, u2
  <1>8. QED
    BY <1>2, <1>5, <1>6, <1>7

\* A client that enters an operation finds the room for it in the account.
LEMMA OverlapEnter ==
    ASSUME StoreIInv, Overlap, NEW c \in Client, NEW id \in ApprovalId,
           NEW status \in Status \ {"pending"}, Enter(c, id, status),
           IF status = "used" THEN Known(id) /\ Latest(id).status = "approved"
                              ELSE CanDecide(id)
    PROVE  Overlap'
  <1> DEFINE f == [at |-> "checked", id |-> id, to |-> status]
  <1>1. /\ queue' = queue /\ c \notin InFlight
        /\ Cardinality(InFlight) < MaxInFlight
        /\ frame' = [frame EXCEPT ![c] = f] /\ frame \in [Client -> Frame]
    BY DEF Enter, InFlight, StoreIInv, StoreTypeOK
  <1>2. f # Idle /\ f.to = status /\ f.id = id
    BY DEF Idle
  <1>3. /\ InFlight' = InFlight \cup {c}
        /\ frame'[c] = f
        /\ \A b \in Client \ {c} : frame'[b] = frame[b]
    BY <1>1, <1>2 DEF InFlight
  <1>4. IsFiniteSet(InFlight)
    BY FlightsCounted
  <1> DEFINE S == InFlight
  <1> HIDE DEF S, f
  <1>5. Cardinality(S \cup {c}) = Cardinality(S) + 1
    BY <1>1, <1>4, FS_AddElement DEF S
  <1>6. /\ Cardinality(InFlight') <= MaxInFlight /\ MaxInFlight \in Nat
        /\ Cardinality(InFlight') \in Nat /\ IsFiniteSet(InFlight')
    <2>1. Cardinality(InFlight') = Cardinality(InFlight) + 1
      BY <1>3, <1>5 DEF S
    <2>2. IsFiniteSet(InFlight')
      BY <1>3, <1>4, FS_AddElement
    <2>3. QED
      BY <1>1, <2>1, <2>2, FlightsCounted, FS_CardinalityType, StoreAssumption
  <1>7. \A b \in InFlight' : frame'[b].to # "pending"
    BY <1>2, <1>3 DEF Overlap, InFlight
  <1>8. ASSUME NEW x \in ApprovalId PROVE Accounted(x)'
    <2>1. CASE x # id
      <3>1. Deciders(x)' \subseteq Deciders(x) /\ Users(x)' \subseteq Users(x)
        BY <1>2, <1>3, <2>1 DEF Deciders, Users, InFlight
      <3>2. QED
        BY <1>1, <3>1, AccountKept DEF Overlap, StoreIInv
    <2>2. CASE x = id
      <3> DEFINE a == Cardinality(LinesWith(id, "approved"))
                 e == Cardinality(LinesWith(id, "denied"))
                 v == Cardinality(LinesWith(id, "used"))
                 p == MaxInFlight * a
                 d == Cardinality(Deciders(id))
                 u == Cardinality(Users(id))
                 d2 == Cardinality(Deciders(id)')
                 u2 == Cardinality(Users(id)')
      <3>1. /\ a \in Nat /\ e \in Nat /\ v \in Nat /\ p \in Nat /\ d \in Nat /\ u \in Nat
        BY AccountsCounted DEF StoreIInv
      <3>2. /\ CanDecide(id) => a + e = 0
            /\ a + e + d <= MaxInFlight
            /\ v + u <= p
            /\ Known(id) /\ Latest(id).status = "approved" => v + MaxInFlight <= p
        BY DEF Overlap, Accounted
      <3>3. Accounted(id)' <=>
              /\ CanDecide(id) => a + e = 0
              /\ a + e + d2 <= MaxInFlight
              /\ v + u2 <= p
              /\ Known(id) /\ Latest(id).status = "approved" => v + MaxInFlight <= p
        BY <1>1 DEF Accounted, LinesWith, CanDecide, Known, Latest
      <3>4. Deciders(id)' \subseteq InFlight' /\ Users(id)' \subseteq InFlight'
        BY DEF Deciders, Users
      <3>5. d2 \in Nat /\ u2 \in Nat /\ d2 <= MaxInFlight /\ u2 <= MaxInFlight
        BY <1>6, <3>4, FS_Subset, FS_CardinalityType
      <3>6. CASE status = "used"
        <4>1. Deciders(id)' = Deciders(id)
          BY <1>1, <1>2, <1>3, <3>6 DEF Deciders, InFlight
        <4>2. d2 = d
          BY <4>1
        <4> HIDE DEF a, e, v, p, d, u, d2, u2
        <4>3. QED
          BY <1>6, <2>2, <3>1, <3>2, <3>3, <3>5, <3>6, <4>2
      <3>7. CASE status # "used"
        <4>1. Users(id)' = Users(id)
          BY <1>1, <1>2, <1>3, <3>7 DEF Users, InFlight
        <4>2. u2 = u
          BY <4>1
        <4> HIDE DEF a, e, v, p, d, u, d2, u2
        <4>3. QED
          BY <1>6, <2>2, <3>1, <3>2, <3>3, <3>5, <3>7, <4>2
      <3>8. QED
        BY <3>6, <3>7
    <2>3. QED
      BY <2>1, <2>2
  <1>9. QED
    BY <1>6, <1>7, <1>8 DEF Overlap

\* A client that leaves its operation is no longer in flight; the others are where
\* they were.
LEMMA FlightsLeft ==
    ASSUME StoreTypeOK, NEW c \in InFlight, frame' = [frame EXCEPT ![c] = Idle]
    PROVE  /\ InFlight' = InFlight \ {c}
           /\ \A b \in InFlight' : frame'[b] = frame[b]
           /\ Cardinality(InFlight') <= Cardinality(InFlight)
           /\ \A x : /\ Deciders(x)' = Deciders(x) \ {c}
                     /\ Users(x)' = Users(x) \ {c}
  <1>1. /\ frame \in [Client -> Frame] /\ c \in Client
        /\ frame'[c] = Idle /\ \A b \in Client \ {c} : frame'[b] = frame[b]
    BY DEF StoreTypeOK, InFlight
  <1>2. InFlight' = InFlight \ {c} /\ \A b \in InFlight' : frame'[b] = frame[b]
    BY <1>1 DEF InFlight
  <1>3. Cardinality(InFlight') <= Cardinality(InFlight)
    BY <1>2, FlightsCounted
  <1>4. \A x : /\ Deciders(x)' = Deciders(x) \ {c}
               /\ Users(x)' = Users(x) \ {c}
    BY <1>2 DEF Deciders, Users
  <1>5. QED
    BY <1>2, <1>3, <1>4

LEMMA OverlapDie ==
    ASSUME StoreIInv, Overlap, NEW c \in Client, Die(c)
    PROVE  Overlap'
  <1>1. c \in InFlight /\ queue' = queue /\ frame' = [frame EXCEPT ![c] = Idle]
    BY DEF Die, InFlight
  <1>2. /\ InFlight' = InFlight \ {c}
        /\ \A b \in InFlight' : frame'[b] = frame[b]
        /\ Cardinality(InFlight') <= Cardinality(InFlight)
        /\ \A x : Deciders(x)' = Deciders(x) \ {c} /\ Users(x)' = Users(x) \ {c}
    BY <1>1, FlightsLeft DEF StoreIInv
  <1>3. \A x \in ApprovalId : Accounted(x)'
    <2> SUFFICES ASSUME NEW x \in ApprovalId PROVE Accounted(x)'
      OBVIOUS
    <2>1. QED
      BY <1>1, <1>2, AccountKept DEF Overlap, StoreIInv
  <1>4. Cardinality(InFlight') <= MaxInFlight
    <2>1. Cardinality(InFlight) \in Nat /\ Cardinality(InFlight') \in Nat
      <3>1. InFlight' \subseteq InFlight
        BY <1>2
      <3>2. QED
        BY <3>1, FlightsCounted
    <2>2. QED
      BY <1>2, <2>1, StoreAssumption DEF Overlap
  <1>5. \A b \in InFlight' : frame'[b].to # "pending"
    BY <1>2 DEF Overlap
  <1>6. QED
    BY <1>3, <1>4, <1>5 DEF Overlap

LEMMA OverlapCopy ==
    ASSUME StoreIInv, Overlap, NEW c \in Client, Copy(c)
    PROVE  Overlap'
  <1> DEFINE f == [at |-> "copied", id |-> frame[c].id, to |-> frame[c].to,
                   record |-> Latest(frame[c].id)]
  <1>1. /\ c \in InFlight /\ queue' = queue /\ frame' = [frame EXCEPT ![c] = f]
        /\ frame \in [Client -> Frame]
    BY DEF Copy, InFlight, Idle, StoreIInv, StoreTypeOK
  <1>2. f # Idle /\ f.to = frame[c].to /\ f.id = frame[c].id
    BY DEF Idle
  <1> HIDE DEF f
  <1>3. /\ InFlight' = InFlight
        /\ \A b \in InFlight : frame'[b].to = frame[b].to /\ frame'[b].id = frame[b].id
    BY <1>1, <1>2 DEF InFlight
  <1>4. \A x : Deciders(x)' = Deciders(x) /\ Users(x)' = Users(x)
    BY <1>3 DEF Deciders, Users
  <1>5. ASSUME NEW x \in ApprovalId PROVE Accounted(x)'
    BY <1>1, <1>4, AccountKept DEF Overlap, StoreIInv
  <1>6. QED
    BY <1>3, <1>5 DEF Overlap

LEMMA OverlapRequest ==
    ASSUME StoreIInv, Overlap, NEW c \in Client, NEW id \in ApprovalId,
           NEW cap \in Capability, NEW scope \in Scope \cup {NoScope},
           Request(c, id, cap, scope)
    PROVE  Overlap'
  <1> DEFINE line == NewRequest(cap, scope)
  <1>1. line \in Line /\ line.status = "pending"
    BY NewRequestType DEF NewRequest
  <1>2. /\ queue[id] = <<>> /\ AppendLine(id, line) /\ frame' = frame
    BY DEF Request, Known
  <1> HIDE DEF line
  <1>3. /\ queue'[id][Len(queue'[id])] = line
        /\ \A x \in ApprovalId : x # id => queue'[x] = queue[x]
    BY <1>1, <1>2, LatestAfterAppend DEF StoreIInv
  <1>4. InFlight' = InFlight /\ \A x : Deciders(x)' = Deciders(x) /\ Users(x)' = Users(x)
    BY <1>2 DEF InFlight, Deciders, Users
  <1>5. ASSUME NEW x \in ApprovalId PROVE Accounted(x)'
    <2>1. CASE x # id
      BY <1>3, <1>4, <2>1, AccountKept DEF Overlap, StoreIInv
    <2>2. CASE x = id
      <3> DEFINE a == Cardinality(LinesWith(id, "approved"))
                 e == Cardinality(LinesWith(id, "denied"))
                 v == Cardinality(LinesWith(id, "used"))
                 p == MaxInFlight * a
                 d == Cardinality(Deciders(id))
                 u == Cardinality(Users(id))
      <3>1. LinesWith(id, "approved") = {} /\ LinesWith(id, "denied") = {}
        BY <1>2 DEF LinesWith
      <3>2. a + e = 0
        BY <3>1, FS_EmptySet
      <3>3. /\ Cardinality(LinesWith(id, "approved")') = a
            /\ Cardinality(LinesWith(id, "denied")') = e
            /\ Cardinality(LinesWith(id, "used")') = v
        BY <1>1, <1>2, LinesAppended DEF StoreIInv
      <3>4. a + e + d <= MaxInFlight /\ v + u <= p
        BY DEF Overlap, Accounted
      <3>5. Latest(id)'.status # "approved"
        BY <1>1, <1>3 DEF Latest
      <3>6. /\ Deciders(id)' = Deciders(id) /\ Users(id)' = Users(id)
        BY <1>4
      <3>7. Accounted(id)'
        BY <3>2, <3>3, <3>4, <3>5, <3>6 DEF Accounted
      <3>8. QED
        BY <2>2, <3>7
    <2>3. QED
      BY <2>1, <2>2
  <1>6. QED
    BY <1>2, <1>4, <1>5 DEF Overlap

\* A commit turns the client counted as deciding, or consuming, into the line it
\* was counted for.
LEMMA OverlapCommit ==
    ASSUME StoreIInv, Overlap, NEW c \in Client, Commit(c)
    PROVE  Overlap'
  <1>1. c \in InFlight /\ frame[c] # Idle /\ frame[c].at = "copied"
    BY DEF Commit, InFlight, Idle
  <1>1a. /\ frame[c].id \in ApprovalId /\ frame[c].to \in Status
        /\ frame[c].record \in Line /\ frame[c].to # "pending"
    BY <1>1, BusyFrame DEF Overlap
  <1>1b. PICK id \in ApprovalId : id = frame[c].id
    BY <1>1a
  <1>1c. PICK to \in Status : to = frame[c].to
    BY <1>1a
  <1>1d. PICK line \in Line : line = Transitioned(frame[c].record, frame[c].to)
    BY <1>1a, TransitionedType
  <1>2. to # "pending"
    BY <1>1a, <1>1c
  <1>3. line.status = to
    BY <1>1a, <1>1c, <1>1d, TransitionedType
  <1>4. AppendLine(id, line) /\ frame' = [frame EXCEPT ![c] = Idle]
    BY <1>1b, <1>1d DEF Commit
  <1>5. /\ c \in Deciders(id) <=> to # "used"
        /\ c \in Users(id) <=> to = "used"
    BY <1>1, <1>1b, <1>1c DEF Deciders, Users
  <1>6. /\ InFlight' = InFlight \ {c}
        /\ \A b \in InFlight' : frame'[b] = frame[b]
        /\ Cardinality(InFlight') <= Cardinality(InFlight)
        /\ \A x : Deciders(x)' = Deciders(x) \ {c} /\ Users(x)' = Users(x) \ {c}
    BY <1>1, <1>4, FlightsLeft DEF StoreIInv
  <1>7. /\ queue'[id] # <<>>
        /\ queue'[id][Len(queue'[id])] = line
        /\ \A x \in ApprovalId : x # id => queue'[x] = queue[x]
    BY <1>2, <1>3, <1>4, LatestAfterAppend DEF StoreIInv
  <1>8. ASSUME NEW x \in ApprovalId PROVE Accounted(x)'
    <2>1. CASE x # id
      BY <1>6, <1>7, <2>1, AccountKept DEF Overlap, StoreIInv
    <2>2. CASE x = id
      <3> DEFINE a == Cardinality(LinesWith(id, "approved"))
                 e == Cardinality(LinesWith(id, "denied"))
                 v == Cardinality(LinesWith(id, "used"))
                 d == Cardinality(Deciders(id))
                 u == Cardinality(Users(id))
                 a2 == Cardinality(LinesWith(id, "approved")')
                 e2 == Cardinality(LinesWith(id, "denied")')
                 v2 == Cardinality(LinesWith(id, "used")')
                 d2 == Cardinality(Deciders(id)')
                 u2 == Cardinality(Users(id)')
      <3>1. a \in Nat /\ e \in Nat /\ v \in Nat /\ d \in Nat /\ u \in Nat /\ MaxInFlight \in Nat
        BY <1>2, AccountsCounted DEF StoreIInv
      <3>2. /\ a + e + d <= MaxInFlight
            /\ v + u <= MaxInFlight * a
        BY <1>2 DEF Overlap, Accounted
      <3>3. /\ a2 = IF to = "approved" THEN a + 1 ELSE a
            /\ e2 = IF to = "denied" THEN e + 1 ELSE e
            /\ v2 = IF to = "used" THEN v + 1 ELSE v
        <4>1. a2 = IF to = "approved" THEN a + 1 ELSE a
          BY <1>3, <1>4, LinesAppended DEF StoreIInv
        <4>2. e2 = IF to = "denied" THEN e + 1 ELSE e
          BY <1>3, <1>4, LinesAppended DEF StoreIInv
        <4>3. v2 = IF to = "used" THEN v + 1 ELSE v
          BY <1>3, <1>4, LinesAppended DEF StoreIInv
        <4>4. QED
          BY <4>1, <4>2, <4>3
      <3>4. /\ IsFiniteSet(Deciders(id)) /\ IsFiniteSet(Users(id))
        <4>1. Deciders(id) \subseteq InFlight /\ Users(id) \subseteq InFlight
          BY DEF Deciders, Users
        <4>2. QED
          BY <4>1, FlightsCounted
      <3>5. /\ d2 = IF to = "used" THEN d ELSE d - 1
            /\ u2 = IF to = "used" THEN u - 1 ELSE u
        <4> DEFINE DS == Deciders(id)
                   US == Users(id)
        <4>1. Deciders(id)' = DS \ {c} /\ Users(id)' = US \ {c}
          BY <1>6
        <4>2. c \in DS <=> to # "used"
          BY <1>5
        <4>3. c \in US <=> to = "used"
          BY <1>5
        <4>4. IsFiniteSet(DS) /\ IsFiniteSet(US)
          BY <3>4
        <4>5. d = Cardinality(DS) /\ u = Cardinality(US)
          OBVIOUS
        <4>6. d2 = Cardinality(DS \ {c}) /\ u2 = Cardinality(US \ {c})
          BY <4>1
        <4> HIDE DEF DS, US, d, u, d2, u2
        <4>7. CASE to = "used"
          <5>1. DS \ {c} = DS
            BY <4>2, <4>7
          <5>2. Cardinality(US \ {c}) = Cardinality(US) - 1
            BY <4>3, <4>4, <4>7, FS_RemoveElement
          <5>3. QED
            BY <4>5, <4>6, <4>7, <5>1, <5>2
        <4>8. CASE to # "used"
          <5>1. US \ {c} = US
            BY <4>3, <4>8
          <5>2. Cardinality(DS \ {c}) = Cardinality(DS) - 1
            BY <4>2, <4>4, <4>8, FS_RemoveElement
          <5>3. QED
            BY <4>5, <4>6, <4>8, <5>1, <5>2
        <4>9. QED
          BY <4>7, <4>8
      <3>6. Known(id)' /\ Latest(id)'.status = to /\ ~CanDecide(id)'
        BY <1>2, <1>3, <1>7 DEF Known, Latest, CanDecide
      <3>7. Accounted(id)' <=>
              /\ a2 + e2 + d2 <= MaxInFlight
              /\ v2 + u2 <= MaxInFlight * a2
              /\ to = "approved" => v2 + MaxInFlight <= MaxInFlight * a2
        BY <3>6 DEF Accounted
      <3> HIDE DEF a, e, v, d, u, a2, e2, v2, d2, u2
      <3>8. to \in {"approved", "denied", "used"}
        BY <1>2 DEF Status
      <3>9. MaxInFlight * (a + 1) = MaxInFlight * a + MaxInFlight /\ MaxInFlight * a \in Nat
        BY <3>1
      <3>10. Accounted(id)'
        <4>1. CASE to = "approved"
          BY <3>1, <3>2, <3>3, <3>5, <3>7, <3>9, <4>1
        <4>2. CASE to = "denied"
          BY <3>1, <3>2, <3>3, <3>5, <3>7, <3>9, <4>2
        <4>3. CASE to = "used"
          BY <3>1, <3>2, <3>3, <3>5, <3>7, <3>9, <4>3
        <4>4. QED
          BY <3>8, <4>1, <4>2, <4>3
      <3>11. QED
        BY <2>2, <3>10
    <2>3. QED
      BY <2>1, <2>2
  <1>9. Cardinality(InFlight') <= MaxInFlight
    <2>1. Cardinality(InFlight) \in Nat /\ Cardinality(InFlight') \in Nat
      <3>1. InFlight' \subseteq InFlight
        BY <1>6
      <3>2. QED
        BY <3>1, FlightsCounted
    <2>2. QED
      BY <1>6, <2>1, StoreAssumption DEF Overlap
  <1>10. QED
    BY <1>6, <1>8, <1>9 DEF Overlap

LEMMA OverlapStep ==
    ASSUME OverlapIInv, [StoreNext]_storeVars
    PROVE  OverlapIInv'
  <1>1. StoreIInv /\ Overlap
    BY OverlapSplit
  <1>2. StoreIInv'
    BY <1>1, StepIInv
  <1>3. Overlap'
    <2>1. ASSUME NEW c \in Client, NEW id \in ApprovalId, NEW cap \in Capability,
                 NEW scope \in Scope \cup {NoScope}, Request(c, id, cap, scope)
          PROVE  Overlap'
      BY <1>1, <2>1, OverlapRequest
    <2>2. ASSUME NEW c \in Client, NEW id \in ApprovalId, NEW cap \in Capability,
                 NEW scope \in Scope \cup {NoScope}, Use(c, id, cap, scope)
          PROVE  Overlap'
      BY <1>1, <2>2, OverlapEnter DEF Use, CanUse, Status
    <2>3. ASSUME NEW c \in Client, NEW id \in ApprovalId,
                 NEW decision \in {"approved", "denied"}, Decide(c, id, decision)
          PROVE  Overlap'
      BY <1>1, <2>3, OverlapEnter DEF Decide, Status
    <2>4. ASSUME NEW c \in Client, Copy(c) \/ Commit(c) \/ Die(c)
          PROVE  Overlap'
      BY <1>1, <2>4, OverlapCopy, OverlapCommit, OverlapDie
    <2>5. CASE UNCHANGED storeVars
      BY <1>1, <2>5 DEF storeVars, Overlap, Accounted, InFlight, Deciders, Users,
                        LinesWith, CanDecide, Known, Latest
    <2>6. QED
      BY <2>1, <2>2, <2>3, <2>4, <2>5 DEF StoreNext
  <1>4. QED
    BY <1>2, <1>3 DEF OverlapIInv, Overlap

\* However many clients overlap, and whichever of them die, what they may still write
\* is accounted for.
THEOREM OverlapInvariant == StoreSpec => []OverlapIInv
  <1>1. StoreInit => OverlapIInv
    BY InitIInv, OverlapInit, OverlapSplit
  <1>2. OverlapIInv /\ [StoreNext]_storeVars => OverlapIInv'
    BY OverlapStep
  <1>3. QED
    BY <1>1, <1>2, PTL DEF StoreSpec

\* With n store operations under way at a time, at most n decisions of a request are
\* recorded, and at most n uses of each recorded approval (store.py:77-154).
THEOREM OverlapsAreBounded == StoreSpec => []OverlapBounded
  <1>1. OverlapIInv => OverlapBounded
    <2> SUFFICES ASSUME OverlapIInv, NEW id \in ApprovalId
                 PROVE  /\ Cardinality(LinesWith(id, "approved"))
                               + Cardinality(LinesWith(id, "denied")) <= MaxInFlight
                        /\ Cardinality(LinesWith(id, "used"))
                               <= MaxInFlight * Cardinality(LinesWith(id, "approved"))
      BY DEF OverlapBounded
    <2> DEFINE a == Cardinality(LinesWith(id, "approved"))
               e == Cardinality(LinesWith(id, "denied"))
               v == Cardinality(LinesWith(id, "used"))
               d == Cardinality(Deciders(id))
               u == Cardinality(Users(id))
               p == MaxInFlight * a
    <2>1. /\ a \in Nat /\ e \in Nat /\ v \in Nat /\ d \in Nat /\ u \in Nat
          /\ MaxInFlight \in Nat /\ p \in Nat
      BY AccountsCounted DEF OverlapIInv, StoreIInv
    <2>2. a + e + d <= MaxInFlight /\ v + u <= p
      BY DEF OverlapIInv, Accounted
    <2> HIDE DEF a, e, v, d, u
    <2>3. a + e <= MaxInFlight
      BY <2>1, <2>2
    <2> HIDE DEF p
    <2>4. v <= p
      BY <2>1, <2>2
    <2>5. QED
      BY <2>3, <2>4 DEF a, e, v, p
  <1>2. QED
    BY <1>1, OverlapInvariant, PTL

-----------------------------------------------------------------------------
(* Store operations that never overlap (MaxInFlight = 1): the file is an   *)
(* approval ledger.                                                        *)

\* Nobody is in flight when a client enters an operation.
LEMMA EntersAlone ==
    ASSUME MaxInFlight = 1, Cardinality(InFlight) < MaxInFlight
    PROVE  InFlight = {}
  <1>1. IsFiniteSet(InFlight)
    BY StoreAssumption, FS_Subset DEF InFlight
  <1>2. Cardinality(InFlight) = 0
    BY <1>1, FS_CardinalityType
  <1>3. QED
    BY <1>1, <1>2, FS_EmptySet

\* The file's account of an approval stays complete when the line appended to it
\* continues the latest one.
LEMMA CompleteAfterAppend ==
    ASSUME StoreTypeOK, HistoryComplete, NEW id \in ApprovalId, NEW line \in Line,
           AppendLine(id, line),
           IF Known(id)
           THEN line.history = Append(Latest(id).history, line.status)
           ELSE line.history = <<line.status>>
    PROVE  HistoryComplete'
  <1> DEFINE n == Len(queue[id])
  <1>1. /\ queue[id] \in Seq(Line)
        /\ queue'[id] = Append(queue[id], line)
        /\ \A x \in ApprovalId : x # id => queue'[x] = queue[x]
    BY LatestAfterAppend DEF StoreTypeOK
  <1>2. /\ n \in Nat /\ DOMAIN queue[id] = 1..n /\ DOMAIN queue'[id] = 1..(n + 1)
        /\ Len(queue'[id]) = n + 1
        /\ \A i \in 1..n : queue'[id][i] = queue[id][i]
        /\ queue'[id][n + 1] = line
    BY <1>1, AppendFacts
  <1>3. line.history = [i \in 1..(n + 1) |-> queue'[id][i].status]
    <2>1. CASE Known(id)
      <3>1. Latest(id).history = [i \in 1..n |-> queue[id][i].status]
        BY <1>2, <2>1 DEF HistoryComplete
      <3>2. /\ Latest(id).history \in Seq(Status) /\ line.status \in Status
        BY <2>1, LatestIsLine DEF Line, StoreTypeOK
      <3> DEFINE h == Latest(id).history
                 g == Append(h, line.status)
      <3>3. Len(h) = n /\ DOMAIN h = 1..n
        BY <1>2, <3>1, <3>2, AppendFacts
      <3>4. /\ g \in Seq(Status) /\ DOMAIN g = 1..(n + 1) /\ g[n + 1] = line.status
            /\ \A i \in 1..n : g[i] = h[i]
        BY <3>2, <3>3, AppendFacts
      <3>5. \A i \in 1..(n + 1) : g[i] = queue'[id][i].status
        BY <1>2, <3>1, <3>4
      <3>6. g = [i \in 1..(n + 1) |-> g[i]]
        BY <3>4
      <3>7. QED
        BY <2>1, <3>5, <3>6
    <2>2. CASE ~Known(id)
      <3>1. n = 0
        BY <2>2 DEF Known
      <3>2. QED
        BY <1>2, <2>2, <3>1
    <2>3. QED
      BY <2>1, <2>2
  <1>4. QED
    <2> SUFFICES ASSUME NEW x \in ApprovalId, queue'[x] # <<>>
                 PROVE  queue'[x][Len(queue'[x])].history =
                            [i \in DOMAIN queue'[x] |-> queue'[x][i].status]
      BY DEF HistoryComplete, Known, Latest
    <2>1. CASE x = id
      BY <1>2, <1>3, <2>1
    <2>2. CASE x # id
      BY <1>1, <2>2 DEF HistoryComplete, Known, Latest
    <2>3. QED
      BY <2>1, <2>2

-----------------------------------------------------------------------------
(* One lemma per way the store's state can change.                         *)

\* The conjuncts of SerialIInv about the clients in flight.
Serial ==
    /\ \A c, d \in InFlight : c = d
    /\ \A c \in InFlight :
        /\ frame[c].to # "pending"
        /\ Latest(frame[c].id).status = Before(frame[c].to)
        /\ frame[c].at = "copied" => frame[c].record = Latest(frame[c].id)

LEMMA SerialSplit == SerialIInv <=> StoreIInv /\ HistoryComplete /\ Serial
  BY DEF SerialIInv, Serial

LEMMA SerialInit == StoreInit => HistoryComplete /\ Serial
  <1> SUFFICES ASSUME StoreInit PROVE HistoryComplete /\ Serial
    OBVIOUS
  <1>1. Serial
    BY DEF StoreInit, InFlight, Serial
  <1>2. ASSUME NEW id \in ApprovalId, Known(id)
        PROVE  Latest(id).history = [i \in DOMAIN queue[id] |-> queue[id][i].status]
    <2>1. PICK cap \in Capability, scope \in Scope \cup {NoScope} :
              queue[id] = <<NewRequest(cap, scope)>>
      BY <1>2 DEF StoreInit, Known
    <2>2. /\ DOMAIN queue[id] = {1} /\ Latest(id) = NewRequest(cap, scope)
          /\ \A i \in {1} : queue[id][i] = NewRequest(cap, scope)
      BY <2>1 DEF Latest
    <2>3. [i \in {1} |-> queue[id][i].status] = <<"pending">>
      BY <2>1 DEF NewRequest
    <2>4. QED
      BY <2>2, <2>3 DEF NewRequest
  <1>3. QED
    BY <1>1, <1>2 DEF HistoryComplete

LEMMA SameHistories ==
    ASSUME HistoryComplete, queue' = queue
    PROVE  HistoryComplete'
  BY DEF HistoryComplete, Known, Latest

LEMMA SerialEnter ==
    ASSUME MaxInFlight = 1, SerialIInv, NEW c \in Client, NEW id \in ApprovalId,
           NEW status \in Status, status # "pending",
           Latest(id).status = Before(status), Enter(c, id, status)
    PROVE  HistoryComplete' /\ Serial'
  <1>1. InFlight = {} /\ queue' = queue
    BY EntersAlone DEF Enter
  <1>2. frame' = [frame EXCEPT ![c] = [at |-> "checked", id |-> id, to |-> status]]
    BY DEF Enter
  <1>3. \A d \in InFlight' : d = c
    BY <1>1, <1>2 DEF InFlight, SerialIInv, StoreIInv, StoreTypeOK
  <1>4. Serial'
    BY <1>1, <1>2, <1>3 DEF Serial, SerialIInv, StoreIInv, StoreTypeOK, Latest, InFlight
  <1>5. QED
    BY <1>1, <1>4, SameHistories DEF SerialIInv

LEMMA SerialCopy ==
    ASSUME SerialIInv, NEW c \in Client, Copy(c)
    PROVE  HistoryComplete' /\ Serial'
  <1> DEFINE id == frame[c].id
             f == [at |-> "copied", id |-> id, to |-> frame[c].to,
                   record |-> Latest(id)]
  <1>1. c \in InFlight /\ queue' = queue /\ frame' = [frame EXCEPT ![c] = f]
    BY DEF Copy, InFlight, Idle
  <1>2. \A d \in InFlight' : d = c
    BY <1>1 DEF InFlight, SerialIInv, StoreIInv, StoreTypeOK
  <1>3. frame'[c] = f
    BY <1>1 DEF SerialIInv, StoreIInv, StoreTypeOK
  <1>4. Latest(id)' = Latest(f.id)
    BY <1>1, <1>3 DEF Latest
  <1>5. Serial'
    <2>1. f.to # "pending" /\ Latest(f.id).status = Before(f.to)
      BY <1>1 DEF SerialIInv
    <2>2. QED
      BY <1>1, <1>2, <1>3, <2>1 DEF Serial, Latest
  <1>6. QED
    BY <1>1, <1>5, SameHistories DEF SerialIInv

LEMMA SerialLeave ==
    ASSUME SerialIInv, NEW c \in Client, frame' = [frame EXCEPT ![c] = Idle],
           c \in InFlight
    PROVE  InFlight' = {}
  BY DEF SerialIInv, StoreIInv, StoreTypeOK, InFlight

LEMMA SerialCommit ==
    ASSUME SerialIInv, NEW c \in Client, Commit(c)
    PROVE  HistoryComplete' /\ Serial'
  <1> DEFINE id == frame[c].id
             line == Transitioned(frame[c].record, frame[c].to)
  <1>1. c \in InFlight /\ frame[c] # Idle /\ frame[c].at = "copied"
    BY DEF Commit, InFlight, Idle
  <1>2. /\ id \in ApprovalId /\ frame[c].to \in Status /\ frame[c].record \in Line
        /\ FrameHonest(queue, frame[c])
    BY <1>1, BusyFrame DEF SerialIInv
  <1>3. Known(id) /\ frame[c].record = Latest(id)
    BY <1>1, <1>2 DEF SerialIInv, FrameHonest, Known
  <1>4. /\ line \in Line /\ line.status = frame[c].to
        /\ line.history = Append(Latest(id).history, line.status)
    BY <1>2, <1>3, TransitionedType
  <1>5. HistoryComplete'
    BY <1>2, <1>3, <1>4, CompleteAfterAppend DEF Commit, SerialIInv, StoreIInv
  <1>6. InFlight' = {}
    BY <1>1, SerialLeave DEF Commit
  <1>7. QED
    BY <1>5, <1>6 DEF Serial

LEMMA SerialRequest ==
    ASSUME SerialIInv, NEW c \in Client, NEW id \in ApprovalId, NEW cap \in Capability,
           NEW scope \in Scope \cup {NoScope}, Request(c, id, cap, scope)
    PROVE  HistoryComplete' /\ Serial'
  <1> DEFINE line == NewRequest(cap, scope)
  <1>1. line \in Line /\ line.history = <<line.status>>
    BY NewRequestType DEF NewRequest
  <1>2. ~Known(id) /\ AppendLine(id, line) /\ frame' = frame
    BY DEF Request
  <1>3. HistoryComplete'
    BY <1>1, <1>2, CompleteAfterAppend DEF SerialIInv, StoreIInv
  <1>4. \A x \in ApprovalId : x # id => queue'[x] = queue[x]
    BY <1>1, <1>2, LatestAfterAppend DEF SerialIInv, StoreIInv
  <1>5. ASSUME NEW d \in InFlight PROVE queue'[frame[d].id] = queue[frame[d].id]
    <2>1. d \in Client /\ frame[d] # Idle
      BY DEF InFlight
    <2>2. frame[d].id \in ApprovalId /\ FrameHonest(queue, frame[d])
      BY <2>1, BusyFrame DEF SerialIInv
    <2>3. QED
      BY <1>2, <1>4, <2>2 DEF FrameHonest, Known
  <1>6. Serial'
    BY <1>2, <1>5 DEF SerialIInv, Serial, InFlight, Latest
  <1>7. QED
    BY <1>3, <1>6

\* What decide() and use() check is the standing their operation moves on from.
LEMMA ChecksStanding ==
    /\ \A c, id, decision :
          Decide(c, id, decision) => Known(id) /\ Latest(id).status = "pending"
    /\ \A c, id, cap, scope :
          Use(c, id, cap, scope) => Known(id) /\ Latest(id).status = "approved"
  BY DEF Decide, CanDecide, Use, CanUse

LEMMA SerialStep ==
    ASSUME MaxInFlight = 1, SerialIInv, [StoreNext]_storeVars
    PROVE  SerialIInv'
  <1>1. StoreIInv'
    BY StepIInv DEF SerialIInv
  <1>2. HistoryComplete' /\ Serial'
    <2>1. ASSUME NEW c \in Client, NEW id \in ApprovalId, NEW cap \in Capability,
                 NEW scope \in Scope \cup {NoScope}, Request(c, id, cap, scope)
          PROVE  HistoryComplete' /\ Serial'
      BY <2>1, SerialRequest
    <2>2. ASSUME NEW c \in Client, NEW id \in ApprovalId, NEW cap \in Capability,
                 NEW scope \in Scope \cup {NoScope}, Use(c, id, cap, scope)
          PROVE  HistoryComplete' /\ Serial'
      BY <2>2, ChecksStanding, SerialEnter DEF Use, Before, Status
    <2>3. ASSUME NEW c \in Client, NEW id \in ApprovalId,
                 NEW decision \in {"approved", "denied"}, Decide(c, id, decision)
          PROVE  HistoryComplete' /\ Serial'
      BY <2>3, ChecksStanding, SerialEnter DEF Decide, Before, Status
    <2>4. ASSUME NEW c \in Client, Copy(c) \/ Commit(c)
          PROVE  HistoryComplete' /\ Serial'
      BY <2>4, SerialCopy, SerialCommit
    <2>5. ASSUME NEW c \in Client, Die(c)
          PROVE  HistoryComplete' /\ Serial'
      <3>1. InFlight' = {} /\ queue' = queue
        BY <2>5, SerialLeave DEF Die, InFlight
      <3>2. QED
        BY <3>1, SameHistories DEF SerialIInv, Serial
    <2>6. CASE UNCHANGED storeVars
      BY <2>6, SameHistories DEF storeVars, SerialIInv, Serial, InFlight, Latest
    <2>7. QED
      BY <2>1, <2>2, <2>3, <2>4, <2>5, <2>6 DEF StoreNext
  <1>3. QED
    BY <1>1, <1>2, SerialSplit, PTL

-----------------------------------------------------------------------------
(* The refinement: each step of the store is a step of the ledger or none. *)

\* The standings the file gives.
Standings == [id \in ApprovalId |-> StandingOf(id)]

LEMMA LedgerInit == StoreInit => Ledger!Init
  <1> SUFFICES ASSUME StoreInit, NEW id \in ApprovalId
               PROVE  StandingOf(id) \in {"none", "pending"}
    BY DEF Ledger!Init
  <1>1. CASE Known(id)
    <2>1. PICK cap \in Capability, scope \in Scope \cup {NoScope} :
              queue[id] = <<NewRequest(cap, scope)>>
      BY <1>1 DEF StoreInit, Known
    <2>2. QED
      BY <2>1 DEF StandingOf, Latest, NewRequest
  <1>2. CASE ~Known(id)
    BY <1>2 DEF StandingOf
  <1>3. QED
    BY <1>1, <1>2

LEMMA SameStandings ==
    ASSUME queue' = queue
    PROVE  Standings' = Standings
  BY DEF Standings, StandingOf, Known, Latest

\* An append moves the standing of its approval and of no other.
LEMMA StandingsAfterAppend ==
    ASSUME StoreTypeOK, NEW id \in ApprovalId, NEW line \in Line, AppendLine(id, line)
    PROVE  Standings' = [Standings EXCEPT ![id] = line.status]
  <1>1. /\ queue'[id] # <<>> /\ queue'[id][Len(queue'[id])] = line
        /\ \A x \in ApprovalId : x # id => queue'[x] = queue[x]
    BY LatestAfterAppend
  <1>2. \A x \in ApprovalId :
            StandingOf(x)' = IF x = id THEN line.status ELSE StandingOf(x)
    BY <1>1 DEF StandingOf, Known, Latest
  <1>3. QED
    BY <1>2 DEF Standings

LEMMA LedgerStep ==
    ASSUME SerialIInv, [StoreNext]_storeVars
    PROVE  [Ledger!Next]_Standings
  <1>1. ASSUME NEW c \in Client, NEW id \in ApprovalId, NEW cap \in Capability,
               NEW scope \in Scope \cup {NoScope}, Request(c, id, cap, scope)
        PROVE  [Ledger!Next]_Standings
    <2>1. Standings[id] = "none"
      BY <1>1 DEF Request, Standings, StandingOf
    <2>2. NewRequest(cap, scope) \in Line /\ NewRequest(cap, scope).status = "pending"
      BY NewRequestType DEF NewRequest
    <2>3. Standings' = [Standings EXCEPT ![id] = "pending"]
      BY <1>1, <2>2, StandingsAfterAppend DEF Request, SerialIInv, StoreIInv
    <2>4. Ledger!Ask(id)
      BY <2>1, <2>3 DEF Ledger!Ask, Standings
    <2>5. QED
      BY <2>4 DEF Ledger!Next
  <1>2. ASSUME NEW c \in Client, Commit(c)
        PROVE  [Ledger!Next]_Standings
    <2> DEFINE id == frame[c].id
               to == frame[c].to
    <2>1. c \in InFlight /\ frame[c] # Idle /\ frame[c].at = "copied"
      BY <1>2 DEF Commit, InFlight, Idle
    <2>2. /\ id \in ApprovalId /\ to \in Status /\ frame[c].record \in Line
          /\ FrameHonest(queue, frame[c])
      BY <2>1, BusyFrame DEF SerialIInv
    <2>3. to # "pending" /\ Standings[id] = Before(to)
      BY <2>1, <2>2 DEF SerialIInv, Standings, StandingOf, FrameHonest, Known
    <2>4. /\ Transitioned(frame[c].record, to) \in Line
          /\ Transitioned(frame[c].record, to).status = to
      BY <2>2, TransitionedType
    <2>5. Standings' = [Standings EXCEPT ![id] = to]
      BY <1>2, <2>2, <2>4, StandingsAfterAppend DEF Commit, SerialIInv, StoreIInv
    <2>6. CASE to = "used"
      <3>1. Ledger!Consume(id)
        BY <2>3, <2>5, <2>6 DEF Ledger!Consume, Standings, Before
      <3>2. QED
        BY <2>2, <3>1 DEF Ledger!Next
    <2>7. CASE to \in {"approved", "denied"}
      <3>1. Ledger!Decide(id, to)
        BY <2>3, <2>5, <2>7 DEF Ledger!Decide, Standings, Before
      <3>2. QED
        BY <2>2, <2>7, <3>1 DEF Ledger!Next
    <2>8. QED
      BY <2>2, <2>3, <2>6, <2>7 DEF Status
  <1>3. ASSUME queue' = queue
        PROVE  [Ledger!Next]_Standings
    BY <1>3, SameStandings
  <1>4. QED
    BY <1>1, <1>2, <1>3 DEF StoreNext, storeVars, Use, Decide, Enter, Copy, Die

-----------------------------------------------------------------------------
(* The theorems.                                                           *)

\* The inductive invariant of operations that never overlap.
THEOREM SerialInvariant ==
    ASSUME MaxInFlight = 1
    PROVE  StoreSpec => []SerialIInv
  <1>1. StoreInit => SerialIInv
    BY InitIInv, SerialInit, SerialSplit
  <1>2. SerialIInv /\ [StoreNext]_storeVars => SerialIInv'
    BY SerialStep
  <1>3. QED
    BY <1>1, <1>2, PTL DEF StoreSpec

\* When operations do not overlap, the record of an approval accounts for every
\* transition the file holds of it.
THEOREM SerialHistoriesAreComplete ==
    ASSUME MaxInFlight = 1
    PROVE  StoreSpec => []HistoryComplete
  <1>1. SerialIInv => HistoryComplete
    BY DEF SerialIInv
  <1>2. QED
    BY <1>1, SerialInvariant, PTL

\* When operations do not overlap, the file is an approval ledger: a request is
\* decided once, an approval consumed once, and nothing else ever happens to them.
THEOREM SerialStoreIsLedger ==
    ASSUME MaxInFlight = 1
    PROVE  StoreSpec => ImplementsLedger
  <1>1. StoreInit => Ledger!Init
    BY LedgerInit
  <1>2. SerialIInv /\ [StoreNext]_storeVars
            => [Ledger!Next]_([id \in ApprovalId |-> StandingOf(id)])
    BY LedgerStep DEF Standings
  <1>3. QED
    BY <1>1, <1>2, SerialInvariant, PTL DEF StoreSpec, ImplementsLedger, Ledger!Spec

\* When operations do not overlap, no approval is consumed twice; with two at a time one
\* is (the run approval_single_use): it is overlap that costs single use, and nothing else
\* (store.py:105-154).
THEOREM SerialUseIsSingle ==
    ASSUME MaxInFlight = 1
    PROVE  StoreSpec => []SingleUse
  <1>1. StoreTypeOK /\ OverlapBounded => SingleUse
    <2> SUFFICES ASSUME StoreTypeOK, OverlapBounded, NEW id \in ApprovalId
                 PROVE  Cardinality(LinesWith(id, "used")) <= 1
      BY DEF SingleUse
    <2>1. PICK approvals, denials, uses :
              /\ approvals = Cardinality(LinesWith(id, "approved"))
              /\ denials = Cardinality(LinesWith(id, "denied"))
              /\ uses = Cardinality(LinesWith(id, "used"))
      OBVIOUS
    <2>2. approvals \in Nat /\ denials \in Nat /\ uses \in Nat
      BY <2>1, LinesCounted
    <2>3. approvals + denials <= 1 /\ uses <= 1 * approvals
      BY <2>1 DEF OverlapBounded
    <2>4. QED
      BY <2>1, <2>2, <2>3
  <1>2. QED
    BY <1>1, StoreTypeCorrect, OverlapsAreBounded, PTL
==============================================================================
