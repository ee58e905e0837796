---------------------------- MODULE ApprovalStore ----------------------------
(***************************************************************************)
(* The approval queue of cbn_approval/store.py: a JSONL file to which      *)
(* every operation appends a whole record, and in which the last line that *)
(* names an approval is the approval.  The daemon serves each request in a *)
(* thread of its own with a store of its own, and every CLI invocation is  *)
(* another process; nothing locks the file.  Deciding or using an approval *)
(* is therefore three steps another client may interleave with: read the   *)
(* record and check it, read it again to copy it, append the copy with its *)
(* new status.                                                             *)
(***************************************************************************)
EXTENDS Integers, Sequences, FiniteSets

CONSTANTS
    Client,       \* threads of the daemon and CLI processes
    ApprovalId,   \* the approvals there may ever be (uuid4: no two collide)
    Capability,   \* capability ids
    Scope,        \* scope hashes
    NoScope,      \* scope_hash None: legacy records, and uses that check none
    Left,         \* approvals an earlier session left pending in the file
    MaxInFlight   \* how many store operations may be under way at once

ASSUME StoreAssumption ==
    /\ IsFiniteSet(Client)
    /\ NoScope \notin Scope
    /\ Left \subseteq ApprovalId
    /\ MaxInFlight \in Nat \ {0}

VARIABLES
    queue,        \* queue[id]: the lines of the file that name id, in order
    frame         \* frame[c]: where client c stands inside decide() or use()

storeVars == <<queue, frame>>

Status == {"pending", "approved", "denied", "used"}

\* A line of the file: what the model keeps of the record it holds.  `history'
\* is the list of actions the record carries along (its first, `requested', is
\* written as the status it gives).
Line == [status : Status, cap : Capability, scope : Scope \cup {NoScope},
         history : Seq(Status)]

Idle == [at |-> "idle"]

Frame == {Idle}
    \cup [at : {"checked"}, id : ApprovalId, to : Status]
    \cup [at : {"copied"}, id : ApprovalId, to : Status, record : Line]

-----------------------------------------------------------------------------
(* Reading the file.                                                       *)

Known(id) == queue[id] # <<>>

Latest(id) == queue[id][Len(queue[id])]

\* Faulty variant: a decided request can be decided again.
CanDecideAgain(id) == Known(id)

CanDecide(id) == Known(id) /\ Latest(id).status = "pending"

\* Faulty variant: the status is not checked.
CanUseAnyStatus(id, cap, scope) ==
    /\ Known(id)
    /\ Latest(id).cap = cap
    /\ scope # NoScope => Latest(id).scope = scope

\* Faulty variant: the scope is not checked.
CanUseAnyScope(id, cap, scope) ==
    /\ Known(id)
    /\ Latest(id).cap = cap
    /\ Latest(id).status = "approved"

CanUse(id, cap, scope) ==
    /\ Known(id)
    /\ Latest(id).cap = cap
    /\ scope # NoScope => Latest(id).scope = scope
    /\ Latest(id).status = "approved"

-----------------------------------------------------------------------------
(* Writing it.                                                             *)

NewRequest(cap, scope) ==
    [status |-> "pending", cap |-> cap, scope |-> scope,
     history |-> <<"pending">>]

\* Faulty variant: the history starts over.
TransitionedFresh(record, status) ==
    [record EXCEPT !.status = status, !.history = <<status>>]

Transitioned(record, status) ==
    [record EXCEPT !.status = status, !.history = Append(@, status)]

AppendLine(id, line) ==
    queue' = [queue EXCEPT ![id] = Append(@, line)]

InFlight == {c \in Client : frame[c] # Idle}

\* A client enters decide() or use(), its check having passed.
Enter(c, id, status) ==
    /\ frame[c] = Idle
    /\ Cardinality(InFlight) < MaxInFlight
    /\ frame' = [frame EXCEPT ![c] = [at |-> "checked", id |-> id, to |-> status]]
    /\ UNCHANGED queue

-----------------------------------------------------------------------------
(* The operations.                                                         *)

StoreInit ==
    /\ queue \in [ApprovalId -> {<<>>} \cup
                    {<<NewRequest(cap, scope)>> :
                        cap \in Capability, scope \in Scope \cup {NoScope}}]
    /\ \A id \in ApprovalId : Known(id) <=> id \in Left
    /\ frame = [c \in Client |-> Idle]

\* request(): a fresh id, one append.
Request(c, id, cap, scope) ==
    /\ frame[c] = Idle
    /\ ~Known(id)
    /\ AppendLine(id, NewRequest(cap, scope))
    /\ UNCHANGED frame

\* decide(): the record is pending when it is read.
Decide(c, id, decision) ==
    /\ CanDecide(id)
    /\ Enter(c, id, decision)

\* use(): the record is for this capability and scope, and approved, when read.
Use(c, id, cap, scope) ==
    /\ CanUse(id, cap, scope)
    /\ Enter(c, id, "used")

\* _transition() reads the record a second time and checks nothing.
Copy(c) ==
    /\ frame[c].at = "checked"
    /\ frame' = [frame EXCEPT ![c] =
                    [at |-> "copied", id |-> frame[c].id, to |-> frame[c].to,
                     record |-> Latest(frame[c].id)]]
    /\ UNCHANGED queue

\* _transition() appends the copy under its new status.
Commit(c) ==
    /\ frame[c].at = "copied"
    /\ AppendLine(frame[c].id, Transitioned(frame[c].record, frame[c].to))
    /\ frame' = [frame EXCEPT ![c] = Idle]

\* The client's process dies inside the operation: nothing is appended.
Die(c) ==
    /\ frame[c] # Idle
    /\ frame' = [frame EXCEPT ![c] = Idle]
    /\ UNCHANGED queue

StoreNext == \E c \in Client :
    \/ \E id \in ApprovalId :
        \/ \E cap \in Capability, scope \in Scope \cup {NoScope} :
            \/ Request(c, id, cap, scope)
            \/ Use(c, id, cap, scope)
        \/ \E decision \in {"approved", "denied"} : Decide(c, id, decision)
    \/ Copy(c)
    \/ Commit(c)
    \/ Die(c)

StoreSpec == StoreInit /\ [][StoreNext]_storeVars

-----------------------------------------------------------------------------
(* Properties.                                                             *)

\* The file and the clients' frames hold values of their types.
StoreTypeOK ==
    /\ queue \in [ApprovalId -> Seq(Line)]
    /\ frame \in [Client -> Frame]

LinesWith(id, status) ==
    {i \in DOMAIN queue[id] : queue[id][i].status = status}

\* However clients interleave, an approval is marked used only after a line of
\* the file approved it (store.py:112 checks one read, :154 appends later).
GrantBeforeUse ==
    \A id \in ApprovalId : \A i \in LinesWith(id, "used") :
        \E j \in LinesWith(id, "approved") : j < i

\* Line i continues an earlier line, or opens the file's account of the approval.
Rooted(lines, i) ==
    IF i = 1
    THEN lines[i].history = <<"pending">>
    ELSE \E j \in 1..(i - 1) :
            /\ lines[i].history = Append(lines[j].history, lines[i].status)
            /\ lines[i].cap = lines[j].cap
            /\ lines[i].scope = lines[j].scope

\* No line invents a past: its history is that of an earlier line of the same
\* approval and its own status, and it is about the same capability and scope
\* (store.py:141-154 copies the record it read).
HistoryRooted ==
    \A id \in ApprovalId : \A i \in DOMAIN queue[id] : Rooted(queue[id], i)

\* What a client inside an operation relies on: the approval it works on is in the
\* file, it is consuming it only because a line approved it, and the record it has
\* copied is a line of the file.  With the properties above this is inductive.
FrameHonest(q, f) ==
    /\ q[f.id] # <<>>
    /\ f.to = "used" => \E j \in DOMAIN q[f.id] : q[f.id][j].status = "approved"
    /\ f.at = "copied" => \E j \in DOMAIN q[f.id] : q[f.id][j] = f.record

FramesHonest == \A c \in Client : frame[c] # Idle => FrameHonest(queue, frame[c])

StoreIInv == StoreTypeOK /\ FramesHonest /\ GrantBeforeUse /\ HistoryRooted

\* The damage overlapping operations can do is bounded: at most MaxInFlight
\* decisions are recorded of a request, and at most MaxInFlight uses of each
\* recorded approval.  With MaxInFlight = 1 an approval is decided once and
\* consumed once.
OverlapBounded ==
    \A id \in ApprovalId :
        LET approvals == Cardinality(LinesWith(id, "approved"))
            denials   == Cardinality(LinesWith(id, "denied"))
        IN  /\ approvals + denials <= MaxInFlight
            /\ Cardinality(LinesWith(id, "used")) <= MaxInFlight * approvals

\* Who is deciding a request, and who is consuming an approval.
Deciders(id) == {c \in InFlight : frame[c].id = id /\ frame[c].to # "used"}

Users(id) == {c \in InFlight : frame[c].id = id /\ frame[c].to = "used"}

\* Nothing was decided of a request that is pending: every client that may still
\* decide it is counted by MaxInFlight.  While the latest line approves, none of the
\* uses that approval makes possible is in the file yet.
Accounted(id) ==
    LET approvals == Cardinality(LinesWith(id, "approved"))
        denials   == Cardinality(LinesWith(id, "denied"))
        uses      == Cardinality(LinesWith(id, "used"))
    IN  /\ CanDecide(id) => approvals + denials = 0
        /\ approvals + denials + Cardinality(Deciders(id)) <= MaxInFlight
        /\ uses + Cardinality(Users(id)) <= MaxInFlight * approvals
        /\ Known(id) /\ Latest(id).status = "approved" =>
               uses + MaxInFlight <= MaxInFlight * approvals

\* With these OverlapBounded is inductive.
OverlapIInv ==
    /\ StoreIInv
    /\ Cardinality(InFlight) <= MaxInFlight
    /\ \A c \in InFlight : frame[c].to # "pending"
    /\ \A id \in ApprovalId : Accounted(id)

\* The record of an approval accounts for every transition the file holds of it:
\* its history is the sequence of the lines' statuses.
HistoryComplete ==
    \A id \in ApprovalId : Known(id) =>
        Latest(id).history = [i \in DOMAIN queue[id] |-> queue[id][i].status]

\* The standing an operation that moves an approval to `status' found it in.
Before(status) == IF status = "used" THEN "approved" ELSE "pending"

\* When no two operations overlap, what a client read is still the latest line when
\* it appends.
SerialIInv ==
    /\ StoreIInv
    /\ HistoryComplete
    /\ \A c, d \in InFlight : c = d
    /\ \A c \in InFlight :
        /\ frame[c].to # "pending"
        /\ Latest(frame[c].id).status = Before(frame[c].to)
        /\ frame[c].at = "copied" => frame[c].record = Latest(frame[c].id)

\* An approval is consumed at most once.
SingleUse ==
    \A id \in ApprovalId : Cardinality(LinesWith(id, "used")) <= 1

\* The standing the file gives an approval.
StandingOf(id) == IF Known(id) THEN Latest(id).status ELSE "none"

Ledger == INSTANCE ApprovalLedger
    WITH standing <- [id \in ApprovalId |-> StandingOf(id)]

\* The store implements the ledger (checked with MaxInFlight = 1).
ImplementsLedger == Ledger!Spec
=============================================================================
